---------------------------- MODULE MCLogScripts ----------------------------
(***************************************************************************)
(* LogScripts with two logs, of which the second has the user of the first *)
(* one and another, and with one instance of each program.                 *)
(***************************************************************************)
EXTENDS LogScripts, TLC

MCContent == 1 :> <<1, 0>> @@ 2 :> <<2, 1>>
MCProgram == "z" :> "nfs-zipper" @@ "a" :> "nfs-anon"
=============================================================================
