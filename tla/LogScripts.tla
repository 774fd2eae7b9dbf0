----------------------------- MODULE LogScripts -----------------------------
(***************************************************************************)
(* The scripts that cron runs over the directory of logs:                  *)
(* nfs-zipper.pl and nfs-anon.pl with the maps of anonymize.pl.            *)
(*                                                                         *)
(* nfsdump leaves `$LogName-l.txt'.  A script lists the logs once, at its  *)
(* start, and makes of each of them `anon-$LogName-l.txt.gz', or without   *)
(* $DoAnonymization `$LogName-l.txt.gz'.  Several instances may run at     *)
(* once, each may be killed between any two steps, and the template may be *)
(* edited while they run.                                                  *)
(*                                                                         *)
(* A log is the sequence of the values of one interesting field, such as   *)
(* uid, in its lines.  The maps of hosts, uids, gids and words differ in   *)
(* their first code and their unmapped values only: the module has one.    *)
(***************************************************************************)
EXTENDS Integers, Sequences, FiniteSets

CONSTANTS
    Logs,           \* the logs, in the order of their names
    Ids, Unmapped,  \* values of the field; those that stay as they are
    Content,        \* the values in each log
    FirstCode,      \* the first code of an empty map
    NoFile,         \* the stream is not open
    Scripts, Program,       \* instances and the program each one runs
    MaxFaults, MaxEdits     \* bounds

ASSUME ScriptsAssumption ==
    /\ Logs \subseteq Nat /\ IsFiniteSet(Logs)
    /\ Unmapped \subseteq Ids /\ Ids \subseteq Nat /\ IsFiniteSet(Ids)
    /\ Content \in [Logs -> Seq(Ids)] /\ ~ (NoFile \in Seq(Ids))
    /\ FirstCode \in Nat  \* no code, of which each value takes one, is an unmapped value
    /\ \A id \in Unmapped : id < FirstCode \/ id >= FirstCode + Cardinality(Ids)
    /\ Program \in [Scripts -> {"nfs-zipper", "nfs-anon"}]
    /\ MaxFaults \in Nat /\ MaxEdits \in Nat

VARIABLES
    DoAnonymization,    \* the template's
    txt, gz, anon,      \* the files, by log: present, state, codes written
    db,                 \* the map's file
    pc, doAnon,         \* of each script; doAnon: $DoAnonymization at its start
    todo,               \* the files it has still to handle, the current one first
    made, src,          \* whether OUT is there; what IN has still to give
    map, cache,         \* the tied map and the cache before it
    published,          \* the logs that nfsdump has written
    disturbed,          \* logs two scripts had listed, or of which OUT was cut off
    split,              \* codes given out were lost, or two scripts gave them out
    faults, edits

dirVars == <<txt, gz, anon>>
ghosts == <<published, disturbed, split>>
vars == <<DoAnonymization, dirVars, db, pc, doAnon, todo, made, src, map, cache,
          ghosts, faults, edits>>

NoMax == -1         \* no $MAXKEY in the map
NoMap == [of |-> <<>>, max |-> NoMax]   \* a map that is not tied, or was never made

Init ==
    /\ DoAnonymization = FALSE       \* as in host.tmplt
    /\ txt = {} /\ gz = <<>> /\ anon = <<>>
    /\ db = NoMap
    /\ pc = [p \in Scripts |-> "idle"] /\ doAnon = [p \in Scripts |-> FALSE]
    /\ todo = [p \in Scripts |-> <<>>]
    /\ made = [p \in Scripts |-> FALSE] /\ src = [p \in Scripts |-> NoFile]
    /\ map = [p \in Scripts |-> NoMap] /\ cache = [p \in Scripts |-> <<>>]
    /\ published = {} /\ disturbed = {} /\ split = FALSE
    /\ faults = 0 /\ edits = 0

\* Of nfsdump only the rename that makes a complete log appear.
Publish(l) ==
    /\ l \notin published
    /\ published' = published \cup {l}
    /\ txt' = txt \cup {l}
    /\ UNCHANGED <<DoAnonymization, gz, anon, db, pc, doAnon, todo, made, src, map,
                   cache, disturbed, split, faults, edits>>

\* The owner of the template changes $DoAnonymization.
Edit ==
    /\ edits < MaxEdits
    /\ edits' = edits + 1
    /\ DoAnonymization' = ~ DoAnonymization
    /\ UNCHANGED <<dirVars, db, pc, doAnon, todo, made, src, map, cache, ghosts, faults>>
-----------------------------------------------------------------------------
\* The main programs.

\* glob gives the names in order: the one increasing list of a set of logs.
Sorted(ls) == {s \in [1..Cardinality(ls) -> ls] : \A i, j \in DOMAIN s : i < j => s[i] < s[j]}
Named(kind, s) == [i \in DOMAIN s |-> <<kind, s[i]>>]

\* A wrong list: compressed logs first.
Listed_GzFirst(p) ==
    IF Program[p] = "nfs-anon"
    THEN {Named("gz", s) \o Named("txt", t) : s \in Sorted(DOMAIN gz), t \in Sorted(txt)}
    ELSE {Named("txt", t) : t \in Sorted(txt)}

\* Both lists are made before the first file is handled.
Listed(p) ==
    IF Program[p] = "nfs-anon"
    THEN {Named("txt", t) \o Named("gz", s) : t \in Sorted(txt), s \in Sorted(DOMAIN gz)}
    ELSE {Named("txt", t) : t \in Sorted(txt)}

LogsOf(files) == {files[i][2] : i \in DOMAIN files}

File(p) == Head(todo[p])
Log(p) == File(p)[2]

\* nfs-anon.pl has nothing to do without $DoAnonymization.
Start(p) ==
    /\ pc[p] = "idle"
    /\ Program[p] = "nfs-anon" => DoAnonymization
    /\ \E files \in Listed(p) : todo' = [todo EXCEPT ![p] = files]
    /\ doAnon' = [doAnon EXCEPT ![p] = DoAnonymization]
    /\ pc' = [pc EXCEPT ![p] = "next"]
    /\ disturbed' = disturbed \cup
            (LogsOf(todo'[p]) \cap UNION {LogsOf(todo[q]) : q \in Scripts \ {p}})
    /\ UNCHANGED <<DoAnonymization, dirVars, db, made, src, map, cache, published, split,
                   faults, edits>>

\* if (-f "$out_file"); for <l>.txt and <l>.txt.gz it has the same name.
CheckOut(p) ==
    /\ pc[p] = "next" /\ todo[p] # <<>> /\ doAnon[p]
    /\ pc' = [pc EXCEPT ![p] = IF Log(p) \in DOMAIN anon THEN "unlink" ELSE "maps"]
    /\ UNCHANGED <<DoAnonymization, dirVars, db, doAnon, todo, made, src, map, cache,
                   ghosts, faults, edits>>

\* A wrong unlink: compressed logs stay.
Unlinked_TxtOnly(file) ==
    /\ txt' = IF file[1] = "txt" THEN txt \ {file[2]} ELSE txt
    /\ gz' = gz

\* A file that is gone already is no error.
Unlinked(file) ==
    /\ txt' = IF file[1] = "txt" THEN txt \ {file[2]} ELSE txt
    /\ gz' = IF file[1] = "gz" THEN [l \in DOMAIN gz \ {file[2]} |-> gz[l]] ELSE gz

\* unlink $df, whether doAnonZip did or skipped it.
Unlink(p) ==
    /\ pc[p] = "unlink"
    /\ Unlinked(File(p))
    /\ todo' = [todo EXCEPT ![p] = Tail(@)]
    /\ pc' = [pc EXCEPT ![p] = "next"]
    /\ UNCHANGED <<DoAnonymization, anon, db, doAnon, made, src, map, cache, ghosts,
                   faults, edits>>

\* exit (0): the cache goes with the process.
Exit(p) ==
    /\ pc[p] = "next" /\ todo[p] = <<>>
    /\ pc' = [pc EXCEPT ![p] = "idle"]
    /\ cache' = [cache EXCEPT ![p] = <<>>] /\ doAnon' = [doAnon EXCEPT ![p] = FALSE]
    /\ UNCHANGED <<DoAnonymization, dirVars, db, todo, made, src, map, ghosts, faults,
                   edits>>

\* A file, or an entry of a map, is written or replaced.
Put(f, x, v) == [y \in DOMAIN f \cup {x} |-> IF y = x THEN v ELSE f[y]]

\* gzip begins.  It refuses if the log is gone or its output is there already.
GzipStart(p) ==
    /\ pc[p] = "next" /\ todo[p] # <<>> /\ ~ doAnon[p]
    /\ IF Log(p) \in txt /\ Log(p) \notin DOMAIN gz
       THEN /\ gz' = Put(gz, Log(p), "part")
            /\ pc' = [pc EXCEPT ![p] = "gzip"]
            /\ UNCHANGED todo
       ELSE /\ todo' = [todo EXCEPT ![p] = Tail(@)]
            /\ UNCHANGED <<gz, pc>>
    /\ UNCHANGED <<DoAnonymization, txt, anon, db, doAnon, made, src, map, cache, ghosts,
                   faults, edits>>

\* gzip has written the output, if nobody unlinked it, and unlinks the log.
GzipFinish(p) ==
    /\ pc[p] = "gzip"
    /\ gz' = [l \in DOMAIN gz |-> IF l = Log(p) THEN "whole" ELSE gz[l]]
    /\ txt' = txt \ {Log(p)}
    /\ todo' = [todo EXCEPT ![p] = Tail(@)]
    /\ pc' = [pc EXCEPT ![p] = "next"]
    /\ UNCHANGED <<DoAnonymization, anon, db, doAnon, made, src, map, cache, ghosts,
                   faults, edits>>
-----------------------------------------------------------------------------
\* doAnonZip.

WithUnmapped(of) == [id \in DOMAIN of \cup Unmapped |-> IF id \in Unmapped THEN id ELSE of[id]]

\* A wrong beginning: the counter starts anew.
Opened_Restart(file) ==
    [of |-> WithUnmapped(file.of), max |-> FirstCode]

\* openMapFiles: the counter picks up where it left off.  initializeMaps puts
\* the unmapped values in.
Opened(file) ==
    [of  |-> WithUnmapped(file.of),
     max |-> IF file.max = NoMax THEN FirstCode ELSE file.max]

\* The tied map reads the file and keeps its changes to itself until untie.
OpenMaps(p) ==
    /\ pc[p] = "maps"
    /\ map' = [map EXCEPT ![p] = Opened(db)]
    /\ pc' = [pc EXCEPT ![p] = "open"]
    /\ split' = (split \/ \E q \in Scripts : map[q] # NoMap)
    /\ UNCHANGED <<DoAnonymization, dirVars, db, doAnon, todo, made, src, cache,
                   published, disturbed, faults, edits>>

\* What cat or gunzip can read: nothing if the file is gone, which is no error
\* of open; of a compressed log that is not complete, some beginning.
Readable(file) ==
    CASE file[1] = "txt" -> {IF file[2] \in txt THEN Content[file[2]] ELSE <<>>}
      [] file[1] = "gz" /\ file[2] \notin DOMAIN gz -> {<<>>}
      [] file[1] = "gz" /\ file[2] \in DOMAIN gz ->
            IF gz[file[2]] = "whole"
            THEN {Content[file[2]]}
            ELSE {SubSeq(Content[file[2]], 1, k) : k \in 0..Len(Content[file[2]])}

\* The two children of doAnonZip open their files in either order.
OpenIn(p) ==
    /\ pc[p] = "open" /\ src[p] = NoFile
    /\ \E s \in Readable(File(p)) : src' = [src EXCEPT ![p] = s]
    /\ pc' = [pc EXCEPT ![p] = IF made[p] THEN "stream" ELSE "open"]
    /\ UNCHANGED <<DoAnonymization, dirVars, db, doAnon, todo, made, map, cache, ghosts,
                   faults, edits>>

OpenOut(p) ==
    /\ pc[p] = "open" /\ ~ made[p]
    /\ made' = [made EXCEPT ![p] = TRUE]
    /\ anon' = Put(anon, Log(p), <<>>)
    /\ pc' = [pc EXCEPT ![p] = IF src[p] = NoFile THEN "open" ELSE "stream"]
    /\ UNCHANGED <<DoAnonymization, txt, gz, db, doAnon, todo, src, map, cache, ghosts,
                   faults, edits>>

\* anonymizeUID and its sisters: the cache, then the map, then a new code.
CodeOf(p, id) ==
    IF id \in DOMAIN cache[p] THEN cache[p][id]
    ELSE IF id \in DOMAIN map[p].of THEN map[p].of[id]
    ELSE map[p].max

Known(p, id) == id \in DOMAIN cache[p] \cup DOMAIN map[p].of

\* A line of anonymizeStream.
Anonymize(p) ==
    /\ pc[p] = "stream" /\ src[p] # <<>>
    /\ LET id == Head(src[p])
           code == CodeOf(p, id)
       IN /\ anon' = [anon EXCEPT ![Log(p)] = Append(@, code)]
          /\ cache' = [cache EXCEPT ![p] = Put(@, id, code)]
          /\ map' = IF Known(p, id) THEN map
                    ELSE [map EXCEPT ![p] = [of |-> Put(@.of, id, code), max |-> @.max + 1]]
    /\ src' = [src EXCEPT ![p] = Tail(@)]
    /\ UNCHANGED <<DoAnonymization, txt, gz, db, pc, doAnon, todo, made, ghosts, faults,
                   edits>>

\* close IN; close OUT, which waits for gzip.
CloseStreams(p) ==
    /\ pc[p] = "stream" /\ src[p] = <<>>
    /\ pc' = [pc EXCEPT ![p] = "flush"]
    /\ src' = [src EXCEPT ![p] = NoFile] /\ made' = [made EXCEPT ![p] = FALSE]
    /\ UNCHANGED <<DoAnonymization, dirVars, db, doAnon, todo, map, cache, ghosts,
                   faults, edits>>

\* closeMapFiles: untie writes the map.
Untied(p) == db' = map[p] /\ map' = [map EXCEPT ![p] = NoMap]

CloseMaps(p) ==
    /\ pc[p] = "flush"
    /\ Untied(p)
    /\ pc' = [pc EXCEPT ![p] = "unlink"]
    /\ UNCHANGED <<DoAnonymization, dirVars, doAnon, todo, made, src, cache, ghosts,
                   faults, edits>>
-----------------------------------------------------------------------------
\* What comes from outside.

\* gzip dies at the end of its output, on a full disk for one; the script does
\* not look at what close returns.
DiskFull(p) ==
    /\ pc[p] = "stream" /\ src[p] = <<>> /\ faults < MaxFaults
    /\ faults' = faults + 1
    /\ \E k \in 0..Len(anon[Log(p)]) :
            anon' = [anon EXCEPT ![Log(p)] = SubSeq(@, 1, k)]
    /\ disturbed' = disturbed \cup {Log(p)}
    /\ pc' = [pc EXCEPT ![p] = "flush"]
    /\ src' = [src EXCEPT ![p] = NoFile] /\ made' = [made EXCEPT ![p] = FALSE]
    /\ UNCHANGED <<DoAnonymization, txt, gz, db, doAnon, todo, map, cache, published,
                   split, edits>>

\* A value has the code the map file gives it.
Forgotten(m, file) ==
    \E id \in DOMAIN m.of \ Unmapped : id \notin DOMAIN file.of \/ file.of[id] # m.of[id]

\* The script and its children end, in an orderly way or not: the map is
\* written or it is not, and some beginning of the output is there.
Kill(p) ==
    /\ pc[p] # "idle" /\ faults < MaxFaults
    /\ faults' = faults + 1
    /\ IF map[p] = NoMap THEN UNCHANGED <<db, split>>
       ELSE /\ db' \in {db, map[p]}
            /\ split' = (split \/ Forgotten(map[p], db'))
    /\ IF made[p]
       THEN /\ \E k \in 0..Len(anon[Log(p)]) :
                    anon' = [anon EXCEPT ![Log(p)] = SubSeq(@, 1, k)]
            /\ disturbed' = disturbed \cup {Log(p)}
       ELSE UNCHANGED <<anon, disturbed>>
    /\ pc' = [pc EXCEPT ![p] = "idle"] /\ todo' = [todo EXCEPT ![p] = <<>>]
    /\ src' = [src EXCEPT ![p] = NoFile] /\ made' = [made EXCEPT ![p] = FALSE]
    /\ map' = [map EXCEPT ![p] = NoMap] /\ cache' = [cache EXCEPT ![p] = <<>>]
    /\ doAnon' = [doAnon EXCEPT ![p] = FALSE]
    /\ UNCHANGED <<DoAnonymization, txt, gz, published, edits>>

Step(p) ==
    \/ CheckOut(p) \/ Unlink(p) \/ Exit(p)
    \/ GzipStart(p) \/ GzipFinish(p)
    \/ OpenMaps(p) \/ OpenIn(p) \/ OpenOut(p)
    \/ Anonymize(p) \/ CloseStreams(p) \/ CloseMaps(p)

Next ==
    \/ \E l \in Logs : Publish(l)
    \/ Edit
    \/ \E p \in Scripts : Start(p) \/ Step(p) \/ DiskFull(p) \/ Kill(p)

\* cron starts each program again and again, and a started one goes on.
Fairness == \A p \in Scripts : WF_vars(Start(p)) /\ WF_vars(Step(p))

Spec == Init /\ [][Next]_vars /\ Fairness
-----------------------------------------------------------------------------
Partial(f, S, T) == DOMAIN f \subseteq S /\ f \in [DOMAIN f -> T]
Files == {"txt", "gz"} \X Logs
IsMap(m) ==
    m = [of |-> m.of, max |-> m.max] /\ Partial(m.of, Ids, Nat) /\ m.max \in Nat \cup {NoMax}

\* Each log has at most one file of each kind, and only after it was published;
\* the maps of all scripts give numbers to values.
TypeOK ==
    /\ DoAnonymization \in BOOLEAN /\ split \in BOOLEAN
    /\ published \subseteq Logs /\ disturbed \subseteq Logs /\ txt \subseteq published
    /\ Partial(gz, published, {"part", "whole"}) /\ Partial(anon, published, Seq(Nat))
    /\ IsMap(db)
    /\ map = [p \in Scripts |-> map[p]] /\ \A p \in Scripts : IsMap(map[p])
    /\ cache = [p \in Scripts |-> cache[p]] /\ \A p \in Scripts : Partial(cache[p], Ids, Nat)
    /\ pc \in [Scripts -> {"idle", "next", "maps", "open", "stream", "flush", "unlink", "gzip"}]
    /\ doAnon \in [Scripts -> BOOLEAN] /\ made \in [Scripts -> BOOLEAN]
    /\ todo \in [Scripts -> Seq(Files)] /\ src \in [Scripts -> Seq(Ids) \cup {NoFile}]
    /\ faults \in Nat /\ edits \in Nat

\* Every log that nfsdump has written is in the directory as it was, compressed
\* as a whole, or anonymized as a whole -- whatever was killed and edited,
\* unless a script was killed or the disk was full while it wrote the
\* anonymized copy, or two scripts had the log on their lists at once.  The
\* skip and unlink of doAnonZip (nfs-anon.pl:69-92) relies on it.
LogsKept ==
    \A l \in published \ disturbed :
        \/ l \in txt
        \/ l \in DOMAIN gz /\ gz[l] = "whole"
        \/ l \in DOMAIN anon /\ Len(anon[l]) = Len(Content[l])

\* In all anonymized logs, of all runs, two values have the same code exactly
\* if they are the same, and unmapped values have their own -- unless a run was
\* killed before it wrote its map, or two had it open at once.  This is what
\* host.tmplt:135-138 wants the maps kept for.
OneCode ==
    ~ split =>
        \A l, m \in DOMAIN anon : \A i \in DOMAIN anon[l], j \in DOMAIN anon[m] :
            /\ anon[l][i] = anon[m][j] <=> Content[l][i] = Content[m][j]
            /\ Content[l][i] \in Unmapped => anon[l][i] = Content[l][i]

Present(l) == l \in txt \/ l \in DOMAIN gz

\* If anonymization is on for good, every original is deleted in the end, also
\* the ones a killed gzip or an earlier setting left behind (nfs-anon.pl:63-72).
OriginalsGo == <>[]DoAnonymization => \A l \in Logs : [](Present(l) => <>~ Present(l))
=============================================================================
