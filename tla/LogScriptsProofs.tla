-------------------------- MODULE LogScriptsProofs --------------------------
(***************************************************************************)
(* Proofs about the log scripts, for any number of scripts, logs, values,  *)
(* kills and full disks: no log is lost and no two values get one code,    *)
(* but in the cases that LogsKept and OneCode name.                        *)
(***************************************************************************)
EXTENDS LogScripts, FunctionTheorems, SequenceTheorems, FiniteSetTheorems, TLAPS

Tied == {"open", "stream", "flush"}

\* Where a script is tells what it has open; what it writes exists.
ControlOf(p) ==
    /\ pc[p] = "idle" => todo[p] = <<>> /\ cache[p] = <<>>
    /\ todo[p] = <<>> => pc[p] \in {"idle", "next"}
    /\ made[p] => pc[p] \in {"open", "stream"} /\ Log(p) \in DOMAIN anon
    /\ src[p] # NoFile => pc[p] \in {"open", "stream"}
    /\ pc[p] = "stream" => made[p] /\ src[p] # NoFile
    /\ map[p] # NoMap <=> pc[p] \in Tied
    /\ map[p] # NoMap => map[p].max # NoMax
    /\ pc[p] \in {"maps", "open", "stream", "flush", "unlink"} => doAnon[p]
    /\ pc[p] = "gzip" => ~ doAnon[p]
    /\ \A i \in 1..Len(todo[p]) : todo[p][i][2] \in published
Control == \A p \in Scripts : ControlOf(p)
-----------------------------------------------------------------------------
\* A map of which the scripts can go on: unmapped values stay as they are, the
\* codes of the others are different ones below the next one, and no code was left out.
Numbered(m) == m.max # NoMax => m.max = FirstCode + Cardinality(DOMAIN m.of \ Unmapped)
Injective(m) ==
    /\ Numbered(m)
    /\ \A id \in DOMAIN m.of :
          IF id \in Unmapped THEN m.of[id] = id ELSE m.of[id] >= FirstCode /\ m.of[id] < m.max
    /\ \A a, b \in DOMAIN m.of : m.of[a] = m.of[b] => a = b

Has(m, id, code) == IF id \in Unmapped THEN code = id ELSE id \in DOMAIN m.of /\ m.of[id] = code
Extends(m, n) == \A id \in DOMAIN n.of : Has(m, id, n.of[id])

\* The codes in the anonymized logs are those of a map.
Agrees(m) ==
    \A l \in DOMAIN anon : \A i \in 1..Len(anon[l]) : Has(m, Content[l][i], anon[l][i])

\* The map that counts for a script: its own, or the file.
Current(p) == IF map[p] = NoMap THEN db ELSE map[p]

\* What script p has still to write of its log, behind what it has written.
Written(p) == IF made[p] THEN Len(anon[Log(p)]) ELSE 0
Rest(p) ==
    /\ Written(p) + Len(src[p]) <= Len(Content[Log(p)])
    /\ \A i \in 1..Len(src[p]) : src[p][i] = Content[Log(p)][Written(p) + i]

Reading(p) == IF src[p] = NoFile THEN Written(p) = 0 ELSE Rest(p)

\* As long as no codes were lost and at most one script has the map: its map goes
\* on from the file, and all caches and all anonymized logs agree with it.
Coding ==
    /\ Injective(db)
    /\ \A p, q \in Scripts : map[p] # NoMap /\ map[q] # NoMap => p = q
    /\ \A p \in Scripts : map[p] # NoMap =>
          /\ Unmapped \subseteq DOMAIN map[p].of /\ Injective(map[p])
          /\ Extends(map[p], db) /\ Agrees(map[p])
    /\ (\A p \in Scripts : map[p] = NoMap) => Agrees(db)
    /\ \A p \in Scripts : \A id \in DOMAIN cache[p] : Has(Current(p), id, cache[p][id])
    /\ \A l \in DOMAIN anon : Len(anon[l]) <= Len(Content[l])
    /\ \A p \in Scripts : Reading(p)
-----------------------------------------------------------------------------
Clean == published \ disturbed
Full(l) == l \in DOMAIN anon /\ Len(anon[l]) = Len(Content[l])
OnList(p, kind, l) == \E i \in 1..Len(todo[p]) : todo[p][i] = <<kind, l>>

\* The list of a script: no file twice, the compressed logs last and for
\* anonymization only.  A log on two lists is disturbed.
Ordered(p) ==
    /\ \A i, j \in 1..Len(todo[p]) : todo[p][i] = todo[p][j] => i = j
    /\ \A i, j \in 1..Len(todo[p]) : i < j /\ todo[p][i][1] = "gz" => todo[p][j][1] = "gz"
    /\ \A i \in 1..Len(todo[p]) : todo[p][i][1] = "gz" => doAnon[p]
Apart(p, q) ==
    \A i \in 1..Len(todo[p]), j \in 1..Len(todo[q]) :
        todo[p][i][2] = todo[q][j][2] => todo[p][i][2] \in disturbed
Lists ==
    /\ \A p \in Scripts : Ordered(p)
    /\ \A p, q \in Scripts : p # q => Apart(p, q)

\* A clean log: an anonymized copy is whole or being written; a compressed one is
\* whole or the original is there or the copy is whole; what is on a list is there.
Kept(l) ==
    /\ \/ l \in txt
       \/ l \in DOMAIN gz /\ gz[l] = "whole"
       \/ Full(l)
    /\ l \in DOMAIN anon => Full(l) \/ \E p \in Scripts : made[p] /\ Log(p) = l
    /\ l \in DOMAIN gz => gz[l] = "whole" \/ l \in txt \/ Full(l)
    /\ \A p \in Scripts :
          /\ OnList(p, "txt", l) => l \in txt
          /\ OnList(p, "gz", l) => /\ l \in DOMAIN gz
                                   /\ gz[l] = "whole" \/ Full(l) \/ OnList(p, "txt", l)

\* The clean log that a script is handling.
Handled(p) ==
    /\ pc[p] \in {"flush", "unlink"} => Full(Log(p))
    /\ pc[p] = "gzip" => Log(p) \in DOMAIN gz
    /\ pc[p] \in {"maps", "open", "stream"} =>
          /\ made[p] \/ ~ (Log(p) \in DOMAIN anon)
          /\ File(p)[1] = "gz" => Log(p) \in DOMAIN gz /\ gz[Log(p)] = "whole"
          /\ IF src[p] = NoFile THEN Written(p) = 0
             ELSE Written(p) + Len(src[p]) = Len(Content[Log(p)])

Keeping ==
    /\ Lists
    /\ \A l \in Clean : Kept(l)
    /\ \A p \in Scripts : todo[p] # <<>> /\ Log(p) \in Clean => Handled(p)
-----------------------------------------------------------------------------
\* Functions and sequences.

LEMMA PutPartial ==
    ASSUME NEW f, NEW S, NEW T, NEW x \in S, NEW v \in T, Partial(f, S, T)
    PROVE  /\ Partial(Put(f, x, v), S, T)
           /\ DOMAIN Put(f, x, v) = DOMAIN f \cup {x}
           /\ Put(f, x, v)[x] = v
           /\ \A y \in DOMAIN f : y # x => Put(f, x, v)[y] = f[y]
  BY DEF Put, Partial

LEMMA Nothing == IsMap(NoMap) /\ \A S, T : Partial(<<>>, S, T)
  BY EmptySeq DEF IsMap, NoMap, NoMax, Partial

\* The rest of a list.
LEMMA ListRest ==
    ASSUME NEW S, NEW s \in Seq(S), s # <<>>
    PROVE  /\ Len(s) \in Nat /\ Len(s) >= 1 /\ Head(s) = s[1] /\ s[1] \in S
           /\ Tail(s) \in Seq(S) /\ Len(Tail(s)) = Len(s) - 1
           /\ \A i \in 1..(Len(s) - 1) : Tail(s)[i] = s[i + 1]
  BY HeadTailProperties, EmptySeq, LenProperties, ElementOfSeq

\* The code of a value is a number.
LEMMA CodeNatural ==
    ASSUME TypeOK, NEW p \in Scripts, map[p].max # NoMax, NEW id
    PROVE  CodeOf(p, id) \in Nat
<1>1. Partial(cache[p], Ids, Nat) /\ Partial(map[p].of, Ids, Nat) /\ map[p].max \in Nat
  BY DEF TypeOK, IsMap
<1>2. id \in DOMAIN cache[p] => cache[p][id] \in Nat
  BY <1>1 DEF Partial
<1>3. id \in DOMAIN map[p].of => map[p].of[id] \in Nat
  BY <1>1 DEF Partial
<1> QED
  BY <1>1, <1>2, <1>3 DEF CodeOf

\* A beginning of a list.
LEMMA PrefixOf ==
    ASSUME NEW S, NEW s \in Seq(S), NEW k \in 0..Len(s)
    PROVE  /\ SubSeq(s, 1, k) \in Seq(S) /\ Len(SubSeq(s, 1, k)) = k
           /\ \A i \in 1..k : SubSeq(s, 1, k)[i] = s[i]
  BY SubSeqProperties, LenProperties

\* The file and the log that a script handles.
LEMMA AtHand ==
    ASSUME TypeOK, Control, NEW p \in Scripts, todo[p] # <<>>
    PROVE  /\ File(p) \in Files /\ File(p) = todo[p][1] /\ Log(p) = todo[p][1][2]
           /\ Log(p) \in published /\ Log(p) \in Logs
           /\ todo[p] \in Seq(Files) /\ Len(todo[p]) \in Nat /\ Len(todo[p]) >= 1
           /\ Tail(todo[p]) \in Seq(Files) /\ Len(Tail(todo[p])) = Len(todo[p]) - 1
           /\ \A i \in 1..(Len(todo[p]) - 1) : Tail(todo[p])[i] = todo[p][i + 1]
<1>1. todo[p] \in Seq(Files)
  BY DEF TypeOK
<1>2. Len(todo[p]) \in Nat /\ Len(todo[p]) >= 1 /\ Head(todo[p]) = todo[p][1] /\ todo[p][1] \in Files
  BY <1>1, ListRest
<1>3. todo[p][1][2] \in published
  BY <1>2 DEF Control, ControlOf
<1>4. published \subseteq Logs
  BY DEF TypeOK
<1> QED
  BY <1>1, <1>2, <1>3, <1>4, ListRest DEF File, Log

\* An increasing list of all of a set holds each element once.
LEMMA SortedLists ==
    ASSUME NEW S, S \subseteq Nat, IsFiniteSet(S), NEW s \in Sorted(S)
    PROVE  /\ s \in Seq(S) /\ Len(s) = Cardinality(S) /\ Cardinality(S) \in Nat
           /\ \A i \in 1..Len(s) : s[i] \in S
           /\ \A i, j \in 1..Len(s) : s[i] = s[j] => i = j
           /\ \A x \in S : \E i \in 1..Len(s) : s[i] = x
<1> DEFINE n == Cardinality(S)
<1>1. n \in Nat
  BY FS_CardinalityType
<1>2. s \in [1..n -> S] /\ \A i, j \in 1..n : i < j => s[i] < s[j]
  BY DEF Sorted
<1>3. s \in Seq(S) /\ Len(s) = n
  BY <1>1, <1>2, IsASeq, LenProperties
<1>4. \A i, j \in 1..n : s[i] = s[j] => i = j
  <2> SUFFICES ASSUME NEW i \in 1..n, NEW j \in 1..n, s[i] = s[j], i # j PROVE FALSE
    OBVIOUS
  <2>1. s[i] \in Nat /\ s[j] \in Nat
    BY <1>2
  <2>2. s[i] < s[j] \/ s[j] < s[i]
    BY <1>1, <1>2
  <2> QED
    BY <2>1, <2>2
<1>5. s \in Injection(1..n, S)
  BY <1>2, <1>4, Fun_IsInj
<1>6. Cardinality(1..n) = n
  BY <1>1, FS_Interval
<1>7. s \in Surjection(1..n, S)
  BY <1>5, <1>6, FS_Injection
<1>8. \A x \in S : \E i \in 1..n : s[i] = x
  BY <1>7 DEF Surjection
<1> QED
  BY <1>1, <1>2, <1>3, <1>4, <1>8

\* The list a script starts with.
LEMMA ListedFiles ==
    ASSUME TypeOK, NEW p \in Scripts, NEW files \in Listed(p)
    PROVE  /\ files \in Seq(Files) /\ Len(files) \in Nat
           /\ \A i \in 1..Len(files) :
                 /\ files[i] \in Files /\ files[i][2] \in published
                 /\ files[i][1] = "txt" => files[i][2] \in txt
                 /\ files[i][1] = "gz" => files[i][2] \in DOMAIN gz /\ Program[p] = "nfs-anon"
           /\ \A i, j \in 1..Len(files) :
                 /\ files[i] = files[j] => i = j
                 /\ i < j /\ files[i][1] = "gz" => files[j][1] = "gz"
           /\ \A l \in txt : \E i \in 1..Len(files) : files[i] = <<"txt", l>>
<1>1. /\ txt \subseteq published /\ DOMAIN gz \subseteq published
      /\ published \subseteq Logs /\ Logs \subseteq Nat
  BY ScriptsAssumption DEF TypeOK, Partial
<1>2. /\ txt \subseteq Nat /\ IsFiniteSet(txt)
      /\ DOMAIN gz \subseteq Nat /\ IsFiniteSet(DOMAIN gz)
  BY <1>1, ScriptsAssumption, FS_Subset
<1> DEFINE Names(kind, S, f) ==
        /\ f \in Seq(Files) /\ Len(f) \in Nat
        /\ \A i \in 1..Len(f) : f[i][1] = kind /\ f[i][2] \in S /\ f[i] = <<kind, f[i][2]>>
        /\ \A i, j \in 1..Len(f) : f[i] = f[j] => i = j
        /\ \A l \in S : \E i \in 1..Len(f) : f[i] = <<kind, l>>
<1>3. ASSUME NEW kind \in {"txt", "gz"}, NEW S, S \subseteq Logs, IsFiniteSet(S), NEW s \in Sorted(S)
      PROVE  Names(kind, S, Named(kind, s))
  <2>1. /\ s \in Seq(S) /\ Len(s) \in Nat
        /\ \A i \in 1..Len(s) : s[i] \in S
        /\ \A i, j \in 1..Len(s) : s[i] = s[j] => i = j
        /\ \A x \in S : \E i \in 1..Len(s) : s[i] = x
    <3>1. S \subseteq Nat
      BY <1>1, <1>3
    <3>2. /\ s \in Seq(S) /\ Len(s) = Cardinality(S) /\ Cardinality(S) \in Nat
          /\ \A i \in 1..Len(s) : s[i] \in S
          /\ \A i, j \in 1..Len(s) : s[i] = s[j] => i = j
          /\ \A x \in S : \E i \in 1..Len(s) : s[i] = x
      BY <1>3, <3>1, SortedLists, ZenonT(30)
    <3> QED
      BY <3>2
  <2>2. DOMAIN s = 1..Len(s)
    BY <2>1, LenProperties
  <2>3. Named(kind, s) = [i \in 1..Len(s) |-> <<kind, s[i]>>]
    BY <2>2 DEF Named
  <2>4. \A i \in 1..Len(s) : <<kind, s[i]>> \in Files
    BY <1>3, <2>1 DEF Files
  <2>5. Named(kind, s) \in Seq(Files) /\ Len(Named(kind, s)) = Len(s)
    BY <2>1, <2>3, <2>4, IsASeq, LenProperties
  <2>6. \A i \in 1..Len(s) : Named(kind, s)[i] = <<kind, s[i]>>
    BY <2>3
  <2> QED
    BY <2>1, <2>5, <2>6, SMTT(30)
<1> HIDE DEF Names
<1>4. PICK t \in Sorted(txt) :
         \/ Program[p] # "nfs-anon" /\ files = Named("txt", t)
         \/ Program[p] = "nfs-anon" /\ \E s \in Sorted(DOMAIN gz) : files = Named("txt", t) \o Named("gz", s)
  BY DEF Listed
<1>5. Names("txt", txt, Named("txt", t))
  BY <1>1, <1>2, <1>3
<1>6. CASE Program[p] # "nfs-anon" /\ files = Named("txt", t)
  <2>1. \A i \in 1..Len(files) : files[i] \in Files
    BY <1>5, <1>6, ElementOfSeq DEF Names
  <2> QED
    BY <1>1, <1>5, <1>6, <2>1 DEF Names
<1>7. CASE Program[p] = "nfs-anon" /\ \E s \in Sorted(DOMAIN gz) : files = Named("txt", t) \o Named("gz", s)
  <2>1. PICK s \in Sorted(DOMAIN gz) : files = Named("txt", t) \o Named("gz", s)
    BY <1>7
  <2>2. Names("gz", DOMAIN gz, Named("gz", s))
    BY <1>1, <1>2, <1>3
  <2> DEFINE a == Named("txt", t)
             b == Named("gz", s)
  <2> HIDE DEF a, b
  <2>3. files = a \o b /\ Names("txt", txt, a) /\ Names("gz", DOMAIN gz, b)
    BY <1>5, <2>1, <2>2 DEF a, b
  <2>4. /\ files \in Seq(Files) /\ Len(files) = Len(a) + Len(b) /\ Len(a) \in Nat /\ Len(b) \in Nat
        /\ \A i \in 1..Len(a) : files[i] = a[i]
        /\ \A i \in (Len(a) + 1)..Len(files) : files[i] = b[i - Len(a)] /\ i - Len(a) \in 1..Len(b)
    BY <2>3, ConcatProperties DEF Names
  <2>5. \A i \in 1..Len(files) : files[i] \in Files
    BY <2>4, ElementOfSeq
  <2>6. \A i \in 1..Len(files) :
           \/ i <= Len(a) /\ files[i] = a[i] /\ files[i][1] = "txt" /\ files[i][2] \in txt
           \/ i > Len(a) /\ files[i] = b[i - Len(a)] /\ i - Len(a) \in 1..Len(b)
              /\ files[i][1] = "gz" /\ files[i][2] \in DOMAIN gz
    <3> TAKE i \in 1..Len(files)
    <3>1. CASE i <= Len(a)
      BY <2>3, <2>4, <3>1 DEF Names
    <3>2. CASE i > Len(a)
      BY <2>3, <2>4, <3>2 DEF Names
    <3> QED
      BY <3>1, <3>2, <2>4
  <2>7. \A i, j \in 1..Len(files) : files[i] = files[j] => i = j
    <3> TAKE i, j \in 1..Len(files)
    <3> HAVE files[i] = files[j]
    <3>1. CASE i <= Len(a) /\ j <= Len(a)
      BY <2>3, <2>4, <3>1 DEF Names
    <3>2. CASE i > Len(a) /\ j > Len(a)
      <4>1. i - Len(a) \in 1..Len(b) /\ j - Len(a) \in 1..Len(b) /\ b[i - Len(a)] = b[j - Len(a)]
        BY <2>4, <3>2
      <4>2. i - Len(a) = j - Len(a)
        BY <2>3, <4>1 DEF Names
      <4> QED
        BY <4>2, <2>4
    <3>3. CASE ~ (i <= Len(a) <=> j <= Len(a))
      <4>1. \A k \in 1..Len(files) : k <= Len(a) <=> files[k][1] = "txt"
        BY <2>4, <2>6
      <4> QED
        BY <3>3, <4>1
    <3> QED
      BY <3>1, <3>2, <3>3, <2>4
  <2>8. \A i, j \in 1..Len(files) : i < j /\ files[i][1] = "gz" => files[j][1] = "gz"
    <3> TAKE i, j \in 1..Len(files)
    <3> HAVE i < j /\ files[i][1] = "gz"
    <3>1. i > Len(a)
      BY <2>6, <2>4
    <3>2. j > Len(a)
      BY <3>1, <2>4
    <3> QED
      BY <3>2, <2>6, <2>4
  <2>9. \A l \in txt : \E i \in 1..Len(files) : files[i] = <<"txt", l>>
    <3> TAKE l \in txt
    <3>1. PICK i \in 1..Len(a) : a[i] = <<"txt", l>>
      BY <2>3 DEF Names
    <3>2. i \in 1..Len(files) /\ files[i] = <<"txt", l>>
      BY <2>4, <3>1
    <3> QED
      BY <3>2
  <2>10. \A i \in 1..Len(files) : files[i][2] \in published
    BY <2>6, <1>1
  <2> QED
    <3>1. /\ \A i \in 1..Len(files) :
                /\ files[i][1] = "txt" => files[i][2] \in txt
                /\ files[i][1] = "gz" => files[i][2] \in DOMAIN gz /\ Program[p] = "nfs-anon"
      BY <1>7, <2>6
    <3>2. files \in Seq(Files) /\ Len(files) \in Nat
      BY <2>4
    <3> QED
      BY <3>1, <3>2, <2>5, <2>7, <2>8, <2>9, <2>10
<1> QED
  BY <1>4, <1>6, <1>7
\* Some of an anonymized log is cut off.
LEMMA CutShort ==
    ASSUME TypeOK, NEW l \in DOMAIN anon, NEW k \in 0..Len(anon[l]),
           anon' = [anon EXCEPT ![l] = SubSeq(@, 1, k)]
    PROVE  /\ Partial(anon', published, Seq(Nat)) /\ DOMAIN anon' = DOMAIN anon
           /\ Len(anon'[l]) = k /\ \A i \in 1..k : anon'[l][i] = anon[l][i]
           /\ \A m \in DOMAIN anon : m # l => anon'[m] = anon[m]
<1>1. anon \in [DOMAIN anon -> Seq(Nat)] /\ DOMAIN anon \subseteq published
  BY DEF TypeOK, Partial
<1>2. /\ SubSeq(anon[l], 1, k) \in Seq(Nat) /\ Len(SubSeq(anon[l], 1, k)) = k
      /\ \A i \in 1..k : SubSeq(anon[l], 1, k)[i] = anon[l][i]
  BY <1>1, PrefixOf
<1> QED
  BY <1>1, <1>2 DEF Partial

\* What a child can read of a file.
LEMMA Readables ==
    ASSUME TypeOK, NEW file \in Files, NEW s \in Readable(file)
    PROVE  /\ s \in Seq(Ids) /\ Len(s) \in Nat
           /\ Content[file[2]] \in Seq(Ids) /\ Len(Content[file[2]]) \in Nat
           /\ Len(s) <= Len(Content[file[2]])
           /\ \A i \in 1..Len(s) : s[i] = Content[file[2]][i]
           /\ file[1] = "txt" /\ file[2] \in txt => s = Content[file[2]]
           /\ file[1] = "gz" /\ file[2] \in DOMAIN gz /\ gz[file[2]] = "whole" => s = Content[file[2]]
<1> DEFINE c == Content[file[2]]
<1>1. file[1] \in {"txt", "gz"} /\ file[2] \in Logs
  BY DEF Files
<1>2. c \in Seq(Ids) /\ Len(c) \in Nat
  BY <1>1, ScriptsAssumption, LenProperties
<1>3. <<>> \in Seq(Ids) /\ Len(<<>>) = 0
  BY EmptySeq
<1>4. \A k \in 0..Len(c) : /\ SubSeq(c, 1, k) \in Seq(Ids) /\ Len(SubSeq(c, 1, k)) = k
                            /\ \A i \in 1..k : SubSeq(c, 1, k)[i] = c[i]
  BY <1>2, PrefixOf
<1>5. \/ s = <<>> /\ ~ (file[2] \in txt) /\ file[1] = "txt"
      \/ s = <<>> /\ ~ (file[2] \in DOMAIN gz) /\ file[1] = "gz"
      \/ s = c
      \/ file[1] = "gz" /\ gz[file[2]] # "whole" /\ \E k \in 0..Len(c) : s = SubSeq(c, 1, k)
  BY <1>1 DEF Readable
<1> QED
  <2>1. CASE s = <<>>
    BY <1>1, <1>2, <1>3, <1>5, <2>1
  <2>2. CASE s = c
    BY <1>2, <2>2
  <2>3. CASE file[1] = "gz" /\ gz[file[2]] # "whole" /\ \E k \in 0..Len(c) : s = SubSeq(c, 1, k)
    BY <1>2, <1>4, <2>3
  <2> QED
    BY <1>5, <2>1, <2>2, <2>3
-----------------------------------------------------------------------------
\* Types, and what each script has open.

LEMMA InitTyped == Init => TypeOK /\ Control
<1> SUFFICES ASSUME Init PROVE TypeOK /\ Control
  OBVIOUS
<1>1. <<>> \in Seq(Files) /\ Len(<<>>) = 0 /\ DOMAIN <<>> = {}
  BY EmptySeq
<1>2. IsMap(NoMap) /\ \A S, T : Partial(<<>>, S, T)
  BY Nothing
<1>3. TypeOK
  <2>1. /\ map = [p \in Scripts |-> map[p]] /\ \A p \in Scripts : IsMap(map[p])
        /\ cache = [p \in Scripts |-> cache[p]] /\ \A p \in Scripts : Partial(cache[p], Ids, Nat)
    BY <1>2 DEF Init
  <2> QED
    BY <1>1, <1>2, <2>1 DEF Init, TypeOK
<1>4. Control
  BY <1>1 DEF Init, Control, ControlOf, Tied
<1> QED
  BY <1>3, <1>4

LEMMA StepTyped == TypeOK /\ Control /\ [Next]_vars => TypeOK' /\ Control'
<1> SUFFICES ASSUME TypeOK, Control, [Next]_vars PROVE TypeOK' /\ Control'
  OBVIOUS
<1> USE ScriptsAssumption
<1>1. ASSUME NEW l \in Logs, Publish(l) PROVE TypeOK' /\ Control'
  <2>1. TypeOK'
    BY <1>1 DEF TypeOK, Publish, Partial, IsMap
  <2>2. Control'
    BY <1>1 DEF Control, ControlOf, Publish, Log, File
  <2> QED
    BY <2>1, <2>2
<1>2. ASSUME Edit PROVE TypeOK' /\ Control'
  <2>1. TypeOK'
    BY <1>2 DEF TypeOK, Edit, Partial, IsMap, dirVars, ghosts
  <2>2. Control'
    BY <1>2 DEF Control, ControlOf, Edit, Log, File, dirVars, ghosts
  <2> QED
    BY <2>1, <2>2
<1>3. ASSUME NEW p \in Scripts, Start(p) PROVE TypeOK' /\ Control'
  <2>1. PICK files \in Listed(p) : todo' = [todo EXCEPT ![p] = files]
    BY <1>3 DEF Start
  <2>2. files \in Seq(Files) /\ \A i \in 1..Len(files) : files[i] \in Files /\ files[i][2] \in published
    BY ListedFiles
  <2>3. LogsOf(files) \subseteq Logs
    BY <2>2, LenProperties DEF LogsOf, Files
  <2>4. TypeOK'
    BY <1>3, <2>1, <2>2, <2>3 DEF TypeOK, Start, Partial, IsMap, dirVars
  <2>5. Control'
    BY <1>3, <2>1, <2>2 DEF Control, ControlOf, Start, TypeOK, Log, File, dirVars, Tied
  <2> QED
    BY <2>4, <2>5
<1>4. ASSUME NEW p \in Scripts, CheckOut(p) PROVE TypeOK' /\ Control'
  <2>1. TypeOK'
    BY <1>4 DEF TypeOK, CheckOut, Partial, IsMap, dirVars, ghosts
  <2>2. Control'
    BY <1>4 DEF Control, ControlOf, CheckOut, TypeOK, Log, File, dirVars, ghosts, Tied
  <2> QED
    BY <2>1, <2>2
<1>5. ASSUME NEW p \in Scripts, Unlink(p) PROVE TypeOK' /\ Control'
  <2>1. todo[p] # <<>>
    BY <1>5 DEF Unlink, Control, ControlOf
  <2>2. TypeOK'
    BY <1>5, <2>1, AtHand DEF TypeOK, Unlink, Unlinked, Partial, IsMap, ghosts
  <2>3. Control'
    <3>1. ASSUME NEW q \in Scripts, q # p PROVE ControlOf(q)'
      BY <1>5, <3>1 DEF Control, ControlOf, Unlink, TypeOK, Log, File, ghosts
    <3>2. ControlOf(p)'
      <4>1. /\ todo[p] \in Seq(Files) /\ Len(todo[p]) \in Nat /\ Len(Tail(todo[p])) = Len(todo[p]) - 1
            /\ \A i \in 1..(Len(todo[p]) - 1) : Tail(todo[p])[i] = todo[p][i + 1]
        BY <2>1, AtHand
      <4>2. \A i \in 1..Len(Tail(todo[p])) : Tail(todo[p])[i][2] \in published
        BY <4>1 DEF Control, ControlOf
      <4> QED
        BY <1>5, <4>2 DEF Control, ControlOf, Unlink, TypeOK, Log, File, ghosts, Tied
    <3> QED
      BY <3>1, <3>2 DEF Control
  <2> QED
    BY <2>2, <2>3
<1>6. ASSUME NEW p \in Scripts, Exit(p) PROVE TypeOK' /\ Control'
  <2>1. TypeOK'
    <3>1. cache' = [q \in Scripts |-> cache'[q]] /\ \A q \in Scripts : Partial(cache'[q], Ids, Nat)
      BY <1>6, Nothing DEF TypeOK, Exit
    <3> QED
      BY <1>6, <3>1 DEF TypeOK, Exit, IsMap, dirVars, ghosts
  <2>2. Control'
    BY <1>6 DEF Control, ControlOf, Exit, TypeOK, Log, File, dirVars, ghosts, Tied
  <2> QED
    BY <2>1, <2>2
<1>7. ASSUME NEW p \in Scripts, GzipStart(p) PROVE TypeOK' /\ Control'
  <2>1. todo[p] # <<>>
    BY <1>7 DEF GzipStart
  <2>2. Partial(Put(gz, Log(p), "part"), published, {"part", "whole"})
    BY <2>1, AtHand, PutPartial DEF TypeOK
  <2>3. TypeOK'
    BY <1>7, <2>1, <2>2, AtHand, ZenonT(60) DEF TypeOK, GzipStart, Partial, IsMap, ghosts
  <2>4. Control'
    <3>1. ASSUME NEW q \in Scripts, q # p PROVE ControlOf(q)'
      BY <1>7, <3>1, SMTT(30) DEF Control, ControlOf, GzipStart, TypeOK, Log, File, ghosts
    <3>2. ControlOf(p)'
      <4>1. /\ todo[p] \in Seq(Files) /\ Len(todo[p]) \in Nat /\ Len(Tail(todo[p])) = Len(todo[p]) - 1
            /\ \A i \in 1..(Len(todo[p]) - 1) : Tail(todo[p])[i] = todo[p][i + 1]
        BY <2>1, AtHand
      <4>2. \A i \in 1..Len(Tail(todo[p])) : Tail(todo[p])[i][2] \in published
        BY <4>1 DEF Control, ControlOf
      <4> QED
        BY <1>7, <4>2, ZenonT(60) DEF Control, ControlOf, GzipStart, TypeOK, Log, File, ghosts, Tied
    <3> QED
      BY <3>1, <3>2 DEF Control
  <2> QED
    BY <2>3, <2>4
<1>8. ASSUME NEW p \in Scripts, GzipFinish(p) PROVE TypeOK' /\ Control'
  <2>1. todo[p] # <<>>
    BY <1>8 DEF GzipFinish, Control, ControlOf
  <2>2. TypeOK'
    BY <1>8, <2>1, AtHand DEF TypeOK, GzipFinish, Partial, IsMap, ghosts
  <2>3. Control'
    <3>1. ASSUME NEW q \in Scripts, q # p PROVE ControlOf(q)'
      BY <1>8, <3>1 DEF Control, ControlOf, GzipFinish, TypeOK, Log, File, ghosts
    <3>2. ControlOf(p)'
      <4>1. /\ todo[p] \in Seq(Files) /\ Len(todo[p]) \in Nat /\ Len(Tail(todo[p])) = Len(todo[p]) - 1
            /\ \A i \in 1..(Len(todo[p]) - 1) : Tail(todo[p])[i] = todo[p][i + 1]
        BY <2>1, AtHand
      <4>2. \A i \in 1..Len(Tail(todo[p])) : Tail(todo[p])[i][2] \in published
        BY <4>1 DEF Control, ControlOf
      <4> QED
        BY <1>8, <4>2 DEF Control, ControlOf, GzipFinish, TypeOK, Log, File, ghosts, Tied
    <3> QED
      BY <3>1, <3>2 DEF Control
  <2> QED
    BY <2>2, <2>3
<1>9. ASSUME NEW p \in Scripts, OpenMaps(p) PROVE TypeOK' /\ Control'
  <2>1. IsMap(Opened(db)) /\ Opened(db) # NoMap /\ Opened(db).max # NoMax
    <3>1. Opened(db).max \in Nat /\ Opened(db).max # NoMax
      BY DEF TypeOK, IsMap, Opened, NoMax
    <3>2. Partial(Opened(db).of, Ids, Nat)
      BY DEF TypeOK, IsMap, Opened, WithUnmapped, Partial
    <3> QED
      BY <3>1, <3>2 DEF IsMap, Opened, NoMap
  <2>2. TypeOK'
    BY <1>9, <2>1 DEF TypeOK, OpenMaps, Partial, IsMap, dirVars
  <2>3. Control'
    <3>1. ASSUME NEW q \in Scripts, q # p PROVE ControlOf(q)'
      BY <1>9, <3>1 DEF Control, ControlOf, OpenMaps, TypeOK, Log, File, dirVars
    <3>2. ControlOf(p)'
      BY <1>9, <2>1 DEF Control, ControlOf, OpenMaps, TypeOK, Log, File, dirVars, Tied
    <3> QED
      BY <3>1, <3>2 DEF Control
  <2> QED
    BY <2>2, <2>3
<1>10. ASSUME NEW p \in Scripts, OpenIn(p) PROVE TypeOK' /\ Control'
  <2>1. todo[p] # <<>>
    BY <1>10 DEF OpenIn, Control, ControlOf
  <2>2. PICK s \in Readable(File(p)) : src' = [src EXCEPT ![p] = s]
    BY <1>10 DEF OpenIn
  <2>3. s \in Seq(Ids)
    BY <2>1, AtHand, Readables
  <2>4. TypeOK'
    BY <1>10, <2>2, <2>3 DEF TypeOK, OpenIn, Partial, IsMap, dirVars, ghosts
  <2>5. Control'
    BY <1>10, <2>2, <2>3 DEF Control, ControlOf, OpenIn, TypeOK, Log, File, dirVars, ghosts, Tied
  <2> QED
    BY <2>4, <2>5
<1>11. ASSUME NEW p \in Scripts, OpenOut(p) PROVE TypeOK' /\ Control'
  <2>1. todo[p] # <<>>
    BY <1>11 DEF OpenOut, Control, ControlOf
  <2>2. <<>> \in Seq(Nat)
    BY EmptySeq
  <2>3. /\ Partial(Put(anon, Log(p), <<>>), published, Seq(Nat))
        /\ DOMAIN Put(anon, Log(p), <<>>) = DOMAIN anon \cup {Log(p)}
    <3>1. Log(p) \in published /\ Partial(anon, published, Seq(Nat))
      BY <2>1, AtHand DEF TypeOK
    <3> QED
      BY <2>2, <3>1 DEF Put, Partial
  <2>4. TypeOK'
    BY <1>11, <2>3 DEF TypeOK, OpenOut, Partial, IsMap, ghosts
  <2>5. Control'
    BY <1>11, <2>3 DEF Control, ControlOf, OpenOut, TypeOK, Log, File, ghosts, Tied
  <2> QED
    BY <2>4, <2>5
<1>12. ASSUME NEW p \in Scripts, Anonymize(p) PROVE TypeOK' /\ Control'
  <2> DEFINE id == Head(src[p])
             code == CodeOf(p, id)
  <2>1. /\ src[p] \in Seq(Ids) /\ src[p] # <<>> /\ made[p] /\ todo[p] # <<>>
        /\ pc[p] = "stream" /\ map[p] # NoMap /\ map[p].max # NoMax /\ Log(p) \in DOMAIN anon
    BY <1>12 DEF Anonymize, Control, ControlOf, TypeOK, Tied
  <2>2. id \in Ids /\ Tail(src[p]) \in Seq(Ids)
    BY <2>1, ListRest
  <2>3. map[p].max \in Nat
    BY <2>1 DEF TypeOK, IsMap
  <2>4. code \in Nat
    BY <2>1, CodeNatural
  <2> HIDE DEF id, code
  <2>5. /\ anon' = [anon EXCEPT ![Log(p)] = Append(@, code)]
        /\ cache' = [cache EXCEPT ![p] = Put(@, id, code)]
        /\ map' = IF Known(p, id) THEN map
                  ELSE [map EXCEPT ![p] = [of |-> Put(@.of, id, code), max |-> @.max + 1]]
        /\ src' = [src EXCEPT ![p] = Tail(@)]
        /\ UNCHANGED <<DoAnonymization, txt, gz, db, pc, doAnon, todo, made, published,
                        disturbed, split, faults, edits>>
    BY <1>12 DEF Anonymize, id, code, ghosts
  <2>6. Partial(Put(cache[p], id, code), Ids, Nat) /\ Partial(Put(map[p].of, id, code), Ids, Nat)
    BY <2>2, <2>4, PutPartial DEF TypeOK, IsMap
  <2>7. Partial(anon', published, Seq(Nat)) /\ DOMAIN anon' = DOMAIN anon
    BY <2>1, <2>4, <2>5, AppendProperties DEF TypeOK, Partial
  <2>8. \A q \in Scripts : IsMap(map'[q]) /\ (map'[q] # NoMap <=> map[q] # NoMap)
                          /\ (map'[q] # NoMap => map'[q].max # NoMax)
    <3>1. IsMap([of |-> Put(map[p].of, id, code), max |-> map[p].max + 1])
      BY <2>3, <2>6 DEF IsMap
    <3>2. map[p].max + 1 # NoMax
      BY <2>3 DEF NoMax
    <3> QED
      BY <2>1, <2>5, <3>1, <3>2 DEF TypeOK, Control, ControlOf, NoMap
  <2>9. map' = [q \in Scripts |-> map'[q]]
    BY <2>5 DEF TypeOK
  <2>10. cache' = [q \in Scripts |-> cache'[q]] /\ \A q \in Scripts : Partial(cache'[q], Ids, Nat)
    BY <2>5, <2>6 DEF TypeOK
  <2>11. TypeOK'
    BY <2>2, <2>5, <2>7, <2>8, <2>9, <2>10 DEF TypeOK
  <2>12. Control'
    BY <2>1, <2>2, <2>5, <2>7, <2>8, ZenonT(60) DEF Control, ControlOf, TypeOK, Log, File, Tied
  <2> QED
    BY <2>11, <2>12
<1>13. ASSUME NEW p \in Scripts, CloseStreams(p) PROVE TypeOK' /\ Control'
  <2>1. TypeOK'
    BY <1>13 DEF TypeOK, CloseStreams, Partial, IsMap, dirVars, ghosts
  <2>2. Control'
    BY <1>13 DEF Control, ControlOf, CloseStreams, TypeOK, Log, File, dirVars, ghosts, Tied
  <2> QED
    BY <2>1, <2>2
<1>14. ASSUME NEW p \in Scripts, CloseMaps(p) PROVE TypeOK' /\ Control'
  <2>1. IsMap(NoMap)
    BY Nothing
  <2>2. TypeOK'
    BY <1>14, <2>1 DEF TypeOK, CloseMaps, Untied, Partial, IsMap, dirVars, ghosts
  <2>3. Control'
    BY <1>14 DEF Control, ControlOf, CloseMaps, Untied, TypeOK, Log, File, dirVars, ghosts, Tied
  <2> QED
    BY <2>2, <2>3
<1>15. ASSUME NEW p \in Scripts, DiskFull(p) PROVE TypeOK' /\ Control'
  <2>1. made[p] /\ todo[p] # <<>> /\ Log(p) \in DOMAIN anon /\ Log(p) \in Logs
    BY <1>15, AtHand DEF DiskFull, Control, ControlOf
  <2>2. Partial(anon', published, Seq(Nat)) /\ DOMAIN anon' = DOMAIN anon
    BY <1>15, <2>1, CutShort DEF DiskFull
  <2>3. TypeOK'
    BY <1>15, <2>1, <2>2 DEF TypeOK, DiskFull, IsMap
  <2>4. Control'
    BY <1>15, <2>2, SMTT(30) DEF Control, ControlOf, DiskFull, TypeOK, Log, File, Tied
  <2> QED
    BY <2>3, <2>4
<1>16. ASSUME NEW p \in Scripts, Kill(p) PROVE TypeOK' /\ Control'
  <2>1. made[p] => Log(p) \in DOMAIN anon /\ Log(p) \in Logs
    <3>1. made[p] => todo[p] # <<>>
      BY DEF Control, ControlOf
    <3> QED
      BY <3>1, AtHand DEF Control, ControlOf
  <2>2. Partial(anon', published, Seq(Nat)) /\ DOMAIN anon' = DOMAIN anon
    BY <1>16, <2>1, CutShort DEF Kill, TypeOK
  <2>3. IsMap(NoMap) /\ Partial(<<>>, Ids, Nat) /\ <<>> \in Seq(Files) /\ Len(<<>>) = 0
    BY EmptySeq, Nothing
  <2>4. IsMap(db')
    BY <1>16 DEF Kill, TypeOK
  <2>5. split' \in BOOLEAN
    BY <1>16 DEF Kill, TypeOK
  <2>6. disturbed' \subseteq Logs
    BY <1>16, <2>1 DEF Kill, TypeOK
  <2>7. TypeOK'
    <3>1. /\ map' = [q \in Scripts |-> map'[q]] /\ \A q \in Scripts : IsMap(map'[q])
          /\ cache' = [q \in Scripts |-> cache'[q]] /\ \A q \in Scripts : Partial(cache'[q], Ids, Nat)
      BY <1>16, <2>3 DEF TypeOK, Kill
    <3> QED
      BY <1>16, <2>2, <2>3, <2>4, <2>5, <2>6, <3>1 DEF TypeOK, Kill
  <2>8. Control'
    <3>1. ASSUME NEW q \in Scripts, q # p PROVE ControlOf(q)'
      BY <1>16, <2>2, <3>1 DEF Control, ControlOf, Kill, TypeOK, Log, File
    <3>2. ControlOf(p)'
      BY <1>16, <2>3 DEF ControlOf, Kill, TypeOK, Tied
    <3> QED
      BY <3>1, <3>2 DEF Control
  <2> QED
    BY <2>7, <2>8
<1>17. CASE UNCHANGED vars
  <2>1. TypeOK'
    BY <1>17 DEF TypeOK, vars, Partial, IsMap, dirVars, ghosts
  <2>2. Control'
    BY <1>17 DEF Control, ControlOf, vars, Log, File, dirVars, ghosts
  <2> QED
    BY <2>1, <2>2
<1> QED
  BY <1>1, <1>2, <1>3, <1>4, <1>5, <1>6, <1>7, <1>8, <1>9, <1>10, <1>11, <1>12, <1>13,
     <1>14, <1>15, <1>16, <1>17 DEF Next, Step
-----------------------------------------------------------------------------
\* One code for each value.

\* A map that goes on from another has all that the other has.
LEMMA ExtendsHas ==
    ASSUME NEW m, NEW n, Extends(m, n), NEW id, NEW code, Has(n, id, code)
    PROVE  Has(m, id, code)
  BY DEF Extends, Has

\* Each code belongs to a value, so that no code is that of an unmapped value.
LEMMA CodeRange ==
    ASSUME NEW m, IsMap(m), Injective(m)
    PROVE  /\ IsFiniteSet(DOMAIN m.of \ Unmapped)
           /\ m.max # NoMax => m.max \in Nat /\ m.max >= FirstCode
           /\ \A u \in Unmapped : \A c \in Nat : c >= FirstCode /\ c < m.max => u # c
           /\ \A u \in Unmapped : \A id \in Ids :
                 m.max # NoMax /\ ~ (id \in DOMAIN m.of) /\ id \notin Unmapped => u # m.max
<1> USE ScriptsAssumption
<1> DEFINE S == DOMAIN m.of \ Unmapped
<1>1. S \subseteq Ids /\ m.max \in Nat \cup {-1}
  BY DEF IsMap, Partial, NoMax
<1>2. IsFiniteSet(S) /\ Cardinality(S) \in Nat /\ Cardinality(S) <= Cardinality(Ids)
  BY <1>1, FS_Subset, FS_CardinalityType
<1>3. Cardinality(Ids) \in Nat
  BY FS_CardinalityType
<1>4. m.max # NoMax => m.max = FirstCode + Cardinality(S)
  BY DEF Injective, Numbered
<1>5. ASSUME NEW id \in Ids, ~ (id \in DOMAIN m.of), id \notin Unmapped
      PROVE  Cardinality(S) < Cardinality(Ids)
  <2>1. S \cup {id} \subseteq Ids /\ id \notin S
    BY <1>1, <1>5
  <2>2. Cardinality(S \cup {id}) = Cardinality(S) + 1
    BY <1>2, <2>1, FS_AddElement
  <2>3. Cardinality(S \cup {id}) <= Cardinality(Ids)
    BY <2>1, FS_Subset
  <2> QED
    BY <1>2, <1>3, <2>2, <2>3
<1>6. \A u \in Unmapped : u \in Nat /\ (u < FirstCode \/ u >= FirstCode + Cardinality(Ids))
  OBVIOUS
<1> HIDE DEF S
<1>7. \A u \in Unmapped : \A c \in Nat : c >= FirstCode /\ c < m.max => u # c
  BY <1>1, <1>2, <1>3, <1>4, <1>6 DEF NoMax
<1>8. \A u \in Unmapped : \A id \in Ids :
         m.max # NoMax /\ ~ (id \in DOMAIN m.of) /\ id \notin Unmapped => u # m.max
  BY <1>2, <1>3, <1>4, <1>5, <1>6
<1>9. m.max # NoMax => m.max \in Nat /\ m.max >= FirstCode
  BY <1>2, <1>4
<1> QED
  BY <1>2, <1>7, <1>8, <1>9 DEF S

LEMMA OpenedGood ==
    ASSUME NEW file, IsMap(file), Injective(file)
    PROVE  /\ Unmapped \subseteq DOMAIN Opened(file).of /\ Injective(Opened(file))
           /\ Extends(Opened(file), file)
<1> USE ScriptsAssumption
<1> DEFINE m == Opened(file)
<1>1. /\ DOMAIN file.of \subseteq Ids /\ file.of \in [DOMAIN file.of -> Nat]
      /\ file.max \in Nat \cup {-1}
  BY DEF IsMap, Partial, NoMax
<1>2. /\ DOMAIN m.of = DOMAIN file.of \cup Unmapped
      /\ \A id \in DOMAIN m.of : m.of[id] = IF id \in Unmapped THEN id ELSE file.of[id]
      /\ m.max = IF file.max = -1 THEN FirstCode ELSE file.max
  BY DEF Opened, WithUnmapped, NoMax
<1> HIDE DEF m
<1>3. /\ m.max >= FirstCode /\ m.max >= file.max /\ m.max \in Nat
      /\ m.max = FirstCode + Cardinality(DOMAIN m.of \ Unmapped)
  <2>1. DOMAIN m.of \ Unmapped = DOMAIN file.of \ Unmapped
    BY <1>2
  <2>2. CASE file.max = -1
    <3>1. DOMAIN file.of \ Unmapped = {}
      BY <1>1, <2>2 DEF Injective
    <3>2. Cardinality(DOMAIN m.of \ Unmapped) = 0
      BY <2>1, <3>1, FS_EmptySet
    <3> QED
      BY <1>2, <2>2, <3>2
  <2>3. CASE file.max # -1
    <3>1. file.max \in Nat /\ file.max >= FirstCode
      BY <2>3, CodeRange DEF NoMax
    <3>2. file.max = FirstCode + Cardinality(DOMAIN file.of \ Unmapped)
      BY <2>3 DEF Injective, Numbered, NoMax
    <3>3. m.max = file.max
      BY <1>2, <2>3
    <3>4. Cardinality(DOMAIN m.of \ Unmapped) = Cardinality(DOMAIN file.of \ Unmapped)
      BY <2>1
    <3> QED
      BY <3>1, <3>2, <3>3, <3>4
  <2> QED
    BY <2>2, <2>3
<1>4. \A id \in DOMAIN m.of :
         IF id \in Unmapped THEN m.of[id] = id ELSE m.of[id] >= FirstCode /\ m.of[id] < m.max
  BY <1>1, <1>2, <1>3 DEF Injective
<1>5. \A a, b \in DOMAIN m.of : m.of[a] = m.of[b] => a = b
  <2> SUFFICES ASSUME NEW a \in DOMAIN m.of, NEW b \in DOMAIN m.of, m.of[a] = m.of[b]
               PROVE  a = b
    OBVIOUS
  <2>1. CASE a \in Unmapped /\ b \in Unmapped
    BY <1>2, <2>1
  <2>2. CASE a \notin Unmapped /\ b \notin Unmapped
    BY <1>2, <2>2 DEF Injective
  <2>3. CASE ~ (a \in Unmapped <=> b \in Unmapped)
    <3>1. \A u \in Unmapped : \A c \in Nat : c >= FirstCode /\ c < file.max => u # c
      BY CodeRange
    <3>2. \A x \in DOMAIN file.of : file.of[x] \in Nat
      BY <1>1
    <3> QED
      BY <1>2, <2>3, <3>1, <3>2 DEF Injective
  <2> QED
    BY <2>1, <2>2, <2>3
<1>6. Injective(m)
  <2>1. Numbered(m)
    BY <1>3 DEF Numbered
  <2> QED
    BY <1>4, <1>5, <2>1 DEF Injective
<1>7. Extends(m, file)
  BY <1>2 DEF Extends, Has, Injective
<1> QED
  BY <1>2, <1>6, <1>7 DEF m

\* A value gets the next code.
LEMMA NewCode ==
    ASSUME NEW m, IsMap(m), m.max # NoMax, Injective(m), Unmapped \subseteq DOMAIN m.of,
           NEW id \in Ids, ~ (id \in DOMAIN m.of),
           NEW n, n = [of |-> Put(m.of, id, m.max), max |-> m.max + 1]
    PROVE  /\ Unmapped \subseteq DOMAIN n.of /\ Injective(n) /\ Extends(n, m)
           /\ Has(n, id, m.max)
<1> USE ScriptsAssumption
<1>1. /\ DOMAIN m.of \subseteq Ids /\ m.of \in [DOMAIN m.of -> Nat] /\ m.max \in Nat
      /\ m.max >= FirstCode /\ IsFiniteSet(DOMAIN m.of \ Unmapped)
  BY CodeRange DEF IsMap, Partial
<1>2. /\ DOMAIN n.of = DOMAIN m.of \cup {id} /\ n.max = m.max + 1
      /\ n.of[id] = m.max /\ \A x \in DOMAIN m.of : n.of[x] = m.of[x]
  BY DEF Put
<1>3. id \notin Unmapped
  OBVIOUS
<1>4. \A x \in DOMAIN m.of : m.of[x] \in Nat /\ m.of[x] # m.max
  <2> TAKE x \in DOMAIN m.of
  <2>1. CASE x \in Unmapped
    <3>1. m.of[x] = x /\ x # m.max
      BY <1>3, <2>1, CodeRange DEF Injective
    <3> QED
      BY <1>1, <3>1
  <2>2. CASE x \notin Unmapped
    BY <1>1, <2>2 DEF Injective
  <2> QED
    BY <2>1, <2>2
<1>5. \A x \in DOMAIN n.of :
         IF x \in Unmapped THEN n.of[x] = x ELSE n.of[x] >= FirstCode /\ n.of[x] < n.max
  <2> TAKE x \in DOMAIN n.of
  <2>1. CASE x = id
    BY <1>1, <1>2, <1>3, <2>1
  <2>2. CASE x \in DOMAIN m.of
    BY <1>1, <1>2, <1>4, <2>2 DEF Injective
  <2> QED
    BY <1>2, <2>1, <2>2
<1>6. \A a, b \in DOMAIN n.of : n.of[a] = n.of[b] => a = b
  BY <1>1, <1>2, <1>4 DEF Injective
<1>7. Injective(n)
  <2>1. DOMAIN n.of \ Unmapped = (DOMAIN m.of \ Unmapped) \cup {id}
    BY <1>2, <1>3
  <2>2. Cardinality(DOMAIN n.of \ Unmapped) = Cardinality(DOMAIN m.of \ Unmapped) + 1
    BY <1>1, <2>1, FS_AddElement
  <2>3. Cardinality(DOMAIN m.of \ Unmapped) \in Nat
    BY <1>1, FS_CardinalityType
  <2>4. m.max = FirstCode + Cardinality(DOMAIN m.of \ Unmapped)
    BY DEF Injective, Numbered
  <2>5. n.max = FirstCode + Cardinality(DOMAIN n.of \ Unmapped)
    BY <1>1, <1>2, <2>2, <2>3, <2>4
  <2>6. Numbered(n)
    BY <2>5 DEF Numbered
  <2> QED
    BY <1>5, <1>6, <2>6 DEF Injective
<1>8. Extends(n, m) /\ Has(n, id, m.max)
  BY <1>2, <1>3 DEF Extends, Has, Injective
<1> QED
  BY <1>2, <1>7, <1>8

\* Where a script is in its log, after a step that leaves it there.
LEMMA ReadingSame ==
    ASSUME NEW q \in Scripts, Reading(q), src'[q] = src[q], made'[q] = made[q],
           made[q] \/ src[q] # NoFile => todo'[q] = todo[q],
           made[q] => anon'[Log(q)] = anon[Log(q)]
    PROVE  Reading(q)'
<1>1. made[q] \/ src[q] # NoFile => Log(q)' = Log(q)
  BY DEF Log, File
<1>2. Written(q)' = Written(q)
  BY <1>1 DEF Written
<1>3. CASE src[q] = NoFile
  BY <1>2, <1>3 DEF Reading
<1>4. CASE src[q] # NoFile
  BY <1>1, <1>2, <1>4 DEF Reading, Rest
<1> QED
  BY <1>3, <1>4

\* Steps that write neither maps nor anonymized logs.
LEMMA CodingSame ==
    ASSUME TypeOK, Control, Coding, UNCHANGED <<db, map, anon, src, made>>,
           \A q \in Scripts : cache'[q] = cache[q] \/ cache'[q] = <<>>,
           \A q \in Scripts : todo'[q] = todo[q] \/ (~ made[q] /\ src[q] = NoFile)
    PROVE  Coding'
<1>1. \A q \in Scripts : \A id \in DOMAIN cache'[q] : Has(Current(q)', id, cache'[q][id])
  BY EmptySeq DEF Coding, Current, Has
<1>2. \A q \in Scripts : Reading(q)'
  BY ReadingSame DEF Coding
<1>3. Agrees(db)' <=> Agrees(db)
  BY DEF Agrees, Has
<1>4. \A q \in Scripts : (Agrees(map[q]))' <=> Agrees(map[q])
  BY DEF Agrees, Has
<1> QED
  BY <1>1, <1>2, <1>3, <1>4 DEF Coding

\* A script that has the map is the only one that has anything open.
LEMMA Alone ==
    ASSUME TypeOK, Control, Coding, NEW p \in Scripts, map[p] # NoMap
    PROVE  \A q \in Scripts \ {p} : map[q] = NoMap /\ ~ made[q] /\ src[q] = NoFile
  BY DEF Coding, Control, ControlOf, Tied

\* What is cut off of an anonymized log leaves the rest as it was.
LEMMA CutAgrees ==
    ASSUME TypeOK, Coding, NEW l \in DOMAIN anon, NEW k \in 0..Len(anon[l]),
           anon' = [anon EXCEPT ![l] = SubSeq(@, 1, k)], NEW m, Agrees(m)
    PROVE  /\ \A x \in DOMAIN anon' : /\ Len(anon'[x]) <= Len(Content[x])
                                      /\ \A i \in 1..Len(anon'[x]) : Has(m, Content[x][i], anon'[x][i])
           /\ DOMAIN anon' = DOMAIN anon
<1>1. /\ DOMAIN anon' = DOMAIN anon
      /\ Len(anon'[l]) = k /\ \A i \in 1..k : anon'[l][i] = anon[l][i]
      /\ \A x \in DOMAIN anon : x # l => anon'[x] = anon[x]
  BY CutShort
<1>2. Len(anon[l]) \in Nat /\ Len(Content[l]) \in Nat
  BY ScriptsAssumption, LenProperties DEF TypeOK, Partial
<1>3. k \in Nat /\ k <= Len(anon[l]) /\ Len(anon[l]) <= Len(Content[l])
  BY <1>2 DEF Coding
<1> QED
  BY <1>1, <1>2, <1>3 DEF Coding, Agrees

LEMMA StepCoding ==
    TypeOK /\ Control /\ (~ split => Coding) /\ [Next]_vars => (~ split' => Coding')
<1> SUFFICES ASSUME TypeOK, Control, ~ split => Coding, [Next]_vars, ~ split' PROVE Coding'
  OBVIOUS
<1> USE ScriptsAssumption
<1>1. Coding
  <2>1. split => split'
    BY ZenonT(60) DEF Next, vars, ghosts, Publish, Edit, Start, Step, CheckOut, Unlink, Exit, GzipStart,
           GzipFinish, OpenMaps, OpenIn, OpenOut, Anonymize, CloseStreams, CloseMaps, DiskFull, Kill
  <2> QED
    BY <2>1
<1>2. ASSUME NEW l \in Logs, Publish(l) PROVE Coding'
  BY <1>1, <1>2, CodingSame DEF Publish
<1>3. ASSUME Edit PROVE Coding'
  BY <1>1, <1>3, CodingSame DEF Edit, dirVars
<1>4. ASSUME NEW p \in Scripts, Start(p) PROVE Coding'
  <2>1. ~ made[p] /\ src[p] = NoFile
    BY <1>4 DEF Start, Control, ControlOf
  <2>2. \A q \in Scripts : todo'[q] = todo[q] \/ (~ made[q] /\ src[q] = NoFile)
    BY <1>4, <2>1 DEF Start, TypeOK
  <2> QED
    BY <1>1, <1>4, <2>2, CodingSame DEF Start, dirVars
<1>5. ASSUME NEW p \in Scripts, CheckOut(p) PROVE Coding'
  BY <1>1, <1>5, CodingSame DEF CheckOut, dirVars
<1>6. ASSUME NEW p \in Scripts, Unlink(p) PROVE Coding'
  <2>1. ~ made[p] /\ src[p] = NoFile
    BY <1>6 DEF Unlink, Control, ControlOf
  <2>2. \A q \in Scripts : todo'[q] = todo[q] \/ (~ made[q] /\ src[q] = NoFile)
    BY <1>6, <2>1 DEF Unlink, TypeOK
  <2> QED
    BY <1>1, <1>6, <2>2, CodingSame DEF Unlink
<1>7. ASSUME NEW p \in Scripts, Exit(p) PROVE Coding'
  <2>1. \A q \in Scripts : cache'[q] = cache[q] \/ cache'[q] = <<>>
    BY <1>7 DEF Exit, TypeOK
  <2> QED
    BY <1>1, <1>7, <2>1, CodingSame DEF Exit, dirVars
<1>8. ASSUME NEW p \in Scripts, GzipStart(p) PROVE Coding'
  <2>1. ~ made[p] /\ src[p] = NoFile
    BY <1>8 DEF GzipStart, Control, ControlOf
  <2>2. \A q \in Scripts : todo'[q] = todo[q] \/ (~ made[q] /\ src[q] = NoFile)
    BY <1>8, <2>1 DEF GzipStart, TypeOK
  <2> QED
    BY <1>1, <1>8, <2>2, CodingSame DEF GzipStart
<1>9. ASSUME NEW p \in Scripts, GzipFinish(p) PROVE Coding'
  <2>1. ~ made[p] /\ src[p] = NoFile
    BY <1>9 DEF GzipFinish, Control, ControlOf
  <2>2. \A q \in Scripts : todo'[q] = todo[q] \/ (~ made[q] /\ src[q] = NoFile)
    BY <1>9, <2>1 DEF GzipFinish, TypeOK
  <2> QED
    BY <1>1, <1>9, <2>2, CodingSame DEF GzipFinish
<1>10. ASSUME NEW p \in Scripts, OpenMaps(p) PROVE Coding'
  <2>1. \A q \in Scripts : map[q] = NoMap
    BY <1>10 DEF OpenMaps
  <2>2. /\ Unmapped \subseteq DOMAIN Opened(db).of /\ Injective(Opened(db))
        /\ Extends(Opened(db), db)
    BY <1>1, OpenedGood DEF Coding, TypeOK
  <2>3. Opened(db) # NoMap
    BY DEF TypeOK, IsMap, Opened, NoMap, NoMax
  <2>4. /\ map'[p] = Opened(db) /\ \A q \in Scripts \ {p} : map'[q] = NoMap
        /\ UNCHANGED <<anon, db, todo, made, src, cache>>
    BY <1>10, <2>1 DEF OpenMaps, TypeOK, dirVars
  <2>5. \A id, code : Has(db, id, code) => Has(Opened(db), id, code)
    BY <2>2, ExtendsHas
  <2>6. Agrees(Opened(db))
    BY <1>1, <2>1, <2>5 DEF Coding, Agrees
  <2>7. \A q \in Scripts : \A id \in DOMAIN cache[q] : Has(Current(q)', id, cache[q][id])
    BY <1>1, <2>1, <2>3, <2>4, <2>5 DEF Coding, Current
  <2>8. \A q \in Scripts : Reading(q)'
    BY <1>1, <2>4, ReadingSame DEF Coding
  <2>9. \A q \in Scripts : map'[q] # NoMap => q = p
    BY <2>4
  <2>10. Agrees(map[p])'
    BY <2>4, <2>6 DEF Agrees, Has
  <2> QED
    BY <1>1, <2>2, <2>3, <2>4, <2>7, <2>8, <2>9, <2>10 DEF Coding
<1>11. ASSUME NEW p \in Scripts, OpenIn(p) PROVE Coding'
  <2>1. todo[p] # <<>> /\ map[p] # NoMap
    BY <1>11 DEF OpenIn, Control, ControlOf, Tied
  <2>2. PICK s \in Readable(File(p)) : src' = [src EXCEPT ![p] = s]
    BY <1>11 DEF OpenIn
  <2>3. /\ s \in Seq(Ids) /\ Len(s) \in Nat /\ Len(s) <= Len(Content[Log(p)])
        /\ \A i \in 1..Len(s) : s[i] = Content[Log(p)][i]
    BY <2>1, AtHand, Readables DEF Log
  <2>4. UNCHANGED <<anon, db, todo, made, map, cache>>
    BY <1>11 DEF OpenIn, dirVars
  <2>5. Written(p)' = 0
    BY <1>1, <1>11, <2>4 DEF OpenIn, Coding, Reading, Written, Log, File
  <2>6. src'[p] = s /\ \A q \in Scripts \ {p} : src'[q] = src[q]
    BY <2>2 DEF TypeOK
  <2>7. Rest(p)'
    <3>1. Log(p)' = Log(p)
      BY <2>4 DEF Log, File
    <3>2. \A i \in 1..Len(s) : 0 + i = i
      BY <2>3
    <3> QED
      BY <2>3, <2>5, <2>6, <3>1, <3>2 DEF Rest
  <2>8. src'[p] # NoFile
    BY <2>3, <2>6
  <2>9. \A q \in Scripts : Reading(q)'
    <3>1. \A q \in Scripts \ {p} : Reading(q)'
      BY <1>1, <2>4, <2>6, ReadingSame DEF Coding
    <3> QED
      BY <2>7, <2>8, <3>1 DEF Reading
  <2>10. Agrees(db)' <=> Agrees(db)
    BY <2>4 DEF Agrees, Has
  <2>11. \A q \in Scripts : Agrees(map[q])' <=> Agrees(map[q])
    BY <2>4 DEF Agrees, Has
  <2> QED
    BY <1>1, <2>4, <2>9, <2>10, <2>11 DEF Coding, Current
<1>12. ASSUME NEW p \in Scripts, OpenOut(p) PROVE Coding'
  <2>1. todo[p] # <<>> /\ map[p] # NoMap /\ Log(p) \in Logs
    BY <1>12, AtHand DEF OpenOut, Control, ControlOf, Tied
  <2>2. \A q \in Scripts \ {p} : map[q] = NoMap /\ ~ made[q] /\ src[q] = NoFile
    BY <1>1, <2>1, Alone
  <2>3. /\ made'[p] /\ \A q \in Scripts \ {p} : made'[q] = made[q]
        /\ UNCHANGED <<db, todo, src, map, cache>>
    BY <1>12 DEF OpenOut, TypeOK
  <2>4. /\ DOMAIN anon' = DOMAIN anon \cup {Log(p)} /\ anon'[Log(p)] = <<>>
        /\ \A l \in DOMAIN anon : l # Log(p) => anon'[l] = anon[l]
    BY <1>12 DEF OpenOut, Put
  <2>5. Len(<<>>) = 0 /\ Len(Content[Log(p)]) \in Nat
    BY <2>1, EmptySeq, LenProperties
  <2>6. \A l \in DOMAIN anon' : Len(anon'[l]) <= Len(Content[l])
    BY <1>1, <2>4, <2>5 DEF Coding
  <2>7. Agrees(map[p])'
    BY <1>1, <2>1, <2>3, <2>4, <2>5 DEF Coding, Agrees, Has
  <2>8. Reading(p)'
    <3>1. Log(p)' = Log(p)
      BY <2>3 DEF Log, File
    <3>2. Written(p)' = 0 /\ ~ made[p]
      BY <1>12, <2>3, <2>4, <2>5, <3>1 DEF Written, OpenOut
    <3>3. Written(p) = 0
      BY <3>2 DEF Written
    <3> QED
      BY <1>1, <2>3, <3>1, <3>2, <3>3 DEF Coding, Reading, Rest
  <2>9. \A q \in Scripts : Reading(q)'
    BY <1>1, <2>2, <2>3, <2>8, ReadingSame DEF Coding
  <2> QED
    BY <1>1, <2>1, <2>2, <2>3, <2>6, <2>7, <2>9 DEF Coding, Current
<1>13. ASSUME NEW p \in Scripts, Anonymize(p) PROVE Coding'
  <2> DEFINE id == Head(src[p])
             code == CodeOf(p, id)
             l == Log(p)
             m == map'[p]
  <2>1. /\ src[p] \in Seq(Ids) /\ src[p] # <<>> /\ made[p] /\ todo[p] # <<>> /\ src[p] # NoFile
        /\ map[p] # NoMap /\ map[p].max # NoMax /\ l \in DOMAIN anon
    BY <1>13 DEF Anonymize, Control, ControlOf, TypeOK, Tied
  <2>2. /\ id \in Ids /\ id = src[p][1] /\ Tail(src[p]) \in Seq(Ids) /\ Len(src[p]) \in Nat
        /\ Len(src[p]) >= 1 /\ Len(Tail(src[p])) = Len(src[p]) - 1
        /\ \A i \in 1..(Len(src[p]) - 1) : Tail(src[p])[i] = src[p][i + 1]
    BY <2>1, ListRest
  <2>3. /\ anon' = [anon EXCEPT ![l] = Append(@, code)]
        /\ cache' = [cache EXCEPT ![p] = Put(@, id, code)]
        /\ map' = IF Known(p, id) THEN map
                  ELSE [map EXCEPT ![p] = [of |-> Put(@.of, id, code), max |-> @.max + 1]]
        /\ src' = [src EXCEPT ![p] = Tail(@)]
        /\ UNCHANGED <<db, todo, made>>
    BY <1>13 DEF Anonymize
  <2>4. /\ IsMap(map[p]) /\ Unmapped \subseteq DOMAIN map[p].of /\ Injective(map[p])
        /\ Extends(map[p], db) /\ Agrees(map[p])
    BY <1>1, <2>1 DEF Coding, TypeOK
  <2>5. \A x \in DOMAIN cache[p] : Has(map[p], x, cache[p][x])
    BY <1>1, <2>1 DEF Coding, Current
  <2> HIDE DEF id
  <2>6. /\ Unmapped \subseteq DOMAIN m.of /\ Injective(m) /\ Has(m, id, code) /\ m # NoMap
        /\ \A x, c : Has(map[p], x, c) => Has(m, x, c)
    <3>1. CASE Known(p, id)
      <4>1. m = map[p]
        BY <2>3, <3>1
      <4>2. Has(map[p], id, code)
        BY <2>4, <2>5, <3>1 DEF CodeOf, Known, Has, Injective
      <4> QED
        BY <2>1, <2>4, <4>1, <4>2
    <3>2. CASE ~ Known(p, id)
      <4>1. code = map[p].max /\ ~ (id \in DOMAIN map[p].of)
        BY <3>2 DEF CodeOf, Known
      <4>2. m = [of |-> Put(map[p].of, id, map[p].max), max |-> map[p].max + 1]
        BY <2>3, <3>2, <4>1 DEF TypeOK
      <4>3. /\ Unmapped \subseteq DOMAIN m.of /\ Injective(m) /\ Extends(m, map[p])
            /\ Has(m, id, map[p].max)
        BY <2>1, <2>2, <2>4, <4>1, <4>2, NewCode
      <4>4. m.max = map[p].max + 1 /\ map[p].max \in Nat
        BY <2>1, <4>2 DEF TypeOK, IsMap
      <4>5. m # NoMap
        BY <4>4 DEF NoMap, NoMax
      <4> QED
        BY <4>1, <4>3, <4>5, ExtendsHas
    <3> QED
      BY <3>1, <3>2
  <2>7. \A q \in Scripts \ {p} : /\ map[q] = NoMap /\ map'[q] = NoMap /\ ~ made[q]
                                /\ src[q] = NoFile /\ src'[q] = src[q] /\ cache'[q] = cache[q]
    BY <1>1, <2>1, <2>3, Alone DEF TypeOK
  <2>8. /\ cache'[p] = Put(cache[p], id, code) /\ src'[p] = Tail(src[p])
    BY <2>3 DEF TypeOK
  <2> DEFINE n == Len(anon[l])
  <2>9. /\ DOMAIN anon' = DOMAIN anon /\ \A x \in DOMAIN anon : x # l => anon'[x] = anon[x]
        /\ n \in Nat /\ Len(anon'[l]) = n + 1 /\ anon'[l][n + 1] = code
        /\ \A i \in 1..n : anon'[l][i] = anon[l][i]
    <3>1. code \in Nat
      BY <2>1, <2>2 DEF CodeOf, TypeOK, IsMap, Partial
    <3>2. anon \in [DOMAIN anon -> Seq(Nat)]
      BY DEF TypeOK, Partial
    <3> HIDE DEF code
    <3>3. anon'[l] = Append(anon[l], code) /\ anon[l] \in Seq(Nat)
      BY <2>1, <2>3, <3>2
    <3>4. /\ Len(Append(anon[l], code)) = n + 1 /\ n \in Nat
          /\ Append(anon[l], code)[n + 1] = code
          /\ \A i \in 1..n : Append(anon[l], code)[i] = anon[l][i]
      BY <3>1, <3>3, AppendProperties, LenProperties
    <3> QED
      BY <2>3, <3>2, <3>3, <3>4
  <2>10. /\ n + Len(src[p]) <= Len(Content[l]) /\ Len(Content[l]) \in Nat
         /\ \A i \in 1..Len(src[p]) : src[p][i] = Content[l][n + i]
    <3>1. l \in Logs
      BY <2>1, AtHand
    <3> QED
      BY <1>1, <2>1, <3>1, LenProperties DEF Coding, Reading, Rest, Written
  <2>11. Content[l][n + 1] = id
    BY <2>2, <2>10
  <2> HIDE DEF code, l, m, n
  <2>12. \A x \in DOMAIN anon' : Len(anon'[x]) <= Len(Content[x])
    <3>1. Len(anon'[l]) <= Len(Content[l])
      BY <2>2, <2>9, <2>10
    <3> QED
      BY <1>1, <2>9, <3>1 DEF Coding
  <2>13. \A x \in DOMAIN anon' : \A i \in 1..Len(anon'[x]) : Has(m, Content[x][i], anon'[x][i])
    <3> TAKE x \in DOMAIN anon'
    <3> TAKE i \in 1..Len(anon'[x])
    <3>1. CASE x # l
      BY <2>4, <2>6, <2>9, <3>1 DEF Agrees
    <3>2. CASE x = l /\ i = n + 1
      BY <2>6, <2>9, <2>11, <3>2
    <3>3. CASE x = l /\ i # n + 1
      <4>1. i \in 1..n /\ l \in DOMAIN anon /\ n = Len(anon[l])
        BY <2>9, <3>3 DEF n
      <4>2. Has(map[p], Content[l][i], anon[l][i])
        BY <2>4, <4>1 DEF Agrees
      <4> QED
        BY <2>6, <2>9, <3>3, <4>1, <4>2
    <3> QED
      BY <3>1, <3>2, <3>3
  <2>14. Agrees(map[p])'
    BY <2>13 DEF Agrees, Has, m
  <2>15. \A q \in Scripts : \A x \in DOMAIN cache'[q] : Has(Current(q)', x, cache'[q][x])
    <3>1. \A x \in DOMAIN cache'[p] : Has(m, x, cache'[p][x])
      BY <2>5, <2>6, <2>8 DEF Put
    <3>2. Current(p)' = m
      BY <2>6 DEF Current, m
    <3>3. \A q \in Scripts \ {p} : Current(q)' = db /\ Current(q) = db
      BY <2>3, <2>7 DEF Current
    <3> QED
      BY <1>1, <2>7, <3>1, <3>2, <3>3 DEF Coding
  <2>16. Reading(p)'
    <3>1. Log(p)' = l
      BY <2>3 DEF Log, File, l
    <3>2. Written(p)' = n + 1 /\ src'[p] # NoFile
      BY <2>1, <2>2, <2>3, <2>8, <2>9, <3>1 DEF Written
    <3>3. n + 1 + Len(src'[p]) <= Len(Content[l])
      <4>1. Len(src'[p]) = Len(src[p]) - 1
        BY <2>2, <2>8
      <4>2. /\ n \in Nat /\ Len(src[p]) \in Nat /\ Len(Content[l]) \in Nat
            /\ n + Len(src[p]) <= Len(Content[l])
        BY <2>2, <2>9, <2>10
      <4>3. \A w, x, y \in Nat : w + x <= y => w + 1 + (x - 1) <= y
        OBVIOUS
      <4> QED
        BY <4>1, <4>2, <4>3
    <3>4. \A i \in 1..Len(src'[p]) : src'[p][i] = Content[l][n + 1 + i]
      <4> TAKE i \in 1..Len(src'[p])
      <4>1. i \in Nat /\ i + 1 \in 1..Len(src[p]) /\ i \in 1..(Len(src[p]) - 1)
        BY <2>2, <2>8
      <4>2. src'[p][i] = src[p][i + 1] /\ src[p][i + 1] = Content[l][n + (i + 1)]
        BY <2>2, <2>8, <2>10, <4>1
      <4>3. n + (i + 1) = n + 1 + i
        BY <2>9, <4>1
      <4> QED
        BY <4>2, <4>3
    <3> QED
      BY <3>1, <3>2, <3>3, <3>4 DEF Reading, Rest
  <2>17. \A q \in Scripts : Reading(q)'
    BY <1>1, <2>3, <2>7, <2>16, ReadingSame DEF Coding
  <2>18. Extends(m, db)
    BY <2>4, <2>6 DEF Extends
  <2> QED
    BY <1>1, <2>3, <2>6, <2>7, <2>12, <2>14, <2>15, <2>17, <2>18 DEF Coding, m
<1>14. ASSUME NEW p \in Scripts, CloseStreams(p) PROVE Coding'
  <2>1. /\ UNCHANGED <<anon, db, todo, map, cache>> /\ ~ made'[p] /\ src'[p] = NoFile
        /\ \A q \in Scripts \ {p} : src'[q] = src[q] /\ made'[q] = made[q]
    BY <1>14 DEF CloseStreams, TypeOK, dirVars
  <2>2. Reading(p)'
    BY <2>1 DEF Reading, Written
  <2>3. \A q \in Scripts : Reading(q)'
    BY <1>1, <2>1, <2>2, ReadingSame DEF Coding
  <2>4. Agrees(db)' <=> Agrees(db)
    BY <2>1 DEF Agrees, Has
  <2>5. \A q \in Scripts : Agrees(map[q])' <=> Agrees(map[q])
    BY <2>1 DEF Agrees, Has
  <2> QED
    BY <1>1, <2>1, <2>3, <2>4, <2>5 DEF Coding, Current
<1>15. ASSUME NEW p \in Scripts, CloseMaps(p) PROVE Coding'
  <2>1. map[p] # NoMap /\ src[p] = NoFile /\ ~ made[p]
    BY <1>15 DEF CloseMaps, Control, ControlOf, Tied
  <2>2. /\ db' = map[p] /\ map'[p] = NoMap /\ \A q \in Scripts \ {p} : map'[q] = map[q]
        /\ UNCHANGED <<anon, todo, made, src, cache>>
    BY <1>15 DEF CloseMaps, Untied, TypeOK, dirVars
  <2>3. \A q \in Scripts : map'[q] = NoMap
    BY <1>1, <2>1, <2>2, Alone
  <2>4. Injective(db') /\ Extends(map[p], db)
    BY <1>1, <2>1, <2>2 DEF Coding
  <2>5. \A x, c : Has(db, x, c) => Has(map[p], x, c)
    BY <2>4, ExtendsHas
  <2>6. \A q \in Scripts : \A x \in DOMAIN cache'[q] : Has(Current(q)', x, cache'[q][x])
    BY <1>1, <2>2, <2>3, <2>5 DEF Coding, Current
  <2>7. Agrees(db)'
    BY <1>1, <2>1, <2>2 DEF Coding, Agrees, Has
  <2>8. \A q \in Scripts : Reading(q)'
    BY <1>1, <2>2, ReadingSame DEF Coding
  <2> QED
    BY <1>1, <2>2, <2>3, <2>4, <2>6, <2>7, <2>8 DEF Coding
<1>16. ASSUME NEW p \in Scripts, DiskFull(p) PROVE Coding'
  <2>1. map[p] # NoMap /\ Log(p) \in DOMAIN anon
    BY <1>16 DEF DiskFull, Control, ControlOf, Tied
  <2>2. PICK k \in 0..Len(anon[Log(p)]) : anon' = [anon EXCEPT ![Log(p)] = SubSeq(@, 1, k)]
    BY <1>16 DEF DiskFull
  <2>3. /\ UNCHANGED <<db, todo, map, cache>> /\ ~ made'[p] /\ src'[p] = NoFile
        /\ \A q \in Scripts \ {p} : src'[q] = src[q] /\ made'[q] = made[q]
    BY <1>16 DEF DiskFull, TypeOK
  <2>4. \A q \in Scripts \ {p} : map[q] = NoMap /\ ~ made[q] /\ src[q] = NoFile
    BY <1>1, <2>1, Alone
  <2>5. Agrees(map[p])
    BY <1>1, <2>1 DEF Coding
  <2>6. /\ \A x \in DOMAIN anon' :
              /\ Len(anon'[x]) <= Len(Content[x])
              /\ \A i \in 1..Len(anon'[x]) : Has(map[p], Content[x][i], anon'[x][i])
    BY <1>1, <2>1, <2>2, <2>5, CutAgrees
  <2>7. Agrees(map[p])'
    BY <2>3, <2>6 DEF Agrees, Has
  <2>8. Reading(p)'
    BY <2>3 DEF Reading, Written
  <2>9. \A q \in Scripts : Reading(q)'
    BY <1>1, <2>3, <2>4, <2>8, ReadingSame DEF Coding
  <2> QED
    BY <1>1, <2>1, <2>3, <2>4, <2>6, <2>7, <2>9 DEF Coding, Current
<1>17. ASSUME NEW p \in Scripts, Kill(p) PROVE Coding'
  <2>1. /\ map'[p] = NoMap /\ cache'[p] = <<>> /\ ~ made'[p] /\ src'[p] = NoFile
        /\ \A q \in Scripts \ {p} : /\ map'[q] = map[q] /\ cache'[q] = cache[q]
                                   /\ src'[q] = src[q] /\ made'[q] = made[q] /\ todo'[q] = todo[q]
    BY <1>17 DEF Kill, TypeOK
  <2>2. Reading(p)'
    BY <2>1 DEF Reading, Written
  <2>3. CASE map[p] = NoMap
    <3>1. ~ made[p] /\ src[p] = NoFile
      BY <2>3 DEF Control, ControlOf, Tied
    <3>2. UNCHANGED <<db, anon>>
      BY <1>17, <2>3, <3>1 DEF Kill
    <3>3. \A q \in Scripts : map'[q] = map[q]
      BY <2>1, <2>3
    <3>4. \A q \in Scripts : Reading(q)'
      BY <1>1, <2>1, <2>2, <3>2, ReadingSame DEF Coding
    <3>5. Agrees(db)' <=> Agrees(db)
      BY <3>2 DEF Agrees, Has
    <3>6. \A q \in Scripts : Agrees(map[q])' <=> Agrees(map[q])
      BY <3>2, <3>3 DEF Agrees, Has
    <3>7. \A q \in Scripts : \A x \in DOMAIN cache'[q] : Has(Current(q)', x, cache'[q][x])
      BY <1>1, <2>1, <3>2, <3>3, EmptySeq DEF Coding, Current
    <3> QED
      BY <1>1, <3>2, <3>3, <3>4, <3>5, <3>6, <3>7 DEF Coding
  <2>4. CASE map[p] # NoMap
    <3>1. \A q \in Scripts \ {p} : map[q] = NoMap /\ ~ made[q] /\ src[q] = NoFile
      BY <1>1, <2>4, Alone
    <3>2. /\ Injective(map[p]) /\ Extends(map[p], db) /\ Agrees(map[p]) /\ Injective(db)
      BY <1>1, <2>4 DEF Coding
    <3>3. db' \in {db, map[p]} /\ ~ Forgotten(map[p], db')
      BY <1>17, <2>4 DEF Kill
    <3>4. \A x, c : Has(map[p], x, c) => Has(db', x, c)
      BY <3>3 DEF Forgotten, Has
    <3>5. \A x, c : Has(db, x, c) => Has(db', x, c)
      BY <3>2, <3>4, ExtendsHas
    <3>6. \A x \in DOMAIN anon' :
             /\ Len(anon'[x]) <= Len(Content[x])
             /\ \A i \in 1..Len(anon'[x]) : Has(map[p], Content[x][i], anon'[x][i])
      <4>1. CASE made[p]
        <5>1. Log(p) \in DOMAIN anon
          BY <4>1 DEF Control, ControlOf
        <5>2. PICK k \in 0..Len(anon[Log(p)]) : anon' = [anon EXCEPT ![Log(p)] = SubSeq(@, 1, k)]
          BY <1>17, <4>1 DEF Kill
        <5> QED
          BY <1>1, <3>2, <5>1, <5>2, CutAgrees
      <4>2. CASE ~ made[p]
        BY <1>1, <1>17, <3>2, <4>2 DEF Kill, Coding, Agrees
      <4> QED
        BY <4>1, <4>2
    <3>7. Agrees(db)'
      BY <3>4, <3>6 DEF Agrees, Has
    <3>8. \A q \in Scripts : map'[q] = NoMap
      BY <2>1, <3>1
    <3>9. \A q \in Scripts : Reading(q)'
      BY <1>1, <2>1, <2>2, <3>1, ReadingSame DEF Coding
    <3>10. \A q \in Scripts : \A x \in DOMAIN cache'[q] : Has(Current(q)', x, cache'[q][x])
      BY <1>1, <2>1, <3>1, <3>5, <3>8, EmptySeq DEF Coding, Current
    <3>11. Injective(db')
      BY <3>2, <3>3
    <3> QED
      BY <3>6, <3>7, <3>8, <3>9, <3>10, <3>11 DEF Coding
  <2> QED
    BY <2>3, <2>4
<1>18. CASE UNCHANGED vars
  BY <1>1, <1>18, CodingSame DEF vars, dirVars
<1> QED
  BY <1>2, <1>3, <1>4, <1>5, <1>6, <1>7, <1>8, <1>9, <1>10, <1>11, <1>12, <1>13,
     <1>14, <1>15, <1>16, <1>17, <1>18 DEF Next, Step

LEMMA InitCoding == Init => Coding
<1> SUFFICES ASSUME Init PROVE Coding
  OBVIOUS
<1>1. DOMAIN <<>> = {}
  BY EmptySeq
<1>2. Injective(NoMap)
  BY <1>1 DEF Injective, Numbered, NoMap, NoMax
<1>3. DOMAIN anon = {} /\ \A p \in Scripts : map[p] = NoMap /\ ~ made[p] /\ src[p] = NoFile /\ cache[p] = <<>>
  BY <1>1 DEF Init
<1>4. db = NoMap
  BY DEF Init
<1> QED
  BY <1>1, <1>2, <1>3, <1>4 DEF Coding, Agrees, Reading, Written, Current

\* In codes that one map gives, values and codes go together.
LEMMA CodingOne == TypeOK /\ Coding => OneCode
<1> SUFFICES ASSUME TypeOK, Coding,
                    NEW l \in DOMAIN anon, NEW k \in DOMAIN anon,
                    NEW i \in DOMAIN anon[l], NEW j \in DOMAIN anon[k]
             PROVE  /\ anon[l][i] = anon[k][j] <=> Content[l][i] = Content[k][j]
                    /\ Content[l][i] \in Unmapped => anon[l][i] = Content[l][i]
  BY DEF OneCode
<1>1. PICK m : IsMap(m) /\ Injective(m) /\ Agrees(m)
  <2>1. CASE \E p \in Scripts : map[p] # NoMap
    BY <2>1 DEF Coding, TypeOK
  <2>2. CASE \A p \in Scripts : map[p] = NoMap
    BY <2>2 DEF Coding, TypeOK
  <2> QED
    BY <2>1, <2>2
<1>2. anon \in [DOMAIN anon -> Seq(Nat)] /\ DOMAIN anon \subseteq Logs
  BY DEF TypeOK, Partial
<1>3. i \in 1..Len(anon[l]) /\ j \in 1..Len(anon[k])
  BY <1>2, LenProperties
<1>4. /\ anon[l][i] \in Nat /\ anon[k][j] \in Nat
  BY <1>2, <1>3, ElementOfSeq
<1>5. \A x \in Unmapped : \A n \in Nat : n >= FirstCode /\ n < m.max => x # n
  BY <1>1, CodeRange
<1>6. Has(m, Content[l][i], anon[l][i]) /\ Has(m, Content[k][j], anon[k][j])
  BY <1>1, <1>3 DEF Agrees
<1> DEFINE a == Content[l][i]
           b == Content[k][j]
           c == anon[l][i]
           d == anon[k][j]
<1> HIDE DEF a, b, c, d
<1>7. c \in Nat /\ d \in Nat /\ Has(m, a, c) /\ Has(m, b, d) /\ FirstCode \in Nat
  BY <1>4, <1>6, ScriptsAssumption DEF a, b, c, d
<1>8. (c = d <=> a = b) /\ (a \in Unmapped => c = a)
  <2>1. CASE a \in Unmapped /\ b \in Unmapped
    BY <1>7, <2>1 DEF Has
  <2>2. CASE a \notin Unmapped /\ b \notin Unmapped
    BY <1>1, <1>7, <2>2 DEF Has, Injective
  <2>3. CASE a \in Unmapped /\ b \notin Unmapped
    BY <1>1, <1>5, <1>7, <2>3 DEF Has, Injective
  <2>4. CASE a \notin Unmapped /\ b \in Unmapped
    BY <1>1, <1>5, <1>7, <2>4 DEF Has, Injective
  <2> QED
    BY <2>1, <2>2, <2>3, <2>4
<1> QED
  BY <1>8 DEF a, b, c, d
-----------------------------------------------------------------------------
\* No log is lost.

\* The log at hand is on the list, and on no other one if it is clean.
LEMMA OnItsList ==
    ASSUME TypeOK, Control, NEW p \in Scripts, todo[p] # <<>>
    PROVE  /\ OnList(p, File(p)[1], Log(p)) /\ File(p)[1] \in {"txt", "gz"}
           /\ File(p) = <<File(p)[1], Log(p)>>
<1>1. /\ File(p) = todo[p][1] /\ Log(p) = File(p)[2] /\ File(p) \in Files
      /\ Len(todo[p]) \in Nat /\ Len(todo[p]) >= 1
  BY AtHand DEF Log
<1>2. File(p) = <<File(p)[1], Log(p)>> /\ File(p)[1] \in {"txt", "gz"}
  BY <1>1 DEF Files
<1> QED
  BY <1>1, <1>2 DEF OnList

LEMMA Sole ==
    ASSUME Lists, NEW p \in Scripts, NEW q \in Scripts, NEW l \in Clean, NEW j, NEW k,
           OnList(p, j, l), OnList(q, k, l)
    PROVE  p = q
<1> SUFFICES ASSUME p # q PROVE FALSE
  OBVIOUS
<1>1. PICK i \in 1..Len(todo[p]) : todo[p][i] = <<j, l>>
  BY DEF OnList
<1>2. PICK h \in 1..Len(todo[q]) : todo[q][h] = <<k, l>>
  BY DEF OnList
<1>3. todo[p][i][2] = l /\ todo[q][h][2] = l
  BY <1>1, <1>2
<1>4. l \in disturbed
  BY <1>1, <1>2, <1>3 DEF Lists, Apart
<1> QED
  BY <1>4 DEF Clean

LEMMA SoleLog ==
    ASSUME TypeOK, Control, Lists, NEW p \in Scripts, NEW q \in Scripts,
           todo[p] # <<>>, todo[q] # <<>>, Log(p) = Log(q), Log(p) \in Clean
    PROVE  p = q
<1>1. OnList(p, File(p)[1], Log(p)) /\ OnList(q, File(q)[1], Log(p))
  BY OnItsList
<1> QED
  BY <1>1, Sole

\* A list from which the first file is dropped.
LEMMA Dropped ==
    ASSUME TypeOK, Control, Lists, NEW p \in Scripts, todo[p] # <<>>, todo'[p] = Tail(todo[p]),
           NEW kind, NEW log, kind = File(p)[1], log = Log(p)
    PROVE  /\ \A k, l : OnList(p, k, l)' => OnList(p, k, l)
           /\ \A k, l : OnList(p, k, l) /\ <<k, l>> # <<kind, log>> => OnList(p, k, l)'
           /\ ~ OnList(p, kind, log)' /\ ~ OnList(p, "txt", log)'
<1>1. /\ File(p) = todo[p][1] /\ File(p) = <<kind, log>> /\ kind \in {"txt", "gz"}
      /\ Len(todo[p]) \in Nat /\ Len(todo[p]) >= 1 /\ Len(Tail(todo[p])) = Len(todo[p]) - 1
      /\ \A i \in 1..(Len(todo[p]) - 1) : Tail(todo[p])[i] = todo[p][i + 1]
  BY AtHand, OnItsList
<1> DEFINE n == Len(todo[p])
<1>2. \A k, l : OnList(p, k, l)' <=> \E i \in 2..n : todo[p][i] = <<k, l>>
  <2> TAKE k, l
  <2>1. OnList(p, k, l)' <=> \E i \in 1..(n - 1) : todo[p][i + 1] = <<k, l>>
    BY <1>1 DEF OnList
  <2>2. ASSUME NEW i \in 1..(n - 1) PROVE i + 1 \in 2..n
    BY <1>1
  <2>3. ASSUME NEW i \in 2..n PROVE i - 1 \in 1..(n - 1) /\ (i - 1) + 1 = i
    BY <1>1
  <2> QED
    BY <2>1, <2>2, <2>3
<1>3. \A i \in 2..n : i \in 1..n /\ i # 1 /\ 1 < i /\ 1 \in 1..n
  BY <1>1
<1>4. \A i \in 1..n : i = 1 \/ i \in 2..n
  BY <1>1
<1>5. \A i \in 2..n : todo[p][i] # File(p)
  <2> TAKE i \in 2..n
  <2>1. i \in 1..n /\ i # 1 /\ 1 \in 1..n
    BY <1>1
  <2>2. todo[p][i] = todo[p][1] => i = 1
    BY <2>1 DEF Lists, Ordered
  <2> QED
    BY <1>1, <2>1, <2>2
<1>6. \A i \in 2..n : kind = "gz" => todo[p][i][1] = "gz"
  <2> TAKE i \in 2..n
  <2>1. i \in 1..n /\ 1 < i /\ 1 \in 1..n
    BY <1>1
  <2>2. todo[p][1][1] = "gz" => todo[p][i][1] = "gz"
    BY <2>1 DEF Lists, Ordered
  <2> QED
    BY <1>1, <2>2
<1>7. ~ OnList(p, "txt", log)'
  <2> SUFFICES ASSUME OnList(p, "txt", log)' PROVE FALSE
    OBVIOUS
  <2>1. PICK i \in 2..n : todo[p][i] = <<"txt", log>>
    BY <1>2
  <2>2. CASE kind = "txt"
    BY <1>1, <1>5, <2>1, <2>2
  <2>3. CASE kind = "gz"
    BY <1>6, <2>1, <2>3
  <2> QED
    BY <1>1, <2>2, <2>3
<1>8. ~ OnList(p, kind, log)'
  BY <1>1, <1>2, <1>5
<1>9. \A k, l : OnList(p, k, l)' => OnList(p, k, l)
  BY <1>2, <1>3 DEF OnList
<1>10. \A k, l : OnList(p, k, l) /\ <<k, l>> # <<kind, log>> => OnList(p, k, l)'
  BY <1>1, <1>2, <1>4 DEF OnList
<1> QED
  BY <1>7, <1>8, <1>9, <1>10

\* The lists after a step that only shortens them.
LEMMA ListsSame ==
    ASSUME TypeOK, Control, Lists, disturbed \subseteq disturbed',
           \A q \in Scripts :
              \/ todo'[q] = todo[q] /\ doAnon'[q] = doAnon[q]
              \/ todo[q] # <<>> /\ todo'[q] = Tail(todo[q]) /\ doAnon'[q] = doAnon[q]
              \/ todo'[q] = <<>>
    PROVE  Lists'
<1> DEFINE Shift(q, d) ==
        \A i \in 1..Len(todo'[q]) :
            i + d \in 1..Len(todo[q]) /\ todo'[q][i] = todo[q][i + d] /\ doAnon'[q] = doAnon[q]
<1>1. ASSUME NEW q \in Scripts PROVE \E d \in {0, 1} : Shift(q, d)
  <2>1. CASE todo'[q] = todo[q] /\ doAnon'[q] = doAnon[q]
    <3>1. Len(todo[q]) \in Nat
      BY LenProperties DEF TypeOK
    <3>2. Shift(q, 0)
      BY <2>1, <3>1
    <3> QED
      BY <3>2
  <2>2. CASE todo[q] # <<>> /\ todo'[q] = Tail(todo[q]) /\ doAnon'[q] = doAnon[q]
    <3>1. /\ Len(todo[q]) \in Nat /\ Len(Tail(todo[q])) = Len(todo[q]) - 1
          /\ \A i \in 1..(Len(todo[q]) - 1) : Tail(todo[q])[i] = todo[q][i + 1]
      BY <2>2, AtHand
    <3>2. Shift(q, 1)
      BY <2>2, <3>1
    <3> QED
      BY <3>2
  <2>3. CASE todo'[q] = <<>>
    <3>1. Shift(q, 0)
      BY <2>3, EmptySeq
    <3> QED
      BY <3>1
  <2> QED
    BY <2>1, <2>2, <2>3
<1>2. ASSUME NEW q \in Scripts PROVE Ordered(q)'
  <2>1. PICK d \in {0, 1} : Shift(q, d)
    BY <1>1
  <2>2. Ordered(q)
    BY DEF Lists
  <2>3. ASSUME NEW i \in 1..Len(todo'[q]), NEW j \in 1..Len(todo'[q])
        PROVE  /\ todo'[q][i] = todo'[q][j] => i = j
               /\ i < j /\ todo'[q][i][1] = "gz" => todo'[q][j][1] = "gz"
               /\ todo'[q][i][1] = "gz" => doAnon'[q]
    <3>1. /\ i + d \in 1..Len(todo[q]) /\ todo'[q][i] = todo[q][i + d]
          /\ j + d \in 1..Len(todo[q]) /\ todo'[q][j] = todo[q][j + d]
          /\ doAnon'[q] = doAnon[q]
      BY <2>1
    <3>2. (i + d = j + d => i = j) /\ (i < j => i + d < j + d)
      OBVIOUS
    <3> HIDE DEF Shift
    <3>3. /\ todo[q][i + d] = todo[q][j + d] => i + d = j + d
          /\ i + d < j + d /\ todo[q][i + d][1] = "gz" => todo[q][j + d][1] = "gz"
          /\ todo[q][i + d][1] = "gz" => doAnon[q]
      BY <2>2, <3>1 DEF Ordered
    <3> QED
      BY <3>1, <3>2, <3>3
  <2> QED
    BY <2>3 DEF Ordered
<1>3. ASSUME NEW q \in Scripts, NEW r \in Scripts, q # r PROVE Apart(q, r)'
  <2>1. PICK d \in {0, 1} : Shift(q, d)
    BY <1>1
  <2>2. PICK e \in {0, 1} : Shift(r, e)
    BY <1>1
  <2>3. Apart(q, r)
    BY <1>3 DEF Lists
  <2>4. ASSUME NEW i \in 1..Len(todo'[q]), NEW j \in 1..Len(todo'[r]), todo'[q][i][2] = todo'[r][j][2]
        PROVE  todo'[q][i][2] \in disturbed'
    <3>1. /\ i + d \in 1..Len(todo[q]) /\ todo'[q][i] = todo[q][i + d]
          /\ j + e \in 1..Len(todo[r]) /\ todo'[r][j] = todo[r][j + e]
      BY <2>1, <2>2
    <3> HIDE DEF Shift
    <3>2. todo[q][i + d][2] \in disturbed
      BY <2>3, <2>4, <3>1 DEF Apart
    <3> QED
      BY <3>1, <3>2
  <2> QED
    BY <2>4 DEF Apart
<1> QED
  BY <1>2, <1>3 DEF Lists

\* A step leaves the files of a log alone.
Untouched(l) ==
    /\ l \in txt' <=> l \in txt
    /\ l \in DOMAIN gz' <=> l \in DOMAIN gz
    /\ l \in DOMAIN gz => gz'[l] = gz[l]
    /\ l \in DOMAIN anon' <=> l \in DOMAIN anon
    /\ l \in DOMAIN anon => anon'[l] = anon[l]

LEMMA KeptSame ==
    ASSUME NEW l, Kept(l), Untouched(l),
           \A q \in Scripts : made[q] /\ Log(q) = l => made'[q] /\ todo'[q] = todo[q],
           \A q \in Scripts : \A k : OnList(q, k, l)' => OnList(q, k, l),
           \A q \in Scripts : OnList(q, "gz", l)' /\ OnList(q, "txt", l) => OnList(q, "txt", l)'
    PROVE  Kept(l)'
<1>1. Full(l)' <=> Full(l)
  BY DEF Untouched, Full
<1>2. \A q \in Scripts : made[q] /\ Log(q) = l => (made[q] /\ Log(q) = l)'
  BY DEF Log, File
<1>3. (\/ l \in txt
       \/ l \in DOMAIN gz /\ gz[l] = "whole"
       \/ Full(l))'
  BY <1>1 DEF Kept, Untouched
<1>4. (l \in DOMAIN anon => Full(l) \/ \E q \in Scripts : made[q] /\ Log(q) = l)'
  BY <1>1, <1>2 DEF Kept, Untouched
<1>5. (l \in DOMAIN gz => gz[l] = "whole" \/ l \in txt \/ Full(l))'
  BY <1>1 DEF Kept, Untouched
<1>6. \A q \in Scripts :
          /\ OnList(q, "txt", l)' => l \in txt'
          /\ OnList(q, "gz", l)' => /\ l \in DOMAIN gz'
                                    /\ gz'[l] = "whole" \/ Full(l)' \/ OnList(q, "txt", l)'
  BY <1>1 DEF Kept, Untouched
<1> QED
  BY <1>3, <1>4, <1>5, <1>6 DEF Kept

LEMMA HandledSame ==
    ASSUME TypeOK, Control, NEW q \in Scripts, Handled(q), todo[q] # <<>>, Untouched(Log(q)),
           todo'[q] = todo[q], pc'[q] = pc[q], made'[q] = made[q], src'[q] = src[q]
    PROVE  Handled(q)'
<1>1. Log(q)' = Log(q) /\ File(q)' = File(q)
  BY DEF Log, File
<1>2. made[q] => Log(q) \in DOMAIN anon
  BY DEF Control, ControlOf
<1>3. Written(q)' = Written(q)
  BY <1>1, <1>2 DEF Written, Untouched
<1>4. Full(Log(q))' <=> Full(Log(q))
  BY <1>1 DEF Full, Untouched
<1> QED
  BY <1>1, <1>3, <1>4 DEF Handled, Untouched

\* A step of nobody, or of a script with an empty list.
LEMMA KeepingIdle ==
    ASSUME TypeOK, Control, Keeping, UNCHANGED <<txt, gz, anon, published, disturbed, todo, made, src>>,
           \A q \in Scripts : todo[q] = <<>> \/ (pc'[q] = pc[q] /\ doAnon'[q] = doAnon[q])
    PROVE  Keeping'
<1>1. Lists'
  <2>1. \A q \in Scripts : (todo'[q] = todo[q] /\ doAnon'[q] = doAnon[q]) \/ todo'[q] = <<>>
    OBVIOUS
  <2> QED
    BY <2>1, ListsSame DEF Keeping
<1>2. \A l : Untouched(l)
  BY DEF Untouched
<1>3. \A l \in Clean' : Kept(l)'
  BY <1>2, KeptSame DEF Keeping, Clean, OnList
<1>4. ASSUME NEW q \in Scripts, todo'[q] # <<>>, Log(q)' \in Clean' PROVE Handled(q)'
  <2>1. todo[q] # <<>> /\ Log(q) \in Clean
    BY <1>4 DEF Log, File, Clean
  <2> QED
    BY <1>2, <2>1, HandledSame DEF Keeping
<1> QED
  BY <1>1, <1>3, <1>4 DEF Keeping

\* A step of a script with the log at hand.
LEMMA KeepingAtWork ==
    ASSUME TypeOK, Control, Keeping, NEW p \in Scripts, todo[p] # <<>>, NEW log, log = Log(p),
           published' = published, disturbed \subseteq disturbed',
           todo'[p] \in {todo[p], Tail(todo[p]), <<>>}, doAnon'[p] = doAnon[p] \/ todo'[p] = <<>>,
           \A q \in Scripts \ {p} :
              /\ todo'[q] = todo[q] /\ pc'[q] = pc[q] /\ doAnon'[q] = doAnon[q]
              /\ made'[q] = made[q] /\ src'[q] = src[q],
           \A l : l # log => Untouched(l),
           log \in Clean' => Kept(log)',
           todo'[p] # <<>> /\ Log(p)' \in Clean' => Handled(p)'
    PROVE  Keeping'
<1>1. Clean' \subseteq Clean
  BY DEF Clean
<1>2. Lists
  BY DEF Keeping
<1>3. Lists'
  BY <1>2, ListsSame
<1>4. ASSUME NEW l \in Clean', l # log PROVE Kept(l)'
  <2>1. /\ \A k : OnList(p, k, l)' => OnList(p, k, l)
        /\ OnList(p, "gz", l)' /\ OnList(p, "txt", l) => OnList(p, "txt", l)'
    <3>1. CASE todo'[p] = todo[p]
      BY <3>1 DEF OnList
    <3>2. CASE todo'[p] = Tail(todo[p])
      <4> DEFINE kind == File(p)[1]
      <4>1. kind \in {"txt", "gz"}
        BY OnItsList
      <4>2. PICK f : f = kind
        OBVIOUS
      <4>3. /\ \A k : OnList(p, k, l)' => OnList(p, k, l)
            /\ \A k : OnList(p, k, l) /\ <<k, l>> # <<f, log>> => OnList(p, k, l)'
        BY <1>2, <3>2, <4>2, Dropped
      <4> QED
        BY <1>4, <4>3
    <3>3. CASE todo'[p] = <<>>
      BY <3>3, EmptySeq DEF OnList
    <3> QED
      BY <3>1, <3>2, <3>3
  <2>2. \A q \in Scripts \ {p} : \A k : OnList(q, k, l)' <=> OnList(q, k, l)
    BY DEF OnList
  <2>3. \A q \in Scripts : made[q] /\ Log(q) = l => made'[q] /\ todo'[q] = todo[q]
    BY <1>4
  <2>4. Kept(l) /\ Untouched(l)
    BY <1>1, <1>4 DEF Keeping
  <2>5. /\ \A q \in Scripts : \A k : OnList(q, k, l)' => OnList(q, k, l)
        /\ \A q \in Scripts : OnList(q, "gz", l)' /\ OnList(q, "txt", l) => OnList(q, "txt", l)'
    BY <2>1, <2>2
  <2> QED
    BY <2>3, <2>4, <2>5, KeptSame
<1>5. ASSUME NEW q \in Scripts, q # p, todo'[q] # <<>>, Log(q)' \in Clean' PROVE Handled(q)'
  <2>1. todo[q] # <<>> /\ Log(q)' = Log(q)
    BY <1>5 DEF Log, File
  <2>2. Log(q) \in Clean
    BY <1>1, <1>5, <2>1
  <2>3. Log(q) # log
    BY <1>2, <1>5, <2>1, <2>2, SoleLog
  <2>4. Untouched(Log(q)) /\ Handled(q)
    BY <2>1, <2>2, <2>3 DEF Keeping
  <2> QED
    BY <1>5, <2>1, <2>4, HandledSame
<1> QED
  BY <1>3, <1>4, <1>5 DEF Keeping

\* A clean log that has a whole copy needs no other file.
LEMMA KeptFull ==
    ASSUME NEW l, Full(l)', \A q \in Scripts : ~ OnList(q, "txt", l)',
           \A q \in Scripts : OnList(q, "gz", l)' => l \in DOMAIN gz'
    PROVE  Kept(l)'
  BY DEF Kept

LEMMA StepKeeping == TypeOK /\ Control /\ Keeping /\ [Next]_vars => Keeping'
<1> SUFFICES ASSUME TypeOK, Control, Keeping, [Next]_vars PROVE Keeping'
  OBVIOUS
<1> USE ScriptsAssumption
<1>0. Lists
  BY DEF Keeping
<1>1. ASSUME NEW l \in Logs, Publish(l) PROVE Keeping'
  <2>1. /\ l \notin published /\ published' = published \cup {l} /\ txt' = txt \cup {l}
        /\ UNCHANGED <<gz, anon, pc, doAnon, todo, made, src, disturbed>>
    BY <1>1 DEF Publish
  <2>2. Lists'
    BY <1>0, <2>1, ListsSame
  <2>3. ASSUME NEW x \in Clean' PROVE Kept(x)'
    <3>1. CASE x = l
      <4>1. ~ (l \in DOMAIN gz) /\ ~ (l \in DOMAIN anon)
        BY <2>1 DEF TypeOK, Partial
      <4>2. \A q \in Scripts : \A k : ~ OnList(q, k, l)
        BY <2>1 DEF OnList, Control, ControlOf
      <4>3. \A q \in Scripts : \A k : ~ OnList(q, k, l)'
        BY <2>1, <4>2 DEF OnList
      <4> QED
        BY <2>1, <3>1, <4>1, <4>3 DEF Kept
    <3>2. CASE x # l
      <4>1. x \in Clean /\ Untouched(x)
        BY <2>1, <2>3, <3>2 DEF Clean, Untouched
      <4> QED
        BY <2>1, <4>1, KeptSame DEF Keeping, OnList
    <3> QED
      BY <3>1, <3>2
  <2>4. ASSUME NEW q \in Scripts, todo'[q] # <<>>, Log(q)' \in Clean' PROVE Handled(q)'
    <3>1. todo[q] # <<>> /\ Log(q)' = Log(q)
      BY <2>1, <2>4 DEF Log, File
    <3>2. Log(q) \in published
      BY <3>1, AtHand
    <3>3. Log(q) \in Clean /\ Untouched(Log(q))
      BY <2>1, <2>4, <3>1, <3>2 DEF Clean, Untouched
    <3> QED
      BY <2>1, <3>1, <3>3, HandledSame DEF Keeping
  <2> QED
    BY <2>2, <2>3, <2>4 DEF Keeping
<1>2. ASSUME Edit PROVE Keeping'
  BY <1>2, KeepingIdle DEF Edit, dirVars, ghosts
<1>3. ASSUME NEW p \in Scripts, Start(p) PROVE Keeping'
  <2>1. PICK files \in Listed(p) : todo' = [todo EXCEPT ![p] = files]
    BY <1>3 DEF Start
  <2>2. /\ files \in Seq(Files) /\ Len(files) \in Nat
        /\ \A i \in 1..Len(files) :
              /\ files[i] \in Files /\ files[i][2] \in published
              /\ files[i][1] = "txt" => files[i][2] \in txt
              /\ files[i][1] = "gz" => files[i][2] \in DOMAIN gz /\ Program[p] = "nfs-anon"
        /\ \A i, j \in 1..Len(files) :
              /\ files[i] = files[j] => i = j
              /\ i < j /\ files[i][1] = "gz" => files[j][1] = "gz"
        /\ \A l \in txt : \E i \in 1..Len(files) : files[i] = <<"txt", l>>
    BY ListedFiles, ZenonT(60)
  <2>3. /\ todo'[p] = files /\ \A q \in Scripts \ {p} : todo'[q] = todo[q]
        /\ doAnon'[p] = DoAnonymization /\ \A q \in Scripts \ {p} : doAnon'[q] = doAnon[q]
        /\ pc'[p] = "next" /\ \A q \in Scripts \ {p} : pc'[q] = pc[q]
        /\ disturbed' = disturbed \cup
              (LogsOf(files) \cap UNION {LogsOf(todo[q]) : q \in Scripts \ {p}})
        /\ UNCHANGED <<txt, gz, anon, made, src, published>>
        /\ Program[p] = "nfs-anon" => DoAnonymization
        /\ pc[p] = "idle" /\ todo[p] = <<>> /\ ~ made[p]
    BY <1>3, <2>1 DEF Start, TypeOK, dirVars, Control, ControlOf
  <2>4. Clean' \subseteq Clean
    BY <2>3 DEF Clean
  <2>5. Ordered(p)'
    BY <2>2, <2>3 DEF Ordered
  <2>6. \A q \in Scripts \ {p} : Ordered(q)'
    BY <1>0, <2>3, SMTT(30) DEF Lists, Ordered
  <2>7. ASSUME NEW q \in Scripts \ {p} PROVE Apart(p, q)' /\ Apart(q, p)'
    <3> SUFFICES ASSUME NEW i \in 1..Len(files), NEW j \in 1..Len(todo[q]), files[i][2] = todo[q][j][2]
                 PROVE  files[i][2] \in disturbed'
      BY <2>3, <2>7 DEF Apart
    <3>1. files[i][2] \in LogsOf(files)
      BY <2>2, LenProperties DEF LogsOf
    <3>2. todo[q][j][2] \in LogsOf(todo[q])
      <4>1. j \in DOMAIN todo[q]
        BY LenProperties DEF TypeOK
      <4> QED
        BY <4>1 DEF LogsOf
    <3> QED
      BY <2>3, <3>1, <3>2
  <2>8. \A q, r \in Scripts \ {p} : q # r => Apart(q, r)'
    BY <1>0, <2>3, SMTT(30) DEF Lists, Apart
  <2>9. Lists'
    BY <2>5, <2>6, <2>7, <2>8 DEF Lists
  <2>10. ASSUME NEW l \in Clean' PROVE Kept(l)'
    <3>1. Kept(l)
      BY <2>4 DEF Keeping
    <3>2. Full(l)' <=> Full(l)
      BY <2>3 DEF Full
    <3>3. l \in DOMAIN anon => Full(l) \/ \E q \in Scripts : (made[q] /\ Log(q) = l)'
      BY <2>3, <3>1 DEF Kept, Log, File
    <3>4. /\ OnList(p, "txt", l)' => l \in txt
          /\ OnList(p, "gz", l)' => l \in DOMAIN gz
          /\ l \in txt => OnList(p, "txt", l)'
      <4>1. \A k : OnList(p, k, l)' <=> \E i \in 1..Len(files) : files[i] = <<k, l>>
        BY <2>3 DEF OnList
      <4>2. \A i \in 1..Len(files) : files[i] = <<"txt", l>> => l \in txt
        BY <2>2
      <4>3. \A i \in 1..Len(files) : files[i] = <<"gz", l>> => l \in DOMAIN gz
        BY <2>2
      <4>4. l \in txt => \E i \in 1..Len(files) : files[i] = <<"txt", l>>
        BY <2>2
      <4> QED
        BY <4>1, <4>2, <4>3, <4>4
    <3>5. \A q \in Scripts \ {p} : \A k : OnList(q, k, l)' <=> OnList(q, k, l)
      BY <2>3 DEF OnList
    <3> QED
      BY <2>3, <3>1, <3>2, <3>3, <3>4, <3>5 DEF Kept
  <2>11. ASSUME NEW q \in Scripts, todo'[q] # <<>>, Log(q)' \in Clean' PROVE Handled(q)'
    <3>1. CASE q = p
      BY <2>3, <3>1 DEF Handled
    <3>2. CASE q # p
      <4>1. todo[q] # <<>> /\ Log(q) \in Clean
        BY <2>3, <2>4, <2>11, <3>2 DEF Log, File
      <4>2. Untouched(Log(q))
        BY <2>3 DEF Untouched
      <4> QED
        BY <2>3, <3>2, <4>1, <4>2, HandledSame DEF Keeping
    <3> QED
      BY <3>1, <3>2
  <2> QED
    BY <2>9, <2>10, <2>11 DEF Keeping
<1>4. ASSUME NEW p \in Scripts, CheckOut(p) PROVE Keeping'
  <2>1. PICK log : log = Log(p)
    OBVIOUS
  <2>2. /\ pc[p] = "next" /\ todo[p] # <<>> /\ ~ made[p] /\ src[p] = NoFile
        /\ pc' = [pc EXCEPT ![p] = IF log \in DOMAIN anon THEN "unlink" ELSE "maps"]
        /\ UNCHANGED <<txt, gz, anon, doAnon, todo, made, src, published, disturbed>>
    BY <1>4, <2>1 DEF CheckOut, dirVars, ghosts, Control, ControlOf
  <2>3. Log(p)' = log /\ File(p)' = File(p) /\ Clean' = Clean
    BY <2>1, <2>2 DEF Log, File, Clean
  <2>4. \A l : Untouched(l)
    BY <2>2 DEF Untouched
  <2>5. log \in Clean' => Kept(log)'
    BY <2>2, <2>3, <2>4, KeptSame DEF Keeping, OnList
  <2>6. ASSUME log \in Clean PROVE Handled(p)'
    <3>1. Kept(log)
      BY <2>6 DEF Keeping
    <3>2. CASE log \in DOMAIN anon
      <4>1. Full(log)
        <5>1. ASSUME NEW q \in Scripts, made[q], Log(q) = log PROVE FALSE
          <6>1. todo[q] # <<>>
            BY <5>1 DEF Control, ControlOf
          <6>2. q = p
            BY <1>0, <2>1, <2>2, <2>6, <5>1, <6>1, SoleLog
          <6> QED
            BY <2>2, <5>1, <6>2
        <5> QED
          BY <3>1, <3>2, <5>1 DEF Kept
      <4>2. Full(Log(p))'
        BY <2>2, <2>3, <4>1 DEF Full
      <4> QED
        BY <2>2, <3>2, <4>2 DEF Handled, TypeOK
    <3>3. CASE ~ (log \in DOMAIN anon)
      <4>1. File(p)[1] = "gz" => log \in DOMAIN gz /\ gz[log] = "whole"
        <5> SUFFICES ASSUME File(p)[1] = "gz" PROVE log \in DOMAIN gz /\ gz[log] = "whole"
          OBVIOUS
        <5>1. OnList(p, "gz", log)
          BY <2>1, <2>2, OnItsList
        <5>2. ~ OnList(p, "txt", log)
          <6> SUFFICES ASSUME OnList(p, "txt", log) PROVE FALSE
            OBVIOUS
          <6>1. PICK i \in 1..Len(todo[p]) : todo[p][i] = <<"txt", log>>
            BY DEF OnList
          <6>2. Len(todo[p]) \in Nat /\ Len(todo[p]) >= 1 /\ todo[p][1][1] = "gz"
            BY <2>2, AtHand
          <6>3. i # 1
            BY <6>1, <6>2
          <6>4. 1 \in 1..Len(todo[p]) /\ 1 < i
            BY <6>1, <6>2, <6>3
          <6>5. todo[p][i][1] = "gz"
            BY <1>0, <6>1, <6>2, <6>4 DEF Lists, Ordered
          <6> QED
            BY <6>1, <6>5
        <5> QED
          BY <3>1, <3>3, <5>1, <5>2 DEF Kept, Full
      <4> QED
        BY <2>2, <2>3, <3>3, <4>1 DEF Handled, Written, TypeOK
    <3> QED
      BY <3>2, <3>3
  <2>7. \A q \in Scripts \ {p} : pc'[q] = pc[q]
    BY <2>2 DEF TypeOK
  <2> QED
    BY <2>1, <2>2, <2>3, <2>4, <2>5, <2>6, <2>7, KeepingAtWork
<1>5. ASSUME NEW p \in Scripts, Unlink(p) PROVE Keeping'
  <2>1. PICK log, kind : log = Log(p) /\ kind = File(p)[1]
    OBVIOUS
  <2>2. /\ pc[p] = "unlink" /\ todo[p] # <<>> /\ ~ made[p] /\ src[p] = NoFile /\ pc'[p] = "next"
        /\ todo'[p] = Tail(todo[p])
        /\ \A q \in Scripts \ {p} : pc'[q] = pc[q] /\ todo'[q] = todo[q]
        /\ UNCHANGED <<anon, doAnon, made, src, published, disturbed>>
    BY <1>5 DEF Unlink, ghosts, Control, ControlOf, TypeOK
  <2>3. /\ File(p) = <<kind, log>> /\ kind \in {"txt", "gz"} /\ Clean' = Clean
        /\ txt' = IF kind = "txt" THEN txt \ {log} ELSE txt
        /\ gz' = IF kind = "gz" THEN [l \in DOMAIN gz \ {log} |-> gz[l]] ELSE gz
    <3>1. File(p) = <<kind, log>> /\ kind \in {"txt", "gz"}
      BY <2>1, <2>2, OnItsList
    <3>2. Unlinked(File(p)) /\ File(p)[1] = kind /\ File(p)[2] = log
      BY <1>5, <2>1 DEF Unlink, Log
    <3>3. /\ txt' = IF kind = "txt" THEN txt \ {log} ELSE txt
          /\ gz' = IF kind = "gz" THEN [l \in DOMAIN gz \ {log} |-> gz[l]] ELSE gz
      BY <3>2 DEF Unlinked
    <3> QED
      BY <2>2, <3>1, <3>3 DEF Clean
  <2>4. \A l : l # log => Untouched(l)
    BY <2>2, <2>3 DEF Untouched
  <2>5. /\ \A k, l : OnList(p, k, l)' => OnList(p, k, l)
        /\ \A k, l : OnList(p, k, l) /\ <<k, l>> # <<kind, log>> => OnList(p, k, l)'
        /\ ~ OnList(p, kind, log)' /\ ~ OnList(p, "txt", log)'
    BY <1>0, <2>1, <2>2, Dropped
  <2>6. ASSUME log \in Clean' PROVE Kept(log)'
    <3>1. Kept(log) /\ Handled(p) /\ OnList(p, kind, log)
      BY <2>1, <2>2, <2>3, <2>6, OnItsList DEF Keeping
    <3>2. Full(log)'
      BY <2>1, <2>2, <3>1 DEF Handled, Full
    <3>3. \A q \in Scripts \ {p} : \A k : ~ OnList(q, k, log)
      BY <1>0, <2>3, <2>6, <3>1, Sole
    <3>4. \A q \in Scripts \ {p} : \A k : ~ OnList(q, k, log)'
      BY <2>2, <3>3 DEF OnList
    <3>5. OnList(p, "gz", log)' => log \in DOMAIN gz'
      BY <2>3, <2>5, <3>1 DEF Kept
    <3> QED
      BY <2>5, <3>2, <3>4, <3>5, KeptFull
  <2>7. Handled(p)'
    BY <2>2 DEF Handled
  <2> QED
    BY <2>1, <2>2, <2>4, <2>6, <2>7, KeepingAtWork
<1>6. ASSUME NEW p \in Scripts, Exit(p) PROVE Keeping'
  <2>1. \A q \in Scripts : todo[q] = <<>> \/ (pc'[q] = pc[q] /\ doAnon'[q] = doAnon[q])
    BY <1>6 DEF Exit, TypeOK
  <2> QED
    BY <1>6, <2>1, KeepingIdle DEF Exit, dirVars, ghosts
<1>7. ASSUME NEW p \in Scripts, GzipStart(p) PROVE Keeping'
  <2>1. PICK log, kind : log = Log(p) /\ kind = File(p)[1]
    OBVIOUS
  <2>2. /\ pc[p] = "next" /\ todo[p] # <<>> /\ ~ made[p] /\ src[p] = NoFile /\ ~ doAnon[p]
        /\ \A q \in Scripts \ {p} : pc'[q] = pc[q] /\ todo'[q] = todo[q]
        /\ UNCHANGED <<txt, anon, doAnon, made, src, published, disturbed>>
    BY <1>7 DEF GzipStart, ghosts, Control, ControlOf, TypeOK
  <2>3. Clean' = Clean /\ OnList(p, kind, log)
    BY <2>1, <2>2, OnItsList DEF Clean
  <2>4. CASE log \in txt /\ ~ (log \in DOMAIN gz)
    <3>1. todo' = todo /\ gz' = Put(gz, log, "part") /\ pc'[p] = "gzip"
      BY <1>7, <2>1, <2>4 DEF GzipStart, TypeOK
    <3>2. /\ DOMAIN gz' = DOMAIN gz \cup {log} /\ \A l \in DOMAIN gz : gz'[l] = gz[l]
      BY <2>4, <3>1 DEF Put
    <3>3. \A l : l # log => Untouched(l)
      BY <2>2, <3>2 DEF Untouched
    <3>4. ASSUME log \in Clean' PROVE Kept(log)'
      <4>1. Kept(log)
        BY <2>3, <3>4 DEF Keeping
      <4>2. \A q \in Scripts : ~ OnList(q, "gz", log)'
        BY <2>4, <3>1, <4>1 DEF Kept, OnList
      <4>3. Full(log)' <=> Full(log)
        BY <2>2 DEF Full
      <4>4. \A q \in Scripts : (made[q] /\ Log(q) = log)' <=> made[q] /\ Log(q) = log
        BY <2>2, <3>1 DEF Log, File
      <4> QED
        BY <2>2, <2>4, <4>1, <4>2, <4>3, <4>4 DEF Kept
    <3>5. Handled(p)'
      BY <2>1, <3>1, <3>2 DEF Handled, Log, File
    <3> QED
      BY <2>1, <2>2, <3>1, <3>3, <3>4, <3>5, KeepingAtWork
  <2>5. CASE ~ (log \in txt /\ ~ (log \in DOMAIN gz))
    <3>1. todo'[p] = Tail(todo[p]) /\ UNCHANGED <<gz, pc>>
      BY <1>7, <2>1, <2>5 DEF GzipStart, TypeOK
    <3>2. \A l : Untouched(l)
      BY <2>2, <3>1 DEF Untouched
    <3>3. \A l : ~ OnList(p, "gz", l)
      BY <1>0, <2>2 DEF Lists, Ordered, OnList
    <3>4. /\ \A k, l : OnList(p, k, l)' => OnList(p, k, l)
      BY <1>0, <2>1, <2>2, <3>1, Dropped
    <3>5. \A q \in Scripts \ {p} : \A k, l : OnList(q, k, l)' <=> OnList(q, k, l)
      BY <2>2 DEF OnList
    <3>6. /\ \A q \in Scripts : \A k : OnList(q, k, log)' => OnList(q, k, log)
          /\ \A q \in Scripts : OnList(q, "gz", log)' /\ OnList(q, "txt", log) => OnList(q, "txt", log)'
      BY <3>3, <3>4, <3>5
    <3>7. \A q \in Scripts : made[q] /\ Log(q) = log => made'[q] /\ todo'[q] = todo[q]
      BY <2>2
    <3>8. log \in Clean' => Kept(log)'
      BY <2>3, <3>2, <3>6, <3>7, KeptSame DEF Keeping
    <3>9. Handled(p)'
      BY <2>2, <3>1 DEF Handled
    <3> QED
      BY <2>1, <2>2, <3>1, <3>2, <3>8, <3>9, KeepingAtWork
  <2> QED
    BY <2>4, <2>5
<1>8. ASSUME NEW p \in Scripts, GzipFinish(p) PROVE Keeping'
  <2>1. PICK log, kind : log = Log(p) /\ kind = File(p)[1]
    OBVIOUS
  <2>2. /\ pc[p] = "gzip" /\ todo[p] # <<>> /\ ~ made[p] /\ src[p] = NoFile /\ pc'[p] = "next" /\ ~ doAnon[p]
        /\ todo'[p] = Tail(todo[p])
        /\ \A q \in Scripts \ {p} : pc'[q] = pc[q] /\ todo'[q] = todo[q]
        /\ UNCHANGED <<anon, doAnon, made, src, published, disturbed>>
        /\ txt' = txt \ {log} /\ gz' = [l \in DOMAIN gz |-> IF l = log THEN "whole" ELSE gz[l]]
    BY <1>8, <2>1 DEF GzipFinish, ghosts, Control, ControlOf, TypeOK
  <2>3. Clean' = Clean /\ OnList(p, kind, log)
    BY <2>1, <2>2, OnItsList DEF Clean
  <2>4. \A l : l # log => Untouched(l)
    BY <2>2 DEF Untouched
  <2>5. /\ \A k, l : OnList(p, k, l)' => OnList(p, k, l)
        /\ ~ OnList(p, "txt", log)'
    BY <1>0, <2>1, <2>2, Dropped
  <2>6. \A l : ~ OnList(p, "gz", l)
    BY <1>0, <2>2 DEF Lists, Ordered, OnList
  <2>7. ASSUME log \in Clean' PROVE Kept(log)'
    <3>1. Kept(log) /\ Handled(p)
      BY <2>1, <2>2, <2>3, <2>7 DEF Keeping
    <3>2. log \in DOMAIN gz' /\ gz'[log] = "whole"
      BY <2>1, <2>2, <3>1 DEF Handled
    <3>3. \A q \in Scripts \ {p} : \A k : ~ OnList(q, k, log)
      BY <1>0, <2>3, <2>7, Sole
    <3>4. \A q \in Scripts : \A k \in {"txt", "gz"} : ~ OnList(q, k, log)'
      <4>1. ~ OnList(p, "txt", log)' /\ ~ OnList(p, "gz", log)'
        BY <2>5, <2>6
      <4>2. \A q \in Scripts \ {p} : \A k : ~ OnList(q, k, log)'
        BY <2>2, <3>3 DEF OnList
      <4> QED
        BY <4>1, <4>2
    <3>5. (log \in DOMAIN anon => Full(log) \/ \E q \in Scripts : made[q] /\ Log(q) = log)'
      <4>1. Full(log)' <=> Full(log)
        BY <2>2 DEF Full
      <4>2. \A q \in Scripts : made[q] /\ Log(q) = log => (made[q] /\ Log(q) = log)'
        BY <2>2 DEF Log, File
      <4> QED
        BY <2>2, <3>1, <4>1, <4>2 DEF Kept
    <3> QED
      BY <3>2, <3>4, <3>5 DEF Kept
  <2>8. Handled(p)'
    BY <2>2 DEF Handled
  <2> QED
    BY <2>1, <2>2, <2>4, <2>7, <2>8, KeepingAtWork
<1>9. ASSUME NEW p \in Scripts, OpenMaps(p) PROVE Keeping'
  <2>1. PICK log : log = Log(p)
    OBVIOUS
  <2>2. /\ todo[p] # <<>> /\ pc[p] = "maps" /\ pc'[p] = "open"
        /\ \A q \in Scripts \ {p} : pc'[q] = pc[q]
        /\ UNCHANGED <<txt, gz, anon, doAnon, todo, made, src, published, disturbed>>
    BY <1>9 DEF OpenMaps, dirVars, Control, ControlOf, TypeOK
  <2>3. Log(p)' = log /\ File(p)' = File(p) /\ Clean' = Clean
    BY <2>1, <2>2 DEF Log, File, Clean
  <2>4. \A l : Untouched(l)
    BY <2>2 DEF Untouched
  <2>5. log \in Clean' => Kept(log)'
    BY <2>2, <2>3, <2>4, KeptSame DEF Keeping, OnList
  <2>6. log \in Clean' => Handled(p)'
    BY <2>1, <2>2, <2>3 DEF Keeping, Handled, Written
  <2> QED
    BY <2>1, <2>2, <2>3, <2>4, <2>5, <2>6, KeepingAtWork
<1>10. ASSUME NEW p \in Scripts, OpenIn(p) PROVE Keeping'
  <2>1. PICK log, kind : log = Log(p) /\ kind = File(p)[1]
    OBVIOUS
  <2>2. PICK s \in Readable(File(p)) : src' = [src EXCEPT ![p] = s]
    BY <1>10 DEF OpenIn
  <2>3. /\ todo[p] # <<>> /\ pc[p] = "open" /\ pc'[p] \in {"open", "stream"} /\ src[p] = NoFile
        /\ src'[p] = s /\ \A q \in Scripts \ {p} : pc'[q] = pc[q] /\ src'[q] = src[q]
        /\ UNCHANGED <<txt, gz, anon, doAnon, todo, made, published, disturbed>>
    BY <1>10, <2>2 DEF OpenIn, dirVars, ghosts, Control, ControlOf, TypeOK
  <2>4. Log(p)' = log /\ File(p)' = File(p) /\ Clean' = Clean
    BY <2>1, <2>3 DEF Log, File, Clean
  <2>5. \A l : Untouched(l)
    BY <2>3 DEF Untouched
  <2>6. log \in Clean' => Kept(log)'
    BY <2>3, <2>4, <2>5, KeptSame DEF Keeping, OnList
  <2>7. ASSUME log \in Clean' PROVE Handled(p)'
    <3>1. Kept(log) /\ Handled(p) /\ OnList(p, kind, log) /\ kind \in {"txt", "gz"}
      BY <2>1, <2>3, <2>4, <2>7, OnItsList DEF Keeping
    <3>2. /\ s \in Seq(Ids) /\ Len(s) \in Nat
          /\ File(p)[1] = "txt" /\ File(p)[2] \in txt => s = Content[File(p)[2]]
          /\ File(p)[1] = "gz" /\ File(p)[2] \in DOMAIN gz /\ gz[File(p)[2]] = "whole" => s = Content[File(p)[2]]
      <4>1. File(p) \in Files
        BY <2>3, AtHand
      <4> QED
        BY <4>1, Readables
    <3>3. File(p)[2] = log
      BY <2>1 DEF Log
    <3>4. kind = "txt" => log \in txt
      BY <3>1 DEF Kept
    <3>5. kind = "gz" => log \in DOMAIN gz /\ gz[log] = "whole"
      BY <2>1, <2>3, <3>1 DEF Handled
    <3>6. s = Content[log]
      BY <2>1, <3>1, <3>2, <3>3, <3>4, <3>5
    <3>7. Written(p)' = 0 /\ src'[p] # NoFile
      <4>1. Written(p) = 0
        BY <2>3, <3>1 DEF Handled
      <4>2. Written(p)' = Written(p)
        BY <2>1, <2>3, <2>4 DEF Written
      <4> QED
        BY <2>3, <3>2, <4>1, <4>2
    <3>8. Written(p)' + Len(src'[p]) = Len(Content[log])
      BY <2>3, <3>2, <3>6, <3>7
    <3> QED
      BY <2>1, <2>3, <2>4, <3>1, <3>7, <3>8 DEF Handled
  <2> QED
    BY <2>1, <2>3, <2>4, <2>5, <2>6, <2>7, KeepingAtWork
<1>11. ASSUME NEW p \in Scripts, OpenOut(p) PROVE Keeping'
  <2>1. PICK log : log = Log(p)
    OBVIOUS
  <2>2. /\ todo[p] # <<>> /\ pc[p] = "open" /\ pc'[p] \in {"open", "stream"} /\ ~ made[p]
        /\ made'[p] /\ \A q \in Scripts \ {p} : pc'[q] = pc[q] /\ made'[q] = made[q]
        /\ UNCHANGED <<txt, gz, doAnon, todo, src, published, disturbed>>
        /\ anon' = Put(anon, log, <<>>)
    BY <1>11, <2>1 DEF OpenOut, ghosts, Control, ControlOf, TypeOK
  <2>3. /\ DOMAIN anon' = DOMAIN anon \cup {log} /\ anon'[log] = <<>>
        /\ \A l \in DOMAIN anon : l # log => anon'[l] = anon[l]
    BY <2>2 DEF Put
  <2>4. Log(p)' = log /\ File(p)' = File(p) /\ Clean' = Clean
    BY <2>1, <2>2 DEF Log, File, Clean
  <2>5. \A l : l # log => Untouched(l)
    BY <2>2, <2>3 DEF Untouched
  <2>6. ASSUME log \in Clean' PROVE Kept(log)' /\ Handled(p)'
    <3>1. Kept(log) /\ Handled(p)
      BY <2>1, <2>2, <2>4, <2>6 DEF Keeping
    <3>2. ~ (log \in DOMAIN anon)
      BY <2>1, <2>2, <3>1 DEF Handled
    <3>3. Kept(log)'
      <4>1. \A q \in Scripts : \A k : OnList(q, k, log)' <=> OnList(q, k, log)
        BY <2>2 DEF OnList
      <4>2. \E q \in Scripts : (made[q] /\ Log(q) = log)'
        BY <2>2, <2>4
      <4> QED
        BY <2>2, <3>1, <3>2, <4>1, <4>2 DEF Kept, Full
    <3>4. Written(p)' = 0 /\ Written(p) = 0
      BY <2>2, <2>3, <2>4, EmptySeq DEF Written
    <3>5. IF src'[p] = NoFile THEN Written(p)' = 0
          ELSE Written(p)' + Len(src'[p]) = Len(Content[log])
      BY <2>1, <2>2, <3>1, <3>4 DEF Handled
    <3>6. Handled(p)'
      BY <2>1, <2>2, <2>4, <3>1, <3>5 DEF Handled
    <3> QED
      BY <3>3, <3>6
  <2> QED
    BY <2>1, <2>2, <2>4, <2>5, <2>6, KeepingAtWork
<1>12. ASSUME NEW p \in Scripts, Anonymize(p) PROVE Keeping'
  <2>1. PICK log : log = Log(p)
    OBVIOUS
  <2>2. /\ todo[p] # <<>> /\ pc[p] = "stream" /\ pc' = pc /\ made[p] /\ src[p] # <<>> /\ src[p] # NoFile
        /\ src'[p] = Tail(src[p]) /\ \A q \in Scripts \ {p} : src'[q] = src[q]
        /\ UNCHANGED <<txt, gz, doAnon, todo, made, published, disturbed>>
        /\ log \in DOMAIN anon /\ src[p] \in Seq(Ids)
        /\ map[p] # NoMap /\ map[p].max # NoMax
        /\ anon' = [anon EXCEPT ![log] = Append(@, CodeOf(p, Head(src[p])))]
    BY <1>12, <2>1 DEF Anonymize, ghosts, Control, ControlOf, TypeOK, Tied
  <2>3. /\ Tail(src[p]) \in Seq(Ids) /\ Len(src[p]) \in Nat /\ Len(src[p]) >= 1
        /\ Len(Tail(src[p])) = Len(src[p]) - 1
    BY <2>2, ListRest
  <2>4. /\ DOMAIN anon' = DOMAIN anon /\ \A l \in DOMAIN anon : l # log => anon'[l] = anon[l]
        /\ Len(anon[log]) \in Nat /\ Len(anon'[log]) = Len(anon[log]) + 1
    <3> DEFINE code == CodeOf(p, Head(src[p]))
    <3>1. code \in Nat
      BY <2>2, CodeNatural
    <3>2. anon[log] \in Seq(Nat)
      BY <2>2 DEF TypeOK, Partial
    <3>3. anon' = [anon EXCEPT ![log] = Append(@, code)]
      BY <2>2
    <3> HIDE DEF code
    <3>4. Len(Append(anon[log], code)) = Len(anon[log]) + 1 /\ Len(anon[log]) \in Nat
      BY <3>1, <3>2, AppendProperties, LenProperties
    <3> QED
      BY <2>2, <3>3, <3>4
  <2>5. Log(p)' = log /\ File(p)' = File(p) /\ Clean' = Clean
    BY <2>1, <2>2 DEF Log, File, Clean
  <2>6. \A l : l # log => Untouched(l)
    BY <2>2, <2>4 DEF Untouched
  <2>7. ASSUME log \in Clean' PROVE Kept(log)' /\ Handled(p)'
    <3>1. Kept(log) /\ Handled(p)
      BY <2>1, <2>2, <2>5, <2>7 DEF Keeping
    <3>2. Written(p) = Len(anon[log]) /\ Written(p)' = Len(anon[log]) + 1
      BY <2>1, <2>2, <2>4, <2>5 DEF Written
    <3>3. Len(anon[log]) + Len(src[p]) = Len(Content[log])
      BY <2>1, <2>2, <3>1, <3>2 DEF Handled
    <3>4. ~ Full(log)
      <4>1. \A x, y \in Nat : y >= 1 => x + y # x
        OBVIOUS
      <4> QED
        BY <2>3, <2>4, <3>3, <4>1 DEF Full
    <3>5. Kept(log)'
      <4>1. \A q \in Scripts : \A k : OnList(q, k, log)' <=> OnList(q, k, log)
        BY <2>2 DEF OnList
      <4>2. \E q \in Scripts : (made[q] /\ Log(q) = log)'
        BY <2>2, <2>5
      <4> QED
        BY <2>2, <3>1, <3>4, <4>1, <4>2 DEF Kept
    <3>6. Written(p)' + Len(src'[p]) = Len(Content[log]) /\ src'[p] # NoFile
      <4>1. Len(src'[p]) = Len(src[p]) - 1 /\ src'[p] # NoFile
        BY <2>2, <2>3
      <4>2. \A x, y \in Nat : (x + 1) + (y - 1) = x + y
        OBVIOUS
      <4>3. Written(p)' + Len(src'[p]) = Len(anon[log]) + Len(src[p])
        BY <2>3, <2>4, <3>2, <4>1, <4>2, ZenonT(60)
      <4> QED
        BY <3>3, <4>1, <4>3
    <3>7. Handled(p)'
      BY <2>1, <2>2, <2>5, <3>1, <3>6 DEF Handled
    <3> QED
      BY <3>5, <3>7
  <2> QED
    BY <2>1, <2>2, <2>5, <2>6, <2>7, KeepingAtWork
<1>13. ASSUME NEW p \in Scripts, CloseStreams(p) PROVE Keeping'
  <2>1. PICK log : log = Log(p)
    OBVIOUS
  <2>2. /\ todo[p] # <<>> /\ pc[p] = "stream" /\ pc'[p] = "flush" /\ made[p] /\ src[p] = <<>>
        /\ src[p] # NoFile /\ log \in DOMAIN anon
        /\ \A q \in Scripts \ {p} : pc'[q] = pc[q] /\ src'[q] = src[q] /\ made'[q] = made[q]
        /\ UNCHANGED <<txt, gz, anon, doAnon, todo, published, disturbed>>
    BY <1>13, <2>1 DEF CloseStreams, dirVars, ghosts, Control, ControlOf, TypeOK
  <2>3. Log(p)' = log /\ File(p)' = File(p) /\ Clean' = Clean
    BY <2>1, <2>2 DEF Log, File, Clean
  <2>4. \A l : Untouched(l)
    BY <2>2 DEF Untouched
  <2>5. ASSUME log \in Clean' PROVE Kept(log)' /\ Handled(p)'
    <3>1. Kept(log) /\ Handled(p)
      BY <2>1, <2>2, <2>3, <2>5 DEF Keeping
    <3>2. Full(log)
      <4>1. Len(anon[log]) + Len(src[p]) = Len(Content[log])
        BY <2>1, <2>2, <3>1 DEF Handled, Written
      <4>2. Len(src[p]) = 0
        BY <2>2, EmptySeq
      <4>3. Len(anon[log]) \in Nat
        BY <2>2, LenProperties DEF TypeOK, Partial
      <4> QED
        BY <2>2, <4>1, <4>2, <4>3 DEF Full
    <3>3. Full(log)'
      BY <2>2, <3>2 DEF Full
    <3>4. \A q \in Scripts : \A k : OnList(q, k, log)' <=> OnList(q, k, log)
      BY <2>2 DEF OnList
    <3>5. Kept(log)'
      BY <2>2, <3>1, <3>3, <3>4 DEF Kept
    <3>6. Handled(p)'
      BY <2>2, <2>3, <3>3 DEF Handled
    <3> QED
      BY <3>5, <3>6
  <2> QED
    BY <2>1, <2>2, <2>3, <2>4, <2>5, KeepingAtWork
<1>14. ASSUME NEW p \in Scripts, CloseMaps(p) PROVE Keeping'
  <2>1. PICK log : log = Log(p)
    OBVIOUS
  <2>2. /\ todo[p] # <<>> /\ pc[p] = "flush" /\ pc'[p] = "unlink"
        /\ \A q \in Scripts \ {p} : pc'[q] = pc[q]
        /\ UNCHANGED <<txt, gz, anon, doAnon, todo, made, src, published, disturbed>>
    BY <1>14 DEF CloseMaps, dirVars, ghosts, Control, ControlOf, TypeOK
  <2>3. Log(p)' = log /\ File(p)' = File(p) /\ Clean' = Clean
    BY <2>1, <2>2 DEF Log, File, Clean
  <2>4. \A l : Untouched(l)
    BY <2>2 DEF Untouched
  <2>5. log \in Clean' => Kept(log)'
    BY <2>2, <2>3, <2>4, KeptSame DEF Keeping, OnList
  <2>6. log \in Clean' => Handled(p)'
    <3>1. Full(log)' <=> Full(log)
      BY <2>2 DEF Full
    <3> QED
      BY <2>1, <2>2, <2>3, <3>1 DEF Keeping, Handled
  <2> QED
    BY <2>1, <2>2, <2>3, <2>4, <2>5, <2>6, KeepingAtWork
<1>15. ASSUME NEW p \in Scripts, DiskFull(p) PROVE Keeping'
  <2>1. PICK log : log = Log(p)
    OBVIOUS
  <2>2. PICK n : anon' = [anon EXCEPT ![log] = SubSeq(@, 1, n)]
    BY <1>15, <2>1 DEF DiskFull
  <2>3. /\ todo[p] # <<>> /\ log \in DOMAIN anon /\ disturbed' = disturbed \cup {log}
        /\ \A q \in Scripts \ {p} : pc'[q] = pc[q] /\ src'[q] = src[q] /\ made'[q] = made[q]
        /\ UNCHANGED <<txt, gz, doAnon, todo, published>>
    BY <1>15, <2>1 DEF DiskFull, Control, ControlOf, TypeOK
  <2>4. \A l : l # log => Untouched(l)
    BY <2>2, <2>3 DEF Untouched
  <2>5. ~ (log \in Clean') /\ Log(p)' = log
    BY <2>1, <2>3 DEF Clean, Log, File
  <2> QED
    BY <2>1, <2>3, <2>4, <2>5, KeepingAtWork
<1>16. ASSUME NEW p \in Scripts, Kill(p) PROVE Keeping'
  <2>1. PICK log : log = Log(p)
    OBVIOUS
  <2>2. /\ todo'[p] = <<>> /\ UNCHANGED <<txt, gz, published>>
        /\ \A q \in Scripts \ {p} : /\ pc'[q] = pc[q] /\ src'[q] = src[q] /\ made'[q] = made[q]
                                   /\ todo'[q] = todo[q] /\ doAnon'[q] = doAnon[q]
    BY <1>16 DEF Kill, TypeOK
  <2>3. CASE todo[p] = <<>>
    <3>1. ~ made[p] /\ src[p] = NoFile
      BY <2>3 DEF Control, ControlOf
    <3>2. UNCHANGED <<anon, disturbed, todo, made, src>>
      BY <1>16, <2>3, <3>1 DEF Kill, TypeOK
    <3>3. \A q \in Scripts : todo[q] = <<>> \/ (pc'[q] = pc[q] /\ doAnon'[q] = doAnon[q])
      BY <2>2, <2>3
    <3> QED
      BY <2>2, <3>2, <3>3, KeepingIdle
  <2>4. CASE todo[p] # <<>> /\ ~ made[p]
    <3>1. UNCHANGED <<anon, disturbed>>
      BY <1>16, <2>4 DEF Kill
    <3>2. \A l : Untouched(l)
      BY <2>2, <3>1 DEF Untouched
    <3>3. ASSUME log \in Clean' PROVE Kept(log)'
      <4>1. Kept(log)
        BY <2>2, <3>1, <3>3 DEF Keeping, Clean
      <4>2. \A k : ~ OnList(p, k, log)'
        BY <2>2, EmptySeq DEF OnList
      <4>3. \A q \in Scripts \ {p} : \A k : OnList(q, k, log)' <=> OnList(q, k, log)
        BY <2>2 DEF OnList
      <4>4. /\ \A q \in Scripts : \A k : OnList(q, k, log)' => OnList(q, k, log)
            /\ \A q \in Scripts : OnList(q, "gz", log)' /\ OnList(q, "txt", log) => OnList(q, "txt", log)'
        BY <4>2, <4>3
      <4>5. \A q \in Scripts : made[q] /\ Log(q) = log => made'[q] /\ todo'[q] = todo[q]
        BY <2>2, <2>4
      <4> QED
        BY <3>2, <4>1, <4>4, <4>5, KeptSame
    <3> QED
      BY <2>1, <2>2, <2>4, <3>1, <3>2, <3>3, KeepingAtWork
  <2>5. CASE todo[p] # <<>> /\ made[p]
    <3>1. PICK n : anon' = [anon EXCEPT ![log] = SubSeq(@, 1, n)]
      BY <1>16, <2>1, <2>5 DEF Kill
    <3>2. disturbed' = disturbed \cup {log}
      BY <1>16, <2>1, <2>5 DEF Kill
    <3>3. \A l : l # log => Untouched(l)
      BY <2>2, <3>1 DEF Untouched
    <3>4. ~ (log \in Clean')
      BY <3>2 DEF Clean
    <3> QED
      BY <2>1, <2>2, <2>5, <3>2, <3>3, <3>4, KeepingAtWork
  <2> QED
    BY <2>3, <2>4, <2>5
<1>17. CASE UNCHANGED vars
  BY <1>17, KeepingIdle DEF vars, dirVars, ghosts
<1> QED
  BY <1>1, <1>2, <1>3, <1>4, <1>5, <1>6, <1>7, <1>8, <1>9, <1>10, <1>11, <1>12, <1>13,
     <1>14, <1>15, <1>16, <1>17 DEF Next, Step

LEMMA InitKeeping == Init => Keeping
<1> SUFFICES ASSUME Init PROVE Keeping
  OBVIOUS
<1>1. Len(<<>>) = 0
  BY EmptySeq
<1>2. \A p \in Scripts : todo[p] = <<>>
  BY DEF Init
<1>3. Lists
  BY <1>1, <1>2 DEF Lists, Ordered, Apart
<1>4. Clean = {}
  BY DEF Init, Clean
<1> QED
  BY <1>2, <1>3, <1>4 DEF Keeping
-----------------------------------------------------------------------------
\* The theorems.

\* Every reachable state has the types of the model, and each script has the
\* files and the map that its place in the program says.
THEOREM ScriptsControl == Spec => [](TypeOK /\ Control)
<1>1. Init => TypeOK /\ Control
  BY InitTyped
<1>2. TypeOK /\ Control /\ [Next]_vars => (TypeOK /\ Control)'
  BY StepTyped
<1> QED
  BY <1>1, <1>2, PTL DEF Spec

\* OneCode for any number of scripts, logs, values, kills and full disks: two
\* values have the same code in all anonymized logs exactly if they are the same.
THEOREM CodesAgree == Spec => []OneCode
<1>1. Init => (~ split => Coding)
  BY InitCoding
<1>2. TypeOK /\ Control /\ (~ split => Coding) /\ [Next]_vars => (~ split => Coding)'
  BY StepCoding
<1>3. TypeOK /\ (~ split => Coding) => OneCode
  BY CodingOne DEF OneCode
<1> QED
  BY <1>1, <1>2, <1>3, ScriptsControl, PTL DEF Spec

\* LogsKept for any number of them: a log that was never disturbed is in the
\* directory as it was, compressed as a whole, or anonymized as a whole.
THEOREM NoLogLost == Spec => []LogsKept
<1>1. Init => Keeping
  BY InitKeeping
<1>2. TypeOK /\ Control /\ Keeping /\ [Next]_vars => Keeping'
  BY StepKeeping
<1>3. Keeping => LogsKept
  BY DEF Keeping, Kept, Clean, Full, LogsKept
<1> QED
  BY <1>1, <1>2, <1>3, ScriptsControl, PTL DEF Spec
=============================================================================
