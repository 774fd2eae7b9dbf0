--------------------------- MODULE DecodersProofs ---------------------------
(***************************************************************************)
(* Proofs about the decoders: for handles, names, directories and counts   *)
(* of any size, any choice of the optional parts, any values of the words  *)
(* and any place where a message is cut.                                   *)
(*                                                                         *)
(* A message is a concatenation of parts.  At(k, part, b) says that a part *)
(* stands at word k of it, and Walked(w, k, c, b) that a walk has come     *)
(* past the words before k: there is one lemma for each kind of part, that *)
(* its function takes a walk from one end of the part to the other, and    *)
(* one for each of the ways in which parts follow each other.  From these, *)
(* Shown says of the walk of each procedure what the properties say of its *)
(* line, and Messages that the message at hand is one of the layouts.      *)
(*                                                                         *)
(* A call of WRITE is not a walk of this kind, since it goes on after a    *)
(* failure; Stepped and Bounded say how far it has come.                   *)
(*                                                                         *)
(* The counters: Only says that one word of a message has the name of a    *)
(* count, Prints that a walk printed it and no other, so that what is      *)
(* added is what the message said; BytesInv is the rest of the invariant.  *)
(***************************************************************************)
EXTENDS Decoders, SequenceTheorems, TLAPS

\* A sequence of words.
IsPart(s) ==
    /\ Len(s) \in Nat /\ s = [i \in 1..Len(s) |-> s[i]]
    /\ \A i \in 1..Len(s) : s[i] = [name |-> s[i].name, value |-> s[i].value]
                            /\ s[i].value \in Int

Context == IsPart(message) /\ actual \in Nat /\ junk \in Int

\* A part stands at word k of the message, under its own names if b.
At(k, part, b) ==
    /\ IsPart(part) /\ k + Len(part) <= Len(message) + 1
    /\ \A i \in 1..Len(part) : /\ message[k + i - 1].value = part[i].value
                               /\ b => message[k + i - 1].name = part[i].name

\* The m words from k on have no names.
Nameless(k, m) == \A i \in k..(k + m - 1) : message[i].name = ""

\* A walk came to word k, is lost with it behind what was captured, or failed; it did
\* neither if the words up to c were captured.
Came(w, k, c) ==
    /\ w = [p |-> w.p, printed |-> w.printed, crashed |-> w.crashed]
    /\ w.p \in Nat /\ w.p <= actual + 3
    /\ w.p = NULL \/ w.p > actual + 1 \/ w.p = k
    /\ w.p > actual + 1 => k > actual + 1
    /\ c <= actual => w.p = k /\ w.crashed = FALSE

\* What it printed stands before word k under the names it was printed under, and one
\* word at most was not captured.
SaidRight(w, k) ==
    \A x \in w.printed : /\ x[2] \in 1..(k - 1) /\ x[2] <= actual + 1
                         /\ message[x[2]].name = x[1]

\* It is all that was captured and has a name, unless the walk failed.
SaidAll(w, k) ==
    w.p # NULL => \A i \in 1..(k - 1) : i <= actual + 1 /\ message[i].name # ""
                                        => <<message[i].name, i>> \in w.printed

Said(w, k) == SaidRight(w, k) /\ SaidAll(w, k)

Walked(w, k, c, b) == Came(w, k, c) /\ (b => Said(w, k))
-----------------------------------------------------------------------------
\* The parts of messages.

\* A function over the first positions is a sequence.
LEMMA ASeq ==
    ASSUME NEW S, NEW m \in Nat, NEW f \in [1..m -> S]
    PROVE  f \in Seq(S) /\ Len(f) = m
  OBVIOUS

LEMMA AWord ==
    ASSUME NEW x, NEW name, NEW value, x = [name |-> name, value |-> value]
    PROVE  x.name = name /\ x.value = value /\ x = [name |-> x.name, value |-> x.value]
  OBVIOUS

LEMMA WordParts ==
    ASSUME NEW name, NEW value \in Int
    PROVE  /\ IsPart(W(name, value)) /\ Len(W(name, value)) = 1
           /\ W(name, value)[1] = [name |-> name, value |-> value]
<1> DEFINE x == [name |-> name, value |-> value]
<1>1. x = [name |-> x.name, value |-> x.value] /\ x.value \in Int
  OBVIOUS
<1>2. W(name, value) = <<x>>
  BY DEF W
<1> HIDE DEF x
<1>3. <<x>> \in [1..1 -> {x}] /\ Len(<<x>>) = 1 /\ <<x>>[1] = x
  OBVIOUS
<1>4. <<x>> = [i \in 1..1 |-> <<x>>[i]]
  BY <1>3
<1> QED
  BY <1>1, <1>2, <1>3, <1>4 DEF IsPart, x

\* Words that all have the value 0.
LEMMA NamedParts ==
    ASSUME NEW m \in Nat, NEW names, NEW f,
           f = [i \in 1..m |-> [name |-> names[i], value |-> 0]]
    PROVE  /\ IsPart(f) /\ Len(f) = m
           /\ \A i \in 1..m : f[i] = [name |-> names[i], value |-> 0]
<1>1. f \in [1..m -> {f[i] : i \in 1..m}]
  OBVIOUS
<1>2. Len(f) = m
  BY <1>1, ASeq
<1> QED
  BY <1>2 DEF IsPart

LEMMA RepeatParts ==
    ASSUME NEW name, NEW m \in Nat
    PROVE  /\ IsPart(Repeat(name, m)) /\ Len(Repeat(name, m)) = m
           /\ \A i \in 1..m : Repeat(name, m)[i] = [name |-> name, value |-> 0]
<1> DEFINE names == [i \in 1..m |-> name]
<1>1. Repeat(name, m) = [i \in 1..m |-> [name |-> names[i], value |-> 0]]
  BY DEF Repeat
<1>2. \A i \in 1..m : names[i] = name
  OBVIOUS
<1> HIDE DEF names
<1> QED
  BY <1>1, <1>2, NamedParts

LEMMA HiddenParts ==
    ASSUME NEW part, IsPart(part)
    PROVE  /\ IsPart(Hidden(part)) /\ Len(Hidden(part)) = Len(part)
           /\ \A i \in 1..Len(part) : /\ Hidden(part)[i].name = ""
                                      /\ Hidden(part)[i].value = part[i].value
<1>1. DOMAIN part = 1..Len(part) /\ Len(part) \in Nat
  BY DEF IsPart
<1>2. Hidden(part) = [i \in 1..Len(part) |-> [name |-> "", value |-> part[i].value]]
  BY <1>1 DEF Hidden
<1>3. \A i \in 1..Len(part) : part[i].value \in Int
  BY DEF IsPart
<1>4. \A i \in 1..Len(part) : /\ Hidden(part)[i] = [name |-> "", value |-> part[i].value]
                              /\ part[i].value \in Int
  BY <1>2, <1>3
<1>5. Hidden(part) \in [1..Len(part) -> {Hidden(part)[i] : i \in 1..Len(part)}]
  BY <1>2
<1>6. Len(Hidden(part)) = Len(part)
  BY <1>1, <1>5, ASeq
<1>7. Hidden(part) = [i \in 1..Len(part) |-> Hidden(part)[i]]
  BY <1>2
<1>8. ASSUME NEW i \in 1..Len(part)
      PROVE  /\ Hidden(part)[i].name = "" /\ Hidden(part)[i].value = part[i].value
             /\ Hidden(part)[i] = [name |-> Hidden(part)[i].name, value |-> Hidden(part)[i].value]
  <2> DEFINE x == Hidden(part)[i]
  <2>1. x = [name |-> "", value |-> part[i].value]
    BY <1>4
  <2> HIDE DEF x
  <2>2. x.name = "" /\ x.value = part[i].value /\ x = [name |-> x.name, value |-> x.value]
    BY <2>1, AWord
  <2> QED
    BY <2>2 DEF x
<1>9. IsPart(Hidden(part))
  <2> DEFINE h == Hidden(part)
  <2>1. Len(h) \in Nat /\ h = [i \in 1..Len(h) |-> h[i]]
    BY <1>1, <1>6, <1>7
  <2>2. \A i \in 1..Len(h) : h[i] = [name |-> h[i].name, value |-> h[i].value]
                             /\ h[i].value \in Int
    BY <1>3, <1>6, <1>8
  <2> HIDE DEF h
  <2>3. IsPart(h)
    BY <2>1, <2>2 DEF IsPart
  <2> QED
    BY <2>3 DEF h
<1> QED
  BY <1>6, <1>8, <1>9

\* A part behind another.
LEMMA JoinParts ==
    ASSUME NEW a, NEW z, IsPart(a), IsPart(z)
    PROVE  /\ IsPart(a \o z) /\ Len(a \o z) = Len(a) + Len(z)
           /\ \A i \in 1..(Len(a) + Len(z)) :
                 (a \o z)[i] = IF i <= Len(a) THEN a[i] ELSE z[i - Len(a)]
<1> DEFINE S == {a[i] : i \in 1..Len(a)} \cup {z[i] : i \in 1..Len(z)}
<1>1. Len(a) \in Nat /\ Len(z) \in Nat
  BY DEF IsPart
<1>2. a \in [1..Len(a) -> S] /\ z \in [1..Len(z) -> S]
  BY DEF IsPart
<1>3. \A x \in S : x = [name |-> x.name, value |-> x.value] /\ x.value \in Int
  BY DEF IsPart
<1> HIDE DEF S
<1>4. a \in Seq(S) /\ z \in Seq(S)
  BY <1>1, <1>2, ASeq
<1>5. /\ a \o z \in Seq(S) /\ Len(a \o z) = Len(a) + Len(z)
      /\ \A i \in 1..(Len(a) + Len(z)) :
            (a \o z)[i] = IF i <= Len(a) THEN a[i] ELSE z[i - Len(a)]
  BY <1>4, ConcatProperties
<1>6. /\ a \o z = [i \in 1..Len(a \o z) |-> (a \o z)[i]] /\ Len(a \o z) \in Nat
      /\ \A i \in 1..Len(a \o z) : (a \o z)[i] \in S
  BY <1>5, LenProperties, ElementOfSeq
<1> QED
  BY <1>3, <1>5, <1>6 DEF IsPart

LEMMA PaddedNat == \A m \in Nat : Padded(m) \in Nat
  BY DEF Padded

LEMMA CountedParts ==
    ASSUME NEW name, NEW size \in Nat
    PROVE  /\ IsPart(Counted(name, size)) /\ Len(Counted(name, size)) = 1 + Padded(size)
           /\ Padded(size) \in Nat
           /\ Counted(name, size)[1] = [name |-> "", value |-> size]
           /\ \A i \in 2..(1 + Padded(size)) :
                 Counted(name, size)[i] = [name |-> name, value |-> 0]
<1> DEFINE r == Repeat(name, Padded(size))
           a == W("", size)
<1>1. IsPart(a) /\ Len(a) = 1 /\ a[1] = [name |-> "", value |-> size]
  <2>1. size \in Int
    OBVIOUS
  <2> QED
    BY <2>1, WordParts
<1>2. /\ IsPart(r) /\ Len(r) = Padded(size) /\ Padded(size) \in Nat
      /\ \A i \in 1..Padded(size) : r[i] = [name |-> name, value |-> 0]
  BY RepeatParts, PaddedNat
<1>3. Counted(name, size) = a \o r
  BY DEF Counted
<1> HIDE DEF a, r
<1>4. /\ IsPart(a \o r) /\ Len(a \o r) = 1 + Padded(size)
      /\ \A i \in 1..(1 + Padded(size)) : (a \o r)[i] = IF i <= 1 THEN a[i] ELSE r[i - 1]
  <2>1. /\ IsPart(a \o r) /\ Len(a \o r) = Len(a) + Len(r)
        /\ \A i \in 1..(Len(a) + Len(r)) :
              (a \o r)[i] = IF i <= Len(a) THEN a[i] ELSE r[i - Len(a)]
    BY <1>1, <1>2, JoinParts
  <2> QED
    BY <1>1, <1>2, <2>1
<1>5. ASSUME NEW i \in 2..(1 + Padded(size)) PROVE (a \o r)[i] = [name |-> name, value |-> 0]
  <2>1. i - 1 \in 1..Padded(size) /\ ~ (i <= 1) /\ i \in 1..(1 + Padded(size))
    BY <1>2
  <2> QED
    BY <1>2, <1>4, <2>1
<1>6. (a \o r)[1] = a[1]
  BY <1>2, <1>4
<1> QED
  BY <1>1, <1>2, <1>3, <1>4, <1>5, <1>6

\* Of two parts one stands behind the other.
LEMMA AtJoin ==
    ASSUME NEW k \in Nat \ {0}, NEW a, NEW z, IsPart(a), IsPart(z), NEW b \in BOOLEAN,
           Context, At(k, a \o z, b)
    PROVE  At(k, a, b) /\ At(k + Len(a), z, b)
<1>1. /\ Len(a) \in Nat /\ Len(z) \in Nat /\ Len(message) \in Nat
      /\ Len(a \o z) = Len(a) + Len(z)
      /\ \A i \in 1..(Len(a) + Len(z)) : (a \o z)[i] = IF i <= Len(a) THEN a[i] ELSE z[i - Len(a)]
  BY JoinParts DEF Context, IsPart
<1>2. \A i \in 1..(Len(a) + Len(z)) :
         /\ message[k + i - 1].value = (a \o z)[i].value
         /\ b => message[k + i - 1].name = (a \o z)[i].name
  BY <1>1 DEF At
<1>3. k + (Len(a) + Len(z)) <= Len(message) + 1
  BY <1>1 DEF At
<1>4. ASSUME NEW i \in 1..Len(a)
      PROVE  message[k + i - 1].value = a[i].value /\ (b => message[k + i - 1].name = a[i].name)
  <2>1. i \in 1..(Len(a) + Len(z)) /\ i <= Len(a)
    BY <1>1
  <2> QED
    BY <1>1, <1>2, <2>1
<1>5. ASSUME NEW i \in 1..Len(z)
      PROVE  /\ message[(k + Len(a)) + i - 1].value = z[i].value
             /\ b => message[(k + Len(a)) + i - 1].name = z[i].name
  <2> DEFINE j == Len(a) + i
  <2>1. j \in 1..(Len(a) + Len(z)) /\ ~ (j <= Len(a)) /\ j - Len(a) = i
        /\ k + j - 1 = (k + Len(a)) + i - 1
    BY <1>1
  <2> HIDE DEF j
  <2> QED
    BY <1>1, <1>2, <2>1
<1> QED
  BY <1>1, <1>3, <1>4, <1>5 DEF At

\* A part that is hidden stands there without its names.
LEMMA AtHidden ==
    ASSUME NEW k \in Nat \ {0}, NEW part, IsPart(part), Context, At(k, Hidden(part), TRUE)
    PROVE  /\ At(k, part, FALSE)
           /\ \A i \in k..(k + Len(part) - 1) : message[i].name = ""
<1>1. Len(part) \in Nat
  BY DEF IsPart
<1>2. /\ Len(Hidden(part)) = Len(part)
      /\ \A i \in 1..Len(part) : Hidden(part)[i].name = "" /\ Hidden(part)[i].value = part[i].value
  BY HiddenParts
<1>3. At(k, part, FALSE)
  BY <1>2 DEF At
<1>4. ASSUME NEW i \in k..(k + Len(part) - 1) PROVE message[i].name = ""
  <2>1. (i - k) + 1 \in 1..Len(part) /\ k + ((i - k) + 1) - 1 = i
    BY <1>1
  <2> QED
    BY <1>2, <2>1 DEF At
<1> QED
  BY <1>3, <1>4
-----------------------------------------------------------------------------
\* The functions of which all others are made.

LEMMA AWalk ==
    ASSUME NEW w, NEW p, NEW set, NEW crashed,
           w = [p |-> p, printed |-> set, crashed |-> crashed]
    PROVE  /\ w.p = p /\ w.printed = set /\ w.crashed = crashed
           /\ w = [p |-> w.p, printed |-> w.printed, crashed |-> w.crashed]
  OBVIOUS

LEMMA FailFields ==
    ASSUME NEW w, w = [p |-> w.p, printed |-> w.printed, crashed |-> w.crashed]
    PROVE  Fail(w) = [p |-> NULL, printed |-> w.printed, crashed |-> w.crashed]
<1>1. DOMAIN w = {"p", "printed", "crashed"}
  OBVIOUS
<1> QED
  BY <1>1 DEF Fail

LEMMA MoveFields ==
    ASSUME NEW w, w = [p |-> w.p, printed |-> w.printed, crashed |-> w.crashed], NEW m
    PROVE  Move(w, m) = [p |-> w.p + m, printed |-> w.printed, crashed |-> w.crashed]
<1>1. DOMAIN w = {"p", "printed", "crashed"}
  OBVIOUS
<1> QED
  BY <1>1 DEF Move

LEMMA PutFields ==
    ASSUME NEW w, w = [p |-> w.p, printed |-> w.printed, crashed |-> w.crashed], NEW label, NEW m
    PROVE  Put(w, label, m) =
               [p |-> w.p + m, printed |-> w.printed \cup {<<label, i>> : i \in w.p..(w.p + m - 1)},
                crashed |-> w.crashed]
<1> DEFINE more == {<<label, i>> : i \in w.p..(w.p + m - 1)}
<1>1. DOMAIN w = {"p", "printed", "crashed"}
  OBVIOUS
<1>2. Put(w, label, m) = [w EXCEPT !.printed = @ \cup more, !.p = @ + m]
  BY DEF Put
<1> HIDE DEF more
<1>3. Put(w, label, m) = [p |-> w.p + m, printed |-> w.printed \cup more, crashed |-> w.crashed]
  BY <1>1, <1>2
<1> QED
  BY <1>3 DEF more

LEMMA Ranges ==
    \A k \in Nat \ {0}, m \in Nat :
        \A i : i \in 1..((k + m) - 1) <=> (i \in 1..(k - 1) \/ i \in k..(k + m - 1))
  OBVIOUS

\* What m words are that have a name and were captured.
Owed(set, k, m) == \A i \in k..(k + m - 1) : i <= actual + 1 /\ message[i].name # ""
                                             => <<message[i].name, i>> \in set

\* Printed under no name that is wrong and in no place that is, and not the less.
LEMMA MoreSaid ==
    ASSUME NEW w, NEW x, NEW k \in Nat \ {0}, NEW m \in Nat, Context, Said(w, k),
           \A y \in x.printed :
               \/ y \in w.printed
               \/ /\ y[2] \in k..(k + m - 1) /\ y[2] <= actual + 1 /\ message[y[2]].name = y[1],
           x.p # NULL => w.p # NULL /\ w.printed \subseteq x.printed /\ Owed(x.printed, k, m)
    PROVE  Said(x, k + m)
<1>1. ASSUME NEW y \in x.printed
      PROVE  y[2] \in 1..((k + m) - 1) /\ y[2] <= actual + 1 /\ message[y[2]].name = y[1]
  <2>1. CASE y \in w.printed
    BY <2>1, Ranges DEF Said, SaidRight
  <2>2. CASE ~ (y \in w.printed)
    BY <2>2, Ranges
  <2> QED
    BY <2>1, <2>2
<1>2. ASSUME x.p # NULL, NEW i \in 1..((k + m) - 1), i <= actual + 1, message[i].name # ""
      PROVE  <<message[i].name, i>> \in x.printed
  <2>1. CASE i \in 1..(k - 1)
    BY <1>2, <2>1 DEF Said, SaidAll
  <2>2. CASE ~ (i \in 1..(k - 1))
    <3>1. i \in k..(k + m - 1)
      BY <2>2, Ranges
    <3> QED
      BY <1>2, <3>1 DEF Owed
  <2> QED
    BY <2>1, <2>2
<1> QED
  BY <1>1, <1>2 DEF Said, SaidRight, SaidAll

\* A walk that fails, where words are missing.
LEMMA FailWalked ==
    ASSUME NEW w, NEW k \in Nat \ {0}, NEW m \in Nat, NEW c \in Nat, NEW b \in BOOLEAN,
           Context, Walked(w, k, c, b), ~ (c <= actual)
    PROVE  Walked(Fail(w), k + m, c, b)
<1> DEFINE x == Fail(w)
<1>1. w = [p |-> w.p, printed |-> w.printed, crashed |-> w.crashed] /\ actual \in Nat
  BY DEF Walked, Came, Context
<1>2. x = [p |-> NULL, printed |-> w.printed, crashed |-> w.crashed]
  BY <1>1, FailFields
<1> HIDE DEF x
<1>3. x = [p |-> x.p, printed |-> x.printed, crashed |-> x.crashed]
      /\ x.p = NULL /\ x.printed = w.printed
  BY <1>2, AWalk
<1>4. Came(x, k + m, c)
  BY <1>1, <1>3 DEF Came, NULL
<1>5. ASSUME b PROVE Said(x, k + m)
  <2>1. \A y \in x.printed : y \in w.printed
    BY <1>3
  <2>2. Said(w, k)
    BY <1>5 DEF Walked
  <2>3. ~ (x.p # NULL)
    BY <1>3
  <2> QED
    BY <2>1, <2>2, <2>3, MoreSaid
<1> QED
  BY <1>4, <1>5 DEF Walked, x

\* Words that are walked over, which have no names.
LEMMA MoveWalked ==
    ASSUME NEW w, NEW k \in Nat \ {0}, NEW m \in Nat, NEW c \in Nat, NEW b \in BOOLEAN,
           Context, Walked(w, k, c, b), w.p = k, k + m <= actual + 3,
           b => Nameless(k, m)
    PROVE  Walked(Move(w, m), k + m, c, b)
<1> DEFINE x == Move(w, m)
<1>1. /\ w = [p |-> w.p, printed |-> w.printed, crashed |-> w.crashed] /\ actual \in Nat
      /\ c <= actual => w.crashed = FALSE
  BY DEF Walked, Came, Context
<1>2. x = [p |-> k + m, printed |-> w.printed, crashed |-> w.crashed]
  BY <1>1, MoveFields
<1> HIDE DEF x
<1>3. x = [p |-> x.p, printed |-> x.printed, crashed |-> x.crashed]
      /\ x.p = k + m /\ x.printed = w.printed /\ x.crashed = w.crashed
  BY <1>2, AWalk
<1>4. Came(x, k + m, c)
  BY <1>1, <1>3 DEF Came
<1>5. ASSUME b PROVE Said(x, k + m)
  <2>1. \A y \in x.printed : y \in w.printed
    BY <1>3
  <2>2. w.p # NULL /\ w.printed \subseteq x.printed
    BY <1>3 DEF NULL
  <2>3. Owed(x.printed, k, m)
    BY <1>5 DEF Nameless, Owed
  <2>4. Said(w, k)
    BY <1>5 DEF Walked
  <2> QED
    BY <2>1, <2>2, <2>3, <2>4, MoreSaid
<1> QED
  BY <1>4, <1>5 DEF Walked, x

\* Some words under one label.
LEMMA GetWalked ==
    ASSUME NEW w, NEW label, NEW m \in Nat, NEW needed \in Nat, needed <= m, m <= needed + 1,
           NEW k \in Nat \ {0}, NEW c \in Nat, NEW b \in BOOLEAN,
           Context, Walked(w, k, c, b), k + m <= c + 1,
           b => \A i \in k..(k + m - 1) : message[i].name = label
    PROVE  Walked(Get(w, label, m, needed), k + m, c, b)
<1> DEFINE x == Get(w, label, m, needed)
<1>1. /\ w = [p |-> w.p, printed |-> w.printed, crashed |-> w.crashed]
      /\ w.p \in Nat /\ actual \in Nat /\ w.p <= actual + 3
      /\ w.p = NULL \/ w.p > actual + 1 \/ w.p = k
      /\ c <= actual => w.p = k /\ w.crashed = FALSE
  BY DEF Walked, Came, Context
<1>2. CASE Short(w, needed)
  <2>1. ~ (c <= actual)
    BY <1>1, <1>2 DEF Short, NULL, e
  <2>2. Walked(Fail(w), k + m, c, b)
    BY <2>1, FailWalked
  <2> QED
    BY <1>2, <2>2 DEF Get
<1>3. CASE ~ Short(w, needed)
  <2>1. w.p = k /\ k + needed <= actual + 1
    BY <1>1, <1>3 DEF Short, NULL, e
  <2>2. x = [p |-> k + m, printed |-> w.printed \cup {<<label, i>> : i \in k..(k + m - 1)},
             crashed |-> w.crashed]
    BY <1>1, <1>3, <2>1, PutFields DEF Get
  <2> HIDE DEF x
  <2>3. x = [p |-> x.p, printed |-> x.printed, crashed |-> x.crashed]
        /\ x.p = k + m /\ x.printed = w.printed \cup {<<label, i>> : i \in k..(k + m - 1)}
        /\ x.crashed = w.crashed
    BY <2>2, AWalk
  <2>4. Came(x, k + m, c)
    BY <1>1, <2>1, <2>3 DEF Came
  <2>5. ASSUME b PROVE Said(x, k + m)
    <3>1. \A y \in x.printed :
             \/ y \in w.printed
             \/ /\ y[2] \in k..(k + m - 1) /\ y[2] <= actual + 1 /\ message[y[2]].name = y[1]
      <4> SUFFICES ASSUME NEW i \in k..(k + m - 1)
                   PROVE  i <= actual + 1 /\ message[i].name = label
        BY <2>3
      <4> QED
        BY <1>1, <2>1, <2>5
    <3>2. Owed(x.printed, k, m)
      <4>1. \A i \in k..(k + m - 1) : <<message[i].name, i>> \in x.printed
        BY <2>3, <2>5
      <4> QED
        BY <4>1 DEF Owed
    <3>3. w.p # NULL /\ w.printed \subseteq x.printed
      BY <2>1, <2>3 DEF NULL
    <3>4. Said(w, k)
      BY <2>5 DEF Walked
    <3> QED
      BY <3>1, <3>2, <3>3, <3>4, MoreSaid
  <2> QED
    BY <2>4, <2>5 DEF Walked, x
<1> QED
  BY <1>2, <1>3

LEMMA PrintWalked ==
    ASSUME NEW w, NEW label, NEW k \in Nat \ {0}, NEW c \in Nat, NEW b \in BOOLEAN,
           Context, Walked(w, k, c, b)
    PROVE  /\ /\ k + 1 <= c + 1
              /\ b => message[k].name = label
              => /\ Walked(print_uint32(w, label), k + 1, c, b)
                 /\ Walked(print_stable3(w, label), k + 1, c, b)
           /\ /\ k + 2 <= c + 1
              /\ b => message[k].name = label /\ message[k + 1].name = label
              => /\ Walked(print_uint64(w, label), k + 2, c, b)
                 /\ Walked(print_nfstime3(w, label), k + 2, c, b)
<1>1. ASSUME k + 1 <= c + 1, b => message[k].name = label
      PROVE  /\ Walked(print_uint32(w, label), k + 1, c, b)
             /\ Walked(print_stable3(w, label), k + 1, c, b)
  <2>1. \A i \in k..(k + 1 - 1) : i = k
    OBVIOUS
  <2>2. b => \A i \in k..(k + 1 - 1) : message[i].name = label
    BY <1>1, <2>1
  <2>3. Walked(Get(w, label, 1, 0), k + 1, c, b)
    BY <1>1, <2>2, GetWalked
  <2>4. Walked(Get(w, label, 1, 1), k + 1, c, b)
    BY <1>1, <2>2, GetWalked
  <2> QED
    BY <2>3, <2>4 DEF print_uint32, print_stable3
<1>2. ASSUME k + 2 <= c + 1, b => message[k].name = label /\ message[k + 1].name = label
      PROVE  /\ Walked(print_uint64(w, label), k + 2, c, b)
             /\ Walked(print_nfstime3(w, label), k + 2, c, b)
  <2>1. \A i \in k..(k + 2 - 1) : i = k \/ i = k + 1
    OBVIOUS
  <2>2. b => \A i \in k..(k + 2 - 1) : message[i].name = label
    BY <1>2, <2>1
  <2>3. 2 \in Nat /\ 1 \in Nat /\ 1 <= 2 /\ 2 <= 1 + 1 /\ 2 <= 2 /\ 2 <= 2 + 1
    OBVIOUS
  <2>4. Walked(Get(w, label, 2, 1), k + 2, c, b)
    BY <1>2, <2>2, <2>3, GetWalked
  <2>5. Walked(Get(w, label, 2, 2), k + 2, c, b)
    BY <1>2, <2>2, <2>3, GetWalked
  <2> QED
    BY <2>4, <2>5 DEF print_uint64, print_nfstime3
<1> QED
  BY <1>1, <1>2

\* Handles and names: a length, then as many words as it says.
LEMMA AtCounted ==
    ASSUME NEW k \in Nat \ {0}, NEW label, NEW size \in Nat, NEW b \in BOOLEAN, Context,
           At(k, Counted(label, size), b)
    PROVE  /\ Padded(size) \in Nat /\ Len(Counted(label, size)) = 1 + Padded(size)
           /\ k + 1 + Padded(size) <= Len(message) + 1
           /\ message[k].value = size
           /\ b => Nameless(k, 1)
           /\ b => \A i \in (k + 1)..((k + 1) + Padded(size) - 1) : message[i].name = label
<1> DEFINE part == Counted(label, size)
<1>1. Len(part) = 1 + Padded(size) /\ Padded(size) \in Nat
  BY CountedParts
<1>2. /\ k + Len(part) <= Len(message) + 1
      /\ \A i \in 1..Len(part) : /\ message[k + i - 1].value = part[i].value
                                 /\ b => message[k + i - 1].name = part[i].name
  BY DEF At
<1>3. part[1].name = "" /\ part[1].value = size
  <2>1. part[1] = [name |-> "", value |-> size]
    BY CountedParts
  <2> HIDE DEF part
  <2> QED
    BY <2>1, AWord, ZenonT(40)
<1>4. \A i \in 2..(1 + Padded(size)) : part[i].name = label
  <2>1. \A i \in 2..(1 + Padded(size)) : part[i] = [name |-> label, value |-> 0]
    BY CountedParts
  <2> HIDE DEF part
  <2> QED
    BY <2>1, AWord
<1> HIDE DEF part
<1>5. 1 \in 1..Len(part) /\ k + 1 - 1 = k
  BY <1>1
<1>6. message[k].value = size /\ (b => message[k].name = "")
  <2>1. message[k + 1 - 1].value = part[1].value
        /\ (b => message[k + 1 - 1].name = part[1].name)
    BY <1>2, <1>5
  <2> QED
    BY <1>3, <1>5, <2>1
<1>7. ASSUME b PROVE Nameless(k, 1)
  <2>1. \A i \in k..(k + 1 - 1) : i = k
    OBVIOUS
  <2> QED
    BY <1>6, <1>7, <2>1 DEF Nameless
<1>8. ASSUME b, NEW i \in (k + 1)..((k + 1) + Padded(size) - 1)
      PROVE  message[i].name = label
  <2> DEFINE j == (i - k) + 1
  <2>1. j \in 2..(1 + Padded(size)) /\ j \in 1..Len(part) /\ k + j - 1 = i
    BY <1>1
  <2> HIDE DEF j
  <2>2. message[i].name = part[j].name
    BY <1>2, <1>8, <2>1
  <2>3. part[j].name = label
    BY <1>4, <2>1
  <2> QED
    BY <2>2, <2>3
<1>9. k + 1 + Padded(size) <= Len(message) + 1
  <2>1. Len(message) \in Nat
    BY DEF Context, IsPart
  <2> QED
    BY <1>1, <1>2, <2>1
<1> QED
  BY <1>1, <1>6, <1>7, <1>8, <1>9 DEF part

LEMMA CountedWalked ==
    ASSUME NEW w, NEW k \in Nat \ {0}, NEW c \in Nat, NEW b \in BOOLEAN, NEW label,
           NEW size \in Nat, Context, Walked(w, k, c, b), At(k, Counted(label, size), b),
           (k + 1) + Padded(size) <= c + 1
    PROVE  /\ Walked(print_fn3(w, label), (k + 1) + Padded(size), c, b)
           /\ k + 1 <= c => Walked(print_fh3(w, label), (k + 1) + Padded(size), c, b)
<1> DEFINE m == Padded(size)
<1>1. /\ w.p \in Nat /\ actual \in Nat
      /\ w.p = NULL \/ w.p > actual + 1 \/ w.p = k
      /\ c <= actual => w.p = k
  BY DEF Walked, Came, Context
<1>2. /\ m \in Nat /\ k + 1 + m <= Len(message) + 1 /\ message[k].value = size
      /\ b => Nameless(k, 1)
      /\ b => \A i \in (k + 1)..((k + 1) + m - 1) : message[i].name = label
  BY AtCounted
<1> HIDE DEF m
<1>3. Len(message) \in Nat
  BY DEF Context, IsPart
<1>4. ASSUME w.p = k, k <= actual
      PROVE  Walked(print_opaque(Move(w, 1), label, Padded(Value(w.p))), (k + 1) + m, c, b)
  <2>1. Value(w.p) = size
    BY <1>1, <1>2, <1>3, <1>4 DEF Value
  <2>2. Walked(Move(w, 1), k + 1, c, b)
    <3>1. k + 1 <= actual + 3 /\ 1 \in Nat
      BY <1>1, <1>4
    <3> QED
      BY <1>2, <1>4, <3>1, MoveWalked
  <2>3. Walked(Get(Move(w, 1), label, m, m), (k + 1) + m, c, b)
    <3>1. k + 1 \in Nat \ {0} /\ m <= m /\ m <= m + 1 /\ (k + 1) + m <= c + 1
      BY <1>2 DEF m
    <3> QED
      BY <1>2, <2>2, <3>1, GetWalked, ZenonT(40)
  <2> QED
    BY <2>1, <2>3 DEF print_opaque, m
<1>5. ASSUME ~ (c <= actual) PROVE Walked(Fail(w), (k + 1) + m, c, b)
  <2>1. 1 + m \in Nat /\ k + (1 + m) = (k + 1) + m
    BY <1>2
  <2>2. Walked(Fail(w), k + (1 + m), c, b)
    BY <1>5, <2>1, FailWalked
  <2> QED
    BY <2>1, <2>2
<1>6. Walked(print_fn3(w, label), (k + 1) + m, c, b)
  <2>1. CASE Short(w, 1)
    <3>1. ~ (c <= actual)
      BY <1>1, <1>2, <2>1 DEF Short, NULL, e, m
    <3> QED
      BY <1>5, <2>1, <3>1 DEF print_fn3
  <2>2. CASE ~ Short(w, 1)
    <3>1. w.p = k /\ k <= actual
      BY <1>1, <2>2 DEF Short, NULL, e
    <3> QED
      BY <1>4, <2>2, <3>1 DEF print_fn3
  <2> QED
    BY <2>1, <2>2
<1>7. ASSUME k + 1 <= c PROVE Walked(print_fh3(w, label), (k + 1) + m, c, b)
  <2>1. CASE Short(w, 2)
    <3>1. ~ (c <= actual)
      BY <1>1, <1>2, <1>7, <2>1 DEF Short, NULL, e
    <3> QED
      BY <1>5, <2>1, <3>1 DEF print_fh3
  <2>2. CASE ~ Short(w, 2)
    <3>1. w.p = k /\ k <= actual
      BY <1>1, <2>2 DEF Short, NULL, e
    <3> QED
      BY <1>4, <2>2, <3>1 DEF print_fh3
  <2> QED
    BY <2>1, <2>2
<1> QED
  BY <1>6, <1>7 DEF m

\* A field in a row of them, j words behind the first.
LEMMA Field32 ==
    ASSUME NEW w, NEW k \in Nat \ {0}, NEW j \in Nat, NEW c \in Nat, NEW b \in BOOLEAN, NEW label,
           Context, Walked(w, k + j, c, b), k + (j + 1) <= c + 1,
           b => message[k + j].name = label
    PROVE  Walked(print_uint32(w, label), k + (j + 1), c, b)
<1>1. k + j \in Nat \ {0} /\ (k + j) + 1 = k + (j + 1)
  OBVIOUS
<1> QED
  BY <1>1, PrintWalked

LEMMA Field64 ==
    ASSUME NEW w, NEW k \in Nat \ {0}, NEW j \in Nat, NEW c \in Nat, NEW b \in BOOLEAN, NEW label,
           Context, Walked(w, k + j, c, b), k + (j + 2) <= c + 1,
           b => message[k + j].name = label /\ message[k + (j + 1)].name = label
    PROVE  /\ Walked(print_uint64(w, label), k + (j + 2), c, b)
           /\ Walked(print_nfstime3(w, label), k + (j + 2), c, b)
<1>1. k + j \in Nat \ {0} /\ (k + j) + 2 = k + (j + 2) /\ (k + j) + 1 = k + (j + 1)
  OBVIOUS
<1> QED
  BY <1>1, PrintWalked

LEMMA FieldsParts ==
    ASSUME NEW names, NEW m \in Nat, DOMAIN names = 1..m
    PROVE  /\ IsPart(Fields(names)) /\ Len(Fields(names)) = m
           /\ \A i \in 1..m : Fields(names)[i] = [name |-> names[i], value |-> 0]
<1>1. Fields(names) = [i \in 1..m |-> [name |-> names[i], value |-> 0]]
  BY DEF Fields
<1> QED
  BY <1>1, NamedParts

\* The names of fields stand where they do in the list of them.
LEMMA AtFields ==
    ASSUME NEW names, NEW m \in Nat, DOMAIN names = 1..m, NEW k \in Nat \ {0}, NEW b \in BOOLEAN,
           Context, At(k, Fields(names), b)
    PROVE  /\ k + m <= Len(message) + 1
           /\ b => \A i \in 1..m : message[k + i - 1].name = names[i]
<1>1. /\ Len(Fields(names)) = m
      /\ \A i \in 1..m : Fields(names)[i] = [name |-> names[i], value |-> 0]
  BY FieldsParts
<1>2. \A i \in 1..m : Fields(names)[i].name = names[i]
  BY <1>1, AWord
<1> QED
  BY <1>1, <1>2 DEF At

LEMMA Fattr3Parts == IsPart(Fields(Fattr3)) /\ Len(Fields(Fattr3)) = 21
<1>1. DOMAIN Fattr3 = 1..21 /\ 21 \in Nat
  BY DEF Fattr3
<1> QED
  BY <1>1, FieldsParts

LEMMA Fattr3Names ==
    ASSUME NEW k \in Nat \ {0}, NEW b \in BOOLEAN, Context, At(k, Fields(Fattr3), b)
    PROVE  /\ k + 21 <= Len(message) + 1
           /\ b => \A i \in 1..21 : message[k + i - 1].name = Fattr3[i]
<1>1. DOMAIN Fattr3 = 1..21 /\ 21 \in Nat
  BY DEF Fattr3
<1>2. k + 21 <= Len(message) + 1
  BY <1>1, AtFields
<1>3. b => \A i \in 1..21 : message[k + i - 1].name = Fattr3[i]
  BY <1>1, AtFields
<1> QED
  BY <1>2, <1>3

LEMMA Nth == \A k \in Nat, j \in Nat : k + (j + 1) - 1 = k + j
  OBVIOUS

LEMMA Fattr3Walked ==
    ASSUME NEW w, NEW k \in Nat \ {0}, NEW c \in Nat, NEW b \in BOOLEAN, Context,
           Walked(w, k, c, b), At(k, Fields(Fattr3), b), k + 21 <= c + 1
    PROVE  Walked(print_fattr3(w), k + 21, c, b)
<1> DEFINE ftype == print_uint32(w, "ftype")
           mode == print_uint32(ftype, "mode")
           nlink == print_uint32(mode, "nlink")
           uid == print_uint32(nlink, "uid")
           gid == print_uint32(uid, "gid")
           size == print_uint64(gid, "size")
           used == print_uint64(size, "used")
           rdev == print_uint32(used, "rdev")
           rdev2 == print_uint32(rdev, "rdev2")
           fsid == print_uint64(rdev2, "fsid")
           fileid == print_uint64(fsid, "fileid")
           atime == print_nfstime3(fileid, "atime")
           mtime == print_nfstime3(atime, "mtime")
           ctime == print_nfstime3(mtime, "ctime")
<1>1. b => \A i \in 1..21 : message[k + i - 1].name = Fattr3[i]
  BY Fattr3Names
<1>2. Walked(w, k + 0, c, b)
  OBVIOUS
<1>3. Walked(ftype, k + 1, c, b)
  <2>1. b => message[k + 0].name = "ftype"
    BY <1>1, Nth DEF Fattr3
  <2>2. 0 \in Nat /\ 0 + 1 = 1 /\ k + (0 + 1) <= c + 1
    OBVIOUS
  <2> QED
    BY <1>2, <2>1, <2>2, Field32
<1>4. Walked(mode, k + 2, c, b)
  <2>1. b => message[k + 1].name = "mode"
    BY <1>1, Nth DEF Fattr3
  <2>2. 1 \in Nat /\ 1 + 1 = 2 /\ k + (1 + 1) <= c + 1
    OBVIOUS
  <2> QED
    BY <1>3, <2>1, <2>2, Field32
<1>5. Walked(nlink, k + 3, c, b)
  <2>1. b => message[k + 2].name = "nlink"
    BY <1>1, Nth DEF Fattr3
  <2>2. 2 \in Nat /\ 2 + 1 = 3 /\ k + (2 + 1) <= c + 1
    OBVIOUS
  <2> QED
    BY <1>4, <2>1, <2>2, Field32
<1>6. Walked(uid, k + 4, c, b)
  <2>1. b => message[k + 3].name = "uid"
    BY <1>1, Nth DEF Fattr3
  <2>2. 3 \in Nat /\ 3 + 1 = 4 /\ k + (3 + 1) <= c + 1
    OBVIOUS
  <2> QED
    BY <1>5, <2>1, <2>2, Field32
<1>7. Walked(gid, k + 5, c, b)
  <2>1. b => message[k + 4].name = "gid"
    BY <1>1, Nth DEF Fattr3
  <2>2. 4 \in Nat /\ 4 + 1 = 5 /\ k + (4 + 1) <= c + 1
    OBVIOUS
  <2> QED
    BY <1>6, <2>1, <2>2, Field32
<1>8. Walked(size, k + 7, c, b)
  <2>1. b => message[k + 5].name = "size" /\ message[k + (5 + 1)].name = "size"
    BY <1>1, Nth DEF Fattr3
  <2>2. 5 \in Nat /\ 5 + 2 = 7 /\ k + (5 + 2) <= c + 1
    OBVIOUS
  <2> QED
    BY <1>7, <2>1, <2>2, Field64
<1>9. Walked(used, k + 9, c, b)
  <2>1. b => message[k + 7].name = "used" /\ message[k + (7 + 1)].name = "used"
    BY <1>1, Nth DEF Fattr3
  <2>2. 7 \in Nat /\ 7 + 2 = 9 /\ k + (7 + 2) <= c + 1
    OBVIOUS
  <2> QED
    BY <1>8, <2>1, <2>2, Field64
<1>10. Walked(rdev, k + 10, c, b)
  <2>1. b => message[k + 9].name = "rdev"
    BY <1>1, Nth DEF Fattr3
  <2>2. 9 \in Nat /\ 9 + 1 = 10 /\ k + (9 + 1) <= c + 1
    OBVIOUS
  <2> QED
    BY <1>9, <2>1, <2>2, Field32
<1>11. Walked(rdev2, k + 11, c, b)
  <2>1. b => message[k + 10].name = "rdev2"
    BY <1>1, Nth DEF Fattr3
  <2>2. 10 \in Nat /\ 10 + 1 = 11 /\ k + (10 + 1) <= c + 1
    OBVIOUS
  <2> QED
    BY <1>10, <2>1, <2>2, Field32
<1>12. Walked(fsid, k + 13, c, b)
  <2>1. b => message[k + 11].name = "fsid" /\ message[k + (11 + 1)].name = "fsid"
    BY <1>1, Nth DEF Fattr3
  <2>2. 11 \in Nat /\ 11 + 2 = 13 /\ k + (11 + 2) <= c + 1
    OBVIOUS
  <2> QED
    BY <1>11, <2>1, <2>2, Field64
<1>13. Walked(fileid, k + 15, c, b)
  <2>1. b => message[k + 13].name = "fileid" /\ message[k + (13 + 1)].name = "fileid"
    BY <1>1, Nth DEF Fattr3
  <2>2. 13 \in Nat /\ 13 + 2 = 15 /\ k + (13 + 2) <= c + 1
    OBVIOUS
  <2> QED
    BY <1>12, <2>1, <2>2, Field64
<1>14. Walked(atime, k + 17, c, b)
  <2>1. b => message[k + 15].name = "atime" /\ message[k + (15 + 1)].name = "atime"
    BY <1>1, Nth DEF Fattr3
  <2>2. 15 \in Nat /\ 15 + 2 = 17 /\ k + (15 + 2) <= c + 1
    OBVIOUS
  <2> QED
    BY <1>13, <2>1, <2>2, Field64
<1>15. Walked(mtime, k + 19, c, b)
  <2>1. b => message[k + 17].name = "mtime" /\ message[k + (17 + 1)].name = "mtime"
    BY <1>1, Nth DEF Fattr3
  <2>2. 17 \in Nat /\ 17 + 2 = 19 /\ k + (17 + 2) <= c + 1
    OBVIOUS
  <2> QED
    BY <1>14, <2>1, <2>2, Field64
<1>16. Walked(ctime, k + 21, c, b)
  <2>1. b => message[k + 19].name = "ctime" /\ message[k + (19 + 1)].name = "ctime"
    BY <1>1, Nth DEF Fattr3
  <2>2. 19 \in Nat /\ 19 + 2 = 21 /\ k + (19 + 2) <= c + 1
    OBVIOUS
  <2> QED
    BY <1>15, <2>1, <2>2, Field64
<1>17. CASE Short(w, 0)
  <2>1. ~ (c <= actual)
    BY <1>17 DEF Walked, Came, Context, Short, NULL, e
  <2>2. Walked(Fail(w), k + 21, c, b)
    BY <2>1, FailWalked
  <2> QED
    BY <1>17, <2>2 DEF print_fattr3
<1>18. CASE ~ Short(w, 0)
  BY <1>16, <1>18 DEF print_fattr3
<1> QED
  BY <1>17, <1>18

LEMMA PreOpAttr3Parts == IsPart(Fields(PreOpAttr3)) /\ Len(Fields(PreOpAttr3)) = 6
<1>1. DOMAIN PreOpAttr3 = 1..6 /\ 6 \in Nat
  BY DEF PreOpAttr3
<1> QED
  BY <1>1, FieldsParts

LEMMA PreOpAttr3Names ==
    ASSUME NEW k \in Nat \ {0}, NEW b \in BOOLEAN, Context, At(k, Fields(PreOpAttr3), b)
    PROVE  /\ k + 6 <= Len(message) + 1
           /\ b => \A i \in 1..6 : message[k + i - 1].name = PreOpAttr3[i]
<1>1. DOMAIN PreOpAttr3 = 1..6 /\ 6 \in Nat
  BY DEF PreOpAttr3
<1>2. k + 6 <= Len(message) + 1
  BY <1>1, AtFields
<1>3. b => \A i \in 1..6 : message[k + i - 1].name = PreOpAttr3[i]
  BY <1>1, AtFields
<1> QED
  BY <1>2, <1>3

LEMMA PreOpAttr3Walked ==
    ASSUME NEW w, NEW k \in Nat \ {0}, NEW c \in Nat, NEW b \in BOOLEAN, Context,
           Walked(w, k, c, b), At(k, Fields(PreOpAttr3), b), k + 6 <= c + 1
    PROVE  Walked(print_pre_op_attr3(w), k + 6, c, b)
<1> DEFINE size == print_uint64(w, "pre-size")
           mtime == print_nfstime3(size, "pre-mtime")
           ctime == print_nfstime3(mtime, "pre-ctime")
<1>1. b => \A i \in 1..6 : message[k + i - 1].name = PreOpAttr3[i]
  BY PreOpAttr3Names
<1>2. Walked(w, k + 0, c, b)
  OBVIOUS
<1>3. Walked(size, k + 2, c, b)
  <2>1. b => message[k + 0].name = "pre-size" /\ message[k + (0 + 1)].name = "pre-size"
    BY <1>1, Nth DEF PreOpAttr3
  <2>2. 0 \in Nat /\ 0 + 2 = 2 /\ k + (0 + 2) <= c + 1
    OBVIOUS
  <2> QED
    BY <1>2, <2>1, <2>2, Field64
<1>4. Walked(mtime, k + 4, c, b)
  <2>1. b => message[k + 2].name = "pre-mtime" /\ message[k + (2 + 1)].name = "pre-mtime"
    BY <1>1, Nth DEF PreOpAttr3
  <2>2. 2 \in Nat /\ 2 + 2 = 4 /\ k + (2 + 2) <= c + 1
    OBVIOUS
  <2> QED
    BY <1>3, <2>1, <2>2, Field64
<1>5. Walked(ctime, k + 6, c, b)
  <2>1. b => message[k + 4].name = "pre-ctime" /\ message[k + (4 + 1)].name = "pre-ctime"
    BY <1>1, Nth DEF PreOpAttr3
  <2>2. 4 \in Nat /\ 4 + 2 = 6 /\ k + (4 + 2) <= c + 1
    OBVIOUS
  <2> QED
    BY <1>4, <2>1, <2>2, Field64
<1>6. CASE Short(w, 0)
  <2>1. ~ (c <= actual)
    BY <1>6 DEF Walked, Came, Context, Short, NULL, e
  <2>2. Walked(Fail(w), k + 6, c, b)
    BY <2>1, FailWalked
  <2> QED
    BY <1>6, <2>2 DEF print_pre_op_attr3
<1>7. CASE ~ Short(w, 0)
  BY <1>5, <1>7 DEF print_pre_op_attr3
<1> QED
  BY <1>6, <1>7

\* A walk that failed, or left what was captured, printed nothing more; nor should it if
\* no word that was captured has a name.
LEMMA LostWalked ==
    ASSUME NEW w, NEW x, NEW k \in Nat \ {0}, NEW m \in Nat, NEW c \in Nat, NEW b \in BOOLEAN,
           Context, Walked(w, k, c, b), ~ (c <= actual),
           x = [p |-> x.p, printed |-> w.printed, crashed |-> x.crashed],
           x.p \in Nat, x.p <= actual + 3,
           \/ x.p = NULL
           \/ /\ x.p > actual + 1 /\ k + m > actual + 1 /\ w.p # NULL
              /\ b => Owed(w.printed, k, m)
    PROVE  Walked(x, k + m, c, b)
<1>1. x.printed = w.printed /\ x = [p |-> x.p, printed |-> x.printed, crashed |-> x.crashed]
  BY AWalk
<1>2. Came(x, k + m, c)
  <2>1. x.p = NULL \/ (x.p > actual + 1 /\ k + m > actual + 1)
    OBVIOUS
  <2> QED
    BY <1>1, <2>1 DEF Came, Context, NULL
<1>3. ASSUME b PROVE Said(x, k + m)
  <2>1. \A y \in x.printed : y \in w.printed
    BY <1>1
  <2>2. Said(w, k)
    BY <1>3 DEF Walked
  <2>3. x.p # NULL => w.p # NULL /\ w.printed \subseteq x.printed /\ Owed(x.printed, k, m)
    BY <1>1, <1>3
  <2> QED
    BY <2>1, <2>2, <2>3, MoreSaid
<1> QED
  BY <1>2, <1>3 DEF Walked

\* What is optional: a flag, then the part if it is set.
LEMMA IfSetParts ==
    ASSUME NEW set \in BOOLEAN, NEW part, IsPart(part)
    PROVE  /\ IsPart(IfSet(set, part))
           /\ Len(IfSet(set, part)) = IF set THEN 1 + Len(part) ELSE 1
<1>1. IsPart(Flag(set)) /\ Len(Flag(set)) = 1
  <2>1. 0 \in Int /\ 1 \in Int
    OBVIOUS
  <2> QED
    BY <2>1, WordParts DEF Flag
<1>2. CASE set
  <2>1. IsPart(Flag(set) \o part) /\ Len(Flag(set) \o part) = 1 + Len(part)
    BY <1>1, JoinParts
  <2>2. IfSet(set, part) = Flag(set) \o part
    BY <1>2 DEF IfSet, Flag
  <2> QED
    BY <1>2, <2>1, <2>2
<1>3. CASE ~ set
  <2>1. IfSet(set, part) = Flag(set)
    BY <1>3 DEF IfSet, Flag
  <2> QED
    BY <1>1, <1>3, <2>1
<1> QED
  BY <1>2, <1>3

LEMMA AtFlag ==
    ASSUME NEW set \in BOOLEAN, NEW k \in Nat \ {0}, NEW b \in BOOLEAN, Context, At(k, Flag(set), b)
    PROVE  message[k].value = (IF set THEN 1 ELSE 0) /\ (b => Nameless(k, 1))
<1> DEFINE part == Flag(set)
           f == IF set THEN 1 ELSE 0
<1>1. Len(part) = 1 /\ part[1] = [name |-> "", value |-> f]
  <2>1. f \in Int
    OBVIOUS
  <2>2. part = W("", f)
    BY DEF Flag
  <2> HIDE DEF part, f
  <2> QED
    BY <2>1, <2>2, WordParts
<1>2. part[1].name = "" /\ part[1].value = f
  <2> HIDE DEF part, f
  <2> QED
    BY <1>1, AWord
<1>3. message[k + 1 - 1].value = part[1].value /\ (b => message[k + 1 - 1].name = part[1].name)
  <2>1. Len(part) = 1
    BY <1>1
  <2> HIDE DEF part
  <2> QED
    BY <2>1 DEF At, part
<1>4. k + 1 - 1 = k /\ \A i \in k..(k + 1 - 1) : i = k
  OBVIOUS
<1>5. message[k].value = f /\ (b => message[k].name = "")
  <2> HIDE DEF part, f
  <2> QED
    BY <1>2, <1>3, <1>4
<1> QED
  BY <1>4, <1>5 DEF Nameless

\* A part of one word, then another part.
LEMMA FirstJoin ==
    ASSUME NEW k \in Nat \ {0}, NEW a, NEW z, IsPart(a), IsPart(z), NEW b \in BOOLEAN, Context
    PROVE  At(k, a \o z, b) /\ Len(a) = 1 => At(k, a, b) /\ At(k + 1, z, b)
<1>1. ASSUME At(k, a \o z, b) PROVE At(k, a, b)
  BY <1>1, AtJoin
<1>2. ASSUME At(k, a \o z, b) PROVE At(k + Len(a), z, b)
  BY <1>2, AtJoin
<1> QED
  BY <1>1, <1>2

LEMMA AtIfSet ==
    ASSUME NEW set \in BOOLEAN, NEW part, IsPart(part), NEW k \in Nat \ {0}, NEW b \in BOOLEAN,
           Context, At(k, IfSet(set, part), b)
    PROVE  /\ k + Len(IfSet(set, part)) <= Len(message) + 1
           /\ message[k].value = IF set THEN 1 ELSE 0
           /\ b => Nameless(k, 1)
           /\ set => At(k + 1, part, b)
<1>1. IsPart(Flag(set)) /\ Len(Flag(set)) = 1
  <2>1. 0 \in Int /\ 1 \in Int
    OBVIOUS
  <2> QED
    BY <2>1, WordParts DEF Flag
<1>2. At(k, Flag(set), b) /\ (set => At(k + 1, part, b))
  <2>1. CASE set
    <3>1. At(k, Flag(set) \o part, b)
      BY <2>1 DEF IfSet, Flag
    <3> QED
      BY <1>1, <3>1, FirstJoin
  <2>2. CASE ~ set
    BY <2>2 DEF IfSet, Flag
  <2> QED
    BY <2>1, <2>2
<1> QED
  BY <1>2, AtFlag DEF At

\* The functions that read the flag: what they do with it, then with the part.
LEMMA FlagWalked ==
    ASSUME NEW w, NEW k \in Nat \ {0}, NEW c \in Nat, NEW b \in BOOLEAN, Context,
           Walked(w, k, c, b), NEW set \in BOOLEAN, message[k].value = IF set THEN 1 ELSE 0,
           k <= Len(message), b => Nameless(k, 1), w.p = k, k <= actual
    PROVE  (set <=> ~ Absent(w)) /\ Walked(Move(w, 1), k + 1, c, b)
<1>1. Len(message) \in Nat /\ actual \in Nat
  BY DEF Context, IsPart
<1>2. Value(w.p) = IF set THEN 1 ELSE 0
  BY <1>1 DEF Value
<1>3. k + 1 <= actual + 3 /\ 1 \in Nat
  BY <1>1
<1>4. Walked(Move(w, 1), k + 1, c, b)
  BY <1>3, MoveWalked
<1> QED
  BY <1>2, <1>4 DEF Absent

\* A flag that is not in the message: what is behind it is not printed.
LEMMA MoveLost ==
    ASSUME NEW w, NEW k \in Nat \ {0}, NEW m \in Nat, 1 <= m, NEW c \in Nat, NEW b \in BOOLEAN,
           Context, Walked(w, k, c, b), ~ (c <= actual), w.p > actual, w.p <= actual + 2,
           b => Nameless(k, 1)
    PROVE  /\ Walked(Move(w, 1), k + m, c, b) /\ Walked(Fail(Move(w, 1)), k + m, c, b)
           /\ Short(Move(w, 1), 0) /\ Short(Move(w, 1), 2)
<1> DEFINE x == Move(w, 1)
           y == Fail(x)
<1>1. /\ w = [p |-> w.p, printed |-> w.printed, crashed |-> w.crashed]
      /\ actual \in Nat /\ w.p \in Nat /\ w.p # NULL /\ actual + 1 <= k
  BY DEF Walked, Came, Context, NULL
<1>2. b => Owed(w.printed, k, m)
  <2>1. \A i \in k..(k + m - 1) : i <= actual + 1 => i \in k..(k + 1 - 1)
    BY <1>1
  <2> QED
    BY <2>1 DEF Nameless, Owed
<1>3. x = [p |-> w.p + 1, printed |-> w.printed, crashed |-> w.crashed]
  BY <1>1, MoveFields
<1> HIDE DEF x
<1>4. /\ x = [p |-> x.p, printed |-> w.printed, crashed |-> x.crashed]
      /\ x = [p |-> x.p, printed |-> x.printed, crashed |-> x.crashed]
      /\ x.p = w.p + 1 /\ x.printed = w.printed
  BY <1>1, <1>3, AWalk
<1>5. Walked(x, k + m, c, b)
  <2>1. /\ x.p \in Nat /\ x.p <= actual + 3
        /\ x.p > actual + 1 /\ k + m > actual + 1 /\ w.p # NULL
    BY <1>1, <1>4
  <2>2. x = [p |-> x.p, printed |-> w.printed, crashed |-> x.crashed]
    BY <1>4
  <2> QED
    BY <1>2, <2>1, <2>2, LostWalked
<1>6. y = [p |-> NULL, printed |-> w.printed, crashed |-> x.crashed]
  BY <1>4, FailFields
<1> HIDE DEF y
<1>7. y = [p |-> y.p, printed |-> w.printed, crashed |-> y.crashed] /\ y.p = NULL
  BY <1>6, AWalk
<1>8. Walked(y, k + m, c, b)
  <2>1. y.p \in Nat /\ y.p <= actual + 3
    BY <1>1, <1>7 DEF NULL
  <2> QED
    BY <1>7, <2>1, LostWalked
<1>9. Short(x, 0) /\ Short(x, 2)
  BY <1>1, <1>4 DEF Short, e
<1> QED
  BY <1>5, <1>8, <1>9 DEF x, y

\* Where a walk stands that does not fail at a flag.
LEMMA AtIt ==
    ASSUME NEW w, NEW k \in Nat \ {0}, NEW c \in Nat, NEW b \in BOOLEAN, Context,
           Walked(w, k, c, b), k + 1 <= c + 1
    PROVE  /\ Short(w, 0) => ~ (c <= actual)
           /\ ~ Short(w, 0) => w.p = k /\ k <= actual + 1
           /\ k = actual + 1 => ~ (c <= actual)
           /\ actual \in Nat
  BY DEF Walked, Came, Context, Short, NULL, e


\* All that depends on how a part is walked over: inner is what the walk over it gives.
\* The flag may be read in the first two places behind what was captured.
LEMMA BehindFlag ==
    ASSUME NEW w, NEW k \in Nat \ {0}, NEW c \in Nat, NEW b \in BOOLEAN, Context,
           Walked(w, k, c, b), NEW set \in BOOLEAN, NEW part, IsPart(part),
           At(k, IfSet(set, part), b), k + Len(IfSet(set, part)) <= c + 1,
           \/ w.p = k /\ k <= actual
           \/ ~ (c <= actual) /\ w.p > actual /\ w.p <= actual + 2,
           NEW inner, NEW x, x = IF Absent(w) THEN Move(w, 1) ELSE inner,
           Short(Move(w, 1), 0) /\ Short(Move(w, 1), 2) => inner = Fail(Move(w, 1)),
           set /\ At(k + 1, part, b) /\ Walked(Move(w, 1), k + 1, c, b)
               => Walked(inner, (k + 1) + Len(part), c, b)
    PROVE  Walked(x, k + Len(IfSet(set, part)), c, b)
<1> DEFINE m == Len(IfSet(set, part))
<1>1. m = (IF set THEN 1 + Len(part) ELSE 1) /\ Len(part) \in Nat /\ m \in Nat /\ 1 <= m
  <2>1. Len(part) \in Nat
    BY DEF IsPart
  <2>2. m = IF set THEN 1 + Len(part) ELSE 1
    BY IfSetParts
  <2> HIDE DEF m
  <2> QED
    BY <2>1, <2>2
<1>2. /\ k <= Len(message) /\ message[k].value = (IF set THEN 1 ELSE 0)
      /\ b => Nameless(k, 1)
      /\ set => At(k + 1, part, b)
  <2>1. Len(message) \in Nat
    BY DEF Context, IsPart
  <2>2. /\ k + m <= Len(message) + 1 /\ message[k].value = (IF set THEN 1 ELSE 0)
        /\ b => Nameless(k, 1)
        /\ set => At(k + 1, part, b)
    BY AtIfSet
  <2> HIDE DEF m
  <2> QED
    BY <1>1, <2>1, <2>2
<1> HIDE DEF m
<1>3. CASE w.p = k /\ k <= actual
  <2>1. (set <=> ~ Absent(w)) /\ Walked(Move(w, 1), k + 1, c, b)
    BY <1>2, <1>3, FlagWalked
  <2>2. CASE set
    <3>1. x = inner /\ (k + 1) + Len(part) = k + m
      BY <1>1, <2>1, <2>2
    <3>2. Walked(inner, (k + 1) + Len(part), c, b)
      BY <1>2, <2>1, <2>2
    <3> QED
      BY <3>1, <3>2 DEF m
  <2>3. CASE ~ set
    <3>1. x = Move(w, 1) /\ m = 1
      BY <1>1, <2>1, <2>3
    <3> QED
      BY <2>1, <3>1 DEF m
  <2> QED
    BY <2>2, <2>3
<1>4. CASE ~ (c <= actual) /\ w.p > actual /\ w.p <= actual + 2
  <2>1. /\ Walked(Move(w, 1), k + m, c, b) /\ Walked(Fail(Move(w, 1)), k + m, c, b)
        /\ Short(Move(w, 1), 0) /\ Short(Move(w, 1), 2)
    BY <1>1, <1>2, <1>4, MoveLost
  <2>2. x = Move(w, 1) \/ x = Fail(Move(w, 1))
    BY <2>1
  <2> QED
    BY <2>1, <2>2 DEF m
<1> QED
  BY <1>3, <1>4

LEMMA OptionalWalked ==
    ASSUME NEW w, NEW k \in Nat \ {0}, NEW c \in Nat, NEW b \in BOOLEAN, Context,
           Walked(w, k, c, b), NEW set \in BOOLEAN, NEW part, IsPart(part),
           At(k, IfSet(set, part), b), k + Len(IfSet(set, part)) <= c + 1, NEW inner, NEW x,
           x = IF Short(w, 0) THEN Fail(w) ELSE IF Absent(w) THEN Move(w, 1) ELSE inner,
           Short(Move(w, 1), 0) /\ Short(Move(w, 1), 2) => inner = Fail(Move(w, 1)),
           set /\ At(k + 1, part, b) /\ Walked(Move(w, 1), k + 1, c, b)
               => Walked(inner, (k + 1) + Len(part), c, b)
    PROVE  Walked(x, k + Len(IfSet(set, part)), c, b)
<1> DEFINE m == Len(IfSet(set, part))
<1>1. m \in Nat /\ 1 <= m
  <2>1. Len(part) \in Nat
    BY DEF IsPart
  <2>2. m = IF set THEN 1 + Len(part) ELSE 1
    BY IfSetParts
  <2> HIDE DEF m
  <2> QED
    BY <2>1, <2>2
<1>2. k + 1 <= c + 1
  <2>1. k + m <= c + 1
    OBVIOUS
  <2> HIDE DEF m
  <2> QED
    BY <1>1, <2>1
<1>3. CASE Short(w, 0)
  <2> HIDE DEF m
  <2>1. x = Fail(w) /\ ~ (c <= actual)
    BY <1>2, <1>3, AtIt
  <2>2. Walked(Fail(w), k + m, c, b)
    BY <1>1, <2>1, FailWalked
  <2> QED
    BY <2>1, <2>2 DEF m
<1>4. CASE ~ Short(w, 0)
  <2>1. /\ w.p = k /\ k <= actual + 1 /\ actual \in Nat
        /\ k = actual + 1 => ~ (c <= actual)
    BY <1>2, <1>4, AtIt
  <2>2. \/ w.p = k /\ k <= actual
        \/ ~ (c <= actual) /\ w.p > actual /\ w.p <= actual + 2
    BY <2>1
  <2>3. x = IF Absent(w) THEN Move(w, 1) ELSE inner
    BY <1>4
  <2> QED
    BY <2>2, <2>3, BehindFlag
<1> QED
  BY <1>3, <1>4

LEMMA PostOpAttr3Walked ==
    ASSUME NEW w, NEW k \in Nat \ {0}, NEW c \in Nat, NEW b \in BOOLEAN, Context,
           Walked(w, k, c, b), NEW set \in BOOLEAN, At(k, IfSet(set, Fields(Fattr3)), b),
           k + Len(IfSet(set, Fields(Fattr3))) <= c + 1
    PROVE  Walked(print_post_op_attr3(w), k + Len(IfSet(set, Fields(Fattr3))), c, b)
<1> DEFINE part == Fields(Fattr3)
           inner == print_fattr3(Move(w, 1))
           x == print_post_op_attr3(w)
<1>1. IsPart(part) /\ Len(part) = 21
  BY Fattr3Parts
<1>2. x = IF Short(w, 0) THEN Fail(w) ELSE IF Absent(w) THEN Move(w, 1) ELSE inner
  BY DEF print_post_op_attr3
<1>3. Short(Move(w, 1), 0) => inner = Fail(Move(w, 1))
  BY DEF print_fattr3
<1>4. ASSUME set, At(k + 1, part, b), Walked(Move(w, 1), k + 1, c, b)
      PROVE  Walked(inner, (k + 1) + Len(part), c, b)
  <2>1. Len(IfSet(set, part)) = 1 + Len(part)
    BY <1>1, <1>4, IfSetParts
  <2>2. k + 1 \in Nat \ {0} /\ (k + 1) + 21 <= c + 1
    <3> HIDE DEF part
    <3>1. k + Len(IfSet(set, part)) <= c + 1
      BY DEF part
    <3> QED
      BY <1>1, <2>1, <3>1
  <2>3. Walked(inner, (k + 1) + 21, c, b)
    BY <1>4, <2>2, Fattr3Walked
  <2> QED
    BY <1>1, <2>3
<1> HIDE DEF inner, x
<1>5. Walked(x, k + Len(IfSet(set, part)), c, b)
  BY <1>1, <1>2, <1>3, <1>4, OptionalWalked, ZenonT(40)
<1> QED
  BY <1>5 DEF x

LEMMA PostOpFh3Walked ==
    ASSUME NEW w, NEW k \in Nat \ {0}, NEW c \in Nat, NEW b \in BOOLEAN, Context,
           Walked(w, k, c, b), NEW set \in BOOLEAN, NEW size \in Nat,
           At(k, IfSet(set, Counted("fh", size)), b),
           k + Len(IfSet(set, Counted("fh", size))) <= c
    PROVE  Walked(print_post_op_fh3(w), k + Len(IfSet(set, Counted("fh", size))), c, b)
<1> DEFINE part == Counted("fh", size)
           inner == print_fh3(Move(w, 1), "fh")
           x == print_post_op_fh3(w)
<1>1. IsPart(part) /\ Len(part) = 1 + Padded(size) /\ Padded(size) \in Nat
  BY CountedParts
<1>2. x = IF Short(w, 0) THEN Fail(w) ELSE IF Absent(w) THEN Move(w, 1) ELSE inner
  BY DEF print_post_op_fh3
<1>3. Short(Move(w, 1), 2) => inner = Fail(Move(w, 1))
  BY DEF print_fh3
<1>4. ASSUME set, At(k + 1, part, b), Walked(Move(w, 1), k + 1, c, b)
      PROVE  Walked(inner, (k + 1) + Len(part), c, b)
  <2>1. Len(IfSet(set, part)) = 1 + Len(part)
    BY <1>1, <1>4, IfSetParts
  <2>2. /\ k + 1 \in Nat \ {0} /\ ((k + 1) + 1) + Padded(size) <= c + 1 /\ (k + 1) + 1 <= c
        /\ ((k + 1) + 1) + Padded(size) = (k + 1) + Len(part)
    <3> HIDE DEF part
    <3>1. k + Len(IfSet(set, part)) <= c
      BY DEF part
    <3> QED
      BY <1>1, <2>1, <3>1
  <2>3. Walked(inner, ((k + 1) + 1) + Padded(size), c, b)
    BY <1>4, <2>2, CountedWalked
  <2> QED
    BY <2>2, <2>3
<1>5. k + Len(IfSet(set, part)) <= c + 1
  <2>1. Len(IfSet(set, part)) \in Nat
    BY <1>1, IfSetParts DEF IsPart
  <2> QED
    BY <2>1
<1> HIDE DEF inner, x
<1>6. Walked(x, k + Len(IfSet(set, part)), c, b)
  BY <1>1, <1>2, <1>3, <1>4, <1>5, OptionalWalked, ZenonT(40)
<1> QED
  BY <1>6 DEF x

\* Wherever a walk is.
AnyWalk(w) ==
    w = [p |-> w.p, printed |-> w.printed, crashed |-> w.crashed] /\ w.p \in Nat

LEMMA FailAny ==
    ASSUME NEW w, AnyWalk(w)
    PROVE  AnyWalk(Fail(w)) /\ Fail(w).p = NULL /\ Fail(w).printed = w.printed
<1> DEFINE x == Fail(w)
<1>1. x = [p |-> NULL, printed |-> w.printed, crashed |-> w.crashed]
  BY FailFields DEF AnyWalk
<1> HIDE DEF x
<1> QED
  BY <1>1, AWalk DEF AnyWalk, NULL, x

LEMMA MoveAny ==
    ASSUME NEW w, AnyWalk(w), NEW m \in Nat
    PROVE  AnyWalk(Move(w, m)) /\ Move(w, m).p = w.p + m /\ Move(w, m).printed = w.printed
<1> DEFINE x == Move(w, m)
<1>1. x = [p |-> w.p + m, printed |-> w.printed, crashed |-> w.crashed]
  BY MoveFields DEF AnyWalk
<1> HIDE DEF x
<1>2. w.p + m \in Nat
  BY DEF AnyWalk
<1> QED
  BY <1>1, <1>2, AWalk DEF AnyWalk, x

\* The pointer behind a time is not behind what was captured.
LEMMA GetAny ==
    ASSUME NEW w, AnyWalk(w), NEW label, NEW m \in Nat, NEW needed \in Nat, actual \in Nat
    PROVE  /\ AnyWalk(Get(w, label, m, needed))
           /\ m <= needed => Get(w, label, m, needed).p <= actual + 1
<1> DEFINE x == Get(w, label, m, needed)
<1>1. CASE Short(w, needed)
  <2>1. x = Fail(w)
    BY <1>1 DEF Get
  <2> HIDE DEF x
  <2> QED
    BY <2>1, FailAny DEF x, NULL
<1>2. CASE ~ Short(w, needed)
  <2> DEFINE more == {<<label, i>> : i \in w.p..(w.p + m - 1)}
  <2>1. x = [p |-> w.p + m, printed |-> w.printed \cup more, crashed |-> w.crashed]
    BY <1>2, PutFields DEF Get, AnyWalk
  <2>2. w.p + m \in Nat /\ (m <= needed => w.p + m <= actual + 1)
    BY <1>2 DEF Short, e, AnyWalk
  <2> HIDE DEF x, more
  <2> QED
    BY <2>1, <2>2, AWalk DEF AnyWalk, x
<1> QED
  BY <1>1, <1>2

LEMMA PreOpAttr3End ==
    ASSUME NEW w, AnyWalk(w), actual \in Nat
    PROVE  AnyWalk(print_pre_op_attr3(w)) /\ print_pre_op_attr3(w).p <= actual + 1
<1>1. CASE Short(w, 0)
  BY <1>1, FailAny DEF print_pre_op_attr3, NULL
<1>2. CASE ~ Short(w, 0)
  <2> DEFINE size == print_uint64(w, "pre-size")
             mtime == print_nfstime3(size, "pre-mtime")
  <2>1. 1 \in Nat /\ 2 \in Nat /\ 2 <= 2
    OBVIOUS
  <2>2. AnyWalk(size)
    BY <2>1, GetAny DEF print_uint64
  <2> HIDE DEF size
  <2>3. AnyWalk(mtime)
    BY <2>1, <2>2, GetAny DEF print_nfstime3
  <2> HIDE DEF mtime
  <2>4. AnyWalk(print_nfstime3(mtime, "pre-ctime"))
        /\ print_nfstime3(mtime, "pre-ctime").p <= actual + 1
    BY <2>1, <2>3, GetAny DEF print_nfstime3
  <2> QED
    BY <1>2, <2>4 DEF print_pre_op_attr3, mtime, size
<1> QED
  BY <1>1, <1>2

LEMMA CrashFields ==
    ASSUME NEW w, w = [p |-> w.p, printed |-> w.printed, crashed |-> w.crashed], NEW v
    PROVE  [w EXCEPT !.crashed = v] = [p |-> w.p, printed |-> w.printed, crashed |-> v]
<1>1. DOMAIN w = {"p", "printed", "crashed"}
  OBVIOUS
<1> QED
  BY <1>1

\* The second half of what is printed about a file that was changed: its flag is read
\* if the first half did not fail.
LEMMA Wcc3After ==
    ASSUME NEW w, NEW k \in Nat \ {0}, NEW c \in Nat, NEW b \in BOOLEAN, Context,
           Walked(w, k, c, b), NEW set \in BOOLEAN, At(k, IfSet(set, Fields(Fattr3)), b),
           k + Len(IfSet(set, Fields(Fattr3))) <= c + 1, w.p <= actual + 2, NEW x, NEW v,
           x = IF w.p = NULL THEN [w EXCEPT !.crashed = v]
               ELSE IF Absent(w) THEN Move(w, 1) ELSE print_fattr3(Move(w, 1))
    PROVE  Walked(x, k + Len(IfSet(set, Fields(Fattr3))), c, b)
<1> DEFINE after == Fields(Fattr3)
           inner == print_fattr3(Move(w, 1))
           m == Len(IfSet(set, after))
<1>1. IsPart(after) /\ Len(after) = 21
  BY Fattr3Parts
<1>2. m \in Nat /\ 1 <= m /\ (set => m = 22)
  <2>1. m = IF set THEN 1 + Len(after) ELSE 1
    BY <1>1, IfSetParts
  <2> HIDE DEF after, m
  <2> QED
    BY <1>1, <2>1
<1>3. k + m <= c + 1
  OBVIOUS
<1>4. /\ w = [p |-> w.p, printed |-> w.printed, crashed |-> w.crashed] /\ w.p \in Nat
      /\ w.p = NULL \/ w.p > actual + 1 \/ w.p = k
      /\ c <= actual => w.p = k
      /\ actual \in Nat
  BY DEF Walked, Came, Context
<1>5. CASE w.p = NULL
  <2>1. x = [p |-> w.p, printed |-> w.printed, crashed |-> v]
    BY <1>4, <1>5, CrashFields
  <2>2. x = [p |-> x.p, printed |-> w.printed, crashed |-> x.crashed] /\ x.p = w.p
    BY <2>1, AWalk
  <2>3. ~ (c <= actual) /\ x.p \in Nat /\ x.p <= actual + 3 /\ x.p = NULL
    BY <1>4, <1>5, <2>2 DEF NULL
  <2>4. x = [p |-> x.p, printed |-> w.printed, crashed |-> x.crashed]
    BY <2>2
  <2> HIDE DEF m
  <2>5. Walked(x, k + m, c, b)
    BY <1>2, <2>3, <2>4, LostWalked
  <2> QED
    BY <2>5 DEF m
<1>6. CASE w.p # NULL
  <2>1. x = IF Absent(w) THEN Move(w, 1) ELSE inner
    BY <1>6
  <2>2. \/ w.p = k /\ k <= actual
        \/ ~ (c <= actual) /\ w.p > actual /\ w.p <= actual + 2
    <3> HIDE DEF m
    <3> QED
      BY <1>2, <1>3, <1>4, <1>6
  <2>3. Short(Move(w, 1), 0) => inner = Fail(Move(w, 1))
    BY DEF print_fattr3
  <2>4. ASSUME set, At(k + 1, after, b), Walked(Move(w, 1), k + 1, c, b)
        PROVE  Walked(inner, (k + 1) + Len(after), c, b)
    <3>1. k + 1 \in Nat \ {0} /\ (k + 1) + 21 <= c + 1
      <4>1. m = 22
        BY <1>2, <2>4
      <4> HIDE DEF m
      <4> QED
        BY <1>3, <4>1
    <3>2. Walked(inner, (k + 1) + 21, c, b)
      BY <2>4, <3>1, Fattr3Walked
    <3> QED
      BY <1>1, <3>2
  <2> HIDE DEF inner
  <2> QED
    BY <1>1, <2>1, <2>2, <2>3, <2>4, BehindFlag, ZenonT(40)
<1> QED
  BY <1>5, <1>6

LEMMA Wcc3Walked ==
    ASSUME NEW w, NEW k \in Nat \ {0}, NEW c \in Nat, NEW b \in BOOLEAN, Context,
           Walked(w, k, c, b), NEW pre \in BOOLEAN, NEW set \in BOOLEAN, NEW m1, NEW m2,
           m1 = Len(IfSet(pre, Fields(PreOpAttr3))), m2 = Len(IfSet(set, Fields(Fattr3))),
           At(k, IfSet(pre, Fields(PreOpAttr3)), b), At(k + m1, IfSet(set, Fields(Fattr3)), b),
           (k + m1) + m2 <= c + 1
    PROVE  Walked(print_wcc_data3(w), (k + m1) + m2, c, b)
<1> DEFINE x == print_wcc_data3(w)
           before == Fields(PreOpAttr3)
           inner1 == print_pre_op_attr3(Move(w, 1))
           y == IF Absent(w) THEN Move(w, 1) ELSE inner1
           after == Fields(Fattr3)
<1>1. /\ IsPart(before) /\ Len(before) = 6 /\ IsPart(after) /\ Len(after) = 21
  BY PreOpAttr3Parts, Fattr3Parts
<1>2. m1 \in Nat /\ 1 <= m1 /\ (pre => m1 = 7)
  <2>1. m1 = IF pre THEN 1 + Len(before) ELSE 1
    BY <1>1, IfSetParts
  <2> HIDE DEF before
  <2> QED
    BY <1>1, <2>1
<1>3. m2 \in Nat /\ 1 <= m2 /\ (set => m2 = 22)
  <2>1. m2 = IF set THEN 1 + Len(after) ELSE 1
    BY <1>1, IfSetParts
  <2> HIDE DEF after
  <2> QED
    BY <1>1, <2>1
<1>4. k + m1 <= c + 1 /\ k + m1 \in Nat \ {0} /\ k + 1 <= c + 1 /\ actual \in Nat
      /\ m1 + m2 \in Nat /\ k + (m1 + m2) = (k + m1) + m2
  BY <1>2, <1>3 DEF Context
<1>5. CASE Short(w, 0)
  <2>1. x = Fail(w)
    BY <1>5 DEF print_wcc_data3
  <2> HIDE DEF x
  <2>2. ~ (c <= actual)
    BY <1>4, <1>5, AtIt
  <2>3. Walked(Fail(w), k + (m1 + m2), c, b)
    BY <1>4, <2>2, FailWalked
  <2> QED
    BY <1>4, <2>1, <2>3 DEF x
<1>6. CASE ~ Short(w, 0)
  <2>1. /\ w.p = k /\ k <= actual + 1
        /\ k = actual + 1 => ~ (c <= actual)
    BY <1>4, <1>6, AtIt
  <2>2. \/ w.p = k /\ k <= actual
        \/ ~ (c <= actual) /\ w.p > actual /\ w.p <= actual + 2
    BY <1>4, <2>1
  <2>3. Short(Move(w, 1), 0) => inner1 = Fail(Move(w, 1))
    BY DEF print_pre_op_attr3
  <2>4. ASSUME pre, At(k + 1, before, b), Walked(Move(w, 1), k + 1, c, b)
        PROVE  Walked(inner1, (k + 1) + Len(before), c, b)
    <3>1. k + 1 \in Nat \ {0} /\ (k + 1) + 6 <= c + 1
      <4>1. m1 = 7
        BY <1>2, <2>4
      <4> QED
        BY <1>4, <4>1
    <3>2. Walked(inner1, (k + 1) + 6, c, b)
      BY <2>4, <3>1, PreOpAttr3Walked
    <3> QED
      BY <1>1, <3>2
  <2>5. Walked(y, k + m1, c, b)
    <3>1. y = IF Absent(w) THEN Move(w, 1) ELSE inner1
      OBVIOUS
    <3>2. k + Len(IfSet(pre, before)) <= c + 1
      BY <1>4
    <3> HIDE DEF y, inner1
    <3>3. Walked(y, k + Len(IfSet(pre, before)), c, b)
      BY <1>1, <2>2, <2>3, <2>4, <3>1, <3>2, BehindFlag, ZenonT(40)
    <3> QED
      BY <3>3
  <2>6. y.p <= actual + 2
    <3>1. AnyWalk(w) /\ 1 \in Nat
      BY DEF Walked, Came, AnyWalk
    <3>2. AnyWalk(Move(w, 1)) /\ Move(w, 1).p = w.p + 1
      BY <3>1, MoveAny
    <3>3. CASE Absent(w)
      <4>1. y = Move(w, 1)
        BY <3>3
      <4> QED
        BY <1>4, <2>1, <3>2, <4>1
    <3>4. CASE ~ Absent(w)
      <4>1. y = inner1
        BY <3>4
      <4>2. inner1.p <= actual + 1 /\ AnyWalk(inner1)
        BY <1>4, <3>2, PreOpAttr3End
      <4> HIDE DEF y, inner1
      <4> QED
        BY <1>4, <4>1, <4>2, SMTT(30) DEF AnyWalk
    <3> QED
      BY <3>3, <3>4
  <2> DEFINE v == TRUE
  <2>7. x = IF y.p = NULL THEN [y EXCEPT !.crashed = v]
             ELSE IF Absent(y) THEN Move(y, 1) ELSE print_fattr3(Move(y, 1))
    BY <1>6 DEF print_wcc_data3
  <2> HIDE DEF x, y, v
  <2> DEFINE k1 == k + m1
  <2>8. /\ k1 \in Nat \ {0} /\ Walked(y, k1, c, b) /\ At(k1, IfSet(set, Fields(Fattr3)), b)
        /\ k1 + Len(IfSet(set, Fields(Fattr3))) <= c + 1
    BY <1>4, <2>5
  <2> HIDE DEF k1
  <2>9. Walked(x, k1 + Len(IfSet(set, Fields(Fattr3))), c, b)
    BY <2>6, <2>7, <2>8, Wcc3After, ZenonT(40)
  <2> QED
    BY <2>9 DEF x, k1
<1> QED
  BY <1>5, <1>6

\* Attributes that are walked over without being printed.
LEMMA SkipWalked ==
    ASSUME NEW w, NEW k \in Nat \ {0}, NEW c \in Nat, NEW b \in BOOLEAN, Context,
           Walked(w, k, c, b), NEW set \in BOOLEAN,
           At(k, Hidden(IfSet(set, Fields(Fattr3))), TRUE),
           k + Len(IfSet(set, Fields(Fattr3))) <= c + 1
    PROVE  Walked(skip_post_op_attr3(w), k + Len(IfSet(set, Fields(Fattr3))), c, b)
<1> DEFINE part == IfSet(set, Fields(Fattr3))
           m == Len(part)
           y == print_post_op_attr3(w)
           x == skip_post_op_attr3(w)
<1>1. IsPart(part) /\ m \in Nat
  <2>1. IsPart(part)
    BY Fattr3Parts, IfSetParts
  <2> HIDE DEF part
  <2> QED
    BY <2>1 DEF IsPart
<1>2. At(k, part, FALSE) /\ Nameless(k, m)
  <2> HIDE DEF part
  <2>1. At(k, Hidden(part), TRUE)
    BY DEF part
  <2> QED
    BY <1>1, <2>1, AtHidden DEF Nameless
<1>3. Walked(y, k + m, c, FALSE)
  <2>1. Walked(w, k, c, FALSE)
    BY DEF Walked
  <2> QED
    BY <1>2, <2>1, PostOpAttr3Walked
<1>4. x = [y EXCEPT !.printed = w.printed]
  BY DEF skip_post_op_attr3
<1> HIDE DEF part, m, x, y
<1>5. Came(y, k + m, c)
  BY <1>3 DEF Walked
<1>6. x = [p |-> y.p, printed |-> w.printed, crashed |-> y.crashed]
  <2>1. y = [p |-> y.p, printed |-> y.printed, crashed |-> y.crashed]
    BY <1>5 DEF Came
  <2>2. DOMAIN y = {"p", "printed", "crashed"}
    BY <2>1
  <2> QED
    BY <1>4, <2>1, <2>2
<1>7. /\ x = [p |-> x.p, printed |-> x.printed, crashed |-> x.crashed]
      /\ x.p = y.p /\ x.printed = w.printed /\ x.crashed = y.crashed
  BY <1>6, AWalk
<1>8. Came(x, k + m, c)
  BY <1>5, <1>7 DEF Came
<1>9. ASSUME b PROVE Said(x, k + m)
  <2>1. \A z \in x.printed : z \in w.printed
    BY <1>7
  <2>2. w.printed \subseteq x.printed
    BY <1>7
  <2>3. Owed(x.printed, k, m)
    BY <1>2 DEF Nameless, Owed
  <2>4. Said(w, k)
    BY <1>9 DEF Walked
  <2>5. x.p # NULL => w.p # NULL
    <3>1. AnyWalk(w)
      BY DEF Walked, Came, AnyWalk
    <3>2. Short(w, 0) => y = Fail(w)
      BY DEF print_post_op_attr3, y
    <3> QED
      BY <1>7, <3>1, <3>2, FailAny DEF Short
  <2> QED
    BY <1>1, <2>1, <2>2, <2>3, <2>4, <2>5, MoreSaid
<1> QED
  BY <1>8, <1>9 DEF Walked, part, m, x

\* All fields of a row, or none.
LEMMA GetAllWalked ==
    ASSUME NEW w, NEW k \in Nat \ {0}, NEW c \in Nat, NEW b \in BOOLEAN, Context,
           Walked(w, k, c, b), NEW names, NEW m \in Nat, DOMAIN names = 1..m, Len(names) = m,
           At(k, Fields(names), b), k + m <= c + 1
    PROVE  Walked(GetAll(w, names), k + m, c, b)
<1> DEFINE x == GetAll(w, names)
           more == {<<names[i], w.p + i - 1>> : i \in DOMAIN names}
<1>1. /\ w = [p |-> w.p, printed |-> w.printed, crashed |-> w.crashed]
      /\ w.p \in Nat /\ actual \in Nat
      /\ w.p = NULL \/ w.p > actual + 1 \/ w.p = k
      /\ c <= actual => w.p = k /\ w.crashed = FALSE
  BY DEF Walked, Came, Context
<1>2. CASE Short(w, m)
  <2>1. ~ (c <= actual)
    BY <1>1, <1>2 DEF Short, NULL, e
  <2>2. Walked(Fail(w), k + m, c, b)
    BY <2>1, FailWalked
  <2>3. x = Fail(w)
    BY <1>2 DEF GetAll
  <2> HIDE DEF x
  <2> QED
    BY <2>2, <2>3 DEF x
<1>3. CASE ~ Short(w, m)
  <2>1. w.p = k /\ k + m <= actual + 1
    BY <1>1, <1>3 DEF Short, NULL, e
  <2>2. x = [p |-> k + m, printed |-> w.printed \cup more, crashed |-> w.crashed]
    <3>1. DOMAIN w = {"p", "printed", "crashed"}
      BY <1>1
    <3>2. x = [w EXCEPT !.printed = @ \cup more, !.p = @ + m]
      BY <1>3 DEF GetAll
    <3> HIDE DEF x, more
    <3> QED
      BY <1>1, <2>1, <3>1, <3>2
  <2>3. \A y : y \in more <=> \E i \in 1..m : y = <<names[i], k + i - 1>>
    BY <2>1
  <2> HIDE DEF x, more
  <2>4. x = [p |-> x.p, printed |-> x.printed, crashed |-> x.crashed]
        /\ x.p = k + m /\ x.printed = w.printed \cup more /\ x.crashed = w.crashed
    BY <2>2, AWalk
  <2>5. Came(x, k + m, c)
    BY <1>1, <2>1, <2>4 DEF Came
  <2>6. ASSUME b PROVE Said(x, k + m)
    <3>1. \A i \in 1..m : message[k + i - 1].name = names[i]
      BY <2>6, AtFields
    <3>2. \A y \in x.printed :
             \/ y \in w.printed
             \/ /\ y[2] \in k..(k + m - 1) /\ y[2] <= actual + 1 /\ message[y[2]].name = y[1]
      <4> SUFFICES ASSUME NEW y \in more
                   PROVE  /\ y[2] \in k..(k + m - 1) /\ y[2] <= actual + 1
                          /\ message[y[2]].name = y[1]
        BY <2>4
      <4>1. PICK i \in 1..m : y = <<names[i], k + i - 1>>
        BY <2>3
      <4>2. y[1] = names[i] /\ y[2] = k + i - 1
        BY <4>1
      <4> QED
        BY <1>1, <2>1, <3>1, <4>2
    <3>3. ASSUME NEW i \in k..(k + m - 1) PROVE <<message[i].name, i>> \in x.printed
      <4> DEFINE j == (i - k) + 1
      <4>1. j \in 1..m /\ k + j - 1 = i
        OBVIOUS
      <4> HIDE DEF j
      <4>2. message[i].name = names[j]
        BY <3>1, <4>1
      <4> QED
        BY <2>3, <2>4, <4>1, <4>2
    <3>4. w.p # NULL /\ w.printed \subseteq x.printed /\ Owed(x.printed, k, m)
      BY <2>1, <2>4, <3>3 DEF NULL, Owed
    <3>5. Said(w, k)
      BY <2>6 DEF Walked
    <3> QED
      BY <3>2, <3>4, <3>5, MoreSaid
  <2> QED
    BY <2>5, <2>6 DEF Walked, x
<1> QED
  BY <1>2, <1>3

\* A single word.
LEMMA AtWord ==
    ASSUME NEW k \in Nat \ {0}, NEW name, NEW value \in Int, NEW b \in BOOLEAN, Context,
           At(k, W(name, value), b)
    PROVE  /\ k + 1 <= Len(message) + 1 /\ message[k].value = value
           /\ b => message[k].name = name
<1> DEFINE part == W(name, value)
<1>1. Len(part) = 1 /\ part[1] = [name |-> name, value |-> value]
  BY WordParts
<1> HIDE DEF part
<1>2. part[1].name = name /\ part[1].value = value
  BY <1>1, AWord
<1>3. /\ k + 1 <= Len(message) + 1
      /\ message[k + 1 - 1].value = part[1].value
      /\ b => message[k + 1 - 1].name = part[1].name
  BY <1>1 DEF At, part
<1>4. k + 1 - 1 = k
  OBVIOUS
<1> QED
  BY <1>2, <1>3, <1>4

\* The same name several times.
LEMMA AtRepeat ==
    ASSUME NEW k \in Nat \ {0}, NEW name, NEW m \in Nat, NEW b \in BOOLEAN, Context,
           At(k, Repeat(name, m), b)
    PROVE  /\ k + m <= Len(message) + 1
           /\ b => \A i \in k..(k + m - 1) : message[i].name = name
<1> DEFINE part == Repeat(name, m)
<1>1. Len(part) = m /\ \A i \in 1..m : part[i] = [name |-> name, value |-> 0]
  BY RepeatParts
<1> HIDE DEF part
<1>2. \A i \in 1..m : part[i].name = name
  BY <1>1, AWord
<1>3. /\ k + m <= Len(message) + 1
      /\ b => \A i \in 1..m : message[k + i - 1].name = part[i].name
  BY <1>1 DEF At, part
<1>4. ASSUME b, NEW i \in k..(k + m - 1) PROVE message[i].name = name
  <2> DEFINE j == (i - k) + 1
  <2>1. j \in 1..m /\ k + j - 1 = i
    OBVIOUS
  <2> HIDE DEF j
  <2> QED
    BY <1>2, <1>3, <1>4, <2>1
<1> QED
  BY <1>3, <1>4

\* The message as a whole.
LEMMA AtMessage ==
    ASSUME Context
    PROVE  At(1, message, TRUE) /\ Len(message) \in Nat
<1>1. Len(message) \in Nat /\ IsPart(message)
  BY DEF Context, IsPart
<1>2. \A i \in 1..Len(message) : 1 + i - 1 = i
  BY <1>1
<1> QED
  BY <1>1, <1>2 DEF At

LEMMA StartWalked ==
    ASSUME NEW c \in Nat, Context
    PROVE  Walked(Start, 1, c, TRUE)
<1> DEFINE x == Start
           no == FALSE
<1>1. x = [p |-> 1, printed |-> {}, crashed |-> no]
  BY DEF Start
<1> HIDE DEF x, no
<1>2. x = [p |-> x.p, printed |-> x.printed, crashed |-> x.crashed]
      /\ x.p = 1 /\ x.printed = {} /\ x.crashed = no
  BY <1>1, AWalk
<1>3. Came(x, 1, c)
  BY <1>2 DEF Came, Context, no
<1>4. Said(x, 1)
  BY <1>2 DEF Said, SaidRight, SaidAll
<1> QED
  BY <1>3, <1>4 DEF Walked, x

\* What the end of decoding a message shows: names, and what was captured, if they are
\* right.
Shown(x, names) ==
    /\ \A y \in x.printed :
          /\ y[2] \in Nat \ {0} /\ y[2] <= actual + 1
          /\ names /\ y[2] <= Len(message) => message[y[2]].name = y[1]
    /\ Len(message) <= actual => x.p # NULL /\ x.crashed = FALSE /\ Named \subseteq x.printed
    /\ names /\ x.p # NULL =>
           \A i \in 1..Len(message) : i <= actual + 1 /\ message[i].name # ""
               => <<message[i].name, i>> \in x.printed \/ i \in Listing

LEMMA NamedSaid ==
    ASSUME NEW set, Context,
           \A i \in 1..Len(message) : message[i].name # "" => <<message[i].name, i>> \in set
    PROVE  Named \subseteq set
<1>1. DOMAIN message = 1..Len(message)
  BY DEF Context, IsPart
<1> QED
  BY <1>1 DEF Named

LEMMA WalkedShown ==
    ASSUME NEW x, NEW k \in Nat \ {0}, Context, Walked(x, k, Len(message), TRUE),
           k <= Len(message) + 1, Nameless(k, (Len(message) + 1) - k)
    PROVE  Shown(x, TRUE)
<1>1. Came(x, k, Len(message)) /\ Said(x, k)
  BY DEF Walked
<1>2. Len(message) \in Nat /\ actual \in Nat
  BY DEF Context, IsPart
<1>3. ASSUME x.p # NULL, NEW i \in 1..Len(message), i <= actual + 1, message[i].name # ""
      PROVE  <<message[i].name, i>> \in x.printed
  <2>1. ~ (i \in k..(k + ((Len(message) + 1) - k) - 1))
    BY <1>3 DEF Nameless
  <2>2. i \in 1..(k - 1)
    BY <1>2, <2>1
  <2> QED
    BY <1>1, <1>3, <2>2 DEF Said, SaidAll
<1>4. ASSUME Len(message) <= actual
      PROVE  x.p # NULL /\ x.crashed = FALSE /\ Named \subseteq x.printed
  <2>1. x.p # NULL /\ x.crashed = FALSE
    BY <1>1, <1>4 DEF Came, NULL
  <2>2. \A i \in 1..Len(message) : i <= actual + 1
    BY <1>2, <1>4
  <2>3. Named \subseteq x.printed
    BY <1>3, <2>1, <2>2, NamedSaid
  <2> QED
    BY <2>1, <2>3
<1>5. \A y \in x.printed : /\ y[2] \in Nat \ {0} /\ y[2] <= actual + 1
                           /\ message[y[2]].name = y[1]
  <2>1. 1..(k - 1) \subseteq Nat \ {0}
    OBVIOUS
  <2> QED
    BY <1>1, <2>1 DEF Said, SaidRight
<1> QED
  BY <1>3, <1>4, <1>5 DEF Shown

\* The walk that reached the end of its message.
LEMMA EndShown ==
    ASSUME NEW x, Context, Walked(x, Len(message) + 1, Len(message), TRUE)
    PROVE  Shown(x, TRUE)
<1>1. /\ Len(message) + 1 \in Nat \ {0} /\ Len(message) + 1 <= Len(message) + 1
      /\ \A i : ~ (i \in (Len(message) + 1)..((Len(message) + 1)
                          + ((Len(message) + 1) - (Len(message) + 1)) - 1))
  BY DEF Context, IsPart
<1>2. Nameless(Len(message) + 1, (Len(message) + 1) - (Len(message) + 1))
  BY <1>1 DEF Nameless
<1> QED
  BY <1>1, <1>2, WalkedShown

\* What the fields of a variant are.
IsVariant(v) ==
    /\ v.fh \in Nat /\ v.name \in Nat /\ v.entries \in Nat /\ v.count \in Nat
    /\ v.set \in BOOLEAN /\ v.attr \in BOOLEAN /\ v.pre \in BOOLEAN

\* The attributes to set, which are read where they stand and of which those that are
\* set are printed.
LEMMA SetAttr2Parts ==
    ASSUME NEW v
    PROVE  /\ IsPart(SetAttr2(v)) /\ Len(SetAttr2(v)) = 8
           /\ \A i \in 1..8 : /\ SetAttr2(v)[i].name = IF v.set THEN Sattr2[i] ELSE ""
                              /\ SetAttr2(v)[i].value = IF v.set THEN 0 ELSE Unset
<1> DEFINE f == SetAttr2(v)
           x(i) == [name |-> IF v.set THEN Sattr2[i] ELSE "", value |-> IF v.set THEN 0 ELSE Unset]
<1>1. DOMAIN Sattr2 = 1..8 /\ 8 \in Nat
  BY DEF Sattr2
<1>2. f = [i \in 1..8 |-> x(i)]
  <2>1. CASE v.set
    BY <1>1, <2>1 DEF SetAttr2, Fields
  <2>2. CASE ~ v.set
    BY <1>1, <2>2 DEF SetAttr2
  <2> QED
    BY <2>1, <2>2
<1>3. \A i : x(i).value \in Int /\ x(i) = [name |-> x(i).name, value |-> x(i).value]
  BY DEF Unset
<1>4. \A i : /\ x(i).name = (IF v.set THEN Sattr2[i] ELSE "")
             /\ x(i).value = (IF v.set THEN 0 ELSE Unset)
  OBVIOUS
<1> HIDE DEF f, x
<1>5. f \in [1..8 -> {f[i] : i \in 1..8}] /\ \A i \in 1..8 : f[i] = x(i)
  BY <1>2
<1>6. Len(f) = 8
  BY <1>1, <1>5, ASeq
<1>7. f = [i \in 1..8 |-> f[i]]
  BY <1>2
<1>8. IsPart(f)
  BY <1>3, <1>5, <1>6, <1>7 DEF IsPart
<1> QED
  BY <1>4, <1>5, <1>6, <1>8, ZenonT(40) DEF f

LEMMA FirstWords ==
    ASSUME NEW i \in 1..8
    PROVE  FirstWord[i] \in 0..7
<1>1. i = 1 \/ i = 2 \/ i = 3 \/ i = 4 \/ i = 5 \/ i = 6 \/ i = 7 \/ i = 8
  OBVIOUS
<1> QED
  BY <1>1 DEF FirstWord

LEMMA Sattr2Shown ==
    ASSUME NEW w, NEW k \in Nat \ {0}, Context, Walked(w, k, Len(message), TRUE), NEW v,
           IsVariant(v), At(k, SetAttr2(v), TRUE), k + 8 = Len(message) + 1
    PROVE  Shown(print_sattr2(w), TRUE)
<1> DEFINE x == print_sattr2(w)
           set == {i \in DOMAIN Sattr2 : Value(w.p + FirstWord[i]) # Unset}
           more == {<<Sattr2[i], w.p + i - 1>> : i \in set}
<1>1. v.set \in BOOLEAN
  BY DEF IsVariant
<1> USE <1>1
<1>2. /\ w = [p |-> w.p, printed |-> w.printed, crashed |-> w.crashed]
      /\ w.p \in Nat /\ actual \in Nat /\ Len(message) \in Nat /\ w.p <= actual + 3
      /\ w.p = NULL \/ w.p > actual + 1 \/ w.p = k
      /\ Len(message) <= actual => w.p = k /\ w.crashed = FALSE
      /\ Said(w, k)
  BY DEF Walked, Came, Context, IsPart
<1>3. DOMAIN Sattr2 = 1..8 /\ Len(Sattr2) = 8
  BY DEF Sattr2
<1>4. \A i \in 1..8 : /\ message[k + i - 1].name = (IF v.set THEN Sattr2[i] ELSE "")
                      /\ message[k + i - 1].value = (IF v.set THEN 0 ELSE Unset)
  BY SetAttr2Parts DEF At
<1>5. \A y \in w.printed : /\ y[2] \in Nat \ {0} /\ y[2] <= actual + 1
                           /\ message[y[2]].name = y[1]
  <2>1. 1..(k - 1) \subseteq Nat \ {0}
    OBVIOUS
  <2> QED
    BY <1>2, <2>1 DEF Said, SaidRight
<1>6. Len(message) \in Nat /\ actual \in Nat
  BY <1>2
<1>7. CASE Short(w, 8)
  <2>1. ~ (Len(message) <= actual)
    BY <1>2, <1>7 DEF Short, NULL, e
  <2>2. Walked(Fail(w), k + 8, Len(message), TRUE)
    BY <1>2, <2>1, FailWalked
  <2>3. x = Fail(w)
    BY <1>3, <1>7 DEF print_sattr2
  <2> HIDE DEF x
  <2> QED
    BY <2>2, <2>3, EndShown DEF x
<1>8. CASE ~ Short(w, 8)
  <2>1. w.p = k /\ k + 8 <= actual + 1
    BY <1>2, <1>8 DEF Short, NULL, e
  <2>2. \A i \in 1..8 : Value(k + FirstWord[i]) = IF v.set THEN 0 ELSE Unset
    <3> SUFFICES ASSUME NEW i \in 1..8
                 PROVE  Value(k + FirstWord[i]) = IF v.set THEN 0 ELSE Unset
      OBVIOUS
    <3> DEFINE j == FirstWord[i] + 1
               q == k + FirstWord[i]
    <3>1. j \in 1..8 /\ k + j - 1 = q /\ q <= actual /\ q <= Len(message)
      <4> DEFINE f == FirstWord[i]
      <4>1. f \in 0..7
        BY FirstWords
      <4> HIDE DEF f
      <4>2. f + 1 \in 1..8 /\ k + (f + 1) - 1 = k + f /\ k + f <= actual /\ k + f <= Len(message)
        BY <1>6, <2>1, <4>1
      <4> QED
        BY <4>2 DEF f
    <3>2. Value(q) = message[q].value
      BY <3>1 DEF Value
    <3> HIDE DEF j, q
    <3>3. Value(q) = IF v.set THEN 0 ELSE Unset
      BY <1>4, <3>1, <3>2
    <3> QED
      BY <3>3 DEF q
  <2>3. \A i : i \in set <=> i \in 1..8 /\ v.set
    BY <1>3, <2>1, <2>2 DEF Unset
  <2>4. \A y : y \in more <=> \E i \in set : y = <<Sattr2[i], k + i - 1>>
    BY <2>1
  <2>5. x = [p |-> k, printed |-> w.printed \cup more, crashed |-> w.crashed]
    <3>1. DOMAIN w = {"p", "printed", "crashed"}
      BY <1>2
    <3>2. x = [w EXCEPT !.printed = @ \cup more]
      BY <1>3, <1>8 DEF print_sattr2
    <3> HIDE DEF x, more, set
    <3> QED
      BY <1>2, <2>1, <3>1, <3>2
  <2> HIDE DEF x, more, set
  <2>6. x.p = k /\ x.printed = w.printed \cup more /\ x.crashed = w.crashed
    BY <2>5, AWalk
  <2>7. ASSUME NEW y \in x.printed
        PROVE  y[2] \in Nat \ {0} /\ y[2] <= actual + 1 /\ message[y[2]].name = y[1]
    <3>1. CASE y \in w.printed
      BY <1>5, <3>1
    <3>2. CASE y \in more
      <4>1. PICK i \in set : y = <<Sattr2[i], k + i - 1>>
        BY <2>4, <3>2
      <4>2. y[1] = Sattr2[i] /\ y[2] = k + i - 1 /\ i \in 1..8 /\ v.set
        BY <2>3, <4>1
      <4>3. message[k + i - 1].name = Sattr2[i]
        BY <1>4, <4>2
      <4>4. k + i - 1 <= actual + 1 /\ k + i - 1 \in Nat \ {0}
        BY <1>6, <2>1, <4>2
      <4> QED
        BY <4>2, <4>3, <4>4
    <3> QED
      BY <2>6, <3>1, <3>2
  <2>8. ASSUME NEW i \in 1..Len(message), message[i].name # "", i <= actual + 1
        PROVE  <<message[i].name, i>> \in x.printed
    <3>1. CASE i \in 1..(k - 1)
      <4>1. w.p # NULL
        BY <2>1 DEF NULL
      <4> QED
        BY <1>2, <2>6, <2>8, <3>1, <4>1 DEF Said, SaidAll
    <3>2. CASE ~ (i \in 1..(k - 1))
      <4> DEFINE j == (i - k) + 1
      <4>1. j \in 1..8 /\ k + j - 1 = i
        BY <1>6, <3>2
      <4> HIDE DEF j
      <4>2. v.set /\ message[i].name = Sattr2[j]
        BY <1>4, <2>8, <4>1
      <4>3. <<Sattr2[j], i>> \in more
        BY <2>3, <2>4, <4>1, <4>2
      <4> QED
        BY <2>6, <4>2, <4>3
    <3> QED
      BY <3>1, <3>2
  <2>9. ASSUME Len(message) <= actual
        PROVE  x.p # NULL /\ x.crashed = FALSE /\ Named \subseteq x.printed
    <3>1. \A i \in 1..Len(message) : i <= actual + 1
      BY <1>6, <2>9
    <3>2. Named \subseteq x.printed
      BY <2>8, <3>1, NamedSaid
    <3> QED
      BY <1>2, <2>6, <2>9, <3>2 DEF NULL
  <2> QED
    BY <2>7, <2>8, <2>9 DEF Shown, x
<1> QED
  BY <1>7, <1>8

\* A walk through a message that is decoded to its end.
Reached(w, k) == Walked(w, k, Len(message), TRUE)

\* The last part of the message stands at k.
Ends(k, part) == At(k, part, TRUE) /\ k + Len(part) = Len(message) + 1

LEMMA TailJoin ==
    ASSUME NEW k \in Nat \ {0}, NEW a, NEW z, IsPart(a), IsPart(z), Context, Ends(k, a \o z)
    PROVE  At(k, a, TRUE) /\ Ends(k + Len(a), z) /\ k + Len(a) \in Nat \ {0}
<1>1. At(k, a \o z, TRUE)
  BY DEF Ends
<1>2. At(k, a, TRUE)
  BY <1>1, AtJoin
<1>3. At(k + Len(a), z, TRUE)
  BY <1>1, AtJoin
<1>4. /\ Len(a) \in Nat /\ Len(z) \in Nat
      /\ k + (Len(a) + Len(z)) = Len(message) + 1
  BY JoinParts DEF Ends, IsPart
<1>5. (k + Len(a)) + Len(z) = Len(message) + 1 /\ k + Len(a) \in Nat \ {0}
  BY <1>4
<1> QED
  BY <1>2, <1>3, <1>5 DEF Ends

LEMMA TailMessage ==
    ASSUME Context
    PROVE  Ends(1, message) /\ Reached(Start, 1)
<1>1. At(1, message, TRUE) /\ Len(message) \in Nat
  BY AtMessage
<1>2. Reached(Start, 1)
  BY <1>1, StartWalked DEF Reached
<1>3. 1 + Len(message) = Len(message) + 1
  BY <1>1
<1> QED
  BY <1>1, <1>2, <1>3 DEF Ends

\* The end of a message, of which nothing is printed any more.
Anonymous(part) == \A i \in 1..Len(part) : part[i].name = ""

LEMMA TailShown ==
    ASSUME NEW x, NEW k \in Nat \ {0}, NEW part, IsPart(part), Context, Ends(k, part),
           Reached(x, k), Anonymous(part)
    PROVE  Shown(x, TRUE)
<1>1. Len(part) \in Nat /\ Len(message) \in Nat /\ k + Len(part) = Len(message) + 1
  BY DEF Ends, IsPart, Context
<1>2. k <= Len(message) + 1 /\ (Len(message) + 1) - k = Len(part)
  BY <1>1
<1>3. ASSUME NEW i \in k..(k + Len(part) - 1) PROVE message[i].name = ""
  <2> DEFINE j == (i - k) + 1
  <2>1. j \in 1..Len(part) /\ k + j - 1 = i
    BY <1>1
  <2> HIDE DEF j
  <2> QED
    BY <2>1 DEF Ends, At, Anonymous
<1>4. Nameless(k, (Len(message) + 1) - k)
  BY <1>2, <1>3 DEF Nameless
<1> QED
  BY <1>2, <1>4, WalkedShown DEF Reached

LEMMA TailEnd ==
    ASSUME NEW x, NEW k \in Nat \ {0}, NEW part, Context, Ends(k, part),
           Reached(x, k + Len(part))
    PROVE  Shown(x, TRUE)
  BY EndShown DEF Reached, Ends

\* What does not read anything shows nothing, and need not.
LEMMA StartShown ==
    ASSUME NEW part, IsPart(part), Context, message = part,
           Anonymous(part)
    PROVE  Shown(Start, TRUE)
<1>1. Ends(1, part) /\ Reached(Start, 1) /\ 1 \in Nat \ {0}
  BY TailMessage
<1> QED
  BY <1>1, TailShown

LEMMA EmptyParts == IsPart(<<>>) /\ Len(<<>>) = 0 /\ Anonymous(<<>>)
  BY DEF IsPart, Anonymous

LEMMA EmptyShown ==
    ASSUME Context, message = <<>>
    PROVE  Shown(Start, TRUE)
<1> DEFINE part == <<>>
<1>1. IsPart(part) /\ Anonymous(part) /\ message = part
  BY EmptyParts
<1> HIDE DEF part
<1> QED
  BY <1>1, StartShown

LEMMA RepeatNames ==
    ASSUME NEW name, NEW m \in Nat
    PROVE  \A i \in 1..m : Repeat(name, m)[i].name = name
<1> DEFINE r == Repeat(name, m)
<1>1. \A i \in 1..m : r[i] = [name |-> name, value |-> 0]
  BY RepeatParts
<1> HIDE DEF r
<1>2. \A i \in 1..m : r[i].name = name
  BY <1>1, AWord
<1> QED
  BY <1>2 DEF r

LEMMA BareParts ==
    ASSUME NEW m \in Nat
    PROVE  IsPart(Repeat("", m)) /\ Len(Repeat("", m)) = m /\ Anonymous(Repeat("", m))
<1> DEFINE none == ""
           r == Repeat(none, m)
<1> HIDE DEF none
<1>1. IsPart(r) /\ Len(r) = m
  BY RepeatParts
<1>2. \A i \in 1..m : r[i].name = none
  BY RepeatNames
<1> HIDE DEF r
<1>3. \A i \in 1..Len(r) : r[i].name = none
  BY <1>1, <1>2
<1>4. Anonymous(r)
  BY <1>3 DEF Anonymous, none
<1> QED
  BY <1>1, <1>4 DEF r, none

LEMMA RestParts == IsPart(Rest) /\ Len(Rest) = 1 /\ Anonymous(Rest)
  BY BareParts DEF Rest

\* The parts of messages again, for walks to the end.
LEMMA VariantFields == \A v \in Variants : IsVariant(v)
  BY DecodersAssumption DEF DecodersAssumption, IsVariant

LEMMA WordReached ==
    ASSUME NEW w, NEW k \in Nat \ {0}, NEW name, NEW value \in Int, Context, Reached(w, k),
           At(k, W(name, value), TRUE)
    PROVE  Reached(print_uint32(w, name), k + 1) /\ Reached(print_stable3(w, name), k + 1)
<1>1. k + 1 <= Len(message) + 1 /\ message[k].name = name /\ Len(message) \in Nat
  BY AtWord DEF Context, IsPart
<1>2. Walked(w, k, Len(message), TRUE)
  BY DEF Reached
<1> QED
  BY <1>1, <1>2, PrintWalked DEF Reached

LEMMA RepeatReached ==
    ASSUME NEW w, NEW k \in Nat \ {0}, NEW name, NEW m \in Nat, Context, Reached(w, k),
           At(k, Repeat(name, m), TRUE)
    PROVE  Reached(print_opaque(w, name, m), k + m)
<1>1. /\ k + m <= Len(message) + 1 /\ Len(message) \in Nat
      /\ \A i \in k..(k + m - 1) : message[i].name = name
  BY AtRepeat DEF Context, IsPart
<1>2. Walked(w, k, Len(message), TRUE)
  BY DEF Reached
<1>3. m <= m /\ m <= m + 1
  OBVIOUS
<1>4. Walked(Get(w, name, m, m), k + m, Len(message), TRUE)
  BY <1>1, <1>2, <1>3, GetWalked
<1> QED
  BY <1>4 DEF Reached, print_opaque

LEMMA CountedReached ==
    ASSUME NEW w, NEW k \in Nat \ {0}, NEW label, NEW size \in Nat, Context, Reached(w, k),
           At(k, Counted(label, size), TRUE), NEW m, m = 1 + Padded(size)
    PROVE  /\ Reached(print_fn3(w, label), k + m)
           /\ k + m <= Len(message) => Reached(print_fh3(w, label), k + m)
<1>1. /\ k + 1 + Padded(size) <= Len(message) + 1 /\ Padded(size) \in Nat
      /\ Len(message) \in Nat
  BY AtCounted DEF Context, IsPart
<1>2. (k + 1) + Padded(size) <= Len(message) + 1 /\ k + m = (k + 1) + Padded(size)
      /\ (k + m <= Len(message) => k + 1 <= Len(message))
  BY <1>1
<1>3. Walked(w, k, Len(message), TRUE)
  BY DEF Reached
<1>4. /\ Walked(print_fn3(w, label), (k + 1) + Padded(size), Len(message), TRUE)
      /\ k + 1 <= Len(message) =>
             Walked(print_fh3(w, label), (k + 1) + Padded(size), Len(message), TRUE)
  BY <1>1, <1>2, <1>3, CountedWalked
<1> QED
  BY <1>2, <1>4 DEF Reached

LEMMA Fattr3Reached ==
    ASSUME NEW w, NEW k \in Nat \ {0}, Context, Reached(w, k), At(k, Fields(Fattr3), TRUE)
    PROVE  Reached(print_fattr3(w), k + 21)
<1>1. k + 21 <= Len(message) + 1 /\ Len(message) \in Nat
  BY Fattr3Names DEF Context, IsPart
<1> QED
  BY <1>1, Fattr3Walked DEF Reached

LEMMA Attr3Parts ==
    ASSUME NEW v, IsVariant(v)
    PROVE  IsPart(Attr3(v)) /\ Len(Attr3(v)) \in Nat \ {0}
           /\ IsPart(Hidden(Attr3(v))) /\ Len(Hidden(Attr3(v))) = Len(Attr3(v))
<1> DEFINE part == Attr3(v)
           f == Fields(Fattr3)
<1>1. IsPart(f) /\ Len(f) = 21 /\ v.attr \in BOOLEAN
  BY Fattr3Parts DEF IsVariant
<1>2. part = IfSet(v.attr, f)
  BY DEF Attr3
<1> HIDE DEF part, f
<1>3. IsPart(part) /\ Len(part) \in Nat \ {0}
  <2>1. IsPart(part) /\ Len(part) = IF v.attr THEN 1 + Len(f) ELSE 1
    BY <1>1, <1>2, IfSetParts
  <2> QED
    BY <1>1, <2>1
<1>4. IsPart(Hidden(part)) /\ Len(Hidden(part)) = Len(part)
  BY <1>3, HiddenParts
<1> QED
  BY <1>3, <1>4 DEF part

LEMMA Attr3Reached ==
    ASSUME NEW w, NEW k \in Nat \ {0}, NEW v, IsVariant(v), Context, Reached(w, k)
    PROVE  /\ At(k, Attr3(v), TRUE)
              => Reached(print_post_op_attr3(w), k + Len(Attr3(v)))
           /\ At(k, Hidden(Attr3(v)), TRUE)
              => Reached(skip_post_op_attr3(w), k + Len(Attr3(v)))
<1>1. v.attr \in BOOLEAN
  BY DEF IsVariant
<1>2. Walked(w, k, Len(message), TRUE) /\ Len(message) \in Nat
  BY DEF Reached, Context, IsPart
<1>3. ASSUME At(k, Attr3(v), TRUE) PROVE Reached(print_post_op_attr3(w), k + Len(Attr3(v)))
  <2>1. At(k, IfSet(v.attr, Fields(Fattr3)), TRUE)
    BY <1>3 DEF Attr3
  <2>2. k + Len(IfSet(v.attr, Fields(Fattr3))) <= Len(message) + 1
    BY <2>1 DEF At
  <2>3. Walked(print_post_op_attr3(w), k + Len(IfSet(v.attr, Fields(Fattr3))), Len(message), TRUE)
    BY <1>1, <1>2, <2>1, <2>2, PostOpAttr3Walked
  <2> QED
    BY <2>3 DEF Attr3, Reached
<1>4. ASSUME At(k, Hidden(Attr3(v)), TRUE) PROVE Reached(skip_post_op_attr3(w), k + Len(Attr3(v)))
  <2>1. At(k, Hidden(IfSet(v.attr, Fields(Fattr3))), TRUE)
    BY <1>4 DEF Attr3
  <2>2. k + Len(Attr3(v)) <= Len(message) + 1
    BY <1>4, Attr3Parts DEF At
  <2>3. k + Len(IfSet(v.attr, Fields(Fattr3))) <= Len(message) + 1
    BY <2>2 DEF Attr3
  <2>4. Walked(skip_post_op_attr3(w), k + Len(IfSet(v.attr, Fields(Fattr3))), Len(message), TRUE)
    BY <1>1, <1>2, <2>1, <2>3, SkipWalked
  <2> QED
    BY <2>4 DEF Attr3, Reached
<1> QED
  BY <1>3, <1>4

LEMMA Wcc3Parts ==
    ASSUME NEW v, IsVariant(v)
    PROVE  /\ IsPart(Wcc3(v)) /\ Len(Wcc3(v)) \in Nat
           /\ IsPart(Hidden(Wcc3(v))) /\ Anonymous(Hidden(Wcc3(v)))
<1> DEFINE part == Wcc3(v)
           pre == IfSet(v.pre, Fields(PreOpAttr3))
           post == Attr3(v)
<1>1. IsPart(Fields(PreOpAttr3)) /\ v.pre \in BOOLEAN
  BY PreOpAttr3Parts DEF IsVariant
<1>2. IsPart(pre) /\ IsPart(post)
  BY <1>1, IfSetParts, Attr3Parts
<1>3. part = pre \o post
  BY DEF Wcc3
<1> HIDE DEF part, pre, post
<1>4. IsPart(part)
  BY <1>2, <1>3, JoinParts
<1>5. Len(part) \in Nat
  BY <1>4 DEF IsPart
<1>6. IsPart(Hidden(part)) /\ Anonymous(Hidden(part))
  BY <1>4, HiddenParts DEF Anonymous
<1> QED
  BY <1>4, <1>5, <1>6 DEF part

LEMMA Wcc3Reached ==
    ASSUME NEW w, NEW k \in Nat \ {0}, NEW v, IsVariant(v), Context, Reached(w, k),
           At(k, Wcc3(v), TRUE)
    PROVE  Reached(print_wcc_data3(w), k + Len(Wcc3(v)))
<1> DEFINE pre == IfSet(v.pre, Fields(PreOpAttr3))
           post == IfSet(v.attr, Fields(Fattr3))
<1>1. v.pre \in BOOLEAN /\ v.attr \in BOOLEAN
  BY DEF IsVariant
<1>2. IsPart(pre) /\ IsPart(post)
  BY <1>1, PreOpAttr3Parts, Fattr3Parts, IfSetParts
<1>3. Wcc3(v) = pre \o post
  BY DEF Wcc3, Attr3
<1> HIDE DEF pre, post
<1>4. At(k, pre \o post, TRUE)
  BY <1>3
<1>5. At(k, pre, TRUE)
  BY <1>2, <1>4, AtJoin
<1>6. At(k + Len(pre), post, TRUE)
  BY <1>2, <1>4, AtJoin
<1>7. /\ Len(Wcc3(v)) = Len(pre) + Len(post) /\ Len(pre) \in Nat /\ Len(post) \in Nat
      /\ Len(message) \in Nat
  BY <1>2, <1>3, JoinParts DEF IsPart, Context
<1>8. k + Len(Wcc3(v)) = (k + Len(pre)) + Len(post)
  BY <1>7
<1>9. (k + Len(pre)) + Len(post) <= Len(message) + 1
  BY <1>7 DEF At
<1>10. Walked(w, k, Len(message), TRUE)
  BY DEF Reached
<1>11. Walked(print_wcc_data3(w), (k + Len(pre)) + Len(post), Len(message), TRUE)
  BY <1>1, <1>5, <1>6, <1>7, <1>9, <1>10, Wcc3Walked DEF pre, post
<1> QED
  BY <1>8, <1>11 DEF Reached

LEMMA PostOpFh3Reached ==
    ASSUME NEW w, NEW k \in Nat \ {0}, NEW v, IsVariant(v), Context, Reached(w, k), NEW part,
           part = IfSet(v.set, Handle3("fh", v)), At(k, part, TRUE), k + Len(part) <= Len(message)
    PROVE  Reached(print_post_op_fh3(w), k + Len(part))
<1>1. v.set \in BOOLEAN /\ v.fh \in Nat
  BY DEF IsVariant
<1>2. part = IfSet(v.set, Counted("fh", v.fh))
  BY DEF Handle3
<1>3. Walked(w, k, Len(message), TRUE) /\ Len(message) \in Nat
  BY DEF Reached, Context, IsPart
<1> QED
  BY <1>1, <1>2, <1>3, PostOpFh3Walked DEF Reached

LEMMA CountedSize ==
    ASSUME NEW label, NEW size \in Nat
    PROVE  /\ IsPart(Counted(label, size)) /\ Len(Counted(label, size)) = 1 + Padded(size)
           /\ Len(Counted(label, size)) \in Nat \ {0}
<1>1. /\ IsPart(Counted(label, size)) /\ Len(Counted(label, size)) = 1 + Padded(size)
      /\ Padded(size) \in Nat
  BY CountedParts
<1>2. 1 + Padded(size) \in Nat \ {0}
  BY <1>1
<1> QED
  BY <1>1, <1>2

\* LOOKUP.
LEMMA Lookup3Shown ==
    ASSUME NEW v, IsVariant(v), Context,
           message = (Handle3("fh", v) \o Attr3(v)) \o Hidden(Attr3(v))
    PROVE  Shown(skip_post_op_attr3(print_post_op_attr3(print_fh3(Start, "fh"))), TRUE)
<1> DEFINE fh == Handle3("fh", v)
           attr == Attr3(v)
           skip == Hidden(Attr3(v))
           m == 1 + Padded(v.fh)
           w1 == print_fh3(Start, "fh")
           w2 == print_post_op_attr3(w1)
           w3 == skip_post_op_attr3(w2)
<1>1. IsPart(fh) /\ Len(fh) = m /\ Len(fh) \in Nat \ {0} /\ v.fh \in Nat
  BY CountedSize DEF Handle3, IsVariant
<1>2. IsPart(attr) /\ IsPart(skip) /\ Len(attr) \in Nat \ {0} /\ Len(skip) = Len(attr)
  BY Attr3Parts
<1> HIDE DEF fh, attr, skip, m, w1, w2, w3
<1>3. IsPart(fh \o attr) /\ Len(fh \o attr) = Len(fh) + Len(attr)
  BY <1>1, <1>2, JoinParts
<1>4. 1 \in Nat \ {0} /\ Ends(1, (fh \o attr) \o skip) /\ Reached(Start, 1)
  BY TailMessage DEF fh, attr, skip
<1>5. At(1, fh \o attr, TRUE) /\ Ends(1 + Len(fh \o attr), skip)
  BY <1>2, <1>3, <1>4, TailJoin
<1>6. At(1, fh, TRUE)
  BY <1>1, <1>2, <1>4, <1>5, AtJoin
<1>7. At(1 + Len(fh), attr, TRUE)
  BY <1>1, <1>2, <1>4, <1>5, AtJoin
<1>8. /\ 1 + Len(fh) \in Nat \ {0} /\ 1 + Len(fh) <= Len(message)
      /\ (1 + Len(fh)) + Len(attr) = 1 + Len(fh \o attr)
      /\ 1 + Len(fh \o attr) \in Nat \ {0}
  <2>1. (1 + Len(fh)) + Len(attr) <= Len(message) + 1 /\ Len(message) \in Nat
    BY <1>7 DEF At, Context, IsPart
  <2> QED
    BY <1>1, <1>2, <1>3, <2>1
<1>9. Reached(w1, 1 + Len(fh))
  BY <1>1, <1>4, <1>6, <1>8, CountedReached DEF w1, fh, m, Handle3
<1>10. Reached(w2, (1 + Len(fh)) + Len(attr))
  BY <1>7, <1>8, <1>9, Attr3Reached DEF w2, attr
<1>11. Reached(w2, 1 + Len(fh \o attr)) /\ At(1 + Len(fh \o attr), skip, TRUE)
  BY <1>5, <1>8, <1>10 DEF Ends
<1>12. Reached(w3, (1 + Len(fh \o attr)) + Len(attr))
  BY <1>8, <1>11, Attr3Reached DEF w3, attr, skip
<1>13. Reached(w3, (1 + Len(fh \o attr)) + Len(skip))
  BY <1>2, <1>12
<1> QED
  BY <1>5, <1>8, <1>13, TailEnd DEF w1, w2, w3

\* What the replies begin with that have two halves.
LEMMA FirstAttr3 ==
    ASSUME NEW v, IsVariant(v), Context, NEW z, IsPart(z), message = Attr3(v) \o z
    PROVE  /\ 1 + Len(Attr3(v)) \in Nat \ {0} /\ Ends(1 + Len(Attr3(v)), z)
           /\ Reached(print_post_op_attr3(Start), 1 + Len(Attr3(v)))
<1> DEFINE attr == Attr3(v)
<1>1. 1 \in Nat \ {0} /\ Ends(1, message) /\ Reached(Start, 1)
  BY TailMessage
<1>2. IsPart(attr) /\ message = attr \o z
  BY Attr3Parts
<1> HIDE DEF attr
<1>3. At(1, attr, TRUE) /\ Ends(1 + Len(attr), z) /\ 1 + Len(attr) \in Nat \ {0}
  BY <1>1, <1>2, TailJoin
<1>4. Reached(print_post_op_attr3(Start), 1 + Len(attr))
  BY <1>1, <1>3, Attr3Reached DEF attr
<1> QED
  BY <1>3, <1>4 DEF attr

LEMMA FirstReached ==
    ASSUME NEW v, IsVariant(v), Context, NEW z, IsPart(z)
    PROVE  /\ message = Attr3(v) \o z =>
                 \E k \in Nat \ {0} : Reached(print_post_op_attr3(Start), k) /\ Ends(k, z)
           /\ message = Hidden(Attr3(v)) \o z =>
                 \E k \in Nat \ {0} : Reached(skip_post_op_attr3(Start), k) /\ Ends(k, z)
           /\ message = Wcc3(v) \o z =>
                 \E k \in Nat \ {0} : Reached(print_wcc_data3(Start), k) /\ Ends(k, z)
<1> DEFINE attr == Attr3(v)
           skip == Hidden(Attr3(v))
           wcc == Wcc3(v)
<1>1. 1 \in Nat \ {0} /\ Ends(1, message) /\ Reached(Start, 1)
  BY TailMessage
<1>2. /\ IsPart(attr) /\ IsPart(skip) /\ Len(skip) = Len(attr) /\ IsPart(wcc)
  BY Attr3Parts, Wcc3Parts
<1>3. ASSUME message = attr \o z
      PROVE  \E k \in Nat \ {0} : Reached(print_post_op_attr3(Start), k) /\ Ends(k, z)
  <2>1. message = Attr3(v) \o z
    BY <1>3
  <2> QED
    BY <2>1, FirstAttr3
<1>4. ASSUME message = skip \o z
      PROVE  \E k \in Nat \ {0} : Reached(skip_post_op_attr3(Start), k) /\ Ends(k, z)
  <2> HIDE DEF attr, skip
  <2>1. At(1, skip, TRUE) /\ Ends(1 + Len(skip), z) /\ 1 + Len(skip) \in Nat \ {0}
    BY <1>1, <1>2, <1>4, TailJoin
  <2>2. Reached(skip_post_op_attr3(Start), 1 + Len(attr))
    BY <1>1, <2>1, Attr3Reached DEF attr, skip
  <2> QED
    BY <1>2, <2>1, <2>2
<1>5. ASSUME message = wcc \o z
      PROVE  \E k \in Nat \ {0} : Reached(print_wcc_data3(Start), k) /\ Ends(k, z)
  <2> HIDE DEF wcc
  <2>1. At(1, wcc, TRUE) /\ Ends(1 + Len(wcc), z) /\ 1 + Len(wcc) \in Nat \ {0}
    BY <1>1, <1>2, <1>5, TailJoin
  <2>2. Reached(print_wcc_data3(Start), 1 + Len(wcc))
    BY <1>1, <2>1, Wcc3Reached DEF wcc
  <2> QED
    BY <2>1, <2>2
<1> QED
  BY <1>3, <1>4, <1>5

\* And what they end with.
LEMMA WordShown ==
    ASSUME NEW w, NEW k \in Nat \ {0}, NEW label, NEW value \in Int, Context, Reached(w, k),
           Ends(k, W(label, value))
    PROVE  Shown(print_uint32(w, label), TRUE)
<1> DEFINE part == W(label, value)
<1>1. Len(part) = 1
  BY WordParts
<1>2. Reached(print_uint32(w, label), k + 1)
  BY WordReached DEF Ends
<1> HIDE DEF part
<1>3. Ends(k, part)
  BY DEF part
<1>4. Reached(print_uint32(w, label), k + Len(part))
  BY <1>1, <1>2
<1> QED
  BY <1>3, <1>4, TailEnd

LEMMA NameShown ==
    ASSUME NEW w, NEW k \in Nat \ {0}, NEW label, NEW size \in Nat, Context, Reached(w, k),
           Ends(k, Counted(label, size))
    PROVE  Shown(print_fn3(w, label), TRUE)
<1> DEFINE m == 1 + Padded(size)
           part == Counted(label, size)
<1>1. Len(part) = m
  BY CountedSize
<1>2. At(k, part, TRUE)
  BY DEF Ends
<1> HIDE DEF m
<1>3. Reached(print_fn3(w, label), k + m)
  BY <1>2, CountedReached DEF m
<1> HIDE DEF part
<1>4. Ends(k, part)
  BY DEF part
<1>5. Reached(print_fn3(w, label), k + Len(part))
  BY <1>1, <1>3
<1> QED
  BY <1>4, <1>5, TailEnd

LEMMA NothingShown ==
    ASSUME NEW w, NEW k \in Nat \ {0}, Context, Reached(w, k), Ends(k, <<>>)
    PROVE  Shown(w, TRUE)
<1> DEFINE part == <<>>
<1>1. IsPart(part) /\ Anonymous(part)
  BY EmptyParts
<1> HIDE DEF part
<1>2. Ends(k, part)
  BY DEF part
<1> QED
  BY <1>1, <1>2, TailShown

LEMMA WordsParts ==
    ASSUME NEW label, NEW value \in Int, NEW label2, NEW value2 \in Int
    PROVE  /\ IsPart(W(label, value) \o W(label2, value2))
           /\ Len(W(label, value) \o W(label2, value2)) = 2
<1> DEFINE a == W(label, value)
           z == W(label2, value2)
<1>1. IsPart(a) /\ Len(a) = 1
  BY WordParts
<1>2. IsPart(z) /\ Len(z) = 1
  BY WordParts
<1> HIDE DEF a, z
<1>3. IsPart(a \o z) /\ Len(a \o z) = Len(a) + Len(z)
  BY <1>1, <1>2, JoinParts
<1>4. IsPart(a \o z) /\ Len(a \o z) = 2
  BY <1>1, <1>2, <1>3
<1> QED
  BY <1>4 DEF a, z

LEMMA CountShown ==
    ASSUME NEW w, NEW k \in Nat \ {0}, NEW label, NEW value \in Int, NEW label2, Context,
           Reached(w, k), Ends(k, (W(label, value) \o W(label2, 0)) \o Rest)
    PROVE  /\ Shown(print_uint32(print_uint32(w, label), label2), TRUE)
           /\ Shown(print_stable3(print_uint32(w, label), label2), TRUE)
<1> DEFINE a == W(label, value)
           z == W(label2, 0)
           w1 == print_uint32(w, label)
<1>1. 0 \in Int
  OBVIOUS
<1>2. IsPart(a) /\ Len(a) = 1 /\ IsPart(z) /\ Len(z) = 1
  BY <1>1, WordParts
<1>3. IsPart(a \o z) /\ Len(a \o z) = 2
  BY <1>1, WordsParts
<1> HIDE DEF a, z
<1>4. Ends(k, (a \o z) \o Rest)
  BY DEF a, z
<1>5. At(k, a \o z, TRUE) /\ Ends(k + Len(a \o z), Rest)
  BY <1>3, <1>4, RestParts, TailJoin
<1>6. At(k, a, TRUE) /\ At(k + 1, z, TRUE)
  BY <1>2, <1>5, FirstJoin
<1>7. Reached(w1, k + 1)
  BY <1>6, WordReached DEF a
<1> HIDE DEF w1
<1>8. k + 1 \in Nat \ {0} /\ k + 2 \in Nat \ {0} /\ (k + 1) + 1 = k + 2 /\ 0 \in Int
  OBVIOUS
<1>9. /\ Reached(print_uint32(w1, label2), (k + 1) + 1)
      /\ Reached(print_stable3(w1, label2), (k + 1) + 1)
  BY <1>6, <1>7, <1>8, WordReached DEF z
<1>10. Ends(k + 2, Rest)
  BY <1>3, <1>5
<1> QED
  BY <1>8, <1>9, <1>10, RestParts, TailShown DEF w1

\* CREATE, MKDIR, SYMLINK and MKNOD.
LEMMA MadeShown ==
    ASSUME NEW v, IsVariant(v), Context,
           message = (IfSet(v.set, Handle3("fh", v)) \o Attr3(v)) \o Rest
    PROVE  Shown(made(Start), TRUE)
<1> DEFINE fh == Handle3("fh", v)
           post == IfSet(v.set, fh)
           attr == Attr3(v)
           w1 == print_post_op_fh3(Start)
           w2 == print_post_op_attr3(w1)
<1>1. IsPart(fh) /\ v.set \in BOOLEAN
  BY CountedSize DEF Handle3, IsVariant
<1>2. IsPart(attr) /\ Len(attr) \in Nat \ {0}
  BY Attr3Parts
<1>3. IsPart(post) /\ Len(post) \in Nat
  <2>1. IsPart(post)
    BY <1>1, IfSetParts
  <2> HIDE DEF post
  <2> QED
    BY <2>1 DEF IsPart
<1>4. message = (post \o attr) \o Rest
  OBVIOUS
<1>5. post = IfSet(v.set, Handle3("fh", v))
  OBVIOUS
<1> HIDE DEF fh, post, attr, w1, w2
<1>6. IsPart(post \o attr) /\ Len(post \o attr) = Len(post) + Len(attr)
  BY <1>2, <1>3, JoinParts
<1>7. 1 \in Nat \ {0} /\ Ends(1, (post \o attr) \o Rest) /\ Reached(Start, 1)
  <2>1. Ends(1, message) /\ Reached(Start, 1)
    BY TailMessage
  <2> DEFINE all == (post \o attr) \o Rest
  <2>2. message = all
    BY <1>4
  <2> HIDE DEF all
  <2>3. Ends(1, all)
    BY <2>1, <2>2
  <2>4. Ends(1, (post \o attr) \o Rest)
    BY <2>3 DEF all
  <2>5. 1 \in Nat \ {0}
    OBVIOUS
  <2> QED
    BY <2>1, <2>4, <2>5
<1>8. At(1, post \o attr, TRUE) /\ Ends(1 + Len(post \o attr), Rest)
  BY <1>6, <1>7, RestParts, TailJoin
<1>9. At(1, post, TRUE)
  BY <1>2, <1>3, <1>7, <1>8, AtJoin
<1>10. At(1 + Len(post), attr, TRUE)
  BY <1>2, <1>3, <1>7, <1>8, AtJoin
<1>11. /\ 1 + Len(post) \in Nat \ {0} /\ 1 + Len(post) <= Len(message)
       /\ (1 + Len(post)) + Len(attr) = 1 + Len(post \o attr)
       /\ 1 + Len(post \o attr) \in Nat \ {0}
  <2>1. (1 + Len(post)) + Len(attr) <= Len(message) + 1 /\ Len(message) \in Nat
    BY <1>10 DEF At, Context, IsPart
  <2> QED
    BY <1>2, <1>3, <1>6, <2>1
<1>12. Reached(w1, 1 + Len(post))
  BY <1>5, <1>7, <1>9, <1>11, PostOpFh3Reached DEF w1
<1>13. Reached(w2, (1 + Len(post)) + Len(attr))
  BY <1>10, <1>11, <1>12, Attr3Reached DEF w2, attr
<1>14. Reached(w2, 1 + Len(post \o attr))
  BY <1>11, <1>13
<1>15. Shown(w2, TRUE)
  BY <1>8, <1>11, <1>14, RestParts, TailShown
<1> QED
  BY <1>15 DEF made, w1, w2

\* MOUNT.
LEMMA MountShown ==
    ASSUME NEW v, IsVariant(v), Context, message = Handle3("fh", v) \o Rest
    PROVE  Shown(print_fh3(Start, "fh"), TRUE)
<1> DEFINE fh == Handle3("fh", v)
           m == 1 + Padded(v.fh)
           w1 == print_fh3(Start, "fh")
<1>1. IsPart(fh) /\ Len(fh) = m /\ Len(fh) \in Nat \ {0} /\ v.fh \in Nat
  BY CountedSize DEF Handle3, IsVariant
<1> HIDE DEF fh, m, w1
<1>2. 1 \in Nat \ {0} /\ Ends(1, fh \o Rest) /\ Reached(Start, 1)
  BY TailMessage DEF fh
<1>3. At(1, fh, TRUE) /\ Ends(1 + Len(fh), Rest) /\ 1 + Len(fh) \in Nat \ {0}
  BY <1>1, <1>2, RestParts, TailJoin
<1>4. 1 + Len(fh) <= Len(message)
  BY <1>1, <1>3, RestParts DEF Ends, Context, IsPart
<1>5. Reached(w1, 1 + Len(fh))
  BY <1>1, <1>2, <1>3, <1>4, CountedReached DEF w1, fh, m, Handle3
<1> QED
  BY <1>3, <1>5, RestParts, TailShown DEF w1

\* READDIR and READDIRPLUS: the entries are the same part several times.
LEMMA CopiesParts ==
    ASSUME NEW m \in Nat, NEW part, IsPart(part), Len(part) # 0
    PROVE  IsPart(Copies(m, part))
<1> DEFINE f == Copies(m, part)
           l == Len(part)
<1>1. l \in Nat \ {0} /\ \A i \in 1..l : part[i] = [name |-> part[i].name, value |-> part[i].value]
                                         /\ part[i].value \in Int
  BY DEF IsPart
<1>2. f = [i \in 1..(m * l) |-> part[((i - 1) % l) + 1]]
  BY DEF Copies
<1> HIDE DEF f, l
<1>3. m * l \in Nat
  BY <1>1
<1>4. \A i \in 1..(m * l) : ((i - 1) % l) + 1 \in 1..l
  BY <1>1, <1>3
<1>5. f \in [1..(m * l) -> {f[i] : i \in 1..(m * l)}]
  BY <1>2
<1>6. Len(f) = m * l
  BY <1>3, <1>5, ASeq
<1>7. \A i \in 1..(m * l) : f[i] = [name |-> f[i].name, value |-> f[i].value] /\ f[i].value \in Int
  BY <1>1, <1>2, <1>4
<1>8. f = [i \in 1..Len(f) |-> f[i]]
  BY <1>2, <1>6
<1> QED
  BY <1>3, <1>6, <1>7, <1>8 DEF IsPart, f

\* Parts that are made of others.
LEMMA Joined == \A a, z : IsPart(a) /\ IsPart(z) => IsPart(a \o z)
  BY JoinParts

LEMMA NoneJoined ==
    ASSUME NEW part, IsPart(part), Anonymous(part)
    PROVE  IsPart(<<>> \o part) /\ Anonymous(<<>> \o part)
<1> DEFINE none == <<>>
           all == none \o part
<1>1. IsPart(none) /\ Len(none) = 0
  BY EmptyParts
<1> HIDE DEF none
<1>2. /\ IsPart(all) /\ Len(all) = 0 + Len(part) /\ Len(part) \in Nat
      /\ \A i \in 1..(0 + Len(part)) : all[i] = IF i <= 0 THEN none[i] ELSE part[i - 0]
  BY <1>1, JoinParts DEF IsPart
<1> HIDE DEF all
<1>3. \A i \in 1..Len(all) : all[i] = part[i] /\ i \in 1..Len(part)
  BY <1>2
<1>4. Anonymous(all)
  BY <1>3 DEF Anonymous
<1> QED
  BY <1>2, <1>4 DEF all, none

LEMMA Worded == \A name : IsPart(W(name, 0)) /\ IsPart(W(name, 1))
<1>1. 0 \in Int /\ 1 \in Int
  OBVIOUS
<1> QED
  BY <1>1, WordParts

LEMMA Flagged == \A set : IsPart(Flag(set))
  BY Worded DEF Flag

LEMMA Repeated == \A name : IsPart(Repeat(name, 1)) /\ IsPart(Repeat(name, 2))
<1>1. 1 \in Nat /\ 2 \in Nat
  OBVIOUS
<1> QED
  BY <1>1, RepeatParts

LEMMA Optional == \A set, part : IsPart(part) => IsPart(IfSet(set, part))
<1> SUFFICES ASSUME NEW set, NEW part, IsPart(part) PROVE IsPart(IfSet(set, part))
  OBVIOUS
<1>1. IsPart(Flag(TRUE)) /\ IsPart(Flag(FALSE))
  BY Flagged
<1>2. IsPart(Flag(TRUE) \o part)
  BY <1>1, Joined
<1> QED
  BY <1>1, <1>2 DEF IfSet

LEMMA HandlesParts ==
    ASSUME NEW v, IsVariant(v)
    PROVE  \A label : IsPart(Handle3(label, v)) /\ IsPart(Name3(label, v))
  BY CountedSize DEF Handle3, Name3, IsVariant

LEMMA Entry3Parts ==
    ASSUME NEW v, IsVariant(v), NEW plus \in BOOLEAN
    PROVE  IsPart(Entry3(v, plus)) /\ Len(Entry3(v, plus)) # 0
<1> DEFINE a == Flag(TRUE)
           fileid == Repeat("fileid", 2)
           name == Name3("name", v)
           cookie == Repeat("cookie", 2)
           skip == Hidden(Attr3(v))
           fh == IfSet(v.pre, Handle3("fh", v))
           more == IF plus THEN skip \o fh ELSE <<>>
           b2 == a \o fileid
           b3 == b2 \o name
           b4 == b3 \o cookie
           all == b4 \o more
<1>1. IsPart(a) /\ IsPart(fileid) /\ IsPart(name) /\ IsPart(cookie) /\ IsPart(skip) /\ IsPart(fh)
  BY Flagged, Repeated, HandlesParts, Attr3Parts, Optional
<1>2. Len(a) = 1
  <2> DEFINE none == ""
  <2>1. a = W(none, 1) /\ 1 \in Int
    BY DEF Flag
  <2> HIDE DEF none, a
  <2>2. Len(W(none, 1)) = 1
    BY <2>1, WordParts
  <2> QED
    BY <2>1, <2>2
<1>3. Entry3(v, plus) = all
  BY DEF Entry3
<1>4. IsPart(more)
  <2>1. IsPart(skip \o fh)
    <3> HIDE DEF skip, fh
    <3> QED
      BY <1>1, Joined
  <2>2. IsPart(<<>>)
    BY EmptyParts
  <2> HIDE DEF skip, fh
  <2> QED
    BY <2>1, <2>2
<1> HIDE DEF a, fileid, name, cookie, more
<1>5. IsPart(b2) /\ Len(b2) = Len(a) + Len(fileid)
  BY <1>1, JoinParts
<1> HIDE DEF b2
<1>6. IsPart(b3) /\ Len(b3) = Len(b2) + Len(name)
  BY <1>1, <1>5, JoinParts
<1> HIDE DEF b3
<1>7. IsPart(b4) /\ Len(b4) = Len(b3) + Len(cookie)
  BY <1>1, <1>6, JoinParts
<1> HIDE DEF b4
<1>8. IsPart(all) /\ Len(all) = Len(b4) + Len(more)
  BY <1>4, <1>7, JoinParts
<1> HIDE DEF all
<1>9. Len(all) # 0
  BY <1>1, <1>2, <1>4, <1>5, <1>6, <1>7, <1>8 DEF IsPart
<1> QED
  BY <1>3, <1>8, <1>9

LEMMA Listing3Parts ==
    ASSUME NEW v, IsVariant(v), NEW plus \in BOOLEAN
    PROVE  /\ IsPart(Listing3(v, plus))
           /\ omitReaddirContents => Anonymous(Listing3(v, plus))
<1> DEFINE bare == Repeat("", 2)
           entries == Copies(v.entries, Entry3(v, plus))
           more == Flag(FALSE)
           eof == W("eof", 0)
           words == (entries \o more) \o eof
<1>1. IsPart(bare) /\ Len(bare) = 2 /\ Anonymous(bare)
  <2>1. 2 \in Nat
    OBVIOUS
  <2> QED
    BY <2>1, BareParts
<1>2. IsPart(entries) /\ IsPart(more) /\ IsPart(eof)
  <2>1. v.entries \in Nat
    BY DEF IsVariant
  <2> QED
    BY <2>1, Entry3Parts, CopiesParts, Flagged, Worded
<1>3. Listing3(v, plus) = bare \o (IF omitReaddirContents THEN Hidden(words) ELSE words)
  BY DEF Listing3, Listed
<1> HIDE DEF bare, entries, more, eof
<1>4. IsPart(words)
  <2>1. IsPart(entries \o more)
    BY <1>2, Joined
  <2> QED
    BY <1>2, <2>1, Joined
<1> HIDE DEF words
<1>5. IsPart(Hidden(words)) /\ Anonymous(Hidden(words))
  BY <1>4, HiddenParts DEF Anonymous
<1>6. IsPart(bare \o words) /\ IsPart(bare \o Hidden(words))
  BY <1>1, <1>4, <1>5, Joined
<1>7. Anonymous(bare \o Hidden(words))
  <2> DEFINE h == Hidden(words)
             all == bare \o h
  <2>1. IsPart(h) /\ Anonymous(h)
    BY <1>5
  <2> HIDE DEF h
  <2>2. /\ Len(all) = Len(bare) + Len(h) /\ Len(h) \in Nat
        /\ \A i \in 1..(Len(bare) + Len(h)) :
              all[i] = IF i <= Len(bare) THEN bare[i] ELSE h[i - Len(bare)]
    BY <1>1, <2>1, JoinParts, ZenonT(40) DEF IsPart
  <2> HIDE DEF all
  <2>3. ASSUME NEW i \in 1..Len(all) PROVE all[i].name = ""
    <3>1. i \in 1..(Len(bare) + Len(h)) /\ (i <= Len(bare) => i \in 1..Len(bare))
          /\ (~ (i <= Len(bare)) => i - Len(bare) \in 1..Len(h))
      BY <1>1, <2>2
    <3> QED
      BY <1>1, <2>1, <2>2, <3>1 DEF Anonymous
  <2>4. Anonymous(all)
    BY <2>3 DEF Anonymous
  <2> QED
    BY <2>4 DEF all, h
<1> QED
  BY <1>3, <1>6, <1>7

LEMMA NamedRight ==
    ASSUME Context
    PROVE  \A y \in Named : y[2] \in 1..Len(message) /\ message[y[2]].name = y[1]
<1>1. DOMAIN message = 1..Len(message)
  BY DEF Context, IsPart
<1> SUFFICES ASSUME NEW y \in Named
             PROVE  y[2] \in 1..Len(message) /\ message[y[2]].name = y[1]
  OBVIOUS
<1>2. PICK i \in 1..Len(message) : y = <<message[i].name, i>>
  BY <1>1 DEF Named
<1> QED
  BY <1>2

\* A listing is printed if all of it was captured.
LEMMA ListingShown ==
    ASSUME NEW w, NEW k \in Nat \ {0}, NEW part, IsPart(part), Context, Reached(w, k), Ends(k, part),
           \A i \in 1..Len(message) : i \in 1..(k - 1) \/ i \in Listing
    PROVE  Shown(xdr_listing(w), TRUE)
<1> DEFINE x == xdr_listing(w)
<1>1. Came(w, k, Len(message)) /\ Said(w, k)
  BY DEF Reached, Walked
<1>2. Len(message) \in Nat /\ actual \in Nat /\ DOMAIN message = 1..Len(message)
  BY DEF Context, IsPart
<1>3. \A y \in w.printed : /\ y[2] \in Nat \ {0} /\ y[2] <= actual + 1
                           /\ message[y[2]].name = y[1]
  <2>1. 1..(k - 1) \subseteq Nat \ {0}
    OBVIOUS
  <2> QED
    BY <1>1, <2>1 DEF Said, SaidRight
<1>4. CASE Len(message) < e
  <2>1. w = [p |-> w.p, printed |-> w.printed, crashed |-> w.crashed]
        /\ w.p = k /\ w.crashed = FALSE
    BY <1>1, <1>2, <1>4 DEF Came, e
  <2>2. x = [p |-> w.p, printed |-> w.printed \cup Named, crashed |-> w.crashed]
    <3>1. DOMAIN w = {"p", "printed", "crashed"}
      BY <2>1
    <3>2. x = [w EXCEPT !.printed = @ \cup Named]
      BY <1>4 DEF xdr_listing
    <3> HIDE DEF x
    <3> QED
      BY <2>1, <3>1, <3>2
  <2>3. \A y \in Named : y[2] \in 1..Len(message) /\ message[y[2]].name = y[1]
    BY NamedRight
  <2> HIDE DEF x
  <2>4. x.p = k /\ x.printed = w.printed \cup Named /\ x.crashed = FALSE
    BY <2>1, <2>2, AWalk
  <2>5. \A y \in x.printed : /\ y[2] \in Nat \ {0} /\ y[2] <= actual + 1
                             /\ message[y[2]].name = y[1]
    BY <1>2, <1>3, <1>4, <2>3, <2>4 DEF e
  <2>6. ASSUME NEW i \in 1..Len(message), message[i].name # ""
        PROVE  <<message[i].name, i>> \in x.printed
    BY <1>2, <2>4, <2>6 DEF Named
  <2> QED
    BY <2>4, <2>5, <2>6 DEF Shown, NULL, x
<1>5. CASE ~ (Len(message) < e)
  <2>1. ~ (Len(message) <= actual)
    BY <1>2, <1>5 DEF e
  <2>2. x = w
    BY <1>5 DEF xdr_listing
  <2> HIDE DEF x
  <2>3. ASSUME x.p # NULL, NEW i \in 1..Len(message), i <= actual + 1, message[i].name # ""
        PROVE  <<message[i].name, i>> \in x.printed \/ i \in Listing
    BY <1>1, <2>2, <2>3 DEF Said, SaidAll
  <2> QED
    BY <1>3, <2>1, <2>2, <2>3 DEF Shown, x
<1> QED
  BY <1>4, <1>5

\* It begins where the attributes end.
LEMMA ListingPlace ==
    ASSUME NEW v, IsVariant(v), NEW z, IsPart(z), Context, message = Attr3(v) \o z,
           kind.ver = 3, ~ kind.call, kind.op \in {"readdir", "readdirp"}
    PROVE  \A i \in 1..Len(message) : i \in 1..((1 + Len(Attr3(v))) - 1) \/ i \in Listing
<1> DEFINE part == Fields(Fattr3)
<1>1. IsPart(part) /\ Len(part) = 21 /\ Len(Fattr3) = 21 /\ v.attr \in BOOLEAN
  BY Fattr3Parts DEF IsVariant, Fattr3
<1>2. Attr3(v) = IfSet(v.attr, part)
  BY DEF Attr3
<1> HIDE DEF part
<1>3. IsPart(Attr3(v)) /\ Len(Attr3(v)) = IF v.attr THEN 22 ELSE 1
  <2>1. /\ IsPart(IfSet(v.attr, part))
        /\ Len(IfSet(v.attr, part)) = IF v.attr THEN 1 + Len(part) ELSE 1
    BY <1>1, IfSetParts
  <2> QED
    BY <1>1, <1>2, <2>1
<1>4. 1 \in Nat \ {0} /\ TRUE \in BOOLEAN
  OBVIOUS
<1>5. At(1, IfSet(v.attr, part), TRUE)
  <2>1. At(1, message, TRUE)
    BY AtMessage
  <2>2. At(1, Attr3(v) \o z, TRUE)
    BY <2>1, Zenon
  <2>3. At(1, Attr3(v), TRUE)
    BY <1>3, <1>4, <2>2, AtJoin
  <2> QED
    BY <1>2, <2>3, Zenon
<1>6. message[1].value = IF v.attr THEN 1 ELSE 0
  BY <1>1, <1>4, <1>5, AtIfSet
<1>7. DOMAIN message = 1..Len(message) /\ Len(message) \in Nat
  BY DEF Context, IsPart
<1>8. \A i : i \in Listing <=> i \in 1..Len(message) /\ i > 1 + 21 * message[1].value
  BY <1>1, <1>7 DEF Listing
<1> SUFFICES ASSUME NEW i \in 1..Len(message)
             PROVE  i \in 1..((1 + Len(Attr3(v))) - 1) \/ i > 1 + 21 * message[1].value
  BY <1>8
<1> DEFINE m == Len(Attr3(v))
           f == message[1].value
<1>9. (m = 22 /\ f = 1) \/ (m = 1 /\ f = 0)
  BY <1>3, <1>6
<1> HIDE DEF m, f
<1>10. i \in 1..((1 + m) - 1) \/ i > 1 + 21 * f
  BY <1>7, <1>9
<1> QED
  BY <1>10 DEF m, f

LEMMA ReadDirShown ==
    ASSUME NEW v, IsVariant(v), Context, NEW plus \in BOOLEAN, NEW ok \in BOOLEAN,
           message = Attr3(v) \o (IF ok THEN Listing3(v, plus) ELSE <<>>), NEW w,
           w = print_post_op_attr3(Start),
           kind.ver = 3, ~ kind.call, kind.op \in {"readdir", "readdirp"}
    PROVE  Shown(IF ok /\ ~ omitReaddirContents THEN xdr_listing(w) ELSE w, TRUE)
<1> DEFINE z == IF ok THEN Listing3(v, plus) ELSE <<>>
<1>1. IsPart(z) /\ (omitReaddirContents \/ ~ ok => Anonymous(z))
  <2>1. IsPart(Listing3(v, plus)) /\ (omitReaddirContents => Anonymous(Listing3(v, plus)))
    BY Listing3Parts
  <2>2. IsPart(<<>>) /\ Anonymous(<<>>)
    BY EmptyParts
  <2> QED
    BY <2>1, <2>2
<1> HIDE DEF z
<1>2. message = Attr3(v) \o z
  BY DEF z
<1> DEFINE k == 1 + Len(Attr3(v))
<1>3. k \in Nat \ {0} /\ Reached(w, k) /\ Ends(k, z)
  BY <1>1, <1>2, FirstAttr3
<1>4. \A i \in 1..Len(message) : i \in 1..(k - 1) \/ i \in Listing
  BY <1>1, <1>2, ListingPlace
<1> HIDE DEF k
<1>5. CASE ok /\ ~ omitReaddirContents
  <2>1. Shown(xdr_listing(w), TRUE)
    BY <1>1, <1>3, <1>4, ListingShown
  <2> QED
    BY <1>5, <2>1
<1>6. CASE ~ (ok /\ ~ omitReaddirContents)
  <2>1. Shown(w, TRUE)
    BY <1>1, <1>3, <1>6, TailShown
  <2> QED
    BY <1>6, <2>1
<1> QED
  BY <1>5, <1>6

\* Every reply of version 3.
LEMMA Resp3Shown ==
    ASSUME NEW v, IsVariant(v), Context, NEW op \in Ops3, NEW ok \in BOOLEAN,
           message = Res3(op, ok, v), kind.ver = 3, ~ kind.call, kind.op = op
    PROVE  Shown(print_resp3(op, ok), TRUE)
<1> DEFINE x == print_resp3(op, ok)
<1>1. CASE op = "getattr" /\ ok
  <2>1. message = Fields(Fattr3) /\ x = print_fattr3(Start)
    BY <1>1 DEF Res3, print_resp3, Made3, Wcc3Only, Ignored3
  <2> HIDE DEF x
  <2>2. 1 \in Nat \ {0} /\ Ends(1, message) /\ Reached(Start, 1)
    BY TailMessage
  <2>3. Ends(1, Fields(Fattr3))
    BY <2>1, <2>2
  <2>4. Reached(x, 1 + 21)
    BY <2>1, <2>2, <2>3, Fattr3Reached DEF Ends
  <2>5. Reached(x, 1 + Len(Fields(Fattr3)))
    BY <2>4, Fattr3Parts
  <2> QED
    BY <2>2, <2>3, <2>5, TailEnd DEF x
<1>2. CASE (op = "setattr" /\ ok) \/ op \in Wcc3Only
  <2>1. message = Wcc3(v) /\ x = print_wcc_data3(Start)
    BY <1>2 DEF Res3, print_resp3, Made3, Wcc3Only, Ignored3
  <2> HIDE DEF x
  <2>2. 1 \in Nat \ {0} /\ Ends(1, message) /\ Reached(Start, 1)
    BY TailMessage
  <2>3. Ends(1, Wcc3(v))
    BY <2>1, <2>2
  <2>4. Reached(x, 1 + Len(Wcc3(v)))
    BY <2>1, <2>2, <2>3, Wcc3Reached DEF Ends
  <2> QED
    BY <2>2, <2>3, <2>4, TailEnd DEF x
<1>3. CASE op = "setattr" /\ ~ ok
  <2>1. message = Hidden(Wcc3(v)) /\ x = Start
    BY <1>3 DEF Res3, print_resp3, Made3, Wcc3Only, Ignored3
  <2> HIDE DEF x
  <2> QED
    BY <2>1, Wcc3Parts, StartShown DEF x
<1>4. CASE op = "lookup" /\ ok
  <2>1. message = (Handle3("fh", v) \o Attr3(v)) \o Hidden(Attr3(v))
        /\ x = skip_post_op_attr3(print_post_op_attr3(print_fh3(Start, "fh")))
    BY <1>4 DEF Res3, print_resp3, Made3, Wcc3Only, Ignored3
  <2> HIDE DEF x
  <2> QED
    BY <2>1, Lookup3Shown DEF x
<1>5. CASE op = "access"
  <2> DEFINE z == IF ok THEN W("acc", 0) ELSE <<>>
             w == skip_post_op_attr3(Start)
  <2>1. message = Hidden(Attr3(v)) \o z /\ x = IF ok THEN print_uint32(w, "acc") ELSE w
    BY <1>5 DEF Res3, print_resp3, Made3, Wcc3Only, Ignored3
  <2>2. IsPart(z)
    BY Worded, EmptyParts
  <2> HIDE DEF x, w, z
  <2>3. PICK k \in Nat \ {0} : Reached(w, k) /\ Ends(k, z)
    BY <2>1, <2>2, FirstReached DEF w
  <2>4. CASE ok
    <3>1. z = W("acc", 0) /\ x = print_uint32(w, "acc") /\ 0 \in Int
      BY <2>1, <2>4 DEF z
    <3> QED
      BY <2>3, <3>1, WordShown DEF x
  <2>5. CASE ~ ok
    BY <2>1, <2>3, <2>5, NothingShown DEF x, z
  <2> QED
    BY <2>4, <2>5
<1>6. CASE op = "readlink"
  <2> DEFINE z == IF ok THEN Name3("name", v) ELSE <<>>
             w == skip_post_op_attr3(Start)
  <2>1. message = Hidden(Attr3(v)) \o z /\ x = IF ok THEN print_fn3(w, "name") ELSE w
    BY <1>6 DEF Res3, print_resp3, Made3, Wcc3Only, Ignored3
  <2>2. IsPart(z)
    BY HandlesParts, EmptyParts
  <2> HIDE DEF x, w, z
  <2>3. PICK k \in Nat \ {0} : Reached(w, k) /\ Ends(k, z)
    BY <2>1, <2>2, FirstReached DEF w
  <2>4. CASE ok
    <3>1. z = Counted("name", v.name) /\ x = print_fn3(w, "name") /\ v.name \in Nat
      BY <2>1, <2>4 DEF z, Name3, IsVariant
    <3> QED
      BY <2>3, <3>1, NameShown DEF x
  <2>5. CASE ~ ok
    BY <2>1, <2>3, <2>5, NothingShown DEF x, z
  <2> QED
    BY <2>4, <2>5
<1>7. CASE op = "read"
  <2> DEFINE z == IF ok THEN (W("count", v.count) \o W("eof", 0)) \o Rest ELSE <<>>
             w == print_post_op_attr3(Start)
  <2>1. message = Attr3(v) \o z
        /\ x = IF ok THEN print_uint32(print_uint32(w, "count"), "eof") ELSE w
    BY <1>7 DEF Res3, print_resp3, Made3, Wcc3Only, Ignored3
  <2>2. v.count \in Int /\ IsPart(z)
    <3>1. v.count \in Int /\ 0 \in Int
      BY DEF IsVariant
    <3> QED
      BY <3>1, WordsParts, RestParts, Joined, EmptyParts
  <2> HIDE DEF x, w, z
  <2>3. PICK k \in Nat \ {0} : Reached(w, k) /\ Ends(k, z)
    BY <2>1, <2>2, FirstReached DEF w
  <2>4. CASE ok
    BY <2>1, <2>2, <2>3, <2>4, CountShown DEF x, z
  <2>5. CASE ~ ok
    BY <2>1, <2>3, <2>5, NothingShown DEF x, z
  <2> QED
    BY <2>4, <2>5
<1>8. CASE op = "write"
  <2> DEFINE z == IF ok THEN (W("count", v.count) \o W("stable", 0)) \o Rest ELSE <<>>
             w == print_wcc_data3(Start)
  <2>1. message = Wcc3(v) \o z
        /\ x = IF ok THEN print_stable3(print_uint32(w, "count"), "stable") ELSE w
    BY <1>8 DEF Res3, print_resp3, Made3, Wcc3Only, Ignored3
  <2>2. v.count \in Int /\ IsPart(z)
    <3>1. v.count \in Int /\ 0 \in Int
      BY DEF IsVariant
    <3> QED
      BY <3>1, WordsParts, RestParts, Joined, EmptyParts
  <2> HIDE DEF x, w, z
  <2>3. PICK k \in Nat \ {0} : Reached(w, k) /\ Ends(k, z)
    BY <2>1, <2>2, FirstReached DEF w
  <2>4. CASE ok
    BY <2>1, <2>2, <2>3, <2>4, CountShown DEF x, z
  <2>5. CASE ~ ok
    BY <2>1, <2>3, <2>5, NothingShown DEF x, z
  <2> QED
    BY <2>4, <2>5
<1>9. CASE op \in Made3 /\ ok
  <2>1. message = (IfSet(v.set, Handle3("fh", v)) \o Attr3(v)) \o Rest /\ x = made(Start)
    BY <1>9 DEF Res3, print_resp3, Made3, Wcc3Only, Ignored3
  <2> HIDE DEF x
  <2> QED
    BY <2>1, MadeShown DEF x
<1>10. CASE (op \in Made3 /\ ~ ok) \/ op \in Ignored3
  <2>1. message = Rest /\ x = Start
    BY <1>10 DEF Res3, print_resp3, Made3, Wcc3Only, Ignored3
  <2> HIDE DEF x
  <2> QED
    BY <2>1, RestParts, StartShown DEF x
<1>11. CASE op = "readdir" \/ op = "readdirp"
  <2> DEFINE w == print_post_op_attr3(Start)
             plus == op = "readdirp"
  <2>1. message = Attr3(v) \o (IF ok THEN Listing3(v, plus) ELSE <<>>)
        /\ x = IF ok /\ ~ omitReaddirContents THEN xdr_listing(w) ELSE w
    <3>1. CASE op = "readdir"
      <4>1. plus = FALSE
        BY <3>1
      <4> HIDE DEF plus
      <4> QED
        BY <3>1, <4>1 DEF Res3, print_resp3, Made3, Wcc3Only, Ignored3
    <3>2. CASE op = "readdirp"
      <4>1. plus = TRUE
        BY <3>2
      <4> HIDE DEF plus
      <4> QED
        BY <3>2, <4>1 DEF Res3, print_resp3, Made3, Wcc3Only, Ignored3
    <3> QED
      BY <1>11, <3>1, <3>2
  <2>2. plus \in BOOLEAN
    OBVIOUS
  <2>3. kind.op \in {"readdir", "readdirp"}
    BY <1>11
  <2> HIDE DEF x, plus
  <2> QED
    BY <2>1, <2>2, <2>3, ReadDirShown DEF x
<1>12. CASE op = "mnt" /\ ok
  <2>1. message = Handle3("fh", v) \o Rest /\ x = print_fh3(Start, "fh")
    BY <1>12 DEF Res3, print_resp3, Made3, Wcc3Only, Ignored3
  <2> HIDE DEF x
  <2> QED
    BY <2>1, MountShown DEF x
<1>13. CASE op = "lookup" /\ ~ ok
  <2> DEFINE skip == Hidden(Attr3(v))
             z == <<>> \o skip
  <2>1. message = z /\ x = Start
    BY <1>13 DEF Res3, print_resp3, Made3, Wcc3Only, Ignored3
  <2>2. IsPart(skip) /\ Anonymous(skip)
    BY Attr3Parts, HiddenParts DEF Anonymous
  <2> HIDE DEF x, skip
  <2>3. IsPart(z) /\ Anonymous(z)
    BY <2>2, NoneJoined
  <2> HIDE DEF z
  <2> QED
    BY <2>1, <2>3, StartShown DEF x
<1>14. CASE op \in {"null", "unknown"} \/ (op \in {"getattr", "mnt"} /\ ~ ok)
  <2>1. message = <<>> /\ x = Start
    BY <1>14 DEF Res3, print_resp3, Made3, Wcc3Only, Ignored3
  <2> HIDE DEF x
  <2> QED
    BY <2>1, EmptyShown DEF x
<1> QED
  BY <1>1, <1>2, <1>3, <1>4, <1>5, <1>6, <1>7, <1>8, <1>9, <1>10, <1>11, <1>12, <1>13, <1>14
     DEF Ops3, Fh3, Dir3, Made3, Wcc3Only, Ignored3

-----------------------------------------------------------------------------
\* Calls of version 3.

LEMMA ArgsShown ==
    ASSUME Context
    PROVE  Shown(xdr_args, TRUE)
<1> DEFINE x == xdr_args
           no == FALSE
           s == Start
<1>1. Len(message) \in Nat /\ actual \in Nat
  BY DEF Context, IsPart
<1>2. s = [p |-> 1, printed |-> {}, crashed |-> no]
  BY DEF Start
<1> HIDE DEF no, s
<1>3. s = [p |-> s.p, printed |-> s.printed, crashed |-> s.crashed]
      /\ s.p = 1 /\ s.printed = {} /\ s.crashed = no
  BY <1>2, AWalk
<1>4. CASE Len(message) <= actual
  <2>1. x = [s EXCEPT !.p = Len(message) + 1, !.printed = Named]
    BY <1>4 DEF xdr_args, s
  <2> HIDE DEF x
  <2>2. DOMAIN s = {"p", "printed", "crashed"}
    BY <1>3
  <2>3. x = [p |-> Len(message) + 1, printed |-> Named, crashed |-> no]
    BY <1>3, <2>1, <2>2
  <2>4. x.p = Len(message) + 1 /\ x.printed = Named /\ x.crashed = no
    BY <2>3, AWalk
  <2>5. \A y \in Named : y[2] \in 1..Len(message) /\ message[y[2]].name = y[1]
    BY NamedRight
  <2>6. \A y \in x.printed : /\ y[2] \in Nat \ {0} /\ y[2] <= actual + 1
                             /\ message[y[2]].name = y[1]
    BY <1>1, <1>4, <2>4, <2>5
  <2>7. x.p # NULL /\ x.crashed = FALSE /\ Named \subseteq x.printed
    BY <1>1, <2>4 DEF NULL, no
  <2>8. ASSUME NEW i \in 1..Len(message), message[i].name # ""
        PROVE  <<message[i].name, i>> \in x.printed
    <3>1. DOMAIN message = 1..Len(message)
      BY DEF Context, IsPart
    <3> QED
      BY <2>4, <2>8, <3>1 DEF Named
  <2> QED
    BY <2>6, <2>7, <2>8 DEF Shown, x
<1>5. CASE ~ (Len(message) <= actual)
  <2>1. x = Fail(s)
    BY <1>5 DEF xdr_args, s
  <2> HIDE DEF x
  <2>2. x.p = NULL /\ x.printed = {}
    BY <1>3, <2>1, FailAny DEF AnyWalk
  <2> QED
    BY <1>5, <2>2 DEF Shown, x
<1> QED
  BY <1>4, <1>5

\* WRITE: a walk that is at word k, or cannot go on because that was not captured.
Stepped(w, k) ==
    /\ AnyWalk(w) /\ w.crashed = FALSE /\ 1 <= w.p /\ w.p <= actual + 1
    /\ w.p = k \/ (w.p = actual + 1 /\ actual + 1 < k)
    /\ \A x \in w.printed : /\ x[2] \in 1..(k - 1) /\ x[2] <= actual
                            /\ message[x[2]].name = x[1]
    /\ k <= actual + 1 => \A i \in 1..(k - 1) :
                              message[i].name # "" => <<message[i].name, i>> \in w.printed

\* Wherever it is: after a handle that was cut.
Bounded(w) ==
    /\ AnyWalk(w) /\ w.crashed = FALSE /\ 1 <= w.p /\ w.p <= actual + 1
    /\ \A x \in w.printed : x[2] \in 1..actual

LEMMA PutAny ==
    ASSUME NEW w, AnyWalk(w), NEW label, NEW m \in Nat
    PROVE  /\ AnyWalk(Put(w, label, m)) /\ Put(w, label, m).p = w.p + m
           /\ Put(w, label, m).printed = w.printed \cup {<<label, i>> : i \in w.p..(w.p + m - 1)}
           /\ Put(w, label, m).crashed = w.crashed
<1> DEFINE x == Put(w, label, m)
           more == {<<label, i>> : i \in w.p..(w.p + m - 1)}
<1>1. x = [p |-> w.p + m, printed |-> w.printed \cup more, crashed |-> w.crashed]
  BY PutFields DEF AnyWalk
<1>2. w.p + m \in Nat
  BY DEF AnyWalk
<1> HIDE DEF x, more
<1>3. /\ AnyWalk(x) /\ x.p = w.p + m /\ x.printed = w.printed \cup more
      /\ x.crashed = w.crashed
  BY <1>1, <1>2, AWalk DEF AnyWalk
<1> QED
  BY <1>3 DEF x, more

LEMMA MoveCrashed ==
    ASSUME NEW w, AnyWalk(w), NEW m \in Nat
    PROVE  Move(w, m).crashed = w.crashed
<1> DEFINE x == Move(w, m)
<1>1. x = [p |-> w.p + m, printed |-> w.printed, crashed |-> w.crashed]
  BY MoveFields DEF AnyWalk
<1> HIDE DEF x
<1> QED
  BY <1>1, AWalk DEF x

LEMMA XdrBounded ==
    ASSUME NEW w, Bounded(w), NEW label, NEW m \in Nat, actual \in Nat
    PROVE  Bounded(Xdr(w, label, m)) /\ (w.p + m <= e => Bounded(Put(w, label, m)))
<1>1. ASSUME w.p + m <= e PROVE Bounded(Put(w, label, m))
  <2> DEFINE x == Put(w, label, m)
             more == {<<label, i>> : i \in w.p..(w.p + m - 1)}
  <2>1. /\ AnyWalk(x) /\ x.p = w.p + m /\ x.printed = w.printed \cup more
        /\ x.crashed = w.crashed
    BY PutAny DEF Bounded
  <2>2. /\ w.p \in Nat /\ 1 <= w.p /\ w.p + m <= actual + 1 /\ w.crashed = FALSE
        /\ \A y \in w.printed : y[2] \in 1..actual
    BY <1>1 DEF Bounded, AnyWalk, e
  <2>3. \A y \in more : y[2] \in 1..actual
    <3> SUFFICES ASSUME NEW i \in w.p..(w.p + m - 1) PROVE i \in 1..actual
      OBVIOUS
    <3> QED
      BY <2>2
  <2> HIDE DEF x, more
  <2> QED
    BY <2>1, <2>2, <2>3 DEF Bounded, x
<1> QED
  BY <1>1 DEF Xdr

LEMMA MoveBounded ==
    ASSUME NEW w, Bounded(w), NEW m \in Nat, actual \in Nat, w.p + m <= e
    PROVE  Bounded(Move(w, m))
<1> DEFINE x == Move(w, m)
<1>1. /\ AnyWalk(x) /\ x.p = w.p + m /\ x.printed = w.printed /\ x.crashed = w.crashed
  BY MoveAny, MoveCrashed DEF Bounded
<1> HIDE DEF x
<1>2. w.p \in Nat
  BY DEF Bounded, AnyWalk
<1> QED
  BY <1>1, <1>2 DEF Bounded, e, x

\* Some words under one label: all of them, or nothing.
LEMMA XdrStepped ==
    ASSUME NEW w, NEW k \in Nat \ {0}, Stepped(w, k), NEW label, NEW m \in Nat, Context,
           \A i \in k..(k + m - 1) : message[i].name = label,
           k + m <= actual + 1 \/ m = 1
    PROVE  Stepped(Xdr(w, label, m), k + m)
<1> DEFINE x == Xdr(w, label, m)
           more == {<<label, i>> : i \in k..(k + m - 1)}
<1>1. /\ AnyWalk(w) /\ w.p \in Nat /\ actual \in Nat /\ 1 <= w.p /\ w.p <= actual + 1
      /\ w.p = k \/ (w.p = actual + 1 /\ actual + 1 < k)
      /\ w.crashed = FALSE
  BY DEF Stepped, AnyWalk, Context
<1>2. CASE w.p + m <= actual + 1 /\ w.p = k
  <2>1. x = Put(w, label, m)
    BY <1>2 DEF Xdr, e
  <2> HIDE DEF x
  <2>2. /\ AnyWalk(x) /\ x.p = k + m /\ x.printed = w.printed \cup more
        /\ x.crashed = w.crashed
    BY <1>1, <1>2, <2>1, PutAny
  <2>3. \A y \in more : /\ y[2] \in k..(k + m - 1) /\ message[y[2]].name = y[1]
    OBVIOUS
  <2> HIDE DEF more
  <2>4. \A y \in more : y[2] \in 1..((k + m) - 1) /\ y[2] <= actual
    BY <1>1, <1>2, <2>3
  <2>5. \A y \in w.printed : y[2] \in 1..((k + m) - 1) /\ y[2] <= actual
                             /\ message[y[2]].name = y[1]
    BY Ranges DEF Stepped
  <2>6. ASSUME NEW i \in 1..((k + m) - 1), message[i].name # ""
        PROVE  <<message[i].name, i>> \in x.printed
    <3>1. CASE i \in 1..(k - 1)
      BY <1>1, <1>2, <2>2, <2>6, <3>1 DEF Stepped
    <3>2. CASE ~ (i \in 1..(k - 1))
      <4>1. i \in k..(k + m - 1)
        BY <3>2, Ranges
      <4>2. message[i].name = label
        BY <4>1
      <4> QED
        BY <2>2, <4>1, <4>2 DEF more
    <3> QED
      BY <3>1, <3>2
  <2>7. 1 <= k + m /\ k + m <= actual + 1
    BY <1>2
  <2> QED
    BY <1>1, <2>2, <2>3, <2>4, <2>5, <2>6, <2>7 DEF Stepped, x
<1>3. CASE ~ (w.p + m <= actual + 1 /\ w.p = k)
  <2>1. w.p = actual + 1 /\ actual + 1 < k + m
    BY <1>1, <1>3
  <2>2. m # 0 => x = w
    BY <1>1, <2>1 DEF Xdr, e
  <2>3. x = w
    BY <1>1, <1>3, <2>1, <2>2
  <2> HIDE DEF x
  <2>4. \A y \in w.printed : y[2] \in 1..((k + m) - 1) /\ y[2] <= actual
                             /\ message[y[2]].name = y[1]
    BY Ranges DEF Stepped
  <2>5. /\ ~ (k + m <= actual + 1)
        /\ w.p = k + m \/ (w.p = actual + 1 /\ actual + 1 < k + m)
    BY <1>1, <2>1
  <2>6. Stepped(w, k + m)
    BY <1>1, <2>4, <2>5 DEF Stepped
  <2> QED
    BY <2>3, <2>6 DEF x
<1> QED
  BY <1>2, <1>3

\* Five parts in a row.
LEMMA FiveParts ==
    ASSUME NEW a1, NEW a2, NEW a3, NEW a4, NEW a5, Context,
           IsPart(a1), IsPart(a2), IsPart(a3), IsPart(a4), IsPart(a5),
           message = (((a1 \o a2) \o a3) \o a4) \o a5
    PROVE  /\ At(1, a1, TRUE) /\ At(1 + Len(a1), a2, TRUE) /\ At((1 + Len(a1)) + Len(a2), a3, TRUE)
           /\ At(((1 + Len(a1)) + Len(a2)) + Len(a3), a4, TRUE)
           /\ At((((1 + Len(a1)) + Len(a2)) + Len(a3)) + Len(a4), a5, TRUE)
           /\ Len(message) = (((Len(a1) + Len(a2)) + Len(a3)) + Len(a4)) + Len(a5)
<1> DEFINE b2 == a1 \o a2
           b3 == b2 \o a3
           b4 == b3 \o a4
<1>1. Len(a1) \in Nat /\ Len(a2) \in Nat /\ Len(a3) \in Nat /\ Len(a4) \in Nat /\ Len(a5) \in Nat
  BY DEF IsPart
<1>2. IsPart(b2) /\ Len(b2) = Len(a1) + Len(a2)
  BY JoinParts
<1> HIDE DEF b2
<1>3. IsPart(b3) /\ Len(b3) = (Len(a1) + Len(a2)) + Len(a3)
  BY <1>2, JoinParts
<1> HIDE DEF b3
<1>4. IsPart(b4) /\ Len(b4) = ((Len(a1) + Len(a2)) + Len(a3)) + Len(a4)
  BY <1>3, JoinParts
<1> HIDE DEF b4
<1>5. message = b4 \o a5 /\ b4 = b3 \o a4 /\ b3 = b2 \o a3 /\ b2 = a1 \o a2
  BY DEF b2, b3, b4
<1>6. Len(b4 \o a5) = Len(b4) + Len(a5)
  BY <1>4, JoinParts
<1>7. At(1, message, TRUE) /\ Len(message) \in Nat
  BY AtMessage
<1>8. 1 \in Nat \ {0}
  OBVIOUS
<1> DEFINE k == 1
<1> HIDE DEF k
<1>9. k \in Nat \ {0} /\ At(k, b4 \o a5, TRUE)
  BY <1>5, <1>8, <1>7 DEF k
<1>10. At(k, b4, TRUE) /\ At(k + Len(b4), a5, TRUE)
  BY <1>4, <1>9, AtJoin
<1>11. At(k, b3, TRUE) /\ At(k + Len(b3), a4, TRUE)
  BY <1>3, <1>5, <1>9, <1>10, AtJoin
<1>12. At(k, b2, TRUE) /\ At(k + Len(b2), a3, TRUE)
  BY <1>2, <1>5, <1>9, <1>11, AtJoin
<1>13. At(k, a1, TRUE) /\ At(k + Len(a1), a2, TRUE)
  BY <1>5, <1>9, <1>12, AtJoin
<1>14. /\ k + Len(b4) = (((1 + Len(a1)) + Len(a2)) + Len(a3)) + Len(a4)
       /\ k + Len(b3) = ((1 + Len(a1)) + Len(a2)) + Len(a3)
       /\ k + Len(b2) = (1 + Len(a1)) + Len(a2) /\ k + Len(a1) = 1 + Len(a1)
  BY <1>1, <1>2, <1>3, <1>4 DEF k
<1> QED
  BY <1>4, <1>5, <1>6, <1>10, <1>11, <1>12, <1>13, <1>14 DEF k

\* Where the fields of the arguments of WRITE stand, q being the first word of the offset.
Write3At(q, v) ==
    /\ q \in Nat /\ q = 2 + Padded(v.fh) /\ Padded(v.fh) \in Nat /\ Len(message) = q + 4
    /\ message[1].value = v.fh /\ message[1].name = ""
    /\ \A i \in 2..(2 + Padded(v.fh) - 1) : message[i].name = "fh"
    /\ \A i \in q..(q + 2 - 1) : message[i].name = "off"
    /\ \A i \in (q + 2)..((q + 2) + 1 - 1) : message[i].name = "count"
    /\ message[q + 2].value = v.count
    /\ \A i \in (q + 3)..((q + 3) + 1 - 1) : message[i].name = "stable"
    /\ message[q + 4].name = ""

LEMMA Write3Names ==
    ASSUME NEW v, NEW q, Write3At(q, v)
    PROVE  \A i \in 1..(q + 2) : message[i].name # "stable"
<1>1. q \in Nat /\ q = 2 + Padded(v.fh) /\ Padded(v.fh) \in Nat
  BY DEF Write3At
<1> SUFFICES ASSUME NEW i \in 1..(q + 2)
             PROVE  message[i].name # "stable"
  OBVIOUS
<1>2. \/ i = 1 \/ i \in 2..(2 + Padded(v.fh) - 1) \/ i \in q..(q + 2 - 1)
      \/ i \in (q + 2)..((q + 2) + 1 - 1)
  BY <1>1
<1>3. message[i].name \in {"", "fh", "off", "count"}
  BY <1>2 DEF Write3At
<1> QED
  BY <1>3

LEMMA Write3Parts ==
    ASSUME NEW v, IsVariant(v), Context, message = Args3("write", v)
    PROVE  \E q : Write3At(q, v)
<1> DEFINE size == Padded(v.fh)
           q == 2 + size
           hd == Counted("fh", v.fh)
           off == Repeat("off", 2)
           count == W("count", v.count)
           stable == W("stable", 0)
<1>1. v.fh \in Nat /\ v.count \in Int /\ size \in Nat /\ 0 \in Int
  BY PaddedNat DEF IsVariant
<1>2. message = ((((hd \o off) \o count) \o stable) \o Rest)
  BY DEF Args3, Handle3, Fh3, Dir3
<1>3. IsPart(hd) /\ Len(hd) = 1 + size
  BY <1>1, CountedSize
<1>4. IsPart(off) /\ Len(off) = 2
  BY RepeatParts
<1>5. IsPart(count) /\ Len(count) = 1 /\ IsPart(stable) /\ Len(stable) = 1
  BY <1>1, WordParts
<1>6. IsPart(Rest) /\ Len(Rest) = 1
  BY RestParts
<1> HIDE DEF hd, off, count, stable, size
<1> DEFINE m1 == 1 + size
<1>7. m1 \in Nat /\ 1 \in Nat /\ 2 \in Nat
  BY <1>1
<1>8. IsPart(hd) /\ Len(hd) = m1
  BY <1>3
<1> HIDE DEF m1
<1>9. /\ At(1, hd, TRUE) /\ At(1 + Len(hd), off, TRUE) /\ At((1 + Len(hd)) + Len(off), count, TRUE)
      /\ At(((1 + Len(hd)) + Len(off)) + Len(count), stable, TRUE)
      /\ At((((1 + Len(hd)) + Len(off)) + Len(count)) + Len(stable), Rest, TRUE)
      /\ Len(message) = (((Len(hd) + Len(off)) + Len(count)) + Len(stable)) + Len(Rest)
  <2>1. /\ IsPart(hd) /\ IsPart(off) /\ IsPart(count) /\ IsPart(stable) /\ IsPart(Rest)
        /\ message = ((((hd \o off) \o count) \o stable) \o Rest)
    BY <1>2, <1>4, <1>5, <1>6, <1>8
  <2>2. At(1, hd, TRUE)
    BY <2>1, FiveParts
  <2>3. At(1 + Len(hd), off, TRUE)
    BY <2>1, FiveParts
  <2>4. At((1 + Len(hd)) + Len(off), count, TRUE)
    BY <2>1, FiveParts
  <2>5. At(((1 + Len(hd)) + Len(off)) + Len(count), stable, TRUE)
    BY <2>1, FiveParts
  <2>6. At((((1 + Len(hd)) + Len(off)) + Len(count)) + Len(stable), Rest, TRUE)
    BY <2>1, FiveParts, ZenonT(40)
  <2>7. Len(message) = (((Len(hd) + Len(off)) + Len(count)) + Len(stable)) + Len(Rest)
    BY <2>1, FiveParts
  <2> QED
    BY <2>2, <2>3, <2>4, <2>5, <2>6, <2>7
<1>10. /\ At(1, hd, TRUE) /\ At(1 + m1, off, TRUE) /\ At((1 + m1) + 2, count, TRUE)
      /\ At(((1 + m1) + 2) + 1, stable, TRUE)
      /\ At((((1 + m1) + 2) + 1) + 1, Rest, TRUE)
      /\ Len(message) = (((m1 + 2) + 1) + 1) + 1
  BY <1>4, <1>5, <1>6, <1>8, <1>9
<1>11. /\ 1 + m1 = q /\ (1 + m1) + 2 = q + 2 /\ ((1 + m1) + 2) + 1 = q + 3
      /\ (((1 + m1) + 2) + 1) + 1 = q + 4 /\ (((m1 + 2) + 1) + 1) + 1 = q + 4
      /\ q \in Nat \ {0} /\ q + 2 \in Nat \ {0} /\ q + 3 \in Nat \ {0} /\ q + 4 \in Nat \ {0}
      /\ 1 \in Nat \ {0}
  BY <1>1 DEF m1
<1>12. q = 2 + size
  OBVIOUS
<1> HIDE DEF q
<1>13. /\ At(q, off, TRUE) /\ At(q + 2, count, TRUE) /\ At(q + 3, stable, TRUE)
       /\ At(q + 4, Rest, TRUE) /\ Len(message) = q + 4
  BY <1>10, <1>11
<1> DEFINE k == 1
<1> HIDE DEF k
<1>14. At(k, Counted("fh", v.fh), TRUE)
  BY <1>10 DEF hd, k
<1>15. k \in Nat \ {0}
  BY DEF k
<1>16. /\ message[k].value = v.fh /\ Nameless(k, 1)
       /\ \A i \in (k + 1)..((k + 1) + Padded(v.fh) - 1) : message[i].name = "fh"
  BY <1>1, <1>14, <1>15, AtCounted, ZenonT(40)
<1>17. \A i \in q..(q + 2 - 1) : message[i].name = "off"
  BY <1>7, <1>11, <1>13, AtRepeat DEF off
<1> DEFINE q2 == q + 2
           q3 == q + 3
           q4 == q + 4
<1>18. At(q2, count, TRUE) /\ At(q3, stable, TRUE) /\ At(q4, Rest, TRUE)
       /\ q2 \in Nat \ {0} /\ q3 \in Nat \ {0} /\ q4 \in Nat \ {0}
  BY <1>11, <1>13
<1> HIDE DEF q2, q3, q4
<1>19. message[q2].name = "count" /\ message[q2].value = v.count
  BY <1>1, <1>18, AtWord DEF count
<1>20. message[q3].name = "stable"
  BY <1>1, <1>18, AtWord DEF stable
<1>21. \A i \in q4..(q4 + 1 - 1) : message[i].name = ""
  BY <1>7, <1>18, AtRepeat DEF Rest
<1>22. q4 \in q4..(q4 + 1 - 1) /\ 1 \in 1..(1 + 1 - 1)
  BY <1>18
<1>23. message[q4].name = ""
  BY <1>21, <1>22
<1>24. message[1].name = ""
  BY <1>16, <1>22 DEF Nameless, k
<1>25. /\ \A i \in q2..(q2 + 1 - 1) : i = q2
       /\ \A i \in q3..(q3 + 1 - 1) : i = q3
  BY <1>18
<1>26. k + 1 = 2 /\ k = 1
  BY DEF k
<1>27. \A i \in 2..(2 + size - 1) : message[i].name = "fh"
  BY <1>16, <1>26 DEF size
<1>28. /\ \A i \in q2..(q2 + 1 - 1) : message[i].name = "count"
       /\ \A i \in q3..(q3 + 1 - 1) : message[i].name = "stable"
  BY <1>19, <1>20, <1>25
<1>29. Write3At(q, v)
  BY <1>1, <1>11, <1>12, <1>13, <1>16, <1>17, <1>19, <1>23, <1>24, <1>26, <1>27, <1>28
     DEF Write3At, q2, q3, q4, size
<1> QED
  BY <1>29

LEMMA StartStepped ==
    ASSUME Context, Nameless(1, 1)
    PROVE  /\ Stepped(Start, 1) /\ Bounded(Start)
           /\ 1 <= actual => Stepped(Move(Start, 1), 2) /\ Bounded(Move(Start, 1))
<1> DEFINE s == Start
           no == FALSE
           x == Move(s, 1)
<1>1. s = [p |-> 1, printed |-> {}, crashed |-> no]
  BY DEF Start
<1> HIDE DEF no, s
<1>2. AnyWalk(s) /\ s.p = 1 /\ s.printed = {} /\ s.crashed = no
  BY <1>1, AWalk DEF AnyWalk
<1>3. actual \in Nat
  BY DEF Context
<1>4. 1 <= 1 /\ 1 <= actual + 1 /\ 1..(1 - 1) = {}
  BY <1>3
<1>5. Stepped(s, 1)
  BY <1>2, <1>4 DEF Stepped, no
<1>6. Bounded(s)
  BY <1>2, <1>4 DEF Bounded, no
<1>7. 1 \in Nat
  OBVIOUS
<1>8. AnyWalk(x) /\ x.p = s.p + 1 /\ x.printed = {} /\ x.crashed = no
  BY <1>2, <1>7, MoveAny, MoveCrashed
<1> HIDE DEF x
<1>9. x.p = 2
  BY <1>2, <1>8
<1>10. 1..(2 - 1) = 1..(1 + 1 - 1)
  OBVIOUS
<1>11. \A i \in 1..(2 - 1) : message[i].name = ""
  BY <1>10 DEF Nameless
<1>12. ASSUME 1 <= actual PROVE Stepped(x, 2) /\ Bounded(x)
  <2>1. 1 <= 2 /\ 2 <= actual + 1
    BY <1>3, <1>12
  <2>2. Stepped(x, 2)
    BY <1>8, <1>9, <1>11, <2>1 DEF Stepped, no
  <2>3. Bounded(x)
    BY <1>8, <1>9, <2>1 DEF Bounded, no
  <2> QED
    BY <2>2, <2>3
<1> QED
  BY <1>5, <1>6, <1>12 DEF x, s

\* The handle: the one field of which a part may be taken for others.
LEMMA HandleStepped ==
    ASSUME Context, NEW v, IsVariant(v), NEW q, Write3At(q, v)
    PROVE  \/ Stepped(XdrHandle(Start), q)
           \/ Bounded(XdrHandle(Start)) /\ actual < q - 1 /\ 2 <= q - 1
<1> DEFINE s == Start
           w == Move(s, 1)
           size == Padded(v.fh)
           x == XdrHandle(s)
<1>1. /\ q = 2 + size /\ size \in Nat /\ message[1].value = v.fh
      /\ \A i \in 2..(2 + size - 1) : message[i].name = "fh"
      /\ Len(message) = q + 4 /\ actual \in Nat
  BY DEF Write3At, Context
<1>2. /\ Stepped(s, 1) /\ Bounded(s) /\ s.p = 1
      /\ 1 <= actual => Stepped(w, 2) /\ Bounded(w)
  <2>1. \A i \in 1..(1 + 1 - 1) : i = 1
    OBVIOUS
  <2>2. Nameless(1, 1)
    BY <2>1 DEF Nameless, Write3At
  <2> QED
    BY <1>1, <2>2, StartStepped, AWalk DEF Start
<1> HIDE DEF s, w
<1>3. CASE actual = 0
  <2>1. x = s
    BY <1>2, <1>3 DEF XdrHandle, e
  <2>2. s.p = actual + 1 /\ actual + 1 < q /\ ~ (q <= actual + 1)
    BY <1>1, <1>2, <1>3
  <2>3. AnyWalk(s) /\ s.crashed = FALSE /\ 1 <= s.p /\ s.p <= actual + 1
    BY <1>2 DEF Stepped
  <2>4. s.printed = {}
    BY AWalk DEF s, Start
  <2>5. Stepped(s, q)
    BY <2>2, <2>3, <2>4 DEF Stepped
  <2> QED
    BY <2>1, <2>5 DEF s
<1>4. CASE actual # 0
  <2>1. q \in Nat /\ Len(message) = q + 4 /\ actual \in Nat
    BY DEF Write3At, Context
  <2>2. 1 <= actual /\ 1 <= Len(message)
    BY <1>4, <2>1
  <2>3. Value(1) = v.fh
    BY <1>1, <2>2 DEF Value
  <2>4. ~ (s.p + 1 > e) /\ Value(s.p) = v.fh
    BY <1>2, <2>2, <2>3, <2>1 DEF e
  <2>5. x = Xdr(w, "fh", size)
    BY <2>4 DEF XdrHandle, w
  <2> HIDE DEF x
  <2>6. 2 \in Nat \ {0} /\ Stepped(w, 2) /\ Bounded(w)
    BY <1>2, <2>2
  <2>7. CASE 2 + size <= actual + 1 \/ size = 1
    <3>1. Stepped(x, 2 + size)
      BY <1>1, <2>5, <2>6, <2>7, XdrStepped
    <3> QED
      BY <1>1, <3>1 DEF x, s
  <2>8. CASE ~ (2 + size <= actual + 1 \/ size = 1)
    <3>1. Bounded(x)
      BY <1>1, <2>5, <2>6, XdrBounded
    <3>2. size \in Nat /\ q = 2 + size /\ ~ (2 + size <= actual + 1) /\ size # 1
      BY <1>1, <2>8
    <3>3. actual < q - 1
      BY <2>1, <3>2
    <3>4. 2 <= q - 1
      BY <2>2, <2>1, <3>2
    <3>5. actual < q - 1 /\ 2 <= q - 1
      BY <3>3, <3>4
    <3> QED
      BY <3>1, <3>5 DEF x, s
  <2> QED
    BY <2>7, <2>8
<1> QED
  BY <1>3, <1>4

\* The offset: of its two words the first is consumed if the second is missing.
LEMMA OffsetStepped ==
    ASSUME Context, NEW w, NEW k \in Nat \ {0}, Stepped(w, k),
           \A i \in k..(k + 2 - 1) : message[i].name = "off"
    PROVE  Stepped(XdrOffset(w), k + 2)
<1> DEFINE x == XdrOffset(w)
<1>1. /\ actual \in Nat /\ AnyWalk(w) /\ w.p \in Nat /\ 1 <= w.p /\ w.p <= actual + 1
      /\ w.p = k \/ (w.p = actual + 1 /\ actual + 1 < k)
      /\ w.crashed = FALSE
  BY DEF Context, Stepped, AnyWalk
<1>2. \A y \in w.printed : y[2] \in 1..(k - 1) /\ y[2] <= actual /\ message[y[2]].name = y[1]
  BY DEF Stepped
<1>3. 1..(k - 1) \subseteq 1..((k + 2) - 1)
  OBVIOUS
<1>4. \A y \in w.printed : /\ y[2] \in 1..((k + 2) - 1) /\ y[2] <= actual
                           /\ message[y[2]].name = y[1]
  BY <1>2, <1>3
<1>5. CASE w.p + 2 <= e
  <2>1. w.p = k /\ k + 2 <= actual + 1
    BY <1>1, <1>5 DEF e
  <2>2. x = Xdr(w, "off", 2)
    BY <1>5 DEF XdrOffset, Xdr
  <2> HIDE DEF x
  <2>3. 2 \in Nat
    OBVIOUS
  <2>4. Stepped(x, k + 2)
    BY <2>1, <2>2, <2>3, XdrStepped
  <2> QED
    BY <2>4 DEF x
<1>6. CASE ~ (w.p + 2 <= e) /\ w.p + 1 <= e
  <2>1. x = Move(w, 1)
    BY <1>6 DEF XdrOffset
  <2> HIDE DEF x
  <2>2. 1 \in Nat
    OBVIOUS
  <2>3. AnyWalk(x) /\ x.p = w.p + 1 /\ x.printed = w.printed /\ x.crashed = w.crashed
    BY <1>1, <2>1, <2>2, MoveAny, MoveCrashed
  <2>4. /\ w.p = actual /\ w.p = k /\ x.p = actual + 1 /\ actual + 1 < k + 2
        /\ ~ (k + 2 <= actual + 1) /\ 1 <= x.p
    BY <1>1, <1>6, <2>3 DEF e
  <2>5. \A y \in x.printed : /\ y[2] \in 1..((k + 2) - 1) /\ y[2] <= actual
                             /\ message[y[2]].name = y[1]
    BY <1>4, <2>3
  <2>6. x.crashed = FALSE /\ x.p <= actual + 1
    BY <1>1, <2>3, <2>4
  <2>7. Stepped(x, k + 2)
    BY <2>3, <2>4, <2>5, <2>6 DEF Stepped
  <2> QED
    BY <2>7 DEF x
<1>7. CASE ~ (w.p + 2 <= e) /\ ~ (w.p + 1 <= e)
  <2>1. x = w
    BY <1>7 DEF XdrOffset
  <2> HIDE DEF x
  <2>2. w.p = actual + 1 /\ actual + 1 < k + 2 /\ ~ (k + 2 <= actual + 1)
    BY <1>1, <1>7 DEF e
  <2>3. Stepped(w, k + 2)
    BY <1>1, <1>4, <2>2 DEF Stepped
  <2> QED
    BY <2>1, <2>3 DEF x
<1> QED
  BY <1>5, <1>6, <1>7

LEMMA OffsetBounded ==
    ASSUME NEW w, Bounded(w), actual \in Nat
    PROVE  Bounded(XdrOffset(w))
<1>1. 1 \in Nat /\ 2 \in Nat
  OBVIOUS
<1>2. w.p + 2 <= e => Bounded(Put(w, "off", 2))
  BY <1>1, XdrBounded
<1>3. w.p + 1 <= e => Bounded(Move(w, 1))
  BY <1>1, MoveBounded
<1> QED
  BY <1>2, <1>3 DEF XdrOffset

LEMMA BeforeCountStepped ==
    ASSUME Context, NEW v, IsVariant(v), NEW q, Write3At(q, v)
    PROVE  \/ Stepped(BeforeCount, q + 2)
           \/ Bounded(BeforeCount) /\ actual < q - 1 /\ 2 <= q - 1
<1>1. q \in Nat /\ q = 2 + Padded(v.fh) /\ Padded(v.fh) \in Nat
  BY DEF Write3At
<1>2. q \in Nat \ {0}
  BY <1>1
<1>3. \A i \in q..(q + 2 - 1) : message[i].name = "off"
  BY DEF Write3At
<1>4. actual \in Nat
  BY DEF Context
<1> DEFINE w == XdrHandle(Start)
<1>5. Stepped(w, q) \/ (Bounded(w) /\ actual < q - 1 /\ 2 <= q - 1)
  BY HandleStepped
<1> HIDE DEF w
<1>6. Stepped(w, q) => Stepped(XdrOffset(w), q + 2)
  BY <1>2, <1>3, OffsetStepped
<1>7. Bounded(w) => Bounded(XdrOffset(w))
  BY <1>4, OffsetBounded
<1>8. Stepped(XdrOffset(w), q + 2) \/ (Bounded(XdrOffset(w)) /\ actual < q - 1 /\ 2 <= q - 1)
  BY <1>5, <1>6, <1>7
<1> QED
  BY <1>8 DEF BeforeCount, w

\* That the last field was printed says that none was cut.
LEMMA SteppedShown ==
    ASSUME Context, NEW w, NEW k \in Nat \ {0}, Stepped(w, k), k = Len(message), Nameless(k, 1),
           message[k - 1].name = "stable", 1 <= k - 1,
           \A i \in 1..(k - 2) : message[i].name # "stable", NEW x,
           x = IF "stable" \in {y[1] : y \in w.printed} THEN w ELSE Fail(w)
    PROVE  Shown(x, TRUE)
<1>1. AnyWalk(w) /\ actual \in Nat /\ w.crashed = FALSE /\ 1 <= w.p /\ w.p <= actual + 1
  BY DEF Context, Stepped
<1>2. AnyWalk(Fail(w)) /\ Fail(w).p = NULL /\ Fail(w).printed = w.printed
  BY <1>1, FailAny
<1>3. x = w \/ x = Fail(w)
  OBVIOUS
<1>4. x.printed = w.printed
  BY <1>2, <1>3
<1>6. \A y \in w.printed : /\ y[2] \in 1..(k - 1) /\ y[2] <= actual /\ message[y[2]].name = y[1]
  BY DEF Stepped
<1>7. 1..(k - 1) \subseteq Nat \ {0}
  OBVIOUS
<1>8. \A y \in w.printed : y[2] \in Nat \ {0} /\ y[2] <= actual + 1
  <2> SUFFICES ASSUME NEW y \in w.printed PROVE y[2] \in Nat \ {0} /\ y[2] <= actual + 1
    OBVIOUS
  <2>1. y[2] \in 1..(k - 1) /\ y[2] <= actual
    BY <1>6
  <2> QED
    BY <1>1, <2>1
<1>9. ASSUME k <= actual + 1, NEW i \in 1..Len(message), message[i].name # ""
      PROVE  <<message[i].name, i>> \in w.printed
  <2>1. i # k
    <3>1. k \in k..(k + 1 - 1)
      OBVIOUS
    <3> QED
      BY <1>9, <3>1 DEF Nameless
  <2>2. i \in 1..(k - 1)
    BY <2>1
  <2> QED
    BY <1>9, <2>2 DEF Stepped
<1>10. ASSUME x.p # NULL PROVE k <= actual + 1
  <2>1. "stable" \in {y[1] : y \in w.printed}
    BY <1>2, <1>10
  <2>2. PICK y \in w.printed : y[1] = "stable"
    BY <2>1
  <2>3. y[2] \in 1..(k - 1) /\ y[2] <= actual /\ message[y[2]].name = "stable"
    BY <1>6, <2>2
  <2>4. ~ (y[2] \in 1..(k - 2))
    BY <2>3
  <2>5. y[2] = k - 1
    BY <2>3, <2>4
  <2> QED
    BY <1>1, <2>3, <2>5
<1>11. ASSUME Len(message) <= actual
       PROVE  x.p # NULL /\ x.crashed = FALSE /\ Named \subseteq x.printed
  <2>1. k <= actual + 1
    BY <1>1, <1>11
  <2>2. k - 1 \in 1..Len(message) /\ message[k - 1].name # ""
    OBVIOUS
  <2>3. <<"stable", k - 1>> \in w.printed
    BY <1>9, <2>1, <2>2
  <2>4. "stable" \in {y[1] : y \in w.printed}
    <3>1. <<"stable", k - 1>>[1] = "stable"
      OBVIOUS
    <3> QED
      BY <2>3, <3>1
  <2>5. x = w
    BY <2>4
  <2>6. Named \subseteq w.printed
    BY <1>9, <2>1, NamedSaid
  <2>7. w.p # NULL
    BY <1>1 DEF AnyWalk, NULL
  <2> QED
    BY <1>1, <2>5, <2>6, <2>7
<1>12. ASSUME x.p # NULL, NEW i \in 1..Len(message), message[i].name # ""
       PROVE  <<message[i].name, i>> \in x.printed
  BY <1>4, <1>9, <1>10, <1>12
<1> QED
  BY <1>4, <1>6, <1>8, <1>11, <1>12 DEF Shown

LEMMA BoundedShown ==
    ASSUME Context, NEW w, Bounded(w), ~ (Len(message) <= actual), NEW x, x = w \/ x = Fail(w)
    PROVE  Shown(x, FALSE)
<1>1. AnyWalk(w) /\ actual \in Nat /\ 1 <= w.p /\ w.p <= actual + 1
      /\ \A y \in w.printed : y[2] \in 1..actual
  BY DEF Context, Bounded
<1>2. Fail(w).p = NULL /\ Fail(w).printed = w.printed
  BY <1>1, FailAny
<1>3. x.printed = w.printed
  BY <1>2
<1>4. \A i \in 1..actual : i \in Nat \ {0} /\ i <= actual + 1
  BY <1>1
<1> QED
  BY <1>1, <1>3, <1>4 DEF Shown

\* Calls of WRITE: what is printed is right unless the handle was cut.
LEMMA Write3Shown ==
    ASSUME Context, NEW v, IsVariant(v), message = Args3("write", v)
    PROVE  \/ Shown(Write3, TRUE)
           \/ /\ Shown(Write3, FALSE)
              /\ \E i \in DOMAIN message : message[i].name = "fh" /\ i > actual
<1> DEFINE w == BeforeCount
           c == Xdr(w, "count", 1)
           how == Xdr(c, "stable", 1)
           x == Write3
<1>1. PICK q : Write3At(q, v)
  BY Write3Parts
<1>2. q \in Nat /\ q = 2 + Padded(v.fh) /\ Padded(v.fh) \in Nat /\ actual \in Nat
      /\ Len(message) = q + 4
  BY <1>1 DEF Write3At, Context
<1>3. x = IF "stable" \in {y[1] : y \in how.printed} THEN how ELSE Fail(how)
  BY DEF Write3
<1>4. Stepped(w, q + 2) \/ (Bounded(w) /\ actual < q - 1 /\ 2 <= q - 1)
  BY <1>1, BeforeCountStepped
<1> HIDE DEF x, w
<1>5. ASSUME Stepped(w, q + 2) PROVE Shown(x, TRUE)
  <2> DEFINE k2 == q + 2
             k3 == k2 + 1
             k4 == k3 + 1
  <2>1. k2 \in Nat \ {0} /\ k3 \in Nat \ {0} /\ k4 \in Nat \ {0} /\ 1 \in Nat
        /\ k4 = q + 4 /\ k3 = q + 3 /\ k4 - 1 = q + 3 /\ 1 <= k4 - 1
    BY <1>2
  <2>2. /\ \A i \in k2..(k2 + 1 - 1) : message[i].name = "count"
        /\ \A i \in k3..(k3 + 1 - 1) : message[i].name = "stable"
    BY <1>1, <2>1 DEF Write3At
  <2>3. Stepped(w, k2)
    BY <1>5
  <2> HIDE DEF k2
  <2>4. Stepped(c, k2 + 1)
    BY <2>1, <2>2, <2>3, XdrStepped
  <2>5. Stepped(c, k3)
    BY <2>4
  <2> HIDE DEF k3, c
  <2>6. Stepped(how, k3 + 1)
    BY <2>1, <2>2, <2>5, XdrStepped
  <2>7. Stepped(how, k4)
    BY <2>6
  <2> HIDE DEF k4, how
  <2>8. message[k4 - 1].name = "stable"
    <3>1. k3 \in k3..(k3 + 1 - 1) /\ k4 - 1 = k3
      BY <2>1
    <3> QED
      BY <2>2, <3>1
  <2>9. Nameless(k4, 1)
    <3>1. \A i \in k4..(k4 + 1 - 1) : i = q + 4
      BY <2>1
    <3>2. message[q + 4].name = ""
      BY <1>1 DEF Write3At
    <3> QED
      BY <3>1, <3>2 DEF Nameless
  <2>10. k4 = Len(message)
    BY <1>2, <2>1
  <2>11. \A i \in 1..(k4 - 2) : message[i].name # "stable"
    <3>1. \A i \in 1..(k4 - 2) : i \in 1..(q + 2)
      BY <1>2, <2>1
    <3> QED
      BY <1>1, <3>1, Write3Names
  <2> QED
    BY <1>3, <2>1, <2>7, <2>8, <2>9, <2>10, <2>11, SteppedShown
<1>6. ASSUME Bounded(w), actual < q - 1, 2 <= q - 1
      PROVE  Shown(x, FALSE) /\ \E i \in DOMAIN message : message[i].name = "fh" /\ i > actual
  <2>1. 1 \in Nat
    OBVIOUS
  <2>2. Bounded(c)
    BY <1>2, <1>6, <2>1, XdrBounded
  <2> HIDE DEF c
  <2>3. Bounded(how)
    BY <1>2, <2>1, <2>2, XdrBounded
  <2> HIDE DEF how
  <2>4. x = how \/ x = Fail(how)
    BY <1>3
  <2>5. ~ (Len(message) <= actual)
    BY <1>2, <1>6
  <2>6. Shown(x, FALSE)
    BY <2>3, <2>4, <2>5, BoundedShown
  <2>7. q - 1 \in 2..(2 + Padded(v.fh) - 1) /\ q - 1 \in 1..Len(message) /\ q - 1 > actual
    BY <1>2, <1>6
  <2>8. message[q - 1].name = "fh"
    BY <1>1, <2>7 DEF Write3At
  <2>9. DOMAIN message = 1..Len(message)
    BY DEF Context, IsPart
  <2> QED
    BY <2>6, <2>7, <2>8, <2>9
<1> QED
  BY <1>4, <1>5, <1>6 DEF x

-----------------------------------------------------------------------------
\* Every message is a sequence of words.

LEMMA Made ==
    \A a1, a2, a3, a4, a5, a6 :
        /\ IsPart(a1) /\ IsPart(a2) => IsPart(a1 \o a2)
        /\ IsPart(a1) /\ IsPart(a2) /\ IsPart(a3) => IsPart((a1 \o a2) \o a3)
        /\ IsPart(a1) /\ IsPart(a2) /\ IsPart(a3) /\ IsPart(a4)
               => IsPart(((a1 \o a2) \o a3) \o a4)
        /\ IsPart(a1) /\ IsPart(a2) /\ IsPart(a3) /\ IsPart(a4) /\ IsPart(a5)
               => IsPart((((a1 \o a2) \o a3) \o a4) \o a5)
        /\ IsPart(a1) /\ IsPart(a2) /\ IsPart(a3) /\ IsPart(a4) /\ IsPart(a5) /\ IsPart(a6)
               => IsPart(((((a1 \o a2) \o a3) \o a4) \o a5) \o a6)
<1> SUFFICES ASSUME NEW a1, NEW a2, NEW a3, NEW a4, NEW a5, NEW a6
             PROVE  /\ IsPart(a1) /\ IsPart(a2) => IsPart(a1 \o a2)
                    /\ IsPart(a1) /\ IsPart(a2) /\ IsPart(a3) => IsPart((a1 \o a2) \o a3)
                    /\ IsPart(a1) /\ IsPart(a2) /\ IsPart(a3) /\ IsPart(a4)
                           => IsPart(((a1 \o a2) \o a3) \o a4)
                    /\ IsPart(a1) /\ IsPart(a2) /\ IsPart(a3) /\ IsPart(a4) /\ IsPart(a5)
                           => IsPart((((a1 \o a2) \o a3) \o a4) \o a5)
                    /\ IsPart(a1) /\ IsPart(a2) /\ IsPart(a3) /\ IsPart(a4) /\ IsPart(a5)
                       /\ IsPart(a6) => IsPart(((((a1 \o a2) \o a3) \o a4) \o a5) \o a6)
  OBVIOUS
<1> DEFINE b2 == a1 \o a2
           b3 == b2 \o a3
           b4 == b3 \o a4
           b5 == b4 \o a5
           b6 == b5 \o a6
<1>1. IsPart(a1) /\ IsPart(a2) => IsPart(b2)
  BY Joined
<1> HIDE DEF b2
<1>2. IsPart(b2) /\ IsPart(a3) => IsPart(b3)
  BY Joined
<1> HIDE DEF b3
<1>3. IsPart(b3) /\ IsPart(a4) => IsPart(b4)
  BY Joined
<1> HIDE DEF b4
<1>4. IsPart(b4) /\ IsPart(a5) => IsPart(b5)
  BY Joined
<1> HIDE DEF b5
<1>5. IsPart(b5) /\ IsPart(a6) => IsPart(b6)
  BY Joined
<1> HIDE DEF b6
<1>6. /\ IsPart(a1) /\ IsPart(a2) => IsPart(b2)
      /\ IsPart(a1) /\ IsPart(a2) /\ IsPart(a3) => IsPart(b3)
      /\ IsPart(a1) /\ IsPart(a2) /\ IsPart(a3) /\ IsPart(a4) => IsPart(b4)
      /\ IsPart(a1) /\ IsPart(a2) /\ IsPart(a3) /\ IsPart(a4) /\ IsPart(a5) => IsPart(b5)
      /\ IsPart(a1) /\ IsPart(a2) /\ IsPart(a3) /\ IsPart(a4) /\ IsPart(a5) /\ IsPart(a6)
             => IsPart(b6)
  BY <1>1, <1>2, <1>3, <1>4, <1>5
<1> QED
  BY <1>6 DEF b2, b3, b4, b5, b6

LEMMA SetAttr3Parts ==
    ASSUME NEW v
    PROVE  IsPart(SetAttr3(v)) /\ IsPart(IfSet(v.set, Repeat("ctime", 2)))
<1> DEFINE mode == IfSet(v.set, W("mode", 0))
           uid == IfSet(v.set, W("uid", 0))
           gid == IfSet(v.set, W("gid", 0))
           size == IfSet(v.set, Repeat("size", 2))
           atime == IfSet(v.set, Repeat("atime", 2))
           mtime == IfSet(v.set, Repeat("mtime", 2))
<1>1. /\ IsPart(mode) /\ IsPart(uid) /\ IsPart(gid) /\ IsPart(size) /\ IsPart(atime)
      /\ IsPart(mtime) /\ IsPart(IfSet(v.set, Repeat("ctime", 2)))
  BY Worded, Repeated, Optional
<1>2. SetAttr3(v) = ((((mode \o uid) \o gid) \o size) \o atime) \o mtime
  BY DEF SetAttr3
<1> HIDE DEF mode, uid, gid, size, atime, mtime
<1> QED
  BY <1>1, <1>2, Made

LEMMA DirOp3Parts ==
    ASSUME NEW v, IsVariant(v)
    PROVE  \A fh, name : IsPart(DirOp3(fh, name, v))
  BY HandlesParts, Joined DEF DirOp3

LEMMA Args3Parts ==
    ASSUME NEW v, IsVariant(v), NEW op \in Ops3
    PROVE  IsPart(Args3(op, v))
<1> DEFINE args == Args3(op, v)
           fh == Handle3("fh", v)
           dir == DirOp3("fh", "name", v)
           set == SetAttr3(v)
           off == Repeat("off", 2)
           cookie == Repeat("cookie", 2)
           bare == Repeat("", 2)
           count == W("count", v.count)
           none == W("count", 0)
<1>1. /\ IsPart(fh) /\ IsPart(dir) /\ IsPart(set) /\ IsPart(off) /\ IsPart(cookie)
      /\ IsPart(bare) /\ IsPart(Rest) /\ IsPart(none)
  BY HandlesParts, DirOp3Parts, SetAttr3Parts, Repeated, RestParts, Worded
<1>2. IsPart(count)
  <2>1. v.count \in Int
    BY DEF IsVariant
  <2> QED
    BY <2>1, WordParts
<1>3. CASE op \in Fh3
  <2>1. args = fh
    BY <1>3 DEF Args3, Fh3, Dir3
  <2> HIDE DEF args, fh
  <2> QED
    BY <1>1, <2>1 DEF args
<1>4. CASE op \in Dir3
  <2>1. args = dir
    BY <1>4 DEF Args3, Fh3, Dir3
  <2> HIDE DEF args, dir
  <2> QED
    BY <1>1, <2>1 DEF args
<1>5. CASE op = "mknod"
  <2>1. args = dir \o Rest
    BY <1>5 DEF Args3, Fh3, Dir3
  <2> HIDE DEF args, dir
  <2> QED
    BY <1>1, <2>1, Made DEF args
<1>6. CASE op = "setattr"
  <2> DEFINE guard == IfSet(v.set, Repeat("ctime", 2))
  <2>1. args = (fh \o set) \o guard
    BY <1>6 DEF Args3, Fh3, Dir3
  <2>2. IsPart(guard)
    BY SetAttr3Parts
  <2> HIDE DEF args, fh, set, guard
  <2> QED
    BY <1>1, <2>1, <2>2, Made DEF args
<1>7. CASE op = "access"
  <2> DEFINE acc == W("acc", 0)
  <2>1. args = fh \o acc
    BY <1>7 DEF Args3, Fh3, Dir3
  <2>2. IsPart(acc)
    BY Worded
  <2> HIDE DEF args, fh, acc
  <2> QED
    BY <1>1, <2>1, <2>2, Made DEF args
<1>8. CASE op = "read"
  <2>1. args = (fh \o off) \o count
    BY <1>8 DEF Args3, Fh3, Dir3
  <2> HIDE DEF args, fh, off, count
  <2> QED
    BY <1>1, <1>2, <2>1, Made DEF args
<1>9. CASE op = "write"
  <2> DEFINE stable == W("stable", 0)
  <2>1. args = (((fh \o off) \o count) \o stable) \o Rest
    BY <1>9 DEF Args3, Fh3, Dir3
  <2>2. IsPart(stable)
    BY Worded
  <2> HIDE DEF args, fh, off, count, stable
  <2> QED
    BY <1>1, <1>2, <2>1, <2>2, Made DEF args
<1>10. CASE op = "create"
  <2> DEFINE how == W("how", 0)
  <2>1. args = (dir \o how) \o set
    BY <1>10 DEF Args3, Fh3, Dir3
  <2>2. IsPart(how)
    BY Worded
  <2> HIDE DEF args, dir, how, set
  <2> QED
    BY <1>1, <2>1, <2>2, Made DEF args
<1>11. CASE op = "mkdir"
  <2>1. args = dir \o set
    BY <1>11 DEF Args3, Fh3, Dir3
  <2> HIDE DEF args, dir, set
  <2> QED
    BY <1>1, <2>1, Made DEF args
<1>12. CASE op = "symlink"
  <2> DEFINE sdata == Name3("sdata", v)
  <2>1. args = (dir \o set) \o sdata
    BY <1>12 DEF Args3, Fh3, Dir3
  <2>2. IsPart(sdata)
    BY HandlesParts
  <2> HIDE DEF args, dir, set, sdata
  <2> QED
    BY <1>1, <2>1, <2>2, Made DEF args
<1>13. CASE op = "rename" \/ op = "link"
  <2> DEFINE first == IF op = "rename" THEN dir ELSE fh
             last == IF op = "rename" THEN DirOp3("fh2", "name2", v) ELSE DirOp3("fh2", "name", v)
  <2>1. args = first \o last
    BY <1>13 DEF Args3, Fh3, Dir3
  <2>2. IsPart(first) /\ IsPart(last)
    BY <1>1, DirOp3Parts
  <2> HIDE DEF args, first, last
  <2> QED
    BY <2>1, <2>2, Made DEF args
<1>14. CASE op = "readdir"
  <2>1. args = ((fh \o cookie) \o bare) \o none
    BY <1>14 DEF Args3, Fh3, Dir3
  <2> HIDE DEF args, fh, cookie, bare, none
  <2> QED
    BY <1>1, <2>1, Made DEF args
<1>15. CASE op = "readdirp"
  <2> DEFINE maxcnt == W("maxcnt", 0)
  <2>1. args = (((fh \o cookie) \o bare) \o none) \o maxcnt
    BY <1>15 DEF Args3, Fh3, Dir3
  <2>2. IsPart(maxcnt)
    BY Worded
  <2> HIDE DEF args, fh, cookie, bare, none, maxcnt
  <2> QED
    BY <1>1, <2>1, <2>2, Made DEF args
<1>16. CASE op = "commit"
  <2> DEFINE file == Handle3("file", v)
  <2>1. args = (file \o off) \o none
    BY <1>16 DEF Args3, Fh3, Dir3
  <2>2. IsPart(file)
    BY HandlesParts
  <2> HIDE DEF args, file, off, none
  <2> QED
    BY <1>1, <2>1, <2>2, Made DEF args
<1>17. CASE op = "mnt"
  <2> DEFINE path == Name3("path", v)
  <2>1. args = path
    BY <1>17 DEF Args3, Fh3, Dir3
  <2>2. IsPart(path)
    BY HandlesParts
  <2> HIDE DEF args, path
  <2> QED
    BY <2>1, <2>2 DEF args
<1>18. CASE op \in {"null", "unknown"}
  <2>1. args = <<>>
    BY <1>18 DEF Args3, Fh3, Dir3
  <2> HIDE DEF args
  <2> QED
    BY <2>1, EmptyParts DEF args
<1> QED
  BY <1>3, <1>4, <1>5, <1>6, <1>7, <1>8, <1>9, <1>10, <1>11, <1>12, <1>13, <1>14, <1>15, <1>16,
     <1>17, <1>18 DEF Ops3, Fh3, Dir3, Made3, Wcc3Only, Ignored3

LEMMA Res3Parts ==
    ASSUME NEW v, IsVariant(v), NEW op \in Ops3, NEW ok \in BOOLEAN
    PROVE  IsPart(Res3(op, ok, v))
<1> DEFINE res == Res3(op, ok, v)
           fh == Handle3("fh", v)
           attr == Attr3(v)
           skip == Hidden(Attr3(v))
           wcc == Wcc3(v)
           count == W("count", v.count)
<1>1. IsPart(fh) /\ IsPart(attr) /\ IsPart(skip) /\ IsPart(wcc) /\ IsPart(Rest)
  BY HandlesParts, Attr3Parts, Wcc3Parts, RestParts
<1>2. IsPart(count)
  <2>1. v.count \in Int
    BY DEF IsVariant
  <2> QED
    BY <2>1, WordParts
<1>3. CASE op = "getattr" /\ ok
  <2>1. res = Fields(Fattr3)
    BY <1>3 DEF Res3, Made3, Wcc3Only, Ignored3
  <2> HIDE DEF res
  <2> QED
    BY <2>1, Fattr3Parts DEF res
<1>4. CASE op = "setattr" \/ op \in Wcc3Only
  <2>1. res = wcc \/ res = Hidden(wcc)
    BY <1>4 DEF Res3, Made3, Wcc3Only, Ignored3
  <2> HIDE DEF res, wcc
  <2> QED
    BY <1>1, <2>1, HiddenParts DEF res
<1>5. CASE op = "lookup"
  <2> DEFINE first == IF ok THEN fh \o attr ELSE <<>>
  <2>1. res = first \o skip
    BY <1>5 DEF Res3, Made3, Wcc3Only, Ignored3
  <2> HIDE DEF fh, attr, skip
  <2>2. IsPart(first)
    BY <1>1, Made, EmptyParts
  <2> HIDE DEF res, first
  <2> QED
    BY <1>1, <2>1, <2>2, Made DEF res
<1>6. CASE op = "access"
  <2> DEFINE acc == W("acc", 0)
             last == IF ok THEN acc ELSE <<>>
  <2>1. res = skip \o last
    BY <1>6 DEF Res3, Made3, Wcc3Only, Ignored3
  <2>2. IsPart(acc)
    BY Worded
  <2> HIDE DEF acc, skip
  <2>3. IsPart(last)
    BY <2>2, EmptyParts
  <2> HIDE DEF res, last
  <2> QED
    BY <1>1, <2>1, <2>3, Made DEF res
<1>7. CASE op = "readlink"
  <2> DEFINE name == Name3("name", v)
             last == IF ok THEN name ELSE <<>>
  <2>1. res = skip \o last
    BY <1>7 DEF Res3, Made3, Wcc3Only, Ignored3
  <2>2. IsPart(name)
    BY HandlesParts
  <2> HIDE DEF name, skip
  <2>3. IsPart(last)
    BY <2>2, EmptyParts
  <2> HIDE DEF res, last
  <2> QED
    BY <1>1, <2>1, <2>3, Made DEF res
<1>8. CASE op = "read" \/ op = "write"
  <2> DEFINE first == IF op = "read" THEN attr ELSE wcc
             second == IF op = "read" THEN W("eof", 0) ELSE W("stable", 0)
             last == IF ok THEN (count \o second) \o Rest ELSE <<>>
  <2>1. res = first \o last
    BY <1>8 DEF Res3, Made3, Wcc3Only, Ignored3
  <2>2. IsPart(second)
    BY Worded
  <2>3. IsPart(first)
    BY <1>1
  <2> HIDE DEF second, first, count
  <2>4. IsPart(last)
    BY <1>1, <1>2, <2>2, Made, EmptyParts
  <2> HIDE DEF res, last
  <2> QED
    BY <2>1, <2>3, <2>4, Made DEF res
<1>9. CASE op \in Made3
  <2> DEFINE made3 == IfSet(v.set, fh)
  <2>1. res = (made3 \o attr) \o Rest \/ res = Rest
    BY <1>9 DEF Res3, Made3, Wcc3Only, Ignored3
  <2>2. IsPart(made3)
    BY <1>1, Optional
  <2> HIDE DEF res, made3, attr
  <2> QED
    BY <1>1, <2>1, <2>2, Made DEF res
<1>10. CASE op = "readdir" \/ op = "readdirp"
  <2> DEFINE plus == op = "readdirp"
             list == Listing3(v, plus)
             last == IF ok THEN list ELSE <<>>
  <2>1. res = attr \o last
    <3>1. CASE op = "readdir"
      <4>1. plus = FALSE
        BY <3>1
      <4> HIDE DEF plus
      <4> QED
        BY <3>1, <4>1 DEF Res3, Made3, Wcc3Only, Ignored3
    <3>2. CASE op = "readdirp"
      <4>1. plus = TRUE
        BY <3>2
      <4> HIDE DEF plus
      <4> QED
        BY <3>2, <4>1 DEF Res3, Made3, Wcc3Only, Ignored3
    <3> QED
      BY <1>10, <3>1, <3>2
  <2>2. plus \in BOOLEAN
    OBVIOUS
  <2> HIDE DEF plus
  <2>3. IsPart(list)
    BY <2>2, Listing3Parts
  <2> HIDE DEF list, attr
  <2>4. IsPart(last)
    BY <2>3, EmptyParts
  <2> HIDE DEF res, last
  <2> QED
    BY <1>1, <2>1, <2>4, Made DEF res
<1>11. CASE op \in Ignored3
  <2>1. res = Rest
    BY <1>11 DEF Res3, Made3, Wcc3Only, Ignored3
  <2> HIDE DEF res
  <2> QED
    BY <1>1, <2>1 DEF res
<1>12. CASE op = "mnt" /\ ok
  <2>1. res = fh \o Rest
    BY <1>12 DEF Res3, Made3, Wcc3Only, Ignored3
  <2> HIDE DEF res, fh
  <2> QED
    BY <1>1, <2>1, Made DEF res
<1>13. CASE op \in {"null", "unknown"} \/ (op \in {"getattr", "mnt"} /\ ~ ok)
  <2>1. res = <<>>
    BY <1>13 DEF Res3, Made3, Wcc3Only, Ignored3
  <2> HIDE DEF res
  <2> QED
    BY <2>1, EmptyParts DEF res
<1> QED
  BY <1>3, <1>4, <1>5, <1>6, <1>7, <1>8, <1>9, <1>10, <1>11, <1>12, <1>13
     DEF Ops3, Fh3, Dir3, Made3, Wcc3Only, Ignored3

\* Parts of version 2.
LEMMA Parts2 ==
    ASSUME NEW v, IsVariant(v)
    PROVE  /\ \A label : IsPart(Handle2(label)) /\ Len(Handle2(label)) = 8
           /\ \A label : IsPart(Name2(label, v)) /\ Name2(label, v) = Counted(label, v.name)
           /\ \A fh, fn : /\ IsPart(DirOp2(fh, fn, v))
                          /\ DirOp2(fh, fn, v) = Handle2(fh) \o Name2(fn, v)
<1>1. 8 \in Nat
  OBVIOUS
<1>2. \A label : IsPart(Handle2(label)) /\ Len(Handle2(label)) = 8
  BY <1>1, RepeatParts DEF Handle2, NFS_FHSIZE
<1>3. \A label : IsPart(Name2(label, v)) /\ Name2(label, v) = Counted(label, v.name)
  BY CountedSize DEF Name2, IsVariant
<1>4. \A fh, fn : DirOp2(fh, fn, v) = Handle2(fh) \o Name2(fn, v)
  BY DEF DirOp2
<1>5. \A fh, fn : IsPart(DirOp2(fh, fn, v))
  BY <1>2, <1>3, <1>4, Joined
<1> QED
  BY <1>2, <1>3, <1>4, <1>5

LEMMA Fields2Parts ==
    /\ IsPart(Fields(Fattr2)) /\ Len(Fields(Fattr2)) = 17 /\ DOMAIN Fattr2 = 1..17
    /\ IsPart(Fields(StatFs2)) /\ Len(Fields(StatFs2)) = 5 /\ DOMAIN StatFs2 = 1..5
    /\ Len(Fattr2) = 17 /\ Len(StatFs2) = 5
<1>1. DOMAIN Fattr2 = 1..17 /\ Len(Fattr2) = 17
  BY DEF Fattr2
<1>2. DOMAIN StatFs2 = 1..5 /\ Len(StatFs2) = 5
  BY DEF StatFs2
<1>3. 17 \in Nat /\ 5 \in Nat
  OBVIOUS
<1> QED
  BY <1>1, <1>2, <1>3, FieldsParts

LEMMA Args2Parts ==
    ASSUME NEW v, IsVariant(v), NEW op \in Ops2
    PROVE  IsPart(Args2(op, v))
<1> DEFINE args == Args2(op, v)
           fh == Handle2("fh")
           dir == DirOp2("fh", "fn", v)
           set == SetAttr2(v)
           bare == Repeat("", 1)
<1>1. IsPart(fh) /\ IsPart(dir) /\ IsPart(set) /\ IsPart(bare)
  BY Parts2, SetAttr2Parts, Repeated
<1>2. \A name : IsPart(W(name, v.count))
  <2>1. v.count \in Int
    BY DEF IsVariant
  <2> QED
    BY <2>1, WordParts
<1>3. CASE op \in Fh2
  <2>1. args = fh
    BY <1>3 DEF Args2, Fh2, Dir2, New2
  <2> HIDE DEF args, fh
  <2> QED
    BY <1>1, <2>1 DEF args
<1>4. CASE op \in Dir2
  <2>1. args = dir
    BY <1>4 DEF Args2, Fh2, Dir2, New2
  <2> HIDE DEF args, dir
  <2> QED
    BY <1>1, <2>1 DEF args
<1>5. CASE op \in New2
  <2>1. args = dir \o set
    BY <1>5 DEF Args2, Fh2, Dir2, New2
  <2> HIDE DEF args, dir, set
  <2> QED
    BY <1>1, <2>1, Made DEF args
<1>6. CASE op = "setattr"
  <2>1. args = fh \o set
    BY <1>6 DEF Args2, Fh2, Dir2, New2
  <2> HIDE DEF args, fh, set
  <2> QED
    BY <1>1, <2>1, Made DEF args
<1>7. CASE op = "read"
  <2> DEFINE a2 == W("offset", 0)
             a3 == W("count", v.count)
             a4 == W("tcount", 0)
  <2>1. args = ((fh \o a2) \o a3) \o a4
    BY <1>7 DEF Args2, Fh2, Dir2, New2
  <2>2. IsPart(a2) /\ IsPart(a3) /\ IsPart(a4)
    BY <1>2, Worded
  <2> HIDE DEF args, fh, a2, a3, a4
  <2> QED
    BY <1>1, <2>1, <2>2, Made DEF args
<1>8. CASE op = "write"
  <2> DEFINE a2 == W("begoff", 0)
             a3 == W("offset", 0)
             a4 == W("tcount", v.count)
  <2>1. args = (((fh \o a2) \o a3) \o a4) \o bare
    BY <1>8 DEF Args2, Fh2, Dir2, New2
  <2>2. IsPart(a2) /\ IsPart(a3) /\ IsPart(a4)
    BY <1>2, Worded
  <2> HIDE DEF args, fh, a2, a3, a4, bare
  <2> QED
    BY <1>1, <2>1, <2>2, Made DEF args
<1>9. CASE op = "rename" \/ op = "link"
  <2> DEFINE first == IF op = "rename" THEN dir ELSE fh
             last == IF op = "rename" THEN DirOp2("fh2", "fn2", v) ELSE DirOp2("fh2", "fn", v)
  <2>1. args = first \o last
    BY <1>9 DEF Args2, Fh2, Dir2, New2
  <2>2. IsPart(first) /\ IsPart(last)
    BY <1>1, Parts2
  <2> HIDE DEF args, first, last
  <2> QED
    BY <2>1, <2>2, Made DEF args
<1>10. CASE op = "symlink"
  <2> DEFINE to == Name2("fn2", v)
  <2>1. args = (dir \o to) \o set
    BY <1>10 DEF Args2, Fh2, Dir2, New2
  <2>2. IsPart(to)
    BY Parts2
  <2> HIDE DEF args, dir, to, set
  <2> QED
    BY <1>1, <2>1, <2>2, Made DEF args
<1>11. CASE op = "readdir"
  <2> DEFINE a2 == W("cookie", 0)
             a3 == W("count", 0)
  <2>1. args = (fh \o a2) \o a3
    BY <1>11 DEF Args2, Fh2, Dir2, New2
  <2>2. IsPart(a2) /\ IsPart(a3)
    BY Worded
  <2> HIDE DEF args, fh, a2, a3
  <2> QED
    BY <1>1, <2>1, <2>2, Made DEF args
<1>12. CASE op \in {"null", "root", "writecache", "unknown"}
  <2>1. args = <<>>
    BY <1>12 DEF Args2, Fh2, Dir2, New2
  <2> HIDE DEF args
  <2> QED
    BY <2>1, EmptyParts DEF args
<1> QED
  BY <1>3, <1>4, <1>5, <1>6, <1>7, <1>8, <1>9, <1>10, <1>11, <1>12
     DEF Ops2, Fh2, Attr2, FhAttr2, StatusOnly2, New2, Dir2

LEMMA Res2Parts ==
    ASSUME NEW v, IsVariant(v), NEW op \in Ops2, NEW ok \in BOOLEAN
    PROVE  IsPart(Res2(op, ok, v))
<1> DEFINE res == Res2(op, ok, v)
           attr == Fields(Fattr2)
           bare == Repeat("", 1)
<1>1. IsPart(attr) /\ IsPart(bare) /\ IsPart(<<>>) /\ IsPart(Fields(StatFs2))
  BY Fields2Parts, Repeated, EmptyParts
<1>2. CASE op \in Attr2 /\ ok
  <2>1. res = attr
    BY <1>2 DEF Res2, Attr2, FhAttr2, New2
  <2> HIDE DEF res, attr
  <2> QED
    BY <1>1, <2>1 DEF res
<1>3. CASE op \in FhAttr2 /\ ok
  <2> DEFINE fh == Handle2("fh")
  <2>1. res = fh \o attr
    BY <1>3 DEF Res2, Attr2, FhAttr2, New2
  <2>2. IsPart(fh)
    BY Parts2
  <2> HIDE DEF res, attr, fh
  <2> QED
    BY <1>1, <2>1, <2>2, Made DEF res
<1>4. CASE op = "readlink" /\ ok
  <2>1. res = Name2("fn", v)
    BY <1>4 DEF Res2, Attr2, FhAttr2, New2
  <2> HIDE DEF res
  <2> QED
    BY <2>1, Parts2 DEF res
<1>5. CASE op = "read" /\ ok
  <2> DEFINE count == W("count", v.count)
  <2>1. res = (attr \o count) \o bare
    BY <1>5 DEF Res2, Attr2, FhAttr2, New2
  <2>2. v.count \in Int
    BY DEF IsVariant
  <2>3. IsPart(count)
    BY <2>2, WordParts
  <2> HIDE DEF res, attr, count, bare
  <2> QED
    BY <1>1, <2>1, <2>3, Made DEF res
<1>6. CASE op = "readdir" /\ ok
  <2>1. res = bare
    BY <1>6 DEF Res2, Attr2, FhAttr2, New2
  <2> HIDE DEF res, bare
  <2> QED
    BY <1>1, <2>1 DEF res
<1>7. CASE op = "statfs" /\ ok
  <2>1. res = Fields(StatFs2)
    BY <1>7 DEF Res2, Attr2, FhAttr2, New2
  <2> HIDE DEF res
  <2> QED
    BY <1>1, <2>1 DEF res
<1>8. CASE ~ ok \/ op \in StatusOnly2 \cup {"null", "root", "writecache", "unknown"}
  <2>1. res = <<>>
    BY <1>8 DEF Res2, Attr2, FhAttr2, New2, StatusOnly2
  <2> HIDE DEF res
  <2> QED
    BY <1>1, <2>1 DEF res
<1> QED
  BY <1>2, <1>3, <1>4, <1>5, <1>6, <1>7, <1>8
     DEF Ops2, Fh2, Attr2, FhAttr2, StatusOnly2, New2

\* The kinds of messages.
LEMMA KindFields ==
    ASSUME NEW k \in Kinds
    PROVE  \/ k.ver = 3 /\ k.call /\ k.op \in Ops3 /\ k.call \in BOOLEAN
           \/ k.ver = 3 /\ ~ k.call /\ k.op \in Ops3 /\ k.ok \in BOOLEAN /\ k.call \in BOOLEAN
           \/ k.ver = 2 /\ k.call /\ k.op \in Ops2 /\ k.call \in BOOLEAN
           \/ k.ver = 2 /\ ~ k.call /\ k.op \in Ops2 /\ k.ok \in BOOLEAN /\ k.call \in BOOLEAN
<1>1. \A V, C, P, R : k \in [ver : V, call : C, op : P, ok : R] =>
          k.ver \in V /\ k.call \in C /\ k.op \in P /\ k.ok \in R
  OBVIOUS
<1>2. CASE k \in [ver : {3}, call : {TRUE}, op : Ops3, ok : {TRUE}]
  <2>1. k.ver \in {3} /\ k.call \in {TRUE} /\ k.op \in Ops3
    BY <1>1, <1>2
  <2> QED
    BY <2>1
<1>3. CASE k \in [ver : {3}, call : {FALSE}, op : Ops3, ok : BOOLEAN]
  <2>1. k.ver \in {3} /\ k.call \in {FALSE} /\ k.op \in Ops3 /\ k.ok \in BOOLEAN
    BY <1>1, <1>3
  <2> QED
    BY <2>1
<1>4. CASE k \in [ver : {2}, call : {TRUE}, op : Ops2, ok : {TRUE}]
  <2>1. k.ver \in {2} /\ k.call \in {TRUE} /\ k.op \in Ops2
    BY <1>1, <1>4
  <2> QED
    BY <2>1
<1>5. CASE k \in [ver : {2}, call : {FALSE}, op : Ops2, ok : BOOLEAN]
  <2>1. k.ver \in {2} /\ k.call \in {FALSE} /\ k.op \in Ops2 /\ k.ok \in BOOLEAN
    BY <1>1, <1>5
  <2> QED
    BY <2>1
<1> QED
  BY <1>2, <1>3, <1>4, <1>5 DEF Kinds

LEMMA LayoutParts ==
    ASSUME NEW v \in Variants, NEW k \in Kinds
    PROVE  IsVariant(v) /\ IsPart(Layout(k, v))
<1>1. IsVariant(v)
  BY VariantFields
<1>2. CASE k.ver = 3 /\ k.call
  <2>1. k.op \in Ops3
    BY <1>2, KindFields
  <2>2. Layout(k, v) = Args3(k.op, v)
    BY <1>2 DEF Layout
  <2> QED
    BY <1>1, <2>1, <2>2, Args3Parts
<1>3. CASE k.ver = 3 /\ ~ k.call
  <2>1. k.op \in Ops3 /\ k.ok \in BOOLEAN
    BY <1>3, KindFields
  <2>2. Layout(k, v) = Res3(k.op, k.ok, v)
    BY <1>3 DEF Layout
  <2> QED
    BY <1>1, <2>1, <2>2, Res3Parts
<1>4. CASE k.ver = 2 /\ k.call
  <2>1. k.op \in Ops2
    BY <1>4, KindFields
  <2>2. Layout(k, v) = Args2(k.op, v)
    BY <1>4 DEF Layout
  <2> QED
    BY <1>1, <2>1, <2>2, Args2Parts
<1>5. CASE k.ver = 2 /\ ~ k.call
  <2>1. k.op \in Ops2 /\ k.ok \in BOOLEAN
    BY <1>5, KindFields
  <2>2. Layout(k, v) = Res2(k.op, k.ok, v)
    BY <1>5 DEF Layout
  <2> QED
    BY <1>1, <2>1, <2>2, Res2Parts
<1> QED
  BY <1>1, <1>2, <1>3, <1>4, <1>5, KindFields

-----------------------------------------------------------------------------
\* Version 2.

LEMMA Fh2Reached ==
    ASSUME NEW w, NEW k \in Nat \ {0}, NEW label, Context, Reached(w, k),
           At(k, Handle2(label), TRUE)
    PROVE  Reached(print_fh2(w, label), k + 8)
<1>1. 8 \in Nat
  OBVIOUS
<1> QED
  BY <1>1, RepeatReached DEF print_fh2, Handle2, NFS_FHSIZE

LEMMA Fn2Reached ==
    ASSUME NEW w, NEW k \in Nat \ {0}, NEW label, NEW v, IsVariant(v), Context, Reached(w, k),
           At(k, Name2(label, v), TRUE)
    PROVE  Reached(print_fn2(w, label), k + Len(Name2(label, v)))
<1> DEFINE m == 1 + Padded(v.name)
<1>1. Name2(label, v) = Counted(label, v.name) /\ v.name \in Nat
  BY Parts2 DEF IsVariant
<1>2. Len(Name2(label, v)) = m
  BY <1>1, CountedSize
<1>3. m = 1 + Padded(v.name)
  OBVIOUS
<1> HIDE DEF m
<1>4. Reached(print_fn3(w, label), k + m)
  BY <1>1, <1>3, CountedReached
<1> QED
  BY <1>2, <1>4 DEF print_fn2

LEMMA Dir2Reached ==
    ASSUME NEW w, NEW k \in Nat \ {0}, NEW fh, NEW fn, NEW v, IsVariant(v), Context, Reached(w, k),
           At(k, DirOp2(fh, fn, v), TRUE)
    PROVE  Reached(print_diropargs2(w, fh, fn), k + Len(DirOp2(fh, fn, v)))
<1> DEFINE a == Handle2(fh)
           z == Name2(fn, v)
           x == print_fh2(w, fh)
           k1 == k + 8
<1>1. IsPart(a) /\ Len(a) = 8 /\ IsPart(z) /\ DirOp2(fh, fn, v) = a \o z
  BY Parts2
<1> HIDE DEF a, z
<1>2. At(k, a \o z, TRUE)
  BY <1>1
<1>3. At(k, a, TRUE)
  BY <1>1, <1>2, AtJoin
<1>4. At(k + Len(a), z, TRUE)
  BY <1>1, <1>2, AtJoin
<1>5. Reached(x, k1)
  BY <1>3, Fh2Reached DEF a
<1>6. Len(a \o z) = 8 + Len(z)
  BY <1>1, JoinParts, ZenonT(40)
<1>7. Len(z) \in Nat
  BY <1>1 DEF IsPart
<1>8. At(k1, z, TRUE)
  BY <1>1, <1>4
<1>9. k1 \in Nat \ {0} /\ Len(a \o z) = 8 + Len(z) /\ Len(z) \in Nat
  BY <1>6, <1>7
<1>10. k1 + Len(z) = k + Len(DirOp2(fh, fn, v))
  BY <1>1, <1>9
<1> HIDE DEF k1, x
<1>11. Reached(print_fn2(x, fn), k1 + Len(z))
  BY <1>5, <1>9, <1>8, Fn2Reached DEF z
<1> QED
  BY <1>10, <1>11 DEF print_diropargs2, x

\* A reply or a call that starts with a handle or the names of a file.
LEMMA Fh2Tail ==
    ASSUME NEW z, IsPart(z), NEW label, Context, NEW w, NEW k \in Nat \ {0}, Reached(w, k),
           Ends(k, Handle2(label) \o z)
    PROVE  Reached(print_fh2(w, label), k + 8) /\ Ends(k + 8, z) /\ k + 8 \in Nat \ {0}
<1> DEFINE a == Handle2(label)
<1>1. IsPart(a) /\ Len(a) = 8
  <2>1. 8 \in Nat
    OBVIOUS
  <2> QED
    BY <2>1, RepeatParts DEF Handle2, NFS_FHSIZE
<1> HIDE DEF a
<1>2. Ends(k, a \o z)
  BY DEF a
<1>3. At(k, a, TRUE) /\ Ends(k + Len(a), z)
  BY <1>1, <1>2, TailJoin
<1>4. Reached(print_fh2(w, label), k + 8)
  BY <1>3, Fh2Reached DEF a
<1> QED
  BY <1>1, <1>3, <1>4

LEMMA Dir2Tail ==
    ASSUME NEW z, IsPart(z), NEW fh, NEW fn, NEW v, IsVariant(v), Context, NEW w,
           NEW k \in Nat \ {0}, Reached(w, k), Ends(k, DirOp2(fh, fn, v) \o z)
    PROVE  \E q \in Nat \ {0} : Reached(print_diropargs2(w, fh, fn), q) /\ Ends(q, z)
<1> DEFINE a == DirOp2(fh, fn, v)
           q == k + Len(a)
<1>1. IsPart(a)
  BY Parts2
<1> HIDE DEF a
<1>2. Ends(k, a \o z)
  BY DEF a
<1>3. At(k, a, TRUE) /\ Ends(q, z) /\ q \in Nat \ {0}
  BY <1>1, <1>2, TailJoin
<1>4. Reached(print_diropargs2(w, fh, fn), q)
  BY <1>3, Dir2Reached DEF a
<1> QED
  BY <1>3, <1>4

LEMMA Sattr2End ==
    ASSUME NEW v, IsVariant(v), Context, NEW w, NEW k \in Nat \ {0}, Reached(w, k),
           Ends(k, SetAttr2(v))
    PROVE  Shown(print_sattr2(w), TRUE)
<1>1. Len(SetAttr2(v)) = 8
  BY SetAttr2Parts
<1>2. At(k, SetAttr2(v), TRUE) /\ k + 8 = Len(message) + 1
  BY <1>1 DEF Ends
<1>3. Walked(w, k, Len(message), TRUE)
  BY DEF Reached
<1> QED
  BY <1>2, <1>3, Sattr2Shown

LEMMA Fattr2Reached ==
    ASSUME NEW w, NEW k \in Nat \ {0}, Context, Reached(w, k)
    PROVE  /\ At(k, Fields(Fattr2), TRUE) => Reached(print_fattr2(w), k + 17)
           /\ At(k, Fields(StatFs2), TRUE) => Reached(print_statfsokres2(w), k + 5)
<1>1. ASSUME NEW names, NEW m \in Nat, DOMAIN names = 1..m, Len(names) = m,
             At(k, Fields(names), TRUE), Len(Fields(names)) = m
      PROVE  Reached(GetAll(w, names), k + m)
  <2>1. k + m <= Len(message) + 1
    BY <1>1 DEF At
  <2>2. Len(message) \in Nat
    BY DEF Context, IsPart
  <2> QED
    BY <1>1, <2>1, <2>2, GetAllWalked DEF Reached
<1>2. 17 \in Nat /\ 5 \in Nat
  OBVIOUS
<1> QED
  BY <1>1, <1>2, Fields2Parts DEF print_fattr2, print_statfsokres2

LEMMA Dir2End ==
    ASSUME NEW fh, NEW fn, NEW v, IsVariant(v), Context, NEW w,
           NEW k \in Nat \ {0}, Reached(w, k), Ends(k, DirOp2(fh, fn, v))
    PROVE  Shown(print_diropargs2(w, fh, fn), TRUE)
<1> DEFINE x == print_diropargs2(w, fh, fn)
           part == DirOp2(fh, fn, v)
<1>1. Reached(x, k + Len(part))
  BY Dir2Reached DEF Ends
<1> HIDE DEF x, part
<1>2. Ends(k, part)
  BY DEF part
<1>3. Shown(x, TRUE)
  BY <1>1, <1>2, TailEnd
<1> QED
  BY <1>3 DEF x

\* READ and WRITE, calls: words behind the handle.
LEMMA Words2Reached ==
    ASSUME Context, NEW l1, NEW l2, NEW l3, NEW c2 \in Int, NEW c3 \in Int, NEW part, NEW x,
           part = ((Handle2("fh") \o W(l1, 0)) \o W(l2, c2)) \o W(l3, c3), At(1, part, TRUE),
           x = print_uint32(print_uint32(print_uint32(print_fh2(Start, "fh"), l1), l2), l3)
    PROVE  IsPart(part) /\ Len(part) = 11 /\ Reached(x, 1 + Len(part))
<1> DEFINE fh == Handle2("fh")
           a2 == W(l1, 0)
           a3 == W(l2, c2)
           a4 == W(l3, c3)
           b2 == fh \o a2
           b3 == b2 \o a3
           b4 == b3 \o a4
           w1 == print_fh2(Start, "fh")
           w2 == print_uint32(w1, l1)
           w3 == print_uint32(w2, l2)
<1>1. 8 \in Nat /\ 0 \in Int
  OBVIOUS
<1>2. IsPart(fh) /\ Len(fh) = 8
  BY <1>1, RepeatParts DEF Handle2, NFS_FHSIZE
<1>3. IsPart(a2) /\ Len(a2) = 1 /\ IsPart(a3) /\ Len(a3) = 1 /\ IsPart(a4) /\ Len(a4) = 1
  BY <1>1, WordParts
<1>4. part = b4 /\ x = print_uint32(w3, l3)
  OBVIOUS
<1> HIDE DEF fh, a2, a3, a4
<1>5. IsPart(b2)
  BY <1>2, <1>3, Joined
<1>6. Len(b2) = 9
  <2>1. Len(b2) = Len(fh) + Len(a2)
    BY <1>2, <1>3, JoinParts
  <2> QED
    BY <1>2, <1>3, <2>1
<1>7. b2 = fh \o a2
  OBVIOUS
<1> HIDE DEF b2
<1>8. IsPart(b3)
  BY <1>3, <1>5, Joined
<1>9. Len(b3) = 10
  <2>1. Len(b3) = Len(b2) + Len(a3)
    BY <1>3, <1>5, JoinParts
  <2> QED
    BY <1>3, <1>6, <2>1
<1>10. b3 = b2 \o a3
  OBVIOUS
<1> HIDE DEF b3
<1>11. IsPart(b4)
  BY <1>3, <1>8, Joined
<1>12. Len(b4) = 11
  <2>1. Len(b4) = Len(b3) + Len(a4)
    BY <1>3, <1>8, JoinParts
  <2> QED
    BY <1>3, <1>9, <2>1
<1>13. b4 = b3 \o a4
  OBVIOUS
<1> HIDE DEF b4
<1> DEFINE k == 1
<1>14. k \in Nat \ {0} /\ Reached(Start, k)
  BY TailMessage
<1>15. At(k, b4, TRUE)
  BY <1>4
<1> HIDE DEF k
<1>16. At(k, b3 \o a4, TRUE)
  BY <1>13, <1>15
<1>17. At(k, b3, TRUE)
  BY <1>3, <1>8, <1>14, <1>16, AtJoin
<1>18. At(k + Len(b3), a4, TRUE)
  BY <1>3, <1>8, <1>14, <1>16, AtJoin
<1>19. At(k, b2 \o a3, TRUE)
  BY <1>10, <1>17
<1>20. At(k, b2, TRUE)
  BY <1>3, <1>5, <1>14, <1>19, AtJoin
<1>21. At(k + Len(b2), a3, TRUE)
  BY <1>3, <1>5, <1>14, <1>19, AtJoin
<1>22. At(k, fh \o a2, TRUE)
  BY <1>7, <1>20
<1>23. At(k, fh, TRUE)
  BY <1>2, <1>3, <1>14, <1>22, AtJoin
<1>24. At(k + Len(fh), a2, TRUE)
  BY <1>2, <1>3, <1>14, <1>22, AtJoin
<1> DEFINE k1 == k + 8
           k2 == k1 + 1
           k3 == k2 + 1
           k4 == k3 + 1
<1>25. /\ k1 = k + Len(fh) /\ k2 = k + Len(b2) /\ k3 = k + Len(b3) /\ k4 = k + Len(b4)
       /\ k1 \in Nat \ {0} /\ k2 \in Nat \ {0} /\ k3 \in Nat \ {0} /\ k4 \in Nat \ {0}
  BY <1>2, <1>6, <1>9, <1>12, <1>14
<1>26. Reached(w1, k1)
  BY <1>14, <1>23, Fh2Reached DEF fh
<1> HIDE DEF k1, w1
<1>27. Reached(w2, k2)
  BY <1>1, <1>24, <1>25, <1>26, WordReached DEF a2
<1> HIDE DEF k2, w2
<1>28. Reached(w3, k3)
  BY <1>21, <1>25, <1>27, WordReached DEF a3
<1> HIDE DEF k3, w3
<1>29. Reached(print_uint32(w3, l3), k4)
  BY <1>18, <1>25, <1>28, WordReached DEF a4
<1> HIDE DEF k4
<1> QED
  BY <1>4, <1>11, <1>12, <1>25, <1>29 DEF k

\* Every call of version 2.
LEMMA Call2Shown ==
    ASSUME NEW v, IsVariant(v), Context, NEW op \in Ops2, message = Args2(op, v)
    PROVE  Shown(print_call2(op), TRUE)
<1> DEFINE x == print_call2(op)
           a == Handle2("fh")
           d == DirOp2("fh", "fn", v)
           set == SetAttr2(v)
           fh == print_fh2(Start, "fh")
           dir == print_diropargs2(Start, "fh", "fn")
           bare == Repeat("", 1)
<1>1. IsPart(a) /\ IsPart(d) /\ IsPart(set) /\ Len(a) = 8
  BY Parts2, SetAttr2Parts
<1>2. 1 \in Nat \ {0} /\ Ends(1, message) /\ Reached(Start, 1)
  BY TailMessage
<1>3. CASE op \in Fh2
  <2>1. message = a /\ x = fh
    BY <1>3 DEF Args2, print_call2, Fh2, Dir2, New2
  <2>2. Ends(1, a)
    BY <1>2, <2>1
  <2>3. Reached(fh, 1 + Len(a))
    BY <1>1, <1>2, <2>2, Fh2Reached DEF Ends
  <2> HIDE DEF x, a, fh
  <2>4. Shown(fh, TRUE)
    BY <1>2, <2>2, <2>3, TailEnd
  <2> QED
    BY <2>1, <2>4 DEF x
<1>4. CASE op \in Dir2
  <2>1. message = d /\ x = dir
    BY <1>4 DEF Args2, print_call2, Fh2, Dir2, New2
  <2>2. Ends(1, d)
    BY <1>2, <2>1
  <2>3. Shown(dir, TRUE)
    BY <1>2, <2>2, Dir2End
  <2> HIDE DEF x, dir
  <2> QED
    BY <2>1, <2>3 DEF x
<1>5. CASE op \in New2
  <2>1. message = d \o set /\ x = print_sattr2(dir)
    BY <1>5 DEF Args2, print_call2, Fh2, Dir2, New2
  <2>2. Ends(1, d \o set)
    BY <1>2, <2>1
  <2>3. PICK q \in Nat \ {0} : Reached(dir, q) /\ Ends(q, set)
    BY <1>1, <1>2, <2>2, Dir2Tail
  <2> HIDE DEF x, dir
  <2>4. Shown(print_sattr2(dir), TRUE)
    BY <2>3, Sattr2End
  <2> QED
    BY <2>1, <2>4 DEF x
<1>6. CASE op = "setattr"
  <2>1. message = a \o set /\ x = print_sattr2(fh)
    BY <1>6 DEF Args2, print_call2, Fh2, Dir2, New2
  <2>2. Ends(1, a \o set)
    BY <1>2, <2>1
  <2> DEFINE q == 1 + 8
  <2>3. Reached(fh, q) /\ Ends(q, set)
    BY <1>1, <1>2, <2>2, Fh2Tail
  <2>4. q \in Nat \ {0}
    OBVIOUS
  <2> HIDE DEF x, fh, q
  <2>5. Shown(print_sattr2(fh), TRUE)
    BY <2>3, <2>4, Sattr2End
  <2> QED
    BY <2>1, <2>5 DEF x
<1>7. CASE op = "read"
  <2> DEFINE part == ((a \o W("offset", 0)) \o W("count", v.count)) \o W("tcount", 0)
             y == print_uint32(print_uint32(print_uint32(fh, "offset"), "count"), "tcount")
  <2>1. message = part /\ x = y
    BY <1>7 DEF Args2, print_call2, Fh2, Dir2, New2
  <2>2. Ends(1, part)
    BY <1>2, <2>1
  <2>3. v.count \in Int /\ 0 \in Int
    BY DEF IsVariant
  <2>4. At(1, part, TRUE)
    BY <2>2 DEF Ends
  <2>5. Reached(y, 1 + Len(part))
    BY <2>3, <2>4, Words2Reached
  <2> HIDE DEF x, y, part
  <2>6. Shown(y, TRUE)
    BY <1>2, <2>2, <2>5, TailEnd
  <2> QED
    BY <2>1, <2>6 DEF x
<1>8. CASE op = "write"
  <2> DEFINE part == ((a \o W("begoff", 0)) \o W("offset", 0)) \o W("tcount", v.count)
             y == print_uint32(print_uint32(print_uint32(fh, "begoff"), "offset"), "tcount")
  <2>1. message = part \o bare /\ x = y
    BY <1>8 DEF Args2, print_call2, Fh2, Dir2, New2
  <2>2. v.count \in Int /\ 0 \in Int
    BY DEF IsVariant
  <2>3. IsPart(bare) /\ Anonymous(bare)
    <3>1. 1 \in Nat
      OBVIOUS
    <3> QED
      BY <3>1, BareParts
  <2>4. IsPart(part)
    <3> DEFINE a2 == W("begoff", 0)
               a3 == W("offset", 0)
               a4 == W("tcount", v.count)
    <3>1. IsPart(a2) /\ IsPart(a3) /\ IsPart(a4)
      BY <2>2, WordParts
    <3>2. part = ((a \o a2) \o a3) \o a4
      OBVIOUS
    <3> HIDE DEF part, a, a2, a3, a4
    <3> QED
      BY <1>1, <3>1, <3>2, Made
  <2>5. Ends(1, part \o bare)
    BY <1>2, <2>1
  <2> DEFINE q == 1 + Len(part)
  <2>6. At(1, part, TRUE) /\ Ends(q, bare) /\ q \in Nat \ {0}
    <3> HIDE DEF part, bare
    <3> QED
      BY <1>2, <2>3, <2>4, <2>5, TailJoin
  <2>7. Reached(y, q)
    BY <2>2, <2>6, Words2Reached
  <2> HIDE DEF x, y, part, q, bare
  <2>8. Shown(y, TRUE)
    BY <2>3, <2>6, <2>7, TailShown
  <2> QED
    BY <2>1, <2>8 DEF x
<1>9. CASE op = "rename"
  <2> DEFINE z == DirOp2("fh2", "fn2", v)
             y == print_diropargs2(dir, "fh2", "fn2")
  <2>1. message = d \o z /\ x = y
    BY <1>9 DEF Args2, print_call2, Fh2, Dir2, New2
  <2>2. Ends(1, d \o z)
    BY <1>2, <2>1
  <2>3. IsPart(z)
    BY Parts2
  <2>4. PICK q \in Nat \ {0} : Reached(dir, q) /\ Ends(q, z)
    BY <1>2, <2>2, <2>3, Dir2Tail
  <2> HIDE DEF x, dir
  <2>5. Shown(y, TRUE)
    BY <2>4, Dir2End
  <2> HIDE DEF y
  <2> QED
    BY <2>1, <2>5 DEF x
<1>10. CASE op = "link"
  <2> DEFINE z == DirOp2("fh2", "fn", v)
             y == print_diropargs2(fh, "fh2", "fn")
             q == 1 + 8
  <2>1. message = a \o z /\ x = y
    BY <1>10 DEF Args2, print_call2, Fh2, Dir2, New2
  <2>2. Ends(1, a \o z)
    BY <1>2, <2>1
  <2>3. IsPart(z)
    BY Parts2
  <2>4. Reached(fh, q) /\ Ends(q, z)
    BY <1>2, <2>2, <2>3, Fh2Tail
  <2>5. q \in Nat \ {0}
    OBVIOUS
  <2> HIDE DEF x, fh, q
  <2>6. Shown(y, TRUE)
    BY <2>4, <2>5, Dir2End
  <2> HIDE DEF y
  <2> QED
    BY <2>1, <2>6 DEF x
<1>11. CASE op = "symlink"
  <2> DEFINE to == Name2("fn2", v)
             y == print_fn2(dir, "fn2")
             z == to \o set
  <2>1. message = (d \o to) \o set /\ x = print_sattr2(y)
    BY <1>11 DEF Args2, print_call2, Fh2, Dir2, New2
  <2>2. IsPart(to) /\ IsPart(d \o to)
    BY <1>1, Parts2, Joined
  <2>3. Ends(1, (d \o to) \o set)
    BY <1>2, <2>1
  <2> DEFINE b2 == d \o to
             q == 1 + Len(b2)
  <2>4. At(1, b2, TRUE) /\ Ends(q, set) /\ q \in Nat \ {0}
    <3>1. IsPart(b2) /\ Ends(1, b2 \o set)
      BY <2>2, <2>3
    <3> HIDE DEF b2, set
    <3> QED
      BY <1>1, <1>2, <3>1, TailJoin
  <2> DEFINE k == 1
  <2>5. At(k, d, TRUE) /\ At(k + Len(d), to, TRUE) /\ k \in Nat \ {0} /\ Reached(Start, k)
    <3>1. At(k, d \o to, TRUE) /\ Reached(Start, k)
      BY <1>2, <2>4
    <3>2. k \in Nat \ {0}
      OBVIOUS
    <3> HIDE DEF k, d, to
    <3>3. At(k, d, TRUE)
      BY <1>1, <2>2, <3>1, <3>2, AtJoin
    <3>4. At(k + Len(d), to, TRUE)
      BY <1>1, <2>2, <3>1, <3>2, AtJoin
    <3> QED
      BY <3>1, <3>2, <3>3, <3>4
  <2> DEFINE k1 == k + Len(d)
  <2>6. k1 \in Nat \ {0} /\ k1 + Len(to) = q
    <3> HIDE DEF d, to
    <3>1. Len(d \o to) = Len(d) + Len(to)
      BY <1>1, <2>2, JoinParts
    <3>2. Len(d) \in Nat /\ Len(to) \in Nat
      BY <1>1, <2>2 DEF IsPart
    <3> QED
      BY <3>1, <3>2
  <2> HIDE DEF k
  <2>7. Reached(dir, k1)
    BY <2>5, Dir2Reached
  <2>8. At(k1, to, TRUE)
    BY <2>5
  <2> HIDE DEF dir, k1
  <2>9. Reached(y, k1 + Len(to))
    BY <2>6, <2>7, <2>8, Fn2Reached
  <2>10. Reached(y, q)
    BY <2>6, <2>9
  <2> HIDE DEF x, y, q
  <2>11. Shown(print_sattr2(y), TRUE)
    BY <2>4, <2>10, Sattr2End
  <2> QED
    BY <2>1, <2>11 DEF x
<1>12. CASE op = "readdir"
  <2> DEFINE a2 == W("cookie", 0)
             a3 == W("count", 0)
             w == print_opaque(fh, "cookie", 1)
             y == print_uint32(w, "count")
             b2 == a \o a2
             k == 1
             k1 == 1 + 8
             k2 == k1 + 1
  <2>1. message = (a \o a2) \o a3 /\ x = y
    BY <1>12 DEF Args2, print_call2, Fh2, Dir2, New2
  <2>2. 0 \in Int
    OBVIOUS
  <2>3. IsPart(a2) /\ Len(a2) = 1 /\ IsPart(a3) /\ Len(a3) = 1
    BY <2>2, WordParts
  <2>4. k1 \in Nat \ {0} /\ k2 \in Nat \ {0} /\ k \in Nat \ {0} /\ k + 8 = k1
    OBVIOUS
  <2>5. Ends(k, b2 \o a3) /\ Reached(Start, k)
    BY <1>2, <2>1
  <2>6. At(k, b2, TRUE) /\ Ends(k + Len(b2), a3) /\ IsPart(b2) /\ Len(b2) = 9
    <3> HIDE DEF a, a2, a3, k
    <3>1. IsPart(b2)
      BY <1>1, <2>3, Joined
    <3>2. Len(b2) = Len(a) + Len(a2)
      BY <1>1, <2>3, JoinParts
    <3>3. Len(b2) = 9
      BY <1>1, <2>3, <3>2
    <3> HIDE DEF b2
    <3>4. At(k, b2, TRUE) /\ Ends(k + Len(b2), a3)
      BY <2>3, <2>4, <2>5, <3>1, TailJoin
    <3> QED
      BY <3>1, <3>3, <3>4
  <2>7. At(k, a, TRUE) /\ At(k + 8, a2, TRUE)
    <3> HIDE DEF a, a2, k
    <3>1. At(k, a \o a2, TRUE)
      BY <2>6
    <3>2. At(k, a, TRUE)
      BY <1>1, <2>3, <2>4, <3>1, AtJoin
    <3>3. At(k + Len(a), a2, TRUE)
      BY <1>1, <2>3, <2>4, <3>1, AtJoin
    <3> QED
      BY <1>1, <3>2, <3>3
  <2>8. Reached(fh, k + 8)
    <3> HIDE DEF k
    <3> QED
      BY <2>4, <2>5, <2>7, Fh2Reached
  <2>9. At(k1, a2, TRUE) /\ Reached(fh, k1) /\ Ends(k2, a3)
    <3>1. k + Len(b2) = k2
      BY <2>6
    <3> QED
      BY <2>4, <2>6, <2>7, <2>8, <3>1
  <2> HIDE DEF fh, k1
  <2>10. Reached(print_stable3(fh, "cookie"), k2)
    BY <2>2, <2>4, <2>9, WordReached
  <2>11. w = print_stable3(fh, "cookie")
    BY DEF print_opaque, print_stable3
  <2> HIDE DEF w, k2
  <2>12. Shown(y, TRUE)
    BY <2>2, <2>4, <2>9, <2>10, <2>11, WordShown
  <2> HIDE DEF x, y
  <2> QED
    BY <2>1, <2>12 DEF x
<1>13. CASE op \in {"null", "root", "writecache", "unknown"}
  <2>1. message = <<>> /\ x = Start
    BY <1>13 DEF Args2, print_call2, Fh2, Dir2, New2
  <2> HIDE DEF x
  <2> QED
    BY <2>1, EmptyShown DEF x
<1> QED
  BY <1>3, <1>4, <1>5, <1>6, <1>7, <1>8, <1>9, <1>10, <1>11, <1>12, <1>13
     DEF Ops2, Fh2, Attr2, FhAttr2, StatusOnly2, New2, Dir2

\* The status that is printed is none of the words behind the header.
LEMMA Status2Shown ==
    ASSUME Context, message = <<>>
    PROVE  Shown(print_uint32(Start, "nfsstat"), TRUE)
<1> DEFINE s == Start
           x == print_uint32(s, "nfsstat")
           no == FALSE
           more == {<<"nfsstat", i>> : i \in 1..(1 + 1 - 1)}
<1>1. s = [p |-> 1, printed |-> {}, crashed |-> no]
  BY DEF Start
<1> HIDE DEF no, s
<1>2. AnyWalk(s) /\ s.p = 1 /\ s.printed = {} /\ s.crashed = no
  BY <1>1, AWalk DEF AnyWalk
<1>3. actual \in Nat
  BY DEF Context
<1>4. Len(message) = 0 /\ IsPart(message)
  BY EmptyParts
<1>5. ~ Short(s, 0)
  BY <1>2, <1>3 DEF Short, NULL, e
<1>6. x = Put(s, "nfsstat", 1)
  BY <1>5 DEF print_uint32, Get
<1>7. 1 \in Nat
  OBVIOUS
<1> HIDE DEF x
<1>8. /\ x.p = s.p + 1 /\ x.crashed = no
      /\ x.printed = s.printed \cup {<<"nfsstat", i>> : i \in s.p..(s.p + 1 - 1)}
  BY <1>2, <1>6, <1>7, PutAny
<1>9. x.p = 2 /\ x.printed = more
  BY <1>2, <1>8
<1>10. \A y \in x.printed : y[2] = 1
  <2>1. \A i \in 1..(1 + 1 - 1) : i = 1
    OBVIOUS
  <2> QED
    BY <1>9, <2>1
<1>11. Named \subseteq x.printed
  <2>1. \A i \in 1..Len(message) : FALSE
    BY <1>4
  <2> QED
    BY <2>1, NamedSaid
<1>12. \A y \in x.printed : y[2] \in Nat \ {0} /\ y[2] <= actual + 1 /\ ~ (y[2] <= Len(message))
  <2>1. 1 \in Nat \ {0} /\ 1 <= actual + 1 /\ ~ (1 <= Len(message))
    BY <1>3, <1>4
  <2> QED
    BY <1>10, <2>1
<1>13. x.p # NULL /\ x.crashed = FALSE
  BY <1>8, <1>9 DEF no, NULL
<1>14. \A i : ~ (i \in 1..Len(message))
  BY <1>4
<1> QED
  BY <1>11, <1>12, <1>13, <1>14 DEF Shown, x, s

\* The attributes of a file and the count of what was read of it.
LEMMA Read2Reached ==
    ASSUME Context, NEW value \in Int, NEW z, IsPart(z),
           message = (Fields(Fattr2) \o W("count", value)) \o z
    PROVE  \E q \in Nat \ {0} : Reached(print_uint32(print_fattr2(Start), "count"), q) /\ Ends(q, z)
<1> DEFINE a == Fields(Fattr2)
           a2 == W("count", value)
           b2 == a \o a2
           w == print_fattr2(Start)
           k == 1
           k1 == k + 17
           q == k1 + 1
<1>1. IsPart(a) /\ Len(a) = 17
  BY Fields2Parts
<1>2. IsPart(a2) /\ Len(a2) = 1
  BY WordParts
<1>3. k \in Nat \ {0} /\ k1 \in Nat \ {0} /\ q \in Nat \ {0} /\ q = k + 18
  OBVIOUS
<1>4. Ends(k, b2 \o z) /\ Reached(Start, k)
  BY TailMessage
<1> HIDE DEF a, a2, k
<1>5. IsPart(b2)
  BY <1>1, <1>2, Joined
<1>6. Len(b2) = 18
  <2>1. Len(b2) = Len(a) + Len(a2)
    BY <1>1, <1>2, JoinParts
  <2> QED
    BY <1>1, <1>2, <2>1
<1>7. At(k, a \o a2, TRUE) /\ Ends(k + Len(b2), z)
  <2>1. b2 = a \o a2
    OBVIOUS
  <2> HIDE DEF b2
  <2>2. At(k, b2, TRUE) /\ Ends(k + Len(b2), z)
    BY <1>3, <1>4, <1>5, TailJoin
  <2> QED
    BY <2>1, <2>2
<1>8. At(k, a, TRUE)
  BY <1>1, <1>2, <1>3, <1>7, AtJoin
<1>9. At(k + Len(a), a2, TRUE)
  BY <1>1, <1>2, <1>3, <1>7, AtJoin
<1>10. Reached(w, k1)
  BY <1>3, <1>4, <1>8, Fattr2Reached DEF a
<1>11. At(k1, W("count", value), TRUE)
  BY <1>1, <1>9 DEF a2
<1>12. Ends(q, z)
  BY <1>3, <1>6, <1>7
<1> HIDE DEF k1, w
<1>13. Reached(print_uint32(w, "count"), q)
  BY <1>3, <1>10, <1>11, WordReached
<1> QED
  BY <1>3, <1>12, <1>13 DEF w

\* Every reply of version 2.
LEMMA Resp2Shown ==
    ASSUME NEW v, IsVariant(v), Context, NEW op \in Ops2, NEW ok \in BOOLEAN,
           message = Res2(op, ok, v)
    PROVE  Shown(print_resp2(op, ok), TRUE)
<1> DEFINE x == print_resp2(op, ok)
           attr == Fields(Fattr2)
           bare == Repeat("", 1)
<1>1. 1 \in Nat \ {0} /\ Ends(1, message) /\ Reached(Start, 1)
  BY TailMessage
<1>2. CASE op \in Attr2 /\ ok
  <2>1. message = attr /\ x = print_fattr2(Start)
    BY <1>2 DEF Res2, print_resp2, Attr2, FhAttr2, New2, StatusOnly2
  <2>2. Ends(1, attr)
    BY <1>1, <2>1
  <2>3. Reached(x, 1 + 17)
    BY <1>1, <2>1, <2>2, Fattr2Reached DEF Ends
  <2>4. Reached(x, 1 + Len(attr))
    BY <2>3, Fields2Parts
  <2> HIDE DEF x, attr
  <2> QED
    BY <1>1, <2>2, <2>4, TailEnd DEF x
<1>3. CASE op \in FhAttr2 /\ ok
  <2> DEFINE w == print_fh2(Start, "fh")
             k == 1 + 8
  <2>1. message = Handle2("fh") \o attr /\ x = print_diropokres2(Start)
    BY <1>3 DEF Res2, print_resp2, Attr2, FhAttr2, New2, StatusOnly2
  <2>2. IsPart(attr) /\ Len(attr) = 17
    BY Fields2Parts
  <2>3. Ends(1, Handle2("fh") \o attr)
    BY <1>1, <2>1
  <2>4. Reached(w, k) /\ Ends(k, attr)
    <3> HIDE DEF attr
    <3> QED
      BY <1>1, <2>2, <2>3, Fh2Tail
  <2>5. k \in Nat \ {0}
    OBVIOUS
  <2> HIDE DEF w, k
  <2>6. Reached(print_fattr2(w), k + 17)
    BY <2>4, <2>5, Fattr2Reached DEF Ends
  <2>7. Reached(print_fattr2(w), k + Len(attr))
    BY <2>2, <2>6
  <2>8. x = print_fattr2(w)
    <3>1. Start.p = 1 /\ actual \in Nat
      BY AWalk DEF Start, Context
    <3>2. ~ Short(Start, 0)
      BY <3>1 DEF Short, NULL, e
    <3> QED
      BY <2>1, <3>2 DEF print_diropokres2, w
  <2> HIDE DEF x, attr
  <2>9. Shown(x, TRUE)
    BY <2>4, <2>5, <2>7, <2>8, TailEnd
  <2> QED
    BY <2>9 DEF x
<1>4. CASE op = "readlink" /\ ok
  <2> DEFINE part == Name2("fn", v)
  <2>1. message = part /\ x = print_fn2(Start, "fn")
    BY <1>4 DEF Res2, print_resp2, Attr2, FhAttr2, New2, StatusOnly2
  <2>2. Ends(1, part)
    BY <1>1, <2>1
  <2>3. Reached(x, 1 + Len(part))
    BY <1>1, <2>1, <2>2, Fn2Reached DEF Ends
  <2> HIDE DEF x, part
  <2> QED
    BY <1>1, <2>2, <2>3, TailEnd DEF x
<1>5. CASE op = "read" /\ ok
  <2>1. /\ message = (attr \o W("count", v.count)) \o bare
        /\ x = print_uint32(print_fattr2(Start), "count")
    BY <1>5 DEF Res2, print_resp2, Attr2, FhAttr2, New2, StatusOnly2
  <2>2. v.count \in Int /\ 1 \in Nat
    BY DEF IsVariant
  <2>3. IsPart(bare) /\ Anonymous(bare)
    BY <2>2, BareParts
  <2> HIDE DEF bare
  <2>4. PICK q \in Nat \ {0} : Reached(x, q) /\ Ends(q, bare)
    BY <2>1, <2>2, <2>3, Read2Reached
  <2> HIDE DEF x
  <2> QED
    BY <2>3, <2>4, TailShown DEF x
<1>6. CASE op = "readdir" /\ ok
  <2>1. message = bare /\ x = Start
    BY <1>6 DEF Res2, print_resp2, Attr2, FhAttr2, New2, StatusOnly2
  <2>2. 1 \in Nat
    OBVIOUS
  <2>3. IsPart(bare) /\ Anonymous(bare)
    BY <2>2, BareParts
  <2> HIDE DEF x, bare
  <2> QED
    BY <2>1, <2>3, StartShown DEF x
<1>7. CASE op = "statfs" /\ ok
  <2> DEFINE part == Fields(StatFs2)
  <2>1. message = part /\ x = print_statfsokres2(Start)
    BY <1>7 DEF Res2, print_resp2, Attr2, FhAttr2, New2, StatusOnly2
  <2>2. Ends(1, part)
    BY <1>1, <2>1
  <2>3. Reached(x, 1 + 5)
    BY <1>1, <2>1, <2>2, Fattr2Reached DEF Ends
  <2>4. Reached(x, 1 + Len(part))
    BY <2>3, Fields2Parts
  <2> HIDE DEF x, part
  <2> QED
    BY <1>1, <2>2, <2>4, TailEnd DEF x
<1>8. CASE op \in StatusOnly2 /\ ok
  <2>1. message = <<>> /\ x = print_uint32(Start, "nfsstat")
    BY <1>8 DEF Res2, print_resp2, Attr2, FhAttr2, New2, StatusOnly2
  <2> HIDE DEF x
  <2> QED
    BY <2>1, Status2Shown DEF x
<1>9. CASE ~ ok \/ op \in {"null", "root", "writecache", "unknown"}
  <2>1. message = <<>> /\ x = Start
    BY <1>9 DEF Res2, print_resp2, Attr2, FhAttr2, New2, StatusOnly2
  <2> HIDE DEF x
  <2> QED
    BY <2>1, EmptyShown DEF x
<1> QED
  BY <1>2, <1>3, <1>4, <1>5, <1>6, <1>7, <1>8, <1>9
     DEF Ops2, Fh2, Attr2, FhAttr2, StatusOnly2, New2

-----------------------------------------------------------------------------
\* Every call of version 3.
LEMMA Call3Shown ==
    ASSUME NEW v, IsVariant(v), Context, NEW op \in Ops3, message = Args3(op, v)
    PROVE  \/ Shown(print_call3(op), TRUE)
           \/ /\ Shown(print_call3(op), FALSE) /\ op = "write"
              /\ \E i \in DOMAIN message : message[i].name = "fh" /\ i > actual
<1>1. CASE op = "write"
  <2>1. print_call3(op) = Write3 /\ message = Args3("write", v)
    BY <1>1 DEF print_call3
  <2> QED
    BY <1>1, <2>1, Write3Shown
<1>2. CASE op \in {"null", "unknown"}
  <2>1. print_call3(op) = Start /\ message = <<>>
    BY <1>2 DEF print_call3, Args3, Fh3, Dir3
  <2> QED
    BY <2>1, EmptyShown
<1>3. CASE op \notin {"write", "null", "unknown"}
  <2>1. print_call3(op) = xdr_args
    BY <1>3 DEF print_call3
  <2> QED
    BY <2>1, ArgsShown
<1> QED
  BY <1>1, <1>2, <1>3

\* What is decoded is a message of its kind.
Messages ==
    outcome \in {"loaded", "ok", "short"} =>
        /\ kind \in Kinds /\ actual \in Nat /\ junk \in {0, 1}
        /\ \E v \in Variants : message = Layout(kind, v)

DecodersInv == Messages /\ FieldsRight /\ WholePrinted /\ CutMarked

LEMMA ShownNames ==
    ASSUME NEW x, Shown(x, TRUE)
    PROVE  Shown(x, FALSE)
  BY DEF Shown

\* The walk of each of the four functions.
Walk == CASE kind.ver = 3 /\ kind.call   -> print_call3(kind.op)
          [] kind.ver = 3 /\ ~ kind.call -> print_resp3(kind.op, kind.ok)
          [] kind.ver = 2 /\ kind.call   -> print_call2(kind.op)
          [] kind.ver = 2 /\ ~ kind.call -> print_resp2(kind.op, kind.ok)

LEMMA WalkShown ==
    ASSUME Messages, outcome = "loaded"
    PROVE  Context /\ Shown(Walk, FALSE) /\ (CutInHandle \/ Shown(Walk, TRUE))
<1>1. /\ kind \in Kinds /\ actual \in Nat /\ junk \in {0, 1}
      /\ \E v \in Variants : message = Layout(kind, v)
  BY DEF Messages
<1>2. PICK v \in Variants : message = Layout(kind, v)
  BY <1>1
<1>3. IsVariant(v) /\ IsPart(message)
  BY <1>1, <1>2, LayoutParts
<1>4. Context
  BY <1>1, <1>3 DEF Context
<1>5. CASE kind.ver = 3 /\ kind.call
  <2>1. kind.op \in Ops3
    BY <1>1, <1>5, KindFields
  <2>2. message = Args3(kind.op, v) /\ Walk = print_call3(kind.op)
    BY <1>2, <1>5 DEF Layout, Walk
  <2>3. \/ Shown(Walk, TRUE)
        \/ /\ Shown(Walk, FALSE) /\ kind.op = "write"
           /\ \E i \in DOMAIN message : message[i].name = "fh" /\ i > actual
    BY <1>3, <1>4, <2>1, <2>2, Call3Shown
  <2> QED
    BY <1>4, <1>5, <2>3, ShownNames DEF CutInHandle
<1>6. CASE kind.ver = 3 /\ ~ kind.call
  <2>1. kind.op \in Ops3 /\ kind.ok \in BOOLEAN
    BY <1>1, <1>6, KindFields
  <2>2. message = Res3(kind.op, kind.ok, v) /\ Walk = print_resp3(kind.op, kind.ok)
    BY <1>2, <1>6 DEF Layout, Walk
  <2>3. Shown(Walk, TRUE)
    BY <1>3, <1>4, <1>6, <2>1, <2>2, Resp3Shown
  <2> QED
    BY <1>4, <2>3, ShownNames
<1>7. CASE kind.ver = 2 /\ kind.call
  <2>1. kind.op \in Ops2
    BY <1>1, <1>7, KindFields
  <2>2. message = Args2(kind.op, v) /\ Walk = print_call2(kind.op)
    BY <1>2, <1>7 DEF Layout, Walk
  <2>3. Shown(Walk, TRUE)
    BY <1>3, <1>4, <2>1, <2>2, Call2Shown
  <2> QED
    BY <1>4, <2>3, ShownNames
<1>8. CASE kind.ver = 2 /\ ~ kind.call
  <2>1. kind.op \in Ops2 /\ kind.ok \in BOOLEAN
    BY <1>1, <1>8, KindFields
  <2>2. message = Res2(kind.op, kind.ok, v) /\ Walk = print_resp2(kind.op, kind.ok)
    BY <1>2, <1>8 DEF Layout, Walk
  <2>3. Shown(Walk, TRUE)
    BY <1>3, <1>4, <2>1, <2>2, Resp2Shown
  <2> QED
    BY <1>4, <2>3, ShownNames
<1> QED
  BY <1>1, <1>5, <1>6, <1>7, <1>8, KindFields

LEMMA DecodeStep ==
    ASSUME DecodersInv, NEW w, w = Walk, Decode(w)
    PROVE  DecodersInv'
<1>1. /\ outcome = "loaded"
      /\ outcome' = (IF w.crashed THEN "crash" ELSE IF w.p = NULL THEN "short" ELSE "ok")
      /\ printed' = w.printed
      /\ message' = message /\ actual' = actual /\ junk' = junk /\ kind' = kind
  BY DEF Decode
<1>2. Context /\ Shown(w, FALSE) /\ (CutInHandle \/ Shown(w, TRUE))
  BY <1>1, WalkShown DEF DecodersInv
<1>3. Messages'
  <2>1. /\ kind \in Kinds /\ actual \in Nat /\ junk \in {0, 1}
        /\ \E v \in Variants : message = Layout(kind, v)
    BY <1>1 DEF DecodersInv, Messages
  <2>2. omitReaddirContents' = omitReaddirContents
    BY DEF Decode
  <2>3. \A v \in Variants : Layout(kind, v)' = Layout(kind, v)
    <3> SUFFICES ASSUME NEW v \in Variants PROVE Layout(kind, v)' = Layout(kind, v)
      OBVIOUS
    <3>1. \A words : Listed(words)' = Listed(words)
      BY <2>2 DEF Listed
    <3> QED
      BY <1>1, <2>2, <3>1 DEF Layout, Res3, Listing3, Args3, Args2, Res2
  <2> QED
    BY <1>1, <2>1, <2>3 DEF Messages
<1>4. CutInHandle' <=> CutInHandle
  BY <1>1 DEF CutInHandle
<1>5. Named' = Named
  BY <1>1 DEF Named
<1>6. FieldsRight'
  <2>1. ASSUME ~ CutInHandle
        PROVE  \A y \in w.printed : y[2] <= Len(message) => message[y[2]].name = y[1]
    BY <1>2, <2>1 DEF Shown
  <2> QED
    BY <1>1, <1>4, <2>1 DEF FieldsRight
<1>7. WholePrinted'
  <2>1. Len(message) <= actual => w.p # NULL /\ w.crashed = FALSE /\ Named \subseteq w.printed
    BY <1>2 DEF Shown
  <2>2. Whole' <=> Len(message) <= actual
    BY <1>1 DEF Whole
  <2> QED
    BY <1>1, <1>5, <2>1, <2>2 DEF WholePrinted
<1>8. CutMarked'
  <2>1. \A y \in w.printed : y[2] <= actual + 1
    BY <1>2 DEF Shown
  <2>2. ASSUME ~ CutInHandle, w.p # NULL, NEW y \in Named \ w.printed
        PROVE  y[2] > actual + 1 \/ y[2] \in Listing
    <3>1. DOMAIN message = 1..Len(message) /\ actual \in Nat
      BY <1>2 DEF Context, IsPart
    <3>2. PICK i \in 1..Len(message) : message[i].name # "" /\ y = <<message[i].name, i>>
      BY <3>1 DEF Named
    <3>3. ~ (i <= actual + 1) \/ i \in Listing
      BY <1>2, <2>2, <3>2 DEF Shown
    <3>4. i > actual + 1 \/ i \in Listing
      BY <3>1, <3>3
    <3> QED
      BY <3>2, <3>4
  <2>3. outcome' = "ok" => w.p # NULL
    BY <1>1
  <2>4. Listing' = Listing
    BY <1>1 DEF Listing
  <2>5. \A y \in printed' : y[2] <= actual' + 1
    BY <1>1, <2>1
  <2>6. outcome' = "ok" /\ ~ CutInHandle' =>
            \A y \in Named' \ printed' : y[2] > actual' + 1 \/ y[2] \in Listing'
    BY <1>1, <1>4, <1>5, <2>2, <2>3, <2>4
  <2> QED
    BY <2>5, <2>6 DEF CutMarked
<1> QED
  BY <1>3, <1>6, <1>7, <1>8 DEF DecodersInv

LEMMA Kept ==
    ASSUME NEW k, NEW v, omitReaddirContents' = omitReaddirContents, kind' = k
    PROVE  Layout(kind, v)' = Layout(k, v)
<1>1. \A words : Listed(words)' = Listed(words)
  BY DEF Listed
<1> QED
  BY <1>1 DEF Layout, Res3, Listing3, Args3, Args2, Res2

LEMMA Received ==
    ASSUME Receive
    PROVE  DecodersInv'
<1>1. PICK k \in Kinds, v \in Variants : kind' = k /\ message' = Layout(k, v)
  BY DEF Receive
<1>2. /\ actual' \in 0..(Len(message') + 1) /\ junk' \in {0, 1} /\ outcome' = "loaded"
      /\ omitReaddirContents' = omitReaddirContents
  BY DEF Receive
<1>3. Len(message') \in Nat
  BY <1>1, LayoutParts DEF IsPart
<1>4. actual' \in Nat
  BY <1>2, <1>3
<1>5. message' = Layout(kind, v)'
  BY <1>1, <1>2, Kept
<1>6. Messages'
  BY <1>1, <1>2, <1>4, <1>5 DEF Messages
<1>7. FieldsRight' /\ WholePrinted' /\ CutMarked'
  BY <1>2 DEF FieldsRight, WholePrinted, CutMarked, Done
<1> QED
  BY <1>6, <1>7 DEF DecodersInv

LEMMA Rests ==
    ASSUME outcome' = "waiting"
    PROVE  DecodersInv'
  BY DEF DecodersInv, Messages, FieldsRight, WholePrinted, CutMarked, Done

\* However the messages follow each other and wherever they are cut, what the decoders
\* print and report of each of them is as the three properties say.
THEOREM DecodersInvariant == Spec => []DecodersInv
<1>1. Init => DecodersInv
  BY DEF Init, DecodersInv, Messages, FieldsRight, WholePrinted, CutMarked, Done
<1>2. DecodersInv /\ [Next]_vars => DecodersInv'
  <2> SUFFICES ASSUME DecodersInv, [Next]_vars
               PROVE  DecodersInv'
    OBVIOUS
  <2>1. CASE Receive
    BY <2>1, Received
  <2>2. CASE nfs_v3_print_call
    <3> DEFINE w == print_call3(kind.op)
    <3>1. Decode(w) /\ w = Walk
      BY <2>2 DEF nfs_v3_print_call, Walk
    <3> HIDE DEF w
    <3> QED
      BY <3>1, DecodeStep
  <2>3. CASE nfs_v3_print_resp
    <3> DEFINE w == print_resp3(kind.op, kind.ok)
    <3>1. Decode(w) /\ w = Walk
      BY <2>3 DEF nfs_v3_print_resp, Walk
    <3> HIDE DEF w
    <3> QED
      BY <3>1, DecodeStep
  <2>4. CASE nfs_v2_print_call
    <3> DEFINE w == print_call2(kind.op)
    <3>1. Decode(w) /\ w = Walk
      BY <2>4 DEF nfs_v2_print_call, Walk
    <3> HIDE DEF w
    <3> QED
      BY <3>1, DecodeStep
  <2>5. CASE nfs_v2_print_resp
    <3> DEFINE w == print_resp2(kind.op, kind.ok)
    <3>1. Decode(w) /\ w = Walk
      BY <2>5 DEF nfs_v2_print_resp, Walk
    <3> HIDE DEF w
    <3> QED
      BY <3>1, DecodeStep
  <2>6. CASE NextLine
    BY <2>6, Rests DEF NextLine
  <2>7. CASE UNCHANGED vars
    <3>1. /\ message' = message /\ actual' = actual /\ junk' = junk /\ kind' = kind
          /\ outcome' = outcome /\ printed' = printed
          /\ omitReaddirContents' = omitReaddirContents
      BY <2>7 DEF vars
    <3>2. Messages'
      BY <3>1, Kept DEF DecodersInv, Messages
    <3>3. FieldsRight' <=> FieldsRight
      BY <3>1 DEF FieldsRight, Done, CutInHandle
    <3>4. Named' = Named
      BY <3>1 DEF Named
    <3>5. CutMarked' <=> CutMarked
      BY <3>1, <3>4 DEF CutMarked, Done, CutInHandle, Listing
    <3>6. WholePrinted' <=> WholePrinted
      BY <3>1, <3>4 DEF WholePrinted, Done, Whole
    <3> QED
      BY <3>2, <3>3, <3>5, <3>6 DEF DecodersInv
  <2> QED
    BY <2>1, <2>2, <2>3, <2>4, <2>5, <2>6, <2>7 DEF Next
<1> QED
  BY <1>1, <1>2, PTL DEF Spec

\* Whatever is optional, repeated or cut: no field is printed in the place of another.
THEOREM PrintsUnderTheRightName == Spec => []FieldsRight
  BY DecodersInvariant, PTL DEF DecodersInv

\* Of a message that was captured as a whole nothing is left out, and none is marked short.
THEOREM PrintsTheWhole == Spec => []WholePrinted
  BY DecodersInvariant, PTL DEF DecodersInv

\* What is not marked as short lacks nothing that was captured but a listing that was
\* cut, and nothing is printed that was not, but one word, unless a handle of WRITE was cut.
THEOREM MarksWhatWasCut == Spec => []CutMarked
  BY DecodersInvariant, PTL DEF DecodersInv

-----------------------------------------------------------------------------
\* The counters.

\* There is one word with a label in the message, and it alone was printed under it.
Only(k, label) ==
    k \in 1..Len(message) /\ \A i \in 1..Len(message) : message[i].name = label <=> i = k
Prints(x, k, label) ==
    <<label, k>> \in x.printed /\ \A y \in x.printed : y[1] = label => y[2] = k

\* What may stand before a field.
IsName(label) == label # ""

\* No word of a part has a label.
Other(part, label) == \A i \in 1..Len(part) : part[i].name # label

LEMMA OtherJoin ==
    ASSUME NEW a, NEW z, NEW label, IsPart(a), IsPart(z), Other(a, label), Other(z, label)
    PROVE  Other(a \o z, label)
<1>1. /\ Len(a) \in Nat /\ Len(z) \in Nat /\ Len(a \o z) = Len(a) + Len(z)
      /\ \A i \in 1..(Len(a) + Len(z)) : (a \o z)[i] = IF i <= Len(a) THEN a[i] ELSE z[i - Len(a)]
  BY JoinParts DEF IsPart
<1>2. ASSUME NEW i \in 1..(Len(a) + Len(z)) PROVE (a \o z)[i].name # label
  <2>1. CASE i <= Len(a)
    BY <1>1, <1>2, <2>1 DEF Other
  <2>2. CASE ~ (i <= Len(a))
    <3>1. i - Len(a) \in 1..Len(z)
      BY <1>1, <1>2, <2>2
    <3> QED
      BY <1>1, <1>2, <2>2, <3>1 DEF Other
  <2> QED
    BY <2>1, <2>2
<1> QED
  BY <1>1, <1>2 DEF Other

LEMMA OtherWord ==
    ASSUME NEW name, NEW label, name # label, NEW value \in Int
    PROVE  Other(W(name, value), label)
<1> DEFINE a == W(name, value)
<1>1. Len(a) = 1 /\ a[1] = [name |-> name, value |-> value]
  BY WordParts
<1> HIDE DEF a
<1>2. a[1].name = name
  BY <1>1, AWord
<1>3. \A i \in 1..1 : i = 1
  OBVIOUS
<1>4. Other(a, label)
  BY <1>1, <1>2, <1>3 DEF Other
<1> QED
  BY <1>4 DEF a

LEMMA OtherRepeat ==
    ASSUME NEW name, NEW label, name # label, NEW m \in Nat
    PROVE  Other(Repeat(name, m), label)
<1>1. Len(Repeat(name, m)) = m
  BY RepeatParts
<1>2. \A i \in 1..m : Repeat(name, m)[i].name = name
  BY RepeatNames
<1> QED
  BY <1>1, <1>2 DEF Other

LEMMA OtherFields ==
    ASSUME NEW names, NEW m \in Nat, DOMAIN names = 1..m, NEW label,
           \A i \in 1..m : names[i] # label
    PROVE  Other(Fields(names), label)
<1>1. /\ Len(Fields(names)) = m
      /\ \A i \in 1..m : Fields(names)[i] = [name |-> names[i], value |-> 0]
  BY FieldsParts
<1>2. \A i \in 1..m : Fields(names)[i].name = names[i]
  BY <1>1, AWord
<1> QED
  BY <1>1, <1>2 DEF Other

LEMMA AtOther ==
    ASSUME NEW j \in Nat \ {0}, NEW part, NEW label, Context, At(j, part, TRUE), Other(part, label)
    PROVE  \A i \in j..(j + Len(part) - 1) : message[i].name # label
<1>1. /\ Len(part) \in Nat
      /\ \A i \in 1..Len(part) : message[j + i - 1].name = part[i].name
  BY DEF At, IsPart
<1>2. ASSUME NEW i \in j..(j + Len(part) - 1) PROVE message[i].name # label
  <2> DEFINE h == (i - j) + 1
  <2>1. h \in 1..Len(part) /\ j + h - 1 = i
    BY <1>1
  <2> HIDE DEF h
  <2> QED
    BY <1>1, <2>1 DEF Other
<1> QED
  BY <1>2

\* The word between two parts.
LEMMA OnlyOne ==
    ASSUME NEW k \in Nat \ {0}, NEW label, NEW value \in Int, Context,
           At(k, W(label, value), TRUE),
           \A i \in 1..(k - 1) : message[i].name # label,
           \A i \in (k + 1)..Len(message) : message[i].name # label
    PROVE  Only(k, label)
<1>1. k + 1 <= Len(message) + 1 /\ message[k].name = label /\ Len(message) \in Nat
  BY AtWord DEF Context, IsPart
<1>2. \A i \in 1..Len(message) : i = k \/ i \in 1..(k - 1) \/ i \in (k + 1)..Len(message)
  BY <1>1
<1>3. k \in 1..Len(message)
  BY <1>1
<1> QED
  BY <1>1, <1>2, <1>3 DEF Only

LEMMA Through ==
    \A k \in Nat \ {0}, m \in Nat :
        k \in 1..m => k \in 1..((k + 1) - 1) /\ 1..((k + 1) - 1) \subseteq 1..m
  OBVIOUS

LEMMA OnlyName ==
    ASSUME NEW k, NEW label, Only(k, label)
    PROVE  k \in 1..Len(message) /\ message[k].name = label
  BY DEF Only

\* A walk that came past it has printed it, and goes on without it.
LEMMA SaidPrints ==
    ASSUME NEW x, NEW k \in Nat \ {0}, NEW label, IsName(label), Context, Only(k, label),
           Walked(x, k + 1, k, TRUE), k <= actual
    PROVE  Prints(x, k, label)
<1>1. /\ \A y \in x.printed : y[2] \in 1..((k + 1) - 1) /\ message[y[2]].name = y[1]
      /\ \A i \in 1..((k + 1) - 1) : message[i].name # "" => <<message[i].name, i>> \in x.printed
  <2>1. x.p # NULL /\ \A i \in 1..((k + 1) - 1) : i <= actual + 1
    BY DEF Walked, Came, Context, NULL
  <2> QED
    BY <2>1 DEF Walked, Said, SaidRight, SaidAll
<1>2. /\ k \in 1..Len(message) /\ k \in 1..((k + 1) - 1) /\ message[k].name = label
      /\ 1..((k + 1) - 1) \subseteq 1..Len(message)
  <2>1. Len(message) \in Nat
    BY DEF Context, IsPart
  <2>2. k \in 1..Len(message) /\ message[k].name = label
    BY OnlyName
  <2>3. k \in 1..((k + 1) - 1) /\ 1..((k + 1) - 1) \subseteq 1..Len(message)
    BY <2>1, <2>2, Through
  <2> QED
    BY <2>2, <2>3
<1>3. <<label, k>> \in x.printed
  BY <1>1, <1>2 DEF IsName
<1>4. ASSUME NEW y \in x.printed, y[1] = label PROVE y[2] = k
  <2>1. y[2] \in 1..Len(message) /\ message[y[2]].name = label
    BY <1>1, <1>2, <1>4
  <2> QED
    BY <2>1 DEF Only
<1> QED
  BY <1>3, <1>4 DEF Prints

LEMMA MorePrints ==
    ASSUME NEW x, NEW k, NEW label, NEW label2, label # label2, Prints(x, k, label), NEW y,
           x.printed \subseteq y.printed, \A z \in y.printed : z \in x.printed \/ z[1] = label2
    PROVE  Prints(y, k, label)
  BY DEF Prints

LEMMA GetPrints ==
    ASSUME NEW x, AnyWalk(x), NEW k, NEW label, NEW label2, label # label2, Prints(x, k, label),
           NEW m \in Nat, NEW needed \in Nat
    PROVE  Prints(Get(x, label2, m, needed), k, label)
<1> DEFINE y == Get(x, label2, m, needed)
           more == {<<label2, i>> : i \in x.p..(x.p + m - 1)}
<1>1. y.printed = x.printed \/ y.printed = x.printed \cup more
  BY FailAny, PutAny DEF Get
<1>2. \A z \in more : z[1] = label2
  OBVIOUS
<1> HIDE DEF y, more
<1>3. x.printed \subseteq y.printed /\ \A z \in y.printed : z \in x.printed \/ z[1] = label2
  BY <1>1, <1>2
<1>4. Prints(y, k, label)
  BY <1>3, MorePrints
<1> QED
  BY <1>4 DEF y

LEMMA CountElsewhere ==
    /\ \A i \in 1..21 : Fattr3[i] # "count"
    /\ \A i \in 1..17 : Fattr2[i] # "count"
    /\ IsName("count") /\ IsName("tcount")
<1>1. \A i \in 1..21 : Fattr3[i] # "count"
  BY DEF Fattr3
<1>2. \A i \in 1..17 : Fattr2[i] # "count"
  BY DEF Fattr2
<1>3. IsName("count") /\ IsName("tcount")
  BY DEF IsName
<1> QED
  BY <1>1, <1>2, <1>3

\* Calls of WRITE, version 2.
LEMMA Write2Counted ==
    ASSUME Context, NEW fh, NEW l1, NEW l2, NEW none, NEW label, fh # label, l1 # label, l2 # label,
           none # label, IsName(label), NEW value \in Int,
           message = (((Repeat(fh, 8) \o W(l1, 0)) \o W(l2, 0)) \o W(label, value))
                     \o Repeat(none, 1),
           NEW x, x = print_uint32(print_uint32(print_uint32(Get(Start, fh, 8, 8), l1), l2), label)
    PROVE  /\ Only(11, label) /\ message[11].value = value
           /\ 11 <= actual => Prints(x, 11, label)
<1> DEFINE a1 == Repeat(fh, 8)
           a2 == W(l1, 0)
           a3 == W(l2, 0)
           a4 == W(label, value)
           a5 == Repeat(none, 1)
           w1 == Get(Start, fh, 8, 8)
           w2 == print_uint32(w1, l1)
           w3 == print_uint32(w2, l2)
<1>1. 8 \in Nat /\ 0 \in Int /\ 1 \in Nat
  OBVIOUS
<1>2. IsPart(a1) /\ Len(a1) = 8 /\ IsPart(a5) /\ Len(a5) = 1
  BY <1>1, RepeatParts
<1>3. IsPart(a2) /\ Len(a2) = 1 /\ IsPart(a3) /\ Len(a3) = 1 /\ IsPart(a4) /\ Len(a4) = 1
  BY <1>1, WordParts
<1>4. Other(a1, label) /\ Other(a5, label)
  BY <1>1, OtherRepeat
<1>5. Other(a2, label) /\ Other(a3, label)
  BY <1>1, OtherWord
<1>6. message = (((a1 \o a2) \o a3) \o a4) \o a5 /\ x = print_uint32(w3, label)
  OBVIOUS
<1> HIDE DEF a1, a2, a3, a4, a5
<1>7. /\ IsPart(a1) /\ IsPart(a2) /\ IsPart(a3) /\ IsPart(a4) /\ IsPart(a5)
      /\ message = (((a1 \o a2) \o a3) \o a4) \o a5
  BY <1>2, <1>3, <1>6
<1>8. /\ At(1, a1, TRUE) /\ At(1 + Len(a1), a2, TRUE) /\ At((1 + Len(a1)) + Len(a2), a3, TRUE)
      /\ At(((1 + Len(a1)) + Len(a2)) + Len(a3), a4, TRUE)
      /\ At((((1 + Len(a1)) + Len(a2)) + Len(a3)) + Len(a4), a5, TRUE)
  <2>1. At(1, a1, TRUE)
    BY <1>7, FiveParts, ZenonT(40)
  <2>2. At(1 + Len(a1), a2, TRUE)
    BY <1>7, FiveParts, ZenonT(40)
  <2>3. At((1 + Len(a1)) + Len(a2), a3, TRUE)
    BY <1>7, FiveParts, ZenonT(40)
  <2>4. At(((1 + Len(a1)) + Len(a2)) + Len(a3), a4, TRUE)
    BY <1>7, FiveParts, ZenonT(40)
  <2>5. At((((1 + Len(a1)) + Len(a2)) + Len(a3)) + Len(a4), a5, TRUE)
    BY <1>7, FiveParts, ZenonT(40)
  <2> QED
    BY <2>1, <2>2, <2>3, <2>4, <2>5
<1>9. Len(message) = (((Len(a1) + Len(a2)) + Len(a3)) + Len(a4)) + Len(a5)
  <2> DEFINE b2 == a1 \o a2
             b3 == b2 \o a3
             b4 == b3 \o a4
  <2>1. IsPart(b2) /\ Len(b2) = Len(a1) + Len(a2)
    BY <1>7, JoinParts
  <2> HIDE DEF b2
  <2>2. IsPart(b3) /\ Len(b3) = Len(b2) + Len(a3)
    BY <1>7, <2>1, JoinParts
  <2> HIDE DEF b3
  <2>3. IsPart(b4) /\ Len(b4) = Len(b3) + Len(a4)
    BY <1>7, <2>2, JoinParts
  <2>4. message = b4 \o a5
    BY <1>7 DEF b4, b3, b2
  <2> HIDE DEF b4
  <2>5. Len(message) = Len(b4) + Len(a5)
    BY <1>7, <2>3, <2>4, JoinParts
  <2> QED
    BY <2>1, <2>2, <2>3, <2>5
<1>10. /\ 1 + Len(a1) = 9 /\ (1 + Len(a1)) + Len(a2) = 10
       /\ ((1 + Len(a1)) + Len(a2)) + Len(a3) = 11
       /\ (((1 + Len(a1)) + Len(a2)) + Len(a3)) + Len(a4) = 12
       /\ (((Len(a1) + Len(a2)) + Len(a3)) + Len(a4)) + Len(a5) = 12
  BY <1>2, <1>3
<1>11. /\ At(9, a2, TRUE) /\ At(10, a3, TRUE) /\ At(11, a4, TRUE) /\ At(12, a5, TRUE)
       /\ Len(message) = 12
  BY <1>8, <1>9, <1>10
<1>12. /\ 1 \in Nat \ {0} /\ 9 \in Nat \ {0} /\ 10 \in Nat \ {0} /\ 11 \in Nat \ {0}
       /\ 12 \in Nat \ {0} /\ 11 \in Nat
  OBVIOUS
<1>13. /\ \A i \in 1..(1 + Len(a1) - 1) : message[i].name # label
       /\ \A i \in 9..(9 + Len(a2) - 1) : message[i].name # label
       /\ \A i \in 10..(10 + Len(a3) - 1) : message[i].name # label
       /\ \A i \in 12..(12 + Len(a5) - 1) : message[i].name # label
  BY <1>4, <1>5, <1>8, <1>11, <1>12, AtOther
<1>14. Only(11, label)
  <2>1. /\ \A i \in 1..(11 - 1) : \/ i \in 1..(1 + 8 - 1) \/ i \in 9..(9 + 1 - 1)
                                  \/ i \in 10..(10 + 1 - 1)
        /\ \A i \in (11 + 1)..12 : i \in 12..(12 + 1 - 1)
    OBVIOUS
  <2>2. \A i \in 1..(11 - 1) : message[i].name # label
    BY <1>2, <1>3, <1>13, <2>1
  <2>3. \A i \in (11 + 1)..Len(message) : message[i].name # label
    BY <1>2, <1>11, <1>13, <2>1
  <2> QED
    BY <1>11, <1>12, <2>2, <2>3, OnlyOne DEF a4
<1>15. message[11].value = value
  <2>1. At(11, W(label, value), TRUE)
    BY <1>11 DEF a4
  <2> QED
    BY <1>12, <2>1, AtWord
<1>16. ASSUME 11 <= actual PROVE Prints(x, 11, label)
  <2>1. Walked(Start, 1, 11, TRUE)
    BY <1>12, StartWalked
  <2>2. /\ \A i \in 1..(1 + 8 - 1) : message[i].name = fh
        /\ message[9].name = l1 /\ message[10].name = l2 /\ message[11].name = label
    <3>1. \A i \in 1..(1 + 8 - 1) : message[i].name = fh
      <4>1. At(1, Repeat(fh, 8), TRUE)
        BY <1>8 DEF a1
      <4> QED
        BY <1>1, <1>12, <4>1, AtRepeat
    <3>2. message[9].name = l1 /\ message[10].name = l2
      <4>1. At(9, W(l1, 0), TRUE)
        BY <1>11 DEF a2
      <4>2. message[9].name = l1
        BY <1>1, <1>12, <4>1, AtWord
      <4>3. At(10, W(l2, 0), TRUE)
        BY <1>11 DEF a3
      <4>4. message[10].name = l2
        BY <1>1, <1>12, <4>3, AtWord
      <4> QED
        BY <4>2, <4>4
    <3>3. message[11].name = label
      BY <1>11, <1>12, AtWord DEF a4
    <3> QED
      BY <3>1, <3>2, <3>3
  <2>3. /\ 1 + 8 = 9 /\ 9 + 1 = 10 /\ 10 + 1 = 11 /\ 8 <= 8 /\ 8 <= 8 + 1 /\ 1 + 8 <= 11 + 1
        /\ 9 + 1 <= 11 + 1 /\ 10 + 1 <= 11 + 1 /\ 11 + 1 <= 11 + 1
    OBVIOUS
  <2>4. Walked(w1, 9, 11, TRUE)
    <3>1. Walked(w1, 1 + 8, 11, TRUE)
      BY <1>1, <1>12, <2>1, <2>2, <2>3, GetWalked
    <3> QED
      BY <2>3, <3>1
  <2> HIDE DEF w1
  <2>5. Walked(w2, 10, 11, TRUE)
    <3>1. Walked(w2, 9 + 1, 11, TRUE)
      BY <1>12, <2>2, <2>3, <2>4, PrintWalked
    <3> QED
      BY <2>3, <3>1
  <2> HIDE DEF w2
  <2>6. Walked(w3, 11, 11, TRUE)
    <3>1. Walked(w3, 10 + 1, 11, TRUE)
      BY <1>12, <2>2, <2>3, <2>5, PrintWalked
    <3> QED
      BY <2>3, <3>1
  <2> HIDE DEF w3
  <2>7. Walked(print_uint32(w3, label), 11 + 1, 11, TRUE)
    BY <1>12, <2>2, <2>3, <2>6, PrintWalked
  <2>8. Walked(x, 11 + 1, 11, TRUE)
    BY <1>6, <2>7
  <2> QED
    BY <1>12, <1>14, <1>16, <2>8, SaidPrints
<1> QED
  BY <1>14, <1>16, <1>15

\* The word behind one part and before another.
LEMMA OneBetween ==
    ASSUME Context, NEW a, NEW z, NEW label, NEW value \in Int, NEW k \in Nat \ {0},
           At(1, a, TRUE), k = 1 + Len(a), At(k, W(label, value), TRUE), At(k + 1, z, TRUE),
           Len(message) = k + Len(z), Other(a, label), Other(z, label)
    PROVE  Only(k, label) /\ message[k].value = value
<1>1. 1 \in Nat \ {0} /\ k + 1 \in Nat \ {0} /\ Len(a) \in Nat /\ Len(z) \in Nat
  BY DEF At, IsPart
<1>2. \A i \in 1..(1 + Len(a) - 1) : message[i].name # label
  BY <1>1, AtOther
<1>3. \A i \in (k + 1)..(k + 1 + Len(z) - 1) : message[i].name # label
  BY <1>1, AtOther
<1>4. 1 + Len(a) - 1 = k - 1 /\ k + 1 + Len(z) - 1 = k + Len(z)
  BY <1>1
<1>5. Only(k, label)
  <2>1. /\ \A i \in 1..(k - 1) : message[i].name # label
        /\ \A i \in (k + 1)..Len(message) : message[i].name # label
    BY <1>2, <1>3, <1>4
  <2> QED
    BY <2>1, OnlyOne
<1>6. message[k].value = value
  BY AtWord
<1> QED
  BY <1>5, <1>6

LEMMA WordPrints ==
    ASSUME Context, NEW x, NEW label, IsName(label), NEW k \in Nat \ {0}, Only(k, label),
           Walked(x, k, k, TRUE)
    PROVE  k <= actual => Prints(print_uint32(x, label), k, label)
<1> DEFINE y == print_uint32(x, label)
<1>1. k \in Nat /\ k + 1 <= k + 1 /\ message[k].name = label
  BY OnlyName
<1>2. Walked(y, k + 1, k, TRUE)
  BY <1>1, PrintWalked
<1> HIDE DEF y
<1>3. k <= actual => Prints(y, k, label)
  BY <1>2, SaidPrints
<1> QED
  BY <1>3 DEF y

\* Replies to READ, version 2.
LEMMA Read2Counted ==
    ASSUME Context, NEW value \in Int, NEW z, IsPart(z), Other(z, "count"),
           message = (Fields(Fattr2) \o W("count", value)) \o z
    PROVE  /\ Only(18, "count") /\ message[18].value = value
           /\ 18 <= actual => Prints(print_uint32(print_fattr2(Start), "count"), 18, "count")
<1> DEFINE a == Fields(Fattr2)
           count == W("count", value)
           head == a \o count
           w == print_fattr2(Start)
<1>1. IsPart(a) /\ Len(a) = 17 /\ DOMAIN Fattr2 = 1..17 /\ Len(Fattr2) = 17
  BY Fields2Parts
<1>2. IsPart(count) /\ Len(count) = 1
  BY WordParts
<1>3. message = (a \o count) \o z
  OBVIOUS
<1>4. Other(a, "count")
  <2>1. 17 \in Nat /\ \A i \in 1..17 : Fattr2[i] # "count"
    BY CountElsewhere
  <2> QED
    BY <1>1, <2>1, OtherFields
<1>5. /\ 1 \in Nat \ {0} /\ 17 \in Nat /\ 18 \in Nat \ {0} /\ 18 \in Nat
      /\ 1 + 17 = 18 /\ 1 + 17 <= 18 + 1 /\ 17 + 1 = 18
  OBVIOUS
<1> HIDE DEF a, count
<1>6. IsPart(head) /\ Len(head) = Len(a) + Len(count)
  BY <1>1, <1>2, JoinParts
<1>7. Len(head) = 18
  BY <1>1, <1>2, <1>5, <1>6
<1>8. message = head \o z
  BY <1>3
<1>9. Len(message) = 18 + Len(z)
  <2> HIDE DEF head
  <2>1. Len(message) = Len(head) + Len(z)
    BY <1>6, <1>8, JoinParts
  <2> QED
    BY <1>7, <2>1
<1>10. At(1, head, TRUE) /\ At(18 + 1, z, TRUE)
  <2> HIDE DEF head
  <2>1. At(1, head \o z, TRUE)
    BY <1>8, AtMessage
  <2>2. At(1, head, TRUE) /\ At(1 + Len(head), z, TRUE)
    BY <1>5, <1>6, <2>1, AtJoin
  <2>3. 1 + Len(head) = 18 + 1
    BY <1>7
  <2> QED
    BY <2>2, <2>3
<1>11. At(1, a, TRUE) /\ At(18, count, TRUE)
  <2>1. At(1, a, TRUE) /\ At(1 + Len(a), count, TRUE)
    BY <1>1, <1>2, <1>5, <1>10, AtJoin
  <2> QED
    BY <1>1, <1>5, <2>1
<1>12. Only(18, "count") /\ message[18].value = value
  <2>1. At(18, W("count", value), TRUE) /\ 18 = 1 + Len(a)
    BY <1>1, <1>5, <1>11 DEF count
  <2> QED
    BY <1>4, <1>5, <1>9, <1>10, <1>11, <2>1, OneBetween
<1>13. Walked(w, 18, 18, TRUE)
  <2>1. Walked(Start, 1, 18, TRUE)
    BY <1>5, StartWalked
  <2>2. At(1, Fields(Fattr2), TRUE)
    BY <1>11 DEF a
  <2>3. Walked(GetAll(Start, Fattr2), 1 + 17, 18, TRUE)
    BY <1>1, <1>5, <2>1, <2>2, GetAllWalked
  <2> QED
    BY <1>5, <2>3 DEF print_fattr2
<1> HIDE DEF w
<1>14. 18 <= actual => Prints(print_uint32(w, "count"), 18, "count")
  <2>1. IsName("count")
    BY CountElsewhere
  <2> QED
    BY <1>5, <1>12, <1>13, <2>1, WordPrints
<1> QED
  BY <1>12, <1>14 DEF w

LEMMA OtherFlag ==
    ASSUME NEW label, IsName(label)
    PROVE  Other(Flag(TRUE), label) /\ Other(Flag(FALSE), label)
<1> DEFINE none == ""
<1>1. none # label
  BY DEF IsName
<1>2. Flag(TRUE) = W(none, 1) /\ Flag(FALSE) = W(none, 0)
  BY DEF Flag
<1>3. 0 \in Int /\ 1 \in Int
  OBVIOUS
<1> HIDE DEF none
<1> QED
  BY <1>1, <1>2, <1>3, OtherWord

\* Replies to READ, version 3.
LEMMA Read3Counted ==
    ASSUME Context, NEW v, IsVariant(v),
           message = Attr3(v) \o ((W("count", v.count) \o W("eof", 0)) \o Rest),
           NEW k, k = 1 + Len(Attr3(v)),
           NEW x, x = print_uint32(print_uint32(print_post_op_attr3(Start), "count"), "eof")
    PROVE  /\ Only(k, "count") /\ message[k].value = v.count
           /\ k <= actual => Prints(x, k, "count")
<1> DEFINE a == Attr3(v)
           count == W("count", v.count)
           eof == W("eof", 0)
           two == count \o eof
           three == two \o Rest
           z == eof \o Rest
           w == print_post_op_attr3(Start)
<1>1. IsPart(a) /\ Len(a) \in Nat \ {0}
  BY Attr3Parts
<1>2. v.count \in Int /\ 0 \in Int /\ 1 \in Nat /\ 1 \in Nat \ {0}
  BY DEF IsVariant
<1>3. IsPart(count) /\ Len(count) = 1 /\ IsPart(eof) /\ Len(eof) = 1
  BY <1>2, WordParts
<1>4. IsPart(Rest) /\ Len(Rest) = 1
  BY <1>2, RepeatParts DEF Rest
<1>5. Other(eof, "count") /\ Other(Rest, "count")
  <2>1. Other(eof, "count")
    BY <1>2, OtherWord
  <2>2. Other(Rest, "count")
    BY <1>2, OtherRepeat DEF Rest
  <2> QED
    BY <2>1, <2>2
<1>6. Other(a, "count")
  <2> DEFINE f == Fields(Fattr3)
             yes == Flag(TRUE)
             no == Flag(FALSE)
  <2>1. Other(f, "count")
    <3>1. 21 \in Nat /\ DOMAIN Fattr3 = 1..21 /\ \A i \in 1..21 : Fattr3[i] # "count"
      BY CountElsewhere DEF Fattr3
    <3> QED
      BY <3>1, OtherFields
  <2>2. Other(yes, "count") /\ Other(no, "count")
    BY CountElsewhere, OtherFlag
  <2>3. IsPart(f) /\ IsPart(yes)
    BY Fattr3Parts, Flagged
  <2>4. a = yes \o f \/ a = no
    BY DEF Attr3, IfSet
  <2> HIDE DEF f, yes, no, a
  <2>5. Other(yes \o f, "count")
    BY <2>1, <2>2, <2>3, OtherJoin
  <2> QED
    BY <2>2, <2>4, <2>5
<1>7. message = a \o ((count \o eof) \o Rest)
  OBVIOUS
<1>8. k \in Nat \ {0} /\ k = 1 + Len(a)
  BY <1>1
<1> HIDE DEF a, count, eof
<1>9. IsPart(two) /\ Len(two) = 2
  <2>1. IsPart(two) /\ Len(two) = Len(count) + Len(eof)
    BY <1>3, JoinParts
  <2> QED
    BY <1>3, <2>1
<1>10. IsPart(three) /\ Len(three) = 3
  <2> HIDE DEF two
  <2>1. IsPart(three) /\ Len(three) = Len(two) + Len(Rest)
    BY <1>4, <1>9, JoinParts
  <2> QED
    BY <1>4, <1>9, <2>1
<1>11. Len(message) = k + 2
  <2>1. message = a \o three
    BY <1>7
  <2> HIDE DEF three
  <2>2. Len(message) = Len(a) + Len(three)
    BY <1>1, <1>10, <2>1, JoinParts
  <2> QED
    BY <1>1, <1>8, <1>10, <2>2
<1>12. At(1, a, TRUE) /\ At(k, three, TRUE)
  <2>1. message = a \o three
    BY <1>7
  <2> HIDE DEF three
  <2>2. At(1, a \o three, TRUE)
    BY <2>1, AtMessage
  <2>3. At(1, a, TRUE) /\ At(1 + Len(a), three, TRUE)
    BY <1>1, <1>2, <1>10, <2>2, AtJoin
  <2> QED
    BY <1>8, <2>3
<1>13. At(k, two, TRUE) /\ At(k + 2, Rest, TRUE)
  <2> HIDE DEF two
  <2>1. At(k, two \o Rest, TRUE)
    BY <1>12
  <2>2. At(k, two, TRUE) /\ At(k + Len(two), Rest, TRUE)
    BY <1>4, <1>8, <1>9, <2>1, AtJoin
  <2> QED
    BY <1>9, <2>2
<1>14. At(k, count, TRUE) /\ At(k + 1, eof, TRUE)
  <2>1. At(k, count \o eof, TRUE)
    BY <1>13
  <2>2. At(k, count, TRUE) /\ At(k + Len(count), eof, TRUE)
    BY <1>3, <1>8, <2>1, AtJoin
  <2> QED
    BY <1>3, <2>2
<1>15. Only(k, "count") /\ message[k].value = v.count
  <2>1. \A i \in 1..(1 + Len(a) - 1) : message[i].name # "count"
    BY <1>2, <1>6, <1>12, AtOther
  <2>2. \A i \in (k + 1)..((k + 1) + Len(eof) - 1) : message[i].name # "count"
    <3>1. k + 1 \in Nat \ {0}
      BY <1>8
    <3> QED
      BY <1>5, <1>14, <3>1, AtOther
  <2>3. \A i \in (k + 2)..((k + 2) + Len(Rest) - 1) : message[i].name # "count"
    <3>1. k + 2 \in Nat \ {0}
      BY <1>8
    <3> QED
      BY <1>5, <1>13, <3>1, AtOther
  <2>4. /\ \A i \in 1..(k - 1) : i \in 1..(1 + Len(a) - 1)
        /\ \A i \in (k + 1)..Len(message) : \/ i \in (k + 1)..((k + 1) + Len(eof) - 1)
                                            \/ i \in (k + 2)..((k + 2) + Len(Rest) - 1)
    BY <1>1, <1>3, <1>4, <1>8, <1>11
  <2>5. /\ \A i \in 1..(k - 1) : message[i].name # "count"
        /\ \A i \in (k + 1)..Len(message) : message[i].name # "count"
    BY <2>1, <2>2, <2>3, <2>4
  <2>6. At(k, W("count", v.count), TRUE)
    BY <1>14 DEF count
  <2>7. message[k].value = v.count
    BY <1>2, <1>8, <2>6, AtWord, ZenonT(40)
  <2> QED
    BY <1>2, <1>8, <2>5, <2>6, <2>7, OnlyOne
<1>16. Walked(w, k, k, TRUE) /\ AnyWalk(w)
  <2> DEFINE part == IfSet(v.attr, Fields(Fattr3))
  <2>1. a = part /\ v.attr \in BOOLEAN
    BY DEF a, Attr3, IsVariant
  <2> HIDE DEF part
  <2>2. Walked(Start, 1, k, TRUE) /\ k \in Nat
    <3>1. k \in Nat
      BY <1>8
    <3> QED
      BY <3>1, StartWalked
  <2>3. At(1, part, TRUE) /\ 1 + Len(part) = k /\ 1 + Len(part) <= k + 1
    <3>1. At(1, part, TRUE)
      BY <1>12, <2>1
    <3>2. 1 + Len(part) = k
      BY <1>8, <2>1
    <3>3. k <= k + 1
      BY <1>8
    <3> QED
      BY <3>1, <3>2, <3>3
  <2>4. Walked(w, 1 + Len(part), k, TRUE)
    <3>1. /\ At(1, IfSet(v.attr, Fields(Fattr3)), TRUE)
          /\ 1 + Len(IfSet(v.attr, Fields(Fattr3))) <= k + 1
      BY <2>3 DEF part
    <3>2. Walked(print_post_op_attr3(Start), 1 + Len(IfSet(v.attr, Fields(Fattr3))), k, TRUE)
      BY <1>2, <2>1, <2>2, <3>1, PostOpAttr3Walked
    <3> QED
      BY <3>2 DEF part
  <2>5. Walked(w, k, k, TRUE)
    BY <2>3, <2>4
  <2> QED
    BY <2>5 DEF Walked, Came, AnyWalk
<1> HIDE DEF w
<1>17. IsName("count")
  BY CountElsewhere
<1>18. ASSUME k <= actual PROVE Prints(x, k, "count")
  <2> DEFINE y == print_uint32(w, "count")
  <2>1. Prints(y, k, "count")
    BY <1>8, <1>15, <1>16, <1>17, <1>18, WordPrints
  <2>2. AnyWalk(y)
    <3>1. k \in Nat /\ k + 1 <= k + 1 /\ message[k].name = "count"
      BY <1>8, <1>15, OnlyName, SMTT(30)
    <3>2. Walked(y, k + 1, k, TRUE)
      BY <1>8, <1>16, <3>1, PrintWalked
    <3> QED
      BY <3>2 DEF Walked, Came, AnyWalk
  <2>3. x = Get(y, "eof", 1, 0)
    BY DEF w, print_uint32
  <2>4. "count" # "eof" /\ 0 \in Nat
    OBVIOUS
  <2> HIDE DEF y
  <2>5. Prints(Get(y, "eof", 1, 0), k, "count")
    BY <1>2, <2>1, <2>2, <2>4, GetPrints
  <2> QED
    BY <2>3, <2>5
<1> QED
  BY <1>15, <1>18

LEMMA BeforeStepped ==
    ASSUME Context, NEW v, NEW q, Write3At(q, v), ~ (actual < q - 1), IsVariant(v)
    PROVE  Stepped(BeforeCount, q + 2)
  BY BeforeCountStepped

LEMMA SteppedPrints ==
    ASSUME Context, NEW x, NEW k \in Nat \ {0}, Only(k, "count"), Stepped(x, k + 1),
           k + 1 <= actual + 1, (k + 1) - 1 = k
    PROVE  AnyWalk(x) /\ Prints(x, k, "count")
<1>1. /\ AnyWalk(x)
      /\ \A y \in x.printed : y[2] \in 1..((k + 1) - 1) /\ message[y[2]].name = y[1]
      /\ \A i \in 1..((k + 1) - 1) : message[i].name # "" => <<message[i].name, i>> \in x.printed
  BY DEF Stepped
<1>2. /\ k \in 1..Len(message) /\ k \in 1..((k + 1) - 1) /\ message[k].name = "count"
      /\ 1..((k + 1) - 1) \subseteq 1..Len(message)
  <2>1. Len(message) \in Nat
    BY DEF Context, IsPart
  <2>2. k \in 1..Len(message) /\ message[k].name = "count"
    BY OnlyName
  <2>3. k \in 1..((k + 1) - 1) /\ 1..((k + 1) - 1) \subseteq 1..Len(message)
    BY <2>1, <2>2, Through
  <2> QED
    BY <2>2, <2>3
<1>3. <<"count", k>> \in x.printed
  <2>1. IsName("count")
    BY CountElsewhere
  <2> QED
    BY <1>1, <1>2, <2>1 DEF IsName
<1>4. ASSUME NEW y \in x.printed, y[1] = "count" PROVE y[2] = k
  <2>1. y[2] \in 1..Len(message) /\ message[y[2]].name = "count"
    BY <1>1, <1>2, <1>4
  <2> QED
    BY <2>1 DEF Only
<1> QED
  BY <1>1, <1>3, <1>4 DEF Prints

LEMMA PutPrints ==
    ASSUME NEW x, AnyWalk(x), NEW k, NEW label, NEW label2, label # label2, Prints(x, k, label),
           NEW m \in Nat
    PROVE  Prints(Put(x, label2, m), k, label)
<1> DEFINE y == Put(x, label2, m)
           more == {<<label2, i>> : i \in x.p..(x.p + m - 1)}
<1>1. y.printed = x.printed \cup more
  BY PutAny
<1>2. \A z \in more : z[1] = label2
  OBVIOUS
<1> HIDE DEF y, more
<1>3. x.printed \subseteq y.printed /\ \A z \in y.printed : z \in x.printed \/ z[1] = label2
  BY <1>1, <1>2
<1>4. Prints(y, k, label)
  BY <1>3, MorePrints
<1> QED
  BY <1>4 DEF y

\* Calls of WRITE, version 3.
LEMMA Write3Counted ==
    ASSUME Context, NEW v, IsVariant(v), NEW q, Write3At(q, v)
    PROVE  /\ Only(q + 2, "count") /\ message[q + 2].value = v.count
           /\ q + 2 <= actual => Prints(Write3, q + 2, "count")
<1> DEFINE k == q + 2
           size == Padded(v.fh)
           len == Len(message)
           label == "count"
           none == ""
           w == BeforeCount
           c == Xdr(w, "count", 1)
           how == Xdr(c, "stable", 1)
           x == Write3
<1>1. q \in Nat /\ q = 2 + size /\ size \in Nat /\ len = q + 4
  BY DEF Write3At
<1>2. /\ message[1].name = none /\ message[q + 4].name = none
      /\ \A i \in 2..(2 + size - 1) : message[i].name = "fh"
      /\ \A i \in q..(q + 2 - 1) : message[i].name = "off"
      /\ \A i \in k..(k + 1 - 1) : message[i].name = label
      /\ message[k].value = v.count
      /\ \A i \in (q + 3)..((q + 3) + 1 - 1) : message[i].name = "stable"
  BY DEF Write3At
<1>3. /\ "fh" # label /\ "off" # label /\ "stable" # label /\ none # label
  OBVIOUS
<1>4. Only(k, label)
  <2> HIDE DEF size, len, label, none
  <2>1. \A i \in 1..len : \/ i = 1 \/ i = q + 4 \/ i \in 2..(2 + size - 1)
                          \/ i \in q..(q + 2 - 1) \/ i \in (q + 3)..((q + 3) + 1 - 1) \/ i = k
    BY <1>1
  <2>2. \A i \in 1..len : i = k \/ message[i].name # label
    BY <1>2, <1>3, <2>1, ZenonT(40)
  <2>3. k \in k..(k + 1 - 1) /\ k \in 1..len
    BY <1>1
  <2>4. message[k].name = label
    BY <1>2, <2>3
  <2> HIDE DEF k
  <2>5. \A i \in 1..len : message[i].name = label <=> i = k
    BY <2>2, <2>4
  <2> QED
    BY <2>3, <2>5 DEF Only, len
<1>5. ASSUME k <= actual PROVE Prints(x, k, "count")
  <2>1. /\ k \in Nat \ {0} /\ 1 \in Nat /\ actual \in Nat /\ k + 1 <= actual + 1 /\ (k + 1) - 1 = k
        /\ ~ (actual < q - 1)
    <3> HIDE DEF size, len
    <3>1. actual \in Nat
      BY DEF Context
    <3> QED
      BY <1>1, <1>5, <3>1
  <2>2. Stepped(w, k)
    BY <2>1, BeforeStepped
  <2>3. \A i \in k..(k + 1 - 1) : message[i].name = "count"
    BY <1>2
  <2> HIDE DEF w
  <2>4. Stepped(c, k + 1)
    BY <2>1, <2>2, <2>3, XdrStepped
  <2> HIDE DEF c
  <2>5. AnyWalk(c) /\ Prints(c, k, "count")
    BY <1>4, <2>1, <2>4, SteppedPrints
  <2>6. "count" # "stable"
    OBVIOUS
  <2>7. Prints(how, k, "count")
    <3>1. how = c \/ how = Put(c, "stable", 1)
      BY DEF Xdr
    <3> HIDE DEF how
    <3> QED
      BY <2>1, <2>5, <2>6, <3>1, PutPrints
  <2>8. AnyWalk(how)
    <3>1. how = c \/ how = Put(c, "stable", 1)
      BY DEF Xdr
    <3> HIDE DEF how
    <3> QED
      BY <2>1, <2>5, <3>1, PutAny
  <2>9. x = how \/ x = Fail(how)
    BY DEF Write3, how, c, w
  <2> HIDE DEF how, x
  <2>10. x.printed = how.printed
    BY <2>8, <2>9, FailAny
  <2> QED
    BY <2>7, <2>10 DEF Prints
<1> QED
  BY <1>2, <1>4, <1>5

\* Where the count stands, and that it is printed if it was captured.
Stands(k, label, x) ==
    /\ k \in Nat \ {0} /\ Only(k, label) /\ message[k].value \in Int
    /\ k <= actual => Prints(x, k, label)

LEMMA Write3Stands ==
    ASSUME Context, NEW v, IsVariant(v), message = Args3("write", v)
    PROVE  \E k : Stands(k, "count", print_call3("write"))
<1>1. print_call3("write") = Write3
  BY DEF print_call3
<1>2. PICK q : Write3At(q, v)
  BY Write3Parts
<1>3. q + 2 \in Nat \ {0}
  <2>1. q \in Nat
    BY <1>2 DEF Write3At
  <2> QED
    BY <2>1
<1>4. /\ Only(q + 2, "count") /\ message[q + 2].value = v.count
      /\ q + 2 <= actual => Prints(Write3, q + 2, "count")
  BY <1>2, Write3Counted
<1>5. v.count \in Int
  BY DEF IsVariant
<1>6. Stands(q + 2, "count", Write3)
  BY <1>3, <1>4, <1>5 DEF Stands
<1> QED
  BY <1>1, <1>6

LEMMA Read3Stands ==
    ASSUME Context, NEW v, IsVariant(v), message = Res3("read", TRUE, v)
    PROVE  \E k : Stands(k, "count", print_resp3("read", TRUE))
<1> DEFINE x == print_resp3("read", TRUE)
           k == 1 + Len(Attr3(v))
<1>1. /\ message = Attr3(v) \o ((W("count", v.count) \o W("eof", 0)) \o Rest)
      /\ x = print_uint32(print_uint32(print_post_op_attr3(Start), "count"), "eof")
  BY DEF Res3, print_resp3, Made3, Wcc3Only, Ignored3
<1>2. v.count \in Int
  BY DEF IsVariant
<1>3. k \in Nat \ {0}
  <2>1. Len(Attr3(v)) \in Nat
    BY Attr3Parts
  <2> QED
    BY <2>1
<1> HIDE DEF x
<1>4. /\ Only(k, "count") /\ message[k].value = v.count
      /\ k <= actual => Prints(x, k, "count")
  BY <1>1, Read3Counted
<1>5. Stands(k, "count", x)
  BY <1>2, <1>3, <1>4 DEF Stands
<1> QED
  BY <1>5 DEF x

LEMMA Write2Stands ==
    ASSUME Context, NEW v, IsVariant(v), message = Args2("write", v)
    PROVE  \E k : Stands(k, "tcount", print_call2("write"))
<1> DEFINE x == print_call2("write")
           none == ""
           label == "tcount"
           fh == "fh"
           l1 == "begoff"
           l2 == "offset"
<1>1. /\ message = (((Repeat(fh, 8) \o W(l1, 0)) \o W(l2, 0)) \o W(label, v.count))
                  \o Repeat(none, 1)
      /\ x = print_uint32(print_uint32(print_uint32(Get(Start, fh, 8, 8), l1), l2), label)
  BY DEF Args2, print_call2, Fh2, Dir2, New2, Handle2, NFS_FHSIZE, print_fh2, print_opaque
<1>2. fh # label /\ l1 # label /\ l2 # label /\ none # label
  OBVIOUS
<1>3. IsName(label)
  BY CountElsewhere
<1>4. v.count \in Int /\ 11 \in Nat \ {0}
  BY DEF IsVariant
<1> HIDE DEF x, none, label, fh, l1, l2
<1>5. /\ Only(11, label) /\ message[11].value = v.count
      /\ 11 <= actual => Prints(x, 11, label)
  BY <1>1, <1>2, <1>3, <1>4, Write2Counted, ZenonT(40)
<1>6. Stands(11, label, x)
  BY <1>4, <1>5 DEF Stands
<1> QED
  BY <1>6 DEF x, label

LEMMA Read2Stands ==
    ASSUME Context, NEW v, IsVariant(v), message = Res2("read", TRUE, v)
    PROVE  \E k : Stands(k, "count", print_resp2("read", TRUE))
<1> DEFINE x == print_resp2("read", TRUE)
           none == ""
           z == Repeat(none, 1)
<1>1. /\ message = (Fields(Fattr2) \o W("count", v.count)) \o z
      /\ x = print_uint32(print_fattr2(Start), "count")
  BY DEF Res2, print_resp2, Attr2, FhAttr2, New2, StatusOnly2
<1>2. v.count \in Int /\ 1 \in Nat /\ 18 \in Nat \ {0}
  BY DEF IsVariant
<1>3. none # "count"
  OBVIOUS
<1> HIDE DEF none, x
<1>4. IsPart(z) /\ Other(z, "count")
  BY <1>2, <1>3, RepeatParts, OtherRepeat
<1> HIDE DEF z
<1>5. /\ Only(18, "count") /\ message[18].value = v.count
      /\ 18 <= actual => Prints(x, 18, "count")
  BY <1>1, <1>2, <1>4, Read2Counted
<1>6. Stands(18, "count", x)
  BY <1>2, <1>5 DEF Stands
<1> QED
  BY <1>6 DEF x

\* Every message that is counted.
LEMMA CountStands ==
    ASSUME Messages, outcome = "loaded", Counter(kind) # {}
    PROVE  \E k : Stands(k, CountLabel(kind), Walk)
<1>1. /\ kind \in Kinds /\ \E v \in Variants : message = Layout(kind, v)
  BY DEF Messages
<1>2. Context
  BY WalkShown
<1>3. PICK v \in Variants : message = Layout(kind, v)
  BY <1>1
<1>4. IsVariant(v)
  BY <1>1, LayoutParts
<1>5. CASE kind.ver = 3 /\ kind.call
  <2>1. kind.op = "write" /\ CountLabel(kind) = "count"
    BY <1>5 DEF Counter, CountLabel
  <2>2. message = Args3("write", v) /\ Walk = print_call3("write")
    BY <1>3, <1>5, <2>1 DEF Layout, Walk
  <2> QED
    BY <1>2, <1>4, <2>1, <2>2, Write3Stands
<1>6. CASE kind.ver = 3 /\ ~ kind.call
  <2>1. kind.op = "read" /\ kind.ok /\ CountLabel(kind) = "count"
    BY <1>6 DEF Counter, CountLabel
  <2>2. kind.ok = TRUE
    <3>1. kind.ok \in BOOLEAN
      BY <1>1, <1>6, KindFields
    <3> QED
      BY <2>1, <3>1
  <2>3. message = Res3("read", TRUE, v) /\ Walk = print_resp3("read", TRUE)
    <3>1. message = Res3(kind.op, kind.ok, v)
      BY <1>3, <1>6 DEF Layout
    <3>2. Walk = print_resp3(kind.op, kind.ok)
      BY <1>6 DEF Walk
    <3> QED
      BY <2>1, <2>2, <3>1, <3>2
  <2> QED
    BY <1>2, <1>4, <2>1, <2>3, Read3Stands
<1>7. CASE kind.ver = 2 /\ kind.call
  <2>1. kind.op = "write" /\ CountLabel(kind) = "tcount"
    BY <1>7 DEF Counter, CountLabel
  <2>2. message = Args2("write", v) /\ Walk = print_call2("write")
    BY <1>3, <1>7, <2>1 DEF Layout, Walk
  <2> QED
    BY <1>2, <1>4, <2>1, <2>2, Write2Stands
<1>8. CASE kind.ver = 2 /\ ~ kind.call
  <2>1. kind.op = "read" /\ kind.ok /\ CountLabel(kind) = "count"
    BY <1>8 DEF Counter, CountLabel
  <2>2. kind.ok = TRUE
    <3>1. kind.ok \in BOOLEAN
      BY <1>1, <1>8, KindFields
    <3> QED
      BY <2>1, <3>1
  <2>3. message = Res2("read", TRUE, v) /\ Walk = print_resp2("read", TRUE)
    <3>1. message = Res2(kind.op, kind.ok, v)
      BY <1>3, <1>8 DEF Layout
    <3>2. Walk = print_resp2(kind.op, kind.ok)
      BY <1>8 DEF Walk
    <3> QED
      BY <2>1, <2>2, <3>1, <3>2
  <2> QED
    BY <1>2, <1>4, <2>1, <2>3, Read2Stands
<1> QED
  BY <1>1, <1>5, <1>6, <1>7, <1>8, KindFields

\* What is read is a number, and the count if it was captured.
LEMMA ReadNumbers ==
    ASSUME Context, NEW w, Shown(w, FALSE), NEW x \in Read(kind, w)
    PROVE  x \in Int
<1> DEFINE at == {y[2] : y \in {z \in w.printed : z[1] = CountLabel(kind)}}
<1>1. Garbage \subseteq Int
  BY DecodersAssumption
<1>2. ASSUME NEW i \in at PROVE Value(i) \in Int
  <2>1. i \in Nat \ {0}
    BY <1>2 DEF Shown
  <2>2. i <= Len(message) => message[i].value \in Int
    BY <2>1 DEF Context, IsPart
  <2> QED
    BY <2>2 DEF Value, Context
<1>3. Read(kind, w) = {Value(i) : i \in at} \/ Read(kind, w) = {0} \/ Read(kind, w) = Garbage
  <2>1. CASE at # {}
    BY <2>1 DEF Read
  <2>2. CASE at = {} /\ kind.ver = 3 /\ kind.call
    BY <2>2 DEF Read
  <2>3. CASE at = {} /\ ~ (kind.ver = 3 /\ kind.call)
    BY <2>3 DEF Read
  <2> QED
    BY <2>1, <2>2, <2>3
<1> HIDE DEF at
<1>4. 0 \in Int
  OBVIOUS
<1> QED
  BY <1>1, <1>2, <1>3, <1>4

LEMMA ReadStanding ==
    ASSUME Context, NEW w, NEW k, Stands(k, CountLabel(kind), w), k <= actual,
           NEW x \in Read(kind, w)
    PROVE  x = message[k].value
<1> DEFINE label == CountLabel(kind)
           at == {y[2] : y \in {z \in w.printed : z[1] = label}}
<1>1. /\ <<label, k>> \in w.printed /\ \A y \in w.printed : y[1] = label => y[2] = k
  BY DEF Stands, Prints
<1>2. k \in 1..Len(message) /\ Len(message) \in Nat
  BY DEF Stands, Only, Context, IsPart
<1>3. at = {k}
  <2> HIDE DEF label
  <2>1. <<label, k>>[1] = label /\ <<label, k>>[2] = k
    OBVIOUS
  <2>2. <<label, k>> \in {z \in w.printed : z[1] = label}
    BY <1>1, <2>1
  <2>3. k \in at
    BY <2>1, <2>2
  <2>4. \A i \in at : i = k
    BY <1>1
  <2> QED
    BY <2>3, <2>4
<1>4. at # {}
  BY <1>3
<1>5. Read(kind, w) = {Value(i) : i \in at}
  BY <1>4 DEF Read
<1> HIDE DEF at
<1>6. Read(kind, w) = {Value(k)}
  BY <1>3, <1>5
<1>7. Value(k) = message[k].value
  BY <1>2 DEF Value
<1> QED
  BY <1>6, <1>7

\* The carry: a number below a megabyte, and megabytes.
LEMMA CarryCounts ==
    ASSUME NEW x \in [b : Int, m : Int], x.b < MEG, NEW count \in Int
    PROVE  /\ Carry(x, count) \in [b : Int, m : Int] /\ Carry(x, count).b < MEG
           /\ Carry(x, count).b + MEG * Carry(x, count).m = (x.b + MEG * x.m) + count
<1>1. MEG \in Nat \ {0} /\ x.b \in Int /\ x.m \in Int
  BY DecodersAssumption
<1>2. CASE x.b + count >= MEG
  <2> DEFINE s == x.b + count
             r == s % MEG
             d == s \div MEG
  <2>1. s \in Int
    BY <1>1
  <2> HIDE DEF s
  <2>2. r \in Int /\ r < MEG /\ d \in Int /\ s = MEG * d + r
    BY <1>1, <2>1
  <2>3. Carry(x, count) = [b |-> r, m |-> x.m + d]
    BY <1>2 DEF Carry, s
  <2> HIDE DEF r, d
  <2>4. /\ Carry(x, count) \in [b : Int, m : Int] /\ Carry(x, count).b = r
        /\ Carry(x, count).m = x.m + d
    BY <1>1, <2>2, <2>3
  <2>5. MEG * (x.m + d) = MEG * x.m + MEG * d
    BY <1>1, <2>2
  <2>6. MEG * x.m \in Int /\ MEG * d \in Int
    BY <1>1, <2>2
  <2>7. r + (MEG * x.m + MEG * d) = (x.b + MEG * x.m) + count
    <3>1. s = x.b + count
      BY DEF s
    <3> QED
      BY <1>1, <2>2, <2>6, <3>1
  <2> QED
    BY <2>2, <2>4, <2>5, <2>7
<1>3. CASE ~ (x.b + count >= MEG)
  <2> DEFINE s == x.b + count
  <2>1. s \in Int /\ s < MEG
    BY <1>1, <1>3
  <2>2. Carry(x, count) = [x EXCEPT !.b = s]
    BY <1>3 DEF Carry
  <2> HIDE DEF s
  <2>3. /\ Carry(x, count) \in [b : Int, m : Int] /\ Carry(x, count).b = s
        /\ Carry(x, count).m = x.m
    BY <1>1, <2>1, <2>2
  <2>4. MEG * x.m \in Int
    BY <1>1
  <2>5. s + MEG * x.m = (x.b + MEG * x.m) + count
    BY <1>1, <2>4 DEF s
  <2> QED
    BY <2>1, <2>3, <2>5
<1> QED
  BY <1>2, <1>3

\* Where the count stands is the one place looked at for it.
LEMMA StandsThere ==
    ASSUME NEW k, NEW x, Context, Stands(k, CountLabel(kind), x)
    PROVE  Where(kind) = {k} /\ (CHOOSE i \in Where(kind) : TRUE) = k /\ message[k].value \in Int
<1>1. DOMAIN message = 1..Len(message)
  BY DEF Context, IsPart
<1>2. /\ k \in 1..Len(message)
      /\ \A i \in 1..Len(message) : message[i].name = CountLabel(kind) <=> i = k
  BY DEF Stands, Only
<1>3. Where(kind) = {k}
  BY <1>1, <1>2 DEF Where
<1>4. (CHOOSE i \in {k} : TRUE) = k
  OBVIOUS
<1> QED
  BY <1>3, <1>4 DEF Stands

BytesInv ==
    /\ bytes \in [Counters -> [b : Int, m : Int]] /\ sent \in [Counters -> Int]
    /\ BytesExact

LEMMA CountStep ==
    ASSUME DecodersInv, BytesInv, NEW w, w = Walk, Decode(w)
    PROVE  BytesInv'
<1>1. /\ outcome = "loaded"
      /\ sent' = [c \in Counters |->
                     IF c \in Counter(kind)
                     THEN sent[c] + message[CHOOSE i \in Where(kind) : TRUE].value
                     ELSE sent[c]]
      /\ exact' = (exact /\ (Counter(kind) # {} => \A i \in Where(kind) : i <= actual))
  BY DEF Decode
<1>2. PICK count \in Read(kind, w) :
          bytes' = [c \in Counters |->
                       IF c \in Counter(kind) THEN Carry(bytes[c], count) ELSE bytes[c]]
  BY DEF Decode
<1>3. Messages /\ Context /\ Shown(w, FALSE)
  BY <1>1, WalkShown DEF DecodersInv
<1>4. count \in Int
  BY <1>3, ReadNumbers
<1>5. /\ \A c \in Counters : /\ bytes[c] \in [b : Int, m : Int] /\ sent[c] \in Int
                             /\ bytes[c].b < MEG
                             /\ exact => bytes[c].b + MEG * bytes[c].m = sent[c]
  BY DEF BytesInv, BytesExact
<1>6. CASE Counter(kind) = {}
  <2>1. \A c \in Counters : bytes'[c] = bytes[c] /\ sent'[c] = sent[c]
    BY <1>1, <1>2, <1>6
  <2>2. bytes' \in [Counters -> [b : Int, m : Int]] /\ sent' \in [Counters -> Int]
    BY <1>1, <1>2, <1>5, <1>6
  <2>3. exact' => exact
    BY <1>1
  <2>4. BytesExact'
    BY <1>5, <2>1, <2>3 DEF BytesExact
  <2> QED
    BY <2>2, <2>4 DEF BytesInv
<1>7. CASE Counter(kind) # {}
  <2>1. PICK k : Stands(k, CountLabel(kind), w)
    BY <1>1, <1>3, <1>7, CountStands
  <2> DEFINE value == message[CHOOSE i \in Where(kind) : TRUE].value
  <2>2. Where(kind) = {k} /\ value = message[k].value /\ value \in Int
    BY <1>3, <2>1, StandsThere
  <2>3. exact' => exact /\ count = value
    <3>1. ASSUME exact' PROVE exact /\ k <= actual
      BY <1>1, <1>7, <2>2, <3>1
    <3>2. k <= actual => count = message[k].value
      BY <1>3, <2>1, ReadStanding
    <3> QED
      BY <2>2, <3>1, <3>2
  <2>4. sent' = [c \in Counters |-> IF c \in Counter(kind) THEN sent[c] + value ELSE sent[c]]
    BY <1>1
  <2> HIDE DEF value
  <2>5. ASSUME NEW c \in Counters
        PROVE  /\ bytes'[c] \in [b : Int, m : Int] /\ sent'[c] \in Int /\ bytes'[c].b < MEG
               /\ exact' => bytes'[c].b + MEG * bytes'[c].m = sent'[c]
    <3>1. CASE c \in Counter(kind)
      <4>1. bytes'[c] = Carry(bytes[c], count) /\ sent'[c] = sent[c] + value
        BY <1>2, <2>4, <3>1
      <4>2. /\ bytes'[c] \in [b : Int, m : Int] /\ bytes'[c].b < MEG
            /\ bytes'[c].b + MEG * bytes'[c].m = (bytes[c].b + MEG * bytes[c].m) + count
        BY <1>4, <1>5, <4>1, CarryCounts
      <4>3. sent[c] + value \in Int
        BY <1>5, <2>2
      <4> QED
        BY <1>5, <2>3, <4>1, <4>2, <4>3
    <3>2. CASE c \notin Counter(kind)
      <4>1. bytes'[c] = bytes[c] /\ sent'[c] = sent[c]
        BY <1>2, <2>4, <3>2
      <4> QED
        BY <1>5, <2>3, <4>1
    <3> QED
      BY <3>1, <3>2
  <2>6. bytes' \in [Counters -> [b : Int, m : Int]] /\ sent' \in [Counters -> Int]
    <3>1. bytes' = [c \in Counters |-> bytes'[c]] /\ sent' = [c \in Counters |-> sent'[c]]
      BY <1>2, <2>4
    <3> QED
      BY <2>5, <3>1
  <2>7. BytesExact'
    BY <2>5 DEF BytesExact
  <2> QED
    BY <2>6, <2>7 DEF BytesInv
<1> QED
  BY <1>6, <1>7

\* The counters hold what the messages said, and are carried, whatever sizes the
\* messages have and however many there are (nfs_v3.c:648-650).
THEOREM CountsTheBytes == Spec => []BytesExact
<1>1. Init => BytesInv
  <2> SUFFICES ASSUME Init PROVE BytesInv
    OBVIOUS
  <2>1. bytes = [c \in Counters |-> [b |-> 0, m |-> 0]] /\ sent = [c \in Counters |-> 0]
    BY DEF Init
  <2>2. MEG \in Nat \ {0} /\ 0 + MEG * 0 = 0 /\ 0 < MEG
    BY DecodersAssumption
  <2>3. \A c \in Counters : bytes[c] = [b |-> 0, m |-> 0] /\ sent[c] = 0
    BY <2>1
  <2>4. BytesExact
    BY <2>2, <2>3 DEF BytesExact
  <2> QED
    BY <2>1, <2>4 DEF BytesInv
<1>2. DecodersInv /\ BytesInv /\ [Next]_vars => BytesInv'
  <2> SUFFICES ASSUME DecodersInv, BytesInv, [Next]_vars PROVE BytesInv'
    OBVIOUS
  <2>1. CASE nfs_v3_print_call
    <3> DEFINE w == print_call3(kind.op)
    <3>1. Decode(w) /\ w = Walk
      BY <2>1 DEF nfs_v3_print_call, Walk
    <3> HIDE DEF w
    <3> QED
      BY <3>1, CountStep
  <2>2. CASE nfs_v3_print_resp
    <3> DEFINE w == print_resp3(kind.op, kind.ok)
    <3>1. Decode(w) /\ w = Walk
      BY <2>2 DEF nfs_v3_print_resp, Walk
    <3> HIDE DEF w
    <3> QED
      BY <3>1, CountStep
  <2>3. CASE nfs_v2_print_call
    <3> DEFINE w == print_call2(kind.op)
    <3>1. Decode(w) /\ w = Walk
      BY <2>3 DEF nfs_v2_print_call, Walk
    <3> HIDE DEF w
    <3> QED
      BY <3>1, CountStep
  <2>4. CASE nfs_v2_print_resp
    <3> DEFINE w == print_resp2(kind.op, kind.ok)
    <3>1. Decode(w) /\ w = Walk
      BY <2>4 DEF nfs_v2_print_resp, Walk
    <3> HIDE DEF w
    <3> QED
      BY <3>1, CountStep
  <2>5. CASE Receive \/ NextLine \/ UNCHANGED vars
    <3>1. bytes' = bytes /\ sent' = sent /\ exact' = exact
      BY <2>5 DEF Receive, NextLine, vars
    <3> QED
      BY <3>1 DEF BytesInv, BytesExact
  <2> QED
    BY <2>1, <2>2, <2>3, <2>4, <2>5 DEF Next
<1>3. BytesInv => BytesExact
  BY DEF BytesInv
<1> QED
  BY <1>1, <1>2, <1>3, DecodersInvariant, PTL DEF Spec
=============================================================================
