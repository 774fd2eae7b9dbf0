------------------------------- MODULE Names -------------------------------
(***************************************************************************)
(* How a name gets from a packet to a field of the log: print_string and   *)
(* print_path_segment of nfsdump2/nfs_v3.c, which print it, and the parser *)
(* of CSV that the programs of pathtree/ read it with.                     *)
(*                                                                         *)
(* A name is a sequence of characters.  What is printed is a sequence of   *)
(* symbols, each of them one character or one digest, so that a digest     *)
(* tells from what it was made and differs from all others.                *)
(***************************************************************************)
EXTENDS Integers, SequencesExt

\* The places of a sequence that are in a set, in order.
Places(seq, S) == SelectSeq([i \in DOMAIN seq |-> i], LAMBDA i : i \in S)

Lit(c) == <<c>>
Literally(chars) == [i \in DOMAIN chars |-> Lit(chars[i])]
SHA1(chars) == <<"SHA1">> \o chars

\* The characters that RAWNAMES does not leave as they are, in hexadecimal.
Hex == [c \in {"\"", "\\", " "} |->
           CASE c = "\"" -> <<"2", "2">> [] c = "\\" -> <<"5", "c">> [] c = " " -> <<"2", "0">>]

Escaped(c) == IF c \in DOMAIN Hex THEN <<Lit("\\")>> \o Literally(Hex[c]) ELSE <<Lit(c)>>

\* A path is cut in front of each slash.
Segments(str) ==
    LET from == Places(str, {i \in DOMAIN str : i = 1 \/ str[i] = "/"})
        to(k) == IF k < Len(from) THEN from[k + 1] - 1 ELSE Len(str)
    IN  [k \in DOMAIN from |-> SubSeq(str, from[k], to(k))]

print_path_segment(seg) ==
    LET rooted == seg # <<>> /\ seg[1] = "/"
        name == IF rooted THEN Tail(seg) ELSE seg
    IN  (IF rooted THEN <<Lit("/")>> ELSE <<>>)
        \o CASE name \in {<<>>, <<".">>, <<".", ".">>} -> Literally(name)
             [] OTHER -> <<SHA1(name)>>

\* What is between the two quotes.
print_string(raw, str) ==
    FlattenSeq(IF raw THEN [i \in DOMAIN str |-> Escaped(str[i])]
               ELSE LET segs == Segments(str)
                    IN  [k \in DOMAIN segs |-> print_path_segment(segs[k])])

\* What csv.parse makes of that: the escape character in front of a quote or of
\* itself is taken away.
csvField(field) ==
    LET quoted(i) == /\ i < Len(field) /\ field[i] = Lit("\\")
                     /\ field[i + 1] \in {Lit("\\"), Lit("\"")}
        kept == Places(field, {i \in DOMAIN field : ~ quoted(i)})
    IN  [k \in DOMAIN kept |-> field[kept[k]]]

\* A line, cut at some of its commas.
Cut(line, commas) ==
    LET cuts == <<0>> \o Places(line, commas) \o <<Len(line) + 1>>
    IN  [k \in 1..Len(cuts) - 1 |-> SubSeq(line, cuts[k] + 1, cuts[k + 1] - 1)]
Commas(line) == {i \in DOMAIN line : line[i] = Lit(",")}
Quote == Lit("\"")

\* The fields that operator>> reads of a field behind csv.stringify, which puts one
\* with a comma into quotes, and tr ',' '\t': an empty one is none.
Fields(field) ==
    LET quoted == <<Quote>> \o field \o <<Quote>>
    IN  IF Contains(field, Lit(","))
        THEN SelectSeq(Cut(quoted, Commas(quoted)), LAMBDA f : f # <<>>)
        ELSE IF field = <<>> THEN <<>> ELSE <<field>>

\* The row that csv.parse makes of a line, <<>> if there is none.  A quote in front of
\* a field hides the commas up to the next quote, behind which the field has to end:
\* without it the row does not end, and a quote at any other place is an error.  No
\* backslash is in front of a quote here.
csvRow(line) ==
    LET quotes == Places(line, {i \in DOMAIN line : line[i] = Quote})
        opening == {k \in DOMAIN quotes : k % 2 = 1}
        closed == {k \in opening : k < Len(quotes)}
        commas == Commas(line) \ UNION {quotes[k]..quotes[k + 1] : k \in closed}
        row == Cut(line, commas)
    IN  IF /\ closed = opening
           /\ \A k \in DOMAIN quotes :
                 IF k \in opening THEN quotes[k] - 1 \in commas \cup {0}
                 ELSE quotes[k] + 1 \in commas \cup {Len(line) + 1}
        THEN [k \in DOMAIN row |-> SelectSeq(row[k], LAMBDA c : c # Quote)]
        ELSE <<>>
=============================================================================
