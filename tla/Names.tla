------------------------------- MODULE Names --------------------------------
(***************************************************************************)
(* kmiputil.NormalizeName (internal/kmiputil/names.go): from a name of the *)
(* specification to the one used in XML, JSON and Go identifiers.          *)
(*                                                                         *)
(* A name is a sequence of characters, of which only the kind matters: a   *)
(* lower or upper case letter, a digit, the underscore, the space, a       *)
(* bracket, and any other character ("-").                                 *)
(***************************************************************************)
EXTENDS Naturals, Sequences, FiniteSetsExt

Letters   == {"a", "A"}
WordChars == Letters \cup {"1", "_"}
Chars     == WordChars \cup {" ", "(", "-"}

\* The first two replacements: a bracket, and a character that separates two
\* words, become a space.
Separated(s) ==
  LET b == [i \in DOMAIN s |-> IF s[i] = "(" THEN " " ELSE s[i]]
  IN  [i \in DOMAIN b |->
         IF /\ b[i] \notin WordChars
            /\ i + 2 \in DOMAIN b /\ b[i + 1] \in Letters /\ b[i + 2] = "a"
         THEN " " ELSE b[i]]

\* The other characters that are not of a word become underscores.
Underscored(s) == [i \in DOMAIN s |-> IF s[i] \in WordChars \cup {" "} THEN s[i] ELSE "_"]

\* The digits that s starts with.
LeadingDigits(s) == Min({i \in 1 .. Len(s) + 1 : i \in DOMAIN s => s[i] # "1"}) - 1

\* startingDigits: they move to the end of the first word.
DigitsLast(w) == SubSeq(w, LeadingDigits(w) + 1, Len(w)) \o SubSeq(w, 1, LeadingDigits(w))

\* Variant: without NoLower the other letters become lower case.
TitleLowers(w) ==
  LET letters == {i \in DOMAIN w : w[i] \in Letters}
  IN  [i \in DOMAIN w |-> IF i \notin letters THEN w[i] ELSE IF i = Min(letters) THEN "A" ELSE "a"]

\* cases.Title with NoLower: the first letter of a word becomes upper case.
Title(w) ==
  LET letters == {i \in DOMAIN w : w[i] \in Letters}
  IN  IF letters = {} THEN w ELSE [w EXCEPT ![Min(letters)] = "A"]

\* strings.Split at spaces: the words lie between two neighbouring breaks.
Words(s) ==
  LET breaks == SelectSeq([i \in 1 .. Len(s) + 2 |-> i - 1],
                          LAMBDA i : i \in DOMAIN s => s[i] = " ")
  IN  [k \in 1 .. Len(breaks) - 1 |-> SubSeq(s, breaks[k] + 1, breaks[k + 1] - 1)]

\* Sequences one after the other: SequencesExt has it, but it brings in Bags, with
\* which proofs take ten times as long.
Joined(ss) ==
  LET upTo[i \in DOMAIN ss] == IF i = 1 THEN ss[1] ELSE upTo[i - 1] \o ss[i]
  IN  IF ss = <<>> THEN <<>> ELSE upTo[Len(ss)]

NormalizeName(s) ==
  LET ws == Words(Underscored(Separated(s)))
  IN  Joined([k \in DOMAIN ws |-> Title(IF k = 1 THEN DigitsLast(ws[k]) ELSE ws[k])])
=============================================================================
