------------------------------ MODULE DivideFile ------------------------------
(***************************************************************************)
(* dividefile of project 4 (driver.c): the input is cut into one file for  *)
(* each mapper.  Each file but the last takes number bytes and then the    *)
(* rest of the word it is in; the separator after it is read, and written  *)
(* to no file unless it is the last one that was read.                     *)
(***************************************************************************)
EXTENDS Integers, SequencesExt

CONSTANTS
    Letter,         \* characters of words
    Separator,      \* ' ' and '\n', where dividefile may cut
    White,          \* all that fscanf takes for white space, '\t' too
    Texts,          \* the contents of the input file to look at
    MaxFiles        \* bound on num

EOF == "EOF"

VARIABLES
    text, num,      \* the file and the number of pieces
    fp, ch,         \* how much of the file was read, and the last fgetc
    i, part,        \* the loop counter, and where its body is
    fpa             \* the files written so far

number == Len(text) \div num

Init ==
    /\ text \in Texts
    /\ num \in 1 .. MaxFiles
    /\ fp = 0 /\ ch = EOF /\ i = 1 /\ fpa = [k \in 1 .. num |-> <<>>]
    /\ part = IF num = 1 THEN "copy" ELSE "head"

\* fgetc at position p
At(p) == IF p < Len(text) THEN text[p + 1] ELSE EOF
Stop(p, stops) == CHOOSE q \in p .. Len(text) : /\ At(q) \in stops
                                                /\ \A r \in p .. q - 1 : At(r) \notin stops

Copy ==         \* cp -r, for a single mapper
    /\ part = "copy"
    /\ fpa' = [fpa EXCEPT ![1] = text] /\ part' = "done"
    /\ UNCHANGED <<text, num, fp, ch, i>>

FirstBytes ==        \* number bytes, or what is left
    /\ part = "head" /\ i < num
    /\ LET n == IF fp + number <= Len(text) THEN fp + number ELSE Len(text)
       IN  /\ fpa' = [fpa EXCEPT ![i] = SubSeq(text, fp + 1, n)]
           /\ fp' = n
    /\ part' = "rest"
    /\ UNCHANGED <<text, num, ch, i>>

\* Mutant: the file ends where the bytes end, in the middle of a word.
RestNone ==
    /\ part = "rest"
    /\ ch' = At(fp)
    /\ fp' = IF fp < Len(text) THEN fp + 1 ELSE fp
    /\ i' = i + 1 /\ part' = "head"
    /\ UNCHANGED <<text, num, fpa>>

Rest ==         \* up to the next separator, which is read too
    /\ part = "rest"
    /\ LET q == Stop(fp, Separator \cup {EOF})
       IN  /\ fpa' = [fpa EXCEPT ![i] = @ \o SubSeq(text, fp + 1, q)]
           /\ ch' = At(q)
           /\ fp' = IF q < Len(text) THEN q + 1 ELSE q
    /\ i' = i + 1 /\ part' = "head"
    /\ UNCHANGED <<text, num>>

LastFile ==         \* ch and all that is left
    /\ part = "head" /\ i = num
    /\ fpa' = [fpa EXCEPT ![i] = IF ch = EOF THEN <<>>
                                 ELSE <<ch>> \o SubSeq(text, fp + 1, Len(text))]
    /\ fp' = Len(text) /\ ch' = EOF /\ part' = "done"
    /\ UNCHANGED <<text, num, i>>

dividefile == Copy \/ FirstBytes \/ Rest \/ LastFile

-----------------------------------------------------------------------------
(* Properties *)

\* fscanf(" %1023s"), over and over: a character that is not white space makes the
\* word longer that is open, or begins one.
NoWords == [words |-> <<>>, open |-> FALSE]
fscanf(acc, c) ==
    IF c \in White THEN [acc EXCEPT !.open = FALSE]
    ELSE IF acc.open THEN [acc EXCEPT !.words[Len(acc.words)] = Append(@, c)]
    ELSE [words |-> Append(acc.words, <<c>>), open |-> TRUE]

\* What it has made of the first n characters of a file, and of all of them.
Scan(s) ==
    LET scan[n \in 0 .. Len(s)] == IF n = 0 THEN NoWords ELSE fscanf(scan[n - 1], s[n])
    IN  scan
Words(s) == Scan(s)[Len(s)].words

\* The mappers together read the words of the input, each once and none cut in
\* two, also when the file is shorter than the number of mappers, when it ends
\* early, and when words are separated by tabs, where dividefile does not stop.
WordsKept ==
    part = "done" => FlattenSeq([k \in 1 .. num |-> Words(fpa[k])]) = Words(text)
=============================================================================
