----------------------------- MODULE MCWordCount -----------------------------
(* Model-checking instance of WordCount.tla. *)
EXTENDS WordCount

CONSTANTS m1, m2, a

Pids == <<m1, m2>>

\* All files of up to four characters, without punctuation from three on.
Short == UNION {[1 .. n -> {a, " ", "tab"}] : n \in 0 .. 4}
           \cup UNION {[1 .. n -> {"dot", " "}] : n \in 0 .. 2}

\* Files with more words than the buffer holds: both forms of "1", words cut at
\* every character, a word of punctuation between others, and "splmsg".
Long == {<<a, a, " ", one, " ", a, a, " ", "dot", " ", one>>,
         <<one, " ", "dot", "dot", "tab", one, "dot", " ", "dot">>,
         <<a, a, a, " ", " ", a, a, a, " ", "dot", a>>,
         <<a, " ", splmsg, " ", a, a, a, " ", a, a, a>>,
         <<a, a, " ", splmsg, "dot">>}

Files == Short \cup Long
AllStrings == UNION {[1 .. n -> {a}] : n \in 0 .. 4} \cup {<<one>>, <<splmsg>>}
Sentinels == {<<splmsg>>}
Sizes == [m \in Message |-> Len(m) + 1]
=============================================================================
