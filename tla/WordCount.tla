------------------------------ MODULE WordCount ------------------------------
(***************************************************************************)
(* The map-reduce program of project 4 (custom_eval and test_correctness   *)
(* in driver.c): the main thread cuts the input into one piece per mapper  *)
(* (DivideFile.tla) and creates the threads; each mapper sends the words   *)
(* of its piece through the channel of Buffer.tla, a reducer counts what   *)
(* it receives until "splmsg" arrives, and the main thread joins the       *)
(* mappers, sends "splmsg", joins the reducer, closes the buffer and       *)
(* destroys it.  A message is the string that wordcount makes of a word,   *)
(* without its " 1": the characters that reformat_string keeps.            *)
(***************************************************************************)
EXTENDS Buffer, SequencesExt

CONSTANTS
    pid,            \* the mapper threads, in the order they are created
    reducer, main,
    Letter,         \* the characters of words, with both cases of a letter as one
    Punct,          \* those that reformat_string drops
    Separator, White, Texts,    \* see DivideFile
    splmsg,         \* one character for that word
    one             \* the digit 1

Mapper == Range(pid)
Blank  == <<>>      \* what is left of a word of punctuation only, sent as " 1"
One    == <<one>>

reformat_string(word) == SelectSeq(word, LAMBDA c : c \notin Punct)

VARIABLES
    text, num, fp, ch, i, part, fpa,    \* see DivideFile
    pos,        \* pos[t]: how many words mapper t has read
    step,       \* what main does next
    reducing,   \* the reducer: "call", "wait" for buffer_receive, or "exit"
    counts,     \* the reducer's search tree: the count of each key
    destroyed   \* the buffer has been freed

Divide == INSTANCE DivideFile WITH MaxFiles <- Len(pid)

files   == <<text, num, fp, ch, i, part, fpa>>
program == <<pos, step, reducing, counts, destroyed>>
allvars == <<vars, files, program>>

ASSUME RoleAssumption ==
    /\ pid \in Seq(Sender) /\ IsInjective(pid) /\ Sender = Mapper \cup {main}
    /\ Receiver = {reducer} /\ Closer = {main}
    /\ main \notin Mapper /\ reducer \notin Mapper \cup {main}
    /\ MaxCloses >= 1
ASSUME CharacterAssumption ==
    /\ Separator \subseteq White /\ Letter \cap White = {} /\ Divide!EOF \notin Letter \cup White
    /\ Texts \subseteq Seq(Letter \cup White)
ASSUME InputAssumption ==
    /\ Punct \subseteq Letter /\ {splmsg, one} \subseteq Letter \ Punct
    /\ Special = {<<splmsg>>} /\ {<<splmsg>>, One} \subseteq Message
    /\ \A s \in Texts : \A k \in DOMAIN Divide!Words(s) :
         reformat_string(Divide!Words(s)[k]) \in Message

WInit ==
    /\ Init /\ Divide!Init
    /\ pos = [t \in Mapper |-> 0]
    /\ step = "divide" /\ reducing = "call"
    /\ counts = [m \in Message |-> 0]
    /\ destroyed = FALSE

-----------------------------------------------------------------------------
(* wordcount, in each mapper: what buffer_send returns is not looked at. *)

\* The piece that each mapper is created with; a thread that is not created
\* has nothing to send.
Index(t) == CHOOSE n \in DOMAIN pid : pid[n] = t
\* Mutant: the mappers share one argument, which ends as the last file.
WordsLast(t) == IF Index(t) <= num THEN Divide!Words(fpa[num]) ELSE <<>>
Words(t) == IF Index(t) <= num THEN Divide!Words(fpa[Index(t)]) ELSE <<>>

MapperSend(t) ==
    /\ step # "divide" /\ pos[t] < Len(Words(t))
    /\ SendCall(t, reformat_string(Words(t)[pos[t] + 1]))
    /\ pos' = [pos EXCEPT ![t] = @ + 1]
    /\ UNCHANGED <<files, step, reducing, counts, destroyed>>

MapperDone(t) == pos[t] = Len(Words(t)) /\ pc[t] = "idle"

-----------------------------------------------------------------------------
(* Reducer *)

ReducerCall ==
    /\ reducing = "call" /\ step # "divide"
    /\ ReceiveCall(reducer)
    /\ reducing' = "wait"
    /\ UNCHANGED <<files, pos, step, counts, destroyed>>

\* strtok splits "key 1"; of " 1" it makes the key "1" without a value, which
\* counts as -1.
Key(m)   == IF m = Blank THEN One ELSE m
Value(m) == IF m = Blank THEN -1 ELSE 1

ReducerCount ==
    /\ reducing = "wait" /\ pc[reducer] = "idle"
    /\ ret[reducer] = "BUFFER_SUCCESS"
    /\ LET m == msg[reducer]
       IN  counts' = [counts EXCEPT ![Key(m)] = @ + Value(m)]
    /\ reducing' = "call"
    /\ UNCHANGED <<vars, files, pos, step, destroyed>>

ReducerExit ==
    /\ reducing = "wait" /\ pc[reducer] = "idle"
    /\ ret[reducer] # "BUFFER_SUCCESS"
    /\ reducing' = "exit"
    /\ UNCHANGED <<vars, files, pos, step, counts, destroyed>>

-----------------------------------------------------------------------------
(* custom_eval, in the main thread *)

MainDivide ==
    /\ step = "divide" /\ Divide!dividefile
    /\ UNCHANGED <<vars, program>>

\* The mappers and the reducer are created.
MainCreate ==
    /\ step = "divide" /\ part = "done"
    /\ step' = "join_mappers"
    /\ UNCHANGED <<vars, files, pos, reducing, counts, destroyed>>

\* Mutant: main joins one mapper only.
MainSendEarly ==
    /\ step = "join_mappers" /\ \E t \in Mapper : MapperDone(t)
    /\ SendCall(main, <<splmsg>>)
    /\ step' = "join_reducer"
    /\ UNCHANGED <<files, pos, reducing, counts, destroyed>>

MainSend ==
    /\ step = "join_mappers" /\ \A t \in Mapper : MapperDone(t)
    /\ SendCall(main, <<splmsg>>)
    /\ step' = "join_reducer"
    /\ UNCHANGED <<files, pos, reducing, counts, destroyed>>

\* Mutant: main does not join the reducer.
MainCloseEarly ==
    /\ step = "join_reducer" /\ pc[main] = "idle"
    /\ CloseCall(main)
    /\ step' = "destroy"
    /\ UNCHANGED <<files, pos, reducing, counts, destroyed>>

MainClose ==
    /\ step = "join_reducer" /\ pc[main] = "idle" /\ reducing = "exit"
    /\ CloseCall(main)
    /\ step' = "destroy"
    /\ UNCHANGED <<files, pos, reducing, counts, destroyed>>

\* buffer_destroy refuses an open buffer with DESTROY_ERROR.
MainDestroy ==
    /\ step = "destroy" /\ pc[main] = "idle"
    /\ destroyed' = ~ isopen
    /\ step' = "end"
    /\ UNCHANGED <<vars, files, pos, reducing, counts>>

Finished ==
    /\ step = "end"
    /\ UNCHANGED allvars

-----------------------------------------------------------------------------

\* What thread t does next, inside a call or between two calls.
Run(t) ==
    \/ ThreadStep(t) /\ UNCHANGED <<files, program>>
    \/ t \in Mapper /\ MapperSend(t)
    \/ t = reducer /\ (ReducerCall \/ ReducerCount \/ ReducerExit)
    \/ t = main /\ (MainDivide \/ MainCreate \/ MainSend \/ MainClose \/ MainDestroy)

WNext ==
    \/ \E t \in Thread : Run(t) \/ (SpuriousWakeup(t) /\ UNCHANGED <<files, program>>)
    \/ Finished

WSpec     == WInit /\ [][WNext]_allvars
WFairSpec == WSpec /\ (\A t \in Thread : WF_allvars(Run(t)))
                   /\ <>[][NoSpuriousWakeup]_allvars

-----------------------------------------------------------------------------
(* Properties *)

\* The mappers together read the words of the input, each once and none cut in
\* two, also when the file is shorter than the number of mappers, when it ends
\* early, and when words are separated by tabs, where dividefile does not stop.
PiecesKeepWords == Divide!WordsKept

\* What the mappers send of words, and how often message m is among it.
Strings(words) == [k \in DOMAIN words |-> reformat_string(words[k])]
Count(m, strings) == Cardinality({k \in DOMAIN strings : strings[k] = m})

Occurrences(m) == Count(m, Strings(Divide!Words(text)))

\* The word "splmsg" is in the input, in this form or with punctuation.
Sentinel == Occurrences(<<splmsg>>) > 0

\* Where the mappers have read a word that is sent as m, who is sending it, and
\* whether the reducer is about to count it.
ReadAs(m)   == {p \in UNION {{t} \X (1 .. pos[t]) : t \in Mapper} :
                  reformat_string(Words(p[1])[p[2]]) = m}
Sending(m)  == {t \in Mapper : msg[t] = m /\ pc[t] \in {"s_open", "s_lock", "s_wait", "s_test"}}
Received(m) == IF reducing = "wait" /\ msg[reducer] = m THEN 1 ELSE 0

Handled(m) == Cardinality(ReadAs(m)) - Cardinality(Sending(m)) - Count(m, queue) - Received(m)

\* What n(m) messages m of each kind add up to under key k.
Tally(k, n(_)) == IF k = One /\ Blank \in Message THEN n(One) - n(Blank)
                  ELSE IF k = Blank THEN 0 ELSE n(k)

\* Every word is at one place: still in a file, in a call of buffer_send, in
\* the buffer, in the reducer's hands, or counted.  None is dropped (although
\* wordcount ignores CLOSED_ERROR) and none is counted twice.
NoWordLost ==
    step # "divide" => \A k \in Message \ Special : counts[k] = Tally(k, Handled)

\* When the program ends the reducer's output is the word count of the input
\* file, less one for the word "1" for each word of punctuation only, however the
\* file was divided, unless "splmsg" is a word of it.
CountsCorrect ==
    step = "end" /\ ~ Sentinel =>
        \A k \in Message \ Special : counts[k] = Tally(k, Occurrences)

\* Once the buffer is freed no thread is inside one of its functions: the late
\* cond_signal after "splmsg" is over when main gets to buffer_destroy, and
\* buffer_destroy did not refuse.
DestroyedUnused ==
    /\ destroyed => \A t \in Thread : pc[t] = "idle"
    /\ step = "end" => destroyed

\* The program ends, whatever the scheduling and the sizes of the words, unless
\* "splmsg" is a word of the input: that word ends the reducer early, and the
\* mappers may find the buffer full.
Termination == (~ Sentinel) ~> (step = "end")
=============================================================================
