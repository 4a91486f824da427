-------------------------- MODULE WordCountProofs --------------------------
(***************************************************************************)
(* Proofs about WordCount.tla, with the dividefile of DivideFile.tla and   *)
(* the channel of Buffer.tla in it: for any file, any number of mappers    *)
(* and any schedule the reducer's output is the word count of the file.    *)
(***************************************************************************)
EXTENDS WordCount, BufferProofs

-----------------------------------------------------------------------------
(* Induction and sequences *)

\* A set with 0 in it, and each number whose predecessor is in it, has all numbers:
\* the least one that it lacks would have a predecessor that it does not lack.
LEMMA SetInduction ==
    ASSUME NEW S, 0 \in S, \A n \in Nat \ {0} : n - 1 \in S => n \in S
    PROVE  \A n \in Nat : n \in S
<1> DEFINE D == {n \in Nat : n \notin S}
<1>1. CASE D # {}
  <2>1. PICK m \in D : \A k \in D : m <= k
    BY <1>1, LeastNatural
  <2>2. m \in Nat \ {0} /\ m \notin S
    BY <2>1
  <2>3. m - 1 \in Nat /\ ~ (m <= m - 1)
    BY <2>2
  <2>4. m - 1 \in S
    BY <2>1, <2>3
  <2> QED BY <2>2, <2>4
<1> QED BY <1>1

\* What the first sequences of f are, one after the other.
Joined(f, N, F) ==
    /\ DOMAIN F = 0 .. N /\ F[0] = <<>>
    /\ \A n \in 1 .. N : F[n] = F[n - 1] \o f[n]

\* They are sequences.
LEMMA JoinedType ==
    ASSUME NEW S, NEW N \in Nat, NEW f, NEW F, Joined(f, N, F),
           \A n \in 1 .. N : f[n] \in Seq(S)
    PROVE  \A n \in 0 .. N : F[n] \in Seq(S)
<1> DEFINE P == {n \in Nat : n <= N => F[n] \in Seq(S)}
<1>1. 0 \in P
  BY DEF Joined
<1>2. ASSUME NEW n \in Nat \ {0}, n - 1 \in P PROVE n \in P
  <2>1. CASE n <= N
    <3>1. n \in 1 .. N /\ n - 1 <= N
      BY <2>1
    <3>2. F[n] = F[n - 1] \o f[n]
      BY <3>1 DEF Joined
    <3>3. F[n - 1] \in Seq(S) /\ f[n] \in Seq(S)
      BY <3>1, <1>2
    <3>4. F[n] \in Seq(S)
      BY <3>2, <3>3, ConcatProperties
    <3> QED BY <3>4
  <2> QED BY <2>1
<1>3. \A n \in Nat : n \in P
  <2> HIDE DEF P
  <2> QED BY <1>1, <1>2, SetInduction
<1> QED BY <1>3

\* FlattenSeq gives all of them.
LEMMA Flattened ==
    ASSUME NEW S, NEW N \in Nat, NEW f \in [1 .. N -> Seq(S)], NEW F,
           Joined(f, N, F)
    PROVE  FlattenSeq(f) = F[N]
<1> DEFINE Flat(g) == g = [n \in 1 .. Len(f) |-> IF n = 1 THEN f[n] ELSE g[n - 1] \o f[n]]
<1>1. f \in Seq(Seq(S)) /\ Len(f) = N
  OBVIOUS
<1>2. CASE N = 0
  <2>1. FlattenSeq(f) = f
    BY <1>1, <1>2 DEF FlattenSeq
  <2>2. f = <<>>
    BY <1>1, <1>2, EmptySeq
  <2> QED BY <2>1, <2>2, <1>2 DEF Joined
<1>3. CASE N # 0
  <2> DEFINE G == [n \in 1 .. N |-> F[n]]
  <2>1. Flat(G)
    <3> DEFINE H == [n \in 1 .. N |-> IF n = 1 THEN f[n] ELSE G[n - 1] \o f[n]]
    <3>1. ASSUME NEW n \in 1 .. N PROVE G[n] = H[n]
      <4>1. F[n] = F[n - 1] \o f[n] /\ f[n] \in Seq(S)
        BY DEF Joined
      <4>2. CASE n = 1
        <5>1. F[0] = <<>> /\ n - 1 = 0
          BY <4>2 DEF Joined
        <5>2. <<>> \o f[n] = f[n]
          BY <4>1, ConcatEmptySeq
        <5> QED BY <4>1, <4>2, <5>1, <5>2
      <4>3. CASE n # 1
        <5>1. n - 1 \in 1 .. N
          BY <4>3
        <5> QED BY <4>1, <4>3, <5>1
      <4> QED BY <4>2, <4>3
    <3>2. G = H
      BY <3>1
    <3> QED BY <3>2, <1>1
  <2>2. FlattenSeq(f) = (CHOOSE g : Flat(g))[Len(f)]
    BY <1>1, <1>3 DEF FlattenSeq
  <2> DEFINE g == CHOOSE h : Flat(h)
  <2>3. Flat(g)
    BY <2>1
  <2> HIDE DEF g
  <2> DEFINE P == {n \in Nat : n \in 1 .. N => g[n] = F[n]}
  <2>4. 0 \in P
    OBVIOUS
  <2>5. ASSUME NEW n \in Nat \ {0}, n - 1 \in P PROVE n \in P
    <3>1. CASE n \in 1 .. N /\ n = 1
      <4>1. g[n] = f[n] /\ G[n] = f[n]
        BY <3>1, <2>1, <2>3, <1>1
      <4> QED BY <3>1, <4>1
    <3>2. CASE n \in 1 .. N /\ n # 1
      <4>1. n - 1 \in 1 .. N
        BY <3>2
      <4>2. g[n] = g[n - 1] \o f[n]
        BY <3>2, <2>3, <1>1
      <4>3. F[n] = F[n - 1] \o f[n]
        BY <3>2 DEF Joined
      <4>4. g[n - 1] = F[n - 1]
        BY <4>1, <2>5
      <4> QED BY <4>2, <4>3, <4>4
    <3> QED BY <3>1, <3>2
  <2>6. \A n \in Nat : n \in P
    <3> HIDE DEF P
    <3> QED BY <2>4, <2>5, SetInduction
  <2>8. g[N] = F[N]
    <3>1. N \in P /\ N \in 1 .. N
      BY <2>6, <1>3
    <3> QED BY <3>1
  <2> QED BY <2>2, <2>8, <1>1 DEF g
<1> QED BY <1>2, <1>3

-----------------------------------------------------------------------------
(* The words of a file *)

Char == Letter \cup White

\* What fscanf has made of the first characters of a file.
Acc == {acc \in [words : Seq(Seq(Char)), open : BOOLEAN] : acc.open => acc.words # <<>>}

\* A longer last word.
LEMMA LongerWord ==
    ASSUME NEW w \in Seq(Seq(Char)), w # <<>>, NEW c \in Char
    PROVE  /\ [w EXCEPT ![Len(w)] = Append(@, c)] \in Seq(Seq(Char))
           /\ [w EXCEPT ![Len(w)] = Append(@, c)] # <<>>
<1> DEFINE n == Len(w)
           last == Append(w[n], c)
<1>1. n \in Nat \ {0} /\ n \in 1 .. n
  BY LenProperties, EmptySeq
<1>2. w[n] \in Seq(Char)
  BY <1>1, ElementOfSeq
<1>3. last \in Seq(Char)
  BY <1>2, AppendProperties
<1>4. [w EXCEPT ![n] = Append(@, c)] = [w EXCEPT ![n] = last]
  OBVIOUS
<1> HIDE DEF last
<1>5. [w EXCEPT ![n] = last] \in Seq(Seq(Char)) /\ Len([w EXCEPT ![n] = last]) = n
  BY <1>1, <1>3, ExceptSeq
<1>6. [w EXCEPT ![n] = last] # <<>>
  BY <1>1, <1>5, EmptySeq
<1> QED BY <1>4, <1>5, <1>6

\* A character makes a state of fscanf of one.
LEMMA FscanfType ==
    ASSUME NEW acc \in Acc, NEW c \in Char
    PROVE  Divide!fscanf(acc, c) \in Acc
<1>1. acc \in [words : Seq(Seq(Char)), open : BOOLEAN]
  BY DEF Acc
<1>2. CASE c \in White
  <2>1. Divide!fscanf(acc, c) = [acc EXCEPT !.open = FALSE]
    BY <1>2 DEF Divide!fscanf
  <2> QED BY <1>1, <2>1 DEF Acc
<1>3. CASE c \notin White /\ acc.open
  <2>1. acc.words \in Seq(Seq(Char)) /\ acc.words # <<>>
    BY <1>1, <1>3 DEF Acc
  <2> DEFINE longer == [acc.words EXCEPT ![Len(acc.words)] = Append(@, c)]
  <2>2. Divide!fscanf(acc, c) = [acc EXCEPT !.words = longer]
    BY <1>1, <1>3 DEF Divide!fscanf
  <2>3. longer \in Seq(Seq(Char)) /\ longer # <<>>
    BY <2>1, LongerWord
  <2> HIDE DEF longer
  <2> QED BY <1>1, <2>2, <2>3 DEF Acc
<1>4. CASE c \notin White /\ ~ acc.open
  <2> DEFINE word == <<c>>
             ws == acc.words
             more == Append(ws, word)
  <2>1. Divide!fscanf(acc, c) = [words |-> more, open |-> TRUE]
    BY <1>4 DEF Divide!fscanf
  <2>2. ws \in Seq(Seq(Char)) /\ word \in Seq(Char)
    BY <1>1
  <2> HIDE DEF word, ws
  <2>3. more \in Seq(Seq(Char)) /\ more # <<>>
    BY <2>2, AppendProperties
  <2> HIDE DEF more
  <2> QED BY <2>1, <2>3 DEF Acc
<1> QED BY <1>2, <1>3, <1>4

\* What it does does not depend on the words that are complete.
LEMMA FscanfJoins ==
    ASSUME NEW A \in Seq(Seq(Char)), NEW acc \in Acc, NEW c \in Char
    PROVE  Divide!fscanf([words |-> A \o acc.words, open |-> acc.open], c)
             = [words |-> A \o Divide!fscanf(acc, c).words,
                open  |-> Divide!fscanf(acc, c).open]
<1> DEFINE B == acc.words
           joined == [words |-> A \o B, open |-> acc.open]
<1>1. acc \in [words : Seq(Seq(Char)), open : BOOLEAN] /\ B \in Seq(Seq(Char))
  BY DEF Acc
<1>2. A \o B \in Seq(Seq(Char)) /\ Len(A \o B) = Len(A) + Len(B)
  BY <1>1, ConcatProperties
<1>3. CASE c \in White
  <2>1. Divide!fscanf(acc, c) = [acc EXCEPT !.open = FALSE]
    BY <1>3 DEF Divide!fscanf
  <2>2. Divide!fscanf(joined, c) = [joined EXCEPT !.open = FALSE]
    BY <1>3 DEF Divide!fscanf
  <2> QED BY <1>1, <2>1, <2>2
<1>4. CASE c \notin White /\ acc.open
  <2> DEFINE n == Len(B)
             last == Append(B[n], c)
             longer == [B EXCEPT ![n] = last]
             longest == [A \o B EXCEPT ![Len(A) + n] = last]
  <2>1. B # <<>> /\ n \in Nat \ {0} /\ Len(A) \in Nat
    BY <1>1, <1>4, LenProperties, EmptySeq DEF Acc
  <2>2. (A \o B)[Len(A) + n] = B[n]
    BY <1>1, <2>1, ConcatProperties
  <2>3. Divide!fscanf(acc, c) = [acc EXCEPT !.words = longer]
    BY <1>1, <1>4 DEF Divide!fscanf
  <2>4. Divide!fscanf(joined, c) = [joined EXCEPT !.words = longest]
    BY <1>2, <1>4, <2>2 DEF Divide!fscanf
  <2>5. last \in Seq(Char)
    <3>1. B[n] \in Seq(Char)
      BY <1>1, <2>1, ElementOfSeq
    <3> QED BY <3>1, AppendProperties
  <2> HIDE DEF last
  <2>6. longest = A \o longer
    <3>1. longer \in Seq(Seq(Char)) /\ Len(longer) = n
      BY <1>1, <2>1, <2>5, ExceptSeq
    <3>2. longest \in Seq(Seq(Char)) /\ Len(longest) = Len(A) + n
      BY <1>2, <2>1, <2>5, ExceptSeq
    <3>3. A \o longer \in Seq(Seq(Char)) /\ Len(A \o longer) = Len(A) + n
      BY <3>1, ConcatProperties
    <3>4. ASSUME NEW k \in 1 .. Len(A) + n PROVE longest[k] = (A \o longer)[k]
      <4>1. (A \o B)[k] = IF k <= Len(A) THEN A[k] ELSE B[k - Len(A)]
        BY <1>1, <2>1, ConcatProperties
      <4>2. (A \o longer)[k] = IF k <= Len(A) THEN A[k] ELSE longer[k - Len(A)]
        BY <2>1, <3>1, ConcatProperties
      <4>3. longest[k] = IF k = Len(A) + n THEN last ELSE (A \o B)[k]
        <5> DEFINE AB == A \o B
                   m == Len(A) + n
        <5>1. m \in 1 .. Len(AB) /\ k \in 1 .. Len(AB) /\ AB \in Seq(Seq(Char))
          BY <1>2, <2>1
        <5> HIDE DEF AB, m
        <5>2. [AB EXCEPT ![m] = last][k] = IF k = m THEN last ELSE AB[k]
          BY <2>5, <5>1, ExceptSeq
        <5> QED BY <5>2 DEF AB, m
      <4>4. ~ (k <= Len(A)) => longer[k - Len(A)] = IF k - Len(A) = n THEN last ELSE B[k - Len(A)]
        BY <1>1, <2>1
      <4> HIDE DEF longer, longest
      <4> QED BY <2>1, <4>1, <4>2, <4>3, <4>4
    <3> HIDE DEF longer, longest
    <3> QED BY <3>2, <3>3, <3>4, SeqEqual
  <2> HIDE DEF longer, longest
  <2>7. [acc EXCEPT !.words = longer].words = longer
        /\ [acc EXCEPT !.words = longer].open = acc.open
    BY <1>1
  <2> QED BY <2>3, <2>4, <2>6, <2>7
<1>5. CASE c \notin White /\ ~ acc.open
  <2> DEFINE more == Append(B, <<c>>)
             most == Append(A \o B, <<c>>)
  <2>1. Divide!fscanf(acc, c) = [words |-> more, open |-> TRUE]
    BY <1>5 DEF Divide!fscanf
  <2>2. Divide!fscanf(joined, c) = [words |-> most, open |-> TRUE]
    BY <1>5 DEF Divide!fscanf
  <2>3. most = A \o more
    <3>1. <<c>> \in Seq(Char) /\ <<<<c>>>> \in Seq(Seq(Char))
      OBVIOUS
    <3>2. Append(A \o B, <<c>>) = (A \o B) \o <<<<c>>>>
      BY <1>2, <3>1, AppendIsConcat
    <3>3. Append(B, <<c>>) = B \o <<<<c>>>>
      BY <1>1, <3>1, AppendIsConcat
    <3>4. (A \o B) \o <<<<c>>>> = A \o (B \o <<<<c>>>>)
      BY <1>1, <3>1, ConcatAssociative
    <3> QED BY <3>2, <3>3, <3>4
  <2> HIDE DEF more, most
  <2> QED BY <2>1, <2>2, <2>3
<1> QED BY <1>3, <1>4, <1>5, Zenon

\* f gives what fscanf has made of the first n characters of s.
Scanned(s, N, f) ==
    f = [n \in 0 .. N |-> IF n = 0 THEN Divide!NoWords
                          ELSE Divide!fscanf(f[n - 1], s[n])]

\* There is such a function for each part of a file.
LEMMA ScanExists ==
    ASSUME NEW s \in Seq(Char)
    PROVE  \A N \in Nat : \E f : Scanned(s, N, f)
<1> DEFINE P == {N \in Nat : \E f : Scanned(s, N, f)}
<1>1. 0 \in P
  <2> DEFINE f == [n \in 0 .. 0 |-> Divide!NoWords]
  <2>1. Scanned(s, 0, f)
    BY DEF Scanned
  <2> QED BY <2>1
<1>2. ASSUME NEW N \in Nat \ {0}, N - 1 \in P PROVE N \in P
  <2>1. PICK g : Scanned(s, N - 1, g)
    BY <1>2
  <2> DEFINE next == Divide!fscanf(g[N - 1], s[N])
             f == [n \in 0 .. N |-> IF n = N THEN next ELSE g[n]]
             h == [n \in 0 .. N |-> IF n = 0 THEN Divide!NoWords
                                    ELSE Divide!fscanf(f[n - 1], s[n])]
  <2>2. ASSUME NEW n \in 0 .. N PROVE f[n] = h[n]
    <3>1. CASE n = N
      <4>1. N - 1 \in 0 .. N /\ N - 1 # N
        OBVIOUS
      <4>2. f[N - 1] = g[N - 1]
        BY <4>1
      <4> QED BY <3>1, <4>2
    <3>2. CASE n # N /\ n = 0
      <4>1. 0 \in 0 .. N - 1
        OBVIOUS
      <4>2. g[0] = Divide!NoWords
        BY <2>1, <4>1 DEF Scanned
      <4> QED BY <3>2, <4>2
    <3>3. CASE n # N /\ n # 0
      <4>1. n \in 0 .. N - 1 /\ n - 1 \in 0 .. N /\ n - 1 # N
        BY <3>3
      <4>2. g[n] = Divide!fscanf(g[n - 1], s[n])
        BY <2>1, <3>3, <4>1 DEF Scanned
      <4>3. f[n] = g[n] /\ f[n - 1] = g[n - 1]
        BY <3>3, <4>1
      <4> QED BY <3>3, <4>2, <4>3
    <3> QED BY <3>1, <3>2, <3>3
  <2>3. f = h
    BY <2>2
  <2>4. Scanned(s, N, f)
    BY <2>3 DEF Scanned
  <2> QED BY <2>4
<1> HIDE DEF P
<1>3. \A N \in Nat : N \in P
  BY <1>1, <1>2, SetInduction
<1> QED BY <1>3 DEF P

\* So Scan is one, and its values are states of fscanf.
LEMMA ScanFunction ==
    ASSUME NEW s \in Seq(Char)
    PROVE  /\ Divide!Scan(s)[0] = Divide!NoWords
           /\ \A n \in 1 .. Len(s) :
                Divide!Scan(s)[n] = Divide!fscanf(Divide!Scan(s)[n - 1], s[n])
           /\ \A n \in 0 .. Len(s) : Divide!Scan(s)[n] \in Acc
<1> DEFINE f == Divide!Scan(s)
<1>1. Len(s) \in Nat /\ \A n \in 1 .. Len(s) : s[n] \in Char
  BY LenProperties, ElementOfSeq
<1>2. f = CHOOSE g : Scanned(s, Len(s), g)
  BY DEF Divide!Scan, Scanned
<1>3. \E g : Scanned(s, Len(s), g)
  BY <1>1, ScanExists
<1>4. Scanned(s, Len(s), CHOOSE g : Scanned(s, Len(s), g))
  BY <1>3
<1>5. Scanned(s, Len(s), f)
  BY <1>2, <1>4
<1> HIDE DEF f
<1>6. f[0] = Divide!NoWords
  <2>1. 0 \in 0 .. Len(s)
    BY <1>1
  <2> QED BY <1>5, <2>1 DEF Scanned
<1>7. \A n \in 1 .. Len(s) : f[n] = Divide!fscanf(f[n - 1], s[n])
  <2>1. \A n \in 1 .. Len(s) : n \in 0 .. Len(s) /\ n # 0
    BY <1>1
  <2> QED BY <1>5, <2>1 DEF Scanned
<1> DEFINE P == {n \in Nat : n <= Len(s) => f[n] \in Acc}
<1>8. 0 \in P
  <2>1. Divide!NoWords \in Acc
    BY EmptySeq DEF Divide!NoWords, Acc
  <2> QED BY <1>6, <2>1
<1>9. ASSUME NEW n \in Nat \ {0}, n - 1 \in P PROVE n \in P
  <2>1. CASE n <= Len(s)
    <3>1. n \in 1 .. Len(s) /\ n - 1 <= Len(s)
      BY <1>1, <2>1
    <3>2. f[n - 1] \in Acc /\ s[n] \in Char
      BY <1>1, <1>9, <3>1
    <3>3. f[n] \in Acc
      BY <1>7, <3>1, <3>2, FscanfType
    <3> QED BY <3>3
  <2> QED BY <2>1
<1>10. \A n \in Nat : n \in P
  <2> HIDE DEF P
  <2> QED BY <1>8, <1>9, SetInduction
<1>11. \A n \in 0 .. Len(s) : f[n] \in Acc
  BY <1>1, <1>10
<1> QED BY <1>6, <1>7, <1>11 DEF f

\* Words are sequences of sequences of characters.
LEMMA WordsType ==
    ASSUME NEW s \in Seq(Char)
    PROVE  Divide!Words(s) \in Seq(Seq(Char))
<1>1. Len(s) \in 0 .. Len(s)
  BY LenProperties
<1>2. Divide!Scan(s)[Len(s)] \in Acc
  BY <1>1, ScanFunction
<1> QED BY <1>2 DEF Divide!Words, Acc

\* The characters of s behind j up to e are those of t behind a up to b; at j no word
\* of s has been read, and at a no word of t is open.
SamePart(s, j, e, t, a, b) ==
    /\ Divide!Scan(s)[j] = Divide!NoWords /\ Divide!Scan(t)[a].open = FALSE
    /\ \E L \in Nat :
        /\ j \in Nat /\ a \in Nat /\ e = j + L /\ b = a + L /\ e <= Len(s) /\ b <= Len(t)
        /\ \A n \in 1 .. L : s[j + n] = t[a + n]

\* The words of t up to b are those up to a and those of s up to e.
Continued(s, e, t, a, b) ==
    Divide!Scan(t)[b].words = Divide!Scan(t)[a].words \o Divide!Scan(s)[e].words

\* From where no word is open, a part of t gives the words that it gives when it is
\* part of another file s, in which it begins where no word has been read.
LEMMA PartScanned ==
    ASSUME NEW s \in Seq(Char), NEW j, NEW e, NEW t \in Seq(Char), NEW a, NEW b,
           SamePart(s, j, e, t, a, b)
    PROVE  Continued(s, e, t, a, b)
<1>0. PICK L \in Nat :
        /\ j \in Nat /\ a \in Nat /\ e = j + L /\ b = a + L /\ e <= Len(s) /\ b <= Len(t)
        /\ \A n \in 1 .. L : s[j + n] = t[a + n]
  BY DEF SamePart
<1>00. Divide!Scan(s)[j] = Divide!NoWords /\ Divide!Scan(t)[a].open = FALSE
  BY DEF SamePart
<1> USE <1>0, <1>00
<1> DEFINE f == Divide!Scan(s)
           g == Divide!Scan(t)
           A == g[a].words
           Same(n) == g[a + n] = [words |-> A \o f[j + n].words, open |-> f[j + n].open]
           P == {n \in Nat : n <= L => Same(n)}
<1>1. Len(s) \in Nat /\ Len(t) \in Nat /\ a \in 0 .. Len(t)
  BY LenProperties
<1>2. g[a] \in Acc
  BY <1>1, ScanFunction
<1>3. A \in Seq(Seq(Char)) /\ g[a] = [words |-> A, open |-> FALSE]
  BY <1>2 DEF Acc
<1>4. \A n \in 1 .. L : f[j + n] = Divide!fscanf(f[j + n - 1], s[j + n])
  <2>1. \A n \in 1 .. L : j + n \in 1 .. Len(s)
    BY <1>1
  <2> QED BY <2>1, ScanFunction
<1>5. \A n \in 1 .. L : g[a + n] = Divide!fscanf(g[a + n - 1], t[a + n])
  <2>1. \A n \in 1 .. L : a + n \in 1 .. Len(t)
    BY <1>1
  <2> QED BY <2>1, ScanFunction
<1>6. \A n \in 0 .. L : f[j + n] \in Acc
  <2>1. \A n \in 0 .. L : j + n \in 0 .. Len(s)
    BY <1>1
  <2> QED BY <2>1, ScanFunction
<1>7. \A n \in 1 .. L : s[j + n] \in Char
  <2>1. \A n \in 1 .. L : j + n \in 1 .. Len(s)
    BY <1>1
  <2> QED BY <2>1, ElementOfSeq
<1>8. f[j] = Divide!NoWords
  OBVIOUS
<1> HIDE DEF f, g, A
<1>9. 0 \in P
  <2>1. a + 0 = a /\ j + 0 = j
    OBVIOUS
  <2>2. A \o <<>> = A
    BY <1>3, ConcatEmptySeq
  <2>3. f[j].words = <<>> /\ f[j].open = FALSE
    BY <1>8 DEF Divide!NoWords
  <2>4. Same(0)
    BY <1>3, <2>1, <2>2, <2>3, Zenon
  <2> HIDE DEF Same
  <2> QED BY <2>4
<1>10. ASSUME NEW n \in Nat \ {0}, n - 1 \in P PROVE n \in P
  <2>1. CASE n <= L
    <3>1. n \in 1 .. L /\ n - 1 \in 0 .. L
      BY <2>1
    <3> DEFINE m == n - 1
               acc == f[j + m]
               c == s[j + n]
    <3>2. j + m = j + n - 1 /\ a + m = a + n - 1
      BY <3>1
    <3>3. g[a + m] = [words |-> A \o acc.words, open |-> acc.open]
      BY <1>10, <3>1
    <3>4. f[j + n] = Divide!fscanf(acc, c)
      BY <1>4, <3>1, <3>2
    <3>5. g[a + n] = Divide!fscanf(g[a + m], c)
      BY <1>5, <3>1, <3>2
    <3>6. acc \in Acc /\ c \in Char
      BY <1>6, <1>7, <3>1
    <3> HIDE DEF acc, c, m
    <3>7. g[a + n] = [words |-> A \o f[j + n].words, open |-> f[j + n].open]
      BY <1>3, <3>3, <3>4, <3>5, <3>6, FscanfJoins
    <3> QED BY <3>7
  <2> QED BY <2>1
<1>11. \A n \in Nat : n \in P
  <2> HIDE DEF P
  <2> QED BY <1>9, <1>10, SetInduction
<1>12. Same(L)
  BY <1>11
<1>13. g[b].words = A \o f[e].words
  BY SMTT(30), <1>12
<1> QED BY <1>13 DEF f, g, A, Continued

-----------------------------------------------------------------------------
(* dividefile *)

\* The first n of the files p have the words w.
Kept(p, n, w) ==
    \E F : Joined([k \in 1 .. n |-> Divide!Words(p[k])], n, F) /\ F[n] = w

\* Where a file may begin: outside of a word, or at the end of the input.
Edge(t, a) == a = Len(t) \/ ~ Divide!Scan(t)[a].open

\* Between two files nothing of the input is lost but the white space in ch.
Divided ==
    /\ text \in Texts /\ num \in 1 .. Len(pid) /\ i \in 1 .. num
    /\ fp \in 0 .. Len(text) /\ fpa \in [1 .. num -> Seq(Char)]
    /\ part \in {"copy", "head", "rest", "done"}
    /\ part = "copy" => num = 1
    /\ part \in {"head", "rest"} => num > 1
    /\ part = "head" =>
         /\ Edge(text, fp) /\ Kept(fpa, i - 1, Divide!Scan(text)[fp].words)
         /\ i > 1 => IF ch = Divide!EOF THEN fp = Len(text)
                     ELSE ch \in White /\ ~ Divide!Scan(text)[fp].open
    /\ part = "rest" =>
         /\ i < num
         /\ \E a \in 0 .. fp : /\ Edge(text, a) /\ fpa[i] = SubSeq(text, a + 1, fp)
                               /\ Kept(fpa, i - 1, Divide!Scan(text)[a].words)
    /\ part = "done" => Kept(fpa, num, Divide!Words(text))

\* At first there are none.
LEMMA KeptFirst ==
    ASSUME NEW p
    PROVE  Kept(p, 0, <<>>)
<1> DEFINE F == [k \in 0 .. 0 |-> <<>>]
           f == [k \in 1 .. 0 |-> Divide!Words(p[k])]
<1>1. Joined(f, 0, F) /\ F[0] = <<>>
  BY DEF Joined
<1> HIDE DEF F
<1> QED BY <1>1 DEF Kept

\* The later files do not matter.
LEMMA KeptSame ==
    ASSUME NEW p, NEW q, NEW n \in Nat, NEW w, Kept(p, n, w),
           \A k \in 1 .. n : p[k] = q[k]
    PROVE  Kept(q, n, w)
<1>1. [k \in 1 .. n |-> Divide!Words(p[k])] = [k \in 1 .. n |-> Divide!Words(q[k])]
  OBVIOUS
<1> QED BY <1>1 DEF Kept

\* The words of the next file come behind the others.
LEMMA KeptNext ==
    ASSUME NEW p, NEW n \in Nat \ {0}, NEW w, Kept(p, n - 1, w)
    PROVE  Kept(p, n, w \o Divide!Words(p[n]))
<1> DEFINE W(k) == Divide!Words(p[k])
           f == [k \in 1 .. n |-> W(k)]
<1>1. PICK F : Joined([k \in 1 .. n - 1 |-> W(k)], n - 1, F) /\ F[n - 1] = w
  BY DEF Kept
<1> DEFINE G == [k \in 0 .. n |-> IF k = n THEN w \o W(n) ELSE F[k]]
<1>2. DOMAIN F = 0 .. n - 1 /\ F[0] = <<>>
      /\ \A k \in 1 .. n - 1 : F[k] = F[k - 1] \o W(k)
  BY <1>1 DEF Joined
<1> HIDE DEF W
<1>3. DOMAIN G = 0 .. n /\ G[0] = <<>> /\ G[n] = w \o W(n)
  BY <1>2
<1>4. ASSUME NEW k \in 1 .. n PROVE G[k] = G[k - 1] \o f[k]
  <2>1. k - 1 \in 0 .. n /\ k - 1 # n /\ f[k] = W(k)
    OBVIOUS
  <2>2. G[k - 1] = F[k - 1]
    BY <2>1
  <2>3. CASE k = n
    BY <1>1, <1>3, <2>1, <2>2, <2>3
  <2>4. CASE k # n
    <3>1. k \in 1 .. n - 1 /\ G[k] = F[k]
      BY <2>4
    <3> QED BY <1>2, <2>1, <2>2, <3>1
  <2> QED BY <2>3, <2>4
<1> HIDE DEF G
<1>5. Joined(f, n, G)
  BY <1>3, <1>4 DEF Joined
<1> QED BY <1>3, <1>5 DEF Kept, W

\* A part of the input that begins and ends outside of words has the words between.
LEMMA PieceWords ==
    ASSUME NEW t \in Seq(Char), NEW a \in Nat, NEW b \in Nat, a <= b, b <= Len(t), Edge(t, a)
    PROVE  /\ SubSeq(t, a + 1, b) \in Seq(Char)
           /\ Divide!Scan(t)[a].words \o Divide!Words(SubSeq(t, a + 1, b))
                = Divide!Scan(t)[b].words
<1> DEFINE s == SubSeq(t, a + 1, b)
<1>1. Len(t) \in Nat /\ a \in 0 .. Len(t) /\ Divide!Scan(t)[a] \in Acc
  BY LenProperties, ScanFunction
<1>2. s \in Seq(Char) /\ Len(s) = b - a /\ \A n \in 1 .. b - a : s[n] = t[a + n]
  <2>1. \A k \in a + 1 .. b : t[k] \in Char
    BY <1>1, ElementOfSeq
  <2>2. /\ s \in Seq(Char)
        /\ Len(s) = IF a + 1 <= b THEN b - (a + 1) + 1 ELSE 0
        /\ \A k \in 1 .. b - (a + 1) + 1 : s[k] = t[a + 1 + k - 1]
    BY <2>1, <1>1, SubSeqProperties
  <2> HIDE DEF s
  <2>3. b - (a + 1) + 1 = b - a /\ \A k \in 1 .. b - a : a + 1 + k - 1 = a + k
    BY <1>1
  <2> QED BY <2>2, <2>3
<1> HIDE DEF s
<1>3. Divide!Scan(s)[0] = Divide!NoWords
  BY <1>2, ScanFunction
<1>4. CASE a = Len(t)
  <2>1. b = a /\ Len(s) = 0
    BY <1>1, <1>2, <1>4
  <2>2. Divide!Words(s) = <<>>
    BY <1>3, <2>1 DEF Divide!Words, Divide!NoWords
  <2>3. Divide!Scan(t)[a].words \in Seq(Seq(Char))
    BY <1>1 DEF Acc
  <2> QED BY <1>2, <2>1, <2>2, <2>3, ConcatEmptySeq DEF s
<1>5. CASE ~ Divide!Scan(t)[a].open
  <2>1. SamePart(s, 0, Len(s), t, a, b)
    <3> DEFINE L == b - a
    <3>1. L \in Nat /\ Len(s) = 0 + L /\ b = a + L
      BY <1>1, <1>2
    <3>2. \A n \in 1 .. L : s[0 + n] = t[a + n]
      BY <1>2
    <3>3. Divide!Scan(t)[a].open = FALSE
      BY <1>1, <1>5 DEF Acc
    <3> HIDE DEF L
    <3> QED BY <1>1, <1>3, <3>1, <3>2, <3>3 DEF SamePart
  <2>2. s \in Seq(Char)
    BY <1>2
  <2>3. Continued(s, Len(s), t, a, b)
    BY <2>1, <2>2, PartScanned
  <2> QED BY <2>3 DEF Continued, Divide!Words, s
<1>6. s \in Seq(Char)
  BY <1>2
<1> QED BY <1>4, <1>5, <1>6 DEF Edge, s

\* White space behind a place ends the word there and adds none.
LEMMA WhiteEnds ==
    ASSUME NEW t \in Seq(Char), NEW q \in Nat, q < Len(t), t[q + 1] \in White
    PROVE  /\ Divide!Scan(t)[q + 1].words = Divide!Scan(t)[q].words
           /\ ~ Divide!Scan(t)[q + 1].open
<1>1. Len(t) \in Nat /\ q + 1 \in 1 .. Len(t) /\ q + 1 - 1 = q /\ q \in 0 .. Len(t)
  BY LenProperties
<1>2. Divide!Scan(t)[q + 1] = Divide!fscanf(Divide!Scan(t)[q + 1 - 1], t[q + 1])
  BY <1>1, ScanFunction
<1> DEFINE acc == Divide!Scan(t)[q]
<1>3. acc \in Acc
  BY <1>1, ScanFunction
<1>4. acc \in [words : Seq(Seq(Char)), open : BOOLEAN]
  BY <1>3 DEF Acc
<1>5. Divide!Scan(t)[q + 1] = [acc EXCEPT !.open = FALSE]
  BY <1>1, <1>2 DEF Divide!fscanf
<1> HIDE DEF acc
<1> QED BY <1>4, <1>5 DEF acc

\* A file that begins with the white space in ch has the words behind it.
LEMMA LastWords ==
    ASSUME NEW t \in Seq(Char), NEW a \in Nat, a <= Len(t), ~ Divide!Scan(t)[a].open,
           NEW c \in White
    PROVE  /\ <<c>> \o SubSeq(t, a + 1, Len(t)) \in Seq(Char)
           /\ Divide!Scan(t)[a].words \o Divide!Words(<<c>> \o SubSeq(t, a + 1, Len(t)))
                = Divide!Words(t)
<1> DEFINE N == Len(t)
           b == SubSeq(t, a + 1, N)
           s == <<c>> \o b
           L == N - a
<1>1. N \in Nat /\ a \in 0 .. N /\ Divide!Scan(t)[a] \in Acc /\ L \in Nat
  BY LenProperties, ScanFunction
<1>2. b \in Seq(Char) /\ Len(b) = L /\ \A n \in 1 .. L : b[n] = t[a + n]
  <2>1. \A k \in a + 1 .. N : t[k] \in Char
    BY <1>1, ElementOfSeq
  <2>2. /\ b \in Seq(Char)
        /\ Len(b) = IF a + 1 <= N THEN N - (a + 1) + 1 ELSE 0
        /\ \A k \in 1 .. N - (a + 1) + 1 : b[k] = t[a + 1 + k - 1]
    BY <2>1, <1>1, SubSeqProperties
  <2> HIDE DEF b, N
  <2>3. N - (a + 1) + 1 = L /\ \A k \in 1 .. L : a + 1 + k - 1 = a + k
    BY <1>1
  <2> QED BY <2>2, <2>3, <1>1
<1> HIDE DEF b
<1>3. c \in Char /\ <<c>> \in Seq(Char) /\ Len(<<c>>) = 1 /\ <<c>>[1] = c
  BY DEF Char
<1>4. s \in Seq(Char) /\ Len(s) = 1 + L
  <2> DEFINE d == <<c>>
  <2>1. d \in Seq(Char) /\ Len(d) = 1
    BY <1>3
  <2> HIDE DEF d, L
  <2>2. d \o b \in Seq(Char) /\ Len(d \o b) = Len(d) + Len(b)
    BY <1>2, <2>1, ConcatProperties
  <2> QED BY <1>2, <2>1, <2>2 DEF d
<1>5. s[1] = c /\ \A n \in 1 .. L : s[1 + n] = t[a + n]
  <2> DEFINE d == <<c>>
  <2>1. \A k \in 1 .. 1 + L : (d \o b)[k] = IF k <= 1 THEN d[k] ELSE b[k - 1]
    BY <1>2, <1>3, ConcatProperties
  <2> HIDE DEF d, L
  <2>2. 1 \in 1 .. 1 + L /\ \A n \in 1 .. L : 1 + n \in 1 .. 1 + L /\ ~ (1 + n <= 1) /\ 1 + n - 1 = n
    BY <1>1
  <2>3. s = d \o b
    BY DEF d
  <2> HIDE DEF s
  <2> QED BY <2>1, <2>2, <2>3, <1>2, <1>3 DEF d
<1> HIDE DEF s, L
<1>6. Divide!Scan(s)[1] = Divide!NoWords
  <2>1. 1 \in 1 .. Len(s) /\ 1 - 1 = 0
    BY <1>1, <1>4
  <2>2. Divide!Scan(s)[1] = Divide!fscanf(Divide!Scan(s)[0], s[1])
    BY <1>4, <2>1, ScanFunction
  <2>3. Divide!Scan(s)[0] = Divide!NoWords
    BY <1>4, ScanFunction
  <2>4. Divide!fscanf(Divide!NoWords, c) = [Divide!NoWords EXCEPT !.open = FALSE]
    BY DEF Divide!fscanf
  <2>5. [Divide!NoWords EXCEPT !.open = FALSE] = Divide!NoWords
    <3> DEFINE r == Divide!NoWords
    <3>1. r \in [words : {<<>>}, open : BOOLEAN] /\ r.open = FALSE
      BY DEF Divide!NoWords
    <3> HIDE DEF r
    <3>2. [r EXCEPT !.open = FALSE] = r
      BY <3>1
    <3> QED BY <3>2 DEF r
  <2> QED BY <2>2, <2>3, <2>4, <2>5, <1>5
<1>7. SamePart(s, 1, Len(s), t, a, N)
  <2>1. Divide!Scan(t)[a].open = FALSE
    BY <1>1 DEF Acc
  <2>2. N = a + L
    BY <1>1 DEF L
  <2> QED BY <1>1, <1>4, <1>5, <1>6, <2>1, <2>2 DEF SamePart
<1>8. Continued(s, Len(s), t, a, N)
  BY <1>4, <1>7, PartScanned
<1> QED BY <1>4, <1>8 DEF Continued, Divide!Words, s, b

\* An empty file has no words.
LEMMA NoWordsInNone == Divide!Words(<<>>) = <<>>
<1>1. <<>> \in Seq(Char) /\ Len(<<>>) = 0
  BY EmptySeq
<1>2. Divide!Scan(<<>>)[0] = Divide!NoWords
  BY <1>1, ScanFunction
<1> QED BY <1>1, <1>2 DEF Divide!Words, Divide!NoWords

\* dividefile finds the next of the characters it stops at, or the end.
LEMMA StopFound ==
    ASSUME text \in Seq(Char), NEW p \in 0 .. Len(text), NEW stops, Divide!EOF \in stops
    PROVE  /\ Divide!Stop(p, stops) \in p .. Len(text)
           /\ Divide!At(Divide!Stop(p, stops)) \in stops
<1> DEFINE N == Len(text)
           D == {q \in p .. N : Divide!At(q) \in stops}
<1>1. N \in Nat /\ p \in Nat
  BY LenProperties
<1>2. N \in D
  <2>1. Divide!At(N) = Divide!EOF /\ N \in p .. N
    BY <1>1 DEF Divide!At
  <2> QED BY <2>1
<1>3. PICK q \in D : \A r \in D : q <= r
  <2>1. D \in SUBSET Nat /\ D # {}
    BY <1>1, <1>2
  <2> HIDE DEF D
  <2> QED BY <2>1, LeastNatural
<1>4. \A r \in p .. q - 1 : Divide!At(r) \notin stops
  <2>1. \A r \in p .. q - 1 : r \in p .. N /\ ~ (q <= r)
    BY <1>1, <1>3
  <2> QED BY <2>1, <1>3
<1>5. \E x \in p .. N : Divide!At(x) \in stops /\ \A r \in p .. x - 1 : Divide!At(r) \notin stops
  BY <1>3, <1>4
<1> QED BY <1>5 DEF Divide!Stop

\* The input file is a sequence of characters, and there is a mapper at least.
LEMMA TextType ==
    ASSUME text \in Texts
    PROVE  text \in Seq(Char) /\ Len(text) \in Nat
BY CharacterAssumption, LenProperties DEF Char

\* At first nothing of the input is in a file, and nothing is lost.
LEMMA DividedInit == ASSUME Divide!Init PROVE Divided
<1>1. /\ text \in Texts /\ num \in 1 .. Len(pid) /\ fp = 0 /\ i = 1
      /\ fpa = [k \in 1 .. num |-> <<>>]
      /\ part = IF num = 1 THEN "copy" ELSE "head"
  BY DEF Divide!Init
<1>2. Len(pid) \in Nat
  BY RoleAssumption, LenProperties
<1>3. text \in Seq(Char) /\ Len(text) \in Nat
  BY <1>1, TextType
<1>4. Divide!Scan(text)[0] = Divide!NoWords
  BY <1>3, ScanFunction
<1>5. Edge(text, fp)
  BY <1>1, <1>4 DEF Edge, Divide!NoWords
<1>6. Kept(fpa, i - 1, Divide!Scan(text)[fp].words)
  <2>1. i - 1 = 0 /\ Divide!Scan(text)[fp].words = <<>>
    BY <1>1, <1>4 DEF Divide!NoWords
  <2> QED BY <2>1, KeptFirst
<1>7. fpa \in [1 .. num -> Seq(Char)]
  <2>1. <<>> \in Seq(Char)
    OBVIOUS
  <2> QED BY <1>1, <2>1
<1> QED BY <1>1, <1>2, <1>3, <1>5, <1>6, <1>7 DEF Divided

\* cp -r: the only piece is the whole file.
LEMMA DividedCopy == ASSUME Divided, Divide!Copy PROVE Divided'
<1>1. /\ part = "copy" /\ num = 1 /\ i \in 1 .. num /\ fp \in 0 .. Len(text)
      /\ text \in Texts /\ num \in 1 .. Len(pid) /\ fpa \in [1 .. num -> Seq(Char)]
  BY DEF Divided, Divide!Copy
<1>2. fpa' = [fpa EXCEPT ![1] = text] /\ part' = "done" /\ UNCHANGED <<text, num, fp, ch, i>>
  BY DEF Divide!Copy
<1>3. text \in Seq(Char)
  BY <1>1, TextType
<1>4. fpa'[1] = text /\ fpa' \in [1 .. num -> Seq(Char)]
  BY <1>1, <1>2, <1>3
<1>5. Kept(fpa', 1, <<>> \o Divide!Words(fpa'[1]))
  <2>1. Kept(fpa', 0, <<>>)
    BY KeptFirst
  <2>2. 1 \in Nat \ {0} /\ 1 - 1 = 0
    OBVIOUS
  <2> QED BY <2>1, <2>2, KeptNext
<1>6. <<>> \o Divide!Words(text) = Divide!Words(text)
  BY <1>3, WordsType, ConcatEmptySeq
<1> QED BY <1>1, <1>2, <1>4, <1>5, <1>6 DEF Divided

\* number bytes: the file is open and ends somewhere.
LEMMA DividedFirstBytes == ASSUME Divided, Divide!FirstBytes PROVE Divided'
<1> DEFINE n == IF fp + Divide!number <= Len(text) THEN fp + Divide!number ELSE Len(text)
           piece == SubSeq(text, fp + 1, n)
<1>1. /\ part = "head" /\ i < num /\ i \in 1 .. num /\ fp \in 0 .. Len(text)
      /\ text \in Texts /\ num \in 1 .. Len(pid) /\ fpa \in [1 .. num -> Seq(Char)]
      /\ num > 1
      /\ Edge(text, fp) /\ Kept(fpa, i - 1, Divide!Scan(text)[fp].words)
  BY DEF Divided, Divide!FirstBytes
<1>2. fpa' = [fpa EXCEPT ![i] = piece] /\ fp' = n /\ part' = "rest"
      /\ UNCHANGED <<text, num, ch, i>>
  BY DEF Divide!FirstBytes
<1>3. text \in Seq(Char) /\ Len(text) \in Nat
  BY <1>1, TextType
<1>4. Divide!number \in Nat
  <2>1. num \in Nat \ {0}
    BY <1>1, RoleAssumption, LenProperties
  <2> QED BY <1>3, <2>1 DEF Divide!number
<1>5. n \in 0 .. Len(text) /\ fp \in 0 .. n
  BY <1>1, <1>3, <1>4
<1> HIDE DEF n
<1>6. piece \in Seq(Char)
  <2>1. \A k \in fp + 1 .. n : text[k] \in Char
    BY <1>1, <1>3, <1>5, ElementOfSeq
  <2>2. fp + 1 \in Int /\ n \in Int
    BY <1>1, <1>5
  <2> QED BY <2>1, <2>2, SubSeqProperties
<1> HIDE DEF piece
<1>7. fpa' \in [1 .. num -> Seq(Char)] /\ fpa'[i] = piece
      /\ \A k \in 1 .. i - 1 : fpa[k] = fpa'[k]
  BY <1>1, <1>2, <1>6
<1>8. Kept(fpa', i - 1, Divide!Scan(text)[fp].words)
  <2>1. i - 1 \in Nat
    BY <1>1
  <2> QED BY <1>1, <1>7, <2>1, KeptSame
<1>9. \E a \in 0 .. fp' : /\ Edge(text', a) /\ fpa'[i'] = SubSeq(text', a + 1, fp')
                          /\ Kept(fpa', i' - 1, Divide!Scan(text')[a].words)
  <2>1. fpa'[i'] = SubSeq(text', fp + 1, fp')
    BY <1>2, <1>7 DEF piece
  <2> QED BY <1>1, <1>2, <1>5, <1>8, <2>1
<1> QED BY <1>1, <1>2, <1>5, <1>7, <1>9 DEF Divided

\* Up to the next separator or the end: the word is complete.
LEMMA DividedRest == ASSUME Divided, Divide!Rest PROVE Divided'
<1> DEFINE stops == Separator \cup {Divide!EOF}
           q == Divide!Stop(fp, stops)
           W(k) == Divide!Scan(text)[k].words
<1>1. /\ part = "rest" /\ i < num /\ i \in 1 .. num /\ fp \in 0 .. Len(text)
      /\ text \in Texts /\ num \in 1 .. Len(pid) /\ fpa \in [1 .. num -> Seq(Char)]
      /\ num > 1
  BY DEF Divided, Divide!Rest
<1>2. PICK a \in 0 .. fp : /\ Edge(text, a) /\ fpa[i] = SubSeq(text, a + 1, fp)
                           /\ Kept(fpa, i - 1, W(a))
  BY DEF Divided, Divide!Rest
<1>3. /\ fpa' = [fpa EXCEPT ![i] = @ \o SubSeq(text, fp + 1, q)]
      /\ ch' = Divide!At(q) /\ fp' = (IF q < Len(text) THEN q + 1 ELSE q)
      /\ i' = i + 1 /\ part' = "head" /\ text' = text /\ num' = num
  BY DEF Divide!Rest
<1>4. text \in Seq(Char) /\ Len(text) \in Nat
  BY <1>1, TextType
<1>5. q \in fp .. Len(text) /\ Divide!At(q) \in stops
  BY <1>1, <1>4, StopFound
<1> HIDE DEF q
<1> DEFINE piece == SubSeq(text, a + 1, q)
<1>6. SubSeq(text, a + 1, fp) \o SubSeq(text, fp + 1, q) = piece
  <2>1. a + 1 \in 1 .. Len(text) + 1 /\ fp \in a + 1 - 1 .. Len(text) /\ q \in fp .. Len(text)
    BY <1>1, <1>2, <1>4, <1>5
  <2> QED BY <1>4, <2>1, ConcatAdjacentSubSeq
<1>7. piece \in Seq(Char) /\ W(a) \o Divide!Words(piece) = W(q)
  <2>1. a \in Nat /\ q \in Nat /\ a <= q /\ q <= Len(text)
    BY <1>1, <1>2, <1>4, <1>5
  <2> QED BY <1>2, <1>4, <2>1, PieceWords
<1> HIDE DEF piece
<1>8. fpa' \in [1 .. num -> Seq(Char)] /\ fpa'[i] = piece
      /\ \A k \in 1 .. i - 1 : fpa[k] = fpa'[k]
  <2>1. fpa' = [fpa EXCEPT ![i] = piece]
    BY <1>2, <1>3, <1>6
  <2> QED BY <1>1, <1>7, <2>1
<1>9. Kept(fpa', i, W(q))
  <2>1. i \in Nat \ {0} /\ i - 1 \in Nat
    BY <1>1
  <2>2. Kept(fpa', i - 1, W(a))
    BY <1>2, <1>8, <2>1, KeptSame
  <2>3. Kept(fpa', i, W(a) \o Divide!Words(fpa'[i]))
    BY <2>1, <2>2, KeptNext
  <2> QED BY <1>7, <1>8, <2>3
<1>10. i' - 1 = i /\ i' \in 1 .. num
  BY <1>1, <1>3
<1>11. CASE q < Len(text)
  <2>1. Divide!At(q) = text[q + 1] /\ text[q + 1] \in Char /\ q \in Nat /\ fp' = q + 1
    BY <1>1, <1>3, <1>4, <1>5, <1>11, ElementOfSeq DEF Divide!At
  <2>2. text[q + 1] # Divide!EOF
    BY <2>1, CharacterAssumption DEF Char
  <2>3. text[q + 1] \in White
    BY <1>5, <2>1, <2>2, CharacterAssumption
  <2>4. W(q + 1) = W(q) /\ ~ Divide!Scan(text)[q + 1].open
    BY <1>4, <1>11, <2>1, <2>3, WhiteEnds
  <2>5. Kept(fpa', i' - 1, W(fp')) /\ ~ Divide!Scan(text)[fp'].open
    BY <1>9, <1>10, <2>1, <2>4
  <2>6. fp' \in 0 .. Len(text) /\ ch' \in White /\ ch' # Divide!EOF
    BY <1>3, <1>4, <1>11, <2>1, <2>2, <2>3
  <2> QED BY <1>1, <1>3, <1>8, <1>10, <2>5, <2>6 DEF Divided, Edge
<1>12. CASE ~ q < Len(text)
  <2>1. q = Len(text) /\ fp' = Len(text) /\ ch' = Divide!EOF
    BY <1>1, <1>3, <1>4, <1>5, <1>12 DEF Divide!At
  <2>2. Kept(fpa', i' - 1, W(fp')) /\ fp' \in 0 .. Len(text)
    BY <1>4, <1>9, <1>10, <2>1
  <2> QED BY <1>1, <1>3, <1>8, <1>10, <2>1, <2>2 DEF Divided, Edge
<1> QED BY <1>11, <1>12

\* ch and all that is left; behind the end of the input, nothing.
LEMMA DividedLastFile == ASSUME Divided, Divide!LastFile PROVE Divided'
<1> DEFINE W(k) == Divide!Scan(text)[k].words
           piece == IF ch = Divide!EOF THEN <<>> ELSE <<ch>> \o SubSeq(text, fp + 1, Len(text))
<1>1. /\ part = "head" /\ i = num /\ i \in 1 .. num /\ fp \in 0 .. Len(text)
      /\ text \in Texts /\ num \in 1 .. Len(pid) /\ fpa \in [1 .. num -> Seq(Char)]
      /\ num > 1 /\ i > 1
      /\ Kept(fpa, i - 1, W(fp))
      /\ IF ch = Divide!EOF THEN fp = Len(text)
         ELSE ch \in White /\ ~ Divide!Scan(text)[fp].open
  BY DEF Divided, Divide!LastFile
<1>2. fpa' = [fpa EXCEPT ![i] = piece] /\ fp' = Len(text) /\ part' = "done"
      /\ UNCHANGED <<text, num, i>>
  BY DEF Divide!LastFile
<1>3. text \in Seq(Char) /\ Len(text) \in Nat /\ fp \in Nat /\ fp <= Len(text)
  BY <1>1, TextType
<1>4. piece \in Seq(Char) /\ W(fp) \o Divide!Words(piece) = Divide!Words(text)
  <2>1. CASE ch = Divide!EOF
    <3>1. Divide!Words(piece) = <<>> /\ piece \in Seq(Char)
      BY <2>1, NoWordsInNone
    <3>2. W(fp) = Divide!Words(text) /\ Divide!Words(text) \in Seq(Seq(Char))
      BY <1>1, <1>3, <2>1, WordsType DEF Divide!Words
    <3> QED BY <3>1, <3>2, ConcatEmptySeq
  <2>2. CASE ch # Divide!EOF
    <3>1. piece = <<ch>> \o SubSeq(text, fp + 1, Len(text))
      BY <2>2
    <3>2. ch \in White /\ ~ Divide!Scan(text)[fp].open
      BY <1>1, <2>2
    <3> HIDE DEF piece
    <3> QED BY <1>3, <3>1, <3>2, LastWords
  <2> QED BY <2>1, <2>2
<1> HIDE DEF piece
<1>5. fpa' \in [1 .. num -> Seq(Char)] /\ fpa'[i] = piece
      /\ \A k \in 1 .. i - 1 : fpa[k] = fpa'[k]
  BY <1>1, <1>2, <1>4
<1>6. Kept(fpa', num, Divide!Words(text))
  <2>1. i \in Nat \ {0} /\ i - 1 \in Nat
    BY <1>1
  <2>2. Kept(fpa', i - 1, W(fp))
    BY <1>1, <1>5, <2>1, KeptSame
  <2>3. Kept(fpa', i, W(fp) \o Divide!Words(fpa'[i]))
    BY <2>1, <2>2, KeptNext
  <2> QED BY <1>1, <1>4, <1>5, <2>3
<1>7. fp' \in 0 .. Len(text)
  BY <1>2, <1>3
<1> QED BY <1>1, <1>2, <1>5, <1>6, <1>7 DEF Divided

\* Every step of dividefile keeps what has been read and not yet been written.
LEMMA DividedStep == ASSUME Divided, Divide!dividefile PROVE Divided'
BY DividedCopy, DividedFirstBytes, DividedRest, DividedLastFile DEF Divide!dividefile

\* When all is written the files have the words of the input.
LEMMA DividedKeeps == ASSUME Divided PROVE PiecesKeepWords
<1>1. CASE part = "done"
  <2> DEFINE f == [k \in 1 .. num |-> Divide!Words(fpa[k])]
             W == Divide!Words(text)
  <2>1. PICK F : Joined(f, num, F) /\ F[num] = W
    BY <1>1 DEF Divided, Kept
  <2>2. num \in Nat /\ fpa \in [1 .. num -> Seq(Char)]
    BY RoleAssumption, LenProperties DEF Divided
  <2>3. f \in [1 .. num -> Seq(Seq(Char))]
    BY <2>2, WordsType
  <2> HIDE DEF f, W
  <2>4. FlattenSeq(f) = F[num]
    BY <2>1, <2>2, <2>3, Flattened
  <2>5. Divide!FlattenSeq(f) = FlattenSeq(f)
    BY DEF Divide!FlattenSeq, FlattenSeq
  <2>6. Divide!FlattenSeq(f) = W
    BY <2>1, <2>4, <2>5
  <2> QED BY <2>6 DEF PiecesKeepWords, Divide!WordsKept, f, W
<1>2. CASE part # "done"
  BY <1>2 DEF PiecesKeepWords, Divide!WordsKept
<1> QED BY <1>1, <1>2

\* Only dividefile writes the files.
LEMMA FilesStep == ASSUME [WNext]_allvars PROVE Divide!dividefile \/ UNCHANGED files
BY DEF WNext, Run, MapperSend, ReducerCall, ReducerCount, ReducerExit, MainDivide,
       MainCreate, MainSend, MainClose, MainDestroy, Finished, allvars

\* Divided holds after each step of the program.
LEMMA DividedNext == Divided /\ [WNext]_allvars => Divided'
<1>1. ASSUME Divided, UNCHANGED files PROVE Divided'
  BY <1>1 DEF Divided, files
<1> QED BY <1>1, DividedStep, FilesStep

\* So it always holds.
LEMMA DividedAlways == WSpec => []Divided
<1>1. WInit => Divided
  BY DividedInit DEF WInit
<1> QED BY <1>1, DividedNext, PTL DEF WSpec

\* For any input, any number of mappers and any sets of separators and white
\* space of which the separators are some, the pieces have the words of the input,
\* in their order, each once and none cut in two.
THEOREM PiecesHaveWords == WSpec => []PiecesKeepWords
<1>1. Divided => PiecesKeepWords
  BY DividedKeeps
<1> QED BY <1>1, DividedAlways, PTL

-----------------------------------------------------------------------------
(* The threads *)

\* Where a thread has a message that is not yet in the buffer, and where the reducer
\* has taken none out, or may have.
Waiting == {"s_open", "s_lock", "s_wait", "s_test"}
Early   == {"r_open", "r_lock", "r_wait", "r_test"}
Late    == {"r_unlock", "r_unlock_signal", "r_signal"}

\* What thread t does to the other threads, the buffer and itself inside a call.
Others(t) == \A u \in Thread \ {t} : pc'[u] = pc[u] /\ msg'[u] = msg[u] /\ ret'[u] = ret[u]

Sends(t) ==
    /\ t \in Sender /\ pc[t] \in SendPCs /\ isopen' = isopen /\ msg' = msg
    /\ \/ pc[t] \in Waiting /\ pc'[t] \in Waiting /\ queue' = queue
       \/ pc[t] = "s_unlock" /\ pc'[t] = "idle" /\ queue' = queue
       \/ pc[t] = "s_test" /\ pc'[t] = "s_unlock" /\ queue' = Append(queue, msg[t])
       \/ ~ isopen

Takes(t) ==
    /\ pc[t] = "r_test" /\ pc'[t] \in Late /\ isopen
    /\ queue # <<>> /\ queue' = Tail(queue) /\ msg'[t] = Head(queue)
    /\ ret'[t] = IF Head(queue) \in Special THEN "BUFFER_SPECIAL_MESSSAGE" ELSE "BUFFER_SUCCESS"

Receives(t) ==
    /\ t \in Receiver /\ pc[t] \in ReceivePCs /\ isopen' = isopen
    /\ \/ /\ queue' = queue /\ msg' = msg /\ ret'[t] = ret[t]
          /\ \/ pc[t] \in Early /\ pc'[t] \in Early
             \/ pc[t] \in Late /\ pc'[t] \in Late \cup {"idle"}
       \/ Takes(t)
       \/ ~ isopen

Closes(t) ==
    /\ pc[t] \in ClosePCs /\ queue' = queue /\ msg' = msg
    /\ \/ pc'[t] = "c_test" /\ isopen' = isopen
       \/ pc'[t] = "c_unlock" /\ ~ isopen'
       \/ pc'[t] = "idle" /\ pc[t] = "c_unlock" /\ isopen' = isopen

\* A step inside a call is one of these.
LEMMA ThreadKinds ==
    ASSUME IInv, NEW t \in Thread, ThreadStep(t)
    PROVE  Others(t) /\ (Sends(t) \/ Receives(t) \/ Closes(t))
<1>1. /\ pc \in [Thread -> PCs] /\ msg \in [Thread -> Message \cup {NoMsg}]
      /\ ret \in [Thread -> Statuses] /\ queue \in Seq(Message)
  BY DEF IInv, TypeInvariant, PCs, Statuses
<1>2. /\ pc[t] \in SendPCs => t \in Sender /\ msg[t] \in Message
      /\ pc[t] \in ReceivePCs => t \in Receiver
  BY DEF IInv, Roles
<1>3. CASE SendStep(t)
  <2>1. CASE SendOpen(t)
    BY <1>1, <1>2, <2>1 DEF SendOpen, Goto, Status, Others, Sends, Waiting, SendPCs, ring, cond
  <2>2. CASE SendLock(t)
    BY <1>1, <1>2, <2>2 DEF SendLock, Goto, Others, Sends, Waiting, SendPCs, ring, cond
  <2>3. CASE SendWait(t)
    BY <1>1, <1>2, <2>3 DEF SendWait, Goto, Others, Sends, Waiting, SendPCs, ring, cond
  <2>4. CASE SendGo(t)
    <3>1. Others(t) /\ pc[t] = "s_test" /\ pc'[t] = "s_unlock" /\ isopen' = isopen /\ msg' = msg
      BY <1>1, <2>4 DEF SendGo, Goto, Status, Others
    <3>2. isopen => queue' = Append(queue, msg[t])
      BY <2>4 DEF SendGo, buffer_add_Q
    <3> QED BY <1>2, <3>1, <3>2 DEF Sends, SendPCs
  <2>5. CASE SendUnlock(t)
    BY <1>1, <1>2, <2>5 DEF SendUnlock, Goto, Others, Sends, SendPCs, ring, cond
  <2> QED BY <1>3, <2>1, <2>2, <2>3, <2>4, <2>5 DEF SendStep
<1>4. CASE ReceiveStep(t)
  <2>1. CASE ReceiveOpen(t)
    BY <1>1, <1>2, <2>1 DEF ReceiveOpen, Goto, Status, Others, Receives, Early, ReceivePCs, ring, cond
  <2>2. CASE ReceiveLock(t)
    BY <1>1, <1>2, <2>2 DEF ReceiveLock, Goto, Others, Receives, Early, ReceivePCs, ring, cond
  <2>3. CASE ReceiveWait(t)
    BY <1>1, <1>2, <2>3 DEF ReceiveWait, Goto, Others, Receives, Early, ReceivePCs, ring, cond
  <2>4. CASE ReceiveGo(t)
    <3>1. queue # <<>>
      <4>1. avilSize < Size /\ avilSize \in Int /\ Size \in Int /\ Space
        BY <2>4, SizeAssumption DEF ReceiveGo, IInv, TypeInvariant
      <4> QED BY <1>1, <4>1, EmptyRing
    <3> DEFINE h == Head(queue)
    <3>2. /\ pc[t] = "r_test" /\ isopen /\ isopen' = isopen /\ queue' = Tail(queue)
          /\ msg' = [msg EXCEPT ![t] = h]
          /\ IF h \in Special
             THEN /\ Goto(t, "r_unlock_signal")
                  /\ Status(t, "BUFFER_SPECIAL_MESSSAGE")
             ELSE /\ Goto(t, "r_unlock")
                  /\ Status(t, "BUFFER_SUCCESS")
      BY <2>4 DEF ReceiveGo
    <3> HIDE DEF h
    <3>3. Others(t) /\ msg'[t] = h /\ pc'[t] \in Late
          /\ ret'[t] = IF h \in Special THEN "BUFFER_SPECIAL_MESSSAGE" ELSE "BUFFER_SUCCESS"
      BY <1>1, <3>2 DEF Goto, Status, Others, Late
    <3> QED BY <1>2, <3>1, <3>2, <3>3 DEF h, Receives, Takes, ReceivePCs
  <2>5. CASE ReceiveClosed(t)
    BY <1>1, <1>2, <2>5 DEF ReceiveClosed, Goto, Status, Others, Receives, ReceivePCs, ring, cond
  <2>6. CASE ReceiveUnlock(t)
    <3>1. pc'[t] \in Late \cup {"idle"} /\ Others(t)
      BY <1>1, <2>6 DEF ReceiveUnlock, Goto, Others, Late
    <3> QED BY <1>2, <2>6, <3>1 DEF ReceiveUnlock, Receives, Late, ReceivePCs, ring
  <2>7. CASE ReceiveSignal(t)
    BY <1>1, <1>2, <2>7 DEF ReceiveSignal, Goto, Others, Receives, Late, ReceivePCs, ring, cond
  <2> QED BY <1>4, <2>1, <2>2, <2>3, <2>4, <2>5, <2>6, <2>7 DEF ReceiveStep
<1>5. CASE CloseStep(t)
  <2>1. CASE CloseLock(t)
    BY <1>1, <2>1 DEF CloseLock, Goto, Others, Closes, ClosePCs, ring, cond
  <2>2. CASE CloseGo(t)
    BY <1>1, <2>2 DEF CloseGo, Goto, Status, Others, Closes, ClosePCs, ring, cond
  <2>3. CASE CloseUnlock(t)
    BY <1>1, <2>3 DEF CloseUnlock, Goto, Others, Closes, ClosePCs, ring, cond
  <2> QED BY <1>5, <2>1, <2>2, <2>3 DEF CloseStep
<1> QED BY <1>3, <1>4, <1>5 DEF ThreadStep

\* Before the mappers are created nothing has been sent.
Fresh ==
    /\ (\A t \in Thread : pc[t] = "idle") /\ queue = <<>>
    /\ pos = [t \in Mapper |-> 0] /\ counts = [m \in Message |-> 0] /\ reducing = "call"

\* What main has sent and joined when it is at each step, and who may be inside a
\* function of the buffer then.
After == {"join_reducer", "destroy", "end"}

Calls ==
    /\ step \in {"divide", "join_mappers"} \cup After
    /\ reducing \in {"call", "wait", "exit"} /\ pos \in [Mapper -> Nat]
    /\ IF step = "divide" THEN Fresh ELSE part = "done"
    /\ pc[main] \in SendPCs => step = "join_reducer" /\ msg[main] = <<splmsg>>
    /\ \A t \in Thread : pc[t] \in ClosePCs => t = main /\ step = "destroy"
    /\ pc[reducer] # "idle" => reducing = "wait"
    /\ step \in After => \A t \in Mapper : MapperDone(t)
    /\ step \in {"destroy", "end"} => reducing = "exit"
    /\ step \notin {"destroy", "end"} => isopen
    /\ step = "destroy" /\ pc[main] \in {"idle", "c_unlock"} => ~ isopen
    /\ step = "end" => pc[main] = "idle" /\ ~ isopen
    /\ destroyed = (step = "end")

\* Who the threads are.
LEMMA Cast ==
    /\ Thread = Mapper \cup {main, reducer} /\ Sender = Mapper \cup {main}
    /\ Receiver = {reducer} /\ Closer = {main}
    /\ main \notin Mapper /\ reducer \notin Mapper /\ reducer # main
BY RoleAssumption DEF Thread

\* A mapper's piece does not change.
LEMMA WordsSame == UNCHANGED files => \A t : Words(t)' = Words(t)
BY DEF files, Words

\* While a thread is inside buffer_send or buffer_receive the buffer is open.
LEMMA OpenSteps ==
    ASSUME IInv, Calls, NEW t \in Thread, ThreadStep(t)
    PROVE  /\ Others(t) /\ (Sends(t) \/ Receives(t) \/ Closes(t)) /\ step # "divide"
           /\ Sends(t) => /\ isopen /\ pc'[t] \in {"idle"} \cup SendPCs
                          /\ t \in Mapper => step = "join_mappers"
                          /\ t \notin Mapper => t = main
           /\ Receives(t) => isopen /\ pc'[t] \in {"idle"} \cup ReceivePCs /\ t = reducer
           /\ Closes(t) => t = main /\ step = "destroy"
<1>1. Others(t) /\ (Sends(t) \/ Receives(t) \/ Closes(t))
  BY ThreadKinds
<1>2. pc[t] \in SendPCs \/ pc[t] \in ReceivePCs \/ pc[t] \in ClosePCs
  BY <1>1 DEF Sends, Receives, Closes
<1>3. step # "divide"
  BY <1>2 DEF Calls, Fresh, SendPCs, ReceivePCs, ClosePCs
<1>4. ASSUME Sends(t)
      PROVE  /\ isopen /\ pc'[t] \in {"idle"} \cup SendPCs
             /\ t \in Mapper => step = "join_mappers"
             /\ t \notin Mapper => t = main
  <2>1. pc[t] \in SendPCs /\ pc[t] # "idle" /\ (t \in Mapper \/ t = main)
    BY <1>4, Cast DEF Sends, SendPCs
  <2>2. t \in Mapper => step = "join_mappers"
    BY <1>3, <2>1 DEF Calls, After, MapperDone
  <2>3. isopen
    BY <2>1, <2>2 DEF Calls
  <2> QED BY <1>4, <2>1, <2>2, <2>3 DEF Sends, Waiting, SendPCs
<1>5. ASSUME Receives(t)
      PROVE  isopen /\ pc'[t] \in {"idle"} \cup ReceivePCs /\ t = reducer
  <2>1. pc[t] \in ReceivePCs /\ pc[t] # "idle" /\ t = reducer
    BY <1>5, Cast DEF Receives, ReceivePCs
  <2>2. isopen
    BY <2>1 DEF Calls
  <2> QED BY <1>5, <2>1, <2>2 DEF Receives, Takes, Early, Late, ReceivePCs
<1>6. Closes(t) => t = main /\ step = "destroy"
  BY DEF Closes, Calls
<1> QED BY <1>1, <1>3, <1>4, <1>5, <1>6

\* At first no thread is inside a function of the buffer.
LEMMA CallsInit == ASSUME WInit PROVE Calls
<1>1. /\ pc = [t \in Thread |-> "idle"] /\ queue = <<>> /\ isopen = TRUE
      /\ pos = [t \in Mapper |-> 0] /\ counts = [m \in Message |-> 0]
      /\ step = "divide" /\ reducing = "call" /\ destroyed = FALSE
  BY DEF WInit, Init
<1>2. pc[main] = "idle" /\ pc[reducer] = "idle" /\ \A t \in Thread : pc[t] = "idle"
  BY <1>1, Cast
<1>3. Fresh /\ pos \in [Mapper -> Nat]
  BY <1>1, <1>2 DEF Fresh
<1> QED BY <1>1, <1>2, <1>3 DEF Calls, After, SendPCs, ClosePCs

\* A step inside a call keeps everybody where main's step says.
LEMMA CallsThread ==
    ASSUME IInv, IInv', Calls, NEW t \in Thread, ThreadStep(t), UNCHANGED <<files, program>>
    PROVE  Calls'
<1>1. /\ Others(t) /\ (Sends(t) \/ Receives(t) \/ Closes(t)) /\ step # "divide"
      /\ Sends(t) => /\ isopen /\ pc'[t] \in {"idle"} \cup SendPCs
                     /\ t \in Mapper => step = "join_mappers"
                     /\ t \notin Mapper => t = main
      /\ Receives(t) => isopen /\ pc'[t] \in {"idle"} \cup ReceivePCs /\ t = reducer
      /\ Closes(t) => t = main /\ step = "destroy"
  BY OpenSteps
<1>2. UNCHANGED <<part, pos, step, reducing, counts, destroyed>> /\ \A u : Words(u)' = Words(u)
  BY WordsSame DEF program, files
<1>3. \A u \in Thread \ {t} : pc'[u] = pc[u] /\ msg'[u] = msg[u]
  BY <1>1 DEF Others
<1>4. CASE Sends(t) /\ t \in Mapper
  <2>1. /\ step = "join_mappers" /\ isopen' = isopen /\ pc'[t] \in {"idle"} \cup SendPCs
        /\ pc'[main] = pc[main] /\ msg'[main] = msg[main] /\ pc'[reducer] = pc[reducer]
    BY <1>1, <1>3, <1>4, Cast DEF Sends
  <2>2. \A u \in Thread : pc'[u] \in ClosePCs => pc[u] \in ClosePCs
    BY <1>3, <2>1 DEF SendPCs, ClosePCs
  <2>3. step' = step /\ reducing' = reducing /\ pos' = pos /\ destroyed' = destroyed
        /\ part' = part /\ isopen'
    BY <1>1, <1>2, <1>4, <2>1
  <2> QED BY <2>1, <2>2, <2>3 DEF Calls, After
<1>5. CASE Sends(t) /\ t = main
  <2>1. /\ step = "join_reducer" /\ isopen' = isopen /\ pc'[t] \in {"idle"} \cup SendPCs
        /\ msg'[main] = msg[main] /\ pc'[reducer] = pc[reducer]
        /\ \A u \in Mapper : pc'[u] = pc[u]
    BY <1>1, <1>3, <1>5, Cast DEF Sends, Calls
  <2>2. \A u \in Mapper : MapperDone(u)'
    BY <1>2, <2>1 DEF Calls, After, MapperDone
  <2>3. \A u \in Thread : pc'[u] \in ClosePCs => pc[u] \in ClosePCs
    BY <1>3, <1>5, <2>1 DEF SendPCs, ClosePCs
  <2>4. step' = step /\ reducing' = reducing /\ pos' = pos /\ destroyed' = destroyed
        /\ part' = part /\ isopen'
    BY <1>1, <1>2, <1>5, <2>1
  <2>5. (pc[main] \in SendPCs => step = "join_reducer" /\ msg[main] = <<splmsg>>)'
    BY <1>5, <2>1, <2>4 DEF Sends, Calls
  <2> QED BY <2>1, <2>2, <2>3, <2>4, <2>5 DEF Calls
<1>6. CASE Receives(t)
  <2>1. /\ t = reducer /\ isopen' = isopen /\ pc'[t] \in {"idle"} \cup ReceivePCs
        /\ msg'[main] = msg[main] /\ pc'[main] = pc[main] /\ reducing = "wait"
        /\ \A u \in Mapper : pc'[u] = pc[u]
    BY <1>1, <1>3, <1>6, Cast DEF Receives, Calls, ReceivePCs
  <2>2. (\A u \in Mapper : MapperDone(u)) => \A u \in Mapper : MapperDone(u)'
    BY <1>2, <2>1 DEF MapperDone
  <2> QED BY <1>1, <1>2, <1>3, <1>6, <2>1, <2>2 DEF Calls, After, ReceivePCs, ClosePCs
<1>7. CASE Closes(t)
  <2>1. /\ t = main /\ step = "destroy" /\ pc'[reducer] = pc[reducer]
        /\ \A u \in Mapper : pc'[u] = pc[u]
    BY <1>1, <1>3, <1>7, Cast
  <2>2. \A u \in Mapper : MapperDone(u)'
    BY <1>2, <2>1 DEF Calls, After, MapperDone
  <2>3. pc'[main] \in {"c_test", "c_unlock", "idle"}
        /\ (pc'[main] \in {"idle", "c_unlock"} => ~ isopen')
    BY <1>7, <2>1 DEF Closes, Calls
  <2> QED BY <1>1, <1>2, <1>3, <2>1, <2>2, <2>3 DEF Calls, After, SendPCs, ClosePCs
<1> QED BY <1>1, <1>4, <1>5, <1>6, <1>7

\* A step of the program outside of the functions of the buffer, and inside.
LEMMA ProgramSteps ==
    ASSUME [WNext]_allvars
    PROVE  \/ \E t \in Thread : (ThreadStep(t) \/ SpuriousWakeup(t)) /\ UNCHANGED <<files, program>>
           \/ \E t \in Mapper : MapperSend(t)
           \/ ReducerCall \/ ReducerCount \/ ReducerExit
           \/ MainDivide \/ MainCreate \/ MainSend \/ MainClose \/ MainDestroy
           \/ UNCHANGED allvars
BY DEF WNext, Run, Finished

\* What a call does to the other threads.
LEMMA CallMoves ==
    ASSUME IInv
    PROVE  /\ \A t \in Thread : \A m : SendCall(t, m) =>
                /\ Others(t) /\ pc[t] = "idle" /\ pc'[t] = "s_open"
                /\ msg'[t] = m /\ ret'[t] = "none" /\ UNCHANGED <<isopen, queue>>
           /\ \A t \in Thread : ReceiveCall(t) =>
                /\ Others(t) /\ pc[t] = "idle" /\ pc'[t] = "r_open"
                /\ msg'[t] = NoMsg /\ ret'[t] = "none" /\ UNCHANGED <<isopen, queue>>
           /\ \A t \in Thread : CloseCall(t) =>
                /\ Others(t) /\ pc[t] = "idle" /\ pc'[t] = "c_lock"
                /\ msg' = msg /\ UNCHANGED <<isopen, queue>>
<1>1. /\ pc \in [Thread -> PCs] /\ msg \in [Thread -> Message \cup {NoMsg}]
      /\ ret \in [Thread -> Statuses]
  BY DEF IInv, TypeInvariant, PCs, Statuses
<1>2. ASSUME NEW t \in Thread, NEW m, SendCall(t, m)
      PROVE  /\ Others(t) /\ pc[t] = "idle" /\ pc'[t] = "s_open"
             /\ msg'[t] = m /\ ret'[t] = "none" /\ UNCHANGED <<isopen, queue>>
  BY <1>1, <1>2 DEF SendCall, Goto, Status, Others, ring
<1>3. ASSUME NEW t \in Thread, ReceiveCall(t)
      PROVE  /\ Others(t) /\ pc[t] = "idle" /\ pc'[t] = "r_open"
             /\ msg'[t] = NoMsg /\ ret'[t] = "none" /\ UNCHANGED <<isopen, queue>>
  BY <1>1, <1>3 DEF ReceiveCall, Goto, Status, Others, ring
<1>4. ASSUME NEW t \in Thread, CloseCall(t)
      PROVE  /\ Others(t) /\ pc[t] = "idle" /\ pc'[t] = "c_lock"
             /\ msg' = msg /\ UNCHANGED <<isopen, queue>>
  BY <1>1, <1>4 DEF CloseCall, Goto, Status, Others, ring
<1> QED BY <1>2, <1>3, <1>4

\* The program's own steps keep everybody where main's step says.
LEMMA CallsMapper ==
    ASSUME IInv, Calls, NEW t \in Mapper, MapperSend(t)
    PROVE  Calls'
<1>1. /\ step # "divide" /\ pos[t] < Len(Words(t)) /\ t \in Thread /\ pos' = [pos EXCEPT ![t] = @ + 1]
      /\ UNCHANGED <<files, step, reducing, counts, destroyed>>
      /\ SendCall(t, reformat_string(Words(t)[pos[t] + 1]))
  BY Cast DEF MapperSend
<1>2. /\ Others(t) /\ pc[t] = "idle" /\ pc'[t] = "s_open" /\ UNCHANGED <<isopen, queue>>
  BY <1>1, CallMoves
<1>3. step \notin After
  <2>1. pos[t] # Len(Words(t))
    <3>1. pos[t] \in Nat
      BY DEF Calls
    <3> QED BY <1>1, <3>1
  <2> QED BY <2>1 DEF Calls, MapperDone
<1>4. /\ pc'[main] = pc[main] /\ pc'[reducer] = pc[reducer] /\ msg'[main] = msg[main]
      /\ \A u \in Thread : pc'[u] \in ClosePCs => pc[u] \in ClosePCs
  BY <1>2, Cast DEF Others, ClosePCs
<1>5. pos' \in [Mapper -> Nat] /\ part' = part
  BY <1>1 DEF Calls, files
<1>6. step' \notin After /\ step' \notin {"destroy", "end"} /\ step' = step /\ isopen' = isopen
  BY <1>1, <1>2, <1>3 DEF After
<1> QED BY <1>1, <1>4, <1>5, <1>6 DEF Calls

\* The reducer calls buffer_receive, counts what it gets, or exits.
LEMMA CallsReducer ==
    ASSUME IInv, Calls, ReducerCall \/ ReducerCount \/ ReducerExit
    PROVE  Calls'
<1>1. step # "divide"
  <2>1. ReducerCount \/ ReducerExit => reducing = "wait"
    BY DEF ReducerCount, ReducerExit
  <2> QED BY <2>1 DEF ReducerCall, Calls, Fresh
<1>2. UNCHANGED <<files, pos, step, destroyed>> /\ part' = part /\ \A u : Words(u)' = Words(u)
  BY WordsSame DEF ReducerCall, ReducerCount, ReducerExit, files
<1>3. CASE ReducerCall
  <2>1. Others(reducer) /\ pc'[reducer] = "r_open" /\ UNCHANGED <<isopen, queue>>
        /\ reducing = "call" /\ reducing' = "wait"
    BY <1>3, Cast, CallMoves DEF ReducerCall
  <2>2. /\ pc'[main] = pc[main] /\ msg'[main] = msg[main]
        /\ \A u \in Thread : pc'[u] \in ClosePCs => pc[u] \in ClosePCs
        /\ \A u \in Mapper : pc'[u] = pc[u]
    BY <2>1, Cast DEF Others, ClosePCs
  <2>3. \A u \in Mapper : MapperDone(u) => MapperDone(u)'
    BY <1>2, <2>2 DEF MapperDone
  <2>4. step' = step /\ pos' = pos /\ isopen' = isopen /\ destroyed' = destroyed
    BY <1>2, <2>1
  <2> QED BY <1>1, <1>2, <2>1, <2>2, <2>3, <2>4 DEF Calls
<1>4. CASE ReducerCount \/ ReducerExit
  <2>1. /\ pc' = pc /\ msg' = msg /\ isopen' = isopen /\ reducing = "wait" /\ pc[reducer] = "idle"
        /\ reducing' \in {"call", "exit"}
    BY <1>4 DEF ReducerCount, ReducerExit, vars
  <2>2. \A u \in Mapper : MapperDone(u) => MapperDone(u)'
    BY <1>2, <2>1 DEF MapperDone
  <2>3. step' = step /\ pos' = pos /\ destroyed' = destroyed /\ step \notin {"destroy", "end"}
    BY <1>2, <2>1 DEF Calls
  <2> QED BY <1>1, <1>2, <2>1, <2>2, <2>3 DEF Calls
<1> QED BY <1>3, <1>4

\* main takes the next step of custom_eval.
LEMMA CallsMain ==
    ASSUME IInv, Calls, MainDivide \/ MainCreate \/ MainSend \/ MainClose \/ MainDestroy
    PROVE  Calls'
<1>1. CASE MainDivide
  BY <1>1 DEF MainDivide, Calls, Fresh, After, vars, program
<1>2. CASE MainCreate
  <2>1. /\ step = "divide" /\ part = "done" /\ step' = "join_mappers" /\ part' = part
        /\ UNCHANGED <<pc, msg, isopen, pos, reducing, destroyed>>
    BY <1>2 DEF MainCreate, vars, files
  <2>2. Fresh /\ isopen /\ pos \in [Mapper -> Nat] /\ reducing = "call" /\ destroyed = FALSE
    BY <2>1 DEF Calls, Fresh
  <2>3. \A u \in Thread : pc'[u] = "idle"
    BY <2>1, <2>2 DEF Fresh
  <2>4. pc'[main] = "idle" /\ pc'[reducer] = "idle"
    BY <2>3, Cast
  <2> QED BY <2>1, <2>2, <2>3, <2>4 DEF Calls, After, SendPCs, ClosePCs
<1>3. CASE MainSend
  <2>1. /\ step = "join_mappers" /\ step' = "join_reducer" /\ (\A u \in Mapper : MapperDone(u))
        /\ part' = part /\ UNCHANGED <<pos, reducing, destroyed>> /\ \A u : Words(u)' = Words(u)
    BY <1>3, WordsSame DEF MainSend, files
  <2>2. /\ Others(main) /\ pc'[main] = "s_open" /\ msg'[main] = <<splmsg>>
        /\ UNCHANGED <<isopen, queue>>
    BY <1>3, Cast, CallMoves DEF MainSend
  <2>3. /\ pc'[reducer] = pc[reducer] /\ \A u \in Mapper : pc'[u] = pc[u]
        /\ \A u \in Thread : pc'[u] \in ClosePCs => pc[u] \in ClosePCs
    BY <2>2, Cast DEF Others, ClosePCs
  <2>4. \A u \in Mapper : MapperDone(u)'
    BY <2>1, <2>3 DEF MapperDone
  <2>5. part = "done" /\ isopen /\ destroyed = FALSE
        /\ \A u \in Thread : pc[u] \notin ClosePCs
    BY <2>1 DEF Calls
  <2> QED BY <2>1, <2>2, <2>3, <2>4, <2>5 DEF Calls, After, SendPCs, ClosePCs
<1>4. CASE MainClose
  <2>1. /\ step = "join_reducer" /\ step' = "destroy" /\ reducing = "exit"
        /\ part' = part /\ UNCHANGED <<pos, reducing, destroyed>> /\ \A u : Words(u)' = Words(u)
    BY <1>4, WordsSame DEF MainClose, files
  <2>2. Others(main) /\ pc'[main] = "c_lock"
    BY <1>4, Cast, CallMoves DEF MainClose
  <2>3. /\ pc'[reducer] = pc[reducer] /\ (\A u \in Mapper : pc'[u] = pc[u])
        /\ \A u \in Thread : u # main => pc'[u] = pc[u]
    BY <2>2, Cast DEF Others
  <2>4. (\A u \in Mapper : MapperDone(u)')
    BY <2>1, <2>3 DEF MapperDone, Calls, After
  <2>5. part = "done" /\ destroyed = FALSE /\ \A u \in Thread : pc[u] \notin ClosePCs
    BY <2>1 DEF Calls
  <2>6. \A u \in Thread : pc'[u] \in ClosePCs => u = main
    BY <2>3, <2>5
  <2> QED BY <2>1, <2>2, <2>3, <2>4, <2>5, <2>6 DEF Calls, After, SendPCs
<1>5. CASE MainDestroy
  <2>1. /\ step = "destroy" /\ step' = "end" /\ pc[main] = "idle" /\ destroyed' = ~ isopen
        /\ part' = part /\ UNCHANGED <<pc, msg, isopen, pos, reducing>> /\ \A u : Words(u)' = Words(u)
    BY <1>5, WordsSame DEF MainDestroy, files, vars
  <2>2. ~ isopen /\ reducing = "exit" /\ part = "done" /\ pc[reducer] = "idle"
        /\ \A u \in Thread : pc[u] \in ClosePCs => u = main
    BY <2>1 DEF Calls
  <2>3. (\A u \in Mapper : MapperDone(u)')
    BY <2>1 DEF MapperDone, Calls, After
  <2>4. \A u \in Thread : pc'[u] \notin ClosePCs
    BY <2>1, <2>2 DEF ClosePCs
  <2>5. destroyed' = TRUE
    BY <2>1, <2>2
  <2> QED BY <2>1, <2>2, <2>3, <2>4, <2>5 DEF Calls, After, SendPCs
<1> QED BY <1>1, <1>2, <1>3, <1>4, <1>5

-----------------------------------------------------------------------------
(* The program *)

\* Every element of b is one of a.
Has(a, b) == \A k \in 1 .. Len(b) : \E j \in 1 .. Len(a) : a[j] = b[k]

\* A word of a piece is among the words of all of them.
LEMMA JoinedHas ==
    ASSUME NEW S, NEW N \in Nat, NEW f, NEW F, Joined(f, N, F),
           \A n \in 1 .. N : f[n] \in Seq(S),
           NEW n \in 1 .. N
    PROVE  Has(F[N], f[n])
<1> SUFFICES ASSUME NEW k \in 1 .. Len(f[n])
             PROVE  \E j \in 1 .. Len(F[N]) : F[N][j] = f[n][k]
  BY DEF Has
<1> DEFINE At(m) == \E j \in 1 .. Len(F[m]) : F[m][j] = f[n][k]
           P == {m \in Nat : n <= m /\ m <= N => At(m)}
<1>1. 0 \in P
  OBVIOUS
<1>2. ASSUME NEW m \in Nat \ {0}, m - 1 \in P PROVE m \in P
  <2>1. CASE n <= m /\ m <= N
    <3> DEFINE a == F[m - 1]
               b == f[m]
    <3>1. m \in 1 .. N /\ m - 1 \in 0 .. N
      BY <2>1
    <3>2. a \in Seq(S) /\ b \in Seq(S)
      BY <3>1, JoinedType
    <3>3. F[m] = a \o b
      BY <3>1 DEF Joined
    <3> HIDE DEF a, b
    <3>4. /\ Len(a) \in Nat /\ Len(b) \in Nat /\ Len(a \o b) = Len(a) + Len(b)
          /\ \A j \in 1 .. Len(a) + Len(b) :
               (a \o b)[j] = IF j <= Len(a) THEN a[j] ELSE b[j - Len(a)]
      BY <3>2, ConcatProperties, LenProperties
    <3>5. CASE n = m
      <4>1. f[n] = b
        BY <3>5 DEF b
      <4>2. Len(a) + k \in 1 .. Len(a) + Len(b) /\ ~ (Len(a) + k <= Len(a))
            /\ Len(a) + k - Len(a) = k
        BY <3>4, <4>1
      <4>3. (a \o b)[Len(a) + k] = b[k]
        BY <3>4, <4>2
      <4> QED BY <2>1, <3>3, <3>4, <4>1, <4>2, <4>3
    <3>6. CASE n # m
      <4>1. PICK j \in 1 .. Len(a) : a[j] = f[n][k]
        BY <1>2, <2>1, <3>6 DEF a
      <4>2. j \in 1 .. Len(a) + Len(b) /\ (a \o b)[j] = a[j]
        BY <3>4
      <4> QED BY <2>1, <3>3, <3>4, <4>1, <4>2
    <3> QED BY <3>5, <3>6
  <2> QED BY <2>1
<1>3. \A m \in Nat : m \in P
  <2> HIDE DEF P
  <2> QED BY <1>1, <1>2, SetInduction
<1> QED BY <1>3

\* The words of a mapper are words of the input.
LEMMA MapperWords ==
    ASSUME Divided, part = "done", NEW t \in Mapper
    PROVE  /\ Words(t) \in Seq(Seq(Char))
           /\ \A k \in 1 .. Len(Words(t)) : \E j \in 1 .. Len(Divide!Words(text)) :
                Words(t)[k] = Divide!Words(text)[j]
<1>1. Index(t) \in Nat \ {0}
  <2>1. \E n \in DOMAIN pid : pid[n] = t
    BY DEF Mapper, Range
  <2>2. Index(t) \in DOMAIN pid
    BY <2>1 DEF Index
  <2> QED BY <2>2, RoleAssumption, LenProperties
<1>2. CASE Index(t) <= num
  <2> DEFINE f == [k \in 1 .. num |-> Divide!Words(fpa[k])]
             n == Index(t)
  <2>1. num \in Nat /\ fpa \in [1 .. num -> Seq(Char)]
    BY RoleAssumption, LenProperties DEF Divided
  <2>2. PICK F : Joined(f, num, F) /\ F[num] = Divide!Words(text)
    BY DEF Divided, Kept
  <2>3. n \in 1 .. num
    BY <1>1, <1>2, <2>1
  <2>4. Words(t) = f[n]
    BY <1>2, <2>3 DEF Words
  <2>5. \A k \in 1 .. num : f[k] \in Seq(Seq(Char))
    BY <2>1, WordsType
  <2> HIDE DEF f, n
  <2>6. Has(F[num], f[n])
    BY <2>1, <2>2, <2>3, <2>5, JoinedHas
  <2> QED BY <2>2, <2>3, <2>4, <2>5, <2>6 DEF Has
<1>3. CASE ~ (Index(t) <= num)
  <2>1. Words(t) = <<>>
    BY <1>3 DEF Words
  <2> QED BY <2>1
<1> QED BY <1>2, <1>3

\* What is sent of them are messages.
LEMMA MapperMessages ==
    ASSUME Divided, part = "done", NEW t \in Mapper, NEW k \in 1 .. Len(Words(t))
    PROVE  reformat_string(Words(t)[k]) \in Message
<1>1. PICK j \in 1 .. Len(Divide!Words(text)) : Words(t)[k] = Divide!Words(text)[j]
  BY MapperWords
<1>2. text \in Texts /\ text \in Seq(Char)
  BY TextType DEF Divided
<1>3. j \in DOMAIN Divide!Words(text)
  BY <1>2, WordsType, LenProperties
<1> QED BY <1>1, <1>2, <1>3, InputAssumption

\* The program uses the buffer as its threads may.
LEMMA BufferStep == ASSUME Divided, Calls, [WNext]_allvars PROVE [Next]_vars
<1>1. CASE \E t \in Thread : (ThreadStep(t) \/ SpuriousWakeup(t)) /\ UNCHANGED <<files, program>>
  BY <1>1 DEF Next
<1>2. CASE \E t \in Mapper : MapperSend(t)
  <2>1. PICK t \in Mapper : MapperSend(t)
    BY <1>2
  <2>2. step # "divide" /\ pos[t] < Len(Words(t)) /\ pos[t] \in Nat
    BY <2>1 DEF MapperSend, Calls
  <2>3. part = "done"
    BY <2>2 DEF Calls
  <2>4. Len(Words(t)) \in Nat
    BY <2>3, MapperWords, LenProperties
  <2>5. pos[t] + 1 \in 1 .. Len(Words(t))
    BY <2>2, <2>4
  <2>6. reformat_string(Words(t)[pos[t] + 1]) \in Message
    BY <2>3, <2>5, MapperMessages
  <2> QED BY <2>1, <2>6, Cast DEF MapperSend, Next
<1>3. CASE ReducerCall
  BY <1>3, Cast DEF ReducerCall, Next
<1>4. CASE ReducerCount \/ ReducerExit \/ MainDivide \/ MainCreate \/ MainDestroy \/ UNCHANGED allvars
  BY <1>4 DEF ReducerCount, ReducerExit, MainDivide, MainCreate, MainDestroy, allvars
<1>5. CASE MainSend
  BY <1>5, Cast, InputAssumption DEF MainSend, Next
<1>6. CASE MainClose
  BY <1>6, Cast DEF MainClose, Next
<1> QED BY <1>1, <1>2, <1>3, <1>4, <1>5, <1>6, ProgramSteps

\* All that the properties below rest on.
Running == IInv /\ Divided /\ Calls

\* The channel, dividefile and the calls go on together.
LEMMA RunningStep == Running /\ [WNext]_allvars => Running'
<1> SUFFICES ASSUME Running, [WNext]_allvars PROVE Running'
  OBVIOUS
<1> USE DEF Running
<1>1. IInv'
  BY BufferStep, InvStep
<1>2. Divided'
  BY DividedNext
<1>3. ASSUME UNCHANGED <<pc, msg, isopen, queue>>, UNCHANGED <<files, program>> PROVE Calls'
  <2>1. \A u \in Mapper : MapperDone(u) => MapperDone(u)'
    BY <1>3, WordsSame DEF MapperDone, program
  <2>2. part' = part /\ UNCHANGED program
    BY <1>3 DEF files
  <2> QED BY <1>3, <2>1, <2>2 DEF Calls, Fresh, program
<1>4. ASSUME NEW t \in Thread, SpuriousWakeup(t), UNCHANGED <<files, program>> PROVE Calls'
  BY <1>3, <1>4 DEF SpuriousWakeup, ring
<1>5. UNCHANGED allvars => Calls'
  BY <1>3 DEF allvars, vars
<1>6. Calls'
  BY <1>1, <1>4, <1>5, ProgramSteps, CallsThread, CallsMapper, CallsReducer, CallsMain
<1> QED BY <1>1, <1>2, <1>6

\* Running is an invariant of the program.
LEMMA RunningAlways == WSpec => []Running
<1>1. WInit => Running
  BY InvInit, DividedInit, CallsInit DEF WInit, Running
<1> QED BY <1>1, RunningStep, PTL DEF WSpec

\* The buffer is freed only when every thread has left its functions, and when the
\* program ends it is freed: buffer_destroy never finds it open.
THEOREM DestroyedWhenUnused == WSpec => []DestroyedUnused
<1>1. ASSUME Running PROVE DestroyedUnused
  <2>1. CASE step = "end"
    <3>1. pc[main] = "idle" /\ destroyed /\ pc[reducer] = "idle" /\ \A t \in Mapper : pc[t] = "idle"
      BY <1>1, <2>1 DEF Running, Calls, After, MapperDone
    <3> QED BY <3>1, Cast DEF DestroyedUnused
  <2>2. CASE step # "end"
    BY <1>1, <2>2 DEF Running, Calls, DestroyedUnused
  <2> QED BY <2>1, <2>2
<1>2. Running => DestroyedUnused
  BY <1>1
<1> QED BY <1>2, RunningAlways, PTL

-----------------------------------------------------------------------------
(* Counting *)

\* Sequences have finitely many places.
LEMMA CountType ==
    ASSUME NEW S, NEW a \in Seq(S), NEW m
    PROVE  Count(m, a) \in Nat /\ IsFiniteSet({k \in DOMAIN a : a[k] = m})
<1>1. Len(a) \in Nat /\ DOMAIN a = 1 .. Len(a)
  BY LenProperties
<1>2. IsFiniteSet(DOMAIN a)
  BY <1>1, FS_Interval
<1>3. {k \in DOMAIN a : a[k] = m} \in SUBSET DOMAIN a
  OBVIOUS
<1>4. IsFiniteSet({k \in DOMAIN a : a[k] = m})
  BY <1>2, <1>3, FS_Subset
<1> QED BY <1>4, FS_CardinalityType DEF Count

\* One after the other, sequences have the elements of both.
LEMMA CountConcat ==
    ASSUME NEW S, NEW a \in Seq(S), NEW b \in Seq(S), NEW m
    PROVE  Count(m, a \o b) = Count(m, a) + Count(m, b)
<1> DEFINE n == Len(a)
           A == {k \in DOMAIN a : a[k] = m}
           B == {k \in DOMAIN b : b[k] = m}
           C == {k \in DOMAIN (a \o b) : (a \o b)[k] = m}
           D == C \ A
<1>1. /\ n \in Nat /\ Len(b) \in Nat /\ DOMAIN a = 1 .. n /\ DOMAIN b = 1 .. Len(b)
      /\ DOMAIN (a \o b) = 1 .. n + Len(b)
      /\ \A k \in 1 .. n + Len(b) : (a \o b)[k] = IF k <= n THEN a[k] ELSE b[k - n]
  BY ConcatProperties, LenProperties
<1>2. IsFiniteSet(A) /\ IsFiniteSet(B) /\ a \o b \in Seq(S)
  BY CountType, ConcatProperties
<1>3. IsFiniteSet(C)
  BY ZenonT(60), <1>2, CountType
<1>4. A \subseteq C
  BY <1>1
<1>5. D \in SUBSET C
  OBVIOUS
<1>6. \A k \in D : k \in Nat /\ k - n \in B /\ k > n
  BY <1>1
<1>7. \A k \in B : k + n \in D /\ k \in Nat
  BY <1>1
<1> HIDE DEF A, B, C
<1>8. IsFiniteSet(D)
  BY <1>3, <1>5, FS_Subset
<1>9. Cardinality(C) = Cardinality(A) + Cardinality(D)
  <2>1. A \cup D = C /\ A \cap D = {}
    BY <1>4
  <2>2. Cardinality(A \cup D) = Cardinality(A) + Cardinality(D) - Cardinality(A \cap D)
    BY <1>2, <1>8, FS_Union
  <2>3. Cardinality({}) = 0 /\ Cardinality(A) \in Nat /\ Cardinality(D) \in Nat
    BY <1>2, <1>8, FS_EmptySet, FS_CardinalityType
  <2>4. Cardinality(A \cup D) = Cardinality(C) /\ Cardinality(A \cap D) = 0
    BY <2>1, <2>3
  <2> QED BY <2>2, <2>3, <2>4
<1> HIDE DEF D
<1>10. Cardinality(B) = Cardinality(D)
  <2> DEFINE g == [k \in D |-> k - n]
  <2>1. g \in [D -> B]
    BY <1>6
  <2>2. \A j, k \in D : g[j] = g[k] => j = k
    BY <1>1, <1>6
  <2>3. ASSUME NEW k \in B PROVE \E j \in D : g[j] = k
    <3> DEFINE j == k + n
    <3>1. j \in D
      BY <1>7
    <3>2. j - n = k
      BY <1>1, <1>7
    <3> HIDE DEF j
    <3>3. g[j] = k
      BY <3>1, <3>2
    <3> QED BY <3>1, <3>3
  <2> HIDE DEF g
  <2>4. g \in Bijection(D, B)
    BY <2>1, <2>2, <2>3 DEF Bijection, Injection, Surjection, IsInjective
  <2> QED BY <1>8, <2>4, FS_Bijection DEF ExistsBijection
<1> QED BY <1>9, <1>10 DEF Count, A, B, C

\* An element alone.
LEMMA CountOne == \A m, x : Count(m, <<x>>) = IF x = m THEN 1 ELSE 0
<1> TAKE m, x
<1> DEFINE A == {k \in DOMAIN <<x>> : <<x>>[k] = m}
<1>1. DOMAIN <<x>> = {1} /\ <<x>>[1] = x
  OBVIOUS
<1>2. A = IF x = m THEN {1} ELSE {}
  BY <1>1
<1> HIDE DEF A
<1>3. Cardinality(A) = IF x = m THEN 1 ELSE 0
  BY <1>2, FS_EmptySet, FS_Singleton
<1> QED BY <1>3 DEF Count, A

\* A message comes into the queue.
LEMMA CountAppend ==
    ASSUME NEW S, NEW q \in Seq(S), NEW x \in S, NEW m
    PROVE  Count(m, Append(q, x)) = Count(m, q) + IF x = m THEN 1 ELSE 0
<1>1. <<x>> \in Seq(S) /\ Append(q, x) = q \o <<x>>
  BY AppendIsConcat
<1>2. Count(m, q \o <<x>>) = Count(m, q) + Count(m, <<x>>)
  BY <1>1, CountConcat
<1> QED BY <1>1, <1>2, CountOne

\* A message leaves it.
LEMMA CountTail ==
    ASSUME NEW S, NEW q \in Seq(S), q # <<>>, NEW m
    PROVE  Count(m, q) = Count(m, Tail(q)) + IF Head(q) = m THEN 1 ELSE 0
<1> DEFINE h == <<Head(q)>>
<1>1. Head(q) \in S /\ Tail(q) \in Seq(S) /\ q = h \o Tail(q)
  BY HeadTailProperties
<1>2. h \in Seq(S)
  BY <1>1
<1>3. Count(m, h) = IF Head(q) = m THEN 1 ELSE 0
  BY CountOne
<1> HIDE DEF h
<1>4. Count(m, h \o Tail(q)) = Count(m, h) + Count(m, Tail(q))
  BY <1>1, <1>2, CountConcat
<1>5. Count(m, q) = Count(m, h \o Tail(q))
  BY <1>1
<1> DEFINE a == Count(m, q)
           b == Count(m, Tail(q))
<1>6. a = Count(m, h) + b /\ b \in Nat
  BY <1>1, <1>4, <1>5, CountType
<1> HIDE DEF a, b
<1>7. a = b + IF Head(q) = m THEN 1 ELSE 0
  BY <1>3, <1>6
<1> QED BY <1>7 DEF a, b

-----------------------------------------------------------------------------
(* Where the words are *)

\* What the reducer has received.
Hands ==
    /\ reducing = "wait" =>
         IF ret[reducer] = "BUFFER_SUCCESS" THEN msg[reducer] \in Message \ Special
         ELSE msg[reducer] \in Special \cup {NoMsg}
    /\ pc[reducer] \in Early => ret[reducer] = "none" /\ msg[reducer] = NoMsg

\* A step inside a function of the buffer leaves the reducer with a message or none.
LEMMA HandsThread ==
    ASSUME Running, Hands, NEW t \in Thread, ThreadStep(t), UNCHANGED <<files, program>>
    PROVE  Hands'
<1>1. /\ Others(t) /\ (Sends(t) \/ Receives(t) \/ Closes(t)) /\ reducing' = reducing
      /\ Sends(t) => isopen /\ (t \notin Mapper => t = main)
      /\ Receives(t) => isopen /\ t = reducer
      /\ Closes(t) => t = main
  BY OpenSteps DEF Running, program
<1>2. CASE t # reducer
  <2>1. pc'[reducer] = pc[reducer] /\ msg'[reducer] = msg[reducer] /\ ret'[reducer] = ret[reducer]
    BY <1>1, <1>2, Cast DEF Others
  <2> QED BY <1>1, <2>1 DEF Hands
<1>3. CASE t = reducer
  <2>1. Receives(t)
    BY <1>1, <1>3, Cast
  <2>2. CASE Takes(t)
    <3>1. Head(queue) \in Message
      <4>1. queue \in Seq(Message) /\ queue # <<>>
        BY <2>2 DEF Running, IInv, TypeInvariant, Takes
      <4> QED BY <4>1, HeadTailProperties
    <3> QED BY <1>3, <2>2, <3>1 DEF Takes, Hands, Early, Late
  <2>3. CASE ~ Takes(t)
    BY <1>1, <1>3, <2>1, <2>3 DEF Receives, Hands, Early, Late
  <2> QED BY <2>2, <2>3
<1> QED BY <1>2, <1>3

\* So does each step of the program.
LEMMA HandsStep == ASSUME Running, Hands, [WNext]_allvars PROVE Hands'
<1>1. ASSUME UNCHANGED <<pc, msg, ret, reducing>> PROVE Hands'
  BY <1>1 DEF Hands
<1>2. ASSUME NEW t \in Thread, t # reducer, Others(t), reducing' = reducing PROVE Hands'
  <2>1. pc'[reducer] = pc[reducer] /\ msg'[reducer] = msg[reducer] /\ ret'[reducer] = ret[reducer]
    BY <1>2, Cast DEF Others
  <2> QED BY <1>2, <2>1 DEF Hands
<1>3. CASE \E t \in Thread : (ThreadStep(t) \/ SpuriousWakeup(t)) /\ UNCHANGED <<files, program>>
  BY <1>1, <1>3, HandsThread DEF SpuriousWakeup, program
<1>4. CASE \E t \in Mapper : MapperSend(t)
  <2>1. PICK t \in Mapper : MapperSend(t)
    BY <1>4
  <2>2. t \in Thread /\ t # reducer /\ reducing' = reducing
        /\ SendCall(t, reformat_string(Words(t)[pos[t] + 1]))
    BY <2>1, Cast DEF MapperSend
  <2>3. Others(t)
    BY <2>2, CallMoves DEF Running
  <2> QED BY <1>2, <2>2, <2>3
<1>5. CASE ReducerCall
  <2>1. msg'[reducer] = NoMsg /\ ret'[reducer] = "none"
    BY <1>5, CallMoves, Cast DEF ReducerCall, Running
  <2> QED BY <2>1 DEF Hands
<1>6. CASE ReducerCount \/ ReducerExit
  BY <1>6 DEF ReducerCount, ReducerExit, Hands, vars
<1>7. CASE MainDivide \/ MainCreate \/ MainDestroy \/ UNCHANGED allvars
  BY <1>1, <1>7 DEF MainDivide, MainCreate, MainDestroy, allvars, vars, program
<1>8. CASE MainSend \/ MainClose
  <2>1. Others(main) /\ reducing' = reducing
    BY <1>8, CallMoves, Cast DEF MainSend, MainClose, Running
  <2> QED BY <1>2, <2>1, Cast
<1> QED BY <1>3, <1>4, <1>5, <1>6, <1>7, <1>8, ProgramSteps

\* A word that has been read is at a place of a mapper's piece.
LEMMA ReadAsIs ==
    ASSUME NEW m
    PROVE  /\ \A p : p \in ReadAs(m) <=>
                \E t \in Mapper : \E k \in 1 .. pos[t] :
                    p = <<t, k>> /\ reformat_string(Words(t)[k]) = m
           /\ \A p : p \in ReadAs(m)' <=>
                \E t \in Mapper : \E k \in 1 .. pos'[t] :
                    p = <<t, k>> /\ reformat_string(Words(t)'[k]) = m
BY DEF ReadAs

\* Sets of mappers are finite.
LEMMA SendingFinite ==
    ASSUME NEW m
    PROVE  IsFiniteSet(Sending(m)) /\ Cardinality(Sending(m)) \in Nat
<1>1. Sending(m) \in SUBSET Sender
  BY Cast DEF Sending
<1>2. IsFiniteSet(Sending(m))
  BY <1>1, ThreadAssumption, FS_Subset
<1> QED BY <1>2, FS_CardinalityType

ReadFinite == \A m \in Message : IsFiniteSet(ReadAs(m))

\* What has been read depends on the pieces and the mappers' positions only.
LEMMA ReadSame ==
    ASSUME NEW m, UNCHANGED pos, \A t : Words(t)' = Words(t)
    PROVE  ReadAs(m)' = ReadAs(m)
BY ReadAsIs

\* The numbers are numbers.
LEMMA HandledType ==
    ASSUME ReadFinite, NEW m \in Message
    PROVE  Cardinality(ReadAs(m)) \in Nat /\ Cardinality(Sending(m)) \in Nat /\ Received(m) \in Nat
BY SendingFinite, FS_CardinalityType DEF ReadFinite, Received

\* Nothing changes for a message m that is where it was.
LEMMA HandledSame ==
    ASSUME NEW m, UNCHANGED pos, \A t : Words(t)' = Words(t),
           \A t \in Mapper : (msg[t] = m /\ pc[t] \in Waiting) <=> (msg[t] = m /\ pc[t] \in Waiting)',
           Count(m, queue') = Count(m, queue),
           Received(m)' = Received(m)
    PROVE  ReadAs(m)' = ReadAs(m) /\ Handled(m)' = Handled(m)
<1>1. ReadAs(m)' = ReadAs(m)
  BY ReadSame
<1>2. Sending(m)' = Sending(m)
  BY DEF Sending, Waiting
<1> QED BY <1>1, <1>2 DEF Handled

\* A word that is read is about to be sent.
LEMMA HandledReads ==
    ASSUME Running, ReadFinite, NEW m \in Message, NEW t \in Mapper, MapperSend(t)
    PROVE  IsFiniteSet(ReadAs(m)') /\ Handled(m)' = Handled(m)
<1> DEFINE n == pos[t] + 1
           w == reformat_string(Words(t)[n])
           p == <<t, n>>
<1>1. /\ SendCall(t, w) /\ pos' = [pos EXCEPT ![t] = n] /\ pos \in [Mapper -> Nat]
      /\ UNCHANGED <<files, step, reducing>> /\ t \in Thread /\ t # reducer
      /\ \A u : Words(u)' = Words(u)
  BY Cast, WordsSame DEF MapperSend, Running, Calls
<1>2. Others(t) /\ pc[t] = "idle" /\ pc'[t] = "s_open" /\ msg'[t] = w /\ UNCHANGED queue
  BY <1>1, CallMoves DEF Running
<1> HIDE DEF w
<1>3. ReadAs(m)' = ReadAs(m) \cup (IF w = m THEN {p} ELSE {})
  <2>1. ASSUME NEW x \in ReadAs(m)' PROVE x \in ReadAs(m) \cup (IF w = m THEN {p} ELSE {})
    <3>0. PICK u \in Mapper : \E k \in 1 .. pos'[u] :
                 x = <<u, k>> /\ reformat_string(Words(u)[k]) = m
      BY <1>1, <2>1, ReadAsIs
    <3>1. PICK k \in 1 .. pos'[u] : x = <<u, k>> /\ reformat_string(Words(u)[k]) = m
      BY <3>0
    <3>2. CASE k \in 1 .. pos[u]
      BY <3>1, <3>2, ReadAsIs
    <3>3. CASE k \notin 1 .. pos[u]
      <4>1. u = t /\ k = n
        BY <1>1, <3>1, <3>3
      <4> QED BY <3>1, <4>1 DEF w
    <3> QED BY <3>2, <3>3
  <2>2. ASSUME NEW x \in ReadAs(m) PROVE x \in ReadAs(m)'
    <3>0. PICK u \in Mapper : \E k \in 1 .. pos[u] :
                 x = <<u, k>> /\ reformat_string(Words(u)[k]) = m
      BY <2>2, ReadAsIs
    <3>1. PICK k \in 1 .. pos[u] : x = <<u, k>> /\ reformat_string(Words(u)[k]) = m
      BY <3>0
    <3>2. k \in 1 .. pos'[u]
      BY <1>1, <3>1
    <3> QED BY <1>1, <3>1, <3>2, ReadAsIs
  <2>3. w = m => p \in ReadAs(m)'
    <3>1. n \in 1 .. pos'[t] /\ reformat_string(Words(t)[n]) = w
      BY <1>1 DEF w
    <3> QED BY <1>1, <3>1, ReadAsIs
  <2> QED BY <2>1, <2>2, <2>3
<1>4. p \notin ReadAs(m)
  <2>1. n \notin 1 .. pos[t]
    BY <1>1
  <2> QED BY <2>1, ReadAsIs
<1>5. Sending(m)' = Sending(m) \cup (IF w = m THEN {t} ELSE {}) /\ t \notin Sending(m)
  <2>1. \A u \in Mapper \ {t} : pc'[u] = pc[u] /\ msg'[u] = msg[u]
    BY <1>2, Cast DEF Others
  <2> QED BY <1>2, <2>1 DEF Sending
<1>6. Received(m)' = Received(m)
  <2>1. msg'[reducer] = msg[reducer]
    BY <1>1, <1>2, Cast DEF Others
  <2> QED BY <1>1, <2>1 DEF Received
<1>7. IsFiniteSet(ReadAs(m)) /\ Cardinality(ReadAs(m)) \in Nat
  BY FS_CardinalityType DEF ReadFinite
<1>8. IsFiniteSet(Sending(m)) /\ Cardinality(Sending(m)) \in Nat
  BY SendingFinite
<1> HIDE DEF p
<1>9. CASE w = m
  <2>1. ReadAs(m)' = ReadAs(m) \cup {p} /\ Sending(m)' = Sending(m) \cup {t}
    BY <1>3, <1>5, <1>9
  <2>2. IsFiniteSet(ReadAs(m) \cup {p}) /\ Cardinality(ReadAs(m) \cup {p}) = Cardinality(ReadAs(m)) + 1
    BY <1>4, <1>7, FS_AddElement
  <2>3. Cardinality(Sending(m) \cup {t}) = Cardinality(Sending(m)) + 1
    BY <1>5, <1>8, FS_AddElement
  <2>4. /\ IsFiniteSet(ReadAs(m)') /\ Cardinality(ReadAs(m)') = Cardinality(ReadAs(m)) + 1
        /\ Cardinality(Sending(m)') = Cardinality(Sending(m)) + 1
    BY <2>1, <2>2, <2>3
  <2>5. Count(m, queue)' = Count(m, queue)
    BY <1>2
  <2> QED BY <1>6, <1>7, <1>8, <2>4, <2>5 DEF Handled
<1>10. CASE w # m
  <2>1. ReadAs(m)' = ReadAs(m) /\ Sending(m)' = Sending(m) /\ Count(m, queue)' = Count(m, queue)
    BY <1>2, <1>3, <1>5, <1>10
  <2> QED BY <1>6, <1>7, <2>1 DEF Handled
<1> QED BY <1>9, <1>10

\* A word that is sent comes into the buffer, and then into the reducer's hands.
LEMMA HandledThread ==
    ASSUME Running, Hands, ReadFinite, NEW m \in Message \ Special, NEW t \in Thread, ThreadStep(t),
           UNCHANGED <<files, program>>
    PROVE  ReadAs(m)' = ReadAs(m) /\ Handled(m)' = Handled(m)
<1>1. /\ Others(t) /\ (Sends(t) \/ Receives(t) \/ Closes(t))
      /\ Sends(t) => isopen /\ (t \notin Mapper => t = main)
      /\ Receives(t) => isopen /\ t = reducer
      /\ Closes(t) => t = main
  BY OpenSteps DEF Running
<1>2. UNCHANGED <<pos, reducing>> /\ \A u : Words(u)' = Words(u)
  BY WordsSame DEF program
<1>3. queue \in Seq(Message) /\ Count(m, queue) \in Nat /\ ReadAs(m)' = ReadAs(m)
  <2>1. UNCHANGED pos
    BY <1>2
  <2> QED BY <1>2, <2>1, CountType, ReadSame DEF Running, IInv, TypeInvariant
<1>33. Cardinality(ReadAs(m)) \in Nat /\ Cardinality(Sending(m)) \in Nat /\ Received(m) \in Nat
  BY HandledType
<1>4. \A u \in Mapper \ {t} :
         (msg[u] = m /\ pc[u] \in Waiting) <=> (msg[u] = m /\ pc[u] \in Waiting)'
  BY <1>1, Cast DEF Others
<1>5. CASE Sends(t)
  <2>1. t # reducer /\ msg' = msg /\ msg[t] \in Message
    BY <1>1, <1>5, Cast DEF Sends, Running, IInv, Roles
  <2>2. Received(m)' = Received(m)
    BY <1>2, <2>1 DEF Received
  <2>3. CASE pc[t] = "s_test" /\ pc'[t] = "s_unlock" /\ queue' = Append(queue, msg[t])
    <3>1. Count(m, queue)' = Count(m, queue) + IF msg[t] = m THEN 1 ELSE 0
      BY <1>3, <2>1, <2>3, CountAppend
    <3>2. CASE t \in Mapper /\ msg[t] = m
      <4>1. Sending(m)' = Sending(m) \ {t} /\ t \in Sending(m)
        BY <1>4, <2>1, <2>3, <3>2 DEF Sending, Waiting
      <4>2. Cardinality(Sending(m) \ {t}) = Cardinality(Sending(m)) - 1
            /\ Cardinality(Sending(m)) \in Nat
        BY <4>1, SendingFinite, FS_RemoveElement
      <4>3. Cardinality(Sending(m)') = Cardinality(Sending(m)) - 1
        BY <4>1, <4>2
      <4>5. Count(m, queue)' = Count(m, queue) + 1
        BY <3>1, <3>2
      <4> DEFINE a == Cardinality(ReadAs(m))
                 b == Cardinality(Sending(m))
                 c == Count(m, queue)
                 d == Received(m)
      <4>6. Handled(m) = a - b - c - d /\ Handled(m)' = a - (b - 1) - (c + 1) - d
        BY <1>3, <2>2, <4>3, <4>5 DEF Handled
      <4>7. a \in Nat /\ b \in Nat /\ c \in Nat /\ d \in Nat
        BY <1>3, <1>33
      <4> HIDE DEF a, b, c, d
      <4>8. Handled(m)' = Handled(m)
        BY <4>6, <4>7
      <4> QED BY <1>3, <4>8
    <3>3. CASE ~ (t \in Mapper /\ msg[t] = m)
      <4>1. msg[t] # m
        <5>1. t = main => msg[t] \in Special
          BY <1>5, InputAssumption DEF Sends, Running, Calls
        <5> QED BY <1>1, <1>5, <3>3, <5>1
      <4>2. Count(m, queue') = Count(m, queue)
        BY <1>3, <3>1, <4>1
      <4>3. (msg[t] = m /\ pc[t] \in Waiting) <=> (msg[t] = m /\ pc[t] \in Waiting)'
        BY <2>1, <4>1
      <4> QED BY <1>2, <1>4, <2>2, <4>2, <4>3, HandledSame
    <3> QED BY <3>2, <3>3
  <2>4. CASE ~ (pc[t] = "s_test" /\ pc'[t] = "s_unlock" /\ queue' = Append(queue, msg[t]))
    <3>1. queue' = queue /\ (pc[t] \in Waiting <=> pc'[t] \in Waiting)
      BY <1>1, <1>5, <2>4 DEF Sends, Waiting
    <3>2. (msg[t] = m /\ pc[t] \in Waiting) <=> (msg[t] = m /\ pc[t] \in Waiting)'
      BY <2>1, <3>1
    <3> QED BY <1>2, <1>4, <2>2, <3>1, <3>2, HandledSame
  <2> QED BY <2>3, <2>4
<1>6. CASE Receives(t)
  <2>1. t = reducer /\ t \notin Mapper /\ isopen
        /\ \A u \in Mapper : (msg[u] = m /\ pc[u] \in Waiting) <=> (msg[u] = m /\ pc[u] \in Waiting)'
    BY <1>1, <1>4, <1>6, Cast
  <2>2. CASE Takes(t)
    <3>1. Count(m, queue) = Count(m, queue)' + IF Head(queue) = m THEN 1 ELSE 0
      BY <1>3, <2>2, CountTail DEF Takes
    <3>2. msg[reducer] = NoMsg /\ msg'[reducer] = Head(queue) /\ reducing = "wait"
      BY <2>1, <2>2 DEF Takes, Hands, Early, Running, Calls
    <3>3. Received(m) = 0 /\ Received(m)' = IF Head(queue) = m THEN 1 ELSE 0
      BY <1>2, <3>2, MessageAssumption DEF Received
    <3>4. Sending(m)' = Sending(m)
      BY <2>1 DEF Sending, Waiting
    <3>5. Count(m, queue)' \in Nat
      <4>1. queue' \in Seq(Message)
        BY <1>3, <2>2, HeadTailProperties DEF Takes
      <4> QED BY <4>1, CountType
    <3> DEFINE a == Cardinality(ReadAs(m))
               b == Cardinality(Sending(m))
               c == Count(m, queue)
               e == Count(m, queue)'
               d == Received(m)'
    <3>6. Handled(m) = a - b - c - 0 /\ Handled(m)' = a - b - e - d
      BY <1>3, <3>3, <3>4 DEF Handled
    <3>7. a \in Nat /\ b \in Nat /\ c \in Nat /\ e \in Nat /\ c = e + d /\ d \in Nat
      BY <1>3, <1>33, <3>1, <3>3, <3>5
    <3> HIDE DEF a, b, c, d, e
    <3>8. Handled(m)' = Handled(m)
      BY <3>6, <3>7
    <3> QED BY <1>3, <3>8
  <2>3. CASE ~ Takes(t)
    <3>1. queue' = queue /\ msg' = msg
      BY <1>6, <2>1, <2>3 DEF Receives
    <3>2. Received(m)' = Received(m)
      BY <1>2, <3>1 DEF Received
    <3> QED BY <1>2, <2>1, <3>1, <3>2, HandledSame
  <2> QED BY <2>2, <2>3
<1>7. CASE Closes(t)
  <2>1. t = main /\ queue' = queue /\ msg' = msg
    BY <1>1, <1>7 DEF Closes
  <2>2. Received(m)' = Received(m)
    BY <1>2, <2>1 DEF Received
  <2>3. \A u \in Mapper : (msg[u] = m /\ pc[u] \in Waiting) <=> (msg[u] = m /\ pc[u] \in Waiting)'
    BY <1>4, <2>1, Cast
  <2> QED BY <1>2, <2>1, <2>2, <2>3, HandledSame
<1> QED BY <1>1, <1>5, <1>6, <1>7

\* Before the first word is read none has been.
LEMMA NoneRead ==
    ASSUME NEW m
    PROVE  /\ (\A t \in Mapper : pos[t] = 0) => ReadAs(m) = {}
           /\ (\A t \in Mapper : pos'[t] = 0) => ReadAs(m)' = {}
<1>1. ASSUME \A t \in Mapper : pos[t] = 0 PROVE ReadAs(m) = {}
  <2>1. \A t \in Mapper : 1 .. pos[t] = {}
    BY <1>1
  <2> QED BY <2>1, ReadAsIs
<1>2. ASSUME \A t \in Mapper : pos'[t] = 0 PROVE ReadAs(m)' = {}
  <2>1. \A t \in Mapper : 1 .. pos'[t] = {}
    BY <1>2
  <2> QED BY <2>1, ReadAsIs
<1> QED BY <1>1, <1>2

\* dividefile runs before a word is read.
LEMMA DivideReads == ASSUME Running, MainDivide, NEW m PROVE ReadAs(m)' = ReadAs(m)
<1>1. pos = [t \in Mapper |-> 0] /\ pos' = pos
  BY DEF Running, Calls, Fresh, MainDivide, program
<1>2. \A t \in Mapper : pos[t] = 0 /\ pos'[t] = 0
  BY <1>1
<1> QED BY <1>2, NoneRead

\* Each step reads at most one word.
LEMMA ReadFiniteStep == ASSUME Running, ReadFinite, [WNext]_allvars PROVE ReadFinite'
<1> SUFFICES ASSUME NEW m \in Message PROVE IsFiniteSet(ReadAs(m)')
  BY DEF ReadFinite
<1>1. CASE \E t \in Mapper : MapperSend(t)
  BY <1>1, HandledReads
<1>2. CASE MainDivide
  BY <1>2, DivideReads DEF ReadFinite
<1>3. ASSUME UNCHANGED <<files, pos>> PROVE IsFiniteSet(ReadAs(m)')
  <2>1. ReadAs(m)' = ReadAs(m)
    <3>1. UNCHANGED pos /\ \A t : Words(t)' = Words(t)
      BY <1>3, WordsSame
    <3> QED BY <3>1, ReadSame
  <2> QED BY <2>1 DEF ReadFinite
<1>4. UNCHANGED <<files, pos>> \/ MainDivide \/ \E t \in Mapper : MapperSend(t)
  BY ProgramSteps DEF ReducerCall, ReducerCount, ReducerExit, MainCreate, MainSend,
     MainClose, MainDestroy, program, allvars
<1> QED BY <1>1, <1>2, <1>3, <1>4

\* The reducer counts one message, and no other step changes how many are handled.
LEMMA HandledStep ==
    ASSUME Running, Hands, ReadFinite, [WNext]_allvars, NEW m \in Message \ Special
    PROVE  Handled(m)' = Handled(m) + IF ReducerCount /\ msg[reducer] = m THEN 1 ELSE 0
<1>0. /\ Cardinality(ReadAs(m)) \in Nat /\ Cardinality(Sending(m)) \in Nat
      /\ Count(m, queue) \in Nat /\ Received(m) \in Nat /\ Handled(m) \in Int
  <2>1. /\ Cardinality(ReadAs(m)) \in Nat /\ Cardinality(Sending(m)) \in Nat
        /\ Count(m, queue) \in Nat /\ Received(m) \in Nat
    BY HandledType, CountType DEF Running, IInv, TypeInvariant
  <2> QED BY <2>1 DEF Handled
<1>1. CASE ReducerCount
  <2>1. /\ UNCHANGED <<vars, files, pos>> /\ reducing = "wait" /\ reducing' = "call"
    BY <1>1 DEF ReducerCount
  <2>2. ReadAs(m)' = ReadAs(m)
    <3>1. UNCHANGED pos /\ \A t : Words(t)' = Words(t)
      BY <2>1, WordsSame
    <3> QED BY <3>1, ReadSame
  <2>3. Sending(m)' = Sending(m) /\ Count(m, queue)' = Count(m, queue)
    BY <2>1 DEF Sending, vars
  <2>4. Received(m) = (IF msg[reducer] = m THEN 1 ELSE 0) /\ Received(m)' = 0
    BY <2>1 DEF Received
  <2> DEFINE a == Cardinality(ReadAs(m))
             b == Cardinality(Sending(m))
             c == Count(m, queue)
             d == Received(m)
  <2>5. Handled(m) = a - b - c - d /\ Handled(m)' = a - b - c - 0
    BY <2>2, <2>3, <2>4 DEF Handled
  <2>6. a \in Nat /\ b \in Nat /\ c \in Nat /\ d \in Nat
    BY <1>0
  <2>7. d = IF msg[reducer] = m THEN 1 ELSE 0
    BY <2>4
  <2> HIDE DEF a, b, c, d
  <2>8. Handled(m)' = Handled(m) + d
    BY <2>5, <2>6
  <2> QED BY <1>1, <2>7, <2>8
<1>2. ASSUME Handled(m)' = Handled(m), ~ ReducerCount
      PROVE  Handled(m)' = Handled(m) + IF ReducerCount /\ msg[reducer] = m THEN 1 ELSE 0
  BY <1>0, <1>2
<1>3. ASSUME UNCHANGED <<queue, files, pos>>, Received(m)' = Received(m),
             \A t \in Mapper : pc'[t] = pc[t] /\ msg'[t] = msg[t]
      PROVE  Handled(m)' = Handled(m)
  <2>1. UNCHANGED pos /\ \A t : Words(t)' = Words(t)
    BY <1>3, WordsSame
  <2>2. \A t \in Mapper : (msg[t] = m /\ pc[t] \in Waiting) <=> (msg[t] = m /\ pc[t] \in Waiting)'
    BY <1>3
  <2>3. Count(m, queue') = Count(m, queue)
    BY <1>3
  <2> QED BY <1>3, <2>1, <2>2, <2>3, HandledSame
<1>4. ASSUME UNCHANGED <<pc, msg, queue, files, pos, reducing>> PROVE Handled(m)' = Handled(m)
  <2>1. Received(m)' = Received(m)
    BY <1>4 DEF Received
  <2> QED BY <1>3, <1>4, <2>1
<1>5. CASE \E t \in Thread : (ThreadStep(t) \/ SpuriousWakeup(t)) /\ UNCHANGED <<files, program>>
  <2>1. ASSUME NEW t \in Thread, ThreadStep(t), UNCHANGED <<files, program>>
        PROVE  Handled(m)' = Handled(m)
    BY <2>1, HandledThread
  <2>2. ASSUME NEW t \in Thread, SpuriousWakeup(t), UNCHANGED <<files, program>>
        PROVE  Handled(m)' = Handled(m)
    BY <1>4, <2>2 DEF SpuriousWakeup, program, ring
  <2> QED BY <1>2, <1>1, <1>5, <2>1, <2>2
<1>6. CASE \E t \in Mapper : MapperSend(t)
  BY <1>1, <1>2, <1>6, HandledReads
<1>7. CASE ReducerCall
  <2>1. /\ Others(reducer) /\ msg'[reducer] = NoMsg /\ UNCHANGED <<queue, files, pos>>
        /\ reducing = "call"
    BY <1>7, CallMoves, Cast DEF ReducerCall, Running
  <2>2. Received(m) = 0 /\ Received(m)' = 0
    BY <2>1, MessageAssumption DEF Received
  <2>3. \A t \in Mapper : pc'[t] = pc[t] /\ msg'[t] = msg[t]
    BY <2>1, Cast DEF Others
  <2> QED BY <1>1, <1>2, <1>3, <2>1, <2>2, <2>3
<1>8. CASE ReducerExit
  <2>1. /\ UNCHANGED <<vars, files, pos>> /\ reducing' = "exit"
        /\ msg[reducer] \in Special \cup {NoMsg}
    BY <1>8 DEF ReducerExit, Hands
  <2>2. Received(m) = 0 /\ Received(m)' = 0
    BY <2>1, MessageAssumption DEF Received
  <2>3. UNCHANGED <<queue, files, pos>> /\ \A t \in Mapper : pc'[t] = pc[t] /\ msg'[t] = msg[t]
    BY <2>1 DEF vars
  <2> QED BY <1>1, <1>2, <1>3, <2>2, <2>3
<1>9. CASE MainDivide
  <2>1. UNCHANGED <<vars, program>>
    BY <1>9 DEF MainDivide
  <2>2. ReadAs(m)' = ReadAs(m)
    BY <1>9, DivideReads
  <2>3. Sending(m)' = Sending(m) /\ Count(m, queue)' = Count(m, queue) /\ Received(m)' = Received(m)
    BY <2>1 DEF Sending, Received, vars, program
  <2>4. Handled(m)' = Handled(m)
    BY <2>2, <2>3 DEF Handled
  <2> QED BY <1>1, <1>2, <2>4
<1>10. CASE MainCreate \/ MainDestroy \/ UNCHANGED allvars
  BY <1>1, <1>2, <1>4, <1>10 DEF MainCreate, MainDestroy, allvars, vars, program
<1>11. CASE MainSend \/ MainClose
  <2>1. Others(main) /\ UNCHANGED <<queue, files, pos, reducing>>
    BY <1>11, CallMoves, Cast DEF MainSend, MainClose, Running
  <2>2. msg'[reducer] = msg[reducer] /\ \A t \in Mapper : pc'[t] = pc[t] /\ msg'[t] = msg[t]
    BY <2>1, Cast DEF Others
  <2>3. Received(m)' = Received(m)
    BY <2>1, <2>2 DEF Received
  <2> QED BY <1>1, <1>2, <1>3, <2>1, <2>2, <2>3
<1> QED BY <1>1, <1>5, <1>6, <1>7, <1>8, <1>9, <1>10, <1>11, ProgramSteps

\* What the reducer's tree holds under key k.
Due(k) == IF k = One /\ Blank \in Message THEN Handled(One) - Handled(Blank)
          ELSE IF k = Blank THEN 0 ELSE Handled(k)

Counted ==
    /\ ReadFinite /\ counts \in [Message -> Int]
    /\ \A k \in Message \ Special : counts[k] = Due(k)

\* A message of no characters is not special, and is not the key it is counted under.
LEMMA BlankIs == Blank \notin Special /\ Blank # One /\ One \in Message
<1>1. One # <<>> /\ <<splmsg>> # <<>>
  BY DEF One
<1> QED BY <1>1, InputAssumption DEF Blank

\* At first nothing has been read and nothing is counted.
LEMMA CountedInit == ASSUME WInit PROVE Counted
<1>1. /\ pos = [t \in Mapper |-> 0] /\ counts = [m \in Message |-> 0] /\ reducing = "call"
      /\ queue = <<>> /\ pc = [t \in Thread |-> "idle"]
  BY DEF WInit, Init
<1>2. \A m : ReadAs(m) = {}
  <2>1. \A t \in Mapper : pos[t] = 0
    BY <1>1
  <2> QED BY <2>1, NoneRead
<1>3. ASSUME NEW m PROVE Handled(m) = 0
  <2>1. Sending(m) = {}
    BY <1>1, Cast DEF Sending
  <2>2. Count(m, queue) = 0
    <3>1. {k \in DOMAIN queue : queue[k] = m} = {}
      BY <1>1
    <3> QED BY <3>1, FS_EmptySet DEF Count
  <2>3. Received(m) = 0
    BY <1>1 DEF Received
  <2> QED BY <1>2, <2>1, <2>2, <2>3, FS_EmptySet DEF Handled
<1>4. ReadFinite
  BY <1>2, FS_EmptySet DEF ReadFinite
<1>5. \A k : Due(k) = 0
  BY <1>3 DEF Due
<1> QED BY <1>1, <1>4, <1>5 DEF Counted

\* The count of a key grows with the messages that are handled under it.
LEMMA CountedStep == ASSUME Running, Hands, Counted, [WNext]_allvars PROVE Counted'
<1> USE DEF Counted
<1>1. ReadFinite'
  BY ReadFiniteStep
<1>2. \A m \in Message \ Special :
         Handled(m)' = Handled(m) + IF ReducerCount /\ msg[reducer] = m THEN 1 ELSE 0
  BY HandledStep
<1>3. \A m \in Message \ Special : Handled(m) \in Int
  <2> TAKE m \in Message \ Special
  <2>1. /\ Cardinality(ReadAs(m)) \in Nat /\ Cardinality(Sending(m)) \in Nat
        /\ Count(m, queue) \in Nat /\ Received(m) \in Nat
    BY HandledType, CountType DEF Running, IInv, TypeInvariant
  <2> QED BY <2>1 DEF Handled
<1>4. CASE ~ ReducerCount
  <2>1. counts' = counts
    BY <1>4, ProgramSteps DEF MapperSend, ReducerCall, ReducerExit, MainDivide, MainCreate,
       MainSend, MainClose, MainDestroy, program, allvars
  <2>2. \A m \in Message \ Special : Handled(m)' = Handled(m)
    BY <1>2, <1>3, <1>4
  <2>3. \A k \in Message \ Special : Due(k)' = Due(k)
    BY <2>2, BlankIs DEF Due
  <2> QED BY <1>1, <2>1, <2>3
<1>5. CASE ReducerCount
  <2> DEFINE x == msg[reducer]
  <2>1. x \in Message \ Special /\ counts' = [counts EXCEPT ![Key(x)] = @ + Value(x)]
    BY <1>5 DEF ReducerCount, Hands
  <2> HIDE DEF x
  <2>2. \A m \in Message \ Special : Handled(m)' = Handled(m) + IF x = m THEN 1 ELSE 0
    BY <1>2, <1>5 DEF x
  <2>3. Key(x) \in Message /\ Value(x) \in Int
    BY <2>1, BlankIs DEF Key, Value
  <2>4. counts' \in [Message -> Int]
    BY <2>1, <2>3
  <2>5. ASSUME NEW k \in Message \ Special PROVE counts'[k] = Due(k)'
    <3>0. counts'[k] = counts[k] + IF k = Key(x) THEN Value(x) ELSE 0
      BY <2>1, <2>3
    <3>1. counts[k] = Due(k) /\ counts[k] \in Int
      OBVIOUS
    <3>2. CASE k = One /\ Blank \in Message
      <4>1. Handled(One)' = Handled(One) + (IF x = One THEN 1 ELSE 0)
            /\ Handled(Blank)' = Handled(Blank) + (IF x = Blank THEN 1 ELSE 0)
            /\ Handled(One) \in Int /\ Handled(Blank) \in Int
        BY <1>3, <2>2, <3>2, BlankIs
      <4>2. Due(k) = Handled(One) - Handled(Blank) /\ Due(k)' = Handled(One)' - Handled(Blank)'
        BY <3>2 DEF Due
      <4>3. (IF k = Key(x) THEN Value(x) ELSE 0)
              = (IF x = One THEN 1 ELSE 0) - (IF x = Blank THEN 1 ELSE 0)
        BY <3>2, BlankIs DEF Key, Value
      <4> DEFINE h == Handled(One)
                 b == Handled(Blank)
                 d == IF x = One THEN 1 ELSE 0
                 e == IF x = Blank THEN 1 ELSE 0
      <4>4. h \in Int /\ b \in Int /\ d \in Int /\ e \in Int
        BY <4>1
      <4>5. counts'[k] = (h - b) + (d - e) /\ Due(k)' = (h + d) - (b + e)
        BY <3>0, <3>1, <4>1, <4>2, <4>3
      <4> HIDE DEF h, b, d, e
      <4> QED BY <4>4, <4>5
    <3>3. CASE ~ (k = One /\ Blank \in Message) /\ k = Blank
      <4>1. Due(k) = 0 /\ Due(k)' = 0
        BY <3>3 DEF Due
      <4>2. k # Key(x)
        BY <3>3, BlankIs DEF Key
      <4> QED BY <3>0, <3>1, <4>1, <4>2
    <3>4. CASE ~ (k = One /\ Blank \in Message) /\ k # Blank
      <4>1. Due(k) = Handled(k) /\ Due(k)' = Handled(k)'
        BY <3>4 DEF Due
      <4>2. (IF k = Key(x) THEN Value(x) ELSE 0) = IF x = k THEN 1 ELSE 0
        BY <2>1, <3>4 DEF Key, Value
      <4>3. Handled(k)' = Handled(k) + (IF x = k THEN 1 ELSE 0) /\ Handled(k) \in Int
        BY <1>3, <2>2
      <4> QED BY <3>0, <3>1, <4>1, <4>2, <4>3
    <3> QED BY <3>2, <3>3, <3>4
  <2> QED BY <1>1, <2>4, <2>5
<1> QED BY <1>4, <1>5

\* A word that is neither in a file any more, nor in a call of buffer_send, nor in
\* the buffer, nor in the reducer's hands is counted, for any input and schedule.
THEOREM WordsAreKept == WSpec => []NoWordLost
<1>1. WInit => Hands
  BY Cast DEF WInit, Init, Hands, Early
<1>2. WInit => Counted
  BY CountedInit
<1>3. Running /\ Hands /\ Counted /\ [WNext]_allvars => (Hands /\ Counted)'
  BY HandsStep, CountedStep
<1>4. Counted => NoWordLost
  BY DEF Counted, Due, NoWordLost, Tally
<1> QED BY <1>1, <1>2, <1>3, <1>4, RunningAlways, PTL DEF WSpec

-----------------------------------------------------------------------------
(* The end of the program *)

\* buffer_receive does not fail, and has an answer when it returns.
Answered ==
    /\ ret[reducer] # "CLOSED_ERROR"
    /\ reducing = "wait" /\ ret[reducer] = "none" => pc[reducer] \in Early

\* main's message is in the buffer; the reducer has it.
Sent == step \in After /\ pc[main] \notin Waiting
Got  == reducing = "exit" \/ (reducing = "wait" /\ ret[reducer] = "BUFFER_SPECIAL_MESSSAGE")

\* Unless the input has the word, "splmsg" is behind all other messages.
Order ==
    ~ Sentinel =>
        /\ \A t \in Mapper : pc[t] \in SendPCs => msg[t] \notin Special
        /\ \A k \in 1 .. Len(queue) : queue[k] \in Special => k = Len(queue) /\ Sent
        /\ Got => Sent /\ queue = <<>>

\* Only the reducer changes its answer, and only when it gets one.
LEMMA AnsweredStep == ASSUME Running, Hands, Answered, [WNext]_allvars PROVE Answered'
<1>1. ASSUME UNCHANGED <<pc, ret, reducing>> PROVE Answered'
  BY <1>1 DEF Answered
<1>2. ASSUME NEW t \in Thread, t # reducer, Others(t), reducing' = reducing PROVE Answered'
  <2>1. pc'[reducer] = pc[reducer] /\ ret'[reducer] = ret[reducer]
    BY <1>2, Cast DEF Others
  <2> QED BY <1>2, <2>1 DEF Answered
<1>3. ASSUME NEW t \in Thread, ThreadStep(t), UNCHANGED program PROVE Answered'
  <2>1. /\ Others(t) /\ (Sends(t) \/ Receives(t) \/ Closes(t)) /\ reducing' = reducing
        /\ Sends(t) => isopen /\ (t \notin Mapper => t = main)
        /\ Receives(t) => isopen /\ t = reducer
        /\ Closes(t) => t = main
    BY <1>3, OpenSteps DEF Running, program
  <2>2. CASE t # reducer
    BY <1>2, <2>1, <2>2
  <2>3. CASE t = reducer
    <3>1. Receives(t)
      BY <2>1, <2>3, Cast
    <3>2. CASE Takes(t)
      BY <2>1, <2>3, <3>2 DEF Takes, Answered
    <3>3. CASE ~ Takes(t)
      <4>1. pc[t] \in Late => pc[t] \notin Early
        BY DEF Early, Late
      <4> QED BY <2>1, <2>3, <3>1, <3>3, <4>1 DEF Receives, Answered, Running, Calls, Early, Late
    <3> QED BY <3>2, <3>3
  <2> QED BY <2>2, <2>3
<1>4. CASE \E t \in Thread : (ThreadStep(t) \/ SpuriousWakeup(t)) /\ UNCHANGED <<files, program>>
  BY <1>1, <1>3, <1>4 DEF SpuriousWakeup, program
<1>5. CASE \E t \in Mapper : MapperSend(t)
  <2>1. PICK t \in Mapper : MapperSend(t)
    BY <1>5
  <2>2. t \in Thread /\ t # reducer /\ reducing' = reducing
        /\ SendCall(t, reformat_string(Words(t)[pos[t] + 1]))
    BY <2>1, Cast DEF MapperSend
  <2>3. Others(t)
    BY <2>2, CallMoves DEF Running
  <2> QED BY <1>2, <2>2, <2>3
<1>6. CASE ReducerCall
  <2>1. ret'[reducer] = "none" /\ pc'[reducer] = "r_open"
    BY <1>6, CallMoves, Cast DEF ReducerCall, Running
  <2> QED BY <2>1 DEF Answered, Early
<1>7. CASE ReducerCount \/ ReducerExit
  BY <1>7 DEF ReducerCount, ReducerExit, Answered, vars
<1>8. CASE MainDivide \/ MainCreate \/ MainDestroy \/ UNCHANGED allvars
  BY <1>1, <1>8 DEF MainDivide, MainCreate, MainDestroy, allvars, vars, program
<1>9. CASE MainSend \/ MainClose
  <2>1. Others(main) /\ reducing' = reducing
    BY <1>9, CallMoves, Cast DEF MainSend, MainClose, Running
  <2> QED BY <1>2, <2>1, Cast
<1> QED BY <1>4, <1>5, <1>6, <1>7, <1>8, <1>9, ProgramSteps

\* The input file is not written.
LEMMA SentinelSame == ASSUME [WNext]_allvars PROVE Sentinel' = Sentinel
<1>1. text' = text
  BY FilesStep DEF files, Divide!dividefile, Divide!Copy, Divide!FirstBytes, Divide!Rest,
     Divide!LastFile
<1> QED BY <1>1 DEF Sentinel, Occurrences

\* No mapper sends "splmsg".
LEMMA NoSentinel ==
    ASSUME Running, ~ Sentinel, part = "done", NEW t \in Mapper, NEW k \in 1 .. Len(Words(t))
    PROVE  reformat_string(Words(t)[k]) \notin Special
<1> DEFINE W == Divide!Words(text)
           s == <<splmsg>>
           H == {j \in DOMAIN Strings(W) : Strings(W)[j] = s}
<1>1. PICK j \in 1 .. Len(W) : Words(t)[k] = W[j]
  BY MapperWords DEF Running
<1>2. W \in Seq(Seq(Char))
  BY TextType, WordsType DEF Running, Divided
<1> HIDE DEF W
<1>3. DOMAIN Strings(W) = 1 .. Len(W) /\ Len(W) \in Nat
      /\ \A x \in 1 .. Len(W) : Strings(W)[x] = reformat_string(W[x])
  BY <1>2, LenProperties DEF Strings
<1>4. IsFiniteSet(H)
  <2>1. IsFiniteSet(1 .. Len(W)) /\ H \in SUBSET (1 .. Len(W))
    BY <1>3, FS_Interval
  <2> QED BY <2>1, FS_Subset
<1>5. H = {}
  <2>1. Occurrences(s) = Cardinality(H)
    BY DEF Occurrences, Count, W
  <2>2. ~ (Cardinality(H) > 0) /\ Cardinality(H) \in Nat
    <3> HIDE DEF H
    <3> QED BY <1>4, <2>1, FS_CardinalityType DEF Sentinel
  <2>3. Cardinality(H) = 0
    <3> HIDE DEF H
    <3> QED BY <2>2
  <2> HIDE DEF H
  <2> QED BY <1>4, <2>3, FS_EmptySet
<1>6. reformat_string(W[j]) # s
  BY <1>3, <1>5
<1> QED BY <1>1, <1>6, InputAssumption

\* A step inside a function of the buffer puts no message behind "splmsg".
LEMMA OrderThread ==
    ASSUME Running, Answered, Order, ~ Sentinel, NEW t \in Thread, ThreadStep(t),
           UNCHANGED <<files, program>>
    PROVE  /\ \A u \in Mapper : pc'[u] \in SendPCs => msg'[u] \notin Special
           /\ \A k \in 1 .. Len(queue') : queue'[k] \in Special => k = Len(queue') /\ Sent'
           /\ Got' => Sent' /\ queue' = <<>>
<1> USE DEF Order
<1>1. /\ Others(t) /\ (Sends(t) \/ Receives(t) \/ Closes(t))
      /\ Sends(t) => /\ isopen /\ pc'[t] \in {"idle"} \cup SendPCs
                     /\ t \in Mapper => step = "join_mappers"
                     /\ t \notin Mapper => t = main
      /\ Receives(t) => isopen /\ t = reducer
      /\ Closes(t) => t = main /\ step = "destroy"
      /\ step' = step /\ reducing' = reducing
  BY OpenSteps DEF Running, program
<1>2. queue \in Seq(Message) /\ Len(queue) \in Nat
  BY LenProperties DEF Running, IInv, TypeInvariant
<1>3. \A u \in Thread \ {t} : pc'[u] = pc[u] /\ msg'[u] = msg[u] /\ ret'[u] = ret[u]
  BY <1>1 DEF Others
<1>4. ASSUME queue' = queue, Sent => Sent', Got' => Got
      PROVE  /\ \A k \in 1 .. Len(queue') : queue'[k] \in Special => k = Len(queue') /\ Sent'
             /\ Got' => Sent' /\ queue' = <<>>
  BY <1>4
<1>5. CASE Sends(t)
  <2>1. /\ t # reducer /\ msg' = msg /\ msg[t] \in Message /\ pc[t] \in SendPCs
        /\ Got' = Got
    <3>1. t # reducer
      BY <1>1, <1>5, Cast
    <3>2. ret'[reducer] = ret[reducer]
      BY <1>3, <3>1, Cast
    <3> QED BY <1>1, <1>5, <3>1, <3>2 DEF Sends, Running, IInv, Roles, Got
  <2>2. \A u \in Mapper : pc'[u] \in SendPCs => msg'[u] \notin Special
    BY <1>3, <2>1, Cast
  <2>3. CASE pc[t] = "s_test" /\ pc'[t] = "s_unlock" /\ queue' = Append(queue, msg[t])
    <3>1. Len(queue') = Len(queue) + 1 /\ queue'[Len(queue) + 1] = msg[t]
          /\ \A k \in 1 .. Len(queue) : queue'[k] = queue[k]
      BY <1>2, <2>1, <2>3, AppendProperties
    <3>2. ~ Sent
      BY <1>1, <1>5, <2>3 DEF Sent, After, Waiting
    <3>3. ~ Got' /\ \A k \in 1 .. Len(queue) : queue[k] \notin Special
      BY <2>1, <3>2
    <3>4. \A k \in 1 .. Len(queue') : k \in 1 .. Len(queue) \/ k = Len(queue) + 1
      BY <1>2, <3>1
    <3>5. CASE t \in Mapper
      <4>1. msg[t] \notin Special
        BY <2>1, <3>5
      <4> QED BY <2>2, <3>1, <3>3, <3>4, <4>1
    <3>6. CASE t = main
      <4>1. Sent'
        BY <1>1, <1>5, <2>1, <2>3, <3>6 DEF Sent, After, Waiting, Running, Calls
      <4> QED BY <2>2, <3>1, <3>3, <3>4, <4>1
    <3> QED BY <1>1, <1>5, <3>5, <3>6
  <2>4. CASE ~ (pc[t] = "s_test" /\ pc'[t] = "s_unlock" /\ queue' = Append(queue, msg[t]))
    <3>1. queue' = queue /\ (pc[t] \in Waiting <=> pc'[t] \in Waiting)
      BY <1>1, <1>5, <2>4 DEF Sends, Waiting
    <3>2. Sent => Sent'
      BY <1>1, <1>3, <3>1, Cast DEF Sent
    <3> QED BY <1>4, <2>1, <2>2, <3>1, <3>2
  <2> QED BY <2>3, <2>4
<1>6. CASE Receives(t)
  <2>1. t = reducer /\ (\A u \in Mapper : pc'[u] \in SendPCs => msg'[u] \notin Special)
        /\ (Sent => Sent')
    BY <1>1, <1>3, <1>6, Cast DEF Sent
  <2>2. CASE Takes(t)
    <3>1. Tail(queue) = queue' /\ queue # <<>> /\ Len(queue') = Len(queue) - 1 /\ Len(queue) # 0
          /\ \A k \in 1 .. Len(queue') : queue'[k] = queue[k + 1]
      BY <1>2, <2>2, HeadTailProperties, EmptySeq DEF Takes
    <3>2. Head(queue) = queue[1]
      BY <1>2, <3>1
    <3>3. \A k \in 1 .. Len(queue') : queue'[k] \in Special => k = Len(queue') /\ Sent'
      <4>1. \A k \in 1 .. Len(queue') : k + 1 \in 1 .. Len(queue)
            /\ (k + 1 = Len(queue) => k = Len(queue'))
        BY <1>2, <3>1
      <4> QED BY <2>1, <3>1, <4>1
    <3>4. ASSUME Got' PROVE Sent' /\ queue' = <<>>
      <4>1. reducing # "exit"
        BY <2>1, <2>2 DEF Takes, Running, Calls
      <4>2. ret'[reducer] = "BUFFER_SPECIAL_MESSSAGE"
        BY <1>1, <3>4, <4>1 DEF Got
      <4>3. Head(queue) \in Special
        BY <2>1, <2>2, <4>2 DEF Takes
      <4>4. 1 = Len(queue) /\ Sent
        <5>1. 1 \in 1 .. Len(queue)
          BY <1>2, <3>1
        <5> QED BY <3>2, <4>3, <5>1
      <4>5. queue' = <<>>
        <5>1. queue' \in Seq(Message) /\ Len(queue') = 0
          BY <1>2, <3>1, <4>4, HeadTailProperties
        <5> QED BY <5>1, EmptySeq
      <4> QED BY <2>1, <4>4, <4>5
    <3> QED BY <2>1, <3>3, <3>4
  <2>3. CASE ~ Takes(t)
    <3>1. queue' = queue /\ ret'[reducer] = ret[reducer]
      BY <1>1, <1>6, <2>1, <2>3 DEF Receives
    <3>2. Got' => Got
      BY <1>1, <3>1 DEF Got
    <3> QED BY <1>4, <2>1, <3>1, <3>2
  <2> QED BY <2>2, <2>3
<1>7. CASE Closes(t)
  <2>1. t = main /\ step = "destroy" /\ queue' = queue
    BY <1>1, <1>7 DEF Closes
  <2>2. /\ \A u \in Mapper : pc'[u] = pc[u] /\ msg'[u] = msg[u]
        /\ ret'[reducer] = ret[reducer]
    BY <1>3, <2>1, Cast
  <2>3. Sent' /\ (Got' => Got)
    BY <1>1, <1>7, <2>1, <2>2 DEF Sent, Got, After, Waiting, Closes
  <2> QED BY <1>4, <2>1, <2>2, <2>3
<1> QED BY <1>1, <1>5, <1>6, <1>7

\* Nor does any other step of the program.
LEMMA OrderStep == ASSUME Running, Answered, Order, [WNext]_allvars PROVE Order'
<1> SUFFICES ASSUME ~ Sentinel
             PROVE  /\ \A t \in Mapper : pc'[t] \in SendPCs => msg'[t] \notin Special
                    /\ \A k \in 1 .. Len(queue') : queue'[k] \in Special => k = Len(queue') /\ Sent'
                    /\ Got' => Sent' /\ queue' = <<>>
  BY SentinelSame DEF Order
<1>1. ASSUME queue' = queue, Sent => Sent', Got' => Got,
             \A u \in Mapper : pc'[u] = pc[u] /\ msg'[u] = msg[u]
      PROVE  /\ \A t \in Mapper : pc'[t] \in SendPCs => msg'[t] \notin Special
             /\ \A k \in 1 .. Len(queue') : queue'[k] \in Special => k = Len(queue') /\ Sent'
             /\ Got' => Sent' /\ queue' = <<>>
  BY <1>1 DEF Order
<1>2. CASE \E t \in Thread : (ThreadStep(t) \/ SpuriousWakeup(t)) /\ UNCHANGED <<files, program>>
  <2>1. ASSUME NEW t \in Thread, SpuriousWakeup(t), UNCHANGED program
        PROVE  /\ queue' = queue /\ (Sent => Sent') /\ (Got' => Got)
               /\ \A u \in Mapper : pc'[u] = pc[u] /\ msg'[u] = msg[u]
    BY <2>1 DEF SpuriousWakeup, program, ring, Sent, Got
  <2> QED BY <1>1, <1>2, <2>1, OrderThread
<1>3. CASE \E t \in Mapper : MapperSend(t)
  <2>1. PICK t \in Mapper : MapperSend(t)
    BY <1>3
  <2> DEFINE n == pos[t] + 1
             w == reformat_string(Words(t)[n])
  <2>2. /\ t \in Thread /\ t # reducer /\ t # main /\ SendCall(t, w) /\ UNCHANGED <<step, reducing>>
        /\ step # "divide" /\ pos[t] < Len(Words(t)) /\ pos[t] \in Nat
    BY <2>1, Cast DEF MapperSend, Running, Calls
  <2>3. w \notin Special
    <3>1. part = "done"
      BY <2>2 DEF Running, Calls
    <3>2. Len(Words(t)) \in Nat
      BY <3>1, MapperWords, LenProperties DEF Running
    <3>3. n \in 1 .. Len(Words(t))
      BY <2>2, <3>2
    <3> QED BY <3>1, <3>3, NoSentinel
  <2> HIDE DEF w
  <2>4. Others(t) /\ msg'[t] = w /\ UNCHANGED queue
    BY <2>2, CallMoves DEF Running
  <2>5. /\ pc'[main] = pc[main] /\ ret'[reducer] = ret[reducer]
        /\ \A u \in Mapper \ {t} : pc'[u] = pc[u] /\ msg'[u] = msg[u]
    BY <2>2, <2>4, Cast DEF Others
  <2>6. (Sent' <=> Sent) /\ (Got' <=> Got)
    BY <2>2, <2>5 DEF Sent, Got
  <2>7. \A u \in Mapper : pc'[u] \in SendPCs => msg'[u] \notin Special
    BY <2>3, <2>4, <2>5 DEF Order
  <2> QED BY <2>4, <2>6, <2>7 DEF Order
<1>4. CASE ReducerCall
  <2>1. /\ Others(reducer) /\ ret'[reducer] = "none" /\ UNCHANGED <<queue, step>>
        /\ reducing' = "wait"
    BY <1>4, CallMoves, Cast DEF ReducerCall, Running
  <2>2. pc'[main] = pc[main] /\ \A u \in Mapper : pc'[u] = pc[u] /\ msg'[u] = msg[u]
    BY <2>1, Cast DEF Others
  <2>3. (Sent => Sent') /\ ~ Got'
    BY <2>1, <2>2 DEF Sent, Got
  <2> QED BY <1>1, <2>1, <2>2, <2>3
<1>5. CASE ReducerCount \/ ReducerExit
  <2>1. UNCHANGED <<vars, step>> /\ reducing = "wait"
        /\ pc[reducer] = "idle" /\ reducing' \in {"call", "exit"}
        /\ (reducing' = "exit" => ret[reducer] # "BUFFER_SUCCESS")
    BY <1>5 DEF ReducerCount, ReducerExit
  <2>2. reducing' = "exit" => Got
    <3>1. ret[reducer] \in Statuses /\ ret[reducer] \notin {"none", "CLOSED_ERROR"}
      BY <2>1, Cast DEF Running, IInv, TypeInvariant, Statuses, Answered, Early
    <3> QED BY <2>1, <3>1 DEF Got, Statuses
  <2>3. (Sent => Sent') /\ (Got' => Got)
    BY <2>1, <2>2 DEF Sent, Got, vars
  <2>4. queue' = queue /\ \A u \in Mapper : pc'[u] = pc[u] /\ msg'[u] = msg[u]
    BY <2>1 DEF vars
  <2> QED BY <1>1, <2>3, <2>4
<1>6. CASE MainDivide \/ MainCreate \/ MainDestroy \/ UNCHANGED allvars
  <2>1. UNCHANGED <<vars, reducing>>
        /\ (step' = step \/ step = "divide" \/ (step = "destroy" /\ step' = "end"))
    BY <1>6 DEF MainDivide, MainCreate, MainDestroy, allvars, program
  <2>2. (Sent => Sent') /\ (Got' => Got)
    BY <2>1 DEF Sent, Got, After, vars
  <2>3. queue' = queue /\ \A u \in Mapper : pc'[u] = pc[u] /\ msg'[u] = msg[u]
    BY <2>1 DEF vars
  <2> QED BY <1>1, <2>2, <2>3
<1>7. CASE MainSend \/ MainClose
  <2>1. /\ Others(main) /\ UNCHANGED <<queue, reducing>>
        /\ \/ step = "join_mappers" /\ step' = "join_reducer"
           \/ step = "join_reducer" /\ step' = "destroy" /\ pc'[main] = "c_lock"
    BY <1>7, CallMoves, Cast DEF MainSend, MainClose, Running
  <2>2. ret'[reducer] = ret[reducer] /\ \A u \in Mapper : pc'[u] = pc[u] /\ msg'[u] = msg[u]
    BY <2>1, Cast DEF Others
  <2>3. (Sent => Sent') /\ (Got' => Got)
    BY <2>1, <2>2 DEF Sent, Got, After, Waiting
  <2> QED BY <1>1, <2>1, <2>2, <2>3
<1> QED BY <1>2, <1>3, <1>4, <1>5, <1>6, <1>7, ProgramSteps

\* At first nothing has been received.
LEMMA OrderInit == ASSUME WInit PROVE Answered /\ Order
<1>1. /\ reducing = "call" /\ queue = <<>> /\ ret = [t \in Thread |-> "none"]
      /\ pc = [t \in Thread |-> "idle"]
  BY DEF WInit, Init
<1>2. ret[reducer] = "none" /\ \A t \in Mapper : pc[t] = "idle"
  BY <1>1, Cast
<1>3. Len(queue) = 0 /\ 1 .. Len(queue) = {}
  BY <1>1
<1>4. Answered /\ ~ Got
  BY <1>1, <1>2 DEF Answered, Got
<1>5. "idle" \notin SendPCs
  BY DEF SendPCs
<1> QED BY <1>2, <1>3, <1>4, <1>5 DEF Order

\* The strings that can be made of words.
Str == {reformat_string(x) : x \in Seq(Char)}

\* Each word makes one.
LEMMA StringsType ==
    ASSUME NEW w \in Seq(Seq(Char))
    PROVE  /\ Strings(w) \in Seq(Str) /\ DOMAIN Strings(w) = 1 .. Len(w) /\ Len(w) \in Nat
           /\ \A k \in 1 .. Len(w) : Strings(w)[k] = reformat_string(w[k])
<1>1. Len(w) \in Nat /\ DOMAIN w = 1 .. Len(w) /\ \A k \in 1 .. Len(w) : w[k] \in Seq(Char)
  BY LenProperties, ElementOfSeq
<1>2. \A k \in 1 .. Len(w) : reformat_string(w[k]) \in Str
  BY <1>1 DEF Str
<1>3. Strings(w) = [k \in 1 .. Len(w) |-> reformat_string(w[k])]
  BY <1>1 DEF Strings
<1> HIDE DEF reformat_string
<1>4. Strings(w) \in [1 .. Len(w) -> Str]
  BY <1>2, <1>3
<1>5. Strings(w) \in Seq(Str)
  BY <1>1, <1>4
<1> QED BY <1>1, <1>3, <1>5

\* Words one after the other make strings one after the other.
LEMMA StringsConcat ==
    ASSUME NEW a \in Seq(Seq(Char)), NEW b \in Seq(Seq(Char)), NEW m
    PROVE  Count(m, Strings(a \o b)) = Count(m, Strings(a)) + Count(m, Strings(b))
<1> DEFINE A == Strings(a)
           B == Strings(b)
           C == Strings(a \o b)
<1>1. /\ a \o b \in Seq(Seq(Char)) /\ Len(a \o b) = Len(a) + Len(b)
      /\ \A k \in 1 .. Len(a) + Len(b) :
           (a \o b)[k] = IF k <= Len(a) THEN a[k] ELSE b[k - Len(a)]
  BY ConcatProperties
<1>2. /\ A \in Seq(Str) /\ B \in Seq(Str) /\ C \in Seq(Str)
      /\ Len(a) \in Nat /\ Len(b) \in Nat
      /\ DOMAIN A = 1 .. Len(a) /\ DOMAIN B = 1 .. Len(b) /\ DOMAIN C = 1 .. Len(a) + Len(b)
      /\ \A k \in 1 .. Len(a) : A[k] = reformat_string(a[k])
      /\ \A k \in 1 .. Len(b) : B[k] = reformat_string(b[k])
      /\ \A k \in 1 .. Len(a) + Len(b) : C[k] = reformat_string((a \o b)[k])
  BY <1>1, StringsType
<1> HIDE DEF A, B, C
<1>3. Len(A) = Len(a) /\ Len(B) = Len(b) /\ Len(C) = Len(a) + Len(b)
  BY <1>2, LenProperties
<1>4. A \o B \in Seq(Str) /\ Len(A \o B) = Len(a) + Len(b)
      /\ \A k \in 1 .. Len(a) + Len(b) :
           (A \o B)[k] = IF k <= Len(a) THEN A[k] ELSE B[k - Len(a)]
  <2>1. A \in Seq(Str) /\ B \in Seq(Str)
    BY <1>2
  <2>2. /\ A \o B \in Seq(Str) /\ Len(A \o B) = Len(A) + Len(B)
        /\ \A k \in 1 .. Len(A) + Len(B) :
             (A \o B)[k] = IF k <= Len(A) THEN A[k] ELSE B[k - Len(A)]
    BY <2>1, ConcatProperties
  <2> QED BY <1>3, <2>2
<1>5. ASSUME NEW k \in 1 .. Len(a) + Len(b) PROVE C[k] = (A \o B)[k]
  <2>1. CASE k <= Len(a)
    <3>1. k \in 1 .. Len(a)
      BY <1>2, <2>1
    <3> QED BY <1>1, <1>2, <1>4, <2>1, <3>1
  <2>2. CASE ~ (k <= Len(a))
    <3>1. k - Len(a) \in 1 .. Len(b)
      BY <1>2, <2>2
    <3>2. C[k] = reformat_string(b[k - Len(a)]) /\ (A \o B)[k] = B[k - Len(a)]
      BY <1>1, <1>2, <1>4, <2>2
    <3> QED BY <1>2, <3>1, <3>2
  <2> QED BY <2>1, <2>2
<1>6. C = A \o B
  BY <1>2, <1>3, <1>4, <1>5, SeqEqual
<1>7. Count(m, A \o B) = Count(m, A) + Count(m, B)
  BY <1>2, CountConcat
<1> QED BY <1>6, <1>7 DEF A, B, C

-----------------------------------------------------------------------------
(* When every mapper has read its piece *)

\* The n-th mapper is the one whose index is n.
LEMMA IndexIs ==
    /\ \A n \in 1 .. Len(pid) : pid[n] \in Mapper /\ Index(pid[n]) = n
    /\ \A t \in Mapper : Index(t) \in 1 .. Len(pid) /\ pid[Index(t)] = t
    /\ Len(pid) \in Nat
<1>1. DOMAIN pid = 1 .. Len(pid) /\ Len(pid) \in Nat
  BY RoleAssumption, LenProperties
<1>2. \A a, b \in DOMAIN pid : pid[a] = pid[b] => a = b
  BY RoleAssumption DEF IsInjective
<1>3. ASSUME NEW t, \E n \in DOMAIN pid : pid[n] = t
      PROVE  Index(t) \in DOMAIN pid /\ pid[Index(t)] = t
  BY <1>3 DEF Index
<1>4. ASSUME NEW n \in DOMAIN pid PROVE pid[n] \in Mapper /\ Index(pid[n]) = n
  BY <1>2, <1>3 DEF Mapper, Range
<1>5. ASSUME NEW t \in Mapper PROVE Index(t) \in DOMAIN pid /\ pid[Index(t)] = t
  BY <1>3 DEF Mapper, Range
<1> QED BY <1>1, <1>4, <1>5

\* What mapper t has read, and what those up to the n-th have read, as m.
ReadBy(t, m) == {p \in ReadAs(m) : p[1] = t}
UpTo(n, m)   == {p \in ReadAs(m) : Index(p[1]) <= n}

\* A mapper that has read its piece has read each of its words.
LEMMA ReadByAll ==
    ASSUME NEW t \in Mapper, Words(t) \in Seq(Seq(Char)), pos[t] = Len(Words(t)), NEW m
    PROVE  IsFiniteSet(ReadBy(t, m)) /\ Cardinality(ReadBy(t, m)) = Count(m, Strings(Words(t)))
<1> DEFINE w == Words(t)
           s == Strings(w)
           A == {k \in DOMAIN s : s[k] = m}
           g == [k \in A |-> <<t, k>>]
<1>1. /\ s \in Seq(Str) /\ DOMAIN s = 1 .. Len(w)
      /\ \A k \in 1 .. Len(w) : s[k] = reformat_string(w[k])
  BY StringsType
<1>2. IsFiniteSet(A) /\ Count(m, s) = Cardinality(A)
  BY <1>1, CountType DEF Count
<1> HIDE DEF s
<1>3. \A k : k \in A <=> k \in 1 .. pos[t] /\ reformat_string(Words(t)[k]) = m
  BY <1>1
<1>4. ASSUME NEW k \in A PROVE g[k] \in ReadBy(t, m) /\ g[k] = <<t, k>>
  BY SMTT(30), <1>3, ReadAsIs DEF ReadBy
<1>5. ASSUME NEW p \in ReadBy(t, m) PROVE \E k \in A : g[k] = p
  <2>1. p \in ReadAs(m) /\ p[1] = t
    BY DEF ReadBy
  <2>2. PICK u \in Mapper : \E k \in 1 .. pos[u] :
               p = <<u, k>> /\ reformat_string(Words(u)[k]) = m
    BY <2>1, ReadAsIs
  <2>3. u = t
    BY <2>1, <2>2
  <2>4. PICK k \in 1 .. pos[t] : p = <<t, k>> /\ reformat_string(Words(t)[k]) = m
    BY <2>2, <2>3
  <2>5. k \in A
    BY <1>3, <2>4
  <2> QED BY <1>4, <2>4, <2>5
<1> HIDE DEF A
<1>6. g \in Bijection(A, ReadBy(t, m))
  <2>1. g \in [A -> ReadBy(t, m)]
    BY <1>4
  <2>2. \A j, k \in A : g[j] = g[k] => j = k
    BY <1>4
  <2> HIDE DEF g
  <2> QED BY <1>5, <2>1, <2>2 DEF Bijection, Injection, Surjection, IsInjective
<1> HIDE DEF g
<1>7. IsFiniteSet(ReadBy(t, m)) /\ Cardinality(ReadBy(t, m)) = Cardinality(A)
  BY <1>2, <1>6, FS_Bijection DEF ExistsBijection
<1> QED BY <1>2, <1>7 DEF s

\* The n-th mapper's words are read besides those of the mappers before it.
LEMMA UpToNext ==
    ASSUME NEW n \in 1 .. Len(pid), NEW m
    PROVE  /\ UpTo(n, m) = UpTo(n - 1, m) \cup ReadBy(pid[n], m)
           /\ UpTo(n - 1, m) \cap ReadBy(pid[n], m) = {}
<1>1. Index(pid[n]) = n /\ n \in Nat
  BY IndexIs
<1>2. \A p \in ReadAs(m) : p[1] \in Mapper
  BY ReadAsIs
<1>3. ASSUME NEW t \in Mapper
      PROVE  /\ Index(t) <= n <=> (Index(t) <= n - 1 \/ t = pid[n])
             /\ ~ (Index(t) <= n - 1 /\ t = pid[n])
  <2>1. Index(t) \in Nat /\ pid[Index(t)] = t
    BY IndexIs
  <2>2. t = pid[n] <=> Index(t) = n
    BY <1>1, <2>1
  <2> QED BY <1>1, <2>1, <2>2
<1> QED BY <1>2, <1>3 DEF UpTo, ReadBy

\* When all mappers have read their pieces, the words of the input have been read,
\* each as often as it is there.
LEMMA AllRead ==
    ASSUME Running, part = "done", \A t \in Mapper : pos[t] = Len(Words(t)), NEW m
    PROVE  Cardinality(ReadAs(m)) = Occurrences(m)
<1> DEFINE f == [k \in 1 .. num |-> Divide!Words(fpa[k])]
<1>1. num \in Nat /\ num <= Len(pid) /\ fpa \in [1 .. num -> Seq(Char)]
  BY IndexIs DEF Running, Divided
<1>2. PICK F : Joined(f, num, F) /\ F[num] = Divide!Words(text)
  BY DEF Running, Divided, Kept
<1>3. \A n \in 1 .. num : f[n] \in Seq(Seq(Char)) /\ f[n] = Divide!Words(fpa[n])
  BY <1>1, WordsType
<1>4. \A n \in 1 .. num : pid[n] \in Mapper /\ Words(pid[n]) = f[n] /\ n \in 1 .. Len(pid)
  <2> TAKE n \in 1 .. num
  <2>1. n \in 1 .. Len(pid) /\ n <= num
    BY <1>1, IndexIs
  <2>2. pid[n] \in Mapper /\ Index(pid[n]) = n
    BY <2>1, IndexIs
  <2> QED BY <1>3, <2>1, <2>2 DEF Words
<1> HIDE DEF f
<1>5. \A n \in 0 .. num : F[n] \in Seq(Seq(Char))
  BY <1>1, <1>2, <1>3, JoinedType
<1> DEFINE All(n) == IsFiniteSet(UpTo(n, m)) /\ Cardinality(UpTo(n, m)) = Count(m, Strings(F[n]))
           P == {n \in Nat : n <= num => All(n)}
<1>6. 0 \in P
  <2>1. UpTo(0, m) = {}
    <3>1. \A t \in Mapper : Index(t) \in Nat /\ Index(t) > 0
      BY IndexIs
    <3>2. \A t \in Mapper : ~ (Index(t) <= 0)
      BY <3>1
    <3>3. \A p \in ReadAs(m) : p[1] \in Mapper
      BY ReadAsIs
    <3> QED BY <3>2, <3>3 DEF UpTo
  <2>2. F[0] = <<>>
    BY <1>2 DEF Joined
  <2>3. {k \in DOMAIN Strings(<<>>) : Strings(<<>>)[k] = m} = {}
    BY DEF Strings
  <2>4. Count(m, Strings(F[0])) = 0
    BY <2>2, <2>3, FS_EmptySet DEF Count
  <2>5. All(0)
    BY <2>1, <2>4, FS_EmptySet
  <2> QED BY <2>5
<1>7. ASSUME NEW n \in Nat \ {0}, n - 1 \in P PROVE n \in P
  <2>1. CASE n <= num
    <3> DEFINE U == UpTo(n - 1, m)
               V == ReadBy(pid[n], m)
               a == F[n - 1]
    <3>1. n \in 1 .. num /\ n - 1 \in 0 .. num /\ n - 1 \in Nat /\ n - 1 <= num
      BY <1>1, <2>1
    <3>2. IsFiniteSet(U) /\ Cardinality(U) = Count(m, Strings(a))
      BY <1>7, <3>1
    <3>3. IsFiniteSet(V) /\ Cardinality(V) = Count(m, Strings(f[n]))
      <4> DEFINE t == pid[n]
      <4>1. t \in Mapper /\ Words(t) = f[n] /\ f[n] \in Seq(Seq(Char))
        BY <1>3, <1>4, <3>1
      <4> HIDE DEF t
      <4>2. Words(t) \in Seq(Seq(Char)) /\ pos[t] = Len(Words(t))
        BY <4>1
      <4>3. IsFiniteSet(ReadBy(t, m)) /\ Cardinality(ReadBy(t, m)) = Count(m, Strings(Words(t)))
        BY <4>1, <4>2, ReadByAll
      <4> QED BY <4>1, <4>3 DEF t
    <3>4. UpTo(n, m) = U \cup V /\ U \cap V = {}
      BY <1>4, <3>1, UpToNext
    <3>5. a \in Seq(Seq(Char)) /\ f[n] \in Seq(Seq(Char)) /\ F[n] = a \o f[n]
      BY <1>2, <1>3, <1>5, <3>1 DEF Joined
    <3> HIDE DEF U, V, a
    <3>6. Count(m, Strings(a \o f[n])) = Count(m, Strings(a)) + Count(m, Strings(f[n]))
      BY <3>5, StringsConcat
    <3>7. IsFiniteSet(U \cup V)
          /\ Cardinality(U \cup V) = Cardinality(U) + Cardinality(V) - Cardinality(U \cap V)
      BY <3>2, <3>3, FS_Union
    <3>8. Cardinality(U \cap V) = 0 /\ Cardinality(U) \in Nat /\ Cardinality(V) \in Nat
      BY <3>2, <3>3, <3>4, FS_EmptySet, FS_CardinalityType
    <3>9. Cardinality(U \cup V) = Count(m, Strings(a)) + Count(m, Strings(f[n]))
      BY <3>2, <3>3, <3>7, <3>8
    <3>10. All(n)
      BY <3>4, <3>5, <3>6, <3>7, <3>9
    <3> HIDE DEF All
    <3> QED BY <3>10
  <2> HIDE DEF All
  <2> QED BY <2>1
<1>8. All(num)
  <2>1. \A n \in Nat : n \in P
    <3> HIDE DEF P
    <3> QED BY <1>6, <1>7, SetInduction
  <2> HIDE DEF All
  <2> QED BY <1>1, <2>1
<1>9. UpTo(num, m) = ReadAs(m)
  <2>1. ASSUME NEW p \in ReadAs(m) PROVE Index(p[1]) <= num
    <3>1. PICK t \in Mapper : \E k \in 1 .. pos[t] :
                 p = <<t, k>> /\ reformat_string(Words(t)[k]) = m
      BY ReadAsIs
    <3>2. pos[t] # 0
      BY <3>1
    <3>3. Words(t) # <<>>
      BY <3>2
    <3> QED BY <3>1, <3>3 DEF Words
  <2> QED BY <2>1 DEF UpTo
<1> QED BY <1>2, <1>8, <1>9 DEF Occurrences

\* For any input, any number of mappers and any schedule: when the program ends
\* the reducer's output is the word count of the input file, unless "splmsg" is a
\* word of it.
THEOREM OutputIsWordCount == WSpec => []CountsCorrect
<1>1. WInit => Hands /\ Counted /\ Answered /\ Order
  BY CountedInit, OrderInit, Cast DEF WInit, Init, Hands, Early
<1>2. Running /\ Hands /\ Counted /\ Answered /\ Order /\ [WNext]_allvars
        => (Hands /\ Counted /\ Answered /\ Order)'
  BY HandsStep, CountedStep, AnsweredStep, OrderStep
<1>3. ASSUME Running, Counted, Order, step = "end", ~ Sentinel PROVE CountsCorrect
  <2>1. /\ reducing = "exit" /\ part = "done"
        /\ \A t \in Mapper : pos[t] = Len(Words(t)) /\ pc[t] = "idle"
    BY <1>3 DEF Running, Calls, After, MapperDone
  <2>2. queue = <<>>
    BY <1>3, <2>1 DEF Order, Got
  <2>3. ASSUME NEW m PROVE Handled(m) = Occurrences(m)
    <3>1. Cardinality(ReadAs(m)) = Occurrences(m)
      BY <1>3, <2>1, AllRead
    <3>2. Sending(m) = {} /\ Received(m) = 0
      BY <2>1 DEF Sending, Received
    <3>3. {k \in DOMAIN queue : queue[k] = m} = {}
      BY <2>2
    <3>4. Count(m, queue) = 0 /\ Cardinality(Sending(m)) = 0
      BY <3>2, <3>3, FS_EmptySet DEF Count
    <3>5. Occurrences(m) \in Nat
      <4>1. Divide!Words(text) \in Seq(Seq(Char))
        BY <1>3, TextType, WordsType DEF Running, Divided
      <4> QED BY <4>1, StringsType, CountType DEF Occurrences
    <3> QED BY <3>1, <3>2, <3>4, <3>5 DEF Handled
  <2>4. \A k \in Message \ Special : counts[k] = Due(k)
    BY <1>3 DEF Counted
  <2> QED BY <2>3, <2>4 DEF CountsCorrect, Due, Tally
<1>4. Running /\ Counted /\ Order => CountsCorrect
  BY <1>3 DEF CountsCorrect
<1> QED BY <1>1, <1>2, <1>4, RunningAlways, PTL DEF WSpec

=============================================================================
