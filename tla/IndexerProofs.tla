---------------------------- MODULE IndexerProofs ----------------------------
(***************************************************************************)
(* Proofs about EventIndexer, for any chains, consents, batch sizes and    *)
(* failures.  The first part is about FlattenSeq, which puts the logs of   *)
(* blocks in a row; the second about the listeners.                        *)
(***************************************************************************)
EXTENDS EventIndexer, SequenceTheorems, WellFoundedInduction, TLAPS

-----------------------------------------------------------------------------
(* Sequences of sequences *)

\* A function on 1..n is a sequence of n elements.
LEMMA FunctionIsSequence ==
  ASSUME NEW S, NEW n \in Nat, NEW f \in [1..n -> S]
  PROVE  f \in Seq(S) /\ Len(f) = n
OBVIOUS

\* What holds of the empty sequence, and of a sequence with one more element if
\* of the sequence, holds of all.
LEMMA SequenceInduction ==
  ASSUME NEW S, NEW B, << >> \in B, \A s \in Seq(S) : \A e \in S : s \in B => Append(s, e) \in B
  PROVE  Seq(S) \subseteq B
<1> SUFFICES ASSUME ~(Seq(S) \subseteq B) PROVE FALSE
  OBVIOUS
<1> DEFINE T == {Len(s) : s \in Seq(S) \ B}
<1>1. T \subseteq Nat /\ T # {}
  <2>1. \A s \in Seq(S) : Len(s) \in Nat
    OBVIOUS
  <2>2. PICK s \in Seq(S) : s \notin B
    OBVIOUS
  <2> QED BY <2>1, <2>2
<1> DEFINE R == OpToRel(<, Nat)
<1>2. IsWellFoundedOn(R, Nat)
  BY NatLessThanWellFounded
<1> HIDE DEF R, T
<1>3. PICK n \in T : \A m \in T : ~(<<m, n>> \in R)
  BY <1>1, <1>2, WFMin
<1>4. \A m \in T : ~(m < n)
  BY <1>1, <1>3 DEF R, OpToRel
<1>5. PICK s \in Seq(S) \ B : n = Len(s)
  BY DEF T
<1>6. s # << >>
  BY <1>5
<1>7. PICK t \in Seq(S), e \in S : s = Append(t, e)
  BY <1>5, <1>6, SequenceEmptyOrAppend
<1>8. t \notin B
  BY <1>5, <1>7
<1>9. Len(t) \in T
  BY <1>8 DEF T
<1>10. Len(t) < Len(s)
  BY <1>7
<1> QED BY <1>4, <1>5, <1>9, <1>10

\* The recursion of FlattenSeq.
IsFlatten(s, n, g) == g = [i \in 1..n |-> IF i = 1 THEN s[i] ELSE g[i - 1] \o s[i]]

\* A recursion for n parts begins as one for m of them, and can be carried on
\* with one more.
LEMMA FlattenMore ==
  ASSUME NEW s, NEW n \in Nat, NEW g, IsFlatten(s, n, g)
  PROVE  \E h : IsFlatten(s, n + 1, h)
<1> DEFINE Next1(f, i) == IF i = 1 THEN s[i] ELSE f[i - 1] \o s[i]
           h == [i \in 1..(n + 1) |-> Next1(g, i)]
<1>1. \A i \in 1..n : g[i] = Next1(g, i)
  BY DEF IsFlatten
<1>2. \A i \in 1..n : h[i] = g[i]
  <2> HIDE DEF Next1
  <2> QED BY <1>1
<1>3. \A i \in 1..(n + 1) : i # 1 => i - 1 \in 1..n
  OBVIOUS
<1>4. \A i \in 1..(n + 1) : Next1(h, i) = Next1(g, i)
  <2> HIDE DEF h
  <2> QED BY <1>2, <1>3
<1>5. h = [i \in 1..(n + 1) |-> Next1(h, i)]
  <2> HIDE DEF Next1
  <2> QED BY <1>4
<1> QED BY <1>5 DEF IsFlatten

\* The recursion is defined for every length.
LEMMA FlattenRuns == ASSUME NEW S, NEW s \in Seq(S) PROVE \E g : IsFlatten(s, Len(s), g)
<1> DEFINE B == {t \in Seq(S) : \E g : IsFlatten(s, Len(t), g)}
<1>1. << >> \in B
  <2> DEFINE g == [i \in 1..0 |-> 0]
  <2>1. g = [i \in 1..0 |-> IF i = 1 THEN s[i] ELSE g[i - 1] \o s[i]]
    OBVIOUS
  <2>2. IsFlatten(s, 0, g)
    BY <2>1 DEF IsFlatten
  <2> HIDE DEF g
  <2> QED BY <2>2
<1>2. ASSUME NEW t \in Seq(S), NEW e \in S, t \in B PROVE Append(t, e) \in B
  <2>1. PICK g : IsFlatten(s, Len(t), g)
    BY <1>2
  <2>2. Len(t) \in Nat /\ Len(Append(t, e)) = Len(t) + 1 /\ Append(t, e) \in Seq(S)
    OBVIOUS
  <2>3. \E h : IsFlatten(s, Len(t) + 1, h)
    BY <2>1, <2>2, FlattenMore
  <2> QED BY <2>2, <2>3
<1> HIDE DEF B
<1>3. s \in B
  BY <1>1, <1>2, SequenceInduction
<1> QED BY <1>3 DEF B

\* The recursion for one part more agrees on the parts that both have.
LEMMA FlattenAgree ==
  ASSUME NEW S, NEW s \in Seq(S), NEW e \in S,
         NEW g, IsFlatten(s, Len(s), g), NEW h, IsFlatten(Append(s, e), Len(s) + 1, h)
  PROVE  \A i \in 1..Len(s) : g[i] = h[i]
<1> DEFINE n == Len(s)
           t == Append(s, e)
<1>0. n \in Nat /\ \A i \in 1..n : s[i] = t[i]
  OBVIOUS
<1> HIDE DEF n, t
<1> SUFFICES ASSUME ~ \A i \in 1..n : g[i] = h[i] PROVE FALSE
  BY DEF n
<1> DEFINE T == {i \in 1..n : g[i] # h[i]}
           R == OpToRel(<, Nat)
<1>1. T \subseteq Nat /\ T # {}
  BY <1>0
<1>2. IsWellFoundedOn(R, Nat)
  BY NatLessThanWellFounded
<1> HIDE DEF R
<1>3. PICK i \in T : \A j \in T : ~(<<j, i>> \in R)
  <2> HIDE DEF T
  <2> QED BY <1>1, <1>2, WFMin
<1>4. \A j \in T : ~(j < i)
  BY <1>1, <1>3 DEF R, OpToRel
<1>5. i \in 1..n /\ i \in 1..(n + 1) /\ g[i] # h[i] /\ (i # 1 => i - 1 \in 1..n /\ i - 1 < i)
  BY <1>0
<1>6. i # 1 => g[i - 1] = h[i - 1]
  BY <1>4, <1>5
<1>7. g[i] = IF i = 1 THEN s[i] ELSE g[i - 1] \o s[i]
  BY <1>5 DEF IsFlatten, n
<1>8. h[i] = IF i = 1 THEN t[i] ELSE h[i - 1] \o t[i]
  BY <1>5 DEF IsFlatten, n, t
<1> QED BY <1>0, <1>5, <1>6, <1>7, <1>8

\* FlattenSeq of nothing, and of one part more.
LEMMA FlattenEmpty == FlattenSeq(<< >>) = << >>
BY DEF FlattenSeq

LEMMA FlattenAppend ==
  ASSUME NEW S, NEW s \in Seq(Seq(S)), NEW e \in Seq(S)
  PROVE  FlattenSeq(Append(s, e)) = IF s = << >> THEN e ELSE FlattenSeq(s) \o e
<1> DEFINE a == Append(s, e)
           n == Len(s)
           F == CHOOSE g : IsFlatten(s, n, g)
           G == CHOOSE g : IsFlatten(a, Len(a), g)
<1>1. n \in Nat /\ (n = 0 <=> s = << >>) /\ a \in Seq(Seq(S)) /\ Len(a) = n + 1
      /\ a[n + 1] = e /\ \A i \in 1..n : a[i] = s[i]
  OBVIOUS
<1>2. IsFlatten(s, n, F)
  BY FlattenRuns
<1>3. IsFlatten(a, n + 1, G)
  BY <1>1, FlattenRuns
<1>4. n # 0 => FlattenSeq(s) = F[n]
  BY DEF FlattenSeq, IsFlatten
<1>5. FlattenSeq(a) = G[n + 1]
  <2>1. FlattenSeq(a) = G[Len(a)]
    <3>1. Len(a) # 0
      BY <1>1
    <3> HIDE DEF a
    <3> QED BY <3>1 DEF FlattenSeq, IsFlatten
  <2> HIDE DEF G, a
  <2> QED BY <1>1, <2>1
<1> HIDE DEF F, G, n, a
<1>6. G[n + 1] = IF n + 1 = 1 THEN a[n + 1] ELSE G[n] \o a[n + 1]
  <2>1. n + 1 \in 1..(n + 1) /\ (n + 1) - 1 = n
    BY <1>1
  <2> QED BY <1>3, <2>1 DEF IsFlatten
<1>7. n # 0 => G[n] = F[n]
  <2>1. \A i \in 1..n : F[i] = G[i]
    <3>1. IsFlatten(Append(s, e), n + 1, G)
      BY <1>1, <1>3 DEF a
    <3> QED BY <1>2, <3>1, FlattenAgree DEF n
  <2> QED BY <1>1, <2>1
<1>8. FlattenSeq(Append(s, e)) = IF n = 0 THEN e ELSE FlattenSeq(s) \o e
  BY <1>1, <1>4, <1>5, <1>6, <1>7 DEF a
<1> QED BY <1>1, <1>8

\* The parts of a sequence in a row are one sequence, and one part more comes last.
LEMMA FlattenType ==
  ASSUME NEW S, NEW s \in Seq(Seq(S))
  PROVE  FlattenSeq(s) \in Seq(S)
<1> DEFINE B == {t \in Seq(Seq(S)) : FlattenSeq(t) \in Seq(S)}
<1>1. << >> \in B
  <2>1. << >> \in Seq(S) /\ << >> \in Seq(Seq(S))
    BY EmptySeq
  <2> QED BY <2>1, FlattenEmpty
<1>2. ASSUME NEW t \in Seq(Seq(S)), NEW e \in Seq(S), t \in B PROVE Append(t, e) \in B
  <2>1. FlattenSeq(Append(t, e)) = IF t = << >> THEN e ELSE FlattenSeq(t) \o e
    BY FlattenAppend
  <2>2. FlattenSeq(t) \in Seq(S)
    BY <1>2
  <2>3. FlattenSeq(t) \o e \in Seq(S)
    BY <2>2, ConcatProperties
  <2>4. Append(t, e) \in Seq(Seq(S))
    BY AppendProperties
  <2> QED BY <2>1, <2>3, <2>4
<1> HIDE DEF B
<1>3. s \in B
  BY <1>1, <1>2, SequenceInduction
<1> QED BY <1>3 DEF B

LEMMA FlattenPush ==
  ASSUME NEW S, NEW s \in Seq(Seq(S)), NEW e \in Seq(S)
  PROVE  FlattenSeq(Append(s, e)) = FlattenSeq(s) \o e
<1>1. FlattenSeq(Append(s, e)) = IF s = << >> THEN e ELSE FlattenSeq(s) \o e
  BY FlattenAppend
<1>2. << >> \o e = e
  BY ConcatEmptySeq
<1> QED BY <1>1, <1>2, FlattenEmpty

LEMMA FlattenOne == ASSUME NEW S, NEW e \in Seq(S) PROVE FlattenSeq(<<e>>) = e
<1>1. << >> \in Seq(Seq(S)) /\ Append(<< >>, e) = <<e>> /\ << >> \o e = e
  BY ConcatEmptySeq
<1> QED BY <1>1, FlattenPush, FlattenEmpty

\* Two rows of parts after each other.
LEMMA FlattenConcat ==
  ASSUME NEW S, NEW s \in Seq(Seq(S)), NEW t \in Seq(Seq(S))
  PROVE  FlattenSeq(s \o t) = FlattenSeq(s) \o FlattenSeq(t)
<1> DEFINE B == {u \in Seq(Seq(S)) : FlattenSeq(s \o u) = FlattenSeq(s) \o FlattenSeq(u)}
<1>1. << >> \in B
  <2>1. s \o << >> = s
    BY ConcatEmptySeq
  <2>2. FlattenSeq(s) \o << >> = FlattenSeq(s)
    BY FlattenType, ConcatEmptySeq
  <2>3. << >> \in Seq(Seq(S))
    BY EmptySeq
  <2>4. FlattenSeq(s \o << >>) = FlattenSeq(s) \o FlattenSeq(<< >>)
    BY <2>1, <2>2, FlattenEmpty
  <2> QED BY <2>3, <2>4
<1>2. ASSUME NEW u \in Seq(Seq(S)), NEW e \in Seq(S), u \in B PROVE Append(u, e) \in B
  <2>1. /\ FlattenSeq(s) \in Seq(S) /\ FlattenSeq(u) \in Seq(S)
        /\ s \o u \in Seq(Seq(S)) /\ Append(u, e) \in Seq(Seq(S))
    BY FlattenType, ConcatProperties, AppendProperties
  <2>2. s \o Append(u, e) = Append(s \o u, e)
    OBVIOUS
  <2>3. FlattenSeq(Append(s \o u, e)) = FlattenSeq(s \o u) \o e
    BY <2>1, FlattenPush
  <2>4. FlattenSeq(Append(u, e)) = FlattenSeq(u) \o e
    BY FlattenPush
  <2>5. (FlattenSeq(s) \o FlattenSeq(u)) \o e = FlattenSeq(s) \o (FlattenSeq(u) \o e)
    <3>1. e \in Seq(S)
      BY <1>2
    <3> QED BY <2>1, <3>1, ConcatAssociative, SMTT(40)
  <2>6. FlattenSeq(s \o u) = FlattenSeq(s) \o FlattenSeq(u)
    BY <1>2
  <2>7. FlattenSeq(s \o Append(u, e)) = FlattenSeq(s) \o FlattenSeq(Append(u, e))
    BY <2>2, <2>3, <2>4, <2>5, <2>6
  <2> QED BY <2>1, <2>7
<1> HIDE DEF B
<1>3. t \in B
  BY <1>1, <1>2, SequenceInduction
<1> QED BY <1>3 DEF B

\* Empty parts add nothing.
LEMMA FlattenNothing ==
  ASSUME NEW S, NEW s \in Seq(Seq(S)), \A i \in 1..Len(s) : s[i] = << >>
  PROVE  FlattenSeq(s) = << >>
<1> DEFINE B == {t \in Seq(Seq(S)) : (\A i \in 1..Len(t) : t[i] = << >>) => FlattenSeq(t) = << >>}
<1>1. << >> \in B
  BY FlattenEmpty
<1>2. ASSUME NEW t \in Seq(Seq(S)), NEW e \in Seq(S), t \in B PROVE Append(t, e) \in B
  <2>1. ASSUME \A i \in 1..Len(Append(t, e)) : Append(t, e)[i] = << >>
        PROVE  FlattenSeq(Append(t, e)) = << >>
    <3>1. /\ Len(t) \in Nat /\ Len(Append(t, e)) = Len(t) + 1
          /\ Append(t, e)[Len(t) + 1] = e
          /\ \A i \in 1..Len(t) : Append(t, e)[i] = t[i]
      OBVIOUS
    <3>2. e = << >> /\ \A i \in 1..Len(t) : t[i] = << >>
      BY <2>1, <3>1
    <3>3. FlattenSeq(t) = << >>
      BY <1>2, <3>2
    <3>4. << >> \o << >> = << >>
      OBVIOUS
    <3> QED BY <3>2, <3>3, <3>4, FlattenPush
  <2> QED BY <2>1, AppendProperties
<1> HIDE DEF B
<1>3. s \in B
  BY <1>1, <1>2, SequenceInduction
<1> QED BY <1>3 DEF B

\* Nor do empty parts at the end.
LEMMA FlattenPadded ==
  ASSUME NEW S, NEW s \in Seq(Seq(S)), NEW k \in 0..Len(s),
         \A i \in (k + 1)..Len(s) : s[i] = << >>
  PROVE  FlattenSeq(s) = FlattenSeq(SubSeq(s, 1, k))
<1> DEFINE head == SubSeq(s, 1, k)
           tail == SubSeq(s, k + 1, Len(s))
<1>1. Len(s) \in Nat /\ k \in Nat /\ k <= Len(s)
  OBVIOUS
<1>2. head \in Seq(Seq(S)) /\ tail \in Seq(Seq(S))
  <2>1. \A i \in 1..k : s[i] \in Seq(S)
    BY <1>1, ElementOfSeq
  <2>2. \A i \in (k + 1)..Len(s) : s[i] \in Seq(S)
    BY <1>1, ElementOfSeq
  <2> QED BY <1>1, <2>1, <2>2, SubSeqProperties
<1>3. s = head \o tail
  <2>1. 1 \in 1..(Len(s) + 1) /\ k \in (1 - 1)..Len(s) /\ Len(s) \in k..Len(s)
    BY <1>1
  <2>2. head \o tail = SubSeq(s, 1, Len(s))
    BY <2>1, ConcatAdjacentSubSeq
  <2> QED BY <2>2, SubSeqFull
<1>4. \A i \in 1..Len(tail) : tail[i] = << >>
  <2>1. \A i \in (k + 1)..Len(s) : s[i] \in Seq(S)
    BY <1>1, ElementOfSeq
  <2>2. /\ Len(tail) = IF k + 1 <= Len(s) THEN Len(s) - (k + 1) + 1 ELSE 0
        /\ \A i \in 1..(Len(s) - (k + 1) + 1) : tail[i] = s[(k + 1) + i - 1]
    BY <1>1, <2>1, SubSeqProperties
  <2>3. \A i \in 1..Len(tail) : i \in 1..(Len(s) - (k + 1) + 1) /\ (k + 1) + i - 1 \in (k + 1)..Len(s)
    <3> HIDE DEF tail
    <3> QED BY <1>1, <2>2
  <2> HIDE DEF tail
  <2> QED BY <2>2, <2>3
<1> HIDE DEF head, tail
<1>5. FlattenSeq(tail) = << >>
  BY <1>2, <1>4, FlattenNothing
<1>6. FlattenSeq(s) = FlattenSeq(head) \o << >>
  BY <1>2, <1>3, <1>5, FlattenConcat
<1>7. FlattenSeq(head) \o << >> = FlattenSeq(head)
  BY <1>2, FlattenType, ConcatEmptySeq
<1> QED BY <1>6, <1>7 DEF head

-----------------------------------------------------------------------------
(* The logs that the query matches *)

\* What a run whose first lastBlock is s has read of the blocks up to r, without
\* those that were lost.
Read(blocks, s, r, l) ==
  [b \in 1..Len(blocks) |->
     IF b > s /\ b <= r /\ b \notin l THEN matching(blocks[b]) ELSE << >>]

\* What the query matches in each block.
Matched(blocks) == [b \in DOMAIN blocks |-> matching(blocks[b])]

LEMMA MatchingType == ASSUME NEW block \in Seq(Log) PROVE matching(block) \in Seq(Log)
<1> DEFINE m == [i \in DOMAIN block |->
                   IF Emitted[block[i].event] \in Watched THEN <<block[i]>> ELSE << >>]
<1>1. Len(block) \in Nat /\ DOMAIN block = 1..Len(block) /\ \A i \in 1..Len(block) : block[i] \in Log
  BY LenProperties, ElementOfSeq
<1>2. \A i \in 1..Len(block) : m[i] \in Seq(Log)
  BY <1>1
<1>3. m \in Seq(Seq(Log))
  <2>1. m \in [1..Len(block) -> Seq(Log)]
    BY <1>1, <1>2
  <2> HIDE DEF m
  <2> QED BY <1>1, <2>1, FunctionIsSequence
<1> HIDE DEF m
<1>4. FlattenSeq(m) \in Seq(Log)
  BY <1>3, FlattenType
<1> QED BY <1>4 DEF matching, m

LEMMA MatchedType ==
  ASSUME NEW blocks \in Seq(Seq(Log))
  PROVE  /\ Len(blocks) \in Nat /\ DOMAIN blocks = 1..Len(blocks)
         /\ \A b \in 1..Len(blocks) : matching(blocks[b]) \in Seq(Log)
         /\ Matched(blocks) \in Seq(Seq(Log)) /\ Len(Matched(blocks)) = Len(blocks)
<1>1. Len(blocks) \in Nat /\ DOMAIN blocks = 1..Len(blocks)
  BY LenProperties
<1>2. \A b \in 1..Len(blocks) : matching(blocks[b]) \in Seq(Log)
  BY <1>1, ElementOfSeq, MatchingType
<1>3. Matched(blocks) \in [1..Len(blocks) -> Seq(Log)]
  BY <1>1, <1>2 DEF Matched
<1>4. Matched(blocks) \in Seq(Seq(Log))
  BY <1>1, <1>3, FunctionIsSequence
<1>5. Len(Matched(blocks)) = Len(blocks)
  BY <1>1, <1>3, FunctionIsSequence
<1> QED BY <1>1, <1>2, <1>4, <1>5

LEMMA ReadType ==
  ASSUME NEW blocks \in Seq(Seq(Log)), NEW s, NEW r, NEW l
  PROVE  Read(blocks, s, r, l) \in Seq(Seq(Log)) /\ Len(Read(blocks, s, r, l)) = Len(blocks)
<1> DEFINE q == Read(blocks, s, r, l)
<1>1. Len(blocks) \in Nat /\ \A b \in 1..Len(blocks) : matching(blocks[b]) \in Seq(Log)
  BY MatchedType
<1>2. q \in [1..Len(blocks) -> Seq(Log)]
  BY <1>1 DEF Read
<1> HIDE DEF q
<1>3. q \in Seq(Seq(Log)) /\ Len(q) = Len(blocks)
  BY <1>1, <1>2, FunctionIsSequence
<1> QED BY <1>3 DEF q

\* A run that has just begun has read nothing.
LEMMA ReadNone ==
  ASSUME NEW blocks \in Seq(Seq(Log)), NEW s \in Nat, NEW l
  PROVE  FlattenSeq(Read(blocks, s, s, l)) = << >>
<1>1. Len(blocks) \in Nat
  BY MatchedType
<1>2. \A b \in 1..Len(blocks) : Read(blocks, s, s, l)[b] = << >>
  BY <1>1 DEF Read
<1> QED BY <1>2, ReadType, FlattenNothing

\* A block that is mined above what was read, or below the start, changes nothing.
LEMMA ReadMined ==
  ASSUME NEW blocks \in Seq(Seq(Log)), NEW x \in Seq(Log), NEW s \in Nat, NEW r \in Nat, NEW l,
         r <= Len(blocks) \/ r <= s
  PROVE  FlattenSeq(Read(Append(blocks, x), s, r, l)) = FlattenSeq(Read(blocks, s, r, l))
<1> DEFINE more == Append(blocks, x)
           n == Len(blocks)
           q == Read(blocks, s, r, l)
           p == Read(more, s, r, l)
<1>1. /\ n \in Nat /\ more \in Seq(Seq(Log)) /\ Len(more) = n + 1
      /\ \A b \in 1..n : more[b] = blocks[b]
  OBVIOUS
<1> HIDE DEF more
<1>2. /\ q \in Seq(Seq(Log)) /\ Len(q) = n
      /\ p \in Seq(Seq(Log)) /\ Len(p) = n + 1
  BY <1>1, ReadType
<1>3. \A b \in 1..n : p[b] = q[b]
  BY <1>1 DEF Read
<1>4. p[n + 1] = << >>
  <2>1. n + 1 \in 1..(n + 1) /\ ~(n + 1 > s /\ n + 1 <= r)
    BY <1>1
  <2> QED BY <1>1, <2>1 DEF Read
<1> HIDE DEF p, q
<1>5. << >> \in Seq(Log)
  BY EmptySeq
<1>6. p = Append(q, << >>)
  <2>1. /\ Append(q, << >>) \in Seq(Seq(Log)) /\ Len(Append(q, << >>)) = n + 1
        /\ Append(q, << >>)[n + 1] = << >> /\ \A b \in 1..n : Append(q, << >>)[b] = q[b]
    BY <1>2, <1>5, AppendProperties
  <2>2. \A b \in 1..(n + 1) : b \in 1..n \/ b = n + 1
    BY <1>1
  <2>3. \A b \in 1..Len(p) : p[b] = Append(q, << >>)[b]
    BY <1>2, <1>3, <1>4, <2>1, <2>2
  <2> QED BY <1>2, <2>1, <2>3, SeqEqual
<1>7. FlattenSeq(p) = FlattenSeq(q) \o << >>
  BY <1>2, <1>5, <1>6, FlattenPush
<1>8. FlattenSeq(q) \o << >> = FlattenSeq(q)
  BY <1>2, FlattenType, ConcatEmptySeq
<1> QED BY <1>7, <1>8 DEF p, q, more

\* Blocks whose FilterLogs failed count as read, and give nothing.
LEMMA ReadSkips ==
  ASSUME NEW blocks \in Seq(Seq(Log)), NEW s \in Nat, NEW t \in Nat,
         NEW r \in Int, r <= t, NEW l \in SUBSET (0..r)
  PROVE  Read(blocks, s, t, l \cup ((r + 1)..t)) = Read(blocks, s, r, l)
<1>1. Len(blocks) \in Nat
  BY MatchedType
<1>2. ASSUME NEW b \in 1..Len(blocks)
      PROVE  b <= t /\ b \notin (l \cup ((r + 1)..t)) <=> b <= r /\ b \notin l
  BY <1>1
<1> QED BY <1>2 DEF Read

\* The next batch comes after what was read.
LEMMA ReadBatch ==
  ASSUME NEW blocks \in Seq(Seq(Log)), NEW s \in Nat, NEW f \in Nat, NEW t \in Nat,
         s < f, f <= t, t <= Len(blocks),
         NEW l, \A b \in l : b \in Nat /\ b < f
  PROVE  FlattenSeq(Read(blocks, s, t, l)) =
           FlattenSeq(Read(blocks, s, f - 1, l)) \o FlattenSeq(Matched(SubSeq(blocks, f, t)))
<1> DEFINE n == Len(blocks)
           p == Read(blocks, s, t, l)
           q == Read(blocks, s, f - 1, l)
           batch == SubSeq(blocks, f, t)
           head == SubSeq(p, 1, f - 1)
           tail == SubSeq(p, f, t)
<1>1. /\ n \in Nat /\ f - 1 \in 0..n /\ t \in 0..n /\ f \in 1..n /\ t - f + 1 \in Nat
      /\ f <= n
  BY MatchedType
<1>2. /\ p \in Seq(Seq(Log)) /\ Len(p) = n
      /\ q \in Seq(Seq(Log)) /\ Len(q) = n
  BY ReadType
<1>3. batch \in Seq(Seq(Log)) /\ Len(batch) = t - f + 1 /\ \A i \in 1..(t - f + 1) : batch[i] = blocks[f + i - 1]
  <2>1. \A i \in f..t : i \in 1..n
    BY <1>1
  <2>2. \A i \in f..t : blocks[i] \in Seq(Log)
    BY <2>1, ElementOfSeq
  <2> QED BY <1>1, <2>2, SubSeqProperties
<1>4. \A i \in 1..(f - 1) : p[i] = q[i]
  <2>1. \A i \in 1..(f - 1) : i \in 1..n /\ i <= t /\ i <= f - 1
    BY <1>1
  <2> QED BY <2>1 DEF Read
<1>5. \A i \in f..n : q[i] = << >>
  BY <1>1 DEF Read
<1>6. \A i \in (t + 1)..n : p[i] = << >>
  BY <1>1 DEF Read
<1>7. \A i \in 1..(t - f + 1) : p[f + i - 1] = matching(batch[i])
  <2>1. ASSUME NEW i \in 1..(t - f + 1)
        PROVE  f + i - 1 \in 1..n /\ f + i - 1 > s /\ f + i - 1 <= t /\ f + i - 1 >= f
    BY <1>1
  <2>2. \A i \in 1..(t - f + 1) : f + i - 1 \notin l
    BY <2>1
  <2> HIDE DEF batch
  <2> QED BY <1>3, <2>1, <2>2 DEF Read
<1> HIDE DEF p, q, batch, n
<1>8. /\ head \in Seq(Seq(Log)) /\ Len(head) = f - 1 /\ \A i \in 1..(f - 1) : head[i] = p[i]
      /\ tail \in Seq(Seq(Log)) /\ Len(tail) = t - f + 1 /\ \A i \in 1..(t - f + 1) : tail[i] = p[f + i - 1]
  <2>1. (\A i \in f..t : i \in 1..n) /\ (\A i \in 1..(f - 1) : i \in 1..n)
    BY <1>1
  <2>2. \A i \in 1..n : p[i] \in Seq(Log)
    BY <1>2, ElementOfSeq
  <2>3. /\ head \in Seq(Seq(Log)) /\ Len(head) = (IF 1 <= f - 1 THEN (f - 1) - 1 + 1 ELSE 0)
        /\ \A i \in 1..((f - 1) - 1 + 1) : head[i] = p[1 + i - 1]
    BY <1>1, <2>1, <2>2, SubSeqProperties
  <2>4. /\ tail \in Seq(Seq(Log)) /\ Len(tail) = (IF f <= t THEN t - f + 1 ELSE 0)
        /\ \A i \in 1..(t - f + 1) : tail[i] = p[f + i - 1]
    BY <1>1, <2>1, <2>2, SubSeqProperties
  <2> HIDE DEF head, tail
  <2>5. Len(head) = f - 1 /\ \A i \in 1..(f - 1) : i \in 1..((f - 1) - 1 + 1) /\ 1 + i - 1 = i
    BY <1>1, <2>3
  <2> QED BY <2>3, <2>4, <2>5
<1>9. head = SubSeq(q, 1, f - 1)
  <2>1. \A i \in 1..(f - 1) : q[i] \in Seq(Log) /\ i \in 1..n
    <3>1. \A i \in 1..(f - 1) : i \in 1..n
      BY <1>1
    <3> QED BY <1>2, <3>1, ElementOfSeq
  <2>2. /\ SubSeq(q, 1, f - 1) \in Seq(Seq(Log))
        /\ Len(SubSeq(q, 1, f - 1)) = (IF 1 <= f - 1 THEN (f - 1) - 1 + 1 ELSE 0)
        /\ \A i \in 1..((f - 1) - 1 + 1) : SubSeq(q, 1, f - 1)[i] = q[1 + i - 1]
    BY <1>1, <2>1, SubSeqProperties
  <2>3. Len(SubSeq(q, 1, f - 1)) = f - 1 /\ \A i \in 1..(f - 1) : i \in 1..((f - 1) - 1 + 1) /\ 1 + i - 1 = i
    BY <1>1, <2>2
  <2> HIDE DEF head
  <2>4. \A i \in 1..Len(head) : head[i] = SubSeq(q, 1, f - 1)[i]
    BY <1>4, <1>8, <2>2, <2>3
  <2> QED BY <1>8, <2>2, <2>3, <2>4, SeqEqual
<1>10. tail = Matched(batch)
  <2>1. /\ Matched(batch) \in Seq(Seq(Log)) /\ Len(Matched(batch)) = t - f + 1
        /\ DOMAIN batch = 1..(t - f + 1)
    BY <1>3, MatchedType
  <2>2. \A i \in 1..(t - f + 1) : Matched(batch)[i] = matching(batch[i])
    BY <2>1 DEF Matched
  <2> HIDE DEF tail
  <2>3. \A i \in 1..Len(tail) : tail[i] = Matched(batch)[i]
    BY <1>7, <1>8, <2>2
  <2> QED BY <1>8, <2>1, <2>3, SeqEqual
<1>11. FlattenSeq(p) = FlattenSeq(SubSeq(p, 1, t))
  BY <1>1, <1>2, <1>6, FlattenPadded
<1>12. SubSeq(p, 1, t) = head \o tail
  <2>1. 1 \in 1..(Len(p) + 1) /\ f - 1 \in (1 - 1)..Len(p) /\ t \in (f - 1)..Len(p) /\ (f - 1) + 1 = f
    BY <1>1, <1>2
  <2>2. SubSeq(p, 1, f - 1) \o SubSeq(p, (f - 1) + 1, t) = SubSeq(p, 1, t)
    BY <1>2, <2>1, ConcatAdjacentSubSeq
  <2> QED BY <2>1, <2>2
<1>13. FlattenSeq(q) = FlattenSeq(SubSeq(q, 1, f - 1))
  <2>1. \A i \in ((f - 1) + 1)..Len(q) : q[i] = << >>
    BY <1>1, <1>2, <1>5
  <2> QED BY <1>1, <1>2, <2>1, FlattenPadded
<1> HIDE DEF head, tail
<1>14. FlattenSeq(head \o tail) = FlattenSeq(head) \o FlattenSeq(tail)
  BY <1>8, FlattenConcat
<1>15. FlattenSeq(p) = FlattenSeq(q) \o FlattenSeq(Matched(batch))
  BY <1>9, <1>10, <1>11, <1>12, <1>13, <1>14
<1> QED BY <1>15 DEF p, q, batch

-----------------------------------------------------------------------------
(* The invariant *)

Types ==
  /\ chain \in [Chain -> Seq(Seq(Log))]
  /\ up \in BOOLEAN /\ redis \in BOOLEAN
  /\ starts \in 0..MaxStarts /\ backfill \in Nat
  /\ pc \in [Chain -> {"off", "connect", "poll", "filter", "process", "gone", "hung", "stuck"}]
  /\ lastBlock \in [Chain -> Nat] /\ from \in [Chain -> Nat] /\ toBlock \in [Chain -> Nat]
  /\ start \in [Chain -> Nat]
  /\ logs \in [Chain -> Seq(Log)] /\ processed \in [Chain -> Seq(Log)]
  /\ cache \in [Chain -> SUBSET Consent]
  /\ lost \in [Chain -> SUBSET Nat]
  /\ failed \subseteq Chain

\* Where a listener is: above its start, in a range that ends at or below the
\* head of the chain, and past the blocks it lost.  Only the first lastBlock may
\* be above the head (BackfillFromBlock).
Place(ch) ==
  /\ pc[ch] # "off" => up
  /\ pc[ch] \in {"off", "connect"} => processed[ch] = << >> /\ lost[ch] = {}
  /\ pc[ch] = "poll" =>
       /\ start[ch] <= lastBlock[ch]
       /\ lastBlock[ch] <= Len(chain[ch]) \/ lastBlock[ch] <= start[ch]
       /\ \A b \in lost[ch] : b <= lastBlock[ch]
  /\ pc[ch] \in {"filter", "process"} =>
       /\ start[ch] <= lastBlock[ch] /\ lastBlock[ch] < from[ch]
       /\ from[ch] <= toBlock[ch] /\ toBlock[ch] <= Len(chain[ch])
       /\ \A b \in lost[ch] : b < from[ch]
  /\ pc[ch] = "process" => logs[ch] # << >>

\* The logs a listener has fetched and not applied yet.
Pending(ch) == IF pc[ch] = "process" THEN logs[ch] ELSE << >>

Reads(ch) ==
  Listening(ch) => processed[ch] \o Pending(ch) =
                     FlattenSeq(Read(chain[ch], start[ch], Reached(ch), lost[ch]))

IndexerInv == Types /\ \A ch \in Chain : Place(ch) /\ Reads(ch)

LEMMA ReachedIs ==
  ASSUME NEW ch
  PROVE  /\ pc[ch] = "poll" => Reached(ch) = lastBlock[ch]
         /\ pc[ch] = "filter" => Reached(ch) = from[ch] - 1
         /\ pc[ch] = "process" => Reached(ch) = To(ch)
BY DEF Reached

LEMMA ReachedWillBe ==
  ASSUME NEW ch
  PROVE  /\ pc'[ch] = "poll" => Reached(ch)' = lastBlock'[ch]
         /\ pc'[ch] = "filter" => Reached(ch)' = from'[ch] - 1
         /\ pc'[ch] = "process" => Reached(ch)' = To(ch)'
BY DEF Reached

\* A batch is not empty and ends in the range.
LEMMA BatchEnd ==
  ASSUME Types, NEW ch \in Chain, from[ch] <= toBlock[ch]
  PROVE  /\ To(ch) \in Nat /\ from[ch] <= To(ch) /\ To(ch) <= toBlock[ch]
         /\ batchSize \in Nat \ {0}
         /\ from[ch] + batchSize <= toBlock[ch] => To(ch) = from[ch] + batchSize - 1
         /\ ~(from[ch] + batchSize <= toBlock[ch]) => To(ch) = toBlock[ch]
<1>1. batchSize \in Nat \ {0}
  BY IndexerAssumption DEF batchSize
<1>2. from[ch] \in Nat /\ toBlock[ch] \in Nat
  BY DEF Types
<1> QED BY <1>1, <1>2 DEF To

\* A listener whose own state did not change is where it was, whatever is mined.
LEMMA Untouched ==
  ASSUME Types, NEW ch \in Chain, Place(ch), Reads(ch),
         chain'[ch] = chain[ch], up' = up, backfill' = backfill, pc'[ch] = pc[ch],
         lastBlock'[ch] = lastBlock[ch], from'[ch] = from[ch], toBlock'[ch] = toBlock[ch],
         logs'[ch] = logs[ch], start'[ch] = start[ch], processed'[ch] = processed[ch],
         lost'[ch] = lost[ch]
  PROVE  Place(ch)' /\ Reads(ch)'
<1>1. Place(ch)'
  BY DEF Place
<1>2. Reached(ch)' = Reached(ch)
  BY DEF Reached, To, batchSize
<1>3. Listening(ch)' = Listening(ch) /\ Pending(ch)' = Pending(ch)
  BY DEF Listening, Pending
<1>4. Reads(ch)'
  BY <1>2, <1>3 DEF Reads
<1> QED BY <1>1, <1>4

\* A listener that does not listen has nothing to show.
LEMMA Idle ==
  ASSUME NEW ch, pc'[ch] \in {"off", "connect", "gone", "hung", "stuck"}
  PROVE  Reads(ch)'
BY DEF Reads, Listening

\* Only the listener ch moves in one of its steps.
Moves(ch) ==
  /\ UNCHANGED <<chain, up, starts, backfill, redis>>
  /\ \A o \in Chain : o # ch =>
       /\ pc'[o] = pc[o] /\ lastBlock'[o] = lastBlock[o] /\ from'[o] = from[o]
       /\ toBlock'[o] = toBlock[o] /\ logs'[o] = logs[o] /\ start'[o] = start[o]
       /\ processed'[o] = processed[o] /\ lost'[o] = lost[o]

LEMMA OthersStay ==
  ASSUME IndexerInv, NEW ch \in Chain, Moves(ch), Types', Place(ch)', Reads(ch)'
  PROVE  IndexerInv'
<1>1. ASSUME NEW o \in Chain, o # ch PROVE Place(o)' /\ Reads(o)'
  BY <1>1, Untouched DEF IndexerInv, Moves
<1> QED BY <1>1 DEF IndexerInv

\* The end of the body of the batch loop: the run has passed the batch.
LEMMA BatchEnds ==
  ASSUME Types, NEW ch \in Chain, Place(ch), pc[ch] \in {"filter", "process"}, NextBatch(ch),
         UNCHANGED <<toBlock, backfill>>
  PROVE  /\ pc' \in [Chain -> {"off", "connect", "poll", "filter", "process", "gone", "hung", "stuck"}]
         /\ lastBlock' \in [Chain -> Nat] /\ from' \in [Chain -> Nat]
         /\ \A o \in Chain : o # ch =>
              pc'[o] = pc[o] /\ lastBlock'[o] = lastBlock[o] /\ from'[o] = from[o]
         /\ \/ /\ pc'[ch] = "filter" /\ lastBlock'[ch] = lastBlock[ch]
               /\ from'[ch] = To(ch) + 1 /\ from'[ch] <= toBlock[ch]
            \/ pc'[ch] = "poll" /\ lastBlock'[ch] = To(ch) /\ To(ch) = toBlock[ch]
         /\ Reached(ch)' = To(ch)
<1>1. /\ from[ch] \in Nat /\ toBlock[ch] \in Nat /\ from[ch] <= toBlock[ch]
      /\ pc \in [Chain -> {"off", "connect", "poll", "filter", "process", "gone", "hung", "stuck"}]
      /\ lastBlock \in [Chain -> Nat] /\ from \in [Chain -> Nat]
  BY DEF Place, Types
<1>2. /\ To(ch) \in Nat /\ batchSize \in Nat \ {0}
      /\ from[ch] + batchSize <= toBlock[ch] => To(ch) = from[ch] + batchSize - 1
      /\ ~(from[ch] + batchSize <= toBlock[ch]) => To(ch) = toBlock[ch]
  BY <1>1, BatchEnd
<1>3. CASE from[ch] + batchSize <= toBlock[ch]
  <2>1. /\ from' = [from EXCEPT ![ch] = from[ch] + batchSize]
        /\ pc' = [pc EXCEPT ![ch] = "filter"] /\ lastBlock' = lastBlock
    BY <1>3 DEF NextBatch
  <2>2. from[ch] + batchSize = To(ch) + 1 /\ from[ch] + batchSize \in Nat
    BY <1>1, <1>2, <1>3
  <2>3. pc'[ch] = "filter" /\ from'[ch] = To(ch) + 1
    BY <1>1, <2>1, <2>2
  <2>4. Reached(ch)' = To(ch)
    BY <1>2, <2>3, ReachedWillBe
  <2> QED BY <1>1, <1>3, <2>1, <2>2, <2>3, <2>4
<1>4. CASE ~(from[ch] + batchSize <= toBlock[ch])
  <2>1. /\ lastBlock' = [lastBlock EXCEPT ![ch] = toBlock[ch]]
        /\ pc' = [pc EXCEPT ![ch] = "poll"] /\ from' = from
    BY <1>4 DEF NextBatch
  <2>2. pc'[ch] = "poll" /\ lastBlock'[ch] = toBlock[ch]
    BY <1>1, <2>1
  <2>3. Reached(ch)' = To(ch)
    BY <1>2, <1>4, <2>2, ReachedWillBe
  <2> QED BY <1>1, <1>2, <1>4, <2>1, <2>2, <2>3
<1> QED BY <1>3, <1>4

-----------------------------------------------------------------------------
(* The steps *)

LEMMA IndexerInvInit == Init => IndexerInv
<1> SUFFICES ASSUME Init PROVE IndexerInv
  OBVIOUS
<1>1. << >> \in Seq(Seq(Log)) /\ << >> \in Seq(Log)
  BY EmptySeq
<1>2. Types
  <2>1. chain \in [Chain -> Seq(Seq(Log))]
    BY <1>1 DEF Init
  <2>2. logs \in [Chain -> Seq(Log)] /\ processed \in [Chain -> Seq(Log)]
    BY <1>1 DEF Init
  <2>3. /\ up \in BOOLEAN /\ redis \in BOOLEAN /\ backfill \in Nat
        /\ starts \in 0..MaxStarts /\ failed \subseteq Chain
    <3>1. MaxStarts \in Nat
      BY IndexerAssumption
    <3>2. 0 \in 0..MaxStarts
      BY <3>1
    <3> QED BY <3>2 DEF Init
  <2>4. /\ pc \in [Chain -> {"off", "connect", "poll", "filter", "process", "gone", "hung", "stuck"}]
        /\ lastBlock \in [Chain -> Nat] /\ from \in [Chain -> Nat] /\ toBlock \in [Chain -> Nat]
        /\ start \in [Chain -> Nat]
    BY DEF Init
  <2>5. cache \in [Chain -> SUBSET Consent] /\ lost \in [Chain -> SUBSET Nat]
    <3>1. {} \in SUBSET Consent /\ {} \in SUBSET Nat
      OBVIOUS
    <3> QED BY <3>1 DEF Init
  <2> QED BY <2>1, <2>2, <2>3, <2>4, <2>5 DEF Types
<1>3. ASSUME NEW ch \in Chain PROVE pc[ch] = "off" /\ processed[ch] = << >> /\ lost[ch] = {}
  BY DEF Init
<1> QED BY <1>2, <1>3 DEF IndexerInv, Place, Reads, Listening

\* A block of registrations and revocations comes on top of a chain.
LEMMA IndexerInvMine ==
  ASSUME IndexerInv, NEW ch \in Chain, Mine(ch)
  PROVE  IndexerInv'
<1>1. PICK b \in Blocks(ch) : chain' = [chain EXCEPT ![ch] = Append(@, b)]
  BY DEF Mine
<1>2. UNCHANGED <<up, starts, backfill, redis, pc, lastBlock, from, toBlock, logs, cache,
                  start, processed, lost, failed>>
  BY DEF Mine, locals, history
<1>3. b \in Seq(Log)
  <2>1. << >> \in Seq(Log)
    BY EmptySeq
  <2>2. ASSUME NEW c \in Consent
        PROVE  /\ <<[event |-> "ConsentRegistered", id |-> c]>> \in Seq(Log)
               /\ <<[event |-> "ConsentRevoked", id |-> c]>> \in Seq(Log)
               /\ <<[event |-> "ConsentRegistered", id |-> c],
                    [event |-> "ConsentRevoked", id |-> c]>> \in Seq(Log)
    <3>1. [event |-> "ConsentRegistered", id |-> c] \in Log /\ [event |-> "ConsentRevoked", id |-> c] \in Log
      BY DEF Log, Kind
    <3> QED BY <3>1
  <2> QED BY <2>1, <2>2 DEF Blocks
<1>4. Types
  BY DEF IndexerInv
<1>5. chain[ch] \in Seq(Seq(Log)) /\ chain'[ch] = Append(chain[ch], b) /\ Append(chain[ch], b) \in Seq(Seq(Log))
  BY <1>1, <1>3, <1>4, AppendProperties DEF Types
<1>6. Types'
  <2>1. chain' \in [Chain -> Seq(Seq(Log))]
    BY <1>1, <1>4, <1>5 DEF Types
  <2> QED BY <1>2, <1>4, <2>1 DEF Types
<1>7. Len(chain[ch]) \in Nat /\ Len(chain'[ch]) = Len(chain[ch]) + 1
  BY <1>3, <1>5, AppendProperties, LenProperties
<1>8. Place(ch)'
  <2>1. /\ Place(ch) /\ lastBlock[ch] \in Nat /\ toBlock[ch] \in Nat /\ from[ch] \in Nat /\ start[ch] \in Nat
    BY <1>4 DEF IndexerInv, Types
  <2> QED BY <1>2, <1>7, <2>1 DEF Place
<1>9. Reads(ch)'
  <2> SUFFICES ASSUME Listening(ch) PROVE Reads(ch)'
    BY <1>2 DEF Reads, Listening
  <2>1. Reached(ch)' = Reached(ch) /\ Pending(ch)' = Pending(ch)
    BY <1>2 DEF Reached, To, batchSize, Pending
  <2>2. /\ Reached(ch) \in Nat /\ start[ch] \in Nat
        /\ Reached(ch) <= Len(chain[ch]) \/ Reached(ch) <= start[ch]
    <3>1. Place(ch) /\ lastBlock[ch] \in Nat /\ toBlock[ch] \in Nat /\ from[ch] \in Nat /\ start[ch] \in Nat
      BY <1>4 DEF IndexerInv, Types
    <3>2. CASE pc[ch] = "poll"
      BY <3>1, <3>2, ReachedIs DEF Place
    <3>3. CASE pc[ch] = "filter"
      BY <1>7, <3>1, <3>3, ReachedIs DEF Place
    <3>4. CASE pc[ch] = "process"
      <4>1. from[ch] <= toBlock[ch] /\ toBlock[ch] <= Len(chain[ch])
        BY <3>1, <3>4 DEF Place
      <4>2. To(ch) \in Nat /\ To(ch) <= toBlock[ch]
        BY <1>4, <4>1, BatchEnd
      <4> QED BY <1>7, <3>1, <3>4, <4>1, <4>2, ReachedIs
    <3> QED BY <3>2, <3>3, <3>4 DEF Listening
  <2>3. FlattenSeq(Read(Append(chain[ch], b), start[ch], Reached(ch), lost[ch])) =
          FlattenSeq(Read(chain[ch], start[ch], Reached(ch), lost[ch]))
    BY <1>3, <1>5, <2>2, ReadMined
  <2>4. processed[ch] \o Pending(ch) = FlattenSeq(Read(chain[ch], start[ch], Reached(ch), lost[ch]))
    BY DEF IndexerInv, Reads
  <2> QED BY <1>2, <1>5, <2>1, <2>3, <2>4 DEF Reads
<1>10. ASSUME NEW o \in Chain, o # ch PROVE Place(o)' /\ Reads(o)'
  <2>1. chain'[o] = chain[o]
    BY <1>1, <1>4, <1>10 DEF Types
  <2> QED BY <1>2, <1>4, <2>1, Untouched DEF IndexerInv
<1> QED BY <1>6, <1>8, <1>9, <1>10 DEF IndexerInv

\* Redis drops an entry; no listener notices.
LEMMA IndexerInvExpire ==
  ASSUME IndexerInv, NEW ch \in Chain, Expire(ch)
  PROVE  IndexerInv'
<1>1. UNCHANGED <<chain, up, starts, backfill, redis, pc, lastBlock, from, toBlock, logs,
                  start, processed, lost, failed>>
  BY DEF Expire, locals, history
<1>2. Types
  BY DEF IndexerInv
<1>3. cache' \in [Chain -> SUBSET Consent]
  <2>1. PICK c \in cache[ch] : cache' = [cache EXCEPT ![ch] = cache[ch] \ {c}]
    BY DEF Expire
  <2>2. cache[ch] \in SUBSET Consent /\ cache \in [Chain -> SUBSET Consent]
    BY <1>2 DEF Types
  <2>3. cache[ch] \ {c} \in SUBSET Consent
    BY <2>2
  <2> QED BY <2>1, <2>2, <2>3
<1>4. Types'
  BY <1>1, <1>2, <1>3 DEF Types
<1>5. ASSUME NEW o \in Chain PROVE Place(o)' /\ Reads(o)'
  BY <1>1, <1>2, Untouched DEF IndexerInv
<1> QED BY <1>4, <1>5 DEF IndexerInv

\* A run begins with nothing processed and nothing lost.
LEMMA IndexerInvStart == ASSUME IndexerInv, Start PROVE IndexerInv'
<1>1. /\ ~up /\ up' = TRUE /\ pc' = [ch \in Chain |-> "connect"]
      /\ backfill' \in BackfillFrom /\ starts < MaxStarts /\ starts' = starts + 1
      /\ UNCHANGED <<chain, lastBlock, from, toBlock, logs, cache, start, processed, lost, failed>>
  BY DEF Start, locals, history
<1>2. Types
  BY DEF IndexerInv
<1>3. Types'
  <2>1. redis' \in BOOLEAN
    BY DEF Start
  <2>2. backfill' \in Nat /\ starts' \in 0..MaxStarts
    BY <1>1, <1>2, IndexerAssumption DEF Types
  <2>3. /\ pc' \in [Chain -> {"off", "connect", "poll", "filter", "process", "gone", "hung", "stuck"}]
        /\ up' \in BOOLEAN
    BY <1>1
  <2> QED BY <1>1, <1>2, <2>1, <2>2, <2>3 DEF Types
<1>4. ASSUME NEW ch \in Chain PROVE Place(ch)' /\ Reads(ch)'
  <2>1. pc[ch] = "off"
    BY <1>1 DEF IndexerInv, Place
  <2>2. pc'[ch] = "connect" /\ processed'[ch] = << >> /\ lost'[ch] = {}
    BY <1>1, <2>1 DEF IndexerInv, Place
  <2>3. Place(ch)'
    BY <1>1, <2>2 DEF Place
  <2> QED BY <2>2, <2>3, Idle
<1> QED BY <1>3, <1>4 DEF IndexerInv

\* The process ends, and every batch with it.
LEMMA IndexerInvStop == ASSUME IndexerInv, Stop PROVE IndexerInv'
<1>1. /\ up' = FALSE /\ pc' = [ch \in Chain |-> "off"]
      /\ UNCHANGED <<chain, starts, cache>> /\ Forget
  BY DEF Stop
<1>2. Types
  BY DEF IndexerInv
<1>3. Types'
  <2>1. /\ pc' \in [Chain -> {"off", "connect", "poll", "filter", "process", "gone", "hung", "stuck"}]
        /\ up' \in BOOLEAN
    BY <1>1
  <2>2. /\ backfill' \in Nat /\ redis' \in BOOLEAN /\ failed' \subseteq Chain
        /\ lastBlock' \in [Chain -> Nat] /\ from' \in [Chain -> Nat]
        /\ toBlock' \in [Chain -> Nat] /\ start' \in [Chain -> Nat]
    BY <1>1 DEF Forget
  <2>3. logs' \in [Chain -> Seq(Log)] /\ processed' \in [Chain -> Seq(Log)]
    BY <1>1, EmptySeq DEF Forget
  <2>4. lost' \in [Chain -> SUBSET Nat]
    <3>1. {} \in SUBSET Nat
      OBVIOUS
    <3> QED BY <1>1, <3>1 DEF Forget
  <2> QED BY <1>1, <1>2, <2>1, <2>2, <2>3, <2>4 DEF Types
<1>4. ASSUME NEW ch \in Chain PROVE Place(ch)' /\ Reads(ch)'
  <2>1. pc'[ch] = "off" /\ processed'[ch] = << >> /\ lost'[ch] = {}
    BY <1>1 DEF Forget
  <2>2. Place(ch)'
    BY <2>1 DEF Place
  <2> QED BY <2>1, <2>2, Idle
<1> QED BY <1>3, <1>4 DEF IndexerInv

\* A listener whose call never returns does nothing more.
LEMMA IndexerInvHang ==
  ASSUME IndexerInv, NEW ch \in Chain, HangInRPC(ch) \/ HangInQdrant(ch)
  PROVE  IndexerInv'
<1>1. PICK x \in {"hung", "stuck"} :
        /\ pc[ch] \in {"connect", "poll", "filter", "process"}
        /\ pc' = [pc EXCEPT ![ch] = x]
        /\ UNCHANGED <<chain, up, starts, backfill, redis, lastBlock, from, toBlock, logs, cache,
                       start, processed, lost, failed>>
  BY DEF HangInRPC, HangInQdrant, Hang, locals, history
<1>2. Types
  BY DEF IndexerInv
<1>3. pc'[ch] = x /\ \A o \in Chain : o # ch => pc'[o] = pc[o]
  BY <1>1, <1>2 DEF Types
<1>4. Types'
  BY <1>1, <1>2 DEF Types
<1>5. Place(ch)'
  BY <1>1, <1>3 DEF IndexerInv, Place
<1>6. Moves(ch)
  BY <1>1, <1>3 DEF Moves
<1> QED BY <1>3, <1>4, <1>5, <1>6, Idle, OthersStay

\* A listener that connects has read nothing above its first lastBlock.
LEMMA IndexerInvConnect ==
  ASSUME IndexerInv, NEW ch \in Chain, listenChain(ch)
  PROVE  IndexerInv'
<1>1. /\ pc[ch] = "connect"
      /\ UNCHANGED <<chain, up, starts, backfill, redis, from, toBlock, logs, cache, processed, lost, failed>>
  BY DEF listenChain
<1>2. Types
  BY DEF IndexerInv
<1>3. Place(ch) /\ up /\ processed[ch] = << >> /\ lost[ch] = {}
  BY <1>1 DEF IndexerInv, Place
<1>4. CASE pc' = [pc EXCEPT ![ch] = "gone"] /\ UNCHANGED <<lastBlock, start>>
  <2>1. pc'[ch] = "gone" /\ \A o \in Chain : o # ch => pc'[o] = pc[o]
    BY <1>2, <1>4 DEF Types
  <2>2. Types'
    BY <1>1, <1>2, <1>4 DEF Types
  <2>3. Place(ch)'
    BY <1>1, <1>3, <2>1 DEF Place
  <2>4. Moves(ch)
    BY <1>1, <1>4, <2>1 DEF Moves
  <2> QED BY <2>1, <2>2, <2>3, <2>4, Idle, OthersStay
<1>5. ASSUME NEW b, b = backfill \/ b = Len(chain[ch]) \/ b = 0,
             lastBlock' = [lastBlock EXCEPT ![ch] = b],
             start' = [start EXCEPT ![ch] = b],
             pc' = [pc EXCEPT ![ch] = "poll"]
      PROVE  IndexerInv'
  <2>1. chain[ch] \in Seq(Seq(Log)) /\ Len(chain[ch]) \in Nat
    <3>1. chain[ch] \in Seq(Seq(Log))
      BY <1>2 DEF Types
    <3> QED BY <3>1, LenProperties
  <2>2. b \in Nat
    BY <1>2, <1>5, <2>1 DEF Types
  <2>3. /\ pc'[ch] = "poll" /\ lastBlock'[ch] = b /\ start'[ch] = b
        /\ \A o \in Chain : o # ch => pc'[o] = pc[o] /\ lastBlock'[o] = lastBlock[o] /\ start'[o] = start[o]
    BY <1>2, <1>5 DEF Types
  <2>4. Types'
    <3>1. /\ pc' \in [Chain -> {"off", "connect", "poll", "filter", "process", "gone", "hung", "stuck"}]
          /\ lastBlock' \in [Chain -> Nat] /\ start' \in [Chain -> Nat]
      BY <1>2, <1>5, <2>2 DEF Types
    <3> QED BY <1>1, <1>2, <3>1 DEF Types
  <2>5. Place(ch)'
    BY <1>1, <1>3, <2>2, <2>3 DEF Place
  <2>6. Reads(ch)'
    <3>1. Reached(ch)' = b /\ Pending(ch)' = << >>
      BY <2>3, ReachedWillBe DEF Pending
    <3>2. FlattenSeq(Read(chain[ch], b, b, lost[ch])) = << >>
      BY <2>1, <2>2, ReadNone
    <3>3. << >> \o << >> = << >>
      OBVIOUS
    <3> QED BY <1>1, <1>3, <2>3, <3>1, <3>2, <3>3 DEF Reads
  <2>7. Moves(ch)
    BY <1>1, <2>3 DEF Moves
  <2> QED BY <2>4, <2>5, <2>6, <2>7, OthersStay
<1> QED BY <1>4, <1>5 DEF listenChain

\* A range begins above lastBlock: nothing is read yet.
LEMMA IndexerInvPoll ==
  ASSUME IndexerInv, NEW ch \in Chain, Poll(ch)
  PROVE  IndexerInv'
<1>1. /\ pc[ch] = "poll" /\ Len(chain[ch]) > lastBlock[ch]
      /\ from' = [from EXCEPT ![ch] = lastBlock[ch] + 1]
      /\ toBlock' = [toBlock EXCEPT ![ch] = Len(chain[ch])]
      /\ pc' = [pc EXCEPT ![ch] = "filter"]
      /\ UNCHANGED <<chain, up, starts, backfill, redis, lastBlock, logs, cache,
                     start, processed, lost, failed>>
  BY DEF Poll, history
<1>2. Types
  BY DEF IndexerInv
<1>3. /\ lastBlock[ch] \in Nat /\ start[ch] \in Nat /\ Len(chain[ch]) \in Nat
      /\ Place(ch) /\ Reads(ch) /\ lost[ch] \in SUBSET Nat
  <2>1. chain[ch] \in Seq(Seq(Log))
    BY <1>2 DEF Types
  <2> QED BY <1>2, <2>1, LenProperties DEF IndexerInv, Types
<1>4. /\ pc'[ch] = "filter" /\ from'[ch] = lastBlock[ch] + 1 /\ toBlock'[ch] = Len(chain[ch])
      /\ \A o \in Chain : o # ch => pc'[o] = pc[o] /\ from'[o] = from[o] /\ toBlock'[o] = toBlock[o]
  BY <1>1, <1>2 DEF Types
<1>5. Types'
  <2>1. /\ pc' \in [Chain -> {"off", "connect", "poll", "filter", "process", "gone", "hung", "stuck"}]
        /\ from' \in [Chain -> Nat] /\ toBlock' \in [Chain -> Nat]
    BY <1>1, <1>2, <1>3 DEF Types
  <2> QED BY <1>1, <1>2, <2>1 DEF Types
<1>6. Place(ch)'
  <2>1. start[ch] <= lastBlock[ch] /\ \A b \in lost[ch] : b \in Nat /\ b <= lastBlock[ch]
    BY <1>1, <1>3 DEF Place
  <2> QED BY <1>1, <1>3, <1>4, <2>1 DEF Place
<1>7. Reads(ch)'
  <2>1. Reached(ch)' = lastBlock[ch] /\ Reached(ch) = lastBlock[ch]
    BY <1>1, <1>3, <1>4, ReachedIs, ReachedWillBe
  <2>2. Pending(ch)' = << >> /\ Pending(ch) = << >>
    BY <1>1, <1>4 DEF Pending
  <2>3. processed[ch] \o Pending(ch) = FlattenSeq(Read(chain[ch], start[ch], Reached(ch), lost[ch]))
    BY <1>1, <1>3 DEF Reads, Listening
  <2> QED BY <1>1, <2>1, <2>2, <2>3 DEF Reads
<1>8. Moves(ch)
  BY <1>1, <1>4 DEF Moves
<1> QED BY <1>5, <1>6, <1>7, <1>8, OthersStay

\* What FilterLogs returns for a range of the chain: the matched logs of its blocks.
LEMMA FilterLogsIs ==
  ASSUME Types, NEW ch \in Chain, NEW f \in Nat, NEW t \in Nat, 1 <= f, f <= t, t <= Len(chain[ch])
  PROVE  /\ FilterLogs(ch, f, t) = FlattenSeq(Matched(SubSeq(chain[ch], f, t)))
         /\ FilterLogs(ch, f, t) \in Seq(Log)
<1> DEFINE last == IF t < Len(chain[ch]) THEN t ELSE Len(chain[ch])
           batch == SubSeq(chain[ch], f, t)
<1>1. chain[ch] \in Seq(Seq(Log)) /\ Len(chain[ch]) \in Nat
  <2>1. chain[ch] \in Seq(Seq(Log))
    BY DEF Types
  <2> QED BY <2>1, LenProperties
<1>2. last = t
  BY <1>1
<1>3. batch \in Seq(Seq(Log))
  <2>1. \A i \in f..t : i \in 1..Len(chain[ch])
    BY <1>1
  <2>2. \A i \in f..t : chain[ch][i] \in Seq(Log)
    BY <1>1, <2>1, ElementOfSeq
  <2> QED BY <1>1, <2>2, SubSeqProperties
<1>4. FilterLogs(ch, f, t) = FlattenSeq(Matched(batch))
  BY <1>2 DEF FilterLogs, Matched
<1> HIDE DEF batch
<1>5. FlattenSeq(Matched(batch)) \in Seq(Log)
  <2>1. Matched(batch) \in Seq(Seq(Log))
    BY <1>3, MatchedType
  <2> QED BY <2>1, FlattenType
<1> QED BY <1>4, <1>5 DEF batch

\* What a listener in its range knows of its batch.
LEMMA InBatch ==
  ASSUME IndexerInv, NEW ch \in Chain, pc[ch] \in {"filter", "process"}
  PROVE  /\ chain[ch] \in Seq(Seq(Log)) /\ Len(chain[ch]) \in Nat
         /\ start[ch] \in Nat /\ lastBlock[ch] \in Nat /\ from[ch] \in Nat /\ toBlock[ch] \in Nat
         /\ start[ch] <= lastBlock[ch] /\ lastBlock[ch] < from[ch] /\ start[ch] < from[ch]
         /\ from[ch] <= toBlock[ch] /\ toBlock[ch] <= Len(chain[ch])
         /\ To(ch) \in Nat /\ from[ch] <= To(ch) /\ To(ch) <= toBlock[ch] /\ To(ch) <= Len(chain[ch])
         /\ lost[ch] \in SUBSET Nat /\ \A b \in lost[ch] : b \in Nat /\ b < from[ch]
         /\ processed[ch] \in Seq(Log) /\ logs[ch] \in Seq(Log)
<1>1. Types /\ Place(ch)
  BY DEF IndexerInv
<1>2. /\ chain[ch] \in Seq(Seq(Log))
      /\ start[ch] \in Nat /\ lastBlock[ch] \in Nat /\ from[ch] \in Nat /\ toBlock[ch] \in Nat
      /\ lost[ch] \in SUBSET Nat /\ processed[ch] \in Seq(Log) /\ logs[ch] \in Seq(Log)
  BY <1>1 DEF Types
<1>3. /\ start[ch] <= lastBlock[ch] /\ lastBlock[ch] < from[ch] /\ from[ch] <= toBlock[ch]
      /\ toBlock[ch] <= Len(chain[ch]) /\ \A b \in lost[ch] : b < from[ch]
  BY <1>1 DEF Place
<1>4. To(ch) \in Nat /\ from[ch] <= To(ch) /\ To(ch) <= toBlock[ch]
  BY <1>1, <1>3, BatchEnd
<1>5. Len(chain[ch]) \in Nat
  BY <1>2, LenProperties
<1>6. start[ch] < from[ch] /\ To(ch) <= Len(chain[ch])
  <2>1. /\ start[ch] \in Nat /\ lastBlock[ch] \in Nat /\ from[ch] \in Nat /\ toBlock[ch] \in Nat
        /\ start[ch] <= lastBlock[ch] /\ lastBlock[ch] < from[ch] /\ toBlock[ch] <= Len(chain[ch])
    BY <1>2, <1>3
  <2> QED BY <1>4, <1>5, <2>1
<1>7. \A b \in lost[ch] : b \in Nat
  BY <1>2
<1> QED BY <1>2, <1>3, <1>4, <1>5, <1>6, <1>7

\* A listener that ends a batch is in the right place again, whatever it lost of
\* the blocks of that batch.
LEMMA PlaceAfterBatch ==
  ASSUME IndexerInv, NEW ch \in Chain, pc[ch] \in {"filter", "process"}, NextBatch(ch),
         UNCHANGED <<chain, up, backfill, toBlock, start>>,
         \A b \in lost'[ch] : b \in lost[ch] \/ b \in from[ch]..To(ch)
  PROVE  Place(ch)'
<1>1. Types /\ Place(ch) /\ up
  BY DEF IndexerInv, Place
<1>2. \/ /\ pc'[ch] = "filter" /\ lastBlock'[ch] = lastBlock[ch]
         /\ from'[ch] = To(ch) + 1 /\ from'[ch] <= toBlock[ch]
      \/ pc'[ch] = "poll" /\ lastBlock'[ch] = To(ch) /\ To(ch) = toBlock[ch]
  BY <1>1, BatchEnds
<1>3. \A b \in lost'[ch] : b \in Nat /\ b <= To(ch)
  BY InBatch
<1>4. CASE /\ pc'[ch] = "filter" /\ lastBlock'[ch] = lastBlock[ch]
           /\ from'[ch] = To(ch) + 1 /\ from'[ch] <= toBlock[ch]
  <2>1. /\ start[ch] <= lastBlock[ch] /\ lastBlock[ch] < from'[ch]
        /\ toBlock[ch] <= Len(chain[ch]) /\ \A b \in lost'[ch] : b < from'[ch]
    <3>1. /\ start[ch] <= lastBlock[ch] /\ lastBlock[ch] < from[ch] /\ from[ch] <= To(ch)
          /\ toBlock[ch] <= Len(chain[ch]) /\ lastBlock[ch] \in Nat /\ from[ch] \in Nat /\ To(ch) \in Nat
      BY InBatch
    <3>2. lastBlock[ch] < from'[ch] /\ \A b \in lost'[ch] : b < from'[ch]
      BY <1>3, <1>4, <3>1
    <3> QED BY <1>4, <3>1, <3>2
  <2> QED BY <1>1, <1>4, <2>1 DEF Place
<1>5. CASE pc'[ch] = "poll" /\ lastBlock'[ch] = To(ch) /\ To(ch) = toBlock[ch]
  <2>1. start[ch] <= lastBlock'[ch] /\ lastBlock'[ch] <= Len(chain[ch])
    BY <1>5, InBatch
  <2> QED BY <1>1, <1>3, <1>5, <2>1 DEF Place
<1> QED BY <1>2, <1>4, <1>5

\* The fetched logs are those of the batch; a batch without logs is passed.
LEMMA IndexerInvFilter ==
  ASSUME IndexerInv, NEW ch \in Chain, FilterSucceeds(ch)
  PROVE  IndexerInv'
<1>1. /\ pc[ch] = "filter"
      /\ logs' = [logs EXCEPT ![ch] = FilterLogs(ch, from[ch], To(ch))]
      /\ UNCHANGED <<chain, up, starts, backfill, redis, toBlock, cache,
                     start, processed, lost, failed>>
  BY DEF FilterSucceeds, history
<1>2. Types /\ Place(ch) /\ Reads(ch) /\ up
  BY <1>1 DEF IndexerInv, Place
<1> DEFINE ls == FilterLogs(ch, from[ch], To(ch))
           now == FlattenSeq(Read(chain[ch], start[ch], from[ch] - 1, lost[ch]))
           then == FlattenSeq(Read(chain[ch], start[ch], To(ch), lost[ch]))
<1>3. ls \in Seq(Log) /\ then = now \o ls
  <2>1. /\ ls = FlattenSeq(Matched(SubSeq(chain[ch], from[ch], To(ch)))) /\ ls \in Seq(Log)
    BY <1>1, <1>2, InBatch, FilterLogsIs
  <2>2. then = now \o FlattenSeq(Matched(SubSeq(chain[ch], from[ch], To(ch))))
    <3>1. PICK c, s, f, t, l : c = chain[ch] /\ s = start[ch] /\ f = from[ch] /\ t = To(ch) /\ l = lost[ch]
      OBVIOUS
    <3>2. /\ c \in Seq(Seq(Log)) /\ s \in Nat /\ f \in Nat /\ t \in Nat
          /\ s < f /\ f <= t /\ t <= Len(c)
          /\ \A b \in l : b \in Nat /\ b < f
      BY <1>1, <3>1, InBatch
    <3>3. FlattenSeq(Read(c, s, t, l)) =
            FlattenSeq(Read(c, s, f - 1, l)) \o FlattenSeq(Matched(SubSeq(c, f, t)))
      BY <3>2, ReadBatch
    <3> QED BY <3>1, <3>3
  <2> QED BY <2>1, <2>2
<1>4. processed[ch] = now /\ processed[ch] \in Seq(Log)
  <2>1. Listening(ch) /\ Pending(ch) = << >> /\ Reached(ch) = from[ch] - 1
    BY <1>1, ReachedIs DEF Listening, Pending
  <2>2. processed[ch] \o << >> = now
    BY <1>2, <2>1 DEF Reads
  <2>3. processed[ch] \in Seq(Log)
    BY <1>2 DEF Types
  <2> QED BY <2>2, <2>3, ConcatEmptySeq
<1>5. processed[ch] \o ls = then
  BY <1>3, <1>4
<1> HIDE DEF now, then
<1>6. logs' \in [Chain -> Seq(Log)] /\ logs'[ch] = ls /\ \A o \in Chain : o # ch => logs'[o] = logs[o]
  <2> HIDE DEF ls
  <2>1. logs' = [logs EXCEPT ![ch] = ls]
    BY <1>1 DEF ls
  <2> QED BY <1>2, <1>3, <2>1 DEF Types
<1>7. CASE ls = << >>
  <2>1. NextBatch(ch)
    BY <1>7 DEF FilterSucceeds
  <2>2. /\ pc' \in [Chain -> {"off", "connect", "poll", "filter", "process", "gone", "hung", "stuck"}]
        /\ lastBlock' \in [Chain -> Nat] /\ from' \in [Chain -> Nat]
        /\ \A o \in Chain : o # ch =>
             pc'[o] = pc[o] /\ lastBlock'[o] = lastBlock[o] /\ from'[o] = from[o]
        /\ pc'[ch] \in {"filter", "poll"}
        /\ Reached(ch)' = To(ch)
    BY <1>1, <1>2, <2>1, BatchEnds
  <2>3. Types'
    BY <1>1, <1>2, <1>6, <2>2 DEF Types
  <2>4. Place(ch)'
    BY <1>1, <2>1, PlaceAfterBatch
  <2>5. Reads(ch)'
    <3>1. Pending(ch)' = << >>
      BY <2>2 DEF Pending
    <3> QED BY <1>1, <1>5, <1>7, <2>2, <3>1 DEF Reads, then
  <2>6. Moves(ch)
    BY <1>1, <1>6, <2>2 DEF Moves
  <2> QED BY <2>3, <2>4, <2>5, <2>6, OthersStay
<1>8. CASE ls # << >>
  <2>1. pc' = [pc EXCEPT ![ch] = "process"] /\ UNCHANGED <<from, lastBlock>>
    BY <1>8 DEF FilterSucceeds
  <2>2. pc'[ch] = "process" /\ \A o \in Chain : o # ch => pc'[o] = pc[o]
    BY <1>2, <2>1 DEF Types
  <2>3. Types'
    <3>1. pc' \in [Chain -> {"off", "connect", "poll", "filter", "process", "gone", "hung", "stuck"}]
      BY <1>2, <2>1 DEF Types
    <3> QED BY <1>1, <1>2, <1>6, <2>1, <3>1 DEF Types
  <2>4. Place(ch)'
    BY <1>1, <1>2, <1>6, <1>8, <2>1, <2>2 DEF Place
  <2>5. Reads(ch)'
    <3>1. To(ch)' = To(ch)
      BY <1>1, <2>1 DEF To, batchSize
    <3>2. Pending(ch)' = ls /\ Reached(ch)' = To(ch)
      BY <1>6, <2>2, <3>1, ReachedWillBe DEF Pending
    <3> QED BY <1>1, <1>5, <3>2 DEF Reads, then
  <2>6. Moves(ch)
    BY <1>1, <1>6, <2>1, <2>2 DEF Moves
  <2> QED BY <2>3, <2>4, <2>5, <2>6, OthersStay
<1> QED BY <1>7, <1>8

\* A failed batch is passed and lost.
LEMMA IndexerInvLose ==
  ASSUME IndexerInv, NEW ch \in Chain, FilterFails(ch)
  PROVE  IndexerInv'
<1>1. /\ pc[ch] = "filter" /\ NextBatch(ch)
      /\ lost' = [lost EXCEPT ![ch] = lost[ch] \cup (from[ch]..To(ch))]
      /\ UNCHANGED <<chain, up, starts, backfill, redis, toBlock, logs, cache,
                     start, processed, failed>>
  BY DEF FilterFails
<1>2. Types /\ Place(ch) /\ Reads(ch)
  BY DEF IndexerInv
<1>3. /\ pc' \in [Chain -> {"off", "connect", "poll", "filter", "process", "gone", "hung", "stuck"}]
      /\ lastBlock' \in [Chain -> Nat] /\ from' \in [Chain -> Nat]
      /\ \A o \in Chain : o # ch =>
           pc'[o] = pc[o] /\ lastBlock'[o] = lastBlock[o] /\ from'[o] = from[o]
      /\ pc'[ch] \in {"filter", "poll"}
      /\ Reached(ch)' = To(ch)
  BY <1>1, <1>2, BatchEnds
<1>4. /\ lost' \in [Chain -> SUBSET Nat] /\ lost'[ch] = lost[ch] \cup (from[ch]..To(ch))
      /\ \A o \in Chain : o # ch => lost'[o] = lost[o]
  <2>1. lost[ch] \cup (from[ch]..To(ch)) \in SUBSET Nat
    BY <1>1, InBatch
  <2> QED BY <1>1, <1>2, <2>1 DEF Types
<1>5. Types'
  BY <1>1, <1>2, <1>3, <1>4 DEF Types
<1>6. Place(ch)'
  BY <1>1, <1>4, PlaceAfterBatch
<1>7. Reads(ch)'
  <2>1. Pending(ch)' = << >> /\ Pending(ch) = << >> /\ Reached(ch) = from[ch] - 1 /\ Listening(ch)
    BY <1>1, <1>3, ReachedIs DEF Pending, Listening
  <2>2. processed[ch] \o << >> = FlattenSeq(Read(chain[ch], start[ch], from[ch] - 1, lost[ch]))
    BY <1>2, <2>1 DEF Reads
  <2>3. Read(chain[ch], start[ch], To(ch), lost[ch] \cup (from[ch]..To(ch)))
          = Read(chain[ch], start[ch], from[ch] - 1, lost[ch])
    <3>1. PICK c, s, f, t, l : c = chain[ch] /\ s = start[ch] /\ f = from[ch] /\ t = To(ch) /\ l = lost[ch]
      OBVIOUS
    <3>2. /\ c \in Seq(Seq(Log)) /\ s \in Nat /\ f \in Nat /\ t \in Nat /\ f <= t + 1
          /\ \A b \in l : b \in Nat /\ b < f
      BY <1>1, <3>1, InBatch
    <3>3. PICK r : r = f - 1
      OBVIOUS
    <3>4. r \in Int /\ r <= t /\ l \in SUBSET (0..r) /\ r + 1 = f
      BY <3>2, <3>3
    <3>5. Read(c, s, t, l \cup ((r + 1)..t)) = Read(c, s, r, l)
      BY <3>2, <3>4, ReadSkips
    <3> QED BY <3>1, <3>3, <3>4, <3>5
  <2> QED BY <1>1, <1>3, <1>4, <2>1, <2>2, <2>3 DEF Reads
<1>8. Moves(ch)
  BY <1>1, <1>3, <1>4 DEF Moves
<1> QED BY <1>5, <1>6, <1>7, <1>8, OthersStay

\* The first of the pending logs becomes the last processed one.
LEMMA HeadMoves ==
  ASSUME NEW S, NEW p \in Seq(S), NEW l \in Seq(S), l # << >>
  PROVE  /\ Head(l) \in S /\ Tail(l) \in Seq(S) /\ Append(p, Head(l)) \in Seq(S)
         /\ Append(p, Head(l)) \o Tail(l) = p \o l
         /\ Len(l) = 1 => Tail(l) = << >> /\ Append(p, Head(l)) = p \o l
         /\ Len(l) # 1 => Tail(l) # << >>
<1>1. /\ Len(l) \in Nat /\ Len(l) # 0 /\ Len(p) \in Nat
      /\ Head(l) = l[1] /\ l[1] \in S
      /\ Tail(l) \in Seq(S) /\ Len(Tail(l)) = Len(l) - 1
      /\ \A i \in 1..Len(Tail(l)) : Tail(l)[i] = l[i + 1]
  OBVIOUS
<1>2. PICK q : q = Append(p, Head(l))
  OBVIOUS
<1>3. PICK t : t = Tail(l)
  OBVIOUS
<1>4. /\ q \in Seq(S) /\ Len(q) = Len(p) + 1 /\ q[Len(p) + 1] = l[1]
      /\ \A i \in 1..Len(p) : q[i] = p[i]
  BY <1>1, <1>2
<1>5. q \o t = p \o l
  <2>1. t \in Seq(S) /\ Len(t) = Len(l) - 1 /\ \A i \in 1..Len(t) : t[i] = l[i + 1]
    BY <1>1, <1>3
  <2>2. q \o t \in Seq(S) /\ p \o l \in Seq(S) /\ Len(q \o t) = Len(p \o l)
    <3>1. Len(q \o t) = Len(q) + Len(t) /\ Len(p \o l) = Len(p) + Len(l)
      BY <1>4, <2>1, ConcatProperties
    <3>2. Len(q) + Len(t) = Len(p) + Len(l)
      BY <1>1, <1>4, <2>1
    <3> QED BY <1>4, <2>1, <3>1, <3>2
  <2>3. ASSUME NEW i \in 1..Len(q \o t) PROVE (q \o t)[i] = (p \o l)[i]
    <3>1. i \in 1..(Len(p) + Len(l)) /\ Len(q) + Len(t) = Len(p) + Len(l)
      BY <1>1, <1>4, <2>1
    <3>2. CASE i <= Len(p)
      BY <1>1, <1>4, <2>1, <3>1, <3>2
    <3>3. CASE i = Len(p) + 1
      BY <1>1, <1>4, <2>1, <3>1, <3>3
    <3>4. CASE i > Len(p) + 1
      <4>1. i - Len(q) \in 1..Len(t) /\ i - Len(p) = (i - Len(q)) + 1
        BY <1>1, <1>4, <2>1, <3>1, <3>4
      <4>2. (q \o t)[i] = t[i - Len(q)]
        BY <1>1, <1>4, <2>1, <3>1, <3>4
      <4>3. (p \o l)[i] = l[i - Len(p)]
        BY <1>1, <3>1, <3>4
      <4> QED BY <2>1, <4>1, <4>2, <4>3
    <3> QED BY <1>1, <3>1, <3>2, <3>3, <3>4
  <2> QED BY <2>2, <2>3, SeqEqual
<1>6. Len(l) = 1 => t = << >>
  BY <1>1, <1>3
<1>7. Len(l) # 1 => t # << >>
  BY <1>1, <1>3
<1>8. q \o << >> = q
  BY <1>4, ConcatEmptySeq
<1> QED BY <1>1, <1>2, <1>3, <1>4, <1>5, <1>6, <1>7, <1>8

\* A log is applied, or its Redis call fails; with the last one the batch ends.
LEMMA IndexerInvProcess ==
  ASSUME IndexerInv, NEW ch \in Chain, processEventLog(ch)
  PROVE  IndexerInv'
<1>1. /\ pc[ch] = "process"
      /\ processed' = [processed EXCEPT ![ch] = Append(processed[ch], Head(logs[ch]))]
      /\ logs' = [logs EXCEPT ![ch] = Tail(logs[ch])]
      /\ UNCHANGED <<chain, up, starts, backfill, redis, toBlock, start, lost>>
  BY DEF processEventLog
<1>2. Types /\ Place(ch) /\ Reads(ch) /\ up /\ logs[ch] # << >>
  BY <1>1 DEF IndexerInv, Place
<1>3. logs[ch] \in Seq(Log) /\ processed[ch] \in Seq(Log)
  BY <1>2 DEF Types
<1>4. PICK e : e = Head(logs[ch])
  OBVIOUS
<1>5. /\ e \in Log /\ Tail(logs[ch]) \in Seq(Log) /\ Append(processed[ch], e) \in Seq(Log)
      /\ Append(processed[ch], e) \o Tail(logs[ch]) = processed[ch] \o logs[ch]
      /\ Len(logs[ch]) = 1 => Tail(logs[ch]) = << >> /\ Append(processed[ch], e) = processed[ch] \o logs[ch]
      /\ Len(logs[ch]) # 1 => Tail(logs[ch]) # << >>
  <2>1. PICK p, l : p = processed[ch] /\ l = logs[ch]
    OBVIOUS
  <2>2. /\ Head(l) \in Log /\ Tail(l) \in Seq(Log) /\ Append(p, Head(l)) \in Seq(Log)
        /\ Append(p, Head(l)) \o Tail(l) = p \o l
        /\ Len(l) = 1 => Tail(l) = << >> /\ Append(p, Head(l)) = p \o l
        /\ Len(l) # 1 => Tail(l) # << >>
    <3>1. p \in Seq(Log) /\ l \in Seq(Log) /\ l # << >>
      BY <1>2, <1>3, <2>1
    <3> QED BY <3>1, HeadMoves
  <2> QED BY <1>4, <2>1, <2>2
<1>6. /\ logs' \in [Chain -> Seq(Log)] /\ processed' \in [Chain -> Seq(Log)]
      /\ logs'[ch] = Tail(logs[ch]) /\ processed'[ch] = Append(processed[ch], e)
      /\ \A o \in Chain : o # ch => logs'[o] = logs[o] /\ processed'[o] = processed[o]
  BY <1>1, <1>2, <1>4, <1>5 DEF Types
<1>7. cache' \in [Chain -> SUBSET Consent] /\ failed' \subseteq Chain
  <2>1. /\ \/ cache' = cache
           \/ cache' = [cache EXCEPT ![ch] = cache[ch] \cup {e.id}]
           \/ cache' = [cache EXCEPT ![ch] = cache[ch] \ {e.id}]
        /\ failed' = failed \/ failed' = failed \cup {ch}
    BY <1>4 DEF processEventLog, handleConsentRegistered, handleConsentRevoked
  <2>2. cache[ch] \in SUBSET Consent /\ cache \in [Chain -> SUBSET Consent] /\ failed \subseteq Chain
    BY <1>2 DEF Types
  <2>3. e.id \in Consent
    BY <1>5 DEF Log
  <2>4. cache[ch] \cup {e.id} \in SUBSET Consent /\ cache[ch] \ {e.id} \in SUBSET Consent
    BY <2>2, <2>3
  <2> QED BY <2>1, <2>2, <2>4
<1>8. processed[ch] \o logs[ch] = FlattenSeq(Read(chain[ch], start[ch], To(ch), lost[ch]))
  <2>1. Listening(ch) /\ Pending(ch) = logs[ch] /\ Reached(ch) = To(ch)
    BY <1>1, ReachedIs DEF Listening, Pending
  <2> QED BY <1>2, <2>1 DEF Reads
<1>9. CASE Len(logs[ch]) = 1
  <2>1. NextBatch(ch)
    BY <1>9 DEF processEventLog
  <2>2. /\ pc' \in [Chain -> {"off", "connect", "poll", "filter", "process", "gone", "hung", "stuck"}]
        /\ lastBlock' \in [Chain -> Nat] /\ from' \in [Chain -> Nat]
        /\ \A o \in Chain : o # ch =>
             pc'[o] = pc[o] /\ lastBlock'[o] = lastBlock[o] /\ from'[o] = from[o]
        /\ pc'[ch] \in {"filter", "poll"}
        /\ Reached(ch)' = To(ch)
    BY <1>1, <1>2, <2>1, BatchEnds
  <2>3. Types'
    BY <1>1, <1>2, <1>6, <1>7, <2>2 DEF Types
  <2>4. Place(ch)'
    BY <1>1, <2>1, PlaceAfterBatch
  <2>5. Reads(ch)'
    <3>1. Pending(ch)' = << >>
      BY <2>2 DEF Pending
    <3>2. Append(processed[ch], e) \o << >> = processed[ch] \o logs[ch]
      BY <1>5, <1>9
    <3> QED BY <1>1, <1>6, <1>8, <2>2, <3>1, <3>2 DEF Reads
  <2>6. Moves(ch)
    BY <1>1, <1>6, <2>2 DEF Moves
  <2> QED BY <2>3, <2>4, <2>5, <2>6, OthersStay
<1>10. CASE Len(logs[ch]) # 1
  <2>1. UNCHANGED <<from, lastBlock, pc>>
    BY <1>10 DEF processEventLog
  <2>2. Types'
    BY <1>1, <1>2, <1>6, <1>7, <2>1 DEF Types
  <2>3. Place(ch)'
    BY <1>1, <1>2, <1>5, <1>6, <1>10, <2>1 DEF Place
  <2>4. Reads(ch)'
    <3>1. To(ch)' = To(ch)
      BY <1>1, <2>1 DEF To, batchSize
    <3>2. Pending(ch)' = Tail(logs[ch]) /\ Reached(ch)' = To(ch)
      BY <1>1, <1>6, <2>1, <3>1, ReachedWillBe DEF Pending
    <3> QED BY <1>1, <1>5, <1>6, <1>8, <3>2 DEF Reads
  <2>5. Moves(ch)
    BY <1>1, <1>6, <2>1 DEF Moves
  <2> QED BY <2>2, <2>3, <2>4, <2>5, OthersStay
<1> QED BY <1>9, <1>10

LEMMA IndexerInvNext == IndexerInv /\ [Next]_vars => IndexerInv'
<1> SUFFICES ASSUME IndexerInv, [Next]_vars PROVE IndexerInv'
  OBVIOUS
<1>1. CASE Start
  BY <1>1, IndexerInvStart
<1>2. CASE Stop
  BY <1>2, IndexerInvStop
<1>3. ASSUME NEW ch \in Chain, Listener(ch) \/ HangInRPC(ch) \/ HangInQdrant(ch) \/ Mine(ch) \/ Expire(ch)
      PROVE  IndexerInv'
  BY <1>3, IndexerInvConnect, IndexerInvPoll, IndexerInvFilter, IndexerInvLose,
     IndexerInvProcess, IndexerInvHang, IndexerInvMine, IndexerInvExpire DEF Listener
<1>4. CASE UNCHANGED vars
  <2>1. UNCHANGED <<chain, up, starts, backfill, redis, pc, lastBlock, from, toBlock, logs, cache,
                    start, processed, lost, failed>>
    BY <1>4 DEF vars, locals, history
  <2>2. Types'
    BY <2>1 DEF IndexerInv, Types
  <2>3. ASSUME NEW ch \in Chain PROVE Place(ch)' /\ Reads(ch)'
    BY <2>1, Untouched DEF IndexerInv
  <2> QED BY <2>2, <2>3 DEF IndexerInv
<1> QED BY <1>1, <1>2, <1>3, <1>4 DEF Next

\* The inductive invariant: the types, where each listener is, and what it has read.
THEOREM IndexerInvariant == Spec => []IndexerInv
BY IndexerInvInit, IndexerInvNext, PTL DEF Spec

\* The types of TypeOK; a listener's batch is not empty and lies at or below the
\* head of the chain, and it processes logs only while the process runs.
THEOREM IndexerTypeCorrect == Spec => []TypeOK
<1>1. IndexerInv => TypeOK
  <2> SUFFICES ASSUME IndexerInv PROVE TypeOK
    OBVIOUS
  <2>1. Types
    BY DEF IndexerInv
  <2>2. ASSUME NEW ch \in Chain, NEW i \in 1..Len(chain[ch]) PROVE chain[ch][i] \in Seq(Log)
    <3>1. chain[ch] \in Seq(Seq(Log))
      BY <2>1 DEF Types
    <3> QED BY <3>1, ElementOfSeq
  <2>3. ASSUME NEW ch \in Chain, pc[ch] \in {"filter", "process"}
        PROVE  lastBlock[ch] < from[ch] /\ from[ch] <= To(ch) /\ toBlock[ch] <= Len(chain[ch])
    BY <2>3, InBatch
  <2>4. ASSUME NEW ch \in Chain, pc[ch] = "process" PROVE up /\ logs[ch] # << >>
    BY <2>4 DEF IndexerInv, Place
  <2> QED BY <2>1, <2>2, <2>3, <2>4 DEF TypeOK, Types
<1> QED BY <1>1, IndexerInvariant, PTL

\* What the query matches in one block is what FilterLogs returns for that block alone.
LEMMA FilterOneBlock ==
  ASSUME Types, NEW ch \in Chain, NEW b \in 1..Len(chain[ch])
  PROVE  FilterLogs(ch, b, b) = matching(chain[ch][b])
<1>1. chain[ch] \in Seq(Seq(Log))
  BY DEF Types
<1>2. PICK c : c = chain[ch]
  OBVIOUS
<1>3. c \in Seq(Seq(Log)) /\ Len(c) \in Nat /\ b \in 1..Len(c) /\ c[b] \in Seq(Log)
  BY <1>1, <1>2, ElementOfSeq, LenProperties
<1>4. FilterLogs(ch, b, b) = FlattenSeq(Matched(SubSeq(c, b, b)))
  BY <1>2, <1>3, FilterLogsIs
<1>5. SubSeq(c, b, b) = <<c[b]>>
  <2>1. /\ SubSeq(c, b, b) \in Seq(Seq(Log)) /\ Len(SubSeq(c, b, b)) = 1
        /\ SubSeq(c, b, b)[1] = c[b]
    BY <1>3
  <2>2. <<c[b]>> \in Seq(Seq(Log)) /\ Len(<<c[b]>>) = 1 /\ <<c[b]>>[1] = c[b]
    BY <1>3
  <2>3. \A i \in 1..1 : i = 1
    OBVIOUS
  <2> QED BY <2>1, <2>2, <2>3, SeqEqual
<1>6. Matched(<<c[b]>>) = <<matching(c[b])>>
  BY DEF Matched
<1>7. FlattenSeq(<<matching(c[b])>>) = matching(c[b])
  BY <1>3, MatchingType, FlattenOne
<1> QED BY <1>2, <1>4, <1>5, <1>6, <1>7

\* A run applies the logs of the blocks above its start once each and in the order
\* of the chain, whatever the batch size and however batches, failures of
\* FilterLogs and new blocks fall together (startEventListener).
THEOREM ReadsAlwaysInOrder == Spec => []ReadsInOrder
<1>1. IndexerInv => ReadsInOrder
  <2> SUFFICES ASSUME IndexerInv, NEW ch \in Chain, Listening(ch)
               PROVE  processed[ch] \o Pending(ch) =
                        FlattenSeq([b \in 1..Len(chain[ch]) |->
                          IF b > start[ch] /\ b <= Reached(ch) /\ b \notin lost[ch]
                          THEN FilterLogs(ch, b, b) ELSE << >>])
    BY DEF ReadsInOrder, Pending
  <2>1. Types
    BY DEF IndexerInv
  <2>2. \A b \in 1..Len(chain[ch]) : FilterLogs(ch, b, b) = matching(chain[ch][b])
    BY <2>1, FilterOneBlock
  <2>3. Read(chain[ch], start[ch], Reached(ch), lost[ch])
          = [b \in 1..Len(chain[ch]) |->
               IF b > start[ch] /\ b <= Reached(ch) /\ b \notin lost[ch]
               THEN FilterLogs(ch, b, b) ELSE << >>]
    BY <2>2 DEF Read
  <2>4. processed[ch] \o Pending(ch) = FlattenSeq(Read(chain[ch], start[ch], Reached(ch), lost[ch]))
    BY DEF IndexerInv, Reads
  <2> QED BY <2>3, <2>4
<1> QED BY <1>1, IndexerInvariant, PTL

-----------------------------------------------------------------------------
(* The order of the logs: no consent is registered after it was revoked *)

Registered(c) == [event |-> "ConsentRegistered", id |-> c]
Revoked(c) == [event |-> "ConsentRevoked", id |-> c]

Ordered(s) ==
  \A c \in Consent : \A i, j \in 1..Len(s) :
    s[i] = Revoked(c) /\ s[j] = Registered(c) => j < i

LEMMA ContainsConcat ==
  ASSUME NEW S, NEW s \in Seq(S), NEW t \in Seq(S), NEW e
  PROVE  Contains(s \o t, e) <=> Contains(s, e) \/ Contains(t, e)
<1>1. /\ Len(s) \in Nat /\ Len(t) \in Nat /\ Len(s \o t) = Len(s) + Len(t)
      /\ \A i \in 1..Len(s) : (s \o t)[i] = s[i]
      /\ \A i \in 1..Len(t) : (s \o t)[Len(s) + i] = t[i]
  <2>1. Len(s \o t) = Len(s) + Len(t)
    BY ConcatProperties
  <2>2. Len(s) \in Nat /\ Len(t) \in Nat
    BY LenProperties
  <2>3. \A i \in 1..Len(s) : (s \o t)[i] = s[i]
    BY <2>2
  <2>4. \A i \in 1..Len(t) : (s \o t)[Len(s) + i] = t[i]
    BY <2>2
  <2> QED BY <2>1, <2>2, <2>3, <2>4
<1>2. PICK q : q = s \o t
  OBVIOUS
<1>3. ASSUME NEW i \in 1..Len(q)
      PROVE  i \in 1..Len(s) \/ (i - Len(s) \in 1..Len(t) /\ Len(s) + (i - Len(s)) = i)
  BY <1>1, <1>2
<1>4. (\A i \in 1..Len(s) : i \in 1..Len(q)) /\ (\A i \in 1..Len(t) : Len(s) + i \in 1..Len(q))
  BY <1>1, <1>2
<1>5. Contains(q, e) => Contains(s, e) \/ Contains(t, e)
  <2> SUFFICES ASSUME NEW i \in 1..Len(q), q[i] = e PROVE Contains(s, e) \/ Contains(t, e)
    BY DEF Contains
  <2>1. CASE i \in 1..Len(s)
    BY <1>1, <1>2, <2>1 DEF Contains
  <2>2. CASE i - Len(s) \in 1..Len(t) /\ Len(s) + (i - Len(s)) = i
    <3>1. t[i - Len(s)] = e
      BY <1>1, <1>2, <2>2
    <3> QED BY <2>2, <3>1 DEF Contains
  <2> QED BY <1>3, <2>1, <2>2
<1>6. Contains(s, e) => Contains(q, e)
  BY <1>1, <1>2, <1>4 DEF Contains
<1>7. Contains(t, e) => Contains(q, e)
  BY <1>1, <1>2, <1>4 DEF Contains
<1> QED BY <1>2, <1>5, <1>6, <1>7

\* Two rows are in order one after the other if each is and the second registers
\* nothing that the first revokes.
LEMMA OrderedConcat ==
  ASSUME NEW s \in Seq(Log), NEW t \in Seq(Log)
  PROVE  Ordered(s \o t) <=>
           /\ Ordered(s) /\ Ordered(t)
           /\ \A c \in Consent : ~(Contains(s, Revoked(c)) /\ Contains(t, Registered(c)))
<1>1. /\ Len(s) \in Nat /\ Len(t) \in Nat /\ Len(s \o t) = Len(s) + Len(t)
      /\ \A i \in 1..Len(s) : (s \o t)[i] = s[i]
      /\ \A i \in 1..Len(t) : (s \o t)[Len(s) + i] = t[i]
  <2>1. Len(s \o t) = Len(s) + Len(t)
    BY ConcatProperties
  <2>2. Len(s) \in Nat /\ Len(t) \in Nat
    BY LenProperties
  <2>3. \A i \in 1..Len(s) : (s \o t)[i] = s[i]
    BY <2>2
  <2>4. \A i \in 1..Len(t) : (s \o t)[Len(s) + i] = t[i]
    BY <2>2
  <2> QED BY <2>1, <2>2, <2>3, <2>4
<1>2. PICK q : q = s \o t
  OBVIOUS
<1>3. ASSUME NEW i \in 1..Len(q)
      PROVE  i \in 1..Len(s) \/ (i > Len(s) /\ i - Len(s) \in 1..Len(t) /\ Len(s) + (i - Len(s)) = i)
  BY <1>1, <1>2
<1>4. /\ \A i \in 1..Len(s) : i \in 1..Len(q) /\ q[i] = s[i]
      /\ \A i \in 1..Len(t) : Len(s) + i \in 1..Len(q) /\ q[Len(s) + i] = t[i]
  BY <1>1, <1>2
<1>5. ASSUME Ordered(q), NEW c \in Consent
      PROVE  /\ \A i, j \in 1..Len(s) : s[i] = Revoked(c) /\ s[j] = Registered(c) => j < i
             /\ \A i, j \in 1..Len(t) : t[i] = Revoked(c) /\ t[j] = Registered(c) => j < i
             /\ ~(Contains(s, Revoked(c)) /\ Contains(t, Registered(c)))
  <2>1. \A i, j \in 1..Len(q) : q[i] = Revoked(c) /\ q[j] = Registered(c) => j < i
    BY <1>5 DEF Ordered
  <2>2. ASSUME NEW i \in 1..Len(s), NEW j \in 1..Len(s), s[i] = Revoked(c), s[j] = Registered(c)
        PROVE  j < i
    BY <1>4, <2>1, <2>2
  <2>3. ASSUME NEW i \in 1..Len(t), NEW j \in 1..Len(t), t[i] = Revoked(c), t[j] = Registered(c)
        PROVE  j < i
    <3>1. Len(s) + j < Len(s) + i
      BY <1>4, <2>1, <2>3
    <3> QED BY <1>1, <3>1
  <2>4. ASSUME NEW i \in 1..Len(s), NEW j \in 1..Len(t), s[i] = Revoked(c), t[j] = Registered(c)
        PROVE  FALSE
    <3>1. Len(s) + j < i
      BY <1>4, <2>1, <2>4
    <3> QED BY <1>1, <3>1
  <2> QED BY <2>2, <2>3, <2>4 DEF Contains
<1>6. ASSUME Ordered(s), Ordered(t),
             \A c \in Consent : ~(Contains(s, Revoked(c)) /\ Contains(t, Registered(c))),
             NEW c \in Consent, NEW i \in 1..Len(q), NEW j \in 1..Len(q),
             q[i] = Revoked(c), q[j] = Registered(c)
      PROVE  j < i
  <2>1. CASE i \in 1..Len(s) /\ j \in 1..Len(s)
    BY <1>4, <1>6, <2>1 DEF Ordered
  <2>2. CASE i \in 1..Len(s) /\ ~(j \in 1..Len(s))
    <3>1. j - Len(s) \in 1..Len(t) /\ Len(s) + (j - Len(s)) = j
      BY <1>3, <2>2
    <3>2. t[j - Len(s)] = Registered(c) /\ s[i] = Revoked(c)
      BY <1>4, <1>6, <2>2, <3>1
    <3> QED BY <1>6, <2>2, <3>1, <3>2 DEF Contains
  <2>3. CASE ~(i \in 1..Len(s)) /\ j \in 1..Len(s)
    BY <1>1, <1>3, <2>3
  <2>4. CASE ~(i \in 1..Len(s)) /\ ~(j \in 1..Len(s))
    <3>1. /\ i - Len(s) \in 1..Len(t) /\ Len(s) + (i - Len(s)) = i
          /\ j - Len(s) \in 1..Len(t) /\ Len(s) + (j - Len(s)) = j
      BY <1>3, <2>4
    <3>2. t[i - Len(s)] = Revoked(c) /\ t[j - Len(s)] = Registered(c)
      BY <1>4, <1>6, <3>1
    <3>3. j - Len(s) < i - Len(s)
      BY <1>6, <3>1, <3>2 DEF Ordered
    <3> QED BY <1>1, <3>3
  <2> QED BY <2>1, <2>2, <2>3, <2>4
<1>7. Ordered(q) => /\ Ordered(s) /\ Ordered(t)
                    /\ \A c \in Consent : ~(Contains(s, Revoked(c)) /\ Contains(t, Registered(c)))
  BY <1>5 DEF Ordered
<1>8. /\ Ordered(s) /\ Ordered(t)
      /\ \A c \in Consent : ~(Contains(s, Revoked(c)) /\ Contains(t, Registered(c)))
      => Ordered(q)
  BY <1>6 DEF Ordered
<1> QED BY <1>2, <1>7, <1>8

\* A row of parts contains what one of its parts contains.
LEMMA FlattenContains ==
  ASSUME NEW S, NEW s \in Seq(Seq(S)), NEW i \in 1..Len(s), NEW e, Contains(s[i], e)
  PROVE  Contains(FlattenSeq(s), e)
<1> DEFINE B == {t \in Seq(Seq(S)) : \A k \in 1..Len(t) : Contains(t[k], e) => Contains(FlattenSeq(t), e)}
<1>1. << >> \in B
  OBVIOUS
<1>2. ASSUME NEW t \in Seq(Seq(S)), NEW x \in Seq(S), t \in B PROVE Append(t, x) \in B
  <2>1. /\ Len(t) \in Nat /\ Len(Append(t, x)) = Len(t) + 1 /\ Append(t, x) \in Seq(Seq(S))
        /\ Append(t, x)[Len(t) + 1] = x /\ \A k \in 1..Len(t) : Append(t, x)[k] = t[k]
    BY LenProperties, AppendProperties
  <2>2. FlattenSeq(Append(t, x)) = FlattenSeq(t) \o x /\ FlattenSeq(t) \in Seq(S)
    BY FlattenPush, FlattenType
  <2>3. Contains(FlattenSeq(Append(t, x)), e) <=> Contains(FlattenSeq(t), e) \/ Contains(x, e)
    BY <2>2, ContainsConcat
  <2>4. ASSUME NEW k \in 1..Len(Append(t, x)), Contains(Append(t, x)[k], e)
        PROVE  Contains(FlattenSeq(Append(t, x)), e)
    <3>1. k \in 1..Len(t) \/ k = Len(t) + 1
      BY <2>1
    <3>2. CASE k \in 1..Len(t)
      BY <1>2, <2>1, <2>3, <2>4, <3>2
    <3>3. CASE k = Len(t) + 1
      BY <2>1, <2>3, <2>4, <3>3
    <3> QED BY <3>1, <3>2, <3>3
  <2> QED BY <2>1, <2>4
<1> HIDE DEF B
<1>3. s \in B
  BY <1>1, <1>2, SequenceInduction
<1> QED BY <1>3 DEF B

\* A function on the positions of a row, for one part more.
LEMMA PartsPush ==
  ASSUME NEW S, NEW n \in Nat, NEW f \in [1..(n + 1) -> S], NEW g \in [1..n -> S], NEW e,
         \A i \in 1..n : f[i] = g[i], f[n + 1] = e
  PROVE  f = Append(g, e)
<1>1. f \in Seq(S) /\ Len(f) = n + 1 /\ g \in Seq(S) /\ Len(g) = n
  BY FunctionIsSequence
<1>2. e \in S
  OBVIOUS
<1>3. /\ Append(g, e) \in Seq(S) /\ Len(Append(g, e)) = n + 1 /\ Append(g, e)[n + 1] = e
      /\ \A i \in 1..n : Append(g, e)[i] = g[i]
  BY <1>1, <1>2, AppendProperties
<1>4. \A i \in 1..(n + 1) : i \in 1..n \/ i = n + 1
  OBVIOUS
<1>5. \A i \in 1..Len(f) : f[i] = Append(g, e)[i]
  BY <1>1, <1>3, <1>4
<1> QED BY <1>1, <1>3, <1>5, SeqEqual

\* What the query matches in a block with one log more.
LEMMA MatchingPush ==
  ASSUME NEW block \in Seq(Log), NEW e \in Log
  PROVE  matching(Append(block, e)) =
           matching(block) \o (IF Emitted[e.event] \in Watched THEN <<e>> ELSE << >>)
<1> DEFINE part(x) == IF Emitted[x.event] \in Watched THEN <<x>> ELSE << >>
           n == Len(block)
           more == Append(block, e)
           f == [i \in 1..(n + 1) |-> part(more[i])]
           g == [i \in 1..n |-> part(block[i])]
<1>1. /\ n \in Nat /\ DOMAIN block = 1..n /\ \A i \in 1..n : block[i] \in Log
      /\ DOMAIN more = 1..(n + 1) /\ more[n + 1] = e /\ \A i \in 1..n : more[i] = block[i]
  <2>1. n \in Nat /\ DOMAIN block = 1..n /\ \A i \in 1..n : block[i] \in Log
    BY LenProperties, ElementOfSeq
  <2>2. more \in Seq(Log) /\ Len(more) = n + 1 /\ more[n + 1] = e /\ \A i \in 1..n : more[i] = block[i]
    BY AppendProperties
  <2>3. DOMAIN more = 1..(n + 1)
    BY <2>2, LenProperties
  <2> QED BY <2>1, <2>2, <2>3
<1>2. \A x \in Log : part(x) \in Seq(Log)
  OBVIOUS
<1>3. g \in [1..n -> Seq(Log)]
  <2> HIDE DEF part
  <2> QED BY <1>1, <1>2
<1>4. f \in [1..(n + 1) -> Seq(Log)] /\ f[n + 1] = part(e) /\ \A i \in 1..n : f[i] = g[i]
  <2>1. \A i \in 1..(n + 1) : i \in 1..n \/ i = n + 1
    BY <1>1
  <2>2. \A i \in 1..(n + 1) : more[i] \in Log
    BY <1>1, <2>1
  <2>3. n + 1 \in 1..(n + 1) /\ \A i \in 1..n : i \in 1..(n + 1)
    BY <1>1
  <2> HIDE DEF part, more
  <2> QED BY <1>1, <1>2, <2>2, <2>3
<1>5. matching(more) = FlattenSeq(f) /\ matching(block) = FlattenSeq(g)
  <2> HIDE DEF more
  <2> QED BY <1>1 DEF matching
<1> HIDE DEF f, g, part, n
<1>6. f = Append(g, part(e))
  BY <1>1, <1>3, <1>4, PartsPush
<1>7. g \in Seq(Seq(Log)) /\ part(e) \in Seq(Log)
  BY <1>1, <1>2, <1>3, FunctionIsSequence
<1>8. FlattenSeq(f) = FlattenSeq(g) \o part(e)
  BY <1>6, <1>7, FlattenPush
<1> QED BY <1>5, <1>8 DEF part

\* The matched logs of a block are logs of it, and in its order.
LEMMA MatchingOrdered ==
  ASSUME NEW block \in Seq(Log)
  PROVE  /\ \A e \in Log : Contains(matching(block), e) => Contains(block, e)
         /\ \A e \in Log : Contains(block, e) /\ Emitted[e.event] \in Watched => Contains(matching(block), e)
         /\ Ordered(block) => Ordered(matching(block))
<1> DEFINE Good(x) ==
             /\ \A e \in Log : Contains(matching(x), e) => Contains(x, e)
             /\ \A e \in Log : Contains(x, e) /\ Emitted[e.event] \in Watched => Contains(matching(x), e)
             /\ Ordered(x) => Ordered(matching(x))
           B == {x \in Seq(Log) : Good(x)}
<1>1. << >> \in B
  <2>1. matching(<< >>) = << >>
    <3>1. [i \in DOMAIN << >> |-> IF Emitted[<< >>[i].event] \in Watched THEN << << >>[i] >> ELSE << >>] = << >>
      OBVIOUS
    <3> QED BY <3>1, FlattenEmpty DEF matching
  <2> QED BY <2>1, EmptySeq DEF Contains, Ordered
<1>2. ASSUME NEW x \in Seq(Log), NEW l \in Log, x \in B PROVE Append(x, l) \in B
  <2>1. PICK m : m = matching(x)
    OBVIOUS
  <2>2. m \in Seq(Log) /\ <<l>> \in Seq(Log) /\ << >> \in Seq(Log)
    BY <2>1, MatchingType, EmptySeq
  <2>3. /\ \A e \in Log : Contains(m, e) => Contains(x, e)
        /\ \A e \in Log : Contains(x, e) /\ Emitted[e.event] \in Watched => Contains(m, e)
        /\ Ordered(x) => Ordered(m)
    BY <1>2, <2>1
  <2>4. Append(x, l) = x \o <<l>> /\ Append(x, l) \in Seq(Log)
    BY AppendProperties, AppendIsConcat
  <2>5. \A e : Contains(<<l>>, e) <=> e = l
    <3>1. Len(<<l>>) = 1 /\ <<l>>[1] = l /\ \A i \in 1..1 : i = 1
      OBVIOUS
    <3> QED BY <3>1 DEF Contains
  <2>6. \A e : Contains(Append(x, l), e) <=> Contains(x, e) \/ e = l
    <3>1. PICK u : u = <<l>>
      OBVIOUS
    <3>2. \A e : Contains(x \o u, e) <=> Contains(x, e) \/ Contains(u, e)
      BY <2>2, <3>1, ContainsConcat
    <3> QED BY <2>4, <2>5, <3>1, <3>2
  <2>7. /\ Ordered(Append(x, l)) => Ordered(x)
        /\ Ordered(Append(x, l)) => \A c \in Consent : ~(Contains(x, Revoked(c)) /\ l = Registered(c))
    BY <2>2, <2>4, <2>5, OrderedConcat
  <2>8. \A c \in Consent : Revoked(c) \in Log
    BY DEF Revoked, Log, Kind
  <2>9. CASE Emitted[l.event] \in Watched
    <3>1. matching(Append(x, l)) = m \o <<l>>
      BY <2>1, <2>9, MatchingPush
    <3>2. \A e : Contains(m \o <<l>>, e) <=> Contains(m, e) \/ e = l
      BY <2>2, <2>5, ContainsConcat
    <3>3. Ordered(<<l>>)
      <4>1. Len(<<l>>) = 1 /\ <<l>>[1] = l /\ \A i \in 1..1 : i = 1
        OBVIOUS
      <4>2. \A c \in Consent : Revoked(c) # Registered(c)
        BY DEF Revoked, Registered
      <4> QED BY <4>1, <4>2 DEF Ordered
    <3>4. Ordered(Append(x, l)) => Ordered(m \o <<l>>)
      BY <2>2, <2>3, <2>5, <2>7, <2>8, <3>3, OrderedConcat
    <3>5. Good(Append(x, l))
      BY <2>3, <2>6, <3>1, <3>2, <3>4
    <3> QED BY <2>4, <3>5
  <2>10. CASE ~(Emitted[l.event] \in Watched)
    <3>1. matching(Append(x, l)) = m
      BY <2>1, <2>2, <2>10, MatchingPush, ConcatEmptySeq
    <3>2. Good(Append(x, l))
      BY <2>3, <2>6, <2>7, <2>10, <3>1
    <3> QED BY <2>4, <3>2
  <2> QED BY <2>9, <2>10
<1> HIDE DEF B
<1>3. block \in B
  BY <1>1, <1>2, SequenceInduction
<1> QED BY <1>3 DEF B

\* What is read of a chain with one block more.
LEMMA ReadPush ==
  ASSUME NEW blocks \in Seq(Seq(Log)), NEW x \in Seq(Log), NEW s, NEW r, NEW l
  PROVE  \E e \in {matching(x), << >>} :
           FlattenSeq(Read(Append(blocks, x), s, r, l)) = FlattenSeq(Read(blocks, s, r, l)) \o e
<1> DEFINE n == Len(blocks)
           more == Append(blocks, x)
           f == Read(more, s, r, l)
           g == Read(blocks, s, r, l)
<1>1. /\ n \in Nat /\ more \in Seq(Seq(Log)) /\ Len(more) = n + 1 /\ more[n + 1] = x
      /\ \A i \in 1..n : more[i] = blocks[i]
  BY LenProperties, AppendProperties
<1>2. /\ \A i \in 1..(n + 1) : matching(more[i]) \in Seq(Log)
      /\ \A i \in 1..n : matching(blocks[i]) \in Seq(Log)
      /\ matching(x) \in Seq(Log) /\ << >> \in Seq(Log)
  <2> HIDE DEF more
  <2> QED BY <1>1, MatchedType, MatchingType, EmptySeq
<1>3. n + 1 \in 1..(n + 1) /\ \A i \in 1..n : i \in 1..(n + 1)
  BY <1>1
<1>4. f \in [1..(n + 1) -> Seq(Log)] /\ f[n + 1] \in {matching(x), << >>}
  <2> HIDE DEF more
  <2> QED BY <1>1, <1>2, <1>3 DEF Read
<1>5. g \in [1..n -> Seq(Log)] /\ \A i \in 1..n : f[i] = g[i]
  <2> HIDE DEF more
  <2> QED BY <1>1, <1>2, <1>3 DEF Read
<1> HIDE DEF f, g, n
<1>6. f = Append(g, f[n + 1])
  BY <1>1, <1>4, <1>5, PartsPush
<1>7. g \in Seq(Seq(Log)) /\ f[n + 1] \in Seq(Log)
  BY <1>1, <1>2, <1>4, <1>5, FunctionIsSequence
<1>8. FlattenSeq(f) = FlattenSeq(g) \o f[n + 1]
  BY <1>6, <1>7, FlattenPush
<1> QED BY <1>4, <1>8 DEF f, g

\* What is read of a chain is on it, and in its order.
LEMMA ReadOrdered ==
  ASSUME NEW blocks \in Seq(Seq(Log)), NEW s, NEW r, NEW l
  PROVE  /\ \A e \in Log : Contains(FlattenSeq(Read(blocks, s, r, l)), e) => Contains(FlattenSeq(blocks), e)
         /\ Ordered(FlattenSeq(blocks)) => Ordered(FlattenSeq(Read(blocks, s, r, l)))
<1> DEFINE Good(b) ==
             /\ \A e \in Log : Contains(FlattenSeq(Read(b, s, r, l)), e) => Contains(FlattenSeq(b), e)
             /\ Ordered(FlattenSeq(b)) => Ordered(FlattenSeq(Read(b, s, r, l)))
           B == {b \in Seq(Seq(Log)) : Good(b)}
<1>1. << >> \in B
  <2>1. Read(<< >>, s, r, l) = << >>
    BY DEF Read
  <2>2. << >> \in Seq(Seq(Log))
    BY EmptySeq
  <2>3. Good(<< >>)
    BY <2>1
  <2> QED BY <2>2, <2>3
<1>2. ASSUME NEW b \in Seq(Seq(Log)), NEW x \in Seq(Log), b \in B PROVE Append(b, x) \in B
  <2>1. PICK e \in {matching(x), << >>} :
          FlattenSeq(Read(Append(b, x), s, r, l)) = FlattenSeq(Read(b, s, r, l)) \o e
    BY ReadPush
  <2>2. PICK p, q : p = FlattenSeq(Read(b, s, r, l)) /\ q = FlattenSeq(b)
    OBVIOUS
  <2>3. p \in Seq(Log) /\ q \in Seq(Log)
    BY <2>2, ReadType, FlattenType
  <2>4. e \in Seq(Log) /\ (\A a \in Log : Contains(e, a) => Contains(x, a)) /\ (Ordered(x) => Ordered(e))
    <3>1. CASE e = matching(x)
      BY <3>1, MatchingType, MatchingOrdered
    <3>2. CASE e = << >>
      BY <3>2, EmptySeq DEF Contains, Ordered
    <3> QED BY <3>1, <3>2
  <2>5. FlattenSeq(Append(b, x)) = q \o x /\ Append(b, x) \in Seq(Seq(Log))
    BY <2>2, FlattenPush, AppendProperties
  <2>6. (\A a \in Log : Contains(p, a) => Contains(q, a)) /\ (Ordered(q) => Ordered(p))
    BY <1>2, <2>2
  <2>7. \A c \in Consent : Revoked(c) \in Log /\ Registered(c) \in Log
    BY DEF Revoked, Registered, Log, Kind
  <2>8. /\ \A a : Contains(p \o e, a) <=> Contains(p, a) \/ Contains(e, a)
        /\ \A a : Contains(q \o x, a) <=> Contains(q, a) \/ Contains(x, a)
    BY <2>3, <2>4, ContainsConcat
  <2>9. Ordered(q \o x) => Ordered(p \o e)
    BY <2>3, <2>4, <2>6, <2>7, OrderedConcat
  <2>10. Good(Append(b, x))
    BY <2>1, <2>2, <2>4, <2>5, <2>6, <2>8, <2>9
  <2> QED BY <2>5, <2>10
<1> HIDE DEF B
<1>3. blocks \in B
  BY <1>1, <1>2, SequenceInduction
<1> QED BY <1>3 DEF B

-----------------------------------------------------------------------------
(* The cache *)

\* The registry registers a consent before it revokes it, and never after.
ChainInOrder(ch) ==
  /\ Ordered(LogsOf(ch))
  /\ \A c \in Consent : Contains(LogsOf(ch), Revoked(c)) => Contains(LogsOf(ch), Registered(c))

\* No entry is left of a consent whose revocation the run has applied.
CacheCurrent(ch) ==
  Listening(ch) /\ redis /\ ch \notin failed =>
    \A c \in cache[ch] : ~Contains(processed[ch], Revoked(c))

CacheInv == \A ch \in Chain : ChainInOrder(ch) /\ CacheCurrent(ch)

LEMMA ContainsOne == ASSUME NEW l PROVE \A e : Contains(<<l>>, e) <=> e = l
<1>1. Len(<<l>>) = 1 /\ <<l>>[1] = l /\ \A i \in 1..1 : i = 1
  OBVIOUS
<1> QED BY <1>1 DEF Contains

LEMMA LogKinds ==
  /\ \A c \in Consent : Registered(c) \in Log /\ Revoked(c) \in Log
  /\ \A c, d \in Consent : /\ Revoked(c) # Registered(d)
                           /\ Registered(c) = Registered(d) => c = d
                           /\ Revoked(c) = Revoked(d) => c = d
<1>1. \A c \in Consent : Registered(c) \in Log /\ Revoked(c) \in Log
  BY DEF Registered, Revoked, Log, Kind
<1>2. ASSUME NEW c \in Consent, NEW d \in Consent
      PROVE  /\ Revoked(c) # Registered(d)
             /\ Registered(c) = Registered(d) => c = d
             /\ Revoked(c) = Revoked(d) => c = d
  <2>1. /\ Registered(c).id = c /\ Registered(d).id = d /\ Registered(d).event = "ConsentRegistered"
        /\ Revoked(c).id = c /\ Revoked(d).id = d /\ Revoked(c).event = "ConsentRevoked"
    BY DEF Registered, Revoked
  <2> QED BY <2>1
<1> QED BY <1>1, <1>2

\* A log of the registry keeps a row in order: a registration of a consent that
\* is not registered yet, a revocation of one that is.
LEMMA OrderedPush ==
  ASSUME NEW s \in Seq(Log), NEW c \in Consent, Ordered(s),
         \A d \in Consent : Contains(s, Revoked(d)) => Contains(s, Registered(d)),
         NEW l, \/ l = Registered(c) /\ ~Contains(s, Registered(c))
                \/ l = Revoked(c) /\ Contains(s, Registered(c))
  PROVE  /\ s \o <<l>> \in Seq(Log) /\ Ordered(s \o <<l>>)
         /\ \A e : Contains(s \o <<l>>, e) <=> Contains(s, e) \/ e = l
         /\ \A d \in Consent : Contains(s \o <<l>>, Revoked(d)) => Contains(s \o <<l>>, Registered(d))
<1>1. PICK u : u = <<l>>
  OBVIOUS
<1>2. l \in Log /\ u \in Seq(Log) /\ Len(u) = 1 /\ u[1] = l
  BY <1>1, LogKinds
<1>3. \A e : Contains(u, e) <=> e = l
  BY <1>1, ContainsOne
<1>4. \A e : Contains(s \o u, e) <=> Contains(s, e) \/ e = l
  BY <1>2, <1>3, ContainsConcat
<1>5. Ordered(u)
  <2>1. \A i \in 1..1 : i = 1
    OBVIOUS
  <2> QED BY <1>2, <2>1, LogKinds DEF Ordered
<1>6. \A d \in Consent : ~(Contains(s, Revoked(d)) /\ Contains(u, Registered(d)))
  BY <1>3, LogKinds
<1>7. Ordered(s \o u)
  BY <1>2, <1>5, <1>6, OrderedConcat
<1>8. \A d \in Consent : Contains(s \o u, Revoked(d)) => Contains(s \o u, Registered(d))
  BY <1>4, LogKinds
<1>9. s \o u \in Seq(Log)
  BY <1>2, ConcatProperties
<1> QED BY <1>1, <1>4, <1>7, <1>8, <1>9

\* A block the registry can mine keeps the chain in order.
LEMMA ChainStaysInOrder ==
  ASSUME IndexerInv, NEW ch \in Chain, ChainInOrder(ch), Mine(ch)
  PROVE  ChainInOrder(ch)'
<1>1. PICK b \in Blocks(ch) : chain' = [chain EXCEPT ![ch] = Append(@, b)]
  BY DEF Mine
<1>2. chain \in [Chain -> Seq(Seq(Log))] /\ chain[ch] \in Seq(Seq(Log))
  BY DEF IndexerInv, Types
<1>3. chain'[ch] = Append(chain[ch], b)
  BY <1>1, <1>2
<1>4. PICK s : s = LogsOf(ch)
  OBVIOUS
<1>5. /\ s \in Seq(Log) /\ Ordered(s)
      /\ \A c \in Consent : Contains(s, Revoked(c)) => Contains(s, Registered(c))
  BY <1>2, <1>4, FlattenType DEF LogsOf, ChainInOrder
<1> DEFINE Good(t) == /\ Ordered(t)
                      /\ \A c \in Consent : Contains(t, Revoked(c)) => Contains(t, Registered(c))
<1>6. SUFFICES b \in Seq(Log) /\ Good(s \o b)
  <2>1. ASSUME b \in Seq(Log), Good(s \o b) PROVE ChainInOrder(ch)'
    <3>1. FlattenSeq(Append(chain[ch], b)) = FlattenSeq(chain[ch]) \o b
      BY <1>2, <2>1, FlattenPush
    <3>2. LogsOf(ch)' = s \o b
      BY <1>3, <1>4, <3>1 DEF LogsOf
    <3> QED BY <2>1, <3>2 DEF ChainInOrder
  <2> QED BY <2>1
<1>7. CASE b = << >>
  <2>1. s \o << >> = s
    BY <1>5, ConcatEmptySeq
  <2> QED BY <1>5, <1>7, <2>1, EmptySeq
<1>8. ASSUME NEW c \in Consent, ~Contains(s, Registered(c)), b = <<Registered(c)>>
      PROVE  b \in Seq(Log) /\ Good(s \o b)
  BY <1>5, <1>8, OrderedPush, LogKinds
<1>9. ASSUME NEW c \in Consent, Contains(s, Registered(c)), b = <<Revoked(c)>>
      PROVE  b \in Seq(Log) /\ Good(s \o b)
  BY <1>5, <1>9, OrderedPush, LogKinds
<1>10. ASSUME NEW c \in Consent, ~Contains(s, Registered(c)), b = <<Registered(c), Revoked(c)>>
       PROVE  b \in Seq(Log) /\ Good(s \o b)
  <2>1. PICK t : t = s \o <<Registered(c)>>
    OBVIOUS
  <2>2. /\ t \in Seq(Log) /\ Ordered(t)
        /\ \A e : Contains(t, e) <=> Contains(s, e) \/ e = Registered(c)
        /\ \A d \in Consent : Contains(t, Revoked(d)) => Contains(t, Registered(d))
    BY <1>5, <1>10, <2>1, OrderedPush
  <2>3. Good(t \o <<Revoked(c)>>)
    BY <2>2, OrderedPush
  <2>4. /\ <<Registered(c)>> \in Seq(Log) /\ <<Revoked(c)>> \in Seq(Log)
        /\ b \in Seq(Log) /\ b = <<Registered(c)>> \o <<Revoked(c)>>
    BY <1>10, LogKinds
  <2>5. s \o b = t \o <<Revoked(c)>>
    BY <1>5, <2>1, <2>4, ConcatAssociative
  <2> QED BY <2>3, <2>4, <2>5
<1>11. \/ b = << >>
       \/ \E c \in Consent : ~Contains(s, Registered(c)) /\ b = <<Registered(c)>>
       \/ \E c \in Consent : ~Contains(s, Registered(c)) /\ b = <<Registered(c), Revoked(c)>>
       \/ \E c \in Consent : Contains(s, Registered(c)) /\ b = <<Revoked(c)>>
  BY <1>1, <1>4 DEF Blocks, Happened, Registered, Revoked
<1> QED BY <1>7, <1>8, <1>9, <1>10, <1>11

\* A listener that applies no log keeps what it had: entries may only go.
LEMMA CacheKept ==
  ASSUME NEW ch, CacheCurrent(ch), Listening(ch)' => Listening(ch), redis' = redis,
         processed'[ch] = processed[ch], cache'[ch] \subseteq cache[ch],
         ch \in failed => ch \in failed'
  PROVE  CacheCurrent(ch)'
BY DEF CacheCurrent

LEMMA ChainKept ==
  ASSUME NEW ch, ChainInOrder(ch), chain'[ch] = chain[ch]
  PROVE  ChainInOrder(ch)'
BY DEF ChainInOrder, LogsOf

\* A listener that has just begun has applied nothing.
LEMMA NothingApplied ==
  ASSUME NEW ch, processed'[ch] = << >>
  PROVE  CacheCurrent(ch)'
<1>1. \A e : ~Contains(<< >>, e)
  BY DEF Contains
<1> QED BY <1>1 DEF CacheCurrent

\* A registration that is applied was not revoked before; a revocation that is
\* applied removes the entry.
LEMMA CacheAfterLog ==
  ASSUME IndexerInv, NEW ch \in Chain, ChainInOrder(ch), CacheCurrent(ch), processEventLog(ch)
  PROVE  CacheCurrent(ch)'
<1>1. /\ pc[ch] = "process" /\ redis' = redis
      /\ processed' = [processed EXCEPT ![ch] = Append(processed[ch], Head(logs[ch]))]
  BY DEF processEventLog
<1>2. Types /\ Place(ch) /\ Reads(ch) /\ logs[ch] # << >>
  BY <1>1 DEF IndexerInv, Place
<1>3. PICK p, l, e, w : p = processed[ch] /\ l = logs[ch] /\ e = Head(logs[ch]) /\ w = cache[ch]
  OBVIOUS
<1>4. p \in Seq(Log) /\ l \in Seq(Log) /\ l # << >> /\ e = Head(l)
  BY <1>2, <1>3 DEF Types
<1>5. e \in Log /\ Append(p, e) \in Seq(Log) /\ Contains(l, e)
  <2>1. Len(l) \in Nat /\ Len(l) # 0 /\ e = l[1] /\ 1 \in 1..Len(l) /\ l[1] \in Log
    BY <1>4
  <2> QED BY <1>4, <2>1, AppendProperties DEF Contains
<1>6. Ordered(p \o l)
  <2>1. chain[ch] \in Seq(Seq(Log))
    BY <1>2 DEF Types
  <2>2. Ordered(FlattenSeq(Read(chain[ch], start[ch], To(ch), lost[ch])))
    BY <2>1, ReadOrdered DEF ChainInOrder, LogsOf
  <2>3. Listening(ch) /\ Pending(ch) = logs[ch] /\ Reached(ch) = To(ch)
    BY <1>1, ReachedIs DEF Listening, Pending
  <2>4. processed[ch] \o logs[ch] = FlattenSeq(Read(chain[ch], start[ch], To(ch), lost[ch]))
    BY <1>2, <2>3 DEF Reads
  <2> QED BY <1>3, <2>2, <2>4
<1>7. \A c \in Consent : ~(Contains(p, Revoked(c)) /\ Contains(l, Registered(c)))
  BY <1>4, <1>6, OrderedConcat
<1>8. processed'[ch] = Append(p, e)
  BY <1>1, <1>2, <1>3 DEF Types
<1>9. \A a : Contains(Append(p, e), a) <=> Contains(p, a) \/ a = e
  <2>1. PICK u : u = <<e>>
    OBVIOUS
  <2>2. u \in Seq(Log) /\ \A a : Contains(u, a) <=> a = e
    BY <1>5, <2>1, ContainsOne
  <2>3. Append(p, e) = p \o u
    BY <1>4, <1>5, <2>1, AppendIsConcat
  <2>4. \A a : Contains(p \o u, a) <=> Contains(p, a) \/ Contains(u, a)
    BY <1>4, <2>2, ContainsConcat
  <2> QED BY <2>2, <2>3, <2>4
<1> SUFFICES ASSUME redis, ch \notin failed', NEW c \in cache'[ch]
             PROVE  ~Contains(Append(p, e), Revoked(c))
  BY <1>1, <1>8 DEF CacheCurrent
<1>10. /\ redis /\ UNCHANGED failed
       /\ IF e.event = "ConsentRegistered"
          THEN handleConsentRegistered(ch, e.id)
          ELSE handleConsentRevoked(ch, e.id)
  <2>1. \/ /\ redis /\ UNCHANGED failed
           /\ IF e.event = "ConsentRegistered"
              THEN handleConsentRegistered(ch, e.id)
              ELSE handleConsentRevoked(ch, e.id)
        \/ failed' = failed \cup {ch}
    BY <1>3 DEF processEventLog
  <2> QED BY <2>1
<1>11. \A d \in w : ~Contains(p, Revoked(d))
  BY <1>1, <1>3, <1>10 DEF CacheCurrent, Listening
<1>12. cache \in [Chain -> SUBSET Consent] /\ w \in SUBSET Consent /\ e.id \in Consent
  BY <1>2, <1>3, <1>5 DEF Types, Log
<1>13. CASE e.event = "ConsentRegistered"
  <2>1. cache'[ch] = w \cup {e.id}
    BY <1>3, <1>10, <1>12, <1>13 DEF handleConsentRegistered
  <2>2. e = Registered(e.id)
    BY <1>5, <1>13 DEF Log, Registered
  <2>3. ~Contains(p, Revoked(e.id))
    BY <1>5, <1>7, <1>12, <2>2
  <2>4. c \in Consent /\ ~Contains(p, Revoked(c))
    BY <1>11, <1>12, <2>1, <2>3
  <2>5. Revoked(c) # e
    BY <1>12, <2>2, <2>4, LogKinds
  <2> QED BY <1>9, <2>4, <2>5
<1>14. CASE e.event # "ConsentRegistered"
  <2>1. cache'[ch] = w \ {e.id}
    BY <1>3, <1>10, <1>12, <1>14 DEF handleConsentRevoked
  <2>2. e = Revoked(e.id)
    BY <1>5, <1>14 DEF Log, Kind, Revoked
  <2>3. c \in Consent /\ c # e.id /\ ~Contains(p, Revoked(c))
    BY <1>11, <1>12, <2>1
  <2>4. Revoked(c) # e
    BY <1>12, <2>2, <2>3, LogKinds
  <2> QED BY <1>9, <2>3, <2>4
<1> QED BY <1>13, <1>14

LEMMA CacheInvInit == Init => CacheInv
<1> SUFFICES ASSUME Init, NEW ch \in Chain PROVE ChainInOrder(ch) /\ CacheCurrent(ch)
  BY DEF CacheInv
<1>1. pc[ch] = "off" /\ chain[ch] = << >>
  BY DEF Init
<1>2. LogsOf(ch) = << >>
  BY <1>1, FlattenEmpty DEF LogsOf
<1>3. ChainInOrder(ch)
  BY <1>2 DEF ChainInOrder, Ordered, Contains
<1>4. CacheCurrent(ch)
  BY <1>1 DEF CacheCurrent, Listening
<1> QED BY <1>3, <1>4

LEMMA CacheInvNext == IndexerInv /\ CacheInv /\ [Next]_vars => CacheInv'
<1> SUFFICES ASSUME IndexerInv, CacheInv, [Next]_vars, NEW ch \in Chain
             PROVE  ChainInOrder(ch)' /\ CacheCurrent(ch)'
  BY DEF CacheInv
<1>1. ChainInOrder(ch) /\ CacheCurrent(ch) /\ Types /\ Place(ch)
  BY DEF CacheInv, IndexerInv
<1>2. CASE Start
  <2>1. chain' = chain /\ processed'[ch] = << >>
    BY <1>1, <1>2 DEF Start, Place, history
  <2> QED BY <1>1, <2>1, ChainKept, NothingApplied
<1>3. CASE Stop
  <2>1. chain' = chain /\ pc'[ch] = "off"
    BY <1>3 DEF Stop
  <2>2. CacheCurrent(ch)'
    BY <2>1 DEF CacheCurrent, Listening
  <2> QED BY <1>1, <2>1, <2>2, ChainKept
<1>4. ASSUME NEW o \in Chain, Mine(o) PROVE ChainInOrder(ch)' /\ CacheCurrent(ch)'
  <2>1. /\ UNCHANGED <<pc, redis, processed, cache, failed>>
        /\ \E b \in Blocks(o) : chain' = [chain EXCEPT ![o] = Append(@, b)]
    BY <1>4 DEF Mine, history
  <2>2. CacheCurrent(ch)'
    BY <1>1, <2>1, CacheKept DEF Listening
  <2>3. CASE o = ch
    BY <1>1, <1>4, <2>2, <2>3, ChainStaysInOrder
  <2>4. CASE o # ch
    <3>1. chain'[ch] = chain[ch]
      BY <1>1, <2>1, <2>4 DEF Types
    <3> QED BY <1>1, <2>2, <3>1, ChainKept
  <2> QED BY <2>3, <2>4
<1>5. ASSUME NEW o \in Chain, Expire(o) PROVE ChainInOrder(ch)' /\ CacheCurrent(ch)'
  <2>1. /\ UNCHANGED <<chain, pc, redis, processed, failed>>
        /\ \E c \in cache[o] : cache' = [cache EXCEPT ![o] = @ \ {c}]
    BY <1>5 DEF Expire, history
  <2>2. cache'[ch] \subseteq cache[ch]
    BY <1>1, <2>1 DEF Types
  <2>3. Listening(ch)' = Listening(ch)
    BY <2>1 DEF Listening
  <2> QED BY <1>1, <2>1, <2>2, <2>3, CacheKept, ChainKept
<1>6. ASSUME NEW o \in Chain, listenChain(o) PROVE ChainInOrder(ch)' /\ CacheCurrent(ch)'
  <2>1. /\ UNCHANGED <<chain, redis, processed, cache, failed>> /\ pc[o] = "connect"
        /\ \E x \in {"gone", "poll"} : pc' = [pc EXCEPT ![o] = x]
    BY <1>6 DEF listenChain
  <2>2. CASE o = ch
    <3>1. processed'[ch] = << >>
      BY <1>1, <2>1, <2>2 DEF Place
    <3> QED BY <1>1, <2>1, <3>1, ChainKept, NothingApplied
  <2>3. CASE o # ch
    <3>1. pc'[ch] = pc[ch]
      BY <1>1, <2>1, <2>3 DEF Types
    <3>2. Listening(ch)' = Listening(ch)
      BY <3>1 DEF Listening
    <3> QED BY <1>1, <2>1, <3>2, ChainKept, CacheKept
  <2> QED BY <2>2, <2>3
<1>7. ASSUME NEW o \in Chain, Poll(o) \/ FilterSucceeds(o) \/ FilterFails(o)
      PROVE  ChainInOrder(ch)' /\ CacheCurrent(ch)'
  <2>1. /\ UNCHANGED <<chain, redis, processed, cache, failed>> /\ pc[o] \in {"poll", "filter"}
        /\ \E x \in {"filter", "poll", "process"} : pc' = [pc EXCEPT ![o] = x]
    BY <1>7 DEF Poll, FilterSucceeds, FilterFails, NextBatch, history
  <2>2. Listening(ch)' = Listening(ch)
    BY <1>1, <2>1 DEF Listening, Types
  <2> QED BY <1>1, <2>1, <2>2, ChainKept, CacheKept
<1>8. ASSUME NEW o \in Chain, processEventLog(o) PROVE ChainInOrder(ch)' /\ CacheCurrent(ch)'
  <2>1. chain' = chain /\ redis' = redis /\ pc[o] = "process"
    BY <1>8 DEF processEventLog
  <2>2. CASE o = ch
    BY <1>1, <1>8, <2>1, <2>2, ChainKept, CacheAfterLog
  <2>3. CASE o # ch
    <3>1. /\ pc' = pc \/ \E x \in {"filter", "poll"} : pc' = [pc EXCEPT ![o] = x]
          /\ processed' = [processed EXCEPT ![o] = Append(@, Head(logs[o]))]
          /\ failed' = failed \/ failed' = failed \cup {o}
          /\ cache' = cache \/ \E w : cache' = [cache EXCEPT ![o] = w]
      <4>1. pc' = pc \/ \E x \in {"filter", "poll"} : pc' = [pc EXCEPT ![o] = x]
        BY <1>8 DEF processEventLog, NextBatch
      <4>2. cache' = cache \/ \E w : cache' = [cache EXCEPT ![o] = w]
        BY <1>8 DEF processEventLog, handleConsentRegistered, handleConsentRevoked
      <4> QED BY <1>8, <4>1, <4>2 DEF processEventLog
    <3>2. pc'[ch] = pc[ch] /\ processed'[ch] = processed[ch] /\ cache'[ch] = cache[ch]
      BY <1>1, <2>3, <3>1 DEF Types
    <3>3. Listening(ch)' = Listening(ch)
      BY <3>2 DEF Listening
    <3> QED BY <1>1, <2>1, <3>1, <3>2, <3>3, ChainKept, CacheKept
  <2> QED BY <2>2, <2>3
<1>9. ASSUME NEW o \in Chain, HangInRPC(o) \/ HangInQdrant(o)
      PROVE  ChainInOrder(ch)' /\ CacheCurrent(ch)'
  <2>1. /\ UNCHANGED <<chain, redis, processed, cache, failed>>
        /\ \E x \in {"hung", "stuck"} : pc' = [pc EXCEPT ![o] = x]
    BY <1>9 DEF HangInRPC, HangInQdrant, Hang, history
  <2>2. CASE o = ch
    <3>1. ~Listening(ch)'
      BY <1>1, <2>1, <2>2 DEF Listening, Types
    <3> QED BY <1>1, <2>1, <3>1, ChainKept DEF CacheCurrent
  <2>3. CASE o # ch
    <3>1. Listening(ch)' = Listening(ch)
      BY <1>1, <2>1, <2>3 DEF Listening, Types
    <3> QED BY <1>1, <2>1, <3>1, ChainKept, CacheKept
  <2> QED BY <2>2, <2>3
<1>10. CASE UNCHANGED vars
  <2>1. UNCHANGED <<chain, redis, pc, processed, cache, failed>>
    BY <1>10 DEF vars, history
  <2>2. Listening(ch)' = Listening(ch)
    BY <2>1 DEF Listening
  <2> QED BY <1>1, <2>1, <2>2, ChainKept, CacheKept
<1> QED BY <1>2, <1>3, <1>4, <1>5, <1>6, <1>7, <1>8, <1>9, <1>10 DEF Next, Listener

\* The cache, when the query matches the registry's revocations.  Without a failed
\* call of FilterLogs or Redis, a listener between two ticks has no entry for a
\* consent that was revoked in the blocks it has read: neither the batches, nor a
\* backfill that registers the consent again, nor a restart brings one back.
THEOREM RevokedEntriesGone ==
  ASSUME Emitted["ConsentRevoked"] \in Watched
  PROVE  Spec => []NoRevokedEntry
<1>1. IndexerInv /\ CacheInv => NoRevokedEntry
  <2> SUFFICES ASSUME IndexerInv, CacheInv, NEW ch \in Chain,
                      pc[ch] = "poll", redis, lost[ch] = {}, ch \notin failed,
                      NEW c \in cache[ch], RevocationRead(ch, c)
               PROVE  FALSE
    BY DEF NoRevokedEntry
  <2>1. Types /\ Reads(ch) /\ CacheCurrent(ch)
    BY DEF IndexerInv, CacheInv
  <2>2. PICK b \in 1..Len(chain[ch]) :
          /\ b > start[ch] /\ b <= lastBlock[ch] /\ Contains(chain[ch][b], Revoked(c))
    BY DEF RevocationRead, Revoked
  <2>3. chain[ch] \in Seq(Seq(Log)) /\ c \in Consent /\ processed[ch] \in Seq(Log)
    BY <2>1 DEF Types
  <2>4. chain[ch][b] \in Seq(Log) /\ Revoked(c) \in Log
    BY <2>3, ElementOfSeq, LogKinds
  <2>5. Contains(matching(chain[ch][b]), Revoked(c))
    <3>1. Revoked(c).event = "ConsentRevoked"
      BY DEF Revoked
    <3> QED BY <2>2, <2>4, <3>1, MatchingOrdered
  <2>6. PICK r : r = Read(chain[ch], start[ch], lastBlock[ch], lost[ch])
    OBVIOUS
  <2>7. r \in Seq(Seq(Log)) /\ Len(r) = Len(chain[ch]) /\ Contains(r[b], Revoked(c))
    <3>1. r \in Seq(Seq(Log)) /\ Len(r) = Len(chain[ch])
      BY <2>3, <2>6, ReadType
    <3>2. r[b] = matching(chain[ch][b])
      BY <2>2, <2>6 DEF Read
    <3> QED BY <2>5, <3>1, <3>2
  <2>8. Contains(FlattenSeq(r), Revoked(c))
    BY <2>7, FlattenContains
  <2>9. processed[ch] = FlattenSeq(r)
    <3>1. Listening(ch) /\ Pending(ch) = << >> /\ Reached(ch) = lastBlock[ch]
      BY ReachedIs DEF Listening, Pending
    <3>2. processed[ch] \o << >> = FlattenSeq(r)
      BY <2>1, <2>6, <3>1 DEF Reads
    <3> QED BY <2>3, <3>2, ConcatEmptySeq
  <2>10. Listening(ch)
    BY DEF Listening
  <2> QED BY <2>1, <2>8, <2>9, <2>10 DEF CacheCurrent
<1>2. Spec => []CacheInv
  BY CacheInvInit, CacheInvNext, IndexerInvariant, PTL DEF Spec
<1> QED BY <1>1, <1>2, IndexerInvariant, PTL

-----------------------------------------------------------------------------
(* A query that matches no log of the registry *)

\* No listener has fetched a log, and nothing has been written.
NothingRead == \A ch \in Chain : pc[ch] # "process" /\ processed[ch] = << >> /\ cache[ch] = {}

LEMMA NothingMatched ==
  ASSUME \A k \in Kind : Emitted[k] \notin Watched, NEW block \in Seq(Log)
  PROVE  matching(block) = << >>
<1> DEFINE m == [i \in DOMAIN block |->
                   IF Emitted[block[i].event] \in Watched THEN <<block[i]>> ELSE << >>]
<1>1. Len(block) \in Nat /\ DOMAIN block = 1..Len(block) /\ \A i \in 1..Len(block) : block[i] \in Log
  BY LenProperties, ElementOfSeq
<1>2. \A i \in 1..Len(block) : m[i] = << >>
  <2>1. \A i \in 1..Len(block) : block[i].event \in Kind
    BY <1>1 DEF Log
  <2> QED BY <1>1, <2>1
<1>3. m \in Seq(Seq(Log)) /\ Len(m) = Len(block)
  <2>1. << >> \in Seq(Log)
    BY EmptySeq
  <2>2. m \in [1..Len(block) -> Seq(Log)]
    BY <1>1, <1>2, <2>1
  <2> HIDE DEF m
  <2> QED BY <1>1, <2>2, FunctionIsSequence
<1> HIDE DEF m
<1>4. FlattenSeq(m) = << >>
  BY <1>2, <1>3, FlattenNothing
<1> QED BY <1>4 DEF m, matching

LEMMA NothingFetched ==
  ASSUME \A k \in Kind : Emitted[k] \notin Watched,
         IndexerInv, NEW ch \in Chain, pc[ch] = "filter"
  PROVE  FilterLogs(ch, from[ch], To(ch)) = << >>
<1>1. Types
  BY DEF IndexerInv
<1>2. PICK c, f, t : c = chain[ch] /\ f = from[ch] /\ t = To(ch)
  OBVIOUS
<1>3. c \in Seq(Seq(Log)) /\ Len(c) \in Nat /\ f \in Nat /\ t \in Nat /\ 1 <= f /\ f <= t /\ t <= Len(c)
  <2>1. /\ c \in Seq(Seq(Log)) /\ Len(c) \in Nat /\ f \in Nat /\ t \in Nat
        /\ lastBlock[ch] \in Nat /\ lastBlock[ch] < f /\ f <= t /\ t <= Len(c)
    BY <1>2, InBatch
  <2> QED BY <2>1
<1>4. FilterLogs(ch, f, t) = FlattenSeq(Matched(SubSeq(c, f, t)))
  BY <1>1, <1>2, <1>3, FilterLogsIs
<1>5. PICK b : b = SubSeq(c, f, t)
  OBVIOUS
<1>6. b \in Seq(Seq(Log))
  <2>1. \A i \in f..t : i \in 1..Len(c)
    BY <1>3
  <2>2. \A i \in f..t : c[i] \in Seq(Log)
    BY <1>3, <2>1, ElementOfSeq
  <2> QED BY <1>3, <1>5, <2>2, SubSeqProperties
<1>7. /\ Len(b) \in Nat /\ DOMAIN b = 1..Len(b) /\ Matched(b) \in Seq(Seq(Log))
      /\ Len(Matched(b)) = Len(b)
  BY <1>6, MatchedType
<1>8. \A i \in 1..Len(Matched(b)) : Matched(b)[i] = << >>
  <2>1. \A i \in 1..Len(b) : b[i] \in Seq(Log)
    BY <1>6, ElementOfSeq
  <2>2. \A i \in 1..Len(b) : matching(b[i]) = << >>
    BY <2>1, NothingMatched
  <2> QED BY <1>7, <2>2 DEF Matched
<1> QED BY <1>2, <1>4, <1>5, <1>7, <1>8, FlattenNothing

\* If the registry emits none of the events that the query names, then no run
\* applies a log and no entry is ever written, whatever is registered or revoked
\* (startEventListener builds its topics from signatures that are not those of
\* IConsentRegistry.sol).
THEOREM UnmatchedNeverRead ==
  ASSUME \A k \in Kind : Emitted[k] \notin Watched
  PROVE  Spec => []NothingRead
<1>1. Init => NothingRead
  BY DEF Init, NothingRead
<1>2. IndexerInv /\ NothingRead /\ [Next]_vars => NothingRead'
  <2> SUFFICES ASSUME IndexerInv, NothingRead, [Next]_vars PROVE NothingRead'
    OBVIOUS
  <2>1. Types
    BY DEF IndexerInv
  <2>2. CASE Start
    BY <2>2 DEF Start, NothingRead, history
  <2>3. CASE Stop
    BY <2>3 DEF Stop, Forget, NothingRead
  <2>4. ASSUME NEW ch \in Chain, Mine(ch) PROVE NothingRead'
    BY <2>4 DEF Mine, NothingRead, history
  <2>5. ASSUME NEW ch \in Chain, Expire(ch) PROVE NothingRead'
    BY <2>5 DEF Expire, NothingRead
  <2>6. ASSUME NEW ch \in Chain, listenChain(ch) \/ Poll(ch) \/ FilterSucceeds(ch) \/ FilterFails(ch)
        PROVE  NothingRead'
    <3>1. /\ UNCHANGED <<processed, cache>>
          /\ \E x \in {"gone", "poll", "filter"} : pc' = [pc EXCEPT ![ch] = x]
      <4>1. CASE listenChain(ch)
        BY <4>1 DEF listenChain
      <4>2. CASE Poll(ch)
        BY <4>2 DEF Poll, history
      <4>3. CASE FilterSucceeds(ch)
        <5>1. pc[ch] = "filter"
          BY <4>3 DEF FilterSucceeds
        <5>2. NextBatch(ch) /\ UNCHANGED <<processed, cache>>
          BY <4>3, <5>1, NothingFetched DEF FilterSucceeds, history
        <5> QED BY <5>2 DEF NextBatch
      <4>4. CASE FilterFails(ch)
        BY <4>4 DEF FilterFails, NextBatch
      <4> QED BY <2>6, <4>1, <4>2, <4>3, <4>4
    <3> QED BY <2>1, <3>1 DEF NothingRead, Types
  <2>7. ASSUME NEW ch \in Chain, processEventLog(ch) PROVE NothingRead'
    BY <2>7 DEF processEventLog, NothingRead
  <2>8. ASSUME NEW ch \in Chain, HangInRPC(ch) \/ HangInQdrant(ch) PROVE NothingRead'
    <3>1. /\ UNCHANGED <<processed, cache>>
          /\ \E x \in {"hung", "stuck"} : pc' = [pc EXCEPT ![ch] = x]
      BY <2>8 DEF HangInRPC, HangInQdrant, Hang, history
    <3> QED BY <2>1, <3>1 DEF NothingRead, Types
  <2>9. CASE UNCHANGED vars
    BY <2>9 DEF vars, history, NothingRead
  <2> QED BY <2>2, <2>3, <2>4, <2>5, <2>6, <2>7, <2>8, <2>9 DEF Next, Listener
<1> QED BY <1>1, <1>2, IndexerInvariant, PTL DEF Spec
=============================================================================
