--------------------------- MODULE Streaming_proofs ---------------------------
(***************************************************************************)
(* Proofs about Streaming, for every set of words and of answers in which   *)
(* no word comes twice, and any number of attempts, frames and rewrites.    *)
(*                                                                          *)
(* The invariant follows three copies of the answer: what the trackers let  *)
(* through is a cleaned frame of this attempt (Traced), or nothing; the     *)
(* gate is what one Push of that makes of a new gate (GateFollows); and the *)
(* client has what the gate, or the tracker, says it has (WireText).  So    *)
(* nothing comes twice, whatever the frames are.  If each frame continues   *)
(* the one before, the trackers are at the last one (Latest), and           *)
(* remainingOf completes the text.  The order of the events rests on the    *)
(* last part: no frame of the past has reasoning left to give (Exhausted),  *)
(* so that none follows the first text of an upstream that thinks first.    *)
(*                                                                          *)
(* What ReplyText says by recursive functions is proved by induction over   *)
(* the length of the text that is left (Recursion, SizeInduction).          *)
(***************************************************************************)
EXTENDS Streaming, SequenceTheorems, WellFoundedInduction, FiniteSetTheorems, TLAPS

\* One row at the end, no attempt too many; the trackers know what was sent, and a
\* request that is not streamed sends nothing before its end.
Control ==
    /\ pc # "done" => rows = <<>> /\ attempts < RetryAttempts
    /\ pc = "start" => wire = <<>>
    /\ pc \in {"start", "calling"} => raw = <<>> /\ emitted = <<>> /\ emittedReasoning = <<>>
    /\ ~mode.stream => emitted = <<>> /\ emittedReasoning = <<>>
    /\ ~mode.stream /\ pc # "done" => wire = <<>>
    /\ mode.api # "chat" => emittedReasoning = <<>>

\* The gate has seen what the tracker let through.
GateFollows ==
    gate = IF mode.stream /\ mode.tools THEN gatePush(newToolFenceGate, emitted)
                                       ELSE newToolFenceGate

\* Every frame shows a part of an answer, and what was let through is one of them.
Traced ==
    /\ \A i \in DOMAIN raw : \E a \in Answers : \E p \in 1..size(a) : raw[i] = frameOf(a, p)
    /\ emitted # <<>> => \E i \in DOMAIN raw : emitted = cleanGeminiText(raw[i].text)
    /\ emittedReasoning # <<>> =>
           \E i \in DOMAIN raw : emittedReasoning = cleanGeminiText(raw[i].think)

\* No frame of the past has more reasoning to give.
Exhausted ==
    mode.stream /\ mode.api = "chat" =>
        \A i \in DOMAIN raw : ~Extends(emittedReasoning, raw[i].think)

\* Of frames that continue each other the last one was let through.
Latest ==
    mode.stream /\ raw # <<>> /\ Cumulative =>
        /\ emitted = cleanGeminiText(Last(raw).text)
        /\ mode.api = "chat" => emittedReasoning = cleanGeminiText(Last(raw).think)

\* A stream that is open, with events up to rank m, in order where ord.
Lined(w, m, ord) ==
    /\ w # <<>> /\ w[1].kind = "open"
    /\ \A i \in 1..Len(w) : w[i].kind \notin Status \cup {"json"} /\ Rank(w[i].kind) <= m
    /\ ord => \A i, j \in 1..Len(w) : i < j =>
           /\ Rank(w[i].kind) <= Rank(w[j].kind)
           /\ Rank(w[i].kind) \in {2, 3} \/ Rank(w[i].kind) < Rank(w[j].kind)

\* Before the end only reasoning and text was written, and only what was let through.
WireLined ==
    pc # "done" /\ wire # <<>> =>
        /\ Lined(wire, 3, ThinksFirst)
        /\ emitted = <<>> => Lined(wire, 2, ThinksFirst)
        /\ emitted = <<>> /\ emittedReasoning = <<>> => wire = event("open")

\* The client has what the trackers say it has.
WireText ==
    pc # "done" =>
        Delivered("content") = sentText /\ Delivered("reasoning") = emittedReasoning

\* What holds at the end.
AtTheEnd == pc = "done" => StreamShape /\ AnswerDelivered /\ NothingTwice

IInv ==
    /\ TypeOK /\ Control /\ GateFollows /\ Traced /\ Exhausted /\ Latest
    /\ WireLined /\ WireText /\ AtTheEnd

-----------------------------------------------------------------------------
(* Induction and recursion over a rank *)

\* A set of numbers has a least one.
LEMMA LeastExists ==
    ASSUME NEW S, S \subseteq Nat, S # {}
    PROVE  \E x \in S : \A y \in S : x <= y
<1> DEFINE Less == {p \in Nat \X Nat : p[1] < p[2]}
<1>1. IsWellFoundedOn(Less, Nat)
  BY NatLessThanWellFounded DEF OpToRel
<1>2. \E x \in S : \A y \in S : ~(<<y, x>> \in Less)
  <2> HIDE DEF Less
  <2> QED
    BY <1>1, WFMin
<1>3. PICK x \in S : \A y \in S : ~(<<y, x>> \in Less)
  BY <1>2
<1>4. \A y \in S : x \in Nat /\ y \in Nat /\ ~(y < x)
  BY <1>3
<1> QED
  BY <1>4

\* What holds of a value as soon as it holds of the smaller ones holds of all; P is the
\* set of the values it holds of.
LEMMA SizeInduction ==
    ASSUME NEW S, NEW rank \in [S -> Nat], NEW P,
           \A t \in S : (\A u \in S : rank[u] < rank[t] => u \in P) => t \in P
    PROVE  S \subseteq P
<1> SUFFICES ASSUME ~(S \subseteq P) PROVE FALSE
  OBVIOUS
<1> DEFINE Bad == {rank[t] : t \in S \ P}
<1>1. Bad \subseteq Nat /\ Bad # {}
  OBVIOUS
<1>2. PICK n \in Bad : \A m \in Bad : n <= m
  <2> HIDE DEF Bad
  <2> QED
    BY <1>1, LeastExists
<1>3. PICK t \in S \ P : n = rank[t]
  BY <1>2
<1>4. ASSUME NEW u \in S, rank[u] < rank[t], u \notin P
      PROVE  FALSE
  <2>1. rank[u] \in Bad
    BY <1>4
  <2>2. n <= rank[u]
    BY <1>2, <2>1
  <2>3. n = rank[t] /\ n \in Nat /\ rank[u] \in Nat
    BY <1>3
  <2> QED
    BY <1>4, <2>2, <2>3
<1> QED
  BY <1>3, <1>4

\* A function that calls itself on smaller values: where it stops and with what, whom it
\* asks otherwise and what it makes of the answer.
Descends(S, V, rank, stop, base, step, comb) ==
    /\ rank \in [S -> Nat] /\ base \in [S -> V]
    /\ step \in [S -> S] /\ comb \in [S -> [V -> V]]
    /\ \A t \in S \ stop : rank[step[t]] < rank[t]

Recursive(f, S, stop, base, step, comb) ==
    f = [t \in S |-> IF t \in stop THEN base[t] ELSE comb[t][f[step[t]]]]

\* There is such a function.
LEMMA Recursion ==
    ASSUME NEW S, NEW V, NEW rank, NEW stop, NEW base, NEW step, NEW comb,
           Descends(S, V, rank, stop, base, step, comb)
    PROVE  \E f \in [S -> V] : Recursive(f, S, stop, base, step, comb)
<1> USE DEF Descends
<1> DEFINE Step(f, t) == IF t \in stop THEN base[t] ELSE comb[t][f[step[t]]]
           Upto(f, n) == \A t \in S : rank[t] <= n => f[t] = Step(f, t)
<1>1. \A n \in Nat : \E f \in [S -> V] : Upto(f, n)
  <2> DEFINE Good == {n \in Nat : \E f \in [S -> V] : Upto(f, n)}
             id == [n \in Nat |-> n]
  <2>1. id \in [Nat -> Nat] /\ \A n \in Nat : id[n] = n
    OBVIOUS
  <2>2. ASSUME NEW n \in Nat, \A m \in Nat : id[m] < id[n] => m \in Good
        PROVE  n \in Good
    <3>1. \E f \in [S -> V] : \A t \in S : rank[t] < n => f[t] = Step(f, t)
      <4>1. CASE n = 0
        <5>1. \A t \in S : ~(rank[t] < n)
          BY <4>1
        <5> WITNESS base \in [S -> V]
        <5> QED
          BY <5>1
      <4>2. CASE n # 0
        <5>1. n - 1 \in Nat /\ id[n - 1] < id[n]
          BY <4>2
        <5>2. PICK f \in [S -> V] : Upto(f, n - 1)
          BY <5>1, <2>2
        <5>3. \A t \in S : rank[t] < n => rank[t] <= n - 1
          BY <4>2
        <5> QED
          BY <5>2, <5>3
      <4> QED
        BY <4>1, <4>2
    <3>2. PICK f \in [S -> V] : \A t \in S : rank[t] < n => f[t] = Step(f, t)
      BY <3>1
    <3> DEFINE g == [t \in S |-> Step(f, t)]
    <3>3. g \in [S -> V]
      <4>1. ASSUME NEW t \in S PROVE Step(f, t) \in V
        <5>1. f[step[t]] \in V
          OBVIOUS
        <5> QED
          BY <5>1
      <4> QED
        BY <4>1
    <3>4. ASSUME NEW t \in S, rank[t] <= n PROVE g[t] = Step(g, t)
      <4>1. CASE t \in stop
        BY <4>1
      <4>2. CASE t \notin stop
        <5>1. step[t] \in S /\ rank[step[t]] < n
          BY <4>2, <3>4
        <5>2. f[step[t]] = g[step[t]]
          BY <5>1, <3>2
        <5> QED
          BY <5>2
      <4> QED
        BY <4>1, <4>2
    <3> QED
      BY <3>3, <3>4
  <2> HIDE DEF Good, id
  <2>3. Nat \subseteq Good
    BY <2>1, <2>2, SizeInduction
  <2> QED
    BY <2>3 DEF Good
<1>2. ASSUME NEW n \in Nat, NEW f \in [S -> V], Upto(f, n),
             NEW m \in Nat, NEW g \in [S -> V], Upto(g, m), n <= m
      PROVE  \A t \in S : rank[t] <= n => f[t] = g[t]
  <2> DEFINE P == {t \in S : rank[t] <= n => f[t] = g[t]}
  <2>1. ASSUME NEW t \in S, \A u \in S : rank[u] < rank[t] => u \in P
        PROVE  t \in P
    <3> SUFFICES ASSUME rank[t] <= n PROVE f[t] = g[t]
      OBVIOUS
    <3>1. f[t] = Step(f, t) /\ g[t] = Step(g, t)
      <4>1. rank[t] \in Nat /\ rank[t] <= n /\ rank[t] <= m
        BY <1>2
      <4> QED
        BY <4>1, <1>2
    <3>2. CASE t \in stop
      BY <3>1, <3>2
    <3>3. CASE t \notin stop
      <4>1. step[t] \in S /\ rank[step[t]] < rank[t]
        BY <3>3
      <4>2. f[step[t]] = g[step[t]]
        BY <4>1, <2>1
      <4> QED
        BY <3>1, <4>2
    <3> QED
      BY <3>2, <3>3
  <2>2. S \subseteq P
    <3> HIDE DEF P
    <3> QED
      BY <2>1, SizeInduction
  <2> QED
    BY <2>2
<1>3. PICK F \in [Nat -> [S -> V]] : \A n \in Nat : Upto(F[n], n)
  <2> HIDE DEF Upto
  <2> DEFINE F == [n \in Nat |-> CHOOSE f \in [S -> V] : Upto(f, n)]
  <2>1. \A n \in Nat : F[n] \in [S -> V] /\ Upto(F[n], n)
    BY <1>1
  <2>2. F \in [Nat -> [S -> V]]
    BY <2>1
  <2> HIDE DEF F
  <2> QED
    BY <2>1, <2>2
<1> DEFINE h == [t \in S |-> F[rank[t]][t]]
<1>4. h \in [S -> V]
  OBVIOUS
<1>5. ASSUME NEW t \in S PROVE h[t] = Step(h, t)
  <2>1. h[t] = Step(F[rank[t]], t)
    <3>1. rank[t] \in Nat /\ rank[t] <= rank[t]
      OBVIOUS
    <3> QED
      BY <1>3, <3>1
  <2>2. CASE t \in stop
    BY <2>1, <2>2
  <2>3. CASE t \notin stop
    <3>1. step[t] \in S /\ rank[step[t]] \in Nat /\ rank[t] \in Nat /\ rank[step[t]] < rank[t]
      BY <2>3
    <3>2. F[rank[step[t]]][step[t]] = F[rank[t]][step[t]]
      <4>1. rank[step[t]] <= rank[t] /\ rank[step[t]] <= rank[step[t]]
        BY <3>1
      <4>2. F[rank[step[t]]] \in [S -> V] /\ F[rank[t]] \in [S -> V]
        BY <3>1
      <4> DEFINE n == rank[step[t]]
                 m == rank[t]
      <4>3. Upto(F[n], n) /\ Upto(F[m], m)
        BY <1>3, <3>1
      <4> HIDE DEF Upto, h
      <4>4. n \in Nat /\ m \in Nat /\ n <= m /\ n <= n
        BY <3>1, <4>1
      <4>5. F[n] \in [S -> V] /\ F[m] \in [S -> V]
        BY <4>2
      <4>6. \A u \in S : rank[u] <= n => F[n][u] = F[m][u]
        <5> HIDE DEF n, m
        <5> QED
          BY <4>3, <4>4, <4>5, <1>2, ZenonT(40)
      <4> QED
        BY <3>1, <4>4, <4>6
    <3> QED
      BY <2>1, <3>1, <3>2
  <2> QED
    BY <2>2, <2>3
<1>6. Recursive(h, S, stop, base, step, comb)
  <2>1. h = [t \in S |-> h[t]]
    OBVIOUS
  <2> HIDE DEF h
  <2> QED
    BY <2>1, <1>5 DEF Recursive
<1> QED
  BY <1>4, <1>6

-----------------------------------------------------------------------------
(* Sequences *)

\* The length and the elements of a part of a sequence.
LEMMA SubSeqIs ==
    ASSUME NEW S, NEW s \in Seq(S), NEW m \in 1..Len(s)+1, NEW n \in 0..Len(s)
    PROVE  /\ SubSeq(s, m, n) \in Seq(S)
           /\ Len(SubSeq(s, m, n)) = IF m <= n THEN n - m + 1 ELSE 0
           /\ \A k \in 1..(n - m + 1) : SubSeq(s, m, n)[k] = s[m + k - 1]
  BY SubSeqProperties, LenProperties

\* The length and the elements of what is left of a sequence from a position on.
LEMMA FromIs ==
    ASSUME NEW S, NEW s \in Seq(S), NEW i \in 1..Len(s)+1
    PROVE  /\ From(s, i) \in Seq(S)
           /\ Len(From(s, i)) = Len(s) - i + 1
           /\ \A k \in 1..(Len(s) - i + 1) : From(s, i)[k] = s[i + k - 1]
  BY SubSeqIs, LenProperties DEF From

\* A sequence is its beginning and the rest.
LEMMA SplitAt ==
    ASSUME NEW S, NEW s \in Seq(S), NEW n \in 0..Len(s)
    PROVE  s = SubSeq(s, 1, n) \o From(s, n + 1)
<1>1. 1 \in 1..Len(s)+1 /\ n \in 1-1..Len(s) /\ Len(s) \in n..Len(s)
  BY LenProperties
<1>2. SubSeq(s, 1, n) \o SubSeq(s, n + 1, Len(s)) = SubSeq(s, 1, Len(s))
  BY <1>1, ConcatAdjacentSubSeq
<1> QED
  BY <1>2, SubSeqFull DEF From

\* A prefix agrees with the sequence as far as it goes.
LEMMA PrefixIs ==
    ASSUME NEW S, NEW s \in Seq(S), NEW t \in Seq(S)
    PROVE  IsPrefix(s, t) <=> Len(s) <= Len(t) /\ \A k \in 1..Len(s) : s[k] = t[k]
<1>1. SubSeq(s, 1, Len(s)) = s
  BY SubSeqFull
<1>2. CASE Len(s) <= Len(t)
  <2>1. /\ SubSeq(t, 1, Len(s)) \in Seq(S)
        /\ Len(SubSeq(t, 1, Len(s))) = Len(s)
        /\ \A k \in 1..Len(s) : SubSeq(t, 1, Len(s))[k] = t[k]
    BY <1>2, SubSeqIs, LenProperties
  <2>2. SubSeq(t, 1, Len(s)) = s <=> \A k \in 1..Len(s) : s[k] = t[k]
    BY <2>1, SeqEqual
  <2> QED
    BY <1>1, <1>2, <2>2 DEF IsPrefix
<1>3. CASE ~(Len(s) <= Len(t))
  BY <1>3 DEF IsPrefix
<1> QED
  BY <1>2, <1>3

\* A sequence is a prefix of it and the rest.
LEMMA PrefixSplit ==
    ASSUME NEW S, NEW s \in Seq(S), NEW t \in Seq(S), IsPrefix(s, t)
    PROVE  /\ t = s \o From(t, Len(s) + 1)
           /\ From(t, Len(s) + 1) \in Seq(S)
<1>1. Len(s) \in 0..Len(t) /\ Len(s) + 1 \in 1..Len(t)+1
  BY LenProperties, PrefixIs
<1>2. SubSeq(t, 1, Len(s)) = s
  BY SubSeqFull DEF IsPrefix
<1> QED
  BY <1>1, <1>2, SplitAt, FromIs

\* What something was appended to is a prefix of the result.
LEMMA PrefixOfConcat ==
    ASSUME NEW S, NEW s \in Seq(S), NEW t \in Seq(S)
    PROVE  IsPrefix(s, s \o t)
<1>1. /\ s \o t \in Seq(S) /\ Len(s \o t) = Len(s) + Len(t)
      /\ Len(s) \in Nat /\ Len(t) \in Nat
  BY ConcatProperties, LenProperties
<1>2. \A k \in 1..Len(s) : k \in 1..Len(s)+Len(t) /\ k <= Len(s)
  BY <1>1
<1>3. \A k \in 1..Len(s) : s[k] = (s \o t)[k]
  BY <1>2, ConcatProperties
<1> DEFINE c == s \o t
<1>4. c \in Seq(S) /\ Len(s) <= Len(c) /\ \A k \in 1..Len(s) : s[k] = c[k]
  BY <1>1, <1>3
<1> HIDE DEF c
<1>5. IsPrefix(s, c)
  BY <1>4, PrefixIs
<1> QED
  BY <1>5 DEF c

\* Being a prefix is an order, and the prefixes of one sequence are in a line.
LEMMA PrefixOrder ==
    ASSUME NEW S, NEW s \in Seq(S), NEW t \in Seq(S), NEW u \in Seq(S)
    PROVE  /\ IsPrefix(s, s)
           /\ IsPrefix(s, t) /\ IsPrefix(t, u) => IsPrefix(s, u)
           /\ IsPrefix(s, u) /\ IsPrefix(t, u) /\ Len(s) <= Len(t) => IsPrefix(s, t)
           /\ IsPrefix(s, t) /\ IsPrefix(t, s) => s = t
           /\ IsPrefix(s, t) /\ Len(s) >= Len(t) => s = t
<1>1. Len(s) \in Nat /\ Len(t) \in Nat /\ Len(u) \in Nat
  BY LenProperties
<1>2. IsPrefix(s, t) /\ Len(s) >= Len(t) => s = t
  BY <1>1, PrefixIs, SeqEqual
<1> QED
  BY <1>1, <1>2, PrefixIs

\* What is left of a concatenation, from a position in its first part on.
LEMMA FromOfConcat ==
    ASSUME NEW S, NEW s \in Seq(S), NEW t \in Seq(S), NEW i \in 1..Len(s)+1
    PROVE  From(s \o t, i) = From(s, i) \o t
<1> DEFINE c == s \o t
<1>1. c \in Seq(S) /\ Len(c) = Len(s) + Len(t) /\ Len(s) \in Nat /\ Len(t) \in Nat
  BY ConcatProperties, LenProperties
<1>2. \A k \in 1..Len(s)+Len(t) : c[k] = IF k <= Len(s) THEN s[k] ELSE t[k - Len(s)]
  BY ConcatProperties
<1> HIDE DEF c
<1>3. i \in 1..Len(c)+1
  BY <1>1
<1>4. /\ From(c, i) \in Seq(S) /\ Len(From(c, i)) = Len(c) - i + 1
      /\ \A k \in 1..(Len(c) - i + 1) : From(c, i)[k] = c[i + k - 1]
  BY <1>1, <1>3, FromIs
<1>5. /\ From(s, i) \in Seq(S) /\ Len(From(s, i)) = Len(s) - i + 1
      /\ \A k \in 1..(Len(s) - i + 1) : From(s, i)[k] = s[i + k - 1]
  BY FromIs
<1> DEFINE d == From(s, i) \o t
<1>6. /\ d \in Seq(S) /\ Len(d) = Len(From(s, i)) + Len(t)
      /\ \A k \in 1..Len(From(s, i))+Len(t) :
             d[k] = IF k <= Len(From(s, i)) THEN From(s, i)[k] ELSE t[k - Len(From(s, i))]
  BY <1>5, ConcatProperties
<1> HIDE DEF d
<1>7. Len(d) = Len(From(c, i))
  BY <1>1, <1>4, <1>5, <1>6
<1>8. ASSUME NEW k \in 1..Len(d) PROVE d[k] = From(c, i)[k]
  <2>1. k \in 1..(Len(c) - i + 1) /\ i + k - 1 \in 1..Len(s)+Len(t)
    BY <1>1, <1>4, <1>7
  <2>2. From(c, i)[k] = c[i + k - 1]
    BY <2>1, <1>4
  <2>3. CASE k <= Len(s) - i + 1
    <3>1. i + k - 1 <= Len(s) /\ k \in 1..(Len(s) - i + 1)
      BY <2>3, <1>1
    <3>2. From(c, i)[k] = s[i + k - 1]
      BY <2>1, <2>2, <3>1, <1>2
    <3> QED
      BY <3>1, <3>2, <1>5, <1>6, <1>1
  <2>4. CASE ~(k <= Len(s) - i + 1)
    <3>1. ~(i + k - 1 <= Len(s)) /\ (i + k - 1) - Len(s) = k - Len(From(s, i))
      BY <2>4, <1>1, <1>5
    <3>2. From(c, i)[k] = t[k - Len(From(s, i))]
      BY <2>1, <2>2, <3>1, <1>2
    <3> QED
      BY <3>2, <2>4, <1>5, <1>6, <1>1
  <2> QED
    BY <2>3, <2>4
<1>9. d = From(c, i)
  BY <1>4, <1>6, <1>7, <1>8, SeqEqual
<1> QED
  BY <1>9 DEF c, d

\* What is left of what is left.
LEMMA FromFrom ==
    ASSUME NEW S, NEW s \in Seq(S), NEW i \in 1..Len(s)+1, NEW j \in 1..(Len(s) - i + 2)
    PROVE  From(From(s, i), j) = From(s, i + j - 1)
<1> DEFINE u == From(s, i)
           v == From(s, i + j - 1)
<1>1. Len(s) \in Nat
  BY LenProperties
<1>2. /\ u \in Seq(S) /\ Len(u) = Len(s) - i + 1
      /\ \A k \in 1..(Len(s) - i + 1) : u[k] = s[i + k - 1]
  BY FromIs
<1>3. i + j - 1 \in 1..Len(s)+1 /\ j \in 1..Len(u)+1
  BY <1>1, <1>2
<1>4. /\ v \in Seq(S) /\ Len(v) = Len(s) - (i + j - 1) + 1
      /\ \A k \in 1..(Len(s) - (i + j - 1) + 1) : v[k] = s[(i + j - 1) + k - 1]
  BY <1>3, FromIs
<1> HIDE DEF u, v
<1> DEFINE w == From(u, j)
<1>5. /\ w \in Seq(S) /\ Len(w) = Len(u) - j + 1
      /\ \A k \in 1..(Len(u) - j + 1) : w[k] = u[j + k - 1]
  BY <1>2, <1>3, FromIs, ZenonT(40)
<1> HIDE DEF w
<1>6. Len(w) = Len(v)
  BY <1>1, <1>2, <1>4, <1>5
<1>7. ASSUME NEW k \in 1..Len(w) PROVE w[k] = v[k]
  <2>1. k \in 1..(Len(u) - j + 1) /\ k \in 1..(Len(s) - (i + j - 1) + 1)
    BY <1>5, <1>4, <1>6, <1>2, <1>1
  <2>2. j + k - 1 \in 1..(Len(s) - i + 1) /\ i + (j + k - 1) - 1 = (i + j - 1) + k - 1
    BY <2>1, <1>1, <1>2
  <2> QED
    BY <2>1, <2>2, <1>2, <1>4, <1>5
<1>8. w = v
  BY <1>4, <1>5, <1>6, <1>7, SeqEqual
<1> QED
  BY <1>8 DEF w, v, u

-----------------------------------------------------------------------------
(* Without *)

\* A match is where the code finds one: at least one token of the text.
Matcher(match) ==
    \A t \in Text :
        match[t] = <<>> \/ \E i, j \in 1..Len(t) : i <= j /\ match[t] = <<i, j>>

\* The matches of a text, taken out one by one.
LEMMA WithoutIs ==
    ASSUME NEW match, Matcher(match), NEW s \in Text
    PROVE  /\ Without(s, match) \in Text
           /\ Without(s, match) =
                  IF match[s] = <<>> THEN s
                  ELSE SubSeq(s, 1, match[s][1] - 1) \o Without(From(s, match[s][2] + 1), match)
<1> DEFINE len == [t \in Text |-> Len(t)]
           stop == {t \in Text : match[t] = <<>>}
           base == [t \in Text |-> t]
           step == [t \in Text |-> IF match[t] = <<>> THEN t ELSE From(t, match[t][2] + 1)]
           before(t) == IF match[t] = <<>> THEN <<>> ELSE SubSeq(t, 1, match[t][1] - 1)
           comb == [t \in Text |-> [v \in Text |-> before(t) \o v]]
           Rec(f) == [t \in Text |-> IF match[t] = <<>> THEN t
                        ELSE SubSeq(t, 1, match[t][1] - 1) \o f[From(t, match[t][2] + 1)]]
<1>1. ASSUME NEW t \in Text, match[t] # <<>>
      PROVE  /\ From(t, match[t][2] + 1) \in Text
             /\ Len(From(t, match[t][2] + 1)) < Len(t)
             /\ SubSeq(t, 1, match[t][1] - 1) \in Text
  <2>1. PICK i, j \in 1..Len(t) : i <= j /\ match[t] = <<i, j>>
    BY <1>1 DEF Matcher
  <2>2. match[t][1] = i /\ match[t][2] = j
    BY <2>1
  <2>3. j + 1 \in 1..Len(t)+1 /\ Len(t) \in Nat /\ i - 1 \in 0..Len(t) /\ 1 \in 1..Len(t)+1
    BY <2>1, LenProperties DEF Text
  <2> QED
    BY <2>2, <2>3, FromIs, SubSeqIs, SMTT(30) DEF Text
<1>2. len \in [Text -> Nat] /\ base \in [Text -> Text]
  BY LenProperties DEF Text
<1>3. step \in [Text -> Text]
  BY <1>1
<1>4. comb \in [Text -> [Text -> Text]]
  <2>1. ASSUME NEW t \in Text PROVE before(t) \in Text
    BY <1>1 DEF Text
  <2>2. ASSUME NEW t \in Text, NEW v \in Text PROVE before(t) \o v \in Text
    <3> HIDE DEF before
    <3> QED
      BY <2>1, ConcatProperties DEF Text
  <2> HIDE DEF before
  <2> QED
    BY <2>2
<1>5. \A t \in Text \ stop : len[step[t]] < len[t]
  BY <1>1
<1>6. Descends(Text, Text, len, stop, base, step, comb)
  <2> HIDE DEF len, stop, base, step, comb
  <2> QED
    BY <1>2, <1>3, <1>4, <1>5 DEF Descends
<1>7. PICK f \in [Text -> Text] : Recursive(f, Text, stop, base, step, comb)
  <2> HIDE DEF len, stop, base, step, comb
  <2> QED
    BY <1>6, Recursion
<1>8. f = Rec(f)
  <2>1. ASSUME NEW t \in Text
        PROVE  (IF t \in stop THEN base[t] ELSE comb[t][f[step[t]]])
                 = IF match[t] = <<>> THEN t
                   ELSE SubSeq(t, 1, match[t][1] - 1) \o f[From(t, match[t][2] + 1)]
    BY <1>1, <2>1
  <2> QED
    BY <1>7, <2>1 DEF Recursive
<1> DEFINE cut == CHOOSE g : g = Rec(g)
<1>9. cut = Rec(cut)
  BY <1>8
<1>10. \A t \in Text : Without(t, match) = cut[t]
  BY DEF Without
<1> HIDE DEF cut
<1>11. \A t \in Text :
          cut[t] = IF match[t] = <<>> THEN t
                   ELSE SubSeq(t, 1, match[t][1] - 1) \o cut[From(t, match[t][2] + 1)]
  BY <1>9
<1> DEFINE P == {t \in Text : cut[t] \in Text}
<1>12. ASSUME NEW t \in Text, \A u \in Text : len[u] < len[t] => u \in P
       PROVE  t \in P
  <2>1. CASE match[t] = <<>>
    BY <2>1, <1>11
  <2>2. CASE match[t] # <<>>
    <3>1. cut[From(t, match[t][2] + 1)] \in Text
      BY <2>2, <1>1, <1>12
    <3>2. SubSeq(t, 1, match[t][1] - 1) \in Text
      BY <2>2, <1>1
    <3>3. SubSeq(t, 1, match[t][1] - 1) \o cut[From(t, match[t][2] + 1)] \in Text
      BY <3>1, <3>2, ConcatProperties DEF Text
    <3> QED
      BY <2>2, <1>11, <3>3
  <2> QED
    BY <2>1, <2>2
<1>13. Text \subseteq P
  <2> HIDE DEF P, len
  <2> QED
    BY <1>2, <1>12, SizeInduction
<1> QED
  BY <1>1, <1>10, <1>11, <1>13

-----------------------------------------------------------------------------
(* Least and greatest positions *)

\* Least is the least element.
LEMMA LeastIs ==
    ASSUME NEW S, S \subseteq Nat, S # {}
    PROVE  Least(S) \in S /\ \A i \in S : Least(S) <= i
  BY LeastExists DEF Least

\* An element below which there is none is the least.
LEMMA LeastOf ==
    ASSUME NEW S, S \subseteq Nat, NEW i \in S, \A k \in S : ~(k < i)
    PROVE  Least(S) = i
<1>1. Least(S) \in S /\ Least(S) <= i /\ ~(Least(S) < i)
  BY LeastIs
<1>2. Least(S) \in Nat /\ i \in Nat
  BY <1>1
<1> QED
  BY <1>1, <1>2

\* Greatest is the greatest element of a set with a bound.
LEMMA GreatestIs ==
    ASSUME NEW S, S \subseteq Nat, S # {}, NEW n \in Nat, \A i \in S : i <= n
    PROVE  Greatest(S) \in S /\ \A i \in S : Greatest(S) >= i
<1> DEFINE B == {k \in Nat : \A i \in S : i <= k}
<1>1. PICK k \in B : \A j \in B : k <= j
  <2>1. n \in B /\ B \subseteq Nat
    OBVIOUS
  <2> HIDE DEF B
  <2> QED
    BY <2>1, LeastExists
<1>2. k \in S
  <2> SUFFICES ASSUME k \notin S PROVE FALSE
    OBVIOUS
  <2>1. PICK i \in S : TRUE
    OBVIOUS
  <2>2. k - 1 \in Nat /\ \A j \in S : j <= k - 1
    <3>1. \A j \in S : j \in Nat /\ k \in Nat /\ j <= k /\ j # k
      BY <1>1
    <3> QED
      BY <2>1, <3>1
  <2>3. k - 1 \in B
    BY <2>2
  <2> QED
    BY <2>3, <1>1, <2>2
<1>3. k \in S /\ \A i \in S : k >= i
  <2>1. \A i \in S : i \in Nat /\ k \in Nat /\ i <= k
    BY <1>1
  <2> QED
    BY <1>2, <2>1
<1> QED
  BY <1>3 DEF Greatest

-----------------------------------------------------------------------------
(* TrimSpace *)

\* Blank, or from the first to the last token that is no white space.
LEMMA TrimIs ==
    ASSUME NEW s \in Text
    PROVE  \/ (\A i \in 1..Len(s) : s[i] \in Space) /\ TrimSpace(s) = <<>>
           \/ \E a, b \in 1..Len(s) :
                  /\ a <= b /\ s[a] \notin Space /\ s[b] \notin Space
                  /\ \A i \in 1..Len(s) : i < a \/ i > b => s[i] \in Space
                  /\ TrimSpace(s) = SubSeq(s, a, b)
<1> DEFINE Solid == {i \in DOMAIN s : s[i] \notin Space}
<1>1. DOMAIN s = 1..Len(s) /\ Len(s) \in Nat
  BY LenProperties DEF Text
<1>2. CASE Solid = {}
  BY <1>1, <1>2 DEF TrimSpace
<1>3. CASE Solid # {}
  <2>1. Solid \subseteq Nat /\ \A i \in Solid : i <= Len(s)
    BY <1>1
  <2>2. TrimSpace(s) = SubSeq(s, Least(Solid), Greatest(Solid))
    BY <1>3 DEF TrimSpace
  <2>3. Least(Solid) \in Solid /\ \A i \in Solid : Least(Solid) <= i
    <3> HIDE DEF Solid
    <3> QED
      BY <1>3, <2>1, LeastIs
  <2>4. Greatest(Solid) \in Solid /\ \A i \in Solid : Greatest(Solid) >= i
    <3> HIDE DEF Solid
    <3> QED
      BY <1>1, <1>3, <2>1, GreatestIs
  <2>5. PICK a, b \in Solid : /\ a <= b /\ TrimSpace(s) = SubSeq(s, a, b)
                              /\ \A i \in Solid : a <= i /\ i <= b
    <3> HIDE DEF Solid
    <3>1. \A i \in Solid : Least(Solid) <= i /\ i <= Greatest(Solid)
      BY <2>1, <2>3, <2>4
    <3> QED
      BY <2>2, <2>3, <2>4, <3>1
  <2>6. /\ a \in 1..Len(s) /\ b \in 1..Len(s) /\ s[a] \notin Space /\ s[b] \notin Space
        /\ \A i \in 1..Len(s) : i < a \/ i > b => s[i] \in Space
    BY <1>1, <2>5
  <2> QED
    BY <2>5, <2>6
<1> QED
  BY <1>2, <1>3

Trimmed(s) == s = <<>> \/ (s[1] \notin Space /\ s[Len(s)] \notin Space)

\* A trimmed text neither begins nor ends with white space.
LEMMA TrimType ==
    ASSUME NEW s \in Text
    PROVE  TrimSpace(s) \in Text /\ Trimmed(TrimSpace(s))
<1>1. CASE TrimSpace(s) = <<>>
  BY <1>1, EmptySeq DEF Text, Trimmed
<1>2. CASE TrimSpace(s) # <<>>
  <2>1. PICK a, b \in 1..Len(s) :
            /\ a <= b /\ s[a] \notin Space /\ s[b] \notin Space
            /\ TrimSpace(s) = SubSeq(s, a, b)
    BY <1>2, TrimIs
  <2>2. a \in 1..Len(s)+1 /\ b \in 0..Len(s) /\ Len(s) \in Nat
    BY LenProperties DEF Text
  <2>3. /\ SubSeq(s, a, b) \in Text
        /\ Len(SubSeq(s, a, b)) = b - a + 1
        /\ \A k \in 1..(b - a + 1) : SubSeq(s, a, b)[k] = s[a + k - 1]
    BY <2>1, <2>2, SubSeqIs DEF Text
  <2>4. SubSeq(s, a, b)[1] = s[a] /\ SubSeq(s, a, b)[b - a + 1] = s[b]
    <3>1. 1 \in 1..(b - a + 1) /\ b - a + 1 \in 1..(b - a + 1) /\ a + (b - a + 1) - 1 = b
          /\ a + 1 - 1 = a
      BY <2>1, <2>2
    <3> QED
      BY <3>1, <2>3
  <2> QED
    BY <2>1, <2>3, <2>4 DEF Trimmed
<1> QED
  BY <1>1, <1>2

\* Trimming twice is trimming once.
LEMMA TrimOfTrimmed ==
    ASSUME NEW s \in Text, Trimmed(s)
    PROVE  TrimSpace(s) = s
<1>1. Len(s) \in Nat /\ (s = <<>> <=> Len(s) = 0) /\ SubSeq(s, 1, Len(s)) = s
  BY LenProperties, EmptySeq, SubSeqFull DEF Text
<1>2. CASE s = <<>>
  <2>1. ~ \E a \in 1..Len(s) : TRUE
    BY <1>1, <1>2
  <2> QED
    BY <1>2, <2>1, TrimIs
<1>3. CASE s # <<>>
  <2>1. 1 \in 1..Len(s) /\ Len(s) \in 1..Len(s)
    BY <1>1, <1>3
  <2>2. PICK a, b \in 1..Len(s) :
            /\ \A i \in 1..Len(s) : i < a \/ i > b => s[i] \in Space
            /\ TrimSpace(s) = SubSeq(s, a, b)
    BY <1>3, <2>1, TrimIs DEF Trimmed
  <2>3. ~(1 < a) /\ ~(Len(s) > b)
    <3>1. s[1] \notin Space /\ s[Len(s)] \notin Space
      BY <1>3 DEF Trimmed
    <3> QED
      BY <3>1, <2>1, <2>2
  <2>4. Len(s) \in Nat
    BY <1>1
  <2>5. a = 1 /\ b = Len(s)
    BY <2>3, <2>4
  <2> QED
    BY <1>1, <2>2, <2>5
<1> QED
  BY <1>2, <1>3

-----------------------------------------------------------------------------
(* The two kinds of matches *)

\* An artifact is a part of the text, so that Without ends.
LEMMA ArtifactMatches == Matcher(Artifact)
<1> SUFFICES ASSUME NEW t \in Text, Artifact[t] # <<>>
             PROVE  \E i, j \in 1..Len(t) : i <= j /\ Artifact[t] = <<i, j>>
  BY DEF Matcher
<1> DEFINE Opened == {i \in DOMAIN t : t[i] = "code" /\ \E j \in i+1..Len(t) : t[j] = "bt"}
           i == Least(Opened)
           Ends == {k \in i+1..Len(t) : t[k] = "bt"}
           j == Least(Ends)
           last == IF j < Len(t) /\ t[j + 1] = "nl" THEN j + 1 ELSE j
<1>1. DOMAIN t = 1..Len(t) /\ Len(t) \in Nat
  BY LenProperties DEF Text
<1>2. Artifact[t] = IF Opened = {} THEN <<>> ELSE <<i, last>>
  BY DEF Artifact
<1>3. Opened # {} /\ Opened \subseteq Nat
  BY <1>1, <1>2
<1>4. i \in Opened
  <2> HIDE DEF Opened
  <2> QED
    BY <1>3, LeastIs
<1>5. i \in 1..Len(t) /\ Ends # {} /\ Ends \subseteq Nat
  <2>1. i \in 1..Len(t) /\ \E k \in i+1..Len(t) : t[k] = "bt"
    BY <1>1, <1>4
  <2> HIDE DEF i
  <2> QED
    BY <1>1, <2>1
<1>6. j \in Ends
  <2> HIDE DEF Ends
  <2> QED
    BY <1>5, LeastIs
<1> HIDE DEF Opened, i, j
<1>7. i \in 1..Len(t) /\ last \in 1..Len(t) /\ i <= last
  BY <1>1, <1>5, <1>6
<1> HIDE DEF last
<1> QED
  BY <1>2, <1>3, <1>7

\* The parts of a call: the header's end, the line break before the closing backticks.
LEMMA CallIs ==
    ASSUME NEW t \in Text, NEW i \in 1..Len(t), CallsAt(t, i) # {}
    PROVE  LET h == CallAt(t, i).header
               e == CallAt(t, i).tail
           IN /\ h \in HeaderEnds(t, i) /\ h \in i+2..Len(t)
              /\ e \in TailsAfter(t, h) /\ e \in h+1..Len(t)-1
              /\ \A k \in TailsAfter(t, h) : e <= k
              /\ \A k \in CallsAt(t, i) : k <= h
<1> DEFINE h == Greatest(CallsAt(t, i))
           e == Least(TailsAfter(t, h))
<1>1. Len(t) \in Nat
  BY LenProperties DEF Text
<1>2. CallsAt(t, i) \subseteq Nat /\ \A k \in CallsAt(t, i) : k <= Len(t)
  BY <1>1 DEF CallsAt, HeaderEnds
<1>3. h \in CallsAt(t, i) /\ \A k \in CallsAt(t, i) : h >= k
  BY <1>1, <1>2, GreatestIs
<1>4. h \in HeaderEnds(t, i) /\ h \in i+2..Len(t) /\ TailsAfter(t, h) # {}
  BY <1>3 DEF CallsAt, HeaderEnds
<1>5. \A k \in CallsAt(t, i) : k <= h
  BY <1>2, <1>3
<1> HIDE DEF h
<1>6. TailsAfter(t, h) \subseteq Nat /\ TailsAfter(t, h) \subseteq h+1..Len(t)-1
  BY <1>1, <1>4 DEF TailsAfter
<1>7. e \in TailsAfter(t, h) /\ \A k \in TailsAfter(t, h) : e <= k
  BY <1>4, <1>6, LeastIs
<1>8. CallAt(t, i).header = h /\ CallAt(t, i).tail = e
  BY DEF CallAt, h
<1> HIDE DEF e
<1> QED
  BY <1>4, <1>5, <1>6, <1>7, <1>8

\* A fence opens where backticks are followed by the word tool_call.
LEMMA OpeningsAre ==
    ASSUME NEW t \in Text
    PROVE  Occurrences(t, toolFenceOpen)
             = {i \in 1..Len(t) : i < Len(t) /\ t[i] = "bt" /\ t[i + 1] = "call"}
<1>1. Len(t) \in Nat /\ Len(toolFenceOpen) = 2
  BY LenProperties DEF Text, toolFenceOpen
<1>2. ASSUME NEW i \in 1..Len(t) - 2 + 1
      PROVE  SubSeq(t, i, i + 2 - 1) = toolFenceOpen <=> t[i] = "bt" /\ t[i + 1] = "call"
  <2> DEFINE u == SubSeq(t, i, i + 1)
  <2>1. i \in 1..Len(t)+1 /\ i + 1 \in 0..Len(t) /\ i + 2 - 1 = i + 1
    BY <1>1
  <2>2. u \in Text /\ Len(u) = 2 /\ u[1] = t[i] /\ u[2] = t[i + 1]
    <3>1. /\ u \in Text /\ Len(u) = (i + 1) - i + 1
          /\ \A k \in 1..((i + 1) - i + 1) : u[k] = t[i + k - 1]
      BY <2>1, SubSeqIs DEF Text
    <3>2. 1 \in 1..((i + 1) - i + 1) /\ 2 \in 1..((i + 1) - i + 1)
          /\ i + 1 - 1 = i /\ i + 2 - 1 = i + 1 /\ (i + 1) - i + 1 = 2
      BY <2>1
    <3> QED
      BY <3>1, <3>2
  <2> HIDE DEF u
  <2>3. u = <<u[1], u[2]>>
    BY <2>2, LenProperties DEF Text
  <2>4. u = toolFenceOpen <=> u[1] = "bt" /\ u[2] = "call"
    BY <2>3 DEF toolFenceOpen
  <2> QED
    BY <2>1, <2>2, <2>4 DEF u
<1>3. Occurrences(t, toolFenceOpen)
        = {i \in 1..Len(t) - 2 + 1 : SubSeq(t, i, i + 2 - 1) = toolFenceOpen}
  BY <1>1 DEF Occurrences
<1>4. \A i : i \in 1..Len(t) - 2 + 1 <=> i \in 1..Len(t) /\ i < Len(t)
  BY <1>1
<1> QED
  BY <1>2, <1>3, <1>4

\* A fence closes at backticks.
LEMMA ClosingsAre ==
    ASSUME NEW t \in Text
    PROVE  Occurrences(t, toolFenceClose) = {i \in 1..Len(t) : t[i] = "bt"}
<1>1. Len(t) \in Nat /\ Len(toolFenceClose) = 1
  BY LenProperties DEF Text, toolFenceClose
<1>2. ASSUME NEW i \in 1..Len(t)
      PROVE  SubSeq(t, i, i + 1 - 1) = toolFenceClose <=> t[i] = "bt"
  <2> DEFINE u == SubSeq(t, i, i)
  <2>1. i \in 1..Len(t)+1 /\ i \in 0..Len(t) /\ i + 1 - 1 = i
    BY <1>1
  <2>2. u \in Text /\ Len(u) = 1 /\ u[1] = t[i]
    <3>1. /\ u \in Text /\ Len(u) = i - i + 1
          /\ \A k \in 1..(i - i + 1) : u[k] = t[i + k - 1]
      BY <2>1, SubSeqIs DEF Text
    <3>2. 1 \in 1..(i - i + 1) /\ i + 1 - 1 = i /\ i - i + 1 = 1
      BY <2>1
    <3> QED
      BY <3>1, <3>2
  <2> HIDE DEF u
  <2>3. u = <<u[1]>>
    BY <2>2, LenProperties DEF Text
  <2>4. u = toolFenceClose <=> u[1] = "bt"
    BY <2>3 DEF toolFenceClose
  <2> QED
    BY <2>1, <2>2, <2>4 DEF u
<1>3. Occurrences(t, toolFenceClose)
        = {i \in 1..Len(t) - 1 + 1 : SubSeq(t, i, i + 1 - 1) = toolFenceClose}
  BY <1>1 DEF Occurrences
<1>4. Len(t) - 1 + 1 = Len(t)
  BY <1>1
<1> QED
  BY <1>2, <1>3, <1>4

\* A tool call is a part of the text, so that Without ends.
LEMMA ToolCallMatches == Matcher(ToolCall)
<1> SUFFICES ASSUME NEW t \in Text, ToolCall[t] # <<>>
             PROVE  \E i, j \in 1..Len(t) : i <= j /\ ToolCall[t] = <<i, j>>
  BY DEF Matcher
<1>1. Len(t) \in Nat
  BY LenProperties DEF Text
<1> DEFINE i == Least(FirstCall(t))
<1>2. FirstCall(t) # {} /\ ToolCall[t] = <<i, CallAt(t, i).tail + 1>>
  BY DEF ToolCall
<1>3. FirstCall(t) \subseteq Nat /\ FirstCall(t) \subseteq 1..Len(t)
  BY <1>1, OpeningsAre DEF FirstCall
<1>4. i \in FirstCall(t) /\ i \in 1..Len(t)
  BY <1>2, <1>3, LeastIs
<1>5. CallsAt(t, i) # {}
  BY <1>4 DEF FirstCall
<1> HIDE DEF i
<1>6. CallAt(t, i).tail + 1 \in 1..Len(t) /\ i <= CallAt(t, i).tail + 1
  <2>1. PICK h, e : h \in i+2..Len(t) /\ e \in h+1..Len(t)-1 /\ e = CallAt(t, i).tail
    BY <1>4, <1>5, CallIs
  <2> QED
    BY <1>1, <1>4, <2>1
<1> QED
  BY <1>2, <1>4, <1>6

\* Cleaning makes a trimmed text of a text.
LEMMA CleanType ==
    ASSUME NEW t \in Text
    PROVE  cleanGeminiText(t) \in Text /\ Trimmed(cleanGeminiText(t))
  BY ArtifactMatches, WithoutIs, TrimType DEF cleanGeminiText

\* The text outside the calls is a trimmed text.
LEMMA TextOfType ==
    ASSUME NEW t \in Text
    PROVE  textOf(t) \in Text /\ Trimmed(textOf(t))
  BY ToolCallMatches, WithoutIs, TrimType DEF textOf

\* What was let through and its delta make up the cleaned frame that extends it.
LEMMA DeltaIs ==
    ASSUME NEW s \in Text, NEW t \in Text
    PROVE  /\ deltaOf(s, t) \in Text
           /\ s \o deltaOf(s, t) = IF Extends(s, t) THEN cleanGeminiText(t) ELSE s
           /\ s \o deltaOf(s, t) \in Text
<1> DEFINE c == cleanGeminiText(t)
<1>1. c \in Text
  BY CleanType
<1>2. CASE Extends(s, t)
  <2>1. IsPrefix(s, c) /\ deltaOf(s, t) = From(c, Len(s) + 1)
    BY <1>2 DEF Extends, deltaOf
  <2> HIDE DEF c
  <2>2. c = s \o From(c, Len(s) + 1) /\ From(c, Len(s) + 1) \in Text
    BY <1>1, <2>1, PrefixSplit DEF Text
  <2> QED
    BY <1>1, <1>2, <2>1, <2>2 DEF c
<1>3. CASE ~Extends(s, t)
  BY <1>3, ConcatEmptySeq, EmptySeq DEF deltaOf, Text
<1> QED
  BY <1>2, <1>3

\* What was sent and what remains make up the full text it is a prefix of.
LEMMA RemainingIs ==
    ASSUME NEW s \in Text, NEW t \in Text
    PROVE  /\ remainingOf(t, s) \in Text
           /\ s \o remainingOf(t, s) = IF IsPrefix(s, t) THEN t ELSE s
<1>1. CASE IsPrefix(s, t)
  BY <1>1, PrefixSplit DEF remainingOf, Text
<1>2. CASE ~IsPrefix(s, t)
  BY <1>2, ConcatEmptySeq, EmptySeq DEF remainingOf, Text
<1> QED
  BY <1>1, <1>2

\* Nothing remains of what cannot be extended.
LEMMA NothingRemains ==
    ASSUME NEW s \in Text, NEW t \in Text, ~Extends(s, t)
    PROVE  remainingOf(cleanGeminiText(t), s) = <<>>
<1> DEFINE c == cleanGeminiText(t)
<1>1. c \in Text
  BY CleanType
<1> HIDE DEF c
<1>2. CASE IsPrefix(s, c)
  <2>1. ~(Len(c) > Len(s))
    BY <1>2 DEF Extends, c
  <2>2. c = s
    BY <1>1, <1>2, <2>1, PrefixOrder, LenProperties DEF Text
  <2>3. From(c, Len(s) + 1) = <<>>
    <3>1. Len(c) < Len(s) + 1 /\ Len(c) \in Int /\ Len(s) + 1 \in Int
      BY <2>2, LenProperties DEF Text
    <3> QED
      BY <3>1, SubSeqEmpty DEF From
  <2> QED
    BY <2>3, <1>2 DEF remainingOf, c
<1>3. CASE ~IsPrefix(s, c)
  BY <1>3 DEF remainingOf, c
<1> QED
  BY <1>2, <1>3

\* What cannot be extended now, cannot later.
LEMMA ExtendsNoMore ==
    ASSUME NEW s \in Text, NEW u \in Text, NEW t \in Text, IsPrefix(s, u), ~Extends(s, t)
    PROVE  ~Extends(u, t)
<1> DEFINE c == cleanGeminiText(t)
<1>1. c \in Text
  BY CleanType
<1> HIDE DEF c
<1> SUFFICES ASSUME Len(c) > Len(u), IsPrefix(u, c) PROVE Len(c) > Len(s) /\ IsPrefix(s, c)
  BY DEF Extends, c
<1>2. Len(s) <= Len(u) /\ Len(s) \in Nat /\ Len(u) \in Nat /\ Len(c) \in Nat
  BY <1>1, PrefixIs, LenProperties DEF Text
<1>3. IsPrefix(s, c)
  BY <1>1, PrefixOrder DEF Text
<1> QED
  BY <1>2, <1>3

-----------------------------------------------------------------------------
(* The fence gate *)

\* Only one token can be the beginning of an opening: the backticks at the end.
LEMMA PartialIs ==
    ASSUME NEW s \in Text
    PROVE  partialPrefixLen(s, toolFenceOpen)
             = IF s # <<>> /\ s[Len(s)] = "bt" THEN 1 ELSE 0
<1>1. Len(s) \in Nat /\ (s = <<>> <=> Len(s) = 0) /\ Len(toolFenceOpen) = 2
  BY LenProperties, EmptySeq DEF Text, toolFenceOpen
<1> DEFINE Held == {0} \cup {k \in 1..1 : k <= Len(s) /\ IsPrefix(From(s, Len(s) - k + 1), toolFenceOpen)}
<1>2. partialPrefixLen(s, toolFenceOpen) = Greatest(Held)
  BY <1>1 DEF partialPrefixLen
<1>3. 1 \in Held <=> s # <<>> /\ s[Len(s)] = "bt"
  <2>1. CASE s = <<>>
    BY <1>1, <2>1
  <2>2. CASE s # <<>>
    <3> DEFINE u == From(s, Len(s))
    <3>1. Len(s) \in 1..Len(s)+1 /\ Len(s) - 1 + 1 = Len(s)
      BY <1>1, <2>2
    <3>2. u \in Text /\ Len(u) = 1 /\ u[1] = s[Len(s)]
      <4>1. /\ u \in Text /\ Len(u) = Len(s) - Len(s) + 1
            /\ \A k \in 1..(Len(s) - Len(s) + 1) : u[k] = s[Len(s) + k - 1]
        BY <3>1, FromIs DEF Text
      <4>2. Len(s) - Len(s) + 1 = 1 /\ Len(s) + 1 - 1 = Len(s) /\ 1 \in 1..1
        BY <1>1
      <4> QED
        BY <4>1, <4>2
    <3>3. IsPrefix(u, toolFenceOpen) <=> u[1] = "bt"
      <4>1. toolFenceOpen \in Seq(Tokens) /\ toolFenceOpen[1] = "bt"
        BY DEF toolFenceOpen, Tokens
      <4> HIDE DEF u
      <4>2. /\ u \in Seq(Tokens)
            /\ Len(u) <= Len(toolFenceOpen)
        BY <3>2, <1>1 DEF Text
      <4>3. IsPrefix(u, toolFenceOpen) <=> \A k \in 1..Len(u) : u[k] = toolFenceOpen[k]
        BY <4>1, <4>2, PrefixIs
      <4>4. \A k : k \in 1..Len(u) <=> k = 1
        BY <3>2
      <4> QED
        BY <4>1, <4>3, <4>4
    <3>4. 1 \in Held <=> IsPrefix(u, toolFenceOpen)
      BY <1>1, <2>2, <3>1
    <3> QED
      BY <2>2, <3>2, <3>3, <3>4
  <2> QED
    BY <2>1, <2>2
<1>4. Held \subseteq {0, 1} /\ 0 \in Held
  OBVIOUS
<1> HIDE DEF Held
<1>5. Greatest(Held) \in Held /\ \A i \in Held : Greatest(Held) >= i
  <2>1. Held \subseteq Nat /\ Held # {} /\ 1 \in Nat /\ \A i \in Held : i <= 1
    BY <1>4
  <2> QED
    BY <2>1, GreatestIs
<1>6. Greatest(Held) = IF 1 \in Held THEN 1 ELSE 0
  <2>1. Greatest(Held) = 0 \/ Greatest(Held) = 1
    BY <1>4, <1>5
  <2>2. 1 \in Held => ~(Greatest(Held) = 0)
    BY <1>5
  <2> QED
    BY <2>1, <2>2, <1>5
<1> QED
  BY <1>2, <1>3, <1>6

\* Does a fence open at i?
OpensAt(t, i) == i < Len(t) /\ t[i] = "bt" /\ t[i + 1] = "call"

\* Where the marks of a gate are.
LEMMA MarksAre ==
    ASSUME NEW g \in Gate
    PROVE  /\ g.inFence => Marks(g) = {i \in 1..Len(g.buf) : g.buf[i] = "bt"}
           /\ ~g.inFence =>
                 Marks(g) = {i \in 1..Len(g.buf) : OpensAt(g.buf, i)}
<1>1. g.buf \in Text
  BY DEF Gate
<1>2. CASE g.inFence
  BY <1>1, <1>2, ClosingsAre DEF Marks
<1>3. CASE ~g.inFence
  BY <1>1, <1>3, OpeningsAre DEF Marks, OpensAt
<1> QED
  BY <1>2, <1>3

\* The next mark of a gate is in its buffer.
LEMMA FirstMark ==
    ASSUME NEW g \in Gate, Marks(g) # {}
    PROVE  LET i == Least(Marks(g)) IN
           /\ i \in Marks(g) /\ i \in 1..Len(g.buf)
           /\ ~g.inFence => i < Len(g.buf)
           /\ \A k \in Marks(g) : i <= k
<1>1. Marks(g) \subseteq 1..Len(g.buf) /\ (~g.inFence => \A i \in Marks(g) : i < Len(g.buf))
  <2>1. CASE g.inFence
    BY <2>1, MarksAre
  <2>2. CASE ~g.inFence
    BY <2>2, MarksAre DEF OpensAt
  <2> QED
    BY <2>1, <2>2
<1>2. Marks(g) \subseteq Nat
  BY <1>1
<1>3. Least(Marks(g)) \in Marks(g) /\ \A k \in Marks(g) : Least(Marks(g)) <= k
  BY <1>2, LeastIs
<1> QED
  BY <1>1, <1>3

\* A gate that passes a mark has less in its buffer.
LEMMA PassIs ==
    ASSUME NEW g \in Gate, Marks(g) # {}
    PROVE  LET i == Least(Marks(g)) IN
           /\ g.inFence => passMark(g) =
                 [buf |-> From(g.buf, i + 1), sent |-> g.sent, inFence |-> FALSE]
           /\ ~g.inFence => passMark(g) =
                 [buf |-> From(g.buf, i + 2), sent |-> g.sent \o SubSeq(g.buf, 1, i - 1),
                  inFence |-> TRUE]
           /\ passMark(g) \in Gate
           /\ Len(passMark(g).buf) < Len(g.buf)
<1> DEFINE i == Least(Marks(g))
<1>1. i \in 1..Len(g.buf) /\ (~g.inFence => i < Len(g.buf)) /\ Len(g.buf) \in Nat
  <2>1. Len(g.buf) \in Nat
    BY LenProperties DEF Gate, Text
  <2> QED
    BY <2>1, FirstMark
<1> HIDE DEF i
<1>2. g.buf \in Text /\ g.sent \in Text /\ g.inFence \in BOOLEAN
  BY DEF Gate
<1>3. Len(toolFenceClose) = 1 /\ Len(toolFenceOpen) = 2
  BY DEF toolFenceClose, toolFenceOpen
<1>4. CASE g.inFence
  <2>1. passMark(g) = [g EXCEPT !.buf = From(g.buf, i + 1), !.inFence = FALSE]
    BY <1>3, <1>4 DEF passMark, i
  <2>2. passMark(g) = [buf |-> From(g.buf, i + 1), sent |-> g.sent, inFence |-> FALSE]
    BY <2>1 DEF Gate
  <2>3. From(g.buf, i + 1) \in Text /\ Len(From(g.buf, i + 1)) < Len(g.buf)
    <3>1. i + 1 \in 1..Len(g.buf)+1
      BY <1>1
    <3>2. From(g.buf, i + 1) \in Text /\ Len(From(g.buf, i + 1)) = Len(g.buf) - (i + 1) + 1
      BY <1>2, <3>1, FromIs DEF Text
    <3> QED
      BY <1>1, <3>2
  <2>4. passMark(g) \in Gate /\ Len(passMark(g).buf) < Len(g.buf)
    BY <2>2, <2>3, <1>2 DEF Gate
  <2> QED
    BY <1>4, <2>2, <2>4 DEF i
<1>5. CASE ~g.inFence
  <2>1. passMark(g) =
            [buf |-> From(g.buf, i + 2), sent |-> g.sent \o SubSeq(g.buf, 1, i - 1),
             inFence |-> TRUE]
    BY <1>3, <1>5 DEF passMark, i
  <2>2. From(g.buf, i + 2) \in Text /\ Len(From(g.buf, i + 2)) < Len(g.buf)
    <3>1. i + 2 \in 1..Len(g.buf)+1
      BY <1>1, <1>5
    <3>2. From(g.buf, i + 2) \in Text /\ Len(From(g.buf, i + 2)) = Len(g.buf) - (i + 2) + 1
      BY <1>2, <3>1, FromIs DEF Text
    <3> QED
      BY <1>1, <3>2
  <2>3. g.sent \o SubSeq(g.buf, 1, i - 1) \in Text
    <3>1. 1 \in 1..Len(g.buf)+1 /\ i - 1 \in 0..Len(g.buf)
      BY <1>1
    <3>2. SubSeq(g.buf, 1, i - 1) \in Text
      BY <1>2, <3>1, SubSeqIs DEF Text
    <3> QED
      BY <1>2, <3>2, ConcatProperties DEF Text
  <2>4. passMark(g) \in Gate /\ Len(passMark(g).buf) < Len(g.buf)
    BY <2>1, <2>2, <2>3 DEF Gate
  <2> QED
    BY <1>5, <2>1, <2>4 DEF i
<1> QED
  BY <1>4, <1>5

\* How many tokens are held back.
Held(s) == IF s # <<>> /\ s[Len(s)] = "bt" THEN 1 ELSE 0

\* A gate without a mark holds back the backticks at the end.
LEMMA HoldIs ==
    ASSUME NEW g \in Gate
    PROVE  /\ g.inFence => holdBack(g) = g
           /\ ~g.inFence => holdBack(g) =
                 [buf |-> From(g.buf, Len(g.buf) - Held(g.buf) + 1),
                  sent |-> g.sent \o SubSeq(g.buf, 1, Len(g.buf) - Held(g.buf)),
                  inFence |-> FALSE]
           /\ holdBack(g) \in Gate
<1>1. g.buf \in Text /\ g.sent \in Text /\ g.inFence \in BOOLEAN
  BY DEF Gate
<1>2. CASE g.inFence
  BY <1>2 DEF holdBack
<1>3. CASE ~g.inFence
  <2> DEFINE cut == Len(g.buf) - Held(g.buf)
  <2>1. cut = Len(g.buf) - partialPrefixLen(g.buf, toolFenceOpen)
    BY <1>1, PartialIs DEF Held
  <2>2. cut \in 0..Len(g.buf) /\ cut + 1 \in 1..Len(g.buf)+1 /\ 1 \in 1..Len(g.buf)+1
    <3>1. Len(g.buf) \in Nat /\ (g.buf = <<>> <=> Len(g.buf) = 0)
      BY <1>1, LenProperties, EmptySeq DEF Text
    <3>2. Held(g.buf) = 0 \/ (Held(g.buf) = 1 /\ Len(g.buf) # 0)
      BY <3>1 DEF Held
    <3> QED
      BY <3>1, <3>2
  <2> HIDE DEF cut
  <2>3. holdBack(g) = [g EXCEPT !.buf = From(g.buf, cut + 1),
                                !.sent = g.sent \o SubSeq(g.buf, 1, cut)]
    BY <1>3, <2>1 DEF holdBack
  <2>4. holdBack(g) = [buf |-> From(g.buf, cut + 1),
                       sent |-> g.sent \o SubSeq(g.buf, 1, cut), inFence |-> FALSE]
    BY <1>1, <1>3, <2>3 DEF Gate
  <2>5. From(g.buf, cut + 1) \in Text /\ SubSeq(g.buf, 1, cut) \in Text
    BY <1>1, <2>2, FromIs, SubSeqIs DEF Text
  <2>6. g.sent \o SubSeq(g.buf, 1, cut) \in Text
    BY <1>1, <2>5, ConcatProperties DEF Text
  <2>7. holdBack(g) \in Gate
    BY <2>4, <2>5, <2>6 DEF Gate
  <2> QED
    BY <1>3, <2>4, <2>7 DEF cut
<1> QED
  BY <1>1, <1>2, <1>3

\* The loop of Push, for the gates the code can be in.
LEMMA PushLoopIs ==
    ASSUME NEW g \in Gate
    PROVE  /\ pushLoop[g] \in Gate
           /\ Marks(g) = {} => pushLoop[g] = holdBack(g)
           /\ Marks(g) # {} => pushLoop[g] = pushLoop[passMark(g)]
<1> DEFINE len == [h \in Gate |-> Len(h.buf)]
           stop == {h \in Gate : Marks(h) = {}}
           base == [h \in Gate |-> holdBack(h)]
           step == [h \in Gate |-> IF Marks(h) = {} THEN h ELSE passMark(h)]
           comb == [h \in Gate |-> [v \in Gate |-> v]]
           Rec(f) == [h \in Gate |-> IF Marks(h) = {} THEN holdBack(h) ELSE f[passMark(h)]]
<1>1. len \in [Gate -> Nat] /\ base \in [Gate -> Gate] /\ comb \in [Gate -> [Gate -> Gate]]
  <2>1. \A h \in Gate : Len(h.buf) \in Nat
    BY LenProperties DEF Gate, Text
  <2> QED
    BY <2>1, HoldIs
<1>2. step \in [Gate -> Gate]
  BY PassIs
<1>3. \A h \in Gate \ stop : len[step[h]] < len[h]
  BY PassIs
<1>4. PICK f \in [Gate -> Gate] : Recursive(f, Gate, stop, base, step, comb)
  <2> HIDE DEF len, stop, base, step, comb
  <2>1. Descends(Gate, Gate, len, stop, base, step, comb)
    BY <1>1, <1>2, <1>3 DEF Descends
  <2> QED
    BY <2>1, Recursion
<1>5. f = Rec(f)
  <2>1. ASSUME NEW h \in Gate
        PROVE  (IF h \in stop THEN base[h] ELSE comb[h][f[step[h]]])
                 = IF Marks(h) = {} THEN holdBack(h) ELSE f[passMark(h)]
    BY <2>1, PassIs
  <2> QED
    BY <1>4, <2>1 DEF Recursive
<1>6. pushLoop = Rec(pushLoop)
  <2>1. pushLoop = CHOOSE loop : loop = Rec(loop)
    BY DEF pushLoop
  <2> HIDE DEF Rec
  <2> QED
    BY <1>5, <2>1
<1>7. \A h \in Gate :
          pushLoop[h] = IF Marks(h) = {} THEN holdBack(h) ELSE pushLoop[passMark(h)]
  BY <1>6
<1> DEFINE P == {h \in Gate : pushLoop[h] \in Gate}
<1>8. ASSUME NEW h \in Gate, \A u \in Gate : len[u] < len[h] => u \in P
      PROVE  h \in P
  BY <1>7, <1>8, PassIs, HoldIs
<1>9. Gate \subseteq P
  <2> HIDE DEF P, len
  <2> QED
    BY <1>1, <1>8, SizeInduction
<1> QED
  BY <1>7, <1>9

-----------------------------------------------------------------------------
(* Where a text is cut makes no difference to the gate *)

\* The length and the elements of a concatenation.
LEMMA ConcatIs ==
    ASSUME NEW S, NEW p \in Seq(S), NEW q \in Seq(S)
    PROVE  /\ p \o q \in Seq(S)
           /\ Len(p) \in Nat /\ Len(q) \in Nat /\ Len(p \o q) = Len(p) + Len(q)
           /\ \A k \in 1..Len(p) : (p \o q)[k] = p[k]
           /\ \A k \in 1..Len(q) : (p \o q)[Len(p) + k] = q[k]
<1> DEFINE c == p \o q
<1>1. /\ c \in Seq(S) /\ Len(c) = Len(p) + Len(q)
      /\ \A k \in 1..Len(p) + Len(q) : c[k] = IF k <= Len(p) THEN p[k] ELSE q[k - Len(p)]
  BY ConcatProperties
<1>2. Len(p) \in Nat /\ Len(q) \in Nat
  BY LenProperties
<1> HIDE DEF c
<1>3. ASSUME NEW k \in 1..Len(p) PROVE c[k] = p[k]
  <2>1. k \in 1..Len(p) + Len(q) /\ k <= Len(p)
    BY <1>2
  <2> QED
    BY <2>1, <1>1
<1>4. ASSUME NEW k \in 1..Len(q) PROVE c[Len(p) + k] = q[k]
  <2>1. Len(p) + k \in 1..Len(p) + Len(q) /\ ~(Len(p) + k <= Len(p))
        /\ Len(p) + k - Len(p) = k
    BY <1>2
  <2> QED
    BY <2>1, <1>1
<1> QED
  BY <1>1, <1>2, <1>3, <1>4 DEF c

\* Concatenating texts is associative.
LEMMA TextConcat == \A a, b, c \in Text : (a \o b) \o c = a \o (b \o c)
  BY ConcatAssociative DEF Text

\* What is left of a concatenation, from a position in its second part on.
LEMMA FromPast ==
    ASSUME NEW S, NEW p \in Seq(S), NEW q \in Seq(S), NEW n \in 1..Len(q)+1
    PROVE  From(p \o q, Len(p) + n) = From(q, n)
<1> DEFINE c == p \o q
           u == From(c, Len(p) + n)
           v == From(q, n)
<1>1. /\ c \in Seq(S) /\ Len(p) \in Nat /\ Len(q) \in Nat /\ Len(c) = Len(p) + Len(q)
      /\ \A k \in 1..Len(q) : c[Len(p) + k] = q[k]
  BY ConcatIs
<1> HIDE DEF c
<1>2. Len(p) + n \in 1..Len(c)+1
  BY <1>1
<1>3. /\ u \in Seq(S) /\ Len(u) = Len(c) - (Len(p) + n) + 1
      /\ \A k \in 1..(Len(c) - (Len(p) + n) + 1) : u[k] = c[(Len(p) + n) + k - 1]
  BY <1>1, <1>2, FromIs, ZenonT(40)
<1>4. /\ v \in Seq(S) /\ Len(v) = Len(q) - n + 1
      /\ \A k \in 1..(Len(q) - n + 1) : v[k] = q[n + k - 1]
  BY FromIs
<1>5. Len(c) - (Len(p) + n) + 1 = Len(q) - n + 1
  BY <1>1
<1> HIDE DEF u, v
<1>6. ASSUME NEW k \in 1..(Len(q) - n + 1) PROVE u[k] = v[k]
  <2>1. n + k - 1 \in 1..Len(q) /\ (Len(p) + n) + k - 1 = Len(p) + (n + k - 1)
    BY <1>1
  <2> QED
    BY <2>1, <1>1, <1>3, <1>4, <1>5
<1>7. u = v
  BY <1>3, <1>4, <1>5, <1>6, SeqEqual
<1> QED
  BY <1>7 DEF u, v, c

\* The beginning of a concatenation that reaches into its second part.
LEMMA SubSeqPast ==
    ASSUME NEW S, NEW p \in Seq(S), NEW q \in Seq(S), NEW n \in 0..Len(q)
    PROVE  SubSeq(p \o q, 1, Len(p) + n) = p \o SubSeq(q, 1, n)
<1> DEFINE c == p \o q
           r == SubSeq(q, 1, n)
           u == SubSeq(c, 1, Len(p) + n)
           v == p \o r
<1>1. /\ c \in Seq(S) /\ Len(p) \in Nat /\ Len(q) \in Nat /\ Len(c) = Len(p) + Len(q)
      /\ \A k \in 1..Len(p) : c[k] = p[k]
      /\ \A k \in 1..Len(q) : c[Len(p) + k] = q[k]
  BY ConcatIs
<1>2. /\ r \in Seq(S) /\ Len(r) = n /\ \A k \in 1..n : r[k] = q[k]
  <2>1. 1 \in 1..Len(q)+1 /\ (1 <= n => n - 1 + 1 = n) /\ (~(1 <= n) => n = 0)
    BY <1>1
  <2>2. /\ r \in Seq(S) /\ Len(r) = (IF 1 <= n THEN n - 1 + 1 ELSE 0)
        /\ \A k \in 1..(n - 1 + 1) : r[k] = q[1 + k - 1]
    BY <2>1, SubSeqIs
  <2>3. \A k \in 1..n : k \in 1..(n - 1 + 1) /\ 1 + k - 1 = k
    BY <1>1
  <2> HIDE DEF r
  <2> QED
    BY <2>1, <2>2, <2>3
<1> HIDE DEF c, r
<1>3. /\ v \in Seq(S) /\ Len(v) = Len(p) + n
      /\ \A k \in 1..Len(p) : v[k] = p[k]
      /\ \A k \in 1..n : v[Len(p) + k] = r[k]
  <2>1. r \in Seq(S)
    BY <1>2
  <2>2. /\ v \in Seq(S) /\ Len(v) = Len(p) + Len(r)
        /\ \A k \in 1..Len(p) : v[k] = p[k]
        /\ \A k \in 1..Len(r) : v[Len(p) + k] = r[k]
    BY <2>1, ConcatIs
  <2> HIDE DEF u, v
  <2> QED
    BY <1>2, <2>2
<1>4. /\ u \in Seq(S) /\ Len(u) = Len(p) + n
      /\ \A k \in 1..Len(p) + n : u[k] = c[k]
  <2>1. 1 \in 1..Len(c)+1 /\ Len(p) + n \in 0..Len(c)
        /\ (Len(p) + n) - 1 + 1 = Len(p) + n /\ (~(1 <= Len(p) + n) => Len(p) + n = 0)
    BY <1>1
  <2>2. /\ u \in Seq(S) /\ Len(u) = (IF 1 <= Len(p) + n THEN (Len(p) + n) - 1 + 1 ELSE 0)
        /\ \A k \in 1..((Len(p) + n) - 1 + 1) : u[k] = c[1 + k - 1]
    BY <1>1, <2>1, SubSeqIs
  <2>3. \A k \in 1..Len(p) + n : k \in 1..((Len(p) + n) - 1 + 1) /\ 1 + k - 1 = k
    BY <1>1
  <2> HIDE DEF u
  <2> QED
    BY <2>1, <2>2, <2>3
<1> HIDE DEF u, v
<1>5. ASSUME NEW k \in 1..Len(p) + n PROVE u[k] = v[k]
  <2>1. CASE k <= Len(p)
    <3>1. k \in 1..Len(p)
      BY <1>1, <2>1
    <3> QED
      BY <3>1, <1>1, <1>3, <1>4
  <2>2. CASE ~(k <= Len(p))
    <3>1. k - Len(p) \in 1..n /\ k - Len(p) \in 1..Len(q) /\ Len(p) + (k - Len(p)) = k
      BY <1>1, <2>2
    <3>2. c[k] = q[k - Len(p)] /\ v[k] = r[k - Len(p)]
      BY <3>1, <1>1, <1>3
    <3> QED
      BY <3>1, <3>2, <1>2, <1>4
  <2> QED
    BY <2>1, <2>2
<1>6. u = v
  BY <1>3, <1>4, <1>5, SeqEqual
<1> QED
  BY <1>6 DEF u, v, c, r

GateOf(buf, sent, inFence) == [buf |-> buf, sent |-> sent, inFence |-> inFence]

\* Outside a fence the gate lets go what is before the first mark and cannot begin one.
LEMMA SkipPrefix ==
    ASSUME NEW p \in Text, NEW q \in Text, NEW s \in Text,
           \A i \in 1..Len(p) : ~OpensAt(p \o q, i),
           q # <<>> \/ Held(p) = 0
    PROVE  pushLoop[GateOf(p \o q, s, FALSE)] = pushLoop[GateOf(q, s \o p, FALSE)]
<1> DEFINE c == p \o q
           g1 == GateOf(c, s, FALSE)
           g2 == GateOf(q, s \o p, FALSE)
<1>1. /\ c \in Text /\ Len(p) \in Nat /\ Len(q) \in Nat /\ Len(c) = Len(p) + Len(q)
      /\ \A k \in 1..Len(p) : c[k] = p[k]
      /\ \A k \in 1..Len(q) : c[Len(p) + k] = q[k]
  BY ConcatIs DEF Text
<1>2. s \o p \in Text
  BY ConcatIs DEF Text
<1>3. g1 \in Gate /\ g1.buf = c /\ g1.sent = s /\ ~g1.inFence
  BY <1>1 DEF GateOf, Gate
<1>4. g2 \in Gate /\ g2.buf = q /\ g2.sent = s \o p /\ ~g2.inFence
  BY <1>2 DEF GateOf, Gate
<1>5. Marks(g1) = {i \in 1..Len(c) : OpensAt(c, i)}
  BY <1>3, MarksAre
<1>6. Marks(g2) = {i \in 1..Len(q) : OpensAt(q, i)}
  BY <1>4, MarksAre
<1>7. \A i \in 1..Len(p) : ~OpensAt(c, i)
  OBVIOUS
<1> HIDE DEF c, g1, g2
<1>8. ASSUME NEW i \in 1..Len(q) PROVE OpensAt(q, i) <=> OpensAt(c, Len(p) + i)
  <2>1. (i < Len(q) <=> Len(p) + i < Len(c)) /\ c[Len(p) + i] = q[i]
    BY <1>1
  <2>2. i < Len(q) => c[(Len(p) + i) + 1] = q[i + 1]
    <3>1. i < Len(q) => i + 1 \in 1..Len(q) /\ Len(p) + (i + 1) = (Len(p) + i) + 1
      BY <1>1
    <3> QED
      BY <3>1, <1>1
  <2> QED
    BY <2>1, <2>2 DEF OpensAt
<1>9. \A i \in Marks(g2) : Len(p) + i \in Marks(g1)
  BY <1>1, <1>5, <1>6, <1>8
<1>10. ASSUME NEW i \in Marks(g1) PROVE i - Len(p) \in Marks(g2) /\ i = Len(p) + (i - Len(p))
  <2>1. i \in 1..Len(c) /\ i \notin 1..Len(p)
    BY <1>5, <1>7
  <2>2. i - Len(p) \in 1..Len(q) /\ i = Len(p) + (i - Len(p))
    BY <1>1, <2>1
  <2> QED
    BY <1>5, <1>6, <1>8, <2>2
<1>11. CASE Marks(g1) = {}
  <2>1. Marks(g2) = {}
    BY <1>9, <1>11
  <2>2. Held(c) = Held(q)
    <3>1. CASE q = <<>>
      BY <3>1, ConcatEmptySeq DEF c, Text, Held
    <3>2. CASE q # <<>>
      <4>1. Len(q) \in 1..Len(q)
        BY <1>1, <3>2, EmptySeq DEF Text
      <4>2. c # <<>> /\ c[Len(c)] = q[Len(q)]
        <5>1. Len(c) # 0
          BY <1>1, <4>1
        <5> QED
          BY <5>1, <1>1, <4>1, EmptySeq DEF Text
      <4> QED
        BY <3>2, <4>2 DEF Held
    <3> QED
      BY <3>1, <3>2
  <2> DEFINE n == Len(q) - Held(q)
  <2>3. n \in 0..Len(q) /\ Len(c) - Held(c) = Len(p) + n
    <3>1. Held(q) = 0 \/ (Held(q) = 1 /\ Len(q) # 0)
      BY <1>1, EmptySeq DEF Held, Text
    <3> QED
      BY <1>1, <2>2, <3>1
  <2>4. holdBack(g1) = GateOf(From(c, (Len(p) + n) + 1), s \o SubSeq(c, 1, Len(p) + n), FALSE)
    BY <1>3, <2>3, HoldIs DEF GateOf
  <2>5. holdBack(g2) = GateOf(From(q, n + 1), (s \o p) \o SubSeq(q, 1, n), FALSE)
    BY <1>4, HoldIs DEF GateOf
  <2> HIDE DEF n
  <2>6. From(c, (Len(p) + n) + 1) = From(q, n + 1)
    <3>1. n + 1 \in 1..Len(q)+1 /\ (Len(p) + n) + 1 = Len(p) + (n + 1)
      BY <1>1, <2>3
    <3> QED
      BY <3>1, FromPast DEF c, Text
  <2>7. SubSeq(c, 1, Len(p) + n) = p \o SubSeq(q, 1, n) /\ SubSeq(q, 1, n) \in Text
    <3>1. 1 \in 1..Len(q)+1
      BY <1>1
    <3> QED
      BY <2>3, <3>1, SubSeqPast, SubSeqIs DEF c, Text
  <2>8. s \o (p \o SubSeq(q, 1, n)) = (s \o p) \o SubSeq(q, 1, n)
    <3> DEFINE r == SubSeq(q, 1, n)
    <3>1. r \in Text
      BY <2>7
    <3> HIDE DEF r
    <3>2. s \o (p \o r) = (s \o p) \o r
      BY <3>1, ConcatAssociative, SMTT(30) DEF Text
    <3> QED
      BY <3>2 DEF r
  <2>9. holdBack(g1) = holdBack(g2)
    BY <2>4, <2>5, <2>6, <2>7, <2>8
  <2> QED
    BY <1>3, <1>4, <1>11, <2>1, <2>9, PushLoopIs DEF g1, g2, c
<1>12. CASE Marks(g1) # {}
  <2>1. Marks(g2) # {}
    BY <1>10, <1>12
  <2> DEFINE i1 == Least(Marks(g1))
             i2 == Least(Marks(g2))
  <2>2. i1 \in Marks(g1) /\ i1 \in 1..Len(c) /\ i1 < Len(c) /\ \A k \in Marks(g1) : i1 <= k
    BY <1>3, <1>12, FirstMark
  <2>3. i2 \in Marks(g2) /\ i2 \in 1..Len(q) /\ i2 < Len(q) /\ \A k \in Marks(g2) : i2 <= k
    BY <1>4, <2>1, FirstMark
  <2> HIDE DEF i1, i2
  <2>4. i1 = Len(p) + i2
    <3>1. i1 <= Len(p) + i2
      BY <1>9, <2>2, <2>3
    <3>2. i2 <= i1 - Len(p)
      BY <1>10, <2>2, <2>3
    <3>3. i1 \in Int /\ i2 \in Int /\ Len(p) \in Int
      BY <2>2, <2>3, <1>1
    <3> QED
      BY <3>1, <3>2, <3>3
  <2>5. passMark(g1) = GateOf(From(c, i1 + 2), s \o SubSeq(c, 1, i1 - 1), TRUE)
    BY <1>3, <1>12, PassIs DEF GateOf, i1
  <2>6. passMark(g2) = GateOf(From(q, i2 + 2), (s \o p) \o SubSeq(q, 1, i2 - 1), TRUE)
    BY <1>4, <2>1, PassIs DEF GateOf, i2
  <2>7. From(c, i1 + 2) = From(q, i2 + 2)
    <3>1. i2 + 2 \in 1..Len(q)+1 /\ i1 + 2 = Len(p) + (i2 + 2)
      BY <1>1, <2>3, <2>4
    <3> QED
      BY <3>1, FromPast DEF c, Text
  <2>8. SubSeq(c, 1, i1 - 1) = p \o SubSeq(q, 1, i2 - 1) /\ SubSeq(q, 1, i2 - 1) \in Text
    <3> DEFINE m == i2 - 1
    <3>1. m \in 0..Len(q) /\ i1 - 1 = Len(p) + m /\ 1 \in 1..Len(q)+1
      BY <1>1, <2>3, <2>4
    <3> HIDE DEF m
    <3>2. SubSeq(c, 1, Len(p) + m) = p \o SubSeq(q, 1, m) /\ SubSeq(q, 1, m) \in Text
      BY <3>1, SubSeqPast, SubSeqIs DEF c, Text
    <3> QED
      BY <3>1, <3>2 DEF m
  <2>9. s \o (p \o SubSeq(q, 1, i2 - 1)) = (s \o p) \o SubSeq(q, 1, i2 - 1)
    <3> DEFINE r == SubSeq(q, 1, i2 - 1)
    <3>1. r \in Text
      BY <2>8
    <3> HIDE DEF r
    <3>2. s \o (p \o r) = (s \o p) \o r
      BY <3>1, ConcatAssociative, SMTT(30) DEF Text
    <3> QED
      BY <3>2 DEF r
  <2>10. passMark(g1) = passMark(g2)
    BY <2>5, <2>6, <2>7, <2>8, <2>9
  <2> QED
    BY <1>3, <1>4, <1>12, <2>1, <2>10, PushLoopIs, ZenonT(40) DEF g1, g2, c
<1> QED
  BY <1>11, <1>12

\* A gate with another buffer.
LEMMA WithBuf ==
    ASSUME NEW g \in Gate
    PROVE  \A x : [g EXCEPT !.buf = x] = GateOf(x, g.sent, g.inFence)
  BY DEF Gate, GateOf

\* What the gate makes of a text and then of more is what it makes of both at once.
LEMMA PushInTwo ==
    ASSUME NEW g0 \in Gate, NEW b0 \in Text
    PROVE  gatePush(pushLoop[g0], b0) = gatePush(g0, b0)
<1> DEFINE len == [g \in Gate |-> Len(g.buf)]
           more(g, b) == GateOf(g.buf \o b, g.sent, g.inFence)
           P == {g \in Gate : \A b \in Text : pushLoop[more(pushLoop[g], b)] = pushLoop[more(g, b)]}
<1>1. len \in [Gate -> Nat]
  <2>1. \A h \in Gate : Len(h.buf) \in Nat
    BY LenProperties DEF Gate, Text
  <2> QED
    BY <2>1
<1>2. ASSUME NEW g \in Gate, NEW b \in Text
      PROVE  more(g, b) \in Gate /\ gatePush(g, b) = pushLoop[more(g, b)]
  <2>1. g.buf \in Text /\ g.buf \o b \in Text
    BY ConcatProperties DEF Gate, Text
  <2> QED
    BY <2>1, WithBuf DEF gatePush, Gate, GateOf
<1>3. ASSUME NEW g \in Gate, \A h \in Gate : len[h] < len[g] => h \in P,
             NEW b \in Text
      PROVE  pushLoop[more(pushLoop[g], b)] = pushLoop[more(g, b)]
  <2> DEFINE buf == g.buf
  <2>1. /\ buf \in Text /\ g.sent \in Text /\ Len(buf) \in Nat /\ (buf = <<>> <=> Len(buf) = 0)
        /\ g = GateOf(buf, g.sent, g.inFence) /\ g.inFence \in BOOLEAN
    BY LenProperties, EmptySeq DEF Gate, Text, GateOf
  <2>2. /\ buf \o b \in Text /\ Len(b) \in Nat /\ Len(buf \o b) = Len(buf) + Len(b)
        /\ \A k \in 1..Len(buf) : (buf \o b)[k] = buf[k]
    BY <2>1, ConcatIs DEF Text
  <2> HIDE DEF buf
  <2>3. /\ more(g, b) \in Gate /\ more(g, b).buf = buf \o b /\ more(g, b).sent = g.sent
        /\ more(g, b).inFence = g.inFence
    BY <1>2 DEF GateOf, buf
  <2>4. CASE Marks(g) = {} /\ g.inFence
    BY <2>4, HoldIs, PushLoopIs
  <2>5. CASE Marks(g) = {} /\ ~g.inFence
    <3> DEFINE n == Len(buf) - Held(buf)
               p == SubSeq(buf, 1, n)
               r == From(buf, n + 1)
    <3>1. /\ n \in 0..Len(buf) /\ (n = Len(buf) => Held(buf) = 0)
          /\ n + 1 \in 1..Len(buf)+1 /\ 1 \in 1..Len(buf)+1
      <4>1. Held(buf) = 0 \/ (Held(buf) = 1 /\ Len(buf) # 0)
        BY <2>1 DEF Held
      <4> QED
        BY <2>1, <4>1
    <3>2. pushLoop[g] = GateOf(r, g.sent \o p, FALSE)
      BY <2>5, HoldIs, PushLoopIs DEF GateOf, buf
    <3> HIDE DEF n
    <3>3. p \in Text /\ r \in Text /\ buf = p \o r /\ Len(p) = n
      <4>1. buf = p \o r
        BY <2>1, <3>1, SplitAt DEF Text
      <4>2. p \in Text /\ Len(p) = (IF 1 <= n THEN n - 1 + 1 ELSE 0) /\ r \in Text
        BY <2>1, <3>1, SubSeqIs, FromIs DEF Text
      <4>3. n \in Nat
        BY <3>1, <2>1
      <4> QED
        BY <4>1, <4>2, <4>3
    <3> HIDE DEF p, r
    <3>4. Len(r) = Len(buf) - n
      <4>1. Len(r) \in Nat /\ Len(p) \in Nat /\ Len(buf) = Len(p) + Len(r)
        BY <3>3, ConcatIs DEF Text
      <4> QED
        BY <4>1, <3>3
    <3>5. buf \o b = p \o (r \o b) /\ r \o b \in Text
      BY <3>3, ConcatProperties, ConcatAssociative, SMTT(30) DEF Text
    <3>6. ASSUME NEW i \in 1..Len(p) PROVE ~OpensAt(p \o (r \o b), i)
      <4>1. i \in 1..Len(buf) /\ (buf \o b)[i] = buf[i]
        BY <2>1, <2>2, <3>1, <3>3
      <4>2. CASE i < Len(buf)
        <5>1. i + 1 \in 1..Len(buf)
          BY <4>2, <2>1
        <5>2. ~OpensAt(buf, i)
          BY <4>1, <2>5, MarksAre DEF buf
        <5> QED
          BY <3>5, <4>1, <4>2, <5>1, <5>2, <2>2 DEF OpensAt
      <4>3. CASE ~(i < Len(buf))
        <5>1. i = Len(buf) /\ n = Len(buf) /\ Len(buf) # 0
          BY <4>1, <4>3, <3>1, <3>3, <2>1
        <5>2. buf[i] # "bt"
          BY <5>1, <3>1, <2>1 DEF Held
        <5> QED
          BY <5>2, <4>1, <3>5 DEF OpensAt
      <4> QED
        BY <4>2, <4>3
    <3>7. r \o b # <<>> \/ Held(p) = 0
      <4> SUFFICES ASSUME r \o b = <<>> PROVE Held(p) = 0
        OBVIOUS
      <4>1. r = <<>>
        BY <3>3, ConcatEqualIffEmpty DEF Text
      <4>2. Len(r) = 0 /\ p = buf
        BY <4>1, <3>3, ConcatEmptySeq, EmptySeq DEF Text
      <4>3. n = Len(buf)
        BY <4>2, <3>4, <3>1, <2>1
      <4> QED
        BY <4>2, <4>3, <3>1
    <3>8. pushLoop[GateOf(p \o (r \o b), g.sent, FALSE)]
            = pushLoop[GateOf(r \o b, g.sent \o p, FALSE)]
      BY <2>1, <3>3, <3>5, <3>6, <3>7, SkipPrefix, ZenonT(40)
    <3>9. more(pushLoop[g], b) = GateOf(r \o b, g.sent \o p, FALSE)
      BY <3>2 DEF GateOf
    <3>10. more(g, b) = GateOf(p \o (r \o b), g.sent, FALSE)
      BY <2>1, <2>5, <3>5 DEF GateOf, buf
    <3> QED
      BY <3>8, <3>9, <3>10
  <2>6. CASE Marks(g) # {}
    <3> DEFINE h == passMark(g)
               i == Least(Marks(g))
               j == Least(Marks(more(g, b)))
    <3>1. h \in Gate /\ len[h] < len[g]
      BY <2>6, PassIs
    <3>2. pushLoop[more(pushLoop[h], b)] = pushLoop[more(h, b)]
      BY <3>1, <1>3
    <3>3. /\ i \in Marks(g) /\ i \in 1..Len(buf) /\ \A k \in Marks(g) : i <= k
          /\ ~g.inFence => i < Len(buf)
      BY <2>6, FirstMark DEF buf
    <3>4. \A k \in 1..Len(buf) : (g.inFence \/ k < Len(buf)) =>
              (k \in Marks(g) <=> k \in Marks(more(g, b)))
      <4>1. CASE g.inFence
        <5>1. /\ Marks(g) = {k \in 1..Len(buf) : buf[k] = "bt"}
              /\ Marks(more(g, b)) = {k \in 1..Len(buf \o b) : (buf \o b)[k] = "bt"}
          BY <4>1, <2>3, MarksAre DEF buf
        <5> HIDE DEF more
        <5> QED
          BY <5>1, <2>1, <2>2
      <4>2. CASE ~g.inFence
        <5>1. /\ Marks(g) = {k \in 1..Len(buf) : OpensAt(buf, k)}
              /\ Marks(more(g, b)) = {k \in 1..Len(buf \o b) : OpensAt(buf \o b, k)}
          BY <4>2, <2>3, MarksAre DEF buf
        <5>2. ASSUME NEW k \in 1..Len(buf), k < Len(buf)
              PROVE  OpensAt(buf, k) <=> OpensAt(buf \o b, k)
          <6>1. k + 1 \in 1..Len(buf) /\ k < Len(buf) + Len(b)
            BY <2>1, <2>2, <5>2
          <6> QED
            BY <6>1, <5>2, <2>2 DEF OpensAt
        <5> HIDE DEF more
        <5> QED
          BY <4>2, <5>1, <5>2, <2>1, <2>2
      <4> QED
        BY <4>1, <4>2
    <3>5. i \in Marks(more(g, b)) /\ Marks(more(g, b)) # {}
      BY <3>3, <3>4
    <3>6. j \in Marks(more(g, b)) /\ j \in 1..Len(buf \o b) /\ \A k \in Marks(more(g, b)) : j <= k
      BY <2>3, <3>5, FirstMark
    <3> HIDE DEF i, j, h
    <3>7. i = j
      <4>1. j <= i
        BY <3>5, <3>6
      <4>2. j \in 1..Len(buf) /\ (g.inFence \/ j < Len(buf))
        BY <4>1, <3>3, <3>6, <2>1, <2>2
      <4>3. i <= j
        BY <4>2, <3>4, <3>6, <3>3
      <4>4. i \in Int /\ j \in Int
        BY <3>3, <3>6
      <4> QED
        BY <4>1, <4>3, <4>4
    <3>8. passMark(more(g, b)) = more(h, b)
      <4>1. CASE g.inFence
        <5>1. passMark(more(g, b)) = GateOf(From(buf \o b, i + 1), g.sent, FALSE)
          BY <4>1, <2>3, <3>5, <3>7, PassIs DEF GateOf, j
        <5>2. h = GateOf(From(buf, i + 1), g.sent, FALSE)
          BY <4>1, <2>6, PassIs DEF GateOf, h, i, buf
        <5>3. From(buf \o b, i + 1) = From(buf, i + 1) \o b
          <6>1. i + 1 \in 1..Len(buf)+1
            BY <3>3, <2>1
          <6> QED
            BY <6>1, <2>1, FromOfConcat DEF Text
        <5> QED
          BY <5>1, <5>2, <5>3 DEF GateOf
      <4>2. CASE ~g.inFence
        <5>1. passMark(more(g, b))
                = GateOf(From(buf \o b, i + 2), g.sent \o SubSeq(buf \o b, 1, i - 1), TRUE)
          BY <4>2, <2>3, <3>5, <3>7, PassIs DEF GateOf, j
        <5>2. h = GateOf(From(buf, i + 2), g.sent \o SubSeq(buf, 1, i - 1), TRUE)
          BY <4>2, <2>6, PassIs DEF GateOf, h, i, buf
        <5>3. From(buf \o b, i + 2) = From(buf, i + 2) \o b
          <6>1. i + 2 \in 1..Len(buf)+1
            BY <3>3, <4>2, <2>1
          <6> QED
            BY <6>1, <2>1, FromOfConcat DEF Text
        <5>4. SubSeq(buf \o b, 1, i - 1) = SubSeq(buf, 1, i - 1)
          <6>1. CASE i = 1
            BY <6>1, SubSeqEmpty
          <6>2. CASE i # 1
            <7>1. 1 \in 1..Len(buf) /\ i - 1 \in 1..Len(buf)
              BY <6>2, <3>3, <2>1
            <7> QED
              BY <7>1, <2>1, SubSeqOfConcat1 DEF Text
          <6> QED
            BY <6>1, <6>2
        <5> QED
          BY <5>1, <5>2, <5>3, <5>4 DEF GateOf
      <4> QED
        BY <4>1, <4>2
    <3>9. pushLoop[g] = pushLoop[h] /\ pushLoop[more(g, b)] = pushLoop[passMark(more(g, b))]
      BY <2>3, <2>6, <3>5, PushLoopIs DEF h
    <3> QED
      BY <3>2, <3>8, <3>9
  <2> QED
    BY <2>4, <2>5, <2>6
<1>4. ASSUME NEW g \in Gate, \A h \in Gate : len[h] < len[g] => h \in P
      PROVE  g \in P
  <2> HIDE DEF len
  <2> SUFFICES ASSUME NEW b \in Text
               PROVE  pushLoop[more(pushLoop[g], b)] = pushLoop[more(g, b)]
    OBVIOUS
  <2> HIDE DEF P
  <2> QED
    BY <1>3, <1>4
<1>5. Gate \subseteq P
  <2> HIDE DEF P, len
  <2> QED
    BY <1>1, <1>4, SizeInduction
<1>6. pushLoop[more(pushLoop[g0], b0)] = pushLoop[more(g0, b0)]
  BY <1>5
<1> HIDE DEF more
<1> QED
  BY <1>2, <1>6, PushLoopIs

\* The gate of a request is that of the text it let through.
LEMMA NewGate ==
    /\ newToolFenceGate \in Gate
    /\ gatePush(newToolFenceGate, <<>>) = newToolFenceGate
<1>1. <<>> \in Text /\ newToolFenceGate = GateOf(<<>>, <<>>, FALSE)
  BY EmptySeq DEF Text, newToolFenceGate, GateOf
<1>2. newToolFenceGate \in Gate
  BY <1>1 DEF Gate, GateOf
<1> DEFINE g == GateOf(<<>>, <<>>, FALSE)
<1>3. gatePush(newToolFenceGate, <<>>) = pushLoop[g]
  <2>1. [g EXCEPT !.buf = <<>>] = g
    BY DEF GateOf
  <2>2. g.buf \o <<>> = <<>>
    BY <1>1, ConcatEmptySeq DEF GateOf, Text
  <2>3. [g EXCEPT !.buf = g.buf \o <<>>] = g
    BY <2>1, <2>2
  <2> QED
    BY <1>1, <2>3 DEF gatePush
<1>4. g.buf = <<>> /\ g.sent = <<>> /\ g.inFence = FALSE /\ g \in Gate
  BY <1>1, <1>2 DEF GateOf
<1>5. Marks(g) = {}
  <2>1. Len(<<>>) = 0
    OBVIOUS
  <2> HIDE DEF g
  <2>2. Marks(g) = {i \in 1..0 : OpensAt(<<>>, i)}
    BY <1>4, <2>1, MarksAre
  <2> QED
    BY <2>2
<1>6. holdBack(g) = g
  <2> HIDE DEF g
  <2>1. Held(<<>>) = 0 /\ Len(<<>>) = 0
    BY DEF Held
  <2>2. holdBack(g) = [buf |-> From(<<>>, 0 - 0 + 1), sent |-> <<>> \o SubSeq(<<>>, 1, 0 - 0), inFence |-> FALSE]
    BY <1>4, <2>1, HoldIs
  <2>3. From(<<>>, 0 - 0 + 1) = <<>> /\ SubSeq(<<>>, 1, 0 - 0) = <<>>
    BY <2>1, SubSeqEmpty DEF From
  <2>4. <<>> \o SubSeq(<<>>, 1, 0 - 0) = <<>>
    BY <1>1, <2>3, ConcatEmptySeq DEF Text
  <2> QED
    BY <2>2, <2>3, <2>4 DEF g, GateOf
<1>7. pushLoop[g] = g
  BY <1>4, <1>5, <1>6, PushLoopIs
<1> QED
  BY <1>1, <1>2, <1>3, <1>7

\* Push leaves a gate.
LEMMA GatePushType ==
    ASSUME NEW g \in Gate, NEW b \in Text
    PROVE  gatePush(g, b) \in Gate
<1>1. g.buf \o b \in Text
  BY ConcatProperties DEF Gate, Text
<1>2. [g EXCEPT !.buf = g.buf \o b] \in Gate
  BY <1>1 DEF Gate
<1> QED
  BY <1>2, PushLoopIs DEF gatePush

\* Push on a new gate begins with the text in the buffer.
LEMMA FreshPush ==
    ASSUME NEW t \in Text
    PROVE  gatePush(newToolFenceGate, t) = pushLoop[GateOf(t, <<>>, FALSE)]
<1> DEFINE n == newToolFenceGate
<1>1. n \in Gate /\ n.buf = <<>> /\ n.sent = <<>> /\ n.inFence = FALSE
  BY NewGate DEF newToolFenceGate
<1>2. <<>> \o t = t
  BY ConcatEmptySeq DEF Text
<1> HIDE DEF n
<1>3. gatePush(n, t) = pushLoop[[n EXCEPT !.buf = t]]
  BY <1>1, <1>2 DEF gatePush
<1> QED
  BY <1>1, <1>3, WithBuf DEF n

\* What a new gate makes of two texts, one after the other, it makes of both at once.
LEMMA PushMore ==
    ASSUME NEW a \in Text, NEW b \in Text
    PROVE  gatePush(gatePush(newToolFenceGate, a), b) = gatePush(newToolFenceGate, a \o b)
<1>1. /\ newToolFenceGate = GateOf(<<>>, <<>>, FALSE)
      /\ <<>> \in Text /\ a \o b \in Text /\ <<>> \o a = a /\ <<>> \o (a \o b) = a \o b
  BY EmptySeq, ConcatProperties, ConcatEmptySeq DEF Text, newToolFenceGate, GateOf
<1> DEFINE g == GateOf(a, <<>>, FALSE)
<1>2. \A t \in Text : gatePush(newToolFenceGate, t) = pushLoop[GateOf(t, <<>>, FALSE)]
  BY FreshPush
<1>3. g \in Gate /\ g.buf = a
  BY <1>1 DEF Gate, GateOf
<1>4. gatePush(g, b) = pushLoop[GateOf(a \o b, <<>>, FALSE)]
  <2>1. g.sent = <<>> /\ g.inFence = FALSE
    BY DEF GateOf
  <2> HIDE DEF g
  <2> QED
    BY <1>3, <2>1, WithBuf DEF gatePush
<1> HIDE DEF g
<1>5. gatePush(pushLoop[g], b) = gatePush(g, b)
  BY <1>3, PushInTwo
<1> QED
  BY <1>1, <1>2, <1>4, <1>5 DEF g

-----------------------------------------------------------------------------
(* The pieces of a stream *)

Own(e, kind) == IF e.kind = kind THEN e.text ELSE <<>>

\* All but the last event of a stream is shorter.
LEMMA FrontIs ==
    ASSUME NEW S, NEW w \in Seq(S), w # <<>>
    PROVE  /\ Front(w) \in Seq(S) /\ Len(Front(w)) < Len(w) /\ Last(w) \in S
<1>1. Len(w) \in Nat /\ Len(w) # 0
  BY LenProperties, EmptySeq
<1>2. 1 \in 1..Len(w)+1 /\ Len(w) - 1 \in 0..Len(w) /\ Len(w) \in 1..Len(w)
  BY <1>1
<1>3. /\ SubSeq(w, 1, Len(w) - 1) \in Seq(S)
      /\ Len(SubSeq(w, 1, Len(w) - 1)) = IF 1 <= Len(w) - 1 THEN Len(w) - 1 - 1 + 1 ELSE 0
  BY <1>2, SubSeqIs
<1> QED
  BY <1>1, <1>2, <1>3, ElementOfSeq DEF Front, Last

\* The recursion that puts the pieces together.
LEMMA PiecesAre ==
    ASSUME NEW kind, NEW w \in Seq(Event)
    PROVE  /\ Pieces(w, kind) \in Text
           /\ Pieces(w, kind) =
                  IF w = <<>> THEN <<>> ELSE Pieces(Front(w), kind) \o Own(Last(w), kind)
<1> DEFINE S == Seq(Event)
           len == [v \in S |-> Len(v)]
           stop == {<<>>}
           base == [v \in S |-> <<>>]
           step == [v \in S |-> IF v = <<>> THEN v ELSE Front(v)]
           own(v) == IF v = <<>> THEN <<>> ELSE Own(Last(v), kind)
           comb == [v \in S |-> [x \in Text |-> x \o own(v)]]
           Rec(f) == [v \in S |-> IF v = <<>> THEN <<>> ELSE f[Front(v)] \o Own(Last(v), kind)]
<1>1. <<>> \in Text /\ <<>> \in S
  BY EmptySeq DEF Text
<1>2. ASSUME NEW v \in S, v # <<>>
      PROVE  Front(v) \in S /\ Len(Front(v)) < Len(v) /\ Last(v) \in Event
  BY <1>2, FrontIs
<1>3. ASSUME NEW v \in S PROVE own(v) \in Text
  <2>1. \A e \in Event : Own(e, kind) \in Text
    BY <1>1 DEF Own, Event
  <2> QED
    BY <1>1, <1>2, <2>1
<1>4. len \in [S -> Nat] /\ base \in [S -> Text]
  <2>1. \A v \in S : Len(v) \in Nat
    BY LenProperties
  <2> QED
    BY <1>1, <2>1
<1>5. step \in [S -> S]
  BY <1>2
<1>6. comb \in [S -> [Text -> Text]]
  <2> HIDE DEF own, S
  <2>1. \A v \in S, x \in Text : x \o own(v) \in Text
    BY <1>3, ConcatProperties DEF Text
  <2> QED
    BY <2>1
<1>7. \A v \in S \ stop : len[step[v]] < len[v]
  BY <1>2
<1>8. PICK f \in [S -> Text] : Recursive(f, S, stop, base, step, comb)
  <2> HIDE DEF S, len, stop, base, step, comb
  <2>1. Descends(S, Text, len, stop, base, step, comb)
    BY <1>4, <1>5, <1>6, <1>7 DEF Descends
  <2> QED
    BY <2>1, Recursion
<1>9. f = Rec(f)
  <2>1. ASSUME NEW v \in S
        PROVE  (IF v \in stop THEN base[v] ELSE comb[v][f[step[v]]])
                 = IF v = <<>> THEN <<>> ELSE f[Front(v)] \o Own(Last(v), kind)
    BY <2>1, <1>2
  <2> HIDE DEF S, stop, base, step, comb
  <2> QED
    BY <1>8, <2>1 DEF Recursive
<1> DEFINE pieces == CHOOSE g : g = Rec(g)
<1>10. pieces = Rec(pieces)
  BY <1>9
<1>11. \A v \in S : Pieces(v, kind) = pieces[v]
  BY DEF Pieces, Own
<1> HIDE DEF pieces
<1>12. \A v \in S : pieces[v] = IF v = <<>> THEN <<>> ELSE pieces[Front(v)] \o Own(Last(v), kind)
  BY <1>10
<1> DEFINE P == {v \in S : pieces[v] \in Text}
<1>13. ASSUME NEW v \in S, \A u \in S : len[u] < len[v] => u \in P
       PROVE  v \in P
  <2>1. CASE v = <<>>
    BY <2>1, <1>1, <1>12
  <2>2. CASE v # <<>>
    <3>1. pieces[Front(v)] \in Text /\ own(v) \in Text
      BY <2>2, <1>2, <1>3, <1>13
    <3>2. pieces[Front(v)] \o Own(Last(v), kind) \in Text
      BY <2>2, <3>1, ConcatProperties DEF Text
    <3> QED
      BY <2>2, <3>2, <1>12
  <2> QED
    BY <2>1, <2>2
<1>14. S \subseteq P
  <2> HIDE DEF P, len, S
  <2> QED
    BY <1>4, <1>13, SizeInduction
<1> QED
  BY <1>2, <1>11, <1>12, <1>14

\* An event adds its own text to the pieces.
LEMMA PiecesOfAppend ==
    ASSUME NEW kind, NEW w \in Seq(Event), NEW e \in Event
    PROVE  Pieces(w \o <<e>>, kind) = Pieces(w, kind) \o Own(e, kind)
<1> DEFINE v == w \o <<e>>
<1>1. <<e>> \in Seq(Event) /\ Len(<<e>>) = 1 /\ <<e>>[1] = e
  OBVIOUS
<1>2. /\ v \in Seq(Event) /\ Len(w) \in Nat /\ Len(v) = Len(w) + 1 /\ v[Len(w) + 1] = e
  BY <1>1, ConcatIs
<1>3. v # <<>>
  BY <1>2, EmptySeq
<1>4. Last(v) = e
  BY <1>2 DEF Last
<1>5. Front(v) = w
  <2>1. Len(w) \in 0..Len(w) /\ Len(v) - 1 = Len(w)
    BY <1>2
  <2>2. CASE w = <<>>
    BY <2>1, <2>2, SubSeqEmpty DEF Front
  <2>3. CASE w # <<>>
    <3>1. Len(w) # 0
      BY <2>3, <1>2, EmptySeq
    <3>2. 1 \in 1..Len(w) /\ Len(w) \in 1..Len(w)
      BY <3>1, <1>2
    <3>3. SubSeq(w \o <<e>>, 1, Len(w)) = SubSeq(w, 1, Len(w))
      BY <1>1, <3>2, SubSeqOfConcat1
    <3> QED
      BY <2>1, <3>3, SubSeqFull DEF Front
  <2> QED
    BY <2>2, <2>3
<1> HIDE DEF v
<1> QED
  BY <1>2, <1>3, <1>4, <1>5, PiecesAre DEF v

\* Nothing on the wire has no pieces.
LEMMA PiecesOfNone == \A kind : Pieces(<<>>, kind) = <<>>
  BY PiecesAre, EmptySeq

\* An event that carries no text, one that carries its own, or none.
LEMMA ChunkIs ==
    ASSUME NEW kind \in Kind, NEW t \in Text
    PROVE  /\ t = <<>> => chunk(kind, t) = <<>>
           /\ t # <<>> => chunk(kind, t) = <<[kind |-> kind, text |-> t]>>
           /\ [kind |-> kind, text |-> t] \in Event
           /\ chunk(kind, t) \in Seq(Event)
<1>1. [kind |-> kind, text |-> t] \in Event /\ <<>> \in Seq(Event)
  BY EmptySeq DEF Event
<1> QED
  BY <1>1 DEF chunk

\* A chunk adds its text to the pieces of its kind.
LEMMA PiecesOfChunk ==
    ASSUME NEW w \in Seq(Event), NEW kind \in Kind, NEW t \in Text, NEW k
    PROVE  Pieces(w \o chunk(kind, t), k)
             = IF kind = k THEN Pieces(w, k) \o t ELSE Pieces(w, k)
<1>1. Pieces(w, k) \in Text
  BY PiecesAre
<1>2. CASE t = <<>>
  BY <1>1, <1>2, ChunkIs, ConcatEmptySeq DEF Text
<1>3. CASE t # <<>>
  <2> DEFINE e == [kind |-> kind, text |-> t]
  <2>1. e \in Event /\ chunk(kind, t) = <<e>>
    BY <1>3, ChunkIs
  <2>2. Own(e, k) = IF kind = k THEN t ELSE <<>>
    BY DEF Own
  <2> HIDE DEF e
  <2>3. Pieces(w \o <<e>>, k) = Pieces(w, k) \o Own(e, k)
    BY <2>1, PiecesOfAppend
  <2> QED
    BY <1>1, <2>1, <2>2, <2>3, ConcatEmptySeq DEF Text
<1> QED
  BY <1>2, <1>3

\* An event without a text.
LEMMA EventIs ==
    ASSUME NEW kind \in Kind
    PROVE  /\ event(kind) = <<[kind |-> kind, text |-> <<>>]>>
           /\ [kind |-> kind, text |-> <<>>] \in Event
           /\ event(kind) \in Seq(Event) /\ event(kind) # <<>>
<1>1. [kind |-> kind, text |-> <<>>] \in Event
  BY EmptySeq DEF Event, Text
<1> QED
  BY <1>1 DEF event

\* An event without a text adds nothing.
LEMMA PiecesOfEvent ==
    ASSUME NEW w \in Seq(Event), NEW kind \in Kind, NEW k
    PROVE  /\ Pieces(w \o event(kind), k) = Pieces(w, k)
           /\ Pieces(event(kind), k) = <<>>
<1> DEFINE e == [kind |-> kind, text |-> <<>>]
<1>1. e \in Event /\ event(kind) = <<e>> /\ Own(e, k) = <<>>
  BY EventIs DEF Own
<1> HIDE DEF e
<1>2. ASSUME NEW v \in Seq(Event) PROVE Pieces(v \o <<e>>, k) = Pieces(v, k)
  <2>1. Pieces(v, k) \in Text /\ Pieces(v \o <<e>>, k) = Pieces(v, k) \o Own(e, k)
    BY <1>1, PiecesAre, PiecesOfAppend
  <2> QED
    BY <1>1, <2>1, ConcatEmptySeq DEF Text
<1>3. <<>> \in Seq(Event) /\ <<>> \o <<e>> = <<e>>
  BY <1>1, EmptySeq
<1> QED
  BY <1>1, <1>2, <1>3, PiecesOfNone

-----------------------------------------------------------------------------
(* How often a word occurs *)

Has(w, s) == \E i \in 1..Len(s) : s[i] = w
Once(w, s) == \A i, j \in 1..Len(s) : s[i] = w /\ s[j] = w => i = j

\* u has the word only where t has it, and not more often.
Thinner(w, u, t) == (Has(w, u) => Has(w, t)) /\ (Once(w, t) => Once(w, u))

\* A word is in a concatenation if it is in one of its parts.
LEMMA HasConcat ==
    ASSUME NEW w, NEW p \in Text, NEW q \in Text
    PROVE  Has(w, p \o q) <=> Has(w, p) \/ Has(w, q)
<1> DEFINE c == p \o q
<1>1. /\ Len(p) \in Nat /\ Len(q) \in Nat /\ Len(c) = Len(p) + Len(q)
      /\ \A k \in 1..Len(p) : c[k] = p[k]
      /\ \A k \in 1..Len(q) : c[Len(p) + k] = q[k]
  BY ConcatIs DEF Text
<1> HIDE DEF c
<1>2. ASSUME NEW k \in 1..Len(p), p[k] = w PROVE Has(w, c)
  <2>1. k \in 1..Len(c) /\ c[k] = w
    BY <1>1, <1>2
  <2> QED
    BY <2>1 DEF Has
<1>3. ASSUME NEW k \in 1..Len(q), q[k] = w PROVE Has(w, c)
  <2>1. Len(p) + k \in 1..Len(c) /\ c[Len(p) + k] = w
    BY <1>1, <1>3
  <2> QED
    BY <2>1 DEF Has
<1>4. ASSUME NEW k \in 1..Len(c), c[k] = w PROVE Has(w, p) \/ Has(w, q)
  <2>1. CASE k <= Len(p)
    <3>1. k \in 1..Len(p) /\ p[k] = w
      BY <1>1, <1>4, <2>1
    <3> QED
      BY <3>1 DEF Has
  <2>2. CASE ~(k <= Len(p))
    <3>1. k - Len(p) \in 1..Len(q) /\ Len(p) + (k - Len(p)) = k
      BY <1>1, <2>2
    <3>2. q[k - Len(p)] = w
      BY <1>1, <1>4, <3>1
    <3> QED
      BY <3>1, <3>2 DEF Has
  <2> QED
    BY <2>1, <2>2
<1> QED
  BY <1>2, <1>3, <1>4 DEF Has, c

\* A word is once in a concatenation if it is once in its parts and not in both.
LEMMA OnceConcat ==
    ASSUME NEW w, NEW p \in Text, NEW q \in Text
    PROVE  Once(w, p \o q) <=> Once(w, p) /\ Once(w, q) /\ ~(Has(w, p) /\ Has(w, q))
<1> DEFINE c == p \o q
<1>1. /\ Len(p) \in Nat /\ Len(q) \in Nat /\ Len(c) = Len(p) + Len(q)
      /\ \A k \in 1..Len(p) : c[k] = p[k]
      /\ \A k \in 1..Len(q) : c[Len(p) + k] = q[k]
  BY ConcatIs DEF Text
<1> HIDE DEF c
<1>2. ASSUME Once(w, c) PROVE Once(w, p) /\ Once(w, q) /\ ~(Has(w, p) /\ Has(w, q))
  <2>1. Once(w, p)
    <3> SUFFICES ASSUME NEW i \in 1..Len(p), NEW j \in 1..Len(p), p[i] = w, p[j] = w
                 PROVE  i = j
      BY DEF Once
    <3>1. i \in 1..Len(c) /\ j \in 1..Len(c) /\ c[i] = w /\ c[j] = w
      BY <1>1
    <3> QED
      BY <1>2, <3>1 DEF Once
  <2>2. Once(w, q)
    <3> SUFFICES ASSUME NEW i \in 1..Len(q), NEW j \in 1..Len(q), q[i] = w, q[j] = w
                 PROVE  i = j
      BY DEF Once
    <3>1. /\ Len(p) + i \in 1..Len(c) /\ Len(p) + j \in 1..Len(c)
          /\ c[Len(p) + i] = w /\ c[Len(p) + j] = w
      BY <1>1
    <3>2. Len(p) + i = Len(p) + j
      BY <1>2, <3>1 DEF Once
    <3> QED
      BY <1>1, <3>2
  <2>3. ~(Has(w, p) /\ Has(w, q))
    <3> SUFFICES ASSUME NEW i \in 1..Len(p), NEW j \in 1..Len(q), p[i] = w, q[j] = w
                 PROVE  FALSE
      BY DEF Has
    <3>1. i \in 1..Len(c) /\ Len(p) + j \in 1..Len(c) /\ c[i] = w /\ c[Len(p) + j] = w
      BY <1>1
    <3>2. i = Len(p) + j
      BY <1>2, <3>1 DEF Once
    <3> QED
      BY <1>1, <3>2
  <2> QED
    BY <2>1, <2>2, <2>3
<1>3. ASSUME Once(w, p), Once(w, q), ~(Has(w, p) /\ Has(w, q)) PROVE Once(w, c)
  <2>1. ASSUME NEW i \in 1..Len(c)
        PROVE  \/ i \in 1..Len(p) /\ c[i] = p[i]
               \/ i - Len(p) \in 1..Len(q) /\ c[i] = q[i - Len(p)]
    <3>1. CASE i <= Len(p)
      BY <1>1, <3>1
    <3>2. CASE ~(i <= Len(p))
      <4>1. i - Len(p) \in 1..Len(q) /\ Len(p) + (i - Len(p)) = i
        BY <1>1, <3>2
      <4> QED
        BY <1>1, <4>1
    <3> QED
      BY <3>1, <3>2
  <2> SUFFICES ASSUME NEW i \in 1..Len(c), NEW j \in 1..Len(c), c[i] = w, c[j] = w
               PROVE  i = j
    BY DEF Once
  <2>2. CASE i \in 1..Len(p) /\ c[i] = p[i]
    <3>1. j \in 1..Len(p) /\ c[j] = p[j]
      <4>1. Has(w, p)
        BY <2>2 DEF Has
      <4> QED
        BY <4>1, <2>1, <1>3 DEF Has
    <3> QED
      BY <2>2, <3>1, <1>3 DEF Once
  <2>3. CASE i - Len(p) \in 1..Len(q) /\ c[i] = q[i - Len(p)]
    <3>1. j - Len(p) \in 1..Len(q) /\ c[j] = q[j - Len(p)]
      <4>1. Has(w, q)
        BY <2>3 DEF Has
      <4> QED
        BY <4>1, <2>1, <1>3 DEF Has
    <3>2. i - Len(p) = j - Len(p)
      BY <2>3, <3>1, <1>3 DEF Once
    <3> QED
      BY <1>1, <3>2
  <2> QED
    BY <2>1, <2>2, <2>3
<1> QED
  BY <1>2, <1>3 DEF c

\* Parts that hold a word less often make up a text that does.
LEMMA ThinnerConcat ==
    ASSUME NEW w, NEW p \in Text, NEW q \in Text, NEW u \in Text, NEW v \in Text,
           Thinner(w, p, u), Thinner(w, q, v)
    PROVE  Thinner(w, p \o q, u \o v)
  BY HasConcat, OnceConcat DEF Thinner

\* A part of a text holds a word at most as often as the text.
LEMMA ThinnerParts ==
    ASSUME NEW w, NEW p \in Text, NEW q \in Text
    PROVE  Thinner(w, p, p \o q) /\ Thinner(w, q, p \o q)
  BY HasConcat, OnceConcat DEF Thinner

\* Holding a word less often is an order.
LEMMA ThinnerOrder ==
    /\ \A w, s : Thinner(w, s, s)
    /\ \A w, s, t, u : Thinner(w, s, t) /\ Thinner(w, t, u) => Thinner(w, s, u)
  BY DEF Thinner

\* The rest of a text holds a word at most as often as the text.
LEMMA ThinnerFrom ==
    ASSUME NEW w, NEW t \in Text, NEW i \in 1..Len(t)+1
    PROVE  Thinner(w, From(t, i), t)
<1>1. i - 1 \in 0..Len(t) /\ Len(t) \in Nat /\ (i - 1) + 1 = i /\ 1 \in 1..Len(t)+1
  BY LenProperties DEF Text
<1>2. t = SubSeq(t, 1, i - 1) \o From(t, (i - 1) + 1)
  BY <1>1, SplitAt DEF Text
<1>3. SubSeq(t, 1, i - 1) \in Text /\ From(t, i) \in Text
  BY <1>1, SubSeqIs, FromIs DEF Text
<1> QED
  BY <1>1, <1>2, <1>3, ThinnerParts

\* The beginning of a text holds a word at most as often as the text.
LEMMA ThinnerUpTo ==
    ASSUME NEW w, NEW t \in Text, NEW n \in 0..Len(t)
    PROVE  Thinner(w, SubSeq(t, 1, n), t)
<1>1. n + 1 \in 1..Len(t)+1 /\ 1 \in 1..Len(t)+1
  BY LenProperties DEF Text
<1>2. SubSeq(t, 1, n) \in Text /\ From(t, n + 1) \in Text
  BY <1>1, SubSeqIs, FromIs DEF Text
<1>3. t = SubSeq(t, 1, n) \o From(t, n + 1)
  BY SplitAt DEF Text
<1> QED
  BY <1>2, <1>3, ThinnerParts

\* Trimming adds no word.
LEMMA ThinnerTrim ==
    ASSUME NEW w, NEW t \in Text
    PROVE  Thinner(w, TrimSpace(t), t)
<1>1. CASE TrimSpace(t) = <<>>
  BY <1>1 DEF Thinner, Has, Once
<1>2. CASE TrimSpace(t) # <<>>
  <2>1. PICK a, b \in 1..Len(t) : a <= b /\ TrimSpace(t) = SubSeq(t, a, b)
    BY <1>2, TrimIs
  <2>2. Len(t) \in Nat /\ a \in 1..Len(t)+1 /\ b \in 0..Len(t) /\ 1 \in 1..Len(t)+1
    BY LenProperties DEF Text
  <2>3. SubSeq(t, 1, b) \in Text /\ Len(SubSeq(t, 1, b)) = b
    <3>1. SubSeq(t, 1, b) \in Text
          /\ Len(SubSeq(t, 1, b)) = IF 1 <= b THEN b - 1 + 1 ELSE 0
      BY <2>2, SubSeqIs DEF Text
    <3>2. 1 <= b /\ b - 1 + 1 = b
      BY <2>2
    <3> QED
      BY <3>1, <3>2
  <2> DEFINE u == SubSeq(t, 1, b)
  <2>4. SubSeq(t, a, b) = From(u, a)
    <3>1. /\ 1 \in 1..Len(t) /\ a \in 1..b-1+1 /\ b \in 1..b-1+1
          /\ 1 + a - 1 = a /\ 1 + b - 1 = b
      BY <2>1, <2>2
    <3>2. SubSeq(SubSeq(t, 1, b), a, b) = SubSeq(t, 1 + a - 1, 1 + b - 1)
      BY <3>1, SubSeqOfSubSeq DEF Text
    <3> QED
      BY <2>3, <3>1, <3>2 DEF From
  <2> HIDE DEF u
  <2>5. Thinner(w, From(u, a), u)
    <3>1. u \in Text /\ a \in 1..Len(u)+1
      BY <2>1, <2>2, <2>3 DEF u
    <3> QED
      BY <3>1, ThinnerFrom
  <2>6. Thinner(w, u, t)
    BY <2>2, ThinnerUpTo DEF u
  <2> QED
    BY <2>1, <2>4, <2>5, <2>6, ThinnerOrder
<1> QED
  BY <1>1, <1>2

\* Taking matches out adds no word.
LEMMA ThinnerWithout ==
    ASSUME NEW w, NEW match, Matcher(match), NEW s \in Text
    PROVE  Thinner(w, Without(s, match), s)
<1> DEFINE len == [t \in Text |-> Len(t)]
           P == {t \in Text : Thinner(w, Without(t, match), t)}
<1>1. len \in [Text -> Nat]
  <2>1. \A t \in Text : Len(t) \in Nat
    BY LenProperties DEF Text
  <2> QED
    BY <2>1
<1>2. ASSUME NEW t \in Text, \A u \in Text : len[u] < len[t] => u \in P
      PROVE  t \in P
  <2>1. CASE match[t] = <<>>
    BY <2>1, WithoutIs, ThinnerOrder
  <2>2. CASE match[t] # <<>>
    <3>1. PICK i, j \in 1..Len(t) : i <= j /\ match[t] = <<i, j>>
      BY <2>2 DEF Matcher
    <3>2. match[t][1] = i /\ match[t][2] = j
      BY <3>1
    <3> DEFINE before == SubSeq(t, 1, i - 1)
               rest == From(t, j + 1)
               tail == From(t, i)
    <3>3. Without(t, match) = before \o Without(rest, match)
      BY <2>2, <3>2, WithoutIs
    <3>4. /\ Len(t) \in Nat /\ i - 1 \in 0..Len(t) /\ (i - 1) + 1 = i /\ i \in 1..Len(t)+1
          /\ j + 1 \in 1..Len(t)+1 /\ 1 \in 1..Len(t)+1
      BY LenProperties DEF Text
    <3>5. t = before \o tail
      <4>1. t = SubSeq(t, 1, i - 1) \o From(t, (i - 1) + 1)
        BY <3>4, SplitAt DEF Text
      <4> QED
        BY <3>4, <4>1
    <3>6. /\ before \in Text /\ rest \in Text /\ tail \in Text
          /\ Len(rest) = Len(t) - (j + 1) + 1 /\ Len(tail) = Len(t) - i + 1
      BY <3>4, SubSeqIs, FromIs DEF Text
    <3>7. Thinner(w, rest, tail)
      <4> DEFINE n == j - i + 2
      <4>1. n \in 1..(Len(t) - i + 2) /\ n \in 1..Len(tail)+1 /\ i + n - 1 = j + 1
        BY <3>1, <3>4, <3>6
      <4> HIDE DEF n
      <4>2. From(From(t, i), n) = From(t, i + n - 1)
        BY <3>4, <4>1, FromFrom DEF Text
      <4> HIDE DEF tail
      <4>3. Thinner(w, From(tail, n), tail)
        BY <3>6, <4>1, ThinnerFrom
      <4> QED
        BY <4>1, <4>2, <4>3 DEF tail
    <3>8. Thinner(w, Without(rest, match), rest) /\ Without(rest, match) \in Text
      <4>1. len[rest] < len[t]
        BY <3>4, <3>6
      <4> QED
        BY <1>2, <3>6, <4>1, WithoutIs
    <3> HIDE DEF before, rest, tail
    <3>9. Thinner(w, Without(rest, match), tail)
      BY <3>7, <3>8, ThinnerOrder
    <3>10. Thinner(w, before \o Without(rest, match), before \o tail)
      BY <3>6, <3>8, <3>9, ThinnerConcat, ThinnerOrder
    <3> QED
      BY <3>3, <3>5, <3>10
  <2> QED
    BY <2>1, <2>2
<1>3. Text \subseteq P
  <2> HIDE DEF P, len
  <2> QED
    BY <1>1, <1>2, SizeInduction
<1> QED
  BY <1>3

\* Cleaning adds no word.
LEMMA ThinnerClean ==
    ASSUME NEW w, NEW t \in Text
    PROVE  Thinner(w, cleanGeminiText(t), t)
<1>1. /\ Without(t, Artifact) \in Text
      /\ Thinner(w, Without(t, Artifact), t)
  BY ArtifactMatches, WithoutIs, ThinnerWithout
<1>2. Thinner(w, TrimSpace(Without(t, Artifact)), Without(t, Artifact))
  BY <1>1, ThinnerTrim
<1> QED
  BY <1>1, <1>2, ThinnerOrder DEF cleanGeminiText

\* Taking the tool calls out adds no word.
LEMMA ThinnerTextOf ==
    ASSUME NEW w, NEW t \in Text
    PROVE  Thinner(w, textOf(t), t)
<1>1. /\ Without(t, ToolCall) \in Text
      /\ Thinner(w, Without(t, ToolCall), t)
  BY ToolCallMatches, WithoutIs, ThinnerWithout
<1>2. Thinner(w, TrimSpace(Without(t, ToolCall)), Without(t, ToolCall))
  BY <1>1, ThinnerTrim
<1> QED
  BY <1>1, <1>2, ThinnerOrder DEF textOf

\* What a gate has seen, what was in fences left out.
Seen(g) == g.sent \o g.buf

\* What a gate has seen and not dropped: what it sent and what it holds.
LEMMA SeenIs ==
    /\ \A g : Seen(g) = g.sent \o g.buf
    /\ \A b, s, f : Seen(GateOf(b, s, f)) = s \o b
<1>1. \A b, s, f : GateOf(b, s, f).sent = s /\ GateOf(b, s, f).buf = b
  BY DEF GateOf
<1> QED
  BY <1>1 DEF Seen

\* What the gate has sent and holds is what it was given, without what was in fences.
LEMMA ThinnerGate ==
    ASSUME NEW w, NEW g0 \in Gate
    PROVE  Thinner(w, Seen(pushLoop[g0]), Seen(g0))
<1> DEFINE len == [g \in Gate |-> Len(g.buf)]
           P == {g \in Gate : Thinner(w, Seen(pushLoop[g]), Seen(g))}
<1>1. len \in [Gate -> Nat]
  <2>1. \A g \in Gate : Len(g.buf) \in Nat
    BY LenProperties DEF Gate, Text
  <2> QED
    BY <2>1
<1>2. ASSUME NEW g \in Gate, Marks(g) = {} PROVE Seen(holdBack(g)) = Seen(g)
  <2>1. CASE g.inFence
    BY <2>1, HoldIs
  <2>2. CASE ~g.inFence
    <3> DEFINE buf == g.buf
               n == Len(buf) - Held(buf)
    <3>1. buf \in Text /\ g.sent \in Text /\ Len(buf) \in Nat /\ (buf = <<>> <=> Len(buf) = 0)
      BY LenProperties, EmptySeq DEF Gate, Text
    <3>2. holdBack(g) = GateOf(From(buf, n + 1), g.sent \o SubSeq(buf, 1, n), FALSE)
      BY <2>2, HoldIs DEF GateOf
    <3> HIDE DEF buf
    <3>3. n \in 0..Len(buf) /\ n + 1 \in 1..Len(buf)+1 /\ 1 \in 1..Len(buf)+1
      <4>1. Held(buf) = 0 \/ (Held(buf) = 1 /\ Len(buf) # 0)
        BY <3>1 DEF Held
      <4> QED
        BY <3>1, <4>1
    <3> HIDE DEF n
    <3> DEFINE p == SubSeq(buf, 1, n)
               r == From(buf, n + 1)
    <3>4. p \in Text /\ r \in Text /\ buf = p \o r
      BY <3>1, <3>3, SubSeqIs, FromIs, SplitAt DEF Text
    <3> HIDE DEF p, r
    <3> DEFINE s == g.sent
    <3>5. Seen(holdBack(g)) = (s \o p) \o r /\ Seen(g) = s \o buf
      BY <3>2, SeenIs DEF p, r, buf
    <3>6. s \in Text
      BY <3>1
    <3> HIDE DEF s
    <3>7. (s \o p) \o r = s \o (p \o r)
      BY <3>4, <3>6, ConcatAssociative DEF Text
    <3> QED
      BY <3>4, <3>5, <3>7
  <2> QED
    BY <2>1, <2>2
<1>3. ASSUME NEW g \in Gate, Marks(g) # {} PROVE Thinner(w, Seen(passMark(g)), Seen(g))
  <2> DEFINE i == Least(Marks(g))
             buf == g.buf
             s == g.sent
  <2>1. buf \in Text /\ s \in Text /\ Len(buf) \in Nat
    BY LenProperties DEF Gate, Text
  <2>2. i \in 1..Len(buf) /\ (~g.inFence => i < Len(buf))
    BY <1>3, FirstMark
  <2>3. CASE g.inFence
    <3>1. passMark(g) = GateOf(From(buf, i + 1), s, FALSE)
      BY <1>3, <2>3, PassIs DEF GateOf
    <3>2. Seen(passMark(g)) = s \o From(buf, i + 1)
      BY <3>1, SeenIs
    <3>20. Seen(g) = s \o buf
      BY SeenIs
    <3> HIDE DEF i, buf, s
    <3>3. i + 1 \in 1..Len(buf)+1
      BY <2>1, <2>2
    <3>4. From(buf, i + 1) \in Text /\ Thinner(w, From(buf, i + 1), buf)
      BY <2>1, <3>3, FromIs, ThinnerFrom DEF Text
    <3>5. Thinner(w, s \o From(buf, i + 1), s \o buf)
      BY <2>1, <3>4, ThinnerConcat, ThinnerOrder
    <3> QED
      BY <3>2, <3>20, <3>5
  <2>4. CASE ~g.inFence
    <3>1. passMark(g) = GateOf(From(buf, i + 2), s \o SubSeq(buf, 1, i - 1), TRUE)
      BY <1>3, <2>4, PassIs DEF GateOf
    <3>2. Seen(passMark(g)) = (s \o SubSeq(buf, 1, i - 1)) \o From(buf, i + 2)
      BY <3>1, SeenIs
    <3>20. Seen(g) = s \o buf
      BY SeenIs
    <3> HIDE DEF i, buf, s
    <3> DEFINE p == SubSeq(buf, 1, i - 1)
               q == From(buf, i)
               r == From(buf, i + 2)
    <3>3. /\ i - 1 \in 0..Len(buf) /\ (i - 1) + 1 = i /\ i \in 1..Len(buf)+1
          /\ i + 2 \in 1..Len(buf)+1 /\ 1 \in 1..Len(buf)+1
      BY <2>1, <2>2, <2>4
    <3>4. p \in Text /\ q \in Text /\ r \in Text /\ Len(q) = Len(buf) - i + 1
      BY <2>1, <3>3, SubSeqIs, FromIs DEF Text
    <3>5. buf = p \o q
      <4>1. buf = SubSeq(buf, 1, i - 1) \o From(buf, (i - 1) + 1)
        BY <2>1, <3>3, SplitAt DEF Text
      <4> QED
        BY <3>3, <4>1
    <3>6. Thinner(w, r, q)
      <4>1. 3 \in 1..(Len(buf) - i + 2) /\ 3 \in 1..Len(q)+1 /\ i + 3 - 1 = i + 2
        BY <2>1, <2>2, <2>4, <3>4
      <4>2. From(From(buf, i), 3) = From(buf, i + 3 - 1)
        BY <2>1, <3>3, <4>1, FromFrom DEF Text
      <4>3. Thinner(w, From(q, 3), q)
        <5> HIDE DEF q
        <5> QED
          BY <3>4, <4>1, ThinnerFrom
      <4> QED
        BY <4>1, <4>2, <4>3
    <3> HIDE DEF p, q, r
    <3>7. (s \o p) \o r = s \o (p \o r) /\ p \o r \in Text /\ p \o q \in Text
      BY <2>1, <3>4, ConcatAssociative, ConcatProperties, SMTT(30) DEF Text
    <3>8. Thinner(w, p \o r, p \o q)
      BY <3>4, <3>6, ThinnerConcat, ThinnerOrder
    <3>9. Thinner(w, s \o (p \o r), s \o (p \o q))
      BY <2>1, <3>7, <3>8, ThinnerConcat, ThinnerOrder
    <3>10. Seen(passMark(g)) = (s \o p) \o r /\ Seen(g) = s \o buf
      BY <3>2, <3>20 DEF p, r
    <3> QED
      BY <3>5, <3>7, <3>9, <3>10
  <2> QED
    BY <2>3, <2>4
<1>4. ASSUME NEW g \in Gate, \A h \in Gate : len[h] < len[g] => h \in P
      PROVE  g \in P
  <2>1. CASE Marks(g) = {}
    BY <2>1, <1>2, PushLoopIs, ThinnerOrder
  <2>2. CASE Marks(g) # {}
    <3>1. passMark(g) \in Gate /\ len[passMark(g)] < len[g]
      BY <2>2, PassIs
    <3>2. Thinner(w, Seen(pushLoop[passMark(g)]), Seen(passMark(g)))
      BY <3>1, <1>4
    <3>3. Thinner(w, Seen(pushLoop[passMark(g)]), Seen(g))
      BY <2>2, <3>2, <1>3, ThinnerOrder
    <3> QED
      BY <2>2, <3>3, PushLoopIs
  <2> QED
    BY <2>1, <2>2
<1>5. Gate \subseteq P
  <2> HIDE DEF P, len
  <2> QED
    BY <1>1, <1>4, SizeInduction
<1> QED
  BY <1>5

-----------------------------------------------------------------------------
(* Where the parser and the gate agree *)

\* h ends the header of the call that opens at i, e is the line break it closes behind.
CallOf(t, i, h, e) ==
    /\ h \in CallsAt(t, i) /\ \A k \in CallsAt(t, i) : k <= h
    /\ e \in TailsAfter(t, h) /\ \A k \in TailsAfter(t, h) : e <= k

\* Every fence is a complete call, which ends at the first backticks behind it.
Fenced(t) ==
    \A i \in 1..Len(t) : OpensAt(t, i) =>
        \E h \in i+2..Len(t), e \in i+2..Len(t)-1 :
            CallOf(t, i, h, e) /\ t[e + 1] = "bt" /\ \A k \in i+1..e : t[k] # "bt"

\* Where the parser's call ends if it begins at i with header h and tail e.
LEMMA CallOfIs ==
    ASSUME NEW t \in Text, NEW i \in 1..Len(t), NEW h, NEW e, CallOf(t, i, h, e)
    PROVE  CallAt(t, i).tail = e
<1> DEFINE a == CallAt(t, i).header
           b == CallAt(t, i).tail
<1>1. CallsAt(t, i) # {} /\ Len(t) \in Nat
  BY LenProperties DEF CallOf, Text
<1>2. /\ a \in HeaderEnds(t, i) /\ a \in i+2..Len(t)
      /\ b \in TailsAfter(t, a) /\ b \in a+1..Len(t)-1
      /\ \A k \in TailsAfter(t, a) : b <= k
      /\ \A k \in CallsAt(t, i) : k <= a
  BY <1>1, CallIs
<1> HIDE DEF a, b
<1>3. a \in CallsAt(t, i)
  BY <1>2 DEF CallsAt
<1>4. h \in i+2..Len(t)
  BY DEF CallOf, CallsAt, HeaderEnds
<1>5. a <= h /\ h <= a
  BY <1>2, <1>3 DEF CallOf
<1>6. a = h
  BY <1>1, <1>2, <1>4, <1>5
<1>7. e \in a+1..Len(t)-1
  BY <1>6 DEF CallOf, TailsAfter
<1>8. e <= b /\ b <= e
  BY <1>2, <1>6 DEF CallOf
<1>9. b = e
  BY <1>1, <1>2, <1>7, <1>8
<1> QED
  BY <1>9 DEF b

\* On well-fenced texts every opening is a call that ends at the next backticks.
LEMMA WellFencedIs ==
    ASSUME NEW t \in Text, WellFenced(t)
    PROVE  Fenced(t)
<1> SUFFICES ASSUME NEW i \in 1..Len(t), OpensAt(t, i)
             PROVE  \E h \in i+2..Len(t), e \in i+2..Len(t)-1 :
                        CallOf(t, i, h, e) /\ t[e + 1] = "bt" /\ \A k \in i+1..e : t[k] # "bt"
  BY DEF Fenced
<1>1. Len(t) \in Nat
  BY LenProperties DEF Text
<1>2. i \in Occurrences(t, toolFenceOpen)
  BY OpeningsAre DEF OpensAt
<1> DEFINE h == CallAt(t, i).header
           e == CallAt(t, i).tail
           Ends == {k \in i+1..Len(t) : t[k] = "bt"}
<1>3. CallsAt(t, i) # {} /\ e + 1 = Least(Ends)
  BY <1>2 DEF WellFenced
<1>4. /\ h \in HeaderEnds(t, i) /\ h \in i+2..Len(t)
      /\ e \in TailsAfter(t, h) /\ e \in h+1..Len(t)-1
      /\ \A k \in TailsAfter(t, h) : e <= k
      /\ \A k \in CallsAt(t, i) : k <= h
  BY <1>3, CallIs
<1> HIDE DEF h, e
<1>5. h \in CallsAt(t, i)
  BY <1>4 DEF CallsAt
<1>6. CallOf(t, i, h, e)
  BY <1>4, <1>5 DEF CallOf
<1>7. t[e + 1] = "bt" /\ e \in i+2..Len(t)-1
  <2>1. t[e + 1] = "bt"
    BY <1>4 DEF TailsAfter
  <2> QED
    BY <2>1, <1>1, <1>4
<1>8. \A k \in Ends : e + 1 <= k
  <2>1. Ends \subseteq Nat /\ e + 1 \in Ends
    BY <1>1, <1>7
  <2> HIDE DEF Ends
  <2> QED
    BY <2>1, <1>3, LeastIs
<1>9. \A k \in i+1..e : t[k] # "bt"
  <2> SUFFICES ASSUME NEW k \in i+1..e, t[k] = "bt" PROVE FALSE
    OBVIOUS
  <2>1. k \in Ends /\ k \in Nat
    BY <1>1, <1>7
  <2> QED
    BY <2>1, <1>7, <1>8
<1> QED
  BY <1>4, <1>6, <1>7, <1>9

\* What the parser sees of a part of a text that runs to its end.
LEMMA CallOfPart ==
    ASSUME NEW t \in Text, NEW n \in 0..Len(t), NEW i \in 1..(Len(t) - n), NEW h, NEW e,
           CallOf(t, n + i, h, e)
    PROVE  CallOf(From(t, n + 1), i, h - n, e - n)
<1> DEFINE u == From(t, n + 1)
<1>1. Len(t) \in Nat /\ n + 1 \in 1..Len(t)+1
  BY LenProperties DEF Text
<1>2. /\ u \in Text /\ Len(u) = Len(t) - n
      /\ \A k \in 1..(Len(t) - n) : u[k] = t[n + k]
  <2>1. /\ u \in Text /\ Len(u) = Len(t) - (n + 1) + 1
        /\ \A k \in 1..(Len(t) - (n + 1) + 1) : u[k] = t[n + 1 + k - 1]
    BY <1>1, FromIs DEF Text
  <2>2. Len(t) - (n + 1) + 1 = Len(t) - n /\ \A k \in Int : n + 1 + k - 1 = n + k
    BY <1>1
  <2> QED
    BY <2>1, <2>2
<1> HIDE DEF u
<1>3. \A k \in Int : k \in HeaderEnds(u, i) <=> n + k \in HeaderEnds(t, n + i)
  <2> TAKE k \in Int
  <2>1. k \in i+2..Len(u) <=> n + k \in n+i+2..Len(t)
    BY <1>1, <1>2
  <2>2. CASE ~(k \in i+2..Len(u))
    BY <2>1, <2>2 DEF HeaderEnds
  <2>3. CASE k \in i+2..Len(u)
    <3>1. \A j \in i+2..k : u[j] = t[n + j] /\ n + j \in n+i+2..n+k
      BY <1>1, <1>2, <2>3
    <3>2. \A j \in n+i+2..n+k : j - n \in i+2..k /\ n + (j - n) = j
      BY <1>1, <1>2, <2>3
    <3>3. k \in i+2..k
      BY <2>3, <1>1
    <3> QED
      BY <2>1, <2>3, <3>1, <3>2, <3>3 DEF HeaderEnds
  <2> QED
    BY <2>2, <2>3
<1>4. \A k \in i+2..Len(u) : \A j \in Int :
          j \in TailsAfter(u, k) <=> n + j \in TailsAfter(t, n + k)
  <2> TAKE k \in i+2..Len(u)
  <2> TAKE j \in Int
  <2>1. j \in k+1..Len(u)-1 <=> n + j \in n+k+1..Len(t)-1
    BY <1>1, <1>2
  <2>2. CASE ~(j \in k+1..Len(u)-1)
    BY <2>1, <2>2 DEF TailsAfter
  <2>3. CASE j \in k+1..Len(u)-1
    <3>1. /\ j \in 1..(Len(t) - n) /\ j + 1 \in 1..(Len(t) - n)
          /\ n + j + 1 = n + (j + 1)
      BY <1>1, <1>2, <2>3
    <3>2. u[j] = t[n + j] /\ u[j + 1] = t[n + j + 1]
      BY <1>2, <3>1
    <3> QED
      BY <2>1, <2>3, <3>2 DEF TailsAfter
  <2> QED
    BY <2>2, <2>3
<1>5. \A k \in Int : k \in CallsAt(u, i) <=> n + k \in CallsAt(t, n + i)
  <2> TAKE k \in Int
  <2>1. CASE ~(k \in HeaderEnds(u, i))
    BY <2>1, <1>3 DEF CallsAt
  <2>2. CASE k \in HeaderEnds(u, i)
    <3>1. k \in i+2..Len(u) /\ n + k \in HeaderEnds(t, n + i)
      BY <2>2, <1>3 DEF HeaderEnds
    <3>2. \A j \in Int : j \in TailsAfter(u, k) <=> n + j \in TailsAfter(t, n + k)
      BY <3>1, <1>4
    <3>3. \A j \in TailsAfter(u, k) : j \in Int
      BY DEF TailsAfter
    <3>4. \A j \in TailsAfter(t, n + k) : j - n \in Int /\ n + (j - n) = j
      BY <1>1 DEF TailsAfter
    <3>5. TailsAfter(u, k) # {} <=> TailsAfter(t, n + k) # {}
      BY <3>2, <3>3, <3>4
    <3> QED
      BY <2>2, <3>1, <3>5 DEF CallsAt
  <2> QED
    BY <2>1, <2>2
<1>6. h \in n+i+2..Len(t) /\ e \in h+1..Len(t)-1
  BY DEF CallOf, CallsAt, HeaderEnds, TailsAfter
<1>7. /\ h - n \in Int /\ n + (h - n) = h /\ h - n \in i+2..Len(u)
      /\ e - n \in Int /\ n + (e - n) = e
  BY <1>1, <1>2, <1>6
<1>8. h - n \in CallsAt(u, i) /\ e - n \in TailsAfter(u, h - n)
  BY <1>4, <1>5, <1>7 DEF CallOf
<1>9. ASSUME NEW k \in CallsAt(u, i) PROVE k <= h - n
  <2>1. k \in Int
    BY <1>9 DEF CallsAt, HeaderEnds
  <2>2. n + k <= h
    BY <2>1, <1>5, <1>9 DEF CallOf
  <2> QED
    BY <2>1, <2>2, <1>1, <1>6
<1>10. ASSUME NEW k \in TailsAfter(u, h - n) PROVE e - n <= k
  <2>1. k \in Int
    BY <1>10 DEF TailsAfter
  <2>2. e <= n + k
    BY <2>1, <1>4, <1>7, <1>10 DEF CallOf
  <2> QED
    BY <2>1, <2>2, <1>1, <1>6
<1> QED
  BY <1>8, <1>9, <1>10 DEF CallOf, u

\* What is left of a well-fenced text is one.
LEMMA FencedPart ==
    ASSUME NEW t \in Text, Fenced(t), NEW n \in 0..Len(t)
    PROVE  Fenced(From(t, n + 1))
<1> DEFINE u == From(t, n + 1)
<1>1. Len(t) \in Nat /\ n + 1 \in 1..Len(t)+1
  BY LenProperties DEF Text
<1>2. /\ u \in Text /\ Len(u) = Len(t) - n
      /\ \A k \in 1..(Len(t) - n) : u[k] = t[n + k]
  <2>1. /\ u \in Text /\ Len(u) = Len(t) - (n + 1) + 1
        /\ \A k \in 1..(Len(t) - (n + 1) + 1) : u[k] = t[n + 1 + k - 1]
    BY <1>1, FromIs DEF Text
  <2>2. Len(t) - (n + 1) + 1 = Len(t) - n /\ \A k \in Int : n + 1 + k - 1 = n + k
    BY <1>1
  <2> QED
    BY <2>1, <2>2
<1>3. \A i \in 1..(Len(t) - n) : \A h, e :
          CallOf(t, n + i, h, e) => CallOf(u, i, h - n, e - n)
  BY CallOfPart
<1> HIDE DEF u
<1> SUFFICES ASSUME NEW i \in 1..Len(u), OpensAt(u, i)
             PROVE  \E h \in i+2..Len(u), e \in i+2..Len(u)-1 :
                        CallOf(u, i, h, e) /\ u[e + 1] = "bt" /\ \A k \in i+1..e : u[k] # "bt"
  BY DEF Fenced, u
<1>4. n + i \in 1..Len(t) /\ OpensAt(t, n + i)
  <2>1. /\ n + i \in 1..Len(t) /\ i \in 1..(Len(t) - n) /\ i + 1 \in 1..(Len(t) - n)
        /\ n + i < Len(t) /\ n + i + 1 = n + (i + 1)
    BY <1>1, <1>2 DEF OpensAt
  <2>2. u[i] = t[n + i] /\ u[i + 1] = t[n + i + 1]
    BY <2>1, <1>2
  <2> QED
    BY <2>1, <2>2 DEF OpensAt
<1>5. PICK h \in n+i+2..Len(t), e \in n+i+2..Len(t)-1 :
          CallOf(t, n + i, h, e) /\ t[e + 1] = "bt" /\ \A k \in n+i+1..e : t[k] # "bt"
  BY <1>4 DEF Fenced
<1>6. CallOf(u, i, h - n, e - n)
  BY <1>2, <1>3, <1>5
<1>7. /\ h - n \in i+2..Len(u) /\ e - n \in i+2..Len(u)-1
      /\ e - n + 1 \in 1..(Len(t) - n) /\ n + (e - n + 1) = e + 1
  BY <1>1, <1>2, <1>5
<1>8. u[e - n + 1] = "bt"
  BY <1>2, <1>5, <1>7
<1>9. ASSUME NEW k \in i+1..e-n PROVE u[k] # "bt"
  <2>1. k \in 1..(Len(t) - n) /\ n + k \in n+i+1..e
    BY <1>1, <1>2, <1>7, <1>5
  <2> QED
    BY <2>1, <1>2, <1>5
<1> QED
  BY <1>6, <1>7, <1>8, <1>9

\* The first call of such a text: from the first opening to the first backticks behind it.
LEMMA FirstCallIs ==
    ASSUME NEW t \in Text, Fenced(t)
    PROVE  \/ (\A i \in 1..Len(t) : ~OpensAt(t, i)) /\ ToolCall[t] = <<>>
           \/ \E i, j \in 1..Len(t) :
                  /\ OpensAt(t, i) /\ \A k \in 1..i-1 : ~OpensAt(t, k)
                  /\ i + 1 < j /\ t[j] = "bt" /\ \A k \in i+1..j-1 : t[k] # "bt"
                  /\ ToolCall[t] = <<i, j>>
<1> DEFINE Opens == {i \in 1..Len(t) : OpensAt(t, i)}
<1>1. Len(t) \in Nat /\ Occurrences(t, toolFenceOpen) = Opens
  BY LenProperties, OpeningsAre DEF OpensAt, Text
<1>2. ASSUME NEW i \in Opens PROVE CallsAt(t, i) # {}
  BY DEF Fenced, CallOf
<1>3. FirstCall(t) = Opens
  <2>1. FirstCall(t) = {i \in Opens : CallsAt(t, i) # {}}
    BY <1>1 DEF FirstCall
  <2> HIDE DEF Opens
  <2> QED
    BY <2>1, <1>2
<1>4. CASE Opens = {}
  BY <1>3, <1>4 DEF ToolCall
<1>5. CASE Opens # {}
  <2> DEFINE i == Least(Opens)
  <2>1. i \in Opens /\ \A k \in Opens : i <= k
    <3>1. Opens \subseteq Nat
      BY <1>1
    <3> HIDE DEF Opens
    <3> QED
      BY <3>1, <1>5, LeastIs
  <2>2. ToolCall[t] = <<i, CallAt(t, i).tail + 1>>
    BY <1>3, <1>5 DEF ToolCall
  <2> HIDE DEF i
  <2>3. i \in 1..Len(t) /\ OpensAt(t, i) /\ \A k \in 1..i-1 : ~OpensAt(t, k)
    <3>1. i \in 1..Len(t) /\ OpensAt(t, i)
      BY <2>1
    <3>2. ASSUME NEW k \in 1..i-1, OpensAt(t, k) PROVE FALSE
      <4>1. k \in 1..Len(t) /\ k < i
        BY <1>1, <3>1
      <4>2. k \in Opens
        BY <4>1, <3>2
      <4> QED
        BY <4>1, <4>2, <2>1, <3>1
    <3> QED
      BY <3>1, <3>2
  <2>4. PICK h \in i+2..Len(t), e \in i+2..Len(t)-1 :
            CallOf(t, i, h, e) /\ t[e + 1] = "bt" /\ \A k \in i+1..e : t[k] # "bt"
    BY <2>3 DEF Fenced
  <2>5. CallAt(t, i).tail = e
    BY <2>3, <2>4, CallOfIs
  <2>6. e + 1 \in 1..Len(t) /\ i + 1 < e + 1 /\ e + 1 - 1 = e
    BY <1>1, <2>3, <2>4
  <2> DEFINE j == e + 1
  <2>7. /\ j \in 1..Len(t) /\ i + 1 < j /\ t[j] = "bt" /\ \A k \in i+1..j-1 : t[k] # "bt"
        /\ ToolCall[t] = <<i, j>>
    BY <2>2, <2>4, <2>5, <2>6
  <2> HIDE DEF j
  <2> QED
    BY <2>3, <2>7
<1> QED
  BY <1>4, <1>5

\* The gate takes such a fence out in two turns.
LEMMA GateSkips ==
    ASSUME NEW t \in Text, NEW s \in Text, NEW i \in 1..Len(t), NEW j \in 1..Len(t),
           OpensAt(t, i), \A k \in 1..i-1 : ~OpensAt(t, k),
           i + 1 < j, t[j] = "bt", \A k \in i+1..j-1 : t[k] # "bt"
    PROVE  pushLoop[GateOf(t, s, FALSE)]
             = pushLoop[GateOf(From(t, j + 1), s \o SubSeq(t, 1, i - 1), FALSE)]
<1> DEFINE g == GateOf(t, s, FALSE)
           u == From(t, i + 2)
           x == s \o SubSeq(t, 1, i - 1)
           h == GateOf(u, x, TRUE)
           n == j - i - 1
<1>1. Len(t) \in Nat /\ i < Len(t)
  BY LenProperties DEF Text, OpensAt
<1>2. g \in Gate /\ g.buf = t /\ g.sent = s /\ ~g.inFence
  BY DEF Gate, GateOf
<1>3. Least(Marks(g)) = i /\ Marks(g) # {}
  <2> HIDE DEF g
  <2>1. Marks(g) = {k \in 1..Len(t) : OpensAt(t, k)}
    BY <1>2, MarksAre
  <2>2. i \in Marks(g) /\ Marks(g) \subseteq Nat /\ \A k \in Marks(g) : ~(k < i)
    BY <2>1
  <2> QED
    BY <2>2, LeastOf
<1>4. passMark(g) = h /\ h \in Gate
  <2> HIDE DEF g
  <2> QED
    BY <1>2, <1>3, PassIs DEF GateOf
<1>5. pushLoop[g] = pushLoop[h]
  <2> HIDE DEF g, h
  <2> QED
    BY <1>2, <1>3, <1>4, PushLoopIs
<1>6. h.buf = u /\ h.sent = x /\ h.inFence
  BY DEF GateOf
<1>7. /\ u \in Text /\ Len(u) = Len(t) - i - 1
      /\ \A k \in 1..(Len(t) - i - 1) : u[k] = t[i + 1 + k]
  <2>1. i + 2 \in 1..Len(t)+1
    BY <1>1
  <2>2. /\ u \in Text /\ Len(u) = Len(t) - (i + 2) + 1
        /\ \A k \in 1..(Len(t) - (i + 2) + 1) : u[k] = t[i + 2 + k - 1]
    BY <2>1, FromIs DEF Text
  <2>3. Len(t) - (i + 2) + 1 = Len(t) - i - 1 /\ \A k \in Int : i + 2 + k - 1 = i + 1 + k
    BY <1>1
  <2> QED
    BY <2>2, <2>3
<1>8. n \in 1..Len(u) /\ i + 1 + n = j /\ u[n] = "bt"
  BY <1>1, <1>7
<1>9. \A k \in 1..n-1 : u[k] # "bt"
  <2> TAKE k \in 1..n-1
  <2>1. k \in 1..(Len(t) - i - 1) /\ i + 1 + k \in i+1..j-1
    BY <1>1
  <2> QED
    BY <2>1, <1>7
<1>10. Least(Marks(h)) = n /\ Marks(h) # {}
  <2> HIDE DEF h, u, n
  <2>1. Marks(h) = {k \in 1..Len(u) : u[k] = "bt"}
    BY <1>4, <1>6, MarksAre
  <2>2. n \in Marks(h) /\ Marks(h) \subseteq Nat /\ \A k \in Marks(h) : ~(k < n)
    BY <2>1, <1>8, <1>9
  <2> QED
    BY <2>2, LeastOf
<1>11. passMark(h) = GateOf(From(u, n + 1), x, FALSE)
  <2> HIDE DEF h, u, n, x
  <2> QED
    BY <1>4, <1>6, <1>10, PassIs DEF GateOf
<1>12. From(u, n + 1) = From(t, j + 1)
  <2>1. i + 2 \in 1..Len(t)+1 /\ n + 1 \in 1..(Len(t) - (i + 2) + 2)
        /\ (i + 2) + (n + 1) - 1 = j + 1
    BY <1>1, <1>7, <1>8
  <2> HIDE DEF n
  <2>2. From(From(t, i + 2), n + 1) = From(t, (i + 2) + (n + 1) - 1)
    BY <2>1, FromFrom DEF Text
  <2> QED
    BY <2>1, <2>2
<1>13. pushLoop[h] = pushLoop[passMark(h)]
  <2> HIDE DEF h
  <2> QED
    BY <1>4, <1>10, PushLoopIs
<1> HIDE DEF g, h, u, n, x
<1> QED
  BY <1>5, <1>11, <1>12, <1>13 DEF g, x

\* What the gate lets through is the text without the calls, but for backticks at the
\* end, which could begin a fence.
LEMMA GateParses ==
    ASSUME NEW t0 \in Text, Fenced(t0)
    PROVE  \A s \in Text : \E x, r \in Text :
               /\ Without(t0, ToolCall) = x \o r /\ (r = <<>> \/ r = <<"bt">>)
               /\ pushLoop[GateOf(t0, s, FALSE)] = GateOf(r, s \o x, FALSE)
<1> DEFINE Agree(t, s, x, r) ==
               /\ Without(t, ToolCall) = x \o r /\ (r = <<>> \/ r = <<"bt">>)
               /\ pushLoop[GateOf(t, s, FALSE)] = GateOf(r, s \o x, FALSE)
           len == [t \in Text |-> Len(t)]
           P == {t \in Text : Fenced(t) => \A s \in Text : \E x, r \in Text : Agree(t, s, x, r)}
<1>1. len \in [Text -> Nat]
  <2>1. \A t \in Text : Len(t) \in Nat
    BY LenProperties DEF Text
  <2> QED
    BY <2>1
<1>2. ASSUME NEW t \in Text, \A u \in Text : len[u] < len[t] => u \in P
      PROVE  t \in P
  <2> SUFFICES ASSUME Fenced(t), NEW s \in Text PROVE \E x, r \in Text : Agree(t, s, x, r)
    OBVIOUS
  <2>1. Len(t) \in Nat /\ (t = <<>> <=> Len(t) = 0)
    BY LenProperties, EmptySeq DEF Text
  <2>2. CASE (\A i \in 1..Len(t) : ~OpensAt(t, i)) /\ ToolCall[t] = <<>>
    <3> DEFINE g == GateOf(t, s, FALSE)
               n == Len(t) - Held(t)
               x == SubSeq(t, 1, n)
               r == From(t, n + 1)
    <3>1. g \in Gate /\ g.buf = t /\ g.sent = s /\ ~g.inFence
      BY DEF Gate, GateOf
    <3>2. n \in 0..Len(t) /\ n + 1 \in 1..Len(t)+1 /\ 1 \in 1..Len(t)+1
      <4>1. Held(t) = 0 \/ (Held(t) = 1 /\ Len(t) # 0)
        BY <2>1 DEF Held
      <4> QED
        BY <2>1, <4>1
    <3>3. pushLoop[g] = GateOf(r, s \o x, FALSE)
      <4> HIDE DEF g
      <4>1. Marks(g) = {}
        BY <2>2, <3>1, MarksAre
      <4> QED
        BY <3>1, <4>1, HoldIs, PushLoopIs DEF GateOf
    <3>4. x \in Text /\ r \in Text /\ t = x \o r
      <4> HIDE DEF n
      <4> QED
        BY <3>2, SubSeqIs, FromIs, SplitAt DEF Text
    <3>5. r = <<>> \/ r = <<"bt">>
      <4>1. Len(r) = Len(t) - (n + 1) + 1 /\ \A k \in 1..(Len(t) - (n + 1) + 1) : r[k] = t[n + 1 + k - 1]
        <5> HIDE DEF n
        <5> QED
          BY <3>2, FromIs DEF Text
      <4>2. CASE Held(t) = 0
        <5>1. Len(r) = 0
          BY <2>1, <4>1, <4>2
        <5> HIDE DEF r
        <5> QED
          BY <3>4, <5>1, EmptySeq DEF Text
      <4>3. CASE Held(t) # 0
        <5>1. Held(t) = 1 /\ t[Len(t)] = "bt"
          BY <4>3 DEF Held
        <5>2. Len(r) = 1 /\ 1 \in 1..(Len(t) - (n + 1) + 1) /\ n + 1 + 1 - 1 = Len(t)
          BY <2>1, <4>1, <5>1
        <5>3. r[1] = "bt"
          BY <4>1, <5>1, <5>2
        <5> HIDE DEF r
        <5> QED
          BY <3>4, <5>2, <5>3, LenProperties DEF Text
      <4> QED
        BY <4>2, <4>3
    <3>6. Without(t, ToolCall) = t
      BY <2>2, ToolCallMatches, WithoutIs
    <3> HIDE DEF x, r
    <3> QED
      BY <3>3, <3>4, <3>5, <3>6 DEF g
  <2>3. CASE \E i, j \in 1..Len(t) :
                  /\ OpensAt(t, i) /\ \A k \in 1..i-1 : ~OpensAt(t, k)
                  /\ i + 1 < j /\ t[j] = "bt" /\ \A k \in i+1..j-1 : t[k] # "bt"
                  /\ ToolCall[t] = <<i, j>>
    <3>1. PICK i \in 1..Len(t), j \in 1..Len(t) :
                  /\ OpensAt(t, i) /\ \A k \in 1..i-1 : ~OpensAt(t, k)
                  /\ i + 1 < j /\ t[j] = "bt" /\ \A k \in i+1..j-1 : t[k] # "bt"
                  /\ ToolCall[t] = <<i, j>>
      BY <2>3
    <3> DEFINE before == SubSeq(t, 1, i - 1)
               rest == From(t, j + 1)
    <3>2. /\ before \in Text /\ rest \in Text /\ Len(rest) < Len(t) /\ Fenced(rest)
          /\ s \o before \in Text
      <4>1. j \in 0..Len(t) /\ j + 1 \in 1..Len(t)+1 /\ i - 1 \in 0..Len(t) /\ 1 \in 1..Len(t)+1
        BY <2>1
      <4>2. before \in Text /\ rest \in Text /\ Len(rest) = Len(t) - (j + 1) + 1
        BY <4>1, SubSeqIs, FromIs DEF Text
      <4>3. Fenced(rest)
        BY <4>1, FencedPart
      <4> HIDE DEF before, rest
      <4> QED
        BY <2>1, <4>2, <4>3, ConcatIs DEF Text
    <3>3. ToolCall[t] # <<>> /\ ToolCall[t][1] = i /\ ToolCall[t][2] = j
      BY <3>1
    <3>4. Without(t, ToolCall) = before \o Without(rest, ToolCall)
      BY <3>3, ToolCallMatches, WithoutIs
    <3>5. pushLoop[GateOf(t, s, FALSE)] = pushLoop[GateOf(rest, s \o before, FALSE)]
      BY <3>1, GateSkips
    <3> HIDE DEF before, rest
    <3>6. PICK x \in Text, r \in Text : Agree(rest, s \o before, x, r)
      <4>1. rest \in P
        BY <3>2, <1>2
      <4> HIDE DEF Agree
      <4> QED
        BY <3>2, <4>1
    <3>7. before \o x \in Text
      BY <3>2, ConcatIs DEF Text
    <3>11. before \in Text /\ s \in Text /\ x \in Text /\ r \in Text
      BY <3>2
    <3>12. \A c \in Text : (before \o x) \o c = before \o (x \o c)
      BY <3>11, TextConcat, Zenon
    <3>9. (before \o x) \o r = before \o (x \o r)
      BY <3>11, <3>12, Zenon
    <3>10. (s \o before) \o x = s \o (before \o x)
      BY <3>11, TextConcat, ZenonT(40)
    <3> DEFINE y == before \o x
    <3>8. y \in Text /\ Agree(t, s, y, r)
      BY <3>4, <3>5, <3>6, <3>7, <3>9, <3>10
    <3> HIDE DEF y, Agree
    <3> QED
      BY <3>8
  <2> HIDE DEF P, Agree
  <2> QED
    BY <2>2, <2>3, FirstCallIs
<1>3. Text \subseteq P
  <2> HIDE DEF P, len
  <2> QED
    BY <1>1, <1>2, SizeInduction
<1> QED
  BY <1>3

\* What the gate has sent of such a text, and what then remains of the text without the
\* calls, are that text, up to white space at the ends.
LEMMA RestOfGate ==
    ASSUME NEW t \in Text, Trimmed(t), WellFenced(t), NEW sent,
           sent = gatePush(newToolFenceGate, t).sent
    PROVE  TrimSpace(sent \o remainingOf(textOf(t), sent)) = textOf(t)
<1> DEFINE X == Without(t, ToolCall)
           c == textOf(t)
<1>1. X \in Text /\ c = TrimSpace(X)
  BY ToolCallMatches, WithoutIs DEF textOf
<1>2. c \in Text /\ TrimSpace(c) = c
  <2>1. c \in Text /\ Trimmed(c)
    BY TextOfType
  <2> HIDE DEF c
  <2> QED
    BY <2>1, TrimOfTrimmed
<1>3. Fenced(t)
  BY WellFencedIs
<1>4. PICK x \in Text, r \in Text :
          /\ X = x \o r /\ (r = <<>> \/ r = <<"bt">>)
          /\ pushLoop[GateOf(t, <<>>, FALSE)] = GateOf(r, <<>> \o x, FALSE)
  <2>1. <<>> \in Text
    BY EmptySeq DEF Text
  <2> QED
    BY <1>3, <2>1, GateParses
<1>5. sent = x
  <2>1. \A a, b, f : GateOf(b, a, f).sent = a
    BY DEF GateOf
  <2>2. sent = <<>> \o x
    <3> DEFINE y == <<>> \o x
    <3>1. pushLoop[GateOf(t, <<>>, FALSE)] = GateOf(r, y, FALSE)
      BY <1>4
    <3>2. sent = pushLoop[GateOf(t, <<>>, FALSE)].sent
      BY FreshPush
    <3> HIDE DEF y
    <3>3. GateOf(r, y, FALSE).sent = y
      BY <2>1, Zenon
    <3>4. sent = y
      BY <3>1, <3>2, <3>3, Zenon
    <3> QED
      BY <3>4 DEF y
  <2> QED
    BY <2>2, ConcatEmptySeq DEF Text
<1>6. x \o remainingOf(c, x) = IF IsPrefix(x, c) THEN c ELSE x
  <2> HIDE DEF c
  <2> QED
    BY <1>2, RemainingIs
<1>7. CASE r = <<>>
  <2>1. X = x
    BY <1>4, <1>7, ConcatEmptySeq DEF Text
  <2> HIDE DEF X, c
  <2>2. TrimSpace(x) = c
    BY <1>1, <2>1
  <2> QED
    BY <1>2, <1>5, <1>6, <2>2 DEF c
<1>8. CASE r = <<"bt">>
  <2>1. /\ Len(X) \in Nat /\ Len(X) # 0 /\ X[Len(X)] = "bt"
    <3>1. Len(r) = 1 /\ r[1] = "bt" /\ 1 \in 1..Len(r)
      BY <1>8
    <3>2. /\ Len(x) \in Nat /\ Len(x \o r) = Len(x) + Len(r)
          /\ (x \o r)[Len(x) + 1] = r[1]
      <4>1. ASSUME NEW q \in Text, 1 \in 1..Len(q)
            PROVE  /\ Len(x) \in Nat /\ Len(x \o q) = Len(x) + Len(q)
                   /\ (x \o q)[Len(x) + 1] = q[1]
        BY <4>1, ConcatIs DEF Text
      <4> QED
        BY <3>1, <4>1, Zenon
    <3> HIDE DEF X
    <3> QED
      BY <1>4, <3>1, <3>2
  <2>2. X[1] \notin Space
    <3>1. Len(t) \in Nat /\ (t = <<>> <=> Len(t) = 0)
      BY LenProperties, EmptySeq DEF Text
    <3>2. CASE ToolCall[t] = <<>>
      <4>1. X = t
        BY <3>2, ToolCallMatches, WithoutIs
      <4> HIDE DEF X
      <4> QED
        BY <2>1, <3>1, <4>1 DEF Trimmed
    <3>3. CASE \E i, j \in 1..Len(t) : OpensAt(t, i) /\ ToolCall[t] = <<i, j>>
      <4>1. PICK i \in 1..Len(t), j \in 1..Len(t) : OpensAt(t, i) /\ ToolCall[t] = <<i, j>>
        BY <3>3
      <4>2. i # 1
        <5> SUFFICES ASSUME i = 1 PROVE IsPrefix(toolFenceOpen, t)
          BY TrimOfTrimmed DEF WellFenced
        <5>1. Len(t) >= 2 /\ t[1] = "bt" /\ t[2] = "call"
          BY <3>1, <4>1 DEF OpensAt
        <5>2. /\ toolFenceOpen \in Text /\ Len(toolFenceOpen) = 2
              /\ toolFenceOpen[1] = "bt" /\ toolFenceOpen[2] = "call"
          <6>1. "bt" \in Tokens /\ "call" \in Tokens
            BY DEF Tokens
          <6>2. <<"bt", "call">> \in Seq(Tokens)
            BY <6>1
          <6> QED
            BY <6>2 DEF toolFenceOpen, Text
        <5>3. \A k \in 1..2 : toolFenceOpen[k] = t[k]
          <6>1. \A k \in 1..2 : k = 1 \/ k = 2
            OBVIOUS
          <6> QED
            BY <5>1, <5>2, <6>1
        <5> QED
          BY <5>1, <5>2, <5>3, PrefixIs DEF Text
      <4> DEFINE before == SubSeq(t, 1, i - 1)
                 rest == From(t, j + 1)
      <4>3. /\ before \in Text /\ Len(before) = i - 1 /\ before[1] = t[1]
            /\ rest \in Text
        <5>1. /\ 1 \in 1..Len(t)+1 /\ i - 1 \in 0..Len(t) /\ 1 <= i - 1
              /\ (i - 1) - 1 + 1 = i - 1 /\ 1 \in 1..((i - 1) - 1 + 1) /\ 1 + 1 - 1 = 1
              /\ j + 1 \in 1..Len(t)+1
          BY <3>1, <4>2
        <5>2. /\ before \in Text /\ Len(before) = (i - 1) - 1 + 1
              /\ \A k \in 1..((i - 1) - 1 + 1) : before[k] = t[1 + k - 1]
          BY <5>1, SubSeqIs DEF Text
        <5>3. rest \in Text
          BY <5>1, FromIs DEF Text
        <5> HIDE DEF before, rest
        <5> QED
          BY <5>1, <5>2, <5>3
      <4>4. X = before \o Without(rest, ToolCall)
        <5>1. ToolCall[t] # <<>> /\ ToolCall[t][1] = i /\ ToolCall[t][2] = j
          BY <4>1
        <5> QED
          BY <5>1, ToolCallMatches, WithoutIs
      <4> DEFINE y == Without(rest, ToolCall)
      <4>5. y \in Text
        BY <4>3, ToolCallMatches, WithoutIs
      <4> HIDE DEF before, rest, y, X
      <4>6. (before \o y)[1] = before[1]
        <5>1. 1 \in 1..Len(before)
          BY <3>1, <4>2, <4>3
        <5> QED
          BY <4>3, <4>5, <5>1, ConcatIs DEF Text
      <4>7. t[1] \notin Space
        BY <3>1, <4>1 DEF Trimmed
      <4> QED
        BY <4>3, <4>4, <4>6, <4>7 DEF y
    <3> QED
      BY <1>3, <3>2, <3>3, FirstCallIs
  <2>3. "bt" \notin Space
    BY DEF Space
  <2>4. Trimmed(X)
    <3> HIDE DEF X
    <3> QED
      BY <2>1, <2>2, <2>3 DEF Trimmed
  <2>5. c = X
    <3> HIDE DEF X, c
    <3> QED
      BY <1>1, <2>4, TrimOfTrimmed
  <2>6. IsPrefix(x, c)
    <3>1. IsPrefix(x, x \o r)
      BY PrefixOfConcat DEF Text
    <3> HIDE DEF X, c
    <3> QED
      BY <1>4, <2>5, <3>1
  <2> HIDE DEF c, X
  <2> QED
    BY <1>2, <1>5, <1>6, <2>6 DEF c
<1> QED
  BY <1>4, <1>7, <1>8

\* What was sent stays sent.
LEMMA GateGrows ==
    ASSUME NEW g0 \in Gate
    PROVE  IsPrefix(g0.sent, pushLoop[g0].sent)
<1> DEFINE len == [g \in Gate |-> Len(g.buf)]
           P == {g \in Gate : IsPrefix(g.sent, pushLoop[g].sent)}
<1>1. len \in [Gate -> Nat]
  <2>1. \A h \in Gate : Len(h.buf) \in Nat
    BY LenProperties DEF Gate, Text
  <2> QED
    BY <2>1
<1>2. ASSUME NEW g \in Gate, NEW n \in 0..Len(g.buf)
      PROVE  IsPrefix(g.sent, g.sent \o SubSeq(g.buf, 1, n))
  <2>1. g.buf \in Text /\ g.sent \in Text /\ 1 \in 1..Len(g.buf)+1
    BY LenProperties DEF Gate, Text
  <2>2. SubSeq(g.buf, 1, n) \in Text
    BY <2>1, SubSeqIs DEF Text
  <2> DEFINE s == g.sent
             x == SubSeq(g.buf, 1, n)
  <2>3. s \in Text /\ x \in Text
    BY <2>1, <2>2
  <2> HIDE DEF s, x
  <2>4. IsPrefix(s, s \o x)
    BY <2>3, PrefixOfConcat DEF Text
  <2> QED
    BY <2>4 DEF s, x
<1>3. \A g \in Gate : IsPrefix(g.sent, g.sent) /\ g.sent \in Text
  <2>1. \A g \in Gate : g.sent \in Text
    BY DEF Gate
  <2>2. \A s \in Text : IsPrefix(s, s)
    BY PrefixOrder DEF Text
  <2> QED
    BY <2>1, <2>2
<1>4. ASSUME NEW g \in Gate PROVE IsPrefix(g.sent, holdBack(g).sent)
  <2>1. CASE g.inFence
    BY <2>1, <1>3, HoldIs
  <2>2. CASE ~g.inFence
    <3> DEFINE n == Len(g.buf) - Held(g.buf)
    <3>1. n \in 0..Len(g.buf)
      <4>1. Len(g.buf) \in Nat /\ (g.buf = <<>> <=> Len(g.buf) = 0)
        BY LenProperties, EmptySeq DEF Gate, Text
      <4>2. Held(g.buf) = 0 \/ (Held(g.buf) = 1 /\ Len(g.buf) # 0)
        BY <4>1 DEF Held
      <4> QED
        BY <4>1, <4>2
    <3> DEFINE x == From(g.buf, n + 1)
               y == g.sent \o SubSeq(g.buf, 1, n)
    <3>2. holdBack(g) = GateOf(x, y, FALSE)
      BY <2>2, HoldIs DEF GateOf
    <3>3. IsPrefix(g.sent, y)
      <4> HIDE DEF n
      <4> QED
        BY <1>2, <3>1
    <3> HIDE DEF x, y
    <3>4. GateOf(x, y, FALSE).sent = y
      BY DEF GateOf
    <3> QED
      BY <3>2, <3>3, <3>4
  <2> QED
    BY <2>1, <2>2
<1>5. ASSUME NEW g \in Gate, Marks(g) # {} PROVE IsPrefix(g.sent, passMark(g).sent)
  <2> DEFINE i == Least(Marks(g))
  <2>1. i - 1 \in 0..Len(g.buf)
    <3>1. i \in 1..Len(g.buf) /\ Len(g.buf) \in Nat
      BY <1>5, FirstMark, LenProperties DEF Gate, Text
    <3> HIDE DEF i
    <3> QED
      BY <3>1
  <2>2. CASE g.inFence
    <3>1. passMark(g).sent = g.sent
      BY <1>5, <2>2, PassIs
    <3> QED
      BY <1>3, <3>1
  <2>3. CASE ~g.inFence
    <3> DEFINE x == From(g.buf, i + 2)
               y == g.sent \o SubSeq(g.buf, 1, i - 1)
    <3>1. passMark(g) = GateOf(x, y, TRUE)
      BY <1>5, <2>3, PassIs DEF GateOf
    <3>2. IsPrefix(g.sent, y)
      <4> HIDE DEF i
      <4> QED
        BY <1>2, <2>1
    <3> HIDE DEF x, y
    <3>3. GateOf(x, y, TRUE).sent = y
      BY DEF GateOf
    <3> QED
      BY <3>1, <3>2, <3>3
  <2> QED
    BY <2>2, <2>3
<1>6. ASSUME NEW g \in Gate, \A h \in Gate : len[h] < len[g] => h \in P
      PROVE  g \in P
  <2>1. CASE Marks(g) = {}
    BY <2>1, <1>4, PushLoopIs
  <2>2. CASE Marks(g) # {}
    <3>1. passMark(g) \in Gate /\ len[passMark(g)] < len[g]
      BY <2>2, PassIs
    <3>2. /\ IsPrefix(g.sent, passMark(g).sent)
          /\ IsPrefix(passMark(g).sent, pushLoop[passMark(g)].sent)
      BY <2>2, <3>1, <1>5, <1>6
    <3>3. pushLoop[g] = pushLoop[passMark(g)] /\ pushLoop[g] \in Gate
      BY <2>2, PushLoopIs
    <3>4. g.sent \in Text /\ passMark(g).sent \in Text /\ pushLoop[g].sent \in Text
      BY <1>3, <3>1, <3>3
    <3>5. IsPrefix(g.sent, pushLoop[g].sent)
      <4> DEFINE s == g.sent
                 t == passMark(g).sent
                 u == pushLoop[g].sent
      <4>1. s \in Text /\ t \in Text /\ u \in Text /\ IsPrefix(s, t) /\ IsPrefix(t, u)
        BY <3>2, <3>3, <3>4
      <4> HIDE DEF s, t, u
      <4>2. IsPrefix(s, u)
        BY <4>1, PrefixOrder DEF Text
      <4> QED
        BY <4>2 DEF s, u
    <3> QED
      BY <3>5
  <2> QED
    BY <2>1, <2>2
<1>7. Gate \subseteq P
  <2> HIDE DEF P, len
  <2> QED
    BY <1>1, <1>6, SizeInduction
<1> QED
  BY <1>7

\* What a push lets through is behind what was let through before.
LEMMA PassedIs ==
    ASSUME NEW g \in Gate, NEW b \in Text
    PROVE  LET passed == gatePush(g, b) IN
           /\ From(passed.sent, Len(g.sent) + 1) \in Text
           /\ g.sent \o From(passed.sent, Len(g.sent) + 1) = passed.sent
<1> DEFINE h == [g EXCEPT !.buf = g.buf \o b]
           p == gatePush(g, b)
<1>1. g.buf \o b \in Text /\ g.sent \in Text
  BY ConcatProperties DEF Gate, Text
<1>2. h \in Gate /\ h.sent = g.sent
  BY <1>1 DEF Gate
<1>3. p = pushLoop[h] /\ p \in Gate
  BY <1>2, PushLoopIs DEF gatePush
<1> HIDE DEF h, p
<1>4. IsPrefix(h.sent, pushLoop[h].sent)
  BY <1>2, GateGrows
<1> DEFINE s == g.sent
           t == p.sent
<1>5. s \in Text /\ t \in Text /\ IsPrefix(s, t)
  BY <1>1, <1>2, <1>3, <1>4 DEF Gate
<1> HIDE DEF s, t
<1>6. t = s \o From(t, Len(s) + 1) /\ From(t, Len(s) + 1) \in Text
  BY <1>5, PrefixSplit DEF Text
<1> QED
  BY <1>6 DEF s, t, p

-----------------------------------------------------------------------------
(* Frames *)

\* A frame shows parts of an answer.
LEMMA FrameIs ==
    ASSUME NEW a \in Answers, NEW p \in 1..size(a)
    PROVE  /\ frameOf(a, p) \in Frame /\ p \in Nat
           /\ \A w : Thinner(w, frameOf(a, p).think, a.think)
           /\ \A w : Thinner(w, frameOf(a, p).text, a.text)
<1> DEFINE think == a.think
           text == a.text
           t == Len(think)
           m == IF p < t THEN p ELSE t
           n == p - t
           y == IF p < t THEN <<>> ELSE SubSeq(text, 1, n)
<1>1. think \in Text /\ text \in Text
  BY AnswersAreTexts
<1>2. t \in Nat /\ Len(text) \in Nat
  BY <1>1, LenProperties DEF Text
<1>3. frameOf(a, p) = [think |-> SubSeq(think, 1, m), text |-> y]
  BY DEF frameOf
<1>4. p \in 1..t + Len(text)
  BY DEF size
<1> HIDE DEF think, text, t
<1>5. p \in Nat /\ m \in 0..t /\ (~(p < t) => n \in 0..Len(text))
  BY <1>2, <1>4
<1>6. 1 \in 1..t+1 /\ 1 \in 1..Len(text)+1
  BY <1>2
<1> HIDE DEF m, n
<1>7. SubSeq(think, 1, m) \in Text /\ \A w : Thinner(w, SubSeq(think, 1, m), think)
  BY <1>1, <1>5, <1>6, SubSeqIs, ThinnerUpTo DEF Text, t
<1>8. y \in Text /\ \A w : Thinner(w, y, text)
  <2>1. CASE p < t
    <3>1. <<>> \in Text /\ \A w : Thinner(w, <<>>, text)
      BY EmptySeq DEF Text, Thinner, Has, Once
    <3> QED
      BY <2>1, <3>1
  <2>2. CASE ~(p < t)
    BY <2>2, <1>1, <1>5, <1>6, SubSeqIs, ThinnerUpTo DEF Text
  <2> QED
    BY <2>1, <2>2
<1> DEFINE x == SubSeq(think, 1, m)
<1> HIDE DEF y, x
<1>9. frameOf(a, p) = [think |-> x, text |-> y] /\ x \in Text /\ y \in Text
  BY <1>3, <1>7, <1>8 DEF x
<1>10. frameOf(a, p) \in Frame /\ frameOf(a, p).think = x /\ frameOf(a, p).text = y
  BY <1>9 DEF Frame
<1> QED
  BY <1>5, <1>7, <1>8, <1>10 DEF x, think, text

\* A frame of an answer holds each word once.
LEMMA FrameOnce ==
    ASSUME NEW a \in Answers, NEW p \in 1..size(a), NEW w \in Words
    PROVE  Once(w, frameOf(a, p).think) /\ Once(w, frameOf(a, p).text)
<1>1. \A s \in {a.think, a.text} : s \in Text
  BY AnswersAreTexts
<1>2. \A s \in Text : DOMAIN s = 1..Len(s)
  BY LenProperties DEF Text
<1>3. \A s \in {a.think, a.text} : \A i, j \in DOMAIN s : s[i] = w /\ s[j] = w => i = j
  BY EachWordOnce
<1>4. ASSUME NEW s \in {a.think, a.text} PROVE Once(w, s)
  <2>1. DOMAIN s = 1..Len(s)
    BY <1>1, <1>2
  <2> QED
    BY <2>1, <1>3 DEF Once
<1>5. Once(w, a.think) /\ Once(w, a.text)
  BY <1>4
<1> QED
  BY <1>5, FrameIs DEF Thinner

\* What occurs once is counted once.
LEMMA OnceCounts ==
    ASSUME NEW s \in Text, NEW w, Once(w, s)
    PROVE  Cardinality({i \in DOMAIN s : s[i] = w}) <= 1
<1> DEFINE S == {i \in DOMAIN s : s[i] = w}
<1>1. DOMAIN s = 1..Len(s)
  BY LenProperties DEF Text
<1>2. \A i, j \in S : i = j
  BY <1>1 DEF Once
<1> HIDE DEF S
<1>3. CASE S = {}
  BY <1>3, FS_EmptySet DEF S
<1>4. CASE S # {}
  <2>1. PICK i \in S : TRUE
    BY <1>4
  <2>2. S = {i}
    BY <1>2, <2>1
  <2>3. Cardinality(S) = 1
    BY <2>2, FS_Singleton
  <2> QED
    BY <2>3 DEF S
<1> QED
  BY <1>3, <1>4

\* One of several texts is the longest.
LEMMA LongestExists ==
    ASSUME NEW n0 \in Nat, NEW f \in [1..n0 -> Nat], n0 # 0
    PROVE  \E i \in 1..n0 : \A j \in 1..n0 : f[j] <= f[i]
<1> DEFINE Longest(n) == \E i \in 1..n : \A j \in 1..n : f[j] <= f[i]
           Bad == {n \in 1..n0 : ~Longest(n)}
<1> SUFFICES ASSUME Bad # {} PROVE FALSE
  <2>1. n0 \in 1..n0
    OBVIOUS
  <2> QED
    BY <2>1
<1>1. PICK n \in Bad : \A m \in Bad : n <= m
  <2>1. Bad \subseteq Nat
    OBVIOUS
  <2> HIDE DEF Bad
  <2> QED
    BY <2>1, LeastExists
<1>2. Longest(n)
  <2>9. n \in 1..n0
    BY <1>1
  <2>1. CASE n = 1
    <3>1. 1 \in 1..n0 /\ \A j \in 1..n : j = 1
      BY <2>1
    <3>2. f[1] \in Nat
      BY <3>1
    <3>3. 1 \in 1..n /\ \A j \in 1..n : f[j] <= f[1]
      BY <2>1, <3>1, <3>2
    <3> QED
      BY <3>3
  <2>2. CASE n # 1
    <3>1. n - 1 \in 1..n0 /\ n - 1 # 0 /\ ~(n <= n - 1)
      BY <2>2, <2>9
    <3>2. Longest(n - 1)
      BY <1>1, <3>1
    <3>3. PICK i \in 1..n-1 : \A j \in 1..n-1 : f[j] <= f[i]
      BY <3>2
    <3>4. /\ i \in 1..n /\ n \in 1..n /\ n \in 1..n0 /\ i \in 1..n0
          /\ \A j \in 1..n : j \in 1..n0 /\ (j \in 1..n-1 \/ j = n)
      BY <3>1
    <3>5. /\ f[i] \in Nat /\ f[n] \in Nat /\ \A j \in 1..n : f[j] \in Nat
          /\ \A j \in 1..n : f[j] <= f[i] \/ j = n
      BY <3>3, <3>4
    <3>6. CASE f[n] <= f[i]
      BY <3>4, <3>5, <3>6
    <3>7. CASE ~(f[n] <= f[i])
      <4>1. ASSUME NEW j \in 1..n PROVE f[j] <= f[n]
        <5>1. f[j] \in Nat /\ f[i] \in Nat /\ f[n] \in Nat /\ (f[j] <= f[i] \/ f[j] = f[n])
          BY <3>5
        <5> QED
          BY <5>1, <3>7, SMTT(30)
      <4> QED
        BY <3>4, <4>1
    <3> QED
      BY <3>6, <3>7
  <2> QED
    BY <2>1, <2>2
<1> QED
  BY <1>1, <1>2

-----------------------------------------------------------------------------
(* The order of a stream *)

\* The ranks of the kinds.
LEMMA RankIs ==
    /\ Rank("open") = 1 /\ Rank("reasoning") = 2 /\ Rank("content") = 3
    /\ Rank("calls") = 4 /\ Rank("text") = 5 /\ Rank("finish") = 6 /\ Rank("error") = 6
    /\ Rank("json") = 6 /\ \A s \in Status : Rank(s) = 6
    /\ \A k \in Kind : Rank(k) \in 1..6
  BY DEF Rank, Status, Kind

Streamed(kind) == kind \in Kind /\ kind \notin Status \cup {"json"}

\* The kinds that are neither a status nor a JSON body.
LEMMA StreamedIs ==
    \A k \in {"open", "reasoning", "content", "calls", "text", "finish", "error"} : Streamed(k)
  BY DEF Streamed, Kind, Status

\* Events in order up to a rank are so up to a higher one.
LEMMA LinedWeaker ==
    ASSUME NEW w \in Seq(Event), NEW m \in Nat, NEW n \in Nat, m <= n,
           NEW ord \in BOOLEAN, NEW weaker \in BOOLEAN, weaker => ord, Lined(w, m, ord)
    PROVE  Lined(w, n, weaker)
<1>1. ASSUME NEW i \in 1..Len(w) PROVE Rank(w[i].kind) <= n
  <2>1. Len(w) \in Nat /\ w[i] \in Event
    BY LenProperties, ElementOfSeq
  <2>2. Rank(w[i].kind) \in 1..6
    BY <2>1, RankIs DEF Event
  <2>3. Rank(w[i].kind) <= m
    BY DEF Lined
  <2> QED
    BY <2>2, <2>3
<1> QED
  BY <1>1 DEF Lined

\* One event more.
LEMMA LinedMore ==
    ASSUME NEW w \in Seq(Event), NEW m \in Nat, NEW n \in Nat, m <= n, NEW ord \in BOOLEAN,
           Lined(w, m, ord), NEW e \in Event, Streamed(e.kind), Rank(e.kind) <= n,
           ord => m < Rank(e.kind) \/ (m = Rank(e.kind) /\ m \in {2, 3})
    PROVE  Lined(w \o <<e>>, n, ord)
<1> DEFINE v == w \o <<e>>
           L == Len(w) + 1
           rank(i) == Rank(v[i].kind)
<1>1. <<e>> \in Seq(Event) /\ Len(<<e>>) = 1 /\ <<e>>[1] = e
  OBVIOUS
<1>2. /\ v \in Seq(Event) /\ Len(w) \in Nat /\ Len(v) = L /\ v[L] = e
      /\ \A i \in 1..Len(w) : v[i] = w[i]
  BY <1>1, ConcatIs
<1>3. w # <<>> /\ Len(w) # 0 /\ 1 \in 1..Len(w)
  BY <1>2, EmptySeq DEF Lined
<1> HIDE DEF v
<1>4. v # <<>> /\ v[1].kind = "open"
  <2>1. Len(v) # 0
    BY <1>2
  <2>2. v # <<>>
    BY <1>2, <2>1, EmptySeq
  <2> QED
    BY <1>2, <1>3, <2>2 DEF Lined
<1>5. \A i \in 1..Len(v) : i \in 1..Len(w) \/ i = L
  BY <1>2
<1>6. \A i \in 1..Len(w) : /\ v[i].kind \notin Status \cup {"json"}
                           /\ rank(i) <= m /\ rank(i) \in 1..6
  <2> TAKE i \in 1..Len(w)
  <2>1. v[i] = w[i] /\ w[i] \in Event
    BY <1>2, ElementOfSeq
  <2>2. Rank(w[i].kind) \in 1..6
    BY <2>1, RankIs DEF Event
  <2> QED
    BY <2>1, <2>2 DEF Lined
<1>7. v[L].kind \notin Status \cup {"json"} /\ rank(L) = Rank(e.kind) /\ rank(L) \in 1..6
  BY <1>2, RankIs DEF Streamed, Event
<1>8. \A i \in 1..Len(v) : v[i].kind \notin Status \cup {"json"} /\ rank(i) <= n
  <2> HIDE DEF L, rank
  <2>1. \A i \in 1..Len(w) : rank(i) <= n
    BY <1>6
  <2>2. rank(L) <= n
    BY <1>7
  <2> QED
    BY <1>5, <1>6, <1>7, <2>1, <2>2
<1>9. ASSUME ord, NEW i \in 1..Len(v), NEW j \in 1..Len(v), i < j
      PROVE  rank(i) <= rank(j) /\ (rank(i) \in {2, 3} \/ rank(i) < rank(j))
  <2>1. i \in 1..Len(w)
    BY <1>2, <1>9
  <2>2. CASE j \in 1..Len(w)
    BY <1>2, <1>9, <2>1, <2>2 DEF Lined
  <2>3. CASE j = L
    <3>1. rank(i) \in 1..6 /\ rank(i) <= m /\ rank(j) = Rank(e.kind) /\ rank(j) \in 1..6
      BY <1>6, <1>7, <2>1, <2>3
    <3> HIDE DEF rank
    <3>2. m < rank(j) \/ (m = rank(j) /\ m \in {2, 3})
      BY <1>9, <3>1
    <3> QED
      BY <3>1, <3>2
  <2> QED
    BY <1>5, <2>2, <2>3
<1> QED
  BY <1>4, <1>8, <1>9 DEF Lined, v

\* A stream that is open: its order, and what it has brought.
Track(w, n, ord, content, reasoning) ==
    /\ w \in Seq(Event) /\ Lined(w, n, ord)
    /\ Pieces(w, "content") = content /\ Pieces(w, "reasoning") = reasoning

\* A stream that was opened has sent nothing.
LEMMA TrackOpen ==
    ASSUME NEW ord \in BOOLEAN
    PROVE  Track(event("open"), 1, ord, <<>>, <<>>)
<1> DEFINE e == [kind |-> "open", text |-> <<>>]
           w == <<e>>
<1>1. e \in Event /\ event("open") = w /\ e.kind = "open"
  <2>1. "open" \in Kind
    BY DEF Kind
  <2> QED
    BY <2>1, EventIs
<1> HIDE DEF e
<1>2. w \in Seq(Event) /\ Len(w) = 1 /\ w[1] = e /\ w # <<>>
  BY <1>1
<1>3. Lined(w, 1, ord)
  <2>1. \A i \in 1..1 : i = 1
    OBVIOUS
  <2>2. /\ Rank(e.kind) <= 1
        /\ e.kind \notin Status \cup {"json"}
    BY <1>1, RankIs, StreamedIs DEF Streamed
  <2> HIDE DEF w
  <2>3. \A i \in 1..Len(w) : w[i] = e
    BY <1>2, <2>1
  <2>4. \A i, j \in 1..Len(w) : ~(i < j)
    BY <1>2
  <2> QED
    BY <1>1, <1>2, <2>2, <2>3, <2>4 DEF Lined
<1>4. ASSUME NEW k PROVE Pieces(w, k) = <<>>
  <2>1. "open" \in Kind /\ <<>> \in Seq(Event)
    BY EmptySeq DEF Kind
  <2>2. Pieces(event("open"), k) = <<>>
    BY <2>1, PiecesOfEvent
  <2> QED
    BY <1>1, <2>2
<1> QED
  BY <1>1, <1>2, <1>3, <1>4 DEF Track

\* What is known of a stream, up to a higher rank.
LEMMA TrackWeaker ==
    ASSUME NEW w, NEW m \in Nat, NEW n \in Nat, m <= n,
           NEW ord \in BOOLEAN, NEW weaker \in BOOLEAN, weaker => ord,
           NEW c, NEW r, Track(w, m, ord, c, r)
    PROVE  Track(w, n, weaker, c, r)
  BY LinedWeaker DEF Track

\* An event that brings neither text nor reasoning.
LEMMA TrackEvent ==
    ASSUME NEW w, NEW m \in Nat, NEW ord \in BOOLEAN, NEW c, NEW r, Track(w, m, ord, c, r),
           NEW kind \in {"calls", "text", "finish", "error"}, NEW t \in Text, m < Rank(kind)
    PROVE  Track(w \o <<[kind |-> kind, text |-> t]>>, Rank(kind), ord, c, r)
<1> DEFINE e == [kind |-> kind, text |-> t]
<1>1. Streamed(kind) /\ kind \in Kind /\ Rank(kind) \in Nat /\ kind # "content" /\ kind # "reasoning"
  BY StreamedIs, RankIs DEF Streamed
<1>2. e \in Event /\ e.kind = kind /\ Own(e, "content") = <<>> /\ Own(e, "reasoning") = <<>>
  BY <1>1 DEF Event, Own
<1> HIDE DEF e
<1>3. w \in Seq(Event) /\ Lined(w, m, ord)
  BY DEF Track
<1>4. <<e>> \in Seq(Event) /\ w \o <<e>> \in Seq(Event)
  BY <1>2, <1>3, ConcatIs
<1>5. Lined(w \o <<e>>, Rank(kind), ord)
  BY <1>1, <1>2, <1>3, LinedMore
<1>6. ASSUME NEW k, Own(e, k) = <<>> PROVE Pieces(w \o <<e>>, k) = Pieces(w, k)
  <2>1. Pieces(w, k) \in Text /\ Pieces(w \o <<e>>, k) = Pieces(w, k) \o Own(e, k)
    BY <1>2, <1>3, PiecesAre, PiecesOfAppend
  <2> QED
    BY <1>6, <2>1, ConcatEmptySeq DEF Text
<1>7. Track(w \o <<e>>, Rank(kind), ord, c, r)
  BY <1>2, <1>4, <1>5, <1>6 DEF Track
<1> QED
  BY <1>7 DEF e

\* Reasoning may follow reasoning; it follows text only where order does not matter.
LEMMA TrackReasoning ==
    ASSUME NEW w, NEW m \in {2, 3}, NEW ord \in BOOLEAN, NEW c \in Text, NEW r \in Text,
           NEW t \in Text, Track(w, m, ord, c, r), t # <<>> /\ ord => m = 2
    PROVE  Track(w \o chunk("reasoning", t), m, ord, c, r \o t)
<1>1. "reasoning" \in Kind /\ Streamed("reasoning") /\ Rank("reasoning") = 2 /\ m \in Nat
  BY StreamedIs, RankIs DEF Streamed
<1>2. w \in Seq(Event) /\ Lined(w, m, ord)
  BY DEF Track
<1> DEFINE x == chunk("reasoning", t)
<1>3. x \in Seq(Event) /\ w \o x \in Seq(Event)
  BY <1>1, <1>2, ChunkIs, ConcatIs
<1>4. Lined(w \o x, m, ord)
  <2>1. CASE t = <<>>
    BY <1>1, <1>2, <2>1, ChunkIs, ConcatEmptySeq
  <2>2. CASE t # <<>>
    <3> DEFINE e == [kind |-> "reasoning", text |-> t]
    <3>1. e \in Event /\ e.kind = "reasoning" /\ x = <<e>>
      BY <1>1, <2>2, ChunkIs
    <3> HIDE DEF e, x
    <3> QED
      BY <1>1, <1>2, <2>2, <3>1, LinedMore
  <2> QED
    BY <2>1, <2>2
<1>5. Pieces(w \o x, "content") = c /\ Pieces(w \o x, "reasoning") = r \o t
  <2>1. \A k : Pieces(w \o x, k) = IF "reasoning" = k THEN Pieces(w, k) \o t ELSE Pieces(w, k)
    BY <1>1, <1>2, PiecesOfChunk
  <2> HIDE DEF x
  <2>2. Pieces(w, "content") = c /\ Pieces(w, "reasoning") = r
    BY DEF Track
  <2> QED
    BY <2>1, <2>2
<1> QED
  BY <1>3, <1>4, <1>5 DEF Track

\* Text may follow reasoning and text.
LEMMA TrackContent ==
    ASSUME NEW w, NEW m \in Nat, m <= 3, NEW ord \in BOOLEAN, NEW c \in Text, NEW r \in Text,
           NEW t \in Text, Track(w, m, ord, c, r)
    PROVE  Track(w \o chunk("content", t), IF t = <<>> THEN m ELSE 3, ord, c \o t, r)
<1>1. "content" \in Kind /\ Streamed("content") /\ Rank("content") = 3
  BY StreamedIs, RankIs DEF Streamed
<1>2. w \in Seq(Event) /\ Lined(w, m, ord)
  BY DEF Track
<1> DEFINE x == chunk("content", t)
           n == IF t = <<>> THEN m ELSE 3
<1>3. x \in Seq(Event) /\ w \o x \in Seq(Event)
  BY <1>1, <1>2, ChunkIs, ConcatIs
<1>4. Lined(w \o x, n, ord)
  <2>1. CASE t = <<>>
    BY <1>1, <1>2, <2>1, ChunkIs, ConcatEmptySeq
  <2>2. CASE t # <<>>
    <3> DEFINE e == [kind |-> "content", text |-> t]
    <3>1. e \in Event /\ e.kind = "content" /\ x = <<e>>
      BY <1>1, <2>2, ChunkIs
    <3>2. n = 3 /\ 3 \in Nat /\ (m < 3 \/ m = 3)
      BY <2>2
    <3> HIDE DEF e, x, n
    <3> QED
      BY <1>1, <1>2, <3>1, <3>2, LinedMore
  <2> QED
    BY <2>1, <2>2
<1>5. Pieces(w \o x, "content") = c \o t /\ Pieces(w \o x, "reasoning") = r
  <2>1. \A k : Pieces(w \o x, k) = IF "content" = k THEN Pieces(w, k) \o t ELSE Pieces(w, k)
    BY <1>1, <1>2, PiecesOfChunk
  <2> HIDE DEF x
  <2>2. Pieces(w, "content") = c /\ Pieces(w, "reasoning") = r
    BY DEF Track
  <2> QED
    BY <2>1, <2>2
<1> QED
  BY <1>3, <1>4, <1>5 DEF Track

-----------------------------------------------------------------------------
(* What is made of the frames at the end *)

\* Nothing is left of a blank text.
LEMMA CleanBlank ==
    ASSUME NEW t \in Text, TrimSpace(t) = <<>>
    PROVE  cleanGeminiText(t) = <<>>
<1>1. \A i \in 1..Len(t) : t[i] \in Space
  <2>1. ASSUME NEW a \in 1..Len(t), NEW b \in 1..Len(t), a <= b,
               TrimSpace(t) = SubSeq(t, a, b)
        PROVE  FALSE
    <3>1. Len(t) \in Nat /\ a \in 1..Len(t)+1 /\ b \in 0..Len(t)
      BY LenProperties DEF Text
    <3>2. Len(SubSeq(t, a, b)) = b - a + 1
      BY <2>1, <3>1, SubSeqIs DEF Text
    <3>3. Len(<<>>) = 0
      OBVIOUS
    <3> QED
      BY <2>1, <3>1, <3>2, <3>3
  <2> QED
    BY <2>1, TrimIs
<1>2. Artifact[t] = <<>>
  <2>1. DOMAIN t = 1..Len(t)
    BY LenProperties DEF Text
  <2>2. {i \in DOMAIN t : t[i] = "code" /\ \E j \in i+1..Len(t) : t[j] = "bt"} = {}
    BY <1>1, <2>1 DEF Space
  <2> QED
    BY <2>2 DEF Artifact
<1>3. Without(t, Artifact) = t
  BY <1>2, ArtifactMatches, WithoutIs
<1> QED
  BY <1>3 DEF cleanGeminiText

\* Nothing is left of nothing.
LEMMA CleanEmpty == <<>> \in Text /\ cleanGeminiText(<<>>) = <<>>
<1>1. <<>> \in Text
  BY EmptySeq DEF Text
<1>2. TrimSpace(<<>>) = <<>>
  BY <1>1, TrimOfTrimmed DEF Trimmed
<1> QED
  BY <1>1, <1>2, CleanBlank

\* The frames of an attempt are texts.
LEMMA RawIs ==
    ASSUME TypeOK
    PROVE  /\ Len(raw) \in Nat /\ DOMAIN raw = 1..Len(raw) /\ (raw = <<>> <=> Len(raw) = 0)
           /\ \A i \in 1..Len(raw) :
                  raw[i] \in Frame /\ raw[i].think \in Text /\ raw[i].text \in Text
<1>1. raw \in Seq(Frame)
  BY DEF TypeOK
<1>2. Len(raw) \in Nat /\ DOMAIN raw = 1..Len(raw) /\ (raw = <<>> <=> Len(raw) = 0)
  BY <1>1, LenProperties, EmptySeq
<1>3. ASSUME NEW i \in 1..Len(raw) PROVE raw[i] \in Frame
  BY <1>1, ElementOfSeq
<1> QED
  BY <1>2, <1>3 DEF Frame

\* The reasoning of a frame that no other one's is longer than.
LEMMA ReasoningIs ==
    ASSUME TypeOK, raw # <<>>
    PROVE  \E i \in 1..Len(raw) :
               /\ extractReasoning = cleanGeminiText(raw[i].think)
               /\ \A j \in 1..Len(raw) : Len(raw[j].think) <= Len(raw[i].think)
<1> DEFINE n == Len(raw)
           f == [i \in 1..n |-> Len(raw[i].think)]
           T == {raw[i].think : i \in DOMAIN raw}
           t == CHOOSE t \in T : \A u \in T : Len(u) <= Len(t)
<1>1. n \in Nat /\ n # 0 /\ DOMAIN raw = 1..n
  BY RawIs
<1>2. f \in [1..n -> Nat] /\ \A i \in 1..n : f[i] = Len(raw[i].think)
  <2>1. \A i \in 1..n : Len(raw[i].think) \in Nat
    BY RawIs, LenProperties DEF Text
  <2> QED
    BY <2>1
<1>3. \E i \in 1..n : \A j \in 1..n : f[j] <= f[i]
  <2> HIDE DEF n, f
  <2> QED
    BY <1>1, <1>2, LongestExists
<1>4. \E u \in T : \A v \in T : Len(v) <= Len(u)
  <2>1. PICK i \in 1..n : \A j \in 1..n : f[j] <= f[i]
    BY <1>3
  <2>2. \A j \in 1..n : Len(raw[j].think) <= Len(raw[i].think)
    BY <1>2, <2>1
  <2> QED
    BY <1>1, <2>2
<1>5. t \in T /\ \A u \in T : Len(u) <= Len(t)
  <2> HIDE DEF T
  <2> QED
    BY <1>4
<1>6. extractReasoning = cleanGeminiText(t)
  BY DEF extractReasoning
<1> HIDE DEF t
<1>7. PICK i \in 1..n : t = raw[i].think
  BY <1>1, <1>5
<1>8. \A j \in 1..n : raw[j].think \in T
  BY <1>1
<1> QED
  BY <1>5, <1>6, <1>7, <1>8

\* The text of a frame all later ones of which are blank.
LEMMA ResponseTextIs ==
    ASSUME TypeOK
    PROVE  \/ extractResponseText = <<>>
           \/ \E i \in 1..Len(raw) :
                  /\ extractResponseText = cleanGeminiText(raw[i].text)
                  /\ \A j \in 1..Len(raw) : i < j => TrimSpace(raw[j].text) = <<>>
<1> DEFINE Solid == {i \in DOMAIN raw : TrimSpace(raw[i].text) # <<>>}
           i == Greatest(Solid)
<1>1. Len(raw) \in Nat /\ DOMAIN raw = 1..Len(raw)
  BY RawIs
<1>2. CASE Solid = {}
  BY <1>2 DEF extractResponseText
<1>3. CASE Solid # {}
  <2>1. Solid \subseteq Nat /\ Solid \subseteq 1..Len(raw) /\ \A k \in Solid : k <= Len(raw)
    BY <1>1
  <2>2. i \in Solid /\ \A k \in Solid : i >= k
    <3> HIDE DEF Solid
    <3> QED
      BY <1>1, <1>3, <2>1, GreatestIs
  <2>3. extractResponseText = cleanGeminiText(raw[i].text)
    BY <1>3 DEF extractResponseText
  <2> HIDE DEF i
  <2>4. ASSUME NEW j \in 1..Len(raw), i < j PROVE TrimSpace(raw[j].text) = <<>>
    <3>1. j \notin Solid
      BY <1>1, <2>1, <2>2, <2>4
    <3> QED
      BY <1>1, <3>1
  <2> QED
    BY <2>1, <2>2, <2>3, <2>4
<1> QED
  BY <1>2, <1>3

\* What is read off the frames at the end are trimmed texts.
LEMMA ReplyType ==
    ASSUME TypeOK
    PROVE  /\ extractResponseText \in Text /\ Trimmed(extractResponseText)
           /\ replyText \in Text /\ Trimmed(replyText)
           /\ raw # <<>> => extractReasoning \in Text
<1>1. extractResponseText \in Text /\ Trimmed(extractResponseText)
  <2>1. <<>> \in Text /\ Trimmed(<<>>)
    BY CleanEmpty DEF Trimmed
  <2> QED
    BY <2>1, ResponseTextIs, RawIs, CleanType
<1>2. replyText \in Text /\ Trimmed(replyText)
  BY <1>1, TextOfType DEF replyText
<1>3. raw # <<>> => extractReasoning \in Text
  BY ReasoningIs, RawIs, CleanType
<1> QED
  BY <1>1, <1>2, <1>3

\* The trackers, the gate and the parser hold each word once.
LEMMA KnownOnce ==
    ASSUME TypeOK, GateFollows, Traced, NEW w \in Words
    PROVE  /\ Once(w, emitted) /\ Once(w, emittedReasoning) /\ Once(w, sentText)
           /\ Once(w, replyText) /\ (raw # <<>> => Once(w, extractReasoning))
<1>1. Once(w, <<>>)
  BY DEF Once
<1>2. ASSUME NEW i \in 1..Len(raw)
      PROVE  /\ Once(w, cleanGeminiText(raw[i].text))
             /\ Once(w, cleanGeminiText(raw[i].think))
  <2>1. raw[i].text \in Text /\ raw[i].think \in Text /\ DOMAIN raw = 1..Len(raw)
    BY RawIs
  <2>2. PICK a \in Answers : \E p \in 1..size(a) : raw[i] = frameOf(a, p)
    BY <2>1 DEF Traced
  <2>3. Once(w, raw[i].text) /\ Once(w, raw[i].think)
    BY <2>2, FrameOnce
  <2> QED
    BY <2>1, <2>3, ThinnerClean DEF Thinner
<1>3. Once(w, emitted) /\ Once(w, emittedReasoning)
  BY <1>1, <1>2, RawIs DEF Traced
<1>4. Once(w, extractResponseText) /\ (raw # <<>> => Once(w, extractReasoning))
  BY <1>1, <1>2, ReasoningIs, ResponseTextIs
<1>5. Once(w, replyText)
  <2>1. extractResponseText \in Text
    BY ReplyType
  <2> QED
    BY <1>4, <2>1, ThinnerTextOf DEF replyText, Thinner
<1>6. Once(w, gate.sent)
  <2>1. CASE mode.stream /\ mode.tools
    <3> DEFINE g == GateOf(emitted, <<>>, FALSE)
    <3>1. emitted \in Text /\ <<>> \in Text
      BY CleanEmpty DEF TypeOK
    <3>2. g \in Gate /\ Seen(g) = <<>> \o emitted
      BY <3>1, SeenIs DEF Gate, GateOf
    <3>3. gate = pushLoop[g] /\ gate \in Gate
      BY <2>1, <3>1, FreshPush DEF GateFollows, TypeOK
    <3> HIDE DEF g
    <3>4. Thinner(w, Seen(gate), emitted)
      BY <3>1, <3>2, <3>3, ThinnerGate, ConcatEmptySeq DEF Text
    <3>5. Thinner(w, gate.sent, Seen(gate))
      <4>1. gate.sent \in Text /\ gate.buf \in Text /\ Seen(gate) = gate.sent \o gate.buf
        BY <3>3, SeenIs DEF Gate
      <4> QED
        BY <4>1, ThinnerParts
    <3> QED
      BY <1>3, <3>4, <3>5 DEF Thinner
  <2>2. CASE ~(mode.stream /\ mode.tools)
    BY <1>1, <2>2 DEF GateFollows, newToolFenceGate
  <2> QED
    BY <2>1, <2>2
<1> QED
  BY <1>3, <1>4, <1>5, <1>6 DEF sentText

-----------------------------------------------------------------------------
(* The end of a stream *)

Shape(w, done, ord) ==
    /\ \A i \in DOMAIN w : w[i].kind \notin Status \cup {"json"} => w[1].kind = "open"
    /\ ord => \A i, j \in DOMAIN w : i < j =>
            /\ Rank(w[i].kind) <= Rank(w[j].kind)
            /\ Rank(w[i].kind) \in {2, 3} \/ Rank(w[i].kind) < Rank(w[j].kind)
    /\ \A i \in DOMAIN w : w[i].kind \in Status \cup {"json"} => Len(w) = 1
    /\ done => w # <<>> /\ Rank(w[Len(w)].kind) = 6

\* Events in order make a stream of the right shape.
LEMMA ShapeOfStream ==
    ASSUME NEW w \in Seq(Event), NEW m, NEW ord \in BOOLEAN, Lined(w, m, ord),
           NEW done \in BOOLEAN, done => Rank(w[Len(w)].kind) = 6
    PROVE  Shape(w, done, ord)
<1>1. DOMAIN w = 1..Len(w)
  BY LenProperties
<1> QED
  BY <1>1 DEF Shape, Lined

\* A reply of one event has the right shape.
LEMMA ShapeOfReply ==
    ASSUME NEW e \in Event, e.kind \in Status \cup {"json"},
           NEW ord \in BOOLEAN, NEW done \in BOOLEAN
    PROVE  Shape(<<e>>, done, ord)
<1> DEFINE w == <<e>>
<1>1. DOMAIN w = {1} /\ Len(w) = 1 /\ w[1] = e /\ w # <<>>
  <2>1. 1..1 = {1}
    OBVIOUS
  <2> QED
    BY <2>1
<1>2. Rank(e.kind) = 6
  BY RankIs
<1> HIDE DEF w
<1>3. \A i \in DOMAIN w : i = 1
  BY <1>1
<1>4. Shape(w, done, ord)
  BY <1>1, <1>2, <1>3 DEF Shape
<1> QED
  BY <1>4 DEF w

\* Whether the upstream thinks first is true or false.
LEMMA ThinksFirstType == ThinksFirst \in BOOLEAN
  BY DEF ThinksFirst

\* What the base of a reply is: a stream that is open.
LEMMA BaseIs ==
    ASSUME TypeOK, WireLined, WireText, pc # "done"
    PROVE  LET base == IF wire = <<>> THEN event("open") ELSE wire IN
           /\ base # <<>>
           /\ Track(base, 3, ThinksFirst, sentText, emittedReasoning)
           /\ emitted = <<>> => Track(base, 2, ThinksFirst, sentText, emittedReasoning)
<1>1. Pieces(wire, "content") = sentText /\ Pieces(wire, "reasoning") = emittedReasoning
  BY DEF WireText, Delivered
<1>2. CASE wire = <<>>
  <2>1. sentText = <<>> /\ emittedReasoning = <<>>
    BY <1>1, <1>2, PiecesOfNone
  <2>2. Track(event("open"), 1, ThinksFirst, sentText, emittedReasoning)
    BY <2>1, TrackOpen, ThinksFirstType
  <2>3. /\ Track(event("open"), 3, ThinksFirst, sentText, emittedReasoning)
        /\ Track(event("open"), 2, ThinksFirst, sentText, emittedReasoning)
    BY <2>2, TrackWeaker, ThinksFirstType
  <2> QED
    BY <1>2, <2>3 DEF event
<1>3. CASE wire # <<>>
  BY <1>1, <1>3 DEF WireLined, Track, TypeOK
<1> QED
  BY <1>2, <1>3

\* What the client has are texts.
LEMMA SentTextType ==
    ASSUME TypeOK
    PROVE  sentText \in Text /\ emittedReasoning \in Text /\ emitted \in Text
  BY DEF TypeOK, sentText, Gate

\* The reasoning was all sent when its frame came.
LEMMA NothingToThink ==
    ASSUME TypeOK, Exhausted, mode.stream, mode.api = "chat", raw # <<>>
    PROVE  remainingOf(extractReasoning, emittedReasoning) = <<>>
<1>1. PICK i \in 1..Len(raw) : extractReasoning = cleanGeminiText(raw[i].think)
  BY ReasoningIs
<1>2. raw[i].think \in Text /\ ~Extends(emittedReasoning, raw[i].think)
  BY RawIs DEF Exhausted
<1> QED
  BY <1>1, <1>2, SentTextType, NothingRemains

\* Of frames that continue each other all of the answer was sent, or is left to send.
LEMMA AnswerComplete ==
    ASSUME TypeOK, GateFollows, Latest, mode.stream, raw # <<>>, Cumulative,
           extractResponseText # <<>>, mode.tools => WellFenced(extractResponseText)
    PROVE  /\ TrimSpace(sentText \o remainingOf(replyText, sentText)) = replyText
           /\ mode.api = "chat" => emittedReasoning = extractReasoning
<1> DEFINE n == Len(raw)
<1>1. n \in Nat /\ n # 0 /\ n \in 1..n /\ DOMAIN raw = 1..n /\ Last(raw) = raw[n]
  BY RawIs DEF Last
<1>2. /\ emitted = cleanGeminiText(raw[n].text)
      /\ mode.api = "chat" => emittedReasoning = cleanGeminiText(raw[n].think)
  BY <1>1 DEF Latest
<1>3. extractResponseText = emitted
  <2>1. PICK i \in 1..n :
            /\ extractResponseText = cleanGeminiText(raw[i].text)
            /\ \A j \in 1..n : i < j => TrimSpace(raw[j].text) = <<>>
    BY ResponseTextIs
  <2>2. CASE i < n
    <3> DEFINE c == cleanGeminiText(raw[i].text)
    <3>1. cleanGeminiText(raw[n].text) = <<>>
      BY <1>1, <2>1, <2>2, RawIs, CleanBlank
    <3>2. IsPrefix(c, <<>>)
      BY <1>1, <2>2, <3>1 DEF Cumulative
    <3>3. c \in Text /\ <<>> \in Text
      BY RawIs, CleanType, CleanEmpty
    <3> HIDE DEF c
    <3>4. Len(c) <= 0
      <4>1. Len(c) <= Len(<<>>)
        BY <3>2, <3>3, PrefixIs DEF Text
      <4> QED
        BY <4>1
    <3>5. c = <<>>
      BY <3>3, <3>4, LenProperties, EmptySeq DEF Text
    <3> QED
      BY <2>1, <3>5 DEF c
  <2>3. CASE ~(i < n)
    <3>1. i = n
      <4> HIDE DEF n
      <4> QED
        BY <1>1, <2>3
    <3> QED
      BY <1>2, <2>1, <3>1
  <2> QED
    BY <2>2, <2>3
<1>4. TrimSpace(sentText \o remainingOf(replyText, sentText)) = replyText
  <2>1. emitted \in Text /\ Trimmed(emitted)
    BY <1>3, ReplyType
  <2>2. CASE mode.tools
    <3>1. gate.sent = gatePush(newToolFenceGate, emitted).sent
      BY <2>2 DEF GateFollows
    <3> QED
      BY <1>3, <2>1, <2>2, <3>1, RestOfGate DEF replyText, sentText
  <2>3. CASE ~mode.tools
    <3>1. sentText = emitted /\ replyText = emitted
      BY <1>3, <2>3 DEF sentText, replyText
    <3>2. emitted \o remainingOf(emitted, emitted) = emitted
      BY <2>1, RemainingIs
    <3> QED
      BY <2>1, <3>1, <3>2, TrimOfTrimmed
  <2> QED
    BY <2>2, <2>3
<1>5. ASSUME mode.api = "chat" PROVE emittedReasoning = extractReasoning
  <2>1. PICK i \in 1..n :
            /\ extractReasoning = cleanGeminiText(raw[i].think)
            /\ \A j \in 1..n : Len(raw[j].think) <= Len(raw[i].think)
    BY ReasoningIs
  <2> DEFINE s == raw[i].think
             t == raw[n].think
  <2>2. s \in Text /\ t \in Text /\ Len(t) <= Len(s) /\ Len(s) \in Nat /\ Len(t) \in Nat
    BY <1>1, <2>1, RawIs, LenProperties DEF Text
  <2>3. IsPrefix(s, t)
    <3>1. CASE i = n
      BY <2>2, <3>1, PrefixOrder DEF Text
    <3>2. CASE i # n
      <4>1. i < n
        <5> HIDE DEF n
        <5> QED
          BY <1>1, <3>2
      <4> QED
        BY <1>1, <4>1 DEF Cumulative
    <3> QED
      BY <3>1, <3>2
  <2> HIDE DEF s, t
  <2>4. s = t
    BY <2>2, <2>3, PrefixOrder DEF Text
  <2> QED
    BY <1>2, <1>5, <2>1, <2>4 DEF s, t
<1> QED
  BY <1>4, <1>5

\* The last event of a stream.
LEMMA TrackEnd ==
    ASSUME NEW w, NEW m \in Nat, m < 6, NEW ord \in BOOLEAN, NEW c, NEW r,
           Track(w, m, ord, c, r), NEW kind \in {"finish", "error"}
    PROVE  LET v == w \o event(kind) IN
           Track(v, 6, ord, c, r) /\ v # <<>> /\ v[Len(v)].kind = kind
<1> DEFINE e == [kind |-> kind, text |-> <<>>]
           v == w \o event(kind)
<1>1. Rank(kind) = 6 /\ <<>> \in Text /\ event(kind) = <<e>>
  BY RankIs, CleanEmpty DEF event
<1>2. Track(w \o <<e>>, 6, ord, c, r)
  <2>1. m < Rank(kind)
    BY <1>1
  <2>2. Track(w \o <<e>>, Rank(kind), ord, c, r)
    BY <1>1, <2>1, TrackEvent
  <2> HIDE DEF e
  <2> QED
    BY <1>1, <2>2
<1>3. v # <<>> /\ v[Len(v)].kind = kind
  <2>1. e.kind = kind /\ e \in Event
    BY <1>1 DEF Event, Kind
  <2> HIDE DEF e
  <2>2. w \in Seq(Event) /\ <<e>> \in Seq(Event) /\ Len(<<e>>) = 1 /\ <<e>>[1] = e
        /\ 1 \in 1..Len(<<e>>)
    BY <2>1 DEF Track
  <2>3. /\ w \o <<e>> \in Seq(Event) /\ Len(w) \in Nat
        /\ Len(w \o <<e>>) = Len(w) + 1 /\ (w \o <<e>>)[Len(w) + 1] = e
    BY <2>2, ConcatIs
  <2>4. w \o <<e>> # <<>>
    <3>1. Len(w \o <<e>>) # 0
      BY <2>3
    <3> QED
      BY <2>3, <3>1, EmptySeq
  <2> QED
    BY <1>1, <2>1, <2>3, <2>4
<1> QED
  BY <1>1, <1>2, <1>3

\* The tool calls follow the text.
LEMMA TrackCalls ==
    ASSUME NEW w, NEW ord \in BOOLEAN, NEW c, NEW r, Track(w, 3, ord, c, r)
    PROVE  Track(w \o calls, 4, ord, c, r) /\ calls \in Seq(Event)
<1>1. calls = <<>> \/ calls = event("calls")
  BY DEF calls
<1>2. CASE calls = <<>>
  <2>1. w \o <<>> = w /\ <<>> \in Seq(Event)
    BY ConcatEmptySeq, EmptySeq DEF Track
  <2>2. Track(w, 4, ord, c, r)
    BY TrackWeaker
  <2> QED
    BY <1>2, <2>1, <2>2
<1>3. CASE calls = event("calls")
  <2>1. /\ Rank("calls") = 4 /\ <<>> \in Text /\ "calls" \in Kind
        /\ event("calls") = <<[kind |-> "calls", text |-> <<>>]>>
    BY RankIs, CleanEmpty DEF event, Kind
  <2>2. Track(w \o <<[kind |-> "calls", text |-> <<>>]>>, Rank("calls"), ord, c, r)
    BY <2>1, TrackEvent
  <2> QED
    BY <1>3, <2>1, <2>2, EventIs
<1> QED
  BY <1>1, <1>2, <1>3

\* Concatenating sequences is associative.
LEMMA ConcatAll ==
    ASSUME NEW S
    PROVE  /\ \A s, t \in Seq(S) : s \o t \in Seq(S)
           /\ \A s, t, u \in Seq(S) : (s \o t) \o u = s \o (t \o u)
<1>1. \A s, t \in Seq(S) : s \o t \in Seq(S)
  OBVIOUS
<1>2. \A s, t, u \in Seq(S) : (s \o t) \o u = s \o (t \o u)
  BY ConcatAssociative
<1> QED
  BY <1>1, <1>2, Zenon

\* Concatenating streams is associative.
LEMMA ConcatEvents ==
    /\ \A s, u \in Seq(Event) : s \o u \in Seq(Event)
    /\ \A s, u, v \in Seq(Event) : (s \o u) \o v = s \o (u \o v)
  BY ConcatAll

\* The end of a stream that delivers: in order, with what was left to send.
LEMMA DeliverTrack ==
    ASSUME TypeOK, Control, Exhausted, WireLined, WireText, pc # "done",
           mode.stream, raw # <<>>
    PROVE  LET w == Sent(IF mode.api = "chat" THEN chatEnd ELSE responsesEnd) IN
           /\ Track(w, 6, ThinksFirst, sentText \o remainingOf(replyText, sentText),
                    emittedReasoning)
           /\ w # <<>> /\ w[Len(w)].kind = "finish"
<1> DEFINE ord == ThinksFirst
<1>20. ord \in BOOLEAN
  BY ThinksFirstType
<1> DEFINE b == IF wire = <<>> THEN event("open") ELSE wire
           rest == remainingOf(replyText, sentText)
           C == chunk("content", rest)
           F == event("finish")
           sum == sentText \o rest
<1>1. Track(b, 3, ord, sentText, emittedReasoning) /\ b \in Seq(Event)
  BY BaseIs DEF Track
<1>2. /\ sentText \in Text /\ emittedReasoning \in Text /\ rest \in Text
      /\ replyText \in Text
  BY SentTextType, ReplyType, RemainingIs
<1>3. "content" \in Kind /\ "reasoning" \in Kind /\ "finish" \in Kind /\ <<>> \in Text
  BY CleanEmpty DEF Kind
<1>4. C \in Seq(Event) /\ F \in Seq(Event) /\ F # <<>>
  BY <1>2, <1>3, ChunkIs, EventIs
<1> HIDE DEF b, rest, ord
<1>5. ASSUME NEW v, Track(v, 3, ord, sentText, emittedReasoning)
      PROVE  Track(v \o C, 3, ord, sum, emittedReasoning)
  <2>1. Track(v \o C, IF rest = <<>> THEN 3 ELSE 3, ord, sentText \o rest,
              emittedReasoning)
    BY <1>2, <1>5, TrackContent, <1>20
  <2> QED
    BY <2>1
<1> HIDE DEF C, F, sum
<1>6. ASSUME NEW x \in Seq(Event) PROVE Sent(x \o F) = b \o (x \o F)
  <2>1. x \o F # <<>>
    <3>1. Len(F) # 0 /\ Len(F) \in Nat
      BY <1>4, LenProperties, EmptySeq
    <3>2. x \o F \in Seq(Event) /\ Len(x) \in Nat /\ Len(x \o F) = Len(x) + Len(F)
      BY <1>4, ConcatIs
    <3>3. Len(x \o F) # 0
      BY <3>1, <3>2
    <3> QED
      BY <3>2, <3>3, EmptySeq
  <2> QED
    BY <2>1 DEF Sent, b
<1>7. calls \in Seq(Event)
  BY <1>1, TrackCalls, <1>20
<1> DEFINE Good(w) == /\ Track(w, 6, ord, sum, emittedReasoning)
                      /\ w # <<>> /\ w[Len(w)].kind = "finish"
<1>21. ASSUME NEW v, NEW m \in Nat, m < 6, Track(v, m, ord, sum, emittedReasoning)
       PROVE  Good(v \o F)
  <2>1. LET u == v \o event("finish") IN
        Track(u, 6, ord, sum, emittedReasoning) /\ u # <<>> /\ u[Len(u)].kind = "finish"
    BY <1>20, <1>21, TrackEnd
  <2> QED
    BY <2>1 DEF F
<1>22. ASSUME NEW x1 \in Seq(Event), NEW x2 \in Seq(Event), NEW x3 \in Seq(Event)
       PROVE  b \o (((x1 \o x2) \o x3) \o F) = (((b \o x1) \o x2) \o x3) \o F
  <2>1. b \in Seq(Event) /\ F \in Seq(Event)
    BY <1>1, <1>4
  <2>2. x1 \o x2 \in Seq(Event)
    BY ConcatEvents, Zenon
  <2>3. (x1 \o x2) \o x3 \in Seq(Event)
    BY <2>2, ConcatEvents, Zenon
  <2>4. (b \o ((x1 \o x2) \o x3)) \o F = b \o (((x1 \o x2) \o x3) \o F)
    BY <2>1, <2>3, ConcatEvents, ZenonT(40)
  <2>5. (b \o (x1 \o x2)) \o x3 = b \o ((x1 \o x2) \o x3)
    BY <2>1, <2>2, ConcatEvents, ZenonT(40)
  <2>6. (b \o x1) \o x2 = b \o (x1 \o x2)
    BY <2>1, ConcatEvents, ZenonT(40)
  <2> QED
    BY <2>4, <2>5, <2>6, Zenon
<1> HIDE DEF Good
<1>8. CASE mode.api = "chat"
  <2> DEFINE R == chunk("reasoning", <<>>)
  <2>1. chatEnd = ((R \o C) \o calls) \o F
    BY <1>8, NothingToThink DEF chatEnd, C, F, rest
  <2>2. R \in Seq(Event)
    BY <1>3, ChunkIs
  <2>3. Track(b \o R, 3, ord, sentText, emittedReasoning)
    <3>1. Track(b \o R, 3, ord, sentText, emittedReasoning \o <<>>)
      BY <1>1, <1>2, <1>3, TrackReasoning, <1>20
    <3> QED
      BY <1>2, <3>1, ConcatEmptySeq DEF Text
  <2> HIDE DEF R
  <2>4. Track((b \o R) \o C, 3, ord, sum, emittedReasoning)
    BY <1>5, <2>3
  <2>5. Track(((b \o R) \o C) \o calls, 4, ord, sum, emittedReasoning)
    BY <2>4, TrackCalls, <1>20
  <2>6. Good((((b \o R) \o C) \o calls) \o F)
    <3> DEFINE v == ((b \o R) \o C) \o calls
    <3>1. Track(v, 4, ord, sum, emittedReasoning) /\ 4 \in Nat /\ 4 < 6
      BY <2>5
    <3> HIDE DEF v
    <3>2. Good(v \o F)
      BY <3>1, <1>21
    <3> QED
      BY <3>2 DEF v
  <2>7. (R \o C) \o calls \in Seq(Event)
    BY <1>4, <1>7, <2>2, ConcatProperties
  <2>8. Sent(chatEnd) = (((b \o R) \o C) \o calls) \o F
    <3>1. Sent(chatEnd) = b \o (((R \o C) \o calls) \o F)
      BY <1>6, <2>1, <2>7
    <3>2. b \o (((R \o C) \o calls) \o F) = (((b \o R) \o C) \o calls) \o F
      BY <1>4, <1>7, <1>22, <2>2, Zenon
    <3> QED
      BY <3>1, <3>2, Zenon
  <2> QED
    BY <1>8, <2>6, <2>8 DEF Good, sum, rest, ord
<1>9. CASE mode.api # "chat"
  <2> DEFINE T == IF replyText # <<>> \/ replyCalls = 0
                  THEN <<[kind |-> "text", text |-> replyText]>> ELSE <<>>
  <2>1. responsesEnd = ((C \o calls) \o T) \o F
    BY DEF responsesEnd, C, F, rest
  <2>2. T \in Seq(Event)
    <3>1. [kind |-> "text", text |-> replyText] \in Event /\ <<>> \in Seq(Event)
      BY <1>2, EmptySeq DEF Event, Kind
    <3> QED
      BY <3>1
  <2>3. Track(b \o C, 3, ord, sum, emittedReasoning)
    BY <1>1, <1>5
  <2>4. Track((b \o C) \o calls, 4, ord, sum, emittedReasoning)
    BY <2>3, TrackCalls, <1>20
  <2>5. Track(((b \o C) \o calls) \o T, 5, ord, sum, emittedReasoning)
    <3> DEFINE v == (b \o C) \o calls
    <3>1. Track(v, 4, ord, sum, emittedReasoning)
      BY <2>4
    <3> HIDE DEF v
    <3>2. CASE T = <<>>
      <4>1. v \o <<>> = v
        BY <3>1, ConcatEmptySeq DEF Track
      <4>2. Track(v, 5, ord, sum, emittedReasoning)
        BY <3>1, TrackWeaker, <1>20
      <4> QED
        BY <3>2, <4>1, <4>2 DEF v
    <3>3. CASE T = <<[kind |-> "text", text |-> replyText]>>
      <4>1. Rank("text") = 5 /\ 4 \in Nat /\ 4 < Rank("text") /\ "text" \in {"calls", "text", "finish", "error"}
        BY RankIs
      <4>2. Track(v \o <<[kind |-> "text", text |-> replyText]>>, Rank("text"), ord, sum,
                  emittedReasoning)
        BY <1>2, <3>1, <4>1, TrackEvent, <1>20
      <4> QED
        BY <3>3, <4>1, <4>2 DEF v
    <3> QED
      BY <3>2, <3>3
  <2> HIDE DEF T
  <2>6. Good((((b \o C) \o calls) \o T) \o F)
    <3> DEFINE v == ((b \o C) \o calls) \o T
    <3>1. Track(v, 5, ord, sum, emittedReasoning) /\ 5 \in Nat /\ 5 < 6
      BY <2>5
    <3> HIDE DEF v
    <3>2. Good(v \o F)
      BY <3>1, <1>21
    <3> QED
      BY <3>2 DEF v
  <2>7. (C \o calls) \o T \in Seq(Event)
    BY <1>4, <1>7, <2>2, ConcatProperties
  <2>8. Sent(responsesEnd) = (((b \o C) \o calls) \o T) \o F
    <3>1. Sent(responsesEnd) = b \o (((C \o calls) \o T) \o F)
      BY <1>6, <2>1, <2>7
    <3>2. b \o (((C \o calls) \o T) \o F) = (((b \o C) \o calls) \o T) \o F
      BY <1>4, <1>7, <1>22, <2>2, ZenonT(40)
    <3> QED
      BY <3>1, <3>2, Zenon
  <2> QED
    BY <1>9, <2>6, <2>8 DEF Good, sum, rest, ord
<1> QED
  BY <1>8, <1>9

-----------------------------------------------------------------------------
(* A request that ends *)

\* A reply of one event, a status or a JSON body.
LEMMA ShortReply ==
    ASSUME NEW e \in Event, e.kind \in Status \cup {"json"}, NEW ord \in BOOLEAN
    PROVE  /\ <<e>> \in Seq(Event) /\ Shape(<<e>>, TRUE, ord)
           /\ Pieces(<<e>>, "content") = <<>> /\ Pieces(<<e>>, "reasoning") = <<>>
           /\ <<e>>[Len(<<e>>)].kind # "finish"
<1>1. <<e>> \in Seq(Event) /\ Shape(<<e>>, TRUE, ord)
  <2>1. \A done \in BOOLEAN : Shape(<<e>>, done, ord)
    BY ShapeOfReply
  <2>2. TRUE \in BOOLEAN
    OBVIOUS
  <2>3. Shape(<<e>>, TRUE, ord)
    BY <2>1, <2>2, Zenon
  <2>4. <<e>> \in Seq(Event)
    OBVIOUS
  <2> QED
    BY <2>3, <2>4
<1>2. ASSUME NEW k \in {"content", "reasoning"} PROVE Pieces(<<e>>, k) = <<>>
  <2>1. <<>> \in Seq(Event) /\ <<>> \o <<e>> = <<e>>
    BY EmptySeq
  <2>2. Pieces(<<>> \o <<e>>, k) = <<>> \o Own(e, k)
    BY <2>1, PiecesOfAppend, PiecesOfNone
  <2>3. Own(e, k) = <<>>
    BY DEF Own, Status
  <2> QED
    BY <2>1, <2>2, <2>3, CleanEmpty, ConcatEmptySeq DEF Text
<1>3. <<e>>[Len(<<e>>)].kind # "finish"
  BY DEF Status
<1> QED
  BY <1>1, <1>2, <1>3

\* What a step that ends the request has to show.
LEMMA EndStep ==
    ASSUME IInv, pc # "done", pc' = "done", UNCHANGED <<mode, answer, rewrites, raw, trackers>>,
           pos' \in Nat, attempts' \in 0..RetryAttempts,
           rows' \in {<<>>, <<"200">>, <<"502">>}, wire' \in Seq(Event),
           Shape(wire', TRUE, ThinksFirst), AnswerDelivered',
           \A w \in Words : Once(w, Pieces(wire', "content")) /\ Once(w, Pieces(wire', "reasoning"))
    PROVE  IInv'
<1> USE DEF trackers
<1>1. TypeOK'
  BY DEF IInv, TypeOK
<1>2. Control'
  BY DEF IInv, Control
<1>3. GateFollows' /\ Traced'
  BY DEF IInv, GateFollows, Traced
<1>4. Exhausted'
  BY DEF IInv, Exhausted
<1>5. Latest'
  BY DEF IInv, Latest, Cumulative
<1>6. WireLined' /\ WireText'
  BY DEF WireLined, WireText
<1>7. StreamShape'
  BY DEF StreamShape, Shape, ThinksFirst
<1>8. NothingTwice'
  <2>1. ASSUME NEW w \in Words, NEW k \in {"content", "reasoning"}
        PROVE  Cardinality({i \in DOMAIN Pieces(wire', k) : Pieces(wire', k)[i] = w}) <= 1
    <3>1. Pieces(wire', k) \in Text /\ Once(w, Pieces(wire', k))
      BY PiecesAre
    <3> QED
      BY <3>1, OnceCounts
  <2> QED
    BY <2>1 DEF NothingTwice, Delivered
<1> QED
  BY <1>1, <1>2, <1>3, <1>4, <1>5, <1>6, <1>7, <1>8 DEF IInv, AtTheEnd

\* A reply of one event ends a request well.
LEMMA ShortStep ==
    ASSUME IInv, pc # "done", pc' = "done", UNCHANGED <<mode, answer, rewrites, raw, trackers>>,
           pos' \in Nat, attempts' \in 0..RetryAttempts,
           rows' \in {<<>>, <<"200">>, <<"502">>},
           NEW e \in Event, e.kind \in Status \cup {"json"}, wire' = <<e>>
    PROVE  IInv'
<1>1. /\ <<e>> \in Seq(Event) /\ Shape(<<e>>, TRUE, ThinksFirst)
      /\ Pieces(<<e>>, "content") = <<>> /\ Pieces(<<e>>, "reasoning") = <<>>
      /\ <<e>>[Len(<<e>>)].kind # "finish"
  BY ShortReply, ThinksFirstType
<1>2. AnswerDelivered'
  BY <1>1 DEF AnswerDelivered, Finished
<1>3. \A w \in Words : Once(w, Pieces(wire', "content")) /\ Once(w, Pieces(wire', "reasoning"))
  BY <1>1 DEF Once
<1> QED
  BY <1>1, <1>2, <1>3, EndStep

\* A failure ends a request well: an event in a stream, a status where there is none.
LEMMA FailStep ==
    ASSUME IInv, pc # "done", NEW status \in Status, Fail(status),
           UNCHANGED <<mode, answer, rewrites, raw, trackers>>,
           pos' \in Nat, attempts' \in 0..RetryAttempts
    PROVE  IInv'
<1>1. pc' = "done" /\ rows' = <<"502">>
  BY DEF Fail, IInv, Control
<1>2. CASE wire = <<>>
  <2> DEFINE e == [kind |-> status, text |-> <<>>]
  <2>1. wire' = <<e>>
    BY <1>2 DEF Fail, FailureReply, event
  <2>2. e \in Event /\ e.kind \in Status
    BY CleanEmpty DEF Event, Kind
  <2> HIDE DEF e
  <2> QED
    BY <1>1, <2>1, <2>2, ShortStep
<1>3. CASE wire # <<>>
  <2> DEFINE v == wire \o event("error")
             ord == ThinksFirst
  <2>1. wire' = v
    BY <1>3 DEF Fail, FailureReply
  <2>2. ord \in BOOLEAN
    BY ThinksFirstType
  <2>3. Track(wire, 3, ord, sentText, emittedReasoning)
    BY <1>3, BaseIs DEF IInv
  <2> HIDE DEF ord
  <2>4. Track(v, 6, ord, sentText, emittedReasoning) /\ v # <<>> /\ v[Len(v)].kind = "error"
    BY <2>2, <2>3, TrackEnd
  <2> HIDE DEF v
  <2>5. /\ v \in Seq(Event) /\ Lined(v, 6, ord)
        /\ Pieces(v, "content") = sentText /\ Pieces(v, "reasoning") = emittedReasoning
    BY <2>4 DEF Track
  <2>6. Shape(v, TRUE, ord)
    BY <2>2, <2>4, <2>5, ShapeOfStream, RankIs
  <2>7. AnswerDelivered'
    BY <2>1, <2>4 DEF AnswerDelivered, Finished
  <2>8. ASSUME NEW w \in Words
        PROVE  Once(w, Pieces(wire', "content")) /\ Once(w, Pieces(wire', "reasoning"))
    BY <2>1, <2>5, KnownOnce DEF IInv
  <2> QED
    BY <1>1, <2>1, <2>5, <2>6, <2>7, <2>8, EndStep DEF ord
<1> QED
  BY <1>2, <1>3

-----------------------------------------------------------------------------
(* The invariant *)

\* The invariant holds at the start.
LEMMA InitHolds == Init => IInv
<1> SUFFICES ASSUME Init PROVE IInv
  OBVIOUS
<1> USE DEF Init
<1>1. TypeOK
  BY NewGate, CleanEmpty, EmptySeq, StreamBounds DEF TypeOK
<1>2. Control
  BY StreamBounds DEF Control
<1>3. GateFollows
  BY NewGate DEF GateFollows
<1>4. Traced /\ Exhausted /\ Latest
  <2>1. DOMAIN raw = {}
    OBVIOUS
  <2> QED
    BY <2>1 DEF Traced, Exhausted, Latest
<1>5. WireLined /\ AtTheEnd
  BY DEF WireLined, AtTheEnd
<1>6. WireText
  BY PiecesOfNone DEF WireText, Delivered, sentText, newToolFenceGate
<1> QED
  BY <1>1, <1>2, <1>3, <1>4, <1>5, <1>6 DEF IInv

\* Steps that leave the frames and the trackers alone.
LEMMA QuietStep ==
    ASSUME IInv, UNCHANGED <<mode, answer, pos, rewrites, attempts, rows, raw, trackers>>,
           pc # "done", pc' \in {"calling", "reading"}, pc = "reading" => pc' = "reading",
           wire' \in Seq(Event), ~mode.stream => wire' = <<>>, WireLined', WireText'
    PROVE  IInv'
<1> USE DEF trackers
<1>1. TypeOK'
  BY DEF IInv, TypeOK
<1>2. Control'
  <2>1. pc' = "calling" => pc \in {"start", "calling"}
    BY DEF IInv, TypeOK
  <2> QED
    BY <2>1 DEF IInv, Control
<1>3. GateFollows' /\ Traced'
  BY DEF IInv, GateFollows, Traced
<1>4. Exhausted'
  BY DEF IInv, Exhausted
<1>5. Latest'
  BY DEF IInv, Latest, Cumulative
<1>6. AtTheEnd'
  BY DEF AtTheEnd
<1> QED
  BY <1>1, <1>2, <1>3, <1>4, <1>5, <1>6 DEF IInv

\* The stream is open, and nothing else.
LEMMA OpenIs ==
    ASSUME NEW ord \in BOOLEAN
    PROVE  /\ event("open") \in Seq(Event)
           /\ Lined(event("open"), 2, ord) /\ Lined(event("open"), 3, ord)
           /\ Pieces(event("open"), "content") = <<>>
           /\ Pieces(event("open"), "reasoning") = <<>>
<1> DEFINE w == event("open")
<1>1. Track(w, 1, ord, <<>>, <<>>)
  BY TrackOpen
<1> HIDE DEF w
<1>2. Track(w, 2, ord, <<>>, <<>>) /\ Track(w, 3, ord, <<>>, <<>>)
  BY <1>1, TrackWeaker
<1> QED
  BY <1>2 DEF Track, w

\* A request that is not understood gets a 400.
LEMMA badRequestKeeps == IInv /\ badRequest => IInv'
<1> SUFFICES ASSUME IInv, badRequest PROVE IInv'
  OBVIOUS
<1> DEFINE e == [kind |-> "400", text |-> <<>>]
<1>1. e \in Event /\ e.kind \in Status /\ wire' = <<e>>
  BY CleanEmpty DEF Event, Kind, Status, badRequest, event
<1>2. /\ pc # "done" /\ pc' = "done" /\ UNCHANGED <<mode, answer, rewrites, raw, trackers>>
      /\ pos' \in Nat /\ attempts' \in 0..RetryAttempts
      /\ rows' \in {<<>>, <<"200">>, <<"502">>}
  BY DEF badRequest, upstream, IInv, TypeOK
<1> HIDE DEF e
<1> QED
  BY <1>1, <1>2, ShortStep

\* The headers of /v1/responses open the stream.
LEMMA acceptKeeps == IInv /\ accept => IInv'
<1> SUFFICES ASSUME IInv, accept PROVE IInv'
  OBVIOUS
<1> USE DEF accept, trackers
<1>1. /\ pc = "start" /\ wire = <<>> /\ emitted = <<>> /\ emittedReasoning = <<>>
      /\ wire \in Seq(Event)
  BY DEF IInv, TypeOK, Control
<1>2. sentText = <<>> /\ Pieces(<<>>, "content") = <<>> /\ Pieces(<<>>, "reasoning") = <<>>
  BY <1>1, PiecesOfNone DEF IInv, WireText, Delivered
<1>3. ThinksFirst' \in BOOLEAN
  BY DEF ThinksFirst
<1>4. wire' = wire \/ wire' = event("open")
  OBVIOUS
<1>5. WireLined'
  <2>1. CASE wire' = wire
    BY <1>1, <2>1 DEF WireLined
  <2>2. CASE wire' = event("open")
    BY <1>3, <2>2, OpenIs DEF WireLined
  <2> QED
    BY <1>4, <2>1, <2>2
<1>6. WireText'
  <2>1. sentText' = <<>> /\ emittedReasoning' = <<>>
    BY <1>1, <1>2 DEF sentText
  <2>2. Pieces(wire', "content") = <<>> /\ Pieces(wire', "reasoning") = <<>>
    BY <1>1, <1>2, <1>3, <1>4, OpenIs
  <2> QED
    BY <2>1, <2>2 DEF WireText, Delivered
<1>7. wire' \in Seq(Event)
  BY <1>1, <1>3, <1>4, OpenIs
<1> QED
  BY <1>1, <1>5, <1>6, <1>7, QuietStep DEF upstream

\* A refusal before the first attempt is a failure.
LEMMA refusedKeeps ==
    ASSUME IInv, NEW status \in Status, refused(status)
    PROVE  IInv'
  BY FailStep DEF refused, upstream, IInv, TypeOK

\* An attempt begins with nothing read.
LEMMA startAttemptKeeps == IInv /\ startAttempt => IInv'
<1> SUFFICES ASSUME IInv, startAttempt PROVE IInv'
  OBVIOUS
<1> USE DEF startAttempt, trackers, upstream
<1>1. wire' \in Seq(Event) /\ (~mode.stream => wire' = <<>>)
  BY DEF IInv, TypeOK, Control
<1>2. WireLined'
  BY DEF IInv, WireLined, ThinksFirst
<1>3. WireText'
  BY DEF IInv, WireText, Delivered, sentText
<1> QED
  BY <1>1, <1>2, <1>3, QuietStep

\* An attempt that let nothing through is forgotten; any other one ends the request.
LEMMA attemptFailsKeeps == IInv /\ attemptFails => IInv'
<1> SUFFICES ASSUME IInv, attemptFails PROVE IInv'
  OBVIOUS
<1>1. /\ pc = "reading" /\ attempts \in Nat /\ attempts' = attempts + 1
      /\ attempts < RetryAttempts /\ RetryAttempts \in Nat
  BY StreamBounds DEF attemptFails, IInv, Control, TypeOK
<1>2. attempts' \in 0..RetryAttempts
  BY <1>1
<1>3. CASE emitted # <<>> \/ emittedReasoning # <<>> \/ attempts' = RetryAttempts
  <2>1. /\ Fail("502") /\ "502" \in Status
        /\ UNCHANGED <<mode, answer, rewrites, raw, trackers>>
    BY <1>3 DEF attemptFails, Status
  <2>2. pos' \in Nat
    BY <1>3 DEF attemptFails, IInv, TypeOK
  <2> QED
    BY <1>1, <1>2, <2>1, <2>2, FailStep
<1>4. CASE ~(emitted # <<>> \/ emittedReasoning # <<>> \/ attempts' = RetryAttempts)
  <2> USE DEF trackers
  <2>1. /\ emitted = <<>> /\ emittedReasoning = <<>> /\ attempts' < RetryAttempts
        /\ raw' = <<>> /\ pos' = 0 /\ pc' = "calling"
        /\ UNCHANGED <<mode, answer, rewrites, emitted, emittedReasoning, gate, wire, rows>>
    BY <1>1, <1>4 DEF attemptFails
  <2>2. TypeOK'
    BY <1>2, <2>1, EmptySeq DEF IInv, TypeOK
  <2>3. Control'
    BY <1>1, <2>1 DEF IInv, Control
  <2>4. GateFollows'
    BY <2>1 DEF IInv, GateFollows
  <2>5. Traced' /\ Exhausted' /\ Latest'
    <3>1. DOMAIN raw' = {}
      BY <2>1
    <3> QED
      BY <2>1, <3>1 DEF Traced, Exhausted, Latest
  <2>6. WireLined'
    <3>1. ThinksFirst' \in BOOLEAN
      BY DEF ThinksFirst
    <3>2. wire # <<>> => wire = event("open")
      BY <1>1, <2>1 DEF IInv, WireLined
    <3> QED
      BY <2>1, <3>1, <3>2, OpenIs DEF WireLined
  <2>7. WireText' /\ AtTheEnd'
    BY <1>1, <2>1 DEF IInv, WireText, Delivered, sentText, AtTheEnd
  <2> QED
    BY <2>2, <2>3, <2>4, <2>5, <2>6, <2>7 DEF IInv
<1> QED
  BY <1>3, <1>4

-----------------------------------------------------------------------------
(* A frame arrives *)

\* What forward sends of a frame.
ThoughtOf(f) == IF mode.api = "chat" THEN deltaOf(emittedReasoning, f.think) ELSE <<>>
NewOf(f) == deltaOf(emitted, f.text)
ContentOf(f) ==
    IF mode.tools THEN From(gatePush(gate, NewOf(f)).sent, Len(gate.sent) + 1) ELSE NewOf(f)

\* A concatenation is empty only if its parts are.
LEMMA EmptyConcat ==
    ASSUME NEW s \in Text, NEW t \in Text, s \o t = <<>>
    PROVE  s = <<>> /\ t = <<>>
<1>1. Len(s) \in Nat /\ Len(t) \in Nat /\ Len(s \o t) = Len(s) + Len(t)
  BY ConcatIs DEF Text
<1>2. Len(s \o t) = 0
  BY EmptySeq
<1>3. Len(s) = 0 /\ Len(t) = 0
  BY <1>1, <1>2
<1> QED
  BY <1>3, EmptySeq DEF Text

\* A text that continues what was let through is let through.
LEMMA ContinuedIs ==
    ASSUME NEW s \in Text, NEW t \in Text, IsPrefix(s, cleanGeminiText(t))
    PROVE  s \o deltaOf(s, t) = cleanGeminiText(t)
<1> DEFINE c == cleanGeminiText(t)
<1>1. c \in Text /\ s \o deltaOf(s, t) = IF Extends(s, t) THEN c ELSE s
  BY CleanType, DeltaIs
<1>2. CASE Extends(s, t)
  BY <1>1, <1>2
<1>3. CASE ~Extends(s, t)
  <2>1. ~(Len(c) > Len(s))
    BY <1>3 DEF Extends
  <2> HIDE DEF c
  <2>2. Len(c) \in Nat /\ Len(s) \in Nat
    BY <1>1, LenProperties DEF Text
  <2>3. IsPrefix(s, c) /\ Len(s) >= Len(c)
    BY <2>1, <2>2 DEF c
  <2>4. s = c
    BY <1>1, <2>3, PrefixOrder DEF Text
  <2> QED
    BY <1>1, <1>3, <2>4 DEF c
<1> QED
  BY <1>2, <1>3

\* What forward adds to what was let through and sent.
LEMMA ForwardIs ==
    ASSUME IInv, mode.stream, NEW f \in Frame
    PROVE  /\ ThoughtOf(f) \in Text /\ emittedReasoning \o ThoughtOf(f) \in Text
           /\ NewOf(f) \in Text /\ emitted \o NewOf(f) \in Text
           /\ ContentOf(f) \in Text
           /\ sentText \o ContentOf(f)
                = IF mode.tools THEN gatePush(gate, NewOf(f)).sent ELSE emitted \o NewOf(f)
           /\ NewOf(f) = <<>> => ContentOf(f) = <<>>
<1>1. /\ f.think \in Text /\ f.text \in Text /\ emitted \in Text
      /\ emittedReasoning \in Text /\ gate \in Gate /\ <<>> \in Text
  BY CleanEmpty DEF IInv, TypeOK, Frame
<1>2. ThoughtOf(f) \in Text /\ emittedReasoning \o ThoughtOf(f) \in Text
  <2>1. emittedReasoning \o <<>> \in Text
    BY <1>1, ConcatEmptySeq DEF Text
  <2> QED
    BY <1>1, <2>1, DeltaIs DEF ThoughtOf
<1>3. NewOf(f) \in Text /\ emitted \o NewOf(f) \in Text
  BY <1>1, DeltaIs DEF NewOf
<1> DEFINE delta == NewOf(f)
<1> HIDE DEF delta
<1>4. CASE mode.tools
  <2> DEFINE rest == From(gatePush(gate, delta).sent, Len(gate.sent) + 1)
  <2>1. ContentOf(f) = rest
    BY <1>4 DEF ContentOf, delta
  <2>2. rest \in Text /\ gate.sent \o rest = gatePush(gate, delta).sent
    BY <1>1, <1>3, PassedIs DEF delta
  <2>3. ASSUME delta = <<>> PROVE rest = <<>>
    <3>1. gate = gatePush(newToolFenceGate, emitted)
      BY <1>4 DEF IInv, GateFollows
    <3>2. gatePush(gate, <<>>) = gatePush(newToolFenceGate, emitted \o <<>>)
      BY <1>1, <3>1, PushMore
    <3>3. emitted \o <<>> = emitted
      BY <1>1, ConcatEmptySeq DEF Text
    <3>4. gatePush(gate, <<>>) = gate
      BY <3>1, <3>2, <3>3
    <3>5. gate.sent \o rest = gate.sent
      BY <2>2, <2>3, <3>4
    <3>6. gate.sent \in Text
      BY <1>1 DEF Gate
    <3> HIDE DEF rest
    <3>7. /\ Len(gate.sent) \in Nat /\ Len(rest) \in Nat
          /\ Len(gate.sent \o rest) = Len(gate.sent) + Len(rest)
      BY <2>2, <3>6, ConcatIs DEF Text
    <3>8. Len(rest) = 0
      BY <3>5, <3>7
    <3> QED
      BY <2>2, <3>8, EmptySeq DEF Text
  <2> QED
    BY <1>2, <1>3, <1>4, <2>1, <2>2, <2>3 DEF sentText, delta
<1>5. CASE ~mode.tools
  BY <1>2, <1>3, <1>5 DEF ContentOf, sentText
<1> QED
  BY <1>4, <1>5

\* A chunk is sent if there is a text for it.
LEMMA ChunkNone ==
    ASSUME NEW kind \in Kind, NEW t \in Text
    PROVE  (chunk(kind, t) = <<>> <=> t = <<>>) /\ chunk(kind, t) \in Seq(Event)
<1> DEFINE e == [kind |-> kind, text |-> t]
<1>1. /\ t = <<>> => chunk(kind, t) = <<>>
      /\ t # <<>> => chunk(kind, t) = <<e>>
      /\ chunk(kind, t) \in Seq(Event)
  BY ChunkIs
<1> HIDE DEF e
<1>2. <<e>> # <<>>
  OBVIOUS
<1> QED
  BY <1>1, <1>2

\* The stream goes on, in order if the upstream thinks first.
LEMMA ForwardWire ==
    ASSUME IInv, pc = "reading", mode.stream, NEW f \in Frame, NEW ord \in BOOLEAN,
           ord => ThinksFirst,
           ord => \A i \in 1..Len(raw) : raw[i].text # <<>> => f.think = raw[i].think
    PROVE  LET w == Sent(chunk("reasoning", ThoughtOf(f)) \o chunk("content", ContentOf(f)))
           IN /\ w \in Seq(Event)
              /\ Pieces(w, "content") = sentText \o ContentOf(f)
              /\ Pieces(w, "reasoning") = emittedReasoning \o ThoughtOf(f)
              /\ w # <<>> =>
                    /\ Lined(w, 3, ord)
                    /\ emitted \o NewOf(f) = <<>> => Lined(w, 2, ord)
                    /\ emitted \o NewOf(f) = <<>> /\ emittedReasoning \o ThoughtOf(f) = <<>>
                           => w = event("open")
<1> DEFINE b == IF wire = <<>> THEN event("open") ELSE wire
           thought == ThoughtOf(f)
           content == ContentOf(f)
           R == chunk("reasoning", thought)
           C == chunk("content", content)
           w == Sent(R \o C)
           Good(v) == /\ v \in Seq(Event)
                      /\ Pieces(v, "content") = sentText \o content
                      /\ Pieces(v, "reasoning") = emittedReasoning \o thought
                      /\ v # <<>> =>
                            /\ Lined(v, 3, ord)
                            /\ emitted \o NewOf(f) = <<>> => Lined(v, 2, ord)
                            /\ emitted \o NewOf(f) = <<>> /\ emittedReasoning \o thought = <<>>
                                   => v = event("open")
<1>1. /\ thought \in Text /\ content \in Text /\ NewOf(f) \in Text
      /\ NewOf(f) = <<>> => content = <<>>
      /\ sentText \in Text /\ emitted \in Text /\ emittedReasoning \in Text
  BY ForwardIs, SentTextType DEF IInv
<1>2. "content" \in Kind /\ "reasoning" \in Kind
  BY DEF Kind
<1>3. /\ R = <<>> <=> thought = <<>>
      /\ C = <<>> <=> content = <<>>
      /\ R \in Seq(Event) /\ C \in Seq(Event)
  <2> HIDE DEF thought, content
  <2> QED
    BY <1>1, <1>2, ChunkNone
<1>4. ThinksFirst \in BOOLEAN
  BY ThinksFirstType
<1>5. /\ Track(b, 3, ThinksFirst, sentText, emittedReasoning)
      /\ emitted = <<>> => Track(b, 2, ThinksFirst, sentText, emittedReasoning)
  BY BaseIs DEF IInv
<1>6. ASSUME emitted \o NewOf(f) = <<>>
      PROVE  emitted = <<>> /\ content = <<>>
  BY <1>1, <1>6, EmptyConcat
<1>7. ASSUME emittedReasoning \o thought = <<>>
      PROVE  emittedReasoning = <<>> /\ thought = <<>>
  <2> HIDE DEF thought
  <2> QED
    BY <1>1, <1>7, EmptyConcat
<1>8. CASE R \o C = <<>>
  <2>1. thought = <<>> /\ content = <<>>
    <3> HIDE DEF R, C, thought, content
    <3>3. Len(R) \in Nat /\ Len(C) \in Nat /\ Len(R \o C) = Len(R) + Len(C) /\ Len(R \o C) = 0
      BY <1>3, <1>8, ConcatIs, EmptySeq
    <3>4. R = <<>> /\ C = <<>>
      <4>1. Len(R) = 0 /\ Len(C) = 0
        BY <3>3
      <4> QED
        BY <1>3, <4>1, EmptySeq
    <3> QED
      BY <1>3, <3>4
  <2>2. w = wire
    BY <1>8 DEF Sent
  <2>3. sentText \o content = sentText /\ emittedReasoning \o thought = emittedReasoning
    BY <1>1, <2>1, ConcatEmptySeq DEF Text
  <2>4. /\ wire \in Seq(Event)
        /\ Pieces(wire, "content") = sentText /\ Pieces(wire, "reasoning") = emittedReasoning
    BY DEF IInv, TypeOK, WireText, Delivered
  <2>5. ASSUME wire # <<>> PROVE /\ Lined(wire, 3, ord)
                                 /\ emitted = <<>> => Lined(wire, 2, ord)
                                 /\ emitted = <<>> /\ emittedReasoning = <<>>
                                        => wire = event("open")
    <3>1. /\ Lined(wire, 3, ThinksFirst)
          /\ emitted = <<>> => Lined(wire, 2, ThinksFirst)
          /\ emitted = <<>> /\ emittedReasoning = <<>> => wire = event("open")
      BY <2>5 DEF IInv, WireLined
    <3> QED
      BY <1>4, <2>4, <3>1, LinedWeaker
  <2>6. Good(wire)
    BY <1>6, <1>7, <2>3, <2>4, <2>5
  <2> QED
    BY <2>2, <2>6
<1>9. CASE R \o C # <<>>
  <2> HIDE DEF b, thought, content
  <2>1. w = (b \o R) \o C
    <3>1. w = b \o (R \o C)
      BY <1>9 DEF Sent, b
    <3>2. b \in Seq(Event)
      BY <1>5 DEF Track
    <3> HIDE DEF R, C
    <3>3. (b \o R) \o C = b \o (R \o C)
      BY <1>3, <3>2, ConcatEvents, Zenon
    <3> QED
      BY <3>1, <3>3, Zenon
  <2> DEFINE v == (b \o R) \o C
  <2>2. CASE emitted = <<>>
    <3>1. Track(b, 2, ord, sentText, emittedReasoning)
      BY <1>4, <1>5, <2>2, TrackWeaker
    <3>2. Track(b \o R, 2, ord, sentText, emittedReasoning \o thought)
      BY <1>1, <3>1, TrackReasoning
    <3> DEFINE u == b \o R
               r == emittedReasoning \o thought
    <3>3. Track(u, 2, ord, sentText, r) /\ r \in Text
      BY <1>1, <3>2, ForwardIs DEF thought
    <3> HIDE DEF u, r
    <3>4. Track(u \o C, IF content = <<>> THEN 2 ELSE 3, ord, sentText \o content, r)
      BY <1>1, <3>3, TrackContent
    <3>5. Track(u \o C, 3, ord, sentText \o content, r)
      <4>1. CASE content = <<>>
        <5>1. Track(u \o C, 2, ord, sentText \o content, r)
          BY <3>4, <4>1
        <5> HIDE DEF C
        <5> QED
          BY <5>1, TrackWeaker
      <4>2. CASE content # <<>>
        BY <3>4, <4>2
      <4> QED
        BY <4>1, <4>2
    <3>6. emitted \o NewOf(f) = <<>> => Lined(u \o C, 2, ord)
      BY <1>6, <3>4 DEF Track
    <3>7. ~(emitted \o NewOf(f) = <<>> /\ r = <<>>)
      <4> SUFFICES ASSUME emitted \o NewOf(f) = <<>>, r = <<>> PROVE FALSE
        OBVIOUS
      <4>1. content = <<>> /\ thought = <<>>
        BY <1>6, <1>7 DEF r
      <4>2. R = <<>> /\ C = <<>>
        BY <1>3, <4>1
      <4>3. <<>> \o <<>> = <<>>
        OBVIOUS
      <4> QED
        BY <1>9, <4>2, <4>3
    <3>8. Good(u \o C)
      BY <3>5, <3>6, <3>7 DEF Track, r
    <3> QED
      BY <2>1, <3>8 DEF u, thought, content
  <2>3. CASE emitted # <<>>
    <3>1. Track(b, 3, ord, sentText, emittedReasoning)
      BY <1>4, <1>5, TrackWeaker
    <3>2. ~(thought # <<>> /\ ord)
      <4> SUFFICES ASSUME thought # <<>>, ord PROVE FALSE
        OBVIOUS
      <4>1. PICK i \in 1..Len(raw) : emitted = cleanGeminiText(raw[i].text)
        BY <2>3, RawIs DEF IInv, Traced
      <4>2. raw[i].text # <<>>
        BY <2>3, <4>1, CleanEmpty
      <4>3. f.think = raw[i].think
        BY <4>2
      <4>4. mode.api = "chat" /\ Extends(emittedReasoning, f.think)
        BY DEF thought, ThoughtOf, deltaOf
      <4> QED
        BY <4>3, <4>4, RawIs DEF IInv, Exhausted
    <3>3. Track(b \o R, 3, ord, sentText, emittedReasoning \o thought)
      BY <1>1, <3>1, <3>2, TrackReasoning
    <3> DEFINE u == b \o R
               r == emittedReasoning \o thought
    <3>4. Track(u, 3, ord, sentText, r) /\ r \in Text
      BY <1>1, <3>3, ForwardIs DEF thought
    <3> HIDE DEF u, r
    <3>5. Track(u \o C, IF content = <<>> THEN 3 ELSE 3, ord, sentText \o content, r)
      BY <1>1, <3>4, TrackContent
    <3>6. Track(u \o C, 3, ord, sentText \o content, r)
      BY <3>5
    <3>7. emitted \o NewOf(f) # <<>>
      BY <1>6, <2>3
    <3>8. Good(u \o C)
      BY <3>6, <3>7 DEF Track, r
    <3> QED
      BY <2>1, <3>8 DEF u, thought, content
  <2> QED
    BY <2>2, <2>3
<1> QED
  BY <1>8, <1>9

\* The frames with one more.
LEMMA RawMore ==
    ASSUME TypeOK, NEW f \in Frame, raw' = Append(raw, f)
    PROVE  /\ raw' \in Seq(Frame) /\ raw' # <<>> /\ Last(raw') = f
           /\ Len(raw) \in Nat /\ Len(raw') = Len(raw) + 1
           /\ DOMAIN raw = 1..Len(raw) /\ DOMAIN raw' = 1..Len(raw) + 1
           /\ \A i \in 1..Len(raw) : raw'[i] = raw[i] /\ i \in 1..Len(raw) + 1
           /\ Len(raw) + 1 \in 1..Len(raw) + 1 /\ raw'[Len(raw) + 1] = f
<1>1. raw \in Seq(Frame) /\ Len(raw) \in Nat /\ DOMAIN raw = 1..Len(raw)
  BY RawIs DEF TypeOK
<1>2. /\ raw' \in Seq(Frame) /\ Len(raw') = Len(raw) + 1
      /\ \A i \in 1..Len(raw) : raw'[i] = raw[i]
      /\ raw'[Len(raw) + 1] = f
  BY <1>1, AppendProperties
<1>3. DOMAIN raw' = 1..Len(raw) + 1
  BY <1>2, LenProperties
<1>4. raw' # <<>> /\ Last(raw') = f
  <2>1. Len(raw') # 0
    BY <1>1, <1>2
  <2> QED
    BY <1>2, <2>1, EmptySeq DEF Last
<1> QED
  BY <1>1, <1>2, <1>3, <1>4

\* What is true of the frames alone when one more comes.
LEMMA FramesMore ==
    ASSUME IInv, NEW a \in Answers, NEW p \in 1..size(a), raw' = Append(raw, frameOf(a, p))
    PROVE  /\ \A i \in DOMAIN raw' : \E x \in Answers : \E q \in 1..size(x) :
                  raw'[i] = frameOf(x, q)
           /\ ThinksFirst' \in BOOLEAN /\ (ThinksFirst' => ThinksFirst)
           /\ ThinksFirst' => \A i \in 1..Len(raw) :
                  raw[i].text # <<>> => frameOf(a, p).think = raw[i].think
           /\ Cumulative' => Cumulative
           /\ Cumulative' => \A i \in 1..Len(raw) :
                  /\ IsPrefix(cleanGeminiText(raw[i].text), cleanGeminiText(frameOf(a, p).text))
                  /\ IsPrefix(cleanGeminiText(raw[i].think),
                              cleanGeminiText(frameOf(a, p).think))
<1> DEFINE f == frameOf(a, p)
           n == Len(raw)
<1>1. f \in Frame
  BY FrameIs
<1> HIDE DEF f
<1>2. /\ n \in Nat /\ DOMAIN raw = 1..n /\ DOMAIN raw' = 1..n + 1
      /\ \A i \in 1..n : raw'[i] = raw[i] /\ i \in 1..n + 1
      /\ n + 1 \in 1..n + 1 /\ raw'[n + 1] = f
  BY <1>1, RawMore DEF f, IInv
<1> HIDE DEF n
<1>3. \A i \in 1..n : i < n + 1
  BY <1>2
<1>4. ASSUME NEW i \in DOMAIN raw'
      PROVE  \E x \in Answers : \E q \in 1..size(x) : raw'[i] = frameOf(x, q)
  <2>1. CASE i \in 1..n
    BY <1>2, <2>1 DEF IInv, Traced
  <2>2. CASE i \notin 1..n
    <3>1. i = n + 1
      BY <1>2, <2>2
    <3> QED
      BY <1>2, <3>1 DEF f
  <2> QED
    BY <2>1, <2>2
<1>5. ThinksFirst' \in BOOLEAN
  BY DEF ThinksFirst
<1>6. ThinksFirst' => ThinksFirst
  BY <1>2 DEF ThinksFirst
<1>7. ASSUME ThinksFirst', NEW i \in 1..n, raw[i].text # <<>>
      PROVE  f.think = raw[i].think
  BY <1>2, <1>3, <1>7 DEF ThinksFirst
<1>8. Cumulative' => Cumulative
  BY <1>2 DEF Cumulative
<1>9. ASSUME Cumulative', NEW i \in 1..n
      PROVE  /\ IsPrefix(cleanGeminiText(raw[i].text), cleanGeminiText(f.text))
             /\ IsPrefix(cleanGeminiText(raw[i].think), cleanGeminiText(f.think))
  BY <1>2, <1>3, <1>9 DEF Cumulative
<1> QED
  BY <1>4, <1>5, <1>6, <1>7, <1>8, <1>9 DEF f, n

\* No past frame and not this one has more reasoning to give.
LEMMA ExhaustedMore ==
    ASSUME IInv, mode.stream, mode.api = "chat", NEW f \in Frame, raw' = Append(raw, f)
    PROVE  \A i \in DOMAIN raw' :
               ~Extends(emittedReasoning \o ThoughtOf(f), raw'[i].think)
<1> DEFINE r == emittedReasoning \o ThoughtOf(f)
<1>1. /\ ThoughtOf(f) = deltaOf(emittedReasoning, f.think) /\ ThoughtOf(f) \in Text
      /\ r \in Text /\ emittedReasoning \in Text /\ f.think \in Text
  BY ForwardIs DEF ThoughtOf, IInv, TypeOK, Frame
<1>2. r = IF Extends(emittedReasoning, f.think) THEN cleanGeminiText(f.think)
                                                ELSE emittedReasoning
  BY <1>1, DeltaIs
<1>3. IsPrefix(emittedReasoning, r)
  BY <1>1, PrefixOfConcat DEF Text
<1> HIDE DEF r
<1>4. ~Extends(r, f.think)
  <2>1. CASE Extends(emittedReasoning, f.think)
    <3>1. r = cleanGeminiText(f.think) /\ Len(r) \in Nat
      BY <1>1, <1>2, <2>1, LenProperties DEF Text
    <3>2. ~(Len(r) > Len(r))
      BY <3>1
    <3> QED
      BY <3>1, <3>2 DEF Extends
  <2>2. CASE ~Extends(emittedReasoning, f.think)
    BY <1>2, <2>2
  <2> QED
    BY <2>1, <2>2
<1>5. ASSUME NEW i \in 1..Len(raw) PROVE ~Extends(r, raw[i].think)
  <2>1. ~Extends(emittedReasoning, raw[i].think) /\ raw[i].think \in Text
    BY RawIs DEF IInv, Exhausted
  <2> QED
    BY <1>1, <1>3, <2>1, ExtendsNoMore
<1>6. ASSUME NEW i \in DOMAIN raw' PROVE ~Extends(r, raw'[i].think)
  <2>1. /\ i \in 1..Len(raw) + 1 /\ Len(raw) \in Nat /\ raw'[Len(raw) + 1] = f
        /\ \A k \in 1..Len(raw) : raw'[k] = raw[k]
    BY RawMore DEF IInv
  <2>2. CASE i \in 1..Len(raw)
    BY <1>5, <2>1, <2>2
  <2>3. CASE i \notin 1..Len(raw)
    <3>1. i = Len(raw) + 1
      BY <2>1, <2>3
    <3> QED
      BY <1>4, <2>1, <3>1
  <2> QED
    BY <2>2, <2>3
<1> QED
  BY <1>6 DEF r

\* What was let through of frames that continue each other, the last one continues.
LEMMA LatestMore ==
    ASSUME IInv, mode.stream, NEW f \in Frame, Cumulative,
           \A i \in 1..Len(raw) :
               /\ IsPrefix(cleanGeminiText(raw[i].text), cleanGeminiText(f.text))
               /\ IsPrefix(cleanGeminiText(raw[i].think), cleanGeminiText(f.think))
    PROVE  /\ emitted \o NewOf(f) = cleanGeminiText(f.text)
           /\ mode.api = "chat" =>
                  emittedReasoning \o ThoughtOf(f) = cleanGeminiText(f.think)
<1>1. /\ f.text \in Text /\ f.think \in Text /\ emitted \in Text
      /\ emittedReasoning \in Text
      /\ cleanGeminiText(f.text) \in Text /\ cleanGeminiText(f.think) \in Text
  BY CleanType DEF IInv, TypeOK, Frame
<1>2. \A t \in Text : IsPrefix(<<>>, t)
  <2>1. ASSUME NEW t \in Text PROVE IsPrefix(<<>>, t)
    <3>1. <<>> \in Text /\ <<>> \o t = t
      BY CleanEmpty, ConcatEmptySeq DEF Text
    <3>2. IsPrefix(<<>>, <<>> \o t)
      BY <3>1, PrefixOfConcat DEF Text
    <3> QED
      BY <3>1, <3>2
  <2> QED
    BY <2>1
<1>3. /\ IsPrefix(emitted, cleanGeminiText(f.text))
      /\ mode.api = "chat" => IsPrefix(emittedReasoning, cleanGeminiText(f.think))
  <2>1. CASE raw = <<>>
    <3>1. DOMAIN raw = {}
      BY <2>1
    <3>2. emitted = <<>> /\ emittedReasoning = <<>>
      BY <3>1 DEF IInv, Traced
    <3> QED
      BY <1>1, <1>2, <3>2
  <2>2. CASE raw # <<>>
    <3>1. Len(raw) \in 1..Len(raw) /\ Last(raw) = raw[Len(raw)]
      BY <2>2, RawIs DEF IInv, Last
    <3> QED
      BY <2>2, <3>1 DEF IInv, Latest
  <2> QED
    BY <2>1, <2>2
<1> QED
  BY <1>1, <1>3, ContinuedIs DEF NewOf, ThoughtOf

\* What line does besides forwarding.
LEMMA lineTypes ==
    ASSUME IInv, NEW a \in Answers, NEW p \in 1..size(a), line(a, p)
    PROVE  /\ pc = "reading" /\ pc' = "reading" /\ UNCHANGED <<mode, attempts, rows>>
           /\ raw' = Append(raw, frameOf(a, p)) /\ frameOf(a, p) \in Frame
           /\ raw' \in Seq(Frame) /\ answer' \in Answers /\ pos' \in Nat
           /\ rewrites' \in 0..MaxRewrites
<1>1. /\ pc = "reading" /\ pc' = "reading" /\ UNCHANGED <<mode, attempts, rows>>
      /\ raw' = Append(raw, frameOf(a, p)) /\ upstreamWrites(a, p)
  BY DEF line
<1>2. frameOf(a, p) \in Frame /\ p \in Nat
  BY FrameIs
<1>3. raw' \in Seq(Frame)
  BY <1>1, <1>2, RawMore DEF IInv
<1>4. answer' \in Answers /\ pos' \in Nat
  BY <1>1, <1>2 DEF upstreamWrites
<1>5. rewrites' \in 0..MaxRewrites
  <2>1. rewrites \in 0..MaxRewrites /\ MaxRewrites \in Nat
    BY StreamBounds DEF IInv, TypeOK
  <2> QED
    BY <1>1, <2>1 DEF upstreamWrites
<1> QED
  BY <1>1, <1>2, <1>3, <1>4, <1>5

\* A frame of a request that is not streamed is only kept.
LEMMA collectKeeps ==
    ASSUME IInv, NEW a \in Answers, NEW p \in 1..size(a), line(a, p), ~mode.stream
    PROVE  IInv'
<1>1. /\ pc = "reading" /\ pc' = "reading" /\ UNCHANGED <<mode, attempts, rows>>
      /\ raw' = Append(raw, frameOf(a, p)) /\ frameOf(a, p) \in Frame
      /\ raw' \in Seq(Frame) /\ answer' \in Answers /\ pos' \in Nat
      /\ rewrites' \in 0..MaxRewrites
  BY lineTypes
<1>2. UNCHANGED <<emitted, emittedReasoning, gate, wire>>
  BY DEF line, trackers
<1>3. TypeOK'
  BY <1>1, <1>2 DEF IInv, TypeOK
<1>4. Control'
  BY <1>1, <1>2 DEF IInv, Control
<1>5. GateFollows'
  BY <1>1, <1>2 DEF IInv, GateFollows
<1>6. Traced'
  <2>1. emitted' = <<>> /\ emittedReasoning' = <<>>
    BY <1>2 DEF IInv, Control
  <2> QED
    BY <1>1, <2>1, FramesMore DEF Traced
<1>7. Exhausted' /\ Latest'
  BY <1>1 DEF Exhausted, Latest
<1>8. WireLined'
  <2>1. wire' = <<>>
    BY <1>1, <1>2 DEF IInv, Control
  <2> QED
    BY <2>1 DEF WireLined
<1>9. WireText' /\ AtTheEnd'
  BY <1>1, <1>2 DEF IInv, WireText, Delivered, sentText, AtTheEnd
<1> QED
  BY <1>3, <1>4, <1>5, <1>6, <1>7, <1>8, <1>9 DEF IInv

\* A frame of a stream is forwarded.
LEMMA forwardKeeps ==
    ASSUME IInv, NEW a \in Answers, NEW p \in 1..size(a), line(a, p), mode.stream
    PROVE  IInv'
<1> DEFINE f == frameOf(a, p)
           w == Sent(chunk("reasoning", ThoughtOf(f)) \o chunk("content", ContentOf(f)))
<1>1. /\ pc = "reading" /\ pc' = "reading" /\ UNCHANGED <<mode, attempts, rows>>
      /\ raw' = Append(raw, f) /\ f \in Frame
      /\ raw' \in Seq(Frame) /\ answer' \in Answers /\ pos' \in Nat
      /\ rewrites' \in 0..MaxRewrites
  BY lineTypes
<1>2. /\ emittedReasoning' = emittedReasoning \o ThoughtOf(f)
      /\ emitted' = emitted \o NewOf(f)
      /\ gate' = IF mode.tools THEN gatePush(gate, NewOf(f)) ELSE gate
      /\ wire' = w
  BY DEF line, forward, ThoughtOf, NewOf, ContentOf
<1>3. /\ \A i \in DOMAIN raw' : \E x \in Answers : \E q \in 1..size(x) :
             raw'[i] = frameOf(x, q)
      /\ ThinksFirst' \in BOOLEAN /\ (ThinksFirst' => ThinksFirst)
      /\ ThinksFirst' => \A i \in 1..Len(raw) : raw[i].text # <<>> => f.think = raw[i].think
      /\ Cumulative' => Cumulative
      /\ Cumulative' => \A i \in 1..Len(raw) :
             /\ IsPrefix(cleanGeminiText(raw[i].text), cleanGeminiText(f.text))
             /\ IsPrefix(cleanGeminiText(raw[i].think), cleanGeminiText(f.think))
  BY <1>1, FramesMore
<1> HIDE DEF f
<1>4. /\ ThoughtOf(f) \in Text /\ emittedReasoning \o ThoughtOf(f) \in Text
      /\ NewOf(f) \in Text /\ emitted \o NewOf(f) \in Text
      /\ ContentOf(f) \in Text
      /\ sentText \o ContentOf(f)
           = IF mode.tools THEN gatePush(gate, NewOf(f)).sent ELSE emitted \o NewOf(f)
  BY <1>1, ForwardIs
<1>5. emitted \in Text /\ emittedReasoning \in Text /\ gate \in Gate /\ f.text \in Text
      /\ f.think \in Text
  BY <1>1 DEF IInv, TypeOK, Frame
<1>6. /\ w \in Seq(Event)
      /\ Pieces(w, "content") = sentText \o ContentOf(f)
      /\ Pieces(w, "reasoning") = emittedReasoning \o ThoughtOf(f)
      /\ w # <<>> =>
            /\ Lined(w, 3, ThinksFirst')
            /\ emitted \o NewOf(f) = <<>> => Lined(w, 2, ThinksFirst')
            /\ emitted \o NewOf(f) = <<>> /\ emittedReasoning \o ThoughtOf(f) = <<>>
                   => w = event("open")
  <2> DEFINE ord == ThinksFirst'
  <2>1. /\ ord \in BOOLEAN /\ (ord => ThinksFirst)
        /\ ord => \A i \in 1..Len(raw) : raw[i].text # <<>> => f.think = raw[i].think
    BY <1>3
  <2> HIDE DEF ord
  <2>2. /\ w \in Seq(Event)
        /\ Pieces(w, "content") = sentText \o ContentOf(f)
        /\ Pieces(w, "reasoning") = emittedReasoning \o ThoughtOf(f)
        /\ w # <<>> =>
              /\ Lined(w, 3, ord)
              /\ emitted \o NewOf(f) = <<>> => Lined(w, 2, ord)
              /\ emitted \o NewOf(f) = <<>> /\ emittedReasoning \o ThoughtOf(f) = <<>>
                     => w = event("open")
    BY <1>1, <2>1, ForwardWire
  <2> QED
    BY <2>2 DEF ord
<1> HIDE DEF w
<1>7. TypeOK'
  <2>1. gate' \in Gate
    BY <1>2, <1>4, <1>5, GatePushType
  <2> QED
    BY <1>1, <1>2, <1>4, <1>6, <2>1 DEF IInv, TypeOK
<1>8. Control'
  <2>1. mode.api # "chat" => emittedReasoning' = <<>>
    <3>1. mode.api # "chat" => ThoughtOf(f) = <<>> /\ emittedReasoning = <<>>
      BY DEF ThoughtOf, IInv, Control
    <3>2. <<>> \o <<>> = <<>>
      OBVIOUS
    <3> QED
      BY <1>2, <3>1, <3>2
  <2> QED
    BY <1>1, <2>1 DEF IInv, Control
<1>9. GateFollows'
  <2>1. CASE mode.tools
    <3>1. gate = gatePush(newToolFenceGate, emitted)
      BY <2>1 DEF IInv, GateFollows
    <3>2. gatePush(gate, NewOf(f)) = gatePush(newToolFenceGate, emitted \o NewOf(f))
      BY <1>4, <1>5, <3>1, PushMore
    <3> QED
      BY <1>1, <1>2, <2>1, <3>2 DEF GateFollows
  <2>2. CASE ~mode.tools
    BY <1>1, <1>2, <2>2 DEF IInv, GateFollows
  <2> QED
    BY <2>1, <2>2
<1>10. Traced'
  <2>1. /\ DOMAIN raw = 1..Len(raw) /\ DOMAIN raw' = 1..Len(raw) + 1
        /\ \A i \in 1..Len(raw) : raw'[i] = raw[i] /\ i \in 1..Len(raw) + 1
        /\ Len(raw) + 1 \in 1..Len(raw) + 1 /\ raw'[Len(raw) + 1] = f
    BY <1>1, RawMore DEF IInv
  <2>2. emitted' # <<>> => \E i \in DOMAIN raw' : emitted' = cleanGeminiText(raw'[i].text)
    <3>1. emitted' = emitted \/ emitted' = cleanGeminiText(f.text)
      BY <1>2, <1>5, DeltaIs DEF NewOf
    <3>2. ASSUME emitted' = emitted, emitted' # <<>>
          PROVE  \E i \in DOMAIN raw' : emitted' = cleanGeminiText(raw'[i].text)
      <4>1. PICK i \in 1..Len(raw) : emitted = cleanGeminiText(raw[i].text)
        BY <2>1, <3>2 DEF IInv, Traced
      <4> QED
        BY <2>1, <3>2, <4>1
    <3> QED
      BY <2>1, <3>1, <3>2
  <2>3. emittedReasoning' # <<>> =>
            \E i \in DOMAIN raw' : emittedReasoning' = cleanGeminiText(raw'[i].think)
    <3>1. emittedReasoning' = emittedReasoning \/ emittedReasoning' = cleanGeminiText(f.think)
      <4>1. emittedReasoning \o <<>> = emittedReasoning
        BY <1>5, ConcatEmptySeq DEF Text
      <4> QED
        BY <1>2, <1>5, <4>1, DeltaIs DEF ThoughtOf
    <3>2. ASSUME emittedReasoning' = emittedReasoning, emittedReasoning' # <<>>
          PROVE  \E i \in DOMAIN raw' : emittedReasoning' = cleanGeminiText(raw'[i].think)
      <4>1. PICK i \in 1..Len(raw) : emittedReasoning = cleanGeminiText(raw[i].think)
        BY <2>1, <3>2 DEF IInv, Traced
      <4> QED
        BY <2>1, <3>2, <4>1
    <3> QED
      BY <2>1, <3>1, <3>2
  <2> QED
    BY <1>3, <2>2, <2>3 DEF Traced
<1>11. Exhausted'
  <2>1. ASSUME mode.api = "chat", NEW i \in DOMAIN raw'
        PROVE  ~Extends(emittedReasoning', raw'[i].think)
    BY <1>1, <1>2, <2>1, ExhaustedMore
  <2> QED
    BY <1>1, <2>1 DEF Exhausted
<1>12. Latest'
  <2>1. ASSUME Cumulative'
        PROVE  /\ emitted' = cleanGeminiText(f.text)
               /\ mode.api = "chat" => emittedReasoning' = cleanGeminiText(f.think)
    BY <1>1, <1>2, <1>3, <2>1, LatestMore
  <2>2. Last(raw') = f
    BY <1>1, RawMore DEF IInv
  <2> QED
    BY <1>1, <2>1, <2>2 DEF Latest
<1>13. WireLined'
  BY <1>2, <1>6 DEF WireLined
<1>14. WireText'
  <2>1. sentText' = sentText \o ContentOf(f)
    <3>1. sentText' = IF mode.tools THEN gate'.sent ELSE emitted'
      BY <1>1 DEF sentText
    <3> QED
      BY <1>2, <1>4, <3>1
  <2> QED
    BY <1>2, <1>6, <2>1 DEF WireText, Delivered
<1>15. AtTheEnd'
  BY <1>1 DEF AtTheEnd
<1> QED
  BY <1>7, <1>8, <1>9, <1>10, <1>11, <1>12, <1>13, <1>14, <1>15 DEF IInv

\* A line of the body keeps the invariant.
LEMMA lineKeeps ==
    ASSUME IInv, NEW a \in Answers, NEW p \in 1..size(a), line(a, p)
    PROVE  IInv'
  BY collectKeeps, forwardKeeps

\* What is read off the frames at the end does not change with the step.
LEMMA ReadOffSame ==
    ASSUME UNCHANGED <<mode, raw>>
    PROVE  /\ extractResponseText' = extractResponseText
           /\ extractReasoning' = extractReasoning
           /\ replyText' = replyText
           /\ Cumulative' <=> Cumulative
<1>1. extractResponseText' = extractResponseText
  BY DEF extractResponseText
<1>2. extractReasoning' = extractReasoning
  BY DEF extractReasoning
<1>3. replyText' = replyText
  BY <1>1 DEF replyText
<1>4. Cumulative' <=> Cumulative
  BY DEF Cumulative
<1> QED
  BY <1>1, <1>2, <1>3, <1>4

\* The end of an answer delivers all of it, once and in order.
LEMMA deliverKeeps ==
    ASSUME IInv, pc = "reading", raw # <<>>, extractResponseText # <<>>, deliver,
           UNCHANGED <<mode, upstream, attempts, raw, trackers>>
    PROVE  IInv'
<1>1. /\ pc # "done" /\ pc' = "done" /\ UNCHANGED <<mode, answer, rewrites, raw, trackers>>
      /\ pos' \in Nat /\ attempts' \in 0..RetryAttempts /\ rows' = <<"200">>
      /\ rows' \in {<<>>, <<"200">>, <<"502">>}
  BY DEF deliver, upstream, IInv, TypeOK, Control
<1>2. CASE ~mode.stream
  <2> DEFINE e == [kind |-> "json", text |-> replyText]
  <2>1. wire' = <<e>>
    BY <1>2 DEF deliver
  <2>2. e \in Event /\ e.kind \in Status \cup {"json"}
    BY ReplyType DEF IInv, Event, Kind
  <2> HIDE DEF e
  <2> QED
    BY <1>1, <2>1, <2>2, ShortStep
<1>3. CASE mode.stream
  <2> DEFINE w == Sent(IF mode.api = "chat" THEN chatEnd ELSE responsesEnd)
             sum == sentText \o remainingOf(replyText, sentText)
             ord == ThinksFirst
  <2>1. wire' = w
    BY <1>3 DEF deliver
  <2>2. Track(w, 6, ord, sum, emittedReasoning) /\ w # <<>> /\ w[Len(w)].kind = "finish"
    BY <1>3, DeliverTrack DEF IInv
  <2>3. ord \in BOOLEAN
    BY ThinksFirstType
  <2> HIDE DEF w, ord
  <2>4. /\ w \in Seq(Event) /\ Lined(w, 6, ord)
        /\ Pieces(w, "content") = sum /\ Pieces(w, "reasoning") = emittedReasoning
    BY <2>2 DEF Track
  <2>5. Shape(w, TRUE, ord)
    BY <2>2, <2>3, <2>4, ShapeOfStream, RankIs
  <2>6. AnswerDelivered'
    <3> SUFFICES ASSUME Cumulative', mode'.tools => WellFenced(extractResponseText)'
                 PROVE  /\ TrimSpace(Pieces(wire', "content")) = replyText'
                        /\ mode'.api = "chat" => Pieces(wire', "reasoning") = extractReasoning'
      BY DEF AnswerDelivered, Delivered
    <3>1. /\ extractResponseText' = extractResponseText /\ extractReasoning' = extractReasoning
          /\ replyText' = replyText /\ Cumulative /\ mode' = mode
      BY ReadOffSame
    <3>2. mode.tools => WellFenced(extractResponseText)
      BY <3>1 DEF WellFenced
    <3>3. TrimSpace(sum) = replyText /\ (mode.api = "chat" => emittedReasoning = extractReasoning)
      BY <1>3, <3>1, <3>2, AnswerComplete DEF IInv
    <3> QED
      BY <2>1, <2>4, <3>1, <3>3
  <2>7. ASSUME NEW x \in Words
        PROVE  Once(x, Pieces(wire', "content")) /\ Once(x, Pieces(wire', "reasoning"))
    <3>1. sum = replyText \/ sum = sentText
      BY SentTextType, ReplyType, RemainingIs DEF IInv
    <3> HIDE DEF sum
    <3> QED
      BY <2>1, <2>4, <3>1, KnownOnce DEF IInv
  <2> QED
    BY <1>1, <2>1, <2>4, <2>5, <2>6, <2>7, EndStep DEF ord
<1> QED
  BY <1>2, <1>3

\* An answer without a text is a failure.
LEMMA repliedKeeps == IInv /\ replied => IInv'
<1> SUFFICES ASSUME IInv, replied PROVE IInv'
  OBVIOUS
<1>1. pc = "reading" /\ pc # "done" /\ UNCHANGED <<mode, upstream, attempts, raw, trackers>>
  BY DEF replied
<1>2. raw # <<>>
  <2>1. DOMAIN raw # {}
    BY DEF replied, hasContentFrame
  <2> QED
    BY <2>1
<1>3. CASE extractResponseText = <<>>
  <2>1. Fail("502") /\ "502" \in Status
    BY <1>3 DEF replied, Status
  <2>2. pos' \in Nat /\ attempts' \in 0..RetryAttempts
    BY <1>1 DEF upstream, IInv, TypeOK
  <2> QED
    BY <1>1, <2>1, <2>2, FailStep DEF upstream
<1>4. CASE extractResponseText # <<>>
  <2>1. deliver
    BY <1>4 DEF replied
  <2> QED
    BY <1>1, <1>2, <1>4, <2>1, deliverKeeps
<1> QED
  BY <1>3, <1>4

\* A step that changes nothing keeps the invariant.
LEMMA StutterKeeps == IInv /\ UNCHANGED vars => IInv'
<1> SUFFICES ASSUME IInv, UNCHANGED vars PROVE IInv'
  OBVIOUS
<1> USE DEF vars
<1>1. TypeOK' /\ Control'
  BY DEF IInv, TypeOK, Control
<1>2. GateFollows' /\ Traced' /\ Exhausted'
  BY DEF IInv, GateFollows, Traced, Exhausted
<1>3. Latest'
  BY DEF IInv, Latest, Cumulative
<1>4. WireLined' /\ WireText'
  BY DEF IInv, WireLined, WireText, Delivered, sentText, ThinksFirst
<1>5. AtTheEnd'
  <2>1. StreamShape => StreamShape'
    BY DEF StreamShape, ThinksFirst
  <2>2. NothingTwice => NothingTwice'
    BY DEF NothingTwice, Delivered
  <2>3. AnswerDelivered => AnswerDelivered'
    BY ReadOffSame DEF AnswerDelivered, Finished, Delivered, WellFenced
  <2> QED
    BY <2>1, <2>2, <2>3 DEF IInv, AtTheEnd
<1> QED
  BY <1>1, <1>2, <1>3, <1>4, <1>5 DEF IInv

\* The invariant is inductive.
LEMMA NextKeeps == IInv /\ [Next]_vars => IInv'
  BY badRequestKeeps, acceptKeeps, refusedKeeps, startAttemptKeeps, lineKeeps,
     attemptFailsKeeps, repliedKeeps, StutterKeeps DEF Next

\* The invariant holds in every state a request reaches.
LEMMA Inductive == Spec => []IInv
<1>1. Init => IInv
  BY InitHolds
<1>2. IInv /\ [Next]_vars => IInv'
  BY NextKeeps
<1> QED
  BY <1>1, <1>2, PTL DEF Spec

-----------------------------------------------------------------------------
(* What the invariant says *)

\* What was written is in order at any time.
LEMMA ShapeHolds == IInv => StreamShape
<1> SUFFICES ASSUME IInv, pc # "done" PROVE StreamShape
  BY DEF IInv, AtTheEnd
<1>1. CASE wire = <<>>
  <2>1. DOMAIN wire = {}
    BY <1>1
  <2> QED
    BY <2>1 DEF StreamShape
<1>2. CASE wire # <<>>
  <2> DEFINE ord == ThinksFirst
  <2>1. wire \in Seq(Event) /\ Lined(wire, 3, ord) /\ ord \in BOOLEAN
    BY <1>2, ThinksFirstType DEF IInv, TypeOK, WireLined
  <2> HIDE DEF ord
  <2>2. DOMAIN wire = 1..Len(wire)
    BY <2>1, LenProperties
  <2> QED
    BY <2>1, <2>2 DEF StreamShape, Lined, ord
<1> QED
  BY <1>1, <1>2

\* Before the end nothing is promised of the answer.
LEMMA DeliveredHolds == IInv => AnswerDelivered
<1> SUFFICES ASSUME IInv, pc # "done", Finished PROVE FALSE
  BY DEF IInv, AtTheEnd, AnswerDelivered
<1>1. wire \in Seq(Event) /\ wire # <<>> /\ wire[Len(wire)].kind = "finish"
  BY DEF Finished, IInv, TypeOK
<1>2. Len(wire) \in 1..Len(wire)
  <2>1. Len(wire) \in Nat /\ Len(wire) # 0
    BY <1>1, LenProperties, EmptySeq
  <2> QED
    BY <2>1
<1>3. Lined(wire, 3, ThinksFirst)
  BY <1>1 DEF IInv, WireLined
<1>4. Rank(wire[Len(wire)].kind) <= 3
  BY <1>2, <1>3 DEF Lined
<1> QED
  BY <1>1, <1>4, RankIs

\* At any time the client has every word at most once.
LEMMA TwiceHolds == IInv => NothingTwice
<1> SUFFICES ASSUME IInv, pc # "done" PROVE NothingTwice
  BY DEF IInv, AtTheEnd
<1>1. ASSUME NEW w \in Words, NEW k \in {"content", "reasoning"}
      PROVE  Cardinality({i \in DOMAIN Delivered(k) : Delivered(k)[i] = w}) <= 1
  <2> DEFINE s == Delivered(k)
  <2>1. s = sentText \/ s = emittedReasoning
    BY DEF IInv, WireText
  <2>2. s \in Text /\ Once(w, s)
    BY <2>1, SentTextType, KnownOnce DEF IInv
  <2> HIDE DEF s
  <2>3. Cardinality({i \in DOMAIN s : s[i] = w}) <= 1
    BY <2>2, OnceCounts
  <2> QED
    BY <2>3 DEF s
<1> QED
  BY <1>1 DEF NothingTwice

-----------------------------------------------------------------------------
(* The theorems *)

\* Every state the handlers of /v1/chat/completions and /v1/responses reach is well
\* typed: the trackers, the gate and the wire hold texts and events, the retries stay
\* within RetryAttempts, and recordRequest is called at most once (server.go:179-345, 390-694).
THEOREM TypeCorrect == Spec => []TypeOK
<1>1. IInv => TypeOK
  BY DEF IInv
<1> QED
  BY <1>1, Inductive, PTL

\* Wherever the upstream's frames cut the text, the fence gate has let through and holds
\* back the same: it is what one Push of the whole text makes of it (messages.go:231-263).
THEOREM CutsMakeNoDifference == Spec => []CutIndependent
<1>1. IInv => CutIndependent
  BY DEF IInv, GateFollows, CutIndependent
<1> QED
  BY <1>1, Inductive, PTL

\* Every stream is opened once, in order and ended once, and a status or a JSON body comes
\* only where no stream was opened (sse.go:10-14, server.go:179-345 and 390-694).
THEOREM StreamsInOrder == Spec => []StreamShape
  BY ShapeHolds, Inductive, PTL

\* Of answers whose frames continue each other the deltas and the remainder make up the
\* text of the reply, and all of the reasoning (server.go:307-334 and 641-685).
THEOREM WholeAnswerArrives == Spec => []AnswerDelivered
  BY DeliveredHolds, Inductive, PTL

\* Whatever the upstream rewrites and however often the attempt is repeated, no word of an
\* answer that holds it once reaches the client twice (gemini.go:210-214 and 535).
THEOREM NothingArrivesTwice == Spec => []NothingTwice
  BY TwiceHolds, Inductive, PTL
=============================================================================
