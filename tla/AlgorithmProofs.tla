-------------------------- MODULE AlgorithmProofs --------------------------
(***************************************************************************)
(* What Lint, TextPositions, Globs and Pointers promise for inputs of any  *)
(* size.  All go along sequences by folds: a fold is a function over sets  *)
(* of places, and by the least number where a claim about it fails, none   *)
(* does.                                                                   *)
(***************************************************************************)
EXTENDS Lint, DocumentStore, Questions, TLAPS, WellFoundedInduction, FiniteSetTheorems, SequenceTheorems

-----------------------------------------------------------------------------
(* Numbers, and folds over sequences                                        *)

\* There is a least among any natural numbers.
LEMMA LeastNat ==
    ASSUME NEW T \in SUBSET Nat, T # {}
    PROVE  \E x \in T : \A y \in T : x <= y
<1>1. IsWellFoundedOn(OpToRel(<, Nat), Nat)
  BY NatLessThanWellFounded
<1>2. PICK x \in T : \A y \in T : ~(<<y, x>> \in OpToRel(<, Nat))
  BY <1>1, WFMin
<1>3. x \in Nat /\ \A y \in T : y \in Nat /\ ~(y < x)
  BY <1>2 DEF OpToRel
<1> QED  BY <1>3

\* Induction, by a set of numbers.
LEMMA NatInd ==
    ASSUME NEW T \in SUBSET Nat, 0 \in T, \A n \in T : n + 1 \in T
    PROVE  T = Nat
<1> SUFFICES ASSUME Nat \ T # {} PROVE FALSE
  OBVIOUS
<1>1. PICK x \in Nat \ T : \A y \in Nat \ T : x <= y
  BY LeastNat
<1>2. x # 0 /\ x - 1 \in Nat /\ x - 1 \notin Nat \ T
  BY <1>1
<1> QED  BY <1>1, <1>2

\* The largest of some numbers, if there is one.
LEMMA MaxIs ==
    ASSUME NEW S \in SUBSET Int, NEW m \in S, \A x \in S : x <= m
    PROVE  Max(S) = m
<1>1. \E x \in S : \A y \in S : x >= y
  BY m \in Int
<1>2. Max(S) \in S /\ \A y \in S : Max(S) >= y
  BY <1>1 DEF Max
<1>3. Max(S) \in Int /\ m \in Int /\ Max(S) >= m /\ Max(S) <= m
  BY <1>2
<1> QED  BY <1>3

\* A nonempty set of indices has a last.
LEMMA MaxIn ==
    ASSUME NEW n \in Nat, NEW S \in SUBSET (1..n), S # {}
    PROVE  Max(S) \in S /\ \A x \in S : x <= Max(S)
<1> DEFINE T == {n - x : x \in S}
<1>0. \A x \in S : x \in Int /\ 1 <= x /\ x <= n /\ n - x \in Nat
  OBVIOUS
<1>1. T \in SUBSET Nat /\ T # {}
  BY <1>0
<1>2. PICK t \in T : \A y \in T : t <= y
  BY <1>1, LeastNat
<1>3. PICK m \in S : t = n - m
  OBVIOUS
<1>4. \A x \in S : n - x \in T /\ x \in Int
  OBVIOUS
<1>5. \A x \in S : x <= m
  BY <1>0, <1>2, <1>3, <1>4
<1>6. S \in SUBSET Int
  BY <1>0
<1>7. Max(S) = m
  BY <1>3, <1>5, <1>6, MaxIs
<1> QED  BY <1>3, <1>5, <1>7

\* h is the function a fold goes through: what it makes of every set of places is one
\* step from what it makes of the set without its last.
IsFold(h, n, base, step) ==
    h = [s \in SUBSET (1..n) |-> IF s = {} THEN base ELSE step[<<h[s \ {Max(s)}], Max(s)>>]]

\* There is such a function, whatever the step.
LEMMA FoldExists ==
    ASSUME NEW n \in Nat, NEW St, NEW base \in St, NEW step \in [St \X (1..n) -> St]
    PROVE  \E h \in [SUBSET (1..n) -> St] : IsFold(h, n, base, step)
<1> DEFINE E(m, h) == /\ h \in [SUBSET (1..m) -> St]
                      /\ \A s \in SUBSET (1..m) :
                            h[s] = IF s = {} THEN base ELSE step[<<h[s \ {Max(s)}], Max(s)>>]
           T == {i \in Nat : i <= n => \E h : E(i, h)}
<1>1. 0 \in T
  <2>1. 1..0 = {}
    OBVIOUS
  <2>2. E(0, [s \in SUBSET (1..0) |-> base])
    BY <2>1
  <2> QED  BY <2>2
<1>2. ASSUME NEW m \in Nat, m + 1 <= n, NEW h, E(m, h) PROVE \E j : E(m + 1, j)
  <2> DEFINE k == m + 1
             j == [s \in SUBSET (1..k) |-> IF k \in s THEN step[<<h[s \ {k}], k>>] ELSE h[s]]
  <2>2. ASSUME NEW s \in SUBSET (1..k), k \in s
        PROVE  Max(s) = k /\ s \ {k} \in SUBSET (1..m) /\ k \notin s \ {k} /\ s # {}
    <3>1. \A x \in s : x <= k /\ x \in Int
      OBVIOUS
    <3>2. s \in SUBSET Int
      BY <3>1
    <3>3. Max(s) = k
      BY <2>2, <3>1, <3>2, MaxIs
    <3>4. s \ {k} \in SUBSET (1..m)
      OBVIOUS
    <3> QED  BY <2>2, <3>3, <3>4
  <2>3. ASSUME NEW s \in SUBSET (1..k), k \notin s
        PROVE  s \in SUBSET (1..m) /\ s \ {Max(s)} \in SUBSET (1..m) /\ (s # {} => Max(s) \in 1..m)
    <3>1. s \in SUBSET (1..m)
      BY <2>3
    <3> HIDE DEF k
    <3>2. s # {} => Max(s) \in s
      BY <3>1, MaxIn
    <3> QED BY <3>1, <3>2
  <2>4. j \in [SUBSET (1..k) -> St]
    <3> SUFFICES ASSUME NEW s \in SUBSET (1..k)
                 PROVE  (IF k \in s THEN step[<<h[s \ {k}], k>>] ELSE h[s]) \in St
      OBVIOUS
    <3>1. k \in 1..n
      BY <1>2
    <3>2. CASE k \in s
      <4>1. h[s \ {k}] \in St
        BY <3>2, <2>2, <1>2
      <4> HIDE DEF k
      <4> QED BY <4>1, <3>1, <3>2
    <3>3. CASE k \notin s
      BY <3>3, <2>3, <1>2
    <3> QED BY <3>2, <3>3
  <2>5. ASSUME NEW s \in SUBSET (1..k)
        PROVE j[s] = IF s = {} THEN base ELSE step[<<j[s \ {Max(s)}], Max(s)>>]
    <3>1. CASE k \in s
      <4>1. j[s \ {Max(s)}] = h[s \ {k}]
        <5>1. s \ {k} \in SUBSET (1..k) /\ k \notin s \ {k}
          OBVIOUS
        <5> QED BY <5>1, <3>1, <2>2
      <4> QED BY <3>1, <4>1, <2>2
    <3>2. CASE k \notin s
      <4>1. k \notin s \ {Max(s)} /\ s \ {Max(s)} \in SUBSET (1..k)
        BY <3>2
      <4>2. j[s \ {Max(s)}] = h[s \ {Max(s)}]
        BY <4>1
      <4>3. j[s] = h[s]
        BY <3>2
      <4>4. s \in SUBSET (1..m)
        BY <2>3, <3>2
      <4> QED BY <4>2, <4>3, <4>4, <1>2
    <3> QED BY <3>1, <3>2
  <2>6. E(k, j)
    BY <2>4, <2>5
  <2> QED  BY <2>6
<1>3. \A m \in T : m + 1 \in T
  <2> SUFFICES ASSUME NEW m \in T, m + 1 <= n PROVE \E h : E(m + 1, h)
    <3> HIDE DEF E
    <3> QED OBVIOUS
  <2> HIDE DEF E
  <2>1. m \in Nat /\ m <= n
    OBVIOUS
  <2>2. PICK h : E(m, h)
    BY <2>1
  <2> QED BY <2>1, <2>2, <1>2
<1>4. T = Nat
  <2> HIDE DEF T
  <2>1. T \in SUBSET Nat
    BY DEF T
  <2> QED BY <2>1, <1>1, <1>3, NatInd
<1>5. PICK h : E(n, h)
  <2> HIDE DEF E
  <2> QED BY <1>4
<1>6. IsFold(h, n, base, step)
  BY <1>5 DEF IsFold
<1> QED BY <1>5, <1>6

\* The last of the first k numbers, and those before it.
LEMMA LastOf ==
    ASSUME NEW k \in Nat, k # 0
    PROVE  Max(1..k) = k /\ (1..k) \ {k} = 1..(k - 1) /\ 1..k # {} /\ k - 1 \in Nat
<1>1. k \in 1..k /\ (\A x \in 1..k : x <= k) /\ 1..k \in SUBSET Int
  OBVIOUS
<1>2. Max(1..k) = k
  BY <1>1, MaxIs
<1>3. (1..k) \ {k} = 1..(k - 1)
  OBVIOUS
<1>4. k - 1 \in Nat
  OBVIOUS
<1> QED BY <1>1, <1>2, <1>3, <1>4

\* g goes through the prefixes one step at a time, and h takes the same steps.
FoldOf(h, g, n, St, base, step) ==
    /\ h \in [SUBSET (1..n) -> St] /\ IsFold(h, n, base, step)
    /\ g \in [0..n -> St] /\ g[0] = base
    /\ \A k \in 1..n : g[k] = step[<<g[k - 1], k>>]

\* A fold goes along the prefixes of what it folds.
LEMMA Chain ==
    ASSUME NEW n \in Nat, NEW St, NEW base \in St, NEW step \in [St \X (1..n) -> St]
    PROVE  \E h, g : FoldOf(h, g, n, St, base, step)
<1>1. PICK h \in [SUBSET (1..n) -> St] : IsFold(h, n, base, step)
  BY FoldExists
<1> DEFINE g == [k \in 0..n |-> h[1..k]]
<1>2. 1..0 = {} /\ \A k \in 0..n : 1..k \in SUBSET (1..n)
  OBVIOUS
<1>3. g \in [0..n -> St]
  BY <1>2
<1>4. g[0] = base
  BY <1>1, <1>2 DEF IsFold
<1>5. ASSUME NEW k \in 1..n PROVE g[k] = step[<<g[k - 1], k>>]
  <2>1. 1..k \in SUBSET (1..n) /\ k \in 0..n /\ k - 1 \in 0..n
    BY <1>2
  <2>2. h[1..k] = IF 1..k = {} THEN base ELSE step[<<h[(1..k) \ {Max(1..k)}], Max(1..k)>>]
    BY <1>1, <2>1 DEF IsFold
  <2>3. Max(1..k) = k /\ (1..k) \ {k} = 1..(k - 1) /\ 1..k # {}
    BY LastOf
  <2>4. h[1..k] = step[<<h[1..(k - 1)], k>>]
    BY <2>2, <2>3
  <2> QED BY <2>1, <2>4
<1> QED BY <1>1, <1>3, <1>4, <1>5 DEF FoldOf

\* f and g start alike and go on alike.
InStep(f, g, n) ==
    f[0] = g[0] /\ \A k \in 1..n : f[k - 1] = g[k - 1] => f[k] = g[k]

\* They are the same all along.
LEMMA SameChain ==
    ASSUME NEW n \in Nat, NEW f, NEW g, InStep(f, g, n)
    PROVE  \A k \in 0..n : f[k] = g[k]
<1> DEFINE T == {k \in Nat : k <= n => f[k] = g[k]}
<1>1. 0 \in T
  BY DEF InStep
<1>2. ASSUME NEW k \in T PROVE k + 1 \in T
  <2>1. k \in Nat /\ k + 1 \in Nat
    OBVIOUS
  <2>2. CASE k + 1 <= n
    <3>1. f[k] = g[k] /\ k + 1 \in 1..n /\ (k + 1) - 1 = k
      BY <2>1, <2>2
    <3>2. f[k + 1] = g[k + 1]
      BY <3>1 DEF InStep
    <3> QED BY <2>1, <3>2
  <2>3. CASE ~(k + 1 <= n)
    BY <2>1, <2>3
  <2> QED BY <2>2, <2>3
<1>3. T = Nat
  <2> HIDE DEF T
  <2>1. T \in SUBSET Nat
    BY DEF T
  <2> QED BY <1>1, <1>2, <2>1, NatInd
<1> QED BY <1>3

\* Wherever it takes a value from St, iter takes the step from it.
Steps(iter, n, St, base, step) ==
    /\ iter[{}] = base
    /\ \A s \in SUBSET (1..n) :
          s # {} /\ iter[s \ {Max(s)}] \in St => iter[s] = step[<<iter[s \ {Max(s)}], Max(s)>>]

\* Then it goes where the fold goes.
LEMMA FoldsAlong ==
    ASSUME NEW n \in Nat, NEW St, NEW base, NEW step, NEW h, NEW g,
           FoldOf(h, g, n, St, base, step), NEW iter, Steps(iter, n, St, base, step)
    PROVE  iter[1..n] = g[n]
<1> DEFINE f == [k \in 0..n |-> iter[1..k]]
<1>1. g \in [0..n -> St] /\ g[0] = base /\ \A k \in 1..n : g[k] = step[<<g[k - 1], k>>]
  BY DEF FoldOf
<1>2. f[0] = g[0]
  <2>1. 1..0 = {} /\ 0 \in 0..n
    OBVIOUS
  <2> QED BY <1>1, <2>1 DEF Steps
<1>3. ASSUME NEW k \in 1..n, f[k - 1] = g[k - 1] PROVE f[k] = g[k]
  <2>1. k \in Nat /\ k # 0 /\ k \in 0..n /\ k - 1 \in 0..n /\ 1..k \in SUBSET (1..n)
    OBVIOUS
  <2>2. Max(1..k) = k /\ (1..k) \ {k} = 1..(k - 1) /\ 1..k # {}
    BY <2>1, LastOf
  <2>3. f[k] = iter[1..k] /\ g[k - 1] = iter[1..(k - 1)] /\ g[k - 1] \in St
    BY <1>1, <1>3, <2>1
  <2>4. PICK s \in SUBSET (1..n) : s = 1..k
    BY <2>1
  <2>5. s # {} /\ Max(s) = k /\ s \ {Max(s)} = 1..(k - 1)
    BY <2>2, <2>4
  <2>6. iter[s \ {Max(s)}] = g[k - 1]
    BY <2>3, <2>5
  <2>7. iter[s] = step[<<g[k - 1], k>>]
    BY <2>3, <2>5, <2>6 DEF Steps
  <2> HIDE DEF f
  <2> QED BY <1>1, <2>3, <2>4, <2>7
<1>4. InStep(f, g, n)
  <2> HIDE DEF f
  <2> QED BY <1>2, <1>3 DEF InStep
<1>5. f[n] = g[n]
  <2>1. n \in 0..n
    OBVIOUS
  <2> HIDE DEF f
  <2> QED BY <1>4, <2>1, SameChain
<1>6. n \in 0..n
  OBVIOUS
<1> QED BY <1>5, <1>6

\* g goes through the concatenations of the first of some sequences.
Flattens(g, seqs, S) ==
    /\ g \in [0..Len(seqs) -> Seq(S)]
    /\ g[0] = <<>> /\ FlattenSeq(seqs) = g[Len(seqs)]
    /\ \A k \in 1..Len(seqs) : g[k] = g[k - 1] \o seqs[k]

\* FlattenSeq is such a concatenation of them all.
LEMMA FlattenChain ==
    ASSUME NEW S, NEW seqs \in Seq(Seq(S))
    PROVE  \E g : Flattens(g, seqs, S)
<1> DEFINE n == Len(seqs)
           step == [x \in Seq(S) \X (1..n) |-> x[1] \o seqs[x[2]]]
           Body(h) == [i \in 1..n |-> IF i = 1 THEN seqs[i] ELSE h[i - 1] \o seqs[i]]
           flat == CHOOSE h : h = Body(h)
<1>0. n \in Nat /\ <<>> \in Seq(S) /\ \A k \in 1..n : seqs[k] \in Seq(S)
  BY EmptySeq, LenProperties, ElementOfSeq
<1>1. step \in [Seq(S) \X (1..n) -> Seq(S)]
  BY <1>0, ConcatProperties
<1>2. PICK h, g : FoldOf(h, g, n, Seq(S), <<>>, step)
  <2> HIDE DEF step, n
  <2> QED BY <1>0, <1>1, Chain
<1>3. g \in [0..n -> Seq(S)] /\ g[0] = <<>>
  BY <1>2 DEF FoldOf
<1>4. \A k \in 1..n : g[k] = g[k - 1] \o seqs[k]
  <2> TAKE k \in 1..n
  <2>1. g[k] = step[<<g[k - 1], k>>]
    BY <1>2 DEF FoldOf
  <2>2. k - 1 \in 0..n
    BY <1>0
  <2>3. g[k - 1] \in Seq(S)
    BY <1>3, <2>2
  <2> QED BY <2>1, <2>3
<1> DEFINE p == [i \in 1..n |-> g[i]]
<1>5. p = Body(p)
  <2> SUFFICES ASSUME NEW i \in 1..n
               PROVE  g[i] = IF i = 1 THEN seqs[i] ELSE p[i - 1] \o seqs[i]
    OBVIOUS
  <2>1. g[i] = g[i - 1] \o seqs[i]
    BY <1>4
  <2>2. CASE i = 1
    <3>0. i - 1 = 0
      BY <2>2
    <3>1. g[i] = <<>> \o seqs[i]
      BY <2>1, <3>0, <1>3
    <3> QED BY <3>1, <2>2, <1>0, ConcatEmptySeq
  <2>3. CASE i # 1
    <3>1. i - 1 \in 1..n
      BY <2>3, <1>0
    <3> QED BY <2>1, <2>3, <3>1
  <2> QED BY <2>2, <2>3
<1>6. flat = Body(flat)
  <2> HIDE DEF p, Body
  <2> QED BY <1>5
<1>7. FlattenSeq(seqs) = IF n = 0 THEN seqs ELSE flat[n]
  BY DEF FlattenSeq
<1> HIDE DEF flat
<1>8. ASSUME n = 0 PROVE FlattenSeq(seqs) = g[n]
  <2>1. seqs = <<>>
    BY <1>8, EmptySeq
  <2> QED BY <2>1, <1>8, <1>7, <1>3
<1>9. ASSUME n # 0 PROVE FlattenSeq(seqs) = g[n]
  <2> DEFINE f == [k \in 0..n |-> IF k = 0 THEN <<>> ELSE flat[k]]
  <2>1. f[0] = g[0]
    BY <1>0, <1>3
  <2>2. ASSUME NEW k \in 1..n, f[k - 1] = g[k - 1] PROVE f[k] = g[k]
    <3>1. flat[k] = IF k = 1 THEN seqs[k] ELSE flat[k - 1] \o seqs[k]
      BY <1>6
    <3>2. k \in 0..n /\ k # 0 /\ k - 1 \in 0..n /\ k - 1 \in Nat
      BY <1>0
    <3>3. CASE k = 1
      <4>0. k - 1 = 0
        BY <3>3
      <4>1. g[k] = <<>> \o seqs[k]
        BY <4>0, <1>3, <1>4
      <4> QED BY <4>1, <3>3, <3>1, <3>2, <1>0, ConcatEmptySeq
    <3>4. CASE k # 1
      <4>1. f[k - 1] = flat[k - 1]
        BY <3>2, <3>4
      <4> QED BY <4>1, <3>4, <3>1, <3>2, <1>4, <2>2
    <3> QED BY <3>3, <3>4
  <2>3. InStep(f, g, n)
    <3> HIDE DEF f, n
    <3> QED BY <2>1, <2>2 DEF InStep
  <2>5. \A k \in 0..n : f[k] = g[k]
    <3> HIDE DEF f, n
    <3> QED BY <1>0, <2>3, SameChain
  <2>4. n \in 0..n
    BY <1>0
  <2> QED BY <2>5, <2>4, <1>9, <1>7
<1> QED BY <1>3, <1>4, <1>8, <1>9 DEF Flattens

-----------------------------------------------------------------------------
(* Suppressions                                                             *)

\* suppress.go:59-66, what is left out is decided place by place.
LEMMA OmitChain ==
    ASSUME NEW S, NEW seq \in Seq(S), NEW places
    PROVE  \E g \in [0..Len(seq) -> Seq(S)] :
              /\ g[0] = <<>> /\ Omit(seq, places) = g[Len(seq)]
              /\ \A k \in 1..Len(seq) :
                    g[k] = IF k \in places THEN g[k - 1] ELSE Append(g[k - 1], seq[k])
<1> DEFINE n == Len(seq)
           idx == [k \in 1..n |-> k]
           step == [x \in Seq(S) \X (1..n) |->
                       IF x[2] \in places THEN x[1] ELSE Append(x[1], seq[x[2]])]
           Body(h) == [s \in SUBSET (1..n) |->
                          IF s = {} THEN <<>>
                          ELSE IF idx[Max(s)] \in places THEN h[s \ {Max(s)}]
                               ELSE Append(h[s \ {Max(s)}], seq[idx[Max(s)]])]
           iter == CHOOSE h : h = Body(h)
<1>0. n \in Nat /\ <<>> \in Seq(S) /\ \A k \in 1..n : seq[k] \in S
  BY EmptySeq, LenProperties, ElementOfSeq
<1>1. step \in [Seq(S) \X (1..n) -> Seq(S)]
  BY <1>0, AppendProperties
<1>2. PICK h, g : FoldOf(h, g, n, Seq(S), <<>>, step)
  <2> HIDE DEF step, n
  <2> QED BY <1>0, <1>1, Chain
<1>3. h \in [SUBSET (1..n) -> Seq(S)] /\ g \in [0..n -> Seq(S)] /\ g[0] = <<>>
  BY <1>2 DEF FoldOf
<1>4. \A k \in 1..n : g[k] = IF k \in places THEN g[k - 1] ELSE Append(g[k - 1], seq[k])
  <2> TAKE k \in 1..n
  <2>1. g[k] = step[<<g[k - 1], k>>]
    BY <1>2 DEF FoldOf
  <2>2. k - 1 \in 0..n
    BY <1>0
  <2>3. g[k - 1] \in Seq(S)
    BY <1>3, <2>2
  <2> QED BY <2>1, <2>3
<1>5. h = Body(h)
  <2> SUFFICES ASSUME NEW s \in SUBSET (1..n) PROVE h[s] = Body(h)[s]
    BY <1>3
  <2>1. h[s] = IF s = {} THEN <<>> ELSE step[<<h[s \ {Max(s)}], Max(s)>>]
    BY <1>2 DEF FoldOf, IsFold
  <2>2. CASE s = {}
    BY <2>1, <2>2
  <2>3. CASE s # {}
    <3>1. Max(s) \in 1..n
      BY <1>0, <2>3, MaxIn
    <3>2. h[s \ {Max(s)}] \in Seq(S)
      BY <1>3
    <3> QED BY <2>1, <2>3, <3>1, <3>2
  <2> QED BY <2>2, <2>3
<1>6. iter = Body(iter)
  <2> HIDE DEF Body
  <2> QED BY <1>5
<1>7. Omit(seq, places) = iter[1..n]
  BY DEF Omit, FoldLeft, MapThenFoldSet
<1> HIDE DEF iter
<1>8. iter[1..n] = g[n]
  <2>1. iter[{}] = <<>>
    BY <1>6
  <2>2. ASSUME NEW s \in SUBSET (1..n), s # {}, iter[s \ {Max(s)}] \in Seq(S)
        PROVE  iter[s] = step[<<iter[s \ {Max(s)}], Max(s)>>]
    <3>1. Max(s) \in 1..n
      BY <1>0, <2>2, MaxIn
    <3>2. iter[s] = Body(iter)[s]
      BY <1>6
    <3> QED BY <2>2, <3>1, <3>2
  <2> HIDE DEF step, n, Body
  <2>3. Steps(iter, n, Seq(S), <<>>, step)
    BY <2>1, <2>2 DEF Steps
  <2> QED BY <1>0, <1>2, <2>3, FoldsAlong
<1> QED BY <1>3, <1>4, <1>7, <1>8

\* Leaving out makes nothing new.
LEMMA OmitType ==
    ASSUME NEW S, NEW seq \in Seq(S), NEW places
    PROVE  Omit(seq, places) \in Seq(S)
<1>1. PICK g \in [0..Len(seq) -> Seq(S)] : Omit(seq, places) = g[Len(seq)]
  BY OmitChain
<1>2. Len(seq) \in 0..Len(seq)
  BY LenProperties
<1> QED BY <1>1, <1>2

\* Nothing is left where everything is left out.
LEMMA OmitAll ==
    ASSUME NEW S, NEW seq \in Seq(S), NEW places, 1..Len(seq) \subseteq places
    PROVE  Omit(seq, places) = <<>>
<1> DEFINE n == Len(seq)
<1>0. n \in Nat
  BY LenProperties
<1>1. PICK g \in [0..n -> Seq(S)] :
         /\ g[0] = <<>> /\ Omit(seq, places) = g[n]
         /\ \A k \in 1..n : g[k] = IF k \in places THEN g[k - 1] ELSE Append(g[k - 1], seq[k])
  BY ZenonT(30), OmitChain
<1> DEFINE T == {k \in Nat : k <= n => g[k] = <<>>}
<1>2. 0 \in T
  BY <1>1
<1>3. ASSUME NEW k \in T PROVE k + 1 \in T
  <2>1. k + 1 <= n => k + 1 \in 1..n /\ k <= n /\ (k + 1) - 1 = k
    BY <1>0
  <2>2. k + 1 <= n => g[k + 1] = g[k]
    BY <1>1, <2>1
  <2> QED BY <2>1, <2>2
<1>4. T = Nat
  <2> HIDE DEF T
  <2>1. T \in SUBSET Nat
    BY DEF T
  <2> QED BY <1>2, <1>3, <2>1, NatInd
<1>5. g[n] = <<>>
  BY <1>0, <1>4
<1> QED BY <1>1, <1>5

\* A line is live if no block scalar that a live line opens goes on to it.
LEMMA LiveIs ==
    ASSUME NEW lines \in Seq(Line), NEW i \in 1..Len(lines)
    PROVE  Live(lines)[i] = ~ \E h \in 1..(i - 1) :
                /\ Live(lines)[h] /\ lines[h].opens
                /\ \A k \in (h + 1)..i : lines[k].blank \/ lines[k].indent > lines[h].parent
<1> DEFINE n == Len(lines)
           Inside(h, m) == \A k \in (h + 1)..m : lines[k].blank \/ lines[k].indent > lines[h].parent
           Alone(L, m) == ~ \E h \in 1..(m - 1) : L[h] /\ lines[h].opens /\ Inside(h, m)
           Good(m, L) == L \in [1..m -> BOOLEAN] /\ \A k \in 1..m : L[k] = Alone(L, k)
           T == {m \in Nat : m <= n => \E L : Good(m, L)}
           Body(L) == [m \in 1..n |-> Alone(L, m)]
<1>0. n \in Nat
  BY LenProperties
<1>1. 0 \in T
  <2>1. Good(0, [k \in 1..0 |-> TRUE])
    OBVIOUS
  <2> HIDE DEF Good
  <2> QED BY <2>1
<1>2. ASSUME NEW m \in Nat, NEW L, Good(m, L) PROVE \E M : Good(m + 1, M)
  <2> DEFINE M == [k \in 1..(m + 1) |-> IF k = m + 1 THEN Alone(L, m + 1) ELSE L[k]]
  <2> HIDE DEF Inside
  <2>4. Alone(L, m + 1) \in BOOLEAN
    OBVIOUS
  <2>1. M \in [1..(m + 1) -> BOOLEAN]
    <3> SUFFICES ASSUME NEW k \in 1..(m + 1)
                 PROVE  (IF k = m + 1 THEN Alone(L, m + 1) ELSE L[k]) \in BOOLEAN
      OBVIOUS
    <3> HIDE DEF Alone
    <3>1. k = m + 1 \/ k \in 1..m
      OBVIOUS
    <3> QED BY <3>1, <2>4, <1>2
  <2>2. ASSUME NEW k \in 1..(m + 1) PROVE M[k] = Alone(M, k)
    <3>1. \A h \in 1..(k - 1) : h \in 1..m /\ h \in 1..(m + 1) /\ h # m + 1
      OBVIOUS
    <3>2. \A h \in 1..(k - 1) : M[h] = L[h]
      BY <3>1
    <3>3. Alone(M, k) = Alone(L, k)
      BY <3>2
    <3>4. M[k] = Alone(L, k)
      <4>1. k = m + 1 \/ k \in 1..m
        OBVIOUS
      <4> QED BY <4>1, <1>2
    <3> QED BY <3>3, <3>4
  <2>3. Good(m + 1, M)
    BY <2>1, <2>2
  <2> HIDE DEF Good, M
  <2> QED BY <2>3
<1>3. \A m \in T : m + 1 \in T
  <2> HIDE DEF Good
  <2> SUFFICES ASSUME NEW m \in T, m + 1 <= n PROVE \E L : Good(m + 1, L)
    OBVIOUS
  <2>1. m \in Nat /\ m <= n
    BY <1>0
  <2>2. PICK L : Good(m, L)
    BY <2>1
  <2> QED BY <2>1, <2>2, <1>2
<1>4. T = Nat
  <2> HIDE DEF T
  <2>1. T \in SUBSET Nat
    BY DEF T
  <2> QED BY <2>1, <1>1, <1>3, NatInd
<1>5. PICK L : Good(n, L)
  <2> HIDE DEF Good
  <2> QED BY <1>0, <1>4
<1>6. L = Body(L)
  <2> HIDE DEF Alone
  <2> QED BY <1>5
<1>7. Live(lines) = CHOOSE M : M = Body(M)
  BY DEF Live
<1>8. Live(lines) = Body(Live(lines))
  <2> HIDE DEF Body
  <2> QED BY <1>6, <1>7
<1>9. Live(lines)[i] = Alone(Live(lines), i)
  <2> HIDE DEF Alone
  <2> QED BY <1>8
<1> QED BY <1>9

\* What the scan has found so far.
Scans == [blocked : BOOLEAN, scalar : Int, fileWide : BOOLEAN, lines : SUBSET Nat]

\* The scan of a line finds such a thing again.
LEMMA ScanType ==
    ASSUME NEW s \in Scans, NEW line \in Line, NEW n \in Nat, NEW i \in 1..n
    PROVE  Scan(s, line, i, n) \in Scans
<1>1. Bracketed(s, line, i) \in SUBSET Nat
  BY DEF Bracketed, Scans
<1>2. Directed(line, i, n) \in SUBSET Nat
  <2>1. i \in Nat /\ i + 1 \in Nat
    OBVIOUS
  <2>2. Directed(line, i, n) \in {{i}, {i + 1}, {}}
    BY DEF Directed
  <2> QED BY <2>1, <2>2
<1>3. line.indent \in Nat /\ line.dashes \in Nat /\ -1 \in Int
  BY DEF Line
<1>4. CASE InScalar(s, line)
  BY <1>1, <1>4 DEF Scan, Scans
<1>5. CASE ~InScalar(s, line)
  <2>1. Bracketed(s, line, i) \cup Directed(line, i, n) \in SUBSET Nat
    BY <1>1, <1>2
  <2>2. blockScalarParentIndent(line) \in Int
    BY <1>3 DEF blockScalarParentIndent
  <2>3. (line.directive = "disable" \/ (s.blocked /\ line.directive # "enable")) \in BOOLEAN
    OBVIOUS
  <2>4. (s.fileWide \/ line.directive = "disable-file") \in BOOLEAN
    OBVIOUS
  <2> QED BY <1>5, <2>1, <2>2, <2>3, <2>4 DEF Scan, Scans
<1> QED BY <1>4, <1>5

\* suppress.go:29-57, the scan goes along the lines.
LEMMA ScanChain ==
    ASSUME NEW lines \in Seq(Line)
    PROVE  \E g \in [0..Len(lines) -> Scans] :
              /\ g[0] = NewSuppressor /\ ParseSuppressions(lines) = g[Len(lines)]
              /\ \A k \in 1..Len(lines) : g[k] = Scan(g[k - 1], lines[k], k, Len(lines))
<1> DEFINE n == Len(lines)
           idx == [k \in 1..n |-> k]
           step == [x \in Scans \X (1..n) |-> Scan(x[1], lines[x[2]], x[2], n)]
           Body(h) == [s \in SUBSET (1..n) |->
                          IF s = {} THEN NewSuppressor
                          ELSE Scan(h[s \ {Max(s)}], lines[idx[Max(s)]], idx[Max(s)], n)]
           iter == CHOOSE h : h = Body(h)
<1>0. n \in Nat /\ NewSuppressor \in Scans /\ \A k \in 1..n : lines[k] \in Line
  BY LenProperties, ElementOfSeq DEF NewSuppressor, Scans
<1>1. step \in [Scans \X (1..n) -> Scans]
  BY <1>0, ScanType
<1>2. PICK h, g : FoldOf(h, g, n, Scans, NewSuppressor, step)
  <2> HIDE DEF step, n
  <2> QED BY <1>0, <1>1, Chain
<1>3. h \in [SUBSET (1..n) -> Scans] /\ g \in [0..n -> Scans] /\ g[0] = NewSuppressor
  BY <1>2 DEF FoldOf
<1>4. \A k \in 1..n : g[k] = Scan(g[k - 1], lines[k], k, n)
  <2> TAKE k \in 1..n
  <2>1. g[k] = step[<<g[k - 1], k>>]
    BY <1>2 DEF FoldOf
  <2>2. k - 1 \in 0..n
    BY <1>0
  <2>3. g[k - 1] \in Scans
    BY <1>3, <2>2
  <2> QED BY <2>1, <2>3
<1>5. h = Body(h)
  <2> SUFFICES ASSUME NEW s \in SUBSET (1..n) PROVE h[s] = Body(h)[s]
    BY <1>3
  <2>1. h[s] = IF s = {} THEN NewSuppressor ELSE step[<<h[s \ {Max(s)}], Max(s)>>]
    BY <1>2 DEF FoldOf, IsFold
  <2>2. CASE s = {}
    BY <2>1, <2>2
  <2>3. CASE s # {}
    <3>1. Max(s) \in 1..n
      BY <1>0, <2>3, MaxIn
    <3>2. h[s \ {Max(s)}] \in Scans
      BY <1>3
    <3> QED BY <2>1, <2>3, <3>1, <3>2
  <2> QED BY <2>2, <2>3
<1>6. iter = Body(iter)
  <2> HIDE DEF Body
  <2> QED BY <1>5
<1>7. ParseSuppressions(lines) = iter[1..n]
  BY DEF ParseSuppressions, FoldLeft, MapThenFoldSet
<1> HIDE DEF iter
<1>8. iter[1..n] = g[n]
  <2>1. iter[{}] = NewSuppressor
    BY <1>6
  <2>2. ASSUME NEW s \in SUBSET (1..n), s # {}, iter[s \ {Max(s)}] \in Scans
        PROVE  iter[s] = step[<<iter[s \ {Max(s)}], Max(s)>>]
    <3>1. Max(s) \in 1..n
      BY <1>0, <2>2, MaxIn
    <3>2. iter[s] = Body(iter)[s]
      BY <1>6
    <3> QED BY <2>2, <3>1, <3>2
  <2> HIDE DEF step, n, Body
  <2>3. Steps(iter, n, Scans, NewSuppressor, step)
    BY <2>1, <2>2 DEF Steps
  <2> QED BY <1>0, <1>2, <2>3, FoldsAlong
<1> QED BY <1>3, <1>4, <1>7, <1>8

\* The block scalar line h opens goes on past line k.
Open(lines, h, k) ==
    /\ Live(lines)[h] /\ lines[h].opens
    /\ \A j \in (h + 1)..k : lines[j].blank \/ lines[j].indent > lines[h].parent

\* After line k, a disable is in force.
Disabled(lines, k) ==
    \E j \in 1..k : Says(lines, j, "disable") /\ \A m \in 1..k : m > j => ~Says(lines, m, "enable")

\* The directives of the first k lines name line i.
Named(lines, i, k) ==
    \/ i \in 1..k /\ Disabled(lines, i - 1)
    \/ i \in 1..k /\ Says(lines, i, "disable-line") /\ lines[i].code
    \/ /\ i - 1 \in 1..k /\ i <= Len(lines)
       /\ Says(lines, i - 1, "disable-line") /\ ~lines[i - 1].code

\* What the scan knows after k lines is what their directives say.
Scanned(lines, k, s) ==
    /\ IF s.scalar = -1 THEN \A h \in 1..k : ~Open(lines, h, k)
       ELSE \E h \in 1..k : Open(lines, h, k) /\ lines[h].parent = s.scalar
    /\ s.blocked <=> Disabled(lines, k)
    /\ s.fileWide <=> \E j \in 1..k : Says(lines, j, "disable-file")
    /\ \A i \in Nat : i \in s.lines <=> Named(lines, i, k)

\* No two block scalars are open at once.
LEMMA OneOpen ==
    ASSUME NEW lines \in Seq(Line), NEW k \in 0..Len(lines),
           NEW h \in 1..k, NEW j \in 1..k, Open(lines, h, k), Open(lines, j, k)
    PROVE  h = j
<1> SUFFICES ASSUME NEW p \in 1..k, NEW q \in 1..k, p < q,
                    Open(lines, p, k), Open(lines, q, k)
             PROVE  FALSE
  OBVIOUS
<1>1. Len(lines) \in Nat /\ q \in 1..Len(lines) /\ p \in 1..(q - 1)
  BY LenProperties
<1>2. Live(lines)[p] /\ lines[p].opens /\ Live(lines)[q]
  BY DEF Open
<1>3. \A m \in (p + 1)..q : m \in (p + 1)..k
  BY <1>1
<1>4. \A m \in (p + 1)..q : lines[m].blank \/ lines[m].indent > lines[p].parent
  BY <1>3 DEF Open
<1> QED BY <1>1, <1>2, <1>4, LiveIs

\* What the scan takes for the content of a block scalar is what is not live.
LEMMA InScalarOrLive ==
    ASSUME NEW lines \in Seq(Line), NEW k \in 1..Len(lines), NEW s \in Scans,
           HeadersFollowKeys(lines), Scanned(lines, k - 1, s)
    PROVE  InScalar(s, lines[k]) <=> ~Live(lines)[k]
<1>0. Len(lines) \in Nat /\ lines[k] \in Line /\ k - 1 \in 0..Len(lines)
      /\ \A h \in 1..(k - 1) : lines[h] \in Line
  BY LenProperties, ElementOfSeq
<1>1. ~Live(lines)[k] <=> \E h \in 1..(k - 1) : Open(lines, h, k)
  BY LiveIs DEF Open
<1>2. ASSUME NEW h \in 1..(k - 1)
      PROVE  Open(lines, h, k) <=> /\ Open(lines, h, k - 1)
                                   /\ lines[k].blank \/ lines[k].indent > lines[h].parent
  <2>1. (h + 1)..k = ((h + 1)..(k - 1)) \cup {k}
    BY <1>0
  <2> QED BY <2>1 DEF Open
<1>3. s.scalar = -1 => ~InScalar(s, lines[k]) /\ \A h \in 1..(k - 1) : ~Open(lines, h, k)
  BY <1>2 DEF Scanned, InScalar
<1>4. ASSUME s.scalar # -1 PROVE InScalar(s, lines[k]) <=> \E h \in 1..(k - 1) : Open(lines, h, k)
  <2>1. PICK h \in 1..(k - 1) : Open(lines, h, k - 1) /\ lines[h].parent = s.scalar
    BY <1>4 DEF Scanned
  <2>2. s.scalar >= 0
    <3>1. lines[h] \in Line /\ lines[h].opens /\ h \in 1..Len(lines)
      BY <1>0, <2>1 DEF Open
    <3>2. lines[h].parent = lines[h].indent + lines[h].dashes
      BY <3>1 DEF HeadersFollowKeys
    <3>3. lines[h].indent \in Nat /\ lines[h].dashes \in Nat
      BY <3>1 DEF Line
    <3> QED BY <2>1, <3>2, <3>3
  <2>3. \A j \in 1..(k - 1) : Open(lines, j, k - 1) => j = h
    BY <1>0, <2>1, OneOpen
  <2>4. InScalar(s, lines[k]) <=> Open(lines, h, k)
    BY <1>2, <2>1, <2>2 DEF InScalar
  <2> QED BY <1>2, <2>3, <2>4
<1> QED BY <1>1, <1>3, <1>4

\* Whether a disable is in force changes with live directives only.
LEMMA DisabledNext ==
    ASSUME NEW lines, NEW k \in Nat, k # 0
    PROVE  Disabled(lines, k) <=> \/ Says(lines, k, "disable")
                                  \/ Disabled(lines, k - 1) /\ ~Says(lines, k, "enable")
<1>1. 1..k = (1..(k - 1)) \cup {k} /\ \A j \in 1..(k - 1) : j < k /\ ~(k < j)
  OBVIOUS
<1>2. ~(Says(lines, k, "disable") /\ Says(lines, k, "enable"))
  BY DEF Says
<1>3. CASE Says(lines, k, "disable")
  <2>1. k \in 1..k /\ \A m \in 1..k : ~(m > k)
    OBVIOUS
  <2> QED BY <1>3, <2>1 DEF Disabled
<1>4. CASE ~Says(lines, k, "disable")
  <2>1. Disabled(lines, k) <=>
           \E j \in 1..(k - 1) : /\ Says(lines, j, "disable") /\ ~Says(lines, k, "enable")
                                 /\ \A m \in 1..(k - 1) : m > j => ~Says(lines, m, "enable")
    BY <1>1, <1>4 DEF Disabled
  <2> QED BY <1>4, <2>1 DEF Disabled
<1> QED BY <1>3, <1>4

\* The scan keeps up with what the directives say, line by line.
LEMMA ScanStep ==
    ASSUME NEW lines \in Seq(Line), NEW k \in 1..Len(lines), NEW s \in Scans,
           HeadersFollowKeys(lines), Scanned(lines, k - 1, s)
    PROVE  Scanned(lines, k, Scan(s, lines[k], k, Len(lines)))
<1> DEFINE n == Len(lines)
           t == Scan(s, lines[k], k, n)
<1>0. n \in Nat /\ lines[k] \in Line /\ k \in Nat /\ k # 0 /\ k - 1 \in Nat
      /\ 1..k = (1..(k - 1)) \cup {k}
  BY LenProperties, ElementOfSeq
<1>1. InScalar(s, lines[k]) <=> ~Live(lines)[k]
  BY InScalarOrLive
<1>2. Disabled(lines, k) <=> \/ Says(lines, k, "disable")
                             \/ Disabled(lines, k - 1) /\ ~Says(lines, k, "enable")
  BY <1>0, DisabledNext
<1>3. \A i \in Nat : Named(lines, i, k) <=>
         \/ Named(lines, i, k - 1)
         \/ i = k /\ Disabled(lines, k - 1)
         \/ i = k /\ Says(lines, k, "disable-line") /\ lines[k].code
         \/ i = k + 1 /\ k < n /\ Says(lines, k, "disable-line") /\ ~lines[k].code
  <2> SUFFICES ASSUME NEW i \in Nat
               PROVE  Named(lines, i, k) <=>
                         \/ Named(lines, i, k - 1)
                         \/ i = k /\ Disabled(lines, k - 1)
                         \/ i = k /\ Says(lines, k, "disable-line") /\ lines[k].code
                         \/ i = k + 1 /\ k < n /\ Says(lines, k, "disable-line") /\ ~lines[k].code
    OBVIOUS
  <2>1. i \in 1..k <=> i \in 1..(k - 1) \/ i = k
    BY <1>0
  <2>2. i - 1 \in 1..k <=> i - 1 \in 1..(k - 1) \/ i = k + 1
    BY <1>0
  <2>3. i = k + 1 => (i <= n <=> k < n) /\ i - 1 = k
    BY <1>0
  <2>4. i = k + 1 => i \notin 1..(k - 1) /\ i # k
    BY <1>0
  <2> QED BY <2>1, <2>2, <2>3, <2>4 DEF Named
<1>4. CASE ~Live(lines)[k]
  <2>1. t = [s EXCEPT !.lines = Bracketed(s, lines[k], k)]
    BY <1>1, <1>4 DEF Scan
  <2>2. t.scalar = s.scalar /\ t.blocked = s.blocked /\ t.fileWide = s.fileWide
        /\ t.lines = Bracketed(s, lines[k], k)
    BY <2>1 DEF Scans
  <2>3. \A d : ~Says(lines, k, d)
    BY <1>4 DEF Says
  <2>4. s.scalar # -1 /\ (lines[k].blank \/ lines[k].indent > s.scalar)
    BY <1>1, <1>4 DEF InScalar
  <2>5. PICK h \in 1..(k - 1) : Open(lines, h, k - 1) /\ lines[h].parent = s.scalar
    BY <2>4 DEF Scanned
  <2>6. h \in 1..k /\ Open(lines, h, k)
    <3>1. (h + 1)..k = ((h + 1)..(k - 1)) \cup {k} /\ h \in 1..k
      BY <1>0
    <3> QED BY <2>4, <2>5, <3>1 DEF Open
  <2>7. t.blocked <=> Disabled(lines, k)
    BY <1>2, <2>2, <2>3 DEF Scanned
  <2>8. t.fileWide <=> \E j \in 1..k : Says(lines, j, "disable-file")
    BY <1>0, <2>2, <2>3 DEF Scanned
  <2>9. \A i \in Nat : i \in t.lines <=> Named(lines, i, k)
    <3>1. \A i \in Nat : i \in t.lines <=> i \in s.lines \/ (i = k /\ Disabled(lines, k - 1))
      BY <2>2 DEF Bracketed, Scanned
    <3>2. \A i \in Nat : i \in s.lines <=> Named(lines, i, k - 1)
      BY DEF Scanned
    <3> QED BY <1>3, <2>3, <3>1, <3>2
  <2> QED BY <2>2, <2>4, <2>5, <2>6, <2>7, <2>8, <2>9 DEF Scanned
<1>5. CASE Live(lines)[k]
  <2>1. t = [blocked  |-> lines[k].directive = "disable" \/ (s.blocked /\ lines[k].directive # "enable"),
             scalar   |-> blockScalarParentIndent(lines[k]),
             fileWide |-> s.fileWide \/ lines[k].directive = "disable-file",
             lines    |-> Bracketed(s, lines[k], k) \cup Directed(lines[k], k, n)]
    BY <1>1, <1>5 DEF Scan
  <2>2. \A d : Says(lines, k, d) <=> lines[k].directive = d
    BY <1>5 DEF Says
  <2>3. IF t.scalar = -1 THEN \A h \in 1..k : ~Open(lines, h, k)
        ELSE \E h \in 1..k : Open(lines, h, k) /\ lines[h].parent = t.scalar
    <3>1. CASE lines[k].opens
      <4>1. t.scalar = lines[k].parent /\ t.scalar # -1
        <5>1. t.scalar = lines[k].indent + lines[k].dashes
          BY <2>1, <3>1 DEF blockScalarParentIndent
        <5>2. lines[k].parent = lines[k].indent + lines[k].dashes
          BY <3>1 DEF HeadersFollowKeys
        <5>3. lines[k].indent \in Nat /\ lines[k].dashes \in Nat
          BY <1>0 DEF Line
        <5> HIDE DEF t
        <5> QED BY <5>1, <5>2, <5>3
      <4>2. (k + 1)..k = {} /\ k \in 1..k
        BY <1>0
      <4>3. Open(lines, k, k)
        BY <1>5, <3>1, <4>2 DEF Open
      <4> QED BY <4>1, <4>2, <4>3
    <3>2. CASE ~lines[k].opens
      <4>1. t.scalar = -1
        BY <2>1, <3>2 DEF blockScalarParentIndent
      <4>2. ~Open(lines, k, k)
        BY <3>2 DEF Open
      <4>3. \A h \in 1..(k - 1) : ~Open(lines, h, k)
        BY <1>5, LiveIs DEF Open
      <4> QED BY <1>0, <4>1, <4>2, <4>3
    <3> QED BY <3>1, <3>2
  <2>4. t.blocked <=> Disabled(lines, k)
    <3> HIDE DEF t
    <3>1. t.blocked = (lines[k].directive = "disable" \/ (s.blocked /\ lines[k].directive # "enable"))
      BY <2>1
    <3>2. s.blocked <=> Disabled(lines, k - 1)
      BY DEF Scanned
    <3> QED BY <1>2, <2>2, <3>1, <3>2
  <2>5. t.fileWide <=> \E j \in 1..k : Says(lines, j, "disable-file")
    <3> HIDE DEF t
    <3>1. t.fileWide = (s.fileWide \/ lines[k].directive = "disable-file")
      BY <2>1
    <3>2. s.fileWide <=> \E j \in 1..(k - 1) : Says(lines, j, "disable-file")
      BY DEF Scanned
    <3> QED BY <1>0, <2>2, <3>1, <3>2
  <2>6. \A i \in Nat : i \in t.lines <=> Named(lines, i, k)
    <3>1. \A i \in Nat : i \in Bracketed(s, lines[k], k) <=> i \in s.lines \/ (i = k /\ Disabled(lines, k - 1))
      BY DEF Bracketed, Scanned
    <3>2. \A i \in Nat : i \in Directed(lines[k], k, n) <=>
             \/ i = k /\ lines[k].directive = "disable-line" /\ lines[k].code
             \/ i = k + 1 /\ k < n /\ lines[k].directive = "disable-line" /\ ~lines[k].code
      BY DEF Directed
    <3>3. t.lines = Bracketed(s, lines[k], k) \cup Directed(lines[k], k, n)
      BY <2>1
    <3>4. \A i \in Nat : i \in s.lines <=> Named(lines, i, k - 1)
      BY DEF Scanned
    <3> QED BY <1>3, <2>2, <3>1, <3>2, <3>3, <3>4
  <2> QED BY <2>3, <2>4, <2>5, <2>6 DEF Scanned
<1> QED BY <1>4, <1>5

\* So it does to the end of the text.
LEMMA ScanMeans ==
    ASSUME NEW lines \in Seq(Line), HeadersFollowKeys(lines)
    PROVE  /\ ParseSuppressions(lines) \in Scans
           /\ Scanned(lines, Len(lines), ParseSuppressions(lines))
<1> DEFINE n == Len(lines)
<1>0. n \in Nat
  BY LenProperties
<1>1. PICK g \in [0..n -> Scans] :
         /\ g[0] = NewSuppressor /\ ParseSuppressions(lines) = g[n]
         /\ \A k \in 1..n : g[k] = Scan(g[k - 1], lines[k], k, n)
  BY ScanChain
<1> DEFINE T == {k \in Nat : k <= n => Scanned(lines, k, g[k])}
<1>2. 0 \in T
  <2>1. 1..0 = {} /\ \A i \in Nat : i - 1 \notin 1..0
    OBVIOUS
  <2>2. Scanned(lines, 0, NewSuppressor)
    BY <2>1 DEF Scanned, NewSuppressor, Disabled, Named
  <2> QED BY <1>1, <2>2
<1>3. ASSUME NEW k \in T PROVE k + 1 \in T
  <2>1. k + 1 <= n => k + 1 \in 1..n /\ k <= n /\ (k + 1) - 1 = k /\ k \in 0..n
    BY <1>0
  <2>2. ASSUME k + 1 <= n PROVE Scanned(lines, k + 1, g[k + 1])
    <3>1. Scanned(lines, k, g[k]) /\ g[k] \in Scans
      BY <1>1, <2>1, <2>2
    <3>2. g[k + 1] = Scan(g[k], lines[k + 1], k + 1, n)
      BY <1>1, <2>1, <2>2
    <3> QED BY <2>1, <2>2, <3>1, <3>2, ScanStep
  <2> QED BY <2>1, <2>2
<1>4. T = Nat
  <2> HIDE DEF T
  <2>1. T \in SUBSET Nat
    BY DEF T
  <2> QED BY <1>2, <1>3, <2>1, NatInd
<1>5. Scanned(lines, n, g[n]) /\ g[n] \in Scans
  BY <1>0, <1>4
<1> QED BY <1>1, <1>5

\* A line is suppressed exactly if the scan has noted it, or the file.
LEMMA SuppressedIs ==
    ASSUME NEW lines \in Seq(Line), HeadersFollowKeys(lines), NEW i \in 1..Len(lines)
    PROVE  Suppressed(lines, i) <=> \/ ParseSuppressions(lines).fileWide
                                    \/ i \in ParseSuppressions(lines).lines
<1>0. Len(lines) \in Nat /\ i \in Nat /\ i <= Len(lines)
      /\ (i > 1 <=> i - 1 \in 1..Len(lines))
  BY LenProperties
<1>1. Suppressed(lines, i) <=> \/ \E j \in 1..Len(lines) : Says(lines, j, "disable-file")
                               \/ Disabled(lines, i - 1)
                               \/ Says(lines, i, "disable-line") /\ lines[i].code
                               \/ i > 1 /\ Says(lines, i - 1, "disable-line") /\ ~lines[i - 1].code
  BY DEF Suppressed, Disabled
<1>2. Named(lines, i, Len(lines)) <=>
         \/ Disabled(lines, i - 1)
         \/ Says(lines, i, "disable-line") /\ lines[i].code
         \/ i > 1 /\ Says(lines, i - 1, "disable-line") /\ ~lines[i - 1].code
  BY <1>0 DEF Named
<1> QED BY <1>0, <1>1, <1>2, ScanMeans DEF Scanned

\* suppress.go:59-66, Filter leaves out exactly what is on suppressed lines.
LEMMA FilterAsDirected ==
    ASSUME NEW lines \in Seq(Line), HeadersFollowKeys(lines), NEW D, NEW diags \in Seq(D),
           \A k \in 1..Len(diags) : diags[k].line \in 1..Len(lines)
    PROVE  Filter(ParseSuppressions(lines), diags)
              = Without({i \in 1..Len(lines) : Suppressed(lines, i)}, diags)
<1> DEFINE s == ParseSuppressions(lines)
           left == {i \in 1..Len(lines) : Suppressed(lines, i)}
<1>1. \A i \in 1..Len(lines) : i \in left <=> s.fileWide \/ i \in s.lines
  BY SuppressedIs
<1>2. CASE s.fileWide
  <2>1. 1..Len(diags) \subseteq {k \in 1..Len(diags) : diags[k].line \in left}
    BY <1>1, <1>2
  <2>2. Without(left, diags) = <<>>
    BY <2>1, OmitAll DEF Without
  <2> QED BY <1>2, <2>2 DEF Filter
<1>3. CASE ~s.fileWide
  <2>1. {k \in 1..Len(diags) : diags[k].line \in left}
           = {k \in 1..Len(diags) : diags[k].line \in s.lines}
    BY <1>1, <1>3
  <2> QED BY <1>3, <2>1 DEF Filter, Without
<1> QED BY <1>2, <1>3

-----------------------------------------------------------------------------
(* The schema of a document                                                 *)

\* A glob of the settings.
GlobType == [ref : Ref, literals : Nat]

\* A glob, or none that is broader than any.
BestType == [ref : Ref \cup {None}, literals : Int]

\* None yet.
NoGlob == [ref |-> None, literals |-> -1]

\* The narrower of two globs, of two as narrow the first.
Narrower(best, glob) == IF glob.literals > best.literals THEN glob ELSE best

\* The least of some numbers, if there is one.
LEMMA MinIs ==
    ASSUME NEW S \in SUBSET Int, NEW m \in S, \A x \in S : m <= x
    PROVE  Min(S) = m
<1>1. \E x \in S : \A y \in S : x <= y
  BY m \in Int
<1>2. Min(S) \in S /\ \A y \in S : Min(S) <= y
  BY <1>1 DEF Min
<1>3. Min(S) \in Int /\ m \in Int /\ Min(S) <= m /\ m <= Min(S)
  BY <1>2
<1> QED BY <1>3

\* detect.go and resolver.go, the globs are compared in their order.
LEMMA NarrowestChain ==
    ASSUME NEW f, files[f].globs \in Seq(GlobType)
    PROVE  \E g \in [0..Len(files[f].globs) -> BestType] :
              /\ g[0] = NoGlob /\ MatchSettings(f) = g[Len(files[f].globs)].ref
              /\ \A k \in 1..Len(files[f].globs) : g[k] = Narrower(g[k - 1], files[f].globs[k])
<1> DEFINE globs == files[f].globs
           n == Len(globs)
           step == [x \in BestType \X (1..n) |-> Narrower(x[1], globs[x[2]])]
           Body(h) == [s \in SUBSET (1..n) |->
                          IF s = {} THEN NoGlob
                          ELSE IF globs[Max(s)].literals > h[s \ {Max(s)}].literals
                               THEN globs[Max(s)] ELSE h[s \ {Max(s)}]]
           iter == CHOOSE h : h = Body(h)
<1>0. n \in Nat /\ NoGlob \in BestType /\ (\A k \in 1..n : globs[k] \in BestType) /\ DOMAIN globs = 1..n
  <2>1. n \in Nat /\ DOMAIN globs = 1..n
    BY LenProperties
  <2>2. \A k \in 1..n : globs[k] \in GlobType
    BY ElementOfSeq
  <2>3. NoGlob \in BestType /\ \A x \in GlobType : x \in BestType
    BY DEF NoGlob, GlobType, BestType
  <2> QED BY <2>1, <2>2, <2>3
<1>1. step \in [BestType \X (1..n) -> BestType]
  BY <1>0 DEF Narrower
<1>2. PICK h, g : FoldOf(h, g, n, BestType, NoGlob, step)
  <2> HIDE DEF step, n
  <2> QED BY <1>0, <1>1, Chain
<1>3. h \in [SUBSET (1..n) -> BestType] /\ g \in [0..n -> BestType] /\ g[0] = NoGlob
  BY <1>2 DEF FoldOf
<1>4. \A k \in 1..n : g[k] = Narrower(g[k - 1], globs[k])
  <2> TAKE k \in 1..n
  <2>1. g[k] = step[<<g[k - 1], k>>]
    BY <1>2 DEF FoldOf
  <2>2. k - 1 \in 0..n
    BY <1>0
  <2>3. g[k - 1] \in BestType
    BY <1>3, <2>2
  <2> QED BY <2>1, <2>3
<1>5. h = Body(h)
  <2> SUFFICES ASSUME NEW s \in SUBSET (1..n) PROVE h[s] = Body(h)[s]
    BY <1>3
  <2>1. h[s] = IF s = {} THEN NoGlob ELSE step[<<h[s \ {Max(s)}], Max(s)>>]
    BY <1>2 DEF FoldOf, IsFold
  <2>2. CASE s = {}
    BY <2>1, <2>2
  <2>3. CASE s # {}
    <3>1. Max(s) \in 1..n
      BY <1>0, <2>3, MaxIn
    <3>2. h[s \ {Max(s)}] \in BestType
      BY <1>3
    <3> QED BY <2>1, <2>3, <3>1, <3>2 DEF Narrower
  <2> QED BY <2>2, <2>3
<1>6. iter = Body(iter)
  <2> HIDE DEF Body
  <2> QED BY <1>5
<1>7. MatchSettings(f) = iter[1..n].ref
  BY <1>0 DEF MatchSettings, FoldLeft, MapThenFoldSet, NoGlob
<1> HIDE DEF iter
<1>8. iter[1..n] = g[n]
  <2>1. iter[{}] = NoGlob
    BY <1>6
  <2>2. ASSUME NEW s \in SUBSET (1..n), s # {}, iter[s \ {Max(s)}] \in BestType
        PROVE  iter[s] = step[<<iter[s \ {Max(s)}], Max(s)>>]
    <3>1. Max(s) \in 1..n
      BY <1>0, <2>2, MaxIn
    <3>2. iter[s] = Body(iter)[s]
      BY <1>6
    <3> QED BY <2>2, <3>1, <3>2 DEF Narrower
  <2> HIDE DEF step, n, Body
  <2>3. Steps(iter, n, BestType, NoGlob, step)
    BY <2>1, <2>2 DEF Steps
  <2> QED BY <1>0, <1>2, <2>3, FoldsAlong
<1> QED BY <1>3, <1>4, <1>7, <1>8

\* i is the first of the first k globs with the most literals.
BestOf(globs, i, k) ==
    \A j \in 1..k : \/ globs[j].literals < globs[i].literals
                    \/ globs[j].literals = globs[i].literals /\ i <= j

\* A glob is chosen that none is narrower than and no earlier one as narrow as.
LEMMA Narrowest ==
    ASSUME NEW f, files[f].globs \in Seq(GlobType), files[f].globs # <<>>
    PROVE  \E i \in 1..Len(files[f].globs) :
              /\ BestOf(files[f].globs, i, Len(files[f].globs))
              /\ MatchSettings(f) = files[f].globs[i].ref
<1> DEFINE globs == files[f].globs
           n == Len(globs)
<1>0. n \in Nat /\ n # 0 /\ \A k \in 1..n : globs[k] \in GlobType
  BY LenProperties, ElementOfSeq, EmptySeq
<1>1. PICK g \in [0..n -> BestType] :
         /\ g[0] = NoGlob /\ MatchSettings(f) = g[n].ref
         /\ \A k \in 1..n : g[k] = Narrower(g[k - 1], globs[k])
  BY NarrowestChain
<1> DEFINE Good(k) == \E i \in 1..k : BestOf(globs, i, k) /\ g[k] = globs[i]
           T == {k \in Nat : k + 1 <= n => Good(k + 1)}
<1> HIDE DEF globs, n
<1>2. 0 \in T
  <2>1. 1 \in 1..n /\ 1..1 = {1} /\ 1 - 1 = 0
    BY <1>0
  <2>2. g[1] = globs[1]
    BY <1>0, <1>1, <2>1 DEF NoGlob, Narrower, GlobType
  <2>3. BestOf(globs, 1, 1)
    BY <2>1 DEF BestOf
  <2> QED BY <2>1, <2>2, <2>3
<1>3. ASSUME NEW k \in T PROVE k + 1 \in T
  <2> SUFFICES ASSUME k + 2 <= n PROVE Good(k + 2)
    <3> HIDE DEF Good
    <3>1. k \in Nat /\ k + 1 + 1 = k + 2
      OBVIOUS
    <3> QED BY <3>1
  <2>1. k \in Nat /\ k + 2 \in 1..n /\ (k + 2) - 1 = k + 1 /\ k + 1 <= n
        /\ 1..(k + 2) = (1..(k + 1)) \cup {k + 2} /\ \A i \in 1..(k + 1) : i \in 1..n
    BY <1>0
  <2>2. PICK i \in 1..(k + 1) : BestOf(globs, i, k + 1) /\ g[k + 1] = globs[i]
    BY <2>1
  <2>3. g[k + 2] = IF globs[k + 2].literals > globs[i].literals THEN globs[k + 2] ELSE globs[i]
    BY <1>1, <2>1, <2>2 DEF Narrower
  <2>4. \A p \in 1..n : globs[p].literals \in Int
    BY <1>0 DEF GlobType
  <2>5. CASE globs[k + 2].literals > globs[i].literals
    <3>1. BestOf(globs, k + 2, k + 2)
      <4> SUFFICES ASSUME NEW p \in 1..(k + 1)
                   PROVE  globs[p].literals < globs[k + 2].literals
        BY <2>1 DEF BestOf
      <4>1. globs[p].literals <= globs[i].literals
        BY SMTT(30), <2>1, <2>2, <2>4 DEF BestOf
      <4> QED BY <2>1, <2>4, <2>5, <4>1
    <3>2. k + 2 \in 1..(k + 2)
      BY <2>1
    <3> QED BY <2>3, <2>5, <3>1, <3>2
  <2>6. CASE ~(globs[k + 2].literals > globs[i].literals)
    <3>1. i \in 1..(k + 2) /\ i <= k + 2
      BY <2>1
    <3>2. BestOf(globs, i, k + 2)
      BY <2>1, <2>2, <2>4, <2>6, <3>1 DEF BestOf
    <3> QED BY <2>3, <2>6, <3>1, <3>2
  <2> QED BY <2>5, <2>6
<1>4. T = Nat
  <2> HIDE DEF T
  <2>1. T \in SUBSET Nat
    BY DEF T
  <2> QED BY <1>2, <1>3, <2>1, NatInd
<1>5. Good(n)
  <2> HIDE DEF Good
  <2>1. n - 1 \in Nat /\ (n - 1) + 1 = n
    BY <1>0
  <2> QED BY <1>4, <2>1
<1> QED BY <1>1, <1>5 DEF globs, n

\* The modeline of the text is that of the first document to have one after nothing but
\* comments.
LEMMA FirstModeline ==
    ASSUME NEW f, NEW D, files[f].docs \in Seq(D)
    PROVE  LET docs == files[f].docs
               First(i) == /\ docs[i].modeline # None
                           /\ \A j \in 1..(i - 1) : docs[j].empty /\ docs[j].modeline = None
           IN  FindModelineSchema(f) = IF \E i \in Docs(f) : First(i)
                                       THEN docs[CHOOSE i \in Docs(f) : First(i)].modeline
                                       ELSE None
<1> DEFINE docs == files[f].docs
           n == Len(docs)
           First(i) == /\ docs[i].modeline # None
                       /\ \A j \in 1..(i - 1) : docs[j].empty /\ docs[j].modeline = None
           leading == {i \in 1..n : \A j \in 1..(i - 1) : docs[j].empty}
           modelines == {i \in leading : docs[i].modeline # None}
<1>0. n \in Nat /\ Docs(f) = 1..n
  BY LenProperties DEF Docs
<1>1. FindModelineSchema(f) = IF modelines = {} THEN None ELSE docs[Min(modelines)].modeline
  BY DEF FindModelineSchema, Docs
<1>2. \A i \in 1..n : First(i) => i \in modelines
  OBVIOUS
<1>3. CASE modelines = {}
  <2> HIDE DEF First, modelines
  <2> QED BY <1>0, <1>1, <1>2, <1>3 DEF First
<1>4. CASE modelines # {}
  <2>1. modelines \in SUBSET Nat /\ modelines \in SUBSET Int
    BY <1>0
  <2>2. PICK m \in modelines : \A x \in modelines : m <= x
    <3> HIDE DEF modelines
    <3> QED BY <1>4, <2>1, LeastNat
  <2>3. Min(modelines) = m
    <3> HIDE DEF modelines
    <3> QED BY <2>1, <2>2, MinIs
  <2>4. m \in 1..n /\ First(m)
    <3>1. m \in 1..n /\ docs[m].modeline # None /\ \A j \in 1..(m - 1) : docs[j].empty
      OBVIOUS
    <3>2. ASSUME NEW j \in 1..(m - 1) PROVE docs[j].modeline = None
      <4>1. j \in 1..n /\ ~(m <= j) /\ \A i \in 1..(j - 1) : i \in 1..(m - 1)
        BY <1>0, <3>1
      <4>2. j \in leading
        BY <3>1, <4>1
      <4> QED BY <2>2, <4>1, <4>2
    <3> QED BY <3>1, <3>2
  <2>5. \A i \in 1..n : First(i) => i = m
    <3> SUFFICES ASSUME NEW i \in 1..n, First(i), i # m PROVE FALSE
      OBVIOUS
    <3>1. i \in modelines
      BY <1>2
    <3>2. m <= i
      BY <2>2, <3>1
    <3>3. m \in 1..(i - 1)
      BY <1>0, <2>4, <3>2
    <3> QED BY <2>4, <3>3
  <2> HIDE DEF First, modelines
  <2>6. (CHOOSE i \in 1..n : First(i)) = m
    BY <2>4, <2>5
  <2> QED BY <1>0, <1>1, <1>4, <2>3, <2>4, <2>6 DEF First
<1> QED BY <1>3, <1>4

\* What validate was given is of the kind it may be given.
GivenOK ==
    /\ files \in Seq(FileOn(Nat)) /\ (\A f \in Files : WellFormed(files[f]))
    /\ broken \in SUBSET Ref /\ kubernetes \in BOOLEAN

\* What that means for one file.
LEMMA FileGiven ==
    ASSUME GivenOK, NEW f \in Files
    PROVE  /\ files[f] \in FileOn(1..Len(files[f].lines))
           /\ Len(files[f].lines) \in Nat /\ files[f].lines \in Seq(Line)
           /\ files[f].readable => 1 \in 1..Len(files[f].lines)
           /\ files[f].globs \in Seq(GlobType)
           /\ files[f].docs \in Seq(DocOn(1..Len(files[f].lines)))
           /\ Len(files[f].docs) \in Nat /\ Docs(f) = 1..Len(files[f].docs)
<1>1. WellFormed(files[f])
  BY DEF GivenOK
<1>2. files[f] \in FileOn(1..Len(files[f].lines)) /\ (files[f].readable => files[f].lines # <<>>)
  BY <1>1 DEF WellFormed
<1>3. /\ files[f].lines \in Seq(Line) /\ files[f].globs \in Seq(GlobType)
      /\ files[f].docs \in Seq(DocOn(1..Len(files[f].lines)))
  <2> DEFINE on == 1..Len(files[f].lines)
  <2> HIDE DEF on
  <2>1. files[f] \in FileOn(on)
    BY <1>2 DEF on
  <2>2. /\ files[f].lines \in Seq(Line) /\ files[f].globs \in Seq(GlobType)
        /\ files[f].docs \in Seq(DocOn(on))
    BY <2>1 DEF FileOn, GlobType
  <2> QED BY <2>2 DEF on
<1>4. files[f].lines # <<>> => Len(files[f].lines) # 0
  BY <1>3, EmptySeq
<1>5. Len(files[f].lines) \in Nat /\ Len(files[f].docs) \in Nat
  BY <1>3, LenProperties
<1> QED BY <1>2, <1>3, <1>4, <1>5 DEF Docs

\* A document is validated with the schema it is meant to ask for.
LEMMA AskedIs ==
    ASSUME GivenOK, NEW f \in Files, NEW doc
    PROVE  Asked(f, doc) = AskedFor(f, doc)
<1> DEFINE docs == files[f].docs
           globs == files[f].globs
           n == Len(globs)
           First(i) == /\ docs[i].modeline # None
                       /\ \A j \in 1..(i - 1) : docs[j].empty /\ docs[j].modeline = None
           Best(i) == \A j \in 1..n : \/ globs[j].literals < globs[i].literals
                                      \/ globs[j].literals = globs[i].literals /\ i <= j
           any == \E i \in Docs(f) : First(i)
           first == docs[CHOOSE i \in Docs(f) : First(i)].modeline
           narrowest == globs[CHOOSE i \in 1..n : Best(i)].ref
<1>1. FindModelineSchema(f) = IF any THEN first ELSE None
  BY FileGiven, FirstModeline
<1>2. any => first # None
  <2> SUFFICES ASSUME any PROVE First(CHOOSE i \in Docs(f) : First(i))
    OBVIOUS
  <2> HIDE DEF First
  <2> QED OBVIOUS
<1>3. globs # <<>> => MatchSettings(f) = narrowest
  <2> SUFFICES ASSUME globs # <<>> PROVE MatchSettings(f) = narrowest
    OBVIOUS
  <2>1. n \in Nat /\ \A k \in 1..n : globs[k].literals \in Int
    <3>1. globs \in Seq(GlobType)
      BY FileGiven
    <3> HIDE DEF globs
    <3>2. n \in Nat /\ \A k \in 1..n : globs[k] \in GlobType
      BY <3>1, LenProperties, ElementOfSeq
    <3> QED BY <3>2 DEF GlobType
  <2>2. PICK i \in 1..n : Best(i) /\ MatchSettings(f) = globs[i].ref
    BY FileGiven, Narrowest DEF BestOf
  <2> HIDE DEF globs, n
  <2>3. \A j \in 1..n : Best(j) => j = i
    <3> SUFFICES ASSUME NEW j \in 1..n, Best(j) PROVE j = i
      OBVIOUS
    <3>1. \/ globs[j].literals < globs[i].literals
          \/ globs[j].literals = globs[i].literals /\ i <= j
      BY <2>2
    <3>2. \/ globs[i].literals < globs[j].literals
          \/ globs[i].literals = globs[j].literals /\ j <= i
      OBVIOUS
    <3> QED BY <2>1, <3>1, <3>2
  <2> HIDE DEF Best
  <2>4. (CHOOSE j \in 1..n : Best(j)) = i
    BY <2>2, <2>3
  <2> QED BY <2>2, <2>4
<1>4. AskedFor(f, doc) = CASE doc.modeline # None -> doc.modeline
                           [] doc.modeline = None /\ any -> first
                           [] doc.modeline = None /\ ~any /\ globs # <<>> -> narrowest
                           [] OTHER -> files[f].fallback
  BY DEF AskedFor
<1>5. Asked(f, doc) = IF doc.modeline # None THEN doc.modeline ELSE Resolve(f)
  BY DEF Asked
<1>6. Resolve(f) = CASE FindModelineSchema(f) # None -> FindModelineSchema(f)
                     [] FindModelineSchema(f) = None /\ globs # <<>> -> MatchSettings(f)
                     [] OTHER -> files[f].fallback
  BY DEF Resolve
<1> HIDE DEF any, first, narrowest, globs
<1> QED BY <1>1, <1>2, <1>3, <1>4, <1>5, <1>6

\* That is a schema or none.
LEMMA AskedType ==
    ASSUME GivenOK, NEW f \in Files, NEW i \in Docs(f)
    PROVE  Asked(f, files[f].docs[i]) \in Ref \cup {None}
<1> DEFINE on == 1..Len(files[f].lines)
<1>0. files[f] \in FileOn(on) /\ files[f].docs \in Seq(DocOn(on)) /\ files[f].globs \in Seq(GlobType)
      /\ Len(files[f].docs) \in Nat /\ Docs(f) = 1..Len(files[f].docs)
  BY FileGiven
<1> HIDE DEF on
<1>1. \A j \in Docs(f) : files[f].docs[j] \in DocOn(on)
  BY <1>0, ElementOfSeq
<1>2. \A j \in Docs(f) : files[f].docs[j].modeline \in Ref \cup {None}
  BY <1>1 DEF DocOn
<1>3. files[f].fallback \in Ref \cup {None}
  BY <1>0 DEF FileOn
<1>4. files[f].globs # <<>> => MatchSettings(f) \in Ref
  <2> SUFFICES ASSUME files[f].globs # <<>> PROVE MatchSettings(f) \in Ref
    OBVIOUS
  <2>1. PICK k \in 1..Len(files[f].globs) : MatchSettings(f) = files[f].globs[k].ref
    BY <1>0, Narrowest
  <2>2. files[f].globs[k] \in GlobType
    BY <1>0, ElementOfSeq
  <2> QED BY <2>1, <2>2 DEF GlobType
<1>5. FindModelineSchema(f) \in Ref \cup {None}
  <2> DEFINE First(j) == /\ files[f].docs[j].modeline # None
                         /\ \A k \in 1..(j - 1) : files[f].docs[k].empty /\ files[f].docs[k].modeline = None
  <2>1. FindModelineSchema(f) = IF \E j \in Docs(f) : First(j)
                                THEN files[f].docs[CHOOSE j \in Docs(f) : First(j)].modeline ELSE None
    BY <1>0, FirstModeline
  <2> HIDE DEF First
  <2>2. (\E j \in Docs(f) : First(j)) => (CHOOSE j \in Docs(f) : First(j)) \in Docs(f)
    OBVIOUS
  <2> QED BY <1>2, <2>1, <2>2
<1>6. Resolve(f) \in Ref \cup {None}
  BY <1>3, <1>4, <1>5 DEF Resolve
<1> QED BY <1>2, <1>6 DEF Asked

-----------------------------------------------------------------------------
(* The results of documents                                                 *)

\* Diagnostics and results that are on the given lines.
DiagOn(on) ==
    [line : on, kind : {"load", "parse", "decode", "violation", "rendered", "render", "values"},
     ref : Ref \cup {None}, severity : {"error", "warning"}]

ResultOn(on) == [ref : Ref \cup {None}, loadErr : BOOLEAN, diags : Seq(DiagOn(on))]

\* What a document violates is on the lines of its leaves.
LEMMA ViolationsType ==
    ASSUME NEW on, NEW doc \in DocOn(on), NEW ref \in Ref \cup {None}
    PROVE  Violations(doc, ref) \in Seq(DiagOn(on))
<1>1. CASE doc.undecodable # None
  <2>1. doc.undecodable \in on
    BY <1>1 DEF DocOn
  <2>2. Diag(doc.undecodable, "decode", ref, "error") \in DiagOn(on)
    BY <2>1 DEF Diag, DiagOn
  <2>3. Violations(doc, ref) = <<Diag(doc.undecodable, "decode", ref, "error")>>
    BY <1>1 DEF Violations
  <2> QED BY <2>2, <2>3
<1>2. CASE doc.undecodable = None
  <2> DEFINE shown == WalkLeaves(doc.leaves, {"substituted", "tagged"})
  <2>1. doc.leaves \in Seq(LeafOn(on))
    BY DEF DocOn
  <2>2. shown \in Seq(LeafOn(on))
    BY <2>1, OmitType DEF WalkLeaves
  <2>3. Violations(doc, ref) = [k \in 1..Len(shown) |-> Diag(shown[k].line, "violation", ref, "error")]
    BY <1>2 DEF Violations
  <2> HIDE DEF shown
  <2>4. Len(shown) \in Nat /\ \A k \in 1..Len(shown) : shown[k] \in LeafOn(on)
    BY <2>2, LenProperties, ElementOfSeq
  <2>5. \A k \in 1..Len(shown) : Diag(shown[k].line, "violation", ref, "error") \in DiagOn(on)
    BY <2>4 DEF LeafOn, Diag, DiagOn
  <2> QED BY <2>3, <2>4, <2>5, IsASeq
<1> QED BY <1>1, <1>2

\* What is wrong with a manifest is at the first line.
LEMMA ManifestType ==
    ASSUME GivenOK, NEW on, FileLevel \in on, NEW m \in Manifest
    PROVE  ManifestDiags(m) \in Seq(DiagOn(on))
<1> DEFINE shown == WalkLeaves(m.leaves, {"substituted"})
           ref == K8sURL(m.kind)
<1>1. m.leaves \in Seq(LeafOn(Nat)) /\ m.kind \in Ref \cup {None}
  BY DEF Manifest
<1>2. shown \in Seq(LeafOn(Nat))
  BY <1>1, OmitType DEF WalkLeaves
<1>3. ref \in Ref \cup {None}
  BY <1>1 DEF K8sURL
<1>4. /\ Diag(FileLevel, "rendered", ref, "warning") \in DiagOn(on)
      /\ Diag(FileLevel, "rendered", ref, "error") \in DiagOn(on)
  BY <1>3 DEF Diag, DiagOn
<1>5. [k \in 1..Len(shown) |-> Diag(FileLevel, "rendered", ref, "error")] \in Seq(DiagOn(on))
  <2> HIDE DEF shown, ref
  <2>1. Len(shown) \in Nat
    BY <1>2, LenProperties
  <2> QED BY <1>4, <2>1, IsASeq
<1>6. ManifestDiags(m) \in {<<>>, <<Diag(FileLevel, "rendered", ref, "warning")>>,
                            [k \in 1..Len(shown) |-> Diag(FileLevel, "rendered", ref, "error")]}
  BY <1>3 DEF ManifestDiags
<1>7. <<>> \in Seq(DiagOn(on)) /\ <<Diag(FileLevel, "rendered", ref, "warning")>> \in Seq(DiagOn(on))
  <2> HIDE DEF ref
  <2> QED BY <1>4
<1> QED BY <1>5, <1>6, <1>7

\* Sequences of things are together a sequence of such things.
LEMMA FlattenType ==
    ASSUME NEW S, NEW seqs \in Seq(Seq(S))
    PROVE  FlattenSeq(seqs) \in Seq(S)
<1>1. PICK g : Flattens(g, seqs, S)
  BY FlattenChain
<1>2. Len(seqs) \in 0..Len(seqs)
  BY LenProperties
<1> QED BY <1>1, <1>2 DEF Flattens

\* What is said of a rendering is on a line of the text.
LEMMA RenderedType ==
    ASSUME GivenOK, NEW on, FileLevel \in on, NEW render \in RenderOn(on)
    PROVE  RenderedDiagnostics(render) \in Seq(DiagOn(on))
<1>0. /\ Diag(FileLevel, "render", None, "warning") \in DiagOn(on)
      /\ Diag(render.line, "values", None, "error") \in DiagOn(on)
  BY DEF RenderOn, Diag, DiagOn
<1>1. /\ <<Diag(FileLevel, "render", None, "warning")>> \in Seq(DiagOn(on))
      /\ <<Diag(render.line, "values", None, "error")>> \in Seq(DiagOn(on))
      /\ <<>> \in Seq(DiagOn(on))
  BY <1>0
<1>2. CASE render.err = "failed"
  BY <1>1, <1>2 DEF RenderedDiagnostics
<1>3. CASE render.err = "values"
  <2>1. RenderedDiagnostics(render) =
           <<Diag(render.line, "values", None, "error")>>
              \o IF render.rest THEN <<Diag(FileLevel, "render", None, "warning")>> ELSE <<>>
    BY <1>3 DEF RenderedDiagnostics
  <2> QED BY <1>1, <2>1, ConcatProperties
<1>4. CASE render.err = "unavailable"
  BY <1>1, <1>4 DEF RenderedDiagnostics
<1>5. CASE render.err \notin {"failed", "values", "unavailable"}
  <2> DEFINE seqs == [i \in 1..Len(render.manifests) |-> ManifestDiags(render.manifests[i])]
  <2>1. RenderedDiagnostics(render) = FlattenSeq(seqs)
    BY <1>5 DEF RenderedDiagnostics
  <2>2. render.manifests \in Seq(Manifest)
    BY DEF RenderOn
  <2>3. Len(render.manifests) \in Nat
        /\ \A i \in 1..Len(render.manifests) : ManifestDiags(render.manifests[i]) \in Seq(DiagOn(on))
    BY <2>2, LenProperties, ElementOfSeq, ManifestType
  <2>4. seqs \in Seq(Seq(DiagOn(on)))
    BY <2>3, IsASeq
  <2> HIDE DEF seqs
  <2> QED BY <2>1, <2>4, FlattenType
<1> QED BY <1>2, <1>3, <1>4, <1>5

\* validate.go, the result of a document says whether the schema it asked for loaded, and
\* if so what the document violates.
LEMMA ResultIs ==
    ASSUME GivenOK, NEW f \in Files, NEW i \in Docs(f)
    PROVE  LET doc == files[f].docs[i]
               r == ValidateOneDoc(f, doc)
               asked == AskedFor(f, doc)
               ref == IF asked # None THEN asked ELSE K8sURL(doc.kind)
           IN  /\ r \in ResultOn(1..Len(files[f].lines))
               /\ r.loadErr <=> LoadFailure(f, doc)
               /\ r.loadErr => r.diags = <<>> /\ r.ref = asked /\ ref = asked
               /\ ~r.loadErr => r.diags = IF ~doc.empty /\ ref \in Ref \ broken
                                          THEN Violations(doc, ref) ELSE <<>>
<1> DEFINE on == 1..Len(files[f].lines)
           doc == files[f].docs[i]
           r == ValidateOneDoc(f, doc)
           asked == AskedFor(f, doc)
           ref == IF asked # None THEN asked ELSE K8sURL(doc.kind)
<1>1. doc \in DocOn(on)
  <2> HIDE DEF on
  <2>1. files[f].docs \in Seq(DocOn(on)) /\ Docs(f) = 1..Len(files[f].docs)
    BY FileGiven DEF on
  <2> QED BY <2>1, ElementOfSeq
<1>2. asked \in Ref \cup {None} /\ Asked(f, doc) = asked
  BY AskedIs, AskedType
<1> HIDE DEF on, asked
<1>3. ref \in Ref \cup {None} /\ doc.empty \in BOOLEAN
  BY <1>1, <1>2 DEF K8sURL, DocOn
<1>4. Violations(doc, ref) \in Seq(DiagOn(on))
  BY <1>1, <1>3, ViolationsType
<1>5. broken \subseteq Ref /\ None \notin Ref
  BY NoneAssumption DEF GivenOK
<1>6. r = CASE doc.empty \/ ref = None -> NoResult
            [] ~doc.empty /\ ref \in broken ->
                  IF asked # None THEN [NoResult EXCEPT !.ref = ref, !.loadErr = TRUE] ELSE NoResult
            [] OTHER -> [NoResult EXCEPT !.diags = Violations(doc, ref)]
  BY <1>2 DEF ValidateOneDoc
<1>7. LoadFailure(f, doc) <=> ~doc.empty /\ asked \in broken
  BY DEF LoadFailure, asked
<1>8. NoResult \in ResultOn(on) /\ ~NoResult.loadErr /\ NoResult.diags = <<>>
  BY EmptySeq DEF NoResult, ResultOn
<1> HIDE DEF ref, doc, r
<1>9. CASE doc.empty \/ ref = None
  <2>1. r = NoResult
    <3>1. ~(~doc.empty /\ ref \in broken)
      BY <1>5, <1>9
    <3> QED BY <1>6, <1>9, <3>1
  <2>2. ~LoadFailure(f, doc)
    BY <1>5, <1>7, <1>9 DEF ref
  <2>3. ~(~doc.empty /\ ref \in Ref \ broken)
    BY <1>5, <1>9
  <2> QED BY <1>8, <2>1, <2>2, <2>3 DEF on, asked, ref, doc, r
<1>10. CASE ~doc.empty /\ ref \in broken /\ asked # None
  <2>1. r = [ref |-> ref, loadErr |-> TRUE, diags |-> <<>>]
    BY <1>5, <1>6, <1>10 DEF NoResult
  <2>2. ref = asked /\ LoadFailure(f, doc)
    BY <1>7, <1>10 DEF ref
  <2>3. r \in ResultOn(on) /\ r.loadErr /\ r.diags = <<>> /\ r.ref = asked
    BY <1>3, <2>1, <2>2, EmptySeq DEF ResultOn
  <2> QED BY <2>2, <2>3 DEF on, asked, ref, doc, r
<1>11. CASE ~doc.empty /\ ref \in broken /\ asked = None
  <2>1. r = NoResult
    BY <1>5, <1>6, <1>11
  <2>2. ~LoadFailure(f, doc)
    BY <1>5, <1>7, <1>11
  <2> QED BY <1>8, <1>11, <2>1, <2>2 DEF on, asked, ref, doc, r
<1>12. CASE ~doc.empty /\ ref # None /\ ref \notin broken
  <2>1. r = [ref |-> None, loadErr |-> FALSE, diags |-> Violations(doc, ref)]
    BY <1>6, <1>12 DEF NoResult
  <2>2. ~LoadFailure(f, doc)
    BY <1>5, <1>7, <1>12 DEF ref
  <2>3. r \in ResultOn(on) /\ ~r.loadErr /\ r.diags = Violations(doc, ref)
    BY <1>4, <2>1 DEF ResultOn
  <2>4. ref \in Ref \ broken
    BY <1>3, <1>12
  <2> QED BY <1>12, <2>2, <2>3, <2>4 DEF on, asked, ref, doc, r
<1> QED BY <1>3, <1>9, <1>10, <1>11, <1>12

\* How far the loop over the results has come.
AccOn(on) == [seen : SUBSET (Ref \cup {None}), diags : Seq(DiagOn(on))]

\* One turn of it keeps its types.
LEMMA ReassembleType ==
    ASSUME NEW on, FileLevel \in on, NEW d \in AccOn(on), NEW r \in ResultOn(on)
    PROVE  Reassemble(d, r) \in AccOn(on)
<1>0. /\ d.diags \in Seq(DiagOn(on)) /\ d.seen \in SUBSET (Ref \cup {None})
      /\ r.ref \in Ref \cup {None} /\ r.loadErr \in BOOLEAN /\ r.diags \in Seq(DiagOn(on))
  BY DEF AccOn, ResultOn
<1>1. CASE r.loadErr /\ r.ref \in d.seen
  BY <1>1 DEF Reassemble
<1>2. CASE r.loadErr /\ r.ref \notin d.seen
  <2>1. Diag(FileLevel, "load", r.ref, "warning") \in DiagOn(on)
    BY <1>0 DEF Diag, DiagOn
  <2>2. Append(d.diags, Diag(FileLevel, "load", r.ref, "warning")) \in Seq(DiagOn(on))
    BY <1>0, <2>1, AppendProperties
  <2>3. Reassemble(d, r) = [seen |-> d.seen \cup {r.ref},
                            diags |-> Append(d.diags, Diag(FileLevel, "load", r.ref, "warning"))]
    BY <1>2 DEF Reassemble
  <2>4. d.seen \cup {r.ref} \in SUBSET (Ref \cup {None})
    BY <1>0
  <2> QED BY <2>2, <2>3, <2>4 DEF AccOn
<1>3. CASE ~r.loadErr
  <2>1. Reassemble(d, r) = [d EXCEPT !.diags = @ \o r.diags]
    BY <1>3 DEF Reassemble
  <2>2. d.diags \o r.diags \in Seq(DiagOn(on))
    BY <1>0, ConcatProperties
  <2> QED BY <2>1, <2>2 DEF AccOn
<1> QED BY <1>0, <1>1, <1>2, <1>3

\* g goes through what the loop has after each result.
Reassembles(g, f, on) ==
    /\ g \in [0..Len(results[f]) -> AccOn(on)]
    /\ g[0] = [seen |-> {}, diags |-> ParseErrors(f)]
    /\ Document(f) = g[Len(results[f])].diags
    /\ \A k \in 1..Len(results[f]) : g[k] = Reassemble(g[k - 1], results[f][k])

\* The loop goes along the results.
LEMMA ReassembleChain ==
    ASSUME NEW f, NEW on, FileLevel \in on,
           results[f] \in Seq(ResultOn(on)), ParseErrors(f) \in Seq(DiagOn(on))
    PROVE  \E g : Reassembles(g, f, on)
<1> DEFINE rs == results[f]
           n == Len(rs)
           base == [seen |-> {}, diags |-> ParseErrors(f)]
           step == [x \in AccOn(on) \X (1..n) |-> Reassemble(x[1], rs[x[2]])]
           Body(h) == [s \in SUBSET (1..n) |->
                          IF s = {} THEN base ELSE Reassemble(h[s \ {Max(s)}], rs[Max(s)])]
           iter == CHOOSE h : h = Body(h)
<1>0. n \in Nat /\ base \in AccOn(on) /\ (\A k \in 1..n : rs[k] \in ResultOn(on)) /\ DOMAIN rs = 1..n
  <2>1. base \in AccOn(on)
    BY DEF AccOn
  <2> HIDE DEF base
  <2> QED BY <2>1, LenProperties, ElementOfSeq
<1>1. step \in [AccOn(on) \X (1..n) -> AccOn(on)]
  BY <1>0, ReassembleType
<1>2. PICK h, g : FoldOf(h, g, n, AccOn(on), base, step)
  <2> HIDE DEF step, n, base
  <2> QED BY <1>0, <1>1, Chain
<1>3. h \in [SUBSET (1..n) -> AccOn(on)] /\ g \in [0..n -> AccOn(on)] /\ g[0] = base
  BY <1>2 DEF FoldOf
<1>4. \A k \in 1..n : g[k] = Reassemble(g[k - 1], rs[k])
  <2> TAKE k \in 1..n
  <2>1. g[k] = step[<<g[k - 1], k>>]
    BY <1>2 DEF FoldOf
  <2>2. k - 1 \in 0..n
    BY <1>0
  <2>3. g[k - 1] \in AccOn(on)
    BY <1>3, <2>2
  <2> QED BY <2>1, <2>3
<1>5. h = Body(h)
  <2> SUFFICES ASSUME NEW s \in SUBSET (1..n) PROVE h[s] = Body(h)[s]
    BY <1>3
  <2>1. h[s] = IF s = {} THEN base ELSE step[<<h[s \ {Max(s)}], Max(s)>>]
    BY <1>2 DEF FoldOf, IsFold
  <2>2. CASE s = {}
    BY <2>1, <2>2
  <2>3. CASE s # {}
    <3>1. Max(s) \in 1..n
      BY <1>0, <2>3, MaxIn
    <3>2. h[s \ {Max(s)}] \in AccOn(on)
      BY <1>3
    <3> QED BY <2>1, <2>3, <3>1, <3>2
  <2> QED BY <2>2, <2>3
<1>6. iter = Body(iter)
  <2> HIDE DEF Body
  <2> QED BY <1>5
<1>7. Document(f) = iter[1..n].diags
  BY <1>0 DEF Document, FoldLeft, MapThenFoldSet
<1> HIDE DEF iter
<1>8. iter[1..n] = g[n]
  <2>1. iter[{}] = base
    BY <1>6
  <2>2. ASSUME NEW s \in SUBSET (1..n), s # {}, iter[s \ {Max(s)}] \in AccOn(on)
        PROVE  iter[s] = step[<<iter[s \ {Max(s)}], Max(s)>>]
    <3>1. Max(s) \in 1..n
      BY <1>0, <2>2, MaxIn
    <3>2. iter[s] = Body(iter)[s]
      BY <1>6
    <3> QED BY <2>2, <3>1, <3>2
  <2> HIDE DEF step, n, Body
  <2>3. Steps(iter, n, AccOn(on), base, step)
    BY <2>1, <2>2 DEF Steps
  <2> QED BY <1>0, <1>2, <2>3, FoldsAlong
<1> QED BY <1>3, <1>4, <1>7, <1>8 DEF Reassembles

\* What a document contributes is on lines of the text.
LEMMA ContributionType ==
    ASSUME GivenOK, NEW f \in Files, FileLevel \in 1..Len(files[f].lines), NEW i \in Docs(f)
    PROVE  Contribution(f, i) \in Seq(DiagOn(1..Len(files[f].lines)))
<1> DEFINE on == 1..Len(files[f].lines)
           doc == files[f].docs[i]
           asked == AskedFor(f, doc)
           ref == IF asked # None THEN asked ELSE K8sURL(doc.kind)
           earlier == {j \in 1..(i - 1) : /\ LoadFailure(f, files[f].docs[j])
                                          /\ AskedFor(f, files[f].docs[j]) = asked}
<1>1. doc \in DocOn(on)
  <2> HIDE DEF on
  <2>1. files[f].docs \in Seq(DocOn(on)) /\ Docs(f) = 1..Len(files[f].docs)
    BY FileGiven DEF on
  <2> QED BY <2>1, ElementOfSeq
<1>2. asked \in Ref \cup {None}
  BY AskedIs, AskedType
<1> HIDE DEF on, asked
<1>3. ref \in Ref \cup {None}
  BY <1>1, <1>2 DEF K8sURL, DocOn
<1>4. Violations(doc, ref) \in Seq(DiagOn(on))
  BY <1>1, <1>3, ViolationsType
<1>5. Diag(FileLevel, "load", ref, "warning") \in DiagOn(on)
  BY <1>3 DEF on, Diag, DiagOn
<1>6. Contribution(f, i) =
         CASE LoadFailure(f, doc) ->
                 IF earlier = {} THEN <<Diag(FileLevel, "load", ref, "warning")>> ELSE <<>>
           [] ~LoadFailure(f, doc) /\ ~doc.empty /\ ref \in Ref \ broken -> Violations(doc, ref)
           [] OTHER -> <<>>
  BY DEF Contribution, asked
<1> HIDE DEF ref, earlier
<1>7. <<>> \in Seq(DiagOn(on)) /\ <<Diag(FileLevel, "load", ref, "warning")>> \in Seq(DiagOn(on))
  BY <1>5
<1> QED BY <1>4, <1>6, <1>7 DEF on

\* validate.go, the loop over all results emits what each document contributes, a load
\* failure only with the first document that asked for the schema.
LEMMA DocumentIs ==
    ASSUME GivenOK, NEW f \in Files, files[f].readable,
           results[f] = [i \in Docs(f) |-> ValidateOneDoc(f, files[f].docs[i])]
    PROVE  /\ ParseErrors(f) \in Seq(DiagOn(1..Len(files[f].lines)))
           /\ FlattenSeq([i \in Docs(f) |-> Contribution(f, i)]) \in Seq(DiagOn(1..Len(files[f].lines)))
           /\ Document(f) = ParseErrors(f) \o FlattenSeq([i \in Docs(f) |-> Contribution(f, i)])
<1> DEFINE on == 1..Len(files[f].lines)
           docs == files[f].docs
           n == Len(docs)
           errs == ParseErrors(f)
           cs == [i \in Docs(f) |-> Contribution(f, i)]
<1>0. n \in Nat /\ Docs(f) = 1..n /\ FileLevel \in on /\ files[f] \in FileOn(on)
  BY FileGiven DEF FileLevel
<1>1. errs \in Seq(DiagOn(on))
  <2> HIDE DEF on
  <2>1. files[f].malformed \in on \cup {None}
    BY <1>0 DEF FileOn
  <2>2. files[f].malformed # None => Diag(files[f].malformed, "parse", None, "error") \in DiagOn(on)
    BY <2>1 DEF Diag, DiagOn
  <2> QED BY <2>2 DEF ParseErrors
<1>2. \A i \in 1..n : ValidateOneDoc(f, docs[i]) \in ResultOn(on)
  BY <1>0, ResultIs
<1>3. results[f] \in Seq(ResultOn(on)) /\ Len(results[f]) = n
      /\ \A i \in 1..n : results[f][i] = ValidateOneDoc(f, docs[i])
  <2> HIDE DEF on, n
  <2>1. results[f] = [i \in 1..n |-> ValidateOneDoc(f, docs[i])]
    BY <1>0
  <2>2. results[f] \in Seq(ResultOn(on))
    BY <1>0, <1>2, <2>1, IsASeq
  <2>3. DOMAIN results[f] = 1..n /\ \A i \in 1..n : results[f][i] = ValidateOneDoc(f, docs[i])
    BY <2>1
  <2> QED BY <1>0, <2>2, <2>3, LenProperties
<1>4. cs \in Seq(Seq(DiagOn(on))) /\ Len(cs) = n /\ \A i \in 1..n : cs[i] = Contribution(f, i)
  <2>1. \A i \in 1..n : Contribution(f, i) \in Seq(DiagOn(on))
    BY <1>0, ContributionType
  <2> HIDE DEF on, n
  <2>2. cs = [i \in 1..n |-> Contribution(f, i)]
    BY <1>0
  <2>3. cs \in Seq(Seq(DiagOn(on)))
    BY <1>0, <2>1, <2>2, IsASeq
  <2>4. DOMAIN cs = 1..n /\ \A i \in 1..n : cs[i] = Contribution(f, i)
    BY <2>2
  <2> HIDE DEF cs
  <2> QED BY <1>0, <2>3, <2>4, LenProperties
<1> HIDE DEF on, cs, errs
<1>5. PICK d \in [0..n -> AccOn(on)] :
         /\ d[0] = [seen |-> {}, diags |-> errs] /\ Document(f) = d[n].diags
         /\ \A k \in 1..n : d[k] = Reassemble(d[k - 1], results[f][k])
  <2> HIDE DEF n
  <2>1. results[f] \in Seq(ResultOn(on)) /\ Len(results[f]) = n /\ FileLevel \in on
        /\ ParseErrors(f) \in Seq(DiagOn(on))
    BY <1>0, <1>1, <1>3 DEF errs
  <2>2. PICK d : Reassembles(d, f, on)
    BY <2>1, ReassembleChain
  <2> QED BY <2>1, <2>2 DEF errs, Reassembles
<1>6. PICK c \in [0..n -> Seq(DiagOn(on))] :
         /\ c[0] = <<>> /\ FlattenSeq(cs) = c[n] /\ \A k \in 1..n : c[k] = c[k - 1] \o cs[k]
  <2> HIDE DEF n
  <2>1. PICK c : Flattens(c, cs, DiagOn(on))
    BY <1>4, FlattenChain
  <2> QED BY <1>4, <2>1 DEF Flattens
<1> HIDE DEF n
<1> DEFINE Failing(k) == {j \in 1..k : LoadFailure(f, docs[j])}
           Good(k) == /\ d[k].diags = errs \o c[k]
                      /\ d[k].seen = {AskedFor(f, docs[j]) : j \in Failing(k)}
           T == {k \in Nat : k <= n => Good(k)}
<1>7. 0 \in T
  <2>1. 1..0 = {}
    OBVIOUS
  <2>2. errs \o <<>> = errs
    BY <1>1, ConcatEmptySeq
  <2>3. d[0].diags = errs \o c[0]
    BY <1>5, <1>6, <2>2
  <2>4. Failing(0) = {}
    BY <2>1
  <2>5. d[0].seen = {}
    BY <1>5
  <2> HIDE DEF Failing
  <2> QED BY <2>3, <2>4, <2>5
<1>8. ASSUME NEW k \in 1..n, Good(k - 1) PROVE Good(k)
  <2> DEFINE doc == docs[k]
             asked == AskedFor(f, doc)
             ref == IF asked # None THEN asked ELSE K8sURL(doc.kind)
             r == results[f][k]
             earlier == {j \in 1..(k - 1) : /\ LoadFailure(f, docs[j])
                                            /\ AskedFor(f, docs[j]) = asked}
  <2>0. k - 1 \in 0..n /\ k \in 0..n /\ 1..k = (1..(k - 1)) \cup {k} /\ k \in Docs(f)
    BY <1>0
  <2>1. /\ r \in ResultOn(on)
        /\ r.loadErr <=> LoadFailure(f, doc)
        /\ r.loadErr => r.diags = <<>> /\ r.ref = asked /\ ref = asked
        /\ ~r.loadErr => r.diags = IF ~doc.empty /\ ref \in Ref \ broken
                                   THEN Violations(doc, ref) ELSE <<>>
    <3>1. r = ValidateOneDoc(f, doc)
      BY <1>3
    <3> HIDE DEF r
    <3> QED BY <2>0, <3>1, ResultIs DEF on
  <2>2. d[k] = Reassemble(d[k - 1], r) /\ c[k] = c[k - 1] \o cs[k] /\ cs[k] = Contribution(f, k)
    BY <1>4, <1>5, <1>6
  <2>3. /\ d[k - 1] \in AccOn(on) /\ c[k - 1] \in Seq(DiagOn(on)) /\ cs[k] \in Seq(DiagOn(on))
        /\ errs \in Seq(DiagOn(on))
    <3>1. cs[k] \in Seq(DiagOn(on))
      BY <1>4, ElementOfSeq
    <3> QED BY <1>1, <1>5, <1>6, <2>0, <3>1
  <2>4. errs \o c[k] = (errs \o c[k - 1]) \o cs[k]
    <3> DEFINE before == c[k - 1]
               now == cs[k]
    <3>1. before \in Seq(DiagOn(on)) /\ now \in Seq(DiagOn(on)) /\ errs \in Seq(DiagOn(on))
      BY <2>3
    <3>2. c[k] = before \o now
      BY <2>2
    <3> HIDE DEF before, now
    <3>3. (errs \o before) \o now = errs \o (before \o now)
      BY SMTT(30), <3>1, ConcatAssociative
    <3> QED BY <3>2, <3>3 DEF before, now
  <2>5. cs[k] = CASE LoadFailure(f, doc) ->
                        IF earlier = {} THEN <<Diag(FileLevel, "load", ref, "warning")>> ELSE <<>>
                  [] ~LoadFailure(f, doc) /\ ~doc.empty /\ ref \in Ref \ broken -> Violations(doc, ref)
                  [] OTHER -> <<>>
    BY <2>2 DEF Contribution
  <2>6. d[k - 1].diags = errs \o c[k - 1] /\ d[k - 1].diags \in Seq(DiagOn(on))
        /\ d[k - 1].seen = {AskedFor(f, docs[j]) : j \in Failing(k - 1)}
    BY <1>8, <2>3 DEF AccOn
  <2>7. asked \in d[k - 1].seen <=> earlier # {}
    BY <2>6
  <2>8. {AskedFor(f, docs[j]) : j \in Failing(k)} =
           IF LoadFailure(f, doc) THEN d[k - 1].seen \cup {asked} ELSE d[k - 1].seen
    BY <2>0, <2>6
  <2> HIDE DEF r, asked, ref, earlier, doc, Failing
  <2>9. CASE r.loadErr /\ r.ref \in d[k - 1].seen
    <3>1. d[k] = d[k - 1]
      BY <2>2, <2>9 DEF Reassemble
    <3>2. cs[k] = <<>>
      BY <2>1, <2>5, <2>7, <2>9
    <3>3. errs \o c[k] = d[k - 1].diags
      BY <2>4, <2>6, <3>2, ConcatEmptySeq
    <3>4. d[k - 1].seen \cup {asked} = d[k - 1].seen
      BY <2>1, <2>9
    <3> QED BY <2>1, <2>8, <2>9, <3>1, <3>3, <3>4
  <2>10. CASE r.loadErr /\ r.ref \notin d[k - 1].seen
    <3> DEFINE new == Diag(FileLevel, "load", asked, "warning")
    <3>1. d[k] = [seen |-> d[k - 1].seen \cup {asked}, diags |-> Append(d[k - 1].diags, new)]
      BY <2>1, <2>2, <2>10 DEF Reassemble
    <3>2. cs[k] = <<new>>
      BY <2>1, <2>5, <2>7, <2>10
    <3>3. new \in DiagOn(on)
      BY <1>0, <2>1, <2>10 DEF Diag, DiagOn, ResultOn
    <3> HIDE DEF new
    <3>4. Append(d[k - 1].diags, new) = d[k - 1].diags \o <<new>>
      BY <2>6, <3>3, AppendIsConcat
    <3>5. errs \o c[k] = d[k - 1].diags \o <<new>>
      BY <2>4, <2>6, <3>2
    <3>6. d[k].diags = errs \o c[k] /\ d[k].seen = d[k - 1].seen \cup {asked}
      BY SMTT(30), <3>1, <3>4, <3>5
    <3> QED BY <2>1, <2>8, <2>10, <3>6
  <2>11. CASE ~r.loadErr
    <3>1. d[k] = [d[k - 1] EXCEPT !.diags = @ \o r.diags]
      BY <2>2, <2>11 DEF Reassemble
    <3>2. d[k].seen = d[k - 1].seen /\ d[k].diags = d[k - 1].diags \o r.diags
      BY <2>3, <3>1 DEF AccOn
    <3>3. cs[k] = r.diags
      BY <2>1, <2>5, <2>11
    <3> QED BY <2>1, <2>4, <2>6, <2>8, <2>11, <3>2, <3>3
  <2> QED BY <2>1, <2>9, <2>10, <2>11
<1>9. ASSUME NEW k \in T PROVE k + 1 \in T
  <2> HIDE DEF Good
  <2>1. k \in Nat /\ (k + 1) - 1 = k /\ (k + 1 <= n => k + 1 \in 1..n /\ k <= n)
    BY <1>0
  <2>2. k + 1 <= n => Good(k)
    BY <2>1
  <2> QED BY <1>8, <2>1, <2>2
<1>10. T = Nat
  <2> HIDE DEF T
  <2>1. T \in SUBSET Nat
    BY DEF T
  <2> QED BY <1>7, <1>9, <2>1, NatInd
<1>11. d[n].diags = errs \o c[n] /\ c[n] \in Seq(DiagOn(on))
  <2>1. n \in 0..n
    BY <1>0
  <2> QED BY <1>0, <1>6, <1>10, <2>1
<1> QED BY <1>1, <1>5, <1>6, <1>11 DEF errs, cs, on

-----------------------------------------------------------------------------
(* Validation as a whole: the inductive invariant                           *)

\* The documents of f whose goroutine has ended.
Finished(f) == (1..launched[f]) \ running[f]

\* What the goroutine of a document finds.
DocResult(f, i) == ValidateOneDoc(f, files[f].docs[i])

\* The results of f at any time: those of the goroutines that have ended, at the places
\* of their documents, in whatever order they ended.
Expected(f) == [i \in Docs(f) |-> IF i \in Finished(f) THEN DocResult(f, i) ELSE NoResult]

\* How far a file has come, and what is known of it by then.
FileInv(f) ==
    /\ phase[f] \in {"waiting", "reading", "documents", "done"}
    /\ f > started => phase[f] = "waiting"
    /\ launched[f] \in 0..Len(files[f].docs)
    /\ running[f] \subseteq 1..launched[f]
    /\ Cardinality(running[f]) <= DocLimit
    /\ phase[f] # "documents" => running[f] = {}
    /\ phase[f] = "documents" => files[f].readable
    /\ results[f] = Expected(f)
    /\ found[f] \in Seq(DiagOn(1..Len(files[f].lines)))
    /\ reported[f] = Filter(ParseSuppressions(files[f].lines), found[f])
    /\ phase[f] = "done" /\ files[f].readable => found[f] = Emitted(f)

\* There is a place for each file.
Domains ==
    /\ DOMAIN phase = Files /\ DOMAIN launched = Files /\ DOMAIN running = Files
    /\ DOMAIN results = Files /\ DOMAIN found = Files /\ DOMAIN reported = Files

\* What is printed at the end is what the files report.
Printed ==
    /\ \A f \in Files : phase[f] = "done"
    /\ output = FlattenSeq([f \in Files |-> reported[f]])

\* The inductive invariant.
IInv ==
    /\ GivenOK
    /\ started \in 0..(Len(files) + 1)
    /\ Domains
    /\ \A f \in Files : FileInv(f)
    /\ Cardinality(FilesRunning) <= FileLimit
    /\ started > Len(files) => Printed

\* Nothing that is said of what was given depends on how far validation has come.
LEMMA GivenSame ==
    ASSUME UNCHANGED given
    PROVE  /\ Files' = Files /\ (\A f : Docs(f)' = Docs(f))
           /\ \A f, i : DocResult(f, i)' = DocResult(f, i)
           /\ \A f : Emitted(f)' = Emitted(f)
           /\ GivenOK' <=> GivenOK
<1>1. files' = files /\ broken' = broken /\ kubernetes' = kubernetes
  BY DEF given
<1>2. Files' = Files /\ (\A f : Docs(f)' = Docs(f))
  BY <1>1 DEF Files, Docs
<1>3. \A f, i : DocResult(f, i)' = DocResult(f, i)
  <2> TAKE f, i
  <2>1. FindModelineSchema(f)' = FindModelineSchema(f)
    BY <1>1, <1>2 DEF FindModelineSchema
  <2>2. MatchSettings(f)' = MatchSettings(f)
    BY <1>1 DEF MatchSettings, FoldLeft, MapThenFoldSet
  <2>3. Asked(f, files[f].docs[i])' = Asked(f, files[f].docs[i])
    BY <1>1, <2>1, <2>2 DEF Asked, Resolve
  <2> QED BY <1>1, <2>3 DEF DocResult, ValidateOneDoc, K8sURL
<1>4. \A f : Emitted(f)' = Emitted(f)
  <2> TAKE f
  <2>1. \A doc : AskedFor(f, doc)' = AskedFor(f, doc)
    BY <1>1, <1>2 DEF AskedFor
  <2>2. \A doc : LoadFailure(f, doc)' <=> LoadFailure(f, doc)
    BY <1>1, <2>1 DEF LoadFailure
  <2>3. \A i : Contribution(f, i)' = Contribution(f, i)
    BY <1>1, <2>1, <2>2 DEF Contribution, K8sURL
  <2>4. ParseErrors(f)' = ParseErrors(f)
    BY <1>1 DEF ParseErrors
  <2>5. \A m : ManifestDiags(m)' = ManifestDiags(m)
    BY <1>1 DEF ManifestDiags, K8sURL
  <2>6. \A render : RenderedDiagnostics(render)' = RenderedDiagnostics(render)
    BY <2>5 DEF RenderedDiagnostics
  <2>7. [i \in Docs(f) |-> Contribution(f, i)]' = [i \in Docs(f) |-> Contribution(f, i)]
    BY <1>2, <2>3
  <2> QED BY <1>1, <2>4, <2>6, <2>7 DEF Emitted
<1>5. GivenOK' <=> GivenOK
  BY <1>1, <1>2 DEF GivenOK
<1> QED BY <1>2, <1>3, <1>4, <1>5

\* Nothing is left out of nothing.
LEMMA FilterEmpty ==
    ASSUME NEW s
    PROVE  Filter(s, <<>>) = <<>>
<1>1. Len(<<>>) = 0 /\ 1..0 = {} /\ <<>> \in Seq({})
  BY EmptySeq
<1>2. \A places : Omit(<<>>, places) = <<>>
  BY <1>1, OmitAll
<1> QED BY <1>2 DEF Filter, Without

\* The inductive invariant holds at the start.
THEOREM IInvInit == Init => IInv
<1> SUFFICES ASSUME Init PROVE IInv
  OBVIOUS
<1>1. PICK input \in Input : files = input.files /\ broken = input.broken /\ kubernetes = input.kubernetes
  BY DEF Init
<1>2. GivenOK
  <2>1. input.files \in Seq(FileOn(Nat)) /\ DOMAIN input.files = 1..Len(input.files)
    BY InputAssumption, LenProperties
  <2> QED BY <1>1, <2>1, InputAssumption DEF GivenOK, Files
<1>3. Len(files) \in Nat
  BY <1>2, LenProperties DEF GivenOK
<1>4. started \in 0..(Len(files) + 1) /\ ~(started > Len(files))
  BY <1>3 DEF Init
<1>5. Domains
  BY DEF Init, Domains
<1>6. Cardinality({}) = 0
  BY FS_EmptySet
<1>7. Cardinality(FilesRunning) <= FileLimit
  <2>1. FilesRunning = {}
    BY DEF Init, FilesRunning
  <2> QED BY <1>6, <2>1, ConcurrencyAssumption
<1>8. ASSUME NEW f \in Files PROVE FileInv(f)
  <2>1. phase[f] = "waiting" /\ launched[f] = 0 /\ running[f] = {} /\ found[f] = <<>>
        /\ reported[f] = <<>> /\ results[f] = [i \in Docs(f) |-> NoResult]
    BY DEF Init
  <2>2. 0 \in 0..Len(files[f].docs)
    BY <1>2, FileGiven
  <2>3. Finished(f) = {}
    BY <2>1 DEF Finished
  <2>4. <<>> \in Seq(DiagOn(1..Len(files[f].lines)))
    BY EmptySeq
  <2>5. results[f] = Expected(f)
    BY <2>1, <2>3 DEF Expected
  <2> QED BY <1>6, <2>1, <2>2, <2>4, <2>5, FilterEmpty, ConcurrencyAssumption DEF FileInv
<1> QED BY <1>2, <1>4, <1>5, <1>7, <1>8 DEF IInv

\* There are finitely many files.
LEMMA FilesFinite ==
    ASSUME GivenOK
    PROVE  IsFiniteSet(FilesRunning) /\ Len(files) \in Nat /\ Files = 1..Len(files)
<1>1. Len(files) \in Nat /\ Files = 1..Len(files)
  BY LenProperties DEF GivenOK, Files
<1>2. IsFiniteSet(Files)
  BY <1>1, FS_Interval
<1> QED BY <1>1, <1>2, FS_Subset DEF FilesRunning

\* What a step leaves alone of a file keeps its part of the invariant.
LEMMA FileKept ==
    ASSUME UNCHANGED given, NEW f \in Files, FileInv(f),
           f > started' => f > started,
           phase'[f] = phase[f], launched'[f] = launched[f], running'[f] = running[f],
           results'[f] = results[f], found'[f] = found[f], reported'[f] = reported[f]
    PROVE  FileInv(f)'
<1>1. files' = files
  BY DEF given
<1>2. Docs(f)' = Docs(f) /\ Emitted(f)' = Emitted(f) /\ \A i : DocResult(f, i)' = DocResult(f, i)
  BY GivenSame
<1>3. Finished(f)' = Finished(f)
  BY DEF Finished
<1>4. Expected(f)' = Expected(f)
  BY <1>2, <1>3 DEF Expected
<1> QED BY <1>1, <1>2, <1>4 DEF FileInv

\* A step after which file f alone may have changed.
LEMMA OneFile ==
    ASSUME IInv, UNCHANGED <<given, started, output>>, NEW f \in Files,
           Domains', started <= Len(files),
           FileInv(f)', Cardinality(FilesRunning') <= FileLimit,
           \A e \in Files \ {f} :
              /\ phase'[e] = phase[e] /\ launched'[e] = launched[e] /\ running'[e] = running[e]
              /\ results'[e] = results[e] /\ found'[e] = found[e] /\ reported'[e] = reported[e]
    PROVE  IInv'
<1>1. files' = files /\ started' = started /\ Files' = Files /\ GivenOK'
  BY GivenSame DEF given, IInv
<1>2. \A e \in Files : FileInv(e)'
  <2> SUFFICES ASSUME NEW e \in Files \ {f} PROVE FileInv(e)'
    OBVIOUS
  <2> QED BY <1>1, FileKept DEF IInv
<1>3. ~(started' > Len(files'))
  BY <1>1, FilesFinite DEF IInv
<1> QED BY <1>1, <1>2, <1>3 DEF IInv

\* Nothing is printed before the last file is done.
LEMMA NotPrinted ==
    ASSUME IInv, NEW f \in Files, phase[f] # "done"
    PROVE  started <= Len(files)
BY FilesFinite DEF IInv, Printed

\* A file is started only where the semaphore has room.
LEMMA StartFileKeeps == IInv /\ StartFile => IInv'
<1> SUFFICES ASSUME IInv, StartFile PROVE IInv'
  OBVIOUS
<1>a. Len(files) \in Nat /\ Files = 1..Len(files) /\ started \in Nat /\ started < Len(files)
      /\ IsFiniteSet(FilesRunning)
  BY FilesFinite DEF IInv, StartFile
<1>b. PICK f \in Files : f = started + 1
  BY <1>a
<1>0. Len(files) \in Nat /\ Files = 1..Len(files) /\ started \in Nat /\ f = started + 1 /\ started < Len(files)
      /\ IsFiniteSet(FilesRunning)
  BY <1>a, <1>b
<1>1. /\ started' = f /\ phase' = [phase EXCEPT ![f] = "reading"]
      /\ UNCHANGED <<given, docVars, found, reported, output, failed>>
      /\ Cardinality(FilesRunning) < FileLimit
  BY <1>0 DEF StartFile
<1>2. files' = files /\ Files' = Files /\ GivenOK'
      /\ launched' = launched /\ running' = running /\ results' = results
  BY <1>1, GivenSame DEF IInv, given, docVars
<1>3. Domains'
  BY <1>1, <1>2 DEF IInv, Domains
<1>4. phase[f] = "waiting" /\ phase'[f] = "reading" /\ \A e \in Files \ {f} : phase'[e] = phase[e]
  BY <1>0, <1>1 DEF IInv, Domains, FileInv
<1>5. ASSUME NEW e \in Files \ {f} PROVE FileInv(e)'
  <2>1. e > started' => e > started
    BY <1>0, <1>1
  <2> QED BY <1>1, <1>2, <1>4, <2>1, FileKept DEF IInv
<1>6. FileInv(f)'
  <2>1. Docs(f)' = Docs(f) /\ \A i : DocResult(f, i)' = DocResult(f, i)
    BY <1>1, GivenSame
  <2>2. Finished(f)' = Finished(f)
    BY <1>2 DEF Finished
  <2>3. Expected(f)' = Expected(f)
    BY <2>1, <2>2 DEF Expected
  <2>4. FileInv(f)
    BY <1>0 DEF IInv
  <2>5. ~(f > started')
    BY <1>0, <1>1
  <2> QED BY <1>1, <1>2, <1>4, <2>3, <2>4, <2>5 DEF FileInv
<1>7. Cardinality(FilesRunning') <= FileLimit
  <2>1. FilesRunning' = FilesRunning \cup {f} /\ f \notin FilesRunning
    BY <1>0, <1>2, <1>4 DEF FilesRunning
  <2>2. Cardinality(FilesRunning') = Cardinality(FilesRunning) + 1
    BY <1>0, <2>1, FS_AddElement
  <2>3. Cardinality(FilesRunning) \in Nat
    BY <1>0, FS_CardinalityType
  <2> QED BY <1>1, <2>2, <2>3, ConcurrencyAssumption
<1>8. started' \in 0..(Len(files') + 1) /\ ~(started' > Len(files'))
  BY <1>0, <1>1, <1>2
<1> QED BY <1>2, <1>3, <1>5, <1>6, <1>7, <1>8 DEF IInv

\* Reading a file starts no document.
LEMMA ReadKeeps == \A f \in Files : IInv /\ Read(f) => IInv'
<1> SUFFICES ASSUME NEW f \in Files, IInv, Read(f) PROVE IInv'
  OBVIOUS
<1>1. /\ phase[f] = "reading"
      /\ phase' = [phase EXCEPT ![f] = IF files[f].readable THEN "documents" ELSE "done"]
      /\ UNCHANGED <<given, started, docVars, found, reported, output, failed>>
  BY DEF Read
<1>2. files' = files /\ Files' = Files
      /\ launched' = launched /\ running' = running /\ results' = results
  BY <1>1, GivenSame DEF given, docVars
<1>3. Domains'
  BY <1>1, <1>2 DEF IInv, Domains
<1>4. phase'[f] = (IF files[f].readable THEN "documents" ELSE "done")
      /\ \A e \in Files \ {f} : phase'[e] = phase[e]
  BY <1>1 DEF IInv, Domains
<1>5. FileInv(f)'
  <2>1. Docs(f)' = Docs(f) /\ \A i : DocResult(f, i)' = DocResult(f, i)
    BY <1>1, GivenSame
  <2>2. Finished(f)' = Finished(f)
    BY <1>2 DEF Finished
  <2>3. Expected(f)' = Expected(f)
    BY <2>1, <2>2 DEF Expected
  <2>4. FileInv(f)
    BY DEF IInv
  <2> QED BY <1>1, <1>2, <1>4, <2>3, <2>4 DEF FileInv
<1>6. Cardinality(FilesRunning') <= FileLimit
  <2>1. FilesRunning' \subseteq FilesRunning /\ IsFiniteSet(FilesRunning) /\ Cardinality(FilesRunning) <= FileLimit
    BY <1>1, <1>2, <1>4, FilesFinite DEF FilesRunning, IInv
  <2>2. Cardinality(FilesRunning') <= Cardinality(FilesRunning)
        /\ Cardinality(FilesRunning') \in Nat /\ Cardinality(FilesRunning) \in Nat
    BY <2>1, FS_Subset, FS_CardinalityType
  <2> QED BY <2>1, <2>2, ConcurrencyAssumption
<1>7. started <= Len(files)
  BY <1>1, NotPrinted
<1> QED BY <1>1, <1>2, <1>3, <1>4, <1>5, <1>6, <1>7, OneFile

\* What is done to the documents of a file starts no other file.
LEMMA RunningSame ==
    ASSUME IInv, UNCHANGED <<given, phase>>
    PROVE  Cardinality(FilesRunning') <= FileLimit
<1>1. FilesRunning' = FilesRunning
  BY GivenSame DEF FilesRunning
<1> QED BY <1>1 DEF IInv

\* A document is started only where its semaphore has room.
LEMMA StartDocKeeps == \A f \in Files : IInv /\ StartDoc(f) => IInv'
<1> SUFFICES ASSUME NEW f \in Files, IInv, StartDoc(f) PROVE IInv'
  OBVIOUS
<1> DEFINE i == launched[f] + 1
<1>1. /\ phase[f] = "documents" /\ launched[f] < Len(files[f].docs)
      /\ Cardinality(running[f]) < DocLimit
      /\ launched' = [launched EXCEPT ![f] = @ + 1]
      /\ running' = [running EXCEPT ![f] = @ \cup {launched[f] + 1}]
      /\ UNCHANGED <<given, started, phase, results, found, reported, output, failed>>
  BY DEF StartDoc
<1>2. files' = files /\ Files' = Files /\ Len(files[f].docs) \in Nat
  BY <1>1, GivenSame, FileGiven DEF given, IInv
<1>3. Domains'
  BY <1>1, <1>2 DEF IInv, Domains
<1>4. launched'[f] = i /\ running'[f] = running[f] \cup {i}
      /\ \A e \in Files \ {f} : launched'[e] = launched[e] /\ running'[e] = running[e]
  BY <1>1 DEF IInv, Domains
<1>5. FileInv(f)
  BY DEF IInv
<1>6. launched[f] \in Nat /\ i \in Nat /\ i \in 0..Len(files[f].docs) /\ running[f] \subseteq 1..launched[f]
      /\ Cardinality(running[f]) <= DocLimit
  BY <1>1, <1>2, <1>5 DEF FileInv
<1>7. FileInv(f)'
  <2>1. Docs(f)' = Docs(f) /\ Emitted(f)' = Emitted(f) /\ \A d : DocResult(f, d)' = DocResult(f, d)
    BY <1>1, GivenSame
  <2>2. Finished(f)' = Finished(f)
    <3>1. 1..i = (1..launched[f]) \cup {i} /\ i \notin 1..launched[f]
      BY <1>6
    <3> HIDE DEF i
    <3> QED BY <1>4, <1>6, <3>1 DEF Finished
  <2>3. Expected(f)' = Expected(f)
    BY <2>1, <2>2 DEF Expected
  <2>4. running'[f] \subseteq 1..launched'[f]
    BY <1>4, <1>6
  <2>5. Cardinality(running'[f]) <= DocLimit
    <3>0. IsFiniteSet(1..launched[f])
      BY <1>6, FS_Interval
    <3>1. IsFiniteSet(running[f]) /\ i \notin running[f]
      BY <1>6, <3>0, FS_Subset
    <3>2. Cardinality(running'[f]) = Cardinality(running[f]) + 1 /\ Cardinality(running[f]) \in Nat
      BY <1>4, <3>1, FS_AddElement, FS_CardinalityType
    <3> QED BY <1>1, <3>2, ConcurrencyAssumption
  <2> HIDE DEF i
  <2> QED BY <1>1, <1>2, <1>4, <1>5, <1>6, <2>1, <2>3, <2>4, <2>5 DEF FileInv
<1>8. Cardinality(FilesRunning') <= FileLimit
  BY <1>1, RunningSame
<1>9. started <= Len(files)
  BY <1>1, NotPrinted
<1> HIDE DEF i
<1> QED BY <1>1, <1>2, <1>3, <1>4, <1>7, <1>8, <1>9, OneFile

\* A goroutine that ends writes the result of its own document and no other.
LEMMA EndDocKeeps == \A f \in Files : \A i \in Docs(f) : IInv /\ EndDoc(f, i) => IInv'
<1> SUFFICES ASSUME NEW f \in Files, NEW i \in Docs(f), IInv, EndDoc(f, i) PROVE IInv'
  OBVIOUS
<1>1. /\ i \in running[f]
      /\ results' = [results EXCEPT ![f][i] = DocResult(f, i)]
      /\ running' = [running EXCEPT ![f] = @ \ {i}]
      /\ UNCHANGED <<given, started, phase, launched, found, reported, output, failed>>
  BY DEF EndDoc, DocResult
<1>2. files' = files /\ Files' = Files /\ launched' = launched
  BY <1>1, GivenSame DEF given
<1>3. Domains'
  BY <1>1, <1>2 DEF IInv, Domains
<1>4. running'[f] = running[f] \ {i} /\ results'[f] = [results[f] EXCEPT ![i] = DocResult(f, i)]
      /\ \A e \in Files \ {f} : results'[e] = results[e] /\ running'[e] = running[e]
  BY <1>1 DEF IInv, Domains
<1>5. FileInv(f)
  BY DEF IInv
<1>6. running[f] \subseteq 1..launched[f] /\ Cardinality(running[f]) <= DocLimit /\ results[f] = Expected(f)
      /\ phase[f] = "documents" /\ launched[f] \in Nat
  BY <1>1, <1>5 DEF FileInv
<1>7. FileInv(f)'
  <2>1. Docs(f)' = Docs(f) /\ Emitted(f)' = Emitted(f) /\ \A d : DocResult(f, d)' = DocResult(f, d)
    BY <1>1, GivenSame
  <2>2. Finished(f)' = Finished(f) \cup {i}
    BY <1>1, <1>2, <1>4, <1>6 DEF Finished
  <2>3. Expected(f)' = results'[f]
    <3>1. Expected(f)' = [d \in Docs(f) |-> IF d \in Finished(f) \cup {i} THEN DocResult(f, d) ELSE NoResult]
      BY <2>1, <2>2 DEF Expected
    <3>2. results'[f] = [d \in Docs(f) |-> IF d = i THEN DocResult(f, i) ELSE Expected(f)[d]]
      BY <1>4, <1>6 DEF Expected
    <3>3. \A d \in Docs(f) : Expected(f)[d] = IF d \in Finished(f) THEN DocResult(f, d) ELSE NoResult
      BY DEF Expected
    <3> QED BY <3>1, <3>2, <3>3
  <2>4. Cardinality(running'[f]) <= DocLimit
    <3>0. IsFiniteSet(1..launched[f])
      BY <1>6, FS_Interval
    <3>1. IsFiniteSet(running[f])
      BY <1>6, <3>0, FS_Subset
    <3>2. Cardinality(running'[f]) <= Cardinality(running[f])
          /\ Cardinality(running'[f]) \in Nat /\ Cardinality(running[f]) \in Nat
      BY <1>4, <3>1, FS_Subset, FS_CardinalityType
    <3> QED BY <1>6, <3>2, ConcurrencyAssumption
  <2> QED BY <1>1, <1>2, <1>4, <1>5, <1>6, <2>1, <2>3, <2>4 DEF FileInv
<1>8. Cardinality(FilesRunning') <= FileLimit
  BY <1>1, RunningSame
<1>9. started <= Len(files)
  BY <1>6, NotPrinted
<1> QED BY <1>1, <1>2, <1>3, <1>4, <1>7, <1>8, <1>9, OneFile

\* With all results in, the file reports what a loop over its documents would.
LEMMA EmittedIs ==
    ASSUME GivenOK, NEW f \in Files, files[f].readable, results[f] = [i \in Docs(f) |-> DocResult(f, i)]
    PROVE  LET rendered == IF files[f].render = None THEN <<>> ELSE RenderedDiagnostics(files[f].render)
           IN  /\ Document(f) \o rendered = Emitted(f)
               /\ Document(f) \o rendered \in Seq(DiagOn(1..Len(files[f].lines)))
<1> DEFINE on == 1..Len(files[f].lines)
           rendered == IF files[f].render = None THEN <<>> ELSE RenderedDiagnostics(files[f].render)
           flat == FlattenSeq([i \in Docs(f) |-> Contribution(f, i)])
<1>1. results[f] = [i \in Docs(f) |-> ValidateOneDoc(f, files[f].docs[i])]
  BY DEF DocResult
<1>2. ParseErrors(f) \in Seq(DiagOn(on)) /\ flat \in Seq(DiagOn(on)) /\ Document(f) = ParseErrors(f) \o flat
  BY <1>1, DocumentIs
<1>3. files[f] \in FileOn(on) /\ FileLevel \in on
  BY FileGiven DEF FileLevel
<1> HIDE DEF on
<1>4. rendered \in Seq(DiagOn(on))
  <2>1. files[f].render \in RenderOn(on) \cup {None}
    BY <1>3 DEF FileOn
  <2> QED BY <1>3, <2>1, RenderedType, EmptySeq
<1>5. Emitted(f) = (ParseErrors(f) \o flat) \o rendered
  BY DEF Emitted
<1> HIDE DEF flat, rendered
<1>6. Document(f) \o rendered \in Seq(DiagOn(on))
  BY <1>2, <1>4, ConcatProperties
<1> QED BY <1>2, <1>5, <1>6 DEF rendered, on

\* A file reports only when the goroutines of all of its documents have ended.
LEMMA ReportFileKeeps == \A f \in Files : IInv /\ ReportFile(f) => IInv'
<1> SUFFICES ASSUME NEW f \in Files, IInv, ReportFile(f) PROVE IInv'
  OBVIOUS
<1> DEFINE diags == Document(f) \o IF files[f].render = None THEN <<>>
                                   ELSE RenderedDiagnostics(files[f].render)
<1>1. /\ phase[f] = "documents" /\ launched[f] = Len(files[f].docs) /\ running[f] = {}
      /\ found' = [found EXCEPT ![f] = diags]
      /\ reported' = [reported EXCEPT ![f] = Filter(ParseSuppressions(files[f].lines), diags)]
      /\ phase' = [phase EXCEPT ![f] = "done"]
      /\ UNCHANGED <<given, started, docVars, output, failed>>
  BY DEF ReportFile
<1>2. files' = files /\ Files' = Files
      /\ launched' = launched /\ running' = running /\ results' = results
  BY <1>1, GivenSame DEF given, docVars
<1>3. FileInv(f) /\ files[f].readable /\ GivenOK
  BY <1>1 DEF IInv, FileInv
<1>4. diags = Emitted(f) /\ diags \in Seq(DiagOn(1..Len(files[f].lines)))
  <2>1. Finished(f) = Docs(f)
    BY <1>1, <1>3, FileGiven DEF Finished
  <2>2. results[f] = [i \in Docs(f) |-> DocResult(f, i)]
    BY <1>3, <2>1 DEF FileInv, Expected
  <2> QED BY <1>3, <2>2, EmittedIs
<1> HIDE DEF diags
<1>5. Domains'
  BY <1>1, <1>2 DEF IInv, Domains
<1>6. /\ phase'[f] = "done" /\ found'[f] = diags
      /\ reported'[f] = Filter(ParseSuppressions(files[f].lines), diags)
      /\ \A e \in Files \ {f} : phase'[e] = phase[e] /\ found'[e] = found[e] /\ reported'[e] = reported[e]
  BY <1>1 DEF IInv, Domains
<1>7. FileInv(f)'
  <2>1. Docs(f)' = Docs(f) /\ Emitted(f)' = Emitted(f) /\ \A d : DocResult(f, d)' = DocResult(f, d)
    BY <1>1, GivenSame
  <2>2. Finished(f)' = Finished(f)
    BY <1>2 DEF Finished
  <2>3. Expected(f)' = Expected(f)
    BY <2>1, <2>2 DEF Expected
  <2> QED BY <1>1, <1>2, <1>3, <1>4, <1>6, <2>1, <2>3 DEF FileInv
<1>8. Cardinality(FilesRunning') <= FileLimit
  <2>1. FilesRunning' \subseteq FilesRunning /\ IsFiniteSet(FilesRunning) /\ Cardinality(FilesRunning) <= FileLimit
    BY <1>1, <1>2, <1>6, FilesFinite DEF FilesRunning, IInv
  <2>2. Cardinality(FilesRunning') <= Cardinality(FilesRunning)
        /\ Cardinality(FilesRunning') \in Nat /\ Cardinality(FilesRunning) \in Nat
    BY <2>1, FS_Subset, FS_CardinalityType
  <2> QED BY <2>1, <2>2, ConcurrencyAssumption
<1>9. started <= Len(files)
  BY <1>1, NotPrinted
<1> QED BY <1>1, <1>2, <1>5, <1>6, <1>7, <1>8, <1>9, OneFile

\* What is printed is what the files have reported.
LEMMA PrintAllKeeps == IInv /\ PrintAll => IInv'
<1> SUFFICES ASSUME IInv, PrintAll PROVE IInv'
  OBVIOUS
<1>0. Len(files) \in Nat /\ Files = 1..Len(files)
  BY FilesFinite DEF IInv
<1>1. /\ \A f \in Files : phase[f] = "done"
      /\ started <= Len(files) /\ started' = Len(files) + 1
      /\ output' = FlattenSeq([f \in Files |-> reported[f]])
      /\ UNCHANGED <<given, phase, docVars, found, reported>>
  BY DEF PrintAll
<1>2. files' = files /\ Files' = Files /\ GivenOK'
      /\ launched' = launched /\ running' = running /\ results' = results
  BY <1>1, GivenSame DEF given, docVars, IInv
<1>3. Domains'
  BY <1>1, <1>2 DEF IInv, Domains
<1>4. ASSUME NEW f \in Files PROVE FileInv(f)'
  <2>1. ~(f > started')
    BY <1>0, <1>1
  <2> QED BY <1>1, <1>2, <2>1, FileKept DEF IInv
<1>5. Cardinality(FilesRunning') <= FileLimit
  BY <1>1, RunningSame
<1>6. Printed'
  BY <1>1, <1>2 DEF Printed
<1>7. started' \in 0..(Len(files') + 1)
  BY <1>0, <1>1, <1>2
<1> QED BY <1>2, <1>3, <1>4, <1>5, <1>6, <1>7 DEF IInv

\* Nothing changes where nothing happens.
LEMMA StutterKeeps == IInv /\ UNCHANGED vars => IInv'
<1> SUFFICES ASSUME IInv, UNCHANGED vars PROVE IInv'
  OBVIOUS
<1>1. UNCHANGED <<given, started, phase, launched, running, results, found, reported, output, failed>>
  BY DEF vars, docVars
<1>2. files' = files /\ Files' = Files /\ GivenOK'
  BY <1>1, GivenSame DEF given, IInv
<1>3. Domains' /\ (started' > Len(files') => Printed')
  BY <1>1, <1>2 DEF IInv, Domains, Printed
<1>4. \A f \in Files : FileInv(f)'
  BY <1>1, FileKept DEF IInv
<1>5. Cardinality(FilesRunning') <= FileLimit
  BY <1>1, RunningSame
<1> QED BY <1>1, <1>2, <1>3, <1>4, <1>5 DEF IInv

\* Every step keeps the inductive invariant.
THEOREM IInvKept == IInv /\ [Next]_vars => IInv'
<1> SUFFICES ASSUME IInv, [Next]_vars PROVE IInv'
  OBVIOUS
<1>1. CASE StartFile
  BY <1>1, StartFileKeeps
<1>2. CASE \E f \in Files : Read(f) \/ StartDoc(f) \/ ReportFile(f)
  BY <1>2, ReadKeeps, StartDocKeeps, ReportFileKeeps
<1>3. CASE \E f \in Files : \E i \in Docs(f) : EndDoc(f, i)
  BY <1>3, EndDocKeeps
<1>4. CASE PrintAll
  BY <1>4, PrintAllKeeps
<1>5. CASE Ended \/ UNCHANGED vars
  BY <1>5, StutterKeeps DEF Ended
<1> QED BY <1>1, <1>2, <1>3, <1>4, <1>5 DEF Next

\* The inductive invariant holds always.
THEOREM Invariant == Spec => []IInv
BY IInvInit, IInvKept, PTL DEF Spec

\* lint.go:63-64, in whatever order the goroutines of files and documents run and end, each
\* file reports what a loop over its documents would.
THEOREM SameAsSequentialHolds == Spec => []SameAsSequential
<1>1. IInv => SameAsSequential
  BY DEF IInv, FileInv, SameAsSequential
<1> QED BY <1>1, Invariant, PTL

\* suppress.go:46-51, of any text whose block scalars are the values of keys, exactly the
\* diagnostics on the lines its directives name are left out of what is printed.
THEOREM SuppressedAsDirectedHolds == Spec => []SuppressedAsDirected
<1>1. IInv => SuppressedAsDirected
  <2> SUFFICES ASSUME IInv, started > Len(files), \A f \in Files : HeadersFollowKeys(files[f].lines)
               PROVE  output = FlattenSeq([f \in Files |->
                          Without({i \in 1..Len(files[f].lines) : Suppressed(files[f].lines, i)}, found[f])])
    BY DEF SuppressedAsDirected, PrintsAsDirected
  <2>1. output = FlattenSeq([f \in Files |-> reported[f]])
    BY DEF IInv, Printed
  <2>2. ASSUME NEW f \in Files
        PROVE  reported[f] = Without({i \in 1..Len(files[f].lines) : Suppressed(files[f].lines, i)}, found[f])
    <3> DEFINE on == 1..Len(files[f].lines)
    <3>1. found[f] \in Seq(DiagOn(on)) /\ reported[f] = Filter(ParseSuppressions(files[f].lines), found[f])
      BY DEF IInv, FileInv
    <3>2. files[f].lines \in Seq(Line)
      BY FileGiven DEF IInv
    <3>3. \A k \in 1..Len(found[f]) : found[f][k].line \in on
      <4> HIDE DEF on
      <4>1. \A k \in 1..Len(found[f]) : found[f][k] \in DiagOn(on)
        BY <3>1, ElementOfSeq
      <4> QED BY <4>1 DEF DiagOn
    <3> QED BY <3>1, <3>2, <3>3, FilterAsDirected
  <2>3. [f \in Files |-> reported[f]] =
           [f \in Files |-> Without({i \in 1..Len(files[f].lines) : Suppressed(files[f].lines, i)}, found[f])]
    BY <2>2
  <2> QED BY <2>1, <2>3
<1> QED BY <1>1, Invariant, PTL

\* The limits on goroutines hold, and a load failure is one of a schema that was asked for.
THEOREM LintTypeCorrect == Spec => []TypeOK
<1>1. IInv => TypeOK
  <2> SUFFICES ASSUME IInv PROVE TypeOK
    OBVIOUS
  <2>1. ASSUME NEW f \in Files, NEW i \in Docs(f)
        PROVE  /\ results[f][i].ref \in Ref \cup {None}
               /\ results[f][i].loadErr => results[f][i].diags = <<>>
                                           /\ Asked(f, files[f].docs[i]) = results[f][i].ref
    <3>1. results[f][i] = IF i \in Finished(f) THEN DocResult(f, i) ELSE NoResult
      BY ZenonT(30) DEF IInv, FileInv, Expected
    <3>2. CASE i \in Finished(f)
      <4>1. results[f][i] = ValidateOneDoc(f, files[f].docs[i])
        BY <3>1, <3>2 DEF DocResult
      <4>2. GivenOK
        BY DEF IInv
      <4>3. results[f][i] \in ResultOn(1..Len(files[f].lines))
            /\ (results[f][i].loadErr => results[f][i].diags = <<>>
                                         /\ results[f][i].ref = AskedFor(f, files[f].docs[i]))
        BY <4>1, <4>2, ResultIs
      <4> QED BY <4>2, <4>3, AskedIs DEF ResultOn
    <3>3. CASE i \notin Finished(f)
      BY <3>1, <3>3 DEF NoResult
    <3> QED BY <3>2, <3>3
  <2> QED BY <2>1 DEF TypeOK, IInv, FileInv
<1> QED BY <1>1, Invariant, PTL

-----------------------------------------------------------------------------
(* Texts: units, lines and columns                                          *)

\* u is how many units the first k characters of a text take.
Measures(u, s) ==
    /\ u \in [0..Len(s) -> Nat]
    /\ u[0] = 0 /\ UTF16Len(s) = u[Len(s)]
    /\ \A k \in 1..Len(s) : u[k] = u[k - 1] + Units(s[k])

\* A character takes one unit or more.
LEMMA UnitsAre == \A c : Units(c) \in Nat /\ Units(c) >= 1
BY DEF Units

\* utf16Column, the units of a text are counted character by character.
LEMMA LengthChain ==
    ASSUME NEW S, NEW s \in Seq(S)
    PROVE  \E u : Measures(u, s)
<1> DEFINE n == Len(s)
           step == [x \in Nat \X (1..n) |-> x[1] + Units(s[x[2]])]
           Body(h) == [t \in SUBSET (1..n) |->
                          IF t = {} THEN 0 ELSE h[t \ {Max(t)}] + Units(s[Max(t)])]
           iter == CHOOSE h : h = Body(h)
<1>0. n \in Nat /\ DOMAIN s = 1..n
  BY LenProperties
<1>1. step \in [Nat \X (1..n) -> Nat]
  BY UnitsAre
<1>2. PICK h, g : FoldOf(h, g, n, Nat, 0, step)
  <2> HIDE DEF step, n
  <2> QED BY <1>0, <1>1, Chain
<1>3. h \in [SUBSET (1..n) -> Nat] /\ g \in [0..n -> Nat] /\ g[0] = 0
  BY <1>2 DEF FoldOf
<1>4. \A k \in 1..n : g[k] = g[k - 1] + Units(s[k])
  <2> TAKE k \in 1..n
  <2>1. g[k] = step[<<g[k - 1], k>>]
    BY <1>2 DEF FoldOf
  <2>2. k - 1 \in 0..n
    BY <1>0
  <2>3. g[k - 1] \in Nat
    BY <1>3, <2>2
  <2> QED BY <2>1, <2>3
<1>5. h = Body(h)
  <2> SUFFICES ASSUME NEW t \in SUBSET (1..n) PROVE h[t] = Body(h)[t]
    BY <1>3
  <2>1. h[t] = IF t = {} THEN 0 ELSE step[<<h[t \ {Max(t)}], Max(t)>>]
    BY <1>2 DEF FoldOf, IsFold
  <2>2. CASE t = {}
    BY <2>1, <2>2
  <2>3. CASE t # {}
    <3>1. Max(t) \in 1..n
      BY <1>0, <2>3, MaxIn
    <3>2. h[t \ {Max(t)}] \in Nat
      BY <1>3
    <3> QED BY <2>1, <2>3, <3>1, <3>2
  <2> QED BY <2>2, <2>3
<1>6. iter = Body(iter)
  <2> HIDE DEF Body
  <2> QED BY <1>5
<1>7. UTF16Len(s) = iter[1..n]
  BY <1>0 DEF UTF16Len, FoldLeft, MapThenFoldSet
<1> HIDE DEF iter
<1>8. iter[1..n] = g[n]
  <2>1. iter[{}] = 0
    BY <1>6
  <2>2. ASSUME NEW v \in SUBSET (1..n), v # {}, iter[v \ {Max(v)}] \in Nat
        PROVE  iter[v] = step[<<iter[v \ {Max(v)}], Max(v)>>]
    <3>1. Max(v) \in 1..n
      BY <1>0, <2>2, MaxIn
    <3>2. iter[v] = Body(iter)[v]
      BY <1>6
    <3> QED BY <2>2, <3>1, <3>2
  <2> HIDE DEF step, n, Body
  <2>3. Steps(iter, n, Nat, 0, step)
    BY <2>1, <2>2 DEF Steps
  <2> QED BY <1>0, <1>2, <2>3, FoldsAlong
<1> QED BY <1>3, <1>4, <1>7, <1>8 DEF Measures

\* What comes later on a line has more units before it.
LEMMA Rising ==
    ASSUME NEW n \in Nat, NEW u \in [0..n -> Nat], \A k \in 1..n : u[k] > u[k - 1],
           NEW i \in 0..n, NEW j \in 0..n, i < j
    PROVE  u[i] < u[j]
<1> DEFINE T == {d \in Nat : i + 1 + d <= n => u[i] < u[i + 1 + d]}
<1>1. 0 \in T
  <2>1. i + 1 <= n => i + 1 \in 1..n /\ (i + 1) - 1 = i
    OBVIOUS
  <2>2. i + 1 <= n => u[i + 1] > u[i]
    BY <2>1
  <2>3. i + 1 + 0 = i + 1
    OBVIOUS
  <2>4. i + 1 <= n => u[i + 1] \in Nat /\ u[i] \in Nat
    BY <2>1
  <2> QED BY <2>2, <2>3, <2>4
<1>2. ASSUME NEW d \in T PROVE d + 1 \in T
  <2> SUFFICES ASSUME i + 1 + (d + 1) <= n PROVE u[i] < u[i + 1 + (d + 1)]
    OBVIOUS
  <2> DEFINE p == i + 1 + d
             q == i + 1 + (d + 1)
  <2>1. d \in Nat /\ p \in 0..n /\ q \in 1..n /\ q \in 0..n /\ q - 1 = p /\ p <= n
    OBVIOUS
  <2>2. u[i] < u[p]
    BY <2>1
  <2> HIDE DEF p, q
  <2>3. u[q] > u[p]
    BY <2>1
  <2>4. u[i] \in Nat /\ u[p] \in Nat /\ u[q] \in Nat
    BY <2>1
  <2>5. u[i] < u[q]
    BY <2>2, <2>3, <2>4
  <2> QED BY <2>5 DEF q
<1>3. T = Nat
  <2> HIDE DEF T
  <2>1. T \in SUBSET Nat
    BY DEF T
  <2> QED BY <1>1, <1>2, <2>1, NatInd
<1>4. j - i - 1 \in Nat /\ i + 1 + (j - i - 1) = j /\ j <= n
  OBVIOUS
<1>5. PICK d \in Nat : i + 1 + d = j
  BY <1>4
<1>6. d \in T
  <2> HIDE DEF T
  <2> QED BY <1>3
<1>7. i + 1 + d <= n => u[i] < u[i + 1 + d]
  BY <1>6
<1> HIDE DEF T
<1> QED BY <1>4, <1>5, <1>7

\* A piece of a text takes as many units as the text takes up to its end.
LEMMA LengthOfPrefix ==
    ASSUME NEW S, NEW s \in Seq(S), NEW u, Measures(u, s), NEW k \in 0..Len(s)
    PROVE  UTF16Len(SubSeq(s, 1, k)) = u[k]
<1> DEFINE p == SubSeq(s, 1, k)
<1>0. Len(s) \in Nat /\ k \in Nat
  BY LenProperties
<1>1. p \in Seq(S) /\ Len(p) = k /\ \A i \in 1..k : p[i] = s[i]
  BY <1>0, SubSeqProperties
<1> HIDE DEF p
<1>2. PICK v : Measures(v, p)
  BY <1>1, LengthChain
<1>3. InStep(v, u, k)
  <2>1. v[0] = u[0]
    BY <1>2 DEF Measures
  <2>2. ASSUME NEW i \in 1..k, v[i - 1] = u[i - 1] PROVE v[i] = u[i]
    <3>1. i \in 1..Len(s) /\ i \in 1..Len(p)
      BY <1>0, <1>1
    <3>2. v[i] = v[i - 1] + Units(p[i])
      BY <1>2, <3>1 DEF Measures
    <3>3. u[i] = u[i - 1] + Units(s[i])
      BY <3>1 DEF Measures
    <3> QED BY <1>1, <2>2, <3>2, <3>3
  <2> QED BY <2>1, <2>2 DEF InStep
<1>4. v[k] = u[k]
  <2>1. \A i \in 0..k : v[i] = u[i]
    BY <1>0, <1>3, SameChain
  <2> QED BY <1>0, <2>1
<1> QED BY <1>1, <1>2, <1>4 DEF Measures, p

\* The more of a text, the more units.
LEMMA PrefixesRise ==
    ASSUME NEW S, NEW s \in Seq(S)
    PROVE  /\ \A k \in 0..Len(s) : UTF16Len(SubSeq(s, 1, k)) \in Nat
           /\ UTF16Len(SubSeq(s, 1, 0)) = 0
           /\ \A i, j \in 0..Len(s) : i < j => UTF16Len(SubSeq(s, 1, i)) < UTF16Len(SubSeq(s, 1, j))
<1>0. Len(s) \in Nat
  BY LenProperties
<1>1. PICK u : Measures(u, s)
  BY LengthChain
<1>2. u \in [0..Len(s) -> Nat] /\ u[0] = 0
  BY <1>1 DEF Measures
<1>3. ASSUME NEW k \in 1..Len(s) PROVE u[k] > u[k - 1]
  <2>1. k - 1 \in 0..Len(s)
    BY <1>0
  <2>2. u[k] = u[k - 1] + Units(s[k]) /\ u[k - 1] \in Nat
    BY <1>1, <2>1 DEF Measures
  <2> QED BY <2>2, UnitsAre
<1>4. \A k \in 0..Len(s) : UTF16Len(SubSeq(s, 1, k)) = u[k]
  BY <1>1, LengthOfPrefix
<1>5. \A i, j \in 0..Len(s) : i < j => u[i] < u[j]
  BY <1>0, <1>2, <1>3, Rising
<1> QED BY <1>0, <1>2, <1>4, <1>5

\* The line feeds up to an offset.
Breaks(t, i) == {k \in 1..i : t[k] = LF}

\* They are finitely many.
LEMMA BreaksFinite ==
    ASSUME NEW t, NEW i \in Nat
    PROVE  IsFiniteSet(Breaks(t, i)) /\ Cardinality(Breaks(t, i)) \in Nat
<1>1. IsFiniteSet(1..i)
  BY FS_Interval
<1>2. Breaks(t, i) \in SUBSET (1..i)
  BY DEF Breaks
<1>3. IsFiniteSet(Breaks(t, i))
  BY <1>1, <1>2, FS_Subset
<1> QED BY <1>3, FS_CardinalityType

\* The line of an offset is their number.
LEMMA LineIs ==
    ASSUME NEW t, NEW i
    PROVE  LineOf(t, i) = Cardinality(Breaks(t, i))
BY DEF LineOf, Breaks

\* The later place is on the later line, and on the same one only with no line feed between.
LEMMA LinesRise ==
    ASSUME NEW t, NEW i \in Nat, NEW j \in Nat, i <= j
    PROVE  /\ LineOf(t, i) \in Nat /\ LineOf(t, j) \in Nat
           /\ LineOf(t, i) <= LineOf(t, j)
           /\ LineOf(t, i) = LineOf(t, j) => \A k \in (i + 1)..j : t[k] # LF
<1> DEFINE A == Breaks(t, i)
           B == Breaks(t, j)
<1>1. A \subseteq B
  BY DEF Breaks
<1>2. IsFiniteSet(B) /\ IsFiniteSet(A)
  BY BreaksFinite
<1>3. LineOf(t, i) = Cardinality(A) /\ LineOf(t, j) = Cardinality(B)
  BY LineIs
<1>4. ASSUME Cardinality(A) = Cardinality(B) PROVE \A k \in (i + 1)..j : t[k] # LF
  <2>1. A = B
    <3> HIDE DEF A, B
    <3> QED BY <1>1, <1>2, <1>4, FS_Subset
  <2> SUFFICES ASSUME NEW k \in (i + 1)..j, t[k] = LF PROVE FALSE
    OBVIOUS
  <2>2. k \in B /\ k \notin A
    BY DEF Breaks
  <2> QED BY <2>1, <2>2
<1>5. Cardinality(A) <= Cardinality(B)
  <2> HIDE DEF A, B
  <2> QED BY <1>1, <1>2, FS_Subset
<1>6. Cardinality(A) \in Nat /\ Cardinality(B) \in Nat
  BY BreaksFinite
<1> QED BY <1>3, <1>4, <1>5, <1>6

\* A line feed ends a line.
LEMMA LineAfter ==
    ASSUME NEW t, NEW i \in Nat, i # 0
    PROVE  LineOf(t, i) = LineOf(t, i - 1) + (IF t[i] = LF THEN 1 ELSE 0)
<1> DEFINE A == Breaks(t, i - 1)
           B == Breaks(t, i)
<1>0. i - 1 \in Nat /\ i \in 1..i /\ i \notin 1..(i - 1)
  OBVIOUS
<1>1. IsFiniteSet(A) /\ i \notin A /\ Cardinality(A) \in Nat
  BY <1>0, BreaksFinite DEF Breaks
<1>2. CASE t[i] = LF
  <2>1. B = A \cup {i}
    BY <1>0, <1>2 DEF Breaks
  <2>2. Cardinality(B) = Cardinality(A) + 1
    <3> HIDE DEF A, B
    <3> QED BY <1>1, <2>1, FS_AddElement
  <2> QED BY <1>2, <2>2, LineIs
<1>3. CASE t[i] # LF
  <2>1. B = A
    BY <1>0, <1>3 DEF Breaks
  <2> QED BY <1>1, <1>3, <2>1, LineIs
<1> QED BY <1>2, <1>3

\* A line starts after the last line feed before.
LEMMA StartIs ==
    ASSUME NEW t, NEW i \in Nat
    PROVE  /\ LineStart(t, i) \in 0..i
           /\ LineStart(t, i) # 0 => t[LineStart(t, i)] = LF
           /\ \A k \in (LineStart(t, i) + 1)..i : t[k] # LF
<1> DEFINE A == Breaks(t, i)
<1>0. LineStart(t, i) = Max({0} \cup A)
  BY DEF LineStart, Breaks
<1>1. A \in SUBSET (1..i)
  BY DEF Breaks
<1>2. CASE A = {}
  <2>1. {0} \cup A \in SUBSET Int /\ 0 \in {0} \cup A /\ \A x \in {0} \cup A : x <= 0
    BY <1>2
  <2>2. Max({0} \cup A) = 0
    BY <2>1, MaxIs
  <2>3. \A k \in 1..i : t[k] # LF
    BY <1>2 DEF Breaks
  <2> QED BY <1>0, <2>2, <2>3
<1>3. CASE A # {}
  <2>1. PICK m \in A : \A x \in A : x <= m
    <3> HIDE DEF A
    <3> QED BY <1>1, <1>3, MaxIn
  <2>2. m \in 1..i /\ {0} \cup A \in SUBSET Int /\ m \in {0} \cup A
    BY <1>1
  <2>3. \A x \in {0} \cup A : x <= m
    BY <2>1, <2>2
  <2>4. Max({0} \cup A) = m
    <3> HIDE DEF A
    <3> QED BY <2>2, <2>3, MaxIs
  <2>5. t[m] = LF
    BY DEF Breaks
  <2>6. \A k \in (m + 1)..i : t[k] # LF
    <3> SUFFICES ASSUME NEW k \in (m + 1)..i, t[k] = LF PROVE FALSE
      OBVIOUS
    <3>1. k \in A
      BY <2>2 DEF Breaks
    <3> QED BY <2>1, <2>2, <3>1
  <2> QED BY <1>0, <2>2, <2>4, <2>5, <2>6
<1> QED BY <1>2, <1>3

\* And that is all there is to know of it.
LEMMA StartOf ==
    ASSUME NEW t, NEW i \in Nat, NEW s \in 0..i, s # 0 => t[s] = LF,
           \A k \in (s + 1)..i : t[k] # LF
    PROVE  LineStart(t, i) = s
<1>1. PICK r \in 0..i : /\ r = LineStart(t, i) /\ (r # 0 => t[r] = LF)
                        /\ \A k \in (r + 1)..i : t[k] # LF
  BY StartIs
<1>2. CASE r < s
  <2>1. s \in (r + 1)..i /\ s # 0
    BY <1>2
  <2> QED BY <1>1, <2>1
<1>3. CASE s < r
  <2>1. r \in (s + 1)..i /\ r # 0
    BY <1>3
  <2> QED BY <1>1, <2>1
<1> QED BY <1>1, <1>2, <1>3

\* Places of one line have one start.
LEMMA SameLine ==
    ASSUME NEW t, NEW i \in Nat, NEW j \in Nat, i <= j, LineOf(t, i) = LineOf(t, j)
    PROVE  LineStart(t, i) = LineStart(t, j)
<1>1. \A k \in (i + 1)..j : t[k] # LF
  BY LinesRise
<1>2. PICK s \in 0..i : /\ s = LineStart(t, i) /\ (s # 0 => t[s] = LF)
                        /\ \A k \in (s + 1)..i : t[k] # LF
  BY StartIs
<1>3. s \in 0..j
  OBVIOUS
<1>4. \A k \in (s + 1)..j : t[k] # LF
  <2> TAKE k \in (s + 1)..j
  <2>1. CASE k <= i
    BY <1>2, <2>1
  <2>2. CASE k > i
    <3>1. k \in (i + 1)..j
      BY <2>2
    <3> QED BY <1>1, <3>1
  <2> QED BY <2>1, <2>2
<1>5. LineStart(t, j) = s
  BY <1>2, <1>3, <1>4, StartOf
<1> QED BY <1>2, <1>5

IsPiece(q, t, a, b, S) ==
    q \in Seq(S) /\ Len(q) = b - a /\ \A i \in 1..(b - a) : q[i] = t[a + i]

\* SubSeq cuts such a piece out of a text.
LEMMA PieceIs ==
    ASSUME NEW S, NEW t \in Seq(S), NEW a \in 0..Len(t), NEW b \in a..Len(t)
    PROVE  IsPiece(SubSeq(t, a + 1, b), t, a, b, S)
<1>0. Len(t) \in Nat /\ a \in Nat /\ b \in Nat /\ a <= b /\ b <= Len(t)
  BY LenProperties
<1>1. \A k \in (a + 1)..b : t[k] \in S
  <2> TAKE k \in (a + 1)..b
  <2>1. k \in 1..Len(t)
    BY <1>0
  <2> QED BY <2>1, ElementOfSeq
<1>2. PICK m \in Int : m = a + 1
  BY <1>0
<1>3. b \in Int /\ \A k \in m..b : t[k] \in S
  BY <1>0, <1>1, <1>2
<1> DEFINE q == SubSeq(t, m, b)
<1>4. /\ q \in Seq(S)
      /\ Len(q) = IF m <= b THEN b - m + 1 ELSE 0
      /\ \A i \in 1..(b - m + 1) : q[i] = t[m + i - 1]
  BY <1>3, SubSeqProperties
<1> HIDE DEF q
<1>5. Len(q) = b - a
  BY <1>0, <1>2, <1>4
<1>6. ASSUME NEW i \in 1..(b - a) PROVE q[i] = t[a + i]
  <2>1. i \in 1..(b - m + 1) /\ m + i - 1 = a + i
    BY <1>0, <1>2
  <2> QED BY <1>4, <2>1
<1>7. q = SubSeq(t, a + 1, b)
  BY <1>2 DEF q
<1> QED BY <1>4, <1>5, <1>6, <1>7 DEF IsPiece

\* The start of a piece is itself a piece.
LEMMA PieceOfPiece ==
    ASSUME NEW S, NEW t \in Seq(S), NEW a \in 0..Len(t), NEW b \in a..Len(t), NEW j \in a..b
    PROVE  SubSeq(SubSeq(t, a + 1, b), 1, j - a) = SubSeq(t, a + 1, j)
<1>0. Len(t) \in Nat /\ a \in Nat /\ b \in Nat /\ j \in Nat /\ a <= b /\ j <= b /\ a <= j /\ b <= Len(t)
  BY LenProperties
<1>1. PICK r : r = SubSeq(t, a + 1, b) /\ IsPiece(r, t, a, b, S)
  BY PieceIs
<1>2. r \in Seq(S) /\ 0 \in 0..Len(r) /\ j - a \in 0..Len(r) /\ 0 + 1 = 1
  BY <1>0, <1>1 DEF IsPiece
<1>3. PICK p : p = SubSeq(r, 1, j - a) /\ IsPiece(p, r, 0, j - a, S)
  BY <1>2, PieceIs
<1>4. PICK q : q = SubSeq(t, a + 1, j) /\ IsPiece(q, t, a, j, S)
  <2>1. j \in a..Len(t)
    BY <1>0
  <2> QED BY <2>1, PieceIs
<1>5. Len(p) = j - a /\ Len(q) = j - a
  BY <1>0, <1>3, <1>4 DEF IsPiece
<1>6. ASSUME NEW i \in 1..Len(p) PROVE p[i] = q[i]
  <2>1. i \in 1..((j - a) - 0) /\ i \in 1..(b - a) /\ i \in 1..(j - a) /\ 0 + i = i
    BY <1>0, <1>5
  <2>2. p[i] = r[i]
    BY <2>1, <1>3 DEF IsPiece
  <2>3. r[i] = t[a + i] /\ q[i] = t[a + i]
    BY <2>1, <1>1, <1>4 DEF IsPiece
  <2> QED BY <2>2, <2>3
<1>7. p \in Seq(S) /\ q \in Seq(S)
  BY <1>3, <1>4 DEF IsPiece
<1>8. p = q
  BY <1>5, <1>6, <1>7, SeqEqual
<1> QED BY <1>1, <1>3, <1>4, <1>8

\* The column of an offset, in units.
Col(t, k) == UTF16Len(SubSeq(t, LineStart(t, k) + 1, k))

\* Further on its line is a larger column.
LEMMA ColumnsRise ==
    ASSUME NEW S, NEW t \in Seq(S), NEW i \in 0..Len(t), NEW j \in 0..Len(t),
           i <= j, LineOf(t, i) = LineOf(t, j)
    PROVE  /\ Col(t, i) \in Nat /\ Col(t, j) \in Nat
           /\ i < j => Col(t, i) < Col(t, j)
<1>0. Len(t) \in Nat /\ i \in Nat /\ j \in Nat
  BY LenProperties
<1>1. PICK s \in 0..i : s = LineStart(t, i)
  BY <1>0, StartIs
<1>2. LineStart(t, j) = s
  BY <1>0, <1>1, SameLine
<1>3. s \in 0..Len(t) /\ i \in s..j /\ j \in s..j /\ j \in s..Len(t)
  BY <1>0
<1>4. PICK r \in Seq(S) : /\ Len(r) = j - s
                          /\ SubSeq(r, 1, i - s) = SubSeq(t, s + 1, i)
                          /\ SubSeq(r, 1, j - s) = SubSeq(t, s + 1, j)
  <2>1. PICK r : r = SubSeq(t, s + 1, j) /\ IsPiece(r, t, s, j, S)
    BY <1>3, PieceIs
  <2>2. SubSeq(r, 1, i - s) = SubSeq(t, s + 1, i)
    BY <1>3, <2>1, PieceOfPiece
  <2>3. SubSeq(r, 1, j - s) = SubSeq(t, s + 1, j)
    BY <1>3, <2>1, PieceOfPiece
  <2> QED BY <2>1, <2>2, <2>3 DEF IsPiece
<1>5. i - s \in 0..Len(r) /\ j - s \in 0..Len(r) /\ (i < j => i - s < j - s)
  BY <1>0, <1>3, <1>4
<1>6. Col(t, i) = UTF16Len(SubSeq(r, 1, i - s)) /\ Col(t, j) = UTF16Len(SubSeq(r, 1, j - s))
  BY <1>1, <1>2, <1>4 DEF Col
<1> HIDE DEF Col
<1> QED BY <1>5, <1>6, PrefixesRise

\* The line goes on up to a place on it: no terminator starts before the place, and
\* none has it in its middle.
LEMMA NoEndBefore ==
    ASSUME NEW S, NEW t \in Seq(S), NEW i \in Cursors(t), NEW k \in 1..i,
           LineOf(t, k - 1) = LineOf(t, i)
    PROVE  ~EndsLine(t, k)
<1>0. Len(t) \in Nat /\ i \in 0..Len(t) /\ i \in Nat /\ k \in Nat /\ k - 1 \in Nat /\ k - 1 <= i
  BY LenProperties DEF Cursors
<1>1. \A m \in ((k - 1) + 1)..i : t[m] # LF
  BY <1>0, LinesRise
<1>2. t[k] # LF
  BY <1>0, <1>1
<1>3. CASE k < i
  <2>1. k + 1 \in ((k - 1) + 1)..i
    BY <1>0, <1>3
  <2>2. t[k + 1] # LF
    BY <1>1, <2>1
  <2> QED BY <1>2, <2>2 DEF EndsLine
<1>4. CASE k = i
  <2> SUFFICES ASSUME EndsLine(t, k) PROVE FALSE
    OBVIOUS
  <2>1. t[k] = CR /\ k < Len(t) /\ t[k + 1] = LF
    BY <1>2 DEF EndsLine
  <2>2. i \in 1..(Len(t) - 1)
    BY <1>0, <1>4, <2>1
  <2> QED BY <1>4, <2>1, <2>2 DEF Cursors
<1> QED BY <1>0, <1>3, <1>4

\* What the server takes for the offset of a place is what the editor meant.
LEMMA OffsetIs ==
    ASSUME NEW S, NEW t \in Seq(S), NEW i \in Cursors(t)
    PROVE  OffsetAt(t, EditorPosition(t, i)) = i
<1> DEFINE pos == EditorPosition(t, i)
           n == Len(t)
           stops == {k \in 1..n : /\ LineOf(t, k - 1) = pos.line
                                  /\ Col(t, k - 1) >= pos.character \/ EndsLine(t, k)}
<1>0. n \in Nat /\ i \in 0..n /\ i \in Nat
  BY LenProperties DEF Cursors
<1>1. pos.line = LineOf(t, i) /\ pos.character = Col(t, i)
  BY DEF EditorPosition, Position, Col
<1>2. OffsetAt(t, pos) = IF stops = {} THEN n ELSE Min(stops) - 1
  BY DEF OffsetAt, Col
<1>3. ASSUME NEW k \in stops PROVE k - 1 >= i
  <2> SUFFICES ASSUME k - 1 < i PROVE FALSE
    BY <1>0
  <2>1. k \in 1..i /\ k - 1 \in 0..n /\ k - 1 <= i /\ LineOf(t, k - 1) = LineOf(t, i)
    BY <1>0, <1>1
  <2>2. Col(t, k - 1) \in Nat /\ Col(t, i) \in Nat /\ Col(t, k - 1) < Col(t, i)
    BY <1>0, <2>1, ColumnsRise
  <2>3. Col(t, k - 1) >= Col(t, i) \/ EndsLine(t, k)
    BY <1>1
  <2> QED BY <2>1, <2>2, <2>3, NoEndBefore
<1>4. CASE i = n
  <2>1. stops = {}
    BY <1>0, <1>3, <1>4
  <2> QED BY <1>2, <1>4, <2>1
<1>5. CASE i # n
  <2>1. i + 1 \in 1..n /\ (i + 1) - 1 = i
    BY <1>0, <1>5
  <2>2. Col(t, i) >= Col(t, i)
    BY <1>0, ColumnsRise
  <2>3. i + 1 \in stops
    BY <1>1, <2>1, <2>2
  <2>4. stops \in SUBSET Int /\ \A k \in stops : i + 1 <= k
    BY <1>0, <1>3
  <2>5. Min(stops) = i + 1
    <3> HIDE DEF stops
    <3> QED BY <2>3, <2>4, MinIs
  <2> QED BY <1>0, <1>2, <2>3, <2>5
<1> QED BY <1>4, <1>5

-----------------------------------------------------------------------------
(* Edits                                                                    *)

\* Nonempty places have a first.
LEMMA MinIn ==
    ASSUME NEW n \in Nat, NEW S \in SUBSET (1..n), S # {}
    PROVE  Min(S) \in S /\ \A x \in S : Min(S) <= x
<1>1. S \in SUBSET Nat /\ S \in SUBSET Int
  OBVIOUS
<1>2. PICK m \in S : \A x \in S : m <= x
  BY <1>1, LeastNat
<1>3. Min(S) = m
  BY <1>1, <1>2, MinIs
<1> QED BY <1>2, <1>3

\* Any position is taken for an offset into the text.
LEMMA OffsetIn ==
    ASSUME NEW S, NEW t \in Seq(S), NEW pos
    PROVE  OffsetAt(t, pos) \in 0..Len(t)
<1> DEFINE n == Len(t)
           stops == {k \in 1..n : /\ LineOf(t, k - 1) = pos.line
                                  /\ Col(t, k - 1) >= pos.character \/ EndsLine(t, k)}
<1>0. n \in Nat
  BY LenProperties
<1>1. OffsetAt(t, pos) = IF stops = {} THEN n ELSE Min(stops) - 1
  BY DEF OffsetAt, Col
<1>2. stops \in SUBSET (1..n)
  OBVIOUS
<1>3. CASE stops # {}
  <2>1. Min(stops) \in 1..n
    <3> HIDE DEF stops, n
    <3> QED BY <1>0, <1>2, <1>3, MinIn
  <2> QED BY <1>0, <1>1, <1>3, <2>1
<1> QED BY <1>0, <1>1, <1>3

\* Two offsets in the order of the text.
LEMMA InOrder ==
    ASSUME NEW a \in Nat, NEW b \in Nat, a <= b
    PROVE  Min({a, b}) = a /\ Max({a, b}) = b /\ Min({b, a}) = a /\ Max({b, a}) = b
<1>1. {a, b} \in SUBSET Int /\ {b, a} = {a, b} /\ a \in {a, b} /\ b \in {a, b}
  OBVIOUS
<1>2. (\A x \in {a, b} : a <= x) /\ \A x \in {a, b} : x <= b
  OBVIOUS
<1>3. Min({a, b}) = a
  BY <1>1, <1>2, MinIs
<1>4. Max({a, b}) = b
  BY <1>1, <1>2, MaxIs
<1> QED BY <1>1, <1>3, <1>4

\* What an edit puts between two offsets.
Replaced(t, a, b, new) == SubSeq(t, 1, a) \o new \o SubSeq(t, b + 1, Len(t))

\* What an edit leaves is a text.
LEMMA ReplacedType ==
    ASSUME NEW S, NEW t \in Seq(S), NEW new \in Seq(S), NEW a \in 0..Len(t), NEW b \in 0..Len(t)
    PROVE  Replaced(t, a, b, new) \in Seq(S)
<1>0. Len(t) \in Nat /\ 0 + 1 = 1 /\ 0 \in 0..Len(t) /\ a \in 0..Len(t) /\ Len(t) \in b..Len(t)
  BY LenProperties
<1>1. PICK p : p = SubSeq(t, 1, a) /\ IsPiece(p, t, 0, a, S)
  BY <1>0, PieceIs
<1>2. PICK q : q = SubSeq(t, b + 1, Len(t)) /\ IsPiece(q, t, b, Len(t), S)
  BY <1>0, PieceIs
<1>3. p \in Seq(S) /\ q \in Seq(S)
  BY <1>1, <1>2 DEF IsPiece
<1>4. PICK r \in Seq(S) : r = p \o new
  BY <1>3, ConcatProperties
<1>5. r \o q \in Seq(S)
  BY <1>3, <1>4, ConcatProperties
<1> QED BY <1>1, <1>2, <1>4, <1>5 DEF Replaced

\* A change replaces what is between its ends, whichever comes first.
LEMMA RangeChangeIs ==
    ASSUME NEW S, NEW t \in Seq(S), NEW change, NEW a \in 0..Len(t), NEW b \in 0..Len(t), a <= b,
           \/ OffsetAt(t, change.start) = a /\ OffsetAt(t, change.end) = b
           \/ OffsetAt(t, change.start) = b /\ OffsetAt(t, change.end) = a
    PROVE  ApplyRangeChange(t, change) = Replaced(t, a, b, change.text)
<1>0. a \in Nat /\ b \in Nat
  BY LenProperties
<1>1. Min({a, b}) = a /\ Max({a, b}) = b /\ Min({b, a}) = a /\ Max({b, a}) = b
  BY <1>0, InOrder
<1> QED BY <1>1 DEF ApplyRangeChange, Replaced

\* What a change leaves is a text, wherever its range is.
LEMMA RangeChangeType ==
    ASSUME NEW S, NEW t \in Seq(S), NEW change, change.text \in Seq(S)
    PROVE  ApplyRangeChange(t, change) \in Seq(S)
<1>1. PICK a \in 0..Len(t) : a = OffsetAt(t, change.start)
  BY OffsetIn
<1>2. PICK b \in 0..Len(t) : b = OffsetAt(t, change.end)
  BY OffsetIn
<1>3. a \in Nat /\ b \in Nat
  BY LenProperties
<1>4. CASE a <= b
  <2>1. ApplyRangeChange(t, change) = Replaced(t, a, b, change.text)
    BY <1>1, <1>2, <1>4, RangeChangeIs
  <2> QED BY <2>1, ReplacedType
<1>5. CASE b <= a
  <2>1. ApplyRangeChange(t, change) = Replaced(t, b, a, change.text)
    BY <1>1, <1>2, <1>5, RangeChangeIs
  <2> QED BY <2>1, ReplacedType
<1> QED BY <1>3, <1>4, <1>5

\* g goes through the texts the changes leave.
Applies(g, text, changes, S) ==
    /\ g \in [0..Len(changes) -> Seq(S)]
    /\ g[0] = text /\ Apply(text, changes) = g[Len(changes)]
    /\ \A k \in 1..Len(changes) :
          g[k] = IF changes[k].whole THEN changes[k].text ELSE ApplyRangeChange(g[k - 1], changes[k])

\* store.go:73-83, Apply goes along the changes.
LEMMA ApplyChain ==
    ASSUME NEW S, NEW text \in Seq(S), NEW C, NEW changes \in Seq(C), \A c \in C : c.text \in Seq(S)
    PROVE  \E g : Applies(g, text, changes, S)
<1> DEFINE n == Len(changes)
           After(t, k) == IF changes[k].whole THEN changes[k].text ELSE ApplyRangeChange(t, changes[k])
           step == [x \in Seq(S) \X (1..n) |-> After(x[1], x[2])]
           Body(h) == [s \in SUBSET (1..n) |->
                          IF s = {} THEN text ELSE After(h[s \ {Max(s)}], Max(s))]
           iter == CHOOSE h : h = Body(h)
<1>0. n \in Nat /\ DOMAIN changes = 1..n /\ \A k \in 1..n : changes[k].text \in Seq(S)
  BY LenProperties, ElementOfSeq
<1>a. ASSUME NEW t \in Seq(S), NEW k \in 1..n PROVE After(t, k) \in Seq(S)
  BY <1>0, RangeChangeType
<1> HIDE DEF After
<1>1. step \in [Seq(S) \X (1..n) -> Seq(S)]
  BY <1>a
<1>2. PICK h, g : FoldOf(h, g, n, Seq(S), text, step)
  <2> HIDE DEF step, n
  <2> QED BY <1>0, <1>1, Chain
<1>3. h \in [SUBSET (1..n) -> Seq(S)] /\ g \in [0..n -> Seq(S)] /\ g[0] = text
  BY <1>2 DEF FoldOf
<1>4. \A k \in 1..n : g[k] = After(g[k - 1], k)
  <2> TAKE k \in 1..n
  <2>1. g[k] = step[<<g[k - 1], k>>]
    BY <1>2 DEF FoldOf
  <2>2. k - 1 \in 0..n
    BY <1>0
  <2>3. g[k - 1] \in Seq(S)
    BY <1>3, <2>2
  <2> QED BY <2>1, <2>3
<1>5. h = Body(h)
  <2> SUFFICES ASSUME NEW s \in SUBSET (1..n) PROVE h[s] = Body(h)[s]
    BY <1>3
  <2>1. h[s] = IF s = {} THEN text ELSE step[<<h[s \ {Max(s)}], Max(s)>>]
    BY <1>2 DEF FoldOf, IsFold
  <2>2. CASE s = {}
    BY <2>1, <2>2
  <2>3. CASE s # {}
    <3>1. Max(s) \in 1..n
      BY <1>0, <2>3, MaxIn
    <3>2. h[s \ {Max(s)}] \in Seq(S)
      BY <1>3
    <3> QED BY <2>1, <2>3, <3>1, <3>2
  <2> QED BY <2>2, <2>3
<1>6. iter = Body(iter)
  <2> HIDE DEF Body
  <2> QED BY <1>5
<1>7. Apply(text, changes) = iter[1..n]
  BY <1>0 DEF Apply, FoldLeft, MapThenFoldSet, After
<1> HIDE DEF iter
<1>8. iter[1..n] = g[n]
  <2>1. iter[{}] = text
    BY <1>6
  <2>2. ASSUME NEW s \in SUBSET (1..n), s # {}, iter[s \ {Max(s)}] \in Seq(S)
        PROVE  iter[s] = step[<<iter[s \ {Max(s)}], Max(s)>>]
    <3>1. Max(s) \in 1..n
      BY <1>0, <2>2, MaxIn
    <3>2. iter[s] = Body(iter)[s]
      BY <1>6
    <3> QED BY <2>2, <3>1, <3>2
  <2> HIDE DEF step, n, Body
  <2>3. Steps(iter, n, Seq(S), text, step)
    BY <2>1, <2>2 DEF Steps
  <2> QED BY <1>0, <1>2, <2>3, FoldsAlong
<1> QED BY <1>3, <1>4, <1>7, <1>8 DEF Applies, After

\* Where the editor says a place is, and what it sends.
Positions == [line : Nat, character : Nat]
Changes(S) == [whole : BOOLEAN, text : Seq(S), start : Positions, end : Positions]

\* The change that is sent does what the edit did.
LEMMA ChangeIsEdit ==
    ASSUME NEW S, NEW t \in Seq(S), NEW edit, edit.from \in Cursors(t), edit.to \in Cursors(t),
           edit.from <= edit.to, ~edit.whole
    PROVE  ApplyRangeChange(t, Change(t, edit)) = Edited(t, edit)
<1> DEFINE change == Change(t, edit)
<1>0. edit.from \in 0..Len(t) /\ edit.to \in 0..Len(t)
  BY DEF Cursors
<1>1. OffsetAt(t, EditorPosition(t, edit.from)) = edit.from
  BY OffsetIs
<1>2. OffsetAt(t, EditorPosition(t, edit.to)) = edit.to
  BY OffsetIs
<1>3. /\ change.text = edit.text
      /\ change.start = IF edit.backwards THEN EditorPosition(t, edit.to) ELSE EditorPosition(t, edit.from)
      /\ change.end = IF edit.backwards THEN EditorPosition(t, edit.from) ELSE EditorPosition(t, edit.to)
  BY DEF Change
<1> HIDE DEF change
<1>4. \/ OffsetAt(t, change.start) = edit.from /\ OffsetAt(t, change.end) = edit.to
      \/ OffsetAt(t, change.start) = edit.to /\ OffsetAt(t, change.end) = edit.from
  BY <1>1, <1>2, <1>3
<1>5. ApplyRangeChange(t, change) = Replaced(t, edit.from, edit.to, change.text)
  BY <1>0, <1>4, RangeChangeIs
<1> QED BY <1>3, <1>5 DEF Edited, Replaced, change

\* Along a sequence that only goes on, Apply goes on from where it was.
LEMMA ApplyAppend ==
    ASSUME NEW S, NEW text \in Seq(S), NEW changes \in Seq(Changes(S)), NEW change \in Changes(S)
    PROVE  /\ Apply(text, changes) \in Seq(S)
           /\ Apply(text, Append(changes, change)) =
                 IF change.whole THEN change.text
                 ELSE ApplyRangeChange(Apply(text, changes), change)
<1> DEFINE C == Changes(S)
           n == Len(changes)
<1>0. n \in Nat /\ \A c \in C : c.text \in Seq(S)
  BY LenProperties DEF Changes
<1>1. PICK more : more = Append(changes, change)
  OBVIOUS
<1>2. /\ more \in Seq(C) /\ Len(more) = n + 1
      /\ \A k \in 1..n : more[k] = changes[k]
      /\ more[n + 1] = change
  BY <1>1, AppendProperties
<1> HIDE DEF C, n
<1>3. PICK f : Applies(f, text, changes, S)
  BY <1>0, ApplyChain DEF C
<1>4. PICK g : Applies(g, text, more, S)
  BY <1>0, <1>2, ApplyChain
<1>5. /\ f \in [0..n -> Seq(S)] /\ f[0] = text /\ Apply(text, changes) = f[n]
      /\ g \in [0..(n + 1) -> Seq(S)] /\ g[0] = text /\ Apply(text, more) = g[n + 1]
  BY <1>2, <1>3, <1>4 DEF Applies, n
<1>6. ASSUME NEW k \in 1..n, f[k - 1] = g[k - 1] PROVE f[k] = g[k]
  <2>1. k \in 1..(n + 1)
    BY <1>0
  <2> QED BY <1>2, <1>3, <1>4, <1>6, <2>1 DEF Applies, n
<1>7. f[n] = g[n]
  <2>1. InStep(f, g, n)
    BY <1>5, <1>6 DEF InStep
  <2> QED BY <1>0, <2>1, SameChain
<1>8. n + 1 \in 1..(n + 1) /\ (n + 1) - 1 = n /\ n \in 0..n
  BY <1>0
<1>9. g[n + 1] = IF change.whole THEN change.text ELSE ApplyRangeChange(f[n], change)
  BY <1>2, <1>4, <1>7, <1>8 DEF Applies
<1> QED BY <1>1, <1>5, <1>8, <1>9

\* Nothing to apply.
LEMMA ApplyNothing ==
    ASSUME NEW S, NEW text \in Seq(S)
    PROVE  Apply(text, <<>>) = text
<1>0. <<>> \in Seq(Changes(S)) /\ Len(<<>>) = 0 /\ \A c \in Changes(S) : c.text \in Seq(S)
  BY DEF Changes
<1>1. PICK g : Applies(g, text, <<>>, S)
  BY <1>0, ApplyChain
<1> QED BY <1>0, <1>1 DEF Applies

-----------------------------------------------------------------------------
(* Positions                                                                *)

\* Where the search for a position may stop: at its column or the end of its line.
Stops(t, pos) ==
    {k \in 1..Len(t) : /\ LineOf(t, k - 1) = pos.line
                       /\ Col(t, k - 1) >= pos.character \/ EndsLine(t, k)}

\* Where a position leads: before the first stop, or to the end.
LEMMA StopIs ==
    ASSUME NEW S, NEW t \in Seq(S), NEW pos
    PROVE  \/ Stops(t, pos) = {} /\ OffsetAt(t, pos) = Len(t)
           \/ \E m \in Stops(t, pos) : /\ \A k \in Stops(t, pos) : m <= k
                                       /\ OffsetAt(t, pos) = m - 1
<1>0. Len(t) \in Nat /\ Stops(t, pos) \in SUBSET (1..Len(t))
  BY LenProperties DEF Stops
<1>1. OffsetAt(t, pos) = IF Stops(t, pos) = {} THEN Len(t) ELSE Min(Stops(t, pos)) - 1
  BY DEF OffsetAt, Col, Stops
<1>2. CASE Stops(t, pos) # {}
  <2>1. PICK m \in Stops(t, pos) : m = Min(Stops(t, pos)) /\ \A k \in Stops(t, pos) : m <= k
    BY <1>0, <1>2, MinIn
  <2> QED BY <1>1, <1>2, <2>1
<1> QED BY <1>1, <1>2

\* An offset is never in the middle of a terminator.
LEMMA OffsetIsCursor ==
    ASSUME NEW S, NEW t \in Seq(S), NEW pos
    PROVE  OffsetAt(t, pos) \in Cursors(t)
<1>0. Len(t) \in Nat
  BY LenProperties
<1>1. PICK o \in 0..Len(t) : o = OffsetAt(t, pos)
  BY OffsetIn
<1>2. CASE o = Len(t)
  BY <1>0, <1>1, <1>2 DEF Cursors
<1>3. ASSUME NEW m \in Stops(t, pos), \A k \in Stops(t, pos) : m <= k, o = m - 1
      PROVE  o \in Cursors(t)
  <2> SUFFICES ASSUME o \in 1..(Len(t) - 1), t[o] = CR, t[o + 1] = LF PROVE FALSE
    BY <1>0 DEF Cursors
  <2>1. o \in Nat /\ o # 0 /\ o - 1 \in Nat /\ o \in 1..Len(t) /\ o < Len(t)
    BY <1>0
  <2>2. LineOf(t, o) = LineOf(t, o - 1) + (IF t[o] = LF THEN 1 ELSE 0)
    BY <2>1, LineAfter
  <2>3. t[o] # LF
    BY DEF CR, LF
  <2>4. LineOf(t, o - 1) \in Nat
    BY <2>1, LinesRise
  <2>5. LineOf(t, o - 1) = LineOf(t, o)
    BY <2>2, <2>3, <2>4
  <2>6. LineOf(t, o) = pos.line
    BY <1>3 DEF Stops
  <2>7. EndsLine(t, o)
    BY <2>1 DEF EndsLine
  <2>8. o \in Stops(t, pos)
    BY <2>1, <2>5, <2>6, <2>7 DEF Stops
  <2>9. m <= o /\ m \in Nat
    BY <1>3, <2>8 DEF Stops
  <2> QED BY <1>3, <2>1, <2>9
<1> QED BY <1>1, <1>2, <1>3, StopIs

\* A line before the last one of a text ends.
LEMMA LineEnds ==
    ASSUME NEW S, NEW t \in Seq(S), NEW line \in Nat, line < LineOf(t, Len(t))
    PROVE  \E p \in 1..Len(t) : LineOf(t, p - 1) = line /\ t[p] = LF
<1> DEFINE T == {p \in Nat : LineOf(t, p) > line}
<1>0. Len(t) \in Nat /\ \A p \in Nat : LineOf(t, p) \in Nat
  BY LenProperties, LinesRise
<1>1. Len(t) \in T /\ T \in SUBSET Nat
  BY <1>0
<1>2. PICK p \in T : \A q \in T : p <= q
  <2> HIDE DEF T
  <2> QED BY <1>1, LeastNat
<1>3. LineOf(t, 0) = 0
  <2>1. Breaks(t, 0) = {}
    BY DEF Breaks
  <2> QED BY <2>1, LineIs, FS_EmptySet
<1>4. p \in Nat /\ p # 0 /\ p <= Len(t) /\ p - 1 \in Nat /\ LineOf(t, p) > line
  BY <1>1, <1>2, <1>3
<1>5. p - 1 \notin T
  BY <1>2, <1>4
<1>6. LineOf(t, p - 1) <= line
  BY <1>0, <1>4, <1>5
<1>7. LineOf(t, p) = LineOf(t, p - 1) + (IF t[p] = LF THEN 1 ELSE 0)
  BY <1>4, LineAfter
<1>8. LineOf(t, p - 1) \in Nat
  BY <1>0, <1>4
<1>9. LineOf(t, p - 1) = line /\ t[p] = LF
  BY <1>4, <1>6, <1>7, <1>8
<1>10. p \in 1..Len(t)
  BY <1>0, <1>4
<1> QED BY <1>9, <1>10

\* A position outside of the text is taken for a place in it.
MovedInto(t, line, character) ==
    LET offset == OffsetAt(t, Position(line, character))
        there == EditorPosition(t, offset)
    IN  /\ offset \in Cursors(t)
        /\ line <= LineOf(t, Len(t)) => there.line = line
        /\ line > LineOf(t, Len(t)) => offset = Len(t)
        /\ there.character < character => offset = Len(t) \/ EndsLine(t, offset + 1)

\* cursor.go:222-225, and that whatever the position and the text.
LEMMA PositionsMovedInto ==
    ASSUME NEW S, NEW t \in Seq(S), NEW line \in Nat, NEW character \in Nat
    PROVE  MovedInto(t, line, character)
<1> DEFINE pos == Position(line, character)
<1>0. Len(t) \in Nat /\ \A p \in Nat : LineOf(t, p) \in Nat
  BY LenProperties, LinesRise
<1>1. PICK o \in Cursors(t) : o = OffsetAt(t, pos)
  BY OffsetIsCursor
<1>2. o \in 0..Len(t)
  BY DEF Cursors
<1>3. EditorPosition(t, o).line = LineOf(t, o) /\ EditorPosition(t, o).character = Col(t, o)
  BY DEF EditorPosition, Position, Col
<1>4. pos.line = line /\ pos.character = character
  BY DEF Position
<1> HIDE DEF pos
<1>5. CASE Stops(t, pos) = {} /\ o = Len(t)
  <2>1. ~(line < LineOf(t, Len(t)))
    <3> SUFFICES ASSUME line < LineOf(t, Len(t)) PROVE FALSE
      OBVIOUS
    <3>1. PICK p \in 1..Len(t) : LineOf(t, p - 1) = line /\ t[p] = LF
      BY LineEnds
    <3>2. p \in Stops(t, pos)
      BY <1>4, <3>1 DEF Stops, EndsLine
    <3> QED BY <1>5, <3>2
  <2>2. LineOf(t, Len(t)) \in Nat
    BY <1>0
  <2> QED BY <1>1, <1>3, <1>5, <2>1, <2>2 DEF MovedInto, pos
<1>6. ASSUME NEW m \in Stops(t, pos), o = m - 1
      PROVE  MovedInto(t, line, character)
  <2>1. m \in 1..Len(t) /\ o + 1 = m /\ o \in Nat /\ o <= Len(t)
    BY <1>0, <1>2, <1>6 DEF Stops
  <2>2. LineOf(t, o) = line /\ (Col(t, o) >= character \/ EndsLine(t, o + 1))
    BY <1>4, <1>6, <2>1 DEF Stops
  <2>3. LineOf(t, o) <= LineOf(t, Len(t)) /\ LineOf(t, Len(t)) \in Nat
    BY <1>0, <2>1, LinesRise
  <2>4. Col(t, o) \in Nat
    BY <1>2, ColumnsRise
  <2> QED BY <1>1, <1>3, <2>2, <2>3, <2>4 DEF MovedInto, pos
<1>7. o = OffsetAt(t, pos) 
  BY <1>1
<1> QED BY <1>5, <1>6, <1>7, StopIs

\* No line feed in between, one line.
LEMMA OneLine ==
    ASSUME NEW t, NEW i \in Nat, NEW j \in Nat, i <= j, \A k \in (i + 1)..j : t[k] # LF
    PROVE  LineOf(t, i) = LineOf(t, j)
<1>1. Breaks(t, i) = Breaks(t, j)
  <2>1. ASSUME NEW k \in Breaks(t, j) PROVE k \in Breaks(t, i)
    <3>1. k \in 1..j /\ t[k] = LF /\ k \notin (i + 1)..j
      BY DEF Breaks
    <3>2. k \in 1..i
      BY <3>1
    <3> QED BY <3>1, <3>2 DEF Breaks
  <2>2. ASSUME NEW k \in Breaks(t, i) PROVE k \in Breaks(t, j)
    <3>1. k \in 1..i /\ t[k] = LF
      BY DEF Breaks
    <3>2. k \in 1..j
      BY <3>1
    <3> QED BY <3>1, <3>2 DEF Breaks
  <2> QED BY <2>1, <2>2
<1> QED BY <1>1, LineIs

\* The line of a place goes from its start to the line feed after it.
LEMMA LineTextIs ==
    ASSUME NEW S, NEW t \in Seq(S), NEW i \in 0..Len(t)
    PROVE  \E e \in i..Len(t) :
              LineText(t, LineOf(t, i)) = SubSeq(t, LineStart(t, i) + 1, e)
<1> DEFINE n == Len(t)
           line == LineOf(t, i)
           Starts(j) == LineStart(t, j) = j /\ LineOf(t, j) = line
           start == CHOOSE j \in 0..n : Starts(j)
           ends == {k \in (start + 1)..n : t[k] = LF}
<1>0. n \in Nat /\ i \in Nat /\ i <= n
  BY LenProperties
<1>1. PICK s \in 0..i : /\ s = LineStart(t, i) /\ (s # 0 => t[s] = LF)
                        /\ \A k \in (s + 1)..i : t[k] # LF
  BY <1>0, StartIs
<1>2. s \in Nat /\ s <= i /\ s \in 0..n /\ s \in 0..s /\ \A k \in (s + 1)..s : t[k] # LF
  BY <1>0
<1>3. LineStart(t, s) = s
  BY <1>1, <1>2, StartOf
<1>4. LineOf(t, s) = line
  BY <1>0, <1>1, <1>2, OneLine
<1>5. ASSUME NEW j \in 0..n, Starts(j) PROVE j = s
  <2>1. j \in Nat /\ LineOf(t, j) = LineOf(t, s)
    BY <1>4, <1>5
  <2>2. j <= s => LineStart(t, j) = LineStart(t, s)
    BY <1>2, <2>1, SameLine
  <2>3. s <= j => LineStart(t, j) = LineStart(t, s)
    BY <1>2, <2>1, SameLine
  <2> QED BY <1>2, <1>3, <1>5, <2>1, <2>2, <2>3
<1>6. start = s
  <2>1. Starts(s)
    BY <1>3, <1>4
  <2> HIDE DEF Starts
  <2> QED BY <1>2, <1>5, <2>1
<1>7. LineOf(t, n) \in Nat /\ line \in Nat /\ line <= LineOf(t, n)
  BY <1>0, LinesRise
<1>8. LineText(t, line) = CASE LineOf(t, n) < line -> <<>>
                            [] LineOf(t, n) >= line /\ ends = {} -> SubSeq(t, start + 1, n)
                            [] OTHER -> SubSeq(t, start + 1, Min(ends) - 1)
  BY DEF LineText
<1> HIDE DEF start, line
<1>9. CASE ends = {}
  <2>1. LineText(t, line) = SubSeq(t, s + 1, n)
    <3>1. ~(LineOf(t, n) < line) /\ LineOf(t, n) >= line
      BY <1>7
    <3> HIDE DEF ends
    <3> QED BY <1>6, <1>8, <1>9, <3>1
  <2>2. n \in i..Len(t)
    BY <1>0
  <2>3. LineText(t, LineOf(t, i)) = SubSeq(t, LineStart(t, i) + 1, n)
    BY <1>1, <2>1 DEF line
  <2> HIDE DEF n
  <2> QED BY <2>2, <2>3
<1>10. CASE ends # {}
  <2>1. LineText(t, line) = SubSeq(t, s + 1, Min(ends) - 1)
    <3>1. ~(LineOf(t, n) < line) /\ ~(LineOf(t, n) >= line /\ ends = {})
      BY <1>7, <1>10
    <3> HIDE DEF ends
    <3> QED BY <1>6, <1>8, <3>1
  <2>2. ends \in SUBSET (1..n)
    BY <1>0, <1>2, <1>6
  <2>3. PICK m \in ends : m = Min(ends)
    <3> HIDE DEF ends
    <3> QED BY <1>0, <1>10, <2>2, MinIn
  <2>4. m \in (s + 1)..n /\ t[m] = LF
    BY <1>6
  <2>5. m \notin (s + 1)..i
    BY <1>1, <2>4
  <2>6. m - 1 \in i..n
    BY <1>0, <1>2, <2>4, <2>5
  <2> QED BY <1>1, <2>1, <2>3, <2>6 DEF line
<1> QED BY <1>9, <1>10

\* What is before a cursor of the client on its line, for the parser.
LEMMA CursorColumnIs ==
    ASSUME NEW S, NEW l \in Seq(S), NEW c \in 0..Len(l)
    PROVE  Len(LineUpToUTF16(l, UTF16Len(SubSeq(l, 1, c)))) = c
<1> DEFINE U(k) == UTF16Len(SubSeq(l, 1, k))
           past == {k \in 1..Len(l) : U(k - 1) >= U(c)}
<1>0. Len(l) \in Nat /\ c \in Nat /\ c <= Len(l) /\ 0 + 1 = 1 /\ 0 \in 0..Len(l)
  BY LenProperties
<1>1. /\ \A k \in 0..Len(l) : U(k) \in Nat
      /\ \A i, j \in 0..Len(l) : i < j => U(i) < U(j)
  BY PrefixesRise
<1>2. LineUpToUTF16(l, U(c)) = IF past = {} THEN l ELSE SubSeq(l, 1, Min(past) - 1)
  BY DEF LineUpToUTF16
<1> HIDE DEF U
<1>3. ASSUME NEW k \in past PROVE c + 1 <= k
  <2>1. k \in 1..Len(l) /\ U(k - 1) >= U(c) /\ k - 1 \in 0..Len(l)
    BY <1>0
  <2>2. ~(k - 1 < c)
    <3> SUFFICES ASSUME k - 1 < c PROVE FALSE
      OBVIOUS
    <3>1. U(k - 1) < U(c) /\ U(k - 1) \in Nat /\ U(c) \in Nat
      BY <1>1, <2>1
    <3> QED BY <2>1, <3>1
  <2> QED BY <1>0, <2>1, <2>2
<1>4. CASE c = Len(l)
  <2>1. past = {}
    BY <1>0, <1>3, <1>4
  <2> QED BY <1>2, <1>4, <2>1 DEF U
<1>5. CASE c # Len(l)
  <2>1. c + 1 \in 1..Len(l) /\ (c + 1) - 1 = c /\ U(c) \in Nat
    BY <1>0, <1>1, <1>5
  <2>2. c + 1 \in past
    BY <2>1
  <2>3. past \in SUBSET Int /\ past # {}
    BY <2>2
  <2>4. Min(past) = c + 1
    <3> HIDE DEF past
    <3> QED BY <1>3, <2>2, <2>3, MinIs
  <2>5. LineUpToUTF16(l, U(c)) = SubSeq(l, 1, c)
    BY <1>2, <2>1, <2>3, <2>4
  <2>6. PICK p : p = SubSeq(l, 1, c) /\ IsPiece(p, l, 0, c, S)
    BY <1>0, PieceIs
  <2>7. Len(p) = c
    BY <1>0, <2>6 DEF IsPiece
  <2> QED BY <2>5, <2>6, <2>7 DEF U
<1> QED BY <1>4, <1>5

\* From the client to the parser and back.
LEMMA ThereAndBack ==
    ASSUME NEW S, NEW t \in Seq(S), NEW i \in Cursors(t)
    PROVE  LET pos == EditorPosition(t, i)
           IN  UTF16Position(t, pos.line + 1, CursorColumn(t, pos)) = pos
<1> DEFINE pos == EditorPosition(t, i)
<1>0. Len(t) \in Nat /\ i \in 0..Len(t) /\ i \in Nat
  BY LenProperties DEF Cursors
<1>1. PICK s \in 0..i : s = LineStart(t, i)
  BY <1>0, StartIs
<1>2. PICK e \in i..Len(t) : LineText(t, LineOf(t, i)) = SubSeq(t, s + 1, e)
  BY <1>0, <1>1, LineTextIs
<1>3. s \in 0..Len(t) /\ e \in s..Len(t) /\ i \in s..e /\ s \in Nat /\ e \in Nat /\ s <= i /\ i <= e
  BY <1>0, <1>1, <1>2
<1>4. PICK l : l = SubSeq(t, s + 1, e) /\ IsPiece(l, t, s, e, S)
  BY <1>3, PieceIs
<1>5. l \in Seq(S) /\ Len(l) = e - s
  BY <1>4 DEF IsPiece
<1>6. PICK c \in 0..Len(l) : c = i - s
  BY <1>0, <1>3, <1>5
<1>7. SubSeq(l, 1, c) = SubSeq(t, s + 1, i)
  BY <1>3, <1>4, <1>6, PieceOfPiece
<1>8. pos = Position(LineOf(t, i), UTF16Len(SubSeq(l, 1, c)))
  BY <1>1, <1>7 DEF EditorPosition
<1>9. pos.line = LineOf(t, i) /\ pos.character = UTF16Len(SubSeq(l, 1, c)) /\ LineOf(t, i) \in Nat
  BY <1>0, <1>8, LinesRise DEF Position
<1>10. LineText(t, pos.line) = l
  BY <1>2, <1>4, <1>9
<1>11. CursorColumn(t, pos) = c + 1
  BY <1>5, <1>9, <1>10, CursorColumnIs DEF CursorColumn
<1>12. UTF16Column(l, c + 1) = UTF16Len(SubSeq(l, 1, c))
  <2>0. c \in Nat /\ (c + 1) - 1 = c /\ Len(l) \in Nat /\ c <= Len(l)
    BY <1>5, LenProperties
  <2>1. UTF16Len(SubSeq(l, 1, 0)) = 0
    BY <1>5, PrefixesRise
  <2>2. CASE c = 0
    <3>1. c + 1 <= 1 /\ ~(c + 1 > 1)
      BY <2>2
    <3> QED BY <2>0, <2>1, <2>2, <3>1 DEF UTF16Column
  <2>3. CASE c # 0
    <3>1. c + 1 > 1 /\ ~(c + 1 <= 1)
      BY <2>0, <2>3
    <3> QED BY <2>0, <3>1 DEF UTF16Column
  <2> QED BY <2>2, <2>3
<1> HIDE DEF pos
<1>13. UTF16Position(t, pos.line + 1, c + 1) = Position(pos.line, UTF16Column(LineText(t, pos.line), c + 1))
  <2>1. PICK ln \in Nat : ln = pos.line
    BY <1>9
  <2>2. ln + 1 # 0 /\ (ln + 1) - 1 = ln
    OBVIOUS
  <2> QED BY <2>1, <2>2 DEF UTF16Position
<1>14. UTF16Position(t, pos.line + 1, CursorColumn(t, pos)) = pos
  BY <1>8, <1>9, <1>10, <1>11, <1>12, <1>13
<1> QED BY <1>14 DEF pos

\* cursor.go:222-225 and locate.go:300-306, in any text the client, the parser and the code
\* mean the same place by a position, and one outside of the text is moved into it.
LEMMA PositionsAgreeInText ==
    ASSUME NEW S, NEW text \in Seq(S)
    PROVE  PositionsAgree(text)
<1>0. Len(text) \in Nat
  BY LenProperties
<1>1. LineOf(text, Len(text)) \in Nat
  BY <1>0, LinesRise
<1>2. UTF16Len(text) \in Nat
  <2>1. PICK u : Measures(u, text)
    BY LengthChain
  <2> QED BY <1>0, <2>1 DEF Measures
<1>3. ASSUME NEW line \in 0..(LineOf(text, Len(text)) + 1), NEW character \in 0..(UTF16Len(text) + 1)
      PROVE  MovedInto(text, line, character)
  <2>1. line \in Nat /\ character \in Nat
    BY <1>1, <1>2
  <2> QED BY <2>1, PositionsMovedInto
<1>4. \A i \in Cursors(text) : LET pos == EditorPosition(text, i)
                               IN  UTF16Position(text, pos.line + 1, CursorColumn(text, pos)) = pos
  BY ThereAndBack
<1> QED BY <1>3, <1>4 DEF PositionsAgree, MovedInto

-----------------------------------------------------------------------------
(* Globs: the places GlobMatch goes through                                 *)

\* The places from which on the path is matched by the pattern from i on, by the
\* places for the rest of the pattern.
StartsAt(pat, path, f, i) ==
    LET next == f[i + 1]
        rest == AfterTwoStars(pat, i)
        ends == IF rest > Len(pat) THEN 1..(Len(path) + 1) ELSE f[rest]
    IN  {j \in 1..(Len(path) + 1) :
            \/ i > Len(pat) /\ j > Len(path)
            \/ TwoStarsAt(pat, i) /\ \E k \in ends : j <= k
            \/ /\ StarAt(pat, i) /\ ~StarAt(pat, i + 1)
               /\ \E k \in next : j <= k /\ \A m \in j..(k - 1) : path[m] # "/"
            \/ /\ i <= Len(pat) /\ ~StarAt(pat, i)
               /\ j <= Len(path) /\ pat[i] = path[j] /\ j + 1 \in next}

\* f[i] are those places, from place b of the pattern on.
StartsFrom(f, pat, path, b) ==
    /\ f \in [b..(Len(pat) + 1) -> SUBSET (1..(Len(path) + 1))]
    /\ \A i \in b..(Len(pat) + 1) : f[i] = StartsAt(pat, path, f, i)

\* They depend on the places for what is left of the pattern only.
LEMMA StartsByRest ==
    ASSUME NEW S, NEW pat \in Seq(S), NEW path, NEW f, NEW h, NEW i \in 1..(Len(pat) + 1),
           \A k \in (i + 1)..(Len(pat) + 1) : f[k] = h[k]
    PROVE  StartsAt(pat, path, f, i) = StartsAt(pat, path, h, i)
<1> DEFINE m == Len(pat)
           n == Len(path)
           rest == AfterTwoStars(pat, i)
           ends(e) == IF rest > m THEN 1..(n + 1) ELSE e[rest]
<1>0. m \in Nat /\ i \in Int
  BY LenProperties
<1>1. TwoStarsAt(pat, i) => ends(f) = ends(h)
  <2> SUFFICES ASSUME TwoStarsAt(pat, i), ~(rest > m) PROVE f[rest] = h[rest]
    OBVIOUS
  <2>1. rest \in (i + 1)..(m + 1)
    BY <1>0 DEF AfterTwoStars
  <2> QED BY <2>1
<1>2. i <= m => f[i + 1] = h[i + 1]
  BY <1>0
<1>3. StarAt(pat, i) => i <= m
  BY DEF StarAt
<1>4. \A e : StartsAt(pat, path, e, i) = {j \in 1..(n + 1) :
            \/ i > m /\ j > n
            \/ TwoStarsAt(pat, i) /\ \E k \in ends(e) : j <= k
            \/ /\ StarAt(pat, i) /\ ~StarAt(pat, i + 1)
               /\ \E k \in e[i + 1] : j <= k /\ \A x \in j..(k - 1) : path[x] # "/"
            \/ /\ i <= m /\ ~StarAt(pat, i)
               /\ j <= n /\ pat[i] = path[j] /\ j + 1 \in e[i + 1]}
  BY DEF StartsAt
<1> HIDE DEF ends
<1> QED BY <1>1, <1>2, <1>3, <1>4

\* There are such places for every place of the pattern.
LEMMA StartsExist ==
    ASSUME NEW S, NEW pat \in Seq(S), NEW path \in Seq(S)
    PROVE  \E f : StartsFrom(f, pat, path, 1)
<1> DEFINE m == Len(pat)
           n == Len(path)
           T == {d \in Nat : d <= m => \E f : StartsFrom(f, pat, path, m + 1 - d)}
<1>0. m \in Nat /\ n \in Nat
  BY LenProperties
<1>1. ASSUME NEW b \in 1..(m + 1), NEW h, b <= m => StartsFrom(h, pat, path, b + 1)
      PROVE  \E f : StartsFrom(f, pat, path, b)
  <2> DEFINE f == [i \in b..(m + 1) |-> IF i = b THEN StartsAt(pat, path, h, b) ELSE h[i]]
  <2>0. b \in Int
    OBVIOUS
  <2>1. ASSUME NEW i \in (b + 1)..(m + 1)
        PROVE  /\ h[i] \in SUBSET (1..(n + 1)) /\ h[i] = StartsAt(pat, path, h, i)
               /\ f[i] = h[i]
    <3>1. b <= m /\ i \in b..(m + 1) /\ i # b
      BY <1>0, <2>0, <2>1
    <3>2. StartsFrom(h, pat, path, b + 1)
      BY <3>1, <1>1
    <3>3. h \in [(b + 1)..(m + 1) -> SUBSET (1..(n + 1))]
      BY <3>2 DEF StartsFrom
    <3> QED BY <3>1, <3>2, <3>3 DEF StartsFrom
  <2>2. ASSUME NEW i \in b..(m + 1)
        PROVE  f[i] = StartsAt(pat, path, f, i) /\ f[i] \in SUBSET (1..(n + 1))
    <3>0. i \in 1..(m + 1)
      BY <1>0, <2>0
    <3>1. \A k \in (i + 1)..(m + 1) : f[k] = h[k]
      <4> TAKE k \in (i + 1)..(m + 1)
      <4>1. k \in (b + 1)..(m + 1)
        BY <2>0
      <4> QED BY <4>1, <2>1
    <3>2. StartsAt(pat, path, f, i) = StartsAt(pat, path, h, i)
      <4> HIDE DEF f
      <4> QED BY <3>0, <3>1, StartsByRest
    <3>3. StartsAt(pat, path, h, i) \in SUBSET (1..(n + 1))
      BY DEF StartsAt
    <3>4. f[i] = StartsAt(pat, path, h, i)
      <4>1. CASE i = b
        BY <4>1
      <4>2. CASE i # b
        <5>1. i \in (b + 1)..(m + 1)
          BY <4>2, <2>0, <1>0
        <5> QED BY <5>1, <2>1
      <4> QED BY <4>1, <4>2
    <3> HIDE DEF f
    <3> QED BY <3>2, <3>3, <3>4
  <2>3. f \in [b..(m + 1) -> SUBSET (1..(n + 1))]
    <3>1. f = [i \in b..(m + 1) |-> f[i]]
      OBVIOUS
    <3> HIDE DEF f
    <3> QED BY <3>1, <2>2
  <2>4. StartsFrom(f, pat, path, b)
    <3> HIDE DEF f
    <3> QED BY <2>2, <2>3 DEF StartsFrom
  <2> QED BY <2>4
<1>2. 0 \in T
  <2>1. m + 1 \in 1..(m + 1) /\ ~(m + 1 <= m) /\ m + 1 - 0 = m + 1
    BY <1>0
  <2>2. \E f : StartsFrom(f, pat, path, m + 1)
    BY <2>1, <1>1
  <2> QED BY <2>1, <2>2
<1>3. ASSUME NEW d \in T PROVE d + 1 \in T
  <2>0. d \in Nat /\ d + 1 \in Nat
    OBVIOUS
  <2>1. ASSUME d + 1 <= m PROVE \E f : StartsFrom(f, pat, path, m + 1 - (d + 1))
    <3>1. PICK h : StartsFrom(h, pat, path, m + 1 - d)
      BY <2>0, <2>1, <1>0
    <3>2. m + 1 - (d + 1) \in 1..(m + 1) /\ m + 1 - (d + 1) + 1 = m + 1 - d
      BY <2>0, <2>1, <1>0
    <3>3. StartsFrom(h, pat, path, m + 1 - (d + 1) + 1)
      BY <3>1, <3>2
    <3> QED BY <3>2, <3>3, <1>1
  <2> QED BY <2>0, <2>1
<1>4. T = Nat
  <2> HIDE DEF T
  <2>1. T \in SUBSET Nat
    BY DEF T
  <2> QED BY <2>1, <1>2, <1>3, NatInd
<1>5. CASE m = 0
  <2>1. 1 \in 1..(m + 1) /\ ~(1 <= m)
    BY <1>5
  <2> QED BY <2>1, <1>1
<1>6. CASE m # 0
  <2>1. m \in T /\ m + 1 - m = 1
    BY <1>0, <1>4
  <2> QED BY <2>1
<1> QED BY <1>5, <1>6

\* globMatch goes by such places.
LEMMA GlobStarts ==
    ASSUME NEW S, NEW pat \in Seq(S), NEW path \in Seq(S)
    PROVE  \E f : StartsFrom(f, pat, path, 1) /\ (GlobMatch(pat, path) <=> 1 \in f[1])
<1> DEFINE m == Len(pat)
           n == Len(path)
           Body(f) == [i \in 1..(m + 1) |-> StartsAt(pat, path, f, i)]
           F == CHOOSE f : f = Body(f)
<1>0. m \in Nat /\ n \in Nat
  BY LenProperties
<1>1. PICK f : StartsFrom(f, pat, path, 1)
  BY StartsExist
<1>2. f = Body(f)
  <2>1. f \in [1..(m + 1) -> SUBSET (1..(n + 1))] /\ \A i \in 1..(m + 1) : f[i] = StartsAt(pat, path, f, i)
    BY <1>1 DEF StartsFrom
  <2> QED BY <2>1
<1>3. F = Body(F)
  <2> HIDE DEF Body
  <2> QED BY <1>2
<1>4. GlobMatch(pat, path) <=> 1 \in F[1]
  BY DEF GlobMatch, StartsAt
<1> HIDE DEF F
<1>5. \A i \in 1..(m + 1) : F[i] = StartsAt(pat, path, F, i) /\ F[i] \in SUBSET (1..(n + 1))
  <2> TAKE i \in 1..(m + 1)
  <2>1. F[i] = StartsAt(pat, path, F, i)
    BY <1>3
  <2>2. StartsAt(pat, path, F, i) \in SUBSET (1..(n + 1))
    BY DEF StartsAt
  <2> QED BY <2>1, <2>2
<1>6. F = [i \in 1..(m + 1) |-> F[i]]
  BY <1>3
<1>7. F \in [1..(m + 1) -> SUBSET (1..(n + 1))]
  BY <1>5, <1>6
<1> QED BY <1>4, <1>5, <1>7 DEF StartsFrom

\* What the places say of each other.
Matches(f, pat, path) ==
    /\ \A i \in 1..(Len(pat) + 1) : f[i] \in SUBSET (1..(Len(path) + 1))
    /\ f[Len(pat) + 1] = {Len(path) + 1}
    /\ \A i \in 1..Len(pat), j \in 1..(Len(path) + 1) :
          /\ TwoStarsAt(pat, i) =>
                (j \in f[i] <=> \/ AfterTwoStars(pat, i) > Len(pat)
                                \/ \E k \in f[AfterTwoStars(pat, i)] : j <= k)
          /\ StarAt(pat, i) /\ ~StarAt(pat, i + 1) =>
                (j \in f[i] <=> \E k \in f[i + 1] : j <= k /\ \A x \in j..(k - 1) : path[x] # "/")
          /\ ~StarAt(pat, i) =>
                (j \in f[i] <=> j <= Len(path) /\ pat[i] = path[j] /\ j + 1 \in f[i + 1])

\* What GlobMatch computes is what the places say of each other.
LEMMA StartsMatch ==
    ASSUME NEW S, NEW pat \in Seq(S), NEW path \in Seq(S), NEW f, StartsFrom(f, pat, path, 1)
    PROVE  Matches(f, pat, path)
<1> DEFINE m == Len(pat)
           n == Len(path)
<1>0. m \in Nat /\ n \in Nat
  BY LenProperties
<1>1. \A i \in 1..(m + 1) : f[i] \in SUBSET (1..(n + 1)) /\ f[i] = StartsAt(pat, path, f, i)
  BY DEF StartsFrom
<1>2. f[m + 1] = {n + 1}
  <2>1. m + 1 \in 1..(m + 1) /\ m + 1 > m /\ ~(m + 1 <= m)
    BY <1>0
  <2>2. ~StarAt(pat, m + 1)
    BY <1>0 DEF StarAt
  <2>3. ~TwoStarsAt(pat, m + 1)
    BY <2>2 DEF TwoStarsAt
  <2>4. f[m + 1] = {j \in 1..(n + 1) : j > n}
    BY <1>1, <2>1, <2>2, <2>3 DEF StartsAt
  <2> QED BY <2>4, <1>0
<1>3. ASSUME NEW i \in 1..m, NEW j \in 1..(n + 1)
      PROVE  /\ TwoStarsAt(pat, i) =>
                   (j \in f[i] <=> \/ AfterTwoStars(pat, i) > m
                                   \/ \E k \in f[AfterTwoStars(pat, i)] : j <= k)
             /\ StarAt(pat, i) /\ ~StarAt(pat, i + 1) =>
                   (j \in f[i] <=> \E k \in f[i + 1] : j <= k /\ \A x \in j..(k - 1) : path[x] # "/")
             /\ ~StarAt(pat, i) =>
                   (j \in f[i] <=> j <= n /\ pat[i] = path[j] /\ j + 1 \in f[i + 1])
  <2>1. i \in 1..(m + 1) /\ ~(i > m) /\ i <= m
    BY <1>0
  <2>2. f[i] = StartsAt(pat, path, f, i)
    BY <2>1, <1>1
  <2>3. CASE TwoStarsAt(pat, i)
    <3>1. StarAt(pat, i) /\ StarAt(pat, i + 1)
      BY <2>3 DEF TwoStarsAt
    <3>2. n + 1 \in 1..(n + 1) /\ j <= n + 1
      BY <1>0
    <3> QED BY <2>1, <2>2, <2>3, <3>1, <3>2 DEF StartsAt
  <2>4. CASE StarAt(pat, i) /\ ~StarAt(pat, i + 1)
    <3>1. ~TwoStarsAt(pat, i)
      BY <2>4 DEF TwoStarsAt
    <3> QED BY <2>1, <2>2, <2>4, <3>1 DEF StartsAt
  <2>5. CASE ~StarAt(pat, i)
    <3>1. ~TwoStarsAt(pat, i)
      BY <2>5 DEF TwoStarsAt
    <3> QED BY <2>1, <2>2, <2>5, <3>1 DEF StartsAt
  <2> QED BY <2>3, <2>4, <2>5 DEF TwoStarsAt
<1> QED BY <1>1, <1>2, <1>3 DEF Matches

-----------------------------------------------------------------------------
\* a[s] is where the s-th of the pieces starts that the slashes cut the first k
\* characters of p into.
IsCut(p, k, segs, a) ==
    /\ Len(segs) >= 1 /\ a[1] = 1 /\ a[Len(segs) + 1] = k + 2
    /\ \A s \in 1..Len(segs) :
          /\ a[s] \in Nat \ {0} /\ a[s + 1] = a[s] + Len(segs[s]) + 1 /\ a[s + 1] <= k + 2
          /\ \A x \in 1..Len(segs[s]) : p[a[s] + x - 1] = segs[s][x] /\ segs[s][x] # "/"
          /\ s # Len(segs) => a[s + 1] <= k + 1 /\ p[a[s + 1] - 1] = "/"

\* All but the last element.
LEMMA FrontIs ==
    ASSUME NEW S, NEW s \in Seq(S), s # <<>>
    PROVE  /\ Front(s) \in Seq(S) /\ Len(Front(s)) = Len(s) - 1 /\ Len(s) - 1 \in Nat
           /\ \A i \in 1..(Len(s) - 1) : Front(s)[i] = s[i]
<1>1. Len(s) \in Nat \ {0} /\ \A i \in 1..Len(s) : s[i] \in S
  BY EmptySeq, LenProperties, ElementOfSeq
<1>2. \A i \in 1..(Len(s) - 1) : s[i] \in S
  BY <1>1
<1>3. Front(s) = SubSeq(s, 1, Len(s) - 1)
  BY DEF Front
<1> DEFINE k == Len(s) - 1
<1>4. 1 \in Int /\ k \in Int /\ k \in Nat /\ \A i \in 1..k : s[i] \in S /\ 1 + i - 1 = i
  BY <1>1, <1>2
<1> HIDE DEF k
<1>5. k - 1 + 1 = k /\ (~(1 <= k) => k = 0)
  BY <1>4
<1>6. SubSeq(s, 1, k) \in Seq(S) /\ Len(SubSeq(s, 1, k)) = IF 1 <= k THEN k - 1 + 1 ELSE 0
  BY <1>4, SubSeqProperties
<1>7. \A i \in 1..(k - 1 + 1) : SubSeq(s, 1, k)[i] = s[1 + i - 1]
  BY <1>4, SubSeqProperties
<1>8. Len(SubSeq(s, 1, k)) = k /\ \A i \in 1..k : SubSeq(s, 1, k)[i] = s[i]
  BY <1>4, <1>5, <1>6, <1>7
<1> QED BY <1>1, <1>3, <1>4, <1>6, <1>8 DEF k

\* A sequence with another last.
LastReplaced(t, s, e) ==
    Len(t) = Len(s) /\ \A i \in 1..Len(s) : t[i] = IF i = Len(s) THEN e ELSE s[i]

\* The last element replaced.
LEMMA WithLast ==
    ASSUME NEW S, NEW s \in Seq(S), s # <<>>, NEW e \in S
    PROVE  /\ Append(Front(s), e) \in Seq(S)
           /\ LastReplaced(Append(Front(s), e), s, e)
           /\ Last(s) = s[Len(s)] /\ Last(s) \in S /\ Len(s) \in Nat \ {0}
<1>1. Len(s) \in Nat \ {0} /\ Len(s) \in 1..Len(s)
  BY EmptySeq, LenProperties
<1>2. Front(s) \in Seq(S) /\ Len(Front(s)) = Len(s) - 1 /\ \A i \in 1..(Len(s) - 1) : Front(s)[i] = s[i]
  BY <1>1, FrontIs
<1>3. Last(s) = s[Len(s)] /\ Last(s) \in S
  BY <1>1, ElementOfSeq DEF Last
<1> QED BY <1>1, <1>2, <1>3, AppendProperties DEF LastReplaced

\* Segments goes along the characters.
SegmentStep(segs, c) ==
    IF c = "/" THEN Append(segs, <<>>) ELSE Append(Front(segs), Append(Last(segs), c))

\* There is always a last segment.
LEMMA SegmentStepType ==
    ASSUME NEW S, NEW segs \in Seq(Seq(S)) \ {<<>>}, NEW c \in S
    PROVE  SegmentStep(segs, c) \in Seq(Seq(S)) \ {<<>>}
<1>1. CASE c = "/"
  <2>1. <<>> \in Seq(S)
    BY EmptySeq
  <2> QED BY <1>1, <2>1, AppendProperties DEF SegmentStep
<1>2. CASE c # "/"
  <2>1. Last(segs) \in Seq(S)
    BY EmptySeq, WithLast
  <2> DEFINE e == Append(Last(segs), c)
  <2>2. e \in Seq(S)
    BY <2>1, AppendProperties
  <2> HIDE DEF e
  <2>3. Front(segs) \in Seq(Seq(S))
    BY FrontIs
  <2> DEFINE fr == Front(segs)
             T == Seq(S)
  <2>4. fr \in Seq(T) /\ e \in T
    BY <2>2, <2>3
  <2>5. Append(fr, e) \in Seq(T) /\ Append(fr, e) # <<>>
    <3> HIDE DEF fr, T
    <3> QED BY <2>4, AppendProperties
  <2> QED BY <1>2, <2>5 DEF SegmentStep, e
<1> QED BY <1>1, <1>2

\* Segments goes along the characters.
LEMMA SegmentsChain ==
    ASSUME NEW S, NEW p \in Seq(S)
    PROVE  \E g \in [0..Len(p) -> Seq(Seq(S)) \ {<<>>}] :
              /\ g[0] = <<<<>>>> /\ Segments(p) = g[Len(p)]
              /\ \A k \in 1..Len(p) : g[k] = SegmentStep(g[k - 1], p[k])
<1> DEFINE n == Len(p)
           St == Seq(Seq(S)) \ {<<>>}
           step == [x \in St \X (1..n) |-> SegmentStep(x[1], p[x[2]])]
           Body(h) == [s \in SUBSET (1..n) |->
                          IF s = {} THEN <<<<>>>> ELSE SegmentStep(h[s \ {Max(s)}], p[Max(s)])]
           iter == CHOOSE h : h = Body(h)
<1>0. n \in Nat /\ DOMAIN p = 1..n /\ <<<<>>>> \in St /\ \A k \in 1..n : p[k] \in S
  <2>1. <<>> \in Seq(S)
    BY EmptySeq
  <2> QED BY <2>1, LenProperties, ElementOfSeq
<1>1. step \in [St \X (1..n) -> St]
  <2> HIDE DEF n
  <2> SUFFICES ASSUME NEW segs \in St, NEW k \in 1..n PROVE SegmentStep(segs, p[k]) \in St
    OBVIOUS
  <2> QED BY <1>0, SegmentStepType
<1>2. PICK h, g : FoldOf(h, g, n, St, <<<<>>>>, step)
  <2> HIDE DEF step, n, St
  <2> QED BY <1>0, <1>1, Chain
<1>3. h \in [SUBSET (1..n) -> St] /\ g \in [0..n -> St] /\ g[0] = <<<<>>>>
  BY <1>2 DEF FoldOf
<1>4. \A k \in 1..n : g[k] = SegmentStep(g[k - 1], p[k])
  <2> TAKE k \in 1..n
  <2>1. g[k] = step[<<g[k - 1], k>>]
    BY <1>2 DEF FoldOf
  <2>2. k - 1 \in 0..n
    BY <1>0
  <2>3. g[k - 1] \in St
    BY <1>3, <2>2
  <2> HIDE DEF St
  <2> QED BY <2>1, <2>3
<1>5. h = Body(h)
  <2> SUFFICES ASSUME NEW s \in SUBSET (1..n) PROVE h[s] = Body(h)[s]
    BY <1>3
  <2>1. h[s] = IF s = {} THEN <<<<>>>> ELSE step[<<h[s \ {Max(s)}], Max(s)>>]
    BY <1>2 DEF FoldOf, IsFold
  <2>2. CASE s = {}
    BY <2>1, <2>2
  <2>3. CASE s # {}
    <3>1. Max(s) \in 1..n
      BY <1>0, <2>3, MaxIn
    <3>2. h[s \ {Max(s)}] \in St
      BY <1>3
    <3> HIDE DEF St
    <3> QED BY <2>1, <2>3, <3>1, <3>2
  <2> QED BY <2>2, <2>3
<1>6. iter = Body(iter)
  <2> HIDE DEF Body
  <2> QED BY <1>5
<1>7. Segments(p) = iter[1..n]
  BY <1>0 DEF Segments, FoldLeft, MapThenFoldSet, SegmentStep
<1> HIDE DEF iter
<1>8. iter[1..n] = g[n]
  <2>1. iter[{}] = <<<<>>>>
    BY <1>6
  <2>2. ASSUME NEW s \in SUBSET (1..n), s # {}, iter[s \ {Max(s)}] \in St
        PROVE  iter[s] = step[<<iter[s \ {Max(s)}], Max(s)>>]
    <3>1. Max(s) \in 1..n
      BY <1>0, <2>2, MaxIn
    <3>2. iter[s] = Body(iter)[s]
      BY <1>6
    <3> HIDE DEF St
    <3> QED BY <2>2, <3>1, <3>2
  <2> HIDE DEF step, n, Body, St
  <2>3. Steps(iter, n, St, <<<<>>>>, step)
    BY <2>1, <2>2 DEF Steps
  <2> QED BY <1>0, <1>2, <2>3, FoldsAlong
<1> QED BY <1>3, <1>4, <1>7, <1>8

\* Another character moves the end, or starts another piece.
LEMMA CutStep ==
    ASSUME NEW S, NEW p \in Seq(S), NEW k \in 1..Len(p), NEW segs \in Seq(Seq(S)) \ {<<>>}, NEW a,
           IsCut(p, k - 1, segs, a)
    PROVE  \E e : IsCut(p, k, SegmentStep(segs, p[k]), e)
<1> DEFINE K == Len(segs)
           c == p[k]
           new == SegmentStep(segs, c)
<1>0. K \in Nat \ {0} /\ k \in Int /\ c \in S /\ \A s \in 1..K : segs[s] \in Seq(S) /\ Len(segs[s]) \in Nat
  BY EmptySeq, LenProperties, ElementOfSeq
<1>1. /\ a[1] = 1 /\ a[K + 1] = k + 1
      /\ \A s \in 1..K :
            /\ a[s] \in Nat \ {0} /\ a[s + 1] = a[s] + Len(segs[s]) + 1 /\ a[s + 1] <= k + 1
            /\ \A x \in 1..Len(segs[s]) : p[a[s] + x - 1] = segs[s][x] /\ segs[s][x] # "/"
            /\ s # K => a[s + 1] <= k /\ p[a[s + 1] - 1] = "/"
  BY <1>0 DEF IsCut
<1>2. CASE c = "/"
  <2> DEFINE e == [s \in 1..(K + 2) |-> IF s = K + 2 THEN k + 2 ELSE a[s]]
  <2>1. <<>> \in Seq(S) /\ Len(<<>>) = 0
    BY EmptySeq
  <2>2. /\ Len(new) = K + 1 /\ new[K + 1] = <<>>
        /\ \A s \in 1..K : new[s] = segs[s]
    BY <1>2, <2>1, AppendProperties DEF SegmentStep
  <2>3. \A s \in 1..(K + 1) : e[s] = a[s]
    BY <1>0
  <2>4. e[K + 2] = k + 2
    BY <1>0
  <2> HIDE DEF e, new
  <2>5. ASSUME NEW s \in 1..(K + 1)
        PROVE  /\ e[s] \in Nat \ {0} /\ e[s + 1] = e[s] + Len(new[s]) + 1 /\ e[s + 1] <= k + 2
               /\ \A x \in 1..Len(new[s]) : p[e[s] + x - 1] = new[s][x] /\ new[s][x] # "/"
               /\ s # K + 1 => e[s + 1] <= k + 1 /\ p[e[s + 1] - 1] = "/"
    <3>1. CASE s = K + 1
      <4>1. e[s] = k + 1 /\ Len(new[s]) = 0 /\ e[s + 1] = k + 2
        BY <3>1, <1>0, <1>1, <2>1, <2>2, <2>3, <2>4
      <4> QED BY <3>1, <4>1, <1>0
    <3>2. CASE s # K + 1
      <4>1. s \in 1..K /\ s + 1 \in 1..(K + 1)
        BY <3>2, <1>0
      <4>2. e[s] = a[s] /\ e[s + 1] = a[s + 1] /\ new[s] = segs[s]
        BY <4>1, <2>2, <2>3, <1>0
      <4>3. s = K => p[a[s + 1] - 1] = "/"
        BY <1>0, <1>1, <1>2
      <4>4. /\ a[s] \in Nat \ {0} /\ a[s + 1] = a[s] + Len(segs[s]) + 1 /\ a[s + 1] <= k + 1
            /\ \A x \in 1..Len(segs[s]) : p[a[s] + x - 1] = segs[s][x] /\ segs[s][x] # "/"
            /\ s # K => p[a[s + 1] - 1] = "/"
        BY <4>1, <1>1
      <4>5. Len(segs[s]) \in Nat
        BY <4>1, <1>0
      <4>6. p[e[s + 1] - 1] = "/"
        <5>1. p[a[s + 1] - 1] = "/"
          BY <4>3, <4>4
        <5> QED BY <4>2, <5>1
      <4>7. e[s + 1] <= k + 2
        BY SMTT(30), <4>2, <4>4, <4>5, <1>0
      <4>8. \A x \in 1..Len(new[s]) : p[e[s] + x - 1] = new[s][x] /\ new[s][x] # "/"
        BY <4>2, <4>4
      <4> QED BY <4>2, <4>4, <4>6, <4>7, <4>8
    <3> QED BY <3>1, <3>2
  <2>6. Len(new) >= 1 /\ e[1] = 1 /\ e[Len(new) + 1] = k + 2
    BY <1>0, <1>1, <2>2, <2>3, <2>4
  <2>7. IsCut(p, k, new, e)
    BY <2>2, <2>5, <2>6 DEF IsCut
  <2> QED BY <2>7 DEF new
<1>3. CASE c # "/"
  <2> DEFINE e == [s \in 1..(K + 1) |-> IF s = K + 1 THEN k + 2 ELSE a[s]]
             last == Append(segs[K], c)
             L == Len(segs[K])
  <2>1. K \in 1..K /\ last \in Seq(S) /\ Len(last) = L + 1 /\ last[L + 1] = c
        /\ L \in Nat /\ \A x \in 1..L : last[x] = segs[K][x]
    BY <1>0, AppendProperties
  <2>a. Last(segs) = segs[K]
    BY DEF Last
  <2> HIDE DEF last, L
  <2>2. Append(Front(segs), last) = new
    BY <1>3, <2>a DEF SegmentStep, last
  <2>3. Len(new) = K /\ \A s \in 1..K : new[s] = IF s = K THEN last ELSE segs[s]
    <3>1. segs \in Seq(Seq(S)) /\ segs # <<>> /\ last \in Seq(S)
      BY <2>1
    <3>2. ASSUME NEW T, segs \in Seq(T), last \in T PROVE LastReplaced(Append(Front(segs), last), segs, last)
      BY <3>1, <3>2, WithLast
    <3>3. LastReplaced(Append(Front(segs), last), segs, last)
      BY <3>1, <3>2
    <3> HIDE DEF new, c
    <3> QED BY <3>3, <2>2 DEF LastReplaced
  <2>4. \A s \in 1..K : e[s] = a[s]
    BY <1>0
  <2>5. e[K + 1] = k + 2
    BY <1>0
  <2>6. a[K] + L = k /\ a[K] \in Nat \ {0}
    <3>1. a[K] \in Nat \ {0} /\ a[K + 1] = a[K] + L + 1 /\ a[K + 1] = k + 1
      BY <1>1, <2>1 DEF L
    <3>2. k \in Int /\ L \in Nat
      BY <1>0, <2>1
    <3> DEFINE x == a[K]
               y == a[K + 1]
    <3>3. x \in Nat /\ y = x + L + 1 /\ y = k + 1
      BY <3>1
    <3> HIDE DEF x, y
    <3>4. x + L = k
      BY <3>2, <3>3
    <3> QED BY <3>1, <3>4 DEF x
  <2> HIDE DEF e, new
  <2>7. ASSUME NEW s \in 1..K
        PROVE  /\ e[s] \in Nat \ {0} /\ e[s + 1] = e[s] + Len(new[s]) + 1 /\ e[s + 1] <= k + 2
               /\ \A x \in 1..Len(new[s]) : p[e[s] + x - 1] = new[s][x] /\ new[s][x] # "/"
               /\ s # K => e[s + 1] <= k + 1 /\ p[e[s + 1] - 1] = "/"
    <3>1. CASE s = K
      <4>1. e[s] = a[K] /\ new[s] = last /\ e[s + 1] = k + 2
        BY <3>1, <1>0, <2>3, <2>4, <2>5
      <4>2. ASSUME NEW x \in 1..(L + 1) PROVE p[a[K] + x - 1] = last[x] /\ last[x] # "/"
        <5>1. CASE x = L + 1
          <6>1. a[K] + x - 1 = k
            BY <5>1, <2>6, <2>1
          <6> QED BY <5>1, <6>1, <2>1, <1>3
        <5>2. CASE x # L + 1
          <6>1. x \in 1..L
            BY <5>2, <2>1
          <6>2. p[a[K] + x - 1] = segs[K][x] /\ segs[K][x] # "/"
            BY <1>1, <2>1, <6>1 DEF L
          <6> QED BY <6>1, <6>2, <2>1
        <5> QED BY <5>1, <5>2
      <4>3. e[s + 1] = e[s] + Len(new[s]) + 1 /\ e[s + 1] <= k + 2
        <5>1. Len(new[s]) = L + 1 /\ e[s] + L = k /\ e[s] \in Nat
          BY <4>1, <2>1, <2>6
        <5>2. k \in Int /\ L \in Nat
          BY <1>0, <2>1
        <5> HIDE DEF K
        <5> QED BY SMTT(30), <4>1, <5>1, <5>2
      <4>4. \A x \in 1..Len(new[s]) : p[e[s] + x - 1] = new[s][x] /\ new[s][x] # "/"
        BY <4>1, <4>2, <2>1
      <4> QED BY <3>1, <4>1, <4>3, <4>4, <2>6
    <3>2. CASE s # K
      <4>1. s + 1 \in 1..K
        BY <3>2, <1>0
      <4>2. e[s] = a[s] /\ e[s + 1] = a[s + 1] /\ new[s] = segs[s]
        BY <3>2, <4>1, <2>3, <2>4
      <4>3. a[s + 1] <= k /\ a[s + 1] \in Nat
        BY <3>2, <4>1, <1>1
      <4> QED BY SMTT(30), <3>2, <4>2, <4>3, <1>0, <1>1
    <3> QED BY <3>1, <3>2
  <2>8. Len(new) >= 1 /\ e[1] = 1 /\ e[Len(new) + 1] = k + 2
    BY <1>0, <1>1, <2>3, <2>4, <2>5
  <2>9. IsCut(p, k, new, e)
    BY <2>3, <2>7, <2>8 DEF IsCut
  <2> QED BY <2>9 DEF new
<1> QED BY <1>2, <1>3

\* Segments cuts a path at its slashes.
LEMMA SegmentsCut ==
    ASSUME NEW S, NEW p \in Seq(S)
    PROVE  Segments(p) \in Seq(Seq(S)) \ {<<>>} /\ \E a : IsCut(p, Len(p), Segments(p), a)
<1> DEFINE n == Len(p)
           St == Seq(Seq(S)) \ {<<>>}
<1>0. n \in Nat
  BY LenProperties
<1>1. PICK g \in [0..n -> St] :
              /\ g[0] = <<<<>>>> /\ Segments(p) = g[n]
              /\ \A k \in 1..n : g[k] = SegmentStep(g[k - 1], p[k])
  BY SegmentsChain
<1> DEFINE T == {k \in Nat : k <= n => \E a : IsCut(p, k, g[k], a)}
<1>2. 0 \in T
  <2> DEFINE a == [s \in 1..2 |-> s]
  <2>1. Len(<<<<>>>>) = 1 /\ <<<<>>>>[1] = <<>> /\ Len(<<>>) = 0
    OBVIOUS
  <2>2. a[1] = 1 /\ a[2] = 2
    OBVIOUS
  <2> HIDE DEF a
  <2>3. IsCut(p, 0, <<<<>>>>, a)
    <3> DEFINE z == <<<<>>>>
    <3>1. Len(z) = 1 /\ z[1] = <<>> /\ Len(z[1]) = 0
      BY <2>1
    <3> HIDE DEF z
    <3>2. \A s \in 1..1 : s = 1
      OBVIOUS
    <3>3. IsCut(p, 0, z, a)
      BY <2>2, <3>1, <3>2 DEF IsCut
    <3> QED BY <3>3 DEF z
  <2> QED BY <2>3, <1>1
<1>3. ASSUME NEW k \in T PROVE k + 1 \in T
  <2>1. k \in Nat
    OBVIOUS
  <2> SUFFICES ASSUME k + 1 <= n PROVE \E a : IsCut(p, k + 1, g[k + 1], a)
    BY <2>1
  <2>2. PICK a : IsCut(p, k, g[k], a)
    BY <2>1, <1>0
  <2>3. k + 1 \in 1..n /\ k \in 0..n /\ (k + 1) - 1 = k
    BY <2>1, <1>0
  <2>4. g[k] \in Seq(Seq(S)) \ {<<>>} /\ g[k + 1] = SegmentStep(g[k], p[k + 1])
    BY <2>3, <1>1
  <2>5. \E e : IsCut(p, k + 1, SegmentStep(g[k], p[k + 1]), e)
    <3> DEFINE j == k + 1
    <3>1. j \in 1..n /\ IsCut(p, j - 1, g[k], a)
      BY <2>2, <2>3
    <3> HIDE DEF j
    <3>2. \E e : IsCut(p, j, SegmentStep(g[k], p[j]), e)
      BY <2>4, <3>1, CutStep
    <3> QED BY <3>2 DEF j
  <2> QED BY <2>4, <2>5
<1>4. T = Nat
  <2> HIDE DEF T
  <2>1. T \in SUBSET Nat
    BY DEF T
  <2> QED BY <2>1, <1>2, <1>3, NatInd
<1>5. \E a : IsCut(p, n, g[n], a)
  BY <1>0, <1>4
<1>6. g[n] \in St
  BY <1>0, <1>1
<1> QED BY <1>1, <1>5, <1>6

-----------------------------------------------------------------------------
(* Globs: cuts of names and paths                                           *)

\* A cut goes on from place y of M after piece i of L, each piece being one of R.
Fits(R, L, M, i, y) ==
    \E cut \in [i..L -> 0..M] :
        /\ cut[i] = y /\ cut[L] = M
        /\ \A x \in (i + 1)..L : <<x, cut[x - 1], cut[x]>> \in R

\* After the last piece there is nothing left.
LEMMA FitsEnd ==
    ASSUME NEW R, NEW L \in Nat, NEW M \in Nat, NEW y \in 0..M
    PROVE  Fits(R, L, M, L, y) <=> y = M
<1>1. ASSUME Fits(R, L, M, L, y) PROVE y = M
  BY <1>1 DEF Fits
<1>2. ASSUME y = M PROVE Fits(R, L, M, L, y)
  <2> DEFINE cut == [x \in L..L |-> M]
  <2>1. cut \in [L..L -> 0..M] /\ cut[L] = M /\ (L + 1)..L = {}
    OBVIOUS
  <2> HIDE DEF cut
  <2> QED BY <1>2, <2>1 DEF Fits
<1> QED BY <1>1, <1>2

\* A cut goes on by one piece and from its end.
LEMMA FitsStep ==
    ASSUME NEW R, NEW L \in Nat, NEW M \in Nat, NEW i \in 0..(L - 1), NEW y \in 0..M
    PROVE  Fits(R, L, M, i, y) <=>
              \E z \in 0..M : <<i + 1, y, z>> \in R /\ Fits(R, L, M, i + 1, z)
<1>0. i \in Int /\ i + 1 \in i..L /\ i \in i..L /\ i + 1 \in (i + 1)..L /\ L \in (i + 1)..L
  OBVIOUS
<1>1. ASSUME Fits(R, L, M, i, y)
      PROVE  \E z \in 0..M : <<i + 1, y, z>> \in R /\ Fits(R, L, M, i + 1, z)
  <2>1. PICK cut \in [i..L -> 0..M] :
            /\ cut[i] = y /\ cut[L] = M
            /\ \A x \in (i + 1)..L : <<x, cut[x - 1], cut[x]>> \in R
    BY <1>1 DEF Fits
  <2> DEFINE z == cut[i + 1]
             rest == [x \in (i + 1)..L |-> cut[x]]
  <2>2. z \in 0..M /\ <<i + 1, y, z>> \in R
    <3>1. <<i + 1, cut[(i + 1) - 1], cut[i + 1]>> \in R /\ (i + 1) - 1 = i
      BY <1>0, <2>1
    <3>2. cut[(i + 1) - 1] = y
      BY <3>1, <2>1
    <3> QED BY <1>0, <3>1, <3>2
  <2>3. \A x \in (i + 1)..L : rest[x] = cut[x] /\ x \in i..L
    BY <1>0
  <2>4. rest \in [(i + 1)..L -> 0..M]
    BY <2>3
  <2>5. rest[i + 1] = z /\ rest[L] = M
    BY <1>0, <2>1
  <2>6. ASSUME NEW x \in ((i + 1) + 1)..L PROVE <<x, rest[x - 1], rest[x]>> \in R
    <3>1. x \in (i + 1)..L /\ x - 1 \in (i + 1)..L
      BY <1>0
    <3> HIDE DEF rest
    <3> QED BY <3>1, <2>1, <2>3
  <2> HIDE DEF rest, z
  <2>7. Fits(R, L, M, i + 1, z)
    BY <2>4, <2>5, <2>6 DEF Fits
  <2> QED BY <2>2, <2>7
<1>2. ASSUME NEW z \in 0..M, <<i + 1, y, z>> \in R, Fits(R, L, M, i + 1, z)
      PROVE  Fits(R, L, M, i, y)
  <2>1. PICK rest \in [(i + 1)..L -> 0..M] :
            /\ rest[i + 1] = z /\ rest[L] = M
            /\ \A x \in ((i + 1) + 1)..L : <<x, rest[x - 1], rest[x]>> \in R
    BY <1>2 DEF Fits
  <2> DEFINE cut == [x \in i..L |-> IF x = i THEN y ELSE rest[x]]
  <2>2. cut \in [i..L -> 0..M]
    <3> SUFFICES ASSUME NEW x \in i..L, x # i PROVE rest[x] \in 0..M
      OBVIOUS
    <3>1. x \in (i + 1)..L
      BY <1>0
    <3> QED BY <3>1
  <2>3. cut[i] = y /\ \A x \in (i + 1)..L : cut[x] = rest[x]
    BY <1>0
  <2>4. ASSUME NEW x \in (i + 1)..L PROVE <<x, cut[x - 1], cut[x]>> \in R
    <3> HIDE DEF cut
    <3>1. CASE x = i + 1
      <4>1. x - 1 = i
        BY <1>0, <3>1
      <4> QED BY <3>1, <4>1, <1>2, <2>1, <2>3
    <3>2. CASE x # i + 1
      <4>1. x \in ((i + 1) + 1)..L /\ x - 1 \in (i + 1)..L
        BY <1>0, <3>2
      <4> QED BY <4>1, <2>1, <2>3
    <3> QED BY <3>1, <3>2
  <2>5. cut[L] = M
    <3> HIDE DEF cut
    <3> QED BY <1>0, <2>1, <2>3
  <2> HIDE DEF cut
  <2> QED BY <2>2, <2>3, <2>4, <2>5 DEF Fits
<1> QED BY <1>1, <1>2

\* The pieces of a name, and of a path.
NamePieces(seg, name) ==
    {r \in (1..Len(seg)) \X (0..Len(name)) \X (0..Len(name)) :
        r[2] <= r[3] /\ (seg[r[1]] # "*" => SubSeq(name, r[2] + 1, r[3]) = <<seg[r[1]]>>)}

PathPieces(segs, names) ==
    {r \in (1..Len(segs)) \X (0..Len(names)) \X (0..Len(names)) :
        IF segs[r[1]] = <<"*", "*">>
        THEN r[2] <= r[3] /\ (r[1] = Len(segs) => r[2] < r[3])
        ELSE r[3] = r[2] + 1 /\ NameMatches(segs[r[1]], names[r[3]])}

\* NameMatches as a cut that goes on from the start.
LEMMA NameFits ==
    ASSUME NEW S, NEW seg \in Seq(S), NEW name \in Seq(S)
    PROVE  NameMatches(seg, name) <=> Fits(NamePieces(seg, name), Len(seg), Len(name), 0, 0)
<1> DEFINE L == Len(seg)
           M == Len(name)
           R == NamePieces(seg, name)
<1>0. L \in Nat /\ M \in Nat /\ 0 + 1 = 1
  BY LenProperties
<1>1. ASSUME NEW cut \in [0..L -> 0..M], NEW x \in 1..L
      PROVE  <<x, cut[x - 1], cut[x]>> \in R <=>
                /\ cut[x - 1] <= cut[x]
                /\ seg[x] # "*" => SubSeq(name, cut[x - 1] + 1, cut[x]) = <<seg[x]>>
  <2>1. x \in 0..L /\ x - 1 \in 0..L
    BY <1>0
  <2>2. cut[x] \in 0..M /\ cut[x - 1] \in 0..M
    BY <2>1
  <2> QED BY <2>2 DEF NamePieces
<1> HIDE DEF R
<1> QED BY <1>0, <1>1 DEF NameMatches, Fits, R

\* PathMatches as a cut that goes on from the start.
LEMMA PathFits ==
    ASSUME NEW S, NEW segs \in Seq(Seq(S)), NEW names \in Seq(Seq(S))
    PROVE  PathMatches(segs, names) <=> Fits(PathPieces(segs, names), Len(segs), Len(names), 0, 0)
<1> DEFINE L == Len(segs)
           M == Len(names)
           R == PathPieces(segs, names)
<1>0. L \in Nat /\ M \in Nat /\ 0 + 1 = 1
  BY LenProperties
<1>1. ASSUME NEW cut \in [0..L -> 0..M], NEW x \in 1..L
      PROVE  <<x, cut[x - 1], cut[x]>> \in R <=>
                IF segs[x] = <<"*", "*">>
                THEN cut[x - 1] <= cut[x] /\ (x = L => cut[x - 1] < cut[x])
                ELSE cut[x] = cut[x - 1] + 1 /\ NameMatches(segs[x], names[cut[x]])
  <2>1. x \in 0..L /\ x - 1 \in 0..L
    BY <1>0
  <2>2. cut[x] \in 0..M /\ cut[x - 1] \in 0..M
    BY <2>1
  <2> QED BY <2>2 DEF PathPieces
<1> HIDE DEF R
<1> QED BY <1>0, <1>1 DEF PathMatches, Fits, R

\* What a name has between u and v is the character e.
Between(name, u, v, e) == SubSeq(name, u + 1, v) = <<e>> <=> v = u + 1 /\ name[v] = e

\* A piece of a name that is one character.
LEMMA OneCharacter ==
    ASSUME NEW S, NEW name \in Seq(S), NEW u \in 0..Len(name), NEW v \in 0..Len(name), u <= v, NEW e
    PROVE  Between(name, u, v, e)
<1>0. Len(name) \in Nat /\ u \in Int /\ v \in Int /\ u + 1 \in Int
  BY LenProperties
<1>1. \A i \in (u + 1)..v : name[i] \in S
  <2> TAKE i \in (u + 1)..v
  <2>1. i \in 1..Len(name)
    BY <1>0
  <2> QED BY <2>1, ElementOfSeq
<1> DEFINE w == u + 1
           q == SubSeq(name, w, v)
<1>2. w \in Int
  BY <1>0
<1>3. /\ q \in Seq(S) /\ Len(q) = IF w <= v THEN v - w + 1 ELSE 0
      /\ \A i \in 1..(v - w + 1) : q[i] = name[w + i - 1]
  <2>1. \A i \in w..v : name[i] \in S
    BY <1>1
  <2> HIDE DEF w
  <2> QED BY <1>0, <1>2, <2>1, SubSeqProperties
<1>4. ASSUME q = <<e>> PROVE v = u + 1 /\ name[v] = e
  <2>0. Len(<<e>>) = 1 /\ <<e>>[1] = e
    OBVIOUS
  <2> HIDE DEF q
  <2>1. Len(q) = 1 /\ q[1] = e
    BY <1>4, <2>0
  <2>a. 1 = IF w <= v THEN v - w + 1 ELSE 0
    BY <1>3, <2>1
  <2> HIDE DEF w
  <2>b. w <= v /\ v - w + 1 = 1
    BY <1>0, <1>2, <2>a
  <2>c. v = w
    BY <1>0, <1>2, <2>b
  <2>2. v = u + 1
    BY <2>c DEF w
  <2>3. 1 \in 1..(v - w + 1) /\ w + 1 - 1 = v
    BY <1>0, <2>b, <2>c, <1>2
  <2>4. q[1] = name[w + 1 - 1]
    BY <1>3, <2>3
  <2> QED BY <2>1, <2>2, <2>3, <2>4
<1>5. ASSUME v = u + 1, name[v] = e PROVE q = <<e>>
  <2>1. w <= v /\ v - w + 1 = 1 /\ 1 \in 1..(v - w + 1) /\ w + 1 - 1 = v
    BY <1>0, <1>5
  <2> HIDE DEF w
  <2>2. Len(q) = 1 /\ q[1] = e /\ q \in Seq(S)
    BY <1>3, <1>5, <2>1
  <2> HIDE DEF q
  <2>3. q = [i \in 1..1 |-> q[i]]
    BY <2>2
  <2>4. <<e>> = [i \in 1..1 |-> e]
    OBVIOUS
  <2> QED BY <2>2, <2>3, <2>4
<1> QED BY <1>4, <1>5 DEF Between

\* A name goes on after a star at any later place, after a character at the next.
LEMMA NameStep ==
    ASSUME NEW S, NEW seg \in Seq(S), NEW name \in Seq(S), NEW i \in 0..(Len(seg) - 1), NEW y \in 0..Len(name),
           NEW R, R = NamePieces(seg, name), NEW L, L = Len(seg), NEW M, M = Len(name)
    PROVE  /\ seg[i + 1] = "*" => (Fits(R, L, M, i, y) <=> \E z \in y..M : Fits(R, L, M, i + 1, z))
           /\ seg[i + 1] # "*" => (Fits(R, L, M, i, y) <=>
                                     y < M /\ seg[i + 1] = name[y + 1] /\ Fits(R, L, M, i + 1, y + 1))
<1>0. L \in Nat /\ M \in Nat /\ i \in 0..(L - 1) /\ y \in 0..M /\ i + 1 \in 1..L /\ i \in Int /\ y \in Int
  BY LenProperties
<1>1. Fits(R, L, M, i, y) <=> \E z \in 0..M : <<i + 1, y, z>> \in R /\ Fits(R, L, M, i + 1, z)
  BY <1>0, FitsStep
<1>2. ASSUME NEW z \in 0..M
      PROVE  <<i + 1, y, z>> \in R <=>
                y <= z /\ (seg[i + 1] # "*" => z = y + 1 /\ name[z] = seg[i + 1])
  <2>1. <<i + 1, y, z>> \in R <=>
            y <= z /\ (seg[i + 1] # "*" => SubSeq(name, y + 1, z) = <<seg[i + 1]>>)
    BY <1>0 DEF NamePieces
  <2>2. y <= z => (SubSeq(name, y + 1, z) = <<seg[i + 1]>> <=> z = y + 1 /\ name[z] = seg[i + 1])
    <3>1. z \in 0..Len(name)
      OBVIOUS
    <3>2. \A e : y <= z => Between(name, y, z, e)
      BY <3>1, OneCharacter
    <3> QED BY <3>2 DEF Between
  <2> QED BY <2>1, <2>2
<1>3. ASSUME seg[i + 1] = "*"
      PROVE  Fits(R, L, M, i, y) <=> \E z \in y..M : Fits(R, L, M, i + 1, z)
  <2>1. \A z \in 0..M : <<i + 1, y, z>> \in R <=> z \in y..M
    BY <1>0, <1>2, <1>3
  <2>2. \A z \in y..M : z \in 0..M
    BY <1>0
  <2> QED BY <1>1, <2>1, <2>2
<1>4. ASSUME seg[i + 1] # "*"
      PROVE  Fits(R, L, M, i, y) <=> y < M /\ seg[i + 1] = name[y + 1] /\ Fits(R, L, M, i + 1, y + 1)
  <2>1. \A z \in 0..M : <<i + 1, y, z>> \in R <=> z = y + 1 /\ name[z] = seg[i + 1]
    BY <1>0, <1>2, <1>4
  <2>2. y + 1 \in 0..M <=> y < M
    BY <1>0
  <2> QED BY <1>1, <2>1, <2>2
<1> QED BY <1>3, <1>4

\* Piece t of q starts at b[t], and ends at a slash or with q.
Piece(q, names, b, t) ==
    /\ b[t] \in Nat \ {0} /\ Len(names[t]) \in Nat /\ Len(q) \in Nat
    /\ \A x \in 1..Len(names[t]) : q[b[t] + x - 1] = names[t][x] /\ names[t][x] # "/"
    /\ t = Len(names) => b[t] + Len(names[t]) = Len(q) + 1
    /\ t # Len(names) => /\ b[t] + Len(names[t]) <= Len(q) /\ q[b[t] + Len(names[t])] = "/"
                         /\ b[t + 1] = b[t] + Len(names[t]) + 1

\* A piece ends before the next one starts.
LEMMA PieceEnds ==
    ASSUME NEW q, NEW names, NEW b, NEW t, Piece(q, names, b, t)
    PROVE  /\ b[t] \in Nat \ {0} /\ Len(names[t]) \in Nat /\ Len(q) \in Nat
           /\ b[t] + Len(names[t]) <= Len(q) + 1
           /\ t = Len(names) <=> b[t] + Len(names[t]) = Len(q) + 1
           /\ b[t] + Len(names[t]) # Len(q) + 1 =>
                  b[t] + Len(names[t]) \in 1..Len(q) /\ q[b[t] + Len(names[t])] = "/"
<1> DEFINE u == b[t]
           L == Len(names[t])
           n == Len(q)
           end == t = Len(names)
           slash == q[u + L] = "/"
<1>1. u \in Nat \ {0} /\ L \in Nat /\ n \in Nat
  BY DEF Piece
<1>2. (end => u + L = n + 1) /\ (~end => u + L <= n /\ slash)
  BY DEF Piece
<1> HIDE DEF u, L, n, end, slash
<1>3. u + L <= n + 1 /\ (end <=> u + L = n + 1) /\ (u + L # n + 1 => u + L \in 1..n /\ slash)
  BY <1>1, <1>2
<1> QED BY <1>1, <1>3 DEF u, L, n, end, slash

\* Segments cuts a path into its pieces.
LEMMA PieceOfCut ==
    ASSUME NEW S, NEW q \in Seq(S), NEW names \in Seq(Seq(S)), NEW b, IsCut(q, Len(q), names, b),
           NEW t \in 1..Len(names)
    PROVE  Piece(q, names, b, t)
<1>1. Len(names) \in Nat /\ t \in Int /\ Len(q) \in Nat /\ names[t] \in Seq(S)
  BY LenProperties, ElementOfSeq
<1>2. Len(names[t]) \in Nat
  BY <1>1, LenProperties
<1>3. /\ b[Len(names) + 1] = Len(q) + 2
      /\ b[t] \in Nat \ {0} /\ b[t + 1] = b[t] + Len(names[t]) + 1
      /\ \A x \in 1..Len(names[t]) : q[b[t] + x - 1] = names[t][x] /\ names[t][x] # "/"
      /\ t # Len(names) => b[t + 1] <= Len(q) + 1 /\ q[b[t + 1] - 1] = "/"
  BY DEF IsCut
<1> DEFINE u == b[t]
           v == b[t + 1]
           L == Len(names[t])
           n == Len(q)
<1>4. u \in Nat /\ L \in Nat /\ n \in Nat /\ v = u + L + 1
  BY <1>1, <1>2, <1>3
<1>5. t = Len(names) => v = n + 2
  BY <1>3
<1>6. t # Len(names) => v <= n + 1 /\ q[v - 1] = "/"
  BY <1>3
<1> HIDE DEF u, v, L, n
<1>7. v - 1 = u + L
  BY <1>4
<1>8. t = Len(names) => u + L = n + 1
  BY <1>4, <1>5
<1>9. t # Len(names) => u + L <= n /\ q[u + L] = "/"
  BY <1>4, <1>6, <1>7
<1> QED BY <1>1, <1>2, <1>3, <1>8, <1>9 DEF Piece, u, v, L, n

\* Where the pattern has a character of a segment, and after it.
LEMMA SegmentPlace ==
    ASSUME NEW pat, NEW segs, NEW a, NEW s, Piece(pat, segs, a, s), NEW i \in 0..(Len(segs[s]) - 1)
    PROVE  /\ a[s] + i \in 1..Len(pat) /\ pat[a[s] + i] = segs[s][i + 1] /\ segs[s][i + 1] # "/"
           /\ StarAt(pat, a[s] + i) <=> segs[s][i + 1] = "*"
           /\ StarAt(pat, a[s] + i + 1) <=> StarAt(segs[s], i + 2)
           /\ TwoStarsAt(pat, a[s] + i) <=> TwoStarsAt(segs[s], i + 1)
<1> DEFINE u == a[s]
           L == Len(segs[s])
           m == Len(pat)
<1>0. u \in Nat \ {0} /\ L \in Nat /\ m \in Nat /\ u + L <= m + 1 /\ i \in 0..(L - 1)
  BY DEF Piece
<1>1. \A x \in 1..L : pat[u + x - 1] = segs[s][x] /\ segs[s][x] # "/"
  BY DEF Piece
<1>2. u + L <= m => pat[u + L] = "/"
  BY <1>0 DEF Piece
<1> HIDE DEF u, L, m
<1>3. u + i \in 1..m /\ i + 1 \in 1..L /\ u + (i + 1) - 1 = u + i
  BY <1>0
<1>4. pat[u + i] = segs[s][i + 1] /\ segs[s][i + 1] # "/"
  BY <1>1, <1>3
<1>5. StarAt(pat, u + i) <=> segs[s][i + 1] = "*"
  BY <1>3, <1>4 DEF StarAt, m
<1>6. StarAt(pat, u + i + 1) <=> StarAt(segs[s], i + 2)
  <2>1. CASE i + 2 <= L
    <3>1. i + 2 \in 1..L /\ u + (i + 2) - 1 = u + i + 1 /\ u + i + 1 <= m
      BY <1>0, <2>1
    <3>2. pat[u + i + 1] = segs[s][i + 2]
      BY <1>1, <3>1
    <3> QED BY <2>1, <3>1, <3>2 DEF StarAt, m, L
  <2>2. CASE ~(i + 2 <= L)
    <3>1. u + i + 1 = u + L
      BY <1>0, <2>2
    <3>2. ~StarAt(pat, u + i + 1)
      BY <1>2, <3>1 DEF StarAt, m
    <3> QED BY <2>2, <3>2 DEF StarAt, L
  <2> QED BY <2>1, <2>2
<1>7. StarAt(segs[s], i + 1) <=> segs[s][i + 1] = "*"
  BY <1>3 DEF StarAt, L
<1>8. (i + 1) + 1 = i + 2
  BY <1>0
<1>9. TwoStarsAt(pat, u + i) <=> TwoStarsAt(segs[s], i + 1)
  BY <1>5, <1>6, <1>7, <1>8 DEF TwoStarsAt
<1> QED BY <1>3, <1>4, <1>5, <1>6, <1>9 DEF u, m, L

\* From within a segment on, the pattern goes through a name to what is after both.
LEMMA NameMatched ==
    ASSUME NEW S, NEW pat \in Seq(S), NEW path \in Seq(S), NEW f, Matches(f, pat, path),
           NEW segs, NEW names, NEW a, NEW b, NEW s, NEW t,
           Piece(pat, segs, a, s), Piece(path, names, b, t),
           segs[s] \in Seq(S), names[t] \in Seq(S),
           \A x \in 1..Len(segs[s]) : ~TwoStarsAt(segs[s], x)
    PROVE  b[t] \in f[a[s]] <=> /\ NameMatches(segs[s], names[t])
                                /\ b[t] + Len(names[t]) \in f[a[s] + Len(segs[s])]
<1> DEFINE seg == segs[s]
           name == names[t]
           L == Len(seg)
           M == Len(name)
           m == Len(pat)
           n == Len(path)
           R == NamePieces(seg, name)
           u == a[s]
           v == b[t]
           after == v + M \in f[u + L]
           Same(i) == \A y \in 0..M : v + y \in f[u + i] <=> Fits(R, L, M, i, y) /\ after
           T == {d \in Nat : d <= L => Same(L - d)}
<1>0. /\ u \in Nat \ {0} /\ v \in Nat \ {0} /\ L \in Nat /\ M \in Nat /\ m \in Nat /\ n \in Nat
      /\ v + M <= n + 1 /\ u + L <= m + 1
  BY PieceEnds
<1>a. v + M <= n => path[v + M] = "/"
  <2>1. v + M # n + 1 => path[v + M] = "/"
    BY PieceEnds
  <2> HIDE DEF v, M, n
  <2> QED BY <1>0, <2>1
<1>b. ASSUME NEW x \in 1..M PROVE path[v + x - 1] = name[x] /\ name[x] # "/"
  BY DEF Piece
<1>1. Same(L)
  <2> SUFFICES ASSUME NEW y \in 0..M
               PROVE  v + y \in f[u + L] <=> Fits(R, L, M, L, y) /\ after
    OBVIOUS
  <2>1. Fits(R, L, M, L, y) <=> y = M
    <3> HIDE DEF R
    <3> QED BY <1>0, FitsEnd
  <2>2. v + y \in f[u + L] => y = M
    <3>1. CASE u + L = m + 1
      <4>1. f[u + L] = {n + 1}
        BY <3>1 DEF Matches
      <4> HIDE DEF u, v, L, M, n, m
      <4>2. v + y = n + 1 => y = M
        BY <1>0
      <4> QED BY <4>1, <4>2
    <3>2. CASE u + L # m + 1
      <4>1. u + L \in 1..m /\ pat[u + L] = "/" /\ v + y \in 1..(n + 1)
        <5>1. u + L \in 1..m /\ pat[u + L] = "/"
          BY <3>2, PieceEnds
        <5> HIDE DEF v, M, n
        <5> QED BY <1>0, <5>1
      <4>2. ~StarAt(pat, u + L)
        BY <4>1 DEF StarAt
      <4>3. v + y \in f[u + L] => v + y <= n /\ pat[u + L] = path[v + y]
        BY <4>1, <4>2 DEF Matches
      <4>4. ASSUME v + y \in f[u + L], y # M PROVE FALSE
        <5>1. y + 1 \in 1..M /\ v + (y + 1) - 1 = v + y
          BY SMTT(30), <1>0, <4>4
        <5>2. path[v + y] # "/"
          BY <1>b, <5>1
        <5> QED BY <5>2, <4>1, <4>3, <4>4
      <4> QED BY <4>4
    <3> QED BY <3>1, <3>2
  <2> HIDE DEF u, v, L, M, R
  <2> QED BY <2>1, <2>2
<1>2. ASSUME NEW i \in 0..(L - 1), Same(i + 1) PROVE Same(i)
  <2> SUFFICES ASSUME NEW y \in 0..M
               PROVE  v + y \in f[u + i] <=> Fits(R, L, M, i, y) /\ after
    OBVIOUS
  <2> DEFINE e == u + i
             j == v + y
  <2>1. /\ e \in 1..m /\ pat[e] = seg[i + 1] /\ seg[i + 1] # "/"
        /\ StarAt(pat, e) <=> seg[i + 1] = "*"
        /\ TwoStarsAt(pat, e) <=> TwoStarsAt(seg, i + 1)
    BY SegmentPlace
  <2>2. ~TwoStarsAt(pat, e)
    <3>1. i + 1 \in 1..L
      BY <1>0
    <3> QED BY <2>1, <3>1
  <2>3. StarAt(pat, e) => ~StarAt(pat, e + 1)
    BY <2>2 DEF TwoStarsAt
  <2>4. j \in 1..(n + 1)
    BY <1>0
  <2>5. e + 1 = u + (i + 1)
    <3> HIDE DEF u, L
    <3> QED BY <1>0
  <2>6. \A z \in 0..M : v + z \in f[e + 1] <=> Fits(R, L, M, i + 1, z) /\ after
    BY <1>2, <2>5
  <2>7. \A k \in f[e + 1] : k \in 1..(n + 1)
    <3>1. e + 1 \in 1..(m + 1)
      BY SMTT(30), <1>0, <2>1
    <3> QED BY <3>1 DEF Matches
  <2>8. /\ seg[i + 1] = "*" => (Fits(R, L, M, i, y) <=> \E z \in y..M : Fits(R, L, M, i + 1, z))
        /\ seg[i + 1] # "*" => (Fits(R, L, M, i, y) <=>
                                  y < M /\ seg[i + 1] = name[y + 1] /\ Fits(R, L, M, i + 1, y + 1))
    <3>1. seg \in Seq(S) /\ name \in Seq(S) /\ i \in 0..(Len(seg) - 1) /\ y \in 0..Len(name)
      OBVIOUS
    <3> HIDE DEF seg, name
    <3> QED BY <3>1, NameStep
  <2>9. CASE seg[i + 1] = "*"
    <3>1. j \in f[e] <=> \E k \in f[e + 1] : j <= k /\ \A x \in j..(k - 1) : path[x] # "/"
      BY SMTT(30), <2>1, <2>3, <2>4, <2>9 DEF Matches
    <3> HIDE DEF L, M, R, u, v, n, m, seg, name, after, e
    <3>2. ASSUME NEW k \in f[e + 1], j <= k, \A x \in j..(k - 1) : path[x] # "/"
          PROVE  \E z \in y..M : v + z \in f[e + 1]
      <4>1. k \in Int /\ 1 <= k /\ k <= n + 1
        BY <1>0, <2>7
      <4>2. ASSUME k > v + M PROVE FALSE
        <5>1. v + M \in j..(k - 1) /\ v + M <= n
          BY <1>0, <4>1, <4>2
        <5> QED BY <5>1, <3>2, <1>a
      <4>3. k - v \in y..M /\ v + (k - v) = k
        BY <1>0, <4>1, <4>2, <3>2
      <4> QED BY <4>3
    <3>3. ASSUME NEW z \in y..M, v + z \in f[e + 1] PROVE j \in f[e]
      <4> DEFINE k == v + z
      <4>1. k \in f[e + 1] /\ j <= k
        BY <1>0, <3>3
      <4>2. ASSUME NEW x \in j..(k - 1) PROVE path[x] # "/"
        <5>1. x - v + 1 \in 1..M /\ v + (x - v + 1) - 1 = x
          BY <1>0
        <5> QED BY <5>1, <1>b
      <4> QED BY <3>1, <4>1, <4>2
    <3>4. \A z \in y..M : z \in 0..M
      BY <1>0
    <3>5. j \in f[e] <=> \E z \in y..M : v + z \in f[e + 1]
      <4> HIDE DEF j
      <4> QED BY <3>1, <3>2, <3>3
    <3> QED BY <3>4, <3>5, <2>6, <2>8, <2>9 DEF e
  <2>10. CASE seg[i + 1] # "*"
    <3>1. j \in f[e] <=> j <= n /\ pat[e] = path[j] /\ j + 1 \in f[e + 1]
      BY <2>1, <2>4, <2>10 DEF Matches
    <3> HIDE DEF L, M, R, u, v, n, m, seg, name, after, e
    <3>2. CASE y < M
      <4>1. y + 1 \in 1..M /\ y + 1 \in 0..M /\ v + (y + 1) - 1 = j /\ j <= n /\ j + 1 = v + (y + 1)
        BY <1>0, <3>2
      <4>2. path[j] = name[y + 1]
        BY <4>1, <1>b
      <4>3. j + 1 \in f[e + 1] <=> Fits(R, L, M, i + 1, y + 1) /\ after
        BY <4>1, <2>6
      <4> QED BY <3>1, <3>2, <4>1, <4>2, <4>3, <2>1, <2>8, <2>10 DEF e
    <3>3. CASE ~(y < M)
      <4>1. j = v + M
        BY <1>0, <3>3
      <4>2. ~(j <= n /\ pat[e] = path[j])
        BY <4>1, <1>a, <2>1
      <4> QED BY <3>1, <3>3, <4>2, <2>8, <2>10 DEF e
    <3> QED BY <3>2, <3>3
  <2> QED BY <2>9, <2>10
<1>3. 0 \in T
  <2>1. L - 0 = L
    BY <1>0
  <2> HIDE DEF Same
  <2> QED BY <1>1, <2>1
<1>4. ASSUME NEW d \in T PROVE d + 1 \in T
  <2> HIDE DEF Same, L
  <2>1. d \in Nat /\ d + 1 \in Nat
    OBVIOUS
  <2>2. ASSUME d + 1 <= L PROVE Same(L - (d + 1))
    <3>1. Same(L - d) /\ L - (d + 1) \in 0..(L - 1) /\ L - (d + 1) + 1 = L - d
      BY <1>0, <2>1, <2>2
    <3> QED BY <3>1, <1>2
  <2> QED BY <2>1, <2>2
<1>5. T = Nat
  <2> HIDE DEF T
  <2>1. T \in SUBSET Nat
    BY DEF T
  <2> QED BY <2>1, <1>3, <1>4, NatInd
<1>6. Same(0)
  <2> HIDE DEF Same, L, T
  <2>1. L \in T /\ L - L = 0 /\ L <= L
    BY <1>0, <1>5
  <2> QED BY <2>1 DEF T
<1>7. v \in f[u] <=> Fits(R, L, M, 0, 0) /\ after
  <2>1. 0 \in 0..M /\ v + 0 = v /\ u + 0 = u
    BY <1>0
  <2> HIDE DEF u, v, L, M, R, after
  <2> QED BY <1>6, <2>1
<1>8. NameMatches(seg, name) <=> Fits(R, L, M, 0, 0)
  BY NameFits
<1> QED BY <1>7, <1>8

\* Induction from the last of some numbers down.
LEMMA Downward ==
    ASSUME NEW L \in Nat, NEW T, L \in T, \A i \in 0..(L - 1) : i + 1 \in T => i \in T
    PROVE  \A i \in 0..L : i \in T
<1> DEFINE U == {d \in Nat : d <= L => L - d \in T}
<1>1. 0 \in U
  BY L - 0 = L
<1>2. ASSUME NEW d \in U PROVE d + 1 \in U
  <2>1. d \in Nat /\ d + 1 \in Nat
    OBVIOUS
  <2>2. ASSUME d + 1 <= L PROVE L - (d + 1) \in T
    <3>1. L - d \in T /\ L - (d + 1) \in 0..(L - 1) /\ L - (d + 1) + 1 = L - d
      BY <2>1, <2>2
    <3> QED BY <3>1
  <2> QED BY <2>1, <2>2
<1>3. U = Nat
  <2> HIDE DEF U
  <2>1. U \in SUBSET Nat
    BY DEF U
  <2> QED BY <1>1, <1>2, <2>1, NatInd
<1>4. ASSUME NEW i \in 0..L PROVE i \in T
  <2>1. L - i \in Nat /\ L - i <= L /\ L - (L - i) = i
    OBVIOUS
  <2>2. L - i \in U
    <3> HIDE DEF U
    <3> QED BY <1>3, <2>1
  <2> QED BY <2>1, <2>2
<1> QED BY <1>4

\* R are the pieces of K segments and N names.
PiecesOf(R, K, N, segs, names) ==
    R = PathPieces(segs, names) /\ K = Len(segs) /\ N = Len(names) /\ K \in Nat /\ N \in Nat

\* A path goes on after `**` at any later segment, after a name at the next.
LEMMA PathStep ==
    ASSUME NEW segs, NEW names, NEW R, NEW K \in Nat, NEW N \in Nat, PiecesOf(R, K, N, segs, names),
           NEW i \in 0..(K - 1), NEW y \in 0..N
    PROVE  /\ segs[i + 1] = <<"*", "*">> =>
                 (Fits(R, K, N, i, y) <=> \E z \in y..N : (i + 1 = K => y < z) /\ Fits(R, K, N, i + 1, z))
           /\ segs[i + 1] # <<"*", "*">> =>
                 (Fits(R, K, N, i, y) <=>
                     y < N /\ NameMatches(segs[i + 1], names[y + 1]) /\ Fits(R, K, N, i + 1, y + 1))
<1> DEFINE e == segs[i + 1]
           whole == e = <<"*", "*">>
<1>0. K \in Nat /\ N \in Nat /\ i \in 0..(K - 1) /\ y \in 0..N /\ i + 1 \in 1..K /\ i \in Int /\ y \in Int
  BY DEF PiecesOf
<1>1. Fits(R, K, N, i, y) <=> \E z \in 0..N : <<i + 1, y, z>> \in R /\ Fits(R, K, N, i + 1, z)
  BY ZenonT(30), <1>0, FitsStep
<1>2. ASSUME NEW z \in 0..N
      PROVE  <<i + 1, y, z>> \in R <=>
                IF whole THEN y <= z /\ (i + 1 = K => y < z)
                ELSE z = y + 1 /\ NameMatches(e, names[z])
  BY <1>0 DEF PathPieces, PiecesOf
<1> HIDE DEF whole, e
<1>3. ASSUME whole
      PROVE  Fits(R, K, N, i, y) <=> \E z \in y..N : (i + 1 = K => y < z) /\ Fits(R, K, N, i + 1, z)
  <2>1. \A z \in 0..N : <<i + 1, y, z>> \in R <=> z \in y..N /\ (i + 1 = K => y < z)
    BY <1>0, <1>2, <1>3
  <2>2. \A z \in y..N : z \in 0..N
    BY <1>0
  <2> QED BY <1>1, <2>1, <2>2
<1>4. ASSUME ~whole
      PROVE  Fits(R, K, N, i, y) <=> y < N /\ NameMatches(e, names[y + 1]) /\ Fits(R, K, N, i + 1, y + 1)
  <2>1. \A z \in 0..N : <<i + 1, y, z>> \in R <=> z = y + 1 /\ NameMatches(e, names[z])
    BY <1>2, <1>4
  <2>2. y + 1 \in 0..N <=> y < N
    BY <1>0
  <2> QED BY <1>1, <2>1, <2>2
<1> QED BY <1>3, <1>4 DEF whole, e

\* What is left of a pattern matches no empty rest of a path.
LEMMA FitsSome ==
    ASSUME NEW segs, NEW names, NEW R, NEW K \in Nat, NEW N \in Nat, PiecesOf(R, K, N, segs, names),
           NEW j \in 0..(K - 1), NEW y \in 0..N, Fits(R, K, N, j, y)
    PROVE  y < N
<1> DEFINE Some(i) == i < K => \A z \in 0..N : Fits(R, K, N, i, z) => z < N
           T == {i \in 0..K : Some(i)}
<1>0. K \in Nat /\ N \in Nat /\ j \in 0..K /\ j < K
  BY DEF PiecesOf
<1>1. ASSUME NEW i \in 0..(K - 1), Some(i + 1) PROVE Some(i)
  <2> SUFFICES ASSUME NEW z \in 0..N, Fits(R, K, N, i, z) PROVE z < N
    OBVIOUS
  <2>1. CASE segs[i + 1] = <<"*", "*">>
    <3>2. PICK w \in z..N : (i + 1 = K => z < w) /\ Fits(R, K, N, i + 1, w)
      BY <2>1, PathStep
    <3>3. CASE i + 1 = K
      BY <3>2, <3>3, <1>0
    <3>4. CASE i + 1 # K
      <4>1. i + 1 < K /\ w \in 0..N
        BY <1>0, <3>4
      <4>2. w < N
        BY <1>1, <3>2, <4>1
      <4> QED BY <4>1, <4>2, <1>0
    <3> QED BY <3>3, <3>4
  <2>2. CASE segs[i + 1] # <<"*", "*">>
    BY <2>2, PathStep
  <2> QED BY <2>1, <2>2
<1>2. Some(K)
  BY <1>0
<1>3. j \in T
  <2> HIDE DEF Some
  <2>1. K \in T /\ \A i \in 0..(K - 1) : i + 1 \in T => i \in T
    BY <1>0, <1>1, <1>2
  <2> HIDE DEF T
  <2> QED BY <1>0, <2>1, Downward
<1> QED BY <1>0, <1>3

-----------------------------------------------------------------------------
(* Globs: segment by segment                                                *)

\* After a segment and a name, the next ones start together or both are at the end.
LEMMA AfterName ==
    ASSUME NEW S, NEW pat \in Seq(S), NEW path \in Seq(S), NEW f, Matches(f, pat, path),
           NEW segs, NEW names, NEW a, NEW b, NEW s, NEW t,
           Piece(pat, segs, a, s), Piece(path, names, b, t)
    PROVE  b[t] + Len(names[t]) \in f[a[s] + Len(segs[s])] <=>
              IF s = Len(segs) THEN t = Len(names) ELSE t # Len(names) /\ b[t + 1] \in f[a[s + 1]]
<1> DEFINE u == a[s]
           L == Len(segs[s])
           v == b[t]
           M == Len(names[t])
           m == Len(pat)
           n == Len(path)
           lastSeg == s = Len(segs)
           lastName == t = Len(names)
<1>0. u \in Nat \ {0} /\ v \in Nat \ {0} /\ L \in Nat /\ M \in Nat /\ m \in Nat /\ n \in Nat
  BY DEF Piece
<1>1. /\ lastSeg => u + L = m + 1
      /\ ~lastSeg => u + L <= m /\ pat[u + L] = "/" /\ a[s + 1] = u + L + 1
  BY DEF Piece
<1>2. /\ lastName => v + M = n + 1
      /\ ~lastName => v + M <= n /\ path[v + M] = "/" /\ b[t + 1] = v + M + 1
  BY DEF Piece
<1>3. CASE lastSeg
  <2>1. f[u + L] = {n + 1}
    BY <1>1, <1>3 DEF Matches
  <2> HIDE DEF u, L, v, M, m, n, lastName
  <2>2. v + M = n + 1 <=> lastName
    BY <1>0, <1>2
  <2>3. v + M \in f[u + L] <=> lastName
    BY <2>1, <2>2
  <2> QED BY <2>3, <1>3 DEF u, L, v, M, lastName
<1>4. CASE ~lastSeg
  <2> HIDE DEF u, L, v, M, m, n, lastName
  <2>1. u + L \in 1..m /\ v + M \in 1..(n + 1)
    BY <1>0, <1>1, <1>2, <1>4
  <2> DEFINE e == u + L
             j == v + M
  <2>2. e \in 1..m /\ j \in 1..(n + 1) /\ pat[e] = "/"
    BY <2>1, <1>1, <1>4
  <2> HIDE DEF e, j
  <2>3. ~StarAt(pat, e)
    BY <2>2 DEF StarAt
  <2>4. j \in f[e] <=> j <= n /\ pat[e] = path[j] /\ j + 1 \in f[e + 1]
    BY <2>2, <2>3 DEF Matches, m, n
  <2>5. j \in f[e] <=> ~lastName /\ b[t + 1] \in f[a[s + 1]]
    <3>1. a[s + 1] = e + 1
      BY <1>1, <1>4 DEF e
    <3>2. CASE lastName
      <4>1. ~(j <= n)
        BY <1>0, <1>2, <3>2 DEF j
      <4> QED BY <2>4, <4>1, <3>2
    <3>3. CASE ~lastName
      <4>1. j <= n /\ path[j] = "/" /\ b[t + 1] = j + 1
        BY <1>2, <3>3 DEF j
      <4> QED BY <2>2, <2>4, <3>1, <3>3, <4>1
    <3> QED BY <3>2, <3>3
  <2> QED BY <2>5, <1>4 DEF e, j, u, L, v, M, lastName
<1> QED BY <1>3, <1>4

\* A segment that is `**`: the pattern goes on from any later place at which the next
\* segment does, and from every place if it is the last.
LEMMA TwoStars ==
    ASSUME NEW S, NEW pat \in Seq(S), NEW path \in Seq(S), NEW f, Matches(f, pat, path),
           NEW segs, NEW a, NEW s, Piece(pat, segs, a, s), segs[s] = <<"*", "*">>,
           s # Len(segs) => a[s + 1] <= Len(pat) + 1, NEW j \in 1..(Len(path) + 1)
    PROVE  j \in f[a[s]] <=> s = Len(segs) \/ \E k \in f[a[s + 1]] : j <= k
<1> DEFINE u == a[s]
           m == Len(pat)
           n == Len(path)
           lastSeg == s = Len(segs)
           next == a[s + 1]
<1>0. u \in Nat \ {0} /\ m \in Nat /\ n \in Nat
  BY DEF Piece
<1>a. Len(segs[s]) = 2 /\ segs[s][1] = "*" /\ segs[s][2] = "*"
  OBVIOUS
<1>1. pat[u] = "*" /\ pat[u + 1] = "*"
  <2> HIDE DEF u
  <2>1. \A x \in 1..2 : pat[u + x - 1] = segs[s][x]
    BY <1>a DEF Piece, u
  <2>2. u + 1 - 1 = u /\ u + 2 - 1 = u + 1 /\ 1 \in 1..2 /\ 2 \in 1..2
    BY <1>0
  <2>3. pat[u + 1 - 1] = segs[s][1] /\ pat[u + 2 - 1] = segs[s][2]
    BY <2>1, <2>2
  <2> QED BY <2>2, <2>3, <1>a
<1>2. /\ lastSeg => u + 2 = m + 1
      /\ ~lastSeg => u + 2 <= m /\ pat[u + 2] = "/" /\ next = u + 3
  <2>1. /\ lastSeg => u + 2 = m + 1
        /\ ~lastSeg => u + 2 <= m /\ pat[u + 2] = "/" /\ next = u + 2 + 1
    BY <1>a DEF Piece
  <2> HIDE DEF u, next
  <2> QED BY <1>0, <2>1
<1>3. u \in 1..m /\ u + 1 <= m
  <2> HIDE DEF u, m
  <2> QED BY <1>0, <1>2
<1>4. TwoStarsAt(pat, u)
  BY <1>1, <1>3 DEF TwoStarsAt, StarAt
<1> DEFINE rest == AfterTwoStars(pat, u)
<1>5. j \in f[u] <=> rest > m \/ \E k \in f[rest] : j <= k
  BY <1>3, <1>4 DEF Matches
<1>6. CASE lastSeg
  <2>1. rest > m
    <3> HIDE DEF u, m
    <3> QED BY <1>0, <1>2, <1>6 DEF AfterTwoStars, m
  <2> QED BY <1>5, <1>6, <2>1
<1>7. CASE ~lastSeg
  <2>1. rest = next
    <3> HIDE DEF u
    <3> QED BY <1>0, <1>2, <1>7 DEF AfterTwoStars
  <2>2. rest > m => \E k \in f[next] : j <= k
    <3> SUFFICES ASSUME rest > m PROVE \E k \in f[next] : j <= k
      OBVIOUS
    <3>1. next = m + 1
      <4>1. next <= m + 1 /\ next > m
        BY <2>1, <1>7
      <4> HIDE DEF next, u
      <4> QED BY <4>1, <1>0, <1>2, <1>7
    <3>2. f[m + 1] = {n + 1}
      BY DEF Matches
    <3> QED BY <3>1, <3>2, <1>0
  <2> HIDE DEF rest, next
  <2> QED BY <1>5, <1>7, <2>1, <2>2 DEF next
<1> QED BY <1>6, <1>7

\* The pieces of a cut are one after another.
LEMMA CutRises ==
    ASSUME NEW q, NEW names, NEW b, Len(names) \in Nat, \A t \in 1..Len(names) : Piece(q, names, b, t),
           NEW t \in 1..Len(names), NEW u \in t..Len(names)
    PROVE  b[t] <= b[u]
<1> DEFINE N == Len(names)
           T == {d \in Nat : t + d <= N => b[t] <= b[t + d]}
<1>0. N \in Nat /\ t \in 1..N /\ b[t] \in Nat
  BY DEF Piece
<1>1. 0 \in T
  BY <1>0
<1>2. ASSUME NEW d \in T PROVE d + 1 \in T
  <2>1. d \in Nat /\ d + 1 \in Nat
    OBVIOUS
  <2>2. ASSUME t + (d + 1) <= N PROVE b[t] <= b[t + (d + 1)]
    <3>1. b[t] <= b[t + d] /\ t + d \in 1..N /\ t + d # N /\ t + (d + 1) = (t + d) + 1
      BY <1>0, <2>1, <2>2
    <3> DEFINE e == t + d
               x == b[e]
               y == b[e + 1]
               L == Len(names[e])
    <3>2. x \in Nat /\ L \in Nat /\ y = x + L + 1
      BY <3>1 DEF Piece
    <3>3. b[t] <= x
      BY <3>1
    <3> HIDE DEF x, y, L
    <3>4. b[t] <= y
      BY <1>0, <3>2, <3>3
    <3> QED BY <3>1, <3>4 DEF y, e
  <2> QED BY <2>1, <2>2
<1>3. T = Nat
  <2> HIDE DEF T
  <2>1. T \in SUBSET Nat
    BY DEF T
  <2> QED BY <1>1, <1>2, <2>1, NatInd
<1>4. u - t \in Nat /\ t + (u - t) = u /\ u <= N
  BY <1>0
<1> QED BY <1>3, <1>4

\* The pieces of q start at the places of at.
Laid(q, pieces, at, S) ==
    /\ q \in Seq(S) /\ pieces \in Seq(Seq(S)) /\ Len(pieces) \in Nat \ {0} /\ at[1] = 1
    /\ \A s \in 1..Len(pieces) : Piece(q, pieces, at, s) /\ pieces[s] \in Seq(S)

\* Pieces start in the path.
LEMMA StartsIn ==
    ASSUME NEW S, NEW q, NEW pieces, NEW at, Laid(q, pieces, at, S), NEW s \in 1..Len(pieces)
    PROVE  /\ at[s] \in 1..(Len(q) + 1) /\ Len(q) \in Nat
           /\ s # Len(pieces) => at[s + 1] <= Len(q) + 1 /\ s + 1 \in 1..Len(pieces)
<1>1. ASSUME NEW r \in 1..Len(pieces) PROVE at[r] \in 1..(Len(q) + 1) /\ Len(q) \in Nat
  <2>1. Piece(q, pieces, at, r)
    BY DEF Laid
  <2> DEFINE u == at[r]
             L == Len(pieces[r])
             n == Len(q)
  <2>2. u \in Nat \ {0} /\ L \in Nat /\ n \in Nat /\ u + L <= n + 1
    BY <2>1, PieceEnds
  <2> HIDE DEF u, L, n
  <2>3. u \in 1..(n + 1)
    BY <2>2
  <2> QED BY <2>2, <2>3 DEF u, n
<1>2. Len(pieces) \in Nat
  BY DEF Laid
<1>3. s # Len(pieces) => s + 1 \in 1..Len(pieces)
  BY <1>2
<1>4. \A x \in 1..(Len(q) + 1) : Len(q) \in Nat => x <= Len(q) + 1
  OBVIOUS
<1> QED BY <1>1, <1>3, <1>4

\* If a segment that starts with a star is matched from somewhere on, it is from the
\* start of one of the names.
LEMMA NameBefore ==
    ASSUME NEW S, NEW pat, NEW path, NEW f, Matches(f, pat, path), NEW segs, NEW names, NEW a, NEW b,
           Laid(pat, segs, a, S), Laid(path, names, b, S),
           NEW s \in 1..Len(segs), StarAt(segs[s], 1), WholeStars(segs[s]),
           NEW t \in 1..Len(names), NEW k \in f[a[s]], b[t] <= k
    PROVE  \E u \in t..Len(names) : b[u] \in f[a[s]]
<1> DEFINE K == Len(segs)
           N == Len(names)
           m == Len(pat)
           n == Len(path)
           e == a[s]
<1>0. /\ pat \in Seq(S) /\ path \in Seq(S) /\ K \in Nat \ {0} /\ N \in Nat \ {0}
      /\ m \in Nat /\ n \in Nat /\ e \in 1..(m + 1) /\ t \in Int
      /\ \A u \in 1..N : Piece(path, names, b, u) /\ b[u] \in 1..(n + 1)
      /\ Piece(pat, segs, a, s) /\ segs[s] \in Seq(S)
  <2>1. e \in 1..(m + 1) /\ m \in Nat
    BY StartsIn
  <2>2. \A u \in 1..N : b[u] \in 1..(n + 1) /\ n \in Nat
    BY StartsIn
  <2>3. pat \in Seq(S) /\ path \in Seq(S) /\ K \in Nat \ {0} /\ N \in Nat \ {0} /\ segs[s] \in Seq(S)
    BY DEF Laid
  <2>4. Piece(pat, segs, a, s) /\ \A u \in 1..N : Piece(path, names, b, u)
    BY DEF Laid
  <2>5. t \in Int /\ n \in Nat
    BY <2>2, <2>3
  <2> QED BY <2>1, <2>2, <2>3, <2>4, <2>5
<1>1. k \in 1..(n + 1)
  BY <1>0 DEF Matches
<1>2. CASE segs[s] = <<"*", "*">>
  <2>1. s # K => a[s + 1] <= m + 1 /\ s + 1 \in 1..K
    BY StartsIn
  <2>2. \A j \in 1..(n + 1) : j \in f[e] <=> s = K \/ \E x \in f[a[s + 1]] : j <= x
    <3>1. /\ pat \in Seq(S) /\ path \in Seq(S) /\ Piece(pat, segs, a, s)
          /\ s # Len(segs) => a[s + 1] <= Len(pat) + 1
      BY <1>0, <2>1
    <3> QED BY <1>2, <3>1, TwoStars
  <2>3. b[t] \in 1..(n + 1)
    BY <1>0
  <2>4. b[t] \in f[e]
    <3>1. CASE s = K
      BY <2>2, <2>3, <3>1
    <3>2. CASE s # K
      <4>1. PICK x \in f[a[s + 1]] : k <= x
        BY <1>1, <2>2, <3>2
      <4>2. x \in 1..(n + 1)
        <5>1. a[s + 1] \in 1..(m + 1)
          BY <3>2, <2>1, StartsIn
        <5> QED BY <5>1 DEF Matches
      <4>3. b[t] <= x
        BY <1>1, <2>3, <4>1, <4>2, <1>0
      <4> QED BY <2>2, <2>3, <4>3
    <3> QED BY <3>1, <3>2
  <2>5. t \in t..N
    BY <1>0
  <2> QED BY <2>4, <2>5
<1>3. CASE segs[s] # <<"*", "*">>
  <2>1. Len(segs[s]) \in Nat /\ 1 <= Len(segs[s]) /\ segs[s][1] = "*"
    BY <1>0, LenProperties DEF StarAt
  <2>2. ~TwoStarsAt(segs[s], 1)
    <3>1. 1 \in 1..Len(segs[s])
      BY <2>1
    <3> QED BY <3>1, <1>3 DEF WholeStars
  <2>3. 0 \in 0..(Len(segs[s]) - 1) /\ e + 0 = e /\ 0 + 1 = 1
    BY <1>0, <2>1
  <2>4. /\ a[s] + 0 \in 1..Len(pat)
        /\ StarAt(pat, a[s] + 0) <=> segs[s][0 + 1] = "*"
        /\ TwoStarsAt(pat, a[s] + 0) <=> TwoStarsAt(segs[s], 0 + 1)
    BY <1>0, <2>3, SegmentPlace
  <2>5. e \in 1..m /\ StarAt(pat, e) /\ ~TwoStarsAt(pat, e)
    BY <2>1, <2>2, <2>3, <2>4
  <2>6. ~StarAt(pat, e + 1)
    BY <2>5 DEF TwoStarsAt
  <2>7. \A j \in 1..(n + 1) :
            j \in f[e] <=> \E x \in f[e + 1] : j <= x /\ \A c \in j..(x - 1) : path[c] # "/"
    BY <2>5, <2>6 DEF Matches
  <2>8. PICK x \in f[e + 1] : k <= x /\ \A c \in k..(x - 1) : path[c] # "/"
    BY <1>1, <2>7
  <2>9. x \in 1..(n + 1)
    <3>1. e + 1 \in 1..(m + 1)
      BY <1>0, <2>5
    <3> QED BY <3>1 DEF Matches
  <2> DEFINE U == {u \in 1..N : u >= t /\ b[u] <= k}
             u == Max(U)
  <2>10. u \in 1..N /\ u \in t..N /\ b[u] <= k /\ \A w \in U : w <= u
    <3>1. t \in U
      BY <1>0
    <3>2. U \in SUBSET (1..N) /\ U # {}
      BY <3>1
    <3>3. Max(U) \in U /\ \A w \in U : w <= Max(U)
      <4> HIDE DEF U
      <4> QED BY <1>0, <3>2, MaxIn
    <3>4. Max(U) \in 1..N /\ Max(U) >= t /\ b[Max(U)] <= k
      BY <3>3
    <3> HIDE DEF U
    <3> QED BY <1>0, <3>3, <3>4
  <2> DEFINE v == b[u]
             M == Len(names[u])
  <2>11. v \in 1..(n + 1) /\ M \in Nat /\ v + M <= n + 1 /\ Piece(path, names, b, u)
    BY <1>0, <2>10, PieceEnds
  <2>12. k <= v + M
    <3> SUFFICES ASSUME k > v + M PROVE FALSE
      <4> HIDE DEF u, U, v, M
      <4> QED BY <1>0, <1>1, <2>11
    <3>1. CASE u = N
      <4>1. v + M = n + 1
        BY <2>11, <3>1 DEF Piece
      <4> HIDE DEF v, M, u, U
      <4> QED BY <4>1, <1>0, <1>1
    <3>2. CASE u # N
      <4>1. b[u + 1] = v + M + 1
        BY <2>11, <3>2 DEF Piece
      <4>2. u + 1 \in 1..N /\ u + 1 >= t
        <5> HIDE DEF u, U
        <5> QED BY SMTT(30), <1>0, <2>10, <3>2
      <4>3. b[u + 1] <= k
        <5> HIDE DEF v, M, u, U
        <5> QED BY <4>1, <2>11, <1>1, <1>0
      <4>4. u + 1 <= u
        BY <2>10, <4>2, <4>3
      <4> HIDE DEF u, U
      <4> QED BY <4>4, <2>10
    <3> QED BY <3>1, <3>2
  <2> HIDE DEF u, U
  <2>13. ASSUME NEW c \in v..(x - 1) PROVE path[c] # "/"
    <3>1. CASE c >= k
      <4>1. c \in k..(x - 1)
        BY <1>1, <2>9, <2>11, <3>1
      <4> QED BY <4>1, <2>8
    <3>2. CASE ~(c >= k)
      <4> DEFINE y == c - v + 1
      <4>1. y \in 1..M /\ v + y - 1 = c
        <5> HIDE DEF v, M
        <5> QED BY <1>1, <2>9, <2>11, <2>12, <3>2
      <4>2. path[v + y - 1] = names[u][y] /\ names[u][y] # "/"
        BY <2>11, <4>1 DEF Piece
      <4> QED BY <4>1, <4>2
    <3> QED BY <3>1, <3>2
  <2>14. v <= x
    <3> HIDE DEF v
    <3> QED BY <1>1, <2>8, <2>9, <2>10, <2>11 DEF v
  <2>15. v \in f[e]
    <3> HIDE DEF v, e
    <3> QED BY <2>7, <2>11, <2>13, <2>14
  <2> QED BY <2>10, <2>15
<1> QED BY <1>2, <1>3

\* The pattern goes on from place j of the path, or any later one.
GoesOn(f, segs, a, s, j) == j \in f[a[s]] <=> s = Len(segs) \/ \E k \in f[a[s + 1]] : j <= k

\* It does so at a segment that is `**`.
LEMMA StarSegment ==
    ASSUME NEW S, NEW pat, NEW path \in Seq(S), NEW f, Matches(f, pat, path), NEW segs, NEW a,
           Laid(pat, segs, a, S), NEW s \in 1..Len(segs), segs[s] = <<"*", "*">>, NEW j \in 1..(Len(path) + 1)
    PROVE  GoesOn(f, segs, a, s, j)
<1>1. Piece(pat, segs, a, s) /\ pat \in Seq(S)
  BY DEF Laid
<1>2. s # Len(segs) => a[s + 1] <= Len(pat) + 1
  BY StartsIn
<1> QED BY <1>1, <1>2, TwoStars DEF GoesOn

\* From a segment and a name on, the pattern matches the path as the segments match
\* the names.
LEMMA RestMatched ==
    ASSUME NEW S, NEW pat, NEW path, NEW f, Matches(f, pat, path), NEW segs, NEW names, NEW a, NEW b,
           Laid(pat, segs, a, S), Laid(path, names, b, S), \A x \in 1..Len(segs) : WholeStars(segs[x]),
           NEW R, NEW K \in Nat, NEW N \in Nat, PiecesOf(R, K, N, segs, names),
           NEW i \in 0..(K - 1),
           i + 1 < K => \A y \in 0..(N - 1) : Fits(R, K, N, i + 1, y) => b[y + 1] \in f[a[i + 2]],
           NEW y \in 0..(N - 1)
    PROVE  Fits(R, K, N, i, y) => b[y + 1] \in f[a[i + 1]]
<1> DEFINE s == i + 1
           t == y + 1
           m == Len(pat)
           n == Len(path)
<1>0. K \in Nat \ {0} /\ N \in Nat \ {0} /\ s \in 1..K /\ t \in 1..N /\ i + 2 = s + 1 /\ y \in 0..N /\ s \in Int /\ t \in Int
  BY DEF Laid, PiecesOf
<1>1. Piece(pat, segs, a, s) /\ Piece(path, names, b, t) /\ segs[s] \in Seq(S) /\ names[t] \in Seq(S)
      /\ pat \in Seq(S) /\ path \in Seq(S)
  BY <1>0 DEF Laid, PiecesOf
<1>2. b[t] \in 1..(n + 1) /\ (s # K => a[s + 1] <= m + 1)
  <2>1. t \in 1..Len(names) /\ s \in 1..Len(segs) /\ K = Len(segs)
    BY <1>0 DEF PiecesOf
  <2> HIDE DEF s, t
  <2>2. b[t] \in 1..(Len(path) + 1)
    BY <2>1, StartsIn
  <2>3. s # Len(segs) => a[s + 1] <= Len(pat) + 1 /\ s + 1 \in 1..Len(segs)
    BY <2>1, StartsIn
  <2> QED BY <1>0, <2>1, <2>2, <2>3
<1> SUFFICES ASSUME Fits(R, K, N, i, y) PROVE b[t] \in f[a[s]]
  OBVIOUS
<1>3. /\ segs[s] = <<"*", "*">> => \E z \in y..N : (s = K => y < z) /\ Fits(R, K, N, s, z)
      /\ segs[s] # <<"*", "*">> => y < N /\ NameMatches(segs[s], names[t]) /\ Fits(R, K, N, s, t)
  BY <1>0, PathStep
<1>4. \A z \in 0..N : s < K /\ Fits(R, K, N, s, z) => z < N
  <2> SUFFICES ASSUME NEW z \in 0..N, s < K, Fits(R, K, N, s, z) PROVE z < N
    OBVIOUS
  <2>1. s \in 0..(K - 1)
    BY <1>0
  <2> HIDE DEF s
  <2> QED BY <2>1, FitsSome
<1>5. \A z \in 0..(N - 1) : s < K /\ Fits(R, K, N, s, z) => b[z + 1] \in f[a[s + 1]]
  BY <1>0
<1> HIDE DEF s, t
<1>6. CASE segs[s] = <<"*", "*">>
  <2>a. b[t] \in f[a[s]] <=> s = Len(segs) \/ \E k \in f[a[s + 1]] : b[t] <= k
    <3>1. s \in 1..Len(segs) /\ path \in Seq(S) /\ b[t] \in 1..(Len(path) + 1)
      BY <1>0, <1>1, <1>2 DEF PiecesOf
    <3>2. GoesOn(f, segs, a, s, b[t])
      BY <1>6, <3>1, StarSegment
    <3> QED BY <3>2 DEF GoesOn
  <2>1. b[t] \in f[a[s]] <=> s = K \/ \E k \in f[a[s + 1]] : b[t] <= k
    BY <2>a DEF PiecesOf
  <2>2. CASE s # K
    <3>1. PICK z \in y..N : Fits(R, K, N, s, z)
      BY <1>3, <1>6
    <3>2. z \in 0..(N - 1) /\ s < K
      BY <1>0, <1>4, <2>2, <3>1
    <3>3. b[z + 1] \in f[a[s + 1]]
      BY <1>5, <3>1, <3>2
    <3>4. b[t] <= b[z + 1]
      <4>1. z + 1 \in t..N
        BY <1>0, <3>1, <3>2 DEF t
      <4>2. \A x \in 1..Len(names) : Piece(path, names, b, x)
        BY DEF Laid
      <4>a. K = Len(segs) /\ N = Len(names)
        BY DEF PiecesOf
      <4> DEFINE w == z + 1
      <4>3. w \in t..Len(names) /\ t \in 1..Len(names) /\ Len(names) \in Nat
        BY <1>0, <4>1, <4>a
      <4> HIDE DEF w
      <4>4. b[t] <= b[w]
        BY <4>2, <4>3, CutRises
      <4> QED BY <4>4 DEF w
    <3> QED BY <2>1, <3>3, <3>4
  <2> QED BY <2>1, <2>2
<1>7. CASE segs[s] # <<"*", "*">>
  <2>1. NameMatches(segs[s], names[t]) /\ Fits(R, K, N, s, t)
    BY <1>3, <1>7
  <2>2. \A x \in 1..Len(segs[s]) : ~TwoStarsAt(segs[s], x)
    BY <1>0, <1>7 DEF WholeStars, PiecesOf
  <2>3. b[t] \in f[a[s]] <=> /\ NameMatches(segs[s], names[t])
                             /\ b[t] + Len(names[t]) \in f[a[s] + Len(segs[s])]
    BY <1>1, <2>2, NameMatched
  <2>a. b[t] + Len(names[t]) \in f[a[s] + Len(segs[s])] <=>
            IF s = Len(segs) THEN t = Len(names) ELSE t # Len(names) /\ b[t + 1] \in f[a[s + 1]]
    BY <1>1, AfterName
  <2>4. b[t] + Len(names[t]) \in f[a[s] + Len(segs[s])] <=>
            IF s = K THEN t = N ELSE t # N /\ b[t + 1] \in f[a[s + 1]]
    BY <2>a DEF PiecesOf
  <2>5. CASE s = K
    <3>1. t \in 0..N
      BY <1>0
    <3>2. t = N
      BY <1>0, <2>1, <2>5, <3>1, FitsEnd
    <3> QED BY <2>1, <2>3, <2>4, <2>5, <3>2
  <2>6. CASE s # K
    <3>1. t \in 0..N /\ s < K
      BY <1>0, <2>6
    <3>2. t < N
      BY <1>4, <2>1, <3>1
    <3>3. t \in 0..(N - 1) /\ t # N
      BY <1>0, <3>2
    <3> QED BY <1>5, <2>1, <2>3, <2>4, <2>6, <3>1, <3>3
  <2> QED BY <2>5, <2>6
<1> QED BY <1>6, <1>7 DEF s, t

\* And only so if what follows `**` starts with a star.
LEMMA RestAnchored ==
    ASSUME NEW S, NEW pat, NEW path, NEW f, Matches(f, pat, path), NEW segs, NEW names, NEW a, NEW b,
           Laid(pat, segs, a, S), Laid(path, names, b, S), \A x \in 1..Len(segs) : WholeStars(segs[x]),
           Anchored(segs),
           NEW R, NEW K \in Nat, NEW N \in Nat, PiecesOf(R, K, N, segs, names),
           NEW i \in 0..(K - 1),
           i + 1 < K => \A y \in 0..(N - 1) : b[y + 1] \in f[a[i + 2]] => Fits(R, K, N, i + 1, y),
           NEW y \in 0..(N - 1)
    PROVE  b[y + 1] \in f[a[i + 1]] => Fits(R, K, N, i, y)
<1> DEFINE s == i + 1
           t == y + 1
           m == Len(pat)
           n == Len(path)
<1>0. K \in Nat \ {0} /\ N \in Nat \ {0} /\ s \in 1..K /\ t \in 1..N /\ i + 2 = s + 1 /\ y \in 0..N /\ s \in Int /\ t \in Int
  BY DEF Laid, PiecesOf
<1>1. Piece(pat, segs, a, s) /\ Piece(path, names, b, t) /\ segs[s] \in Seq(S) /\ names[t] \in Seq(S)
      /\ pat \in Seq(S) /\ path \in Seq(S)
  BY <1>0 DEF Laid, PiecesOf
<1>2. b[t] \in 1..(n + 1) /\ (s # K => a[s + 1] <= m + 1 /\ s + 1 \in 1..K)
  <2>1. t \in 1..Len(names) /\ s \in 1..Len(segs) /\ K = Len(segs)
    BY <1>0 DEF PiecesOf
  <2> HIDE DEF s, t
  <2>2. b[t] \in 1..(Len(path) + 1)
    BY <2>1, StartsIn
  <2>3. s # Len(segs) => a[s + 1] <= Len(pat) + 1 /\ s + 1 \in 1..Len(segs)
    BY <2>1, StartsIn
  <2> QED BY <1>0, <2>1, <2>2, <2>3
<1> SUFFICES ASSUME b[t] \in f[a[s]] PROVE Fits(R, K, N, i, y)
  OBVIOUS
<1>3. /\ segs[s] = <<"*", "*">> =>
            (Fits(R, K, N, i, y) <=> \E z \in y..N : (s = K => y < z) /\ Fits(R, K, N, s, z))
      /\ segs[s] # <<"*", "*">> =>
            (Fits(R, K, N, i, y) <=> y < N /\ NameMatches(segs[s], names[t]) /\ Fits(R, K, N, s, t))
  BY <1>0, PathStep
<1>5. \A z \in 0..(N - 1) : s < K /\ b[z + 1] \in f[a[s + 1]] => Fits(R, K, N, s, z)
  BY <1>0
<1>8. y < N /\ y = t - 1 /\ t \in 0..N
  BY <1>0
<1> HIDE DEF s, t
<1>6. CASE segs[s] = <<"*", "*">>
  <2>a. b[t] \in f[a[s]] <=> s = Len(segs) \/ \E k \in f[a[s + 1]] : b[t] <= k
    <3>1. s \in 1..Len(segs) /\ path \in Seq(S) /\ b[t] \in 1..(Len(path) + 1)
      BY <1>0, <1>1, <1>2 DEF PiecesOf
    <3>2. GoesOn(f, segs, a, s, b[t])
      BY <1>6, <3>1, StarSegment
    <3> QED BY <3>2 DEF GoesOn
  <2>1. b[t] \in f[a[s]] <=> s = K \/ \E k \in f[a[s + 1]] : b[t] <= k
    BY <2>a DEF PiecesOf
  <2>2. CASE s = K
    <3>1. N \in 0..N /\ N \in y..N
      BY <1>0
    <3>2. Fits(R, K, N, s, N)
      BY <1>0, <2>2, <3>1, FitsEnd
    <3> QED BY <1>3, <1>6, <1>8, <3>1, <3>2
  <2>3. CASE s # K
    <3>1. PICK k \in f[a[s + 1]] : b[t] <= k
      BY <2>1, <2>3
    <3>2. StarAt(segs[s + 1], 1) /\ WholeStars(segs[s + 1]) /\ s + 1 \in 1..Len(segs)
      BY <1>0, <1>2, <1>6, <2>3 DEF Anchored, PiecesOf
    <3>3. PICK u \in t..N : b[u] \in f[a[s + 1]]
      <4> DEFINE r == s + 1
      <4>1. StarAt(segs[r], 1) /\ WholeStars(segs[r]) /\ r \in 1..Len(segs) /\ k \in f[a[r]]
            /\ t \in 1..Len(names)
        BY <1>0, <3>1, <3>2 DEF PiecesOf
      <4> HIDE DEF r
      <4>2. \E u \in t..Len(names) : b[u] \in f[a[r]]
        BY <3>1, <4>1, NameBefore
      <4> QED BY <4>2 DEF r, PiecesOf
    <3>4. u - 1 \in 0..(N - 1) /\ u - 1 + 1 = u /\ u - 1 \in y..N /\ s < K
      BY <1>0, <1>8, <2>3
    <3>5. Fits(R, K, N, s, u - 1)
      BY <1>5, <3>3, <3>4
    <3> QED BY <1>3, <1>6, <2>3, <3>4, <3>5
  <2> QED BY <2>2, <2>3
<1>7. CASE segs[s] # <<"*", "*">>
  <2>2. \A x \in 1..Len(segs[s]) : ~TwoStarsAt(segs[s], x)
    BY <1>0, <1>7 DEF WholeStars, PiecesOf
  <2>3. b[t] \in f[a[s]] <=> /\ NameMatches(segs[s], names[t])
                             /\ b[t] + Len(names[t]) \in f[a[s] + Len(segs[s])]
    BY <1>1, <2>2, NameMatched
  <2>a. b[t] + Len(names[t]) \in f[a[s] + Len(segs[s])] <=>
            IF s = Len(segs) THEN t = Len(names) ELSE t # Len(names) /\ b[t + 1] \in f[a[s + 1]]
    BY <1>1, AfterName
  <2>4. b[t] + Len(names[t]) \in f[a[s] + Len(segs[s])] <=>
            IF s = K THEN t = N ELSE t # N /\ b[t + 1] \in f[a[s + 1]]
    BY <2>a DEF PiecesOf
  <2>5. CASE s = K
    <3>1. t = N
      BY <2>3, <2>4, <2>5
    <3>2. Fits(R, K, N, s, t)
      BY <1>0, <1>8, <2>5, <3>1, FitsEnd
    <3> QED BY <1>3, <1>7, <1>8, <2>3, <3>2
  <2>6. CASE s # K
    <3>1. t # N /\ b[t + 1] \in f[a[s + 1]]
      BY <2>3, <2>4, <2>6
    <3>2. t \in 0..(N - 1) /\ s < K
      BY <1>0, <2>6, <3>1
    <3>3. Fits(R, K, N, s, t)
      BY <1>5, <3>1, <3>2
    <3> QED BY <1>3, <1>7, <1>8, <2>3, <3>3
  <2> QED BY <2>5, <2>6
<1> QED BY <1>6, <1>7 DEF s, t

\* From its first segment on, the pattern matches the paths its segments match.
LEMMA PathMatched ==
    ASSUME NEW S, NEW pat, NEW path, NEW f, Matches(f, pat, path), NEW segs, NEW names, NEW a, NEW b,
           Laid(pat, segs, a, S), Laid(path, names, b, S), \A x \in 1..Len(segs) : WholeStars(segs[x])
    PROVE  /\ PathMatches(segs, names) => 1 \in f[1]
           /\ Anchored(segs) => (1 \in f[1] => PathMatches(segs, names))
<1> DEFINE R == PathPieces(segs, names)
           K == Len(segs)
           N == Len(names)
           Fwd(i) == i < K => \A y \in 0..(N - 1) : Fits(R, K, N, i, y) => b[y + 1] \in f[a[i + 1]]
           Bwd(i) == i < K => \A y \in 0..(N - 1) : b[y + 1] \in f[a[i + 1]] => Fits(R, K, N, i, y)
<1>0. K \in Nat \ {0} /\ N \in Nat \ {0} /\ a[1] = 1 /\ b[1] = 1 /\ segs \in Seq(Seq(S)) /\ names \in Seq(Seq(S))
  BY DEF Laid
<1>1. \A i \in 0..(K - 1) : Fwd(i + 1) => Fwd(i)
  <2> SUFFICES ASSUME NEW i \in 0..(K - 1), Fwd(i + 1), NEW y \in 0..(N - 1)
               PROVE  Fits(R, K, N, i, y) => b[y + 1] \in f[a[i + 1]]
    OBVIOUS
  <2>1. i + 1 < K => \A z \in 0..(N - 1) : Fits(R, K, N, i + 1, z) => b[z + 1] \in f[a[i + 2]]
    <3>1. i + 2 = i + 1 + 1
      OBVIOUS
    <3> QED BY <3>1
  <2>2. PiecesOf(R, K, N, segs, names) /\ K \in Nat /\ N \in Nat
    BY <1>0 DEF PiecesOf
  <2> HIDE DEF R, K, N
  <2> QED BY <2>1, <2>2, RestMatched
<1>2. Anchored(segs) => \A i \in 0..(K - 1) : Bwd(i + 1) => Bwd(i)
  <2> SUFFICES ASSUME Anchored(segs), NEW i \in 0..(K - 1), Bwd(i + 1), NEW y \in 0..(N - 1)
               PROVE  b[y + 1] \in f[a[i + 1]] => Fits(R, K, N, i, y)
    OBVIOUS
  <2>1. i + 1 < K => \A z \in 0..(N - 1) : b[z + 1] \in f[a[i + 2]] => Fits(R, K, N, i + 1, z)
    <3>1. i + 2 = i + 1 + 1
      OBVIOUS
    <3> QED BY <3>1
  <2>2. PiecesOf(R, K, N, segs, names) /\ K \in Nat /\ N \in Nat
    BY <1>0 DEF PiecesOf
  <2> HIDE DEF R, K, N
  <2> QED BY <2>1, <2>2, RestAnchored
<1>3. Fwd(K) /\ Bwd(K)
  BY <1>0
<1>4. Fwd(0)
  <2> DEFINE T == {i \in 0..K : Fwd(i)}
  <2> HIDE DEF Fwd
  <2>1. K \in T /\ \A i \in 0..(K - 1) : i + 1 \in T => i \in T
    BY <1>0, <1>1, <1>3
  <2> HIDE DEF T, K
  <2>2. 0 \in T
    BY <1>0, <2>1, Downward
  <2> QED BY <2>2 DEF T
<1>5. Anchored(segs) => Bwd(0)
  <2> DEFINE T == {i \in 0..K : Bwd(i)}
  <2> SUFFICES ASSUME Anchored(segs) PROVE Bwd(0)
    OBVIOUS
  <2> HIDE DEF Bwd
  <2>1. K \in T /\ \A i \in 0..(K - 1) : i + 1 \in T => i \in T
    BY <1>0, <1>2, <1>3
  <2> HIDE DEF T, K
  <2>2. 0 \in T
    BY <1>0, <2>1, Downward
  <2> QED BY <2>2 DEF T
<1>6. PathMatches(segs, names) <=> Fits(R, K, N, 0, 0)
  BY <1>0, PathFits
<1>7. 0 \in 0..(N - 1) /\ 0 < K /\ 0 + 1 = 1
  BY <1>0
<1> HIDE DEF R
<1> QED BY <1>0, <1>4, <1>5, <1>6, <1>7

\* Of a glob and a path cut at their slashes.
LEMMA GlobBySegments ==
    ASSUME NEW S, NEW pat \in Seq(S), NEW path \in Seq(S),
           \A x \in 1..Len(Segments(pat)) : WholeStars(Segments(pat)[x])
    PROVE  /\ PathMatches(Segments(pat), Segments(path)) => GlobMatch(pat, path)
           /\ Anchored(Segments(pat)) => (GlobMatch(pat, path) => PathMatches(Segments(pat), Segments(path)))
<1> DEFINE segs == Segments(pat)
           names == Segments(path)
<1>1. PICK f : StartsFrom(f, pat, path, 1) /\ (GlobMatch(pat, path) <=> 1 \in f[1])
  BY GlobStarts
<1>2. Matches(f, pat, path)
  BY <1>1, StartsMatch
<1>3. ASSUME NEW q \in Seq(S) PROVE \E at : Laid(q, Segments(q), at, S)
  <2>1. PICK at : IsCut(q, Len(q), Segments(q), at)
    BY SegmentsCut
  <2>2. Segments(q) \in Seq(Seq(S)) \ {<<>>}
    BY SegmentsCut
  <2>3. Len(Segments(q)) \in Nat \ {0} /\ \A s \in 1..Len(Segments(q)) : Segments(q)[s] \in Seq(S)
    BY <2>2, EmptySeq, LenProperties, ElementOfSeq
  <2>4. at[1] = 1
    BY <2>1 DEF IsCut
  <2>5. \A s \in 1..Len(Segments(q)) : Piece(q, Segments(q), at, s)
    <3> DEFINE z == Segments(q)
    <3>1. z \in Seq(Seq(S)) /\ IsCut(q, Len(q), z, at)
      BY <2>1, <2>2
    <3> HIDE DEF z
    <3>2. \A s \in 1..Len(z) : Piece(q, z, at, s)
      BY <3>1, PieceOfCut
    <3> QED BY <3>2 DEF z
  <2>6. Laid(q, Segments(q), at, S)
    BY <2>2, <2>3, <2>4, <2>5 DEF Laid
  <2> QED BY <2>6
<1>4. PICK a : Laid(pat, segs, a, S)
  BY <1>3
<1>5. PICK b : Laid(path, names, b, S)
  BY <1>3
<1>6. \A x \in 1..Len(segs) : WholeStars(segs[x])
  OBVIOUS
<1> HIDE DEF segs, names
<1>7. /\ PathMatches(segs, names) => 1 \in f[1]
      /\ Anchored(segs) => (1 \in f[1] => PathMatches(segs, names))
  BY <1>2, <1>4, <1>5, <1>6, PathMatched
<1> QED BY <1>1, <1>7 DEF segs, names

-----------------------------------------------------------------------------
(* Globs: the segments of a clean path                                      *)

\* A sequence and an element.
LEMMA FrontLast ==
    ASSUME NEW S, NEW X \in Seq(S), NEW y \in S
    PROVE  /\ Append(X, y) \in Seq(S) /\ Append(X, y) # <<>>
           /\ Front(Append(X, y)) = X /\ Last(Append(X, y)) = y
<1> DEFINE Y == Append(X, y)
<1>1. Len(X) \in Nat /\ Y \in Seq(S) /\ Len(Y) = Len(X) + 1 /\ Y[Len(X) + 1] = y
      /\ \A i \in 1..Len(X) : Y[i] = X[i]
  BY LenProperties, AppendProperties
<1>2. Y # <<>>
  BY <1>1, EmptySeq
<1> HIDE DEF Y
<1>3. Front(Y) \in Seq(S) /\ Len(Front(Y)) = Len(Y) - 1 /\ \A i \in 1..(Len(Y) - 1) : Front(Y)[i] = Y[i]
  BY <1>1, <1>2, FrontIs
<1> DEFINE Z == Front(Y)
<1>4. Z \in Seq(S) /\ Len(Z) = Len(X) /\ \A i \in 1..Len(X) : Z[i] = X[i]
  BY <1>1, <1>3
<1> HIDE DEF Z
<1>5. Z = X
  BY <1>4, SeqEqual
<1>6. Last(Y) = y
  BY <1>1 DEF Last
<1> QED BY <1>1, <1>2, <1>5, <1>6 DEF Y, Z

\* s is t, then u.
IsConcat(s, t, u) ==
    /\ Len(t) \in Nat /\ Len(u) \in Nat /\ Len(s) = Len(t) + Len(u)
    /\ \A i \in 1..Len(t) : s[i] = t[i]
    /\ \A i \in 1..Len(u) : s[Len(t) + i] = u[i]

\* A sequence and another one, by their elements.
LEMMA ConcatIs ==
    ASSUME NEW S, NEW t \in Seq(S), NEW u \in Seq(S)
    PROVE  t \o u \in Seq(S) /\ IsConcat(t \o u, t, u)
<1> DEFINE s == t \o u
           n == Len(t)
           m == Len(u)
<1>1. n \in Nat /\ m \in Nat
  BY LenProperties
<1>2. s \in Seq(S) /\ Len(s) = n + m /\ \A i \in 1..(n + m) : s[i] = IF i <= n THEN t[i] ELSE u[i - n]
  BY ConcatProperties
<1>3. \A i \in 1..n : i \in 1..(n + m) /\ i <= n
  BY <1>1
<1>4. \A i \in 1..m : n + i \in 1..(n + m) /\ ~(n + i <= n) /\ n + i - n = i
  BY <1>1
<1> HIDE DEF s
<1>5. \A i \in 1..n : s[i] = t[i]
  BY <1>2, <1>3
<1>6. \A i \in 1..m : s[n + i] = u[i]
  BY <1>2, <1>4
<1> QED BY <1>1, <1>2, <1>5, <1>6 DEF IsConcat, s

\* A sequence put after an element.
LEMMA AfterHead ==
    ASSUME NEW S, NEW r \in S, NEW X \in Seq(S), NEW y \in S
    PROVE  /\ <<r>> \o X \in Seq(S) /\ <<r>> \o X # <<>> /\ Head(<<r>> \o X) = r
           /\ <<r>> \o Append(X, y) = Append(<<r>> \o X, y)
<1>1. <<r>> \in Seq(S) /\ <<y>> \in Seq(S) /\ Len(<<r>>) = 1 /\ <<r>>[1] = r
  OBVIOUS
<1> DEFINE one == <<r>>
           end == <<y>>
<1>2. one \in Seq(S) /\ end \in Seq(S) /\ Len(one) = 1 /\ one[1] = r
  BY <1>1
<1>3. \A z \in Seq(S) : Append(z, y) = z \o end
  BY AppendIsConcat
<1> HIDE DEF one, end
<1>4. one \o X \in Seq(S) /\ IsConcat(one \o X, one, X)
  BY <1>2, ConcatIs
<1>5. one \o X # <<>> /\ (one \o X)[1] = r
  <2> DEFINE Z == one \o X
  <2>1. Z \in Seq(S) /\ Len(Z) = 1 + Len(X) /\ Len(X) \in Nat /\ \A i \in 1..1 : Z[i] = one[i]
    BY <1>2, <1>4 DEF IsConcat
  <2> HIDE DEF Z
  <2>2. Z # <<>> /\ Z[1] = r
    BY <2>1, <1>2, EmptySeq
  <2> QED BY <2>2 DEF Z
<1>6. Head(one \o X) = r
  BY <1>5
<1>7. one \o (X \o end) = (one \o X) \o end
  BY SMTT(30), <1>2, ConcatAssociative
<1>8. one \o Append(X, y) = Append(one \o X, y)
  BY <1>3, <1>4, <1>7
<1> QED BY <1>4, <1>5, <1>6, <1>8 DEF one

\* g goes through the segments of the beginnings of q.
SegmentsAlong(g, q, S) ==
    /\ g \in [0..Len(q) -> Seq(Seq(S)) \ {<<>>}]
    /\ g[0] = <<<<>>>> /\ Segments(q) = g[Len(q)]
    /\ \A k \in 1..Len(q) : g[k] = SegmentStep(g[k - 1], q[k])

\* Segments goes along the characters.
LEMMA AlongExists ==
    ASSUME NEW S, NEW q \in Seq(S) PROVE \E g : SegmentsAlong(g, q, S)
<1>1. PICK g \in [0..Len(q) -> Seq(Seq(S)) \ {<<>>}] :
              /\ g[0] = <<<<>>>> /\ Segments(q) = g[Len(q)]
              /\ \A k \in 1..Len(q) : g[k] = SegmentStep(g[k - 1], q[k])
  BY SegmentsChain
<1>2. SegmentsAlong(g, q, S)
  BY <1>1 DEF SegmentsAlong
<1> QED BY <1>2

\* A character other than a slash goes into the last segment.
LEMMA StepInLast ==
    ASSUME NEW S, NEW X \in Seq(Seq(S)), NEW y \in Seq(S), NEW c \in S, c # "/"
    PROVE  SegmentStep(Append(X, y), c) = Append(X, Append(y, c))
<1> DEFINE T == Seq(S)
<1>1. X \in Seq(T) /\ y \in T
  OBVIOUS
<1> HIDE DEF T
<1>2. Front(Append(X, y)) = X /\ Last(Append(X, y)) = y
  BY <1>1, FrontLast
<1> QED BY <1>2 DEF SegmentStep

\* What comes before the last segment does not matter.
LEMMA StepAfterHead ==
    ASSUME NEW S, NEW r \in Seq(S), NEW X \in Seq(Seq(S)), X # <<>>, NEW c \in S
    PROVE  SegmentStep(<<r>> \o X, c) = <<r>> \o SegmentStep(X, c)
<1> DEFINE T == Seq(S)
<1>1. X \in Seq(T) /\ r \in T /\ <<>> \in T
  BY EmptySeq
<1>2. CASE c = "/"
  <2> DEFINE e == <<>>
  <2>1. e \in T
    BY <1>1
  <2> HIDE DEF T, e
  <2>2. <<r>> \o Append(X, e) = Append(<<r>> \o X, e)
    BY <1>1, <2>1, AfterHead
  <2> QED BY <1>2, <2>2 DEF SegmentStep, e
<1>3. CASE c # "/"
  <2>1. PICK x \in Seq(T), y \in T : X = Append(x, y)
    <3> HIDE DEF T
    <3> QED BY <1>1, SequenceEmptyOrAppend
  <2> DEFINE z == Append(y, c)
  <2>2. z \in T
    BY AppendProperties
  <2>3. SegmentStep(X, c) = Append(x, z)
    BY <1>3, <2>1, StepInLast
  <2>4. <<r>> \o x \in Seq(T) /\ <<r>> \o X = Append(<<r>> \o x, y) /\ <<r>> \o Append(x, z) = Append(<<r>> \o x, z)
    <3> HIDE DEF T, z
    <3> QED BY <1>1, <2>1, <2>2, AfterHead
  <2> DEFINE w == <<r>> \o x
  <2>5. w \in Seq(Seq(S)) /\ <<r>> \o X = Append(w, y) /\ <<r>> \o Append(x, z) = Append(w, z)
    BY <2>4
  <2>a. y \in Seq(S)
    OBVIOUS
  <2> HIDE DEF w, T
  <2>b. SegmentStep(Append(w, y), c) = Append(w, Append(y, c))
    BY SMTT(30), <1>3, <2>a, <2>5, StepInLast
  <2>6. SegmentStep(Append(w, y), c) = Append(w, z)
    BY <2>b
  <2> HIDE DEF z
  <2> QED BY <2>3, <2>5, <2>6
<1> QED BY <1>2, <1>3

\* After its first k characters, q goes on with r, in which there is no slash.
NameAfter(q, k, r) ==
    k + Len(r) <= Len(q) /\ \A j \in 1..Len(r) : q[k + j] = r[j] /\ r[j] # "/"

\* It makes one segment.
LEMMA OneSegment ==
    ASSUME NEW S, NEW q \in Seq(S), NEW g, SegmentsAlong(g, q, S), NEW k \in 0..Len(q),
           NEW X \in Seq(Seq(S)), g[k] = Append(X, <<>>), NEW r \in Seq(S), NameAfter(q, k, r)
    PROVE  g[k + Len(r)] = Append(X, r)
<1> DEFINE n == Len(q)
           L == Len(r)
           T == {j \in Nat : j <= L => g[k + j] = Append(X, SubSeq(r, 1, j))}
<1>0. n \in Nat /\ L \in Nat /\ k \in Nat /\ (\A j \in 1..L : r[j] \in S)
      /\ k + L <= n /\ \A j \in 1..L : q[k + j] = r[j] /\ r[j] # "/"
  BY LenProperties, ElementOfSeq DEF NameAfter
<1>1. 0 \in T
  <2>1. SubSeq(r, 1, 0) = <<>> /\ k + 0 = k
    BY SubSeqEmpty
  <2> QED BY <2>1
<1>2. ASSUME NEW j \in T PROVE j + 1 \in T
  <2>1. j \in Nat /\ j + 1 \in Nat
    OBVIOUS
  <2> SUFFICES ASSUME j + 1 <= L PROVE g[k + (j + 1)] = Append(X, SubSeq(r, 1, j + 1))
    BY <2>1
  <2> DEFINE e == j + 1
  <2>2. /\ k + e \in 1..n /\ k + e - 1 = k + j /\ e \in 1..L /\ 1 \in 1..L /\ e \in 1..L /\ e - 1 = j
    BY <1>0, <2>1
  <2>3. g[k + e] = SegmentStep(Append(X, SubSeq(r, 1, j)), r[e])
    <3>1. g[k + e] = SegmentStep(g[k + e - 1], q[k + e])
      BY <2>2 DEF SegmentsAlong
    <3>2. g[k + j] = Append(X, SubSeq(r, 1, j))
      BY <2>1
    <3>3. q[k + e] = r[e]
      BY <1>0, <2>2
    <3> QED BY <2>2, <3>1, <3>2, <3>3
  <2>4. SubSeq(r, 1, j) \in Seq(S)
    <3>1. \A i \in 1..j : r[i] \in S
      BY <1>0, <2>2
    <3> QED BY <2>1, <3>1, SubSeqProperties
  <2>5. Append(SubSeq(r, 1, j), r[e]) = SubSeq(r, 1, e)
    <3>1. SubSeq(r, 1, e) = SubSeq(r, 1, e - 1) \o <<r[e]>>
      BY <2>2, SubSeqRecursiveSecond
    <3>2. Append(SubSeq(r, 1, j), r[e]) = SubSeq(r, 1, j) \o <<r[e]>>
      BY <1>0, <2>2, <2>4, AppendIsConcat
    <3> QED BY <2>2, <3>1, <3>2
  <2>6. r[e] \in S /\ r[e] # "/"
    BY <1>0, <2>2
  <2>7. SegmentStep(Append(X, SubSeq(r, 1, j)), r[e]) = Append(X, Append(SubSeq(r, 1, j), r[e]))
    <3> DEFINE y == SubSeq(r, 1, j)
               c == r[e]
    <3>1. y \in Seq(S) /\ c \in S /\ c # "/"
      BY <2>4, <2>6
    <3> HIDE DEF y, c
    <3>2. SegmentStep(Append(X, y), c) = Append(X, Append(y, c))
      BY <3>1, StepInLast
    <3> QED BY <3>2 DEF y, c
  <2> QED BY <2>3, <2>5, <2>7
<1>3. T = Nat
  <2> HIDE DEF T
  <2>1. T \in SUBSET Nat
    BY DEF T
  <2> QED BY <2>1, <1>1, <1>2, NatInd
<1>4. g[k + L] = Append(X, SubSeq(r, 1, L))
  <2>1. L \in T
    <3> HIDE DEF T
    <3> QED BY <1>0, <1>3
  <2> QED BY <1>0, <2>1
<1> QED BY <1>4, SubSeqFull

NoSlash(r) == \A j \in 1..Len(r) : r[j] # "/"

\* The name a path starts with is its first segment so far.
LEMMA FirstSegment ==
    ASSUME NEW S, NEW q \in Seq(S), NEW g, SegmentsAlong(g, q, S), NEW r \in Seq(S), NameAfter(q, 0, r)
    PROVE  g[Len(r)] = <<r>>
<1> DEFINE k == 0
           X == <<>>
<1>1. X \in Seq(Seq(S))
  BY EmptySeq
<1>2. Append(X, <<>>) = <<<<>>>> /\ Append(X, r) = <<r>>
  OBVIOUS
<1>3. g[0] = <<<<>>>>
  BY DEF SegmentsAlong
<1>4. k \in 0..Len(q) /\ g[k] = Append(X, <<>>) /\ NameAfter(q, k, r)
  BY <1>2, <1>3, LenProperties
<1>5. k + Len(r) = Len(r)
  BY LenProperties
<1> HIDE DEF k, X
<1>6. g[k + Len(r)] = Append(X, r)
  BY <1>1, <1>4, OneSegment
<1> QED BY <1>2, <1>5, <1>6

\* A name is one segment.
LEMMA SegmentsOfOne ==
    ASSUME NEW S, NEW r \in Seq(S), NoSlash(r)
    PROVE  Segments(r) = <<r>>
<1>1. PICK g : SegmentsAlong(g, r, S)
  BY AlongExists
<1>2. Segments(r) = g[Len(r)]
  BY <1>1 DEF SegmentsAlong
<1>3. NameAfter(r, 0, r)
  BY LenProperties DEF NameAfter, NoSlash
<1> QED BY <1>1, <1>2, <1>3, FirstSegment

\* A segment after a path.
LEMMA SegmentsAfter ==
    ASSUME NEW S, "/" \in S, NEW p \in Seq(S), NEW r \in Seq(S), NoSlash(r)
    PROVE  Segments((p \o <<"/">>) \o r) = Append(Segments(p), r)
<1> DEFINE n == Len(p)
           L == Len(r)
           slash == <<"/">>
           s == p \o slash
           q == s \o r
<1>0. n \in Nat /\ L \in Nat /\ slash \in Seq(S) /\ Len(slash) = 1 /\ slash[1] = "/"
  BY LenProperties
<1> HIDE DEF slash
<1>1. s \in Seq(S) /\ Len(s) = n + 1 /\ s[n + 1] = "/" /\ \A i \in 1..n : s[i] = p[i]
  <2>1. s \in Seq(S) /\ IsConcat(s, p, slash)
    BY <1>0, ConcatIs
  <2>2. Len(s) = n + 1 /\ (\A i \in 1..n : s[i] = p[i]) /\ \A i \in 1..1 : s[n + i] = slash[i]
    BY <1>0, <2>1 DEF IsConcat
  <2> HIDE DEF s
  <2> QED BY <1>0, <2>1, <2>2
<1> HIDE DEF s
<1>2. /\ q \in Seq(S) /\ Len(q) = n + 1 + L /\ q[n + 1] = "/" /\ (\A i \in 1..n : q[i] = p[i])
      /\ \A j \in 1..L : q[n + 1 + j] = r[j]
  <2>1. q \in Seq(S) /\ IsConcat(q, s, r)
    BY <1>1, ConcatIs
  <2>2. Len(q) = n + 1 + L /\ (\A i \in 1..(n + 1) : q[i] = s[i]) /\ \A j \in 1..L : q[n + 1 + j] = r[j]
    BY <1>1, <2>1 DEF IsConcat
  <2>3. n + 1 \in 1..(n + 1) /\ \A i \in 1..n : i \in 1..(n + 1)
    BY <1>0
  <2> HIDE DEF q
  <2> QED BY <1>0, <1>1, <2>1, <2>2, <2>3
<1> HIDE DEF q
<1>3. PICK g : SegmentsAlong(g, q, S)
  BY <1>2, AlongExists
<1>4. PICK h : SegmentsAlong(h, p, S)
  BY AlongExists
<1>5. /\ g[0] = <<<<>>>> /\ Segments(q) = g[n + 1 + L]
      /\ \A k \in 1..(n + 1 + L) : g[k] = SegmentStep(g[k - 1], q[k])
  BY <1>2, <1>3 DEF SegmentsAlong
<1>6. /\ h[0] = <<<<>>>> /\ Segments(p) = h[n]
      /\ \A k \in 1..n : h[k] = SegmentStep(h[k - 1], p[k])
  BY <1>4 DEF SegmentsAlong
<1>7. g[n] = h[n]
  <2>1. \A k \in 1..n : k \in 1..(n + 1 + L)
    BY <1>0
  <2>2. InStep(g, h, n)
    BY <1>2, <1>5, <1>6, <2>1 DEF InStep
  <2>3. n \in 0..n
    BY <1>0
  <2> QED BY <1>0, <2>2, <2>3, SameChain
<1>8. g[n + 1] = Append(h[n], <<>>)
  <2>1. n + 1 \in 1..(n + 1 + L) /\ n + 1 - 1 = n
    BY <1>0
  <2>2. g[n + 1] = SegmentStep(g[n + 1 - 1], q[n + 1])
    BY <1>5, <2>1
  <2> QED BY <1>2, <1>7, <2>1, <2>2 DEF SegmentStep
<1>9. Segments(p) \in Seq(Seq(S))
  BY SegmentsCut
<1>10. g[n + 1 + L] = Append(h[n], r)
  <2> DEFINE k == n + 1
             X == h[n]
  <2>1. k \in 0..Len(q) /\ k + L <= Len(q) /\ X \in Seq(Seq(S)) /\ g[k] = Append(X, <<>>)
    BY <1>0, <1>2, <1>6, <1>8, <1>9
  <2>2. \A j \in 1..Len(r) : q[k + j] = r[j] /\ r[j] # "/"
    BY <1>2 DEF NoSlash
  <2>4. q \in Seq(S) /\ NameAfter(q, k, r)
    BY <1>2, <2>1, <2>2 DEF NameAfter
  <2> HIDE DEF k, X
  <2>3. g[k + Len(r)] = Append(X, r)
    BY <1>3, <2>1, <2>4, OneSegment
  <2> QED BY <2>3 DEF k, X
<1> QED BY <1>5, <1>6, <1>10 DEF q, s, slash

\* A path after a segment.
LEMMA SegmentsBefore ==
    ASSUME NEW S, "/" \in S, NEW p \in Seq(S), NEW r \in Seq(S), NoSlash(r)
    PROVE  Segments((r \o <<"/">>) \o p) = <<r>> \o Segments(p)
<1> DEFINE n == Len(p)
           L == Len(r)
           slash == <<"/">>
           s == r \o slash
           q == s \o p
           St == Seq(Seq(S)) \ {<<>>}
<1>0. n \in Nat /\ L \in Nat /\ slash \in Seq(S) /\ Len(slash) = 1 /\ slash[1] = "/"
  BY LenProperties
<1> HIDE DEF slash
<1>1. s \in Seq(S) /\ Len(s) = L + 1 /\ s[L + 1] = "/" /\ \A i \in 1..L : s[i] = r[i]
  <2>1. s \in Seq(S) /\ IsConcat(s, r, slash)
    BY <1>0, ConcatIs
  <2>2. Len(s) = L + 1 /\ (\A i \in 1..L : s[i] = r[i]) /\ \A i \in 1..1 : s[L + i] = slash[i]
    BY <1>0, <2>1 DEF IsConcat
  <2> HIDE DEF s
  <2> QED BY <1>0, <2>1, <2>2
<1> HIDE DEF s
<1>2. /\ q \in Seq(S) /\ Len(q) = L + 1 + n /\ q[L + 1] = "/" /\ (\A i \in 1..L : q[i] = r[i])
      /\ \A j \in 1..n : q[L + 1 + j] = p[j]
  <2>1. q \in Seq(S) /\ IsConcat(q, s, p)
    BY <1>1, ConcatIs
  <2>2. Len(q) = L + 1 + n /\ (\A i \in 1..(L + 1) : q[i] = s[i]) /\ \A j \in 1..n : q[L + 1 + j] = p[j]
    BY <1>1, <2>1 DEF IsConcat
  <2>3. L + 1 \in 1..(L + 1) /\ \A i \in 1..L : i \in 1..(L + 1)
    BY <1>0
  <2> HIDE DEF q
  <2> QED BY <1>0, <1>1, <2>1, <2>2, <2>3
<1> HIDE DEF q
<1>3. PICK g : SegmentsAlong(g, q, S)
  BY <1>2, AlongExists
<1>4. PICK h : SegmentsAlong(h, p, S)
  BY AlongExists
<1>5. /\ g[0] = <<<<>>>> /\ Segments(q) = g[L + 1 + n]
      /\ \A k \in 1..(L + 1 + n) : g[k] = SegmentStep(g[k - 1], q[k])
  BY <1>2, <1>3 DEF SegmentsAlong
<1>6. /\ h[0] = <<<<>>>> /\ Segments(p) = h[n] /\ h \in [0..n -> St]
      /\ \A k \in 1..n : h[k] = SegmentStep(h[k - 1], p[k])
  BY <1>4 DEF SegmentsAlong
<1>7. g[L] = <<r>>
  <2>1. q \in Seq(S) /\ NameAfter(q, 0, r)
    BY <1>0, <1>2 DEF NameAfter, NoSlash
  <2> QED BY <1>3, <2>1, FirstSegment
<1>8. g[L + 1] = <<r>> \o h[0]
  <2>1. L + 1 \in 1..(L + 1 + n) /\ L + 1 - 1 = L
    BY <1>0
  <2>2. g[L + 1] = SegmentStep(g[L + 1 - 1], q[L + 1])
    BY <1>5, <2>1
  <2>3. g[L + 1] = Append(<<r>>, <<>>)
    BY <1>2, <1>7, <2>1, <2>2 DEF SegmentStep
  <2>4. Append(<<r>>, <<>>) = <<r>> \o <<<<>>>>
    <3>1. <<>> \in Seq(S) /\ <<r>> \in Seq(Seq(S))
      BY EmptySeq
    <3> DEFINE e == <<>>
               one == <<r>>
               T == Seq(S)
    <3>2. e \in T /\ one \in Seq(T)
      BY <3>1
    <3> HIDE DEF T, e, one
    <3>3. Append(one, e) = one \o <<e>>
      BY <3>2, AppendIsConcat
    <3> QED BY <3>3 DEF e, one
  <2> QED BY <2>3, <2>4, <1>6
<1> DEFINE T == {k \in Nat : k <= n => g[L + 1 + k] = <<r>> \o h[k]}
<1>9. 0 \in T
  <2>1. L + 1 + 0 = L + 1
    BY <1>0
  <2> QED BY <1>8, <2>1
<1>10. ASSUME NEW k \in T PROVE k + 1 \in T
  <2>1. k \in Nat /\ k + 1 \in Nat
    OBVIOUS
  <2> SUFFICES ASSUME k + 1 <= n PROVE g[L + 1 + (k + 1)] = <<r>> \o h[k + 1]
    BY <2>1
  <2>2. /\ g[L + 1 + k] = <<r>> \o h[k] /\ k + 1 \in 1..n /\ k \in 0..n /\ k + 1 - 1 = k
        /\ L + 1 + (k + 1) \in 1..(L + 1 + n) /\ L + 1 + (k + 1) - 1 = L + 1 + k
    BY <1>0, <2>1
  <2>3. g[L + 1 + (k + 1)] = SegmentStep(g[L + 1 + k], q[L + 1 + (k + 1)])
    <3> DEFINE e == L + 1 + (k + 1)
               d == L + 1 + k
    <3>1. e \in 1..(L + 1 + n) /\ e - 1 = d
      BY <2>2
    <3> HIDE DEF e, d
    <3>2. g[e] = SegmentStep(g[e - 1], q[e])
      BY <1>5, <3>1
    <3> QED BY <3>1, <3>2 DEF e, d
  <2>4. q[L + 1 + (k + 1)] = p[k + 1] /\ h[k + 1] = SegmentStep(h[k], p[k + 1])
    BY <1>2, <1>6, <2>2
  <2>5. h[k] \in Seq(Seq(S)) /\ h[k] # <<>> /\ p[k + 1] \in S
    BY <1>6, <2>2, ElementOfSeq
  <2> DEFINE X == h[k]
             c == p[k + 1]
  <2>6. X \in Seq(Seq(S)) /\ X # <<>> /\ c \in S
    BY <2>5
  <2> HIDE DEF X, c, T, St, n, L
  <2>7. SegmentStep(<<r>> \o X, c) = <<r>> \o SegmentStep(X, c)
    BY SMTT(30), <2>6, StepAfterHead
  <2> QED BY <2>2, <2>3, <2>4, <2>7 DEF X, c, n, L
<1>11. T = Nat
  <2> HIDE DEF T
  <2>1. T \in SUBSET Nat
    BY DEF T
  <2> QED BY <2>1, <1>9, <1>10, NatInd
<1>12. g[L + 1 + n] = <<r>> \o h[n]
  <2>1. n \in T
    <3> HIDE DEF T
    <3> QED BY <1>0, <1>11
  <2> QED BY <1>0, <2>1
<1> QED BY <1>5, <1>6, <1>12 DEF q, s, slash

-----------------------------------------------------------------------------
\* Joined goes along the segments.
JoinStep(path, segs, k) == IF k = 1 THEN segs[k] ELSE path \o <<"/">> \o segs[k]

JoinedAlong(g, segs, S) ==
    /\ g \in [0..Len(segs) -> Seq(S)] /\ g[0] = <<>> /\ Joined(segs) = g[Len(segs)]
    /\ \A k \in 1..Len(segs) : g[k] = JoinStep(g[k - 1], segs, k)

\* Joined goes along the segments.
LEMMA JoinedChain ==
    ASSUME NEW S, "/" \in S, NEW segs \in Seq(Seq(S))
    PROVE  \E g : JoinedAlong(g, segs, S)
<1> DEFINE n == Len(segs)
           St == Seq(S)
           ks == [k \in 1..n |-> k]
           step == [x \in St \X (1..n) |-> JoinStep(x[1], segs, x[2])]
           Body(h) == [s \in SUBSET (1..n) |->
                          IF s = {} THEN <<>> ELSE JoinStep(h[s \ {Max(s)}], segs, ks[Max(s)])]
           iter == CHOOSE h : h = Body(h)
<1>0. /\ n \in Nat /\ DOMAIN ks = 1..n /\ <<>> \in St /\ (\A k \in 1..n : segs[k] \in Seq(S) /\ ks[k] = k)
      /\ <<"/">> \in Seq(S)
  BY EmptySeq, LenProperties, ElementOfSeq
<1>1. step \in [St \X (1..n) -> St]
  <2> SUFFICES ASSUME NEW p \in St, NEW k \in 1..n PROVE JoinStep(p, segs, k) \in St
    OBVIOUS
  <2>1. p \o <<"/">> \in Seq(S)
    BY <1>0, ConcatProperties
  <2>2. (p \o <<"/">>) \o segs[k] \in Seq(S)
    BY <1>0, <2>1, ConcatProperties
  <2> QED BY <1>0, <2>2 DEF JoinStep
<1>2. PICK h, g : FoldOf(h, g, n, St, <<>>, step)
  <2> HIDE DEF step, n, St
  <2> QED BY <1>0, <1>1, Chain
<1>3. h \in [SUBSET (1..n) -> St] /\ g \in [0..n -> St] /\ g[0] = <<>>
  BY <1>2 DEF FoldOf
<1>4. \A k \in 1..n : g[k] = JoinStep(g[k - 1], segs, k)
  <2> TAKE k \in 1..n
  <2>1. g[k] = step[<<g[k - 1], k>>]
    BY <1>2 DEF FoldOf
  <2>2. k - 1 \in 0..n
    BY <1>0
  <2>3. g[k - 1] \in St
    BY <1>3, <2>2
  <2> HIDE DEF St
  <2> QED BY <2>1, <2>3
<1>5. h = Body(h)
  <2> SUFFICES ASSUME NEW s \in SUBSET (1..n) PROVE h[s] = Body(h)[s]
    BY <1>3
  <2>1. h[s] = IF s = {} THEN <<>> ELSE step[<<h[s \ {Max(s)}], Max(s)>>]
    BY <1>2 DEF FoldOf, IsFold
  <2>2. CASE s = {}
    BY <2>1, <2>2
  <2>3. CASE s # {}
    <3>1. Max(s) \in 1..n
      BY <1>0, <2>3, MaxIn
    <3>2. h[s \ {Max(s)}] \in St
      BY <1>3
    <3>3. ks[Max(s)] = Max(s)
      BY <3>1
    <3> HIDE DEF St, ks
    <3> QED BY <2>1, <2>3, <3>1, <3>2, <3>3
  <2> QED BY <2>2, <2>3
<1>6. iter = Body(iter)
  <2> HIDE DEF Body
  <2> QED BY <1>5
<1>7. Joined(segs) = iter[1..n]
  BY <1>0 DEF Joined, FoldLeft, MapThenFoldSet, JoinStep
<1> HIDE DEF iter
<1>8. iter[1..n] = g[n]
  <2>1. iter[{}] = <<>>
    BY <1>6
  <2>2. ASSUME NEW s \in SUBSET (1..n), s # {}, iter[s \ {Max(s)}] \in St
        PROVE  iter[s] = step[<<iter[s \ {Max(s)}], Max(s)>>]
    <3>1. Max(s) \in 1..n
      BY <1>0, <2>2, MaxIn
    <3>2. iter[s] = Body(iter)[s]
      BY <1>6
    <3>3. ks[Max(s)] = Max(s)
      BY <3>1
    <3> HIDE DEF St, ks
    <3> QED BY <2>2, <3>1, <3>2, <3>3
  <2> HIDE DEF step, n, Body, St
  <2>3. Steps(iter, n, St, <<>>, step)
    BY <2>1, <2>2 DEF Steps
  <2> QED BY <1>0, <1>2, <2>3, FoldsAlong
<1>9. JoinedAlong(g, segs, S)
  BY <1>3, <1>4, <1>7, <1>8 DEF JoinedAlong
<1> QED BY <1>9

\* Some names joined are cut into the same names.
LEMMA SegmentsOfJoined ==
    ASSUME NEW S, "/" \in S, NEW segs \in Seq(Seq(S)), \A k \in 1..Len(segs) : NoSlash(segs[k])
    PROVE  Joined(segs) \in Seq(S) /\ (segs # <<>> => Segments(Joined(segs)) = segs)
<1> DEFINE n == Len(segs)
           St == Seq(S)
<1>0. n \in Nat /\ (\A k \in 1..n : segs[k] \in Seq(S)) /\ (segs # <<>> => n # 0)
  BY EmptySeq, LenProperties, ElementOfSeq
<1>1. PICK g : JoinedAlong(g, segs, S)
  BY JoinedChain
<1>2. /\ g \in [0..n -> St] /\ Joined(segs) = g[n]
      /\ \A k \in 1..n : g[k] = JoinStep(g[k - 1], segs, k)
  BY <1>1 DEF JoinedAlong
<1>3. Joined(segs) \in Seq(S)
  BY <1>0, <1>2
<1> DEFINE T == {k \in Nat : k + 1 <= n => Segments(g[k + 1]) = SubSeq(segs, 1, k + 1)}
<1>4. 0 \in T
  <2> SUFFICES ASSUME 1 <= n PROVE Segments(g[1]) = SubSeq(segs, 1, 1)
    BY 0 + 1 = 1
  <2>1. 1 \in 1..n /\ 1 \in 1..1
    BY <1>0
  <2>2. g[1] = segs[1]
    BY <1>2, <2>1 DEF JoinStep
  <2>3. Segments(segs[1]) = <<segs[1]>>
    BY <1>0, <2>1, SegmentsOfOne
  <2>4. SubSeq(segs, 1, 1) = SubSeq(segs, 1, 1 - 1) \o <<segs[1]>>
    <3> DEFINE U == Seq(S)
    <3>1. segs \in Seq(U)
      OBVIOUS
    <3> HIDE DEF U
    <3> QED BY <2>1, <3>1, SubSeqRecursiveSecond
  <2>5. SubSeq(segs, 1, 1 - 1) = <<>>
    BY SubSeqEmpty
  <2> QED BY <2>2, <2>3, <2>4, <2>5
<1>5. ASSUME NEW k \in T PROVE k + 1 \in T
  <2>1. k \in Nat /\ k + 1 \in Nat
    OBVIOUS
  <2> SUFFICES ASSUME k + 1 + 1 <= n PROVE Segments(g[k + 1 + 1]) = SubSeq(segs, 1, k + 1 + 1)
    BY <2>1
  <2> DEFINE e == k + 1 + 1
             d == k + 1
  <2>2. e \in 1..n /\ e # 1 /\ e - 1 = d /\ d \in 1..n /\ d \in 0..n /\ 1 \in 1..n /\ e \in 1..n
    BY <1>0, <2>1
  <2>3. Segments(g[d]) = SubSeq(segs, 1, d)
    BY <2>1, <2>2
  <2> HIDE DEF e, d
  <2>4. g[e] = (g[d] \o <<"/">>) \o segs[e]
    <3>1. g[e] = JoinStep(g[e - 1], segs, e)
      BY <1>2, <2>2
    <3> QED BY <2>2, <3>1 DEF JoinStep
  <2>5. Segments(g[e]) = Append(Segments(g[d]), segs[e])
    <3> DEFINE p == g[d]
               r == segs[e]
    <3>1. p \in Seq(S) /\ r \in Seq(S) /\ NoSlash(r)
      BY <1>0, <1>2, <2>2
    <3> HIDE DEF p, r
    <3>2. Segments((p \o <<"/">>) \o r) = Append(Segments(p), r)
      BY <3>1, SegmentsAfter
    <3> QED BY <2>4, <3>2 DEF p, r
  <2>6. Append(SubSeq(segs, 1, d), segs[e]) = SubSeq(segs, 1, e)
    <3> DEFINE U == Seq(S)
    <3>1. segs \in Seq(U) /\ segs[e] \in U
      BY <1>0, <2>2
    <3> HIDE DEF U
    <3>a. e \in 1..Len(segs) /\ 1 \in 1..Len(segs) /\ e \in 1..Len(segs) /\ d \in 1..Len(segs) /\ e \in Int /\ d \in Int /\ 1 <= e
      BY <2>2
    <3>2. SubSeq(segs, 1, e) = SubSeq(segs, 1, e - 1) \o <<segs[e]>>
      <4>1. e \in 1..Len(segs) /\ 1 \in 1..Len(segs) /\ Len(segs) \in Nat
        BY <1>0, <3>a
      <4>2. \A m \in 1..Len(segs) : m \in 1..Len(segs) /\ e \in m..Len(segs) =>
                SubSeq(segs, m, e) = SubSeq(segs, m, e - 1) \o <<segs[e]>>
        BY <3>1, SubSeqRecursiveSecond
      <4> QED BY <4>1, <4>2
    <3>3. SubSeq(segs, 1, d) \in Seq(U)
      <4>1. \A i \in 1..d : segs[i] \in U
        <5>1. \A i \in 1..d : i \in 1..Len(segs)
          BY <1>0, <3>a
        <5> QED BY <3>1, <5>1, ElementOfSeq
      <4> QED BY <3>a, <4>1, SubSeqProperties
    <3>4. Append(SubSeq(segs, 1, d), segs[e]) = SubSeq(segs, 1, d) \o <<segs[e]>>
      BY <3>1, <3>3, AppendIsConcat
    <3> QED BY <2>2, <3>2, <3>4
  <2> QED BY <2>3, <2>5, <2>6 DEF e, d
<1>6. T = Nat
  <2> HIDE DEF T
  <2>1. T \in SUBSET Nat
    BY DEF T
  <2> QED BY <2>1, <1>4, <1>5, NatInd
<1>7. ASSUME segs # <<>> PROVE Segments(Joined(segs)) = segs
  <2>1. n - 1 \in Nat /\ n - 1 + 1 = n /\ n <= n
    BY <1>0, <1>7
  <2>2. n - 1 \in T
    <3> HIDE DEF T
    <3> QED BY <1>6, <2>1
  <2>3. Segments(g[n]) = SubSeq(segs, 1, n)
    BY <2>1, <2>2
  <2>4. SubSeq(segs, 1, n) = segs
    <3> DEFINE U == Seq(S)
    <3>1. segs \in Seq(U)
      OBVIOUS
    <3> HIDE DEF U
    <3> QED BY <3>1, SubSeqFull
  <2> QED BY <1>2, <2>3, <2>4
<1> QED BY <1>3, <1>7

\* The segments that Clean keeps.
NamesOf(S) == {r \in Seq(S) : NoSlash(r) /\ r # <<>> /\ r # <<".">>}

\* Segments are names, and there is at least one.
LEMMA SegmentsNoSlash ==
    ASSUME NEW S, NEW p \in Seq(S)
    PROVE  /\ Segments(p) \in Seq(Seq(S)) /\ Segments(p) # <<>> /\ Len(Segments(p)) \in Nat \ {0}
           /\ \A k \in 1..Len(Segments(p)) : Segments(p)[k] \in Seq(S) /\ NoSlash(Segments(p)[k])
<1>1. PICK a : IsCut(p, Len(p), Segments(p), a)
  BY SegmentsCut
<1>2. Segments(p) \in Seq(Seq(S)) /\ Segments(p) # <<>>
  BY SegmentsCut
<1>3. \A k \in 1..Len(Segments(p)) : NoSlash(Segments(p)[k])
  BY <1>1 DEF IsCut, NoSlash
<1>4. Len(Segments(p)) \in Nat \ {0} /\ \A k \in 1..Len(Segments(p)) : Segments(p)[k] \in Seq(S)
  BY <1>2, EmptySeq, LenProperties, ElementOfSeq
<1> QED BY <1>2, <1>3, <1>4

\* Names are kept only.
LEMMA WalkedType ==
    ASSUME NEW S, NEW rooted, NEW done \in Seq(NamesOf(S)), NEW seg \in Seq(S), NoSlash(seg)
    PROVE  Walked(rooted, done, seg) \in Seq(NamesOf(S))
<1> DEFINE N == NamesOf(S)
           stays == seg \in {<<>>, <<".">>} \/ (seg = Up /\ done = <<>> /\ rooted)
           back == seg = Up /\ done # <<>> /\ Last(done) # Up
<1>1. CASE stays
  BY <1>1 DEF Walked
<1>2. CASE ~stays /\ back
  <2>1. done \in Seq(N) /\ done # <<>>
    BY <1>2
  <2>2. Walked(rooted, done, seg) = Front(done)
    BY <1>2 DEF Walked
  <2> HIDE DEF N
  <2>3. Front(done) \in Seq(N)
    BY <2>1, FrontIs
  <2> QED BY <2>2, <2>3 DEF N
<1>3. CASE ~stays /\ ~back
  <2>1. seg \in N
    BY <1>3 DEF NamesOf
  <2>2. Walked(rooted, done, seg) = Append(done, seg)
    BY <1>3 DEF Walked
  <2>3. done \in Seq(N)
    OBVIOUS
  <2> HIDE DEF N
  <2>4. Append(done, seg) \in Seq(N)
    BY <2>1, <2>3, AppendProperties
  <2> QED BY <2>2, <2>4 DEF N
<1> QED BY <1>1, <1>2, <1>3

\* Clean goes along the segments.
KeptAlong(g, p, S) ==
    /\ g \in [0..Len(Segments(p)) -> Seq(NamesOf(S))] /\ g[0] = <<>>
    /\ KeptSegments(p) = g[Len(Segments(p))]
    /\ \A k \in 1..Len(Segments(p)) : g[k] = Walked(Rooted(p), g[k - 1], Segments(p)[k])

\* KeptSegments goes along the segments.
LEMMA KeptChain ==
    ASSUME NEW S, NEW p \in Seq(S)
    PROVE  \E g : KeptAlong(g, p, S)
<1> DEFINE segs == Segments(p)
           n == Len(segs)
           rooted == Rooted(p)
           St == Seq(NamesOf(S))
           step == [x \in St \X (1..n) |-> Walked(rooted, x[1], segs[x[2]])]
           Body(h) == [s \in SUBSET (1..n) |->
                          IF s = {} THEN <<>> ELSE Walked(rooted, h[s \ {Max(s)}], segs[Max(s)])]
           iter == CHOOSE h : h = Body(h)
<1>0. n \in Nat /\ DOMAIN segs = 1..n /\ <<>> \in St /\ \A k \in 1..n : segs[k] \in Seq(S) /\ NoSlash(segs[k])
  <2>1. segs \in Seq(Seq(S)) /\ \A k \in 1..n : segs[k] \in Seq(S) /\ NoSlash(segs[k])
    BY SegmentsNoSlash
  <2> HIDE DEF segs
  <2> QED BY <2>1, EmptySeq, LenProperties
<1> HIDE DEF segs, rooted
<1>1. step \in [St \X (1..n) -> St]
  <2> SUFFICES ASSUME NEW done \in St, NEW k \in 1..n PROVE Walked(rooted, done, segs[k]) \in St
    OBVIOUS
  <2> QED BY <1>0, WalkedType
<1>2. PICK h, g : FoldOf(h, g, n, St, <<>>, step)
  <2> HIDE DEF step, n, St
  <2> QED BY <1>0, <1>1, Chain
<1>3. h \in [SUBSET (1..n) -> St] /\ g \in [0..n -> St] /\ g[0] = <<>>
  BY <1>2 DEF FoldOf
<1>4. \A k \in 1..n : g[k] = Walked(rooted, g[k - 1], segs[k])
  <2> TAKE k \in 1..n
  <2>1. g[k] = step[<<g[k - 1], k>>]
    BY <1>2 DEF FoldOf
  <2>2. k - 1 \in 0..n
    BY <1>0
  <2>3. g[k - 1] \in St
    BY <1>3, <2>2
  <2> HIDE DEF St
  <2> QED BY <2>1, <2>3
<1>5. h = Body(h)
  <2> SUFFICES ASSUME NEW s \in SUBSET (1..n) PROVE h[s] = Body(h)[s]
    BY <1>3
  <2>1. h[s] = IF s = {} THEN <<>> ELSE step[<<h[s \ {Max(s)}], Max(s)>>]
    BY <1>2 DEF FoldOf, IsFold
  <2>2. CASE s = {}
    BY <2>1, <2>2
  <2>3. CASE s # {}
    <3>1. Max(s) \in 1..n
      BY <1>0, <2>3, MaxIn
    <3>2. h[s \ {Max(s)}] \in St
      BY <1>3
    <3> HIDE DEF St
    <3> QED BY <2>1, <2>3, <3>1, <3>2
  <2> QED BY <2>2, <2>3
<1>6. iter = Body(iter)
  <2> HIDE DEF Body
  <2> QED BY <1>5
<1>7. KeptSegments(p) = iter[1..n]
  BY <1>0 DEF KeptSegments, FoldLeft, MapThenFoldSet, segs, rooted
<1> HIDE DEF iter
<1>8. iter[1..n] = g[n]
  <2>1. iter[{}] = <<>>
    BY <1>6
  <2>2. ASSUME NEW s \in SUBSET (1..n), s # {}, iter[s \ {Max(s)}] \in St
        PROVE  iter[s] = step[<<iter[s \ {Max(s)}], Max(s)>>]
    <3>1. Max(s) \in 1..n
      BY <1>0, <2>2, MaxIn
    <3>2. iter[s] = Body(iter)[s]
      BY <1>6
    <3> HIDE DEF St
    <3> QED BY <2>2, <3>1, <3>2
  <2> HIDE DEF step, n, Body, St
  <2>3. Steps(iter, n, St, <<>>, step)
    BY <2>1, <2>2 DEF Steps
  <2> QED BY <1>0, <1>2, <2>3, FoldsAlong
<1>9. KeptAlong(g, p, S)
  BY <1>3, <1>4, <1>7, <1>8 DEF KeptAlong, segs, rooted
<1> QED BY <1>9

\* What is kept of a path: names, of which it is made up again.
LEMMA KeptIs ==
    ASSUME NEW S, "/" \in S, NEW p \in Seq(S)
    PROVE  /\ KeptSegments(p) \in Seq(Seq(S)) /\ Joined(KeptSegments(p)) \in Seq(S)
           /\ KeptSegments(p) # <<>> => /\ Segments(Joined(KeptSegments(p))) = KeptSegments(p)
                                        /\ Joined(KeptSegments(p)) # <<>>
<1> DEFINE kept == KeptSegments(p)
           N == NamesOf(S)
<1>1. kept \in Seq(N)
  <2>1. PICK g : KeptAlong(g, p, S)
    BY KeptChain
  <2>2. Len(Segments(p)) \in Nat
    BY SegmentsNoSlash
  <2>3. Len(Segments(p)) \in 0..Len(Segments(p))
    BY <2>2
  <2> QED BY <2>1, <2>3 DEF KeptAlong
<1> HIDE DEF kept
<1>2. N \subseteq Seq(S)
  BY DEF NamesOf
<1>3. kept \in Seq(Seq(S))
  BY <1>1, <1>2, SeqMonotonic
<1>4. \A k \in 1..Len(kept) : NoSlash(kept[k]) /\ kept[k] # <<>>
  <2> TAKE k \in 1..Len(kept)
  <2>1. kept[k] \in N
    <3> HIDE DEF N
    <3> QED BY <1>1, ElementOfSeq
  <2> QED BY <2>1 DEF NamesOf
<1>5. Joined(kept) \in Seq(S) /\ (kept # <<>> => Segments(Joined(kept)) = kept)
  BY <1>3, <1>4, SegmentsOfJoined
<1>6. ASSUME kept # <<>>, Joined(kept) = <<>> PROVE FALSE
  <2>1. Segments(<<>>) = kept
    BY <1>5, <1>6
  <2>2. Segments(<<>>) = <<<<>>>>
    <3> DEFINE r == <<>>
    <3>1. r \in Seq(S) /\ NoSlash(r)
      BY EmptySeq DEF NoSlash
    <3> HIDE DEF r
    <3>2. Segments(r) = <<r>>
      BY <3>1, SegmentsOfOne
    <3> QED BY <3>2 DEF r
  <2>3. kept = <<<<>>>>
    BY <2>1, <2>2
  <2>4. Len(kept) = 1 /\ kept[1] = <<>>
    BY <2>3
  <2>5. 1 \in 1..Len(kept)
    BY <2>4
  <2> QED BY <1>4, <2>4, <2>5
<1> QED BY <1>3, <1>5, <1>6 DEF kept

-----------------------------------------------------------------------------
(* Globs: at any depth                                                      *)

Starts(s, r) == s # <<>> /\ Head(s) = r

\* The first element stays the first.
LEMMA StartsAppend ==
    ASSUME NEW S, NEW X \in Seq(S), NEW y \in S, X # <<>>
    PROVE  Head(Append(X, y)) = Head(X)
<1>1. Len(X) \in Nat \ {0} /\ Append(X, y) \in Seq(S) /\ Append(X, y)[1] = X[1]
  BY EmptySeq, LenProperties, AppendProperties
<1>2. Append(X, y) # <<>>
  BY FrontLast
<1>3. Head(Append(X, y)) = Append(X, y)[1] /\ Head(X) = X[1]
  BY <1>1, <1>2, HeadTailProperties
<1> QED BY <1>1, <1>3

\* A sequence of some elements is another one and an element.
LEMMA ByLast ==
    ASSUME NEW S, NEW X \in Seq(S), X # <<>>
    PROVE  \E d \in Seq(S), y \in S : X = Append(d, y)
<1> DEFINE d == Front(X)
           y == Last(X)
           n == Len(X)
<1>1. n \in Nat \ {0} /\ X \in [1..n -> S]
  BY EmptySeq, LenProperties
<1>2. d \in Seq(S) /\ Len(d) = n - 1 /\ \A i \in 1..(n - 1) : d[i] = X[i]
  BY FrontIs
<1>3. y = X[n] /\ y \in S
  BY <1>1 DEF Last
<1> HIDE DEF d, y
<1>4. Append(d, y) \in Seq(S) /\ Len(Append(d, y)) = n /\ Append(d, y)[n] = y /\ \A i \in 1..(n - 1) : Append(d, y)[i] = X[i]
  <2>1. n - 1 + 1 = n
    BY <1>1
  <2> HIDE DEF n
  <2> QED BY <2>1, <1>2, <1>3, AppendProperties
<1>5. \A i \in 1..n : Append(d, y)[i] = X[i]
  BY <1>1, <1>3, <1>4
<1>6. Append(d, y) = X
  <2> DEFINE Z == Append(d, y)
  <2>1. Z \in Seq(S) /\ Len(Z) = n /\ \A i \in 1..n : Z[i] = X[i]
    BY <1>4, <1>5
  <2> HIDE DEF Z
  <2>2. Z = X
    BY <2>1, <1>1, SeqEqual
  <2> QED BY <2>2 DEF Z
<1> QED BY <1>2, <1>3, <1>6

\* What is kept after a name is what is kept without it, unless it leads up.
LEMMA WalkedAfter ==
    ASSUME NEW N, NEW done \in Seq(N), NEW seg, NEW r \in N, r # Up,
           Up \in N, seg \notin {<<>>, <<".">>} => seg \in N
    PROVE  /\ Starts(done, Up) => Starts(Walked(FALSE, done, seg), Up)
           /\ \/ Starts(Walked(FALSE, done, seg), Up)
              \/ Walked(FALSE, <<r>> \o done, seg) = <<r>> \o Walked(FALSE, done, seg)
<1> DEFINE W == Walked(FALSE, done, seg)
           longer == <<r>> \o done
<1>1. CASE seg \in {<<>>, <<".">>}
  BY <1>1 DEF Walked
<1>2. CASE seg \notin {<<>>, <<".">>} /\ seg = Up /\ done = <<>>
  <2>1. W = Append(<<>>, Up)
    BY <1>2 DEF Walked
  <2> DEFINE e == Up
  <2>2. Append(<<>>, e) = <<e>> /\ <<e>> # <<>> /\ Head(<<e>>) = e
    <3> HIDE DEF e
    <3> QED OBVIOUS
  <2>3. Starts(W, Up)
    <3> HIDE DEF W
    <3> QED BY <2>1, <2>2 DEF Starts
  <2> QED BY <2>3
<1>3. CASE seg \notin {<<>>, <<".">>} /\ done # <<>>
  <2>1. PICK d \in Seq(N), y \in N : done = Append(d, y)
    BY <1>3, ByLast
  <2>2. Front(done) = d /\ Last(done) = y
    BY <2>1, FrontLast
  <2>3. <<r>> \o d \in Seq(N) /\ longer = Append(<<r>> \o d, y) /\ longer # <<>>
    BY <2>1, AfterHead
  <2>4. Front(longer) = <<r>> \o d /\ Last(longer) = y
    <3> DEFINE b == <<r>> \o d
    <3>1. b \in Seq(N)
      BY <2>3
    <3> HIDE DEF b
    <3>2. Front(Append(b, y)) = b /\ Last(Append(b, y)) = y
      BY <3>1, FrontLast
    <3> QED BY <2>3, <3>2 DEF b
  <2>5. CASE seg = Up /\ y # Up
    <3>1. W = d /\ Walked(FALSE, longer, seg) = <<r>> \o d
      BY <1>3, <2>2, <2>3, <2>4, <2>5 DEF Walked
    <3>2. ASSUME Starts(done, Up) PROVE Starts(d, Up)
      <4>1. CASE d = <<>>
        <5>1. done = <<y>>
          BY <2>1, <4>1
        <5> QED BY <2>5, <3>2, <5>1 DEF Starts
      <4>2. CASE d # <<>>
        <5>1. Head(done) = Head(d)
          BY <2>1, <4>2, StartsAppend
        <5> QED BY <3>2, <4>2, <5>1 DEF Starts
      <4> QED BY <4>1, <4>2
    <3> QED BY <3>1, <3>2
  <2>6. CASE ~(seg = Up /\ y # Up)
    <3>1. W = Append(done, seg) /\ Walked(FALSE, longer, seg) = Append(longer, seg)
      BY <1>3, <2>2, <2>3, <2>4, <2>6 DEF Walked
    <3>2. seg \in N
      BY <1>3
    <3>3. Append(longer, seg) = <<r>> \o Append(done, seg)
      BY <3>2, AfterHead
    <3>4. Head(Append(done, seg)) = Head(done) /\ Append(done, seg) # <<>>
      BY <1>3, <3>2, StartsAppend, FrontLast
    <3> QED BY <3>1, <3>3, <3>4 DEF Starts
  <2> QED BY <2>5, <2>6
<1>4. CASE seg \notin {<<>>, <<".">>} /\ seg # Up /\ done = <<>>
  <2>1. W = Append(done, seg) /\ seg \in N
    BY <1>4 DEF Walked
  <2>2. longer \in Seq(N) /\ longer # <<>> /\ Append(longer, seg) = <<r>> \o Append(done, seg)
    BY <2>1, AfterHead
  <2>3. Walked(FALSE, longer, seg) = Append(longer, seg)
    BY <1>4, <2>2 DEF Walked
  <2>4. ~Starts(done, Up)
    BY <1>4 DEF Starts
  <2> QED BY <2>1, <2>2, <2>3, <2>4
<1> QED BY <1>1, <1>2, <1>3, <1>4

Characters(S) == {"/", "*", "."} \subseteq S

AllFiles == <<"*", "*">>

\* `**` is a name as others are, and not `..`.
LEMMA AllFilesIs ==
    ASSUME NEW S, Characters(S)
    PROVE  /\ AllFiles \in NamesOf(S) /\ AllFiles # Up /\ Up \in NamesOf(S) /\ AllFiles \in Seq(S)
           /\ NoSlash(AllFiles) /\ AnyDepth = AllFiles \o <<"/">>
<1>1. "*" \in S /\ "/" \in S /\ "." \in S
  BY DEF Characters
<1>2. Len(AllFiles) = 2 /\ AllFiles[1] = "*" /\ AllFiles[2] = "*" /\ AllFiles \in Seq(S)
  BY <1>1 DEF AllFiles
<1>3. Len(Up) = 2 /\ Up[1] = "." /\ Up[2] = "." /\ Up \in Seq(S)
  BY <1>1 DEF Up
<1>4. Len(<<".">>) = 1 /\ Len(<<>>) = 0
  OBVIOUS
<1>5. AllFiles # <<>> /\ AllFiles # <<".">> /\ Up # <<>> /\ Up # <<".">> /\ AllFiles # Up
  BY <1>2, <1>3, <1>4
<1>6. \A k \in 1..2 : k = 1 \/ k = 2
  OBVIOUS
<1>7. NoSlash(AllFiles) /\ NoSlash(Up)
  BY <1>2, <1>3, <1>6 DEF NoSlash
<1>8. AnyDepth = AllFiles \o <<"/">>
  BY DEF AnyDepth, AllFiles
<1> HIDE DEF AllFiles, Up
<1> QED BY <1>2, <1>3, <1>5, <1>7, <1>8 DEF NamesOf

\* A path with `**/` put before it.
LEMMA AnyDepthSegments ==
    ASSUME NEW S, Characters(S), NEW p \in Seq(S)
    PROVE  /\ AnyDepth \o p \in Seq(S) /\ ~Rooted(AnyDepth \o p)
           /\ Segments(AnyDepth \o p) = <<AllFiles>> \o Segments(p)
<1> DEFINE r == AllFiles
           s == AnyDepth
           q == s \o p
<1>1. "*" \in S /\ "/" \in S
  BY DEF Characters
<1>2. s \in Seq(S) /\ Len(s) = 3 /\ s[1] = "*"
  BY <1>1 DEF AnyDepth
<1>3. r \in Seq(S) /\ NoSlash(r) /\ s = r \o <<"/">>
  BY AllFilesIs
<1> HIDE DEF r, s
<1>4. Segments(q) = <<r>> \o Segments(p)
  <2>1. Segments((r \o <<"/">>) \o p) = <<r>> \o Segments(p)
    BY <1>1, <1>3, SegmentsBefore
  <2> QED BY <1>3, <2>1
<1>5. q \in Seq(S) /\ IsConcat(q, s, p)
  BY <1>2, ConcatIs
<1> HIDE DEF q
<1>6. q[1] = "*" /\ Len(q) # 0 /\ Len(q) \in Nat
  <2>1. Len(q) = 3 + Len(p) /\ Len(p) \in Nat /\ \A i \in 1..3 : q[i] = s[i]
    BY <1>2, <1>5 DEF IsConcat
  <2>2. 1 \in 1..3
    OBVIOUS
  <2> QED BY <1>2, <2>1, <2>2
<1>7. ~Rooted(q)
  <2>1. q # <<>> /\ Head(q) = q[1]
    BY <1>5, <1>6, EmptySeq, HeadTailProperties
  <2> QED BY <1>6, <2>1 DEF Rooted
<1> QED BY <1>4, <1>5, <1>7 DEF q, s, r

\* Clean keeps it, unless it goes up.
LEMMA KeptAtAnyDepth ==
    ASSUME NEW S, Characters(S), NEW p \in Seq(S), ~Rooted(p)
    PROVE  \/ Starts(KeptSegments(p), Up)
           \/ KeptSegments(AnyDepth \o p) = <<AllFiles>> \o KeptSegments(p)
<1> DEFINE r == AllFiles
           q == AnyDepth \o p
           segs == Segments(p)
           n == Len(segs)
           N == NamesOf(S)
<1>0. /\ r \in N /\ Up \in N /\ r # Up /\ r \in Seq(S) /\ NoSlash(r)
      /\ q \in Seq(S) /\ ~Rooted(q) /\ Segments(q) = <<r>> \o segs
  BY AllFilesIs, AnyDepthSegments
<1> HIDE DEF r, q
<1>1. segs \in Seq(Seq(S)) /\ n \in Nat /\ \A k \in 1..n : segs[k] \in Seq(S) /\ NoSlash(segs[k])
  BY SegmentsNoSlash
<1>2. Len(Segments(q)) = n + 1 /\ Segments(q)[1] = r /\ \A k \in 1..n : Segments(q)[1 + k] = segs[k]
  <2> DEFINE T == Seq(S)
             one == <<r>>
             both == one \o segs
  <2>1. one \in Seq(T) /\ segs \in Seq(T) /\ Len(one) = 1 /\ one[1] = r
    BY <1>0, <1>1
  <2> HIDE DEF T, one, segs
  <2>2. IsConcat(both, one, segs)
    BY <2>1, ConcatIs
  <2> HIDE DEF both
  <2>3. Len(both) = 1 + n /\ (\A i \in 1..1 : both[i] = one[i]) /\ \A i \in 1..n : both[1 + i] = segs[i]
    BY <2>1, <2>2 DEF IsConcat
  <2>4. Segments(q) = both
    BY <1>0 DEF both, one, segs
  <2>5. 1 \in 1..1 /\ 1 + n = n + 1
    BY <1>1 DEF segs
  <2> QED BY <2>1, <2>3, <2>4, <2>5 DEF segs
<1>3. PICK g : KeptAlong(g, p, S)
  BY KeptChain
<1>4. PICK h : KeptAlong(h, q, S)
  BY <1>0, KeptChain
<1> HIDE DEF segs
<1>5. /\ g \in [0..n -> Seq(N)] /\ g[0] = <<>> /\ KeptSegments(p) = g[n]
      /\ \A k \in 1..n : g[k] = Walked(FALSE, g[k - 1], segs[k])
  <2>1. Rooted(p) = FALSE
    BY DEF Rooted
  <2> QED BY <1>3, <2>1 DEF KeptAlong, segs
<1>6. /\ h[0] = <<>> /\ KeptSegments(q) = h[n + 1]
      /\ \A k \in 1..(n + 1) : h[k] = Walked(FALSE, h[k - 1], Segments(q)[k])
  <2>1. Rooted(q) = FALSE
    BY <1>0 DEF Rooted
  <2> QED BY <1>2, <1>4, <2>1 DEF KeptAlong
<1> DEFINE T == {k \in Nat : k <= n => Starts(g[k], Up) \/ h[k + 1] = <<r>> \o g[k]}
<1>7. 0 \in T
  <2>1. h[1] = Walked(FALSE, <<>>, r)
    <3>1. 1 \in 1..(n + 1) /\ 1 - 1 = 0
      BY <1>1
    <3> QED BY <1>2, <1>6, <3>1
  <2>2. r # <<>> /\ r # <<".">>
    BY <1>0 DEF NamesOf
  <2>3. Walked(FALSE, <<>>, r) = Append(<<>>, r)
    BY <1>0, <2>2 DEF Walked
  <2>4. Append(<<>>, r) = <<r>> \o <<>>
    <3> DEFINE one == <<r>>
    <3>1. one \in Seq(N) /\ Append(<<>>, r) = one
      BY <1>0
    <3> HIDE DEF one
    <3>2. one \o <<>> = one
      BY <3>1, ConcatEmptySeq
    <3> QED BY <3>1, <3>2 DEF one
  <2>5. h[1] = <<r>> \o <<>>
    BY <2>1, <2>3, <2>4
  <2>6. h[0 + 1] = <<r>> \o g[0]
    BY <1>5, <2>5
  <2> QED BY <2>6
<1>8. ASSUME NEW k \in T PROVE k + 1 \in T
  <2>1. k \in Nat /\ k + 1 \in Nat
    OBVIOUS
  <2> SUFFICES ASSUME k + 1 <= n PROVE Starts(g[k + 1], Up) \/ h[k + 1 + 1] = <<r>> \o g[k + 1]
    BY <2>1
  <2>2. /\ Starts(g[k], Up) \/ h[k + 1] = <<r>> \o g[k]
        /\ k + 1 \in 1..n /\ k \in 0..n /\ k + 1 - 1 = k
        /\ k + 1 + 1 \in 1..(n + 1) /\ k + 1 + 1 - 1 = k + 1 /\ 1 + (k + 1) = k + 1 + 1
    BY <1>1, <2>1
  <2> HIDE DEF T
  <2> DEFINE done == g[k]
             seg == segs[k + 1]
             d == k + 1
             e == k + 1 + 1
  <2>3. d \in 1..n /\ e \in 1..(n + 1) /\ e - 1 = d /\ d - 1 = k /\ 1 + d = e
    BY <2>2
  <2> HIDE DEF d, e
  <2>4. g[d] = Walked(FALSE, done, segs[d]) /\ h[e] = Walked(FALSE, h[d], segs[d])
    <3>1. h[e] = Walked(FALSE, h[e - 1], Segments(q)[e]) /\ Segments(q)[e] = segs[d]
      BY <1>2, <1>6, <2>3
    <3> QED BY <1>5, <2>3, <3>1
  <2>5. done \in Seq(N) /\ seg \in Seq(S) /\ NoSlash(seg) /\ seg = segs[d]
    BY <1>1, <1>5, <2>2 DEF d
  <2>6. seg \notin {<<>>, <<".">>} => seg \in N
    BY <2>5 DEF NamesOf
  <2>a. Starts(done, Up) \/ h[d] = <<r>> \o done
    BY <2>2 DEF d
  <2> HIDE DEF done, seg, N
  <2>7. /\ Starts(done, Up) => Starts(Walked(FALSE, done, seg), Up)
        /\ \/ Starts(Walked(FALSE, done, seg), Up)
           \/ Walked(FALSE, <<r>> \o done, seg) = <<r>> \o Walked(FALSE, done, seg)
    BY <1>0, <2>5, <2>6, WalkedAfter
  <2>8. Starts(g[d], Up) \/ h[e] = <<r>> \o g[d]
    BY <2>4, <2>5, <2>7, <2>a
  <2> QED BY <2>8 DEF d, e
<1>9. T = Nat
  <2> HIDE DEF T
  <2>1. T \in SUBSET Nat
    BY DEF T
  <2> QED BY <2>1, <1>7, <1>8, NatInd
<1>10. Starts(g[n], Up) \/ h[n + 1] = <<r>> \o g[n]
  <2>1. n \in T
    <3> HIDE DEF T
    <3> QED BY <1>1, <1>9 DEF segs
  <2> QED BY <1>1, <2>1
<1> QED BY <1>5, <1>6, <1>10 DEF q, r

Mapped(path) == [k \in 1..Len(path) |-> IF path[k] = "\\" THEN "/" ELSE path[k]]

\* path.Clean makes a path of the characters of a path.
LEMMA CleanType ==
    ASSUME NEW S, Characters(S), NEW p \in Seq(S)
    PROVE  Clean(p) \in Seq(S)
<1>1. "/" \in S /\ "." \in S
  BY DEF Characters
<1>2. Joined(KeptSegments(p)) \in Seq(S)
  BY <1>1, KeptIs
<1> DEFINE j == Joined(KeptSegments(p))
<1>3. <<"/">> \o j \in Seq(S)
  <2> DEFINE one == <<"/">>
  <2>1. one \in Seq(S) /\ j \in Seq(S)
    BY <1>1, <1>2
  <2> HIDE DEF one, j
  <2>2. one \o j \in Seq(S)
    BY <2>1, ConcatProperties
  <2> QED BY <2>2 DEF one
<1>4. <<".">> \in Seq(S)
  BY <1>1
<1> QED BY <1>2, <1>3, <1>4 DEF Clean

\* normalizeForMatch does too.
LEMMA NormalizeIs ==
    ASSUME NEW S, Characters(S), NEW p \in Seq(S)
    PROVE  /\ Mapped(p) \in Seq(S) /\ Normalize(p) = Clean(Mapped(p)) /\ Normalize(p) \in Seq(S)
<1>1. "/" \in S
  BY DEF Characters
<1>2. Len(p) \in Nat /\ \A k \in 1..Len(p) : p[k] \in S
  BY LenProperties, ElementOfSeq
<1>3. Mapped(p) \in [1..Len(p) -> S]
  BY <1>1, <1>2 DEF Mapped
<1>4. Mapped(p) \in Seq(S)
  <2> HIDE DEF Mapped
  <2> QED BY <1>2, <1>3, SeqDef
<1>5. Normalize(p) = Clean(Mapped(p))
  BY DEF Normalize, Mapped
<1> QED BY <1>4, <1>5, CleanType

\* `**/` has no backslashes.
LEMMA MappedAnyDepth ==
    ASSUME NEW S, Characters(S), NEW p \in Seq(S)
    PROVE  AnyDepth \o p \in Seq(S) /\ Mapped(AnyDepth \o p) = AnyDepth \o Mapped(p)
<1> DEFINE s == AnyDepth
           q == s \o p
           m == Mapped(p)
           t == s \o m
           n == Len(p)
<1>1. "*" \in S /\ "/" \in S
  BY DEF Characters
<1>2. s \in Seq(S) /\ Len(s) = 3 /\ s[1] = "*" /\ s[2] = "*" /\ s[3] = "/"
  BY <1>1 DEF AnyDepth
<1>3. n \in Nat /\ m \in Seq(S) /\ Len(m) = n /\ \A k \in 1..n : m[k] = IF p[k] = "\\" THEN "/" ELSE p[k]
  <2>1. n \in Nat /\ m \in Seq(S)
    BY NormalizeIs, LenProperties
  <2>2. DOMAIN m = 1..n /\ DOMAIN m = 1..Len(m) /\ Len(m) \in Nat
    <3>1. DOMAIN m = 1..n
      BY DEF Mapped
    <3> HIDE DEF m
    <3> QED BY <2>1, <3>1, LenProperties
  <2>3. Len(m) = n
    BY <2>1, <2>2
  <2> QED BY <2>1, <2>3 DEF Mapped
<1> HIDE DEF s, m
<1>4. q \in Seq(S) /\ IsConcat(q, s, p) /\ t \in Seq(S) /\ IsConcat(t, s, m)
  BY <1>2, <1>3, ConcatIs
<1> HIDE DEF q, t
<1>5. /\ Len(q) = 3 + n /\ (\A i \in 1..3 : q[i] = s[i]) /\ (\A i \in 1..n : q[3 + i] = p[i])
      /\ Len(t) = 3 + n /\ (\A i \in 1..3 : t[i] = s[i]) /\ \A i \in 1..n : t[3 + i] = m[i]
  BY <1>2, <1>3, <1>4 DEF IsConcat
<1>6. \A i \in 1..(3 + n) : Mapped(q)[i] = t[i]
  <2> SUFFICES ASSUME NEW i \in 1..(3 + n) PROVE (IF q[i] = "\\" THEN "/" ELSE q[i]) = t[i]
    BY <1>5 DEF Mapped
  <2>1. CASE i <= 3
    <3>1. i \in 1..3 /\ (i = 1 \/ i = 2 \/ i = 3)
      BY <1>3, <2>1
    <3>2. q[i] = s[i] /\ t[i] = s[i] /\ s[i] # "\\"
      BY <1>2, <1>5, <3>1
    <3> QED BY <3>2
  <2>2. CASE ~(i <= 3)
    <3> DEFINE e == i - 3
    <3>1. e \in 1..n /\ 3 + e = i
      BY <1>3, <2>2
    <3> HIDE DEF e
    <3>2. q[3 + e] = p[e] /\ t[3 + e] = m[e] /\ m[e] = IF p[e] = "\\" THEN "/" ELSE p[e]
      BY <1>3, <1>5, <3>1
    <3> QED BY <3>1, <3>2
  <2> QED BY <2>1, <2>2
<1>7. Mapped(q) = t
  <2> DEFINE u == Mapped(q)
  <2>1. u \in Seq(S) /\ t \in Seq(S) /\ DOMAIN u = 1..(3 + n)
    BY <1>4, <1>5, NormalizeIs DEF Mapped
  <2>2. \A i \in 1..(3 + n) : u[i] = t[i]
    BY <1>6
  <2> HIDE DEF u
  <2>3. Len(u) = 3 + n
    BY <1>3, <2>1, LenProperties
  <2>4. u = t
    BY <1>5, <2>1, <2>2, <2>3, SeqEqual
  <2> QED BY <2>4 DEF u
<1> QED BY <1>4, <1>7 DEF q, t, s, m

\* A relative path: it is what is kept of it, at any depth too.
Relative(segs) == Head(segs) \notin {<<>>, <<".">>, Up}

\* A relative path is made up of the segments that are kept of it.
LEMMA RelativeKept ==
    ASSUME NEW S, Characters(S), NEW p \in Seq(S), Relative(Segments(Clean(p)))
    PROVE  /\ ~Rooted(p) /\ KeptSegments(p) # <<>>
           /\ Segments(Clean(p)) = KeptSegments(p)
<1> DEFINE kept == KeptSegments(p)
           j == Joined(kept)
<1>1. "/" \in S /\ "." \in S
  BY DEF Characters
<1>2. kept \in Seq(Seq(S)) /\ j \in Seq(S) /\ (kept # <<>> => Segments(j) = kept)
  BY <1>1, KeptIs
<1>3. ASSUME Rooted(p) PROVE FALSE
  <2>1. Clean(p) = <<"/">> \o j
    BY <1>3 DEF Clean
  <2> HIDE DEF j
  <2> DEFINE e == <<>>
             T == Seq(S)
             X == Segments(j)
  <2>2. e \in Seq(S) /\ NoSlash(e) /\ e \o <<"/">> = <<"/">>
    <3>1. <<"/">> \in Seq(S)
      BY <1>1
    <3> DEFINE one == <<"/">>
    <3>2. one \in Seq(S)
      BY <3>1
    <3> HIDE DEF one
    <3>3. <<>> \o one = one
      BY <3>2, ConcatEmptySeq
    <3> QED BY <3>3, EmptySeq DEF NoSlash, one
  <2> HIDE DEF e
  <2>3. Segments((e \o <<"/">>) \o j) = <<e>> \o X
    BY <1>1, <1>2, <2>2, SegmentsBefore
  <2>4. X \in Seq(T) /\ e \in T
    BY <1>2, <2>2, SegmentsNoSlash
  <2> HIDE DEF T, X
  <2>5. Head(<<e>> \o X) = e
    BY <2>4, AfterHead
  <2> QED BY <2>1, <2>2, <2>3, <2>5 DEF Relative, e
<1>4. ASSUME ~Rooted(p), kept = <<>> PROVE FALSE
  <2> DEFINE r == <<".">>
  <2>1. Clean(p) = r
    BY <1>4 DEF Clean
  <2>2. r \in Seq(S) /\ Len(r) = 1 /\ r[1] = "."
    BY <1>1
  <2> HIDE DEF r
  <2>3. NoSlash(r)
    BY <2>2 DEF NoSlash
  <2>4. Segments(r) = <<r>>
    BY <2>2, <2>3, SegmentsOfOne
  <2>5. Head(<<r>>) = r
    OBVIOUS
  <2> QED BY <2>1, <2>4, <2>5 DEF Relative, r
<1>5. Clean(p) = j
  BY <1>3, <1>4 DEF Clean
<1> QED BY <1>2, <1>3, <1>4, <1>5

\* `**/` before a relative path stays before it.
LEMMA CleanAtAnyDepth ==
    ASSUME NEW S, Characters(S), NEW p \in Seq(S), Relative(Segments(Clean(p)))
    PROVE  Segments(Clean(AnyDepth \o p)) = <<AllFiles>> \o Segments(Clean(p))
<1> DEFINE kept == KeptSegments(p)
           q == AnyDepth \o p
           keptq == KeptSegments(q)
<1>1. ~Rooted(p) /\ kept # <<>> /\ Segments(Clean(p)) = kept
  BY RelativeKept
<1>2. ~Starts(kept, Up)
  BY <1>1 DEF Relative, Starts
<1>3. keptq = <<AllFiles>> \o kept
  BY <1>1, <1>2, KeptAtAnyDepth
<1>4. q \in Seq(S) /\ ~Rooted(q) /\ "/" \in S
  BY AnyDepthSegments DEF Characters
<1> HIDE DEF q
<1>5. keptq # <<>>
  <2> DEFINE T == Seq(S)
             r == AllFiles
  <2>1. kept \in Seq(T) /\ r \in T
    BY <1>4, KeptIs, AllFilesIs
  <2> HIDE DEF T, r, kept
  <2>2. <<r>> \o kept # <<>>
    BY <2>1, AfterHead
  <2> QED BY <1>3, <2>2 DEF r
<1>6. Segments(Joined(keptq)) = keptq
  BY <1>4, <1>5, KeptIs
<1>7. Clean(q) = Joined(keptq)
  BY <1>4, <1>5 DEF Clean
<1> QED BY <1>1, <1>3, <1>6, <1>7 DEF q

\* A run of a path's segments matches a segment of a pattern.
RunMatches(seg, final, names, from, to) ==
    IF seg = AllFiles THEN from <= to /\ (final => from < to)
    ELSE to = from + 1 /\ NameMatches(seg, names[to])

\* The path is cut into runs that match.
CutMatches(cut, n, m, segs, names) ==
    /\ cut \in [0..n -> 0..m] /\ cut[0] = 0 /\ cut[n] = m
    /\ \A i \in 1..n : RunMatches(segs[i], i = n, names, cut[i - 1], cut[i])

\* PathMatches, by its cuts.
LEMMA PathCut ==
    ASSUME NEW segs, NEW names
    PROVE  PathMatches(segs, names) <=> \E cut : CutMatches(cut, Len(segs), Len(names), segs, names)
BY DEF PathMatches, CutMatches, RunMatches, AllFiles

\* The same runs, of a longer path.
LEMMA RunLater ==
    ASSUME NEW seg, NEW final, NEW names, NEW later, NEW m \in Nat, NEW k \in Nat \ {0},
           \A x \in 1..m : later[x] = names[k + x - 1], NEW from \in 0..m, NEW to \in 0..m,
           RunMatches(seg, final, later, from, to)
    PROVE  RunMatches(seg, final, names, from + k - 1, to + k - 1)
<1>1. CASE seg = AllFiles
  BY <1>1 DEF RunMatches
<1>2. CASE seg # AllFiles
  <2>1. to = from + 1 /\ NameMatches(seg, later[to])
    BY <1>2 DEF RunMatches
  <2>2. to \in 1..m /\ k + to - 1 = to + k - 1 /\ to + k - 1 = from + k - 1 + 1
    BY <2>1
  <2>3. later[to] = names[to + k - 1]
    BY <2>2
  <2> QED BY <1>2, <2>1, <2>2, <2>3 DEF RunMatches
<1> QED BY <1>1, <1>2

\* A path is matched at any depth if some last segments of it are.
LEMMA LaterMatches ==
    ASSUME NEW S, NEW segs \in Seq(S), segs # <<>>, NEW r \in S, r = AllFiles, NEW T, NEW names \in Seq(T),
           NEW k \in 1..Len(names), PathMatches(segs, SubSeq(names, k, Len(names)))
    PROVE  /\ PathMatches(<<r>> \o segs, names)
           /\ Head(segs) = r => PathMatches(segs, names)
<1> DEFINE N == Len(names)
           n == Len(segs)
           later == SubSeq(names, k, N)
           m == N - k + 1
           both == <<r>> \o segs
<1>1. N \in Nat /\ n \in Nat \ {0} /\ m \in Nat /\ k \in Nat \ {0} /\ k + m - 1 = N
  BY EmptySeq, LenProperties
<1>2. Len(later) = m /\ \A x \in 1..m : later[x] = names[k + x - 1]
  <2>1. \A i \in k..N : names[i] \in T
    <3>1. \A i \in k..N : i \in 1..Len(names)
      BY <1>1
    <3> QED BY <3>1, ElementOfSeq
  <2>2. k \in Int /\ N \in Int /\ k <= N
    BY <1>1
  <2> QED BY <2>1, <2>2, SubSeqProperties
<1>3. PICK cut : CutMatches(cut, n, m, segs, later)
  BY <1>2, PathCut
<1> HIDE DEF later, m
<1>4. /\ \A i \in 0..n : cut[i] \in 0..m
      /\ cut[0] = 0 /\ cut[n] = m
      /\ \A i \in 1..n : RunMatches(segs[i], i = n, later, cut[i - 1], cut[i])
  BY <1>3 DEF CutMatches
<1>5. Len(both) = n + 1 /\ both[1] = r /\ \A i \in 1..n : both[i + 1] = segs[i]
  <2> DEFINE one == <<r>>
  <2>1. one \in Seq(S) /\ Len(one) = 1 /\ one[1] = r
    OBVIOUS
  <2> HIDE DEF one
  <2>2. IsConcat(one \o segs, one, segs)
    BY <2>1, ConcatIs
  <2>3. both = one \o segs
    BY DEF one
  <2> HIDE DEF both
  <2>4. Len(both) = 1 + n /\ (\A i \in 1..1 : both[i] = one[i]) /\ \A i \in 1..n : both[1 + i] = segs[i]
    BY <2>1, <2>2, <2>3 DEF IsConcat
  <2>5. 1 \in 1..1 /\ \A i \in 1..n : 1 + i = i + 1
    BY <1>1
  <2> QED BY <1>1, <2>1, <2>4, <2>5
<1> HIDE DEF both, n, N
<1>6. \A i \in 0..n : cut[i] + k - 1 \in 0..N
  <2> TAKE i \in 0..n
  <2>1. cut[i] \in 0..m
    BY <1>4
  <2> QED BY <1>1, <2>1
<1>7. ASSUME NEW i \in 1..n
      PROVE  RunMatches(segs[i], i = n, names, cut[i - 1] + k - 1, cut[i] + k - 1)
  <2>1. i - 1 \in 0..n /\ i \in 0..n
    BY <1>1
  <2>2. cut[i - 1] \in 0..m /\ cut[i] \in 0..m /\ RunMatches(segs[i], i = n, later, cut[i - 1], cut[i])
    BY <1>4, <2>1
  <2> QED BY <1>1, <1>2, <2>2, RunLater
<1>8. PathMatches(both, names)
  <2> DEFINE cut2 == [i \in 0..(n + 1) |-> IF i = 0 THEN 0 ELSE cut[i - 1] + k - 1]
  <2>1. cut2 \in [0..(n + 1) -> 0..N]
    <3> SUFFICES ASSUME NEW i \in 0..(n + 1), i # 0 PROVE cut[i - 1] + k - 1 \in 0..N
      BY <1>1
    <3>1. i - 1 \in 0..n
      BY <1>1
    <3> QED BY <1>6, <3>1
  <2>2. cut2[0] = 0 /\ \A i \in 0..n : cut2[i + 1] = cut[i] + k - 1
    <3>1. \A i \in 0..n : i + 1 \in 0..(n + 1) /\ i + 1 # 0 /\ i + 1 - 1 = i
      BY <1>1
    <3>2. 0 \in 0..(n + 1)
      BY <1>1
    <3> QED BY <3>1, <3>2
  <2> HIDE DEF cut2
  <2>3. cut2[n + 1] = N
    <3>1. n \in 0..n /\ m + k - 1 = N
      BY <1>1
    <3> QED BY <1>4, <2>2, <3>1
  <2>4. ASSUME NEW i \in 1..(n + 1)
        PROVE  RunMatches(both[i], i = n + 1, names, cut2[i - 1], cut2[i])
    <3>1. CASE i = 1
      <4>1. cut2[1] = 0 + k - 1 /\ cut2[1 - 1] = 0
        <5>1. 0 \in 0..n /\ 0 + 1 = 1 /\ 1 - 1 = 0
          BY <1>1
        <5> QED BY <1>4, <2>2, <5>1
      <4>2. ~(1 = n + 1) /\ 0 <= 0 + k - 1
        BY <1>1
      <4> QED BY <1>5, <3>1, <4>1, <4>2 DEF RunMatches
    <3>2. CASE i # 1
      <4> DEFINE j == i - 1
      <4>1. j \in 1..n /\ j + 1 = i /\ (j = n <=> i = n + 1) /\ j - 1 \in 0..n /\ j - 1 + 1 = i - 1 /\ j \in 0..n
        BY <1>1, <3>2
      <4> HIDE DEF j
      <4>2. RunMatches(segs[j], j = n, names, cut[j - 1] + k - 1, cut[j] + k - 1)
        BY <1>7, <4>1
      <4>3. both[i] = segs[j] /\ cut2[i] = cut[j] + k - 1 /\ cut2[i - 1] = cut[j - 1] + k - 1
        <5>1. cut2[j + 1] = cut[j] + k - 1 /\ cut2[j - 1 + 1] = cut[j - 1] + k - 1
          BY <2>2, <4>1
        <5> QED BY <1>5, <4>1, <5>1
      <4> QED BY <4>1, <4>2, <4>3
    <3> QED BY <3>1, <3>2
  <2>5. CutMatches(cut2, n + 1, N, both, names)
    BY <2>1, <2>2, <2>3, <2>4 DEF CutMatches
  <2> QED BY <1>5, <2>5, PathCut DEF N
<1>9. ASSUME Head(segs) = r PROVE PathMatches(segs, names)
  <2> DEFINE cut3 == [i \in 0..n |-> IF i = 0 THEN 0 ELSE cut[i] + k - 1]
  <2>0. segs[1] = r
    <3>1. Head(segs) = segs[1]
      BY HeadTailProperties
    <3> QED BY <1>9, <3>1
  <2>1. cut3 \in [0..n -> 0..N]
    BY <1>1, <1>6
  <2>2. cut3[0] = 0 /\ \A i \in 1..n : cut3[i] = cut[i] + k - 1
    <3>1. \A i \in 1..n : i \in 0..n /\ i # 0
      BY <1>1
    <3>2. 0 \in 0..n
      BY <1>1
    <3> QED BY <3>1, <3>2
  <2> HIDE DEF cut3
  <2>3. cut3[n] = N
    <3>1. n \in 1..n /\ m + k - 1 = N
      BY <1>1
    <3> QED BY <1>4, <2>2, <3>1
  <2>4. ASSUME NEW i \in 1..n
        PROVE  RunMatches(segs[i], i = n, names, cut3[i - 1], cut3[i])
    <3>1. CASE i = 1
      <4>1. 1 \in 1..n /\ 1 - 1 = 0 /\ 1 \in 0..n
        BY <1>1
      <4>2. cut3[1] = cut[1] + k - 1 /\ cut3[1 - 1] = 0 /\ cut[1] \in 0..m
        BY <1>4, <2>2, <4>1
      <4>3. RunMatches(segs[1], 1 = n, later, cut[1 - 1], cut[1]) /\ cut[1 - 1] = 0
        BY <1>4, <4>1
      <4>4. 1 = n => 0 < cut[1]
        BY <2>0, <4>3 DEF RunMatches
      <4> DEFINE d == cut[1]
      <4>5. d \in Nat /\ (1 = n => 0 < d)
        BY <4>2, <4>4
      <4> HIDE DEF d
      <4>6. 0 <= d + k - 1 /\ (1 = n => 0 < d + k - 1)
        BY <1>1, <4>5
      <4> QED BY <2>0, <3>1, <4>2, <4>6 DEF RunMatches, d
    <3>2. CASE i # 1
      <4>1. i - 1 \in 1..n
        BY <1>1, <3>2
      <4> QED BY <1>7, <2>2, <4>1
    <3> QED BY <3>1, <3>2
  <2>5. CutMatches(cut3, n, N, segs, names)
    BY <2>1, <2>2, <2>3, <2>4 DEF CutMatches
  <2> QED BY <2>5, PathCut DEF N, n
<1> QED BY <1>8, <1>9 DEF both

\* MatchesBySegments for any glob and path of any length.
LEMMA BySegments ==
    ASSUME NEW pattern \in Seq(PathChar), NEW path \in Seq(PathChar)
    PROVE  MatchesBySegments(pattern, path)
<1>1. Normalize(pattern) \in Seq(PathChar) /\ Normalize(path) \in Seq(PathChar)
  BY PathCharAssumption, NormalizeIs DEF Characters
<1> DEFINE a == Normalize(pattern)
           b == Normalize(path)
<1>2. a \in Seq(PathChar) /\ b \in Seq(PathChar)
  BY <1>1
<1>3. MatchGlob(pattern, path) <=> GlobMatch(a, b)
  BY DEF MatchGlob
<1>4. MatchesBySegments(pattern, path) <=>
          ((\A i \in 1..Len(Segments(a)) : WholeStars(Segments(a)[i])) =>
              /\ PathMatches(Segments(a), Segments(b)) => MatchGlob(pattern, path)
              /\ Anchored(Segments(a)) => (MatchGlob(pattern, path) => PathMatches(Segments(a), Segments(b))))
  BY DEF MatchesBySegments
<1> HIDE DEF a, b
<1> QED BY <1>2, <1>3, <1>4, GlobBySegments

\* A relative pattern with `**/` put before it.
LEMMA NormalizeAtAnyDepth ==
    ASSUME NEW S, Characters(S), NEW pattern \in Seq(S), Relative(Segments(Normalize(pattern)))
    PROVE  /\ AnyDepth \o pattern \in Seq(S)
           /\ Segments(Normalize(AnyDepth \o pattern)) = <<AllFiles>> \o Segments(Normalize(pattern))
           /\ pattern = <<>> \/ Head(pattern) # "/"
<1> DEFINE m == Mapped(pattern)
           q == AnyDepth \o pattern
<1>1. m \in Seq(S) /\ Normalize(pattern) = Clean(m)
  BY NormalizeIs
<1>2. q \in Seq(S) /\ Mapped(q) = AnyDepth \o m
  BY MappedAnyDepth
<1> HIDE DEF q
<1>3. Normalize(q) = Clean(Mapped(q))
  BY <1>2, NormalizeIs
<1>4. ~Rooted(m) /\ Segments(Clean(AnyDepth \o m)) = <<AllFiles>> \o Segments(Clean(m))
  <2> HIDE DEF m
  <2> QED BY <1>1, RelativeKept, CleanAtAnyDepth
<1>5. ASSUME pattern # <<>>, Head(pattern) = "/" PROVE FALSE
  <2>1. Len(pattern) \in Nat \ {0} /\ pattern[1] = "/"
    BY <1>5, EmptySeq, LenProperties, HeadTailProperties
  <2>2. m[1] = "/" /\ DOMAIN m = 1..Len(pattern)
    BY <2>1 DEF Mapped
  <2> HIDE DEF m
  <2>3. m # <<>> /\ Head(m) = m[1]
    <3>1. Len(m) # 0
      BY <1>1, <2>1, <2>2, LenProperties
    <3> QED BY <1>1, <3>1, EmptySeq, HeadTailProperties
  <2> QED BY <1>4, <2>2, <2>3 DEF Rooted
<1> QED BY <1>1, <1>2, <1>3, <1>4, <1>5 DEF q

\* MatchesAtAnyDepth for any glob and path of any length.
LEMMA AtAnyDepth ==
    ASSUME NEW pattern \in Seq(PathChar), NEW path \in Seq(PathChar)
    PROVE  MatchesAtAnyDepth(pattern, path)
<1> DEFINE S == PathChar
           a == Normalize(pattern)
           b == Normalize(path)
           segs == Segments(a)
           names == Segments(b)
           q == AnyDepth \o pattern
           c == Normalize(q)
           N == Len(names)
           Here == MatchesSetting(pattern, path) /\ (~StarAt(pattern, 1) => MatchesEntry(pattern, path))
<1> SUFFICES ASSUME pattern # <<>>, Relative(segs), TwoStarsAt(pattern, 1) => Head(segs) = AllFiles,
                    \A i \in 1..Len(segs) : WholeStars(segs[i]),
                    NEW k \in 1..N, PathMatches(segs, SubSeq(names, k, N))
             PROVE  Here
  BY DEF MatchesAtAnyDepth, Relative, AllFiles
<1>1. Characters(S) /\ pattern \in Seq(S) /\ path \in Seq(S)
  BY PathCharAssumption DEF Characters
<1> HIDE DEF S
<1>2. a \in Seq(S) /\ b \in Seq(S)
  BY <1>1, NormalizeIs
<1>3. /\ q \in Seq(S) /\ Segments(c) = <<AllFiles>> \o segs
      /\ pattern = <<>> \/ Head(pattern) # "/"
  BY <1>1, NormalizeAtAnyDepth
<1> HIDE DEF q
<1>4. c \in Seq(S)
  BY <1>1, <1>3, NormalizeIs
<1>5. segs \in Seq(Seq(S)) /\ segs # <<>> /\ names \in Seq(Seq(S)) /\ Len(segs) \in Nat
  BY <1>2, SegmentsNoSlash
<1>6. MatchGlob(pattern, path) <=> GlobMatch(a, b)
  BY DEF MatchGlob
<1>7. MatchGlob(q, path) <=> GlobMatch(c, b)
  BY DEF MatchGlob
<1>8. /\ PathMatches(<<AllFiles>> \o segs, names)
      /\ Head(segs) = AllFiles => PathMatches(segs, names)
  <2> DEFINE T == Seq(S)
             r == AllFiles
  <2>1. segs \in Seq(T) /\ segs # <<>> /\ r \in T /\ r = AllFiles /\ names \in Seq(T)
    BY <1>1, <1>5, AllFilesIs
  <2>2. k \in 1..Len(names) /\ PathMatches(segs, SubSeq(names, k, Len(names)))
    OBVIOUS
  <2> HIDE DEF T, r, segs, names
  <2> QED BY <2>1, <2>2, LaterMatches
<1>9. CASE TwoStarsAt(pattern, 1)
  <2>1. PathMatches(segs, names)
    BY <1>8, <1>9
  <2> HIDE DEF a, b
  <2>2. GlobMatch(a, b)
    BY <1>2, <2>1, GlobBySegments
  <2> QED BY <1>6, <2>2 DEF MatchesSetting, MatchesEntry
<1>10. CASE ~TwoStarsAt(pattern, 1)
  <2>1. PathMatches(Segments(c), names)
    BY <1>3, <1>8
  <2>2. \A i \in 1..Len(Segments(c)) : WholeStars(Segments(c)[i])
    <3> DEFINE T == Seq(S)
               r == AllFiles
               one == <<r>>
               both == one \o segs
    <3>1. one \in Seq(T) /\ segs \in Seq(T) /\ Len(one) = 1 /\ one[1] = r /\ Segments(c) = both
      BY <1>1, <1>3, <1>5, AllFilesIs
    <3> DEFINE n == Len(segs)
    <3>2. n \in Nat /\ \A i \in 1..n : WholeStars(segs[i])
      BY <1>5
    <3>3. WholeStars(r)
      BY DEF WholeStars, AllFiles
    <3> HIDE DEF T, one, r, segs, c
    <3>4. IsConcat(both, one, segs)
      BY <3>1, ConcatIs
    <3> HIDE DEF both
    <3>5. Len(both) = 1 + n /\ (\A i \in 1..1 : both[i] = one[i]) /\ \A i \in 1..n : both[1 + i] = segs[i]
      BY <3>1, <3>4 DEF IsConcat
    <3> HIDE DEF n
    <3>6. ASSUME NEW i \in 1..(1 + n) PROVE WholeStars(both[i])
      <4>1. CASE i = 1
        <5>1. 1 \in 1..1
          OBVIOUS
        <5> QED BY <3>1, <3>3, <3>5, <4>1, <5>1
      <4>2. CASE i # 1
        <5>1. i - 1 \in 1..n /\ 1 + (i - 1) = i
          BY <3>2, <4>2
        <5>2. both[i] = segs[i - 1]
          BY <3>5, <5>1
        <5> QED BY <3>2, <5>1, <5>2
      <4> QED BY <4>1, <4>2
    <3> QED BY <3>1, <3>5, <3>6
  <2> HIDE DEF c, b
  <2>3. GlobMatch(c, b)
    BY <1>2, <1>4, <2>1, <2>2, GlobBySegments
  <2>4. MatchGlob(AnyDepth \o pattern, path)
    BY <1>7, <2>3 DEF q
  <2> QED BY <1>3, <1>10, <2>4 DEF MatchesSetting, MatchesEntry
<1> QED BY <1>9, <1>10

\* glob.go:8, catalog.go:132, resolver.go:150: whatever the glob and however long the
\* path, backtracking over `**` finds a match where the segments match, and none else.
THEOREM GlobsMatch == Questioning => []GlobsMatchSegments
<1> DEFINE Ask == question \in GlobQuestion \cup PointerQuestion
<1>1. Questioning => Ask /\ [][UNCHANGED question]_question
  BY DEF Questioning
<1>2. Ask /\ [UNCHANGED question]_question => Ask'
  OBVIOUS
<1>3. Ask => GlobsMatchSegments
  <2> SUFFICES ASSUME Ask, About("glob")
               PROVE  /\ MatchesBySegments(question.pattern, question.path)
                      /\ MatchesAtAnyDepth(question.pattern, question.path)
    BY DEF GlobsMatchSegments
  <2>1. question.pattern \in Seq(PathChar) /\ question.path \in Seq(PathChar)
    BY DEF About, GlobQuestion, PointerQuestion
  <2> HIDE DEF Ask
  <2> QED BY <2>1, BySegments, AtAnyDepth
<1> QED BY <1>1, <1>2, <1>3, PTL

-----------------------------------------------------------------------------
(* Pointers: one thing replaced by another                                  *)

Replacements(S) == [next : Nat, out : Seq(S)]

\* ReplaceEach goes along the places of s.
ReplaceAlong(g, s, old, new, S) ==
    /\ g \in [0..Len(s) -> Replacements(S)] /\ g[0] = [next |-> 1, out |-> <<>>]
    /\ ReplaceEach(s, old, new) = g[Len(s)].out
    /\ \A k \in 1..Len(s) : g[k] = ReplacedAt(s, old, new, g[k - 1], k)

\* It does so.
LEMMA ReplaceStepType ==
    ASSUME NEW S, NEW s \in Seq(S), NEW old \in Seq(S), NEW new \in Seq(S),
           NEW t \in Replacements(S), NEW i \in 1..Len(s)
    PROVE  ReplacedAt(s, old, new, t, i) \in Replacements(S)
<1>1. Len(old) \in Nat /\ Len(s) \in Nat /\ s[i] \in S /\ t.next \in Nat /\ t.out \in Seq(S)
  BY LenProperties, ElementOfSeq DEF Replacements
<1>2. t.out \o new \in Seq(S)
  BY <1>1, ConcatProperties
<1>3. Append(t.out, s[i]) \in Seq(S)
  BY <1>1, AppendProperties
<1>4. i + Len(old) \in Nat /\ i + 1 \in Nat
  BY <1>1
<1> DEFINE a == t.out \o new
           b == Append(t.out, s[i])
<1>5. a \in Seq(S) /\ b \in Seq(S)
  BY <1>2, <1>3
<1>6. ReplacedAt(s, old, new, t, i) \in {t, [next |-> i + Len(old), out |-> a], [next |-> i + 1, out |-> b]}
  BY DEF ReplacedAt
<1> HIDE DEF a, b
<1> QED BY <1>4, <1>5, <1>6 DEF Replacements

\* ReplaceEach is a fold.
LEMMA ReplaceChain ==
    ASSUME NEW S, NEW s \in Seq(S), NEW old \in Seq(S), NEW new \in Seq(S)
    PROVE  \E g : ReplaceAlong(g, s, old, new, S)
<1> DEFINE n == Len(s)
           St == Replacements(S)
           base == [next |-> 1, out |-> <<>>]
           ks == [k \in 1..n |-> k]
           step == [x \in St \X (1..n) |-> ReplacedAt(s, old, new, x[1], x[2])]
           Body(h) == [d \in SUBSET (1..n) |->
                          IF d = {} THEN base ELSE ReplacedAt(s, old, new, h[d \ {Max(d)}], ks[Max(d)])]
           iter == CHOOSE h : h = Body(h)
<1>0. n \in Nat /\ DOMAIN ks = 1..n /\ base \in St /\ \A k \in 1..n : ks[k] = k
  BY EmptySeq, LenProperties DEF Replacements
<1>1. step \in [St \X (1..n) -> St]
  BY ReplaceStepType
<1>2. PICK h, g : FoldOf(h, g, n, St, base, step)
  <2> HIDE DEF step, n, St, base
  <2> QED BY <1>0, <1>1, Chain
<1>3. h \in [SUBSET (1..n) -> St] /\ g \in [0..n -> St] /\ g[0] = base
  BY <1>2 DEF FoldOf
<1>4. \A k \in 1..n : g[k] = ReplacedAt(s, old, new, g[k - 1], k)
  <2> TAKE k \in 1..n
  <2>1. g[k] = step[<<g[k - 1], k>>]
    BY <1>2 DEF FoldOf
  <2>2. k - 1 \in 0..n
    BY <1>0
  <2>3. g[k - 1] \in St
    BY <1>3, <2>2
  <2> HIDE DEF St
  <2> QED BY <2>1, <2>3
<1>5. h = Body(h)
  <2> SUFFICES ASSUME NEW d \in SUBSET (1..n) PROVE h[d] = Body(h)[d]
    BY <1>3
  <2>1. h[d] = IF d = {} THEN base ELSE step[<<h[d \ {Max(d)}], Max(d)>>]
    BY <1>2 DEF FoldOf, IsFold
  <2>2. CASE d = {}
    BY <2>1, <2>2
  <2>3. CASE d # {}
    <3>1. Max(d) \in 1..n
      BY <1>0, <2>3, MaxIn
    <3>2. h[d \ {Max(d)}] \in St
      BY <1>3
    <3>3. ks[Max(d)] = Max(d)
      BY <3>1
    <3> HIDE DEF St, ks
    <3> QED BY <2>1, <2>3, <3>1, <3>2, <3>3
  <2> QED BY <2>2, <2>3
<1>6. iter = Body(iter)
  <2> HIDE DEF Body
  <2> QED BY <1>5
<1>7. ReplaceEach(s, old, new) = iter[1..n].out
  BY <1>0 DEF ReplaceEach, FoldLeft, MapThenFoldSet
<1> HIDE DEF iter
<1>8. iter[1..n] = g[n]
  <2>1. iter[{}] = base
    BY <1>6
  <2>2. ASSUME NEW d \in SUBSET (1..n), d # {}, iter[d \ {Max(d)}] \in St
        PROVE  iter[d] = step[<<iter[d \ {Max(d)}], Max(d)>>]
    <3>1. Max(d) \in 1..n
      BY <1>0, <2>2, MaxIn
    <3>2. iter[d] = Body(iter)[d]
      BY <1>6
    <3>3. ks[Max(d)] = Max(d)
      BY <3>1
    <3> HIDE DEF St, ks
    <3> QED BY <2>2, <3>1, <3>2, <3>3
  <2> HIDE DEF step, n, Body, St, base
  <2>3. Steps(iter, n, St, base, step)
    BY <2>1, <2>2 DEF Steps
  <2> QED BY <1>0, <1>2, <2>3, FoldsAlong
<1>9. ReplaceAlong(g, s, old, new, S)
  BY <1>3, <1>4, <1>7, <1>8 DEF ReplaceAlong
<1> QED BY <1>9

\* One element in place of another is some of it, or itself.
Written(s, x, new, k) == IF s[k] = x THEN new ELSE <<s[k]>>

\* out goes through what is written for the beginnings of s.
Expands(out, s, x, new, S) ==
    /\ out \in [0..Len(s) -> Seq(S)] /\ out[0] = <<>>
    /\ ReplaceEach(s, <<x>>, new) = out[Len(s)]
    /\ \A k \in 1..Len(s) : out[k] = out[k - 1] \o Written(s, x, new, k)

\* The piece at one place.
LEMMA OneAt ==
    ASSUME NEW S, NEW s \in Seq(S), NEW i \in 1..Len(s)
    PROVE  SubSeq(s, i, i) = <<s[i]>>
<1>1. Len(s) \in Nat /\ i \in Int /\ i \in i..Len(s) /\ s[i] \in S
  BY LenProperties, ElementOfSeq
<1>2. SubSeq(s, i, i) = SubSeq(s, i, i - 1) \o <<s[i]>>
  BY <1>1, SubSeqRecursiveSecond
<1>3. SubSeq(s, i, i - 1) = <<>>
  BY <1>1, SubSeqEmpty
<1>4. <<s[i]>> \in Seq(S)
  BY <1>1
<1> DEFINE e == <<s[i]>>
<1> HIDE DEF e
<1> QED BY <1>2, <1>3, <1>4, ConcatEmptySeq DEF e

\* What is written is a sequence.
LEMMA WrittenType ==
    ASSUME NEW S, NEW s \in Seq(S), NEW x \in S, NEW new \in Seq(S), NEW i \in 1..Len(s)
    PROVE  Written(s, x, new, i) \in Seq(S)
<1>1. s[i] \in S
  BY ElementOfSeq
<1> QED BY <1>1 DEF Written

\* Something of one element is replaced where it is found.
LEMMA ReplacedOne ==
    ASSUME NEW S, NEW s \in Seq(S), NEW x \in S, NEW new \in Seq(S),
           NEW t \in Replacements(S), NEW i \in 1..Len(s), t.next = i
    PROVE  ReplacedAt(s, <<x>>, new, t, i) = [next |-> i + 1, out |-> t.out \o Written(s, x, new, i)]
<1>1. Len(s) \in Nat /\ i \in Int /\ s[i] \in S /\ t.out \in Seq(S) /\ i <= Len(s)
  BY LenProperties, ElementOfSeq DEF Replacements
<1>2. Append(t.out, s[i]) = t.out \o <<s[i]>>
  BY <1>1, AppendIsConcat
<1>3. SubSeq(s, i, i) = <<s[i]>>
  BY OneAt
<1>4. Len(<<x>>) = 1 /\ i + Len(<<x>>) - 1 = i /\ i + Len(<<x>>) = i + 1
  BY <1>1
<1>5. <<s[i]>> = <<x>> <=> s[i] = x
  OBVIOUS
<1>6. ~(i < t.next)
  BY <1>1
<1>7. CASE s[i] = x
  BY <1>1, <1>3, <1>4, <1>5, <1>6, <1>7 DEF ReplacedAt, Written
<1>8. CASE s[i] # x
  BY <1>1, <1>2, <1>3, <1>4, <1>5, <1>6, <1>8 DEF ReplacedAt, Written
<1> QED BY <1>7, <1>8

\* ReplaceEach of something of one element is what is written for each.
LEMMA ReplaceOne ==
    ASSUME NEW S, NEW s \in Seq(S), NEW x \in S, NEW new \in Seq(S)
    PROVE  \E out : Expands(out, s, x, new, S)
<1> DEFINE n == Len(s)
           old == <<x>>
<1>0. n \in Nat /\ old \in Seq(S)
  BY LenProperties
<1>1. PICK g : ReplaceAlong(g, s, old, new, S)
  <2> HIDE DEF old
  <2> QED BY <1>0, ReplaceChain
<1>2. /\ g \in [0..n -> Replacements(S)] /\ g[0] = [next |-> 1, out |-> <<>>]
      /\ ReplaceEach(s, old, new) = g[n].out
      /\ \A k \in 1..n : g[k] = ReplacedAt(s, old, new, g[k - 1], k)
  BY <1>1 DEF ReplaceAlong
<1>3. ASSUME NEW k \in 1..n, g[k - 1].next = k
      PROVE  g[k] = [next |-> k + 1, out |-> g[k - 1].out \o Written(s, x, new, k)]
  <2> DEFINE t == g[k - 1]
  <2>1. k - 1 \in 0..n
    BY <1>0
  <2>2. t \in Replacements(S) /\ t.next = k
    BY <1>2, <1>3, <2>1
  <2>3. g[k] = ReplacedAt(s, old, new, t, k)
    BY <1>2
  <2> HIDE DEF t
  <2>4. ReplacedAt(s, old, new, t, k) = [next |-> k + 1, out |-> t.out \o Written(s, x, new, k)]
    BY <2>2, ReplacedOne
  <2> QED BY <2>3, <2>4 DEF t
<1> DEFINE T == {k \in Nat : k <= n => g[k].next = k + 1}
<1>4. 0 \in T
  BY <1>2
<1>5. ASSUME NEW k \in T PROVE k + 1 \in T
  <2>1. k \in Nat /\ k + 1 \in Nat
    OBVIOUS
  <2> SUFFICES ASSUME k + 1 <= n PROVE g[k + 1].next = k + 1 + 1
    BY <2>1
  <2> DEFINE e == k + 1
  <2>2. e \in 1..n /\ e - 1 = k /\ k <= n
    BY <1>0, <2>1
  <2>3. g[e - 1].next = e
    BY <2>1, <2>2
  <2> HIDE DEF e
  <2>4. g[e] = [next |-> e + 1, out |-> g[e - 1].out \o Written(s, x, new, e)]
    BY <1>3, <2>2, <2>3
  <2>5. g[e].next = e + 1
    BY <2>4
  <2> QED BY <2>5 DEF e
<1>6. T = Nat
  <2> HIDE DEF T
  <2>1. T \in SUBSET Nat
    BY DEF T
  <2> QED BY <2>1, <1>4, <1>5, NatInd
<1>7. \A k \in 0..n : g[k].next = k + 1 /\ g[k].out \in Seq(S)
  <2> TAKE k \in 0..n
  <2>1. k \in T
    <3> HIDE DEF T
    <3> QED BY <1>0, <1>6
  <2> QED BY <1>0, <1>2, <2>1 DEF Replacements
<1> DEFINE out == [k \in 0..n |-> g[k].out]
<1>8. out \in [0..n -> Seq(S)] /\ out[0] = <<>> /\ ReplaceEach(s, old, new) = out[n]
  BY <1>0, <1>2, <1>7
<1>9. \A k \in 1..n : out[k] = out[k - 1] \o Written(s, x, new, k)
  <2> TAKE k \in 1..n
  <2>1. k - 1 \in 0..n /\ k \in 0..n /\ k - 1 + 1 = k
    BY <1>0
  <2>2. g[k - 1].next = k
    BY <1>7, <2>1
  <2>3. g[k] = [next |-> k + 1, out |-> g[k - 1].out \o Written(s, x, new, k)]
    BY <1>3, <2>2
  <2>4. g[k].out = g[k - 1].out \o Written(s, x, new, k)
    BY <2>3
  <2> QED BY <2>1, <2>4
<1> HIDE DEF out
<1>10. Expands(out, s, x, new, S)
  BY <1>8, <1>9 DEF Expands
<1> QED BY <1>10

-----------------------------------------------------------------------------
(* Pointers: what is replaced, replaced back                                *)

\* Induction up to some number.
LEMMA UpTo ==
    ASSUME NEW n \in Nat, NEW P, 0 \in P, \A k \in 1..n : k - 1 \in P => k \in P
    PROVE  \A k \in 0..n : k \in P
<1> DEFINE T == {k \in Nat : k <= n => k \in P}
<1>1. T \in SUBSET Nat /\ 0 \in T
  OBVIOUS
<1>2. \A k \in T : k + 1 \in T
  <2> SUFFICES ASSUME NEW k \in T, k + 1 <= n PROVE k + 1 \in P
    OBVIOUS
  <2>1. k \in Nat /\ k + 1 \in 1..n /\ k + 1 - 1 = k /\ k \in P
    OBVIOUS
  <2> QED BY <2>1
<1>3. T = Nat
  <2> HIDE DEF T
  <2> QED BY <1>1, <1>2, NatInd
<1> QED BY <1>3

\* The first of a sequence, and one more.
LEMMA OneMore ==
    ASSUME NEW S, NEW s \in Seq(S), NEW k \in 1..Len(s)
    PROVE  /\ SubSeq(s, 1, k - 1) \in Seq(S) /\ SubSeq(s, 1, k) \in Seq(S) /\ s[k] \in S
           /\ SubSeq(s, 1, k) = SubSeq(s, 1, k - 1) \o <<s[k]>>
           /\ SubSeq(s, 1, k) = Append(SubSeq(s, 1, k - 1), s[k])
<1>1. Len(s) \in Nat /\ k \in Int /\ k - 1 \in Int /\ 1 \in 1..Len(s) /\ k \in 1..Len(s) /\ 1 <= k
  BY LenProperties
<1>2. s[k] \in S
  BY ElementOfSeq
<1>3. \A d \in 0..Len(s) : SubSeq(s, 1, d) \in Seq(S)
  <2> TAKE d \in 0..Len(s)
  <2>1. d \in Int /\ \A i \in 1..d : i \in 1..Len(s)
    BY <1>1
  <2>2. \A i \in 1..d : s[i] \in S
    BY <2>1, ElementOfSeq
  <2> QED BY <2>1, <2>2, SubSeqProperties
<1>4. SubSeq(s, 1, k - 1) \in Seq(S) /\ SubSeq(s, 1, k) \in Seq(S)
  BY <1>1, <1>3
<1>5. SubSeq(s, 1, k) = SubSeq(s, 1, k - 1) \o <<s[k]>>
  <2>1. k \in 1..Len(s) /\ k \in 1..Len(s)
    OBVIOUS
  <2>2. \A m \in 1..Len(s) : k \in m..Len(s) => SubSeq(s, m, k) = SubSeq(s, m, k - 1) \o <<s[k]>>
    BY SubSeqRecursiveSecond
  <2> QED BY <1>1, <2>2
<1>6. Append(SubSeq(s, 1, k - 1), s[k]) = SubSeq(s, 1, k - 1) \o <<s[k]>>
  BY <1>2, <1>4, AppendIsConcat
<1> QED BY <1>2, <1>4, <1>5, <1>6

\* The piece at two places.
LEMMA TwoAt ==
    ASSUME NEW S, NEW s \in Seq(S), NEW i \in 1..Len(s), i + 1 <= Len(s), NEW y \in S, NEW z \in S
    PROVE  SubSeq(s, i, i + 1) = <<y, z>> <=> s[i] = y /\ s[i + 1] = z
<1>1. Len(s) \in Nat /\ i \in Int /\ i + 1 \in Int /\ \A j \in i..(i + 1) : j \in 1..Len(s)
  BY LenProperties
<1>2. \A j \in i..(i + 1) : s[j] \in S
  BY <1>1, ElementOfSeq
<1> DEFINE q == SubSeq(s, i, i + 1)
           r == <<y, z>>
<1>3. r \in Seq(S) /\ Len(r) = 2 /\ r[1] = y /\ r[2] = z
  OBVIOUS
<1>4. q \in Seq(S) /\ Len(q) = 2 /\ \A j \in 1..2 : q[j] = s[i + j - 1]
  <2> DEFINE e == i + 1
  <2>1. e \in Int /\ i <= e /\ e - i + 1 = 2 /\ \A j \in i..e : s[j] \in S
    BY <1>1, <1>2
  <2> HIDE DEF e
  <2>2. /\ SubSeq(s, i, e) \in Seq(S) /\ Len(SubSeq(s, i, e)) = (IF i <= e THEN e - i + 1 ELSE 0)
        /\ \A j \in 1..(e - i + 1) : SubSeq(s, i, e)[j] = s[i + j - 1]
    BY <1>1, <2>1, SubSeqProperties
  <2> QED BY <2>1, <2>2 DEF e
<1>5. q[1] = s[i] /\ q[2] = s[i + 1]
  <2>1. i + 1 - 1 = i /\ i + 2 - 1 = i + 1 /\ 1 \in 1..2 /\ 2 \in 1..2
    BY <1>1
  <2> HIDE DEF q
  <2> QED BY <1>4, <2>1
<1> HIDE DEF q, r
<1>6. ASSUME q[1] = r[1], q[2] = r[2] PROVE q = r
  <2>1. \A j \in 1..Len(q) : q[j] = r[j]
    BY <1>4, <1>6
  <2> QED BY <1>3, <1>4, <2>1, SeqEqual
<1>7. q = r <=> s[i] = y /\ s[i + 1] = z
  BY <1>3, <1>5, <1>6
<1> QED BY <1>7 DEF q, r

\* y and z are found in u at i, or they are not.
ReadTwo(r, u, y, z, new, done, i) ==
    r = IF i + 1 <= Len(u) /\ u[i] = y /\ u[i + 1] = z
        THEN [next |-> i + 2, out |-> done \o new]
        ELSE [next |-> i + 1, out |-> Append(done, u[i])]

\* Two elements are replaced where they are found.
LEMMA ReplacedTwo ==
    ASSUME NEW S, NEW u \in Seq(S), NEW y \in S, NEW z \in S, NEW new \in Seq(S),
           NEW t \in Replacements(S), NEW i \in 1..Len(u), t.next = i
    PROVE  ReadTwo(ReplacedAt(u, <<y, z>>, new, t, i), u, y, z, new, t.out, i)
<1>1. Len(u) \in Nat /\ i \in Int /\ ~(i < t.next)
  BY LenProperties
<1>2. Len(<<y, z>>) = 2 /\ i + Len(<<y, z>>) - 1 = i + 1 /\ i + Len(<<y, z>>) = i + 2
  BY <1>1
<1>3. ReplacedAt(u, <<y, z>>, new, t, i) =
          IF i + 1 <= Len(u) /\ SubSeq(u, i, i + 1) = <<y, z>>
          THEN [next |-> i + 2, out |-> t.out \o new]
          ELSE [next |-> i + 1, out |-> Append(t.out, u[i])]
  BY <1>1, <1>2 DEF ReplacedAt
<1>4. ASSUME i + 1 <= Len(u)
      PROVE  SubSeq(u, i, i + 1) = <<y, z>> <=> u[i] = y /\ u[i + 1] = z
  BY <1>4, TwoAt
<1> QED BY <1>3, <1>4 DEF ReadTwo

\* a is what b begins with.
Begins(a, b) == Len(a) \in Nat /\ Len(b) \in Nat /\ Len(a) <= Len(b) /\ \A j \in 1..Len(a) : b[j] = a[j]

\* A sequence begins what it is put before.
LEMMA BeginsConcat ==
    ASSUME NEW S, NEW a \in Seq(S), NEW b \in Seq(S)
    PROVE  Begins(a, a \o b)
<1>1. IsConcat(a \o b, a, b)
  BY ConcatIs
<1> DEFINE c == a \o b
<1>2. IsConcat(c, a, b)
  BY <1>1
<1> HIDE DEF c
<1>3. Begins(a, c)
  BY <1>2 DEF IsConcat, Begins
<1> QED BY <1>3 DEF c

\* out goes through what the first of the parts w make.
Grows(out, w, n, S) ==
    /\ n \in Nat /\ out \in [0..n -> Seq(S)] /\ w \in [1..n -> Seq(S)]
    /\ \A k \in 1..n : out[k] = out[k - 1] \o w[k]

\* What the first parts make begins what they all make.
LEMMA GrowsBegins ==
    ASSUME NEW S, NEW n, NEW out, NEW w, Grows(out, w, n, S)
    PROVE  \A m \in 0..n : \A k \in 0..m : Begins(out[k], out[m])
<1> DEFINE P == {m \in 0..n : \A k \in 0..m : Begins(out[k], out[m])}
<1>0. n \in Nat /\ out \in [0..n -> Seq(S)] /\ w \in [1..n -> Seq(S)] /\ \A k \in 1..n : out[k] = out[k - 1] \o w[k]
  BY DEF Grows
<1>1. \A k \in 0..n : out[k] \in Seq(S) /\ Begins(out[k], out[k])
  <2> TAKE k \in 0..n
  <2>1. out[k] \in Seq(S)
    BY <1>0
  <2>2. Len(out[k]) \in Nat
    BY <2>1, LenProperties
  <2> QED BY <2>1, <2>2 DEF Begins
<1>2. 0 \in P
  <2>1. 0 \in 0..n /\ \A k \in 0..0 : k = 0
    BY <1>0
  <2> QED BY <1>1, <2>1
<1>3. \A m \in 1..n : m - 1 \in P => m \in P
  <2> SUFFICES ASSUME NEW m \in 1..n, m - 1 \in P PROVE m \in P
    OBVIOUS
  <2>0. m - 1 \in 0..n /\ m \in 0..n
    BY <1>0
  <2>1. \A k \in 0..m : k \in 0..n /\ (k # m => k \in 0..(m - 1))
    BY <1>0
  <2>2. Begins(out[m - 1], out[m])
    <3> DEFINE a == out[m - 1]
               b == w[m]
    <3>1. a \in Seq(S) /\ b \in Seq(S)
      BY <1>0, <1>1, <2>0
    <3>2. out[m] = a \o b
      BY <1>0
    <3> HIDE DEF a, b
    <3>3. Begins(a, a \o b)
      BY <3>1, BeginsConcat
    <3> QED BY <3>2, <3>3 DEF a
  <2>3. ASSUME NEW k \in 0..m PROVE Begins(out[k], out[m])
    <3>1. CASE k = m
      BY <1>1, <2>0, <3>1
    <3>2. CASE k # m
      <4>1. Begins(out[k], out[m - 1])
        BY <2>1, <3>2
      <4> QED BY <2>2, <4>1 DEF Begins
    <3> QED BY <3>1, <3>2
  <2> QED BY <2>0, <2>3
<1> HIDE DEF P
<1>4. \A k \in 0..n : k \in P
  BY <1>0, <1>2, <1>3, UpTo
<1> QED BY <1>4 DEF P

\* w is in u from p on, up to q.
PartAt(u, p, w, q) ==
    /\ p \in Nat /\ Len(w) \in Nat /\ q = p + Len(w) /\ q <= Len(u)
    /\ \A j \in 1..Len(w) : u[p + j] = w[j]

\* Each part is where those before it end.
LEMMA PartThere ==
    ASSUME NEW S, NEW n, NEW out, NEW w, Grows(out, w, n, S), NEW k \in 1..n
    PROVE  PartAt(out[n], Len(out[k - 1]), w[k], Len(out[k])) /\ out[n] \in Seq(S)
<1> DEFINE a == out[k - 1]
           b == out[k]
           v == w[k]
           u == out[n]
<1>1. n \in Nat /\ k - 1 \in 0..n /\ k \in 0..n /\ n \in 0..n /\ k \in 0..n
  BY DEF Grows
<1>2. out \in [0..n -> Seq(S)] /\ b = a \o v /\ v \in Seq(S)
  BY DEF Grows
<1>3. a \in Seq(S) /\ u \in Seq(S)
  BY <1>1, <1>2
<1>4. Begins(b, u)
  BY <1>1, GrowsBegins
<1> HIDE DEF a, b, v, u
<1>5. IsConcat(b, a, v)
  BY <1>2, <1>3, ConcatIs
<1>6. \A j \in 1..Len(v) : Len(a) + j \in 1..Len(b)
  BY <1>5 DEF IsConcat
<1>7. PartAt(u, Len(a), v, Len(b))
  BY <1>4, <1>5, <1>6 DEF IsConcat, Begins, PartAt
<1> QED BY <1>3, <1>7 DEF a, b, v, u

\* What is written for an element is where what is written for those before it ends.
LEMMA WrittenThere ==
    ASSUME NEW S, NEW s \in Seq(S), NEW x \in S, NEW new \in Seq(S), NEW out, Expands(out, s, x, new, S),
           NEW k \in 1..Len(s)
    PROVE  /\ PartAt(ReplaceEach(s, <<x>>, new), Len(out[k - 1]), Written(s, x, new, k), Len(out[k]))
           /\ ReplaceEach(s, <<x>>, new) \in Seq(S)
<1> DEFINE n == Len(s)
           w == [j \in 1..n |-> Written(s, x, new, j)]
<1>1. n \in Nat /\ w \in [1..n -> Seq(S)]
  BY WrittenType, LenProperties
<1>2. /\ out \in [0..n -> Seq(S)] /\ ReplaceEach(s, <<x>>, new) = out[n] /\ w[k] = Written(s, x, new, k)
      /\ \A j \in 1..n : out[j] = out[j - 1] \o w[j]
  BY DEF Expands
<1> HIDE DEF w
<1>3. Grows(out, w, n, S)
  BY <1>1, <1>2 DEF Grows
<1>4. PartAt(out[n], Len(out[k - 1]), w[k], Len(out[k])) /\ out[n] \in Seq(S)
  <2> HIDE DEF n
  <2>1. k \in 1..n
    BY DEF n
  <2> QED BY <1>3, <2>1, PartThere
<1> QED BY <1>2, <1>4

\* Two elements y, z in s do not look like what is written for x.
Restores(s, x, y, z) == \A k \in 1..Len(s) : s[k] = y => x = y \/ k = Len(s) \/ s[k + 1] # z

\* h has read p elements, and found what the first k of s are.
HasRead(h, p, s, k) == h[p] = [next |-> p + 1, out |-> SubSeq(s, 1, k)]

\* z is not the next but one after p in u.
NotNext(u, p, z) == ~(p + 2 <= Len(u) /\ u[p + 2] = z)

\* What is written for an element is not taken for something else.
LEMMA NotTaken ==
    ASSUME NEW S, NEW s \in Seq(S), NEW x \in S, NEW y \in S, NEW z \in S, y # z, Restores(s, x, y, z),
           NEW out, Expands(out, s, x, <<y, z>>, S), NEW k \in 1..Len(s), s[k] # x, s[k] = y,
           NEW u, u = ReplaceEach(s, <<x>>, <<y, z>>)
    PROVE  NotNext(u, Len(out[k - 1]), z)
<1> DEFINE n == Len(s)
           p == Len(out[k - 1])
           new == <<y, z>>
           w == Written(s, x, new, k)
<1>1. n \in Nat /\ new \in Seq(S) /\ new[1] = y
  BY LenProperties
<1>2. PartAt(u, p, w, Len(out[k])) /\ u \in Seq(S) /\ (k = n => u = out[k])
  <2>1. Expands(out, s, x, new, S)
    OBVIOUS
  <2> HIDE DEF new
  <2>2. PartAt(ReplaceEach(s, <<x>>, new), Len(out[k - 1]), Written(s, x, new, k), Len(out[k]))
        /\ ReplaceEach(s, <<x>>, new) \in Seq(S)
    BY <1>1, <2>1, WrittenThere
  <2>3. ReplaceEach(s, <<x>>, new) = out[n]
    BY <2>1 DEF Expands
  <2>4. ReplaceEach(s, <<x>>, new) = u
    BY DEF new
  <2> QED BY <2>2, <2>3, <2>4
<1>3. Len(w) = 1
  BY DEF Written
<1>4. p \in Nat /\ Len(out[k]) = p + 1
  BY <1>2, <1>3 DEF PartAt
<1>5. CASE k = n
  BY <1>2, <1>4, <1>5 DEF NotNext
<1>6. CASE k # n
  <2>1. k + 1 \in 1..n /\ k + 1 - 1 = k /\ s[k + 1] # z
    BY <1>1, <1>6 DEF Restores
  <2> DEFINE e == k + 1
             v == Written(s, x, new, e)
  <2>2. e \in 1..n /\ e - 1 = k /\ s[e] # z
    BY <2>1
  <2> HIDE DEF e
  <2>3. PartAt(u, Len(out[e - 1]), v, Len(out[e]))
    <3>1. Expands(out, s, x, new, S)
      OBVIOUS
    <3>2. u = ReplaceEach(s, <<x>>, new)
      OBVIOUS
    <3> HIDE DEF new
    <3> QED BY <1>1, <2>2, <3>1, <3>2, WrittenThere
  <2>4. Len(v) \in Nat \ {0} /\ v[1] # z
    <3>1. CASE s[e] = x
      BY <3>1 DEF Written
    <3>2. CASE s[e] # x
      BY <2>2, <3>2 DEF Written
    <3> QED BY <3>1, <3>2
  <2> HIDE DEF v
  <2>5. 1 \in 1..Len(v)
    BY <2>4
  <2>6. u[p + 1 + 1] = v[1]
    BY <1>4, <2>2, <2>3, <2>5 DEF PartAt
  <2>7. p + 1 + 1 = p + 2
    BY <1>4
  <2> QED BY <2>4, <2>6, <2>7 DEF NotNext
<1> QED BY <1>5, <1>6

\* What is written for one more element is read back.
LEMMA BackStep ==
    ASSUME NEW S, NEW s \in Seq(S), NEW x \in S, NEW y \in S, NEW z \in S, y # z, Restores(s, x, y, z),
           NEW out, Expands(out, s, x, <<y, z>>, S), NEW k \in 1..Len(s),
           NEW u, u = ReplaceEach(s, <<x>>, <<y, z>>), NEW h, ReplaceAlong(h, u, <<y, z>>, <<x>>, S),
           HasRead(h, Len(out[k - 1]), s, k - 1)
    PROVE  HasRead(h, Len(out[k]), s, k)
<1> DEFINE n == Len(s)
           new == <<y, z>>
           old == <<x>>
           w == Written(s, x, new, k)
           p == Len(out[k - 1])
           d == SubSeq(s, 1, k - 1)
           t == h[p]
<1>1. /\ n \in Nat /\ new \in Seq(S) /\ old \in Seq(S) /\ new[1] = y /\ new[2] = z /\ Len(new) = 2
      /\ s[k] \in S /\ <<s[k]>>[1] = s[k] /\ Len(<<s[k]>>) = 1
  BY LenProperties, ElementOfSeq
<1>2. PartAt(u, p, w, Len(out[k])) /\ u \in Seq(S)
  <2>1. Expands(out, s, x, new, S) /\ u = ReplaceEach(s, <<x>>, new)
    OBVIOUS
  <2> HIDE DEF new
  <2> QED BY <1>1, <2>1, WrittenThere
<1>3. d \in Seq(S) /\ SubSeq(s, 1, k) = d \o <<s[k]>> /\ SubSeq(s, 1, k) = Append(d, s[k])
  BY OneMore
<1>4. t = [next |-> p + 1, out |-> d]
  BY DEF HasRead
<1>5. \A i \in 1..Len(u) : h[i] = ReplacedAt(u, new, old, h[i - 1], i)
  BY DEF ReplaceAlong
<1> HIDE DEF new, old, p, d
<1>6. p \in Nat /\ Len(u) \in Nat
  BY <1>2, LenProperties DEF PartAt
<1>7. t \in Replacements(S) /\ t.next = p + 1 /\ t.out = d
  BY <1>3, <1>4, <1>6 DEF Replacements
<1> HIDE DEF t
<1>8. ASSUME p + 1 <= Len(u)
      PROVE  h[p + 1] = IF p + 2 <= Len(u) /\ u[p + 1] = y /\ u[p + 2] = z
                        THEN [next |-> p + 3, out |-> d \o old]
                        ELSE [next |-> p + 2, out |-> Append(d, u[p + 1])]
  <2> DEFINE i == p + 1
  <2>1. i \in 1..Len(u) /\ i - 1 = p /\ i + 1 = p + 2 /\ i + 2 = p + 3
    BY <1>6, <1>8
  <2>2. h[i] = ReplacedAt(u, new, old, t, i)
    BY <1>5, <2>1 DEF t
  <2>3. t.next = i
    BY <1>7
  <2> HIDE DEF i
  <2>4. ReadTwo(ReplacedAt(u, <<y, z>>, old, t, i), u, y, z, old, t.out, i)
    BY <1>1, <1>2, <1>7, <2>1, <2>3, ReplacedTwo
  <2>5. h[i] = IF p + 2 <= Len(u) /\ u[i] = y /\ u[p + 2] = z
               THEN [next |-> p + 3, out |-> d \o old]
               ELSE [next |-> p + 2, out |-> Append(d, u[i])]
    BY <1>7, <2>1, <2>2, <2>4 DEF new, ReadTwo
  <2> QED BY <2>5 DEF i
<1>9. CASE s[k] = x
  <2>1. w = new
    BY <1>9 DEF Written
  <2>2. Len(out[k]) = p + 2 /\ p + 2 <= Len(u) /\ u[p + 1] = y /\ u[p + 2] = z
    <3> DEFINE q == Len(out[k])
    <3>1. 1 \in 1..Len(new) /\ 2 \in 1..Len(new) /\ new[1] = y /\ new[2] = z /\ Len(new) = 2
      BY <1>1
    <3>2. PartAt(u, p, new, q)
      BY <1>2, <2>1
    <3> HIDE DEF q
    <3>3. q = p + 2 /\ q <= Len(u) /\ u[p + 1] = new[1] /\ u[p + 2] = new[2]
      BY <3>1, <3>2 DEF PartAt
    <3> QED BY <3>1, <3>3 DEF q
  <2>3. h[p + 1] = [next |-> p + 3, out |-> d \o old]
    BY <1>6, <1>8, <2>2
  <2>4. h[p + 2] = h[p + 1]
    <3> DEFINE i == p + 2
    <3>1. i \in 1..Len(u) /\ i - 1 = p + 1 /\ i < p + 3
      BY <1>6, <2>2
    <3>2. h[i] = ReplacedAt(u, new, old, h[p + 1], i)
      BY <1>5, <3>1
    <3>3. h[p + 1].next = p + 3
      BY <2>3
    <3> HIDE DEF i
    <3>4. h[i] = h[p + 1]
      BY <3>1, <3>2, <3>3 DEF ReplacedAt
    <3> QED BY <3>4 DEF i
  <2>5. SubSeq(s, 1, k) = d \o old
    BY <1>3, <1>9 DEF old
  <2>6. p + 2 + 1 = p + 3
    BY <1>6
  <2> QED BY <2>2, <2>3, <2>4, <2>5, <2>6 DEF HasRead
<1>10. CASE s[k] # x
  <2>1. w = <<s[k]>>
    BY <1>10 DEF Written
  <2>2. Len(out[k]) = p + 1 /\ p + 1 <= Len(u) /\ u[p + 1] = s[k]
    <3>1. 1 \in 1..Len(w)
      BY <1>1, <2>1
    <3> QED BY <1>1, <1>2, <2>1, <3>1 DEF PartAt
  <2>3. ~(p + 2 <= Len(u) /\ u[p + 1] = y /\ u[p + 2] = z)
    <3> SUFFICES ASSUME s[k] = y PROVE ~(p + 2 <= Len(u) /\ u[p + 2] = z)
      BY <2>2
    <3>1. NotNext(u, Len(out[k - 1]), z)
      BY <1>10, NotTaken
    <3> QED BY <3>1 DEF NotNext, p
  <2>4. h[p + 1] = [next |-> p + 2, out |-> Append(d, u[p + 1])]
    BY <1>8, <2>2, <2>3
  <2>5. p + 1 + 1 = p + 2
    BY <1>6
  <2> QED BY <1>3, <2>2, <2>4, <2>5 DEF HasRead
<1> QED BY <1>9, <1>10

\* What is written for x is read as x again.
LEMMA ReplacedBack ==
    ASSUME NEW S, NEW s \in Seq(S), NEW x \in S, NEW y \in S, NEW z \in S, y # z, Restores(s, x, y, z)
    PROVE  ReplaceEach(ReplaceEach(s, <<x>>, <<y, z>>), <<y, z>>, <<x>>) = s
<1> DEFINE n == Len(s)
           new == <<y, z>>
           old == <<x>>
           u == ReplaceEach(s, old, new)
<1>1. n \in Nat /\ new \in Seq(S) /\ old \in Seq(S)
  BY LenProperties
<1>2. PICK out : Expands(out, s, x, new, S)
  <2> HIDE DEF new
  <2> QED BY <1>1, ReplaceOne
<1>3. out \in [0..n -> Seq(S)] /\ out[0] = <<>> /\ u = out[n] /\ n \in 0..n
  <2> HIDE DEF new
  <2> QED BY <1>1, <1>2 DEF Expands
<1>4. u \in Seq(S)
  BY <1>3
<1>5. u = ReplaceEach(s, <<x>>, <<y, z>>)
  OBVIOUS
<1> HIDE DEF u
<1>6. PICK h : ReplaceAlong(h, u, new, old, S)
  <2> HIDE DEF new, old
  <2> QED BY <1>1, <1>4, ReplaceChain
<1>7. h[0] = [next |-> 1, out |-> <<>>] /\ ReplaceEach(u, new, old) = h[Len(u)].out
  BY <1>6 DEF ReplaceAlong
<1> DEFINE P == {k \in 0..n : HasRead(h, Len(out[k]), s, k)}
<1>8. 0 \in P
  <2>1. SubSeq(s, 1, 0) = <<>>
    BY SubSeqEmpty
  <2>2. Len(out[0]) = 0
    BY <1>3
  <2> QED BY <1>1, <1>7, <2>1, <2>2 DEF HasRead
<1>9. \A k \in 1..n : k - 1 \in P => k \in P
  <2> SUFFICES ASSUME NEW k \in 1..n, HasRead(h, Len(out[k - 1]), s, k - 1)
               PROVE  HasRead(h, Len(out[k]), s, k)
    BY <1>1
  <2>1. Expands(out, s, x, <<y, z>>, S) /\ ReplaceAlong(h, u, <<y, z>>, <<x>>, S)
    BY <1>2, <1>6
  <2> QED BY <1>5, <2>1, BackStep
<1>10. n \in P
  <2> HIDE DEF P
  <2>1. \A k \in 0..n : k \in P
    BY <1>1, <1>8, <1>9, UpTo
  <2> QED BY <1>3, <2>1
<1>11. h[Len(u)].out = SubSeq(s, 1, n)
  BY <1>3, <1>10 DEF HasRead
<1>12. SubSeq(s, 1, n) = s
  BY SubSeqFull
<1> QED BY <1>5, <1>7, <1>11, <1>12

-----------------------------------------------------------------------------
(* Pointers: segments escaped                                               *)

\* x is not in s.
NowhereIn(s, x) == \A j \in 1..Len(s) : s[j] # x

\* Each y in s is followed by z.
Followed(s, y, z) == \A j \in 1..Len(s) : s[j] = y => j < Len(s) /\ s[j + 1] = z

\* What is replaced everywhere is nowhere.
LEMMA NoneLeft ==
    ASSUME NEW S, NEW s \in Seq(S), NEW x \in S, NEW new \in Seq(S), NowhereIn(new, x)
    PROVE  NowhereIn(ReplaceEach(s, <<x>>, new), x)
<1> DEFINE n == Len(s)
<1>1. PICK out : Expands(out, s, x, new, S)
  BY ReplaceOne
<1>2. /\ out \in [0..n -> Seq(S)] /\ out[0] = <<>> /\ ReplaceEach(s, <<x>>, new) = out[n] /\ n \in Nat
      /\ \A k \in 1..n : out[k] = out[k - 1] \o Written(s, x, new, k)
  BY <1>1, LenProperties DEF Expands
<1> DEFINE P == {k \in 0..n : NowhereIn(out[k], x)}
<1>3. 0 \in P
  <2>1. Len(out[0]) = 0
    BY <1>2
  <2> QED BY <1>2, <2>1 DEF NowhereIn
<1>4. \A k \in 1..n : k - 1 \in P => k \in P
  <2> SUFFICES ASSUME NEW k \in 1..n, k - 1 \in P PROVE k \in P
    OBVIOUS
  <2> DEFINE a == out[k - 1]
             w == Written(s, x, new, k)
             b == out[k]
  <2>1. k - 1 \in 0..n /\ k \in 0..n
    BY <1>2
  <2>2. a \in Seq(S) /\ w \in Seq(S) /\ b = a \o w
    BY <1>2, <2>1, WrittenType
  <2>3. NowhereIn(w, x)
    BY DEF Written, NowhereIn
  <2>4. NowhereIn(a, x)
    OBVIOUS
  <2> HIDE DEF a, w, b
  <2>5. IsConcat(b, a, w)
    BY <2>2, ConcatIs
  <2>6. ASSUME NEW j \in 1..Len(b) PROVE b[j] # x
    <3>1. CASE j <= Len(a)
      <4>1. j \in 1..Len(a)
        BY <2>5, <3>1 DEF IsConcat
      <4> QED BY <2>4, <2>5, <4>1 DEF IsConcat, NowhereIn
    <3>2. CASE ~(j <= Len(a))
      <4>1. j - Len(a) \in 1..Len(w) /\ Len(a) + (j - Len(a)) = j
        BY <2>5, <3>2 DEF IsConcat
      <4>2. b[Len(a) + (j - Len(a))] = w[j - Len(a)]
        BY <2>5, <4>1 DEF IsConcat
      <4> QED BY <2>3, <4>1, <4>2 DEF NowhereIn
    <3> QED BY <3>1, <3>2
  <2>7. NowhereIn(b, x)
    BY <2>6 DEF NowhereIn
  <2> QED BY <2>1, <2>7 DEF b
<1>5. n \in P
  <2> HIDE DEF P
  <2>1. \A k \in 0..n : k \in P
    BY <1>2, <1>3, <1>4, UpTo
  <2> QED BY <1>2, <2>1
<1> QED BY <1>2, <1>5

\* What is written for y has z after each y.
LEMMA FollowedAll ==
    ASSUME NEW S, NEW s \in Seq(S), NEW y \in S, NEW z \in S, y # z
    PROVE  Followed(ReplaceEach(s, <<y>>, <<y, z>>), y, z)
<1> DEFINE n == Len(s)
           new == <<y, z>>
<1>0. new \in Seq(S) /\ Len(new) = 2 /\ new[1] = y /\ new[2] = z
  OBVIOUS
<1> HIDE DEF new
<1>1. PICK out : Expands(out, s, y, new, S)
  BY <1>0, ReplaceOne
<1>2. /\ out \in [0..n -> Seq(S)] /\ out[0] = <<>> /\ ReplaceEach(s, <<y>>, new) = out[n] /\ n \in Nat
      /\ \A k \in 1..n : out[k] = out[k - 1] \o Written(s, y, new, k)
  BY <1>1, LenProperties DEF Expands
<1> DEFINE P == {k \in 0..n : Followed(out[k], y, z)}
<1>3. 0 \in P
  <2>1. Len(out[0]) = 0
    BY <1>2
  <2> QED BY <1>2, <2>1 DEF Followed
<1>4. \A k \in 1..n : k - 1 \in P => k \in P
  <2> SUFFICES ASSUME NEW k \in 1..n, k - 1 \in P PROVE k \in P
    OBVIOUS
  <2> DEFINE a == out[k - 1]
             w == Written(s, y, new, k)
             b == out[k]
  <2>1. k - 1 \in 0..n /\ k \in 0..n
    BY <1>2
  <2>2. a \in Seq(S) /\ w \in Seq(S) /\ b = a \o w
    BY <1>0, <1>2, <2>1, WrittenType
  <2>3. Followed(w, y, z)
    <3>1. CASE s[k] = y
      <4>1. w = new
        BY <3>1 DEF Written
      <4>2. \A j \in 1..2 : j = 1 \/ j = 2
        OBVIOUS
      <4>3. Followed(new, y, z)
        BY <1>0, <4>2 DEF Followed
      <4> QED BY <4>1, <4>3
    <3>2. CASE s[k] # y
      BY <3>2 DEF Written, Followed
    <3> QED BY <3>1, <3>2
  <2>4. Followed(a, y, z)
    OBVIOUS
  <2> HIDE DEF a, w, b
  <2>5. IsConcat(b, a, w)
    BY <2>2, ConcatIs
  <2>6. ASSUME NEW j \in 1..Len(b), b[j] = y PROVE j < Len(b) /\ b[j + 1] = z
    <3>1. CASE j <= Len(a)
      <4>1. j \in 1..Len(a)
        BY <2>5, <3>1 DEF IsConcat
      <4>2. j < Len(a) /\ a[j + 1] = z
        BY <2>4, <2>5, <2>6, <4>1 DEF IsConcat, Followed
      <4>3. j + 1 \in 1..Len(a)
        BY <2>5, <4>1, <4>2 DEF IsConcat
      <4> QED BY <2>5, <4>2, <4>3 DEF IsConcat
    <3>2. CASE ~(j <= Len(a))
      <4> DEFINE i == j - Len(a)
      <4>1. i \in 1..Len(w) /\ Len(a) + i = j /\ Len(a) + (i + 1) = j + 1
        BY <2>5, <3>2 DEF IsConcat
      <4> HIDE DEF i
      <4>2. w[i] = y
        BY <2>5, <2>6, <4>1 DEF IsConcat
      <4>3. i < Len(w) /\ w[i + 1] = z
        BY <2>3, <4>1, <4>2 DEF Followed
      <4>4. i + 1 \in 1..Len(w) /\ j < Len(b)
        BY <2>5, <4>1, <4>3 DEF IsConcat
      <4>5. b[Len(a) + (i + 1)] = w[i + 1]
        BY <2>5, <4>4 DEF IsConcat
      <4> QED BY <4>1, <4>3, <4>4, <4>5
    <3> QED BY <3>1, <3>2
  <2>7. Followed(b, y, z)
    BY <2>6 DEF Followed
  <2> QED BY <2>1, <2>7 DEF b
<1>5. n \in P
  <2> HIDE DEF P
  <2>1. \A k \in 0..n : k \in P
    BY <1>2, <1>3, <1>4, UpTo
  <2> QED BY <1>2, <2>1
<1> QED BY <1>2, <1>5 DEF new

\* Nothing is replaced in nothing.
LEMMA ReplacedNone ==
    ASSUME NEW S, NEW old \in Seq(S), NEW new \in Seq(S)
    PROVE  ReplaceEach(<<>>, old, new) = <<>>
<1> DEFINE s == <<>>
<1>1. s \in Seq(S) /\ Len(s) = 0
  BY EmptySeq
<1> HIDE DEF s
<1>2. PICK g : ReplaceAlong(g, s, old, new, S)
  BY <1>1, ReplaceChain
<1>3. ReplaceEach(s, old, new) = <<>>
  BY <1>1, <1>2 DEF ReplaceAlong
<1> QED BY <1>3 DEF s

\* A segment is written without slashes, and read as it was.
LEMMA EscapedIs ==
    ASSUME NEW S, {"/", "~", "0", "1"} \subseteq S, NEW s \in Seq(S)
    PROVE  /\ EscapePointerSegment(s) \in Seq(S) /\ NoSlash(EscapePointerSegment(s))
           /\ UnescapePointerSegment(EscapePointerSegment(s)) = s
           /\ EscapePointerSegment(s) = <<>> => s = <<>>
<1> DEFINE t == ReplaceEach(s, <<"~">>, <<"~", "0">>)
           e == ReplaceEach(t, <<"/">>, <<"~", "1">>)
<1>1. "/" \in S /\ "~" \in S /\ "0" \in S /\ "1" \in S /\ "~" # "/" /\ "~" # "0" /\ "~" # "1" /\ "0" # "1" /\ "/" # "1"
  OBVIOUS
<1>2. <<"~", "0">> \in Seq(S) /\ <<"~", "1">> \in Seq(S) /\ <<"/">> \in Seq(S) /\ <<"~">> \in Seq(S)
  BY <1>1
<1>3. ASSUME NEW v \in Seq(S), NEW x \in S, NEW new \in Seq(S) PROVE ReplaceEach(v, <<x>>, new) \in Seq(S)
  <2>1. PICK out : Expands(out, v, x, new, S)
    BY ReplaceOne
  <2>2. Len(v) \in 0..Len(v)
    BY LenProperties
  <2> QED BY <2>1, <2>2 DEF Expands
<1>4. t \in Seq(S)
  BY <1>1, <1>2, <1>3
<1>5. Followed(t, "~", "0")
  BY <1>1, FollowedAll
<1>6. ReplaceEach(t, <<"~", "0">>, <<"~">>) = s
  <2>1. Restores(s, "~", "~", "0")
    BY DEF Restores
  <2> QED BY <1>1, <2>1, ReplacedBack
<1> HIDE DEF t
<1>7. e \in Seq(S)
  BY <1>1, <1>2, <1>3, <1>4
<1>8. NoSlash(e)
  <2> DEFINE new == <<"~", "1">>
  <2>1. NowhereIn(new, "/")
    BY <1>1 DEF NowhereIn
  <2> HIDE DEF new
  <2>2. NowhereIn(ReplaceEach(t, <<"/">>, new), "/")
    BY <1>1, <1>2, <1>4, <2>1, NoneLeft DEF new
  <2> QED BY <2>2 DEF NoSlash, NowhereIn, new
<1>9. ReplaceEach(e, <<"~", "1">>, <<"/">>) = t
  <2>1. Restores(t, "/", "~", "1")
    BY <1>1, <1>5 DEF Restores, Followed
  <2> QED BY <1>1, <1>4, <2>1, ReplacedBack
<1> HIDE DEF e
<1>10. EscapePointerSegment(s) = e
  BY DEF EscapePointerSegment, e, t
<1>11. UnescapePointerSegment(e) = s
  BY <1>6, <1>9 DEF UnescapePointerSegment
<1>12. UnescapePointerSegment(<<>>) = <<>>
  BY <1>2, ReplacedNone DEF UnescapePointerSegment
<1> QED BY <1>7, <1>8, <1>10, <1>11, <1>12

-----------------------------------------------------------------------------
(* Pointers: made and split                                                 *)

PointerChars == {"/", "~", "0", "1"}

\* flat goes through the pointers to what is above a place.
PointerAlong(flat, segs, S) ==
    /\ flat \in [0..Len(segs) -> Seq(S)] /\ flat[0] = <<>> /\ Pointer(segs) = flat[Len(segs)]
    /\ \A k \in 1..Len(segs) : flat[k] = flat[k - 1] \o (<<"/">> \o EscapePointerSegment(segs[k]))

\* Pointer goes along the segments.
LEMMA PointerChain ==
    ASSUME NEW S, PointerChars \subseteq S, NEW segs \in Seq(Seq(S))
    PROVE  \E flat : PointerAlong(flat, segs, S)
<1> DEFINE n == Len(segs)
           parts == [i \in 1..n |-> <<"/">> \o EscapePointerSegment(segs[i])]
           T == Seq(S)
<1>1. n \in Nat /\ \A i \in 1..n : segs[i] \in T
  BY LenProperties, ElementOfSeq
<1>2. <<"/">> \in T /\ {"/", "~", "0", "1"} \subseteq S
  BY DEF PointerChars
<1>3. \A i \in 1..n : <<"/">> \o EscapePointerSegment(segs[i]) \in T
  <2> TAKE i \in 1..n
  <2>1. EscapePointerSegment(segs[i]) \in T
    BY <1>1, <1>2, EscapedIs
  <2> QED BY <1>2, <2>1, ConcatProperties
<1> HIDE DEF T
<1>4. parts \in Seq(T) /\ Len(parts) = n /\ \A i \in 1..n : parts[i] = <<"/">> \o EscapePointerSegment(segs[i])
  BY <1>1, <1>3
<1>5. Pointer(segs) = FlattenSeq(parts)
  BY DEF Pointer
<1> HIDE DEF parts
<1>6. PICK flat : Flattens(flat, parts, S)
  BY <1>4, FlattenChain DEF T
<1>7. PointerAlong(flat, segs, S)
  BY <1>4, <1>5, <1>6 DEF Flattens, PointerAlong
<1> QED BY <1>7

\* What is above the last of the places is a pointer too.
LEMMA PointerOfFront ==
    ASSUME NEW S, PointerChars \subseteq S, NEW segs \in Seq(Seq(S)), segs # <<>>,
           NEW flat, PointerAlong(flat, segs, S)
    PROVE  flat[Len(segs) - 1] = Pointer(Front(segs))
<1> DEFINE n == Len(segs)
           T == Seq(S)
           d == Front(segs)
           m == n - 1
<1>1. segs \in Seq(T)
  OBVIOUS
<1> HIDE DEF T
<1>2. d \in Seq(T) /\ Len(d) = m /\ m \in Nat /\ \A i \in 1..m : d[i] = segs[i]
  BY <1>1, FrontIs
<1>3. n \in Nat
  BY <1>1, LenProperties
<1> HIDE DEF d
<1>4. PICK f : PointerAlong(f, d, S)
  BY <1>2, PointerChain DEF T
<1>5. f[0] = flat[0]
  BY <1>4 DEF PointerAlong
<1>6. ASSUME NEW k \in 1..m, f[k - 1] = flat[k - 1] PROVE f[k] = flat[k]
  <2>1. k \in 1..n
    BY <1>2, <1>3
  <2>2. f[k] = f[k - 1] \o (<<"/">> \o EscapePointerSegment(d[k]))
    BY <1>2, <1>4 DEF PointerAlong
  <2>3. flat[k] = flat[k - 1] \o (<<"/">> \o EscapePointerSegment(segs[k]))
    BY <2>1 DEF PointerAlong
  <2> QED BY <1>2, <1>6, <2>2, <2>3
<1> DEFINE P == {k \in 0..m : f[k] = flat[k]}
<1>7. 0 \in P
  BY <1>2, <1>5
<1>8. \A k \in 1..m : k - 1 \in P => k \in P
  BY <1>2, <1>6
<1>9. m \in P
  <2> HIDE DEF P, m
  <2>1. \A k \in 0..m : k \in P
    BY <1>2, <1>7, <1>8, UpTo
  <2> QED BY <1>2, <2>1
<1>10. f[m] = flat[m]
  BY <1>9
<1>11. Pointer(d) = f[m]
  BY <1>2, <1>4 DEF PointerAlong
<1> QED BY <1>10, <1>11 DEF d

Escaped(segs) == [i \in 1..Len(segs) |-> EscapePointerSegment(segs[i])]

\* Segments are written without slashes.
LEMMA EscapedType ==
    ASSUME NEW S, PointerChars \subseteq S, NEW segs \in Seq(Seq(S))
    PROVE  /\ Escaped(segs) \in Seq(Seq(S)) /\ Len(Escaped(segs)) = Len(segs) /\ Len(segs) \in Nat
           /\ \A i \in 1..Len(segs) : /\ segs[i] \in Seq(S) /\ Escaped(segs)[i] = EscapePointerSegment(segs[i])
                                      /\ Escaped(segs)[i] \in Seq(S) /\ NoSlash(Escaped(segs)[i])
<1> DEFINE n == Len(segs)
           T == Seq(S)
           E == Escaped(segs)
<1>1. n \in Nat /\ \A i \in 1..n : segs[i] \in T
  BY LenProperties, ElementOfSeq
<1>2. {"/", "~", "0", "1"} \subseteq S
  BY DEF PointerChars
<1>3. \A i \in 1..n : EscapePointerSegment(segs[i]) \in T /\ NoSlash(EscapePointerSegment(segs[i]))
  BY <1>1, <1>2, EscapedIs
<1>4. \A i \in 1..n : E[i] = EscapePointerSegment(segs[i])
  BY DEF Escaped
<1> HIDE DEF T
<1>5. E \in Seq(T) /\ Len(E) = n
  BY <1>1, <1>3 DEF Escaped
<1> HIDE DEF E
<1> QED BY <1>1, <1>3, <1>4, <1>5 DEF E, T

\* A pointer is a slash and the segments as they are written, with slashes between them.
LEMMA PointerJoined ==
    ASSUME NEW S, PointerChars \subseteq S, NEW segs \in Seq(Seq(S)), segs # <<>>
    PROVE  Pointer(segs) = <<"/">> \o Joined(Escaped(segs))
<1> DEFINE n == Len(segs)
           E == Escaped(segs)
           slash == <<"/">>
<1>1. /\ E \in Seq(Seq(S)) /\ Len(E) = n /\ n \in Nat
      /\ \A i \in 1..n : E[i] \in Seq(S) /\ E[i] = EscapePointerSegment(segs[i])
  BY EscapedType
<1>2. slash \in Seq(S) /\ "/" \in S /\ n # 0
  BY EmptySeq DEF PointerChars
<1> HIDE DEF E
<1>3. PICK flat : PointerAlong(flat, segs, S)
  BY PointerChain
<1>4. PICK J : JoinedAlong(J, E, S)
  BY <1>1, <1>2, JoinedChain
<1>5. /\ flat[0] = <<>> /\ Pointer(segs) = flat[n]
      /\ \A k \in 1..n : flat[k] = flat[k - 1] \o (slash \o E[k])
  BY <1>1, <1>3 DEF PointerAlong
<1>6. /\ J \in [0..n -> Seq(S)] /\ Joined(E) = J[n]
      /\ \A k \in 1..n : J[k] = JoinStep(J[k - 1], E, k)
  BY <1>1, <1>4 DEF JoinedAlong
<1> DEFINE P == {k \in 0..n : k # 0 => flat[k] = slash \o J[k]}
<1>7. 0 \in P
  BY <1>1
<1>8. \A k \in 1..n : k - 1 \in P => k \in P
  <2> SUFFICES ASSUME NEW k \in 1..n, k - 1 \in P PROVE k \in P
    OBVIOUS
  <2> DEFINE a == J[k - 1]
             e == E[k]
  <2>1. k \in 0..n /\ k - 1 \in 0..n /\ (k # 1 => k - 1 # 0)
    BY <1>1
  <2>2. a \in Seq(S) /\ e \in Seq(S)
    BY <1>1, <1>6, <2>1
  <2>3. flat[k] = flat[k - 1] \o (slash \o e)
    BY <1>5
  <2>4. k # 1 => flat[k - 1] = slash \o a
    BY <2>1
  <2>5. J[k] = IF k = 1 THEN e ELSE (a \o slash) \o e
    BY <1>6 DEF JoinStep
  <2> HIDE DEF a, e, slash
  <2>6. slash \o e \in Seq(S)
    BY <1>2, <2>2, ConcatProperties
  <2>7. CASE k = 1
    <3>1. flat[k - 1] = <<>>
      BY <1>5, <2>7
    <3>2. <<>> \o (slash \o e) = slash \o e
      BY <2>6, ConcatEmptySeq
    <3> QED BY <2>1, <2>3, <2>5, <2>7, <3>1, <3>2
  <2>8. CASE k # 1
    <3>0. \A x, y, z \in Seq(S) : (x \o y) \o z = x \o (y \o z)
      BY SMTT(30), ConcatAssociative
    <3>1. (slash \o a) \o (slash \o e) = slash \o (a \o (slash \o e))
      BY <1>2, <2>2, <2>6, <3>0
    <3>2. (a \o slash) \o e = a \o (slash \o e)
      BY <1>2, <2>2, <3>0
    <3> QED BY <2>1, <2>3, <2>4, <2>5, <2>8, <3>1, <3>2
  <2> QED BY <2>7, <2>8
<1>9. n \in P
  <2> HIDE DEF P
  <2>1. \A k \in 0..n : k \in P
    BY <1>1, <1>7, <1>8, UpTo
  <2> QED BY <1>1, <2>1
<1>10. flat[n] = slash \o J[n]
  BY <1>2, <1>9
<1> QED BY <1>5, <1>6, <1>10 DEF E

\* What comes after an element.
LEMMA TailAfter ==
    ASSUME NEW S, NEW r \in S, NEW q \in Seq(S)
    PROVE  <<r>> \o q # <<>> /\ Head(<<r>> \o q) = r /\ Tail(<<r>> \o q) = q
<1> DEFINE one == <<r>>
           c == one \o q
<1>1. one \in Seq(S) /\ Len(one) = 1 /\ one[1] = r
  OBVIOUS
<1> HIDE DEF one
<1>2. c \in Seq(S) /\ IsConcat(c, one, q)
  BY <1>1, ConcatIs
<1> HIDE DEF c
<1>3. Len(c) = 1 + Len(q) /\ Len(q) \in Nat /\ (\A i \in 1..1 : c[i] = one[i]) /\ \A i \in 1..Len(q) : c[1 + i] = q[i]
  BY <1>1, <1>2 DEF IsConcat
<1>4. c # <<>> /\ c[1] = r
  BY <1>1, <1>2, <1>3, EmptySeq
<1> DEFINE t == Tail(c)
<1>5. t \in Seq(S) /\ Len(t) = Len(c) - 1 /\ \A i \in 1..Len(t) : t[i] = c[i + 1]
  BY <1>2, <1>4, HeadTailProperties
<1>6. Head(c) = r
  BY <1>4
<1> HIDE DEF t
<1>7. Len(t) = Len(q) /\ \A i \in 1..Len(t) : t[i] = q[i]
  <2>1. Len(t) = Len(q)
    BY <1>3, <1>5
  <2>2. \A i \in 1..Len(t) : i + 1 = 1 + i
    BY <1>3, <2>1
  <2> QED BY <1>3, <1>5, <2>1, <2>2
<1>8. t = q
  BY <1>5, <1>7, SeqEqual
<1> QED BY <1>4, <1>6, <1>8 DEF c, one, t

\* What is split of a pointer is the segments of the path after its first slash.
LEMMA SplitIs ==
    ASSUME NEW S, "/" \in S, NEW q \in Seq(S)
    PROVE  Split(<<"/">> \o q) = Segments(q)
<1> DEFINE c == <<"/">> \o q
<1>1. c # <<>> /\ Head(c) = "/" /\ Tail(c) = q
  BY TailAfter
<1> HIDE DEF c
<1>2. Split(c) = Segments(q)
  BY <1>1 DEF Split, Segments
<1> QED BY <1>2 DEF c

\* What is read of a pointer is what it was made of.
LEMMA PointerReads ==
    ASSUME NEW S, PointerChars \subseteq S, NEW segs \in Seq(Seq(S)), segs # <<<<>>>>
    PROVE  SegmentsOf(Pointer(segs)) = segs
<1> DEFINE n == Len(segs)
           E == Escaped(segs)
           T == Seq(S)
           ptr == Pointer(segs)
<1>1. /\ E \in Seq(T) /\ Len(E) = n /\ n \in Nat
      /\ \A i \in 1..n : segs[i] \in T /\ E[i] \in T /\ E[i] = EscapePointerSegment(segs[i]) /\ NoSlash(E[i])
  BY EscapedType
<1>2. "/" \in S /\ {"/", "~", "0", "1"} \subseteq S /\ segs \in Seq(T)
  BY DEF PointerChars
<1> HIDE DEF E
<1>3. \A i \in 1..n : UnescapePointerSegment(E[i]) = segs[i] /\ (E[i] = <<>> => segs[i] = <<>>)
  <2> TAKE i \in 1..n
  <2>1. segs[i] \in Seq(S) /\ E[i] = EscapePointerSegment(segs[i])
    BY <1>1
  <2> DEFINE s == segs[i]
             e == E[i]
  <2>2. s \in Seq(S) /\ e = EscapePointerSegment(s)
    BY <2>1
  <2> HIDE DEF s, e
  <2>3. UnescapePointerSegment(e) = s /\ (e = <<>> => s = <<>>)
    BY <1>2, <2>2, EscapedIs
  <2> QED BY <2>3 DEF s, e
<1>4. CASE segs = <<>>
  <2>1. ptr = <<>>
    <3>1. PICK flat : PointerAlong(flat, segs, S)
      BY PointerChain
    <3>2. Len(segs) = 0
      BY <1>4
    <3> QED BY <3>1, <3>2 DEF PointerAlong
  <2> HIDE DEF ptr
  <2>2. SegmentsOf(ptr) = <<>>
    BY <2>1 DEF SegmentsOf
  <2> QED BY <1>4, <2>2 DEF ptr
<1>5. CASE segs # <<>>
  <2> DEFINE q == Joined(E)
  <2>1. n # 0 /\ E # <<>>
    BY <1>1, <1>2, <1>5, EmptySeq
  <2>2. ptr = <<"/">> \o q
    BY <1>5, PointerJoined DEF E
  <2>3. q \in Seq(S) /\ Segments(q) = E
    <3>1. E \in Seq(Seq(S)) /\ \A k \in 1..Len(E) : NoSlash(E[k])
      BY <1>1
    <3> QED BY <1>2, <2>1, <3>1, SegmentsOfJoined
  <2> HIDE DEF q, ptr
  <2>4. Split(ptr) = E
    BY <1>2, <2>2, <2>3, SplitIs
  <2>5. ptr # <<>>
    BY <1>2, <2>2, <2>3, TailAfter
  <2>6. ptr # <<"/">>
    <3> SUFFICES ASSUME ptr = <<"/">> PROVE FALSE
      OBVIOUS
    <3>1. Tail(ptr) = q
      BY SMTT(30), <1>2, <2>2, <2>3, TailAfter
    <3>2. q = <<>>
      BY <3>1
    <3>3. E = <<<<>>>>
      <4> DEFINE r == <<>>
      <4>1. r \in Seq(S) /\ NoSlash(r)
        BY EmptySeq DEF NoSlash
      <4> HIDE DEF r
      <4>2. Segments(r) = <<r>>
        BY <4>1, SegmentsOfOne
      <4> QED BY <2>3, <3>2, <4>2 DEF r
    <3>4. n = 1 /\ E[1] = <<>>
      BY <1>1, <3>3
    <3>5. segs[1] = <<>>
      BY <1>3, <3>4
    <3> HIDE DEF T
    <3>6. segs = <<<<>>>>
      <4>1. segs \in [1..1 -> T]
        BY <1>2, <3>4, LenProperties
      <4>2. segs = [i \in 1..1 |-> <<>>]
        BY <3>5, <4>1
      <4>3. <<<<>>>> = [i \in 1..1 |-> <<>>]
        OBVIOUS
      <4> QED BY <4>2, <4>3
    <3> QED BY <3>6
  <2>7. SegmentsOf(ptr) = [i \in 1..n |-> UnescapePointerSegment(E[i])]
    BY <1>1, <2>4, <2>5, <2>6 DEF SegmentsOf
  <2>8. [i \in 1..n |-> UnescapePointerSegment(E[i])] = segs
    <3> HIDE DEF T
    <3>1. segs \in [1..n -> T]
      BY <1>2, LenProperties
    <3> QED BY <1>3, <3>1
  <2> QED BY <2>7, <2>8 DEF ptr
<1> QED BY <1>4, <1>5

\* The last slash of a pointer is before its last segment.
LEMMA SplitPointerIs ==
    ASSUME NEW S, PointerChars \subseteq S, NEW segs \in Seq(Seq(S)), segs # <<>>
    PROVE  /\ SplitPointer(Pointer(segs)).parent = Pointer(Front(segs))
           /\ UnescapePointerSegment(SplitPointer(Pointer(segs)).key) = Last(segs)
<1> DEFINE n == Len(segs)
           ptr == Pointer(segs)
           e == EscapePointerSegment(segs[n])
           slash == <<"/">>
           slashes == {i \in 1..Len(ptr) : ptr[i] = "/"}
<1>1. PICK flat : PointerAlong(flat, segs, S)
  BY PointerChain
<1> DEFINE a == flat[n - 1]
           w == slash \o e
           p == Len(a) + 1
<1>2. n \in Nat /\ n - 1 \in 0..n /\ n \in 1..n /\ "/" \in S /\ {"/", "~", "0", "1"} \subseteq S
  BY LenProperties, EmptySeq DEF PointerChars
<1>3. segs[n] \in Seq(S)
  BY <1>2, EscapedType
<1>4. e \in Seq(S) /\ NoSlash(e) /\ UnescapePointerSegment(e) = segs[n]
  BY <1>2, <1>3, EscapedIs
<1>5. a \in Seq(S) /\ ptr = a \o w /\ a = Pointer(Front(segs))
  BY <1>1, <1>2, PointerOfFront DEF PointerAlong
<1>6. slash \in Seq(S) /\ Len(slash) = 1 /\ slash[1] = "/"
  BY <1>2
<1> HIDE DEF e, a, slash, ptr
<1>7. w \in Seq(S) /\ IsConcat(w, slash, e)
  BY <1>4, <1>6, ConcatIs
<1> HIDE DEF w
<1>8. ptr \in Seq(S) /\ IsConcat(ptr, a, w)
  BY <1>5, <1>7, ConcatIs
<1>9. Len(a) \in Nat /\ Len(e) \in Nat /\ Len(ptr) = Len(a) + 1 + Len(e) /\ Len(w) = 1 + Len(e)
  BY <1>6, <1>7, <1>8 DEF IsConcat
<1>10. ptr[p] = "/"
  <2>1. 1 \in 1..Len(w) /\ 1 \in 1..Len(slash)
    BY <1>6, <1>9
  <2> QED BY <1>6, <1>7, <1>8, <2>1 DEF IsConcat
<1>11. \A i \in 1..Len(e) : ptr[p + i] = e[i]
  <2> TAKE i \in 1..Len(e)
  <2>1. 1 + i \in 1..Len(w) /\ Len(a) + (1 + i) = p + i
    BY <1>9
  <2>2. ptr[Len(a) + (1 + i)] = w[1 + i]
    BY <1>8, <2>1 DEF IsConcat
  <2>3. w[1 + i] = e[i]
    BY <1>6, <1>7 DEF IsConcat
  <2> QED BY <2>1, <2>2, <2>3
<1>12. \A i \in slashes : i <= p
  <2> SUFFICES ASSUME NEW i \in 1..Len(ptr), i > p PROVE ptr[i] # "/"
    BY <1>9
  <2>1. i - p \in 1..Len(e) /\ p + (i - p) = i
    BY <1>9
  <2> QED BY <1>4, <1>11, <2>1 DEF NoSlash
<1>13. p \in slashes /\ slashes \in SUBSET Int
  BY <1>9, <1>10
<1> HIDE DEF slashes
<1>14. Max(slashes) = p /\ slashes # {}
  BY <1>12, <1>13, MaxIs
<1>15. SplitPointer(ptr) = [parent |-> SubSeq(ptr, 1, p - 1), key |-> SubSeq(ptr, p + 1, Len(ptr))]
  BY <1>14 DEF SplitPointer, slashes
<1> HIDE DEF p
<1>16. p \in Nat /\ Len(a) = p - 1 /\ Len(ptr) = p + Len(e)
  BY <1>9 DEF p
<1>17. \A m, l \in Int : 1 <= m /\ l <= Len(ptr) =>
            /\ SubSeq(ptr, m, l) \in Seq(S) /\ Len(SubSeq(ptr, m, l)) = (IF m <= l THEN l - m + 1 ELSE 0)
            /\ \A i \in 1..(l - m + 1) : SubSeq(ptr, m, l)[i] = ptr[m + i - 1]
  <2> TAKE m, l \in Int
  <2> HAVE 1 <= m /\ l <= Len(ptr)
  <2>1. \A i \in m..l : i \in 1..Len(ptr)
    BY <1>9
  <2>2. \A i \in m..l : ptr[i] \in S
    BY <1>8, <2>1, ElementOfSeq
  <2> QED BY <2>2, SubSeqProperties
<1>18. SubSeq(ptr, 1, p - 1) = a
  <2> DEFINE b == SubSeq(ptr, 1, p - 1)
  <2> DEFINE l == p - 1
  <2>1. b \in Seq(S) /\ Len(b) = Len(a) /\ \A i \in 1..Len(a) : b[i] = ptr[1 + i - 1]
    <3>1. l \in Int /\ 1 \in Int /\ 1 <= 1 /\ l <= Len(ptr) /\ l - 1 + 1 = Len(a) /\ (~(1 <= l) => 0 = Len(a))
      BY <1>9, <1>16
    <3>2. b = SubSeq(ptr, 1, l)
      OBVIOUS
    <3> HIDE DEF l, b
    <3>3. /\ SubSeq(ptr, 1, l) \in Seq(S) /\ Len(SubSeq(ptr, 1, l)) = (IF 1 <= l THEN l - 1 + 1 ELSE 0)
          /\ \A i \in 1..(l - 1 + 1) : SubSeq(ptr, 1, l)[i] = ptr[1 + i - 1]
      BY <1>17, <3>1
    <3> QED BY <3>1, <3>2, <3>3
  <2>2. \A i \in 1..Len(a) : 1 + i - 1 = i
    BY <1>9
  <2> HIDE DEF b
  <2>3. \A i \in 1..Len(b) : b[i] = a[i]
    BY <1>8, <2>1, <2>2 DEF IsConcat
  <2>4. b = a
    BY <1>5, <2>1, <2>3, SeqEqual
  <2> QED BY <2>4 DEF b
<1>19. SubSeq(ptr, p + 1, Len(ptr)) = e
  <2> DEFINE l == Len(ptr)
             m == p + 1
             b == SubSeq(ptr, m, l)
  <2>1. b \in Seq(S) /\ Len(b) = Len(e) /\ \A i \in 1..Len(e) : b[i] = ptr[p + i]
    <3>1. m \in Int /\ l \in Int /\ 1 <= m /\ l <= Len(ptr) /\ l - m + 1 = Len(e) /\ (~(m <= l) => 0 = Len(e))
          /\ \A i \in 1..Len(e) : m + i - 1 = p + i
      BY <1>9, <1>16
    <3>2. /\ b \in Seq(S) /\ Len(b) = (IF m <= l THEN l - m + 1 ELSE 0)
          /\ \A i \in 1..(l - m + 1) : b[i] = ptr[m + i - 1]
      <4> HIDE DEF m, l
      <4> QED BY <1>17, <3>1
    <3> HIDE DEF b, m, l
    <3> QED BY <3>1, <3>2
  <2> HIDE DEF b
  <2>2. \A i \in 1..Len(e) : ptr[p + i] = e[i]
    BY <1>11 DEF p
  <2>3. \A i \in 1..Len(b) : b[i] = e[i]
    BY <2>1, <2>2
  <2>4. b = e
    BY <1>4, <2>1, <2>3, SeqEqual
  <2> QED BY <2>4 DEF b
<1>20. Last(segs) = segs[n]
  BY DEF Last
<1>21. SplitPointer(ptr).parent = a /\ SplitPointer(ptr).key = e
  BY <1>15, <1>18, <1>19
<1>22. SplitPointer(ptr).parent = Pointer(Front(segs)) /\ UnescapePointerSegment(SplitPointer(ptr).key) = Last(segs)
  BY <1>4, <1>5, <1>20, <1>21
<1> QED BY <1>22 DEF ptr

-----------------------------------------------------------------------------
(* Pointers: the path of the parser                                         *)

\* The states of the scan of a path.
Ins == {"none", "dot", "key", "quotes", "index"}
PathScans(S) == {t \in [segs : Seq(Seq(S)), in : Ins] : t.in # "none" => t.segs # <<>>}

ScanBase == [segs |-> <<>>, in |-> "none"]

\* A segment that is read is there.
LEMMA ScannedType ==
    ASSUME NEW S, NEW t \in PathScans(S), NEW c \in S
    PROVE  PathScanned(t, c) \in PathScans(S)
<1> DEFINE T == Seq(S)
           longer == Append(t.segs, <<>>)
           in == t.in
           d == Front(t.segs)
           e == Append(Last(t.segs), c)
           f == Append(d, e)
<1>1. t.segs \in Seq(T) /\ in \in Ins /\ (in # "none" => t.segs # <<>>) /\ <<>> \in T /\ t = [segs |-> t.segs, in |-> in]
  BY EmptySeq DEF PathScans
<1>2. longer \in Seq(T) /\ longer # <<>>
  <2> HIDE DEF T
  <2> QED BY <1>1, AppendProperties
<1>3. ASSUME t.segs # <<>> PROVE f \in Seq(T) /\ f # <<>>
  <2>1. Last(t.segs) \in T /\ d \in Seq(T)
    <3> HIDE DEF T
    <3>1. Len(t.segs) \in Nat \ {0} /\ t.segs \in [1..Len(t.segs) -> T]
      BY <1>1, <1>3, EmptySeq, LenProperties
    <3> QED BY <1>1, <1>3, <3>1, FrontIs DEF Last
  <2>2. e \in T
    BY <2>1, AppendProperties
  <2> HIDE DEF T, e, d
  <2> QED BY <2>1, <2>2, AppendProperties
<1> DEFINE next == PathScanned(t, c)
<1>4. \/ next = [segs |-> t.segs, in |-> "none"]
      \/ in # "none" /\ next = [segs |-> t.segs, in |-> "quotes"]
      \/ next = [segs |-> longer, in |-> "dot"]
      \/ next = [segs |-> longer, in |-> "index"]
      \/ next = t
      \/ in # "none" /\ next = [segs |-> f, in |-> IF in = "dot" THEN "key" ELSE in]
  BY DEF PathScanned
<1> HIDE DEF next, f, longer, in, T
<1>5. ASSUME NEW segs \in Seq(T), NEW i \in Ins, i = "none" \/ segs # <<>> PROVE [segs |-> segs, in |-> i] \in PathScans(S)
  BY <1>5 DEF PathScans, T
<1>6. /\ "none" \in Ins /\ "quotes" \in Ins /\ "dot" \in Ins /\ "index" \in Ins
      /\ (IF in = "dot" THEN "key" ELSE in) \in Ins
  BY <1>1 DEF Ins
<1>7. next \in PathScans(S)
  <2>1. CASE next = [segs |-> t.segs, in |-> "none"]
    BY <1>1, <1>5, <1>6, <2>1
  <2>2. CASE in # "none" /\ next = [segs |-> t.segs, in |-> "quotes"]
    BY <1>1, <1>5, <1>6, <2>2
  <2>3. CASE next = [segs |-> longer, in |-> "dot"]
    BY <1>2, <1>5, <1>6, <2>3
  <2>4. CASE next = [segs |-> longer, in |-> "index"]
    BY <1>2, <1>5, <1>6, <2>4
  <2>5. CASE in # "none" /\ next = [segs |-> f, in |-> IF in = "dot" THEN "key" ELSE in]
    <3>1. f \in Seq(T) /\ f # <<>>
      BY <1>1, <1>3, <2>5
    <3> DEFINE i == IF in = "dot" THEN "key" ELSE in
    <3>2. i \in Ins /\ next = [segs |-> f, in |-> i]
      BY <1>6, <2>5
    <3> HIDE DEF i
    <3> QED BY <1>5, <3>1, <3>2
  <2> QED BY <1>4, <2>1, <2>2, <2>3, <2>4, <2>5
<1> QED BY <1>7 DEF next

\* The scan goes along the characters.
ScanAlong(g, u, S) ==
    /\ g \in [0..Len(u) -> PathScans(S)] /\ g[0] = ScanBase
    /\ FoldLeft(PathScanned, ScanBase, u) = g[Len(u)]
    /\ \A k \in 1..Len(u) : g[k] = PathScanned(g[k - 1], u[k])

\* The scan goes along the characters.
LEMMA ScansChain ==
    ASSUME NEW S, NEW u \in Seq(S)
    PROVE  \E g : ScanAlong(g, u, S)
<1> DEFINE n == Len(u)
           St == PathScans(S)
           step == [x \in St \X (1..n) |-> PathScanned(x[1], u[x[2]])]
           Body(h) == [s \in SUBSET (1..n) |->
                          IF s = {} THEN ScanBase ELSE PathScanned(h[s \ {Max(s)}], u[Max(s)])]
           iter == CHOOSE h : h = Body(h)
<1>0. n \in Nat /\ DOMAIN u = 1..n /\ ScanBase \in St /\ \A k \in 1..n : u[k] \in S
  <2>1. <<>> \in Seq(Seq(S))
    BY EmptySeq
  <2>2. ScanBase \in St
    BY <2>1 DEF PathScans, ScanBase, Ins
  <2> QED BY <2>2, LenProperties, ElementOfSeq
<1>1. step \in [St \X (1..n) -> St]
  <2> SUFFICES ASSUME NEW t \in St, NEW k \in 1..n PROVE PathScanned(t, u[k]) \in St
    OBVIOUS
  <2> QED BY <1>0, ScannedType
<1>2. PICK h, g : FoldOf(h, g, n, St, ScanBase, step)
  <2> HIDE DEF step, n, St
  <2> QED BY <1>0, <1>1, Chain
<1>3. h \in [SUBSET (1..n) -> St] /\ g \in [0..n -> St] /\ g[0] = ScanBase
  BY <1>2 DEF FoldOf
<1>4. \A k \in 1..n : g[k] = PathScanned(g[k - 1], u[k])
  <2> TAKE k \in 1..n
  <2>1. g[k] = step[<<g[k - 1], k>>]
    BY <1>2 DEF FoldOf
  <2>2. k - 1 \in 0..n
    BY <1>0
  <2>3. g[k - 1] \in St
    BY <1>3, <2>2
  <2> HIDE DEF St
  <2> QED BY <2>1, <2>3
<1>5. h = Body(h)
  <2> SUFFICES ASSUME NEW s \in SUBSET (1..n) PROVE h[s] = Body(h)[s]
    BY <1>3
  <2>1. h[s] = IF s = {} THEN ScanBase ELSE step[<<h[s \ {Max(s)}], Max(s)>>]
    BY <1>2 DEF FoldOf, IsFold
  <2>2. CASE s = {}
    BY <2>1, <2>2
  <2>3. CASE s # {}
    <3>1. Max(s) \in 1..n
      BY <1>0, <2>3, MaxIn
    <3>2. h[s \ {Max(s)}] \in St
      BY <1>3
    <3> HIDE DEF St
    <3> QED BY <2>1, <2>3, <3>1, <3>2
  <2> QED BY <2>2, <2>3
<1>6. iter = Body(iter)
  <2> HIDE DEF Body
  <2> QED BY <1>5
<1>7. FoldLeft(PathScanned, ScanBase, u) = iter[1..n]
  BY <1>0 DEF FoldLeft, MapThenFoldSet
<1> HIDE DEF iter
<1>8. iter[1..n] = g[n]
  <2>1. iter[{}] = ScanBase
    BY <1>6
  <2>2. ASSUME NEW s \in SUBSET (1..n), s # {}, iter[s \ {Max(s)}] \in St
        PROVE  iter[s] = step[<<iter[s \ {Max(s)}], Max(s)>>]
    <3>1. Max(s) \in 1..n
      BY <1>0, <2>2, MaxIn
    <3>2. iter[s] = Body(iter)[s]
      BY <1>6
    <3> HIDE DEF St
    <3> QED BY <2>2, <3>1, <3>2
  <2> HIDE DEF step, n, Body, St
  <2>3. Steps(iter, n, St, ScanBase, step)
    BY <2>1, <2>2 DEF Steps
  <2> QED BY <1>0, <1>2, <2>3, FoldsAlong
<1>9. ScanAlong(g, u, S)
  BY <1>3, <1>4, <1>7, <1>8 DEF ScanAlong
<1> QED BY <1>9

\* A character is one more of the segment that is read.
Takes(in, c) ==
    /\ in \in {"dot", "quotes", "index"}
    /\ in = "quotes" => c # "'"
    /\ in = "index" => c # "]"
    /\ in = "dot" => c \notin {".", "[", "'"}

StillFrom(in) == IF in = "dot" THEN {"dot", "key"} ELSE {in}

\* The scan has read segs, and is still in the last of them.
StillIn(t, segs, in) == \E d \in StillFrom(in) : t = [segs |-> segs, in |-> d]

\* One more character is read.
LEMMA ScannedIn ==
    ASSUME NEW S, NEW X \in Seq(Seq(S)), NEW w \in Seq(S), NEW c, NEW in, Takes(in, c), NEW b \in StillFrom(in)
    PROVE  StillIn(PathScanned([segs |-> Append(X, w), in |-> b], c), Append(X, Append(w, c)), in)
<1> DEFINE T == Seq(S)
           Y == Append(X, w)
           t == [segs |-> Y, in |-> b]
<1>1. X \in Seq(T) /\ w \in T
  OBVIOUS
<1> HIDE DEF T
<1>2. Front(Y) = X /\ Last(Y) = w
  BY <1>1, FrontLast
<1> HIDE DEF Y
<1>3. t.segs = Y /\ t.in = b
  OBVIOUS
<1> HIDE DEF t
<1>4. /\ ~((b = "quotes" /\ c = "'") \/ (b = "index" /\ c = "]"))
      /\ ~(b = "dot" /\ c = "'") /\ ~(b \in {"none", "key", "dot"} /\ c \in {".", "["}) /\ b # "none"
  BY DEF Takes, StillFrom
<1>5. PathScanned(t, c) = [segs |-> Append(X, Append(w, c)), in |-> IF b = "dot" THEN "key" ELSE b]
  BY <1>2, <1>3, <1>4 DEF PathScanned
<1> DEFINE d == IF b = "dot" THEN "key" ELSE b
<1>6. d \in StillFrom(in)
  BY DEF Takes, StillFrom
<1>7. PathScanned(t, c) = [segs |-> Append(X, Append(w, c)), in |-> d]
  BY <1>5
<1> HIDE DEF d
<1> QED BY <1>6, <1>7 DEF t, Y, StillIn

\* The scan is at p in u, with X read and text begun.
LEMMA ReadRun ==
    ASSUME NEW S, NEW u \in Seq(S), NEW g, ScanAlong(g, u, S), NEW X \in Seq(Seq(S)), NEW in,
           NEW text \in Seq(S), \A j \in 1..Len(text) : Takes(in, text[j]), in \in {"dot", "quotes", "index"},
           NEW p, NEW q, PartAt(u, p, text, q), g[p] = [segs |-> Append(X, <<>>), in |-> in]
    PROVE  StillIn(g[q], Append(X, text), in)
<1> DEFINE n == Len(text)
           w == [m \in 0..n |-> SubSeq(text, 1, m)]
           Is(m) == StillIn(g[p + m], Append(X, w[m]), in)
           P == {m \in 0..n : Is(m)}
<1>1. n \in Nat /\ p \in Nat /\ q = p + n /\ q <= Len(u) /\ Len(u) \in Nat /\ p + 0 = p
  BY LenProperties DEF PartAt
<1>2. \A m \in 1..n : w[m] = Append(w[m - 1], text[m]) /\ w[m - 1] \in Seq(S) /\ u[p + m] = text[m]
  <2> TAKE m \in 1..n
  <2>1. SubSeq(text, 1, m) = Append(SubSeq(text, 1, m - 1), text[m]) /\ SubSeq(text, 1, m - 1) \in Seq(S)
    BY OneMore
  <2>2. m - 1 \in 0..n /\ m \in 0..n
    BY <1>1
  <2>3. u[p + m] = text[m]
    BY DEF PartAt
  <2> QED BY <2>1, <2>2, <2>3
<1>3. w[0] = <<>> /\ w[n] = text /\ in \in StillFrom(in)
  <2>1. SubSeq(text, 1, 0) = <<>>
    BY SubSeqEmpty
  <2>2. SubSeq(text, 1, n) = text
    BY SubSeqFull
  <2>3. 0 \in 0..n /\ n \in 0..n
    BY <1>1
  <2> QED BY <2>1, <2>2, <2>3 DEF StillFrom
<1> HIDE DEF w
<1>4. 0 \in P
  <2>1. Is(0)
    BY <1>1, <1>3 DEF StillIn
  <2> HIDE DEF Is
  <2> QED BY <1>1, <2>1
<1>5. \A m \in 1..n : m - 1 \in P => m \in P
  <2> SUFFICES ASSUME NEW m \in 1..n, m - 1 \in P PROVE m \in P
    OBVIOUS
  <2>1. m \in 0..n /\ p + (m - 1) = p + m - 1 /\ p + m \in 1..Len(u)
    BY <1>1
  <2>2. PICK b \in StillFrom(in) : g[p + (m - 1)] = [segs |-> Append(X, w[m - 1]), in |-> b]
    BY DEF StillIn
  <2> DEFINE e == p + m
             v == w[m - 1]
             c == text[m]
  <2>a. e \in 1..Len(u) /\ e - 1 = p + (m - 1)
    BY <1>1, <2>1
  <2>b. u[e] = c /\ v \in Seq(S) /\ Takes(in, c) /\ w[m] = Append(v, c)
    BY <1>2
  <2>3. g[e - 1] = [segs |-> Append(X, v), in |-> b]
    BY <2>2, <2>a
  <2> HIDE DEF e, v, c
  <2>4. g[e] = PathScanned([segs |-> Append(X, v), in |-> b], c)
    <3>1. g[e] = PathScanned(g[e - 1], u[e])
      BY <2>a DEF ScanAlong
    <3> QED BY <2>3, <2>b, <3>1
  <2>5. StillIn(PathScanned([segs |-> Append(X, v), in |-> b], c), Append(X, Append(v, c)), in)
    BY <2>b, ScannedIn
  <2>6. Is(m)
    BY <2>b, <2>4, <2>5 DEF e
  <2> HIDE DEF Is
  <2> QED BY <2>1, <2>6
<1>6. n \in P
  <2> HIDE DEF P
  <2>1. \A k \in 0..n : k \in P
    BY <1>1, <1>4, <1>5, UpTo
  <2> QED BY <1>1, <2>1
<1>7. Is(n)
  <2> HIDE DEF Is
  <2> QED BY <1>6
<1> QED BY <1>1, <1>3, <1>7

\* A part of a path made of two is two parts of it.
LEMMA PartsAt ==
    ASSUME NEW S, NEW a \in Seq(S), NEW b \in Seq(S), NEW u, NEW p, NEW q, PartAt(u, p, a \o b, q), Len(u) \in Nat
    PROVE  PartAt(u, p, a, p + Len(a)) /\ PartAt(u, p + Len(a), b, q)
<1> DEFINE c == a \o b
<1>1. IsConcat(c, a, b)
  BY ConcatIs
<1>2. PartAt(u, p, c, q)
  OBVIOUS
<1> HIDE DEF c
<1>3. Len(a) \in Nat /\ Len(b) \in Nat /\ Len(c) = Len(a) + Len(b) /\ p \in Nat /\ q = p + Len(c) /\ q <= Len(u)
  BY <1>1, <1>2 DEF IsConcat, PartAt
<1>4. \A j \in 1..Len(a) : u[p + j] = a[j]
  <2> TAKE j \in 1..Len(a)
  <2>1. j \in 1..Len(c)
    BY <1>3
  <2> QED BY <1>1, <1>2, <2>1 DEF IsConcat, PartAt
<1>5. \A j \in 1..Len(b) : u[p + Len(a) + j] = b[j]
  <2> TAKE j \in 1..Len(b)
  <2>1. Len(a) + j \in 1..Len(c) /\ p + (Len(a) + j) = p + Len(a) + j
    BY <1>3
  <2>2. u[p + (Len(a) + j)] = c[Len(a) + j]
    BY <1>2, <2>1 DEF PartAt
  <2> QED BY <1>1, <2>1, <2>2 DEF IsConcat
<1> QED BY <1>3, <1>4, <1>5 DEF PartAt

\* A character is read by a step of the scan.
LEMMA ReadOne ==
    ASSUME NEW S, NEW u \in Seq(S), NEW g, ScanAlong(g, u, S), NEW c, NEW p, NEW q, PartAt(u, p, <<c>>, q)
    PROVE  q = p + 1 /\ g[q] = PathScanned(g[p], c)
<1> DEFINE one == <<c>>
<1>1. Len(one) = 1 /\ one[1] = c /\ Len(u) \in Nat /\ 1 \in 1..1
  BY LenProperties
<1>2. PartAt(u, p, one, q)
  OBVIOUS
<1> HIDE DEF one
<1>3. p \in Nat /\ q = p + 1 /\ q <= Len(u) /\ u[p + 1] = c
  BY <1>1, <1>2 DEF PartAt
<1>4. q \in 1..Len(u) /\ q - 1 = p
  BY <1>1, <1>3
<1> QED BY <1>3, <1>4 DEF ScanAlong

PathMarks == {".", "[", "]", "'", "$"}
SegmentsIn(S) == [text : Seq(S), index : BOOLEAN]

\* Between segments, where a key may end too.
BetweenSegments(t, segs) == \E d \in {"none", "key", "dot"} : t = [segs |-> segs, in |-> d]

\* A dot and a bracket start a segment.
LEMMA Opens ==
    ASSUME NEW t, NEW X, BetweenSegments(t, X)
    PROVE  /\ PathScanned(t, ".") = [segs |-> Append(X, <<>>), in |-> "dot"]
           /\ PathScanned(t, "[") = [segs |-> Append(X, <<>>), in |-> "index"]
<1>1. PICK d \in {"none", "key", "dot"} : t = [segs |-> X, in |-> d]
  BY DEF BetweenSegments
<1>2. t.segs = X /\ t.in = d
  BY <1>1
<1>3. d # "quotes" /\ d # "index" /\ "." # "'" /\ "[" # "'"
  OBVIOUS
<1> QED BY <1>2, <1>3 DEF PathScanned

\* A bracket and a quote end one, and a quote after a dot is not of the key.
LEMMA Closes ==
    ASSUME NEW Y
    PROVE  /\ BetweenSegments(PathScanned([segs |-> Y, in |-> "index"], "]"), Y)
           /\ BetweenSegments(PathScanned([segs |-> Y, in |-> "quotes"], "'"), Y)
           /\ PathScanned([segs |-> Y, in |-> "dot"], "'") = [segs |-> Y, in |-> "quotes"]
<1>1. PathScanned([segs |-> Y, in |-> "index"], "]") = [segs |-> Y, in |-> "none"]
  BY DEF PathScanned
<1>2. PathScanned([segs |-> Y, in |-> "quotes"], "'") = [segs |-> Y, in |-> "none"]
  BY DEF PathScanned
<1>3. PathScanned([segs |-> Y, in |-> "dot"], "'") = [segs |-> Y, in |-> "quotes"]
  BY DEF PathScanned
<1> QED BY <1>1, <1>2, <1>3 DEF BetweenSegments

\* An index is read up to its bracket.
LEMMA ReadIndex ==
    ASSUME NEW S, PathMarks \subseteq S, NEW u \in Seq(S), NEW g, ScanAlong(g, u, S), NEW X \in Seq(Seq(S)),
           NEW text \in Seq(S), NowhereIn(text, "]"), NEW p, NEW q,
           PartAt(u, p, (<<"[">> \o text) \o <<"]">>, q), BetweenSegments(g[p], X)
    PROVE  BetweenSegments(g[q], Append(X, text))
<1> DEFINE open == <<"[">>
           close == <<"]">>
           a == open \o text
<1>1. open \in Seq(S) /\ close \in Seq(S) /\ Len(u) \in Nat
  BY LenProperties DEF PathMarks
<1>2. a \in Seq(S)
  BY <1>1, ConcatProperties
<1>3. PartAt(u, p, a, p + Len(a)) /\ PartAt(u, p + Len(a), close, q)
  <2> HIDE DEF a, close
  <2>1. PartAt(u, p, a \o close, q)
    BY DEF a, close
  <2> QED BY <1>1, <1>2, <2>1, PartsAt
<1> DEFINE r == p + Len(a)
<1>4. PartAt(u, p, open, p + Len(open)) /\ PartAt(u, p + Len(open), text, r)
  <2> HIDE DEF r, open
  <2>1. PartAt(u, p, open \o text, r)
    BY <1>3 DEF a, r
  <2> QED BY <1>1, <2>1, PartsAt
<1> DEFINE l == p + Len(open)
<1>5. g[l] = PathScanned(g[p], "[")
  <2>1. PartAt(u, p, <<"[">>, l)
    BY <1>4
  <2> HIDE DEF l
  <2> QED BY <2>1, ReadOne
<1>6. g[q] = PathScanned(g[r], "]")
  <2>1. PartAt(u, r, <<"]">>, q)
    BY <1>3
  <2> HIDE DEF r
  <2> QED BY <2>1, ReadOne
<1>7. PartAt(u, l, text, r)
  BY <1>4
<1> HIDE DEF l, r, a, open, close
<1>8. g[l] = [segs |-> Append(X, <<>>), in |-> "index"]
  BY <1>5, Opens
<1>9. \A j \in 1..Len(text) : Takes("index", text[j])
  BY DEF Takes, NowhereIn
<1>10. StillIn(g[r], Append(X, text), "index")
  <2> DEFINE in == "index"
  <2>1. in \in {"dot", "quotes", "index"} /\ (\A j \in 1..Len(text) : Takes(in, text[j]))
        /\ g[l] = [segs |-> Append(X, <<>>), in |-> in]
    BY <1>8, <1>9
  <2> HIDE DEF in
  <2>2. StillIn(g[r], Append(X, text), in)
    BY <1>7, <2>1, ReadRun
  <2> QED BY <2>2 DEF in
<1>11. g[r] = [segs |-> Append(X, text), in |-> "index"]
  BY <1>10 DEF StillIn, StillFrom
<1> QED BY <1>6, <1>11, Closes

\* A key is read up to what starts the next segment.
LEMMA ReadKey ==
    ASSUME NEW S, PathMarks \subseteq S, NEW u \in Seq(S), NEW g, ScanAlong(g, u, S), NEW X \in Seq(Seq(S)),
           NEW text \in Seq(S), NowhereIn(text, "'"), NowhereIn(text, "."), NowhereIn(text, "["), NEW p, NEW q,
           PartAt(u, p, <<".">> \o text, q), BetweenSegments(g[p], X)
    PROVE  BetweenSegments(g[q], Append(X, text))
<1> DEFINE open == <<".">>
           l == p + Len(open)
<1>1. open \in Seq(S) /\ Len(u) \in Nat
  BY LenProperties DEF PathMarks
<1>2. PartAt(u, p, open, p + Len(open)) /\ PartAt(u, p + Len(open), text, q)
  <2> HIDE DEF open
  <2>1. PartAt(u, p, open \o text, q)
    BY DEF open
  <2> QED BY <1>1, <2>1, PartsAt
<1>3. g[l] = PathScanned(g[p], ".")
  <2>1. PartAt(u, p, <<".">>, l)
    BY <1>2
  <2> HIDE DEF l
  <2> QED BY <2>1, ReadOne
<1>4. PartAt(u, l, text, q)
  BY <1>2
<1> HIDE DEF l, open
<1>5. g[l] = [segs |-> Append(X, <<>>), in |-> "dot"]
  BY <1>3, Opens
<1>6. \A j \in 1..Len(text) : Takes("dot", text[j])
  BY DEF Takes, NowhereIn
<1>7. StillIn(g[q], Append(X, text), "dot")
  <2> DEFINE in == "dot"
  <2>1. in \in {"dot", "quotes", "index"} /\ (\A j \in 1..Len(text) : Takes(in, text[j]))
        /\ g[l] = [segs |-> Append(X, <<>>), in |-> in]
    BY <1>5, <1>6
  <2> HIDE DEF in
  <2>2. StillIn(g[q], Append(X, text), in)
    BY <1>4, <2>1, ReadRun
  <2> QED BY <2>2 DEF in
<1> QED BY <1>7 DEF StillIn, StillFrom, BetweenSegments

\* A key in quotes is read up to its quote.
LEMMA ReadQuoted ==
    ASSUME NEW S, PathMarks \subseteq S, NEW u \in Seq(S), NEW g, ScanAlong(g, u, S), NEW X \in Seq(Seq(S)),
           NEW text \in Seq(S), NowhereIn(text, "'"), NEW p, NEW q,
           PartAt(u, p, (<<".", "'">> \o text) \o <<"'">>, q), BetweenSegments(g[p], X)
    PROVE  BetweenSegments(g[q], Append(X, text))
<1> DEFINE open == <<".", "'">>
           close == <<"'">>
           a == open \o text
<1>1. open \in Seq(S) /\ close \in Seq(S) /\ Len(u) \in Nat
  BY LenProperties DEF PathMarks
<1>2. a \in Seq(S)
  BY <1>1, ConcatProperties
<1>3. PartAt(u, p, a, p + Len(a)) /\ PartAt(u, p + Len(a), close, q)
  <2> HIDE DEF a, close
  <2>1. PartAt(u, p, a \o close, q)
    BY DEF a, close
  <2> QED BY <1>1, <1>2, <2>1, PartsAt
<1> DEFINE r == p + Len(a)
<1>4. PartAt(u, p, open, p + Len(open)) /\ PartAt(u, p + Len(open), text, r)
  <2> HIDE DEF r, open
  <2>1. PartAt(u, p, open \o text, r)
    BY <1>3 DEF a, r
  <2> QED BY <1>1, <2>1, PartsAt
<1> DEFINE l == p + Len(open)
<1>5. l = p + 2 /\ p \in Nat /\ p + 2 <= Len(u) /\ u[p + 1] = "." /\ u[p + 2] = "'"
  <2>1. Len(open) = 2 /\ open[1] = "." /\ open[2] = "'" /\ 1 \in 1..2 /\ 2 \in 1..2
    OBVIOUS
  <2> HIDE DEF open
  <2> QED BY <1>4, <2>1 DEF PartAt
<1>6. g[p + 1] = PathScanned(g[p], ".") /\ g[l] = PathScanned(g[p + 1], "'")
  <2>1. p + 1 \in 1..Len(u) /\ p + 1 - 1 = p /\ p + 2 \in 1..Len(u) /\ p + 2 - 1 = p + 1
    BY <1>1, <1>5
  <2>2. \A k \in 1..Len(u) : g[k] = PathScanned(g[k - 1], u[k])
    BY DEF ScanAlong
  <2> DEFINE e == p + 1
             f == p + 2
  <2>3. e \in 1..Len(u) /\ e - 1 = p /\ f \in 1..Len(u) /\ f - 1 = e /\ u[e] = "." /\ u[f] = "'" /\ l = f
    BY <1>5, <2>1
  <2> HIDE DEF l, e, f
  <2>4. g[e] = PathScanned(g[e - 1], u[e]) /\ g[f] = PathScanned(g[f - 1], u[f])
    BY <2>2, <2>3
  <2>5. g[e] = PathScanned(g[p], ".") /\ g[l] = PathScanned(g[e], "'")
    BY <2>3, <2>4
  <2> QED BY <2>5 DEF e
<1>7. g[q] = PathScanned(g[r], "'")
  <2>1. PartAt(u, r, <<"'">>, q)
    BY <1>3
  <2> HIDE DEF r
  <2> QED BY <2>1, ReadOne
<1>8. PartAt(u, l, text, r)
  BY <1>4
<1> HIDE DEF l, r, a, open, close
<1>9. g[p + 1] = [segs |-> Append(X, <<>>), in |-> "dot"]
  BY <1>6, Opens
<1>10. g[l] = [segs |-> Append(X, <<>>), in |-> "quotes"]
  BY <1>6, <1>9, Closes
<1>11. \A j \in 1..Len(text) : Takes("quotes", text[j])
  BY DEF Takes, NowhereIn
<1>12. StillIn(g[r], Append(X, text), "quotes")
  <2> DEFINE in == "quotes"
  <2>1. in \in {"dot", "quotes", "index"} /\ (\A j \in 1..Len(text) : Takes(in, text[j]))
        /\ g[l] = [segs |-> Append(X, <<>>), in |-> in]
    BY <1>10, <1>11
  <2> HIDE DEF in
  <2>2. StillIn(g[r], Append(X, text), in)
    BY <1>8, <2>1, ReadRun
  <2> QED BY <2>2 DEF in
<1>13. g[r] = [segs |-> Append(X, text), in |-> "quotes"]
  BY <1>12 DEF StillIn, StillFrom
<1> QED BY <1>7, <1>13, Closes

\* An index is a number, and a key has no quote.
Plain(seg) == IF seg.index THEN ToSet(seg.text) \subseteq Digits ELSE "'" \notin ToSet(seg.text)

\* What is not an element is nowhere.
LEMMA NotInSet ==
    ASSUME NEW S, NEW s \in Seq(S), NEW x, x \notin ToSet(s)
    PROVE  NowhereIn(s, x)
<1>1. DOMAIN s = 1..Len(s)
  BY LenProperties
<1> QED BY <1>1 DEF ToSet, NowhereIn

\* A path is made of the characters of its texts, and marks.
LEMMA PathPartType ==
    ASSUME NEW S, PathMarks \subseteq S, NEW seg \in SegmentsIn(S)
    PROVE  PathPart(seg) \in Seq(S) /\ seg.text \in Seq(S)
<1> DEFINE text == seg.text
<1>1. text \in Seq(S)
  BY DEF SegmentsIn
<1>2. <<"[">> \in Seq(S) /\ <<"]">> \in Seq(S) /\ <<".", "'">> \in Seq(S) /\ <<"'">> \in Seq(S) /\ <<".">> \in Seq(S)
  BY DEF PathMarks
<1> HIDE DEF text
<1>3. <<"[">> \o text \in Seq(S) /\ <<".", "'">> \o text \in Seq(S) /\ <<".">> \o text \in Seq(S)
  BY <1>1, <1>2, ConcatProperties
<1>4. (<<"[">> \o text) \o <<"]">> \in Seq(S) /\ (<<".", "'">> \o text) \o <<"'">> \in Seq(S)
  BY <1>2, <1>3, ConcatProperties
<1> QED BY <1>1, <1>3, <1>4 DEF PathPart, text

\* What the parser writes for a segment is read as its text.
LEMMA ReadPart ==
    ASSUME NEW S, PathMarks \subseteq S, NEW u \in Seq(S), NEW g, ScanAlong(g, u, S), NEW X \in Seq(Seq(S)),
           NEW seg \in SegmentsIn(S), Plain(seg), NEW p, NEW q, PartAt(u, p, PathPart(seg), q), BetweenSegments(g[p], X)
    PROVE  BetweenSegments(g[q], Append(X, seg.text))
<1> DEFINE text == seg.text
<1>1. text \in Seq(S)
  BY DEF SegmentsIn
<1>2. CASE seg.index
  <2>1. "]" \notin ToSet(text)
    <3>1. "]" \notin Digits
      BY DEF Digits
    <3> QED BY <1>2, <3>1 DEF Plain
  <2>2. PathPart(seg) = (<<"[">> \o text) \o <<"]">>
    BY <1>2 DEF PathPart
  <2> HIDE DEF text
  <2>3. NowhereIn(text, "]")
    BY <1>1, <2>1, NotInSet
  <2>4. PartAt(u, p, (<<"[">> \o text) \o <<"]">>, q)
    BY <2>2
  <2>5. BetweenSegments(g[q], Append(X, text))
    BY <1>1, <2>3, <2>4, ReadIndex
  <2> QED BY <2>5 DEF text
<1>3. CASE ~seg.index /\ ToSet(text) \cap {".", "[", "]", "$"} # {}
  <2>1. "'" \notin ToSet(text)
    BY <1>3 DEF Plain
  <2>2. PathPart(seg) = (<<".", "'">> \o text) \o <<"'">>
    BY <1>3 DEF PathPart
  <2> HIDE DEF text
  <2>3. NowhereIn(text, "'")
    BY <1>1, <2>1, NotInSet
  <2>4. PartAt(u, p, (<<".", "'">> \o text) \o <<"'">>, q)
    BY <2>2
  <2>5. BetweenSegments(g[q], Append(X, text))
    BY <1>1, <2>3, <2>4, ReadQuoted
  <2> QED BY <2>5 DEF text
<1>4. CASE ~seg.index /\ ToSet(text) \cap {".", "[", "]", "$"} = {}
  <2>1. "'" \notin ToSet(text) /\ "." \notin ToSet(text) /\ "[" \notin ToSet(text)
    BY <1>4 DEF Plain
  <2>2. PathPart(seg) = <<".">> \o text
    BY <1>4 DEF PathPart
  <2> HIDE DEF text
  <2>3. NowhereIn(text, "'") /\ NowhereIn(text, ".") /\ NowhereIn(text, "[")
    BY <1>1, <2>1, NotInSet
  <2>4. PartAt(u, p, <<".">> \o text, q)
    BY <2>2
  <2>5. BetweenSegments(g[q], Append(X, text))
    BY <1>1, <2>3, <2>4, ReadKey
  <2> QED BY <2>5 DEF text
<1> QED BY <1>2, <1>3, <1>4

TextsOf(segs) == [i \in 1..Len(segs) |-> segs[i].text]
PathParts(segs) == [i \in 1..Len(segs) |-> PathPart(segs[i])]

\* The scan finds the segments that a path was made of.
LEMMA ReadAll ==
    ASSUME NEW S, PathMarks \subseteq S, NEW segs \in Seq(SegmentsIn(S)), \A i \in 1..Len(segs) : Plain(segs[i])
    PROVE  /\ FlattenSeq(PathParts(segs)) \in Seq(S)
           /\ FoldLeft(PathScanned, ScanBase, FlattenSeq(PathParts(segs))).segs = TextsOf(segs)
<1> DEFINE n == Len(segs)
           T == Seq(S)
           parts == PathParts(segs)
           texts == TextsOf(segs)
           u == FlattenSeq(parts)
<1>1. n \in Nat /\ \A i \in 1..n : segs[i] \in SegmentsIn(S)
  BY LenProperties, ElementOfSeq
<1>2. \A i \in 1..n : PathPart(segs[i]) \in T /\ segs[i].text \in T
  BY <1>1, PathPartType
<1>3. \A i \in 1..n : parts[i] = PathPart(segs[i]) /\ texts[i] = segs[i].text
  BY DEF PathParts, TextsOf
<1> HIDE DEF T
<1>4. parts \in Seq(T) /\ Len(parts) = n /\ parts \in [1..n -> T] /\ texts \in Seq(T) /\ Len(texts) = n
  BY <1>1, <1>2 DEF PathParts, TextsOf
<1> HIDE DEF parts, texts
<1>5. PICK F : Flattens(F, parts, S)
  BY <1>4, FlattenChain DEF T
<1>6. Grows(F, parts, n, S) /\ u = F[n]
  BY <1>1, <1>4, <1>5 DEF Flattens, Grows, T
<1>7. u \in Seq(S)
  <2>1. n \in 0..n
    BY <1>1
  <2> QED BY <1>6, <2>1 DEF Grows
<1> HIDE DEF u
<1>8. PICK g : ScanAlong(g, u, S)
  BY <1>7, ScansChain
<1> DEFINE w == [k \in 0..n |-> SubSeq(texts, 1, k)]
           P == {k \in 0..n : BetweenSegments(g[Len(F[k])], w[k])}
<1>9. \A k \in 1..n : w[k] = Append(w[k - 1], texts[k]) /\ w[k - 1] \in Seq(T)
  <2> TAKE k \in 1..n
  <2>1. SubSeq(texts, 1, k) = Append(SubSeq(texts, 1, k - 1), texts[k]) /\ SubSeq(texts, 1, k - 1) \in Seq(T)
    BY <1>4, OneMore
  <2>2. k - 1 \in 0..n /\ k \in 0..n
    BY <1>1
  <2> QED BY <2>1, <2>2
<1>10. w[0] = <<>> /\ w[n] = texts
  <2>1. SubSeq(texts, 1, 0) = <<>>
    BY SubSeqEmpty
  <2>2. SubSeq(texts, 1, n) = texts
    BY <1>4, SubSeqFull
  <2>3. 0 \in 0..n /\ n \in 0..n
    BY <1>1
  <2> QED BY <2>1, <2>2, <2>3
<1> HIDE DEF w
<1>11. 0 \in P
  <2>1. F[0] = <<>> /\ Len(F[0]) = 0
    BY <1>5 DEF Flattens
  <2>2. g[0] = [segs |-> <<>>, in |-> "none"]
    BY <1>8 DEF ScanAlong, ScanBase
  <2>3. BetweenSegments(g[0], <<>>)
    BY <2>2 DEF BetweenSegments
  <2> QED BY <1>1, <1>10, <2>1, <2>3
<1>12. \A k \in 1..n : k - 1 \in P => k \in P
  <2> SUFFICES ASSUME NEW k \in 1..n, k - 1 \in P PROVE k \in P
    OBVIOUS
  <2>1. k \in 0..n
    BY <1>1
  <2> DEFINE p == Len(F[k - 1])
             q == Len(F[k])
             X == w[k - 1]
             seg == segs[k]
  <2>2. PartAt(u, p, PathPart(seg), q)
    <3>1. PartAt(F[n], Len(F[k - 1]), parts[k], Len(F[k]))
      <4> HIDE DEF n
      <4> QED BY <1>6, PartThere
    <3> QED BY <1>3, <1>6, <3>1
  <2>3. BetweenSegments(g[p], X) /\ X \in Seq(Seq(S)) /\ seg \in SegmentsIn(S) /\ Plain(seg)
    BY <1>1, <1>9 DEF T
  <2>4. w[k] = Append(X, seg.text)
    BY <1>3, <1>9
  <2> HIDE DEF p, q, X, seg
  <2>5. BetweenSegments(g[q], Append(X, seg.text))
    BY <1>7, <1>8, <2>2, <2>3, ReadPart
  <2> QED BY <2>1, <2>4, <2>5 DEF q
<1>13. n \in P
  <2> HIDE DEF P
  <2>1. \A k \in 0..n : k \in P
    BY <1>1, <1>11, <1>12, UpTo
  <2> QED BY <1>1, <2>1
<1>14. BetweenSegments(g[Len(u)], texts)
  BY <1>6, <1>10, <1>13
<1>15. FoldLeft(PathScanned, ScanBase, u) = g[Len(u)]
  BY <1>8 DEF ScanAlong
<1> DEFINE t == g[Len(u)]
<1>16. t.segs = texts
  BY <1>14 DEF BetweenSegments
<1> QED BY <1>7, <1>15, <1>16 DEF u, parts, texts

\* A pointer made of the path of the parser is one made of the texts.
LEMMA PathReads ==
    ASSUME NEW S, PathMarks \subseteq S, NEW segs \in Seq(SegmentsIn(S)), \A i \in 1..Len(segs) : Plain(segs[i])
    PROVE  PathToPointer(ParserPath(segs)) = Pointer(TextsOf(segs))
<1> DEFINE u == FlattenSeq(PathParts(segs))
           path == ParserPath(segs)
<1>1. u \in Seq(S) /\ FoldLeft(PathScanned, ScanBase, u).segs = TextsOf(segs)
  BY ReadAll
<1>2. path = <<"$">> \o u
  BY DEF ParserPath, PathParts
<1>3. "$" \in S
  BY DEF PathMarks
<1> HIDE DEF u, path
<1>4. path # <<>> /\ Head(path) = "$" /\ Tail(path) = u
  BY <1>1, <1>2, <1>3, TailAfter
<1>5. PathToPointer(path) = Pointer(FoldLeft(PathScanned, ScanBase, u).segs)
  BY <1>4 DEF PathToPointer, ScanBase
<1> QED BY <1>1, <1>5 DEF path

\* RoundTrips for segments of any number and length.
LEMMA RoundTripsAll ==
    ASSUME NEW S, PointerChars \cup PathMarks \subseteq S, NEW segs \in Seq(SegmentsIn(S))
    PROVE  RoundTrips(segs)
<1> DEFINE texts == TextsOf(segs)
           n == Len(segs)
           T == Seq(S)
           ptr == Pointer(texts)
<1>1. n \in Nat /\ (\A i \in 1..n : segs[i] \in SegmentsIn(S)) /\ (segs # <<>> => n # 0)
  BY EmptySeq, LenProperties, ElementOfSeq
<1>2. PointerChars \subseteq S /\ PathMarks \subseteq S
  OBVIOUS
<1>3. \A i \in 1..n : segs[i].text \in T
  BY <1>1 DEF SegmentsIn
<1>4. texts \in Seq(T) /\ Len(texts) = n
  <2> HIDE DEF T
  <2> QED BY <1>1, <1>3 DEF TextsOf
<1>5. texts \in Seq(Seq(S)) /\ (segs # <<>> => texts # <<>>)
  BY <1>1, <1>4
<1>6. texts = [i \in 1..Len(segs) |-> segs[i].text]
  BY DEF TextsOf
<1>7. PathSegments(segs) => PathToPointer(ParserPath(segs)) = ptr
  <2> SUFFICES ASSUME PathSegments(segs) PROVE PathToPointer(ParserPath(segs)) = ptr
    OBVIOUS
  <2>1. \A i \in 1..Len(segs) : Plain(segs[i])
    BY DEF PathSegments, Plain
  <2> QED BY <1>2, <2>1, PathReads
<1> HIDE DEF texts
<1>8. ASSUME texts # <<<<>>>> PROVE SegmentsOf(ptr) = texts
  BY <1>2, <1>5, <1>8, PointerReads
<1>9. ASSUME segs # <<>>
      PROVE  SplitPointer(ptr).parent = Pointer(Front(texts)) /\ UnescapePointerSegment(SplitPointer(ptr).key) = Last(texts)
  BY <1>2, <1>5, <1>9, SplitPointerIs
<1> QED BY <1>6, <1>7, <1>8, <1>9 DEF RoundTrips

\* locate.go:14-27, cursor.go:174-178: a pointer leads to where it was made for, for
\* segments of any number and length and of any characters.
THEOREM PointersLeadBack == Questioning => []PointersRoundTrip
<1> DEFINE Ask == question \in GlobQuestion \cup PointerQuestion
<1>1. ASSUME Ask PROVE PointersRoundTrip
  <2> SUFFICES ASSUME question.about = "pointer" PROVE RoundTrips(question.segs)
    BY DEF PointersRoundTrip, About
  <2>1. question \in PointerQuestion
    BY <1>1 DEF GlobQuestion
  <2> DEFINE S == PathChar \cup PointerChars \cup PathMarks
             segs == question.segs
  <2>2. segs \in Seq(SegmentsIn(PathChar))
    BY <2>1 DEF PointerQuestion, SegmentsIn
  <2>3. SegmentsIn(PathChar) \subseteq SegmentsIn(S)
    <3>1. \A s \in Seq(PathChar) : s \in Seq(S)
      <4> HIDE DEF S
      <4>1. PathChar \subseteq S
        BY DEF S
      <4> QED BY <4>1, SeqMonotonic
    <3> HIDE DEF S
    <3> QED BY <3>1 DEF SegmentsIn
  <2>4. PointerChars \cup PathMarks \subseteq S
    OBVIOUS
  <2> HIDE DEF S, segs
  <2>5. segs \in Seq(SegmentsIn(S))
    BY <2>2, <2>3, SeqMonotonic
  <2>6. RoundTrips(segs)
    BY <2>4, <2>5, RoundTripsAll
  <2> QED BY <2>6 DEF segs
<1>2. Ask /\ [UNCHANGED question]_question => Ask'
  BY DEF GlobQuestion, PointerQuestion
<1>3. Questioning => Ask /\ [][UNCHANGED question]_question
  BY DEF Questioning
<1> HIDE DEF Ask
<1> QED BY <1>1, <1>2, <1>3, PTL

-----------------------------------------------------------------------------
(* The store: what is on its way takes the server's text to the editor's.   *)

USE TextAssumption, NoTextAssumption

Texts == Seq(Char) \cup {None}
Notes == [is : {"didOpen", "didChange", "didClose"}, changes : Seq(Changes(Char)), text : Texts]

\* A notification takes the server from one text to the next.
Told(before, note) ==
    /\ note.is = "didOpen" => note.text \in Seq(Char)
    /\ note.is = "didChange" => before \in Seq(Char) /\ note.text = Apply(before, note.changes)
    /\ note.is = "didClose" => note.text = None

\* The text after the first k notifications.
TextAfter(start, notes, k) == IF k = 0 THEN start ELSE notes[k].text

\* One after the other they do.
AllTold(start, notes) ==
    \A k \in 1..Len(notes) : Told(TextAfter(start, notes, k - 1), notes[k])

\* What is in the editor is what was sent and what is yet to be sent.
UpToDate(start, notes, more, text) ==
    LET last == TextAfter(start, notes, Len(notes))
    IN  IF text = None THEN more = <<>> /\ last = None
        ELSE text \in Seq(Char) /\ last \in Seq(Char) /\ text = Apply(last, more)

\* One more notification.
LEMMA ToldOneMore ==
    ASSUME NEW start, NEW notes \in Seq(Notes), NEW note \in Notes, AllTold(start, notes),
           Told(TextAfter(start, notes, Len(notes)), note)
    PROVE  /\ Append(notes, note) \in Seq(Notes)
           /\ AllTold(start, Append(notes, note))
           /\ TextAfter(start, Append(notes, note), Len(Append(notes, note))) = note.text
<1> DEFINE n == Len(notes)
<1>0. n \in Nat
  BY LenProperties
<1>1. PICK more : more = Append(notes, note)
  OBVIOUS
<1>2. /\ more \in Seq(Notes) /\ Len(more) = n + 1
      /\ \A k \in 1..n : more[k] = notes[k]
      /\ more[n + 1] = note
  BY <1>1, AppendProperties
<1> HIDE DEF n
<1>3. ASSUME NEW k \in 0..n PROVE TextAfter(start, more, k) = TextAfter(start, notes, k)
  BY <1>0, <1>2 DEF TextAfter
<1>4. ASSUME NEW k \in 1..(n + 1) PROVE Told(TextAfter(start, more, k - 1), more[k])
  <2>1. k - 1 \in 0..n
    BY <1>0
  <2>2. CASE k = n + 1
    <3>1. k - 1 = n
      BY <1>0, <2>2
    <3> QED BY <1>2, <1>3, <2>1, <2>2, <3>1 DEF n
  <2>3. CASE k # n + 1
    <3>1. k \in 1..n
      BY <1>0, <2>3
    <3> QED BY <1>2, <1>3, <2>1, <3>1 DEF AllTold, n
  <2> QED BY <2>2, <2>3
<1>5. TextAfter(start, more, n + 1) = note.text
  BY <1>0, <1>2 DEF TextAfter
<1> QED BY <1>1, <1>2, <1>4, <1>5 DEF AllTold

\* The first of them is handled.
LEMMA ToldOneLess ==
    ASSUME NEW start, NEW notes \in Seq(Notes), notes # <<>>, AllTold(start, notes)
    PROVE  /\ Head(notes) \in Notes /\ Told(start, Head(notes))
           /\ Tail(notes) \in Seq(Notes)
           /\ AllTold(Head(notes).text, Tail(notes))
           /\ TextAfter(Head(notes).text, Tail(notes), Len(Tail(notes)))
                = TextAfter(start, notes, Len(notes))
<1> DEFINE n == Len(notes)
<1>0. n \in Nat /\ n # 0
  BY LenProperties, EmptySeq
<1>1. PICK note, rest : note = Head(notes) /\ rest = Tail(notes)
  OBVIOUS
<1>2. /\ note \in Notes /\ rest \in Seq(Notes) /\ Len(rest) = n - 1
      /\ \A k \in 1..(n - 1) : rest[k] = notes[k + 1]
      /\ note = notes[1]
  BY <1>1, HeadTailProperties
<1> HIDE DEF n
<1>3. ASSUME NEW k \in 0..(n - 1)
      PROVE  TextAfter(note.text, rest, k) = TextAfter(start, notes, k + 1)
  <2>1. CASE k = 0
    BY <1>2, <2>1 DEF TextAfter
  <2>2. CASE k # 0
    <3>1. k \in 1..(n - 1) /\ k + 1 # 0
      BY <1>0, <2>2
    <3> QED BY <1>2, <2>2, <3>1 DEF TextAfter
  <2> QED BY <2>1, <2>2
<1>4. Told(start, note)
  <2>1. 1 \in 1..n /\ 1 - 1 = 0
    BY <1>0
  <2>2. Told(TextAfter(start, notes, 0), notes[1])
    BY <2>1 DEF AllTold, n
  <2> QED BY <1>2, <2>2 DEF TextAfter
<1>5. ASSUME NEW k \in 1..(n - 1) PROVE Told(TextAfter(note.text, rest, k - 1), rest[k])
  <2>1. k - 1 \in 0..(n - 1) /\ (k - 1) + 1 = k /\ k + 1 \in 1..n /\ (k + 1) - 1 = k
    BY <1>0
  <2>2. Told(TextAfter(start, notes, k), notes[k + 1])
    BY <2>1 DEF AllTold, n
  <2>3. TextAfter(note.text, rest, k - 1) = TextAfter(start, notes, k)
    BY <1>3, <2>1
  <2> QED BY <1>2, <2>2, <2>3
<1>6. TextAfter(note.text, rest, n - 1) = TextAfter(start, notes, n)
  <2>1. n - 1 \in 0..(n - 1) /\ (n - 1) + 1 = n
    BY <1>0
  <2> QED BY <1>3, <2>1
<1> QED BY <1>1, <1>2, <1>4, <1>5, <1>6 DEF AllTold, n

\* The place of a cursor is a position.
LEMMA PositionType ==
    ASSUME NEW S, NEW t \in Seq(S), NEW i \in 0..Len(t)
    PROVE  EditorPosition(t, i) \in Positions
<1>0. Len(t) \in Nat /\ i \in Nat
  BY LenProperties
<1>1. PICK s \in 0..i : s = LineStart(t, i)
  BY <1>0, StartIs
<1>2. SubSeq(t, s + 1, i) \in Seq(S)
  <2>1. s \in 0..Len(t) /\ s \in Nat /\ s <= i /\ i <= Len(t)
    BY <1>0, <1>1
  <2>2. i \in s..Len(t)
    BY <1>0, <2>1
  <2>3. PICK p : p = SubSeq(t, s + 1, i) /\ IsPiece(p, t, s, i, S)
    BY <2>1, <2>2, PieceIs
  <2> QED BY <2>3 DEF IsPiece
<1>3. UTF16Len(SubSeq(t, s + 1, i)) \in Nat
  <2>1. PICK p \in Seq(S) : p = SubSeq(t, s + 1, i)
    BY <1>2
  <2>2. PICK u : Measures(u, p)
    BY <2>1, LengthChain
  <2>3. Len(p) \in Nat /\ Len(p) \in 0..Len(p)
    BY <2>1, LenProperties
  <2> QED BY <2>1, <2>2, <2>3 DEF Measures
<1>4. LineOf(t, i) \in Nat
  BY <1>0, LinesRise
<1> QED BY <1>1, <1>3, <1>4 DEF EditorPosition, Position, Positions

\* What the editor sends of an edit, and what the store makes of it.
LEMMA EditIsChange ==
    ASSUME NEW t \in Seq(Char), NEW edit \in EditsOf(t)
    PROVE  /\ Change(t, edit) \in Changes(Char)
           /\ Edited(t, edit) \in Seq(Char)
           /\ Edited(t, edit) = IF Change(t, edit).whole THEN Change(t, edit).text
                                ELSE ApplyRangeChange(t, Change(t, edit))
<1>0. Len(t) \in Nat
  BY LenProperties
<1>1. /\ edit.whole \in BOOLEAN /\ edit.text \in Seq(Char)
      /\ edit.from \in 0..Len(t) /\ edit.to \in 0..Len(t)
      /\ ~edit.whole => edit.from \in Cursors(t) /\ edit.to \in Cursors(t) /\ edit.from <= edit.to
  <2>0. Cursors(t) \in SUBSET (0..Len(t)) /\ 0 \in 0..Len(t) /\ Typed \subseteq Seq(Char)
    BY <1>0 DEF Cursors
  <2>1. CASE edit \in [whole : {TRUE}, from : {0}, to : {0}, text : Typed, backwards : {FALSE}]
    BY <2>0, <2>1
  <2>2. CASE /\ edit \in [whole : {FALSE}, from : Cursors(t), to : Cursors(t), text : Typed,
                          backwards : BOOLEAN]
             /\ edit.from <= edit.to
    BY <2>0, <2>2
  <2> QED BY <2>1, <2>2 DEF EditsOf
<1>2. EditorPosition(t, edit.from) \in Positions /\ EditorPosition(t, edit.to) \in Positions
  BY <1>1, PositionType
<1>3. /\ Change(t, edit) \in Changes(Char)
      /\ Change(t, edit).whole = edit.whole /\ Change(t, edit).text = edit.text
  BY <1>1, <1>2 DEF Change, Changes
<1>4. CASE edit.whole
  BY <1>1, <1>3, <1>4 DEF Edited
<1>5. CASE ~edit.whole
  <2>1. ApplyRangeChange(t, Change(t, edit)) = Edited(t, edit)
    BY <1>1, <1>5, ChangeIsEdit
  <2>2. ApplyRangeChange(t, Change(t, edit)) \in Seq(Char)
    BY <1>1, <1>3, RangeChangeType
  <2> QED BY <1>3, <1>5, <2>1, <2>2
<1> QED BY <1>3, <1>4, <1>5

\* The inductive invariant.
SyncInv ==
    /\ stored = asSent /\ asSent \in Texts
    /\ sent \in Seq(Notes) /\ AllTold(asSent, sent)
    /\ unsent \in Seq(Changes(Char)) /\ UpToDate(asSent, sent, unsent, editor)

LEMMA SyncInitInv == SyncInit => SyncInv
<1> SUFFICES ASSUME SyncInit PROVE SyncInv
  OBVIOUS
<1>1. /\ editor = None /\ unsent = <<>> /\ sent = <<>> /\ stored = None /\ asSent = None
      /\ Len(<<>>) = 0 /\ 1..0 = {}
  BY DEF SyncInit
<1> QED BY <1>1 DEF SyncInv, Texts, AllTold, UpToDate, TextAfter

\* The editor sends a notification.
LEMMA SendInv ==
    ASSUME SyncInv, NEW is \in {"didOpen", "didChange", "didClose"},
           NEW changes \in Seq(Changes(Char)), NEW text \in Texts,
           Told(TextAfter(asSent, sent, Len(sent)), Notification(is, changes, text)),
           Send(is, changes, text), editor' = text, unsent' = <<>>, UNCHANGED storeVars
    PROVE  SyncInv'
<1>0. UNCHANGED <<stored, asSent>>
  BY DEF storeVars
<1>1. PICK note : note = Notification(is, changes, text)
  OBVIOUS
<1>2. note \in Notes /\ note.text = text
  BY <1>1 DEF Notification, Notes
<1>3. sent' = Append(sent, note)
  BY <1>1 DEF Send
<1>4. /\ sent' \in Seq(Notes) /\ AllTold(asSent, sent')
      /\ TextAfter(asSent, sent', Len(sent')) = text
  BY <1>1, <1>2, <1>3, ToldOneMore DEF SyncInv
<1>5. <<>> \in Seq(Changes(Char))
  OBVIOUS
<1>6. UpToDate(asSent, sent', <<>>, text)
  BY <1>4, ApplyNothing DEF UpToDate, Texts
<1> QED BY <1>0, <1>4, <1>5, <1>6 DEF SyncInv

\* The server handles one: its text is the one the editor had.
LEMMA ReceiveInv ==
    ASSUME SyncInv, NEW is, Receive(is), stored' = Head(sent).text
    PROVE  SyncInv'
<1>1. /\ sent # <<>> /\ sent' = Tail(sent) /\ asSent' = Head(sent).text
      /\ UNCHANGED <<editor, unsent>>
  BY DEF Receive, editorVars
<1>2. /\ Head(sent) \in Notes /\ sent' \in Seq(Notes) /\ AllTold(asSent', sent')
      /\ TextAfter(asSent', sent', Len(sent')) = TextAfter(asSent, sent, Len(sent))
  BY <1>1, ToldOneLess DEF SyncInv
<1>3. asSent' \in Texts
  BY <1>1, <1>2 DEF Notes
<1>4. UpToDate(asSent', sent', unsent', editor')
  BY <1>1, <1>2 DEF UpToDate, SyncInv
<1> QED BY <1>1, <1>2, <1>3, <1>4 DEF SyncInv

\* What is received was told.
LEMMA ReceivedTold ==
    ASSUME SyncInv, sent # <<>>
    PROVE  Head(sent) \in Notes /\ Told(stored, Head(sent))
BY ToldOneLess DEF SyncInv

LEMMA EditInv ==
    ASSUME SyncInv, Edit
    PROVE  SyncInv'
<1>1. PICK edit \in EditsOf(editor) :
        /\ editor' = Edited(editor, edit) /\ unsent' = Append(unsent, Change(editor, edit))
        /\ editor # None /\ UNCHANGED <<sent, stored, asSent>>
  BY DEF Edit, storeVars
<1>2. PICK last : last = TextAfter(asSent, sent, Len(sent))
  OBVIOUS
<1>3. editor \in Seq(Char) /\ last \in Seq(Char) /\ editor = Apply(last, unsent)
  BY <1>1, <1>2 DEF SyncInv, UpToDate
<1>4. PICK change : change = Change(editor, edit)
  OBVIOUS
<1>5. /\ change \in Changes(Char) /\ editor' \in Seq(Char)
      /\ editor' = IF change.whole THEN change.text ELSE ApplyRangeChange(editor, change)
  BY <1>1, <1>3, <1>4, EditIsChange
<1>6. unsent' \in Seq(Changes(Char))
  BY <1>1, <1>4, <1>5, AppendProperties DEF SyncInv
<1>7. Apply(last, Append(unsent, change))
        = IF change.whole THEN change.text ELSE ApplyRangeChange(Apply(last, unsent), change)
  BY <1>3, <1>5, ApplyAppend DEF SyncInv
<1>8. editor' = Apply(last, unsent')
  BY <1>1, <1>3, <1>4, <1>5, <1>7
<1>9. editor' # None
  BY <1>5
<1> QED BY <1>1, <1>2, <1>3, <1>5, <1>6, <1>8, <1>9 DEF SyncInv, UpToDate

LEMMA SyncStepInv == SyncInv /\ [SyncNext]_syncVars => SyncInv'
<1> SUFFICES ASSUME SyncInv, [SyncNext]_syncVars PROVE SyncInv'
  OBVIOUS
<1> DEFINE last == TextAfter(asSent, sent, Len(sent))
<1>0. <<>> \in Seq(Changes(Char)) /\ None \in Texts
  BY DEF Texts
<1>1. CASE OpenEditor
  <2>1. PICK text \in Opened : editor' = text /\ Send("didOpen", <<>>, text)
                               /\ UNCHANGED <<unsent, storeVars>>
    BY <1>1 DEF OpenEditor
  <2>2. text \in Seq(Char) /\ text \in Texts
    BY DEF Texts
  <2>3. unsent' = <<>>
    BY <1>1, <2>1 DEF OpenEditor, SyncInv, UpToDate
  <2>4. Told(last, Notification("didOpen", <<>>, text))
    BY <2>2 DEF Told, Notification
  <2> QED BY <1>0, <2>1, <2>2, <2>3, <2>4, SendInv
<1>2. CASE Edit
  BY <1>2, EditInv
<1>3. CASE SendChanges
  <2>1. /\ Send("didChange", unsent, editor) /\ unsent' = <<>> /\ editor' = editor
        /\ UNCHANGED storeVars /\ editor # None
    BY <1>3 DEF SendChanges
  <2>2. /\ unsent \in Seq(Changes(Char)) /\ editor \in Texts
        /\ last \in Seq(Char) /\ editor = Apply(last, unsent)
    BY <2>1 DEF SyncInv, UpToDate, Texts
  <2>3. Told(last, Notification("didChange", unsent, editor))
    BY <2>2 DEF Told, Notification
  <2> QED BY <2>1, <2>2, <2>3, SendInv
<1>4. CASE CloseEditor
  <2>1. /\ Send("didClose", <<>>, None) /\ unsent' = <<>> /\ editor' = None
        /\ UNCHANGED storeVars
    BY <1>4 DEF CloseEditor
  <2>2. Told(last, Notification("didClose", <<>>, None))
    BY DEF Told, Notification
  <2> QED BY <1>0, <2>1, <2>2, SendInv
<1>5. CASE DidOpen
  BY <1>5, ReceiveInv DEF DidOpen
<1>6. CASE DidChange
  <2>1. sent # <<>> /\ Receive("didChange") /\ Head(sent).is = "didChange"
    BY <1>6 DEF DidChange, Receive
  <2>2. stored \in Seq(Char) /\ Head(sent).text = Apply(stored, Head(sent).changes)
    BY <2>1, ReceivedTold DEF Told
  <2>3. stored' = Head(sent).text
    BY <1>6, <2>2 DEF DidChange
  <2> QED BY <2>1, <2>3, ReceiveInv
<1>7. CASE DidClose
  <2>1. sent # <<>> /\ Receive("didClose") /\ Head(sent).is = "didClose" /\ stored' = None
    BY <1>7 DEF DidClose, Receive
  <2>2. Head(sent).text = None
    BY <2>1, ReceivedTold DEF Told
  <2> QED BY <2>1, <2>2, ReceiveInv
<1>8. CASE UNCHANGED syncVars
  BY <1>8 DEF SyncInv, syncVars, editorVars, storeVars
<1> QED BY <1>1, <1>2, <1>3, <1>4, <1>5, <1>6, <1>7, <1>8 DEF SyncNext

LEMMA SyncInvariant == SyncSpec => []SyncInv
<1> QED BY SyncInitInv, SyncStepInv, PTL DEF SyncSpec

\* Texts, changes and notifications are what they should be.
THEOREM StoreTypeOK == SyncSpec => []SyncTypeOK
<1>1. SyncInv => SyncTypeOK
  <2> SUFFICES ASSUME SyncInv PROVE SyncTypeOK
    OBVIOUS
  <2>1. editor \in Seq(Char) \cup {None} /\ stored \in Seq(Char) \cup {None}
        /\ asSent \in Seq(Char) \cup {None}
    BY DEF SyncInv, UpToDate, Texts
  <2>2. \A k \in 1..Len(sent) : sent[k] \in Notes
    BY ElementOfSeq DEF SyncInv
  <2> QED BY <2>1, <2>2 DEF SyncTypeOK, Notes, Texts
<1> QED BY <1>1, SyncInvariant, PTL

\* store.go:60-93, whatever is edited in a document, opened and closed, and however it is
\* sent, the server has the text the editor had, and when nothing is on its way, has.
THEOREM EditsReachServer == SyncSpec => []ServerHasEditorsText
<1>1. SyncInv => ServerHasEditorsText
  <2> SUFFICES ASSUME SyncInv PROVE ServerHasEditorsText
    OBVIOUS
  <2>1. ASSUME sent = <<>>, unsent = <<>> PROVE stored = editor
    <3>1. TextAfter(asSent, sent, Len(sent)) = stored
      BY <2>1 DEF TextAfter, SyncInv
    <3>2. CASE editor = None
      BY <3>1, <3>2 DEF SyncInv, UpToDate
    <3>3. CASE editor # None
      <4>1. stored \in Seq(Char) /\ editor = Apply(stored, <<>>)
        BY <2>1, <3>1, <3>3 DEF SyncInv, UpToDate
      <4> QED BY <4>1, ApplyNothing
    <3> QED BY <3>2, <3>3
  <2> QED BY <2>1 DEF SyncInv, ServerHasEditorsText
<1> QED BY <1>1, SyncInvariant, PTL

\* cursor.go:222-225 and locate.go:300-306, in any text the server may have, client, parser
\* and code mean the same place by a position, and one outside of it is moved into it.
THEOREM PositionsAlwaysAgree == SyncSpec => []ServersPositionsAgree
<1>1. SyncInv => ServersPositionsAgree
  BY PositionsAgreeInText DEF SyncInv, Texts, ServersPositionsAgree
<1> QED BY <1>1, SyncInvariant, PTL

=============================================================================
