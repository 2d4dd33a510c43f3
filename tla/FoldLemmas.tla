----------------------------- MODULE FoldLemmas -----------------------------
(***************************************************************************)
(* What a fold of SequencesExt computes, for one operation Op: the result  *)
(* after every element of the list follows from the result before it.      *)
(* Proofs instantiate the module with the operation of the fold they need. *)
(***************************************************************************)
EXTENDS ListLemmas

CONSTANT Op(_, _)

Fold(base, seq) == FoldLeft(Op, base, seq)

(* g is the fold on all sets of positions up to n.                         *)
Folds(g, base, seq, n) ==
  g = [s \in SUBSET (1 .. n) |->
         IF s = {} THEN base ELSE Op(g[s \ {Max(s)}], seq[Max(s)])]

(* If the fold is there up to n, it is there up to n + 1.                  *)
LEMMA FoldGrows ==
  ASSUME NEW base, NEW seq, NEW n \in Nat, NEW g, Folds(g, base, seq, n)
  PROVE  \E h : Folds(h, base, seq, n + 1)
<1> DEFINE D == SUBSET (1 .. n)
           E == SUBSET (1 .. n + 1)
           h == [s \in E |-> IF n + 1 \in s THEN Op(g[s \ {n + 1}], seq[n + 1]) ELSE g[s]]
<1>1. \A s \in D : g[s] = IF s = {} THEN base ELSE Op(g[s \ {Max(s)}], seq[Max(s)])
  BY DEF Folds
<1>2. ASSUME NEW s \in E PROVE n + 1 \notin s => s \in D
  <2>1. \A x \in 1 .. n + 1 : x # n + 1 => x \in 1 .. n
    OBVIOUS
  <2> QED BY <2>1
<1>3. ASSUME NEW s \in D PROVE s \in E /\ n + 1 \notin s
  <2>1. n + 1 \notin 1 .. n /\ 1 .. n \subseteq 1 .. n + 1
    OBVIOUS
  <2> QED BY <2>1
<1>4. ASSUME NEW s \in E
      PROVE  h[s] = IF s = {} THEN base ELSE Op(h[s \ {Max(s)}], seq[Max(s)])
  <2>1. CASE n + 1 \in s
    <3>1. Max(s) \in s /\ \A y \in s : y <= Max(s)
      <4>1. n + 1 \in Nat /\ s \subseteq 1 .. n + 1 /\ s # {}
        BY <2>1
      <4> QED BY <4>1, MaxOf
    <3>2. Max(s) = n + 1
      <4>1. Max(s) \in 1 .. n + 1 /\ n + 1 <= Max(s)
        BY <2>1, <3>1
      <4> QED BY <4>1
    <3> DEFINE t == s \ {n + 1}
    <3>3. t \in E /\ n + 1 \notin t
      OBVIOUS
    <3>4. h[t] = g[t]
      BY <3>3
    <3>5. h[s] = Op(g[t], seq[n + 1]) /\ s # {}
      BY <2>1
    <3> HIDE DEF h, t
    <3>6. h[s] = Op(h[t], seq[n + 1])
      BY <3>4, <3>5, Zenon
    <3>7. s \ {Max(s)} = t
      BY <3>2 DEF t
    <3> QED BY <3>2, <3>5, <3>6, <3>7, Zenon
  <2>2. CASE n + 1 \notin s
    <3>1. s \in D /\ h[s] = g[s]
      BY <1>2, <2>2
    <3>2. CASE s = {}
      <4>1. g[s] = base
        BY <1>1, <3>1, <3>2
      <4> HIDE DEF h
      <4> QED BY <3>1, <3>2, <4>1
    <3>3. CASE s # {}
      <4> DEFINE t == s \ {Max(s)}
      <4>1. t \in D
        BY <3>1
      <4>2. h[t] = g[t]
        BY <1>3, <4>1
      <4>3. g[s] = Op(g[t], seq[Max(s)])
        BY <1>1, <3>1, <3>3, Zenon
      <4> HIDE DEF h
      <4>4. h[s] = Op(h[t], seq[Max(s)])
        BY <3>1, <4>2, <4>3, Zenon
      <4> QED BY <3>3, <4>4, Zenon
    <3> QED BY <3>2, <3>3
  <2> QED BY <2>1, <2>2
<1>5. h = [s \in E |-> h[s]]
  OBVIOUS
<1> HIDE DEF h
<1>6. h = [s \in E |-> IF s = {} THEN base ELSE Op(h[s \ {Max(s)}], seq[Max(s)])]
  BY <1>4, <1>5, Zenon
<1> QED BY <1>6, Zenon DEF Folds

LEMMA FoldExists ==
  ASSUME NEW base, NEW seq, NEW n \in Nat
  PROVE  \E g : Folds(g, base, seq, n)
<1> DEFINE Bad == {m \in Nat : ~ \E g : Folds(g, base, seq, m)}
<1> SUFFICES ASSUME Bad # {} PROVE FALSE
  OBVIOUS
<1>1. Bad \subseteq Nat
  OBVIOUS
<1> DEFINE m == Min(Bad)
<1>2. m \in Bad /\ \A y \in Bad : m <= y
  <2> HIDE DEF Bad
  <2> QED BY <1>1, MinElement
<1> HIDE DEF m
<1>3. m # 0
  <2> DEFINE g == [s \in SUBSET (1 .. 0) |-> base]
  <2>1. 1 .. 0 = {}
    OBVIOUS
  <2>2. \A s \in SUBSET (1 .. 0) : s = {}
    BY <2>1
  <2>3. g = [s \in SUBSET (1 .. 0) |->
               IF s = {} THEN base ELSE Op(g[s \ {Max(s)}], seq[Max(s)])]
    <3> DEFINE G(s) == Op(g[s \ {Max(s)}], seq[Max(s)])
    <3> HIDE DEF G
    <3>1. g = [s \in SUBSET (1 .. 0) |-> IF s = {} THEN base ELSE G(s)]
      BY <2>2
    <3> QED BY <3>1 DEF G
  <2> HIDE DEF g
  <2>4. Folds(g, base, seq, 0)
    BY <2>3, Zenon DEF Folds
  <2> QED BY <1>2, <2>4
<1>4. m - 1 \in Nat /\ m - 1 \notin Bad /\ (m - 1) + 1 = m
  <2>1. m \in Nat
    BY <1>2
  <2>2. m - 1 \in Nat /\ ~(m <= m - 1) /\ (m - 1) + 1 = m
    BY <1>3, <2>1
  <2> HIDE DEF Bad
  <2> QED BY <1>2, <2>2
<1>5. PICK g : Folds(g, base, seq, m - 1)
  BY <1>4
<1>6. \E h : Folds(h, base, seq, m)
  <2>1. \E h : Folds(h, base, seq, (m - 1) + 1)
    BY <1>4, <1>5, FoldGrows
  <2> QED BY <1>4, <2>1
<1> QED BY <1>2, <1>6

(* The results of a fold, from the base to the end of the list.            *)
Stages(h, base, seq) ==
  /\ DOMAIN h = 0 .. Len(seq)
  /\ h[0] = base
  /\ \A k \in 1 .. Len(seq) : h[k] = Op(h[k - 1], seq[k])

(* A loop over a list that the model writes as a fold has stages.          *)
LEMMA FoldStages ==
  ASSUME NEW base, NEW S, NEW seq \in Seq(S)
  PROVE  \E h : Stages(h, base, seq) /\ Fold(base, seq) = h[Len(seq)]
<1> DEFINE n == Len(seq)
           g == CHOOSE g : Folds(g, base, seq, n)
<1>1. n \in Nat /\ DOMAIN seq = 1 .. n
  OBVIOUS
<1>2. Folds(g, base, seq, n)
  BY <1>1, FoldExists, Zenon
<1>3. Fold(base, seq) = g[1 .. n]
  <2>1. Fold(base, seq) =
          (CHOOSE iter : iter = [s \in SUBSET (DOMAIN seq) |->
             IF s = {} THEN base ELSE Op(iter[s \ {Max(s)}], seq[Max(s)])])[DOMAIN seq]
    BY Zenon DEF Fold, FoldLeft, MapThenFoldSet
  <2> QED BY <1>1, <2>1, Zenon DEF Folds
<1> HIDE DEF g
<1> DEFINE h == [k \in 0 .. n |-> g[1 .. k]]
<1>4. h[0] = base
  <2>1. 1 .. 0 = {} /\ 0 \in 0 .. n /\ {} \in SUBSET (1 .. n)
    BY <1>1
  <2>2. g[{}] = base
    BY <1>2, <2>1 DEF Folds
  <2> QED BY <2>1, <2>2
<1>5. ASSUME NEW k \in 1 .. n PROVE h[k] = Op(h[k - 1], seq[k])
  <2> DEFINE s == 1 .. k
  <2>1. /\ s \in SUBSET (1 .. n) /\ s # {} /\ k \in s /\ \A y \in s : y <= k
        /\ k \in 0 .. n /\ k - 1 \in 0 .. n /\ k \in Nat
    <3>1. k \in Nat /\ 1 <= k /\ k <= n /\ k \in 0 .. n /\ k - 1 \in 0 .. n
      BY <1>1
    <3>2. \A y \in s : y \in 1 .. n /\ y <= k
      BY <1>1, <3>1
    <3>3. k \in s
      BY <3>1
    <3> QED BY <3>1, <3>2, <3>3
  <2>2. Max(s) = k
    <3>1. Max(s) \in s /\ \A y \in s : y <= Max(s)
      BY <2>1, MaxOf
    <3> QED BY <2>1, <3>1
  <2>3. s \ {k} = 1 .. k - 1
    BY <2>1
  <2>4. g[s] = Op(g[s \ {Max(s)}], seq[Max(s)])
    <3> HIDE DEF s
    <3> QED BY <1>2, <2>1, Zenon DEF Folds
  <2>5. g[s] = Op(g[1 .. k - 1], seq[k])
    BY <2>2, <2>3, <2>4, Zenon
  <2>6. h[k] = g[s] /\ h[k - 1] = g[1 .. k - 1]
    BY <2>1
  <2> HIDE DEF h
  <2> QED BY <2>5, <2>6, Zenon
<1>6. DOMAIN h = 0 .. n /\ h[n] = g[1 .. n]
  BY <1>1
<1> HIDE DEF h
<1>7. Stages(h, base, seq)
  BY <1>4, <1>5, <1>6 DEF Stages
<1> QED BY <1>3, <1>6, <1>7
=============================================================================
