----------------------------- MODULE ListLemmas -----------------------------
(***************************************************************************)
(* Facts about the list operators the models use for the loader's linked   *)
(* lists (source/include/lib/list.h): what inserting, removing and         *)
(* replacing one element does to every position of the list.  A few facts  *)
(* about numbers that all proofs need are here too.                        *)
(***************************************************************************)
EXTENDS Integers, Sequences, SequencesExt, WellFoundedInduction, TLAPS

(* Transitivity, for steps whose terms the arithmetic provers cannot see   *)
(* through.                                                                *)
LEMMA LeqTransitive ==
  ASSUME NEW x \in Int, NEW y \in Int, NEW z \in Int, x <= y, y <= z
  PROVE  x <= z
OBVIOUS

(* Division with remainder. *)
LEMMA DivMod ==
  ASSUME NEW v \in Nat, NEW a \in Nat \ {0}
  PROVE  /\ v \div a \in Nat /\ v % a \in Nat /\ v % a < a
         /\ v = a * (v \div a) + (v % a)
OBVIOUS

(* A number is a multiple if and only if the remainder is 0. *)
LEMMA Multiple ==
  ASSUME NEW a \in Nat \ {0}
  PROVE  /\ \A x \in Int : x % a = 0 => x = a * (x \div a) /\ x \div a \in Int
         /\ \A k \in Int : (a * k) % a = 0 /\ a * k \in Int
         /\ \A x \in Int : x % a \in Nat /\ x % a < a /\ (x - (x % a)) % a = 0
<1>1. \A x \in Int : /\ x \div a \in Int /\ x % a \in Nat /\ x % a < a
                     /\ x = a * (x \div a) + (x % a)
  OBVIOUS
<1>2. \A k \in Int : (a * k) % a = 0 /\ a * k \in Int
  OBVIOUS
<1>3. ASSUME NEW x \in Int PROVE (x - (x % a)) % a = 0
  <2>1. x - (x % a) = a * (x \div a)
    BY <1>1
  <2> QED BY <1>1, <1>2, <2>1
<1> QED BY <1>1, <1>2, <1>3

(* Concatenation, element by element. *)
LEMMA ConcatElements ==
  ASSUME NEW S, NEW s \in Seq(S), NEW t \in Seq(S)
  PROVE  /\ s \o t \in Seq(S)
         /\ Len(s \o t) = Len(s) + Len(t)
         /\ \A j \in 1 .. Len(s) + Len(t) :
              (s \o t)[j] = IF j <= Len(s) THEN s[j] ELSE t[j - Len(s)]
OBVIOUS

(* A part of a list, element by element. *)
LEMMA SubSeqElements ==
  ASSUME NEW S, NEW s \in Seq(S), NEW m \in 1 .. Len(s) + 1,
         NEW n \in m - 1 .. Len(s)
  PROVE  /\ SubSeq(s, m, n) \in Seq(S)
         /\ Len(SubSeq(s, m, n)) = n - m + 1
         /\ \A j \in 1 .. n - m + 1 : SubSeq(s, m, n)[j] = s[m + j - 1]
OBVIOUS

(* The lists that inserting e at i, removing i and replacing i by e give,  *)
(* element by element.                                                     *)
Inserted(t, s, i, e) ==
  /\ Len(t) = Len(s) + 1
  /\ \A j \in 1 .. Len(s) + 1 :
       t[j] = IF j < i THEN s[j] ELSE IF j = i THEN e ELSE s[j - 1]

Removed(t, s, i) ==
  /\ Len(t) = Len(s) - 1
  /\ \A j \in 1 .. Len(s) - 1 : t[j] = IF j < i THEN s[j] ELSE s[j + 1]

Replaced(t, s, i, e) ==
  /\ Len(t) = Len(s)
  /\ \A j \in 1 .. Len(s) : t[j] = IF j = i THEN e ELSE s[j]

(* InsertAt shifts the tail of the list by one. *)
LEMMA InsertAtElements ==
  ASSUME NEW S, NEW s \in Seq(S), NEW i \in 1 .. Len(s) + 1, NEW e \in S
  PROVE  /\ InsertAt(s, i, e) \in Seq(S)
         /\ Inserted(InsertAt(s, i, e), s, i, e)
<1> DEFINE a == SubSeq(s, 1, i - 1)
           b == a \o <<e>>
           c == SubSeq(s, i, Len(s))
<1>1. /\ a \in Seq(S) /\ Len(a) = i - 1
      /\ \A j \in 1 .. i - 1 : a[j] = s[j]
  BY SubSeqElements
<1>2. /\ b \in Seq(S) /\ Len(b) = i
      /\ \A j \in 1 .. i : b[j] = IF j < i THEN s[j] ELSE e
  <2> HIDE DEF a
  <2>1. /\ <<e>> \in Seq(S) /\ Len(<<e>>) = 1 /\ <<e>>[1] = e
    OBVIOUS
  <2> QED BY <1>1, <2>1, ConcatElements
<1>3. /\ c \in Seq(S) /\ Len(c) = Len(s) - i + 1
      /\ \A j \in 1 .. Len(s) - i + 1 : c[j] = s[i + j - 1]
  BY SubSeqElements
<1>4. InsertAt(s, i, e) = b \o c
  BY DEF InsertAt
<1> HIDE DEF b, c
<1>5. /\ b \o c \in Seq(S)
      /\ Len(b \o c) = Len(b) + Len(c)
      /\ \A j \in 1 .. Len(b) + Len(c) :
           (b \o c)[j] = IF j <= Len(b) THEN b[j] ELSE c[j - Len(b)]
  BY <1>2, <1>3, ConcatElements
<1>6. ASSUME NEW j \in 1 .. Len(s) + 1
      PROVE  (b \o c)[j] = IF j < i THEN s[j] ELSE IF j = i THEN e ELSE s[j - 1]
  <2>0. j \in Int /\ i \in Int
    OBVIOUS
  <2>1. CASE j <= i
    BY <2>1, <1>2, <1>3, <1>5
  <2>2. CASE j > i
    <3>1. /\ j - i \in 1 .. Len(s) - i + 1
          /\ i + (j - i) - 1 = j - 1
      BY <2>2
    <3>2. (b \o c)[j] = c[j - i]
      BY <2>2, <1>2, <1>3, <1>5
    <3> QED BY <3>1, <3>2, <1>3, <2>2
  <2>3. j <= i \/ j > i
    BY <2>0
  <2> QED BY <2>1, <2>2, <2>3
<1> QED BY <1>2, <1>3, <1>4, <1>5, <1>6 DEF Inserted

(* RemoveAt closes the gap. *)
LEMMA RemoveAtElements ==
  ASSUME NEW S, NEW s \in Seq(S), NEW i \in 1 .. Len(s)
  PROVE  /\ RemoveAt(s, i) \in Seq(S)
         /\ Removed(RemoveAt(s, i), s, i)
<1> DEFINE a == SubSeq(s, 1, i - 1)
           c == SubSeq(s, i + 1, Len(s))
<1>1. /\ a \in Seq(S) /\ Len(a) = i - 1
      /\ \A j \in 1 .. i - 1 : a[j] = s[j]
  BY SubSeqElements
<1>2. /\ c \in Seq(S) /\ Len(c) = Len(s) - i
      /\ \A j \in 1 .. Len(s) - i : c[j] = s[i + j]
  <2>1. i + 1 \in 1 .. Len(s) + 1 /\ Len(s) \in (i + 1) - 1 .. Len(s)
    OBVIOUS
  <2>2. /\ c \in Seq(S) /\ Len(c) = Len(s) - (i + 1) + 1
        /\ \A j \in 1 .. Len(s) - (i + 1) + 1 : c[j] = s[(i + 1) + j - 1]
    BY <2>1, SubSeqElements
  <2> HIDE DEF c
  <2> QED BY <2>2
<1>3. RemoveAt(s, i) = a \o c
  BY DEF RemoveAt
<1> HIDE DEF a, c
<1>4. /\ a \o c \in Seq(S)
      /\ Len(a \o c) = Len(a) + Len(c)
      /\ \A j \in 1 .. Len(a) + Len(c) :
           (a \o c)[j] = IF j <= Len(a) THEN a[j] ELSE c[j - Len(a)]
  BY <1>1, <1>2, ConcatElements
<1>5. ASSUME NEW j \in 1 .. Len(s) - 1
      PROVE  (a \o c)[j] = IF j < i THEN s[j] ELSE s[j + 1]
  <2>0. j \in Int /\ i \in Int
    OBVIOUS
  <2>1. CASE j < i
    BY <2>1, <1>1, <1>2, <1>4
  <2>2. CASE j >= i
    <3>1. /\ j - (i - 1) \in 1 .. Len(s) - i
          /\ i + (j - (i - 1)) = j + 1
      BY <2>2
    <3>2. (a \o c)[j] = c[j - (i - 1)]
      BY <2>2, <1>1, <1>2, <1>4
    <3> QED BY <3>1, <3>2, <1>2, <2>2
  <2>3. j < i \/ j >= i
    BY <2>0
  <2> QED BY <2>1, <2>2, <2>3
<1> QED BY <1>1, <1>2, <1>3, <1>4, <1>5 DEF Removed

(* ReplaceAt changes one element. *)
LEMMA ReplaceAtElements ==
  ASSUME NEW S, NEW s \in Seq(S), NEW i \in 1 .. Len(s), NEW e \in S
  PROVE  /\ ReplaceAt(s, i, e) \in Seq(S)
         /\ Replaced(ReplaceAt(s, i, e), s, i, e)
BY DEF ReplaceAt, Replaced

(* A nonempty set of numbers has a smallest one, and Min chooses it. *)
LEMMA MinElement ==
  ASSUME NEW T, T \subseteq Nat, T # {}
  PROVE  Min(T) \in T /\ \A y \in T : Min(T) <= y
<1> DEFINE R == {ss \in Nat \X Nat : ss[1] < ss[2]}
<1>1. IsWellFoundedOn(R, Nat)
  BY NatLessThanWellFounded DEF OpToRel
<1>2. \E x \in T : \A y \in T : ~(<<y, x>> \in R)
  <2> HIDE DEF R
  <2> QED BY <1>1, WFMin, Zenon
<1>3. PICK x \in T : \A y \in T : ~(<<y, x>> \in R)
  BY <1>2
<1>4. \A y \in T : x <= y
  <2> TAKE y \in T
  <2>1. ~(y < x)
    BY <1>3
  <2> QED BY <2>1
<1> QED BY <1>4 DEF Min

(* Induction up to n, over the set of the numbers that are reached.        *)
LEMMA UpTo ==
  ASSUME NEW n \in Nat, NEW G, 0 \in G, \A k \in 1 .. n : k - 1 \in G => k \in G
  PROVE  \A k \in 0 .. n : k \in G
<1> DEFINE Bad == {k \in 0 .. n : k \notin G}
<1> SUFFICES ASSUME Bad # {} PROVE FALSE
  OBVIOUS
<1>1. Bad \subseteq Nat
  OBVIOUS
<1> DEFINE m == Min(Bad)
<1>2. m \in Bad /\ \A y \in Bad : m <= y
  <2> HIDE DEF Bad
  <2> QED BY <1>1, MinElement
<1> HIDE DEF m
<1>3. m \in 1 .. n /\ m - 1 \in 0 .. n /\ ~(m <= m - 1)
  BY <1>2
<1>4. m - 1 \notin Bad
  <2> HIDE DEF Bad
  <2> QED BY <1>2, <1>3
<1> QED BY <1>2, <1>3, <1>4

(* A set of positions has a last one.                                      *)
LEMMA MaxOf ==
  ASSUME NEW n \in Nat, NEW T, T \subseteq 1 .. n, T # {}
  PROVE  Max(T) \in T /\ \A y \in T : y <= Max(T)
<1> DEFINE U == {n - y : y \in T}
<1>1. \A y \in T : y \in Int /\ n - y \in Nat
  OBVIOUS
<1>2. U \subseteq Nat /\ U # {}
  BY <1>1
<1>3. \A y \in T : n - y \in U
  OBVIOUS
<1>4. \A u \in U : \E y \in T : u = n - y
  OBVIOUS
<1> HIDE DEF U
<1>5. Min(U) \in U /\ \A u \in U : Min(U) <= u
  BY <1>2, MinElement
<1>6. PICK x \in T : Min(U) = n - x
  BY <1>4, <1>5
<1>7. \A y \in T : x >= y
  <2> TAKE y \in T
  <2>1. n - x <= n - y
    BY <1>3, <1>5, <1>6
  <2>2. x \in Int /\ y \in Int
    BY <1>1
  <2> QED BY <2>1, <2>2
<1>8. Max(T) \in T /\ \A y \in T : Max(T) >= y
  BY <1>7 DEF Max
<1> QED BY <1>1, <1>8

(* Sums of multiples.                                                      *)
LEMMA MultipleSum ==
  ASSUME NEW a \in Nat \ {0}, NEW x \in Int, NEW y \in Int, x % a = 0, y % a = 0
  PROVE  (x + y) % a = 0 /\ (x - y) % a = 0
<1>1. PICK k \in Int : x = a * k
  BY Multiple
<1>2. PICK m \in Int : y = a * m
  BY Multiple
<1>3. x + y = a * (k + m) /\ x - y = a * (k - m)
  BY <1>1, <1>2
<1>4. (a * (k + m)) % a = 0 /\ (a * (k - m)) % a = 0
  <2>1. k + m \in Int /\ k - m \in Int
    OBVIOUS
  <2> QED BY <2>1, Multiple
<1> QED BY <1>3, <1>4

(* A multiple of a multiple is a multiple.                                 *)
LEMMA MultipleOfMultiple ==
  ASSUME NEW p \in Nat \ {0}, NEW a \in Nat \ {0}, NEW x \in Int, a % p = 0, x % a = 0
  PROVE  x % p = 0
<1>1. PICK k \in Int : x = a * k
  BY Multiple
<1>2. PICK m \in Int : a = p * m
  BY Multiple
<1>3. x = p * (m * k) /\ m * k \in Int
  BY <1>1, <1>2
<1> QED BY <1>3, Multiple

(* Two multiples that are less than the alignment apart are the same.      *)
LEMMA MultipleGap ==
  ASSUME NEW a \in Nat \ {0}, NEW x \in Int, NEW y \in Int, x % a = 0, y % a = 0, x < y
  PROVE  x + a <= y
<1>1. PICK k \in Int : x = a * k
  BY Multiple
<1>2. PICK m \in Int : y = a * m
  BY Multiple
<1>3. m - k >= 1
  <2>1. CASE m - k <= 0
    <3>1. PICK d \in Nat : k = m + d
      <4>1. k - m \in Nat /\ k = m + (k - m)
        BY <2>1
      <4> QED BY <4>1
    <3>2. x = y + a * d /\ a * d \in Nat
      BY <1>1, <1>2, <3>1
    <3> QED BY <3>2
  <2> QED BY <2>1
<1>4. PICK d \in Nat : m = k + 1 + d
  <2>1. m - k - 1 \in Nat /\ m = k + 1 + (m - k - 1)
    BY <1>3
  <2> QED BY <2>1
<1>5. y = x + a + a * d /\ a * d \in Nat
  BY <1>1, <1>2, <1>4
<1> QED BY <1>5
=============================================================================
