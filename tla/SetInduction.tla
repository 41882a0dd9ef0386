---------------------------- MODULE SetInduction ----------------------------
(***************************************************************************)
(* Induction on the natural numbers over sets: the library's induction     *)
(* theorems quantify over a predicate, these over the set of the numbers   *)
(* that have it, which the provers can instantiate.  What follows for      *)
(* lists of checks, where the first one that fails has to be found.  And   *)
(* facts about parts of sequences, products and divisions that the proofs  *)
(* about byte strings share.                                               *)
(***************************************************************************)
EXTENDS Checks, FiniteSetTheorems, SequenceTheorems, TLAPS

\* A set of natural numbers that is not empty has a smallest member: the
\* intervals below its members are ordered by inclusion.
LEMMA SmallestMember ==
  ASSUME NEW T \in SUBSET Nat, T # {}
  PROVE  \E x \in T : \A y \in T : x <= y
<1>1. PICK b \in T : TRUE
  OBVIOUS
<1> DEFINE S == 0..b
           Below == {0..x : x \in {y \in T : y <= b}}
<1>2. IsFiniteSet(S) /\ \A x \in Nat : IsFiniteSet(0..x)
  BY FS_Interval
<1>3. IsWellFoundedOn(StrictSubsetOrdering(S), FiniteSubsetsOf(S))
  BY FS_StrictSubsetOrderingWellFounded
<1>4. Below \subseteq FiniteSubsetsOf(S)
  BY <1>2 DEF FiniteSubsetsOf
<1>5. Below # {}
  <2>1. 0..b \in Below
    OBVIOUS
  <2>2. QED
    BY <2>1
<1> HIDE DEF S, Below
<1>6. PICK X \in Below : \A Y \in Below : <<Y, X>> \notin StrictSubsetOrdering(S)
  BY <1>3, <1>4, <1>5, WFMin
<1> USE DEF S, Below
<1>7. PICK x \in T : x <= b /\ X = 0..x
  BY <1>6
<1>8. ASSUME NEW y \in T, y < x
      PROVE  FALSE
  <2>1. 0..y \in Below /\ 0..y \subseteq S /\ 0..x \subseteq S /\ 0..y \subseteq 0..x
    BY <1>7, <1>8
  <2>2. 0..y # 0..x
    <3>1. x \in 0..x /\ x \notin 0..y
      BY <1>8
    <3>2. QED
      BY <3>1
  <2>3. <<0..y, 0..x>> \in StrictSubsetOrdering(S)
    BY <2>1, <2>2 DEF StrictSubsetOrdering
  <2>4. QED
    BY <2>1, <2>3, <1>6, <1>7
<1>9. QED
  BY <1>8

\* Induction: a set with 0 and with the successor of each member has every
\* natural number.
LEMMA SetInduction ==
  ASSUME NEW S, 0 \in S, \A n \in Nat : n \in S => n + 1 \in S
  PROVE  \A n \in Nat : n \in S
<1> DEFINE T == Nat \ S
<1>1. SUFFICES ASSUME T # {}
               PROVE  FALSE
  OBVIOUS
<1>2. PICK x \in T : \A y \in T : x <= y
  BY <1>1, SmallestMember
<1>3. x # 0 /\ x - 1 \in Nat /\ x - 1 \notin T
  BY <1>2
<1>4. QED
  BY <1>2, <1>3

\* A set of natural numbers below a bound, if it is not empty, has a largest
\* member.
LEMMA LargestMember ==
  ASSUME NEW b \in Nat, NEW T \in SUBSET (0..b), T # {}
  PROVE  \E x \in T : \A y \in T : y <= x
<1> DEFINE U == {u \in Nat : \A y \in T : y <= u}
<1>1. b \in U /\ U \subseteq Nat
  OBVIOUS
<1>2. PICK u \in U : \A v \in U : u <= v
  BY <1>1, SmallestMember
<1>3. u \in T
  <2>1. SUFFICES ASSUME u \notin T
                 PROVE  FALSE
    OBVIOUS
  <2>2. \A y \in T : y \in Nat /\ y <= u /\ y # u
    BY <2>1, <1>2
  <2>3. u \in Nat /\ u - 1 \in Nat
    <3>1. PICK y \in T : TRUE
      OBVIOUS
    <3>2. QED
      BY <2>2, <3>1, <1>2
  <2>4. u - 1 \in U
    BY <2>2, <2>3
  <2>5. QED
    BY <2>4, <1>2
<1>4. QED
  BY <1>2, <1>3

\* f goes from base at 0 by the steps of h, up to n.
Recurs(f, base, h, n) == f[0] = base /\ \A i \in 1..n : f[i] = h[<<i, f[i - 1]>>]

\* A function that is defined by recursion on an interval, by a step that is
\* itself a function, exists.
LEMMA RecursionOnInterval ==
  ASSUME NEW T, NEW base \in T, NEW n \in Nat, NEW h \in [(1..n) \X T -> T]
  PROVE  \E f \in [0..n -> T] : Recurs(f, base, h, n)
<1> DEFINE S == {m \in Nat : m <= n => \E f \in [0..m -> T] : Recurs(f, base, h, m)}
<1>1. 0 \in S
  <2>1. [i \in 0..0 |-> base] \in [0..0 -> T] /\ Recurs([i \in 0..0 |-> base], base, h, 0)
    BY DEF Recurs
  <2>2. QED
    BY <2>1
<1>2. ASSUME NEW m \in Nat, m \in S
      PROVE  m + 1 \in S
  <2>1. SUFFICES ASSUME m + 1 <= n
                 PROVE  \E f \in [0..(m + 1) -> T] : Recurs(f, base, h, m + 1)
    OBVIOUS
  <2>2. PICK f \in [0..m -> T] : Recurs(f, base, h, m)
    BY <1>2, <2>1
  <2> DEFINE g == [i \in 0..(m + 1) |-> IF i <= m THEN f[i] ELSE h[<<i, f[m]>>]]
  <2>3. f[m] \in T /\ <<m + 1, f[m]>> \in (1..n) \X T
    BY <2>1
  <2>4. h[<<m + 1, f[m]>>] \in T
    BY <2>3
  <2>5. g \in [0..(m + 1) -> T]
    <3>1. ASSUME NEW i \in 0..(m + 1)
          PROVE  (IF i <= m THEN f[i] ELSE h[<<i, f[m]>>]) \in T
      <4>1. CASE i <= m
        BY <4>1
      <4>2. CASE i = m + 1
        BY <4>2, <2>4
      <4>3. QED
        BY <4>1, <4>2
    <3>2. QED
      BY <3>1
  <2>6. ASSUME NEW i \in 1..(m + 1)
        PROVE  g[i] = h[<<i, g[i - 1]>>]
    <3>1. CASE i <= m
      BY <3>1, <2>2 DEF Recurs
    <3>2. CASE i = m + 1
      BY <3>2
    <3>3. QED
      BY <3>1, <3>2
  <2>7. g[0] = base
    BY <2>2 DEF Recurs
  <2>8. Recurs(g, base, h, m + 1)
    BY <2>6, <2>7 DEF Recurs
  <2>9. QED
    BY <2>5, <2>8
<1>3. n \in S
  <2> HIDE DEF S
  <2>1. QED
    BY <1>1, <1>2, SetInduction
<1>4. QED
  BY <1>3

-----------------------------------------------------------------------------
(* Parts of sequences, and products                                        *)

\* The part of a sequence after a, up to b.
LEMMA PartFacts ==
  ASSUME NEW S, NEW s \in Seq(S), NEW a \in Nat, NEW b \in Nat, a <= b, b <= Len(s)
  PROVE  /\ SubSeq(s, a + 1, b) \in Seq(S) /\ Len(SubSeq(s, a + 1, b)) = b - a
         /\ \A i \in 1..(b - a) : SubSeq(s, a + 1, b)[i] = s[a + i]
<1>1. \A i \in (a + 1)..b : s[i] \in S
  OBVIOUS
<1>2. a + 1 \in Int /\ b \in Int
  OBVIOUS
<1>3. QED
  BY <1>1, <1>2, SubSeqProperties

\* Two adjacent parts are a part.
LEMMA PartsJoin ==
  ASSUME NEW S, NEW s \in Seq(S), NEW a \in Nat, NEW b \in Nat, NEW c \in Nat,
         a <= b, b <= c, c <= Len(s)
  PROVE  SubSeq(s, a + 1, b) \o SubSeq(s, b + 1, c) = SubSeq(s, a + 1, c)
<1>1. a + 1 \in 1..(Len(s) + 1) /\ b \in ((a + 1) - 1)..Len(s) /\ c \in b..Len(s)
  OBVIOUS
<1>2. QED
  BY <1>1, ConcatAdjacentSubSeq

\* Products of naturals, for a prover that treats them as opaque.
LEMMA Products ==
  ASSUME NEW a \in Nat, NEW b \in Nat, NEW w \in Nat
  PROVE  /\ a * w \in Nat /\ (a + b) * w = a * w + b * w
         /\ 0 * w = 0 /\ 1 * w = w /\ (a + 1) * w = a * w + w
         /\ a <= b => a * w <= b * w
<1>1. a * w \in Nat /\ (a + b) * w = a * w + b * w /\ 0 * w = 0 /\ 1 * w = w
      /\ (a + 1) * w = a * w + w
  OBVIOUS
<1>2. ASSUME a <= b PROVE a * w <= b * w
  <2>1. PICK d \in Nat : b = a + d
    <3>1. b - a \in Nat /\ b = a + (b - a)
      BY <1>2
    <3>2. QED
      BY <3>1
  <2>2. d * w \in Nat /\ b * w = a * w + d * w /\ a * w \in Nat
    BY <2>1
  <2>3. QED
    BY <2>2
<1>3. QED
  BY <1>1, <1>2

\* What division by a chunk size leaves.
LEMMA Divided ==
  ASSUME NEW n \in Nat, NEW w \in Nat \ {0}
  PROVE  n \div w \in Nat /\ (n \div w) * w <= n /\ n < (n \div w) * w + w
  OBVIOUS

-----------------------------------------------------------------------------
(* Lists of checks                                                         *)

\* What a list of checks says: that it passes when no check fails, else the
\* error of the first check that does.
LEMMA FirstFailingFacts ==
  ASSUME NEW n \in Nat, NEW checks, DOMAIN checks = 1..n
  PROVE  /\ (\A c \in 1..n : ~checks[c][2]) => FirstFailing(checks) = OK
         /\ (\E c \in 1..n : checks[c][2]) =>
              \E c \in 1..n : /\ checks[c][2] /\ \A b \in 1..(c - 1) : ~checks[b][2]
                              /\ FirstFailing(checks) = checks[c][1]
<1>1. ASSUME \E c \in 1..n : checks[c][2]
      PROVE  \E c \in 1..n : /\ checks[c][2] /\ \A b \in 1..(c - 1) : ~checks[b][2]
                             /\ FirstFailing(checks) = checks[c][1]
  <2> DEFINE First(c) == checks[c][2] /\ \A b \in 1..(c - 1) : ~checks[b][2]
  <2>1. \E c \in 1..n : First(c)
    <3> DEFINE T == {c \in 1..n : checks[c][2]}
    <3>1. T \in SUBSET Nat /\ T # {}
      BY <1>1
    <3>2. \E c \in T : \A b \in T : c <= b
      <4> HIDE DEF T
      <4>1. QED
        BY <3>1, SmallestMember
    <3>3. QED
      BY <3>2
  <2>2. FirstFailing(checks) = checks[CHOOSE c \in 1..n : First(c)][1]
    BY <1>1 DEF FirstFailing
  <2>3. QED
    BY <2>1, <2>2
<1>2. QED
  BY <1>1 DEF FirstFailing

\* A list of checks that passes, each of which names an error, has none that
\* fails.
LEMMA AllChecksPass ==
  ASSUME NEW n \in Nat, NEW checks, DOMAIN checks = 1..n,
         \A c \in 1..n : checks[c][1] # OK, FirstFailing(checks) = OK
  PROVE  \A c \in 1..n : ~checks[c][2]
BY FirstFailingFacts
=============================================================================
