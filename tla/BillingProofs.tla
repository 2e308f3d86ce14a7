---------------------------- MODULE BillingProofs ----------------------------
(***************************************************************************)
(* Proofs about Billing: a period is billed once, a referral earned as it  *)
(* is paid, and credit is not spent twice.  The last is about sums, so the *)
(* module begins with what it takes of them.                               *)
(***************************************************************************)
EXTENDS Billing, FiniteSetTheorems, TLAPS
-----------------------------------------------------------------------------

LEMMA NatOrder == OpToRel(<, Nat) = {ss \in Nat \X Nat : ss[1] < ss[2]}
  BY DEF OpToRel

LEMMA Least ==
  ASSUME NEW T \in SUBSET Nat, T # {}
  PROVE  \E n \in T : \A m \in T : n <= m
<1> DEFINE R == {ss \in Nat \X Nat : ss[1] < ss[2]}
<1>1. IsWellFoundedOn(R, Nat)
  BY NatLessThanWellFounded, NatOrder, Zenon
<1>2. \E x \in T : \A y \in T : ~ (<<y, x>> \in R)
  BY <1>1, WFMin, Zenon
<1>3. PICK x \in T : \A y \in T : ~ (<<y, x>> \in R)
  BY <1>2
<1>4. ASSUME NEW y \in T PROVE x <= y
  <2>1. x \in Nat /\ y \in Nat /\ <<y, x>> \notin R
    BY <1>3
  <2>2. ~ (y < x)
    BY <2>1
  <2>3. QED BY <2>1, <2>2
<1>5. QED BY <1>4

(* Induction on numbers, with the claim as a set. *)
LEMMA Climb ==
  ASSUME NEW T \in SUBSET Nat, 0 \in T, \A n \in T : n + 1 \in T
  PROVE  T = Nat
<1>1. SUFFICES ASSUME Nat \ T # {} PROVE FALSE
  OBVIOUS
<1>2. PICK n \in Nat \ T : \A m \in Nat \ T : n <= m
  BY <1>1, Least, Zenon
<1>3. n # 0 /\ n - 1 \in Nat /\ n - 1 \notin Nat \ T
  BY <1>2
<1>4. QED BY <1>2, <1>3

First(s) == CHOOSE x \in s : TRUE
Step(f, g, s) == IF s = {} THEN 0 ELSE f[First(s)] + g[s \ {First(s)}]
Small(S, n) == {s \in SUBSET S : Cardinality(s) <= n}
Walk(f, g, D) == g = [s \in D |-> Step(f, g, s)]

LEMMA FirstIn == ASSUME NEW s, s # {} PROVE First(s) \in s
  BY DEF First

LEMMA Shorter ==
  ASSUME NEW S, IsFiniteSet(S), NEW s \in SUBSET S, s # {}
  PROVE  /\ s \ {First(s)} \in SUBSET S
         /\ Cardinality(s) \in Nat \ {0}
         /\ Cardinality(s \ {First(s)}) = Cardinality(s) - 1
<1>1. IsFiniteSet(s)
  BY FS_Subset
<1>2. First(s) \in s
  BY FirstIn
<1>3. QED BY <1>1, <1>2, FS_RemoveElement, FS_CardinalityType, FS_EmptySet

LEMMA WalkStarts ==
  ASSUME NEW S, IsFiniteSet(S), NEW f
  PROVE  \E g : Walk(f, g, Small(S, 0))
<1> DEFINE g == [s \in Small(S, 0) |-> 0]
<1>1. \A s \in Small(S, 0) : s = {}
  BY FS_Subset, FS_EmptySet, FS_CardinalityType DEF Small
<1>2. \A s \in Small(S, 0) : Step(f, g, s) = 0
  BY <1>1 DEF Step
<1>3. Walk(f, g, Small(S, 0))
  BY <1>2 DEF Walk
<1>4. QED BY <1>3

LEMMA WalkGoesOn ==
  ASSUME NEW S, IsFiniteSet(S), NEW f, NEW n \in Nat, \E g : Walk(f, g, Small(S, n))
  PROVE  \E g : Walk(f, g, Small(S, n + 1))
<1>1. PICK g : Walk(f, g, Small(S, n))
  OBVIOUS
<1> DEFINE h == [s \in Small(S, n + 1) |-> Step(f, g, s)]
<1>2. \A s \in Small(S, n) : g[s] = Step(f, g, s) /\ s \in Small(S, n + 1)
  <2>1. \A s \in SUBSET S : Cardinality(s) \in Nat
    BY FS_Subset, FS_CardinalityType
  <2>2. QED BY <1>1, <2>1 DEF Walk, Small
<1>3. ASSUME NEW s \in Small(S, n + 1), s # {} PROVE s \ {First(s)} \in Small(S, n)
  BY <1>3, Shorter DEF Small
<1>4. ASSUME NEW s \in Small(S, n + 1) PROVE Step(f, g, s) = Step(f, h, s)
  <2>1. CASE s = {}
    BY <2>1 DEF Step
  <2>2. CASE s # {}
    <3>1. s \ {First(s)} \in Small(S, n)
      BY <1>3, <2>2
    <3>2. h[s \ {First(s)}] = g[s \ {First(s)}]
      BY <3>1, <1>2
    <3>3. QED BY <3>2, <2>2 DEF Step
  <2>3. QED BY <2>1, <2>2
<1>5. Walk(f, h, Small(S, n + 1))
  BY <1>4 DEF Walk
<1>6. QED BY <1>5

LEMMA WalkExists ==
  ASSUME NEW S, IsFiniteSet(S), NEW f
  PROVE  \E g : Walk(f, g, SUBSET S)
<1> DEFINE T == {n \in Nat : \E g : Walk(f, g, Small(S, n))}
<1>1. 0 \in T
  BY WalkStarts
<1>2. \A n \in T : n + 1 \in T
  BY WalkGoesOn
<1>3. T = Nat
  <2> HIDE DEF T
  <2>1. T \subseteq Nat
    BY DEF T
  <2>2. QED BY <2>1, <1>1, <1>2, Climb
<1>4. Cardinality(S) \in T
  BY <1>3, FS_CardinalityType
<1>5. Small(S, Cardinality(S)) = SUBSET S
  BY FS_Subset DEF Small
<1>6. QED BY <1>4, <1>5

Tally(f, S) == MapThenSumSet(LAMBDA x : f[x], S)

LEMMA TallyIsWalk ==
  ASSUME NEW S, IsFiniteSet(S), NEW f
  PROVE  \E g : Walk(f, g, SUBSET S) /\ Tally(f, S) = g[S]
<1> DEFINE g == CHOOSE g : Walk(f, g, SUBSET S)
<1>1. Walk(f, g, SUBSET S)
  BY WalkExists
<1>2. Tally(f, S) = (CHOOSE iter : iter = [s \in SUBSET S |-> IF s = {} THEN 0 ELSE f[CHOOSE x \in s : TRUE] + iter[s \ {CHOOSE x \in s : TRUE}]])[S]
  BY DEF Tally, MapThenSumSet, MapThenFoldSet
<1>3. Tally(f, S) = g[S]
  BY <1>2 DEF Walk, Step, First
<1>4. QED BY <1>1, <1>3

LEMMA WalkStep ==
  ASSUME NEW S, IsFiniteSet(S), NEW f, NEW g, Walk(f, g, SUBSET S), NEW s \in SUBSET S
  PROVE  g[s] = IF s = {} THEN 0 ELSE f[First(s)] + g[s \ {First(s)}]
BY DEF Walk, Step

LEMMA WalkType ==
  ASSUME NEW S, IsFiniteSet(S), NEW f, \A x \in S : f[x] \in Nat, NEW g, Walk(f, g, SUBSET S)
  PROVE  g[S] \in Nat
<1> DEFINE T == {n \in Nat : \A s \in SUBSET S : Cardinality(s) = n => g[s] \in Nat}
<1>0. ASSUME NEW s \in SUBSET S PROVE Cardinality(s) = 0 <=> s = {}
  <2>1. IsFiniteSet(s)
    BY FS_Subset
  <2>2. QED BY <2>1, FS_EmptySet
<1>1. 0 \in T
  <2>1. ASSUME NEW s \in SUBSET S, Cardinality(s) = 0 PROVE s = {}
    BY <2>1, <1>0
  <2>2. g[{}] = 0
    BY WalkStep
  <2>3. ASSUME NEW s \in SUBSET S, Cardinality(s) = 0 PROVE g[s] \in Nat
    <3>1. s = {}
      BY <2>1, <2>3
    <3>2. QED BY <3>1, <2>2
  <2>4. QED BY <2>3
<1>2. ASSUME NEW n \in T PROVE n + 1 \in T
  <2>0. n \in Nat /\ n + 1 # 0
    OBVIOUS
  <2>1. ASSUME NEW s \in SUBSET S, Cardinality(s) = n + 1 PROVE g[s] \in Nat
    <3>1. s # {}
      BY <2>0, <2>1, <1>0
    <3>2. s \ {First(s)} \in SUBSET S /\ Cardinality(s \ {First(s)}) = n
      BY <2>1, <3>1, Shorter
    <3>3. g[s \ {First(s)}] \in Nat
      BY <3>2
    <3>4. f[First(s)] \in Nat
      BY <3>1, FirstIn
    <3>5. QED BY <3>1, <3>3, <3>4, WalkStep
  <2>2. QED BY <2>1
<1>3. T = Nat
  <2> HIDE DEF T
  <2>1. T \subseteq Nat
    BY DEF T
  <2>2. QED BY <2>1, <1>1, <1>2, Climb
<1>4. Cardinality(S) \in T
  BY <1>3, FS_CardinalityType
<1>5. QED BY <1>4

(* Two walks over functions that differ in one place. *)
LEMMA WalkChange ==
  ASSUME NEW S, IsFiniteSet(S), NEW f, \A x \in S : f[x] \in Nat, NEW h, \A x \in S : h[x] \in Nat, NEW b \in S,
         \A x \in S \ {b} : h[x] = f[x],
         NEW g, Walk(f, g, SUBSET S), NEW k, Walk(h, k, SUBSET S)
  PROVE  k[S] = g[S] + h[b] - f[b]
<1> DEFINE Off(s) == IF b \in s THEN h[b] - f[b] ELSE 0
           T == {n \in Nat : \A s \in SUBSET S : Cardinality(s) = n => g[s] \in Int /\ k[s] = g[s] + Off(s)}
<1>0. ASSUME NEW s \in SUBSET S PROVE Cardinality(s) = 0 <=> s = {}
  <2>1. IsFiniteSet(s)
    BY FS_Subset
  <2>2. QED BY <2>1, FS_EmptySet
<1>1. 0 \in T
  <2>1. ASSUME NEW s \in SUBSET S, Cardinality(s) = 0 PROVE s = {}
    BY <2>1, <1>0
  <2>2. g[{}] = 0 /\ k[{}] = 0
    BY WalkStep
  <2>3. ASSUME NEW s \in SUBSET S, Cardinality(s) = 0 PROVE g[s] \in Int /\ k[s] = g[s] + Off(s)
    <3>1. s = {} /\ b \notin s
      BY <2>1, <2>3
    <3>2. QED BY <3>1, <2>2
  <2>4. QED BY <2>3
<1>2. ASSUME NEW n \in T PROVE n + 1 \in T
  <2>0. n \in Nat /\ n + 1 # 0
    OBVIOUS
  <2>1. ASSUME NEW s \in SUBSET S, Cardinality(s) = n + 1 PROVE g[s] \in Int /\ k[s] = g[s] + Off(s)
    <3>1. s # {}
      BY <2>0, <2>1, <1>0
    <3> DEFINE x == First(s)
               t == s \ {x}
    <3>2. x \in s /\ x \in S
      BY <3>1, FirstIn
    <3>3. t \in SUBSET S /\ Cardinality(t) = n
      BY <2>1, <3>1, Shorter
    <3>4. g[t] \in Int /\ k[t] = g[t] + Off(t)
      BY <3>3
    <3>5. g[s] = f[x] + g[t] /\ k[s] = h[x] + k[t]
      <4>1. g[s] = f[x] + g[t]
        BY <3>1, WalkStep
      <4>2. k[s] = h[x] + k[t]
        BY <3>1, WalkStep
      <4>3. QED BY <4>1, <4>2
    <3>6. f[x] \in Int /\ h[x] \in Int /\ f[b] \in Int /\ h[b] \in Int
      BY <3>2
    <3>7. CASE x = b
      <4>1. b \notin t /\ b \in s
        BY <3>7, <3>2
      <4>2. QED BY <4>1, <3>4, <3>5, <3>6, <3>7
    <3>8. CASE x # b
      <4>1. h[x] = f[x] /\ (b \in t <=> b \in s)
        BY <3>8, <3>2
      <4>2. QED BY <4>1, <3>4, <3>5, <3>6, <3>8
    <3>9. QED BY <3>7, <3>8
  <2>2. QED BY <2>1
<1>3. T = Nat
  <2> HIDE DEF T
  <2>1. T \subseteq Nat
    BY DEF T
  <2>2. QED BY <2>1, <1>1, <1>2, Climb
<1>4. Cardinality(S) \in T
  BY <1>3, FS_CardinalityType
<1>5. QED BY <1>4

LEMMA TallyType ==
  ASSUME NEW S, IsFiniteSet(S), NEW f, \A x \in S : f[x] \in Nat
  PROVE  Tally(f, S) \in Nat
BY TallyIsWalk, WalkType

LEMMA TallyChange ==
  ASSUME NEW S, IsFiniteSet(S), NEW f, \A x \in S : f[x] \in Nat, NEW h, \A x \in S : h[x] \in Nat, NEW b \in S,
         \A x \in S \ {b} : h[x] = f[x]
  PROVE  Tally(h, S) = Tally(f, S) + h[b] - f[b]
<1>1. PICK g : Walk(f, g, SUBSET S) /\ Tally(f, S) = g[S]
  BY TallyIsWalk
<1>2. PICK k : Walk(h, k, SUBSET S) /\ Tally(h, S) = k[S]
  BY TallyIsWalk
<1>3. QED BY <1>1, <1>2, WalkChange

LEMMA WalkNothing ==
  ASSUME NEW S, IsFiniteSet(S), NEW f, \A x \in S : f[x] \in Nat /\ f[x] = 0, NEW g, Walk(f, g, SUBSET S)
  PROVE  g[S] = 0
<1> DEFINE T == {n \in Nat : \A s \in SUBSET S : Cardinality(s) = n => g[s] \in Int /\ g[s] = 0}
<1>2. ASSUME NEW s \in SUBSET S PROVE Cardinality(s) = 0 <=> s = {}
  <2>1. IsFiniteSet(s)
    BY FS_Subset
  <2>2. QED BY <2>1, FS_EmptySet
<1>3. 0 \in T
  <2>1. g[{}] = 0
    BY WalkStep
  <2>2. ASSUME NEW s \in SUBSET S, Cardinality(s) = 0 PROVE g[s] \in Int /\ g[s] = 0
    <3>1. s = {}
      BY <2>2, <1>2
    <3>2. QED BY <3>1, <2>1
  <2>3. QED BY <2>2
<1>4. ASSUME NEW n \in T PROVE n + 1 \in T
  <2>0. n \in Nat /\ n + 1 # 0
    OBVIOUS
  <2>1. ASSUME NEW s \in SUBSET S, Cardinality(s) = n + 1 PROVE g[s] \in Int /\ g[s] = 0
    <3>1. s # {}
      BY <2>0, <2>1, <1>2
    <3>2. s \ {First(s)} \in SUBSET S /\ Cardinality(s \ {First(s)}) = n
      BY <2>1, <3>1, Shorter
    <3>3. g[s \ {First(s)}] \in Int /\ g[s \ {First(s)}] = 0
      BY <3>2
    <3>4. f[First(s)] \in Nat /\ f[First(s)] = 0
      BY <3>1, FirstIn
    <3>5. g[s] = f[First(s)] + g[s \ {First(s)}]
      BY <3>1, WalkStep
    <3>6. QED BY <3>3, <3>4, <3>5
  <2>2. QED BY <2>1
<1>5. T = Nat
  <2> HIDE DEF T
  <2>1. T \subseteq Nat
    BY DEF T
  <2>2. QED BY <2>1, <1>3, <1>4, Climb
<1>6. Cardinality(S) \in T
  BY <1>5, FS_CardinalityType
<1>7. QED BY <1>6

LEMMA TallyNothing ==
  ASSUME NEW S, IsFiniteSet(S), NEW f, \A x \in S : f[x] = 0
  PROVE  Tally(f, S) = 0
<1>1. PICK g : Walk(f, g, SUBSET S) /\ Tally(f, S) = g[S]
  BY TallyIsWalk
<1>2. \A x \in S : f[x] \in Nat /\ f[x] = 0
  OBVIOUS
<1>3. g[S] = 0
  BY <1>1, <1>2, WalkNothing, Zenon
<1>4. QED BY <1>1, <1>3

(* A walk's next step. *)
LEMMA WalkFirst ==
  ASSUME NEW S, IsFiniteSet(S), NEW f, NEW g, Walk(f, g, SUBSET S), NEW s \in SUBSET S, s # {}
  PROVE  g[s] = f[First(s)] + g[s \ {First(s)}]
BY DEF Walk, Step

(* A walk may take any element first. *)
LEMMA WalkAny ==
  ASSUME NEW S, IsFiniteSet(S), NEW f, \A x \in S : f[x] \in Nat, NEW g, Walk(f, g, SUBSET S)
  PROVE  \A s \in SUBSET S : g[s] \in Nat /\ \A x \in s : g[s] = f[x] + g[s \ {x}]
<1> DEFINE Good(s) == g[s] \in Nat /\ \A x \in s : g[s] = f[x] + g[s \ {x}]
           T == {n \in Nat : \A s \in SUBSET S : Cardinality(s) <= n => Good(s)}
<1>0. ASSUME NEW s \in SUBSET S
      PROVE  /\ Cardinality(s) \in Nat
             /\ Cardinality(s) = 0 <=> s = {}
             /\ \A x \in s : s \ {x} \in SUBSET S /\ Cardinality(s \ {x}) = Cardinality(s) - 1
  <2>1. IsFiniteSet(s)
    BY FS_Subset
  <2>2. QED BY <2>1, FS_EmptySet, FS_CardinalityType, FS_RemoveElement
<1>1. Good({})
  <2>1. g[{}] = 0
    BY WalkStep
  <2>2. QED BY <2>1
<1>2. 0 \in T
  <2>1. ASSUME NEW s \in SUBSET S, Cardinality(s) <= 0 PROVE s = {}
    BY <2>1, <1>0
  <2> HIDE DEF Good
  <2>2. QED BY <1>1, <2>1
<1>3. ASSUME NEW n \in T PROVE n + 1 \in T
  <2>1. ASSUME NEW s \in SUBSET S, Cardinality(s) <= n + 1, s # {} PROVE Good(s)
    <3> DEFINE y == First(s)
    <3>1. y \in s /\ g[s] = f[y] + g[s \ {y}]
      BY <2>1, FirstIn, WalkFirst
    <3> HIDE DEF y
    <3>2. ASSUME NEW s2 \in SUBSET S, Cardinality(s2) <= n PROVE Good(s2)
      BY <3>2
    <3>3. ASSUME NEW x \in s PROVE s \ {x} \in SUBSET S /\ Cardinality(s \ {x}) <= n /\ Cardinality(s \ {x}) \in Nat
      BY <2>1, <1>0
    <3>4. ASSUME NEW x \in s PROVE Good(s \ {x})
      <4> HIDE DEF Good
      <4>1. QED BY <3>2, <3>3
    <3>5. \A x \in s : f[x] \in Nat /\ g[s \ {x}] \in Nat
      BY <3>4
    <3>6. ASSUME NEW x \in s, x # y PROVE g[s] = f[x] + g[s \ {x}]
      <4>1. y \in s \ {x} /\ x \in s \ {y} /\ (s \ {y}) \ {x} = (s \ {x}) \ {y}
        BY <3>1, <3>6
      <4>2. g[s \ {y}] = f[x] + g[(s \ {y}) \ {x}] /\ g[s \ {x}] = f[y] + g[(s \ {x}) \ {y}]
        BY <3>1, <3>4, <4>1
      <4>3. g[(s \ {x}) \ {y}] \in Nat
        <5> HIDE DEF Good
        <5>1. (s \ {x}) \ {y} \in SUBSET S /\ Cardinality((s \ {x}) \ {y}) <= n
          <6>1. s \ {x} \in SUBSET S /\ Cardinality(s \ {x}) <= n /\ Cardinality(s \ {x}) \in Nat
            BY <3>3
          <6>2. (s \ {x}) \ {y} \in SUBSET S /\ Cardinality((s \ {x}) \ {y}) = Cardinality(s \ {x}) - 1
            BY <4>1, <6>1, <1>0
          <6>3. n \in Nat
            OBVIOUS
          <6>4. QED BY <6>1, <6>2, <6>3
        <5>2. Good((s \ {x}) \ {y})
          BY <3>2, <5>1
        <5>3. QED BY <5>2 DEF Good
      <4>4. f[x] \in Nat /\ f[y] \in Nat
        BY <3>1, <3>5
      <4>5. QED
        <5> HIDE DEF Good
        <5>1. g[s] = f[y] + (f[x] + g[(s \ {x}) \ {y}])
          BY <3>1, <4>1, <4>2
        <5>2. g[s \ {x}] = f[y] + g[(s \ {x}) \ {y}]
          BY <4>2
        <5>3. QED BY <4>3, <4>4, <5>1, <5>2
    <3>7. g[s] \in Nat
      BY <3>1, <3>5
    <3>8. \A x \in s : g[s] = f[x] + g[s \ {x}]
      BY <3>1, <3>6
    <3>9. QED BY <3>7, <3>8
  <2>2. n \in Nat
    OBVIOUS
  <2> HIDE DEF Good
  <2>3. QED BY <1>1, <2>1, <2>2
<1>4. T = Nat
  <2> HIDE DEF T
  <2>1. T \subseteq Nat
    BY DEF T
  <2>2. QED BY <2>1, <1>2, <1>3, Climb
<1>5. ASSUME NEW s \in SUBSET S PROVE Good(s)
  <2>1. Cardinality(s) \in Nat
    BY <1>0
  <2>2. Cardinality(s) \in T /\ Cardinality(s) <= Cardinality(s)
    BY <2>1, <1>4
  <2> HIDE DEF Good
  <2>3. QED BY <2>2
<1>6. QED BY <1>5

(* There is one walk. *)
LEMMA WalkUnique ==
  ASSUME NEW S, IsFiniteSet(S), NEW f, NEW g, Walk(f, g, SUBSET S), NEW h, Walk(f, h, SUBSET S)
  PROVE  \A s \in SUBSET S : g[s] = h[s]
<1> DEFINE T == {n \in Nat : \A s \in SUBSET S : Cardinality(s) <= n => g[s] = h[s]}
<1>0. ASSUME NEW s \in SUBSET S
      PROVE  Cardinality(s) \in Nat /\ (Cardinality(s) = 0 <=> s = {})
  <2>1. IsFiniteSet(s)
    BY FS_Subset
  <2>2. QED BY <2>1, FS_EmptySet, FS_CardinalityType
<1>1. g[{}] = h[{}]
  BY WalkStep
<1>2. 0 \in T
  <2>1. ASSUME NEW s \in SUBSET S, Cardinality(s) <= 0 PROVE s = {}
    BY <2>1, <1>0
  <2>2. QED BY <1>1, <2>1
<1>3. ASSUME NEW n \in T PROVE n + 1 \in T
  <2>1. ASSUME NEW s \in SUBSET S, Cardinality(s) <= n + 1, s # {} PROVE g[s] = h[s]
    <3>1. s \ {First(s)} \in SUBSET S /\ Cardinality(s \ {First(s)}) <= n
      BY <2>1, Shorter, <1>0
    <3>2. g[s \ {First(s)}] = h[s \ {First(s)}]
      BY <3>1
    <3>3. g[s] = f[First(s)] + g[s \ {First(s)}]
      BY <2>1, WalkFirst
    <3>4. h[s] = f[First(s)] + h[s \ {First(s)}]
      BY <2>1, WalkFirst
    <3>5. QED BY <3>2, <3>3, <3>4
  <2>2. n + 1 \in Nat
    OBVIOUS
  <2>3. \A s \in SUBSET S : Cardinality(s) <= n + 1 => g[s] = h[s]
    BY <1>1, <2>1
  <2>4. QED BY <2>2, <2>3
<1>4. T = Nat
  <2> HIDE DEF T
  <2>1. T \subseteq Nat
    BY DEF T
  <2>2. QED BY <2>1, <1>2, <1>3, Climb
<1>5. ASSUME NEW s \in SUBSET S PROVE g[s] = h[s]
  <2>1. Cardinality(s) \in Nat
    BY <1>0
  <2>2. Cardinality(s) \in T /\ Cardinality(s) <= Cardinality(s)
    BY <2>1, <1>4
  <2>3. QED BY <2>2
<1>6. QED BY <1>5

(* One more to a sum. *)
LEMMA TallyAdd ==
  ASSUME NEW S, IsFiniteSet(S), NEW x, x \notin S, NEW f, \A y \in S \cup {x} : f[y] \in Nat
  PROVE  Tally(f, S) \in Nat /\ Tally(f, S \cup {x}) = Tally(f, S) + f[x]
<1> DEFINE Z == S \cup {x}
<1>1. IsFiniteSet(Z)
  BY FS_AddElement
<1>2. PICK g : Walk(f, g, SUBSET S) /\ Tally(f, S) = g[S]
  BY TallyIsWalk
<1>3. PICK h : Walk(f, h, SUBSET Z) /\ Tally(f, Z) = h[Z]
  BY <1>1, TallyIsWalk
<1>4. h[S] \in Nat /\ h[Z] = f[x] + h[Z \ {x}] /\ Z \ {x} = S
  <2>1. S \in SUBSET Z /\ Z \in SUBSET Z /\ x \in Z
    OBVIOUS
  <2>2. \A y \in Z : f[y] \in Nat
    OBVIOUS
  <2>3. Z \ {x} = S
    OBVIOUS
  <2> HIDE DEF Z
  <2>4. \A s \in SUBSET Z : h[s] \in Nat /\ \A y \in s : h[s] = f[y] + h[s \ {y}]
    BY <1>1, <1>3, <2>2, WalkAny
  <2>5. QED BY <2>1, <2>3, <2>4
<1> DEFINE k == [s \in SUBSET S |-> h[s]]
<1>5. Walk(f, k, SUBSET S)
  <2>1. ASSUME NEW s \in SUBSET S PROVE h[s] = Step(f, k, s)
    <3>1. s \in SUBSET Z
      OBVIOUS
    <3>2. s \ {First(s)} \in SUBSET S
      OBVIOUS
    <3> HIDE DEF Z
    <3>3. CASE s = {}
      <4>1. h[s] = 0
        BY <3>1, <3>3, <1>1, <1>3, WalkStep
      <4>2. QED BY <3>3, <4>1 DEF Step
    <3>4. CASE s # {}
      <4>1. h[s] = f[First(s)] + h[s \ {First(s)}]
        BY <3>1, <3>4, <1>1, <1>3, WalkFirst
      <4>2. QED BY <3>2, <3>4, <4>1 DEF Step
    <3>5. QED BY <3>3, <3>4
  <2>2. QED BY <2>1 DEF Walk
<1>6. g[S] = h[S]
  BY <1>2, <1>5, WalkUnique
<1>7. f[x] \in Nat
  OBVIOUS
<1> HIDE DEF Z
<1>8. Tally(f, Z) = h[S] + f[x]
  <2>1. Tally(f, Z) = f[x] + h[S]
    BY <1>3, <1>4
  <2>2. h[S] \in Nat
    BY <1>4
  <2>3. QED BY <1>7, <2>1, <2>2
<1>9. QED BY <1>2, <1>4, <1>6, <1>8 DEF Z

(* A payment and k equal ones to a sum. *)
AllNew(E, K, A)      == (\A i \in 0..K : E[i] \notin A) /\ \A i, j \in 0..K : i # j => E[i] # E[j]
Equal(f, E, K, a, r) == f[E[0]] = a /\ \A i \in 1..K : f[E[i]] = r
Them(E, K)           == {E[i] : i \in 0..K}
Grows(f, A, Z, v)    == Tally(f, A \cup Z) = Tally(f, A) + v

LEMMA TallyMore ==
  ASSUME NEW A, IsFiniteSet(A), NEW f, \A y \in A : f[y] \in Nat,
         NEW K \in Nat, NEW E, AllNew(E, K, A), NEW a \in Nat, NEW r \in Nat, Equal(f, E, K, a, r),
         NEW v \in Nat, v = a + K * r
  PROVE  /\ IsFiniteSet(A \cup Them(E, K))
         /\ Tally(f, A) \in Nat
         /\ Grows(f, A, Them(E, K), v)
<1> DEFINE Upto(k) == A \cup {E[i] : i \in 0..k}
           Sums(k) == /\ IsFiniteSet(Upto(k))
                      /\ \A y \in Upto(k) : f[y] \in Nat
                      /\ Tally(f, Upto(k)) \in Nat
                      /\ Tally(f, Upto(k)) = Tally(f, A) + (a + k * r)
           T == {k \in Nat : k <= K => Sums(k)}
<1>1. Tally(f, A) \in Nat
  BY TallyType
<1>2. Sums(0)
  <2>1. Upto(0) = A \cup {E[0]}
    OBVIOUS
  <2>2. E[0] \notin A /\ f[E[0]] = a /\ f[E[0]] \in Nat
    BY DEF AllNew, Equal
  <2>3. IsFiniteSet(A \cup {E[0]}) /\ Tally(f, A \cup {E[0]}) = Tally(f, A) + a
    <3> DEFINE x == E[0]
    <3>1. x \notin A /\ f[x] = a /\ \A y \in A \cup {x} : f[y] \in Nat
      BY <2>2
    <3> HIDE DEF x
    <3>2. IsFiniteSet(A \cup {x})
      BY FS_AddElement
    <3>3. Tally(f, A \cup {x}) = Tally(f, A) + f[x]
      BY <3>1, TallyAdd
    <3>4. QED BY <3>1, <3>2, <3>3 DEF x
  <2>4. \A y \in A \cup {E[0]} : f[y] \in Nat
    BY <2>2
  <2>5. 0 * r = 0 /\ Tally(f, A) + a \in Nat /\ a + 0 * r = a
    BY <1>1
  <2> HIDE DEF Upto
  <2>6. QED BY <1>1, <2>1, <2>3, <2>4, <2>5
<1>3. ASSUME NEW k \in Nat, k + 1 <= K, Sums(k) PROVE Sums(k + 1)
  <2>1. Upto(k + 1) = Upto(k) \cup {E[k + 1]}
    <3>1. 0..(k + 1) = (0..k) \cup {k + 1}
      OBVIOUS
    <3>2. QED BY <3>1
  <2>2. E[k + 1] \notin Upto(k) /\ f[E[k + 1]] = r
    <3>1. k + 1 \in 0..K /\ k + 1 \in 1..K /\ \A i \in 0..k : i \in 0..K /\ i # k + 1
      BY <1>3
    <3>2. QED BY <3>1 DEF AllNew, Equal
  <2>3. (k + 1) * r = k * r + r /\ k * r \in Nat
    OBVIOUS
  <2> HIDE DEF Upto
  <2>4. \A y \in Upto(k) \cup {E[k + 1]} : f[y] \in Nat
    BY <1>3, <2>2
  <2>5. IsFiniteSet(Upto(k))
    BY <1>3
  <2>6. IsFiniteSet(Upto(k) \cup {E[k + 1]}) /\ Tally(f, Upto(k) \cup {E[k + 1]}) = Tally(f, Upto(k)) + r
    <3>1. IsFiniteSet(Upto(k) \cup {E[k + 1]})
      BY <2>5, FS_AddElement
    <3>2. Tally(f, Upto(k) \cup {E[k + 1]}) = Tally(f, Upto(k)) + f[E[k + 1]]
      BY <2>2, <2>4, <2>5, TallyAdd
    <3>3. QED BY <2>2, <3>1, <3>2
  <2>7. Tally(f, Upto(k)) \in Nat /\ Tally(f, Upto(k)) = Tally(f, A) + (a + k * r)
    BY <1>3
  <2>8. Tally(f, Upto(k)) + r \in Nat /\ Tally(f, Upto(k)) + r = Tally(f, A) + (a + (k + 1) * r)
    BY <1>1, <2>3, <2>7
  <2>9. QED BY <2>1, <2>4, <2>6, <2>8
<1>4. T = Nat
  <2>1. 0 \in T
    BY <1>2
  <2>2. \A k \in T : k + 1 \in T
    <3> HIDE DEF Sums
    <3>1. QED BY <1>3
  <2> HIDE DEF T
  <2>3. T \subseteq Nat
    BY DEF T
  <2>4. QED BY <2>1, <2>2, <2>3, Climb
<1>5. Sums(K)
  <2> HIDE DEF Sums
  <2>1. K \in T /\ K <= K
    BY <1>4
  <2>2. QED BY <2>1
<1>6. QED BY <1>1, <1>5 DEF Them, Grows

-----------------------------------------------------------------------------
(* The ledger: what a customer has, of credits spent (a) and bills that    *)
(* earned (e).                                                             *)
Mine(c)          == {b \in Bills : PayerOf(b) = c}
Balance(a, e, c) == Reward * Cardinality({b \in e : ReferrerOf[b[1]] = c}) - Tally(a, Mine(c))

Spent(c, by, n)  == IF c = by THEN n ELSE 0
Gone(e, b, c)    == IF b \in e /\ ReferrerOf[b[1]] = c THEN Reward ELSE 0

LEMMA BillsFinite == IsFiniteSet(Bills)
<1>1. IsFiniteSet(Contracts) /\ IsFiniteSet(1..Months) /\ IsFiniteSet(1..Tries)
  BY BillingAssumption, FS_Interval
<1>2. IsFiniteSet(Periods \X (1..Tries))
  BY <1>1, FS_Product DEF Periods
<1> DEFINE T == Contracts \X (Periods \X (1..Tries))
           f == [b \in Bills |-> <<b[1], <<b[2], b[3]>>>>]
<1>3. IsFiniteSet(T)
  BY <1>1, <1>2, FS_Product
<1>4. f \in Injection(Bills, T)
  <2>1. f \in [Bills -> T]
    BY DEF Bills
  <2>2. \A x, y \in Bills : f[x] = f[y] => x = y
    BY DEF Bills
  <2>3. QED BY <2>1, <2>2 DEF Injection, IsInjective
<1>5. QED BY <1>3, <1>4, FS_Injection

LEMMA BalanceIs == \A c : CreditBalance(c) = Balance(applied, earned, c)
BY DEF CreditBalance, Earnings, Spendings, Balance, Tally, Mine

LEMMA BalancePrimed == (\A c : CreditBalance(c) = Balance(applied, earned, c))'
BY BalanceIs, PTL

LEMMA BalanceWillBe == \A c : CreditBalance(c)' = Balance(applied', earned', c)
BY BalancePrimed

LEMMA Sizes ==
  ASSUME NEW e \in SUBSET Bills, NEW c
  PROVE  /\ IsFiniteSet({b \in e : ReferrerOf[b[1]] = c})
         /\ Cardinality({b \in e : ReferrerOf[b[1]] = c}) \in Nat
<1>1. {b \in e : ReferrerOf[b[1]] = c} \in SUBSET Bills
  OBVIOUS
<1>2. QED BY <1>1, BillsFinite, FS_Subset, FS_CardinalityType

LEMMA MineFinite == ASSUME NEW c PROVE IsFiniteSet(Mine(c))
<1>1. Mine(c) \in SUBSET Bills
  BY DEF Mine
<1>2. QED BY <1>1, BillsFinite, FS_Subset

LEMMA Times == \A m, n \in Nat : m * n \in Nat
OBVIOUS

LEMMA BalanceType ==
  ASSUME NEW a \in [Bills -> Nat], NEW e \in SUBSET Bills, NEW c
  PROVE  Balance(a, e, c) \in Int
<1>1. Tally(a, Mine(c)) \in Nat
  <2>1. \A x \in Mine(c) : a[x] \in Nat
    BY DEF Mine
  <2>2. QED BY <2>1, MineFinite, TallyType
<1>2. Reward * Cardinality({b \in e : ReferrerOf[b[1]] = c}) \in Nat
  BY Sizes, Times, BillingAssumption
<1>3. QED BY <1>1, <1>2 DEF Balance

(* Credit spent on a bill is its customer's. *)
LEMMA BalanceSpends ==
  ASSUME NEW a \in [Bills -> Nat], NEW e \in SUBSET Bills, NEW b \in Bills, NEW h \in [Bills -> Nat],
         \A x \in Bills \ {b} : h[x] = a[x], NEW c
  PROVE  Balance(h, e, c) = Balance(a, e, c) - Spent(c, PayerOf(b), h[b] - a[b])
<1> DEFINE N == Reward * Cardinality({x \in e : ReferrerOf[x[1]] = c})
<1>1. N \in Nat
  BY Sizes, Times, BillingAssumption
<1>2. (\A x \in Mine(c) : a[x] \in Nat) /\ (\A x \in Mine(c) : h[x] \in Nat) /\ a[b] \in Nat /\ h[b] \in Nat
  BY DEF Mine
<1>3. Tally(a, Mine(c)) \in Nat
  BY <1>2, MineFinite, TallyType
<1>4. CASE PayerOf(b) = c
  <2>1. b \in Mine(c) /\ \A x \in Mine(c) \ {b} : h[x] = a[x]
    BY <1>4 DEF Mine
  <2>2. Tally(h, Mine(c)) = Tally(a, Mine(c)) + h[b] - a[b]
    BY <1>2, <2>1, MineFinite, TallyChange
  <2> HIDE DEF N
  <2>3. N - Tally(h, Mine(c)) = (N - Tally(a, Mine(c))) - (h[b] - a[b])
    BY <1>1, <1>2, <1>3, <2>1, <2>2
  <2>4. QED BY <2>3, <1>4 DEF Balance, N, Spent
<1>5. CASE PayerOf(b) # c
  <2>1. \A x \in Mine(c) : h[x] = a[x] /\ x # b
    BY <1>5 DEF Mine
  <2>2. Tally(h, Mine(c)) = Tally(a, Mine(c))
    <3>1. CASE Mine(c) = {}
      BY <3>1, TallyNothing, FS_EmptySet
    <3>2. CASE Mine(c) # {}
      <4>1. PICK y \in Mine(c) : TRUE
        BY <3>2
      <4>2. \A x \in Mine(c) \ {y} : h[x] = a[x]
        BY <2>1
      <4>3. Tally(h, Mine(c)) = Tally(a, Mine(c)) + h[y] - a[y]
        BY <1>2, <4>2, MineFinite, TallyChange
      <4>4. h[y] = a[y] /\ a[y] \in Nat
        BY <2>1, <1>2
      <4>5. QED BY <4>3, <4>4, <1>3
    <3>3. QED BY <3>1, <3>2
  <2> HIDE DEF N
  <2>3. N - Tally(h, Mine(c)) = (N - Tally(a, Mine(c))) - 0
    BY <1>1, <1>3, <2>2
  <2>4. QED BY <2>3, <1>5 DEF Balance, N, Spent
<1>6. QED BY <1>4, <1>5

(* What is earned and not lost again only adds to it. *)
LEMMA BalanceEarns ==
  ASSUME NEW a \in [Bills -> Nat], NEW e \in SUBSET Bills, NEW b \in Bills, NEW c
  PROVE  /\ Balance(a, e, c) <= Balance(a, e \cup {b}, c)
         /\ Balance(a, e \ {b}, c) = Balance(a, e, c) - Gone(e, b, c)
<1> DEFINE F(x) == {y \in x : ReferrerOf[y[1]] = c}
<1>1. Tally(a, Mine(c)) \in Nat
  <2>1. \A x \in Mine(c) : a[x] \in Nat
    BY DEF Mine
  <2>2. QED BY <2>1, MineFinite, TallyType
<1>2. IsFiniteSet(F(e)) /\ Cardinality(F(e)) \in Nat
  BY Sizes
<1>3. Cardinality(F(e \cup {b})) = Cardinality(F(e)) \/ Cardinality(F(e \cup {b})) = Cardinality(F(e)) + 1
  <2>1. F(e \cup {b}) = F(e) \/ F(e \cup {b}) = F(e) \cup {b}
    OBVIOUS
  <2>2. QED BY <2>1, <1>2, FS_AddElement
<1>4. Cardinality(F(e \ {b})) = Cardinality(F(e)) - (IF b \in e /\ ReferrerOf[b[1]] = c THEN 1 ELSE 0)
  <2>1. F(e \ {b}) = F(e) \ {b} /\ (b \in F(e) <=> b \in e /\ ReferrerOf[b[1]] = c)
    OBVIOUS
  <2>2. Cardinality(F(e) \ {b}) = IF b \in F(e) THEN Cardinality(F(e)) - 1 ELSE Cardinality(F(e))
    <3> HIDE DEF F
    <3>1. QED BY <1>2, FS_RemoveElement
  <2> HIDE DEF F
  <2>3. QED BY <2>1, <2>2, <1>2
<1>5. Reward \in Nat
  BY BillingAssumption
<1> HIDE DEF F
<1>6. Reward * (Cardinality(F(e)) + 1) = Reward * Cardinality(F(e)) + Reward
  BY <1>2, <1>5
<1>7. Reward * (Cardinality(F(e)) - 1) = Reward * Cardinality(F(e)) - Reward
  BY <1>2, <1>5
<1>8. Reward * Cardinality(F(e)) \in Nat
  BY <1>2, <1>5
<1>9. Reward * Cardinality(F(e)) <= Reward * Cardinality(F(e \cup {b}))
  BY <1>3, <1>5, <1>6, <1>8
<1>10. Reward * Cardinality(F(e \ {b})) = Reward * Cardinality(F(e)) - Gone(e, b, c)
  BY <1>4, <1>7, <1>8, <1>2 DEF Gone
<1>11. Reward * Cardinality(F(e \cup {b})) \in Nat /\ Reward * Cardinality(F(e \ {b})) \in Int /\ Gone(e, b, c) \in Nat
  <2>1. Gone(e, b, c) \in Nat
    BY <1>5 DEF Gone
  <2>2. Reward * Cardinality(F(e \ {b})) \in Int
    BY <2>1, <1>8, <1>10
  <2>3. Reward * Cardinality(F(e \cup {b})) \in Nat
    BY <1>3, <1>5, <1>6, <1>8
  <2>4. QED BY <2>1, <2>2, <2>3
<1>12. Balance(a, e, c) <= Balance(a, e \cup {b}, c)
  BY <1>1, <1>8, <1>9, <1>11 DEF Balance, F
<1>13. Balance(a, e \ {b}, c) = Balance(a, e, c) - Gone(e, b, c)
  BY <1>1, <1>5, <1>8, <1>10, <1>11 DEF Balance, F, Gone
<1>14. QED BY <1>12, <1>13

-----------------------------------------------------------------------------
(* What a run has in hand is of a contract that was signed; a bill it has  *)
(* inserted is the only one of its period, and no other run has one of it; *)
(* two runs do not spend one customer's credit at once.                    *)
RunsSigned ==
  \A r \in Runs :
    /\ pc[r] \in {"raising", "inserted", "crediting"} => at[r] \in Contracts /\ since[at[r]] > 0
    /\ r \in Inserting => bill[r] \in Bills /\ bill[r][1] = at[r] /\ at[r] \in Agreements
BillsSigned  == \A b \in Bills : status[b] # "none" => since[b[1]] > 0
LedgerHolds  == \A b \in Bills : /\ b \in earned \/ applied[b] > 0 => Exists(b)
                                 /\ b \in earned => ReferrerOf[b[1]] \in Customers
InFlight     == \A r \in Inserting : status[bill[r]] = "none" /\ ~Billed(bill[r][1], bill[r][2])
HeldOnce     == \A r, s \in Inserting : r # s => bill[r][1] # bill[s][1] \/ bill[r][2] # bill[s][2]
CreditAlone  == \A r, s \in Runs :
                  r # s /\ pc[r] = "crediting" /\ pc[s] = "crediting" => PayerOf(bill[r]) # PayerOf(bill[s])

BillInv == RunsSigned /\ BillsSigned /\ LedgerHolds /\ InFlight /\ HeldOnce /\ CreditAlone /\ BilledOnce

(* What a run has read of the balance is still there when it spends it, or *)
(* was lost with a bill deleted since.                                     *)
CreditStays ==
  \A r \in Runs : pc[r] = "crediting" => credit[r] <= CreditBalance(PayerOf(bill[r])) + lost[PayerOf(bill[r])]

CreditInv == NoOverdraft /\ CreditStays

-----------------------------------------------------------------------------
LEMMA Earliest ==
  ASSUME NEW P \in SUBSET Periods, P # {}
  PROVE  Min(P) \in P
<1>1. P \subseteq Nat
  BY BillingAssumption DEF Periods
<1>2. \E x \in P : \A y \in P : x <= y
  BY <1>1, Least
<1>3. QED BY <1>2 DEF Min

LEMMA Spendable ==
  ASSUME NEW n \in Int
  PROVE  Applied(n) \in 0..Price /\ (Applied(n) = 0 \/ Applied(n) <= n)
<1>1. Min({n, Price}) = IF n <= Price THEN n ELSE Price
  BY BillingAssumption DEF Min
<1>2. QED BY <1>1, BillingAssumption DEF Applied

LEMMA BalanceTyped ==
  ASSUME BillingTypeOK, NEW c
  PROVE  CreditBalance(c) \in Int
<1>1. applied \in [Bills -> Nat] /\ earned \in SUBSET Bills
  BY BillingAssumption DEF BillingTypeOK
<1>2. QED BY <1>1, BalanceType, BalanceIs

LEMMA EndsTyped ==
  ASSUME BillingTypeOK, NEW r \in Runs, Ends(r)
  PROVE  /\ pc'      \in [Runs -> {"idle", "contracts", "raising", "inserted", "crediting", "sending"}]
         /\ todo'    \in [Runs -> SUBSET Contracts]
         /\ entries' \in [Runs -> SUBSET Periods]
         /\ at'      \in [Runs -> Contracts \cup {Nobody}]
         /\ bill'    \in [Runs -> Bills \cup {NoBill}]
         /\ credit'  \in [Runs -> Int]
         /\ raised'  \in [Runs -> SUBSET Bills]
BY DEF Ends, BillingTypeOK

LEMMA InitTyped == Init => BillingTypeOK
BY BillingAssumption DEF Init, BillingTypeOK, NoBill

LEMMA StepTyped == BillingTypeOK /\ RunsSigned /\ [Next]_vars => BillingTypeOK'
<1> SUFFICES ASSUME BillingTypeOK, RunsSigned, [Next]_vars PROVE BillingTypeOK'
  OBVIOUS
<1> USE BillingAssumption DEF BillingTypeOK, deals, books, run, Goes, Moved
<1>1. ASSUME NEW r \in Runs, StartRun(r) PROVE BillingTypeOK'
  BY <1>1 DEF StartRun
<1>2. ASSUME NEW r \in Runs, NEW c \in Contracts, TakeContract(r, c) PROVE BillingTypeOK'
  BY <1>2 DEF TakeContract, ToRaise, DueNow
<1>3. ASSUME NEW r \in Runs, SkipPeriod(r) PROVE BillingTypeOK'
  BY <1>3 DEF SkipPeriod
<1>4. ASSUME NEW r \in Runs, RaisePlain(r) PROVE BillingTypeOK'
  BY <1>4 DEF RaisePlain, FreshBill
<1>5. ASSUME NEW r \in Runs, InsertBill(r) PROVE BillingTypeOK'
  BY <1>5 DEF InsertBill, FreshBill
<1>6. ASSUME NEW r \in Runs, ReadCredit(r) PROVE BillingTypeOK'
  BY <1>6, BalanceTyped DEF ReadCredit
<1>7. ASSUME NEW r \in Runs, CommitBill(r) PROVE BillingTypeOK'
  <2>1. bill[r] \in Bills
    BY <1>7 DEF CommitBill, RunsSigned, Inserting
  <2>2. Applied(credit[r]) \in 0..Price
    BY Spendable
  <2>3. applied' \in [Bills -> 0..Price] /\ status' \in [Bills -> {"none", "draft", "sent", "overdue", "paid", "void", "gone"}] /\ earned' \subseteq Bills
    BY <1>7, <2>1, <2>2 DEF CommitBill, Raise, EarnReferral
  <2>4. raised' \in [Runs -> SUBSET Bills] /\ pc' \in [Runs -> {"idle", "contracts", "raising", "inserted", "crediting", "sending"}]
    BY <1>7, <2>1 DEF CommitBill
  <2>5. QED BY <1>7, <2>3, <2>4 DEF CommitBill
<1>8. ASSUME NEW r \in Runs, ContractRaised(r) PROVE BillingTypeOK'
  BY <1>8 DEF ContractRaised
<1>9. ASSUME NEW r \in Runs, NEW b \in Bills, SendRaised(r, b) PROVE BillingTypeOK'
  BY <1>9, EndsTyped DEF SendRaised
<1>10. ASSUME NEW r \in Runs, MarkOverdue(r) PROVE BillingTypeOK'
  BY <1>10, EndsTyped DEF MarkOverdue
<1>11. ASSUME NEW r \in Runs, Abort(r) PROVE BillingTypeOK'
  BY <1>11, EndsTyped DEF Abort
<1>12. ASSUME NEW r \in Runs, Die(r) PROVE BillingTypeOK'
  BY <1>12, EndsTyped DEF Die
<1>13. ASSUME NEW c \in Contracts, SignContract(c) PROVE BillingTypeOK'
  <2> DEFINE b == <<c, today, 1>>
             used == IF c \in Agreements THEN Applied(CreditBalance(OwnerOf[c])) ELSE 0
  <2>1. used \in 0..Price
    BY Spendable, BalanceTyped
  <2>2. since' \in [Contracts -> 0..Months] /\ live' \subseteq Contracts /\ UNCHANGED <<today, run, faults, moves>>
    BY <1>13 DEF SignContract
  <2>3. CASE c \in Agreements \cup Upfront
    <3> HIDE DEF used
    <3>1. /\ applied' = [applied EXCEPT ![b] = used]
          /\ status'  = [status EXCEPT ![b] = CASE used = Price -> "paid" [] c \in Upfront -> "draft" [] OTHER -> "sent"]
          /\ earned'  = IF used = Price THEN EarnReferral(b) ELSE earned
          /\ lost' = lost
      BY <1>13, <2>3 DEF SignContract, used
    <3>2. b \in Bills
      BY <1>13 DEF SignContract, Bills
    <3>3. applied' \in [Bills -> 0..Price] /\ status' \in [Bills -> {"none", "draft", "sent", "overdue", "paid", "void", "gone"}]
      BY <2>1, <3>1, <3>2
    <3>4. earned' \subseteq Bills
      BY <3>1, <3>2 DEF EarnReferral
    <3>5. QED BY <2>2, <3>1, <3>3, <3>4
  <2>4. CASE c \notin Agreements \cup Upfront
    BY <1>13, <2>2, <2>4 DEF SignContract
  <2>5. QED BY <2>3, <2>4
<1>14. ASSUME NEW c \in Contracts, EndContract(c) PROVE BillingTypeOK'
  BY <1>14 DEF EndContract
<1>15. ASSUME NEW c \in Contracts, NEW p \in Periods, CreateInvoice(c, p) PROVE BillingTypeOK'
  BY <1>15 DEF CreateInvoice, FreshBill
<1>16. ASSUME NEW b \in Bills, EmailInvoice(b) PROVE BillingTypeOK'
  BY <1>16 DEF EmailInvoice
<1>17. ASSUME NEW b \in Bills, VoidInvoice(b) PROVE BillingTypeOK'
  BY <1>17 DEF VoidInvoice
<1>18. ASSUME NEW b \in Bills, DeleteInvoice(b) PROVE BillingTypeOK'
  <2>1. lost' \in [Customers -> Nat]
    <3> DEFINE x == ReferrerOf[b[1]]
    <3>1. lost' = lost \/ lost' = [lost EXCEPT ![x] = @ + Reward]
      BY <1>18 DEF DeleteInvoice
    <3> HIDE DEF x
    <3>2. x \in Customers => lost[x] + Reward \in Nat
      OBVIOUS
    <3>3. QED BY <3>1, <3>2
  <2>2. applied' \in [Bills -> 0..Price] /\ status' \in [Bills -> {"none", "draft", "sent", "overdue", "paid", "void", "gone"}] /\ earned' \subseteq Bills
    BY <1>18 DEF DeleteInvoice
  <2>3. QED BY <1>18, <2>1, <2>2 DEF DeleteInvoice
<1>19. ASSUME NEW b \in Bills, PaidUp(b) PROVE BillingTypeOK'
  BY <1>19 DEF PaidUp, EarnReferral
<1>20. ASSUME NEW b \in Bills, Uncovered(b) PROVE BillingTypeOK'
  BY <1>20 DEF Uncovered
<1>21. CASE NextPeriod
  BY <1>21 DEF NextPeriod
<1>22. CASE UNCHANGED vars
  BY <1>22 DEF vars
<1>23. QED
  BY <1>1, <1>2, <1>3, <1>4, <1>5, <1>6, <1>7, <1>8, <1>9, <1>10, <1>11, <1>12, <1>13, <1>14, <1>15, <1>16, <1>17, <1>18, <1>19, <1>20, <1>21, <1>22 DEF Next, Work, Office

(* A contract that is signed raises nothing, or one bill, with the credit  *)
(* there is.                                                               *)
LEMMA SignsOne ==
  ASSUME BillingTypeOK, NEW c \in Contracts, SignContract(c)
  PROVE  /\ since[c] = 0 /\ since' = [since EXCEPT ![c] = today] /\ today \in Periods /\ lost' = lost
         /\ CustomerFree(OwnerOf[c]) /\ UNCHANGED <<run, faults, moves, today>>
         /\ \/ UNCHANGED books
            \/ \E used \in 0..Price, to \in {"paid", "draft", "sent"} :
                 /\ <<c, today, 1>> \in Bills
                 /\ applied' = [applied EXCEPT ![<<c, today, 1>>] = used]
                 /\ status'  = [status EXCEPT ![<<c, today, 1>>] = to]
                 /\ earned'  = IF used = Price THEN EarnReferral(<<c, today, 1>>) ELSE earned
                 /\ used = Price <=> to = "paid"
                 /\ used = 0 \/ used <= CreditBalance(OwnerOf[c])
<1> DEFINE b == <<c, today, 1>>
           used == IF c \in Agreements THEN Applied(CreditBalance(OwnerOf[c])) ELSE 0
           to == CASE used = Price -> "paid" [] c \in Upfront -> "draft" [] OTHER -> "sent"
<1>1. /\ since[c] = 0 /\ since' = [since EXCEPT ![c] = today] /\ today \in Periods
      /\ CustomerFree(OwnerOf[c]) /\ UNCHANGED <<run, faults, moves, today>>
  BY DEF SignContract
<1>2. used \in 0..Price /\ (used = 0 \/ used <= CreditBalance(OwnerOf[c]))
  BY Spendable, BalanceTyped, BillingAssumption
<1>3. b \in Bills
  BY <1>1, BillingAssumption DEF Bills
<1>4. CASE c \in Agreements \cup Upfront
  <2>1. /\ applied' = [applied EXCEPT ![b] = used]
        /\ status'  = [status EXCEPT ![b] = CASE used = Price -> "paid" [] c \in Upfront -> "draft" [] OTHER -> "sent"]
        /\ earned'  = IF used = Price THEN EarnReferral(b) ELSE earned
        /\ lost' = lost
    BY <1>4 DEF SignContract
  <2>2. to \in {"paid", "draft", "sent"} /\ (used = Price <=> to = "paid")
    <3>1. used = Price => c \notin Upfront
      BY BillingAssumption
    <3> HIDE DEF used
    <3>2. CASE used = Price
      BY <3>1, <3>2
    <3>3. CASE used # Price
      BY <3>3
    <3>4. QED BY <3>2, <3>3
  <2>3. status' = [status EXCEPT ![b] = to]
    BY <2>1
  <2> HIDE DEF used, to
  <2>4. QED BY <1>1, <1>2, <1>3, <2>1, <2>2, <2>3
<1>5. CASE c \notin Agreements \cup Upfront
  BY <1>1, <1>5 DEF SignContract, books
<1>6. QED BY <1>4, <1>5

LEMMA RunsStaySigned == BillingTypeOK /\ RunsSigned /\ [Next]_vars => RunsSigned'
<1> SUFFICES ASSUME BillingTypeOK, RunsSigned, [Next]_vars PROVE RunsSigned'
  OBVIOUS
<1> USE BillingAssumption DEF BillingTypeOK, deals, books, run, Goes, Moved, RunsSigned, Inserting
<1>1. ASSUME NEW r \in Runs, StartRun(r) PROVE RunsSigned'
  BY <1>1 DEF StartRun
<1>2. ASSUME NEW r \in Runs, NEW c \in Contracts, TakeContract(r, c) PROVE RunsSigned'
  BY <1>2 DEF TakeContract, ToRaise, DueNow
<1>3. ASSUME NEW r \in Runs, SkipPeriod(r) PROVE RunsSigned'
  BY <1>3 DEF SkipPeriod
<1>4. ASSUME NEW r \in Runs, RaisePlain(r) PROVE RunsSigned'
  BY <1>4 DEF RaisePlain, FreshBill
<1>5. ASSUME NEW r \in Runs, InsertBill(r) PROVE RunsSigned'
  BY <1>5 DEF InsertBill, FreshBill
<1>6. ASSUME NEW r \in Runs, ReadCredit(r) PROVE RunsSigned'
  BY <1>6 DEF ReadCredit
<1>7. ASSUME NEW r \in Runs, CommitBill(r) PROVE RunsSigned'
  BY <1>7 DEF CommitBill, Raise, EarnReferral
<1>8. ASSUME NEW r \in Runs, ContractRaised(r) PROVE RunsSigned'
  BY <1>8 DEF ContractRaised
<1>9. ASSUME NEW r \in Runs, NEW b \in Bills, SendRaised(r, b) PROVE RunsSigned'
  BY <1>9 DEF SendRaised, Ends
<1>10. ASSUME NEW r \in Runs, MarkOverdue(r) PROVE RunsSigned'
  BY <1>10 DEF MarkOverdue, Ends
<1>11. ASSUME NEW r \in Runs, Abort(r) PROVE RunsSigned'
  BY <1>11 DEF Abort, Ends
<1>12. ASSUME NEW r \in Runs, Die(r) PROVE RunsSigned'
  BY <1>12 DEF Die, Ends
<1>13. ASSUME NEW c \in Contracts, SignContract(c) PROVE RunsSigned'
  BY <1>13 DEF SignContract, EarnReferral
<1>14. ASSUME NEW c \in Contracts, EndContract(c) PROVE RunsSigned'
  BY <1>14 DEF EndContract
<1>15. ASSUME NEW c \in Contracts, NEW p \in Periods, CreateInvoice(c, p) PROVE RunsSigned'
  BY <1>15 DEF CreateInvoice, FreshBill
<1>16. ASSUME NEW b \in Bills, EmailInvoice(b) PROVE RunsSigned'
  BY <1>16 DEF EmailInvoice
<1>17. ASSUME NEW b \in Bills, VoidInvoice(b) PROVE RunsSigned'
  BY <1>17 DEF VoidInvoice
<1>18. ASSUME NEW b \in Bills, DeleteInvoice(b) PROVE RunsSigned'
  BY <1>18 DEF DeleteInvoice
<1>19. ASSUME NEW b \in Bills, PaidUp(b) PROVE RunsSigned'
  BY <1>19 DEF PaidUp, EarnReferral
<1>20. ASSUME NEW b \in Bills, Uncovered(b) PROVE RunsSigned'
  BY <1>20 DEF Uncovered
<1>21. CASE NextPeriod
  BY <1>21 DEF NextPeriod
<1>22. CASE UNCHANGED vars
  BY <1>22 DEF vars
<1>23. QED
  BY <1>1, <1>2, <1>3, <1>4, <1>5, <1>6, <1>7, <1>8, <1>9, <1>10, <1>11, <1>12, <1>13, <1>14, <1>15, <1>16, <1>17, <1>18, <1>19, <1>20, <1>21, <1>22 DEF Next, Work, Office

LEMMA BillsStaySigned == BillingTypeOK /\ RunsSigned /\ BillsSigned /\ [Next]_vars => BillsSigned'
<1> SUFFICES ASSUME BillingTypeOK, RunsSigned, BillsSigned, [Next]_vars PROVE BillsSigned'
  OBVIOUS
<1> USE BillingAssumption DEF BillingTypeOK, deals, books, run, Goes, Moved, RunsSigned, BillsSigned, Inserting
<1>1. ASSUME NEW r \in Runs, StartRun(r) PROVE BillsSigned'
  BY <1>1 DEF StartRun
<1>2. ASSUME NEW r \in Runs, NEW c \in Contracts, TakeContract(r, c) PROVE BillsSigned'
  BY <1>2 DEF TakeContract, ToRaise, DueNow
<1>3. ASSUME NEW r \in Runs, SkipPeriod(r) PROVE BillsSigned'
  BY <1>3 DEF SkipPeriod
<1>4. ASSUME NEW r \in Runs, RaisePlain(r) PROVE BillsSigned'
  BY <1>4 DEF RaisePlain, FreshBill
<1>5. ASSUME NEW r \in Runs, InsertBill(r) PROVE BillsSigned'
  BY <1>5 DEF InsertBill, FreshBill
<1>6. ASSUME NEW r \in Runs, ReadCredit(r) PROVE BillsSigned'
  BY <1>6 DEF ReadCredit
<1>7. ASSUME NEW r \in Runs, CommitBill(r) PROVE BillsSigned'
  BY <1>7 DEF CommitBill, Raise, EarnReferral
<1>8. ASSUME NEW r \in Runs, ContractRaised(r) PROVE BillsSigned'
  BY <1>8 DEF ContractRaised
<1>9. ASSUME NEW r \in Runs, NEW b \in Bills, SendRaised(r, b) PROVE BillsSigned'
  BY <1>9 DEF SendRaised, Ends
<1>10. ASSUME NEW r \in Runs, MarkOverdue(r) PROVE BillsSigned'
  BY <1>10 DEF MarkOverdue, Ends
<1>11. ASSUME NEW r \in Runs, Abort(r) PROVE BillsSigned'
  BY <1>11 DEF Abort, Ends
<1>12. ASSUME NEW r \in Runs, Die(r) PROVE BillsSigned'
  BY <1>12 DEF Die, Ends
<1>13. ASSUME NEW c \in Contracts, SignContract(c) PROVE BillsSigned'
  <2>1. /\ since[c] = 0 /\ since' = [since EXCEPT ![c] = today] /\ today \in Periods /\ lost' = lost
        /\ \/ UNCHANGED books
           \/ \E used \in 0..Price, to \in {"paid", "draft", "sent"} :
                /\ <<c, today, 1>> \in Bills
                /\ applied' = [applied EXCEPT ![<<c, today, 1>>] = used]
                /\ status'  = [status EXCEPT ![<<c, today, 1>>] = to]
                /\ earned'  = IF used = Price THEN EarnReferral(<<c, today, 1>>) ELSE earned
    BY <1>13, SignsOne
  <2>2. CASE UNCHANGED books
    BY <2>1, <2>2
  <2>3. ASSUME NEW used \in 0..Price, NEW to \in {"paid", "draft", "sent"}, <<c, today, 1>> \in Bills,
               applied' = [applied EXCEPT ![<<c, today, 1>>] = used],
               status'  = [status EXCEPT ![<<c, today, 1>>] = to],
               earned'  = IF used = Price THEN EarnReferral(<<c, today, 1>>) ELSE earned
        PROVE  BillsSigned'
    <3> DEFINE b == <<c, today, 1>>
    <3>1. b \in Bills /\ b[1] = c
      BY <2>3
    <3> HIDE DEF b
    <3>2. applied' = [applied EXCEPT ![b] = used] /\ status' = [status EXCEPT ![b] = to] /\ earned' = IF used = Price THEN EarnReferral(b) ELSE earned
      BY <2>3 DEF b
    <3>3. QED BY <2>1, <3>1, <3>2 DEF Periods, EarnReferral
  <2>4. QED BY <2>1, <2>2, <2>3
<1>14. ASSUME NEW c \in Contracts, EndContract(c) PROVE BillsSigned'
  BY <1>14 DEF EndContract
<1>15. ASSUME NEW c \in Contracts, NEW p \in Periods, CreateInvoice(c, p) PROVE BillsSigned'
  BY <1>15 DEF CreateInvoice, FreshBill
<1>16. ASSUME NEW b \in Bills, EmailInvoice(b) PROVE BillsSigned'
  BY <1>16 DEF EmailInvoice
<1>17. ASSUME NEW b \in Bills, VoidInvoice(b) PROVE BillsSigned'
  BY <1>17 DEF VoidInvoice
<1>18. ASSUME NEW b \in Bills, DeleteInvoice(b) PROVE BillsSigned'
  BY <1>18 DEF DeleteInvoice, Exists
<1>19. ASSUME NEW b \in Bills, PaidUp(b) PROVE BillsSigned'
  BY <1>19 DEF PaidUp, EarnReferral
<1>20. ASSUME NEW b \in Bills, Uncovered(b) PROVE BillsSigned'
  BY <1>20 DEF Uncovered
<1>21. CASE NextPeriod
  BY <1>21 DEF NextPeriod
<1>22. CASE UNCHANGED vars
  BY <1>22 DEF vars
<1>23. QED
  BY <1>1, <1>2, <1>3, <1>4, <1>5, <1>6, <1>7, <1>8, <1>9, <1>10, <1>11, <1>12, <1>13, <1>14, <1>15, <1>16, <1>17, <1>18, <1>19, <1>20, <1>21, <1>22 DEF Next, Work, Office

LEMMA LedgerStays == BillingTypeOK /\ RunsSigned /\ LedgerHolds /\ [Next]_vars => LedgerHolds'
<1> SUFFICES ASSUME BillingTypeOK, RunsSigned, LedgerHolds, [Next]_vars PROVE LedgerHolds'
  OBVIOUS
<1> USE BillingAssumption DEF BillingTypeOK, deals, books, run, Goes, Moved, RunsSigned, LedgerHolds, Exists, Inserting
<1>1. ASSUME NEW r \in Runs, StartRun(r) PROVE LedgerHolds'
  BY <1>1 DEF StartRun
<1>2. ASSUME NEW r \in Runs, NEW c \in Contracts, TakeContract(r, c) PROVE LedgerHolds'
  BY <1>2 DEF TakeContract, ToRaise, DueNow
<1>3. ASSUME NEW r \in Runs, SkipPeriod(r) PROVE LedgerHolds'
  BY <1>3 DEF SkipPeriod
<1>4. ASSUME NEW r \in Runs, RaisePlain(r) PROVE LedgerHolds'
  BY <1>4 DEF RaisePlain, FreshBill
<1>5. ASSUME NEW r \in Runs, InsertBill(r) PROVE LedgerHolds'
  BY <1>5 DEF InsertBill, FreshBill
<1>6. ASSUME NEW r \in Runs, ReadCredit(r) PROVE LedgerHolds'
  BY <1>6 DEF ReadCredit
<1>7. ASSUME NEW r \in Runs, CommitBill(r) PROVE LedgerHolds'
  BY <1>7 DEF CommitBill, Raise, EarnReferral
<1>8. ASSUME NEW r \in Runs, ContractRaised(r) PROVE LedgerHolds'
  BY <1>8 DEF ContractRaised
<1>9. ASSUME NEW r \in Runs, NEW b \in Bills, SendRaised(r, b) PROVE LedgerHolds'
  BY <1>9 DEF SendRaised, Ends
<1>10. ASSUME NEW r \in Runs, MarkOverdue(r) PROVE LedgerHolds'
  BY <1>10 DEF MarkOverdue, Ends
<1>11. ASSUME NEW r \in Runs, Abort(r) PROVE LedgerHolds'
  BY <1>11 DEF Abort, Ends
<1>12. ASSUME NEW r \in Runs, Die(r) PROVE LedgerHolds'
  BY <1>12 DEF Die, Ends
<1>13. ASSUME NEW c \in Contracts, SignContract(c) PROVE LedgerHolds'
  <2>1. /\ since[c] = 0 /\ since' = [since EXCEPT ![c] = today] /\ today \in Periods /\ lost' = lost
        /\ \/ UNCHANGED books
           \/ \E used \in 0..Price, to \in {"paid", "draft", "sent"} :
                /\ <<c, today, 1>> \in Bills
                /\ applied' = [applied EXCEPT ![<<c, today, 1>>] = used]
                /\ status'  = [status EXCEPT ![<<c, today, 1>>] = to]
                /\ earned'  = IF used = Price THEN EarnReferral(<<c, today, 1>>) ELSE earned
    BY <1>13, SignsOne
  <2>2. CASE UNCHANGED books
    BY <2>1, <2>2
  <2>3. ASSUME NEW used \in 0..Price, NEW to \in {"paid", "draft", "sent"}, <<c, today, 1>> \in Bills,
               applied' = [applied EXCEPT ![<<c, today, 1>>] = used],
               status'  = [status EXCEPT ![<<c, today, 1>>] = to],
               earned'  = IF used = Price THEN EarnReferral(<<c, today, 1>>) ELSE earned
        PROVE  LedgerHolds'
    <3> DEFINE b == <<c, today, 1>>
    <3>1. b \in Bills /\ b[1] = c
      BY <2>3
    <3> HIDE DEF b
    <3>2. applied' = [applied EXCEPT ![b] = used] /\ status' = [status EXCEPT ![b] = to] /\ earned' = IF used = Price THEN EarnReferral(b) ELSE earned
      BY <2>3 DEF b
    <3>3. QED BY <2>1, <3>1, <3>2 DEF EarnReferral
  <2>4. QED BY <2>1, <2>2, <2>3
<1>14. ASSUME NEW c \in Contracts, EndContract(c) PROVE LedgerHolds'
  BY <1>14 DEF EndContract
<1>15. ASSUME NEW c \in Contracts, NEW p \in Periods, CreateInvoice(c, p) PROVE LedgerHolds'
  BY <1>15 DEF CreateInvoice, FreshBill
<1>16. ASSUME NEW b \in Bills, EmailInvoice(b) PROVE LedgerHolds'
  BY <1>16 DEF EmailInvoice
<1>17. ASSUME NEW b \in Bills, VoidInvoice(b) PROVE LedgerHolds'
  BY <1>17 DEF VoidInvoice
<1>18. ASSUME NEW b \in Bills, DeleteInvoice(b) PROVE LedgerHolds'
  BY <1>18 DEF DeleteInvoice
<1>19. ASSUME NEW b \in Bills, PaidUp(b) PROVE LedgerHolds'
  BY <1>19 DEF PaidUp, EarnReferral
<1>20. ASSUME NEW b \in Bills, Uncovered(b) PROVE LedgerHolds'
  BY <1>20 DEF Uncovered
<1>21. CASE NextPeriod
  BY <1>21 DEF NextPeriod
<1>22. CASE UNCHANGED vars
  BY <1>22 DEF vars
<1>23. QED
  BY <1>1, <1>2, <1>3, <1>4, <1>5, <1>6, <1>7, <1>8, <1>9, <1>10, <1>11, <1>12, <1>13, <1>14, <1>15, <1>16, <1>17, <1>18, <1>19, <1>20, <1>21, <1>22 DEF Next, Work, Office

LEMMA SigningKeepsPaid ==
  ASSUME BillingTypeOK, ReferralsPaid, NEW c \in Contracts, SignContract(c)
  PROVE  ReferralsPaid'
<1>1. /\ since[c] = 0 /\ since' = [since EXCEPT ![c] = today] /\ today \in Periods
      /\ CustomerFree(OwnerOf[c]) /\ UNCHANGED <<run, faults, moves, today>>
      /\ \/ UNCHANGED books
         \/ \E used \in 0..Price, to \in {"paid", "draft", "sent"} :
              /\ <<c, today, 1>> \in Bills
              /\ applied' = [applied EXCEPT ![<<c, today, 1>>] = used]
              /\ status'  = [status EXCEPT ![<<c, today, 1>>] = to]
              /\ earned'  = IF used = Price THEN EarnReferral(<<c, today, 1>>) ELSE earned
              /\ used = Price <=> to = "paid"
  BY SignsOne, Zenon
<1>2. CASE UNCHANGED books
  BY <1>1, <1>2, BillingAssumption DEF books, run, ReferralsPaid, Exists
<1>3. ASSUME NEW used \in 0..Price, NEW to \in {"paid", "draft", "sent"}, NEW b \in Bills, b = <<c, today, 1>>,
             applied' = [applied EXCEPT ![b] = used], status' = [status EXCEPT ![b] = to],
             earned' = IF used = Price THEN EarnReferral(b) ELSE earned, used = Price <=> to = "paid"
      PROVE  ReferralsPaid'
  <2>1. b[1] = c /\ b[2] = today
    BY <1>3
  <2>3. QED BY <1>1, <1>3, <2>1, BillingAssumption DEF BillingTypeOK, run, EarnReferral, ReferralsPaid, Exists
<1>4. QED BY <1>1, <1>2, <1>3, Zenon

LEMMA SigningKeepsFlight ==
  ASSUME BillingTypeOK, RunsSigned, BillsSigned, InFlight, NEW c \in Contracts, SignContract(c)
  PROVE  InFlight'
<1>1. /\ since[c] = 0 /\ since' = [since EXCEPT ![c] = today] /\ today \in Periods
      /\ CustomerFree(OwnerOf[c]) /\ UNCHANGED <<run, faults, moves, today>>
      /\ \/ UNCHANGED books
         \/ \E used \in 0..Price, to \in {"paid", "draft", "sent"} :
              /\ <<c, today, 1>> \in Bills
              /\ applied' = [applied EXCEPT ![<<c, today, 1>>] = used]
              /\ status'  = [status EXCEPT ![<<c, today, 1>>] = to]
              /\ earned'  = IF used = Price THEN EarnReferral(<<c, today, 1>>) ELSE earned
              /\ used = Price <=> to = "paid"
  BY SignsOne, Zenon
<1>2. CASE UNCHANGED books
  BY <1>1, <1>2, BillingAssumption DEF books, run, RunsSigned, InFlight, Billed, Exists, Inserting
<1>3. ASSUME NEW used \in 0..Price, NEW to \in {"paid", "draft", "sent"}, NEW b \in Bills, b = <<c, today, 1>>,
             applied' = [applied EXCEPT ![b] = used], status' = [status EXCEPT ![b] = to],
             earned' = IF used = Price THEN EarnReferral(b) ELSE earned, used = Price <=> to = "paid"
      PROVE  InFlight'
  <2>1. b[1] = c /\ b[2] = today
    BY <1>3
  <2>2. \A r \in Inserting : bill[r][1] # c
    BY <1>1, BillingAssumption DEF CustomerFree, PayerOf
  <2>3. QED BY <1>1, <1>3, <2>1, <2>2, BillingAssumption DEF BillingTypeOK, run, EarnReferral, RunsSigned, InFlight, Billed, Exists, Inserting
<1>4. QED BY <1>1, <1>2, <1>3, Zenon

LEMMA SigningKeepsOnce ==
  ASSUME BillingTypeOK, RunsSigned, BillsSigned, BilledOnce, NEW c \in Contracts, SignContract(c)
  PROVE  BilledOnce'
<1>1. /\ since[c] = 0 /\ since' = [since EXCEPT ![c] = today] /\ today \in Periods
      /\ CustomerFree(OwnerOf[c]) /\ UNCHANGED <<run, faults, moves, today>>
      /\ \/ UNCHANGED books
         \/ \E used \in 0..Price, to \in {"paid", "draft", "sent"} :
              /\ <<c, today, 1>> \in Bills
              /\ applied' = [applied EXCEPT ![<<c, today, 1>>] = used]
              /\ status'  = [status EXCEPT ![<<c, today, 1>>] = to]
              /\ earned'  = IF used = Price THEN EarnReferral(<<c, today, 1>>) ELSE earned
              /\ used = Price <=> to = "paid"
  BY SignsOne, Zenon
<1>2. CASE UNCHANGED books
  BY <1>1, <1>2, BillingAssumption DEF books, run, BillsSigned, BilledOnce, Exists
<1>3. ASSUME NEW used \in 0..Price, NEW to \in {"paid", "draft", "sent"}, NEW b \in Bills, b = <<c, today, 1>>,
             applied' = [applied EXCEPT ![b] = used], status' = [status EXCEPT ![b] = to],
             earned' = IF used = Price THEN EarnReferral(b) ELSE earned, used = Price <=> to = "paid"
      PROVE  BilledOnce'
  <2>1. b[1] = c /\ b[2] = today
    BY <1>3
  <2>3. QED BY <1>1, <1>3, <2>1, BillingAssumption DEF BillingTypeOK, run, EarnReferral, BillsSigned, BilledOnce, Exists
<1>4. QED BY <1>1, <1>2, <1>3, Zenon

LEMMA PaidStaysEarned == BillingTypeOK /\ RunsSigned /\ LedgerHolds /\ ReferralsPaid /\ [Next]_vars => ReferralsPaid'
<1> SUFFICES ASSUME BillingTypeOK, RunsSigned, LedgerHolds, ReferralsPaid, [Next]_vars PROVE ReferralsPaid'
  OBVIOUS
<1> USE BillingAssumption DEF BillingTypeOK, deals, books, run, Goes, Moved, ReferralsPaid, RunsSigned, Exists, Inserting
<1>1. ASSUME NEW r \in Runs, StartRun(r) PROVE ReferralsPaid'
  BY <1>1 DEF StartRun
<1>2. ASSUME NEW r \in Runs, NEW c \in Contracts, TakeContract(r, c) PROVE ReferralsPaid'
  BY <1>2 DEF TakeContract, ToRaise, DueNow
<1>3. ASSUME NEW r \in Runs, SkipPeriod(r) PROVE ReferralsPaid'
  BY <1>3 DEF SkipPeriod
<1>4. ASSUME NEW r \in Runs, RaisePlain(r) PROVE ReferralsPaid'
  BY <1>4 DEF RaisePlain, FreshBill
<1>5. ASSUME NEW r \in Runs, InsertBill(r) PROVE ReferralsPaid'
  BY <1>5 DEF InsertBill, FreshBill
<1>6. ASSUME NEW r \in Runs, ReadCredit(r) PROVE ReferralsPaid'
  BY <1>6 DEF ReadCredit
<1>7. ASSUME NEW r \in Runs, CommitBill(r) PROVE ReferralsPaid'
  BY <1>7 DEF CommitBill, Raise, EarnReferral
<1>8. ASSUME NEW r \in Runs, ContractRaised(r) PROVE ReferralsPaid'
  BY <1>8 DEF ContractRaised
<1>9. ASSUME NEW r \in Runs, NEW b \in Bills, SendRaised(r, b) PROVE ReferralsPaid'
  BY <1>9 DEF SendRaised, Ends
<1>10. ASSUME NEW r \in Runs, MarkOverdue(r) PROVE ReferralsPaid'
  BY <1>10 DEF MarkOverdue, Ends
<1>11. ASSUME NEW r \in Runs, Abort(r) PROVE ReferralsPaid'
  BY <1>11 DEF Abort, Ends
<1>12. ASSUME NEW r \in Runs, Die(r) PROVE ReferralsPaid'
  BY <1>12 DEF Die, Ends
<1>13. ASSUME NEW c \in Contracts, SignContract(c) PROVE ReferralsPaid'
  BY <1>13, SigningKeepsPaid
<1>14. ASSUME NEW c \in Contracts, EndContract(c) PROVE ReferralsPaid'
  BY <1>14 DEF EndContract
<1>15. ASSUME NEW c \in Contracts, NEW p \in Periods, CreateInvoice(c, p) PROVE ReferralsPaid'
  BY <1>15 DEF CreateInvoice, FreshBill
<1>16. ASSUME NEW b \in Bills, EmailInvoice(b) PROVE ReferralsPaid'
  BY <1>16 DEF EmailInvoice
<1>17. ASSUME NEW b \in Bills, VoidInvoice(b) PROVE ReferralsPaid'
  BY <1>17 DEF VoidInvoice
<1>18. ASSUME NEW b \in Bills, DeleteInvoice(b) PROVE ReferralsPaid'
  BY <1>18 DEF DeleteInvoice
<1>19. ASSUME NEW b \in Bills, PaidUp(b) PROVE ReferralsPaid'
  BY <1>19 DEF PaidUp, EarnReferral
<1>20. ASSUME NEW b \in Bills, Uncovered(b) PROVE ReferralsPaid'
  BY <1>20 DEF Uncovered
<1>21. CASE NextPeriod
  BY <1>21 DEF NextPeriod
<1>22. CASE UNCHANGED vars
  BY <1>22 DEF vars
<1>23. QED
  BY <1>1, <1>2, <1>3, <1>4, <1>5, <1>6, <1>7, <1>8, <1>9, <1>10, <1>11, <1>12, <1>13, <1>14, <1>15, <1>16, <1>17, <1>18, <1>19, <1>20, <1>21, <1>22 DEF Next, Work, Office

LEMMA HeldStaysOnce == BillingTypeOK /\ RunsSigned /\ HeldOnce /\ [Next]_vars => HeldOnce'
<1> SUFFICES ASSUME BillingTypeOK, RunsSigned, HeldOnce, [Next]_vars PROVE HeldOnce'
  OBVIOUS
<1> USE BillingAssumption DEF BillingTypeOK, deals, books, run, Goes, Moved, Inserting, RunsSigned, HeldOnce
<1>1. ASSUME NEW r \in Runs, StartRun(r) PROVE HeldOnce'
  BY <1>1 DEF StartRun
<1>2. ASSUME NEW r \in Runs, NEW c \in Contracts, TakeContract(r, c) PROVE HeldOnce'
  BY <1>2 DEF TakeContract, ToRaise, DueNow
<1>3. ASSUME NEW r \in Runs, SkipPeriod(r) PROVE HeldOnce'
  BY <1>3 DEF SkipPeriod
<1>4. ASSUME NEW r \in Runs, RaisePlain(r) PROVE HeldOnce'
  BY <1>4 DEF RaisePlain, FreshBill
<1>5. ASSUME NEW r \in Runs, InsertBill(r) PROVE HeldOnce'
  BY <1>5 DEF InsertBill, FreshBill, Waits
<1>6. ASSUME NEW r \in Runs, ReadCredit(r) PROVE HeldOnce'
  BY <1>6 DEF ReadCredit
<1>7. ASSUME NEW r \in Runs, CommitBill(r) PROVE HeldOnce'
  BY <1>7 DEF CommitBill, Raise, EarnReferral
<1>8. ASSUME NEW r \in Runs, ContractRaised(r) PROVE HeldOnce'
  BY <1>8 DEF ContractRaised
<1>9. ASSUME NEW r \in Runs, NEW b \in Bills, SendRaised(r, b) PROVE HeldOnce'
  BY <1>9 DEF SendRaised, Ends
<1>10. ASSUME NEW r \in Runs, MarkOverdue(r) PROVE HeldOnce'
  BY <1>10 DEF MarkOverdue, Ends
<1>11. ASSUME NEW r \in Runs, Abort(r) PROVE HeldOnce'
  BY <1>11 DEF Abort, Ends
<1>12. ASSUME NEW r \in Runs, Die(r) PROVE HeldOnce'
  BY <1>12 DEF Die, Ends
<1>13. ASSUME NEW c \in Contracts, SignContract(c) PROVE HeldOnce'
  BY <1>13 DEF SignContract, EarnReferral
<1>14. ASSUME NEW c \in Contracts, EndContract(c) PROVE HeldOnce'
  BY <1>14 DEF EndContract
<1>15. ASSUME NEW c \in Contracts, NEW p \in Periods, CreateInvoice(c, p) PROVE HeldOnce'
  BY <1>15 DEF CreateInvoice, FreshBill
<1>16. ASSUME NEW b \in Bills, EmailInvoice(b) PROVE HeldOnce'
  BY <1>16 DEF EmailInvoice
<1>17. ASSUME NEW b \in Bills, VoidInvoice(b) PROVE HeldOnce'
  BY <1>17 DEF VoidInvoice
<1>18. ASSUME NEW b \in Bills, DeleteInvoice(b) PROVE HeldOnce'
  BY <1>18 DEF DeleteInvoice
<1>19. ASSUME NEW b \in Bills, PaidUp(b) PROVE HeldOnce'
  BY <1>19 DEF PaidUp, EarnReferral
<1>20. ASSUME NEW b \in Bills, Uncovered(b) PROVE HeldOnce'
  BY <1>20 DEF Uncovered
<1>21. CASE NextPeriod
  BY <1>21 DEF NextPeriod
<1>22. CASE UNCHANGED vars
  BY <1>22 DEF vars
<1>23. QED
  BY <1>1, <1>2, <1>3, <1>4, <1>5, <1>6, <1>7, <1>8, <1>9, <1>10, <1>11, <1>12, <1>13, <1>14, <1>15, <1>16, <1>17, <1>18, <1>19, <1>20, <1>21, <1>22 DEF Next, Work, Office

LEMMA CreditStaysAlone == BillingTypeOK /\ RunsSigned /\ CreditAlone /\ [Next]_vars => CreditAlone'
<1> SUFFICES ASSUME BillingTypeOK, RunsSigned, CreditAlone, [Next]_vars PROVE CreditAlone'
  OBVIOUS
<1> USE BillingAssumption DEF BillingTypeOK, deals, books, run, Goes, Moved, Inserting, RunsSigned, CreditAlone
<1>1. ASSUME NEW r \in Runs, StartRun(r) PROVE CreditAlone'
  BY <1>1 DEF StartRun
<1>2. ASSUME NEW r \in Runs, NEW c \in Contracts, TakeContract(r, c) PROVE CreditAlone'
  BY <1>2 DEF TakeContract, ToRaise, DueNow
<1>3. ASSUME NEW r \in Runs, SkipPeriod(r) PROVE CreditAlone'
  BY <1>3 DEF SkipPeriod
<1>4. ASSUME NEW r \in Runs, RaisePlain(r) PROVE CreditAlone'
  BY <1>4 DEF RaisePlain, FreshBill
<1>5. ASSUME NEW r \in Runs, InsertBill(r) PROVE CreditAlone'
  BY <1>5 DEF InsertBill, FreshBill
<1>6. ASSUME NEW r \in Runs, ReadCredit(r) PROVE CreditAlone'
  BY <1>6 DEF ReadCredit, Waits
<1>7. ASSUME NEW r \in Runs, CommitBill(r) PROVE CreditAlone'
  BY <1>7 DEF CommitBill, Raise, EarnReferral
<1>8. ASSUME NEW r \in Runs, ContractRaised(r) PROVE CreditAlone'
  BY <1>8 DEF ContractRaised
<1>9. ASSUME NEW r \in Runs, NEW b \in Bills, SendRaised(r, b) PROVE CreditAlone'
  BY <1>9 DEF SendRaised, Ends
<1>10. ASSUME NEW r \in Runs, MarkOverdue(r) PROVE CreditAlone'
  BY <1>10 DEF MarkOverdue, Ends
<1>11. ASSUME NEW r \in Runs, Abort(r) PROVE CreditAlone'
  BY <1>11 DEF Abort, Ends
<1>12. ASSUME NEW r \in Runs, Die(r) PROVE CreditAlone'
  BY <1>12 DEF Die, Ends
<1>13. ASSUME NEW c \in Contracts, SignContract(c) PROVE CreditAlone'
  BY <1>13 DEF SignContract, EarnReferral
<1>14. ASSUME NEW c \in Contracts, EndContract(c) PROVE CreditAlone'
  BY <1>14 DEF EndContract
<1>15. ASSUME NEW c \in Contracts, NEW p \in Periods, CreateInvoice(c, p) PROVE CreditAlone'
  BY <1>15 DEF CreateInvoice, FreshBill
<1>16. ASSUME NEW b \in Bills, EmailInvoice(b) PROVE CreditAlone'
  BY <1>16 DEF EmailInvoice
<1>17. ASSUME NEW b \in Bills, VoidInvoice(b) PROVE CreditAlone'
  BY <1>17 DEF VoidInvoice
<1>18. ASSUME NEW b \in Bills, DeleteInvoice(b) PROVE CreditAlone'
  BY <1>18 DEF DeleteInvoice
<1>19. ASSUME NEW b \in Bills, PaidUp(b) PROVE CreditAlone'
  BY <1>19 DEF PaidUp, EarnReferral
<1>20. ASSUME NEW b \in Bills, Uncovered(b) PROVE CreditAlone'
  BY <1>20 DEF Uncovered
<1>21. CASE NextPeriod
  BY <1>21 DEF NextPeriod
<1>22. CASE UNCHANGED vars
  BY <1>22 DEF vars
<1>23. QED
  BY <1>1, <1>2, <1>3, <1>4, <1>5, <1>6, <1>7, <1>8, <1>9, <1>10, <1>11, <1>12, <1>13, <1>14, <1>15, <1>16, <1>17, <1>18, <1>19, <1>20, <1>21, <1>22 DEF Next, Work, Office

LEMMA FlightStays == BillingTypeOK /\ RunsSigned /\ BillsSigned /\ InFlight /\ HeldOnce /\ [Next]_vars => InFlight'
<1> SUFFICES ASSUME BillingTypeOK, RunsSigned, BillsSigned, InFlight, HeldOnce, [Next]_vars PROVE InFlight'
  OBVIOUS
<1> USE BillingAssumption DEF BillingTypeOK, deals, books, run, Goes, Moved, Inserting, RunsSigned, BillsSigned, InFlight, HeldOnce, Billed, Exists
<1>1. ASSUME NEW r \in Runs, StartRun(r) PROVE InFlight'
  BY <1>1 DEF StartRun
<1>2. ASSUME NEW r \in Runs, NEW c \in Contracts, TakeContract(r, c) PROVE InFlight'
  BY <1>2 DEF TakeContract, ToRaise, DueNow
<1>3. ASSUME NEW r \in Runs, SkipPeriod(r) PROVE InFlight'
  BY <1>3 DEF SkipPeriod
<1>4. ASSUME NEW r \in Runs, RaisePlain(r) PROVE InFlight'
  BY <1>4 DEF RaisePlain, FreshBill
<1>5. ASSUME NEW r \in Runs, InsertBill(r) PROVE InFlight'
  BY <1>5, Earliest DEF InsertBill, FreshBill, Closed
<1>6. ASSUME NEW r \in Runs, ReadCredit(r) PROVE InFlight'
  BY <1>6 DEF ReadCredit
<1>7. ASSUME NEW r \in Runs, CommitBill(r) PROVE InFlight'
  BY <1>7 DEF CommitBill, Raise, EarnReferral
<1>8. ASSUME NEW r \in Runs, ContractRaised(r) PROVE InFlight'
  BY <1>8 DEF ContractRaised
<1>9. ASSUME NEW r \in Runs, NEW b \in Bills, SendRaised(r, b) PROVE InFlight'
  BY <1>9 DEF SendRaised, Ends
<1>10. ASSUME NEW r \in Runs, MarkOverdue(r) PROVE InFlight'
  BY <1>10 DEF MarkOverdue, Ends
<1>11. ASSUME NEW r \in Runs, Abort(r) PROVE InFlight'
  BY <1>11 DEF Abort, Ends
<1>12. ASSUME NEW r \in Runs, Die(r) PROVE InFlight'
  BY <1>12 DEF Die, Ends
<1>13. ASSUME NEW c \in Contracts, SignContract(c) PROVE InFlight'
  BY <1>13, SigningKeepsFlight
<1>14. ASSUME NEW c \in Contracts, EndContract(c) PROVE InFlight'
  BY <1>14 DEF EndContract
<1>15. ASSUME NEW c \in Contracts, NEW p \in Periods, CreateInvoice(c, p) PROVE InFlight'
  BY <1>15 DEF CreateInvoice, FreshBill, CustomerFree, PayerOf
<1>16. ASSUME NEW b \in Bills, EmailInvoice(b) PROVE InFlight'
  BY <1>16 DEF EmailInvoice
<1>17. ASSUME NEW b \in Bills, VoidInvoice(b) PROVE InFlight'
  BY <1>17 DEF VoidInvoice
<1>18. ASSUME NEW b \in Bills, DeleteInvoice(b) PROVE InFlight'
  BY <1>18 DEF DeleteInvoice
<1>19. ASSUME NEW b \in Bills, PaidUp(b) PROVE InFlight'
  BY <1>19 DEF PaidUp, EarnReferral
<1>20. ASSUME NEW b \in Bills, Uncovered(b) PROVE InFlight'
  BY <1>20 DEF Uncovered
<1>21. CASE NextPeriod
  BY <1>21 DEF NextPeriod
<1>22. CASE UNCHANGED vars
  BY <1>22 DEF vars
<1>23. QED
  BY <1>1, <1>2, <1>3, <1>4, <1>5, <1>6, <1>7, <1>8, <1>9, <1>10, <1>11, <1>12, <1>13, <1>14, <1>15, <1>16, <1>17, <1>18, <1>19, <1>20, <1>21, <1>22 DEF Next, Work, Office

LEMMA BillsStayOnce == BillingTypeOK /\ RunsSigned /\ BillsSigned /\ InFlight /\ HeldOnce /\ BilledOnce /\ [Next]_vars => BilledOnce'
<1> SUFFICES ASSUME BillingTypeOK, RunsSigned, BillsSigned, InFlight, HeldOnce, BilledOnce, [Next]_vars PROVE BilledOnce'
  OBVIOUS
<1> USE BillingAssumption DEF BillingTypeOK, deals, books, run, Goes, Moved, Inserting, RunsSigned, BillsSigned, InFlight, BilledOnce, Billed, Exists
<1>1. ASSUME NEW r \in Runs, StartRun(r) PROVE BilledOnce'
  BY <1>1 DEF StartRun
<1>2. ASSUME NEW r \in Runs, NEW c \in Contracts, TakeContract(r, c) PROVE BilledOnce'
  BY <1>2 DEF TakeContract, ToRaise, DueNow
<1>3. ASSUME NEW r \in Runs, SkipPeriod(r) PROVE BilledOnce'
  BY <1>3 DEF SkipPeriod
<1>4. ASSUME NEW r \in Runs, RaisePlain(r) PROVE BilledOnce'
  BY <1>4 DEF RaisePlain, FreshBill, Closed
<1>5. ASSUME NEW r \in Runs, InsertBill(r) PROVE BilledOnce'
  BY <1>5 DEF InsertBill, FreshBill
<1>6. ASSUME NEW r \in Runs, ReadCredit(r) PROVE BilledOnce'
  BY <1>6 DEF ReadCredit
<1>7. ASSUME NEW r \in Runs, CommitBill(r) PROVE BilledOnce'
  BY <1>7 DEF CommitBill, Raise, EarnReferral
<1>8. ASSUME NEW r \in Runs, ContractRaised(r) PROVE BilledOnce'
  BY <1>8 DEF ContractRaised
<1>9. ASSUME NEW r \in Runs, NEW b \in Bills, SendRaised(r, b) PROVE BilledOnce'
  BY <1>9 DEF SendRaised, Ends
<1>10. ASSUME NEW r \in Runs, MarkOverdue(r) PROVE BilledOnce'
  BY <1>10 DEF MarkOverdue, Ends
<1>11. ASSUME NEW r \in Runs, Abort(r) PROVE BilledOnce'
  BY <1>11 DEF Abort, Ends
<1>12. ASSUME NEW r \in Runs, Die(r) PROVE BilledOnce'
  BY <1>12 DEF Die, Ends
<1>13. ASSUME NEW c \in Contracts, SignContract(c) PROVE BilledOnce'
  BY <1>13, SigningKeepsOnce
<1>14. ASSUME NEW c \in Contracts, EndContract(c) PROVE BilledOnce'
  BY <1>14 DEF EndContract
<1>15. ASSUME NEW c \in Contracts, NEW p \in Periods, CreateInvoice(c, p) PROVE BilledOnce'
  BY <1>15 DEF CreateInvoice, FreshBill
<1>16. ASSUME NEW b \in Bills, EmailInvoice(b) PROVE BilledOnce'
  BY <1>16 DEF EmailInvoice
<1>17. ASSUME NEW b \in Bills, VoidInvoice(b) PROVE BilledOnce'
  BY <1>17 DEF VoidInvoice
<1>18. ASSUME NEW b \in Bills, DeleteInvoice(b) PROVE BilledOnce'
  BY <1>18 DEF DeleteInvoice
<1>19. ASSUME NEW b \in Bills, PaidUp(b) PROVE BilledOnce'
  BY <1>19 DEF PaidUp, EarnReferral
<1>20. ASSUME NEW b \in Bills, Uncovered(b) PROVE BilledOnce'
  BY <1>20 DEF Uncovered
<1>21. CASE NextPeriod
  BY <1>21 DEF NextPeriod
<1>22. CASE UNCHANGED vars
  BY <1>22 DEF vars
<1>23. QED
  BY <1>1, <1>2, <1>3, <1>4, <1>5, <1>6, <1>7, <1>8, <1>9, <1>10, <1>11, <1>12, <1>13, <1>14, <1>15, <1>16, <1>17, <1>18, <1>19, <1>20, <1>21, <1>22 DEF Next, Work, Office

(* What a customer has, with what deleting bills has cost them, falls only *)
(* by what is spent on a bill that is raised.                              *)
Worth(c) == CreditBalance(c) + lost[c]
Ahead(c) == Balance(applied', earned', c) + lost'[c]

LEMMA AfterRaising ==
  ASSUME NEW a \in [Bills -> Nat], NEW e \in SUBSET Bills, NEW b \in Bills, NEW n \in Nat, a[b] = 0, NEW c,
         NEW f, f = e \/ f = e \cup {b}
  PROVE  /\ Balance([a EXCEPT ![b] = n], f, c) \in Int
         /\ Balance(a, e, c) \in Int
         /\ Balance([a EXCEPT ![b] = n], f, c) >= Balance(a, e, c) - Spent(c, PayerOf(b), n)
<1> DEFINE h == [a EXCEPT ![b] = n]
           old  == Balance(a, e, c)
           half == Balance(h, e, c)
           new  == Balance(h, f, c)
<1>1. h \in [Bills -> Nat] /\ f \in SUBSET Bills
  OBVIOUS
<1>2. h[b] - a[b] = n /\ \A x \in Bills \ {b} : h[x] = a[x]
  OBVIOUS
<1>4. half = old - Spent(c, PayerOf(b), n)
  <2> HIDE DEF h
  <2>1. half = old - Spent(c, PayerOf(b), h[b] - a[b])
    BY <1>1, <1>2, BalanceSpends
  <2>2. QED BY <2>1, <1>2, Zenon
<1>5. Balance(h, e, c) <= Balance(h, e \cup {b}, c)
  <2> HIDE DEF h
  <2>1. QED BY <1>1, BalanceEarns, Zenon
<1>6. Balance(a, e, c) \in Int
  BY BalanceType, Zenon
<1>7. Balance(h, e, c) \in Int /\ Balance(h, f, c) \in Int
  <2> HIDE DEF h
  <2>1. QED BY <1>1, BalanceType, Zenon
<1>8. half \in Int /\ new \in Int /\ old \in Int
  BY <1>6, <1>7
<1>9. half <= new
  <2>1. CASE f = e
    <3>1. new = half
      BY <2>1
    <3> HIDE DEF new, half
    <3>2. QED BY <3>1, <1>8
  <2>2. CASE f = e \cup {b}
    BY <2>2, <1>5
  <2>3. QED BY <2>1, <2>2
<1> HIDE DEF old, half, new
<1>10. Spent(c, PayerOf(b), n) \in Int
  BY DEF Spent
<1>11. new >= old - Spent(c, PayerOf(b), n)
  BY <1>4, <1>8, <1>9, <1>10
<1>12. QED BY <1>6, <1>7, <1>11 DEF old, new

LEMMA AfterDeleting ==
  ASSUME NEW a \in [Bills -> Nat], NEW e \in SUBSET Bills, NEW b \in Bills, NEW c,
         NEW gone, gone = Gone(e, b, c)
  PROVE  /\ Balance([a EXCEPT ![b] = 0], e \ {b}, c) \in Int
         /\ Balance(a, e, c) \in Int
         /\ gone \in Nat
         /\ Balance([a EXCEPT ![b] = 0], e \ {b}, c) >= Balance(a, e, c) - gone
<1> DEFINE h == [a EXCEPT ![b] = 0]
           old  == Balance(a, e, c)
           half == Balance(h, e, c)
           new  == Balance(h, e \ {b}, c)
<1>1. h \in [Bills -> Nat] /\ e \ {b} \in SUBSET Bills /\ 0 \in Nat
  OBVIOUS
<1>2. half = old - Spent(c, PayerOf(b), 0 - a[b])
  <2>1. h[b] = 0 /\ \A x \in Bills \ {b} : h[x] = a[x]
    OBVIOUS
  <2> HIDE DEF h
  <2>2. half = old - Spent(c, PayerOf(b), h[b] - a[b])
    BY <1>1, <2>1, BalanceSpends
  <2>3. QED BY <2>2, <2>1, Zenon
<1>3. Balance(h, e \ {b}, c) = Balance(h, e, c) - Gone(e, b, c)
  <2> HIDE DEF h
  <2>1. QED BY <1>1, BalanceEarns, Zenon
<1>4. new = half - gone
  BY <1>3, Zenon
<1>5. Balance(a, e, c) \in Int
  BY BalanceType, Zenon
<1>6. Balance(h, e, c) \in Int /\ Balance(h, e \ {b}, c) \in Int
  <2> HIDE DEF h
  <2>1. QED BY <1>1, BalanceType, Zenon
<1>7. half \in Int /\ new \in Int /\ old \in Int
  BY <1>5, <1>6
<1>8. gone \in Nat /\ a[b] \in Nat
  BY BillingAssumption DEF Gone
<1> HIDE DEF old, half, new
<1>9. half >= old
  <2>1. Spent(c, PayerOf(b), 0 - a[b]) \in Int /\ Spent(c, PayerOf(b), 0 - a[b]) <= 0
    BY <1>8 DEF Spent
  <2>2. QED BY <1>2, <1>7, <2>1
<1>10. new >= old - gone
  BY <1>4, <1>7, <1>8, <1>9
<1>11. QED BY <1>5, <1>6, <1>8, <1>10 DEF old, new

LEMMA WorthIs ==
  ASSUME BillingTypeOK, NEW c \in Customers
  PROVE  /\ Worth(c) = Balance(applied, earned, c) + lost[c]
         /\ Balance(applied, earned, c) \in Int /\ lost[c] \in Nat /\ Worth(c) \in Int
<1>1. Balance(applied, earned, c) = CreditBalance(c) /\ CreditBalance(c) \in Int
  BY BalanceIs, BalanceTyped
<1>2. lost[c] \in Nat
  BY DEF BillingTypeOK
<1>3. QED BY <1>1, <1>2 DEF Worth


LEMMA Idle ==
  ASSUME BillingTypeOK, UNCHANGED <<applied, earned, lost>>, NEW c \in Customers
  PROVE  Ahead(c) >= Worth(c)
<1>1. Ahead(c) = Worth(c)
  BY WorthIs DEF Ahead
<1>2. QED BY <1>1, WorthIs

LEMMA Rises ==
  ASSUME BillingTypeOK, NEW c \in Customers, NEW was \in Int, NEW x \in Int, NEW k \in Int, NEW m \in Int,
         was = Balance(applied, earned, c), x = Balance(applied', earned', c), x >= was - k, lost'[c] = lost[c] + m
  PROVE  Ahead(c) \in Int /\ Ahead(c) >= Worth(c) - k + m
<1>1. Ahead(c) = x + lost'[c]
  BY DEF Ahead
<1>2. Worth(c) = was + lost[c] /\ lost[c] \in Nat /\ Worth(c) \in Int
  BY WorthIs
<1> DEFINE w == Ahead(c)
           v == Worth(c)
           l == lost[c]
<1>3. w = x + (l + m) /\ v = was + l /\ l \in Int
  BY <1>1, <1>2
<1> HIDE DEF w, v, l
<1>4. w \in Int /\ w >= v - k + m
  BY <1>3
<1>5. QED BY <1>4 DEF w, v

(* A bill raised with credit n, by CommitBill or SignContract. *)
LEMMA Raising ==
  ASSUME BillingTypeOK, NEW b \in Bills, NEW n \in Nat, applied[b] = 0, lost' = lost,
         applied' = [applied EXCEPT ![b] = n], earned' = earned \/ earned' = earned \cup {b}, NEW c \in Customers
  PROVE  Ahead(c) \in Int /\ Ahead(c) >= Worth(c) - Spent(c, PayerOf(b), n)
<1>1. applied \in [Bills -> Nat] /\ earned \in SUBSET Bills /\ lost[c] \in Nat
  BY BillingAssumption DEF BillingTypeOK
<1> DEFINE x == Balance(applied', earned', c)
           was == Balance(applied, earned, c)
           k == Spent(c, PayerOf(b), n)
<1>2. x \in Int /\ was \in Int /\ x >= was - k
  BY <1>1, AfterRaising, Zenon
<1>3. k \in Int /\ 0 \in Int
  BY DEF Spent
<1>4. lost'[c] = lost[c] + 0
  BY <1>1
<1> HIDE DEF k
<1>5. Ahead(c) \in Int /\ Ahead(c) >= Worth(c) - k + 0
  <2> HIDE DEF x, was
  <2>1. was = Balance(applied, earned, c) /\ x = Balance(applied', earned', c)
    BY DEF x, was
  <2>2. QED BY <1>2, <1>3, <1>4, <2>1, Rises, Zenon
<1>6. Worth(c) \in Int
  BY WorthIs
<1>7. Ahead(c) \in Int /\ Ahead(c) >= Worth(c) - k
  BY <1>3, <1>5, <1>6
<1>8. QED BY <1>7 DEF k

LEMMA Paying ==
  ASSUME BillingTypeOK, NEW b \in Bills, PaidUp(b), NEW c \in Customers
  PROVE  Ahead(c) \in Int /\ Ahead(c) >= Worth(c)
<1>1. applied \in [Bills -> Nat] /\ earned \in SUBSET Bills /\ lost[c] \in Nat
  BY BillingAssumption DEF BillingTypeOK
<1>2. (earned' = earned \/ earned' = earned \cup {b}) /\ applied' = applied /\ lost' = lost
  BY DEF PaidUp, EarnReferral
<1> DEFINE x == Balance(applied, earned', c)
           was == Balance(applied, earned, c)
<1>3. x \in Int /\ was \in Int
  BY <1>1, <1>2, BalanceType
<1>4. was <= Balance(applied, earned \cup {b}, c)
  BY <1>1, BalanceEarns, Zenon
<1>5. x >= was
  <2>1. CASE earned' = earned
    <3>1. x = was
      BY <2>1
    <3> HIDE DEF x, was
    <3>2. QED BY <3>1, <1>3
  <2>2. CASE earned' = earned \cup {b}
    <3>1. was <= x
      BY <2>2, <1>4, Zenon
    <3> HIDE DEF x, was
    <3>2. QED BY <3>1, <1>3
  <2>3. QED BY <1>2, <2>1, <2>2
<1>6. lost'[c] = lost[c] + 0 /\ 0 \in Int
  BY <1>1, <1>2
<1>7. was = Balance(applied, earned, c) /\ x = Balance(applied', earned', c)
  BY <1>2
<1>8. x >= was - 0
  <2> HIDE DEF x, was
  <2>1. QED BY <1>3, <1>5
<1>9. Ahead(c) \in Int /\ Ahead(c) >= Worth(c) - 0 + 0
  <2> HIDE DEF x, was
  <2>1. QED BY <1>3, <1>6, <1>7, <1>8, Rises, Zenon
<1>10. Worth(c) \in Int
  BY WorthIs
<1>11. QED BY <1>9, <1>10

LEMMA Deleting ==
  ASSUME BillingTypeOK, NEW b \in Bills, DeleteInvoice(b), NEW c \in Customers
  PROVE  Ahead(c) \in Int /\ Ahead(c) >= Worth(c)
<1>1. applied \in [Bills -> Nat] /\ earned \in SUBSET Bills
  BY BillingAssumption DEF BillingTypeOK
<1> DEFINE gone == Gone(earned, b, c)
           x == Balance(applied', earned', c)
           was == Balance(applied, earned, c)
<1>2. applied' = [applied EXCEPT ![b] = 0] /\ earned' = earned \ {b} /\ lost'[c] = lost[c] + gone
  <2>1. lost[c] \in Nat /\ Reward \in Nat /\ gone = IF b \in earned /\ ReferrerOf[b[1]] = c THEN Reward ELSE 0
    BY BillingAssumption DEF BillingTypeOK, Gone
  <2>2. applied' = [applied EXCEPT ![b] = 0] /\ earned' = earned \ {b}
    BY DEF DeleteInvoice
  <2>3. CASE b \in earned
    <3>1. lost' = [lost EXCEPT ![ReferrerOf[b[1]]] = @ + Reward]
      BY <2>3 DEF DeleteInvoice
    <3>2. QED BY <2>1, <2>2, <2>3, <3>1 DEF BillingTypeOK
  <2>4. CASE b \notin earned
    BY <2>1, <2>2, <2>4 DEF DeleteInvoice
  <2>5. QED BY <2>3, <2>4
<1>3. gone = Gone(earned, b, c)
  OBVIOUS
<1> HIDE DEF gone
<1>4. x \in Int /\ was \in Int /\ gone \in Nat /\ x >= was - gone
  BY <1>1, <1>2, <1>3, AfterDeleting, Zenon
<1>5. gone \in Int
  BY <1>4
<1>6. Ahead(c) \in Int /\ Ahead(c) >= Worth(c) - gone + gone
  <2>1. was = Balance(applied, earned, c) /\ x = Balance(applied', earned', c)
    BY DEF x, was
  <2> HIDE DEF x, was
  <2>2. QED BY <1>2, <1>4, <1>5, <2>1, Rises, Zenon
<1>7. Worth(c) \in Int
  BY WorthIs
<1>8. QED BY <1>5, <1>6, <1>7

Held(r) == pc'[r] = "crediting" => pc[r] = "crediting" /\ bill'[r] = bill[r] /\ credit'[r] = credit[r]

LEMMA Crediting ==
  ASSUME BillingTypeOK, RunsSigned, CreditStays, NEW r \in Runs, pc[r] = "crediting"
  PROVE  /\ bill[r] \in Bills /\ PayerOf(bill[r]) \in Customers
         /\ credit[r] \in Int /\ Worth(PayerOf(bill[r])) \in Int /\ credit[r] <= Worth(PayerOf(bill[r]))
<1>1. bill[r] \in Bills
  BY DEF RunsSigned, Inserting
<1>2. PayerOf(bill[r]) \in Customers
  BY <1>1, BillingAssumption DEF PayerOf, Bills
<1>3. credit[r] \in Int
  BY DEF BillingTypeOK
<1>4. Worth(PayerOf(bill[r])) \in Int
  BY <1>2, WorthIs
<1>5. credit[r] <= Worth(PayerOf(bill[r]))
  BY DEF CreditStays, Worth
<1>6. QED BY <1>1, <1>2, <1>3, <1>4, <1>5

LEMMA NoOverdraftIs == NoOverdraft <=> \A c \in Customers : Worth(c) >= 0
BY DEF NoOverdraft, Worth

LEMMA NoOverdraftWillBe == NoOverdraft' <=> \A c \in Customers : Ahead(c) >= 0
BY BalanceWillBe DEF NoOverdraft, Ahead

LEMMA WorthHolds ==
  ASSUME BillingTypeOK, CreditInv, NEW c \in Customers
  PROVE  Worth(c) \in Int /\ Worth(c) >= 0
BY WorthIs, NoOverdraftIs DEF CreditInv

LEMMA StaysIs ==
  CreditStays <=> \A r \in Runs : pc[r] = "crediting" =>
                    credit[r] <= Balance(applied, earned, PayerOf(bill[r])) + lost[PayerOf(bill[r])]
BY BalanceIs DEF CreditStays

LEMMA StaysPrimed ==
  (CreditStays <=> \A r \in Runs : pc[r] = "crediting" =>
                     credit[r] <= Balance(applied, earned, PayerOf(bill[r])) + lost[PayerOf(bill[r])])'
BY StaysIs, PTL

LEMMA StaysWillBe ==
  ASSUME \A r \in Runs : pc'[r] = "crediting" => credit'[r] <= Ahead(PayerOf(bill'[r]))
  PROVE  CreditStays'
BY StaysPrimed DEF Ahead, PayerOf

(* Where no credit is spent. *)
LEMMA CreditKept ==
  ASSUME BillingTypeOK, RunsSigned, CreditInv,
         \A c \in Customers : Ahead(c) \in Int /\ Ahead(c) >= Worth(c),
         \A r \in Runs : Held(r)
  PROVE  CreditInv'
<1>1. ASSUME NEW c \in Customers PROVE Ahead(c) >= 0
  <2>1. Worth(c) \in Int /\ Worth(c) >= 0
    BY WorthHolds
  <2>2. Ahead(c) \in Int /\ Ahead(c) >= Worth(c)
    OBVIOUS
  <2>3. QED BY <2>1, <2>2
<1>2. ASSUME NEW r \in Runs, pc'[r] = "crediting" PROVE credit'[r] <= Ahead(PayerOf(bill'[r]))
  <2>1. pc[r] = "crediting" /\ bill'[r] = bill[r] /\ credit'[r] = credit[r]
    BY <1>2 DEF Held
  <2> DEFINE p == PayerOf(bill[r])
  <2>2. p \in Customers /\ credit[r] \in Int /\ Worth(p) \in Int /\ credit[r] <= Worth(p)
    BY <2>1, Crediting DEF CreditInv
  <2>3. PayerOf(bill'[r]) = p
    BY <2>1
  <2> HIDE DEF p
  <2>4. Ahead(p) \in Int /\ Ahead(p) >= Worth(p)
    BY <2>2
  <2>5. credit[r] <= Ahead(p)
    BY <2>2, <2>4
  <2>6. Ahead(PayerOf(bill'[r])) = Ahead(p)
    BY <2>3
  <2>7. QED BY <2>1, <2>5, <2>6
<1>3. QED BY <1>1, <1>2, NoOverdraftWillBe, StaysWillBe DEF CreditInv

(* Where p's is, up to what there was. *)
LEMMA CreditSpent ==
  ASSUME BillingTypeOK, RunsSigned, CreditInv, NEW p \in Customers, NEW n \in Nat, n = 0 \/ n <= Worth(p),
         \A c \in Customers : Ahead(c) \in Int /\ Ahead(c) >= Worth(c) - Spent(c, p, n),
         \A r \in Runs : Held(r), \A r \in Runs : pc'[r] = "crediting" => PayerOf(bill[r]) # p
  PROVE  CreditInv'
<1>1. ASSUME NEW c \in Customers PROVE Ahead(c) >= 0 /\ Ahead(c) \in Int /\ (c # p => Ahead(c) >= Worth(c))
  <2>1. Worth(c) \in Int /\ Worth(c) >= 0
    BY WorthHolds
  <2>2. Ahead(c) \in Int /\ Ahead(c) >= Worth(c) - Spent(c, p, n)
    OBVIOUS
  <2>3. CASE c = p
    <3>1. Spent(c, p, n) = n /\ n <= Worth(c)
      BY <2>1, <2>3 DEF Spent
    <3>2. QED BY <2>1, <2>2, <2>3, <3>1
  <2>4. CASE c # p
    <3>1. Spent(c, p, n) = 0
      BY <2>4 DEF Spent
    <3>2. QED BY <2>1, <2>2, <3>1
  <2>5. QED BY <2>3, <2>4
<1>2. ASSUME NEW r \in Runs, pc'[r] = "crediting" PROVE credit'[r] <= Ahead(PayerOf(bill'[r]))
  <2>1. pc[r] = "crediting" /\ bill'[r] = bill[r] /\ credit'[r] = credit[r]
    BY <1>2 DEF Held
  <2> DEFINE q == PayerOf(bill[r])
  <2>2. q \in Customers /\ credit[r] \in Int /\ Worth(q) \in Int /\ credit[r] <= Worth(q)
    BY <2>1, Crediting DEF CreditInv
  <2>3. PayerOf(bill'[r]) = q /\ q # p
    BY <2>1, <1>2
  <2> HIDE DEF q
  <2>4. Ahead(q) \in Int /\ Ahead(q) >= Worth(q)
    BY <1>1, <2>2, <2>3
  <2>5. credit[r] <= Ahead(q)
    BY <2>2, <2>4
  <2>6. Ahead(PayerOf(bill'[r])) = Ahead(q)
    BY <2>3
  <2>7. QED BY <2>1, <2>5, <2>6
<1>3. QED BY <1>1, <1>2, NoOverdraftWillBe, StaysWillBe DEF CreditInv

LEMMA CreditUntouched ==
  ASSUME BillingTypeOK, RunsSigned, CreditInv, UNCHANGED <<applied, earned, lost>>, \A r \in Runs : Held(r)
  PROVE  CreditInv'
<1>1. \A c \in Customers : Ahead(c) \in Int /\ Ahead(c) >= Worth(c)
  <2> TAKE c \in Customers
  <2>1. Ahead(c) = Worth(c)
    BY WorthIs DEF Ahead
  <2>2. QED BY <2>1, WorthIs
<1>2. QED BY <1>1, CreditKept

LEMMA ReadingKeepsCredit ==
  ASSUME BillingTypeOK, RunsSigned, CreditInv, NEW r \in Runs, ReadCredit(r)
  PROVE  CreditInv'
<1>1. UNCHANGED <<applied, earned, lost, bill>> /\ pc' = [pc EXCEPT ![r] = "crediting"] /\ pc[r] = "inserted"
      /\ credit' = [credit EXCEPT ![r] = CreditBalance(PayerOf(bill[r]))]
  BY DEF ReadCredit, books, Goes
<1>2. ASSUME NEW c \in Customers PROVE Ahead(c) = Worth(c)
  BY <1>1, WorthIs DEF Ahead
<1>3. ASSUME NEW s \in Runs, pc'[s] = "crediting" PROVE credit'[s] <= Ahead(PayerOf(bill'[s]))
  <2> DEFINE q == PayerOf(bill[s])
  <2>1. PayerOf(bill'[s]) = q
    BY <1>1
  <2>2. q \in Customers /\ credit'[s] <= Worth(q)
    <3>1. CASE s = r
      <4>1. q \in Customers
        BY <1>1, <3>1, BillingAssumption DEF RunsSigned, Inserting, PayerOf, Bills
      <4>2. credit'[s] = CreditBalance(q)
        BY <1>1, <3>1 DEF BillingTypeOK
      <4> HIDE DEF q
      <4>3. CreditBalance(q) \in Int /\ lost[q] \in Nat
        BY <4>1, BalanceTyped DEF BillingTypeOK
      <4>4. CreditBalance(q) <= Worth(q)
        BY <4>3 DEF Worth
      <4>5. QED BY <4>1, <4>2, <4>4
    <3>2. CASE s # r
      <4>1. pc[s] = "crediting" /\ credit'[s] = credit[s]
        BY <1>1, <1>3, <3>2 DEF BillingTypeOK
      <4>2. QED BY <4>1, Crediting DEF CreditInv
    <3>3. QED BY <3>1, <3>2
  <2>3. Ahead(PayerOf(bill'[s])) = Ahead(q)
    BY <2>1
  <2>4. QED BY <1>2, <2>2, <2>3
<1>4. ASSUME NEW c \in Customers PROVE Ahead(c) >= 0
  BY <1>2, WorthHolds
<1>5. QED BY <1>3, <1>4, NoOverdraftWillBe, StaysWillBe DEF CreditInv

LEMMA CommittingKeepsCredit ==
  ASSUME BillingTypeOK, RunsSigned, InFlight, LedgerHolds, CreditAlone, CreditInv, NEW r \in Runs, CommitBill(r)
  PROVE  CreditInv'
<1> DEFINE b == bill[r]
           n == Applied(credit[r])
           p == PayerOf(b)
<1>1. pc[r] = "crediting"
  BY DEF CommitBill
<1>2. b \in Bills /\ p \in Customers /\ credit[r] \in Int /\ Worth(p) \in Int /\ credit[r] <= Worth(p)
  BY <1>1, Crediting DEF CreditInv
<1>3. n \in Nat /\ (n = 0 \/ n <= credit[r])
  BY <1>2, Spendable, BillingAssumption
<1>4. n = 0 \/ n <= Worth(p)
  <2> HIDE DEF n, p
  <2>1. QED BY <1>2, <1>3
<1>5. applied[b] = 0
  <2>1. status[b] = "none"
    BY <1>1 DEF InFlight, Inserting
  <2>2. ~ (applied[b] > 0) /\ applied[b] \in 0..Price
    BY <1>2, <2>1 DEF LedgerHolds, Exists, BillingTypeOK
  <2>3. QED BY <2>2, BillingAssumption
<1>6. /\ lost' = lost /\ applied' = [applied EXCEPT ![b] = n] /\ (earned' = earned \/ earned' = earned \cup {b})
      /\ bill' = [bill EXCEPT ![r] = NoBill] /\ credit' = [credit EXCEPT ![r] = 0] /\ pc' = [pc EXCEPT ![r] = "raising"]
  BY DEF CommitBill, Raise, EarnReferral, Goes
<1>7. \A s \in Runs : Held(s) /\ (pc'[s] = "crediting" => PayerOf(bill[s]) # p)
  <2> HIDE DEF n
  <2>1. QED BY <1>1, <1>6 DEF BillingTypeOK, CreditAlone, Held
<1> HIDE DEF n, p, b
<1>8. \A c \in Customers : Ahead(c) \in Int /\ Ahead(c) >= Worth(c) - Spent(c, PayerOf(b), n)
  BY <1>2, <1>3, <1>5, <1>6, Raising
<1>9. QED
  <2>1. \A c \in Customers : Ahead(c) \in Int /\ Ahead(c) >= Worth(c) - Spent(c, p, n)
    BY <1>8 DEF p
  <2>2. QED BY <1>2, <1>3, <1>4, <1>7, <2>1, CreditSpent

LEMMA SigningKeepsCredit ==
  ASSUME BillingTypeOK, RunsSigned, BillsSigned, LedgerHolds, CreditInv, NEW c \in Contracts, SignContract(c)
  PROVE  CreditInv'
<1>1. /\ since[c] = 0 /\ lost' = lost /\ CustomerFree(OwnerOf[c]) /\ UNCHANGED <<run, faults, moves, today>>
      /\ \/ UNCHANGED books
         \/ \E used \in 0..Price :
              /\ <<c, today, 1>> \in Bills
              /\ applied' = [applied EXCEPT ![<<c, today, 1>>] = used]
              /\ earned'  = IF used = Price THEN EarnReferral(<<c, today, 1>>) ELSE earned
              /\ used = 0 \/ used <= CreditBalance(OwnerOf[c])
  BY SignsOne
<1>2. \A s \in Runs : Held(s)
  BY <1>1 DEF Held, run
<1>3. CASE UNCHANGED books
  BY <1>2, <1>3, CreditUntouched DEF books
<1>4. ASSUME NEW used \in 0..Price, NEW b \in Bills, b = <<c, today, 1>>,
             applied' = [applied EXCEPT ![b] = used],
             earned' = IF used = Price THEN EarnReferral(b) ELSE earned,
             used = 0 \/ used <= CreditBalance(OwnerOf[c])
      PROVE  CreditInv'
  <2> DEFINE p == OwnerOf[c]
  <2>1. p \in Customers /\ PayerOf(b) = p /\ used \in Nat
    BY <1>4, BillingAssumption DEF PayerOf
  <2>2. \A s \in Runs : pc'[s] = "crediting" => PayerOf(bill[s]) # p
    BY <1>1 DEF CustomerFree, Inserting, run
  <2>3. applied[b] = 0
    <3>1. status[b] = "none"
      BY <1>1, <1>4 DEF BillsSigned
    <3>2. ~ (applied[b] > 0) /\ applied[b] \in 0..Price
      BY <3>1 DEF LedgerHolds, Exists, BillingTypeOK
    <3>3. QED BY <3>2, BillingAssumption
  <2>4. earned' = earned \/ earned' = earned \cup {b}
    BY <1>4 DEF EarnReferral
  <2> HIDE DEF p
  <2>5. used = 0 \/ used <= Worth(p)
    <3>1. CreditBalance(p) \in Int /\ lost[p] \in Nat
      BY <2>1, BalanceTyped DEF BillingTypeOK
    <3>2. CreditBalance(p) <= Worth(p) /\ Worth(p) \in Int
      BY <3>1 DEF Worth
    <3>3. used = 0 \/ used <= CreditBalance(p)
      BY <1>4 DEF p
    <3>4. QED BY <2>1, <3>1, <3>2, <3>3
  <2>6. \A x \in Customers : Ahead(x) \in Int /\ Ahead(x) >= Worth(x) - Spent(x, PayerOf(b), used)
    BY <1>1, <1>4, <2>1, <2>3, <2>4, Raising
  <2>7. \A x \in Customers : Ahead(x) \in Int /\ Ahead(x) >= Worth(x) - Spent(x, p, used)
    BY <2>1, <2>6
  <2>8. QED BY <1>2, <2>1, <2>2, <2>5, <2>7, CreditSpent
<1>5. QED BY <1>1, <1>3, <1>4

LEMMA CreditHolds == BillingTypeOK /\ RunsSigned /\ BillsSigned /\ LedgerHolds /\ InFlight /\ CreditAlone /\ CreditInv /\ [Next]_vars => CreditInv'
<1> SUFFICES ASSUME BillingTypeOK, RunsSigned, BillsSigned, LedgerHolds, InFlight, CreditAlone, CreditInv, [Next]_vars PROVE CreditInv'
  OBVIOUS
<1> USE DEF BillingTypeOK, deals, books, run, Goes, Moved
<1>1. ASSUME NEW r \in Runs, StartRun(r) PROVE CreditInv'
  <2>1. UNCHANGED <<applied, earned, lost>> /\ \A s \in Runs : Held(s)
    BY <1>1 DEF StartRun, Held
  <2>2. QED BY <2>1, CreditUntouched
<1>2. ASSUME NEW r \in Runs, NEW c \in Contracts, TakeContract(r, c) PROVE CreditInv'
  <2>1. UNCHANGED <<applied, earned, lost>> /\ \A s \in Runs : Held(s)
    BY <1>2 DEF TakeContract, ToRaise, DueNow, Held
  <2>2. QED BY <2>1, CreditUntouched
<1>3. ASSUME NEW r \in Runs, SkipPeriod(r) PROVE CreditInv'
  <2>1. UNCHANGED <<applied, earned, lost>> /\ \A s \in Runs : Held(s)
    BY <1>3 DEF SkipPeriod, Held
  <2>2. QED BY <2>1, CreditUntouched
<1>4. ASSUME NEW r \in Runs, RaisePlain(r) PROVE CreditInv'
  <2>1. UNCHANGED <<applied, earned, lost>> /\ \A s \in Runs : Held(s)
    BY <1>4 DEF RaisePlain, FreshBill, Held
  <2>2. QED BY <2>1, CreditUntouched
<1>5. ASSUME NEW r \in Runs, InsertBill(r) PROVE CreditInv'
  <2>1. UNCHANGED <<applied, earned, lost>> /\ \A s \in Runs : Held(s)
    BY <1>5 DEF InsertBill, FreshBill, Held
  <2>2. QED BY <2>1, CreditUntouched
<1>6. ASSUME NEW r \in Runs, ReadCredit(r) PROVE CreditInv'
  BY <1>6, ReadingKeepsCredit
<1>7. ASSUME NEW r \in Runs, CommitBill(r) PROVE CreditInv'
  BY <1>7, CommittingKeepsCredit
<1>8. ASSUME NEW r \in Runs, ContractRaised(r) PROVE CreditInv'
  <2>1. UNCHANGED <<applied, earned, lost>> /\ \A s \in Runs : Held(s)
    BY <1>8 DEF ContractRaised, Held
  <2>2. QED BY <2>1, CreditUntouched
<1>9. ASSUME NEW r \in Runs, NEW b \in Bills, SendRaised(r, b) PROVE CreditInv'
  <2>1. UNCHANGED <<applied, earned, lost>> /\ \A s \in Runs : Held(s)
    BY <1>9 DEF SendRaised, Ends, Held
  <2>2. QED BY <2>1, CreditUntouched
<1>10. ASSUME NEW r \in Runs, MarkOverdue(r) PROVE CreditInv'
  <2>1. UNCHANGED <<applied, earned, lost>> /\ \A s \in Runs : Held(s)
    BY <1>10 DEF MarkOverdue, Ends, Held
  <2>2. QED BY <2>1, CreditUntouched
<1>11. ASSUME NEW r \in Runs, Abort(r) PROVE CreditInv'
  <2>1. UNCHANGED <<applied, earned, lost>> /\ \A s \in Runs : Held(s)
    BY <1>11 DEF Abort, Ends, Held
  <2>2. QED BY <2>1, CreditUntouched
<1>12. ASSUME NEW r \in Runs, Die(r) PROVE CreditInv'
  <2>1. UNCHANGED <<applied, earned, lost>> /\ \A s \in Runs : Held(s)
    BY <1>12 DEF Die, Ends, Held
  <2>2. QED BY <2>1, CreditUntouched
<1>13. ASSUME NEW c \in Contracts, SignContract(c) PROVE CreditInv'
  BY <1>13, SigningKeepsCredit
<1>14. ASSUME NEW c \in Contracts, EndContract(c) PROVE CreditInv'
  <2>1. UNCHANGED <<applied, earned, lost>> /\ \A s \in Runs : Held(s)
    BY <1>14 DEF EndContract, Held
  <2>2. QED BY <2>1, CreditUntouched
<1>15. ASSUME NEW c \in Contracts, NEW p \in Periods, CreateInvoice(c, p) PROVE CreditInv'
  <2>1. UNCHANGED <<applied, earned, lost>> /\ \A s \in Runs : Held(s)
    BY <1>15 DEF CreateInvoice, FreshBill, Held
  <2>2. QED BY <2>1, CreditUntouched
<1>16. ASSUME NEW b \in Bills, EmailInvoice(b) PROVE CreditInv'
  <2>1. UNCHANGED <<applied, earned, lost>> /\ \A s \in Runs : Held(s)
    BY <1>16 DEF EmailInvoice, Held
  <2>2. QED BY <2>1, CreditUntouched
<1>17. ASSUME NEW b \in Bills, VoidInvoice(b) PROVE CreditInv'
  <2>1. UNCHANGED <<applied, earned, lost>> /\ \A s \in Runs : Held(s)
    BY <1>17 DEF VoidInvoice, Held
  <2>2. QED BY <2>1, CreditUntouched
<1>18. ASSUME NEW b \in Bills, DeleteInvoice(b) PROVE CreditInv'
  <2>1. \A s \in Runs : Held(s)
    BY <1>18 DEF DeleteInvoice, Held
  <2>2. \A c \in Customers : Ahead(c) \in Int /\ Ahead(c) >= Worth(c)
    BY <1>18, Deleting
  <2>3. QED BY <2>1, <2>2, CreditKept
<1>19. ASSUME NEW b \in Bills, PaidUp(b) PROVE CreditInv'
  <2>1. \A s \in Runs : Held(s)
    BY <1>19 DEF PaidUp, EarnReferral, Held
  <2>2. \A c \in Customers : Ahead(c) \in Int /\ Ahead(c) >= Worth(c)
    BY <1>19, Paying
  <2>3. QED BY <2>1, <2>2, CreditKept
<1>20. ASSUME NEW b \in Bills, Uncovered(b) PROVE CreditInv'
  <2>1. UNCHANGED <<applied, earned, lost>> /\ \A s \in Runs : Held(s)
    BY <1>20 DEF Uncovered, Held
  <2>2. QED BY <2>1, CreditUntouched
<1>21. CASE NextPeriod
  <2>1. UNCHANGED <<applied, earned, lost>> /\ \A s \in Runs : Held(s)
    BY <1>21 DEF NextPeriod, Held
  <2>2. QED BY <2>1, CreditUntouched
<1>22. CASE UNCHANGED vars
  <2>1. UNCHANGED <<applied, earned, lost>> /\ \A s \in Runs : Held(s)
    BY <1>22 DEF vars, Held
  <2>2. QED BY <2>1, CreditUntouched
<1>23. QED
  BY <1>1, <1>2, <1>3, <1>4, <1>5, <1>6, <1>7, <1>8, <1>9, <1>10, <1>11, <1>12, <1>13, <1>14, <1>15, <1>16, <1>17, <1>18, <1>19, <1>20, <1>21, <1>22 DEF Next, Work, Office

LEMMA InitBills == Init => BillInv /\ ReferralsPaid
BY DEF Init, BillInv, ReferralsPaid, RunsSigned, BillsSigned, LedgerHolds, InFlight, HeldOnce, CreditAlone, BilledOnce, Exists, Billed, Inserting

LEMMA InitCredit == Init => CreditInv
<1> SUFFICES ASSUME Init PROVE CreditInv
  OBVIOUS
<1>1. applied = [b \in Bills |-> 0] /\ earned = {} /\ lost = [c \in Customers |-> 0] /\ \A r \in Runs : pc[r] # "crediting"
  BY DEF Init
<1>2. ASSUME NEW c \in Customers PROVE CreditBalance(c) + lost[c] >= 0
  <2>1. {b \in earned : ReferrerOf[b[1]] = c} = {}
    BY <1>1
  <2>2. Cardinality({b \in earned : ReferrerOf[b[1]] = c}) = 0
    BY <2>1, FS_EmptySet
  <2>3. Tally(applied, Mine(c)) = 0
    <3>1. \A x \in Mine(c) : applied[x] = 0
      BY <1>1 DEF Mine
    <3>2. QED BY <3>1, MineFinite, TallyNothing
  <2>4. Balance(applied, earned, c) = Reward * 0 - 0
    BY <2>2, <2>3 DEF Balance
  <2>5. Reward * 0 = 0
    BY BillingAssumption
  <2>6. CreditBalance(c) = 0 /\ lost[c] = 0
    BY <1>1, <2>4, <2>5, BalanceIs
  <2>7. QED BY <2>6
<1>3. QED BY <1>1, <1>2 DEF CreditInv, NoOverdraft, CreditStays

BooksHold == BillingTypeOK /\ BillInv /\ ReferralsPaid /\ CreditInv

LEMMA BooksStay == BooksHold /\ [Next]_vars => BooksHold'
<1> SUFFICES ASSUME BooksHold, [Next]_vars PROVE BooksHold'
  OBVIOUS
<1>1. /\ BillingTypeOK /\ RunsSigned /\ BillsSigned /\ LedgerHolds /\ InFlight /\ HeldOnce /\ CreditAlone /\ BilledOnce
      /\ ReferralsPaid /\ CreditInv
  BY DEF BooksHold, BillInv
<1>2. BillingTypeOK' /\ RunsSigned' /\ BillsSigned' /\ LedgerHolds'
  BY <1>1, StepTyped, RunsStaySigned, BillsStaySigned, LedgerStays
<1>3. HeldOnce' /\ CreditAlone' /\ InFlight' /\ BilledOnce'
  BY <1>1, HeldStaysOnce, CreditStaysAlone, FlightStays, BillsStayOnce
<1>4. ReferralsPaid' /\ CreditInv'
  BY <1>1, PaidStaysEarned, CreditHolds
<1>5. QED BY <1>2, <1>3, <1>4 DEF BooksHold, BillInv

(* Everything the books rest on holds at any moment of any number of runs, *)
(* however they and the office interleave.                                 *)
THEOREM BooksAlwaysHold == Spec => []BooksHold
<1>1. Init => BooksHold
  BY InitTyped, InitBills, InitCredit DEF BooksHold
<1>2. QED BY <1>1, BooksStay, PTL DEF Spec

(* Variables of Billing stay in their types. *)
THEOREM BillingTyped == Spec => []BillingTypeOK
<1>1. BooksHold => BillingTypeOK
  BY DEF BooksHold
<1>2. QED BY <1>1, BooksAlwaysHold, PTL

(* BilledOnce: two runs and the office may raise the same period at once,  *)
(* and a run may die or be aborted with a bill inserted; of no period are  *)
(* there two bills that are not void.  What a run looked up it looks up    *)
(* again as it inserts (InFlight), and no two hold bills of one period     *)
(* (HeldOnce).                                                             *)
THEOREM BillingOnce == Spec => []BilledOnce
<1>1. BooksHold => BilledOnce
  BY DEF BooksHold, BillInv
<1>2. QED BY <1>1, BooksAlwaysHold, PTL

(* NoOverdraft: for any number of runs, contracts and customers, no credit *)
(* is spent twice.  The balance a run has read under the customer's lock   *)
(* is still there when it spends it, but for what was lost with a deleted  *)
(* bill (CreditStays), since no other run spends it meanwhile              *)
(* (CreditAlone).                                                          *)
THEOREM CreditSpentOnce == Spec => []NoOverdraft
<1>1. BooksHold => NoOverdraft
  BY DEF BooksHold, CreditInv
<1>2. QED BY <1>1, BooksAlwaysHold, PTL

(* ReferralsPaid: a bill of a referred customer that is paid, by credit or *)
(* by money, has earned the referrer's; the ledger names bills that exist. *)
THEOREM ReferralsArePaid == Spec => []ReferralsPaid
<1>1. BooksHold => ReferralsPaid
  BY DEF BooksHold
<1>2. QED BY <1>1, BooksAlwaysHold, PTL

=============================================================================
