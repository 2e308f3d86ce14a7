------------------------------ MODULE DayProofs ------------------------------
(***************************************************************************)
(* Proofs about Day: those of its components but the queue and the         *)
(* accounts, whose proofs are modules of their own, and that what holds of *)
(* each component holds of a day.                                          *)
(***************************************************************************)
EXTENDS Day, AccessProofs, Sequences, FiniteSetTheorems, SequenceTheorems, TLAPS
-----------------------------------------------------------------------------
(* An instance has a Cardinality of its own; it is the same. *)
LEMMA SameCardinality ==
  \A S : F!Cardinality(S) = Cardinality(S) /\ W!Cardinality(S) = Cardinality(S) /\ I!Cardinality(S) = Cardinality(S)
BY DEF F!Cardinality, W!Cardinality, I!Cardinality, Cardinality

-----------------------------------------------------------------------------
(* Ratings (Reviews). *)
LEMMA CandidatesListed ==
  ASSUME NEW list \in F!SetToSeqs(F!Candidates)
  PROVE  list \in Seq(Jobs)
<1>1. F!Candidates \subseteq Jobs /\ IsFiniteSet(F!Candidates)
  BY RatingsAssumption, FS_Subset DEF F!Candidates
<1>2. Cardinality(F!Candidates) \in Nat
  BY <1>1, FS_CardinalityType
<1>3. list \in [1..Cardinality(F!Candidates) -> F!Candidates]
  BY SameCardinality DEF F!SetToSeqs
<1>4. QED
  BY <1>1, <1>2, <1>3

LEMMA ReviewsTyped == F!ReviewsTypeOK /\ [F!Next]_F!reviewVars => F!ReviewsTypeOK'
<1> SUFFICES ASSUME F!ReviewsTypeOK, [F!Next]_F!reviewVars
             PROVE  F!ReviewsTypeOK'
  OBVIOUS
<1> DEFINE Work == [left : Seq(Jobs), taken : SUBSET Jobs]
<1>0. F!Resting \in Work
  BY DEF F!Resting
<1> USE RatingsAssumption DEF F!ReviewsTypeOK, F!Never, F!WasAsked, F!Unasked, F!Resting, F!Idle
<1>1. ASSUME NEW j \in Jobs, F!CompleteVisit(j) PROVE F!ReviewsTypeOK'
  BY <1>1 DEF F!CompleteVisit
<1>2. CASE F!NextDay
  BY <1>2 DEF F!NextDay
<1>3. ASSUME NEW r \in Rounds, F!StartRound(r) PROVE F!ReviewsTypeOK'
  <2>1. PICK list \in F!SetToSeqs(F!Candidates) : reviewsRound' = [reviewsRound EXCEPT ![r].left = list]
    BY <1>3 DEF F!StartRound
  <2>2. list \in Seq(Jobs)
    BY CandidatesListed
  <2>3. reviewsRound' \in [Rounds -> [left : Seq(Jobs), taken : SUBSET Jobs]]
    BY <2>1, <2>2
  <2>4. QED
    BY <1>3, <2>3 DEF F!StartRound
<1>4. ASSUME NEW r \in Rounds, F!Consider(r) PROVE F!ReviewsTypeOK'
  <2>1. reviewsRound[r] \in [left : Seq(Jobs), taken : SUBSET Jobs] /\ reviewsRound[r].left # <<>>
    BY <1>4 DEF F!Consider
  <2>2. Tail(reviewsRound[r].left) \in Seq(Jobs) /\ Head(reviewsRound[r].left) \in Jobs
    BY <2>1
  <2>3. PICK new \in Work : reviewsRound' = [reviewsRound EXCEPT ![r] = new]
    <3>1. CASE reviewsRound' = [reviewsRound EXCEPT ![r].left = Tail(@)]
      <4>1. [reviewsRound[r] EXCEPT !.left = Tail(@)] \in Work
        BY <2>1, <2>2
      <4>2. QED
        BY <3>1, <4>1
    <3>2. CASE reviewsRound' = [reviewsRound EXCEPT ![r] = [left |-> Tail(@.left), taken |-> {Head(@.left)}]]
      <4>1. [left |-> Tail(reviewsRound[r].left), taken |-> {Head(reviewsRound[r].left)}] \in Work
        BY <2>1, <2>2
      <4>2. QED
        BY <3>2, <4>1
    <3>3. QED
      BY <1>4, <3>1, <3>2 DEF F!Consider
  <2>4. reviewsRound' \in [Rounds -> Work]
    BY <2>3
  <2>5. QED
    BY <1>4, <2>4 DEF F!Consider
<1>5. ASSUME NEW r \in Rounds, F!Ask(r) PROVE F!ReviewsTypeOK'
  <2>0. reviewsRound[r] \in Work
    OBVIOUS
  <2>1. PICK j \in Jobs :
          IF F!WasAsked(j) THEN reviewsRound' = [reviewsRound EXCEPT ![r] = F!Resting] /\ UNCHANGED reviewsAsked
                           ELSE /\ reviewsAsked' = [reviewsAsked EXCEPT ![j] = [sent |-> reviewsDay, rating |-> 0]]
                                /\ reviewsRound' = [reviewsRound EXCEPT ![r].taken = {}]
    BY <1>5 DEF F!Ask
  <2>2. reviewsRound' \in [Rounds -> Work]
    <3>1. [reviewsRound[r] EXCEPT !.taken = {}] \in Work
      BY <2>0
    <3>2. QED
      BY <1>0, <2>1, <3>1
  <2>3. CASE UNCHANGED reviewsAsked
    BY <1>5, <2>2, <2>3 DEF F!Ask
  <2>4. CASE reviewsAsked' = [reviewsAsked EXCEPT ![j] = [sent |-> reviewsDay, rating |-> 0]]
    <3>1. [sent |-> reviewsDay, rating |-> 0] \in [sent : 0..F!Never, rating : Ratings \cup {0}]
      OBVIOUS
    <3>2. \A i \in Jobs : reviewsAsked'[i] = IF i = j THEN [sent |-> reviewsDay, rating |-> 0] ELSE reviewsAsked[i]
      BY <2>4
    <3>3. ASSUME NEW i \in Jobs, reviewsAsked'[i] # F!Unasked PROVE reviewsAsked'[i].sent <= reviewsDay
      <4>1. CASE i = j
        BY <3>2, <4>1
      <4>2. CASE i # j
        <5>1. reviewsAsked'[i] = reviewsAsked[i]
          BY <3>2, <4>2
        <5>2. QED
          BY <3>3, <5>1
      <4>3. QED
        BY <4>1, <4>2
    <3>4. reviewsAsked' \in [Jobs -> [sent : 0..F!Never, rating : Ratings \cup {0}]]
      BY <2>4, <3>1
    <3>5. QED
      BY <1>5, <2>2, <3>3, <3>4 DEF F!Ask
  <2>5. QED
    BY <2>1, <2>3, <2>4
<1>6. ASSUME NEW r \in Rounds, F!StopRound(r) PROVE F!ReviewsTypeOK'
  <2>1. reviewsRound' \in [Rounds -> Work]
    BY <1>0, <1>6 DEF F!StopRound
  <2>2. reviewsCrashes' \in 0..MaxCrashes /\ UNCHANGED <<reviewsDay, reviewsFinished, reviewsAsked, reviewsTap, reviewsAlerts>>
    BY <1>6 DEF F!StopRound
  <2>3. QED
    BY <2>1, <2>2
<1>7. ASSUME NEW t \in Taps, NEW j \in Jobs, NEW stars \in Ratings, F!Rate(t, j, stars)
      PROVE  F!ReviewsTypeOK'
  <2>1. /\ reviewsAsked' \in [Jobs -> [sent : 0..F!Never, rating : Ratings \cup {0}]]
        /\ \A i \in Jobs : reviewsAsked'[i] # F!Unasked => reviewsAsked'[i].sent <= reviewsDay
    BY <1>7 DEF F!Rate
  <2>2. reviewsTap' \in [Taps -> {F!Idle} \cup [doing : {"telling"}, about : Jobs]]
    BY <1>7 DEF F!Rate
  <2>3. QED
    BY <1>7, <2>1, <2>2 DEF F!Rate
<1>8. ASSUME NEW t \in Taps, F!Alert(t) \/ F!LoseAlert(t) PROVE F!ReviewsTypeOK'
  <2>1. reviewsTap' \in [Taps -> {F!Idle} \cup [doing : {"telling"}, about : Jobs]]
    BY <1>8 DEF F!Alert, F!LoseAlert
  <2>2. reviewsAlerts' \in [Jobs -> Nat]
    BY <1>8 DEF F!Alert, F!LoseAlert
  <2>3. QED
    BY <1>8, <2>1, <2>2 DEF F!Alert, F!LoseAlert
<1>9. CASE UNCHANGED F!reviewVars
  BY <1>9 DEF F!reviewVars
<1>10. QED
  BY <1>1, <1>2, <1>3, <1>4, <1>5, <1>6, <1>7, <1>8, <1>9 DEF F!Next

(* A request's day stays what it was, and a visit that was asked about     *)
(* stays so.                                                               *)
LEMMA AskedStays ==
  ASSUME F!ReviewsTypeOK, [F!Next]_F!reviewVars, NEW j \in Jobs, ~\E r \in Rounds : j \in reviewsRound[r].taken /\ F!Ask(r)
  PROVE  /\ reviewsAsked'[j].sent = reviewsAsked[j].sent
         /\ F!WasAsked(j)' <=> F!WasAsked(j)
<1>1. CASE UNCHANGED reviewsAsked
  BY <1>1 DEF F!WasAsked, F!Unasked
<1>2. ASSUME NEW t \in Taps, NEW i \in Jobs, NEW stars \in Ratings, F!Rate(t, i, stars)
      PROVE  /\ reviewsAsked'[j].sent = reviewsAsked[j].sent
             /\ F!WasAsked(j)' <=> F!WasAsked(j)
  <2>1. reviewsAsked[i].sent # F!Never /\ reviewsAsked' = [reviewsAsked EXCEPT ![i].rating = stars]
    BY <1>2, RatingsAssumption DEF F!Rate, F!WasAsked, F!ReviewsTypeOK, F!Never
  <2>2. QED
    BY <1>2, <2>1 DEF F!Rate, F!WasAsked, F!ReviewsTypeOK, F!Unasked
<1>3. ASSUME NEW r \in Rounds, F!Ask(r), ~UNCHANGED reviewsAsked
      PROVE  /\ reviewsAsked'[j].sent = reviewsAsked[j].sent
             /\ F!WasAsked(j)' <=> F!WasAsked(j)
  <2>1. PICK i \in reviewsRound[r].taken :
          reviewsAsked' = [reviewsAsked EXCEPT ![i] = [sent |-> reviewsDay, rating |-> 0]]
    BY <1>3 DEF F!Ask
  <2>2. i # j
    BY <1>3
  <2>3. reviewsAsked'[j] = reviewsAsked[j]
    BY <2>1, <2>2 DEF F!ReviewsTypeOK
  <2>4. QED
    BY <2>3 DEF F!WasAsked, F!Unasked
<1>4. QED
  BY <1>1, <1>2, <1>3 DEF F!Next, F!CompleteVisit, F!NextDay, F!StartRound, F!Consider, F!StopRound,
     F!Alert, F!LoseAlert, F!reviewVars

LEMMA RoundInvKept ==
  ASSUME F!ReviewsTypeOK, F!RoundInv, [F!Next]_F!reviewVars
  PROVE  F!RoundInv'
<1> SUFFICES ASSUME F!OneRound PROVE F!AskedApart' /\ \A r \in Rounds : \A j \in reviewsRound'[r].taken : ~F!Lately(CustomerOf[j])'
  BY DEF F!RoundInv, F!OneRound
<1> DEFINE Decided(r) == \A j \in reviewsRound[r].taken : ~F!Lately(CustomerOf[j])
<1>1. F!AskedApart /\ \A r \in Rounds : Decided(r)
  BY DEF F!RoundInv
<1>2. ASSUME NEW r \in Rounds, F!Ask(r)
      PROVE  F!AskedApart' /\ \A s \in Rounds : Decided(s)'
  <2>1. PICK j \in reviewsRound[r].taken :
          IF F!WasAsked(j) THEN reviewsRound' = [reviewsRound EXCEPT ![r] = F!Resting] /\ UNCHANGED reviewsAsked
                           ELSE /\ reviewsAsked' = [reviewsAsked EXCEPT ![j] = [sent |-> reviewsDay, rating |-> 0]]
                                /\ reviewsRound' = [reviewsRound EXCEPT ![r].taken = {}]
    BY <1>2 DEF F!Ask
  <2>2. j \in Jobs
    BY DEF F!ReviewsTypeOK
  <2>3. \A s \in Rounds : Decided(s)'
    <3>1. reviewsRound'[r].taken = {}
      BY <2>1 DEF F!ReviewsTypeOK, F!Resting
    <3>2. QED
      BY <3>1 DEF F!OneRound
  <2>4. CASE UNCHANGED reviewsAsked
    BY <1>1, <2>3, <2>4 DEF F!AskedApart, F!WasAsked
  <2>5. CASE ~F!WasAsked(j) /\ reviewsAsked' = [reviewsAsked EXCEPT ![j] = [sent |-> reviewsDay, rating |-> 0]]
    <3>1. ASSUME NEW i \in Jobs, i # j, CustomerOf[i] = CustomerOf[j], F!WasAsked(i)
          PROVE  reviewsAsked[i].sent + Cooldown < reviewsDay
      BY <1>1, <3>1, RatingsAssumption DEF F!Lately, F!ReviewsTypeOK, F!Never
    <3>2. reviewsAsked'[j].sent = reviewsDay
      BY <2>2, <2>5 DEF F!ReviewsTypeOK
    <3>3. \A i \in Jobs : i # j => reviewsAsked'[i] = reviewsAsked[i] /\ (F!WasAsked(i)' <=> F!WasAsked(i))
      BY <2>5 DEF F!ReviewsTypeOK, F!WasAsked, F!Unasked
    <3>4. F!AskedApart'
      BY <1>1, <2>2, <3>1, <3>2, <3>3 DEF F!AskedApart
    <3>5. QED
      BY <2>3, <3>4
  <2>6. QED
    BY <2>1, <2>4, <2>5
<1>3. ASSUME ~\E r \in Rounds : F!Ask(r)
      PROVE  F!AskedApart' /\ \A s \in Rounds : Decided(s)'
  <2>1. \A j \in Jobs : reviewsAsked'[j].sent = reviewsAsked[j].sent /\ (F!WasAsked(j)' <=> F!WasAsked(j))
    BY <1>3, AskedStays
  <2>2. F!AskedApart'
    BY <1>1, <2>1 DEF F!AskedApart
  <2>3. reviewsDay \in Nat /\ reviewsDay' \in Nat /\ reviewsDay' >= reviewsDay
    BY RatingsAssumption DEF F!ReviewsTypeOK, F!Next, F!CompleteVisit, F!NextDay, F!StartRound, F!Consider,
       F!Ask, F!StopRound, F!Rate, F!Alert, F!LoseAlert, F!reviewVars
  <2>4. \A c : F!Lately(c)' => F!Lately(c)
    BY <2>1, <2>3, RatingsAssumption DEF F!Lately, F!ReviewsTypeOK, F!Never
  <2>5. ASSUME NEW s \in Rounds, NEW j \in reviewsRound'[s].taken
        PROVE  ~F!Lately(CustomerOf[j])
    <3>1. CASE UNCHANGED reviewsRound
      BY <1>1, <2>5, <3>1
    <3>2. ASSUME NEW r \in Rounds, F!StartRound(r) PROVE j \in reviewsRound[s].taken
      BY <2>5, <3>2 DEF F!StartRound, F!ReviewsTypeOK
    <3>3. ASSUME NEW r \in Rounds, F!StopRound(r) PROVE j \in reviewsRound[s].taken
      BY <2>5, <3>3 DEF F!StopRound, F!ReviewsTypeOK, F!Resting
    <3>4. ASSUME NEW r \in Rounds, F!Consider(r) PROVE j \in reviewsRound[s].taken \/ ~F!Lately(CustomerOf[j])
      <4>1. CASE reviewsRound' = [reviewsRound EXCEPT ![r].left = Tail(@)]
        <5>1. reviewsRound'[s].taken = reviewsRound[s].taken
          BY <4>1 DEF F!ReviewsTypeOK
        <5>2. QED
          BY <2>5, <5>1
      <4>2. CASE /\ ~F!Lately(CustomerOf[Head(reviewsRound[r].left)])
                 /\ reviewsRound' = [reviewsRound EXCEPT ![r] = [left |-> Tail(@.left), taken |-> {Head(@.left)}]]
        <5>1. CASE s = r
          BY <2>5, <4>2, <5>1 DEF F!ReviewsTypeOK
        <5>2. CASE s # r
          BY <2>5, <4>2, <5>2 DEF F!ReviewsTypeOK
        <5>3. QED
          BY <5>1, <5>2
      <4>3. QED
        BY <3>4, <4>1, <4>2 DEF F!Consider
    <3>5. QED
      BY <1>1, <1>3, <3>1, <3>2, <3>3, <3>4 DEF F!Next, F!CompleteVisit, F!NextDay, F!Rate, F!Alert,
         F!LoseAlert, F!reviewVars
  <2>6. QED
    BY <2>2, <2>4, <2>5
<1>4. QED
  BY <1>2, <1>3

LEMMA AlertInvKept ==
  ASSUME F!ReviewsTypeOK, F!AlertInv, [F!Next]_F!reviewVars
  PROVE  F!AlertInv'
<1>1. CASE UNCHANGED <<reviewsAsked, reviewsTap, reviewsAlerts>>
  BY <1>1 DEF F!AlertInv, F!Telling, F!Low
<1>2. ASSUME NEW r \in Rounds, F!Ask(r)
      PROVE  F!AlertInv'
  <2>1. CASE UNCHANGED reviewsAsked
    BY <1>1, <1>2, <2>1 DEF F!Ask
  <2>2. CASE ~UNCHANGED reviewsAsked
    <3>1. PICK j \in Jobs : ~F!WasAsked(j) /\ reviewsAsked' = [reviewsAsked EXCEPT ![j] = [sent |-> reviewsDay, rating |-> 0]]
      BY <1>2, <2>2 DEF F!Ask, F!ReviewsTypeOK
    <3>2. \A i \in Jobs : reviewsAsked'[i].rating = reviewsAsked[i].rating
      BY <3>1 DEF F!ReviewsTypeOK, F!WasAsked, F!Unasked
    <3>3. \A i \in Jobs : F!Low(i)' <=> F!Low(i)
      BY <3>2 DEF F!Low
    <3>4. \A t \in Taps : F!Telling(t) => reviewsTap[t].about \in Jobs
      BY DEF F!Telling, F!ReviewsTypeOK
    <3>5. UNCHANGED <<reviewsTap, reviewsAlerts>>
      BY <1>2 DEF F!Ask
    <3>6. \A t \in Taps : F!Telling(t)' => reviewsAsked'[reviewsTap[t].about].rating \in 1..(GoodRating - 1)
      BY <3>2, <3>4, <3>5 DEF F!AlertInv, F!Telling, F!Low
    <3>7. QED
      BY <3>3, <3>5, <3>6 DEF F!AlertInv, F!Telling, F!Low
  <2>3. QED
    BY <2>1, <2>2
<1>3. ASSUME NEW t \in Taps, NEW j \in Jobs, NEW stars \in Ratings, F!Rate(t, j, stars)
      PROVE  F!AlertInv'
  <2>1. /\ reviewsAsked[j].rating = 0 /\ reviewsTap[t] = F!Idle /\ reviewsAlerts' = reviewsAlerts
        /\ reviewsAsked' = [reviewsAsked EXCEPT ![j].rating = stars]
        /\ stars \in Nat \ {0}
    BY <1>3, RatingsAssumption DEF F!Rate, F!Answerable
  <2>2. ~F!Low(j) /\ \A u \in Taps : F!Telling(u) => reviewsTap[u].about # j
    BY <2>1, RatingsAssumption DEF F!Low, F!AlertInv
  <2>3. reviewsAlerts[j] = 0
    BY <2>2 DEF F!AlertInv, F!ReviewsTypeOK
  <2>4. \A i \in Jobs : i # j => reviewsAsked'[i] = reviewsAsked[i]
    BY <2>1 DEF F!ReviewsTypeOK
  <2>5. \A u \in Taps : F!Telling(u) => reviewsTap[u].about \in Jobs
    BY DEF F!Telling, F!ReviewsTypeOK
  <2>6. \A i \in Jobs : reviewsAlerts'[i] <= 1 /\ (reviewsAlerts'[i] = 1 => F!Low(i)')
    BY <2>1, <2>3, <2>4 DEF F!AlertInv, F!Low
  <2>7. CASE reviewsTap' = reviewsTap
    BY <2>1, <2>2, <2>4, <2>5, <2>6, <2>7 DEF F!AlertInv, F!Telling, F!Low
  <2>8. CASE ~(stars >= GoodRating) /\ reviewsTap' = [reviewsTap EXCEPT ![t] = [doing |-> "telling", about |-> j]]
    <3>1. reviewsTap'[t].about = j /\ \A u \in Taps : u # t => reviewsTap'[u] = reviewsTap[u]
      BY <2>8 DEF F!ReviewsTypeOK
    <3>2. reviewsAsked'[j].rating = stars
      BY <2>1 DEF F!ReviewsTypeOK
    <3>3. stars \in 1..(GoodRating - 1)
      BY <2>1, <2>8, RatingsAssumption
    <3>4. \A u \in Taps : F!Telling(u)' => reviewsAsked'[reviewsTap'[u].about].rating \in 1..(GoodRating - 1) /\ reviewsAlerts'[reviewsTap'[u].about] = 0
      BY <2>1, <2>2, <2>3, <2>4, <2>5, <3>1, <3>2, <3>3 DEF F!AlertInv, F!Telling, F!Low
    <3>5. \A u, v \in Taps : F!Telling(u)' /\ F!Telling(v)' /\ reviewsTap'[u].about = reviewsTap'[v].about => u = v
      BY <2>2, <3>1 DEF F!AlertInv, F!Telling
    <3>6. QED
      BY <2>6, <3>4, <3>5 DEF F!AlertInv, F!Telling, F!Low
  <2>9. QED
    BY <1>3, <2>7, <2>8 DEF F!Rate
<1>4. ASSUME NEW t \in Taps, F!Alert(t) \/ F!LoseAlert(t)
      PROVE  F!AlertInv'
  <2>1. reviewsTap[t].doing = "telling" /\ reviewsAsked' = reviewsAsked /\ reviewsTap' = [reviewsTap EXCEPT ![t] = F!Idle]
    BY <1>4 DEF F!Alert, F!LoseAlert
  <2>2. F!Telling(t) /\ reviewsTap[t].about \in Jobs
    BY <2>1 DEF F!Telling, F!ReviewsTypeOK, F!Idle
  <2>3. \A u \in Taps : F!Telling(u)' => u # t /\ F!Telling(u) /\ reviewsTap'[u] = reviewsTap[u]
    BY <2>1 DEF F!Telling, F!ReviewsTypeOK
  <2>4. \A u \in Taps : F!Telling(u)' => reviewsTap[u].about # reviewsTap[t].about
    BY <2>2, <2>3 DEF F!AlertInv
  <2>5. \A j \in Jobs : F!Low(j)' <=> F!Low(j)
    BY <2>1 DEF F!Low
  <2>6. \A u \in Taps : F!Telling(u)' => reviewsAsked'[reviewsTap'[u].about].rating \in 1..(GoodRating - 1)
    BY <2>1, <2>3 DEF F!AlertInv, F!Low
  <2>7. \A j \in Jobs : j # reviewsTap[t].about => reviewsAlerts'[j] = reviewsAlerts[j]
    BY <1>4 DEF F!Alert, F!LoseAlert, F!ReviewsTypeOK
  <2>8. reviewsAlerts'[reviewsTap[t].about] \in {0, 1} /\ reviewsAsked'[reviewsTap[t].about].rating \in 1..(GoodRating - 1)
    BY <1>4, <2>1, <2>2 DEF F!AlertInv, F!Alert, F!LoseAlert, F!ReviewsTypeOK, F!Low
  <2>9. \A u \in Taps : F!Telling(u)' => reviewsTap[u].about \in Jobs
    BY <2>3 DEF F!Telling, F!ReviewsTypeOK
  <2>10. \A u \in Taps : F!Telling(u)' => reviewsAlerts'[reviewsTap'[u].about] = 0
    BY <2>3, <2>4, <2>7, <2>9 DEF F!AlertInv
  <2>11. \A u, v \in Taps : F!Telling(u)' /\ F!Telling(v)' /\ reviewsTap'[u].about = reviewsTap'[v].about => u = v
    BY <2>3 DEF F!AlertInv
  <2>12. \A j \in Jobs : reviewsAlerts'[j] <= 1 /\ (reviewsAlerts'[j] = 1 => F!Low(j)')
    <3>1. ASSUME NEW j \in Jobs PROVE reviewsAlerts'[j] <= 1 /\ (reviewsAlerts'[j] = 1 => F!Low(j)')
      <4>1. CASE j = reviewsTap[t].about
        BY <2>8, <4>1 DEF F!Low
      <4>2. CASE j # reviewsTap[t].about
        BY <2>5, <2>7, <4>2 DEF F!AlertInv
      <4>3. QED
        BY <4>1, <4>2
    <3>2. QED
      BY <3>1
  <2>13. QED
    BY <2>6, <2>10, <2>11, <2>12 DEF F!AlertInv, F!Low
<1>5. QED
  BY <1>1, <1>2, <1>3, <1>4 DEF F!Next, F!CompleteVisit, F!NextDay, F!StartRound, F!Consider, F!StopRound,
     F!reviewVars

LEMMA ReviewsStart == F!Init => F!ReviewsTypeOK /\ F!RoundInv /\ F!AlertInv
<1> SUFFICES ASSUME F!Init PROVE F!ReviewsTypeOK /\ F!RoundInv /\ F!AlertInv
  OBVIOUS
<1>1. F!ReviewsTypeOK
  BY RatingsAssumption DEF F!Init, F!ReviewsTypeOK, F!Never, F!WasAsked, F!Unasked, F!Resting
<1>2. F!RoundInv
  BY DEF F!Init, F!RoundInv, F!AskedApart, F!WasAsked, F!Resting
<1>3. F!AlertInv
  BY DEF F!Init, F!AlertInv, F!Telling
<1>4. QED
  BY <1>1, <1>2, <1>3

(* Rounds, ratings and alerts keep their types (services/reviews.ts). *)
THEOREM ReviewsStayTyped == F!Spec => []F!ReviewsTypeOK
<1>1. QED
  BY ReviewsStart, ReviewsTyped, PTL DEF F!Spec

(* One run at a time: whoever a run has decided to ask was not asked       *)
(* lately, and still was not when the request is inserted                  *)
(* (runReviewRequests); a low rating has one alert, on its way or told     *)
(* (submitRating, alertBranchManager).                                     *)
THEOREM RatingsKept ==
  ASSUME F!OneRound
  PROVE  F!Spec => []F!AskedSparingly
<1>1. F!Init => F!ReviewsTypeOK /\ F!RoundInv /\ F!AlertInv
  BY ReviewsStart
<1>2. F!ReviewsTypeOK /\ F!RoundInv /\ F!AlertInv /\ [F!Next]_F!reviewVars =>
        (F!ReviewsTypeOK /\ F!RoundInv /\ F!AlertInv)'
  BY ReviewsTyped, RoundInvKept, AlertInvKept
<1>3. F!RoundInv /\ F!AlertInv => F!AskedSparingly
  BY DEF F!RoundInv, F!AlertInv, F!AskedSparingly
<1>4. QED
  BY <1>1, <1>2, <1>3, PTL DEF F!Spec

-----------------------------------------------------------------------------
(* Weather alerts (Weather). *)
LEMMA WeatherTyped == W!WeatherTypeOK /\ [W!Next]_W!weatherVars => W!WeatherTypeOK'
<1> SUFFICES ASSUME W!WeatherTypeOK, [W!Next]_W!weatherVars
             PROVE  W!WeatherTypeOK'
  OBVIOUS
<1> DEFINE Check == [step : {"asking", "deciding"}, alerted : SUBSET Regions,
                     seen : SUBSET Regions, snow : SUBSET Regions]
<1>1. ASSUME NEW k \in Checks, NEW new \in {W!Idle} \cup Check, weatherCheck' = [weatherCheck EXCEPT ![k] = new],
             new # W!Idle => new.snow \subseteq new.seen
      PROVE  /\ weatherCheck' \in [Checks -> {W!Idle} \cup Check]
             /\ \A l \in W!Underway' : weatherCheck'[l].snow \subseteq weatherCheck'[l].seen
  BY <1>1 DEF W!WeatherTypeOK, W!Underway
<1>2. ASSUME NEW k \in Checks, W!StartCheck(k) PROVE W!WeatherTypeOK'
  <2>1. [step |-> "asking", alerted |-> W!Alerted, seen |-> {}, snow |-> {}] \in Check
    BY DEF W!Alerted
  <2>2. /\ weatherCheck' \in [Checks -> {W!Idle} \cup Check]
        /\ \A l \in W!Underway' : weatherCheck'[l].snow \subseteq weatherCheck'[l].seen
    BY <1>1, <1>2, <2>1 DEF W!StartCheck
  <2>3. weatherCrossed' \in BOOLEAN /\ weatherStarted' \in 0..MaxChecks
    BY <1>2, WeatherAssumption DEF W!StartCheck, W!WeatherTypeOK
  <2>4. QED
    BY <1>2, <2>2, <2>3 DEF W!StartCheck, W!WeatherTypeOK
<1>3. ASSUME NEW k \in Checks, W!Forecast(k) PROVE W!WeatherTypeOK'
  <2>0. PICK seen \in SUBSET (Regions \ weatherCheck[k].alerted) : \E snow \in SUBSET seen :
          weatherCheck' = [weatherCheck EXCEPT ![k] = [@ EXCEPT !.step = "deciding", !.seen = seen, !.snow = snow]]
    BY <1>3 DEF W!Forecast
  <2>1. PICK snow \in SUBSET seen :
          weatherCheck' = [weatherCheck EXCEPT ![k] = [@ EXCEPT !.step = "deciding", !.seen = seen, !.snow = snow]]
    BY <2>0
  <2>2. weatherCheck[k] \in Check
    BY <1>3 DEF W!Forecast, W!WeatherTypeOK, W!Idle
  <2>3. [weatherCheck[k] EXCEPT !.step = "deciding", !.seen = seen, !.snow = snow] \in Check
    BY <2>2
  <2>4. QED
    BY <1>1, <1>3, <2>1, <2>2, <2>3 DEF W!Forecast, W!WeatherTypeOK
<1>4. ASSUME NEW k \in Checks, W!Record(k) PROVE W!WeatherTypeOK'
  <2>1. weatherRecorded' \in [Regions -> {"none", "quiet", "triggered"}]
    BY <1>4 DEF W!Record, W!WeatherTypeOK
  <2>2. weatherNotices' \in [Residents -> Nat]
    BY <1>4 DEF W!Record, W!WeatherTypeOK
  <2>3. QED
    BY <1>1, <1>4, <2>1, <2>2 DEF W!Record, W!WeatherTypeOK
<1>5. ASSUME NEW k \in Checks, W!GiveUp(k) PROVE W!WeatherTypeOK'
  BY <1>1, <1>5 DEF W!GiveUp, W!WeatherTypeOK
<1>6. CASE UNCHANGED W!weatherVars
  BY <1>6 DEF W!weatherVars, W!WeatherTypeOK, W!Underway
<1>7. QED
  BY <1>2, <1>3, <1>4, <1>5, <1>6 DEF W!Next

(* A check that records what it was told: the regions it alerts are alerted *)
(* then and were not before.                                               *)
LEMMA RecordAlerts ==
  ASSUME W!WeatherTypeOK, NEW k \in Checks, W!Record(k)
  PROVE  LET new == {r \in weatherCheck[k].snow : W!Fresh(r)} IN
         /\ W!Alerted' = W!Alerted \cup new
         /\ W!Alerted \cap new = {}
         /\ weatherNotices' = [c \in Residents |->
              weatherNotices[c] + IF c \in W!ToTell(new, weatherCheck[k].alerted) THEN 1 ELSE 0]
<1> DEFINE new == {r \in weatherCheck[k].snow : W!Fresh(r)}
<1>1. k \in W!Underway /\ weatherCheck[k].snow \subseteq weatherCheck[k].seen /\ weatherCheck[k].snow \subseteq Regions
  BY DEF W!Record, W!Underway, W!WeatherTypeOK, W!Idle
<1>2. \A r \in Regions : weatherRecorded'[r] = IF r \notin weatherCheck[k].seen \/ ~W!Fresh(r) THEN weatherRecorded[r]
                                      ELSE IF r \in new THEN "triggered" ELSE "quiet"
  BY DEF W!Record
<1>3. W!Alerted' = W!Alerted \cup new
  BY <1>1, <1>2 DEF W!Alerted, W!Fresh
<1>4. QED
  BY <1>3 DEF W!Record, W!Alerted, W!Fresh

LEMMA CheckInvKept ==
  ASSUME W!WeatherTypeOK, W!CheckInv, [W!Next]_W!weatherVars
  PROVE  W!CheckInv'
<1>1. ASSUME NEW k \in Checks, W!StartCheck(k) PROVE W!CheckInv'
  <2>1. W!Alerted' = W!Alerted /\ UNCHANGED weatherNotices
    BY <1>1 DEF W!StartCheck, W!Alerted
  <2>2. W!Underway' = W!Underway \cup {k} /\ k \notin W!Underway
    BY <1>1 DEF W!StartCheck, W!Underway, W!WeatherTypeOK, W!Idle
  <2>3. weatherCheck'[k].alerted = W!Alerted /\ \A l \in W!Underway : weatherCheck'[l] = weatherCheck[l]
    BY <1>1, <2>2 DEF W!StartCheck, W!Underway, W!WeatherTypeOK
  <2>4. \A l \in W!Underway' : weatherCheck'[l].alerted \subseteq W!Alerted'
    BY <2>1, <2>2, <2>3 DEF W!CheckInv
  <2>5. ~weatherCrossed' => \A l \in W!Underway' : weatherCheck'[l].alerted = W!Alerted' /\ W!Underway' = {l}
    BY <1>1, <2>1, <2>2, <2>3 DEF W!StartCheck
  <2>6. W!ToldOnce'
    BY <1>1, <2>1, SameCardinality DEF W!ToldOnce, W!CheckInv, W!StartCheck
  <2>7. QED
    BY <2>4, <2>5, <2>6 DEF W!CheckInv
<1>2. ASSUME NEW k \in Checks, W!Forecast(k) \/ W!GiveUp(k) PROVE W!CheckInv'
  <2>1. W!Alerted' = W!Alerted /\ UNCHANGED <<weatherNotices, weatherCrossed>>
    BY <1>2 DEF W!Forecast, W!GiveUp, W!Alerted
  <2>2. ASSUME NEW l \in W!Underway' PROVE l \in W!Underway /\ weatherCheck'[l].alerted = weatherCheck[l].alerted
    <3>1. CASE W!GiveUp(k)
      BY <3>1 DEF W!GiveUp, W!Underway, W!WeatherTypeOK
    <3>2. CASE W!Forecast(k)
      <4>1. weatherCheck[k] # W!Idle /\ weatherCheck'[k].alerted = weatherCheck[k].alerted
        BY <3>2 DEF W!Forecast, W!WeatherTypeOK, W!Idle
      <4>2. l # k => weatherCheck'[l] = weatherCheck[l]
        BY <3>2 DEF W!Forecast, W!WeatherTypeOK, W!Underway
      <4>3. QED
        BY <4>1, <4>2 DEF W!Underway
    <3>3. QED
      BY <1>2, <3>1, <3>2
  <2>3. W!ToldOnce'
    BY <2>1, SameCardinality DEF W!ToldOnce, W!CheckInv
  <2>4. QED
    BY <2>1, <2>2, <2>3 DEF W!CheckInv
<1>3. ASSUME NEW k \in Checks, W!Record(k) PROVE W!CheckInv'
  <2> DEFINE new == {r \in weatherCheck[k].snow : W!Fresh(r)}
  <2>1. /\ W!Alerted' = W!Alerted \cup new
        /\ W!Alerted \cap new = {}
        /\ weatherNotices' = [c \in Residents |->
             weatherNotices[c] + IF c \in W!ToTell(new, weatherCheck[k].alerted) THEN 1 ELSE 0]
    BY <1>3, RecordAlerts
  <2>2. k \in W!Underway /\ W!Underway' = W!Underway \ {k} /\ weatherCrossed' = weatherCrossed
    BY <1>3 DEF W!Record, W!Underway, W!WeatherTypeOK, W!Idle
  <2>3. \A l \in W!Underway' : weatherCheck'[l] = weatherCheck[l]
    BY <1>3, <2>2 DEF W!Record, W!WeatherTypeOK, W!Underway
  <2>4. \A l \in W!Underway' : weatherCheck'[l].alerted \subseteq W!Alerted'
    BY <2>1, <2>2, <2>3 DEF W!CheckInv
  <2>5. ~weatherCrossed' => W!Underway' = {}
    BY <2>2 DEF W!CheckInv
  <2>6. weatherCheck[k].alerted \subseteq W!Alerted /\ (~weatherCrossed => weatherCheck[k].alerted = W!Alerted)
    BY <2>2 DEF W!CheckInv
  <2>7. ASSUME NEW c \in Residents
        PROVE  /\ LivesIn[c] \cap W!Alerted' # {} <=> weatherNotices'[c] > 0
               /\ weatherNotices'[c] <= Cardinality(LivesIn[c] \cap W!Alerted')
               /\ weatherNotices'[c] <= 1 \/ weatherCrossed'
    <3>1. /\ weatherNotices[c] \in Nat
          /\ LivesIn[c] \cap W!Alerted # {} <=> weatherNotices[c] > 0
          /\ weatherNotices[c] <= Cardinality(LivesIn[c] \cap W!Alerted)
          /\ weatherNotices[c] <= 1 \/ weatherCrossed
      BY SameCardinality DEF W!CheckInv, W!ToldOnce, W!WeatherTypeOK
    <3>2. /\ IsFiniteSet(W!Alerted')
          /\ IsFiniteSet(LivesIn[c] \cap W!Alerted')
          /\ Cardinality(LivesIn[c] \cap W!Alerted') \in Nat
          /\ Cardinality(LivesIn[c] \cap W!Alerted) \in Nat
      <4>1. W!Alerted' \subseteq Regions
        BY DEF W!Alerted
      <4>2. IsFiniteSet(LivesIn[c] \cap W!Alerted') /\ IsFiniteSet(LivesIn[c] \cap W!Alerted) /\ IsFiniteSet(W!Alerted')
        BY <2>1, <4>1, WeatherAssumption, FS_Subset
      <4>3. QED
        BY <4>2, FS_CardinalityType
    <3>3. CASE c \in W!ToTell(new, weatherCheck[k].alerted)
      <4>1. LivesIn[c] \cap new # {} /\ LivesIn[c] \cap weatherCheck[k].alerted = {}
        BY <3>3 DEF W!ToTell
      <4>2. weatherNotices'[c] = weatherNotices[c] + 1
        BY <2>1, <3>3
      <4>3. PICK r \in LivesIn[c] \cap new : TRUE
        BY <4>1
      <4>4. LivesIn[c] \cap W!Alerted \subseteq (LivesIn[c] \cap W!Alerted') \ {r} /\ r \in LivesIn[c] \cap W!Alerted'
        BY <2>1, <4>3
      <4>5. Cardinality(LivesIn[c] \cap W!Alerted) <= Cardinality(LivesIn[c] \cap W!Alerted') - 1
        <5>1. /\ IsFiniteSet((LivesIn[c] \cap W!Alerted') \ {r})
              /\ Cardinality((LivesIn[c] \cap W!Alerted') \ {r}) = Cardinality(LivesIn[c] \cap W!Alerted') - 1
          BY <3>2, <4>4, FS_RemoveElement
        <5>2. QED
          BY <4>4, <5>1, FS_Subset
      <4>6. ~weatherCrossed => weatherNotices[c] = 0
        BY <2>6, <3>1, <4>1
      <4>7. QED
        BY <2>1, <2>2, <3>1, <3>2, <4>2, <4>3, <4>5, <4>6
    <3>4. CASE c \notin W!ToTell(new, weatherCheck[k].alerted)
      <4>1. weatherNotices'[c] = weatherNotices[c]
        BY <2>1, <3>1, <3>4
      <4>2. LivesIn[c] \cap new = {} \/ LivesIn[c] \cap W!Alerted # {}
        BY <2>6, <3>4 DEF W!ToTell
      <4>3. LivesIn[c] \cap W!Alerted' # {} <=> LivesIn[c] \cap W!Alerted # {}
        BY <2>1, <4>2
      <4>4. Cardinality(LivesIn[c] \cap W!Alerted) <= Cardinality(LivesIn[c] \cap W!Alerted')
        BY <2>1, <3>2, FS_Subset
      <4>5. QED
        BY <2>2, <3>1, <3>2, <4>1, <4>3, <4>4
    <3>5. QED
      BY <3>3, <3>4
  <2>8. W!ToldOnce'
    BY <2>7, SameCardinality DEF W!ToldOnce
  <2>9. QED
    BY <2>4, <2>5, <2>8 DEF W!CheckInv
<1>4. CASE UNCHANGED W!weatherVars
  <2>1. W!Alerted' = W!Alerted /\ W!Underway' = W!Underway /\ UNCHANGED <<weatherCheck, weatherNotices, weatherCrossed>>
    BY <1>4 DEF W!weatherVars, W!Alerted, W!Underway
  <2>2. W!ToldOnce'
    BY <2>1, SameCardinality DEF W!CheckInv, W!ToldOnce
  <2>3. QED
    BY <2>1, <2>2 DEF W!CheckInv
<1>5. QED
  BY <1>1, <1>2, <1>3, <1>4 DEF W!Next

LEMMA WeatherStart == W!Init => W!WeatherTypeOK /\ W!CheckInv
<1> SUFFICES ASSUME W!Init PROVE W!WeatherTypeOK /\ W!CheckInv
  OBVIOUS
<1>1. W!Alerted = {} /\ W!Underway = {}
  BY DEF W!Init, W!Alerted, W!Underway
<1>2. W!WeatherTypeOK
  <2>1. weatherCheck \in [Checks -> {W!Idle}] /\ weatherNotices \in [Residents -> Nat] /\ weatherStarted \in 0..MaxChecks
    BY WeatherAssumption DEF W!Init
  <2>2. weatherRecorded \in [Regions -> {"none", "quiet", "triggered"}] /\ weatherCrossed \in BOOLEAN
    BY DEF W!Init
  <2>3. QED
    BY <1>1, <2>1, <2>2 DEF W!WeatherTypeOK
<1>3. \A c \in Residents : LivesIn[c] \cap W!Alerted = {} /\ weatherNotices[c] = 0
  BY <1>1 DEF W!Init
<1>4. Cardinality({}) = 0
  BY FS_EmptySet
<1>5. W!ToldOnce
  BY <1>3, <1>4, SameCardinality DEF W!ToldOnce
<1>6. QED
  BY <1>1, <1>2, <1>5 DEF W!CheckInv

(* Alerts, checks and notices keep their types (services/weather.ts). *)
THEOREM WeatherStaysTyped == W!Spec => []W!WeatherTypeOK
<1>1. QED
  BY WeatherStart, WeatherTyped, PTL DEF W!Spec

(* However checks overlap, the regions a check read as alerted still are   *)
(* when it records its own (checkBranch), so that whoever has a property   *)
(* in an alerted region was told, and is told again only for another       *)
(* region, and only where two checks did overlap.                          *)
THEOREM WeatherTold == W!Spec => []W!ToldOnce
<1>1. W!Init => W!WeatherTypeOK /\ W!CheckInv
  BY WeatherStart
<1>2. W!WeatherTypeOK /\ W!CheckInv /\ [W!Next]_W!weatherVars => (W!WeatherTypeOK /\ W!CheckInv)'
  BY WeatherTyped, CheckInvKept
<1>3. W!CheckInv => W!ToldOnce
  BY DEF W!CheckInv
<1>4. QED
  BY <1>1, <1>2, <1>3, PTL DEF W!Spec

-----------------------------------------------------------------------------
(* The cold email sequence (Drip). *)
LEMMA LockTyped ==
  ASSUME C!DripTypeOK, NEW r \in DripRequests, NEW op \in C!Operations, NEW ls \in SUBSET Prospects, C!Lock(r, op, ls)
  PROVE  /\ C!DripTypeOK'
         /\ dripHeld'[r].op = op /\ dripHeld'[r].about = ls
         /\ \A l \in ls : dripHeld'[r].saw[l] = dripLead[l]
         /\ \A s \in DripRequests \ {r} : dripHeld'[s] = dripHeld[s]
<1> DEFINE lock == [op |-> op, about |-> ls, saw |-> [l \in ls |-> dripLead[l]]]
<1>1. [l \in ls |-> dripLead[l]] \in [ls -> C!LeadRows]
  BY DEF C!DripTypeOK
<1>2. lock \in C!Locks
  BY <1>1 DEF C!Locks
<1>3. dripHeld' = [dripHeld EXCEPT ![r] = lock]
  BY DEF C!Lock
<1>4. dripHeld' \in [DripRequests -> {C!Idle} \cup C!Locks]
  BY <1>2, <1>3 DEF C!DripTypeOK
<1>5. UNCHANGED <<dripLead, dripMail, dripInHand, dripSent, dripBought>>
  BY DEF C!Lock
<1>6. C!DripTypeOK'
  BY <1>4, <1>5 DEF C!DripTypeOK
<1>7. dripHeld'[r] = lock /\ \A s \in DripRequests \ {r} : dripHeld'[s] = dripHeld[s]
  BY <1>3 DEF C!DripTypeOK
<1>8. QED
  BY <1>6, <1>7

LEMMA AboutTyped ==
  ASSUME C!DripTypeOK, NEW r \in DripRequests
  PROVE  /\ dripHeld[r].about \subseteq Prospects
         /\ dripHeld[r] # C!Idle => dripHeld[r].op \in C!Operations
         /\ dripHeld[r] = C!Idle => dripHeld[r].about = {}
BY DEF C!DripTypeOK, C!Idle, C!Locks

(* What a lock keeps: the leads it covers were free, and fit for it. *)
LEMMA LockKeeps ==
  ASSUME C!DripTypeOK, C!HeldInv, NEW r \in DripRequests, NEW op \in C!Operations, NEW ls \in SUBSET Prospects,
         C!Lock(r, op, ls),
         \A l \in ls : /\ C!Unlocked(l)
                       /\ op = "enrol" => C!Enrols(l)
                       /\ op = "drip" => dripLead[l].status = "active"
  PROVE  C!HeldInv'
<1>1. UNCHANGED dripLead
  BY DEF C!Lock
<1>2. \A l \in Prospects : C!Enrols(l)' <=> C!Enrols(l)
  BY <1>1 DEF C!Enrols
<1>3. \A s \in DripRequests \ {r} : \A l \in ls : l \notin dripHeld[s].about
  BY DEF C!Unlocked
<1>4. ASSUME NEW s \in DripRequests, NEW l \in dripHeld'[s].about
      PROVE  /\ dripHeld'[s].saw[l] = dripLead'[l]
             /\ dripHeld'[s].op = "enrol" => C!Enrols(l)'
             /\ dripHeld'[s].op = "drip" => dripLead'[l].status = "active"
             /\ \A t \in DripRequests \ {s} : l \notin dripHeld'[t].about
  <2>1. CASE s = r
    BY <1>1, <1>2, <1>3, <1>4, <2>1, LockTyped DEF C!HeldInv
  <2>2. CASE s # r
    <3>1. dripHeld'[s] = dripHeld[s] /\ l \in dripHeld[s].about /\ l \in Prospects
      BY <1>4, <2>2, LockTyped, AboutTyped
    <3>2. \A t \in DripRequests \ {s} : l \notin dripHeld'[t].about
      BY <1>3, <3>1, LockTyped DEF C!HeldInv
    <3>3. QED
      BY <1>1, <1>2, <3>1, <3>2 DEF C!HeldInv
  <2>3. QED
    BY <2>1, <2>2
<1>5. \A l \in Prospects : dripLead'[l].status = "active" => dripLead'[l].steps < Steps /\ dripLead'[l].times > 0
  BY <1>1 DEF C!HeldInv
<1>6. QED
  BY <1>4, <1>5 DEF C!HeldInv

(* What a transaction makes of a lead it holds. *)
LEMMA WhatBecomes ==
  ASSUME C!DripTypeOK, C!HeldInv, NEW r \in DripRequests, dripHeld[r] # C!Idle, NEW l \in dripHeld[r].about
  PROVE  LET new == C!Becomes(dripHeld[r].op, dripLead[l], l) IN
         /\ new \in C!LeadRows
         /\ new.status = "active" => new.steps < Steps /\ new.times > 0
         /\ dripHeld[r].op \in {"unsubscribed", "converted"} => new.status = dripHeld[r].op
         /\ dripHeld[r].op = "drip" /\ l \in dripBought => new.status = "converted"
         /\ dripHeld[r].op = "enrol" =>
              new.times = dripLead[l].times + 1 /\ new.steps \in 1..Steps /\ new.status \in {"active", "completed"}
         /\ dripHeld[r].op = "drip" /\ l \notin dripBought =>
              /\ new.times = dripLead[l].times /\ new.times > 0 /\ new.steps = dripLead[l].steps + 1
              /\ new.steps \in 1..Steps /\ new.status \in {"active", "completed"}
<1> DEFINE op == dripHeld[r].op
           new == C!Becomes(op, dripLead[l], l)
<1>1. /\ l \in Prospects /\ op \in C!Operations
      /\ dripLead[l] \in C!LeadRows
  BY AboutTyped DEF C!DripTypeOK
<1>2. /\ dripLead[l].steps \in 0..Steps /\ dripLead[l].times \in 0..MaxOptIns
      /\ op = "enrol" => dripLead[l].times < MaxOptIns
      /\ op = "drip" => dripLead[l].steps < Steps /\ dripLead[l].times > 0 /\ dripLead[l].status = "active"
  BY <1>1 DEF C!LeadRows, C!HeldInv, C!Enrols
<1>3. ASSUME NEW old \in C!LeadRows, old.steps < Steps, old.status = "active"
      PROVE  /\ C!Moved(old) \in C!LeadRows
             /\ C!Moved(old).steps = old.steps + 1 /\ C!Moved(old).times = old.times
             /\ C!Moved(old).status \in {"active", "completed"}
             /\ C!Moved(old).status = "active" => C!Moved(old).steps < Steps
  <2>1. old.steps \in 0..Steps /\ old.times \in 0..MaxOptIns
    BY DEF C!LeadRows
  <2>2. CASE old.steps + 1 < Steps
    <3>1. C!Moved(old) = [old EXCEPT !.steps = old.steps + 1]
      BY <2>2 DEF C!Moved
    <3>2. old.steps + 1 \in 0..Steps
      BY <2>1, <2>2, DripAssumption
    <3>3. QED
      BY <1>3, <2>1, <2>2, <3>1, <3>2 DEF C!LeadRows
  <2>3. CASE ~(old.steps + 1 < Steps)
    <3>1. C!Moved(old) = [old EXCEPT !.steps = Steps, !.status = "completed"]
      BY <2>3 DEF C!Moved
    <3>2. Steps = old.steps + 1 /\ Steps \in 0..Steps
      BY <1>3, <2>1, <2>3, DripAssumption
    <3>3. QED
      BY <2>1, <3>1, <3>2 DEF C!LeadRows
  <2>4. QED
    BY <2>2, <2>3
<1>4. CASE op = "enrol"
  <2>1. [status |-> "active", steps |-> 0, times |-> dripLead[l].times + 1] \in C!LeadRows
    BY <1>2, <1>4, DripAssumption DEF C!LeadRows
  <2>2. new = C!Moved([status |-> "active", steps |-> 0, times |-> dripLead[l].times + 1])
    BY <1>4 DEF C!Becomes
  <2>3. QED
    BY <1>2, <1>3, <1>4, <2>1, <2>2, DripAssumption
<1>5. CASE op = "drip" /\ l \notin dripBought
  <2>1. op # "enrol"
    BY <1>5
  <2>2. new = C!Moved(dripLead[l])
    BY <1>5, <2>1 DEF C!Becomes
  <2>3. dripLead[l].steps + 1 \in 1..Steps
    BY <1>2, <1>5, DripAssumption
  <2>4. QED
    BY <1>1, <1>2, <1>3, <1>5, <2>2, <2>3
<1>6. CASE op = "drip" /\ l \in dripBought
  BY <1>1, <1>6 DEF C!Becomes, C!LeadRows
<1>7. CASE op \in {"unsubscribed", "converted"}
  BY <1>1, <1>7 DEF C!Becomes, C!LeadRows
<1>8. QED
  BY <1>1, <1>4, <1>5, <1>6, <1>7 DEF C!Operations

(* A commit: what it held it rewrites, by what the lead still is. *)
LEMMA CommitMakes ==
  ASSUME C!DripTypeOK, C!HeldInv, NEW r \in DripRequests, C!Commit(r), NEW l \in Prospects
  PROVE  /\ dripHeld[r] # C!Idle
         /\ l \in dripHeld[r].about =>
              /\ dripLead'[l] = C!Becomes(dripHeld[r].op, dripLead[l], l)
              /\ dripMail'[l] = C!Mailed(dripHeld[r].op, dripLead'[l], l)
         /\ l \notin dripHeld[r].about => dripLead'[l] = dripLead[l] /\ dripMail'[l] = dripMail[l]
<1>1. l \in dripHeld[r].about => dripHeld[r].saw[l] = dripLead[l]
  BY DEF C!HeldInv
<1>2. QED
  BY <1>1 DEF C!Commit

(* What it leaves queued is letters of the sequence. *)
LEMMA LettersOnly ==
  ASSUME C!DripTypeOK, C!HeldInv, NEW r \in DripRequests, C!Commit(r), NEW l \in Prospects
  PROVE  dripLead'[l] \in C!LeadRows /\ dripMail'[l] \in SUBSET C!Letters
<1>1. dripMail[l] \in SUBSET C!Letters /\ dripLead[l] \in C!LeadRows
  BY DEF C!DripTypeOK
<1>2. CASE l \notin dripHeld[r].about
  BY <1>1, <1>2, CommitMakes
<1>3. CASE l \in dripHeld[r].about
  <2> DEFINE op  == dripHeld[r].op
             new == dripLead'[l]
  <2>1. new = C!Becomes(op, dripLead[l], l) /\ dripMail'[l] = C!Mailed(op, new, l) /\ op \in C!Operations
    BY <1>3, CommitMakes, AboutTyped
  <2>2. new \in C!LeadRows
    BY <1>3, <2>1, CommitMakes, WhatBecomes
  <2>3. new.times \in 0..MaxOptIns
    BY <2>2 DEF C!LeadRows
  <2>4. CASE op \in {"unsubscribed", "converted"} \/ (op = "drip" /\ l \in dripBought)
    <3>1. op = "drip" /\ l \in dripBought => new.status = "converted"
      BY <1>3, <2>1, CommitMakes, WhatBecomes
    <3>2. QED
      BY <1>1, <2>1, <2>2, <2>4, <3>1 DEF C!Mailed
  <2>5. CASE op = "enrol" \/ (op = "drip" /\ l \notin dripBought)
    <3>1. new.times > 0 /\ new.steps \in 1..Steps /\ new.status # "converted"
      <4>1. dripLead[l].times \in Nat
        BY <1>1, DripAssumption DEF C!LeadRows
      <4>2. QED
        BY <1>3, <2>1, <2>5, <4>1, CommitMakes, WhatBecomes
    <3>2. <<new.times, new.steps>> \in C!Letters
      BY <2>3, <3>1, DripAssumption DEF C!Letters
    <3>3. QED
      BY <1>1, <2>1, <2>2, <2>5, <3>1, <3>2 DEF C!Mailed
  <2>6. QED
    BY <2>1, <2>4, <2>5 DEF C!Operations
<1>4. QED
  BY <1>2, <1>3

LEMMA DripTyped == C!DripTypeOK /\ C!HeldInv /\ [C!Next]_C!dripVars => C!DripTypeOK'
<1> SUFFICES ASSUME C!DripTypeOK, C!HeldInv, [C!Next]_C!dripVars PROVE C!DripTypeOK'
  OBVIOUS
<1>1. ASSUME NEW r \in DripRequests, NEW l \in Prospects, C!OptIn(r, l) \/ C!Unsubscribe(r, l) \/ C!StopLead(r, l)
      PROVE  C!DripTypeOK'
  BY <1>1, LockTyped DEF C!OptIn, C!Unsubscribe, C!StopLead, C!Operations
<1>2. ASSUME NEW r \in DripRequests, C!ClaimDue(r) PROVE C!DripTypeOK'
  BY <1>2, LockTyped DEF C!ClaimDue, C!Operations
<1>3. ASSUME NEW r \in DripRequests, C!Commit(r) PROVE C!DripTypeOK'
  <2>1. dripLead' \in [Prospects -> C!LeadRows] /\ dripMail' \in [Prospects -> SUBSET C!Letters]
    <3>1. DOMAIN dripLead' = Prospects /\ dripLead' = [l \in Prospects |-> dripLead'[l]]
          /\ DOMAIN dripMail' = Prospects /\ dripMail' = [l \in Prospects |-> dripMail'[l]]
      BY <1>3 DEF C!Commit
    <3>2. QED
      BY <1>3, <3>1, LettersOnly
  <2>2. dripHeld' \in [DripRequests -> {C!Idle} \cup C!Locks] /\ UNCHANGED <<dripInHand, dripSent, dripBought>>
    BY <1>3 DEF C!Commit, C!DripTypeOK
  <2>3. QED
    BY <2>1, <2>2 DEF C!DripTypeOK
<1>4. ASSUME NEW r \in DripRequests, C!Abort(r) PROVE C!DripTypeOK'
  BY <1>4 DEF C!Abort, C!DripTypeOK
<1>5. ASSUME NEW l \in Prospects, C!TakeMail(l) \/ C!SendMail(l) \/ C!Buy(l) PROVE C!DripTypeOK'
  BY <1>5 DEF C!TakeMail, C!SendMail, C!Buy, C!DripTypeOK
<1>6. CASE UNCHANGED C!dripVars
  BY <1>6 DEF C!dripVars, C!DripTypeOK
<1>7. QED
  BY <1>1, <1>2, <1>3, <1>4, <1>5, <1>6 DEF C!Next

LEMMA HeldInvKept ==
  ASSUME C!DripTypeOK, C!HeldInv, [C!Next]_C!dripVars
  PROVE  C!HeldInv'
<1>1. ASSUME NEW r \in DripRequests, NEW l \in Prospects, C!OptIn(r, l) PROVE C!HeldInv'
  BY <1>1, LockKeeps DEF C!OptIn, C!Operations
<1>2. ASSUME NEW r \in DripRequests, NEW l \in Prospects, C!Unsubscribe(r, l) \/ C!StopLead(r, l) PROVE C!HeldInv'
  BY <1>2, LockKeeps DEF C!Unsubscribe, C!StopLead, C!Operations
<1>3. ASSUME NEW r \in DripRequests, C!ClaimDue(r) PROVE C!HeldInv'
  <2>1. PICK due \in SUBSET {l \in Prospects : dripLead[l].status = "active" /\ C!Unlocked(l)} : C!Lock(r, "drip", due)
    BY <1>3 DEF C!ClaimDue
  <2>2. QED
    BY <2>1, LockKeeps DEF C!Operations
<1>4. ASSUME NEW r \in DripRequests, C!Commit(r) \/ C!Abort(r) PROVE C!HeldInv'
  <2>1. /\ dripHeld'[r] = C!Idle /\ dripHeld'[r].about = {}
        /\ \A s \in DripRequests \ {r} : dripHeld'[s] = dripHeld[s]
    <3>1. dripHeld' = [dripHeld EXCEPT ![r] = C!Idle]
      BY <1>4 DEF C!Commit, C!Abort
    <3>2. C!Idle.about = {}
      BY DEF C!Idle
    <3>3. QED
      BY <3>1, <3>2 DEF C!DripTypeOK
  <2>2. \A l \in Prospects : l \notin dripHeld[r].about => dripLead'[l] = dripLead[l]
    BY <1>4, CommitMakes DEF C!Abort
  <2>3. ASSUME NEW s \in DripRequests, NEW l \in dripHeld'[s].about
        PROVE  /\ dripHeld'[s].saw[l] = dripLead'[l]
               /\ dripHeld'[s].op = "enrol" => C!Enrols(l)'
               /\ dripHeld'[s].op = "drip" => dripLead'[l].status = "active"
               /\ \A t \in DripRequests \ {s} : l \notin dripHeld'[t].about
    <3>1. s # r /\ dripHeld'[s] = dripHeld[s] /\ l \in dripHeld[s].about
      BY <2>1, <2>3
    <3>2. l \in Prospects /\ l \notin dripHeld[r].about
      BY <3>1, AboutTyped DEF C!HeldInv
    <3>3. dripLead'[l] = dripLead[l]
      BY <2>2, <3>2
    <3>4. \A t \in DripRequests \ {s} : l \notin dripHeld'[t].about
      BY <2>1, <3>1 DEF C!HeldInv
    <3>5. QED
      BY <3>1, <3>3, <3>4 DEF C!HeldInv, C!Enrols
  <2>4. ASSUME NEW l \in Prospects, dripLead'[l].status = "active" PROVE dripLead'[l].steps < Steps /\ dripLead'[l].times > 0
    <3>1. CASE dripLead'[l] = dripLead[l]
      BY <2>4, <3>1 DEF C!HeldInv
    <3>2. CASE C!Commit(r) /\ l \in dripHeld[r].about
      BY <2>4, <3>2, CommitMakes, WhatBecomes
    <3>3. QED
      BY <1>4, <2>2, <3>1, <3>2 DEF C!Abort
  <2>5. QED
    BY <2>3, <2>4 DEF C!HeldInv
<1>5. CASE UNCHANGED <<dripLead, dripHeld>>
  BY <1>5 DEF C!HeldInv, C!Enrols
<1>6. QED
  BY <1>1, <1>2, <1>3, <1>4, <1>5 DEF C!Next, C!TakeMail, C!SendMail, C!Buy, C!dripVars

(* Only a commit queues anything or stops a lead, and what it queues is the *)
(* next step of who is due, or the first of who enrols.                    *)
LEMMA SequenceStep ==
  ASSUME C!DripTypeOK, C!HeldInv, [C!Next]_C!dripVars
  PROVE  C!SequenceKept
<1> SUFFICES ASSUME NEW l \in Prospects
             PROVE  /\ C!Queues(l) # {} => C!Queues(l) = {<<dripLead'[l].times, dripLead'[l].steps>>}
                    /\ C!Queues(l) # {} => dripLead'[l].times > dripLead[l].times
                                           \/ (dripLead[l].status = "active" /\ dripLead'[l].steps = dripLead[l].steps + 1)
                    /\ /\ dripLead[l].status \notin {"unsubscribed", "converted"}
                       /\ dripLead'[l].status \in {"unsubscribed", "converted"} /\ l \notin dripBought
                       => dripMail'[l] = {}
  BY DEF C!SequenceKept
<1>1. CASE dripLead'[l] = dripLead[l] /\ C!Queues(l) = {}
  BY <1>1
<1>2. ASSUME NEW r \in DripRequests, C!Commit(r), l \in dripHeld[r].about
      PROVE  /\ C!Queues(l) # {} => C!Queues(l) = {<<dripLead'[l].times, dripLead'[l].steps>>}
             /\ C!Queues(l) # {} => dripLead'[l].times > dripLead[l].times
                                    \/ (dripLead[l].status = "active" /\ dripLead'[l].steps = dripLead[l].steps + 1)
             /\ /\ dripLead[l].status \notin {"unsubscribed", "converted"}
                /\ dripLead'[l].status \in {"unsubscribed", "converted"} /\ l \notin dripBought
                => dripMail'[l] = {}
  <2> DEFINE op == dripHeld[r].op
  <2>1. /\ dripHeld[r] # C!Idle /\ op \in C!Operations
        /\ dripLead'[l] = C!Becomes(op, dripLead[l], l)
        /\ dripMail'[l] = C!Mailed(op, dripLead'[l], l)
    BY <1>2, CommitMakes, AboutTyped
  <2>2. CASE op \in {"unsubscribed", "converted"}
    BY <2>1, <2>2 DEF C!Mailed, C!Queues
  <2>3. CASE op = "drip" /\ l \in dripBought
    <3>1. dripLead'[l].status = "converted"
      BY <1>2, <2>1, <2>3, WhatBecomes
    <3>2. dripMail'[l] = dripMail[l]
      BY <2>1, <2>3, <3>1 DEF C!Mailed
    <3>3. QED
      BY <2>3, <3>2 DEF C!Queues
  <2>4. CASE op = "enrol" \/ (op = "drip" /\ l \notin dripBought)
    <3>1. dripLead'[l].status \in {"active", "completed"}
      BY <1>2, <2>1, <2>4, WhatBecomes
    <3>2. dripMail'[l] = dripMail[l] \cup {<<dripLead'[l].times, dripLead'[l].steps>>}
      BY <2>1, <2>4, <3>1 DEF C!Mailed
    <3>3. dripLead'[l].times > dripLead[l].times \/ (dripLead[l].status = "active" /\ dripLead'[l].steps = dripLead[l].steps + 1)
      <4>1. dripLead[l].times \in Nat
        BY DripAssumption DEF C!DripTypeOK, C!LeadRows
      <4>2. op = "drip" => dripLead[l].status = "active"
        BY <1>2 DEF C!HeldInv
      <4>3. QED
        BY <1>2, <2>1, <2>4, <4>1, <4>2, WhatBecomes
    <3>4. QED
      BY <3>1, <3>2, <3>3 DEF C!Queues
  <2>5. QED
    BY <2>1, <2>2, <2>3, <2>4 DEF C!Operations
<1>3. CASE \E r \in DripRequests : C!Commit(r)
  <2>1. PICK r \in DripRequests : C!Commit(r)
    BY <1>3
  <2>2. CASE l \in dripHeld[r].about
    BY <1>2, <2>1, <2>2
  <2>3. CASE l \notin dripHeld[r].about
    BY <1>1, <2>1, <2>3, CommitMakes DEF C!Queues
  <2>4. QED
    BY <2>2, <2>3
<1>4. CASE ~\E r \in DripRequests : C!Commit(r)
  <2>1. UNCHANGED dripLead
    BY <1>4 DEF C!Next, C!OptIn, C!Unsubscribe, C!StopLead, C!ClaimDue, C!Lock, C!Abort, C!TakeMail, C!SendMail,
       C!Buy, C!dripVars
  <2>2. dripMail'[l] \subseteq dripMail[l] \cup dripInHand[l]
    <3>1. CASE UNCHANGED dripMail
      BY <3>1
    <3>2. ASSUME NEW k \in Prospects, C!SendMail(k) PROVE dripMail'[l] \subseteq dripMail[l] \cup dripInHand[l]
      BY <3>2 DEF C!SendMail, C!DripTypeOK
    <3>3. QED
      BY <1>4, <3>1, <3>2 DEF C!Next, C!OptIn, C!Unsubscribe, C!StopLead, C!ClaimDue, C!Lock, C!Abort, C!TakeMail, C!Buy, C!dripVars
  <2>3. QED
    BY <1>1, <2>1, <2>2 DEF C!Queues
<1>5. QED
  BY <1>3, <1>4

LEMMA DripStarts == C!Init => C!DripTypeOK /\ C!HeldInv
<1> SUFFICES ASSUME C!Init PROVE C!DripTypeOK /\ C!HeldInv
  OBVIOUS
<1>1. C!Nobody \in C!LeadRows
  BY DripAssumption DEF C!Nobody, C!LeadRows
<1>2. C!DripTypeOK
  BY <1>1 DEF C!Init, C!DripTypeOK
<1>3. C!HeldInv
  BY DEF C!Init, C!HeldInv, C!Idle, C!Nobody
<1>4. QED
  BY <1>2, <1>3

(* Leads, their letters and what is held keep their types                  *)
(* (services/coldEmail.ts).                                                *)
THEOREM DripStaysTyped == C!Spec => []C!DripTypeOK
<1>1. C!DripTypeOK /\ C!HeldInv /\ [C!Next]_C!dripVars => C!DripTypeOK' /\ C!HeldInv'
  BY DripTyped, HeldInvKept
<1>2. QED
  BY <1>1, DripStarts, PTL DEF C!Spec

(* The steps of a lead's sequence go out in order, each once, and a lead   *)
(* who unsubscribes is written to no more, for any number of opt-ins,      *)
(* passes of the drip and stops at once (coldEmail.ts).                    *)
THEOREM SequenceInOrder == C!Spec => [][C!SequenceKept]_C!dripVars
<1>1. C!Init => C!DripTypeOK /\ C!HeldInv
  BY DripStarts
<1>2. C!DripTypeOK /\ C!HeldInv /\ [C!Next]_C!dripVars => C!DripTypeOK' /\ C!HeldInv' /\ C!SequenceKept
  BY DripTyped, HeldInvKept, SequenceStep
<1>3. C!Spec => []([C!SequenceKept]_C!dripVars)
  BY <1>1, <1>2, PTL DEF C!Spec
<1>4. QED
  BY <1>3

-----------------------------------------------------------------------------
(* A conversation with a customer (Inbox). *)
LEMMA InboxStarts == I!Init => I!InboxTypeOK /\ I!ThreadInv
<1> SUFFICES ASSUME I!Init PROVE I!InboxTypeOK /\ I!ThreadInv
  OBVIOUS
<1>1. I!Unsent \in I!ReplyRows /\ I!Unsent.mid = Nothing /\ I!Unsent.attempts = 0 /\ I!Unsent.status = "none"
  BY InboxAssumption DEF I!Unsent, I!ReplyRows
<1>2. I!Resting \in I!WorkerStates
  BY DEF I!Resting, I!WorkerStates
<1>3. I!InboxTypeOK
  BY <1>1, <1>2, InboxAssumption DEF I!Init, I!InboxTypeOK
<1>4. I!FiledOnce /\ I!WorkersApart /\ I!AttemptsLeft
  BY <1>1, InboxAssumption DEF I!Init, I!FiledOnce, I!WorkersApart, I!AttemptsLeft
<1>5. QED
  BY <1>3, <1>4 DEF I!ThreadInv

(* A worker that is not at rest is at a reply nobody else is at. *)
LEMMA WorkerAt ==
  ASSUME I!InboxTypeOK, I!ThreadInv, NEW w \in InboxWorkers, inboxWorker[w].step # "rest"
  PROVE  /\ I!On(w) \in Replies
         /\ inboxReply[I!On(w)] \in I!ReplyRows /\ inboxReply[I!On(w)].status = "queued" /\ inboxReply[I!On(w)].leased
         /\ inboxWorker[w].step \in {"tidy", "stamp"} => (inboxWorker[w].mid \in I!Mids /\ inboxWorker[w].mid.of = I!On(w))
         /\ \A v \in InboxWorkers \ {w} : I!On(v) # I!On(w)
<1>1. inboxWorker[w] # I!Resting
  BY DEF I!Resting
<1>2. QED
  BY <1>1 DEF I!ThreadInv, I!WorkersApart, I!InboxTypeOK

LEMMA InboxTyped ==
  ASSUME I!InboxTypeOK, I!ThreadInv, [I!Next]_I!inboxVars
  PROVE  I!InboxTypeOK'
<1>1. ASSUME NEW r \in Replies, NEW new \in I!ReplyRows, inboxReply' = [inboxReply EXCEPT ![r] = new]
      PROVE  inboxReply' \in [Replies -> I!ReplyRows]
  BY <1>1 DEF I!InboxTypeOK
<1>2. ASSUME NEW w \in InboxWorkers, NEW new \in I!WorkerStates, inboxWorker' = [inboxWorker EXCEPT ![w] = new]
      PROVE  inboxWorker' \in [InboxWorkers -> I!WorkerStates]
  BY <1>2 DEF I!InboxTypeOK
<1>3. I!Resting \in I!WorkerStates
  BY DEF I!Resting, I!WorkerStates
<1>4. ASSUME NEW h \in Handlers, NEW m \in I!Mids, I!Receive(h, m) PROVE I!InboxTypeOK'
  BY <1>4 DEF I!Receive, I!InboxTypeOK
<1>5. ASSUME NEW h \in Handlers, I!Store(h) PROVE I!InboxTypeOK'
  <2>1. inboxHandler[h] \in I!Mids
    BY <1>5 DEF I!Store, I!InboxTypeOK
  <2>2. inboxStored' \in [I!Mids -> Nat]
    BY <1>5, <2>1 DEF I!Store, I!InboxTypeOK
  <2>3. inboxWindow' \in Incoming \cup {0}
    BY <1>5 DEF I!Store, I!InboxTypeOK, I!Greatest, I!FromCustomer
  <2>4. QED
    BY <1>5, <2>2, <2>3 DEF I!Store, I!InboxTypeOK
<1>6. ASSUME NEW r \in Replies, I!QueueReply(r) \/ I!LeaseEnds(r) PROVE I!InboxTypeOK'
  <2>1. inboxReply[r] \in I!ReplyRows
    BY DEF I!InboxTypeOK
  <2>2. /\ [inboxReply[r] EXCEPT !.status = "queued"] \in I!ReplyRows
        /\ [inboxReply[r] EXCEPT !.leased = FALSE] \in I!ReplyRows
    BY <2>1 DEF I!ReplyRows
  <2>3. inboxReply' \in [Replies -> I!ReplyRows]
    BY <1>1, <1>6, <2>2 DEF I!QueueReply, I!LeaseEnds
  <2>4. QED
    BY <1>6, <2>3 DEF I!QueueReply, I!LeaseEnds, I!InboxTypeOK
<1>7. ASSUME NEW w \in InboxWorkers, NEW r \in Replies, I!Claim(w, r) PROVE I!InboxTypeOK'
  <2>1. inboxReply[r] \in I!ReplyRows /\ inboxReply[r].attempts \in Nat
    BY DEF I!InboxTypeOK, I!ReplyRows
  <2>2. inboxReply[r].attempts < MaxReplyAttempts + MaxInboxFaults
    <3>1. \A v \in InboxWorkers : I!On(v) # r
      BY <1>7, WorkerAt, InboxAssumption DEF I!Claim, I!ThreadInv, I!WorkersApart, I!On, I!Resting
    <3>2. inboxReply[r].attempts < MaxReplyAttempts + inboxFaults
      BY <1>7, <3>1 DEF I!Claim, I!ThreadInv, I!AttemptsLeft
    <3>3. QED
      BY <2>1, <3>2, InboxAssumption DEF I!InboxTypeOK
  <2>3. [inboxReply[r] EXCEPT !.attempts = @ + 1, !.leased = TRUE] \in I!ReplyRows
    <3>1. inboxReply[r].attempts + 1 \in 0..(MaxReplyAttempts + MaxInboxFaults)
      BY <2>1, <2>2, InboxAssumption
    <3>2. QED
      BY <2>1, <3>1 DEF I!ReplyRows
  <2>4. inboxReply' = [inboxReply EXCEPT ![r] = [inboxReply[r] EXCEPT !.attempts = @ + 1, !.leased = TRUE]]
    BY <1>7 DEF I!Claim, I!InboxTypeOK
  <2>5. [I!Resting EXCEPT !.step = "send", !.on = r] \in I!WorkerStates
    BY DEF I!Resting, I!WorkerStates
  <2>6. inboxReply' \in [Replies -> I!ReplyRows]
    BY <1>1, <2>3, <2>4
  <2>7. inboxWorker' \in [InboxWorkers -> I!WorkerStates]
    BY <1>2, <1>7, <2>5 DEF I!Claim
  <2>8. QED
    BY <1>7, <2>6, <2>7 DEF I!Claim, I!InboxTypeOK
<1>8. ASSUME NEW w \in InboxWorkers, I!SendReply(w) PROVE I!InboxTypeOK'
  <2> DEFINE m == [of |-> I!On(w), nth |-> inboxReply[I!On(w)].attempts]
  <2>1. m \in I!Mids
    BY <1>8, WorkerAt DEF I!SendReply, I!Mids, I!ReplyRows
  <2>2. inboxWorker[w] \in I!WorkerStates
    BY DEF I!InboxTypeOK
  <2>3. /\ [inboxWorker[w] EXCEPT !.step = "tidy", !.mid = m] \in I!WorkerStates
        /\ \A s \in {"retry", "refused"} : [inboxWorker[w] EXCEPT !.step = s] \in I!WorkerStates
    BY <2>1, <2>2 DEF I!WorkerStates
  <2>4. inboxWorker' \in [InboxWorkers -> I!WorkerStates]
    <3>1. \/ inboxWorker' = [inboxWorker EXCEPT ![w] = [inboxWorker[w] EXCEPT !.step = "tidy", !.mid = m]]
          \/ \E s \in {"retry", "refused"} : inboxWorker' = [inboxWorker EXCEPT ![w] = [inboxWorker[w] EXCEPT !.step = s]]
      BY <1>8 DEF I!SendReply, I!InboxTypeOK
    <3>2. QED
      BY <1>2, <2>3, <3>1
  <2>5. inboxReached' \subseteq I!Mids /\ inboxFaults' \in 0..MaxInboxFaults
    BY <1>8, <2>1, InboxAssumption DEF I!SendReply, I!InboxTypeOK
  <2>6. QED
    BY <1>8, <2>4, <2>5 DEF I!SendReply, I!InboxTypeOK
<1>9. ASSUME NEW w \in InboxWorkers, I!Tidy(w) PROVE I!InboxTypeOK'
  <2>1. [inboxWorker[w] EXCEPT !.step = "stamp", !.tidied = inboxStored[inboxWorker[w].mid] > 0] \in I!WorkerStates
    <3>1. inboxWorker[w].mid \in I!Mids
      BY <1>9, WorkerAt DEF I!Tidy
    <3>2. (inboxStored[inboxWorker[w].mid] > 0) \in BOOLEAN /\ inboxWorker[w] \in I!WorkerStates
      BY <3>1 DEF I!InboxTypeOK
    <3>3. QED
      BY <3>2 DEF I!WorkerStates
  <2>2. inboxWorker' = [inboxWorker EXCEPT ![w] = [inboxWorker[w] EXCEPT !.step = "stamp", !.tidied = inboxStored[inboxWorker[w].mid] > 0]]
    BY <1>9 DEF I!Tidy, I!InboxTypeOK
  <2>3. inboxWorker' \in [InboxWorkers -> I!WorkerStates]
    BY <1>2, <2>1, <2>2
  <2>4. QED
    BY <1>9, <2>3 DEF I!Tidy, I!InboxTypeOK
<1>10. ASSUME NEW w \in InboxWorkers, I!Stamp(w) PROVE I!InboxTypeOK'
  <2>1. /\ inboxWorker[w].mid \in I!Mids /\ I!On(w) \in Replies /\ inboxReply[I!On(w)] \in I!ReplyRows
    BY <1>10, WorkerAt DEF I!Stamp
  <2>2. [inboxReply[I!On(w)] EXCEPT !.status = "sent", !.mid = inboxWorker[w].mid] \in I!ReplyRows
    BY <2>1 DEF I!ReplyRows
  <2>3. [inboxWorker[w] EXCEPT !.step = "retry"] \in I!WorkerStates
    BY DEF I!InboxTypeOK, I!WorkerStates
  <2>4. CASE I!Beaten(w)
    <3>1. inboxWorker' \in [InboxWorkers -> I!WorkerStates]
      BY <1>2, <1>10, <2>3, <2>4 DEF I!Stamp, I!InboxTypeOK
    <3>2. QED
      BY <1>10, <2>4, <3>1 DEF I!Stamp, I!InboxTypeOK
  <2>5. CASE ~I!Beaten(w)
    <3>1. inboxWorker' \in [InboxWorkers -> I!WorkerStates]
      BY <1>2, <1>3, <1>10, <2>5 DEF I!Stamp
    <3>2. inboxReply' = [inboxReply EXCEPT ![I!On(w)] = [inboxReply[I!On(w)] EXCEPT !.status = "sent", !.mid = inboxWorker[w].mid]]
      BY <1>10, <2>5 DEF I!Stamp, I!InboxTypeOK
    <3>3. inboxReply' \in [Replies -> I!ReplyRows]
      BY <1>1, <2>1, <2>2, <3>2
    <3>4. inboxStored' \in [I!Mids -> Nat]
      BY <1>10, <2>5 DEF I!Stamp, I!InboxTypeOK
    <3>5. QED
      BY <1>10, <3>1, <3>3, <3>4 DEF I!Stamp, I!InboxTypeOK
  <2>6. QED
    BY <2>4, <2>5
<1>11. ASSUME NEW w \in InboxWorkers, I!RecordFailure(w) PROVE I!InboxTypeOK'
  <2> DEFINE outcome == IF inboxWorker[w].step = "refused" \/ I!Spent(w) THEN "failed" ELSE "queued"
  <2>1. I!On(w) \in Replies /\ inboxReply[I!On(w)] \in I!ReplyRows
    BY <1>11, WorkerAt DEF I!RecordFailure
  <2>2. [inboxReply[I!On(w)] EXCEPT !.status = outcome] \in I!ReplyRows
    BY <2>1 DEF I!ReplyRows
  <2>3. inboxReply' = [inboxReply EXCEPT ![I!On(w)] = [inboxReply[I!On(w)] EXCEPT !.status = outcome]]
    BY <1>11 DEF I!RecordFailure, I!InboxTypeOK
  <2>4. inboxReply' \in [Replies -> I!ReplyRows]
    BY <1>1, <2>1, <2>2, <2>3
  <2>5. inboxWorker' \in [InboxWorkers -> I!WorkerStates]
    BY <1>2, <1>3, <1>11 DEF I!RecordFailure
  <2>6. QED
    BY <1>11, <2>4, <2>5 DEF I!RecordFailure, I!InboxTypeOK
<1>12. ASSUME NEW w \in InboxWorkers, I!Die(w) PROVE I!InboxTypeOK'
  <2>1. inboxWorker' \in [InboxWorkers -> I!WorkerStates]
    BY <1>2, <1>3, <1>12 DEF I!Die
  <2>2. inboxFaults' \in 0..MaxInboxFaults
    BY <1>12, InboxAssumption DEF I!Die, I!InboxTypeOK
  <2>3. QED
    BY <1>12, <2>1, <2>2 DEF I!Die, I!InboxTypeOK
<1>13. CASE UNCHANGED I!inboxVars
  BY <1>13 DEF I!inboxVars, I!InboxTypeOK
<1>14. QED
  BY <1>4, <1>5, <1>6, <1>7, <1>8, <1>9, <1>10, <1>11, <1>12, <1>13 DEF I!Next

(* What each step leaves of the replies and of the workers. *)
LEMMA FiledStep ==
  ASSUME I!InboxTypeOK, I!ThreadInv, [I!Next]_I!inboxVars
  PROVE  I!FiledOnce'
<1>1. CASE UNCHANGED inboxStored /\ \A r \in Replies : inboxReply'[r].mid = inboxReply[r].mid
  BY <1>1 DEF I!ThreadInv, I!FiledOnce
<1>2. ASSUME NEW h \in Handlers, I!Store(h) PROVE I!FiledOnce'
  <2>1. CASE I!OnFile(inboxHandler[h])
    BY <1>1, <1>2, <2>1 DEF I!Store
  <2>2. CASE ~I!OnFile(inboxHandler[h])
    <3>1. /\ inboxHandler[h] \in I!Mids
          /\ inboxStored' = [inboxStored EXCEPT ![inboxHandler[h]] = @ + 1] /\ UNCHANGED inboxReply
      BY <1>2, <2>2 DEF I!Store, I!InboxTypeOK
    <3>2. inboxStored[inboxHandler[h]] = 0 /\ \A r \in Replies : inboxReply[r].mid # inboxHandler[h]
      BY <2>2, <3>1 DEF I!OnFile, I!InboxTypeOK
    <3>3. \A m \in I!Mids : inboxStored'[m] <= 1 /\ (m # inboxHandler[h] => inboxStored'[m] = inboxStored[m])
      BY <3>1, <3>2 DEF I!ThreadInv, I!FiledOnce, I!InboxTypeOK
    <3>4. \A r \in Replies : inboxReply[r].mid \in I!Mids \cup {Nothing}
      BY DEF I!InboxTypeOK, I!ReplyRows
    <3>5. QED
      BY <3>1, <3>2, <3>3, <3>4 DEF I!ThreadInv, I!FiledOnce
  <2>3. QED
    BY <2>1, <2>2
<1>3. ASSUME NEW w \in InboxWorkers, I!Stamp(w) PROVE I!FiledOnce'
  <2>1. CASE I!Beaten(w)
    BY <1>1, <1>3, <2>1 DEF I!Stamp
  <2>2. CASE ~I!Beaten(w)
    <3> DEFINE r == I!On(w)
               m == inboxWorker[w].mid
    <3>1. r \in Replies /\ m \in I!Mids /\ m.of = r
      BY <1>3, WorkerAt DEF I!Stamp
    <3>2. /\ inboxStored' = [inboxStored EXCEPT ![m] = 0]
          /\ inboxReply' = [inboxReply EXCEPT ![r].status = "sent", ![r].mid = m]
      BY <1>3, <2>2 DEF I!Stamp
    <3>3. inboxReply'[r].mid = m /\ \A s \in Replies \ {r} : inboxReply'[s] = inboxReply[s]
      BY <3>1, <3>2 DEF I!InboxTypeOK, I!ReplyRows
    <3>4. inboxStored'[m] = 0 /\ \A n \in I!Mids \ {m} : inboxStored'[n] = inboxStored[n]
      BY <3>1, <3>2 DEF I!InboxTypeOK
    <3>5. \A s \in Replies : inboxReply[s].mid \in I!Mids \cup {Nothing}
      BY DEF I!InboxTypeOK, I!ReplyRows
    <3>6. \A s \in Replies : inboxReply'[s].mid = Nothing \/ (inboxReply'[s].mid.of = s /\ inboxStored'[inboxReply'[s].mid] = 0)
      BY <3>1, <3>3, <3>4, <3>5 DEF I!ThreadInv, I!FiledOnce
    <3>7. \A n \in I!Mids : inboxStored'[n] <= 1
      BY <3>4 DEF I!ThreadInv, I!FiledOnce
    <3>8. QED
      BY <3>6, <3>7 DEF I!FiledOnce
  <2>3. QED
    BY <2>1, <2>2
<1>4. ASSUME NEW r \in Replies, inboxReply' = [inboxReply EXCEPT ![r] = [@ EXCEPT !.status = "queued"]]
      PROVE  \A s \in Replies : inboxReply'[s].mid = inboxReply[s].mid
  BY <1>4 DEF I!InboxTypeOK, I!ReplyRows
<1>5. ASSUME NEW r \in Replies, I!QueueReply(r) \/ I!LeaseEnds(r) PROVE I!FiledOnce'
  <2>1. \A s \in Replies : inboxReply'[s].mid = inboxReply[s].mid
    BY <1>5 DEF I!QueueReply, I!LeaseEnds, I!InboxTypeOK, I!ReplyRows
  <2>2. QED
    BY <1>1, <1>5, <2>1 DEF I!QueueReply, I!LeaseEnds
<1>6. ASSUME NEW w \in InboxWorkers, NEW r \in Replies, I!Claim(w, r) PROVE I!FiledOnce'
  <2>1. \A s \in Replies : inboxReply'[s].mid = inboxReply[s].mid
    BY <1>6 DEF I!Claim, I!InboxTypeOK, I!ReplyRows
  <2>2. QED
    BY <1>1, <1>6, <2>1 DEF I!Claim
<1>7. ASSUME NEW w \in InboxWorkers, I!RecordFailure(w) PROVE I!FiledOnce'
  <2>1. \A s \in Replies : inboxReply'[s].mid = inboxReply[s].mid
    BY <1>7 DEF I!RecordFailure, I!InboxTypeOK, I!ReplyRows
  <2>2. QED
    BY <1>1, <1>7, <2>1 DEF I!RecordFailure
<1>8. CASE UNCHANGED <<inboxStored, inboxReply>>
  BY <1>1, <1>8
<1>9. QED
  BY <1>2, <1>3, <1>5, <1>6, <1>7, <1>8 DEF I!Next, I!Receive, I!SendReply, I!Tidy, I!Die, I!inboxVars

(* A worker at rest is at no reply. *)
LEMMA RestingIsNowhere ==
  /\ I!Resting.on = Nothing /\ I!Resting.step = "rest"
  /\ \A w \in InboxWorkers : inboxWorker[w] = I!Resting => \A r \in Replies : I!On(w) # r
BY InboxAssumption DEF I!Resting, I!On

(* One worker moves on at its reply, or leaves it: the others stay alone. *)
LEMMA OneWorkerMoves ==
  ASSUME I!InboxTypeOK, I!ThreadInv, NEW w \in InboxWorkers, NEW new, inboxWorker' = [inboxWorker EXCEPT ![w] = new],
         \A v \in InboxWorkers \ {w} : I!On(v) \in Replies => inboxReply'[I!On(v)] = inboxReply[I!On(v)],
         \/ new = I!Resting
         \/ /\ inboxWorker[w] # I!Resting /\ new.on = I!On(w) /\ UNCHANGED inboxReply
            /\ new.step \in {"tidy", "stamp"} => (new.mid \in I!Mids /\ new.mid.of = I!On(w))
  PROVE  I!WorkersApart'
<1>1. inboxWorker'[w] = new /\ \A v \in InboxWorkers \ {w} : inboxWorker'[v] = inboxWorker[v]
  BY DEF I!InboxTypeOK
<1>2. ASSUME NEW v \in InboxWorkers, inboxWorker'[v] # I!Resting
      PROVE  /\ inboxWorker'[v].on \in Replies /\ inboxReply'[inboxWorker'[v].on].status = "queued"
             /\ inboxReply'[inboxWorker'[v].on].leased
             /\ inboxWorker'[v].step \in {"tidy", "stamp"} =>
                  (inboxWorker'[v].mid \in I!Mids /\ inboxWorker'[v].mid.of = inboxWorker'[v].on)
             /\ \A u \in InboxWorkers \ {v} : inboxWorker'[u].on # inboxWorker'[v].on
  <2>1. inboxWorker[v] # I!Resting /\ inboxWorker'[v].on = inboxWorker[v].on
    BY <1>1, <1>2 DEF I!On
  <2>2. \A u \in InboxWorkers : inboxWorker'[u].on = inboxWorker[u].on \/ inboxWorker'[u].on = Nothing
    BY <1>1, RestingIsNowhere DEF I!On
  <2>3. /\ inboxWorker[v].on \in Replies /\ inboxReply[inboxWorker[v].on].status = "queued"
        /\ inboxReply[inboxWorker[v].on].leased
        /\ inboxWorker[v].step \in {"tidy", "stamp"} =>
             (inboxWorker[v].mid \in I!Mids /\ inboxWorker[v].mid.of = inboxWorker[v].on)
        /\ \A u \in InboxWorkers \ {v} : inboxWorker[u].on # inboxWorker[v].on
    BY <2>1 DEF I!ThreadInv, I!WorkersApart, I!On
  <2>4. inboxReply'[inboxWorker[v].on] = inboxReply[inboxWorker[v].on]
    <3>1. CASE v = w
      BY <1>1, <1>2, <3>1
    <3>2. CASE v # w
      BY <2>3, <3>2 DEF I!On
    <3>3. QED
      BY <3>1, <3>2
  <2>5. inboxWorker'[v].step \in {"tidy", "stamp"} =>
          (inboxWorker'[v].mid \in I!Mids /\ inboxWorker'[v].mid.of = inboxWorker'[v].on)
    BY <1>1, <1>2, <2>1, <2>3 DEF I!On
  <2>6. \A u \in InboxWorkers \ {v} : inboxWorker'[u].on # inboxWorker'[v].on
    BY <2>1, <2>2, <2>3, InboxAssumption
  <2>7. QED
    BY <2>1, <2>3, <2>4, <2>5, <2>6
<1>3. QED
  BY <1>2 DEF I!WorkersApart, I!On

LEMMA ApartStep ==
  ASSUME I!InboxTypeOK, I!ThreadInv, [I!Next]_I!inboxVars
  PROVE  I!WorkersApart'
<1>1. ASSUME NEW r \in Replies, UNCHANGED inboxWorker, \A s \in Replies \ {r} : inboxReply'[s] = inboxReply[s],
             \A w \in InboxWorkers : I!On(w) # r
      PROVE  I!WorkersApart'
  BY <1>1 DEF I!ThreadInv, I!WorkersApart, I!On
<1>2. ASSUME NEW r \in Replies, I!QueueReply(r) \/ I!LeaseEnds(r) PROVE I!WorkersApart'
  <2>1. \A w \in InboxWorkers : I!On(w) # r
    <3>1. CASE I!LeaseEnds(r)
      BY <3>1 DEF I!LeaseEnds
    <3>2. CASE I!QueueReply(r)
      BY <3>2, RestingIsNowhere DEF I!QueueReply, I!ThreadInv, I!WorkersApart
    <3>3. QED
      BY <1>2, <3>1, <3>2
  <2>2. UNCHANGED inboxWorker /\ \A s \in Replies \ {r} : inboxReply'[s] = inboxReply[s]
    BY <1>2 DEF I!QueueReply, I!LeaseEnds, I!InboxTypeOK
  <2>3. QED
    BY <1>1, <2>1, <2>2
<1>3. ASSUME NEW w \in InboxWorkers, NEW r \in Replies, I!Claim(w, r) PROVE I!WorkersApart'
  <2>1. \A v \in InboxWorkers : I!On(v) # r
    BY <1>3, RestingIsNowhere DEF I!Claim, I!ThreadInv, I!WorkersApart
  <2>2. /\ \A s \in Replies \ {r} : inboxReply'[s] = inboxReply[s]
        /\ inboxReply'[r].status = "queued" /\ inboxReply'[r].leased
    BY <1>3 DEF I!Claim, I!InboxTypeOK, I!ReplyRows
  <2>3. /\ inboxWorker'[w].on = r /\ inboxWorker'[w].step = "send"
        /\ \A v \in InboxWorkers \ {w} : inboxWorker'[v] = inboxWorker[v]
    BY <1>3 DEF I!Claim, I!InboxTypeOK, I!Resting
  <2>4. inboxWorker[w].on = Nothing
    BY <1>3, RestingIsNowhere DEF I!Claim
  <2>5. ASSUME NEW v \in InboxWorkers, inboxWorker'[v] # I!Resting
        PROVE  /\ inboxWorker'[v].on \in Replies /\ inboxReply'[inboxWorker'[v].on].status = "queued"
               /\ inboxReply'[inboxWorker'[v].on].leased
               /\ inboxWorker'[v].step \in {"tidy", "stamp"} =>
                    (inboxWorker'[v].mid \in I!Mids /\ inboxWorker'[v].mid.of = inboxWorker'[v].on)
               /\ \A u \in InboxWorkers \ {v} : inboxWorker'[u].on # inboxWorker'[v].on
    <3>1. CASE v = w
      BY <2>1, <2>2, <2>3, <3>1 DEF I!On
    <3>2. CASE v # w
      <4>1. /\ inboxWorker[v].on \in Replies /\ inboxReply[inboxWorker[v].on].status = "queued"
            /\ inboxReply[inboxWorker[v].on].leased
            /\ inboxWorker[v].step \in {"tidy", "stamp"} =>
                 (inboxWorker[v].mid \in I!Mids /\ inboxWorker[v].mid.of = inboxWorker[v].on)
            /\ \A u \in InboxWorkers \ {v} : inboxWorker[u].on # inboxWorker[v].on
        BY <2>3, <2>5, <3>2 DEF I!ThreadInv, I!WorkersApart, I!On
      <4>2. inboxWorker[v].on # r
        BY <2>1 DEF I!On
      <4>3. QED
        BY <2>2, <2>3, <3>2, <4>1, <4>2
    <3>3. QED
      BY <3>1, <3>2
  <2>6. QED
    BY <2>5 DEF I!WorkersApart, I!On
<1>4. ASSUME NEW w \in InboxWorkers, I!SendReply(w) PROVE I!WorkersApart'
  <2> DEFINE m == [of |-> I!On(w), nth |-> inboxReply[I!On(w)].attempts]
  <2>1. m \in I!Mids /\ m.of = I!On(w) /\ inboxWorker[w] # I!Resting
    BY <1>4, WorkerAt, RestingIsNowhere DEF I!SendReply, I!Mids, I!ReplyRows
  <2>2. PICK new : /\ inboxWorker' = [inboxWorker EXCEPT ![w] = new]
                   /\ new.on = I!On(w) /\ (new.step \in {"tidy", "stamp"} => new.mid = m)
    <3>1. inboxWorker[w] \in I!WorkerStates
      BY DEF I!InboxTypeOK
    <3>2. \/ inboxWorker' = [inboxWorker EXCEPT ![w] = [inboxWorker[w] EXCEPT !.step = "tidy", !.mid = m]]
          \/ \E s \in {"retry", "refused"} : inboxWorker' = [inboxWorker EXCEPT ![w] = [inboxWorker[w] EXCEPT !.step = s]]
      BY <1>4 DEF I!SendReply, I!InboxTypeOK
    <3>3. /\ [inboxWorker[w] EXCEPT !.step = "tidy", !.mid = m].on = I!On(w)
          /\ [inboxWorker[w] EXCEPT !.step = "tidy", !.mid = m].mid = m
          /\ \A s \in {"retry", "refused"} : /\ [inboxWorker[w] EXCEPT !.step = s].on = I!On(w)
                                             /\ [inboxWorker[w] EXCEPT !.step = s].step = s
      BY <3>1 DEF I!WorkerStates, I!On
    <3>4. QED
      BY <3>2, <3>3
  <2>3. UNCHANGED inboxReply
    BY <1>4 DEF I!SendReply
  <2>4. QED
    BY <2>1, <2>2, <2>3, OneWorkerMoves
<1>5. ASSUME NEW w \in InboxWorkers, I!Tidy(w) PROVE I!WorkersApart'
  <2> DEFINE new == [inboxWorker[w] EXCEPT !.step = "stamp", !.tidied = inboxStored[inboxWorker[w].mid] > 0]
  <2>1. /\ inboxWorker' = [inboxWorker EXCEPT ![w] = new] /\ new.on = I!On(w) /\ new.mid = inboxWorker[w].mid
    <3>1. inboxWorker[w] \in I!WorkerStates
      BY DEF I!InboxTypeOK
    <3>2. new.on = inboxWorker[w].on /\ new.mid = inboxWorker[w].mid
      BY <3>1 DEF I!WorkerStates
    <3>3. inboxWorker' = [inboxWorker EXCEPT ![w] = new]
      BY <1>5 DEF I!Tidy, I!InboxTypeOK
    <3>4. QED
      BY <3>2, <3>3 DEF I!On
  <2>2. inboxWorker[w].mid \in I!Mids /\ inboxWorker[w].mid.of = I!On(w) /\ inboxWorker[w] # I!Resting
    BY <1>5, WorkerAt, RestingIsNowhere DEF I!Tidy
  <2>3. UNCHANGED inboxReply
    BY <1>5 DEF I!Tidy
  <2>4. QED
    BY <2>1, <2>2, <2>3, OneWorkerMoves
<1>6. ASSUME NEW w \in InboxWorkers, I!Stamp(w) PROVE I!WorkersApart'
  <2>1. CASE I!Beaten(w)
    <3> DEFINE new == [inboxWorker[w] EXCEPT !.step = "retry"]
    <3>1. /\ inboxWorker' = [inboxWorker EXCEPT ![w] = new] /\ new.on = I!On(w) /\ new.step = "retry"
      <4>1. inboxWorker[w] \in I!WorkerStates
        BY DEF I!InboxTypeOK
      <4>2. new.on = inboxWorker[w].on /\ new.step = "retry"
        BY <4>1 DEF I!WorkerStates
      <4>3. inboxWorker' = [inboxWorker EXCEPT ![w] = new]
        BY <1>6, <2>1 DEF I!Stamp, I!InboxTypeOK
      <4>4. QED
        BY <4>2, <4>3 DEF I!On
    <3>2. UNCHANGED inboxReply /\ inboxWorker[w] # I!Resting
      BY <1>6, <2>1, RestingIsNowhere DEF I!Stamp
    <3>3. QED
      BY <3>1, <3>2, OneWorkerMoves
  <2>2. CASE ~I!Beaten(w)
    <3>1. \A v \in InboxWorkers \ {w} : I!On(v) # I!On(w)
      BY <1>6, WorkerAt DEF I!Stamp
    <3>2. inboxWorker' = [inboxWorker EXCEPT ![w] = I!Resting]
          /\ \A r \in Replies : r # I!On(w) => inboxReply'[r] = inboxReply[r]
      BY <1>6, <2>2 DEF I!Stamp, I!InboxTypeOK
    <3>3. QED
      BY <3>1, <3>2, OneWorkerMoves
  <2>3. QED
    BY <2>1, <2>2
<1>7. ASSUME NEW w \in InboxWorkers, I!RecordFailure(w) PROVE I!WorkersApart'
  <2>1. \A v \in InboxWorkers \ {w} : I!On(v) # I!On(w)
    BY <1>7, WorkerAt DEF I!RecordFailure
  <2>2. inboxWorker' = [inboxWorker EXCEPT ![w] = I!Resting]
        /\ \A r \in Replies : r # I!On(w) => inboxReply'[r] = inboxReply[r]
    BY <1>7 DEF I!RecordFailure, I!InboxTypeOK
  <2>3. QED
    BY <2>1, <2>2, OneWorkerMoves
<1>8. ASSUME NEW w \in InboxWorkers, I!Die(w) PROVE I!WorkersApart'
  BY <1>8, OneWorkerMoves DEF I!Die
<1>9. CASE UNCHANGED <<inboxReply, inboxWorker>>
  BY <1>9 DEF I!ThreadInv, I!WorkersApart, I!On
<1>10. QED
  BY <1>2, <1>3, <1>4, <1>5, <1>6, <1>7, <1>8, <1>9 DEF I!Next, I!Receive, I!Store, I!inboxVars

LEMMA AttemptsStep ==
  ASSUME I!InboxTypeOK, I!ThreadInv, [I!Next]_I!inboxVars
  PROVE  I!AttemptsLeft'
<1> USE InboxAssumption
<1>1. inboxFaults \in Nat /\ \A r \in Replies : inboxReply[r].attempts \in Nat
  BY DEF I!InboxTypeOK, I!ReplyRows
(* Nothing changes but who is at a reply, or how many faults there were. *)
<1>2. ASSUME UNCHANGED inboxReply, inboxFaults' \in Nat, inboxFaults' >= inboxFaults,
             \A w \in InboxWorkers : I!On(w) \in Replies => \/ inboxWorker'[w].on = inboxWorker[w].on
                                                            \/ inboxFaults' > inboxFaults
      PROVE  I!AttemptsLeft'
  BY <1>1, <1>2 DEF I!ThreadInv, I!AttemptsLeft, I!On
(* One reply changes. *)
<1>3. ASSUME NEW r \in Replies, \A s \in Replies \ {r} : inboxReply'[s] = inboxReply[s], UNCHANGED inboxFaults,
             \A w \in InboxWorkers : I!On(w) \in Replies \ {r} => inboxWorker'[w].on = inboxWorker[w].on,
             inboxReply'[r].attempts <= MaxReplyAttempts + inboxFaults,
             inboxReply'[r].status = "none" => inboxReply'[r].attempts = 0,
             \/ inboxReply'[r].status # "queued" \/ inboxReply'[r].attempts < MaxReplyAttempts + inboxFaults
             \/ \E w \in InboxWorkers : inboxWorker'[w].on = r
      PROVE  I!AttemptsLeft'
  BY <1>3 DEF I!ThreadInv, I!AttemptsLeft, I!On
<1>4. ASSUME NEW r \in Replies, I!QueueReply(r) \/ I!LeaseEnds(r) PROVE I!AttemptsLeft'
  <2>1. /\ inboxReply'[r].attempts = inboxReply[r].attempts
        /\ \A s \in Replies \ {r} : inboxReply'[s] = inboxReply[s]
        /\ UNCHANGED <<inboxWorker, inboxFaults>>
    BY <1>4 DEF I!QueueReply, I!LeaseEnds, I!InboxTypeOK, I!ReplyRows
  <2>2. CASE I!QueueReply(r)
    <3>1. inboxReply'[r].status = "queued" /\ inboxReply[r].status = "none"
      BY <2>2 DEF I!QueueReply, I!InboxTypeOK, I!ReplyRows
    <3>2. inboxReply[r].attempts = 0
      BY <3>1 DEF I!ThreadInv, I!AttemptsLeft
    <3>3. QED
      BY <1>1, <1>3, <2>1, <3>1, <3>2
  <2>3. CASE I!LeaseEnds(r)
    <3>1. inboxReply'[r].status = inboxReply[r].status
      BY <2>3 DEF I!LeaseEnds, I!InboxTypeOK, I!ReplyRows
    <3>2. QED
      BY <1>1, <1>3, <2>1, <3>1 DEF I!ThreadInv, I!AttemptsLeft, I!On
  <2>4. QED
    BY <1>4, <2>2, <2>3
<1>5. ASSUME NEW w \in InboxWorkers, NEW r \in Replies, I!Claim(w, r) PROVE I!AttemptsLeft'
  <2>1. \A v \in InboxWorkers : I!On(v) # r
    BY <1>5, RestingIsNowhere DEF I!Claim, I!ThreadInv, I!WorkersApart
  <2>2. inboxReply[r].attempts < MaxReplyAttempts + inboxFaults
    BY <1>5, <2>1 DEF I!Claim, I!ThreadInv, I!AttemptsLeft
  <2>3. /\ \A s \in Replies \ {r} : inboxReply'[s] = inboxReply[s]
        /\ inboxReply'[r].status = "queued" /\ inboxReply'[r].attempts = inboxReply[r].attempts + 1
    BY <1>5 DEF I!Claim, I!InboxTypeOK, I!ReplyRows
  <2>4. inboxWorker'[w].on = r /\ \A v \in InboxWorkers \ {w} : inboxWorker'[v] = inboxWorker[v]
    BY <1>5 DEF I!Claim, I!InboxTypeOK, I!Resting
  <2>5. I!On(w) = Nothing /\ UNCHANGED inboxFaults
    BY <1>5, RestingIsNowhere DEF I!Claim, I!On
  <2>6. inboxReply'[r].attempts <= MaxReplyAttempts + inboxFaults
    BY <1>1, <2>2, <2>3
  <2>7. \A v \in InboxWorkers : I!On(v) \in Replies \ {r} => inboxWorker'[v].on = inboxWorker[v].on
    BY <2>4, <2>5
  <2>8. QED
    BY <1>3, <2>3, <2>4, <2>5, <2>6, <2>7
<1>6. ASSUME NEW w \in InboxWorkers, I!SendReply(w) \/ I!Tidy(w) PROVE I!AttemptsLeft'
  <2>1. \A v \in InboxWorkers : inboxWorker'[v].on = inboxWorker[v].on
    BY <1>6 DEF I!SendReply, I!Tidy, I!InboxTypeOK, I!WorkerStates
  <2>2. UNCHANGED inboxReply /\ inboxFaults' \in Nat /\ inboxFaults' >= inboxFaults
    BY <1>1, <1>6 DEF I!SendReply, I!Tidy
  <2>3. QED
    BY <1>2, <2>1, <2>2
<1>7. ASSUME NEW w \in InboxWorkers, I!Stamp(w) PROVE I!AttemptsLeft'
  <2>1. CASE I!Beaten(w)
    <3>1. \A v \in InboxWorkers : inboxWorker'[v].on = inboxWorker[v].on
      BY <1>7, <2>1 DEF I!Stamp, I!InboxTypeOK, I!WorkerStates
    <3>2. QED
      BY <1>1, <1>2, <1>7, <2>1, <3>1 DEF I!Stamp
  <2>2. CASE ~I!Beaten(w)
    <3> DEFINE r == I!On(w)
    <3>1. r \in Replies
      BY <1>7, WorkerAt DEF I!Stamp
    <3>2. /\ inboxReply'[r].status = "sent" /\ inboxReply'[r].attempts = inboxReply[r].attempts
          /\ \A s \in Replies \ {r} : inboxReply'[s] = inboxReply[s]
      BY <1>7, <2>2, <3>1 DEF I!Stamp, I!InboxTypeOK, I!ReplyRows
    <3>3. UNCHANGED inboxFaults /\ \A v \in InboxWorkers : I!On(v) \in Replies \ {r} => inboxWorker'[v].on = inboxWorker[v].on
      BY <1>7, <2>2 DEF I!Stamp, I!InboxTypeOK
    <3>4. QED
      BY <1>3, <3>1, <3>2, <3>3 DEF I!ThreadInv, I!AttemptsLeft
  <2>3. QED
    BY <2>1, <2>2
<1>8. ASSUME NEW w \in InboxWorkers, I!RecordFailure(w) PROVE I!AttemptsLeft'
  <2> DEFINE r == I!On(w)
  <2>1. r \in Replies
    BY <1>8, WorkerAt DEF I!RecordFailure
  <2>2. /\ inboxReply'[r].status = IF inboxWorker[w].step = "refused" \/ I!Spent(w) THEN "failed" ELSE "queued"
        /\ inboxReply'[r].attempts = inboxReply[r].attempts
        /\ \A s \in Replies \ {r} : inboxReply'[s] = inboxReply[s]
    BY <1>8, <2>1 DEF I!RecordFailure, I!InboxTypeOK, I!ReplyRows
  <2>3. UNCHANGED inboxFaults /\ \A v \in InboxWorkers : I!On(v) \in Replies \ {r} => inboxWorker'[v].on = inboxWorker[v].on
    BY <1>8 DEF I!RecordFailure, I!InboxTypeOK
  <2>4. inboxReply'[r].status # "queued" \/ inboxReply[r].attempts < MaxReplyAttempts
    BY <1>1, <2>1, <2>2 DEF I!Spent
  <2>5. inboxReply'[r].attempts <= MaxReplyAttempts + inboxFaults
    BY <2>1, <2>2 DEF I!ThreadInv, I!AttemptsLeft
  <2>6. inboxReply'[r].status # "queued" \/ inboxReply'[r].attempts < MaxReplyAttempts + inboxFaults
    BY <1>1, <2>1, <2>2, <2>4
  <2>7. inboxReply'[r].status # "none"
    BY <2>2
  <2>8. QED
    BY <1>3, <2>1, <2>2, <2>3, <2>5, <2>6, <2>7
<1>9. ASSUME NEW w \in InboxWorkers, I!Die(w) PROVE I!AttemptsLeft'
  <2>1. UNCHANGED inboxReply /\ inboxFaults' \in Nat /\ inboxFaults' > inboxFaults
    BY <1>1, <1>9 DEF I!Die
  <2>2. QED
    BY <1>1, <1>2, <2>1
<1>10. CASE UNCHANGED <<inboxReply, inboxWorker, inboxFaults>>
  BY <1>1, <1>2, <1>10
<1>11. QED
  BY <1>4, <1>5, <1>6, <1>7, <1>8, <1>9, <1>10 DEF I!Next, I!Receive, I!Store, I!inboxVars

(* The window moves on by what the customer wrote, never back. *)
LEMMA WindowOpens ==
  ASSUME I!InboxTypeOK, [I!Next]_I!inboxVars
  PROVE  inboxWindow' >= inboxWindow
<1>1. inboxWindow \in Nat
  BY InboxAssumption DEF I!InboxTypeOK
<1>2. ASSUME NEW h \in Handlers, I!Store(h) PROVE inboxWindow' >= inboxWindow
  <2>1. I!FromCustomer(inboxHandler[h]) => inboxHandler[h].of \in Nat
    BY InboxAssumption DEF I!FromCustomer
  <2>2. inboxWindow' = inboxWindow \/ (I!FromCustomer(inboxHandler[h]) /\ inboxWindow' = I!Greatest(inboxWindow, inboxHandler[h].of))
    BY <1>2 DEF I!Store
  <2>3. QED
    BY <1>1, <2>1, <2>2 DEF I!Greatest
<1>3. CASE UNCHANGED inboxWindow
  BY <1>1, <1>3
<1>4. QED
  BY <1>2, <1>3 DEF I!Next, I!Receive, I!QueueReply, I!LeaseEnds, I!Claim, I!SendReply, I!Tidy, I!Stamp,
     I!RecordFailure, I!Die, I!inboxVars

LEMMA OneCopy ==
  I!InboxTypeOK /\ I!FiledOnce => \A m \in I!Mids : I!Copies(m) <= 1
<1> SUFFICES ASSUME I!InboxTypeOK, I!FiledOnce, NEW m \in I!Mids
             PROVE  I!Copies(m) <= 1
  OBVIOUS
<1> DEFINE rows == {r \in Replies : inboxReply[r].mid = m}
<1>1. inboxStored[m] \in Nat /\ inboxStored[m] <= 1
  BY DEF I!InboxTypeOK, I!FiledOnce
<1>0. I!Copies(m) = inboxStored[m] + Cardinality(rows)
  BY SameCardinality, Zenon DEF I!Copies
<1>2. CASE rows = {}
  <2>1. Cardinality(rows) = 0
    BY <1>2, FS_EmptySet
  <2>2. QED
    BY <1>0, <1>1, <2>1
<1>3. CASE rows # {}
  <2>1. \A r \in rows : r = m.of /\ inboxStored[m] = 0
    BY InboxAssumption DEF I!FiledOnce
  <2>2. rows = {m.of}
    BY <1>3, <2>1
  <2>3. Cardinality(rows) = 1
    BY <2>2, FS_Singleton
  <2>4. QED
    BY <1>0, <1>3, <2>1, <2>3
<1>4. QED
  BY <1>2, <1>3

(* Messages, replies and those who handle them keep their types            *)
(* (services/metaMessaging.ts).                                            *)
THEOREM InboxStaysTyped == I!Spec => []I!InboxTypeOK
<1>1. I!InboxTypeOK /\ I!ThreadInv /\ [I!Next]_I!inboxVars => I!InboxTypeOK' /\ I!ThreadInv'
  BY InboxTyped, FiledStep, ApartStep, AttemptsStep DEF I!ThreadInv
<1>2. QED
  BY <1>1, InboxStarts, PTL DEF I!Spec

(* However often Meta delivers or echoes a message, and whenever a worker  *)
(* stamps it, the thread has it once, and the window to reply in is never  *)
(* pulled back (metaMessaging.ts).                                         *)
THEOREM ThreadKept == I!Spec => [][I!ThreadWhole]_I!inboxVars
<1>1. I!Init => I!InboxTypeOK /\ I!ThreadInv
  BY InboxStarts
<1>2. I!InboxTypeOK /\ I!ThreadInv /\ [I!Next]_I!inboxVars => I!InboxTypeOK' /\ I!ThreadInv' /\ I!ThreadWhole
  <2> SUFFICES ASSUME I!InboxTypeOK, I!ThreadInv, [I!Next]_I!inboxVars
               PROVE  I!InboxTypeOK' /\ I!ThreadInv' /\ I!ThreadWhole
    OBVIOUS
  <2>1. I!InboxTypeOK' /\ I!FiledOnce' /\ I!ThreadInv'
    BY InboxTyped, FiledStep, ApartStep, AttemptsStep DEF I!ThreadInv
  <2>2. (I!InboxTypeOK /\ I!FiledOnce => \A m \in I!Mids : I!Copies(m) <= 1)'
    BY OneCopy, PTL
  <2>3. inboxWindow' >= inboxWindow
    BY WindowOpens
  <2>4. QED
    BY <2>1, <2>2, <2>3 DEF I!ThreadWhole
<1>3. QED
  BY <1>1, <1>2, PTL DEF I!Spec

-----------------------------------------------------------------------------
(* The tab of the console (Tab). *)
(* The tab counts its loads as Cardinality does. *)
LEMMA CountedAlike == \A S : (T!IsFiniteSet(S) <=> IsFiniteSet(S)) /\ T!Cardinality(S) = Cardinality(S)
BY DEF T!IsFiniteSet, IsFiniteSet, T!Cardinality, Cardinality

(* Short sequences. *)
LEMMA OneAndOne == \A a, b : <<a>> \o <<b>> = <<a, b>>
<1> TAKE a, b
<1> DEFINE S == {a, b}
<1>1. <<a>> \in Seq(S) /\ <<b>> \in Seq(S) /\ <<a, b>> \in Seq(S)
  OBVIOUS
<1>2. <<a>> \o <<b>> \in Seq(S) /\ Len(<<a>> \o <<b>>) = 2 /\ Len(<<a, b>>) = 2
  BY <1>1
<1>3. \A i \in 1..2 : (<<a>> \o <<b>>)[i] = <<a, b>>[i]
  BY <1>1
<1>4. QED
  BY <1>1, <1>2, <1>3, SeqEqual

LEMMA OneAndTwo == \A a, b, c : <<a>> \o <<b, c>> = <<a, b, c>>
<1> TAKE a, b, c
<1> DEFINE S == {a, b, c}
<1>1. <<a>> \in Seq(S) /\ <<b, c>> \in Seq(S) /\ <<a, b, c>> \in Seq(S)
  OBVIOUS
<1>2. <<a>> \o <<b, c>> \in Seq(S) /\ Len(<<a>> \o <<b, c>>) = 3 /\ Len(<<a, b, c>>) = 3
  BY <1>1
<1>3. \A i \in 1..3 : (<<a>> \o <<b, c>>)[i] = <<a, b, c>>[i]
  BY <1>1
<1>4. QED
  BY <1>1, <1>2, <1>3, SeqEqual

LEMMA TwoAndTwo == \A a, b, c, d : <<a, b>> \o <<c, d>> = <<a, b, c, d>>
<1> TAKE a, b, c, d
<1> DEFINE S == {a, b, c, d}
<1>1. <<a, b>> \in Seq(S) /\ <<c, d>> \in Seq(S) /\ <<a, b, c, d>> \in Seq(S)
  OBVIOUS
<1>2. <<a, b>> \o <<c, d>> \in Seq(S) /\ Len(<<a, b>> \o <<c, d>>) = 4 /\ Len(<<a, b, c, d>>) = 4
  BY <1>1
<1>3. \A i \in 1..4 : (<<a, b>> \o <<c, d>>)[i] = <<a, b, c, d>>[i]
  BY <1>1
<1>4. QED
  BY <1>1, <1>2, <1>3, SeqEqual

LEMMA ThreeAndOne == \A a, b, c, d : <<a, b, c>> \o <<d>> = <<a, b, c, d>>
<1> TAKE a, b, c, d
<1> DEFINE S == {a, b, c, d}
<1>1. <<a, b, c>> \in Seq(S) /\ <<d>> \in Seq(S) /\ <<a, b, c, d>> \in Seq(S)
  OBVIOUS
<1>2. <<a, b, c>> \o <<d>> \in Seq(S) /\ Len(<<a, b, c>> \o <<d>>) = 4 /\ Len(<<a, b, c, d>>) = 4
  BY <1>1
<1>3. \A i \in 1..4 : (<<a, b, c>> \o <<d>>)[i] = <<a, b, c, d>>[i]
  BY <1>1
<1>4. QED
  BY <1>1, <1>2, <1>3, SeqEqual

LEMMA FourAndOne == \A a, b, c, d, e : <<a, b, c, d>> \o <<e>> = <<a, b, c, d, e>>
<1> TAKE a, b, c, d, e
<1> DEFINE S == {a, b, c, d, e}
<1>1. <<a, b, c, d>> \in Seq(S) /\ <<e>> \in Seq(S) /\ <<a, b, c, d, e>> \in Seq(S)
  OBVIOUS
<1>2. <<a, b, c, d>> \o <<e>> \in Seq(S) /\ Len(<<a, b, c, d>> \o <<e>>) = 5 /\ Len(<<a, b, c, d, e>>) = 5
  BY <1>1
<1>3. \A i \in 1..5 : (<<a, b, c, d>> \o <<e>>)[i] = <<a, b, c, d, e>>[i]
  BY <1>1
<1>4. QED
  BY <1>1, <1>2, <1>3, SeqEqual

(* What the table of screens says: a submission has a request, and the     *)
(* form of a new customer is the only one on its screen.                   *)
Whole(c) ==
  /\ \A o \in c.offers : o # <<>>
  /\ c.on = "AddCustomer" => c.offers \subseteq T!Making

LEMMA ComponentSays ==
  ASSUME NEW on, NEW who, NEW loads, NEW offers, NEW c \in T!Component(on, who, loads, offers)
  PROVE  c.on = on /\ c.who = who /\ c.offers = offers
BY DEF T!Component

LEMMA NothingWhole ==
  ASSUME NEW on, NEW who, NEW loads, NEW c \in T!Component(on, who, loads, {})
  PROVE  Whole(c)
BY ComponentSays DEF Whole

LEMMA EachWhole ==
  ASSUME NEW on, on # "AddCustomer", NEW who, NEW loads, NEW ops, NEW c \in T!Component(on, who, loads, T!Each(ops))
  PROVE  Whole(c)
<1>1. \A o \in T!Each(ops) : o # <<>>
  BY DEF T!Each
<1>2. QED
  BY <1>1, ComponentSays DEF Whole

LEMMA UploadWhole ==
  ASSUME NEW on, on # "AddCustomer", NEW who, NEW loads, NEW o, NEW c \in T!Component(on, who, loads, {T!Uploading(o)})
  PROVE  Whole(c)
<1>1. T!Uploading(o) # <<>>
  BY DEF T!Uploading
<1>2. QED
  BY <1>1, ComponentSays DEF Whole

LEMMA PlainWhole ==
  \A c \in T!Sign \cup T!SignByLink \cup T!Login \cup T!CorporateDashboard \cup T!SalesDashboard \cup
           T!OperatorDashboard \cup T!Account \cup T!StormMap \cup T!Leads \cup T!LeadsMap \cup T!NewKnock \cup
           T!ExistingPin \cup T!Customers \cup T!NewLeadForm \cup T!AddCustomer \cup T!CustomerSummary \cup
           T!InvoicesCard \cup T!NewInvoiceDialog \cup T!SmsCard \cup T!SmsCompose \cup T!NotesCard \cup
           T!AddressesSection \cup T!ServiceInfoDialog \cup T!ContractForm \cup T!AgreementForm \cup
           T!ReferrerPicker \cup T!AgreementSign \cup T!ElectronicSigning \cup T!PaperUpload \cup T!AfterSigning \cup
           T!EmailForSignature \cup T!QuoteDetail \cup T!EmailQuotePanel \cup T!SignaturePanel \cup T!Contracts \cup
           T!ContractDetail \cup T!CardSection \cup T!WorkOrders \cup T!NewVisitForm \cup T!WorkOrderDetail \cup
           T!PhotoForm \cup T!Operators \cup T!OperatorDetail \cup T!UploadPanel \cup T!Invoices \cup
           T!InvoiceDetail \cup T!EmailInvoice \cup T!PayLink \cup T!Reports \cup T!Admin \cup T!BranchCard \cup
           T!ContractLists \cup T!LookupEditor \cup T!Settings \cup T!Integration \cup T!PaymentTest \cup T!SmsTest \cup
           T!Weather \cup T!ForecastCheck \cup T!Financials \cup T!Projections \cup T!Bookkeeping \cup
           T!MonthlyClose \cup T!DocumentUpload \cup T!TotalsForm \cup T!RowActions \cup T!ExportDialog \cup
           T!ColdEmail \cup T!AddOptIn \cup T!LeadDialog : Whole(c)
<1>1. \A c \in T!Sign \cup T!SignByLink \cup T!Login \cup T!CorporateDashboard \cup T!SalesDashboard \cup
               T!OperatorDashboard \cup T!Account \cup T!StormMap : Whole(c)
  BY NothingWhole, EachWhole, UploadWhole DEF T!Sign, T!SignByLink, T!Login, T!CorporateDashboard, T!SalesDashboard,
                                              T!OperatorDashboard, T!Account, T!StormMap
<1>2. \A c \in T!Leads \cup T!LeadsMap \cup T!NewKnock \cup T!ExistingPin \cup T!Customers \cup T!NewLeadForm \cup
               T!AddCustomer \cup T!CustomerSummary : Whole(c)
  BY NothingWhole, EachWhole, UploadWhole DEF T!Leads, T!LeadsMap, T!NewKnock, T!ExistingPin, T!Customers,
                                              T!NewLeadForm, T!AddCustomer, T!CustomerSummary
<1>3. \A c \in T!InvoicesCard \cup T!NewInvoiceDialog \cup T!SmsCard \cup T!SmsCompose \cup T!NotesCard \cup
               T!AddressesSection \cup T!ServiceInfoDialog \cup T!ContractForm : Whole(c)
  BY NothingWhole, EachWhole, UploadWhole DEF T!InvoicesCard, T!NewInvoiceDialog, T!SmsCard, T!SmsCompose,
                                              T!NotesCard, T!AddressesSection, T!ServiceInfoDialog, T!ContractForm
<1>4. \A c \in T!AgreementForm \cup T!ReferrerPicker \cup T!AgreementSign \cup T!ElectronicSigning \cup
               T!PaperUpload \cup T!AfterSigning \cup T!EmailForSignature \cup T!QuoteDetail : Whole(c)
  BY NothingWhole, EachWhole, UploadWhole DEF T!AgreementForm, T!ReferrerPicker, T!AgreementSign,
                                              T!ElectronicSigning, T!PaperUpload, T!AfterSigning,
                                              T!EmailForSignature, T!QuoteDetail
<1>5. \A c \in T!EmailQuotePanel \cup T!SignaturePanel \cup T!Contracts \cup T!ContractDetail \cup T!CardSection \cup
               T!WorkOrders \cup T!NewVisitForm \cup T!WorkOrderDetail : Whole(c)
  BY NothingWhole, EachWhole, UploadWhole DEF T!EmailQuotePanel, T!SignaturePanel, T!Contracts, T!ContractDetail,
                                              T!CardSection, T!WorkOrders, T!NewVisitForm, T!WorkOrderDetail
<1>6. \A c \in T!PhotoForm \cup T!Operators \cup T!OperatorDetail \cup T!UploadPanel \cup T!Invoices \cup
               T!InvoiceDetail \cup T!EmailInvoice \cup T!PayLink : Whole(c)
  BY NothingWhole, EachWhole, UploadWhole DEF T!PhotoForm, T!Operators, T!OperatorDetail, T!UploadPanel, T!Invoices,
                                              T!InvoiceDetail, T!EmailInvoice, T!PayLink
<1>7. \A c \in T!Reports \cup T!Admin \cup T!BranchCard \cup T!ContractLists \cup T!LookupEditor \cup T!Settings \cup
               T!Integration \cup T!PaymentTest : Whole(c)
  BY NothingWhole, EachWhole, UploadWhole DEF T!Reports, T!Admin, T!BranchCard, T!ContractLists, T!LookupEditor,
                                              T!Settings, T!Integration, T!PaymentTest
<1>8. \A c \in T!SmsTest \cup T!Weather \cup T!ForecastCheck \cup T!Financials \cup T!Projections \cup
               T!Bookkeeping \cup T!MonthlyClose \cup T!DocumentUpload : Whole(c)
  BY NothingWhole, EachWhole, UploadWhole DEF T!SmsTest, T!Weather, T!ForecastCheck, T!Financials, T!Projections,
                                              T!Bookkeeping, T!MonthlyClose, T!DocumentUpload
<1>9. \A c \in T!TotalsForm \cup T!RowActions \cup T!ExportDialog \cup T!ColdEmail \cup T!AddOptIn \cup
               T!LeadDialog : Whole(c)
  BY NothingWhole, EachWhole, UploadWhole DEF T!TotalsForm, T!RowActions, T!ExportDialog, T!ColdEmail, T!AddOptIn,
                                              T!LeadDialog
<1>10. QED
  BY <1>1, <1>2, <1>3, <1>4, <1>5, <1>6, <1>7, <1>8, <1>9

LEMMA FormWhole == \A c \in T!CustomerForm : Whole(c)
<1> DEFINE new == <<"createCustomer">>
           look == <<"getCustomerSummary", "createProperty">>
           S == {"createCustomer", "setPhones", "getCustomerSummary", "createProperty", "updatePin"}
<1>1. /\ new \in Seq(S) /\ <<"createCustomer", "getCustomerSummary", "createProperty">> \in Seq(S)
      /\ <<"createCustomer", "setPhones", "getCustomerSummary", "createProperty">> \in Seq(S)
  OBVIOUS
<1>2. new \o <<>> = new
  BY <1>1, ConcatEmptySeq
<1>3. new \o look = <<"createCustomer", "getCustomerSummary", "createProperty">>
  BY OneAndTwo
<1>4. new \o <<"setPhones">> = <<"createCustomer", "setPhones">>
  BY OneAndOne
<1>5. <<"createCustomer", "setPhones">> \o look = <<"createCustomer", "setPhones", "getCustomerSummary", "createProperty">>
  BY TwoAndTwo
<1>6. /\ <<"createCustomer", "getCustomerSummary", "createProperty">> \o <<>>
           = <<"createCustomer", "getCustomerSummary", "createProperty">>
      /\ <<"createCustomer", "setPhones", "getCustomerSummary", "createProperty">> \o <<>>
           = <<"createCustomer", "setPhones", "getCustomerSummary", "createProperty">>
  BY <1>1, ConcatEmptySeq
<1>7. /\ <<"createCustomer", "getCustomerSummary", "createProperty">> \o <<"updatePin">>
           = <<"createCustomer", "getCustomerSummary", "createProperty", "updatePin">>
      /\ <<"createCustomer", "setPhones", "getCustomerSummary", "createProperty">> \o <<"updatePin">>
           = <<"createCustomer", "setPhones", "getCustomerSummary", "createProperty", "updatePin">>
  BY ThreeAndOne, FourAndOne
<1> DEFINE Fill(phones, pin) == new \o phones \o look \o pin
<1> HIDE DEF new, look
<1>8. /\ Fill(<<>>, <<>>) \in T!Making /\ Fill(<<>>, <<"updatePin">>) \in T!Making
      /\ Fill(<<"setPhones">>, <<>>) \in T!Making /\ Fill(<<"setPhones">>, <<"updatePin">>) \in T!Making
  BY <1>2, <1>3, <1>4, <1>5, <1>6, <1>7, Zenon DEF T!Making
<1> HIDE DEF Fill
<1>9. {Fill(phones, pin) : phones \in {<<>>, <<"setPhones">>}, pin \in {<<>>, <<"updatePin">>}} \subseteq T!Making
  BY <1>8
<1>10. \A o \in T!Making : o # <<>>
  BY DEF T!Making
<1>11. QED
  BY <1>9, <1>10, ComponentSays DEF T!CustomerForm, Whole, Fill, new, look

LEMMA RestWhole == \A c \in T!EditCustomerDialog \cup T!PeopleCard \cup T!ExpenseForm : Whole(c)
<1>1. T!Uploading("createExpense") # <<>>
  BY DEF T!Uploading
<1>2. \A c \in T!EditCustomerDialog : Whole(c)
  BY ComponentSays DEF T!EditCustomerDialog, Whole
<1>3. \A c \in T!PeopleCard : Whole(c)
  BY ComponentSays DEF T!PeopleCard, Whole
<1>4. \A c \in T!ExpenseForm : Whole(c)
  BY <1>1, ComponentSays DEF T!ExpenseForm, Whole
<1>5. QED
  BY <1>2, <1>3, <1>4

LEMMA AllWhole == \A c \in T!Components : Whole(c)
BY PlainWhole, FormWhole, RestWhole DEF T!Components

LEMMA OffersSay ==
  ASSUME NEW s, NEW role, NEW o \in T!Offers(s, role)
  PROVE  /\ o # <<>> /\ (s = "AddCustomer" => o \in T!Making)
         /\ T!Seen(s, role) # {}
<1>1. PICK c \in T!Components : c.on = s /\ role \in c.who /\ o \in c.offers
  BY DEF T!Offers, T!Seen
<1>2. QED
  BY <1>1, AllWhole DEF Whole, T!Seen

LEMMA SeenNamed == \A s, role : T!Seen(s, role) # {} => s \in T!ScreenNames
BY DEF T!Seen, T!ScreenNames

LEMMA ScreensNamed == {"Login", "Dashboard", "ContractForm"} \subseteq T!ScreenNames
<1>1. \A on, who, loads, offers : \E c \in T!Component(on, who, loads, offers) : c.on = on
  BY DEF T!Component
<1>2. T!Login \cup T!OperatorDashboard \cup T!ContractForm \subseteq T!Components
  BY DEF T!Components
<1>3. \E c \in T!Login : c.on = "Login"
  BY <1>1 DEF T!Login
<1>4. \E c \in T!OperatorDashboard : c.on = "Dashboard"
  BY <1>1 DEF T!OperatorDashboard
<1>5. \E c \in T!ContractForm : c.on = "ContractForm"
  BY <1>1 DEF T!ContractForm
<1>6. QED
  BY <1>2, <1>3, <1>4, <1>5 DEF T!ScreenNames

-----------------------------------------------------------------------------
LEMMA IdleTyped == T!Idle \in T!Form(<<>>) /\ T!Idle.ops = <<>> /\ ~T!Idle.here /\ T!Idle.on = "Login"
BY ScreensNamed DEF T!Idle, T!Form

LEMMA LoadTyped ==
  ASSUME NEW s \in T!ScreenNames, NEW k \in Keys \cup {NoKey},
         NEW a \in TabAccounts \cup {Nothing}, NEW t \in TabAccounts \cup {Nothing}
  PROVE  /\ T!Load(s, k, a, t) \in T!LoadsOf /\ T!Load(s, k, a, t).live
         /\ T!Load(s, k, a, t).on = s /\ T!Load(s, k, a, t).of = k /\ T!Load(s, k, a, t).who = a
BY DEF T!Load, T!LoadsOf

(* Loads that were cancelled are as many at most, and nobody waits for them. *)
LEMMA DroppedTyped ==
  ASSUME NEW ls, ls \subseteq T!LoadsOf, IsFiniteSet(ls)
  PROVE  /\ T!Dropped(ls) \subseteq T!LoadsOf /\ \A l \in T!Dropped(ls) : ~l.live
         /\ IsFiniteSet(T!Dropped(ls)) /\ Cardinality(T!Dropped(ls)) <= Cardinality(ls)
<1> DEFINE Drop(l) == [T!Load("Login", NoKey, Nothing, l.as) EXCEPT !.live = FALSE]
           f == [l \in ls |-> Drop(l)]
<1>1. \A l \in ls : Drop(l) \in T!LoadsOf /\ ~Drop(l).live
  BY ScreensNamed DEF T!Load, T!LoadsOf
<1>2. T!Dropped(ls) = {Drop(l) : l \in ls}
  BY DEF T!Dropped
<1> HIDE DEF Drop
<1>3. f \in Surjection(ls, T!Dropped(ls))
  BY <1>2 DEF Surjection
<1>4. QED
  BY <1>1, <1>2, <1>3, FS_Surjection

(* One more load, for which the rest are cancelled. *)
LEMMA OneMore ==
  ASSUME T!TabTypeOK, T!TabParameters, T!Room, NEW more, more \subseteq T!LoadsOf,
         more = {} \/ \E x : more = {x}, tabAsked' = T!Cancelled \cup more
  PROVE  /\ tabAsked' \subseteq T!LoadsOf /\ IsFiniteSet(tabAsked') /\ Cardinality(tabAsked') <= MaxLoads
<1>1. /\ tabAsked \subseteq T!LoadsOf /\ IsFiniteSet(tabAsked) /\ Cardinality(tabAsked) <= MaxLoads
      /\ Cardinality(tabAsked) \in Nat /\ MaxLoads \in Nat /\ Cardinality(tabAsked) < MaxLoads
  BY CountedAlike, FS_CardinalityType DEF T!TabTypeOK, T!TabParameters, T!Room
<1>2. /\ T!Cancelled \subseteq T!LoadsOf /\ IsFiniteSet(T!Cancelled) /\ Cardinality(T!Cancelled) <= Cardinality(tabAsked)
      /\ Cardinality(T!Cancelled) \in Nat
  BY <1>1, DroppedTyped, FS_CardinalityType DEF T!Cancelled
<1>3. CASE more = {}
  <2>1. tabAsked' = T!Cancelled
    BY <1>3
  <2>2. QED
    BY <1>1, <1>2, <2>1
<1>4. ASSUME NEW x, more = {x}
      PROVE  /\ tabAsked' \subseteq T!LoadsOf /\ IsFiniteSet(tabAsked') /\ Cardinality(tabAsked') <= MaxLoads
  <2>1. tabAsked' = T!Cancelled \cup {x} /\ x \in T!LoadsOf
    BY <1>4
  <2>2. IsFiniteSet(T!Cancelled \cup {x}) /\ Cardinality(T!Cancelled \cup {x}) <= Cardinality(T!Cancelled) + 1
    BY <1>2, FS_AddElement
  <2>3. Cardinality(T!Cancelled \cup {x}) \in Nat
    BY <2>2, FS_CardinalityType
  <2>4. Cardinality(T!Cancelled \cup {x}) <= MaxLoads
    BY <1>1, <1>2, <2>2, <2>3
  <2>5. T!Cancelled \cup {x} \subseteq T!LoadsOf
    BY <1>2, <2>1
  <2>6. QED
    BY <2>1, <2>2, <2>4, <2>5
<1>5. QED
  BY <1>3, <1>4

LEMMA FewerLoads ==
  ASSUME T!TabTypeOK, T!TabParameters, NEW ls, ls \subseteq tabAsked, tabAsked' = T!Dropped(ls) \/ tabAsked' = ls
  PROVE  /\ tabAsked' \subseteq T!LoadsOf /\ IsFiniteSet(tabAsked') /\ Cardinality(tabAsked') <= MaxLoads
<1>1. /\ ls \subseteq T!LoadsOf /\ IsFiniteSet(ls) /\ Cardinality(ls) <= MaxLoads
      /\ Cardinality(ls) \in Nat /\ MaxLoads \in Nat
  <2>1. IsFiniteSet(tabAsked) /\ Cardinality(tabAsked) \in Nat /\ Cardinality(tabAsked) <= MaxLoads /\ tabAsked \subseteq T!LoadsOf
    BY CountedAlike, FS_CardinalityType DEF T!TabTypeOK
  <2>2. IsFiniteSet(ls) /\ Cardinality(ls) <= Cardinality(tabAsked) /\ Cardinality(ls) \in Nat
    BY <2>1, FS_Subset, FS_CardinalityType
  <2>3. QED
    BY <2>1, <2>2 DEF T!TabParameters
<1>2. Cardinality(T!Dropped(ls)) \in Nat /\ Cardinality(T!Dropped(ls)) <= Cardinality(ls)
  BY <1>1, DroppedTyped, FS_CardinalityType
<1>3. QED
  BY <1>1, <1>2, DroppedTyped

(* The page is left: its form goes on without it. *)
LEMMA FormLeft ==
  ASSUME T!TabTypeOK, tabForm' = [tabForm EXCEPT !.here = FALSE]
  PROVE  /\ tabForm' \in T!Form(tabForm'.ops) /\ (tabForm' # T!Idle => tabForm'.ops # <<>>) /\ ~tabForm'.here
         /\ tabForm'.ops = tabForm.ops /\ tabForm'.on = tabForm.on /\ tabForm'.of = tabForm.of /\ tabForm'.seen = tabForm.seen
         /\ tabForm' # T!Idle => tabForm # T!Idle
<1>1. tabForm \in T!Form(tabForm.ops) /\ (tabForm # T!Idle => tabForm.ops # <<>>)
  BY DEF T!TabTypeOK
<1>2. /\ tabForm'.ops = tabForm.ops /\ tabForm'.on = tabForm.on /\ tabForm'.of = tabForm.of /\ tabForm'.seen = tabForm.seen /\ ~tabForm'.here
      /\ tabForm' \in T!Form(tabForm.ops)
  BY <1>1 DEF T!Form
<1>3. tabForm = T!Idle => tabForm' = T!Idle
  <2>1. ASSUME NEW r \in T!Form(<<>>), r.here = FALSE PROVE [r EXCEPT !.here = FALSE] = r
    BY <2>1 DEF T!Form
  <2>2. T!Idle.here = FALSE
    BY DEF T!Idle
  <2>3. QED
    BY <2>1, <2>2, IdleTyped
<1>4. QED
  BY <1>1, <1>2, <1>3

LEMMA PatchedOnce == \A a, ops : <<a>> \o Tail(ops) # <<>>
OBVIOUS

AskedOK == tabAsked \subseteq T!LoadsOf /\ IsFiniteSet(tabAsked) /\ Cardinality(tabAsked) <= MaxLoads
FormOK  == tabForm \in T!Form(tabForm.ops) /\ (tabForm # T!Idle => tabForm.ops # <<>>)
AddedOK == tabSaved \in BOOLEAN /\ tabCustomers \in Nat /\ tabHouses \in Nat /\ tabLost \in Nat
PageOK  ==
  /\ tabToken \in TabAccounts \cup {Nothing} /\ tabUser \in TabAccounts \cup {Nothing} /\ tabScreen \in T!ScreenNames
  /\ tabKey \in Keys \cup {NoKey} /\ tabShown \in Keys \cup {NoKey} /\ tabFailed \in BOOLEAN
  /\ tabUser = Nothing <=> tabScreen = "Login"
RestOK  == tabEnded \subseteq TabAccounts /\ tabUpsets \in 0..MaxUpsets

LEMMA TabParts == T!TabTypeOK <=> PageOK /\ AskedOK /\ FormOK /\ AddedOK /\ RestOK
BY CountedAlike DEF T!TabTypeOK, PageOK, AskedOK, FormOK, AddedOK, RestOK

LEMMA TabPartsAfter == ASSUME PageOK', AskedOK', FormOK', AddedOK', RestOK' PROVE T!TabTypeOK'
BY CountedAlike DEF T!TabTypeOK, PageOK, AskedOK, FormOK, AddedOK, RestOK

LEMMA OpenTyped ==
  ASSUME T!TabTypeOK, T!TabParameters, T!Room, NEW s \in T!ScreenNames, NEW k \in Keys \cup {NoKey},
         NEW a \in TabAccounts \cup {Nothing}, NEW t \in TabAccounts \cup {Nothing}, T!Open(s, k, a, t)
  PROVE  AskedOK' /\ tabScreen' = s /\ tabKey' = k /\ tabShown' = NoKey /\ tabFailed' = FALSE
<1>1. T!Load(s, k, a, t) \in T!LoadsOf
  BY LoadTyped
<1>2. PICK more \in {{}, {T!Load(s, k, a, t)}} : tabAsked' = T!Cancelled \cup more
  BY DEF T!Open
<1>3. more \subseteq T!LoadsOf /\ (more = {} \/ \E x : more = {x})
  BY <1>1, <1>2
<1>4. tabAsked' \subseteq T!LoadsOf /\ IsFiniteSet(tabAsked') /\ Cardinality(tabAsked') <= MaxLoads
  BY <1>2, <1>3, OneMore
<1>5. QED
  BY <1>4 DEF AskedOK, T!Open

LEMMA LeaveTyped ==
  ASSUME T!TabTypeOK, T!Leave
  PROVE  FormOK' /\ AddedOK' /\ ~tabForm'.here
BY FormLeft DEF T!Leave, FormOK, AddedOK

LEMMA CancelledTyped ==
  ASSUME T!TabTypeOK, T!TabParameters, NEW ls, ls \subseteq tabAsked, tabAsked' = T!Dropped(ls) \/ tabAsked' = ls
  PROVE  AskedOK'
BY FewerLoads DEF AskedOK

LEMMA IdleFormOK == ASSUME tabForm' = T!Idle PROVE FormOK'
BY IdleTyped DEF FormOK

LEMMA WroteTyped == ASSUME AddedOK, NEW op, T!Wrote(op) PROVE tabCustomers' \in Nat /\ tabHouses' \in Nat
BY DEF AddedOK, T!Wrote

LEMMA TabStarts == T!Init => T!TabTypeOK
<1> SUFFICES ASSUME T!TabParameters, T!Init PROVE T!TabTypeOK
  BY TabAssumption
<1>1. AskedOK
  BY FS_EmptySet DEF T!Init, AskedOK, T!TabParameters
<1>2. FormOK
  BY IdleTyped DEF T!Init, FormOK
<1>3. PageOK
  BY ScreensNamed DEF T!Init, PageOK
<1>4. AddedOK
  BY DEF T!Init, AddedOK
<1>5. RestOK
  BY DEF T!Init, RestOK, T!TabParameters
<1>6. QED
  BY <1>1, <1>2, <1>3, <1>4, <1>5, TabParts

LEMMA StepsTyped ==
  ASSUME T!TabTypeOK, T!TabParameters, (T!Room /\ T!StepDone) \/ T!StepRefused \/ T!StepLost \/ T!StepUnauthenticated
  PROVE  T!TabTypeOK'
<1>0. PageOK /\ AskedOK /\ FormOK /\ AddedOK /\ RestOK
  BY TabParts
<1>1. ASSUME T!Room, T!StepDone PROVE T!TabTypeOK'
  <2>1. RestOK' /\ tabToken' = tabToken /\ tabUser' = tabUser
    BY <1>0, <1>1 DEF T!StepDone, RestOK
  <2>2. ASSUME T!Finish PROVE T!TabTypeOK'
    <3>1. FormOK'
      BY <2>2, IdleFormOK DEF T!Finish
    <3>2. CASE tabForm.on = "AddCustomer" /\ tabUser # Nothing
      <4>1. T!Open("ContractForm", tabForm.of, tabUser, tabToken) /\ tabSaved' = FALSE /\ tabCustomers' = 0 /\ tabHouses' = 0 /\ tabLost' = 0
        BY <2>2, <3>2 DEF T!Finish
      <4>2. tabForm.of \in Keys \cup {NoKey}
        BY <1>0 DEF FormOK, T!Form
      <4>3. AskedOK' /\ tabScreen' = "ContractForm" /\ tabKey' = tabForm.of /\ tabShown' = NoKey /\ tabFailed' = FALSE
        BY <1>0, <1>1, <4>1, <4>2, ScreensNamed, OpenTyped DEF PageOK
      <4>4. PageOK'
        BY <1>0, <2>1, <3>2, <4>2, <4>3, ScreensNamed DEF PageOK
      <4>5. AddedOK'
        BY <4>1 DEF AddedOK
      <4>6. QED
        BY <2>1, <3>1, <4>3, <4>4, <4>5, TabPartsAfter
    <3>3. CASE ~(tabForm.on = "AddCustomer" /\ tabUser # Nothing)
      <4>1. UNCHANGED <<tabScreen, tabKey, tabShown, tabSaved, tabCustomers, tabHouses, tabLost>>
        BY <2>2, <3>3 DEF T!Finish, T!adding
      <4>2. AskedOK' /\ tabFailed' \in BOOLEAN
        <5>1. CASE tabForm.here
          <6>1. tabAsked' = T!Cancelled \cup {T!Load(tabScreen, tabKey, tabUser, tabToken)} /\ tabFailed' = FALSE
            BY <2>2, <3>3, <5>1 DEF T!Finish
          <6>2. {T!Load(tabScreen, tabKey, tabUser, tabToken)} \subseteq T!LoadsOf
            BY <1>0, LoadTyped DEF PageOK
          <6>3. QED
            BY <1>1, <6>1, <6>2, OneMore DEF AskedOK
        <5>2. CASE ~tabForm.here
          BY <1>0, <2>2, <3>3, <5>2 DEF T!Finish, AskedOK, PageOK
        <5>3. QED
          BY <5>1, <5>2
      <4>3. PageOK' /\ AddedOK'
        BY <1>0, <2>1, <4>1, <4>2 DEF PageOK, AddedOK
      <4>4. QED
        BY <2>1, <3>1, <4>2, <4>3, TabPartsAfter
    <3>4. QED
      BY <3>2, <3>3
  <2>3. ASSUME T!Remaining # <<>>, tabForm' = [tabForm EXCEPT !.ops = T!Remaining], T!Wrote(Head(tabForm.ops)),
               tabSaved' = (tabSaved \/ (Head(tabForm.ops) = "createCustomer" /\ tabForm.here)), UNCHANGED <<tabScreen, tabKey, T!query, tabLost>>
        PROVE  T!TabTypeOK'
    <3>1. tabForm'.ops = T!Remaining /\ tabForm' \in T!Form(tabForm'.ops)
      BY <1>0, <2>3 DEF FormOK, T!Form
    <3>2. FormOK'
      BY <2>3, <3>1 DEF FormOK
    <3>3. AddedOK'
      BY <1>0, <2>3, WroteTyped DEF AddedOK
    <3>4. PageOK' /\ AskedOK'
      BY <1>0, <2>1, <2>3 DEF PageOK, AskedOK, T!query
    <3>5. QED
      BY <2>1, <3>2, <3>3, <3>4, TabPartsAfter
  <2>4. QED
    BY <1>1, <2>2, <2>3 DEF T!StepDone
<1>2. ASSUME T!StepRefused PROVE T!TabTypeOK'
  <2>1. FormOK'
    BY <1>2, IdleFormOK DEF T!StepRefused
  <2>2. RestOK'
    BY <1>0, <1>2 DEF T!StepRefused, RestOK, T!TabParameters
  <2>3. PageOK' /\ AskedOK' /\ AddedOK'
    BY <1>0, <1>2 DEF T!StepRefused, PageOK, AskedOK, AddedOK, T!tab, T!query, T!adding
  <2>4. QED
    BY <2>1, <2>2, <2>3, TabPartsAfter
<1>3. ASSUME T!StepLost PROVE T!TabTypeOK'
  <2>1. FormOK'
    BY <1>3, IdleFormOK DEF T!StepLost
  <2>2. RestOK'
    BY <1>0, <1>3 DEF T!StepLost, RestOK, T!TabParameters
  <2>3. PageOK' /\ AskedOK'
    BY <1>0, <1>3 DEF T!StepLost, PageOK, AskedOK, T!tab, T!query
  <2>4. AddedOK'
    BY <1>0, <1>3, WroteTyped DEF T!StepLost, AddedOK
  <2>5. QED
    BY <2>1, <2>2, <2>3, <2>4, TabPartsAfter
<1>4. ASSUME T!StepUnauthenticated PROVE T!TabTypeOK'
  <2>1. FormOK'
    BY <1>4, IdleFormOK DEF T!StepUnauthenticated
  <2>2. AskedOK'
    BY <1>4, CancelledTyped DEF T!StepUnauthenticated, T!Cancelled
  <2>3. PageOK' /\ AddedOK' /\ RestOK'
    BY <1>0, <1>4, ScreensNamed DEF T!StepUnauthenticated, PageOK, AddedOK, RestOK
  <2>4. QED
    BY <2>1, <2>2, <2>3, TabPartsAfter
<1>5. QED
  BY <1>1, <1>2, <1>3, <1>4

LEMMA TabTyped == T!TabTypeOK /\ [T!Next]_T!vars => T!TabTypeOK'
<1> SUFFICES ASSUME T!TabParameters, T!TabTypeOK, [T!Next]_T!vars PROVE T!TabTypeOK'
  BY TabAssumption
<1>0. PageOK /\ AskedOK /\ FormOK /\ AddedOK /\ RestOK
  BY TabParts
<1>1. ASSUME NEW a \in TabAccounts, T!Room, T!SignIn(a) PROVE T!TabTypeOK'
  <2>1. T!Open("Dashboard", NoKey, a, a) /\ tabToken' = a /\ tabUser' = a /\ UNCHANGED <<tabForm, T!adding, tabEnded, tabUpsets>>
    BY <1>1 DEF T!SignIn
  <2>2. AskedOK' /\ tabScreen' = "Dashboard" /\ tabKey' = NoKey /\ tabShown' = NoKey /\ tabFailed' = FALSE
    BY <1>1, <2>1, ScreensNamed, OpenTyped
  <2>3. PageOK'
    BY <2>1, <2>2, ScreensNamed DEF PageOK, T!TabParameters
  <2>4. FormOK' /\ AddedOK' /\ RestOK'
    BY <1>0, <2>1 DEF FormOK, AddedOK, RestOK, T!adding
  <2>5. QED
    BY <2>2, <2>3, <2>4, TabPartsAfter
<1>2. ASSUME T!SignOut PROVE T!TabTypeOK'
  <2>1. FormOK' /\ AddedOK'
    BY <1>2, LeaveTyped DEF T!SignOut, T!ToLogin
  <2>2. AskedOK'
    BY <1>2, CancelledTyped DEF T!SignOut, T!ToLogin, T!Cancelled
  <2>3. PageOK' /\ RestOK'
    BY <1>0, <1>2, ScreensNamed DEF T!SignOut, T!ToLogin, PageOK, RestOK
  <2>4. QED
    BY <2>1, <2>2, <2>3, TabPartsAfter
<1>3. ASSUME NEW s \in Walk, NEW k \in Keys \cup {NoKey}, T!Room, T!Go(s, k) PROVE T!TabTypeOK'
  <2>1. s \in T!ScreenNames /\ s # "Login"
    BY DEF T!TabParameters
  <2>2. AskedOK' /\ tabScreen' = s /\ tabKey' = k /\ tabShown' = NoKey /\ tabFailed' = FALSE
    BY <1>0, <1>3, <2>1, OpenTyped DEF T!Go, PageOK
  <2>3. FormOK' /\ AddedOK'
    BY <1>3, LeaveTyped DEF T!Go
  <2>4. PageOK' /\ RestOK'
    BY <1>0, <1>3, <2>1, <2>2 DEF T!Go, PageOK, RestOK
  <2>5. QED
    BY <2>2, <2>3, <2>4, TabPartsAfter
<1>4. ASSUME NEW k \in Keys, T!Room, T!Select(k) PROVE T!TabTypeOK'
  <2>1. {T!Load(tabScreen, k, tabUser, tabToken)} \subseteq T!LoadsOf
    BY <1>0, LoadTyped DEF PageOK
  <2>2. AskedOK'
    BY <1>4, <2>1, OneMore DEF T!Select, AskedOK
  <2>3. PageOK'
    BY <1>0, <1>4 DEF T!Select, PageOK
  <2>4. FormOK' /\ AddedOK'
    <3>1. CASE tabScreen = "AddCustomer"
      BY <1>4, <3>1, LeaveTyped DEF T!Select
    <3>2. CASE tabScreen # "AddCustomer"
      BY <1>0, <1>4, <3>2 DEF T!Select, FormOK, AddedOK, T!adding
    <3>3. QED
      BY <3>1, <3>2
  <2>5. RestOK'
    BY <1>0, <1>4 DEF T!Select, RestOK
  <2>6. QED
    BY <2>2, <2>3, <2>4, <2>5, TabPartsAfter
<1>5. ASSUME NEW l \in tabAsked, T!Answered(l) PROVE T!TabTypeOK'
  <2>0. l.of \in Keys \cup {NoKey} /\ l.live \in BOOLEAN
    BY <1>0 DEF AskedOK, T!LoadsOf
  <2>1. AskedOK'
    <3>1. PICK ls : ls \subseteq tabAsked /\ (tabAsked' = T!Dropped(ls) \/ tabAsked' = ls)
      BY <1>5 DEF T!Answered
    <3>2. QED
      BY <3>1, CancelledTyped
  <2>2. CASE T!Leave /\ tabUser' = Nothing /\ tabToken' = Nothing /\ tabScreen' = "Login" /\ tabKey' = NoKey /\ tabShown' = NoKey /\ tabFailed' = FALSE
             /\ UNCHANGED <<tabUpsets, tabEnded>>
    <3>1. FormOK' /\ AddedOK'
      BY <2>2, LeaveTyped
    <3>2. PageOK' /\ RestOK'
      BY <1>0, <2>2, ScreensNamed DEF PageOK, RestOK
    <3>3. QED
      BY <2>1, <3>1, <3>2, TabPartsAfter
  <2>3. CASE tabToken' = Nothing /\ UNCHANGED <<tabUser, tabScreen, tabKey, tabShown, tabFailed, tabForm, T!adding, tabUpsets, tabEnded>>
    <3>1. FormOK' /\ AddedOK' /\ PageOK' /\ RestOK'
      BY <1>0, <2>3 DEF FormOK, AddedOK, PageOK, RestOK, T!adding
    <3>2. QED
      BY <2>1, <3>1, TabPartsAfter
  <2>4. CASE /\ tabShown' \in Keys \cup {NoKey} /\ tabFailed' \in BOOLEAN /\ tabUpsets' \in 0..MaxUpsets
             /\ UNCHANGED <<T!tab, tabForm, T!adding, tabEnded>>
    <3>1. FormOK' /\ AddedOK' /\ PageOK' /\ RestOK'
      BY <1>0, <2>4 DEF FormOK, AddedOK, PageOK, RestOK, T!adding, T!tab
    <3>2. QED
      BY <2>1, <3>1, TabPartsAfter
  <2>5. ~T!Refused(l.as) => tabShown' \in Keys \cup {NoKey} /\ tabFailed' \in BOOLEAN /\ tabUpsets' \in 0..MaxUpsets
    BY <1>0, <1>5, <2>0 DEF T!Answered, PageOK, RestOK, T!TabParameters
  <2>6. QED
    BY <1>5, <2>2, <2>3, <2>4, <2>5 DEF T!Answered
<1>6. ASSUME NEW ops, ops \in T!Offers(tabScreen, T!Role(tabUser)), T!Submit(ops) PROVE T!TabTypeOK'
  <2>1. ops # <<>> /\ T!Target \in Keys \cup {NoKey} /\ T!Visible \in Keys \cup {NoKey}
    BY <1>0, <1>6, OffersSay DEF T!Target, T!Visible, PageOK
  <2>2. T!First(ops) # <<>>
    BY <2>1, PatchedOnce DEF T!First
  <2>3. tabForm' = [ops |-> T!First(ops), on |-> tabScreen, who |-> tabUser, of |-> T!Target, seen |-> T!Visible, here |-> TRUE]
    BY <1>6 DEF T!Submit
  <2>4. tabForm' \in T!Form(tabForm'.ops) /\ tabForm'.ops = T!First(ops)
    BY <1>0, <2>1, <2>3 DEF PageOK, T!Form
  <2>5. FormOK'
    BY <2>2, <2>4 DEF FormOK
  <2>6. PageOK' /\ AskedOK' /\ AddedOK' /\ RestOK'
    BY <1>0, <1>6 DEF T!Submit, PageOK, AskedOK, AddedOK, RestOK, T!tab, T!query, T!adding
  <2>7. QED
    BY <2>5, <2>6, TabPartsAfter
<1>7. ASSUME NEW t \in TabAccounts \cup {Nothing}, T!OtherTab(t) PROVE T!TabTypeOK'
  <2>1. PageOK' /\ RestOK'
    BY <1>0, <1>7 DEF T!OtherTab, PageOK, RestOK, T!TabParameters, T!query
  <2>2. AskedOK' /\ FormOK' /\ AddedOK'
    BY <1>0, <1>7 DEF T!OtherTab, AskedOK, FormOK, AddedOK, T!query, T!adding
  <2>3. QED
    BY <2>1, <2>2, TabPartsAfter
<1>8. ASSUME NEW a \in TabAccounts, T!EndAccount(a) PROVE T!TabTypeOK'
  <2>1. PageOK' /\ RestOK'
    BY <1>0, <1>8 DEF T!EndAccount, PageOK, RestOK, T!TabParameters, T!query, T!tab
  <2>2. AskedOK' /\ FormOK' /\ AddedOK'
    BY <1>0, <1>8 DEF T!EndAccount, AskedOK, FormOK, AddedOK, T!query, T!adding
  <2>3. QED
    BY <2>1, <2>2, TabPartsAfter
<1>9. ASSUME UNCHANGED T!vars PROVE T!TabTypeOK'
  BY <1>9 DEF T!vars, T!tab, T!query, T!adding, T!TabTypeOK
<1>10. QED
  BY <1>1, <1>2, <1>3, <1>4, <1>5, <1>6, <1>7, <1>8, <1>9, StepsTyped DEF T!Next

-----------------------------------------------------------------------------
(* PageInv, by what each part is about: the data on the page, the          *)
(* submission, and the page that waits for it.                             *)
DataInv ==
  /\ \A l \in tabAsked : l.live => l.on = tabScreen /\ l.of = tabKey /\ T!Shows(l.on, l.who)
  /\ \A l, m \in tabAsked : l.live /\ m.live => l = m
  /\ tabScreen \in T!OfOne <=> tabKey # NoKey
  /\ tabKey = NoKey => tabShown = NoKey
  /\ T!ShownIsAsked
SentInv == (tabForm # T!Idle /\ tabForm.on = "AddCustomer" => tabForm.of # NoKey) /\ T!ActsOnWhatItShows
HereInv == tabForm.here => tabForm.on = tabScreen /\ tabUser # Nothing /\ T!Shows(tabScreen, tabUser)

LEMMA PageParts == T!PageInv <=> DataInv /\ SentInv /\ HereInv
BY DEF T!PageInv, DataInv, SentInv, HereInv

LEMMA PagePartsAfter == ASSUME DataInv', SentInv', HereInv' PROVE T!PageInv'
BY DEF T!PageInv, DataInv, SentInv, HereInv

LEMMA CancelledDead == ASSUME T!TabTypeOK, NEW ls, ls \subseteq tabAsked PROVE \A l \in T!Dropped(ls) : ~l.live
<1>1. ls \subseteq T!LoadsOf /\ IsFiniteSet(ls)
  BY CountedAlike, FS_Subset DEF T!TabTypeOK
<1>2. QED
  BY <1>1, DroppedTyped

(* The data, when the page is new or loads again. *)
LEMMA DataAnew ==
  ASSUME T!TabTypeOK, NEW s \in T!ScreenNames, NEW k \in Keys \cup {NoKey}, NEW a \in TabAccounts \cup {Nothing},
     NEW t \in TabAccounts \cup {Nothing},
         tabAsked' = T!Cancelled \cup (IF T!Shows(s, a) THEN {T!Load(s, k, a, t)} ELSE {}),
         tabScreen' = s, tabKey' = k, s \in T!OfOne <=> k # NoKey,
         tabShown' = NoKey \/ (k # NoKey /\ T!Shows(s, a)) \/ (UNCHANGED <<tabKey, tabShown>> /\ T!Shows(s, a) /\ (tabKey = NoKey => tabShown = NoKey))
  PROVE  DataInv'
<1>1. /\ T!Load(s, k, a, t).live /\ T!Load(s, k, a, t).on = s /\ T!Load(s, k, a, t).of = k /\ T!Load(s, k, a, t).who = a
  BY LoadTyped
<1>2. \A l \in tabAsked' : l.live => T!Shows(s, a) /\ l = T!Load(s, k, a, t)
  BY <1>1, CancelledDead DEF T!Cancelled
<1>3. \A l \in tabAsked' : l.live => l.on = tabScreen' /\ l.of = tabKey' /\ T!Shows(l.on, l.who)
  BY <1>1, <1>2
<1>4. \A l, m \in tabAsked' : l.live /\ m.live => l = m
  BY <1>2
<1>5. (T!ShownIsAsked)'
  <2>1. CASE T!Shows(s, a)
    <3>1. \E l \in tabAsked' : l.live
      BY <1>1, <2>1
    <3>2. QED
      BY <3>1 DEF T!ShownIsAsked, T!Visible, T!Loading
  <2>2. CASE ~T!Shows(s, a)
    BY <2>2 DEF T!ShownIsAsked, T!Visible
  <2>3. QED
    BY <2>1, <2>2
<1>6. (tabScreen' \in T!OfOne <=> tabKey' # NoKey) /\ (tabKey' = NoKey => tabShown' = NoKey)
  OBVIOUS
<1>7. QED
  BY <1>3, <1>4, <1>5, <1>6 DEF DataInv, T!Shows

(* The data, back at the sign-in. *)
LEMMA DataGone ==
  ASSUME T!TabTypeOK, NEW ls, ls \subseteq tabAsked, tabAsked' = T!Dropped(ls), tabScreen' = "Login", tabKey' = NoKey, tabShown' = NoKey
  PROVE  DataInv'
<1>1. \A l \in tabAsked' : ~l.live
  BY CancelledDead
<1>2. (T!ShownIsAsked)'
  BY DEF T!ShownIsAsked, T!Visible
<1>3. QED
  BY <1>1, <1>2 DEF DataInv, T!OfOne

LEMMA DataSame == DataInv /\ UNCHANGED <<tabScreen, tabKey, tabShown, tabFailed, tabAsked>> => DataInv'
BY DEF DataInv, T!Shows, T!ShownIsAsked, T!Visible, T!Loading

LEMMA SentSame == ASSUME SentInv, tabForm' = tabForm \/ tabForm' = T!Idle PROVE SentInv'
BY IdleTyped DEF SentInv, T!ActsOnWhatItShows

LEMMA HereSame == ASSUME HereInv, UNCHANGED <<tabForm, tabScreen, tabUser>> \/ ~tabForm'.here PROVE HereInv'
BY DEF HereInv, T!Shows, T!Role

LEMMA SentLeft == ASSUME T!TabTypeOK, SentInv, T!Leave PROVE SentInv' /\ ~tabForm'.here
<1>1. tabForm' = [tabForm EXCEPT !.here = FALSE]
  BY DEF T!Leave
<1>2. QED
  BY <1>1, FormLeft DEF SentInv, T!ActsOnWhatItShows

(* Of the record and the data: a page that shows data shows it of the      *)
(* record a submission is for.                                             *)
LEMMA TargetShown ==
  ASSUME T!TabTypeOK, DataInv, T!Visible = tabShown, tabShown # NoKey, tabScreen \notin {"InvoiceDetail", "AgreementSign"}
  PROVE  T!Target = tabShown
<1>1. CASE tabScreen \notin T!Keeping
  BY <1>1 DEF DataInv, T!ShownIsAsked, T!Target
<1>2. CASE tabScreen \in T!Keeping
  BY <1>2 DEF DataInv, T!Target, T!Keeping, T!OfOne
<1>3. QED
  BY <1>1, <1>2

LEMMA AnsweredData ==
  ASSUME T!TabTypeOK, DataInv, NEW l \in tabAsked, ~T!Refused(l.as), T!Answered(l)
  PROVE  DataInv'
<1>1. tabAsked' = tabAsked \ {l} /\ UNCHANGED <<tabScreen, tabKey>> /\ tabFailed \in BOOLEAN /\ l.live \in BOOLEAN
  BY DEF T!Answered, T!tab, T!TabTypeOK, T!LoadsOf
<1>2. \/ tabShown' = (IF l.live THEN l.of ELSE tabShown) /\ tabFailed' = tabFailed
      \/ tabFailed' = (l.live \/ tabFailed) /\ tabShown' = tabShown
  BY DEF T!Answered
<1>3. l.live => l.of = tabKey /\ \A m \in tabAsked' : ~m.live
  BY <1>1 DEF DataInv
<1>4. ~l.live => (T!Loading <=> T!Loading') /\ tabShown' = tabShown /\ tabFailed' = tabFailed
  BY <1>1, <1>2 DEF T!Loading
<1>5. (T!ShownIsAsked)'
  <2>1. CASE l.live /\ tabShown' = l.of
    BY <1>1, <1>3, <2>1 DEF T!ShownIsAsked, T!Visible
  <2>2. CASE l.live /\ tabFailed' = TRUE
    BY <2>2 DEF T!ShownIsAsked, T!Visible
  <2>3. CASE ~l.live
    BY <1>1, <1>4, <2>3 DEF DataInv, T!ShownIsAsked, T!Visible
  <2>4. QED
    BY <1>1, <1>2, <2>1, <2>2, <2>3
<1>6. tabKey' = NoKey => tabShown' = NoKey
  BY <1>1, <1>2, <1>3 DEF DataInv
<1>7. QED
  BY <1>1, <1>5, <1>6 DEF DataInv, T!Shows

LEMMA PageStarts == T!Init => T!PageInv
<1> SUFFICES ASSUME T!Init PROVE T!PageInv
  OBVIOUS
<1>1. DataInv
  BY DEF T!Init, DataInv, T!ShownIsAsked, T!Visible, T!OfOne
<1>2. SentInv /\ HereInv
  BY IdleTyped DEF T!Init, SentInv, HereInv, T!ActsOnWhatItShows
<1>3. QED
  BY <1>1, <1>2, PageParts

LEMMA PageSteps ==
  ASSUME T!TabParameters, T!TabTypeOK, T!PageInv, (T!Room /\ T!StepDone) \/ T!StepRefused \/ T!StepLost \/ T!StepUnauthenticated
  PROVE  T!PageInv'
<1>0. DataInv /\ SentInv /\ HereInv /\ PageOK /\ FormOK
  BY PageParts, TabParts
<1>1. ASSUME T!StepDone, T!Finish PROVE T!PageInv'
  <2>1. tabForm' = T!Idle /\ tabUser' = tabUser /\ SentInv'
    BY <1>0, <1>1, SentSame DEF T!StepDone, T!Finish
  <2>2. HereInv'
    BY <2>1, IdleTyped DEF HereInv
  <2>3. CASE tabForm.on = "AddCustomer" /\ tabUser # Nothing
    <3>1. tabForm # T!Idle
      BY <2>3, IdleTyped
    <3>2. tabForm.of \in Keys \cup {NoKey} /\ tabForm.of # NoKey
      BY <1>0, <2>3, <3>1 DEF SentInv, FormOK, T!Form
    <3>3. T!Open("ContractForm", tabForm.of, tabUser, tabToken)
      BY <1>1, <2>3 DEF T!Finish
    <3>4. \A l \in T!Cancelled : ~l.live
      BY CancelledDead DEF T!Cancelled
    <3>5. DataInv'
      BY <1>0, <3>2, <3>3, <3>4, ScreensNamed, DataAnew DEF T!Open, PageOK, T!OfOne
    <3>6. QED
      BY <2>1, <2>2, <3>5, PagePartsAfter
  <2>4. CASE ~(tabForm.on = "AddCustomer" /\ tabUser # Nothing) /\ tabForm.here
    <3>1. tabAsked' = T!Cancelled \cup {T!Load(tabScreen, tabKey, tabUser, tabToken)} /\ UNCHANGED <<tabScreen, tabKey, tabShown>>
      BY <1>1, <2>4 DEF T!Finish
    <3>2. T!Shows(tabScreen, tabUser)
      BY <1>0, <2>4 DEF HereInv
    <3>3. tabAsked' = T!Cancelled \cup (IF T!Shows(tabScreen, tabUser) THEN {T!Load(tabScreen, tabKey, tabUser, tabToken)} ELSE {})
      BY <3>1, <3>2
    <3>4. \A l \in T!Cancelled : ~l.live
      BY CancelledDead DEF T!Cancelled
    <3>5. tabScreen \in T!ScreenNames /\ tabKey \in Keys \cup {NoKey} /\ tabUser \in TabAccounts \cup
     {Nothing} /\ tabToken \in TabAccounts \cup {Nothing}
      BY <1>0 DEF PageOK
    <3>6. (tabScreen \in T!OfOne <=> tabKey # NoKey) /\ (tabKey = NoKey => tabShown = NoKey)
      BY <1>0 DEF DataInv
    <3>7. DataInv'
      BY <3>1, <3>2, <3>3, <3>4, <3>5, <3>6, DataAnew
    <3>8. QED
      BY <2>1, <2>2, <3>7, PagePartsAfter
  <2>5. CASE ~(tabForm.on = "AddCustomer" /\ tabUser # Nothing) /\ ~tabForm.here
    <3>1. UNCHANGED <<tabScreen, tabKey, tabShown, tabFailed, tabAsked>>
      BY <1>1, <2>5 DEF T!Finish
    <3>2. DataInv'
      BY <1>0, <3>1, DataSame
    <3>3. QED
      BY <2>1, <2>2, <3>2, PagePartsAfter
  <2>6. QED
    BY <2>3, <2>4, <2>5
<1>2. ASSUME T!StepDone, tabForm' = [tabForm EXCEPT !.ops = T!Remaining], UNCHANGED <<tabScreen, tabKey, T!query, tabLost>> PROVE T!PageInv'
  <2>1. /\ tabForm'.on = tabForm.on /\ tabForm'.of = tabForm.of /\ tabForm'.seen = tabForm.seen /\ tabForm'.here = tabForm.here
        /\ tabForm # T!Idle /\ tabUser' = tabUser
    BY <1>0, <1>2, IdleTyped DEF T!StepDone, FormOK, T!Form
  <2>2. SentInv' /\ HereInv'
    BY <1>0, <1>2, <2>1 DEF SentInv, HereInv, T!ActsOnWhatItShows, T!Shows, T!Role
  <2>3. DataInv'
    BY <1>0, <1>2, DataSame DEF T!query
  <2>4. QED
    BY <2>2, <2>3, PagePartsAfter
<1>3. ASSUME T!StepRefused \/ T!StepLost PROVE T!PageInv'
  <2>1. tabForm' = T!Idle /\ UNCHANGED <<tabScreen, tabKey, tabShown, tabFailed, tabAsked>>
    BY <1>3 DEF T!StepRefused, T!StepLost, T!tab, T!query
  <2>2. DataInv' /\ SentInv'
    BY <1>0, <2>1, DataSame, SentSame
  <2>3. HereInv'
    BY <2>1, IdleTyped DEF HereInv
  <2>4. QED
    BY <2>2, <2>3, PagePartsAfter
<1>4. ASSUME T!StepUnauthenticated PROVE T!PageInv'
  <2>1. tabForm' = T!Idle /\ SentInv'
    BY <1>0, <1>4, SentSame DEF T!StepUnauthenticated
  <2>2. DataInv'
    BY <1>4, DataGone DEF T!StepUnauthenticated, T!Cancelled
  <2>3. HereInv'
    BY <2>1, IdleTyped DEF HereInv
  <2>4. QED
    BY <2>1, <2>2, <2>3, PagePartsAfter
<1>5. T!StepDone => T!Finish \/ (tabForm' = [tabForm EXCEPT !.ops = T!Remaining] /\ UNCHANGED <<tabScreen, tabKey, T!query, tabLost>>)
  BY DEF T!StepDone
<1>6. QED
  BY <1>1, <1>2, <1>3, <1>4, <1>5

LEMMA PageStep == T!TabTypeOK /\ T!PageInv /\ [T!Next]_T!vars => T!PageInv'
<1> SUFFICES ASSUME T!TabParameters, T!TabTypeOK, T!PageInv, [T!Next]_T!vars PROVE T!PageInv'
  BY TabAssumption
<1>0. DataInv /\ SentInv /\ HereInv /\ PageOK /\ FormOK
  BY PageParts, TabParts
<1> DEFINE dead == \A l \in T!Cancelled : ~l.live
<1>d. dead
  BY CancelledDead DEF T!Cancelled
<1>1. ASSUME NEW a \in TabAccounts, T!SignIn(a) PROVE T!PageInv'
  <2>1. T!Open("Dashboard", NoKey, a, a) /\ tabForm' = tabForm /\ tabUser = Nothing
    BY <1>1 DEF T!SignIn
  <2>2. /\ tabAsked' = T!Cancelled \cup (IF T!Shows("Dashboard", a) THEN {T!Load("Dashboard", NoKey, a, a)} ELSE {})
        /\ tabScreen' = "Dashboard" /\ tabKey' = NoKey /\ tabShown' = NoKey
    BY <2>1 DEF T!Open
  <2>3. "Dashboard" \in T!ScreenNames /\ "Dashboard" \notin T!OfOne
    BY ScreensNamed DEF T!OfOne
  <2>4. DataInv'
    BY <1>d, <2>2, <2>3, DataAnew
  <2>5. SentInv' /\ HereInv'
    BY <1>0, <2>1, SentSame, HereSame DEF HereInv
  <2>6. QED
    BY <2>4, <2>5, PagePartsAfter
<1>2. ASSUME T!SignOut PROVE T!PageInv'
  <2>1. DataInv'
    BY <1>2, DataGone DEF T!SignOut, T!ToLogin, T!Cancelled
  <2>2. SentInv' /\ ~tabForm'.here
    BY <1>0, <1>2, SentLeft DEF T!SignOut, T!ToLogin
  <2>3. QED
    BY <1>0, <2>1, <2>2, HereSame, PagePartsAfter
<1>3. ASSUME NEW s \in Walk, NEW k \in Keys \cup {NoKey}, T!Go(s, k) PROVE T!PageInv'
  <2>1. s \in T!ScreenNames /\ tabUser \in TabAccounts \cup {Nothing} /\ tabToken \in TabAccounts \cup {Nothing}
    BY <1>0 DEF T!TabParameters, PageOK
  <2>2. T!Open(s, k, tabUser, tabToken) /\ (s \in T!OfOne <=> k # NoKey)
    BY <1>3 DEF T!Go
  <2>3. /\ tabAsked' = T!Cancelled \cup (IF T!Shows(s, tabUser) THEN {T!Load(s, k, tabUser, tabToken)} ELSE {})
        /\ tabScreen' = s /\ tabKey' = k /\ tabShown' = NoKey
    BY <2>2 DEF T!Open
  <2>4. DataInv'
    <3>1. (s \in T!OfOne <=> k # NoKey) /\ k \in Keys \cup {NoKey} /\ s \in T!ScreenNames
      BY <2>1, <2>2
    <3>2. QED
      BY <1>d, <2>1, <2>3, <3>1, DataAnew
  <2>5. SentInv' /\ ~tabForm'.here
    BY <1>0, <1>3, SentLeft DEF T!Go
  <2>6. QED
    BY <1>0, <2>4, <2>5, HereSame, PagePartsAfter
<1>4. ASSUME NEW k \in Keys, T!Select(k) PROVE T!PageInv'
  <2>1. tabScreen \in T!ScreenNames /\ tabUser \in TabAccounts \cup {Nothing} /\ tabToken \in TabAccounts \cup
     {Nothing} /\ k \in Keys \cup {NoKey}
    BY <1>0 DEF PageOK
  <2>2. k # NoKey /\ (tabScreen \in T!OfOne <=> k # NoKey) /\ T!Shows(tabScreen, tabUser)
    BY <1>0, <1>4 DEF T!TabParameters, DataInv, T!Select
  <2>3. /\ tabAsked' = T!Cancelled \cup {T!Load(tabScreen, k, tabUser, tabToken)}
        /\ tabScreen' = tabScreen /\ tabKey' = k /\ UNCHANGED tabUser /\ (T!Leave \/ UNCHANGED tabForm)
    BY <1>4 DEF T!Select
  <2>4. tabAsked' = T!Cancelled \cup (IF T!Shows(tabScreen, tabUser) THEN {T!Load(tabScreen, k, tabUser, tabToken)} ELSE {})
    BY <2>2, <2>3
  <2>5. DataInv'
    BY <1>d, <2>1, <2>2, <2>3, <2>4, DataAnew
  <2>6. SentInv' /\ (UNCHANGED tabForm \/ ~tabForm'.here)
    BY <1>0, <2>3, SentSame, SentLeft
  <2>7. HereInv'
    BY <1>0, <2>3, <2>6, HereSame
  <2>8. QED
    BY <2>5, <2>6, <2>7, PagePartsAfter
<1>5. ASSUME NEW l \in tabAsked, T!Answered(l) PROVE T!PageInv'
  <2>1. CASE T!Refused(l.as) /\ l.live
    <3>1. /\ tabUser' = Nothing /\ tabScreen' = "Login" /\ tabKey' = NoKey /\ tabShown' = NoKey /\ tabAsked' = T!Dropped(tabAsked \ {l}) /\ T!Leave
      BY <1>5, <2>1 DEF T!Answered
    <3>2. DataInv'
      BY <3>1, DataGone
    <3>3. SentInv' /\ ~tabForm'.here
      BY <1>0, <3>1, SentLeft
    <3>4. QED
      BY <1>0, <3>2, <3>3, HereSame, PagePartsAfter
  <2>2. CASE T!Refused(l.as) /\ ~l.live
    <3>1. tabAsked' = tabAsked \ {l} /\ UNCHANGED <<tabUser, tabScreen, tabKey, tabShown, tabFailed, tabForm>>
      BY <1>5, <2>2 DEF T!Answered
    <3>2. T!Loading' <=> T!Loading
      BY <2>2, <3>1 DEF T!Loading
    <3>3. DataInv'
      BY <1>0, <3>1, <3>2 DEF DataInv, T!Shows, T!ShownIsAsked, T!Visible
    <3>4. SentInv' /\ HereInv'
      BY <1>0, <3>1, SentSame, HereSame
    <3>5. QED
      BY <3>3, <3>4, PagePartsAfter
  <2>3. CASE ~T!Refused(l.as)
    <3>1. DataInv'
      BY <1>0, <1>5, <2>3, AnsweredData
    <3>2. UNCHANGED <<tabUser, tabScreen, tabForm>>
      BY <1>5, <2>3 DEF T!Answered, T!tab
    <3>3. SentInv' /\ HereInv'
      BY <1>0, <3>2, SentSame, HereSame
    <3>4. QED
      BY <3>1, <3>3, PagePartsAfter
  <2>4. QED
    BY <2>1, <2>2, <2>3
<1>6. ASSUME NEW ops, ops \in T!Offers(tabScreen, T!Role(tabUser)), T!Submit(ops) PROVE T!PageInv'
  <2>1. /\ tabForm' = [ops |-> T!First(ops), on |-> tabScreen, who |-> tabUser, of |-> T!Target, seen |-> T!Visible, here |-> TRUE]
        /\ UNCHANGED <<tabUser, tabScreen, tabKey, tabShown, tabFailed, tabAsked>> /\ tabUser # Nothing /\ T!Visible = tabShown
    BY <1>6 DEF T!Submit, T!tab, T!query
  <2>2. T!Shows(tabScreen, tabUser)
    BY <1>6, OffersSay DEF T!Shows
  <2>3. HereInv'
    BY <2>1, <2>2 DEF HereInv, T!Shows, T!Role
  <2>4. tabScreen = "AddCustomer" => T!Target # NoKey
    BY <1>0 DEF DataInv, T!Target, T!OfOne
  <2>5. tabShown # NoKey /\ tabScreen \notin {"InvoiceDetail", "AgreementSign"} => T!Target = tabShown
    BY <1>0, <2>1, TargetShown
  <2>6. tabForm'.on = tabScreen /\ tabForm'.of = T!Target /\ tabForm'.seen = tabShown
    BY <2>1
  <2>7. SentInv'
    BY <2>4, <2>5, <2>6 DEF SentInv, T!ActsOnWhatItShows
  <2>8. DataInv'
    BY <1>0, <2>1, DataSame
  <2>9. QED
    BY <2>3, <2>7, <2>8, PagePartsAfter
<1>7. ASSUME UNCHANGED <<tabUser, tabScreen, tabKey, tabShown, tabFailed, tabAsked, tabForm>> PROVE T!PageInv'
  BY <1>0, <1>7, DataSame, SentSame, HereSame, PagePartsAfter
<1>8. ASSUME NEW t \in TabAccounts \cup {Nothing}, T!OtherTab(t) PROVE T!PageInv'
  BY <1>7, <1>8 DEF T!OtherTab, T!query
<1>9. ASSUME NEW a \in TabAccounts, T!EndAccount(a) PROVE T!PageInv'
  BY <1>7, <1>9 DEF T!EndAccount, T!tab, T!query
<1>10. ASSUME UNCHANGED T!vars PROVE T!PageInv'
  BY <1>7, <1>10 DEF T!vars, T!tab, T!query
<1>11. QED
  BY <1>1, <1>2, <1>3, <1>4, <1>5, <1>6, <1>8, <1>9, <1>10, PageSteps DEF T!Next

-----------------------------------------------------------------------------
(* What is next in CustomerForm's submission, and what is left then. *)
LEMMA TailOfOne == \A a : Head(<<a>>) = a /\ Tail(<<a>>) = <<>>
OBVIOUS

LEMMA TailOfTwo == \A a, b : Head(<<a, b>>) = a /\ Tail(<<a, b>>) = <<b>>
OBVIOUS

LEMMA TailOfThree == \A a, b, c : Head(<<a, b, c>>) = a /\ Tail(<<a, b, c>>) = <<b, c>>
OBVIOUS

LEMMA TailOfFour == \A a, b, c, d : Head(<<a, b, c, d>>) = a /\ Tail(<<a, b, c, d>>) = <<b, c, d>>
OBVIOUS

LEMMA TailOfFive == \A a, b, c, d, e : Head(<<a, b, c, d, e>>) = a /\ Tail(<<a, b, c, d, e>>) = <<b, c, d, e>>
OBVIOUS

LEMMA Prefixed == ASSUME NEW S, NEW t \in Seq(S), NEW a PROVE Head(<<a>> \o t) = a /\ Tail(<<a>> \o t) = t
<1>1. <<a>> \in Seq(S \cup {a}) /\ t \in Seq(S \cup {a})
  OBVIOUS
<1>2. QED
  BY <1>1

LEMMA Sequels ==
  /\ \A o \in T!Making : Head(o) = "createCustomer" /\ Tail(o) \in T!Phoning \cup T!Looking
  /\ \A o \in T!Patching : Head(o) = "updateCustomer" /\ Tail(o) \in T!Phoning \cup T!Looking
  /\ \A o \in T!Phoning : Head(o) = "setPhones" /\ Tail(o) \in T!Looking
  /\ \A o \in T!Looking : Head(o) = "getCustomerSummary" /\ Tail(o) \in T!Building /\ Tail(Tail(o)) \in T!Pinning \cup
     {<<>>}
  /\ \A o \in T!Building : Head(o) = "createProperty" /\ Tail(o) \in T!Pinning \cup {<<>>}
  /\ \A o \in T!Pinning : Head(o) = "updatePin" /\ Tail(o) = <<>>
<1> DEFINE p  == <<"updatePin">>
           b1 == <<"createProperty">>
           b2 == <<"createProperty", "updatePin">>
           l1 == <<"getCustomerSummary", "createProperty">>
           l2 == <<"getCustomerSummary", "createProperty", "updatePin">>
           s1 == <<"setPhones", "getCustomerSummary", "createProperty">>
           s2 == <<"setPhones", "getCustomerSummary", "createProperty", "updatePin">>
           m1 == <<"createCustomer", "getCustomerSummary", "createProperty">>
           m2 == <<"createCustomer", "getCustomerSummary", "createProperty", "updatePin">>
           m3 == <<"createCustomer", "setPhones", "getCustomerSummary", "createProperty">>
           m4 == <<"createCustomer", "setPhones", "getCustomerSummary", "createProperty", "updatePin">>
<1>1. T!Pinning = {p} /\ T!Building = {b1, b2} /\ T!Looking = {l1, l2} /\ T!Phoning = {s1, s2} /\ T!Making = {m1, m2, m3, m4}
  BY Zenon DEF T!Pinning, T!Building, T!Looking, T!Phoning, T!Making
<1>2. Head(p) = "updatePin" /\ Tail(p) = <<>> /\ Head(b1) = "createProperty" /\ Tail(b1) = <<>>
  BY TailOfOne, Zenon
<1>3. Head(b2) = "createProperty" /\ Tail(b2) = p /\ Head(l1) = "getCustomerSummary" /\ Tail(l1) = b1
  BY TailOfTwo, Zenon
<1>4. Head(l2) = "getCustomerSummary" /\ Tail(l2) = b2
  BY TailOfThree, Zenon
<1>5. Head(s1) = "setPhones" /\ Tail(s1) = l1 /\ Head(m1) = "createCustomer" /\ Tail(m1) = l1
  BY TailOfThree, Zenon
<1>6. Head(s2) = "setPhones" /\ Tail(s2) = l2 /\ Head(m2) = "createCustomer" /\ Tail(m2) = l2
  BY TailOfFour, Zenon
<1>7. Head(m3) = "createCustomer" /\ Tail(m3) = s1
  BY TailOfFour, Zenon
<1>8. Head(m4) = "createCustomer" /\ Tail(m4) = s2
  <2>1. /\ Head(<<"createCustomer", "setPhones", "getCustomerSummary", "createProperty", "updatePin">>) = "createCustomer"
        /\ Tail(<<"createCustomer", "setPhones", "getCustomerSummary", "createProperty", "updatePin">>)
             = <<"setPhones", "getCustomerSummary", "createProperty", "updatePin">>
    BY TailOfFive
  <2>2. QED
    BY <2>1, Zenon
<1>9. \E S : l1 \in Seq(S) /\ l2 \in Seq(S) /\ s1 \in Seq(S) /\ s2 \in Seq(S)
  <2> DEFINE S == {"setPhones", "getCustomerSummary", "createProperty", "updatePin"}
  <2>1. l1 \in Seq(S) /\ l2 \in Seq(S) /\ s1 \in Seq(S) /\ s2 \in Seq(S)
    OBVIOUS
  <2>2. QED
    BY <2>1
<1> HIDE DEF p, b1, b2, l1, l2, s1, s2, m1, m2, m3, m4
<1>10. \A o \in T!Making : Tail(o) \in {l1, l2, s1, s2}
  BY <1>1, <1>5, <1>6, <1>7, <1>8
<1>11. \A o \in T!Patching : Head(o) = "updateCustomer" /\ Tail(o) \in {l1, l2, s1, s2}
  <2>1. PICK S : l1 \in Seq(S) /\ l2 \in Seq(S) /\ s1 \in Seq(S) /\ s2 \in Seq(S)
    BY <1>9
  <2>2. \A t \in {l1, l2, s1, s2} : Head(<<"updateCustomer">> \o t) = "updateCustomer" /\ Tail(<<"updateCustomer">> \o t) = t
    <3>1. \A t \in {l1, l2, s1, s2} : t \in Seq(S)
      BY <2>1
    <3>2. QED
      BY <3>1, Prefixed
  <2>3. ASSUME NEW o \in T!Patching PROVE Head(o) = "updateCustomer" /\ Tail(o) \in {l1, l2, s1, s2}
    <3>1. PICK m \in T!Making : o = <<"updateCustomer">> \o Tail(m)
      BY DEF T!Patching
    <3>2. Tail(m) \in {l1, l2, s1, s2}
      BY <1>10
    <3>3. QED
      BY <2>2, <3>1, <3>2, Zenon
  <2>4. QED
    BY <2>3
<1>12. QED
  BY <1>1, <1>2, <1>3, <1>4, <1>5, <1>6, <1>7, <1>8, <1>11

(* Next requests differ, and so do the forms that wait for them. *)
LEMMA SequelsApart ==
  /\ T!Making \cap (T!Patching \cup T!Phoning \cup T!Looking \cup T!Building \cup T!Pinning) = {}
  /\ T!Building \cap (T!Making \cup T!Patching \cup T!Phoning \cup T!Looking \cup T!Pinning) = {}
BY Sequels

(* AddingInv, when nothing of it is written. *)
LEMMA AddingSame ==
  ASSUME T!AddingInv, UNCHANGED <<tabCustomers, tabHouses, tabLost, tabSaved>>, tabForm' = tabForm \/ tabForm' = T!Idle \/ ~tabForm'.here
  PROVE  T!AddingInv'
BY IdleTyped DEF T!AddingInv

LEMMA AddingNone ==
  ASSUME tabCustomers' = 0, tabHouses' = 0, tabLost' = 0, ~tabForm'.here
  PROVE  T!AddingInv'
BY DEF T!AddingInv

LEMMA AddingStep == T!TabTypeOK /\ T!AddingInv /\ [T!Next]_T!vars => T!AddingInv'
<1> SUFFICES ASSUME T!TabParameters, T!TabTypeOK, T!AddingInv, [T!Next]_T!vars PROVE T!AddingInv'
  BY TabAssumption
<1>0. tabCustomers \in Nat /\ tabHouses \in Nat /\ tabLost \in Nat /\ tabSaved \in BOOLEAN /\ FormOK
  BY TabParts DEF AddedOK
<1>1. ASSUME UNCHANGED <<tabCustomers, tabHouses, tabLost, tabSaved>>, tabForm' = tabForm \/ tabForm' = T!Idle PROVE T!AddingInv'
  BY <1>1, AddingSame
<1>2. ASSUME T!Leave PROVE T!AddingInv'
  BY <1>2, AddingNone, LeaveTyped DEF T!Leave
<1>3. ASSUME NEW l \in tabAsked, T!Answered(l) PROVE T!AddingInv'
  BY <1>1, <1>2, <1>3 DEF T!Answered, T!adding
<1>4. ASSUME NEW ops, ops \in T!Offers(tabScreen, T!Role(tabUser)), T!Submit(ops) PROVE T!AddingInv'
  <2>1. /\ tabForm' = [ops |-> T!First(ops), on |-> tabScreen, who |-> tabUser, of |-> T!Target, seen |-> T!Visible, here |-> TRUE]
        /\ UNCHANGED <<tabCustomers, tabHouses, tabLost, tabSaved>>
    BY <1>4 DEF T!Submit, T!adding
  <2>2. tabForm'.ops = T!First(ops) /\ tabForm'.on = tabScreen
    BY <2>1
  <2>3. ASSUME tabScreen = "AddCustomer"
        PROVE  T!First(ops) \in T!Making \cup T!Patching /\ (T!First(ops) \in T!Making => ~tabSaved)
    <3>1. ops \in T!Making
      BY <1>4, <2>3, OffersSay
    <3>2. Head(ops) = "createCustomer" /\ <<"updateCustomer">> \o Tail(ops) \in T!Patching
      BY <3>1, Sequels DEF T!Patching
    <3>3. CASE tabSaved
      BY <3>2, <3>3, SequelsApart DEF T!First
    <3>4. CASE ~tabSaved
      BY <3>1, <3>4 DEF T!First
    <3>5. QED
      BY <1>0, <3>3, <3>4
  <2>4. tabScreen = "AddCustomer" => T!First(ops) \notin T!Building
    BY <2>3, SequelsApart
  <2>5. QED
    BY <2>1, <2>2, <2>3, <2>4 DEF T!AddingInv
<1> DEFINE mine == tabForm.here /\ tabForm.on = "AddCustomer"
           op   == Head(tabForm.ops)
<1>5. mine => /\ tabForm.ops \in T!Making \cup T!Patching \cup T!Phoning \cup T!Looking \cup T!Building \cup T!Pinning
              /\ op = "createCustomer" <=> tabForm.ops \in T!Making
              /\ op = "createProperty" <=> tabForm.ops \in T!Building
              /\ tabForm.ops \in T!Making => ~tabSaved /\ tabCustomers <= tabLost
              /\ tabForm.ops \in T!Building => tabHouses = 0
  BY Sequels DEF T!AddingInv
<1>6. ASSUME T!StepDone PROVE T!AddingInv'
  <2>1. CASE T!Finish /\ tabForm.on = "AddCustomer" /\ tabUser # Nothing
    BY <2>1, IdleTyped, AddingNone DEF T!Finish
  <2>2. CASE T!Finish /\ ~(tabForm.on = "AddCustomer" /\ tabUser # Nothing)
    BY <1>1, <2>2 DEF T!Finish, T!adding
  <2>3. CASE /\ T!Remaining # <<>> /\ tabForm' = [tabForm EXCEPT !.ops = T!Remaining] /\ T!Wrote(op)
             /\ tabSaved' = (tabSaved \/ (op = "createCustomer" /\ tabForm.here)) /\ tabLost' = tabLost
    <3>1. tabForm'.ops = T!Remaining /\ tabForm'.here = tabForm.here /\ tabForm'.on = tabForm.on
      BY <1>0, <2>3 DEF FormOK, T!Form
    <3>2. CASE ~mine
      <4>1. UNCHANGED <<tabCustomers, tabHouses, tabLost>>
        BY <2>3, <3>2 DEF T!Wrote
      <4>2. QED
        BY <1>0, <2>3, <3>1, <3>2, <4>1 DEF T!AddingInv
    <3>3. CASE mine /\ tabForm.ops \in T!Making
      <4>1. op = "createCustomer" /\ T!Remaining \in T!Phoning \cup T!Looking
        BY <3>3, Sequels DEF T!Remaining
      <4>2. tabCustomers' = tabCustomers + 1 /\ tabHouses' = 0 /\ tabSaved'
        BY <2>3, <3>3, <4>1 DEF T!Wrote
      <4>3. T!Remaining \notin T!Making \cup T!Building
        BY <4>1, SequelsApart
      <4>4. tabCustomers <= tabLost
        BY <1>5, <3>3
      <4>5. QED
        BY <1>0, <2>3, <3>1, <4>1, <4>2, <4>3, <4>4 DEF T!AddingInv
    <3>4. CASE mine /\ tabForm.ops \in T!Patching \cup T!Phoning
      <4>1. op # "createCustomer" /\ op # "createProperty" /\ T!Remaining \in T!Phoning \cup T!Looking
        BY <3>4, Sequels DEF T!Remaining
      <4>2. tabCustomers' = tabCustomers /\ tabHouses' = tabHouses /\ tabSaved' = tabSaved
        BY <1>0, <2>3, <3>4, <4>1 DEF T!Wrote
      <4>3. T!Remaining \notin T!Making \cup T!Building
        BY <4>1, SequelsApart
      <4>4. QED
        BY <1>0, <2>3, <3>1, <4>1, <4>2, <4>3 DEF T!AddingInv
    <3>5. CASE mine /\ tabForm.ops \in T!Looking
      <4>1. op = "getCustomerSummary" /\ T!Remaining \in T!Building \cup
     T!Pinning /\ (T!Remaining \in T!Building => tabHouses = 0)
        <5>1. op = "getCustomerSummary" /\ Tail(tabForm.ops) \in T!Building /\ Tail(Tail(tabForm.ops)) \in T!Pinning \cup
     {<<>>}
          BY <3>5, Sequels
        <5>2. CASE tabHouses > 0
          <6>1. T!Remaining = Tail(Tail(tabForm.ops))
            BY <3>5, <5>1, <5>2 DEF T!Remaining
          <6>2. T!Remaining \in T!Pinning
            BY <2>3, <5>1, <6>1
          <6>3. QED
            BY <5>1, <6>2, SequelsApart
        <5>3. CASE tabHouses = 0
          BY <3>5, <5>1, <5>3 DEF T!Remaining
        <5>4. QED
          BY <1>0, <5>2, <5>3
      <4>2. tabCustomers' = tabCustomers /\ tabHouses' = tabHouses /\ tabSaved' = tabSaved
        BY <1>0, <2>3, <3>5, <4>1 DEF T!Wrote
      <4>3. T!Remaining \notin T!Making
        BY <4>1, SequelsApart
      <4>4. QED
        BY <1>0, <2>3, <3>1, <4>1, <4>2, <4>3 DEF T!AddingInv
    <3>6. CASE mine /\ tabForm.ops \in T!Building
      <4>1. op = "createProperty" /\ T!Remaining \in T!Pinning /\ tabHouses = 0
        BY <1>5, <2>3, <3>6, Sequels DEF T!Remaining
      <4>2. tabCustomers' = tabCustomers /\ tabHouses' = 1 /\ tabSaved' = tabSaved
        BY <1>0, <2>3, <3>6, <4>1 DEF T!Wrote
      <4>3. T!Remaining \notin T!Making \cup T!Building
        BY <4>1, SequelsApart
      <4>4. QED
        BY <1>0, <2>3, <3>1, <4>1, <4>2, <4>3 DEF T!AddingInv
    <3>7. ~(mine /\ tabForm.ops \in T!Pinning)
      BY <2>3, Sequels DEF T!Remaining
    <3>8. QED
      BY <1>5, <3>2, <3>3, <3>4, <3>5, <3>6, <3>7
  <2>4. QED
    BY <1>6, <2>1, <2>2, <2>3 DEF T!StepDone
<1>7. ASSUME T!StepLost PROVE T!AddingInv'
  <2>1. tabForm' = T!Idle /\ tabLost' = (IF tabForm.here THEN tabLost + 1 ELSE tabLost) /\ UNCHANGED tabSaved
    BY <1>7 DEF T!StepLost
  <2>2. CASE UNCHANGED <<tabCustomers, tabHouses>>
    BY <1>0, <2>1, <2>2, IdleTyped DEF T!AddingInv
  <2>3. CASE T!Wrote(op)
    <3>1. CASE ~mine
      BY <1>0, <2>2, <2>3, <3>1 DEF T!Wrote
    <3>2. CASE mine
      <4>1. /\ tabCustomers' = tabCustomers + (IF op = "createCustomer" THEN 1 ELSE 0)
            /\ tabHouses' = (IF op = "createCustomer" THEN 0 ELSE tabHouses + (IF op = "createProperty" THEN 1 ELSE 0))
        BY <2>3, <3>2 DEF T!Wrote
      <4>2. tabLost' = tabLost + 1
        BY <2>1, <3>2
      <4>3. tabCustomers' <= 1 + tabLost' /\ tabHouses' <= 1 /\ (~tabSaved' => tabCustomers' <= tabLost')
        BY <1>0, <1>5, <2>1, <3>2, <4>1, <4>2 DEF T!AddingInv
      <4>4. QED
        BY <2>1, <4>3, IdleTyped DEF T!AddingInv
    <3>3. QED
      BY <3>1, <3>2
  <2>4. QED
    BY <1>7, <2>2, <2>3 DEF T!StepLost
<1>8. ASSUME T!StepUnauthenticated PROVE T!AddingInv'
  BY <1>8, IdleTyped, AddingNone DEF T!StepUnauthenticated
<1>9. ASSUME T!StepRefused PROVE T!AddingInv'
  BY <1>1, <1>9 DEF T!StepRefused, T!adding
<1>10. ASSUME NEW a \in TabAccounts, T!SignIn(a) PROVE T!AddingInv'
  BY <1>1, <1>10 DEF T!SignIn, T!adding
<1>11. ASSUME NEW s \in Walk, NEW k \in Keys \cup {NoKey}, T!Go(s, k) PROVE T!AddingInv'
  BY <1>2, <1>11 DEF T!Go
<1>12. ASSUME NEW k \in Keys, T!Select(k) PROVE T!AddingInv'
  BY <1>1, <1>2, <1>12 DEF T!Select, T!adding
<1>13. ASSUME NEW t \in TabAccounts \cup {Nothing}, T!OtherTab(t) PROVE T!AddingInv'
  BY <1>1, <1>13 DEF T!OtherTab, T!adding
<1>14. ASSUME NEW a \in TabAccounts, T!EndAccount(a) PROVE T!AddingInv'
  BY <1>1, <1>14 DEF T!EndAccount, T!adding
<1>15. ASSUME UNCHANGED T!vars PROVE T!AddingInv'
  BY <1>1, <1>15 DEF T!vars, T!adding
<1>16. ASSUME T!SignOut PROVE T!AddingInv'
  BY <1>2, <1>16 DEF T!SignOut, T!ToLogin
<1>17. QED
  BY <1>3, <1>4, <1>6, <1>7, <1>8, <1>9, <1>10, <1>11, <1>12, <1>13, <1>14, <1>15, <1>16 DEF T!Next

-----------------------------------------------------------------------------
(* A tab's variables keep their types. *)
THEOREM TabStaysTyped == T!Spec => []T!TabTypeOK
<1>1. QED
  BY TabStarts, TabTyped, PTL DEF T!Spec

(* Whatever loads answer late and in whatever order, the page shows the    *)
(* record in its address and its buttons act on the record it shows        *)
(* (client/src/lib/useQuery.ts).                                           *)
THEOREM TabPageIsTrue == T!Spec => [](T!ShownIsAsked /\ T!ActsOnWhatItShows)
<1>1. T!PageInv => T!ShownIsAsked /\ T!ActsOnWhatItShows
  BY DEF T!PageInv
<1>2. QED
  BY <1>1, TabStarts, TabTyped, PageStarts, PageStep, PTL DEF T!Spec

(* A new customer's form, pressed again after whichever of its requests    *)
(* failed, adds neither the customer nor the house twice, but for answers  *)
(* that never came (client/src/routes/AddCustomer.tsx).                    *)
THEOREM TabAddsNothingTwice == T!Spec => []T!AddedOnce
<1>1. T!Init => T!AddingInv
  BY IdleTyped DEF T!Init, T!AddingInv
<1>2. T!TabTypeOK /\ T!AddingInv => T!AddedOnce
  BY TabParts DEF T!AddingInv, T!AddedOnce, AddedOK
<1>3. QED
  BY <1>1, <1>2, TabStarts, TabTyped, AddingStep, PTL DEF T!Spec

-----------------------------------------------------------------------------
(* The process (Process). *)
LEMMA ProcessStarts == J!Init => J!ProcessTypeOK /\ J!DrainInv
BY ProcessAssumption DEF J!Init, J!ProcessTypeOK, J!DrainInv, J!Unsent, J!Past, J!CallAt

LEMMA ProcessTyped ==
  ASSUME J!ProcessTypeOK, J!DrainInv, [J!Next]_J!processVars
  PROVE  J!ProcessTypeOK'
<1>1. ASSUME NEW j \in Names, J!StartJob(j) PROVE J!ProcessTypeOK'
  BY <1>1, ProcessAssumption DEF J!StartJob, J!ProcessTypeOK
<1>2. ASSUME NEW j \in Names, J!EndJob(j) PROVE J!ProcessTypeOK'
  <2>1. processCopies' \in [Names -> Nat]
    BY <1>2 DEF J!EndJob, J!ProcessTypeOK
  <2>2. processHandler' \in [Signals -> [at : {"unsent", "closing", "draining", "closed"}, waits : SUBSET Names]]
    BY <1>2 DEF J!EndJob, J!ProcessTypeOK
  <2>3. QED
    BY <1>2, <2>1, <2>2 DEF J!EndJob, J!ProcessTypeOK
<1>3. ASSUME NEW g \in Signals, J!Shutdown(g) \/ J!Drain(g) \/ J!Exit(g) PROVE J!ProcessTypeOK'
  <2>1. processHandler' \in [Signals -> [at : {"unsent", "closing", "draining", "closed"}, waits : SUBSET Names]]
    <3>1. CASE J!Drain(g)
      <4>1. [at |-> "draining", waits |-> IF processStopping THEN {} ELSE processInFlight]
              \in [at : {"unsent", "closing", "draining", "closed"}, waits : SUBSET Names]
        BY DEF J!ProcessTypeOK
      <4>2. QED
        BY <3>1, <4>1 DEF J!Drain, J!ProcessTypeOK
    <3>2. CASE J!Shutdown(g) \/ J!Exit(g)
      BY <3>2 DEF J!Shutdown, J!Exit, J!ProcessTypeOK
    <3>3. QED
      BY <1>3, <3>1, <3>2
  <2>2. QED
    BY <1>3, <2>1 DEF J!Shutdown, J!Drain, J!Exit, J!ProcessTypeOK
<1>4. CASE (\E c \in Connections : J!Connect(c) \/ J!Disconnect(c)) \/ J!ForceExit \/ UNCHANGED J!processVars
  BY <1>4 DEF J!Connect, J!Disconnect, J!ForceExit, J!processVars, J!ProcessTypeOK
<1>5. QED
  BY <1>1, <1>2, <1>3, <1>4 DEF J!Next

LEMMA DrainInvKept ==
  ASSUME J!ProcessTypeOK, J!DrainInv, [J!Next]_J!processVars
  PROVE  J!DrainInv'
<1>1. ASSUME NEW j \in Names, J!StartJob(j) PROVE J!DrainInv'
  <2>1. ~processStopping /\ j \notin processInFlight
    BY <1>1 DEF J!StartJob, J!MayStart
  <2>2. \A k \in Names : processCopies'[k] = IF k \in processInFlight' THEN 1 ELSE 0
    BY <1>1, <2>1 DEF J!StartJob, J!DrainInv, J!ProcessTypeOK
  <2>3. UNCHANGED <<processHandler, processStopping, processExit>> /\ processExit = "up"
    BY <1>1 DEF J!StartJob, J!Up
  <2>4. \A g \in Signals : processHandler[g].at \notin {"draining", "closed"}
    BY <2>1 DEF J!DrainInv, J!Past
  <2>5. \A g \in Signals : processHandler'[g].at \notin {"draining", "closed"}
    BY <2>3, <2>4
  <2>6. ~processStopping'
    BY <2>1, <2>3, Zenon
  <2>7. processExit' # "clean"
    BY <2>3
  <2>8. QED
    BY <2>2, <2>5, <2>6, <2>7 DEF J!DrainInv, J!Past
<1>2. ASSUME NEW j \in Names, J!EndJob(j) PROVE J!DrainInv'
  <2>1. \A k \in Names : processCopies'[k] = IF k \in processInFlight' THEN 1 ELSE 0
    BY <1>2 DEF J!EndJob, J!DrainInv, J!ProcessTypeOK
  <2>2. \A g \in Signals : /\ processHandler'[g].at = processHandler[g].at
                           /\ processHandler'[g].waits = processHandler[g].waits \ {j}
    BY <1>2 DEF J!EndJob, J!ProcessTypeOK
  <2>3. UNCHANGED <<processStopping, processExit>> /\ processInFlight' = processInFlight \ {j} /\ processExit' # "clean"
    BY <1>2 DEF J!EndJob, J!Up
  <2>4. processStopping' <=> \E g \in Signals : J!Past(g)'
    BY <2>2, <2>3 DEF J!DrainInv, J!Past
  <2>5. ASSUME NEW g \in Signals, processHandler'[g].at \in {"draining", "closed"},
               \A h \in Signals \ {g} : processHandler'[h].at = "unsent"
        PROVE  processHandler'[g].waits = processInFlight'
    <3>1. processHandler[g].waits = processInFlight
      BY <2>2, <2>5 DEF J!DrainInv, J!Past, J!CallAt
    <3>2. QED
      BY <2>2, <2>3, <3>1
  <2>6. QED
    BY <2>1, <2>3, <2>4, <2>5 DEF J!DrainInv, J!Past, J!CallAt
<1>3. ASSUME NEW g \in Signals, J!Shutdown(g) PROVE J!DrainInv'
  <2>1. /\ processHandler'[g].at = "closing" /\ processHandler[g].at = "unsent"
        /\ \A h \in Signals \ {g} : processHandler'[h] = processHandler[h]
    BY <1>3 DEF J!Shutdown, J!CallAt, J!ProcessTypeOK
  <2>2. QED
    BY <1>3, <2>1 DEF J!Shutdown, J!DrainInv, J!Past, J!CallAt, J!Up
<1>4. ASSUME NEW g \in Signals, J!Drain(g) PROVE J!DrainInv'
  <2>1. /\ processHandler'[g].at = "draining" /\ processHandler[g].at = "closing"
        /\ processHandler'[g].waits = IF processStopping THEN {} ELSE processInFlight
        /\ \A h \in Signals \ {g} : processHandler'[h] = processHandler[h]
    BY <1>4 DEF J!Drain, J!CallAt, J!ProcessTypeOK
  <2>2. processStopping => \E h \in Signals \ {g} : J!Past(h)
    BY <2>1 DEF J!DrainInv, J!Past
  <2>3. processStopping => ~\A h \in Signals \ {g} : J!CallAt(h, "unsent")'
    BY <2>1, <2>2 DEF J!Past, J!CallAt
  <2>4. QED
    BY <1>4, <2>1, <2>3 DEF J!Drain, J!DrainInv, J!Past, J!CallAt, J!Up
<1>5. ASSUME NEW g \in Signals, J!Exit(g) PROVE J!DrainInv'
  <2>1. /\ processHandler'[g].at = "closed" /\ processHandler[g].at = "draining"
        /\ processHandler'[g].waits = {} /\ processHandler[g].waits = {}
        /\ \A h \in Signals \ {g} : processHandler'[h] = processHandler[h]
    BY <1>5 DEF J!Exit, J!CallAt, J!ProcessTypeOK
  <2>2. QED
    BY <1>5, <2>1 DEF J!Exit, J!DrainInv, J!Past, J!CallAt
<1>6. CASE (\E c \in Connections : J!Connect(c) \/ J!Disconnect(c)) \/ J!ForceExit \/ UNCHANGED J!processVars
  BY <1>6 DEF J!Connect, J!Disconnect, J!ForceExit, J!processVars, J!DrainInv, J!Past, J!CallAt
<1>7. QED
  BY <1>1, <1>2, <1>3, <1>4, <1>5, <1>6 DEF J!Next

(* Of the calls of shutdown at most one was made: the rest are unsent. *)
LEMMA OneCall ==
  ASSUME J!AskedOnce, NEW g \in Signals, ~J!CallAt(g, "unsent")
  PROVE  \A h \in Signals \ {g} : J!CallAt(h, "unsent")
<1> DEFINE made == {h \in Signals : ~J!CallAt(h, "unsent")}
<1>1. Cardinality(made) <= 1
  BY DEF J!AskedOnce, J!Cardinality, Cardinality
<1>2. IsFiniteSet(made)
  BY ProcessAssumption, FS_Subset
<1>3. SUFFICES ASSUME NEW h \in Signals \ {g}, ~J!CallAt(h, "unsent") PROVE FALSE
  OBVIOUS
<1>4. IsFiniteSet({g}) /\ Cardinality({g}) = 1 /\ h \notin {g}
  BY <1>3, FS_Singleton
<1>5. IsFiniteSet({g} \cup {h}) /\ Cardinality({g} \cup {h}) = 2
  BY <1>4, FS_AddElement
<1>6. Cardinality({g} \cup {h}) <= Cardinality(made)
  BY <1>2, <1>3, FS_Subset
<1>7. Cardinality(made) \in Nat
  BY <1>2, FS_CardinalityType
<1>8. QED
  BY <1>1, <1>5, <1>6, <1>7

LEMMA NothingIsCut == J!ProcessTypeOK /\ J!DrainInv => J!CleanExit
<1> SUFFICES ASSUME J!ProcessTypeOK, J!DrainInv PROVE J!CleanExit
  OBVIOUS
<1>1. \A j \in Names : processCopies[j] <= 1
  BY DEF J!DrainInv
<1>2. ASSUME processExit = "clean", J!AskedOnce PROVE \A j \in Names : processCopies[j] = 0
  <2>1. PICK g \in Signals : J!Past(g) /\ processHandler[g].waits = {}
    BY <1>2 DEF J!DrainInv
  <2>2. \A h \in Signals \ {g} : J!CallAt(h, "unsent")
    BY <1>2, <2>1, OneCall DEF J!Past, J!CallAt
  <2>3. processInFlight = {}
    BY <2>1, <2>2 DEF J!DrainInv
  <2>4. QED
    BY <2>3 DEF J!DrainInv
<1>3. QED
  BY <1>1, <1>2 DEF J!CleanExit

(* Jobs, connections and the signals' handlers keep their types            *)
(* (jobs/scheduler.ts, server.ts).                                         *)
THEOREM ProcessStaysTyped == J!Spec => []J!ProcessTypeOK
<1>1. J!ProcessTypeOK /\ J!DrainInv /\ [J!Next]_J!processVars => J!ProcessTypeOK' /\ J!DrainInv'
  BY ProcessTyped, DrainInvKept
<1>2. QED
  BY <1>1, ProcessStarts, PTL DEF J!Spec

(* A process asked to stop once, however many jobs it was running and      *)
(* connections it held, leaves none half done, and never runs a job on top *)
(* of itself (scheduler.ts, server.ts).                                    *)
THEOREM ExitIsClean == J!Spec => []J!CleanExit
<1>1. J!Init => J!ProcessTypeOK /\ J!DrainInv
  BY ProcessStarts
<1>2. J!ProcessTypeOK /\ J!DrainInv /\ [J!Next]_J!processVars => J!ProcessTypeOK' /\ J!DrainInv'
  BY ProcessTyped, DrainInvKept
<1>3. J!ProcessTypeOK /\ J!DrainInv => J!CleanExit
  BY NothingIsCut
<1>4. QED
  BY <1>1, <1>2, <1>3, PTL DEF J!Spec

-----------------------------------------------------------------------------
(* The crews' visits (Visits). *)
LEMMA VisitsStart == V!Init => V!VisitsTypeOK /\ V!DecidedInv
<1> SUFFICES ASSUME V!Init PROVE V!VisitsTypeOK /\ V!DecidedInv
  OBVIOUS
<1>1. V!VisitsTypeOK
  BY VisitsAssumption DEF V!Init, V!VisitsTypeOK
<1>2. V!None.status = "none" /\ V!Idle.op = "idle"
  BY DEF V!None, V!Idle
<1>3. V!DecidedInv
  BY <1>2 DEF V!Init, V!DecidedInv, V!Holds
<1>4. QED
  BY <1>1, <1>3

(* What a request that holds a row has decided. *)
LEMMA Decided ==
  ASSUME V!VisitsTypeOK, NEW r \in VisitRequests
  PROVE  /\ visitsHandling[r] = V!Idle => visitsHandling[r].op = "idle"
         /\ visitsHandling[r].op \in {"idle", "create", "update", "status", "photo"}
         /\ V!Holds(r) => visitsHandling[r].about \in Visits
         /\ visitsHandling[r].op \in {"create", "update"} => visitsHandling[r].who \in Crews \cup {Unassigned}
         /\ visitsHandling[r].op \in {"status", "photo"} => visitsHandling[r].by \in Crews \cup Dispatchers
         /\ visitsHandling[r].op = "status" => visitsHandling[r].to \in V!Statuses
         /\ visitsHandling[r].op = "photo" => visitsHandling[r].photo \in Photos
BY DEF V!VisitsTypeOK, V!Idle, V!Decisions, V!Holds

LEMMA OrderTyped ==
  ASSUME V!VisitsTypeOK, NEW v \in Visits
  PROVE  /\ visitsOrder[v] \in {V!None} \cup V!Orders
         /\ V!Booked(v) <=> visitsOrder[v] \in V!Orders
         /\ ~V!Booked(v) => visitsOrder[v].status = "none"
         /\ V!Booked(v) => visitsOrder[v].status \in V!Statuses
BY DEF V!VisitsTypeOK, V!Booked, V!None, V!Orders, V!Statuses

(* What a write makes of the row it holds. *)
LEMMA WriteMakes ==
  ASSUME V!VisitsTypeOK, V!DecidedInv, NEW r \in VisitRequests, V!Write(r)
  PROVE  LET d == visitsHandling[r] IN
         /\ V!Holds(r) /\ d.about \in Visits /\ V!StillStands(d)
         /\ visitsHandling'[r] = V!Idle /\ \A s \in VisitRequests \ {r} : visitsHandling'[s] = visitsHandling[s]
         /\ visitsOrder' = [visitsOrder EXCEPT ![d.about] = visitsOrder'[d.about]]
         /\ visitsOrder'[d.about] \in V!Orders
         /\ visitsOrder[d.about].status \in V!Open
         /\ d.op = "status" => /\ visitsOrder'[d.about].status = d.to
                               /\ visitsOrder'[d.about].photos = visitsOrder[d.about].photos
         /\ d.op # "status" => visitsOrder'[d.about].status = visitsOrder[d.about].status
<1> DEFINE d == visitsHandling[r]
           old == visitsOrder[d.about]
<1>1. V!Holds(r) /\ d.about \in Visits /\ V!StillStands(d)
  BY Decided DEF V!Write, V!Holds, V!DecidedInv
<1>2. old \in V!Orders /\ V!Booked(d.about)
  BY <1>1, OrderTyped DEF V!StillStands
<1>3. visitsOrder'[d.about] = V!Written(d, old) /\ visitsOrder' = [visitsOrder EXCEPT ![d.about] = visitsOrder'[d.about]]
  BY <1>1, <1>2 DEF V!Write, V!VisitsTypeOK
<1>4. visitsHandling'[r] = V!Idle /\ \A s \in VisitRequests \ {r} : visitsHandling'[s] = visitsHandling[s]
  BY DEF V!Write, V!Finish, V!VisitsTypeOK
<1>5. CASE d.op = "update"
  <2>1. V!Written(d, old) = [old EXCEPT !.who = d.who] /\ d.who \in Crews \cup {Unassigned}
    BY <1>5, Decided DEF V!Written
  <2>2. [old EXCEPT !.who = d.who] \in V!Orders /\ [old EXCEPT !.who = d.who].status = old.status
    BY <1>2, <2>1 DEF V!Orders
  <2>3. old.status \in V!Open
    BY <1>1, <1>5 DEF V!StillStands, V!IsOpen
  <2>4. QED
    BY <1>1, <1>3, <1>4, <1>5, <2>1, <2>2, <2>3
<1>6. CASE d.op = "photo"
  <2>1. V!Written(d, old) = [old EXCEPT !.photos = @ \cup {d.photo}] /\ d.photo \in Photos
    BY <1>6, Decided DEF V!Written
  <2>2. [old EXCEPT !.photos = @ \cup {d.photo}] \in V!Orders /\ [old EXCEPT !.photos = @ \cup {d.photo}].status = old.status
    BY <1>2, <2>1 DEF V!Orders
  <2>3. old.status \in V!Open
    BY <1>1, <1>6 DEF V!StillStands, V!IsOpen
  <2>4. QED
    BY <1>1, <1>3, <1>4, <1>6, <2>1, <2>2, <2>3
<1>7. CASE d.op = "status"
  <2>1. V!Written(d, old) = [old EXCEPT !.status = d.to] /\ d.to \in V!Statuses
    BY <1>7, Decided DEF V!Written
  <2>2. /\ [old EXCEPT !.status = d.to] \in V!Orders /\ [old EXCEPT !.status = d.to].status = d.to
        /\ [old EXCEPT !.status = d.to].photos = old.photos
    BY <1>2, <2>1 DEF V!Orders
  <2>3. d.to \in V!Moves(old.status)
    BY <1>1, <1>7 DEF V!StillStands
  <2>4. old.status \in V!Open
    BY <2>3 DEF V!Moves, V!Open
  <2>5. QED
    BY <1>1, <1>3, <1>4, <1>7, <2>1, <2>2, <2>4
<1>8. QED
  BY <1>1, <1>5, <1>6, <1>7 DEF V!Holds

LEMMA VisitsTyped ==
  ASSUME V!VisitsTypeOK, V!DecidedInv, [V!Next]_V!visitVars
  PROVE  V!VisitsTypeOK'
<1>1. ASSUME NEW r \in VisitRequests, NEW d \in {V!Idle} \cup V!Decisions, visitsHandling' = [visitsHandling EXCEPT ![r] = d]
      PROVE  visitsHandling' \in [VisitRequests -> {V!Idle} \cup V!Decisions]
  BY <1>1 DEF V!VisitsTypeOK
<1>2. ASSUME NEW r \in VisitRequests, NEW o \in Crews \cup {Unassigned}, V!ReadGate(r, o) PROVE V!VisitsTypeOK'
  <2>1. [op |-> "create", who |-> o] \in V!Decisions
    BY DEF V!Decisions
  <2>2. QED
    BY <1>1, <1>2, <2>1 DEF V!ReadGate, V!Decide, V!VisitsTypeOK
<1>3. ASSUME NEW r \in VisitRequests, NEW o \in Crews \cup {Unassigned}, NEW v \in Visits, V!UpdateOrder(r, v, o)
      PROVE  V!VisitsTypeOK'
  <2>1. [op |-> "update", about |-> v, who |-> o] \in V!Decisions
    BY DEF V!Decisions
  <2>2. QED
    BY <1>1, <1>3, <2>1 DEF V!UpdateOrder, V!Decide, V!VisitsTypeOK
<1>4. ASSUME NEW r \in VisitRequests, NEW v \in Visits, NEW a \in Crews \cup Dispatchers, NEW to \in V!Statuses,
             V!ChangeStatus(r, v, a, to)
      PROVE  V!VisitsTypeOK'
  <2>1. [op |-> "status", about |-> v, by |-> a, to |-> to] \in V!Decisions
    BY DEF V!Decisions
  <2>2. QED
    BY <1>1, <1>4, <2>1 DEF V!ChangeStatus, V!Decide, V!VisitsTypeOK
<1>5. ASSUME NEW r \in VisitRequests, NEW v \in Visits, NEW a \in Crews \cup Dispatchers, NEW p \in Photos,
             V!AddPhoto(r, v, a, p)
      PROVE  V!VisitsTypeOK'
  <2>1. [op |-> "photo", about |-> v, by |-> a, photo |-> p] \in V!Decisions
    BY DEF V!Decisions
  <2>2. QED
    BY <1>1, <1>5, <2>1 DEF V!AddPhoto, V!Decide, V!VisitsTypeOK
<1>6. ASSUME NEW r \in VisitRequests, NEW v \in Visits, V!InsertOrder(r, v) PROVE V!VisitsTypeOK'
  <2>1. [status |-> "scheduled", who |-> visitsHandling[r].who, photos |-> {}] \in V!Orders
    BY <1>6, Decided DEF V!InsertOrder, V!Orders, V!Statuses
  <2>2. visitsOrder' \in [Visits -> {V!None} \cup V!Orders]
    BY <1>6, <2>1 DEF V!InsertOrder, V!VisitsTypeOK
  <2>3. QED
    BY <1>1, <1>6, <2>2 DEF V!InsertOrder, V!Finish, V!VisitsTypeOK
<1>7. ASSUME NEW r \in VisitRequests, V!Write(r) PROVE V!VisitsTypeOK'
  <2>1. visitsOrder' \in [Visits -> {V!None} \cup V!Orders]
    BY <1>7, WriteMakes DEF V!VisitsTypeOK
  <2>2. visitsHandling' \in [VisitRequests -> {V!Idle} \cup V!Decisions]
    BY <1>1, <1>7 DEF V!Write, V!Finish
  <2>3. visitsNotices' \in [Visits -> {"none", "owed", "customer", "told", "lost"}]
    BY <1>7 DEF V!Write, V!VisitsTypeOK
  <2>4. QED
    BY <1>7, <2>1, <2>2, <2>3 DEF V!Write, V!VisitsTypeOK
<1>8. ASSUME NEW r \in VisitRequests, V!Fail(r) PROVE V!VisitsTypeOK'
  BY <1>1, <1>8 DEF V!Fail, V!Finish, V!VisitsTypeOK
<1>9. ASSUME NEW v \in Visits, V!Notify(v) \/ V!DeleteOrder(v) PROVE V!VisitsTypeOK'
  BY <1>9 DEF V!Notify, V!DeleteOrder, V!VisitsTypeOK
<1>10. ASSUME NEW o \in Crews, V!ChangeStanding(o) PROVE V!VisitsTypeOK'
  BY <1>10, VisitsAssumption DEF V!ChangeStanding, V!VisitsTypeOK
<1>11. ASSUME NEW o \in Crews, V!DeleteOperator(o) PROVE V!VisitsTypeOK'
  <2>1. ASSUME NEW v \in Visits PROVE visitsOrder'[v] \in {V!None} \cup V!Orders
    <3>1. visitsOrder[v] \in {V!None} \cup V!Orders /\ (V!Booked(v) => visitsOrder[v] \in V!Orders)
      BY OrderTyped
    <3>2. visitsOrder'[v] = visitsOrder[v] \/ (V!Booked(v) /\ visitsOrder'[v] = [visitsOrder[v] EXCEPT !.who = Unassigned])
      BY <1>11 DEF V!DeleteOperator, V!Freed
    <3>3. QED
      BY <3>1, <3>2 DEF V!Orders
  <2>2. visitsOrder' \in [Visits -> {V!None} \cup V!Orders]
    BY <1>11, <2>1 DEF V!DeleteOperator, V!Freed
  <2>3. visitsStaff' \subseteq Crews /\ visitsFit' \subseteq visitsStaff'
    BY <1>11 DEF V!DeleteOperator, V!Freed, V!VisitsTypeOK
  <2>4. QED
    BY <1>11, <2>2, <2>3 DEF V!DeleteOperator, V!Freed, V!VisitsTypeOK
<1>12. CASE V!Crash \/ UNCHANGED V!visitVars
  BY <1>12 DEF V!Crash, V!visitVars, V!VisitsTypeOK
<1>13. QED
  BY <1>2, <1>3, <1>4, <1>5, <1>6, <1>7, <1>8, <1>9, <1>10, <1>11, <1>12 DEF V!Next

(* An operator's deletion leaves the rows that are held alone, and of the  *)
(* others takes only the name.                                             *)
LEMMA OperatorGone ==
  ASSUME V!VisitsTypeOK, NEW o \in Crews, V!DeleteOperator(o), NEW v \in Visits
  PROVE  /\ visitsOrder'[v] = visitsOrder[v] \/
              /\ V!Booked(v) /\ visitsOrder[v].who = o /\ V!Unlocked(v)
              /\ visitsOrder'[v] = [visitsOrder[v] EXCEPT !.who = Unassigned]
         /\ visitsOrder'[v].status = visitsOrder[v].status
         /\ V!Booked(v) => visitsOrder'[v].photos = visitsOrder[v].photos
<1>1. visitsOrder'[v] = visitsOrder[v] \/
        /\ V!Booked(v) /\ visitsOrder[v].who = o /\ V!Unlocked(v)
        /\ visitsOrder'[v] = [visitsOrder[v] EXCEPT !.who = Unassigned]
  BY DEF V!DeleteOperator, V!Freed
<1>2. V!Booked(v) => visitsOrder[v] \in V!Orders
  BY OrderTyped
<1>3. QED
  BY <1>1, <1>2 DEF V!Orders

(* A request that takes a row alone, fit for what it has decided. *)
LEMMA DecideKeeps ==
  ASSUME V!VisitsTypeOK, V!DecidedInv, NEW r \in VisitRequests, NEW d,
         visitsHandling' = [visitsHandling EXCEPT ![r] = d], UNCHANGED visitsOrder,
         d.op \in {"update", "status", "photo"} => (V!StillStands(d) /\ V!Unlocked(d.about))
  PROVE  V!DecidedInv'
<1>1. visitsHandling'[r] = d /\ \A s \in VisitRequests \ {r} : visitsHandling'[s] = visitsHandling[s]
  BY DEF V!VisitsTypeOK
<1>2. \A e : V!StillStands(e) => V!StillStands(e)'
  BY DEF V!StillStands, V!Booked, V!IsOpen, V!MayWork, V!Photographed
<1>3. ASSUME NEW s \in VisitRequests, visitsHandling'[s].op \in {"update", "status", "photo"}
      PROVE  /\ V!StillStands(visitsHandling'[s])
             /\ \A q \in VisitRequests \ {s} : visitsHandling'[q].op \in {"update", "status", "photo"} =>
                  visitsHandling'[q].about # visitsHandling'[s].about
  BY <1>1, <1>3 DEF V!DecidedInv, V!Holds, V!Unlocked
<1>4. \A v \in Visits : visitsOrder'[v].status = "completed" => V!Photographed(v)'
  BY DEF V!DecidedInv, V!Photographed
<1>5. ASSUME NEW s \in VisitRequests, V!Holds(s)'
      PROVE  /\ V!StillStands(visitsHandling[s])'
             /\ \A q \in VisitRequests \ {s} : V!Holds(q)' => visitsHandling'[q].about # visitsHandling'[s].about
  <2>1. visitsHandling'[s].op \in {"update", "status", "photo"}
    BY <1>5 DEF V!Holds
  <2>2. PICK e : e = visitsHandling'[s]
    OBVIOUS
  <2>3. V!StillStands(e)
    BY <1>3, <2>1, <2>2
  <2>4. V!StillStands(visitsHandling[s])'
    BY <2>2, <2>3 DEF V!StillStands, V!Booked, V!IsOpen, V!MayWork, V!Photographed
  <2>5. QED
    BY <1>3, <2>1, <2>4 DEF V!Holds
<1>6. QED
  BY <1>4, <1>5 DEF V!DecidedInv

(* A row that nobody holds any more changes. *)
LEMMA RowChanges ==
  ASSUME V!VisitsTypeOK, V!DecidedInv, NEW v \in Visits, \A u \in Visits \ {v} : visitsOrder'[u] = visitsOrder[u],
         \A s \in VisitRequests : visitsHandling'[s].op \in {"update", "status", "photo"} =>
           visitsHandling'[s] = visitsHandling[s] /\ visitsHandling[s].about # v,
         visitsOrder'[v].status = "completed" => {"before", "after"} \subseteq {KindOf[p] : p \in visitsOrder'[v].photos}
  PROVE  V!DecidedInv'
<1>1. ASSUME NEW s \in VisitRequests, V!Holds(s)'
      PROVE  /\ V!StillStands(visitsHandling[s])'
             /\ \A q \in VisitRequests \ {s} : V!Holds(q)' => visitsHandling'[q].about # visitsHandling'[s].about
  <2>1. visitsHandling'[s] = visitsHandling[s] /\ V!Holds(s) /\ visitsHandling[s].about # v
    BY <1>1 DEF V!Holds
  <2>2. V!StillStands(visitsHandling[s]) /\ visitsHandling[s].about \in Visits
    BY <2>1, Decided DEF V!DecidedInv
  <2>3. PICK e : e = visitsHandling[s] /\ e = visitsHandling'[s]
    BY <2>1
  <2>4. visitsOrder'[e.about] = visitsOrder[e.about]
    BY <2>1, <2>2, <2>3
  <2>5. V!StillStands(visitsHandling[s])'
    BY <2>2, <2>3, <2>4 DEF V!StillStands, V!Booked, V!IsOpen, V!MayWork, V!Photographed
  <2>6. \A q \in VisitRequests \ {s} : V!Holds(q)' => visitsHandling'[q].about # visitsHandling'[s].about
    BY <2>1 DEF V!DecidedInv, V!Holds
  <2>7. QED
    BY <2>5, <2>6
<1>2. ASSUME NEW u \in Visits, visitsOrder'[u].status = "completed" PROVE V!Photographed(u)'
  BY <1>2 DEF V!DecidedInv, V!Photographed
<1>3. QED
  BY <1>1, <1>2 DEF V!DecidedInv

LEMMA DecidedKept ==
  ASSUME V!VisitsTypeOK, V!DecidedInv, [V!Next]_V!visitVars
  PROVE  V!DecidedInv'
<1>1. V!Idle.op = "idle"
  BY DEF V!Idle
<1>2. ASSUME NEW r \in VisitRequests, NEW o \in Crews \cup {Unassigned}, V!ReadGate(r, o) PROVE V!DecidedInv'
  <2>1. PICK d : d = [op |-> "create", who |-> o]
    OBVIOUS
  <2>2. d.op = "create"
    BY <2>1
  <2>3. QED
    BY <1>2, <2>1, <2>2, DecideKeeps DEF V!ReadGate, V!Decide
<1>3. ASSUME NEW r \in VisitRequests, NEW o \in Crews \cup {Unassigned}, NEW v \in Visits, V!UpdateOrder(r, v, o)
      PROVE  V!DecidedInv'
  <2>1. PICK d : d = [op |-> "update", about |-> v, who |-> o]
    OBVIOUS
  <2>2. V!StillStands(d) /\ V!Unlocked(d.about)
    BY <1>3, <2>1 DEF V!UpdateOrder, V!StillStands, V!IsOpen
  <2>3. QED
    BY <1>3, <2>1, <2>2, DecideKeeps DEF V!UpdateOrder, V!Decide
<1>4. ASSUME NEW r \in VisitRequests, NEW v \in Visits, NEW a \in Crews \cup Dispatchers, NEW to \in V!Statuses,
             V!ChangeStatus(r, v, a, to)
      PROVE  V!DecidedInv'
  <2>1. PICK d : d = [op |-> "status", about |-> v, by |-> a, to |-> to]
    OBVIOUS
  <2>2. V!StillStands(d) /\ V!Unlocked(d.about)
    BY <1>4, <2>1 DEF V!ChangeStatus, V!StillStands
  <2>3. QED
    BY <1>4, <2>1, <2>2, DecideKeeps DEF V!ChangeStatus, V!Decide
<1>5. ASSUME NEW r \in VisitRequests, NEW v \in Visits, NEW a \in Crews \cup Dispatchers, NEW p \in Photos,
             V!AddPhoto(r, v, a, p)
      PROVE  V!DecidedInv'
  <2>1. PICK d : d = [op |-> "photo", about |-> v, by |-> a, photo |-> p]
    OBVIOUS
  <2>2. V!StillStands(d) /\ V!Unlocked(d.about)
    BY <1>5, <2>1 DEF V!AddPhoto, V!StillStands, V!IsOpen
  <2>3. QED
    BY <1>5, <2>1, <2>2, DecideKeeps DEF V!AddPhoto, V!Decide
<1>6. ASSUME NEW r \in VisitRequests, NEW v \in Visits, V!InsertOrder(r, v) PROVE V!DecidedInv'
  <2>1. /\ visitsHandling'[r] = V!Idle /\ \A s \in VisitRequests \ {r} : visitsHandling'[s] = visitsHandling[s]
        /\ \A u \in Visits \ {v} : visitsOrder'[u] = visitsOrder[u]
        /\ visitsOrder'[v].status = "scheduled"
    BY <1>6 DEF V!InsertOrder, V!Finish, V!VisitsTypeOK
  <2>2. \A s \in VisitRequests : V!Holds(s) => visitsHandling[s].about # v
    BY <1>6 DEF V!InsertOrder, V!DecidedInv, V!StillStands
  <2>3. QED
    BY <1>1, <2>1, <2>2, RowChanges DEF V!Holds
<1>7. ASSUME NEW r \in VisitRequests, V!Write(r) PROVE V!DecidedInv'
  <2> DEFINE d == visitsHandling[r]
  <2>1. /\ V!Holds(r) /\ d.about \in Visits /\ V!StillStands(d)
        /\ visitsHandling'[r] = V!Idle /\ \A s \in VisitRequests \ {r} : visitsHandling'[s] = visitsHandling[s]
        /\ visitsOrder[d.about].status \in V!Open
        /\ d.op = "status" => /\ visitsOrder'[d.about].status = d.to
                              /\ visitsOrder'[d.about].photos = visitsOrder[d.about].photos
        /\ d.op # "status" => visitsOrder'[d.about].status = visitsOrder[d.about].status
    BY <1>7, WriteMakes
  <2>2. \A u \in Visits \ {d.about} : visitsOrder'[u] = visitsOrder[u]
    BY <1>7, WriteMakes DEF V!VisitsTypeOK
  <2>3. \A s \in VisitRequests \ {r} : V!Holds(s) => visitsHandling[s].about # d.about
    BY <2>1 DEF V!DecidedInv
  <2>4. ASSUME visitsOrder'[d.about].status = "completed"
        PROVE  {"before", "after"} \subseteq {KindOf[p] : p \in visitsOrder'[d.about].photos}
    <3>1. d.op = "status" /\ d.to = "completed"
      BY <2>1, <2>4 DEF V!Open
    <3>2. V!Photographed(d.about)
      BY <2>1, <3>1 DEF V!StillStands
    <3>3. QED
      BY <2>1, <3>1, <3>2 DEF V!Photographed
  <2>5. \A s \in VisitRequests : visitsHandling'[s].op \in {"update", "status", "photo"} =>
           visitsHandling'[s] = visitsHandling[s] /\ visitsHandling[s].about # d.about
    BY <1>1, <2>1, <2>3 DEF V!Holds
  <2>6. PICK v \in Visits : v = d.about
    BY <2>1
  <2>7. QED
    BY <2>2, <2>4, <2>5, <2>6, RowChanges
<1>8. ASSUME NEW r \in VisitRequests, V!Fail(r) PROVE V!DecidedInv'
  BY <1>1, <1>8, DecideKeeps DEF V!Fail, V!Finish
<1>9. ASSUME NEW v \in Visits, V!DeleteOrder(v) PROVE V!DecidedInv'
  <2>1. visitsOrder'[v].status = "none" /\ \A u \in Visits \ {v} : visitsOrder'[u] = visitsOrder[u]
    BY <1>9 DEF V!DeleteOrder, V!VisitsTypeOK, V!None
  <2>2. UNCHANGED visitsHandling /\ V!Unlocked(v)
    BY <1>9 DEF V!DeleteOrder
  <2>3. QED
    BY <2>1, <2>2, RowChanges DEF V!Unlocked
<1>10. CASE V!Crash
  <2>1. \A r \in VisitRequests : visitsHandling'[r] = V!Idle
    BY <1>10 DEF V!Crash
  <2>2. UNCHANGED visitsOrder
    BY <1>10 DEF V!Crash
  <2>3. QED
    BY <1>1, <2>1, <2>2 DEF V!DecidedInv, V!Holds, V!Photographed
<1>11. ASSUME NEW o \in Crews, V!DeleteOperator(o) PROVE V!DecidedInv'
  <2>1. UNCHANGED visitsHandling
    BY <1>11 DEF V!DeleteOperator, V!Freed
  <2>2. ASSUME NEW r \in VisitRequests, V!Holds(r)
        PROVE  visitsHandling[r].about \in Visits /\ visitsOrder'[visitsHandling[r].about] = visitsOrder[visitsHandling[r].about]
    <3>1. visitsHandling[r].about \in Visits
      BY <2>2, Decided
    <3>2. ~V!Unlocked(visitsHandling[r].about)
      BY <2>2 DEF V!Unlocked, V!Holds
    <3>3. QED
      BY <1>11, <3>1, <3>2, OperatorGone
  <2>3. ASSUME NEW r \in VisitRequests, V!Holds(r) PROVE V!StillStands(visitsHandling[r])'
    <3>1. V!StillStands(visitsHandling[r])
      BY <2>3 DEF V!DecidedInv
    <3>2. QED
      BY <2>1, <2>2, <2>3, <3>1 DEF V!StillStands, V!Booked, V!IsOpen, V!MayWork, V!Photographed
  <2>4. ASSUME NEW v \in Visits, visitsOrder'[v].status = "completed" PROVE V!Photographed(v)'
    <3>1. visitsOrder[v].status = "completed" /\ V!Booked(v)
      BY <1>11, <2>4, OperatorGone, OrderTyped
    <3>2. V!Photographed(v) /\ visitsOrder'[v].photos = visitsOrder[v].photos
      BY <1>11, <3>1, OperatorGone DEF V!DecidedInv
    <3>3. QED
      BY <3>2 DEF V!Photographed
  <2>5. \A r \in VisitRequests : V!Holds(r)' <=> V!Holds(r)
    BY <2>1 DEF V!Holds
  <2>6. \A r \in VisitRequests : V!Holds(r)' =>
           /\ V!StillStands(visitsHandling[r])'
           /\ \A s \in VisitRequests \ {r} : V!Holds(s)' => visitsHandling'[s].about # visitsHandling'[r].about
    BY <2>1, <2>3, <2>5 DEF V!DecidedInv
  <2>7. QED
    BY <2>4, <2>6 DEF V!DecidedInv
<1>12. CASE UNCHANGED <<visitsOrder, visitsHandling>>
  BY <1>12 DEF V!DecidedInv, V!Holds, V!StillStands, V!Booked, V!IsOpen, V!MayWork, V!Photographed
<1>13. QED
  BY <1>2, <1>3, <1>4, <1>5, <1>6, <1>7, <1>8, <1>9, <1>10, <1>11, <1>12 DEF V!Next, V!Notify, V!ChangeStanding, V!visitVars

(* Only a booking, a write, and the deletion of it or its operator change  *)
(* a visit.                                                                *)
LEMMA WhoChangesVisits ==
  ASSUME [V!Next]_V!visitVars
  PROVE  \/ UNCHANGED visitsOrder
         \/ \E r \in VisitRequests : V!Write(r)
         \/ \E r \in VisitRequests, v \in Visits : V!InsertOrder(r, v)
         \/ \E v \in Visits : V!DeleteOrder(v)
         \/ \E o \in Crews : V!DeleteOperator(o)
BY DEF V!Next, V!ReadGate, V!UpdateOrder, V!ChangeStatus, V!AddPhoto, V!Fail, V!Notify, V!Crash, V!ChangeStanding, V!visitVars

LEMMA DoneStep ==
  ASSUME V!VisitsTypeOK, V!DecidedInv, V!DecidedInv', [V!Next]_V!visitVars
  PROVE  V!DoneStands
<1> SUFFICES ASSUME NEW v \in Visits
             PROVE  /\ V!Booked(v) /\ visitsOrder[v].status \in {"completed", "skipped"} =>
                         \/ visitsOrder'[v] \in {visitsOrder[v], V!None}
                         \/ visitsOrder[v].who \in visitsStaff \ visitsStaff' /\ visitsOrder'[v] = V!Freed(v)
                    /\ V!Booked(v)' /\ visitsOrder'[v].status = "completed" =>
                         {"before", "after"} \subseteq {KindOf[p] : p \in visitsOrder'[v].photos}
  BY DEF V!DoneStands
<1>1. visitsOrder'[v].status = "completed" => {"before", "after"} \subseteq {KindOf[p] : p \in visitsOrder'[v].photos}
  BY DEF V!DecidedInv, V!Photographed
<1>2. ASSUME V!Booked(v), visitsOrder[v].status \in {"completed", "skipped"}
      PROVE  \/ visitsOrder'[v] \in {visitsOrder[v], V!None}
             \/ visitsOrder[v].who \in visitsStaff \ visitsStaff' /\ visitsOrder'[v] = V!Freed(v)
  <2>1. ASSUME NEW r \in VisitRequests, V!Write(r) PROVE visitsOrder'[v] = visitsOrder[v]
    <3>1. visitsOrder[visitsHandling[r].about].status \in V!Open
      BY <2>1, WriteMakes
    <3>2. v # visitsHandling[r].about
      BY <1>2, <3>1 DEF V!Open
    <3>3. QED
      BY <2>1, <3>2, WriteMakes DEF V!VisitsTypeOK
  <2>2. ASSUME NEW r \in VisitRequests, NEW u \in Visits, V!InsertOrder(r, u) PROVE visitsOrder'[v] = visitsOrder[v]
    BY <1>2, <2>2 DEF V!InsertOrder, V!VisitsTypeOK
  <2>3. ASSUME NEW u \in Visits, V!DeleteOrder(u) PROVE visitsOrder'[v] \in {visitsOrder[v], V!None}
    BY <2>3 DEF V!DeleteOrder, V!VisitsTypeOK
  <2>4. ASSUME NEW o \in Crews, V!DeleteOperator(o)
        PROVE  \/ visitsOrder'[v] = visitsOrder[v]
               \/ visitsOrder[v].who \in visitsStaff \ visitsStaff' /\ visitsOrder'[v] = V!Freed(v)
    BY <2>4 DEF V!DeleteOperator, V!Freed
  <2>5. QED
    BY <2>1, <2>2, <2>3, <2>4, WhoChangesVisits
<1>3. QED
  BY <1>1, <1>2

LEMMA TheirsStep ==
  ASSUME V!VisitsTypeOK, V!DecidedInv, [V!Next]_V!visitVars
  PROVE  V!TheirsToWork
<1> SUFFICES ASSUME NEW r \in VisitRequests, visitsHandling[r].op \in {"status", "photo"}, visitsOrder' # visitsOrder,
                    visitsHandling'[r] = V!Idle
             PROVE  \/ visitsHandling[r].by \in Dispatchers
                    \/ visitsOrder[visitsHandling[r].about].who = visitsHandling[r].by
                    \/ ~V!Booked(visitsHandling[r].about)
  BY DEF V!TheirsToWork
<1>1. V!StillStands(visitsHandling[r])
  BY DEF V!DecidedInv, V!Holds
<1>2. QED
  BY <1>1 DEF V!StillStands, V!MayWork

(* Visits and the requests about them keep their types                     *)
(* (services/workOrders.ts).                                               *)
THEOREM VisitsStayTyped == V!Spec => []V!VisitsTypeOK
<1>1. V!VisitsTypeOK /\ V!DecidedInv /\ [V!Next]_V!visitVars => V!VisitsTypeOK' /\ V!DecidedInv'
  BY VisitsTyped, DecidedKept
<1>2. QED
  BY <1>1, VisitsStart, PTL DEF V!Spec

(* A visit that is done stays as it was done, with its photos, and an      *)
(* operator works only on the visit that is theirs as the change is        *)
(* written, however requests interleave with the office's (workOrders.ts). *)
THEOREM VisitsStand == V!Spec => [][V!DoneStands /\ V!TheirsToWork]_V!visitVars
<1>1. V!Init => V!VisitsTypeOK /\ V!DecidedInv
  BY VisitsStart
<1>2. V!VisitsTypeOK /\ V!DecidedInv /\ [V!Next]_V!visitVars =>
        V!VisitsTypeOK' /\ V!DecidedInv' /\ V!DoneStands /\ V!TheirsToWork
  BY VisitsTyped, DecidedKept, DoneStep, TheirsStep
<1>3. QED
  BY <1>1, <1>2, PTL DEF V!Spec
-----------------------------------------------------------------------------
(* A day is about one component from beginning to end, *)
LEMMA SubjectStays ==
  ASSUME NEW s, [DayNext]_dayVars
  PROVE  Is(s)' <=> Is(s)
BY DEF DayNext, dayVars, Is

(* begins as that component begins, *)
LEMMA DayStarts ==
  DayInit =>
    /\ Is("queue") => Q!Init
    /\ Is("access") => Init
    /\ Is("deleting") => O!Init
    /\ Is("tab") => T!Init
    /\ Is("visits") => V!Init
    /\ Is("reviews") => F!Init
    /\ Is("weather") => W!Init
    /\ Is("drip") => C!Init
    /\ Is("inbox") => I!Init
    /\ Is("process") => J!Init
BY DEF DayInit, Is

(* and takes its steps. *)
LEMMA DayMoves ==
  [DayNext]_dayVars =>
    /\ Is("queue") => [Q!Next]_Q!vars
    /\ Is("access") => [Next]_vars
    /\ Is("deleting") => [O!Next]_O!vars
    /\ Is("tab") => [T!Next]_T!vars
    /\ Is("visits") => [V!Next]_V!visitVars
    /\ Is("reviews") => [F!Next]_F!reviewVars
    /\ Is("weather") => [W!Next]_W!weatherVars
    /\ Is("drip") => [C!Next]_C!dripVars
    /\ Is("inbox") => [I!Next]_I!inboxVars
    /\ Is("process") => [J!Next]_J!processVars
<1> SUFFICES ASSUME [DayNext]_dayVars
             PROVE  /\ Is("queue") => [Q!Next]_Q!vars
                    /\ Is("access") => [Next]_vars
                    /\ Is("deleting") => [O!Next]_O!vars
                    /\ Is("tab") => [T!Next]_T!vars
                    /\ Is("visits") => [V!Next]_V!visitVars
                    /\ Is("reviews") => [F!Next]_F!reviewVars
                    /\ Is("weather") => [W!Next]_W!weatherVars
                    /\ Is("drip") => [C!Next]_C!dripVars
                    /\ Is("inbox") => [I!Next]_I!inboxVars
                    /\ Is("process") => [J!Next]_J!processVars
  OBVIOUS
<1>1. CASE DayNext
  BY <1>1 DEF DayNext, Is
<1>2. CASE UNCHANGED dayVars
  <2>1. /\ UNCHANGED Q!vars /\ UNCHANGED vars /\ UNCHANGED O!vars
    BY <1>2 DEF dayVars, queueVars, accessVars, Q!vars, Q!rows, Q!workers, Q!provider, vars, O!vars
  <2>2. UNCHANGED T!vars
    BY <1>2 DEF dayVars, tabVars, T!vars, T!tab, T!query, T!adding
  <2>3. UNCHANGED V!visitVars /\ UNCHANGED F!reviewVars /\ UNCHANGED W!weatherVars
    BY <1>2 DEF dayVars, visitsVars, reviewsVars, weatherVars, V!visitVars, F!reviewVars, W!weatherVars
  <2>4. UNCHANGED C!dripVars /\ UNCHANGED I!inboxVars /\ UNCHANGED J!processVars
    BY <1>2 DEF dayVars, dripVars, inboxVars, processVars, C!dripVars, I!inboxVars, J!processVars
  <2>5. QED
    BY <2>1, <2>2, <2>3, <2>4
<1>3. QED
  BY <1>1, <1>2

(* A behaviour of a day that is about a component is a behaviour of it.    *)
THEOREM DayIsOneOfThem ==
  DaySpec =>
    /\ Is("queue") => Q!Spec
    /\ Is("access") => Spec
    /\ Is("deleting") => O!Spec
    /\ Is("tab") => T!Spec
    /\ Is("visits") => V!Spec
    /\ Is("reviews") => F!Spec
    /\ Is("weather") => W!Spec
    /\ Is("drip") => C!Spec
    /\ Is("inbox") => I!Spec
    /\ Is("process") => J!Spec
<1>1. [DayNext]_dayVars => /\ Is("queue")' <=> Is("queue")
                           /\ Is("access")' <=> Is("access")
                           /\ Is("deleting")' <=> Is("deleting")
                           /\ Is("tab")' <=> Is("tab")
                           /\ Is("visits")' <=> Is("visits")
                           /\ Is("reviews")' <=> Is("reviews")
                           /\ Is("weather")' <=> Is("weather")
                           /\ Is("drip")' <=> Is("drip")
                           /\ Is("inbox")' <=> Is("inbox")
                           /\ Is("process")' <=> Is("process")
  BY SubjectStays
<1>2. DaySpec => (Is("queue") => Q!Spec)
  BY <1>1, DayStarts, DayMoves, PTL DEF DaySpec, Q!Spec
<1>3. DaySpec => (Is("access") => Spec)
  BY <1>1, DayStarts, DayMoves, PTL DEF DaySpec, Spec
<1>4. DaySpec => (Is("deleting") => O!Spec)
  BY <1>1, DayStarts, DayMoves, PTL DEF DaySpec, O!Spec
<1>5. DaySpec => (Is("tab") => T!Spec)
  BY <1>1, DayStarts, DayMoves, PTL DEF DaySpec, T!Spec
<1>6. DaySpec => (Is("visits") => V!Spec)
  BY <1>1, DayStarts, DayMoves, PTL DEF DaySpec, V!Spec
<1>7. DaySpec => (Is("reviews") => F!Spec)
  BY <1>1, DayStarts, DayMoves, PTL DEF DaySpec, F!Spec
<1>8. DaySpec => (Is("weather") => W!Spec)
  BY <1>1, DayStarts, DayMoves, PTL DEF DaySpec, W!Spec
<1>9. DaySpec => (Is("drip") => C!Spec)
  BY <1>1, DayStarts, DayMoves, PTL DEF DaySpec, C!Spec
<1>10. DaySpec => (Is("inbox") => I!Spec)
  BY <1>1, DayStarts, DayMoves, PTL DEF DaySpec, I!Spec
<1>11. DaySpec => (Is("process") => J!Spec)
  BY <1>1, DayStarts, DayMoves, PTL DEF DaySpec, J!Spec
<1>12. QED
  BY <1>2, <1>3, <1>4, <1>5, <1>6, <1>7, <1>8, <1>9, <1>10, <1>11

(* What the provider took in a day was counted first, and nothing was      *)
(* given up early (services/messages.ts).                                  *)
THEOREM DaySendsCounted == DaySpec => []SendsCounted
<1>1. Q!Spec => []Q!EverySendIsCounted
  BY QueueAssumption, Q!SendsAreCounted
<1>2. Q!Spec => []Q!NoEarlyGiveUp
  BY QueueAssumption, Q!NoneGivenUpEarly
<1>3. [DayNext]_dayVars => (Is("queue")' <=> Is("queue"))
  BY SubjectStays
<1>4. DaySpec => (Is("queue") => Q!Spec)
  BY DayIsOneOfThem
<1>5. SendsCounted <=> (Is("queue") => Q!EverySendIsCounted /\ Q!NoEarlyGiveUp)
  BY DEF SendsCounted
<1>6. QED
  BY <1>1, <1>2, <1>3, <1>4, <1>5, PTL DEF DaySpec

(* The page of a day's tab shows the record in the address, and its        *)
(* buttons act on the record it shows (client/src/lib/useQuery.ts).        *)
THEOREM DayShowsWhatIsAsked == DaySpec => []ShownIsAsked
<1>1. T!Spec => [](T!ShownIsAsked /\ T!ActsOnWhatItShows)
  BY TabPageIsTrue
<1>2. [DayNext]_dayVars => (Is("tab")' <=> Is("tab"))
  BY SubjectStays
<1>3. DaySpec => (Is("tab") => T!Spec)
  BY DayIsOneOfThem
<1>4. QED
  BY <1>1, <1>2, <1>3, PTL DEF DaySpec, ShownIsAsked

(* Adding a customer again after a step failed adds nothing twice          *)
(* (client/src/routes/AddCustomer.tsx).                                    *)
THEOREM DayAddsOnce == DaySpec => []AddedOnce
<1>1. T!Spec => []T!AddedOnce
  BY TabAddsNothingTwice
<1>2. [DayNext]_dayVars => (Is("tab")' <=> Is("tab"))
  BY SubjectStays
<1>3. DaySpec => (Is("tab") => T!Spec)
  BY DayIsOneOfThem
<1>4. QED
  BY <1>1, <1>2, <1>3, PTL DEF DaySpec, AddedOnce

(* A request acts for the account as it is, within what its role is for    *)
(* (middleware/auth.ts), and two corporate accounts that delete each other *)
(* at once do not both go (services/deletion.ts).                          *)
THEOREM DayAccountsHold ==
  ASSUME Offices # {}
  PROVE  DaySpec => []AccountsHold
<1>1. Spec => [](SidesApart /\ ActsAsItIs)
  BY RequestsActWithin
<1>2. O!Spec => []O!OneOfficeStays
  <2>1. PICK a \in Offices : TRUE
    OBVIOUS
  <2>2. \E b \in Offices : [c \in Offices |-> "corporate"][b] = "corporate"
    BY <2>1
  <2>3. QED
    BY <2>2, AccessAssumption, O!OfficeHolds DEF O!Roles
<1>3. [DayNext]_dayVars => (Is("access")' <=> Is("access")) /\ (Is("deleting")' <=> Is("deleting"))
  BY SubjectStays
<1>4. DaySpec => (Is("access") => Spec) /\ (Is("deleting") => O!Spec)
  BY DayIsOneOfThem
<1>5. QED
  BY <1>1, <1>2, <1>3, <1>4, PTL DEF DaySpec, AccountsHold

(* Nobody is asked for a rating, or warned of the weather, twice over      *)
(* (services/reviews.ts, services/weather.ts), as long as one run of the   *)
(* requests does not overlap another.                                      *)
THEOREM DayTellsOnce ==
  ASSUME F!OneRound
  PROVE  DaySpec => []ToldOnce
<1>1. F!Spec => []F!AskedSparingly
  BY RatingsKept
<1>2. W!Spec => []W!ToldOnce
  BY WeatherTold
<1>3. [DayNext]_dayVars => (Is("reviews")' <=> Is("reviews")) /\ (Is("weather")' <=> Is("weather"))
  BY SubjectStays
<1>4. DaySpec => (Is("reviews") => F!Spec) /\ (Is("weather") => W!Spec)
  BY DayIsOneOfThem
<1>5. QED
  BY <1>1, <1>2, <1>3, <1>4, PTL DEF DaySpec, ToldOnce

(* A process that was asked to stop once leaves no job half done           *)
(* (jobs/scheduler.ts, server.ts).                                         *)
THEOREM DayExitsCleanly == DaySpec => []CleanExit
<1>1. J!Spec => []J!CleanExit
  BY ExitIsClean
<1>2. [DayNext]_dayVars => (Is("process")' <=> Is("process"))
  BY SubjectStays
<1>3. DaySpec => (Is("process") => J!Spec)
  BY DayIsOneOfThem
<1>4. QED
  BY <1>1, <1>2, <1>3, PTL DEF DaySpec, CleanExit

(* A message marked sent stays so, whatever late updates another pass      *)
(* still makes to its row (message_log_sent_at_check).                     *)
THEOREM DaySentStays == DaySpec => SentStays
<1> DEFINE Stays == \A m \in Q!Messages : queueStatus[m] = "sent" => queueStatus'[m] = "sent"
<1>1. Q!Spec => [][Stays]_Q!vars
  BY QueueAssumption, Q!SentStays DEF Q!SentIsFinal
<1>2. [DayNext]_dayVars => (Is("queue")' <=> Is("queue"))
  BY SubjectStays
<1>3. DaySpec => (Is("queue") => Q!Spec)
  BY DayIsOneOfThem
<1>4. [DayNext]_dayVars /\ (Is("queue") => [Stays]_Q!vars) => [Is("queue") => Stays]_dayVars
  <2>1. SUFFICES ASSUME DayNext, Is("queue"), UNCHANGED Q!vars PROVE UNCHANGED dayVars
    BY DEF Stays
  <2>2. QED
    BY <2>1 DEF DayNext, Is, dayVars, queueVars, Q!vars, Q!rows, Q!workers, Q!provider
<1>5. DaySpec => [][Is("queue") => Stays]_dayVars
  <2> HIDE DEF Stays
  <2> QED
    BY <1>1, <1>2, <1>3, <1>4, PTL DEF DaySpec
<1>6. QED
  BY <1>5 DEF SentStays

(* A visit that is done stays as it was done, and until then only its own  *)
(* operator and the office change it (services/workOrders.ts).             *)
THEOREM DayKeepsVisits == DaySpec => VisitsKept
<1>1. V!Spec => [][V!DoneStands /\ V!TheirsToWork]_V!visitVars
  BY VisitsStand
<1>2. [DayNext]_dayVars => (Is("visits")' <=> Is("visits"))
  BY SubjectStays
<1>3. DaySpec => (Is("visits") => V!Spec)
  BY DayIsOneOfThem
<1>4. [DayNext]_dayVars /\ (Is("visits") => [V!DoneStands /\ V!TheirsToWork]_V!visitVars) =>
        [Is("visits") => V!DoneStands /\ V!TheirsToWork]_dayVars
  BY DEF DayNext, Is, dayVars, visitsVars, V!visitVars
<1>5. QED
  BY <1>1, <1>2, <1>3, <1>4, PTL DEF DaySpec, VisitsKept

(* The steps of a lead's sequence go out in order, each once, and none     *)
(* after they unsubscribe (services/coldEmail.ts).                         *)
THEOREM DayKeepsTheSequence == DaySpec => SequenceKept
<1>1. C!Spec => [][C!SequenceKept]_C!dripVars
  BY SequenceInOrder
<1>2. [DayNext]_dayVars => (Is("drip")' <=> Is("drip"))
  BY SubjectStays
<1>3. DaySpec => (Is("drip") => C!Spec)
  BY DayIsOneOfThem
<1>4. [DayNext]_dayVars /\ (Is("drip") => [C!SequenceKept]_C!dripVars) => [Is("drip") => C!SequenceKept]_dayVars
  BY DEF DayNext, Is, dayVars, dripVars, C!dripVars
<1>5. QED
  BY <1>1, <1>2, <1>3, <1>4, PTL DEF DaySpec, SequenceKept

(* Redelivered, echoed or late, a message is in the thread once, and the   *)
(* window to reply is never pulled back (services/metaMessaging.ts).       *)
THEOREM DayKeepsTheThread == DaySpec => ThreadWhole
<1>1. I!Spec => [][I!ThreadWhole]_I!inboxVars
  BY ThreadKept
<1>2. [DayNext]_dayVars => (Is("inbox")' <=> Is("inbox"))
  BY SubjectStays
<1>3. DaySpec => (Is("inbox") => I!Spec)
  BY DayIsOneOfThem
<1>4. [DayNext]_dayVars /\ (Is("inbox") => [I!ThreadWhole]_I!inboxVars) => [Is("inbox") => I!ThreadWhole]_dayVars
  BY DEF DayNext, Is, dayVars, inboxVars, I!inboxVars
<1>5. QED
  BY <1>1, <1>2, <1>3, <1>4, PTL DEF DaySpec, ThreadWhole

(* The variables of each component keep their types. *)
THEOREM DayStaysTyped == DaySpec => []DayTypesOK
<1>1. Q!Spec => []Q!TypeOK
  BY QueueAssumption, Q!TypeCorrect
<1>2. Spec => []AccessTypeOK
  BY TypeCorrect
<1>3. O!Spec => []O!AccessTypeOK
  BY AccessAssumption, O!TypeCorrect DEF O!Roles
<1>4. [DayNext]_dayVars => /\ Is("queue")' <=> Is("queue")
                           /\ Is("access")' <=> Is("access")
                           /\ Is("deleting")' <=> Is("deleting")
                           /\ Is("tab")' <=> Is("tab")
                           /\ Is("visits")' <=> Is("visits")
                           /\ Is("reviews")' <=> Is("reviews")
                           /\ Is("weather")' <=> Is("weather")
                           /\ Is("drip")' <=> Is("drip")
                           /\ Is("inbox")' <=> Is("inbox")
                           /\ Is("process")' <=> Is("process")
  BY SubjectStays
<1>5. QED
  BY <1>1, <1>2, <1>3, <1>4, TabStaysTyped, VisitsStayTyped, ReviewsStayTyped, WeatherStaysTyped, DripStaysTyped,
     InboxStaysTyped, ProcessStaysTyped, DayIsOneOfThem, PTL DEF DaySpec, DayTypesOK
=============================================================================
