------------------------- MODULE MessageQueueProofs -------------------------
(* Theorems about MessageQueue, for every value of its constants.          *)
EXTENDS MessageQueue, FiniteSetTheorems, TLAPS

(* The rest of a batch after its first claim is dealt with. *)
LEMMA TailOfBatch ==
  ASSUME NEW s \in Seq(Claim), Len(s) # 0
  PROVE  /\ Tail(s) \in Seq(Claim)
         /\ Len(s) \in Nat \ {0}
         /\ Len(Tail(s)) = Len(s) - 1
         /\ DOMAIN Tail(s) = 1..(Len(s) - 1)
         /\ \A i \in 1..(Len(s) - 1) : Tail(s)[i] = s[i + 1] /\ i + 1 \in DOMAIN s
         /\ Head(s) = s[1] /\ s[1] \in Claim /\ 1 \in DOMAIN s
  OBVIOUS

(* A row of a batch. *)
LEMMA RowOfBatch ==
  ASSUME NEW s \in Seq(Claim), NEW i \in DOMAIN s
  PROVE  /\ Len(s) \in Nat /\ i \in 1..Len(s)
         /\ s[i] \in Claim /\ s[i].id \in Messages /\ s[i].attempts \in Nat
<1>1. Len(s) \in Nat /\ i \in 1..Len(s)
  OBVIOUS
<1>2. s[i] \in Claim
  BY <1>1
<1>3. QED
  BY <1>1, <1>2 DEF Claim

(* A pass that goes on or gives up leaves the worker well-formed. *)
LEMMA AdvanceType ==
  ASSUME TypeOK, NEW w \in Workers, pc[w] = "recording", Advance(w)
  PROVE  /\ batch' \in [Workers -> Seq(Claim)]
         /\ pc' \in [Workers -> Stages]
         /\ verdict' \in [Workers -> Verdicts]
         /\ elapsed' \in [Workers -> {0, 1}]
         /\ \A v \in Workers : pc'[v] = "idle" <=> Len(batch'[v]) = 0
<1>1. batch[w] \in Seq(Claim) /\ Len(batch[w]) # 0
  BY DEF TypeOK
<1>2. Tail(batch[w]) \in Seq(Claim) /\ (Len(Tail(batch[w])) = 0 <=> Len(batch[w]) = 1)
  BY <1>1, TailOfBatch
<1>3. QED
  BY <1>1, <1>2 DEF TypeOK, Advance, Stages, Verdicts

LEMMA AbandonType ==
  ASSUME TypeOK, NEW w \in Workers, Abandon(w)
  PROVE  /\ batch' \in [Workers -> Seq(Claim)]
         /\ pc' \in [Workers -> Stages]
         /\ verdict' \in [Workers -> Verdicts]
         /\ elapsed' \in [Workers -> {0, 1}]
         /\ \A v \in Workers : pc'[v] = "idle" <=> Len(batch'[v]) = 0
<1>1. <<>> \in Seq(Claim) /\ Len(<<>>) = 0
  OBVIOUS
<1>2. QED
  BY <1>1 DEF TypeOK, Abandon, Stages, Verdicts

THEOREM TypeCorrect == Spec => []TypeOK
<1>1. Init => TypeOK
  BY DEF Init, TypeOK, Stages, Verdicts
<1>2. TypeOK /\ [Next]_vars => TypeOK'
  <2> SUFFICES ASSUME TypeOK, [Next]_vars
               PROVE  TypeOK'
    OBVIOUS
  <2> USE ConstantsAssumption
  <2>1. ASSUME NEW m \in Messages, NEW delay \in SendLater, Enqueue(m, delay)
        PROVE  TypeOK'
    BY <2>1 DEF TypeOK, Enqueue, workers, provider
  <2>2. CASE Withdraw
    BY <2>2 DEF TypeOK, Withdraw, workers, provider
  <2>3. ASSUME NEW w \in Workers, Select(w)
        PROVE  TypeOK'
    <3>0. PICK n \in 1..BatchLimit : \E ids \in [1..n -> Eligible] :
            batch' = [batch EXCEPT ![w] =
                        [i \in 1..n |-> [id |-> ids[i], attempts |-> attempts[ids[i]] + 1]]]
      BY <2>3 DEF Select
    <3>1. PICK ids \in [1..n -> Eligible] :
            batch' = [batch EXCEPT ![w] =
                        [i \in 1..n |-> [id |-> ids[i], attempts |-> attempts[ids[i]] + 1]]]
      BY <3>0
    <3> DEFINE b == [i \in 1..n |-> [id |-> ids[i], attempts |-> attempts[ids[i]] + 1]]
    <3>2. \A i \in 1..n : [id |-> ids[i], attempts |-> attempts[ids[i]] + 1] \in Claim
      BY DEF TypeOK, Claim, Eligible
    <3>3. b \in Seq(Claim) /\ Len(b) # 0
      BY <3>2
    <3> HIDE DEF b
    <3>4. QED
      BY <3>1, <3>3, <2>3 DEF b, TypeOK, Select, rows, Stages, provider
  <2>4. ASSUME NEW w \in Workers, Commit(w)
        PROVE  TypeOK'
    BY <2>4 DEF TypeOK, Commit, Stages, provider
  <2>5. ASSUME NEW w \in Workers, NEW answer \in Answers, Send(w, answer)
        PROVE  TypeOK'
    <3>1. Head(batch[w]).id \in Messages
      BY <2>5, TailOfBatch DEF TypeOK, Send, Claim
    <3>2. VerdictOn(answer) \in Verdicts
      BY DEF VerdictOn, Verdicts
    <3>3. accepted' \in [Messages -> Nat] /\ refused' \subseteq Messages
      BY <2>5, <3>1 DEF TypeOK, Send
    <3>4. verdict' \in [Workers -> Verdicts] /\ pc' \in [Workers -> Stages]
      BY <2>5, <3>2 DEF TypeOK, Send, Stages
    <3>5. \A v \in Workers : pc'[v] = "idle" <=> Len(batch'[v]) = 0
      BY <2>5 DEF TypeOK, Send
    <3>6. QED
      BY <2>5, <3>3, <3>4, <3>5 DEF TypeOK, Send, rows
  <2>6. ASSUME NEW w \in Workers, RecordSent(w)
        PROVE  TypeOK'
    BY <2>6, AdvanceType DEF TypeOK, RecordSent, provider
  <2>7. ASSUME NEW w \in Workers, RecordFailure(w)
        PROVE  TypeOK'
    <3> DEFINE m == Head(batch[w]).id
               s == StatusAfterFailure(Head(batch[w]), verdict[w])
    <3>1. CASE SentAtCheck(s, sentAt[m])
      <4>1. s \in {"failed", "queued"}
        BY DEF StatusAfterFailure
      <4>2. QED
        BY <2>7, <3>1, <4>1, AdvanceType DEF TypeOK, RecordFailure, provider
    <3>2. CASE ~SentAtCheck(s, sentAt[m])
      BY <2>7, <3>2, AbandonType DEF TypeOK, RecordFailure, provider
    <3>3. QED
      BY <3>1, <3>2
  <2>8. ASSUME NEW w \in Workers, SentUpdateFails(w)
        PROVE  TypeOK'
    BY <2>8 DEF TypeOK, SentUpdateFails, rows, Verdicts, provider
  <2>9. ASSUME NEW w \in Workers, Crash(w)
        PROVE  TypeOK'
    BY <2>9, AbandonType DEF TypeOK, Crash, rows, provider
  <2>10. CASE Tick
    BY <2>10 DEF TypeOK, Tick, Less1, RunOut, provider
  <2>11. CASE UNCHANGED vars
    BY <2>11 DEF TypeOK, vars, rows, workers, provider
  <2>12. QED
    BY <2>1, <2>2, <2>3, <2>4, <2>5, <2>6, <2>7, <2>8, <2>9, <2>10, <2>11 DEF Next, WorkerStep
<1>3. QED
  BY <1>1, <1>2, PTL DEF Spec

-----------------------------------------------------------------------------
LEMMA RowsCheckedInductive == TypeOK /\ RowsChecked /\ [Next]_vars => RowsChecked'
<1> SUFFICES ASSUME TypeOK, RowsChecked, [Next]_vars
             PROVE  RowsChecked'
  OBVIOUS
<1> USE DEF RowsChecked, SentAtCheck
<1>1. ASSUME NEW m \in Messages, NEW delay \in SendLater, Enqueue(m, delay)
      PROVE  RowsChecked'
  BY <1>1 DEF Enqueue, TypeOK
<1>2. CASE Withdraw
  BY <1>2 DEF Withdraw, TypeOK
<1>3. ASSUME NEW w \in Workers, RecordSent(w)
      PROVE  RowsChecked'
  BY <1>3 DEF RecordSent, TypeOK
<1>4. ASSUME NEW w \in Workers, RecordFailure(w)
      PROVE  RowsChecked'
  BY <1>4 DEF RecordFailure, TypeOK
<1>5. ASSUME UNCHANGED <<status, sentAt>>
      PROVE  RowsChecked'
  BY <1>5
<1>6. QED
  BY <1>1, <1>2, <1>3, <1>4, <1>5
  DEF Next, WorkerStep, Select, Commit, Send, SentUpdateFails, Crash, Tick, rows, provider, vars

(* What is left of a batch when its first claim is dealt with. *)
LEMMA AdvanceShifts ==
  ASSUME TypeOK, NEW w \in Workers, pc[w] = "recording", Advance(w)
  PROVE  /\ \A v \in Workers : v # w => batch'[v] = batch[v] /\ pc'[v] = pc[v] /\ elapsed'[v] = elapsed[v]
         /\ Len(batch'[w]) < Len(batch[w])
         /\ \A i \in DOMAIN batch'[w] : batch'[w][i] = batch[w][i + 1] /\ i + 1 \in DOMAIN batch[w] /\ i \in Nat \ {0}
         /\ elapsed'[w] = 0 /\ pc'[w] \in {"idle", "sending"}
         /\ pc'[w] = "idle" => DOMAIN batch'[w] = {}
         /\ 1 \in DOMAIN batch[w] /\ Head(batch[w]) = batch[w][1]
         /\ \A i \in DOMAIN batch[w] : i # 1 => i - 1 \in DOMAIN batch'[w] /\ batch'[w][i - 1] = batch[w][i]
<1>1. batch[w] \in Seq(Claim) /\ Len(batch[w]) # 0
  BY DEF TypeOK
<1>2. /\ batch'[w] = Tail(batch[w])
      /\ pc'[w] = IF Len(batch[w]) = 1 THEN "idle" ELSE "sending"
      /\ elapsed'[w] = 0
      /\ \A v \in Workers : v # w => batch'[v] = batch[v] /\ pc'[v] = pc[v] /\ elapsed'[v] = elapsed[v]
  BY DEF Advance, TypeOK
<1>3. /\ Len(batch[w]) \in Nat \ {0} /\ Len(Tail(batch[w])) = Len(batch[w]) - 1
      /\ DOMAIN Tail(batch[w]) = 1..(Len(batch[w]) - 1)
      /\ \A i \in 1..(Len(batch[w]) - 1) : Tail(batch[w])[i] = batch[w][i + 1] /\ i + 1 \in DOMAIN batch[w]
      /\ Head(batch[w]) = batch[w][1] /\ 1 \in DOMAIN batch[w]
  BY <1>1, TailOfBatch
<1>4. \A i \in DOMAIN batch[w] : i # 1 => i - 1 \in 1..(Len(batch[w]) - 1) /\ (i - 1) + 1 = i
  BY <1>1, RowOfBatch
<1>5. \A i \in DOMAIN batch'[w] : batch'[w][i] = batch[w][i + 1] /\ i + 1 \in DOMAIN batch[w] /\ i \in Nat \ {0}
  BY <1>2, <1>3
<1>6. \A i \in DOMAIN batch[w] : i # 1 => i - 1 \in DOMAIN batch'[w] /\ batch'[w][i - 1] = batch[w][i]
  <2> SUFFICES ASSUME NEW i \in DOMAIN batch[w], i # 1
               PROVE  i - 1 \in DOMAIN batch'[w] /\ batch'[w][i - 1] = batch[w][i]
    OBVIOUS
  <2>1. i - 1 \in 1..(Len(batch[w]) - 1) /\ (i - 1) + 1 = i
    BY <1>4
  <2>2. Tail(batch[w])[i - 1] = batch[w][(i - 1) + 1]
    BY <1>3, <2>1
  <2>3. QED
    BY <1>2, <1>3, <2>1, <2>2
<1>7. Len(batch'[w]) < Len(batch[w])
  BY <1>2, <1>3
<1>8. pc'[w] \in {"idle", "sending"} /\ (pc'[w] = "idle" => DOMAIN batch'[w] = {})
  <2>1. Len(batch[w]) = 1 => 1..(Len(batch[w]) - 1) = {}
    BY <1>3
  <2>2. QED
    BY <1>2, <1>3, <2>1
<1>9. QED
  BY <1>2, <1>3, <1>5, <1>6, <1>7, <1>8

(* What is left of a worker's batch was in it before, in the same order.   *)
LEMMA RestWasHeld ==
  ASSUME TypeOK, NEW w \in Workers, (pc[w] = "recording" /\ Advance(w)) \/ Abandon(w),
         NEW v \in Workers
  PROVE  /\ \/ pc'[v] = pc[v] /\ batch'[v] = batch[v]
            \/ pc'[v] \in {"idle", "sending"} /\ pc[v] = "recording" /\ pc'[v] = "sending"
                 /\ \A i \in DOMAIN batch'[v] :
                      i \in Nat /\ i + 1 \in DOMAIN batch[v] /\ batch'[v][i] = batch[v][i + 1]
            \/ pc'[v] = "idle" /\ DOMAIN batch'[v] = {}
         /\ verdict'[v] \in {verdict[v], "none"}
<1>1. verdict'[v] \in {verdict[v], "none"}
  BY DEF Advance, Abandon, TypeOK
<1>2. CASE pc[w] = "recording" /\ Advance(w)
  <2>1. CASE v = w
    BY <1>1, <1>2, <2>1, AdvanceShifts
  <2>2. CASE v # w
    BY <1>1, <1>2, <2>2, AdvanceShifts
  <2>3. QED
    BY <2>1, <2>2
<1>3. CASE Abandon(w)
  <2>1. CASE v = w
    <3>1. batch'[w] = <<>> /\ pc'[w] = "idle"
      BY <1>3 DEF Abandon, TypeOK
    <3>2. DOMAIN batch'[w] = {}
      BY <3>1
    <3>3. QED
      BY <1>1, <2>1, <3>1, <3>2
  <2>2. CASE v # w
    BY <1>1, <1>3, <2>2 DEF Abandon, TypeOK
  <2>3. QED
    BY <2>1, <2>2
<1>4. QED
  BY <1>2, <1>3

(* A claim's rows, and what it says of them. *)
LEMMA SelectFacts ==
  ASSUME TypeOK, NEW w \in Workers, Select(w)
  PROVE  /\ pc[w] = "idle" /\ pc'[w] = "claiming" /\ UNCHANGED <<status, attempts, withdrawn, verdict, accepted>>
         /\ \A v \in Workers : v # w => batch'[v] = batch[v] /\ pc'[v] = pc[v]
         /\ \A i, j \in DOMAIN batch'[w] : batch'[w][i].id = batch'[w][j].id => i = j
         /\ \A i \in DOMAIN batch'[w] :
              /\ batch'[w][i].id \in Eligible
              /\ batch'[w][i].attempts = attempts[batch'[w][i].id] + 1
<1>0. PICK n \in 1..BatchLimit : \E ids \in [1..n -> Eligible] :
        /\ OldestFirst(ids, Eligible)
        /\ batch' = [batch EXCEPT ![w] =
                    [i \in 1..n |-> [id |-> ids[i], attempts |-> attempts[ids[i]] + 1]]]
  BY DEF Select
<1>1. PICK ids \in [1..n -> Eligible] :
        /\ OldestFirst(ids, Eligible)
        /\ batch' = [batch EXCEPT ![w] =
                    [i \in 1..n |-> [id |-> ids[i], attempts |-> attempts[ids[i]] + 1]]]
  BY <1>0
<1>2. n \in Nat \ {0}
  BY <1>0, ConstantsAssumption
<1>3. \A i, j \in 1..n : ids[i] = ids[j] => i = j
  BY <1>1, <1>2, ConstantsAssumption DEF OldestFirst, Eligible, Messages
<1> DEFINE b == [i \in 1..n |-> [id |-> ids[i], attempts |-> attempts[ids[i]] + 1]]
<1>4. batch'[w] = b /\ \A v \in Workers : v # w => batch'[v] = batch[v]
  BY <1>1 DEF TypeOK
<1>5. DOMAIN b = 1..n /\ \A i \in 1..n : b[i].id = ids[i] /\ b[i].attempts = attempts[ids[i]] + 1
  OBVIOUS
<1> HIDE DEF b
<1>6. \A i, j \in DOMAIN batch'[w] : batch'[w][i].id = batch'[w][j].id => i = j
  BY <1>3, <1>4, <1>5
<1>7. \A i \in DOMAIN batch'[w] :
              /\ batch'[w][i].id \in Eligible
              /\ batch'[w][i].attempts = attempts[batch'[w][i].id] + 1
  BY <1>4, <1>5
<1>8. pc[w] = "idle" /\ pc'[w] = "claiming" /\ UNCHANGED <<status, attempts, withdrawn, verdict, accepted>>
  BY DEF Select, TypeOK, rows, provider
<1>9. \A v \in Workers : v # w => pc'[v] = pc[v]
  BY DEF Select, TypeOK
<1>10. QED
  BY <1>4, <1>6, <1>7, <1>8, <1>9

LEMMA RowsDistinctInductive ==
  ASSUME TypeOK, RowsDistinct, [Next]_vars
  PROVE  RowsDistinct'
<1> SUFFICES ASSUME NEW v \in Workers, NEW i \in DOMAIN batch'[v], NEW j \in DOMAIN batch'[v],
                    batch'[v][i].id = batch'[v][j].id
             PROVE  i = j
  BY DEF RowsDistinct
<1>1. CASE batch'[v] = batch[v]
  BY <1>1 DEF RowsDistinct
<1>2. ASSUME NEW w \in Workers, Select(w)
      PROVE  i = j
  BY <1>1, <1>2, SelectFacts
<1>3. ASSUME NEW w \in Workers, (pc[w] = "recording" /\ Advance(w)) \/ Abandon(w)
      PROVE  i = j
  <2>1. CASE DOMAIN batch'[v] = {}
    BY <2>1
  <2>2. CASE \A k \in DOMAIN batch'[v] :
               k \in Nat /\ k + 1 \in DOMAIN batch[v] /\ batch'[v][k] = batch[v][k + 1]
    <3>1. i + 1 = j + 1
      BY <2>2 DEF RowsDistinct
    <3>2. QED
      BY <2>2, <3>1
  <2>3. QED
    BY <1>1, <1>3, <2>1, <2>2, RestWasHeld
<1>4. QED
  BY <1>1, <1>2, <1>3
  DEF Next, WorkerStep, Enqueue, Withdraw, Commit, Send, RecordSent, RecordFailure, SentUpdateFails,
      Crash, Tick, rows, workers, provider, vars

LEMMA SelectPreserves ==
  ASSUME TypeOK, TypeOK', LeaseInv, NeverOverrun, NEW w \in Workers, Select(w)
  PROVE  LeaseInv' /\ NeverOverrun'
<1> USE ConstantsAssumption
<1>1. /\ pc[w] = "idle" /\ pc'[w] = "claiming" /\ DOMAIN batch[w] = {}
      /\ UNCHANGED <<status, attempts, lease, elapsed, overran, faults>>
      /\ \A v \in Workers : v # w => batch'[v] = batch[v] /\ pc'[v] = pc[v]
      /\ \A i \in DOMAIN batch'[w] :
           /\ batch'[w][i].id \in Eligible
           /\ batch'[w][i].attempts = attempts[batch'[w][i].id] + 1
  BY SelectFacts DEF Select, rows, TypeOK
<1>2. \A v \in Workers : \A j \in DOMAIN batch[v] :
        batch[v][j].id \in Eligible => batch[v][j].id \in overran
  <2> SUFFICES ASSUME NEW v \in Workers, NEW j \in DOMAIN batch[v], batch[v][j].id \in Eligible
               PROVE  batch[v][j].id \in overran
    OBVIOUS
  <2>1. CASE Working(v)
    BY <2>1 DEF LeaseInv, LeaseLasts, Eligible
  <2>2. CASE pc[v] = "claiming"
    BY <2>2 DEF Eligible, Locked, Holds
  <2>3. CASE pc[v] = "idle"
    <3>1. batch[v] \in Seq(Claim) /\ Len(batch[v]) = 0
      BY <2>3 DEF TypeOK
    <3>2. QED
      BY <3>1
  <2>4. QED
    BY <2>1, <2>2, <2>3 DEF TypeOK, Stages, Working
<1>3. LeaseLasts'
  BY <1>1 DEF LeaseInv, LeaseLasts, Working
<1>4. HoldersApart'
  BY <1>1, <1>2 DEF LeaseInv, HoldersApart
<1>5. ClaimsCurrent'
  BY <1>1 DEF LeaseInv, ClaimsCurrent, Eligible
<1>6. BudgetLeft'
  <2>1. \A v \in Workers, m \in Messages : Working(v) /\ Holds(v, m) => Working(v)' /\ Holds(v, m)'
    BY <1>1 DEF Working, Holds
  <2>2. QED
    BY <1>1, <2>1 DEF LeaseInv, BudgetLeft
<1>7. NeverOverrun'
  <2>1. Len(batch'[w]) <= BatchLimit
    BY DEF Select, TypeOK
  <2>2. QED
    BY <1>1, <2>1 DEF NeverOverrun, BatchFitsLease, LeaseOutlasts, Working
<1>8. QED
  BY <1>3, <1>4, <1>5, <1>6, <1>7 DEF LeaseInv

LEMMA CommitPreserves ==
  ASSUME TypeOK, TypeOK', LeaseInv, NeverOverrun, NEW w \in Workers, Commit(w)
  PROVE  LeaseInv' /\ NeverOverrun'
<1> USE ConstantsAssumption
<1>1. /\ batch' = batch /\ elapsed' = elapsed /\ status' = status /\ faults' = faults /\ overran' = overran
      /\ pc[w] = "claiming" /\ pc'[w] = "sending"
      /\ \A v \in Workers : v # w => pc'[v] = pc[v]
      /\ \A m \in Messages : /\ attempts'[m] = IF Holds(w, m) THEN attempts[m] + 1 ELSE attempts[m]
                             /\ lease'[m] = IF Holds(w, m) THEN LeaseTicks ELSE lease[m]
  BY DEF Commit, TypeOK
<1>2. \A v \in Workers : \A i \in DOMAIN batch[v] :
        batch[v][i].id \in Messages /\ i \in Nat /\ i <= Len(batch[v])
  BY RowOfBatch DEF TypeOK
<1>3. \A v \in Workers : v # w => \A i \in DOMAIN batch[v] :
        batch[v][i].id \notin overran => ~Holds(w, batch[v][i].id)
  BY DEF LeaseInv, HoldersApart, Holds
<1>4. LeaseLasts'
  <2> SUFFICES ASSUME NEW v \in Workers, Working(v)', NEW i \in DOMAIN batch[v], batch[v][i].id \notin overran
               PROVE  lease'[batch[v][i].id] # 0
    BY <1>1 DEF LeaseLasts
  <2>1. CASE v = w
    BY <1>1, <1>2, <2>1 DEF Holds
  <2>2. CASE v # w
    BY <1>1, <1>2, <1>3, <2>2 DEF LeaseInv, LeaseLasts, Working
  <2>3. QED
    BY <2>1, <2>2
<1>5. HoldersApart'
  BY <1>1 DEF LeaseInv, HoldersApart
<1>6. ClaimsCurrent'
  <2> SUFFICES ASSUME NEW v \in Workers, NEW i \in DOMAIN batch[v], batch[v][i].id \notin overran
               PROVE  IF pc'[v] = "claiming"
                        THEN status[batch[v][i].id] = "queued" /\ batch[v][i].attempts = attempts'[batch[v][i].id] + 1
                        ELSE status[batch[v][i].id] \in {"queued", "failed"} /\ batch[v][i].attempts = attempts'[batch[v][i].id]
    BY <1>1 DEF ClaimsCurrent
  <2>1. CASE v = w
    BY <1>1, <1>2, <2>1 DEF LeaseInv, ClaimsCurrent, Holds
  <2>2. CASE v # w
    BY <1>1, <1>2, <1>3, <2>2 DEF LeaseInv, ClaimsCurrent
  <2>3. QED
    BY <2>1, <2>2
<1>7. BudgetLeft'
  <2> SUFFICES ASSUME NEW m \in Messages, m \notin overran
               PROVE  /\ status[m] = "none" => attempts'[m] = 0
                      /\ attempts'[m] <= MaxAttempts + faults
                      /\ (status[m] = "queued" /\ ~(\E v \in Workers : Working(v)' /\ Holds(v, m)))
                            => attempts'[m] < MaxAttempts + faults
    BY <1>1 DEF BudgetLeft, Holds
  <2>1. CASE Holds(w, m)
    <3>1. status[m] = "queued"
      BY <2>1, <1>1 DEF LeaseInv, ClaimsCurrent, Holds
    <3>2. ~(\E v \in Workers : Working(v) /\ Holds(v, m))
      BY <2>1, <1>1, <1>3 DEF Working, Holds
    <3>3. attempts[m] < MaxAttempts + faults
      BY <3>1, <3>2 DEF LeaseInv, BudgetLeft
    <3>4. QED
      BY <2>1, <3>1, <3>3, <1>1 DEF TypeOK, Working
  <2>2. CASE ~Holds(w, m)
    <3>1. attempts'[m] = attempts[m]
      BY <1>1, <2>2
    <3>2. \A v \in Workers : Working(v) /\ Holds(v, m) => Working(v)' /\ Holds(v, m)
      BY <1>1 DEF Working
    <3>3. QED
      BY <3>1, <3>2 DEF LeaseInv, BudgetLeft
  <2>3. QED
    BY <2>1, <2>2
<1>8. NeverOverrun'
  <2> SUFFICES ASSUME BatchFitsLease
               PROVE  overran = {} /\ LeaseOutlasts'
    BY <1>1 DEF NeverOverrun, BatchFitsLease
  <2>1. overran = {} /\ LeaseOutlasts
    BY DEF NeverOverrun
  <2> SUFFICES ASSUME NEW v \in Workers
               PROVE  IF Working(v)'
                        THEN \A i \in DOMAIN batch[v] : i < lease'[batch[v][i].id] + elapsed[v]
                        ELSE elapsed[v] = 0
    BY <1>1, <2>1 DEF LeaseOutlasts
  <2>2. CASE v = w
    <3>1. \A i \in DOMAIN batch[w] : lease'[batch[w][i].id] = LeaseTicks
      BY <1>1, <1>2 DEF Holds
    <3>2. elapsed[w] = 0 /\ Len(batch[w]) <= BatchLimit /\ Len(batch[w]) \in Nat
      <4>1. Len(batch[w]) \in Nat /\ ~Working(w)
        BY <1>1 DEF Working, TypeOK
      <4>2. QED
        BY <2>1, <4>1 DEF LeaseOutlasts
    <3>3. \A i \in DOMAIN batch[w] : i < LeaseTicks
      BY <1>2, <3>2 DEF BatchFitsLease
    <3>4. QED
      BY <2>2, <3>1, <3>2, <3>3, <1>1 DEF Working
  <2>3. CASE v # w
    <3>1. \A i \in DOMAIN batch[v] : lease'[batch[v][i].id] = lease[batch[v][i].id]
      BY <1>1, <1>2, <1>3, <2>1, <2>3
    <3>2. QED
      BY <2>1, <2>3, <3>1, <1>1 DEF LeaseOutlasts, Working
  <2>4. QED
    BY <2>2, <2>3
<1>9. QED
  BY <1>4, <1>5, <1>6, <1>7, <1>8 DEF LeaseInv

LEMMA AdvanceLease ==
  ASSUME TypeOK, TypeOK', LeaseInv, NeverOverrun, NEW w \in Workers, pc[w] = "recording", Advance(w),
         UNCHANGED <<lease, overran>>
  PROVE  LeaseLasts' /\ HoldersApart' /\ NeverOverrun'
<1>1. \A v \in Workers : \A i \in DOMAIN batch'[v] :
        \E k \in DOMAIN batch[v] : batch'[v][i] = batch[v][k] /\ (Working(v)' => Working(v))
  BY AdvanceShifts DEF Working
<1>2. LeaseLasts'
  BY <1>1 DEF LeaseInv, LeaseLasts
<1>3. HoldersApart'
  BY <1>1 DEF LeaseInv, HoldersApart
<1>4. NeverOverrun'
  <2> SUFFICES ASSUME BatchFitsLease
               PROVE  overran = {} /\ LeaseOutlasts'
    BY DEF NeverOverrun, BatchFitsLease
  <2>1. overran = {} /\ LeaseOutlasts
    BY DEF NeverOverrun
  <2>2. Len(batch'[w]) <= BatchLimit
    <3>1. Len(batch[w]) \in Nat /\ Len(batch'[w]) \in Nat
      BY DEF TypeOK
    <3>2. QED
      BY <2>1, <3>1, ConstantsAssumption, AdvanceShifts DEF LeaseOutlasts
  <2>3. ASSUME NEW i \in DOMAIN batch'[w]
        PROVE  i < lease[batch'[w][i].id] + elapsed'[w]
    <3>1. /\ i \in Nat /\ i + 1 \in DOMAIN batch[w]
          /\ batch'[w][i] = batch[w][i + 1] /\ elapsed'[w] = 0
      BY <2>3, AdvanceShifts
    <3>2. i + 1 < lease[batch[w][i + 1].id] + elapsed[w]
      BY <2>1, <3>1 DEF LeaseOutlasts, Working
    <3>3. lease[batch[w][i + 1].id] \in Nat /\ elapsed[w] \in {0, 1}
      BY <3>1, RowOfBatch DEF TypeOK
    <3>4. QED
      BY <3>1, <3>2, <3>3
  <2>4. QED
    BY <2>1, <2>2, <2>3, AdvanceShifts DEF LeaseOutlasts, Working
<1>5. QED
  BY <1>2, <1>3, <1>4

(* Dealing with a claim: the other rows keep their holders, and the row    *)
(* dealt with, unless its lease ran out, is in nobody's hands.             *)
LEMMA AdvanceHolders ==
  ASSUME TypeOK, RowsDistinct, HoldersApart, NEW w \in Workers, pc[w] = "recording", Advance(w)
  PROVE  /\ \A v \in Workers : \A i \in DOMAIN batch'[v] :
              batch'[v][i].id = Head(batch[w]).id => batch'[v][i].id \in overran
         /\ \A v \in Workers, m \in Messages :
              m # Head(batch[w]).id /\ Working(v) /\ Holds(v, m) => Working(v)' /\ Holds(v, m)'
<1>1. \A v \in Workers : \A i \in DOMAIN batch'[v] :
        batch'[v][i].id = Head(batch[w]).id => batch'[v][i].id \in overran
  <2>1. \A i \in DOMAIN batch'[w] : batch'[w][i].id # Head(batch[w]).id
    <3>1. \A i \in DOMAIN batch'[w] : i + 1 # 1 /\ i + 1 \in DOMAIN batch[w] /\ batch'[w][i] = batch[w][i + 1]
      BY AdvanceShifts
    <3>2. QED
      BY <3>1, AdvanceShifts DEF RowsDistinct
  <2>2. \A v \in Workers : v # w => \A i \in DOMAIN batch'[v] :
          batch'[v][i].id = Head(batch[w]).id => batch'[v][i].id \in overran
    BY AdvanceShifts DEF HoldersApart
  <2>3. QED
    BY <2>1, <2>2
<1>2. ASSUME NEW v \in Workers, NEW m \in Messages, m # Head(batch[w]).id, Working(v), Holds(v, m)
      PROVE  Working(v)' /\ Holds(v, m)'
  <2>1. CASE v # w
    BY <1>2, <2>1, AdvanceShifts DEF Working, Holds
  <2>2. CASE v = w
    <3>1. PICK i \in DOMAIN batch[w] : batch[w][i].id = m
      BY <1>2, <2>2 DEF Holds
    <3>2. i # 1
      BY <1>2, <3>1, AdvanceShifts
    <3>3. i - 1 \in DOMAIN batch'[w] /\ batch'[w][i - 1].id = m
      BY <3>1, <3>2, AdvanceShifts
    <3>4. QED
      BY <2>2, <3>3, AdvanceShifts DEF Working, Holds
  <2>3. QED
    BY <2>1, <2>2
<1>3. QED
  BY <1>1, <1>2

LEMMA AdvanceClaims ==
  ASSUME TypeOK, ClaimsCurrent, RowsDistinct, HoldersApart, NEW w \in Workers, pc[w] = "recording",
         Advance(w), UNCHANGED <<attempts, overran>>,
         \A m \in Messages : m # Head(batch[w]).id => status'[m] = status[m]
  PROVE  ClaimsCurrent'
<1> SUFFICES ASSUME NEW v \in Workers, NEW i \in DOMAIN batch'[v], batch'[v][i].id \notin overran
             PROVE  LET m == batch'[v][i].id IN
                    IF pc'[v] = "claiming"
                      THEN status'[m] = "queued" /\ batch'[v][i].attempts = attempts[m] + 1
                      ELSE status'[m] \in {"queued", "failed"} /\ batch'[v][i].attempts = attempts[m]
  BY DEF ClaimsCurrent
<1>1. PICK k \in DOMAIN batch[v] : batch'[v][i] = batch[v][k]
  BY AdvanceShifts
<1>2. batch[v][k].id \in Messages /\ status'[batch[v][k].id] = status[batch[v][k].id]
  BY <1>1, RowOfBatch, AdvanceHolders DEF TypeOK
<1>3. pc'[v] = "claiming" <=> pc[v] = "claiming"
  BY AdvanceShifts
<1>4. QED
  BY <1>1, <1>2, <1>3 DEF ClaimsCurrent

LEMMA RecordSentPreserves ==
  ASSUME TypeOK, TypeOK', RowsDistinct, LeaseInv, NeverOverrun, NEW w \in Workers, RecordSent(w)
  PROVE  LeaseInv' /\ NeverOverrun'
<1>1. pc[w] = "recording" /\ Advance(w) /\ UNCHANGED <<lease, attempts, faults, overran>>
  BY DEF RecordSent
<1> DEFINE h == Head(batch[w]).id
<1>2. \A m \in Messages : m # h => status'[m] = status[m]
  BY DEF RecordSent, TypeOK
<1>3. h \in Messages => status'[h] = "sent"
  BY DEF RecordSent, TypeOK
<1>4. LeaseLasts' /\ HoldersApart' /\ NeverOverrun'
  BY <1>1, AdvanceLease
<1>5. ClaimsCurrent'
  BY <1>1, <1>2, AdvanceClaims DEF LeaseInv
<1>6. BudgetLeft'
  <2>1. \A m \in Messages : m # h =>
          \A v \in Workers : Working(v) /\ Holds(v, m) => Working(v)' /\ Holds(v, m)'
    BY <1>1, AdvanceHolders DEF LeaseInv
  <2> HIDE DEF h
  <2>2. ASSUME NEW m \in Messages, m \notin overran
        PROVE  /\ status'[m] = "none" => attempts[m] = 0
               /\ attempts[m] <= MaxAttempts + faults
               /\ (status'[m] = "queued" /\ ~(\E v \in Workers : Working(v)' /\ Holds(v, m)'))
                    => attempts[m] < MaxAttempts + faults
    BY <1>2, <1>3, <2>1, <2>2 DEF LeaseInv, BudgetLeft
  <2>3. QED
    BY <1>1, <2>2 DEF BudgetLeft
<1>7. QED
  BY <1>4, <1>5, <1>6 DEF LeaseInv

LEMMA RecordFailurePreserves ==
  ASSUME TypeOK, TypeOK', RowsDistinct, LeaseInv, NeverOverrun, NEW w \in Workers, RecordFailure(w),
         SentAtCheck(StatusAfterFailure(Head(batch[w]), verdict[w]), sentAt[Head(batch[w]).id])
  PROVE  LeaseInv' /\ NeverOverrun'
<1> USE ConstantsAssumption
<1> DEFINE h == Head(batch[w]).id
           s == StatusAfterFailure(Head(batch[w]), verdict[w])
<1>1. pc[w] = "recording" /\ UNCHANGED <<lease, attempts, overran>>
  BY DEF RecordFailure
<1>2. h \in Messages /\ (h \notin overran => Head(batch[w]).attempts = attempts[h])
  <2>1. batch[w] \in Seq(Claim) /\ Len(batch[w]) # 0
    BY <1>1 DEF TypeOK
  <2>2. Head(batch[w]) = batch[w][1] /\ 1 \in DOMAIN batch[w] /\ batch[w][1].id \in Messages
    BY <2>1, TailOfBatch DEF Claim
  <2>3. QED
    BY <2>2, <1>1 DEF LeaseInv, ClaimsCurrent
<1>3. /\ s \in {"failed", "queued"}
      /\ h \notin overran /\ s = "queued" => attempts[h] < MaxAttempts
  BY <1>2 DEF StatusAfterFailure, TypeOK
<1>4. Advance(w) /\ status' = [status EXCEPT ![h] = s] /\ faults' = faults
  BY DEF RecordFailure
<1>5. /\ status'[h] = s
      /\ \A m \in Messages : m # h => status'[m] = status[m]
  BY <1>2, <1>4 DEF TypeOK
<1>6. LeaseLasts' /\ HoldersApart' /\ NeverOverrun'
  BY <1>1, <1>4, AdvanceLease
<1>7. ClaimsCurrent'
  BY <1>1, <1>4, <1>5, AdvanceClaims DEF LeaseInv
<1>8. BudgetLeft'
  <2>1. \A m \in Messages : m # h =>
          \A v \in Workers : Working(v) /\ Holds(v, m) => Working(v)' /\ Holds(v, m)'
    BY <1>1, <1>4, AdvanceHolders DEF LeaseInv
  <2>2. attempts[h] \in Nat /\ faults \in Nat
    BY <1>2 DEF TypeOK
  <2> HIDE DEF h, s
  <2>4. ASSUME NEW m \in Messages, m \notin overran
        PROVE  /\ status'[m] = "none" => attempts[m] = 0
               /\ attempts[m] <= MaxAttempts + faults
               /\ (status'[m] = "queued" /\ ~(\E v \in Workers : Working(v)' /\ Holds(v, m)'))
                    => attempts[m] < MaxAttempts + faults
    BY <1>3, <1>5, <2>1, <2>2, <2>4 DEF LeaseInv, BudgetLeft
  <2>5. QED
    BY <1>1, <1>4, <2>4 DEF BudgetLeft
<1>9. QED
  BY <1>6, <1>7, <1>8 DEF LeaseInv

(* A pass that dies, or that an error of the database ends, spares the     *)
(* budget of each row whose attempt it cuts short.                         *)
LEMMA FaultsPreserve ==
  ASSUME TypeOK, TypeOK', LeaseInv, NeverOverrun, NEW w \in Workers, SentUpdateFails(w) \/ Abandon(w),
         faults' = faults + 1, UNCHANGED <<status, lease, attempts, overran>>
  PROVE  LeaseInv' /\ NeverOverrun'
<1> USE ConstantsAssumption
<1>1. BudgetLeft'
  BY DEF LeaseInv, BudgetLeft, TypeOK
<1>2. CASE SentUpdateFails(w)
  BY <1>1, <1>2 DEF SentUpdateFails, LeaseInv, NeverOverrun, BatchFitsLease, LeaseLasts, HoldersApart,
                    LeaseOutlasts, ClaimsCurrent, Working
<1>3. CASE Abandon(w)
  <2>1. /\ batch'[w] = <<>> /\ pc'[w] = "idle" /\ elapsed'[w] = 0
        /\ \A v \in Workers : v # w => batch'[v] = batch[v] /\ pc'[v] = pc[v] /\ elapsed'[v] = elapsed[v]
    BY <1>3 DEF Abandon, TypeOK
  <2>2. DOMAIN batch'[w] = {} /\ Len(batch'[w]) = 0
    BY <2>1
  <2>3. LeaseLasts'
    BY <2>1, <2>2 DEF LeaseInv, LeaseLasts, Working
  <2>4. HoldersApart'
    BY <2>1, <2>2 DEF LeaseInv, HoldersApart
  <2>5. ClaimsCurrent'
    BY <2>1, <2>2 DEF LeaseInv, ClaimsCurrent
  <2>6. NeverOverrun'
    BY <2>1, <2>2 DEF NeverOverrun, BatchFitsLease, LeaseOutlasts, Working
  <2>7. QED
    BY <1>1, <2>3, <2>4, <2>5, <2>6 DEF LeaseInv
<1>4. QED
  BY <1>2, <1>3

LEMMA TickPreserves ==
  ASSUME TypeOK, TypeOK', LeaseInv, NeverOverrun, Tick
  PROVE  LeaseInv' /\ NeverOverrun'
<1>1. /\ UNCHANGED <<status, attempts, pc, batch, faults>>
      /\ \A w \in Workers : elapsed'[w] = IF Working(w) THEN 1 ELSE 0
      /\ \A w \in Workers : Working(w) => elapsed[w] = 0
      /\ \A m \in Messages : lease'[m] = Less1(lease[m])
      /\ overran' = overran \cup RunOut
  BY DEF Tick
<1>2. \A w \in Workers : \A i \in DOMAIN batch[w] : batch[w][i].id \in Messages /\ Holds(w, batch[w][i].id)
  BY RowOfBatch DEF TypeOK, Holds
<1>3. LeaseLasts'
  BY <1>1, <1>2 DEF LeaseLasts, RunOut, Working
<1>4. HoldersApart' /\ ClaimsCurrent'
  BY <1>1 DEF LeaseInv, HoldersApart, ClaimsCurrent
<1>5. BudgetLeft'
  BY <1>1 DEF LeaseInv, BudgetLeft, Working, Holds
<1>6. NeverOverrun'
  <2> SUFFICES ASSUME BatchFitsLease
               PROVE  overran' = {} /\ LeaseOutlasts'
    BY DEF NeverOverrun, BatchFitsLease
  <2>1. overran = {} /\ LeaseOutlasts
    BY DEF NeverOverrun
  <2>2. ASSUME NEW w \in Workers, Working(w), NEW i \in DOMAIN batch[w]
        PROVE  i < lease'[batch[w][i].id] + 1 /\ lease'[batch[w][i].id] # 0
    <3>1. i \in Nat \ {0} /\ batch[w][i].id \in Messages
      BY RowOfBatch DEF TypeOK
    <3>2. i < lease[batch[w][i].id] + 0 /\ lease[batch[w][i].id] \in Nat
      BY <1>1, <2>1, <2>2, <3>1 DEF LeaseOutlasts, TypeOK
    <3>3. QED
      BY <1>1, <3>1, <3>2 DEF Less1
  <2>3. RunOut = {}
    <3> SUFFICES ASSUME NEW m \in RunOut
                 PROVE  FALSE
      OBVIOUS
    <3>1. PICK w \in Workers : Working(w) /\ Holds(w, m)
      BY DEF RunOut
    <3>2. PICK i \in DOMAIN batch[w] : batch[w][i].id = m
      BY <3>1 DEF Holds
    <3>3. lease'[m] # 0
      BY <2>2, <3>1, <3>2
    <3>4. QED
      BY <1>1, <3>3 DEF RunOut
  <2>4. LeaseOutlasts'
    BY <1>1, <2>1, <2>2 DEF LeaseOutlasts, Working
  <2>5. QED
    BY <1>1, <2>1, <2>3, <2>4
<1>7. QED
  BY <1>3, <1>4, <1>5, <1>6 DEF LeaseInv

-----------------------------------------------------------------------------
LEMMA QueueInvInductive == TypeOK /\ TypeOK' /\ QueueInv /\ [Next]_vars => QueueInv'
<1> SUFFICES ASSUME TypeOK, TypeOK', QueueInv, [Next]_vars
             PROVE  LeaseInv' /\ NeverOverrun'
  BY RowsCheckedInductive, RowsDistinctInductive DEF QueueInv
<1> USE ConstantsAssumption
<1>0. RowsChecked /\ RowsDistinct /\ LeaseInv /\ NeverOverrun
  BY DEF QueueInv
<1>1. ASSUME NEW m \in Messages, NEW delay \in SendLater, Enqueue(m, delay)
      PROVE  LeaseInv' /\ NeverOverrun'
  <2>1. /\ UNCHANGED <<attempts, lease, pc, batch, elapsed, overran, faults>>
        /\ status[m] = "none" /\ status'[m] = "queued"
        /\ \A k \in Messages : k # m => status'[k] = status[k]
    BY <1>1 DEF Enqueue, TypeOK, workers
  <2>2. LeaseLasts' /\ HoldersApart' /\ NeverOverrun'
    BY <1>0, <2>1 DEF LeaseInv, LeaseLasts, HoldersApart, NeverOverrun, BatchFitsLease, LeaseOutlasts, Working
  <2>3. ClaimsCurrent'
    <3>1. \A v \in Workers : \A i \in DOMAIN batch[v] : batch[v][i].id \in Messages
      BY RowOfBatch DEF TypeOK
    <3>2. QED
      BY <1>0, <2>1, <3>1 DEF LeaseInv, ClaimsCurrent
  <2>4. BudgetLeft'
    <3>1. m \notin overran => attempts[m] = 0 /\ 0 < MaxAttempts + faults
      BY <1>0, <2>1 DEF LeaseInv, BudgetLeft, TypeOK
    <3>2. \A v \in Workers, k \in Messages : Working(v)' = Working(v) /\ Holds(v, k)' = Holds(v, k)
      BY <2>1 DEF Working, Holds
    <3>3. ASSUME NEW k \in Messages, k \notin overran
          PROVE  /\ status'[k] = "none" => attempts[k] = 0
                 /\ attempts[k] <= MaxAttempts + faults
                 /\ (status'[k] = "queued" /\ ~(\E v \in Workers : Working(v) /\ Holds(v, k)))
                      => attempts[k] < MaxAttempts + faults
      BY <1>0, <2>1, <3>1, <3>3 DEF LeaseInv, BudgetLeft
    <3>4. QED
      BY <2>1, <3>2, <3>3 DEF BudgetLeft
  <2>5. QED
    BY <2>2, <2>3, <2>4 DEF LeaseInv
<1>2. CASE Withdraw
  <2>1. /\ UNCHANGED <<attempts, lease, pc, batch, elapsed, overran, faults>>
        /\ \A m \in Messages : status'[m] = status[m] \/ (status[m] = "queued" /\ status'[m] = "failed" /\ m \notin Locked)
    BY <1>2 DEF Withdraw, workers
  <2>2. LeaseLasts' /\ HoldersApart' /\ NeverOverrun' /\ BudgetLeft'
    BY <1>0, <2>1 DEF LeaseInv, LeaseLasts, HoldersApart, NeverOverrun, BatchFitsLease, LeaseOutlasts,
                      BudgetLeft, Working, Holds
  <2>3. ClaimsCurrent'
    <3>1. \A v \in Workers : \A i \in DOMAIN batch[v] :
            batch[v][i].id \in Messages /\ (pc[v] = "claiming" => batch[v][i].id \in Locked)
      BY RowOfBatch DEF TypeOK, Locked, Holds
    <3>2. QED
      BY <1>0, <2>1, <3>1 DEF LeaseInv, ClaimsCurrent
  <2>4. QED
    BY <2>2, <2>3 DEF LeaseInv
<1>3. ASSUME NEW w \in Workers, NEW answer \in Answers, Send(w, answer)
      PROVE  LeaseInv' /\ NeverOverrun'
  <2>1. /\ UNCHANGED <<status, attempts, lease, batch, elapsed, overran, faults>>
        /\ pc[w] = "sending" /\ pc'[w] = "recording"
        /\ \A v \in Workers : v # w => pc'[v] = pc[v]
    BY <1>3 DEF Send, TypeOK, rows
  <2>2. \A v \in Workers : Working(v)' <=> Working(v)
    BY <2>1 DEF Working
  <2>3. LeaseLasts' /\ HoldersApart' /\ NeverOverrun'
    BY <1>0, <2>1, <2>2 DEF LeaseInv, LeaseLasts, HoldersApart, NeverOverrun, BatchFitsLease, LeaseOutlasts
  <2>4. ClaimsCurrent' /\ BudgetLeft'
    BY <1>0, <2>1, <2>2 DEF LeaseInv, ClaimsCurrent, BudgetLeft, Holds
  <2>5. QED
    BY <2>3, <2>4 DEF LeaseInv
<1>4. ASSUME NEW w \in Workers, RecordFailure(w)
      PROVE  LeaseInv' /\ NeverOverrun'
  BY <1>0, <1>4, RecordFailurePreserves, FaultsPreserve DEF RecordFailure
<1>5. ASSUME NEW w \in Workers, SentUpdateFails(w) \/ Crash(w)
      PROVE  LeaseInv' /\ NeverOverrun'
  <2>1. /\ SentUpdateFails(w) \/ Abandon(w)
        /\ faults' = faults + 1 /\ UNCHANGED <<status, lease, attempts, overran>>
    BY <1>5 DEF SentUpdateFails, Crash, rows
  <2>2. QED
    BY <1>0, <2>1, FaultsPreserve
<1>6. CASE UNCHANGED vars
  BY <1>0, <1>6
  DEF vars, rows, workers, LeaseInv, LeaseLasts, HoldersApart, NeverOverrun, BatchFitsLease, LeaseOutlasts,
      ClaimsCurrent, BudgetLeft, Working, Holds
<1>7. QED
  BY <1>0, <1>1, <1>2, <1>3, <1>4, <1>5, <1>6, SelectPreserves, CommitPreserves, RecordSentPreserves, TickPreserves
  DEF Next, WorkerStep

(* QueueInv is an invariant of the queue. *)
THEOREM QueueInvHolds == Spec => []QueueInv
<1>1. Init => QueueInv
  <2> USE ConstantsAssumption
  <2>1. \A w \in Workers : Init => DOMAIN batch[w] = {} /\ Len(batch[w]) = 0
    BY DEF Init
  <2>2. QED
    BY <2>1 DEF Init, QueueInv, RowsChecked, RowsDistinct, SentAtCheck, LeaseInv, LeaseLasts, HoldersApart,
                NeverOverrun, LeaseOutlasts, ClaimsCurrent, BudgetLeft, Working, Holds
<1>2. QED
  BY <1>1, TypeCorrect, QueueInvInductive, PTL DEF Spec

(***************************************************************************)
(* No two workers ever hold the same row of message_log (sendQueued,       *)
(* claim) unless its lease ran out under one of them: for any number of    *)
(* workers and rows, any batch, lease and budget, any number of crashes.   *)
(***************************************************************************)
THEOREM OneHolder == Spec => []NoTwoHolders
<1>1. QueueInv => NoTwoHolders
  BY DEF QueueInv, LeaseInv, HoldersApart, NoTwoHolders, Holds
<1>2. QED
  BY <1>1, QueueInvHolds, PTL

(***************************************************************************)
(* The attempts of a row never exceed MESSAGE_MAX_ATTEMPTS by more than    *)
(* the faults that cut attempts short, unless its lease ran out.           *)
(***************************************************************************)
THEOREM BudgetKept == Spec => []BudgetHolds
<1>1. QueueInv => BudgetHolds
  BY DEF QueueInv, LeaseInv, BudgetLeft, BudgetHolds
<1>2. QED
  BY <1>1, QueueInvHolds, PTL

(***************************************************************************)
(* No lease ever runs out under a pass whose batch fits it: what an office *)
(* would have from a smaller BATCH_SIZE or a longer LEASE_MS.              *)
(***************************************************************************)
THEOREM FittingBatchesNeverOverrun ==
  ASSUME BatchFitsLease
  PROVE  Spec => [](overran = {})
<1>1. QueueInv => overran = {}
  BY DEF QueueInv, NeverOverrun
<1>2. QED
  BY <1>1, QueueInvHolds, PTL

(***************************************************************************)
(* A row marked sent stays sent, whether or not batches fit their lease:   *)
(* message_log_sent_at_check turns a late failure update away.             *)
(***************************************************************************)
THEOREM SentStays == Spec => SentIsFinal
<1> DEFINE Step == \A m \in Messages : status[m] = "sent" => status'[m] = "sent"
<1>1. TypeOK /\ QueueInv /\ [Next]_vars => [Step]_vars
  <2> SUFFICES ASSUME TypeOK, QueueInv, Next, NEW m \in Messages, status[m] = "sent"
               PROVE  status'[m] = "sent"
    OBVIOUS
  <2>1. sentAt[m]
    BY DEF QueueInv, RowsChecked, SentAtCheck, TypeOK
  <2>2. ASSUME NEW w \in Workers, RecordFailure(w)
        PROVE  status'[m] = "sent"
    BY <2>1, <2>2 DEF RecordFailure, SentAtCheck, StatusAfterFailure, TypeOK
  <2>3. ASSUME NEW k \in Messages, NEW delay \in SendLater, Enqueue(k, delay)
        PROVE  status'[m] = "sent"
    BY <2>3 DEF Enqueue, TypeOK
  <2>4. ASSUME NEW w \in Workers, RecordSent(w)
        PROVE  status'[m] = "sent"
    BY <2>4 DEF RecordSent, TypeOK
  <2>5. CASE Withdraw
    BY <2>5 DEF Withdraw
  <2>6. QED
    BY <2>2, <2>3, <2>4, <2>5
    DEF Next, WorkerStep, Select, Commit, Send, SentUpdateFails, Crash, Tick, rows, provider
<1>2. QED
  BY <1>1, TypeCorrect, QueueInvHolds, PTL DEF Spec, SentIsFinal

(***************************************************************************)
(* The provider is never handed a message whose row is already marked      *)
(* sent, unless the row's lease ran out under a pass.                      *)
(***************************************************************************)
THEOREM SentOnce == Spec => SentIsNotSentAgain
<1> DEFINE Step == \A m \in Messages \ overran : status[m] = "sent" => accepted'[m] = accepted[m]
<1>1. TypeOK /\ QueueInv /\ [Next]_vars => [Step]_vars
  <2> SUFFICES ASSUME TypeOK, QueueInv, Next, NEW m \in Messages, m \notin overran, status[m] = "sent"
               PROVE  accepted'[m] = accepted[m]
    OBVIOUS
  <2>1. ASSUME NEW w \in Workers, NEW answer \in Answers, Send(w, answer)
        PROVE  accepted'[m] = accepted[m]
    <3>1. batch[w] \in Seq(Claim) /\ Len(batch[w]) # 0
      BY <2>1 DEF Send, TypeOK
    <3>2. Head(batch[w]) = batch[w][1] /\ 1 \in DOMAIN batch[w]
      BY <3>1, TailOfBatch
    <3>3. Head(batch[w]).id # m
      BY <2>1, <3>2 DEF QueueInv, LeaseInv, ClaimsCurrent, Send
    <3>4. QED
      BY <2>1, <3>3 DEF Send, TypeOK
  <2>2. QED
    BY <2>1 DEF Next, WorkerStep, Enqueue, Withdraw, Select, Commit, RecordSent, RecordFailure,
                SentUpdateFails, Crash, Tick, provider
<1>2. QED
  BY <1>1, TypeCorrect, QueueInvHolds, PTL DEF Spec, SentIsNotSentAgain

-----------------------------------------------------------------------------
(* A step after which no more sends are still to come of a row, and of     *)
(* which the provider has taken no more, leaves its attempts ahead.        *)
LEMMA FewerToSend ==
  ASSUME TypeOK, TypeOK', SendsAhead, NEW m \in Messages,
         StillToSend(m)' \subseteq StillToSend(m), accepted'[m] = accepted[m], attempts'[m] = attempts[m]
  PROVE  IsFiniteSet(StillToSend(m)') /\ accepted'[m] + Cardinality(StillToSend(m)') <= attempts'[m]
<1>1. IsFiniteSet(StillToSend(m)) /\ accepted[m] + Cardinality(StillToSend(m)) <= attempts[m]
  BY DEF SendsAhead
<1>2. IsFiniteSet(StillToSend(m)') /\ Cardinality(StillToSend(m)') <= Cardinality(StillToSend(m))
  BY <1>1, FS_Subset
<1>3. Cardinality(StillToSend(m)) \in Nat /\ Cardinality(StillToSend(m)') \in Nat
  BY <1>1, <1>2, FS_CardinalityType
<1>4. accepted[m] \in Nat /\ attempts[m] \in Nat
  BY DEF TypeOK
<1>5. QED
  BY <1>1, <1>2, <1>3, <1>4

(* What a pass that goes on or gives up still has to send, it had before.  *)
LEMMA RestStillToSend ==
  ASSUME TypeOK, NEW w \in Workers, pc[w] # "idle",
         (pc[w] = "recording" /\ Advance(w)) \/ Abandon(w), NEW m \in Messages
  PROVE  StillToSend(m)' \subseteq StillToSend(m)
<1> SUFFICES ASSUME NEW v \in Workers, Working(v)', NEW i \in DOMAIN batch'[v],
                    batch'[v][i].id = m, i # 1 \/ pc'[v] = "sending"
             PROVE  v \in StillToSend(m)
  BY DEF StillToSend
<1>1. CASE pc[w] = "recording" /\ Advance(w)
  <2>1. CASE v = w
    <3>1. batch'[w][i] = batch[w][i + 1] /\ i + 1 \in DOMAIN batch[w] /\ i \in Nat \ {0}
      BY <1>1, <2>1, AdvanceShifts
    <3>2. QED
      BY <1>1, <2>1, <3>1 DEF StillToSend, Working
  <2>2. CASE v # w
    <3>1. batch'[v] = batch[v] /\ pc'[v] = pc[v]
      BY <1>1, <2>2, AdvanceShifts
    <3>2. QED
      BY <3>1 DEF StillToSend, Working
  <2>3. QED
    BY <2>1, <2>2
<1>2. CASE Abandon(w)
  <2>1. v # w
    BY <1>2 DEF Abandon, TypeOK, Working
  <2>2. batch'[v] = batch[v] /\ pc'[v] = pc[v]
    BY <1>2, <2>1 DEF Abandon, TypeOK
  <2>3. QED
    BY <2>2 DEF StillToSend, Working
<1>3. QED
  BY <1>1, <1>2

LEMMA SendsAheadInductive ==
  ASSUME TypeOK, TypeOK', SendsAhead, RowsDistinct, [Next]_vars
  PROVE  SendsAhead'
<1> SUFFICES ASSUME NEW m \in Messages
             PROVE  IsFiniteSet(StillToSend(m)') /\ accepted'[m] + Cardinality(StillToSend(m)') <= attempts'[m]
  BY DEF SendsAhead
<1>0. /\ IsFiniteSet(StillToSend(m)) /\ accepted[m] + Cardinality(StillToSend(m)) <= attempts[m]
      /\ Cardinality(StillToSend(m)) \in Nat /\ accepted[m] \in Nat /\ attempts[m] \in Nat
  BY FS_CardinalityType DEF SendsAhead, TypeOK
<1>1. CASE UNCHANGED <<pc, batch, accepted, attempts>>
  <2>1. StillToSend(m)' = StillToSend(m)
    BY <1>1 DEF StillToSend, Working
  <2>2. QED
    BY <1>0, <1>1, <2>1
<1>2. ASSUME NEW w \in Workers, Select(w)
      PROVE  IsFiniteSet(StillToSend(m)') /\ accepted'[m] + Cardinality(StillToSend(m)') <= attempts'[m]
  <2>1. /\ ~Working(w) /\ ~Working(w)' /\ UNCHANGED <<accepted, attempts>>
        /\ \A v \in Workers : v # w => pc'[v] = pc[v] /\ batch'[v] = batch[v]
    BY <1>2 DEF Select, Working, TypeOK, rows, provider
  <2>2. StillToSend(m)' \subseteq StillToSend(m)
    BY <2>1 DEF StillToSend, Working
  <2>3. QED
    BY <2>1, <2>2, FewerToSend
<1>3. ASSUME NEW w \in Workers, Commit(w)
      PROVE  IsFiniteSet(StillToSend(m)') /\ accepted'[m] + Cardinality(StillToSend(m)') <= attempts'[m]
  <2>1. /\ pc[w] = "claiming" /\ pc'[w] = "sending" /\ UNCHANGED <<batch, accepted>>
        /\ \A v \in Workers : v # w => pc'[v] = pc[v]
        /\ attempts'[m] = IF Holds(w, m) THEN attempts[m] + 1 ELSE attempts[m]
    BY <1>3 DEF Commit, TypeOK, provider
  <2>2. CASE Holds(w, m)
    <3>1. StillToSend(m)' = StillToSend(m) \cup {w} /\ w \notin StillToSend(m)
      BY <2>1, <2>2 DEF StillToSend, Working, Holds
    <3>2. IsFiniteSet(StillToSend(m)') /\ Cardinality(StillToSend(m)') = Cardinality(StillToSend(m)) + 1
      BY <1>0, <3>1, FS_AddElement
    <3>3. QED
      BY <1>0, <2>1, <2>2, <3>2
  <2>3. CASE ~Holds(w, m)
    <3>1. StillToSend(m)' \subseteq StillToSend(m)
      BY <2>1, <2>3 DEF StillToSend, Working, Holds
    <3>2. QED
      BY <2>1, <2>3, <3>1, FewerToSend
  <2>4. QED
    BY <2>2, <2>3
<1>4. ASSUME NEW w \in Workers, NEW answer \in Answers, Send(w, answer)
      PROVE  IsFiniteSet(StillToSend(m)') /\ accepted'[m] + Cardinality(StillToSend(m)') <= attempts'[m]
  <2> DEFINE h == Head(batch[w]).id
  <2>1. /\ pc[w] = "sending" /\ pc'[w] = "recording" /\ UNCHANGED <<batch, attempts>>
        /\ \A v \in Workers : v # w => pc'[v] = pc[v]
        /\ accepted' = [accepted EXCEPT ![h] = IF answer \in {"accepted", "lost"} THEN @ + 1 ELSE @]
    BY <1>4 DEF Send, TypeOK, rows
  <2>2. 1 \in DOMAIN batch[w] /\ h = batch[w][1].id
    <3>1. batch[w] \in Seq(Claim) /\ Len(batch[w]) # 0
      BY <2>1 DEF TypeOK
    <3>2. QED
      BY <3>1, TailOfBatch
  <2> HIDE DEF h
  <2>3. CASE m = h
    <3>1. StillToSend(m)' = StillToSend(m) \ {w}
      <4>1. w \notin StillToSend(m)'
        BY <2>1, <2>2, <2>3 DEF StillToSend, RowsDistinct
      <4>2. ASSUME NEW v \in Workers, v # w
            PROVE  v \in StillToSend(m)' <=> v \in StillToSend(m)
        BY <2>1, <4>2 DEF StillToSend, Working
      <4>3. QED
        BY <4>1, <4>2 DEF StillToSend
    <3>2. w \in StillToSend(m)
      BY <2>1, <2>2, <2>3 DEF StillToSend, Working
    <3>3. IsFiniteSet(StillToSend(m)') /\ Cardinality(StillToSend(m)') = Cardinality(StillToSend(m)) - 1
      BY <1>0, <3>1, <3>2, FS_RemoveElement
    <3>4. accepted'[m] = accepted[m] \/ accepted'[m] = accepted[m] + 1
      BY <2>1, <2>3 DEF TypeOK
    <3>5. QED
      BY <1>0, <2>1, <3>3, <3>4
  <2>4. CASE m # h
    <3>1. StillToSend(m)' \subseteq StillToSend(m)
      <4> SUFFICES ASSUME NEW v \in Workers, v \in StillToSend(m)'
                   PROVE  v \in StillToSend(m)
        BY DEF StillToSend
      <4>1. CASE v = w
        <5>1. PICK i \in DOMAIN batch[w] : batch[w][i].id = m
          BY <2>1, <4>1 DEF StillToSend
        <5>2. i # 1
          BY <2>2, <2>4, <5>1
        <5>3. QED
          BY <2>1, <4>1, <5>1, <5>2 DEF StillToSend, Working
      <4>2. CASE v # w
        BY <2>1, <4>2 DEF StillToSend, Working
      <4>3. QED
        BY <4>1, <4>2
    <3>2. accepted'[m] = accepted[m]
      BY <2>1, <2>4 DEF TypeOK
    <3>3. QED
      BY <2>1, <3>1, <3>2, FewerToSend
  <2>5. QED
    BY <2>3, <2>4
<1>5. ASSUME NEW w \in Workers, pc[w] # "idle", (pc[w] = "recording" /\ Advance(w)) \/ Abandon(w),
             UNCHANGED <<accepted, attempts>>
      PROVE  IsFiniteSet(StillToSend(m)') /\ accepted'[m] + Cardinality(StillToSend(m)') <= attempts'[m]
  BY <1>5, RestStillToSend, FewerToSend
<1>6. ASSUME NEW w \in Workers, RecordSent(w) \/ RecordFailure(w) \/ Crash(w)
      PROVE  IsFiniteSet(StillToSend(m)') /\ accepted'[m] + Cardinality(StillToSend(m)') <= attempts'[m]
  <2>1. /\ pc[w] # "idle" /\ UNCHANGED <<accepted, attempts>>
        /\ (pc[w] = "recording" /\ Advance(w)) \/ Abandon(w)
    BY <1>6 DEF RecordSent, RecordFailure, Crash, rows, provider
  <2>2. QED
    BY <1>5, <2>1
<1>7. QED
  BY <1>1, <1>2, <1>3, <1>4, <1>6
  DEF Next, WorkerStep, Enqueue, Withdraw, SentUpdateFails, Tick, rows, workers, provider, vars

LEMMA ClaimsInductive ==
  ASSUME TypeOK, ClaimsApart, ClaimsCounted, [Next]_vars
  PROVE  ClaimsApart' /\ ClaimsCounted'
<1>1. ASSUME UNCHANGED <<pc, batch, attempts>>
      PROVE  ClaimsApart' /\ ClaimsCounted'
  BY <1>1 DEF ClaimsApart, ClaimsCounted, Holds
<1>2. ASSUME NEW w \in Workers, Select(w)
      PROVE  ClaimsApart' /\ ClaimsCounted'
  <2>1. ClaimsApart'
    <3>1. ASSUME NEW v \in Workers, v # w, pc[v] = "claiming", NEW m \in Messages, Holds(v, m)
          PROVE  ~Holds(w, m)'
      <4>1. m \notin Eligible
        BY <3>1 DEF Eligible, Locked
      <4>2. QED
        BY <1>2, <4>1, SelectFacts DEF Holds
    <3>2. QED
      BY <1>2, <3>1, SelectFacts DEF ClaimsApart, Holds
  <2>2. ClaimsCounted'
    BY <1>2, SelectFacts DEF ClaimsCounted
  <2>3. QED
    BY <2>1, <2>2
<1>3. ASSUME NEW w \in Workers, Commit(w)
      PROVE  ClaimsApart' /\ ClaimsCounted'
  <2>1. /\ pc[w] = "claiming" /\ pc'[w] = "sending" /\ batch' = batch
        /\ \A v \in Workers : v # w => pc'[v] = pc[v]
        /\ \A m \in Messages : attempts'[m] = IF Holds(w, m) THEN attempts[m] + 1 ELSE attempts[m]
    BY <1>3 DEF Commit, TypeOK
  <2>2. \A v \in Workers : \A i \in DOMAIN batch[v] :
          /\ batch[v][i].id \in Messages /\ batch[v][i].attempts \in Nat
          /\ Holds(v, batch[v][i].id) /\ attempts[batch[v][i].id] \in Nat
    BY RowOfBatch DEF TypeOK, Holds
  <2>3. ClaimsApart'
    BY <2>1 DEF ClaimsApart, Holds
  <2>4. ASSUME NEW v \in Workers, NEW i \in DOMAIN batch[v], pc'[v] = "claiming"
        PROVE  batch[v][i].attempts = attempts'[batch[v][i].id] + 1
    BY <2>1, <2>2, <2>4 DEF ClaimsApart, ClaimsCounted
  <2>5. ASSUME NEW v \in Workers, NEW i \in DOMAIN batch[v], pc'[v] # "claiming"
        PROVE  batch[v][i].attempts <= attempts'[batch[v][i].id]
    <3>1. CASE v = w
      BY <2>1, <2>2, <3>1 DEF ClaimsCounted
    <3>2. CASE v # w
      BY <2>1, <2>2, <2>5, <3>2 DEF ClaimsCounted
    <3>3. QED
      BY <3>1, <3>2
  <2>6. ClaimsCounted'
    BY <2>1, <2>4, <2>5 DEF ClaimsCounted
  <2>7. QED
    BY <2>3, <2>6
<1>4. ASSUME NEW w \in Workers, NEW answer \in Answers, Send(w, answer)
      PROVE  ClaimsApart' /\ ClaimsCounted'
  <2>1. /\ UNCHANGED <<batch, attempts>> /\ pc[w] = "sending" /\ pc'[w] = "recording"
        /\ \A v \in Workers : v # w => pc'[v] = pc[v]
    BY <1>4 DEF Send, TypeOK, rows
  <2>2. QED
    BY <2>1 DEF ClaimsApart, ClaimsCounted, Holds
<1>5. ASSUME NEW w \in Workers, (pc[w] = "recording" /\ Advance(w)) \/ Abandon(w), UNCHANGED attempts
      PROVE  ClaimsApart' /\ ClaimsCounted'
  <2>1. \A v \in Workers : pc'[v] = "claiming" => pc[v] = "claiming" /\ batch'[v] = batch[v]
    BY <1>5, RestWasHeld
  <2>2. \A v \in Workers : \A i \in DOMAIN batch'[v] :
          \E k \in DOMAIN batch[v] :
            batch'[v][i] = batch[v][k] /\ (pc'[v] = "claiming" <=> pc[v] = "claiming")
    BY <1>5, RestWasHeld
  <2>3. ClaimsApart'
    BY <2>1 DEF ClaimsApart, Holds
  <2>4. ClaimsCounted'
    BY <1>5, <2>2 DEF ClaimsCounted
  <2>5. QED
    BY <2>3, <2>4
<1>6. QED
  BY <1>1, <1>2, <1>3, <1>4, <1>5
  DEF Next, WorkerStep, Enqueue, Withdraw, RecordSent, RecordFailure, SentUpdateFails,
      Crash, Tick, rows, workers, provider, vars

LEMMA VerdictsInductive ==
  ASSUME TypeOK, TypeOK', VerdictsAnswered, [Next]_vars
  PROVE  VerdictsAnswered'
<1> SUFFICES ASSUME NEW v \in Workers, verdict'[v] = "permanent"
             PROVE  pc'[v] = "recording" /\ Head(batch'[v]).id \in refused'
  BY DEF VerdictsAnswered
<1>1. CASE verdict[v] = "permanent" /\ pc'[v] = pc[v] /\ batch'[v] = batch[v] /\ refused \subseteq refused'
  BY <1>1 DEF VerdictsAnswered
<1>2. ASSUME NEW w \in Workers, NEW answer \in Answers, Send(w, answer)
      PROVE  pc'[v] = "recording" /\ Head(batch'[v]).id \in refused'
  <2>1. CASE v = w
    BY <1>2, <2>1 DEF Send, VerdictOn, TypeOK
  <2>2. CASE v # w
    BY <1>1, <1>2, <2>2 DEF Send, TypeOK
  <2>3. QED
    BY <2>1, <2>2
<1>3. ASSUME NEW w \in Workers, (pc[w] = "recording" /\ Advance(w)) \/ Abandon(w), refused' = refused
      PROVE  pc'[v] = "recording" /\ Head(batch'[v]).id \in refused'
  <2>1. v # w
    BY <1>3 DEF Advance, Abandon, TypeOK
  <2>2. verdict'[v] = verdict[v] /\ pc'[v] = pc[v] /\ batch'[v] = batch[v]
    BY <1>3, <2>1 DEF Advance, Abandon, TypeOK
  <2>3. QED
    BY <1>1, <1>3, <2>2
<1>4. ASSUME NEW w \in Workers, SentUpdateFails(w)
      PROVE  pc'[v] = "recording" /\ Head(batch'[v]).id \in refused'
  BY <1>1, <1>4 DEF SentUpdateFails, TypeOK, provider
<1>5. ASSUME NEW w \in Workers, Select(w) \/ Commit(w)
      PROVE  pc'[v] = "recording" /\ Head(batch'[v]).id \in refused'
  <2>1. verdict' = verdict /\ refused' = refused /\ \A u \in Workers : u # w => pc'[u] = pc[u] /\ batch'[u] = batch[u]
    BY <1>5 DEF Select, Commit, TypeOK, provider
  <2>2. pc[w] # "recording"
    BY <1>5 DEF Select, Commit
  <2>3. v # w
    BY <2>1, <2>2 DEF VerdictsAnswered
  <2>4. QED
    BY <1>1, <2>1, <2>3
<1>6. ASSUME UNCHANGED <<pc, batch, verdict, refused>>
      PROVE  pc'[v] = "recording" /\ Head(batch'[v]).id \in refused'
  BY <1>1, <1>6
<1>7. QED
  BY <1>2, <1>3, <1>4, <1>5, <1>6
  DEF Next, WorkerStep, Enqueue, Withdraw, RecordSent, RecordFailure, Crash, Tick, rows, workers, provider, vars

LEMMA GiveUpInductive ==
  ASSUME TypeOK, TypeOK', ClaimsCounted, VerdictsAnswered, NoEarlyGiveUp, [Next]_vars
  PROVE  NoEarlyGiveUp'
<1> SUFFICES ASSUME NEW m \in Messages, status'[m] = "failed", m \notin withdrawn' \cup refused'
             PROVE  attempts'[m] >= MaxAttempts
  BY DEF NoEarlyGiveUp
<1> USE ConstantsAssumption
<1>0. attempts[m] \in Nat /\ withdrawn \subseteq withdrawn' /\ refused \subseteq refused'
  BY DEF TypeOK, Next, WorkerStep, Enqueue, Withdraw, Select, Commit, Send, RecordSent, RecordFailure,
         SentUpdateFails, Crash, Tick, rows, provider, vars
<1>1. CASE status'[m] = status[m] /\ attempts'[m] >= attempts[m]
  <2>1. attempts[m] >= MaxAttempts
    BY <1>0, <1>1 DEF NoEarlyGiveUp
  <2>2. attempts'[m] \in Nat
    BY DEF TypeOK
  <2>3. QED
    BY <1>0, <1>1, <2>1, <2>2
<1>2. ASSUME NEW w \in Workers, RecordFailure(w), status'[m] # status[m]
      PROVE  attempts'[m] >= MaxAttempts
  <2>1. batch[w] \in Seq(Claim) /\ Len(batch[w]) # 0
    BY <1>2 DEF RecordFailure, TypeOK
  <2>2. /\ Head(batch[w]) = batch[w][1] /\ 1 \in DOMAIN batch[w]
        /\ batch[w][1].attempts \in Nat
    BY <2>1, TailOfBatch DEF Claim
  <2>3. m = Head(batch[w]).id /\ StatusAfterFailure(Head(batch[w]), verdict[w]) = "failed"
    BY <1>2 DEF RecordFailure, TypeOK
  <2>4. Head(batch[w]).attempts >= MaxAttempts
    BY <1>0, <1>2, <2>3 DEF StatusAfterFailure, VerdictsAnswered, RecordFailure
  <2>5. Head(batch[w]).attempts <= attempts[m]
    BY <1>2, <2>2, <2>3 DEF ClaimsCounted, RecordFailure
  <2>6. attempts'[m] = attempts[m]
    BY <1>2 DEF RecordFailure
  <2>7. QED
    BY <1>0, <2>2, <2>4, <2>5, <2>6
<1>3. ASSUME NEW w \in Workers, Commit(w)
      PROVE  attempts'[m] >= MaxAttempts
  <2>1. status' = status /\ attempts'[m] \in {attempts[m], attempts[m] + 1}
    BY <1>3 DEF Commit
  <2>2. QED
    BY <1>0, <1>1, <2>1
<1>4. CASE Withdraw
  BY <1>0, <1>1, <1>4 DEF Withdraw
<1>5. ASSUME NEW k \in Messages, NEW delay \in SendLater, Enqueue(k, delay)
      PROVE  attempts'[m] >= MaxAttempts
  BY <1>0, <1>1, <1>5 DEF Enqueue, TypeOK
<1>6. ASSUME NEW w \in Workers, RecordSent(w)
      PROVE  attempts'[m] >= MaxAttempts
  BY <1>0, <1>1, <1>6 DEF RecordSent, TypeOK
<1>7. ASSUME UNCHANGED <<status, attempts>>
      PROVE  attempts'[m] >= MaxAttempts
  BY <1>0, <1>1, <1>7
<1>8. ASSUME NEW w \in Workers, RecordFailure(w), status'[m] = status[m]
      PROVE  attempts'[m] >= MaxAttempts
  BY <1>0, <1>1, <1>8 DEF RecordFailure
<1>9. QED
  BY <1>2, <1>3, <1>4, <1>5, <1>6, <1>7, <1>8
  DEF Next, WorkerStep, Select, Send, SentUpdateFails, Crash, Tick, rows, provider, vars

(* CountInv is an invariant of the queue, for any lease.                   *)
THEOREM CountInvHolds == Spec => []CountInv
<1>1. Init => CountInv
  <2> SUFFICES ASSUME Init
               PROVE  CountInv
    OBVIOUS
  <2>1. \A w \in Workers : DOMAIN batch[w] = {}
    BY DEF Init
  <2>2. \A m \in Messages : StillToSend(m) = {}
    BY DEF Init, StillToSend, Working
  <2>3. SendsAhead
    <3>1. \A m \in Messages : accepted[m] = 0 /\ attempts[m] = 0
      BY DEF Init
    <3>2. IsFiniteSet({}) /\ Cardinality({}) = 0
      BY FS_EmptySet
    <3>3. QED
      BY <2>2, <3>1, <3>2 DEF SendsAhead
  <2>4. QED
    BY <2>1, <2>3, ConstantsAssumption
    DEF Init, CountInv, RowsDistinct, ClaimsApart, ClaimsCounted, VerdictsAnswered, NoEarlyGiveUp, Holds
<1>2. TypeOK /\ TypeOK' /\ CountInv /\ [Next]_vars => CountInv'
  BY SendsAheadInductive, RowsDistinctInductive, ClaimsInductive, VerdictsInductive, GiveUpInductive
  DEF CountInv
<1>3. QED
  BY <1>1, <1>2, TypeCorrect, PTL DEF Spec

(***************************************************************************)
(* The provider never takes a message more often than the row's attempts   *)
(* say (claim, sendQueued): for any lease, however many workers hold the   *)
(* row, and however they die.                                              *)
(***************************************************************************)
THEOREM SendsAreCounted == Spec => []EverySendIsCounted
<1>1. TypeOK /\ CountInv => EverySendIsCounted
  <2> SUFFICES ASSUME TypeOK, SendsAhead, NEW m \in Messages
               PROVE  accepted[m] <= attempts[m]
    BY DEF CountInv, EverySendIsCounted
  <2>1. /\ Cardinality(StillToSend(m)) \in Nat
        /\ accepted[m] + Cardinality(StillToSend(m)) <= attempts[m]
    BY FS_CardinalityType DEF SendsAhead
  <2>2. QED
    BY <2>1 DEF TypeOK
<1>2. QED
  BY <1>1, TypeCorrect, CountInvHolds, PTL

(***************************************************************************)
(* A row is failed only if it was withdrawn, if the provider refused that  *)
(* very message for good, or if it has spent its attempts: for any lease.  *)
(***************************************************************************)
THEOREM NoneGivenUpEarly == Spec => []NoEarlyGiveUp
<1>1. CountInv => NoEarlyGiveUp
  BY DEF CountInv
<1>2. QED
  BY <1>1, CountInvHolds, PTL

-----------------------------------------------------------------------------
LEMMA SentWasTakenInductive ==
  ASSUME TypeOK, SentWasTaken, [Next]_vars
  PROVE  SentWasTaken'
<1> SUFFICES ASSUME NEW v \in Workers, pc'[v] = "recording", verdict'[v] = "sent"
             PROVE  accepted'[Head(batch'[v]).id] > 0
  BY DEF SentWasTaken
<1>1. CASE pc[v] = "recording" /\ verdict[v] = "sent" /\ batch'[v] = batch[v] /\ accepted' = accepted
  BY <1>1 DEF SentWasTaken
<1>2. ASSUME NEW w \in Workers, NEW answer \in Answers, Send(w, answer)
      PROVE  accepted'[Head(batch'[v]).id] > 0
  <2> DEFINE h == Head(batch[w]).id
             g == Head(batch[v]).id
  <2>1. /\ batch' = batch /\ pc[w] = "sending"
        /\ verdict'[w] = VerdictOn(answer)
        /\ accepted' = [accepted EXCEPT ![h] = IF answer \in {"accepted", "lost"} THEN @ + 1 ELSE @]
        /\ v # w => pc'[v] = pc[v] /\ verdict'[v] = verdict[v]
    BY <1>2 DEF Send, TypeOK, rows
  <2>2. pc[v] # "idle"
    BY <2>1 DEF TypeOK, Stages
  <2>3. batch[v] \in Seq(Claim) /\ Len(batch[v]) # 0
    BY <2>2 DEF TypeOK
  <2>4. g \in Messages
    BY <2>3, TailOfBatch DEF Claim
  <2> HIDE DEF h, g
  <2>5. CASE v = w
    <3>1. answer = "accepted"
      BY <2>1, <2>5 DEF VerdictOn
    <3>2. g = h
      BY <2>5 DEF g, h
    <3>3. QED
      BY <2>1, <2>4, <3>1, <3>2 DEF TypeOK, g
  <2>6. CASE v # w
    <3>1. accepted[g] > 0
      BY <2>1, <2>6 DEF SentWasTaken, g
    <3>2. accepted'[g] >= accepted[g]
      BY <2>1, <2>4 DEF TypeOK
    <3>3. accepted[g] \in Nat /\ accepted'[g] \in Nat
      BY <2>1, <2>4 DEF TypeOK
    <3>4. QED
      BY <2>1, <3>1, <3>2, <3>3 DEF g
  <2>7. QED
    BY <2>5, <2>6
<1>3. ASSUME NEW w \in Workers, (pc[w] = "recording" /\ Advance(w)) \/ Abandon(w), accepted' = accepted
      PROVE  accepted'[Head(batch'[v]).id] > 0
  <2>1. pc'[v] = pc[v] /\ batch'[v] = batch[v] /\ verdict'[v] = verdict[v]
    BY <1>3, RestWasHeld
  <2>2. QED
    BY <1>1, <1>3, <2>1
<1>4. ASSUME NEW w \in Workers, Select(w) \/ Commit(w) \/ SentUpdateFails(w)
      PROVE  accepted'[Head(batch'[v]).id] > 0
  BY <1>1, <1>4 DEF Select, Commit, SentUpdateFails, TypeOK, provider
<1>5. ASSUME UNCHANGED <<pc, batch, verdict, accepted>>
      PROVE  accepted'[Head(batch'[v]).id] > 0
  BY <1>1, <1>5
<1>6. QED
  BY <1>2, <1>3, <1>4, <1>5
  DEF Next, WorkerStep, Enqueue, Withdraw, RecordSent, RecordFailure, Crash, Tick, rows, workers, provider, vars

(* A row in a batch was in it before, or was eligible; its worker works on *)
(* it, or has just committed its claim.                                    *)
LEMMA HeldWereHeld ==
  ASSUME TypeOK, [Next]_vars, NEW v \in Workers, NEW i \in DOMAIN batch'[v]
  PROVE  /\ batch'[v][i].id \in Messages
         /\ \/ batch'[v][i].id \in Eligible /\ status' = status /\ pc'[v] = "claiming"
            \/ \E k \in DOMAIN batch[v] : /\ batch'[v][i] = batch[v][k]
                                          /\ Working(v)' /\ ~Working(v) => pc[v] = "claiming" /\ status' = status
<1>0. \A k \in DOMAIN batch[v] : batch[v][k].id \in Messages
  BY RowOfBatch DEF TypeOK
<1>1. ASSUME NEW w \in Workers, Select(w)
      PROVE  \/ batch'[v][i].id \in Eligible /\ status' = status /\ pc'[v] = "claiming"
             \/ batch'[v] = batch[v] /\ pc'[v] = pc[v]
  BY <1>1, SelectFacts
<1>2. ASSUME NEW w \in Workers, Commit(w)
      PROVE  /\ batch'[v] = batch[v]
             /\ Working(v)' /\ ~Working(v) => pc[v] = "claiming" /\ status' = status
  BY <1>2 DEF Commit, Working, TypeOK
<1>3. ASSUME NEW w \in Workers, NEW answer \in Answers, Send(w, answer)
      PROVE  batch'[v] = batch[v] /\ (Working(v)' => Working(v))
  BY <1>3 DEF Send, Working, TypeOK
<1>4. ASSUME NEW w \in Workers, (pc[w] = "recording" /\ Advance(w)) \/ Abandon(w)
      PROVE  \E k \in DOMAIN batch[v] : batch'[v][i] = batch[v][k] /\ (Working(v)' => Working(v))
  BY <1>4, RestWasHeld DEF Working
<1>5. ASSUME UNCHANGED <<pc, batch>>
      PROVE  batch'[v] = batch[v] /\ (Working(v)' => Working(v))
  BY <1>5 DEF Working
<1>6. \/ batch'[v][i].id \in Eligible /\ status' = status /\ pc'[v] = "claiming"
      \/ \E k \in DOMAIN batch[v] : /\ batch'[v][i] = batch[v][k]
                                    /\ Working(v)' /\ ~Working(v) => pc[v] = "claiming" /\ status' = status
  <2>1. CASE \E w \in Workers : Select(w)
    BY <1>1, <2>1 DEF Working
  <2>2. CASE \E w \in Workers : Commit(w)
    BY <1>2, <2>2
  <2>3. CASE \E w \in Workers : \E answer \in Answers : Send(w, answer)
    BY <1>3, <2>3
  <2>4. CASE \E w \in Workers : (pc[w] = "recording" /\ Advance(w)) \/ Abandon(w)
    BY <1>4, <2>4
  <2>5. CASE UNCHANGED <<pc, batch>>
    BY <1>5, <2>5
  <2>6. QED
    BY <2>1, <2>2, <2>3, <2>4, <2>5
    DEF Next, WorkerStep, Enqueue, Withdraw, RecordSent, RecordFailure, SentUpdateFails, Crash, Tick,
        workers, vars
<1>7. QED
  BY <1>0, <1>6 DEF Eligible

(* What happens to a row's status. *)
LEMMA StatusMoves ==
  ASSUME TypeOK, RowsDistinct, HoldersApart, [Next]_vars, NEW m \in Messages
  PROVE  /\ status[m] # "none" => status'[m] # "none"
         /\ withdrawn \subseteq withdrawn' /\ overran \subseteq overran'
         /\ \/ status'[m] = status[m]
            \/ m \in withdrawn'
            \/ status'[m] = "queued"
            \/ \A v \in Workers : \A i \in DOMAIN batch'[v] : batch'[v][i].id = m => m \in overran
<1>1. ASSUME NEW w \in Workers, (RecordSent(w) \/ RecordFailure(w)), status' # status
      PROVE  /\ status'[m] # status[m] =>
                  \A v \in Workers : \A i \in DOMAIN batch'[v] : batch'[v][i].id = m => m \in overran
             /\ status[m] # "none" => status'[m] # "none"
             /\ withdrawn \subseteq withdrawn' /\ overran \subseteq overran'
  <2>1. /\ pc[w] = "recording" /\ Advance(w) /\ UNCHANGED <<withdrawn, overran>>
        /\ \A k \in Messages : k # Head(batch[w]).id => status'[k] = status[k]
    BY <1>1 DEF RecordSent, RecordFailure, TypeOK
  <2>2. status'[m] \in {status[m], "sent", "failed", "queued"}
    BY <1>1 DEF RecordSent, RecordFailure, StatusAfterFailure, TypeOK
  <2>3. QED
    BY <2>1, <2>2, AdvanceHolders
<1>2. ASSUME NEW w \in Workers, (RecordSent(w) \/ RecordFailure(w)), status' = status
      PROVE  withdrawn \subseteq withdrawn' /\ overran \subseteq overran'
  BY <1>2 DEF RecordSent, RecordFailure
<1>3. CASE Withdraw
  BY <1>3 DEF Withdraw
<1>4. ASSUME NEW k \in Messages, NEW delay \in SendLater, Enqueue(k, delay)
      PROVE  /\ status'[m] = status[m] \/ status'[m] = "queued"
             /\ withdrawn \subseteq withdrawn' /\ overran \subseteq overran'
  BY <1>4 DEF Enqueue, TypeOK
<1>5. CASE UNCHANGED <<status, withdrawn>> /\ overran \subseteq overran'
  BY <1>5
<1>6. QED
  BY <1>1, <1>2, <1>3, <1>4, <1>5
  DEF Next, WorkerStep, Select, Commit, Send, SentUpdateFails, Crash, Tick, rows, provider, vars

LEMMA FailedWereWithdrawnInductive ==
  ASSUME TypeOK, RowsDistinct, LeaseInv, FailedWereWithdrawn, HeldRowsExist, [Next]_vars
  PROVE  FailedWereWithdrawn' /\ HeldRowsExist'
<1>1. ASSUME NEW v \in Workers, Working(v)', NEW i \in DOMAIN batch'[v], status'[batch'[v][i].id] = "failed"
      PROVE  batch'[v][i].id \in withdrawn' \cup overran'
  <2> DEFINE m == batch'[v][i].id
  <2>1. /\ m \in Messages
        /\ \/ m \in Eligible /\ pc'[v] = "claiming"
           \/ \E k \in DOMAIN batch[v] : /\ m = batch[v][k].id
                                         /\ Working(v)' /\ ~Working(v) => pc[v] = "claiming" /\ status' = status
    BY HeldWereHeld
  <2>2. /\ withdrawn \subseteq withdrawn' /\ overran \subseteq overran'
        /\ \/ status'[m] = status[m]
           \/ m \in withdrawn'
           \/ m \in overran
    BY <1>1, <2>1, StatusMoves DEF LeaseInv
  <2>3. PICK k \in DOMAIN batch[v] : /\ m = batch[v][k].id
                                     /\ Working(v)' /\ ~Working(v) => pc[v] = "claiming" /\ status' = status
    BY <1>1, <2>1 DEF Working
  <2> HIDE DEF m
  <2>4. CASE Working(v) /\ status'[m] = status[m]
    BY <1>1, <2>2, <2>3, <2>4 DEF FailedWereWithdrawn, m
  <2>5. CASE ~Working(v)
    BY <1>1, <2>2, <2>3, <2>5 DEF LeaseInv, ClaimsCurrent, m
  <2>6. QED
    BY <2>2, <2>4, <2>5 DEF m
<1>2. ASSUME NEW v \in Workers, NEW i \in DOMAIN batch'[v]
      PROVE  status'[batch'[v][i].id] # "none"
  BY HeldWereHeld, StatusMoves DEF LeaseInv, HeldRowsExist, Eligible
<1>3. QED
  BY <1>1, <1>2 DEF FailedWereWithdrawn, HeldRowsExist

THEOREM OutboxInvHolds == Spec => []OutboxInv
<1>1. Init => OutboxInv
  <2> SUFFICES ASSUME Init
               PROVE  OutboxInv
    OBVIOUS
  <2>1. \A w \in Workers : DOMAIN batch[w] = {}
    BY DEF Init
  <2>2. QED
    BY <2>1 DEF Init, OutboxInv, SentWasTaken, FailedWereWithdrawn, HeldRowsExist, Working
<1>2. TypeOK /\ QueueInv /\ OutboxInv /\ [Next]_vars => OutboxInv'
  BY SentWasTakenInductive, FailedWereWithdrawnInductive DEF OutboxInv, QueueInv
<1>3. QED
  BY <1>1, <1>2, TypeCorrect, QueueInvHolds, PTL DEF Spec

(* The row a worker records an answer for, or is about to send.            *)
LEMMA CurrentRow ==
  ASSUME TypeOK, LeaseInv, FailedWereWithdrawn, HeldRowsExist, NEW w \in Workers, Working(w)
  PROVE  LET m == Head(batch[w]).id IN
         m \in Messages /\ (O!Waiting(m) \/ (m \in overran /\ status[m] = "sent"))
<1>1. batch[w] \in Seq(Claim) /\ Len(batch[w]) # 0
  BY DEF TypeOK, Working
<1>2. Head(batch[w]) = batch[w][1] /\ 1 \in DOMAIN batch[w] /\ batch[w][1].id \in Messages
  BY <1>1, TailOfBatch DEF Claim
<1>3. status[batch[w][1].id] # "none" /\ status[batch[w][1].id] \in {"none", "queued", "sent", "failed"}
  BY <1>2 DEF HeldRowsExist, TypeOK
<1>4. batch[w][1].id \notin overran => status[batch[w][1].id] # "sent"
  BY <1>2 DEF LeaseInv, ClaimsCurrent, Working
<1>5. QED
  BY <1>2, <1>3, <1>4 DEF FailedWereWithdrawn, O!Waiting

(* A row whose lease runs out is still waiting, or has come apart before. *)
LEMMA RunOutWaits ==
  ASSUME TypeOK, LeaseInv, FailedWereWithdrawn, HeldRowsExist, NEW m \in RunOut, m \notin overran
  PROVE  m \in Messages /\ O!Waiting(m)
<1>1. m \in Messages /\ \E w \in Workers : Working(w) /\ Holds(w, m)
  BY DEF RunOut
<1>2. PICK w \in Workers : Working(w) /\ Holds(w, m)
  BY <1>1
<1>3. PICK i \in DOMAIN batch[w] : batch[w][i].id = m
  BY <1>2 DEF Holds
<1>4. status[m] \in {"queued", "failed"}
  BY <1>2, <1>3 DEF LeaseInv, ClaimsCurrent, Working
<1>5. QED
  BY <1>1, <1>2, <1>3, <1>4 DEF FailedWereWithdrawn, O!Waiting

LEMMA StepOfOutbox ==
  ASSUME TypeOK, TypeOK', QueueInv, OutboxInv, [Next]_vars
  PROVE  [O!Next]_O!vars
<1> USE ConstantsAssumption
<1>0. RowsChecked /\ LeaseInv /\ SentWasTaken /\ FailedWereWithdrawn /\ HeldRowsExist
  BY DEF QueueInv, OutboxInv
<1>1. ASSUME UNCHANGED <<status, accepted, withdrawn, overran>>
      PROVE  [O!Next]_O!vars
  BY <1>1 DEF O!vars
<1>2. ASSUME NEW m \in Messages, NEW delay \in SendLater, Enqueue(m, delay)
      PROVE  O!Next
  <2>1. O!Accept(m)
    BY <1>2 DEF Enqueue, O!Accept, O!Becomes, provider
  <2>2. QED
    BY <2>1 DEF O!Next
<1>3. CASE Withdraw
  <2> DEFINE ms == {m \in ColdEmails : status[m] = "queued"}
  <2>1. ms \in SUBSET Messages /\ O!Recall(ms)
    BY <1>3 DEF Withdraw, O!Recall, provider
  <2>2. QED
    BY <2>1 DEF O!Next
<1>4. ASSUME NEW w \in Workers, NEW answer \in Answers, Send(w, answer)
      PROVE  [O!Next]_O!vars
  <2> DEFINE m == Head(batch[w]).id
  <2>1. m \in Messages /\ (O!Waiting(m) \/ (m \in overran /\ status[m] = "sent"))
    BY <1>0, <1>4, CurrentRow DEF Send, Working
  <2>2. /\ UNCHANGED <<status, withdrawn, overran>>
        /\ accepted' = [accepted EXCEPT ![m] = IF answer \in {"accepted", "lost"} THEN @ + 1 ELSE @]
    BY <1>4 DEF Send, rows
  <2> HIDE DEF m
  <2>3. CASE answer \in {"accepted", "lost"}
    <3>1. O!Deliver(m)
      BY <2>1, <2>2, <2>3 DEF O!Deliver
    <3>2. QED
      BY <2>1, <3>1 DEF O!Next
  <2>4. CASE answer \notin {"accepted", "lost"}
    <3>1. accepted' = accepted
      BY <2>2, <2>4 DEF TypeOK
    <3>2. QED
      BY <1>1, <2>2, <3>1
  <2>5. QED
    BY <2>3, <2>4
<1>5. ASSUME NEW w \in Workers, RecordSent(w)
      PROVE  [O!Next]_O!vars
  <2> DEFINE m == Head(batch[w]).id
  <2>1. m \in Messages /\ (O!Waiting(m) \/ status[m] = "sent")
    BY <1>0, <1>5, CurrentRow DEF RecordSent, Working
  <2>2. accepted[m] > 0
    BY <1>0, <1>5 DEF RecordSent, SentWasTaken
  <2>3. UNCHANGED <<accepted, withdrawn, overran>> /\ status' = [status EXCEPT ![m] = "sent"]
    BY <1>5 DEF RecordSent, provider
  <2> HIDE DEF m
  <2>4. CASE O!Waiting(m)
    <3>1. O!Succeed(m)
      BY <2>1, <2>2, <2>3, <2>4 DEF O!Succeed, O!Becomes
    <3>2. QED
      BY <2>1, <3>1 DEF O!Next
  <2>5. CASE status[m] = "sent"
    <3>1. status' = status
      BY <2>1, <2>3, <2>5 DEF TypeOK
    <3>2. QED
      BY <1>1, <2>3, <3>1
  <2>6. QED
    BY <2>1, <2>4, <2>5
<1>6. ASSUME NEW w \in Workers, RecordFailure(w)
      PROVE  [O!Next]_O!vars
  <2> DEFINE m == Head(batch[w]).id
             s == StatusAfterFailure(Head(batch[w]), verdict[w])
  <2>1. m \in Messages /\ (O!Waiting(m) \/ status[m] = "sent")
    BY <1>0, <1>6, CurrentRow DEF RecordFailure, Working
  <2>2. s \in {"queued", "failed"}
    BY DEF StatusAfterFailure
  <2>3. /\ UNCHANGED <<accepted, withdrawn, overran>>
        /\ (status' = [status EXCEPT ![m] = s] /\ SentAtCheck(s, sentAt[m])) \/ status' = status
    BY <1>6 DEF RecordFailure, provider
  <2> HIDE DEF m, s
  <2>4. CASE status' = status
    BY <1>1, <2>3, <2>4
  <2>5. CASE status' = [status EXCEPT ![m] = s] /\ SentAtCheck(s, sentAt[m])
    <3>1. O!Waiting(m)
      BY <1>0, <2>1, <2>2, <2>5 DEF RowsChecked, SentAtCheck
    <3>2. O!GiveUp(m) \/ O!PutBack(m)
      BY <2>2, <2>3, <2>5, <3>1 DEF O!GiveUp, O!PutBack, O!Becomes
    <3>3. QED
      BY <2>1, <3>2 DEF O!Next
  <2>6. QED
    BY <2>3, <2>4, <2>5
<1>7. CASE Tick
  <2> DEFINE ms == RunOut \ overran
  <2>1. UNCHANGED <<status, accepted, withdrawn>> /\ overran' = overran \cup ms
    BY <1>7 DEF Tick, provider
  <2>2. ms \in SUBSET Messages /\ \A m \in ms : O!Waiting(m)
    BY <1>0, RunOutWaits DEF RunOut
  <2> HIDE DEF ms
  <2>3. O!Contest(ms)
    BY <2>1, <2>2 DEF O!Contest
  <2>4. QED
    BY <2>2, <2>3 DEF O!Next
<1>8. QED
  BY <1>1, <1>2, <1>3, <1>4, <1>5, <1>6, <1>7
  DEF Next, WorkerStep, Select, Commit, SentUpdateFails, Crash, rows, provider, vars

(***************************************************************************)
(* The queue implements the outbox, whatever its batch and its lease: a    *)
(* row is handed to the provider only while it waits, is marked sent only  *)
(* once the provider took it, and is settled once.  The exceptions are the *)
(* rows the cold email sequence withdrew under a worker and those whose    *)
(* lease ran out under a pass, and Outbox says what is left for them.      *)
(***************************************************************************)
THEOREM OutboxImplemented == Spec => ImplementsOutbox
<1>1. Init => O!Init
  BY DEF Init, O!Init
<1>2. TypeOK /\ TypeOK' /\ QueueInv /\ OutboxInv /\ [Next]_vars => [O!Next]_O!vars
  BY StepOfOutbox
<1>3. QED
  BY <1>1, <1>2, TypeCorrect, QueueInvHolds, OutboxInvHolds, PTL DEF Spec, ImplementsOutbox, O!Spec
=============================================================================
