--------------------------- MODULE PaymentsProofs ---------------------------
(***************************************************************************)
(* Proofs about module Payments, for any bill, any number of requests of   *)
(* each kind and any number of faults.                                     *)
(***************************************************************************)
EXTENDS Payments, TLAPS

LEMMA NoPaymentIsNone == NoPayment \notin Payments
BY DEF NoPayment, Payments, AtSquare, OnFile, FromTab, ByHand

LEMMA AtSquareIsPayment == AtSquare \subseteq Payments
BY DEF Payments

LEMMA ActorKinds ==
  /\ Chargers \subseteq Actors /\ Tabs \subseteq Actors /\ Reps \subseteq Actors
  /\ Refunders \subseteq Actors /\ Handlers \subseteq Actors
BY DEF Actors

-----------------------------------------------------------------------------
(* Sums of no payment and of one. *)

LEMMA TotalOfNone == Total({}) = 0
<1> DEFINE Sums(g) ==
      g = [s \in SUBSET {} |-> IF s = {} THEN 0
                               ELSE (CHOOSE x \in s : TRUE).amount + g[s \ {CHOOSE x \in s : TRUE}]]
<1>1. Total({}) = (CHOOSE g : Sums(g))[{}]
  BY DEF Total, MapThenSumSet, MapThenFoldSet
<1>2. Sums([s \in SUBSET {} |-> 0])
  OBVIOUS
<1>3. Sums(CHOOSE g : Sums(g))
  BY <1>2
<1>4. QED
  BY <1>1, <1>3

LEMMA TotalOfOne ==
  ASSUME NEW p, p.amount \in Nat
  PROVE  Total({p}) = p.amount
<1> DEFINE Sums(g) ==
      g = [s \in SUBSET {p} |-> IF s = {} THEN 0
                                ELSE (CHOOSE x \in s : TRUE).amount + g[s \ {CHOOSE x \in s : TRUE}]]
<1> DEFINE sum == CHOOSE g : Sums(g)
<1>1. Total({p}) = sum[{p}]
  BY DEF Total, MapThenSumSet, MapThenFoldSet
<1>2. \A s \in SUBSET {p} : s # {} => (CHOOSE x \in s : TRUE) = p /\ s \ {p} = {}
  OBVIOUS
<1>3. Sums(sum)
  <2>1. Sums([s \in SUBSET {p} |-> IF s = {} THEN 0 ELSE p.amount])
    BY <1>2
  <2>2. QED
    BY <2>1
<1> HIDE DEF sum
<1>4. sum[{}] = 0
  BY <1>3
<1>5. sum[{p}] = p.amount + sum[{p} \ {p}]
  <2>1. (CHOOSE x \in {p} : TRUE) = p
    OBVIOUS
  <2>2. QED
    BY <1>3, <2>1
<1>6. {p} \ {p} = {}
  OBVIOUS
<1>7. QED
  BY <1>1, <1>4, <1>5, <1>6

LEMMA SomethingIsDue == Due \in Nat /\ Due > 0 /\ Owing({}) = Due /\ ~Covered({})
BY PaymentsAssumption, TotalOfNone DEF Covered, Owing

LEMMA OneCovers ==
  ASSUME NEW p, p.amount = Due
  PROVE  Covered({p}) /\ Total({p}) = Due
BY TotalOfOne, SomethingIsDue DEF Covered

(* At most one payment, of the whole bill. *)
LEMMA AtMostOne ==
  ASSUME NEW S, \A p \in S : p.amount = Due, \A p, q \in S : p = q
  PROVE  Total(S) <= Due /\ (~Covered(S) => S = {})
<1>1. CASE S = {}
  BY <1>1, TotalOfNone, SomethingIsDue
<1>2. ASSUME NEW p \in S
      PROVE  Total(S) <= Due /\ Covered(S)
  <2>1. S = {p} /\ p.amount = Due
    BY <1>2
  <2>2. QED
    BY <2>1, OneCovers, SomethingIsDue
<1>3. QED
  BY <1>1, <1>2

-----------------------------------------------------------------------------
(* The pieces that several actions share. *)

LEMMA StartTyped ==
  ASSUME TypeOK, NEW a \in Actors, NEW p \in Payments, NEW at \in {"asking", "booking"},
         Start(a, p, at), a \in Refunders \cup Handlers => p \in AtSquare
  PROVE  /\ pc' \in [Actors -> {"idle", "asking", "booking"}]
         /\ item' \in [Actors -> Payments \cup {NoPayment}]
         /\ crossed' \subseteq Payments
         /\ \A b \in Actors : item'[b] = NoPayment <=> pc'[b] = "idle"
         /\ \A b \in Refunders \cup Handlers : item'[b] \in AtSquare \cup {NoPayment}
BY NoPaymentIsNone, ActorKinds DEF Start, TypeOK

LEMMA DoneTyped ==
  ASSUME TypeOK, NEW a \in Actors, Done(a)
  PROVE  /\ pc' \in [Actors -> {"idle", "asking", "booking"}]
         /\ item' \in [Actors -> Payments \cup {NoPayment}]
         /\ reply' \in [Actors -> RowStatuses]
         /\ crossed' \subseteq Payments
         /\ \A b \in Actors : item'[b] = NoPayment <=> pc'[b] = "idle"
         /\ \A b \in Refunders \cup Handlers : item'[b] \in AtSquare \cup {NoPayment}
         /\ \A b \in Chargers \cup Tabs : reply'[b] \in {"none"} \cup ChargeAnswers
BY ActorKinds DEF Done, TypeOK, RowStatuses

LEMMA StatusTyped ==
  ASSUME TypeOK, NEW S
  PROVE  StatusWith(S) \in {"draft", "sent", "overdue", "paid", "void"}
BY DEF StatusWith, TypeOK

LEMMA RecomputeTyped ==
  ASSUME TypeOK, RecomputeInvoiceTotals
  PROVE  /\ status' \in {"draft", "sent", "overdue", "paid", "void"}
         /\ late' \in BOOLEAN
         /\ counted' \subseteq Payments
<1>1. status' = StatusWith(counted') /\ late' = late
  BY DEF RecomputeInvoiceTotals
<1>2. counted' \subseteq Payments
  BY DEF RecomputeInvoiceTotals, Succeeded
<1>3. QED
  BY <1>1, <1>2, StatusTyped DEF TypeOK

LEMMA RecordTyped ==
  ASSUME TypeOK, NEW p, NEW as \in RowStatuses, RecordPayment(p, as)
  PROVE  /\ row' \in [Payments -> RowStatuses]
         /\ status' \in {"draft", "sent", "overdue", "paid", "void"}
         /\ late' \in BOOLEAN
         /\ counted' \subseteq Payments
<1>1. row' \in [Payments -> RowStatuses]
  BY DEF RecordPayment, TypeOK
<1>2. CASE UNCHANGED invoice
  BY <1>1, <1>2 DEF invoice, TypeOK
<1>3. CASE RecomputeInvoiceTotals
  BY <1>1, <1>3, RecomputeTyped
<1>4. QED
  BY <1>2, <1>3 DEF RecordPayment

LEMMA ChargeTyped ==
  ASSUME TypeOK, NEW p, NEW answer \in ChargeAnswers, Charge(p, answer)
  PROVE  /\ square' \in [AtSquare -> {"none", "pending", "completed", "failed", "refunded"}]
         /\ original' \in [AtSquare -> {"none"} \cup ChargeAnswers]
         /\ emitted' = emitted /\ unacked' = unacked
<1>1. (CASE answer = "succeeded" -> "completed"
         [] answer = "pending"   -> "pending"
         [] answer = "failed"    -> "failed")
        \in {"none", "pending", "completed", "failed", "refunded"}
  BY DEF ChargeAnswers
<1>2. QED
  BY <1>1 DEF Charge, TypeOK, processor

LEMMA EmitTyped ==
  ASSUME TypeOK, NEW e \in Events, Emit(e)
  PROVE  emitted' \subseteq Events /\ unacked' \subseteq emitted'
BY DEF Emit, TypeOK

-----------------------------------------------------------------------------
(* Every variable keeps to its type, and a request is about a payment      *)
(* exactly while it is not idle.                                           *)
THEOREM TypeCorrect == Spec => []TypeOK
<1> USE ActorKinds, AtSquareIsPayment
<1>1. Init => TypeOK
  <2> SUFFICES ASSUME Init PROVE TypeOK
    OBVIOUS
  <2>1. NoPayment \in Payments \cup {NoPayment}
    OBVIOUS
  <2>2. QED
    BY <2>1, PaymentsAssumption DEF Init, TypeOK, RowStatuses
<1>2. TypeOK /\ [Next]_vars => TypeOK'
  <2> SUFFICES ASSUME TypeOK, [Next]_vars PROVE TypeOK'
    OBVIOUS
  <2>1. CASE SendInvoice \/ VoidInvoice \/ MarkOverdue \/ DatePasses
    BY <2>1 DEF TypeOK, SendInvoice, VoidInvoice, MarkOverdue, DatePasses, requests, processor
  <2>2. ASSUME NEW c \in Chargers, ChargeInvoice(c)
        PROVE  TypeOK'
    <3>1. PICK p \in OnFile : Start(c, p, "asking")
      BY <2>2 DEF ChargeInvoice, CardKey
    <3>2. p \in Payments /\ c \notin Refunders \cup Handlers
      BY PaymentsAssumption DEF Payments, AtSquare
    <3>3. QED
      BY <2>2, <3>1, <3>2, StartTyped DEF ChargeInvoice, invoice, processor, TypeOK
  <2>3. ASSUME NEW t \in Tabs, PayPortalInvoice(t)
        PROVE  TypeOK'
    <3>1. PICK p \in FromTab : Start(t, p, "asking")
      BY <2>3 DEF PayPortalInvoice, TabKey
    <3>2. p \in Payments /\ t \notin Refunders \cup Handlers
      BY PaymentsAssumption DEF Payments, AtSquare
    <3>3. QED
      BY <2>3, <3>1, <3>2, StartTyped DEF PayPortalInvoice, invoice, processor, TypeOK
  <2>4. ASSUME NEW rep \in Reps, CollectPayment(rep)
        PROVE  TypeOK'
    <3>1. PICK p \in ByHand : Start(rep, p, "booking")
      BY <2>4 DEF CollectPayment, FreshSlip
    <3>2. p \in Payments /\ rep \notin Refunders \cup Handlers
      BY PaymentsAssumption DEF Payments
    <3>3. QED
      BY <2>4, <3>1, <3>2, StartTyped DEF CollectPayment, processor, TypeOK
  <2>5. ASSUME NEW r \in Refunders, NEW p \in AtSquare, RefundPayment(r, p)
        PROVE  TypeOK'
    BY <2>5, StartTyped DEF RefundPayment, invoice, processor, TypeOK
  <2>6. ASSUME NEW h \in Handlers, NEW e \in emitted, ReadEvent(h, e)
        PROVE  TypeOK'
    <3>1. e.payment \in AtSquare /\ e.status \in RowStatuses /\ h \notin Chargers \cup Tabs
      BY PaymentsAssumption DEF TypeOK, Events, RowStatuses
    <3>2. QED
      BY <2>6, <3>1, StartTyped DEF ReadEvent, invoice, processor, TypeOK
  <2>7. ASSUME NEW a \in Chargers \cup Tabs, NEW answer \in ChargeAnswers, AskSquare(a, answer)
        PROVE  TypeOK'
    <3>1. /\ pc' = [pc EXCEPT ![a] = "booking"] /\ reply' = [reply EXCEPT ![a] = answer]
          /\ pc[a] = "asking" /\ a \in Actors /\ answer \in RowStatuses
      BY <2>7 DEF AskSquare, ChargeAnswers, RowStatuses
    <3>2. \A b \in Actors : item[b] = NoPayment <=> pc'[b] = "idle"
      BY <3>1 DEF TypeOK
    <3>3. QED
      BY <2>7, <3>1, <3>2, ChargeTyped DEF AskSquare, invoice, TypeOK
  <2>8. ASSUME NEW a \in Chargers \cup Tabs, NEW answer \in ChargeAnswers, AnswerLost(a, answer)
        PROVE  TypeOK'
    BY <2>8, ChargeTyped, DoneTyped DEF AnswerLost, invoice, TypeOK
  <2>9. ASSUME NEW c \in Chargers, BookCharge(c)
        PROVE  TypeOK'
    <3>1. reply[c] \in RowStatuses
      BY DEF TypeOK
    <3>2. QED
      BY <2>9, <3>1, RecordTyped, DoneTyped DEF BookCharge, processor, TypeOK
  <2>10. ASSUME NEW t \in Tabs, BookPortal(t)
         PROVE  TypeOK'
    <3>1. reply[t] \in RowStatuses
      BY DEF TypeOK
    <3>2. CASE UNCHANGED <<invoice, row>>
      BY <2>10, <3>2, DoneTyped DEF BookPortal, invoice, processor, TypeOK
    <3>3. CASE RecordPayment(item[t], reply[t])
      BY <2>10, <3>1, <3>3, RecordTyped, DoneTyped DEF BookPortal, processor, TypeOK
    <3>4. QED
      BY <2>10, <3>2, <3>3 DEF BookPortal
  <2>11. ASSUME NEW rep \in Reps, BookCollected(rep)
         PROVE  TypeOK'
    <3>1. "succeeded" \in RowStatuses
      BY DEF RowStatuses
    <3>2. QED
      BY <2>11, <3>1, RecordTyped, DoneTyped DEF BookCollected, processor, TypeOK
  <2>12. ASSUME NEW p \in ByHand, NEW as \in ChargeAnswers, RecordByHand(p, as)
         PROVE  TypeOK'
    <3>1. as \in RowStatuses
      BY DEF ChargeAnswers, RowStatuses
    <3>2. QED
      BY <2>12, <3>1, RecordTyped DEF RecordByHand, requests, processor, TypeOK
  <2>13. ASSUME NEW p \in ByHand, RefundByHand(p)
         PROVE  TypeOK'
    BY <2>13, RecomputeTyped DEF RefundByHand, requests, processor, TypeOK, RowStatuses
  <2>14. ASSUME NEW r \in Refunders, AskRefund(r) \/ RefundAnswerLost(r) \/ RefundRefused(r)
         PROVE  TypeOK'
    <3>1. pc[r] = "asking" /\ item[r] \in AtSquare
      BY <2>14 DEF AskRefund, RefundAnswerLost, RefundRefused, TypeOK
    <3>2. [payment |-> item[r], status |-> "refunded"] \in Events
      BY <3>1 DEF Events
    <3>3. /\ square' \in [AtSquare -> {"none", "pending", "completed", "failed", "refunded"}]
          /\ original' = original /\ emitted' \subseteq Events /\ unacked' \subseteq emitted'
      BY <2>14, <3>2, EmitTyped DEF AskRefund, RefundAnswerLost, RefundRefused, RefundAtSquare,
         processor, TypeOK
    <3>4. CASE AskRefund(r)
      BY <3>1, <3>3, <3>4 DEF AskRefund, invoice, TypeOK
    <3>5. CASE RefundAnswerLost(r) \/ RefundRefused(r)
      BY <3>3, <3>5, DoneTyped DEF RefundAnswerLost, RefundRefused, invoice, TypeOK
    <3>6. QED
      BY <2>14, <3>4, <3>5
  <2>15. ASSUME NEW r \in Refunders, BookRefund(r)
         PROVE  TypeOK'
    BY <2>15, RecomputeTyped, DoneTyped DEF BookRefund, processor, TypeOK, RowStatuses
  <2>16. ASSUME NEW p \in AtSquare, NEW outcome \in {"succeeded", "failed"}, Settle(p, outcome)
         PROVE  TypeOK'
    <3>1. [payment |-> p, status |-> outcome] \in Events
      BY DEF Events
    <3>2. QED
      BY <2>16, <3>1, EmitTyped DEF Settle, invoice, requests, TypeOK
  <2>17. ASSUME NEW p \in AtSquare, DashboardRefund(p) \/ Repeat(p)
         PROVE  TypeOK'
    <3>1. /\ [payment |-> p, status |-> "refunded"] \in Events
          /\ [payment |-> p, status |-> "succeeded"] \in Events
      BY DEF Events
    <3>2. QED
      BY <2>17, <3>1, EmitTyped DEF DashboardRefund, Repeat, invoice, requests, TypeOK
  <2>18. ASSUME NEW e \in emitted, IgnoreEvent(e)
         PROVE  TypeOK'
    BY <2>18 DEF IgnoreEvent, invoice, requests, TypeOK
  <2>19. ASSUME NEW h \in Handlers, ReconcilePayment(h)
         PROVE  TypeOK'
    BY <2>19, RecomputeTyped, DoneTyped DEF ReconcilePayment, TypeOK
  <2>20. ASSUME NEW a \in Actors, Crash(a)
         PROVE  TypeOK'
    BY <2>20, DoneTyped DEF Crash, invoice, processor, TypeOK
  <2>21. CASE UNCHANGED vars
    BY <2>21 DEF TypeOK, vars, invoice, requests, processor
  <2>22. QED
    BY <2>1, <2>2, <2>3, <2>4, <2>5, <2>6, <2>7, <2>8, <2>9, <2>10, <2>11, <2>12, <2>13, <2>14,
       <2>15, <2>16, <2>17, <2>18, <2>19, <2>20, <2>21 DEF Next, ChargerStep, TabStep, Deliver
<1>3. QED
  BY <1>1, <1>2, PTL DEF Spec

-----------------------------------------------------------------------------
(* Why the books agree: the invariant BooksInv, action by action. *)

LEMMA RecomputeAgrees ==
  ASSUME TypeOK, TypeOK', RecomputeInvoiceTotals, status # "draft"
  PROVE  BooksAgree' /\ NothingBeforeSent'
<1>1. status' = StatusWith(counted') /\ counted' = Succeeded(row)'
  BY DEF RecomputeInvoiceTotals, Succeeded
<1>2. /\ status' # "draft"
      /\ status' = "paid" => Covered(counted')
      /\ status' \in {"sent", "overdue"} => ~Covered(counted')
  BY <1>1 DEF StatusWith, TypeOK
<1>3. QED
  BY <1>1, <1>2 DEF BooksAgree, NothingBeforeSent

LEMMA RecordKeeps ==
  ASSUME TypeOK, TypeOK', BooksInv, NEW p \in Payments, NEW as \in RowStatuses,
         RecordPayment(p, as)
  PROVE  /\ BooksAgree' /\ NothingBeforeSent'
         /\ \A q \in Payments : row[q] # "none" => row'[q] = row[q]
<1>1. \A q \in Payments : row[q] # "none" => row'[q] = row[q]
  BY DEF RecordPayment, TypeOK
<1>2. CASE UNCHANGED <<row, invoice>>
  BY <1>1, <1>2 DEF invoice, BooksInv, BooksAgree, Succeeded, NothingBeforeSent
<1>3. ASSUME status \in PAYABLE_STATUSES, row[p] = "none", row' = [row EXCEPT ![p] = as],
             as # "succeeded", UNCHANGED invoice
      PROVE  BooksAgree' /\ NothingBeforeSent'
  <2>1. Succeeded(row)' = Succeeded(row)
    BY <1>3 DEF Succeeded, TypeOK
  <2>2. QED
    BY <1>3, <2>1 DEF invoice, BooksInv, BooksAgree, NothingBeforeSent, PAYABLE_STATUSES
<1>4. CASE status \in PAYABLE_STATUSES /\ RecomputeInvoiceTotals
  BY <1>1, <1>4, RecomputeAgrees DEF PAYABLE_STATUSES
<1>5. CASE status \in PAYABLE_STATUSES /\ row[p] = "none"
  <2>1. row' = [row EXCEPT ![p] = as]
    BY <1>5 DEF RecordPayment
  <2>2. CASE as = "succeeded"
    BY <1>1, <1>4, <1>5, <2>2 DEF RecordPayment
  <2>3. CASE as # "succeeded"
    <3>1. UNCHANGED invoice
      BY <1>5, <2>3 DEF RecordPayment
    <3>2. BooksAgree' /\ NothingBeforeSent'
      BY <1>3, <1>5, <2>1, <2>3, <3>1
    <3>3. QED
      BY <1>1, <3>2
  <2>4. QED
    BY <2>2, <2>3
<1>6. CASE ~(status \in PAYABLE_STATUSES /\ row[p] = "none")
  BY <1>2, <1>6 DEF RecordPayment
<1>7. QED
  BY <1>5, <1>6

(* Requests that refund or reconcile are not disturbed by new rows. *)
LEMMA OthersHold ==
  ASSUME TypeOK, BooksInv,
         \A q \in Payments : row[q] # "none" => row'[q] = row[q],
         \A b \in Refunders \cup Handlers :
           pc'[b] = pc[b] /\ item'[b] = item[b] /\ reply'[b] = reply[b],
         crossed' = crossed
  PROVE  RefundsHold' /\ HandlersHold'
<1>1. \A b \in Refunders \cup Handlers : pc[b] # "idle" => item[b] \in Payments
  BY ActorKinds DEF TypeOK
<1>2. RefundsHold'
  BY <1>1 DEF BooksInv, RefundsHold
<1>3. HandlersHold'
  BY <1>1 DEF BooksInv, HandlersHold
<1>4. QED
  BY <1>2, <1>3

(* The office's and the customer's side, none of which refunds. *)
LEMMA BookingKeeps ==
  ASSUME TypeOK, TypeOK', BooksInv, NEW a \in Chargers \cup Tabs \cup Reps, Done(a),
         pc[a] = "booking",
         NEW as \in RowStatuses, RecordPayment(item[a], as) \/ UNCHANGED <<invoice, row>>
  PROVE  BooksInv'
<1>1. item[a] \in Payments /\ a \notin Refunders \cup Handlers
  BY ActorKinds, PaymentsAssumption DEF TypeOK
<1>2. /\ \A b \in Refunders \cup Handlers :
           pc'[b] = pc[b] /\ item'[b] = item[b] /\ reply'[b] = reply[b]
      /\ crossed' = crossed
  BY <1>1 DEF Done, TypeOK
<1>3. /\ BooksAgree' /\ NothingBeforeSent'
      /\ \A q \in Payments : row[q] # "none" => row'[q] = row[q]
  <2>1. CASE RecordPayment(item[a], as)
    BY <1>1, <2>1, RecordKeeps
  <2>2. CASE UNCHANGED <<invoice, row>>
    BY <2>2 DEF invoice, BooksInv, BooksAgree, Succeeded, NothingBeforeSent
  <2>3. QED
    BY <2>1, <2>2
<1>4. QED
  BY <1>2, <1>3, OthersHold DEF BooksInv

(* Steps that only move a charging, paying or collecting request on. *)
LEMMA RequestKeeps ==
  ASSUME TypeOK, BooksInv, UNCHANGED <<invoice, row>>,
         \A b \in Refunders \cup Handlers :
           \/ pc'[b] = pc[b] /\ item'[b] = item[b] /\ reply'[b] = reply[b]
           \/ pc[b] # "idle" /\ pc'[b] = "idle" /\ item'[b] = NoPayment,
         crossed' = crossed
  PROVE  BooksInv'
<1>1. BooksAgree' /\ NothingBeforeSent'
  BY DEF invoice, BooksInv, BooksAgree, Succeeded, NothingBeforeSent
<1>2. \A b \in Refunders \cup Handlers : pc[b] # "idle" => item[b] # NoPayment
  BY ActorKinds DEF TypeOK
<1>3. RefundsHold'
  BY <1>2 DEF BooksInv, RefundsHold
<1>4. HandlersHold'
  BY <1>2 DEF BooksInv, HandlersHold
<1>5. QED
  BY <1>1, <1>3, <1>4 DEF BooksInv

(* The books agree with the payments, and the status with the books. *)
THEOREM BooksHold == Spec => []BooksInv
<1> USE ActorKinds, AtSquareIsPayment
<1>1. Init => BooksInv
  BY SomethingIsDue DEF Init, BooksInv, BooksAgree, Succeeded, NothingBeforeSent, RefundsHold, HandlersHold
<1>2. TypeOK /\ TypeOK' /\ BooksInv /\ [Next]_vars => BooksInv'
  <2> SUFFICES ASSUME TypeOK, TypeOK', BooksInv, [Next]_vars PROVE BooksInv'
    OBVIOUS
  <2>1. CASE SendInvoice \/ VoidInvoice \/ MarkOverdue \/ DatePasses
    <3>1. BooksAgree' /\ NothingBeforeSent'
      BY <2>1, SomethingIsDue DEF SendInvoice, VoidInvoice, MarkOverdue, DatePasses,
         BooksInv, BooksAgree, Succeeded, NothingBeforeSent
    <3>2. UNCHANGED <<row, pc, item, reply, crossed>>
      BY <2>1 DEF SendInvoice, VoidInvoice, MarkOverdue, DatePasses, requests
    <3>3. QED
      BY <3>1, <3>2, OthersHold DEF BooksInv
  <2>2. ASSUME NEW a \in Chargers \cup Tabs \cup Reps, NEW p, NEW at, Start(a, p, at),
               UNCHANGED <<invoice, row, reply>>
        PROVE  BooksInv'
    BY <2>2, RequestKeeps, PaymentsAssumption DEF Start, TypeOK
  <2>3. ASSUME NEW c \in Chargers, ChargeInvoice(c)
        PROVE  BooksInv'
    BY <2>2, <2>3 DEF ChargeInvoice
  <2>4. ASSUME NEW t \in Tabs, PayPortalInvoice(t)
        PROVE  BooksInv'
    BY <2>2, <2>4 DEF PayPortalInvoice
  <2>5. ASSUME NEW rep \in Reps, CollectPayment(rep)
        PROVE  BooksInv'
    <3>1. PICK p : Start(rep, p, "booking")
      BY <2>5 DEF CollectPayment
    <3>2. CASE status # "draft"
      BY <2>2, <2>5, <3>1, <3>2 DEF CollectPayment, invoice
    <3>3. CASE status = "draft"
      <4>1. BooksAgree' /\ NothingBeforeSent'
        BY <2>5, <3>3 DEF CollectPayment, BooksInv, BooksAgree, Succeeded, NothingBeforeSent
      <4>2. /\ \A b \in Refunders \cup Handlers :
                 pc'[b] = pc[b] /\ item'[b] = item[b] /\ reply'[b] = reply[b]
            /\ crossed' = crossed
        BY <2>5, <3>1, PaymentsAssumption DEF CollectPayment, Start, TypeOK
      <4>3. QED
        BY <2>5, <4>1, <4>2, OthersHold DEF CollectPayment, BooksInv
    <3>4. QED
      BY <3>2, <3>3
  <2>6. ASSUME NEW a \in Chargers \cup Tabs, NEW answer \in ChargeAnswers,
               AskSquare(a, answer) \/ AnswerLost(a, answer)
        PROVE  BooksInv'
    <3>1. a \notin Refunders \cup Handlers
      BY PaymentsAssumption
    <3>2. QED
      BY <2>6, <3>1, RequestKeeps DEF AskSquare, AnswerLost, Done, TypeOK
  <2>7. ASSUME NEW c \in Chargers, BookCharge(c)
        PROVE  BooksInv'
    <3>1. reply[c] \in RowStatuses
      BY DEF TypeOK
    <3>2. QED
      BY <2>7, <3>1, BookingKeeps DEF BookCharge
  <2>8. ASSUME NEW t \in Tabs, BookPortal(t)
        PROVE  BooksInv'
    <3>1. reply[t] \in RowStatuses
      BY DEF TypeOK
    <3>2. QED
      BY <2>8, <3>1, BookingKeeps DEF BookPortal
  <2>9. ASSUME NEW rep \in Reps, BookCollected(rep)
        PROVE  BooksInv'
    <3>1. "succeeded" \in RowStatuses
      BY DEF RowStatuses
    <3>2. QED
      BY <2>9, <3>1, BookingKeeps DEF BookCollected
  <2>10. ASSUME NEW p \in ByHand, NEW as \in ChargeAnswers, RecordByHand(p, as)
         PROVE  BooksInv'
    <3>1. p \in Payments /\ as \in RowStatuses
      BY DEF Payments, ChargeAnswers, RowStatuses
    <3>2. QED
      BY <2>10, <3>1, RecordKeeps, OthersHold DEF RecordByHand, requests, BooksInv
  <2>11. ASSUME NEW p \in ByHand, RefundByHand(p)
         PROVE  BooksInv'
    <3>1. status # "draft" /\ p \in Payments /\ p \notin AtSquare
      BY <2>11 DEF RefundByHand, BooksInv, NothingBeforeSent, Payments, AtSquare, ByHand, OnFile, FromTab
    <3>2. BooksAgree' /\ NothingBeforeSent'
      BY <2>11, <3>1, RecomputeAgrees DEF RefundByHand
    <3>3. \A b \in Refunders \cup Handlers : pc[b] # "idle" => row'[item[b]] = row[item[b]]
      BY <2>11, <3>1 DEF RefundByHand, TypeOK
    <3>4. RefundsHold' /\ HandlersHold'
      BY <2>11, <3>3 DEF RefundByHand, requests, BooksInv, RefundsHold, HandlersHold,
         WEBHOOK_TRANSITIONS
    <3>5. QED
      BY <3>2, <3>4 DEF BooksInv
  <2>12. ASSUME NEW r \in Refunders, NEW p \in AtSquare, RefundPayment(r, p)
         PROVE  BooksInv'
    <3>1. BooksAgree' /\ NothingBeforeSent'
      BY <2>12 DEF RefundPayment, invoice, BooksInv, BooksAgree, Succeeded, NothingBeforeSent
    <3>2. /\ row' = row /\ reply' = reply /\ row[p] = "succeeded" /\ item'[r] = p
          /\ \A b \in Actors : b # r => pc'[b] = pc[b] /\ item'[b] = item[b]
          /\ \A q \in Refunders : pc[q] # "idle" => item[q] # p
      BY <2>12 DEF RefundPayment, Start, RowLocked, TypeOK
    <3>0. crossed' = crossed
      BY <2>12, PaymentsAssumption DEF RefundPayment, Start
    <3>3. \A q \in Refunders : pc[q] = "idle" => item[q] = NoPayment
      BY DEF TypeOK
    <3>4. RefundsHold'
      BY <3>2, <3>3, NoPaymentIsNone DEF BooksInv, RefundsHold
    <3>5. HandlersHold'
      BY <3>0, <3>2, PaymentsAssumption DEF BooksInv, HandlersHold
    <3>6. QED
      BY <3>1, <3>4, <3>5 DEF BooksInv
  <2>13. ASSUME NEW r \in Refunders, AskRefund(r)
         PROVE  BooksInv'
    <3>1. BooksAgree' /\ NothingBeforeSent'
      BY <2>13 DEF AskRefund, invoice, BooksInv, BooksAgree, Succeeded, NothingBeforeSent
    <3>2. /\ row' = row /\ reply' = reply /\ item' = item /\ crossed' = crossed
          /\ \A b \in Actors : pc'[b] # "idle" <=> pc[b] # "idle"
      BY <2>13 DEF AskRefund, TypeOK
    <3>3. QED
      BY <3>1, <3>2 DEF BooksInv, RefundsHold, HandlersHold
  <2>14. ASSUME NEW r \in Refunders, RefundAnswerLost(r) \/ RefundRefused(r)
         PROVE  BooksInv'
    BY <2>14, RequestKeeps, PaymentsAssumption DEF RefundAnswerLost, RefundRefused, Done, TypeOK, invoice
  <2>15. ASSUME NEW r \in Refunders, BookRefund(r)
         PROVE  BooksInv'
    <3>1. row[item[r]] = "succeeded" /\ item[r] \in Payments /\ pc[r] # "idle"
      BY <2>15 DEF BookRefund, BooksInv, RefundsHold, TypeOK
    <3>2. BooksAgree' /\ NothingBeforeSent'
      BY <2>15, <3>1, RecomputeAgrees DEF BookRefund, BooksInv, NothingBeforeSent
    <3>3. /\ row' = [row EXCEPT ![item[r]] = "refunded"] /\ pc'[r] = "idle" /\ item'[r] = NoPayment
          /\ \A b \in Actors : b # r => pc'[b] = pc[b] /\ item'[b] = item[b] /\ reply'[b] = reply[b]
          /\ crossed' = crossed
      BY <2>15 DEF BookRefund, Done, TypeOK
    <3>4. RefundsHold'
      BY <3>1, <3>3 DEF BooksInv, RefundsHold, TypeOK
    <3>5. HandlersHold'
      <4> SUFFICES ASSUME NEW h \in Handlers, pc'[h] # "idle"
                   PROVE  /\ row'[item'[h]] # "none"
                          /\ reply'[h] \in {"succeeded", "failed", "refunded"}
                          /\ reply'[h] = "refunded" => row'[item'[h]] # "pending"
                          /\ item'[h] \notin crossed' =>
                               /\ \/ reply'[h] \in WEBHOOK_TRANSITIONS(row'[item'[h]])
                                  \/ reply'[h] = "refunded" /\ row'[item'[h]] = "refunded"
                               /\ \A g \in Handlers : item'[g] = item'[h] => g = h
        BY DEF HandlersHold, WEBHOOK_TRANSITIONS
      <4>1. /\ h # r /\ pc[h] # "idle" /\ item'[h] = item[h] /\ reply'[h] = reply[h]
            /\ item[h] \in Payments /\ \A g \in Handlers : item'[g] = item[g]
        BY <3>3, PaymentsAssumption DEF TypeOK
      <4>2. CASE item[h] # item[r]
        <5>1. row'[item[h]] = row[item[h]]
          BY <3>3, <4>1, <4>2 DEF TypeOK
        <5>2. QED
          BY <3>3, <4>1, <5>1 DEF BooksInv, HandlersHold
      <4>3. CASE item[h] = item[r]
        <5>1. row'[item[h]] = "refunded" /\ row[item[h]] = "succeeded"
          BY <3>1, <3>3, <4>1, <4>3 DEF TypeOK
        <5>2. item[h] \notin crossed => reply[h] = "refunded"
          BY <4>1, <5>1 DEF BooksInv, HandlersHold, WEBHOOK_TRANSITIONS
        <5>3. QED
          BY <3>3, <4>1, <5>1, <5>2 DEF BooksInv, HandlersHold
      <4>4. QED
        BY <4>2, <4>3
    <3>6. QED
      BY <3>2, <3>4, <3>5 DEF BooksInv
  <2>16. ASSUME NEW p \in AtSquare,
                \/ \E outcome \in {"succeeded", "failed"} : Settle(p, outcome)
                \/ DashboardRefund(p) \/ Repeat(p)
         PROVE  BooksInv'
    BY <2>16, RequestKeeps DEF Settle, DashboardRefund, Repeat, requests
  <2>17. ASSUME NEW e \in emitted, IgnoreEvent(e)
         PROVE  BooksInv'
    BY <2>17, RequestKeeps DEF IgnoreEvent, requests
  <2>18. ASSUME NEW h \in Handlers, NEW e \in emitted, ReadEvent(h, e)
         PROVE  BooksInv'
    <3>1. BooksAgree' /\ NothingBeforeSent'
      BY <2>18 DEF ReadEvent, invoice, BooksInv, BooksAgree, Succeeded, NothingBeforeSent
    <3>2. /\ row' = row /\ item'[h] = e.payment /\ reply'[h] = e.status
          /\ \A b \in Actors : b # h => pc'[b] = pc[b] /\ item'[b] = item[b] /\ reply'[b] = reply[b]
          /\ e.status \in WEBHOOK_TRANSITIONS(row[e.payment])
      BY <2>18 DEF ReadEvent, Start, Moves, TypeOK
    <3>3. /\ row[e.payment] # "none" /\ e.status \in {"succeeded", "failed", "refunded"}
          /\ e.status = "refunded" => row[e.payment] # "pending"
      BY <3>2 DEF WEBHOOK_TRANSITIONS
    <3>4. RefundsHold'
      BY <3>2, PaymentsAssumption DEF BooksInv, RefundsHold
    <3>5. HandlersHold'
      <4>1. crossed' = IF \E g \in Handlers : item[g] = e.payment
                         THEN crossed \cup {e.payment} ELSE crossed
        BY <2>18 DEF ReadEvent, Start
      <4>2. ASSUME NEW g \in Handlers, g # h, pc[g] # "idle"
            PROVE  /\ pc'[g] = pc[g] /\ item'[g] = item[g] /\ reply'[g] = reply[g]
                   /\ item[g] \notin crossed' => \A k \in Handlers : item'[k] = item[g] => k = g
        <5>1. item[g] \notin crossed' => item[g] # e.payment /\ item[g] \notin crossed
          BY <4>1
        <5>2. QED
          BY <3>2, <4>2, <5>1 DEF BooksInv, HandlersHold
      <4>3. e.payment \notin crossed' => \A k \in Handlers : item'[k] = e.payment => k = h
        BY <3>2, <4>1
      <4>4. crossed \subseteq crossed'
        BY <4>1
      <4> SUFFICES ASSUME NEW g \in Handlers, pc'[g] # "idle"
                   PROVE  /\ row'[item'[g]] # "none"
                          /\ reply'[g] \in {"succeeded", "failed", "refunded"}
                          /\ reply'[g] = "refunded" => row'[item'[g]] # "pending"
                          /\ item'[g] \notin crossed' =>
                               /\ \/ reply'[g] \in WEBHOOK_TRANSITIONS(row'[item'[g]])
                                  \/ reply'[g] = "refunded" /\ row'[item'[g]] = "refunded"
                               /\ \A k \in Handlers : item'[k] = item'[g] => k = g
        BY DEF HandlersHold, WEBHOOK_TRANSITIONS
      <4>5. CASE g = h
        BY <3>2, <3>3, <4>3, <4>5
      <4>6. CASE g # h
        <5>1. pc[g] # "idle"
          BY <3>2, <4>6
        <5>2. QED
          BY <3>2, <4>2, <4>4, <4>6, <5>1 DEF BooksInv, HandlersHold
      <4>7. QED
        BY <4>5, <4>6
    <3>6. QED
      BY <3>1, <3>4, <3>5 DEF BooksInv
  <2>19. ASSUME NEW h \in Handlers, ReconcilePayment(h)
         PROVE  BooksInv'
    <3>1. /\ row[item[h]] # "none" /\ item[h] \in Payments /\ pc[h] # "idle"
          /\ reply[h] \in {"succeeded", "failed", "refunded"}
      BY <2>19 DEF ReconcilePayment, BooksInv, HandlersHold, TypeOK
    <3>2. BooksAgree' /\ NothingBeforeSent'
      BY <2>19, <3>1, RecomputeAgrees DEF ReconcilePayment, BooksInv, NothingBeforeSent
    <3>3. /\ row' = [row EXCEPT ![item[h]] = reply[h]] /\ pc'[h] = "idle" /\ item'[h] = NoPayment
          /\ \A b \in Actors : b # h => pc'[b] = pc[b] /\ item'[b] = item[b] /\ reply'[b] = reply[b]
          /\ \A r \in Refunders : pc[r] # "idle" => item[r] # item[h]
          /\ crossed' = crossed
      BY <2>19 DEF ReconcilePayment, RowLocked, Done, TypeOK
    <3>4. RefundsHold'
      BY <3>1, <3>3, PaymentsAssumption DEF BooksInv, RefundsHold, TypeOK
    <3>5. HandlersHold'
      <4> SUFFICES ASSUME NEW g \in Handlers, pc'[g] # "idle"
                   PROVE  /\ row'[item'[g]] # "none"
                          /\ reply'[g] \in {"succeeded", "failed", "refunded"}
                          /\ reply'[g] = "refunded" => row'[item'[g]] # "pending"
                          /\ item'[g] \notin crossed' =>
                               /\ \/ reply'[g] \in WEBHOOK_TRANSITIONS(row'[item'[g]])
                                  \/ reply'[g] = "refunded" /\ row'[item'[g]] = "refunded"
                               /\ \A k \in Handlers : item'[k] = item'[g] => k = g
        BY DEF HandlersHold, WEBHOOK_TRANSITIONS
      <4>1. /\ g # h /\ pc[g] # "idle" /\ item'[g] = item[g] /\ reply'[g] = reply[g]
            /\ item[g] \in Payments /\ item[g] # NoPayment
        BY <3>3, NoPaymentIsNone DEF TypeOK
      <4>2. item[g] \notin crossed => \A k \in Handlers : item'[k] = item[g] => k = g
        BY <3>3, <4>1 DEF BooksInv, HandlersHold
      <4>3. CASE item[g] # item[h]
        <5>1. row'[item[g]] = row[item[g]]
          BY <3>3, <4>1, <4>3 DEF TypeOK
        <5>2. QED
          BY <3>3, <4>1, <4>2, <5>1 DEF BooksInv, HandlersHold
      <4>4. CASE item[g] = item[h]
        <5>1. row'[item[g]] = reply[h] /\ item[g] \in crossed
          BY <3>1, <3>3, <4>1, <4>4 DEF BooksInv, HandlersHold, TypeOK
        <5>2. QED
          BY <3>1, <3>3, <4>1, <5>1 DEF BooksInv, HandlersHold
      <4>5. QED
        BY <4>3, <4>4
    <3>6. QED
      BY <3>2, <3>4, <3>5 DEF BooksInv
  <2>20. ASSUME NEW a \in Actors, Crash(a)
         PROVE  BooksInv'
    BY <2>20, RequestKeeps DEF Crash, Done, TypeOK
  <2>21. CASE UNCHANGED vars
    BY <2>21, RequestKeeps DEF vars, requests
  <2>22. QED
    BY <2>1, <2>3, <2>4, <2>5, <2>6, <2>7, <2>8, <2>9, <2>10, <2>11, <2>12, <2>13, <2>14,
       <2>15, <2>16, <2>17, <2>18, <2>19, <2>20, <2>21 DEF Next, ChargerStep, TabStep, Deliver
<1>3. QED
  BY <1>1, <1>2, TypeCorrect, PTL DEF Spec

(* The books agree, on their own. *)
THEOREM BooksAlwaysAgree == Spec => []BooksAgree
<1>1. BooksInv => BooksAgree
  BY DEF BooksInv
<1>2. QED
  BY <1>1, BooksHold, PTL

-----------------------------------------------------------------------------
(* Why the books never run ahead of Square: the invariant SquareInv.       *)

LEMMA ByHandIsNotAtSquare == ByHand \cap AtSquare = {}
BY DEF ByHand, AtSquare, OnFile, FromTab

LEMMA KindsApart ==
  /\ \A c \in Chargers : c \notin Tabs \cup Reps \cup Refunders \cup Handlers
  /\ \A t \in Tabs : t \notin Chargers \cup Reps \cup Refunders \cup Handlers
  /\ \A r \in Reps : r \notin Chargers \cup Tabs \cup Refunders \cup Handlers
  /\ \A r \in Refunders : r \notin Chargers \cup Tabs \cup Reps \cup Handlers
  /\ \A h \in Handlers : h \notin Chargers \cup Tabs \cup Reps \cup Refunders
BY PaymentsAssumption

(* Nobody's request but a's moves. *)
OnlyMoves(a) ==
  \A b \in Actors : b # a => pc'[b] = pc[b] /\ item'[b] = item[b] /\ reply'[b] = reply[b]

(* Square forgets no answer and no event, gives money back once it has it, *)
(* and takes none back.                                                    *)
SquareGoesOn ==
  /\ \A p \in AtSquare : \/ square'[p] = square[p]
                         \/ square[p] \in {"none", "pending"}
                         \/ square[p] = "completed" /\ square'[p] = "refunded"
  /\ \A p \in AtSquare : original[p] # "none" => original'[p] = original[p]
  /\ emitted \subseteq emitted'

LEMMA BacksStay ==
  ASSUME SquareGoesOn, NEW p \in AtSquare, NEW as, Backs(p, as)
  PROVE  Backs(p, as)'
BY DEF SquareGoesOn, Backs

LEMMA StillTrue ==
  ASSUME TypeOK, SquareInv, SquareGoesOn, NEW b \in Actors,
         pc'[b] = pc[b] /\ item'[b] = item[b] /\ reply'[b] = reply[b]
  PROVE  RequestTrue(b)'
<1>1. RequestTrue(b)
  BY DEF SquareInv, RequestsTrue
<1>2. b \in Refunders /\ pc[b] # "idle" => item[b] \in AtSquare
  BY DEF TypeOK
<1>3. pc[b] = "booking" => pc[b] # "idle"
  OBVIOUS
<1>4. QED
  BY <1>1, <1>2, <1>3 DEF RequestTrue, SquareGoesOn, ChargeAnswers

LEMMA IdleIsTrue ==
  ASSUME TypeOK, NEW a \in Actors, Done(a)
  PROVE  OnlyMoves(a) /\ RequestTrue(a)' /\ pc'[a] = "idle" /\ item'[a] = NoPayment
BY DEF TypeOK, Done, OnlyMoves, RequestTrue

(* A step of one request, and of Square. *)
LEMMA SquareStep ==
  ASSUME TypeOK, SquareInv, NEW a \in Actors, OnlyMoves(a), RequestTrue(a)', SquareGoesOn,
         \A p \in AtSquare : row'[p] = row[p] \/ Backs(p, row[p])',
         AnswersTrue', EventsTrue'
  PROVE  SquareInv'
<1>1. BooksFollowSquare'
  BY BacksStay DEF SquareInv, BooksFollowSquare, Backs
<1>2. RequestsTrue'
  BY StillTrue DEF OnlyMoves, RequestsTrue
<1>3. QED
  BY <1>1, <1>2 DEF SquareInv

(* A step that leaves Square alone. *)
LEMMA BooksOnly ==
  ASSUME TypeOK, SquareInv, NEW a \in Actors, OnlyMoves(a), RequestTrue(a)',
         UNCHANGED <<square, original, emitted>>,
         \A p \in AtSquare : row'[p] = row[p] \/ Backs(p, row[p])'
  PROVE  SquareInv'
<1>1. SquareGoesOn
  BY DEF SquareGoesOn
<1>2. AnswersTrue' /\ EventsTrue'
  BY DEF SquareInv, AnswersTrue, EventsTrue, Backs
<1>3. QED
  BY <1>1, <1>2, SquareStep

(* A step that changes neither the rows nor what Square knows. *)
LEMMA NothingWritten ==
  ASSUME TypeOK, SquareInv, NEW a \in Actors, OnlyMoves(a), RequestTrue(a)',
         UNCHANGED <<row, square, original, emitted>>
  PROVE  SquareInv'
BY BooksOnly

LEMMA ChargeGoesOn ==
  ASSUME TypeOK, SquareInv, NEW p \in AtSquare, NEW answer \in ChargeAnswers, Charge(p, answer)
  PROVE  SquareGoesOn /\ AnswersTrue' /\ EventsTrue' /\ original'[p] = answer
<1>1. CASE original[p] = "none"
  <2> DEFINE new == CASE answer = "succeeded" -> "completed"
                      [] answer = "pending"   -> "pending"
                      [] answer = "failed"    -> "failed"
  <2>1. /\ new # "none" /\ (answer = "succeeded" => new = "completed")
        /\ (answer = "failed" => new = "failed") /\ answer # "refunded" /\ answer # "none"
    BY DEF ChargeAnswers
  <2>2. /\ original' = [original EXCEPT ![p] = answer] /\ square' = [square EXCEPT ![p] = new]
        /\ emitted' = emitted /\ square[p] = "none"
    BY <1>1 DEF Charge, SquareInv, AnswersTrue
  <2> HIDE DEF new
  <2>3. SquareGoesOn /\ original'[p] = answer
    BY <1>1, <2>2 DEF SquareGoesOn, TypeOK
  <2>4. AnswersTrue'
    <3> SUFFICES ASSUME NEW q \in AtSquare
                 PROVE  Backs(q, original[q])' /\ (original'[q] = "none" <=> square'[q] = "none")
      BY DEF AnswersTrue, Backs
    <3>1. CASE q = p
      BY <2>1, <2>2, <3>1 DEF Backs, TypeOK
    <3>2. CASE q # p
      BY <2>2, <3>2 DEF SquareInv, AnswersTrue, Backs, TypeOK
    <3>3. QED
      BY <3>1, <3>2
  <2>5. EventsTrue'
    <3>1. \A e \in emitted : e.payment \in AtSquare
      BY DEF TypeOK, Events
    <3>2. QED
      BY <2>2, <2>3, <3>1, BacksStay DEF SquareInv, EventsTrue
  <2>6. QED
    BY <2>3, <2>4, <2>5
<1>2. CASE original[p] # "none"
  BY <1>2 DEF Charge, processor, SquareGoesOn, SquareInv, AnswersTrue, EventsTrue, Backs
<1>3. QED
  BY <1>1, <1>2

(* Square moves a payment it had answered, and reports it truly.           *)
LEMMA ReportGoesOn ==
  ASSUME TypeOK, SquareInv, NEW p \in AtSquare, NEW to, NEW as,
         square' = [square EXCEPT ![p] = to],
         square[p] # "none", to # "none",
         to = square[p] \/ square[p] = "pending" \/ (square[p] = "completed" /\ to = "refunded"),
         Emit([payment |-> p, status |-> as]), Backs(p, as)', UNCHANGED original
  PROVE  SquareGoesOn /\ AnswersTrue' /\ EventsTrue'
<1>1. SquareGoesOn
  BY DEF SquareGoesOn, Emit, TypeOK
<1>2. AnswersTrue'
  <2>1. \A q \in AtSquare : Backs(q, original[q])'
    BY <1>1, BacksStay DEF SquareInv, AnswersTrue
  <2>2. \A q \in AtSquare : original'[q] = "none" <=> square'[q] = "none"
    BY DEF SquareInv, AnswersTrue, TypeOK
  <2>3. QED
    BY <2>1, <2>2 DEF AnswersTrue
<1>3. EventsTrue'
  <2>1. \A e \in emitted : e.payment \in AtSquare /\ Backs(e.payment, e.status)
    BY DEF SquareInv, EventsTrue, TypeOK, Events
  <2>2. \A e \in emitted : Backs(e.payment, e.status)'
    BY <1>1, <2>1, BacksStay
  <2>3. emitted' = emitted \cup {[payment |-> p, status |-> as]}
    BY DEF Emit
  <2>4. \A e \in emitted' : e \in emitted \/ (e.payment = p /\ e.status = as)
    <3>1. \A e \in emitted' : e \in emitted \/ e = [payment |-> p, status |-> as]
      BY <2>3
    <3>2. \A e : e = [payment |-> p, status |-> as] => e.payment = p /\ e.status = as
      OBVIOUS
    <3>3. QED
      BY <3>1, <3>2
  <2>5. QED
    BY <2>2, <2>4 DEF EventsTrue, Backs
<1>4. QED
  BY <1>1, <1>2, <1>3

(* Square moves by itself: no request is at a step. *)
LEMMA SquareAlone ==
  ASSUME TypeOK, SquareInv, SquareGoesOn, AnswersTrue', EventsTrue', UNCHANGED <<row, requests>>
  PROVE  SquareInv'
<1>1. BooksFollowSquare'
  BY BacksStay DEF SquareInv, BooksFollowSquare, Backs
<1>2. RequestsTrue'
  BY StillTrue DEF RequestsTrue, requests
<1>3. QED
  BY <1>1, <1>2 DEF SquareInv

LEMMA RecordBacked ==
  ASSUME TypeOK, NEW p \in Payments, NEW as, RecordPayment(p, as), UNCHANGED square,
         p \in AtSquare => Backs(p, as)
  PROVE  \A q \in AtSquare : row'[q] = row[q] \/ Backs(q, row[q])'
BY AtSquareIsPayment DEF RecordPayment, Backs, TypeOK

LEMMA SquareKept ==
  ASSUME TypeOK, BooksInv, SquareInv, [Next]_vars
  PROVE  SquareInv'
<1> USE ActorKinds, AtSquareIsPayment
<1>1. ASSUME UNCHANGED <<row, requests, square, original, emitted>>
      PROVE  SquareInv'
  BY <1>1 DEF SquareInv, BooksFollowSquare, AnswersTrue, EventsTrue, RequestsTrue, RequestTrue,
     Backs, requests
<1>2. ASSUME NEW c \in Chargers, ChargeInvoice(c)
      PROVE  SquareInv'
  <2>1. PICK p \in OnFile : Start(c, p, "asking")
    BY <1>2 DEF ChargeInvoice, CardKey
  <2>2. OnlyMoves(c) /\ RequestTrue(c)'
    BY <1>2, <2>1, KindsApart DEF ChargeInvoice, Start, OnlyMoves, RequestTrue, TypeOK, AtSquare
  <2>3. QED
    BY <1>2, <2>2, NothingWritten DEF ChargeInvoice, processor
<1>3. ASSUME NEW t \in Tabs, PayPortalInvoice(t)
      PROVE  SquareInv'
  <2>1. PICK p \in FromTab : Start(t, p, "asking")
    BY <1>3 DEF PayPortalInvoice, TabKey
  <2>2. OnlyMoves(t) /\ RequestTrue(t)'
    BY <1>3, <2>1, KindsApart DEF PayPortalInvoice, Start, OnlyMoves, RequestTrue, TypeOK, AtSquare
  <2>3. QED
    BY <1>3, <2>2, NothingWritten DEF PayPortalInvoice, processor
<1>4. ASSUME NEW a \in Chargers \cup Tabs, NEW answer \in ChargeAnswers, AskSquare(a, answer)
      PROVE  SquareInv'
  <2>1. item[a] \in AtSquare
    BY <1>4 DEF AskSquare, SquareInv, RequestsTrue, RequestTrue
  <2>2. /\ SquareGoesOn /\ AnswersTrue' /\ EventsTrue' /\ original'[item[a]] = answer
    BY <1>4, <2>1, ChargeGoesOn DEF AskSquare
  <2>3. /\ OnlyMoves(a) /\ pc'[a] = "booking" /\ item'[a] = item[a] /\ reply'[a] = answer
        /\ row' = row
    BY <1>4 DEF AskSquare, OnlyMoves, TypeOK
  <2>4. RequestTrue(a)'
    BY <2>1, <2>2, <2>3, KindsApart DEF RequestTrue
  <2>5. QED
    BY <2>2, <2>3, <2>4, SquareStep
<1>5. ASSUME NEW a \in Chargers \cup Tabs, NEW answer \in ChargeAnswers, AnswerLost(a, answer)
      PROVE  SquareInv'
  <2>1. item[a] \in AtSquare
    BY <1>5 DEF AnswerLost, SquareInv, RequestsTrue, RequestTrue
  <2>2. /\ SquareGoesOn /\ AnswersTrue' /\ EventsTrue'
    BY <1>5, <2>1, ChargeGoesOn DEF AnswerLost
  <2>3. QED
    BY <1>5, <2>2, IdleIsTrue, SquareStep DEF AnswerLost
<1>6. ASSUME NEW a \in Chargers \cup Tabs, BookCharge(a) \/ BookPortal(a)
      PROVE  SquareInv'
  <2>1. /\ item[a] \in AtSquare /\ reply[a] = original[item[a]] /\ Done(a)
        /\ UNCHANGED <<square, original, emitted>>
    BY <1>6 DEF BookCharge, BookPortal, SquareInv, RequestsTrue, RequestTrue, processor
  <2>2. Backs(item[a], reply[a])
    BY <2>1 DEF SquareInv, AnswersTrue
  <2>3. \A q \in AtSquare : row'[q] = row[q] \/ Backs(q, row[q])'
    BY <1>6, <2>1, <2>2, RecordBacked DEF BookCharge, BookPortal
  <2>4. QED
    BY <2>1, <2>3, IdleIsTrue, BooksOnly
<1>7. ASSUME NEW rep \in Reps, CollectPayment(rep)
      PROVE  SquareInv'
  <2>1. PICK p \in ByHand : Start(rep, p, "booking")
    BY <1>7 DEF CollectPayment, FreshSlip
  <2>2. OnlyMoves(rep) /\ RequestTrue(rep)'
    BY <1>7, <2>1, KindsApart DEF CollectPayment, Start, OnlyMoves, RequestTrue, TypeOK
  <2>3. QED
    BY <1>7, <2>2, NothingWritten DEF CollectPayment, processor
<1>8. ASSUME NEW rep \in Reps, BookCollected(rep)
      PROVE  SquareInv'
  <2>1. item[rep] \in ByHand
    BY <1>8 DEF BookCollected, SquareInv, RequestsTrue, RequestTrue, TypeOK
  <2>2. UNCHANGED <<square, original, emitted>>
    BY <1>8 DEF BookCollected, processor
  <2>3. \A q \in AtSquare : row'[q] = row[q] \/ Backs(q, row[q])'
    BY <1>8, <2>1, <2>2, ByHandIsNotAtSquare, RecordBacked DEF BookCollected, Payments
  <2>4. QED
    BY <1>8, <2>2, <2>3, IdleIsTrue, BooksOnly DEF BookCollected
<1>9. ASSUME NEW p \in ByHand, RefundByHand(p) \/ \E as \in ChargeAnswers : RecordByHand(p, as)
      PROVE  SquareInv'
  <2>1. UNCHANGED <<square, original, emitted, requests>>
    BY <1>9 DEF RefundByHand, RecordByHand, processor
  <2>2. \A q \in AtSquare : row'[q] = row[q]
    BY <1>9, ByHandIsNotAtSquare DEF RefundByHand, RecordByHand, RecordPayment, TypeOK
  <2>3. QED
    BY <2>1, <2>2
    DEF SquareInv, BooksFollowSquare, AnswersTrue, EventsTrue, RequestsTrue, RequestTrue, Backs, requests
<1>10. ASSUME NEW r \in Refunders, NEW p \in AtSquare, RefundPayment(r, p)
       PROVE  SquareInv'
  <2>1. OnlyMoves(r) /\ RequestTrue(r)'
    BY <1>10, KindsApart DEF RefundPayment, Start, OnlyMoves, RequestTrue, TypeOK
  <2>2. QED
    BY <1>10, <2>1, NothingWritten DEF RefundPayment, processor
<1>11. ASSUME NEW r \in Refunders, pc[r] = "asking"
       PROVE  item[r] \in AtSquare /\ square[item[r]] \in {"completed", "refunded"}
  BY <1>11 DEF TypeOK, BooksInv, RefundsHold, SquareInv, BooksFollowSquare, Backs
<1>12. ASSUME NEW p \in AtSquare, square[p] = "completed", RefundAtSquare(p)
       PROVE  SquareGoesOn /\ AnswersTrue' /\ EventsTrue' /\ square'[p] = "refunded"
  <2>1. Backs(p, "refunded")'
    BY <1>12 DEF RefundAtSquare, Backs, TypeOK
  <2>2. QED
    BY <1>12, <2>1, ReportGoesOn DEF RefundAtSquare, TypeOK
<1>13. ASSUME NEW r \in Refunders, AskRefund(r)
       PROVE  SquareInv'
  <2>1. /\ OnlyMoves(r) /\ pc'[r] = "booking" /\ item'[r] = item[r] /\ row' = row
        /\ item[r] \in AtSquare /\ square[item[r]] \in {"completed", "refunded"}
    BY <1>11, <1>13 DEF AskRefund, OnlyMoves, TypeOK
  <2>2. CASE square[item[r]] = "completed"
    <3>1. SquareGoesOn /\ AnswersTrue' /\ EventsTrue' /\ square'[item[r]] = "refunded"
      BY <1>12, <1>13, <2>1, <2>2 DEF AskRefund
    <3>2. RequestTrue(r)'
      BY <2>1, <3>1, KindsApart DEF RequestTrue
    <3>3. QED
      BY <2>1, <3>1, <3>2, SquareStep
  <2>3. CASE square[item[r]] = "refunded"
    <3>1. UNCHANGED processor
      BY <1>13, <2>3 DEF AskRefund
    <3>2. RequestTrue(r)'
      BY <2>1, <2>3, <3>1, KindsApart DEF RequestTrue, processor
    <3>3. QED
      BY <2>1, <3>1, <3>2, NothingWritten DEF processor
  <2>4. QED
    BY <2>1, <2>2, <2>3
<1>14. ASSUME NEW r \in Refunders, RefundAnswerLost(r)
       PROVE  SquareInv'
  <2>1. SquareGoesOn /\ AnswersTrue' /\ EventsTrue'
    BY <1>11, <1>12, <1>14 DEF RefundAnswerLost
  <2>2. QED
    BY <1>14, <2>1, IdleIsTrue, SquareStep DEF RefundAnswerLost
<1>15. ASSUME NEW a \in Actors, Crash(a) \/ RefundRefused(a)
       PROVE  SquareInv'
  BY <1>15, IdleIsTrue, NothingWritten DEF Crash, RefundRefused, processor
<1>16. ASSUME NEW r \in Refunders, BookRefund(r)
       PROVE  SquareInv'
  <2>1. /\ item[r] \in AtSquare /\ square[item[r]] = "refunded" /\ Done(r)
        /\ row' = [row EXCEPT ![item[r]] = "refunded"] /\ UNCHANGED <<square, original, emitted>>
    BY <1>16 DEF BookRefund, SquareInv, RequestsTrue, RequestTrue, TypeOK, processor
  <2>2. \A q \in AtSquare : row'[q] = row[q] \/ Backs(q, row[q])'
    BY <2>1 DEF Backs, TypeOK
  <2>3. QED
    BY <2>1, <2>2, IdleIsTrue, BooksOnly
<1>17. ASSUME NEW p \in AtSquare, NEW outcome \in {"succeeded", "failed"}, Settle(p, outcome)
       PROVE  SquareInv'
  <2> DEFINE to == IF outcome = "succeeded" THEN "completed" ELSE "failed"
  <2>1. square' = [square EXCEPT ![p] = to] /\ square[p] = "pending" /\ square'[p] = to
    BY <1>17 DEF Settle, TypeOK
  <2>2. Backs(p, outcome)'
    BY <2>1 DEF Backs
  <2>3. SquareGoesOn /\ AnswersTrue' /\ EventsTrue'
    BY <1>17, <2>1, <2>2, ReportGoesOn DEF Settle
  <2>4. QED
    BY <1>17, <2>3, SquareAlone DEF Settle
<1>18. ASSUME NEW p \in AtSquare, DashboardRefund(p)
       PROVE  SquareInv'
  <2>1. SquareGoesOn /\ AnswersTrue' /\ EventsTrue'
    BY <1>12, <1>18 DEF DashboardRefund, RefundAtSquare
  <2>2. QED
    BY <1>18, <2>1, SquareAlone DEF DashboardRefund
<1>19. ASSUME NEW p \in AtSquare, Repeat(p)
       PROVE  SquareInv'
  <2>1. square' = [square EXCEPT ![p] = square[p]]
    BY <1>19 DEF Repeat, TypeOK
  <2>2. Backs(p, "succeeded")'
    BY <1>19 DEF Repeat, Backs
  <2>3. SquareGoesOn /\ AnswersTrue' /\ EventsTrue'
    BY <1>19, <2>1, <2>2, ReportGoesOn DEF Repeat
  <2>4. QED
    BY <1>19, <2>3, SquareAlone DEF Repeat
<1>20. ASSUME NEW h \in Handlers, NEW e \in emitted, ReadEvent(h, e)
       PROVE  SquareInv'
  <2>1. e = [payment |-> e.payment, status |-> e.status] /\ e.payment \in AtSquare
    BY DEF TypeOK, Events
  <2>2. /\ OnlyMoves(h) /\ item'[h] = e.payment /\ reply'[h] = e.status /\ pc'[h] = "booking"
        /\ UNCHANGED <<row, square, original, emitted>>
    BY <1>20 DEF ReadEvent, Start, OnlyMoves, TypeOK, processor
  <2>3. RequestTrue(h)'
    BY <2>1, <2>2, KindsApart DEF RequestTrue
  <2>4. QED
    BY <2>2, <2>3, NothingWritten
<1>21. ASSUME NEW h \in Handlers, ReconcilePayment(h)
       PROVE  SquareInv'
  <2>1. /\ item[h] \in AtSquare /\ Done(h) /\ row' = [row EXCEPT ![item[h]] = reply[h]]
        /\ UNCHANGED <<square, original, emitted>>
        /\ [payment |-> item[h], status |-> reply[h]] \in emitted
    BY <1>21 DEF ReconcilePayment, SquareInv, RequestsTrue, RequestTrue, TypeOK
  <2>2. Backs(item[h], reply[h])
    BY <2>1 DEF SquareInv, EventsTrue
  <2>3. \A q \in AtSquare : row'[q] = row[q] \/ Backs(q, row[q])'
    BY <2>1, <2>2 DEF Backs, TypeOK
  <2>4. QED
    BY <2>1, <2>3, IdleIsTrue, BooksOnly
<1>22. ASSUME NEW e \in emitted, IgnoreEvent(e)
       PROVE  SquareInv'
  BY <1>1, <1>22 DEF IgnoreEvent
<1>23. CASE SendInvoice \/ VoidInvoice \/ MarkOverdue \/ DatePasses \/ UNCHANGED vars
  BY <1>1, <1>23 DEF SendInvoice, VoidInvoice, MarkOverdue, DatePasses, vars, processor
<1>24. QED
  BY <1>2, <1>3, <1>4, <1>5, <1>6, <1>7, <1>8, <1>9, <1>10, <1>13, <1>14, <1>15, <1>16, <1>17, <1>18,
     <1>19, <1>20, <1>21, <1>22, <1>23 DEF Next, ChargerStep, TabStep, Deliver

THEOREM SquareInvHolds == Spec => []SquareInv
<1>1. Init => SquareInv
  BY PaymentsAssumption, ActorKinds, AtSquareIsPayment
  DEF Init, SquareInv, BooksFollowSquare, AnswersTrue, EventsTrue, RequestsTrue, RequestTrue, Backs
<1>2. TypeOK /\ BooksInv /\ SquareInv /\ [Next]_vars => SquareInv'
  BY SquareKept
<1>3. QED
  BY <1>1, <1>2, TypeCorrect, BooksHold, PTL DEF Spec

(* The books never run ahead of Square: money that is counted has moved    *)
(* there, and what the books call failed or refunded did not stay, however *)
(* many requests die and whatever webhooks say, and when.                  *)
THEOREM BooksTrailSquare == Spec => []BooksFollowSquare
<1>1. SquareInv => BooksFollowSquare
  BY DEF SquareInv
<1>2. QED
  BY <1>1, SquareInvHolds, PTL

-----------------------------------------------------------------------------
(* A step either leaves a payment's row as it is, or moves it along the    *)
(* one path there is for it, or takes a refund back of which two webhooks  *)
(* spoke at once.                                                          *)

RowMoves(p) ==
  \/ row'[p] = row[p]
  \/ row[p] = "none" /\ row'[p] \in ChargeAnswers
  \/ row[p] = "pending" /\ row'[p] \in {"succeeded", "failed"}
  \/ row[p] = "succeeded" /\ row'[p] = "refunded"
  \/ p \in crossed /\ row[p] = "refunded" /\ row'[p] = "succeeded"

(* What a step does to the rows and the bill: nothing, or it moves the row *)
(* of one payment and recomputes the invoice, or it only writes a row that *)
(* is new and does not count; or two webhooks meet.                        *)
BooksStep ==
  \/ UNCHANGED <<row, counted, BillState>> /\ \E p \in Payments : crossed' = crossed \cup {p}
  \/ UNCHANGED <<row, counted, BillState, crossed>>
  \/ status = "draft" /\ status' = "sent" /\ UNCHANGED <<row, counted, crossed>>
  \/ VoidInvoice
  \/ \E p \in Payments, to \in RowStatuses :
       /\ UNCHANGED crossed
       /\ row' = [row EXCEPT ![p] = to]
       /\ status # "draft"
       /\ RowMoves(p)
       /\ \/ RecomputeInvoiceTotals
          \/ to # "succeeded" /\ row[p] = "none" /\ UNCHANGED invoice

LEMMA RecordIsBooksStep ==
  ASSUME TypeOK, BooksInv, NEW p \in Payments, NEW as \in {"none"} \cup ChargeAnswers,
         RecordPayment(p, as), UNCHANGED crossed
  PROVE  BooksStep
<1>1. CASE status \in PAYABLE_STATUSES /\ row[p] = "none"
  <2>1. row' = [row EXCEPT ![p] = as] /\ status # "draft" /\ as \in RowStatuses
    BY <1>1 DEF RecordPayment, PAYABLE_STATUSES, ChargeAnswers, RowStatuses
  <2>2. RowMoves(p)
    BY <1>1, <2>1 DEF RowMoves, TypeOK
  <2>3. RecomputeInvoiceTotals \/ (as # "succeeded" /\ row[p] = "none" /\ UNCHANGED invoice)
    BY <1>1 DEF RecordPayment
  <2>4. QED
    BY <2>1, <2>2, <2>3 DEF BooksStep
<1>2. CASE ~(status \in PAYABLE_STATUSES /\ row[p] = "none")
  BY <1>2 DEF RecordPayment, BooksStep, BillState, invoice
<1>3. QED
  BY <1>1, <1>2

LEMMA EveryStepIsABooksStep ==
  ASSUME TypeOK, BooksInv, SquareInv, [Next]_vars
  PROVE  BooksStep
<1> USE ActorKinds, AtSquareIsPayment
<1>0. ASSUME NEW a \in Chargers \cup Tabs \cup Reps \cup Refunders, NEW p, NEW at, Start(a, p, at)
      PROVE  crossed' = crossed
  BY <1>0, PaymentsAssumption DEF Start
<1>1. CASE UNCHANGED <<row, status, counted, crossed>>
  BY <1>1 DEF BooksStep, BillState
<1>2. CASE SendInvoice \/ VoidInvoice \/ \E rep \in Reps : CollectPayment(rep)
  <2>1. SendInvoice => crossed' = crossed
    BY DEF SendInvoice, requests
  <2>2. (\E rep \in Reps : CollectPayment(rep)) => crossed' = crossed
    BY <1>0 DEF CollectPayment
  <2>3. QED
    BY <1>2, <2>1, <2>2 DEF SendInvoice, CollectPayment, BooksStep, BillState
<1>3. CASE MarkOverdue
  BY <1>3 DEF MarkOverdue, BooksStep, BillState, requests
<1>4. ASSUME NEW c \in Chargers, BookCharge(c)
      PROVE  BooksStep
  <2>1. item[c] \in Payments /\ reply[c] \in {"none"} \cup ChargeAnswers
    BY <1>4 DEF BookCharge, TypeOK
  <2>2. QED
    BY <1>4, <2>1, RecordIsBooksStep DEF BookCharge, Done
<1>5. ASSUME NEW t \in Tabs, BookPortal(t)
      PROVE  BooksStep
  <2>1. item[t] \in Payments /\ reply[t] \in {"none"} \cup ChargeAnswers
    BY <1>5 DEF BookPortal, TypeOK
  <2>2. CASE RecordPayment(item[t], reply[t])
    BY <1>5, <2>1, <2>2, RecordIsBooksStep DEF BookPortal, Done
  <2>3. QED
    BY <1>1, <1>5, <2>2 DEF BookPortal, Done, invoice
<1>6. ASSUME NEW rep \in Reps, BookCollected(rep)
      PROVE  BooksStep
  <2>1. item[rep] \in Payments /\ "succeeded" \in ChargeAnswers
    BY <1>6 DEF BookCollected, TypeOK, ChargeAnswers
  <2>2. QED
    BY <1>6, <2>1, RecordIsBooksStep DEF BookCollected, Done
<1>7. ASSUME NEW p \in ByHand, NEW as \in ChargeAnswers, RecordByHand(p, as)
      PROVE  BooksStep
  BY <1>7, RecordIsBooksStep DEF RecordByHand, Payments, requests
<1>8. ASSUME NEW p \in ByHand, RefundByHand(p)
      PROVE  BooksStep
  <2>1. /\ p \in Payments /\ "refunded" \in RowStatuses
        /\ row' = [row EXCEPT ![p] = "refunded"] /\ RecomputeInvoiceTotals /\ row[p] = "succeeded"
        /\ UNCHANGED crossed
    BY <1>8 DEF RefundByHand, Payments, RowStatuses, requests
  <2>2. status # "draft" /\ RowMoves(p)
    BY <2>1 DEF BooksInv, NothingBeforeSent, RowMoves, TypeOK
  <2>3. QED
    BY <2>1, <2>2 DEF BooksStep
<1>9. ASSUME NEW r \in Refunders, BookRefund(r)
      PROVE  BooksStep
  <2>1. /\ item[r] \in Payments /\ "refunded" \in RowStatuses
        /\ row' = [row EXCEPT ![item[r]] = "refunded"] /\ RecomputeInvoiceTotals
        /\ row[item[r]] = "succeeded" /\ UNCHANGED crossed
    BY <1>9 DEF BookRefund, Done, BooksInv, RefundsHold, RowStatuses, TypeOK
  <2>2. status # "draft" /\ RowMoves(item[r])
    BY <2>1 DEF BooksInv, NothingBeforeSent, RowMoves, TypeOK
  <2>3. QED
    BY <2>1, <2>2 DEF BooksStep
<1>10. ASSUME NEW h \in Handlers, ReconcilePayment(h)
       PROVE  BooksStep
  <2>1. /\ item[h] \in AtSquare /\ reply[h] \in {"succeeded", "failed", "refunded"}
        /\ row' = [row EXCEPT ![item[h]] = reply[h]] /\ RecomputeInvoiceTotals
        /\ row[item[h]] \in RowStatuses \ {"none"} /\ UNCHANGED crossed
        /\ row'[item[h]] = reply[h] /\ pc[h] # "idle"
    BY <1>10 DEF ReconcilePayment, Done, BooksInv, HandlersHold, TypeOK
  <2>2. status # "draft" /\ reply[h] \in RowStatuses
    BY <2>1 DEF BooksInv, NothingBeforeSent, RowStatuses
  <2>3. Backs(item[h], row[item[h]])
    BY <2>1 DEF SquareInv, BooksFollowSquare
  <2>4. Backs(item[h], reply[h])
    <3>1. [payment |-> item[h], status |-> reply[h]] \in emitted
      BY <2>1 DEF SquareInv, RequestsTrue, RequestTrue
    <3>2. QED
      BY <3>1 DEF SquareInv, EventsTrue
  <2>5. ~(row[item[h]] = "pending" /\ reply[h] = "refunded")
    BY <2>1 DEF BooksInv, HandlersHold
  <2>6. row[item[h]] = "refunded" /\ reply[h] = "succeeded" => item[h] \in crossed
    BY <2>1 DEF BooksInv, HandlersHold, WEBHOOK_TRANSITIONS
  <2>7. RowMoves(item[h])
    BY <2>1, <2>3, <2>4, <2>5, <2>6 DEF RowMoves, Backs, RowStatuses
  <2>8. QED
    BY <2>1, <2>2, <2>7 DEF BooksStep
<1>11. ASSUME NEW h \in Handlers, NEW e \in emitted, ReadEvent(h, e)
       PROVE  BooksStep
  <2>1. e.payment \in Payments
    BY DEF TypeOK, Events
  <2>2. UNCHANGED <<row, counted, BillState>>
    BY <1>11 DEF ReadEvent, invoice, BillState
  <2>3. crossed' = crossed \/ crossed' = crossed \cup {e.payment}
    BY <1>11 DEF ReadEvent, Start
  <2>4. QED
    BY <2>1, <2>2, <2>3 DEF BooksStep
<1>12. CASE \/ \E c \in Chargers : ChargeInvoice(c)
            \/ \E t \in Tabs : PayPortalInvoice(t)
            \/ \E r \in Refunders, p \in AtSquare : RefundPayment(r, p)
  BY <1>0, <1>1, <1>12 DEF ChargeInvoice, PayPortalInvoice, RefundPayment, invoice
<1>13. CASE \/ \E a \in Actors, answer \in ChargeAnswers : AskSquare(a, answer) \/ AnswerLost(a, answer)
            \/ \E r \in Refunders : AskRefund(r) \/ RefundAnswerLost(r) \/ RefundRefused(r)
            \/ \E a \in Actors : Crash(a)
  BY <1>1, <1>13 DEF AskSquare, AnswerLost, AskRefund, RefundAnswerLost, RefundRefused, Crash, Done, invoice
<1>14. CASE \/ DatePasses \/ UNCHANGED vars
            \/ \E p \in AtSquare : \/ \E outcome \in {"succeeded", "failed"} : Settle(p, outcome)
                                   \/ DashboardRefund(p) \/ Repeat(p)
            \/ \E e \in emitted : IgnoreEvent(e)
  BY <1>1, <1>14 DEF DatePasses, Settle, DashboardRefund, Repeat, IgnoreEvent, invoice, requests, vars
<1>15. QED
  BY <1>2, <1>3, <1>4, <1>5, <1>6, <1>7, <1>8, <1>9, <1>10, <1>11, <1>12, <1>13, <1>14
     DEF Next, ChargerStep, TabStep, Deliver

(* Refunded is final, whatever webhooks say and however late, but for a    *)
(* payment of which two were handled at once.                              *)
THEOREM RefundsStay == Spec => RefundStands
<1>1. TypeOK /\ BooksInv /\ SquareInv /\ [Next]_vars =>
        [\A p \in Payments \ crossed : row[p] = "refunded" => row'[p] = "refunded"]_vars
  <2> SUFFICES ASSUME TypeOK, BooksInv, SquareInv, [Next]_vars,
                      NEW p \in Payments \ crossed, row[p] = "refunded"
               PROVE  row'[p] = "refunded"
    OBVIOUS
  <2>1. CASE UNCHANGED row
    BY <2>1
  <2>2. ASSUME NEW q \in Payments, NEW to \in RowStatuses,
               row' = [row EXCEPT ![q] = to], RowMoves(q)
        PROVE  row'[p] = "refunded"
    BY <2>2 DEF RowMoves, TypeOK
  <2>3. QED
    BY <2>1, <2>2, EveryStepIsABooksStep DEF BooksStep, VoidInvoice
<1>2. QED
  BY <1>1, TypeCorrect, BooksHold, SquareInvHolds, PTL DEF Spec, RefundStands

(* Every step of the books is a step of the bill, or none. *)
LEMMA BooksStepOfBill ==
  ASSUME TypeOK, BooksInv, BooksStep
  PROVE  [B!Next]_B!vars
<1> DEFINE Back == {p \in Payments : row[p] = "refunded"}
<1>0. ASSUME NEW p \in Payments, UNCHANGED <<row, counted, BillState>>, crossed' = crossed \cup {p}
      PROVE  [B!Next]_B!vars
  <2>1. B!Dispute(p)
    BY <1>0 DEF B!Dispute
  <2>2. QED
    BY <2>1 DEF B!Next
<1>1. CASE UNCHANGED <<row, counted, BillState, crossed>>
  BY <1>1 DEF B!vars
<1>2. CASE status = "draft" /\ status' = "sent" /\ UNCHANGED <<row, counted, crossed>>
  <2>1. B!Send
    BY <1>2 DEF B!Send, BillState
  <2>2. QED
    BY <2>1 DEF B!Next
<1>3. CASE VoidInvoice
  <2>1. B!Void
    BY <1>3 DEF VoidInvoice, B!Void, BillState, requests
  <2>2. QED
    BY <2>1 DEF B!Next
<1>4. ASSUME NEW p \in Payments, NEW to \in RowStatuses,
             row' = [row EXCEPT ![p] = to], status # "draft", RowMoves(p), crossed' = crossed
      PROVE  /\ UNCHANGED invoice /\ to # "succeeded" /\ row[p] = "none" => [B!Next]_B!vars
             /\ RecomputeInvoiceTotals => [B!Next]_B!vars
  <2>1. row'[p] = to /\ \A q \in Payments : q # p => row'[q] = row[q]
    BY <1>4 DEF TypeOK
  <2>2. counted = Succeeded(row)
    BY DEF BooksInv, BooksAgree
  <2>3. CASE UNCHANGED invoice /\ to # "succeeded" /\ row[p] = "none"
    <3>1. to # "refunded"
      BY <1>4, <2>1, <2>3 DEF RowMoves, ChargeAnswers
    <3>2. Back' = Back
      BY <2>1, <2>3, <3>1
    <3>3. QED
      BY <1>4, <2>3, <3>2 DEF B!vars, BillState, invoice
  <2>4. CASE RecomputeInvoiceTotals
    <3>1. counted' = Succeeded(row') /\ status' = StatusWith(counted')
      BY <2>4 DEF RecomputeInvoiceTotals
    <3>2. BillState' = B!StateWith(counted') /\ BillState # "unsent"
      BY <1>4, <3>1 DEF BillState, B!StateWith, StatusWith, TypeOK
    <3>3. CASE row[p] \in {"none", "pending"} /\ to = "succeeded"
      <4>1. counted' = counted \cup {p} /\ Back' = Back \ {p} /\ p \notin counted \cup Back
        BY <2>1, <2>2, <3>1, <3>3 DEF Succeeded
      <4>2. B!Book(p)
        BY <1>4, <3>2, <4>1 DEF B!Book
      <4>3. QED
        BY <4>2 DEF B!Next
    <3>4. CASE row[p] = "succeeded" /\ to = "refunded"
      <4>1. counted' = counted \ {p} /\ Back' = Back \cup {p} /\ p \in counted
        BY <2>1, <2>2, <3>1, <3>4 DEF Succeeded
      <4>2. B!GiveBack(p)
        BY <1>4, <3>2, <4>1 DEF B!GiveBack
      <4>3. QED
        BY <4>2 DEF B!Next
    <3>7. CASE p \in crossed /\ row[p] = "refunded" /\ to = "succeeded"
      <4>1. counted' = counted \cup {p} /\ Back' = Back \ {p} /\ p \notin counted
        BY <2>1, <2>2, <3>1, <3>7 DEF Succeeded
      <4>2. B!Book(p)
        BY <1>4, <3>2, <3>7, <4>1 DEF B!Book
      <4>3. QED
        BY <4>2 DEF B!Next
    <3>5. CASE \/ to = row[p]
               \/ row[p] \in {"none", "pending"} /\ to \in {"pending", "failed"}
      <4>1. counted' = counted /\ Back' = Back
        BY <2>1, <2>2, <3>1, <3>5 DEF Succeeded
      <4>2. BillState' = BillState
        BY <3>1, <4>1, <1>4 DEF BillState, StatusWith, BooksInv, BooksAgree, TypeOK
      <4>3. QED
        BY <1>4, <4>1, <4>2 DEF B!vars
    <3>6. QED
      BY <1>4, <2>1, <3>3, <3>4, <3>5, <3>7 DEF RowMoves, ChargeAnswers
  <2>5. QED
    BY <2>3, <2>4
<1>5. QED
  BY <1>0, <1>1, <1>2, <1>3, <1>4 DEF BooksStep

(* The invoice implements the abstract bill, whoever takes the money and   *)
(* however many requests and webhooks are handled at once.                 *)
THEOREM BillImplemented == Spec => ImplementsBill
<1>1. Init => B!Init
  BY DEF Init, B!Init, BillState
<1>2. TypeOK /\ BooksInv /\ SquareInv /\ [Next]_vars => [B!Next]_B!vars
  BY EveryStepIsABooksStep, BooksStepOfBill
<1>3. QED
  BY <1>1, <1>2, TypeCorrect, BooksHold, SquareInvHolds, PTL DEF Spec, ImplementsBill, B!Spec

-----------------------------------------------------------------------------
(* Why a void invoice holds no money but what came late: LateInv.          *)

LEMMA LateStays ==
  ASSUME TypeOK, NEW p, LateMoney(p),
         \A q \in AtSquare : original[q] # "none" => original'[q] = original[q]
  PROVE  LateMoney(p)'
BY DEF LateMoney

(* A row is written only with money that came late, once the invoice is    *)
(* void, and an answer that is pending only when that was the answer.      *)
RowsKeepLate ==
  \A p \in Payments :
    \/ row'[p] = row[p]
    \/ row'[p] = "pending" /\ (p \in AtSquare => LateMoney(p))
    \/ row'[p] = "succeeded" /\ (status = "void" => LateMoney(p))
    \/ row'[p] \in {"failed", "refunded"}

LEMMA LateStep ==
  ASSUME TypeOK, LateInv, RowsKeepLate,
         \A h \in Handlers :
           \/ pc'[h] = pc[h] /\ item'[h] = item[h] /\ reply'[h] = reply[h]
           \/ pc'[h] = "idle"
           \/ reply'[h] = "succeeded" => item'[h] \in AtSquare /\ original[item'[h]] = "pending",
         status' = "void" => status = "void",
         \A q \in AtSquare : original[q] # "none" => original'[q] = original[q]
  PROVE  LateInv'
<1> USE AtSquareIsPayment
<1>1. \A p : LateMoney(p) => LateMoney(p)'
  BY LateStays
<1>2. (\A p \in AtSquare : row[p] = "pending" => LateMoney(p))'
  BY <1>1 DEF RowsKeepLate, LateInv, LateMoney
<1>3. (\A h \in Handlers : pc[h] # "idle" /\ reply[h] = "succeeded" => LateMoney(item[h]))'
  BY DEF LateInv, LateMoney
<1>4. (status = "void" => \A p \in Payments : row[p] = "succeeded" => LateMoney(p))'
  BY <1>1 DEF RowsKeepLate, LateInv, LateMoney
<1>5. QED
  BY <1>2, <1>3, <1>4 DEF LateInv

(* A payment is recorded on an invoice that stands. *)
LEMMA RecordKeepsLate ==
  ASSUME TypeOK, NEW p \in Payments, NEW as \in {"none"} \cup ChargeAnswers, RecordPayment(p, as),
         as = "pending" /\ p \in AtSquare => LateMoney(p)
  PROVE  RowsKeepLate /\ (status' = "void" => status = "void")
<1>1. CASE status \in PAYABLE_STATUSES /\ row[p] = "none"
  <2>1. row' = [row EXCEPT ![p] = as] /\ status # "void"
    BY <1>1 DEF RecordPayment, PAYABLE_STATUSES
  <2>2. \A q \in Payments : row'[q] = row[q] \/ (q = p /\ row'[q] = as)
    BY <2>1 DEF TypeOK
  <2>3. as # "none" => RowsKeepLate
    BY <2>1, <2>2 DEF RowsKeepLate, ChargeAnswers
  <2>4. as = "none" => RowsKeepLate
    BY <1>1, <2>2 DEF RowsKeepLate
  <2>5. status' = "void" => status = "void"
    BY <1>1 DEF RecordPayment, RecomputeInvoiceTotals, StatusWith, invoice
  <2>6. QED
    BY <2>3, <2>4, <2>5
<1>2. CASE ~(status \in PAYABLE_STATUSES /\ row[p] = "none")
  BY <1>2 DEF RecordPayment, RowsKeepLate, invoice
<1>3. QED
  BY <1>1, <1>2

LEMMA RecomputeStaysVoid ==
  ASSUME RecomputeInvoiceTotals, status' = "void"
  PROVE  status = "void"
BY DEF RecomputeInvoiceTotals, StatusWith

LEMMA ChargeKeepsAnswers ==
  ASSUME TypeOK, NEW p, NEW answer, Charge(p, answer)
  PROVE  \A q \in AtSquare : original[q] # "none" => original'[q] = original[q]
BY DEF Charge, processor, TypeOK

LEMMA LateKept ==
  ASSUME TypeOK, BooksInv, SquareInv, LateInv, [Next]_vars
  PROVE  LateInv'
<1> USE ActorKinds, AtSquareIsPayment
<1>1. ASSUME UNCHANGED <<status, row>>,
             \A h \in Handlers :
               \/ pc'[h] = pc[h] /\ item'[h] = item[h] /\ reply'[h] = reply[h]
               \/ pc'[h] = "idle"
               \/ reply'[h] = "succeeded" => item'[h] \in AtSquare /\ original[item'[h]] = "pending",
             \A q \in AtSquare : original[q] # "none" => original'[q] = original[q]
      PROVE  LateInv'
  <2>1. RowsKeepLate
    BY <1>1 DEF RowsKeepLate
  <2>2. QED
    BY <1>1, <2>1, LateStep
<1>2. ASSUME NEW a \in Actors, a \notin Handlers, Done(a) \/ UNCHANGED requests, UNCHANGED original,
             RowsKeepLate, status' = "void" => status = "void"
      PROVE  LateInv'
  <2>1. \A h \in Handlers : pc'[h] = pc[h] /\ item'[h] = item[h] /\ reply'[h] = reply[h]
    BY <1>2 DEF Done, requests, TypeOK
  <2>2. QED
    BY <1>2, <2>1, LateStep
<1>3. CASE SendInvoice \/ MarkOverdue
  <2>1. RowsKeepLate /\ status' # "void"
    BY <1>3 DEF SendInvoice, MarkOverdue, RowsKeepLate
  <2>2. QED
    BY <1>3, <2>1, LateStep DEF SendInvoice, MarkOverdue, requests, processor
<1>4. CASE VoidInvoice
  <2>1. \A p \in Payments : row[p] # "succeeded"
    BY <1>4 DEF VoidInvoice, BooksInv, BooksAgree, Succeeded
  <2>2. QED
    BY <1>4, <2>1 DEF VoidInvoice, LateInv, LateMoney, requests, processor
<1>5. CASE DatePasses \/ UNCHANGED vars
  BY <1>1, <1>5 DEF DatePasses, vars, invoice, requests, processor
<1>6. ASSUME NEW a \in Chargers \cup Tabs, ChargeInvoice(a) \/ PayPortalInvoice(a)
      PROVE  LateInv'
  BY <1>1, <1>6, KindsApart DEF ChargeInvoice, PayPortalInvoice, Start, TypeOK, invoice, processor
<1>7. ASSUME NEW a \in Chargers \cup Tabs, NEW answer \in ChargeAnswers, AskSquare(a, answer)
      PROVE  LateInv'
  BY <1>1, <1>7, KindsApart, ChargeKeepsAnswers DEF AskSquare, TypeOK, invoice
<1>8. ASSUME NEW a \in Chargers \cup Tabs, NEW answer \in ChargeAnswers, AnswerLost(a, answer)
      PROVE  LateInv'
  BY <1>1, <1>8, KindsApart, ChargeKeepsAnswers DEF AnswerLost, Done, TypeOK, invoice
<1>9. ASSUME NEW a \in Chargers \cup Tabs, BookCharge(a) \/ BookPortal(a)
      PROVE  LateInv'
  <2>1. /\ item[a] \in AtSquare /\ reply[a] = original[item[a]] /\ reply[a] \in ChargeAnswers
        /\ Done(a) /\ UNCHANGED original
    BY <1>9 DEF BookCharge, BookPortal, SquareInv, RequestsTrue, RequestTrue, processor
  <2>2. CASE RecordPayment(item[a], reply[a])
    BY <1>2, <2>1, <2>2, KindsApart, RecordKeepsLate DEF LateMoney
  <2>3. CASE UNCHANGED <<invoice, row>>
    BY <1>2, <2>1, <2>3, KindsApart DEF invoice, RowsKeepLate
  <2>4. QED
    BY <1>9, <2>2, <2>3 DEF BookCharge, BookPortal
<1>10. ASSUME NEW rep \in Reps, CollectPayment(rep)
       PROVE  LateInv'
  <2>1. RowsKeepLate /\ (status' = "void" => status = "void")
    BY <1>10 DEF CollectPayment, RowsKeepLate
  <2>2. \A h \in Handlers : pc'[h] = pc[h] /\ item'[h] = item[h] /\ reply'[h] = reply[h]
    BY <1>10, KindsApart DEF CollectPayment, Start, TypeOK
  <2>3. QED
    BY <1>10, <2>1, <2>2, LateStep DEF CollectPayment, processor
<1>11. ASSUME NEW rep \in Reps, BookCollected(rep)
       PROVE  LateInv'
  <2>1. item[rep] \in Payments /\ "succeeded" \in ChargeAnswers
    BY <1>11 DEF BookCollected, TypeOK, ChargeAnswers
  <2>2. RowsKeepLate /\ (status' = "void" => status = "void")
    BY <1>11, <2>1, RecordKeepsLate DEF BookCollected
  <2>3. QED
    BY <1>2, <1>11, <2>2, KindsApart DEF BookCollected, processor
<1>12. ASSUME NEW p \in ByHand, NEW as \in ChargeAnswers, RecordByHand(p, as)
       PROVE  LateInv'
  <2>1. RowsKeepLate /\ (status' = "void" => status = "void")
    BY <1>12, RecordKeepsLate, ByHandIsNotAtSquare DEF RecordByHand, Payments
  <2>2. QED
    BY <1>12, <2>1, LateStep DEF RecordByHand, requests, processor
<1>13. ASSUME NEW p \in ByHand, RefundByHand(p)
       PROVE  LateInv'
  <2>1. RowsKeepLate
    BY <1>13 DEF RefundByHand, RowsKeepLate, TypeOK
  <2>2. QED
    BY <1>13, <2>1, LateStep, RecomputeStaysVoid DEF RefundByHand, requests, processor
<1>14. ASSUME NEW r \in Refunders, NEW p \in AtSquare, RefundPayment(r, p)
       PROVE  LateInv'
  BY <1>1, <1>14, KindsApart DEF RefundPayment, Start, TypeOK, invoice, processor
<1>15. ASSUME NEW r \in Refunders, AskRefund(r)
       PROVE  LateInv'
  BY <1>1, <1>15, KindsApart DEF AskRefund, RefundAtSquare, TypeOK, invoice, processor
<1>16. ASSUME NEW a \in Actors, Crash(a) \/ RefundAnswerLost(a) \/ RefundRefused(a)
       PROVE  LateInv'
  <2>1. \A h \in Handlers :
          \/ pc'[h] = pc[h] /\ item'[h] = item[h] /\ reply'[h] = reply[h]
          \/ pc'[h] = "idle"
    BY <1>16 DEF Crash, RefundAnswerLost, RefundRefused, Done, TypeOK
  <2>2. UNCHANGED <<status, row, original>>
    BY <1>16 DEF Crash, RefundAnswerLost, RefundRefused, RefundAtSquare, invoice, processor
  <2>3. QED
    BY <1>1, <2>1, <2>2
<1>17. ASSUME NEW r \in Refunders, BookRefund(r)
       PROVE  LateInv'
  <2>1. RowsKeepLate
    BY <1>17 DEF BookRefund, RowsKeepLate, TypeOK
  <2>2. QED
    BY <1>2, <1>17, <2>1, KindsApart, RecomputeStaysVoid DEF BookRefund, processor
<1>18. ASSUME NEW p \in AtSquare,
              \/ \E outcome \in {"succeeded", "failed"} : Settle(p, outcome)
              \/ DashboardRefund(p) \/ Repeat(p)
       PROVE  LateInv'
  BY <1>1, <1>18 DEF Settle, DashboardRefund, Repeat, invoice, requests
<1>19. ASSUME NEW e \in emitted, IgnoreEvent(e)
       PROVE  LateInv'
  BY <1>1, <1>19 DEF IgnoreEvent, invoice, requests
<1>20. ASSUME NEW h \in Handlers, NEW e \in emitted, ReadEvent(h, e)
       PROVE  LateInv'
  <2>1. e.payment \in AtSquare
    BY DEF TypeOK, Events
  <2>2. e.status = "succeeded" => row[e.payment] = "pending"
    BY <1>20 DEF ReadEvent, Moves, WEBHOOK_TRANSITIONS
  <2>3. e.status = "succeeded" => original[e.payment] = "pending"
    BY <2>1, <2>2 DEF LateInv, LateMoney
  <2>4. \A g \in Handlers : \/ pc'[g] = pc[g] /\ item'[g] = item[g] /\ reply'[g] = reply[g]
                            \/ item'[g] = e.payment /\ reply'[g] = e.status
    BY <1>20 DEF ReadEvent, Start, TypeOK
  <2>5. UNCHANGED <<status, row, original>>
    BY <1>20 DEF ReadEvent, invoice, processor
  <2>6. QED
    BY <1>1, <2>1, <2>3, <2>4, <2>5
<1>21. ASSUME NEW h \in Handlers, ReconcilePayment(h)
       PROVE  LateInv'
  <2>1. /\ reply[h] \in {"succeeded", "failed", "refunded"}
        /\ reply[h] = "succeeded" => LateMoney(item[h])
    BY <1>21 DEF ReconcilePayment, BooksInv, HandlersHold, LateInv
  <2>2. \A p \in Payments : row'[p] = row[p] \/ (p = item[h] /\ row'[p] = reply[h])
    BY <1>21 DEF ReconcilePayment, TypeOK
  <2>3. RowsKeepLate
    BY <2>1, <2>2 DEF RowsKeepLate
  <2>4. \A g \in Handlers : \/ pc'[g] = pc[g] /\ item'[g] = item[g] /\ reply'[g] = reply[g]
                            \/ pc'[g] = "idle"
    BY <1>21 DEF ReconcilePayment, Done, TypeOK
  <2>5. QED
    BY <1>21, <2>3, <2>4, LateStep, RecomputeStaysVoid DEF ReconcilePayment
<1>22. QED
  BY <1>3, <1>4, <1>5, <1>6, <1>7, <1>8, <1>9, <1>10, <1>11, <1>12, <1>13, <1>14, <1>15, <1>16, <1>17,
     <1>18, <1>19, <1>20, <1>21 DEF Next, ChargerStep, TabStep, Deliver

THEOREM LateInvHolds == Spec => []LateInv
<1>1. Init => LateInv
  BY AtSquareIsPayment, ActorKinds DEF Init, LateInv
<1>2. TypeOK /\ BooksInv /\ SquareInv /\ LateInv /\ [Next]_vars => LateInv'
  BY LateKept
<1>3. QED
  BY <1>1, <1>2, TypeCorrect, BooksHold, SquareInvHolds, PTL DEF Spec

(* A void invoice holds no money, whoever charges, collects, refunds and   *)
(* voids at once, but for a payment that had yet to settle then.           *)
THEOREM VoidIsEmpty == Spec => []VoidHoldsNoMoney
<1>1. BooksInv /\ LateInv => VoidHoldsNoMoney
  BY DEF BooksInv, BooksAgree, Succeeded, LateInv, LateMoney, VoidHoldsNoMoney
<1>2. QED
  BY <1>1, BooksHold, LateInvHolds, PTL

-----------------------------------------------------------------------------
(* Why the card on file is charged once: the invariant CardInv.            *)

LEMMA WholeBillKey ==
  /\ WholeBill \in OnFile /\ WholeBill.amount = Due
  /\ \A p \in CardKey(Due) : p = WholeBill
BY SomethingIsDue DEF WholeBill, OnFile, Amounts, CardKey

LEMMA CardKept ==
  ASSUME TypeOK, BooksInv, CardInv, [Next]_vars, OnlyTheCard
  PROVE  CardInv'
<1> USE ActorKinds, AtSquareIsPayment DEF OnlyTheCard
<1> DEFINE Items  == \A a \in Actors : item[a] \in {WholeBill, NoPayment}
           Square == \A p \in AtSquare : square[p] # "none" => p = WholeBill
           Rows   == \A p \in Payments : row[p] # "none" => p = WholeBill
<1>1. Items /\ Square /\ Rows
  BY DEF CardInv
<1>2. SUFFICES Items' /\ Square' /\ Rows'
  BY DEF CardInv
<1>3. ByHand = {}
  BY DEF ByHand
<1>4. WholeBill # NoPayment
  BY DEF WholeBill, NoPayment
<1>5. ASSUME NEW a \in Actors, NEW p \in Payments, NEW at, Start(a, p, at), p = WholeBill
      PROVE  Items'
  BY <1>1, <1>5 DEF Start, TypeOK
<1>6. ASSUME NEW a \in Actors, Done(a)
      PROVE  Items'
  BY <1>1, <1>6 DEF Done, TypeOK
<1>7. ASSUME NEW a \in Actors, pc[a] # "idle"
      PROVE  item[a] = WholeBill
  BY <1>1, <1>7 DEF TypeOK
<1>8. ASSUME NEW a \in Actors, pc[a] # "idle", NEW as, row' = [row EXCEPT ![item[a]] = as]
      PROVE  Rows'
  BY <1>1, <1>7, <1>8 DEF TypeOK
<1>9. ASSUME NEW p, p = WholeBill, NEW as, square' = [square EXCEPT ![p] = as]
      PROVE  Square'
  BY <1>1, <1>9 DEF TypeOK
<1>10. ASSUME UNCHANGED item  PROVE Items'
  BY <1>1, <1>10
<1>11. ASSUME UNCHANGED square  PROVE Square'
  BY <1>1, <1>11
<1>12. ASSUME UNCHANGED row  PROVE Rows'
  BY <1>1, <1>12
<1>13. CASE SendInvoice \/ VoidInvoice \/ MarkOverdue \/ DatePasses \/ UNCHANGED vars
  BY <1>10, <1>11, <1>12, <1>13
  DEF SendInvoice, VoidInvoice, MarkOverdue, DatePasses, vars, invoice, requests, processor
<1>14. ASSUME NEW c \in Chargers, ChargeInvoice(c)
       PROVE  Items' /\ Square' /\ Rows'
  <2>1. \A p \in counted : p = WholeBill
    BY <1>1 DEF BooksInv, BooksAgree, Succeeded
  <2>2. counted = {}
    BY <1>14, <2>1, WholeBillKey, AtMostOne DEF ChargeInvoice
  <2>3. Start(c, WholeBill, "asking") /\ WholeBill \in Payments
    BY <1>14, <2>2, SomethingIsDue, WholeBillKey DEF ChargeInvoice, AtSquare, Payments
  <2>4. QED
    BY <1>5, <1>11, <1>12, <1>14, <2>3 DEF ChargeInvoice, processor
<1>15. ASSUME NEW c \in Chargers, NEW answer \in ChargeAnswers, AskSquare(c, answer) \/ AnswerLost(c, answer)
       PROVE  Items' /\ Square' /\ Rows'
  <2>1. item[c] = WholeBill /\ Charge(item[c], answer)
    BY <1>7, <1>15 DEF AskSquare, AnswerLost
  <2>2. Square'
    BY <1>9, <1>11, <2>1 DEF Charge, processor
  <2>3. QED
    BY <1>6, <1>10, <1>12, <1>15, <2>2 DEF AskSquare, AnswerLost
<1>16. ASSUME NEW c \in Chargers, BookCharge(c)
       PROVE  Items' /\ Square' /\ Rows'
  BY <1>6, <1>8, <1>11, <1>12, <1>16 DEF BookCharge, RecordPayment, processor
<1>17. ASSUME NEW r \in Refunders, NEW p \in AtSquare, RefundPayment(r, p)
       PROVE  Items' /\ Square' /\ Rows'
  BY <1>1, <1>5, <1>11, <1>12, <1>17 DEF RefundPayment, processor
<1>18. ASSUME NEW r \in Refunders, AskRefund(r) \/ RefundAnswerLost(r) \/ RefundRefused(r)
       PROVE  Items' /\ Square' /\ Rows'
  <2>1. item[r] = WholeBill
    BY <1>7, <1>18 DEF AskRefund, RefundAnswerLost, RefundRefused
  <2>2. Square'
    BY <1>9, <1>11, <1>18, <2>1 DEF AskRefund, RefundAnswerLost, RefundRefused, RefundAtSquare, processor
  <2>3. QED
    BY <1>6, <1>10, <1>12, <1>18, <2>2 DEF AskRefund, RefundAnswerLost, RefundRefused
<1>19. ASSUME NEW a \in Actors, BookRefund(a) \/ ReconcilePayment(a)
       PROVE  Items' /\ Square' /\ Rows'
  <2>1. Square'
    BY <1>11, <1>19 DEF BookRefund, ReconcilePayment, processor
  <2>2. QED
    BY <1>6, <1>8, <1>19, <2>1 DEF BookRefund, ReconcilePayment
<1>20. ASSUME NEW p \in AtSquare,
              \/ \E outcome \in {"succeeded", "failed"} : Settle(p, outcome)
              \/ DashboardRefund(p) \/ Repeat(p)
       PROVE  Items' /\ Square' /\ Rows'
  <2>1. p = WholeBill
    BY <1>1, <1>20 DEF Settle, DashboardRefund, Repeat
  <2>2. Square'
    BY <1>9, <1>11, <1>20, <2>1 DEF Settle, DashboardRefund, Repeat
  <2>3. QED
    BY <1>10, <1>12, <1>20, <2>2 DEF Settle, DashboardRefund, Repeat, requests
<1>21. ASSUME NEW e \in emitted, IgnoreEvent(e)
       PROVE  Items' /\ Square' /\ Rows'
  BY <1>10, <1>11, <1>12, <1>21 DEF IgnoreEvent, requests
<1>22. ASSUME NEW h \in Handlers, NEW e \in emitted, ReadEvent(h, e)
       PROVE  Items' /\ Square' /\ Rows'
  <2>1. e.payment \in Payments /\ row[e.payment] # "none"
    BY <1>22 DEF TypeOK, Events, ReadEvent, Moves, WEBHOOK_TRANSITIONS
  <2>2. QED
    BY <1>1, <1>5, <1>11, <1>12, <1>22, <2>1 DEF ReadEvent, processor
<1>23. ASSUME NEW a \in Actors, Crash(a)
       PROVE  Items' /\ Square' /\ Rows'
  BY <1>6, <1>11, <1>12, <1>23 DEF Crash, processor
<1>24. QED
  BY <1>3, <1>13, <1>14, <1>15, <1>16, <1>17, <1>18, <1>19, <1>20, <1>21, <1>22, <1>23
  DEF Next, ChargerStep, TabStep, Deliver

THEOREM CardInvHolds == Spec => []CardInv
<1>1. Init => CardInv
  BY AtSquareIsPayment DEF Init, CardInv
<1>2. TypeOK /\ BooksInv /\ CardInv /\ [Next]_vars => CardInv'
  <2>1. ~OnlyTheCard => CardInv'
    BY DEF CardInv, OnlyTheCard
  <2>2. QED
    BY <2>1, CardKept
<1>3. QED
  BY <1>1, <1>2, TypeCorrect, BooksHold, PTL DEF Spec

(* However many runs charge the card on file, however they and their       *)
(* answers are lost, and whatever is refunded, the customer is charged for *)
(* the bill at most once, where nothing else pays it: a bill of any amount *)
(* has one key.                                                            *)
THEOREM CardChargedOnce == Spec => []ChargedOnce
<1>1. CardInv => ChargedOnce
  <2> SUFFICES ASSUME CardInv, OnlyTheCard PROVE Taken <= Due
    BY DEF ChargedOnce
  <2>1. \A p \in AtSquare : square[p] \in {"pending", "completed"} => p = WholeBill
    BY DEF CardInv
  <2>2. QED
    BY <2>1, AtMostOne, WholeBillKey DEF Taken
<1>2. QED
  BY <1>1, CardInvHolds, PTL

-----------------------------------------------------------------------------
(* Why two tabs pay once: the invariant TabsInv.                           *)

LEMMA TabsKept ==
  ASSUME TypeOK, BooksInv, SquareInv, LateInv, TabsInv, [Next]_vars,
         OnlyTheTabs, "pending" \notin Answers, MaxFaults = 0
  PROVE  TabsInv'
<1> USE ActorKinds, AtSquareIsPayment DEF OnlyTheTabs
<1> DEFINE Alone  == \A s, t \in Tabs : pc[s] # "idle" /\ pc[t] # "idle" => s = t
           Unpaid == InvoiceLocked => counted = {} /\ status \in PORTAL_PAYABLE
           Items  == \A a \in Actors : pc[a] # "idle" => item[a].amount = Due
           Square == \A p \in AtSquare :
                       /\ original[p] # "pending" /\ square[p] # "pending"
                       /\ square[p] = "completed" => p.amount = Due /\ (row[p] = "succeeded" \/ Booking(p))
           Rows   == \A p \in Payments :
                       /\ row[p] \in {"none", "succeeded", "refunded"}
                       /\ row[p] # "none" => p.amount = Due
           Once   == \A p, q \in counted : p = q
<1>1. Alone /\ Unpaid /\ Items /\ Square /\ Rows /\ Once
  BY DEF TabsInv
<1>2. SUFFICES Alone' /\ Unpaid' /\ Items' /\ Square' /\ Rows' /\ Once'
  BY DEF TabsInv
<1>3. ByHand = {} /\ Chargers = {} /\ Reps = {} /\ faults >= MaxFaults
  BY DEF ByHand, TypeOK
<1>4. counted = Succeeded(row)
  BY DEF BooksInv, BooksAgree
(* The tabs, the rows and the bill stand still. *)
<1>5. ASSUME \A t \in Tabs : pc'[t] = pc[t] /\ item'[t] = item[t]
      PROVE  Alone' /\ (InvoiceLocked' <=> InvoiceLocked) /\ (\A p : Booking(p)' <=> Booking(p))
  BY <1>1, <1>5 DEF InvoiceLocked, Booking
<1>6. ASSUME \A t \in Tabs : pc'[t] = pc[t] /\ item'[t] = item[t],
             UNCHANGED <<counted, row>>, InvoiceLocked => status' \in PORTAL_PAYABLE
      PROVE  Alone' /\ Unpaid' /\ Rows' /\ Once'
  BY <1>1, <1>5, <1>6
<1>7. ASSUME \A t \in Tabs : pc'[t] = pc[t] /\ item'[t] = item[t],
             UNCHANGED <<original, row>>,
             \A p \in AtSquare : square'[p] = square[p] \/ square'[p] = "refunded"
      PROVE  Square'
  BY <1>1, <1>5, <1>7
<1>8. ASSUME UNCHANGED <<pc, item>>
      PROVE  Items' /\ \A t \in Tabs : pc'[t] = pc[t] /\ item'[t] = item[t]
  BY <1>1, <1>8
<1>9. ASSUME NEW a \in Actors, Done(a)
      PROVE  Items' /\ \A b \in Actors : b # a => pc'[b] = pc[b] /\ item'[b] = item[b]
  BY <1>1, <1>9 DEF Done, TypeOK
<1>10. ASSUME NEW a \in Actors, NEW p, NEW at, Start(a, p, at), p.amount = Due
       PROVE  Items' /\ \A b \in Actors : b # a => pc'[b] = pc[b] /\ item'[b] = item[b]
  BY <1>1, <1>10 DEF Start, TypeOK
(* A refund is written: to a payment that Square has given back. *)
<1>11. ASSUME ~InvoiceLocked, NEW a \in Refunders \cup Handlers, Done(a), NEW p \in AtSquare,
              row' = [row EXCEPT ![p] = "refunded"], row[p] # "none",
              square[p] = "refunded", UNCHANGED <<square, original>>, counted' = Succeeded(row')
       PROVE  Alone' /\ Unpaid' /\ Items' /\ Square' /\ Rows' /\ Once'
  <2>1. \A t \in Tabs : pc'[t] = pc[t] /\ item'[t] = item[t]
    BY <1>9, <1>11, KindsApart
  <2>2. Alone' /\ Unpaid' /\ Items'
    BY <1>5, <1>9, <1>11, <2>1
  <2>3. \A q \in Payments : row'[q] = row[q] \/ (q = p /\ row'[q] = "refunded")
    BY <1>11 DEF TypeOK
  <2>4. Rows'
    BY <1>1, <1>11, <2>3
  <2>5. Once'
    BY <1>1, <1>4, <1>11, <2>3 DEF Succeeded
  <2>6. Square'
    BY <1>1, <1>5, <1>11, <2>1, <2>3
  <2>7. QED
    BY <2>2, <2>4, <2>5, <2>6
<1>12. CASE SendInvoice \/ VoidInvoice \/ MarkOverdue \/ DatePasses \/ UNCHANGED vars
  <2>1. UNCHANGED <<pc, item, reply, square, original, row, counted>>
    BY <1>12 DEF SendInvoice, VoidInvoice, MarkOverdue, DatePasses, vars, invoice, requests, processor
  <2>2. InvoiceLocked => status' \in PORTAL_PAYABLE
    BY <1>1, <1>12
    DEF SendInvoice, VoidInvoice, MarkOverdue, DatePasses, vars, invoice, PORTAL_PAYABLE
  <2>3. QED
    BY <1>6, <1>7, <1>8, <2>1, <2>2
<1>13. ASSUME NEW t \in Tabs, PayPortalInvoice(t)
       PROVE  Alone' /\ Unpaid' /\ Items' /\ Square' /\ Rows' /\ Once'
  <2>1. counted = {} /\ Owing(counted) = Due
    BY <1>1, <1>4, <1>13, AtMostOne, SomethingIsDue DEF PayPortalInvoice, Succeeded
  <2>2. PICK p \in FromTab : Start(t, p, "asking") /\ p.amount = Due
    BY <1>13, <2>1 DEF PayPortalInvoice, TabKey
  <2>3. UNCHANGED <<status, counted, row, square, original>> /\ status \in PORTAL_PAYABLE /\ ~InvoiceLocked
    BY <1>13 DEF PayPortalInvoice, invoice, processor
  <2>4. Items' /\ \A b \in Actors : b # t => pc'[b] = pc[b] /\ item'[b] = item[b]
    BY <1>10, <2>2
  <2>5. Alone' /\ Unpaid'
    BY <2>1, <2>3, <2>4 DEF InvoiceLocked
  <2>6. \A q : Booking(q) => Booking(q)'
    BY <2>3 DEF Booking, InvoiceLocked
  <2>7. QED
    BY <1>1, <2>3, <2>4, <2>5, <2>6
<1>14. ASSUME NEW t \in Tabs, NEW answer \in ChargeAnswers, AskSquare(t, answer)
       PROVE  Alone' /\ Unpaid' /\ Items' /\ Square' /\ Rows' /\ Once'
  <2>1. /\ pc[t] = "asking" /\ pc'[t] = "booking" /\ UNCHANGED <<invoice, row, item>>
        /\ \A b \in Actors : b # t => pc'[b] = pc[b]
        /\ item[t] \in AtSquare /\ item[t].amount = Due
    BY <1>1, <1>14 DEF AskSquare, TypeOK, SquareInv, RequestsTrue, RequestTrue
  <2>2. Alone' /\ Unpaid' /\ Items' /\ Rows' /\ Once'
    BY <1>1, <2>1 DEF InvoiceLocked, invoice
  <2>3. Booking(item[t])' /\ \A q : Booking(q) => Booking(q)'
    BY <2>1 DEF Booking
  <2>4. CASE original[item[t]] = "none"
    <3>1. answer \in {"succeeded", "failed"} /\ original' = [original EXCEPT ![item[t]] = answer]
      BY <1>14, <2>4 DEF AskSquare, Charge, ChargeAnswers
    <3>2. square' = [square EXCEPT ![item[t]] = IF answer = "succeeded" THEN "completed" ELSE "failed"]
      BY <1>14, <2>4, <3>1 DEF AskSquare, Charge
    <3>3. Square'
      BY <1>1, <2>1, <2>3, <3>1, <3>2 DEF TypeOK
    <3>4. QED
      BY <2>2, <3>3
  <2>5. CASE original[item[t]] # "none"
    <3>1. UNCHANGED <<square, original>>
      BY <1>14, <2>5 DEF AskSquare, Charge, processor
    <3>2. QED
      BY <1>1, <2>1, <2>2, <2>3, <3>1
  <2>6. QED
    BY <2>4, <2>5
<1>15. ASSUME NEW t \in Tabs, BookPortal(t)
       PROVE  Alone' /\ Unpaid' /\ Items' /\ Square' /\ Rows' /\ Once'
  <2> DEFINE p == item[t]
  <2>0. /\ p \in AtSquare /\ reply[t] = original[p] /\ reply[t] \in ChargeAnswers
        /\ pc[t] = "booking"
    BY <1>15 DEF BookPortal, SquareInv, RequestsTrue, RequestTrue
  <2>1. /\ p \in AtSquare /\ p.amount = Due /\ reply[t] = original[p]
        /\ reply[t] \in {"succeeded", "failed"} /\ counted = {} /\ status \in PORTAL_PAYABLE
        /\ Done(t) /\ UNCHANGED <<square, original>>
    <3>1. reply[t] # "pending" /\ p.amount = Due
      BY <1>1, <2>0
    <3>2. counted = {} /\ status \in PORTAL_PAYABLE
      BY <1>1, <2>0 DEF InvoiceLocked
    <3>3. QED
      BY <1>15, <2>0, <3>1, <3>2 DEF BookPortal, processor, ChargeAnswers
  <2>2. /\ Items' /\ \A b \in Tabs : pc'[b] = "idle"
        /\ \A q : Booking(q) => q = p
    BY <1>1, <1>9, <1>15, <2>1 DEF BookPortal, Booking, Done, TypeOK
  <2>3. Alone' /\ Unpaid'
    BY <2>2 DEF InvoiceLocked
  <2>4. CASE reply[t] = "failed"
    <3>1. UNCHANGED <<invoice, row>> /\ square[p] = "failed"
      BY <1>15, <2>1, <2>4 DEF BookPortal, SquareInv, AnswersTrue, Backs
    <3>2. QED
      BY <1>1, <2>1, <2>2, <2>3, <3>1 DEF invoice
  <2>5. CASE reply[t] = "succeeded" /\ row[p] = "none"
    <3>1. row' = [row EXCEPT ![p] = "succeeded"] /\ counted' = Succeeded(row')
      BY <1>15, <2>1, <2>5
      DEF BookPortal, RecordPayment, PORTAL_PAYABLE, PAYABLE_STATUSES, RecomputeInvoiceTotals
    <3>2. \A q \in Payments : row'[q] = row[q] \/ (q = p /\ row'[q] = "succeeded")
      BY <3>1 DEF TypeOK
    <3>3. row'[p] = "succeeded"
      BY <2>1, <3>1 DEF TypeOK
    <3>4. Once'
      BY <1>4, <2>1, <3>1, <3>2 DEF Succeeded
    <3>5. Rows' /\ Square'
      BY <1>1, <2>1, <2>2, <3>2, <3>3
    <3>6. QED
      BY <2>2, <2>3, <3>4, <3>5
  <2>6. CASE reply[t] = "succeeded" /\ row[p] # "none"
    <3>1. UNCHANGED <<invoice, row>>
      BY <1>15, <2>6 DEF BookPortal, RecordPayment
    <3>2. row[p] = "refunded"
      BY <1>1, <1>4, <2>1, <2>6 DEF Succeeded
    <3>3. square[p] = "refunded"
      BY <2>1, <3>2 DEF SquareInv, BooksFollowSquare, Backs
    <3>4. QED
      BY <1>1, <2>1, <2>2, <2>3, <3>1, <3>3 DEF invoice
  <2>7. QED
    BY <2>1, <2>4, <2>5, <2>6
<1>16. ASSUME NEW a \in Actors, \/ Crash(a) \/ RefundAnswerLost(a)
                                \/ \E answer \in ChargeAnswers : AnswerLost(a, answer)
       PROVE  FALSE
  BY <1>16 DEF Crash, RefundAnswerLost, AnswerLost, TypeOK
<1>17. ASSUME NEW r \in Refunders, NEW p \in AtSquare, RefundPayment(r, p)
       PROVE  Alone' /\ Unpaid' /\ Items' /\ Square' /\ Rows' /\ Once'
  <2>1. p.amount = Due /\ UNCHANGED <<status, counted, row, square, original>>
    BY <1>1, <1>17 DEF RefundPayment, invoice, processor
  <2>2. Items' /\ \A t \in Tabs : pc'[t] = pc[t] /\ item'[t] = item[t]
    BY <1>10, <1>17, <2>1, KindsApart DEF RefundPayment
  <2>3. QED
    BY <1>1, <1>6, <1>7, <2>1, <2>2
<1>18. ASSUME NEW r \in Refunders, AskRefund(r)
       PROVE  Alone' /\ Unpaid' /\ Items' /\ Square' /\ Rows' /\ Once'
  <2>1. /\ UNCHANGED <<status, counted, row, original, item>>
        /\ \A p \in AtSquare : square'[p] = square[p] \/ square'[p] = "refunded"
    BY <1>18 DEF AskRefund, RefundAtSquare, invoice, processor, TypeOK
  <2>2. Items' /\ \A t \in Tabs : pc'[t] = pc[t] /\ item'[t] = item[t]
    BY <1>1, <1>18, KindsApart DEF AskRefund, TypeOK
  <2>3. QED
    BY <1>1, <1>6, <1>7, <2>1, <2>2
<1>19. ASSUME NEW r \in Refunders, RefundRefused(r)
       PROVE  Alone' /\ Unpaid' /\ Items' /\ Square' /\ Rows' /\ Once'
  <2>1. UNCHANGED <<status, counted, row, square, original>>
    BY <1>19 DEF RefundRefused, invoice, processor
  <2>2. Items' /\ \A t \in Tabs : pc'[t] = pc[t] /\ item'[t] = item[t]
    BY <1>9, <1>19, KindsApart DEF RefundRefused
  <2>3. QED
    BY <1>1, <1>6, <1>7, <2>1, <2>2
<1>20. ASSUME NEW r \in Refunders, BookRefund(r)
       PROVE  Alone' /\ Unpaid' /\ Items' /\ Square' /\ Rows' /\ Once'
  <2>1. /\ item[r] \in AtSquare /\ square[item[r]] = "refunded" /\ row[item[r]] = "succeeded"
        /\ Done(r) /\ ~InvoiceLocked
    BY <1>20
    DEF BookRefund, BooksInv, RefundsHold, SquareInv, RequestsTrue, RequestTrue, TypeOK
  <2>2. /\ row' = [row EXCEPT ![item[r]] = "refunded"] /\ UNCHANGED <<square, original>>
        /\ counted' = Succeeded(row')
    BY <1>20 DEF BookRefund, RecomputeInvoiceTotals, processor
  <2>3. QED
    BY <1>11, <2>1, <2>2
<1>21. ASSUME NEW h \in Handlers, ReconcilePayment(h)
       PROVE  Alone' /\ Unpaid' /\ Items' /\ Square' /\ Rows' /\ Once'
  <2>1. /\ item[h] \in AtSquare /\ row[item[h]] # "none" /\ Done(h) /\ ~InvoiceLocked
        /\ reply[h] \in {"succeeded", "failed", "refunded"}
        /\ reply[h] = "succeeded" => original[item[h]] = "pending"
        /\ [payment |-> item[h], status |-> reply[h]] \in emitted
    BY <1>21
    DEF ReconcilePayment, BooksInv, HandlersHold, LateInv, LateMoney, SquareInv, RequestsTrue, RequestTrue, TypeOK
  <2>2. Backs(item[h], reply[h]) /\ Backs(item[h], row[item[h]])
    BY <2>1 DEF SquareInv, EventsTrue, BooksFollowSquare
  <2>3. reply[h] = "refunded" /\ square[item[h]] = "refunded"
    BY <1>1, <2>1, <2>2 DEF Backs
  <2>4. /\ row' = [row EXCEPT ![item[h]] = "refunded"] /\ UNCHANGED <<square, original>>
        /\ counted' = Succeeded(row')
    BY <1>21, <2>3 DEF ReconcilePayment, RecomputeInvoiceTotals
  <2>5. QED
    BY <1>11, <2>1, <2>3, <2>4
<1>22. ASSUME NEW h \in Handlers, NEW e \in emitted, ReadEvent(h, e)
       PROVE  Alone' /\ Unpaid' /\ Items' /\ Square' /\ Rows' /\ Once'
  <2>1. e.payment \in Payments /\ row[e.payment] # "none"
    BY <1>22 DEF TypeOK, Events, ReadEvent, Moves, WEBHOOK_TRANSITIONS
  <2>2. Items' /\ \A t \in Tabs : pc'[t] = pc[t] /\ item'[t] = item[t]
    BY <1>1, <1>10, <1>22, <2>1, KindsApart DEF ReadEvent
  <2>3. UNCHANGED <<status, counted, row, square, original>>
    BY <1>22 DEF ReadEvent, invoice, processor
  <2>4. QED
    BY <1>1, <1>6, <1>7, <2>2, <2>3
<1>23. ASSUME NEW p \in AtSquare,
              \/ \E outcome \in {"succeeded", "failed"} : Settle(p, outcome)
              \/ DashboardRefund(p) \/ Repeat(p)
       PROVE  Alone' /\ Unpaid' /\ Items' /\ Square' /\ Rows' /\ Once'
  <2>1. /\ UNCHANGED <<status, counted, row, original, pc, item>>
        /\ \A q \in AtSquare : square'[q] = square[q] \/ square'[q] = "refunded"
    BY <1>1, <1>23 DEF Settle, DashboardRefund, Repeat, invoice, requests, TypeOK
  <2>2. QED
    BY <1>1, <1>6, <1>7, <1>8, <2>1
<1>24. ASSUME NEW e \in emitted, IgnoreEvent(e)
       PROVE  Alone' /\ Unpaid' /\ Items' /\ Square' /\ Rows' /\ Once'
  <2>1. UNCHANGED <<status, counted, row, square, original, pc, item>>
    BY <1>24 DEF IgnoreEvent, invoice, requests
  <2>2. QED
    BY <1>1, <1>6, <1>7, <1>8, <2>1
<1>25. QED
  BY <1>3, <1>12, <1>13, <1>14, <1>15, <1>16, <1>17, <1>18, <1>19, <1>20, <1>21, <1>22, <1>23, <1>24
  DEF Next, ChargerStep, TabStep, Deliver

THEOREM TabsInvHolds == Spec => []TabsInv
<1>1. Init => TabsInv
  BY AtSquareIsPayment, ActorKinds DEF Init, TabsInv, InvoiceLocked
<1>2. TypeOK /\ BooksInv /\ SquareInv /\ LateInv /\ TabsInv /\ [Next]_vars => TabsInv'
  <2>1. ~(OnlyTheTabs /\ "pending" \notin Answers /\ MaxFaults = 0) => TabsInv'
    BY DEF TabsInv, OnlyTheTabs
  <2>2. QED
    BY <2>1, TabsKept
<1>3. QED
  BY <1>1, <1>2, TypeCorrect, BooksHold, SquareInvHolds, LateInvHolds, PTL DEF Spec

(* Any number of tabs pay a bill once, with whatever cards: each holds the *)
(* invoice's row while Square is asked, where nobody else charges it and   *)
(* every answer arrives and is final.                                      *)
THEOREM TabsChargeOnce == Spec => []TabsPayOnce
<1>1. BooksInv /\ TabsInv => TabsPayOnce
  <2> SUFFICES ASSUME BooksInv, TabsInv, OnlyTheTabs, "pending" \notin Answers, MaxFaults = 0
               PROVE  Taken <= Due
    BY DEF TabsPayOnce
  <2> DEFINE S == {p \in AtSquare : square[p] \in {"pending", "completed"}}
  <2>1. \A p \in S : p.amount = Due /\ (p \in counted \/ Booking(p))
    BY AtSquareIsPayment DEF TabsInv, BooksInv, BooksAgree, Succeeded
  <2>2. \A p, q \in S : p = q
    BY <2>1 DEF TabsInv, Booking, InvoiceLocked
  <2>3. QED
    BY <2>1, <2>2, AtMostOne DEF Taken
<1>2. QED
  BY <1>1, BooksHold, TabsInvHolds, PTL
=============================================================================
