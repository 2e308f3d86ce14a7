------------------------------ MODULE Payments ------------------------------
(***************************************************************************)
(* One invoice and the money that may reach it: services/payments.ts,      *)
(* services/portal.ts, the invoice's own state in services/invoices.ts,    *)
(* routes/webhooks.ts, and Square behind services/squareGateway.ts.        *)
(*                                                                         *)
(* Money arrives four ways at once.  The nightly job and the office charge *)
(* the card on file: they read the invoice, ask Square, and only then open *)
(* a transaction to record the answer.  The customer pays from a browser   *)
(* tab: one transaction, which holds the invoice's row while Square is     *)
(* asked.  A rep hands in what was collected at the door: read the         *)
(* balance, then record it.  The office books a payment by hand.  Refunds  *)
(* hold the payment's row while Square is asked, and Square's webhooks     *)
(* move what is recorded, in any order and more than once.                 *)
(*                                                                         *)
(* A transaction that asks nobody is one step: its locks make it so.       *)
(***************************************************************************)
EXTENDS Naturals, FiniteSetsExt

CONSTANTS
  Due,         \* amount_due
  Chargers,    \* requests in chargeInvoice
  Tabs,        \* requests in payPortalInvoice
  Reps,        \* requests in settleCollectedPayment
  Refunders,   \* requests in refundPayment
  Handlers,    \* requests in reconcilePayment
  Nonces,      \* single-use card tokens the customer's form can produce
  Slips,       \* ids for the rows of payments made by hand
  Answers,     \* what Square may answer to a charge, a subset of ChargeAnswers
  MaxFaults    \* how many crashes and lost answers are allowed for

Amounts       == 1..Due
ChargeAnswers == {"succeeded", "pending", "failed"}

(***************************************************************************)
(* A payment is known by its idempotency key at Square, which answers the  *)
(* same key with the same transaction, and by its row otherwise:           *)
(* invoice:<id>:<amount> for the card on file, portal:<id>:<amount>:<nonce>*)
(* from a tab.                                                             *)
(***************************************************************************)
OnFile   == [via : {"card"}, amount : Amounts, token : {"saved"}]
FromTab  == [via : {"portal"}, amount : Amounts, token : Nonces]
ByHand   == [via : {"hand"}, amount : Amounts, token : Slips]
AtSquare == OnFile \cup FromTab
Payments == AtSquare \cup ByHand
NoPayment == [via |-> "none", amount |-> 0, token |-> "none"]

Total(S)   == MapThenSumSet(LAMBDA p : p.amount, S)
Covered(S) == Total(S) >= Due
Owing(S)   == Due - Total(S)

ASSUME PaymentsAssumption ==
  /\ Due \in Nat \ {0}
  /\ Answers \subseteq ChargeAnswers
  /\ MaxFaults \in Nat
  /\ Chargers \cap (Tabs \cup Reps \cup Refunders \cup Handlers) = {}
  /\ Tabs \cap (Reps \cup Refunders \cup Handlers) = {}
  /\ Reps \cap (Refunders \cup Handlers) = {}
  /\ Refunders \cap Handlers = {}

Actors == Chargers \cup Tabs \cup Reps \cup Refunders \cup Handlers

VARIABLES
  status,    \* invoices.status
  late,      \* whether due_date has passed
  counted,   \* the payments invoices.amount_paid adds up
  row,       \* payments.status of each payment; "none" before the row exists
  pc,        \* where each request is
  item,      \* the payment it is about
  reply,     \* what Square told it, or the status a webhook asks for
  crossed,   \* the payments two webhooks have been handled for at once
  square,    \* each payment's state at Square
  original,  \* Square's first answer to each key
  emitted,   \* the events Square has had to report
  unacked,   \* the ones it has not been answered 200 for
  faults     \* crashes and lost answers so far

invoice   == <<status, late, counted>>
requests  == <<pc, item, reply, crossed>>
processor == <<square, original, emitted, unacked>>
vars      == <<invoice, row, requests, processor, faults>>

RowStatuses == {"none", "pending", "succeeded", "failed", "refunded"}
Events      == [payment : AtSquare, status : {"succeeded", "failed", "refunded"}]

TypeOK ==
  /\ status   \in {"draft", "sent", "overdue", "paid", "void"}
  /\ late     \in BOOLEAN
  /\ counted  \subseteq Payments
  /\ row      \in [Payments -> RowStatuses]
  /\ pc       \in [Actors -> {"idle", "asking", "booking"}]
  /\ item     \in [Actors -> Payments \cup {NoPayment}]
  /\ reply    \in [Actors -> RowStatuses]
  /\ crossed  \subseteq Payments
  /\ square   \in [AtSquare -> {"none", "pending", "completed", "failed", "refunded"}]
  /\ original \in [AtSquare -> {"none"} \cup ChargeAnswers]
  /\ emitted  \subseteq Events
  /\ unacked  \subseteq emitted
  /\ faults   \in Nat
  /\ \A a \in Actors : item[a] = NoPayment <=> pc[a] = "idle"
  /\ \A a \in Refunders \cup Handlers : item[a] \in AtSquare \cup {NoPayment}
  /\ \A a \in Chargers \cup Tabs : reply[a] \in {"none"} \cup ChargeAnswers

Init ==
  /\ status   = "draft"
  /\ late     = FALSE
  /\ counted  = {}
  /\ row      = [p \in Payments |-> "none"]
  /\ pc       = [a \in Actors |-> "idle"]
  /\ item     = [a \in Actors |-> NoPayment]
  /\ reply    = [a \in Actors |-> "none"]
  /\ crossed  = {}
  /\ square   = [p \in AtSquare |-> "none"]
  /\ original = [p \in AtSquare |-> "none"]
  /\ emitted  = {}
  /\ unacked  = {}
  /\ faults   = 0

PAYABLE_STATUSES == {"sent", "overdue", "paid"}
PORTAL_PAYABLE   == {"sent", "overdue"}

(* A tab holds the invoice's row from its first query to its commit, a     *)
(* refund its payment's row.                                               *)
InvoiceLocked == \E t \in Tabs : pc[t] # "idle"
RowLocked(p)  == \E r \in Refunders : pc[r] # "idle" /\ item[r] = p

Start(a, p, at) ==
  /\ pc[a] = "idle"
  /\ pc'      = [pc EXCEPT ![a] = at]
  /\ item'    = [item EXCEPT ![a] = p]
  /\ crossed' = IF a \in Handlers /\ \E h \in Handlers : item[h] = p
                  THEN crossed \cup {p} ELSE crossed

Done(a) ==
  /\ pc'    = [pc EXCEPT ![a] = "idle"]
  /\ item'  = [item EXCEPT ![a] = NoPayment]
  /\ reply' = [reply EXCEPT ![a] = "none"]
  /\ UNCHANGED crossed

-----------------------------------------------------------------------------
(* Mutant: the status is left alone when a refund uncovers the bill. *)
StatusNeverReopens(S) ==
  IF status # "void" /\ Covered(S) THEN "paid" ELSE status

(* recomputeInvoiceTotals: the status that goes with what has been paid. *)
StatusWith(S) ==
  CASE status = "void"                   -> "void"
    [] status # "void" /\ Covered(S)     -> "paid"
    [] status = "paid" /\ ~Covered(S)    -> IF late THEN "overdue" ELSE "sent"
    [] OTHER                             -> status

Succeeded(r) == {p \in Payments : r[p] = "succeeded"}

RecomputeInvoiceTotals ==
  /\ counted' = Succeeded(row')
  /\ status'  = StatusWith(counted')
  /\ UNCHANGED late

(* sendInvoice, and emailInvoice of a draft. *)
SendInvoice ==
  /\ status = "draft"
  /\ status' = "sent"
  /\ UNCHANGED <<late, counted, row, requests, processor, faults>>

(* Mutant: only an invoice that is settled is kept from being voided, not   *)
(* one that is paid in part.                                               *)
VoidAnyUnpaid ==
  /\ ~InvoiceLocked
  /\ status \in {"draft", "sent", "overdue"}
  /\ status' = "void"
  /\ UNCHANGED <<late, counted, row, requests, processor, faults>>

VoidInvoice ==
  /\ ~InvoiceLocked
  /\ status \in {"draft", "sent", "overdue"}
  /\ counted = {}
  /\ status' = "void"
  /\ UNCHANGED <<late, counted, row, requests, processor, faults>>

(* markOverdue: one UPDATE, which waits for the row and looks again. *)
MarkOverdue ==
  /\ ~InvoiceLocked
  /\ late
  /\ status = "sent"
  /\ ~Covered(counted)
  /\ status' = "overdue"
  /\ UNCHANGED <<late, counted, row, requests, processor, faults>>

(* The due date passes. *)
DatePasses ==
  /\ ~late
  /\ late' = TRUE
  /\ UNCHANGED <<status, counted, row, requests, processor, faults>>

(***************************************************************************)
(* recordPayment's transaction, once it has the invoice's row: an invoice  *)
(* that cannot be paid and a transaction already recorded are refused.     *)
(***************************************************************************)
RecordPayment(p, as) ==
  IF status \in PAYABLE_STATUSES /\ row[p] = "none"
    THEN /\ row' = [row EXCEPT ![p] = as]
         /\ IF as = "succeeded" THEN RecomputeInvoiceTotals ELSE UNCHANGED invoice
    ELSE UNCHANGED <<row, invoice>>

-----------------------------------------------------------------------------
(* Square, as far as the gateway relies on it.  A charge it has not seen   *)
(* gets an answer; a key it has seen gets the answer it got before.        *)
Charge(p, answer) ==
  IF original[p] = "none"
    THEN /\ answer \in Answers
         /\ original' = [original EXCEPT ![p] = answer]
         /\ square'   = [square EXCEPT ![p] =
                          CASE answer = "succeeded" -> "completed"
                            [] answer = "pending"   -> "pending"
                            [] answer = "failed"    -> "failed"]
         /\ UNCHANGED <<emitted, unacked>>
    ELSE /\ answer = original[p]
         /\ UNCHANGED processor

Emit(e) ==
  /\ emitted' = emitted \cup {e}
  /\ unacked' = unacked \cup {e}

(* A pending payment settles, one way or the other. *)
Settle(p, outcome) ==
  /\ square[p] = "pending"
  /\ square' = [square EXCEPT ![p] = IF outcome = "succeeded" THEN "completed" ELSE "failed"]
  /\ Emit([payment |-> p, status |-> outcome])
  /\ UNCHANGED <<invoice, row, requests, original, faults>>

(* Someone refunds a payment in the Square dashboard. *)
DashboardRefund(p) ==
  /\ square[p] = "completed"
  /\ square' = [square EXCEPT ![p] = "refunded"]
  /\ Emit([payment |-> p, status |-> "refunded"])
  /\ UNCHANGED <<invoice, row, requests, original, faults>>

(* Square says payment.updated again, still COMPLETED, after a refund. *)
Repeat(p) ==
  /\ square[p] \in {"completed", "refunded"}
  /\ Emit([payment |-> p, status |-> "succeeded"])
  /\ UNCHANGED <<invoice, row, requests, square, original, faults>>

-----------------------------------------------------------------------------
(* Mutant: an idempotency key made afresh from one of the nonces. *)
FreshCardKey(amount) == {p \in FromTab : p.amount = amount}

(* chargeInvoice's idempotency key: the invoice and what it owed. *)
CardKey(amount) == {p \in OnFile : p.amount = amount}

(* chargeInvoice up to the call: it reads the invoice and locks nothing. *)
ChargeInvoice(c) ==
  /\ status \in PAYABLE_STATUSES
  /\ ~Covered(counted)
  /\ \E p \in CardKey(Owing(counted)) : Start(c, p, "asking")
  /\ UNCHANGED <<invoice, row, reply, processor, faults>>

(* payPortalInvoice's: the form's nonce as well, so a fresh card is a fresh *)
(* attempt.                                                                *)
TabKey(amount) == {p \in FromTab : p.amount = amount}

(* Mutant: the portal reads the invoice without FOR UPDATE. *)
PortalUnlocked(t) ==
  /\ status \in PORTAL_PAYABLE
  /\ ~Covered(counted)
  /\ \E p \in TabKey(Owing(counted)) : Start(t, p, "asking")
  /\ UNCHANGED <<invoice, row, reply, processor, faults>>

(* payPortalInvoice up to the call, which takes the invoice's row. *)
PayPortalInvoice(t) ==
  /\ ~InvoiceLocked
  /\ status \in PORTAL_PAYABLE
  /\ ~Covered(counted)
  /\ \E p \in TabKey(Owing(counted)) : Start(t, p, "asking")
  /\ UNCHANGED <<invoice, row, reply, processor, faults>>

(* Square is asked, and its answer arrives. *)
AskSquare(a, answer) ==
  /\ pc[a] = "asking"
  /\ Charge(item[a], answer)
  /\ pc'    = [pc EXCEPT ![a] = "booking"]
  /\ reply' = [reply EXCEPT ![a] = answer]
  /\ UNCHANGED <<invoice, row, item, crossed, faults>>

(* Square is asked, and the answer is lost: the request ends in an error. *)
AnswerLost(a, answer) ==
  /\ pc[a] = "asking"
  /\ faults < MaxFaults
  /\ faults' = faults + 1
  /\ Charge(item[a], answer)
  /\ Done(a)
  /\ UNCHANGED <<invoice, row>>

(* Mutant: whatever Square did not decline is recorded as paid. *)
BookChargeAsPaid(c) ==
  /\ pc[c] = "booking"
  /\ ~InvoiceLocked
  /\ RecordPayment(item[c], IF reply[c] = "pending" THEN "succeeded" ELSE reply[c])
  /\ Done(c)
  /\ UNCHANGED <<processor, faults>>

(* chargeInvoice after the call: a decline is recorded like any answer. *)
BookCharge(c) ==
  /\ pc[c] = "booking"
  /\ ~InvoiceLocked
  /\ RecordPayment(item[c], reply[c])
  /\ Done(c)
  /\ UNCHANGED <<processor, faults>>

(* payPortalInvoice after the call, and its commit: nothing of a decline. *)
BookPortal(t) ==
  /\ pc[t] = "booking"
  /\ IF reply[t] = "failed" THEN UNCHANGED <<invoice, row>> ELSE RecordPayment(item[t], reply[t])
  /\ Done(t)
  /\ UNCHANGED <<processor, faults>>

(* Rows get an id of their own; the unique index is on the processor's.    *)
FreshSlip(amount) ==
  {p \in ByHand : p.amount = amount /\ row[p] = "none" /\ \A a \in Actors : item[a] # p}

(* settleCollectedPayment: what is owing is read, a draft is sent, and then *)
(* what was owing is recorded.                                             *)
CollectPayment(rep) ==
  /\ status # "void"
  /\ ~Covered(counted)
  /\ \E p \in FreshSlip(Owing(counted)) : Start(rep, p, "booking")
  /\ status' = IF status = "draft" THEN "sent" ELSE status
  /\ UNCHANGED <<late, counted, row, reply, processor, faults>>

BookCollected(rep) ==
  /\ pc[rep] = "booking"
  /\ ~InvoiceLocked
  /\ RecordPayment(item[rep], "succeeded")
  /\ Done(rep)
  /\ UNCHANGED <<processor, faults>>

(* POST /invoices/:id/payments: whatever amount the office types. *)
RecordByHand(p, as) ==
  /\ ~InvoiceLocked
  /\ p \in FreshSlip(p.amount)
  /\ status \in PAYABLE_STATUSES
  /\ RecordPayment(p, as)
  /\ UNCHANGED <<requests, processor, faults>>

-----------------------------------------------------------------------------
(* refundPayment of money no processor took. *)
RefundByHand(p) ==
  /\ p \in ByHand
  /\ row[p] = "succeeded"
  /\ ~InvoiceLocked
  /\ row' = [row EXCEPT ![p] = "refunded"]
  /\ RecomputeInvoiceTotals
  /\ UNCHANGED <<requests, processor, faults>>

(* refundPayment: the payment's row is locked, then Square is asked. *)
RefundPayment(r, p) ==
  /\ row[p] = "succeeded"
  /\ ~RowLocked(p)
  /\ Start(r, p, "asking")
  /\ UNCHANGED <<invoice, row, reply, processor, faults>>

(* Square gives the money back, and reports it like any other refund.      *)
RefundAtSquare(p) ==
  /\ square' = [square EXCEPT ![p] = "refunded"]
  /\ Emit([payment |-> p, status |-> "refunded"])
  /\ UNCHANGED original

(* Square refunds, or repeats that it has. *)
AskRefund(r) ==
  /\ pc[r] = "asking"
  /\ IF square[item[r]] = "completed" THEN RefundAtSquare(item[r]) ELSE UNCHANGED processor
  /\ pc' = [pc EXCEPT ![r] = "booking"]
  /\ UNCHANGED <<invoice, row, item, reply, crossed, faults>>

(* Square refunds and the answer is lost: the transaction rolls back. *)
RefundAnswerLost(r) ==
  /\ pc[r] = "asking"
  /\ square[item[r]] = "completed"
  /\ faults < MaxFaults
  /\ faults' = faults + 1
  /\ RefundAtSquare(item[r])
  /\ Done(r)
  /\ UNCHANGED <<invoice, row>>

(* Square will not refund what has been refunded from its dashboard. *)
RefundRefused(r) ==
  /\ pc[r] = "asking"
  /\ square[item[r]] = "refunded"
  /\ Done(r)
  /\ UNCHANGED <<invoice, row, processor, faults>>

(* Mutant: the refund is written without recomputing the invoice. *)
BookRefundOnly(r) ==
  /\ pc[r] = "booking"
  /\ ~InvoiceLocked
  /\ row' = [row EXCEPT ![item[r]] = "refunded"]
  /\ Done(r)
  /\ UNCHANGED <<invoice, processor, faults>>

(* refundPayment after the call, and its commit. *)
BookRefund(r) ==
  /\ pc[r] = "booking"
  /\ ~InvoiceLocked
  /\ row' = [row EXCEPT ![item[r]] = "refunded"]
  /\ RecomputeInvoiceTotals
  /\ Done(r)
  /\ UNCHANGED <<processor, faults>>

-----------------------------------------------------------------------------
(* Mutant: webhooks are taken at their word. *)
AnyTransition(from) == {"succeeded", "failed", "refunded"}

WEBHOOK_TRANSITIONS(from) ==
  CASE from = "pending"   -> {"succeeded", "failed"}
    [] from = "succeeded" -> {"refunded"}
    [] OTHER              -> {}

Moves(e) == row[e.payment] # e.status /\ e.status \in WEBHOOK_TRANSITIONS(row[e.payment])

(* A webhook for a payment never recorded, or with nothing to change: 200. *)
IgnoreEvent(e) ==
  /\ ~Moves(e)
  /\ unacked' = unacked \ {e}
  /\ UNCHANGED <<invoice, row, requests, square, original, emitted, faults>>

(* Mutant: Square's own word for the state is taken over untranslated. *)
ReadEventVerbatim(h, e) ==
  /\ Moves(e)
  /\ Start(h, e.payment, "booking")
  /\ reply' = [reply EXCEPT ![h] = square[e.payment]]
  /\ UNCHANGED <<invoice, row, processor, faults>>

(* reconcilePayment reads the payment, outside any transaction. *)
ReadEvent(h, e) ==
  /\ Moves(e)
  /\ Start(h, e.payment, "booking")
  /\ reply' = [reply EXCEPT ![h] = e.status]
  /\ UNCHANGED <<invoice, row, processor, faults>>

(* Its transaction: the update by id, whatever the row now says. *)
ReconcilePayment(h) ==
  /\ pc[h] = "booking"
  /\ ~RowLocked(item[h])
  /\ ~InvoiceLocked
  /\ row' = [row EXCEPT ![item[h]] = reply[h]]
  /\ RecomputeInvoiceTotals
  /\ unacked' = unacked \ {[payment |-> item[h], status |-> reply[h]]}
  /\ Done(h)
  /\ UNCHANGED <<square, original, emitted, faults>>

(* A request dies where it is; its transaction rolls back. *)
Crash(a) ==
  /\ pc[a] # "idle"
  /\ faults < MaxFaults
  /\ faults' = faults + 1
  /\ Done(a)
  /\ UNCHANGED <<invoice, row, processor>>

-----------------------------------------------------------------------------
ChargerStep(c) ==
  ChargeInvoice(c) \/ BookCharge(c) \/ \E answer \in ChargeAnswers : AskSquare(c, answer)

TabStep(t) ==
  BookPortal(t) \/ \E answer \in ChargeAnswers : AskSquare(t, answer)

Deliver(e) == IgnoreEvent(e) \/ \E h \in Handlers : ReadEvent(h, e)

Next ==
  \/ SendInvoice \/ VoidInvoice \/ MarkOverdue \/ DatePasses
  \/ \E c \in Chargers : ChargerStep(c)
  \/ \E t \in Tabs : PayPortalInvoice(t) \/ TabStep(t)
  \/ \E a \in Chargers \cup Tabs, answer \in ChargeAnswers : AnswerLost(a, answer)
  \/ \E rep \in Reps : CollectPayment(rep) \/ BookCollected(rep)
  \/ \E p \in ByHand : RefundByHand(p) \/ \E as \in ChargeAnswers : RecordByHand(p, as)
  \/ \E r \in Refunders : \/ \E p \in AtSquare : RefundPayment(r, p)
                          \/ AskRefund(r) \/ RefundAnswerLost(r) \/ RefundRefused(r)
                          \/ BookRefund(r)
  \/ \E p \in AtSquare : \/ \E outcome \in {"succeeded", "failed"} : Settle(p, outcome)
                         \/ DashboardRefund(p) \/ Repeat(p)
  \/ \E e \in emitted : Deliver(e)
  \/ \E h \in Handlers : ReconcilePayment(h)
  \/ \E a \in Actors : Crash(a)

Spec == Init /\ [][Next]_vars

(***************************************************************************)
(* The nightly job charges what is owing for ever, requests that have been *)
(* answered finish, and Square repeats an event until it is told 200.      *)
(***************************************************************************)
FairSpec ==
  /\ Spec
  /\ \A c \in Chargers : WF_vars(ChargerStep(c))
  /\ \A t \in Tabs : WF_vars(TabStep(t))
  /\ \A r \in Refunders : WF_vars(AskRefund(r) \/ RefundRefused(r) \/ BookRefund(r))
  /\ \A h \in Handlers : WF_vars(ReconcilePayment(h))
  /\ \A e \in Events : WF_vars(e \in unacked /\ Deliver(e))
-----------------------------------------------------------------------------
(* What the invoice says it was paid is what its payments add up to, and   *)
(* its status agrees: nothing is owing on a paid invoice, something is on  *)
(* a sent or an overdue one, and a draft has no payments.                  *)
BooksAgree ==
  /\ counted = Succeeded(row)
  /\ status = "paid" => Covered(counted)
  /\ status \in {"sent", "overdue"} => ~Covered(counted)
  /\ status = "draft" => counted = {}

(***************************************************************************)
(* Why the books agree, as an inductive invariant: nothing is recorded     *)
(* before the invoice is sent, a refund's row stays what it was when it    *)
(* was locked, and a webhook's row moves under it only if another webhook  *)
(* for the payment is handled at once.                                     *)
(***************************************************************************)
NothingBeforeSent == status = "draft" => \A p \in Payments : row[p] = "none"

RefundsHold ==
  /\ \A r \in Refunders : pc[r] # "idle" => row[item[r]] = "succeeded"
  /\ \A q, r \in Refunders : pc[q] # "idle" /\ item[q] = item[r] => q = r

HandlersHold ==
  \A h \in Handlers : pc[h] # "idle" =>
    /\ row[item[h]] # "none"
    /\ reply[h] \in {"succeeded", "failed", "refunded"}
    /\ reply[h] = "refunded" => row[item[h]] # "pending"
    /\ item[h] \notin crossed =>
         /\ \/ reply[h] \in WEBHOOK_TRANSITIONS(row[item[h]])
            \/ reply[h] = "refunded" /\ row[item[h]] = "refunded"
         /\ \A g \in Handlers : item[g] = item[h] => g = h

BooksInv == BooksAgree /\ NothingBeforeSent /\ RefundsHold /\ HandlersHold

(* What Square has done about a payment bears a status out. *)
Backs(p, as) ==
  /\ as = "succeeded" => square[p] \in {"completed", "refunded"}
  /\ as = "refunded"  => square[p] = "refunded"
  /\ as = "failed"    => square[p] = "failed"

(* The books never run ahead of Square: money counted has moved there, and *)
(* what the books call failed or refunded did not stay with the company.   *)
BooksFollowSquare == \A p \in AtSquare : Backs(p, row[p])

(***************************************************************************)
(* Why, as an inductive invariant: Square bears out its answers and its    *)
(* events, and every request has what it will write from one of those.     *)
(***************************************************************************)
AnswersTrue ==
  \A p \in AtSquare : Backs(p, original[p]) /\ (original[p] = "none" <=> square[p] = "none")

EventsTrue == \A e \in emitted : Backs(e.payment, e.status)

RequestTrue(a) ==
  /\ a \in Chargers \cup Tabs /\ pc[a] # "idle"  => item[a] \in AtSquare
  /\ a \in Chargers \cup Tabs /\ pc[a] = "booking" =>
       reply[a] \in ChargeAnswers /\ reply[a] = original[item[a]]
  /\ a \in Reps => item[a] \in ByHand \cup {NoPayment}
  /\ a \in Refunders /\ pc[a] = "booking" => square[item[a]] = "refunded"
  /\ a \in Handlers /\ pc[a] # "idle" => [payment |-> item[a], status |-> reply[a]] \in emitted

RequestsTrue == \A a \in Actors : RequestTrue(a)

SquareInv == BooksFollowSquare /\ AnswersTrue /\ EventsTrue /\ RequestsTrue

(* No late or repeated webhook counts money again that the customer has    *)
(* back, unless two webhooks for that payment were handled at once.        *)
RefundStands ==
  [][\A p \in Payments \ crossed : row[p] = "refunded" => row'[p] = "refunded"]_vars

(* What the customer's cards have been charged and not been given back. *)
Taken == Total({p \in AtSquare : square[p] \in {"pending", "completed"}})

(* However many runs charge the card on file, and however they die, the    *)
(* customer is charged for the bill once, where nothing else pays it.      *)
OnlyTheCard == Tabs = {} /\ Reps = {} /\ Slips = {}
ChargedOnce == OnlyTheCard => Taken <= Due

(* Why, as an inductive invariant: no request ever asks for anything but   *)
(* the whole bill, under the one key that stands for it.                   *)
WholeBill == [via |-> "card", amount |-> Due, token |-> "saved"]

CardInv ==
  OnlyTheCard =>
    /\ \A a \in Actors : item[a] \in {WholeBill, NoPayment}
    /\ \A p \in AtSquare : square[p] # "none" => p = WholeBill
    /\ \A p \in Payments : row[p] # "none" => p = WholeBill

(* And the charge is booked in the end: the next run asks Square with the  *)
(* same key, and records the answer that an earlier run lost.              *)
EveryChargeBooked ==
  \A p \in AtSquare :
    square[p] = "completed" ~>
      (row[p] \in {"succeeded", "refunded"} \/ status = "void" \/ square[p] = "refunded")

(* Two tabs pay a bill once, where nobody else charges it and every answer *)
(* arrives and is final.                                                   *)
OnlyTheTabs == Chargers = {} /\ Reps = {} /\ Slips = {}
TabsPayOnce == OnlyTheTabs /\ "pending" \notin Answers /\ MaxFaults = 0 => Taken <= Due

(***************************************************************************)
(* Why, as an inductive invariant: one tab at a time holds the invoice,    *)
(* while nothing has been paid; it asks for the whole bill; and what       *)
(* Square has taken is on the books, unless the tab is about to put it     *)
(* there.                                                                  *)
(***************************************************************************)
Booking(p) == \E t \in Tabs : pc[t] = "booking" /\ item[t] = p

TabsInv ==
  OnlyTheTabs /\ "pending" \notin Answers /\ MaxFaults = 0 =>
    /\ \A s, t \in Tabs : pc[s] # "idle" /\ pc[t] # "idle" => s = t
    /\ InvoiceLocked => counted = {} /\ status \in PORTAL_PAYABLE
    /\ \A a \in Actors : pc[a] # "idle" => item[a].amount = Due
    /\ \A p \in AtSquare :
         /\ original[p] # "pending" /\ square[p] # "pending"
         /\ square[p] = "completed" => p.amount = Due /\ (row[p] = "succeeded" \/ Booking(p))
    /\ \A p \in Payments :
         /\ row[p] \in {"none", "succeeded", "refunded"}
         /\ row[p] # "none" => p.amount = Due
    /\ \A p, q \in counted : p = q

(* A void invoice holds no money, but for a payment that had yet to settle *)
(* when the invoice was voided.                                            *)
VoidHoldsNoMoney ==
  status = "void" => \A p \in counted : p \in AtSquare /\ original[p] = "pending"

(* Why, as an inductive invariant: a row that is pending was answered so,  *)
(* and only a webhook for such a row brings money to a void invoice.       *)
LateMoney(p) == p \in AtSquare /\ original[p] = "pending"

LateInv ==
  /\ \A p \in AtSquare : row[p] = "pending" => LateMoney(p)
  /\ \A h \in Handlers : pc[h] # "idle" /\ reply[h] = "succeeded" => LateMoney(item[h])
  /\ status = "void" => \A p \in Payments : row[p] = "succeeded" => LateMoney(p)

(***************************************************************************)
(* The abstract bill.  The payments of which it promises less are those    *)
(* two webhooks have been handled for at once.                             *)
(***************************************************************************)
BillState ==
  CASE status = "draft" -> "unsent"
    [] status = "void"  -> "void"
    [] status = "paid"  -> "settled"
    [] OTHER            -> "owing"

B == INSTANCE Bill WITH
       state <- BillState, paidBy <- counted, returned <- {p \in Payments : row[p] = "refunded"},
       disputed <- crossed
ImplementsBill == B!Spec
-----------------------------------------------------------------------------
(* payments.ts: "Refunded is final". *)
RefundedIsFinal ==
  [][\A p \in Payments : row[p] = "refunded" => row'[p] = "refunded"]_vars

(* portal.ts: "two tabs - or a double tap - cannot both pay it". *)
TabsCannotBothPay == Total({p \in AtSquare : square[p] = "completed"}) <= Due
=============================================================================
