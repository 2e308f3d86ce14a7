------------------------------ MODULE Billing ------------------------------
(***************************************************************************)
(* The bills of a branch's contracts and the credit of its customers:      *)
(* jobs/billing.ts, services/invoices.ts, services/credits.ts, and what    *)
(* services/contracts.ts bills at signature.                               *)
(*                                                                         *)
(* The nightly run goes contract by contract: it reads which periods are   *)
(* billed, raises the others one transaction each, and sends what it       *)
(* raised, again one transaction each.  Nothing it throws is caught, so a  *)
(* step that fails ends the run.  Two runs may meet: a scheduled one and   *)
(* one from the command line.                                              *)
(*                                                                         *)
(* Raising a bill inserts it, which holds the customer's row against an    *)
(* exclusive lock (the foreign key), and then takes that lock to spend the *)
(* customer's credit: two runs can each hold what the other wants.         *)
(*                                                                         *)
(* How much of a bill is paid, and by whom, is module Payments.            *)
(***************************************************************************)
EXTENDS Naturals, Integers, FiniteSets, FiniteSetsExt

CONSTANTS
  Contracts,    \* all contracts, signed or not yet
  Customers,
  OwnerOf,      \* contracts.customer_id
  ReferrerOf,   \* quotes.referred_by_customer_id, or Nobody
  Agreements,   \* contracts on a billing plan, billed from their schedule
  Upfront,      \* other contracts billed for the whole season at signature
  Nobody,
  Runs,         \* executions of runBilling
  Months,       \* Bound: billing periods
  Tries,        \* Bound: bills for one period of one contract
  Price,        \* what a period comes to
  Reward,       \* what the referrer earns for it
  MaxFaults,    \* Bound: processes that die
  MaxMoves      \* Bound: what the office does

Periods == 1..Months
Bills   == Contracts \X Periods \X (1..Tries)
NoBill  == <<>>

ASSUME BillingAssumption ==
  /\ IsFiniteSet(Contracts)
  /\ OwnerOf \in [Contracts -> Customers]
  /\ ReferrerOf \in [Contracts -> Customers \cup {Nobody}]
  /\ Nobody \notin Customers
  /\ Agreements \subseteq Contracts
  /\ Upfront \subseteq Contracts \ Agreements
  /\ Months \in Nat /\ Tries \in Nat \ {0} /\ Price \in Nat \ {0} /\ Reward \in Nat /\ MaxFaults \in Nat /\ MaxMoves \in Nat

VARIABLES
  today,     \* the period that has started last
  since,     \* the period a contract was signed in
  live,      \* active contracts
  status,    \* invoices.status; "none" before the row exists, "gone" once deleted
  applied,   \* credit spent on each bill: the customer_credits row of kind applied
  earned,    \* bills that have earned their referral
  lost,      \* what deleting bills has taken out of each customer's ledger
  pc,        \* where each run is
  todo,      \* contracts it has still to bill
  entries,   \* periods of the contract in hand it has still to raise
  at,        \* the contract in hand
  bill,      \* the bill its transaction has inserted
  credit,    \* the balance it read under the customer's lock
  raised,    \* drafts it has to send
  faults,
  moves      \* of the office so far

books == <<status, applied, earned, lost>>
deals == <<today, since, live>>
run   == <<pc, todo, entries, at, bill, credit, raised>>
vars  == <<deals, books, run, faults, moves>>

BillingTypeOK ==
  /\ today   \in 0..Months
  /\ since   \in [Contracts -> 0..Months]
  /\ live    \subseteq Contracts
  /\ status  \in [Bills -> {"none", "draft", "sent", "overdue", "paid", "void", "gone"}]
  /\ applied \in [Bills -> 0..Price]
  /\ earned  \subseteq Bills
  /\ lost    \in [Customers -> Nat]
  /\ pc      \in [Runs -> {"idle", "contracts", "raising", "inserted", "crediting", "sending"}]
  /\ todo    \in [Runs -> SUBSET Contracts]
  /\ entries \in [Runs -> SUBSET Periods]
  /\ at      \in [Runs -> Contracts \cup {Nobody}]
  /\ bill    \in [Runs -> Bills \cup {NoBill}]
  /\ credit  \in [Runs -> Int]
  /\ raised  \in [Runs -> SUBSET Bills]
  /\ faults  \in Nat
  /\ moves   \in Nat

Init ==
  /\ today   = 0
  /\ since   = [c \in Contracts |-> 0]
  /\ live    = {}
  /\ status  = [b \in Bills |-> "none"]
  /\ applied = [b \in Bills |-> 0]
  /\ earned  = {}
  /\ lost    = [c \in Customers |-> 0]
  /\ pc      = [r \in Runs |-> "idle"]
  /\ todo    = [r \in Runs |-> {}]
  /\ entries = [r \in Runs |-> {}]
  /\ at      = [r \in Runs |-> Nobody]
  /\ bill    = [r \in Runs |-> NoBill]
  /\ credit  = [r \in Runs |-> 0]
  /\ raised  = [r \in Runs |-> {}]
  /\ faults  = 0
  /\ moves   = 0

-----------------------------------------------------------------------------
PayerOf(b) == OwnerOf[b[1]]
Exists(b)  == status[b] \notin {"none", "gone"}

(* invoices_contract_period_unique: one bill that is not void a period. *)
Billed(c, p) == \E b \in Bills : b[1] = c /\ b[2] = p /\ Exists(b) /\ status[b] # "void"

(* paymentSchedule and billingPeriods: what has fallen due by now. *)
DueNow(c) == {p \in Periods : since[c] > 0 /\ since[c] <= p /\ p <= (IF c \in Upfront THEN since[c] ELSE today)}

(* The row a bill gets: a fresh one. *)
FreshBill(c, p, b) ==
  /\ b \in Bills /\ b[1] = c /\ b[2] = p
  /\ status[b] = "none"
  /\ \A k \in 1..(b[3] - 1) : status[<<c, p, k>>] # "none"

(* Nothing left to raise, or, by the bound, nothing to raise it with. *)
Closed(c, p) == Billed(c, p) \/ ~\E b \in Bills : FreshBill(c, p, b)

(* creditBalance: the sum of the customer's ledger. *)
Earnings(c)      == Reward * Cardinality({b \in earned : ReferrerOf[b[1]] = c})
Spendings(c)     == MapThenSumSet(LAMBDA b : applied[b], {b \in Bills : PayerOf(b) = c})
CreditBalance(c) == Earnings(c) - Spendings(c)

(* earnReferralCredit, once a bill: on conflict, nothing. *)
EarnReferral(b) == IF ReferrerOf[b[1]] # Nobody /\ b[1] \in Agreements THEN earned \cup {b} ELSE earned

Late(b) == b[2] < today

-----------------------------------------------------------------------------
(* Locks.  An insert holds the customer's row against FOR UPDATE; a credit *)
(* being spent holds it alone; an inserted bill holds its period.          *)
Inserting == {r \in Runs : pc[r] \in {"inserted", "crediting"}}
Waits(r) ==
  CASE pc[r] = "raising" /\ entries[r] # {} /\ at[r] \in Agreements ->
         {s \in Inserting \ {r} : \/ pc[s] = "crediting" /\ PayerOf(bill[s]) = OwnerOf[at[r]]
                                  \/ bill[s][1] = at[r] /\ bill[s][2] = Min(entries[r])}
    [] pc[r] = "inserted" -> {s \in Inserting \ {r} : PayerOf(bill[s]) = PayerOf(bill[r])}
    [] OTHER -> {}

Ends(r) ==
  /\ pc'      = [pc EXCEPT ![r] = "idle"]
  /\ todo'    = [todo EXCEPT ![r] = {}]
  /\ entries' = [entries EXCEPT ![r] = {}]
  /\ at'      = [at EXCEPT ![r] = Nobody]
  /\ bill'    = [bill EXCEPT ![r] = NoBill]
  /\ credit'  = [credit EXCEPT ![r] = 0]
  /\ raised'  = [raised EXCEPT ![r] = {}]

Goes(r, to) == pc' = [pc EXCEPT ![r] = to]

(* runBilling: the contracts that are live as it starts. *)
StartRun(r) ==
  /\ pc[r] = "idle"
  /\ Goes(r, "contracts")
  /\ todo' = [todo EXCEPT ![r] = live]
  /\ UNCHANGED <<deals, books, entries, at, bill, credit, raised, faults, moves>>

(* Mutant: a period is billed once the next one has started. *)
ToRaiseLate(c) == IF c \in live THEN {p \in DueNow(c) : ~Closed(c, p) /\ p < today} ELSE {}

(* generateInvoicesForContract: what is due, and which of it is billed. *)
ToRaise(c) == IF c \in live THEN {p \in DueNow(c) : ~Closed(c, p)} ELSE {}

TakeContract(r, c) ==
  /\ pc[r] = "contracts"
  /\ c \in todo[r]
  /\ todo' = [todo EXCEPT ![r] = @ \ {c}]
  /\ IF ToRaise(c) = {}
       THEN UNCHANGED <<pc, at, entries>>
       ELSE /\ Goes(r, "raising")
            /\ at'      = [at EXCEPT ![r] = c]
            /\ entries' = [entries EXCEPT ![r] = ToRaise(c)]
  /\ UNCHANGED <<deals, books, bill, credit, raised, faults, moves>>

(* Another run, or the office, got there first: the index refuses.         *)
SkipPeriod(r) ==
  /\ pc[r] = "raising"
  /\ entries[r] # {}
  /\ Waits(r) = {}
  /\ Closed(at[r], Min(entries[r]))
  /\ entries' = [entries EXCEPT ![r] = @ \ {Min(@)}]
  /\ UNCHANGED <<deals, books, pc, todo, at, bill, credit, raised, faults, moves>>

(* A contract without a plan: one statement raises the draft. *)
RaisePlain(r) ==
  /\ pc[r] = "raising"
  /\ entries[r] # {}
  /\ at[r] \notin Agreements
  /\ ~Closed(at[r], Min(entries[r]))
  /\ \E b \in Bills :
       /\ FreshBill(at[r], Min(entries[r]), b)
       /\ status' = [status EXCEPT ![b] = "draft"]
       /\ raised' = [raised EXCEPT ![r] = @ \cup {b}]
  /\ entries' = [entries EXCEPT ![r] = @ \ {Min(@)}]
  /\ UNCHANGED <<deals, applied, earned, lost, pc, todo, at, bill, credit, faults, moves>>

(* Mutant: the period is not looked at again when the bill is inserted. *)
InsertAnyway(r) ==
  /\ pc[r] = "raising"
  /\ entries[r] # {}
  /\ at[r] \in Agreements
  /\ \E b \in Bills : FreshBill(at[r], Min(entries[r]), b) /\ bill' = [bill EXCEPT ![r] = b]
  /\ entries' = [entries EXCEPT ![r] = @ \ {Min(@)}]
  /\ Goes(r, "inserted")
  /\ UNCHANGED <<deals, books, todo, at, credit, raised, faults, moves>>

(* raiseScheduledInvoices: the insert, not yet committed. *)
InsertBill(r) ==
  /\ pc[r] = "raising"
  /\ entries[r] # {}
  /\ at[r] \in Agreements
  /\ Waits(r) = {}
  /\ ~Closed(at[r], Min(entries[r]))
  /\ \E b \in Bills : FreshBill(at[r], Min(entries[r]), b) /\ bill' = [bill EXCEPT ![r] = b]
  /\ entries' = [entries EXCEPT ![r] = @ \ {Min(@)}]
  /\ Goes(r, "inserted")
  /\ UNCHANGED <<deals, books, todo, at, credit, raised, faults, moves>>

(* Mutant: the balance is read without the customer's row. *)
ReadCreditUnlocked(r) ==
  /\ pc[r] = "inserted"
  /\ Goes(r, "crediting")
  /\ credit' = [credit EXCEPT ![r] = CreditBalance(PayerOf(bill[r]))]
  /\ UNCHANGED <<deals, books, todo, entries, at, bill, raised, faults, moves>>

(* applyCredit: the customer's row, and then the balance. *)
ReadCredit(r) ==
  /\ pc[r] = "inserted"
  /\ Waits(r) = {}
  /\ Goes(r, "crediting")
  /\ credit' = [credit EXCEPT ![r] = CreditBalance(PayerOf(bill[r]))]
  /\ UNCHANGED <<deals, books, todo, entries, at, bill, raised, faults, moves>>

(* Mutant: all the credit there is, whatever the bill comes to. *)
AppliedAll(balance) == IF balance <= 0 THEN 0 ELSE balance

Applied(balance) == IF balance <= 0 THEN 0 ELSE Min({balance, Price})

(* Mutant: a bill that credit covers earns its referrer nothing. *)
RaiseWithoutReferral(b, used) ==
  /\ applied' = [applied EXCEPT ![b] = used]
  /\ status'  = [status EXCEPT ![b] = IF used = Price THEN "paid" ELSE "draft"]
  /\ UNCHANGED earned

(* What raising b with so much credit leaves: paid if that covers it.      *)
Raise(b, used) ==
  /\ applied' = [applied EXCEPT ![b] = used]
  /\ status'  = [status EXCEPT ![b] = IF used = Price THEN "paid" ELSE "draft"]
  /\ earned'  = IF used = Price THEN EarnReferral(b) ELSE earned

CommitBill(r) ==
  /\ pc[r] = "crediting"
  /\ Raise(bill[r], Applied(credit[r]))
  /\ raised' = [raised EXCEPT ![r] = IF Applied(credit[r]) = Price THEN @ ELSE @ \cup {bill[r]}]
  /\ bill'   = [bill EXCEPT ![r] = NoBill]
  /\ credit' = [credit EXCEPT ![r] = 0]
  /\ Goes(r, "raising")
  /\ UNCHANGED <<deals, lost, todo, entries, at, faults, moves>>

ContractRaised(r) ==
  /\ pc[r] = "raising"
  /\ entries[r] = {}
  /\ Goes(r, IF raised[r] = {} THEN "contracts" ELSE "sending")
  /\ at' = [at EXCEPT ![r] = Nobody]
  /\ UNCHANGED <<deals, books, todo, entries, bill, credit, raised, faults, moves>>

(* sendInvoice of each draft raised.  One that is no longer a draft makes  *)
(* it throw, and the run ends there.                                       *)
SendRaised(r, b) ==
  /\ pc[r] = "sending"
  /\ b \in raised[r]
  /\ IF status[b] = "draft"
       THEN /\ status' = [status EXCEPT ![b] = "sent"]
            /\ raised' = [raised EXCEPT ![r] = @ \ {b}]
            /\ Goes(r, IF raised[r] = {b} THEN "contracts" ELSE "sending")
            /\ UNCHANGED <<todo, entries, at, bill, credit>>
       ELSE Ends(r) /\ UNCHANGED status
  /\ UNCHANGED <<deals, applied, earned, lost, faults, moves>>

(* markOverdue, once the cards are charged: one UPDATE.                    *)
MarkOverdue(r) ==
  /\ pc[r] = "contracts"
  /\ todo[r] = {}
  /\ status' = [b \in Bills |-> IF status[b] = "sent" /\ Late(b) THEN "overdue" ELSE status[b]]
  /\ Ends(r)
  /\ UNCHANGED <<deals, applied, earned, lost, faults, moves>>

(* Two runs wait for each other: the database ends one, and it throws.     *)
Abort(r) ==
  /\ \E s \in Waits(r) : r \in Waits(s)
  /\ Ends(r)
  /\ UNCHANGED <<deals, books, faults, moves>>

(* The process stops; what its transaction did is undone. *)
Die(r) ==
  /\ pc[r] # "idle"
  /\ faults < MaxFaults
  /\ faults' = faults + 1
  /\ Ends(r)
  /\ UNCHANGED <<deals, books, moves>>

-----------------------------------------------------------------------------
(* The office, the customer and the calendar.  Each is one transaction,    *)
(* which waits for a run that is spending the same customer's credit.      *)
Moved == moves < MaxMoves /\ moves' = moves + 1

CustomerFree(c) == \A r \in Inserting : PayerOf(bill[r]) # c

(* createContract: an agreement's first payment is raised, with the credit *)
(* there is, and sent; the whole season of an upfront one is raised only.  *)
SignContract(c) ==
  /\ since[c] = 0
  /\ today \in Periods
  /\ CustomerFree(OwnerOf[c])
  /\ since' = [since EXCEPT ![c] = today]
  /\ live'  = live \cup {c}
  /\ LET b    == <<c, today, 1>>
         used == IF c \in Agreements THEN Applied(CreditBalance(OwnerOf[c])) ELSE 0
     IN  IF c \in Agreements \cup Upfront
           THEN /\ applied' = [applied EXCEPT ![b] = used]
                /\ status'  = [status EXCEPT ![b] = CASE used = Price -> "paid"
                                                      [] c \in Upfront -> "draft"
                                                      [] OTHER -> "sent"]
                /\ earned'  = IF used = Price THEN EarnReferral(b) ELSE earned
                /\ UNCHANGED lost
           ELSE UNCHANGED books
  /\ UNCHANGED <<today, run, faults, moves>>

EndContract(c) ==
  /\ c \in live
  /\ live' = live \ {c}
  /\ Moved
  /\ UNCHANGED <<today, since, books, run, faults>>

(* createInvoice, of a contract that may have ended. *)
CreateInvoice(c, p) ==
  /\ since[c] > 0
  /\ ~Billed(c, p)
  /\ CustomerFree(OwnerOf[c])
  /\ \E b \in Bills : FreshBill(c, p, b) /\ status' = [status EXCEPT ![b] = "draft"]
  /\ Moved
  /\ UNCHANGED <<deals, applied, earned, lost, run, faults>>

(* sendInvoice and emailInvoice of a draft. *)
EmailInvoice(b) ==
  /\ status[b] = "draft"
  /\ status' = [status EXCEPT ![b] = "sent"]
  /\ Moved
  /\ UNCHANGED <<deals, applied, earned, lost, run, faults>>

(* voidInvoice: nothing is paid; what credit was spent stays spent.        *)
VoidInvoice(b) ==
  /\ status[b] \in {"draft", "sent", "overdue"}
  /\ status' = [status EXCEPT ![b] = "void"]
  /\ Moved
  /\ UNCHANGED <<deals, applied, earned, lost, run, faults>>

(* Mutant: deleting a bill leaves what it earned. *)
DeleteRowOnly(b) ==
  /\ Exists(b)
  /\ status'  = [status EXCEPT ![b] = "gone"]
  /\ Moved
  /\ UNCHANGED <<deals, applied, earned, lost, run, faults>>

(* deleteInvoice: the credits that name it go with it. *)
DeleteInvoice(b) ==
  /\ Exists(b)
  /\ status'  = [status EXCEPT ![b] = "gone"]
  /\ applied' = [applied EXCEPT ![b] = 0]
  /\ earned'  = earned \ {b}
  /\ lost'    = IF b \in earned THEN [lost EXCEPT ![ReferrerOf[b[1]]] = @ + Reward] ELSE lost
  /\ Moved
  /\ UNCHANGED <<deals, run, faults>>

(* A payment that covers what is owing: recomputeInvoiceTotals. *)
PaidUp(b) ==
  /\ status[b] \in {"sent", "overdue"}
  /\ status' = [status EXCEPT ![b] = "paid"]
  /\ earned' = EarnReferral(b)
  /\ UNCHANGED <<deals, applied, lost, run, faults, moves>>

(* A refund that uncovers it. *)
Uncovered(b) ==
  /\ status[b] = "paid"
  /\ applied[b] < Price
  /\ status' = [status EXCEPT ![b] = IF Late(b) THEN "overdue" ELSE "sent"]
  /\ Moved
  /\ UNCHANGED <<deals, applied, earned, lost, run, faults>>

NextPeriod ==
  /\ today < Months
  /\ today' = today + 1
  /\ UNCHANGED <<since, live, books, run, faults, moves>>

-----------------------------------------------------------------------------
Work(r) ==
  \/ \E c \in Contracts : TakeContract(r, c)
  \/ SkipPeriod(r) \/ RaisePlain(r) \/ InsertBill(r) \/ ReadCredit(r) \/ CommitBill(r) \/ ContractRaised(r)
  \/ \E b \in Bills : SendRaised(r, b)
  \/ MarkOverdue(r)

Office ==
  \/ \E c \in Contracts : SignContract(c) \/ EndContract(c) \/ \E p \in Periods : CreateInvoice(c, p)
  \/ \E b \in Bills : EmailInvoice(b) \/ VoidInvoice(b) \/ DeleteInvoice(b) \/ PaidUp(b) \/ Uncovered(b)

Next ==
  \/ \E r \in Runs : StartRun(r) \/ Work(r) \/ Abort(r) \/ Die(r)
  \/ Office
  \/ NextPeriod

Spec == Init /\ [][Next]_vars

(* The job starts every night, a step that can be taken is, a run that     *)
(* waits for a row gets it when the other lets go, and a deadlock is ended. *)
GoesOn(r) == StartRun(r) \/ Work(r)
DeadlockEnds == \E r \in Runs : Abort(r)

FairSpec ==
  /\ Spec
  /\ \A r \in Runs : WF_vars(GoesOn(r)) /\ SF_vars(ReadCredit(r))
  /\ WF_vars(DeadlockEnds)

-----------------------------------------------------------------------------
(* A period of a contract is billed once, whatever runs and offices raise  *)
(* at the same time (invoices.ts: "Safe to call repeatedly").              *)
BilledOnce ==
  \A a, b \in Bills :
    Exists(a) /\ Exists(b) /\ "void" \notin {status[a], status[b]} /\ a[1] = b[1] /\ a[2] = b[2] => a = b

(* Credit is not spent twice: but for what deleting a paid bill takes out *)
(* of the ledger again, it never runs below nothing (credits.ts: "two      *)
(* invoices raised at once cannot both spend the same credit").            *)
NoOverdraft == \A c \in Customers : CreditBalance(c) + lost[c] >= 0

(* A referred customer's bill earns its referrer the credit however it is  *)
(* paid, and the ledger speaks of bills that exist.                        *)
ReferralsPaid ==
  \A b \in Bills :
    /\ status[b] = "paid" /\ b[1] \in Agreements /\ ReferrerOf[b[1]] # Nobody => b \in earned
    /\ b \in earned \/ applied[b] > 0 => Exists(b)

(* Every period of a live contract is billed in the end, by a later run if *)
(* this one dies or is aborted (billing.ts).                               *)
Owed == {cp \in live \X Periods : cp[2] \in DueNow(cp[1]) /\ \A b \in Bills : b[1] = cp[1] /\ b[2] = cp[2] => status[b] = "none"}
EveryPeriodBilled == Owed # {} ~> Owed = {}

(* server.ts: "a deploy cannot cut a billing run in half"; billing.ts:     *)
(* "Raise and send any invoice a live contract owes by today".  Whatever a *)
(* run raises is sent.                                                     *)
RaisedIsSent ==
  \A r \in Runs, b \in Bills : pc[r] = "sending" /\ b \in raised[r] ~> status[b] # "draft"
=============================================================================
