# Specifications of the CRM

TLA+ models of the parts of this system where steps of several actors meet, or
where a long series of legal calls has to add up: the outbound message queue,
the money that reaches a bill and the bills themselves, the way from a quote to
a signed contract, the compliance of operators, visits, what is sent to
customers and leads, accounts and deletion, the console in the browser, and the
process that runs it all. TLC checks them on small instances; the TLA+ proof
system proves every safety property the runs check, for every value of the
constants. `PROJECT.json` maps each definition to the lines it
translates and lists the runs, the findings, the hazards and the theorems.

    tlc -config MessageQueue_lease.cfg MCMessageQueue     # any run: module and cfg as below
    tlapm PaymentsProofs.tla                              # any of the *Proofs modules

## 1. The system

One Express API over PostgreSQL (through knex), a React client, and six jobs
started by a scheduler in the web process, in a worker or from cron. There is
no in-process shared state worth the name: everything concurrent meets in the
database, at READ COMMITTED, so the questions are which queries share a
transaction, which rows they lock, and what is read before a call to somebody
else (Square, SMTP, Twilio, Meta, Open-Meteo) and used after it.

| Component | State it keeps | Operations | What makes it correct | Module |
| --- | --- | --- | --- | --- |
| Outbound queue (`services/messages.ts`, `jobs/messageQueue.ts`) | `message_log` rows: status, attempts, last attempt, send_after | enqueue, claim a batch under a lease, send, record, withdraw | one holder per row, sent is final, attempts bounded and counted, nothing lost | `MessageQueue` |
| Payments (`services/payments.ts`, `portal.ts`, `squareGateway.ts`, `routes/webhooks.ts`) | `payments` rows, Square's own state | charge the card on file, pay from the portal, record, refund, reconcile a webhook | charged once, booked in the end, books agree with payments and do not run ahead of Square | `Payments` |
| Invoices and credits (`services/invoices.ts`, `credits.ts`, `jobs/billing.ts`) | a bill's status and period, the ledger of credits | the nightly run, raise, send, mark overdue, void; earn and spend credit | one bill per period, every period billed in the end, credit spent once, a referral earned once | `Billing` |
| The schedule of payments (`types/serviceAgreement.ts`, `services/invoices.ts`) | terms, and the bills raised so far | price, schedule, raise what is due | a season's bills add up to what was agreed | `Schedule` |
| Quotes, signing, contracts, agreements, cards (`quotes.ts`, `signing.ts`, `contracts.ts`, `serviceAgreements.ts`, `cards.ts`) | quote and contract status, links, checklist, card | present, send, sign, change, cancel, save a card | one contract per quote, what was signed stands, card and checklist are one fact | `Deal` |
| Compliance (`operators.ts`, `jobs/documentExpiry.ts`) | documents, `users.onboarding_status` | submit, review, refresh, suspend, remind | nobody approved who was never complete, a lapse suspends, a warning once | `Compliance` |
| Work orders (`workOrders.ts`) | visit status, photos, assignee | book, hand over, move on, photograph, complete, delete | no completion without photos, frozen after it, only its operator works it | `Visits` |
| Weather (`weather.ts`) | alert runs | the evening's check | a customer told, and told once | `Weather` |
| Cold email (`coldEmail.ts`) | leads and their step | opt in, drip, unsubscribe, stop | each step once and in order, silence after unsubscribing | `Drip` |
| Reviews (`reviews.ts`) | review requests | the run, the answer, the alert | asked sparingly, one answer | `Reviews` |
| Meta messages (`metaMessaging.ts`) | conversations, messages | store from webhook, reply, send queued | stored once, the window never pulled back | `Inbox` |
| Scheduler and process (`jobs/scheduler.ts`, `server.ts`) | jobs in flight | tick, drain, exit | no job over itself, a clean exit leaves none half done | `Process` |
| Deletion (`deletion.ts`, `db/migrations`) | every table and its foreign keys | nine deletions, one transaction each | history stays, nobody else's rows go, no deal left stranded | `Records` |
| Accounts (`middleware/auth.ts`, `services/auth.ts`, `branchSignIn.ts`, `routes/users.ts`, `routes/branches.ts`) | accounts, sessions | sign in, let a request in, change and delete accounts | a request acts for the account as it is; one corporate account stays | `Access`, over `Routes` |
| Routes (`routes/*.ts`) | none | the guards of every operation | each role on its side of the business | `Routes` |
| The console (`client/src`) | a tab's session, screen, loads, form | sign in, navigate, load, submit | shows what was asked for, acts on what it shows, adds once | `Tab`, over `Screens` and `Routes` |

Section 5 and `PROJECT.json` name what is left out: leads map, sending itself,
rate limits, monthly close, reports, uploads, PDF, integrations, migrations.

How they interact: everything that tells somebody something calls
`enqueueMessage`, usually inside the caller's transaction, and only the queue
talks to the providers. Signing raises the first invoice; billing raises,
sends and charges the rest; a recorded payment recomputes its invoice, which
may earn a referral credit. Dispatch asks `assertOperatorAssignable`, which
reads the status that reviews and the nightly sweep write. A completed visit
queues its notices and becomes a candidate for a review request. The models
meet at these points: `Billing` has `PaidUp` and `Uncovered` where `Payments`
has the payments, `Deal` leaves bills to `Billing`, `Drip` and `Inbox` see the
queue's worker as the two steps that matter to them, `Visits` sees
`Compliance` as operators who become fit and unfit at any time.

What is hard: workers whose lease runs out; a process that dies between
charging and recording; webhooks that overtake, repeat and overlap; two tabs;
two billing runs that wait for each other's rows; links sent and signed at
once; checks made outside the transaction that acts on them; nightly jobs made
of many small transactions, cut short by a deployment; late answers to a page
that has moved on. `PROJECT.json` lists each at its line with the property that
covers it, or why none does.

## 2. Modules

| Module | What it is |
| --- | --- |
| `MessageQueue`, `Outbox`, `MessageQueueProofs` | the queue, what it promises and implements; both proved |
| `Payments`, `Bill`, `PaymentsProofs` | one invoice and all that can pay it, what an invoice promises; both proved |
| `Compliance`, `ComplianceProofs` | documents, status, the nightly sweep; its invariants proved |
| `Deal`, `Offer`, `DealProofs` | from quote to contract, what signing promises and `Deal` implements; both proved |
| `Billing`, `BillingProofs` | bills and credit, night by night; its invariants proved |
| `Schedule` | what an agreement costs and when |
| `Visits`, `Reviews`, `Weather`, `Drip`, `Inbox` | the crews' visits, and what customers and leads are told |
| `Records` | the tables, their foreign keys, and what a deletion takes |
| `Routes`, `Access`, `AccessProofs` | who may ask for what; accounts, sessions, requests; its invariants proved |
| `Screens`, `Tab` | what each screen loads and offers; one browser tab |
| `Process` | the process that runs the jobs, and its end |
| `Day`, `DayProofs` | a day's work: ten components with parameters of their own; what reaches a customer, visits, the tab, the process, and then the whole day, proved |
| `Office`, `OfficeProofs` | the back office: a bill and its tabs, billing three ways, deletion, the schedule; deletion and the schedule, and then the whole office, proved |
| `MC…` | model values, symmetry and the composed instances for TLC |

A definition called `…Late`, `…Early`, `…Any…` and the like and introduced as
a *Mutant* is a faulty variant of the definition after it. Nothing refers to
it; it is there to show that a property notices the fault.

**Composed runs.** `Day` (with the values of `MCDay`), `Office` (with those of
`MCOffice`) and `MCProgress` (bills and signing, for liveness) have several
components at once.
The initial state chooses the *subject* of the behaviour; the next-state relation is that component's, on its own instance, and the
variables of the others keep one value. The set of behaviours is the union of
the components' own, each complete; no interaction between subjects is claimed
by such a run. `DayIsOneOfThem` and `OfficeIsOneOfThem` say it as theorems.

### 2.1 MessageQueue

A message is a number, in the order of `created_at`. A row has the columns
that matter: `status`, `sentAt` (set or not), `attempts`, and two countdowns
in place of timestamps: `lease`, to the end of the lease that
`last_attempt_at` starts, and `hold`, to `send_after`. One tick is the longest
one message can keep a worker, 15 s; the code's lease is 20 ticks and its
batch 50 messages. The bodies, templates and recipients are left out.

| Action | Code |
| --- | --- |
| `Enqueue` | `enqueueMessage` |
| `Select`, `Commit` | the claim of `sendQueued`: `FOR UPDATE SKIP LOCKED`, oldest first, then the stamp of `attempts` and `last_attempt_at`, committed |
| `Send` | `deliver`, with the answers of `transport.ts`; *lost* is a message the provider took although the worker saw an error |
| `RecordSent`, `RecordFailure`, `SentUpdateFails` | the update after a send, and its failure in the database (the check constraint included) |
| `Withdraw` | `coldEmail.stop` |
| `Crash`, `Tick` | a process dies; time passes |

| Run | Instance | Shows |
| --- | --- | --- |
| `queue_lease` | 2 workers, 2 messages, one of them a cold email, batch 2, lease 2 (it runs out under a slow batch), 2 faults, every answer | until its lease has run out under a pass: one holder per row (`NoTwoHolders`), the budget exceeded only by faults (`BudgetHolds`), sent is not sent again (`SentIsNotSentAgain`); nothing is given up early (`NoEarlyGiveUp`), `ImplementsOutbox` (an outbox whose messages wait, go out, and end sent, given up or taken back), everything settles |
| `day`, subject *queue* | batch 2, lease 1: rows change hands, with a withdrawal | `SendsCounted` (`EverySendIsCounted`, `NoEarlyGiveUp`), `SentStays` |
| `queue_withdraw` | one cold email | **finding**: a withdrawn row is put back in the queue by the failure of the send in progress |

Two workers and two rows are enough for every race here: the actions compare a
row with one other holder, and a batch of two has a row that is reached and
one that is not. Lease and batch appear only in their comparison. The code does
not make a batch fit its lease (50 messages of a tick each against 20 ticks), so
neither run does: `overran` remembers the rows whose lease ran out while a pass
held them (`RunOut`), and what is lost for those is said of those alone. Sent
stays sent, sends stay counted and nothing is given up early for every row;
`NothingSentTwice` does not hold.

*Fairness.* Weak, for each worker's steps and the clock: the scheduler starts
the queue every minute for ever, and every send has a timeout. Crashes are not
fair and are bounded by `MaxFaults`.

*Proved*, for any number of workers and messages, any lease and batch:
`TypeCorrect`, `OneHolder`, `BudgetKept`, `SentOnce`, `SentStays`
(`SentIsFinal`), `SendsAreCounted`, `NoneGivenUpEarly` and `OutboxImplemented`.
The argument of the first three is `QueueInv`: `NoTwoHolders` is not inductive,
since nothing in it says why a row in the hands of a worker is not claimed
again. `LeaseLasts` does: the row's lease is running, or the row is in
`overran`. `HoldersApart` is the claim, `ClaimsCurrent` ties a claim's attempts
to its row, and `BudgetLeft` needs that. `NeverOverrun` adds what a smaller
batch would buy: where `BatchFitsLease`, the lease of the *i*-th row is at least
*i* ticks less the one begun (`LeaseOutlasts`), so `overran` stays empty
(`FittingBatchesNeverOverrun`) and the exceptions with it.

Counting does not rest on the lease: `CountInv` counts for each message those
who may still hand it over (`StillToSend`), and what the provider took plus
their number is within the row's attempts. A failure update that the check
constraint refuses is a fault like any other of the database. `refused` are the
messages the provider turned down for good: with the withdrawn ones, the only
ones that may fail before their budget is spent.

`Outbox` promises less of two kinds of messages: those taken back while a
worker had them, and those that two passes contest (`contested`, which is
`overran`); even of these one marked sent was taken by the provider and stays
so. The refinement adds `OutboxInv`: a verdict of *sent* was earned, a failed
row in somebody's hands was withdrawn, and held rows exist.
`ConstantsAssumption` is the only assumption on the constants.

### 2.2 Payments

One invoice of `Due` units. A payment is known by its idempotency key at
Square (`invoice:<id>:<amount>` for the card on file,
`portal:<id>:<amount>:<nonce>` from a tab) or by its row's id when entered by
hand, and carries its amount. `counted` is the set whose sum `amount_paid` is.
`square` is the processor's state of each key and `original` the answer it
gives again to a repeated key. Webhooks are `emitted`, and `unacked` until
answered 200; they may be handled in any order and more than once.

A transaction that asks nobody is one action. One that calls Square while it
holds a row (`payPortalInvoice`, `refundPayment`) is several, with the lock
visible (`InvoiceLocked`, `RowLocked`); `chargeInvoice` and
`settleCollectedPayment` read before their transaction, and are two.

| Action | Code |
| --- | --- |
| `SendInvoice`, `VoidInvoice`, `MarkOverdue`, `DatePasses` | `services/invoices.ts`, the calendar |
| `ChargeInvoice`, `AskSquare`, `AnswerLost`, `BookCharge` | `chargeInvoice`: read, charge, record |
| `PayPortalInvoice`, `AskSquare`, `BookPortal` | `payPortalInvoice` |
| `CollectPayment`, `BookCollected` | `settleCollectedPayment` |
| `RecordByHand`, `RefundByHand` | `POST /invoices/:id/payments`, refunds without a processor |
| `RefundPayment`, `AskRefund`, `RefundAnswerLost`, `RefundRefused`, `BookRefund` | `refundPayment` |
| `IgnoreEvent`, `ReadEvent`, `ReconcilePayment` | `POST /webhooks/square`, `reconcilePayment` |
| `Settle`, `DashboardRefund`, `Repeat` | Square (external) |
| `Crash` | a process dies; its transaction rolls back |

Every recorded payment ends in `RecomputeInvoiceTotals`, part of the action.

| Run | Instance | Shows |
| --- | --- | --- |
| `payments_books` | due 2; a charge, a rep, a refund, two webhooks, a hand payment | `BooksAgree`, `BooksFollowSquare`, `VoidHoldsNoMoney`, `RefundStands`, `ImplementsBill` |
| `payments_card` | two runs charging the card on file, lost answers and crashes | `ChargedOnce`, `EveryChargeBooked` |
| `office`, subject *tabs* | two tabs, refunds, two webhooks | `TabsPayOnce` where every answer is final |
| `payments_refunded` | two webhooks handled at once | **finding**: refunded is not final |

`Due` of 2 is what it takes for a payment to cover a part; each race here is
between two requests, and each run has two of the kind it is about. The four
ways to pay are not all in one run: the product is too large, and what two of
them share is the invoice's row and the key. For the same reason two webhooks at
work at once and money by hand are not in one history of `payments_books`
(`MCPayments`' `InScope`); the theorems know no such bound. `crossed` remembers
the payments for which two webhooks were being handled at once: both have read
the row before either writes it, so the later may put back what the other
changed. `RefundStands` and `Bill` make that exception and no other.

*Fairness.* Weak, for a charger's steps (the job runs nightly for ever), for
requests under way, and for the delivery of an event not yet acknowledged
(Square repeats it). New requests, refunds and crashes are not fair.

*Proved*, for any bill and any number of requests: `TypeCorrect`, `BooksHold`
(`BooksInv`), `BooksAlwaysAgree`, `BooksTrailSquare`, `VoidIsEmpty`,
`CardChargedOnce`, `TabsChargeOnce`, `RefundsStay` and `BillImplemented`, the
last two for any number of webhooks at once (`Bill` has the payments of crossed
webhooks as `disputed`: of those, and only those, money given back may count
again). `BooksAgree` needs to know that a refund under way holds its row as it
was (`RefundsHold`), that a draft has no rows, and what a webhook that was read
may still do to its row (`HandlersHold`): unless another crossed it, only what
the transitions allow of the row as it now is.
`PaymentsAssumption` says that the kinds of request are disjoint and that
nothing paid does not cover the bill. Sums are used only through `Covered`.
What the books say is true because every answer and event on its way is
(`SquareInv`): Square's answer to a key is the one it gave first, and an event
says what its payment was or has become. A charge is one charge because of the
key (`CardInv`: no request ever asks for anything but the whole bill under the
one key that stands for it), a tab's because of the row it holds (`TabsInv`:
one tab at a time holds the invoice, while nothing has been paid). A sum over
more than one payment is never needed for either, which is as well: it would be
induction over the set.

### 2.3 Compliance

Operators of one province, with its `Requirements`, of which `Required` must
be met and `Expiring` lapse. A document is an id with owner, requirement,
status, and `nearness` in place of its date: 0 once past, *w* inside the
*w*-th narrowest reminder window, `Far` before. Nothing runs in a transaction,
so a request is three or four steps and the sweep one per query.

| Action | Code |
| --- | --- |
| `SubmitDocument` | `submitDocument`, with the unique index on live documents |
| `ReviewDocument`, `Review` | `reviewDocument`: the check, the update by id (which the index may refuse) |
| `ReadUser`, `ReadDocuments`, `WriteStatus` | `refreshOnboardingStatus` and `operatorCompliance`, query by query |
| `SetOnboarding` | `PATCH /users/:id` |
| `Expire`, `Suspend`, `FindDue`, `Warn`, `Note`, `SweepDone` | `runDocumentExpiry`; queueing the notices is part of `Suspend` and `Warn` |
| `DaysPass` | the calendar, between sweeps; documents come nearer independently of each other, which allows more than any calendar does |
| `SweepDies`, `RequestDies` | a query throws or the process stops |

`complete` and `overridden` remember who has ever had all required documents
approved at once, and whose status corporate has set; `expired[s]` is what the
sweep's first query returned.

| Run | Instance | Shows |
| --- | --- | --- |
| `compliance_sweep` | 1 operator, 2 requirements (1 required), 2 documents, 2 requests, 2 windows, 1 death | `EverComplete`, `NobodyLeftBehind`, `NobodyUncovered`, `WarnedOnce`, `EveryLapseSuspends` |

Operators share nothing but the sweep, so one is enough for the races; two
documents give a lapse and its renewal, or a required and an optional one. Any
two requests meet the sweep in every order: two reviewers, or a reviewer and
the operator's own submission, which refreshes the status too. All of it at once
is too large, so `MCCompliance` chooses at the start (`scope`): two requests
where no reminder is due and nothing dies, or one request with the reminders and
a death.

A refresh judges documents that it read in one query and writes the status in a
later one, by id. `overtaken` are the operators whose documents changed in
between (by a review, or by the sweep): for them the write is out of date, and
the code may leave one who is complete without approval or one who is not
complete approved. `NobodyLeftBehind` and `NobodyUncovered` say that this, a
death and corporate's own decision are the only ways it happens. A second
reviewer, who had read a document before the first approved it, may still reject
it by id, also once it has lapsed; `EveryLapseSuspends` leaves that document out.

*Fairness.* Weak, for the sweep's steps: it runs every night. Requests,
reviews, days and corporate are not fair.

*Proved*, for any number of everything: `TypeCorrect`, `ComplianceInvHolds`,
`EverCompleteHolds`; with one sweep at a time `EachWindowOnce`; and where
something is required at all `AttendedInvHolds`, `NobodyIsLeftBehind` and
`NobodyWorksUncovered` (`src/src/db/appConfig.ts` requires documents in every
province it knows; an operator of whom nothing is required is never refreshed).
`EverComplete` speaks of a status that was judged two steps before it was
written; the invariant adds that a pending judgement of *approved* is of
somebody who was complete, and that completeness is never reached unrecorded,
which holds because only `Review` approves a document (`OnlyReviewApproves`). A
window is warned of once because the sweep notes it before it looks again,
unless it died in between (`WarnInv`). Nobody is left behind or works uncovered
because a request that is about to write has judged right, of everybody not
overtaken (`JudgedRight`), and whoever's status disagrees with their documents
has somebody who will come to them (`UpIsSeenTo`, `DownIsSeenTo`): a request
that has not read the status yet or read it as it is, or a sweep.

### 2.4 Deal

The quotes of one address, with the terms each shows, the links sent for it,
and its contract with the card and the checklist item for it. A transaction
that waits for nobody is one action; those that take the quote's row, the
link's row or both are several, and `Waits` says for whom each waits.

| Action | Code |
| --- | --- |
| `CreateQuote`, `UpdateQuote`, `UpdateAgreement`, `ChangeQuoteStatus` | `services/quotes.ts`, `serviceAgreements.ts` |
| `CreateContract`, `RecordPaperAgreement`, `ChangeContractStatus`, `UpdateContract`, `SetChecklistItem` | `services/contracts.ts` |
| `ReadAgreement`, `SignAgreement` | `signAgreement`: the terms, then the quote's row |
| `RequestSignature`, `EmailQuote`, `FindOutstanding`, `LockOutstanding`, `SendLink` | sending a link: the outstanding ones found, locked, replaced |
| `Submit`, `Expire`, `LockLink`, `CompleteInvitation`, `Lapse` | the customer's side, a lapsed link included |
| `RequestCard`, `FinishSetup` | `services/cards.ts` |
| `DeleteContract`, `DeleteQuote` | `services/deletion.ts` with the check on completed links |
| `Abort` | the database ends one of two that wait for each other |

`deal_sign` has two members of staff, two customers' browsers and a rep at one
quote with two links; each race is between two of a kind. It shows
`DealCoherent` (a contract's quote is accepted, a completed link tells the
truth, card and tick agree), `CardStays`, and `ImplementsOffer`: an offer may
change until it is signed or closed, is signed once, and what it says then
stands. `deal_boxes` is a **finding**: `BoxesSigned`, below. In `progress`,
`RequestsEnd`: those that deadlock too.

Bound: one deletion of a contract at a time. `deleteContract` reads the contract
without a lock, but all it takes from it is the quote's id, which never changes,
so reading and deleting are one step unless a second deletion of the same
contract comes in between; the later one then deletes nothing and still sets the
quote back to presented.

*Proved*, for any quotes, links, terms, staff and customers: `TypeCorrect`,
`DealCoheres`, `CardNeverTakenOff` and `OfferImplemented`. The argument is
`DealInv`: besides what `DealCoherent` says, a link that a request holds is held
by nobody else and still says sent (`LinkHeldOnce`, `HeldLinkIsSent`), so that
nothing is completed or replaced that another has completed; and a quote that
exists says some terms. A step of `Deal` is a step of `Offer` or leaves every
offer as it is (`StageOf`).

*Fairness.* Strong for a request's steps, weak for `Abort`: a request waiting
for a row is queued by the database and gets it when the holder ends, even if
another could take it first again and again; the database aborts a deadlock.

### 2.5 Billing and Schedule

`Billing` is the bills of a branch's contracts and the ledger of credits. A
run (`StartRun`) takes contract by contract (`TakeContract`), looks what is due
and not billed (`ToRaise`), raises each period in a transaction
(`InsertBill`, `ReadCredit`, `CommitBill`; `RaisePlain` without a plan;
`SkipPeriod` where the index refuses), sends what it raised (`SendRaised`) and
ends with `MarkOverdue`. The insert holds the customer's row against the lock
that spending credit takes, so two runs can wait for each other (`Waits`,
`Abort`). `Die` is a process that stops. The rest are the office and the
customer: `SignContract`, `EndContract`, `CreateInvoice`, `EmailInvoice`,
`VoidInvoice`, `DeleteInvoice`, `PaidUp`, `Uncovered`; `NextPeriod` is the
calendar. A period comes to one price; cents are `Schedule`'s.

| Run | Instance | Shows |
| --- | --- | --- |
| `progress`, subject *billing* | two runs, two agreements of a customer nobody referred, one death | `PeriodsBilled` (`EveryPeriodBilled`) |
| `office`, subject *billing* | two runs, an agreement and a contract without one, three bills a period, two moves of the office | `BilledAndPaidOnce` |
| `office`, subject *crediting* | one run, two customers who referred each other, credit that covers a bill | `CreditHonest`: a bill that credit pays earns its referral, a deleted bill takes its credits with it |
| `office`, subject *spending* | two runs, a referred customer and two contracts of the referrer | `CreditHonest`: credit is not spent twice |

Three contracts are the least at which one customer has two bills raised at
once with credit between them: within a contract the index makes the runs take
turns. Bounds: `Months` periods, `Tries` bills for one period, `MaxMoves` of
the office, `MaxFaults` deaths.

*Fairness.* Weak for a run that goes on (`GoesOn`: the job comes round every
night, and a step that can be taken is) and for `DeadlockEnds` (the database
aborts one of two that wait for each other); strong for `ReadCredit`, which
takes the customer's row: the database hands it to those who wait in turn.
Deaths, the office and the calendar are not fair, and time stops at `Months`.

`Schedule` is `computePricing` and `paymentSchedule` over cents and dates, with
a calendar of `YearMonths` months of `MonthDays` days, and
`raiseScheduledInvoices` on whichever days the run comes round. `SeasonAddsUp`:
the bills of a season that is over are what was agreed for it, to the cent, for
all four kinds of agreement, every day of signing, with discount and tax. The
`office` run has one or two instalments in a season of two months of a year of
four; the **finding** `schedule_late` as many instalments as the year has
months.

*Proved* of `Billing`, for any contracts, customers, referrals, runs, periods
and prices: `BillingTyped`, `BillingOnce` (`BilledOnce`), `CreditSpentOnce`
(`NoOverdraft`) and `ReferralsArePaid`. That a period has one live bill is not
inductive: what keeps two runs apart is that a run that has inserted a bill
holds its period, by the index, until it commits (`InFlight`, `HeldOnce`), and
that two runs are never at one customer's credit together, by the customer's
row (`CreditAlone`). These, with what a bill and the ledger say of a contract
(`BillsSigned`, `LedgerHolds`, `RunsSigned`), are `BillInv`. Credit is spent
once because what a run read of the balance still covers what it spends, or was
lost with a bill deleted since (`CreditStays`). The balance is a sum over the
ledger. Its lemmas (what a sum becomes when one term changes, `TallyChange`, or
when the set grows, `TallyMore`) rest on an induction over the size of the set;
since the library's induction theorem takes an operator, the argument is by the
least counterexample, which `NatLessThanWellFounded` gives of a *set* of numbers.

*Proved* of `Schedule`, for any prices, discounts, rates, seasons and nights:
`ScheduleAddsUp`. In every state nothing has been raised yet or exactly what was
due when the run last came round (`RaisedInv`), whichever nights it missed. What
is left is arithmetic: payments of a season are due on different days, which the
proof shows from the months they are in, so none is lost as a duplicate; the
last of them is what the others leave, so a season's sum is the price, and the
seasons' sums the total with tax. It says this of an agreement whose payments
keep apart (`KeepsApart`, `KeptApart`): signed before the first season ends, its
last instalment due before the next season begins. The code does not see to
that, and where it fails the sums do: that is the finding `schedule_late`. Of
*any* agreement `NoDayIsMissed` holds (`DueDaysBilled`): nothing is billed that
the schedule did not have due, and every day with a payment due has its bill
once the run has been; what is lost is the second payment of one day. The
constant `MaxSeason` bounds how far renewals are followed and covers the seasons
that can be agreed (five in the code, fifty the furthest it looks).

### 2.6 Visits, Reviews, Weather, Drip, Inbox

| Module | Actions and their code | Property of the `day` run | Instance |
| --- | --- | --- | --- |
| `Visits` | `ReadGate`, `InsertOrder` (`createWorkOrder`: two statements); `UpdateOrder`, `ChangeStatus`, `AddPhoto` under the visit's lock, then `Write` or `Fail`; `Notify`, not awaited; `DeleteOrder`; `ChangeStanding` of an operator, `DeleteOperator` with its account (`deleteUser`, whose foreign key clears the name on every visit, done ones too); `Crash` | `VisitsKept`: what is done was photographed before and after and stays, but for the name of an operator whose account is gone; only its operator or the office works a visit | 1 visit, 2 operators, 2 requests |
| `Reviews` | `StartRound`, `Consider`, `Ask` (`runReviewRequests`); `Rate`, `Alert` (`submitRating`, `alertBranchManager`); `StopRound`, `LoseAlert` | `ToldOnce`: not twice in the cooldown, also after a crash; an answer is final, an alert at most once | 2 visits of one customer, 2 taps, 4 days |
| `Weather` | `StartCheck`, `Forecast`, `Record`, `GiveUp` (`checkBranch`) | `ToldOnce`: everybody in an alerted region, once, however checks overlap | 2 checks at once, 2 regions, a customer in both |
| `Drip` | `OptIn`, `Unsubscribe`, `StopLead`, `ClaimDue` under the lead's lock, then `Commit` or `Abort`; `TakeMail`, `SendMail` of the queue; `Buy` | `SequenceKept`: each step once, in order, none after unsubscribing but what was in the worker's hands | 1 lead, 2 requests, enrolled twice |
| `Inbox` | `Receive`, `Store` (a webhook delivery); `QueueReply`, `Claim`, `SendReply`, `Tidy`, `Stamp`, `RecordFailure`, `LeaseEnds`, `Die` | `ThreadWhole`: a message is in the thread once, echoes and redeliveries included, and the window is never pulled back | 2 messages, 2 deliveries, 1 reply, 1 fault |

Each race in these is between two requests for one row; the bounds are two of
each. Days and the cooldown are scaled down, keeping their order: the lookback
is shorter than the cooldown, as in the code (7 and 90 days).

*Proved*, for any visits, operators, customers, regions, leads, steps, messages,
workers and faults:

- `RatingsKept`, with one run at a time (`OneRound`): whoever the run has
  decided to ask was not asked lately, and still was not when the request is
  inserted (`RoundInv`); an alert on its way is of a low rating and the only one
  for its visit (`AlertInv`).
- `WeatherTold`: what an overlapping check read as alerted still is when it
  records, and is all there is unless two did overlap (`CheckInv`); the bound of
  a customer's notices by their alerted regions is a count of regions.
- `SequenceInOrder`: what a request holds under the lead's lock is the row as it
  read it (`HeldInv`), so a step is never taken from a row that has moved on.
- `ThreadKept`: a message on file is filed once, whether it came, was echoed or
  was stamped (`FiledOnce`), since two workers never have one reply
  (`WorkersApart`) and the ids they get are new (`AttemptsLeft`).
- `VisitsStand`: whoever holds a visit's row has checked what still holds of it
  (`DecidedInv`).

### 2.7 Records, Access, Routes

`Records` has every table that refers to another as the record of its columns'
rules (`restrict`, `cascade`, `set null`), as the migrations leave them. A
customer's world has one row of each of its tables at one of five stages, from
a lead to a customer served and reviewed; which nullable columns are null is
chosen with the stage. A deletion is the `DELETE` statements of its
transaction, in order: what cascades goes, what restricts fails, what is set
null may violate a check or the append-only trigger of the audit log, and then
nothing goes. The `office` run deletes twice in a row over every stage of two
customers, one of whom referred the other, by corporate, branch and sales
accounts: `DeletionsKeep` (history stays; a deletion keeps to the customer,
account or branch it was asked for; money goes by the office) and
`NoDealStranded`.

*Proved* of `Records`, for any customers with any referrals among them, any
staff and branches, and any series of deletions: `DeletionsKeepTheirs` and
`NoneAreStranded`. `Cascades` lists what cascades from what, read off the rule of
every column (`CustomerLeads`, `StaffLeads`, `BranchLeads`). A cascade goes three
steps down at most (`Shallower`), so `Below`, which is defined by recursion along
it, exists, and is within any set of rows closed under one step (`BelowWithin`).
Hence what is below a row of one customer, account or branch is the same one's,
but for the credit that somebody got for referring them (`OwnBelow`); no history
and no money is below anything but itself (`HistoryBelow`, `MoneyBelow`). What a
transaction takes is then a matter of the tables its statements name, and `RecordsInv` adds what restricts rely on: payments are
of an invoice and invoices of a contract (`PaidForBilled`).

`Routes` is a table of the server's operations: which roles the guards of each
router admit, whose records they reach (the branch's, one's own, a file's, none
in particular), whether they change them. `POST /auth/register`, off by default,
is not in it. `Access` is
the accounts and what is asked with their tokens: `Begin`, `BeginOpen` and
`Finish` are a request that is let in on the row as it is and handled after;
`Login`, `BranchSignIn`, `ChangePassword`, `ResetBranchPassword`,
`CreateUser`, `UpdateUser`, `SetManager` are the operations on accounts;
`LockUser`, `DeleteUser`, `AbortDelete` the deletion of one, which looks for
another corporate account without locking it. `AccountsHold`: a request acts
for the account as it is unless the account changed while it was being handled,
an operator's papers are reached by that operator, its branch's sign-in and
corporate alone (`OwnOnly`), each role keeps to its side of the business, and one corporate account stays.
It does, although two deletions read without a lock: each writes an audit
entry that names who deleted, whose row the other has deleted or holds.

*Proved*, for any accounts, branches, requests and seconds, `TypeCorrect`;
`RequestsActWithin`, whose invariant `ServeInv` says of every request let in
that its role is the row's, or that the row changed since, and that it reaches
no more than its own record or its branch's, and which rests on
`AsksOnSide`, a lemma over the whole table of routes (each operation is on the
side of the business of the roles its guard admits); and `OfficeHolds`, from a
state with a corporate account: `OfficeInv` says of each deletion under way that
who deletes is not who goes, was signed in, so that nobody else gets its id, and
is corporate for as long as it is there.

### 2.8 Screens, Tab, Process

`Screens` says of every component under `client/src/routes` what it loads, what
it offers and to whom `App.tsx` opens it. `Tab` is one tab with those screens:
session and token (`SignIn`, `SignOut`, `OtherTab`, `EndAccount`), navigation
(`Go`, `Select`, which takes the form of `AddCustomer` off the page), loads
(`Answered`), and a submission step by step (`Submit`, `StepDone`,
`StepRefused`, `StepLost`, `StepUnauthenticated`). In `day`: the page shows the
record in the address and its buttons act on it, whatever answers come late
(`ShownIsAsked`), and a customer added again after a failed step is one customer
(`AddedOnce`). The tab walks between a form of several steps and a page of a
record, with one account per role, two loads and one upset.

That the console asks only for what the server grants is not a property: it
links crew to a colleague's page, whose papers the server refuses, and offers
buttons that depend on whose the record is. A load or a step may therefore be
refused whatever the role (`MayBeRead` is about the role alone), and the page
then says so.

`Process` is the scheduler and the shutdown of `server.ts`: `StartJob`,
`EndJob`, `Connect`, `Disconnect`, `Shutdown`, `Drain`, `Exit`, `ForceExit`.
`CleanExit`: no job over itself, and a process that ends of its own accord
after one signal leaves none half done. That a forced exit may is in the other
modules as their deaths.

*Proved*, for any accounts, screens walked, records and numbers of loads and
upsets, `TabStaysTyped`; `TabPageIsTrue`, by `PageInv`: there is one live load at
most, of the record in the address, and a form that is still there is of its
screen and its account; and `TabAddsNothingTwice`, by `AddingInv`, which follows
the new customer's form through what is left of its requests, and for which the
table of screens is read once (`AllWhole`: that form is the only submission of
its screen), with the repeated `createCustomer` that becomes an
`updateCustomer` included. For any jobs,
connections and signals `ExitIsClean`: a call of `shutdown` waits for just what
is still running (`DrainInv`); that a second call need not is why it says *asked
once*.

### 2.9 Day and Office

`Day` declares the parameters of every component once and has each component as
an instance; `MCDay` gives the values. `DayProofs` shows that each behaviour is
one of the component it is about (`DayIsOneOfThem`), so what is proved of the
components holds of the day: every property of the run `day` is a theorem about
`Day` (`DayStaysTyped`, `DayAccountsHold`, `DaySendsCounted`, `DaySentStays`,
`DayShowsWhatIsAsked`, `DayAddsOnce`, `DayTellsOnce`,
`DayExitsCleanly`, `DayKeepsVisits`, `DayKeepsTheSequence`, `DayKeepsTheThread`).

`Office` is built in the same way from `Payments` (tabs), `Billing` with three
sets of contracts, `Records` and `Schedule`, and `OfficeIsOneOfThem` carries
their theorems over: every property of the run `office` is a theorem about
`Office` (`OfficeTyped`, `OfficeBillsOnce`, `OfficeCreditHonest`,
`NoneAreStranded`, `DeletionsKeepTheirs`, `SeasonsAddUp`, the last as long as an
agreement's payments keep apart).

## 3. Findings, and what was seen while modelling

Four runs expect a violation, each of a sentence in the repository:

- `queue_withdraw`: a withdrawn cold email is put back in the queue by the
  failure of the send in progress.
- `payments_refunded`: two webhooks handled at once put refunded money back.
- `deal_boxes`: the office changes an agreement to card after the customer's
  page read it and before they sign: a card agreement without its signed
  authorization.
- `schedule_late`: with twelve instalments, or fewer signed late in the season,
  the last payment of a season and the first of the next are due on one day;
  one of them is never billed.

The modules state some properties that no run checks, since the code does not
keep them; each says what a reader of the code might expect, and what happens:

| Property | What the code does |
| --- | --- |
| `MessageQueue.NothingSentTwice` | a batch of 50 can outlast the lease of its last rows, and another worker sends them too |
| `Payments.TabsCannotBothPay` | two tabs whose payments are both *pending* each pay |
| `Compliance.SuspensionStands` | a refresh that read before the nightly suspension lifts it |
| `Compliance.OnlyLossSuspends` | an expired document replaced long ago counts as tonight's loss |
| `Deal.OneLiveLink` | two sent at once cancel what each saw outstanding; no second contract can come of it |
| `Billing.RaisedIsSent` | a run that dies between raising and sending leaves a draft that no later run sends; so does the upfront bill of a plan-less contract |
| `Access.ManagersBelong` | a branch's manager who is moved elsewhere stays its manager |
| `Visits.OnlyTheFitAreSent` | a suspension takes no visit away, and one between gate and insert is not seen |
| `Records.DeletesGo` | some deletions that are allowed are refused by a constraint |
| `Reviews.LowIsHeard` | a process that stops between a low rating and its alert tells nobody |
| `Inbox.RepliedOnce` | a reply whose echo beats its stamp is sent again |
| `Process.DrainsTwice` | a second signal's drain waits for nothing and ends the process under a running job |

Also seen: an invoice voided while a charge is pending receives the money when
it settles (`VoidHoldsNoMoney` leaves this case out, by name); voiding a bill
keeps the credit spent on it; the later of two deletions of one contract can
set a quote that has been signed anew back to presented (2.4); deleting a paid bill takes out of the ledger a
referral credit that may have been spent (`NoOverdraft` allows for exactly
that); the attempt budget is exceeded by one per crash, as `BudgetHolds` says;
instalments and seasons are read live, so the office's change of a setting
changes signed agreements; a lead who converts keeps what is queued for them.

## 4. What is proved and what is only checked

Proved by tlapm with Z3, Zenon and LS4. The theorems a reader should know are
listed in `PROJECT.json`; the sections above give each argument. Nothing is
assumed but what `ASSUME`s say of the constants (bounds are numbers, kinds of
request are disjoint, a "none" is none of the values), which TLC evaluates in
every run, and what a theorem's own statement supposes:

| Supposed | In | Because |
| --- | --- | --- |
| `BatchFitsLease` | `FittingBatchesNeverOverrun` alone | what smaller batches would buy; the code's own numbers do not |
| `OnlyTheCard`, `OnlyTheTabs` | `CardChargedOnce`, `TabsChargeOnce` | one way of paying; between two the code does not keep it |
| `OneSweep` | `EachWindowOnce` | the scheduler never overlaps a job with itself |
| `Required # {}` | `AttendedInvHolds`, `NobodyIsLeftBehind`, `NobodyWorksUncovered` | every province requires something |
| `OneRound` | `RatingsKept`, `DayTellsOnce` | as `OneSweep` |
| `KeptApart` | `SeasonsAddUp` | no two payments of the agreement fall due on one day; otherwise `schedule_late` |
| a corporate account, `Offices # {}` | `OfficeHolds`, `DayAccountsHold` | the first account of an installation is created by `src/src/ops/bootstrap.ts`, as corporate |

Each property was checked by TLC first, and so was each inductive invariant on
an instance of its component. `PROJECT.json` names with each theorem the
property of a run that it states.

Only model-checked is liveness (`EverythingSettles`, `EveryChargeBooked`,
`EveryLapseSuspends`, `PeriodsBilled`, `RequestsEnd`), and with it anything that
needs ENABLED: out of the prover's reach. Every invariant and every action
property of a passing run, and each of the three refinements, is a theorem.

What a recursive definition computes for every input is out of reach in general;
where a property needed it (the balance of `Billing`, the sums of `Schedule`) the
lemma is about a sum over a finite set and its induction is spelled out, as said
in 2.5; the cascades of `Records` end after three steps, so none is needed.

## 5. Not modelled

Leads on the map, customers, properties, expenses and the monthly close are
rows changed one statement or one locked transaction at a time; nothing spans
two. Reports, finance, projections, the year-end export and the snow summary
only read. Rate limits change a process's counters without a pause. Sending,
uploads, storage, PDF, the layout of emails and pages, integrations and their
stored keys, the audit log's reader, health and migrations are I/O or data.

Within the modelled components: in `Payments`, a refund of part of a payment
made in the Dashboard and hand payments that name a transaction id; in
`Compliance`, deactivated users and moves to another province; in `Deal`, the
wording and the history of amendments; in `Billing`, amounts and taxes (they
are `Schedule`'s); in `Inbox`, contacts and attachments; in `Access`, hashing
and tokens' contents, and the race of a password change with a sign-in.
In `Tab`, one submission is in flight at a time and a render is not a step:
`InvoiceDetail` and `AgreementSign` keep the old record on the page while the
next loads and act on the one in the address, and are left out of
`ActsOnWhatItShows` by name; screens that keep their data while reloading are
left out of `ShownIsAsked` by name (`Keeping`).
