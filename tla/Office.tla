------------------------------- MODULE Office -------------------------------
(***************************************************************************)
(* The back office: a bill and its tabs, billing runs, deletion and the    *)
(* schedule of payments.                                                   *)
(*                                                                         *)
(* Each component with parameters of its own, billing with three sets of   *)
(* them.  A behaviour is about one component, its subject, and of the      *)
(* others nothing happens.                                                 *)
(***************************************************************************)
EXTENDS Records

CONSTANTS
  BillDue, Tabs, Refunders, Handlers, Nonces, Answers, MaxFaults,    \* Payments
  Payers, NoReferrer, Price, Reward, Plain, Crossed, Shared,         \* Billing
  MonthDays, YearMonths, SeasonStart, SeasonMonths, Installments,
  Seasons, Prices, Discounts, Rate, MaxSeason, SignBy, LastDay,
  NoTerms                                                            \* Schedule

(* What differs between the instances of Billing: Plain, Crossed, Shared.  *)
BillingSound(b) ==
  /\ IsFiniteSet(b.contracts)
  /\ b.ownerOf \in [b.contracts -> Payers]
  /\ b.referrerOf \in [b.contracts -> Payers \cup {NoReferrer}]
  /\ b.agreements \subseteq b.contracts
  /\ b.months \in Nat /\ b.tries \in Nat \ {0} /\ b.moves \in Nat

ASSUME OfficeBillingAssumption ==
  /\ NoReferrer \notin Payers /\ Price \in Nat \ {0} /\ Reward \in Nat
  /\ BillingSound(Plain) /\ BillingSound(Crossed) /\ BillingSound(Shared)
ASSUME OfficePaymentsAssumption ==
  /\ BillDue \in Nat \ {0} /\ Answers \subseteq {"succeeded", "pending", "failed"} /\ MaxFaults \in Nat
  /\ Tabs \cap (Refunders \cup Handlers) = {} /\ Refunders \cap Handlers = {}
ASSUME OfficeScheduleAssumption ==
  /\ MonthDays \in Nat \ {0} /\ YearMonths \in Nat \ {0} /\ SeasonStart \in Nat /\ SeasonMonths \in Nat \ {0}
  /\ Installments \subseteq Nat \ {0} /\ Seasons \subseteq Nat \ {0} /\ 1 \in Seasons
  /\ Prices \subseteq Nat /\ Discounts \subseteq Nat /\ Rate \in Nat
  /\ MaxSeason \in Nat /\ Seasons \subseteq 1..(MaxSeason + 1) /\ SignBy \in Nat /\ LastDay \in Nat

VARIABLES
  subject,   \* "tabs", "billing", "crediting", "spending", "records" or "schedule"
  tabsStatus, tabsLate, tabsCounted, tabsRow, tabsPc, tabsItem, tabsReply, tabsCrossed,
  tabsSquare, tabsOriginal, tabsEmitted, tabsUnacked, tabsFaults,
  billingToday, billingSince, billingLive, billingStatus, billingApplied,
  billingEarned, billingLost, billingPc, billingTodo, billingEntries,
  billingAt, billingBill, billingCredit, billingRaised, billingFaults,
  billingMoves,
  scheduleToday, scheduleTerms, scheduleBills, scheduleAsOf

tabsVars == <<tabsStatus, tabsLate, tabsCounted, tabsRow, tabsPc, tabsItem,
    tabsReply, tabsCrossed, tabsSquare, tabsOriginal, tabsEmitted, tabsUnacked,
    tabsFaults>>
billingVars == <<billingToday, billingSince, billingLive, billingStatus, billingApplied,
    billingEarned, billingLost, billingPc, billingTodo, billingEntries,
    billingAt, billingBill, billingCredit, billingRaised, billingFaults,
    billingMoves>>
recordsVars == <<rows, nulls, presented, active, by, failed, deletes>>
scheduleVars == <<scheduleToday, scheduleTerms, scheduleBills, scheduleAsOf>>
officeVars == <<subject, tabsVars, billingVars, recordsVars, scheduleVars>>

Is(s) == subject = s

(* Variables of the components a behaviour is not about. *)
NoTabs ==
  /\ tabsStatus = 0 /\ tabsLate = 0 /\ tabsCounted = 0 /\ tabsRow = 0
  /\ tabsPc = 0 /\ tabsItem = 0 /\ tabsReply = 0 /\ tabsCrossed = 0 /\ tabsSquare = 0
  /\ tabsOriginal = 0 /\ tabsEmitted = 0 /\ tabsUnacked = 0 /\ tabsFaults = 0
NoBilling ==
  /\ billingToday = 0 /\ billingSince = 0 /\ billingLive = 0
  /\ billingStatus = 0 /\ billingApplied = 0 /\ billingEarned = 0
  /\ billingLost = 0 /\ billingPc = 0 /\ billingTodo = 0
  /\ billingEntries = 0 /\ billingAt = 0 /\ billingBill = 0
  /\ billingCredit = 0 /\ billingRaised = 0 /\ billingFaults = 0
  /\ billingMoves = 0
NoRecords ==
  /\ rows = 0 /\ nulls = 0 /\ presented = 0 /\ active = 0 /\ by = 0
  /\ failed = 0 /\ deletes = 0
NoSchedule ==
  /\ scheduleToday = 0 /\ scheduleTerms = 0 /\ scheduleBills = 0
  /\ scheduleAsOf = 0

(* Browser tabs at one bill, with refunds and webhooks. *)
P == INSTANCE PaymentsProofs WITH
  Due <- BillDue,
  Chargers <- {}, Reps <- {}, Slips <- {},
  status <- tabsStatus, late <- tabsLate, counted <- tabsCounted,
  row <- tabsRow, pc <- tabsPc, item <- tabsItem, reply <- tabsReply, crossed <- tabsCrossed,
  square <- tabsSquare, original <- tabsOriginal, emitted <- tabsEmitted,
  unacked <- tabsUnacked, faults <- tabsFaults

(* Billing runs and the office at contracts of customers nobody referred.  *)
B == INSTANCE BillingProofs WITH
  Contracts <- Plain.contracts, Customers <- Payers, OwnerOf <- Plain.ownerOf,
  ReferrerOf <- Plain.referrerOf, Agreements <- Plain.agreements, Upfront <- {},
  Nobody <- NoReferrer, Runs <- Plain.runs, Months <- Plain.months,
  Tries <- Plain.tries, MaxFaults <- 0, MaxMoves <- Plain.moves,
  today <- billingToday, since <- billingSince, live <- billingLive,
  status <- billingStatus, applied <- billingApplied,
  earned <- billingEarned, lost <- billingLost, pc <- billingPc,
  todo <- billingTodo, entries <- billingEntries, at <- billingAt,
  bill <- billingBill, credit <- billingCredit, raised <- billingRaised,
  faults <- billingFaults, moves <- billingMoves

(* Customers who have referred each other. *)
C == INSTANCE BillingProofs WITH
  Contracts <- Crossed.contracts, Customers <- Payers, OwnerOf <- Crossed.ownerOf,
  ReferrerOf <- Crossed.referrerOf, Agreements <- Crossed.agreements, Upfront <- {},
  Nobody <- NoReferrer, Runs <- Crossed.runs, Months <- Crossed.months,
  Tries <- Crossed.tries, MaxFaults <- 0, MaxMoves <- Crossed.moves,
  today <- billingToday, since <- billingSince, live <- billingLive,
  status <- billingStatus, applied <- billingApplied,
  earned <- billingEarned, lost <- billingLost, pc <- billingPc,
  todo <- billingTodo, entries <- billingEntries, at <- billingAt,
  bill <- billingBill, credit <- billingCredit, raised <- billingRaised,
  faults <- billingFaults, moves <- billingMoves

(* Billing runs that spend one customer's credit. *)
D == INSTANCE BillingProofs WITH
  Contracts <- Shared.contracts, Customers <- Payers, OwnerOf <- Shared.ownerOf,
  ReferrerOf <- Shared.referrerOf, Agreements <- Shared.agreements, Upfront <- {},
  Nobody <- NoReferrer, Runs <- Shared.runs, Months <- Shared.months,
  Tries <- Shared.tries, MaxFaults <- 0, MaxMoves <- Shared.moves,
  today <- billingToday, since <- billingSince, live <- billingLive,
  status <- billingStatus, applied <- billingApplied,
  earned <- billingEarned, lost <- billingLost, pc <- billingPc,
  todo <- billingTodo, entries <- billingEntries, at <- billingAt,
  bill <- billingBill, credit <- billingCredit, raised <- billingRaised,
  faults <- billingFaults, moves <- billingMoves

S == INSTANCE Schedule WITH
  today <- scheduleToday, terms <- scheduleTerms, bills <- scheduleBills, asOf <- scheduleAsOf

OfficeInit ==
  \/ Is("tabs") /\ P!Init /\ NoBilling /\ NoRecords /\ NoSchedule
  \/ Is("billing") /\ B!Init /\ NoTabs /\ NoRecords /\ NoSchedule
  \/ Is("crediting") /\ C!Init /\ NoTabs /\ NoRecords /\ NoSchedule
  \/ Is("spending") /\ D!Init /\ NoTabs /\ NoRecords /\ NoSchedule
  \/ Is("records") /\ Init /\ NoTabs /\ NoBilling /\ NoSchedule
  \/ Is("schedule") /\ S!Init /\ NoTabs /\ NoBilling /\ NoRecords

OfficeNext ==
  \/ Is("tabs") /\ P!Next /\ UNCHANGED <<subject, billingVars, recordsVars, scheduleVars>>
  \/ Is("billing") /\ B!Next /\ UNCHANGED <<subject, tabsVars, recordsVars, scheduleVars>>
  \/ Is("crediting") /\ C!Next /\ UNCHANGED <<subject, tabsVars, recordsVars, scheduleVars>>
  \/ Is("spending") /\ D!Next /\ UNCHANGED <<subject, tabsVars, recordsVars, scheduleVars>>
  \/ Is("records") /\ Next /\ UNCHANGED <<subject, tabsVars, billingVars, scheduleVars>>
  \/ Is("schedule") /\ S!Next /\ UNCHANGED <<subject, tabsVars, billingVars, recordsVars>>

OfficeSpec == OfficeInit /\ [][OfficeNext]_officeVars

-----------------------------------------------------------------------------
(* The variables of each component keep their types. *)
OfficeTypesOK ==
  CASE Is("tabs")     -> P!TypeOK
    [] Is("billing")  -> B!BillingTypeOK
    [] Is("crediting") -> C!BillingTypeOK
    [] Is("spending") -> D!BillingTypeOK
    [] Is("records")  -> RecordsTypeOK
    [] Is("schedule") -> S!ScheduleTypeOK

(* A period of a contract is billed once, whatever runs and offices raise  *)
(* at the same time (services/invoices.ts), and a bill is paid once from   *)
(* two tabs, where every answer is final (services/portal.ts).             *)
BilledAndPaidOnce ==
  /\ Is("billing") => B!BilledOnce
  /\ Is("spending") => D!BilledOnce
  /\ Is("tabs")    => P!TabsPayOnce

(* Credit is not spent twice by bills raised at once, and a referral earns *)
(* its credit when the bill is paid, once (services/credits.ts).           *)
CreditHonest ==
  /\ Is("crediting") => C!NoOverdraft /\ C!ReferralsPaid
  /\ Is("spending") => D!NoOverdraft /\ D!ReferralsPaid

(* Deleting a contract leaves a deal to sign again (services/deletion.ts). *)
NoDealStranded == Is("records") => NoneStranded

(* A deletion takes no history, nobody else's rows, and no money but by    *)
(* those who may take it (services/deletion.ts and the foreign keys of     *)
(* src/db/migrations).                                                     *)
DeletionsKeep == [][Is("records") => HistoryStays /\ KeepsToItsOwn /\ MoneyGoesByOffice]_officeVars

(* The bills of a season that is over add up to what was agreed for it     *)
(* (types/serviceAgreement.ts, services/invoices.ts).                      *)
SeasonAddsUp == Is("schedule") => S!SeasonAddsUp
=============================================================================
