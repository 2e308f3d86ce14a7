------------------------------- MODULE Schedule -------------------------------
(***************************************************************************)
(* What an agreement costs, and when: computePricing and paymentSchedule   *)
(* of types/serviceAgreement.ts, and how services/invoices.ts               *)
(* raiseScheduledInvoices bills it, night after night.                     *)
(*                                                                         *)
(* A date is a number: MonthDays days a month, YearMonths months a year.   *)
(* The first season runs over SeasonMonths months from the start of month  *)
(* SeasonStart.  Money is in cents.                                        *)
(***************************************************************************)
EXTENDS Naturals, FiniteSets, FiniteSetsExt

CONSTANTS
  MonthDays, YearMonths, SeasonStart, SeasonMonths,
  Installments,   \* billing_plans.installments_per_season: 1 to 12
  Seasons,        \* contract_types.seasons: 1 to 5
  Prices,         \* normal_price
  Discounts,
  Rate,           \* tax_codes.rate, in tenths
  MaxSeason,      \* MAX_SEASONS, scaled down
  SignBy,         \* Bound: the last day a customer signs
  LastDay,        \* Bound: days
  NoTerms

Kinds == {"seasonal_installments", "seasonal_yia", "monthly_recurring", "monthly_one_time"}

VARIABLES
  today,
  terms,    \* what was signed, and when; NoTerms before
  bills,    \* invoices: <<billing_period_start, amount, tax, the season it is for>>
  asOf      \* the day of the last run

scheduleVars == <<today, terms, bills, asOf>>

Terms == [kind : Kinds, n : Installments, seasons : Seasons, net : Nat, signed : Nat, renews : BOOLEAN]

Init == today = 0 /\ terms = NoTerms /\ bills = {} /\ asOf = 0

ScheduleTypeOK ==
  /\ today \in 0..LastDay
  /\ asOf \in 0..today
  /\ terms \in Terms \cup {NoTerms}
  /\ \A b \in bills : b[1] \in 0..asOf /\ b[2] \in Nat /\ b[3] = (b[2] * Rate + 5) \div 10

-----------------------------------------------------------------------------
(* Dates. *)
YearDays           == MonthDays * YearMonths
FirstOfMonth(d, i) == (d \div MonthDays + i) * MonthDays    \* firstOfNextMonth, i times
StartOf(s)         == SeasonStart * MonthDays + s * YearDays
EndOf(s)           == StartOf(s) + SeasonMonths * MonthDays - 1
Later(a, b)        == IF a > b THEN a ELSE b

(* computePricing: what is paid first, and after that. *)
TaxOn(cents) == (cents * Rate + 5) \div 10

(* Mutant: the cents that do not divide evenly are on no payment. *)
FirstEqual(t) == t.net \div t.n

FirstPayment(t) ==
  CASE t.kind = "seasonal_installments" -> t.net - (t.net \div t.n) * (t.n - 1)
    [] t.kind = "seasonal_yia"          -> t.net * t.seasons
    [] OTHER                            -> t.net

RecurringPayment(t) == IF t.kind = "seasonal_installments" THEN t.net \div t.n ELSE t.net

(* Over the whole commitment, tax on each payment.                         *)
CommitmentTotal(t) ==
  IF t.kind = "seasonal_installments"
    THEN t.net * t.seasons + t.seasons * (TaxOn(FirstPayment(t)) + (t.n - 1) * TaxOn(RecurringPayment(t)))
    ELSE FirstPayment(t) + TaxOn(FirstPayment(t))

(* Mutant: the payments after the first are counted from the season's      *)
(* first day, whenever the customer signed.                                *)
DueFromStart(t, s, i) == IF i = 0 THEN Later(t.signed, StartOf(s)) ELSE FirstOfMonth(StartOf(s), i)

(* paymentSchedule: the payments of one season... *)
FirstDue(t, s) == IF s = 0 THEN Later(t.signed, StartOf(0)) ELSE StartOf(s)

DueOn(t, s, i) == IF i = 0 THEN FirstDue(t, s) ELSE FirstOfMonth(FirstDue(t, s), i)

Entry(s, due, amount) == <<due, amount, TaxOn(amount), s>>

SeasonEntries(t, s) ==
  CASE t.kind = "seasonal_installments" ->
         {Entry(s, DueOn(t, s, i), IF i = 0 THEN FirstPayment(t) ELSE RecurringPayment(t)) : i \in 0..(t.n - 1)}
    [] t.kind = "seasonal_yia" ->
         IF s = 0 THEN {Entry(s, t.signed, FirstPayment(t))}
         ELSE IF s >= t.seasons THEN {Entry(s, StartOf(s), t.net)} ELSE {}
    [] t.kind = "monthly_recurring" ->
         {Entry(s, DueOn(t, s, i), t.net) : i \in {k \in 0..(SeasonMonths - 1) : DueOn(t, s, k) <= EndOf(s)}}
    [] t.kind = "monthly_one_time" ->
         IF s = 0 THEN {Entry(s, FirstDue(t, 0), FirstPayment(t))} ELSE {}

Renews(t) == t.renews /\ t.kind # "monthly_one_time"

(* ...and all that fall due by a day, renewals with them.                  *)
Due(t, through) ==
  LET last == IF Renews(t) THEN MaxSeason ELSE t.seasons - 1
      kept == {s \in 0..last : s = 0 \/ StartOf(s) <= through}
  IN {e \in UNION {SeasonEntries(t, s) : s \in kept} : e[1] <= through}

-----------------------------------------------------------------------------
(* A customer signs.  A monthly plan is for one season.                    *)
Sign ==
  /\ terms = NoTerms /\ today <= SignBy
  /\ \E kind \in Kinds, n \in Installments, seasons \in Seasons, price \in Prices, discount \in Discounts, renews \in BOOLEAN :
       /\ discount <= price
       /\ terms' = [kind |-> kind, n |-> n, net |-> price - discount, signed |-> today, renews |-> renews,
                    seasons |-> IF kind \in {"seasonal_installments", "seasonal_yia"} THEN seasons ELSE 1]
  /\ UNCHANGED <<today, bills, asOf>>

NextDay ==
  /\ today < LastDay
  /\ today' = today + 1
  /\ UNCHANGED <<terms, bills, asOf>>

(* raiseScheduledInvoices, on whichever days the run comes round, in the   *)
(* schedule's order.  invoices_contract_period_unique lets a contract have *)
(* one bill that starts on a day; the one of the first season stays.       *)
RaiseScheduled ==
  /\ terms # NoTerms
  /\ bills' = bills \cup {e \in Due(terms, today) :
                 /\ ~\E b \in bills : b[1] = e[1]
                 /\ ~\E d \in Due(terms, today) : d[1] = e[1] /\ d[4] < e[4]}
  /\ asOf' = today
  /\ UNCHANGED <<today, terms>>

Next == Sign \/ NextDay \/ RaiseScheduled

Spec == Init /\ [][Next]_scheduleVars

-----------------------------------------------------------------------------
(* What was agreed for a season, and what it was billed. *)
Agreed(t, s) ==
  CASE t.kind = "seasonal_installments" -> IF s < t.seasons \/ t.renews THEN t.net ELSE 0
    [] t.kind = "seasonal_yia"          -> IF s = 0 THEN t.net * t.seasons ELSE IF s >= t.seasons /\ t.renews THEN t.net ELSE 0
    [] t.kind = "monthly_one_time"      -> IF s = 0 THEN t.net ELSE 0
    [] t.kind = "monthly_recurring"     -> IF s = 0 \/ t.renews
                                             THEN t.net * Cardinality({m \in 0..(SeasonMonths - 1) :
                                                            StartOf(s) + (m + 1) * MonthDays > t.signed})
                                             ELSE 0

(* Each payment of a plan has a day of its own: seasons do not overlap, the *)
(* customer signed by the end of the first one, and the last of its         *)
(* payments comes before the next season's first.                          *)
KeepsApart(t) ==
  /\ EndOf(0) < StartOf(1)
  /\ t.signed <= EndOf(0)
  /\ t.kind = "seasonal_installments" => DueOn(t, 0, t.n - 1) < StartOf(1)

BilledFor(s)     == MapThenSumSet(LAMBDA b : b[2], {b \in bills : b[4] = s})
OverAndBilled(s) == terms # NoTerms /\ asOf >= StartOf(s + 1) + SeasonMonths * MonthDays

(* However many nights the run was missed, the bills of a season that is   *)
(* over add up to what was agreed for it, to the cent, whenever in it the  *)
(* customer signed, and the tax of the commitment to what was agreed       *)
(* (serviceAgreement.ts: "so the five always add up to the season").       *)
SeasonAddsUp ==
  /\ \A s \in 0..MaxSeason : OverAndBilled(s) => BilledFor(s) = Agreed(terms, s)
  /\ OverAndBilled(Max(Seasons) - 1) /\ terms.kind # "monthly_recurring" =>
       MapThenSumSet(LAMBDA b : b[2] + b[3], {b \in bills : b[4] < terms.seasons}) = CommitmentTotal(terms)

(* Whatever was agreed, also where two payments fall on one day: nothing   *)
(* is billed but payments of the schedule that were due when the run last  *)
(* came round, and then every day with one of them has its bill.           *)
DueDaysBilled ==
  terms # NoTerms =>
    /\ bills \subseteq Due(terms, asOf)
    /\ bills # {} => \A e \in Due(terms, asOf) : \E b \in bills : b[1] = e[1]
=============================================================================
