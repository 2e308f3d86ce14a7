------------------------------- MODULE Reviews -------------------------------
(***************************************************************************)
(* Asking for a rating, and the answer: services/reviews.ts.               *)
(*                                                                         *)
(* A run lists the visits nobody was asked about and takes them one by     *)
(* one: it looks whether the customer was asked lately, and then inserts   *)
(* the request and queues the message in one transaction.  A customer      *)
(* answers by a link; a low rating is told to the manager after it was     *)
(* recorded.                                                               *)
(***************************************************************************)
EXTENDS Naturals, FiniteSets, Sequences, SequencesExt

CONSTANTS
  Jobs,         \* Visits that may be finished (work_orders.id)
  CustomerOf,   \* [Jobs -> customers]
  Rounds,       \* runs of the job at once
  Taps,         \* requests for a rating link being handled
  Ratings,      \* the stars that are tapped
  GoodRating,
  MaxDays,      \* Bound: days
  Cooldown,     \* COOLDOWN_DAYS, scaled down
  Lookback,     \* LOOKBACK_DAYS, scaled down
  MaxCrashes    \* Bound: runs that stop half way

VARIABLES
  day,
  finished,   \* [Jobs -> day it was finished, or Never]
  asked,      \* review_requests, by visit: the day sent, the rating given
  round,      \* what each run has yet to take, and the one it decided on
  tap,        \* what each tap has recorded and not yet told
  alerts,     \* messages to the manager, by visit
  crashes

reviewVars == <<day, finished, asked, round, tap, alerts, crashes>>

Never   == MaxDays + 1
Unasked == [sent |-> Never, rating |-> 0]
Resting == [left |-> <<>>, taken |-> {}]
Idle    == [doing |-> "idle"]

Init ==
  /\ day = 0
  /\ finished = [j \in Jobs |-> Never]
  /\ asked = [j \in Jobs |-> Unasked]
  /\ round = [r \in Rounds |-> Resting]
  /\ tap = [t \in Taps |-> Idle]
  /\ alerts = [j \in Jobs |-> 0]
  /\ crashes = 0

WasAsked(j) == asked[j] # Unasked

ReviewsTypeOK ==
  /\ day \in 0..MaxDays
  /\ finished \in [Jobs -> 0..Never]
  /\ asked \in [Jobs -> [sent : 0..Never, rating : Ratings \cup {0}]]
  /\ \A j \in Jobs : WasAsked(j) => asked[j].sent <= day
  /\ round \in [Rounds -> [left : Seq(Jobs), taken : SUBSET Jobs]]
  /\ tap \in [Taps -> {Idle} \cup [doing : {"telling"}, about : Jobs]]
  /\ alerts \in [Jobs -> Nat]
  /\ crashes \in 0..MaxCrashes

-----------------------------------------------------------------------------
CompleteVisit(j) ==
  /\ finished[j] = Never
  /\ finished' = [finished EXCEPT ![j] = day]
  /\ UNCHANGED <<day, asked, round, tap, alerts, crashes>>

NextDay ==
  /\ day < MaxDays
  /\ day' = day + 1
  /\ UNCHANGED <<finished, asked, round, tap, alerts, crashes>>

(* runReviewRequests: the visits a day old, not too old and not asked about *)
(* (their order is theirs of completion; the model takes any).             *)
Candidates == {j \in Jobs : finished[j] < day /\ finished[j] + Lookback >= day /\ ~WasAsked(j)}

StartRound(r) ==
  /\ round[r] = Resting
  /\ Candidates # {}
  /\ \E list \in SetToSeqs(Candidates) : round' = [round EXCEPT ![r].left = list]
  /\ UNCHANGED <<day, finished, asked, tap, alerts, crashes>>

(* Mutant: only this visit is looked at, not its customer's others. *)
LatelyAtAll(c) == \E j \in Jobs : CustomerOf[j] = c /\ WasAsked(j) /\ asked[j].sent > day

Lately(c) == \E j \in Jobs : CustomerOf[j] = c /\ WasAsked(j) /\ asked[j].sent + Cooldown >= day

(* The next one: skipped in the cooldown, or when nothing reaches them.    *)
Consider(r) ==
  /\ round[r].left # <<>> /\ round[r].taken = {}
  /\ \/ round' = [round EXCEPT ![r].left = Tail(@)]
        \* in the cooldown, or nothing on file to reach them by
     \/ /\ ~Lately(CustomerOf[Head(round[r].left)])
        /\ round' = [round EXCEPT ![r] = [left |-> Tail(@.left), taken |-> {Head(@.left)}]]
  /\ UNCHANGED <<day, finished, asked, tap, alerts, crashes>>

(* review_requests_work_order_unique: a second request for a visit fails,  *)
(* and with it the whole run.                                              *)
Ask(r) ==
  /\ \E j \in round[r].taken :
       IF WasAsked(j) THEN round' = [round EXCEPT ![r] = Resting] /\ UNCHANGED asked
                      ELSE /\ asked' = [asked EXCEPT ![j] = [sent |-> day, rating |-> 0]]
                           /\ round' = [round EXCEPT ![r].taken = {}]
  /\ UNCHANGED <<day, finished, tap, alerts, crashes>>

StopRound(r) ==
  /\ crashes < MaxCrashes
  /\ round[r] # Resting
  /\ crashes' = crashes + 1
  /\ round' = [round EXCEPT ![r] = Resting]
  /\ UNCHANGED <<day, finished, asked, tap, alerts>>

-----------------------------------------------------------------------------
(* Mutant: a later answer replaces the first. *)
AnswerableAgain(j) == TRUE

(* submitRating, one transaction under the request's lock.  The first      *)
(* answer counts, the same again is no error, another is refused.          *)
Answerable(j) == asked[j].rating = 0

Rate(t, j, stars) ==
  /\ tap[t] = Idle
  /\ WasAsked(j) /\ Answerable(j)
  /\ asked' = [asked EXCEPT ![j].rating = stars]
  /\ tap' = IF stars >= GoodRating THEN tap ELSE [tap EXCEPT ![t] = [doing |-> "telling", about |-> j]]
  /\ UNCHANGED <<day, finished, round, alerts, crashes>>

(* alertBranchManager, after it. *)
Alert(t) ==
  /\ tap[t].doing = "telling"
  /\ alerts' = [alerts EXCEPT ![tap[t].about] = @ + 1]
  /\ tap' = [tap EXCEPT ![t] = Idle]
  /\ UNCHANGED <<day, finished, asked, round, crashes>>

LoseAlert(t) ==
  /\ crashes < MaxCrashes
  /\ tap[t].doing = "telling"
  /\ crashes' = crashes + 1
  /\ tap' = [tap EXCEPT ![t] = Idle]
  /\ UNCHANGED <<day, finished, asked, round, alerts>>

Next ==
  \/ \E j \in Jobs : CompleteVisit(j)
  \/ NextDay
  \/ \E r \in Rounds : StartRound(r) \/ Consider(r) \/ Ask(r) \/ StopRound(r)
  \/ \E t \in Taps : Alert(t) \/ LoseAlert(t) \/ \E j \in Jobs, stars \in Ratings : Rate(t, j, stars)

Spec == Init /\ [][Next]_reviewVars

-----------------------------------------------------------------------------
(* Two requests to one customer are further apart than the cooldown. *)
AskedApart ==
  \A i, j \in Jobs : i # j /\ CustomerOf[i] = CustomerOf[j] /\ WasAsked(i) /\ WasAsked(j) =>
    asked[i].sent + Cooldown < asked[j].sent \/ asked[j].sent + Cooldown < asked[i].sent

Low(j) == asked[j].rating \in 1..(GoodRating - 1)

(* One run at a time, as the scheduler has it: a customer is not asked     *)
(* twice within the cooldown, in one run or in two with a crash between    *)
(* (reviews.ts: "two visits for the same customer in one run must not both *)
(* get an ask"); an answer is final, and a manager hears of a low one, and *)
(* only of a low one, at most once.                                        *)
AskedSparingly == AskedApart /\ \A j \in Jobs : alerts[j] <= 1 /\ (alerts[j] = 1 => Low(j))

(* Why, as an inductive invariant: the customer of a visit that a run has  *)
(* decided on was not asked lately; an alert on its way is of a low        *)
(* rating, the only one on its way or told for its visit.                  *)
OneRound == \A r, s \in Rounds : r = s

Telling(t) == tap[t] # Idle

RoundInv == OneRound => AskedApart /\ \A r \in Rounds : \A j \in round[r].taken : ~Lately(CustomerOf[j])

AlertInv ==
  /\ \A t \in Taps : Telling(t) => Low(tap[t].about) /\ alerts[tap[t].about] = 0
  /\ \A t, u \in Taps : Telling(t) /\ Telling(u) /\ tap[t].about = tap[u].about => t = u
  /\ \A j \in Jobs : alerts[j] <= 1 /\ (alerts[j] = 1 => Low(j))

(* reviews.ts: "A rating of 3 or less is a problem report, so a person     *)
(* hears about it."  Not so when the process stops before it is told.      *)
LowIsHeard ==
  \A j \in Jobs : Low(j) =>
    alerts[j] = 1 \/ \E t \in Taps : tap[t].doing = "telling" /\ tap[t].about = j
=============================================================================
