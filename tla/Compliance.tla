----------------------------- MODULE Compliance -----------------------------
(***************************************************************************)
(* Whether an operator may be given work: the documents on file, the       *)
(* review of them, users.onboarding_status, which services/operators.ts    *)
(* keeps up with the documents, and the nightly sweep of                   *)
(* jobs/documentExpiry.ts, which suspends and reminds.                     *)
(*                                                                         *)
(* Nothing here runs in a transaction.  A request that submits or reviews  *)
(* a document writes the document, and then reads the user, reads the      *)
(* documents and writes the user, each in a query of its own; the sweep    *)
(* expires every document in one query and suspends one operator after the *)
(* other.  They all interleave, and any of them may die half way.          *)
(***************************************************************************)
EXTENDS Naturals, FiniteSets

CONSTANTS
  Operators,
  Requirements,  \* the requirements of the operators' province
  Required,      \* those that are required, not just recorded
  Expiring,      \* those whose documents expire
  Documents,     \* ids for the rows of operator_documents
  Requests,      \* requests that submit or review a document
  Sweeps,        \* processes that run the nightly sweep
  Windows,       \* how many reminder windows there are; the code has 3
  MaxFaults      \* how many requests and sweeps may die half way

ASSUME ComplianceAssumption ==
  /\ Required \subseteq Requirements
  /\ Expiring \subseteq Requirements
  /\ Requests \cap Sweeps = {}
  /\ Windows \in Nat
  /\ MaxFaults \in Nat

(* How near a document's expiry date is: 0 once it has passed, w once it   *)
(* is within the w-th narrowest window, Far before that.  For the reminder *)
(* last sent, Far means none.                                              *)
Far       == Windows + 1
Nearness  == 0..Far
WindowSet == 1..Windows

OnboardingStatuses == {"pending", "docs_submitted", "approved", "suspended"}
DocumentStatuses   == {"none", "submitted", "approved", "rejected", "expired"}
Nobody             == "nobody"
NoDocument         == "no document"

VARIABLES
  onboarding,  \* users.onboarding_status
  overridden,  \* operators whose status corporate has set by hand
  complete,    \* operators who have had every required document approved at once
  overtaken,   \* operators whose documents changed between a request's judging and writing
  owner,       \* operator_documents.user_id
  meets,       \* operator_documents.requirement_code
  status,      \* operator_documents.status
  nearness,    \* how near operator_documents.expires_on is
  reminded,    \* operator_documents.last_reminder_days
  warned,      \* how often a warning was queued for a document and window
  pc,          \* where each request is
  about,       \* the operator it is about
  reviewing,   \* the document it reviews
  seen,        \* the onboarding status it read
  judged,      \* the one it has decided on
  step,        \* where each sweep is
  expired,     \* the documents it has expired
  todo,        \* the operators it has yet to look at
  due,         \* the reminders it has yet to send
  noting,      \* the reminder it has queued and not noted yet
  faults

people    == <<onboarding, overridden, complete, overtaken>>
papers    == <<owner, meets, status, nearness>>
reminders == <<reminded, warned>>
requests  == <<pc, about, reviewing, seen, judged>>
sweeps    == <<step, expired, todo, due, noting>>
vars      == <<people, papers, reminders, requests, sweeps, faults>>

TypeOK ==
  /\ onboarding \in [Operators -> OnboardingStatuses]
  /\ overridden \subseteq Operators
  /\ complete   \subseteq Operators
  /\ overtaken  \subseteq Operators
  /\ owner      \in [Documents -> Operators \cup {Nobody}]
  /\ meets      \in [Documents -> Requirements \cup {"none"}]
  /\ status     \in [Documents -> DocumentStatuses]
  /\ nearness   \in [Documents -> Nearness]
  /\ reminded   \in [Documents -> 1..Far]
  /\ warned     \in [Documents \X WindowSet -> Nat]
  /\ pc         \in [Requests -> {"idle", "review", "refresh", "judge", "write"}]
  /\ about      \in [Requests -> Operators \cup {Nobody}]
  /\ reviewing  \in [Requests -> Documents \cup {NoDocument}]
  /\ seen       \in [Requests -> OnboardingStatuses]
  /\ judged     \in [Requests -> OnboardingStatuses]
  /\ step       \in [Sweeps -> {"idle", "suspend", "remind", "note"}]
  /\ expired    \in [Sweeps -> SUBSET Documents]
  /\ todo       \in [Sweeps -> SUBSET Operators]
  /\ due        \in [Sweeps -> SUBSET (Documents \X WindowSet)]
  /\ noting     \in [Sweeps -> SUBSET (Documents \X WindowSet)]
  /\ faults     \in Nat
  /\ \A d \in Documents : status[d] # "none" => owner[d] \in Operators
  /\ \A q \in Requests : pc[q] # "idle" => about[q] \in Operators
  /\ \A q \in Requests : pc[q] = "review" =>
       reviewing[q] \in Documents /\ status[reviewing[q]] # "none" /\ owner[reviewing[q]] = about[q]

Live(d)       == status[d] \in {"submitted", "approved"}
For(o, r)     == {d \in Documents : owner[d] = o /\ meets[d] = r}
Approved(o, r) == \E d \in For(o, r) : status[d] = "approved"
Missing(o)    == {r \in Required : ~Approved(o, r)}

(* operator_documents_active_unique: one live document per requirement. *)
MayGoLive(d, o, r) == \A e \in For(o, r) : e # d => ~Live(e)

Init ==
  /\ onboarding = [o \in Operators |-> "pending"]
  /\ overridden = {}
  /\ complete   = {o \in Operators : Required = {}}
  /\ overtaken  = {}
  /\ owner      = [d \in Documents |-> Nobody]
  /\ meets      = [d \in Documents |-> "none"]
  /\ status     = [d \in Documents |-> "none"]
  /\ nearness   = [d \in Documents |-> Far]
  /\ reminded   = [d \in Documents |-> Far]
  /\ warned     = [r \in Documents \X WindowSet |-> 0]
  /\ pc         = [q \in Requests |-> "idle"]
  /\ about      = [q \in Requests |-> Nobody]
  /\ reviewing  = [q \in Requests |-> NoDocument]
  /\ seen       = [q \in Requests |-> "pending"]
  /\ judged     = [q \in Requests |-> "pending"]
  /\ step       = [s \in Sweeps |-> "idle"]
  /\ expired    = [s \in Sweeps |-> {}]
  /\ todo       = [s \in Sweeps |-> {}]
  /\ due        = [s \in Sweeps |-> {}]
  /\ noting     = [s \in Sweeps |-> {}]
  /\ faults     = 0

-----------------------------------------------------------------------------
Finish(q) ==
  /\ pc'        = [pc EXCEPT ![q] = "idle"]
  /\ about'     = [about EXCEPT ![q] = Nobody]
  /\ reviewing' = [reviewing EXCEPT ![q] = NoDocument]
  /\ seen'      = [seen EXCEPT ![q] = "pending"]
  /\ judged'    = [judged EXCEPT ![q] = "pending"]

(* submitDocument, up to refreshOnboardingStatus. *)
SubmitDocument(q, d, o, r, near) ==
  /\ pc[q] = "idle"
  /\ status[d] = "none"
  /\ MayGoLive(d, o, r)
  /\ r \in Expiring \/ near = Far
  /\ owner'    = [owner EXCEPT ![d] = o]
  /\ meets'    = [meets EXCEPT ![d] = r]
  /\ status'   = [status EXCEPT ![d] = "submitted"]
  /\ nearness' = [nearness EXCEPT ![d] = near]
  /\ pc'       = [pc EXCEPT ![q] = "refresh"]
  /\ about'    = [about EXCEPT ![q] = o]
  /\ UNCHANGED <<people, reminders, reviewing, seen, judged, sweeps, faults>>

(* reviewDocument reads the document: only a submitted one is reviewed. *)
ReviewDocument(q, d) ==
  /\ pc[q] = "idle"
  /\ status[d] = "submitted"
  /\ pc'        = [pc EXCEPT ![q] = "review"]
  /\ about'     = [about EXCEPT ![q] = owner[d]]
  /\ reviewing' = [reviewing EXCEPT ![q] = d]
  /\ UNCHANGED <<people, papers, reminders, seen, judged, sweeps, faults>>

(* Whoever's documents change while a request that has judged them has yet *)
(* to write: what it writes is out of date.                                *)
OvertakenBy(changed) ==
  overtaken \cup {o \in Operators :
    /\ \E q \in Requests  : pc[q] = "write" /\ about[q] = o
    /\ \E d \in changed : owner[d] = o}

(* Mutant: a rejection, which approves nobody, is not followed by a refresh. *)
ReviewRefreshingApprovals(q, verdict) ==
  LET d       == reviewing[q]
      refused == verdict = "approved" /\ ~MayGoLive(d, owner[d], meets[d]) IN
  /\ pc[q] = "review"
  /\ IF refused
       THEN Finish(q) /\ UNCHANGED <<status, overtaken>>
       ELSE /\ status'    = [status EXCEPT ![d] = verdict]
            /\ overtaken' = OvertakenBy({d})
            /\ IF verdict = "rejected"
                 THEN Finish(q)
                 ELSE /\ pc'        = [pc EXCEPT ![q] = "refresh"]
                      /\ reviewing' = [reviewing EXCEPT ![q] = NoDocument]
                      /\ UNCHANGED <<about, seen, judged>>
  /\ UNCHANGED <<onboarding, overridden, owner, meets, nearness, reminders, sweeps, faults>>
  /\ complete' = complete \cup {o \in Operators : Missing(o)' = {}}

(* Its update, by id: whatever has become of the document since.  The      *)
(* unique index refuses to bring back one that has a successor on file.    *)
Review(q, verdict) ==
  LET d       == reviewing[q]
      refused == verdict = "approved" /\ ~MayGoLive(d, owner[d], meets[d]) IN
  /\ pc[q] = "review"
  /\ IF refused
       THEN Finish(q) /\ UNCHANGED <<status, overtaken>>
       ELSE /\ status'    = [status EXCEPT ![d] = verdict]
            /\ overtaken' = OvertakenBy({d})
            /\ pc'        = [pc EXCEPT ![q] = "refresh"]
            /\ reviewing' = [reviewing EXCEPT ![q] = NoDocument]
            /\ UNCHANGED <<about, seen, judged>>
  /\ UNCHANGED <<onboarding, overridden, owner, meets, nearness, reminders, sweeps, faults>>
  /\ complete' = complete \cup {o \in Operators : Missing(o)' = {}}

-----------------------------------------------------------------------------
(* Mutant: a document that is on file counts before it is approved. *)
StatusOnFile(o) ==
  IF \A r \in Required : \E d \in For(o, r) : Live(d)
    THEN "approved"
    ELSE IF \E d \in Documents : owner[d] = o /\ Live(d) THEN "docs_submitted" ELSE "pending"

(* operatorCompliance, and what refreshOnboardingStatus makes of it. *)
StatusFor(o) ==
  IF Missing(o) = {}
    THEN "approved"
    ELSE IF \E d \in Documents : owner[d] = o /\ Live(d) THEN "docs_submitted" ELSE "pending"

(* refreshOnboardingStatus reads the user, and leaves a suspended one be. *)
ReadUser(q) ==
  /\ pc[q] = "refresh"
  /\ IF onboarding[about[q]] = "suspended"
       THEN Finish(q)
       ELSE /\ pc'   = [pc EXCEPT ![q] = "judge"]
            /\ seen' = [seen EXCEPT ![q] = onboarding[about[q]]]
            /\ UNCHANGED <<about, reviewing, judged>>
  /\ UNCHANGED <<people, papers, reminders, sweeps, faults>>

(* It reads the documents. *)
ReadDocuments(q) ==
  /\ pc[q] = "judge"
  /\ pc'     = [pc EXCEPT ![q] = "write"]
  /\ judged' = [judged EXCEPT ![q] = StatusFor(about[q])]
  /\ UNCHANGED <<people, papers, reminders, about, reviewing, seen, sweeps, faults>>

(* Mutant: an operator is not promoted a second time. *)
WriteOnlyFirst(q) ==
  /\ pc[q] = "write"
  /\ onboarding' = IF seen[q] = "pending" THEN [onboarding EXCEPT ![about[q]] = judged[q]] ELSE onboarding
  /\ Finish(q)
  /\ UNCHANGED <<overridden, complete, overtaken, papers, reminders, sweeps, faults>>

(* It writes the user, if what it read was something else. *)
WriteStatus(q) ==
  /\ pc[q] = "write"
  /\ onboarding' = IF judged[q] # seen[q] THEN [onboarding EXCEPT ![about[q]] = judged[q]] ELSE onboarding
  /\ Finish(q)
  /\ UNCHANGED <<overridden, complete, overtaken, papers, reminders, sweeps, faults>>

(* PATCH /users/:id: corporate sets the status, to whatever it likes. *)
SetOnboarding(o, to) ==
  /\ onboarding[o] # to
  /\ onboarding' = [onboarding EXCEPT ![o] = to]
  /\ overridden' = overridden \cup {o}
  /\ UNCHANGED <<complete, overtaken, papers, reminders, requests, sweeps, faults>>

-----------------------------------------------------------------------------
(* Days pass between two sweeps, and a document's date comes nearer.       *)
DaysPass(d) ==
  /\ \A s \in Sweeps : step[s] = "idle"
  /\ Live(d)
  /\ meets[d] \in Expiring
  /\ nearness[d] > 0
  /\ nearness' = [nearness EXCEPT ![d] = @ - 1]
  /\ UNCHANGED <<people, owner, meets, status, reminders, requests, sweeps, faults>>

(* runDocumentExpiry, first query: approved documents past their date. *)
Expire(s) ==
  LET gone == {d \in Documents : status[d] = "approved" /\ meets[d] \in Expiring /\ nearness[d] = 0} IN
  /\ step[s] = "idle"
  /\ status'  = [d \in Documents |-> IF d \in gone THEN "expired" ELSE status[d]]
  /\ expired' = [expired EXCEPT ![s] = gone]
  /\ todo'    = [todo EXCEPT ![s] = {owner[d] : d \in gone}]
  /\ step'    = [step EXCEPT ![s] = "suspend"]
  /\ overtaken' = OvertakenBy(gone)
  /\ UNCHANGED <<onboarding, overridden, complete, owner, meets, nearness, reminders, requests, due, noting, faults>>

(* The documents, of whatever age, that stand against an operator. *)
HasLostRequired(o) == \E d \in Documents : owner[d] = o /\ status[d] = "expired" /\ meets[d] \in Required

(* Mutant: only an approved operator is suspended. *)
SuspendApproved(s, o) ==
  /\ step[s] = "suspend"
  /\ o \in todo[s]
  /\ todo' = [todo EXCEPT ![s] = @ \ {o}]
  /\ onboarding' = IF HasLostRequired(o) /\ onboarding[o] = "approved"
                     THEN [onboarding EXCEPT ![o] = "suspended"] ELSE onboarding
  /\ UNCHANGED <<overridden, complete, overtaken, papers, reminders, requests, step, expired, due, noting, faults>>

(* Each operator who lost a document, one after the other.  The notices of *)
(* the suspension go to the queue in the same step.                        *)
Suspend(s, o) ==
  /\ step[s] = "suspend"
  /\ o \in todo[s]
  /\ todo' = [todo EXCEPT ![s] = @ \ {o}]
  /\ onboarding' = IF HasLostRequired(o) THEN [onboarding EXCEPT ![o] = "suspended"] ELSE onboarding
  /\ UNCHANGED <<overridden, complete, overtaken, papers, reminders, requests, step, expired, due, noting, faults>>

(* Mutant: a reminder is due again for as long as its window lasts. *)
DueEveryNight(d) == status[d] = "approved" /\ nearness[d] \in WindowSet /\ nearness[d] <= reminded[d]

(* A reminder is due if none went out for this window or a narrower one. *)
Due(d) == status[d] = "approved" /\ nearness[d] \in WindowSet /\ nearness[d] < reminded[d]

FindDue(s) ==
  /\ step[s] = "suspend"
  /\ todo[s] = {}
  /\ due'  = [due EXCEPT ![s] = {<<d, nearness[d]>> : d \in {e \in Documents : Due(e)}}]
  /\ expired' = [expired EXCEPT ![s] = {}]
  /\ step' = [step EXCEPT ![s] = "remind"]
  /\ UNCHANGED <<people, papers, reminders, requests, todo, noting, faults>>

(* A warning is queued, ... *)
Warn(s, r) ==
  /\ step[s] = "remind"
  /\ r \in due[s]
  /\ warned' = [warned EXCEPT ![r] = @ + 1]
  /\ due'    = [due EXCEPT ![s] = @ \ {r}]
  /\ noting' = [noting EXCEPT ![s] = {r}]
  /\ step'   = [step EXCEPT ![s] = "note"]
  /\ UNCHANGED <<people, papers, reminded, requests, expired, todo, faults>>

(* ... and only then is it noted that it was. *)
Note(s, r) ==
  /\ step[s] = "note"
  /\ r \in noting[s]
  /\ reminded' = [reminded EXCEPT ![r[1]] = r[2]]
  /\ noting'   = [noting EXCEPT ![s] = {}]
  /\ step'     = [step EXCEPT ![s] = "remind"]
  /\ UNCHANGED <<people, papers, warned, requests, expired, todo, due, faults>>

EndSweep(s) ==
  /\ step'    = [step EXCEPT ![s] = "idle"]
  /\ expired' = [expired EXCEPT ![s] = {}]
  /\ todo'    = [todo EXCEPT ![s] = {}]
  /\ due'     = [due EXCEPT ![s] = {}]
  /\ noting'  = [noting EXCEPT ![s] = {}]
  /\ UNCHANGED <<people, papers, reminders, requests>>

SweepDone(s) ==
  /\ step[s] = "remind"
  /\ due[s] = {}
  /\ EndSweep(s)
  /\ UNCHANGED faults

-----------------------------------------------------------------------------
(* A query fails, or the process stops, between two steps. *)
SweepDies(s) ==
  /\ step[s] # "idle"
  /\ faults < MaxFaults
  /\ faults' = faults + 1
  /\ EndSweep(s)

RequestDies(q) ==
  /\ pc[q] # "idle"
  /\ faults < MaxFaults
  /\ faults' = faults + 1
  /\ Finish(q)
  /\ UNCHANGED <<people, papers, reminders, sweeps>>

NewRequest(q) ==
  \/ \E d \in Documents, o \in Operators, r \in Requirements, near \in Nearness :
       SubmitDocument(q, d, o, r, near)
  \/ \E d \in Documents : ReviewDocument(q, d)

RequestStep(q) ==
  \/ \E verdict \in {"approved", "rejected"} : Review(q, verdict)
  \/ ReadUser(q)
  \/ ReadDocuments(q)
  \/ WriteStatus(q)

SweepStep(s) ==
  \/ Expire(s)
  \/ \E o \in Operators : Suspend(s, o)
  \/ FindDue(s)
  \/ \E r \in Documents \X WindowSet : Warn(s, r) \/ Note(s, r)
  \/ SweepDone(s)

Corporate == \E o \in Operators, to \in OnboardingStatuses : SetOnboarding(o, to)

Next ==
  \/ \E q \in Requests : NewRequest(q) \/ RequestStep(q) \/ RequestDies(q)
  \/ \E s \in Sweeps : SweepStep(s) \/ SweepDies(s)
  \/ \E d \in Documents : DaysPass(d)
  \/ Corporate

Spec == Init /\ [][Next]_vars

(* The sweep runs every night. *)
FairSpec == Spec /\ \A s \in Sweeps : WF_vars(SweepStep(s))

-----------------------------------------------------------------------------
(* Nobody is assignable who never was compliant.  onboarding_status =      *)
(* 'approved' is all that assertOperatorAssignable looks at: whoever has   *)
(* it had, at some moment, an approved document for every required         *)
(* requirement, or was given it by corporate.                              *)
EverComplete ==
  \A o \in Operators : onboarding[o] = "approved" => o \in complete \cup overridden

(* What EverComplete rests on: a request about to approve an operator has  *)
(* seen the operator complete, and completeness is never seen unrecorded.  *)
ComplianceInv ==
  /\ EverComplete
  /\ \A q \in Requests : pc[q] = "write" /\ judged[q] = "approved" => about[q] \in complete
  /\ \A o \in Operators : Missing(o) = {} => o \in complete

OneSweep == \A s, t \in Sweeps : s = t

(* No request that died, and none at work on the operator; nor has another *)
(* decision or the sweep come between the reading of their documents and   *)
(* the writing of their status, which is by id and would be out of date.   *)
Refreshing(q) == pc[q] \in {"refresh", "judge", "write"}

AtRest(o) ==
  /\ faults = 0
  /\ o \notin overtaken
  /\ \A q \in Requests : Refreshing(q) => about[q] # o

(* Nobody is left behind: an operator whose required documents are all     *)
(* approved is approved once the requests about them are answered, unless  *)
(* suspended or put somewhere else by corporate, however many requests and *)
(* sweeps were at work.  What refreshOnboardingStatus reads in one query   *)
(* and writes in another breaks it in one way only, which overtaken names. *)
Settled(o) == onboarding[o] \in {"approved", "suspended"} \/ o \in overridden

NobodyLeftBehind ==
  \A o \in Operators : AtRest(o) /\ Missing(o) = {} => Settled(o)

(* Nobody works uncovered: an operator who is approved has every required  *)
(* document approved, unless put there by corporate or about to be         *)
(* suspended by the sweep that expired one, also where two reviewers have  *)
(* decided the same document one over the other.                           *)
NobodyUncovered ==
  \A o \in Operators :
    AtRest(o) /\ onboarding[o] = "approved" =>
      \/ Missing(o) = {}
      \/ o \in overridden
      \/ \E s \in Sweeps : o \in todo[s]

(* Why, as an inductive invariant: what a request is about to write agrees *)
(* with the documents as they are, and whoever's status does not agree     *)
(* with them has a request at work that has yet to read the status, or has *)
(* read it as it is, or a sweep that will come to them.                    *)
JudgedRight(q) ==
  pc[q] = "write" /\ about[q] \notin overtaken =>
    (judged[q] = "approved" <=> Missing(about[q]) = {})

WillPromote(q, o) ==
  /\ about[q] = o
  /\ pc[q] = "refresh" \/ (pc[q] \in {"judge", "write"} /\ seen[q] # "approved")

WillDemote(q, o) ==
  /\ about[q] = o
  /\ pc[q] = "refresh" \/ (pc[q] \in {"judge", "write"} /\ seen[q] = "approved")

WillSuspend(s, o) == step[s] = "suspend" /\ o \in todo[s] /\ HasLostRequired(o)

UpIsSeenTo(o) == Missing(o) = {} => Settled(o) \/ \E q \in Requests : WillPromote(q, o)

DownIsSeenTo(o) ==
  onboarding[o] = "approved" /\ o \notin overridden =>
    \/ Missing(o) = {}
    \/ \E q \in Requests : WillDemote(q, o)
    \/ \E s \in Sweeps : WillSuspend(s, o)

AttendedInv ==
  /\ \A q \in Requests : JudgedRight(q)
  /\ faults = 0 => \A o \in Operators \ overtaken : UpIsSeenTo(o) /\ DownIsSeenTo(o)

(* "Each window is only ever sent once": an operator hears of a document   *)
(* once per window, but for the sweeps that died between queueing the      *)
(* warning and noting it.                                                  *)
WarnedOnce == \A r \in Documents \X WindowSet : warned[r] <= 1 + faults

(* Why, as an inductive invariant: a warning that is due or was just       *)
(* queued is for a window no reminder was noted for, one for each          *)
(* document; and each one queued was noted since, or is about to be, or    *)
(* its sweep died.                                                         *)
Pending(s) == due[s] \cup noting[s]

PendingHolds(s) ==
  /\ \A r \in Pending(s) : r[2] < reminded[r[1]]
  /\ \A r, t \in Pending(s) : r[1] = t[1] => r = t
  /\ due[s] \cap noting[s] = {}
  /\ \A r, t \in noting[s] : r = t
  /\ step[s] # "note" => noting[s] = {}
  /\ step[s] \in {"idle", "suspend"} => due[s] = {}

Accounted(r) == reminded[r[1]] <= r[2] \/ \E s \in Sweeps : r \in noting[s]

WarnInv ==
  OneSweep =>
    /\ \A s \in Sweeps : PendingHolds(s)
    /\ \A r \in Documents \X WindowSet : warned[r] <= (IF Accounted(r) THEN 1 ELSE 0) + faults

(* Every lapse suspends: an approved document that is required and past    *)
(* its date ends with its operator suspended by a sweep, in whatever state *)
(* the requests are.  Only a sweep that dies after expiring the document,  *)
(* and before it comes to the operator, lets one go; and a second reviewer *)
(* who had read the document before it was approved may reject it yet.     *)
Lapsed(d) == status[d] = "approved" /\ meets[d] \in Required \cap Expiring /\ nearness[d] = 0
EveryLapseSuspends ==
  \A d \in Documents, o \in Operators :
    Lapsed(d) /\ owner[d] = o ~> onboarding[o] = "suspended" \/ status[d] = "rejected" \/ faults > 0

(* What documentExpiry.ts says of its second query: "Suspend operators who *)
(* just lost a required document".  Whoever a sweep suspends had a         *)
(* required document among those the sweep expired, or at least has a      *)
(* requirement that no approved document meets.                            *)
OnlyLossSuspends ==
  [][\A s \in Sweeps, o \in Operators :
       o \in todo[s] /\ onboarding[o] # "suspended" /\ onboarding'[o] = "suspended" /\ o \notin todo'[s]
         => Missing(o) # {} \/ \E d \in expired[s] : owner[d] = o /\ meets[d] \in Required]_vars

(* What the README says: "A suspension is only lifted by corporate, never  *)
(* by the automatic refresh".  No step of a request takes an operator out  *)
(* of suspension.                                                          *)
SuspensionStands ==
  [][\A o \in Operators : onboarding[o] = "suspended" /\ pc' # pc => onboarding'[o] = "suspended"]_vars
=============================================================================
