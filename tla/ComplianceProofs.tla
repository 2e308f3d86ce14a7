-------------------------- MODULE ComplianceProofs --------------------------
(***************************************************************************)
(* Proofs about module Compliance, for any number of operators, documents, *)
(* requests, sweeps, windows and deaths half way.                          *)
(***************************************************************************)
EXTENDS Compliance, TLAPS

LEMMA NearnessFacts ==
  /\ Far \in Nearness /\ Far \in 1..Far
  /\ WindowSet \subseteq Nearness /\ WindowSet \subseteq 1..Far
  /\ \A n \in Nearness : n > 0 => n - 1 \in Nearness
BY ComplianceAssumption DEF Far, Nearness, WindowSet

LEMMA StatusForTyped == \A o : StatusFor(o) \in {"pending", "docs_submitted", "approved"}
BY DEF StatusFor

LEMMA FinishTyped ==
  ASSUME TypeOK, NEW q \in Requests, Finish(q), UNCHANGED <<status, owner>>
  PROVE  /\ pc'        \in [Requests -> {"idle", "review", "refresh", "judge", "write"}]
         /\ about'     \in [Requests -> Operators \cup {Nobody}]
         /\ reviewing' \in [Requests -> Documents \cup {NoDocument}]
         /\ seen'      \in [Requests -> OnboardingStatuses]
         /\ judged'    \in [Requests -> OnboardingStatuses]
         /\ \A p \in Requests : pc'[p] # "idle" => about'[p] \in Operators
         /\ \A p \in Requests : pc'[p] = "review" =>
              /\ reviewing'[p] \in Documents
              /\ status'[reviewing'[p]] # "none"
              /\ owner'[reviewing'[p]] = about'[p]
<1>1. /\ pc'        \in [Requests -> {"idle", "review", "refresh", "judge", "write"}]
      /\ about'     \in [Requests -> Operators \cup {Nobody}]
      /\ reviewing' \in [Requests -> Documents \cup {NoDocument}]
      /\ seen'      \in [Requests -> OnboardingStatuses]
      /\ judged'    \in [Requests -> OnboardingStatuses]
  BY DEF Finish, TypeOK, OnboardingStatuses
<1>2. pc'[q] = "idle"
  BY DEF Finish, TypeOK
<1>3. \A p \in Requests \ {q} : pc'[p] = pc[p] /\ about'[p] = about[p] /\ reviewing'[p] = reviewing[p]
  BY DEF Finish, TypeOK
<1>4. QED
  BY <1>1, <1>2, <1>3 DEF TypeOK

LEMMA EndSweepTyped ==
  ASSUME TypeOK, NEW s \in Sweeps, EndSweep(s), faults' \in Nat
  PROVE  TypeOK'
BY DEF EndSweep, TypeOK, people, papers, reminders, requests

-----------------------------------------------------------------------------
LEMMA SubmitTyped ==
  ASSUME TypeOK, NEW q \in Requests, NEW d \in Documents, NEW o \in Operators,
         NEW r \in Requirements, NEW near \in Nearness, SubmitDocument(q, d, o, r, near)
  PROVE  TypeOK'
<1>1. /\ owner'    \in [Documents -> Operators \cup {Nobody}]
      /\ meets'    \in [Documents -> Requirements \cup {"none"}]
      /\ status'   \in [Documents -> DocumentStatuses]
      /\ nearness' \in [Documents -> Nearness]
  BY DEF SubmitDocument, TypeOK, DocumentStatuses
<1>2. \A e \in Documents : status'[e] # "none" => owner'[e] \in Operators
  BY DEF SubmitDocument, TypeOK
<1>3. /\ pc'    \in [Requests -> {"idle", "review", "refresh", "judge", "write"}]
      /\ about' \in [Requests -> Operators \cup {Nobody}]
      /\ \A p \in Requests : pc'[p] # "idle" => about'[p] \in Operators
  BY DEF SubmitDocument, TypeOK
<1>4. ASSUME NEW p \in Requests, pc'[p] = "review"
      PROVE  reviewing'[p] \in Documents /\ status'[reviewing'[p]] # "none" /\ owner'[reviewing'[p]] = about'[p]
  <2>1. p # q /\ pc[p] = "review" /\ about'[p] = about[p] /\ reviewing' = reviewing
    BY <1>4 DEF SubmitDocument, TypeOK
  <2>2. reviewing[p] \in Documents /\ reviewing[p] # d
    BY <2>1 DEF SubmitDocument, TypeOK
  <2>3. QED
    BY <2>1, <2>2 DEF SubmitDocument, TypeOK
<1>5. QED
  BY <1>1, <1>2, <1>3, <1>4 DEF SubmitDocument, TypeOK, people, reminders, sweeps

LEMMA ReviewDocumentTyped ==
  ASSUME TypeOK, NEW q \in Requests, NEW d \in Documents, ReviewDocument(q, d)
  PROVE  TypeOK'
BY DEF ReviewDocument, TypeOK, people, papers, reminders, sweeps

LEMMA ReviewTyped ==
  ASSUME TypeOK, NEW q \in Requests, NEW verdict \in {"approved", "rejected"}, Review(q, verdict)
  PROVE  TypeOK'
<1>1. /\ UNCHANGED <<onboarding, overridden, owner, meets, nearness, reminders, sweeps, faults>>
      /\ complete' \subseteq Operators /\ overtaken' \subseteq Operators
  BY DEF Review, OvertakenBy, TypeOK
<1>2. CASE Finish(q) /\ UNCHANGED status
  BY <1>1, <1>2, FinishTyped DEF TypeOK, reminders, sweeps
<1>3. CASE /\ status' = [status EXCEPT ![reviewing[q]] = verdict]
           /\ pc'        = [pc EXCEPT ![q] = "refresh"]
           /\ reviewing' = [reviewing EXCEPT ![q] = NoDocument]
           /\ UNCHANGED <<about, seen, judged>>
  <2>1. reviewing[q] \in Documents /\ about[q] \in Operators /\ status[reviewing[q]] # "none"
    BY DEF Review, TypeOK
  <2>2. status' \in [Documents -> DocumentStatuses]
    BY <1>3, <2>1 DEF TypeOK, DocumentStatuses
  <2>3. \A d \in Documents : status'[d] = "none" <=> status[d] = "none"
    BY <1>3, <2>1 DEF TypeOK
  <2>4. QED
    BY <1>1, <1>3, <2>1, <2>2, <2>3 DEF TypeOK, reminders, sweeps
<1>4. QED
  BY <1>2, <1>3 DEF Review

LEMMA ReadUserTyped ==
  ASSUME TypeOK, NEW q \in Requests, ReadUser(q)
  PROVE  TypeOK'
<1>1. UNCHANGED <<people, papers, reminders, sweeps, faults>>
  BY DEF ReadUser
<1>2. CASE Finish(q)
  BY <1>1, <1>2, FinishTyped DEF TypeOK, people, papers, reminders, sweeps
<1>3. CASE /\ pc' = [pc EXCEPT ![q] = "judge"]
           /\ seen' = [seen EXCEPT ![q] = onboarding[about[q]]]
           /\ UNCHANGED <<about, reviewing, judged>>
  <2>1. about[q] \in Operators
    BY DEF ReadUser, TypeOK
  <2>2. QED
    BY <1>1, <1>3, <2>1 DEF TypeOK, people, papers, reminders, sweeps
<1>4. QED
  BY <1>2, <1>3 DEF ReadUser

LEMMA ReadDocumentsTyped ==
  ASSUME TypeOK, NEW q \in Requests, ReadDocuments(q)
  PROVE  TypeOK'
<1>1. StatusFor(about[q]) \in OnboardingStatuses
  BY StatusForTyped DEF OnboardingStatuses
<1>2. QED
  BY <1>1 DEF ReadDocuments, TypeOK, people, papers, reminders, sweeps

LEMMA WriteStatusTyped ==
  ASSUME TypeOK, NEW q \in Requests, WriteStatus(q)
  PROVE  TypeOK'
<1>1. about[q] \in Operators
  BY DEF WriteStatus, TypeOK
<1>2. onboarding' \in [Operators -> OnboardingStatuses]
  BY <1>1 DEF WriteStatus, TypeOK
<1>3. Finish(q) /\ UNCHANGED <<overridden, complete, overtaken, papers, reminders, sweeps, faults>>
  BY DEF WriteStatus
<1>4. QED
  BY <1>2, <1>3, FinishTyped DEF TypeOK, papers, reminders, sweeps

LEMMA RequestTyped ==
  ASSUME TypeOK, NEW q \in Requests, NewRequest(q) \/ RequestStep(q) \/ RequestDies(q)
  PROVE  TypeOK'
<1>1. CASE NewRequest(q)
  BY <1>1, SubmitTyped, ReviewDocumentTyped DEF NewRequest
<1>2. CASE \E verdict \in {"approved", "rejected"} : Review(q, verdict)
  BY <1>2, ReviewTyped
<1>3. CASE ReadUser(q)
  BY <1>3, ReadUserTyped
<1>4. CASE ReadDocuments(q)
  BY <1>4, ReadDocumentsTyped
<1>5. CASE WriteStatus(q)
  BY <1>5, WriteStatusTyped
<1>6. CASE RequestDies(q)
  BY <1>6, FinishTyped DEF RequestDies, TypeOK, people, papers, reminders, sweeps
<1>7. QED
  BY <1>1, <1>2, <1>3, <1>4, <1>5, <1>6 DEF RequestStep

-----------------------------------------------------------------------------
LEMMA ExpireTyped ==
  ASSUME TypeOK, NEW s \in Sweeps, Expire(s)
  PROVE  TypeOK'
<1> DEFINE gone == {d \in Documents : status[d] = "approved" /\ meets[d] \in Expiring /\ nearness[d] = 0}
<1>1. status' \in [Documents -> DocumentStatuses]
  BY DEF Expire, TypeOK, DocumentStatuses
<1>2. \A d \in Documents : status'[d] = "none" <=> status[d] = "none"
  BY DEF Expire, TypeOK
<1>3. {owner[d] : d \in gone} \subseteq Operators
  BY DEF TypeOK
<1>4. /\ expired' \in [Sweeps -> SUBSET Documents]
      /\ todo' \in [Sweeps -> SUBSET Operators]
      /\ step' \in [Sweeps -> {"idle", "suspend", "remind", "note"}]
  BY <1>3 DEF Expire, TypeOK
<1>5. overtaken' \subseteq Operators
  BY DEF Expire, OvertakenBy, TypeOK
<1>6. QED
  BY <1>1, <1>2, <1>4, <1>5 DEF Expire, TypeOK, reminders, requests

LEMMA SuspendTyped ==
  ASSUME TypeOK, NEW s \in Sweeps, NEW o \in Operators, Suspend(s, o)
  PROVE  TypeOK'
<1>1. onboarding' \in [Operators -> OnboardingStatuses]
  BY DEF Suspend, TypeOK, OnboardingStatuses
<1>2. todo' \in [Sweeps -> SUBSET Operators]
  BY DEF Suspend, TypeOK
<1>3. QED
  BY <1>1, <1>2 DEF Suspend, TypeOK, papers, reminders, requests

LEMMA FindDueTyped ==
  ASSUME TypeOK, NEW s \in Sweeps, FindDue(s)
  PROVE  TypeOK'
<1>1. {<<d, nearness[d]>> : d \in {e \in Documents : Due(e)}} \subseteq Documents \X WindowSet
  BY DEF Due
<1>2. due' \in [Sweeps -> SUBSET (Documents \X WindowSet)]
  BY <1>1 DEF FindDue, TypeOK
<1>3. step' \in [Sweeps -> {"idle", "suspend", "remind", "note"}]
  BY DEF FindDue, TypeOK
<1>4. QED
  BY <1>2, <1>3 DEF FindDue, TypeOK, people, papers, reminders, requests

LEMMA WarnTyped ==
  ASSUME TypeOK, NEW s \in Sweeps, NEW r \in Documents \X WindowSet, Warn(s, r)
  PROVE  TypeOK'
<1>1. warned' \in [Documents \X WindowSet -> Nat]
  BY DEF Warn, TypeOK
<1>2. /\ due'    \in [Sweeps -> SUBSET (Documents \X WindowSet)]
      /\ noting' \in [Sweeps -> SUBSET (Documents \X WindowSet)]
      /\ step'   \in [Sweeps -> {"idle", "suspend", "remind", "note"}]
  BY DEF Warn, TypeOK
<1>3. QED
  BY <1>1, <1>2 DEF Warn, TypeOK, people, papers, requests

LEMMA NoteTyped ==
  ASSUME TypeOK, NEW s \in Sweeps, NEW r \in Documents \X WindowSet, Note(s, r)
  PROVE  TypeOK'
<1>1. reminded' \in [Documents -> 1..Far]
  <2>1. r[2] \in 1..Far
    BY NearnessFacts
  <2>2. QED
    BY <2>1 DEF Note, TypeOK
<1>2. /\ noting' \in [Sweeps -> SUBSET (Documents \X WindowSet)]
      /\ step'   \in [Sweeps -> {"idle", "suspend", "remind", "note"}]
  BY DEF Note, TypeOK
<1>3. QED
  BY <1>1, <1>2 DEF Note, TypeOK, people, papers, requests

LEMMA SweepTyped ==
  ASSUME TypeOK, NEW s \in Sweeps, SweepStep(s) \/ SweepDies(s)
  PROVE  TypeOK'
<1>1. CASE SweepDone(s)
  BY <1>1, EndSweepTyped DEF SweepDone, TypeOK
<1>2. CASE SweepDies(s)
  <2>1. faults \in Nat
    BY DEF TypeOK
  <2>2. faults' \in Nat /\ EndSweep(s)
    BY <1>2, <2>1 DEF SweepDies
  <2>3. QED
    BY <2>2, EndSweepTyped
<1>3. CASE Expire(s)
  BY <1>3, ExpireTyped
<1>4. CASE \E o \in Operators : Suspend(s, o)
  BY <1>4, SuspendTyped
<1>5. CASE FindDue(s)
  BY <1>5, FindDueTyped
<1>6. ASSUME NEW r \in Documents \X WindowSet, Warn(s, r) \/ Note(s, r)
      PROVE  TypeOK'
  BY <1>6, WarnTyped, NoteTyped
<1>7. QED
  BY <1>1, <1>2, <1>3, <1>4, <1>5, <1>6 DEF SweepStep

(* Every variable keeps its type, a request knows the operator it is about *)
(* (submitDocument, reviewDocument), and a review the document it is of,   *)
(* which is that operator's.                                               *)
THEOREM TypeCorrect == Spec => []TypeOK
<1>1. Init => TypeOK
  BY ComplianceAssumption, NearnessFacts DEF Init, TypeOK, OnboardingStatuses, DocumentStatuses
<1>2. TypeOK /\ [Next]_vars => TypeOK'
  <2> SUFFICES ASSUME TypeOK, [Next]_vars PROVE TypeOK'
    OBVIOUS
  <2>1. ASSUME NEW d \in Documents, DaysPass(d) PROVE TypeOK'
    BY <2>1, NearnessFacts DEF DaysPass, TypeOK, people, reminders, requests, sweeps
  <2>2. CASE Corporate
    BY <2>2 DEF Corporate, SetOnboarding, TypeOK, papers, reminders, requests, sweeps
  <2>3. CASE UNCHANGED vars
    BY <2>3 DEF vars, people, papers, reminders, requests, sweeps, TypeOK
  <2>4. QED
    BY <2>1, <2>2, <2>3, RequestTyped, SweepTyped DEF Next
<1>3. QED
  BY <1>1, <1>2, PTL DEF Spec

-----------------------------------------------------------------------------
(* What a step does to the set of documents that count. *)

LEMMA OnlyReviewApproves ==
  ASSUME TypeOK, NEW o \in Operators, Missing(o)' = {}, Missing(o) # {},
         [Next]_vars
  PROVE  \E q \in Requests, verdict \in {"approved", "rejected"} : Review(q, verdict)
<1> DEFINE Kept == \A d \in Documents :
      status'[d] = "approved" => status[d] = "approved" /\ owner'[d] = owner[d] /\ meets'[d] = meets[d]
<1>1. ~Kept
  BY DEF Missing, Approved, For
<1>2. UNCHANGED papers => Kept
  BY DEF papers
<1>3. ASSUME NEW q \in Requests, NEW d \in Documents, NEW p \in Operators,
             NEW r \in Requirements, NEW near \in Nearness, SubmitDocument(q, d, p, r, near)
      PROVE  Kept
  BY <1>3 DEF SubmitDocument, TypeOK
<1>4. ASSUME NEW d \in Documents, DaysPass(d) PROVE Kept
  BY <1>4 DEF DaysPass
<1>5. ASSUME NEW s \in Sweeps, Expire(s) PROVE Kept
  BY <1>5 DEF Expire
<1>6. ASSUME NEW q \in Requests, NewRequest(q) PROVE Kept
  BY <1>2, <1>3, <1>6 DEF NewRequest, ReviewDocument
<1>7. ASSUME NEW s \in Sweeps, SweepStep(s) \/ SweepDies(s) PROVE Kept
  BY <1>2, <1>5, <1>7 DEF SweepStep, SweepDies, Suspend, FindDue, Warn, Note, SweepDone, EndSweep
<1>8. ASSUME NEW q \in Requests, RequestDies(q) \/ ReadUser(q) \/ ReadDocuments(q) \/ WriteStatus(q)
      PROVE  Kept
  BY <1>2, <1>8 DEF RequestDies, ReadUser, ReadDocuments, WriteStatus
<1>9. Corporate \/ UNCHANGED vars => Kept
  BY <1>2 DEF Corporate, SetOnboarding, vars
<1>10. QED
  BY <1>1, <1>4, <1>6, <1>7, <1>8, <1>9 DEF Next, RequestStep

LEMMA CompleteGrows ==
  ASSUME TypeOK, [Next]_vars
  PROVE  complete \subseteq complete' /\ overridden \subseteq overridden'
<1>1. UNCHANGED people => complete' = complete /\ overridden' = overridden
  BY DEF people
<1>2. ASSUME NEW q \in Requests, NewRequest(q) \/ RequestStep(q) \/ RequestDies(q)
      PROVE  complete \subseteq complete' /\ overridden \subseteq overridden'
  BY <1>1, <1>2 DEF NewRequest, SubmitDocument, ReviewDocument, RequestStep, Review,
     ReadUser, ReadDocuments, WriteStatus, RequestDies
<1>3. ASSUME NEW s \in Sweeps, SweepStep(s) \/ SweepDies(s)
      PROVE  complete \subseteq complete' /\ overridden \subseteq overridden'
  BY <1>1, <1>3 DEF SweepStep, Expire, Suspend, FindDue, Warn, Note, SweepDone, SweepDies, EndSweep
<1>4. CASE Corporate
  BY <1>4 DEF Corporate, SetOnboarding
<1>5. CASE \E d \in Documents : DaysPass(d)
  BY <1>1, <1>5 DEF DaysPass
<1>6. CASE UNCHANGED vars
  BY <1>1, <1>6 DEF vars
<1>7. QED
  BY <1>2, <1>3, <1>4, <1>5, <1>6 DEF Next

(* A step that approves an operator is a write of what was judged, or      *)
(* corporate's own.                                                        *)
LEMMA WhoApproves ==
  ASSUME TypeOK, [Next]_vars, NEW o \in Operators,
         onboarding'[o] = "approved", onboarding[o] # "approved"
  PROVE  \/ o \in overridden'
         \/ \E q \in Requests : pc[q] = "write" /\ about[q] = o /\ judged[q] = "approved"
<1>1. UNCHANGED people => FALSE
  BY DEF people
<1>2. ASSUME NEW q \in Requests, WriteStatus(q)
      PROVE  pc[q] = "write" /\ about[q] = o /\ judged[q] = "approved"
  BY <1>2 DEF WriteStatus, TypeOK
<1>3. ASSUME NEW q \in Requests, NewRequest(q) \/ RequestStep(q) \/ RequestDies(q)
      PROVE  WriteStatus(q)
  BY <1>1, <1>3 DEF NewRequest, SubmitDocument, ReviewDocument, RequestStep, Review,
     ReadUser, ReadDocuments, RequestDies
<1>4. ASSUME NEW s \in Sweeps, SweepStep(s) \/ SweepDies(s) PROVE FALSE
  BY <1>1, <1>4 DEF SweepStep, Expire, Suspend, FindDue, Warn, Note, SweepDone, SweepDies, EndSweep, TypeOK
<1>5. CASE Corporate
  BY <1>5 DEF Corporate, SetOnboarding, TypeOK
<1>6. CASE \E d \in Documents : DaysPass(d)
  BY <1>1, <1>6 DEF DaysPass
<1>7. CASE UNCHANGED vars
  BY <1>1, <1>7 DEF vars
<1>8. QED
  BY <1>2, <1>3, <1>4, <1>5, <1>6, <1>7 DEF Next

(* A request comes to hold a judgement only by reading the documents. *)
LEMMA WhoJudges ==
  ASSUME TypeOK, [Next]_vars, NEW q \in Requests, pc'[q] = "write", judged'[q] = "approved"
  PROVE  \/ pc[q] = "write" /\ judged[q] = "approved" /\ about'[q] = about[q]
         \/ Missing(about[q]) = {} /\ about'[q] = about[q] /\ about[q] \in Operators
<1>1. UNCHANGED requests => pc[q] = "write" /\ judged[q] = "approved" /\ about'[q] = about[q]
  BY DEF requests
<1>2. ASSUME ReadDocuments(q)
      PROVE  Missing(about[q]) = {} /\ about'[q] = about[q] /\ about[q] \in Operators
  BY <1>2 DEF ReadDocuments, StatusFor, TypeOK
<1>3. ASSUME NewRequest(q) \/ RequestDies(q) \/ (RequestStep(q) /\ ~ReadDocuments(q)) PROVE FALSE
  BY <1>3 DEF NewRequest, SubmitDocument, ReviewDocument, RequestDies, RequestStep, Review,
     ReadUser, WriteStatus, Finish, TypeOK
<1>4. ASSUME NEW p \in Requests \ {q}, NewRequest(p) \/ RequestStep(p) \/ RequestDies(p)
      PROVE  pc[q] = "write" /\ judged[q] = "approved" /\ about'[q] = about[q]
  BY <1>4 DEF NewRequest, SubmitDocument, ReviewDocument, RequestDies, RequestStep, Review,
     ReadUser, ReadDocuments, WriteStatus, Finish, TypeOK
<1>5. ASSUME NEW s \in Sweeps, SweepStep(s) \/ SweepDies(s) PROVE UNCHANGED requests
  BY <1>5 DEF SweepStep, Expire, Suspend, FindDue, Warn, Note, SweepDone, SweepDies, EndSweep
<1>6. Corporate \/ (\E d \in Documents : DaysPass(d)) \/ UNCHANGED vars => UNCHANGED requests
  BY DEF Corporate, SetOnboarding, DaysPass, vars
<1>7. QED
  BY <1>1, <1>2, <1>3, <1>4, <1>5, <1>6 DEF Next

(* Nobody is approved who was never complete (StatusFor, WriteStatus): the *)
(* inductive invariant, and what it is for.                                *)
THEOREM ComplianceInvHolds == Spec => []ComplianceInv
<1>1. Init => ComplianceInv
  <2> SUFFICES ASSUME Init PROVE ComplianceInv
    OBVIOUS
  <2>1. \A o \in Operators : Missing(o) = {} => o \in complete
    BY DEF Init, Missing, Approved, For
  <2>2. QED
    BY <2>1 DEF Init, ComplianceInv, EverComplete
<1>2. TypeOK /\ ComplianceInv /\ [Next]_vars => ComplianceInv'
  <2> SUFFICES ASSUME TypeOK, ComplianceInv, [Next]_vars PROVE ComplianceInv'
    OBVIOUS
  <2>1. ASSUME NEW o \in Operators, onboarding'[o] = "approved"
        PROVE  o \in complete' \cup overridden'
    BY <2>1, CompleteGrows, WhoApproves DEF ComplianceInv, EverComplete
  <2>2. ASSUME NEW q \in Requests, pc'[q] = "write", judged'[q] = "approved"
        PROVE  about'[q] \in complete'
    BY <2>2, CompleteGrows, WhoJudges DEF ComplianceInv
  <2>3. ASSUME NEW o \in Operators, Missing(o)' = {}
        PROVE  o \in complete'
    <3>1. CASE Missing(o) = {}
      BY <3>1, CompleteGrows DEF ComplianceInv
    <3>2. CASE Missing(o) # {}
      BY <2>3, <3>2, OnlyReviewApproves DEF Review
    <3>3. QED
      BY <3>1, <3>2
  <2>4. QED
    BY <2>1, <2>2, <2>3 DEF ComplianceInv, EverComplete
<1>3. QED
  BY <1>1, <1>2, TypeCorrect, PTL DEF Spec

THEOREM EverCompleteHolds == Spec => []EverComplete
<1>1. ComplianceInv => EverComplete
  BY DEF ComplianceInv
<1>2. QED
  BY <1>1, ComplianceInvHolds, PTL

-----------------------------------------------------------------------------
(* The reminders.  With one sweep, everything that is pending is pending   *)
(* in it.                                                                  *)
LEMMA WindowFacts ==
  ASSUME TypeOK, NEW s \in Sweeps
  PROVE  /\ Pending(s) \subseteq Documents \X WindowSet
         /\ \A r \in Documents \X WindowSet :
              /\ r[1] \in Documents /\ r[2] \in Nat /\ r = <<r[1], r[2]>>
              /\ reminded[r[1]] \in Nat /\ warned[r] \in Nat
BY ComplianceAssumption DEF TypeOK, Pending, WindowSet, Far

LEMMA QuietKeepsWarnings ==
  ASSUME TypeOK, WarnInv, OneSweep, UNCHANGED <<reminders, step, due, noting>>,
         faults' = faults \/ faults' = faults + 1
  PROVE  WarnInv'
<1>1. \A s \in Sweeps : PendingHolds(s)'
  BY DEF WarnInv, PendingHolds, Pending, reminders
<1>2. \A r \in Documents \X WindowSet : (Accounted(r) <=> Accounted(r)') /\ warned'[r] = warned[r] /\ warned[r] \in Nat
  BY DEF Accounted, reminders, TypeOK
<1>3. faults \in Nat /\ faults' \in Nat /\ faults <= faults'
  BY DEF TypeOK
<1>4. \A r \in Documents \X WindowSet : warned'[r] <= (IF Accounted(r)' THEN 1 ELSE 0) + faults'
  BY <1>2, <1>3 DEF WarnInv
<1>5. QED
  BY <1>1, <1>4 DEF WarnInv

LEMMA FindDueKeepsWarnings ==
  ASSUME TypeOK, WarnInv, OneSweep, NEW s \in Sweeps, FindDue(s)
  PROVE  WarnInv'
<1>1. noting[s] = {} /\ noting' = noting /\ reminded' = reminded /\ warned' = warned /\ faults' = faults
  BY DEF FindDue, WarnInv, PendingHolds, reminders
<1>2. due'[s] = {<<d, nearness[d]>> : d \in {e \in Documents : Due(e)}}
  BY DEF FindDue, TypeOK
<1>3. step'[s] = "remind"
  BY DEF FindDue, TypeOK
<1>4. \A r \in Pending(s)' : r[2] < reminded'[r[1]] /\ r[2] = nearness[r[1]] /\ r = <<r[1], r[2]>>
  BY <1>1, <1>2 DEF Pending, Due
<1>5. \A r, t \in Pending(s)' : r[1] = t[1] => r = t
  BY <1>4
<1>6. PendingHolds(s)'
  BY <1>1, <1>3, <1>4, <1>5 DEF PendingHolds
<1>7. \A t \in Sweeps : PendingHolds(t)'
  BY <1>6 DEF OneSweep
<1>8. \A r \in Documents \X WindowSet : Accounted(r) <=> Accounted(r)'
  BY <1>1 DEF Accounted
<1>9. QED
  BY <1>1, <1>7, <1>8 DEF WarnInv

LEMMA WarnKeepsWarnings ==
  ASSUME TypeOK, WarnInv, OneSweep, NEW s \in Sweeps, NEW r \in Documents \X WindowSet, Warn(s, r)
  PROVE  WarnInv'
<1>1. /\ noting[s] = {} /\ r \in due[s] /\ reminded' = reminded /\ faults' = faults
      /\ noting'[s] = {r} /\ due'[s] = due[s] \ {r} /\ step'[s] = "note"
  BY DEF Warn, WarnInv, PendingHolds, TypeOK
<1>2. Pending(s)' = Pending(s)
  BY <1>1 DEF Pending
<1>3. PendingHolds(s)'
  BY <1>1, <1>2 DEF PendingHolds, WarnInv
<1>4. \A t \in Sweeps : PendingHolds(t)'
  BY <1>3 DEF OneSweep
<1>5. ASSUME NEW t \in Documents \X WindowSet
      PROVE  warned'[t] <= (IF Accounted(t)' THEN 1 ELSE 0) + faults'
  <2>1. warned[t] \in Nat /\ faults \in Nat /\ warned[t] <= (IF Accounted(t) THEN 1 ELSE 0) + faults
    BY DEF WarnInv, TypeOK
  <2>2. Accounted(t)' <=> reminded[t[1]] <= t[2] \/ t = r
    BY <1>1 DEF Accounted, OneSweep
  <2>3. Accounted(t) <=> reminded[t[1]] <= t[2]
    BY <1>1 DEF Accounted, OneSweep
  <2>4. CASE t = r
    <3>1. r[2] < reminded[r[1]]
      BY <1>1 DEF WarnInv, PendingHolds, Pending
    <3>2. ~Accounted(r)
      BY <2>3, <2>4, <3>1, WindowFacts
    <3>3. warned'[r] = warned[r] + 1
      BY DEF Warn, TypeOK
    <3>4. QED
      BY <1>1, <2>1, <2>2, <2>4, <3>2, <3>3
  <2>5. CASE t # r
    <3>1. warned'[t] = warned[t]
      BY <2>5 DEF Warn, TypeOK
    <3>2. QED
      BY <1>1, <2>1, <2>2, <2>3, <2>5, <3>1
  <2>6. QED
    BY <2>4, <2>5
<1>6. QED
  BY <1>4, <1>5 DEF WarnInv

LEMMA NoteKeepsWarnings ==
  ASSUME TypeOK, WarnInv, OneSweep, NEW s \in Sweeps, NEW r \in Documents \X WindowSet, Note(s, r)
  PROVE  WarnInv'
<1>1. /\ r \in noting[s] /\ warned' = warned /\ faults' = faults /\ due' = due
      /\ noting'[s] = {} /\ step'[s] = "remind"
      /\ reminded' = [reminded EXCEPT ![r[1]] = r[2]]
  BY DEF Note, TypeOK
<1>2. PendingHolds(s) /\ r \in Pending(s)
  BY <1>1 DEF WarnInv, Pending
<1>3. r[2] < reminded[r[1]]
  BY <1>2 DEF PendingHolds
<1>4. noting[s] = {r} /\ r \notin due[s] /\ Pending(s)' = due[s]
  BY <1>1, <1>2 DEF PendingHolds, Pending
<1>5. ASSUME NEW t \in due[s] PROVE t[1] # r[1] /\ t[1] \in Documents
  BY <1>2, <1>4, WindowFacts DEF PendingHolds, Pending
<1>6. \A t \in due[s] : reminded'[t[1]] = reminded[t[1]]
  BY <1>1, <1>5 DEF TypeOK
<1>7. PendingHolds(s)'
  BY <1>1, <1>2, <1>4, <1>6 DEF PendingHolds, Pending
<1>8. \A t \in Sweeps : PendingHolds(t)'
  BY <1>7 DEF OneSweep
<1>9. ASSUME NEW t \in Documents \X WindowSet
      PROVE  warned'[t] <= (IF Accounted(t)' THEN 1 ELSE 0) + faults'
  <2>1. warned[t] \in Nat /\ faults \in Nat /\ warned[t] <= (IF Accounted(t) THEN 1 ELSE 0) + faults
    BY DEF WarnInv, TypeOK
  <2>2. Accounted(t)' <=> reminded'[t[1]] <= t[2]
    BY <1>1 DEF Accounted, OneSweep
  <2>3. Accounted(t) <=> reminded[t[1]] <= t[2] \/ t = r
    BY <1>4 DEF Accounted, OneSweep
  <2>4. Accounted(t) => Accounted(t)'
    <3>1. /\ t[1] \in Documents /\ t[2] \in Nat /\ reminded[t[1]] \in Nat
          /\ r[1] \in Documents /\ r[2] \in Nat /\ reminded[r[1]] \in Nat
      BY WindowFacts
    <3>2. reminded'[t[1]] = IF t[1] = r[1] THEN r[2] ELSE reminded[t[1]]
      BY <1>1, <3>1 DEF TypeOK
    <3>3. QED
      BY <1>3, <2>2, <2>3, <3>1, <3>2
  <2>5. QED
    BY <1>1, <2>1, <2>4
<1>10. QED
  BY <1>8, <1>9 DEF WarnInv

LEMMA EndKeepsWarnings ==
  ASSUME TypeOK, WarnInv, OneSweep, NEW s \in Sweeps, SweepDone(s) \/ SweepDies(s)
  PROVE  WarnInv'
<1>1. /\ noting'[s] = {} /\ due'[s] = {} /\ reminded' = reminded /\ warned' = warned
  BY DEF SweepDone, SweepDies, EndSweep, TypeOK, reminders
<1>2. \A t \in Sweeps : PendingHolds(t)'
  BY <1>1 DEF PendingHolds, Pending, OneSweep
<1>3. \/ noting[s] = {} /\ faults' = faults
      \/ faults' = faults + 1
  BY DEF SweepDone, SweepDies, WarnInv, PendingHolds
<1>4. ASSUME NEW t \in Documents \X WindowSet
      PROVE  warned'[t] <= (IF Accounted(t)' THEN 1 ELSE 0) + faults'
  <2>1. warned[t] \in Nat /\ faults \in Nat /\ warned[t] <= (IF Accounted(t) THEN 1 ELSE 0) + faults
    BY DEF WarnInv, TypeOK
  <2>2. Accounted(t)' <=> reminded[t[1]] <= t[2]
    BY <1>1 DEF Accounted, OneSweep
  <2>3. Accounted(t) <=> reminded[t[1]] <= t[2] \/ t \in noting[s]
    BY DEF Accounted, OneSweep
  <2>4. QED
    BY <1>1, <1>3, <2>1, <2>2, <2>3
<1>5. QED
  BY <1>2, <1>4 DEF WarnInv

LEMMA WarnInvKept ==
  ASSUME TypeOK, WarnInv, OneSweep, [Next]_vars
  PROVE  WarnInv'
<1>1. ASSUME NEW q \in Requests, NewRequest(q) \/ RequestStep(q) \/ RequestDies(q)
      PROVE  WarnInv'
  <2>1. /\ UNCHANGED <<reminders, step, due, noting>>
        /\ faults' = faults \/ faults' = faults + 1
    BY <1>1 DEF NewRequest, SubmitDocument, ReviewDocument, RequestStep, Review, ReadUser,
       ReadDocuments, WriteStatus, RequestDies, sweeps
  <2>2. QED
    BY <2>1, QuietKeepsWarnings
<1>2. ASSUME NEW s \in Sweeps, Expire(s) \/ \E o \in Operators : Suspend(s, o)
      PROVE  WarnInv'
  <2>1. CASE \E o \in Operators : Suspend(s, o)
    BY <2>1, QuietKeepsWarnings DEF Suspend
  <2>2. CASE Expire(s)
    <3>1. /\ UNCHANGED <<reminded, warned, due, noting, faults>>
          /\ step[s] = "idle" /\ step'[s] = "suspend"
      BY <2>2 DEF Expire, TypeOK, reminders
    <3>2. PendingHolds(s)'
      BY <3>1 DEF WarnInv, PendingHolds, Pending
    <3>3. \A r \in Documents \X WindowSet : Accounted(r) <=> Accounted(r)'
      BY <3>1 DEF Accounted
    <3>4. QED
      BY <3>1, <3>2, <3>3 DEF WarnInv, OneSweep
  <2>3. QED
    BY <1>2, <2>1, <2>2
<1>3. ASSUME NEW s \in Sweeps, SweepStep(s) \/ SweepDies(s)
      PROVE  WarnInv'
  BY <1>2, <1>3, FindDueKeepsWarnings, WarnKeepsWarnings, NoteKeepsWarnings, EndKeepsWarnings DEF SweepStep
<1>4. ASSUME Corporate \/ (\E d \in Documents : DaysPass(d)) \/ UNCHANGED vars
      PROVE  WarnInv'
  <2>1. UNCHANGED <<reminders, step, due, noting>> /\ faults' = faults
    BY <1>4 DEF Corporate, SetOnboarding, DaysPass, vars, sweeps
  <2>2. QED
    BY <2>1, QuietKeepsWarnings
<1>5. QED
  BY <1>1, <1>3, <1>4 DEF Next

(* A reminder that a sweep has found due, or has just queued, is for a     *)
(* window that nothing was noted for, and every one queued was noted, is   *)
(* about to be, or had its sweep die (runDocumentExpiry's second half).    *)
THEOREM WarnInvHolds == Spec => []WarnInv
<1>1. Init => WarnInv
  BY DEF Init, WarnInv, PendingHolds, Pending
<1>2. TypeOK /\ WarnInv /\ [Next]_vars => WarnInv'
  <2>1. OneSweep => OneSweep'
    BY DEF OneSweep
  <2>2. ~OneSweep => WarnInv'
    BY DEF OneSweep, WarnInv
  <2>3. QED
    BY <2>2, WarnInvKept
<1>3. QED
  BY <1>1, <1>2, TypeCorrect, PTL DEF Spec

(* "Each window is only ever sent once": with one process that runs the    *)
(* sweep, an operator is warned of a document once in each window, and     *)
(* once more for each sweep that died.                                     *)
THEOREM EachWindowOnce ==
  ASSUME OneSweep
  PROVE  Spec => []WarnedOnce
<1>1. TypeOK /\ WarnInv => WarnedOnce
  BY DEF WarnInv, WarnedOnce, TypeOK
<1>2. QED
  BY <1>1, TypeCorrect, WarnInvHolds, PTL

-----------------------------------------------------------------------------
(* Who is complete, who is approved, and who sees to it that they agree.   *)

LEMMA NoNewApproval ==
  ASSUME NEW o,
         \A d \in Documents : status'[d] = "approved" =>
           status[d] = "approved" /\ owner'[d] = owner[d] /\ meets'[d] = meets[d],
         Missing(o)' = {}
  PROVE  Missing(o) = {}
BY DEF Missing, Approved, For

(* Where the same documents are approved, the same are missing. *)
LEMMA SameApproved ==
  ASSUME NEW o,
         \A d \in Documents :
           /\ (status'[d] = "approved" /\ owner'[d] = o) <=> (status[d] = "approved" /\ owner[d] = o)
           /\ status[d] = "approved" /\ owner[d] = o => meets'[d] = meets[d]
  PROVE  Missing(o)' = Missing(o)
<1>1. \A r : Approved(o, r)' <=> Approved(o, r)
  BY DEF Approved, For
<1>2. QED
  BY <1>1 DEF Missing

(* Nobody who was overtaken is forgotten, nor is a death. *)
LEMMA HistoryGrows ==
  ASSUME TypeOK, [Next]_vars
  PROVE  overtaken \subseteq overtaken' /\ (faults' = 0 => faults = 0)
<1>1. faults \in Nat
  BY DEF TypeOK
<1>2. UNCHANGED people => overtaken' = overtaken
  BY DEF people
<1>3. ASSUME NEW q \in Requests, NewRequest(q) \/ RequestStep(q) \/ RequestDies(q)
      PROVE  overtaken \subseteq overtaken' /\ (faults' = 0 => faults = 0)
  BY <1>1, <1>2, <1>3 DEF NewRequest, SubmitDocument, ReviewDocument, RequestStep, Review,
     ReadUser, ReadDocuments, WriteStatus, RequestDies, OvertakenBy
<1>4. ASSUME NEW s \in Sweeps, SweepStep(s) \/ SweepDies(s)
      PROVE  overtaken \subseteq overtaken' /\ (faults' = 0 => faults = 0)
  BY <1>1, <1>2, <1>4 DEF SweepStep, Expire, Suspend, FindDue, Warn, Note, SweepDone, SweepDies,
     EndSweep, OvertakenBy
<1>5. CASE Corporate \/ (\E d \in Documents : DaysPass(d)) \/ UNCHANGED vars
  BY <1>2, <1>5 DEF Corporate, SetOnboarding, DaysPass, vars
<1>6. QED
  BY <1>3, <1>4, <1>5 DEF Next

(* The documents of an operator whom a request is about to write change    *)
(* only where that request is overtaken.                                   *)
LEMMA ChangesOvertake ==
  ASSUME TypeOK, [Next]_vars, NEW o \in Operators, o \notin overtaken',
         NEW q \in Requests, pc[q] = "write", about[q] = o
  PROVE  Missing(o)' = Missing(o)
<1> DEFINE Same(d) ==
      /\ (status'[d] = "approved" /\ owner'[d] = o) <=> (status[d] = "approved" /\ owner[d] = o)
      /\ status[d] = "approved" /\ owner[d] = o => meets'[d] = meets[d]
<1>1. \A changed : o \in OvertakenBy(changed) \/ \A d \in changed : owner[d] # o
  BY DEF OvertakenBy
<1>2. UNCHANGED papers => \A d \in Documents : Same(d)
  BY DEF papers
<1>3. ASSUME NEW p \in Requests, NewRequest(p)
      PROVE  \A d \in Documents : Same(d)
  BY <1>2, <1>3 DEF NewRequest, SubmitDocument, ReviewDocument, TypeOK
<1>4. ASSUME NEW p \in Requests, NEW v \in {"approved", "rejected"}, Review(p, v)
      PROVE  \A d \in Documents : Same(d)
  <2>1. owner' = owner /\ meets' = meets
    BY <1>4 DEF Review
  <2>2. CASE status' = status
    BY <2>1, <2>2
  <2>3. CASE status' # status
    <3>1. status' = [status EXCEPT ![reviewing[p]] = v] /\ overtaken' = OvertakenBy({reviewing[p]})
      BY <1>4, <2>3 DEF Review
    <3>2. owner[reviewing[p]] # o
      BY <1>1, <3>1
    <3>3. QED
      BY <2>1, <3>1, <3>2 DEF TypeOK
  <2>4. QED
    BY <2>2, <2>3
<1>5. ASSUME NEW p \in Requests, RequestStep(p) \/ RequestDies(p)
      PROVE  \A d \in Documents : Same(d)
  BY <1>2, <1>4, <1>5 DEF RequestStep, ReadUser, ReadDocuments, WriteStatus, RequestDies
<1>6. ASSUME NEW s \in Sweeps, Expire(s)
      PROVE  \A d \in Documents : Same(d)
  <2> DEFINE gone == {d \in Documents : status[d] = "approved" /\ meets[d] \in Expiring /\ nearness[d] = 0}
  <2>1. /\ status' = [d \in Documents |-> IF d \in gone THEN "expired" ELSE status[d]]
        /\ overtaken' = OvertakenBy(gone) /\ owner' = owner /\ meets' = meets
    BY <1>6 DEF Expire
  <2>2. \A d \in gone : owner[d] # o
    BY <1>1, <2>1
  <2>3. QED
    BY <2>1, <2>2 DEF TypeOK
<1>7. ASSUME NEW s \in Sweeps, SweepStep(s) \/ SweepDies(s)
      PROVE  \A d \in Documents : Same(d)
  BY <1>2, <1>6, <1>7 DEF SweepStep, Suspend, FindDue, Warn, Note, SweepDone, SweepDies, EndSweep
<1>8. CASE Corporate \/ (\E d \in Documents : DaysPass(d)) \/ UNCHANGED vars
  <2>1. UNCHANGED <<status, owner, meets>>
    BY <1>8 DEF Corporate, SetOnboarding, DaysPass, vars, papers
  <2>2. QED
    BY <2>1, SameApproved
<1>9. (\A d \in Documents : Same(d)) => Missing(o)' = Missing(o)
  BY SameApproved
<1>10. QED
  BY <1>3, <1>5, <1>7, <1>8, <1>9 DEF Next

(* A request that has judged did so before, or does so in this step. *)
LEMMA WhoHasJudged ==
  ASSUME TypeOK, [Next]_vars, NEW q \in Requests, pc'[q] = "write"
  PROVE  \/ pc[q] = "write" /\ judged'[q] = judged[q] /\ about'[q] = about[q]
         \/ ReadDocuments(q)
<1>1. UNCHANGED requests => pc[q] = "write" /\ judged'[q] = judged[q] /\ about'[q] = about[q]
  BY DEF requests
<1>2. ASSUME NewRequest(q) \/ RequestDies(q) \/ (RequestStep(q) /\ ~ReadDocuments(q)) PROVE FALSE
  BY <1>2 DEF NewRequest, SubmitDocument, ReviewDocument, RequestDies, RequestStep, Review,
     ReadUser, WriteStatus, Finish, TypeOK
<1>3. ASSUME NEW p \in Requests \ {q}, NewRequest(p) \/ RequestStep(p) \/ RequestDies(p)
      PROVE  pc[q] = "write" /\ judged'[q] = judged[q] /\ about'[q] = about[q]
  BY <1>3 DEF NewRequest, SubmitDocument, ReviewDocument, RequestDies, RequestStep, Review,
     ReadUser, ReadDocuments, WriteStatus, Finish, TypeOK
<1>4. ASSUME NEW s \in Sweeps, SweepStep(s) \/ SweepDies(s) PROVE UNCHANGED requests
  BY <1>4 DEF SweepStep, Expire, Suspend, FindDue, Warn, Note, SweepDone, SweepDies, EndSweep
<1>5. Corporate \/ (\E d \in Documents : DaysPass(d)) \/ UNCHANGED vars => UNCHANGED requests
  BY DEF Corporate, SetOnboarding, DaysPass, vars
<1>6. QED
  BY <1>1, <1>2, <1>3, <1>4, <1>5 DEF Next

LEMMA JudgedRightKept ==
  ASSUME TypeOK, AttendedInv, [Next]_vars, NEW q \in Requests
  PROVE  JudgedRight(q)'
<1> SUFFICES ASSUME pc'[q] = "write", about'[q] \notin overtaken'
             PROVE  judged'[q] = "approved" <=> Missing(about[q])' = {}
  BY DEF JudgedRight
<1>1. CASE ReadDocuments(q)
  <2>1. judged'[q] = StatusFor(about[q]) /\ about' = about /\ UNCHANGED papers
    BY <1>1 DEF ReadDocuments, TypeOK
  <2>2. Missing(about[q])' = Missing(about[q])
    BY <2>1 DEF Missing, Approved, For, papers
  <2>3. QED
    BY <2>1, <2>2 DEF StatusFor
<1>2. CASE pc[q] = "write" /\ judged'[q] = judged[q] /\ about'[q] = about[q]
  <2>1. about[q] \in Operators
    BY <1>2 DEF TypeOK
  <2>2. about[q] \notin overtaken
    BY <1>2, HistoryGrows
  <2>3. Missing(about[q])' = Missing(about[q])
    <3>1. PICK o \in Operators : o = about[q]
      BY <2>1
    <3>2. Missing(o)' = Missing(o)
      BY <1>2, <3>1, ChangesOvertake
    <3>3. Missing(about[q])' = Missing(o)'
      BY <1>2, <3>1 DEF Missing, Approved, For
    <3>4. QED
      BY <1>2, <3>1, <3>2, <3>3
  <2>4. JudgedRight(q)
    BY DEF AttendedInv
  <2>5. QED
    BY <1>2, <2>2, <2>3, <2>4 DEF JudgedRight
<1>3. QED
  BY <1>1, <1>2, WhoHasJudged

-----------------------------------------------------------------------------
(* One operator, whom no request has overtaken, in a step without a death. *)
(* Where nothing that matters to them changes, they are still seen to.     *)
LEMMA Undisturbed ==
  ASSUME NEW o \in Operators, UpIsSeenTo(o), DownIsSeenTo(o),
         Missing(o)' = Missing(o), onboarding'[o] = onboarding[o], overridden \subseteq overridden',
         \A q \in Requests : (WillPromote(q, o) => WillPromote(q, o)') /\ (WillDemote(q, o) => WillDemote(q, o)'),
         \A s \in Sweeps : WillSuspend(s, o) => WillSuspend(s, o)'
  PROVE  UpIsSeenTo(o)' /\ DownIsSeenTo(o)'
BY DEF UpIsSeenTo, DownIsSeenTo, Settled

LEMMA NewRequestSeesTo ==
  ASSUME TypeOK, NEW o \in Operators, UpIsSeenTo(o), DownIsSeenTo(o),
         NEW q \in Requests, NewRequest(q)
  PROVE  UpIsSeenTo(o)' /\ DownIsSeenTo(o)'
<1>1. UNCHANGED <<onboarding, overridden, step, todo>>
  BY DEF NewRequest, SubmitDocument, ReviewDocument, people, sweeps
<1>2. \A p \in Requests : (WillPromote(p, o) => WillPromote(p, o)') /\ (WillDemote(p, o) => WillDemote(p, o)')
  BY DEF NewRequest, SubmitDocument, ReviewDocument, WillPromote, WillDemote, TypeOK
<1>3. \A d \in Documents : status[d] # "none" =>
        status'[d] = status[d] /\ owner'[d] = owner[d] /\ meets'[d] = meets[d]
  BY DEF NewRequest, SubmitDocument, ReviewDocument, papers, TypeOK
<1>4. \A d \in Documents : status[d] = "none" => status'[d] \in {"none", "submitted"}
  BY DEF NewRequest, SubmitDocument, ReviewDocument, papers, TypeOK
<1>5. Missing(o)' = Missing(o)
  BY <1>3, <1>4, SameApproved
<1>6. HasLostRequired(o) => HasLostRequired(o)'
  BY <1>3 DEF HasLostRequired
<1>7. QED
  BY <1>1, <1>2, <1>5, <1>6, Undisturbed DEF WillSuspend

LEMMA ReviewSeesTo ==
  ASSUME TypeOK, NEW o \in Operators, UpIsSeenTo(o), DownIsSeenTo(o),
         NEW q \in Requests, NEW verdict \in {"approved", "rejected"}, Review(q, verdict)
  PROVE  UpIsSeenTo(o)' /\ DownIsSeenTo(o)'
<1>1. /\ pc[q] = "review" /\ reviewing[q] \in Documents /\ owner[reviewing[q]] = about[q]
      /\ UNCHANGED <<onboarding, overridden, owner, meets, step, todo>>
  BY DEF Review, TypeOK, sweeps
<1>2. CASE status' # status /\ about[q] = o
  <2>1. pc'[q] = "refresh" /\ about'[q] = o
    BY <1>2 DEF Review, TypeOK
  <2>2. WillPromote(q, o)' /\ WillDemote(q, o)'
    BY <2>1 DEF WillPromote, WillDemote
  <2>3. QED
    BY <2>2 DEF UpIsSeenTo, DownIsSeenTo
<1>3. CASE status' = status \/ about[q] # o
  <2>1. \A d \in Documents : owner[d] = o => status'[d] = status[d]
    BY <1>1, <1>3 DEF Review, TypeOK
  <2>2. Missing(o)' = Missing(o)
    BY <1>1, <2>1, SameApproved
  <2>3. HasLostRequired(o)' <=> HasLostRequired(o)
    BY <1>1, <2>1 DEF HasLostRequired
  <2>4. \A p \in Requests \ {q} : pc'[p] = pc[p] /\ about'[p] = about[p] /\ seen'[p] = seen[p]
    BY DEF Review, Finish, TypeOK
  <2>5. ~WillPromote(q, o) /\ ~WillDemote(q, o)
    BY <1>1 DEF WillPromote, WillDemote
  <2>6. \A p \in Requests : (WillPromote(p, o) => WillPromote(p, o)') /\ (WillDemote(p, o) => WillDemote(p, o)')
    BY <2>4, <2>5 DEF WillPromote, WillDemote
  <2>7. QED
    BY <1>1, <2>2, <2>3, <2>6, Undisturbed DEF WillSuspend
<1>4. QED
  BY <1>2, <1>3

LEMMA ReadUserSeesTo ==
  ASSUME TypeOK, NEW o \in Operators, UpIsSeenTo(o), DownIsSeenTo(o),
         NEW q \in Requests, ReadUser(q)
  PROVE  UpIsSeenTo(o)' /\ DownIsSeenTo(o)'
<1>1. pc[q] = "refresh" /\ UNCHANGED <<onboarding, overridden, status, owner, meets, step, todo>>
  BY DEF ReadUser, people, papers, sweeps
<1>2. Missing(o)' = Missing(o) /\ (HasLostRequired(o)' <=> HasLostRequired(o))
  BY <1>1 DEF Missing, Approved, For, HasLostRequired
<1>3. \A p \in Requests \ {q} : pc'[p] = pc[p] /\ about'[p] = about[p] /\ seen'[p] = seen[p]
  BY DEF ReadUser, Finish, TypeOK
<1>4. CASE about[q] = o /\ onboarding[o] = "suspended"
  BY <1>1, <1>4 DEF UpIsSeenTo, DownIsSeenTo, Settled
<1>5. CASE about[q] = o /\ onboarding[o] # "suspended"
  <2>1. pc'[q] = "judge" /\ seen'[q] = onboarding[o] /\ about'[q] = o
    BY <1>5 DEF ReadUser, TypeOK
  <2>2. CASE onboarding[o] = "approved"
    <3>1. WillDemote(q, o)' /\ Settled(o)'
      BY <1>1, <2>1, <2>2 DEF WillDemote, Settled
    <3>2. QED
      BY <3>1 DEF UpIsSeenTo, DownIsSeenTo
  <2>3. CASE onboarding[o] # "approved"
    <3>1. WillPromote(q, o)'
      BY <2>1, <2>3 DEF WillPromote
    <3>2. QED
      BY <1>1, <2>3, <3>1 DEF UpIsSeenTo, DownIsSeenTo
  <2>4. QED
    BY <2>2, <2>3
<1>6. CASE about[q] # o
  <2>1. \A p \in Requests : (WillPromote(p, o) => WillPromote(p, o)') /\ (WillDemote(p, o) => WillDemote(p, o)')
    BY <1>3, <1>6 DEF WillPromote, WillDemote
  <2>2. QED
    BY <1>1, <1>2, <2>1, Undisturbed DEF WillSuspend
<1>7. QED
  BY <1>4, <1>5, <1>6

LEMMA ReadDocumentsSeesTo ==
  ASSUME TypeOK, NEW o \in Operators, UpIsSeenTo(o), DownIsSeenTo(o),
         NEW q \in Requests, ReadDocuments(q)
  PROVE  UpIsSeenTo(o)' /\ DownIsSeenTo(o)'
<1>1. UNCHANGED <<onboarding, overridden, status, owner, meets, step, todo>>
  BY DEF ReadDocuments, people, papers, sweeps
<1>2. Missing(o)' = Missing(o) /\ (HasLostRequired(o)' <=> HasLostRequired(o))
  BY <1>1 DEF Missing, Approved, For, HasLostRequired
<1>3. \A p \in Requests : (WillPromote(p, o) => WillPromote(p, o)') /\ (WillDemote(p, o) => WillDemote(p, o)')
  BY DEF ReadDocuments, WillPromote, WillDemote, TypeOK
<1>4. QED
  BY <1>1, <1>2, <1>3, Undisturbed DEF WillSuspend

(* The write itself: what was judged is right, as nobody was overtaken. *)
LEMMA WriteStatusSeesTo ==
  ASSUME TypeOK, NEW o \in Operators, UpIsSeenTo(o), DownIsSeenTo(o), o \notin overtaken,
         NEW q \in Requests, JudgedRight(q), WriteStatus(q)
  PROVE  UpIsSeenTo(o)' /\ DownIsSeenTo(o)'
<1>1. /\ pc[q] = "write" /\ about[q] \in Operators
      /\ UNCHANGED <<overridden, status, owner, meets, step, todo>>
      /\ judged[q] # seen[q] => onboarding' = [onboarding EXCEPT ![about[q]] = judged[q]]
      /\ judged[q] = seen[q] => onboarding' = onboarding
  BY DEF WriteStatus, TypeOK, papers, sweeps
<1>2. Missing(o)' = Missing(o) /\ (HasLostRequired(o)' <=> HasLostRequired(o))
  BY <1>1 DEF Missing, Approved, For, HasLostRequired
<1>3. \A p \in Requests \ {q} : pc'[p] = pc[p] /\ about'[p] = about[p] /\ seen'[p] = seen[p]
  BY DEF WriteStatus, Finish, TypeOK
<1>4. \A s \in Sweeps : WillSuspend(s, o) => WillSuspend(s, o)'
  BY <1>1, <1>2 DEF WillSuspend
<1>5. CASE about[q] # o
  <2>1. onboarding'[o] = onboarding[o]
    BY <1>1, <1>5 DEF TypeOK
  <2>2. \A p \in Requests : (WillPromote(p, o) => WillPromote(p, o)') /\ (WillDemote(p, o) => WillDemote(p, o)')
    BY <1>3, <1>5 DEF WillPromote, WillDemote
  <2>3. QED
    BY <1>1, <1>2, <1>4, <2>1, <2>2, Undisturbed
<1>6. CASE about[q] = o
  <2>1. judged[q] = "approved" <=> Missing(o) = {}
    BY <1>1, <1>6 DEF JudgedRight
  <2>2. judged[q] # seen[q] => onboarding'[o] = judged[q]
    BY <1>1, <1>6 DEF TypeOK
  <2>3. CASE judged[q] # seen[q]
    BY <1>2, <2>1, <2>2, <2>3 DEF UpIsSeenTo, DownIsSeenTo, Settled
  <2>4. CASE judged[q] = seen[q] /\ Missing(o) = {}
    <3>1. ~WillPromote(q, o) /\ onboarding' = onboarding
      BY <1>1, <2>1, <2>4 DEF WillPromote
    <3>2. \A p \in Requests : WillPromote(p, o) => WillPromote(p, o)'
      BY <1>3, <3>1 DEF WillPromote
    <3>3. QED
      BY <1>1, <1>2, <2>4, <3>1, <3>2 DEF UpIsSeenTo, DownIsSeenTo, Settled
  <2>5. CASE judged[q] = seen[q] /\ Missing(o) # {}
    <3>1. ~WillDemote(q, o) /\ onboarding' = onboarding
      BY <1>1, <2>1, <2>5 DEF WillDemote
    <3>2. \A p \in Requests : WillDemote(p, o) => WillDemote(p, o)'
      BY <1>3, <3>1 DEF WillDemote
    <3>3. QED
      BY <1>1, <1>2, <1>4, <2>5, <3>1, <3>2 DEF UpIsSeenTo, DownIsSeenTo
  <2>6. QED
    BY <2>3, <2>4, <2>5
<1>7. QED
  BY <1>5, <1>6

LEMMA ExpireSeesTo ==
  ASSUME TypeOK, NEW o \in Operators, UpIsSeenTo(o), DownIsSeenTo(o),
         NEW s \in Sweeps, Expire(s)
  PROVE  UpIsSeenTo(o)' /\ DownIsSeenTo(o)'
<1> DEFINE gone == {d \in Documents : status[d] = "approved" /\ meets[d] \in Expiring /\ nearness[d] = 0}
<1>1. /\ UNCHANGED <<onboarding, overridden, owner, meets, requests>>
      /\ step[s] = "idle"
      /\ step'[s] = "suspend" /\ todo'[s] = {owner[d] : d \in gone}
      /\ \A t \in Sweeps \ {s} : step'[t] = step[t] /\ todo'[t] = todo[t]
  BY DEF Expire, TypeOK
<1>2. \A d \in Documents : (d \in gone => status'[d] = "expired") /\ (d \notin gone => status'[d] = status[d])
  BY DEF Expire, TypeOK
<1>3. Missing(o)' = {} => Missing(o) = {}
  BY <1>1, <1>2, NoNewApproval
<1>4. HasLostRequired(o) => HasLostRequired(o)'
  BY <1>1, <1>2 DEF HasLostRequired
<1>5. \A q \in Requests : (WillPromote(q, o) => WillPromote(q, o)') /\ (WillDemote(q, o) => WillDemote(q, o)')
  BY <1>1 DEF WillPromote, WillDemote, requests
<1>6. \A t \in Sweeps : WillSuspend(t, o) => WillSuspend(t, o)'
  BY <1>1, <1>4 DEF WillSuspend
<1>7. ASSUME Missing(o) = {}, Missing(o)' # {}
      PROVE  WillSuspend(s, o)'
  <2>1. PICK r \in Required : ~Approved(o, r)'
    BY <1>7 DEF Missing
  <2>2. PICK d \in Documents : owner[d] = o /\ meets[d] = r /\ status[d] = "approved"
    BY <1>7 DEF Missing, Approved, For
  <2>3. d \in gone
    BY <1>1, <1>2, <2>1, <2>2 DEF Approved, For
  <2>4. HasLostRequired(o)'
    BY <1>1, <1>2, <2>2, <2>3 DEF HasLostRequired
  <2>5. o \in todo'[s]
    BY <1>1, <2>2, <2>3
  <2>6. QED
    BY <1>1, <2>4, <2>5 DEF WillSuspend
<1>8. UpIsSeenTo(o)'
  BY <1>1, <1>3, <1>5 DEF UpIsSeenTo, Settled
<1>9. DownIsSeenTo(o)'
  BY <1>1, <1>5, <1>6, <1>7 DEF DownIsSeenTo
<1>10. QED
  BY <1>8, <1>9

LEMMA SuspendSeesTo ==
  ASSUME TypeOK, NEW o \in Operators, UpIsSeenTo(o), DownIsSeenTo(o),
         NEW s \in Sweeps, NEW p \in Operators, Suspend(s, p)
  PROVE  UpIsSeenTo(o)' /\ DownIsSeenTo(o)'
<1>1. /\ UNCHANGED <<overridden, status, owner, meets, requests, step>>
      /\ todo'[s] = todo[s] \ {p} /\ \A t \in Sweeps \ {s} : todo'[t] = todo[t]
  BY DEF Suspend, TypeOK, papers
<1>2. Missing(o)' = Missing(o) /\ (HasLostRequired(o)' <=> HasLostRequired(o))
  BY <1>1 DEF Missing, Approved, For, HasLostRequired
<1>3. \A q \in Requests : (WillPromote(q, o) => WillPromote(q, o)') /\ (WillDemote(q, o) => WillDemote(q, o)')
  BY <1>1 DEF WillPromote, WillDemote, requests
<1>4. CASE p = o /\ HasLostRequired(o)
  <2>1. onboarding'[o] = "suspended"
    BY <1>4 DEF Suspend, TypeOK
  <2>2. QED
    BY <2>1 DEF UpIsSeenTo, DownIsSeenTo, Settled
<1>5. CASE p # o \/ ~HasLostRequired(o)
  <2>1. onboarding'[o] = onboarding[o]
    BY <1>5 DEF Suspend, TypeOK
  <2>2. \A t \in Sweeps : WillSuspend(t, o) => WillSuspend(t, o)'
    BY <1>1, <1>2, <1>5 DEF WillSuspend
  <2>3. QED
    BY <1>1, <1>2, <1>3, <2>1, <2>2, Undisturbed
<1>6. QED
  BY <1>4, <1>5

(* The rest of the sweep only reminds. *)
LEMMA RemindSeesTo ==
  ASSUME TypeOK, NEW o \in Operators, UpIsSeenTo(o), DownIsSeenTo(o), NEW s \in Sweeps,
         FindDue(s) \/ (\E r \in Documents \X WindowSet : Warn(s, r) \/ Note(s, r)) \/ SweepDone(s)
  PROVE  UpIsSeenTo(o)' /\ DownIsSeenTo(o)'
<1>1. UNCHANGED <<onboarding, overridden, status, owner, meets, requests>>
  BY DEF FindDue, Warn, Note, SweepDone, EndSweep, people, papers
<1>2. Missing(o)' = Missing(o) /\ (HasLostRequired(o)' <=> HasLostRequired(o))
  BY <1>1 DEF Missing, Approved, For, HasLostRequired
<1>3. \A q \in Requests : (WillPromote(q, o) => WillPromote(q, o)') /\ (WillDemote(q, o) => WillDemote(q, o)')
  BY <1>1 DEF WillPromote, WillDemote, requests
<1>4. step[s] # "suspend" \/ todo[s] = {}
  BY DEF FindDue, Warn, Note, SweepDone
<1>5. \A t \in Sweeps \ {s} : step'[t] = step[t] /\ todo'[t] = todo[t]
  BY DEF FindDue, Warn, Note, SweepDone, EndSweep, TypeOK
<1>6. \A t \in Sweeps : WillSuspend(t, o) => WillSuspend(t, o)'
  BY <1>2, <1>4, <1>5 DEF WillSuspend
<1>7. QED
  BY <1>1, <1>2, <1>3, <1>6, Undisturbed

LEMMA RestSeesTo ==
  ASSUME TypeOK, NEW o \in Operators, UpIsSeenTo(o), DownIsSeenTo(o),
         Corporate \/ (\E d \in Documents : DaysPass(d)) \/ UNCHANGED vars
  PROVE  UpIsSeenTo(o)' /\ DownIsSeenTo(o)'
<1>1. UNCHANGED <<requests, step, todo, status, owner, meets>>
  BY DEF Corporate, SetOnboarding, DaysPass, vars, papers, sweeps
<1>2. Missing(o)' = Missing(o) /\ (HasLostRequired(o)' <=> HasLostRequired(o))
  BY <1>1 DEF Missing, Approved, For, HasLostRequired
<1>3. \A q \in Requests : (WillPromote(q, o) => WillPromote(q, o)') /\ (WillDemote(q, o) => WillDemote(q, o)')
  BY <1>1 DEF WillPromote, WillDemote, requests
<1>4. \A s \in Sweeps : WillSuspend(s, o) => WillSuspend(s, o)'
  BY <1>1, <1>2 DEF WillSuspend
<1>5. /\ overridden \subseteq overridden'
      /\ onboarding'[o] = onboarding[o] \/ o \in overridden'
  BY DEF Corporate, SetOnboarding, DaysPass, vars, people, TypeOK
<1>6. CASE o \in overridden'
  BY <1>6 DEF UpIsSeenTo, DownIsSeenTo, Settled
<1>7. CASE onboarding'[o] = onboarding[o]
  BY <1>2, <1>3, <1>4, <1>5, <1>7, Undisturbed
<1>8. QED
  BY <1>5, <1>6, <1>7

(* Where some document is required: what a request is about to write is    *)
(* right for whoever was not overtaken, and while nothing has died whoever *)
(* is complete and not approved, or approved and not complete, has a       *)
(* request at work that will write them or a sweep that will suspend them  *)
(* (refreshOnboardingStatus, runDocumentExpiry), however many there are.   *)
THEOREM AttendedInvHolds ==
  ASSUME Required # {}
  PROVE  Spec => []AttendedInv
<1>1. Init => AttendedInv
  <2>1. Init => \A o \in Operators : Missing(o) = Required
    BY DEF Init, Missing, Approved, For
  <2>2. Init => \A q \in Requests : JudgedRight(q)
    BY DEF Init, JudgedRight
  <2>3. Init => \A o \in Operators : UpIsSeenTo(o) /\ DownIsSeenTo(o)
    BY <2>1 DEF Init, UpIsSeenTo, DownIsSeenTo
  <2>4. QED
    BY <2>2, <2>3 DEF AttendedInv
<1>2. TypeOK /\ AttendedInv /\ [Next]_vars => AttendedInv'
  <2> SUFFICES ASSUME TypeOK, AttendedInv, [Next]_vars PROVE AttendedInv'
    OBVIOUS
  <2>1. ASSUME faults' = 0, NEW o \in Operators, o \notin overtaken'
        PROVE  UpIsSeenTo(o)' /\ DownIsSeenTo(o)'
    <3>1. faults = 0 /\ o \notin overtaken
      BY <2>1, HistoryGrows
    <3>2. UpIsSeenTo(o) /\ DownIsSeenTo(o)
      BY <3>1 DEF AttendedInv
    <3>3. \A q \in Requests : ~RequestDies(q)
      BY <2>1, <3>1 DEF RequestDies
    <3>4. \A s \in Sweeps : ~SweepDies(s)
      BY <2>1, <3>1 DEF SweepDies
    <3>5. ASSUME NEW q \in Requests, NewRequest(q) \/ RequestStep(q)
          PROVE  UpIsSeenTo(o)' /\ DownIsSeenTo(o)'
      <4>1. JudgedRight(q)
        BY DEF AttendedInv
      <4>2. QED
        BY <3>1, <3>2, <3>5, <4>1, NewRequestSeesTo, ReviewSeesTo, ReadUserSeesTo,
           ReadDocumentsSeesTo, WriteStatusSeesTo DEF RequestStep
    <3>6. ASSUME NEW s \in Sweeps, SweepStep(s)
          PROVE  UpIsSeenTo(o)' /\ DownIsSeenTo(o)'
      BY <3>2, <3>6, ExpireSeesTo, SuspendSeesTo, RemindSeesTo DEF SweepStep
    <3>7. CASE Corporate \/ (\E d \in Documents : DaysPass(d)) \/ UNCHANGED vars
      BY <3>2, <3>7, RestSeesTo
    <3>8. QED
      BY <3>3, <3>4, <3>5, <3>6, <3>7 DEF Next
  <2>2. QED
    BY <2>1, JudgedRightKept DEF AttendedInv
<1>3. QED
  BY <1>1, <1>2, TypeCorrect, PTL DEF Spec

(* Nobody is left behind: whoever has every required document approved is  *)
(* approved, or suspended, or where corporate put them, once the requests  *)
(* about them are answered, but for a death and for a document that        *)
(* changed between refreshOnboardingStatus' reading and its writing.       *)
THEOREM NobodyIsLeftBehind ==
  ASSUME Required # {}
  PROVE  Spec => []NobodyLeftBehind
<1>1. AttendedInv => NobodyLeftBehind
  BY DEF AttendedInv, NobodyLeftBehind, AtRest, Refreshing, UpIsSeenTo, WillPromote
<1>2. QED
  BY <1>1, AttendedInvHolds, PTL

(* Nobody works uncovered: with the same exceptions, an approved operator  *)
(* has every required document approved, or was put there by corporate, or *)
(* is on the list of the sweep that expired one (reviewDocument decides by *)
(* id, so two reviewers may decide a document one over the other).         *)
THEOREM NobodyWorksUncovered ==
  ASSUME Required # {}
  PROVE  Spec => []NobodyUncovered
<1>1. AttendedInv => NobodyUncovered
  BY DEF AttendedInv, NobodyUncovered, AtRest, Refreshing, DownIsSeenTo, WillDemote, WillSuspend
<1>2. QED
  BY <1>1, AttendedInvHolds, PTL
=============================================================================
