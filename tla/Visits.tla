------------------------------- MODULE Visits --------------------------------
(***************************************************************************)
(* Work orders, their photos and the notices of a finished visit:          *)
(* services/workOrders.ts, deleteWorkOrder of services/deletion.ts and the *)
(* constraints of work_orders and service_photos; of deleteUser, what it   *)
(* does to visits.                                                         *)
(*                                                                         *)
(* A request that changes a visit is a transaction: it locks the visit's   *)
(* row and decides, and later writes and commits.  Booking a visit is two  *)
(* statements without a transaction.                                       *)
(***************************************************************************)
EXTENDS Naturals, FiniteSets

CONSTANTS
  Visits,       \* work_orders.id, of all that ever exist
  Operators,    \* users of role operator
  Office,       \* users who dispatch: corporate, or a branch's sign-in
  Photos,       \* service_photos.file_url
  KindOf,       \* [Photos -> {"before", "after", "issue"}]
  Requests,     \* requests being handled at once
  Nobody,
  MaxStandings  \* Bound: suspensions and approvals

Statuses == {"scheduled", "en_route", "in_progress", "completed", "skipped"}
Open     == {"scheduled", "en_route", "in_progress"}     \* OPEN_STATUSES

VARIABLES
  order,     \* work_orders: status, assigned operator, photos; or None
  staff,     \* the operators whose account is still there
  fit,       \* of those, the ones assertOperatorAssignable lets through
  standings, \* how often that changed
  handling,  \* what each request has decided, and which row it holds
  notices    \* of a finished visit: none, owed (not awaited), customer, told, lost

visitVars == <<order, staff, fit, standings, handling, notices>>

None == [status |-> "none"]
Idle == [op |-> "idle"]

Init ==
  /\ order = [v \in Visits |-> None]
  /\ staff = Operators /\ fit = Operators
  /\ standings = 0
  /\ handling = [r \in Requests |-> Idle]
  /\ notices = [v \in Visits |-> "none"]

Booked(v) == order[v] # None
IsOpen(v) == Booked(v) /\ order[v].status \in Open

(* Mutant: the row is read without FOR UPDATE. *)
UnlockedOrNot(v) == TRUE

(* lock(): the row is free of other transactions. *)
Unlocked(v) == \A r \in Requests : handling[r].op \in {"update", "status", "photo"} => handling[r].about # v

Orders    == [status : Statuses, who : Operators \cup {Nobody}, photos : SUBSET Photos]
Decisions ==
  [op : {"create"}, who : Operators \cup {Nobody}]
    \cup [op : {"update"}, about : Visits, who : Operators \cup {Nobody}]
    \cup [op : {"status"}, about : Visits, by : Operators \cup Office, to : Statuses]
    \cup [op : {"photo"}, about : Visits, by : Operators \cup Office, photo : Photos]

VisitsTypeOK ==
  /\ order \in [Visits -> {None} \cup Orders]
  /\ staff \subseteq Operators /\ fit \subseteq staff
  /\ standings \in 0..MaxStandings
  /\ handling \in [Requests -> {Idle} \cup Decisions]
  /\ notices \in [Visits -> {"none", "owed", "customer", "told", "lost"}]

(* assertMayWork *)
MayWork(v, actor) == actor \in Office \/ order[v].who = actor

(* assertAssignable; nobody may be assigned too. *)
Assignable(o) == o = Nobody \/ o \in fit

Decide(r, decision) == handling' = [handling EXCEPT ![r] = decision]
Finish(r)           == handling' = [handling EXCEPT ![r] = Idle]

-----------------------------------------------------------------------------
(* createWorkOrder: the contract and the gate are read, then the row is    *)
(* inserted; only the foreign key looks at the operator again.             *)
ReadGate(r, o) ==
  /\ handling[r] = Idle
  /\ Assignable(o)
  /\ Decide(r, [op |-> "create", who |-> o])
  /\ UNCHANGED <<order, staff, fit, standings, notices>>

InsertOrder(r, v) ==
  /\ handling[r].op = "create"
  /\ ~Booked(v) /\ notices[v] = "none"
  /\ handling[r].who \in staff \cup {Nobody}
  /\ order' = [order EXCEPT ![v] = [status |-> "scheduled", who |-> handling[r].who, photos |-> {}]]
  /\ Finish(r)
  /\ UNCHANGED <<staff, fit, standings, notices>>

-----------------------------------------------------------------------------
(* updateWorkOrder: who goes, decided under the visit's lock. *)
UpdateOrder(r, v, o) ==
  /\ handling[r] = Idle
  /\ IsOpen(v) /\ Unlocked(v)
  /\ Assignable(o)
  /\ Decide(r, [op |-> "update", about |-> v, who |-> o])
  /\ UNCHANGED <<order, staff, fit, standings, notices>>

(* changeWorkOrderStatus: whose visit, which move, and the completion gate. *)
Moves(s) ==                                          \* TRANSITIONS
  CASE s = "scheduled"   -> {"en_route", "in_progress", "skipped"}
    [] s = "en_route"    -> {"in_progress", "skipped"}
    [] s = "in_progress" -> {"completed", "skipped"}
    [] OTHER             -> {}

(* Mutant: one photo of either kind is enough. *)
PhotographedOnce(v) == {"before", "after"} \cap {KindOf[p] : p \in order[v].photos} # {}

Photographed(v) == {"before", "after"} \subseteq {KindOf[p] : p \in order[v].photos}

ChangeStatus(r, v, actor, to) ==
  /\ handling[r] = Idle
  /\ Booked(v) /\ Unlocked(v)
  /\ MayWork(v, actor)
  /\ to \in Moves(order[v].status)
  /\ to = "completed" => Photographed(v)
  /\ Decide(r, [op |-> "status", about |-> v, by |-> actor, to |-> to])
  /\ UNCHANGED <<order, staff, fit, standings, notices>>

(* addServicePhoto: the visit is open and the caller's, the file not yet   *)
(* on it (service_photos_file_url_unique).                                 *)
AddPhoto(r, v, actor, p) ==
  /\ handling[r] = Idle
  /\ IsOpen(v) /\ Unlocked(v)
  /\ MayWork(v, actor)
  /\ p \notin order[v].photos
  /\ Decide(r, [op |-> "photo", about |-> v, by |-> actor, photo |-> p])
  /\ UNCHANGED <<order, staff, fit, standings, notices>>

(* Each writes its row and commits; a row deleted meanwhile is not found,  *)
(* and an operator deleted meanwhile is not assigned.                      *)
Written(d, row) ==
  CASE d.op = "update" -> [row EXCEPT !.who = d.who]
    [] d.op = "status" -> [row EXCEPT !.status = d.to]
    [] d.op = "photo"  -> [row EXCEPT !.photos = @ \cup {d.photo}]

Write(r) ==
  /\ handling[r].op \in {"update", "status", "photo"}
  /\ handling[r].op = "update" => handling[r].who \in staff \cup {Nobody}
  /\ LET d == handling[r] IN
     /\ order' = [order EXCEPT ![d.about] = IF Booked(d.about) THEN Written(d, @) ELSE None]
     /\ notices' = IF Booked(d.about) /\ d.op = "status" /\ d.to = "completed"
                     THEN [notices EXCEPT ![d.about] = "owed"] ELSE notices
  /\ Finish(r)
  /\ UNCHANGED <<staff, fit, standings>>

(* A request that fails leaves nothing behind. *)
Fail(r) ==
  /\ handling[r] # Idle
  /\ Finish(r)
  /\ UNCHANGED <<order, staff, fit, standings, notices>>

-----------------------------------------------------------------------------
(* notifyServiceComplete, which nothing waits for: the customer's message  *)
(* is queued, then the manager's, of the visit as it now stands.           *)
Notify(v) ==
  /\ notices[v] \in {"owed", "customer"}
  /\ notices' = [notices EXCEPT ![v] = IF ~Booked(v) THEN "lost"
                                      ELSE IF @ = "owed" THEN "customer" ELSE "told"]
  /\ UNCHANGED <<order, staff, fit, standings, handling>>

(* The process ends: what was owed is never sent, what was held let go.    *)
Crash ==
  /\ \E v \in Visits : notices[v] \in {"owed", "customer"}
  /\ notices' = [v \in Visits |-> IF notices[v] \in {"owed", "customer"} THEN "lost" ELSE notices[v]]
  /\ handling' = [r \in Requests |-> Idle]
  /\ UNCHANGED <<order, staff, fit, standings>>

(* deleteWorkOrder; photos go with it. *)
DeleteOrder(v) ==
  /\ Booked(v) /\ Unlocked(v)
  /\ order' = [order EXCEPT ![v] = None]
  /\ notices' = [notices EXCEPT ![v] = IF @ = "none" THEN "lost" ELSE @]
  /\ UNCHANGED <<staff, fit, standings, handling>>

(* An operator is suspended, or approved again (Compliance).               *)
ChangeStanding(o) ==
  /\ o \in staff
  /\ standings < MaxStandings
  /\ standings' = standings + 1
  /\ fit' = IF o \in fit THEN fit \ {o} ELSE fit \cup {o}
  /\ UNCHANGED <<order, staff, handling, notices>>

Freed(v) == [order[v] EXCEPT !.who = Nobody]

(* deleteUser of an operator: each visit that names them goes back to      *)
(* nobody, done or not (assigned_user_id, ON DELETE SET NULL), once the    *)
(* row is free.                                                            *)
DeleteOperator(o) ==
  /\ o \in staff
  /\ \A v \in Visits : Booked(v) /\ order[v].who = o => Unlocked(v)
  /\ staff' = staff \ {o} /\ fit' = fit \ {o}
  /\ order' = [v \in Visits |-> IF Booked(v) /\ order[v].who = o THEN Freed(v) ELSE order[v]]
  /\ UNCHANGED <<standings, handling, notices>>

Next ==
  \/ \E r \in Requests :
       \/ \E o \in Operators \cup {Nobody} :
            ReadGate(r, o) \/ \E v \in Visits : UpdateOrder(r, v, o)
       \/ \E v \in Visits, actor \in Operators \cup Office :
            \/ \E to \in Statuses : ChangeStatus(r, v, actor, to)
            \/ \E p \in Photos : AddPhoto(r, v, actor, p)
       \/ \E v \in Visits : InsertOrder(r, v)
       \/ Write(r) \/ Fail(r)
  \/ \E v \in Visits : Notify(v) \/ DeleteOrder(v)
  \/ \E o \in Operators : ChangeStanding(o) \/ DeleteOperator(o)
  \/ Crash

Spec == Init /\ [][Next]_visitVars

-----------------------------------------------------------------------------
(* A visit that is done was photographed before and after, and stays as it *)
(* was done: nobody adds to it, hands it over or takes it back, whatever   *)
(* the requests that had already looked at it write (workOrders.ts: "its   *)
(* photos are frozen", "final and cannot be changed").  It loses its       *)
(* operator's name only as that account goes (deletion.ts: "visits they    *)
(* were on go back to unassigned").                                        *)
DoneStands ==
  \A v \in Visits :
    /\ Booked(v) /\ order[v].status \in {"completed", "skipped"} =>
         \/ order'[v] \in {order[v], None}
         \/ order[v].who \in staff \ staff' /\ order'[v] = Freed(v)
    /\ Booked(v)' /\ order'[v].status = "completed" => {"before", "after"} \subseteq {KindOf[p] : p \in order'[v].photos}

(* An operator moves, or photographs, only the visit that is theirs as the *)
(* change is written: one handed to a colleague in the meantime is not     *)
(* theirs any more (assertMayWork).                                        *)
TheirsToWork ==
  \A r \in Requests : handling[r].op \in {"status", "photo"} /\ order' # order /\ handling'[r] = Idle =>
    LET d == handling[r] IN d.by \in Office \/ order[d.about].who = d.by \/ ~Booked(d.about)

(* Why, as an inductive invariant: the visit a request has decided about   *)
(* is held by it alone and is still what it was decided on, and one that   *)
(* is completed has its photos.                                            *)
Holds(r) == handling[r].op \in {"update", "status", "photo"}

StillStands(d) ==
  /\ Booked(d.about)
  /\ d.op \in {"update", "photo"} => IsOpen(d.about)
  /\ d.op \in {"status", "photo"} => MayWork(d.about, d.by)
  /\ d.op = "status" => d.to \in Moves(order[d.about].status) /\ (d.to = "completed" => Photographed(d.about))

DecidedInv ==
  /\ \A r \in Requests : Holds(r) =>
       /\ StillStands(handling[r])
       /\ \A s \in Requests \ {r} : Holds(s) => handling[s].about # handling[r].about
  /\ \A v \in Visits : order[v].status = "completed" => Photographed(v)

(* An open visit is assigned only to an operator who may work.  Not so: a  *)
(* suspension takes no visit away, and one that comes between the gate and *)
(* the write is not seen.                                                  *)
OnlyTheFitAreSent == \A v \in Visits : IsOpen(v) => Assignable(order[v].who)
=============================================================================
