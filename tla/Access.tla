------------------------------- MODULE Access -------------------------------
(***************************************************************************)
(* Accounts, sessions and the requests made with them: middleware/auth.ts, *)
(* services/auth.ts, services/branchSignIn.ts, routes/users.ts,            *)
(* routes/branches.ts and deleteUser of services/deletion.ts.              *)
(*                                                                         *)
(* A request is let in on what the account's row says as it arrives; its   *)
(* handler works with that copy, and the row may change meanwhile.  The    *)
(* handlers of Routes only end here; those that change accounts and        *)
(* branches are steps of their own.                                        *)
(***************************************************************************)
EXTENDS Routes, Naturals, FiniteSets

CONSTANTS
  Accounts,     \* users.id, of all that ever exist
  Branches,
  RoleAt,       \* the role of each account there is at the start; "none" for the others
  HomeAt,       \* and its branch
  Nowhere,      \* no branch
  Slots,        \* requests being handled at once
  MaxServing,   \* Bound: of those, by routers other than users and branches
  MaxTime,      \* Bound: seconds
  MaxChanges    \* Bound: accounts changed, made and deleted

Roles   == {"corporate", "sales", "operator", "branch"}

ASSUME AccessAssumption ==
  /\ \A a \in Accounts : /\ RoleAt[a] \in Roles \cup {"none"} /\ HomeAt[a] \in Branches \cup {Nowhere}
                         /\ RoleAt[a] \in Roles \ {"corporate"} => HomeAt[a] \in Branches
  /\ Nowhere \notin Branches
  /\ MaxTime \in Nat /\ MaxChanges \in Nat

NoRow   == [role |-> "none"]
Free    == [kind |-> "free"]

VARIABLES
  now,       \* the clock, in whole seconds
  row,       \* users: role, branch, is_active, when the password changed, whose door it is
  sessions,  \* tokens given out: whose, and when
  slot,      \* requests being handled
  manager,   \* branches.manager_user_id
  audited,   \* accounts the audit log names
  changes

vars == <<now, row, sessions, slot, manager, audited, changes>>

Rowed(a) == row[a] # NoRow

UserRow(role, home, door) == [role |-> role, home |-> home, active |-> TRUE, since |-> 0, door |-> door]

Init ==
  /\ now = 0
  /\ row = [a \in Accounts |-> IF RoleAt[a] = "none" THEN NoRow ELSE UserRow(RoleAt[a], HomeAt[a], Nowhere)]
  /\ sessions = {[who |-> a, at |-> 0] : a \in {x \in Accounts : RoleAt[x] # "none"}}
  /\ slot = [s \in Slots |-> Free]
  /\ manager = [b \in Branches |-> Nowhere]
  /\ audited = {}
  /\ changes = 0

(* A request without its name: what the guards and the reach make of it.   *)
Asks == {[side |-> r.side, does |-> r.does, may |-> r.may, reach |-> r.reach] : r \in Routes}

Busy    == {s \in Slots : slot[s] # Free}
ByWhom(k) == {s \in Busy : slot[s].kind = k}

UserRows == [role : Roles, home : Branches \cup {Nowhere}, active : BOOLEAN, since : 0..MaxTime,
             door : Branches \cup {Nowhere}]
Serving(them) == [kind : {"serve"}, who : them \cup {Nowhere}, role : Roles \cup {"nobody"},
                  home : Branches \cup {Nowhere}, since : 0..MaxTime, late : BOOLEAN,
                  side : {q.side : q \in Asks} \cup {"none"}, in : Branches \cup {Nowhere}, of : them \cup {Nowhere}]
Deleting(them) == [kind : {"delete"}, who : them, about : them]

AccessTypeOK ==
  /\ now \in 0..MaxTime
  /\ row \in [Accounts -> {NoRow} \cup UserRows]
  /\ \A a \in Accounts : Rowed(a) => (row[a].role # "corporate" => row[a].home \in Branches) /\ row[a].since <= now
  /\ sessions \subseteq [who : Accounts, at : 0..MaxTime]
  /\ slot \in [Slots -> {Free} \cup Serving(Accounts) \cup Deleting(Accounts)]
  /\ manager \in [Branches -> Accounts \cup {Nowhere}]
  /\ audited \subseteq Accounts
  /\ changes \in 0..MaxChanges

-----------------------------------------------------------------------------
(* Mutant: the account's row is not read; the token says who it is.        *)
TokenAdmits(t) == Rowed(t.who)

(* requireAuth: the row, read once; the token is older than the password   *)
(* only when it is so in whole seconds.                                    *)
Admits(t) == Rowed(t.who) /\ row[t.who].active /\ t.at >= row[t.who].since

(* Mutant: the branch asked for is taken as it is. *)
WithinAny(u, b) == u.role = "corporate" \/ u.home # Nowhere

(* resolveBranchScope: corporate anywhere, the rest at home.               *)
Within(u, b) == u.role = "corporate" \/ (u.home # Nowhere /\ u.home = b)

(* Mutant: an operator's papers are open to the whole branch. *)
OwnOrBranch(who, u, a) == u.role = "corporate" \/ (Rowed(a) /\ row[a].home = u.home)

(* assertCanSeeOperator: corporate anyone's record, a branch's sign-in its *)
(* own crew's, anybody else nothing but their own.                         *)
OwnOnly(who, u, a) ==
  CASE u.role = "corporate" -> TRUE
    [] u.role = "branch"    -> Rowed(a) /\ row[a].home = u.home
    [] OTHER                -> a = who

(* Whose record a request may name: one of branch b, or of account a; a    *)
(* file, of either (authorizeRead, which for some purposes allows less).   *)
Reaches(q, who, u, b, a) ==
  CASE q.reach = "branch" -> Within(u, b)
    [] q.reach = "own"    -> OwnOnly(who, u, a)
    [] q.reach = "file"   -> a = who \/ Within(u, b)
    [] OTHER              -> TRUE

Take(s, request) == slot' = [slot EXCEPT ![s] = request]

(* Of a request, what it changes, in which branch, and of whose. *)
Served(who, u, q, b, a) ==
  [kind |-> "serve", who |-> who, role |-> u.role, home |-> u.home, since |-> u.since, late |-> FALSE,
   side |-> IF q.does = "change" THEN q.side ELSE "none",
   in   |-> IF u.role # "corporate" /\ q.reach = "branch" THEN b ELSE Nowhere,
   of   |-> IF u.role # "corporate" /\ q.reach = "own" THEN a ELSE Nowhere]

(* A request is let in. *)
Begin(s, t, q, b, a) ==
  /\ slot[s] = Free /\ Cardinality(ByWhom("serve")) < MaxServing
  /\ Admits(t)
  /\ row[t.who].role \in q.may
  /\ Reaches(q, t.who, row[t.who], b, a)
  /\ Take(s, Served(t.who, row[t.who], q, b, a))
  /\ UNCHANGED <<now, row, sessions, manager, audited, changes>>

(* One that comes with a link: no account is asked. *)
BeginOpen(s, q) ==
  /\ slot[s] = Free /\ Cardinality(ByWhom("serve")) < MaxServing
  /\ "nobody" \in q.may
  /\ Take(s, Served(Nowhere, [role |-> "nobody", home |-> Nowhere, since |-> 0], q, Nowhere, Nowhere))
  /\ UNCHANGED <<now, row, sessions, manager, audited, changes>>

Finish(s) ==
  /\ slot[s] # Free
  /\ slot[s].kind = "serve"
  /\ Take(s, Free)
  /\ UNCHANGED <<now, row, sessions, manager, audited, changes>>

(* What is being handled for an account that has just changed. *)
Overtake(a, ended) ==
  slot' = [s \in Slots |-> IF s = ended THEN Free
                             ELSE IF slot[s] # Free /\ slot[s].kind = "serve" /\ slot[s].who = a THEN [slot[s] EXCEPT !.late = TRUE]
                             ELSE slot[s]]

-----------------------------------------------------------------------------
(* login, and adminSignIn; a bound: by an account with no token it can use. *)
Login(a) ==
  /\ Rowed(a) /\ row[a].active /\ row[a].role # "branch"
  /\ ~\E t \in sessions : t.who = a /\ Admits(t)
  /\ sessions' = sessions \cup {[who |-> a, at |-> now]}
  /\ UNCHANGED <<now, row, slot, manager, audited, changes>>

(* branchSignIn: the branch's own account, made if there is none.  One     *)
(* transaction; a second that makes it too loses to users.email.           *)
BranchSignIn(b) ==
  /\ \/ /\ \A a \in Accounts : Rowed(a) => row[a].door # b
        /\ changes < MaxChanges
        /\ changes' = changes + 1
        /\ \E a \in Accounts :
             /\ ~Rowed(a) /\ RoleAt[a] = "none" /\ ~\E t \in sessions : t.who = a
             /\ row' = [row EXCEPT ![a] = UserRow("branch", b, b)]
             /\ sessions' = sessions \cup {[who |-> a, at |-> now]}
     \/ \E a \in Accounts :
          /\ Rowed(a) /\ row[a].door = b /\ row[a].active
          /\ ~\E t \in sessions : t.who = a /\ Admits(t)
          /\ sessions' = sessions \cup {[who |-> a, at |-> now]}
          /\ UNCHANGED <<row, changes>>
  /\ UNCHANGED <<now, slot, manager, audited>>

(* resetBranchPassword: whoever is signed in as the branch is signed out.  *)
ResetBranchPassword(b) ==
  /\ changes < MaxChanges
  /\ changes' = changes + 1
  /\ \E a \in Accounts :
       /\ Rowed(a) /\ row[a].door = b
       /\ row' = [row EXCEPT ![a].since = now]
       /\ Overtake(a, Nowhere)
  /\ UNCHANGED <<now, sessions, manager, audited>>

(* changePassword: the caller gets a token anew. *)
ChangePassword(t) ==
  /\ Admits(t)
  /\ row[t.who].role # "branch"
  /\ changes < MaxChanges
  /\ changes' = changes + 1
  /\ row' = [row EXCEPT ![t.who].since = now]
  /\ sessions' = sessions \cup {[who |-> t.who, at |-> now]}
  /\ audited' = audited \cup {t.who}
  /\ Overtake(t.who, Nowhere)
  /\ UNCHANGED <<now, manager>>

-----------------------------------------------------------------------------
(* The office's own requests. *)
Officer(t) == Admits(t) /\ row[t.who].role = "corporate"

(* PATCH /users/:id: it reads the row for its role and branch and then     *)
(* writes: a password, with an entry in the log, and the other fields.     *)
UpdateUser(t, a, b) ==
  /\ Officer(t)
  /\ Rowed(a)
  /\ b # Nowhere \/ row[a].role = "corporate"
  /\ changes < MaxChanges
  /\ changes' = changes + 1
  /\ \/ /\ \E on \in BOOLEAN : row' = [row EXCEPT ![a].home = b, ![a].active = on]
        /\ UNCHANGED audited
     \/ /\ row' = [row EXCEPT ![a].home = b, ![a].since = now]
        /\ audited' = audited \cup {t.who}
  /\ Overtake(a, Nowhere)
  /\ UNCHANGED <<now, sessions, manager>>

CreateUser(t, role, b) ==
  /\ Officer(t)
  /\ changes < MaxChanges
  /\ changes' = changes + 1
  /\ \E a \in Accounts :
       /\ ~Rowed(a) /\ RoleAt[a] = "none" /\ ~\E x \in sessions : x.who = a
       /\ row' = [row EXCEPT ![a] = UserRow(role, b, Nowhere)]
  /\ UNCHANGED <<now, sessions, slot, manager, audited>>

(* PATCH /branches/:id reads the manager's row and then writes the branch. *)
SetManager(t, a, b) ==
  /\ Officer(t)
  /\ Rowed(a) /\ row[a].home = b
  /\ changes < MaxChanges
  /\ changes' = changes + 1
  /\ manager' = [manager EXCEPT ![b] = a]
  /\ UNCHANGED <<now, row, sessions, slot, audited>>

-----------------------------------------------------------------------------
(* deleteUser, one transaction.  It locks the account and looks for        *)
(* another corporate one... *)
OtherOffice(a) == \E o \in Accounts \ {a} : Rowed(o) /\ row[o].role = "corporate"

LockUser(s, t, a) ==
  /\ Rowed(a)
  /\ a # t.who
  /\ \A d \in ByWhom("delete") : slot[d].about # a
  /\ row[a].role = "corporate" => OtherOffice(a)
  /\ slot[s] = Free
  /\ Officer(t)
  /\ Take(s, [kind |-> "delete", who |-> t.who, about |-> a])
  /\ UNCHANGED <<now, row, sessions, manager, audited, changes>>

(* ...and deletes it, which the audit log refuses for an account it names, *)
(* and writes its own entry there: that entry names who deleted it, and so *)
(* takes a lock on that account's row and fails if it is gone.             *)
Holder(a) == {d \in ByWhom("delete") : slot[d].about = a}
Deletes(s) ==
  /\ slot[s] # Free
  /\ slot[s].kind = "delete"

Gone(a, s) ==
  /\ row' = [row EXCEPT ![a] = NoRow]
  /\ manager' = [b \in Branches |-> IF manager[b] = a THEN Nowhere ELSE manager[b]]
  /\ Overtake(a, s)

(* Mutant: the entry does not name the account that deleted it. *)
DeleteUnnamed(s) ==
  /\ Deletes(s)
  /\ LET a == slot[s].about IN
     IF a \in audited
       THEN Take(s, Free) /\ UNCHANGED <<row, manager, audited, changes>>
       ELSE /\ changes < MaxChanges
            /\ changes' = changes + 1
            /\ Gone(a, s)
            /\ UNCHANGED audited
  /\ UNCHANGED <<now, sessions>>

DeleteUser(s) ==
  /\ Deletes(s)
  /\ LET a == slot[s].about IN
     IF a \in audited \/ ~Rowed(slot[s].who)
       THEN Take(s, Free) /\ UNCHANGED <<row, manager, audited, changes>>
       ELSE /\ Holder(slot[s].who) = {}
            /\ changes < MaxChanges
            /\ changes' = changes + 1
            /\ Gone(a, s)
            /\ audited' = audited \cup {slot[s].who}
  /\ UNCHANGED <<now, sessions>>

(* Two that delete each other wait for each other: the database ends one.  *)
AbortDelete(s) ==
  /\ Deletes(s)
  /\ \E d \in Holder(slot[s].who) : d # s /\ slot[d].who = slot[s].about
  /\ Take(s, Free)
  /\ UNCHANGED <<now, row, sessions, manager, audited, changes>>

Tick == now < MaxTime /\ now' = now + 1 /\ UNCHANGED <<row, sessions, slot, manager, audited, changes>>

Next ==
  \/ \E s \in Slots :
       \/ \E q \in Asks :
            \/ BeginOpen(s, q)
            \/ \E t \in sessions, b \in Branches, a \in Accounts : Begin(s, t, q, b, a)
       \/ \E t \in sessions, a \in Accounts : LockUser(s, t, a)
       \/ Finish(s) \/ DeleteUser(s) \/ AbortDelete(s)
  \/ \E a \in Accounts : Login(a)
  \/ \E b \in Branches : BranchSignIn(b) \/ ResetBranchPassword(b)
  \/ \E t \in sessions :
       \/ ChangePassword(t)
       \/ \E role \in Roles, b \in Branches : CreateUser(t, role, b)
       \/ \E a \in Accounts : \/ \E b \in Branches \cup {Nowhere} : UpdateUser(t, a, b)
                             \/ \E b \in Branches : SetManager(t, a, b)
  \/ Tick

Spec == Init /\ [][Next]_vars

-----------------------------------------------------------------------------
(* auth.ts: "selling and clearing are different jobs", and the office runs *)
(* the company: what a request changes is on its role's side, and money    *)
(* and accounts are corporate's.                                           *)
Sides(role) ==
  CASE role = "corporate" -> {"sales", "campaigns", "visits", "papers", "billing", "books", "running", "account"}
    [] role = "branch"    -> {"sales", "campaigns", "visits", "papers", "books", "account"}
    [] role = "sales"     -> {"sales", "campaigns", "papers", "account"}
    [] role = "operator"  -> {"visits", "papers", "account"}
    [] role = "nobody"    -> {"sales", "campaigns", "visits", "billing", "account"}

SidesApart == \A s \in ByWhom("serve") : slot[s].side \in Sides(slot[s].role) \cup {"none"}

(* A request that was let in acts for the account as it is: its branch,    *)
(* switched on, and since its password last changed; unless the account    *)
(* changed while it was being handled (auth.ts: "takes effect at once").   *)
(* Papers are the operator's own, or its branch's sign-in's (operators.ts: *)
(* "You may only access your own operator record").                        *)
ActsAsItIs ==
  \A s \in ByWhom("serve") : slot[s].role # "nobody" =>
    /\ slot[s].in # Nowhere => slot[s].in = slot[s].home
    /\ slot[s].of # Nowhere /\ slot[s].role # "branch" => slot[s].of = slot[s].who
    /\ ~slot[s].late =>
         /\ Rowed(slot[s].who)
         /\ LET u == row[slot[s].who] IN u.active /\ u.role = slot[s].role /\ u.home = slot[s].home /\ u.since = slot[s].since

(* deletion.ts: "That is the last corporate account, so nobody could sign  *)
(* in to run the company".  One stays, though each deletion looks for      *)
(* another without locking it.                                             *)
OneOfficeStays == \E a \in Accounts : Rowed(a) /\ row[a].role = "corporate"

(* Why, as an inductive invariant: who deletes is another account than the *)
(* one that goes, has a session, so that nobody else is given its id, and  *)
(* is corporate for as long as it is there; and it is there when the other *)
(* goes.                                                                   *)
OfficeInv ==
  /\ OneOfficeStays
  /\ \A s \in ByWhom("delete") :
       /\ slot[s].who # slot[s].about
       /\ \E t \in sessions : t.who = slot[s].who
       /\ Rowed(slot[s].who) => row[slot[s].who].role = "corporate"

(* branches.ts: "The manager receives service photo emails and document    *)
(* expiry warnings, so they have to actually belong to this branch."       *)
ManagersBelong == \A b \in Branches : manager[b] # Nowhere => row[manager[b]].home = b
=============================================================================
