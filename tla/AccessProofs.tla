----------------------------- MODULE AccessProofs -----------------------------
(***************************************************************************)
(* Proofs about Access.                                                    *)
(***************************************************************************)
EXTENDS Access, TLAPS

(* What a row of Routes says, by how it is written. *)
LEMMA RowsSay ==
  ASSUME NEW does, NEW side, NEW may, NEW reach, NEW ops, NEW r \in Rows(does, side, may, reach, ops)
  PROVE  r.does = does /\ r.side = side /\ r.may = may /\ r.reach = reach
BY DEF Rows

LEMMA ReadsSay ==
  ASSUME NEW side, NEW may, NEW reach, NEW ops, NEW r \in Reads(side, may, reach, ops)
  PROVE  r.does = "read"
BY RowsSay DEF Reads

LEMMA ChangesSay ==
  ASSUME NEW side, NEW may, NEW reach, NEW ops, NEW r \in Changes(side, may, reach, ops)
  PROVE  r.side = side /\ r.may = may
BY RowsSay DEF Changes

(* Whom a change is open to. *)
OnSide(r) == r.does = "read" \/ \A role \in r.may : r.side \in Sides(role)

LEMMA SalesOnSide ==
  /\ \A r \in CustomersRouter \cup ProfileRouter \cup PropertiesRouter : OnSide(r)
  /\ \A r \in QuotesRouter \cup ContractsRouter \cup AgreementsRouter : OnSide(r)
  /\ \A r \in CardsRouter \cup DealsRouter \cup LeadsRouter : OnSide(r)
  /\ \A r \in ColdEmailRouter \cup MetaRouter : OnSide(r)
<1>1. \A role \in Sellers : "sales" \in Sides(role) /\ "campaigns" \in Sides(role)
  BY DEF Sellers, Sides
<1>2. \A role \in Office : "sales" \in Sides(role)
  BY DEF Office, Sides
<1>3. \A role \in Business : "campaigns" \in Sides(role)
  BY DEF Business, Sides
<1>4. \A r \in CustomersRouter \cup ProfileRouter \cup PropertiesRouter : OnSide(r)
  BY <1>1, ReadsSay, ChangesSay DEF CustomersRouter, ProfileRouter, PropertiesRouter, OnSide
<1>5. \A r \in QuotesRouter \cup ContractsRouter \cup AgreementsRouter : OnSide(r)
  BY <1>1, <1>2, ReadsSay, ChangesSay DEF QuotesRouter, ContractsRouter, AgreementsRouter, OnSide
<1>6. \A r \in CardsRouter \cup DealsRouter \cup LeadsRouter : OnSide(r)
  BY <1>1, ReadsSay, ChangesSay DEF CardsRouter, DealsRouter, LeadsRouter, OnSide
<1>7. \A r \in ColdEmailRouter \cup MetaRouter : OnSide(r)
  BY <1>1, <1>3, ReadsSay, ChangesSay DEF ColdEmailRouter, MetaRouter, OnSide
<1>8. QED
  BY <1>4, <1>5, <1>6, <1>7

LEMMA CrewOnSide ==
  /\ \A r \in WorkOrdersRouter \cup OperatorsRouter : OnSide(r)
  /\ \A r \in WeatherRouter \cup ReviewsRouter : OnSide(r)
<1>1. /\ \A role \in Office : {"visits", "papers", "running"} \subseteq Sides(role)
      /\ \A role \in Crew : "visits" \in Sides(role)
      /\ \A role \in Staff : "papers" \in Sides(role)
      /\ \A role \in Anyone : "visits" \in Sides(role)
  BY DEF Office, Crew, Staff, Anyone, Sides
<1>2. \A r \in WorkOrdersRouter \cup OperatorsRouter : OnSide(r)
  BY <1>1, ReadsSay, ChangesSay DEF WorkOrdersRouter, OperatorsRouter, OnSide
<1>3. \A r \in WeatherRouter \cup ReviewsRouter : OnSide(r)
  BY <1>1, ReadsSay, ChangesSay DEF WeatherRouter, ReviewsRouter, OnSide
<1>4. QED
  BY <1>2, <1>3

LEMMA MoneyOnSide ==
  /\ \A r \in InvoicesReads \cup InvoicesChanges \cup PaymentsRouter : OnSide(r)
  /\ \A r \in ExpensesRouter \cup FinanceRouter \cup PortalRouter : OnSide(r)
<1>1. /\ \A role \in Office : "billing" \in Sides(role)
      /\ \A role \in Business : "books" \in Sides(role)
      /\ \A role \in Anyone : {"billing", "sales"} \subseteq Sides(role)
  BY DEF Office, Business, Anyone, Sides
<1>2. \A r \in InvoicesReads \cup InvoicesChanges \cup PaymentsRouter : OnSide(r)
  BY <1>1, ReadsSay, ChangesSay DEF InvoicesReads, InvoicesChanges, PaymentsRouter, OnSide
<1>3. \A r \in ExpensesRouter \cup FinanceRouter \cup PortalRouter : OnSide(r)
  BY <1>1, ReadsSay, ChangesSay DEF ExpensesRouter, FinanceRouter, PortalRouter, OnSide
<1>4. QED
  BY <1>2, <1>3

LEMMA OfficeOnSide ==
  /\ \A r \in UsersRouter \cup BranchesRouter \cup LookupsRouter : OnSide(r)
  /\ \A r \in PricingRouter \cup MessagesRouter \cup AuditRouter \cup ReportsRouter : OnSide(r)
  /\ \A r \in SmsSettings \cup PaymentSettings : OnSide(r)
<1>1. \A role \in Office : "running" \in Sides(role)
  BY DEF Office, Sides
<1>2. \A r \in UsersRouter \cup BranchesRouter \cup LookupsRouter : OnSide(r)
  BY <1>1, ReadsSay, ChangesSay DEF UsersRouter, BranchesRouter, LookupsRouter, OnSide
<1>3. \A r \in PricingRouter \cup MessagesRouter \cup AuditRouter \cup ReportsRouter : OnSide(r)
  BY ReadsSay DEF PricingRouter, MessagesRouter, AuditRouter, ReportsRouter, OnSide
<1>4. \A r \in SmsSettings \cup PaymentSettings : OnSide(r)
  BY <1>1, ReadsSay, ChangesSay DEF SmsSettings, PaymentSettings, OnSide
<1>5. QED
  BY <1>2, <1>3, <1>4

LEMMA RestOnSide ==
  /\ \A r \in AuthRouter \cup UploadsRouter : OnSide(r)
  /\ \A r \in SigningRouter \cup OptInRouter \cup WebhooksRouter : OnSide(r)
<1>1. /\ \A role \in Staff : "account" \in Sides(role)
      /\ \A role \in Anyone : {"account", "sales", "campaigns", "billing"} \subseteq Sides(role)
  BY DEF Staff, Anyone, Sides
<1>2. \A r \in AuthRouter \cup UploadsRouter : OnSide(r)
  BY <1>1, ReadsSay, ChangesSay DEF AuthRouter, UploadsRouter, OnSide
<1>3. \A r \in SigningRouter \cup OptInRouter \cup WebhooksRouter : OnSide(r)
  BY <1>1, ReadsSay, ChangesSay DEF SigningRouter, OptInRouter, WebhooksRouter, OnSide
<1>4. QED
  BY <1>2, <1>3

(* Of every request the server admits: what it changes is on the side of   *)
(* every role its guards let through.                                      *)
LEMMA AsksOnSide == \A q \in Asks : OnSide(q)
<1>1. \A r \in Routes : OnSide(r)
  BY SalesOnSide, CrewOnSide, MoneyOnSide, OfficeOnSide, RestOnSide DEF Routes
<1>2. QED
  BY <1>1 DEF Asks, OnSide

-----------------------------------------------------------------------------
LEMMA NotRowed == NoRow.role = "none" /\ NoRow \notin UserRows
BY DEF NoRow, UserRows, Roles

LEMMA NotBusy == Free.kind = "free" /\ Free \notin Serving(Accounts) \cup Deleting(Accounts)
BY DEF Free, Serving, Deleting

LEMMA AccountTyped ==
  ASSUME AccessTypeOK, NEW a \in Accounts
  PROVE  Rowed(a) <=> row[a] \in UserRows
BY NotRowed DEF AccessTypeOK, Rowed

LEMMA SlotTyped ==
  ASSUME AccessTypeOK, NEW s \in Slots
  PROVE  /\ slot[s] # Free => slot[s] \in Serving(Accounts) \cup Deleting(Accounts)
         /\ s \in ByWhom("serve") <=> slot[s] \in Serving(Accounts)
         /\ s \in ByWhom("delete") <=> slot[s] \in Deleting(Accounts)
         /\ slot[s] \in Serving(Accounts) => slot[s].kind = "serve"
         /\ slot[s] \in Deleting(Accounts) => slot[s].kind = "delete"
BY NotBusy DEF AccessTypeOK, ByWhom, Busy, Serving, Deleting

LEMMA SessionTyped ==
  ASSUME AccessTypeOK, NEW t \in sessions
  PROVE  t.who \in Accounts /\ t.at \in 0..MaxTime
BY DEF AccessTypeOK

LEMMA NewRow ==
  ASSUME NEW role \in Roles, NEW home \in Branches \cup {Nowhere}, NEW door \in Branches \cup {Nowhere}
  PROVE  /\ UserRow(role, home, door) \in UserRows
         /\ UserRow(role, home, door).role = role /\ UserRow(role, home, door).home = home
         /\ UserRow(role, home, door).since = 0
BY AccessAssumption DEF UserRow, UserRows

(* A row changes to one of an account. *)
LEMMA RowChangesTyped ==
  ASSUME AccessTypeOK, NEW a \in Accounts, NEW new \in UserRows, row' = [row EXCEPT ![a] = new], now' = now,
         new.role # "corporate" => new.home \in Branches, new.since <= now
  PROVE  /\ row' \in [Accounts -> {NoRow} \cup UserRows]
         /\ \A x \in Accounts : Rowed(x)' =>
              (row'[x].role # "corporate" => row'[x].home \in Branches) /\ row'[x].since <= now'
<1>1. row' \in [Accounts -> {NoRow} \cup UserRows]
  BY DEF AccessTypeOK
<1>2. ASSUME NEW x \in Accounts, row'[x] # NoRow
      PROVE  (row'[x].role # "corporate" => row'[x].home \in Branches) /\ row'[x].since <= now'
  BY <1>2 DEF AccessTypeOK, Rowed
<1>3. QED
  BY <1>1, <1>2 DEF Rowed

LEMMA RowsStayTyped ==
  ASSUME AccessTypeOK, UNCHANGED <<row, now>>
  PROVE  \A x \in Accounts : Rowed(x)' =>
              (row'[x].role # "corporate" => row'[x].home \in Branches) /\ row'[x].since <= now'
BY DEF AccessTypeOK, Rowed

LEMMA OvertakeTyped ==
  ASSUME AccessTypeOK, NEW a, NEW e, Overtake(a, e)
  PROVE  slot' \in [Slots -> {Free} \cup Serving(Accounts) \cup Deleting(Accounts)]
<1>1. ASSUME NEW s \in Slots, slot[s] # Free, slot[s].kind = "serve"
      PROVE  [slot[s] EXCEPT !.late = TRUE] \in Serving(Accounts)
  <2>1. slot[s] \in Serving(Accounts)
    BY <1>1, SlotTyped
  <2>2. QED
    BY <2>1 DEF Serving
<1>2. QED
  BY <1>1 DEF Overtake, AccessTypeOK

LEMMA AccessStarts == Init => AccessTypeOK
<1> SUFFICES ASSUME Init PROVE AccessTypeOK
  OBVIOUS
<1>1. /\ now \in 0..MaxTime /\ changes \in 0..MaxChanges /\ sessions \subseteq [who : Accounts, at : 0..MaxTime]
      /\ slot \in [Slots -> {Free} \cup Serving(Accounts) \cup Deleting(Accounts)]
      /\ manager \in [Branches -> Accounts \cup {Nowhere}] /\ audited \subseteq Accounts
  BY AccessAssumption DEF Init
<1>2. ASSUME NEW a \in Accounts, RoleAt[a] # "none"
      PROVE  /\ row[a] = UserRow(RoleAt[a], HomeAt[a], Nowhere) /\ row[a] \in UserRows
             /\ row[a].role # "corporate" => row[a].home \in Branches
             /\ row[a].since = 0
  <2>1. RoleAt[a] \in Roles /\ HomeAt[a] \in Branches \cup {Nowhere}
        /\ (RoleAt[a] # "corporate" => HomeAt[a] \in Branches)
    BY <1>2, AccessAssumption
  <2>2. row[a] = UserRow(RoleAt[a], HomeAt[a], Nowhere)
    BY <1>2 DEF Init
  <2>3. QED
    BY <2>1, <2>2, NewRow
<1>3. ASSUME NEW a \in Accounts, RoleAt[a] = "none" PROVE row[a] = NoRow
  BY <1>3 DEF Init
<1>4. row = [a \in Accounts |-> row[a]]
  BY DEF Init
<1>5. row \in [Accounts -> {NoRow} \cup UserRows]
  BY <1>2, <1>3, <1>4
<1>6. \A a \in Accounts : Rowed(a) => (row[a].role # "corporate" => row[a].home \in Branches) /\ row[a].since <= now
  BY <1>2, <1>3 DEF Rowed, Init
<1>7. QED
  BY <1>1, <1>5, <1>6 DEF AccessTypeOK

(* One account's row is written, and the rest keeps its type. *)
LEMMA AccountWritten ==
  ASSUME AccessTypeOK, NEW a \in Accounts, NEW new \in UserRows, row' = [row EXCEPT ![a] = new],
         new.role # "corporate" => new.home \in Branches, new.since <= now,
         UNCHANGED <<now, manager>>, changes < MaxChanges, changes' = changes + 1, audited' \subseteq Accounts,
         slot' \in [Slots -> {Free} \cup Serving(Accounts) \cup Deleting(Accounts)],
         sessions' \subseteq [who : Accounts, at : 0..MaxTime]
  PROVE  AccessTypeOK'
<1>1. changes' \in 0..MaxChanges
  BY AccessAssumption DEF AccessTypeOK
<1>2. QED
  BY <1>1, RowChangesTyped DEF AccessTypeOK

LEMMA AccessTyped == AccessTypeOK /\ [Next]_vars => AccessTypeOK'
<1> SUFFICES ASSUME AccessTypeOK, [Next]_vars PROVE AccessTypeOK'
  OBVIOUS
<1> USE AccessAssumption
<1>0. now \in 0..MaxTime /\ changes \in 0..MaxChanges
  BY DEF AccessTypeOK
<1>1. ASSUME NEW s \in Slots, NEW new \in {Free} \cup Serving(Accounts) \cup Deleting(Accounts), Take(s, new),
             UNCHANGED <<now, row, sessions, manager, audited, changes>>
      PROVE  AccessTypeOK'
  <2>1. slot' \in [Slots -> {Free} \cup Serving(Accounts) \cup Deleting(Accounts)]
    BY <1>1 DEF Take, AccessTypeOK
  <2>2. QED
    BY <1>1, <2>1, RowsStayTyped DEF AccessTypeOK
<1>2. ASSUME NEW s \in Slots, NEW q \in Asks, BeginOpen(s, q) PROVE AccessTypeOK'
  <2>1. Served(Nowhere, [role |-> "nobody", home |-> Nowhere, since |-> 0], q, Nowhere, Nowhere) \in Serving(Accounts)
    BY DEF Served, Serving
  <2>2. QED
    BY <1>1, <1>2, <2>1 DEF BeginOpen
<1>3. ASSUME NEW s \in Slots, NEW q \in Asks, NEW t \in sessions, NEW b \in Branches, NEW a \in Accounts, Begin(s, t, q, b, a)
      PROVE  AccessTypeOK'
  <2>1. row[t.who] \in UserRows /\ t.who \in Accounts
    BY <1>3, AccountTyped, SessionTyped DEF Begin, Admits
  <2>2. Served(t.who, row[t.who], q, b, a) \in Serving(Accounts)
    BY <2>1 DEF Served, Serving, UserRows
  <2>3. QED
    BY <1>1, <1>3, <2>2 DEF Begin
<1>4. ASSUME NEW s \in Slots, NEW t \in sessions, NEW a \in Accounts, LockUser(s, t, a) PROVE AccessTypeOK'
  <2>1. [kind |-> "delete", who |-> t.who, about |-> a] \in Deleting(Accounts)
    BY SessionTyped DEF Deleting
  <2>2. QED
    BY <1>1, <1>4, <2>1 DEF LockUser
<1>5. ASSUME NEW s \in Slots, Finish(s) \/ AbortDelete(s) PROVE AccessTypeOK'
  BY <1>1, <1>5 DEF Finish, AbortDelete
<1>6. ASSUME NEW s \in Slots, DeleteUser(s) PROVE AccessTypeOK'
  <2> DEFINE a == slot[s].about
  <2>1. slot[s] \in Deleting(Accounts)
    BY <1>6, SlotTyped, NotBusy DEF DeleteUser, Deletes, Serving
  <2>2. a \in Accounts /\ slot[s].who \in Accounts
    BY <2>1 DEF Deleting
  <2>3. CASE a \in audited \/ ~Rowed(slot[s].who)
    BY <1>1, <1>6, <2>3 DEF DeleteUser
  <2>4. CASE ~(a \in audited \/ ~Rowed(slot[s].who))
    <3>1. Gone(a, s) /\ changes < MaxChanges /\ changes' = changes + 1 /\ audited' = audited \cup {slot[s].who}
          /\ UNCHANGED <<now, sessions>>
      BY <1>6, <2>4 DEF DeleteUser
    <3>2. row' = [row EXCEPT ![a] = NoRow]
      BY <3>1 DEF Gone
    <3>3. row' \in [Accounts -> {NoRow} \cup UserRows]
      BY <3>2 DEF AccessTypeOK
    <3>4. ASSUME NEW x \in Accounts, row'[x] # NoRow
          PROVE  (row'[x].role # "corporate" => row'[x].home \in Branches) /\ row'[x].since <= now'
      BY <3>1, <3>2, <3>4 DEF AccessTypeOK, Rowed
    <3>5. slot' \in [Slots -> {Free} \cup Serving(Accounts) \cup Deleting(Accounts)]
      BY <3>1, OvertakeTyped DEF Gone
    <3>6. manager' \in [Branches -> Accounts \cup {Nowhere}]
      BY <3>1 DEF Gone, AccessTypeOK
    <3>7. audited' \subseteq Accounts /\ changes' \in 0..MaxChanges /\ now' \in 0..MaxTime
      BY <1>0, <2>2, <3>1 DEF AccessTypeOK
    <3>8. QED
      BY <3>1, <3>3, <3>4, <3>5, <3>6, <3>7 DEF AccessTypeOK, Rowed
  <2>5. QED
    BY <2>3, <2>4
<1>7. ASSUME NEW a \in Accounts, Login(a) PROVE AccessTypeOK'
  <2>1. sessions' \subseteq [who : Accounts, at : 0..MaxTime]
    BY <1>7 DEF Login, AccessTypeOK
  <2>2. QED
    BY <1>7, <2>1, RowsStayTyped DEF Login, AccessTypeOK
<1>9. ASSUME NEW b \in Branches, BranchSignIn(b) PROVE AccessTypeOK'
  <2>1. CASE UNCHANGED row
    <3>1. changes' \in 0..MaxChanges
      BY <1>0, <1>9 DEF BranchSignIn
    <3>2. sessions' \subseteq [who : Accounts, at : 0..MaxTime]
      BY <1>9 DEF BranchSignIn, AccessTypeOK
    <3>3. QED
      BY <1>9, <2>1, <3>1, <3>2, RowsStayTyped DEF BranchSignIn, AccessTypeOK
  <2>2. ASSUME NEW a \in Accounts, row' = [row EXCEPT ![a] = UserRow("branch", b, b)],
               sessions' = sessions \cup {[who |-> a, at |-> now]}, changes < MaxChanges, changes' = changes + 1
        PROVE  AccessTypeOK'
    <3>1. "branch" \in Roles
      BY DEF Roles
    <3>2. PICK new \in UserRows : new = UserRow("branch", b, b) /\ new.home = b /\ new.since = 0
      BY <3>1, NewRow
    <3>3. audited' \subseteq Accounts /\ UNCHANGED <<now, slot, manager>>
      BY <1>9 DEF BranchSignIn, AccessTypeOK
    <3>4. slot' \in [Slots -> {Free} \cup Serving(Accounts) \cup Deleting(Accounts)] /\ sessions' \subseteq [who : Accounts, at : 0..MaxTime]
      BY <2>2, <3>3 DEF AccessTypeOK
    <3>5. row' = [row EXCEPT ![a] = new] /\ new.since <= now
      BY <1>0, <2>2, <3>2
    <3>6. QED
      BY <2>2, <3>2, <3>3, <3>4, <3>5, AccountWritten
  <2>3. QED
    BY <1>9, <2>1, <2>2 DEF BranchSignIn
<1>10. ASSUME NEW b \in Branches, ResetBranchPassword(b) PROVE AccessTypeOK'
  <2>1. PICK a \in Accounts : /\ Rowed(a) /\ row[a].door = b
                              /\ row' = [row EXCEPT ![a].since = now]
                              /\ Overtake(a, Nowhere)
    BY <1>10 DEF ResetBranchPassword
  <2>2. row[a] \in UserRows /\ (row[a].role # "corporate" => row[a].home \in Branches)
    BY <2>1, AccountTyped DEF AccessTypeOK
  <2> DEFINE new == [row[a] EXCEPT !.since = now]
  <2>3. new \in UserRows /\ new.role = row[a].role /\ new.home = row[a].home /\ new.since = now
    BY <1>0, <2>2 DEF UserRows
  <2>4. row' = [row EXCEPT ![a] = new]
    BY <2>1 DEF AccessTypeOK
  <2>5. /\ audited' \subseteq Accounts /\ UNCHANGED <<now, manager>> /\ changes < MaxChanges /\ changes' = changes + 1
        /\ sessions' \subseteq [who : Accounts, at : 0..MaxTime]
    BY <1>10 DEF ResetBranchPassword, AccessTypeOK
  <2>6. slot' \in [Slots -> {Free} \cup Serving(Accounts) \cup Deleting(Accounts)]
    BY <2>1, OvertakeTyped
  <2>7. (new.role # "corporate" => new.home \in Branches) /\ new.since <= now
    BY <1>0, <2>2, <2>3
  <2>8. QED
    BY <2>3, <2>4, <2>5, <2>6, <2>7, AccountWritten
<1>11. ASSUME NEW t \in sessions, ChangePassword(t) PROVE AccessTypeOK'
  <2> DEFINE a == t.who
  <2>1. a \in Accounts /\ row[a] \in UserRows /\ (row[a].role # "corporate" => row[a].home \in Branches)
    BY <1>11, AccountTyped, SessionTyped DEF ChangePassword, Admits, AccessTypeOK
  <2> DEFINE new == [row[a] EXCEPT !.since = now]
  <2>2. new \in UserRows /\ new.role = row[a].role /\ new.home = row[a].home /\ new.since = now
    BY <1>0, <2>1 DEF UserRows
  <2>3. row' = [row EXCEPT ![a] = new]
    BY <1>11, <2>1 DEF ChangePassword, AccessTypeOK
  <2>4. /\ audited' \subseteq Accounts /\ UNCHANGED <<now, manager>> /\ changes < MaxChanges /\ changes' = changes + 1
        /\ sessions' \subseteq [who : Accounts, at : 0..MaxTime]
    BY <1>11, <2>1 DEF ChangePassword, AccessTypeOK
  <2>5. slot' \in [Slots -> {Free} \cup Serving(Accounts) \cup Deleting(Accounts)]
    BY <1>11, OvertakeTyped DEF ChangePassword
  <2>6. (new.role # "corporate" => new.home \in Branches) /\ new.since <= now
    BY <1>0, <2>1, <2>2
  <2>7. QED
    BY <2>1, <2>2, <2>3, <2>4, <2>5, <2>6, AccountWritten
<1>12. ASSUME NEW t \in sessions, NEW a \in Accounts, NEW b \in Branches \cup {Nowhere}, UpdateUser(t, a, b) PROVE AccessTypeOK'
  <2>1. row[a] \in UserRows /\ (row[a].role # "corporate" => b \in Branches) /\ row[a].since <= now
    BY <1>12, AccountTyped DEF UpdateUser, AccessTypeOK
  <2>2. ASSUME NEW new \in UserRows, row' = [row EXCEPT ![a] = new], new.role = row[a].role, new.home = b, new.since <= now
        PROVE  AccessTypeOK'
    <3>1. /\ audited' \subseteq Accounts /\ UNCHANGED <<now, manager>> /\ changes < MaxChanges /\ changes' = changes + 1
          /\ sessions' \subseteq [who : Accounts, at : 0..MaxTime]
      BY <1>12, SessionTyped DEF UpdateUser, AccessTypeOK
    <3>2. slot' \in [Slots -> {Free} \cup Serving(Accounts) \cup Deleting(Accounts)]
      BY <1>12, OvertakeTyped DEF UpdateUser
    <3>3. QED
      BY <2>1, <2>2, <3>1, <3>2, AccountWritten
  <2>3. ASSUME NEW on \in BOOLEAN, row' = [row EXCEPT ![a].home = b, ![a].active = on] PROVE AccessTypeOK'
    <3> DEFINE new == [row[a] EXCEPT !.home = b, !.active = on]
    <3>1. new \in UserRows /\ new.role = row[a].role /\ new.home = b /\ new.since = row[a].since
      BY <2>1 DEF UserRows
    <3>2. row' = [row EXCEPT ![a] = new]
      BY <2>3 DEF AccessTypeOK
    <3>3. QED
      BY <2>1, <2>2, <3>1, <3>2
  <2>4. ASSUME row' = [row EXCEPT ![a].home = b, ![a].since = now] PROVE AccessTypeOK'
    <3> DEFINE new == [row[a] EXCEPT !.home = b, !.since = now]
    <3>1. new \in UserRows /\ new.role = row[a].role /\ new.home = b /\ new.since = now
      BY <1>0, <2>1 DEF UserRows
    <3>2. row' = [row EXCEPT ![a] = new]
      BY <2>4 DEF AccessTypeOK
    <3>3. new.since <= now
      BY <1>0, <3>1
    <3>4. QED
      BY <2>2, <3>1, <3>2, <3>3
  <2>5. QED
    BY <1>12, <2>3, <2>4 DEF UpdateUser
<1>13. ASSUME NEW t \in sessions, NEW role \in Roles, NEW b \in Branches, CreateUser(t, role, b) PROVE AccessTypeOK'
  <2>1. PICK a \in Accounts : row' = [row EXCEPT ![a] = UserRow(role, b, Nowhere)]
    BY <1>13 DEF CreateUser
  <2>2. PICK new \in UserRows : new = UserRow(role, b, Nowhere) /\ new.home = b /\ new.since = 0
    BY NewRow
  <2>3. /\ audited' \subseteq Accounts /\ UNCHANGED <<now, manager>> /\ changes < MaxChanges /\ changes' = changes + 1
        /\ slot' \in [Slots -> {Free} \cup Serving(Accounts) \cup Deleting(Accounts)] /\ sessions' \subseteq [who : Accounts, at : 0..MaxTime]
    BY <1>13 DEF CreateUser, AccessTypeOK
  <2>4. row' = [row EXCEPT ![a] = new] /\ new.since <= now
    BY <1>0, <2>1, <2>2
  <2>5. QED
    BY <2>2, <2>3, <2>4, AccountWritten
<1>14. ASSUME NEW t \in sessions, NEW a \in Accounts, NEW b \in Branches, SetManager(t, a, b) PROVE AccessTypeOK'
  <2>1. manager' \in [Branches -> Accounts \cup {Nowhere}] /\ changes' \in 0..MaxChanges
    BY <1>0, <1>14 DEF SetManager, AccessTypeOK
  <2>2. QED
    BY <1>14, <2>1, RowsStayTyped DEF SetManager, AccessTypeOK
<1>15. CASE Tick
  <2>1. now' \in 0..MaxTime /\ now' >= now
    BY <1>0, <1>15 DEF Tick
  <2>2. ASSUME NEW x \in Accounts, row'[x] # NoRow
        PROVE  (row'[x].role # "corporate" => row'[x].home \in Branches) /\ row'[x].since <= now'
    <3>1. row[x] \in UserRows /\ row'[x] = row[x]
      BY <1>15, <2>2, AccountTyped DEF Tick, Rowed
    <3>2. row[x].since \in Nat /\ row[x].since <= now
      BY <1>15, <2>2, <3>1 DEF UserRows, AccessTypeOK, Rowed, Tick
    <3>3. (row[x].role # "corporate" => row[x].home \in Branches)
      BY <1>15, <2>2, <3>1 DEF AccessTypeOK, Rowed, Tick
    <3>4. QED
      BY <1>0, <2>1, <3>1, <3>2, <3>3
  <2>3. QED
    BY <1>15, <2>1, <2>2 DEF Tick, AccessTypeOK, Rowed
<1>16. CASE UNCHANGED vars
  BY <1>16, RowsStayTyped DEF vars, AccessTypeOK
<1>17. QED
  BY <1>2, <1>3, <1>4, <1>5, <1>6, <1>7, <1>9, <1>10, <1>11, <1>12, <1>13, <1>14, <1>15, <1>16 DEF Next

(* The accounts, their sessions and what is handled for them keep their    *)
(* types, and each account the branch its role needs.                      *)
THEOREM TypeCorrect == Spec => []AccessTypeOK
<1>1. QED
  BY AccessStarts, AccessTyped, PTL DEF Spec

-----------------------------------------------------------------------------
(* What a step does to an account's row: its role stays for as long as it  *)
(* is there, it goes by a deletion, and comes only for an account that     *)
(* never had a session.                                                    *)
RoleKept(a) == row'[a] # NoRow /\ row'[a].role = row[a].role

LEMMA RowStep ==
  ASSUME AccessTypeOK, [Next]_vars, NEW a \in Accounts
  PROVE  /\ sessions \subseteq sessions'
         /\ Rowed(a) => RoleKept(a) \/ \E s \in Slots : Deletes(s) /\ DeleteUser(s) /\ slot[s].about = a /\ row' = [row EXCEPT ![a] = NoRow]
         /\ ~Rowed(a) /\ row'[a] # NoRow => ~\E t \in sessions : t.who = a
<1> DEFINE Says ==
      /\ sessions \subseteq sessions'
      /\ Rowed(a) => RoleKept(a) \/ \E s \in Slots : Deletes(s) /\ DeleteUser(s) /\ slot[s].about = a /\ row' = [row EXCEPT ![a] = NoRow]
      /\ ~Rowed(a) /\ row'[a] # NoRow => ~\E t \in sessions : t.who = a
<1> HIDE DEF Says
<1>0. row \in [Accounts -> {NoRow} \cup UserRows]
  BY DEF AccessTypeOK
<1>1. ASSUME UNCHANGED row, sessions \subseteq sessions' PROVE Says
  BY <1>1 DEF Says, RoleKept, Rowed
<1>2. ASSUME NEW x \in Accounts, ~Rowed(x), ~\E t \in sessions : t.who = x, NEW new, row' = [row EXCEPT ![x] = new],
             sessions \subseteq sessions'
      PROVE  Says
  BY <1>0, <1>2 DEF Says, RoleKept, Rowed
<1>3. ASSUME NEW x \in Accounts, Rowed(x), NEW new \in UserRows, new.role = row[x].role, row' = [row EXCEPT ![x] = new],
             sessions \subseteq sessions'
      PROVE  Says
  BY <1>0, <1>3, NotRowed DEF Says, RoleKept, Rowed
<1>4. ASSUME NEW x \in Accounts, Rowed(x)
      PROVE  /\ row[x] \in UserRows
             /\ [row[x] EXCEPT !.since = now] \in UserRows /\ [row[x] EXCEPT !.since = now].role = row[x].role
  <2>1. row[x] \in UserRows /\ now \in 0..MaxTime
    BY <1>4, AccountTyped DEF AccessTypeOK
  <2>2. QED
    BY <2>1 DEF UserRows
<1>5. ASSUME NEW s \in Slots, DeleteUser(s) PROVE Says
  <2>1. UNCHANGED sessions
    BY <1>5 DEF DeleteUser
  <2>2. Deletes(s) /\ (UNCHANGED row \/ row' = [row EXCEPT ![slot[s].about] = NoRow])
    BY <1>5 DEF DeleteUser, Gone
  <2>3. CASE slot[s].about = a
    BY <1>0, <1>1, <1>5, <2>1, <2>2, <2>3 DEF Says, Rowed
  <2>4. CASE slot[s].about # a
    BY <1>0, <1>1, <2>1, <2>2, <2>4 DEF Says, RoleKept, Rowed
  <2>5. QED
    BY <2>3, <2>4
<1>6. ASSUME NEW b \in Branches, BranchSignIn(b) PROVE Says
  BY <1>1, <1>2, <1>6 DEF BranchSignIn
<1>7. ASSUME NEW b \in Branches, ResetBranchPassword(b) PROVE Says
  <2>1. PICK x \in Accounts : Rowed(x) /\ row' = [row EXCEPT ![x].since = now]
    BY <1>7 DEF ResetBranchPassword
  <2>2. row' = [row EXCEPT ![x] = [row[x] EXCEPT !.since = now]] /\ UNCHANGED sessions
    BY <1>0, <1>7, <2>1 DEF ResetBranchPassword
  <2>3. QED
    BY <1>3, <1>4, <2>1, <2>2
<1>8. ASSUME NEW t \in sessions, ChangePassword(t) PROVE Says
  <2>1. t.who \in Accounts /\ Rowed(t.who)
    BY <1>8, SessionTyped DEF ChangePassword, Admits
  <2>2. row' = [row EXCEPT ![t.who] = [row[t.who] EXCEPT !.since = now]] /\ sessions \subseteq sessions'
    BY <1>0, <1>8, <2>1 DEF ChangePassword
  <2>3. QED
    BY <1>3, <1>4, <2>1, <2>2
<1>9. ASSUME NEW t \in sessions, NEW x \in Accounts, NEW b \in Branches \cup {Nowhere}, UpdateUser(t, x, b) PROVE Says
  <2>1. Rowed(x) /\ UNCHANGED sessions /\ row[x] \in UserRows /\ now \in 0..MaxTime
    BY <1>4, <1>9 DEF UpdateUser, AccessTypeOK
  <2>2. ASSUME NEW on \in BOOLEAN, row' = [row EXCEPT ![x].home = b, ![x].active = on] PROVE Says
    <3>1. [row[x] EXCEPT !.home = b, !.active = on] \in UserRows /\ [row[x] EXCEPT !.home = b, !.active = on].role = row[x].role
      BY <2>1 DEF UserRows
    <3>2. row' = [row EXCEPT ![x] = [row[x] EXCEPT !.home = b, !.active = on]]
      BY <1>0, <2>2
    <3>3. QED
      BY <1>3, <2>1, <3>1, <3>2
  <2>3. ASSUME row' = [row EXCEPT ![x].home = b, ![x].since = now] PROVE Says
    <3>1. [row[x] EXCEPT !.home = b, !.since = now] \in UserRows /\ [row[x] EXCEPT !.home = b, !.since = now].role = row[x].role
      BY <2>1 DEF UserRows
    <3>2. row' = [row EXCEPT ![x] = [row[x] EXCEPT !.home = b, !.since = now]]
      BY <1>0, <2>3
    <3>3. QED
      BY <1>3, <2>1, <3>1, <3>2
  <2>4. QED
    BY <1>9, <2>2, <2>3 DEF UpdateUser
<1>10. ASSUME NEW t \in sessions, NEW role \in Roles, NEW b \in Branches, CreateUser(t, role, b) PROVE Says
  BY <1>2, <1>10 DEF CreateUser
<1>11. ASSUME NEW s \in Slots, NEW q \in Asks, NEW t \in sessions, NEW b \in Branches, NEW x \in Accounts, Begin(s, t, q, b, x) PROVE Says
  BY <1>1, <1>11 DEF Begin
<1>12. ASSUME NEW s \in Slots, NEW q \in Asks, BeginOpen(s, q) PROVE Says
  BY <1>1, <1>12 DEF BeginOpen
<1>13. ASSUME NEW s \in Slots, NEW t \in sessions, NEW x \in Accounts, LockUser(s, t, x) PROVE Says
  BY <1>1, <1>13 DEF LockUser
<1>14. ASSUME NEW s \in Slots, Finish(s) \/ AbortDelete(s) PROVE Says
  BY <1>1, <1>14 DEF Finish, AbortDelete
<1>15. ASSUME NEW x \in Accounts, Login(x) PROVE Says
  BY <1>1, <1>15 DEF Login
<1>16. ASSUME NEW t \in sessions, NEW x \in Accounts, NEW b \in Branches, SetManager(t, x, b) PROVE Says
  BY <1>1, <1>16 DEF SetManager
<1>17. ASSUME Tick PROVE Says
  BY <1>1, <1>17 DEF Tick
<1>18. ASSUME UNCHANGED vars PROVE Says
  BY <1>1, <1>18 DEF vars
<1>19. Says
  BY <1>5, <1>6, <1>7, <1>8, <1>9, <1>10, <1>11, <1>12, <1>13, <1>14, <1>15, <1>16, <1>17, <1>18 DEF Next
<1>20. QED
  BY <1>19 DEF Says

(* What a step does to a deletion under way. *)
LEMMA DeletionStep ==
  ASSUME AccessTypeOK, [Next]_vars, NEW d \in Slots, slot'[d] \in Deleting(Accounts)
  PROVE  \/ slot'[d] = slot[d]
         \/ \E t \in sessions, a \in Accounts : LockUser(d, t, a) /\ slot'[d] = [kind |-> "delete", who |-> t.who, about |-> a]
<1> DEFINE Says == \/ slot'[d] = slot[d]
                   \/ \E t \in sessions, a \in Accounts : LockUser(d, t, a) /\ slot'[d] = [kind |-> "delete", who |-> t.who, about |-> a]
<1> HIDE DEF Says
<1>0. slot \in [Slots -> {Free} \cup Serving(Accounts) \cup Deleting(Accounts)]
  BY DEF AccessTypeOK
<1>1. ASSUME NEW s \in Slots, NEW new, new \notin Deleting(Accounts), Take(s, new) PROVE Says
  BY <1>0, <1>1 DEF Take, Says
<1>2. ASSUME NEW a, NEW e, Overtake(a, e) PROVE Says
  <2>1. CASE d = e
    BY <1>2, <2>1, NotBusy DEF Overtake
  <2>2. CASE d # e /\ slot[d] # Free /\ slot[d].kind = "serve" /\ slot[d].who = a
    <3>1. slot[d] \in Serving(Accounts)
      BY <2>2, SlotTyped
    <3>2. slot'[d] = [slot[d] EXCEPT !.late = TRUE] /\ slot[d].kind = "serve"
      BY <1>2, <2>2 DEF Overtake
    <3>3. slot'[d].kind = "serve"
      BY <3>1, <3>2 DEF Serving
    <3>4. QED
      BY <3>3 DEF Deleting
  <2>3. CASE d # e /\ ~(slot[d] # Free /\ slot[d].kind = "serve" /\ slot[d].who = a)
    BY <1>2, <2>3 DEF Overtake, Says
  <2>4. QED
    BY <2>1, <2>2, <2>3
<1>3. ASSUME UNCHANGED slot PROVE Says
  BY <1>3 DEF Says
<1>4. Free \notin Deleting(Accounts)
  BY NotBusy
<1>5. ASSUME NEW s \in Slots, NEW q \in Asks, BeginOpen(s, q) PROVE Says
  BY <1>1, <1>5 DEF BeginOpen, Served, Deleting
<1>6. ASSUME NEW s \in Slots, NEW q \in Asks, NEW t \in sessions, NEW b \in Branches, NEW a \in Accounts, Begin(s, t, q, b, a) PROVE Says
  BY <1>1, <1>6 DEF Begin, Served, Deleting
<1>7. ASSUME NEW s \in Slots, NEW t \in sessions, NEW a \in Accounts, LockUser(s, t, a) PROVE Says
  <2>1. Take(s, [kind |-> "delete", who |-> t.who, about |-> a])
    BY <1>7 DEF LockUser
  <2>2. CASE s = d
    BY <1>0, <1>7, <2>1, <2>2 DEF Take, Says
  <2>3. CASE s # d
    BY <1>0, <2>1, <2>3 DEF Take, Says
  <2>4. QED
    BY <2>2, <2>3
<1>8. ASSUME NEW s \in Slots, Finish(s) \/ AbortDelete(s) PROVE Says
  BY <1>1, <1>4, <1>8 DEF Finish, AbortDelete
<1>9. ASSUME NEW s \in Slots, DeleteUser(s) PROVE Says
  BY <1>1, <1>2, <1>4, <1>9 DEF DeleteUser, Gone
<1>10. ASSUME NEW a \in Accounts, Login(a) PROVE Says
  BY <1>3, <1>10 DEF Login
<1>11. ASSUME NEW b \in Branches, BranchSignIn(b) \/ ResetBranchPassword(b) PROVE Says
  BY <1>2, <1>3, <1>11 DEF BranchSignIn, ResetBranchPassword
<1>12. ASSUME NEW t \in sessions, ChangePassword(t) PROVE Says
  BY <1>2, <1>12 DEF ChangePassword
<1>13. ASSUME NEW t \in sessions, NEW a \in Accounts, NEW b \in Branches \cup {Nowhere}, UpdateUser(t, a, b) PROVE Says
  BY <1>2, <1>13 DEF UpdateUser
<1>14. ASSUME NEW t \in sessions, NEW role \in Roles, NEW b \in Branches, CreateUser(t, role, b) PROVE Says
  BY <1>3, <1>14 DEF CreateUser
<1>15. ASSUME NEW t \in sessions, NEW a \in Accounts, NEW b \in Branches, SetManager(t, a, b) PROVE Says
  BY <1>3, <1>15 DEF SetManager
<1>16. ASSUME Tick PROVE Says
  BY <1>3, <1>16 DEF Tick
<1>17. ASSUME UNCHANGED vars PROVE Says
  BY <1>3, <1>17 DEF vars
<1>18. Says
  BY <1>5, <1>6, <1>7, <1>8, <1>9, <1>10, <1>11, <1>12, <1>13, <1>14, <1>15, <1>16, <1>17 DEF Next
<1>19. QED
  BY <1>18 DEF Says

(* That OfficeInv is inductive. *)
LEMMA OfficeStep == AccessTypeOK /\ AccessTypeOK' /\ OfficeInv /\ [Next]_vars => OfficeInv'
<1> SUFFICES ASSUME AccessTypeOK, AccessTypeOK', OfficeInv, [Next]_vars PROVE OfficeInv'
  OBVIOUS
<1>1. ASSUME NEW d \in Slots, slot[d] \in Deleting(Accounts)
      PROVE  /\ slot[d].who \in Accounts /\ slot[d].who # slot[d].about
             /\ \E t \in sessions : t.who = slot[d].who
             /\ Rowed(slot[d].who) => row[slot[d].who].role = "corporate"
  <2>1. d \in ByWhom("delete")
    BY <1>1, SlotTyped
  <2>2. slot[d].who \in Accounts
    BY <1>1 DEF Deleting
  <2>3. QED
    BY <2>1, <2>2 DEF OfficeInv
<1>2. ASSUME NEW a \in Accounts, \E t \in sessions : t.who = a, Rowed(a) => row[a].role = "corporate", row'[a] # NoRow
      PROVE  row'[a].role = "corporate"
  <2>1. Rowed(a)
    BY <1>2, RowStep
  <2>2. RoleKept(a)
    <3>1. CASE \E s \in Slots : row' = [row EXCEPT ![a] = NoRow]
      BY <1>2, <3>1 DEF AccessTypeOK
    <3>2. QED
      BY <2>1, <3>1, RowStep
  <2>3. QED
    BY <1>2, <2>1, <2>2 DEF RoleKept
<1>3. (OneOfficeStays)'
  <2>1. PICK o \in Accounts : Rowed(o) /\ row[o].role = "corporate"
    BY DEF OfficeInv, OneOfficeStays
  <2>2. CASE RoleKept(o)
    BY <2>1, <2>2 DEF RoleKept, OneOfficeStays, Rowed
  <2>3. ASSUME NEW s \in Slots, Deletes(s), DeleteUser(s), slot[s].about = o, row' = [row EXCEPT ![o] = NoRow]
        PROVE  (OneOfficeStays)'
    <3>1. slot[s] \in Deleting(Accounts)
      BY <2>3, SlotTyped DEF Deletes, Serving
    <3>2. slot[s].who \in Accounts /\ slot[s].who # o /\ (Rowed(slot[s].who) => row[slot[s].who].role = "corporate")
      BY <1>1, <2>3, <3>1
    <3>3. Rowed(slot[s].who)
      <4>1. row' # row
        BY <2>1, <2>3 DEF AccessTypeOK, Rowed
      <4>2. QED
        BY <2>3, <4>1 DEF DeleteUser
    <3>4. row'[slot[s].who] = row[slot[s].who]
      BY <2>3, <3>2 DEF AccessTypeOK
    <3>5. QED
      BY <3>2, <3>3, <3>4 DEF OneOfficeStays, Rowed
  <2>4. QED
    BY <2>1, <2>2, <2>3, RowStep
<1>4. ASSUME NEW d \in Slots, slot'[d] \in Deleting(Accounts)
      PROVE  /\ slot'[d].who # slot'[d].about
             /\ \E t \in sessions' : t.who = slot'[d].who
             /\ row'[slot'[d].who] # NoRow => row'[slot'[d].who].role = "corporate"
  <2>0. sessions \subseteq sessions'
    <3>1. PICK o \in Accounts : TRUE
      BY <1>3 DEF OneOfficeStays
    <3>2. QED
      BY <3>1, RowStep
  <2>1. CASE slot'[d] = slot[d]
    <3>1. slot[d] \in Deleting(Accounts)
      BY <1>4, <2>1
    <3>2. QED
      BY <1>1, <1>2, <2>0, <2>1, <3>1
  <2>2. ASSUME NEW t \in sessions, NEW a \in Accounts, LockUser(d, t, a), slot'[d] = [kind |-> "delete", who |-> t.who, about |-> a]
        PROVE  /\ slot'[d].who # slot'[d].about
               /\ \E x \in sessions' : x.who = slot'[d].who
               /\ row'[slot'[d].who] # NoRow => row'[slot'[d].who].role = "corporate"
    <3>1. slot'[d].who = t.who /\ slot'[d].about = a /\ a # t.who /\ row[t.who].role = "corporate" /\ UNCHANGED row
      BY <2>2 DEF LockUser, Officer
    <3>2. QED
      BY <2>0, <3>1
  <2>3. QED
    BY <1>4, <2>1, <2>2, DeletionStep
<1>5. \A d \in Slots : (d \in ByWhom("delete"))' => slot'[d] \in Deleting(Accounts)
  <2>1. slot' \in [Slots -> {Free} \cup Serving(Accounts) \cup Deleting(Accounts)]
    BY DEF AccessTypeOK
  <2>2. QED
    BY <2>1 DEF ByWhom, Busy, Serving
<1>6. \A d : (d \in ByWhom("delete"))' => d \in Slots
  BY DEF ByWhom, Busy
<1>7. QED
  BY <1>3, <1>4, <1>5, <1>6 DEF OfficeInv, Rowed

LEMMA OfficeStarts == (\E a \in Accounts : RoleAt[a] = "corporate") /\ Init => OfficeInv
<1> SUFFICES ASSUME NEW a \in Accounts, RoleAt[a] = "corporate", Init PROVE OfficeInv
  OBVIOUS
<1>1. row[a] = UserRow("corporate", HomeAt[a], Nowhere)
  BY DEF Init
<1>2. Rowed(a) /\ row[a].role = "corporate"
  BY <1>1 DEF Rowed, UserRow, NoRow
<1>3. ByWhom("delete") = {}
  BY DEF ByWhom, Busy, Init
<1>4. QED
  BY <1>2, <1>3 DEF OfficeInv, OneOfficeStays

(* Corporate accounts that delete each other, however their deletions      *)
(* interleave, never leave the company without one (services/deletion.ts). *)
THEOREM OfficeHolds ==
  ASSUME \E a \in Accounts : RoleAt[a] = "corporate"
  PROVE  Spec => []OneOfficeStays
<1>1. Init => OfficeInv
  BY OfficeStarts
<1>2. OfficeInv => OneOfficeStays
  BY DEF OfficeInv
<1>3. QED
  BY <1>1, <1>2, AccessStarts, AccessTyped, OfficeStep, PTL DEF Spec

-----------------------------------------------------------------------------
(* What a step does to a request being handled: it is the same, and so is  *)
(* its account's row; or its account has changed and it is late; or it is  *)
(* let in just now.                                                        *)
SameRequest(s) ==
  slot'[s] = slot[s] /\ (slot[s].who \in Accounts /\ Rowed(slot[s].who) => row'[slot[s].who] = row[slot[s].who])
LateRequest(s) == slot[s] \in Serving(Accounts) /\ slot'[s] = [slot[s] EXCEPT !.late = TRUE]
Stranger == [role |-> "nobody", home |-> Nowhere, since |-> 0]
OpenRequest(s) ==
  \E q \in Asks : BeginOpen(s, q) /\ slot'[s] = Served(Nowhere, Stranger, q, Nowhere, Nowhere)
NewRequest(s) ==
  \E q \in Asks, t \in sessions, b \in Branches, a \in Accounts :
    Begin(s, t, q, b, a) /\ slot'[s] = Served(t.who, row[t.who], q, b, a)

LEMMA ServingStep ==
  ASSUME AccessTypeOK, [Next]_vars, NEW s \in Slots, slot'[s] \in Serving(Accounts)
  PROVE  SameRequest(s) \/ LateRequest(s) \/ OpenRequest(s) \/ NewRequest(s)
<1> DEFINE Says == SameRequest(s) \/ LateRequest(s) \/ OpenRequest(s) \/ NewRequest(s)
<1> HIDE DEF Says
<1>0. slot \in [Slots -> {Free} \cup Serving(Accounts) \cup Deleting(Accounts)] /\ row \in [Accounts -> {NoRow} \cup UserRows]
  BY DEF AccessTypeOK
<1>1. ASSUME NEW x \in Slots, NEW new, new \notin Serving(Accounts), Take(x, new), UNCHANGED row PROVE Says
  BY <1>0, <1>1 DEF Take, Says, SameRequest
<1>2. ASSUME NEW a \in Accounts, NEW new, row' = [row EXCEPT ![a] = new], NEW e, Overtake(a, e) PROVE Says
  <2>1. s # e
    BY <1>2, NotBusy DEF Overtake
  <2>2. CASE slot[s] # Free /\ slot[s].kind = "serve" /\ slot[s].who = a
    BY <1>2, <2>1, <2>2, SlotTyped DEF Overtake, Says, LateRequest
  <2>3. CASE ~(slot[s] # Free /\ slot[s].kind = "serve" /\ slot[s].who = a)
    <3>1. slot'[s] = slot[s]
      BY <1>2, <2>1, <2>3 DEF Overtake
    <3>2. slot[s] # Free /\ slot[s].kind = "serve"
      BY <3>1, NotBusy, SlotTyped
    <3>3. slot[s].who # a
      BY <2>3, <3>2
    <3>4. slot[s].who \in Accounts => row'[slot[s].who] = row[slot[s].who]
      BY <1>0, <1>2, <3>3
    <3>5. QED
      BY <3>1, <3>4 DEF Says, SameRequest
  <2>4. QED
    BY <2>2, <2>3 DEF Says
<1>3. ASSUME UNCHANGED slot, UNCHANGED row PROVE Says
  BY <1>3 DEF Says, SameRequest
<1>4. Free \notin Serving(Accounts)
  BY NotBusy
<1>5. ASSUME UNCHANGED slot, NEW a \in Accounts, ~Rowed(a), NEW new, row' = [row EXCEPT ![a] = new] PROVE Says
  BY <1>0, <1>5 DEF Says, SameRequest
<1>6. ASSUME NEW x \in Slots, NEW q \in Asks, BeginOpen(x, q) PROVE Says
  <2>1. Take(x, Served(Nowhere, Stranger, q, Nowhere, Nowhere)) /\ UNCHANGED row
    BY <1>6 DEF BeginOpen, Stranger
  <2>2. CASE x = s
    <3>1. slot'[s] = Served(Nowhere, Stranger, q, Nowhere, Nowhere)
      BY <1>0, <2>1, <2>2 DEF Take
    <3>2. QED
      BY <1>6, <2>2, <3>1 DEF Says, OpenRequest
  <2>3. CASE x # s
    BY <1>0, <2>1, <2>3 DEF Take, Says, SameRequest
  <2>4. QED
    BY <2>2, <2>3
<1>7. ASSUME NEW x \in Slots, NEW q \in Asks, NEW t \in sessions, NEW b \in Branches, NEW a \in Accounts, Begin(x, t, q, b, a) PROVE Says
  <2>1. Take(x, Served(t.who, row[t.who], q, b, a)) /\ UNCHANGED row
    BY <1>7 DEF Begin
  <2>2. CASE x = s
    <3>1. slot'[s] = Served(t.who, row[t.who], q, b, a)
      BY <1>0, <2>1, <2>2 DEF Take
    <3>2. QED
      BY <1>7, <2>2, <3>1 DEF Says, NewRequest
  <2>3. CASE x # s
    BY <1>0, <2>1, <2>3 DEF Take, Says, SameRequest
  <2>4. QED
    BY <2>2, <2>3
<1>8. ASSUME NEW x \in Slots, NEW t \in sessions, NEW a \in Accounts, LockUser(x, t, a) PROVE Says
  BY <1>1, <1>8 DEF LockUser, Serving
<1>9. ASSUME NEW x \in Slots, Finish(x) \/ AbortDelete(x) PROVE Says
  BY <1>1, <1>4, <1>9 DEF Finish, AbortDelete
<1>10. ASSUME NEW x \in Slots, DeleteUser(x) PROVE Says
  <2>1. slot[x] \in Deleting(Accounts)
    BY <1>10, SlotTyped DEF DeleteUser, Deletes, Serving
  <2>2. slot[x].about \in Accounts
    BY <2>1 DEF Deleting
  <2>3. CASE Take(x, Free) /\ UNCHANGED row
    BY <1>1, <1>4, <2>3
  <2>4. CASE Gone(slot[x].about, x)
    BY <1>2, <2>2, <2>4 DEF Gone
  <2>5. QED
    BY <1>10, <2>3, <2>4 DEF DeleteUser
<1>11. ASSUME NEW a \in Accounts, Login(a) PROVE Says
  BY <1>3, <1>11 DEF Login
<1>12. ASSUME NEW b \in Branches, BranchSignIn(b) PROVE Says
  BY <1>3, <1>5, <1>12 DEF BranchSignIn
<1>13. ASSUME NEW b \in Branches, ResetBranchPassword(b) PROVE Says
  <2>1. PICK a \in Accounts : row' = [row EXCEPT ![a].since = now] /\ Overtake(a, Nowhere)
    BY <1>13 DEF ResetBranchPassword
  <2>2. row' = [row EXCEPT ![a] = [row[a] EXCEPT !.since = now]]
    BY <1>0, <2>1
  <2>3. QED
    BY <1>2, <2>1, <2>2
<1>14. ASSUME NEW t \in sessions, ChangePassword(t) PROVE Says
  <2>1. t.who \in Accounts /\ Overtake(t.who, Nowhere)
    BY <1>14, SessionTyped DEF ChangePassword
  <2>2. row' = [row EXCEPT ![t.who] = [row[t.who] EXCEPT !.since = now]]
    BY <1>0, <1>14, <2>1 DEF ChangePassword
  <2>3. QED
    BY <1>2, <2>1, <2>2
<1>15. ASSUME NEW t \in sessions, NEW a \in Accounts, NEW b \in Branches \cup {Nowhere}, UpdateUser(t, a, b) PROVE Says
  <2>1. Overtake(a, Nowhere)
    BY <1>15 DEF UpdateUser
  <2>2. ASSUME NEW on \in BOOLEAN, row' = [row EXCEPT ![a].home = b, ![a].active = on] PROVE Says
    <3>1. row' = [row EXCEPT ![a] = [row[a] EXCEPT !.home = b, !.active = on]]
      BY <1>0, <2>2
    <3>2. QED
      BY <1>2, <2>1, <3>1
  <2>3. ASSUME row' = [row EXCEPT ![a].home = b, ![a].since = now] PROVE Says
    <3>1. row' = [row EXCEPT ![a] = [row[a] EXCEPT !.home = b, !.since = now]]
      BY <1>0, <2>3
    <3>2. QED
      BY <1>2, <2>1, <3>1
  <2>4. QED
    BY <1>15, <2>2, <2>3 DEF UpdateUser
<1>16. ASSUME NEW t \in sessions, NEW role \in Roles, NEW b \in Branches, CreateUser(t, role, b) PROVE Says
  BY <1>5, <1>16 DEF CreateUser
<1>17. ASSUME NEW t \in sessions, NEW a \in Accounts, NEW b \in Branches, SetManager(t, a, b) PROVE Says
  BY <1>3, <1>17 DEF SetManager
<1>18. ASSUME Tick PROVE Says
  BY <1>3, <1>18 DEF Tick
<1>19. ASSUME UNCHANGED vars PROVE Says
  BY <1>3, <1>19 DEF vars
<1>20. Says
  BY <1>6, <1>7, <1>8, <1>9, <1>10, <1>11, <1>12, <1>13, <1>14, <1>15, <1>16, <1>17, <1>18, <1>19 DEF Next
<1>21. QED
  BY <1>20 DEF Says

(* A request, and the account it acts for. *)
Rightful(r) ==
  /\ r.side \in Sides(r.role) \cup {"none"}
  /\ r.role # "nobody" => r.who \in Accounts
  /\ r.role # "nobody" /\ r.in # Nowhere => r.in = r.home
  /\ r.role \notin {"nobody", "branch"} /\ r.of # Nowhere => r.of = r.who
AsItIs(r, rows) ==
  r.role # "nobody" /\ ~r.late =>
    /\ rows[r.who] # NoRow
    /\ rows[r.who].active /\ rows[r.who].role = r.role /\ rows[r.who].home = r.home /\ rows[r.who].since = r.since
ServeInv == \A s \in Slots : slot[s] \in Serving(Accounts) => Rightful(slot[s]) /\ AsItIs(slot[s], row)

LEMMA ServeStep == AccessTypeOK /\ ServeInv /\ [Next]_vars => ServeInv'
<1> SUFFICES ASSUME AccessTypeOK, ServeInv, [Next]_vars, NEW s \in Slots, slot'[s] \in Serving(Accounts)
             PROVE  Rightful(slot'[s]) /\ AsItIs(slot'[s], row')
  BY DEF ServeInv
<1>1. CASE SameRequest(s)
  <2>1. slot'[s] = slot[s] /\ slot[s] \in Serving(Accounts)
    BY <1>1 DEF SameRequest
  <2>2. Rightful(slot[s]) /\ AsItIs(slot[s], row)
    BY <2>1 DEF ServeInv
  <2>3. CASE slot[s].role # "nobody" /\ ~slot[s].late
    <3>1. slot[s].who \in Accounts /\ Rowed(slot[s].who)
      BY <2>2, <2>3 DEF Rightful, AsItIs, Rowed
    <3>2. row'[slot[s].who] = row[slot[s].who]
      BY <1>1, <3>1 DEF SameRequest
    <3>3. QED
      BY <2>1, <2>2, <3>2 DEF AsItIs
  <2>4. CASE ~(slot[s].role # "nobody" /\ ~slot[s].late)
    BY <2>1, <2>2, <2>4 DEF AsItIs
  <2>5. QED
    BY <2>3, <2>4
<1>2. CASE LateRequest(s)
  <2>1. slot[s] \in Serving(Accounts) /\ slot'[s] = [slot[s] EXCEPT !.late = TRUE]
    BY <1>2 DEF LateRequest
  <2>2. Rightful(slot[s])
    BY <2>1 DEF ServeInv
  <2>3. /\ slot'[s].side = slot[s].side /\ slot'[s].role = slot[s].role /\ slot'[s].who = slot[s].who
        /\ slot'[s].in = slot[s].in /\ slot'[s].home = slot[s].home /\ slot'[s].of = slot[s].of /\ slot'[s].late
    BY <2>1 DEF Serving
  <2>4. QED
    BY <2>2, <2>3 DEF Rightful, AsItIs
<1>3. CASE OpenRequest(s)
  <2>1. PICK q \in Asks : BeginOpen(s, q) /\ slot'[s] = Served(Nowhere, Stranger, q, Nowhere, Nowhere)
    BY <1>3 DEF OpenRequest
  <2>2. slot'[s].role = "nobody" /\ slot'[s].side = IF q.does = "change" THEN q.side ELSE "none"
    BY <2>1 DEF Served, Stranger
  <2>3. OnSide(q) /\ "nobody" \in q.may
    BY <2>1, AsksOnSide DEF BeginOpen
  <2>4. slot'[s].side \in Sides("nobody") \cup {"none"}
    BY <2>2, <2>3 DEF OnSide
  <2>5. QED
    BY <2>2, <2>4 DEF Rightful, AsItIs
<1>4. CASE NewRequest(s)
  <2>1. PICK q \in Asks, t \in sessions, b \in Branches, a \in Accounts :
               Begin(s, t, q, b, a) /\ slot'[s] = Served(t.who, row[t.who], q, b, a)
    BY <1>4 DEF NewRequest
  <2> DEFINE u == row[t.who]
  <2>2. t.who \in Accounts /\ u \in UserRows /\ u # NoRow /\ u.active /\ u.role \in q.may /\ row' = row
    BY <2>1, SessionTyped, AccountTyped DEF Begin, Admits, Rowed
  <2>3. /\ slot'[s].who = t.who /\ slot'[s].role = u.role /\ slot'[s].home = u.home /\ slot'[s].since = u.since
        /\ slot'[s].side = (IF q.does = "change" THEN q.side ELSE "none")
        /\ slot'[s].in = IF u.role # "corporate" /\ q.reach = "branch" THEN b ELSE Nowhere
        /\ slot'[s].of = IF u.role # "corporate" /\ q.reach = "own" THEN a ELSE Nowhere
    BY <2>1 DEF Served
  <2>4. slot'[s].side \in Sides(slot'[s].role) \cup {"none"}
    BY <2>2, <2>3, AsksOnSide DEF OnSide
  <2>5. slot'[s].in # Nowhere => slot'[s].in = slot'[s].home
    <3>1. Reaches(q, t.who, u, b, a)
      BY <2>1 DEF Begin
    <3>2. QED
      BY <2>3, <3>1 DEF Reaches, Within
  <2>6. slot'[s].of # Nowhere /\ slot'[s].role # "branch" => slot'[s].of = slot'[s].who
    <3>1. Reaches(q, t.who, u, b, a)
      BY <2>1 DEF Begin
    <3>2. QED
      BY <2>3, <3>1 DEF Reaches, OwnOnly
  <2>7. Rightful(slot'[s])
    BY <2>2, <2>3, <2>4, <2>5, <2>6 DEF Rightful
  <2>8. AsItIs(slot'[s], row')
    BY <2>2, <2>3 DEF AsItIs
  <2>9. QED
    BY <2>7, <2>8
<1>5. QED
  BY <1>1, <1>2, <1>3, <1>4, ServingStep

(* A request that was let in changes only what is on its role's side, and  *)
(* acts for the account as it is, unless that changed while it was being   *)
(* handled (middleware/auth.ts, and the guards of every router).           *)
THEOREM RequestsActWithin == Spec => [](SidesApart /\ ActsAsItIs)
<1>1. Init => ServeInv
  BY NotBusy DEF Init, ServeInv
<1>2. AccessTypeOK /\ ServeInv => SidesApart /\ ActsAsItIs
  <2> SUFFICES ASSUME AccessTypeOK, ServeInv, NEW s \in ByWhom("serve")
               PROVE  /\ slot[s].side \in Sides(slot[s].role) \cup {"none"}
                      /\ slot[s].role # "nobody" =>
                           /\ slot[s].in # Nowhere => slot[s].in = slot[s].home
                           /\ slot[s].of # Nowhere /\ slot[s].role # "branch" => slot[s].of = slot[s].who
                           /\ ~slot[s].late =>
                                /\ Rowed(slot[s].who)
                                /\ LET u == row[slot[s].who] IN
                                   u.active /\ u.role = slot[s].role /\ u.home = slot[s].home /\ u.since = slot[s].since
    BY DEF SidesApart, ActsAsItIs
  <2>1. s \in Slots /\ slot[s] \in Serving(Accounts)
    BY SlotTyped DEF ByWhom, Busy
  <2>2. Rightful(slot[s]) /\ AsItIs(slot[s], row)
    BY <2>1 DEF ServeInv
  <2>3. QED
    BY <2>2 DEF Rightful, AsItIs, Rowed
<1>3. QED
  BY <1>1, <1>2, ServeStep, AccessStarts, AccessTyped, PTL DEF Spec
=============================================================================
