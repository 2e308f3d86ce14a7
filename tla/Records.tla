------------------------------ MODULE Records ------------------------------
(***************************************************************************)
(* The tables, what each column refers to, and what a deletion takes with  *)
(* it: the foreign keys and checks of db/migrations, services/deletion.ts  *)
(* and the other places that delete.                                       *)
(*                                                                         *)
(* A table is the record of its references, and each reference is a rule   *)
(* and a table.  A row is a table and whose it is: a customer's world has  *)
(* one row of each of its tables, an account one of each of its own, the   *)
(* office one of each shared table.  Which column names which row is       *)
(* Target; a column that is null is in nulls.                              *)
(*                                                                         *)
(* Each deletion is one transaction of DELETE statements.  A statement     *)
(* takes its rows and what cascades from them, fails on a row that         *)
(* restricts, and then clears the columns that are set null, which a check *)
(* or a trigger may refuse: then the whole transaction is undone.          *)
(***************************************************************************)
EXTENDS Naturals, FiniteSets, Sequences

CONSTANTS
  Customers,
  Staff,
  Branches,
  RoleOf,      \* users.role
  BranchOf,    \* of staff and customers
  SellerOf,    \* the account that made a customer's rows, or manages a branch
  ReferrerOf,  \* quotes.referred_by_customer_id, or Nobody
  Nobody,
  MaxDeletes   \* Bound: deletions

ASSUME RecordsAssumption ==
  /\ Customers \cap (Staff \cup Branches) = {} /\ Staff \cap Branches = {}
  /\ Nobody \notin Customers \cup Staff \cup Branches
  /\ BranchOf \in [Staff \cup Customers -> Branches] /\ SellerOf \in [Customers \cup Branches -> Staff]
  /\ ReferrerOf \in [Customers -> Customers \cup {Nobody}]
  /\ MaxDeletes \in Nat

Restrict(table) == <<"restrict", table>>
Cascade(table)  == <<"cascade", table>>
SetNull(table)  == <<"setnull", table>>

-----------------------------------------------------------------------------
(* People and branches *)
branches == [manager_user_id |-> SetNull("users")]
users    == [branch_id |-> Restrict("branches")]
operator_documents ==
  [user_id |-> Cascade("users"), requirement_code |-> Restrict("document_requirements"),
   reviewed_by_user_id |-> SetNull("users")]
audit_log == [user_id |-> SetNull("users")]
uploads   == [uploaded_by_user_id |-> SetNull("users"), branch_id |-> SetNull("branches")]
branch_sign_in_passwords == [branch_id |-> Cascade("branches")]
integration_settings     == [updated_by_user_id |-> SetNull("users")]

(* Customers and what is sold to them *)
customers ==
  [branch_id |-> Restrict("branches"), created_by_user_id |-> SetNull("users"),
   sms_assigned_user_id |-> SetNull("users")]
customer_phones == [customer_id |-> Cascade("customers")]
customer_notes  == [customer_id |-> Cascade("customers"), author_user_id |-> SetNull("users")]
properties      == [customer_id |-> Cascade("customers")]
pricing_guide   == [branch_id |-> Cascade("branches")]
service_routes  == [branch_id |-> Cascade("branches")]
(* Mutant: a quote goes with the customer who referred it. *)
quotes_cascading ==
  [property_id |-> Cascade("properties"), created_by_user_id |-> SetNull("users"),
   contract_type_id |-> Restrict("contract_types"), billing_plan_id |-> Restrict("billing_plans"),
   tax_code_id |-> Restrict("tax_codes"), assigned_operator_id |-> SetNull("users"),
   service_route_id |-> SetNull("service_routes"), referred_by_customer_id |-> Cascade("customers")]

quotes ==
  [property_id |-> Cascade("properties"), created_by_user_id |-> SetNull("users"),
   contract_type_id |-> Restrict("contract_types"), billing_plan_id |-> Restrict("billing_plans"),
   tax_code_id |-> Restrict("tax_codes"), assigned_operator_id |-> SetNull("users"),
   service_route_id |-> SetNull("service_routes"), referred_by_customer_id |-> SetNull("customers")]
quote_scope_items == [quote_id |-> Cascade("quotes"), scope_item_id |-> Restrict("scope_items")]
quote_addons      == [quote_id |-> Cascade("quotes"), addon_service_id |-> Restrict("addon_services")]
quote_tags        == [quote_id |-> Cascade("quotes"), tag_id |-> Restrict("contract_tags")]
signing_requests ==
  [quote_id |-> Cascade("quotes"), customer_id |-> Cascade("customers"), branch_id |-> Restrict("branches"),
   contract_id |-> SetNull("contracts"), requested_by_user_id |-> SetNull("users")]
contracts ==
  [quote_id |-> Restrict("quotes"), customer_id |-> Restrict("customers"), property_id |-> Restrict("properties")]
contract_checklist_items ==
  [contract_id |-> Cascade("contracts"), item_code |-> Restrict("checklist_requirements")]
card_setups ==
  [customer_id |-> Cascade("customers"), contract_id |-> Cascade("contracts"), branch_id |-> Restrict("branches"),
   requested_by_user_id |-> SetNull("users")]

(* Visits *)
work_orders ==
  [contract_id |-> Cascade("contracts"), property_id |-> Cascade("properties"), branch_id |-> Restrict("branches"),
   assigned_user_id |-> SetNull("users")]
service_photos == [work_order_id |-> Cascade("work_orders"), uploaded_by_user_id |-> SetNull("users")]
review_requests ==
  [customer_id |-> Cascade("customers"), work_order_id |-> Cascade("work_orders"), branch_id |-> Restrict("branches")]
weather_alert_runs == [branch_id |-> Cascade("branches")]

(* Money *)
invoices ==
  [contract_id |-> Restrict("contracts"), customer_id |-> Restrict("customers"), branch_id |-> Restrict("branches")]
payments == [invoice_id |-> Restrict("invoices")]
customer_credits ==
  [customer_id |-> Cascade("customers"), source_invoice_id |-> Cascade("invoices"), invoice_id |-> Cascade("invoices"),
   created_by_user_id |-> SetNull("users")]
expenses == [branch_id |-> Restrict("branches"), created_by_user_id |-> SetNull("users")]
bookkeeping_months ==
  [branch_id |-> Restrict("branches"), created_by_user_id |-> SetNull("users"), updated_by_user_id |-> SetNull("users")]
bookkeeping_documents == [month_id |-> Cascade("bookkeeping_months"), uploaded_by_user_id |-> SetNull("users")]

(* Messages and leads *)
message_templates == [branch_id |-> Cascade("branches")]
(* Mutant: what was sent goes with the customer. *)
message_log_cascading ==
  [branch_id |-> SetNull("branches"), customer_id |-> Cascade("customers"), work_order_id |-> SetNull("work_orders"),
   email_lead_id |-> SetNull("email_leads"), sent_by_user_id |-> SetNull("users")]

message_log ==
  [branch_id |-> SetNull("branches"), customer_id |-> SetNull("customers"), work_order_id |-> SetNull("work_orders"),
   email_lead_id |-> SetNull("email_leads"), sent_by_user_id |-> SetNull("users")]
sms_inbound == [customer_id |-> SetNull("customers")]
lead_pins ==
  [branch_id |-> Restrict("branches"), customer_id |-> SetNull("customers"), created_by_user_id |-> SetNull("users"),
   updated_by_user_id |-> SetNull("users")]
email_leads ==
  [branch_id |-> Restrict("branches"), lead_pin_id |-> SetNull("lead_pins"), customer_id |-> SetNull("customers"),
   created_by_user_id |-> SetNull("users")]
meta_conversations == [branch_id |-> SetNull("branches"), customer_id |-> SetNull("customers")]
meta_messages == [conversation_id |-> Cascade("meta_conversations"), sent_by_user_id |-> SetNull("users")]

-----------------------------------------------------------------------------
(* The tables of a customer.  A referral is the row of customer_credits    *)
(* that a customer's invoice earned the one who referred them.             *)
OfCustomer ==
  [customers |-> customers, customer_phones |-> customer_phones, customer_notes |-> customer_notes,
   properties |-> properties, quotes |-> quotes, quote_scope_items |-> quote_scope_items,
   quote_addons |-> quote_addons, quote_tags |-> quote_tags, signing_requests |-> signing_requests,
   contracts |-> contracts, contract_checklist_items |-> contract_checklist_items, card_setups |-> card_setups,
   work_orders |-> work_orders, service_photos |-> service_photos, review_requests |-> review_requests,
   invoices |-> invoices, payments |-> payments, customer_credits |-> customer_credits,
   referral |-> customer_credits, message_log |-> message_log, sms_inbound |-> sms_inbound,
   lead_pins |-> lead_pins, email_leads |-> email_leads, meta_conversations |-> meta_conversations,
   meta_messages |-> meta_messages]

OfStaff ==
  [users |-> users, operator_documents |-> operator_documents, audit_log |-> audit_log, uploads |-> uploads,
   integration_settings |-> integration_settings]

OfBranch ==
  [branches |-> branches, pricing_guide |-> pricing_guide, service_routes |-> service_routes,
   message_templates |-> message_templates, weather_alert_runs |-> weather_alert_runs,
   branch_sign_in_passwords |-> branch_sign_in_passwords, expenses |-> expenses,
   bookkeeping_months |-> bookkeeping_months,
   bookkeeping_documents |-> bookkeeping_documents]

Rows ==
  ((DOMAIN OfCustomer) \X Customers) \cup ((DOMAIN OfStaff) \X Staff) \cup ((DOMAIN OfBranch) \X Branches)

References(r) ==
  IF r[2] \in Customers THEN OfCustomer[r[1]] ELSE IF r[2] \in Staff THEN OfStaff[r[1]] ELSE OfBranch[r[1]]

HomeOf(x) == IF x \in Branches THEN x ELSE BranchOf[x]

(* The row a column names.  Lookup tables have no row here: nothing        *)
(* deletes theirs.                                                         *)
Target(r, col) ==
  LET table == References(r)[col][2] IN
  CASE table = "users"                        -> <<table, IF r[2] \in Staff THEN r[2] ELSE SellerOf[r[2]]>>
    [] table \in DOMAIN OfBranch              -> <<table, HomeOf(r[2])>>
    [] col = "referred_by_customer_id"        -> <<table, ReferrerOf[r[2]]>>
    [] r[1] = "referral" /\ col = "customer_id" -> <<table, ReferrerOf[r[2]]>>
    [] r[1] = "referral" /\ col = "invoice_id" -> <<table, Nobody>>
    [] r[1] = "customer_credits" /\ col = "source_invoice_id" -> <<table, Nobody>>
    [] OTHER                                  -> <<table, r[2]>>

(* Every reference there can be: a row, its column, the row it names.      *)
AllReferences ==
  UNION {{<<r, col, Target(r, col), References(r)[col][1]>> : col \in DOMAIN References(r)} : r \in Rows}
By == [rule \in {"restrict", "cascade", "setnull"} |-> {n \in AllReferences : n[4] = rule}]

(* A row and what cascades from it, for as long as it is there. *)
Below[r \in Rows] == {r} \cup UNION {Below[n[1]] : n \in {m \in By["cascade"] : m[3] = r}}

VARIABLES
  rows,      \* rows that exist
  nulls,     \* <<row, column>> that are null
  presented, \* customers whose quote was last moved to presented, not accepted
  active,    \* customers.status: signed at least once
  by,        \* who asked for the last deletion
  failed,    \* a deletion was stopped by the database
  deletes

vars == <<rows, nulls, presented, active, by, failed, deletes>>

RecordsTypeOK ==
  /\ rows \subseteq Rows
  /\ nulls \subseteq {<<n[1], n[2]>> : n \in By["setnull"]}
  /\ presented \subseteq Customers
  /\ active \subseteq Customers
  /\ by \in Staff \cup {Nobody}
  /\ failed \in BOOLEAN
  /\ deletes \in 0..MaxDeletes

-----------------------------------------------------------------------------
(* How far a customer has come: quoted, asked to sign or not, signed at    *)
(* the door or by the link, billed, paid and visited.                      *)
Lead   == {"customers", "customer_phones", "customer_notes", "message_log", "sms_inbound", "lead_pins", "email_leads",
           "meta_conversations", "meta_messages"}
Quoted == Lead \cup {"properties", "quotes", "quote_scope_items", "quote_addons", "quote_tags"}
Asked  == Quoted \cup {"signing_requests"}
Signed == Quoted \cup {"contracts", "contract_checklist_items", "card_setups", "invoices", "customer_credits"}
Served == Signed \cup {"payments", "work_orders", "service_photos", "review_requests"}
World(c, tables) == (tables \cup (IF "invoices" \in tables /\ ReferrerOf[c] # Nobody THEN {"referral"} ELSE {})) \X {c}

Stages == {Lead, Asked, Signed, Served, Served \cup {"signing_requests"}}

(* Columns set null that have no value yet. *)
Unset(rs) ==
  {n \in {<<m[1], m[2]>> : m \in By["setnull"]} :
     LET r == n[1] col == n[2] IN
     \/ col = "referred_by_customer_id" /\ r[2] \in Customers /\ ReferrerOf[r[2]] = Nobody
     \/ r[1] = "signing_requests" /\ col = "contract_id" /\ <<"contracts", r[2]>> \notin rs
     \/ r[1] = "message_log" /\ col = "work_order_id" /\ <<"work_orders", r[2]>> \notin rs}

Init ==
  /\ \E stage \in [Customers -> Stages] :
       rows = (UNION {World(c, stage[c]) : c \in Customers})
              \cup ((DOMAIN OfStaff \ {"audit_log"}) \X Staff) \cup ((DOMAIN OfBranch) \X Branches)
  /\ nulls = Unset(rows)
  /\ presented = {c \in Customers : <<"quotes", c>> \in rows /\ <<"contracts", c>> \notin rows}
  /\ active = {c \in Customers : <<"contracts", c>> \in rows}
  /\ by = Nobody
  /\ failed = FALSE
  /\ deletes = 0

-----------------------------------------------------------------------------
(* DELETE statements, one after another: each names a table's row of x and *)
(* takes what is below it.  A column set null is cleared by the statement  *)
(* that takes what it names, unless the row it is in goes with it.         *)
Gone(tables, x) == rows \cap UNION {Below[<<tables[i], x>>] : i \in DOMAIN tables}

Naming(rule, gone) ==
  {<<n[1], n[2]>> : n \in {m \in By[rule] : m[3] \in gone /\ m[1] \in rows \ gone /\ <<m[1], m[2]>> \notin nulls}}

(* reject_audit_log_change: no row of the log is updated. *)
AppendOnly(cleared) == \A n \in cleared : n[1][1] # "audit_log"

(* signing_requests_completed_check: a completed one names its contract.   *)
CompletedCheck(cleared) == \A n \in cleared : ~(n[1][1] = "signing_requests" /\ n[2] = "contract_id")

Stands(tables, x) ==
  \A i \in DOMAIN tables :
    LET gone == Gone(SubSeq(tables, 1, i), x) IN
    Naming("restrict", gone) = {} /\ AppendOnly(Naming("setnull", gone)) /\ CompletedCheck(Naming("setnull", gone))

Has(table, c) == <<table, c>> \in rows

(* Payments, then invoices, then the contracts themselves. *)
PurgeContracts(c) == IF Has("contracts", c) THEN <<"payments", "invoices", "contracts">> ELSE <<>>

(* A transaction of such statements by who, the rows of the log it adds    *)
(* and the quotes it puts back; or an error, and nothing of it happens.    *)
Commit(who, tables, x, log, back) ==
  LET gone == Gone(tables, x) IN
  /\ deletes < MaxDeletes
  /\ deletes' = deletes + 1
  /\ by' = who
  /\ IF Stands(tables, x)
       THEN /\ rows'  = (rows \ gone) \cup log
            /\ nulls' = {n \in nulls \cup Naming("setnull", gone) : n[1] \notin gone \cup log}
            /\ presented' = presented \cup back
            /\ UNCHANGED <<active, failed>>
       ELSE failed' = TRUE /\ UNCHANGED <<rows, nulls, presented, active>>

(* recordAudit, in the same transaction; its row names who asked. *)
Logged(who) == {<<"audit_log", who>>}

IsCorporate(who)   == RoleOf[who] = "corporate"
IsBranchLogin(who) == RoleOf[who] = "branch"
Sells(who)         == RoleOf[who] \in {"corporate", "sales", "branch"}
InScope(who, x)    == IsCorporate(who) \/ BranchOf[who] = HomeOf(x)

-----------------------------------------------------------------------------
(* Mutant: anyone who sells deletes a signed customer. *)
CustomerOfAnyone(who, c) ==
  /\ Sells(who) /\ InScope(who, c) /\ Has("customers", c)
  /\ Commit(who, PurgeContracts(c) \o <<"payments", "invoices", "customers">>, c, Logged(who), {})

DeleteCustomer(who, c) ==
  /\ Sells(who) /\ InScope(who, c) /\ Has("customers", c)
  /\ Has("contracts", c) => IsCorporate(who) \/ IsBranchLogin(who)
  /\ Commit(who, PurgeContracts(c) \o <<"payments", "invoices", "customers">>, c, Logged(who), {})

DeleteProperty(who, c) ==
  /\ Sells(who) /\ InScope(who, c) /\ Has("properties", c)
  /\ Has("contracts", c) => IsCorporate(who)
  /\ Commit(who, PurgeContracts(c) \o <<"properties">>, c, Logged(who), {})

DeleteQuote(who, c) ==
  /\ Sells(who) /\ InScope(who, c) /\ Has("quotes", c)
  /\ Has("contracts", c) => IsCorporate(who)
  /\ Commit(who, PurgeContracts(c) \o <<"quotes">>, c, Logged(who), {})

(* Mutant: the quote is left as it was. *)
DeleteContractOnly(who, c) ==
  /\ IsCorporate(who) /\ Has("contracts", c)
  /\ Commit(who, PurgeContracts(c), c, Logged(who), {})

(* The quote goes back to presented, to be signed again. *)
DeleteContract(who, c) ==
  /\ IsCorporate(who) /\ Has("contracts", c)
  /\ Commit(who, PurgeContracts(c), c, Logged(who), {c})

DeleteInvoice(who, c) ==
  /\ IsCorporate(who) /\ Has("invoices", c)
  /\ Commit(who, <<"payments", "invoices">>, c, Logged(who), {})

DeleteWorkOrder(who, c) ==
  /\ IsCorporate(who) /\ Has("work_orders", c)
  /\ Commit(who, <<"work_orders">>, c, Logged(who), {})

(* Not one's own account, and not the last corporate one. *)
DeleteUser(who, u) ==
  /\ IsCorporate(who) /\ u # who /\ Has("users", u)
  /\ IsCorporate(u) => \E v \in Staff \ {u} : IsCorporate(v) /\ Has("users", v)
  /\ Commit(who, <<"users">>, u, Logged(who), {})

(* deletePin: its creator's or the office's, and not a signed customer's.  *)
DeletePin(who, c) ==
  LET pin == <<"lead_pins", c>> IN
  /\ Sells(who) /\ InScope(who, c) /\ pin \in rows
  /\ IsCorporate(who) \/ (SellerOf[c] = who /\ <<pin, "created_by_user_id">> \notin nulls)
  /\ c \in active => <<pin, "customer_id">> \in nulls
  /\ Commit(who, <<"lead_pins">>, c, {}, {})

(* deleteExpense, deleteDocument and deleteMonth. *)
DeleteBooks(who, table, b) ==
  /\ RoleOf[who] \in {"corporate", "branch"} /\ InScope(who, b) /\ Has(table, b)
  /\ Commit(who, <<table>>, b, Logged(who), {})

Next ==
  \E who \in {s \in Staff : Has("users", s)} :
    \/ \E c \in Customers :
         \/ DeleteCustomer(who, c) \/ DeleteProperty(who, c) \/ DeleteQuote(who, c) \/ DeleteContract(who, c)
         \/ DeleteInvoice(who, c) \/ DeleteWorkOrder(who, c) \/ DeletePin(who, c)
    \/ \E u \in Staff : DeleteUser(who, u)
    \/ \E table \in {"expenses", "bookkeeping_documents", "bookkeeping_months"}, b \in Branches : DeleteBooks(who, table, b)

Spec == Init /\ [][Next]_vars

-----------------------------------------------------------------------------
(* The first three are of a step: what a deletion may never take. *)

(* What was said and done outlives the customer, the visit and the account *)
(* it was about: deletion.ts: "lead pins and message history keep their    *)
(* row, unlinked", and "everything they created or reviewed keeps its      *)
(* row"; only deletePin takes a pin, and nothing else with it.             *)
History == {"audit_log", "message_log", "sms_inbound", "meta_conversations", "meta_messages", "email_leads", "uploads"}
HistoryStays ==
  \A r \in rows \ rows' : r[1] \notin History /\ (r[1] = "lead_pins" => rows \ rows' = {r})

(* A deletion keeps to the customer, account or branch it was asked for.   *)
(* Only the credit a customer was given for referring another goes with    *)
(* the invoice that earned it, or with the customer it was given to.       *)
KeepsToItsOwn ==
  \A r, s \in rows \ rows' :
    r[2] # s[2] =>
      \E x \in {r, s} :
        /\ x[1] = "referral"
        /\ {<<"customers", ReferrerOf[x[2]]>>, <<"invoices", x[2]>>} \cap (rows \ rows') # {}

(* Contracts, invoices and payments go only by the office, or with a whole *)
(* customer by the sign-in of that customer's branch (deletion.ts).        *)
MoneyGoesByOffice ==
  \A r \in rows \ rows' :
    r[1] \in {"contracts", "invoices", "payments"} /\ ~IsCorporate(by') =>
      IsBranchLogin(by') /\ BranchOf[by'] = BranchOf[r[2]] /\ <<"customers", r[2]>> \in rows \ rows'

(* An accepted quote has its contract: deleting the contract leaves a deal *)
(* to sign again, "rather than stranded as accepted with nothing".         *)
NoneStranded == \A c \in Customers : Has("quotes", c) /\ c \notin presented => Has("contracts", c)

(* deletion.ts: "each delete here clears the chain beneath it first", and  *)
(* of an account, "everything they created or reviewed keeps its row,      *)
(* unattributed".  No deletion that is allowed is stopped by the database. *)
DeletesGo == ~failed
=============================================================================
