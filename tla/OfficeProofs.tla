---------------------------- MODULE OfficeProofs ----------------------------
(***************************************************************************)
(* Proofs about Office: those of deletion, and that what holds of each     *)
(* component holds of the office.                                          *)
(***************************************************************************)
EXTENDS Office, Integers, TLAPS

-----------------------------------------------------------------------------
(* What cascades from what (Records). *)
Cascades ==
  {<<"bookkeeping_documents", "bookkeeping_months">>, <<"branch_sign_in_passwords", "branches">>,
   <<"card_setups", "contracts">>, <<"card_setups", "customers">>,
   <<"contract_checklist_items", "contracts">>, <<"customer_credits", "customers">>,
   <<"customer_credits", "invoices">>, <<"customer_notes", "customers">>,
   <<"customer_phones", "customers">>, <<"message_templates", "branches">>,
   <<"meta_messages", "meta_conversations">>, <<"operator_documents", "users">>,
   <<"pricing_guide", "branches">>, <<"properties", "customers">>, <<"quote_addons", "quotes">>,
   <<"quote_scope_items", "quotes">>, <<"quote_tags", "quotes">>, <<"quotes", "properties">>,
   <<"referral", "customers">>, <<"referral", "invoices">>, <<"review_requests", "customers">>,
   <<"review_requests", "work_orders">>, <<"service_photos", "work_orders">>,
   <<"service_routes", "branches">>, <<"signing_requests", "customers">>,
   <<"signing_requests", "quotes">>, <<"weather_alert_runs", "branches">>,
   <<"work_orders", "contracts">>, <<"work_orders", "properties">>}

(* Where a column of row r that cascades may lead. *)
Leads(r, col) ==
  References(r)[col][1] = "cascade" =>
    /\ <<r[1], References(r)[col][2]>> \in Cascades
    /\ \/ Target(r, col) = <<References(r)[col][2], r[2]>>
       \/ Target(r, col) = <<References(r)[col][2], Nobody>>
       \/ r[1] = "referral" /\ Target(r, col) = <<"customers", ReferrerOf[r[2]]>>

LEMMA OwnersApart ==
  /\ \A c \in Customers : c \notin Staff /\ c \notin Branches
  /\ \A u \in Staff : u \notin Customers /\ u \notin Branches
  /\ \A b \in Branches : b \notin Customers /\ b \notin Staff
BY RecordsAssumption

LEMMA OtherRules == \A t : Restrict(t)[1] # "cascade" /\ SetNull(t)[1] # "cascade"
BY DEF Restrict, SetNull

LEMMA BranchTables == DOMAIN OfBranch = {"branches", "pricing_guide", "service_routes", "message_templates", "weather_alert_runs", "branch_sign_in_passwords", "expenses", "bookkeeping_months", "bookkeeping_documents"}
BY DEF OfBranch

LEMMA PlainTarget ==
  ASSUME NEW r, NEW col, NEW t, References(r)[col][2] = t, t # "users",
         t \notin {"branches", "pricing_guide", "service_routes", "message_templates", "weather_alert_runs", "branch_sign_in_passwords", "expenses", "bookkeeping_months", "bookkeeping_documents"},
         col # "referred_by_customer_id", r[1] # "referral", r[1] # "customer_credits" \/ col # "source_invoice_id"
  PROVE  Target(r, col) = <<t, r[2]>>
BY BranchTables DEF Target

LEMMA HomeTarget ==
  ASSUME NEW r, NEW col, NEW t, References(r)[col][2] = t, t \in {"branches", "pricing_guide", "service_routes", "message_templates", "weather_alert_runs", "branch_sign_in_passwords", "expenses", "bookkeeping_months", "bookkeeping_documents"},
         col # "referred_by_customer_id", r[1] # "referral", r[1] # "customer_credits"
  PROVE  Target(r, col) = <<t, HomeOf(r[2])>>
<1>1. t # "users"
  OBVIOUS
<1>2. QED BY <1>1, BranchTables DEF Target

LEMMA CustomerLeads == \A r \in (DOMAIN OfCustomer) \X Customers : \A col \in DOMAIN References(r) : Leads(r, col)
<1> SUFFICES ASSUME NEW r \in (DOMAIN OfCustomer) \X Customers, NEW col \in DOMAIN References(r) PROVE Leads(r, col)
  OBVIOUS
<1>1. r[2] \in Customers /\ r[2] \notin Branches /\ References(r) = OfCustomer[r[1]]
  BY OwnersApart DEF References
<1>2. CASE r[1] = "customers"
  <2>1. References(r) = customers
    BY <1>1, <1>2 DEF OfCustomer
  <2>2. col \in {"branch_id", "created_by_user_id", "sms_assigned_user_id"}
    BY <2>1 DEF customers
  <2>3. CASE col = "branch_id"
    <3>1. References(r)[col] = Restrict("branches")
      BY <2>1, <2>3 DEF customers
    <3>2. QED BY <3>1, OtherRules DEF Leads
  <2>4. CASE col = "created_by_user_id"
    <3>1. References(r)[col] = SetNull("users")
      BY <2>1, <2>4 DEF customers
    <3>2. QED BY <3>1, OtherRules DEF Leads
  <2>5. CASE col = "sms_assigned_user_id"
    <3>1. References(r)[col] = SetNull("users")
      BY <2>1, <2>5 DEF customers
    <3>2. QED BY <3>1, OtherRules DEF Leads
  <2>6. QED BY <2>2, <2>3, <2>4, <2>5
<1>3. CASE r[1] = "customer_phones"
  <2>1. References(r) = customer_phones
    BY <1>1, <1>3 DEF OfCustomer
  <2>2. col \in {"customer_id"}
    BY <2>1 DEF customer_phones
  <2>3. CASE col = "customer_id"
    <3>1. References(r)[col] = <<"cascade", "customers">>
      BY <2>1, <2>3 DEF customer_phones, Cascade
    <3>2. Target(r, col) = <<"customers", r[2]>>
      BY <1>3, <2>3, <3>1, PlainTarget
    <3>3. <<r[1], "customers">> \in Cascades
      BY <1>3 DEF Cascades
    <3>4. QED BY <1>3, <3>1, <3>2, <3>3 DEF Leads
  <2>4. QED BY <2>2, <2>3
<1>4. CASE r[1] = "customer_notes"
  <2>1. References(r) = customer_notes
    BY <1>1, <1>4 DEF OfCustomer
  <2>2. col \in {"customer_id", "author_user_id"}
    BY <2>1 DEF customer_notes
  <2>3. CASE col = "customer_id"
    <3>1. References(r)[col] = <<"cascade", "customers">>
      BY <2>1, <2>3 DEF customer_notes, Cascade
    <3>2. Target(r, col) = <<"customers", r[2]>>
      BY <1>4, <2>3, <3>1, PlainTarget
    <3>3. <<r[1], "customers">> \in Cascades
      BY <1>4 DEF Cascades
    <3>4. QED BY <1>4, <3>1, <3>2, <3>3 DEF Leads
  <2>4. CASE col = "author_user_id"
    <3>1. References(r)[col] = SetNull("users")
      BY <2>1, <2>4 DEF customer_notes
    <3>2. QED BY <3>1, OtherRules DEF Leads
  <2>5. QED BY <2>2, <2>3, <2>4
<1>5. CASE r[1] = "properties"
  <2>1. References(r) = properties
    BY <1>1, <1>5 DEF OfCustomer
  <2>2. col \in {"customer_id"}
    BY <2>1 DEF properties
  <2>3. CASE col = "customer_id"
    <3>1. References(r)[col] = <<"cascade", "customers">>
      BY <2>1, <2>3 DEF properties, Cascade
    <3>2. Target(r, col) = <<"customers", r[2]>>
      BY <1>5, <2>3, <3>1, PlainTarget
    <3>3. <<r[1], "customers">> \in Cascades
      BY <1>5 DEF Cascades
    <3>4. QED BY <1>5, <3>1, <3>2, <3>3 DEF Leads
  <2>4. QED BY <2>2, <2>3
<1>6. CASE r[1] = "quotes"
  <2>1. References(r) = quotes
    BY <1>1, <1>6 DEF OfCustomer
  <2>2. col \in {"property_id", "created_by_user_id", "contract_type_id", "billing_plan_id", "tax_code_id", "assigned_operator_id", "service_route_id", "referred_by_customer_id"}
    BY <2>1 DEF quotes
  <2>3. CASE col = "property_id"
    <3>1. References(r)[col] = <<"cascade", "properties">>
      BY <2>1, <2>3 DEF quotes, Cascade
    <3>2. Target(r, col) = <<"properties", r[2]>>
      BY <1>6, <2>3, <3>1, PlainTarget
    <3>3. <<r[1], "properties">> \in Cascades
      BY <1>6 DEF Cascades
    <3>4. QED BY <1>6, <3>1, <3>2, <3>3 DEF Leads
  <2>4. CASE col = "created_by_user_id"
    <3>1. References(r)[col] = SetNull("users")
      BY <2>1, <2>4 DEF quotes
    <3>2. QED BY <3>1, OtherRules DEF Leads
  <2>5. CASE col = "contract_type_id"
    <3>1. References(r)[col] = Restrict("contract_types")
      BY <2>1, <2>5 DEF quotes
    <3>2. QED BY <3>1, OtherRules DEF Leads
  <2>6. CASE col = "billing_plan_id"
    <3>1. References(r)[col] = Restrict("billing_plans")
      BY <2>1, <2>6 DEF quotes
    <3>2. QED BY <3>1, OtherRules DEF Leads
  <2>7. CASE col = "tax_code_id"
    <3>1. References(r)[col] = Restrict("tax_codes")
      BY <2>1, <2>7 DEF quotes
    <3>2. QED BY <3>1, OtherRules DEF Leads
  <2>8. CASE col = "assigned_operator_id"
    <3>1. References(r)[col] = SetNull("users")
      BY <2>1, <2>8 DEF quotes
    <3>2. QED BY <3>1, OtherRules DEF Leads
  <2>9. CASE col = "service_route_id"
    <3>1. References(r)[col] = SetNull("service_routes")
      BY <2>1, <2>9 DEF quotes
    <3>2. QED BY <3>1, OtherRules DEF Leads
  <2>10. CASE col = "referred_by_customer_id"
    <3>1. References(r)[col] = SetNull("customers")
      BY <2>1, <2>10 DEF quotes
    <3>2. QED BY <3>1, OtherRules DEF Leads
  <2>11. QED BY <2>2, <2>3, <2>4, <2>5, <2>6, <2>7, <2>8, <2>9, <2>10
<1>7. CASE r[1] = "quote_scope_items"
  <2>1. References(r) = quote_scope_items
    BY <1>1, <1>7 DEF OfCustomer
  <2>2. col \in {"quote_id", "scope_item_id"}
    BY <2>1 DEF quote_scope_items
  <2>3. CASE col = "quote_id"
    <3>1. References(r)[col] = <<"cascade", "quotes">>
      BY <2>1, <2>3 DEF quote_scope_items, Cascade
    <3>2. Target(r, col) = <<"quotes", r[2]>>
      BY <1>7, <2>3, <3>1, PlainTarget
    <3>3. <<r[1], "quotes">> \in Cascades
      BY <1>7 DEF Cascades
    <3>4. QED BY <1>7, <3>1, <3>2, <3>3 DEF Leads
  <2>4. CASE col = "scope_item_id"
    <3>1. References(r)[col] = Restrict("scope_items")
      BY <2>1, <2>4 DEF quote_scope_items
    <3>2. QED BY <3>1, OtherRules DEF Leads
  <2>5. QED BY <2>2, <2>3, <2>4
<1>8. CASE r[1] = "quote_addons"
  <2>1. References(r) = quote_addons
    BY <1>1, <1>8 DEF OfCustomer
  <2>2. col \in {"quote_id", "addon_service_id"}
    BY <2>1 DEF quote_addons
  <2>3. CASE col = "quote_id"
    <3>1. References(r)[col] = <<"cascade", "quotes">>
      BY <2>1, <2>3 DEF quote_addons, Cascade
    <3>2. Target(r, col) = <<"quotes", r[2]>>
      BY <1>8, <2>3, <3>1, PlainTarget
    <3>3. <<r[1], "quotes">> \in Cascades
      BY <1>8 DEF Cascades
    <3>4. QED BY <1>8, <3>1, <3>2, <3>3 DEF Leads
  <2>4. CASE col = "addon_service_id"
    <3>1. References(r)[col] = Restrict("addon_services")
      BY <2>1, <2>4 DEF quote_addons
    <3>2. QED BY <3>1, OtherRules DEF Leads
  <2>5. QED BY <2>2, <2>3, <2>4
<1>9. CASE r[1] = "quote_tags"
  <2>1. References(r) = quote_tags
    BY <1>1, <1>9 DEF OfCustomer
  <2>2. col \in {"quote_id", "tag_id"}
    BY <2>1 DEF quote_tags
  <2>3. CASE col = "quote_id"
    <3>1. References(r)[col] = <<"cascade", "quotes">>
      BY <2>1, <2>3 DEF quote_tags, Cascade
    <3>2. Target(r, col) = <<"quotes", r[2]>>
      BY <1>9, <2>3, <3>1, PlainTarget
    <3>3. <<r[1], "quotes">> \in Cascades
      BY <1>9 DEF Cascades
    <3>4. QED BY <1>9, <3>1, <3>2, <3>3 DEF Leads
  <2>4. CASE col = "tag_id"
    <3>1. References(r)[col] = Restrict("contract_tags")
      BY <2>1, <2>4 DEF quote_tags
    <3>2. QED BY <3>1, OtherRules DEF Leads
  <2>5. QED BY <2>2, <2>3, <2>4
<1>10. CASE r[1] = "signing_requests"
  <2>1. References(r) = signing_requests
    BY <1>1, <1>10 DEF OfCustomer
  <2>2. col \in {"quote_id", "customer_id", "branch_id", "contract_id", "requested_by_user_id"}
    BY <2>1 DEF signing_requests
  <2>3. CASE col = "quote_id"
    <3>1. References(r)[col] = <<"cascade", "quotes">>
      BY <2>1, <2>3 DEF signing_requests, Cascade
    <3>2. Target(r, col) = <<"quotes", r[2]>>
      BY <1>10, <2>3, <3>1, PlainTarget
    <3>3. <<r[1], "quotes">> \in Cascades
      BY <1>10 DEF Cascades
    <3>4. QED BY <1>10, <3>1, <3>2, <3>3 DEF Leads
  <2>4. CASE col = "customer_id"
    <3>1. References(r)[col] = <<"cascade", "customers">>
      BY <2>1, <2>4 DEF signing_requests, Cascade
    <3>2. Target(r, col) = <<"customers", r[2]>>
      BY <1>10, <2>4, <3>1, PlainTarget
    <3>3. <<r[1], "customers">> \in Cascades
      BY <1>10 DEF Cascades
    <3>4. QED BY <1>10, <3>1, <3>2, <3>3 DEF Leads
  <2>5. CASE col = "branch_id"
    <3>1. References(r)[col] = Restrict("branches")
      BY <2>1, <2>5 DEF signing_requests
    <3>2. QED BY <3>1, OtherRules DEF Leads
  <2>6. CASE col = "contract_id"
    <3>1. References(r)[col] = SetNull("contracts")
      BY <2>1, <2>6 DEF signing_requests
    <3>2. QED BY <3>1, OtherRules DEF Leads
  <2>7. CASE col = "requested_by_user_id"
    <3>1. References(r)[col] = SetNull("users")
      BY <2>1, <2>7 DEF signing_requests
    <3>2. QED BY <3>1, OtherRules DEF Leads
  <2>8. QED BY <2>2, <2>3, <2>4, <2>5, <2>6, <2>7
<1>11. CASE r[1] = "contracts"
  <2>1. References(r) = contracts
    BY <1>1, <1>11 DEF OfCustomer
  <2>2. col \in {"quote_id", "customer_id", "property_id"}
    BY <2>1 DEF contracts
  <2>3. CASE col = "quote_id"
    <3>1. References(r)[col] = Restrict("quotes")
      BY <2>1, <2>3 DEF contracts
    <3>2. QED BY <3>1, OtherRules DEF Leads
  <2>4. CASE col = "customer_id"
    <3>1. References(r)[col] = Restrict("customers")
      BY <2>1, <2>4 DEF contracts
    <3>2. QED BY <3>1, OtherRules DEF Leads
  <2>5. CASE col = "property_id"
    <3>1. References(r)[col] = Restrict("properties")
      BY <2>1, <2>5 DEF contracts
    <3>2. QED BY <3>1, OtherRules DEF Leads
  <2>6. QED BY <2>2, <2>3, <2>4, <2>5
<1>12. CASE r[1] = "contract_checklist_items"
  <2>1. References(r) = contract_checklist_items
    BY <1>1, <1>12 DEF OfCustomer
  <2>2. col \in {"contract_id", "item_code"}
    BY <2>1 DEF contract_checklist_items
  <2>3. CASE col = "contract_id"
    <3>1. References(r)[col] = <<"cascade", "contracts">>
      BY <2>1, <2>3 DEF contract_checklist_items, Cascade
    <3>2. Target(r, col) = <<"contracts", r[2]>>
      BY <1>12, <2>3, <3>1, PlainTarget
    <3>3. <<r[1], "contracts">> \in Cascades
      BY <1>12 DEF Cascades
    <3>4. QED BY <1>12, <3>1, <3>2, <3>3 DEF Leads
  <2>4. CASE col = "item_code"
    <3>1. References(r)[col] = Restrict("checklist_requirements")
      BY <2>1, <2>4 DEF contract_checklist_items
    <3>2. QED BY <3>1, OtherRules DEF Leads
  <2>5. QED BY <2>2, <2>3, <2>4
<1>13. CASE r[1] = "card_setups"
  <2>1. References(r) = card_setups
    BY <1>1, <1>13 DEF OfCustomer
  <2>2. col \in {"customer_id", "contract_id", "branch_id", "requested_by_user_id"}
    BY <2>1 DEF card_setups
  <2>3. CASE col = "customer_id"
    <3>1. References(r)[col] = <<"cascade", "customers">>
      BY <2>1, <2>3 DEF card_setups, Cascade
    <3>2. Target(r, col) = <<"customers", r[2]>>
      BY <1>13, <2>3, <3>1, PlainTarget
    <3>3. <<r[1], "customers">> \in Cascades
      BY <1>13 DEF Cascades
    <3>4. QED BY <1>13, <3>1, <3>2, <3>3 DEF Leads
  <2>4. CASE col = "contract_id"
    <3>1. References(r)[col] = <<"cascade", "contracts">>
      BY <2>1, <2>4 DEF card_setups, Cascade
    <3>2. Target(r, col) = <<"contracts", r[2]>>
      BY <1>13, <2>4, <3>1, PlainTarget
    <3>3. <<r[1], "contracts">> \in Cascades
      BY <1>13 DEF Cascades
    <3>4. QED BY <1>13, <3>1, <3>2, <3>3 DEF Leads
  <2>5. CASE col = "branch_id"
    <3>1. References(r)[col] = Restrict("branches")
      BY <2>1, <2>5 DEF card_setups
    <3>2. QED BY <3>1, OtherRules DEF Leads
  <2>6. CASE col = "requested_by_user_id"
    <3>1. References(r)[col] = SetNull("users")
      BY <2>1, <2>6 DEF card_setups
    <3>2. QED BY <3>1, OtherRules DEF Leads
  <2>7. QED BY <2>2, <2>3, <2>4, <2>5, <2>6
<1>14. CASE r[1] = "work_orders"
  <2>1. References(r) = work_orders
    BY <1>1, <1>14 DEF OfCustomer
  <2>2. col \in {"contract_id", "property_id", "branch_id", "assigned_user_id"}
    BY <2>1 DEF work_orders
  <2>3. CASE col = "contract_id"
    <3>1. References(r)[col] = <<"cascade", "contracts">>
      BY <2>1, <2>3 DEF work_orders, Cascade
    <3>2. Target(r, col) = <<"contracts", r[2]>>
      BY <1>14, <2>3, <3>1, PlainTarget
    <3>3. <<r[1], "contracts">> \in Cascades
      BY <1>14 DEF Cascades
    <3>4. QED BY <1>14, <3>1, <3>2, <3>3 DEF Leads
  <2>4. CASE col = "property_id"
    <3>1. References(r)[col] = <<"cascade", "properties">>
      BY <2>1, <2>4 DEF work_orders, Cascade
    <3>2. Target(r, col) = <<"properties", r[2]>>
      BY <1>14, <2>4, <3>1, PlainTarget
    <3>3. <<r[1], "properties">> \in Cascades
      BY <1>14 DEF Cascades
    <3>4. QED BY <1>14, <3>1, <3>2, <3>3 DEF Leads
  <2>5. CASE col = "branch_id"
    <3>1. References(r)[col] = Restrict("branches")
      BY <2>1, <2>5 DEF work_orders
    <3>2. QED BY <3>1, OtherRules DEF Leads
  <2>6. CASE col = "assigned_user_id"
    <3>1. References(r)[col] = SetNull("users")
      BY <2>1, <2>6 DEF work_orders
    <3>2. QED BY <3>1, OtherRules DEF Leads
  <2>7. QED BY <2>2, <2>3, <2>4, <2>5, <2>6
<1>15. CASE r[1] = "service_photos"
  <2>1. References(r) = service_photos
    BY <1>1, <1>15 DEF OfCustomer
  <2>2. col \in {"work_order_id", "uploaded_by_user_id"}
    BY <2>1 DEF service_photos
  <2>3. CASE col = "work_order_id"
    <3>1. References(r)[col] = <<"cascade", "work_orders">>
      BY <2>1, <2>3 DEF service_photos, Cascade
    <3>2. Target(r, col) = <<"work_orders", r[2]>>
      BY <1>15, <2>3, <3>1, PlainTarget
    <3>3. <<r[1], "work_orders">> \in Cascades
      BY <1>15 DEF Cascades
    <3>4. QED BY <1>15, <3>1, <3>2, <3>3 DEF Leads
  <2>4. CASE col = "uploaded_by_user_id"
    <3>1. References(r)[col] = SetNull("users")
      BY <2>1, <2>4 DEF service_photos
    <3>2. QED BY <3>1, OtherRules DEF Leads
  <2>5. QED BY <2>2, <2>3, <2>4
<1>16. CASE r[1] = "review_requests"
  <2>1. References(r) = review_requests
    BY <1>1, <1>16 DEF OfCustomer
  <2>2. col \in {"customer_id", "work_order_id", "branch_id"}
    BY <2>1 DEF review_requests
  <2>3. CASE col = "customer_id"
    <3>1. References(r)[col] = <<"cascade", "customers">>
      BY <2>1, <2>3 DEF review_requests, Cascade
    <3>2. Target(r, col) = <<"customers", r[2]>>
      BY <1>16, <2>3, <3>1, PlainTarget
    <3>3. <<r[1], "customers">> \in Cascades
      BY <1>16 DEF Cascades
    <3>4. QED BY <1>16, <3>1, <3>2, <3>3 DEF Leads
  <2>4. CASE col = "work_order_id"
    <3>1. References(r)[col] = <<"cascade", "work_orders">>
      BY <2>1, <2>4 DEF review_requests, Cascade
    <3>2. Target(r, col) = <<"work_orders", r[2]>>
      BY <1>16, <2>4, <3>1, PlainTarget
    <3>3. <<r[1], "work_orders">> \in Cascades
      BY <1>16 DEF Cascades
    <3>4. QED BY <1>16, <3>1, <3>2, <3>3 DEF Leads
  <2>5. CASE col = "branch_id"
    <3>1. References(r)[col] = Restrict("branches")
      BY <2>1, <2>5 DEF review_requests
    <3>2. QED BY <3>1, OtherRules DEF Leads
  <2>6. QED BY <2>2, <2>3, <2>4, <2>5
<1>17. CASE r[1] = "invoices"
  <2>1. References(r) = invoices
    BY <1>1, <1>17 DEF OfCustomer
  <2>2. col \in {"contract_id", "customer_id", "branch_id"}
    BY <2>1 DEF invoices
  <2>3. CASE col = "contract_id"
    <3>1. References(r)[col] = Restrict("contracts")
      BY <2>1, <2>3 DEF invoices
    <3>2. QED BY <3>1, OtherRules DEF Leads
  <2>4. CASE col = "customer_id"
    <3>1. References(r)[col] = Restrict("customers")
      BY <2>1, <2>4 DEF invoices
    <3>2. QED BY <3>1, OtherRules DEF Leads
  <2>5. CASE col = "branch_id"
    <3>1. References(r)[col] = Restrict("branches")
      BY <2>1, <2>5 DEF invoices
    <3>2. QED BY <3>1, OtherRules DEF Leads
  <2>6. QED BY <2>2, <2>3, <2>4, <2>5
<1>18. CASE r[1] = "payments"
  <2>1. References(r) = payments
    BY <1>1, <1>18 DEF OfCustomer
  <2>2. col \in {"invoice_id"}
    BY <2>1 DEF payments
  <2>3. CASE col = "invoice_id"
    <3>1. References(r)[col] = Restrict("invoices")
      BY <2>1, <2>3 DEF payments
    <3>2. QED BY <3>1, OtherRules DEF Leads
  <2>4. QED BY <2>2, <2>3
<1>19. CASE r[1] = "customer_credits"
  <2>1. References(r) = customer_credits
    BY <1>1, <1>19 DEF OfCustomer
  <2>2. col \in {"customer_id", "source_invoice_id", "invoice_id", "created_by_user_id"}
    BY <2>1 DEF customer_credits
  <2>3. CASE col = "customer_id"
    <3>1. References(r)[col] = <<"cascade", "customers">>
      BY <2>1, <2>3 DEF customer_credits, Cascade
    <3>2. Target(r, col) = <<"customers", r[2]>>
      BY <1>19, <2>3, <3>1, PlainTarget
    <3>3. <<r[1], "customers">> \in Cascades
      BY <1>19 DEF Cascades
    <3>4. QED BY <1>19, <3>1, <3>2, <3>3 DEF Leads
  <2>4. CASE col = "source_invoice_id"
    <3>1. References(r)[col] = <<"cascade", "invoices">>
      BY <2>1, <2>4 DEF customer_credits, Cascade
    <3>2. Target(r, col) = <<"invoices", Nobody>>
      BY <1>19, <2>4, <3>1, BranchTables DEF Target
    <3>3. <<r[1], "invoices">> \in Cascades
      BY <1>19 DEF Cascades
    <3>4. QED BY <1>19, <3>1, <3>2, <3>3 DEF Leads
  <2>5. CASE col = "invoice_id"
    <3>1. References(r)[col] = <<"cascade", "invoices">>
      BY <2>1, <2>5 DEF customer_credits, Cascade
    <3>2. Target(r, col) = <<"invoices", r[2]>>
      BY <1>19, <2>5, <3>1, PlainTarget
    <3>3. <<r[1], "invoices">> \in Cascades
      BY <1>19 DEF Cascades
    <3>4. QED BY <1>19, <3>1, <3>2, <3>3 DEF Leads
  <2>6. CASE col = "created_by_user_id"
    <3>1. References(r)[col] = SetNull("users")
      BY <2>1, <2>6 DEF customer_credits
    <3>2. QED BY <3>1, OtherRules DEF Leads
  <2>7. QED BY <2>2, <2>3, <2>4, <2>5, <2>6
<1>20. CASE r[1] = "referral"
  <2>1. References(r) = customer_credits
    BY <1>1, <1>20 DEF OfCustomer
  <2>2. col \in {"customer_id", "source_invoice_id", "invoice_id", "created_by_user_id"}
    BY <2>1 DEF customer_credits
  <2>3. CASE col = "customer_id"
    <3>1. References(r)[col] = <<"cascade", "customers">>
      BY <2>1, <2>3 DEF customer_credits, Cascade
    <3>2. Target(r, col) = <<"customers", ReferrerOf[r[2]]>>
      BY <1>20, <2>3, <3>1, BranchTables DEF Target
    <3>3. <<r[1], "customers">> \in Cascades
      BY <1>20 DEF Cascades
    <3>4. QED BY <1>20, <3>1, <3>2, <3>3 DEF Leads
  <2>4. CASE col = "source_invoice_id"
    <3>1. References(r)[col] = <<"cascade", "invoices">>
      BY <2>1, <2>4 DEF customer_credits, Cascade
    <3>2. Target(r, col) = <<"invoices", r[2]>>
      BY <1>20, <2>4, <3>1, BranchTables DEF Target
    <3>3. <<r[1], "invoices">> \in Cascades
      BY <1>20 DEF Cascades
    <3>4. QED BY <1>20, <3>1, <3>2, <3>3 DEF Leads
  <2>5. CASE col = "invoice_id"
    <3>1. References(r)[col] = <<"cascade", "invoices">>
      BY <2>1, <2>5 DEF customer_credits, Cascade
    <3>2. Target(r, col) = <<"invoices", Nobody>>
      BY <1>20, <2>5, <3>1, BranchTables DEF Target
    <3>3. <<r[1], "invoices">> \in Cascades
      BY <1>20 DEF Cascades
    <3>4. QED BY <1>20, <3>1, <3>2, <3>3 DEF Leads
  <2>6. CASE col = "created_by_user_id"
    <3>1. References(r)[col] = SetNull("users")
      BY <2>1, <2>6 DEF customer_credits
    <3>2. QED BY <3>1, OtherRules DEF Leads
  <2>7. QED BY <2>2, <2>3, <2>4, <2>5, <2>6
<1>21. CASE r[1] = "message_log"
  <2>1. References(r) = message_log
    BY <1>1, <1>21 DEF OfCustomer
  <2>2. col \in {"branch_id", "customer_id", "work_order_id", "email_lead_id", "sent_by_user_id"}
    BY <2>1 DEF message_log
  <2>3. CASE col = "branch_id"
    <3>1. References(r)[col] = SetNull("branches")
      BY <2>1, <2>3 DEF message_log
    <3>2. QED BY <3>1, OtherRules DEF Leads
  <2>4. CASE col = "customer_id"
    <3>1. References(r)[col] = SetNull("customers")
      BY <2>1, <2>4 DEF message_log
    <3>2. QED BY <3>1, OtherRules DEF Leads
  <2>5. CASE col = "work_order_id"
    <3>1. References(r)[col] = SetNull("work_orders")
      BY <2>1, <2>5 DEF message_log
    <3>2. QED BY <3>1, OtherRules DEF Leads
  <2>6. CASE col = "email_lead_id"
    <3>1. References(r)[col] = SetNull("email_leads")
      BY <2>1, <2>6 DEF message_log
    <3>2. QED BY <3>1, OtherRules DEF Leads
  <2>7. CASE col = "sent_by_user_id"
    <3>1. References(r)[col] = SetNull("users")
      BY <2>1, <2>7 DEF message_log
    <3>2. QED BY <3>1, OtherRules DEF Leads
  <2>8. QED BY <2>2, <2>3, <2>4, <2>5, <2>6, <2>7
<1>22. CASE r[1] = "sms_inbound"
  <2>1. References(r) = sms_inbound
    BY <1>1, <1>22 DEF OfCustomer
  <2>2. col \in {"customer_id"}
    BY <2>1 DEF sms_inbound
  <2>3. CASE col = "customer_id"
    <3>1. References(r)[col] = SetNull("customers")
      BY <2>1, <2>3 DEF sms_inbound
    <3>2. QED BY <3>1, OtherRules DEF Leads
  <2>4. QED BY <2>2, <2>3
<1>23. CASE r[1] = "lead_pins"
  <2>1. References(r) = lead_pins
    BY <1>1, <1>23 DEF OfCustomer
  <2>2. col \in {"branch_id", "customer_id", "created_by_user_id", "updated_by_user_id"}
    BY <2>1 DEF lead_pins
  <2>3. CASE col = "branch_id"
    <3>1. References(r)[col] = Restrict("branches")
      BY <2>1, <2>3 DEF lead_pins
    <3>2. QED BY <3>1, OtherRules DEF Leads
  <2>4. CASE col = "customer_id"
    <3>1. References(r)[col] = SetNull("customers")
      BY <2>1, <2>4 DEF lead_pins
    <3>2. QED BY <3>1, OtherRules DEF Leads
  <2>5. CASE col = "created_by_user_id"
    <3>1. References(r)[col] = SetNull("users")
      BY <2>1, <2>5 DEF lead_pins
    <3>2. QED BY <3>1, OtherRules DEF Leads
  <2>6. CASE col = "updated_by_user_id"
    <3>1. References(r)[col] = SetNull("users")
      BY <2>1, <2>6 DEF lead_pins
    <3>2. QED BY <3>1, OtherRules DEF Leads
  <2>7. QED BY <2>2, <2>3, <2>4, <2>5, <2>6
<1>24. CASE r[1] = "email_leads"
  <2>1. References(r) = email_leads
    BY <1>1, <1>24 DEF OfCustomer
  <2>2. col \in {"branch_id", "lead_pin_id", "customer_id", "created_by_user_id"}
    BY <2>1 DEF email_leads
  <2>3. CASE col = "branch_id"
    <3>1. References(r)[col] = Restrict("branches")
      BY <2>1, <2>3 DEF email_leads
    <3>2. QED BY <3>1, OtherRules DEF Leads
  <2>4. CASE col = "lead_pin_id"
    <3>1. References(r)[col] = SetNull("lead_pins")
      BY <2>1, <2>4 DEF email_leads
    <3>2. QED BY <3>1, OtherRules DEF Leads
  <2>5. CASE col = "customer_id"
    <3>1. References(r)[col] = SetNull("customers")
      BY <2>1, <2>5 DEF email_leads
    <3>2. QED BY <3>1, OtherRules DEF Leads
  <2>6. CASE col = "created_by_user_id"
    <3>1. References(r)[col] = SetNull("users")
      BY <2>1, <2>6 DEF email_leads
    <3>2. QED BY <3>1, OtherRules DEF Leads
  <2>7. QED BY <2>2, <2>3, <2>4, <2>5, <2>6
<1>25. CASE r[1] = "meta_conversations"
  <2>1. References(r) = meta_conversations
    BY <1>1, <1>25 DEF OfCustomer
  <2>2. col \in {"branch_id", "customer_id"}
    BY <2>1 DEF meta_conversations
  <2>3. CASE col = "branch_id"
    <3>1. References(r)[col] = SetNull("branches")
      BY <2>1, <2>3 DEF meta_conversations
    <3>2. QED BY <3>1, OtherRules DEF Leads
  <2>4. CASE col = "customer_id"
    <3>1. References(r)[col] = SetNull("customers")
      BY <2>1, <2>4 DEF meta_conversations
    <3>2. QED BY <3>1, OtherRules DEF Leads
  <2>5. QED BY <2>2, <2>3, <2>4
<1>26. CASE r[1] = "meta_messages"
  <2>1. References(r) = meta_messages
    BY <1>1, <1>26 DEF OfCustomer
  <2>2. col \in {"conversation_id", "sent_by_user_id"}
    BY <2>1 DEF meta_messages
  <2>3. CASE col = "conversation_id"
    <3>1. References(r)[col] = <<"cascade", "meta_conversations">>
      BY <2>1, <2>3 DEF meta_messages, Cascade
    <3>2. Target(r, col) = <<"meta_conversations", r[2]>>
      BY <1>26, <2>3, <3>1, PlainTarget
    <3>3. <<r[1], "meta_conversations">> \in Cascades
      BY <1>26 DEF Cascades
    <3>4. QED BY <1>26, <3>1, <3>2, <3>3 DEF Leads
  <2>4. CASE col = "sent_by_user_id"
    <3>1. References(r)[col] = SetNull("users")
      BY <2>1, <2>4 DEF meta_messages
    <3>2. QED BY <3>1, OtherRules DEF Leads
  <2>5. QED BY <2>2, <2>3, <2>4
<1>27. QED BY <1>2, <1>3, <1>4, <1>5, <1>6, <1>7, <1>8, <1>9, <1>10, <1>11, <1>12, <1>13, <1>14, <1>15, <1>16, <1>17, <1>18, <1>19, <1>20, <1>21, <1>22, <1>23, <1>24, <1>25, <1>26 DEF OfCustomer

LEMMA StaffLeads == \A r \in (DOMAIN OfStaff) \X Staff : \A col \in DOMAIN References(r) : Leads(r, col)
<1> SUFFICES ASSUME NEW r \in (DOMAIN OfStaff) \X Staff, NEW col \in DOMAIN References(r) PROVE Leads(r, col)
  OBVIOUS
<1>1. r[2] \in Staff /\ r[2] \notin Customers /\ r[2] \notin Branches /\ References(r) = OfStaff[r[1]]
  BY OwnersApart DEF References
<1>2. CASE r[1] = "users"
  <2>1. References(r) = users
    BY <1>1, <1>2 DEF OfStaff
  <2>2. col \in {"branch_id"}
    BY <2>1 DEF users
  <2>3. CASE col = "branch_id"
    <3>1. References(r)[col] = Restrict("branches")
      BY <2>1, <2>3 DEF users
    <3>2. QED BY <3>1, OtherRules DEF Leads
  <2>4. QED BY <2>2, <2>3
<1>3. CASE r[1] = "operator_documents"
  <2>1. References(r) = operator_documents
    BY <1>1, <1>3 DEF OfStaff
  <2>2. col \in {"user_id", "requirement_code", "reviewed_by_user_id"}
    BY <2>1 DEF operator_documents
  <2>3. CASE col = "user_id"
    <3>1. References(r)[col] = <<"cascade", "users">>
      BY <2>1, <2>3 DEF operator_documents, Cascade
    <3>2. Target(r, col) = <<"users", r[2]>>
      BY <1>1, <1>3, <2>3, <3>1, BranchTables DEF Target
    <3>3. <<r[1], "users">> \in Cascades
      BY <1>3 DEF Cascades
    <3>4. QED BY <1>3, <3>1, <3>2, <3>3 DEF Leads
  <2>4. CASE col = "requirement_code"
    <3>1. References(r)[col] = Restrict("document_requirements")
      BY <2>1, <2>4 DEF operator_documents
    <3>2. QED BY <3>1, OtherRules DEF Leads
  <2>5. CASE col = "reviewed_by_user_id"
    <3>1. References(r)[col] = SetNull("users")
      BY <2>1, <2>5 DEF operator_documents
    <3>2. QED BY <3>1, OtherRules DEF Leads
  <2>6. QED BY <2>2, <2>3, <2>4, <2>5
<1>4. CASE r[1] = "audit_log"
  <2>1. References(r) = audit_log
    BY <1>1, <1>4 DEF OfStaff
  <2>2. col \in {"user_id"}
    BY <2>1 DEF audit_log
  <2>3. CASE col = "user_id"
    <3>1. References(r)[col] = SetNull("users")
      BY <2>1, <2>3 DEF audit_log
    <3>2. QED BY <3>1, OtherRules DEF Leads
  <2>4. QED BY <2>2, <2>3
<1>5. CASE r[1] = "uploads"
  <2>1. References(r) = uploads
    BY <1>1, <1>5 DEF OfStaff
  <2>2. col \in {"uploaded_by_user_id", "branch_id"}
    BY <2>1 DEF uploads
  <2>3. CASE col = "uploaded_by_user_id"
    <3>1. References(r)[col] = SetNull("users")
      BY <2>1, <2>3 DEF uploads
    <3>2. QED BY <3>1, OtherRules DEF Leads
  <2>4. CASE col = "branch_id"
    <3>1. References(r)[col] = SetNull("branches")
      BY <2>1, <2>4 DEF uploads
    <3>2. QED BY <3>1, OtherRules DEF Leads
  <2>5. QED BY <2>2, <2>3, <2>4
<1>6. CASE r[1] = "integration_settings"
  <2>1. References(r) = integration_settings
    BY <1>1, <1>6 DEF OfStaff
  <2>2. col \in {"updated_by_user_id"}
    BY <2>1 DEF integration_settings
  <2>3. CASE col = "updated_by_user_id"
    <3>1. References(r)[col] = SetNull("users")
      BY <2>1, <2>3 DEF integration_settings
    <3>2. QED BY <3>1, OtherRules DEF Leads
  <2>4. QED BY <2>2, <2>3
<1>7. QED BY <1>2, <1>3, <1>4, <1>5, <1>6 DEF OfStaff

LEMMA BranchLeads == \A r \in (DOMAIN OfBranch) \X Branches : \A col \in DOMAIN References(r) : Leads(r, col)
<1> SUFFICES ASSUME NEW r \in (DOMAIN OfBranch) \X Branches, NEW col \in DOMAIN References(r) PROVE Leads(r, col)
  OBVIOUS
<1>1. r[2] \in Branches /\ r[2] \notin Customers /\ r[2] \notin Staff /\ References(r) = OfBranch[r[1]]
  BY OwnersApart DEF References
<1>2. CASE r[1] = "branches"
  <2>1. References(r) = branches
    BY <1>1, <1>2 DEF OfBranch
  <2>2. col \in {"manager_user_id"}
    BY <2>1 DEF branches
  <2>3. CASE col = "manager_user_id"
    <3>1. References(r)[col] = SetNull("users")
      BY <2>1, <2>3 DEF branches
    <3>2. QED BY <3>1, OtherRules DEF Leads
  <2>4. QED BY <2>2, <2>3
<1>3. CASE r[1] = "pricing_guide"
  <2>1. References(r) = pricing_guide
    BY <1>1, <1>3 DEF OfBranch
  <2>2. col \in {"branch_id"}
    BY <2>1 DEF pricing_guide
  <2>3. CASE col = "branch_id"
    <3>1. References(r)[col] = <<"cascade", "branches">>
      BY <2>1, <2>3 DEF pricing_guide, Cascade
    <3>2. Target(r, col) = <<"branches", r[2]>>
      BY <1>1, <1>3, <2>3, <3>1, HomeTarget DEF HomeOf
    <3>3. <<r[1], "branches">> \in Cascades
      BY <1>3 DEF Cascades
    <3>4. QED BY <1>3, <3>1, <3>2, <3>3 DEF Leads
  <2>4. QED BY <2>2, <2>3
<1>4. CASE r[1] = "service_routes"
  <2>1. References(r) = service_routes
    BY <1>1, <1>4 DEF OfBranch
  <2>2. col \in {"branch_id"}
    BY <2>1 DEF service_routes
  <2>3. CASE col = "branch_id"
    <3>1. References(r)[col] = <<"cascade", "branches">>
      BY <2>1, <2>3 DEF service_routes, Cascade
    <3>2. Target(r, col) = <<"branches", r[2]>>
      BY <1>1, <1>4, <2>3, <3>1, HomeTarget DEF HomeOf
    <3>3. <<r[1], "branches">> \in Cascades
      BY <1>4 DEF Cascades
    <3>4. QED BY <1>4, <3>1, <3>2, <3>3 DEF Leads
  <2>4. QED BY <2>2, <2>3
<1>5. CASE r[1] = "message_templates"
  <2>1. References(r) = message_templates
    BY <1>1, <1>5 DEF OfBranch
  <2>2. col \in {"branch_id"}
    BY <2>1 DEF message_templates
  <2>3. CASE col = "branch_id"
    <3>1. References(r)[col] = <<"cascade", "branches">>
      BY <2>1, <2>3 DEF message_templates, Cascade
    <3>2. Target(r, col) = <<"branches", r[2]>>
      BY <1>1, <1>5, <2>3, <3>1, HomeTarget DEF HomeOf
    <3>3. <<r[1], "branches">> \in Cascades
      BY <1>5 DEF Cascades
    <3>4. QED BY <1>5, <3>1, <3>2, <3>3 DEF Leads
  <2>4. QED BY <2>2, <2>3
<1>6. CASE r[1] = "weather_alert_runs"
  <2>1. References(r) = weather_alert_runs
    BY <1>1, <1>6 DEF OfBranch
  <2>2. col \in {"branch_id"}
    BY <2>1 DEF weather_alert_runs
  <2>3. CASE col = "branch_id"
    <3>1. References(r)[col] = <<"cascade", "branches">>
      BY <2>1, <2>3 DEF weather_alert_runs, Cascade
    <3>2. Target(r, col) = <<"branches", r[2]>>
      BY <1>1, <1>6, <2>3, <3>1, HomeTarget DEF HomeOf
    <3>3. <<r[1], "branches">> \in Cascades
      BY <1>6 DEF Cascades
    <3>4. QED BY <1>6, <3>1, <3>2, <3>3 DEF Leads
  <2>4. QED BY <2>2, <2>3
<1>7. CASE r[1] = "branch_sign_in_passwords"
  <2>1. References(r) = branch_sign_in_passwords
    BY <1>1, <1>7 DEF OfBranch
  <2>2. col \in {"branch_id"}
    BY <2>1 DEF branch_sign_in_passwords
  <2>3. CASE col = "branch_id"
    <3>1. References(r)[col] = <<"cascade", "branches">>
      BY <2>1, <2>3 DEF branch_sign_in_passwords, Cascade
    <3>2. Target(r, col) = <<"branches", r[2]>>
      BY <1>1, <1>7, <2>3, <3>1, HomeTarget DEF HomeOf
    <3>3. <<r[1], "branches">> \in Cascades
      BY <1>7 DEF Cascades
    <3>4. QED BY <1>7, <3>1, <3>2, <3>3 DEF Leads
  <2>4. QED BY <2>2, <2>3
<1>8. CASE r[1] = "expenses"
  <2>1. References(r) = expenses
    BY <1>1, <1>8 DEF OfBranch
  <2>2. col \in {"branch_id", "created_by_user_id"}
    BY <2>1 DEF expenses
  <2>3. CASE col = "branch_id"
    <3>1. References(r)[col] = Restrict("branches")
      BY <2>1, <2>3 DEF expenses
    <3>2. QED BY <3>1, OtherRules DEF Leads
  <2>4. CASE col = "created_by_user_id"
    <3>1. References(r)[col] = SetNull("users")
      BY <2>1, <2>4 DEF expenses
    <3>2. QED BY <3>1, OtherRules DEF Leads
  <2>5. QED BY <2>2, <2>3, <2>4
<1>9. CASE r[1] = "bookkeeping_months"
  <2>1. References(r) = bookkeeping_months
    BY <1>1, <1>9 DEF OfBranch
  <2>2. col \in {"branch_id", "created_by_user_id", "updated_by_user_id"}
    BY <2>1 DEF bookkeeping_months
  <2>3. CASE col = "branch_id"
    <3>1. References(r)[col] = Restrict("branches")
      BY <2>1, <2>3 DEF bookkeeping_months
    <3>2. QED BY <3>1, OtherRules DEF Leads
  <2>4. CASE col = "created_by_user_id"
    <3>1. References(r)[col] = SetNull("users")
      BY <2>1, <2>4 DEF bookkeeping_months
    <3>2. QED BY <3>1, OtherRules DEF Leads
  <2>5. CASE col = "updated_by_user_id"
    <3>1. References(r)[col] = SetNull("users")
      BY <2>1, <2>5 DEF bookkeeping_months
    <3>2. QED BY <3>1, OtherRules DEF Leads
  <2>6. QED BY <2>2, <2>3, <2>4, <2>5
<1>10. CASE r[1] = "bookkeeping_documents"
  <2>1. References(r) = bookkeeping_documents
    BY <1>1, <1>10 DEF OfBranch
  <2>2. col \in {"month_id", "uploaded_by_user_id"}
    BY <2>1 DEF bookkeeping_documents
  <2>3. CASE col = "month_id"
    <3>1. References(r)[col] = <<"cascade", "bookkeeping_months">>
      BY <2>1, <2>3 DEF bookkeeping_documents, Cascade
    <3>2. Target(r, col) = <<"bookkeeping_months", r[2]>>
      BY <1>1, <1>10, <2>3, <3>1, HomeTarget DEF HomeOf
    <3>3. <<r[1], "bookkeeping_months">> \in Cascades
      BY <1>10 DEF Cascades
    <3>4. QED BY <1>10, <3>1, <3>2, <3>3 DEF Leads
  <2>4. CASE col = "uploaded_by_user_id"
    <3>1. References(r)[col] = SetNull("users")
      BY <2>1, <2>4 DEF bookkeeping_documents
    <3>2. QED BY <3>1, OtherRules DEF Leads
  <2>5. QED BY <2>2, <2>3, <2>4
<1>11. QED BY <1>2, <1>3, <1>4, <1>5, <1>6, <1>7, <1>8, <1>9, <1>10 DEF OfBranch

-----------------------------------------------------------------------------
(* A row and the rows that cascade from it. *)
Follows(c, q) ==
  /\ <<c[1], q[1]>> \in Cascades
  /\ q[2] = c[2] \/ q[2] = Nobody \/ (c[1] = "referral" /\ q = <<"customers", ReferrerOf[c[2]]>>)

Kin(q) == {m \in By["cascade"] : m[3] = q}

LEMMA KinFollow == ASSUME NEW q, NEW n \in Kin(q) PROVE n[1] \in Rows /\ Follows(n[1], q)
<1>1. n \in AllReferences /\ n[4] = "cascade" /\ n[3] = q
  BY DEF Kin, By
<1>2. PICK r \in Rows : \E col \in DOMAIN References(r) : n = <<r, col, Target(r, col), References(r)[col][1]>>
  BY <1>1 DEF AllReferences
<1>3. PICK col \in DOMAIN References(r) : n = <<r, col, Target(r, col), References(r)[col][1]>>
  BY <1>2
<1>4. Leads(r, col)
  <2>1. CASE r \in (DOMAIN OfCustomer) \X Customers
    BY <2>1, CustomerLeads
  <2>2. CASE r \in (DOMAIN OfStaff) \X Staff
    BY <2>2, StaffLeads
  <2>3. CASE r \in (DOMAIN OfBranch) \X Branches
    BY <2>3, BranchLeads
  <2>4. QED BY <2>1, <2>2, <2>3 DEF Rows
<1>5. n[1] = r /\ q = Target(r, col) /\ References(r)[col][1] = "cascade"
  BY <1>1, <1>3
<1>6. DEFINE p == References(r)[col][2]
<1>7. <<r[1], p>> \in Cascades /\ (q = <<p, r[2]>> \/ q = <<p, Nobody>> \/ (r[1] = "referral" /\ q = <<"customers", ReferrerOf[r[2]]>>))
  BY <1>4, <1>5 DEF Leads
<1> HIDE DEF p
<1>8. r[1] = "referral" /\ q = <<"customers", ReferrerOf[r[2]]>> => <<r[1], q[1]>> \in Cascades
  BY DEF Cascades
<1>9. QED BY <1>5, <1>7, <1>8 DEF Follows

(* How far down a deletion may go: three steps from a customer, none from  *)
(* a row outside Parents.                                                  *)
Parents == {"customers", "properties", "contracts", "work_orders", "quotes", "invoices", "users", "branches",
            "bookkeeping_months", "meta_conversations"}
Middle == {"customers", "properties", "contracts"}

LEMMA Shallower ==
  ASSUME NEW t, NEW p, <<t, p>> \in Cascades
  PROVE  /\ p \in Parents
         /\ p \notin Middle => t \notin Parents
         /\ p # "customers" => t \notin Middle
         /\ t # "customers"
<1>1. p \in Parents
  BY DEF Cascades, Parents, Middle
<1>2. ASSUME p \notin Middle PROVE t \notin Parents
  BY <1>2 DEF Cascades, Parents, Middle
<1>3. ASSUME p # "customers" PROVE t \notin Middle
  BY <1>3 DEF Cascades, Middle
<1>4. t # "customers"
  BY DEF Cascades
<1>5. QED BY <1>1, <1>2, <1>3, <1>4

(* The rows from which a deletion goes at most so many steps down. *)
At0 == {r \in Rows : r[1] \notin Parents}
At1 == {r \in Rows : r[1] \notin Middle}
At2 == {r \in Rows : r[1] # "customers"}

LEMMA KinBelow ==
  /\ \A r \in At0 : Kin(r) = {}
  /\ \A r \in At1 : \A n \in Kin(r) : n[1] \in At0
  /\ \A r \in At2 : \A n \in Kin(r) : n[1] \in At1
  /\ \A r \in Rows : \A n \in Kin(r) : n[1] \in At2
<1>1. ASSUME NEW r \in Rows, NEW n \in Kin(r)
      PROVE  n[1] \in Rows /\ <<n[1][1], r[1]>> \in Cascades
  BY KinFollow DEF Follows
<1>2. ASSUME NEW r \in At0, NEW n \in Kin(r) PROVE FALSE
  BY <1>1, Shallower DEF At0, At1, At2
<1>3. ASSUME NEW r \in At1, NEW n \in Kin(r) PROVE n[1] \in At0
  BY <1>1, Shallower DEF At0, At1, At2
<1>4. ASSUME NEW r \in At2, NEW n \in Kin(r) PROVE n[1] \in At1
  BY <1>1, Shallower DEF At0, At1, At2
<1>5. ASSUME NEW r \in Rows, NEW n \in Kin(r) PROVE n[1] \in At2
  BY <1>1, Shallower DEF At0, At1, At2
<1>6. QED BY <1>2, <1>3, <1>4, <1>5

With(f, r) == {r} \cup UNION {f[n[1]] : n \in Kin(r)}
Down(f) == [r \in Rows |-> With(f, r)]

LEMMA SameWith ==
  ASSUME NEW f, NEW g, NEW r \in Rows, \A n \in Kin(r) : f[n[1]] = g[n[1]]
  PROVE  Down(f)[r] = Down(g)[r]
BY DEF Down, With

LEMMA BelowExists == \E f : f = Down(f)
<1> DEFINE f1 == Down([r \in Rows |-> {r}])
           f2 == Down(f1)
           f3 == Down(f2)
           f4 == Down(f3)
           f5 == Down(f4)
<1>1. \A r \in At0 : f1[r] = f2[r] /\ f2[r] = f3[r] /\ f3[r] = f4[r]
  <2>1. \A r \in At0 : r \in Rows /\ Kin(r) = {}
    BY KinBelow DEF At0, At1, At2
  <2>2. QED BY <2>1, SameWith
<1>2. \A r \in At1 : f2[r] = f3[r] /\ f3[r] = f4[r]
  <2>1. \A r \in At1 : r \in Rows /\ \A n \in Kin(r) : n[1] \in At0
    BY KinBelow DEF At0, At1, At2
  <2> HIDE DEF f1
  <2>2. QED BY <1>1, <2>1, SameWith
<1>3. \A r \in At2 : f3[r] = f4[r]
  <2>1. \A r \in At2 : r \in Rows /\ \A n \in Kin(r) : n[1] \in At1
    BY KinBelow DEF At0, At1, At2
  <2> HIDE DEF f2
  <2>2. QED BY <1>2, <2>1, SameWith
<1>4. \A r \in Rows : f4[r] = f5[r]
  <2>1. \A r \in Rows : \A n \in Kin(r) : n[1] \in At2
    BY KinBelow
  <2> HIDE DEF f3
  <2>2. QED BY <1>3, <2>1, SameWith
<1>5. f4 = f5
  <2> HIDE DEF f3
  <2>1. f4 = [r \in Rows |-> f4[r]] /\ f5 = [r \in Rows |-> f5[r]]
    BY DEF Down
  <2> HIDE DEF f4, f5
  <2>2. QED BY <1>4, <2>1
<1> HIDE DEF f4
<1>6. QED BY <1>5

LEMMA BelowIs == \A r \in Rows : Below[r] = {r} \cup UNION {Below[n[1]] : n \in Kin(r)}
<1>1. \E f : f = [r \in Rows |-> {r} \cup UNION {f[n[1]] : n \in {m \in By["cascade"] : m[3] = r}}]
  BY BelowExists DEF Down, With, Kin
<1>2. Below = [r \in Rows |-> {r} \cup UNION {Below[n[1]] : n \in {m \in By["cascade"] : m[3] = r}}]
  BY <1>1, Zenon DEF Below
<1>3. QED BY <1>2, Zenon DEF Kin

(* A set that holds all that follows one of its rows holds all below them. *)
LEMMA BelowWithin ==
  ASSUME NEW K, \A c \in Rows, q \in K : Follows(c, q) => c \in K, NEW r \in Rows, r \in K
  PROVE  Below[r] \subseteq K
<1>0. \A q \in K : \A n \in Kin(q) : n[1] \in Rows /\ n[1] \in K
  BY KinFollow
<1>1. \A q \in At0 : q \in K => Below[q] \subseteq K
  BY KinBelow, BelowIs DEF At0
<1>2. \A q \in At1 : q \in K => Below[q] \subseteq K
  <2> SUFFICES ASSUME NEW q \in At1, q \in K PROVE Below[q] \subseteq K
    OBVIOUS
  <2>1. q \in Rows /\ \A n \in Kin(q) : n[1] \in At0
    BY KinBelow DEF At0, At1, At2
  <2>2. \A n \in Kin(q) : Below[n[1]] \subseteq K
    BY <1>0, <1>1, <2>1
  <2>3. QED BY <2>1, <2>2, BelowIs
<1>3. \A q \in At2 : q \in K => Below[q] \subseteq K
  <2> SUFFICES ASSUME NEW q \in At2, q \in K PROVE Below[q] \subseteq K
    OBVIOUS
  <2>1. q \in Rows /\ \A n \in Kin(q) : n[1] \in At1
    BY KinBelow DEF At0, At1, At2
  <2>2. \A n \in Kin(q) : Below[n[1]] \subseteq K
    BY <1>0, <1>2, <2>1
  <2>3. QED BY <2>1, <2>2, BelowIs
<1>4. \A n \in Kin(r) : Below[n[1]] \subseteq K
  <2>1. \A n \in Kin(r) : n[1] \in At2
    BY KinBelow
  <2>2. QED BY <1>0, <1>3, <2>1
<1>5. QED BY <1>4, BelowIs

-----------------------------------------------------------------------------
(* What a deletion of the tables names of x takes. *)
Owners == Customers \cup Staff \cup Branches
Taken(names, x) == rows \cap UNION {Below[<<t, x>>] : t \in names}
Money == {"contracts", "invoices", "payments"}

LEMMA OwnersKnown ==
  /\ Nobody \notin Owners
  /\ \A r \in Rows : r = <<r[1], r[2]>> /\ r[2] \in Owners
  /\ \A r \in Rows : r[1] \in Money \cup {"quotes", "properties", "customers"} => r[2] \in Customers
<1>1. Nobody \notin Owners
  BY RecordsAssumption DEF Owners
<1>2. \A r \in Rows : r = <<r[1], r[2]>> /\ r[2] \in Owners
  BY DEF Rows, Owners
<1>3. ASSUME NEW r \in Rows, r[1] \in Money \cup {"quotes", "properties", "customers"} PROVE r[2] \in Customers
  <2>1. r[1] \notin DOMAIN OfStaff /\ r[1] \notin DOMAIN OfBranch
    BY <1>3 DEF Money, OfStaff, OfBranch
  <2>2. QED BY <2>1 DEF Rows
<1>4. QED BY <1>1, <1>2, <1>3

LEMMA ItselfBelow == \A r \in Rows : r \in Below[r]
BY BelowIs

(* Only what hangs from a customer's own row or an invoice of theirs is    *)
(* another's: the credit somebody was given for referring them.            *)
LEMMA OwnBelow ==
  ASSUME NEW t, NEW x, <<t, x>> \in Rows, NEW r \in Below[<<t, x>>], r \in Rows, r[2] # x
  PROVE  t = "customers" /\ r[1] = "referral" /\ ReferrerOf[r[2]] = x
<1> DEFINE K == {q \in Rows : q[2] = x \/ (q[1] = "referral" /\ ReferrerOf[q[2]] = x)}
           L == {q \in Rows : q[2] = x /\ q[1] # "customers"}
<1>0. x \in Owners /\ x # Nobody
  BY OwnersKnown
<1>1. ASSUME NEW c \in Rows, NEW q \in K, Follows(c, q) PROVE c \in K
  <2>1. <<c[1], q[1]>> \in Cascades /\ q[1] # "referral"
    BY <1>1 DEF Follows, Cascades
  <2>2. q[2] = x
    BY <2>1
  <2>3. QED BY <1>0, <1>1, <2>2 DEF Follows
<1>2. ASSUME NEW c \in Rows, NEW q \in L, Follows(c, q) PROVE c \in L
  <2>1. c[1] # "customers"
    BY <1>2 DEF Follows, Cascades
  <2>2. QED BY <1>0, <1>2, <2>1 DEF Follows
<1>3. r \in K
  <2>1. <<t, x>> \in K
    OBVIOUS
  <2> HIDE DEF K
  <2>2. QED BY <1>1, <2>1, BelowWithin
<1>4. t = "customers"
  <2>1. SUFFICES ASSUME t # "customers" PROVE FALSE
    OBVIOUS
  <2>2. <<t, x>> \in L
    BY <2>1
  <2>3. r \in L
    <3> HIDE DEF L
    <3>1. QED BY <1>2, <2>2, BelowWithin
  <2>4. QED BY <2>3
<1>5. QED BY <1>3, <1>4

LEMMA MoneyBelow ==
  ASSUME NEW t, NEW x, <<t, x>> \in Rows, NEW r \in Below[<<t, x>>], r \in Rows, r[1] \in Money
  PROVE  r = <<t, x>>
<1> DEFINE K == {q \in Rows : q[1] \in Money => q = <<t, x>>}
<1>1. ASSUME NEW c \in Rows, NEW q \in K, Follows(c, q) PROVE c \in K
  <2>1. c[1] \notin Money
    BY <1>1 DEF Follows, Cascades, Money
  <2>2. QED BY <2>1
<1>2. <<t, x>> \in K
  OBVIOUS
<1>3. r \in K
  <2> HIDE DEF K
  <2>1. QED BY <1>1, <1>2, BelowWithin
<1>4. QED BY <1>3

LEMMA HistoryBelow ==
  ASSUME NEW t, NEW x, <<t, x>> \in Rows, t \notin History, NEW r \in Below[<<t, x>>], r \in Rows
  PROVE  r[1] \notin History /\ (r[1] = "lead_pins" \/ t = "lead_pins" => r = <<t, x>>)
<1> DEFINE K == {q \in Rows : q[1] \notin History /\ (q[1] = "lead_pins" \/ t = "lead_pins" => q = <<t, x>>)}
<1>1. ASSUME NEW c \in Rows, NEW q \in K, Follows(c, q) PROVE c \in K
  <2>1. <<c[1], q[1]>> \in Cascades
    BY <1>1 DEF Follows
  <2>2. c[1] \notin History \cup {"lead_pins"} \/ q[1] = "meta_conversations"
    BY <2>1 DEF Cascades, History
  <2>3. q[1] # "meta_conversations"
    BY DEF History
  <2>4. q[1] # "lead_pins"
    BY <2>1 DEF Cascades
  <2>5. t # "lead_pins"
    BY <2>4
  <2>6. QED BY <2>2, <2>3, <2>5
<1>2. <<t, x>> \in K
  OBVIOUS
<1>3. r \in K
  <2> HIDE DEF K
  <2>1. QED BY <1>1, <1>2, BelowWithin
<1>4. QED BY <1>3

(* A quote goes with its property, and a property with its customer. *)
LEMMA KinIs ==
  ASSUME NEW r \in Rows, NEW col \in DOMAIN References(r), References(r)[col][1] = "cascade"
  PROVE  \E n \in Kin(Target(r, col)) : n[1] = r
<1> DEFINE n == <<r, col, Target(r, col), References(r)[col][1]>>
<1>1. n \in AllReferences
  BY DEF AllReferences
<1>2. n \in By["cascade"]
  BY <1>1 DEF By
<1>3. n \in Kin(Target(r, col)) /\ n[1] = r
  BY <1>2 DEF Kin
<1>4. QED BY <1>3

LEMMA QuoteBelow ==
  ASSUME NEW c \in Customers
  PROVE  /\ <<"quotes", c>> \in Below[<<"quotes", c>>]
         /\ <<"quotes", c>> \in Below[<<"properties", c>>]
         /\ <<"quotes", c>> \in Below[<<"customers", c>>]
<1> DEFINE q == <<"quotes", c>>
           p == <<"properties", c>>
           h == <<"customers", c>>
<1>1. q \in Rows /\ p \in Rows /\ h \in Rows
  BY DEF Rows, OfCustomer
<1>2. References(q) = quotes /\ References(p) = properties
  BY DEF References, OfCustomer
<1>3. "property_id" \in DOMAIN References(q) /\ References(q)["property_id"] = <<"cascade", "properties">>
  BY <1>2 DEF quotes, Cascade
<1>4. "customer_id" \in DOMAIN References(p) /\ References(p)["customer_id"] = <<"cascade", "customers">>
  BY <1>2 DEF properties, Cascade
<1>5. Target(q, "property_id") = p
  BY <1>3, PlainTarget
<1>6. Target(p, "customer_id") = h
  BY <1>4, PlainTarget
<1> HIDE DEF q, p, h
<1>7. \E n \in Kin(p) : n[1] = q
  BY <1>1, <1>3, <1>5, KinIs
<1>8. \E n \in Kin(h) : n[1] = p
  BY <1>1, <1>4, <1>6, KinIs
<1>9. q \in Below[q] /\ q \in Below[p]
  BY <1>1, <1>7, BelowIs
<1>10. q \in Below[h]
  BY <1>1, <1>8, <1>9, BelowIs
<1>11. QED BY <1>9, <1>10 DEF q, p, h

-----------------------------------------------------------------------------
(* A customer's payments are of invoices they have, and the invoices of    *)
(* their contract.                                                         *)
PaidForBilled ==
  \A c \in Customers : (Has("payments", c) => Has("invoices", c)) /\ (Has("invoices", c) => Has("contracts", c))

RecordsInv == RecordsTypeOK /\ PaidForBilled /\ NoneStranded

(* What the deletions have in common: the tables named, whose, and by whom. *)
Proper(who, names, x, back) ==
  /\ \A t \in names : <<t, x>> \in Rows /\ t \notin History
  /\ "lead_pins" \in names => names = {"lead_pins"}
  /\ "contracts" \in names => "invoices" \in names /\ (x \in back \/ names \cap {"customers", "properties", "quotes"} # {})
  /\ "invoices" \in names => "payments" \in names
  /\ "customers" \in names => Has("customers", x)
  /\ names \cap Money # {} /\ ~IsCorporate(who) =>
       "customers" \in names /\ (Has("contracts", x) => IsBranchLogin(who) /\ BranchOf[who] = HomeOf(x))

Deletion(who, names, x, back) ==
  /\ by' = who
  /\ rows \ rows' = Taken(names, x)
  /\ rows' \ rows \subseteq {<<"audit_log", who>>}
  /\ presented' = presented \cup back

LEMMA TakenFrom ==
  ASSUME NEW names, NEW x, \A t \in names : <<t, x>> \in Rows, NEW r \in Taken(names, x)
  PROVE  r \in rows /\ \E t \in names : r \in Below[<<t, x>>]
BY DEF Taken

LEMMA NamedTaken ==
  ASSUME NEW names, NEW x, NEW t \in names, <<t, x>> \in Rows, <<t, x>> \in rows
  PROVE  <<t, x>> \in Taken(names, x)
BY ItselfBelow DEF Taken

LEMMA DeletionHistory ==
  ASSUME RecordsTypeOK, NEW who, NEW names, NEW x, NEW back, Proper(who, names, x, back), Deletion(who, names, x, back)
  PROVE  HistoryStays
<1> SUFFICES ASSUME NEW r \in Taken(names, x)
             PROVE  r[1] \notin History /\ (r[1] = "lead_pins" => Taken(names, x) = {r})
  BY DEF HistoryStays, Deletion
<1>1. \A t \in names : <<t, x>> \in Rows /\ t \notin History
  BY DEF Proper
<1>2. \A q \in Taken(names, x) : \E t \in names : q \in Below[<<t, x>>] /\ q \in Rows
  BY <1>1, TakenFrom DEF RecordsTypeOK
<1>3. PICK t \in names : r \in Below[<<t, x>>] /\ r \in Rows
  BY <1>2
<1>4. r[1] \notin History /\ (r[1] = "lead_pins" => r = <<t, x>>)
  BY <1>1, <1>3, HistoryBelow
<1>5. ASSUME r[1] = "lead_pins", NEW q \in Taken(names, x) PROVE q = r
  <2>1. t = "lead_pins" /\ names = {"lead_pins"} /\ r = <<"lead_pins", x>>
    BY <1>4, <1>5 DEF Proper
  <2>2. q \in Below[<<"lead_pins", x>>] /\ q \in Rows
    BY <1>2, <2>1
  <2>3. q = <<"lead_pins", x>>
    BY <1>1, <2>1, <2>2, HistoryBelow
  <2>4. QED BY <2>1, <2>3
<1>6. QED BY <1>4, <1>5

LEMMA DeletionOwn ==
  ASSUME RecordsTypeOK, NEW who, NEW names, NEW x, NEW back, Proper(who, names, x, back), Deletion(who, names, x, back)
  PROVE  KeepsToItsOwn
<1> SUFFICES ASSUME NEW r \in Taken(names, x), NEW s \in Taken(names, x), r[2] # s[2]
             PROVE  \E z \in {r, s} : z[1] = "referral" /\
                      {<<"customers", ReferrerOf[z[2]]>>, <<"invoices", z[2]>>} \cap Taken(names, x) # {}
  BY DEF KeepsToItsOwn, Deletion
<1>1. \A t \in names : <<t, x>> \in Rows
  BY DEF Proper
<1>2. ASSUME NEW q \in Taken(names, x), q[2] # x
      PROVE  q[1] = "referral" /\ <<"customers", ReferrerOf[q[2]]>> \in Taken(names, x)
  <2>1. PICK t \in names : q \in Below[<<t, x>>] /\ q \in Rows
    BY <1>1, TakenFrom DEF RecordsTypeOK
  <2>2. t = "customers" /\ q[1] = "referral" /\ ReferrerOf[q[2]] = x
    BY <1>1, <1>2, <2>1, OwnBelow
  <2>3. <<"customers", x>> \in rows
    BY <2>2 DEF Proper, Has
  <2>4. <<"customers", x>> \in Taken(names, x)
    BY <1>1, <2>2, <2>3, NamedTaken
  <2>5. QED BY <2>2, <2>4
<1>3. r[2] # x \/ s[2] # x
  OBVIOUS
<1>4. QED BY <1>2, <1>3

LEMMA DeletionMoney ==
  ASSUME RecordsTypeOK, PaidForBilled, NEW who, NEW names, NEW x, NEW back,
         Proper(who, names, x, back), Deletion(who, names, x, back)
  PROVE  MoneyGoesByOffice
<1> SUFFICES ASSUME NEW r \in Taken(names, x), r[1] \in Money, ~IsCorporate(who)
             PROVE  IsBranchLogin(who) /\ BranchOf[who] = BranchOf[r[2]] /\ <<"customers", r[2]>> \in Taken(names, x)
  BY DEF MoneyGoesByOffice, Deletion, Money
<1>1. \A t \in names : <<t, x>> \in Rows
  BY DEF Proper
<1>2. PICK t \in names : r \in Below[<<t, x>>] /\ r \in Rows /\ r \in rows
  BY <1>1, TakenFrom DEF RecordsTypeOK
<1>3. r = <<t, x>> /\ t \in Money /\ x \in Customers
  BY <1>1, <1>2, MoneyBelow, OwnersKnown
<1>4. "customers" \in names /\ (Has("contracts", x) => IsBranchLogin(who) /\ BranchOf[who] = HomeOf(x))
  BY <1>3 DEF Proper
<1>5. Has("contracts", x)
  BY <1>2, <1>3 DEF PaidForBilled, Has, Money
<1>6. HomeOf(x) = BranchOf[x]
  BY <1>3, OwnersApart DEF HomeOf
<1>7. <<"customers", x>> \in Taken(names, x)
  BY <1>1, <1>4, NamedTaken DEF Proper, Has
<1>8. QED BY <1>3, <1>4, <1>5, <1>6, <1>7

LEMMA DeletionChain ==
  ASSUME RecordsTypeOK, PaidForBilled, NEW who, NEW names, NEW x, NEW back,
         Proper(who, names, x, back), Deletion(who, names, x, back)
  PROVE  PaidForBilled'
<1> SUFFICES ASSUME NEW c \in Customers
             PROVE  /\ <<"payments", c>> \in rows' => <<"invoices", c>> \in rows'
                    /\ <<"invoices", c>> \in rows' => <<"contracts", c>> \in rows'
  BY Zenon DEF PaidForBilled, Has
<1>1. \A t \in names : <<t, x>> \in Rows
  BY DEF Proper
<1>2. ASSUME NEW t \in Money, <<t, c>> \in rows'
      PROVE  <<t, c>> \in rows
  BY <1>2 DEF Deletion, Money
<1>3. ASSUME NEW t \in Money, <<t, c>> \in rows, <<t, c>> \notin rows'
      PROVE  t \in names /\ x = c
  <2>1. <<t, c>> \in Taken(names, x)
    BY <1>3 DEF Deletion
  <2>2. PICK u \in names : <<t, c>> \in Below[<<u, x>>] /\ <<t, c>> \in Rows
    BY <1>1, <2>1, TakenFrom DEF RecordsTypeOK
  <2>3. <<t, c>> = <<u, x>>
    BY <1>1, <2>2, MoneyBelow
  <2>4. QED BY <2>2, <2>3
<1>4. ASSUME NEW t \in names, x = c PROVE <<t, c>> \notin rows'
  <2>1. <<t, c>> \in rows => <<t, c>> \in Taken(names, x)
    BY <1>1, <1>4, NamedTaken
  <2>2. t # "audit_log"
    BY DEF Proper, History
  <2>3. QED BY <2>1, <2>2 DEF Deletion
<1>5. ASSUME <<"payments", c>> \in rows' PROVE <<"invoices", c>> \in rows'
  <2>1. <<"invoices", c>> \in rows
    BY <1>2, <1>5 DEF PaidForBilled, Has, Money
  <2>2. SUFFICES ASSUME <<"invoices", c>> \notin rows' PROVE FALSE
    OBVIOUS
  <2>3. "invoices" \in names /\ x = c
    BY <1>3, <2>1, <2>2 DEF Money
  <2>4. "payments" \in names
    BY <2>3 DEF Proper
  <2>5. QED BY <1>4, <1>5, <2>3, <2>4
<1>6. ASSUME <<"invoices", c>> \in rows' PROVE <<"contracts", c>> \in rows'
  <2>1. <<"contracts", c>> \in rows
    BY <1>2, <1>6 DEF PaidForBilled, Has, Money
  <2>2. SUFFICES ASSUME <<"contracts", c>> \notin rows' PROVE FALSE
    OBVIOUS
  <2>3. "contracts" \in names /\ x = c
    BY <1>3, <2>1, <2>2 DEF Money
  <2>4. "invoices" \in names
    BY <2>3 DEF Proper
  <2>5. QED BY <1>4, <1>6, <2>3, <2>4
<1>7. QED BY <1>5, <1>6

LEMMA DeletionStrands ==
  ASSUME RecordsTypeOK, NoneStranded, NEW who, NEW names, NEW x, NEW back,
         Proper(who, names, x, back), Deletion(who, names, x, back)
  PROVE  NoneStranded'
<1> SUFFICES ASSUME NEW c \in Customers, <<"quotes", c>> \in rows', c \notin presented'
             PROVE  <<"contracts", c>> \in rows'
  BY DEF NoneStranded, Has
<1>1. \A t \in names : <<t, x>> \in Rows
  BY DEF Proper
<1>2. <<"quotes", c>> \in rows /\ c \notin presented /\ c \notin back
  BY DEF Deletion
<1>3. <<"contracts", c>> \in rows
  BY <1>2 DEF NoneStranded, Has
<1>4. SUFFICES ASSUME <<"contracts", c>> \notin rows' PROVE FALSE
  OBVIOUS
<1>5. "contracts" \in names /\ x = c
  <2>1. <<"contracts", c>> \in Taken(names, x)
    BY <1>3, <1>4 DEF Deletion
  <2>2. PICK u \in names : <<"contracts", c>> \in Below[<<u, x>>] /\ <<"contracts", c>> \in Rows
    BY <1>1, <2>1, TakenFrom DEF RecordsTypeOK
  <2>3. <<"contracts", c>> = <<u, x>>
    BY <1>1, <2>2, MoneyBelow DEF Money
  <2>4. QED BY <2>2, <2>3
<1>6. PICK t \in names : t \in {"customers", "properties", "quotes"}
  BY <1>2, <1>5 DEF Proper
<1>7. <<"quotes", c>> \in Taken(names, x)
  BY <1>2, <1>5, <1>6, QuoteBelow DEF Taken
<1>8. QED BY <1>7 DEF Deletion

LEMMA DeletionHolds ==
  ASSUME RecordsInv, NEW who, NEW names, NEW x, NEW back, Proper(who, names, x, back), Deletion(who, names, x, back)
  PROVE  PaidForBilled' /\ NoneStranded' /\ HistoryStays /\ KeepsToItsOwn /\ MoneyGoesByOffice
BY DeletionHistory, DeletionOwn, DeletionMoney, DeletionChain, DeletionStrands DEF RecordsInv

-----------------------------------------------------------------------------
(* The sequences of tables a deletion names. *)
Purged(c) == IF Has("contracts", c) THEN {"payments", "invoices", "contracts"} ELSE {}

Lists(tables, names) ==
  /\ \A i \in DOMAIN tables : tables[i] \in names
  /\ \A t \in names : \E i \in DOMAIN tables : tables[i] = t

LEMMA ListOne == ASSUME NEW t PROVE Lists(<<t>>, {t})
<1>1. DOMAIN <<t>> = {1} /\ <<t>>[1] = t
  OBVIOUS
<1>2. QED BY <1>1 DEF Lists

LEMMA ListTwo == ASSUME NEW t, NEW u PROVE Lists(<<t, u>>, {t, u})
<1>1. DOMAIN <<t, u>> = {1, 2} /\ <<t, u>>[1] = t /\ <<t, u>>[2] = u
  OBVIOUS
<1>2. QED BY <1>1 DEF Lists

LEMMA ListThree == ASSUME NEW t, NEW u, NEW v PROVE Lists(<<t, u, v>>, {t, u, v})
<1>1. DOMAIN <<t, u, v>> = {1, 2, 3} /\ <<t, u, v>>[1] = t /\ <<t, u, v>>[2] = u /\ <<t, u, v>>[3] = v
  OBVIOUS
<1>2. QED BY <1>1 DEF Lists

LEMMA ListBoth ==
  ASSUME NEW W, NEW s \in Seq(W), NEW z \in Seq(W), NEW A, NEW Y, Lists(s, A), Lists(z, Y)
  PROVE  Lists(s \o z, A \cup Y)
<1>1. s \o z \in Seq(W) /\ Len(s \o z) = Len(s) + Len(z) /\ Len(s) \in Nat /\ Len(z) \in Nat
  OBVIOUS
<1>2. DOMAIN s = 1..Len(s) /\ DOMAIN z = 1..Len(z) /\ DOMAIN (s \o z) = 1..(Len(s) + Len(z))
  BY <1>1
<1>3. ASSUME NEW i \in 1..(Len(s) + Len(z)) PROVE (s \o z)[i] = IF i <= Len(s) THEN s[i] ELSE z[i - Len(s)]
  BY <1>1
<1>4. ASSUME NEW i \in DOMAIN (s \o z) PROVE (s \o z)[i] \in A \cup Y
  <2>1. CASE i <= Len(s)
    BY <1>1, <1>2, <1>3, <2>1 DEF Lists
  <2>2. CASE ~ (i <= Len(s))
    <3>1. i - Len(s) \in 1..Len(z) /\ (s \o z)[i] = z[i - Len(s)]
      BY <1>1, <1>2, <1>3, <2>2
    <3>2. QED BY <1>2, <3>1 DEF Lists
  <2>3. QED BY <2>1, <2>2
<1>5. ASSUME NEW t \in A PROVE \E i \in DOMAIN (s \o z) : (s \o z)[i] = t
  <2>1. PICK i \in DOMAIN s : s[i] = t
    BY DEF Lists
  <2>2. i \in 1..(Len(s) + Len(z)) /\ i <= Len(s)
    BY <1>1, <1>2
  <2>3. (s \o z)[i] = t
    BY <1>3, <2>1, <2>2
  <2>4. QED BY <1>2, <2>2, <2>3
<1>6. ASSUME NEW t \in Y PROVE \E i \in DOMAIN (s \o z) : (s \o z)[i] = t
  <2>1. PICK i \in DOMAIN z : z[i] = t
    BY DEF Lists
  <2>2. i + Len(s) \in 1..(Len(s) + Len(z)) /\ ~ (i + Len(s) <= Len(s)) /\ (i + Len(s)) - Len(s) = i
    BY <1>1, <1>2
  <2>3. (s \o z)[i + Len(s)] = t
    BY <1>3, <2>1, <2>2
  <2>4. QED BY <1>2, <2>2, <2>3
<1>7. QED BY <1>4, <1>5, <1>6 DEF Lists

Named == {"payments", "invoices", "contracts", "customers", "properties", "quotes"}

LEMMA PurgedLists == ASSUME NEW c PROVE PurgeContracts(c) \in Seq(Named) /\ Lists(PurgeContracts(c), Purged(c))
<1>1. CASE Has("contracts", c)
  <2>1. PurgeContracts(c) = <<"payments", "invoices", "contracts">> /\ Purged(c) = {"payments", "invoices", "contracts"}
    BY <1>1 DEF PurgeContracts, Purged
  <2>2. Lists(PurgeContracts(c), Purged(c))
    BY <2>1, ListThree
  <2>3. <<"payments", "invoices", "contracts">> \in Seq(Named)
    BY DEF Named
  <2>4. QED BY <2>1, <2>2, <2>3
<1>2. CASE ~ Has("contracts", c)
  <2>1. PurgeContracts(c) = <<>> /\ Purged(c) = {}
    BY <1>2 DEF PurgeContracts, Purged
  <2>2. QED BY <2>1 DEF Lists
<1>3. QED BY <1>1, <1>2

(* A deletion happens as a whole or not at all. *)
LEMMA CommitIs ==
  ASSUME RecordsTypeOK, NEW who \in Staff, NEW tables, NEW names, Lists(tables, names), NEW x, NEW log, NEW back,
         Commit(who, tables, x, log, back),
         log \subseteq Logged(who), back \subseteq Customers, \A t \in names : <<t, x>> \in Rows /\ t \notin History
  PROVE  /\ RecordsTypeOK'
         /\ (rows' = rows /\ presented' = presented) \/ Deletion(who, names, x, back)
<1> DEFINE gone == Gone(tables, x)
<1>1. /\ by' = who /\ deletes' = deletes + 1 /\ deletes < MaxDeletes
      /\ \/ /\ rows' = (rows \ gone) \cup log
            /\ nulls' = {n \in nulls \cup Naming("setnull", gone) : n[1] \notin gone \cup log}
            /\ presented' = presented \cup back
            /\ UNCHANGED <<active, failed>>
         \/ failed' = TRUE /\ UNCHANGED <<rows, nulls, presented, active>>
  BY DEF Commit
<1>2. gone = Taken(names, x)
  <2>1. {Below[<<tables[i], x>>] : i \in DOMAIN tables} = {Below[<<t, x>>] : t \in names}
    BY DEF Lists
  <2>2. QED BY <2>1 DEF Gone, Taken
<1>3. Logged(who) \subseteq Rows
  BY DEF Logged, Rows, OfStaff
<1>4. Naming("setnull", gone) \subseteq {<<n[1], n[2]>> : n \in By["setnull"]}
  BY DEF Naming
<1>5. gone \subseteq rows
  BY DEF Gone
<1> HIDE DEF gone
<1>6. RecordsTypeOK'
  <2>1. deletes' \in 0..MaxDeletes
    BY <1>1, RecordsAssumption DEF RecordsTypeOK
  <2>2. rows' \subseteq Rows
    BY <1>1, <1>3 DEF RecordsTypeOK
  <2>3. nulls' \subseteq {<<n[1], n[2]>> : n \in By["setnull"]}
    BY <1>1, <1>4 DEF RecordsTypeOK
  <2>4. presented' \subseteq Customers /\ active' \subseteq Customers /\ by' \in Staff \cup {Nobody} /\ failed' \in BOOLEAN
    BY <1>1 DEF RecordsTypeOK
  <2>5. QED BY <2>1, <2>2, <2>3, <2>4 DEF RecordsTypeOK
<1>7. CASE rows' = (rows \ gone) \cup log /\ presented' = presented \cup back
  <2>1. log \cap gone = {}
    <3>1. SUFFICES ASSUME <<"audit_log", who>> \in gone PROVE FALSE
      BY DEF Logged
    <3>2. PICK t \in names : <<"audit_log", who>> \in Below[<<t, x>>]
      BY <1>2, <3>1, TakenFrom
    <3>3. <<"audit_log", who>> \in Rows
      BY <1>3 DEF Logged
    <3>4. <<"audit_log", who>>[1] \notin History
      BY <3>2, <3>3, HistoryBelow
    <3>5. <<"audit_log", who>>[1] = "audit_log"
      OBVIOUS
    <3>6. "audit_log" \in History
      BY DEF History
    <3>7. QED BY <3>4, <3>5, <3>6
  <2>2. log \subseteq {<<"audit_log", who>>}
    BY DEF Logged
  <2>3. rows \ rows' = gone /\ rows' \ rows \subseteq {<<"audit_log", who>>}
    BY <1>5, <1>7, <2>1, <2>2
  <2>4. QED BY <1>1, <1>2, <1>6, <1>7, <2>3 DEF Deletion
<1>8. QED BY <1>1, <1>6, <1>7

-----------------------------------------------------------------------------
(* Each deletion is a proper one. *)
Effect ==
  /\ RecordsTypeOK' /\ PaidForBilled' /\ NoneStranded'
  /\ HistoryStays /\ KeepsToItsOwn /\ MoneyGoesByOffice

LEMMA Kept ==
  ASSUME RecordsInv, RecordsTypeOK', rows' = rows, presented' = presented
  PROVE  Effect
<1>1. rows \ rows' = {}
  OBVIOUS
<1>2. PaidForBilled' /\ NoneStranded'
  BY DEF RecordsInv, PaidForBilled, NoneStranded, Has
<1>3. HistoryStays /\ KeepsToItsOwn /\ MoneyGoesByOffice
  BY <1>1 DEF HistoryStays, KeepsToItsOwn, MoneyGoesByOffice
<1>4. QED BY <1>2, <1>3 DEF Effect

LEMMA CommitHolds ==
  ASSUME RecordsInv, NEW who \in Staff, NEW tables, NEW names, Lists(tables, names), NEW x, NEW log, NEW back,
         Commit(who, tables, x, log, back), log \subseteq Logged(who), back \subseteq Customers,
         Proper(who, names, x, back)
  PROVE  Effect
<1>1. RecordsTypeOK
  BY DEF RecordsInv
<1>2. \A t \in names : <<t, x>> \in Rows /\ t \notin History
  BY DEF Proper
<1>3. RecordsTypeOK' /\ ((rows' = rows /\ presented' = presented) \/ Deletion(who, names, x, back))
  BY <1>1, <1>2, CommitIs
<1>4. CASE rows' = rows /\ presented' = presented
  BY <1>3, <1>4, Kept
<1>5. CASE Deletion(who, names, x, back)
  BY <1>3, <1>5, DeletionHolds DEF Effect
<1>6. QED BY <1>3, <1>4, <1>5

LEMMA CustomerRows ==
  ASSUME NEW c \in Customers
  PROVE  \A t \in Named \cup {"lead_pins", "work_orders"} : <<t, c>> \in Rows /\ t \notin History
<1>1. Named \cup {"lead_pins", "work_orders"} \subseteq DOMAIN OfCustomer
  BY DEF Named, OfCustomer
<1>2. \A t \in Named \cup {"lead_pins", "work_orders"} : t \notin History
  BY DEF Named, History
<1>3. QED BY <1>1, <1>2 DEF Rows

(* What deleting table t of a customer names, after their contract. *)
LEMMA PurgeFirst ==
  ASSUME NEW c, NEW z \in Seq(Named), NEW Y, Lists(z, Y)
  PROVE  Lists(PurgeContracts(c) \o z, Purged(c) \cup Y)
BY PurgedLists, ListBoth

LEMMA NextHolds == ASSUME RecordsInv, Next PROVE Effect
<1>1. ASSUME NEW who \in Staff, NEW c \in Customers, DeleteCustomer(who, c) PROVE Effect
  <2> DEFINE names == Purged(c) \cup {"payments", "invoices", "customers"}
  <2>1. /\ InScope(who, c) /\ Has("customers", c)
        /\ Has("contracts", c) => IsCorporate(who) \/ IsBranchLogin(who)
        /\ Commit(who, PurgeContracts(c) \o <<"payments", "invoices", "customers">>, c, Logged(who), {})
    BY <1>1 DEF DeleteCustomer
  <2>2. <<"payments", "invoices", "customers">> \in Seq(Named)
    BY DEF Named
  <2>3. Lists(PurgeContracts(c) \o <<"payments", "invoices", "customers">>, names)
    BY <2>2, ListThree, PurgeFirst
  <2>4. names \subseteq Named
    BY DEF Purged, Named
  <2>5. Proper(who, names, c, {})
    <3>1. \A t \in names : <<t, c>> \in Rows /\ t \notin History
      BY <2>4, CustomerRows
    <3>2. "lead_pins" \notin names
      BY <2>4 DEF Named
    <3>3. QED BY <2>1, <3>1, <3>2 DEF Proper, InScope
  <2> HIDE DEF names
  <2>6. QED BY <2>1, <2>3, <2>5, CommitHolds
<1>2. ASSUME NEW who \in Staff, NEW c \in Customers, DeleteProperty(who, c) PROVE Effect
  <2> DEFINE names == Purged(c) \cup {"properties"}
  <2>1. /\ Has("contracts", c) => IsCorporate(who)
        /\ Commit(who, PurgeContracts(c) \o <<"properties">>, c, Logged(who), {})
    BY <1>2 DEF DeleteProperty
  <2>2. <<"properties">> \in Seq(Named)
    BY DEF Named
  <2>3. Lists(PurgeContracts(c) \o <<"properties">>, names)
    BY <2>2, ListOne, PurgeFirst
  <2>4. names \subseteq Named
    BY DEF Purged, Named
  <2>5. Proper(who, names, c, {})
    <3>1. \A t \in names : <<t, c>> \in Rows /\ t \notin History
      BY <2>4, CustomerRows
    <3>2. "lead_pins" \notin names /\ "customers" \notin names
      BY <2>4 DEF Named, Purged
    <3>3. QED BY <2>1, <3>1, <3>2 DEF Proper, Purged, Money
  <2> HIDE DEF names
  <2>6. QED BY <2>1, <2>3, <2>5, CommitHolds
<1>3. ASSUME NEW who \in Staff, NEW c \in Customers, DeleteQuote(who, c) PROVE Effect
  <2> DEFINE names == Purged(c) \cup {"quotes"}
  <2>1. /\ Has("contracts", c) => IsCorporate(who)
        /\ Commit(who, PurgeContracts(c) \o <<"quotes">>, c, Logged(who), {})
    BY <1>3 DEF DeleteQuote
  <2>2. <<"quotes">> \in Seq(Named)
    BY DEF Named
  <2>3. Lists(PurgeContracts(c) \o <<"quotes">>, names)
    BY <2>2, ListOne, PurgeFirst
  <2>4. names \subseteq Named
    BY DEF Purged, Named
  <2>5. Proper(who, names, c, {})
    <3>1. \A t \in names : <<t, c>> \in Rows /\ t \notin History
      BY <2>4, CustomerRows
    <3>2. "lead_pins" \notin names /\ "customers" \notin names
      BY <2>4 DEF Named, Purged
    <3>3. QED BY <2>1, <3>1, <3>2 DEF Proper, Purged, Money
  <2> HIDE DEF names
  <2>6. QED BY <2>1, <2>3, <2>5, CommitHolds
<1>4. ASSUME NEW who \in Staff, NEW c \in Customers, DeleteContract(who, c) PROVE Effect
  <2>1. IsCorporate(who) /\ Commit(who, PurgeContracts(c), c, Logged(who), {c})
    BY <1>4 DEF DeleteContract
  <2>2. Lists(PurgeContracts(c), Purged(c)) /\ Purged(c) \subseteq Named
    BY PurgedLists DEF Purged, Named
  <2>3. Proper(who, Purged(c), c, {c})
    <3>1. \A t \in Purged(c) : <<t, c>> \in Rows /\ t \notin History
      BY <2>2, CustomerRows
    <3>2. QED BY <2>1, <3>1 DEF Proper, Purged
  <2>4. QED BY <2>1, <2>2, <2>3, CommitHolds
<1>5. ASSUME NEW who \in Staff, NEW c \in Customers, DeleteInvoice(who, c) PROVE Effect
  <2>1. IsCorporate(who) /\ Commit(who, <<"payments", "invoices">>, c, Logged(who), {})
    BY <1>5 DEF DeleteInvoice
  <2>2. Proper(who, {"payments", "invoices"}, c, {})
    <3>1. \A t \in {"payments", "invoices"} : <<t, c>> \in Rows /\ t \notin History
      BY CustomerRows DEF Named
    <3>2. QED BY <2>1, <3>1 DEF Proper
  <2>3. QED BY <2>1, <2>2, ListTwo, CommitHolds
<1>6. ASSUME NEW who \in Staff, NEW c \in Customers, DeleteWorkOrder(who, c) PROVE Effect
  <2>1. IsCorporate(who) /\ Commit(who, <<"work_orders">>, c, Logged(who), {})
    BY <1>6 DEF DeleteWorkOrder
  <2>2. Proper(who, {"work_orders"}, c, {})
    <3>1. <<"work_orders", c>> \in Rows /\ "work_orders" \notin History
      BY CustomerRows
    <3>2. QED BY <2>1, <3>1 DEF Proper
  <2>3. QED BY <2>1, <2>2, ListOne, CommitHolds
<1>7. ASSUME NEW who \in Staff, NEW u \in Staff, DeleteUser(who, u) PROVE Effect
  <2>1. IsCorporate(who) /\ Commit(who, <<"users">>, u, Logged(who), {})
    BY <1>7 DEF DeleteUser
  <2>2. Proper(who, {"users"}, u, {})
    <3>1. <<"users", u>> \in Rows /\ "users" \notin History
      BY DEF Rows, OfStaff, History
    <3>2. QED BY <2>1, <3>1 DEF Proper
  <2>3. QED BY <2>1, <2>2, ListOne, CommitHolds
<1>8. ASSUME NEW who \in Staff, NEW c \in Customers, DeletePin(who, c) PROVE Effect
  <2>1. Commit(who, <<"lead_pins">>, c, {}, {})
    BY <1>8 DEF DeletePin
  <2>2. Proper(who, {"lead_pins"}, c, {})
    <3>1. <<"lead_pins", c>> \in Rows /\ "lead_pins" \notin History
      BY CustomerRows
    <3>2. QED BY <3>1 DEF Proper, Money
  <2>3. QED BY <2>1, <2>2, ListOne, CommitHolds
<1>9. ASSUME NEW who \in Staff, NEW b \in Branches,
             NEW t \in {"expenses", "bookkeeping_documents", "bookkeeping_months"}, DeleteBooks(who, t, b)
      PROVE  Effect
  <2>1. Commit(who, <<t>>, b, Logged(who), {})
    BY <1>9 DEF DeleteBooks
  <2>2. Proper(who, {t}, b, {})
    <3>1. <<t, b>> \in Rows /\ t \notin History
      BY DEF Rows, OfBranch, History
    <3>2. t \notin Money \cup {"customers", "lead_pins"}
      BY DEF Money
    <3>3. QED BY <3>1, <3>2 DEF Proper, Money
  <2>3. QED BY <2>1, <2>2, ListOne, CommitHolds
<1>10. QED BY <1>1, <1>2, <1>3, <1>4, <1>5, <1>6, <1>7, <1>8, <1>9 DEF Next

-----------------------------------------------------------------------------
LEMMA FirstRows ==
  ASSUME Init
  PROVE  /\ rows \subseteq Rows
         /\ \A c \in Customers : <<"payments", c>> \in rows => <<"invoices", c>> \in rows
         /\ \A c \in Customers : <<"invoices", c>> \in rows => <<"contracts", c>> \in rows
<1>1. PICK stage \in [Customers -> Stages] :
        rows = (UNION {World(c, stage[c]) : c \in Customers})
               \cup ((DOMAIN OfStaff \ {"audit_log"}) \X Staff) \cup ((DOMAIN OfBranch) \X Branches)
  BY DEF Init
<1> DEFINE worlds == UNION {World(c, stage[c]) : c \in Customers}
           own == (DOMAIN OfStaff \ {"audit_log"}) \X Staff
           offices == (DOMAIN OfBranch) \X Branches
           shared == own \cup offices
<1>0. rows = worlds \cup shared
  <2>1. rows = worlds \cup own \cup offices
    BY <1>1
  <2> HIDE DEF worlds, own, offices
  <2>2. QED BY <2>1
<1>2. Quoted \subseteq DOMAIN OfCustomer /\ Signed \subseteq DOMAIN OfCustomer
      /\ Quoted \cap Money = {} /\ Signed \cap Money = {"contracts", "invoices"}
  BY DEF Signed, Quoted, Lead, OfCustomer, Money
<1>3. \A tables \in Stages :
        /\ tables \subseteq DOMAIN OfCustomer
        /\ "payments" \in tables => "invoices" \in tables
        /\ "invoices" \in tables => "contracts" \in tables
  <2>1. Lead \subseteq DOMAIN OfCustomer /\ Lead \cap Money = {}
    BY DEF Lead, OfCustomer, Money
  <2>2. Asked \subseteq DOMAIN OfCustomer /\ Asked \cap Money = {}
    BY <1>2 DEF Asked, OfCustomer, Money
  <2>3. Served \subseteq DOMAIN OfCustomer /\ Served \cap Money = Money
    BY <1>2 DEF Served, OfCustomer, Money
  <2>4. "signing_requests" \in DOMAIN OfCustomer /\ "signing_requests" \notin Money
    BY DEF OfCustomer, Money
  <2>5. QED BY <1>2, <2>1, <2>2, <2>3, <2>4 DEF Stages, Money
<1>4. ASSUME NEW c \in Customers, NEW r \in World(c, stage[c])
      PROVE  r[2] = c /\ r = <<r[1], r[2]>> /\ (r[1] \in stage[c] \/ r[1] = "referral")
  BY DEF World
<1>5. ASSUME NEW c \in Customers, NEW t \in Money
      PROVE  <<t, c>> \in rows <=> t \in stage[c]
  <2>1. t \notin DOMAIN OfStaff /\ t \notin DOMAIN OfBranch /\ t # "referral"
    BY DEF Money, OfStaff, OfBranch
  <2>2. ASSUME <<t, c>> \in rows PROVE t \in stage[c]
    <3>1. PICK d \in Customers : <<t, c>> \in World(d, stage[d])
      <4>1. <<t, c>> \notin shared
        BY <2>1
      <4>2. <<t, c>> \in worlds
        BY <1>0, <2>2, <4>1
      <4>3. QED BY <4>2
    <3>2. QED BY <1>4, <2>1, <3>1
  <2>3. ASSUME t \in stage[c] PROVE <<t, c>> \in rows
    <3>1. <<t, c>> \in World(c, stage[c])
      BY <2>3 DEF World
    <3>2. <<t, c>> \in worlds
      BY <3>1
    <3>3. QED BY <1>0, <3>2
  <2>4. QED BY <2>2, <2>3
<1>6. rows \subseteq Rows
  <2>1. ASSUME NEW c \in Customers PROVE World(c, stage[c]) \subseteq Rows
    <3>1. stage[c] \subseteq DOMAIN OfCustomer /\ "referral" \in DOMAIN OfCustomer
      BY <1>3 DEF OfCustomer
    <3>2. QED BY <3>1 DEF World, Rows
  <2>2. shared \subseteq Rows
    BY DEF Rows
  <2>3. worlds \subseteq Rows
    BY <2>1
  <2> HIDE DEF worlds, shared
  <2>4. QED BY <1>0, <2>2, <2>3
<1>7. QED BY <1>3, <1>5, <1>6 DEF Money

LEMMA FirstRecords == Init => RecordsInv
<1> SUFFICES ASSUME Init PROVE RecordsInv
  OBVIOUS
<1>1. RecordsTypeOK
  <2>1. nulls \subseteq {<<n[1], n[2]>> : n \in By["setnull"]}
    BY DEF Init, Unset
  <2>2. presented \subseteq Customers /\ active \subseteq Customers /\ by = Nobody /\ failed = FALSE /\ deletes = 0
    BY DEF Init
  <2>3. deletes \in 0..MaxDeletes
    BY <2>2, RecordsAssumption
  <2>4. QED BY <2>1, <2>2, <2>3, FirstRows DEF RecordsTypeOK
<1>2. PaidForBilled
  BY FirstRows, Zenon DEF PaidForBilled, Has
<1>3. NoneStranded
  BY DEF Init, NoneStranded, Has
<1>4. QED BY <1>1, <1>2, <1>3 DEF RecordsInv

(* A step of the records, one that changes nothing included. *)
LEMMA RecordsStep == RecordsInv /\ [Next]_vars => RecordsInv' /\ HistoryStays /\ KeepsToItsOwn /\ MoneyGoesByOffice
<1> SUFFICES ASSUME RecordsInv, [Next]_vars
             PROVE  RecordsInv' /\ HistoryStays /\ KeepsToItsOwn /\ MoneyGoesByOffice
  OBVIOUS
<1>1. Effect
  <2>1. CASE Next
    BY <2>1, NextHolds
  <2>2. CASE UNCHANGED vars
    <3>1. RecordsTypeOK'
      BY <2>2 DEF vars, RecordsInv, RecordsTypeOK
    <3>2. rows' = rows /\ presented' = presented
      BY <2>2 DEF vars
    <3>3. QED BY <3>1, <3>2, Kept
  <2>3. QED BY <2>1, <2>2
<1>2. QED BY <1>1 DEF Effect, RecordsInv

-----------------------------------------------------------------------------
(* The assumptions of the office are those of its components. *)
LEMMA TabsSound ==
  /\ BillDue \in Nat \ {0} /\ Answers \subseteq P!ChargeAnswers /\ MaxFaults \in Nat
  /\ {} \cap (Tabs \cup {} \cup Refunders \cup Handlers) = {}
  /\ Tabs \cap ({} \cup Refunders \cup Handlers) = {}
  /\ {} \cap (Refunders \cup Handlers) = {}
  /\ Refunders \cap Handlers = {}
BY OfficePaymentsAssumption DEF P!ChargeAnswers

LEMMA BillsSound ==
  ASSUME NEW b, BillingSound(b)
  PROVE  /\ IsFiniteSet(b.contracts)
         /\ b.ownerOf \in [b.contracts -> Payers]
         /\ b.referrerOf \in [b.contracts -> Payers \cup {NoReferrer}]
         /\ NoReferrer \notin Payers
         /\ b.agreements \subseteq b.contracts
         /\ {} \subseteq b.contracts \ b.agreements
         /\ b.months \in Nat /\ b.tries \in Nat \ {0} /\ Price \in Nat \ {0} /\ Reward \in Nat
         /\ 0 \in Nat /\ b.moves \in Nat
BY OfficeBillingAssumption DEF BillingSound

(* Each instance has its own IsFiniteSet. *)
LEMMA FiniteAlike ==
  ASSUME NEW Z
  PROVE  IsFiniteSet(Z) => B!IsFiniteSet(Z) /\ C!IsFiniteSet(Z) /\ D!IsFiniteSet(Z)
BY DEF IsFiniteSet, B!IsFiniteSet, C!IsFiniteSet, D!IsFiniteSet

LEMMA AllBillsSound == BillingSound(Plain) /\ BillingSound(Crossed) /\ BillingSound(Shared)
BY OfficeBillingAssumption

-----------------------------------------------------------------------------
(* Numbers and sums, as billing has them. *)
LEMMA Least ==
  ASSUME NEW T \in SUBSET Nat, T # {}
  PROVE  \E n \in T : \A m \in T : n <= m
BY AllBillsSound, BillsSound, FiniteAlike, B!Least

LEMMA Climb ==
  ASSUME NEW T \in SUBSET Nat, 0 \in T, \A n \in T : n + 1 \in T
  PROVE  T = Nat
BY AllBillsSound, BillsSound, FiniteAlike, B!Climb

LEMMA NoneIsFinite == B!IsFiniteSet({})
BY AllBillsSound, BillsSound, FiniteAlike, B!FS_EmptySet

LEMMA FirstIn == ASSUME NEW s, s # {} PROVE B!First(s) \in s
BY DEF B!First

LEMMA WalkExists ==
  ASSUME NEW Z, B!IsFiniteSet(Z), NEW f
  PROVE  \E g : B!Walk(f, g, SUBSET Z)
BY AllBillsSound, BillsSound, FiniteAlike, B!WalkExists

LEMMA WalkUnique ==
  ASSUME NEW Z, B!IsFiniteSet(Z), NEW f, NEW g, B!Walk(f, g, SUBSET Z), NEW h, B!Walk(f, h, SUBSET Z)
  PROVE  \A s \in SUBSET Z : g[s] = h[s]
BY AllBillsSound, BillsSound, FiniteAlike, B!WalkUnique

LEMMA TallyIsWalk ==
  ASSUME NEW Z, B!IsFiniteSet(Z), NEW f
  PROVE  \E g : B!Walk(f, g, SUBSET Z) /\ B!Tally(f, Z) = g[Z]
BY AllBillsSound, BillsSound, FiniteAlike, B!TallyIsWalk

LEMMA TallyNothing ==
  ASSUME NEW Z, B!IsFiniteSet(Z), NEW f, \A x \in Z : f[x] = 0
  PROVE  B!Tally(f, Z) = 0
BY AllBillsSound, BillsSound, FiniteAlike, B!TallyNothing

LEMMA TallyMore ==
  ASSUME NEW A, B!IsFiniteSet(A), NEW f, \A y \in A : f[y] \in Nat,
         NEW K \in Nat, NEW E, B!AllNew(E, K, A), NEW a \in Nat, NEW r \in Nat, B!Equal(f, E, K, a, r),
         NEW v \in Nat, v = a + K * r
  PROVE  /\ B!IsFiniteSet(A \cup B!Them(E, K))
         /\ B!Tally(f, A) \in Nat
         /\ B!Grows(f, A, B!Them(E, K), v)
BY AllBillsSound, BillsSound, FiniteAlike, B!TallyMore

-----------------------------------------------------------------------------
(* Numbers that the schedule divides. *)
LEMMA DivisionOf ==
  ASSUME NEW d \in Nat, NEW n \in Nat \ {0}
  PROVE  /\ d \div n \in Nat
         /\ (d \div n) * n <= d
         /\ d < (d \div n) * n + n
<1>1. d \div n \in Nat
  OBVIOUS
<1>2. (d \div n) * n <= d
  OBVIOUS
<1>3. d < (d \div n) * n + n
  OBVIOUS
<1>4. QED BY <1>1, <1>2, <1>3

LEMMA ProductIn == \A a, b \in Nat : a * b \in Nat
OBVIOUS

LEMMA Between ==
  ASSUME NEW a \in Nat, NEW b \in Nat, NEW m \in Nat, a <= b
  PROVE  a * m <= b * m
<1>1. PICK k \in Nat : b = a + k
  <2>1. b - a \in Nat /\ b = a + (b - a)
    OBVIOUS
  <2>2. QED BY <2>1
<1>2. b * m = a * m + k * m /\ k * m \in Nat /\ a * m \in Nat
  BY <1>1, ProductIn
<1>3. QED BY <1>2

LEMMA Instalment ==
  ASSUME NEW d \in Nat, NEW n \in Nat \ {0}
  PROVE  /\ d - (d \div n) * (n - 1) \in Nat
         /\ (d - (d \div n) * (n - 1)) + (n - 1) * (d \div n) = d
<1> DEFINE q == d \div n
<1>1. q \in Nat /\ q * n <= d
  BY DivisionOf
<1> HIDE DEF q
<1>2. q * (n - 1) = q * n - q /\ q * n \in Nat /\ (n - 1) * q = q * (n - 1)
  BY <1>1, ProductIn
<1>3. QED BY <1>1, <1>2 DEF q

LEMMA DaysAre ==
  ASSUME NEW s \in Nat
  PROVE  S!StartOf(s) \in Nat
<1>1. SeasonStart * MonthDays \in Nat /\ S!YearDays \in Nat /\ s * S!YearDays \in Nat
  BY OfficeScheduleAssumption, ProductIn DEF S!YearDays
<1>2. QED BY <1>1 DEF S!StartOf

LEMMA FirstOfMonthIs ==
  ASSUME NEW d \in Nat, NEW i \in Nat
  PROVE  S!FirstOfMonth(d, i) \in Nat
<1>1. d \div MonthDays + i \in Nat /\ MonthDays \in Nat
  BY OfficeScheduleAssumption, DivisionOf
<1>2. QED BY <1>1, ProductIn DEF S!FirstOfMonth

LEMMA DueOnIs ==
  ASSUME NEW t \in S!Terms, NEW s \in Nat, NEW i \in Nat
  PROVE  S!FirstDue(t, s) \in Nat /\ S!DueOn(t, s, i) \in Nat
<1>1. S!FirstDue(t, s) \in Nat
  BY DaysAre DEF S!FirstDue, S!Later, S!Terms
<1>2. QED BY <1>1, FirstOfMonthIs DEF S!DueOn

LEMMA PaymentsAre ==
  ASSUME NEW t \in S!Terms
  PROVE  S!FirstPayment(t) \in Nat /\ S!RecurringPayment(t) \in Nat
<1>1. t.net \in Nat /\ t.n \in Nat \ {0} /\ t.seasons \in Nat
  BY OfficeScheduleAssumption DEF S!Terms
<1>2. t.net - (t.net \div t.n) * (t.n - 1) \in Nat /\ t.net * t.seasons \in Nat /\ t.net \div t.n \in Nat
  BY <1>1, Instalment, ProductIn, DivisionOf
<1>3. QED BY <1>1, <1>2 DEF S!FirstPayment, S!RecurringPayment

LEMMA EntriesAre ==
  ASSUME NEW t \in S!Terms, NEW s \in Nat, NEW e \in S!SeasonEntries(t, s)
  PROVE  e[1] \in Nat /\ e[2] \in Nat /\ e[3] = S!TaxOn(e[2]) /\ e[4] = s
<1>1. t.net \in Nat /\ t.n \in Nat \ {0} /\ t.signed \in Nat /\ t.kind \in S!Kinds /\ t.seasons \in Nat
  BY OfficeScheduleAssumption DEF S!Terms
<1>2. SUFFICES \E due, amount \in Nat : e = S!Entry(s, due, amount)
  BY DEF S!Entry
<1>3. CASE t.kind = "seasonal_installments"
  <2>1. PICK i \in 0..(t.n - 1) : e = S!Entry(s, S!DueOn(t, s, i), IF i = 0 THEN S!FirstPayment(t) ELSE S!RecurringPayment(t))
    BY <1>3 DEF S!SeasonEntries
  <2>4. i \in Nat
    BY <1>1
  <2>2. S!DueOn(t, s, i) \in Nat /\ S!FirstPayment(t) \in Nat /\ S!RecurringPayment(t) \in Nat
    BY <2>4, DueOnIs, PaymentsAre
  <2>3. QED BY <2>1, <2>2
<1>4. CASE t.kind = "seasonal_yia"
  <2>1. e = S!Entry(s, t.signed, S!FirstPayment(t)) \/ e = S!Entry(s, S!StartOf(s), t.net)
    BY <1>4 DEF S!SeasonEntries
  <2>2. QED BY <1>1, <2>1, DaysAre, PaymentsAre
<1>5. CASE t.kind = "monthly_recurring"
  <2>1. PICK i \in 0..(SeasonMonths - 1) : e = S!Entry(s, S!DueOn(t, s, i), t.net)
    BY <1>5 DEF S!SeasonEntries
  <2>2. i \in Nat
    BY OfficeScheduleAssumption
  <2>3. QED BY <1>1, <2>1, <2>2, DueOnIs
<1>6. CASE t.kind = "monthly_one_time"
  <2>1. e = S!Entry(s, S!FirstDue(t, 0), S!FirstPayment(t))
    BY <1>6 DEF S!SeasonEntries
  <2>2. QED BY <2>1, DueOnIs, PaymentsAre
<1>7. QED BY <1>1, <1>3, <1>4, <1>5, <1>6 DEF S!Kinds

LEMMA DueIs ==
  ASSUME NEW t \in S!Terms, NEW d \in Nat, NEW e \in S!Due(t, d)
  PROVE  e[1] \in 0..d /\ e[2] \in Nat /\ e[3] = S!TaxOn(e[2])
<1> DEFINE last == IF S!Renews(t) THEN MaxSeason ELSE t.seasons - 1
<1>1. PICK s \in 0..last : e \in S!SeasonEntries(t, s) /\ e[1] <= d
  BY DEF S!Due
<1>2. s \in Nat
  BY <1>1
<1> HIDE DEF last
<1>3. QED BY <1>1, <1>2, EntriesAre

LEMMA ScheduleTyped == S!Spec => []S!ScheduleTypeOK
<1>1. ASSUME S!Init PROVE S!ScheduleTypeOK
  BY <1>1, OfficeScheduleAssumption DEF S!Init, S!ScheduleTypeOK
<1>2. ASSUME S!ScheduleTypeOK, [S!Next]_(S!scheduleVars) PROVE S!ScheduleTypeOK'
  <2>1. CASE S!Sign
    <3>1. PICK kind \in S!Kinds, n \in Installments, seasons \in Seasons, price \in Prices, discount \in Discounts, renews \in BOOLEAN :
            /\ discount <= price
            /\ scheduleTerms' = [kind |-> kind, n |-> n, net |-> price - discount, signed |-> scheduleToday, renews |-> renews,
                         seasons |-> IF kind \in {"seasonal_installments", "seasonal_yia"} THEN seasons ELSE 1]
      BY <2>1 DEF S!Sign
    <3>2. price - discount \in Nat /\ scheduleToday \in Nat /\ 1 \in Seasons
      BY <1>2, <3>1, OfficeScheduleAssumption DEF S!ScheduleTypeOK
    <3>3. scheduleTerms' \in S!Terms
      BY <3>1, <3>2 DEF S!Terms
    <3>4. QED BY <1>2, <2>1, <3>3 DEF S!ScheduleTypeOK, S!Sign
  <2>2. CASE S!NextDay
    BY <1>2, <2>2, OfficeScheduleAssumption DEF S!ScheduleTypeOK, S!NextDay
  <2>3. CASE S!RaiseScheduled
    <3>1. scheduleTerms \in S!Terms /\ scheduleToday \in 0..LastDay /\ scheduleToday \in Nat /\ scheduleAsOf \in 0..scheduleToday
      BY <1>2, <2>3, OfficeScheduleAssumption DEF S!ScheduleTypeOK, S!RaiseScheduled
    <3>2. ASSUME NEW b \in scheduleBills' PROVE b[1] \in 0..scheduleToday /\ b[2] \in Nat /\ b[3] = (b[2] * Rate + 5) \div 10
      <4>1. b \in scheduleBills \/ b \in S!Due(scheduleTerms, scheduleToday)
        BY <2>3 DEF S!RaiseScheduled
      <4>2. CASE b \in scheduleBills
        BY <1>2, <3>1, <4>2 DEF S!ScheduleTypeOK
      <4>3. CASE b \in S!Due(scheduleTerms, scheduleToday)
        BY <3>1, <4>3, DueIs DEF S!TaxOn
      <4>4. QED BY <4>1, <4>2, <4>3
    <3>3. scheduleToday' = scheduleToday /\ scheduleTerms' = scheduleTerms /\ scheduleAsOf' = scheduleToday
      BY <2>3 DEF S!RaiseScheduled
    <3>4. QED BY <1>2, <3>1, <3>2, <3>3 DEF S!ScheduleTypeOK
  <2>4. CASE UNCHANGED S!scheduleVars
    BY <1>2, <2>4 DEF S!ScheduleTypeOK, S!scheduleVars
  <2>5. QED BY <1>2, <2>1, <2>2, <2>3, <2>4 DEF S!Next
<1>3. QED BY <1>1, <1>2, PTL DEF S!Spec

-----------------------------------------------------------------------------
(* Terms as customers sign them, and those of them whose payments keep     *)
(* apart, which finding schedule_late's do not.                            *)
ProperTerms(t) == t \in S!Terms /\ (t.kind \in {"monthly_recurring", "monthly_one_time"} => t.seasons = 1)
SignedTerms(t) == ProperTerms(t) /\ S!KeepsApart(t)

(* The first month of a season, and the month a day is in. *)
MonthOf(s) == SeasonStart + s * YearMonths
InMonth(d) == d \div MonthDays
FirstMonth(t, s) == InMonth(S!FirstDue(t, s))

LEMMA Distributes == \A a, b, m \in Nat : (a + b) * m = a * m + b * m
OBVIOUS

LEMMA Associates == \A a, b, m \in Nat : a * (m * b) = (a * b) * m
OBVIOUS

LEMMA MonthsAre ==
  ASSUME NEW s \in Nat
  PROVE  /\ MonthOf(s) \in Nat
         /\ S!StartOf(s) = MonthOf(s) * MonthDays
         /\ MonthOf(s + 1) = MonthOf(s) + YearMonths
<1> USE OfficeScheduleAssumption
<1>1. s * YearMonths \in Nat /\ (s + 1) * YearMonths = s * YearMonths + 1 * YearMonths /\ 1 * YearMonths = YearMonths
  BY ProductIn, Distributes
<1>2. MonthOf(s) * MonthDays = SeasonStart * MonthDays + (s * YearMonths) * MonthDays
  BY <1>1, Distributes DEF MonthOf
<1>3. s * (MonthDays * YearMonths) = (s * YearMonths) * MonthDays
  BY Associates
<1>4. QED BY <1>1, <1>2, <1>3 DEF S!StartOf, S!YearDays, MonthOf

LEMMA MonthsGrow ==
  ASSUME NEW r \in Nat, NEW s \in Nat, r < s
  PROVE  MonthOf(r) + YearMonths <= MonthOf(s)
<1>1. (r + 1) * YearMonths <= s * YearMonths /\ (r + 1) * YearMonths \in Nat /\ s * YearMonths \in Nat
  BY Between, ProductIn, OfficeScheduleAssumption
<1>2. MonthOf(r + 1) <= MonthOf(s)
  BY <1>1, OfficeScheduleAssumption DEF MonthOf
<1>3. QED BY <1>2, MonthsAre

LEMMA InMonthIs ==
  ASSUME NEW d \in Nat, NEW k \in Nat
  PROVE  /\ InMonth(d) \in Nat
         /\ InMonth(d) * MonthDays \in Nat
         /\ InMonth(d) * MonthDays <= d
         /\ d < (InMonth(d) + 1) * MonthDays
         /\ k * MonthDays <= d => k <= InMonth(d)
         /\ d < k * MonthDays => InMonth(d) < k
<1> USE OfficeScheduleAssumption
<1> DEFINE q == InMonth(d)
<1>1. q \in Nat /\ q * MonthDays <= d /\ d < q * MonthDays + MonthDays
  BY DivisionOf DEF InMonth
<1> HIDE DEF q
<1>2. (q + 1) * MonthDays = q * MonthDays + 1 * MonthDays /\ 1 * MonthDays = MonthDays /\ q * MonthDays \in Nat
  BY <1>1, Distributes, ProductIn
<1>3. ASSUME k * MonthDays <= d PROVE k <= q
  <2>1. SUFFICES ASSUME q + 1 <= k PROVE FALSE
    BY <1>1
  <2>2. (q + 1) * MonthDays <= k * MonthDays /\ k * MonthDays \in Nat
    BY <1>1, <2>1, Between, ProductIn
  <2>3. QED BY <1>1, <1>2, <1>3, <2>2
<1>4. ASSUME d < k * MonthDays PROVE q < k
  <2>1. SUFFICES ASSUME k <= q PROVE FALSE
    BY <1>1
  <2>2. k * MonthDays <= q * MonthDays /\ k * MonthDays \in Nat
    BY <1>1, <2>1, Between, ProductIn
  <2>3. QED BY <1>1, <1>2, <1>4, <2>2
<1>5. QED BY <1>1, <1>2, <1>3, <1>4 DEF q

(* Days of a month come before those of a later one. *)
LEMMA MonthsApart ==
  ASSUME NEW a \in Nat, NEW b \in Nat
  PROVE  /\ a * MonthDays \in Nat
         /\ a <= b => a * MonthDays <= b * MonthDays
BY Between, ProductIn, OfficeScheduleAssumption

LEMMA SeasonsEnd ==
  ASSUME S!EndOf(0) < S!StartOf(1)
  PROVE  SeasonMonths <= YearMonths
<1> USE OfficeScheduleAssumption
<1> DEFINE e == (SeasonStart + SeasonMonths) * MonthDays
           n == (SeasonStart + YearMonths) * MonthDays
<1>1. S!EndOf(0) = e - 1 /\ S!StartOf(1) = n /\ e \in Nat /\ n \in Nat
  <2>1. MonthOf(0) = SeasonStart /\ MonthOf(1) = SeasonStart + YearMonths
    BY DEF MonthOf
  <2>2. S!StartOf(0) = SeasonStart * MonthDays /\ S!StartOf(1) = n
    BY <2>1, MonthsAre
  <2>3. e = SeasonStart * MonthDays + SeasonMonths * MonthDays
    BY Distributes
  <2>4. e \in Nat /\ n \in Nat /\ SeasonStart * MonthDays \in Nat /\ SeasonMonths * MonthDays \in Nat
    BY ProductIn
  <2>5. S!EndOf(0) = S!StartOf(0) + SeasonMonths * MonthDays - 1
    BY DEF S!EndOf
  <2> HIDE DEF e, n
  <2>6. QED BY <2>2, <2>3, <2>4, <2>5
<1>2. SUFFICES ASSUME SeasonMonths > YearMonths PROVE FALSE
  OBVIOUS
<1>3. (SeasonStart + YearMonths + 1) * MonthDays <= e /\ (SeasonStart + YearMonths + 1) * MonthDays \in Nat
  BY <1>2, MonthsApart
<1>4. (SeasonStart + YearMonths + 1) * MonthDays = n + 1 * MonthDays /\ 1 * MonthDays = MonthDays
  BY Distributes
<1> HIDE DEF e, n
<1>5. QED BY <1>1, <1>3, <1>4

LEMMA FirstMonthIs ==
  ASSUME NEW t, SignedTerms(t), NEW s \in Nat
  PROVE  /\ FirstMonth(t, s) \in Nat
         /\ MonthOf(s) <= FirstMonth(t, s) /\ FirstMonth(t, s) < MonthOf(s) + SeasonMonths
         /\ S!FirstDue(t, s) \in Nat
         /\ S!FirstDue(t, s) = t.signed \/ FirstMonth(t, s) = MonthOf(s)
         /\ S!FirstDue(t, s) >= t.signed
         /\ s > 0 => FirstMonth(t, s) = MonthOf(s)
<1> USE OfficeScheduleAssumption
<1> DEFINE d == S!FirstDue(t, s)
           m == MonthOf(s)
           e == (m + SeasonMonths) * MonthDays
<1>0. t \in S!Terms /\ S!EndOf(0) < S!StartOf(1) /\ t.signed <= S!EndOf(0)
  BY DEF SignedTerms, ProperTerms, S!KeepsApart
<1>1. t.signed \in Nat /\ d \in Nat /\ m \in Nat /\ S!StartOf(s) = m * MonthDays /\ m * MonthDays \in Nat
  BY <1>0, DueOnIs, MonthsAre, ProductIn DEF S!Terms
<1>9. t.signed < (SeasonStart + SeasonMonths) * MonthDays
  <2>1. MonthOf(0) = SeasonStart
    BY DEF MonthOf
  <2>2. S!StartOf(0) = SeasonStart * MonthDays
    BY <2>1, MonthsAre
  <2>3. (SeasonStart + SeasonMonths) * MonthDays = SeasonStart * MonthDays + SeasonMonths * MonthDays
    BY Distributes
  <2>4. SeasonStart * MonthDays \in Nat /\ SeasonMonths * MonthDays \in Nat
    BY ProductIn
  <2>5. S!EndOf(0) = S!StartOf(0) + SeasonMonths * MonthDays - 1
    BY DEF S!EndOf
  <2>6. QED BY <1>0, <1>1, <2>2, <2>3, <2>4, <2>5
<1>2. e \in Nat /\ S!StartOf(s) < e /\ S!StartOf(s) < (m + 1) * MonthDays
  <2>1. (m + 1) * MonthDays = m * MonthDays + 1 * MonthDays /\ 1 * MonthDays = MonthDays
    BY <1>1, Distributes
  <2>2. (m + 1) * MonthDays <= e /\ e \in Nat
    BY <1>1, MonthsApart
  <2>3. QED BY <1>1, <2>1, <2>2
<1>3. t.signed < e
  <2>2. s * YearMonths \in Nat
    BY ProductIn
  <2>3. SeasonStart + SeasonMonths <= m + SeasonMonths
    BY <2>2 DEF MonthOf
  <2>4. (SeasonStart + SeasonMonths) * MonthDays <= e /\ (SeasonStart + SeasonMonths) * MonthDays \in Nat
    BY <1>1, <2>3, MonthsApart
  <2>5. QED BY <1>1, <1>2, <1>9, <2>4
<1>4. S!StartOf(s) <= d /\ d < e /\ (d = t.signed \/ d = S!StartOf(s)) /\ (s > 0 => d = S!StartOf(s))
  BY <1>1, <1>2, <1>3 DEF S!FirstDue, S!Later
<1>5. m <= InMonth(d) /\ InMonth(d) < m + SeasonMonths /\ InMonth(d) \in Nat
  BY <1>1, <1>4, InMonthIs
<1>6. d = S!StartOf(s) => InMonth(d) = m
  <2>1. SUFFICES ASSUME d = S!StartOf(s) PROVE InMonth(d) < m + 1
    BY <1>1, <1>5
  <2>2. d < (m + 1) * MonthDays
    BY <1>2, <2>1
  <2>3. QED BY <1>1, <2>2, InMonthIs
<1>7. d >= t.signed
  <2>1. CASE s = 0
    BY <1>1, <2>1, MonthsAre DEF S!FirstDue, S!Later
  <2>2. CASE s # 0
    <3>1. d = S!StartOf(s) /\ t.signed < (MonthOf(0) + SeasonMonths) * MonthDays
      <4>1. MonthOf(0) = SeasonStart
        BY DEF MonthOf
      <4>2. MonthOf(0) \in Nat /\ (SeasonStart + SeasonMonths) * MonthDays \in Nat
        BY <4>1, MonthsApart
      <4>3. QED BY <1>1, <1>4, <1>9, <2>2, <4>1, <4>2
    <3>2. MonthOf(0) + YearMonths <= m /\ SeasonMonths <= YearMonths /\ MonthOf(0) \in Nat
      <4>2. SeasonMonths <= YearMonths
        BY <1>0, SeasonsEnd
      <4>3. 0 < s /\ 0 \in Nat
        BY <2>2
      <4>4. MonthOf(0) + YearMonths <= m /\ MonthOf(0) \in Nat
        BY <4>3, MonthsGrow, MonthsAre
      <4>5. QED BY <4>2, <4>4
    <3>3. (MonthOf(0) + SeasonMonths) * MonthDays <= m * MonthDays /\ (MonthOf(0) + SeasonMonths) * MonthDays \in Nat
      BY <1>1, <3>2, MonthsApart
    <3>4. QED BY <1>1, <3>1, <3>3
  <2>3. QED BY <2>1, <2>2
<1> HIDE DEF e
<1>8. QED BY <1>1, <1>4, <1>5, <1>6, <1>7 DEF FirstMonth

(* A payment is due in its month. *)
LEMMA PaymentIn ==
  ASSUME NEW t \in S!Terms, NEW s \in Nat, NEW i \in Nat
  PROVE  /\ FirstMonth(t, s) \in Nat
         /\ (FirstMonth(t, s) + i) * MonthDays <= S!DueOn(t, s, i)
         /\ S!DueOn(t, s, i) < (FirstMonth(t, s) + i + 1) * MonthDays
         /\ S!DueOn(t, s, i) \in Nat
<1> USE OfficeScheduleAssumption
<1> DEFINE q == FirstMonth(t, s)
<1>1. q \in Nat /\ S!DueOn(t, s, i) \in Nat
  BY DueOnIs, InMonthIs DEF FirstMonth
<1>2. CASE i = 0
  <2>1. S!DueOn(t, s, i) = S!FirstDue(t, s) /\ S!FirstDue(t, s) \in Nat
    BY <1>2, DueOnIs DEF S!DueOn
  <2>2. q * MonthDays <= S!FirstDue(t, s) /\ S!FirstDue(t, s) < (q + 1) * MonthDays
    BY <2>1, InMonthIs DEF FirstMonth
  <2>3. q + i = q /\ q + i + 1 = q + 1
    BY <1>1, <1>2
  <2> HIDE DEF q
  <2>4. QED BY <1>1, <2>1, <2>2, <2>3 DEF q
<1>3. CASE i # 0
  <2>1. S!DueOn(t, s, i) = (q + i) * MonthDays
    BY <1>3 DEF S!DueOn, S!FirstOfMonth, FirstMonth, InMonth
  <2> HIDE DEF q
  <2>2. (q + i + 1) * MonthDays = (q + i) * MonthDays + 1 * MonthDays /\ 1 * MonthDays = MonthDays
    BY <1>1, Distributes
  <2>3. QED BY <1>1, <2>1, <2>2 DEF q
<1>4. QED BY <1>2, <1>3
-----------------------------------------------------------------------------
(* The payments of a season, numbered.                                     *)
HowMany(t, s) ==
  CASE t.kind = "seasonal_installments" -> t.n
    [] t.kind = "seasonal_yia"          -> IF s = 0 \/ s >= t.seasons THEN 1 ELSE 0
    [] t.kind = "monthly_recurring"     -> MonthOf(s) + SeasonMonths - FirstMonth(t, s)
    [] t.kind = "monthly_one_time"      -> IF s = 0 THEN 1 ELSE 0

DayOf(t, s, i) == IF t.kind = "seasonal_yia" /\ s = 0 THEN t.signed ELSE S!DueOn(t, s, i)

Once(t, s)  == IF t.kind = "seasonal_yia" /\ s > 0 THEN t.net ELSE S!FirstPayment(t)
Again(t)    == S!RecurringPayment(t)
Pay(t, s, i) == S!Entry(s, DayOf(t, s, i), IF i = 0 THEN Once(t, s) ELSE Again(t))

LEMMA TermsAre ==
  ASSUME NEW t, SignedTerms(t)
  PROVE  /\ t \in S!Terms /\ t.kind \in S!Kinds /\ t.signed \in Nat /\ t.net \in Nat
         /\ t.n \in Nat \ {0} /\ SeasonMonths <= YearMonths
         /\ t.seasons \in Seasons /\ t.seasons \in Nat \ {0} /\ t.seasons <= MaxSeason + 1
         /\ t.renews \in BOOLEAN
<1>1. t.n \in Installments /\ t.seasons \in Seasons /\ t.net \in Nat /\ t.signed \in Nat /\ t.kind \in S!Kinds /\ t.renews \in BOOLEAN
  BY DEF SignedTerms, ProperTerms, S!Terms
<1>2. t.n \in Nat \ {0} /\ SeasonMonths <= YearMonths
  BY <1>1, SeasonsEnd, OfficeScheduleAssumption DEF SignedTerms, S!KeepsApart
<1>3. t.seasons \in 1..(MaxSeason + 1)
  BY <1>1, OfficeScheduleAssumption
<1>4. QED BY <1>1, <1>2, <1>3, OfficeScheduleAssumption DEF SignedTerms, ProperTerms

(* The last instalment of a season is due before the next begins.          *)
LEMMA InstalmentsEnd ==
  ASSUME NEW t, SignedTerms(t), NEW s \in Nat, t.kind = "seasonal_installments"
  PROVE  FirstMonth(t, s) + t.n <= MonthOf(s) + YearMonths
<1> USE OfficeScheduleAssumption
<1> DEFINE q == FirstMonth(t, 0)
           p == MonthOf(0)
<1>1. t \in S!Terms /\ t.n \in Nat \ {0} /\ S!DueOn(t, 0, t.n - 1) < S!StartOf(1)
  BY TermsAre DEF SignedTerms, S!KeepsApart
<1>2. q \in Nat /\ p \in Nat /\ p <= q
  BY MonthsAre, FirstMonthIs
<1>3. (q + (t.n - 1)) * MonthDays <= S!DueOn(t, 0, t.n - 1) /\ S!DueOn(t, 0, t.n - 1) \in Nat
  <2>1. \A i \in Nat : (q + i) * MonthDays <= S!DueOn(t, 0, i) /\ S!DueOn(t, 0, i) \in Nat
    BY <1>1, PaymentIn
  <2>2. t.n - 1 \in Nat
    BY <1>1
  <2>3. QED BY <2>1, <2>2
<1>4. S!StartOf(1) = (p + YearMonths) * MonthDays
  <2>1. MonthOf(1) = p + YearMonths
    BY DEF MonthOf
  <2>2. QED BY <2>1, MonthsAre
<1> HIDE DEF q, p
<1>5. q + t.n <= p + YearMonths
  <2>1. SUFFICES ASSUME p + YearMonths <= q + (t.n - 1) PROVE FALSE
    BY <1>1, <1>2
  <2>2. /\ (p + YearMonths) * MonthDays <= (q + (t.n - 1)) * MonthDays
        /\ (p + YearMonths) * MonthDays \in Nat /\ (q + (t.n - 1)) * MonthDays \in Nat
    BY <1>1, <1>2, <2>1, MonthsApart
  <2>3. QED BY <1>1, <1>3, <1>4, <2>2
<1>6. CASE s = 0
  BY <1>5, <1>6 DEF q, p
<1>7. CASE s # 0
  <2>1. FirstMonth(t, s) = MonthOf(s) /\ MonthOf(s) \in Nat
    BY <1>7, FirstMonthIs, MonthsAre
  <2>2. QED BY <1>1, <1>2, <1>5, <2>1
<1>8. QED BY <1>6, <1>7

LEMMA HowManyIs ==
  ASSUME NEW t, SignedTerms(t), NEW s \in Nat
  PROVE  /\ HowMany(t, s) \in Nat
         /\ HowMany(t, s) > 0 => FirstMonth(t, s) + HowMany(t, s) <= MonthOf(s) + YearMonths
         /\ t.kind \in {"seasonal_installments", "monthly_recurring"} => HowMany(t, s) > 0
<1> USE OfficeScheduleAssumption
<1>1. /\ t \in S!Terms /\ t.kind \in S!Kinds /\ t.n \in Nat \ {0} /\ t.seasons \in Nat
      /\ SeasonMonths <= YearMonths
  BY TermsAre
<1>2. MonthOf(s) \in Nat /\ FirstMonth(t, s) \in Nat /\ FirstMonth(t, s) < MonthOf(s) + SeasonMonths
  BY <1>1, MonthsAre, FirstMonthIs
<1>3. CASE t.kind = "seasonal_installments"
  BY <1>1, <1>2, <1>3, InstalmentsEnd DEF HowMany
<1>4. CASE t.kind = "seasonal_yia"
  <2>1. HowMany(t, s) \in {0, 1}
    BY <1>4 DEF HowMany
  <2>2. QED BY <1>1, <1>2, <1>4, <2>1
<1>5. CASE t.kind = "monthly_recurring"
  <2>1. HowMany(t, s) = MonthOf(s) + SeasonMonths - FirstMonth(t, s)
    BY <1>5 DEF HowMany
  <2>2. QED BY <1>1, <1>2, <1>5, <2>1
<1>6. CASE t.kind = "monthly_one_time"
  <2>1. HowMany(t, s) \in {0, 1}
    BY <1>6 DEF HowMany
  <2>2. QED BY <1>1, <1>2, <1>6, <2>1
<1>7. QED BY <1>1, <1>3, <1>4, <1>5, <1>6 DEF S!Kinds

LEMMA MonthlyIndices ==
  ASSUME NEW t, SignedTerms(t), NEW s \in Nat, t.kind = "monthly_recurring"
  PROVE  {k \in 0..(SeasonMonths - 1) : S!DueOn(t, s, k) <= S!EndOf(s)} = 0..(HowMany(t, s) - 1)
<1> USE OfficeScheduleAssumption
<1> DEFINE q == FirstMonth(t, s)
           m == MonthOf(s)
           e == (m + SeasonMonths) * MonthDays
<1>1. m \in Nat /\ q \in Nat /\ m <= q /\ q < m + SeasonMonths /\ HowMany(t, s) = m + SeasonMonths - q /\ t \in S!Terms
  BY MonthsAre, FirstMonthIs, TermsAre DEF HowMany
<1>2. e = S!StartOf(s) + SeasonMonths * MonthDays /\ e \in Nat /\ S!StartOf(s) + SeasonMonths * MonthDays \in Nat
  BY <1>1, MonthsAre, Distributes, ProductIn
<1> HIDE DEF e
<1>3. \A d \in Nat : d <= S!EndOf(s) <=> d < e
  <2>1. S!EndOf(s) = S!StartOf(s) + (SeasonMonths * MonthDays - 1)
    BY DEF S!EndOf
  <2>2. SeasonMonths * MonthDays \in Nat /\ S!StartOf(s) \in Nat
    BY ProductIn, DaysAre
  <2>3. S!EndOf(s) = e - 1
    BY <1>2, <2>1, <2>2
  <2>4. QED BY <1>2, <2>3
<1>4. ASSUME NEW k \in Nat PROVE S!DueOn(t, s, k) <= S!EndOf(s) <=> q + k < m + SeasonMonths
  <2>1. /\ S!DueOn(t, s, k) \in Nat
        /\ (q + k) * MonthDays <= S!DueOn(t, s, k)
        /\ S!DueOn(t, s, k) < (q + k + 1) * MonthDays
    BY <1>1, PaymentIn
  <2>2. (q + k) * MonthDays \in Nat /\ (q + k + 1) * MonthDays \in Nat
    BY <1>1, ProductIn
  <2> HIDE DEF q, m
  <2>3. ASSUME q + k < m + SeasonMonths PROVE S!DueOn(t, s, k) < e
    <3>1. (q + k + 1) * MonthDays <= e
      BY <1>1, <2>3, MonthsApart DEF e
    <3>2. QED BY <1>2, <2>1, <2>2, <3>1
  <2>4. ASSUME ~ (q + k < m + SeasonMonths) PROVE ~ (S!DueOn(t, s, k) < e)
    <3>1. e <= (q + k) * MonthDays
      BY <1>1, <2>4, MonthsApart DEF e
    <3>2. QED BY <1>2, <2>1, <2>2, <3>1
  <2>5. QED BY <1>3, <2>1, <2>3, <2>4
<1> HIDE DEF q, m
<1>5. ASSUME NEW k PROVE (k \in 0..(SeasonMonths - 1) /\ S!DueOn(t, s, k) <= S!EndOf(s)) <=> k \in 0..(HowMany(t, s) - 1)
  <2>1. ASSUME k \in Nat PROVE (k <= SeasonMonths - 1 /\ S!DueOn(t, s, k) <= S!EndOf(s)) <=> k <= HowMany(t, s) - 1
    BY <1>1, <1>4, <2>1
  <2>2. SeasonMonths - 1 \in Int /\ HowMany(t, s) - 1 \in Int
    BY <1>1
  <2>3. QED BY <2>1, <2>2
<1>6. QED BY <1>5

LEMMA SeasonIs ==
  ASSUME NEW t, SignedTerms(t), NEW s \in Nat
  PROVE  S!SeasonEntries(t, s) = {Pay(t, s, i) : i \in 0..(HowMany(t, s) - 1)}
<1>1. t \in S!Terms /\ t.kind \in S!Kinds /\ t.n \in Nat \ {0}
  BY TermsAre
<1>2. CASE t.kind = "seasonal_installments"
  <2>1. HowMany(t, s) = t.n
    BY <1>2 DEF HowMany
  <2>2. \A i \in 0..(t.n - 1) : Pay(t, s, i) = S!Entry(s, S!DueOn(t, s, i), IF i = 0 THEN S!FirstPayment(t) ELSE S!RecurringPayment(t))
    BY <1>2 DEF Pay, DayOf, Once, Again
  <2>3. QED BY <1>2, <2>1, <2>2 DEF S!SeasonEntries
<1>3. CASE t.kind = "seasonal_yia"
  <2>1. CASE s = 0
    <3>1. HowMany(t, s) = 1 /\ 0..(1 - 1) = {0} /\ Pay(t, s, 0) = S!Entry(s, t.signed, S!FirstPayment(t))
      BY <1>3, <2>1 DEF HowMany, Pay, DayOf, Once
    <3>2. QED BY <1>3, <2>1, <3>1 DEF S!SeasonEntries
  <2>2. CASE s # 0 /\ s >= t.seasons
    <3>1. HowMany(t, s) = 1 /\ 0..(1 - 1) = {0} /\ Pay(t, s, 0) = S!Entry(s, S!StartOf(s), t.net)
      BY <1>3, <2>2 DEF HowMany, Pay, DayOf, Once, S!DueOn, S!FirstDue
    <3>2. QED BY <1>3, <2>2, <3>1 DEF S!SeasonEntries
  <2>3. CASE s # 0 /\ ~ (s >= t.seasons)
    <3>1. HowMany(t, s) = 0 /\ 0..(0 - 1) = {}
      BY <1>3, <2>3 DEF HowMany
    <3>2. S!SeasonEntries(t, s) = {}
      BY <1>3, <2>3 DEF S!SeasonEntries
    <3>3. QED BY <3>1, <3>2
  <2>4. QED BY <2>1, <2>2, <2>3
<1>4. CASE t.kind = "monthly_recurring"
  <2>1. S!SeasonEntries(t, s) = {S!Entry(s, S!DueOn(t, s, i), t.net) : i \in 0..(HowMany(t, s) - 1)}
    BY <1>4, MonthlyIndices DEF S!SeasonEntries
  <2>2. \A i \in 0..(HowMany(t, s) - 1) : Pay(t, s, i) = S!Entry(s, S!DueOn(t, s, i), t.net)
    BY <1>4 DEF Pay, DayOf, Once, Again, S!FirstPayment, S!RecurringPayment
  <2>3. QED BY <2>1, <2>2
<1>5. CASE t.kind = "monthly_one_time"
  <2>1. CASE s = 0
    <3>1. HowMany(t, s) = 1 /\ 0..(1 - 1) = {0} /\ Pay(t, s, 0) = S!Entry(s, S!FirstDue(t, 0), S!FirstPayment(t))
      BY <1>5, <2>1 DEF HowMany, Pay, DayOf, Once, S!DueOn
    <3>2. QED BY <1>5, <2>1, <3>1 DEF S!SeasonEntries
  <2>2. CASE s # 0
    <3>1. HowMany(t, s) = 0 /\ 0..(0 - 1) = {}
      BY <1>5, <2>2 DEF HowMany
    <3>2. S!SeasonEntries(t, s) = {}
      BY <1>5, <2>2 DEF S!SeasonEntries
    <3>3. QED BY <3>1, <3>2
  <2>3. QED BY <2>1, <2>2
<1>6. QED BY <1>1, <1>2, <1>3, <1>4, <1>5 DEF S!Kinds

(* One after the other, within their season's year. *)
LEMMA DaysOf ==
  ASSUME NEW t, SignedTerms(t), NEW s \in Nat
  PROVE  \A i \in 0..(HowMany(t, s) - 1) :
           /\ DayOf(t, s, i) \in Nat
           /\ DayOf(t, s, i) < S!StartOf(s + 1)
           /\ s > 0 => DayOf(t, s, i) >= S!StartOf(s)
           /\ \A j \in 0..(HowMany(t, s) - 1) : i < j => DayOf(t, s, i) < DayOf(t, s, j)
<1> USE OfficeScheduleAssumption
<1> DEFINE q == FirstMonth(t, s)
           h == HowMany(t, s)
<1>1. /\ t \in S!Terms /\ t.kind \in S!Kinds /\ t.signed \in Nat /\ MonthOf(s) \in Nat /\ q \in Nat /\ h \in Nat
      /\ MonthOf(s) <= q /\ S!FirstDue(t, s) \in Nat /\ t.signed <= S!FirstDue(t, s)
      /\ h > 0 => q + h <= MonthOf(s) + YearMonths
      /\ S!StartOf(s) = MonthOf(s) * MonthDays /\ S!StartOf(s) \in Nat
      /\ S!StartOf(s + 1) = (MonthOf(s) + YearMonths) * MonthDays /\ S!StartOf(s + 1) \in Nat
  <2>1. t \in S!Terms /\ t.kind \in S!Kinds /\ t.signed \in Nat
    BY TermsAre
  <2>2. h \in Nat /\ (h > 0 => q + h <= MonthOf(s) + YearMonths)
    BY HowManyIs
  <2>3. s + 1 \in Nat
    OBVIOUS
  <2>4. MonthOf(s) \in Nat /\ S!StartOf(s) = MonthOf(s) * MonthDays
    BY MonthsAre
  <2>5. S!StartOf(s + 1) = (MonthOf(s) + YearMonths) * MonthDays
    BY <2>3, MonthsAre
  <2>6. S!StartOf(s) \in Nat /\ S!StartOf(s + 1) \in Nat
    BY <2>3, DaysAre
  <2>7. q \in Nat /\ MonthOf(s) <= q /\ S!FirstDue(t, s) \in Nat /\ t.signed <= S!FirstDue(t, s)
    BY <2>1, <2>4, FirstMonthIs
  <2>8. QED BY <2>1, <2>2, <2>4, <2>5, <2>6, <2>7
<1>2. ASSUME NEW i \in 0..(h - 1)
      PROVE  /\ i \in Nat
             /\ S!DueOn(t, s, i) \in Nat
             /\ (q + i) * MonthDays <= S!DueOn(t, s, i)
             /\ S!DueOn(t, s, i) < (q + i + 1) * MonthDays
             /\ S!DueOn(t, s, i) < S!StartOf(s + 1)
             /\ S!DueOn(t, s, i) >= S!StartOf(s)
             /\ (q + i) * MonthDays \in Nat /\ (q + i + 1) * MonthDays \in Nat
  <2>1. i \in Nat /\ h > 0 /\ i <= h - 1
    BY <1>1
  <2>2. /\ S!DueOn(t, s, i) \in Nat
        /\ (q + i) * MonthDays <= S!DueOn(t, s, i)
        /\ S!DueOn(t, s, i) < (q + i + 1) * MonthDays
    BY <1>1, <2>1, PaymentIn
  <2> HIDE DEF q, h
  <2>3. q + i + 1 <= MonthOf(s) + YearMonths /\ q + i + 1 \in Nat /\ q + i \in Nat /\ MonthOf(s) <= q + i
    BY <1>1, <2>1
  <2>4. /\ (q + i + 1) * MonthDays <= S!StartOf(s + 1) /\ S!StartOf(s) <= (q + i) * MonthDays
        /\ (q + i) * MonthDays \in Nat /\ (q + i + 1) * MonthDays \in Nat
    BY <1>1, <2>3, MonthsApart
  <2>5. QED BY <1>1, <2>1, <2>2, <2>4
<1>3. ASSUME NEW i \in 0..(h - 1), NEW j \in 0..(h - 1), i < j PROVE S!DueOn(t, s, i) < S!DueOn(t, s, j)
  <2>1. i \in Nat /\ j \in Nat
    BY <1>1
  <2> HIDE DEF q
  <2>2. (q + i + 1) * MonthDays <= (q + j) * MonthDays
    BY <1>1, <1>3, <2>1, MonthsApart
  <2>3. QED BY <1>2, <2>2
<1>4. ASSUME t.kind = "seasonal_yia", s = 0, h > 0 PROVE h = 1 /\ t.signed < S!StartOf(s + 1)
  <2>1. h = 1
    BY <1>4 DEF HowMany
  <2>2. S!FirstDue(t, s) < S!StartOf(s + 1)
    <3>1. 0 \in 0..(h - 1) /\ S!DueOn(t, s, 0) = S!FirstDue(t, s)
      BY <2>1 DEF S!DueOn
    <3>2. QED BY <1>2, <3>1
  <2>3. QED BY <1>1, <2>1, <2>2
<1> HIDE DEF h
<1>5. CASE t.kind = "seasonal_yia" /\ s = 0
  <2>1. \A i \in 0..(h - 1) : DayOf(t, s, i) = t.signed
    BY <1>5 DEF DayOf
  <2>2. \A i \in 0..(h - 1) : h > 0 /\ i = 0
    BY <1>1, <1>4, <1>5
  <2>3. QED BY <1>1, <1>4, <1>5, <2>1, <2>2 DEF h
<1>6. CASE ~ (t.kind = "seasonal_yia" /\ s = 0)
  <2>1. \A i \in 0..(h - 1) : DayOf(t, s, i) = S!DueOn(t, s, i)
    BY <1>6 DEF DayOf
  <2>2. QED BY <1>2, <1>3, <2>1 DEF h
<1>7. QED BY <1>5, <1>6
(* A day has one payment.                                                  *)
LEMMA OnePerDay ==
  ASSUME NEW t, SignedTerms(t), NEW r \in Nat, NEW s \in Nat,
         NEW d \in S!SeasonEntries(t, r), NEW e \in S!SeasonEntries(t, s), d[1] = e[1]
  PROVE  d = e
<1>1. PICK i \in 0..(HowMany(t, r) - 1) : d = Pay(t, r, i)
  BY SeasonIs
<1>2. PICK j \in 0..(HowMany(t, s) - 1) : e = Pay(t, s, j)
  BY SeasonIs
<1>3. d[1] = DayOf(t, r, i) /\ e[1] = DayOf(t, s, j)
  BY <1>1, <1>2 DEF Pay, S!Entry
<1>4. /\ DayOf(t, r, i) \in Nat /\ DayOf(t, r, i) < S!StartOf(r + 1) /\ (r > 0 => DayOf(t, r, i) >= S!StartOf(r))
      /\ \A k \in 0..(HowMany(t, r) - 1) : i < k => DayOf(t, r, i) < DayOf(t, r, k)
  BY DaysOf
<1>5. /\ DayOf(t, s, j) \in Nat /\ DayOf(t, s, j) < S!StartOf(s + 1) /\ (s > 0 => DayOf(t, s, j) >= S!StartOf(s))
      /\ \A k \in 0..(HowMany(t, s) - 1) : j < k => DayOf(t, s, j) < DayOf(t, s, k)
  BY DaysOf
<1>6. \A a, b \in Nat : a < b => S!StartOf(a + 1) <= S!StartOf(b) /\ S!StartOf(b) \in Nat /\ S!StartOf(a + 1) \in Nat
  <2>1. ASSUME NEW a \in Nat, NEW b \in Nat, a < b PROVE S!StartOf(a + 1) <= S!StartOf(b) /\ S!StartOf(b) \in Nat /\ S!StartOf(a + 1) \in Nat
    <3>1. a + 1 \in Nat
      OBVIOUS
    <3>2. MonthOf(a + 1) \in Nat /\ S!StartOf(a + 1) = MonthOf(a + 1) * MonthDays
      BY <3>1, MonthsAre
    <3>3. MonthOf(b) \in Nat /\ S!StartOf(b) = MonthOf(b) * MonthDays
      BY MonthsAre
    <3>4. MonthOf(a + 1) <= MonthOf(b)
      BY <2>1, MonthsGrow, MonthsAre
    <3>5. QED BY <3>2, <3>3, <3>4, MonthsApart
  <2>2. QED BY <2>1
<1>7. ~ (r < s) /\ ~ (s < r)
  <2>1. ASSUME r < s PROVE FALSE
    <3>1. S!StartOf(r + 1) <= S!StartOf(s) /\ S!StartOf(s) \in Nat /\ S!StartOf(r + 1) \in Nat /\ s > 0
      BY <1>6, <2>1
    <3>2. DayOf(t, r, i) < S!StartOf(r + 1) /\ DayOf(t, s, j) >= S!StartOf(s) /\ DayOf(t, r, i) \in Nat /\ DayOf(t, s, j) \in Nat
      BY <1>4, <1>5, <3>1
    <3>3. DayOf(t, r, i) = DayOf(t, s, j)
      BY <1>3
    <3>4. QED BY <3>1, <3>2, <3>3
  <2>2. ASSUME s < r PROVE FALSE
    <3>1. S!StartOf(s + 1) <= S!StartOf(r) /\ S!StartOf(r) \in Nat /\ S!StartOf(s + 1) \in Nat /\ r > 0
      BY <1>6, <2>2
    <3>2. DayOf(t, s, j) < S!StartOf(s + 1) /\ DayOf(t, r, i) >= S!StartOf(r) /\ DayOf(t, r, i) \in Nat /\ DayOf(t, s, j) \in Nat
      BY <1>4, <1>5, <3>1
    <3>3. DayOf(t, r, i) = DayOf(t, s, j)
      BY <1>3
    <3>4. QED BY <3>1, <3>2, <3>3
  <2>3. QED BY <2>1, <2>2
<1>8. r = s
  BY <1>7
<1>9. i = j
  <2>1. HowMany(t, r) \in Nat
    BY HowManyIs
  <2>2. i \in Nat /\ j \in Nat
    BY <1>8, <2>1
  <2>3. j \in 0..(HowMany(t, r) - 1) /\ i \in 0..(HowMany(t, s) - 1)
    BY <1>8
  <2>4. ~ (i < j)
    <3>1. SUFFICES ASSUME i < j PROVE FALSE
      OBVIOUS
    <3>2. DayOf(t, r, i) < DayOf(t, r, j) /\ DayOf(t, r, i) \in Nat
      BY <1>4, <2>3, <3>1
    <3>3. DayOf(t, r, i) = DayOf(t, r, j)
      BY <1>3, <1>8
    <3>4. QED BY <3>2, <3>3
  <2>5. ~ (j < i)
    <3>1. SUFFICES ASSUME j < i PROVE FALSE
      OBVIOUS
    <3>2. DayOf(t, s, j) < DayOf(t, s, i) /\ DayOf(t, s, j) \in Nat
      BY <1>5, <2>3, <3>1
    <3>3. DayOf(t, s, j) = DayOf(t, s, i)
      BY <1>3, <1>8
    <3>4. QED BY <3>2, <3>3
  <2>6. QED BY <2>2, <2>4, <2>5
<1>10. QED BY <1>1, <1>2, <1>8, <1>9

LastSeason(t) == IF S!Renews(t) THEN MaxSeason ELSE t.seasons - 1

LEMMA DueMeans ==
  ASSUME NEW t, SignedTerms(t), NEW a \in Nat
  PROVE  /\ LastSeason(t) \in Nat
         /\ \A e : e \in S!Due(t, a) <=> \E s \in 0..LastSeason(t) : e \in S!SeasonEntries(t, s) /\ e[1] <= a
<1>1. LastSeason(t) \in Nat
  BY TermsAre, OfficeScheduleAssumption DEF LastSeason
<1>2. ASSUME NEW s \in 0..LastSeason(t), NEW e \in S!SeasonEntries(t, s), e[1] <= a
      PROVE  s = 0 \/ S!StartOf(s) <= a
  <2>1. s \in Nat
    BY <1>1
  <2>2. PICK i \in 0..(HowMany(t, s) - 1) : e = Pay(t, s, i)
    BY <2>1, SeasonIs
  <2>3. e[1] = DayOf(t, s, i)
    BY <2>2 DEF Pay, S!Entry
  <2>4. DayOf(t, s, i) \in Nat /\ (s > 0 => DayOf(t, s, i) >= S!StartOf(s)) /\ S!StartOf(s) \in Nat
    BY <2>1, DaysOf, DaysAre
  <2>5. QED BY <1>2, <2>1, <2>3, <2>4
<1>3. S!Due(t, a) = {e \in UNION {S!SeasonEntries(t, s) : s \in {s \in 0..LastSeason(t) : s = 0 \/ S!StartOf(s) <= a}} : e[1] <= a}
  BY DEF S!Due, LastSeason
<1>4. QED BY <1>1, <1>2, <1>3

(* What was raised is what is due, and once more is no more. *)
LEMMA RaisedIsDue ==
  ASSUME NEW t, SignedTerms(t), NEW a \in Nat, NEW z \in Nat, a <= z, NEW old, old = {} \/ old = S!Due(t, a)
  PROVE  old \cup {e \in S!Due(t, z) :
                 /\ ~ \E b \in old : b[1] = e[1]
                 /\ ~ \E d \in S!Due(t, z) : d[1] = e[1] /\ d[4] < e[4]} = S!Due(t, z)
<1>1. ASSUME NEW d \in S!Due(t, z), NEW e \in S!Due(t, z), d[1] = e[1] PROVE d = e
  <2>1. PICK r \in 0..LastSeason(t) : d \in S!SeasonEntries(t, r)
    BY DueMeans
  <2>2. PICK s \in 0..LastSeason(t) : e \in S!SeasonEntries(t, s)
    BY DueMeans
  <2>3. r \in Nat /\ s \in Nat
    BY DueMeans
  <2>4. QED BY <1>1, <2>1, <2>2, <2>3, OnePerDay
<1>2. old \subseteq S!Due(t, z)
  <2>1. ASSUME NEW e \in S!Due(t, a) PROVE e \in S!Due(t, z)
    <3>1. PICK s \in 0..LastSeason(t) : e \in S!SeasonEntries(t, s) /\ e[1] <= a
      BY DueMeans
    <3>2. s \in Nat
      BY DueMeans
    <3>3. e[1] \in Nat
      BY <3>1, <3>2, TermsAre, EntriesAre
    <3>4. e[1] <= z
      BY <3>1, <3>3
    <3>5. QED BY <3>1, <3>4, DueMeans
  <2>2. QED BY <2>1
<1>3. ASSUME NEW e \in S!Due(t, z), e \notin old
      PROVE  /\ ~ \E b \in old : b[1] = e[1]
             /\ ~ \E d \in S!Due(t, z) : d[1] = e[1] /\ d[4] < e[4]
  <2>1. e[4] \in Nat
    <3>1. PICK s \in 0..LastSeason(t) : e \in S!SeasonEntries(t, s)
      BY DueMeans
    <3>2. s \in Nat
      BY DueMeans
    <3>3. QED BY <3>1, <3>2, TermsAre, EntriesAre
  <2>2. ~ (e[4] < e[4])
    BY <2>1
  <2>3. QED BY <1>1, <1>2, <1>3, <2>2
<1>4. QED BY <1>2, <1>3

(* Nothing was raised, or all that was due when last looked at, where the  *)
(* payments keep apart.                                                    *)
RaisedInv ==
  /\ scheduleTerms = NoTerms => scheduleBills = {} /\ scheduleAsOf = 0
  /\ scheduleTerms # NoTerms =>
       /\ ProperTerms(scheduleTerms)
       /\ S!KeepsApart(scheduleTerms) =>
            (scheduleBills = {} /\ scheduleAsOf = 0) \/ scheduleBills = S!Due(scheduleTerms, scheduleAsOf)

LEMMA RaisedHolds ==
  ASSUME S!ScheduleTypeOK, RaisedInv, [S!Next]_(S!scheduleVars)
  PROVE  RaisedInv'
<1>1. CASE S!Sign
  <2>1. PICK kind \in S!Kinds, n \in Installments, seasons \in Seasons, price \in Prices, discount \in Discounts, renews \in BOOLEAN :
          /\ discount <= price
          /\ scheduleTerms' = [kind |-> kind, n |-> n, net |-> price - discount, signed |-> scheduleToday, renews |-> renews,
                       seasons |-> IF kind \in {"seasonal_installments", "seasonal_yia"} THEN seasons ELSE 1]
    BY <1>1 DEF S!Sign
  <2>2. price - discount \in Nat /\ scheduleToday \in Nat /\ 1 \in Seasons
    BY <1>1, <2>1, OfficeScheduleAssumption DEF S!ScheduleTypeOK, S!Sign
  <2>3. scheduleTerms' \in S!Terms /\ scheduleTerms'.signed = scheduleToday /\ scheduleTerms'.kind = kind /\ (kind \in {"monthly_recurring", "monthly_one_time"} => scheduleTerms'.seasons = 1)
    BY <2>1, <2>2 DEF S!Terms
  <2>4. ProperTerms(scheduleTerms')
    BY <2>2, <2>3 DEF ProperTerms
  <2>5. scheduleBills' = {} /\ scheduleAsOf' = 0
    BY <1>1 DEF S!Sign, RaisedInv
  <2>6. QED BY <2>4, <2>5 DEF RaisedInv
<1>2. CASE S!NextDay
  <2>1. scheduleTerms' = scheduleTerms /\ scheduleBills' = scheduleBills /\ scheduleAsOf' = scheduleAsOf
    BY <1>2 DEF S!NextDay
  <2>2. S!KeepsApart(scheduleTerms)' <=> S!KeepsApart(scheduleTerms)
    BY <2>1 DEF S!KeepsApart, S!DueOn, S!FirstDue
  <2>3. QED BY <2>1, <2>2 DEF RaisedInv
<1>3. CASE S!RaiseScheduled
  <2>1. scheduleTerms # NoTerms /\ scheduleTerms' = scheduleTerms /\ scheduleAsOf' = scheduleToday /\ ProperTerms(scheduleTerms)
    BY <1>3 DEF S!RaiseScheduled, RaisedInv
  <2>2. scheduleAsOf \in Nat /\ scheduleToday \in Nat /\ scheduleAsOf <= scheduleToday
    BY OfficeScheduleAssumption DEF S!ScheduleTypeOK
  <2>3. ASSUME S!KeepsApart(scheduleTerms) PROVE scheduleBills' = S!Due(scheduleTerms, scheduleToday)
    <3>1. SignedTerms(scheduleTerms)
      BY <2>1, <2>3 DEF SignedTerms
    <3>2. scheduleBills = {} \/ scheduleBills = S!Due(scheduleTerms, scheduleAsOf)
      BY <2>1, <2>3 DEF RaisedInv
    <3>3. scheduleBills' = scheduleBills \cup {e \in S!Due(scheduleTerms, scheduleToday) :
                   /\ ~\E b \in scheduleBills : b[1] = e[1]
                   /\ ~\E d \in S!Due(scheduleTerms, scheduleToday) : d[1] = e[1] /\ d[4] < e[4]}
      BY <1>3 DEF S!RaiseScheduled
    <3>4. QED BY <2>2, <3>1, <3>2, <3>3, RaisedIsDue
  <2>4. S!KeepsApart(scheduleTerms)' <=> S!KeepsApart(scheduleTerms)
    BY <2>1 DEF S!KeepsApart, S!DueOn, S!FirstDue
  <2>5. QED BY <2>1, <2>3, <2>4 DEF RaisedInv
<1>4. CASE UNCHANGED S!scheduleVars
  <2>1. scheduleTerms' = scheduleTerms /\ scheduleBills' = scheduleBills /\ scheduleAsOf' = scheduleAsOf
    BY <1>4 DEF S!scheduleVars
  <2>2. S!KeepsApart(scheduleTerms)' <=> S!KeepsApart(scheduleTerms)
    BY <2>1 DEF S!KeepsApart, S!DueOn, S!FirstDue
  <2>3. QED BY <2>1, <2>2 DEF RaisedInv
<1>5. QED BY <1>1, <1>2, <1>3, <1>4 DEF S!Next
-----------------------------------------------------------------------------
(* What a run adds up, as a tally.                                         *)
LEMMA AmountsAre ==
  ASSUME NEW Z, B!IsFiniteSet(Z), NEW f, \A b \in Z : f[b] = b[2]
  PROVE  S!MapThenSumSet(LAMBDA b : b[2], Z) = B!Tally(f, Z)
<1> DEFINE Sums(iter) == iter = [s \in SUBSET Z |-> IF s = {} THEN 0 ELSE B!First(s)[2] + iter[s \ {B!First(s)}]]
           g == CHOOSE iter : Sums(iter)
<1>1. S!MapThenSumSet(LAMBDA b : b[2], Z) = g[Z]
  BY DEF S!MapThenSumSet, S!MapThenFoldSet, B!First
<1>2. ASSUME NEW iter PROVE Sums(iter) <=> B!Walk(f, iter, SUBSET Z)
  <2>1. ASSUME NEW s \in SUBSET Z
        PROVE  B!Step(f, iter, s) = IF s = {} THEN 0 ELSE B!First(s)[2] + iter[s \ {B!First(s)}]
    <3>1. s # {} => f[B!First(s)] = B!First(s)[2]
      BY FirstIn
    <3>2. QED BY <3>1 DEF B!Step
  <2>2. QED BY <2>1 DEF B!Walk
<1> HIDE DEF Sums
<1>3. \E iter : Sums(iter)
  BY <1>2, WalkExists
<1>4. Sums(g)
  BY <1>3
<1> HIDE DEF g
<1>5. B!Walk(f, g, SUBSET Z)
  BY <1>2, <1>4
<1>6. PICK k : B!Walk(f, k, SUBSET Z) /\ B!Tally(f, Z) = k[Z]
  BY TallyIsWalk
<1>7. g[Z] = k[Z]
  BY <1>5, <1>6, WalkUnique
<1>8. QED BY <1>1, <1>6, <1>7

LEMMA WithTaxAre ==
  ASSUME NEW Z, B!IsFiniteSet(Z), NEW f, \A b \in Z : f[b] = b[2] + b[3]
  PROVE  S!MapThenSumSet(LAMBDA b : b[2] + b[3], Z) = B!Tally(f, Z)
<1> DEFINE Sums(iter) == iter = [s \in SUBSET Z |-> IF s = {} THEN 0 ELSE (B!First(s)[2] + B!First(s)[3]) + iter[s \ {B!First(s)}]]
           g == CHOOSE iter : Sums(iter)
<1>1. S!MapThenSumSet(LAMBDA b : b[2] + b[3], Z) = g[Z]
  BY DEF S!MapThenSumSet, S!MapThenFoldSet, B!First
<1>2. ASSUME NEW iter PROVE Sums(iter) <=> B!Walk(f, iter, SUBSET Z)
  <2>1. ASSUME NEW s \in SUBSET Z
        PROVE  B!Step(f, iter, s) = IF s = {} THEN 0 ELSE (B!First(s)[2] + B!First(s)[3]) + iter[s \ {B!First(s)}]
    <3>1. s # {} => f[B!First(s)] = B!First(s)[2] + B!First(s)[3]
      BY FirstIn
    <3>2. QED BY <3>1 DEF B!Step
  <2>2. QED BY <2>1 DEF B!Walk
<1> HIDE DEF Sums
<1>3. \E iter : Sums(iter)
  BY <1>2, WalkExists
<1>4. Sums(g)
  BY <1>3
<1> HIDE DEF g
<1>5. B!Walk(f, g, SUBSET Z)
  BY <1>2, <1>4
<1>6. PICK k : B!Walk(f, k, SUBSET Z) /\ B!Tally(f, Z) = k[Z]
  BY TallyIsWalk
<1>7. g[Z] = k[Z]
  BY <1>5, <1>6, WalkUnique
<1>8. QED BY <1>1, <1>6, <1>7, Zenon

LEMMA TaxIs == ASSUME NEW x \in Nat PROVE S!TaxOn(x) \in Nat
<1>1. x * Rate + 5 \in Nat /\ 10 \in Nat \ {0}
  BY ProductIn, OfficeScheduleAssumption
<1>2. QED BY <1>1, DivisionOf DEF S!TaxOn

LEMMA PayIs ==
  ASSUME NEW t, SignedTerms(t), NEW s \in Nat, NEW i \in Nat
  PROVE  /\ Once(t, s) \in Nat /\ Again(t) \in Nat
         /\ Pay(t, s, i)[1] = DayOf(t, s, i)
         /\ Pay(t, s, i)[2] = IF i = 0 THEN Once(t, s) ELSE Again(t)
         /\ Pay(t, s, i)[3] = S!TaxOn(IF i = 0 THEN Once(t, s) ELSE Again(t))
         /\ Pay(t, s, i)[4] = s
BY TermsAre, PaymentsAre DEF Pay, S!Entry, Once, Again

LEMMA PaysAre ==
  ASSUME NEW t, SignedTerms(t), NEW s \in Nat
  PROVE  /\ Pay(t, s, 0)[2] = Once(t, s)
         /\ \A i \in Nat : i # 0 => Pay(t, s, i)[2] = Again(t)
<1>1. 0 \in Nat
  OBVIOUS
<1>2. QED BY <1>1, PayIs

(* A season more to a sum. *)
LEMMA SeasonSum ==
  ASSUME NEW t, SignedTerms(t), NEW s \in Nat, HowMany(t, s) > 0,
         NEW A, B!IsFiniteSet(A), \A e \in A : e[4] # s,
         NEW f, \A y \in A : f[y] \in Nat,
         NEW a \in Nat, NEW r \in Nat, f[Pay(t, s, 0)] = a, \A i \in 1..(HowMany(t, s) - 1) : f[Pay(t, s, i)] = r,
         NEW v \in Nat, v = a + (HowMany(t, s) - 1) * r
  PROVE  /\ B!IsFiniteSet(A \cup S!SeasonEntries(t, s))
         /\ B!Tally(f, A) \in Nat
         /\ B!Grows(f, A, S!SeasonEntries(t, s), v)
<1> DEFINE K == HowMany(t, s) - 1
           E == [i \in 0..K |-> Pay(t, s, i)]
<1>1. K \in Nat
  BY HowManyIs
<1>2. S!SeasonEntries(t, s) = {Pay(t, s, i) : i \in 0..K}
  BY SeasonIs
<1>3. \A i \in 0..K : i \in Nat /\ Pay(t, s, i)[1] = DayOf(t, s, i) /\ Pay(t, s, i)[4] = s
  BY <1>1, PayIs
<1>4. \A i, j \in 0..K : i < j => DayOf(t, s, i) < DayOf(t, s, j) /\ DayOf(t, s, i) \in Nat
  BY DaysOf
<1> HIDE DEF K
<1>5. \A i, j \in 0..K : i # j => Pay(t, s, i) # Pay(t, s, j)
  <2>1. ASSUME NEW i \in 0..K, NEW j \in 0..K, i < j PROVE Pay(t, s, i) # Pay(t, s, j)
    BY <1>3, <1>4, <2>1
  <2>2. ASSUME NEW i \in 0..K, NEW j \in 0..K, i # j PROVE Pay(t, s, i) # Pay(t, s, j)
    <3>1. i < j \/ j < i
      BY <1>1, <2>2
    <3>2. QED BY <2>1, <3>1
  <2>3. QED BY <2>2
<1>6. \A i \in 0..K : Pay(t, s, i) \notin A
  BY <1>3
<1>7. B!Them(E, K) = S!SeasonEntries(t, s) /\ \A i \in 0..K : E[i] = Pay(t, s, i)
  BY <1>2 DEF B!Them
<1>8. 0 \in 0..K /\ \A i \in 1..K : i \in 0..K
  BY <1>1
<1>9. B!Equal(f, E, K, a, r)
  BY <1>7, <1>8 DEF K, B!Equal
<1>10. B!AllNew(E, K, A)
  BY <1>5, <1>6, <1>7 DEF B!AllNew
<1> HIDE DEF E
<1>11. v = a + K * r
  BY DEF K
<1>12. /\ B!IsFiniteSet(A \cup B!Them(E, K))
       /\ B!Tally(f, A) \in Nat
       /\ B!Grows(f, A, B!Them(E, K), v)
  BY <1>1, <1>9, <1>10, <1>11, TallyMore
<1>13. QED BY <1>7, <1>12

(* The bills of a season that is over are its payments. *)
LEMMA SeasonBilled ==
  ASSUME NEW t, SignedTerms(t), NEW s \in Nat, NEW a \in Nat, a >= S!StartOf(s + 1)
  PROVE  {b \in S!Due(t, a) : b[4] = s} = IF s <= LastSeason(t) THEN S!SeasonEntries(t, s) ELSE {}
<1>1. ASSUME NEW r \in Nat, NEW e \in S!SeasonEntries(t, r) PROVE e[4] = r
  BY TermsAre, EntriesAre
<1>2. ASSUME NEW e \in S!SeasonEntries(t, s) PROVE e[1] <= a
  <2>1. PICK i \in 0..(HowMany(t, s) - 1) : e = Pay(t, s, i)
    BY SeasonIs
  <2>2. i \in Nat /\ HowMany(t, s) \in Nat
    BY HowManyIs
  <2>3. e[1] = DayOf(t, s, i)
    BY <2>1, <2>2, PayIs
  <2>4. DayOf(t, s, i) \in Nat /\ DayOf(t, s, i) < S!StartOf(s + 1)
    BY DaysOf
  <2>5. S!StartOf(s + 1) \in Nat
    BY DaysAre
  <2>6. QED BY <2>3, <2>4, <2>5
<1>3. LastSeason(t) \in Nat /\ \A e : e \in S!Due(t, a) <=> \E r \in 0..LastSeason(t) : e \in S!SeasonEntries(t, r) /\ e[1] <= a
  BY DueMeans
<1>4. \A r \in 0..LastSeason(t) : r \in Nat /\ r <= LastSeason(t)
  BY <1>3
<1>5. CASE s <= LastSeason(t)
  <2>1. s \in 0..LastSeason(t)
    BY <1>3, <1>5
  <2>2. QED BY <1>1, <1>2, <1>3, <1>4, <1>5, <2>1
<1>6. CASE ~ (s <= LastSeason(t))
  <2>1. \A b \in S!Due(t, a) : b[4] # s
    BY <1>1, <1>3, <1>4, <1>6
  <2>2. QED BY <1>6, <2>1
<1>7. QED BY <1>5, <1>6
-----------------------------------------------------------------------------
(* The months of a season that a monthly plan is for, counted.             *)
LEMMA CountIs == ASSUME NEW a \in Nat, NEW b \in Nat, a < b PROVE S!Cardinality(a..(b - 1)) = b - a
<1>1. a \in Int /\ b - 1 \in Int /\ ~ (a > b - 1) /\ (b - 1) - a + 1 = b - a
  OBVIOUS
<1>2. S!Cardinality(a..(b - 1)) = B!Cardinality(a..(b - 1))
  BY DEF S!Cardinality, B!Cardinality, S!IsFiniteSet, B!IsFiniteSet
<1>3. QED BY <1>1, <1>2, AllBillsSound, BillsSound, FiniteAlike, B!FS_Interval

LEMMA MonthsLeft ==
  ASSUME NEW t, SignedTerms(t), NEW s \in Nat, t.kind = "monthly_recurring"
  PROVE  S!Cardinality({m \in 0..(SeasonMonths - 1) : S!StartOf(s) + (m + 1) * MonthDays > t.signed}) = HowMany(t, s)
<1> USE OfficeScheduleAssumption
<1> DEFINE q == FirstMonth(t, s)
           p == MonthOf(s)
           c == q - p
<1>1. /\ t \in S!Terms /\ t.signed \in Nat /\ p \in Nat /\ q \in Nat /\ p <= q /\ q < p + SeasonMonths
      /\ HowMany(t, s) = p + SeasonMonths - q /\ S!FirstDue(t, s) \in Nat /\ t.signed <= S!FirstDue(t, s)
      /\ S!FirstDue(t, s) = t.signed \/ q = p
      /\ S!StartOf(s) = p * MonthDays
  <2>1. t \in S!Terms /\ t.signed \in Nat
    BY TermsAre
  <2>2. /\ q \in Nat /\ p <= q /\ q < p + SeasonMonths /\ S!FirstDue(t, s) \in Nat /\ t.signed <= S!FirstDue(t, s)
        /\ S!FirstDue(t, s) = t.signed \/ q = p
    BY <2>1, FirstMonthIs
  <2>3. HowMany(t, s) = p + SeasonMonths - q
    BY DEF HowMany
  <2>4. QED BY <2>1, <2>2, <2>3, MonthsAre
<1>2. q * MonthDays <= S!FirstDue(t, s) /\ S!FirstDue(t, s) < (q + 1) * MonthDays
  BY <1>1, InMonthIs DEF FirstMonth
<1> HIDE DEF q, p
<1>3. ASSUME NEW m \in Nat PROVE S!StartOf(s) + (m + 1) * MonthDays > t.signed <=> c <= m
  <2> DEFINE e == (p + (m + 1)) * MonthDays
  <2>1. S!StartOf(s) + (m + 1) * MonthDays = e /\ e \in Nat /\ p + (m + 1) \in Nat
    BY <1>1, Distributes, ProductIn
  <2>2. q * MonthDays \in Nat /\ (q + 1) * MonthDays \in Nat
    BY <1>1, ProductIn
  <2>3. ASSUME c <= m PROVE e > t.signed
    <3>1. (q + 1) * MonthDays <= e
      BY <1>1, <2>3, MonthsApart
    <3> HIDE DEF e
    <3>2. QED BY <1>1, <1>2, <2>1, <2>2, <3>1
  <2>4. ASSUME ~ (c <= m) PROVE ~ (e > t.signed)
    <3>1. S!FirstDue(t, s) = t.signed
      BY <1>1, <2>4
    <3>2. e <= q * MonthDays
      BY <1>1, <2>1, <2>4, MonthsApart
    <3> HIDE DEF e
    <3>3. QED BY <1>1, <1>2, <2>1, <2>2, <3>1, <3>2
  <2> HIDE DEF e, c
  <2>5. QED BY <1>1, <2>1, <2>3, <2>4
<1>4. c \in Nat /\ c < SeasonMonths /\ SeasonMonths - c = HowMany(t, s)
  BY <1>1
<1> HIDE DEF c
<1>5. {m \in 0..(SeasonMonths - 1) : S!StartOf(s) + (m + 1) * MonthDays > t.signed} = c..(SeasonMonths - 1)
  <2>1. ASSUME NEW m PROVE (m \in 0..(SeasonMonths - 1) /\ S!StartOf(s) + (m + 1) * MonthDays > t.signed) <=> m \in c..(SeasonMonths - 1)
    <3>1. SeasonMonths - 1 \in Int
      OBVIOUS
    <3>2. m \in 0..(SeasonMonths - 1) => m \in Nat
      OBVIOUS
    <3>3. m \in c..(SeasonMonths - 1) => m \in Nat
      BY <1>4
    <3>4. ASSUME m \in Nat PROVE (m <= SeasonMonths - 1 /\ S!StartOf(s) + (m + 1) * MonthDays > t.signed) <=> (c <= m /\ m <= SeasonMonths - 1)
      BY <1>3, <3>4
    <3>5. QED BY <1>4, <3>1, <3>2, <3>3, <3>4
  <2>2. QED BY <2>1
<1>6. QED BY <1>4, <1>5, CountIs

(* What was agreed for a season, as its payments. *)
LEMMA AgreedIs ==
  ASSUME NEW t, SignedTerms(t), NEW s \in Nat, s <= MaxSeason
  PROVE  /\ s <= LastSeason(t) /\ HowMany(t, s) > 0 => S!Agreed(t, s) = Once(t, s) + (HowMany(t, s) - 1) * Again(t)
         /\ ~ (s <= LastSeason(t) /\ HowMany(t, s) > 0) => S!Agreed(t, s) = 0
<1>1. /\ t \in S!Terms /\ t.kind \in S!Kinds /\ t.net \in Nat /\ t.n \in Nat \ {0} /\ t.seasons \in Nat \ {0} /\ t.renews \in BOOLEAN
      /\ MaxSeason \in Nat
  BY TermsAre, OfficeScheduleAssumption
<1>2. CASE t.kind = "seasonal_installments"
  <2>1. HowMany(t, s) = t.n /\ Once(t, s) = S!FirstPayment(t) /\ Again(t) = t.net \div t.n
    BY <1>2 DEF HowMany, Once, Again, S!RecurringPayment
  <2>2. S!FirstPayment(t) = t.net - (t.net \div t.n) * (t.n - 1)
    BY <1>2 DEF S!FirstPayment
  <2>3. S!FirstPayment(t) + (t.n - 1) * (t.net \div t.n) = t.net
    BY <1>1, <2>2, Instalment
  <2>4. s <= LastSeason(t) <=> s < t.seasons \/ t.renews
    <3>1. S!Renews(t) <=> t.renews
      BY <1>2 DEF S!Renews
    <3>2. t.seasons <= MaxSeason + 1
      BY TermsAre
    <3>3. CASE t.renews
      BY <1>1, <3>1, <3>3 DEF LastSeason
    <3>4. CASE ~ t.renews
      BY <1>1, <3>1, <3>4 DEF LastSeason
    <3>5. QED BY <3>3, <3>4
  <2>5. S!Agreed(t, s) = IF s < t.seasons \/ t.renews THEN t.net ELSE 0
    BY <1>2 DEF S!Agreed
  <2>6. HowMany(t, s) > 0
    BY <1>1, <2>1
  <2>7. CASE s < t.seasons \/ t.renews
    <3>1. S!Agreed(t, s) = t.net
      BY <2>5, <2>7
    <3>2. Once(t, s) + (HowMany(t, s) - 1) * Again(t) = t.net
      BY <2>1, <2>3
    <3>3. QED BY <2>4, <2>6, <2>7, <3>1, <3>2
  <2>8. CASE ~ (s < t.seasons \/ t.renews)
    <3>1. S!Agreed(t, s) = 0
      BY <2>5, <2>8
    <3>2. QED BY <2>4, <2>8, <3>1
  <2>9. QED BY <2>7, <2>8
<1>3. CASE t.kind = "seasonal_yia"
  <2>1. S!Renews(t) <=> t.renews
    BY <1>3 DEF S!Renews
  <2>2. \A x \in Nat : (1 - 1) * x = 0 /\ x + 0 = x
    OBVIOUS
  <2>3. Once(t, s) \in Nat /\ Again(t) \in Nat
    BY PayIs
  <2>4. CASE s = 0
    <3>1. HowMany(t, s) = 1 /\ Once(t, s) = t.net * t.seasons /\ S!Agreed(t, s) = t.net * t.seasons
      BY <1>3, <2>4 DEF HowMany, Once, S!FirstPayment, S!Agreed
    <3>2. s <= LastSeason(t)
      BY <2>4, DueMeans
    <3>3. Once(t, s) + (HowMany(t, s) - 1) * Again(t) = S!Agreed(t, s)
      BY <2>2, <2>3, <3>1
    <3>4. QED BY <3>1, <3>2, <3>3
  <2>5. CASE s # 0 /\ s >= t.seasons
    <3>1. HowMany(t, s) = 1 /\ Once(t, s) = t.net /\ S!Agreed(t, s) = IF t.renews THEN t.net ELSE 0
      BY <1>1, <1>3, <2>5 DEF HowMany, Once, S!Agreed
    <3>2. s <= LastSeason(t) <=> t.renews
      <4>1. CASE t.renews
        BY <1>1, <2>1, <4>1 DEF LastSeason
      <4>2. CASE ~ t.renews
        BY <1>1, <2>1, <2>5, <4>2 DEF LastSeason
      <4>3. QED BY <4>1, <4>2
    <3>3. Once(t, s) + (HowMany(t, s) - 1) * Again(t) = t.net
      BY <2>2, <2>3, <3>1
    <3>4. CASE t.renews
      BY <3>1, <3>2, <3>3, <3>4
    <3>5. CASE ~ t.renews
      BY <3>1, <3>2, <3>5
    <3>6. QED BY <3>4, <3>5
  <2>6. CASE s # 0 /\ ~ (s >= t.seasons)
    <3>1. HowMany(t, s) = 0 /\ S!Agreed(t, s) = 0
      BY <1>3, <2>6 DEF HowMany, S!Agreed
    <3>2. QED BY <3>1
  <2>7. QED BY <2>4, <2>5, <2>6
<1>4. CASE t.kind = "monthly_recurring"
  <2>1. t.seasons = 1 /\ (S!Renews(t) <=> t.renews)
    BY <1>4 DEF SignedTerms, ProperTerms, S!Renews
  <2>2. s <= LastSeason(t) <=> s = 0 \/ t.renews
    <3>1. CASE t.renews
      BY <1>1, <2>1, <3>1 DEF LastSeason
    <3>2. CASE ~ t.renews
      BY <1>1, <2>1, <3>2 DEF LastSeason
    <3>3. QED BY <3>1, <3>2
  <2>3. HowMany(t, s) \in Nat /\ HowMany(t, s) > 0
    BY <1>4, HowManyIs
  <2>4. Once(t, s) = t.net /\ Again(t) = t.net
    BY <1>4 DEF Once, Again, S!FirstPayment, S!RecurringPayment
  <2>5. S!Agreed(t, s) = IF s = 0 \/ t.renews THEN t.net * HowMany(t, s) ELSE 0
    BY <1>4, MonthsLeft DEF S!Agreed
  <2>6. t.net * HowMany(t, s) = t.net + (HowMany(t, s) - 1) * t.net
    <3> DEFINE h == HowMany(t, s)
               k == h - 1
    <3>1. k \in Nat /\ h = 1 + k
      BY <2>3
    <3> HIDE DEF h, k
    <3>2. (1 + k) * t.net = 1 * t.net + k * t.net /\ t.net * (1 + k) = (1 + k) * t.net /\ 1 * t.net = t.net
      BY <1>1, <3>1, Distributes
    <3>3. t.net * h = t.net + k * t.net
      BY <3>1, <3>2
    <3>4. QED BY <3>3 DEF h, k
  <2>7. CASE s = 0 \/ t.renews
    <3>1. S!Agreed(t, s) = t.net * HowMany(t, s)
      BY <2>5, <2>7
    <3>2. QED BY <2>2, <2>3, <2>4, <2>6, <2>7, <3>1
  <2>8. CASE ~ (s = 0 \/ t.renews)
    <3>1. S!Agreed(t, s) = 0
      BY <2>5, <2>8
    <3>2. QED BY <2>2, <2>8, <3>1
  <2>9. QED BY <2>7, <2>8
<1>5. CASE t.kind = "monthly_one_time"
  <2>1. t.seasons = 1 /\ ~ S!Renews(t)
    BY <1>5 DEF SignedTerms, ProperTerms, S!Renews
  <2>2. LastSeason(t) = 0
    BY <2>1 DEF LastSeason
  <2>3. Once(t, s) \in Nat /\ Again(t) \in Nat
    BY PayIs
  <2>4. CASE s = 0
    <3>1. HowMany(t, s) = 1 /\ Once(t, s) = t.net /\ S!Agreed(t, s) = t.net
      BY <1>5, <2>4 DEF HowMany, Once, S!FirstPayment, S!Agreed
    <3>2. (1 - 1) * Again(t) = 0 /\ t.net + 0 = t.net
      BY <1>1, <2>3
    <3>3. QED BY <2>2, <2>4, <3>1, <3>2
  <2>5. CASE s # 0
    <3>1. HowMany(t, s) = 0 /\ S!Agreed(t, s) = 0
      BY <1>5, <2>5 DEF HowMany, S!Agreed
    <3>2. QED BY <3>1
  <2>6. QED BY <2>4, <2>5
<1>6. QED BY <1>1, <1>2, <1>3, <1>4, <1>5 DEF S!Kinds

(* The bills of a season that is over add up to what was agreed for it.    *)
LEMMA SeasonAdds ==
  ASSUME NEW t, SignedTerms(t), NEW s \in Nat, s <= MaxSeason, NEW a \in Nat, a >= S!StartOf(s + 1)
  PROVE  S!MapThenSumSet(LAMBDA b : b[2], {b \in S!Due(t, a) : b[4] = s}) = S!Agreed(t, s)
<1> DEFINE Z == {b \in S!Due(t, a) : b[4] = s}
           f == [b \in Z |-> b[2]]
<1>1. \A b \in Z : f[b] = b[2]
  OBVIOUS
<1>2. B!IsFiniteSet({}) /\ B!Tally(f, {}) = 0
  BY NoneIsFinite, TallyNothing
<1>3. CASE s <= LastSeason(t) /\ HowMany(t, s) > 0
  <2>1. Z = S!SeasonEntries(t, s)
    BY <1>3, SeasonBilled
  <2> DEFINE K == HowMany(t, s) - 1
  <2>2. K \in Nat /\ S!SeasonEntries(t, s) = {Pay(t, s, i) : i \in 0..K}
    BY <1>3, HowManyIs, SeasonIs
  <2>3. \A i \in 0..K : Pay(t, s, i) \in Z /\ i \in Nat
    BY <2>1, <2>2
  <2>4. \A i \in 0..K : f[Pay(t, s, i)] = Pay(t, s, i)[2]
    BY <2>3, <1>1
  <2> HIDE DEF f, Z
  <2>5. 0 \in 0..K /\ \A i \in 1..K : i \in 0..K /\ i # 0 /\ i \in Nat
    BY <2>2
  <2>6. f[Pay(t, s, 0)] = Once(t, s)
    BY <2>4, <2>5, PaysAre
  <2>7. ASSUME NEW i \in 1..K PROVE f[Pay(t, s, i)] = Again(t)
    <3>1. i \in 0..K /\ i # 0 /\ i \in Nat
      BY <2>5
    <3>2. Pay(t, s, i)[2] = Again(t)
      BY <3>1, PaysAre
    <3>3. QED BY <2>4, <3>1, <3>2
  <2>8. Once(t, s) \in Nat /\ Again(t) \in Nat
    BY PayIs
  <2>9. S!Agreed(t, s) = Once(t, s) + K * Again(t) /\ K * Again(t) \in Nat
    BY <1>3, <2>2, <2>8, AgreedIs, ProductIn
  <2>10. S!Agreed(t, s) \in Nat
    BY <2>8, <2>9
  <2>11. B!IsFiniteSet({} \cup S!SeasonEntries(t, s)) /\ B!Grows(f, {}, S!SeasonEntries(t, s), S!Agreed(t, s))
    BY <1>2, <1>3, <2>6, <2>7, <2>8, <2>9, <2>10, SeasonSum
  <2>12. B!IsFiniteSet(Z) /\ B!Tally(f, Z) = S!Agreed(t, s)
    <3>1. {} \cup S!SeasonEntries(t, s) = Z
      BY <2>1
    <3>2. B!Tally(f, Z) = 0 + S!Agreed(t, s)
      BY <1>2, <2>11, <3>1 DEF B!Grows
    <3>3. QED BY <2>10, <2>11, <3>1, <3>2
  <2>13. S!MapThenSumSet(LAMBDA b : b[2], Z) = B!Tally(f, Z)
    BY <1>1, <2>12, AmountsAre
  <2>14. QED BY <2>12, <2>13 DEF Z
<1>4. CASE ~ (s <= LastSeason(t) /\ HowMany(t, s) > 0)
  <2>1. Z = {}
    <3>1. CASE ~ (s <= LastSeason(t))
      BY <3>1, SeasonBilled
    <3>2. CASE s <= LastSeason(t)
      <4>1. HowMany(t, s) = 0
        BY <1>4, <3>2, HowManyIs
      <4>2. S!SeasonEntries(t, s) = {}
        BY <4>1, SeasonIs
      <4>3. QED BY <3>2, <4>2, SeasonBilled
    <3>3. QED BY <3>1, <3>2
  <2> HIDE DEF Z, f
  <2>2. S!MapThenSumSet(LAMBDA b : b[2], Z) = B!Tally(f, Z)
    BY <1>1, <1>2, <2>1, AmountsAre
  <2>3. S!Agreed(t, s) = 0
    BY <1>4, AgreedIs
  <2>4. QED BY <1>2, <2>1, <2>2, <2>3 DEF Z
<1>5. QED BY <1>3, <1>4
-----------------------------------------------------------------------------
(* The longest commitment. *)
LEMMA MaxIs == S!Max(Seasons) \in Seasons /\ \A y \in Seasons : S!Max(Seasons) >= y
<1> DEFINE T == {MaxSeason + 1 - x : x \in Seasons}
<1>1. \A x \in Seasons : x \in Nat /\ x <= MaxSeason + 1
  BY OfficeScheduleAssumption
<1>2. T \in SUBSET Nat /\ T # {}
  <2>1. MaxSeason \in Nat /\ 1 \in Seasons
    BY OfficeScheduleAssumption
  <2>2. \A x \in Seasons : MaxSeason + 1 - x \in Nat
    BY <1>1, <2>1
  <2>3. QED BY <2>1, <2>2
<1>3. PICK n \in T : \A m \in T : n <= m
  <2> HIDE DEF T
  <2>1. QED BY <1>2, Least
<1>4. PICK x \in Seasons : n = MaxSeason + 1 - x
  BY <1>3
<1>5. ASSUME NEW y \in Seasons PROVE x >= y
  <2>1. n <= MaxSeason + 1 - y
    BY <1>3
  <2>2. x \in Nat /\ y \in Nat /\ MaxSeason \in Nat
    BY <1>1, OfficeScheduleAssumption
  <2>3. QED BY <1>4, <2>1, <2>2
<1>6. \E z \in Seasons : \A y \in Seasons : z >= y
  BY <1>5
<1>7. QED BY <1>6 DEF S!Max

LEMMA StartsGrow ==
  ASSUME NEW r \in Nat, NEW s \in Nat, r <= s
  PROVE  S!StartOf(r) <= S!StartOf(s) /\ S!StartOf(r) \in Nat /\ S!StartOf(s) \in Nat
<1>1. S!StartOf(r) \in Nat /\ S!StartOf(s) \in Nat
  BY DaysAre
<1>2. CASE r = s
  BY <1>1, <1>2
<1>3. CASE r < s
  <2>1. MonthOf(r) + YearMonths <= MonthOf(s) /\ MonthOf(r) \in Nat /\ MonthOf(s) \in Nat /\ YearMonths \in Nat
    BY <1>3, MonthsGrow, MonthsAre, OfficeScheduleAssumption
  <2>2. MonthOf(r) <= MonthOf(s)
    BY <2>1
  <2>3. S!StartOf(r) = MonthOf(r) * MonthDays /\ S!StartOf(s) = MonthOf(s) * MonthDays
    BY MonthsAre
  <2>4. QED BY <1>1, <2>1, <2>2, <2>3, MonthsApart
<1>4. QED BY <1>2, <1>3

WithTax(x)   == x + S!TaxOn(x)
PerSeason(t) == WithTax(S!FirstPayment(t)) + (t.n - 1) * WithTax(S!RecurringPayment(t))

(* Tax is the same every season. *)
LEMMA InstalmentsCost ==
  ASSUME NEW t, SignedTerms(t), t.kind = "seasonal_installments"
  PROVE  PerSeason(t) \in Nat /\ S!CommitmentTotal(t) = t.seasons * PerSeason(t)
<1> DEFINE F == S!FirstPayment(t)
           R == S!RecurringPayment(t)
           m == t.n - 1
           u == S!TaxOn(F) + m * S!TaxOn(R)
<1>1. t \in S!Terms /\ t.net \in Nat /\ t.n \in Nat \ {0} /\ t.seasons \in Nat /\ m \in Nat
  BY TermsAre
<1>2. F \in Nat /\ R \in Nat
  BY <1>1, PaymentsAre
<1>3. S!TaxOn(F) \in Nat /\ S!TaxOn(R) \in Nat
  BY <1>2, TaxIs
<1>4. F = t.net - (t.net \div t.n) * (t.n - 1) /\ R = t.net \div t.n
  BY DEF S!FirstPayment, S!RecurringPayment
<1>5. t.net = F + m * R
  BY <1>1, <1>4, Instalment
<1>6. S!CommitmentTotal(t) = t.net * t.seasons + t.seasons * u
  BY DEF S!CommitmentTotal
<1>7. PerSeason(t) = (F + S!TaxOn(F)) + m * (R + S!TaxOn(R))
  BY DEF PerSeason, WithTax
<1> HIDE DEF F, R, m
<1>8. m * (R + S!TaxOn(R)) = m * R + m * S!TaxOn(R) /\ m * R \in Nat /\ m * S!TaxOn(R) \in Nat
  <2>1. \A a, b, c \in Nat : c * (a + b) = c * a + c * b
    OBVIOUS
  <2>2. QED BY <1>1, <1>2, <1>3, <2>1, ProductIn
<1>9. u \in Nat /\ PerSeason(t) = t.net + u
  BY <1>1, <1>2, <1>3, <1>5, <1>7, <1>8
<1> HIDE DEF u
<1>10. t.seasons * (t.net + u) = t.net * t.seasons + t.seasons * u
  <2>1. \A a, b, c \in Nat : c * (a + b) = a * c + c * b
    OBVIOUS
  <2>2. QED BY <1>1, <1>9, <2>1
<1>11. QED BY <1>1, <1>6, <1>9, <1>10

LEMMA CommitmentAdds ==
  ASSUME NEW t, SignedTerms(t), t.kind # "monthly_recurring", NEW a \in Nat, a >= S!StartOf(t.seasons)
  PROVE  S!MapThenSumSet(LAMBDA b : b[2] + b[3], {b \in S!Due(t, a) : b[4] < t.seasons}) = S!CommitmentTotal(t)
<1> DEFINE f == [b \in S!Due(t, a) |-> b[2] + b[3]]
           Z(m) == {b \in S!Due(t, a) : b[4] < m}
<1>1. /\ t \in S!Terms /\ t.kind \in S!Kinds /\ t.net \in Nat /\ t.n \in Nat \ {0} /\ t.seasons \in Nat \ {0}
      /\ t.seasons <= MaxSeason + 1 /\ MaxSeason \in Nat
  BY TermsAre, OfficeScheduleAssumption
<1>2. ASSUME NEW b \in S!Due(t, a)
      PROVE  /\ b[2] \in Nat /\ b[3] = S!TaxOn(b[2]) /\ b[4] \in Nat /\ b[4] <= LastSeason(t)
             /\ b \in S!SeasonEntries(t, b[4])
             /\ f[b] = b[2] + b[3] /\ f[b] = WithTax(b[2]) /\ f[b] \in Nat
  <2>1. PICK r \in 0..LastSeason(t) : b \in S!SeasonEntries(t, r)
    BY DueMeans
  <2>2. r \in Nat /\ r <= LastSeason(t)
    BY DueMeans
  <2>3. b[2] \in Nat /\ b[3] = S!TaxOn(b[2]) /\ b[4] = r
    BY <1>1, <2>1, <2>2, EntriesAre
  <2>4. S!TaxOn(b[2]) \in Nat
    BY <2>3, TaxIs
  <2>5. QED BY <2>1, <2>2, <2>3, <2>4 DEF WithTax
<1>3. ASSUME NEW m \in Nat, m < t.seasons
      PROVE  {b \in S!Due(t, a) : b[4] = m} = S!SeasonEntries(t, m)
  <2>1. m <= LastSeason(t)
    BY <1>1, <1>3 DEF LastSeason
  <2>2. m + 1 \in Nat /\ m + 1 <= t.seasons
    BY <1>1, <1>3
  <2>3. a >= S!StartOf(m + 1)
    BY <1>1, <2>2, StartsGrow
  <2>4. QED BY <2>1, <2>3, SeasonBilled
<1>4. ASSUME NEW m \in Nat, m < t.seasons, NEW i \in 0..(HowMany(t, m) - 1)
      PROVE  f[Pay(t, m, i)] = WithTax(IF i = 0 THEN Once(t, m) ELSE Again(t))
  <2>1. i \in Nat
    BY HowManyIs
  <2>2. Pay(t, m, i) \in S!Due(t, a)
    BY <1>3, <1>4, SeasonIs
  <2>3. Pay(t, m, i)[2] = IF i = 0 THEN Once(t, m) ELSE Again(t)
    BY <2>1, PayIs
  <2>4. QED BY <1>2, <2>2, <2>3
<1>5. \A x \in Nat : WithTax(x) \in Nat
  BY TaxIs DEF WithTax
<1> HIDE DEF f
<1>6. ASSUME NEW m \in Nat, m < t.seasons, HowMany(t, m) > 0, NEW A, B!IsFiniteSet(A), A \subseteq S!Due(t, a), \A e \in A : e[4] # m,
             NEW v \in Nat, v = WithTax(Once(t, m)) + (HowMany(t, m) - 1) * WithTax(Again(t))
      PROVE  B!IsFiniteSet(A \cup S!SeasonEntries(t, m)) /\ B!Tally(f, A) \in Nat /\ B!Grows(f, A, S!SeasonEntries(t, m), v)
  <2>1. HowMany(t, m) \in Nat /\ Once(t, m) \in Nat /\ Again(t) \in Nat
    BY HowManyIs, PayIs
  <2>2. WithTax(Once(t, m)) \in Nat /\ WithTax(Again(t)) \in Nat
    BY <1>5, <2>1
  <2>3. 0 \in 0..(HowMany(t, m) - 1)
    BY <1>6, <2>1
  <2>4. f[Pay(t, m, 0)] = WithTax(Once(t, m))
    BY <1>4, <1>6, <2>3
  <2>5. ASSUME NEW i \in 1..(HowMany(t, m) - 1) PROVE f[Pay(t, m, i)] = WithTax(Again(t))
    <3>1. i \in 0..(HowMany(t, m) - 1) /\ i # 0
      BY <2>1
    <3>2. QED BY <1>4, <1>6, <3>1
  <2>6. \A y \in A : f[y] \in Nat
    BY <1>2, <1>6
  <2>7. QED BY <1>6, <2>2, <2>4, <2>5, <2>6, SeasonSum
<1>7. B!IsFiniteSet({}) /\ B!Tally(f, {}) = 0
  BY NoneIsFinite, TallyNothing
<1>8. SUFFICES B!IsFiniteSet(Z(t.seasons)) /\ B!Tally(f, Z(t.seasons)) = S!CommitmentTotal(t)
  <2>1. \A b \in Z(t.seasons) : f[b] = b[2] + b[3]
    BY <1>2
  <2> DEFINE Y == Z(t.seasons)
  <2> HIDE DEF Y
  <2>2. (\A b \in Y : f[b] = b[2] + b[3]) /\ B!IsFiniteSet(Y) => S!MapThenSumSet(LAMBDA b : b[2] + b[3], Y) = B!Tally(f, Y)
    BY WithTaxAre, Zenon
  <2>3. B!IsFiniteSet(Y) /\ B!Tally(f, Y) = S!CommitmentTotal(t)
    BY <1>8 DEF Y
  <2>4. \A b \in Y : f[b] = b[2] + b[3]
    BY <2>1 DEF Y
  <2>5. S!MapThenSumSet(LAMBDA b : b[2] + b[3], Y) = S!CommitmentTotal(t)
    BY <2>2, <2>3, <2>4, Zenon
  <2>6. QED BY <2>5, Zenon DEF Y
<1>9. CASE t.kind = "seasonal_installments"
  <2> DEFINE v == PerSeason(t)
             Sum(m) == B!IsFiniteSet(Z(m)) /\ B!Tally(f, Z(m)) \in Nat /\ B!Tally(f, Z(m)) = m * v
             T == {m \in Nat : m <= t.seasons => Sum(m)}
  <2>1. v \in Nat /\ S!CommitmentTotal(t) = t.seasons * v
    BY <1>9, InstalmentsCost
  <2>2. ASSUME NEW m \in Nat PROVE HowMany(t, m) = t.n /\ v = WithTax(Once(t, m)) + (HowMany(t, m) - 1) * WithTax(Again(t))
    BY <1>9 DEF HowMany, Once, Again, PerSeason
  <2> HIDE DEF v
  <2>3. 0 \in T
    <3>1. Z(0) = {}
      BY <1>2
    <3>2. 0 * v = 0
      BY <2>1
    <3>3. B!IsFiniteSet(Z(0)) /\ B!Tally(f, Z(0)) = 0
      BY <1>7, <3>1, Zenon
    <3> HIDE DEF Z
    <3>4. Sum(0)
      BY <3>2, <3>3
    <3>5. QED BY <3>4
  <2>4. ASSUME NEW m \in Nat, m + 1 <= t.seasons, Sum(m) PROVE Sum(m + 1)
    <3>1. m < t.seasons /\ HowMany(t, m) > 0
      BY <1>1, <2>2, <2>4
    <3>2. Z(m) \subseteq S!Due(t, a) /\ \A e \in Z(m) : e[4] # m
      BY <1>2
    <3>3. Z(m + 1) = Z(m) \cup S!SeasonEntries(t, m)
      <4>1. \A b \in S!Due(t, a) : b[4] < m + 1 <=> b[4] < m \/ b[4] = m
        BY <1>2
      <4>2. {b \in S!Due(t, a) : b[4] = m} = S!SeasonEntries(t, m)
        BY <1>3, <3>1
      <4>3. QED BY <4>1, <4>2
    <3> HIDE DEF Z
    <3>4. B!IsFiniteSet(Z(m)) /\ B!Tally(f, Z(m)) \in Nat /\ B!Tally(f, Z(m)) = m * v
      BY <2>4
    <3>5. B!IsFiniteSet(Z(m) \cup S!SeasonEntries(t, m)) /\ B!Grows(f, Z(m), S!SeasonEntries(t, m), v)
      BY <1>6, <2>1, <2>2, <3>1, <3>2, <3>4
    <3>6. B!Tally(f, Z(m + 1)) = B!Tally(f, Z(m)) + v
      BY <3>3, <3>5 DEF B!Grows
    <3>7. (m + 1) * v = m * v + v
      <4>1. \A x, y \in Nat : (x + 1) * y = x * y + y
        OBVIOUS
      <4>2. QED BY <2>1, <4>1
    <3>8. B!Tally(f, Z(m + 1)) = (m + 1) * v
      BY <3>4, <3>6, <3>7
    <3>9. B!Tally(f, Z(m + 1)) \in Nat
      BY <2>1, <3>4, <3>6
    <3>10. B!IsFiniteSet(Z(m + 1))
      BY <3>3, <3>5
    <3>11. QED BY <3>8, <3>9, <3>10
  <2>5. T = Nat
    <3> HIDE DEF Sum
    <3>1. \A m \in T : m + 1 \in T
      BY <1>1, <2>4
    <3>2. T \subseteq Nat
      OBVIOUS
    <3> HIDE DEF T
    <3>3. QED BY <2>3, <3>1, <3>2, Climb
  <2> HIDE DEF Z
  <2>6. Sum(t.seasons)
    <3>1. t.seasons \in T /\ t.seasons \in Nat /\ t.seasons <= t.seasons
      <4> HIDE DEF T
      <4>1. QED BY <1>1, <2>5
    <3> HIDE DEF Sum
    <3>2. QED BY <3>1 DEF T
  <2>7. QED BY <2>1, <2>6
<1>10. CASE t.kind # "seasonal_installments"
  <2>1. \A s \in Nat : s < t.seasons => HowMany(t, s) = IF s = 0 THEN 1 ELSE 0
    BY <1>1, <1>10 DEF HowMany, S!Kinds
  <2>2. Z(t.seasons) = S!SeasonEntries(t, 0)
    <3>1. ASSUME NEW b \in S!Due(t, a), b[4] < t.seasons PROVE b[4] = 0
      <4>1. SUFFICES ASSUME b[4] # 0 PROVE FALSE
        OBVIOUS
      <4>2. b[4] \in Nat /\ b \in S!SeasonEntries(t, b[4])
        BY <1>2
      <4>3. HowMany(t, b[4]) = 0
        BY <2>1, <3>1, <4>1, <4>2
      <4>4. S!SeasonEntries(t, b[4]) = {}
        BY <4>2, <4>3, SeasonIs
      <4>5. QED BY <4>2, <4>4
    <3>2. {b \in S!Due(t, a) : b[4] = 0} = S!SeasonEntries(t, 0)
      BY <1>1, <1>3
    <3>3. QED BY <1>1, <3>1, <3>2
  <2> DEFINE v == WithTax(S!FirstPayment(t))
  <2>3. HowMany(t, 0) = 1 /\ Once(t, 0) = S!FirstPayment(t) /\ S!FirstPayment(t) \in Nat /\ Again(t) \in Nat
    BY <1>1, <2>1, PaymentsAre, PayIs DEF Once
  <2>4. v \in Nat /\ WithTax(Again(t)) \in Nat
    BY <1>5, <2>3
  <2>5. v = WithTax(Once(t, 0)) + (HowMany(t, 0) - 1) * WithTax(Again(t))
    <3>1. HowMany(t, 0) - 1 = 0 /\ 0 * WithTax(Again(t)) = 0
      BY <2>3, <2>4
    <3>2. QED BY <2>3, <2>4, <3>1
  <2>6. S!CommitmentTotal(t) = v
    BY <1>10 DEF S!CommitmentTotal, WithTax
  <2> HIDE DEF v, Z
  <2>7. B!IsFiniteSet({} \cup S!SeasonEntries(t, 0)) /\ B!Grows(f, {}, S!SeasonEntries(t, 0), v)
    <3>1. 0 < t.seasons /\ HowMany(t, 0) > 0
      BY <1>1, <2>3
    <3> DEFINE A == {}
    <3>2. A \subseteq S!Due(t, a) /\ \A e \in A : e[4] # 0
      OBVIOUS
    <3>3. B!IsFiniteSet(A)
      BY <1>7
    <3> HIDE DEF A
    <3>4. 0 \in Nat
      OBVIOUS
    <3>5. B!IsFiniteSet(A \cup S!SeasonEntries(t, 0)) /\ B!Grows(f, A, S!SeasonEntries(t, 0), v)
      BY <1>6, <2>4, <2>5, <3>1, <3>2, <3>3, <3>4
    <3>6. QED BY <3>5 DEF A
  <2>8. {} \cup S!SeasonEntries(t, 0) = Z(t.seasons)
    BY <2>2
  <2>9. B!Tally(f, Z(t.seasons)) = 0 + v
    BY <1>7, <2>7, <2>8 DEF B!Grows
  <2>10. QED BY <2>4, <2>6, <2>7, <2>8, <2>9
<1>11. QED BY <1>9, <1>10

(* What was signed keeps its payments apart. *)
KeptApart == scheduleTerms # NoTerms => S!KeepsApart(scheduleTerms)

(* Bills of seasons that are over are what was agreed. *)
LEMMA SeasonsAdd ==
  ASSUME S!ScheduleTypeOK, RaisedInv, KeptApart
  PROVE  S!SeasonAddsUp
<1>1. ASSUME NEW s \in Nat, S!OverAndBilled(s)
      PROVE  /\ SignedTerms(scheduleTerms) /\ scheduleAsOf \in Nat /\ scheduleAsOf >= S!StartOf(s + 1)
             /\ scheduleBills = S!Due(scheduleTerms, scheduleAsOf)
  <2>1. scheduleTerms # NoTerms /\ scheduleAsOf >= S!StartOf(s + 1) + SeasonMonths * MonthDays
    BY <1>1 DEF S!OverAndBilled
  <2>2. scheduleAsOf \in Nat
    BY OfficeScheduleAssumption DEF S!ScheduleTypeOK
  <2>3. S!StartOf(s + 1) \in Nat /\ SeasonMonths * MonthDays \in Nat
    BY DaysAre, ProductIn, OfficeScheduleAssumption
  <2>4. SeasonMonths * MonthDays > 0
    <3>1. 1 * MonthDays <= SeasonMonths * MonthDays /\ 1 * MonthDays = MonthDays
      BY Between, OfficeScheduleAssumption
    <3>2. QED BY <2>3, <3>1, OfficeScheduleAssumption
  <2>5. scheduleAsOf >= S!StartOf(s + 1) /\ scheduleAsOf # 0
    BY <2>1, <2>2, <2>3, <2>4
  <2>6. QED BY <2>1, <2>2, <2>5 DEF RaisedInv, KeptApart, SignedTerms
<1>2. ASSUME NEW s \in 0..MaxSeason, S!OverAndBilled(s) PROVE S!BilledFor(s) = S!Agreed(scheduleTerms, s)
  <2>1. s \in Nat /\ s <= MaxSeason
    BY OfficeScheduleAssumption
  <2>2. SignedTerms(scheduleTerms) /\ scheduleAsOf \in Nat /\ scheduleAsOf >= S!StartOf(s + 1) /\ scheduleBills = S!Due(scheduleTerms, scheduleAsOf)
    BY <1>1, <1>2, <2>1
  <2>3. S!MapThenSumSet(LAMBDA b : b[2], {b \in S!Due(scheduleTerms, scheduleAsOf) : b[4] = s}) = S!Agreed(scheduleTerms, s)
    BY <2>1, <2>2, SeasonAdds
  <2>4. QED BY <2>2, <2>3 DEF S!BilledFor
<1>3. ASSUME S!OverAndBilled(S!Max(Seasons) - 1), scheduleTerms.kind # "monthly_recurring"
      PROVE  S!MapThenSumSet(LAMBDA b : b[2] + b[3], {b \in scheduleBills : b[4] < scheduleTerms.seasons}) = S!CommitmentTotal(scheduleTerms)
  <2>1. S!Max(Seasons) \in Nat \ {0} /\ \A y \in Seasons : S!Max(Seasons) >= y
    BY MaxIs, OfficeScheduleAssumption
  <2>2. S!Max(Seasons) - 1 \in Nat /\ (S!Max(Seasons) - 1) + 1 = S!Max(Seasons)
    BY <2>1
  <2>3. SignedTerms(scheduleTerms) /\ scheduleAsOf \in Nat /\ scheduleAsOf >= S!StartOf(S!Max(Seasons)) /\ scheduleBills = S!Due(scheduleTerms, scheduleAsOf)
    BY <1>1, <1>3, <2>2
  <2>4. scheduleTerms.seasons \in Seasons /\ scheduleTerms.seasons \in Nat
    BY <2>3, TermsAre
  <2>5. S!StartOf(scheduleTerms.seasons) <= S!StartOf(S!Max(Seasons)) /\ S!StartOf(scheduleTerms.seasons) \in Nat /\ S!StartOf(S!Max(Seasons)) \in Nat
    BY <2>1, <2>4, StartsGrow
  <2>6. scheduleAsOf >= S!StartOf(scheduleTerms.seasons)
    BY <2>3, <2>5
  <2>7. S!MapThenSumSet(LAMBDA b : b[2] + b[3], {b \in S!Due(scheduleTerms, scheduleAsOf) : b[4] < scheduleTerms.seasons}) = S!CommitmentTotal(scheduleTerms)
    BY <1>3, <2>3, <2>6, CommitmentAdds, Zenon
  <2>8. QED BY <2>3, <2>7, Zenon
<1>4. QED BY <1>2, <1>3, Zenon DEF S!SeasonAddsUp

(* A schedule's bills add up, where its payments keep apart.               *)
LEMMA ScheduleAddsUp == S!Spec => [](KeptApart => S!SeasonAddsUp)
<1>1. S!Init => RaisedInv
  BY DEF S!Init, RaisedInv
<1>2. S!ScheduleTypeOK /\ RaisedInv /\ [S!Next]_(S!scheduleVars) => RaisedInv'
  BY RaisedHolds
<1>3. S!ScheduleTypeOK /\ RaisedInv => (KeptApart => S!SeasonAddsUp)
  BY SeasonsAdd
<1>4. QED BY <1>1, <1>2, <1>3, ScheduleTyped, PTL DEF S!Spec

(* Of the payments due on a day, one is of the earliest season; and what   *)
(* was due once still is.                                                  *)
LEMMA FirstOfDay ==
  ASSUME NEW t \in S!Terms, NEW z \in Nat, NEW e \in S!Due(t, z)
  PROVE  \E d \in S!Due(t, z) : d[1] = e[1] /\ ~ \E x \in S!Due(t, z) : x[1] = d[1] /\ x[4] < d[4]
<1> DEFINE Owed == S!Due(t, z)
           Ranks == {x[4] : x \in {y \in Owed : y[1] = e[1]}}
<1>1. ASSUME NEW x \in Owed PROVE x[4] \in Nat
  <2> DEFINE last == IF S!Renews(t) THEN MaxSeason ELSE t.seasons - 1
  <2>1. PICK s \in 0..last : x \in S!SeasonEntries(t, s)
    BY DEF S!Due
  <2>2. s \in Nat
    BY <2>1
  <2>3. QED BY <2>1, <2>2, EntriesAre
<1>2. e \in Owed
  OBVIOUS
<1> HIDE DEF Owed
<1>3. Ranks \in SUBSET Nat /\ Ranks # {}
  BY <1>1, <1>2
<1>4. PICK k \in Ranks : \A j \in Ranks : k <= j
  BY <1>3, Least
<1>5. PICK d \in Owed : d[1] = e[1] /\ d[4] = k
  BY <1>4
<1>6. ASSUME NEW x \in Owed, x[1] = d[1], x[4] < d[4] PROVE FALSE
  <2>1. x[4] \in Ranks /\ k \in Nat /\ x[4] \in Nat
    BY <1>1, <1>3, <1>5, <1>6
  <2>2. k <= x[4]
    BY <1>4, <2>1
  <2>3. QED BY <1>5, <1>6, <2>1, <2>2
<1>7. QED BY <1>5, <1>6 DEF Owed

LEMMA DueStays ==
  ASSUME NEW t \in S!Terms, NEW a \in Nat, NEW z \in Nat, a <= z, NEW e \in S!Due(t, a)
  PROVE  e \in S!Due(t, z)
<1> DEFINE last == IF S!Renews(t) THEN MaxSeason ELSE t.seasons - 1
<1>1. PICK s \in 0..last : (s = 0 \/ S!StartOf(s) <= a) /\ e \in S!SeasonEntries(t, s) /\ e[1] <= a
  BY DEF S!Due
<1>2. s \in Nat
  BY <1>1
<1>3. e[1] \in Nat /\ S!StartOf(s) \in Nat
  BY <1>1, <1>2, EntriesAre, DaysAre
<1>4. e[1] <= z /\ (s = 0 \/ S!StartOf(s) <= z)
  BY <1>1, <1>3
<1> HIDE DEF last
<1>5. s \in {r \in 0..last : r = 0 \/ S!StartOf(r) <= z}
  BY <1>1, <1>4
<1>6. QED BY <1>1, <1>4, <1>5 DEF S!Due, last

(* A run leaves no day with a payment due without its bill.                *)
LEMMA DueDaysStayBilled ==
  ASSUME S!ScheduleTypeOK, RaisedInv, S!DueDaysBilled, [S!Next]_(S!scheduleVars)
  PROVE  S!DueDaysBilled'
<1>1. CASE S!Sign
  <2>1. scheduleBills' = {}
    BY <1>1 DEF S!Sign, RaisedInv
  <2>2. QED BY <2>1 DEF S!DueDaysBilled
<1>2. CASE S!NextDay
  BY <1>2 DEF S!NextDay, S!DueDaysBilled
<1>3. CASE S!RaiseScheduled
  <2> DEFINE t == scheduleTerms
             Owed == S!Due(t, scheduleToday)
  <2>1. t # NoTerms /\ scheduleTerms' = t /\ scheduleAsOf' = scheduleToday /\ t \in S!Terms
    BY <1>3 DEF S!RaiseScheduled, S!ScheduleTypeOK
  <2>2. scheduleAsOf \in Nat /\ scheduleToday \in Nat /\ scheduleAsOf <= scheduleToday
    BY OfficeScheduleAssumption DEF S!ScheduleTypeOK
  <2>3. scheduleBills' = scheduleBills \cup {e \in Owed : /\ ~ \E b \in scheduleBills : b[1] = e[1]
                                                        /\ ~ \E d \in Owed : d[1] = e[1] /\ d[4] < e[4]}
    BY <1>3 DEF S!RaiseScheduled
  <2>4. scheduleBills \subseteq Owed
    BY <2>1, <2>2, DueStays DEF S!DueDaysBilled
  <2>5. ASSUME NEW e \in Owed PROVE \E b \in scheduleBills' : b[1] = e[1]
    <3>1. PICK d \in Owed : d[1] = e[1] /\ ~ \E x \in Owed : x[1] = d[1] /\ x[4] < d[4]
      BY <2>1, <2>2, FirstOfDay
    <3> HIDE DEF Owed
    <3>2. QED BY <2>3, <3>1
  <2>6. S!Due(scheduleTerms, scheduleAsOf)' = Owed
    BY <2>1
  <2> HIDE DEF Owed
  <2>7. scheduleBills' \subseteq Owed
    BY <2>3, <2>4
  <2>8. QED BY <2>5, <2>6, <2>7 DEF S!DueDaysBilled
<1>4. CASE UNCHANGED S!scheduleVars
  BY <1>4 DEF S!scheduleVars, S!DueDaysBilled
<1>5. QED BY <1>1, <1>2, <1>3, <1>4 DEF S!Next

LEMMA NoDueDayIsMissed == S!Spec => []S!DueDaysBilled
<1>1. S!Init => RaisedInv /\ S!DueDaysBilled
  BY DEF S!Init, RaisedInv, S!DueDaysBilled
<1>2. S!ScheduleTypeOK /\ RaisedInv /\ [S!Next]_(S!scheduleVars) => RaisedInv'
  BY RaisedHolds
<1>3. S!ScheduleTypeOK /\ RaisedInv /\ S!DueDaysBilled /\ [S!Next]_(S!scheduleVars) => S!DueDaysBilled'
  BY DueDaysStayBilled
<1>4. QED BY <1>1, <1>2, <1>3, ScheduleTyped, PTL DEF S!Spec
-----------------------------------------------------------------------------
(* The office is about one component from beginning to end, begins as that *)
(* component begins, and takes its steps.                                  *)
LEMMA SubjectStays ==
  ASSUME NEW s, [OfficeNext]_officeVars
  PROVE  Is(s)' <=> Is(s)
BY DEF OfficeNext, officeVars, Is

LEMMA OfficeStarts ==
  OfficeInit =>
    /\ Is("tabs") => P!Init
    /\ Is("billing") => B!Init
    /\ Is("crediting") => C!Init
    /\ Is("spending") => D!Init
    /\ Is("records") => Init
    /\ Is("schedule") => S!Init
BY DEF OfficeInit, Is

LEMMA OfficeMoves ==
  [OfficeNext]_officeVars =>
    /\ Is("tabs") => [P!Next]_P!vars
    /\ Is("billing") => [B!Next]_B!vars
    /\ Is("crediting") => [C!Next]_C!vars
    /\ Is("spending") => [D!Next]_D!vars
    /\ Is("records") => [Next]_vars
    /\ Is("schedule") => [S!Next]_S!scheduleVars
<1> SUFFICES ASSUME [OfficeNext]_officeVars
             PROVE  /\ Is("tabs") => [P!Next]_P!vars
                    /\ Is("billing") => [B!Next]_B!vars
                    /\ Is("crediting") => [C!Next]_C!vars
                    /\ Is("spending") => [D!Next]_D!vars
                    /\ Is("records") => [Next]_vars
                    /\ Is("schedule") => [S!Next]_S!scheduleVars
  OBVIOUS
<1>1. CASE OfficeNext
  BY <1>1 DEF OfficeNext, Is
<1>2. CASE UNCHANGED officeVars
  <2>1. UNCHANGED P!vars
    BY <1>2 DEF officeVars, tabsVars, P!vars, P!invoice, P!requests, P!processor
  <2>2. UNCHANGED B!vars /\ UNCHANGED C!vars /\ UNCHANGED D!vars
    BY <1>2 DEF officeVars, billingVars, B!vars, B!deals, B!books, B!run, C!vars, C!deals, C!books, C!run,
                D!vars, D!deals, D!books, D!run
  <2>3. UNCHANGED vars /\ UNCHANGED S!scheduleVars
    BY <1>2 DEF officeVars, recordsVars, scheduleVars, vars, S!scheduleVars
  <2>4. QED BY <2>1, <2>2, <2>3
<1>3. QED BY <1>1, <1>2

(* A behaviour of the office that is about a component is a behaviour of   *)
(* that component.                                                         *)
THEOREM OfficeIsOneOfThem ==
  OfficeSpec =>
    /\ Is("tabs") => P!Spec
    /\ Is("billing") => B!Spec
    /\ Is("crediting") => C!Spec
    /\ Is("spending") => D!Spec
    /\ Is("records") => Spec
    /\ Is("schedule") => S!Spec
<1>1. [OfficeNext]_officeVars => /\ Is("tabs")' <=> Is("tabs")
                                 /\ Is("billing")' <=> Is("billing")
                                 /\ Is("crediting")' <=> Is("crediting")
                                 /\ Is("spending")' <=> Is("spending")
                                 /\ Is("records")' <=> Is("records")
                                 /\ Is("schedule")' <=> Is("schedule")
  BY SubjectStays
<1>2. OfficeSpec => (Is("tabs") => P!Spec)
  BY <1>1, OfficeStarts, OfficeMoves, PTL DEF OfficeSpec, P!Spec
<1>3. OfficeSpec => (Is("billing") => B!Spec)
  BY <1>1, OfficeStarts, OfficeMoves, PTL DEF OfficeSpec, B!Spec
<1>4. OfficeSpec => (Is("crediting") => C!Spec)
  BY <1>1, OfficeStarts, OfficeMoves, PTL DEF OfficeSpec, C!Spec
<1>5. OfficeSpec => (Is("spending") => D!Spec)
  BY <1>1, OfficeStarts, OfficeMoves, PTL DEF OfficeSpec, D!Spec
<1>6. OfficeSpec => (Is("records") => Spec)
  BY <1>1, OfficeStarts, OfficeMoves, PTL DEF OfficeSpec, Spec
<1>7. OfficeSpec => (Is("schedule") => S!Spec)
  BY <1>1, OfficeStarts, OfficeMoves, PTL DEF OfficeSpec, S!Spec
<1>8. QED BY <1>2, <1>3, <1>4, <1>5, <1>6, <1>7

-----------------------------------------------------------------------------
(* A deletion keeps what a deletion may not take: the records are well     *)
(* formed, payments have their invoices and these their contracts, and no  *)
(* accepted quote is left without its contract.                            *)
THEOREM RecordsHold == Spec => []RecordsInv
<1>1. RecordsInv /\ [Next]_vars => RecordsInv'
  BY RecordsStep
<1>2. QED BY <1>1, FirstRecords, PTL DEF Spec

(* What an office behaviour about deletions keeps.                         *)
LEMMA OfficeRecords == OfficeSpec => [](Is("records") => RecordsInv)
<1>1. [OfficeNext]_officeVars => (Is("records")' <=> Is("records"))
  BY SubjectStays
<1>2. OfficeSpec => (Is("records") => Spec)
  BY OfficeIsOneOfThem
<1>3. QED BY <1>1, <1>2, RecordsHold, PTL DEF OfficeSpec

(* Deleting a contract leaves a deal to sign again, and whatever else is   *)
(* deleted leaves no accepted quote without its contract                   *)
(* (services/deletion.ts).                                                 *)
THEOREM NoneAreStranded == OfficeSpec => []NoDealStranded
<1>1. (Is("records") => RecordsInv) => NoDealStranded
  BY DEF NoDealStranded, RecordsInv
<1>2. QED BY <1>1, OfficeRecords, PTL

(* A deletion takes no history, nobody else's rows, and no money but by    *)
(* those who may take it (services/deletion.ts and the foreign keys of     *)
(* src/db/migrations), for whatever customers, accounts and branches.      *)
THEOREM DeletionsKeepTheirs == OfficeSpec => DeletionsKeep
<1>1. (Is("records") => RecordsInv) /\ [OfficeNext]_officeVars =>
        (Is("records") => HistoryStays /\ KeepsToItsOwn /\ MoneyGoesByOffice)
  BY OfficeMoves, RecordsStep
<1>2. QED BY <1>1, OfficeRecords, PTL DEF OfficeSpec, DeletionsKeep

-----------------------------------------------------------------------------
(* A period of a contract is billed once, whatever runs and offices raise  *)
(* at the same time (services/invoices.ts), and a bill is paid once from   *)
(* two tabs, where every answer is final (services/portal.ts).             *)
THEOREM OfficeBillsOnce == OfficeSpec => []BilledAndPaidOnce
<1>1. B!Spec => []B!BilledOnce
  BY AllBillsSound, BillsSound, FiniteAlike, B!BillingOnce
<1>2. D!Spec => []D!BilledOnce
  BY AllBillsSound, BillsSound, FiniteAlike, D!BillingOnce
<1>3. P!Spec => []P!TabsPayOnce
  BY TabsSound, P!TabsChargeOnce
<1>4. [OfficeNext]_officeVars => /\ Is("tabs")' <=> Is("tabs")
                                 /\ Is("billing")' <=> Is("billing")
                                 /\ Is("spending")' <=> Is("spending")
  BY SubjectStays
<1>5. OfficeSpec => (Is("tabs") => P!Spec) /\ (Is("billing") => B!Spec) /\ (Is("spending") => D!Spec)
  BY OfficeIsOneOfThem
<1>6. BilledAndPaidOnce <=>
        (Is("billing") => B!BilledOnce) /\ (Is("spending") => D!BilledOnce) /\ (Is("tabs") => P!TabsPayOnce)
  BY DEF BilledAndPaidOnce
<1>7. QED BY <1>1, <1>2, <1>3, <1>4, <1>5, <1>6, PTL DEF OfficeSpec

(* Credit is not spent twice by bills raised at once, and a referral earns *)
(* its credit when the bill is paid, once (services/credits.ts).           *)
THEOREM OfficeCreditHonest == OfficeSpec => []CreditHonest
<1>1. C!Spec => []C!NoOverdraft
  BY AllBillsSound, BillsSound, FiniteAlike, C!CreditSpentOnce
<1>2. C!Spec => []C!ReferralsPaid
  BY AllBillsSound, BillsSound, FiniteAlike, C!ReferralsArePaid
<1>3. D!Spec => []D!NoOverdraft
  BY AllBillsSound, BillsSound, FiniteAlike, D!CreditSpentOnce
<1>4. D!Spec => []D!ReferralsPaid
  BY AllBillsSound, BillsSound, FiniteAlike, D!ReferralsArePaid
<1>5. [OfficeNext]_officeVars => /\ Is("crediting")' <=> Is("crediting")
                                 /\ Is("spending")' <=> Is("spending")
  BY SubjectStays
<1>6. OfficeSpec => (Is("crediting") => C!Spec) /\ (Is("spending") => D!Spec)
  BY OfficeIsOneOfThem
<1>7. CreditHonest <=>
        (Is("crediting") => C!NoOverdraft /\ C!ReferralsPaid) /\ (Is("spending") => D!NoOverdraft /\ D!ReferralsPaid)
  BY DEF CreditHonest
<1>8. QED BY <1>1, <1>2, <1>3, <1>4, <1>5, <1>6, <1>7, PTL DEF OfficeSpec

-----------------------------------------------------------------------------
(* The bills of a season that is over add up to what was agreed for it, to *)
(* the cent, and the bills of a commitment to its total with tax, whatever *)
(* nights the run was missed (types/serviceAgreement.ts,                   *)
(* services/invoices.ts): for every agreement that can be signed, as long  *)
(* as its payments keep apart, so that each has a day of its own.          *)
THEOREM SeasonsAddUp == OfficeSpec => [](KeptApart => SeasonAddsUp)
<1>1. [OfficeNext]_officeVars => (Is("schedule")' <=> Is("schedule"))
  BY SubjectStays
<1>2. OfficeSpec => (Is("schedule") => S!Spec)
  BY OfficeIsOneOfThem
<1>3. (Is("schedule") => (KeptApart => S!SeasonAddsUp)) => (KeptApart => SeasonAddsUp)
  BY DEF SeasonAddsUp
<1>4. QED BY <1>1, <1>2, <1>3, ScheduleAddsUp, PTL DEF OfficeSpec

(* Of any agreement at all, also one whose payments meet on a day: nothing *)
(* is billed that the schedule did not have due, and no day with a payment *)
(* due goes without a bill once the run has been (services/invoices.ts).   *)
THEOREM NoDayIsMissed == OfficeSpec => [](Is("schedule") => S!DueDaysBilled)
<1>1. [OfficeNext]_officeVars => (Is("schedule")' <=> Is("schedule"))
  BY SubjectStays
<1>2. OfficeSpec => (Is("schedule") => S!Spec)
  BY OfficeIsOneOfThem
<1>3. QED BY <1>1, <1>2, NoDueDayIsMissed, PTL DEF OfficeSpec

-----------------------------------------------------------------------------
(* The variables of each component keep their types.                       *)
THEOREM OfficeTyped == OfficeSpec => []OfficeTypesOK
<1> DEFINE Known == subject \in {"tabs", "billing", "crediting", "spending", "records", "schedule"}
<1> DEFINE Typed ==
      /\ Known
      /\ Is("tabs") => P!TypeOK
      /\ Is("billing") => B!BillingTypeOK
      /\ Is("crediting") => C!BillingTypeOK
      /\ Is("spending") => D!BillingTypeOK
      /\ Is("records") => RecordsTypeOK
      /\ Is("schedule") => S!ScheduleTypeOK
<1>1. Typed => OfficeTypesOK
  <2>1. subject = "tabs" => (OfficeTypesOK <=> P!TypeOK)
    BY DEF OfficeTypesOK, Is
  <2>2. subject = "billing" => (OfficeTypesOK <=> B!BillingTypeOK)
    BY DEF OfficeTypesOK, Is
  <2>3. subject = "crediting" => (OfficeTypesOK <=> C!BillingTypeOK)
    BY DEF OfficeTypesOK, Is
  <2>4. subject = "spending" => (OfficeTypesOK <=> D!BillingTypeOK)
    BY DEF OfficeTypesOK, Is
  <2>5. subject = "records" => (OfficeTypesOK <=> RecordsTypeOK)
    BY DEF OfficeTypesOK, Is
  <2>6. subject = "schedule" => (OfficeTypesOK <=> S!ScheduleTypeOK)
    BY DEF OfficeTypesOK, Is
  <2>7. QED BY <2>1, <2>2, <2>3, <2>4, <2>5, <2>6 DEF Is
<1>2. OfficeInit => Known
  BY DEF OfficeInit, Is
<1>3. Known /\ [OfficeNext]_officeVars => Known'
  BY DEF OfficeNext, officeVars
<1>4. P!Spec => []P!TypeOK
  BY TabsSound, P!TypeCorrect
<1>5. B!Spec => []B!BillingTypeOK
  BY AllBillsSound, BillsSound, FiniteAlike, B!BillingTyped
<1>6. C!Spec => []C!BillingTypeOK
  BY AllBillsSound, BillsSound, FiniteAlike, C!BillingTyped
<1>7. D!Spec => []D!BillingTypeOK
  BY AllBillsSound, BillsSound, FiniteAlike, D!BillingTyped
<1>8. RecordsInv => RecordsTypeOK
  BY DEF RecordsInv
<1>9. [OfficeNext]_officeVars => /\ Is("tabs")' <=> Is("tabs")
                                 /\ Is("billing")' <=> Is("billing")
                                 /\ Is("crediting")' <=> Is("crediting")
                                 /\ Is("spending")' <=> Is("spending")
                                 /\ Is("records")' <=> Is("records")
                                 /\ Is("schedule")' <=> Is("schedule")
  BY SubjectStays
<1>10. OfficeSpec => []Typed
  <2>1. OfficeSpec => []Known
    BY <1>2, <1>3, PTL DEF OfficeSpec
  <2>2. OfficeSpec => /\ Is("tabs") => P!Spec
                      /\ Is("billing") => B!Spec
                      /\ Is("crediting") => C!Spec
                      /\ Is("spending") => D!Spec
                      /\ Is("schedule") => S!Spec
    BY OfficeIsOneOfThem
  <2>3. OfficeSpec => [](/\ Is("tabs") => P!TypeOK
                         /\ Is("billing") => B!BillingTypeOK
                         /\ Is("crediting") => C!BillingTypeOK
                         /\ Is("spending") => D!BillingTypeOK
                         /\ Is("schedule") => S!ScheduleTypeOK)
    BY <1>4, <1>5, <1>6, <1>7, <1>9, <2>2, ScheduleTyped, PTL DEF OfficeSpec
  <2> HIDE DEF Known
  <2>4. QED BY <2>1, <2>3, <1>8, OfficeRecords, PTL
<1>11. QED
  <2> HIDE DEF Typed
  <2>1. QED BY <1>1, <1>10, PTL

=============================================================================
