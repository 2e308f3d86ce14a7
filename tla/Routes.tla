------------------------------- MODULE Routes -------------------------------
(***************************************************************************)
(* The surface of the server: what each router file of src/routes admits,  *)
(* whom, and to whose records.  A row names an operation and says          *)
(*   side   the part of the business it touches,                           *)
(*   does   whether it reads or changes it,                                *)
(*   may    the roles its guards let through,                              *)
(*   reach  whose records: a branch's ("branch"), an operator's own        *)
(*          ("own"), a file's ("file"), the caller's account ("self"),     *)
(*          everybody's ("shared"), or the one that the token in a link    *)
(*          names, for which no account is asked ("link").                 *)
(* A role that is let through may still be refused the record: by reach,   *)
(* in module Access; by what the record is (a colleague's visit, a         *)
(* customer with a contract), in Visits and in Records.                    *)
(***************************************************************************)

Staff    == {"corporate", "sales", "operator", "branch"}
Office   == {"corporate"}              \* requireCorporate
Sellers  == {"corporate", "sales", "branch"}
Crew     == {"corporate", "operator", "branch"}
Business == {"corporate", "branch"}
Anyone   == {"nobody"}

Rows(does, side, may, reach, ops) ==
  {[op |-> o, side |-> side, does |-> does, may |-> may, reach |-> reach] : o \in ops}

Reads(side, may, reach, ops)   == Rows("read", side, may, reach, ops)
Changes(side, may, reach, ops) == Rows("change", side, may, reach, ops)

-----------------------------------------------------------------------------
(* The sales side. *)
CustomersRouter ==
  Reads("sales", Staff, "branch", {"listCustomers", "getCustomer", "listCustomerProperties"})
    \cup Changes("sales", Sellers, "branch", {"createCustomer", "updateCustomer", "deleteCustomer"})

ProfileRouter ==
  Reads("sales", Staff, "branch", {"getCustomerSummary", "listNotes", "smsThread", "threadAssignees"})
    \cup Changes("sales", Sellers, "branch",
           {"setPhones", "addNote", "sendCustomerSms", "setSmsOptOut", "assignSmsThread", "createAgreement"})

PropertiesRouter ==
  Reads("sales", Staff, "branch", {"listProperties", "findDuplicateAddress", "getProperty"})
    \cup Changes("sales", Sellers, "branch", {"createProperty", "updateProperty", "deleteProperty"})

QuotesRouter ==
  Reads("sales", Staff, "branch", {"listQuotes", "getQuote", "getQuoteContract"})
    \cup Changes("sales", Sellers, "branch", {"createQuote", "updateQuote", "changeQuoteStatus", "deleteQuote"})

ContractsRouter ==
  Reads("sales", Staff, "branch", {"listContracts", "getContract"})
    \cup Reads("sales", Staff, "shared", {"listChecklistRequirements"})
    \cup Changes("sales", Sellers, "branch",
           {"createContract", "updateContract", "changeContractStatus", "setChecklistItem"})
    \cup Changes("sales", Office, "branch", {"deleteContract"})

AgreementsRouter ==
  Reads("sales", Staff, "branch", {"getAgreementForm", "getAgreementModel", "agreementPreviewPdf"})
    \cup Changes("sales", Sellers, "branch",
           {"updateAgreement", "signAgreement", "recordPaperAgreement", "sendAgreement"})

CardsRouter ==
  Reads("sales", Staff, "branch", {"listCardSetups"})
    \cup Changes("sales", Sellers, "branch", {"requestCard", "completeSetup"})

DealsRouter ==
  Changes("sales", Sellers, "branch",
    {"openDeal", "openAgreementDeal", "requestSignature", "emailQuote", "settleCollectedPayment"})

LeadsRouter ==
  Reads("sales", Sellers, "branch", {"listPins"})
    \cup Reads("sales", Staff, "branch", {"listCustomerPins"})
    \cup Changes("sales", Sellers, "branch", {"createPin", "updatePin", "deletePin"})

ColdEmailRouter ==
  Reads("campaigns", Business, "branch", {"coldEmailStats", "listEmailLeads", "getEmailLead"})
    \cup Reads("campaigns", Business, "shared", {"sequence"})
    \cup Changes("campaigns", Sellers, "branch", {"optIn"})
    \cup Changes("campaigns", Business, "branch", {"stopEmailLead"})

MetaRouter ==
  Reads("campaigns", Sellers, "branch", {"listConversations", "listConversationMessages"})
    \cup Changes("campaigns", Sellers, "branch", {"updateConversation", "queueMetaReply"})

-----------------------------------------------------------------------------
(* The crew side. *)
WorkOrdersRouter ==
  Reads("visits", Staff, "branch", {"listWorkOrders", "getWorkOrder", "listPhotos", "serviceReportPdf"})
    \cup Changes("visits", Office, "branch", {"createWorkOrder", "updateWorkOrder", "deleteWorkOrder"})
    \cup Changes("visits", Crew, "branch", {"changeWorkOrderStatus", "addServicePhoto"})

OperatorsRouter ==
  Reads("papers", Staff, "branch", {"listOperators"})
    \cup Reads("papers", Staff, "shared", {"documentRequirements"})
    \cup Reads("papers", Staff, "own", {"operatorCompliance", "listOperatorDocuments"})
    \cup Changes("papers", Staff, "own", {"submitDocument"})
    \cup Changes("papers", Office, "branch", {"reviewDocument"})

WeatherRouter ==
  Reads("visits", Staff, "shared", {"snowSummary", "radarFrames"})
    \cup Reads("visits", Staff, "branch", {"dispatchMap"})
    \cup Reads("running", Office, "branch", {"weatherSettings", "listWeatherRuns"})
    \cup Changes("running", Office, "branch", {"checkBranch"})

ReviewsRouter ==
  Reads("visits", Staff, "branch", {"listReviewRequests", "getReviewRequest"})
    \cup Changes("visits", Anyone, "link", {"submitRating"})

-----------------------------------------------------------------------------
(* Money. *)
InvoicesReads ==
  Reads("billing", Staff, "branch", {"listInvoices", "getInvoice", "payLinkFor", "listPayments", "invoicePdf"})

InvoicesChanges ==
  Changes("billing", Office, "branch",
    {"createInvoice", "sendInvoice", "emailInvoice", "voidInvoice", "chargeInvoice", "recordPayment", "deleteInvoice"})

PaymentsRouter ==
  Reads("billing", Staff, "branch", {"listBranchPayments"})
    \cup Changes("billing", Office, "branch", {"refundPayment"})

ExpensesRouter ==
  Reads("books", Business, "branch", {"listExpenses", "listMonths", "writeYearEndExport"})
    \cup Reads("books", Business, "shared", {"expenseCategories"})
    \cup Changes("books", Business, "branch",
           {"createExpense", "updateExpense", "deleteExpense", "saveTotals", "addDocument", "deleteDocument", "deleteMonth"})

FinanceRouter == Reads("books", Business, "branch", {"financialSummary", "financialProjection"})

PortalRouter ==
  Reads("billing", Anyone, "link", {"getPortalInvoice"})
    \cup Changes("billing", Anyone, "link", {"payPortalInvoice"})
    \cup Reads("sales", Anyone, "link", {"getPortalCardSetup"})
    \cup Changes("sales", Anyone, "link", {"saveCardFromPortal"})

-----------------------------------------------------------------------------
(* Running the company. *)
UsersRouter ==
  Reads("running", Office, "branch", {"listUsers"})
    \cup Changes("running", Office, "shared", {"createUser", "updateUser", "deleteUser"})

BranchesRouter ==
  Reads("running", Staff, "branch", {"listBranches"})
    \cup Changes("running", Office, "shared", {"createBranch", "updateBranch"})

LookupsRouter ==
  Reads("running", Staff, "shared", {"listLookups", "listLookup"})
    \cup Changes("running", Office, "shared", {"createLookup", "updateLookup"})

PricingRouter  == Reads("sales", Staff, "branch", {"listPricingGuide", "suggestPrice"})
MessagesRouter == Reads("running", Staff, "branch", {"listMessageLog", "listMessageTemplates"})
AuditRouter    == Reads("running", Office, "shared", {"listAuditLog"})
ReportsRouter  == Reads("running", Office, "branch", {"branchSummary", "monthlyRevenue", "operatorScorecards"})

SmsSettings ==
  Reads("running", Office, "shared", {"smsProviders", "smsSettings"})
    \cup Changes("running", Office, "shared", {"saveSmsSettings", "testSms"})

PaymentSettings ==
  Reads("running", Office, "shared", {"paymentProviders", "paymentSettings"})
    \cup Changes("running", Office, "shared", {"savePaymentSettings", "testPayments"})

-----------------------------------------------------------------------------
(* Everyone's, and nobody's.  The doors themselves are actions of Access;  *)
(* POST /auth/register, closed unless ALLOW_SELF_REGISTRATION is set, is   *)
(* left out.                                                               *)
AuthRouter ==
  Reads("account", Anyone, "link", {"signInChoices"})
    \cup Reads("account", Staff, "self", {"me"})
    \cup Changes("account", Staff \ {"branch"}, "self", {"changePassword"})

UploadsRouter ==
  Changes("account", Staff, "self", {"issueTarget"})
    \cup Changes("account", Anyone, "link", {"acceptBytes"})
    \cup Reads("account", Staff, "file", {"readFile"})

SigningRouter ==
  Reads("sales", Anyone, "link", {"publicConfig", "openInvitation"})
    \cup Changes("sales", Anyone, "link", {"completeInvitation"})

OptInRouter ==
  Changes("campaigns", Anyone, "link", {"publicOptIn", "unsubscribe"})
    \cup Reads("campaigns", Anyone, "link", {"leadForToken"})

WebhooksRouter ==
  Changes("billing", Anyone, "link", {"squareEvent"})
    \cup Changes("campaigns", Anyone, "link", {"metaEvent", "recordInboundSms"})

Routes ==
  UNION {CustomersRouter, ProfileRouter, PropertiesRouter, QuotesRouter, ContractsRouter, AgreementsRouter,
         CardsRouter, DealsRouter, LeadsRouter, ColdEmailRouter, MetaRouter, WorkOrdersRouter, OperatorsRouter,
         WeatherRouter, ReviewsRouter, InvoicesReads, InvoicesChanges, PaymentsRouter, ExpensesRouter,
         FinanceRouter, PortalRouter, UsersRouter, BranchesRouter, LookupsRouter, PricingRouter, MessagesRouter,
         AuditRouter, ReportsRouter, SmsSettings, PaymentSettings, AuthRouter, UploadsRouter, SigningRouter,
         OptInRouter, WebhooksRouter}

RowOf(o) == CHOOSE r \in Routes : r.op = o
=============================================================================
