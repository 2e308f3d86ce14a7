------------------------------- MODULE Screens -------------------------------
(***************************************************************************)
(* The console in the browser: what each component of client/src/routes    *)
(* puts on its screen.  A row names a component's                          *)
(*   on      screen,                                                       *)
(*   who     the roles that App.tsx and the component show it to,          *)
(*   loads   operations (of Routes) it asks for when it is opened,         *)
(*   offers  submissions: the requests one press of a button makes, in     *)
(*           their order, each sent when the one before was answered.      *)
(***************************************************************************)
EXTENDS Routes, Naturals, Sequences

Component(on, who, loads, offers) == {[on |-> on, who |-> who, loads |-> loads, offers |-> offers]}

Each(ops) == {<<o>> : o \in ops}      \* a button per operation

(* uploadBlob: a target, then the bytes; then what records the key. *)
Uploading(o) == <<"issueTarget", "acceptBytes", o>>

-----------------------------------------------------------------------------
(* Home, and what every screen has beside it. *)
CorporateDashboard == Component("Dashboard", Office, {"branchSummary", "listWorkOrders", "listInvoices"}, {})
SalesDashboard     == Component("Dashboard", {"sales", "branch"}, {"listQuotes"}, {})
OperatorDashboard  == Component("Dashboard", {"operator"}, {"listWorkOrders", "operatorCompliance"}, {})
Account            == Component("Account", Staff \ {"branch"}, {}, Each({"changePassword"}))
StormMap           == Component("WeatherMap", Staff, {"snowSummary", "radarFrames", "dispatchMap"}, {})

(* Pages that ask for no account: the customer's link. *)
Sign          == Component("Sign", Anyone, {"openInvitation"}, {})
SignByLink    == Component("Sign", Anyone, {"publicConfig"}, Each({"completeInvitation"}))
Login         == Component("Login", Anyone, {"signInChoices"}, {})

(* Selling. *)
Leads        == Component("Leads", Sellers, {"listBranches"}, {})
LeadsMap     == Component("Leads", Sellers, {"listPins", "listCustomerPins"}, {})
NewKnock     == Component("Leads", Sellers, {}, Each({"createPin"}))
ExistingPin  == Component("Leads", Sellers, {}, Each({"updatePin", "deletePin"}))
Customers    == Component("Customers", Sellers, {"listCustomers"}, {}) \cup Component("Customers", Office, {"listBranches"}, {})
NewLeadForm  == Component("Customers", Sellers, {}, Each({"createCustomer"}))
AddCustomer  == Component("AddCustomer", Sellers, {"listBranches", "getCustomerSummary"}, {})
CustomerForm == Component("AddCustomer", Sellers, {},
                  {<<"createCustomer">> \o phones \o <<"getCustomerSummary", "createProperty">> \o pin :
                     phones \in {<<>>, <<"setPhones">>}, pin \in {<<>>, <<"updatePin">>}})

CustomerSummary    == Component("CustomerSummary", Sellers, {"getCustomerSummary"}, Each({"deleteCustomer"}))
EditCustomerDialog == Component("CustomerSummary", Sellers, {}, {<<"setPhones", "updateCustomer">>})
InvoicesCard       == Component("CustomerSummary", Office, {"listInvoices"}, {})
NewInvoiceDialog   == Component("CustomerSummary", Office, {}, Each({"createInvoice"}))
SmsCard            == Component("CustomerSummary", Sellers, {"smsThread", "listMessageTemplates", "threadAssignees"},
                        Each({"assignSmsThread", "setSmsOptOut"}))
SmsCompose         == Component("CustomerSummary", Sellers, {}, Each({"sendCustomerSms"}))
NotesCard          == Component("CustomerSummary", Sellers, {"listNotes"}, Each({"addNote"}))
AddressesSection   == Component("CustomerSummary", Sellers, {}, Each({"createProperty", "deleteProperty"}))
ServiceInfoDialog  == Component("CustomerSummary", Sellers, {"getAgreementModel"}, {})

ContractForm   == Component("ContractForm", Sellers, {"getAgreementForm", "getCustomerSummary", "listLookups", "listOperators"}, {})
AgreementForm  == Component("ContractForm", Sellers, {}, Each({"updateAgreement", "createAgreement"}))
ReferrerPicker == Component("ContractForm", Sellers, {"listCustomers", "getCustomer"}, {})

AgreementSign     == Component("AgreementSign", Sellers, {"getAgreementModel", "getAgreementForm"}, Each({"agreementPreviewPdf"}))
ElectronicSigning == Component("AgreementSign", Sellers, {}, {Uploading("signAgreement")})
PaperUpload       == Component("AgreementSign", Sellers, {}, {Uploading("recordPaperAgreement")})
AfterSigning      == Component("AgreementSign", Sellers, {"getContract"}, Each({"readFile", "requestCard"}))
EmailForSignature == Component("AgreementSign", Sellers, {}, Each({"sendAgreement"}))

QuoteDetail     == Component("QuoteDetail", Sellers, {"getQuote", "getProperty", "getQuoteContract", "getCustomer"},
                     Each({"deleteQuote", "changeQuoteStatus"}))
EmailQuotePanel == Component("QuoteDetail", Sellers, {}, Each({"emailQuote"}))
SignaturePanel  == Component("QuoteDetail", Sellers, {"listChecklistRequirements"}, {Uploading("createContract")})

Contracts      == Component("Contracts", Sellers, {"listContracts"}, {})
ContractDetail ==
  Component("ContractDetail", Sellers,
    {"getContract", "getProperty", "getCustomer", "listChecklistRequirements", "listWorkOrders", "listCardSetups"},
    Each({"readFile", "changeContractStatus", "setChecklistItem"}))
    \cup Component("ContractDetail", Office, {"listInvoices"}, Each({"deleteContract"}))
CardSection    == Component("ContractDetail", Sellers, {}, Each({"requestCard", "completeSetup"}))

-----------------------------------------------------------------------------
(* The crew. *)
WorkOrders      == Component("WorkOrders", Crew, {"listWorkOrders"}, {}) \cup Component("WorkOrders", Office, {"listOperators"}, {})
NewVisitForm    == Component("WorkOrders", Office, {"listContracts", "listOperators", "getProperty"}, Each({"createWorkOrder"}))
WorkOrderDetail ==
  Component("WorkOrderDetail", Crew, {"getWorkOrder", "getProperty"}, Each({"serviceReportPdf", "changeWorkOrderStatus"}))
    \cup Component("WorkOrderDetail", Office, {}, Each({"deleteWorkOrder"}))
PhotoForm       == Component("WorkOrderDetail", Crew, {}, {Uploading("addServicePhoto")})
Operators       == Component("Operators", Crew, {"listOperators"}, {})
OperatorDetail  ==
  Component("OperatorDetail", Crew, {"operatorCompliance", "listOperatorDocuments", "listOperators"}, Each({"readFile"}))
    \cup Component("OperatorDetail", Office, {}, Each({"deleteUser", "reviewDocument"}))
UploadPanel     == Component("OperatorDetail", Crew, {}, {Uploading("submitDocument")})

-----------------------------------------------------------------------------
(* The office. *)
Invoices      == Component("Invoices", Office, {"listInvoices"}, {})
InvoiceDetail == Component("InvoiceDetail", Office, {"getInvoice", "getCustomer"},
                   Each({"deleteInvoice", "invoicePdf", "voidInvoice", "refundPayment", "recordPayment"}))
EmailInvoice  == Component("InvoiceDetail", Office, {}, Each({"emailInvoice"}))
PayLink       == Component("InvoiceDetail", Office, {"payLinkFor"}, {})
Reports       == Component("Reports", Office, {"branchSummary", "monthlyRevenue", "operatorScorecards"}, {})
Admin         == Component("Admin", Office, {"listBranches", "listUsers"}, {})
BranchCard    == Component("Admin", Office, {}, Each({"updateBranch", "createBranch"}))
PeopleCard    == Component("Admin", Office, {}, {<<"createUser">>, <<"createUser", "updateBranch">>})
ContractLists == Component("ContractLists", Office, {"listLookups", "listBranches"}, {})
LookupEditor  == Component("ContractLists", Office, {}, Each({"updateLookup", "createLookup"}))
Settings      == Component("Settings", Office, {"smsProviders", "smsSettings", "paymentProviders", "paymentSettings"}, {})
Integration   == Component("Settings", Office, {}, Each({"saveSmsSettings", "savePaymentSettings"}))
PaymentTest   == Component("Settings", Office, {}, Each({"testPayments"}))
SmsTest       == Component("Settings", Office, {}, Each({"testSms"}))
Weather       == Component("Weather", Office, {"weatherSettings", "listWeatherRuns", "listBranches"}, {})
ForecastCheck == Component("Weather", Office, {}, Each({"checkBranch"}))

(* The business console. *)
Financials     == Component("Financials", Business, {"financialSummary", "listBranches"}, {})
Projections    == Component("Projections", Business, {"financialProjection", "listBranches"}, {})
Bookkeeping    == Component("Bookkeeping", Business, {"listExpenses", "expenseCategories", "listBranches", "listMonths"},
                    Each({"deleteMonth"}))
MonthlyClose   == Component("Bookkeeping", Business, {}, Each({"readFile", "deleteDocument"}))
DocumentUpload == Component("Bookkeeping", Business, {}, {Uploading("addDocument")})
TotalsForm     == Component("Bookkeeping", Business, {}, Each({"saveTotals"}))
RowActions     == Component("Bookkeeping", Business, {}, Each({"deleteExpense"}))
ExpenseForm    == Component("Bookkeeping", Business, {}, {<<"updateExpense">>, <<"createExpense">>, Uploading("createExpense")})
ExportDialog   == Component("Bookkeeping", Business, {}, Each({"writeYearEndExport"}))
ColdEmail      == Component("ColdEmail", Business, {"listEmailLeads", "coldEmailStats", "sequence", "listBranches"}, {})
AddOptIn       == Component("ColdEmail", Business, {}, Each({"optIn"}))
LeadDialog     == Component("ColdEmail", Business, {"getEmailLead"}, Each({"stopEmailLead"}))

Components ==
  UNION {Sign, SignByLink, Login, CorporateDashboard, SalesDashboard, OperatorDashboard, Account, StormMap, Leads, LeadsMap, NewKnock,
         ExistingPin, Customers, NewLeadForm, AddCustomer, CustomerForm, CustomerSummary, EditCustomerDialog,
         InvoicesCard, NewInvoiceDialog, SmsCard, SmsCompose, NotesCard, AddressesSection, ServiceInfoDialog,
         ContractForm, AgreementForm, ReferrerPicker, AgreementSign, ElectronicSigning, PaperUpload, AfterSigning,
         EmailForSignature, QuoteDetail, EmailQuotePanel, SignaturePanel, Contracts, ContractDetail, CardSection,
         WorkOrders, NewVisitForm, WorkOrderDetail, PhotoForm, Operators, OperatorDetail, UploadPanel, Invoices,
         InvoiceDetail, EmailInvoice, PayLink, Reports, Admin, BranchCard, PeopleCard, ContractLists, LookupEditor,
         Settings, Integration, PaymentTest, SmsTest, Weather, ForecastCheck, Financials, Projections, Bookkeeping,
         MonthlyClose, DocumentUpload, TotalsForm, RowActions, ExpenseForm, ExportDialog, ColdEmail, AddOptIn, LeadDialog}

ScreenNames == {c.on : c \in Components}

Seen(s, role) == {c \in Components : c.on = s /\ role \in c.who}

Loads(s, role)  == UNION {c.loads : c \in Seen(s, role)}
Offers(s, role) == UNION {c.offers : c \in Seen(s, role)}
=============================================================================
