--------------------------------- MODULE Tab ---------------------------------
(***************************************************************************)
(* One browser tab of the console (client/src): the account React holds,   *)
(* the token that localStorage holds for every tab at once, the screen and *)
(* the record in its address, the loads and the submission in flight.      *)
(* The screens and what they ask for are those of module Screens, and what *)
(* the server admits is module Routes; other tabs are the two actions that *)
(* change localStorage under this one.                                     *)
(***************************************************************************)
EXTENDS Screens, FiniteSets

CONSTANTS Accounts, RoleAt,   \* who may sign in, and each one's role
          Nobody, NoKey,
          Walk,               \* the screens that the tab is taken to
          Keys,               \* records an address can name
          MaxLoads,           \* loads in flight at once
          MaxUpsets           \* lost answers, other tabs' sign-ins, accounts ended

(* Of the constants: the tab is taken to screens there are, by accounts    *)
(* and to records that are not the absent one.                             *)
TabParameters ==
  /\ Walk \subseteq ScreenNames \ {"Login"}
  /\ Nobody \notin Accounts /\ NoKey \notin Keys
  /\ MaxLoads \in Nat /\ MaxUpsets \in Nat

VARIABLES token,    \* localStorage: whose session every request is sent with
          user,     \* AuthContext of this tab
          screen, key,
          shown,    \* useQuery's data: the record it is of
          failed,   \* useQuery's error
          asked,    \* useQuery's effects not answered yet; the live one is the last
          form,     \* useSubmit: what is left to send
          saved,    \* CustomerForm's savedCustomer
          customers, houses, lost,   \* written by this CustomerForm; answers that never came
          ended,    \* accounts whose tokens the server no longer takes
          upsets

tab   == <<token, user, screen, key>>
query == <<shown, failed, asked>>
adding == <<saved, customers, houses, lost>>
vars  == <<tab, query, form, adding, ended, upsets>>

Idle == [ops |-> <<>>, on |-> "Login", who |-> Nobody, of |-> NoKey, seen |-> NoKey, here |-> FALSE]

Role(a)      == RoleAt[a]
Admitted(a, op) == RowOf(op).may = Anyone \/ Role(a) \in RowOf(op).may
Shows(s, a)     == Seen(s, Role(a)) # {}    \* RoleOnly, CorporateOnly, App's routes
Loading      == \E l \in asked : l.live

(* Screens whose address names a record. *)
OfOne == {"AddCustomer", "CustomerSummary", "ContractForm", "AgreementSign", "QuoteDetail", "ContractDetail",
          "WorkOrderDetail", "InvoiceDetail", "OperatorDetail"}

(* Screens that keep the last data on the page while the next loads. *)
Keeping == {"AgreementSign", "Bookkeeping", "ColdEmail", "ContractLists", "CustomerSummary", "Financials",
            "InvoiceDetail", "Projections", "Weather"}

Visible == IF failed \/ (Loading /\ screen \notin Keeping) THEN NoKey ELSE shown

-----------------------------------------------------------------------------
(* A load: the effect of useQuery cancels the one before it, whose answer  *)
(* can then do nothing but end the session it was asked in.                *)
Load(s, k, a, t) == [on |-> s, of |-> k, who |-> a, as |-> t, live |-> TRUE]
Dropped(ls) == {[Load("Login", NoKey, Nobody, l.as) EXCEPT !.live = FALSE] : l \in ls}
Cancelled == Dropped(asked)

OpenUncancelled(s, k, a, t) ==      \* a slip: the old effect is not cancelled
  /\ screen' = s /\ key' = k
  /\ shown' = NoKey /\ failed' = FALSE
  /\ asked' = asked \cup (IF Shows(s, a) THEN {Load(s, k, a, t)} ELSE {})

Open(s, k, a, t) ==
  /\ screen' = s /\ key' = k
  /\ shown' = NoKey /\ failed' = FALSE
  /\ asked' = Cancelled \cup (IF Shows(s, a) THEN {Load(s, k, a, t)} ELSE {})

(* The component is gone; what it had sent goes on without it. *)
Leave ==
  /\ form' = [form EXCEPT !.here = FALSE]
  /\ saved' = FALSE /\ customers' = 0 /\ houses' = 0 /\ lost' = 0

ToLogin ==
  /\ user' = Nobody /\ token' = Nobody
  /\ screen' = "Login" /\ key' = NoKey
  /\ shown' = NoKey /\ failed' = FALSE
  /\ asked' = Cancelled
  /\ Leave

SignIn(a) ==
  /\ user = Nobody /\ a \notin ended
  /\ token' = a /\ user' = a
  /\ Open("Dashboard", NoKey, a, a)
  /\ UNCHANGED <<form, adding, ended, upsets>>

SignOut ==
  /\ user # Nobody
  /\ ToLogin
  /\ UNCHANGED <<ended, upsets>>

Go(s, k) ==
  /\ user # Nobody /\ s # screen /\ (s \in OfOne <=> k # NoKey)
  /\ Open(s, k, user, token)
  /\ Leave
  /\ UNCHANGED <<token, user, ended, upsets>>

(* The same screen for another record: the data stays until the next       *)
(* comes.  AddCustomer takes its CustomerForm off the page meanwhile.      *)
Select(k) ==
  /\ user # Nobody /\ Shows(screen, user) /\ k # key /\ key # NoKey
  /\ key' = k /\ failed' = FALSE
  /\ asked' = Cancelled \cup {Load(screen, k, user, token)}
  /\ IF screen = "AddCustomer" THEN Leave ELSE UNCHANGED <<form, adding>>
  /\ UNCHANGED <<token, user, screen, shown, ended, upsets>>

Refused(t) == t = Nobody \/ t \in ended

(* What the guards let through of a load: another account's token may be   *)
(* in localStorage by then.  The record may be refused all the same.       *)
MayBeRead(l) == \A op \in Loads(l.on, Role(l.who)) : Admitted(l.as, op)

(* An answer clears the session when it is a 401, cancelled or not; the    *)
(* rest of it is dropped when the load was cancelled.                      *)
Answered(l) ==
  LET rest == asked \ {l} IN
  /\ l \in asked
  /\ \/ /\ Refused(l.as) /\ l.live
        /\ user' = Nobody /\ token' = Nobody
        /\ screen' = "Login" /\ key' = NoKey /\ shown' = NoKey /\ failed' = FALSE
        /\ asked' = Dropped(rest)
        /\ Leave
        /\ UNCHANGED upsets
     \/ /\ Refused(l.as) /\ ~l.live
        /\ token' = Nobody /\ asked' = rest
        /\ UNCHANGED <<user, screen, key, shown, failed, form, adding, upsets>>
     \/ /\ ~Refused(l.as)
        /\ asked' = rest
        /\ \/ ~l.live /\ UNCHANGED <<shown, failed>>
           \/ l.live /\ MayBeRead(l) /\ shown' = l.of /\ UNCHANGED failed
           \/ l.live /\ failed' = TRUE /\ UNCHANGED shown
        /\ UNCHANGED <<tab, form, adding, upsets>>
  /\ UNCHANGED ended

-----------------------------------------------------------------------------
(* A submission.  The button is disabled while it runs; leaving the screen *)
(* does not stop it.  CustomerForm patches the customer it has saved.      *)
FirstForgotten(ops) == ops           \* a slip: the saved customer is not kept

First(ops) == IF saved /\ Head(ops) = "createCustomer" THEN <<"updateCustomer">> \o Tail(ops) ELSE ops

Target == IF screen = "CustomerSummary" THEN shown ELSE key

Submit(ops) ==
  /\ user # Nobody /\ ops \in Offers(screen, Role(user))
  /\ form = Idle
  /\ Visible = shown /\ (screen \in OfOne => shown # NoKey)
  /\ form' = [ops |-> First(ops), on |-> screen, who |-> user, of |-> Target, seen |-> Visible, here |-> TRUE]
  /\ UNCHANGED <<tab, query, adding, ended, upsets>>

(* What CustomerForm's requests write. *)
Wrote(op) ==
  IF form.here /\ form.on = "AddCustomer"
  THEN /\ customers' = customers + (IF op = "createCustomer" THEN 1 ELSE 0)
       /\ houses' = (IF op = "createCustomer" THEN 0 ELSE houses + (IF op = "createProperty" THEN 1 ELSE 0))
  ELSE UNCHANGED <<customers, houses>>

(* The rest of the submission; the house is not written when the summary has it. *)
Remaining ==
  LET rest == Tail(form.ops) IN
  IF form.here /\ form.on = "AddCustomer" /\ Head(form.ops) = "getCustomerSummary" /\ houses > 0 THEN Tail(rest) ELSE rest

(* The last step: the data is loaded again, or CustomerForm goes on to the *)
(* contract, from wherever the tab is by then.                             *)
Finish ==
  /\ form' = Idle
  /\ IF form.on = "AddCustomer" /\ user # Nobody
     THEN /\ Open("ContractForm", form.of, user, token)
          /\ saved' = FALSE /\ customers' = 0 /\ houses' = 0 /\ lost' = 0
     ELSE /\ IF form.here
             THEN asked' = Cancelled \cup {Load(screen, key, user, token)} /\ failed' = FALSE
             ELSE UNCHANGED <<asked, failed>>
          /\ UNCHANGED <<screen, key, shown, adding>>

StepDone ==
  /\ form.ops # <<>> /\ ~Refused(token) /\ Admitted(token, Head(form.ops))
  /\ IF Remaining = <<>>
     THEN Finish
     ELSE /\ form' = [form EXCEPT !.ops = Remaining]
          /\ Wrote(Head(form.ops))
          /\ saved' = (saved \/ (Head(form.ops) = "createCustomer" /\ form.here))
          /\ UNCHANGED <<screen, key, query, lost>>
  /\ UNCHANGED <<token, user, ended, upsets>>

(* The server answers no, to the role, to the record or to what it says:   *)
(* the text goes on the form, and the rest is not sent.                    *)
StepRefused ==
  /\ form.ops # <<>> /\ ~Refused(token)
  /\ form' = Idle
  /\ UNCHANGED <<tab, query, adding, ended, upsets>>

(* No answer comes: the request was carried out, or it was not. *)
StepLost ==
  /\ form.ops # <<>> /\ upsets < MaxUpsets /\ upsets' = upsets + 1
  /\ form' = Idle
  /\ lost' = IF form.here THEN lost + 1 ELSE lost
  /\ \/ ~Refused(token) /\ Admitted(token, Head(form.ops)) /\ Wrote(Head(form.ops))
     \/ UNCHANGED <<customers, houses>>
  /\ UNCHANGED <<tab, query, saved, ended>>

(* A 401 to a step, whichever screen is open by then. *)
StepUnauthenticated ==
  /\ form.ops # <<>> /\ Refused(token) /\ Head(form.ops) # "acceptBytes"
  /\ user' = Nobody /\ token' = Nobody
  /\ screen' = "Login" /\ key' = NoKey /\ shown' = NoKey /\ failed' = FALSE
  /\ asked' = Cancelled
  /\ form' = Idle /\ saved' = FALSE /\ customers' = 0 /\ houses' = 0 /\ lost' = 0
  /\ UNCHANGED <<ended, upsets>>

-----------------------------------------------------------------------------
(* Another tab, and the server. *)
OtherTab(t) ==
  /\ upsets < MaxUpsets /\ upsets' = upsets + 1
  /\ t # token /\ t \notin ended /\ token' = t
  /\ UNCHANGED <<user, screen, key, query, form, adding, ended>>

EndAccount(a) ==
  /\ upsets < MaxUpsets /\ upsets' = upsets + 1
  /\ a \notin ended /\ ended' = ended \cup {a}
  /\ UNCHANGED <<tab, query, form, adding>>

Init ==
  /\ token = Nobody /\ user = Nobody /\ screen = "Login" /\ key = NoKey
  /\ shown = NoKey /\ failed = FALSE /\ asked = {} /\ form = Idle
  /\ saved = FALSE /\ customers = 0 /\ houses = 0 /\ lost = 0
  /\ ended = {} /\ upsets = 0

Room == Cardinality(asked) < MaxLoads

Next ==
  \/ Room /\ \E a \in Accounts : SignIn(a)
  \/ SignOut
  \/ Room /\ \E s \in Walk, k \in Keys \cup {NoKey} : Go(s, k)
  \/ Room /\ \E k \in Keys : Select(k)
  \/ \E l \in asked : Answered(l)
  \/ user # Nobody /\ \E ops \in Offers(screen, Role(user)) : Submit(ops)
  \/ (Room /\ StepDone) \/ StepRefused \/ StepLost \/ StepUnauthenticated
  \/ \E t \in Accounts \cup {Nobody} : OtherTab(t)
  \/ \E a \in Accounts : EndAccount(a)

Spec == Init /\ [][Next]_vars

-----------------------------------------------------------------------------
LoadsOf   == [on : ScreenNames, of : Keys \cup {NoKey}, who : Accounts \cup {Nobody}, as : Accounts \cup {Nobody},
              live : BOOLEAN]
Form(ops) == [ops : {ops}, on : ScreenNames, who : Accounts \cup {Nobody}, of : Keys \cup {NoKey},
              seen : Keys \cup {NoKey}, here : BOOLEAN]

TabTypeOK ==
  /\ {token, user} \subseteq Accounts \cup {Nobody}
  /\ screen \in ScreenNames
  /\ {key, shown} \subseteq Keys \cup {NoKey}
  /\ {failed, saved} \subseteq BOOLEAN
  /\ asked \subseteq LoadsOf /\ IsFiniteSet(asked) /\ Cardinality(asked) <= MaxLoads
  /\ form \in Form(form.ops) /\ (form # Idle => form.ops # <<>>)
  /\ user = Nobody <=> screen = "Login"
  /\ {customers, houses, lost} \subseteq Nat
  /\ ended \subseteq Accounts /\ upsets \in 0..MaxUpsets

(* The data on the page is of the record in the address, whatever answers  *)
(* come late and in whatever order, on every screen that waits for it.     *)
ShownIsAsked == screen \notin Keeping /\ Visible # NoKey => Visible = key

(* A button acts on the record its page shows.  InvoiceDetail and          *)
(* AgreementSign keep the old record on the page until the next one loads, *)
(* and act on the one in the address: they are left out of this.           *)
ActsOnWhatItShows ==
  form # Idle /\ form.seen # NoKey /\ form.on \notin {"InvoiceDetail", "AgreementSign"} => form.of = form.seen

(* CustomerForm, pressed again after a step failed, writes no second       *)
(* customer and no second house, but for one per answer that never came.   *)
AddedOnce == customers <= 1 + lost /\ houses <= 1 + lost

-----------------------------------------------------------------------------
(* Why the page is true, as an inductive invariant: there is one load to   *)
(* wait for, and it is of the record in the address; and a submission that *)
(* the page still waits for is of its screen and its account.              *)
PageInv ==
  /\ \A l \in asked : l.live => l.on = screen /\ l.of = key /\ Shows(l.on, l.who)
  /\ \A l, m \in asked : l.live /\ m.live => l = m
  /\ screen \in OfOne <=> key # NoKey
  /\ key = NoKey => shown = NoKey
  /\ form # Idle /\ form.on = "AddCustomer" => form.of # NoKey
  /\ form.here => form.on = screen /\ user # Nobody /\ Shows(screen, user)
  /\ ShownIsAsked
  /\ ActsOnWhatItShows

(* What is left of CustomerForm's submission, by the request that is next. *)
Making   == {<<"createCustomer", "getCustomerSummary", "createProperty">>,
             <<"createCustomer", "getCustomerSummary", "createProperty", "updatePin">>,
             <<"createCustomer", "setPhones", "getCustomerSummary", "createProperty">>,
             <<"createCustomer", "setPhones", "getCustomerSummary", "createProperty", "updatePin">>}
Patching == {<<"updateCustomer">> \o Tail(o) : o \in Making}
Phoning  == {<<"setPhones", "getCustomerSummary", "createProperty">>,
             <<"setPhones", "getCustomerSummary", "createProperty", "updatePin">>}
Looking  == {<<"getCustomerSummary", "createProperty">>, <<"getCustomerSummary", "createProperty", "updatePin">>}
Building == {<<"createProperty">>, <<"createProperty", "updatePin">>}
Pinning  == {<<"updatePin">>}

(* Why nothing is added twice: the customer is made by a form that has     *)
(* saved none, and the house by one that has just seen none.               *)
AddingInv ==
  /\ customers <= 1 + lost /\ houses <= 1
  /\ ~saved => customers <= lost
  /\ form.here /\ form.on = "AddCustomer" =>
       /\ form.ops \in Making \cup Patching \cup Phoning \cup Looking \cup Building \cup Pinning
       /\ form.ops \in Making => ~saved
       /\ form.ops \in Building => houses = 0
=============================================================================
