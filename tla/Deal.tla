-------------------------------- MODULE Deal --------------------------------
(***************************************************************************)
(* The quotes of one address and the contracts they become:                *)
(* services/quotes.ts, services/serviceAgreements.ts, services/signing.ts, *)
(* services/contracts.ts, services/cards.ts and services/deletion.ts.      *)
(*                                                                         *)
(* A customer signs at the door or from an emailed link.  Either way the   *)
(* terms are read first and the contract is written later, in a            *)
(* transaction that holds the quote's row; by link it holds the link's row *)
(* too, and takes it first.  Staff cancel a quote's outstanding links as   *)
(* they send a new one; emailQuote holds the quote's row meanwhile, the    *)
(* other way round, so the two can wait for one another and the database   *)
(* aborts one of them.  A transaction that waits for nobody is one step.   *)
(*                                                                         *)
(* Left to other modules: the invoices a signature raises (Billing) and    *)
(* the emails (MessageQueue).                                              *)
(***************************************************************************)
EXTENDS Naturals, FiniteSets

CONSTANTS
  Quotes,      \* the quotes written for the address
  Terms,       \* what an agreement can say
  CardTerms,   \* ... those paid by card, whose authorization has its own box
  PaperTerms,  \* ... those signed on paper
  Numbers,     \* a quote's links are numbered
  Signers,     \* requests in completeInvitation
  Reps,        \* requests in signAgreement
  Staff,       \* requests in requestSignature and emailQuote
  CardListed   \* whether card_on_file is on the office's checklist

Links    == Quotes \X Numbers
Actors   == Signers \cup Reps \cup Staff
None     == "none"

ASSUME DealAssumption ==
  /\ CardTerms \subseteq Terms
  /\ PaperTerms \subseteq Terms
  /\ None \notin Quotes \cup Terms \cup Numbers
  /\ CardListed \in BOOLEAN
  /\ Signers \cap (Reps \cup Staff) = {}
  /\ Reps \cap Staff = {}

VARIABLES
  quote,     \* quotes.status; "none" before the row exists, "gone" once deleted
  terms,     \* what the quote says
  contract,  \* contracts.status of the quote's contract; "none" without one
  signed,    \* the terms for which every box was signed, at each signature
  card,      \* quotes whose contract has a payment_method_token
  ticked,    \* quotes whose contract's card_on_file item is ticked
  asked,     \* quotes whose contract has a card_setups row still "sent"
  link,      \* signing_requests.status; "none" before the row exists
  lapsed,    \* links past expires_at
  pc,        \* where each request is
  on,        \* the quote it is about
  via,       \* the number of the link it came by
  read,      \* the terms it read, before any lock
  seen,      \* the outstanding links its UPDATE found
  emailing   \* Staff in emailQuote, who hold the quote's row

tables   == <<quote, terms, contract, signed, card, ticked, asked>>
links    == <<link, lapsed>>
requests == <<pc, on, via, read, seen, emailing>>
vars     == <<tables, links, requests>>

QuoteStatuses    == {"draft", "presented", "accepted", "declined", "expired"}
ContractStatuses == {"active", "cancelled", "completed"}
LinkStatuses     == {"sent", "completed", "expired", "cancelled"}

DealTypeOK ==
  /\ quote    \in [Quotes -> {"none", "gone"} \cup QuoteStatuses]
  /\ terms    \in [Quotes -> Terms \cup {None}]
  /\ contract \in [Quotes -> {"none"} \cup ContractStatuses]
  /\ signed   \in [Quotes -> Terms \cup {None}]
  /\ card     \subseteq Quotes
  /\ ticked   \subseteq Quotes
  /\ asked    \subseteq Quotes
  /\ link     \in [Links -> {"none"} \cup LinkStatuses]
  /\ lapsed   \subseteq Links
  /\ pc       \in [Actors -> {"idle", "expiring", "submitted", "holding", "checked", "replacing", "replaced"}]
  /\ on       \in [Actors -> Quotes \cup {None}]
  /\ via      \in [Actors -> Numbers \cup {None}]
  /\ read     \in [Actors -> Terms \cup {None}]
  /\ seen     \in [Actors -> SUBSET Links]
  /\ emailing \subseteq Staff
  /\ \A a \in Actors : pc[a] # "idle" => on[a] \in Quotes
  /\ \A a \in Signers : pc[a] # "idle" => via[a] \in Numbers
  /\ \A a \in Actors : pc[a] \in {"expiring", "holding"} => a \in Signers
  /\ \A a \in emailing : pc[a] # "idle"

Init ==
  /\ quote    = [q \in Quotes |-> "none"]
  /\ terms    = [q \in Quotes |-> None]
  /\ contract = [q \in Quotes |-> "none"]
  /\ signed   = [q \in Quotes |-> None]
  /\ card     = {}
  /\ ticked   = {}
  /\ asked    = {}
  /\ link     = [l \in Links |-> "none"]
  /\ lapsed   = {}
  /\ pc       = [a \in Actors |-> "idle"]
  /\ on       = [a \in Actors |-> None]
  /\ via      = [a \in Actors |-> None]
  /\ read     = [a \in Actors |-> None]
  /\ seen     = [a \in Actors |-> {}]
  /\ emailing = {}

-----------------------------------------------------------------------------
(* Row locks.  FOR UPDATE of a quote also keeps out the insert of a row    *)
(* that references it.                                                     *)
LinkOf(a)      == <<on[a], via[a]>>
QuoteHolders(q) == {s \in emailing : on[s] = q}
LinkHolders(l) ==
  {a \in Signers : pc[a] = "holding" /\ LinkOf(a) = l}
    \cup {s \in Staff : pc[s] = "replaced" /\ l \in seen[s]}

(* Whom a request waits for. *)
Waits(a) ==
  CASE pc[a] = "submitted" /\ a \in Signers -> LinkHolders(LinkOf(a))
    [] pc[a] = "expiring"                   -> LinkHolders(LinkOf(a))
    [] pc[a] = "replacing"                  -> UNION {LinkHolders(l) : l \in seen[a]}
    [] pc[a] = "holding"                    -> QuoteHolders(on[a])
    [] pc[a] = "submitted" /\ a \in Reps    -> QuoteHolders(on[a])
    [] pc[a] = "replaced"                   -> QuoteHolders(on[a]) \ {a}
    [] OTHER                                -> {}

Free(q) == QuoteHolders(q) = {}

Start(a, at, q) ==
  /\ pc[a] = "idle"
  /\ pc' = [pc EXCEPT ![a] = at]
  /\ on' = [on EXCEPT ![a] = q]

(* Mutant: the transaction of a request that has ended is left open. *)
DoneStillHolding(a) ==
  /\ pc'   = [pc EXCEPT ![a] = "idle"]
  /\ on'   = on
  /\ via'  = [via EXCEPT ![a] = None]
  /\ read' = [read EXCEPT ![a] = None]
  /\ seen' = [seen EXCEPT ![a] = {}]
  /\ UNCHANGED emailing

Done(a) ==
  /\ pc'   = [pc EXCEPT ![a] = "idle"]
  /\ on'   = [on EXCEPT ![a] = None]
  /\ via'  = [via EXCEPT ![a] = None]
  /\ read' = [read EXCEPT ![a] = None]
  /\ seen' = [seen EXCEPT ![a] = {}]
  /\ emailing' = emailing \ {a}

At(a, step) == pc' = [pc EXCEPT ![a] = step] /\ UNCHANGED <<on, via, read>>

-----------------------------------------------------------------------------
(* Quotes: services/quotes.ts, and the agreements written on them.         *)

TRANSITIONS == [draft |-> {"presented", "declined", "expired"}, presented |-> {"accepted", "declined", "expired"},
                accepted |-> {}, declined |-> {}, expired |-> {}]
EDITABLE_IN == {"draft", "presented"}

(* createQuote, and createAgreement or openDeal: presented at once.        *)
CreateQuote(q, t, status) ==
  /\ quote[q] = "none"
  /\ quote' = [quote EXCEPT ![q] = status]
  /\ terms' = [terms EXCEPT ![q] = t]
  /\ UNCHANGED <<contract, signed, card, ticked, asked, links, requests>>

Editable(q) == quote[q] \in EDITABLE_IN /\ Free(q)

UpdateAgreement(q, t) ==
  /\ Editable(q)
  /\ contract[q] = "none"
  /\ terms' = [terms EXCEPT ![q] = t]
  /\ UNCHANGED <<quote, contract, signed, card, ticked, asked, links, requests>>

(* updateQuote: the price, of whatever kind the agreement is. *)
UpdateQuote(q, t) ==
  /\ Editable(q)
  /\ (t \in CardTerms) = (terms[q] \in CardTerms)
  /\ (t \in PaperTerms) = (terms[q] \in PaperTerms)
  /\ terms' = [terms EXCEPT ![q] = t]
  /\ UNCHANGED <<quote, contract, signed, card, ticked, asked, links, requests>>

(* Mutant: an accepted quote can still be declined. *)
MayMoveLate(from, to) == to \in TRANSITIONS[from] \/ (from = "accepted" /\ to = "declined")

MayMove(from, to) == to \in TRANSITIONS[from]

ChangeQuoteStatus(q, to) ==
  /\ quote[q] \in QuoteStatuses
  /\ Free(q)
  /\ MayMove(quote[q], to)
  /\ quote' = [quote EXCEPT ![q] = to]
  /\ UNCHANGED <<terms, contract, signed, card, ticked, asked, links, requests>>

-----------------------------------------------------------------------------
(* The contract: services/contracts.ts.                                    *)

SIGNABLE_QUOTE_STATUSES == {"presented", "accepted"}

(* contracts_quote_id_unique, contracts_one_active_per_property *)
Unsigned(q) == contract[q] = "none" /\ \A p \in Quotes : contract[p] # "active"

Signable(q) == quote[q] \in SIGNABLE_QUOTE_STATUSES /\ Unsigned(q)

(* createContract, once it has the quote's row and finds it signable.      *)
(* assertCardCoherent: a token comes with card_on_file ticked.             *)
WriteContract(q, boxes, token) ==
  /\ contract' = [contract EXCEPT ![q] = "active"]
  /\ signed'   = [signed EXCEPT ![q] = boxes]
  /\ card'     = IF token THEN card \cup {q} ELSE card
  /\ ticked'   = IF token /\ CardListed THEN ticked \cup {q} ELSE ticked
  /\ quote'    = [quote EXCEPT ![q] = "accepted"]
  /\ UNCHANGED <<terms, asked>>

(* createContract on its own: no boxes; the rep may have taken a card.     *)
CreateContract(q, token) ==
  /\ Free(q)
  /\ Signable(q)
  /\ WriteContract(q, None, token)
  /\ UNCHANGED <<links, requests>>

RecordPaperAgreement(q) ==
  /\ Free(q)
  /\ terms[q] \in PaperTerms
  /\ Signable(q)
  /\ WriteContract(q, None, FALSE)
  /\ UNCHANGED <<links, requests>>

(* signAgreement: the boxes that have to be signed are read off the terms, *)
(* and createContract waits for the quote's row after that.                *)
ReadAgreement(r, q) ==
  /\ terms[q] \in Terms \ PaperTerms
  /\ Start(r, "submitted", q)
  /\ read' = [read EXCEPT ![r] = terms[q]]
  /\ UNCHANGED <<tables, links, via, seen, emailing>>

SignAgreement(r) ==
  /\ r \in Reps
  /\ pc[r] = "submitted"
  /\ Free(on[r])
  /\ IF Signable(on[r]) THEN WriteContract(on[r], read[r], FALSE) ELSE UNCHANGED tables
  /\ Done(r)
  /\ UNCHANGED links

ContractMoves == [active |-> {"cancelled", "completed"}, cancelled |-> {}, completed |-> {}]

ChangeContractStatus(q, to) ==
  /\ contract[q] # "none"
  /\ to \in ContractMoves[contract[q]]
  /\ contract' = [contract EXCEPT ![q] = to]
  /\ UNCHANGED <<quote, terms, signed, card, ticked, asked, links, requests>>

(* Mutant: the tick on the checklist is not looked at. *)
UpdateCardFreely(q, token) ==
  /\ contract[q] = "active"
  /\ card' = IF token THEN card \cup {q} ELSE card \ {q}
  /\ UNCHANGED <<quote, terms, contract, signed, ticked, asked, links, requests>>

(* updateContract: a new token, or none, as far as the tick allows. *)
UpdateContract(q, token) ==
  /\ contract[q] = "active"
  /\ CardListed => (token <=> q \in ticked)
  /\ card' = IF token THEN card \cup {q} ELSE card \ {q}
  /\ UNCHANGED <<quote, terms, contract, signed, ticked, asked, links, requests>>

(* Mutant: the box can be unticked while there is a card. *)
UntickFreely(q, checked) ==
  /\ contract[q] = "active"
  /\ CardListed
  /\ checked => q \in card
  /\ ticked' = IF checked THEN ticked \cup {q} ELSE ticked \ {q}
  /\ UNCHANGED <<quote, terms, contract, signed, card, asked, links, requests>>

(* setChecklistItem of card_on_file. *)
SetChecklistItem(q, checked) ==
  /\ contract[q] = "active"
  /\ CardListed
  /\ checked <=> q \in card
  /\ ticked' = IF checked THEN ticked \cup {q} ELSE ticked \ {q}
  /\ UNCHANGED <<quote, terms, contract, signed, card, asked, links, requests>>

-----------------------------------------------------------------------------
(* Cards: services/cards.ts, and saveCardFromPortal.                       *)

RequestCard(q) ==
  /\ contract[q] = "active"
  /\ asked' = asked \cup {q}
  /\ UNCHANGED <<quote, terms, contract, signed, card, ticked, links, requests>>

(* finishSetup, for a contract of any status. *)
FinishSetup(q) ==
  /\ q \in asked
  /\ asked'  = asked \ {q}
  /\ card'   = card \cup {q}
  /\ ticked' = IF CardListed THEN ticked \cup {q} ELSE ticked
  /\ UNCHANGED <<quote, terms, contract, signed, links, requests>>

-----------------------------------------------------------------------------
(* Signing by link: services/signing.ts.                                   *)

LinkSent(l)  == link[l] = "sent"
InFlight(q)  == {s \in Staff : pc[s] # "idle" /\ on[s] = q}
(* Bound: every request under way finds a number for its link. *)
Unused(q)    == {n \in Numbers : link[<<q, n>>] = "none"}
HasRoom(q)   == Cardinality(InFlight(q)) < Cardinality(Unused(q))

(* requestSignature's reads, before any lock. *)
RequestSignature(s, q) ==
  /\ quote[q] \in SIGNABLE_QUOTE_STATUSES
  /\ terms[q] \notin PaperTerms
  /\ contract[q] = "none"
  /\ HasRoom(q)
  /\ Start(s, "checked", q)
  /\ UNCHANGED <<tables, links, via, read, seen, emailing>>

(* emailQuote: the quote's row first.  A draft becomes presented when it   *)
(* commits.                                                                *)
EmailQuote(s, q) ==
  /\ Free(q)
  /\ quote[q] \in {"draft"} \cup SIGNABLE_QUOTE_STATUSES
  /\ terms[q] \notin PaperTerms
  /\ contract[q] = "none"
  /\ HasRoom(q)
  /\ Start(s, "checked", q)
  /\ emailing' = emailing \cup {s}
  /\ UNCHANGED <<tables, links, via, read, seen>>

(* The UPDATE finds the links outstanding as it starts ... *)
FindOutstanding(s) ==
  /\ pc[s] = "checked"
  /\ At(s, "replacing")
  /\ seen' = [seen EXCEPT ![s] = {l \in Links : l[1] = on[s] /\ LinkSent(l)}]
  /\ UNCHANGED <<tables, links, emailing>>

(* ... and waits for their rows, those that are still outstanding then. *)
LockOutstanding(s) ==
  /\ pc[s] = "replacing"
  /\ Waits(s) = {}
  /\ At(s, "replaced")
  /\ seen' = [seen EXCEPT ![s] = {l \in seen[s] : LinkSent(l)}]
  /\ UNCHANGED <<tables, links, emailing>>

(* The new row references the quote, so it waits for whoever holds that. *)
SendLink(s, n) ==
  /\ pc[s] = "replaced"
  /\ Waits(s) = {}
  /\ n \in Unused(on[s])
  /\ IF quote[on[s]] = "gone"
       THEN UNCHANGED <<quote, link>>
       ELSE /\ link' = [l \in Links |-> CASE l = <<on[s], n>> -> "sent"
                                          [] l \in seen[s]    -> "cancelled"
                                          [] OTHER            -> link[l]]
            /\ quote' = IF s \in emailing /\ quote[on[s]] = "draft"
                          THEN [quote EXCEPT ![on[s]] = "presented"] ELSE quote
  /\ Done(s)
  /\ UNCHANGED <<terms, contract, signed, card, ticked, asked, lapsed>>

(* verified, and the terms, before any lock. *)
Submit(c, l) ==
  /\ LinkSent(l)
  /\ Start(c, IF l \in lapsed THEN "expiring" ELSE "submitted", l[1])
  /\ via'  = [via EXCEPT ![c] = l[2]]
  /\ read' = [read EXCEPT ![c] = terms[l[1]]]
  /\ UNCHANGED <<tables, links, seen, emailing>>

(* Mutant: nothing in the table keeps a completed link completed. *)
CompletedCheckDropped(l) == TRUE

(* signing_requests_completed_check: a completed link has its contract. *)
CompletedCheck(l) == link[l] # "completed"

(* verified's update of a lapsed link, by id only. *)
Expire(c) ==
  /\ pc[c] = "expiring"
  /\ Waits(c) = {}
  /\ link' = IF link[LinkOf(c)] # "none" /\ CompletedCheck(LinkOf(c))
               THEN [link EXCEPT ![LinkOf(c)] = "expired"] ELSE link
  /\ Done(c)
  /\ UNCHANGED <<tables, lapsed>>

LockLink(c) ==
  /\ c \in Signers
  /\ pc[c] = "submitted"
  /\ Waits(c) = {}
  /\ IF LinkSent(LinkOf(c)) THEN At(c, "holding") /\ UNCHANGED <<seen, emailing>>
                            ELSE Done(c)
  /\ UNCHANGED <<tables, links>>

CompleteInvitation(c) ==
  /\ pc[c] = "holding"
  /\ Waits(c) = {}
  /\ IF Signable(on[c])
       THEN /\ WriteContract(on[c], read[c], FALSE)
            /\ link' = [link EXCEPT ![LinkOf(c)] = "completed"]
       ELSE UNCHANGED <<tables, link>>
  /\ Done(c)
  /\ UNCHANGED lapsed

(* A link runs out. *)
Lapse(l) ==
  /\ LinkSent(l)
  /\ l \notin lapsed
  /\ lapsed' = lapsed \cup {l}
  /\ UNCHANGED <<tables, link, requests>>

(* Two requests wait for each other: the database rolls one back. *)
Deadlocked(a) == \E b \in Waits(a) : a \in Waits(b)

Abort(a) ==
  /\ Deadlocked(a)
  /\ Done(a)
  /\ UNCHANGED <<tables, links>>

-----------------------------------------------------------------------------
(* Deletion: services/deletion.ts.  Deleting a contract empties            *)
(* signing_requests.contract_id, which the table refuses of a link that is *)
(* completed; so does deleting the quote of one.                           *)
(*                                                                         *)
(* Bound: one deletion of a contract at a time.  The code reads the        *)
(* contract without a lock, but what it takes from it, the quote's id, is  *)
(* never changed, so reading and deleting are one step unless another      *)
(* deletion of the same contract comes in between; the later of two then   *)
(* deletes nothing and still sets the quote to presented.                  *)
SignedByLink(q) == \E n \in Numbers : link[<<q, n>>] = "completed"
LinkRowsFree(q) == \A n \in Numbers : LinkHolders(<<q, n>>) = {}

DeleteContract(q) ==
  /\ contract[q] # "none"
  /\ Free(q)
  /\ LinkRowsFree(q)
  /\ ~SignedByLink(q)
  /\ contract' = [contract EXCEPT ![q] = "none"]
  /\ signed'   = [signed EXCEPT ![q] = None]
  /\ card'     = card \ {q}
  /\ ticked'   = ticked \ {q}
  /\ asked'    = asked \ {q}
  /\ quote'    = [quote EXCEPT ![q] = "presented"]
  /\ UNCHANGED <<terms, links, requests>>

DeleteQuote(q) ==
  /\ quote[q] \in QuoteStatuses
  /\ Free(q)
  /\ LinkRowsFree(q)
  /\ ~SignedByLink(q)
  /\ quote'    = [quote EXCEPT ![q] = "gone"]
  /\ terms'    = [terms EXCEPT ![q] = None]
  /\ contract' = [contract EXCEPT ![q] = "none"]
  /\ signed'   = [signed EXCEPT ![q] = None]
  /\ card'     = card \ {q}
  /\ ticked'   = ticked \ {q}
  /\ asked'    = asked \ {q}
  /\ link'     = [l \in Links |-> IF l[1] = q THEN "none" ELSE link[l]]
  /\ lapsed'   = {l \in lapsed : l[1] # q}
  /\ UNCHANGED requests

-----------------------------------------------------------------------------
OfQuote(q) ==
  \/ \E t \in Terms, status \in {"draft", "presented"} : CreateQuote(q, t, status)
  \/ \E t \in Terms : UpdateAgreement(q, t) \/ UpdateQuote(q, t)
  \/ \E to \in QuoteStatuses : ChangeQuoteStatus(q, to)
  \/ \E token \in BOOLEAN :
       CreateContract(q, token) \/ UpdateContract(q, token) \/ SetChecklistItem(q, token)
  \/ RecordPaperAgreement(q)
  \/ \E to \in ContractStatuses : ChangeContractStatus(q, to)
  \/ RequestCard(q) \/ FinishSetup(q)
  \/ DeleteContract(q) \/ DeleteQuote(q)

OfStaff(s) ==
  \/ \E q \in Quotes : RequestSignature(s, q) \/ EmailQuote(s, q)
  \/ FindOutstanding(s) \/ LockOutstanding(s)
  \/ \E n \in Numbers : SendLink(s, n)

OfSigner(c) ==
  \/ \E l \in Links : Submit(c, l)
  \/ Expire(c) \/ LockLink(c) \/ CompleteInvitation(c)

OfRep(r) == \/ \E q \in Quotes : ReadAgreement(r, q)
            \/ SignAgreement(r)

Next ==
  \/ \E q \in Quotes : OfQuote(q)
  \/ \E s \in Staff : OfStaff(s)
  \/ \E c \in Signers : OfSigner(c)
  \/ \E r \in Reps : OfRep(r)
  \/ \E l \in Links : Lapse(l)
  \/ \E a \in Actors : Abort(a)

Spec == Init /\ [][Next]_vars

(* A request that can go on does, and one that waits for a row gets its    *)
(* turn: the database queues them.                                         *)
Proceed(a) ==
  \/ a \in Staff   /\ (FindOutstanding(a) \/ LockOutstanding(a) \/ \E n \in Numbers : SendLink(a, n))
  \/ a \in Signers /\ (Expire(a) \/ LockLink(a) \/ CompleteInvitation(a))
  \/ SignAgreement(a)

Fairness ==
  /\ \A a \in Actors : SF_vars(Proceed(a))
  /\ WF_vars(\E a \in Actors : Abort(a))

FairSpec == Spec /\ Fairness

-----------------------------------------------------------------------------
(* A quote with a contract is accepted, and stays so while staff move      *)
(* quotes about and customers sign (createContract, changeQuoteStatus).    *)
SignedIsAccepted == \A q \in Quotes : contract[q] # "none" => quote[q] = "accepted"

(* A link says completed of the one contract its quote has: no two links   *)
(* of a quote can both be signed (completeInvitation).                     *)
LinkTellsTruth ==
  \A k, l \in Links :
    link[k] = "completed" =>
      /\ contract[k[1]] # "none"
      /\ link[l] = "completed" /\ l[1] = k[1] => l = k

(* card_on_file is ticked exactly when there is a card, through            *)
(* updateContract, setChecklistItem and finishSetup, on contracts of any   *)
(* status.                                                                 *)
CardTicked == CardListed => ticked = card

(* What a signature leaves behind agrees, however requests interleave.     *)
DealCoherent == DealTypeOK /\ SignedIsAccepted /\ LinkTellsTruth /\ CardTicked

-----------------------------------------------------------------------------
(* What else is needed for that to be inductive, and for the offer below:  *)
(* a quote that stands says something, and the row of a link that somebody *)
(* holds is held once and still says sent.                                 *)
QuoteIsWorded == \A q \in Quotes : quote[q] \in QuoteStatuses => terms[q] \in Terms

LinkHeldOnce == \A l \in Links : \A a, b \in LinkHolders(l) : a = b

HeldLinkIsSent == \A l \in Links : LinkHolders(l) # {} => LinkSent(l)

DealInv ==
  SignedIsAccepted /\ LinkTellsTruth /\ CardTicked /\ QuoteIsWorded /\ LinkHeldOnce /\ HeldLinkIsSent

(* An offer is signed while it has a contract, and closed once its quote is *)
(* declined, expired or deleted.                                           *)
StageOf(q) ==
  CASE quote[q] \in {"declined", "expired", "gone"} -> "closed"
    [] contract[q] # "none"                        -> "signed"
    [] OTHER                                       -> "open"

O == INSTANCE Offer WITH
  Offers    <- Quotes,
  Wordings  <- Terms,
  NoWording <- None,
  says      <- terms,
  sealed    <- {q \in Quotes : SignedByLink(q)},
  stage     <- [q \in Quotes |-> StageOf(q)]

(* Signing implements the offer: whatever the requests do at once, an      *)
(* offer is signed once and what it says then stands (services/signing.ts, *)
(* services/contracts.ts, services/deletion.ts).                           *)
ImplementsOffer == O!Spec

-----------------------------------------------------------------------------
(* As the checklist and the token each wait for the other to go first, a   *)
(* card once on a contract cannot be taken off it (updateContract,         *)
(* setChecklistItem): it goes with the contract.                           *)
CardStays ==
  [][CardListed => \A q \in card : q \in card' \/ contract'[q] = "none"]_vars

(* Every request to sign or to send a link ends, those that deadlock too.  *)
EveryRequestEnds == \A a \in Actors : pc[a] # "idle" ~> pc[a] = "idle"

(* The authorization of the card is signed for whenever the agreement      *)
(* takes a card (serviceAgreements.ts: "Which boxes must be signed. The    *)
(* card authorization only where a card pays").                            *)
BoxesSigned ==
  \A q \in Quotes : signed[q] # None /\ terms[q] \in CardTerms => signed[q] \in CardTerms

(* signing.ts: "two live links to sign the same quote is two ways to end   *)
(* up with two contracts".                                                 *)
OneLiveLink == \A k, l \in Links : link[k] = "sent" /\ link[l] = "sent" /\ k[1] = l[1] => k = l
=============================================================================
