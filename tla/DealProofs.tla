----------------------------- MODULE DealProofs -----------------------------
(***************************************************************************)
(* Proofs about module Deal, for any quotes, terms and links, and any      *)
(* number of requests of each kind.                                        *)
(***************************************************************************)
EXTENDS Deal, TLAPS

LEMMA LinkParts ==
  /\ \A q \in Quotes, n \in Numbers : <<q, n>> \in Links
  /\ \A l \in Links : l[1] \in Quotes /\ l[2] \in Numbers /\ l = <<l[1], l[2]>>
BY DEF Links

LEMMA NoneIsNobodys == None \notin Quotes /\ None \notin Terms /\ None \notin Numbers
BY DealAssumption

LEMMA ActorKinds == Signers \subseteq Actors /\ Reps \subseteq Actors /\ Staff \subseteq Actors
BY DEF Actors

-----------------------------------------------------------------------------
(* The type invariant, by the groups the actions change.                   *)
TablesTyped ==
  /\ quote    \in [Quotes -> {"none", "gone"} \cup QuoteStatuses]
  /\ terms    \in [Quotes -> Terms \cup {None}]
  /\ contract \in [Quotes -> {"none"} \cup ContractStatuses]
  /\ signed   \in [Quotes -> Terms \cup {None}]
  /\ card \subseteq Quotes /\ ticked \subseteq Quotes /\ asked \subseteq Quotes

LinksTyped ==
  /\ link \in [Links -> {"none"} \cup LinkStatuses]
  /\ lapsed \subseteq Links

RequestsTyped ==
  /\ pc       \in [Actors -> {"idle", "expiring", "submitted", "holding", "checked", "replacing", "replaced"}]
  /\ on       \in [Actors -> Quotes \cup {None}]
  /\ via      \in [Actors -> Numbers \cup {None}]
  /\ read     \in [Actors -> Terms \cup {None}]
  /\ seen     \in [Actors -> SUBSET Links]
  /\ emailing \subseteq Staff
  /\ \A a \in Actors : pc[a] # "idle" => on[a] \in Quotes
  /\ \A a \in Signers : pc[a] # "idle" => via[a] \in Numbers
  /\ \A a \in Actors : pc[a] \in {"expiring", "holding"} => a \in Signers
  /\ \A a \in emailing : pc[a] # "idle"

LEMMA Typed == DealTypeOK <=> TablesTyped /\ LinksTyped /\ RequestsTyped
BY DEF DealTypeOK, TablesTyped, LinksTyped, RequestsTyped

LEMMA DoneTyped ==
  ASSUME RequestsTyped, NEW a \in Actors, Done(a)
  PROVE  RequestsTyped'
BY ActorKinds DEF Done, RequestsTyped

LEMMA WriteTyped ==
  ASSUME TablesTyped, NEW q \in Quotes, NEW boxes \in Terms \cup {None}, NEW token \in BOOLEAN,
         WriteContract(q, boxes, token)
  PROVE  TablesTyped'
BY DEF WriteContract, TablesTyped, ContractStatuses, QuoteStatuses

LEMMA OfQuoteTyped ==
  ASSUME TablesTyped, LinksTyped, RequestsTyped, NEW q \in Quotes, OfQuote(q)
  PROVE  TablesTyped' /\ LinksTyped' /\ RequestsTyped'
<1>1. ASSUME UNCHANGED links PROVE LinksTyped'
  BY <1>1 DEF LinksTyped, links
<1>2. ASSUME UNCHANGED requests PROVE RequestsTyped'
  BY <1>2 DEF RequestsTyped, requests
<1>3. ASSUME NEW t \in Terms, NEW status \in {"draft", "presented"}, CreateQuote(q, t, status)
      PROVE  TablesTyped' /\ LinksTyped' /\ RequestsTyped'
  BY <1>1, <1>2, <1>3 DEF CreateQuote, TablesTyped, QuoteStatuses
<1>4. ASSUME NEW t \in Terms, UpdateAgreement(q, t) \/ UpdateQuote(q, t)
      PROVE  TablesTyped' /\ LinksTyped' /\ RequestsTyped'
  BY <1>1, <1>2, <1>4 DEF UpdateAgreement, UpdateQuote, TablesTyped
<1>5. ASSUME NEW to \in QuoteStatuses, ChangeQuoteStatus(q, to)
      PROVE  TablesTyped' /\ LinksTyped' /\ RequestsTyped'
  BY <1>1, <1>2, <1>5 DEF ChangeQuoteStatus, TablesTyped
<1>6. ASSUME NEW token \in BOOLEAN, CreateContract(q, token) \/ RecordPaperAgreement(q)
      PROVE  TablesTyped' /\ LinksTyped' /\ RequestsTyped'
  BY <1>1, <1>2, <1>6, WriteTyped DEF CreateContract, RecordPaperAgreement
<1>7. ASSUME NEW token \in BOOLEAN, UpdateContract(q, token) \/ SetChecklistItem(q, token)
      PROVE  TablesTyped' /\ LinksTyped' /\ RequestsTyped'
  BY <1>1, <1>2, <1>7 DEF UpdateContract, SetChecklistItem, TablesTyped
<1>8. ASSUME NEW to \in ContractStatuses, ChangeContractStatus(q, to)
      PROVE  TablesTyped' /\ LinksTyped' /\ RequestsTyped'
  BY <1>1, <1>2, <1>8 DEF ChangeContractStatus, TablesTyped
<1>9. CASE RequestCard(q) \/ FinishSetup(q)
  BY <1>1, <1>2, <1>9 DEF RequestCard, FinishSetup, TablesTyped
<1>10. CASE DeleteContract(q)
  BY <1>1, <1>2, <1>10 DEF DeleteContract, TablesTyped, QuoteStatuses
<1>11. CASE DeleteQuote(q)
  <2>1. TablesTyped'
    BY <1>11 DEF DeleteQuote, TablesTyped
  <2>2. LinksTyped'
    BY <1>11 DEF DeleteQuote, LinksTyped
  <2>3. QED
    BY <1>2, <1>11, <2>1, <2>2 DEF DeleteQuote
<1>12. QED
  BY <1>3, <1>4, <1>5, <1>6, <1>7, <1>8, <1>9, <1>10, <1>11 DEF OfQuote

LEMMA OfStaffTyped ==
  ASSUME TablesTyped, LinksTyped, RequestsTyped, NEW s \in Staff, OfStaff(s)
  PROVE  TablesTyped' /\ LinksTyped' /\ RequestsTyped'
<1> s \in Actors
  BY ActorKinds
<1>1. ASSUME UNCHANGED links PROVE LinksTyped'
  BY <1>1 DEF LinksTyped, links
<1>2. ASSUME UNCHANGED tables PROVE TablesTyped'
  BY <1>2 DEF TablesTyped, tables
<1>3. s \notin Signers
  BY DealAssumption
<1>4. ASSUME NEW q \in Quotes, RequestSignature(s, q) \/ EmailQuote(s, q)
      PROVE  TablesTyped' /\ LinksTyped' /\ RequestsTyped'
  <2>1. /\ pc' = [pc EXCEPT ![s] = "checked"] /\ on' = [on EXCEPT ![s] = q]
        /\ UNCHANGED <<via, read, seen>> /\ emailing' \in {emailing, emailing \cup {s}}
    BY <1>4 DEF RequestSignature, EmailQuote, Start
  <2>2. RequestsTyped'
    BY <1>3, <2>1 DEF RequestsTyped
  <2>3. QED
    BY <1>1, <1>2, <1>4, <2>2 DEF RequestSignature, EmailQuote
<1>5. CASE FindOutstanding(s)
  <2>1. RequestsTyped'
    BY <1>3, <1>5 DEF FindOutstanding, At, RequestsTyped
  <2>2. QED
    BY <1>1, <1>2, <1>5, <2>1 DEF FindOutstanding
<1>6. CASE LockOutstanding(s)
  <2>1. RequestsTyped'
    BY <1>3, <1>6 DEF LockOutstanding, At, RequestsTyped
  <2>2. QED
    BY <1>1, <1>2, <1>6, <2>1 DEF LockOutstanding
<1>7. ASSUME NEW n \in Numbers, SendLink(s, n)
      PROVE  TablesTyped' /\ LinksTyped' /\ RequestsTyped'
  <2>1. RequestsTyped'
    BY <1>7, DoneTyped DEF SendLink
  <2>2. on[s] \in Quotes
    BY <1>7 DEF SendLink, RequestsTyped
  <2>3. TablesTyped'
    BY <1>7, <2>2 DEF SendLink, TablesTyped, QuoteStatuses
  <2>4. LinksTyped'
    BY <1>7 DEF SendLink, LinksTyped, LinkStatuses
  <2>5. QED
    BY <2>1, <2>3, <2>4
<1>8. QED
  BY <1>4, <1>5, <1>6, <1>7 DEF OfStaff

LEMMA OfSignerTyped ==
  ASSUME TablesTyped, LinksTyped, RequestsTyped, NEW c \in Signers, OfSigner(c)
  PROVE  TablesTyped' /\ LinksTyped' /\ RequestsTyped'
<1> c \in Actors
  BY ActorKinds
<1>1. ASSUME UNCHANGED links PROVE LinksTyped'
  BY <1>1 DEF LinksTyped, links
<1>2. ASSUME UNCHANGED tables PROVE TablesTyped'
  BY <1>2 DEF TablesTyped, tables
<1>3. c \notin Staff
  BY DealAssumption
<1>4. ASSUME NEW l \in Links, Submit(c, l)
      PROVE  TablesTyped' /\ LinksTyped' /\ RequestsTyped'
  <2>1. l[1] \in Quotes /\ l[2] \in Numbers /\ terms[l[1]] \in Terms \cup {None}
    BY LinkParts DEF TablesTyped
  <2>2. RequestsTyped'
    BY <1>3, <1>4, <2>1 DEF Submit, Start, RequestsTyped
  <2>3. QED
    BY <1>1, <1>2, <1>4, <2>2 DEF Submit
<1>5. CASE Expire(c)
  <2>1. RequestsTyped'
    BY <1>5, DoneTyped DEF Expire
  <2>2. LinksTyped'
    BY <1>5 DEF Expire, LinksTyped, LinkStatuses
  <2>3. QED
    BY <1>2, <1>5, <2>1, <2>2 DEF Expire
<1>6. CASE LockLink(c)
  <2>1. CASE Done(c)
    BY <1>1, <1>2, <1>6, <2>1, DoneTyped DEF LockLink
  <2>2. CASE At(c, "holding") /\ UNCHANGED <<seen, emailing>>
    <3>1. RequestsTyped'
      BY <1>3, <1>6, <2>2 DEF LockLink, At, RequestsTyped
    <3>2. QED
      BY <1>1, <1>2, <1>6, <3>1 DEF LockLink
  <2>3. QED
    BY <1>6, <2>1, <2>2 DEF LockLink
<1>7. CASE CompleteInvitation(c)
  <2>1. RequestsTyped'
    BY <1>7, DoneTyped DEF CompleteInvitation
  <2>2. on[c] \in Quotes /\ read[c] \in Terms \cup {None}
    BY <1>7 DEF CompleteInvitation, RequestsTyped
  <2>3. TablesTyped'
    BY <1>2, <1>7, <2>2, WriteTyped DEF CompleteInvitation
  <2>4. LinksTyped'
    BY <1>7 DEF CompleteInvitation, LinksTyped, LinkStatuses
  <2>5. QED
    BY <2>1, <2>3, <2>4
<1>8. QED
  BY <1>4, <1>5, <1>6, <1>7 DEF OfSigner

LEMMA OfRepTyped ==
  ASSUME TablesTyped, LinksTyped, RequestsTyped, NEW r \in Reps, OfRep(r)
  PROVE  TablesTyped' /\ LinksTyped' /\ RequestsTyped'
<1> r \in Actors
  BY ActorKinds
<1>1. r \notin Signers /\ r \notin Staff
  BY DealAssumption
<1>2. ASSUME NEW q \in Quotes, ReadAgreement(r, q)
      PROVE  TablesTyped' /\ LinksTyped' /\ RequestsTyped'
  <2>1. RequestsTyped'
    BY <1>1, <1>2 DEF ReadAgreement, Start, RequestsTyped, TablesTyped
  <2>2. QED
    BY <1>2, <2>1 DEF ReadAgreement, tables, links, TablesTyped, LinksTyped
<1>3. CASE SignAgreement(r)
  <2>1. RequestsTyped'
    BY <1>3, DoneTyped DEF SignAgreement
  <2>2. on[r] \in Quotes /\ read[r] \in Terms \cup {None}
    BY <1>3 DEF SignAgreement, RequestsTyped
  <2>3. TablesTyped'
    BY <1>3, <2>2, WriteTyped DEF SignAgreement, tables, TablesTyped
  <2>4. QED
    BY <1>3, <2>1, <2>3 DEF SignAgreement, links, LinksTyped
<1>4. QED
  BY <1>2, <1>3 DEF OfRep

(* The variables keep their types, and a request that is under way is      *)
(* about a quote.                                                          *)
THEOREM TypeCorrect == Spec => []DealTypeOK
<1>1. Init => DealTypeOK
  <2>1. Init => TablesTyped
    BY DEF Init, TablesTyped
  <2>2. Init => LinksTyped
    BY DEF Init, LinksTyped
  <2>3. Init => RequestsTyped
    BY ActorKinds DEF Init, RequestsTyped
  <2>4. QED
    BY <2>1, <2>2, <2>3, Typed
<1>2. DealTypeOK /\ [Next]_vars => DealTypeOK'
  <2> SUFFICES ASSUME TablesTyped, LinksTyped, RequestsTyped, [Next]_vars
               PROVE  TablesTyped' /\ LinksTyped' /\ RequestsTyped'
    BY Typed DEF DealTypeOK, TablesTyped, LinksTyped, RequestsTyped
  <2>1. ASSUME NEW l \in Links, Lapse(l)
        PROVE  TablesTyped' /\ LinksTyped' /\ RequestsTyped'
    BY <2>1 DEF Lapse, tables, requests, TablesTyped, LinksTyped, RequestsTyped
  <2>2. ASSUME NEW a \in Actors, Abort(a)
        PROVE  TablesTyped' /\ LinksTyped' /\ RequestsTyped'
    BY <2>2, DoneTyped DEF Abort, tables, links, TablesTyped, LinksTyped
  <2>3. CASE UNCHANGED vars
    BY <2>3 DEF vars, tables, links, requests, TablesTyped, LinksTyped, RequestsTyped
  <2>4. QED
    BY <2>1, <2>2, <2>3, OfQuoteTyped, OfStaffTyped, OfSignerTyped, OfRepTyped DEF Next
<1>3. QED
  BY <1>1, <1>2, PTL DEF Spec

-----------------------------------------------------------------------------
(* Quotes, contracts and cards: what the tables say by themselves.         *)
TablesInv == SignedIsAccepted /\ CardTicked /\ QuoteIsWorded

LEMMA WriteKeeps ==
  ASSUME TablesTyped, TablesInv, NEW q \in Quotes, NEW boxes, NEW token \in BOOLEAN,
         Signable(q), WriteContract(q, boxes, token)
  PROVE  TablesInv'
<1>1. quote[q] \in QuoteStatuses
  BY DEF Signable, SIGNABLE_QUOTE_STATUSES, QuoteStatuses
<1>2. SignedIsAccepted'
  BY DEF TablesInv, TablesTyped, SignedIsAccepted, WriteContract
<1>3. CardTicked'
  BY DEF TablesInv, CardTicked, WriteContract
<1>4. QuoteIsWorded'
  BY <1>1 DEF TablesInv, TablesTyped, QuoteIsWorded, WriteContract
<1>5. QED
  BY <1>2, <1>3, <1>4 DEF TablesInv

LEMMA OfQuoteKeeps ==
  ASSUME TablesTyped, TablesInv, NEW q \in Quotes, OfQuote(q)
  PROVE  TablesInv'
<1> USE DEF TablesInv, TablesTyped, SignedIsAccepted, CardTicked, QuoteIsWorded
<1>1. ASSUME NEW t \in Terms, NEW status \in {"draft", "presented"}, CreateQuote(q, t, status)
      PROVE  TablesInv'
  BY <1>1 DEF CreateQuote
<1>2. ASSUME NEW t \in Terms, UpdateAgreement(q, t) \/ UpdateQuote(q, t)
      PROVE  TablesInv'
  BY <1>2 DEF UpdateAgreement, UpdateQuote
<1>3. ASSUME NEW to \in QuoteStatuses, ChangeQuoteStatus(q, to)
      PROVE  TablesInv'
  <2>1. quote[q] # "accepted"
    BY <1>3 DEF ChangeQuoteStatus, MayMove, TRANSITIONS
  <2>2. QED
    BY <1>3, <2>1 DEF ChangeQuoteStatus
<1>4. ASSUME NEW token \in BOOLEAN, CreateContract(q, token) \/ RecordPaperAgreement(q)
      PROVE  TablesInv'
  BY <1>4, WriteKeeps DEF CreateContract, RecordPaperAgreement
<1>5. ASSUME NEW token \in BOOLEAN, UpdateContract(q, token) \/ SetChecklistItem(q, token)
      PROVE  TablesInv'
  BY <1>5 DEF UpdateContract, SetChecklistItem
<1>6. ASSUME NEW to \in ContractStatuses, ChangeContractStatus(q, to)
      PROVE  TablesInv'
  BY <1>6 DEF ChangeContractStatus
<1>7. CASE RequestCard(q) \/ FinishSetup(q)
  BY <1>7 DEF RequestCard, FinishSetup
<1>8. CASE DeleteContract(q)
  <2>1. quote[q] = "accepted"
    BY <1>8 DEF DeleteContract
  <2>2. QED
    BY <1>8, <2>1 DEF DeleteContract, QuoteStatuses
<1>9. CASE DeleteQuote(q)
  BY <1>9 DEF DeleteQuote, QuoteStatuses
<1>10. QED
  BY <1>1, <1>2, <1>3, <1>4, <1>5, <1>6, <1>7, <1>8, <1>9 DEF OfQuote

LEMMA TablesKept ==
  ASSUME DealTypeOK, TablesInv, [Next]_vars
  PROVE  TablesInv'
<1> TablesTyped /\ LinksTyped /\ RequestsTyped
  BY Typed
<1>1. ASSUME UNCHANGED tables
      PROVE  TablesInv'
  BY <1>1 DEF tables, TablesInv, SignedIsAccepted, CardTicked, QuoteIsWorded
<1>2. ASSUME NEW s \in Staff, OfStaff(s)
      PROVE  TablesInv'
  <2>1. ASSUME NEW n \in Numbers, SendLink(s, n)
        PROVE  TablesInv'
    <3>1. on[s] \in Quotes
      BY <2>1, ActorKinds DEF SendLink, RequestsTyped
    <3>2. QED
      BY <2>1, <3>1
      DEF SendLink, TablesTyped, TablesInv, SignedIsAccepted, CardTicked, QuoteIsWorded, QuoteStatuses
  <2>2. QED
    BY <1>1, <1>2, <2>1 DEF OfStaff, RequestSignature, EmailQuote, FindOutstanding, LockOutstanding
<1>3. ASSUME NEW c \in Signers, OfSigner(c)
      PROVE  TablesInv'
  <2>1. CASE CompleteInvitation(c)
    <3>1. on[c] \in Quotes
      BY <2>1, ActorKinds DEF CompleteInvitation, RequestsTyped
    <3>2. QED
      BY <1>1, <2>1, <3>1, WriteKeeps DEF CompleteInvitation
  <2>2. QED
    BY <1>1, <1>3, <2>1 DEF OfSigner, Submit, Expire, LockLink
<1>4. ASSUME NEW r \in Reps, OfRep(r)
      PROVE  TablesInv'
  <2>1. CASE SignAgreement(r)
    <3>1. on[r] \in Quotes
      BY <2>1, ActorKinds DEF SignAgreement, RequestsTyped
    <3>2. QED
      BY <1>1, <2>1, <3>1, WriteKeeps DEF SignAgreement
  <2>2. QED
    BY <1>1, <1>4, <2>1 DEF OfRep, ReadAgreement
<1>5. QED
  BY <1>1, <1>2, <1>3, <1>4, OfQuoteKeeps DEF Next, Lapse, Abort, vars

-----------------------------------------------------------------------------
(* The rows of the links, and who holds them.                              *)
HeldInv == LinkHeldOnce /\ HeldLinkIsSent

(* Nobody's request but a's moves. *)
OnlyMoves(a) ==
  \A b \in Actors : b # a => pc'[b] = pc[b] /\ on'[b] = on[b] /\ via'[b] = via[b] /\ seen'[b] = seen[b]

LEMMA HoldersKept ==
  ASSUME NEW a \in Actors, OnlyMoves(a), NEW l
  PROVE  /\ LinkHolders(l)' \subseteq LinkHolders(l) \cup {a}
         /\ pc'[a] \notin {"holding", "replaced"} => LinkHolders(l)' \subseteq LinkHolders(l) \ {a}
BY ActorKinds DEF OnlyMoves, LinkHolders, LinkOf

LEMMA HoldersAreActors == \A l : LinkHolders(l) \subseteq Actors
BY ActorKinds DEF LinkHolders

LEMMA DoneMoves ==
  ASSUME RequestsTyped, NEW a \in Actors, Done(a)
  PROVE  OnlyMoves(a) /\ pc'[a] = "idle"
BY DEF RequestsTyped, OnlyMoves, Done

(* Who comes to hold no more, and changes no row that is held.             *)
LEMMA FewerHolders ==
  ASSUME HeldInv,
         \A l \in Links : LinkHolders(l)' \subseteq LinkHolders(l),
         \A l \in Links : LinkHolders(l)' # {} => link'[l] = link[l]
  PROVE  HeldInv'
BY DEF HeldInv, LinkHeldOnce, HeldLinkIsSent, LinkSent

(* Whom a request waits for, step by step. *)
LEMMA WaitsForLink ==
  ASSUME NEW c \in Signers, pc[c] \in {"submitted", "expiring"}
  PROVE  Waits(c) = LinkHolders(LinkOf(c))
<1>1. c \notin Reps
  BY DealAssumption
<1>2. QED
  BY <1>1 DEF Waits

LEMMA WaitsForSeen ==
  ASSUME NEW s \in Staff, pc[s] = "replacing", Waits(s) = {}, NEW l \in seen[s]
  PROVE  LinkHolders(l) = {}
<1>1. Waits(s) = UNION {LinkHolders(k) : k \in seen[s]}
  BY DEF Waits
<1>2. QED
  BY <1>1

LEMMA HeldKept ==
  ASSUME DealTypeOK, HeldInv, [Next]_vars
  PROVE  HeldInv'
<1> TablesTyped /\ LinksTyped /\ RequestsTyped
  BY Typed
<1> USE ActorKinds
<1>1. ASSUME UNCHANGED <<pc, on, via, seen, link>>
      PROVE  HeldInv'
  BY <1>1 DEF HeldInv, LinkHeldOnce, HeldLinkIsSent, LinkHolders, LinkOf, LinkSent
<1>2. ASSUME NEW a \in Actors, OnlyMoves(a), pc'[a] \notin {"holding", "replaced"}, UNCHANGED link
      PROVE  HeldInv'
  BY <1>2, HoldersKept, FewerHolders
<1>3. ASSUME NEW q \in Quotes, OfQuote(q)
      PROVE  HeldInv'
  <2>1. CASE DeleteQuote(q)
    <3>1. UNCHANGED <<pc, on, via, seen>>
      BY <2>1 DEF DeleteQuote, requests
    <3>2. ASSUME NEW l \in Links
          PROVE  LinkHolders(l)' = LinkHolders(l)
      BY <3>1 DEF LinkHolders, LinkOf
    <3>3. ASSUME NEW l \in Links, LinkHolders(l) # {}
          PROVE  link'[l] = link[l]
      <4>1. l[2] \in Numbers /\ l = <<l[1], l[2]>>
        BY LinkParts
      <4>2. l[1] # q
        BY <2>1, <3>3, <4>1 DEF DeleteQuote, LinkRowsFree
      <4>3. QED
        BY <2>1, <4>2 DEF DeleteQuote
    <3>4. QED
      BY <3>2, <3>3, FewerHolders
  <2>2. QED
    BY <1>1, <1>3, <2>1
    DEF OfQuote, CreateQuote, UpdateAgreement, UpdateQuote, ChangeQuoteStatus, CreateContract,
        UpdateContract, SetChecklistItem, RecordPaperAgreement, ChangeContractStatus, RequestCard,
        FinishSetup, DeleteContract, links, requests
<1>4. ASSUME NEW s \in Staff, OfStaff(s)
      PROVE  HeldInv'
  <2>1. ASSUME NEW q \in Quotes, RequestSignature(s, q) \/ EmailQuote(s, q)
        PROVE  HeldInv'
    <3>1. OnlyMoves(s) /\ pc'[s] = "checked" /\ UNCHANGED link
      BY <2>1 DEF RequestSignature, EmailQuote, Start, OnlyMoves, RequestsTyped, links
    <3>2. QED
      BY <1>2, <3>1
  <2>2. CASE FindOutstanding(s)
    <3>1. OnlyMoves(s) /\ pc'[s] = "replacing" /\ UNCHANGED link
      BY <2>2 DEF FindOutstanding, At, OnlyMoves, RequestsTyped, links
    <3>2. QED
      BY <1>2, <3>1
  <2>3. CASE LockOutstanding(s)
    <3>1. /\ OnlyMoves(s) /\ UNCHANGED link /\ pc'[s] = "replaced"
          /\ seen'[s] = {l \in seen[s] : LinkSent(l)}
      BY <2>3 DEF LockOutstanding, At, OnlyMoves, RequestsTyped, links
    <3>2. s \notin Signers
      BY DealAssumption
    <3>3. ASSUME NEW l \in Links
          PROVE  \/ LinkHolders(l)' \subseteq LinkHolders(l)
                 \/ LinkHolders(l)' = {s} /\ LinkSent(l)
      <4>1. CASE s \in LinkHolders(l)'
        <5>1. l \in seen[s] /\ LinkSent(l)
          BY <3>1, <3>2, <4>1 DEF LinkHolders
        <5>2. LinkHolders(l) = {}
          BY <2>3, <5>1, WaitsForSeen DEF LockOutstanding
        <5>3. QED
          BY <3>1, <4>1, <5>1, <5>2, HoldersKept
      <4>2. CASE s \notin LinkHolders(l)'
        BY <3>1, <4>2, HoldersKept
      <4>3. QED
        BY <4>1, <4>2
    <3>4. QED
      BY <3>1, <3>3 DEF HeldInv, LinkHeldOnce, HeldLinkIsSent, LinkSent
  <2>4. ASSUME NEW n \in Numbers, SendLink(s, n)
        PROVE  HeldInv'
    <3>1. OnlyMoves(s) /\ pc'[s] = "idle"
      BY <2>4, DoneMoves DEF SendLink
    <3>2. ASSUME NEW l \in Links
          PROVE  LinkHolders(l)' \subseteq LinkHolders(l) \ {s}
      BY <3>1, HoldersKept
    <3>3. ASSUME NEW l \in Links, LinkHolders(l)' # {}
          PROVE  link'[l] = link[l]
      <4>1. PICK a \in LinkHolders(l) : a # s
        BY <3>2, <3>3
      <4>2. LinkSent(l)
        BY <4>1 DEF HeldInv, HeldLinkIsSent
      <4>3. l \notin seen[s]
        <5>1. SUFFICES ASSUME l \in seen[s] PROVE s \in LinkHolders(l)
          BY <4>1 DEF HeldInv, LinkHeldOnce
        <5>2. QED
          BY <2>4, <5>1 DEF SendLink, LinkHolders
      <4>4. l # <<on[s], n>>
        BY <2>4, <4>2 DEF SendLink, Unused, LinkSent
      <4>5. QED
        BY <2>4, <4>3, <4>4 DEF SendLink
    <3>4. QED
      BY <3>2, <3>3, FewerHolders
  <2>5. QED
    BY <1>4, <2>1, <2>2, <2>3, <2>4 DEF OfStaff
<1>5. ASSUME NEW c \in Signers, OfSigner(c)
      PROVE  HeldInv'
  <2>1. ASSUME NEW l \in Links, Submit(c, l)
        PROVE  HeldInv'
    <3>1. OnlyMoves(c) /\ pc'[c] \in {"expiring", "submitted"} /\ UNCHANGED link
      BY <2>1 DEF Submit, Start, OnlyMoves, RequestsTyped, links
    <3>2. QED
      BY <1>2, <3>1
  <2>2. CASE Expire(c)
    <3>1. OnlyMoves(c) /\ pc'[c] = "idle"
      BY <2>2, DoneMoves DEF Expire
    <3>2. LinkHolders(LinkOf(c)) = {}
      BY <2>2, WaitsForLink DEF Expire
    <3>3. ASSUME NEW l \in Links
          PROVE  LinkHolders(l)' \subseteq LinkHolders(l)
      BY <3>1, HoldersKept
    <3>4. ASSUME NEW l \in Links, l # LinkOf(c)
          PROVE  link'[l] = link[l]
      BY <2>2, <3>4 DEF Expire, LinksTyped
    <3>5. QED
      BY <3>2, <3>3, <3>4, FewerHolders
  <2>3. CASE LockLink(c)
    <3>1. LinkHolders(LinkOf(c)) = {} /\ UNCHANGED link
      BY <2>3, WaitsForLink DEF LockLink, links
    <3>2. CASE Done(c)
      BY <1>2, <3>1, <3>2, DoneMoves
    <3>3. CASE ~Done(c)
      <4>1. /\ OnlyMoves(c) /\ pc'[c] = "holding" /\ LinkSent(LinkOf(c))
            /\ on'[c] = on[c] /\ via'[c] = via[c]
        BY <2>3, <3>3 DEF LockLink, At, OnlyMoves, RequestsTyped
      <4>2. c \notin Staff
        BY DealAssumption
      <4>3. ASSUME NEW l \in Links
            PROVE  \/ LinkHolders(l)' \subseteq LinkHolders(l)
                   \/ LinkHolders(l)' \subseteq {c} /\ LinkSent(l)
        <5>1. CASE l = LinkOf(c)
          BY <3>1, <4>1, <5>1, HoldersKept
        <5>2. CASE l # LinkOf(c)
          <6>1. c \notin LinkHolders(l)'
            BY <4>1, <4>2, <5>2 DEF LinkHolders, LinkOf
          <6>2. QED
            BY <4>1, <6>1, HoldersKept
        <5>3. QED
          BY <5>1, <5>2
      <4>4. QED
        BY <3>1, <4>3 DEF HeldInv, LinkHeldOnce, HeldLinkIsSent, LinkSent
    <3>4. QED
      BY <3>2, <3>3
  <2>4. CASE CompleteInvitation(c)
    <3>1. OnlyMoves(c) /\ pc'[c] = "idle"
      BY <2>4, DoneMoves DEF CompleteInvitation
    <3>2. ASSUME NEW l \in Links
          PROVE  LinkHolders(l)' \subseteq LinkHolders(l) \ {c}
      BY <3>1, HoldersKept
    <3>3. c \in LinkHolders(LinkOf(c))
      BY <2>4 DEF CompleteInvitation, LinkHolders
    <3>4. ASSUME NEW l \in Links, LinkHolders(l)' # {}
          PROVE  link'[l] = link[l]
      <4>1. l # LinkOf(c)
        BY <3>2, <3>3, <3>4 DEF HeldInv, LinkHeldOnce
      <4>2. QED
        BY <2>4, <4>1 DEF CompleteInvitation, LinksTyped
    <3>5. QED
      BY <3>2, <3>4, FewerHolders
  <2>5. QED
    BY <1>5, <2>1, <2>2, <2>3, <2>4 DEF OfSigner
<1>6. ASSUME NEW r \in Reps, OfRep(r)
      PROVE  HeldInv'
  <2>1. CASE SignAgreement(r)
    BY <1>2, <2>1, DoneMoves DEF SignAgreement, links
  <2>2. ASSUME NEW q \in Quotes, ReadAgreement(r, q)
        PROVE  HeldInv'
    <3>1. OnlyMoves(r) /\ pc'[r] = "submitted" /\ UNCHANGED link
      BY <2>2 DEF ReadAgreement, Start, OnlyMoves, RequestsTyped, links
    <3>2. QED
      BY <1>2, <3>1
  <2>3. QED
    BY <1>6, <2>1, <2>2 DEF OfRep
<1>7. ASSUME NEW a \in Actors, Abort(a)
      PROVE  HeldInv'
  BY <1>2, <1>7, DoneMoves DEF Abort, links
<1>8. QED
  BY <1>1, <1>3, <1>4, <1>5, <1>6, <1>7 DEF Next, Lapse, vars, links, requests

-----------------------------------------------------------------------------
(* Which links are completed.                                              *)
SameCompleted == \A l \in Links : link'[l] = "completed" <=> link[l] = "completed"

LEMMA SameSealed ==
  ASSUME SameCompleted, NEW q \in Quotes
  PROVE  SignedByLink(q)' <=> SignedByLink(q)
BY LinkParts DEF SameCompleted, SignedByLink

LEMMA TruthKept ==
  ASSUME LinkTellsTruth, SameCompleted,
         \A q \in Quotes : SignedByLink(q) /\ contract[q] # "none" => contract'[q] # "none"
  PROVE  LinkTellsTruth'
<1>1. ASSUME NEW k \in Links, link[k] = "completed"
      PROVE  SignedByLink(k[1])
  BY <1>1, LinkParts DEF SignedByLink
<1>2. QED
  BY <1>1, LinkParts DEF LinkTellsTruth, SameCompleted

LEMMA OfStaffLinks ==
  ASSUME DealTypeOK, DealInv, NEW s \in Staff, OfStaff(s)
  PROVE  SameCompleted /\ UNCHANGED <<terms, contract>>
<1>1. ASSUME NEW n \in Numbers, SendLink(s, n)
      PROVE  SameCompleted
  <2>1. \A l \in seen[s] : l \in Links => LinkSent(l)
    <3>1. \A l \in seen[s] : l \in Links => s \in LinkHolders(l)
      BY <1>1 DEF SendLink, LinkHolders
    <3>2. QED
      BY <3>1 DEF DealInv, HeldLinkIsSent
  <2>2. link[<<on[s], n>>] = "none"
    BY <1>1 DEF SendLink, Unused
  <2>3. QED
    BY <1>1, <2>1, <2>2 DEF SendLink, SameCompleted, LinkSent
<1>2. ASSUME UNCHANGED link
      PROVE  SameCompleted
  BY <1>2 DEF SameCompleted
<1>3. QED
  BY <1>1, <1>2
  DEF OfStaff, RequestSignature, EmailQuote, FindOutstanding, LockOutstanding, SendLink, tables, links

(* A signer who signs nothing leaves every completed link as it was.       *)
LEMMA OfSignerLinks ==
  ASSUME DealTypeOK, NEW c \in Signers, OfSigner(c),
         ~(CompleteInvitation(c) /\ Signable(on[c]))
  PROVE  SameCompleted /\ UNCHANGED tables
<1>1. CASE Expire(c)
  BY <1>1 DEF Expire, CompletedCheck, SameCompleted, DealTypeOK, tables
<1>2. ASSUME UNCHANGED link
      PROVE  SameCompleted
  BY <1>2 DEF SameCompleted
<1>3. QED
  BY <1>1, <1>2 DEF OfSigner, Submit, LockLink, CompleteInvitation, links

LEMMA UnsealedUnlinked ==
  ASSUME LinkTellsTruth, NEW q \in Quotes, contract[q] = "none", NEW l \in Links, l[1] = q
  PROVE  link[l] # "completed"
BY DEF LinkTellsTruth

(* Signing by link completes that link and no other. *)
LEMMA SigningLinks ==
  ASSUME DealTypeOK, DealInv, NEW c \in Signers, CompleteInvitation(c), Signable(on[c])
  PROVE  /\ on[c] \in Quotes /\ LinkOf(c) \in Links
         /\ contract[on[c]] = "none" /\ WriteContract(on[c], read[c], FALSE)
         /\ link' = [link EXCEPT ![LinkOf(c)] = "completed"]
         /\ LinkTellsTruth'
<1>1. on[c] \in Quotes /\ LinkOf(c) \in Links
  BY ActorKinds, LinkParts DEF CompleteInvitation, DealTypeOK, LinkOf
<1>2. contract[on[c]] = "none" /\ WriteContract(on[c], read[c], FALSE)
  BY DEF CompleteInvitation, Signable, Unsigned
<1>3. link' = [link EXCEPT ![LinkOf(c)] = "completed"]
  BY DEF CompleteInvitation
<1>4. \A q \in Quotes : contract[q] # "none" => contract'[q] # "none"
  BY <1>1, <1>2 DEF WriteContract, DealTypeOK
<1>5. contract'[on[c]] # "none"
  BY <1>1, <1>2 DEF WriteContract, DealTypeOK
<1>6. \A k \in Links : link'[k] = "completed" => k = LinkOf(c) \/ (link[k] = "completed" /\ k[1] # on[c])
  BY <1>1, <1>2, <1>3, UnsealedUnlinked DEF DealTypeOK, DealInv
<1>7. LinkOf(c)[1] = on[c]
  BY DEF LinkOf
<1>8. LinkTellsTruth'
  BY <1>4, <1>5, <1>6, <1>7, LinkParts DEF LinkTellsTruth, DealInv
<1>9. QED
  BY <1>1, <1>2, <1>3, <1>8

LEMMA OfQuoteLinks ==
  ASSUME DealTypeOK, DealInv, NEW q \in Quotes, OfQuote(q)
  PROVE  /\ SameCompleted
         /\ \A p \in Quotes : SignedByLink(p) /\ contract[p] # "none" => contract'[p] # "none"
<1>1. ASSUME UNCHANGED link
      PROVE  SameCompleted
  BY <1>1 DEF SameCompleted
<1>2. CASE DeleteQuote(q)
  <2>1. \A l \in Links : l[1] = q => link[l] # "completed"
    BY <1>2, LinkParts DEF DeleteQuote, SignedByLink
  <2>2. SameCompleted
    BY <1>2, <2>1 DEF DeleteQuote, SameCompleted
  <2>3. QED
    BY <1>2, <2>2 DEF DeleteQuote, DealTypeOK
<1>3. CASE DeleteContract(q)
  BY <1>1, <1>3 DEF DeleteContract, DealTypeOK, links
<1>4. ASSUME NEW token \in BOOLEAN, CreateContract(q, token) \/ RecordPaperAgreement(q)
      PROVE  UNCHANGED link /\ \A p \in Quotes : contract[p] # "none" => contract'[p] # "none"
  BY <1>4 DEF CreateContract, RecordPaperAgreement, WriteContract, DealTypeOK, links
<1>5. ASSUME NEW to \in ContractStatuses, ChangeContractStatus(q, to)
      PROVE  UNCHANGED link /\ \A p \in Quotes : contract[p] # "none" => contract'[p] # "none"
  BY <1>5 DEF ChangeContractStatus, DealTypeOK, ContractStatuses, links
<1>6. QED
  BY <1>1, <1>2, <1>3, <1>4, <1>5
  DEF OfQuote, CreateQuote, UpdateAgreement, UpdateQuote, ChangeQuoteStatus, UpdateContract,
      SetChecklistItem, RequestCard, FinishSetup, links

LEMMA OfRepLinks ==
  ASSUME DealTypeOK, NEW r \in Reps, OfRep(r)
  PROVE  /\ SameCompleted
         /\ \A p \in Quotes : contract[p] # "none" => contract'[p] # "none"
<1>1. UNCHANGED link
  BY DEF OfRep, ReadAgreement, SignAgreement, links
<1>2. \A p \in Quotes : contract[p] # "none" => contract'[p] # "none"
  BY DEF OfRep, ReadAgreement, SignAgreement, WriteContract, tables, DealTypeOK
<1>3. QED
  BY <1>1, <1>2 DEF SameCompleted

LEMMA LinksKept ==
  ASSUME DealTypeOK, DealInv, [Next]_vars
  PROVE  LinkTellsTruth'
<1> LinkTellsTruth
  BY DEF DealInv
<1>1. ASSUME UNCHANGED <<tables, link>>
      PROVE  LinkTellsTruth'
  BY <1>1 DEF LinkTellsTruth, tables
<1>2. ASSUME NEW c \in Signers, OfSigner(c)
      PROVE  LinkTellsTruth'
  <2>1. CASE CompleteInvitation(c) /\ Signable(on[c])
    BY <2>1, SigningLinks
  <2>2. CASE ~(CompleteInvitation(c) /\ Signable(on[c]))
    BY <1>2, <2>2, OfSignerLinks, TruthKept DEF tables
  <2>3. QED
    BY <2>1, <2>2
<1>3. ASSUME NEW s \in Staff, OfStaff(s)
      PROVE  LinkTellsTruth'
  BY <1>3, OfStaffLinks, TruthKept
<1>4. ASSUME NEW q \in Quotes, OfQuote(q)
      PROVE  LinkTellsTruth'
  BY <1>4, OfQuoteLinks, TruthKept
<1>5. ASSUME NEW r \in Reps, OfRep(r)
      PROVE  LinkTellsTruth'
  BY <1>5, OfRepLinks, TruthKept
<1>6. QED
  BY <1>1, <1>2, <1>3, <1>4, <1>5 DEF Next, Lapse, Abort, vars, links

-----------------------------------------------------------------------------
(* The inductive invariant. *)
LEMMA DealInvKept ==
  ASSUME DealTypeOK, DealInv, [Next]_vars
  PROVE  DealInv'
<1>1. TablesInv'
  BY TablesKept DEF DealInv, TablesInv
<1>2. HeldInv'
  BY HeldKept DEF DealInv, HeldInv
<1>3. QED
  BY <1>1, <1>2, LinksKept DEF DealInv, TablesInv, HeldInv

THEOREM DealInvHolds == Spec => []DealInv
<1>1. Init => DealInv
  <2>1. Init => LinkTellsTruth
    BY DEF Init, LinkTellsTruth
  <2>2. Init => SignedIsAccepted /\ CardTicked /\ QuoteIsWorded
    BY DEF Init, SignedIsAccepted, CardTicked, QuoteIsWorded, QuoteStatuses
  <2>3. Init => \A l : LinkHolders(l) = {}
    BY ActorKinds DEF Init, LinkHolders
  <2>4. QED
    BY <2>1, <2>2, <2>3 DEF DealInv, LinkHeldOnce, HeldLinkIsSent
<1>2. DealTypeOK /\ DealInv /\ [Next]_vars => DealInv'
  BY DealInvKept
<1>3. QED
  BY <1>1, <1>2, TypeCorrect, PTL DEF Spec

(* What a signature leaves behind agrees, however the requests at the door *)
(* and by link, the staff and the deletions interleave: a quote with a     *)
(* contract is accepted, a completed link has its contract and no rival,   *)
(* and the checklist ticks a card exactly when there is one.               *)
THEOREM DealCoheres == Spec => []DealCoherent
<1>1. DealTypeOK /\ DealInv => DealCoherent
  BY DEF DealInv, DealCoherent
<1>2. QED
  BY <1>1, TypeCorrect, DealInvHolds, PTL

-----------------------------------------------------------------------------
(* A card on a contract stays on it, as long as the contract stands: the   *)
(* checklist and the token each wait for the other to go first.            *)
THEOREM CardNeverTakenOff == Spec => CardStays
<1>1. ASSUME DealTypeOK, DealInv, [Next]_vars, CardListed, NEW q \in card
      PROVE  q \in card' \/ contract'[q] = "none"
  <2> q \in Quotes /\ q \in ticked
    BY <1>1 DEF DealTypeOK, DealInv, CardTicked
  <2>1. ASSUME UNCHANGED card
        PROVE  q \in card'
    BY <1>1, <2>1
  <2>2. ASSUME NEW p, NEW boxes, NEW token, WriteContract(p, boxes, token)
        PROVE  q \in card'
    BY <1>1, <2>2 DEF WriteContract
  <2>3. ASSUME NEW p \in Quotes, OfQuote(p)
        PROVE  q \in card' \/ contract'[q] = "none"
    <3>1. ASSUME NEW token \in BOOLEAN, UpdateContract(p, token)
          PROVE  q \in card'
      BY <1>1, <3>1 DEF UpdateContract
    <3>2. CASE DeleteContract(p) \/ DeleteQuote(p)
      BY <1>1, <3>2 DEF DeleteContract, DeleteQuote, DealTypeOK
    <3>3. CASE FinishSetup(p)
      BY <1>1, <3>3 DEF FinishSetup
    <3>4. QED
      BY <2>1, <2>2, <2>3, <3>1, <3>2, <3>3
      DEF OfQuote, CreateQuote, UpdateAgreement, UpdateQuote, ChangeQuoteStatus, CreateContract,
          SetChecklistItem, RecordPaperAgreement, ChangeContractStatus, RequestCard
  <2>4. ASSUME NEW s \in Staff, OfStaff(s)
        PROVE  UNCHANGED card
    BY <2>4 DEF OfStaff, RequestSignature, EmailQuote, FindOutstanding, LockOutstanding, SendLink, tables
  <2>5. ASSUME NEW c \in Signers, OfSigner(c)
        PROVE  q \in card'
    BY <2>1, <2>2, <2>5 DEF OfSigner, Submit, Expire, LockLink, CompleteInvitation, tables
  <2>6. ASSUME NEW r \in Reps, OfRep(r)
        PROVE  q \in card'
    BY <2>1, <2>2, <2>6 DEF OfRep, ReadAgreement, SignAgreement, tables
  <2>7. QED
    BY <1>1, <2>1, <2>3, <2>4, <2>5, <2>6 DEF Next, Lapse, Abort, vars, tables
<1>2. DealTypeOK /\ DealInv /\ [Next]_vars
        => [CardListed => \A q \in card : q \in card' \/ contract'[q] = "none"]_vars
  BY <1>1
<1>3. QED
  BY <1>2, TypeCorrect, DealInvHolds, PTL DEF Spec, CardStays

-----------------------------------------------------------------------------
(* Signing implements the offer, step by step.                             *)
Sealed == {q \in Quotes : SignedByLink(q)}
Stages == [q \in Quotes |-> StageOf(q)]

LEMMA StagesKept ==
  ASSUME \A p \in Quotes : StageOf(p)' = StageOf(p)
  PROVE  Stages' = Stages
BY DEF Stages

LEMMA SealedKept ==
  ASSUME SameCompleted
  PROVE  Sealed' = Sealed
BY SameSealed DEF Sealed

(* What a step does to the offers when it changes no stage but q's.        *)
LEMMA StagesMove ==
  ASSUME NEW q \in Quotes, \A p \in Quotes \ {q} : StageOf(p)' = StageOf(p)
  PROVE  Stages' = [Stages EXCEPT ![q] = StageOf(q)']
BY DEF Stages

LEMMA SameStage ==
  ASSUME NEW p, quote'[p] = quote[p], contract'[p] = contract[p]
  PROVE  StageOf(p)' = StageOf(p)
BY DEF StageOf

LEMMA Stutters ==
  ASSUME SameCompleted, UNCHANGED terms, \A p \in Quotes : StageOf(p)' = StageOf(p)
  PROVE  UNCHANGED O!vars
BY StagesKept, SealedKept DEF O!vars, Stages, Sealed

LEMMA Words ==
  ASSUME SameCompleted, NEW q \in Quotes, NEW t \in Terms, terms' = [terms EXCEPT ![q] = t],
         StageOf(q) = "open", \A p \in Quotes : StageOf(p)' = StageOf(p)
  PROVE  O!Word(q)
<1>1. Stages' = Stages /\ Sealed' = Sealed /\ Stages[q] = "open"
  BY StagesKept, SealedKept DEF Stages
<1>2. QED
  BY <1>1 DEF O!Word, Stages, Sealed

(* A contract written for a quote that was open signs the offer. *)
LEMMA Signs ==
  ASSUME DealTypeOK, DealInv, NEW q \in Quotes, NEW boxes, NEW token, Signable(q), WriteContract(q, boxes, token),
         Sealed' \in {Sealed, Sealed \cup {q}}
  PROVE  O!Sign(q)
<1>1. StageOf(q) = "open" /\ terms[q] # None
  BY NoneIsNobodys
  DEF StageOf, Signable, Unsigned, SIGNABLE_QUOTE_STATUSES, DealInv, QuoteIsWorded, QuoteStatuses
<1>2. StageOf(q)' = "signed"
  BY DEF StageOf, WriteContract, DealTypeOK
<1>3. \A p \in Quotes \ {q} : StageOf(p)' = StageOf(p)
  BY SameStage DEF WriteContract, DealTypeOK
<1>4. Stages' = [Stages EXCEPT ![q] = "signed"] /\ Stages[q] = "open"
  BY <1>1, <1>2, <1>3, StagesMove DEF Stages
<1>5. UNCHANGED terms
  BY DEF WriteContract
<1>6. QED
  BY <1>1, <1>4, <1>5 DEF O!Sign, Stages, Sealed

LEMMA OfQuoteOffers ==
  ASSUME DealTypeOK, DealInv, NEW q \in Quotes, OfQuote(q)
  PROVE  [O!Next]_(O!vars)
<1> SameCompleted
  BY OfQuoteLinks
<1> Sealed' = Sealed
  BY SealedKept
<1> SUFFICES O!Word(q) \/ O!Sign(q) \/ O!Close(q) \/ O!Undo(q) \/ O!Erase(q) \/ UNCHANGED O!vars
  BY DEF O!Next
<1>1. ASSUME NEW t \in Terms, NEW status \in {"draft", "presented"}, CreateQuote(q, t, status)
      PROVE  O!Word(q)
  <2>1. contract[q] = "none"
    BY <1>1 DEF CreateQuote, DealInv, SignedIsAccepted
  <2>2. StageOf(q) = "open" /\ StageOf(q)' = "open"
    BY <1>1, <2>1 DEF CreateQuote, StageOf, DealTypeOK
  <2>3. \A p \in Quotes : p # q => StageOf(p)' = StageOf(p)
    BY <1>1, SameStage DEF CreateQuote, DealTypeOK
  <2>4. QED
    BY <1>1, <2>2, <2>3, Words DEF CreateQuote
<1>2. ASSUME NEW t \in Terms, UpdateAgreement(q, t) \/ UpdateQuote(q, t)
      PROVE  O!Word(q)
  <2>1. terms' = [terms EXCEPT ![q] = t] /\ UNCHANGED <<quote, contract>>
    BY <1>2 DEF UpdateAgreement, UpdateQuote
  <2>2. quote[q] \in {"draft", "presented"}
    BY <1>2 DEF UpdateAgreement, UpdateQuote, Editable, EDITABLE_IN
  <2>3. StageOf(q) = "open"
    BY <2>2 DEF StageOf, DealInv, SignedIsAccepted
  <2>4. QED
    BY <2>1, <2>3, SameStage, Words
<1>3. ASSUME NEW to \in QuoteStatuses, ChangeQuoteStatus(q, to)
      PROVE  O!Close(q) \/ UNCHANGED O!vars
  <2>1. quote[q] \in {"draft", "presented"} /\ to \in {"presented", "accepted", "declined", "expired"}
    BY <1>3 DEF ChangeQuoteStatus, MayMove, TRANSITIONS, QuoteStatuses
  <2>2. contract[q] = "none"
    BY <2>1 DEF DealInv, SignedIsAccepted
  <2>3. StageOf(q) = "open"
    BY <2>1, <2>2 DEF StageOf
  <2>4. \A p \in Quotes : p # q => StageOf(p)' = StageOf(p)
    BY <1>3, SameStage DEF ChangeQuoteStatus, DealTypeOK
  <2>5. CASE to \in {"declined", "expired"}
    <3>1. StageOf(q)' = "closed"
      BY <1>3, <2>2, <2>5 DEF ChangeQuoteStatus, StageOf, DealTypeOK
    <3>2. Stages' = [Stages EXCEPT ![q] = "closed"] /\ Stages[q] = "open"
      BY <2>3, <2>4, <3>1, StagesMove DEF Stages
    <3>3. QED
      BY <1>3, <3>2 DEF ChangeQuoteStatus, O!Close, Stages, Sealed
  <2>6. CASE to \in {"presented", "accepted"}
    <3>1. StageOf(q)' = "open"
      BY <1>3, <2>2, <2>6 DEF ChangeQuoteStatus, StageOf, DealTypeOK
    <3>2. QED
      BY <1>3, <2>3, <2>4, <3>1, Stutters DEF ChangeQuoteStatus
  <2>7. QED
    BY <2>1, <2>5, <2>6
<1>4. ASSUME NEW token \in BOOLEAN, CreateContract(q, token) \/ RecordPaperAgreement(q)
      PROVE  O!Sign(q)
  BY <1>4, Signs DEF CreateContract, RecordPaperAgreement
<1>5. ASSUME NEW to \in ContractStatuses, ChangeContractStatus(q, to)
      PROVE  UNCHANGED O!vars
  <2>1. contract[q] # "none" /\ contract'[q] # "none" /\ UNCHANGED <<quote, terms>>
    BY <1>5 DEF ChangeContractStatus, ContractStatuses, DealTypeOK
  <2>2. StageOf(q)' = StageOf(q)
    BY <2>1 DEF StageOf
  <2>3. \A p \in Quotes : p # q => StageOf(p)' = StageOf(p)
    BY <1>5, SameStage DEF ChangeContractStatus, DealTypeOK
  <2>4. QED
    BY <2>1, <2>2, <2>3, Stutters
<1>6. ASSUME UNCHANGED <<quote, contract, terms>>
      PROVE  UNCHANGED O!vars
  BY <1>6, SameStage, Stutters
<1>7. CASE DeleteContract(q)
  <2>1. StageOf(q) = "signed" /\ StageOf(q)' = "open" /\ UNCHANGED terms
    BY <1>7 DEF DeleteContract, StageOf, DealInv, SignedIsAccepted, DealTypeOK
  <2>2. \A p \in Quotes \ {q} : StageOf(p)' = StageOf(p)
    BY <1>7, SameStage DEF DeleteContract, DealTypeOK
  <2>3. Stages' = [Stages EXCEPT ![q] = "open"] /\ Stages[q] = "signed"
    BY <2>1, <2>2, StagesMove DEF Stages
  <2>4. q \notin Sealed
    BY <1>7 DEF DeleteContract, Sealed
  <2>5. QED
    BY <2>1, <2>3, <2>4 DEF O!Undo, Stages, Sealed
<1>8. CASE DeleteQuote(q)
  <2>1. StageOf(q)' = "closed" /\ terms' = [terms EXCEPT ![q] = None]
    <3>1. quote' = [quote EXCEPT ![q] = "gone"] /\ terms' = [terms EXCEPT ![q] = None]
      BY <1>8 DEF DeleteQuote
    <3>2. quote'[q] = "gone" /\ contract'[q] = "none"
      BY <1>8 DEF DeleteQuote, DealTypeOK
    <3>3. QED
      BY <3>1, <3>2 DEF StageOf
  <2>2. \A p \in Quotes \ {q} : StageOf(p)' = StageOf(p)
    BY <1>8, SameStage DEF DeleteQuote, DealTypeOK
  <2>3. Stages' = [Stages EXCEPT ![q] = "closed"]
    BY <2>1, <2>2, StagesMove
  <2>4. q \notin Sealed
    BY <1>8 DEF DeleteQuote, Sealed
  <2>5. QED
    BY <2>1, <2>3, <2>4 DEF O!Erase, Stages, Sealed
<1>9. QED
  BY <1>1, <1>2, <1>3, <1>4, <1>5, <1>6, <1>7, <1>8
  DEF OfQuote, UpdateContract, SetChecklistItem, RequestCard, FinishSetup

LEMMA OfSignerOffers ==
  ASSUME DealTypeOK, DealInv, NEW c \in Signers, OfSigner(c)
  PROVE  [O!Next]_(O!vars)
<1>1. CASE CompleteInvitation(c) /\ Signable(on[c])
  <2> PICK q \in Quotes : q = on[c]
    BY <1>1, SigningLinks
  <2>1. /\ LinkOf(c) \in Links /\ WriteContract(q, read[c], FALSE)
        /\ link' = [link EXCEPT ![LinkOf(c)] = "completed"]
    BY <1>1, SigningLinks
  <2>2. Sealed' = Sealed \cup {q}
    <3>1. via[c] \in Numbers /\ LinkOf(c) = <<q, via[c]>>
      BY <1>1 DEF CompleteInvitation, DealTypeOK, LinkOf
    <3>2. SignedByLink(q)'
      <4>1. link'[<<q, via[c]>>] = "completed"
        BY <2>1, <3>1 DEF DealTypeOK
      <4>2. QED
        BY <3>1, <4>1 DEF SignedByLink
    <3>3. \A p \in Quotes : p # q => (SignedByLink(p)' <=> SignedByLink(p))
      BY <2>1, <3>1, LinkParts DEF SignedByLink, DealTypeOK
    <3>4. \A p \in Quotes : SignedByLink(p)' <=> (SignedByLink(p) \/ p = q)
      BY <3>2, <3>3
    <3>5. QED
      BY <2>1, <3>4, Zenon DEF Sealed
  <2>3. O!Sign(q)
    BY <1>1, <2>1, <2>2, Signs
  <2>4. QED
    BY <2>3 DEF O!Next
<1>2. CASE ~(CompleteInvitation(c) /\ Signable(on[c]))
  BY <1>2, OfSignerLinks, SameStage, Stutters DEF tables
<1>3. QED
  BY <1>1, <1>2

LEMMA OfRepOffers ==
  ASSUME DealTypeOK, DealInv, NEW r \in Reps, OfRep(r)
  PROVE  [O!Next]_(O!vars)
<1>1. CASE SignAgreement(r) /\ Signable(on[r])
  <2>1. on[r] \in Quotes /\ WriteContract(on[r], read[r], FALSE)
    BY <1>1, ActorKinds DEF SignAgreement, DealTypeOK
  <2>2. Sealed' = Sealed
    BY OfRepLinks, SealedKept
  <2>3. QED
    BY <1>1, <2>1, <2>2, Signs DEF O!Next
<1>2. CASE ~(SignAgreement(r) /\ Signable(on[r]))
  BY <1>2, OfRepLinks, SameStage, Stutters DEF OfRep, ReadAgreement, SignAgreement, tables
<1>3. QED
  BY <1>1, <1>2

LEMMA OfStaffOffers ==
  ASSUME DealTypeOK, DealInv, NEW s \in Staff, OfStaff(s)
  PROVE  UNCHANGED O!vars
<1>1. ASSUME NEW p \in Quotes
      PROVE  StageOf(p)' = StageOf(p)
  <2>1. quote'[p] = quote[p] \/ (quote[p] = "draft" /\ quote'[p] = "presented")
    BY DEF OfStaff, RequestSignature, EmailQuote, FindOutstanding, LockOutstanding, SendLink, tables, DealTypeOK
  <2>2. QED
    BY <2>1, OfStaffLinks DEF StageOf
<1>2. QED
  BY <1>1, OfStaffLinks, Stutters

(* Signing implements the offer: whatever the requests do at once, an      *)
(* offer is signed once, what it says then stands, and a signature by link *)
(* is never undone.                                                        *)
THEOREM OfferImplemented == Spec => ImplementsOffer
<1>1. Init => O!Init
  <2>1. Init => \A q \in Quotes : StageOf(q) = "open" /\ ~SignedByLink(q)
    <3>1. Init => \A q \in Quotes : quote[q] = "none" /\ contract[q] = "none"
      BY DEF Init
    <3>2. Init => \A l \in Links : link[l] = "none"
      BY DEF Init
    <3>3. QED
      BY <3>1, <3>2, LinkParts DEF StageOf, SignedByLink
  <2>2. QED
    BY <2>1 DEF Init, O!Init
<1>2. DealTypeOK /\ DealInv /\ [Next]_vars => [O!Next]_(O!vars)
  <2> SUFFICES ASSUME DealTypeOK, DealInv, [Next]_vars
               PROVE  [O!Next]_(O!vars)
    OBVIOUS
  <2>1. ASSUME UNCHANGED <<tables, link>>
        PROVE  UNCHANGED O!vars
    BY <2>1, SameStage, Stutters DEF tables, SameCompleted
  <2>2. QED
    BY <2>1, OfQuoteOffers, OfStaffOffers, OfSignerOffers, OfRepOffers DEF Next, Lapse, Abort, vars, links
<1>3. QED
  BY <1>1, <1>2, TypeCorrect, DealInvHolds, PTL DEF Spec, ImplementsOffer, O!Spec
=============================================================================
