-------------------------------- MODULE Drip ---------------------------------
(***************************************************************************)
(* The cold email sequence: services/coldEmail.ts over email_leads and the *)
(* leads' rows of message_log, whose worker is MessageQueue.               *)
(*                                                                         *)
(* Every operation is a transaction that locks the lead, or passes over a  *)
(* locked one (the drip), then writes it and its messages and commits.     *)
(***************************************************************************)
EXTENDS Naturals, Sequences, FiniteSets

CONSTANTS
  Leads,        \* e-mail addresses of a branch
  Steps,        \* Len(DRIP_SEQUENCE)
  Requests,     \* opt-ins, unsubscriptions, the office's stops, passes of the drip
  MaxOptIns     \* Bound: times a lead enrols

VARIABLES
  lead,      \* email_leads: status, steps sent, times enrolled; what falls due is any time
  mail,      \* what is queued for a lead: <<enrolment, step>>
  inHand,    \* what the queue's worker has claimed of it
  sent,      \* what has been sent
  bought,    \* leads who are active customers
  held       \* what each transaction has locked, and will do to it

dripVars == <<lead, mail, inHand, sent, bought, held>>

Nobody == [status |-> "none", steps |-> 0, times |-> 0]
Idle   == [op |-> "idle", about |-> {}, saw |-> <<>>]

Init ==
  /\ lead = [l \in Leads |-> Nobody]
  /\ mail = [l \in Leads |-> {}]
  /\ inHand = [l \in Leads |-> {}]
  /\ sent = [l \in Leads |-> {}]
  /\ bought = {}
  /\ held = [r \in Requests |-> Idle]

Letters == (1..MaxOptIns) \X (1..Steps)

LeadRows   == [status : {"none", "active", "completed", "converted", "unsubscribed"},
               steps : 0..Steps, times : 0..MaxOptIns]
Operations == {"enrol", "unsubscribed", "converted", "drip"}
Locks      == [op : Operations, about : SUBSET Leads, saw : UNION {[ls -> LeadRows] : ls \in SUBSET Leads}]

DripTypeOK ==
  /\ lead \in [Leads -> LeadRows]
  /\ mail \in [Leads -> SUBSET Letters] /\ inHand \in [Leads -> SUBSET Letters] /\ sent \in [Leads -> SUBSET Letters]
  /\ bought \subseteq Leads
  /\ held \in [Requests -> {Idle} \cup Locks]

(* Mutant: FOR UPDATE is left out. *)
UnlockedOrNot(l) == TRUE

(* The rows are locked FOR UPDATE. *)
Unlocked(l) == \A r \in Requests : l \notin held[r].about

Lock(r, op, about) ==
  /\ held[r] = Idle
  /\ held' = [held EXCEPT ![r] = [op |-> op, about |-> about, saw |-> [l \in about |-> lead[l]]]]
  /\ UNCHANGED <<lead, mail, inHand, sent, bought>>

-----------------------------------------------------------------------------
(* optIn: of somebody new, or who had unsubscribed, a fresh start; of      *)
(* anybody else only the contact details, so nothing.  Of two first        *)
(* opt-ins at once the second fails on the unique index (Abort); the       *)
(* address is held as if its row were there already.                       *)
Enrols(l) == lead[l].status \in {"none", "unsubscribed"} /\ lead[l].times < MaxOptIns
OptIn(r, l) == Unlocked(l) /\ Enrols(l) /\ Lock(r, "enrol", {l})

(* unsubscribe; stopEmailLead, which leaves one who unsubscribed alone.    *)
Unsubscribe(r, l) == Unlocked(l) /\ lead[l].status \notin {"none", "unsubscribed"} /\ Lock(r, "unsubscribed", {l})
StopLead(r, l)    == Unlocked(l) /\ lead[l].status \notin {"none", "unsubscribed"} /\ Lock(r, "converted", {l})

(* runColdEmailDrip: of the active leads that nobody holds, those due.     *)
ClaimDue(r) ==
  \E due \in SUBSET {l \in Leads : lead[l].status = "active" /\ Unlocked(l)} :
    due # {} /\ Lock(r, "drip", due)

(* sendNextStep: queue the next step, and move on or finish. *)
Moved(row) ==
  IF row.steps + 1 < Steps THEN [row EXCEPT !.steps = @ + 1]
                           ELSE [row EXCEPT !.steps = Steps, !.status = "completed"]

(* What a transaction makes of the row it read under the lock...           *)
Becomes(op, row, l) ==
  CASE op = "enrol"                   -> Moved([status |-> "active", steps |-> 0, times |-> row.times + 1])
    [] op = "drip" /\ l \notin bought -> Moved(row)
    [] op = "drip" /\ l \in bought    -> [row EXCEPT !.status = "converted"]
    [] OTHER                          -> [row EXCEPT !.status = op]

(* Mutant: stop() leaves what is queued. *)
MailedOn(op, row, l) == IF row.status \in {"converted", "unsubscribed"} THEN mail[l] ELSE mail[l] \cup {<<row.times, row.steps>>}

(* ...and of the lead's queued mail: stop() withdraws it, whether or not   *)
(* the worker has it in hand.                                              *)
Mailed(op, row, l) ==
  IF op \in {"unsubscribed", "converted"} THEN {}
  ELSE IF row.status = "converted"        THEN mail[l]
  ELSE mail[l] \cup {<<row.times, row.steps>>}

Commit(r) ==
  /\ held[r] # Idle
  /\ LET op == held[r].op
         row(l) == Becomes(op, held[r].saw[l], l)
     IN /\ lead' = [l \in Leads |-> IF l \in held[r].about THEN row(l) ELSE lead[l]]
        /\ mail' = [l \in Leads |-> IF l \in held[r].about THEN Mailed(op, row(l), l) ELSE mail[l]]
  /\ held' = [held EXCEPT ![r] = Idle]
  /\ UNCHANGED <<inHand, sent, bought>>

Abort(r) ==
  /\ held[r] # Idle
  /\ held' = [held EXCEPT ![r] = Idle]
  /\ UNCHANGED <<lead, mail, inHand, sent, bought>>

-----------------------------------------------------------------------------
(* The queue's worker takes a message, and sends it or puts it back.       *)
TakeMail(l) ==
  /\ \E x \in mail[l] \ inHand[l] : inHand' = [inHand EXCEPT ![l] = @ \cup {x}]
  /\ UNCHANGED <<lead, mail, sent, bought, held>>

SendMail(l) ==
  /\ \E x \in inHand[l] :
       /\ inHand' = [inHand EXCEPT ![l] = @ \ {x}]
       /\ \/ mail' = [mail EXCEPT ![l] = @ \ {x}] /\ sent' = [sent EXCEPT ![l] = @ \cup {x}]
          \/ mail' = [mail EXCEPT ![l] = @ \cup {x}] /\ UNCHANGED sent
  /\ UNCHANGED <<lead, bought, held>>

(* A lead becomes an active customer, by a contract. *)
Buy(l) ==
  /\ l \notin bought
  /\ bought' = bought \cup {l}
  /\ UNCHANGED <<lead, mail, inHand, sent, held>>

Next ==
  \/ \E r \in Requests :
       \/ \E l \in Leads : OptIn(r, l) \/ Unsubscribe(r, l) \/ StopLead(r, l)
       \/ ClaimDue(r) \/ Commit(r) \/ Abort(r)
  \/ \E l \in Leads : TakeMail(l) \/ SendMail(l) \/ Buy(l)

Spec == Init /\ [][Next]_dripVars

-----------------------------------------------------------------------------
(* A lead who unsubscribed or was stopped is written to again only with    *)
(* what was already in the worker's hands, until they opt in anew; and the *)
(* steps of an enrolment are queued in order, each once, whoever changes   *)
(* the lead at the same time (coldEmail.ts: "two copies of the job never   *)
(* send the same step twice").                                             *)
Queues(l) == mail'[l] \ (mail[l] \cup inHand[l])

SequenceKept ==
  \A l \in Leads :
    /\ Queues(l) # {} => Queues(l) = {<<lead'[l].times, lead'[l].steps>>}
    /\ Queues(l) # {} => lead'[l].times > lead[l].times \/ (lead[l].status = "active" /\ lead'[l].steps = lead[l].steps + 1)
    /\ lead[l].status \notin {"unsubscribed", "converted"} /\ lead'[l].status \in {"unsubscribed", "converted"} /\ l \notin bought => mail'[l] = {}

(* Why, as an inductive invariant: a lead that a transaction holds is held *)
(* by it alone, and is what the transaction read under the lock; and a     *)
(* lead in the sequence has steps left.                                    *)
HeldInv ==
  /\ \A r \in Requests : \A l \in held[r].about :
       /\ held[r].saw[l] = lead[l]
       /\ held[r].op = "enrol" => Enrols(l)
       /\ held[r].op = "drip" => lead[l].status = "active"
       /\ \A s \in Requests \ {r} : l \notin held[s].about
  /\ \A l \in Leads : lead[l].status = "active" => lead[l].steps < Steps /\ lead[l].times > 0
=============================================================================
