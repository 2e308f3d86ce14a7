-------------------------------- MODULE Inbox --------------------------------
(***************************************************************************)
(* A conversation on Facebook or Instagram: services/metaMessaging.ts and  *)
(* the tables meta_conversations and meta_messages.                        *)
(*                                                                         *)
(* Meta delivers what the customer wrote, and echoes what the Page sent,   *)
(* at least once and in any order.  Replies are queued rows that a worker  *)
(* claims, sends, and stamps with the id Meta gave them.                   *)
(***************************************************************************)
EXTENDS Naturals, FiniteSets

CONSTANTS
  Written,      \* Messages of the customer: their timestamps
  Replies,      \* meta_messages the staff queues
  Handlers,     \* webhook deliveries being handled
  Workers,      \* copies of the message queue job
  MaxAttempts,
  MaxFaults,    \* Bound: workers that die, and answers of Meta that are lost
  NoMessage

(* Meta's ids: one for each message of the customer, one for each send.    *)
Mids == [of : Written \cup Replies, nth : 0..MaxAttempts + MaxFaults]

VARIABLES
  stored,     \* the customer's messages and the echoes on file, a bag: mid -> copies
  reply,      \* meta_messages the staff wrote: status, attempts, lease, mid
  window,     \* last_inbound_at
  reached,    \* what Meta has sent to the customer
  handler,    \* the message each delivery has not found on file
  worker,     \* the reply each worker is at, and how far
  faults

inboxVars == <<stored, reply, window, reached, handler, worker, faults>>

Unsent == [status |-> "none", attempts |-> 0, leased |-> FALSE, mid |-> NoMessage]
Resting == [step |-> "rest", on |-> NoMessage, mid |-> NoMessage, tidied |-> FALSE]

Init ==
  /\ stored = [m \in Mids |-> 0]
  /\ reply = [r \in Replies |-> Unsent]
  /\ window = 0
  /\ reached = {}
  /\ handler = [h \in Handlers |-> NoMessage]
  /\ worker = [w \in Workers |-> Resting]
  /\ faults = 0

FromCustomer(m) == m.of \in Written
Inbound == {m \in Mids : FromCustomer(m) /\ m.nth = 0}

(* Mutant: the index is not there. *)
OnFileLoosely(m) == FALSE

(* meta_messages_external_id_unique, over both kinds of row. *)
OnFile(m) == stored[m] > 0 \/ \E r \in Replies : reply[r].mid = m

ReplyRows    == [status : {"none", "queued", "sent", "failed"}, attempts : 0..MaxAttempts + MaxFaults,
                 leased : BOOLEAN, mid : Mids \cup {NoMessage}]
WorkerStates == [step : {"rest", "send", "tidy", "stamp", "retry", "refused"}, on : Replies \cup {NoMessage},
                 mid : Mids \cup {NoMessage}, tidied : BOOLEAN]

InboxTypeOK ==
  /\ stored \in [Mids -> Nat]
  /\ reply \in [Replies -> ReplyRows]
  /\ window \in Written \cup {0}
  /\ reached \subseteq Mids
  /\ handler \in [Handlers -> Mids \cup {NoMessage}]
  /\ worker \in [Workers -> WorkerStates]
  /\ faults \in 0..MaxFaults

-----------------------------------------------------------------------------
(* handleIncomingWebhook, storeMessage: looked for, then inserted.         *)
Receive(h, m) ==
  /\ handler[h] = NoMessage
  /\ m \in Inbound \cup reached
  /\ IF stored[m] > 0 \/ \E r \in Replies : reply[r].mid = m
       THEN UNCHANGED handler
       ELSE handler' = [handler EXCEPT ![h] = m]
  /\ UNCHANGED <<stored, reply, window, reached, worker, faults>>

(* Mutant: the window is that of the last delivery. *)
GreatestNot(a, b) == b

Greatest(a, b) == IF a >= b THEN a ELSE b

(* The second of two that race breaks the index, and counts as seen. *)
Store(h) ==
  /\ handler[h] # NoMessage
  /\ LET m == handler[h] IN
     IF OnFile(m) THEN UNCHANGED <<stored, window>>
     ELSE /\ stored' = [stored EXCEPT ![m] = @ + 1]
          /\ window' = IF FromCustomer(m) THEN Greatest(window, m.of) ELSE window
  /\ handler' = [handler EXCEPT ![h] = NoMessage]
  /\ UNCHANGED <<reply, reached, worker, faults>>

(* queueMetaReply: only within the window. *)
QueueReply(r) ==
  /\ reply[r].status = "none"
  /\ window > 0
  /\ reply' = [reply EXCEPT ![r].status = "queued"]
  /\ UNCHANGED <<stored, window, reached, handler, worker, faults>>

-----------------------------------------------------------------------------
(* sendQueuedMeta: claim one, with a lease... *)
Claim(w, r) ==
  /\ worker[w] = Resting
  /\ reply[r].status = "queued" /\ ~reply[r].leased
  /\ reply' = [reply EXCEPT ![r].attempts = @ + 1, ![r].leased = TRUE]
  /\ worker' = [worker EXCEPT ![w] = [Resting EXCEPT !.step = "send", !.on = r]]
  /\ UNCHANGED <<stored, window, reached, handler, faults>>

On(w) == worker[w].on

(* ...send it: Meta takes it, answers or not, or refuses it for now or     *)
(* for good...                                                             *)
SendReply(w) ==
  /\ worker[w].step = "send"
  /\ LET m == [of |-> On(w), nth |-> reply[On(w)].attempts] IN
     \/ /\ worker' = [worker EXCEPT ![w].step = "tidy", ![w].mid = m]
        /\ reached' = reached \cup {m}
        /\ UNCHANGED faults
     \/ /\ faults < MaxFaults
        /\ faults' = faults + 1
        /\ worker' = [worker EXCEPT ![w].step = "retry"]
        /\ reached' = reached \cup {m}
     \/ /\ \E outcome \in {"retry", "refused"} : worker' = [worker EXCEPT ![w].step = outcome]
        /\ UNCHANGED <<reached, faults>>
  /\ UNCHANGED <<stored, reply, window, handler>>

(* ...delete the echo that came before, if it is there... *)
Tidy(w) ==
  /\ worker[w].step = "tidy"
  /\ worker' = [worker EXCEPT ![w].step = "stamp", ![w].tidied = stored[worker[w].mid] > 0]
  /\ UNCHANGED <<stored, reply, window, reached, handler, faults>>

(* ...and write the id on the row.  An echo stored since the deletion      *)
(* breaks the index: the transaction fails, as if the send had.            *)
Beaten(w) == stored[worker[w].mid] > 0 /\ ~worker[w].tidied

Stamp(w) ==
  /\ worker[w].step = "stamp"
  /\ IF Beaten(w)
       THEN worker' = [worker EXCEPT ![w].step = "retry"] /\ UNCHANGED <<stored, reply>>
       ELSE /\ stored' = [stored EXCEPT ![worker[w].mid] = 0]
            /\ reply' = [reply EXCEPT ![On(w)].status = "sent", ![On(w)].mid = worker[w].mid]
            /\ worker' = [worker EXCEPT ![w] = Resting]
  /\ UNCHANGED <<window, reached, handler, faults>>

(* The outcome of a failure: again later, or never. *)
Spent(w) == reply[On(w)].attempts >= MaxAttempts

RecordFailure(w) ==
  /\ worker[w].step \in {"retry", "refused"}
  /\ reply' = [reply EXCEPT ![On(w)].status = IF worker[w].step = "refused" \/ Spent(w) THEN "failed" ELSE "queued"]
  /\ worker' = [worker EXCEPT ![w] = Resting]
  /\ UNCHANGED <<stored, window, reached, handler, faults>>

(* A worker dies; a lease runs out once no worker is at the row (a batch   *)
(* that fits its lease: see MessageQueue for one that does not).           *)
Die(w) ==
  /\ faults < MaxFaults
  /\ worker[w] # Resting
  /\ faults' = faults + 1
  /\ worker' = [worker EXCEPT ![w] = Resting]
  /\ UNCHANGED <<stored, reply, window, reached, handler>>

LeaseEnds(r) ==
  /\ reply[r].leased
  /\ \A w \in Workers : On(w) # r
  /\ reply' = [reply EXCEPT ![r].leased = FALSE]
  /\ UNCHANGED <<stored, window, reached, handler, worker, faults>>

Next ==
  \/ \E h \in Handlers : Store(h) \/ \E m \in Mids : Receive(h, m)
  \/ \E r \in Replies : QueueReply(r) \/ LeaseEnds(r) \/ \E w \in Workers : Claim(w, r)
  \/ \E w \in Workers : SendReply(w) \/ Tidy(w) \/ Stamp(w) \/ RecordFailure(w) \/ Die(w)

Spec == Init /\ [][Next]_inboxVars

-----------------------------------------------------------------------------
(* Redelivered, echoed or out of order, a message is in the thread once,   *)
(* and an old one that comes late never closes the window for a reply      *)
(* (metaMessaging.ts: "Idempotent on Meta's message id", "An older message *)
(* arriving late must not pull the window back").                          *)
Copies(m) == stored[m] + Cardinality({r \in Replies : reply[r].mid = m})
ThreadWhole ==
  /\ \A m \in Mids : Copies(m)' <= 1
  /\ window' >= window

(* Why, as an inductive invariant: a message is on file once or on the row *)
(* it was sent from, never both; ...                                       *)
FiledOnce ==
  /\ \A m \in Mids : stored[m] <= 1
  /\ \A r \in Replies : reply[r].mid = NoMessage \/ (reply[r].mid.of = r /\ stored[reply[r].mid] = 0)

(* ...a worker is alone at its reply, which stays queued and leased; ...   *)
WorkersApart ==
  \A w \in Workers :
    \/ worker[w] = Resting
    \/ /\ On(w) \in Replies /\ reply[On(w)].status = "queued" /\ reply[On(w)].leased
       /\ worker[w].step \in {"tidy", "stamp"} => (worker[w].mid \in Mids /\ worker[w].mid.of = On(w))
       /\ \A v \in Workers \ {w} : On(v) # On(w)

(* ...and a queued reply nobody is at has attempts left, but for those     *)
(* that died with a worker.                                                *)
AttemptsLeft ==
  \A r \in Replies :
    /\ reply[r].attempts <= MaxAttempts + faults
    /\ reply[r].status = "none" => reply[r].attempts = 0
    /\ reply[r].status # "queued" \/ reply[r].attempts < MaxAttempts + faults \/ \E w \in Workers : On(w) = r

ThreadInv == FiledOnce /\ WorkersApart /\ AttemptsLeft

(* A reply that Meta took, from a worker that lives, is not sent again     *)
(* (metaMessaging.ts: "the echo can land before this does ... so the       *)
(* echo's copy goes and this row stays").                                  *)
RepliedOnce ==
  \A r \in Replies : Cardinality({m \in reached : m.of = r}) <= 1 + faults
=============================================================================
