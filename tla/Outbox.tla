------------------------------- MODULE Outbox -------------------------------
(***************************************************************************)
(* What the message queue promises whoever puts a message into it, with    *)
(* workers, batches and leases left out: a message waits, is handed to the *)
(* provider only while it waits, and is settled once and for all as sent,  *)
(* if the provider took it, or as failed.                                  *)
(*                                                                         *)
(* Two kinds of messages are promised less.  One taken back as it waits    *)
(* may still go out, and be put back to wait.  One that two passes contest *)
(* may be delivered even after it is settled, and one that failed may go   *)
(* back or be sent after all.  Of both it remains that one marked sent was *)
(* taken by the provider, and stays so.                                    *)
(***************************************************************************)
EXTENDS Naturals

CONSTANT Messages

VARIABLES
  stage,      \* where each message is
  deliveries, \* how often the provider has taken it
  recalled,   \* the messages taken back
  contested   \* the messages whose delivery has come apart

vars == <<stage, deliveries, recalled, contested>>

Init ==
  /\ stage      = [m \in Messages |-> "none"]
  /\ deliveries = [m \in Messages |-> 0]
  /\ recalled   = {}
  /\ contested  = {}

Waiting(m) == stage[m] = "queued" \/ (m \in recalled \cup contested /\ stage[m] = "failed")

Becomes(m, to) ==
  /\ stage' = [stage EXCEPT ![m] = to]
  /\ UNCHANGED <<deliveries, recalled, contested>>

Accept(m) == stage[m] = "none" /\ Becomes(m, "queued")

Deliver(m) ==
  /\ Waiting(m) \/ (m \in contested /\ stage[m] = "sent")
  /\ deliveries' = [deliveries EXCEPT ![m] = @ + 1]
  /\ UNCHANGED <<stage, recalled, contested>>

Succeed(m) == Waiting(m) /\ deliveries[m] > 0 /\ Becomes(m, "sent")

GiveUp(m) == Waiting(m) /\ Becomes(m, "failed")

PutBack(m) == Waiting(m) /\ Becomes(m, "queued")

(* Messages that still wait come apart: only those, and only once. *)
Contest(ms) ==
  /\ \A m \in ms : Waiting(m)
  /\ contested' = contested \cup ms
  /\ UNCHANGED <<stage, deliveries, recalled>>

Recall(ms) ==
  /\ \A m \in ms : stage[m] = "queued"
  /\ stage'    = [m \in Messages |-> IF m \in ms THEN "failed" ELSE stage[m]]
  /\ recalled' = recalled \cup ms
  /\ UNCHANGED <<deliveries, contested>>

Next ==
  \/ \E m \in Messages : Accept(m) \/ Deliver(m) \/ Succeed(m) \/ GiveUp(m) \/ PutBack(m)
  \/ \E ms \in SUBSET Messages : Recall(ms) \/ Contest(ms)

Spec == Init /\ [][Next]_vars
=============================================================================
