---------------------------- MODULE MCCompliance ----------------------------
(* A small instance of Compliance for TLC: one operator, with either two   *)
(* requests at work, or one request and the reminders, with deaths half    *)
(* way.  Which of the two it is, is chosen at the start.                   *)
EXTENDS Compliance

CONSTANT Lone  \* the request that is at work beside the reminders

VARIABLE scope

ASSUME LoneAssumption == Lone \in Requests

(* Every document is of a required kind, none comes near its date without  *)
(* passing it, and nothing dies: no reminder is ever due.                  *)
TwoRequests ==
  /\ faults = 0
  /\ \A d \in Documents : nearness[d] \in {0, Far} /\ meets[d] \in Required \cup {"none"}

WithReminders == \A q \in Requests : pc[q] # "idle" => q = Lone

InScope == IF scope = "requests" THEN TwoRequests ELSE WithReminders

MCInit == Init /\ scope \in {"requests", "reminders"}
MCNext == Next /\ UNCHANGED scope /\ InScope'
MCSpec == MCInit /\ [][MCNext]_<<vars, scope>> /\ \A s \in Sweeps : WF_vars(SweepStep(s))
=============================================================================
