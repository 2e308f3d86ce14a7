-------------------------------- MODULE MCDay --------------------------------
(***************************************************************************)
(* A small instance of Day for TLC.  The queue's batch outlasts its lease; *)
(* two corporate accounts may delete each other; one account of every role *)
(* is at one tab, with two records; one visit has two operators and the    *)
(* office; two visits were to one customer, whose rating link is tapped    *)
(* twice; one customer has a property in each of two regions, and two      *)
(* weather checks run at once; a lead enrols twice; two messages of a      *)
(* customer come twice and out of order, with one reply; and two jobs run  *)
(* with a connection held open and two signals.                            *)
(***************************************************************************)
EXTENDS Day, TLC

CONSTANTS boss, chief, crew, recruit, here, there

AccessRole == [a \in Accounts |-> CASE a = boss -> "corporate" [] a = crew -> "operator" [] OTHER -> "none"]
AccessHome == [a \in Accounts |-> IF a = crew THEN here ELSE Nowhere]
RolesAt    == "boss" :> "corporate" @@ "rep" :> "sales" @@ "crew" :> "operator" @@ "branch" :> "branch"
PhotoKind  == "p1" :> "before" @@ "p2" :> "after"
Customer   == [j \in {"j1", "j2"} |-> "ann"]
Lives      == "ann" :> {"n1", "n2"} @@ "bob" :> {"n1"}
=============================================================================
