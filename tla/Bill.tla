-------------------------------- MODULE Bill --------------------------------
(***************************************************************************)
(* What a bill promises, whoever takes the money and however often the     *)
(* processor repeats itself: the payments that count towards it, and a     *)
(* state that always agrees with them.  A payment given back never counts  *)
(* again, unless what the processor says of it came to be disputed: such a *)
(* payment may count again.  Module Payments implements this.              *)
(***************************************************************************)
CONSTANTS
  Payments,      \* everything that may be paid towards the bill
  Covered(_)     \* whether a set of payments covers the bill

VARIABLES
  state,         \* "unsent", "owing", "settled" or "void"
  paidBy,        \* the payments that count
  returned,      \* the payments that were given back
  disputed       \* the ones whose return may be taken back

vars == <<state, paidBy, returned, disputed>>

Init ==
  /\ state = "unsent"
  /\ paidBy = {}
  /\ returned = {}
  /\ disputed = {}

(* The state a bill is in once S counts towards it. *)
StateWith(S) ==
  IF state = "void" THEN "void" ELSE IF Covered(S) THEN "settled" ELSE "owing"

Send ==
  /\ state = "unsent"
  /\ state' = "owing"
  /\ UNCHANGED <<paidBy, returned, disputed>>

Book(p) ==
  /\ state # "unsent"
  /\ p \notin paidBy \cup (returned \ disputed)
  /\ paidBy' = paidBy \cup {p}
  /\ returned' = returned \ {p}
  /\ state' = StateWith(paidBy')
  /\ UNCHANGED disputed

GiveBack(p) ==
  /\ p \in paidBy
  /\ paidBy' = paidBy \ {p}
  /\ returned' = returned \cup {p}
  /\ state' = StateWith(paidBy')
  /\ UNCHANGED disputed

(* The processor's messages about a payment cross; the bill stays. *)
Dispute(p) ==
  /\ disputed' = disputed \cup {p}
  /\ UNCHANGED <<state, paidBy, returned>>

Void ==
  /\ state \in {"unsent", "owing"}
  /\ paidBy = {}
  /\ state' = "void"
  /\ UNCHANGED <<paidBy, returned, disputed>>

Next == Send \/ Void \/ \E p \in Payments : Book(p) \/ GiveBack(p) \/ Dispute(p)

Spec == Init /\ [][Next]_vars
=============================================================================
