-------------------------------- MODULE Offer --------------------------------
(***************************************************************************)
(* What signing promises: an offer may change until it is signed or        *)
(* closed, is signed once, and what it says then stands.  A closed offer   *)
(* stays closed; a signature is undone only by deleting the contract, and  *)
(* not at all once it is sealed, that is, came by a link.                  *)
(***************************************************************************)
CONSTANTS Offers, Wordings, NoWording

VARIABLES stage, says, sealed

vars == <<stage, says, sealed>>

Init ==
  /\ stage  = [o \in Offers |-> "open"]
  /\ says   = [o \in Offers |-> NoWording]
  /\ sealed = {}

Word(o) ==
  /\ stage[o] = "open"
  /\ \E w \in Wordings : says' = [says EXCEPT ![o] = w]
  /\ UNCHANGED <<stage, sealed>>

Sign(o) ==
  /\ stage[o] = "open"
  /\ says[o] # NoWording
  /\ stage'  = [stage EXCEPT ![o] = "signed"]
  /\ sealed' \in {sealed, sealed \cup {o}}
  /\ UNCHANGED says

Close(o) ==
  /\ stage[o] = "open"
  /\ stage' = [stage EXCEPT ![o] = "closed"]
  /\ UNCHANGED <<says, sealed>>

Undo(o) ==
  /\ stage[o] = "signed"
  /\ o \notin sealed
  /\ stage' = [stage EXCEPT ![o] = "open"]
  /\ UNCHANGED <<says, sealed>>

Erase(o) ==
  /\ o \notin sealed
  /\ stage' = [stage EXCEPT ![o] = "closed"]
  /\ says'  = [says EXCEPT ![o] = NoWording]
  /\ UNCHANGED sealed

Next == \E o \in Offers : Word(o) \/ Sign(o) \/ Close(o) \/ Undo(o) \/ Erase(o)

Spec == Init /\ [][Next]_vars
=============================================================================
