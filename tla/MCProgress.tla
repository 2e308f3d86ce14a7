----------------------------- MODULE MCProgress -----------------------------
(***************************************************************************)
(* What must happen in the end, of two components, each on its own         *)
(* instance.  A behaviour is about one of them, its subject; the other's   *)
(* variables keep their initial values.                                    *)
(***************************************************************************)
EXTENDS Billing

CONSTANT ann

VARIABLES
  subject,   \* "billing" or "signing"
  dealQuote, dealTerms, dealContract, dealSigned, dealCard, dealTicked,
  dealAsked, dealLink, dealLapsed, dealPc, dealOn, dealVia, dealRead,
  dealSeen, dealEmailing

dealVars == <<dealQuote, dealTerms, dealContract, dealSigned, dealCard, dealTicked,
    dealAsked, dealLink, dealLapsed, dealPc, dealOn, dealVia, dealRead,
    dealSeen, dealEmailing>>
progressVars == <<subject, vars, dealVars>>

(* Two contracts of Ann, whom nobody referred. *)
Owner    == [c \in Contracts |-> ann]
Referrer == [c \in Contracts |-> Nobody]

(* Two members of staff, a customer and a rep at one quote, and the aborts *)
(* that end a deadlock.                                                    *)
D == INSTANCE Deal WITH
  Quotes <- {"q1"}, Terms <- {"byCard"}, CardTerms <- {"byCard"},
  PaperTerms <- {}, Numbers <- {"n1", "n2"}, Signers <- {"c1"},
  Reps <- {"r1"}, Staff <- {"s1", "s2"}, CardListed <- TRUE,
  quote <- dealQuote, terms <- dealTerms, contract <- dealContract,
  signed <- dealSigned, card <- dealCard, ticked <- dealTicked,
  asked <- dealAsked, link <- dealLink, lapsed <- dealLapsed, pc <- dealPc,
  on <- dealOn, via <- dealVia, read <- dealRead, seen <- dealSeen,
  emailing <- dealEmailing

ProgressInit ==
  /\ subject \in {"billing", "signing"}
  /\ Init
  /\ D!Init

ProgressNext ==
  \/ subject = "billing" /\ Next /\ UNCHANGED <<subject, dealVars>>
  \/ subject = "signing" /\ D!Next /\ UNCHANGED <<subject, vars>>

(***************************************************************************)
(* The fairness each module states, of the subject only.                   *)
(***************************************************************************)
Is(s) == subject = s

BillingFairness ==
  \A r \in Runs : WF_vars(Is("billing") /\ GoesOn(r)) /\ SF_vars(Is("billing") /\ ReadCredit(r))

SigningFairness ==
  \A a \in D!Actors : SF_dealVars(Is("signing") /\ D!Proceed(a))

(* The database ends a deadlock of either. *)
DatabaseFairness ==
  WF_progressVars(\/ Is("billing") /\ DeadlockEnds /\ UNCHANGED <<subject, dealVars>>
                  \/ Is("signing") /\ (\E a \in D!Actors : D!Abort(a)) /\ UNCHANGED <<subject, vars>>)

ProgressSpec == ProgressInit /\ [][ProgressNext]_progressVars /\ BillingFairness /\ SigningFairness /\ DatabaseFairness

-----------------------------------------------------------------------------
(* Every period of a live contract is billed in the end, by a later run if *)
(* this one dies or is aborted (jobs/billing.ts).                          *)
PeriodsBilled == Is("billing") => EveryPeriodBilled

(* A request that waits for another's rows gets them, or is aborted        *)
(* (services/signing.ts).                                                  *)
RequestsEnd == Is("signing") => D!EveryRequestEnds
=============================================================================
