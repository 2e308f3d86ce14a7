------------------------------- MODULE Weather -------------------------------
(***************************************************************************)
(* The weather bot's evening: services/weather.ts checkBranch, run every   *)
(* hour by the scheduler and whenever the office asks.                     *)
(*                                                                         *)
(* A check reads which regions were alerted, asks the forecast of the      *)
(* others, and in one transaction records what it was told and queues the  *)
(* notices.  Two checks may overlap anywhere before that transaction.      *)
(***************************************************************************)
EXTENDS Naturals, FiniteSets

CONSTANTS
  Regions,
  Customers,
  LivesIn,      \* [Customers -> SUBSET Regions]
  Checks,       \* checks being run at once
  MaxChecks     \* Bound: checks started in the evening

VARIABLES
  recorded,   \* weather_alert_runs: "none", or triggered or not, by region
  check,      \* what each check has read, and what the forecast told it
  notices,    \* snowfall notices queued, by customer
  crossed,    \* two checks have overlapped
  started

weatherVars == <<recorded, check, notices, crossed, started>>

Idle == [step |-> "idle"]

Init ==
  /\ recorded = [r \in Regions |-> "none"]
  /\ check = [k \in Checks |-> Idle]
  /\ notices = [c \in Customers |-> 0]
  /\ crossed = FALSE
  /\ started = 0

Underway == {k \in Checks : check[k] # Idle}
Alerted  == {r \in Regions : recorded[r] = "triggered"}

WeatherTypeOK ==
  /\ recorded \in [Regions -> {"none", "quiet", "triggered"}]
  /\ check \in [Checks -> {Idle} \cup [step : {"asking", "deciding"}, alerted : SUBSET Regions,
                                      seen : SUBSET Regions, snow : SUBSET Regions]]
  /\ \A k \in Underway : check[k].snow \subseteq check[k].seen
  /\ crossed \in BOOLEAN
  /\ notices \in [Customers -> Nat]
  /\ started \in 0..MaxChecks

-----------------------------------------------------------------------------
StartCheck(k) ==
  /\ check[k] = Idle
  /\ started < MaxChecks
  /\ started' = started + 1
  /\ crossed' = (crossed \/ Underway # {})
  /\ check' = [check EXCEPT ![k] = [step |-> "asking", alerted |-> Alerted, seen |-> {}, snow |-> {}]]
  /\ UNCHANGED <<recorded, notices>>

(* The forecast of every region not alerted: snow, none, or no answer.     *)
Forecast(k) ==
  /\ check[k].step = "asking"
  /\ \E seen \in SUBSET (Regions \ check[k].alerted) : \E snow \in SUBSET seen :
       check' = [check EXCEPT ![k] = [@ EXCEPT !.step = "deciding", !.seen = seen, !.snow = snow]]
  /\ UNCHANGED <<recorded, notices, crossed, started>>

(* Mutant: the upsert is not conditional. *)
FreshOrNot(r) == TRUE

(* A region alerted meanwhile keeps its row, and is not this check's.      *)
Fresh(r) == recorded[r] # "triggered"

(* Mutant: the other properties of a customer are not looked at. *)
ToTellAnyway(new, before) == {c \in Customers : LivesIn[c] \cap new # {}}

(* Who is told: a customer of a region just alerted, with none in a region *)
(* that was alerted when the check began.                                  *)
ToTell(new, before) == {c \in Customers : LivesIn[c] \cap new # {} /\ LivesIn[c] \cap before = {}}

Record(k) ==
  /\ check[k].step = "deciding"
  /\ LET new == {r \in check[k].snow : Fresh(r)} IN
     /\ recorded' = [r \in Regions |-> IF r \notin check[k].seen \/ ~Fresh(r) THEN recorded[r]
                                      ELSE IF r \in new THEN "triggered" ELSE "quiet"]
     /\ notices' = [c \in Customers |-> notices[c] + IF c \in ToTell(new, check[k].alerted) THEN 1 ELSE 0]
  /\ check' = [check EXCEPT ![k] = Idle]
  /\ UNCHANGED <<crossed, started>>

(* A check looks only, or dies: nothing was written. *)
GiveUp(k) ==
  /\ check[k] # Idle
  /\ check' = [check EXCEPT ![k] = Idle]
  /\ UNCHANGED <<recorded, notices, crossed, started>>

Next == \E k \in Checks : StartCheck(k) \/ Forecast(k) \/ Record(k) \/ GiveUp(k)

Spec == Init /\ [][Next]_weatherVars

-----------------------------------------------------------------------------
(* However checks overlap, a customer of an alerted region is told, once   *)
(* if their properties are in one region; one with properties in two is    *)
(* told again only if two checks did overlap (weather.ts: "stops two       *)
(* overlapping runs from both sending").                                   *)
ToldOnce ==
  \A c \in Customers :
    /\ LivesIn[c] \cap Alerted # {} <=> notices[c] > 0
    /\ notices[c] <= Cardinality(LivesIn[c] \cap Alerted)
    /\ notices[c] <= 1 \/ crossed

(* Why, as an inductive invariant: what a check has read as alerted still  *)
(* is, and is all there is unless two checks did overlap.                  *)
CheckInv ==
  /\ \A k \in Underway : check[k].alerted \subseteq Alerted
  /\ ~crossed => \A k \in Underway : check[k].alerted = Alerted /\ Underway = {k}
  /\ ToldOnce
=============================================================================
