------------------------------- MODULE Process -------------------------------
(***************************************************************************)
(* The life of a process that runs the jobs: jobs/scheduler.ts, and the    *)
(* shutdown of server.ts where the web server runs them.                   *)
(*                                                                         *)
(* A job is started by its timer unless it is still running.  A signal     *)
(* makes the web server take no more connections; once the open ones are   *)
(* done it drains the scheduler, closes what it holds, and exits.  The     *)
(* scheduler on its own drains at once.                                    *)
(***************************************************************************)
EXTENDS Naturals, FiniteSets

CONSTANTS
  Names,        \* ScheduledJob.name
  Connections,  \* connections a client may hold open; none: the scheduler on its own
  Signals,      \* Bound: the signals sent, each handled by its own call of shutdown
  MaxTurns      \* Bound: times a job starts

VARIABLES
  copies,     \* how many runs of each job are under way
  inFlight,   \* the scheduler's map of them
  turns,
  stopping,   \* drain has been called
  open,       \* connections
  listening,
  handler,    \* where each call of shutdown is, and what its drain waits for
  exit        \* the code the process ended with, or "up"

processVars == <<copies, inFlight, turns, stopping, open, listening, handler, exit>>

Web    == Connections # {}
Unsent == [at |-> "unsent", waits |-> {}]

Init ==
  /\ copies = [j \in Names |-> 0]
  /\ inFlight = {}
  /\ turns = [j \in Names |-> 0]
  /\ stopping = FALSE
  /\ open \in SUBSET Connections
  /\ listening = Web
  /\ handler = [g \in Signals |-> Unsent]
  /\ exit = "up"

ProcessTypeOK ==
  /\ copies \in [Names -> Nat]
  /\ inFlight \subseteq Names
  /\ turns \in [Names -> 0..MaxTurns]
  /\ open \subseteq Connections
  /\ handler \in [Signals -> [at : {"unsent", "closing", "draining", "closed"}, waits : SUBSET Names]]
  /\ exit \in {"up", "clean", "forced"}

Up == exit = "up"
CallAt(g, at) == handler[g].at = at

(* Mutant: a job may start while the process is draining. *)
MayStartDraining(j) == j \notin inFlight

(* tick: not while stopping, and not on top of itself. *)
MayStart(j) == ~stopping /\ j \notin inFlight

StartJob(j) ==
  /\ Up /\ turns[j] < MaxTurns
  /\ MayStart(j)
  /\ copies' = [copies EXCEPT ![j] = @ + 1]
  /\ inFlight' = inFlight \cup {j}
  /\ turns' = [turns EXCEPT ![j] = @ + 1]
  /\ UNCHANGED <<stopping, open, listening, handler, exit>>

(* A job returns or throws; either way it is over and no longer waited for. *)
EndJob(j) ==
  /\ Up /\ copies[j] > 0
  /\ copies' = [copies EXCEPT ![j] = @ - 1]
  /\ inFlight' = inFlight \ {j}
  /\ handler' = [g \in Signals |-> [handler[g] EXCEPT !.waits = @ \ {j}]]
  /\ UNCHANGED <<turns, stopping, open, listening, exit>>

Connect(c) ==
  /\ Up /\ listening /\ c \notin open
  /\ open' = open \cup {c}
  /\ UNCHANGED <<copies, inFlight, turns, stopping, listening, handler, exit>>

Disconnect(c) ==
  /\ Up /\ c \in open
  /\ open' = open \ {c}
  /\ UNCHANGED <<copies, inFlight, turns, stopping, listening, handler, exit>>

(* shutdown: server.close, which calls back once no connection is open. *)
Shutdown(g) ==
  /\ Up /\ CallAt(g, "unsent")
  /\ listening' = FALSE
  /\ handler' = [handler EXCEPT ![g].at = "closing"]
  /\ UNCHANGED <<copies, inFlight, turns, stopping, open, exit>>

(* drain: it waits for what is running; called again it returns at once.   *)
Drain(g) ==
  /\ Up /\ CallAt(g, "closing") /\ open = {}
  /\ stopping' = TRUE
  /\ handler' = [handler EXCEPT ![g] = [at |-> "draining", waits |-> IF stopping THEN {} ELSE inFlight]]
  /\ UNCHANGED <<copies, inFlight, turns, open, listening, exit>>

(* The pool is closed under whatever still runs, and the process ends.     *)
Exit(g) ==
  /\ Up /\ CallAt(g, "draining") /\ handler[g].waits = {}
  /\ handler' = [handler EXCEPT ![g].at = "closed"]
  /\ exit' = "clean"
  /\ UNCHANGED <<copies, inFlight, turns, stopping, open, listening>>

(* The web server's ten seconds are over. *)
ForceExit ==
  /\ Up /\ Web
  /\ \E g \in Signals : ~CallAt(g, "unsent")
  /\ exit' = "forced"
  /\ UNCHANGED <<copies, inFlight, turns, stopping, open, listening, handler>>

Next ==
  \/ \E j \in Names : StartJob(j) \/ EndJob(j)
  \/ \E c \in Connections : Connect(c) \/ Disconnect(c)
  \/ \E g \in Signals : Shutdown(g) \/ Drain(g) \/ Exit(g)
  \/ ForceExit

Spec == Init /\ [][Next]_processVars

-----------------------------------------------------------------------------
(* A process that was asked to stop once and ends of its own accord leaves *)
(* no job half done, and no job ever runs twice at once in it              *)
(* (scheduler.ts: "so a deploy cannot cut a billing run in half").         *)
AskedOnce == Cardinality({g \in Signals : ~CallAt(g, "unsent")}) <= 1

CleanExit ==
  /\ \A j \in Names : copies[j] <= 1
  /\ exit = "clean" /\ AskedOnce => \A j \in Names : copies[j] = 0

(* Why, as an inductive invariant: a run is under way just when the        *)
(* scheduler's map has its job; drain has been called just when some call  *)
(* of shutdown is past it; and the only call there is waits for everything *)
(* still running.                                                          *)
Past(g) == handler[g].at \in {"draining", "closed"}

DrainInv ==
  /\ \A j \in Names : copies[j] = IF j \in inFlight THEN 1 ELSE 0
  /\ stopping <=> \E g \in Signals : Past(g)
  /\ \A g \in Signals : Past(g) /\ (\A h \in Signals \ {g} : CallAt(h, "unsent")) => handler[g].waits = inFlight
  /\ exit = "clean" => \E g \in Signals : Past(g) /\ handler[g].waits = {}

(* Asked twice, it does not: the second drain waits for nothing            *)
(* (scheduler.ts: "Safe to call twice").                                   *)
DrainsTwice == exit = "clean" => \A j \in Names : copies[j] = 0
=============================================================================
