---------------------------- MODULE MessageQueue ----------------------------
(***************************************************************************)
(* The outbound message queue: the table message_log and the workers of    *)
(* jobs/messageQueue.ts that drain it (services/messages.ts).              *)
(*                                                                         *)
(* A worker's pass locks and reads a batch (Select), stamps it and commits *)
(* (Commit), then hands the messages to the provider one after another     *)
(* (Send) and writes what became of each (RecordSent, RecordFailure).      *)
(* Several workers run at once, any of them may die at any point, and the  *)
(* cold email sequence may withdraw what is still queued.                  *)
(*                                                                         *)
(* One tick of the clock is the longest one message can keep a worker: the *)
(* provider's timeout (15 s for SMS and mail).  In these units the code's  *)
(* five minute lease is 20 ticks and its batch is 50 messages.             *)
(***************************************************************************)
EXTENDS Naturals, Sequences, FiniteSets

CONSTANTS
  Workers,       \* processes that run the queue (the scheduler, cron, a shell)
  MaxMessages,   \* how many rows message_log ever holds in this instance
  ColdEmails,    \* the messages that belong to the one cold email lead
  BatchLimit,    \* BATCH_SIZE
  LeaseTicks,    \* LEASE_MS, in ticks
  MaxAttempts,   \* MESSAGE_MAX_ATTEMPTS
  SendLater,     \* the delays a caller may ask for with send_after, in ticks
  Answers,       \* what a provider may do, a subset of ProviderAnswers
  MaxFaults      \* how many crashes and lost connections are allowed for

Messages == 1..MaxMessages     \* in the order of created_at

(***************************************************************************)
(* "lost" is a message the provider took although the worker saw an error: *)
(* the connection timed out after the message had gone over it.            *)
(***************************************************************************)
ProviderAnswers == {"accepted", "temporary", "permanent", "lost"}

ASSUME ConstantsAssumption ==
  /\ MaxMessages \in Nat
  /\ ColdEmails \subseteq Messages
  /\ BatchLimit \in Nat \ {0}
  /\ LeaseTicks \in Nat \ {0}
  /\ MaxAttempts \in Nat \ {0}
  /\ SendLater \subseteq Nat
  /\ Answers \subseteq ProviderAnswers
  /\ MaxFaults \in Nat

(***************************************************************************)
(* A batch that takes no longer than its lease.  The code does not ensure  *)
(* it (50 messages of a tick each against 20 ticks): no property asks for  *)
(* it, and the rows a lease has run out on are kept in overran instead.    *)
(***************************************************************************)
BatchFitsLease == BatchLimit < LeaseTicks

VARIABLES
  status,    \* message_log.status; "none" before the row exists
  sentAt,    \* whether message_log.sent_at is set
  attempts,  \* message_log.attempts
  lease,     \* ticks until last_attempt_at is LEASE_MS old; 0 when null or older
  hold,      \* ticks until send_after
  withdrawn, \* the rows the cold email sequence has withdrawn
  pc,        \* where each worker is in sendQueued
  batch,     \* the rows it still has to deal with, the current one first
  verdict,   \* how the send of the current one ended
  elapsed,   \* ticks the current message has taken
  accepted,  \* how often the provider has taken each message
  refused,   \* the messages the provider has refused for good
  overran,   \* the rows whose lease has run out while a pass held them
  faults     \* crashes and database errors so far, the constraint's refusals too

rows     == <<status, sentAt, attempts, lease, hold, withdrawn>>
workers  == <<pc, batch, verdict, elapsed>>
provider == <<accepted, refused>>
vars     == <<rows, workers, provider, overran, faults>>

Claim    == [id : Messages, attempts : Nat]
Stages   == {"idle", "claiming", "sending", "recording"}
Verdicts == {"none", "sent", "temporary", "permanent"}

TypeOK ==
  /\ status    \in [Messages -> {"none", "queued", "sent", "failed"}]
  /\ sentAt    \in [Messages -> BOOLEAN]
  /\ attempts  \in [Messages -> Nat]
  /\ lease     \in [Messages -> Nat]
  /\ hold      \in [Messages -> Nat]
  /\ withdrawn \subseteq Messages
  /\ pc        \in [Workers -> Stages]
  /\ batch     \in [Workers -> Seq(Claim)]
  /\ verdict   \in [Workers -> Verdicts]
  /\ elapsed   \in [Workers -> {0, 1}]
  /\ accepted  \in [Messages -> Nat]
  /\ refused   \subseteq Messages
  /\ overran   \subseteq Messages
  /\ faults    \in Nat
  /\ \A w \in Workers : pc[w] = "idle" <=> Len(batch[w]) = 0

Init ==
  /\ status    = [m \in Messages |-> "none"]
  /\ sentAt    = [m \in Messages |-> FALSE]
  /\ attempts  = [m \in Messages |-> 0]
  /\ lease     = [m \in Messages |-> 0]
  /\ hold      = [m \in Messages |-> 0]
  /\ withdrawn = {}
  /\ pc        = [w \in Workers |-> "idle"]
  /\ batch     = [w \in Workers |-> <<>>]
  /\ verdict   = [w \in Workers |-> "none"]
  /\ elapsed   = [w \in Workers |-> 0]
  /\ accepted  = [m \in Messages |-> 0]
  /\ refused   = {}
  /\ overran   = {}
  /\ faults    = 0

Holds(w, m) == \E i \in DOMAIN batch[w] : batch[w][i].id = m
Working(w)  == pc[w] \in {"sending", "recording"}

(* Rows a claim has selected FOR UPDATE and not yet committed. *)
Locked == {m \in Messages : \E w \in Workers : pc[w] = "claiming" /\ Holds(w, m)}

(* Mutant: the table without its check constraint. *)
NoSentAtCheck(s, at) == TRUE

(* The check constraint message_log_sent_at_check. *)
SentAtCheck(s, at) == (s = "sent") <=> at

-----------------------------------------------------------------------------
(* enqueueMessage: one row, in whatever transaction the caller is in. *)
Enqueue(m, delay) ==
  /\ status[m] = "none"
  /\ \A k \in Messages : k < m => status[k] # "none"
  /\ status' = [status EXCEPT ![m] = "queued"]
  /\ hold'   = [hold EXCEPT ![m] = delay]
  /\ UNCHANGED <<sentAt, attempts, lease, withdrawn, workers, provider, overran, faults>>

(***************************************************************************)
(* coldEmail.stop: every row of the lead that is still queued becomes      *)
(* failed.  The update waits for a claim in progress to commit.            *)
(***************************************************************************)
Withdraw ==
  LET queued == {m \in ColdEmails : status[m] = "queued"} IN
  /\ queued # {}
  /\ queued \cap Locked = {}
  /\ status'    = [m \in Messages |-> IF m \in queued THEN "failed" ELSE status[m]]
  /\ withdrawn' = withdrawn \cup queued
  /\ UNCHANGED <<sentAt, attempts, lease, hold, workers, provider, overran, faults>>

-----------------------------------------------------------------------------
(* Mutants: the claim's query without a condition on last_attempt_at, for  *)
(* rows never attempted only, and without its condition on status.         *)
EligibleAnyLease  == {m \in Messages \ Locked : status[m] = "queued" /\ hold[m] = 0}
EligibleOnce      == {m \in EligibleAnyLease : attempts[m] = 0}
EligibleAnyStatus == {m \in Messages \ Locked : status[m] # "none" /\ hold[m] = 0 /\ lease[m] = 0}

(* The rows the claim's query matches and can lock at once. *)
Eligible == {m \in Messages \ Locked : status[m] = "queued" /\ hold[m] = 0 /\ lease[m] = 0}

(* The oldest rows of S, at most BatchLimit of them, oldest first. *)
OldestFirst(ids, S) ==
  /\ \A i, j \in DOMAIN ids : i < j => ids[i] < ids[j]
  /\ Len(ids) = BatchLimit \/ S \subseteq {ids[i] : i \in DOMAIN ids}
  /\ \A i \in DOMAIN ids, m \in S : m < ids[i] => \E j \in DOMAIN ids : ids[j] = m

(* The claim's SELECT ... FOR UPDATE SKIP LOCKED. *)
Select(w) ==
  /\ pc[w] = "idle"
  /\ \E n \in 1..BatchLimit : \E ids \in [1..n -> Eligible] :
       /\ OldestFirst(ids, Eligible)
       /\ batch' = [batch EXCEPT ![w] =
                      [i \in 1..n |-> [id |-> ids[i], attempts |-> attempts[ids[i]] + 1]]]
  /\ pc' = [pc EXCEPT ![w] = "claiming"]
  /\ UNCHANGED <<rows, verdict, elapsed, provider, overran, faults>>

(* Mutant: the claim stamps the rows without counting the attempt. *)
CommitUncounted(w) ==
  /\ pc[w] = "claiming"
  /\ lease' = [m \in Messages |-> IF Holds(w, m) THEN LeaseTicks ELSE lease[m]]
  /\ pc'    = [pc EXCEPT ![w] = "sending"]
  /\ UNCHANGED <<status, sentAt, attempts, hold, withdrawn, batch, verdict, elapsed, provider, overran, faults>>

(* The claim's UPDATE and COMMIT: attempts + 1, last_attempt_at = now. *)
Commit(w) ==
  /\ pc[w] = "claiming"
  /\ attempts' = [m \in Messages |-> IF Holds(w, m) THEN attempts[m] + 1 ELSE attempts[m]]
  /\ lease'    = [m \in Messages |-> IF Holds(w, m) THEN LeaseTicks ELSE lease[m]]
  /\ pc'       = [pc EXCEPT ![w] = "sending"]
  /\ UNCHANGED <<status, sentAt, hold, withdrawn, batch, verdict, elapsed, provider, overran, faults>>

(* How sendQueued takes an answer: only a SendFailure may be permanent. *)
VerdictOn(answer) ==
  IF answer = "accepted" THEN "sent" ELSE IF answer = "permanent" THEN "permanent" ELSE "temporary"

(* sendSms or sendEmail, for the message at the head of the batch. *)
Send(w, answer) ==
  LET m == Head(batch[w]).id IN
  /\ pc[w] = "sending"
  /\ accepted' = [accepted EXCEPT ![m] = IF answer \in {"accepted", "lost"} THEN @ + 1 ELSE @]
  /\ refused'  = IF answer = "permanent" THEN refused \cup {m} ELSE refused
  /\ verdict'  = [verdict EXCEPT ![w] = VerdictOn(answer)]
  /\ pc'       = [pc EXCEPT ![w] = "recording"]
  /\ UNCHANGED <<rows, batch, elapsed, overran, faults>>

-----------------------------------------------------------------------------
(* Mutant: the pass does not notice that its batch is finished. *)
AdvanceForever(w) ==
  /\ batch'   = [batch EXCEPT ![w] = Tail(@)]
  /\ pc'      = [pc EXCEPT ![w] = "sending"]
  /\ verdict' = [verdict EXCEPT ![w] = "none"]
  /\ elapsed' = [elapsed EXCEPT ![w] = 0]

(* The loop goes on with the next message, or the pass is over. *)
Advance(w) ==
  /\ batch'   = [batch EXCEPT ![w] = Tail(@)]
  /\ pc'      = [pc EXCEPT ![w] = IF Len(batch[w]) = 1 THEN "idle" ELSE "sending"]
  /\ verdict' = [verdict EXCEPT ![w] = "none"]
  /\ elapsed' = [elapsed EXCEPT ![w] = 0]

(* The pass ends without dealing with the rest of its batch. *)
Abandon(w) ==
  /\ batch'   = [batch EXCEPT ![w] = <<>>]
  /\ pc'      = [pc EXCEPT ![w] = "idle"]
  /\ verdict' = [verdict EXCEPT ![w] = "none"]
  /\ elapsed' = [elapsed EXCEPT ![w] = 0]

(* The update after a send that worked: by id, whatever the row now says. *)
RecordSent(w) ==
  LET m == Head(batch[w]).id IN
  /\ pc[w] = "recording" /\ verdict[w] = "sent"
  /\ status' = [status EXCEPT ![m] = "sent"]
  /\ sentAt' = [sentAt EXCEPT ![m] = TRUE]
  /\ Advance(w)
  /\ UNCHANGED <<attempts, lease, hold, withdrawn, provider, overran, faults>>

(* Mutants: the budget compared off by one, either way. *)
StatusOneLate(claim, v) ==
  IF v = "permanent" \/ claim.attempts > MaxAttempts THEN "failed" ELSE "queued"
StatusOneEarly(claim, v) ==
  IF v = "permanent" \/ claim.attempts + 1 >= MaxAttempts THEN "failed" ELSE "queued"

(* What the catch block writes after a send that did not work. *)
StatusAfterFailure(claim, v) ==
  IF v = "permanent" \/ claim.attempts >= MaxAttempts THEN "failed" ELSE "queued"

(***************************************************************************)
(* The update in the catch block, by id.  It leaves sent_at alone, so on a *)
(* row another worker has marked sent the check constraint refuses it, and *)
(* the error ends the pass.                                                *)
(***************************************************************************)
RecordFailure(w) ==
  LET m == Head(batch[w]).id
      s == StatusAfterFailure(Head(batch[w]), verdict[w])
  IN
  /\ pc[w] = "recording" /\ verdict[w] \in {"temporary", "permanent"}
  /\ IF SentAtCheck(s, sentAt[m])
       THEN Advance(w) /\ status' = [status EXCEPT ![m] = s] /\ UNCHANGED faults
       ELSE Abandon(w) /\ UNCHANGED status /\ faults' = faults + 1
  /\ UNCHANGED <<sentAt, attempts, lease, hold, withdrawn, provider, overran>>

(***************************************************************************)
(* The update after a successful send fails.  It is inside the same try,   *)
(* so the send is treated as one that did not work.                        *)
(***************************************************************************)
SentUpdateFails(w) ==
  /\ pc[w] = "recording" /\ verdict[w] = "sent"
  /\ faults < MaxFaults
  /\ faults'  = faults + 1
  /\ verdict' = [verdict EXCEPT ![w] = "temporary"]
  /\ UNCHANGED <<rows, pc, batch, elapsed, provider, overran>>

(* The process dies, or loses the database: a claim in progress rolls back. *)
Crash(w) ==
  /\ pc[w] # "idle"
  /\ faults < MaxFaults
  /\ faults' = faults + 1
  /\ Abandon(w)
  /\ UNCHANGED <<rows, provider, overran>>

-----------------------------------------------------------------------------
Less1(n) == IF n = 0 THEN 0 ELSE n - 1

(* The rows in the hands of a pass whose lease has run out in the tick.    *)
RunOut == {m \in Messages : Less1(lease[m]) = 0 /\ \E w \in Workers : Working(w) /\ Holds(w, m)}

(* Time passes, but no message keeps a worker for longer than one tick. *)
Tick ==
  /\ \E m \in Messages : lease[m] > 0 \/ hold[m] > 0
  /\ \A w \in Workers : Working(w) => elapsed[w] = 0
  /\ lease'   = [m \in Messages |-> Less1(lease[m])]
  /\ hold'    = [m \in Messages |-> Less1(hold[m])]
  /\ elapsed' = [w \in Workers |-> IF Working(w) THEN 1 ELSE 0]
  /\ overran' = overran \cup RunOut
  /\ UNCHANGED <<status, sentAt, attempts, withdrawn, pc, batch, verdict, provider, faults>>

WorkerStep(w) ==
  \/ Select(w)
  \/ Commit(w)
  \/ \E answer \in Answers : Send(w, answer)
  \/ RecordSent(w)
  \/ RecordFailure(w)

Next ==
  \/ \E m \in Messages, delay \in SendLater : Enqueue(m, delay)
  \/ Withdraw
  \/ \E w \in Workers : WorkerStep(w) \/ SentUpdateFails(w) \/ Crash(w)
  \/ Tick

Spec == Init /\ [][Next]_vars

(***************************************************************************)
(* The scheduler starts the job again every minute, every send is bounded  *)
(* by a timeout, and time passes.  Nobody has to enqueue or to withdraw.   *)
(***************************************************************************)
FairSpec == Spec /\ (\A w \in Workers : WF_vars(WorkerStep(w))) /\ WF_vars(Tick)
-----------------------------------------------------------------------------
(* At any time a row is in the hands of one worker at most, unless its     *)
(* lease ran out under the pass that held it: the claim's lock, the status *)
(* and the lease together keep every other pass away from it.              *)
NoTwoHolders ==
  \A m \in Messages \ overran : \A v, w \in Workers : Holds(v, m) /\ Holds(w, m) => v = w

(* A row that has been marked sent stays sent, whatever late updates other *)
(* passes still make to it: the check constraint stops the ones that would *)
(* put it back in the queue.  This does not depend on the lease.           *)
SentIsFinal == [][\A m \in Messages : status[m] = "sent" => status'[m] = "sent"]_vars

(* A message marked sent is never handed to the provider again, unless its *)
(* lease ran out under the pass that held it.                              *)
SentIsNotSentAgain ==
  [][\A m \in Messages \ overran : status[m] = "sent" => accepted'[m] = accepted[m]]_vars

(* The provider never takes a message more often than the row's attempts   *)
(* say: the attempt is counted before the send, also across a crash and    *)
(* also when two workers hold the row.                                     *)
EverySendIsCounted == \A m \in Messages : accepted[m] <= attempts[m]

(* The budget of attempts is exceeded only by as many attempts as were     *)
(* cut short by a crash or by an error of the database, unless the row's   *)
(* lease ran out under the pass that held it.                              *)
BudgetHolds == \A m \in Messages \ overran : attempts[m] <= MaxAttempts + faults

(* Nobody gives a message up early: a row is failed only if it was         *)
(* withdrawn, if the provider refused that very message for good, or if it *)
(* has spent its attempts.  This does not depend on the lease.             *)
NoEarlyGiveUp ==
  \A m \in Messages :
    status[m] = "failed" => m \in withdrawn \cup refused \/ attempts[m] >= MaxAttempts

(* Every row leaves the queue for good: in the end each is sent or failed. *)
Settled == \A m \in Messages : status[m] # "queued"
EverythingSettles == <>[]Settled

-----------------------------------------------------------------------------
(***************************************************************************)
(* Why a row has one holder, as an inductive invariant.  A row that a pass *)
(* holds and whose lease has not run out under it is not eligible, so no   *)
(* other pass claims it and its claim stays what the row says.             *)
(***************************************************************************)
LeaseLasts ==
  \A w \in Workers : Working(w) =>
    \A i \in DOMAIN batch[w] : batch[w][i].id \in overran \/ lease[batch[w][i].id] # 0

HoldersApart ==
  \A v, w \in Workers : v # w =>
    \A i \in DOMAIN batch[v], j \in DOMAIN batch[w] :
      batch[v][i].id = batch[w][j].id => batch[v][i].id \in overran

(* A claim says what its row says, and the row has not been sent. *)
ClaimsCurrent ==
  \A w \in Workers : \A i \in DOMAIN batch[w] :
    LET m == batch[w][i].id IN
    m \notin overran =>
      IF pc[w] = "claiming"
        THEN status[m] = "queued" /\ batch[w][i].attempts = attempts[m] + 1
        ELSE status[m] \in {"queued", "failed"} /\ batch[w][i].attempts = attempts[m]

(* A row that may be claimed again has an attempt left to spend. *)
BudgetLeft ==
  \A m \in Messages \ overran :
    /\ status[m] = "none" => attempts[m] = 0
    /\ attempts[m] <= MaxAttempts + faults
    /\ (status[m] = "queued" /\ ~(\E w \in Workers : Working(w) /\ Holds(w, m)))
         => attempts[m] < MaxAttempts + faults

LeaseInv == LeaseLasts /\ HoldersApart /\ ClaimsCurrent /\ BudgetLeft

(* The check constraint holds of every row. *)
RowsChecked == \A m \in Messages : SentAtCheck(status[m], sentAt[m])

RowsDistinct ==
  \A w \in Workers : \A i, j \in DOMAIN batch[w] : batch[w][i].id = batch[w][j].id => i = j

(***************************************************************************)
(* What a batch that fits its lease would buy: the lease of a row outlasts *)
(* the messages before it in its batch, the row itself and the tick begun, *)
(* so that no lease runs out under a pass.                                 *)
(***************************************************************************)
LeaseOutlasts ==
  \A w \in Workers :
    /\ Len(batch[w]) <= BatchLimit
    /\ IF Working(w)
         THEN \A i \in DOMAIN batch[w] : i < lease[batch[w][i].id] + elapsed[w]
         ELSE elapsed[w] = 0

NeverOverrun == BatchFitsLease => overran = {} /\ LeaseOutlasts

QueueInv == RowsChecked /\ RowsDistinct /\ LeaseInv /\ NeverOverrun

-----------------------------------------------------------------------------
(***************************************************************************)
(* Why every send is counted, whatever the lease: an attempt is written to *)
(* the row before its send, so the sends still to come of the claims that  *)
(* workers hold, and those the provider has taken, are within the attempts.*)
(***************************************************************************)
StillToSend(m) ==
  {w \in Workers : /\ Working(w)
                   /\ \E i \in DOMAIN batch[w] : batch[w][i].id = m /\ (i # 1 \/ pc[w] = "sending")}

SendsAhead ==
  \A m \in Messages :
    IsFiniteSet(StillToSend(m)) /\ accepted[m] + Cardinality(StillToSend(m)) <= attempts[m]

(* Rows are locked by one claim at a time, which counts from what they say. *)
ClaimsApart ==
  \A v, w \in Workers : pc[v] = "claiming" /\ pc[w] = "claiming" /\ v # w =>
    \A m \in Messages : ~(Holds(v, m) /\ Holds(w, m))

ClaimsCounted ==
  \A w \in Workers : \A i \in DOMAIN batch[w] :
    LET claim == batch[w][i] IN
    IF pc[w] = "claiming" THEN claim.attempts = attempts[claim.id] + 1
                          ELSE claim.attempts <= attempts[claim.id]

VerdictsAnswered ==
  \A w \in Workers :
    verdict[w] = "permanent" => pc[w] = "recording" /\ Head(batch[w]).id \in refused

CountInv ==
  SendsAhead /\ RowsDistinct /\ ClaimsApart /\ ClaimsCounted /\ VerdictsAnswered /\ NoEarlyGiveUp

(***************************************************************************)
(* What the outbox's steps ask of the queue: a row that has failed under a *)
(* worker was withdrawn or is contested, one about to be marked sent has   *)
(* been taken, and a row in a batch is a row of the table.                 *)
(***************************************************************************)
FailedWereWithdrawn ==
  \A w \in Workers : Working(w) =>
    \A i \in DOMAIN batch[w] :
      status[batch[w][i].id] = "failed" => batch[w][i].id \in withdrawn \cup overran

SentWasTaken ==
  \A w \in Workers :
    pc[w] = "recording" /\ verdict[w] = "sent" => accepted[Head(batch[w]).id] > 0

HeldRowsExist == \A w \in Workers : \A i \in DOMAIN batch[w] : status[batch[w][i].id] # "none"

OutboxInv == SentWasTaken /\ FailedWereWithdrawn /\ HeldRowsExist

(* Outbox is what the queue implements; the rows it contests are those     *)
(* whose lease has run out under a pass.                                   *)
O == INSTANCE Outbox WITH stage <- status, deliveries <- accepted,
                          recalled <- withdrawn, contested <- overran

(* The queue implements the outbox: a row is handed to the provider only   *)
(* while it is queued, and is settled once (services/messages.ts); of a    *)
(* row whose lease ran out under a pass, what Outbox still promises.       *)
ImplementsOutbox == O!Spec

-----------------------------------------------------------------------------
(* messageQueue.ts: "several copies can run at once without sending        *)
(* anything twice".                                                        *)
NothingSentTwice == \A m \in Messages : accepted[m] <= 1

(* coldEmail.ts on stop: "Anything already queued but not yet sent is      *)
(* withdrawn too".  A row withdrawn is not put back in the queue.          *)
WithdrawnStaysOut == [][\A m \in withdrawn : status'[m] # "queued"]_vars
=============================================================================
