---------------------------- MODULE UpdateIntake ----------------------------
(***************************************************************************)
(* The path of a Telegram update through the bot: the webhook publishes a  *)
(* Celery message for it, a worker takes the processing slot of the update *)
(* (its row of processed_updates), feeds the update to the dispatcher and  *)
(* records the outcome.  The slot, the dispatcher and the outcome are three *)
(* separate database transactions, so a crash or a database failure can    *)
(* fall between any two of them, and a worker that outlives the time to    *)
(* live of its slot keeps running next to the one that reclaims it.        *)
(***************************************************************************)
EXTENDS Naturals

CONSTANTS
  Updates,      \* update ids, chosen by Telegram
  Tasks,        \* Celery task ids: every publication has a new one
  NoTask,       \* processing_task_id is NULL
  MaxRetries,   \* TASK_MAX_RETRIES
  TTL,          \* PROCESSING_TTL_SECONDS, in ticks
  Retention,    \* retention_processed_updates_days, in ticks
  MaxFaults,    \* bound: crashes and failures in one behaviour
  Overrun       \* may a worker hold a slot for TTL or longer?

ASSUME TaskAssumption == NoTask \notin Tasks
ASSUME RetriesAssumption == MaxRetries \in Nat
ASSUME TTLAssumption == TTL \in Nat \ {0} /\ Retention \in Nat /\ TTL < Retention
ASSUME FaultsAssumption == MaxFaults \in Nat
ASSUME OverrunAssumption == Overrun \in BOOLEAN

VARIABLES
  tg,        \* what Telegram knows of an update: not sent yet, unacknowledged, acknowledged
  st,        \* the step a task is at
  upd,       \* the update a task carries
  retries,   \* request.retries of a task
  status,    \* processed_updates.status, or NONE when there is no row
  owner,     \* processed_updates.processing_task_id
  age,       \* now() - processed_updates.processed_at, counted up to Retention
  faults     \* crashes and failures so far

\* History: what happened to an update, never read by an action.
VARIABLES
  completed, \* runs of the dispatcher whose effects count as done
  lost,      \* completed runs whose outcome was never recorded
  forgotten, \* deletions of the row by the retention job
  refused    \* retries the broker did not take

dbVars == <<status, owner, age>>
history == <<completed, lost, forgotten, refused>>
vars == <<tg, st, upd, retries, dbVars, faults, history>>

\* The steps of a task between taking the slot and recording the outcome.
ActiveSteps == {"feeding", "marking_processed", "marking_failed"}
\* The steps at which a worker holds the (unacknowledged) message.
RunningSteps == ActiveSteps \cup {"reclaiming_failed", "reclaiming_stale", "raised"}
Steps == RunningSteps \cup {"unused", "queued", "done"}

TypeOK ==
  /\ tg \in [Updates -> {"unsent", "pending", "acked"}]
  /\ st \in [Tasks -> Steps]
  /\ upd \in [Tasks -> Updates]
  /\ retries \in [Tasks -> 0..MaxRetries]
  /\ status \in [Updates -> {"NONE", "PROCESSING", "FAILED", "PROCESSED"}]
  /\ owner \in [Updates -> Tasks \cup {NoTask}]
  /\ age \in [Updates -> 0..Retention]
  /\ faults \in 0..MaxFaults
  /\ completed \in [Updates -> Nat]
  /\ lost \in [Updates -> Nat]
  /\ forgotten \in [Updates -> Nat]
  /\ refused \in [Updates -> Nat]

Init ==
  /\ tg = [u \in Updates |-> "unsent"]
  /\ st = [t \in Tasks |-> "unused"]
  /\ upd \in [Tasks -> Updates]
  /\ retries = [t \in Tasks |-> 0]
  /\ status = [u \in Updates |-> "NONE"]
  /\ owner = [u \in Updates |-> NoTask]
  /\ age = [u \in Updates |-> 0]
  /\ faults = 0
  /\ completed = [u \in Updates |-> 0]
  /\ lost = [u \in Updates |-> 0]
  /\ forgotten = [u \in Updates |-> 0]
  /\ refused = [u \in Updates |-> 0]

\* upd[t] is chosen once, in Init, as the update the publication of task t will
\* carry; an unused task is available to the webhook calls for that update only.
Publish(t) ==
  /\ st[t] = "unused"
  /\ st' = [st EXCEPT ![t] = "queued"]

-----------------------------------------------------------------------------
\* The webhook.  Telegram repeats an update until it is acknowledged.

\* The message is published in time: the reply is 200.
EnqueueInTime(u) ==
  /\ tg[u] # "acked"
  /\ \E t \in Tasks : upd[t] = u /\ Publish(t)
  /\ tg' = [tg EXCEPT ![u] = "acked"]
  /\ UNCHANGED <<upd, retries, dbVars, faults, history>>

\* wait_for gives up and the reply is 503, but the thread it started still
\* publishes the message; the same outcome as a 200 that never arrives.
EnqueueLate(u) ==
  /\ tg[u] # "acked"
  /\ \E t \in Tasks : upd[t] = u /\ Publish(t)
  /\ tg' = [tg EXCEPT ![u] = "pending"]
  /\ UNCHANGED <<upd, retries, dbVars, faults, history>>

\* A mutant of EnqueueFails: the webhook replies 200 to a failed publication.
EnqueueFailsAcked(u) ==
  /\ tg[u] = "unsent"
  /\ tg' = [tg EXCEPT ![u] = "acked"]
  /\ UNCHANGED <<st, upd, retries, dbVars, faults, history>>

\* The broker refuses the message, or never gets it: the reply is 503.
EnqueueFails(u) ==
  /\ tg[u] = "unsent"
  /\ tg' = [tg EXCEPT ![u] = "pending"]
  /\ UNCHANGED <<st, upd, retries, dbVars, faults, history>>

-----------------------------------------------------------------------------
\* _acquire_processing_slot: three statements of one READ COMMITTED
\* transaction.  Another task may commit between them.

TakeSlot(t, u) ==
  /\ st' = [st EXCEPT ![t] = "feeding"]
  /\ status' = [status EXCEPT ![u] = "PROCESSING"]
  /\ owner' = [owner EXCEPT ![u] = t]
  /\ age' = [age EXCEPT ![u] = 0]

\* INSERT ... ON CONFLICT DO NOTHING
TryCreate(t) ==
  /\ st[t] = "queued"
  /\ IF status[upd[t]] = "NONE"
       THEN TakeSlot(t, upd[t])
       ELSE /\ st' = [st EXCEPT ![t] = "reclaiming_failed"]
            /\ UNCHANGED dbVars
  /\ UNCHANGED <<tg, upd, retries, faults, history>>

\* A mutant of TryReclaimFailed: the WHERE clause lets a processed row in.
TryReclaimFinished(t) ==
  /\ st[t] = "reclaiming_failed"
  /\ IF status[upd[t]] \in {"FAILED", "PROCESSED"}
       THEN TakeSlot(t, upd[t])
       ELSE /\ st' = [st EXCEPT ![t] = "reclaiming_stale"]
            /\ UNCHANGED dbVars
  /\ UNCHANGED <<tg, upd, retries, faults, history>>

\* UPDATE ... WHERE status = 'FAILED'
TryReclaimFailed(t) ==
  /\ st[t] = "reclaiming_failed"
  /\ IF status[upd[t]] = "FAILED"
       THEN TakeSlot(t, upd[t])
       ELSE /\ st' = [st EXCEPT ![t] = "reclaiming_stale"]
            /\ UNCHANGED dbVars
  /\ UNCHANGED <<tg, upd, retries, faults, history>>

\* A mutant of TryReclaimStale: the age of the slot is not looked at.
TryReclaimAny(t) ==
  /\ st[t] = "reclaiming_stale"
  /\ IF status[upd[t]] = "PROCESSING"
       THEN TakeSlot(t, upd[t])
       ELSE /\ st' = [st EXCEPT ![t] = "done"]
            /\ UNCHANGED dbVars
  /\ UNCHANGED <<tg, upd, retries, faults, history>>

\* UPDATE ... WHERE status = 'PROCESSING' AND age >= ttl; otherwise the task
\* returns "duplicate" and its message is acknowledged.
TryReclaimStale(t) ==
  /\ st[t] = "reclaiming_stale"
  /\ IF status[upd[t]] = "PROCESSING" /\ age[upd[t]] >= TTL
       THEN TakeSlot(t, upd[t])
       ELSE /\ st' = [st EXCEPT ![t] = "done"]
            /\ UNCHANGED dbVars
  /\ UNCHANGED <<tg, upd, retries, faults, history>>

-----------------------------------------------------------------------------
\* dispatcher.feed_update

\* The handlers return, or raise one of the two non-retryable Telegram errors.
FeedSucceeds(t) ==
  /\ st[t] = "feeding"
  /\ st' = [st EXCEPT ![t] = "marking_processed"]
  /\ completed' = [completed EXCEPT ![upd[t]] = @ + 1]
  /\ UNCHANGED <<tg, upd, retries, dbVars, faults, lost, forgotten, refused>>

\* A mutant of FeedFails: every exception is taken for a non-retryable one.
FeedFailureIgnored(t) ==
  /\ st[t] = "feeding"
  /\ st' = [st EXCEPT ![t] = "marking_processed"]
  /\ UNCHANGED <<tg, upd, retries, dbVars, faults, history>>

\* Any other exception.
FeedFails(t) ==
  /\ st[t] = "feeding"
  /\ st' = [st EXCEPT ![t] = "marking_failed"]
  /\ UNCHANGED <<tg, upd, retries, dbVars, faults, history>>

\* set_status names the row by update_id alone: neither the status the row has
\* now nor the task that owns it matters.
SetStatus(u, newStatus) ==
  IF status[u] = "NONE"
    THEN UNCHANGED dbVars
    ELSE /\ status' = [status EXCEPT ![u] = newStatus]
         /\ owner' = [owner EXCEPT ![u] = NoTask]
         /\ age' = [age EXCEPT ![u] = 0]

MarkProcessed(t) ==
  /\ st[t] = "marking_processed"
  /\ SetStatus(upd[t], "PROCESSED")
  /\ st' = [st EXCEPT ![t] = "done"]
  /\ UNCHANGED <<tg, upd, retries, faults, history>>

\* A mutant of MarkFailed: the slot is left as it is.
MarkFailedSkipped(t) ==
  /\ st[t] = "marking_failed"
  /\ st' = [st EXCEPT ![t] = "raised"]
  /\ UNCHANGED <<tg, upd, retries, dbVars, faults, history>>

MarkFailed(t) ==
  /\ st[t] = "marking_failed"
  /\ SetStatus(upd[t], "FAILED")
  /\ st' = [st EXCEPT ![t] = "raised"]
  /\ UNCHANGED <<tg, upd, retries, faults, history>>

\* A mutant of RetryTask: the number of retries is not bounded.
RetryForever(t) ==
  /\ st[t] = "raised"
  /\ st' = [st EXCEPT ![t] = "queued"]
  /\ retries' = [retries EXCEPT ![t] = @ + 1]
  /\ UNCHANGED <<tg, upd, dbVars, faults, history>>

\* The exception reaches process_telegram_update: publish the message again
\* with one more retry, or give up.
RetryTask(t) ==
  /\ st[t] = "raised"
  /\ retries[t] < MaxRetries
  /\ st' = [st EXCEPT ![t] = "queued"]
  /\ retries' = [retries EXCEPT ![t] = @ + 1]
  /\ UNCHANGED <<tg, upd, dbVars, faults, history>>

FailFinal(t) ==
  /\ st[t] = "raised"
  /\ retries[t] >= MaxRetries
  /\ st' = [st EXCEPT ![t] = "done"]
  /\ UNCHANGED <<tg, upd, retries, dbVars, faults, history>>

-----------------------------------------------------------------------------
\* Faults.  Each takes one from the budget MaxFaults.

Fault == faults < MaxFaults /\ faults' = faults + 1

\* The outcome of a run that finished is lost with the transaction that was to
\* record it.
LoseOutcome(t) ==
  lost' = IF st[t] = "marking_processed" THEN [lost EXCEPT ![upd[t]] = @ + 1] ELSE lost

\* A statement of one of the task's own transactions raises, or closing the bot does
\* once the handlers are through.
DatabaseFails(t) ==
  /\ Fault
  /\ st[t] \in {"queued", "reclaiming_failed", "reclaiming_stale",
                "marking_processed", "marking_failed"}
  /\ st' = [st EXCEPT ![t] = "raised"]
  /\ LoseOutcome(t)
  /\ UNCHANGED <<tg, upd, retries, dbVars, completed, forgotten, refused>>

\* The bot or the dispatcher cannot be built: nothing catches that, the slot stays taken.
BuildFails(t) ==
  /\ Fault
  /\ st[t] = "feeding"
  /\ st' = [st EXCEPT ![t] = "raised"]
  /\ UNCHANGED <<tg, upd, retries, dbVars, history>>

\* self.retry cannot publish the retry: Celery rejects the message and does not requeue it.
RetryRefused(t) ==
  /\ Fault
  /\ st[t] = "raised" /\ retries[t] < MaxRetries
  /\ st' = [st EXCEPT ![t] = "done"]
  /\ refused' = [refused EXCEPT ![upd[t]] = @ + 1]
  /\ UNCHANGED <<tg, upd, retries, dbVars, completed, lost, forgotten>>

\* The worker dies.  acks_late and reject_on_worker_lost put the message back.
WorkerDies(t) ==
  /\ Fault
  /\ st[t] \in RunningSteps
  /\ st' = [st EXCEPT ![t] = "queued"]
  /\ LoseOutcome(t)
  /\ UNCHANGED <<tg, upd, retries, dbVars, completed, forgotten, refused>>

\* The worker dies in the middle of the handlers, after their transaction
\* committed and before feed_update returned.
WorkerDiesAfterEffects(t) ==
  /\ Fault
  /\ st[t] = "feeding"
  /\ st' = [st EXCEPT ![t] = "queued"]
  /\ completed' = [completed EXCEPT ![upd[t]] = @ + 1]
  /\ lost' = [lost EXCEPT ![upd[t]] = @ + 1]
  /\ UNCHANGED <<tg, upd, retries, dbVars, forgotten, refused>>

-----------------------------------------------------------------------------
\* Time and retention

Active(t) == st[t] \in ActiveSteps

\* Time passes.  now() is the start of the transaction, so the clock does not
\* move inside one.  Unless workers may overrun, an active task is done with its
\* slot before the slot becomes stale.
Tick ==
  /\ \E u \in Updates : status[u] # "NONE" /\ age[u] < Retention
  /\ \A t \in Tasks : st[t] \notin {"reclaiming_failed", "reclaiming_stale"}
  /\ Overrun \/ \A t \in Tasks : Active(t) => age[upd[t]] + 1 < TTL
  /\ age' = [u \in Updates |->
               IF status[u] # "NONE" /\ age[u] < Retention THEN age[u] + 1 ELSE age[u]]
  /\ UNCHANGED <<tg, st, upd, retries, status, owner, faults, history>>

\* run_retention_cleanup deletes by processed_at alone, whatever the status.
DeleteProcessedBefore(u) ==
  /\ status[u] # "NONE"
  /\ age[u] = Retention
  /\ status' = [status EXCEPT ![u] = "NONE"]
  /\ owner' = [owner EXCEPT ![u] = NoTask]
  /\ age' = [age EXCEPT ![u] = 0]
  /\ forgotten' = [forgotten EXCEPT ![u] = @ + 1]
  /\ UNCHANGED <<tg, st, upd, retries, faults, completed, lost, refused>>

-----------------------------------------------------------------------------
Webhook(u) == EnqueueInTime(u) \/ EnqueueLate(u) \/ EnqueueFails(u)

Acquire(t) == TryCreate(t) \/ TryReclaimFailed(t) \/ TryReclaimStale(t)
Feed(t) == FeedSucceeds(t) \/ FeedFails(t)
Mark(t) == MarkProcessed(t) \/ MarkFailed(t)
Resolve(t) == RetryTask(t) \/ FailFinal(t)
Work(t) == Acquire(t) \/ Feed(t) \/ Mark(t) \/ Resolve(t)

Break(t) ==
  \/ DatabaseFails(t) \/ BuildFails(t) \/ RetryRefused(t)
  \/ WorkerDies(t) \/ WorkerDiesAfterEffects(t)

Next ==
  \/ \E u \in Updates : Webhook(u) \/ DeleteProcessedBefore(u)
  \/ \E t \in Tasks : Work(t) \/ Break(t)
  \/ Tick

Spec == Init /\ [][Next]_vars

\* The workers keep consuming the queue: each message that waits or runs makes
\* its next step.  Nothing is assumed of Telegram, the webhook or the faults.
FairSpec == Spec /\ \A t \in Tasks : WF_vars(Work(t))

-----------------------------------------------------------------------------
\* Properties

\* No two workers hold the same update between taking its slot and recording
\* the outcome: the slot is a lock for as long as no worker outlives its TTL.
SingleProcessor ==
  \A s, t \in Tasks : Active(s) /\ Active(t) /\ upd[s] = upd[t] => s = t

\* The slot in the table belongs to the worker that is active, and has not
\* become stale under it.
ActiveOwnsSlot ==
  \A t \in Tasks : Active(t) =>
    /\ status[upd[t]] = "PROCESSING"
    /\ owner[upd[t]] = t
    /\ age[upd[t]] < TTL

\* A run of the handlers of u finished and is about to be recorded.
OutcomePending(u) ==
  \E t \in Tasks : owner[u] = t /\ upd[t] = u /\ st[t] = "marking_processed"

\* An update is applied more than once only when an outcome was lost or the row
\* was deleted, once for each extra application.
AppliedOncePerLoss ==
  \A u \in Updates : completed[u] <= 1 + lost[u] + forgotten[u]

\* The form of AppliedOncePerLoss that every step preserves.
OutcomesAccounted ==
  \A u \in Updates :
    completed[u] <= lost[u] + forgotten[u]
                    + (IF status[u] = "PROCESSED" \/ OutcomePending(u) THEN 1 ELSE 0)

\* A row is PROCESSED only if the handlers of the update ran to the end, also
\* when workers overrun their slots.
ProcessedMeansApplied ==
  \A u \in Updates : status[u] = "PROCESSED" => completed[u] >= 1

\* A message that still has a chance to process the update.
Live(t) == st[t] \notin {"unused", "done"}

\* An update Telegram no longer repeats has a message that can still process it,
\* or left a row behind (until retention deletes it): it takes more failures
\* than there are retries to lose one without a trace, or a retry that the broker
\* did not take.
NoSilentDrop ==
  \A u \in Updates :
    tg[u] = "acked" =>
      \/ \E t \in Tasks : upd[t] = u /\ Live(t)
      \/ status[u] # "NONE"
      \/ forgotten[u] > 0
      \/ faults > MaxRetries
      \/ refused[u] > 0

\* A slot that is being processed has a message that can finish it: no update
\* is left in PROCESSING with nobody to reclaim it.
NoOrphanedSlot ==
  \A u \in Updates :
    status[u] = "PROCESSING" => \E t \in Tasks : upd[t] = u /\ Live(t)

\* An update with a message in the queue is decided in the end: processed, or
\* failed with no retry left, unless the retention job deletes its row.
Decided(u) ==
  \/ status[u] = "PROCESSED"
  \/ status[u] = "FAILED" /\ \A t \in Tasks : upd[t] = u => ~Live(t)
  \/ forgotten[u] > 0

EveryUpdateDecided ==
  \A u \in Updates : (\E t \in Tasks : upd[t] = u /\ Live(t)) ~> Decided(u)
=============================================================================
