------------------------- MODULE UpdateIntakeProofs -------------------------
(***************************************************************************)
(* What UpdateIntake guarantees for every set of updates and tasks.        *)
(*                                                                         *)
(* Three invariants carry the argument.  Typing holds outright.  A row is  *)
(* PROCESSED only after its update was applied, because a task that is     *)
(* about to record a run has finished one; no assumption on timing is      *)
(* needed.  When no worker outlives its slot, the slot is a lock: the      *)
(* active task of an update is the owner of its row, which is PROCESSING   *)
(* and fresh, so every way of taking the slot is shut.  From that the runs *)
(* of an update can be counted against the outcomes that were lost.        *)
(***************************************************************************)
EXTENDS UpdateIntake, TLAPS

USE TaskAssumption, RetriesAssumption, TTLAssumption, FaultsAssumption, OverrunAssumption

\* Every value keeps the type the tables and the messages give it.
THEOREM TypeCorrect == Spec => []TypeOK
<1>1. Init => TypeOK
  BY DEF Init, TypeOK, Steps, RunningSteps, ActiveSteps
<1>2. TypeOK /\ [Next]_vars => TypeOK'
  <2> SUFFICES ASSUME TypeOK, [Next]_vars PROVE TypeOK'
    OBVIOUS
  <2> USE DEF TypeOK, Steps, RunningSteps, ActiveSteps, dbVars, history
  <2>1. ASSUME NEW u \in Updates, EnqueueInTime(u) PROVE TypeOK'
    BY <2>1 DEF EnqueueInTime, Publish
  <2>2. ASSUME NEW u \in Updates, EnqueueLate(u) PROVE TypeOK'
    BY <2>2 DEF EnqueueLate, Publish
  <2>3. ASSUME NEW u \in Updates, EnqueueFails(u) PROVE TypeOK'
    BY <2>3 DEF EnqueueFails
  <2>4. ASSUME NEW u \in Updates, DeleteProcessedBefore(u) PROVE TypeOK'
    BY <2>4 DEF DeleteProcessedBefore
  <2>5. ASSUME NEW t \in Tasks, Acquire(t) PROVE TypeOK'
    <3>1. CASE TryCreate(t) BY <3>1 DEF TryCreate, TakeSlot
    <3>2. CASE TryReclaimFailed(t) BY <3>2 DEF TryReclaimFailed, TakeSlot
    <3>3. CASE TryReclaimStale(t) BY <3>3 DEF TryReclaimStale, TakeSlot
    <3> QED BY <2>5, <3>1, <3>2, <3>3 DEF Acquire
  <2>6. ASSUME NEW t \in Tasks, Feed(t) PROVE TypeOK'
    BY <2>6 DEF Feed, FeedSucceeds, FeedFails
  <2>7. ASSUME NEW t \in Tasks, Mark(t) PROVE TypeOK'
    <3>1. CASE MarkProcessed(t) BY <3>1 DEF MarkProcessed, SetStatus
    <3>2. CASE MarkFailed(t) BY <3>2 DEF MarkFailed, SetStatus
    <3> QED BY <2>7, <3>1, <3>2 DEF Mark
  <2>8. ASSUME NEW t \in Tasks, Resolve(t) PROVE TypeOK'
    BY <2>8 DEF Resolve, RetryTask, FailFinal
  <2>9. ASSUME NEW t \in Tasks, Break(t) PROVE TypeOK'
    <3>1. CASE DatabaseFails(t) BY <3>1 DEF DatabaseFails, Fault, LoseOutcome
    <3>2. CASE WorkerDies(t) BY <3>2 DEF WorkerDies, Fault, LoseOutcome
    <3>3. CASE WorkerDiesAfterEffects(t) BY <3>3 DEF WorkerDiesAfterEffects, Fault
    <3>4. CASE BuildFails(t) BY <3>4 DEF BuildFails, Fault
    <3>5. CASE RetryRefused(t) BY <3>5 DEF RetryRefused, Fault
    <3> QED BY <2>9, <3>1, <3>2, <3>3, <3>4, <3>5 DEF Break
  <2>10. CASE Tick
    BY <2>10 DEF Tick
  <2>11. CASE UNCHANGED vars
    BY <2>11 DEF vars
  <2> QED
    BY <2>1, <2>2, <2>3, <2>4, <2>5, <2>6, <2>7, <2>8, <2>9, <2>10, <2>11
    DEF Next, Webhook, Work
<1> QED
  BY <1>1, <1>2, PTL DEF Spec

-----------------------------------------------------------------------------
\* A task that is about to record a finished run has finished one.
RecordsARun ==
  \A t \in Tasks : st[t] = "marking_processed" => completed[upd[t]] >= 1

\* A row is PROCESSED only after a run of the handlers of its update, whether or
\* not workers overrun their slots.
THEOREM ProcessedMeansAppliedThm == Spec => []ProcessedMeansApplied
<1> DEFINE Inv == RecordsARun /\ ProcessedMeansApplied
<1>1. Init => Inv
  BY DEF Init, RecordsARun, ProcessedMeansApplied
<1>2. TypeOK /\ Inv /\ [Next]_vars => Inv'
  <2> SUFFICES ASSUME TypeOK, Inv, [Next]_vars PROVE Inv'
    OBVIOUS
  <2> USE DEF TypeOK, RecordsARun, ProcessedMeansApplied, dbVars, history
  <2>1. ASSUME NEW u \in Updates, Webhook(u) PROVE Inv'
    BY <2>1 DEF Webhook, EnqueueInTime, EnqueueLate, EnqueueFails, Publish
  <2>2. ASSUME NEW u \in Updates, DeleteProcessedBefore(u) PROVE Inv'
    BY <2>2 DEF DeleteProcessedBefore
  <2>3. ASSUME NEW t \in Tasks, Acquire(t) PROVE Inv'
    <3>1. CASE TryCreate(t) BY <3>1 DEF TryCreate, TakeSlot
    <3>2. CASE TryReclaimFailed(t) BY <3>2 DEF TryReclaimFailed, TakeSlot
    <3>3. CASE TryReclaimStale(t) BY <3>3 DEF TryReclaimStale, TakeSlot
    <3> QED BY <2>3, <3>1, <3>2, <3>3 DEF Acquire
  <2>4. ASSUME NEW t \in Tasks, Feed(t) PROVE Inv'
    BY <2>4 DEF Feed, FeedSucceeds, FeedFails
  <2>5. ASSUME NEW t \in Tasks, Mark(t) PROVE Inv'
    <3>1. CASE MarkProcessed(t) BY <3>1 DEF MarkProcessed, SetStatus
    <3>2. CASE MarkFailed(t) BY <3>2 DEF MarkFailed, SetStatus
    <3> QED BY <2>5, <3>1, <3>2 DEF Mark
  <2>6. ASSUME NEW t \in Tasks, Resolve(t) PROVE Inv'
    BY <2>6 DEF Resolve, RetryTask, FailFinal
  <2>7. ASSUME NEW t \in Tasks, Break(t) PROVE Inv'
    BY <2>7 DEF Break, DatabaseFails, BuildFails, RetryRefused, WorkerDies, WorkerDiesAfterEffects
  <2>8. CASE Tick
    BY <2>8 DEF Tick
  <2>9. CASE UNCHANGED vars
    BY <2>9 DEF vars
  <2> QED
    BY <2>1, <2>2, <2>3, <2>4, <2>5, <2>6, <2>7, <2>8, <2>9 DEF Next, Work
<1> QED
  BY <1>1, <1>2, TypeCorrect, PTL DEF Spec

-----------------------------------------------------------------------------
\* A step of a task that is not active yet takes the slot only when no task of
\* the same update is active, so the new owner is the only active task.
LEMMA TakeSlotAlone ==
  ASSUME TypeOK, ActiveOwnsSlot, NEW t \in Tasks, ~Active(t),
         TakeSlot(t, upd[t]), upd' = upd,
         \A s \in Tasks : upd[s] = upd[t] => ~Active(s)
  PROVE  ActiveOwnsSlot'
BY DEF TypeOK, ActiveOwnsSlot, Active, ActiveSteps, TakeSlot

\* When no worker outlives its slot, the row of an update that is being worked
\* on belongs to the worker and has not become stale.
THEOREM SlotOwnedThm == ASSUME ~Overrun PROVE Spec => []ActiveOwnsSlot
<1>1. Init => ActiveOwnsSlot
  BY DEF Init, ActiveOwnsSlot, Active, ActiveSteps
<1>2. TypeOK /\ ActiveOwnsSlot /\ [Next]_vars => ActiveOwnsSlot'
  <2> SUFFICES ASSUME TypeOK, ActiveOwnsSlot, [Next]_vars PROVE ActiveOwnsSlot'
    OBVIOUS
  <2> USE DEF TypeOK, ActiveOwnsSlot, Active, ActiveSteps, dbVars, history
  <2>1. ASSUME NEW u \in Updates, Webhook(u) PROVE ActiveOwnsSlot'
    BY <2>1 DEF Webhook, EnqueueInTime, EnqueueLate, EnqueueFails, Publish
  <2>2. ASSUME NEW u \in Updates, DeleteProcessedBefore(u) PROVE ActiveOwnsSlot'
    BY <2>2 DEF DeleteProcessedBefore
  <2>3. ASSUME NEW t \in Tasks, Acquire(t) PROVE ActiveOwnsSlot'
    <3>1. CASE TakeSlot(t, upd[t])
      <4>1. ~Active(t) /\ upd' = upd
        BY <2>3 DEF Acquire, TryCreate, TryReclaimFailed, TryReclaimStale
      <4>2. status[upd[t]] # "PROCESSING" \/ age[upd[t]] >= TTL
        BY <2>3, <3>1 DEF Acquire, TryCreate, TryReclaimFailed, TryReclaimStale, TakeSlot
      <4>3. \A s \in Tasks : upd[s] = upd[t] => ~Active(s)
        BY <4>2
      <4> QED BY <3>1, <4>1, <4>3, TakeSlotAlone
    <3>2. CASE ~TakeSlot(t, upd[t])
      BY <2>3, <3>2 DEF Acquire, TryCreate, TryReclaimFailed, TryReclaimStale
    <3> QED BY <3>1, <3>2
  <2>4. ASSUME NEW t \in Tasks, Feed(t) PROVE ActiveOwnsSlot'
    BY <2>4 DEF Feed, FeedSucceeds, FeedFails
  <2>5. ASSUME NEW t \in Tasks, Mark(t) PROVE ActiveOwnsSlot'
    <3>1. CASE MarkProcessed(t) BY <3>1 DEF MarkProcessed, SetStatus
    <3>2. CASE MarkFailed(t) BY <3>2 DEF MarkFailed, SetStatus
    <3> QED BY <2>5, <3>1, <3>2 DEF Mark
  <2>6. ASSUME NEW t \in Tasks, Resolve(t) PROVE ActiveOwnsSlot'
    BY <2>6 DEF Resolve, RetryTask, FailFinal
  <2>7. ASSUME NEW t \in Tasks, Break(t) PROVE ActiveOwnsSlot'
    BY <2>7 DEF Break, DatabaseFails, BuildFails, RetryRefused, WorkerDies, WorkerDiesAfterEffects
  <2>8. CASE Tick
    BY <2>8 DEF Tick
  <2>9. CASE UNCHANGED vars
    BY <2>9 DEF vars
  <2> QED
    BY <2>1, <2>2, <2>3, <2>4, <2>5, <2>6, <2>7, <2>8, <2>9 DEF Next, Work
<1> QED
  BY <1>1, <1>2, TypeCorrect, PTL DEF Spec

\* When no worker outlives its slot, an update has at most one worker.
THEOREM SingleProcessorThm == ASSUME ~Overrun PROVE Spec => []SingleProcessor
<1>1. ActiveOwnsSlot => SingleProcessor
  BY DEF ActiveOwnsSlot, SingleProcessor
<1> QED
  BY <1>1, SlotOwnedThm, PTL

-----------------------------------------------------------------------------
\* While the slot is a lock, a step of another task cannot hide the run that is
\* about to be recorded: the pending outcomes of the other updates stay, and
\* those of its own update change only when the owner moves.
LEMMA OutcomePendingFrame ==
  ASSUME NEW u \in Updates, UNCHANGED <<owner, upd>>,
         \A t \in Tasks : upd[t] = u =>
           (st[t] = "marking_processed" <=> st'[t] = "marking_processed")
  PROVE  OutcomePending(u)' <=> OutcomePending(u)
BY DEF OutcomePending

\* When no worker outlives its slot, every run of the handlers of an update
\* beyond the first is paid for by a lost outcome or a deleted row.
THEOREM AppliedOncePerLossThm == ASSUME ~Overrun PROVE Spec => []AppliedOncePerLoss
<1>1. Init => OutcomesAccounted
  <2> SUFFICES ASSUME Init, NEW u \in Updates
               PROVE 0 <= 0 + 0 + (IF status[u] = "PROCESSED" \/ OutcomePending(u) THEN 1 ELSE 0)
    BY DEF Init, OutcomesAccounted
  <2> QED OBVIOUS
<1>2. TypeOK /\ ActiveOwnsSlot /\ OutcomesAccounted /\ [Next]_vars => OutcomesAccounted'
  <2> SUFFICES ASSUME TypeOK, ActiveOwnsSlot, OutcomesAccounted, [Next]_vars,
                      NEW w \in Updates
               PROVE completed'[w] <= lost'[w] + forgotten'[w]
                       + (IF status'[w] = "PROCESSED" \/ OutcomePending(w)' THEN 1 ELSE 0)
    BY DEF OutcomesAccounted
  <2> DEFINE Goal == completed'[w] <= lost'[w] + forgotten'[w]
                       + (IF status'[w] = "PROCESSED" \/ OutcomePending(w)' THEN 1 ELSE 0)
  <2>0. /\ completed[w] \in Nat /\ lost[w] \in Nat /\ forgotten[w] \in Nat
        /\ completed[w] <= lost[w] + forgotten[w]
                       + (IF status[w] = "PROCESSED" \/ OutcomePending(w) THEN 1 ELSE 0)
    BY DEF TypeOK, OutcomesAccounted
  <2> USE DEF dbVars, history
  <2>1. ASSUME NEW u \in Updates, Webhook(u) PROVE Goal
    <3>1. UNCHANGED <<owner, upd, status, completed, lost, forgotten>>
      BY <2>1 DEF Webhook, EnqueueInTime, EnqueueLate, EnqueueFails
    <3>2. \A t \in Tasks : st[t] = "marking_processed" <=> st'[t] = "marking_processed"
      BY <2>1 DEF Webhook, EnqueueInTime, EnqueueLate, EnqueueFails, Publish, TypeOK
    <3> QED BY <2>0, <3>1, <3>2, OutcomePendingFrame
  <2>2. ASSUME NEW u \in Updates, DeleteProcessedBefore(u) PROVE Goal
    <3>1. CASE u = w
      <4>1. ~OutcomePending(w)
        BY <2>2, <3>1 DEF DeleteProcessedBefore, ActiveOwnsSlot, Active, ActiveSteps,
                         OutcomePending, TypeOK
      <4>2. completed'[w] = completed[w] /\ lost'[w] = lost[w] /\ forgotten'[w] = forgotten[w] + 1
        BY <2>2, <3>1 DEF DeleteProcessedBefore, TypeOK
      <4> QED BY <2>0, <4>1, <4>2
    <3>2. CASE u # w
      <4>1. OutcomePending(w)' <=> OutcomePending(w)
        BY <2>2, <3>2 DEF DeleteProcessedBefore, OutcomePending, TypeOK
      <4> QED BY <2>0, <2>2, <3>2, <4>1 DEF DeleteProcessedBefore, TypeOK
    <3> QED BY <3>1, <3>2
  <2>3. ASSUME NEW t \in Tasks, Acquire(t) PROVE Goal
    <3>1. st[t] # "marking_processed" /\ st'[t] # "marking_processed"
          /\ UNCHANGED <<upd, completed, lost, forgotten>>
          /\ \A s \in Tasks : s # t => st'[s] = st[s]
      BY <2>3 DEF Acquire, TryCreate, TryReclaimFailed, TryReclaimStale, TakeSlot, TypeOK
    <3>2. CASE TakeSlot(t, upd[t]) /\ upd[t] = w
      <4>1. ~OutcomePending(w) /\ status[w] # "PROCESSED"
        BY <2>3, <3>2 DEF Acquire, TryCreate, TryReclaimFailed, TryReclaimStale, TakeSlot,
             ActiveOwnsSlot, Active, ActiveSteps, OutcomePending, TypeOK
      <4> QED BY <2>0, <3>1, <4>1 DEF TypeOK
    <3>3. CASE TakeSlot(t, upd[t]) /\ upd[t] # w
      <4>1. OutcomePending(w)' <=> OutcomePending(w)
        BY <3>1, <3>3 DEF TakeSlot, OutcomePending, TypeOK
      <4> QED BY <2>0, <3>1, <3>3, <4>1 DEF TakeSlot, TypeOK
    <3>4. CASE ~TakeSlot(t, upd[t])
      <4>1. UNCHANGED <<owner, status>>
        BY <2>3, <3>4 DEF Acquire, TryCreate, TryReclaimFailed, TryReclaimStale
      <4> QED BY <2>0, <3>1, <4>1, OutcomePendingFrame
    <3> QED BY <3>2, <3>3, <3>4
  <2>4. ASSUME NEW t \in Tasks, FeedSucceeds(t) PROVE Goal
    <3>1. CASE upd[t] = w
      <4>1. ~OutcomePending(w) /\ status[w] # "PROCESSED" /\ owner[w] = t
        BY <2>4, <3>1 DEF FeedSucceeds, ActiveOwnsSlot, Active, ActiveSteps, OutcomePending
      <4>2. OutcomePending(w)'
        BY <2>4, <3>1, <4>1 DEF FeedSucceeds, OutcomePending, TypeOK
      <4>3. completed'[w] = completed[w] + 1 /\ UNCHANGED <<lost, forgotten>>
        BY <2>4, <3>1 DEF FeedSucceeds, TypeOK
      <4> QED BY <2>0, <4>1, <4>2, <4>3
    <3>2. CASE upd[t] # w
      <4>1. OutcomePending(w)' <=> OutcomePending(w)
        BY <2>4, <3>2 DEF FeedSucceeds, OutcomePending, TypeOK
      <4> QED BY <2>0, <2>4, <3>2, <4>1 DEF FeedSucceeds, TypeOK
    <3> QED BY <3>1, <3>2
  <2>5. ASSUME NEW t \in Tasks, FeedFails(t) \/ Resolve(t) \/ BuildFails(t) \/ RetryRefused(t) PROVE Goal
    <3>1. UNCHANGED <<owner, upd, status, completed, lost, forgotten>>
      BY <2>5 DEF FeedFails, Resolve, RetryTask, FailFinal, BuildFails, RetryRefused
    <3>2. \A s \in Tasks : st[s] = "marking_processed" <=> st'[s] = "marking_processed"
      BY <2>5 DEF FeedFails, Resolve, RetryTask, FailFinal, BuildFails, RetryRefused, TypeOK
    <3> QED BY <2>0, <3>1, <3>2, OutcomePendingFrame
  <2>6. ASSUME NEW t \in Tasks, Mark(t) PROVE Goal
    <3>1. UNCHANGED <<upd, completed, lost, forgotten>>
      BY <2>6 DEF Mark, MarkProcessed, MarkFailed
    <3>2. status[upd[t]] = "PROCESSING" /\ owner[upd[t]] = t
      BY <2>6 DEF Mark, MarkProcessed, MarkFailed, ActiveOwnsSlot, Active, ActiveSteps
    <3>3. CASE upd[t] = w
      <4>1. CASE MarkProcessed(t)
        BY <2>0, <3>1, <3>2, <3>3, <4>1 DEF MarkProcessed, SetStatus, TypeOK
      <4>2. CASE MarkFailed(t)
        <5>1. ~OutcomePending(w) /\ status[w] # "PROCESSED"
          BY <3>2, <3>3, <4>2 DEF MarkFailed, OutcomePending
        <5> QED BY <2>0, <3>1, <5>1
      <4> QED BY <2>6, <4>1, <4>2 DEF Mark
    <3>4. CASE upd[t] # w
      <4>1. status'[w] = status[w] /\ owner'[w] = owner[w]
            /\ \A s \in Tasks : s # t => st'[s] = st[s]
        BY <2>6, <3>4 DEF Mark, MarkProcessed, MarkFailed, SetStatus, TypeOK
      <4>2. OutcomePending(w)' <=> OutcomePending(w)
        BY <3>1, <3>4, <4>1 DEF OutcomePending
      <4> QED BY <2>0, <3>1, <4>1, <4>2
    <3> QED BY <3>3, <3>4
  <2>7. ASSUME NEW t \in Tasks, DatabaseFails(t) \/ WorkerDies(t) PROVE Goal
    <3>1. /\ UNCHANGED <<owner, upd, status, completed, forgotten>>
          /\ st'[t] # "marking_processed"
          /\ \A s \in Tasks : s # t => st'[s] = st[s]
      BY <2>7 DEF DatabaseFails, WorkerDies, TypeOK
    <3>2. CASE upd[t] = w /\ st[t] = "marking_processed"
      <4>1. lost'[w] = lost[w] + 1
        BY <2>7, <3>2 DEF DatabaseFails, WorkerDies, LoseOutcome, TypeOK
      <4> QED BY <2>0, <3>1, <4>1
    <3>3. CASE ~(upd[t] = w /\ st[t] = "marking_processed")
      <4>1. lost'[w] = lost[w]
        BY <2>7, <3>3 DEF DatabaseFails, WorkerDies, LoseOutcome, TypeOK
      <4>2. OutcomePending(w)' <=> OutcomePending(w)
        BY <3>1, <3>3 DEF OutcomePending
      <4> QED BY <2>0, <3>1, <4>1, <4>2
    <3> QED BY <3>2, <3>3
  <2>8. ASSUME NEW t \in Tasks, WorkerDiesAfterEffects(t) PROVE Goal
    <3>1. OutcomePending(w)' <=> OutcomePending(w)
      BY <2>8 DEF WorkerDiesAfterEffects, OutcomePending, TypeOK
    <3> QED BY <2>0, <2>8, <3>1 DEF WorkerDiesAfterEffects, TypeOK
  <2>9. CASE Tick \/ UNCHANGED vars
    <3>1. UNCHANGED <<owner, upd, st, status, completed, lost, forgotten>>
      BY <2>9 DEF Tick, vars
    <3> QED BY <2>0, <3>1, OutcomePendingFrame
  <2> QED
    BY <2>1, <2>2, <2>3, <2>4, <2>5, <2>6, <2>7, <2>8, <2>9 DEF Next, Work, Feed, Break
<1>3. TypeOK /\ OutcomesAccounted => AppliedOncePerLoss
  <2> SUFFICES ASSUME TypeOK, OutcomesAccounted, NEW w \in Updates
               PROVE completed[w] <= 1 + lost[w] + forgotten[w]
    BY DEF AppliedOncePerLoss
  <2>1. completed[w] \in Nat /\ lost[w] \in Nat /\ forgotten[w] \in Nat
    BY DEF TypeOK
  <2> QED BY <2>1 DEF OutcomesAccounted
<1> QED
  BY <1>1, <1>2, <1>3, TypeCorrect, SlotOwnedThm, PTL DEF Spec

-----------------------------------------------------------------------------
\* The update has a row, or had one before the retention job deleted it.
LeftARow(u) == status[u] # "NONE" \/ forgotten[u] > 0

\* An update Telegram no longer repeats was published at least once.
AckedIsPublished ==
  \A u \in Updates : tg[u] = "acked" => \E t \in Tasks : upd[t] = u /\ st[t] # "unused"

\* A task past its first statement ran into the row of its update.
PastCreateLeftARow ==
  \A t \in Tasks :
    st[t] \in ActiveSteps \cup {"reclaiming_failed", "reclaiming_stale"} => LeftARow(upd[t])

\* As long as an update never had a row, each retry of a task that carries it is
\* a failure of the task's first statement, and the last one is paid for too, unless
\* the broker did not take it.
RetriesPaid ==
  \A t \in Tasks :
    /\ st[t] = "unused" => retries[t] = 0
    /\ ~LeftARow(upd[t]) =>
         /\ st[t] = "queued" => retries[t] <= faults
         /\ st[t] = "raised" => retries[t] < faults
         /\ st[t] = "done" => MaxRetries < faults \/ refused[upd[t]] > 0

DropInv == AckedIsPublished /\ PastCreateLeftARow /\ RetriesPaid

\* An update Telegram no longer repeats is never lost without a trace while the
\* failures are no more than the retries and the broker takes every retry, whether or
\* not workers overrun.
THEOREM NoSilentDropThm == Spec => []NoSilentDrop
<1>1. Init => DropInv
  BY DEF Init, DropInv, AckedIsPublished, PastCreateLeftARow, RetriesPaid, ActiveSteps
<1>2. TypeOK /\ DropInv /\ [Next]_vars => DropInv'
  <2> SUFFICES ASSUME TypeOK, DropInv, [Next]_vars PROVE DropInv'
    OBVIOUS
  <2> USE DEF TypeOK, DropInv, AckedIsPublished, PastCreateLeftARow, RetriesPaid,
              LeftARow, ActiveSteps, dbVars, history
  <2>1. ASSUME NEW u \in Updates, Webhook(u) PROVE DropInv'
    <3>1. CASE EnqueueInTime(u) BY <3>1 DEF EnqueueInTime, Publish
    <3>2. CASE EnqueueLate(u) BY <3>2 DEF EnqueueLate, Publish
    <3>3. CASE EnqueueFails(u) BY <3>3 DEF EnqueueFails
    <3> QED BY <2>1, <3>1, <3>2, <3>3 DEF Webhook
  <2>2. ASSUME NEW u \in Updates, DeleteProcessedBefore(u) PROVE DropInv'
    BY <2>2 DEF DeleteProcessedBefore
  <2>3. ASSUME NEW t \in Tasks, Acquire(t) PROVE DropInv'
    <3>1. CASE TryCreate(t) BY <3>1 DEF TryCreate, TakeSlot
    <3>2. CASE TryReclaimFailed(t) BY <3>2 DEF TryReclaimFailed, TakeSlot
    <3>3. CASE TryReclaimStale(t) BY <3>3 DEF TryReclaimStale, TakeSlot
    <3> QED BY <2>3, <3>1, <3>2, <3>3 DEF Acquire
  <2>4. ASSUME NEW t \in Tasks, Feed(t) PROVE DropInv'
    BY <2>4 DEF Feed, FeedSucceeds, FeedFails
  <2>5. ASSUME NEW t \in Tasks, Mark(t) PROVE DropInv'
    <3>1. CASE MarkProcessed(t) BY <3>1 DEF MarkProcessed, SetStatus
    <3>2. CASE MarkFailed(t) BY <3>2 DEF MarkFailed, SetStatus
    <3> QED BY <2>5, <3>1, <3>2 DEF Mark
  <2>6. ASSUME NEW t \in Tasks, Resolve(t) PROVE DropInv'
    <3>1. CASE RetryTask(t) BY <3>1 DEF RetryTask
    <3>2. CASE FailFinal(t) BY <3>2 DEF FailFinal
    <3> QED BY <2>6, <3>1, <3>2 DEF Resolve
  <2>7. ASSUME NEW t \in Tasks, Break(t) PROVE DropInv'
    <3>1. CASE DatabaseFails(t) BY <3>1 DEF DatabaseFails, Fault
    <3>2. CASE WorkerDies(t)
      <4>1. ~LeftARow(upd[t]) => st[t] \in {"queued", "raised"}
        BY <3>2 DEF WorkerDies, RunningSteps
      <4> QED BY <3>2, <4>1 DEF WorkerDies, Fault
    <3>3. CASE WorkerDiesAfterEffects(t) BY <3>3 DEF WorkerDiesAfterEffects, Fault
    <3>4. CASE BuildFails(t) BY <3>4 DEF BuildFails, Fault
    <3>5. CASE RetryRefused(t) BY <3>5 DEF RetryRefused, Fault
    <3> QED BY <2>7, <3>1, <3>2, <3>3, <3>4, <3>5 DEF Break
  <2>8. CASE Tick \/ UNCHANGED vars
    BY <2>8 DEF Tick, vars
  <2> QED
    BY <2>1, <2>2, <2>3, <2>4, <2>5, <2>6, <2>7, <2>8 DEF Next, Work
<1>3. TypeOK /\ DropInv => NoSilentDrop
  <2> SUFFICES ASSUME TypeOK, DropInv, NEW u \in Updates, tg[u] = "acked",
                      status[u] = "NONE", ~(forgotten[u] > 0), ~(faults > MaxRetries), ~(refused[u] > 0)
               PROVE \E t \in Tasks : upd[t] = u /\ Live(t)
    BY DEF NoSilentDrop
  <2>1. PICK t \in Tasks : upd[t] = u /\ st[t] # "unused"
    BY DEF DropInv, AckedIsPublished
  <2>2. st[t] # "done"
    BY <2>1 DEF DropInv, RetriesPaid, LeftARow, TypeOK
  <2> QED BY <2>1, <2>2 DEF Live
<1> QED
  BY <1>1, <1>2, <1>3, TypeCorrect, PTL DEF Spec
=============================================================================
