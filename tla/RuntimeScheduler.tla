-------------------------- MODULE RuntimeScheduler --------------------------
(***************************************************************************)
(* aethon::runtime::RuntimeScheduler (src/runtime/scheduler.cpp).          *)
(* Tasks are enqueued, leased to workers under a per-device burst limit,   *)
(* and completed, rescheduled, cancelled or expired.  The number of        *)
(* leases running on a device is not recomputed from the task table: it is *)
(* kept in a counter map of its own (running_by_device_), updated on every *)
(* path that starts or ends a lease.                                       *)
(*                                                                         *)
(* Abstracted: the notes kept per task, the task's cost (never read), the  *)
(* last lease time (only rendered).  Calls pass the time as an argument;   *)
(* the model lets every call pass any time of Time, monotonic or not.      *)
(***************************************************************************)
EXTENDS Integers, FiniteSets

CONSTANTS
    Device,                 \* protocol::DeviceId
    Label,                  \* the task labels, NoLabel among them
    TaskInputs,             \* the SchedulerTask values callers enqueue; id 0 asks for a fresh id
    Time,                   \* the now_ns / retry_ready_time_ns values callers pass
    NoLabel,                \* the empty label
    MaxTasks,               \* SchedulerConfig::max_tasks
    PerDeviceBurst,         \* SchedulerConfig::per_device_burst
    FairnessWindow,         \* SchedulerConfig::fairness_window_ns
    RejectDuplicateLabels,  \* SchedulerConfig::reject_duplicate_labels
    MaxId,                  \* bound on the ids: the 64-bit counter never gets near its wrap
    MaxEnqueued,            \* bound on the number of accepted tasks between resets
    MaxRetries,             \* bound on the number of failed completions between resets
    MaxRejections           \* bound on the number of counted duplicate rejections

\* SchedulerTask; IngestPriority is low, normal, high, critical
Task == [id : Nat,
         device : Device,
         kind : {"ingest", "batch", "dispatch", "maintenance", "control"},
         label : Label,
         enqueue_time : Nat,
         ready_time : Nat,
         deadline : Nat,
         priority : 0..3]

ASSUME SchedulerAssumption ==
    /\ MaxTasks \in Nat /\ PerDeviceBurst \in Nat /\ FairnessWindow \in Nat
    /\ MaxId \in Nat /\ MaxEnqueued \in Nat /\ MaxRetries \in Nat /\ MaxRejections \in Nat
    /\ RejectDuplicateLabels \in BOOLEAN
    /\ NoLabel \in Label
    /\ Time \subseteq Nat
    /\ TaskInputs \subseteq Task

VARIABLES
    tasks,      \* tasks_ : id -> [task, state, attempts]
    running,    \* running_by_device_ : a device without an entry has 0
    stats,      \* stats_
    nextId,     \* next_id_
    lease       \* what lease_next returned, if it was the last call

vars == <<tasks, running, stats, nextId, lease>>

-----------------------------------------------------------------------------
TerminalStates == {"completed", "cancelled", "expired"}

IsTerminal(state) == state \in TerminalStates

NoLease == [id |-> 0, reason |-> "none", time |-> 0]

ZeroStats == [enqueued |-> 0, leased |-> 0, completed |-> 0, cancelled |-> 0,
              expired |-> 0, retried |-> 0, duplicate_rejections |-> 0]

RunningOn(d) == {i \in DOMAIN tasks : tasks[i].state = "running" /\ tasks[i].task.device = d}

Active == {i \in DOMAIN tasks : ~IsTerminal(tasks[i].state)}

SameWork(t, u) == t.device = u.device /\ t.kind = u.kind /\ t.label = u.label

\* mutant: finished tasks are the ones compared
DuplicateLabelTerminal(t) ==
    /\ t.label # NoLabel
    /\ \E i \in DOMAIN tasks \ Active : SameWork(tasks[i].task, t)

DuplicateLabel(t) ==
    /\ t.label # NoLabel
    /\ \E i \in Active : SameWork(tasks[i].task, t)

IdTaken(t) == t.id # 0 /\ t.id \in DOMAIN tasks

\* mutant: an explicit id that is in use overwrites the stored task
RejectedByLabelOnly(t) == RejectDuplicateLabels /\ DuplicateLabel(t)

Rejected(t) == (RejectDuplicateLabels /\ DuplicateLabel(t)) \/ IdTaken(t)

-----------------------------------------------------------------------------
(* Per-device accounting.                                                  *)

DeviceBurstAvailable(d) == running[d] = 0 \/ running[d] < PerDeviceBurst

Acquire(d) == [running EXCEPT ![d] = @ + 1]

\* mutant: the entry is erased however many leases the device still has
ReleaseAll(d) == [running EXCEPT ![d] = 0]

Release(d) == [running EXCEPT ![d] = IF @ <= 1 THEN 0 ELSE @ - 1]

-----------------------------------------------------------------------------
(* select(): one pass over the tasks in id order that keeps the best so    *)
(* far.  Beats is the comparison of the candidate with the kept one; it is *)
(* not transitive (a task without a deadline compares by priority with     *)
(* tasks that compare with each other by deadline), so the pass is         *)
(* modelled and not only its comparison.                                   *)

Due(t, now) == t.deadline # 0 /\ t.deadline <= now + FairnessWindow

Eligible(now) ==
    {i \in DOMAIN tasks : /\ tasks[i].state = "queued"
                          /\ tasks[i].task.ready_time <= now
                          /\ DeviceBurstAvailable(tasks[i].task.device)}

\* mutant: priority is compared before the deadlines
BeatsByPriority(i, j, now) ==
    LET lhs == tasks[i].task
        rhs == tasks[j].task
    IN  IF lhs.priority # rhs.priority THEN lhs.priority > rhs.priority
                                       ELSE lhs.deadline < rhs.deadline

Beats(i, j, now) ==
    LET lhs == tasks[i].task
        rhs == tasks[j].task
    IN  IF Due(lhs, now) # Due(rhs, now) THEN Due(lhs, now)
        ELSE IF lhs.deadline # 0 /\ rhs.deadline # 0 /\ lhs.deadline # rhs.deadline
             THEN lhs.deadline < rhs.deadline
        ELSE IF lhs.priority # rhs.priority THEN lhs.priority > rhs.priority
        ELSE IF tasks[i].attempts # tasks[j].attempts THEN tasks[i].attempts < tasks[j].attempts
        ELSE lhs.enqueue_time < rhs.enqueue_time

Select(now) ==
    LET eligible == Eligible(now)
        best[i \in 0..nextId] ==
            IF i = 0 THEN 0
            ELSE IF i \in eligible /\ (best[i - 1] = 0 \/ Beats(i, best[i - 1], now))
                 THEN i
                 ELSE best[i - 1]
    IN  best[nextId]

PickReason(r, now) ==
    IF Due(r.task, now)          THEN "deadline"
    ELSE IF r.task.priority >= 2 THEN "priority"
    ELSE IF r.attempts > 0       THEN "fairness"
    ELSE "ready"

-----------------------------------------------------------------------------
(* The operations.  A call that only returns false or throws leaves the    *)
(* state alone and is no step of its own.                                  *)

Put(id, r) == [i \in DOMAIN tasks \cup {id} |-> IF i = id THEN r ELSE tasks[i]]

SetState(id, state) == [tasks EXCEPT ![id].state = state]

RecordLease(r) == [task |-> r.task, state |-> "running", attempts |-> r.attempts + 1]

Requeued(r, at) == [task |-> [r.task EXCEPT !.ready_time = at], state |-> "queued",
                    attempts |-> r.attempts]

Count(field) == [stats EXCEPT ![field] = @ + 1]

\* mutant: explicit ids do not advance the counter
NextIdIgnoringExplicit(t) == IF t.id = 0 THEN nextId + 1 ELSE nextId

NextIdAfter(t) == IF t.id = 0 \/ t.id + 1 > nextId
                  THEN (IF t.id = 0 THEN nextId ELSE t.id) + 1
                  ELSE nextId

EnqueueAccepted(t) ==
    LET id == IF t.id = 0 THEN nextId ELSE t.id
    IN  /\ Cardinality(DOMAIN tasks) < MaxTasks
        /\ ~Rejected(t)
        /\ stats.enqueued < MaxEnqueued
        /\ id <= MaxId
        /\ tasks' = Put(id, [task |-> [t EXCEPT !.id = id], state |-> "queued", attempts |-> 0])
        /\ nextId' = NextIdAfter(t)
        /\ stats' = Count("enqueued")
        /\ lease' = NoLease
        /\ UNCHANGED running

EnqueueRejected(t) ==
    /\ Cardinality(DOMAIN tasks) < MaxTasks
    /\ Rejected(t)
    /\ stats.duplicate_rejections < MaxRejections
    /\ stats' = Count("duplicate_rejections")
    /\ lease' = NoLease
    /\ UNCHANGED <<tasks, running, nextId>>

\* lease_many(now, n) is n of these in a row
LeaseNext(now) ==
    \E id \in Eligible(now) :
        /\ id = Select(now)
        /\ lease' = [id |-> id, reason |-> PickReason(tasks[id], now), time |-> now]
        /\ tasks' = [tasks EXCEPT ![id] = RecordLease(@)]
        /\ running' = Acquire(tasks[id].task.device)
        /\ stats' = Count("leased")
        /\ UNCHANGED nextId

CompleteSuccess(id) ==
    /\ tasks[id].state = "running"
    /\ running' = Release(tasks[id].task.device)
    /\ tasks' = SetState(id, "completed")
    /\ stats' = Count("completed")
    /\ lease' = NoLease
    /\ UNCHANGED nextId

CompleteFailure(id, retryReady) ==
    /\ tasks[id].state = "running"
    /\ stats.retried < MaxRetries
    /\ running' = Release(tasks[id].task.device)
    /\ tasks' = [tasks EXCEPT ![id] = Requeued(@, retryReady)]
    /\ stats' = Count("retried")
    /\ lease' = NoLease
    /\ UNCHANGED nextId

\* mutant: cancelling a running task keeps its slot
CancelLeak(id) ==
    /\ ~IsTerminal(tasks[id].state)
    /\ tasks' = SetState(id, "cancelled")
    /\ stats' = Count("cancelled")
    /\ lease' = NoLease
    /\ UNCHANGED <<nextId, running>>

Cancel(id) ==
    /\ ~IsTerminal(tasks[id].state)
    /\ running' = IF tasks[id].state = "running" THEN Release(tasks[id].task.device) ELSE running
    /\ tasks' = SetState(id, "cancelled")
    /\ stats' = Count("cancelled")
    /\ lease' = NoLease
    /\ UNCHANGED nextId

Overdue(now) ==
    {i \in DOMAIN tasks : /\ tasks[i].state = "queued"
                          /\ tasks[i].task.deadline # 0
                          /\ now > tasks[i].task.deadline}

Expire(now) ==
    LET overdue == Overdue(now)
    IN  /\ overdue # {}
        /\ tasks' = [i \in DOMAIN tasks |->
                        [tasks[i] EXCEPT !.state = IF i \in overdue THEN "expired" ELSE @]]
        /\ stats' = [stats EXCEPT !.expired = @ + Cardinality(overdue)]
        /\ lease' = NoLease
        /\ UNCHANGED <<running, nextId>>

ClearCompleted ==
    /\ Active # DOMAIN tasks
    /\ tasks' = [i \in Active |-> tasks[i]]
    /\ lease' = NoLease
    /\ UNCHANGED <<running, stats, nextId>>

Reset ==
    /\ tasks' = << >>
    /\ running' = [d \in Device |-> 0]
    /\ stats' = ZeroStats
    /\ nextId' = 1
    /\ lease' = NoLease

-----------------------------------------------------------------------------
Init ==
    /\ tasks = << >>
    /\ running = [d \in Device |-> 0]
    /\ stats = ZeroStats
    /\ nextId = 1
    /\ lease = NoLease

Next ==
    \/ \E t \in TaskInputs : EnqueueAccepted(t)
    \/ \E t \in TaskInputs : EnqueueRejected(t)
    \/ \E now \in Time : LeaseNext(now)
    \/ \E id \in DOMAIN tasks : CompleteSuccess(id)
    \/ \E id \in DOMAIN tasks, at \in Time : CompleteFailure(id, at)
    \/ \E id \in DOMAIN tasks : Cancel(id)
    \/ \E now \in Time : Expire(now)
    \/ ClearCompleted
    \/ Reset

Spec == Init /\ [][Next]_vars

-----------------------------------------------------------------------------
(* Properties.                                                             *)

TaskStates == {"queued", "running"} \cup TerminalStates

\* The task table, the counter map and the statistics have their types; every
\* stored id is positive and below next_id_, so that a fresh id never lands on
\* a stored task.
TypeOK ==
    /\ DOMAIN tasks \subseteq 1..MaxId
    /\ tasks \in [DOMAIN tasks -> [task : Task, state : TaskStates, attempts : Nat]]
    /\ nextId \in Nat \ {0}
    /\ \A i \in DOMAIN tasks : i < nextId
    /\ running \in [Device -> Nat]
    /\ stats \in [DOMAIN ZeroStats -> Nat]

\* running_by_device_ always equals the number of tasks of the device that are
\* in state running, whatever mix of completions, failures, cancellations,
\* expiries, clear_completed and id reuse came before: a leaked count would
\* block the device for good, a lost one would break the burst limit.
RunningAccounting == \A d \in Device : running[d] = Cardinality(RunningOn(d))

\* select() never lets a device run more leases than per_device_burst; a burst
\* of 0 behaves as 1, since a device without an entry is always available.
BurstRespected ==
    \A d \in Device : Cardinality(RunningOn(d)) <= IF PerDeviceBurst = 0 THEN 1 ELSE PerDeviceBurst

\* The counter map implements slots held by tasks: read through the tasks in
\* state running, every step of the scheduler takes one free slot, gives one
\* back, gives all back (reset) or leaves the holders alone.
Slots == INSTANCE DeviceSlots WITH
            Id <- 1..MaxId,
            Slots <- IF PerDeviceBurst = 0 THEN 1 ELSE PerDeviceBurst,
            holders <- [d \in Device |-> RunningOn(d)]

ImplementsDeviceSlots == Slots!Spec

\* With reject_duplicate_labels no two unfinished tasks carry the same device,
\* kind and non-empty label, although a failed task comes back to the queue.
ActiveLabelsUnique ==
    RejectDuplicateLabels =>
        \A i, j \in Active :
            (i # j /\ tasks[i].task.label # NoLabel) => ~SameWork(tasks[i].task, tasks[j].task)

\* Every accepted task is either still unfinished in the table or was counted
\* in exactly one of completed, cancelled and expired, also after
\* clear_completed dropped it.
TaskConservation ==
    stats.enqueued = stats.completed + stats.cancelled + stats.expired + Cardinality(Active)

\* The tasks lease_next could have picked in a step, and the one it picked.
Leased == {i \in DOMAIN tasks : i = lease'.id}

EarliestDueFirst(i, now) ==
    \A j \in Eligible(now) :
        Due(tasks[j].task, now) =>
            lease'.reason = "deadline" /\ tasks[i].task.deadline <= tasks[j].task.deadline

UndatedOrder(i, now) ==
    (\A k \in Eligible(now) : tasks[k].task.deadline = 0) =>
        \A j \in Eligible(now) \ {i} :
            LET a == tasks[i]
                b == tasks[j]
            IN  \/ a.task.priority > b.task.priority
                \/ /\ a.task.priority = b.task.priority
                   /\ \/ a.attempts < b.attempts
                      \/ /\ a.attempts = b.attempts
                         /\ \/ a.task.enqueue_time < b.task.enqueue_time
                            \/ a.task.enqueue_time = b.task.enqueue_time /\ i < j

UnbeatenByLater(i, now) == \A j \in Eligible(now) : j > i => ~Beats(j, i, now)

\* lease_next never leases a task before its ready time.  It prefers a task
\* whose deadline is within the fairness window to one whose is not, and among
\* those takes the earliest deadline; when no candidate has a deadline it picks
\* by priority, then by the fewest attempts, the earliest enqueue time and the
\* lowest id.  When dated and undated tasks are mixed and none is due soon, the
\* comparison behind the pass is not transitive: a task with a lower id may then
\* beat the pick, one with a higher id never does.
PickOrder ==
    [][\A i \in Leased :
          LET now == lease'.time
          IN  /\ tasks[i].task.ready_time <= now
              /\ EarliestDueFirst(i, now)
              /\ UndatedOrder(i, now)
              /\ UnbeatenByLater(i, now)]_vars

\* A finished task stays as it is until clear_completed or reset drops it: a
\* late completion, cancellation or expiry cannot revive it, and an enqueue
\* with its id cannot replace it.
FinishedIsFinal ==
    [][\A i \in DOMAIN tasks \cap DOMAIN tasks' :
          IsTerminal(tasks[i].state) => tasks'[i] = tasks[i]]_vars

\* The table holds every accepted task that is not finished, and no unfinished
\* work twice, through retries, expiry, cleaning and reset.
TasksAccounted == TaskConservation /\ ActiveLabelsUnique
=============================================================================
