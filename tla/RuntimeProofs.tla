---------------------------- MODULE RuntimeProofs ----------------------------
(***************************************************************************)
(* Proofs about the two parts of src/runtime, RuntimeScheduler and         *)
(* EventDispatch, each for every value of its constants.                   *)
(* The scheduler: every step changes the set of running tasks in one of    *)
(* four ways (StepKind): it starts one task, ends one, ends all, or leaves *)
(* the set alone, and the counter map moves with it.  The accounting, the  *)
(* burst limit and the refinement of DeviceSlots follow from that and from *)
(* the type invariant.  The order of the leases is proved along the pass   *)
(* of select(): after each id it keeps the best of the eligible tasks so   *)
(* far.                                                                    *)
(* The dispatcher, last: what `calls` says of the copies under way makes   *)
(* the delivery inductive; the pipeline and the window are folds, which    *)
(* are shown to be what their exact descriptions say position by position. *)
(* A record of the registry is followed through the calls on its device.   *)
(***************************************************************************)
EXTENDS RuntimeScheduler, EventDispatch, SumTheorems, SequenceTheorems

TaskRecord == [task : Task, state : TaskStates, attempts : Nat]

-----------------------------------------------------------------------------
(* Type correctness.                                                       *)

\* The empty scheduler has the types of TypeOK.
LEMMA InitType == Init => TypeOK
BY SchedulerAssumption DEF Init, TypeOK, ZeroStats

\* Counting one event keeps the statistics naturals.
LEMMA CountType ==
    ASSUME TypeOK, NEW f \in DOMAIN ZeroStats
    PROVE  Count(f) \in [DOMAIN ZeroStats -> Nat]
BY DEF Count, TypeOK, ZeroStats

\* The table is finite, so every set of stored ids has a size.
LEMMA TasksFinite ==
    ASSUME TypeOK, NEW S, S \subseteq DOMAIN tasks
    PROVE  IsFiniteSet(S) /\ Cardinality(S) \in Nat
<1>1. IsFiniteSet(1..MaxId)
    BY FS_Interval, SchedulerAssumption
<1>2. S \subseteq 1..MaxId
    BY DEF TypeOK
<1>3. IsFiniteSet(S)
    BY <1>1, <1>2, FS_Subset
<1> QED
    BY <1>3, FS_CardinalityType

\* Acquiring and releasing a slot keeps the counter map.
LEMMA CounterType ==
    ASSUME TypeOK, NEW d \in Device
    PROVE  Acquire(d) \in [Device -> Nat] /\ Release(d) \in [Device -> Nat]
BY DEF TypeOK, Acquire, Release

\* A step of any operation of the scheduler keeps the types.
LEMMA NextType == TypeOK /\ [Next]_vars => TypeOK'
<1> SUFFICES ASSUME TypeOK, [Next]_vars PROVE TypeOK'
    OBVIOUS
<1> USE SchedulerAssumption
<1>0. \A i \in DOMAIN tasks : tasks[i] \in TaskRecord /\ i \in Nat
    BY DEF TypeOK, TaskRecord
<1>1. ASSUME NEW t \in TaskInputs, EnqueueAccepted(t) PROVE TypeOK'
    <2> DEFINE id == IF t.id = 0 THEN nextId ELSE t.id
               r == [task |-> [t EXCEPT !.id = id], state |-> "queued", attempts |-> 0]
    <2>1. t \in Task
        OBVIOUS
    <2>2. id \in Nat /\ r \in TaskRecord
        BY <2>1 DEF TypeOK, Task, TaskRecord, TaskStates
    <2>3. tasks' = Put(id, r) /\ nextId' = NextIdAfter(t) /\ id <= MaxId
        BY <1>1 DEF EnqueueAccepted
    <2>4. DOMAIN tasks' = DOMAIN tasks \cup {id}
        BY <2>3 DEF Put
    <2>5. tasks' \in [DOMAIN tasks' -> TaskRecord]
        BY <2>2, <2>3, <2>4, <1>0 DEF Put
    <2>6. nextId' \in Nat /\ id < nextId' /\ nextId <= nextId'
        BY <2>1, <2>3 DEF NextIdAfter, Task, TypeOK
    <2>7. id \in 1..MaxId
        BY <2>2, <2>3 DEF TypeOK
    <2>8. stats' \in [DOMAIN ZeroStats -> Nat] /\ running' = running
        BY <1>1, CountType DEF EnqueueAccepted, ZeroStats
    <2>9. \A i \in DOMAIN tasks' : i < nextId'
        BY <1>0, <2>4, <2>6 DEF TypeOK
    <2> QED
        BY <2>4, <2>5, <2>6, <2>7, <2>8, <2>9 DEF TypeOK, TaskRecord
<1>2. ASSUME NEW t \in TaskInputs, EnqueueRejected(t) PROVE TypeOK'
    BY <1>2, CountType DEF EnqueueRejected, TypeOK, ZeroStats
<1>3. ASSUME NEW now \in Time, LeaseNext(now) PROVE TypeOK'
    <2>1. PICK id \in Eligible(now) :
                /\ tasks' = [tasks EXCEPT ![id] = RecordLease(@)]
                /\ running' = Acquire(tasks[id].task.device)
                /\ stats' = Count("leased")
                /\ nextId' = nextId
        BY <1>3 DEF LeaseNext
    <2>2. id \in DOMAIN tasks /\ tasks[id] \in TaskRecord
        BY <1>0 DEF Eligible
    <2>3. RecordLease(tasks[id]) \in TaskRecord
        BY <2>2 DEF RecordLease, TaskRecord, TaskStates
    <2>4. /\ DOMAIN tasks' = DOMAIN tasks
          /\ tasks' \in [DOMAIN tasks' -> TaskRecord]
        BY <2>1, <2>2, <2>3, <1>0
    <2>5. running' \in [Device -> Nat]
        BY <2>1, <2>2, CounterType DEF TaskRecord, Task
    <2>6. stats' \in [DOMAIN ZeroStats -> Nat]
        BY <2>1, CountType DEF ZeroStats
    <2> QED
        BY <2>1, <2>4, <2>5, <2>6 DEF TypeOK, TaskRecord
<1>4. ASSUME NEW id \in DOMAIN tasks, CompleteSuccess(id) PROVE TypeOK'
    <2>1. tasks[id] \in TaskRecord
        BY <1>0
    <2>2. /\ DOMAIN tasks' = DOMAIN tasks
          /\ tasks' \in [DOMAIN tasks' -> TaskRecord]
        BY <1>4, <2>1, <1>0 DEF CompleteSuccess, SetState, TaskRecord, TaskStates, TerminalStates
    <2>3. running' \in [Device -> Nat]
        BY <1>4, <2>1, CounterType DEF CompleteSuccess, TaskRecord, Task
    <2>4. stats' \in [DOMAIN ZeroStats -> Nat] /\ nextId' = nextId
        BY <1>4, CountType DEF CompleteSuccess, ZeroStats
    <2> QED
        BY <2>2, <2>3, <2>4 DEF TypeOK, TaskRecord
<1>5. ASSUME NEW id \in DOMAIN tasks, NEW at \in Time, CompleteFailure(id, at) PROVE TypeOK'
    <2>1. tasks[id] \in TaskRecord /\ at \in Nat
        BY <1>0
    <2>2. Requeued(tasks[id], at) \in TaskRecord
        BY <2>1 DEF Requeued, TaskRecord, TaskStates, Task
    <2>3. /\ DOMAIN tasks' = DOMAIN tasks
          /\ tasks' \in [DOMAIN tasks' -> TaskRecord]
        BY <1>5, <2>2, <1>0 DEF CompleteFailure
    <2>4. running' \in [Device -> Nat]
        BY <1>5, <2>1, CounterType DEF CompleteFailure, TaskRecord, Task
    <2>5. stats' \in [DOMAIN ZeroStats -> Nat] /\ nextId' = nextId
        BY <1>5, CountType DEF CompleteFailure, ZeroStats
    <2> QED
        BY <2>3, <2>4, <2>5 DEF TypeOK, TaskRecord
<1>6. ASSUME NEW id \in DOMAIN tasks, Cancel(id) PROVE TypeOK'
    <2>1. tasks[id] \in TaskRecord
        BY <1>0
    <2>2. /\ DOMAIN tasks' = DOMAIN tasks
          /\ tasks' \in [DOMAIN tasks' -> TaskRecord]
        BY <1>6, <2>1, <1>0 DEF Cancel, SetState, TaskRecord, TaskStates, TerminalStates
    <2>3. running' \in [Device -> Nat]
        BY <1>6, <2>1, CounterType DEF Cancel, TaskRecord, Task, TypeOK
    <2>4. stats' \in [DOMAIN ZeroStats -> Nat] /\ nextId' = nextId
        BY <1>6, CountType DEF Cancel, ZeroStats
    <2> QED
        BY <2>2, <2>3, <2>4 DEF TypeOK, TaskRecord
<1>7. ASSUME NEW now \in Time, Expire(now) PROVE TypeOK'
    <2>1. /\ DOMAIN tasks' = DOMAIN tasks
          /\ tasks' \in [DOMAIN tasks' -> TaskRecord]
        BY <1>7, <1>0 DEF Expire, TaskRecord, TaskStates, TerminalStates
    <2>2. Cardinality(Overdue(now)) \in Nat
        BY TasksFinite DEF Overdue
    <2>3. stats' \in [DOMAIN ZeroStats -> Nat] /\ nextId' = nextId /\ running' = running
        BY <1>7, <2>2 DEF Expire, ZeroStats, TypeOK
    <2> QED
        BY <2>1, <2>3 DEF TypeOK, TaskRecord
<1>8. ASSUME ClearCompleted PROVE TypeOK'
    <2>1. /\ DOMAIN tasks' = Active
          /\ tasks' \in [DOMAIN tasks' -> TaskRecord]
        BY <1>8, <1>0 DEF ClearCompleted, Active
    <2> QED
        BY <1>8, <2>1 DEF ClearCompleted, TypeOK, TaskRecord, Active
<1>9. ASSUME Reset PROVE TypeOK'
    BY <1>9 DEF Reset, TypeOK, ZeroStats
<1>10. ASSUME UNCHANGED vars PROVE TypeOK'
    BY <1>10 DEF vars, TypeOK
<1> QED
    BY <1>1, <1>2, <1>3, <1>4, <1>5, <1>6, <1>7, <1>8, <1>9, <1>10 DEF Next

\* The task table, the counter map and the statistics keep their types and
\* every stored id stays below next_id_, so that a fresh id never overwrites a
\* stored task.
THEOREM TypeCorrect == Spec => []TypeOK
BY InitType, NextType, PTL DEF Spec

-----------------------------------------------------------------------------
(* How a step changes the set of running tasks.                            *)

Starts(id) ==
    /\ tasks[id].state = "queued"
    /\ DeviceBurstAvailable(tasks[id].task.device)
    /\ \A d \in Device : RunningOn(d)' = IF d = tasks[id].task.device
                                         THEN RunningOn(d) \cup {id}
                                         ELSE RunningOn(d)
    /\ running' = Acquire(tasks[id].task.device)

Ends(id) ==
    /\ tasks[id].state = "running"
    /\ \A d \in Device : RunningOn(d)' = IF d = tasks[id].task.device
                                         THEN RunningOn(d) \ {id}
                                         ELSE RunningOn(d)
    /\ running' = Release(tasks[id].task.device)

EndsAll == (\A d \in Device : RunningOn(d)' = {}) /\ running' = [d \in Device |-> 0]

Keeps == (\A d \in Device : RunningOn(d)' = RunningOn(d)) /\ running' = running

StepKind ==
    \/ \E id \in DOMAIN tasks : Starts(id) \/ Ends(id)
    \/ EndsAll
    \/ Keeps

\* Replacing the record of one stored task moves only that task in or out of
\* the running set of its device.
LEMMA ReplaceOne ==
    ASSUME TypeOK, NEW id \in DOMAIN tasks, NEW r \in TaskRecord,
           r.task.device = tasks[id].task.device,
           tasks' = [tasks EXCEPT ![id] = r]
    PROVE  \A d \in Device :
              RunningOn(d)' = IF d # tasks[id].task.device THEN RunningOn(d)
                              ELSE IF r.state = "running" THEN RunningOn(d) \cup {id}
                              ELSE RunningOn(d) \ {id}
<1>1. DOMAIN tasks' = DOMAIN tasks
    OBVIOUS
<1>2. \A i \in DOMAIN tasks : tasks'[i] = IF i = id THEN r ELSE tasks[i]
    OBVIOUS
<1> QED
    BY <1>1, <1>2 DEF RunningOn

\* Every operation starts one task, ends one, ends all or keeps the running set,
\* and moves the counter map accordingly.
LEMMA StepKinds == TypeOK /\ [Next]_vars => StepKind
<1> SUFFICES ASSUME TypeOK, [Next]_vars PROVE StepKind
    OBVIOUS
<1> USE SchedulerAssumption
<1>0. \A i \in DOMAIN tasks : tasks[i] \in TaskRecord /\ i \in Nat
    BY DEF TypeOK, TaskRecord
<1>1. ASSUME NEW t \in TaskInputs, EnqueueAccepted(t) PROVE Keeps
    <2> DEFINE id == IF t.id = 0 THEN nextId ELSE t.id
    <2>1. id \notin DOMAIN tasks
        BY <1>1 DEF EnqueueAccepted, Rejected, IdTaken, TypeOK
    <2>2. /\ DOMAIN tasks' = DOMAIN tasks \cup {id}
          /\ \A i \in DOMAIN tasks : tasks'[i] = tasks[i]
          /\ tasks'[id].state = "queued"
        BY <1>1, <2>1 DEF EnqueueAccepted, Put
    <2>3. running' = running
        BY <1>1 DEF EnqueueAccepted
    <2> HIDE DEF id
    <2> QED
        BY <2>1, <2>2, <2>3 DEF Keeps, RunningOn
<1>2. ASSUME NEW t \in TaskInputs, EnqueueRejected(t) PROVE Keeps
    BY <1>2 DEF EnqueueRejected, Keeps, RunningOn
<1>3. ASSUME NEW now \in Time, LeaseNext(now) PROVE \E id \in DOMAIN tasks : Starts(id)
    <2>1. PICK id \in Eligible(now) :
                /\ tasks' = [tasks EXCEPT ![id] = RecordLease(@)]
                /\ running' = Acquire(tasks[id].task.device)
        BY <1>3 DEF LeaseNext
    <2>2. /\ id \in DOMAIN tasks
          /\ tasks[id].state = "queued"
          /\ DeviceBurstAvailable(tasks[id].task.device)
        BY DEF Eligible
    <2> DEFINE r == RecordLease(tasks[id])
    <2>3. r \in TaskRecord /\ r.task.device = tasks[id].task.device /\ r.state = "running"
        BY <1>0, <2>2 DEF RecordLease, TaskRecord, TaskStates
    <2>4. tasks' = [tasks EXCEPT ![id] = r]
        BY <2>1
    <2> HIDE DEF r
    <2>5. Starts(id)
        BY ZenonT(20), <2>1, <2>2, <2>3, <2>4, ReplaceOne DEF Starts
    <2> QED
        BY <2>2, <2>5
<1>4. ASSUME NEW id \in DOMAIN tasks, CompleteSuccess(id) PROVE Ends(id)
    <2> DEFINE r == [tasks[id] EXCEPT !.state = "completed"]
    <2>1. r \in TaskRecord /\ r.task.device = tasks[id].task.device /\ r.state = "completed"
        BY <1>0 DEF TaskRecord, TaskStates, TerminalStates
    <2>2. tasks' = [tasks EXCEPT ![id] = r]
        BY <1>4 DEF CompleteSuccess, SetState
    <2> HIDE DEF r
    <2> QED
        BY <1>4, <2>1, <2>2, ReplaceOne DEF CompleteSuccess, Ends
<1>5. ASSUME NEW id \in DOMAIN tasks, NEW at \in Time, CompleteFailure(id, at) PROVE Ends(id)
    <2> DEFINE r == Requeued(tasks[id], at)
    <2>1. r \in TaskRecord /\ r.task.device = tasks[id].task.device /\ r.state = "queued"
        BY <1>0 DEF Requeued, TaskRecord, TaskStates, Task
    <2>2. tasks' = [tasks EXCEPT ![id] = r]
        BY <1>5 DEF CompleteFailure
    <2> HIDE DEF r
    <2> QED
        BY <1>5, <2>1, <2>2, ReplaceOne DEF CompleteFailure, Ends
<1>6. ASSUME NEW id \in DOMAIN tasks, Cancel(id) PROVE Ends(id) \/ Keeps
    <2> DEFINE r == [tasks[id] EXCEPT !.state = "cancelled"]
    <2>1. r \in TaskRecord /\ r.task.device = tasks[id].task.device /\ r.state = "cancelled"
        BY <1>0 DEF TaskRecord, TaskStates, TerminalStates
    <2>2. tasks' = [tasks EXCEPT ![id] = r]
        BY <1>6 DEF Cancel, SetState
    <2> HIDE DEF r
    <2>3. CASE tasks[id].state = "running"
        BY <1>6, <2>1, <2>2, <2>3, ReplaceOne DEF Cancel, Ends
    <2>4. CASE tasks[id].state # "running"
        <3>1. id \notin RunningOn(tasks[id].task.device) /\ running' = running
            BY <1>6, <2>4 DEF RunningOn, Cancel
        <3>2. \A i \in DOMAIN tasks : tasks'[i] = IF i = id THEN r ELSE tasks[i]
            BY <2>2
        <3>3. DOMAIN tasks' = DOMAIN tasks
            BY <2>2
        <3> QED
            BY <2>1, <2>4, <3>1, <3>2, <3>3 DEF Keeps, RunningOn
    <2> QED
        BY <2>3, <2>4
<1>7. ASSUME NEW now \in Time, Expire(now) PROVE Keeps
    <2>1. /\ DOMAIN tasks' = DOMAIN tasks
          /\ running' = running
          /\ \A i \in DOMAIN tasks :
                /\ tasks'[i].task = tasks[i].task
                /\ tasks'[i].state = IF i \in Overdue(now) THEN "expired" ELSE tasks[i].state
        BY <1>7, <1>0 DEF Expire, TaskRecord
    <2>2. \A i \in Overdue(now) : tasks[i].state # "running"
        BY DEF Overdue
    <2> QED
        BY <2>1, <2>2 DEF Keeps, RunningOn
<1>8. ASSUME ClearCompleted PROVE Keeps
    BY <1>8 DEF ClearCompleted, Active, IsTerminal, TerminalStates, Keeps, RunningOn
<1>9. ASSUME Reset PROVE EndsAll
    BY <1>9 DEF Reset, EndsAll, RunningOn
<1>10. ASSUME UNCHANGED vars PROVE Keeps
    BY <1>10 DEF vars, Keeps, RunningOn
<1> QED
    BY <1>1, <1>2, <1>3, <1>4, <1>5, <1>6, <1>7, <1>8, <1>9, <1>10 DEF Next, StepKind

-----------------------------------------------------------------------------
(* The accounting and the burst limit.                                     *)

Limit == IF PerDeviceBurst = 0 THEN 1 ELSE PerDeviceBurst

IInv == TypeOK /\ RunningAccounting /\ BurstRespected

\* An empty scheduler runs nothing.
LEMMA InitIInv == Init => IInv
<1> SUFFICES ASSUME Init PROVE IInv
    OBVIOUS
<1>1. \A d \in Device : RunningOn(d) = {} /\ running[d] = 0
    BY DEF Init, RunningOn
<1>2. Cardinality({}) = 0
    BY FS_EmptySet
<1> QED
    BY <1>1, <1>2, InitType, SchedulerAssumption DEF IInv, RunningAccounting, BurstRespected

\* A step that starts, ends or keeps keeps the counters exact and the limit.
LEMMA NextIInv == IInv /\ [Next]_vars => IInv'
<1> SUFFICES ASSUME IInv, [Next]_vars PROVE IInv'
    OBVIOUS
<1> USE SchedulerAssumption
<1>1. TypeOK /\ TypeOK'
    BY NextType DEF IInv
<1>2. \A d \in Device : /\ IsFiniteSet(RunningOn(d))
                        /\ Cardinality(RunningOn(d)) \in Nat
                        /\ running[d] = Cardinality(RunningOn(d))
                        /\ Cardinality(RunningOn(d)) <= Limit
    <2>1. \A d \in Device : RunningOn(d) \subseteq DOMAIN tasks
        BY DEF RunningOn
    <2> QED
        BY <1>1, <2>1, TasksFinite DEF IInv, RunningAccounting, BurstRespected, Limit
<1>3. \A id \in DOMAIN tasks : tasks[id].task.device \in Device
    BY <1>1 DEF TypeOK, Task
<1>4. SUFFICES \A d \in Device : /\ running'[d] = Cardinality(RunningOn(d)')
                                 /\ Cardinality(RunningOn(d)') <= Limit
    BY <1>1, <1>4 DEF IInv, RunningAccounting, BurstRespected, Limit
<1>5. ASSUME NEW id \in DOMAIN tasks, Starts(id), NEW d \in Device
      PROVE  running'[d] = Cardinality(RunningOn(d)') /\ Cardinality(RunningOn(d)') <= Limit
    <2> DEFINE e == tasks[id].task.device
    <2>1. id \notin RunningOn(e)
        BY <1>5 DEF Starts, RunningOn
    <2>2. CASE d = e
        <3>1. Cardinality(RunningOn(d) \cup {id}) = Cardinality(RunningOn(d)) + 1
            BY <1>2, <2>1, <2>2, FS_AddElement
        <3>2. RunningOn(d)' = RunningOn(d) \cup {id} /\ running' = Acquire(d)
            BY <1>5, <2>2 DEF Starts
        <3>3. running'[d] = running[d] + 1
            BY <1>1, <3>2 DEF Acquire, TypeOK
        <3>4. running[d] = 0 \/ running[d] < PerDeviceBurst
            BY <1>5, <2>2 DEF Starts, DeviceBurstAvailable
        <3> QED
            BY <1>2, <3>1, <3>2, <3>3, <3>4 DEF Limit
    <2>3. CASE d # e
        <3>1. RunningOn(d)' = RunningOn(d) /\ running' = Acquire(e)
            BY <1>5, <2>3 DEF Starts
        <3>2. running'[d] = running[d]
            BY <1>1, <2>3, <3>1 DEF Acquire, TypeOK
        <3> QED
            BY <1>2, <3>1, <3>2
    <2> QED
        BY <2>2, <2>3
<1>6. ASSUME NEW id \in DOMAIN tasks, Ends(id), NEW d \in Device
      PROVE  running'[d] = Cardinality(RunningOn(d)') /\ Cardinality(RunningOn(d)') <= Limit
    <2> DEFINE e == tasks[id].task.device
    <2>1. id \in RunningOn(e)
        BY <1>6 DEF Ends, RunningOn
    <2>2. CASE d = e
        <3>1. Cardinality(RunningOn(d) \ {id}) = Cardinality(RunningOn(d)) - 1
            BY <1>2, <2>1, <2>2, FS_RemoveElement
        <3>2. RunningOn(d)' = RunningOn(d) \ {id} /\ running' = Release(d)
            BY <1>6, <2>2 DEF Ends
        <3>3. running'[d] = IF running[d] <= 1 THEN 0 ELSE running[d] - 1
            BY <1>1, <3>2 DEF Release, TypeOK
        <3>4. Cardinality(RunningOn(d)) # 0
            BY <1>2, <2>1, <2>2, FS_EmptySet
        <3> QED
            BY <1>2, <3>1, <3>2, <3>3, <3>4 DEF Limit
    <2>3. CASE d # e
        <3>1. RunningOn(d)' = RunningOn(d) /\ running' = Release(e)
            BY <1>6, <2>3 DEF Ends
        <3>2. running'[d] = running[d]
            BY <1>1, <2>3, <3>1 DEF Release, TypeOK
        <3> QED
            BY <1>2, <3>1, <3>2
    <2> QED
        BY <2>2, <2>3
<1>7. ASSUME EndsAll, NEW d \in Device
      PROVE  running'[d] = Cardinality(RunningOn(d)') /\ Cardinality(RunningOn(d)') <= Limit
    BY <1>7, FS_EmptySet DEF EndsAll, Limit
<1>8. ASSUME Keeps, NEW d \in Device
      PROVE  running'[d] = Cardinality(RunningOn(d)') /\ Cardinality(RunningOn(d)') <= Limit
    BY <1>8, <1>2 DEF Keeps
<1> QED
    BY <1>1, <1>5, <1>6, <1>7, <1>8, StepKinds DEF StepKind

\* running_by_device_ equals the number of running tasks of each device in every
\* reachable state: no path of complete, cancel, expire, clear_completed or
\* reset leaks or loses a slot.
THEOREM AccountingExact == Spec => []RunningAccounting
<1>1. IInv => RunningAccounting
    BY DEF IInv
<1> QED
    BY InitIInv, NextIInv, <1>1, PTL DEF Spec

\* No device ever runs more tasks than per_device_burst (one, if it is 0).
THEOREM BurstLimit == Spec => []BurstRespected
<1>1. IInv => BurstRespected
    BY DEF IInv
<1> QED
    BY InitIInv, NextIInv, <1>1, PTL DEF Spec

-----------------------------------------------------------------------------
(* Refinement of DeviceSlots.                                              *)

\* The scheduler with its counters implements slots held by tasks.
THEOREM SlotsRefinement == Spec => ImplementsDeviceSlots
<1> DEFINE h == [d \in Device |-> RunningOn(d)]
<1> USE SchedulerAssumption
<1>1. Init => Slots!Init
    BY DEF Init, Slots!Init, RunningOn
<1>2. IInv /\ [Next]_vars => [Slots!Next]_h
    <2> SUFFICES ASSUME IInv, [Next]_vars PROVE Slots!Next \/ h' = h
        OBVIOUS
    <2>0. TypeOK
        BY DEF IInv
    <2>1. \A id \in DOMAIN tasks : tasks[id].task.device \in Device /\ id \in 1..MaxId
        BY <2>0 DEF TypeOK, Task
    <2>2. ASSUME NEW id \in DOMAIN tasks, Starts(id) PROVE Slots!Take(tasks[id].task.device, id)
        <3> DEFINE e == tasks[id].task.device
        <3>1. \A d \in Device : id \notin h[d]
            BY <2>2 DEF Starts, RunningOn
        <3>2. Cardinality(h[e]) < Limit
            <4>1. running[e] = Cardinality(h[e]) /\ running[e] \in Nat
                BY <2>0, <2>1 DEF IInv, RunningAccounting, TypeOK
            <4>2. running[e] = 0 \/ running[e] < PerDeviceBurst
                BY <2>2 DEF Starts, DeviceBurstAvailable
            <4> QED
                BY <4>1, <4>2 DEF Limit
        <3>3. h' = [h EXCEPT ![e] = @ \cup {id}]
            BY <2>1, <2>2 DEF Starts
        <3>4. Slots!Cardinality(h[e]) = Cardinality(h[e])
            BY Zenon DEF Cardinality, Slots!Cardinality
        <3> QED
            BY <3>1, <3>2, <3>3, <3>4 DEF Slots!Take, Limit
    <2>3. ASSUME NEW id \in DOMAIN tasks, Ends(id) PROVE Slots!Give(tasks[id].task.device, id)
        <3> DEFINE e == tasks[id].task.device
        <3>1. id \in h[e]
            BY <2>1, <2>3 DEF Ends, RunningOn
        <3>2. h' = [h EXCEPT ![e] = @ \ {id}]
            BY <2>1, <2>3 DEF Ends
        <3> QED
            BY <3>1, <3>2 DEF Slots!Give
    <2>4. ASSUME EndsAll PROVE Slots!GiveAll
        BY <2>4 DEF EndsAll, Slots!GiveAll
    <2>5. ASSUME Keeps PROVE h' = h
        BY <2>5 DEF Keeps
    <2> QED
        BY <2>0, <2>1, <2>2, <2>3, <2>4, <2>5, StepKinds DEF StepKind, Slots!Next
<1> QED
    BY <1>1, <1>2, InitIInv, NextIInv, PTL DEF Spec, ImplementsDeviceSlots, Slots!Spec

-----------------------------------------------------------------------------
\* A finished task stays what it is until it is dropped: no operation changes
\* the record of a task in a terminal state.
THEOREM FinishedTasksFinal == Spec => FinishedIsFinal
<1> DEFINE Final == \A i \in DOMAIN tasks \cap DOMAIN tasks' :
                        IsTerminal(tasks[i].state) => tasks'[i] = tasks[i]
<1>1. TypeOK /\ [Next]_vars => [Final]_vars
    <2> SUFFICES ASSUME TypeOK, Next PROVE Final
        OBVIOUS
    <2> USE SchedulerAssumption DEF IsTerminal, TerminalStates
    <2>0. \A i \in DOMAIN tasks : tasks[i] \in TaskRecord /\ i \in Nat
        BY DEF TypeOK, TaskRecord
    <2>1. ASSUME NEW t \in TaskInputs, EnqueueAccepted(t) PROVE Final
        <3> DEFINE id == IF t.id = 0 THEN nextId ELSE t.id
        <3>1. id \notin DOMAIN tasks
            BY <2>1 DEF EnqueueAccepted, Rejected, IdTaken, TypeOK
        <3> QED
            BY <2>1, <3>1 DEF EnqueueAccepted, Put
    <2>2. ASSUME NEW t \in TaskInputs, EnqueueRejected(t) PROVE Final
        BY <2>2 DEF EnqueueRejected
    <2>3. ASSUME NEW now \in Time, LeaseNext(now) PROVE Final
        BY <2>3 DEF LeaseNext, Eligible
    <2>4. ASSUME NEW id \in DOMAIN tasks, CompleteSuccess(id) PROVE Final
        BY <2>4 DEF CompleteSuccess, SetState
    <2>5. ASSUME NEW id \in DOMAIN tasks, NEW at \in Time, CompleteFailure(id, at) PROVE Final
        BY <2>5 DEF CompleteFailure
    <2>6. ASSUME NEW id \in DOMAIN tasks, Cancel(id) PROVE Final
        BY <2>6 DEF Cancel, SetState
    <2>7. ASSUME NEW now \in Time, Expire(now) PROVE Final
        <3>1. \A i \in DOMAIN tasks : IsTerminal(tasks[i].state) => i \notin Overdue(now)
            BY DEF Overdue
        <3>2. \A i \in DOMAIN tasks : i \notin Overdue(now) => tasks'[i] = tasks[i]
            BY <2>7, <2>0 DEF Expire, TaskRecord
        <3> QED
            BY <3>1, <3>2
    <2>8. ASSUME ClearCompleted PROVE Final
        BY <2>8 DEF ClearCompleted
    <2>9. ASSUME Reset PROVE Final
        BY <2>9 DEF Reset
    <2> QED
        BY <2>1, <2>2, <2>3, <2>4, <2>5, <2>6, <2>7, <2>8, <2>9 DEF Next
<1> QED
    BY <1>1, TypeCorrect, PTL DEF Spec, FinishedIsFinal
-----------------------------------------------------------------------------
(* The unfinished tasks.  Every step adds one fresh task, settles a set of *)
(* unfinished tasks and counts them, or starts over; the work of a task    *)
(* that stays is the work it came with.                                    *)

Settled == stats.completed + stats.cancelled + stats.expired

KeepsWork(S) == \A i \in S : SameWork(tasks[i].task, tasks'[i].task)

Joins(id, t) ==
    /\ id \notin DOMAIN tasks /\ Active' = Active \cup {id}
    /\ stats'.enqueued = stats.enqueued + 1 /\ Settled' = Settled
    /\ KeepsWork(Active) /\ SameWork(t, tasks'[id].task)
    /\ ~(RejectDuplicateLabels /\ DuplicateLabel(t))

Leave(S) ==
    /\ S \subseteq Active /\ Active' = Active \ S
    /\ stats'.enqueued = stats.enqueued /\ Settled' = Settled + Cardinality(S)
    /\ KeepsWork(Active \ S)

StartsOver == Active' = {} /\ stats'.enqueued = 0 /\ Settled' = 0

ActiveStep ==
    \/ \E id \in Nat, t \in TaskInputs : Joins(id, t)
    \/ \E S \in SUBSET Active : Leave(S)
    \/ StartsOver

\* Replacing the record of one stored task by a record of the same work leaves
\* the task unfinished or makes it leave.
LEMMA ReplaceActive ==
    ASSUME TypeOK, NEW id \in Active, NEW r \in TaskRecord,
           SameWork(tasks[id].task, r.task),
           tasks' = [tasks EXCEPT ![id] = r]
    PROVE  /\ Active' = IF IsTerminal(r.state) THEN Active \ {id} ELSE Active
           /\ KeepsWork(Active)
<1>1. id \in DOMAIN tasks /\ ~IsTerminal(tasks[id].state)
    BY DEF Active
<1>2. DOMAIN tasks' = DOMAIN tasks
    OBVIOUS
<1>3. \A i \in DOMAIN tasks : tasks'[i] = IF i = id THEN r ELSE tasks[i]
    OBVIOUS
<1>4. KeepsWork(Active)
    BY <1>3 DEF KeepsWork, Active, SameWork
<1> QED
    BY <1>1, <1>2, <1>3, <1>4 DEF Active

\* Every operation is one of the three kinds.
LEMMA ActiveSteps == TypeOK /\ [Next]_vars => ActiveStep
<1> SUFFICES ASSUME TypeOK, [Next]_vars PROVE ActiveStep
    OBVIOUS
<1> USE SchedulerAssumption
<1>0. \A i \in DOMAIN tasks : tasks[i] \in TaskRecord /\ i \in Nat
    BY DEF TypeOK, TaskRecord
<1>1. Active \subseteq DOMAIN tasks /\ \A i \in Active : ~IsTerminal(tasks[i].state)
    BY DEF Active
<1>2. /\ DOMAIN stats = {"enqueued", "leased", "completed", "cancelled", "expired", "retried",
                         "duplicate_rejections"}
      /\ \A f \in DOMAIN stats : stats[f] \in Nat
    BY DEF TypeOK, ZeroStats
<1>3. ASSUME NEW id \in Active, Active' = Active \ {id}, KeepsWork(Active), NEW f \in {"completed", "cancelled"},
             stats' = Count(f)
      PROVE  ActiveStep
    <2>1. stats'.enqueued = stats.enqueued /\ Settled' = Settled + 1
        BY <1>2, <1>3 DEF Settled, Count
    <2>2. Cardinality({id}) = 1
        BY FS_Singleton
    <2>3. Leave({id})
        BY <1>3, <2>1, <2>2 DEF Leave, KeepsWork
    <2> QED
        BY <2>3 DEF ActiveStep
<1>4. ASSUME Active' = Active, KeepsWork(Active), stats'.enqueued = stats.enqueued, Settled' = Settled
      PROVE  ActiveStep
    <2>1. Cardinality({}) = 0 /\ Settled \in Int
        BY <1>2, FS_EmptySet DEF Settled
    <2>2. Leave({})
        BY <1>4, <2>1 DEF Leave
    <2> QED
        BY <2>2 DEF ActiveStep
<1>5. ASSUME NEW t \in TaskInputs, EnqueueAccepted(t) PROVE ActiveStep
    <2> DEFINE id == IF t.id = 0 THEN nextId ELSE t.id
    <2>1. id \notin DOMAIN tasks /\ id \in Nat
        BY <1>5 DEF EnqueueAccepted, Rejected, IdTaken, TypeOK, Task
    <2>2. /\ DOMAIN tasks' = DOMAIN tasks \cup {id}
          /\ \A i \in DOMAIN tasks : tasks'[i] = tasks[i]
          /\ tasks'[id].state = "queued" /\ tasks'[id].task = [t EXCEPT !.id = id]
        BY <1>5, <2>1 DEF EnqueueAccepted, Put
    <2>3. SameWork(t, tasks'[id].task)
        BY <2>2 DEF SameWork, Task
    <2>4. ~(RejectDuplicateLabels /\ DuplicateLabel(t))
        BY <1>5 DEF EnqueueAccepted, Rejected
    <2>5. stats'.enqueued = stats.enqueued + 1 /\ Settled' = Settled
        BY <1>2, <1>5 DEF EnqueueAccepted, Count, Settled
    <2> HIDE DEF id
    <2>6. Active' = Active \cup {id} /\ KeepsWork(Active)
        BY <2>1, <2>2 DEF Active, IsTerminal, TerminalStates, KeepsWork, SameWork
    <2>7. Joins(id, t)
        BY <2>1, <2>3, <2>4, <2>5, <2>6 DEF Joins
    <2> QED
        BY <2>1, <2>7 DEF ActiveStep
<1>6. ASSUME NEW t \in TaskInputs, EnqueueRejected(t) PROVE ActiveStep
    <2>1. tasks' = tasks /\ stats'.enqueued = stats.enqueued /\ Settled' = Settled
        BY <1>2, <1>6 DEF EnqueueRejected, Count, Settled
    <2>2. Active' = Active /\ KeepsWork(Active)
        BY <2>1 DEF Active, KeepsWork, SameWork
    <2> QED
        BY <1>4, <2>1, <2>2
<1>7. ASSUME NEW now \in Time, LeaseNext(now) PROVE ActiveStep
    <2>1. PICK id \in Eligible(now) : tasks' = [tasks EXCEPT ![id] = RecordLease(@)]
        BY <1>7 DEF LeaseNext
    <2>2. id \in Active
        BY DEF Eligible, Active, IsTerminal, TerminalStates
    <2> DEFINE r == RecordLease(tasks[id])
    <2>3. r \in TaskRecord /\ SameWork(tasks[id].task, r.task) /\ ~IsTerminal(r.state)
        BY <1>0, <1>1, <2>2
           DEF RecordLease, TaskRecord, TaskStates, SameWork, IsTerminal, TerminalStates
    <2>4. tasks' = [tasks EXCEPT ![id] = r]
        BY <2>1
    <2> HIDE DEF r
    <2>5. Active' = Active /\ KeepsWork(Active)
        BY <2>2, <2>3, <2>4, ReplaceActive
    <2>6. stats'.enqueued = stats.enqueued /\ Settled' = Settled
        BY <1>2, <1>7 DEF LeaseNext, Count, Settled
    <2> QED
        BY <1>4, <2>5, <2>6
<1>8. ASSUME NEW id \in DOMAIN tasks, CompleteSuccess(id) PROVE ActiveStep
    <2> DEFINE r == [tasks[id] EXCEPT !.state = "completed"]
    <2>1. r \in TaskRecord /\ SameWork(tasks[id].task, r.task) /\ IsTerminal(r.state)
        BY <1>0 DEF TaskRecord, TaskStates, TerminalStates, IsTerminal, SameWork
    <2>2. tasks' = [tasks EXCEPT ![id] = r] /\ id \in Active
        BY <1>8 DEF CompleteSuccess, SetState, Active, IsTerminal, TerminalStates
    <2> HIDE DEF r
    <2>3. Active' = Active \ {id} /\ KeepsWork(Active)
        BY <2>1, <2>2, ReplaceActive
    <2> QED
        BY <1>3, <1>8, <2>2, <2>3 DEF CompleteSuccess
<1>9. ASSUME NEW id \in DOMAIN tasks, NEW at \in Time, CompleteFailure(id, at) PROVE ActiveStep
    <2> DEFINE r == Requeued(tasks[id], at)
    <2>1. r \in TaskRecord /\ SameWork(tasks[id].task, r.task) /\ ~IsTerminal(r.state)
        BY <1>0 DEF Requeued, TaskRecord, TaskStates, Task, TerminalStates, IsTerminal, SameWork
    <2>2. tasks' = [tasks EXCEPT ![id] = r] /\ id \in Active
        BY <1>9 DEF CompleteFailure, Active, IsTerminal, TerminalStates
    <2> HIDE DEF r
    <2>3. Active' = Active /\ KeepsWork(Active)
        BY <2>1, <2>2, ReplaceActive
    <2>4. stats'.enqueued = stats.enqueued /\ Settled' = Settled
        BY <1>2, <1>9 DEF CompleteFailure, Count, Settled
    <2> QED
        BY <1>4, <2>3, <2>4
<1>10. ASSUME NEW id \in DOMAIN tasks, Cancel(id) PROVE ActiveStep
    <2> DEFINE r == [tasks[id] EXCEPT !.state = "cancelled"]
    <2>1. r \in TaskRecord /\ SameWork(tasks[id].task, r.task) /\ IsTerminal(r.state)
        BY <1>0 DEF TaskRecord, TaskStates, TerminalStates, IsTerminal, SameWork
    <2>2. tasks' = [tasks EXCEPT ![id] = r] /\ id \in Active
        BY <1>10 DEF Cancel, SetState, Active
    <2> HIDE DEF r
    <2>3. Active' = Active \ {id} /\ KeepsWork(Active)
        BY <2>1, <2>2, ReplaceActive
    <2> QED
        BY <1>3, <1>10, <2>2, <2>3 DEF Cancel
<1>11. ASSUME NEW now \in Time, Expire(now) PROVE ActiveStep
    <2>1. /\ DOMAIN tasks' = DOMAIN tasks
          /\ \A i \in DOMAIN tasks :
                /\ tasks'[i].task = tasks[i].task
                /\ tasks'[i].state = IF i \in Overdue(now) THEN "expired" ELSE tasks[i].state
        BY <1>11, <1>0 DEF Expire, TaskRecord
    <2>2. Overdue(now) \subseteq Active
        BY DEF Overdue, Active, IsTerminal, TerminalStates
    <2>3. Active' = Active \ Overdue(now) /\ KeepsWork(Active)
        BY <2>1, <2>2 DEF Active, IsTerminal, TerminalStates, KeepsWork, SameWork
    <2>4. Cardinality(Overdue(now)) \in Nat
        BY <1>1, <2>2, TasksFinite
    <2>5. stats' = [stats EXCEPT !.expired = @ + Cardinality(Overdue(now))]
        BY <1>11 DEF Expire
    <2>6. stats'.enqueued = stats.enqueued /\ Settled' = Settled + Cardinality(Overdue(now))
        BY <1>2, <2>4, <2>5 DEF Settled
    <2>7. Leave(Overdue(now))
        BY <2>2, <2>3, <2>6 DEF Leave, KeepsWork
    <2> QED
        BY <2>2, <2>7 DEF ActiveStep
<1>12. ASSUME ClearCompleted PROVE ActiveStep
    <2>1. tasks' = [i \in Active |-> tasks[i]] /\ stats' = stats
        BY <1>12 DEF ClearCompleted
    <2>2. Active' = Active /\ KeepsWork(Active)
        BY <1>1, <2>1 DEF Active, KeepsWork, SameWork
    <2> QED
        BY <1>4, <2>1, <2>2 DEF Settled
<1>13. ASSUME Reset PROVE ActiveStep
    <2>1. Active' = {} /\ stats'.enqueued = 0 /\ Settled' = 0
        BY <1>13 DEF Reset, Active, Settled, ZeroStats
    <2> QED
        BY <2>1 DEF ActiveStep, StartsOver
<1>14. ASSUME UNCHANGED vars PROVE ActiveStep
    <2>1. tasks' = tasks /\ stats' = stats
        BY <1>14 DEF vars
    <2>2. Active' = Active /\ KeepsWork(Active)
        BY <2>1 DEF Active, KeepsWork, SameWork
    <2> QED
        BY <1>4, <2>1, <2>2 DEF Settled
<1> QED
    BY <1>5, <1>6, <1>7, <1>8, <1>9, <1>10, <1>11, <1>12, <1>13, <1>14 DEF Next

\* The conservation of tasks and the uniqueness of labels are kept by each kind
\* of step.
LEMMA NextAccounted == TypeOK /\ TasksAccounted /\ [Next]_vars => TasksAccounted'
<1> SUFFICES ASSUME TypeOK, TasksAccounted, [Next]_vars PROVE TasksAccounted'
    OBVIOUS
<1> USE SchedulerAssumption
<1>1. IsFiniteSet(Active) /\ Cardinality(Active) \in Nat
    <2>1. Active \subseteq DOMAIN tasks
        BY DEF Active
    <2> QED
        BY <2>1, TasksFinite
<1>2. stats.enqueued = Settled + Cardinality(Active) /\ Settled \in Nat
    BY DEF TasksAccounted, TaskConservation, Settled, TypeOK, ZeroStats
<1>3. SUFFICES /\ stats'.enqueued = Settled' + Cardinality(Active')
               /\ ActiveLabelsUnique'
    BY <1>3 DEF TasksAccounted, TaskConservation, Settled
<1>4. ASSUME NEW S \in SUBSET Active, KeepsWork(S), Active' = S PROVE ActiveLabelsUnique'
    BY <1>4 DEF ActiveLabelsUnique, TasksAccounted, KeepsWork, SameWork
<1>5. ASSUME NEW id \in Nat, NEW t \in TaskInputs, Joins(id, t)
      PROVE  stats'.enqueued = Settled' + Cardinality(Active') /\ ActiveLabelsUnique'
    <2>1. id \notin Active
        BY <1>5 DEF Joins, Active
    <2>2. Cardinality(Active') = Cardinality(Active) + 1
        BY <1>1, <1>5, <2>1, FS_AddElement DEF Joins
    <2>3. RejectDuplicateLabels /\ t.label # NoLabel =>
              \A i \in Active : ~SameWork(tasks[i].task, t)
        BY <1>5 DEF Joins, DuplicateLabel
    <2>4. ActiveLabelsUnique'
        BY <1>5, <2>1, <2>3 DEF Joins, ActiveLabelsUnique, TasksAccounted, KeepsWork, SameWork
    <2> QED
        BY <1>1, <1>2, <1>5, <2>2, <2>4 DEF Joins
<1>6. ASSUME NEW S \in SUBSET Active, Leave(S)
      PROVE  stats'.enqueued = Settled' + Cardinality(Active') /\ ActiveLabelsUnique'
    <2>1. IsFiniteSet(S) /\ Cardinality(S) \in Nat
        BY <1>1, FS_Subset, FS_CardinalityType
    <2>2. Cardinality(Active \ S) = Cardinality(Active) - Cardinality(S)
        <3>1. Active \cap S = S
            OBVIOUS
        <3> QED
            BY ZenonT(20), <1>1, <2>1, <3>1, FS_Difference
    <2> QED
        BY <1>1, <1>2, <1>4, <1>6, <2>1, <2>2 DEF Leave
<1>7. ASSUME StartsOver
      PROVE  stats'.enqueued = Settled' + Cardinality(Active') /\ ActiveLabelsUnique'
    BY <1>7, FS_EmptySet DEF StartsOver, ActiveLabelsUnique
<1> QED
    BY <1>5, <1>6, <1>7, ActiveSteps DEF ActiveStep

\* Every accepted task is unfinished in the table or counted once as completed,
\* cancelled or expired, and with reject_duplicate_labels no unfinished work is
\* there twice, after any sequence of the scheduler's operations.
THEOREM TasksConserved == Spec => []TasksAccounted
<1>1. Init => TasksAccounted
    BY FS_EmptySet DEF Init, TasksAccounted, TaskConservation, ActiveLabelsUnique, Active, ZeroStats
<1> QED
    BY <1>1, NextAccounted, TypeCorrect, PTL DEF Spec

-----------------------------------------------------------------------------
(* select(): the pass.                                                     *)

\* The kept id after the ids up to i, given g for the ids before.
KeptAt(g, now, i) ==
    IF i = 0 THEN 0
    ELSE IF i \in Eligible(now) /\ (g[i - 1] = 0 \/ Beats(i, g[i - 1], now)) THEN i ELSE g[i - 1]

IsPass(g, now) == g = [i \in 0..nextId |-> KeptAt(g, now, i)]

Pass(now) == CHOOSE g : IsPass(g, now)

\* Select is the last value of the pass.
LEMMA SelectIsPass == ASSUME NEW now PROVE Select(now) = Pass(now)[nextId]
BY DEF Select, Pass, IsPass, KeptAt

\* The pass can be made, from the lowest id on.
LEMMA PassExists ==
    ASSUME NEW now, nextId \in Nat
    PROVE  \E g : IsPass(g, now)
<1> DEFINE I == 0..nextId
           Good(g, k) == \A i \in I : i < k => g[i] = KeptAt(g, now, i)
           Bad == {k \in Nat : k <= nextId + 1 /\ ~ \E g : g = [i \in I |-> g[i]] /\ Good(g, k)}
<1>1. Bad = {}
    <2> SUFFICES ASSUME Bad # {} PROVE FALSE
        OBVIOUS
    <2>1. PICK k \in Bad : \A m \in Bad : k <= m
        <3>1. Bad \subseteq Nat
            OBVIOUS
        <3> HIDE DEF Bad
        <3> QED
            BY <3>1, LeastNumber
    <2>2. k \in Nat /\ k <= nextId + 1 /\ ~ \E g : g = [i \in I |-> g[i]] /\ Good(g, k)
        OBVIOUS
    <2>3. k # 0
        <3> SUFFICES ASSUME k = 0 PROVE FALSE
            OBVIOUS
        <3> DEFINE g == [i \in I |-> 0]
        <3>1. g = [i \in I |-> g[i]]
            OBVIOUS
        <3>2. Good(g, k)
            OBVIOUS
        <3> HIDE DEF g, Good
        <3> QED
            BY <2>2, <3>1, <3>2
    <2> DEFINE m == k - 1
    <2>4. m \in Nat /\ m <= nextId + 1 /\ m < k /\ m \in I
        BY <2>2, <2>3
    <2>5. m \notin Bad
        <3> HIDE DEF Bad
        <3> QED
            BY <2>1, <2>2, <2>4
    <2>6. PICK g : g = [i \in I |-> g[i]] /\ Good(g, m)
        <3> HIDE DEF Good, I
        <3> QED
            BY <2>4, <2>5
    <2> DEFINE h == [i \in I |-> IF i = m THEN KeptAt(g, now, m) ELSE g[i]]
    <2>7. h = [i \in I |-> h[i]]
        OBVIOUS
    <2>8. Good(h, k)
        <3> SUFFICES ASSUME NEW i \in I, i < k PROVE h[i] = KeptAt(h, now, i)
            OBVIOUS
        <3>1. i \in Nat /\ i <= m
            BY <2>2
        <3>2. i # 0 => i - 1 \in I /\ i - 1 # m
            BY <2>4, <3>1
        <3>3. i # 0 => g[i - 1] = h[i - 1]
            BY <3>2
        <3>4. KeptAt(g, now, i) = KeptAt(h, now, i)
            <4> HIDE DEF h, Good
            <4> QED
                BY <3>3, Zenon DEF KeptAt
        <3>5. h[i] = KeptAt(g, now, i)
            <4>1. CASE i = m
                BY <4>1
            <4>2. CASE i # m
                <5>1. i < m
                    BY <2>4, <3>1, <4>2
                <5>2. g[i] = KeptAt(g, now, i)
                    BY <2>6, <5>1
                <5> QED
                    BY <4>2, <5>2
            <4> QED
                BY <4>1, <4>2
        <3> QED
            BY <3>4, <3>5
    <2> HIDE DEF h, Good, I
    <2> QED
        BY <2>2, <2>7, <2>8
<1>2. PICK g : g = [i \in I |-> g[i]] /\ Good(g, nextId + 1)
    <2> DEFINE k == nextId + 1
    <2>1. k \in Nat /\ k <= k
        OBVIOUS
    <2>2. Bad = {j \in Nat : j <= k /\ ~ \E g : g = [i \in I |-> g[i]] /\ Good(g, j)}
        OBVIOUS
    <2> HIDE DEF k, Good, I, Bad
    <2>3. k \notin Bad
        BY <1>1
    <2>4. \E g : g = [i \in I |-> g[i]] /\ Good(g, k)
        BY <2>1, <2>2, <2>3
    <2> QED
        BY <2>4 DEF k
<1>3. \A i \in I : g[i] = KeptAt(g, now, i)
    BY <1>2
<1>4. IsPass(g, now)
    BY <1>2, <1>3 DEF IsPass
<1> QED
    BY <1>4

-----------------------------------------------------------------------------
(* What the kept task is to the tasks seen so far (S): one of them, the    *)
(* earliest due one if one is due, and if none has a deadline the first in *)
(* the order of priority, attempts, enqueue time and id; and none seen     *)
(* after it beats it.                                                      *)

BestDue(b, S, now) ==
    \A j \in S : Due(tasks[j].task, now) =>
        Due(tasks[b].task, now) /\ tasks[b].task.deadline <= tasks[j].task.deadline

AheadOf(i, j) ==
    \/ tasks[i].task.priority > tasks[j].task.priority
    \/ /\ tasks[i].task.priority = tasks[j].task.priority
       /\ \/ tasks[i].attempts < tasks[j].attempts
          \/ /\ tasks[i].attempts = tasks[j].attempts
             /\ \/ tasks[i].task.enqueue_time < tasks[j].task.enqueue_time
                \/ tasks[i].task.enqueue_time = tasks[j].task.enqueue_time /\ i < j

BestUndated(b, S) == (\A j \in S : tasks[j].task.deadline = 0) => \A j \in S \ {b} : AheadOf(b, j)

Unbeaten(b, S, now) == \A j \in S : j > b => ~Beats(j, b, now)

Best(b, S, now) ==
    \/ S = {} /\ b = 0
    \/ b \in S /\ b # 0 /\ BestDue(b, S, now) /\ BestUndated(b, S) /\ Unbeaten(b, S, now)

\* One more task, with a higher id than those seen, keeps that so.
LEMMA BestSoFar ==
    ASSUME TypeOK, SchedulerAssumption, NEW now \in Nat, NEW S \in SUBSET DOMAIN tasks, NEW b, Best(b, S, now),
           NEW i \in DOMAIN tasks, \A j \in S : j < i
    PROVE  Best(IF b = 0 \/ Beats(i, b, now) THEN i ELSE b, S \cup {i}, now)
<1>1. \A j \in DOMAIN tasks :
         /\ j \in Nat /\ j # 0 /\ tasks[j].task.deadline \in Nat /\ tasks[j].task.priority \in Int
         /\ tasks[j].attempts \in Nat /\ tasks[j].task.enqueue_time \in Nat
    BY DEF TypeOK, Task
<1>2. FairnessWindow \in Nat
    BY DEF SchedulerAssumption
<1> DEFINE DD(j) == Due(tasks[j].task, now)
           dl(j) == tasks[j].task.deadline
<1>3. \A j \in DOMAIN tasks : DD(j) => dl(j) # 0
    BY DEF Due
<1>4. CASE b = 0
    <2>1. S = {}
        BY <1>1, <1>4 DEF Best
    <2>2. BestDue(i, {i}, now) /\ BestUndated(i, {i}) /\ Unbeaten(i, {i}, now)
        BY <1>1 DEF BestDue, BestUndated, Unbeaten
    <2> QED
        BY <1>1, <1>4, <2>1, <2>2 DEF Best
<1>5. CASE b # 0 /\ Beats(i, b, now)
    <2>1. b \in S /\ b < i /\ BestDue(b, S, now) /\ BestUndated(b, S)
        BY <1>5 DEF Best
    <2>2. /\ DD(b) => DD(i) /\ dl(i) <= dl(b)
          /\ (dl(b) = 0 /\ dl(i) = 0) => AheadOf(i, b)
        <3> USE <1>1, <1>3, <2>1
        <3>1. CASE DD(i) # DD(b)
            <4>1. DD(i)
                BY <1>5, <3>1 DEF Beats
            <4>2. dl(i) # 0
                BY <4>1
            <4> QED
                BY <3>1, <4>1, <4>2
        <3>2. CASE DD(i) = DD(b) /\ dl(i) # 0 /\ dl(b) # 0 /\ dl(i) # dl(b)
            <4>1. dl(i) < dl(b)
                BY <1>5, <3>2 DEF Beats
            <4> QED
                BY <3>2, <4>1
        <3>3. CASE DD(i) = DD(b) /\ ~(dl(i) # 0 /\ dl(b) # 0 /\ dl(i) # dl(b))
            <4>1. AheadOf(i, b)
                <5>1. \/ tasks[i].task.priority > tasks[b].task.priority
                      \/ tasks[i].task.priority = tasks[b].task.priority /\ tasks[i].attempts < tasks[b].attempts
                      \/ /\ tasks[i].task.priority = tasks[b].task.priority /\ tasks[i].attempts = tasks[b].attempts
                         /\ tasks[i].task.enqueue_time < tasks[b].task.enqueue_time
                    BY <1>5, <3>3 DEF Beats
                <5> QED
                    BY <5>1 DEF AheadOf
            <4>2. DD(b) => dl(i) = dl(b)
                BY <3>3
            <4> QED
                BY <3>3, <4>1, <4>2
        <3> QED
            BY <3>1, <3>2, <3>3
    <2>3. BestDue(i, S \cup {i}, now)
        <3> SUFFICES ASSUME NEW j \in S \cup {i}, DD(j) PROVE DD(i) /\ dl(i) <= dl(j)
            BY DEF BestDue
        <3>1. CASE j = i
            BY <1>1, <3>1
        <3>2. CASE j \in S
            <4>1. DD(b) /\ dl(b) <= dl(j)
                BY <2>1, <3>2 DEF BestDue
            <4> QED
                BY <1>1, <2>1, <2>2, <3>2, <4>1
        <3> QED
            BY <3>1, <3>2
    <2>4. BestUndated(i, S \cup {i})
        <3> SUFFICES ASSUME \A j \in S \cup {i} : dl(j) = 0, NEW j \in S PROVE AheadOf(i, j)
            BY DEF BestUndated
        <3>1. AheadOf(i, b)
            BY <2>1, <2>2
        <3>2. j = b \/ AheadOf(b, j)
            BY <2>1 DEF BestUndated
        <3>3. b \in DOMAIN tasks /\ j \in DOMAIN tasks
            BY <2>1
        <3>4. AheadOf(b, j) => AheadOf(i, j)
            BY <1>1, <1>5, <2>1, <3>1, <3>3 DEF AheadOf
        <3> QED
            BY <3>1, <3>2, <3>4
    <2>5. Unbeaten(i, S \cup {i}, now)
        <3>1. \A j \in S \cup {i} : ~(j > i)
            BY <1>1
        <3> QED
            BY <3>1, Zenon DEF Unbeaten
    <2> QED
        BY <1>1, <1>5, <2>3, <2>4, <2>5 DEF Best
<1>6. CASE b # 0 /\ ~Beats(i, b, now)
    <2>1. b \in S /\ b < i /\ BestDue(b, S, now) /\ BestUndated(b, S) /\ Unbeaten(b, S, now)
        BY <1>6 DEF Best
    <2>2. /\ DD(i) => DD(b) /\ dl(b) <= dl(i)
          /\ (dl(b) = 0 /\ dl(i) = 0) => AheadOf(b, i)
        <3> USE <1>1, <1>3, <2>1
        <3>1. CASE DD(i) # DD(b)
            <4>1. ~DD(i)
                BY <1>6, <3>1 DEF Beats
            <4>2. DD(i) \in BOOLEAN /\ DD(b) \in BOOLEAN
                BY Zenon DEF Due
            <4>3. DD(b)
                <5> HIDE DEF DD
                <5> QED
                    BY <3>1, <4>1, <4>2
            <4>4. dl(b) # 0
                <5> HIDE DEF DD
                <5> QED
                    BY <1>3, <2>1, <4>3
            <4> QED
                BY <4>1, <4>4
        <3>2. CASE DD(i) = DD(b) /\ dl(i) # 0 /\ dl(b) # 0 /\ dl(i) # dl(b)
            <4>1. ~(dl(i) < dl(b))
                BY <1>6, <3>2 DEF Beats
            <4> QED
                BY <3>2, <4>1
        <3>3. CASE DD(i) = DD(b) /\ ~(dl(i) # 0 /\ dl(b) # 0 /\ dl(i) # dl(b))
            <4>1. AheadOf(b, i)
                BY <1>6, <3>3 DEF Beats, AheadOf
            <4>2. DD(i) => dl(i) = dl(b)
                BY <3>3
            <4> QED
                BY <3>3, <4>1, <4>2
        <3> QED
            BY <3>1, <3>2, <3>3
    <2>3. BestDue(b, S \cup {i}, now)
        BY <2>1, <2>2 DEF BestDue
    <2>4. BestUndated(b, S \cup {i})
        BY <2>1, <2>2 DEF BestUndated
    <2>5. Unbeaten(b, S \cup {i}, now)
        BY <1>6, <2>1, Zenon DEF Unbeaten
    <2> QED
        BY <1>6, <2>1, <2>3, <2>4, <2>5 DEF Best
<1> QED
    BY <1>4, <1>5, <1>6

-----------------------------------------------------------------------------
(* The pass keeps the best of the eligible tasks it has seen, so select()  *)
(* returns the best of them all.                                           *)

SeenEligible(now, k) == {i \in Eligible(now) : i <= k}

\* By the least id at which the pass would not have the best.
LEMMA PassKeepsBest ==
    ASSUME TypeOK, SchedulerAssumption, NEW now \in Nat
    PROVE  \A k \in 0..nextId : Best(Pass(now)[k], SeenEligible(now, k), now)
<1> DEFINE p == Pass(now)
           Bad == {k \in 0..nextId : ~Best(p[k], SeenEligible(now, k), now)}
<1>1. nextId \in Nat /\ Eligible(now) \subseteq DOMAIN tasks /\ DOMAIN tasks \subseteq Nat \ {0}
    BY DEF TypeOK, Eligible
<1>2. IsPass(p, now)
    <2>1. \E g : IsPass(g, now)
        BY <1>1, PassExists
    <2> QED
        BY <2>1, Zenon DEF Pass
<1>3. \A k \in 0..nextId : p[k] = KeptAt(p, now, k)
    <2> HIDE DEF p
    <2> QED
        BY <1>2 DEF IsPass
<1>4. SUFFICES ASSUME Bad # {} PROVE FALSE
    OBVIOUS
<1> HIDE DEF p
<1>5. PICK k \in Bad : \A m \in Bad : k <= m
    <2>1. Bad \subseteq Nat
        BY <1>1
    <2> HIDE DEF Bad
    <2> QED
        BY <1>4, <2>1, LeastNumber
<1>6. k \in 0..nextId /\ k \in Nat /\ ~Best(p[k], SeenEligible(now, k), now)
    BY <1>1, <1>5
<1>7. CASE k = 0
    <2>1. SeenEligible(now, k) = {}
        BY <1>1, <1>7 DEF SeenEligible
    <2>2. p[k] = 0
        BY <1>3, <1>6, <1>7 DEF KeptAt
    <2> QED
        BY <1>6, <2>1, <2>2, Zenon DEF Best
<1>8. CASE k # 0
    <2>1. PICK m \in 0..nextId : m = k - 1 /\ m \in Nat /\ m < k
        BY <1>1, <1>6, <1>8
    <2> DEFINE S == SeenEligible(now, m)
               b == p[m]
    <2>2. Best(b, S, now)
        <3>1. m \notin Bad
            <4> HIDE DEF Bad
            <4> QED
                BY <1>5, <1>6, <2>1
        <3> QED
            BY <3>1, Zenon
    <2>3. p[k] = IF k \in Eligible(now) /\ (b = 0 \/ Beats(k, b, now)) THEN k ELSE b
        <3>1. p[k] = KeptAt(p, now, k)
            BY <1>3, <1>6
        <3> QED
            BY <1>8, <2>1, <3>1 DEF KeptAt
    <2>4. CASE k \in Eligible(now)
        <3>1. SeenEligible(now, k) = S \cup {k}
            BY <1>1, <1>6, <2>1, <2>4 DEF SeenEligible
        <3>2. S \in SUBSET DOMAIN tasks /\ \A j \in S : j < k
            BY <1>1, <1>6, <2>1 DEF SeenEligible
        <3>3. k \in DOMAIN tasks
            BY <1>1, <2>4
        <3> HIDE DEF S, b
        <3>4. Best(IF b = 0 \/ Beats(k, b, now) THEN k ELSE b, S \cup {k}, now)
            BY <2>2, <3>2, <3>3, BestSoFar
        <3>5. p[k] = IF b = 0 \/ Beats(k, b, now) THEN k ELSE b
            BY <2>3, <2>4, Zenon
        <3> QED
            BY <1>6, <3>1, <3>4, <3>5, Zenon
    <2>5. CASE k \notin Eligible(now)
        <3>1. SeenEligible(now, k) = S
            BY <1>1, <1>6, <2>1, <2>5 DEF SeenEligible
        <3> QED
            BY <1>6, <2>2, <2>3, <2>5, <3>1, Zenon
    <2> QED
        BY <2>4, <2>5
<1> QED
    BY <1>7, <1>8

\* select() has then seen every eligible task.
LEMMA SelectIsBest ==
    ASSUME TypeOK, SchedulerAssumption, NEW now \in Nat
    PROVE  Best(Select(now), Eligible(now), now)
<1>1. nextId \in Nat /\ \A i \in Eligible(now) : i \in Nat /\ i <= nextId
    BY DEF TypeOK, Eligible
<1>2. SeenEligible(now, nextId) = Eligible(now)
    BY <1>1 DEF SeenEligible
<1>3. Best(Pass(now)[nextId], SeenEligible(now, nextId), now)
    BY <1>1, PassKeepsBest
<1> QED
    BY <1>2, <1>3, SelectIsPass

\* A lease takes the best task, and says so in its reason.
LEMMA LeasePicksInOrder ==
    ASSUME TypeOK, SchedulerAssumption, NEW now \in Time, LeaseNext(now), NEW i \in Leased
    PROVE  /\ lease'.time = now
           /\ tasks[i].task.ready_time <= now
           /\ EarliestDueFirst(i, now)
           /\ UndatedOrder(i, now)
           /\ UnbeatenByLater(i, now)
<1>1. now \in Nat
    BY DEF SchedulerAssumption
<1>2. PICK id \in Eligible(now) :
         /\ id = Select(now)
         /\ lease' = [id |-> id, reason |-> PickReason(tasks[id], now), time |-> now]
    BY DEF LeaseNext
<1>3. i = id /\ lease'.time = now /\ lease'.reason = PickReason(tasks[i], now)
    BY <1>2 DEF Leased
<1>4. /\ i \in Eligible(now) /\ BestDue(i, Eligible(now), now) /\ BestUndated(i, Eligible(now))
      /\ Unbeaten(i, Eligible(now), now)
    <2>1. Best(i, Eligible(now), now)
        BY <1>1, <1>2, <1>3, SelectIsBest
    <2> QED
        BY <1>2, <1>3, <2>1, Zenon DEF Best
<1>5. tasks[i].task.ready_time <= now
    BY <1>4 DEF Eligible
<1>6. EarliestDueFirst(i, now)
    <2> SUFFICES ASSUME NEW j \in Eligible(now), Due(tasks[j].task, now)
                 PROVE  lease'.reason = "deadline" /\ tasks[i].task.deadline <= tasks[j].task.deadline
        BY DEF EarliestDueFirst
    <2>1. Due(tasks[i].task, now) /\ tasks[i].task.deadline <= tasks[j].task.deadline
        BY <1>4 DEF BestDue
    <2>2. PickReason(tasks[i], now) = "deadline"
        BY <2>1, Zenon DEF PickReason
    <2> QED
        BY <1>3, <2>1, <2>2
<1>7. UndatedOrder(i, now)
    BY <1>4, Zenon DEF BestUndated, UndatedOrder, AheadOf
<1>8. UnbeatenByLater(i, now)
    BY <1>4, Zenon DEF Unbeaten, UnbeatenByLater
<1> QED
    BY <1>3, <1>5, <1>6, <1>7, <1>8

\* The other operations return no lease.
LEMMA OthersLeaseNothing ==
    ASSUME TypeOK, Next, \A now \in Time : ~LeaseNext(now)
    PROVE  Leased = {}
<1>1. lease' = NoLease
    BY DEF Next, EnqueueAccepted, EnqueueRejected, CompleteSuccess, CompleteFailure, Cancel, Expire,
        ClearCompleted, Reset
<1>2. lease'.id = 0
    BY <1>1 DEF NoLease
<1>3. 0 \notin DOMAIN tasks
    BY DEF TypeOK
<1> QED
    BY <1>2, <1>3 DEF Leased

\* lease_next leases no task before its ready time, the earliest of the tasks
\* within the fairness window if there is one, and the first in the order of
\* priority, attempts, enqueue time and id if none has a deadline; if some have
\* one and none is due soon, the pick is a task that none with a higher id beats.
THEOREM PickFollowsOrder == Spec => PickOrder
<1> DEFINE InOrder == \A i \in Leased :
              LET now == lease'.time
              IN  /\ tasks[i].task.ready_time <= now
                  /\ EarliestDueFirst(i, now)
                  /\ UndatedOrder(i, now)
                  /\ UnbeatenByLater(i, now)
<1>1. TypeOK /\ [Next]_vars => [InOrder]_vars
    <2> SUFFICES ASSUME TypeOK, Next PROVE InOrder
        BY Zenon DEF vars
    <2>1. CASE \E now \in Time : LeaseNext(now)
        <3>1. PICK now \in Time : LeaseNext(now)
            BY <2>1
        <3>2. ASSUME NEW i \in Leased
              PROVE  /\ lease'.time = now
                     /\ tasks[i].task.ready_time <= now
                     /\ EarliestDueFirst(i, now)
                     /\ UndatedOrder(i, now)
                     /\ UnbeatenByLater(i, now)
            BY <3>1, <3>2, SchedulerAssumption, LeasePicksInOrder
        <3> QED
            BY <3>2, Zenon
    <2>2. CASE \A now \in Time : ~LeaseNext(now)
        BY <2>2, OthersLeaseNothing
    <2> QED
        BY <2>1, <2>2
<1> HIDE DEF InOrder
<1> QED
    BY <1>1, TypeCorrect, PTL DEF Spec, PickOrder, InOrder

\* lease_next comes back without a task only if none is eligible: a task that
\* is queued, ready and on a device with a free slot is never passed over for
\* nothing.
THEOREM EligibleIsLeased ==
    Spec => [](\A now \in Time : Eligible(now) # {} => Select(now) \in Eligible(now))
<1>1. TypeOK => \A now \in Time : Eligible(now) # {} => Select(now) \in Eligible(now)
    <2> SUFFICES ASSUME TypeOK, NEW now \in Time, Eligible(now) # {} PROVE Select(now) \in Eligible(now)
        OBVIOUS
    <2>1. now \in Nat
        BY SchedulerAssumption
    <2>2. Best(Select(now), Eligible(now), now)
        BY <2>1, SchedulerAssumption, SelectIsBest
    <2> QED
        BY <2>2, Zenon DEF Best
<1> QED
    BY <1>1, TypeCorrect, PTL

-----------------------------------------------------------------------------
(* PacketPipeline.                                                         *)

\* A set of naturals that is not empty has its minimum in it.
LEMMA MinOfSet ==
    ASSUME NEW S, S \subseteq Nat, S # {}
    PROVE  Min(S) \in S /\ \A x \in S : Min(S) <= x
<1>1. \E m \in S : \A x \in S : m <= x
    BY LeastNumber
<1> QED
    BY <1>1 DEF Min

\* What is the least of a set is its minimum.
LEMMA MinIs ==
    ASSUME NEW S, S \subseteq Int, NEW m \in S, \A x \in S : m <= x
    PROVE  Min(S) = m
<1>1. \A k \in S : (\A x \in S : k <= x) => k = m
    OBVIOUS
<1> QED
    BY <1>1 DEF Min

\* The minimum of a set and one element more.
LEMMA MinMore ==
    ASSUME NEW S, S \subseteq Nat, S # {}, NEW n \in Nat
    PROVE  Min(S \cup {n}) = Min({Min(S), n})
<1> DEFINE m == Min(S)
           r == IF m <= n THEN m ELSE n
<1>1. m \in S /\ \A x \in S : m <= x
    BY MinOfSet
<1> HIDE DEF m
<1>2. r \in S \cup {n} /\ \A x \in S \cup {n} : r <= x
    BY <1>1
<1>3. S \cup {n} \subseteq Int /\ {m, n} \subseteq Int /\ r \in {m, n} /\ \A x \in {m, n} : r <= x
    BY <1>1
<1> HIDE DEF r
<1>4. Min(S \cup {n}) = r /\ Min({m, n}) = r
    BY <1>2, <1>3, MinIs
<1> QED
    BY <1>4 DEF m

\* The payload that the step at position i gets, when all in front of it went on.
TrimsBefore(s, i) == {k \in 1..(i - 1) : s[k].kind = "trim"}

PayloadAt(s, p, i) == Min({p.payload} \cup {s[j].limit : j \in TrimsBefore(s, i)})

PacketAt(s, p, i) == [p EXCEPT !.payload = PayloadAt(s, p, i)]

ResultAt(s, p, i) == StepResult(s[i], PacketAt(s, p, i))

IsStepList(s) == s \in Seq(Steps)

\* The first step gets the packet as it came.
LEMMA PacketGiven ==
    ASSUME NEW s, NEW p, IsPacket(p)
    PROVE  PacketAt(s, p, 1) = p
<1> DEFINE m == p.payload
<1>1. TrimsBefore(s, 1) = {}
    BY DEF TrimsBefore
<1>2. {m} \cup {s[j].limit : j \in TrimsBefore(s, 1)} = {m}
    BY <1>1
<1>3. m \in Nat /\ p = [p EXCEPT !.payload = m]
    BY DEF IsPacket
<1>4. PacketAt(s, p, 1) = [p EXCEPT !.payload = Min({m})]
    BY <1>2 DEF PacketAt, PayloadAt
<1> HIDE DEF m
<1>5. Min({m}) = m
    BY <1>3, MinIs
<1> QED
    BY <1>3, <1>4, <1>5

\* Each step hands on what it left.
LEMMA PacketsPassed ==
    ASSUME DispatchAssumption, NEW s, IsStepList(s), NEW p, IsPacket(p), NEW n \in Nat, n < Len(s)
    PROVE  /\ PacketAt(s, p, n + 2) = StepEffect(s[n + 1], PacketAt(s, p, n + 1))
           /\ PayloadAt(s, p, n + 1) \in Nat
<1> DEFINE B(i) == {p.payload} \cup {s[j].limit : j \in TrimsBefore(s, i)}
           q == PacketAt(s, p, n + 1)
           t == s[n + 1]
<1>1. p.payload \in Nat /\ p = [p EXCEPT !.payload = p.payload] /\ \A x : [p EXCEPT !.payload = x].payload = x
    BY DEF IsPacket
<1>2. Len(s) \in Nat /\ DOMAIN s = 1..Len(s) /\ n + 1 \in 1..Len(s) /\ \A j \in 1..Len(s) : s[j].limit \in Nat
    <2>1. \A j \in 1..Len(s) : s[j] \in Steps
        BY ElementOfSeq DEF IsStepList
    <2> QED
        BY <2>1, LenProperties DEF DispatchAssumption, IsStepList
<1>3. \A i \in 1..(n + 2) : TrimsBefore(s, i) \subseteq 1..Len(s)
    BY <1>2 DEF TrimsBefore
<1>4. \A i \in 1..(n + 2) : B(i) \subseteq Nat /\ B(i) # {}
    BY <1>1, <1>2, <1>3
<1>5. PayloadAt(s, p, n + 1) \in Nat
    <2>1. n + 1 \in 1..(n + 2)
        OBVIOUS
    <2> HIDE DEF B
    <2>2. Min(B(n + 1)) \in Nat
        BY <1>4, <2>1, MinOfSet
    <2> QED
        BY <2>2 DEF PayloadAt, B
<1>6. PacketAt(s, p, n + 2) = StepEffect(t, q)
    <2>1. (n + 2) - 1 = n + 1 /\ (n + 1) - 1 = n
        OBVIOUS
    <2>2. CASE t.kind = "trim"
        <3>1. TrimsBefore(s, n + 2) = TrimsBefore(s, n + 1) \cup {n + 1}
            BY <2>1, <2>2 DEF TrimsBefore
        <3>2. B(n + 2) = B(n + 1) \cup {t.limit}
            BY <3>1
        <3>3. B(n + 1) \subseteq Nat /\ B(n + 1) # {} /\ t.limit \in Nat
            <4>1. n + 1 \in 1..(n + 2)
                OBVIOUS
            <4> HIDE DEF B
            <4> QED
                BY <1>2, <1>4, <4>1
        <3> HIDE DEF B, t
        <3>4. Min(B(n + 2)) = Min({Min(B(n + 1)), t.limit})
            BY <3>2, <3>3, MinMore
        <3>5. PayloadAt(s, p, n + 2) = Min({PayloadAt(s, p, n + 1), t.limit})
            BY <3>4 DEF PayloadAt, B
        <3>6. q.payload = PayloadAt(s, p, n + 1)
            BY <1>1 DEF PacketAt
        <3>7. StepEffect(t, q) = [q EXCEPT !.payload = Min({q.payload, t.limit})]
            BY <2>2 DEF StepEffect
        <3>8. \A x : [q EXCEPT !.payload = x] = [p EXCEPT !.payload = x]
            BY <1>1 DEF PacketAt, IsPacket
        <3> HIDE DEF q
        <3> QED
            BY <3>5, <3>6, <3>7, <3>8 DEF PacketAt
    <2>3. CASE t.kind # "trim"
        <3>1. TrimsBefore(s, n + 2) = TrimsBefore(s, n + 1)
            BY SMTT(20), <2>1, <2>3 DEF TrimsBefore
        <3> QED
            BY <2>3, <3>1 DEF StepEffect, PacketAt, PayloadAt
    <2> QED
        BY <2>2, <2>3
<1> QED
    BY <1>5, <1>6

\* What run() has after n steps: the packet they left, or the first verdict.
RunAfter(state, s, p, n) ==
    \/ /\ \A i \in 1..n : ResultAt(s, p, i) = "continue"
       /\ state = [packet |-> PacketAt(s, p, n + 1), result |-> "continue"]
    \/ \E f \in 1..n :
        /\ \A i \in 1..(f - 1) : ResultAt(s, p, i) = "continue"
        /\ ResultAt(s, p, f) # "continue" /\ state.result = ResultAt(s, p, f)

LEMMA RunOneMore ==
    ASSUME DispatchAssumption, NEW s, IsStepList(s), NEW p, IsPacket(p), NEW n \in Nat, n < Len(s),
           NEW state, RunAfter(state, s, p, n)
    PROVE  RunAfter(RunStep(state, s[n + 1]), s, p, n + 1)
<1> DEFINE t == RunStep(state, s[n + 1])
<1> SUFFICES RunAfter(t, s, p, n + 1)
    OBVIOUS
<1>1. CASE \E f \in 1..n : /\ \A i \in 1..(f - 1) : ResultAt(s, p, i) = "continue"
                           /\ ResultAt(s, p, f) # "continue" /\ state.result = ResultAt(s, p, f)
    <2>1. t = state
        BY <1>1 DEF RunStep
    <2> QED
        BY <1>1, <2>1 DEF RunAfter
<1>2. CASE /\ \A i \in 1..n : ResultAt(s, p, i) = "continue"
           /\ state = [packet |-> PacketAt(s, p, n + 1), result |-> "continue"]
    <2>1. t = [packet |-> StepEffect(s[n + 1], PacketAt(s, p, n + 1)), result |-> ResultAt(s, p, n + 1)]
        BY <1>2 DEF RunStep, ResultAt
    <2>2. (n + 1) + 1 = n + 2 /\ (n + 1) - 1 = n
        OBVIOUS
    <2>3. CASE ResultAt(s, p, n + 1) = "continue"
        <3>1. t = [packet |-> PacketAt(s, p, n + 2), result |-> "continue"]
            BY <2>1, <2>3, PacketsPassed
        <3>2. \A i \in 1..(n + 1) : ResultAt(s, p, i) = "continue"
            BY <1>2, <2>3
        <3> HIDE DEF t
        <3> QED
            BY <2>2, <3>1, <3>2 DEF RunAfter
    <2>4. CASE ResultAt(s, p, n + 1) # "continue"
        <3>1. t.result = ResultAt(s, p, n + 1)
            BY <2>1
        <3>2. n + 1 \in 1..(n + 1) /\ \A i \in 1..((n + 1) - 1) : ResultAt(s, p, i) = "continue"
            BY <1>2, <2>2
        <3> HIDE DEF t
        <3> QED
            BY <2>4, <3>1, <3>2 DEF RunAfter
    <2> QED
        BY <2>3, <2>4
<1> QED
    BY <1>1, <1>2 DEF RunAfter

\* Running the steps decides as PipelineExact says.
LEMMA RunDecides ==
    ASSUME DispatchAssumption, NEW s, IsStepList(s), NEW p, IsPacket(p)
    PROVE  RunAfter(PipelineRun(s, p), s, p, Len(s))
<1> DEFINE D == DOMAIN s
           base == [packet |-> p, result |-> "continue"]
           iter == CHOOSE g : g = [c \in SUBSET D |-> IF c = {} THEN base
                                        ELSE RunStep(g[c \ {Max(c)}], s[Max(c)])]
<1>1. PipelineRun(s, p) = iter[D]
    BY DEF PipelineRun, FoldLeft, MapThenFoldSet
<1>2. D = 1..Len(s) /\ Len(s) \in Nat /\ \A i \in 1..Len(s) : s[i] \in Steps
    BY LenProperties, ElementOfSeq DEF IsStepList
<1>3. IsFiniteSet(D) /\ \A c \in SUBSET D : c # {} => Max(c) \in c
    <2>1. ASSUME NEW c \in SUBSET D, c # {} PROVE Max(c) \in c
        <3> DEFINE n == Len(s)
        <3>1. n \in Nat /\ c \subseteq 1..n
            BY <1>2
        <3> HIDE DEF n
        <3>2. \E m \in c : \A k \in c : k <= m
            BY <2>1, <3>1, GreatestNumber
        <3> QED
            BY <3>2 DEF Max
    <2>2. IsFiniteSet(D)
        <3> DEFINE n == Len(s)
        <3>1. D = 1..n /\ n \in Int /\ 1 \in Int
            BY <1>2
        <3> HIDE DEF n, D
        <3> QED
            BY <3>1, FS_Interval
    <2>3. \A c \in SUBSET D : c # {} => Max(c) \in c
        <3> HIDE DEF D, iter, base
        <3> QED
            BY <2>1
    <2> HIDE DEF D, iter, base
    <2> QED
        BY <2>2, <2>3
<1>4. \E g : g = [c \in SUBSET D |-> IF c = {} THEN base ELSE RunStep(g[c \ {Max(c)}], s[Max(c)])]
    <2> DEFINE P == {[p EXCEPT !.payload = m] : m \in Nat}
               X == [packet : P, result : {"continue", "stop", "drop"}]
               Top == [c \in SUBSET D |-> Max(c)]
               G == [i \in D |-> [x \in X |-> RunStep(x, s[i])]]
    <2>1. Top \in [SUBSET D -> {Max(c) : c \in SUBSET D}] /\ \A c \in SUBSET D : c # {} => Top[c] \in c
        BY <1>3
    <2>2. ASSUME NEW i \in D, NEW x \in X PROVE RunStep(x, s[i]) \in X
        <3>1. s[i] \in Steps /\ s[i].limit \in Nat
            BY <1>2 DEF DispatchAssumption
        <3>2. StepResult(s[i], x.packet) \in {"continue", "stop", "drop"}
            BY DEF StepResult
        <3>3. StepEffect(s[i], x.packet) \in P
            <4>1. PICK m \in Nat : x.packet = [p EXCEPT !.payload = m]
                OBVIOUS
            <4>2. x.packet.payload = m
                BY <4>1 DEF IsPacket
            <4> DEFINE l == s[i].limit
                       k == Min({m, l})
            <4>3. k \in Nat
                <5>1. l \in Nat /\ {m, l} \subseteq Nat /\ {m, l} # {}
                    BY <3>1
                <5> HIDE DEF l
                <5>2. Min({m, l}) \in {m, l}
                    BY <5>1, MinOfSet
                <5> QED
                    BY <5>1, <5>2
            <4>4. [x.packet EXCEPT !.payload = k] = [p EXCEPT !.payload = k]
                BY <4>1 DEF IsPacket
            <4>5. StepEffect(s[i], x.packet) = x.packet \/ StepEffect(s[i], x.packet) = [x.packet EXCEPT !.payload = k]
                BY <4>2 DEF StepEffect
            <4> HIDE DEF k
            <4> QED
                BY <4>1, <4>3, <4>4, <4>5
        <3> HIDE DEF P
        <3> QED
            BY <3>2, <3>3 DEF RunStep
    <2>3. base \in X
        <3>1. p.payload \in Nat /\ p = [p EXCEPT !.payload = p.payload]
            BY DEF IsPacket
        <3> QED
            BY <3>1
    <2> HIDE DEF X
    <2>4. \A i \in D : G[i] \in [X -> X]
        BY <2>2
    <2> HIDE DEF G, Top
    <2>5. PICK g \in [SUBSET D -> X] : FoldsBy(g, D, Top, base, G)
        <3> HIDE DEF D, iter, base
        <3> QED
            BY <1>3, <2>1, <2>3, <2>4, FoldDefined
    <2>6. ASSUME NEW c \in SUBSET D, c # {} PROVE g[c] = RunStep(g[c \ {Max(c)}], s[Max(c)])
        <3>1. Top[c] = Max(c) /\ Max(c) \in D /\ g[c \ {Max(c)}] \in X
            BY <1>3, <2>5, <2>6 DEF Top
        <3> QED
            BY <2>5, <2>6, <3>1 DEF G, FoldsBy
    <2>7. g[{}] = base
        BY <2>5 DEF FoldsBy
    <2> HIDE DEF base, D
    <2>8. g = [c \in SUBSET D |-> IF c = {} THEN base ELSE RunStep(g[c \ {Max(c)}], s[Max(c)])]
        BY <2>5, <2>6, <2>7
    <2> QED
        BY <2>8
<1> HIDE DEF base
<1>5. \A c \in SUBSET D : iter[c] = IF c = {} THEN base ELSE RunStep(iter[c \ {Max(c)}], s[Max(c)])
    <2> DEFINE IsIter(g) == g = [c \in SUBSET D |-> IF c = {} THEN base
                                        ELSE RunStep(g[c \ {Max(c)}], s[Max(c)])]
    <2>1. \E g : IsIter(g)
        BY <1>4
    <2>2. iter = CHOOSE g : IsIter(g)
        OBVIOUS
    <2> HIDE DEF iter
    <2>3. IsIter(iter)
        <3> HIDE DEF IsIter
        <3> QED
            BY <2>1, <2>2
    <2> QED
        BY <2>3
<1> HIDE DEF iter
<1> DEFINE Bad == {n \in 0..Len(s) : ~RunAfter(iter[1..n], s, p, n)}
<1>6. Bad = {}
    <2> SUFFICES ASSUME Bad # {} PROVE FALSE
        OBVIOUS
    <2>1. PICK n \in Bad : \A k \in Bad : n <= k
        <3>1. Bad \subseteq Nat
            BY <1>2
        <3> HIDE DEF Bad
        <3> QED
            BY <3>1, LeastNumber
    <2>2. n \in Nat /\ n <= Len(s) /\ ~RunAfter(iter[1..n], s, p, n)
        BY <1>2
    <2>3. n # 0
        <3> SUFFICES ASSUME n = 0 PROVE FALSE
            OBVIOUS
        <3>1. 1..n = {} /\ n + 1 = 1
            BY <2>2
        <3>2. iter[1..n] = base
            BY <1>5, <3>1
        <3>3. PacketAt(s, p, 1) = p
            BY PacketGiven
        <3>4. RunAfter(base, s, p, n)
            BY <3>1, <3>3 DEF RunAfter, base
        <3> QED
            BY <2>2, <3>2, <3>4
    <2> DEFINE k == n - 1
    <2>4. k \in Nat /\ k < Len(s) /\ k \in 0..Len(s) /\ n = k + 1 /\ k \notin Bad
        <3>1. k \in Nat /\ k < Len(s) /\ k \in 0..Len(s) /\ n = k + 1 /\ ~(n <= k)
            BY <1>2, <2>2, <2>3
        <3> HIDE DEF Bad, k
        <3> QED
            BY <2>1, <3>1
    <2> HIDE DEF k
    <2>5. RunAfter(iter[1..k], s, p, k)
        BY <2>4
    <2>6. Max(1..n) = n
        <3>1. n \in 1..n /\ \A y \in 1..n : n >= y
            BY <2>2, <2>3
        <3>2. \A x \in 1..n : (\A y \in 1..n : x >= y) => x = n
            BY <2>2, <2>3
        <3> QED
            BY <3>1, <3>2 DEF Max
    <2>7. (1..n) \ {n} = 1..k /\ 1..n # {} /\ 1..n \in SUBSET D
        <3>1. (1..n) \ {n} = 1..k
            BY <2>4
        <3>2. n \in 1..n
            BY <2>2, <2>3
        <3>3. 1..n \subseteq 1..Len(s)
            BY <1>2, <2>2
        <3>4. 1..n \in SUBSET D
            BY <1>2, <3>3
        <3> QED
            BY <3>1, <3>2, <3>4
    <2>8. iter[1..n] = RunStep(iter[1..k], s[n])
        BY <1>5, <2>6, <2>7
    <2>9. RunAfter(RunStep(iter[1..k], s[k + 1]), s, p, k + 1)
        BY <2>4, <2>5, RunOneMore
    <2> QED
        BY <2>2, <2>4, <2>8, <2>9
<1>7. RunAfter(iter[1..Len(s)], s, p, Len(s))
    BY <1>2, <1>6
<1> QED
    BY <1>1, <1>2, <1>7

\* The pipeline's verdict is the one PipelineExact reads off the list of steps.
LEMMA PipelineDecides ==
    ASSUME DispatchAssumption, NEW s, IsStepList(s)
    PROVE  PipelineExact(s, {e.packet : e \in Events})
<1> SUFFICES ASSUME NEW p \in {e.packet : e \in Events}
             PROVE  PipelineAccepts(s, p) <=>
                    \A i \in DOMAIN s : ResultAt(s, p, i) = "drop" => \E j \in 1..(i - 1) : s[j].kind = "stop"
    BY DEF PipelineExact, ResultAt, PacketAt, PayloadAt, TrimsBefore
<1> DEFINE state == PipelineRun(s, p)
<1>1. IsPacket(p)
    BY DEF DispatchAssumption
<1>2. RunAfter(state, s, p, Len(s))
    BY <1>1, RunDecides
<1>3. DOMAIN s = 1..Len(s) /\ Len(s) \in Nat
    BY LenProperties DEF IsStepList
<1>4. ASSUME NEW i
      PROVE  /\ ResultAt(s, p, i) \in {"continue", "stop", "drop"}
             /\ s[i].kind = "stop" => ResultAt(s, p, i) = "stop"
             /\ ResultAt(s, p, i) = "stop" => s[i].kind = "stop"
    BY DEF ResultAt, StepResult
<1>5. PipelineAccepts(s, p) <=> state.result # "drop"
    BY DEF PipelineAccepts
<1> HIDE DEF state
<1>6. CASE /\ \A i \in 1..Len(s) : ResultAt(s, p, i) = "continue"
           /\ state = [packet |-> PacketAt(s, p, Len(s) + 1), result |-> "continue"]
    BY <1>3, <1>5, <1>6
<1>7. CASE \E f \in 1..Len(s) :
        /\ \A i \in 1..(f - 1) : ResultAt(s, p, i) = "continue"
        /\ ResultAt(s, p, f) # "continue" /\ state.result = ResultAt(s, p, f)
    <2>1. PICK f \in 1..Len(s) :
            /\ \A i \in 1..(f - 1) : ResultAt(s, p, i) = "continue"
            /\ ResultAt(s, p, f) # "continue" /\ state.result = ResultAt(s, p, f)
        BY <1>7
    <2>2. CASE ResultAt(s, p, f) = "drop"
        <3>1. ~ \E j \in 1..(f - 1) : s[j].kind = "stop"
            BY <1>4, <2>1
        <3> QED
            BY <1>3, <1>5, <2>1, <2>2, <3>1
    <2>3. CASE ResultAt(s, p, f) = "stop"
        <3>1. ASSUME NEW i \in 1..Len(s), ResultAt(s, p, i) = "drop" PROVE f \in 1..(i - 1)
            <4>1. i \notin 1..(f - 1) /\ i # f
                BY <2>1, <2>3, <3>1
            <4> QED
                BY <1>3, <4>1
        <3> QED
            BY <1>3, <1>4, <1>5, <2>1, <2>3, <3>1
    <2> QED
        BY <1>4, <2>1, <2>2, <2>3
<1> QED
    BY <1>2, <1>6, <1>7 DEF RunAfter

-----------------------------------------------------------------------------
(* ObservationWindow.                                                      *)

From(a, k) == SubSeq(a, k + 1, Len(a))

\* The end of a sequence, element by element.
LEMMA EndOf ==
    ASSUME NEW a \in Seq(Nat), NEW k \in 0..Len(a)
    PROVE  /\ From(a, k) \in Seq(Nat) /\ Len(From(a, k)) = Len(a) - k /\ Len(a) \in Nat /\ k \in Nat
           /\ \A i \in 1..(Len(a) - k) : From(a, k)[i] = a[k + i]
           /\ DOMAIN From(a, k) = 1..(Len(a) - k)
           /\ \A i \in 1..Len(a) : a[i] \in Nat
<1> DEFINE n == Len(a)
           m == k + 1
           w == From(a, k)
<1>1. n \in Nat /\ m \in Int /\ k \in Nat /\ \A i \in 1..n : a[i] \in Nat
    BY LenProperties, ElementOfSeq
<1>2. w = SubSeq(a, m, n) /\ m = k + 1 /\ k <= n
    BY DEF From
<1> HIDE DEF n, m, w
<1>3. \A i \in m..n : a[i] \in Nat
    BY <1>1, <1>2
<1>4. /\ w \in Seq(Nat) /\ Len(w) = IF m <= n THEN n - m + 1 ELSE 0
      /\ \A i \in 1..(n - m + 1) : w[i] = a[m + i - 1]
    <2>1. m \in Int /\ n \in Int
        BY <1>1
    <2>2. /\ SubSeq(a, m, n) \in Seq(Nat) /\ Len(SubSeq(a, m, n)) = IF m <= n THEN n - m + 1 ELSE 0
          /\ \A i \in 1..(n - m + 1) : SubSeq(a, m, n)[i] = a[m + i - 1]
        BY <1>3, <2>1, SubSeqProperties
    <2> QED
        BY <1>2, <2>2
<1>5. Len(w) = n - k
    BY <1>1, <1>2, <1>4
<1>6. n - m + 1 = n - k /\ \A i \in 1..(n - k) : m + i - 1 = k + i
    BY <1>1, <1>2
<1>7. DOMAIN w = 1..Len(w)
    BY <1>4, LenProperties
<1> QED
    BY <1>1, <1>4, <1>5, <1>6, <1>7 DEF n, w

\* The end of an end is an end.
LEMMA EndOfEnd ==
    ASSUME NEW a \in Seq(Nat), NEW k \in 0..Len(a), NEW m \in k..Len(a)
    PROVE  SubSeq(From(a, k), m - k + 1, Len(From(a, k))) = From(a, m)
<1> DEFINE w == From(a, k)
           n == Len(a)
           l == Len(w)
           f == m - k + 1
           v == SubSeq(w, f, l)
<1>1. w \in Seq(Nat) /\ l = n - k /\ n \in Nat /\ k \in Nat /\ \A i \in 1..(n - k) : w[i] = a[k + i]
    BY EndOf
<1>2. m \in 0..n /\ m \in Nat /\ k <= m /\ m <= n
    BY <1>1
<1>3. /\ From(a, m) \in Seq(Nat) /\ Len(From(a, m)) = n - m
      /\ \A i \in 1..(n - m) : From(a, m)[i] = a[m + i]
    BY <1>2, EndOf
<1>4. f \in Int /\ l \in Int /\ f = m - k + 1
    BY <1>1, <1>2
<1> HIDE DEF w, n, l, f
<1>5. \A i \in f..l : w[i] \in Nat
    BY <1>1, <1>2, <1>4, ElementOfSeq DEF l
<1>6. /\ v \in Seq(Nat) /\ Len(v) = IF f <= l THEN l - f + 1 ELSE 0
      /\ \A i \in 1..(l - f + 1) : v[i] = w[f + i - 1]
    BY <1>4, <1>5, SubSeqProperties
<1> HIDE DEF v
<1>7. Len(v) = n - m /\ l - f + 1 = n - m
    <2>1. l - f + 1 = n - m /\ l = n - k /\ f = m - k + 1
        BY <1>1, <1>2, <1>4
    <2>2. Len(v) = IF f <= l THEN l - f + 1 ELSE 0
        BY <1>6
    <2>3. f <= l \/ n = m
        BY <1>1, <1>2, <2>1
    <2>4. CASE f <= l
        BY <2>1, <2>2, <2>4
    <2>5. CASE ~(f <= l)
        <3>1. n - m = 0
            BY <1>1, <1>2, <2>3, <2>5
        <3> QED
            BY <2>1, <2>2, <2>5, <3>1
    <2> QED
        BY <2>4, <2>5
<1>8. ASSUME NEW i \in 1..(n - m) PROVE v[i] = From(a, m)[i]
    <2>1. f + i - 1 = (m - k) + i /\ (m - k) + i \in 1..(n - k) /\ k + ((m - k) + i) = m + i
        BY <1>1, <1>2, <1>4
    <2> QED
        BY <1>1, <1>3, <1>6, <1>7, <2>1
<1>9. v = From(a, m)
    BY <1>3, <1>6, <1>7, <1>8, SeqEqual
<1> QED
    BY <1>9 DEF v, w, l, f

\* The end of a sequence is a suffix of it.
LEMMA EndIsSuffix ==
    ASSUME NEW a \in Seq(Nat), NEW k \in 0..Len(a)
    PROVE  IsSuffix(From(a, k), a)
<1> DEFINE w == From(a, k)
           n == Len(a)
           l == Len(w)
           b == Reverse(a)
           v == Reverse(w)
<1>1. /\ w \in Seq(Nat) /\ l = n - k /\ n \in Nat /\ k \in Nat /\ k <= n
      /\ \A i \in 1..(n - k) : w[i] = a[k + i]
    BY EndOf
<1>2. b = [i \in 1..n |-> a[(n - i) + 1]] /\ v = [i \in 1..l |-> w[(l - i) + 1]]
    BY DEF Reverse
<1>3. l \in Nat /\ (\A i \in 1..n : a[i] \in Nat) /\ (\A i \in 1..l : w[i] \in Nat)
    BY <1>1, ElementOfSeq
<1> HIDE DEF w, n, l, b, v
<1>4. (\A i \in 1..n : a[(n - i) + 1] \in Nat) /\ (\A i \in 1..l : w[(l - i) + 1] \in Nat)
    BY <1>1, <1>3
<1>5. b \in Seq(Nat) /\ Len(b) = n /\ v \in Seq(Nat) /\ Len(v) = l
    <2>1. b \in [1..n -> Nat] /\ v \in [1..l -> Nat]
        BY <1>2, <1>4
    <2>2. ASSUME NEW y \in Nat, NEW u \in [1..y -> Nat] PROVE u \in Seq(Nat) /\ Len(u) = y
        OBVIOUS
    <2> QED
        BY <1>1, <1>3, <2>1, <2>2
<1>6. ASSUME NEW i \in 1..l PROVE b[i] = v[i]
    <2>1. i \in 1..n /\ (l - i) + 1 \in 1..(n - k) /\ k + ((l - i) + 1) = (n - i) + 1
        BY <1>1
    <2> QED
        BY <1>1, <1>2, <2>1
<1>7. SubSeq(b, 1, l) = SubSeq(v, 1, l)
    <2>1. \A i \in 1..l : b[i] \in Nat /\ v[i] \in Nat
        BY <1>5, <1>6, ElementOfSeq
    <2> DEFINE p == SubSeq(b, 1, l)
               q == SubSeq(v, 1, l)
               z == IF 1 <= l THEN l - 1 + 1 ELSE 0
    <2>2. /\ p \in Seq(Nat) /\ Len(p) = z
          /\ \A i \in 1..(l - 1 + 1) : p[i] = b[1 + i - 1]
        BY <1>3, <2>1, SubSeqProperties
    <2>3. /\ q \in Seq(Nat) /\ Len(q) = z
          /\ \A i \in 1..(l - 1 + 1) : q[i] = v[1 + i - 1]
        BY <1>3, <2>1, SubSeqProperties
    <2>4. z = l /\ l - 1 + 1 = l /\ \A i \in 1..l : 1 + i - 1 = i
        BY <1>3
    <2> HIDE DEF p, q, z
    <2>5. ASSUME NEW i \in 1..l PROVE p[i] = q[i]
        <3>1. i \in 1..(l - 1 + 1) /\ 1 + i - 1 = i
            BY <2>4
        <3>2. p[i] = b[1 + i - 1] /\ q[i] = v[1 + i - 1]
            BY <2>2, <2>3, <3>1
        <3> QED
            BY <1>6, <3>1, <3>2
    <2>6. p = q
        BY <2>2, <2>3, <2>4, <2>5, SeqEqual
    <2> QED
        BY <2>6 DEF p, q
<1>8. IsPrefix(v, b)
    <2>1. Len(v) <= Len(b) /\ SubSeq(v, 1, Len(v)) = SubSeq(b, 1, Len(v))
        BY <1>1, <1>5, <1>7
    <2> QED
        BY <2>1 DEF IsPrefix
<1> QED
    BY <1>8 DEF IsSuffix, w, b, v

\* expire_before() keeps an end, which opens with the first entry that is not too old.
LEMMA ExpireCuts ==
    ASSUME NEW a \in Seq(Nat), NEW k \in 0..Len(a), NEW t \in Nat
    PROVE  \E m \in k..Len(a) :
             /\ ExpireBefore(From(a, k), t) = From(a, m)
             /\ \A i \in (k + 1)..m : a[i] < t
             /\ m < Len(a) => a[m + 1] >= t
<1> DEFINE w == From(a, k)
           n == Len(a)
           fresh == {i \in DOMAIN w : w[i] >= t}
<1>1. /\ w \in Seq(Nat) /\ Len(w) = n - k /\ n \in Nat /\ k \in Nat /\ k <= n
      /\ DOMAIN w = 1..(n - k)
      /\ \A i \in 1..(n - k) : w[i] = a[k + i]
      /\ \A i \in 1..n : a[i] \in Nat
    BY EndOf
<1> HIDE DEF w, n
<1>2. CASE fresh = {}
    <2>1. ExpireBefore(w, t) = <<>>
        BY <1>2 DEF ExpireBefore
    <2>2. From(a, n) = <<>>
        <3>1. n + 1 \in Int /\ n \in Int /\ n < n + 1
            BY <1>1
        <3>2. SubSeq(a, n + 1, n) = <<>>
            BY <3>1, SubSeqEmpty
        <3> QED
            BY <3>2 DEF From, n
    <2>3. ASSUME NEW i \in (k + 1)..n PROVE a[i] < t
        <3>1. i - k \in 1..(n - k) /\ k + (i - k) = i /\ i \in 1..n
            BY <1>1
        <3>2. ~(w[i - k] >= t)
            BY <1>1, <1>2, <3>1
        <3>3. w[i - k] = a[i] /\ a[i] \in Nat
            BY <1>1, <3>1
        <3> QED
            BY <3>2, <3>3
    <2>4. n \in k..n /\ ~(n < n)
        BY <1>1
    <2> QED
        BY <2>1, <2>2, <2>3, <2>4 DEF w, n
<1>3. CASE fresh # {}
    <2> DEFINE f == Min(fresh)
               m == k + f - 1
    <2>1. fresh \subseteq Nat
        BY <1>1
    <2>2. f \in fresh /\ \A i \in fresh : f <= i
        <3> HIDE DEF fresh
        <3> QED
            BY <1>3, <2>1, MinOfSet
    <2>3. f \in 1..(n - k) /\ w[f] >= t
        BY <1>1, <2>2
    <2>4. ExpireBefore(w, t) = SubSeq(w, f, Len(w))
        BY <1>3 DEF ExpireBefore
    <2> HIDE DEF f
    <2>5. m \in k..n /\ m + 1 = k + f /\ m - k + 1 = f
        BY <1>1, <2>3
    <2>6. ASSUME NEW i \in (k + 1)..m PROVE a[i] < t
        <3>1. i - k \in 1..(n - k) /\ i - k < f /\ k + (i - k) = i /\ i \in 1..n
            BY <1>1, <2>3, <2>5
        <3>2. i - k \notin fresh
            <4> HIDE DEF fresh
            <4>1. f \in Int /\ i - k \in Int
                BY <1>1, <2>3
            <4> QED
                BY <2>2, <3>1, <4>1
        <3>3. ~(w[i - k] >= t)
            BY <1>1, <3>1, <3>2
        <3>4. w[i - k] = a[i] /\ a[i] \in Nat
            BY <1>1, <3>1
        <3> QED
            BY <3>3, <3>4
    <2>7. a[m + 1] >= t
        BY <1>1, <2>3, <2>5
    <2> HIDE DEF m
    <2>8. SubSeq(From(a, k), m - k + 1, Len(From(a, k))) = From(a, m)
        BY <2>5, EndOfEnd DEF n
    <2>9. ExpireBefore(w, t) = From(a, m)
        BY <2>4, <2>5, <2>8 DEF w
    <2> HIDE DEF fresh
    <2> QED
        BY <2>5, <2>6, <2>7, <2>9 DEF w, n
<1> QED
    BY <1>2, <1>3

\* Why entry i of what was added may have left the window.
MayBeGone(a, c, i) ==
    \/ Len(a) - i >= MaxObservations
    \/ WindowWidth # 0 /\ \E j \in (i + 1)..Len(a) : a[i] + WindowWidth < a[j]
    \/ \E x \in c : i <= x.after /\ a[i] < x.time

\* The window w is what was added from position k on.
WindowIs(w, a, c, k) ==
    /\ k \in 0..Len(a) /\ w = From(a, k)
    /\ Len(a) - k <= MaxObservations
    /\ \A i \in 1..k : MayBeGone(a, c, i)
    /\ k < Len(a) /\ WindowWidth # 0 => \E i \in 1..(k + 1) : a[i] + WindowWidth >= a[Len(a)]

\* What one observation more pushes out of the window.
LEMMA FreshAfter ==
    ASSUME DispatchAssumption, NEW a \in Seq(Nat), NEW k \in 0..Len(a), NEW t \in Nat
    PROVE  LET b == Append(a, t)
               appended == Append(From(a, k), t)
               fresh == IF WindowWidth # 0 /\ t >= WindowWidth THEN ExpireBefore(appended, t - WindowWidth) ELSE appended
           IN  \E m \in k..Len(a) :
                 /\ fresh = From(b, m) /\ (b[m + 1] + WindowWidth >= t \/ WindowWidth = 0)
                 /\ \A i \in (k + 1)..m : WindowWidth # 0 /\ b[i] + WindowWidth < t
<1> DEFINE n == Len(a)
           b == Append(a, t)
           w == From(a, k)
           u == Append(w, t)
<1>0. n \in Nat /\ k \in Nat /\ k <= n
    BY EndOf
<1>1. w \in Seq(Nat) /\ Len(w) = n - k /\ \A i \in 1..(n - k) : w[i] = a[k + i]
    BY EndOf
<1>2. /\ b \in Seq(Nat) /\ Len(b) = n + 1 /\ b[n + 1] = t
      /\ \A i \in 1..n : b[i] = a[i]
    BY AppendProperties
<1>3. /\ u \in Seq(Nat) /\ Len(u) = (n - k) + 1 /\ u[(n - k) + 1] = t
      /\ \A i \in 1..(n - k) : u[i] = w[i]
    <2> HIDE DEF w, n
    <2> QED
        BY SMTT(20), <1>1, AppendProperties
<1>4. WindowWidth \in Nat
    BY DEF DispatchAssumption
<1> HIDE DEF n, b, w, u
<1>5. k \in 0..Len(b) /\ \A i \in 1..(n + 1) : b[i] \in Nat
    <2>1. \A i \in 1..Len(b) : b[i] \in Nat
        BY <1>2, ElementOfSeq
    <2> QED
        BY <1>0, <1>2, <2>1
<1>6. u = From(b, k)
    <2>1. /\ From(b, k) \in Seq(Nat) /\ Len(From(b, k)) = (n + 1) - k
          /\ \A i \in 1..((n + 1) - k) : From(b, k)[i] = b[k + i]
        BY <1>2, <1>5, EndOf
    <2>2. ASSUME NEW i \in 1..((n + 1) - k) PROVE u[i] = From(b, k)[i]
        <3>1. CASE i = (n - k) + 1
            <4>1. k + i = n + 1
                BY <1>0, <3>1
            <4> QED
                BY <1>2, <1>3, <2>1, <3>1, <4>1
        <3>2. CASE i # (n - k) + 1
            <4> DEFINE l == n - k
            <4>1. l \in Nat /\ (n + 1) - k = l + 1 /\ k + l = n /\ i # l + 1
                BY <1>0, <3>2
            <4> HIDE DEF l
            <4>2. i \in 1..l
                BY <4>1
            <4>3. i \in 1..(n - k)
                BY <4>2 DEF l
            <4>4. k + i \in 1..n
                BY <1>0, <4>1, <4>2
            <4> QED
                BY <1>1, <1>2, <1>3, <2>1, <4>3, <4>4
        <3> QED
            BY <3>1, <3>2
    <2>3. Len(u) = (n + 1) - k
        BY <1>0, <1>3
    <2> QED
        BY <1>3, <2>1, <2>2, <2>3, SeqEqual
<1>7. CASE WindowWidth # 0 /\ t >= WindowWidth
    <2> DEFINE old == t - WindowWidth
    <2>1. old \in Nat /\ old <= t /\ \A x \in Nat : (x < old <=> x + WindowWidth < t) /\ (x >= old <=> x + WindowWidth >= t)
        BY <1>4, <1>7
    <2> HIDE DEF old
    <2>2. PICK m \in k..Len(b) :
            /\ ExpireBefore(From(b, k), old) = From(b, m)
            /\ \A i \in (k + 1)..m : b[i] < old
            /\ m < Len(b) => b[m + 1] >= old
        BY <1>2, <1>5, <2>1, ExpireCuts
    <2>3. m # n + 1
        <3> SUFFICES ASSUME m = n + 1 PROVE FALSE
            OBVIOUS
        <3>1. n + 1 \in (k + 1)..m
            BY <1>0
        <3>2. t < old
            BY <1>2, <2>2, <3>1
        <3> QED
            BY <2>1, <3>2
    <2>4. m \in k..n /\ m < Len(b) /\ m + 1 \in 1..(n + 1)
        <3>1. m \in Int /\ k <= m /\ m <= n
            BY <1>0, <1>2, <2>3
        <3> QED
            BY <1>0, <1>2, <3>1
    <2>5. \A i \in (k + 1)..m : i \in 1..(n + 1)
        BY <1>0, <2>4
    <2>6. b[m + 1] + WindowWidth >= t /\ \A i \in (k + 1)..m : b[i] + WindowWidth < t
        BY <1>5, <2>1, <2>2, <2>4, <2>5
    <2> QED
        BY <1>6, <1>7, <2>2, <2>4, <2>6 DEF old, u, w, b, n
<1>8. CASE ~(WindowWidth # 0 /\ t >= WindowWidth)
    <2>1. k \in k..n /\ k + 1 \in 1..(n + 1) /\ (k + 1)..k = {}
        BY <1>0
    <2>2. b[k + 1] + WindowWidth >= t \/ WindowWidth = 0
        BY <1>4, <1>5, <1>8, <2>1
    <2> QED
        BY <1>6, <1>8, <2>1, <2>2 DEF u, w, b, n
<1> QED
    BY <1>7, <1>8

\* WindowAdd keeps the window such an end.
LEMMA WindowAdds ==
    ASSUME DispatchAssumption, NEW a \in Seq(Nat), NEW c, NEW k, NEW w, WindowIs(w, a, c, k), NEW t \in Nat
    PROVE  \E m : WindowIs(WindowAdd(w, t, WindowWidth, MaxObservations), Append(a, t), c, m)
<1> DEFINE n == Len(a)
           b == Append(a, t)
           fresh == IF WindowWidth # 0 /\ t >= WindowWidth
                    THEN ExpireBefore(Append(w, t), t - WindowWidth) ELSE Append(w, t)
<1>0. n \in Nat /\ k \in 0..Len(a) /\ k \in Nat /\ k <= n
    BY LenProperties DEF WindowIs
<1>1. w = From(a, k) /\ \A i \in 1..k : MayBeGone(a, c, i)
    BY DEF WindowIs
<1>2. PICK m \in k..n :
        /\ fresh = From(b, m) /\ (b[m + 1] + WindowWidth >= t \/ WindowWidth = 0)
        /\ \A i \in (k + 1)..m : WindowWidth # 0 /\ b[i] + WindowWidth < t
    BY <1>0, <1>1, FreshAfter
<1>3. /\ b \in Seq(Nat) /\ Len(b) = n + 1 /\ b[n + 1] = t
      /\ \A i \in 1..n : b[i] = a[i]
    BY AppendProperties
<1>4. WindowAdd(w, t, WindowWidth, MaxObservations) = EnforceLimits(fresh, MaxObservations)
    BY DEF WindowAdd
<1> DEFINE M == MaxObservations
           l == IF (n + 1) - m > M THEN (n + 1) - M ELSE m
<1>5. M \in Nat /\ WindowWidth \in Nat
    BY DEF DispatchAssumption
<1> HIDE DEF fresh, b, n, M
<1>6. /\ m \in Nat /\ k <= m /\ m <= n
      /\ l \in Nat /\ m <= l /\ l <= n + 1 /\ (n + 1) - l <= M
      /\ \A i \in (m + 1)..l : (n + 1) - i >= M
    <2>1. m \in Nat /\ k <= m /\ m <= n
        BY <1>0
    <2>2. CASE (n + 1) - m > M
        BY <1>0, <1>5, <2>1, <2>2
    <2>3. CASE ~((n + 1) - m > M)
        BY <1>0, <1>5, <2>1, <2>3
    <2> QED
        BY <2>1, <2>2, <2>3
<1>7. EnforceLimits(fresh, M) = From(b, l)
    <2>1. m \in 0..Len(b) /\ l \in m..Len(b)
        <3> HIDE DEF l
        <3> QED
            BY <1>0, <1>3, <1>6
    <2>2. Len(fresh) = (n + 1) - m
        BY <1>2, <1>3, <2>1, EndOf
    <2>3. CASE (n + 1) - m > M
        <3>1. SubSeq(fresh, l - m + 1, Len(fresh)) = From(b, l)
            BY <1>2, <1>3, <2>1, EndOfEnd
        <3>2. l - m + 1 = Len(fresh) - M + 1
            <4>1. l = (n + 1) - M
                BY <2>3
            <4>2. n \in Int /\ m \in Int /\ M \in Int
                BY <1>0, <1>5, <1>6
            <4> HIDE DEF l
            <4> QED
                BY <2>2, <4>1, <4>2
        <3> QED
            BY <2>2, <2>3, <3>1, <3>2 DEF EnforceLimits
    <2>4. CASE ~((n + 1) - m > M)
        BY <1>2, <2>2, <2>4 DEF EnforceLimits
    <2> QED
        BY <2>3, <2>4
<1> HIDE DEF l
<1>8. ASSUME NEW i \in 1..l PROVE MayBeGone(b, c, i)
    <2>1. CASE i <= k
        <3>0. i \in 1..k /\ i \in 1..n
            BY <1>0, <2>1
        <3>1. b[i] = a[i] /\ MayBeGone(a, c, i)
            BY <1>1, <1>3, <3>0
        <3>2. ASSUME n - i >= M PROVE MayBeGone(b, c, i)
            <4>1. (n + 1) - i >= M
                BY <1>0, <1>5, <3>0, <3>2
            <4> QED
                BY <1>3, <4>1 DEF MayBeGone, M
        <3>3. ASSUME WindowWidth # 0, NEW j \in (i + 1)..n, a[i] + WindowWidth < a[j] PROVE MayBeGone(b, c, i)
            <4>0. j \in (i + 1)..(n + 1) /\ j \in 1..n
                BY <1>0, <3>0
            <4>1. j \in (i + 1)..(n + 1) /\ b[j] = a[j]
                BY <1>3, <4>0
            <4> QED
                BY <1>3, <3>1, <3>3, <4>1 DEF MayBeGone
        <3> QED
            BY <3>1, <3>2, <3>3 DEF MayBeGone, M, n
    <2>2. CASE i > k /\ i <= m
        <3>1. i \in (k + 1)..m /\ n + 1 \in (i + 1)..(n + 1)
            BY <1>0, <1>6, <2>2
        <3>2. WindowWidth # 0 /\ b[i] + WindowWidth < b[n + 1]
            BY <1>2, <1>3, <3>1
        <3> QED
            BY <1>3, <3>1, <3>2 DEF MayBeGone
    <2>3. CASE i > m
        <3>1. i \in (m + 1)..l
            BY <1>6, <2>3
        <3> QED
            BY <1>3, <1>6, <3>1 DEF MayBeGone, M
    <2> QED
        BY <1>0, <1>6, <2>1, <2>2, <2>3
<1>9. WindowWidth # 0 => \E i \in 1..(l + 1) : b[i] + WindowWidth >= b[n + 1]
    <2>1. m + 1 \in 1..(l + 1)
        BY <1>6
    <2> QED
        BY <1>2, <1>3, <2>1
<1>10. WindowIs(From(b, l), b, c, l)
    <2>1. l \in 0..Len(b) /\ Len(b) - l <= MaxObservations
        BY <1>3, <1>6 DEF M
    <2> QED
        BY <1>3, <1>8, <1>9, <2>1 DEF WindowIs
<1> QED
    BY <1>4, <1>7, <1>10 DEF M, b

\* So does expire_before().
LEMMA WindowCuts ==
    ASSUME NEW a \in Seq(Nat), NEW c, NEW k, NEW w, WindowIs(w, a, c, k), NEW t \in Nat, DispatchAssumption
    PROVE  \E m : WindowIs(ExpireBefore(w, t), a, c \cup {[after |-> Len(a), time |-> t]}, m)
<1> DEFINE n == Len(a)
           d == c \cup {[after |-> n, time |-> t]}
<1>0. n \in Nat /\ k \in 0..n /\ k \in Nat /\ k <= n
    BY LenProperties DEF WindowIs
<1>1. w = From(a, k) /\ \A i \in 1..k : MayBeGone(a, c, i)
    BY DEF WindowIs
<1>2. PICK m \in k..n :
        /\ ExpireBefore(w, t) = From(a, m)
        /\ \A i \in (k + 1)..m : a[i] < t
    BY <1>0, <1>1, ExpireCuts
<1>3. MaxObservations \in Nat
    BY DEF DispatchAssumption
<1>4. n - k <= MaxObservations /\ (k < n /\ WindowWidth # 0 => \E i \in 1..(k + 1) : a[i] + WindowWidth >= a[n])
    BY DEF WindowIs
<1> HIDE DEF n
<1>5. m \in 0..n /\ k <= m /\ m <= n /\ n - m <= MaxObservations /\ (m < n => k < n)
    <2>1. m \in Int /\ k <= m /\ m <= n
        BY <1>0
    <2>2. m \in 0..n /\ (m < n => k < n)
        BY <1>0, <2>1
    <2>3. n - m <= MaxObservations
        <3>1. n - k <= MaxObservations
            BY <1>4
        <3> QED
            BY <1>0, <1>3, <2>1, <3>1
    <2> QED
        BY <2>1, <2>2, <2>3
<1>6. ASSUME NEW i \in 1..m PROVE MayBeGone(a, d, i)
    <2>1. CASE i <= k
        <3>1. MayBeGone(a, c, i)
            BY <1>1, <2>1
        <3> QED
            BY <3>1 DEF MayBeGone
    <2>2. CASE i > k
        <3>1. i \in (k + 1)..m /\ i <= n
            BY <1>0, <1>5, <2>2
        <3>2. a[i] < t
            BY <1>2, <3>1
        <3>3. [after |-> n, time |-> t] \in d
            OBVIOUS
        <3> HIDE DEF d
        <3> QED
            BY <3>1, <3>2, <3>3 DEF MayBeGone
    <2> QED
        BY <1>0, <2>1, <2>2
<1> HIDE DEF d
<1>7. m < n /\ WindowWidth # 0 => \E i \in 1..(m + 1) : a[i] + WindowWidth >= a[n]
    <2>1. \A i \in 1..(k + 1) : i \in 1..(m + 1)
        BY <1>0, <1>5
    <2> QED
        BY <1>4, <1>5, <2>1
<1>8. WindowIs(From(a, m), a, d, m)
    BY <1>5, <1>6, <1>7 DEF WindowIs, n
<1> QED
    BY <1>2, <1>8 DEF d, n

\* An empty window of nothing.
LEMMA WindowEmpty == ASSUME DispatchAssumption PROVE WindowIs(<<>>, <<>>, {}, 0)
<1>1. From(<<>>, 0) = <<>>
    <2>1. SubSeq(<<>>, 1, 0) = <<>>
        BY SubSeqEmpty
    <2> QED
        BY <2>1 DEF From
<1>2. MaxObservations \in Nat
    BY DEF DispatchAssumption
<1> QED
    BY <1>1, <1>2 DEF WindowIs

\* Such a window is exact.
LEMMA WindowIsExact ==
    ASSUME NEW a \in Seq(Nat), NEW c, NEW k, NEW w, WindowIs(w, a, c, k)
    PROVE  WindowExact(w, a, c, WindowWidth, MaxObservations)
<1> DEFINE n == Len(a)
<1>1. n \in Nat /\ k \in 0..n /\ w = From(a, k)
    BY LenProperties DEF WindowIs
<1>2. Len(w) = n - k /\ w \in Seq(Nat) /\ \A i \in 1..(n - k) : w[i] = a[k + i]
    BY <1>1, EndOf
<1> HIDE DEF n
<1>3. n - Len(w) = k /\ (w # <<>> => k < n) /\ (w # <<>> => w[Len(w)] = a[n])
    <2>1. n - Len(w) = k
        BY <1>1, <1>2
    <2>2. ASSUME w # <<>> PROVE k < n /\ w[Len(w)] = a[n]
        <3>1. Len(w) # 0 /\ Len(w) \in Nat
            BY <1>2, <2>2, EmptySeq
        <3>2. k < n /\ n - k \in 1..(n - k) /\ k + (n - k) = n
            BY <1>1, <1>2, <3>1
        <3> QED
            BY <1>2, <3>2
    <2> QED
        BY <2>1, <2>2
<1>4. IsSuffix(w, a)
    BY <1>1, EndIsSuffix DEF n
<1>5. /\ Len(w) <= MaxObservations
      /\ \A i \in 1..(n - Len(w)) :
            \/ n - i >= MaxObservations
            \/ WindowWidth # 0 /\ \E j \in (i + 1)..n : a[i] + WindowWidth < a[j]
            \/ \E x \in c : i <= x.after /\ a[i] < x.time
    BY <1>2, <1>3 DEF WindowIs, MayBeGone, n
<1>6. w # <<>> /\ WindowWidth # 0 => \E i \in 1..((n - Len(w)) + 1) : a[i] + WindowWidth >= a[n]
    BY <1>3 DEF WindowIs, n
<1>7. WindowSnapshot(w).end = IF w = <<>> THEN 0 ELSE Last(a)
    BY <1>3 DEF WindowSnapshot, Last, n
<1> QED
    BY <1>4, <1>5, <1>6, <1>7 DEF WindowExact, Last, n

-----------------------------------------------------------------------------
(* EventDispatcher.                                                        *)

Handler == {"registry", "links", "window", "user"}

Recorded(r) == [time |-> r.time, packet |-> r.packet]

AllEvents == Events \cup Relayed \cup UNION {{Recorded(a[i]) : i \in DOMAIN a} : a \in Archives}

\* A call of publish() under way has called the first of the handlers it copied.
Calls ==
    {c \in [event : AllEvents, copy : Seq(Handler), called : Seq(Handler)] :
        Len(c.called) <= Len(c.copy) /\ \A i \in 1..Len(c.called) : c.called[i] = c.copy[i]}

DeliveryInv ==
    /\ handlers \in Seq(Handler) /\ calls \in Seq(Calls)
    /\ DeliveryExact

\* A packet that is published has a size and an observation.
LEMMA EventTyped ==
    ASSUME DispatchAssumption, NEW e \in AllEvents
    PROVE  e.packet.payload \in Nat /\ e.packet.sampled \in Nat
<1>1. CASE e \in Events \cup Relayed
    BY <1>1 DEF DispatchAssumption, IsPacket
<1>2. CASE \E a \in Archives : \E i \in DOMAIN a : e = Recorded(a[i])
    <2>1. PICK a \in Archives : \E i \in DOMAIN a : e = Recorded(a[i])
        BY <1>2
    <2>2. PICK i \in DOMAIN a : e = Recorded(a[i])
        BY <2>1
    <2>3. e.packet = a[i].packet /\ IsPacket(a[i].packet)
        BY <2>2 DEF Recorded, DispatchAssumption
    <2> QED
        BY <2>3 DEF IsPacket
<1> QED
    BY <1>1, <1>2 DEF AllEvents

\* A publish() that begins has called nobody.
LEMMA CallBegins ==
    ASSUME DeliveryInv, NEW e \in AllEvents
    PROVE  PublishCall(e) \in Calls /\ PublishCall(e).event = e
<1>1. <<>> \in Seq(Handler) /\ Len(<<>>) = 0
    BY EmptySeq
<1>2. Len(handlers) \in Nat
    BY LenProperties DEF DeliveryInv
<1> QED
    BY <1>1, <1>2 DEF PublishCall, Calls, DeliveryInv

\* The handler whose turn it is comes next in the copied list.
LEMMA TurnTaken ==
    ASSUME DeliveryInv, NEW h \in Handler, Turn(h)
    PROVE  /\ Advanced(h) \in Seq(Calls) /\ Len(Advanced(h)) = Len(calls) /\ Advanced(h) # <<>>
           /\ \A i \in 1..Len(calls) : Advanced(h)[i].event = calls[i].event
           /\ Len(calls) \in Nat /\ Len(calls) >= 1 /\ Event \in AllEvents
<1> DEFINE n == Len(calls)
           c == calls[n]
           k == Len(c.called)
           d == [c EXCEPT !.called = Append(@, h)]
<1>1. calls \in Seq(Calls) /\ calls # <<>> /\ n \in Nat /\ n >= 1 /\ n \in 1..n
    <2>1. calls \in Seq(Calls) /\ calls # <<>>
        BY DEF DeliveryInv, Turn
    <2>2. n \in Nat \ {0}
        BY <2>1, EmptySeq
    <2> QED
        BY <2>1, <2>2
<1>2. c \in Calls /\ Last(calls) = c
    BY <1>1, ElementOfSeq DEF Last
<1>3. /\ c.event \in AllEvents /\ c.copy \in Seq(Handler) /\ c.called \in Seq(Handler)
      /\ k <= Len(c.copy) /\ \A i \in 1..k : c.called[i] = c.copy[i]
    BY <1>2 DEF Calls
<1>4. Advanced(h) = [calls EXCEPT ![n] = d]
    BY DEF Advanced
<1>5. d = [event |-> c.event, copy |-> c.copy, called |-> Append(c.called, h)]
    <2>1. c \in [event : AllEvents, copy : Seq(Handler), called : Seq(Handler)]
        BY <1>2 DEF Calls
    <2>2. d = [c EXCEPT !.called = Append(c.called, h)]
        OBVIOUS
    <2> HIDE DEF c
    <2>3. \A u : [c EXCEPT !.called = u] = [event |-> c.event, copy |-> c.copy, called |-> u]
        BY <2>1
    <2> HIDE DEF d
    <2> QED
        BY <2>2, <2>3, Zenon
<1>6. Pending(c) # <<>> /\ Head(Pending(c)) = h
    BY <1>2 DEF Turn
<1> HIDE DEF d, c, n
<1>7. k \in Nat /\ Len(c.copy) \in Nat
    BY <1>3, LenProperties
<1>8. k < Len(c.copy) /\ c.copy[k + 1] = h
    <2> DEFINE l == Len(c.copy)
    <2>1. Pending(c) = SubSeq(c.copy, k + 1, l)
        BY DEF Pending
    <2>2. k + 1 \in Int /\ l \in Int
        BY <1>7
    <2>3. ~(l < k + 1)
        BY <1>6, <2>1, <2>2, SubSeqEmpty
    <2>4. k + 1 \in 1..l /\ l \in (k + 1)..l
        BY <1>7, <2>3
    <2>5. Head(SubSeq(c.copy, k + 1, l)) = c.copy[k + 1]
        BY <1>3, <2>4, HeadTailOfSubSeq
    <2> QED
        BY <1>6, <1>7, <2>1, <2>3, <2>5
<1>9. d \in Calls
    <2> DEFINE r == Append(c.called, h)
    <2>1. r \in Seq(Handler) /\ Len(r) = k + 1 /\ r[k + 1] = h /\ \A i \in 1..k : r[i] = c.called[i]
        BY <1>3, AppendProperties
    <2> HIDE DEF r
    <2>2. Len(r) <= Len(c.copy)
        BY <1>7, <1>8, <2>1
    <2>3. ASSUME NEW i \in 1..Len(r) PROVE r[i] = c.copy[i]
        <3>1. i \in 1..k \/ i = k + 1
            BY <1>7, <2>1
        <3> QED
            BY <1>3, <1>8, <2>1, <3>1
    <2>4. d = [event |-> c.event, copy |-> c.copy, called |-> r]
        BY <1>5 DEF r
    <2> QED
        BY <1>3, <2>1, <2>2, <2>3, <2>4 DEF Calls
<1>10. d.event = c.event
    BY <1>5
<1>11. /\ [calls EXCEPT ![n] = d] \in Seq(Calls) /\ Len([calls EXCEPT ![n] = d]) = n
       /\ \A i \in 1..n : [calls EXCEPT ![n] = d][i] = IF i = n THEN d ELSE calls[i]
    BY <1>1, <1>9, ExceptSeq DEF n
<1>12. Advanced(h) # <<>>
    BY <1>1, <1>4, <1>11
<1>13. \A i \in 1..n : Advanced(h)[i].event = calls[i].event
    BY <1>4, <1>10, <1>11 DEF c
<1>14. Event \in AllEvents
    BY <1>2, <1>3 DEF Event
<1> QED
    BY <1>1, <1>4, <1>11, <1>12, <1>13, <1>14 DEF n

\* A publish() that returns has called all it copied.
LEMMA CallReturns ==
    ASSUME DeliveryInv, calls # <<>>, Pending(Last(calls)) = <<>>
    PROVE  /\ Last(calls).called = Last(calls).copy /\ Event \in AllEvents
           /\ Front(calls) \in Seq(Calls) /\ Len(Front(calls)) = Len(calls) - 1
           /\ Len(calls) \in Nat /\ Len(calls) >= 1
<1> DEFINE n == Len(calls)
           c == calls[n]
           k == Len(c.called)
           l == Len(c.copy)
<1>1. calls \in Seq(Calls) /\ n \in Nat /\ n >= 1 /\ n \in 1..n
    <2>1. calls \in Seq(Calls)
        BY DEF DeliveryInv
    <2>2. n \in Nat \ {0}
        BY <2>1, EmptySeq
    <2> QED
        BY <2>1, <2>2
<1>2. c \in Calls /\ Last(calls) = c
    BY <1>1, ElementOfSeq DEF Last
<1>3. /\ c.event \in AllEvents /\ c.copy \in Seq(Handler) /\ c.called \in Seq(Handler)
      /\ k <= l /\ \A i \in 1..k : c.called[i] = c.copy[i]
    BY <1>2 DEF Calls
<1>4. SubSeq(c.copy, k + 1, l) = <<>>
    BY <1>2 DEF Pending
<1>5. k \in Nat /\ l \in Nat
    BY <1>3, LenProperties
<1> HIDE DEF c, n
<1>6. k = l
    <2> SUFFICES ASSUME k # l PROVE FALSE
        OBVIOUS
    <2> DEFINE m == k + 1
               s == SubSeq(c.copy, m, l)
    <2>1. m \in Int /\ l \in Int /\ m <= l /\ m >= 1 /\ l - m + 1 # 0
        BY <1>3, <1>5
    <2>2. \A i \in m..l : c.copy[i] \in Handler
        BY <1>3, <1>5, <2>1, ElementOfSeq
    <2>3. s = <<>>
        BY <1>4
    <2> HIDE DEF m
    <2>4. Len(s) = IF m <= l THEN l - m + 1 ELSE 0
        BY <2>1, <2>2, SubSeqProperties
    <2> HIDE DEF s
    <2> QED
        BY <2>1, <2>3, <2>4
<1>7. c.called = c.copy
    BY <1>3, <1>6, SeqEqual
<1>8. Front(calls) \in Seq(Calls) /\ Len(Front(calls)) = n - 1
    <2> DEFINE m == n - 1
    <2>1. m \in Nat /\ m <= n /\ 1 \in Int /\ m \in Int /\ (IF 1 <= m THEN m - 1 + 1 ELSE 0) = m
        BY <1>1
    <2>2. \A i \in 1..m : calls[i] \in Calls
        BY <1>1, <2>1, ElementOfSeq DEF n
    <2>3. Front(calls) = SubSeq(calls, 1, m)
        BY DEF Front, n
    <2> HIDE DEF m
    <2>4. SubSeq(calls, 1, m) \in Seq(Calls) /\ Len(SubSeq(calls, 1, m)) = IF 1 <= m THEN m - 1 + 1 ELSE 0
        BY <2>1, <2>2, SubSeqProperties
    <2> QED
        BY <2>1, <2>3, <2>4 DEF m
<1> QED
    BY <1>1, <1>2, <1>3, <1>7, <1>8 DEF Event, n

\* What the steps leave alone.
LEMMA DeliverySame ==
    ASSUME DeliveryInv, handlers' \in Seq(Handler), calls' \in Seq(Calls), done' = done
    PROVE  DeliveryInv'
BY DEF DeliveryInv, DeliveryExact

\* One call alone.
LEMMA OneCall ==
    ASSUME DeliveryInv, NEW e \in AllEvents
    PROVE  <<PublishCall(e)>> \in Seq(Calls)
<1>1. PublishCall(e) \in Calls
    BY CallBegins
<1> QED
    BY <1>1

\* The steps of a handler.
LEMMA HandlerDelivers ==
    ASSUME DispatchAssumption, DeliveryInv, HandlerStep
    PROVE  DeliveryInv'
<1>0. handlers \in Seq(Handler) /\ calls \in Seq(Calls) /\ <<>> \in Seq(Handler) /\ <<>> \in Seq(Calls)
    BY DEF DeliveryInv
<1>1. ASSUME NEW h \in Handler, Turn(h), calls' = Advanced(h), handlers' \in Seq(Handler), done' = done
      PROVE  DeliveryInv'
    <2>1. calls' \in Seq(Calls)
        BY <1>1, TurnTaken
    <2> QED
        BY <1>1, <2>1, DeliverySame
<1>2. CASE RegistryHandler
    BY <1>0, <1>1, <1>2 DEF RegistryHandler, Handler
<1>3. CASE LinkHandler
    BY <1>0, <1>1, <1>3 DEF LinkHandler, Handler
<1>4. CASE WindowHandler
    BY <1>0, <1>1, <1>4 DEF WindowHandler, Handler
<1>5. CASE UserReturns
    BY <1>0, <1>1, <1>5 DEF UserReturns, Handler
<1>6. CASE UserClears
    BY <1>0, <1>1, <1>6 DEF UserClears, Handler
<1>7. ASSUME NEW h \in {"registry", "user"}, UserSubscribes(h) PROVE DeliveryInv'
    <2>1. h \in Handler /\ handlers' = Append(handlers, h)
        BY <1>7 DEF UserSubscribes, Handler
    <2>2. handlers' \in Seq(Handler)
        BY <1>0, <2>1, AppendProperties
    <2> QED
        BY <1>1, <1>7, <2>2 DEF UserSubscribes, Handler
<1>8. CASE UserThrows
    <2>1. calls' = <<>> /\ handlers' = handlers /\ done' = done
        BY <1>8 DEF UserThrows
    <2> QED
        BY <1>0, <2>1, DeliverySame
<1>9. ASSUME NEW e \in Relayed, UserPublishes(e) PROVE DeliveryInv'
    <2>1. Advanced("user") \in Seq(Calls)
        BY <1>9, TurnTaken DEF UserPublishes, Handler
    <2>2. PublishCall(e) \in Calls
        BY CallBegins DEF AllEvents
    <2>3. Append(Advanced("user"), PublishCall(e)) \in Seq(Calls)
        BY <2>1, <2>2, AppendProperties
    <2>4. calls' = Append(Advanced("user"), PublishCall(e)) /\ handlers' = handlers /\ done' = done
        BY <1>9 DEF UserPublishes
    <2> QED
        BY <1>0, <2>3, <2>4, DeliverySame
<1>10. CASE PublishReturns
    <2>1. calls # <<>> /\ Pending(Last(calls)) = <<>> /\ calls' = Front(calls) /\ handlers' = handlers
        BY <1>10 DEF PublishReturns
    <2>2. done' = done \cup {[wanted |-> Last(calls).copy, called |-> Last(calls).called]}
        BY <1>10 DEF PublishReturns
    <2>3. Last(calls).called = Last(calls).copy /\ Front(calls) \in Seq(Calls)
        BY <2>1, CallReturns
    <2>4. DeliveryExact'
        <3> DEFINE r == [wanted |-> Last(calls).copy, called |-> Last(calls).called]
        <3>1. r.called = r.wanted
            BY <2>3
        <3> HIDE DEF r
        <3> QED
            BY <2>2, <3>1 DEF DeliveryInv, DeliveryExact, r
    <2> QED
        BY <1>0, <2>1, <2>3, <2>4 DEF DeliveryInv
<1> QED
    BY <1>2, <1>3, <1>4, <1>5, <1>6, <1>7, <1>8, <1>9, <1>10 DEF HandlerStep

\* Every step keeps the calls under way prefixes of what they copied, and the finished ones whole.
LEMMA NextDelivers ==
    ASSUME DispatchAssumption, DeliveryInv, archive \in Archives, replay.seen \in Nat, [NextDispatch]_dispatchVars
    PROVE  DeliveryInv'
<1>0. handlers \in Seq(Handler) /\ calls \in Seq(Calls) /\ <<>> \in Seq(Handler) /\ <<>> \in Seq(Calls)
    BY DEF DeliveryInv
<1>1. ASSUME UNCHANGED <<calls, done>>, handlers' = handlers \/ handlers' = <<>> PROVE DeliveryInv'
    BY <1>0, <1>1, DeliverySame
<1>2. ASSUME NEW e \in Events, Publish(e) PROVE DeliveryInv'
    <2>1. calls' = <<PublishCall(e)>> /\ handlers' = handlers /\ done' = done
        BY <1>2 DEF Publish
    <2>2. <<PublishCall(e)>> \in Seq(Calls)
        BY OneCall DEF AllEvents
    <2> QED
        BY <1>0, <2>1, <2>2, DeliverySame
<1>3. ASSUME NEW h \in {"registry", "links", "window", "user"}, Subscribe(h) PROVE DeliveryInv'
    <2>1. h \in Handler /\ handlers' = Append(handlers, h) /\ calls' = calls /\ done' = done
        BY <1>3 DEF Subscribe, Handler
    <2>2. handlers' \in Seq(Handler)
        BY <1>0, <2>1, AppendProperties
    <2> QED
        BY <1>0, <2>1, <2>2, DeliverySame
<1>4. CASE ClearHandlers
    BY <1>1, <1>4 DEF ClearHandlers
<1>5. CASE ReplayStep
    <2>1. CASE ReplayRecord
        <3> DEFINE r == archive[replay.seen + 1]
        <3>1. replay.seen + 1 \in DOMAIN archive
            BY <2>1 DEF ReplayRecord, DispatchAssumption, IsList
        <3>2. Recorded(r) \in AllEvents
            BY <3>1 DEF AllEvents
        <3>3. <<PublishCall(Recorded(r))>> \in Seq(Calls)
            BY <3>2, OneCall
        <3>4. calls' \in {calls, <<PublishCall(Recorded(r))>>} /\ handlers' = handlers /\ done' = done
            BY <2>1 DEF ReplayRecord, Recorded
        <3> HIDE DEF r
        <3> QED
            BY <1>0, <3>3, <3>4, DeliverySame
    <2>2. CASE ReplayStops
        BY <1>1, <2>2 DEF ReplayStops
    <2> QED
        BY <1>5, <2>1, <2>2 DEF ReplayStep
<1>6. CASE RegistryCalls
    <2>1. UNCHANGED <<calls, done, handlers>>
        BY <1>6 DEF RegistryCalls, RegistryCall
    <2> QED
        BY <1>1, <2>1
<1>7. ASSUME NEW s \in Steps, AddStep(s) PROVE DeliveryInv'
    BY <1>1, <1>7 DEF AddStep
<1>8. CASE ClearSteps \/ ClearLinks \/ ClearWindow
    BY <1>1, <1>8 DEF ClearSteps, ClearLinks, ClearWindow
<1>9. ASSUME NEW t \in Cuts, CutWindow(t) PROVE DeliveryInv'
    BY <1>1, <1>9 DEF CutWindow
<1>10. CASE UNCHANGED dispatchVars
    BY <1>1, <1>10 DEF dispatchVars
<1> QED
    BY HandlerDelivers, <1>2, <1>3, <1>4, <1>5, <1>6, <1>7, <1>8, <1>9, <1>10 DEF NextDispatch

-----------------------------------------------------------------------------
(* The views.                                                              *)

ViewsInv ==
    /\ IsStepList(steps) /\ added \in Seq(Nat)
    /\ \E k : WindowIs(window, added, cuts, k)

\* Handlers and callers keep the window an end of what it was given.
LEMMA NextViews ==
    ASSUME DispatchAssumption, DeliveryInv, ViewsInv, [NextDispatch]_dispatchVars
    PROVE  ViewsInv'
<1>0. IsStepList(steps) /\ added \in Seq(Nat) /\ \E k : WindowIs(window, added, cuts, k)
    BY DEF ViewsInv
<1>1. PICK k : WindowIs(window, added, cuts, k)
    BY <1>0
<1>2. ASSUME UNCHANGED <<window, added, cuts>>, IsStepList(steps') PROVE ViewsInv'
    BY <1>0, <1>2 DEF ViewsInv
<1>3. CASE WindowHandler
    <2>1. Event \in AllEvents
        BY <1>3, TurnTaken DEF WindowHandler, Handler
    <2> DEFINE t == Event.packet.sampled
    <2>2. t \in Nat
        BY <2>1, EventTyped
    <2>3. /\ window' = WindowAdd(window, t, WindowWidth, MaxObservations)
          /\ added' = Append(added, t) /\ cuts' = cuts /\ steps' = steps
        BY <1>3 DEF WindowHandler
    <2> HIDE DEF t
    <2>4. \E m : WindowIs(WindowAdd(window, t, WindowWidth, MaxObservations), Append(added, t), cuts, m)
        BY <1>0, <1>1, <2>2, WindowAdds
    <2>5. added' \in Seq(Nat)
        BY <1>0, <2>2, <2>3, AppendProperties
    <2> QED
        BY <1>0, <2>3, <2>4, <2>5 DEF ViewsInv
<1>4. ASSUME NEW t \in Cuts, CutWindow(t) PROVE ViewsInv'
    <2>1. t \in Nat
        BY DEF DispatchAssumption
    <2>2. /\ window' = ExpireBefore(window, t)
          /\ cuts' = cuts \cup {[after |-> Len(added), time |-> t]} /\ added' = added /\ steps' = steps
        BY <1>4 DEF CutWindow
    <2>3. \E m : WindowIs(ExpireBefore(window, t), added, cuts \cup {[after |-> Len(added), time |-> t]}, m)
        BY <1>0, <1>1, <2>1, WindowCuts
    <2> QED
        BY <1>0, <2>2, <2>3 DEF ViewsInv
<1>5. CASE ClearWindow
    <2>1. window' = <<>> /\ added' = <<>> /\ cuts' = {} /\ steps' = steps
        BY <1>5 DEF ClearWindow
    <2>2. WindowIs(<<>>, <<>>, {}, 0) /\ <<>> \in Seq(Nat)
        BY WindowEmpty
    <2> QED
        BY <1>0, <2>1, <2>2 DEF ViewsInv
<1>6. ASSUME NEW s \in Steps, AddStep(s) PROVE ViewsInv'
    <2>1. steps' = Append(steps, s) /\ UNCHANGED <<window, added, cuts>>
        BY <1>6 DEF AddStep
    <2>2. IsStepList(Append(steps, s))
        BY <1>0, AppendProperties DEF IsStepList
    <2> QED
        BY <1>2, <2>1, <2>2
<1>7. CASE ClearSteps
    <2>1. steps' = <<>> /\ UNCHANGED <<window, added, cuts>>
        BY <1>7 DEF ClearSteps
    <2>2. IsStepList(<<>>)
        BY DEF IsStepList
    <2> QED
        BY <1>2, <2>1, <2>2
<1>8. CASE HandlerStep /\ ~WindowHandler
    <2>1. UNCHANGED <<window, added, cuts, steps>>
        BY <1>8 DEF HandlerStep, RegistryHandler, LinkHandler, UserReturns, UserClears, UserThrows,
                    UserSubscribes, UserPublishes, PublishReturns, viewVars
    <2> QED
        BY <1>0, <1>2, <2>1
<1>9. CASE (\E e \in Events : Publish(e)) \/ (\E h \in {"registry", "links", "window", "user"} : Subscribe(h))
    <2>1. UNCHANGED <<window, added, cuts, steps>>
        BY <1>9 DEF Publish, Subscribe, viewVars
    <2> QED
        BY <1>0, <1>2, <2>1
<1>10. CASE ClearHandlers \/ ReplayStep \/ RegistryCalls \/ ClearLinks \/ UNCHANGED dispatchVars
    <2>1. UNCHANGED <<window, added, cuts, steps>>
        BY <1>10 DEF ClearHandlers, ReplayStep, ReplayRecord, ReplayStops, RegistryCalls, RegistryCall, ClearLinks,
                     viewVars, dispatchVars
    <2> QED
        BY <1>0, <1>2, <2>1
<1> QED
    BY <1>3, <1>4, <1>5, <1>6, <1>7, <1>8, <1>9, <1>10 DEF NextDispatch

-----------------------------------------------------------------------------
(* ReplayDriver and ReplayEngine.                                          *)

Chosen(a, n) == {i \in 1..n : WithinWindow(a[i].time)}

Sizes(p) == [i \in DOMAIN p |-> p[i].packet.payload]

\* p is what the first n records of a say within the window, in order.
IsChosen(p, a, n) ==
    /\ Len(p) = Cardinality(Chosen(a, n))
    /\ \A i \in Chosen(a, n) : p[Cardinality(Chosen(a, n) \cap 1..i)] = Recorded(a[i])

\* Chosen records are counted one by one.
LEMMA ChosenCounts ==
    ASSUME NEW a, NEW n \in Nat
    PROVE  /\ IsFiniteSet(Chosen(a, n)) /\ Cardinality(Chosen(a, n)) \in Nat
           /\ \A i \in Chosen(a, n) : Cardinality(Chosen(a, n) \cap 1..i) \in 1..Cardinality(Chosen(a, n))
<1> DEFINE C == Chosen(a, n)
<1>1. IsFiniteSet(1..n)
    BY FS_Interval
<1>2. C \subseteq 1..n
    BY DEF Chosen
<1> HIDE DEF C
<1>3. IsFiniteSet(C) /\ Cardinality(C) \in Nat
    BY <1>1, <1>2, FS_Subset, FS_CardinalityType
<1>4. ASSUME NEW i \in C PROVE Cardinality(C \cap 1..i) \in 1..Cardinality(C)
    <2> DEFINE B == C \cap 1..i
    <2>1. B \subseteq C /\ i \in B
        BY <1>2
    <2> HIDE DEF B
    <2>2. IsFiniteSet(B) /\ Cardinality(B) \in Nat /\ Cardinality(B) <= Cardinality(C)
        BY <1>3, <2>1, FS_Subset, FS_CardinalityType
    <2>3. Cardinality(B) # 0
        BY <2>1, <2>2, FS_EmptySet
    <2>4. Cardinality(B) \in 1..Cardinality(C)
        BY <1>3, <2>2, <2>3
    <2> QED
        BY <2>4 DEF B
<1> QED
    BY <1>3, <1>4 DEF C

\* A record out of the window changes nothing, one within it is published next.
LEMMA ChosenMore ==
    ASSUME NEW p \in Seq(AllEvents), NEW a, NEW n \in Nat, IsChosen(p, a, n), Recorded(a[n + 1]) \in AllEvents
    PROVE  /\ ~WithinWindow(a[n + 1].time) => IsChosen(p, a, n + 1)
           /\ WithinWindow(a[n + 1].time) => IsChosen(Append(p, Recorded(a[n + 1])), a, n + 1)
<1> DEFINE C == Chosen(a, n)
           D == Chosen(a, n + 1)
           m == Cardinality(C)
           e == Recorded(a[n + 1])
           q == Append(p, e)
<1>1. IsFiniteSet(C) /\ m \in Nat /\ \A i \in C : Cardinality(C \cap 1..i) \in 1..m
    BY ChosenCounts
<1>2. Len(p) = m /\ \A i \in C : p[Cardinality(C \cap 1..i)] = Recorded(a[i])
    BY DEF IsChosen
<1>3. ASSUME ~WithinWindow(a[n + 1].time) PROVE D = C
    BY <1>3 DEF Chosen
<1>4. ASSUME WithinWindow(a[n + 1].time) PROVE D = C \cup {n + 1} /\ n + 1 \notin C
    BY <1>4 DEF Chosen
<1>5. C \subseteq 1..n
    BY DEF Chosen
<1>6. /\ Len(q) = Len(p) + 1 /\ q[Len(p) + 1] = e
      /\ \A i \in 1..Len(p) : q[i] = p[i]
    BY AppendProperties
<1> HIDE DEF C, D, m, q, e
<1>7. ASSUME WithinWindow(a[n + 1].time) PROVE IsChosen(q, a, n + 1)
    <2>1. D = C \cup {n + 1} /\ n + 1 \notin C
        BY <1>4, <1>7
    <2>2. Cardinality(D) = m + 1
        BY <1>1, <2>1, FS_AddElement DEF m
    <2>3. ASSUME NEW i \in D PROVE q[Cardinality(D \cap 1..i)] = Recorded(a[i])
        <3>1. CASE i \in C
            <4>1. D \cap 1..i = C \cap 1..i
                BY <1>5, <2>1, <3>1
            <4>2. Cardinality(C \cap 1..i) \in 1..Len(p)
                BY <1>1, <1>2, <3>1
            <4> QED
                BY <1>2, <1>6, <3>1, <4>1, <4>2
        <3>2. CASE i = n + 1
            <4>0. 1..n \subseteq 1..i /\ n + 1 \in 1..i
                BY <3>2
            <4>1. D \cap 1..i = D
                BY <1>5, <2>1, <4>0
            <4> QED
                BY <1>2, <1>6, <2>2, <3>2, <4>1 DEF e
        <3> QED
            BY <2>1, <3>1, <3>2
    <2> QED
        BY <1>2, <1>6, <2>2, <2>3 DEF IsChosen, D
<1>8. ASSUME ~WithinWindow(a[n + 1].time) PROVE IsChosen(p, a, n + 1)
    BY <1>2, <1>3, <1>8 DEF IsChosen, D, C, m
<1> QED
    BY <1>7, <1>8 DEF q, e

\* The sizes of what has been seen do not change with what is published later.
LEMMA SizesSame ==
    ASSUME DispatchAssumption, NEW p \in Seq(AllEvents), NEW e \in AllEvents, NEW m \in Nat, m <= Len(p)
    PROVE  SumFunctionOnSet(Sizes(Append(p, e)), 1..m) = SumFunctionOnSet(Sizes(p), 1..m)
<1> DEFINE q == Append(p, e)
           f == Sizes(q)
           g == Sizes(p)
<1>1. q \in Seq(AllEvents) /\ Len(q) = Len(p) + 1 /\ \A i \in 1..Len(p) : q[i] = p[i]
    BY AppendProperties
<1>2. DOMAIN q = 1..Len(q) /\ DOMAIN p = 1..Len(p) /\ Len(p) \in Nat
    BY <1>1, LenProperties
<1> HIDE DEF q
<1>3. ASSUME NEW i \in 1..m PROVE f[i] = g[i]
    <2>1. i \in 1..Len(p) /\ i \in DOMAIN q /\ i \in DOMAIN p
        BY <1>1, <1>2
    <2> QED
        BY <1>1, <2>1 DEF Sizes
<1>4. IsFiniteSet(1..m)
    <2>1. 1 \in Int /\ m \in Int
        OBVIOUS
    <2> QED
        BY <2>1, FS_Interval
<1> HIDE DEF f, g
<1>5. SumFunctionOnSet(f, 1..m) = SumFunctionOnSet(g, 1..m)
    BY <1>3, <1>4, SumSame
<1> QED
    BY <1>5 DEF f, g, q

\* One packet more has been seen.
LEMMA SizesMore ==
    ASSUME DispatchAssumption, NEW p \in Seq(AllEvents), NEW m \in Nat, m + 1 <= Len(p)
    PROVE  /\ SumFunctionOnSet(Sizes(p), 1..m) + p[m + 1].packet.payload = SumFunctionOnSet(Sizes(p), 1..(m + 1))
           /\ SumFunctionOnSet(Sizes(p), 1..(m + 1)) \in Nat
<1> DEFINE f == Sizes(p)
           z == m + 1
<1>1. DOMAIN p = 1..Len(p) /\ Len(p) \in Nat /\ \A i \in 1..Len(p) : p[i] \in AllEvents
    BY LenProperties, ElementOfSeq
<1>2. \A i \in 1..Len(p) : f[i] \in Nat /\ f[i] = p[i].packet.payload
    BY <1>1, EventTyped DEF Sizes
<1>3. 1..(m + 1) = (1..m) \cup {z} /\ z \notin 1..m /\ z \in 1..Len(p)
    BY <1>1
<1>4. IsFiniteSet(1..m) /\ IsFiniteSet(1..(m + 1))
    <2>1. 1 \in Int /\ m \in Int /\ m + 1 \in Int
        OBVIOUS
    <2> QED
        BY <2>1, FS_Interval
<1>5. (\A i \in (1..m) \cup {z} : f[i] \in Nat) /\ (\A i \in 1..m : f[i] \in Nat)
    BY <1>1, <1>2, <1>3
<1>6. f[z] = p[m + 1].packet.payload
    BY <1>2, <1>3
<1> HIDE DEF f, z
<1>7. SumFunctionOnSet(f, (1..m) \cup {z}) = f[z] + SumFunctionOnSet(f, 1..m)
    BY <1>3, <1>4, <1>5, SumAdd
<1>8. SumFunctionOnSet(f, 1..m) \in Nat /\ f[z] \in Nat
    BY <1>4, <1>5, SumTyped
<1>9. SumFunctionOnSet(f, 1..(m + 1)) = f[z] + SumFunctionOnSet(f, 1..m)
    BY <1>3, <1>7
<1> QED
    BY SMTT(20), <1>6, <1>8, <1>9 DEF f

Replays == [status : {"none", "running", "finished", "failed"}, seen : Nat, emitted : Nat, bytes : Nat, published : Nat]

\* What a replay has done so far.
Replayed ==
    /\ replay.seen <= Len(archive) /\ \A i \in 1..replay.seen : archive[i].intact
    /\ IsChosen(published, archive, replay.seen)
    /\ replay.published = replay.emitted
    /\ replay.bytes = SumFunctionOnSet(Sizes(published), 1..replay.emitted)
    /\ replay.emitted <= Len(published) /\ Len(published) <= replay.emitted + 1
    /\ replay.status # "running" => calls = <<>>
    /\ replay.status # "failed" => (Len(published) = replay.emitted + 1 <=> calls # <<>>)
    /\ calls # <<>> => Len(calls) = 1 /\ calls[1].event = published[Len(published)]
    /\ replay.status = "finished" => replay.seen = Len(archive)

ReplayInv ==
    /\ archive \in Archives /\ published \in Seq(AllEvents) /\ replay \in Replays
    /\ replay.status # "none" => Replayed

\* A handler's turn does not show in a replay.
LEMMA TurnReplays ==
    ASSUME DeliveryInv, ReplayInv, NEW h \in Handler, Turn(h), calls' = Advanced(h),
           UNCHANGED <<archive, published, replay>>
    PROVE  ReplayInv'
<1>1. /\ Len(Advanced(h)) = Len(calls) /\ Advanced(h) # <<>> /\ calls # <<>>
      /\ Len(calls) \in Nat /\ Len(calls) >= 1
      /\ \A i \in 1..Len(calls) : Advanced(h)[i].event = calls[i].event
    BY TurnTaken DEF Turn
<1>2. ASSUME replay.status # "none" PROVE Replayed'
    <2>1. Len(calls) = 1 /\ calls[1].event = published[Len(published)] /\ replay.status = "running"
        BY <1>1, <1>2 DEF ReplayInv, Replayed
    <2>2. Advanced(h)[1].event = calls[1].event
        BY <1>1, <2>1
    <2> QED
        BY <1>1, <1>2, <2>1, <2>2 DEF ReplayInv, Replayed
<1> QED
    BY <1>2 DEF ReplayInv

\* Nor do steps that leave the dispatcher alone.
LEMMA OthersReplay ==
    ASSUME ReplayInv, UNCHANGED <<calls, archive, published, replay>>
    PROVE  ReplayInv'
BY DEF ReplayInv, Replayed

\* Live events are not replayed.
LEMMA LiveReplays ==
    ASSUME ReplayInv, replay.status = "none", UNCHANGED <<archive, replay>>, published' \in Seq(AllEvents)
    PROVE  ReplayInv'
BY DEF ReplayInv

\* A handler that throws ends the replay.
LEMMA ThrowReplays ==
    ASSUME ReplayInv, UserThrows
    PROVE  ReplayInv'
<1>1. /\ calls # <<>> /\ calls' = <<>> /\ UNCHANGED <<archive, published>>
      /\ replay' = IF replay.status = "running" THEN [replay EXCEPT !.status = "failed"] ELSE replay
    BY DEF UserThrows, Turn
<1>2. CASE replay.status = "none"
    BY <1>1, <1>2, LiveReplays DEF ReplayInv
<1>3. CASE replay.status # "none"
    <2>1. Replayed /\ replay.status = "running"
        BY <1>1, <1>3 DEF ReplayInv, Replayed
    <2>2. replay' = [replay EXCEPT !.status = "failed"] /\ replay \in Replays
        BY <1>1, <2>1 DEF ReplayInv
    <2>3. /\ replay' \in Replays /\ replay'.status = "failed" /\ replay'.seen = replay.seen
          /\ replay'.emitted = replay.emitted /\ replay'.bytes = replay.bytes /\ replay'.published = replay.published
        BY <2>2 DEF Replays
    <2>4. Replayed'
        BY <1>1, <2>1, <2>3 DEF Replayed
    <2> QED
        BY <1>1, <2>3, <2>4 DEF ReplayInv
<1> QED
    BY <1>2, <1>3

\* A publish() that returns adds its packet to the counts.
LEMMA ReturnReplays ==
    ASSUME DispatchAssumption, DeliveryInv, ReplayInv, PublishReturns
    PROVE  ReplayInv'
<1>1. /\ calls # <<>> /\ calls' = Front(calls) /\ UNCHANGED <<archive, published>>
      /\ replay' = IF replay.status # "running" THEN replay
                   ELSE [replay EXCEPT !.published = @ + 1, !.emitted = @ + 1, !.bytes = @ + Event.packet.payload]
    BY DEF PublishReturns
<1>2. CASE replay.status = "none"
    BY <1>1, <1>2, LiveReplays DEF ReplayInv
<1>3. CASE replay.status # "none"
    <2> DEFINE m == replay.emitted
               size == published[m + 1].packet.payload
    <2>1. Replayed /\ replay.status = "running" /\ replay \in Replays /\ published \in Seq(AllEvents)
        BY <1>1, <1>3 DEF ReplayInv, Replayed
    <2>2. m \in Nat /\ Len(published) = m + 1 /\ Len(calls) = 1 /\ calls[1].event = published[m + 1]
        BY <1>1, <2>1 DEF Replayed, Replays
    <2>3. Event = published[m + 1]
        BY <2>2 DEF Event, Last
    <2>4. replay' = [replay EXCEPT !.published = @ + 1, !.emitted = @ + 1, !.bytes = @ + size]
        BY <1>1, <2>1, <2>3
    <2>5. /\ SumFunctionOnSet(Sizes(published), 1..m) + size = SumFunctionOnSet(Sizes(published), 1..(m + 1))
          /\ SumFunctionOnSet(Sizes(published), 1..(m + 1)) \in Nat
        BY SMTT(20), <2>1, <2>2, SizesMore
    <2>6. /\ replay'.status = "running" /\ replay'.seen = replay.seen
          /\ replay'.emitted = m + 1 /\ replay'.published = replay.published + 1 /\ replay'.bytes = replay.bytes + size
        BY <2>1, <2>4 DEF Replays
    <2>7. replay'.bytes = SumFunctionOnSet(Sizes(published), 1..(m + 1)) /\ replay'.bytes \in Nat
        BY <2>1, <2>5, <2>6 DEF Replayed
    <2>8. replay' \in Replays
        <3>1. ASSUME NEW u \in Nat, NEW v \in Nat, NEW w \in Nat
              PROVE  [replay EXCEPT !.published = u, !.emitted = v, !.bytes = w] \in Replays
            BY <2>1 DEF Replays
        <3>2. replay.status \in {"running"} /\ replay.seen \in Nat /\ replay.published \in Nat /\ replay.emitted \in Nat
            BY <2>1 DEF Replays
        <3>3. replay.published + 1 \in Nat /\ replay.emitted + 1 \in Nat
            BY <3>2
        <3>4. replay.bytes + size \in Nat
            BY <2>6, <2>7
        <3> HIDE DEF size, m
        <3> QED
            BY <2>4, <3>1, <3>3, <3>4
    <2>9. calls' = <<>>
        <3>1. Front(calls) \in Seq(Calls) /\ Len(Front(calls)) = Len(calls) - 1
            BY <1>1, CallReturns DEF PublishReturns
        <3>2. Len(Front(calls)) = 0
            BY <2>2, <3>1
        <3> QED
            BY <1>1, <3>1, <3>2, EmptySeq
    <2>10. Replayed'
        <3>1. replay'.published = replay'.emitted
            BY <2>1, <2>6 DEF Replayed
        <3>2. replay'.emitted <= Len(published') /\ Len(published') <= replay'.emitted + 1 /\ Len(published') # replay'.emitted + 1
            BY <1>1, <2>2, <2>6
        <3>3. IsChosen(published', archive', replay'.seen)
            BY <1>1, <2>1, <2>6 DEF Replayed
        <3>4. replay'.seen <= Len(archive') /\ \A i \in 1..replay'.seen : archive'[i].intact
            BY <1>1, <2>1, <2>6 DEF Replayed
        <3>5. replay'.bytes = SumFunctionOnSet(Sizes(published'), 1..replay'.emitted)
            BY <1>1, <2>6, <2>7
        <3> QED
            BY <2>6, <2>9, <3>1, <3>2, <3>3, <3>4, <3>5 DEF Replayed
    <2> QED
        BY <1>1, <2>1, <2>8, <2>10 DEF ReplayInv
<1> QED
    BY <1>2, <1>3

\* The next record of the archive.
LEMMA RecordReplays ==
    ASSUME DispatchAssumption, DeliveryInv, ReplayInv, ReplayRecord
    PROVE  ReplayInv'
<1> DEFINE n == replay.seen
           r == archive[n + 1]
           e == Recorded(r)
           m == replay.emitted
<1>1. /\ replay.status = "running" /\ calls = <<>> /\ n < Len(archive) /\ r.intact /\ archive' = archive
      /\ replay' = [replay EXCEPT !.seen = @ + 1]
      /\ IF WithinWindow(r.time)
         THEN calls' = <<PublishCall(e)>> /\ published' = Append(published, e)
         ELSE calls' = calls /\ published' = published
    BY DEF ReplayRecord, ReplayRun, Recorded
<1>2. Replayed /\ replay \in Replays /\ archive \in Archives /\ published \in Seq(AllEvents)
    BY <1>1 DEF ReplayInv
<1>3. /\ replay' \in Replays /\ replay'.status = "running" /\ replay'.seen = n + 1 /\ n \in Nat /\ m \in Nat
      /\ replay'.emitted = m /\ replay'.bytes = replay.bytes /\ replay'.published = replay.published
    <2>1. n \in Nat /\ n + 1 \in Nat /\ m \in Nat
        BY <1>2 DEF Replays
    <2>2. replay' = [replay EXCEPT !.seen = n + 1]
        BY <1>1
    <2> DEFINE k == n + 1
    <2> HIDE DEF k
    <2>3. k \in Nat /\ replay' = [replay EXCEPT !.seen = k]
        BY <2>1, <2>2 DEF k
    <2>4. /\ replay' \in Replays /\ replay'.status = replay.status /\ replay'.seen = k
          /\ replay'.emitted = replay.emitted /\ replay'.bytes = replay.bytes /\ replay'.published = replay.published
        BY <1>2, <2>3 DEF Replays
    <2> QED
        BY <1>1, <2>1, <2>4 DEF k
<1>4. e \in AllEvents /\ Len(archive) \in Nat
    <2>1. Len(archive) \in Nat /\ DOMAIN archive = 1..Len(archive)
        BY <1>2 DEF DispatchAssumption, IsList
    <2>2. n + 1 \in DOMAIN archive
        BY SMTT(20), <1>1, <1>3, <2>1
    <2> QED
        BY <1>2, <2>1, <2>2 DEF AllEvents
<1>5. Len(published) \in Nat /\ Len(published) = m
    <2>1. Len(published) \in Nat
        BY <1>2, LenProperties
    <2> QED
        BY <1>1, <1>2, <1>3, <2>1 DEF Replayed
<1>6. /\ replay'.seen <= Len(archive') /\ \A i \in 1..replay'.seen : archive'[i].intact
      /\ replay'.published = replay'.emitted
    <2>1. \A i \in 1..(n + 1) : i \in 1..n \/ i = n + 1
        BY <1>3
    <2>2. \A i \in 1..n : archive[i].intact
        BY <1>2 DEF Replayed
    <2>3. n + 1 <= Len(archive)
        BY <1>1, <1>3, <1>4
    <2>4. replay.published = m
        BY <1>2 DEF Replayed
    <2> HIDE DEF n, m
    <2> QED
        BY <1>1, <1>3, <2>1, <2>2, <2>3, <2>4
<1>7. /\ ~WithinWindow(r.time) => IsChosen(published, archive, n + 1)
      /\ WithinWindow(r.time) => IsChosen(Append(published, e), archive, n + 1)
    <2>1. IsChosen(published, archive, n)
        BY <1>2 DEF Replayed
    <2> QED
        BY <1>2, <1>3, <1>4, <2>1, ChosenMore
<1>8. replay.bytes = SumFunctionOnSet(Sizes(published), 1..m)
    BY <1>2 DEF Replayed
<1>9. CASE WithinWindow(r.time)
    <2> DEFINE q == Append(published, e)
               c == PublishCall(e)
    <2>1. q \in Seq(AllEvents) /\ Len(q) = m + 1 /\ q[m + 1] = e
        BY <1>2, <1>4, <1>5, AppendProperties
    <2>2. c.event = e
        BY DEF PublishCall
    <2>3. calls' = <<c>> /\ published' = q
        BY <1>1, <1>9
    <2>4. SumFunctionOnSet(Sizes(q), 1..m) = SumFunctionOnSet(Sizes(published), 1..m)
        <3>1. m <= Len(published)
            BY <1>3, <1>5
        <3> QED
            BY <1>2, <1>3, <1>4, <3>1, SizesSame
    <2> HIDE DEF q, c, e, m, n
    <2>5. calls' # <<>> /\ Len(calls') = 1 /\ calls'[1] = c
        BY <2>3
    <2>6. Replayed'
        <3>1. m <= m + 1 /\ m + 1 <= m + 1
            BY <1>3
        <3>2. IsChosen(published', archive', replay'.seen)
            BY <1>1, <1>3, <1>7, <1>9, <2>3 DEF q
        <3>3. replay'.bytes = SumFunctionOnSet(Sizes(published'), 1..replay'.emitted)
            BY <1>3, <1>8, <2>3, <2>4
        <3>4. Len(published') = replay'.emitted + 1 /\ calls'[1].event = published'[Len(published')]
            BY <1>3, <2>1, <2>2, <2>3, <2>5
        <3> QED
            BY <1>3, <1>6, <2>5, <3>1, <3>2, <3>3, <3>4 DEF Replayed
    <2> QED
        BY <1>1, <1>2, <1>3, <2>1, <2>3, <2>6 DEF ReplayInv
<1>10. CASE ~WithinWindow(r.time)
    <2>1. calls' = <<>> /\ published' = published
        BY <1>1, <1>10
    <2> HIDE DEF e, m, n
    <2>2. Replayed'
        <3>1. m <= m /\ m <= m + 1 /\ m # m + 1
            BY <1>3
        <3>2. IsChosen(published', archive', replay'.seen)
            BY <1>1, <1>3, <1>7, <1>10, <2>1
        <3>3. replay'.bytes = SumFunctionOnSet(Sizes(published'), 1..replay'.emitted)
            BY <1>3, <1>8, <2>1
        <3>4. Len(published') = replay'.emitted
            BY <1>3, <1>5, <2>1
        <3> QED
            BY <1>3, <1>6, <2>1, <3>1, <3>2, <3>3, <3>4 DEF Replayed
    <2> QED
        BY <1>1, <1>2, <1>3, <2>1, <2>2 DEF ReplayInv
<1> QED
    BY <1>9, <1>10

\* The end of the archive, or a damaged record.
LEMMA StopReplays ==
    ASSUME DispatchAssumption, ReplayInv, ReplayStops
    PROVE  ReplayInv'
<1>1. /\ replay.status = "running" /\ calls = <<>> /\ UNCHANGED <<calls, archive, published>>
      /\ replay' = [replay EXCEPT !.status = IF replay.seen < Len(archive) THEN "failed" ELSE "finished"]
    BY DEF ReplayStops, ReplayRun
<1>2. Replayed /\ replay \in Replays /\ archive \in Archives /\ published \in Seq(AllEvents)
    BY <1>1 DEF ReplayInv
<1>3. /\ replay' \in Replays /\ replay'.status \in {"failed", "finished"} /\ replay'.seen = replay.seen
      /\ replay'.emitted = replay.emitted /\ replay'.bytes = replay.bytes /\ replay'.published = replay.published
      /\ replay'.status = "finished" => ~(replay.seen < Len(archive))
    BY <1>1, <1>2 DEF Replays
<1>4. replay'.status = "finished" => replay.seen = Len(archive)
    <2>1. Len(archive) \in Nat /\ replay.seen \in Nat
        BY <1>2 DEF DispatchAssumption, IsList, Replays
    <2> QED
        BY <1>2, <1>3, <2>1 DEF Replayed
<1>5. Replayed'
    BY <1>1, <1>2, <1>3, <1>4 DEF Replayed
<1> QED
    BY <1>1, <1>2, <1>3, <1>5 DEF ReplayInv

\* Every step keeps the replay's books.
LEMMA NextReplays ==
    ASSUME DispatchAssumption, DeliveryInv, ReplayInv, [NextDispatch]_dispatchVars
    PROVE  ReplayInv'
<1>0. published \in Seq(AllEvents)
    BY DEF ReplayInv
<1>1. ASSUME NEW e \in Events, Publish(e) PROVE ReplayInv'
    <2>1. replay.status = "none" /\ UNCHANGED <<archive, replay>> /\ published' = Append(published, e)
        BY <1>1 DEF Publish
    <2>2. published' \in Seq(AllEvents)
        BY <1>0, <2>1, AppendProperties DEF AllEvents
    <2> QED
        BY <2>1, <2>2, LiveReplays
<1>2. CASE RegistryHandler \/ LinkHandler \/ WindowHandler
    BY <1>2, TurnReplays DEF RegistryHandler, LinkHandler, WindowHandler, Handler
<1>3. CASE UserReturns \/ UserClears \/ \E h \in {"registry", "user"} : UserSubscribes(h)
    BY <1>3, TurnReplays DEF UserReturns, UserClears, UserSubscribes, Handler
<1>4. CASE UserThrows
    BY <1>4, ThrowReplays
<1>5. ASSUME NEW e \in Relayed, UserPublishes(e) PROVE ReplayInv'
    BY <1>0, <1>5, LiveReplays DEF UserPublishes
<1>6. CASE PublishReturns
    BY <1>6, ReturnReplays
<1>7. CASE ReplayStep
    BY <1>7, RecordReplays, StopReplays DEF ReplayStep
<1>8. CASE (\E h \in {"registry", "links", "window", "user"} : Subscribe(h)) \/ ClearHandlers
    BY <1>8, OthersReplay DEF Subscribe, ClearHandlers
<1>9. CASE RegistryCalls
    <2>1. UNCHANGED <<calls, archive, published, replay>>
        BY <1>9 DEF RegistryCalls, RegistryCall
    <2> QED
        BY <2>1, OthersReplay
<1>10. CASE (\E s \in Steps : AddStep(s)) \/ ClearSteps \/ ClearLinks \/ ClearWindow \/ (\E t \in Cuts : CutWindow(t))
    <2>1. UNCHANGED <<calls, archive, published, replay>>
        BY <1>10 DEF AddStep, ClearSteps, ClearLinks, ClearWindow, CutWindow
    <2> QED
        BY <2>1, OthersReplay
<1>11. CASE UNCHANGED dispatchVars
    BY <1>11, OthersReplay DEF dispatchVars
<1> QED
    BY <1>1, <1>2, <1>3, <1>4, <1>5, <1>6, <1>7, <1>8, <1>9, <1>10, <1>11 DEF NextDispatch, HandlerStep

\* What ReplayInv says is what ReplayExact does.
LEMMA ReplaysExactly ==
    ASSUME DispatchAssumption, ReplayInv
    PROVE  ReplayExact
<1> SUFFICES ASSUME replay.status # "none" PROVE ReplayExact
    BY DEF ReplayExact
<1> DEFINE n == replay.seen
           underway == Len(published) - replay.emitted
<1>1. Replayed /\ replay \in Replays /\ published \in Seq(AllEvents)
    BY DEF ReplayInv
<1>2. Len(published) \in Nat /\ replay.emitted \in Nat
    BY <1>1, LenProperties DEF Replays
<1>3. underway \in 0..1 /\ (underway = 1 <=> Len(published) = replay.emitted + 1)
    BY <1>1, <1>2 DEF Replayed
<1>4. replay.status # "failed" => (underway = 1 <=> calls # <<>>)
    <2> HIDE DEF underway
    <2> QED
        BY <1>1, <1>3 DEF Replayed
<1>5. /\ \A i \in 1..n : archive[i].intact
      /\ Len(published) = Cardinality(Chosen(archive, n))
      /\ \A i \in Chosen(archive, n) :
            published[Cardinality(Chosen(archive, n) \cap 1..i)] = [time |-> archive[i].time, packet |-> archive[i].packet]
    BY <1>1 DEF Replayed, IsChosen, Recorded
<1>6. /\ replay.published = replay.emitted
      /\ replay.bytes = SumFunctionOnSet([i \in DOMAIN published |-> published[i].packet.payload], 1..replay.emitted)
      /\ replay.status = "finished" => replay.seen = Len(archive)
    BY <1>1 DEF Replayed, Sizes
<1> QED
    BY <1>3, <1>4, <1>5, <1>6 DEF ReplayExact, Chosen

-----------------------------------------------------------------------------
(* FleetRegistry.                                                          *)

\* A set of numbers up to n that is not empty has its maximum in it.
LEMMA MaxOfSet ==
    ASSUME NEW n \in Nat, NEW S, S \subseteq 0..n, S # {}
    PROVE  Max(S) \in S /\ \A x \in S : x <= Max(S)
<1> DEFINE U == {n - x : x \in S}
<1>1. U \subseteq Nat /\ U # {}
    <2>1. \A x \in S : x \in 0..n
        OBVIOUS
    <2>2. \A x \in S : n - x \in Nat
        BY <2>1
    <2>3. PICK x \in S : TRUE
        OBVIOUS
    <2>4. n - x \in U
        BY <2>3
    <2> QED
        BY <2>2, <2>4
<1>2. PICK u \in U : \A v \in U : u <= v
    <2> HIDE DEF U
    <2> QED
        BY <1>1, LeastNumber
<1>3. PICK m \in S : u = n - m
    BY <1>2
<1>4. \A x \in S : m >= x
    BY <1>2, <1>3
<1>5. \E y \in S : \A x \in S : y >= x
    BY <1>4
<1>6. Max(S) \in S /\ \A x \in S : Max(S) >= x
    BY <1>5 DEF Max
<1> QED
    BY <1>6

\* The largest element of a set is its maximum.
LEMMA MaxIs ==
    ASSUME NEW S, S \subseteq Int, NEW m \in S, \A x \in S : x <= m
    PROVE  Max(S) = m
<1>1. \A k \in S : (\A x \in S : k >= x) => k = m
    OBVIOUS
<1>2. \A x \in S : m >= x
    OBVIOUS
<1> QED
    BY <1>1, <1>2 DEF Max

\* A list with one element more.
LEMMA ListAppend ==
    ASSUME NEW s, IsList(s), NEW e
    PROVE  /\ IsList(Append(s, e)) /\ Len(Append(s, e)) = Len(s) + 1 /\ Append(s, e)[Len(s) + 1] = e
           /\ \A i \in 1..Len(s) : Append(s, e)[i] = s[i]
           /\ DOMAIN s = 1..Len(s) /\ DOMAIN Append(s, e) = 1..(Len(s) + 1)
<1> DEFINE S == {s[i] : i \in 1..Len(s)} \cup {e}
<1>1. Len(s) \in Nat /\ s = [i \in 1..Len(s) |-> s[i]]
    BY DEF IsList
<1>2. \A i \in 1..Len(s) : s[i] \in S
    OBVIOUS
<1>3. e \in S
    OBVIOUS
<1> HIDE DEF S
<1>4. [i \in 1..Len(s) |-> s[i]] \in [1..Len(s) -> S]
    BY <1>2
<1>5. s \in Seq(S)
    BY <1>1, <1>4, IsASeq
<1>6. /\ Append(s, e) \in Seq(S) /\ Len(Append(s, e)) = Len(s) + 1
      /\ \A i \in 1..Len(s) : Append(s, e)[i] = s[i]
      /\ Append(s, e)[Len(s) + 1] = e
    BY <1>3, <1>5, AppendProperties
<1>7. Len(Append(s, e)) \in Nat /\ DOMAIN Append(s, e) = 1..Len(Append(s, e))
      /\ Append(s, e) \in [1..Len(Append(s, e)) -> S]
    BY <1>6, LenProperties
<1>8. Append(s, e) = [i \in 1..Len(Append(s, e)) |-> Append(s, e)[i]]
    BY <1>7
<1>9. DOMAIN s = 1..Len(s)
    BY <1>1
<1> QED
    BY <1>6, <1>7, <1>8, <1>9 DEF IsList

\* Where the last call that replaced the record of a device is.
Replaced(c, d) == {i \in CallsOn(c, d) : c[i].op \in {"upsert", "erase"}}

LEMMA ReplacedAt ==
    ASSUME NEW c, IsList(c), NEW d
    PROVE  /\ LastReplaced(c, d) \in {0} \cup Replaced(c, d) /\ LastReplaced(c, d) \in 0..Len(c)
           /\ \A i \in Replaced(c, d) : i <= LastReplaced(c, d)
           /\ Since(c, d) \subseteq 1..Len(c) /\ Len(c) \in Nat
<1> DEFINE S == {0} \cup Replaced(c, d)
<1>1. Len(c) \in Nat /\ DOMAIN c = 1..Len(c)
    BY DEF IsList
<1>2. CallsOn(c, d) \subseteq 1..Len(c)
    BY <1>1 DEF CallsOn
<1>3. S \subseteq 0..Len(c) /\ S # {}
    BY <1>1, <1>2 DEF Replaced
<1>4. LastReplaced(c, d) = Max(S)
    BY DEF LastReplaced, Replaced
<1> HIDE DEF S
<1>5. Max(S) \in S /\ \A i \in S : i <= Max(S)
    BY <1>1, <1>3, MaxOfSet
<1>6. LastReplaced(c, d) \in 0..Len(c)
    BY <1>3, <1>4, <1>5
<1> QED
    BY <1>1, <1>2, <1>4, <1>5, <1>6 DEF S, Since

\* b is the list of calls c with one call more.
Extends(b, c, x) ==
    /\ IsList(c) /\ IsList(b) /\ Len(b) = Len(c) + 1 /\ b[Len(c) + 1] = x
    /\ DOMAIN c = 1..Len(c) /\ DOMAIN b = 1..(Len(c) + 1)
    /\ \A i \in 1..Len(c) : b[i] = c[i]

LEMMA AppendExtends ==
    ASSUME NEW c, IsList(c), NEW x
    PROVE  Extends(Append(c, x), c, x)
<1> DEFINE b == Append(c, x)
<1>1. /\ IsList(b) /\ Len(b) = Len(c) + 1 /\ b[Len(c) + 1] = x
      /\ \A i \in 1..Len(c) : b[i] = c[i]
      /\ DOMAIN c = 1..Len(c) /\ DOMAIN b = 1..(Len(c) + 1)
    BY ListAppend
<1> HIDE DEF b
<1>2. Extends(b, c, x)
    BY <1>1 DEF Extends
<1> QED
    BY <1>2 DEF b

\* What the record is read off is the same for two lists of calls.
SameCalls(c, b, d) ==
    /\ Since(b, d) = Since(c, d) /\ (\A i \in Since(c, d) : b[i] = c[i])
    /\ (WasUpserted(b, d) <=> WasUpserted(c, d)) /\ StartRecord(b, d) = StartRecord(c, d)

\* A call on another device changes nothing for this one.
LEMMA OtherCall ==
    ASSUME NEW c, IsList(c), NEW x, NEW b, Extends(b, c, x), NEW d, x.device # d
    PROVE  SameCalls(c, b, d)
<1> DEFINE n == Len(c)
<1>1. /\ IsList(b) /\ n \in Nat /\ b[n + 1] = x /\ (\A i \in 1..n : b[i] = c[i])
      /\ DOMAIN c = 1..n /\ DOMAIN b = 1..(n + 1)
    BY DEF Extends, IsList
<1> HIDE DEF n
<1>2. CallsOn(b, d) = CallsOn(c, d) /\ CallsOn(c, d) \subseteq 1..n
    <2>1. \A i \in 1..(n + 1) : i \in 1..n \/ i = n + 1
        BY <1>1
    <2>2. 1..n \subseteq 1..(n + 1)
        BY <1>1
    <2> QED
        BY <1>1, <2>1, <2>2 DEF CallsOn
<1>3. Replaced(b, d) = Replaced(c, d)
    BY <1>1, <1>2 DEF Replaced
<1>4. LastReplaced(b, d) = LastReplaced(c, d)
    BY <1>3 DEF LastReplaced, Replaced
<1>5. Since(b, d) = Since(c, d) /\ \A i \in Since(c, d) : b[i] = c[i]
    BY <1>1, <1>2, <1>4 DEF Since
<1>6. LastReplaced(c, d) # 0 => b[LastReplaced(c, d)] = c[LastReplaced(c, d)]
    BY <1>1, <1>2, ReplacedAt DEF Replaced
<1>7. (WasUpserted(b, d) <=> WasUpserted(c, d)) /\ StartRecord(b, d) = StartRecord(c, d)
    BY <1>4, <1>6 DEF WasUpserted, StartRecord
<1> QED
    BY <1>5, <1>7 DEF SameCalls

\* What an upsert or an erase leaves of the calls before it.
LEMMA ReplacingCall ==
    ASSUME NEW c, IsList(c), NEW x, NEW b, Extends(b, c, x), NEW d, x.device = d, x.op \in {"upsert", "erase"}
    PROVE  /\ Since(b, d) = {}
           /\ WasUpserted(b, d) <=> x.op = "upsert"
           /\ StartRecord(b, d) = IF x.op = "upsert" THEN x.arg ELSE BlankRecord
<1> DEFINE n == Len(c)
<1>1. /\ IsList(b) /\ n \in Nat /\ b[n + 1] = x /\ DOMAIN b = 1..(n + 1) /\ Len(b) = n + 1
    BY DEF Extends, IsList
<1> HIDE DEF n
<1>2. n + 1 \in Replaced(b, d)
    BY <1>1 DEF Replaced, CallsOn
<1>3. LastReplaced(b, d) = n + 1
    <2>1. LastReplaced(b, d) \in 0..(n + 1) /\ n + 1 <= LastReplaced(b, d)
        BY <1>1, <1>2, ReplacedAt
    <2> QED
        BY <1>1, <2>1
<1>4. Since(b, d) = {}
    BY <1>1, <1>3, ReplacedAt DEF Since
<1> QED
    BY <1>1, <1>3, <1>4 DEF WasUpserted, StartRecord

\* Any other call on the device comes last of those since then.
LEMMA LastCall ==
    ASSUME NEW c, IsList(c), NEW x, NEW b, Extends(b, c, x), NEW d, x.device = d, x.op \notin {"upsert", "erase"}
    PROVE  /\ Since(b, d) = Since(c, d) \cup {Len(c) + 1}
           /\ WasUpserted(b, d) <=> WasUpserted(c, d)
           /\ StartRecord(b, d) = StartRecord(c, d)
<1> DEFINE n == Len(c)
<1>1. /\ IsList(b) /\ n \in Nat /\ b[n + 1] = x /\ (\A i \in 1..n : b[i] = c[i])
      /\ DOMAIN c = 1..n /\ DOMAIN b = 1..(n + 1)
    BY DEF Extends, IsList
<1> HIDE DEF n
<1>2. CallsOn(b, d) = CallsOn(c, d) \cup {n + 1} /\ CallsOn(c, d) \subseteq 1..n
    <2>1. \A i \in 1..(n + 1) : i \in 1..n \/ i = n + 1
        BY <1>1
    <2>2. 1..n \subseteq 1..(n + 1) /\ n + 1 \in 1..(n + 1)
        BY <1>1
    <2> QED
        BY <1>1, <2>1, <2>2 DEF CallsOn
<1>3. Replaced(b, d) = Replaced(c, d)
    BY <1>1, <1>2 DEF Replaced
<1>4. LastReplaced(b, d) = LastReplaced(c, d)
    BY <1>3 DEF LastReplaced, Replaced
<1>5. LastReplaced(c, d) \in 0..n
    BY ReplacedAt DEF n
<1>6. Since(b, d) = Since(c, d) \cup {n + 1}
    <2>1. n + 1 > LastReplaced(c, d)
        BY <1>1, <1>5
    <2> QED
        BY <1>2, <1>4, <2>1 DEF Since
<1>7. LastReplaced(c, d) # 0 => b[LastReplaced(c, d)] = c[LastReplaced(c, d)]
    BY <1>1, <1>2, ReplacedAt DEF Replaced
<1>8. (WasUpserted(b, d) <=> WasUpserted(c, d)) /\ StartRecord(b, d) = StartRecord(c, d)
    BY <1>4, <1>7 DEF WasUpserted, StartRecord
<1> QED
    BY <1>6, <1>8 DEF n

\* The parts of RecordExact.
Seen(c, d) == Positions(c, d, "seen")

Stamped(c, d) == {i \in Seen(c, d) : c[i].time # 0}

Capable(c, d) == {i \in Seen(c, d) : c[i].arg # {}}

Labelled(c, d) == {c[i].arg : i \in Positions(c, d, "label")}

FirstSeen(c, d) ==
    IF StartRecord(c, d).first_seen # 0 \/ Stamped(c, d) = {} THEN StartRecord(c, d).first_seen
    ELSE c[Min(Stamped(c, d))].time

LastSeen(c, d) == IF Seen(c, d) = {} THEN StartRecord(c, d).last_seen ELSE c[Max(Seen(c, d))].time

OneOf(S) == CHOOSE c \in S : TRUE

Capabilities(c, d) ==
    IF Capable(c, d) = {} THEN StartRecord(c, d).capabilities ELSE OneOf(c[Max(Capable(c, d))].arg)

LEMMA RecordParts ==
    ASSUME NEW c, NEW d, NEW r
    PROVE  RecordExact(c, d, r) <=>
            /\ r.lifecycle = ExpectedLifecycle(c, d)
            /\ r.packets = StartRecord(c, d).packets + Cardinality(Seen(c, d))
            /\ r.first_seen = FirstSeen(c, d) /\ r.last_seen = LastSeen(c, d)
            /\ r.capabilities = Capabilities(c, d) /\ r.site = StartRecord(c, d).site
            /\ ToSet(r.labels) = ToSet(StartRecord(c, d).labels) \cup Labelled(c, d)
            /\ IsInjective(StartRecord(c, d).labels) => IsInjective(r.labels)
BY DEF RecordExact, Seen, Stamped, Capable, Labelled, FirstSeen, LastSeen, Capabilities, OneOf

\* Positions are numbers of calls.
LEMMA PositionsTyped ==
    ASSUME NEW c, IsList(c), NEW d
    PROVE  /\ Len(c) \in Nat /\ \A op : Positions(c, d, op) \subseteq Since(c, d) /\ Positions(c, d, op) \subseteq 1..Len(c)
           /\ Seen(c, d) \subseteq Since(c, d) /\ Seen(c, d) \subseteq 1..Len(c)
           /\ Stamped(c, d) \subseteq Since(c, d) /\ Stamped(c, d) \subseteq 1..Len(c)
           /\ Capable(c, d) \subseteq Since(c, d) /\ Capable(c, d) \subseteq 1..Len(c)
           /\ Activations(c, d) \subseteq Since(c, d) /\ Activations(c, d) \subseteq 1..Len(c)
<1>1. Since(c, d) \subseteq 1..Len(c) /\ Len(c) \in Nat
    BY ReplacedAt
<1>2. \A op : Positions(c, d, op) \subseteq Since(c, d)
    BY DEF Positions
<1>3. Seen(c, d) \subseteq Since(c, d)
    BY <1>2 DEF Seen
<1>4. Stamped(c, d) \subseteq Since(c, d) /\ Capable(c, d) \subseteq Since(c, d)
    BY <1>3 DEF Stamped, Capable
<1>5. Activations(c, d) \subseteq Since(c, d)
    BY <1>2 DEF Activations
<1> QED
    BY <1>1, <1>2, <1>3, <1>4, <1>5

\* What the last call decides about the lifecycle.
LifecycleBy(c, d, i) == IF i = 0 THEN StartRecord(c, d).lifecycle
                        ELSE IF i \in Positions(c, d, "lifecycle") THEN c[i].arg ELSE "active"

Deciding(c, d) == Positions(c, d, "lifecycle") \cup Activations(c, d)

LEMMA LifecycleDecided ==
    ASSUME NEW c, IsList(c), NEW d
    PROVE  /\ ExpectedLifecycle(c, d) = LifecycleBy(c, d, Max({0} \cup Deciding(c, d)))
           /\ Max({0} \cup Deciding(c, d)) \in {0} \cup Deciding(c, d)
           /\ Deciding(c, d) \subseteq 1..Len(c)
<1> DEFINE S == {0} \cup Deciding(c, d)
<1>1. {0} \cup Positions(c, d, "lifecycle") \cup Activations(c, d) = S
    BY DEF Deciding
<1>2. ExpectedLifecycle(c, d) = LifecycleBy(c, d, Max(S))
    BY <1>1 DEF ExpectedLifecycle, LifecycleBy
<1>3. Deciding(c, d) \subseteq 1..Len(c) /\ Len(c) \in Nat
    BY PositionsTyped DEF Deciding
<1>4. S \subseteq 0..Len(c) /\ S # {}
    BY <1>3
<1> HIDE DEF S
<1>5. Max(S) \in S
    BY <1>3, <1>4, MaxOfSet
<1> QED
    BY <1>2, <1>3, <1>5 DEF S

\* The same calls make the same record.
LEMMA SameRecord ==
    ASSUME NEW c, IsList(c), NEW b, IsList(b), NEW d, SameCalls(c, b, d), NEW r
    PROVE  /\ RecordExact(b, d, r) <=> RecordExact(c, d, r)
           /\ HasRecord(b, d) <=> HasRecord(c, d)
<1>1. Since(b, d) = Since(c, d) /\ \A i \in Since(c, d) : b[i] = c[i]
    BY DEF SameCalls
<1>2. (WasUpserted(b, d) <=> WasUpserted(c, d)) /\ StartRecord(b, d) = StartRecord(c, d)
    BY DEF SameCalls
<1>3. \A op : Positions(b, d, op) = Positions(c, d, op)
    BY <1>1 DEF Positions
<1>4. Seen(b, d) = Seen(c, d)
    BY <1>3 DEF Seen
<1>5. Stamped(b, d) = Stamped(c, d) /\ Capable(b, d) = Capable(c, d)
    BY <1>1, <1>4, PositionsTyped DEF Stamped, Capable
<1>6. Labelled(b, d) = Labelled(c, d)
    BY <1>1, <1>3, PositionsTyped DEF Labelled
<1>7. Activations(b, d) = Activations(c, d) /\ Deciding(b, d) = Deciding(c, d)
    BY <1>1, <1>2, <1>3 DEF Activations, Deciding
<1>8. ExpectedLifecycle(b, d) = ExpectedLifecycle(c, d)
    <2> DEFINE m == Max({0} \cup Deciding(c, d))
    <2>1. /\ ExpectedLifecycle(b, d) = LifecycleBy(b, d, m)
          /\ ExpectedLifecycle(c, d) = LifecycleBy(c, d, m)
          /\ m \in {0} \cup Deciding(c, d)
        BY <1>7, LifecycleDecided
    <2> HIDE DEF m
    <2>2. m # 0 => m \in Since(c, d)
        BY <2>1, PositionsTyped DEF Deciding
    <2> QED
        BY <1>1, <1>2, <1>3, <2>1, <2>2 DEF LifecycleBy
<1>9. FirstSeen(b, d) = FirstSeen(c, d)
    <2>1. Stamped(c, d) # {} => Min(Stamped(c, d)) \in Stamped(c, d)
        <3>1. Stamped(c, d) \subseteq Nat
            BY PositionsTyped
        <3> QED
            BY <3>1, MinOfSet
    <2>2. Stamped(c, d) # {} => b[Min(Stamped(c, d))] = c[Min(Stamped(c, d))]
        BY <1>1, <2>1, PositionsTyped
    <2> QED
        BY <1>2, <1>5, <2>2 DEF FirstSeen
<1>10. ASSUME NEW S, S \subseteq Since(c, d), S # {} PROVE b[Max(S)] = c[Max(S)]
    <2>1. S \subseteq 0..Len(c) /\ Len(c) \in Nat
        BY <1>10, ReplacedAt
    <2>2. Max(S) \in S
        BY <1>10, <2>1, MaxOfSet
    <2> QED
        BY <1>1, <1>10, <2>2
<1>11. LastSeen(b, d) = LastSeen(c, d)
    BY <1>2, <1>4, <1>10, PositionsTyped DEF LastSeen
<1>12. Capabilities(b, d) = Capabilities(c, d)
    BY <1>2, <1>5, <1>10, PositionsTyped DEF Capabilities
<1>13. RecordExact(b, d, r) <=> RecordExact(c, d, r)
    BY <1>2, <1>4, <1>6, <1>8, <1>9, <1>11, <1>12, RecordParts
<1> QED
    BY <1>1, <1>2, <1>13 DEF HasRecord

\* A call that does not replace the record adds its position to those of its kind.
JoinsCalls(b, c, d, x, op) ==
    Positions(b, d, op) = IF x.op = op THEN Positions(c, d, op) \cup {Len(c) + 1} ELSE Positions(c, d, op)

LEMMA PositionsAfter ==
    ASSUME NEW c, IsList(c), NEW x, NEW b, Extends(b, c, x), NEW d, x.device = d, x.op \notin {"upsert", "erase"}
    PROVE  LET n == Len(c)
           IN  /\ IsList(b) /\ n \in Nat /\ b[n + 1] = x /\ \A i \in Since(c, d) : b[i] = c[i] /\ i \in 1..n
               /\ Since(b, d) = Since(c, d) \cup {n + 1}
               /\ JoinsCalls(b, c, d, x, "seen") /\ JoinsCalls(b, c, d, x, "lifecycle") /\ JoinsCalls(b, c, d, x, "label")
               /\ Activations(b, d) = IF x.op = "seen" /\ (d = 0 \/ ~HasRecord(c, d))
                                      THEN Activations(c, d) \cup {n + 1} ELSE Activations(c, d)
               /\ StartRecord(b, d) = StartRecord(c, d) /\ HasRecord(b, d)
<1> DEFINE n == Len(c)
           new == x.op = "seen" /\ (d = 0 \/ ~HasRecord(c, d))
<1>1. /\ IsList(b) /\ n \in Nat /\ b[n + 1] = x /\ (\A i \in 1..n : b[i] = c[i])
      /\ DOMAIN c = 1..n
    BY DEF Extends, IsList
<1>2. /\ Since(b, d) = Since(c, d) \cup {n + 1} /\ (WasUpserted(b, d) <=> WasUpserted(c, d))
      /\ StartRecord(b, d) = StartRecord(c, d)
    BY LastCall
<1>3. Since(c, d) \subseteq 1..n
    BY ReplacedAt DEF n
<1> HIDE DEF n
<1>4. \A i \in Since(c, d) : b[i] = c[i] /\ i \in 1..n /\ i <= n + 1
    BY <1>1, <1>3
<1>5. \A op : Positions(b, d, op) = IF x.op = op THEN Positions(c, d, op) \cup {n + 1} ELSE Positions(c, d, op)
    BY <1>1, <1>2, <1>4 DEF Positions
<1>14. \A op : JoinsCalls(b, c, d, x, op)
    BY <1>5 DEF JoinsCalls, n
<1>6. HasRecord(b, d)
    BY <1>2 DEF HasRecord
<1>7. \A i \in Since(c, d) : (\A j \in Since(b, d) : i <= j) <=> (\A j \in Since(c, d) : i <= j)
    BY <1>2, <1>4
<1>8. (\A j \in Since(b, d) : n + 1 <= j) <=> Since(c, d) = {}
    <2>1. \A j \in Since(c, d) : ~(n + 1 <= j)
        BY <1>1, <1>3
    <2>2. n + 1 <= n + 1
        BY <1>1
    <2> QED
        BY <1>2, <2>1, <2>2
<1>9. \A i \in Positions(c, d, "seen") : i \in Activations(b, d) <=> i \in Activations(c, d)
    <2>1. Positions(c, d, "seen") \subseteq Since(c, d)
        BY DEF Positions
    <2>2. Positions(c, d, "seen") \subseteq Positions(b, d, "seen")
        BY <1>5
    <2> QED
        BY <1>2, <1>7, <2>1, <2>2 DEF Activations
<1>10. n + 1 \in Activations(b, d) <=> new
    <2>1. n + 1 \in Positions(b, d, "seen") <=> x.op = "seen"
        <3>1. n + 1 \notin Positions(c, d, "seen")
            BY <1>1, <1>3 DEF Positions
        <3> QED
            BY <1>5, <3>1
    <2> QED
        BY <1>2, <1>8, <2>1 DEF Activations, HasRecord
<1>11. \A i \in Activations(b, d) : i \in Positions(c, d, "seen") \/ i = n + 1
    BY <1>5 DEF Activations
<1>12. Activations(c, d) \subseteq Positions(c, d, "seen")
    BY DEF Activations
<1>13. Activations(b, d) = IF new THEN Activations(c, d) \cup {n + 1} ELSE Activations(c, d)
    <2> HIDE DEF new
    <2> QED
        BY <1>9, <1>10, <1>11, <1>12
<1> QED
    BY <1>1, <1>2, <1>4, <1>6, <1>13, <1>14 DEF n

\* Positions in front of the last call say what they said.
LEMMA EarlierCalls ==
    ASSUME NEW c, IsList(c), NEW x, NEW b, Extends(b, c, x), NEW d,
           NEW S, S \subseteq Since(c, d), S # {}
    PROVE  /\ b[Max(S)] = c[Max(S)] /\ b[Min(S)] = c[Min(S)]
           /\ Max(S) \in S /\ Min(S) \in S
<1>1. Len(c) \in Nat /\ S \subseteq 1..Len(c)
    BY ReplacedAt
<1>2. S \subseteq 0..Len(c) /\ S \subseteq Nat
    BY <1>1
<1>3. Max(S) \in S
    BY <1>1, <1>2, MaxOfSet
<1>4. Min(S) \in S
    BY <1>2, MinOfSet
<1> QED
    BY <1>1, <1>3, <1>4 DEF Extends

\* The last position is not the first of its kind, unless it is alone.
LEMMA FirstCall ==
    ASSUME NEW n \in Nat, NEW S, S \subseteq 1..n, S # {}
    PROVE  Min(S \cup {n + 1}) = Min(S)
<1> DEFINE m == Min(S)
           T == S \cup {n + 1}
<1>1. S \subseteq Nat
    OBVIOUS
<1>2. m \in S /\ \A i \in S : m <= i
    BY <1>1, MinOfSet
<1>3. T \subseteq Int /\ m \in T /\ \A i \in T : m <= i
    <2>1. m \in 1..n
        BY <1>2
    <2> HIDE DEF m
    <2>2. m <= n + 1
        BY <2>1
    <2> QED
        BY <1>1, <1>2, <2>2
<1> HIDE DEF m, T
<1>4. Min(T) = m
    BY <1>3, MinIs
<1> QED
    BY <1>4 DEF m, T

\* The last position is the maximum of its kind.
LEMMA LatestCall ==
    ASSUME NEW n \in Nat, NEW S, S \subseteq 0..n
    PROVE  Max(S \cup {n + 1}) = n + 1 /\ Min({n + 1}) = n + 1
<1>1. S \cup {n + 1} \subseteq Int /\ \A i \in S \cup {n + 1} : i <= n + 1
    OBVIOUS
<1>2. {n + 1} \subseteq Int /\ \A i \in {n + 1} : n + 1 <= i
    OBVIOUS
<1>3. Max(S \cup {n + 1}) = n + 1
    <2> DEFINE T == S \cup {n + 1}
    <2>1. n + 1 \in T
        OBVIOUS
    <2> HIDE DEF T
    <2> QED
        BY <1>1, <2>1, MaxIs DEF T
<1>4. Min({n + 1}) = n + 1
    BY <1>2, MinIs
<1> QED
    BY <1>3, <1>4

\* A call that is not a packet leaves what the packets said.
LEMMA PacketsSame ==
    ASSUME NEW c, IsList(c), NEW x, NEW b, Extends(b, c, x), NEW d, x.device = d,
           x.op \notin {"upsert", "erase"}, x.op # "seen"
    PROVE  /\ Seen(b, d) = Seen(c, d) /\ FirstSeen(b, d) = FirstSeen(c, d) /\ LastSeen(b, d) = LastSeen(c, d)
           /\ Capabilities(b, d) = Capabilities(c, d)
<1>1. /\ \A i \in Since(c, d) : b[i] = c[i]
      /\ Positions(b, d, "seen") = Positions(c, d, "seen") /\ StartRecord(b, d) = StartRecord(c, d)
    BY PositionsAfter DEF JoinsCalls
<1>2. ASSUME NEW S, S \subseteq Since(c, d), S # {} PROVE b[Max(S)] = c[Max(S)] /\ b[Min(S)] = c[Min(S)]
    BY <1>2, EarlierCalls
<1>3. Seen(b, d) = Seen(c, d)
    BY <1>1 DEF Seen
<1>4. Stamped(b, d) = Stamped(c, d) /\ Capable(b, d) = Capable(c, d)
    BY <1>1, <1>3, PositionsTyped DEF Stamped, Capable
<1>5. FirstSeen(b, d) = FirstSeen(c, d)
    BY <1>1, <1>2, <1>4, PositionsTyped DEF FirstSeen
<1>6. LastSeen(b, d) = LastSeen(c, d)
    BY <1>1, <1>2, <1>3, PositionsTyped DEF LastSeen
<1>7. Capabilities(b, d) = Capabilities(c, d)
    BY <1>1, <1>2, <1>4, PositionsTyped DEF Capabilities
<1> QED
    BY <1>3, <1>5, <1>6, <1>7

\* A call that decides nothing about the lifecycle leaves it.
LEMMA LifecycleSame ==
    ASSUME NEW c, IsList(c), NEW x, NEW b, Extends(b, c, x), NEW d, x.device = d,
           x.op \notin {"upsert", "erase"}, x.op # "lifecycle",
           x.op = "seen" => d # 0 /\ HasRecord(c, d)
    PROVE  ExpectedLifecycle(b, d) = ExpectedLifecycle(c, d)
<1>1. /\ \A i \in Since(c, d) : b[i] = c[i] /\ i \in 1..Len(c)
      /\ Positions(b, d, "lifecycle") = Positions(c, d, "lifecycle") /\ StartRecord(b, d) = StartRecord(c, d)
      /\ Activations(b, d) = Activations(c, d) /\ IsList(b)
    BY PositionsAfter DEF JoinsCalls
<1>2. Deciding(b, d) = Deciding(c, d)
    BY <1>1 DEF Deciding
<1> DEFINE m == Max({0} \cup Deciding(c, d))
<1>3. /\ ExpectedLifecycle(b, d) = LifecycleBy(b, d, m)
      /\ ExpectedLifecycle(c, d) = LifecycleBy(c, d, m)
      /\ m \in {0} \cup Deciding(c, d)
    BY <1>1, <1>2, LifecycleDecided
<1> HIDE DEF m
<1>4. m # 0 => m \in Since(c, d)
    BY <1>3, PositionsTyped DEF Deciding
<1> QED
    BY <1>1, <1>3, <1>4 DEF LifecycleBy

\* One that does decides alone.
LEMMA LifecycleSet ==
    ASSUME NEW c, IsList(c), NEW x, NEW b, Extends(b, c, x), NEW d, x.device = d,
           x.op = "lifecycle" \/ (x.op = "seen" /\ (d = 0 \/ ~HasRecord(c, d)))
    PROVE  ExpectedLifecycle(b, d) = IF x.op = "lifecycle" THEN x.arg ELSE "active"
<1> DEFINE n == Len(c)
<1>0. x.op \notin {"upsert", "erase"}
    OBVIOUS
<1>1. /\ JoinsCalls(b, c, d, x, "lifecycle") /\ IsList(b) /\ n \in Nat /\ b[n + 1] = x
      /\ Activations(b, d) = IF x.op = "seen" /\ (d = 0 \/ ~HasRecord(c, d))
                             THEN Activations(c, d) \cup {n + 1} ELSE Activations(c, d)
    BY <1>0, PositionsAfter
<1>2. Positions(c, d, "lifecycle") \subseteq 1..n /\ Activations(c, d) \subseteq 1..n /\ n \in Nat
    BY PositionsTyped
<1> DEFINE S == {0} \cup Deciding(c, d)
<1>3. S \subseteq 0..n
    BY <1>2 DEF Deciding
<1> HIDE DEF n
<1>4. {0} \cup Deciding(b, d) = S \cup {n + 1}
    BY <1>1 DEF JoinsCalls, Deciding, n
<1> HIDE DEF S
<1>5. Max(S \cup {n + 1}) = n + 1
    BY <1>2, <1>3, LatestCall
<1>6. ExpectedLifecycle(b, d) = LifecycleBy(b, d, n + 1)
    BY <1>1, <1>4, <1>5, LifecycleDecided
<1>7. n + 1 \in Positions(b, d, "lifecycle") <=> x.op = "lifecycle"
    <2>1. n + 1 \notin 1..n
        BY <1>2
    <2> QED
        BY <1>1, <1>2, <2>1 DEF JoinsCalls, n
<1>8. n + 1 # 0
    BY <1>2
<1> QED
    BY <1>1, <1>6, <1>7, <1>8 DEF LifecycleBy

\* What a packet adds.
LEMMA PacketCounted ==
    ASSUME NEW c, IsList(c), NEW x, NEW b, Extends(b, c, x), NEW d, x.device = d, x.op = "seen"
    PROVE  /\ Cardinality(Seen(b, d)) = Cardinality(Seen(c, d)) + 1 /\ Cardinality(Seen(c, d)) \in Nat
           /\ LastSeen(b, d) = x.time
           /\ FirstSeen(b, d) = IF FirstSeen(c, d) = 0 THEN x.time ELSE FirstSeen(c, d)
           /\ Capabilities(b, d) = IF x.arg = {} THEN Capabilities(c, d) ELSE OneOf(x.arg)
<1> DEFINE n == Len(c)
<1>0. x.op \notin {"upsert", "erase"}
    OBVIOUS
<1>1. /\ JoinsCalls(b, c, d, x, "seen") /\ IsList(b) /\ n \in Nat /\ b[n + 1] = x
      /\ StartRecord(b, d) = StartRecord(c, d) /\ \A i \in Since(c, d) : b[i] = c[i]
    BY <1>0, PositionsAfter
<1>2. /\ Seen(c, d) \subseteq 1..n /\ Seen(c, d) \subseteq Since(c, d)
      /\ Stamped(c, d) \subseteq 1..n /\ Stamped(c, d) \subseteq Since(c, d)
      /\ Capable(c, d) \subseteq 1..n /\ Capable(c, d) \subseteq Since(c, d)
    BY PositionsTyped
<1>3. Seen(b, d) = Seen(c, d) \cup {n + 1}
    BY <1>1 DEF JoinsCalls, Seen
<1> HIDE DEF n
<1>4. n + 1 \notin 1..n /\ 1..n \subseteq 0..n
    BY <1>1
<1>5. Cardinality(Seen(b, d)) = Cardinality(Seen(c, d)) + 1 /\ Cardinality(Seen(c, d)) \in Nat
    <2>1. IsFiniteSet(1..n)
        BY <1>1, FS_Interval
    <2>2. IsFiniteSet(Seen(c, d)) /\ n + 1 \notin Seen(c, d)
        BY <1>2, <1>4, <2>1, FS_Subset
    <2> QED
        BY <1>3, <2>2, FS_AddElement, FS_CardinalityType
<1>6. LastSeen(b, d) = x.time
    <2>1. Max(Seen(c, d) \cup {n + 1}) = n + 1
        <3>1. Seen(c, d) \subseteq 0..n
            BY <1>2, <1>4
        <3> QED
            BY <1>1, <3>1, LatestCall
    <2>2. Seen(b, d) # {} /\ Max(Seen(b, d)) = n + 1
        BY <1>3, <2>1
    <2> QED
        BY <1>1, <2>2 DEF LastSeen
<1>7. /\ Stamped(b, d) = IF x.time # 0 THEN Stamped(c, d) \cup {n + 1} ELSE Stamped(c, d)
      /\ Capable(b, d) = IF x.arg # {} THEN Capable(c, d) \cup {n + 1} ELSE Capable(c, d)
    <2>1. \A i \in Seen(c, d) : b[i] = c[i]
        BY <1>1, <1>2
    <2> QED
        BY <1>1, <1>3, <2>1 DEF Stamped, Capable
<1>8. FirstSeen(b, d) = IF FirstSeen(c, d) = 0 THEN x.time ELSE FirstSeen(c, d)
    <2> DEFINE first == StartRecord(c, d).first_seen
    <2>1. CASE first # 0
        BY <1>1, <2>1 DEF FirstSeen
    <2>2. CASE first = 0 /\ Stamped(c, d) = {}
        <3>1. FirstSeen(c, d) = 0
            BY <2>2 DEF FirstSeen
        <3>2. CASE x.time = 0
            BY <1>1, <1>7, <2>2, <3>1, <3>2 DEF FirstSeen
        <3>3. CASE x.time # 0
            <4>1. Stamped(b, d) = {n + 1}
                BY <1>7, <2>2, <3>3
            <4>2. Min({n + 1}) = n + 1
                BY <1>1, LatestCall
            <4> QED
                BY <1>1, <2>2, <3>1, <4>1, <4>2 DEF FirstSeen
        <3> QED
            BY <3>2, <3>3
    <2>3. CASE first = 0 /\ Stamped(c, d) # {}
        <3>1. Min(Stamped(c, d)) \in Stamped(c, d) /\ b[Min(Stamped(c, d))] = c[Min(Stamped(c, d))]
            <4> DEFINE S == Stamped(c, d)
            <4>1. S \subseteq Since(c, d) /\ S # {}
                BY <1>2, <2>3
            <4> HIDE DEF S
            <4>2. Min(S) \in S /\ b[Min(S)] = c[Min(S)]
                BY SMTT(20), <4>1, EarlierCalls
            <4> QED
                BY <4>2 DEF S
        <3>2. Min(Stamped(c, d) \cup {n + 1}) = Min(Stamped(c, d))
            BY <1>1, <1>2, <2>3, FirstCall
        <3>3. Stamped(b, d) # {} /\ Min(Stamped(b, d)) = Min(Stamped(c, d))
            BY <1>7, <2>3, <3>2
        <3>4. FirstSeen(c, d) = c[Min(Stamped(c, d))].time /\ FirstSeen(c, d) # 0
            BY <2>3, <3>1 DEF FirstSeen, Stamped
        <3> QED
            BY <1>1, <2>3, <3>1, <3>3, <3>4 DEF FirstSeen
    <2> QED
        BY <2>1, <2>2, <2>3
<1>9. Capabilities(b, d) = IF x.arg = {} THEN Capabilities(c, d) ELSE OneOf(x.arg)
    <2>1. CASE x.arg # {}
        <3>1. Capable(c, d) \subseteq 0..n
            BY <1>2, <1>4
        <3>2. Max(Capable(c, d) \cup {n + 1}) = n + 1
            BY <1>1, <3>1, LatestCall
        <3>3. Capable(b, d) # {} /\ Max(Capable(b, d)) = n + 1
            BY <1>7, <2>1, <3>2
        <3> QED
            BY <1>1, <2>1, <3>3 DEF Capabilities
    <2>2. CASE x.arg = {}
        <3>1. Capable(b, d) = Capable(c, d)
            BY <1>7, <2>2
        <3>2. Capable(c, d) # {} => b[Max(Capable(c, d))] = c[Max(Capable(c, d))]
            BY <1>2, EarlierCalls
        <3> QED
            BY <1>1, <2>2, <3>1, <3>2 DEF Capabilities
    <2> QED
        BY <2>1, <2>2
<1> QED
    BY <1>5, <1>6, <1>8, <1>9

\* The record of a device is what the calls say, and says whose it is; a device without one would
\* get a blank one.
RecordKept(c, d, r) ==
    /\ RecordExact(c, d, r) /\ IsRecord(r) /\ IsRecord(StartRecord(c, d))
    /\ IF HasRecord(c, d) THEN r.device = d ELSE r = BlankRecord

\* A record with one field changed.
LEMMA FieldChanged ==
    ASSUME NEW r, NEW f \in DOMAIN r, NEW v
    PROVE  LET q == [r EXCEPT ![f] = v]
           IN  DOMAIN q = DOMAIN r /\ q[f] = v /\ \A g \in DOMAIN r : g # f => q[g] = r[g]
OBVIOUS

\* mark_seen() keeps the record of the device.
LEMMA SeenKeeps ==
    ASSUME NEW c, IsList(c), NEW x, NEW b, Extends(b, c, x), NEW d, x.device = d, x.op = "seen",
           NEW r, RecordKept(c, d, r), NEW q,
           DOMAIN q = DOMAIN r, q.device = d,
           q.lifecycle = IF r.device = 0 THEN "active" ELSE r.lifecycle,
           q.capabilities = IF x.arg = {} THEN r.capabilities ELSE OneOf(x.arg),
           q.first_seen = IF r.first_seen = 0 THEN x.time ELSE r.first_seen,
           q.last_seen = x.time, q.packets = r.packets + 1, q.site = r.site, q.labels = r.labels
    PROVE  RecordKept(b, d, q)
<1>0. x.op \notin {"upsert", "erase"}
    OBVIOUS
<1>1. /\ r.lifecycle = ExpectedLifecycle(c, d)
      /\ r.packets = StartRecord(c, d).packets + Cardinality(Seen(c, d))
      /\ r.first_seen = FirstSeen(c, d) /\ r.last_seen = LastSeen(c, d)
      /\ r.capabilities = Capabilities(c, d) /\ r.site = StartRecord(c, d).site
      /\ ToSet(r.labels) = ToSet(StartRecord(c, d).labels) \cup Labelled(c, d)
      /\ IsInjective(StartRecord(c, d).labels) => IsInjective(r.labels)
    BY RecordParts DEF RecordKept
<1>2. /\ StartRecord(b, d) = StartRecord(c, d) /\ HasRecord(b, d)
      /\ JoinsCalls(b, c, d, x, "label") /\ \A i \in Since(c, d) : b[i] = c[i]
    BY <1>0, PositionsAfter
<1>3. /\ Cardinality(Seen(b, d)) = Cardinality(Seen(c, d)) + 1 /\ Cardinality(Seen(c, d)) \in Nat
      /\ LastSeen(b, d) = x.time
      /\ FirstSeen(b, d) = IF FirstSeen(c, d) = 0 THEN x.time ELSE FirstSeen(c, d)
      /\ Capabilities(b, d) = IF x.arg = {} THEN Capabilities(c, d) ELSE OneOf(x.arg)
    BY PacketCounted
<1>4. q.lifecycle = ExpectedLifecycle(b, d)
    <2>1. CASE d # 0 /\ HasRecord(c, d)
        <3>1. ExpectedLifecycle(b, d) = ExpectedLifecycle(c, d)
            BY <1>0, <2>1, LifecycleSame
        <3>2. r.device = d
            BY <2>1 DEF RecordKept
        <3> QED
            BY <1>1, <2>1, <3>1, <3>2
    <2>2. CASE d = 0 \/ ~HasRecord(c, d)
        <3>1. ExpectedLifecycle(b, d) = "active"
            BY <2>2, LifecycleSet
        <3>2. r.device = 0
            <4>1. BlankRecord.device = 0
                BY DEF BlankRecord
            <4>2. IF HasRecord(c, d) THEN r.device = d ELSE r = BlankRecord
                BY DEF RecordKept
            <4> QED
                BY <2>2, <4>1, <4>2
        <3> QED
            BY <3>1, <3>2
    <2> QED
        BY <2>1, <2>2
<1>5. Labelled(b, d) = Labelled(c, d)
    BY <1>2, PositionsTyped DEF JoinsCalls, Labelled
<1>6. q.packets = StartRecord(b, d).packets + Cardinality(Seen(b, d)) /\ q.packets \in Nat
    <2>1. StartRecord(c, d).packets \in Nat
        BY DEF RecordKept, IsRecord
    <2> QED
        BY <1>1, <1>2, <1>3, <2>1
<1>7. RecordExact(b, d, q)
    BY <1>1, <1>2, <1>3, <1>4, <1>5, <1>6, RecordParts
<1>8. IsRecord(q)
    BY <1>6 DEF RecordKept, IsRecord
<1> QED
    BY <1>2, <1>7, <1>8 DEF RecordKept

\* set_lifecycle() keeps it.
LEMMA LifecycleKeeps ==
    ASSUME NEW c, IsList(c), NEW x, NEW b, Extends(b, c, x), NEW d, x.device = d, x.op = "lifecycle",
           NEW r, RecordKept(c, d, r), NEW q,
           DOMAIN q = DOMAIN r, q.device = d, q.lifecycle = x.arg,
           q.capabilities = r.capabilities, q.first_seen = r.first_seen,
           q.last_seen = r.last_seen, q.packets = r.packets, q.site = r.site, q.labels = r.labels
    PROVE  RecordKept(b, d, q)
<1>0. x.op \notin {"upsert", "erase"} /\ x.op # "seen" /\ x.op # "label"
    OBVIOUS
<1>1. /\ r.packets = StartRecord(c, d).packets + Cardinality(Seen(c, d))
      /\ r.first_seen = FirstSeen(c, d) /\ r.last_seen = LastSeen(c, d)
      /\ r.capabilities = Capabilities(c, d) /\ r.site = StartRecord(c, d).site
      /\ ToSet(r.labels) = ToSet(StartRecord(c, d).labels) \cup Labelled(c, d)
      /\ IsInjective(StartRecord(c, d).labels) => IsInjective(r.labels)
    BY RecordParts DEF RecordKept
<1>2. /\ StartRecord(b, d) = StartRecord(c, d) /\ HasRecord(b, d)
      /\ JoinsCalls(b, c, d, x, "label") /\ \A i \in Since(c, d) : b[i] = c[i]
    BY <1>0, PositionsAfter
<1>3. /\ Seen(b, d) = Seen(c, d) /\ FirstSeen(b, d) = FirstSeen(c, d) /\ LastSeen(b, d) = LastSeen(c, d)
      /\ Capabilities(b, d) = Capabilities(c, d)
    BY <1>0, PacketsSame
<1>4. q.lifecycle = ExpectedLifecycle(b, d)
    BY LifecycleSet
<1>5. Labelled(b, d) = Labelled(c, d)
    BY <1>0, <1>2, PositionsTyped DEF JoinsCalls, Labelled
<1>6. RecordExact(b, d, q)
    BY <1>1, <1>2, <1>3, <1>4, <1>5, RecordParts
<1>7. IsRecord(q)
    BY DEF RecordKept, IsRecord
<1> QED
    BY <1>2, <1>6, <1>7 DEF RecordKept

\* A label is added once.
LEMMA LabelAdded ==
    ASSUME NEW s, IsList(s), NEW l
    PROVE  LET t == IF Contains(s, l) THEN s ELSE Append(s, l)
           IN  IsList(t) /\ ToSet(t) = ToSet(s) \cup {l} /\ (IsInjective(s) => IsInjective(t))
<1>1. /\ IsList(Append(s, l)) /\ Len(Append(s, l)) = Len(s) + 1 /\ Append(s, l)[Len(s) + 1] = l
      /\ \A i \in 1..Len(s) : Append(s, l)[i] = s[i]
      /\ DOMAIN s = 1..Len(s) /\ DOMAIN Append(s, l) = 1..(Len(s) + 1)
    BY ListAppend
<1> DEFINE n == Len(s)
           t == Append(s, l)
<1>2. n \in Nat
    BY DEF IsList
<1> HIDE DEF n, t
<1>3. \A i \in 1..(n + 1) : i \in 1..n \/ i = n + 1
    BY <1>2
<1>4. CASE Contains(s, l)
    <2>1. l \in ToSet(s)
        BY <1>1, <1>4 DEF Contains, ToSet
    <2> QED
        BY <1>4, <2>1
<1>5. CASE ~Contains(s, l)
    <2>1. \A i \in 1..n : s[i] # l
        BY <1>5 DEF Contains, n
    <2>2. /\ t[n + 1] = l /\ (\A i \in 1..n : t[i] = s[i]) /\ DOMAIN s = 1..n /\ DOMAIN t = 1..(n + 1)
          /\ n + 1 \in 1..(n + 1) /\ 1..n \subseteq 1..(n + 1)
        BY <1>1, <1>2 DEF n, t
    <2>3. ToSet(t) = ToSet(s) \cup {l}
        BY <1>3, <2>2 DEF ToSet
    <2>4. IsInjective(s) => IsInjective(t)
        BY <1>3, <2>1, <2>2 DEF IsInjective
    <2> QED
        BY <1>1, <1>5, <2>3, <2>4 DEF t
<1> QED
    BY <1>4, <1>5

\* add_label() keeps it.
LEMMA LabelKeeps ==
    ASSUME NEW c, IsList(c), NEW x, NEW b, Extends(b, c, x), NEW d, x.device = d, x.op = "label",
           NEW r, RecordKept(c, d, r), NEW q,
           DOMAIN q = DOMAIN r, q.device = d, q.lifecycle = r.lifecycle,
           q.capabilities = r.capabilities, q.first_seen = r.first_seen,
           q.last_seen = r.last_seen, q.packets = r.packets, q.site = r.site,
           q.labels = IF Contains(r.labels, x.arg) THEN r.labels ELSE Append(r.labels, x.arg)
    PROVE  RecordKept(b, d, q)
<1> DEFINE n == Len(c)
<1>0. x.op \notin {"upsert", "erase"} /\ x.op # "seen" /\ x.op # "lifecycle"
    OBVIOUS
<1>1. /\ r.lifecycle = ExpectedLifecycle(c, d)
      /\ r.packets = StartRecord(c, d).packets + Cardinality(Seen(c, d))
      /\ r.first_seen = FirstSeen(c, d) /\ r.last_seen = LastSeen(c, d)
      /\ r.capabilities = Capabilities(c, d) /\ r.site = StartRecord(c, d).site
      /\ ToSet(r.labels) = ToSet(StartRecord(c, d).labels) \cup Labelled(c, d)
      /\ IsInjective(StartRecord(c, d).labels) => IsInjective(r.labels)
    BY RecordParts DEF RecordKept
<1>2. /\ StartRecord(b, d) = StartRecord(c, d) /\ HasRecord(b, d) /\ b[n + 1] = x
      /\ JoinsCalls(b, c, d, x, "label") /\ \A i \in Since(c, d) : b[i] = c[i]
    BY <1>0, PositionsAfter
<1>3. /\ Seen(b, d) = Seen(c, d) /\ FirstSeen(b, d) = FirstSeen(c, d) /\ LastSeen(b, d) = LastSeen(c, d)
      /\ Capabilities(b, d) = Capabilities(c, d)
    BY <1>0, PacketsSame
<1>4. ExpectedLifecycle(b, d) = ExpectedLifecycle(c, d)
    BY <1>0, LifecycleSame
<1>5. Labelled(b, d) = Labelled(c, d) \cup {x.arg}
    <2>1. Positions(b, d, "label") = Positions(c, d, "label") \cup {n + 1}
        BY <1>2 DEF JoinsCalls
    <2>2. \A i \in Positions(c, d, "label") : b[i] = c[i]
        BY <1>2, PositionsTyped
    <2> HIDE DEF n
    <2> QED
        BY <1>2, <2>1, <2>2 DEF Labelled
<1>6. /\ IsList(q.labels) /\ ToSet(q.labels) = ToSet(r.labels) \cup {x.arg}
      /\ IsInjective(r.labels) => IsInjective(q.labels)
    <2>1. IsList(r.labels)
        BY DEF RecordKept, IsRecord
    <2> QED
        BY <2>1, LabelAdded
<1> HIDE DEF n
<1>7. RecordExact(b, d, q)
    BY <1>1, <1>2, <1>3, <1>4, <1>5, <1>6, RecordParts
<1>8. IsRecord(q)
    BY <1>6 DEF RecordKept, IsRecord
<1> QED
    BY <1>2, <1>7, <1>8 DEF RecordKept

\* Without calls since, a record is what it started from.
LEMMA StartKept ==
    ASSUME NEW c, IsList(c), NEW d, Since(c, d) = {}, IsRecord(StartRecord(c, d))
    PROVE  RecordExact(c, d, StartRecord(c, d))
<1> DEFINE r == StartRecord(c, d)
<1>1. (\A op : Positions(c, d, op) = {}) /\ Activations(c, d) = {}
    BY DEF Positions, Activations
<1>2. Seen(c, d) = {} /\ Stamped(c, d) = {} /\ Capable(c, d) = {} /\ Labelled(c, d) = {} /\ Deciding(c, d) = {}
    BY <1>1 DEF Seen, Stamped, Capable, Labelled, Deciding
<1>3. r.lifecycle = ExpectedLifecycle(c, d)
    <2>1. {0} \cup {} = {0} /\ Max({0} \cup {}) \in {0} \cup {}
        BY <1>2, LifecycleDecided
    <2>2. Max({0} \cup Deciding(c, d)) = 0
        BY <1>2, <2>1
    <2> QED
        BY <2>2, LifecycleDecided DEF LifecycleBy
<1>4. r.packets = r.packets + Cardinality(Seen(c, d))
    <2>1. r.packets \in Nat /\ Cardinality(Seen(c, d)) = 0
        BY <1>2, FS_EmptySet DEF IsRecord
    <2> HIDE DEF r
    <2> QED
        BY <2>1
<1>5. r.first_seen = FirstSeen(c, d) /\ r.last_seen = LastSeen(c, d) /\ r.capabilities = Capabilities(c, d)
    BY <1>2 DEF FirstSeen, LastSeen, Capabilities
<1>6. ToSet(r.labels) = ToSet(r.labels) \cup Labelled(c, d)
    BY <1>2
<1> QED
    BY <1>3, <1>4, <1>5, <1>6, RecordParts

LEMMA BlankIsRecord == IsRecord(BlankRecord)
<1>1. Len(<<>>) = 0 /\ <<>> = [i \in 1..0 |-> <<>>[i]]
    OBVIOUS
<1>2. IsList(<<>>)
    BY <1>1 DEF IsList
<1> QED
    BY <1>2 DEF IsRecord, BlankRecord

\* The registry g holds what the calls c say.
RegistryIs(g, c) ==
    /\ IsList(c)
    /\ \A d : /\ d \in DOMAIN g <=> HasRecord(c, d)
             /\ RecordKept(c, d, RecordAt(g, d))

LEMMA OthersKept ==
    ASSUME NEW c, IsList(c), NEW x, NEW b, Extends(b, c, x), NEW d, x.device # d, NEW r
    PROVE  /\ RecordKept(b, d, r) <=> RecordKept(c, d, r)
           /\ HasRecord(b, d) <=> HasRecord(c, d)
<1>1. SameCalls(c, b, d) /\ IsList(b)
    BY OtherCall DEF Extends
<1>2. /\ RecordExact(b, d, r) <=> RecordExact(c, d, r)
      /\ HasRecord(b, d) <=> HasRecord(c, d)
    BY <1>1, SameRecord
<1> QED
    BY <1>1, <1>2 DEF RecordKept, SameCalls

\* A registry in which the record of one device was replaced.
LEMMA RecordSet ==
    ASSUME NEW g, NEW c, RegistryIs(g, c), NEW x, NEW b, Extends(b, c, x), NEW d, x.device = d,
           NEW q, RecordKept(b, d, q), HasRecord(b, d)
    PROVE  RegistryIs(WithRecord(g, d, q), b)
<1> DEFINE h == WithRecord(g, d, q)
<1>0. IsList(c) /\ IsList(b)
    BY DEF RegistryIs, Extends
<1>1. DOMAIN h = DOMAIN g \cup {d} /\ h[d] = q /\ \A e \in DOMAIN g : e # d => h[e] = g[e]
    BY DEF WithRecord
<1> HIDE DEF h
<1>2. RecordAt(h, d) = q
    BY <1>1 DEF RecordAt
<1>3. ASSUME NEW e, e # d PROVE /\ e \in DOMAIN h <=> HasRecord(b, e)
                                /\ RecordKept(b, e, RecordAt(h, e))
    <2>1. RecordAt(h, e) = RecordAt(g, e) /\ (e \in DOMAIN h <=> e \in DOMAIN g)
        BY <1>1, <1>3 DEF RecordAt
    <2>2. (e \in DOMAIN g <=> HasRecord(c, e)) /\ RecordKept(c, e, RecordAt(g, e))
        BY DEF RegistryIs
    <2>3. x.device # e
        BY <1>3
    <2>4. (RecordKept(b, e, RecordAt(g, e)) <=> RecordKept(c, e, RecordAt(g, e))) /\ (HasRecord(b, e) <=> HasRecord(c, e))
        BY <1>0, <2>3, OthersKept
    <2> QED
        BY <2>1, <2>2, <2>4
<1>4. ASSUME NEW e PROVE /\ e \in DOMAIN h <=> HasRecord(b, e)
                         /\ RecordKept(b, e, RecordAt(h, e))
    BY <1>1, <1>2, <1>3
<1> QED
    BY <1>0, <1>4 DEF RegistryIs, h

\* upsert().
LEMMA UpsertKeeps ==
    ASSUME NEW g, NEW c, RegistryIs(g, c), NEW x, NEW b, Extends(b, c, x), x.op = "upsert",
           IsRecord(x.arg), x.arg.device = x.device
    PROVE  RegistryIs(Upserted(g, x.arg), b)
<1> DEFINE d == x.device
<1>1. IsList(c) /\ IsList(b) /\ x.op \in {"upsert", "erase"}
    BY DEF RegistryIs, Extends
<1>2. Since(b, d) = {} /\ WasUpserted(b, d) /\ StartRecord(b, d) = x.arg
    BY <1>1, ReplacingCall
<1> HIDE DEF d
<1>3. RecordExact(b, d, x.arg) /\ HasRecord(b, d)
    BY <1>1, <1>2, StartKept DEF HasRecord
<1>4. RecordKept(b, d, x.arg)
    BY <1>2, <1>3 DEF RecordKept, d
<1>5. RegistryIs(WithRecord(g, d, x.arg), b)
    BY <1>3, <1>4, RecordSet DEF d
<1> QED
    BY <1>5 DEF Upserted, d

\* erase().
LEMMA EraseKeeps ==
    ASSUME NEW g, NEW c, RegistryIs(g, c), NEW x, NEW b, Extends(b, c, x), x.op = "erase"
    PROVE  RegistryIs(Erased(g, x.device), b)
<1> DEFINE d == x.device
           h == Erased(g, d)
<1>0. IsList(c) /\ IsList(b) /\ x.op \in {"upsert", "erase"} /\ x.op # "upsert"
    BY DEF RegistryIs, Extends
<1>1. Since(b, d) = {} /\ ~WasUpserted(b, d) /\ StartRecord(b, d) = BlankRecord
    BY <1>0, ReplacingCall
<1>2. DOMAIN h = DOMAIN g \ {d} /\ \A e \in DOMAIN g : e # d => h[e] = g[e]
    BY DEF Erased
<1> HIDE DEF d, h
<1>3. RecordAt(h, d) = BlankRecord /\ d \notin DOMAIN h /\ ~HasRecord(b, d)
    BY <1>1, <1>2 DEF RecordAt, HasRecord
<1>4. RecordKept(b, d, BlankRecord)
    BY <1>0, <1>1, <1>3, StartKept, BlankIsRecord DEF RecordKept
<1>5. ASSUME NEW e, e # d PROVE /\ e \in DOMAIN h <=> HasRecord(b, e)
                                /\ RecordKept(b, e, RecordAt(h, e))
    <2>1. RecordAt(h, e) = RecordAt(g, e) /\ (e \in DOMAIN h <=> e \in DOMAIN g)
        BY <1>2, <1>5 DEF RecordAt
    <2>2. (e \in DOMAIN g <=> HasRecord(c, e)) /\ RecordKept(c, e, RecordAt(g, e))
        BY DEF RegistryIs
    <2>3. x.device # e
        BY <1>5 DEF d
    <2>4. (RecordKept(b, e, RecordAt(g, e)) <=> RecordKept(c, e, RecordAt(g, e))) /\ (HasRecord(b, e) <=> HasRecord(c, e))
        BY <1>0, <2>3, OthersKept
    <2> QED
        BY <2>1, <2>2, <2>4
<1>6. ASSUME NEW e PROVE /\ e \in DOMAIN h <=> HasRecord(b, e)
                         /\ RecordKept(b, e, RecordAt(h, e))
    BY <1>3, <1>4, <1>5
<1> QED
    BY <1>0, <1>6 DEF RegistryIs, d, h

\* A blank or stored record has the fields of a record.
LEMMA KnownRecord ==
    ASSUME NEW g, NEW c, RegistryIs(g, c), NEW d
    PROVE  RecordKept(c, d, RecordAt(g, d)) /\ DOMAIN RecordAt(g, d) = DOMAIN BlankRecord
BY DEF RegistryIs, RecordKept, IsRecord

\* set_lifecycle().
LEMMA SetLifecycleKeeps ==
    ASSUME NEW g, NEW c, RegistryIs(g, c), NEW x, NEW b, Extends(b, c, x), x.op = "lifecycle"
    PROVE  RegistryIs(SetLifecycle(g, x.device, x.arg), b)
<1> DEFINE d == x.device
           r == RecordAt(g, d)
           q == [r EXCEPT !.device = d, !.lifecycle = x.arg]
<1>1. RecordKept(c, d, r) /\ DOMAIN r = DOMAIN BlankRecord
    BY KnownRecord
<1>2. IsList(c) /\ x.op \notin {"upsert", "erase"}
    BY DEF RegistryIs
<1> HIDE DEF d, r
<1>3. DOMAIN r = {"device", "lifecycle", "site", "capabilities", "first_seen", "last_seen", "packets", "labels"}
    BY <1>1 DEF BlankRecord
<1>4. /\ DOMAIN q = DOMAIN r /\ q.device = d /\ q.lifecycle = x.arg
      /\ q.capabilities = r.capabilities /\ q.first_seen = r.first_seen
      /\ q.last_seen = r.last_seen /\ q.packets = r.packets /\ q.site = r.site /\ q.labels = r.labels
    BY <1>3
<1> HIDE DEF q
<1>5. RecordKept(b, d, q)
    BY <1>1, <1>2, <1>4, LifecycleKeeps DEF d
<1>6. HasRecord(b, d)
    BY <1>2, PositionsAfter DEF d
<1>7. RegistryIs(WithRecord(g, d, q), b)
    BY <1>5, <1>6, RecordSet DEF d
<1> QED
    BY <1>7 DEF SetLifecycle, d, r, q

\* add_label().
LEMMA AddLabelKeeps ==
    ASSUME NEW g, NEW c, RegistryIs(g, c), NEW x, NEW b, Extends(b, c, x), x.op = "label"
    PROVE  RegistryIs(AddLabel(g, x.device, x.arg), b)
<1> DEFINE d == x.device
           r == RecordAt(g, d)
           q == [r EXCEPT !.device = d, !.labels = IF Contains(@, x.arg) THEN @ ELSE Append(@, x.arg)]
           l == IF Contains(r.labels, x.arg) THEN r.labels ELSE Append(r.labels, x.arg)
<1>1. RecordKept(c, d, r) /\ DOMAIN r = DOMAIN BlankRecord
    BY KnownRecord
<1>2. IsList(c) /\ x.op \notin {"upsert", "erase"}
    BY DEF RegistryIs
<1> HIDE DEF d, r
<1>3. DOMAIN r = {"device", "lifecycle", "site", "capabilities", "first_seen", "last_seen", "packets", "labels"}
    BY <1>1 DEF BlankRecord
<1>4. q = [r EXCEPT !.device = d, !.labels = l]
    BY <1>3
<1> HIDE DEF q, l
<1>5. /\ DOMAIN q = DOMAIN r /\ q.device = d /\ q.labels = l
      /\ q.capabilities = r.capabilities /\ q.first_seen = r.first_seen
      /\ q.last_seen = r.last_seen /\ q.packets = r.packets /\ q.site = r.site /\ q.lifecycle = r.lifecycle
    BY <1>3, <1>4
<1>6. RecordKept(b, d, q)
    BY <1>1, <1>2, <1>5, LabelKeeps DEF d, l
<1>7. HasRecord(b, d)
    BY <1>2, PositionsAfter DEF d
<1>8. RegistryIs(WithRecord(g, d, q), b)
    BY <1>6, <1>7, RecordSet DEF d
<1> QED
    BY <1>8 DEF AddLabel, d, r, q

\* mark_seen().
LEMMA MarkSeenKeeps ==
    ASSUME NEW g, NEW c, RegistryIs(g, c), NEW x, NEW b, Extends(b, c, x), x.op = "seen",
           NEW p, p.device = x.device, p.capabilities = x.arg
    PROVE  RegistryIs(MarkSeen(g, p, x.time), b)
<1> DEFINE d == x.device
           r == RecordAt(g, d)
           named == IF r.device = 0 THEN [r EXCEPT !.device = d, !.lifecycle = "active"] ELSE r
           capable == IF x.arg = {} THEN named ELSE [named EXCEPT !.capabilities = OneOf(x.arg)]
           q == UpdateSeenFields(capable, x.time)
<1>1. RecordKept(c, d, r) /\ DOMAIN r = DOMAIN BlankRecord
    BY KnownRecord
<1>2. IsList(c) /\ x.op \notin {"upsert", "erase"}
    BY DEF RegistryIs
<1>3. MarkSeen(g, p, x.time) = WithRecord(g, d, q)
    BY DEF MarkSeen, OneOf
<1> HIDE DEF d, r
<1>4. DOMAIN r = {"device", "lifecycle", "site", "capabilities", "first_seen", "last_seen", "packets", "labels"}
    BY <1>1 DEF BlankRecord
<1>5. r.device = 0 \/ r.device = d
    <2>1. BlankRecord.device = 0
        BY DEF BlankRecord
    <2> QED
        BY <1>1, <2>1 DEF RecordKept
<1>6. /\ DOMAIN named = DOMAIN r /\ named.device = d
      /\ named.lifecycle = IF r.device = 0 THEN "active" ELSE r.lifecycle
      /\ named.capabilities = r.capabilities /\ named.first_seen = r.first_seen
      /\ named.last_seen = r.last_seen /\ named.packets = r.packets /\ named.site = r.site /\ named.labels = r.labels
    BY <1>4, <1>5
<1> HIDE DEF named
<1>7. /\ DOMAIN capable = DOMAIN r /\ capable.device = d /\ capable.lifecycle = named.lifecycle
      /\ capable.capabilities = IF x.arg = {} THEN r.capabilities ELSE OneOf(x.arg)
      /\ capable.first_seen = r.first_seen
      /\ capable.last_seen = r.last_seen /\ capable.packets = r.packets /\ capable.site = r.site
      /\ capable.labels = r.labels
    BY <1>4, <1>6
<1> HIDE DEF capable
<1>8. /\ DOMAIN q = DOMAIN r /\ q.device = d /\ q.lifecycle = capable.lifecycle
      /\ q.capabilities = capable.capabilities
      /\ q.first_seen = IF r.first_seen = 0 THEN x.time ELSE r.first_seen
      /\ q.last_seen = x.time /\ q.packets = r.packets + 1 /\ q.site = r.site
      /\ q.labels = r.labels
    BY <1>4, <1>7 DEF UpdateSeenFields
<1> HIDE DEF q
<1>9. RecordKept(b, d, q)
    BY <1>1, <1>2, <1>6, <1>7, <1>8, SeenKeeps DEF d
<1>10. HasRecord(b, d)
    BY <1>2, PositionsAfter DEF d
<1> QED
    BY <1>3, <1>9, <1>10, RecordSet DEF d

\* Nothing was ever called.
LEMMA RegistryEmpty == RegistryIs(<<>>, <<>>)
<1> DEFINE c == <<>>
<1>1. Len(c) = 0 /\ c = [i \in 1..0 |-> c[i]] /\ DOMAIN c = {}
    OBVIOUS
<1>2. IsList(c)
    BY <1>1 DEF IsList
<1> HIDE DEF c
<1>3. ASSUME NEW d PROVE /\ d \in DOMAIN c <=> HasRecord(c, d)
                         /\ RecordKept(c, d, RecordAt(c, d))
    <2>1. Since(c, d) = {} /\ LastReplaced(c, d) = 0
        BY <1>1, <1>2, ReplacedAt
    <2>2. ~HasRecord(c, d) /\ StartRecord(c, d) = BlankRecord
        BY <2>1 DEF HasRecord, WasUpserted, StartRecord
    <2>3. RecordAt(c, d) = BlankRecord
        BY <1>1 DEF RecordAt
    <2>4. RecordExact(c, d, BlankRecord)
        BY <1>2, <2>1, <2>2, BlankIsRecord, StartKept
    <2> QED
        BY <1>1, <2>2, <2>3, <2>4, BlankIsRecord DEF RecordKept
<1> QED
    BY <1>2, <1>3 DEF RegistryIs, c

\* Every call of a handler or from outside is in the list.
LEMMA NextRegistry ==
    ASSUME DispatchAssumption, RegistryIs(registry, registryCalls), [NextDispatch]_dispatchVars
    PROVE  RegistryIs(registry', registryCalls')
<1>0. IsList(registryCalls)
    BY DEF RegistryIs
<1>1. CASE RegistryHandler
    <2> DEFINE p == Event.packet
               x == [op |-> "seen", device |-> p.device, arg |-> p.capabilities, time |-> Event.time]
               b == Append(registryCalls, x)
    <2>1. CASE PipelineAccepts(steps, p)
        <3>1. registry' = MarkSeen(registry, p, Event.time) /\ registryCalls' = b
            BY <1>1, <2>1 DEF RegistryHandler
        <3>2. Extends(b, registryCalls, x)
            BY <1>0, AppendExtends
        <3>3. x.op = "seen" /\ x.device = p.device /\ x.arg = p.capabilities /\ x.time = Event.time
            OBVIOUS
        <3> HIDE DEF x, b, p
        <3>4. RegistryIs(MarkSeen(registry, p, x.time), b)
            BY <3>2, <3>3, MarkSeenKeeps
        <3> QED
            BY <3>1, <3>3, <3>4
    <2>2. CASE ~PipelineAccepts(steps, p)
        <3>1. registry' = registry /\ registryCalls' = registryCalls
            BY <1>1, <2>2 DEF RegistryHandler
        <3> QED
            BY <3>1
    <2> QED
        BY <2>1, <2>2
<1>2. ASSUME NEW op, NEW d, NEW a, RegistryCall(op, d, a),
             op = "upsert" => a \in Upserts /\ a.device = d,
             op \in {"upsert", "erase", "lifecycle", "label"}
      PROVE  RegistryIs(registry', registryCalls')
    <2> DEFINE x == [op |-> op, device |-> d, arg |-> a, time |-> 0]
               b == Append(registryCalls, x)
    <2>1. /\ registryCalls' = b
          /\ registry' = CASE op = "upsert" -> Upserted(registry, a)
                          [] op = "erase" -> Erased(registry, d)
                          [] op = "lifecycle" -> SetLifecycle(registry, d, a)
                          [] op = "label" -> AddLabel(registry, d, a)
        BY <1>2 DEF RegistryCall
    <2>2. Extends(b, registryCalls, x)
        BY <1>0, AppendExtends
    <2>3. x.op = op /\ x.device = d /\ x.arg = a
        OBVIOUS
    <2> HIDE DEF x, b
    <2>4. CASE op = "upsert"
        <3>1. IsRecord(a) /\ a.device = d
            BY <1>2, <2>4 DEF DispatchAssumption
        <3>2. RegistryIs(Upserted(registry, x.arg), b)
            BY <2>2, <2>3, <2>4, <3>1, UpsertKeeps
        <3> QED
            BY <2>1, <2>3, <2>4, <3>2
    <2>5. CASE op = "erase"
        <3>1. RegistryIs(Erased(registry, x.device), b)
            BY <2>2, <2>3, <2>5, EraseKeeps
        <3> QED
            BY <2>1, <2>3, <2>5, <3>1
    <2>6. CASE op = "lifecycle"
        <3>1. RegistryIs(SetLifecycle(registry, x.device, x.arg), b)
            BY <2>2, <2>3, <2>6, SetLifecycleKeeps
        <3> QED
            BY <2>1, <2>3, <2>6, <3>1
    <2>7. CASE op = "label"
        <3>1. RegistryIs(AddLabel(registry, x.device, x.arg), b)
            BY <2>2, <2>3, <2>7, AddLabelKeeps
        <3> QED
            BY <2>1, <2>3, <2>7, <3>1
    <2> QED
        BY <1>2, <2>4, <2>5, <2>6, <2>7
<1>3. CASE RegistryCalls
    BY <1>2, <1>3 DEF RegistryCalls
<1>4. CASE UNCHANGED <<registry, registryCalls>>
    BY <1>4
<1>5. CASE HandlerStep /\ ~RegistryHandler
    <2>1. UNCHANGED <<registry, registryCalls>>
        BY <1>5 DEF HandlerStep, LinkHandler, WindowHandler, UserReturns, UserClears, UserThrows,
                    UserSubscribes, UserPublishes, PublishReturns, viewVars
    <2> QED
        BY <1>4, <2>1
<1>6. CASE (\E e \in Events : Publish(e)) \/ (\E h \in {"registry", "links", "window", "user"} : Subscribe(h))
    <2>1. UNCHANGED <<registry, registryCalls>>
        BY <1>6 DEF Publish, Subscribe, viewVars
    <2> QED
        BY <1>4, <2>1
<1>7. CASE ClearHandlers \/ ReplayStep \/ ClearLinks \/ ClearSteps \/ ClearWindow \/ UNCHANGED dispatchVars
    <2>1. UNCHANGED <<registry, registryCalls>>
        BY <1>7 DEF ClearHandlers, ReplayStep, ReplayRecord, ReplayStops, ClearLinks, ClearSteps, ClearWindow,
                    viewVars, dispatchVars
    <2> QED
        BY <1>4, <2>1
<1>8. CASE (\E s \in Steps : AddStep(s)) \/ (\E t \in Cuts : CutWindow(t))
    <2>1. UNCHANGED <<registry, registryCalls>>
        BY <1>8 DEF AddStep, CutWindow
    <2> QED
        BY <1>4, <2>1
<1> QED
    BY <1>1, <1>3, <1>5, <1>6, <1>7, <1>8 DEF NextDispatch

\* A device that has a record was called about.
LEMMA RecordsCalled ==
    ASSUME NEW c, IsList(c)
    PROVE  LET D == {c[i].device : i \in DOMAIN c}
           IN  IsFiniteSet(D) /\ \A d : HasRecord(c, d) => d \in D
<1> DEFINE D == {c[i].device : i \in DOMAIN c}
           n == Len(c)
<1>1. DOMAIN c = 1..n /\ n \in Nat
    BY DEF IsList
<1>2. IsFiniteSet(D)
    <2>1. IsFiniteSet(1..n)
        BY <1>1, FS_Interval
    <2> DEFINE f == [i \in DOMAIN c |-> c[i].device]
    <2>2. f \in Surjection(1..n, D)
        BY <1>1 DEF Surjection
    <2> HIDE DEF D, f
    <2> QED
        BY <2>1, <2>2, FS_Surjection
<1>3. ASSUME NEW d, HasRecord(c, d) PROVE d \in D
    <2>1. CASE Since(c, d) # {}
        BY <2>1 DEF Since, CallsOn
    <2>2. CASE LastReplaced(c, d) # 0
        BY <2>2, ReplacedAt DEF Replaced, CallsOn
    <2> QED
        BY <1>3, <2>1, <2>2 DEF HasRecord, WasUpserted
<1> QED
    BY <1>2, <1>3

\* The size of two sets that have nothing in common.
LEMMA DisjointSizes ==
    ASSUME NEW S, IsFiniteSet(S), NEW T, IsFiniteSet(T), S \cap T = {}
    PROVE  Cardinality(S \cup T) = Cardinality(S) + Cardinality(T)
<1> DEFINE a == Cardinality(S)
           b == Cardinality(T)
           u == Cardinality(S \cup T)
<1>1. a \in Nat /\ b \in Nat
    BY FS_CardinalityType
<1>2. u = a + b - Cardinality(S \cap T)
    BY FS_Union
<1>3. Cardinality(S \cap T) = 0
    BY FS_EmptySet
<1> HIDE DEF a, b, u
<1>4. u = a + b
    BY <1>1, <1>2, <1>3
<1> QED
    BY <1>4 DEF a, b, u

\* What RegistryIs says is what RegistryExact does.
LEMMA RegistryIsExact ==
    ASSUME NEW g, NEW c, RegistryIs(g, c)
    PROVE  RegistryExact(g, c)
<1> DEFINE D == {c[i].device : i \in DOMAIN c}
<1>1. IsList(c) /\ \A d : (d \in DOMAIN g <=> HasRecord(c, d)) /\ RecordKept(c, d, RecordAt(g, d))
    BY DEF RegistryIs
<1>2. IsFiniteSet(D) /\ \A d : HasRecord(c, d) => d \in D
    BY <1>1, RecordsCalled
<1>3. DOMAIN g = {d \in D : HasRecord(c, d)}
    <2> HIDE DEF D
    <2> QED
        BY <1>1, <1>2
<1>4. \A d \in DOMAIN g : RecordExact(c, d, g[d])
    BY <1>1 DEF RecordKept, RecordAt
<1>5. Summary(g).total >= Summary(g).active + Summary(g).quarantined + Summary(g).retired
    <2> DEFINE A == ByLifecycle(g, "active")
               Q == ByLifecycle(g, "quarantined")
               R == ByLifecycle(g, "retired")
    <2>1. /\ Summary(g).total = Cardinality(DOMAIN g) /\ Summary(g).active = Cardinality(A)
          /\ Summary(g).quarantined = Cardinality(Q) /\ Summary(g).retired = Cardinality(R)
        BY DEF Summary
    <2>2. A \cup Q \cup R \subseteq DOMAIN g /\ A \cap Q = {} /\ (A \cup Q) \cap R = {}
        BY DEF ByLifecycle
    <2> HIDE DEF A, Q, R, D
    <2>3. IsFiniteSet(DOMAIN g)
        BY <1>2, <1>3, FS_Subset
    <2>4. IsFiniteSet(A) /\ IsFiniteSet(Q) /\ IsFiniteSet(R) /\ IsFiniteSet(A \cup Q) /\ IsFiniteSet(A \cup Q \cup R)
        <3>1. A \subseteq DOMAIN g /\ Q \subseteq DOMAIN g /\ R \subseteq DOMAIN g /\ A \cup Q \subseteq DOMAIN g
            BY <2>2
        <3> QED
            BY <2>2, <2>3, <3>1, FS_Subset
    <2>8. /\ Cardinality(A) \in Nat /\ Cardinality(Q) \in Nat /\ Cardinality(R) \in Nat
          /\ Cardinality(DOMAIN g) \in Nat
        BY <2>3, <2>4, FS_CardinalityType
    <2>5. Cardinality(A \cup Q) = Cardinality(A) + Cardinality(Q)
        BY <2>2, <2>4, DisjointSizes
    <2>6. Cardinality((A \cup Q) \cup R) = Cardinality(A \cup Q) + Cardinality(R)
        BY <2>2, <2>4, DisjointSizes
    <2>7. Cardinality(A \cup Q \cup R) <= Cardinality(DOMAIN g)
        BY <2>2, <2>3, FS_Subset
    <2>9. Cardinality(DOMAIN g) >= Cardinality(A) + Cardinality(Q) + Cardinality(R)
        <3> DEFINE a == Cardinality(A)
                   q == Cardinality(Q)
                   r == Cardinality(R)
                   t == Cardinality(DOMAIN g)
        <3>1. a + q + r <= t /\ a \in Nat /\ q \in Nat /\ r \in Nat /\ t \in Nat
            BY <2>5, <2>6, <2>7, <2>8
        <3> HIDE DEF a, q, r, t
        <3>2. t >= a + q + r
            BY <3>1
        <3> QED
            BY <3>2 DEF a, q, r, t
    <2> QED
        BY <2>1, <2>9
<1>6. UNION {BySite(g, g[d].site) : d \in DOMAIN g} = DOMAIN g
    <2>1. \A s : BySite(g, s) \subseteq DOMAIN g
        BY DEF BySite
    <2>2. \A d \in DOMAIN g : d \in BySite(g, g[d].site)
        BY DEF BySite
    <2> QED
        BY <2>1, <2>2
<1> QED
    BY <1>3, <1>4, <1>5, <1>6 DEF RegistryExact

-----------------------------------------------------------------------------
(* Together.                                                               *)

DispatchInv == DeliveryInv /\ ReplayInv /\ ViewsInv /\ RegistryIs(registry, registryCalls)

LEMMA InitDispatchInv == InitDispatch => DispatchInv
<1> SUFFICES ASSUME InitDispatch PROVE DispatchInv
    OBVIOUS
<1>1. DeliveryInv
    BY DEF InitDispatch, DeliveryInv, DeliveryExact
<1>2. ViewsInv
    <2>1. WindowIs(<<>>, <<>>, {}, 0)
        BY WindowEmpty, DispatchAssumption
    <2>2. IsStepList(<<>>)
        BY DEF IsStepList
    <2> QED
        BY <2>1, <2>2 DEF InitDispatch, ViewsInv
<1>3. ReplayInv
    <2>1. /\ archive \in Archives /\ published = <<>> /\ calls = <<>>
          /\ replay.status \in {"none", "running"} /\ replay.seen = 0 /\ replay.emitted = 0
          /\ replay.bytes = 0 /\ replay.published = 0 /\ replay \in Replays
        BY DEF InitDispatch, NoReplay, Replays
    <2>2. Len(archive) \in Nat
        BY <2>1, DispatchAssumption DEF DispatchAssumption, IsList
    <2>3. IsChosen(<<>>, archive, 0)
        <3>1. Chosen(archive, 0) = {}
            BY DEF Chosen
        <3> QED
            BY <3>1, FS_EmptySet DEF IsChosen
    <2>4. SumFunctionOnSet(Sizes(<<>>), 1..0) = 0
        <3>1. 1..0 = {}
            OBVIOUS
        <3> QED
            BY <3>1, SumEmpty
    <2>5. Replayed
        BY <2>1, <2>2, <2>3, <2>4 DEF Replayed
    <2>6. published \in Seq(AllEvents)
        BY <2>1
    <2> QED
        BY <2>1, <2>5, <2>6 DEF ReplayInv
<1>4. RegistryIs(registry, registryCalls)
    BY RegistryEmpty DEF InitDispatch
<1> QED
    BY <1>1, <1>2, <1>3, <1>4 DEF DispatchInv

LEMMA NextDispatchInv == DispatchInv /\ [NextDispatch]_dispatchVars => DispatchInv'
<1> SUFFICES ASSUME DispatchInv, [NextDispatch]_dispatchVars PROVE DispatchInv'
    OBVIOUS
<1>1. DispatchAssumption /\ DeliveryInv /\ ReplayInv /\ ViewsInv /\ RegistryIs(registry, registryCalls)
    BY DispatchAssumption DEF DispatchInv
<1>2. archive \in Archives /\ replay.seen \in Nat
    BY <1>1 DEF ReplayInv, Replays
<1> QED
    BY <1>1, <1>2, NextDelivers, NextReplays, NextViews, NextRegistry DEF DispatchInv

\* Whatever the handlers do, every publish() that returns has called exactly the handlers that were
\* subscribed when it began; a replay has published exactly what the archive holds in the window
\* before its first damaged record, and counts exactly what was seen to the end; the pipeline
\* decides by the first step that does not go on; the window is the end of what was observed; and
\* a device has a record exactly when it was upserted or seen since it was last erased, with the
\* name, labels, capabilities, lifecycle, times and packet count those calls leave.
THEOREM EventsServedExactly == DispatchSpec => []EventsServed
<1>1. DispatchInv => EventsServed
    <2> SUFFICES ASSUME DispatchInv PROVE EventsServed
        OBVIOUS
    <2>1. /\ DispatchAssumption /\ DeliveryInv /\ ReplayInv /\ ViewsInv
          /\ RegistryIs(registry, registryCalls)
        BY DispatchAssumption DEF DispatchInv
    <2>2. DeliveryExact
        BY <2>1 DEF DeliveryInv
    <2>3. ReplayExact
        BY <2>1, ReplaysExactly
    <2>4. PipelineExact(steps, {e.packet : e \in Events})
        <3>1. IsStepList(steps)
            BY <2>1 DEF ViewsInv
        <3> QED
            BY <2>1, <3>1, PipelineDecides
    <2>5. WindowExact(window, added, cuts, WindowWidth, MaxObservations)
        <3>1. added \in Seq(Nat) /\ \E k : WindowIs(window, added, cuts, k)
            BY <2>1 DEF ViewsInv
        <3> QED
            BY <3>1, WindowIsExact
    <2>6. RegistryExact(registry, registryCalls)
        BY <2>1, RegistryIsExact
    <2> QED
        BY <2>2, <2>3, <2>4, <2>5, <2>6 DEF EventsServed
<1> QED
    BY <1>1, InitDispatchInv, NextDispatchInv, PTL DEF DispatchSpec
==============================================================================
