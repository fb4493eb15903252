------------------------- MODULE MCRuntimeScheduler -------------------------
(* Two devices, tasks with and without deadline, label and explicit id.    *)
EXTENDS RuntimeScheduler

CONSTANTS d1, d2, labelA

MCTask(id, d, label, enq, ready, deadline, prio) ==
    [id |-> id, device |-> d, kind |-> "dispatch", label |-> label, enqueue_time |-> enq,
     ready_time |-> ready, deadline |-> deadline, priority |-> prio]

MCDevice == {d1, d2}

MCTime == {1, 3}

MCTaskInputs ==
    {MCTask(0, d1, labelA, 0, 0, 2, 1),
     MCTask(0, d1, NoLabel, 1, 0, 0, 2),
     MCTask(0, d2, NoLabel, 0, 2, 3, 2),
     MCTask(0, d2, NoLabel, 0, 0, 0, 2),
     MCTask(2, d1, NoLabel, 0, 0, 0, 1)}

MCLabel == {labelA, NoLabel}
=============================================================================
