---------------------------- MODULE DeviceSlots ----------------------------
(***************************************************************************)
(* What the scheduler promises about devices, without tasks, clocks or     *)
(* counters: a device has a fixed number of slots, a task takes one slot   *)
(* and gives it back, and nothing else ever changes who holds a slot.      *)
(***************************************************************************)
EXTENDS Integers, FiniteSets

CONSTANTS Device, Id, Slots

VARIABLE holders    \* the tasks that hold a slot of each device

Init == holders = [d \in Device |-> {}]

Take(d, i) ==
    /\ \A e \in Device : i \notin holders[e]
    /\ Cardinality(holders[d]) < Slots
    /\ holders' = [holders EXCEPT ![d] = @ \cup {i}]

Give(d, i) ==
    /\ i \in holders[d]
    /\ holders' = [holders EXCEPT ![d] = @ \ {i}]

GiveAll == holders' = [d \in Device |-> {}]

Next ==
    \/ \E d \in Device, i \in Id : Take(d, i) \/ Give(d, i)
    \/ GiveAll

Spec == Init /\ [][Next]_holders
=============================================================================
