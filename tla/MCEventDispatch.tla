--------------------------- MODULE MCEventDispatch ---------------------------
(* EventDispatch in five kinds of behaviours: handlers that disturb the        *)
(* dispatcher, an operator at work on the registry and the pipeline, packets   *)
(* in any order for the link monitor, observations for the window, and a       *)
(* replay.  Device 0 is among the devices, and so is the time 0.               *)
EXTENDS EventDispatch

VARIABLE focus

MCPacket(device, sequence, payload, capabilities, sampled) ==
    [device |-> device, sequence |-> sequence, payload |-> payload, capabilities |-> capabilities, sampled |-> sampled]

MCEvent(time, packet) == [time |-> time, packet |-> packet]

MCEvents ==
    {MCEvent(0, MCPacket(1, 1, 1, {}, 4)), MCEvent(1, MCPacket(1, 2, 3, {"wide"}, 1)),
     MCEvent(3, MCPacket(1, 2, 2, {}, 2)), MCEvent(7, MCPacket(1, 5, 1, {"narrow"}, 6)),
     MCEvent(2, MCPacket(0, 1, 2, {}, 3))}

MCRelayed == {e \in MCEvents : e.time = 2}

MCRecord(time, e, intact) == [time |-> time, packet |-> e.packet, intact |-> intact]

MCArchives ==
    LET e == CHOOSE x \in MCEvents : x.time = 1
        z == CHOOSE x \in MCEvents : x.time = 2
    IN  {<<>>, <<MCRecord(3, e, TRUE), MCRecord(1, z, TRUE), MCRecord(2, e, TRUE), MCRecord(5, e, TRUE)>>,
         <<MCRecord(2, z, TRUE), MCRecord(4, e, TRUE), MCRecord(3, z, FALSE), MCRecord(3, e, TRUE)>>}

MCUpserts ==
    {[BlankRecord EXCEPT !.device = 1, !.lifecycle = "retired", !.site = "north", !.packets = 5, !.labels = <<"spare">>],
     [BlankRecord EXCEPT !.lifecycle = "provisioned", !.first_seen = 2]}

MCSteps == {PayloadLimitStep(2), DeviceAllowlistStep({1}), TrimStep(2), StopStep}

Foci == {"dispatch", "registry", "pipeline", "links", "window", "replay"}

MCInit ==
    /\ focus \in Foci
    /\ IF focus = "replay"
       THEN archive \in MCArchives /\ replay = [NoReplay EXCEPT !.status = "running"]
       ELSE archive = <<>> /\ replay = NoReplay
    /\ handlers \in CASE focus \in {"registry", "pipeline"} -> {<<"registry">>}
                      [] focus = "links" -> {<<"links">>}
                      [] focus = "window" -> {<<"window">>}
                      [] focus = "dispatch" -> {<<>>}
                      [] focus = "replay" -> {<<>>, <<"registry", "user">>, <<"user", "links", "registry">>}
    /\ calls = <<>> /\ registry = <<>> /\ steps = <<>> /\ links = <<>> /\ window = <<>>
    /\ published = <<>> /\ done = {} /\ registryCalls = <<>> /\ added = <<>> /\ cuts = {}

PublishStep ==
    \/ focus \in {"links", "window"} /\ \E e \in Events : Publish(e)
    \/ focus = "registry" /\ Len(registryCalls) < MaxCalls /\ \E e \in Events : e.time # 3 /\ Publish(e)
    \/ focus = "dispatch" /\ Len(published) < 2 /\ \E e \in Events : e.time = 1 /\ Publish(e)
    \/ focus = "pipeline" /\ Len(published) < 2 /\ \E e \in Events : e.time \in {1, 2} /\ Publish(e)

Outside ==
    \/ focus = "dispatch" /\ (ClearHandlers \/ \E h \in {"registry", "user"} : Subscribe(h))
    \/ focus = "registry" /\ RegistryCalls
    \/ focus = "pipeline" /\ (ClearSteps \/ \E s \in Steps : AddStep(s))
    \/ focus = "links" /\ ClearLinks
    \/ focus = "window" /\ (ClearWindow \/ \E t \in Cuts : CutWindow(t))
    \/ focus = "replay" /\ ReplayStep

MCNext == (PublishStep \/ HandlerStep \/ Outside) /\ UNCHANGED focus

MCSpec == MCInit /\ [][MCNext]_<<dispatchVars, focus>>
=============================================================================
