---------------------------- MODULE EventDispatch ----------------------------
(* EventDispatcher (src/runtime/event_dispatcher.cpp) with the objects its     *)
(* handlers feed: a FleetRegistry behind a PacketPipeline, a LinkMonitor and   *)
(* an ObservationWindow.  Events come from a live collector or from            *)
(* ReplayDriver and ReplayEngine (src/runtime/replay_driver.cpp,               *)
(* src/replay/replay_engine.cpp), which read an archive that may be damaged.   *)
(* A handler runs inside publish() and may call the dispatcher again or throw, *)
(* so publish() is one step per handler.  The pause between two replayed       *)
(* records and rendering are left out.                                         *)
EXTENDS PacketViews

CONSTANTS
    Events,             \* [time, packet] that may be published
    Relayed,            \* those a handler may publish in turn
    Archives,           \* sequences of [time, packet, intact]
    ReplayStart,        \* ReplayOptions::start_time_ns, 0 for none
    ReplayEnd,          \* ReplayOptions::end_time_ns, 0 for none
    Upserts, Labels, Steps, Cuts,
    JitterWarning, IdleWarning, WindowWidth, MaxObservations,
    MaxPublished,       \* bound on the events published
    MaxCalls,           \* bound on the calls on the registry
    MaxHandlers,        \* bound on the handlers subscribed
    MaxSteps            \* bound on the steps of the pipeline

IsPacket(p) ==
    /\ p = [device |-> p.device, sequence |-> p.sequence, payload |-> p.payload,
            capabilities |-> p.capabilities, sampled |-> p.sampled]
    /\ p.payload \in Nat /\ p.sampled \in Nat

IsList(s) == Len(s) \in Nat /\ s = [i \in 1..Len(s) |-> s[i]]

IsRecord(r) == DOMAIN r = DOMAIN BlankRecord /\ r.packets \in Nat /\ IsList(r.labels)

ASSUME DispatchAssumption ==
    /\ \A e \in Events \cup Relayed : e.time \in Nat /\ IsPacket(e.packet)
    /\ \A a \in Archives : IsList(a) /\ \A i \in DOMAIN a : IsPacket(a[i].packet)
    /\ \A r \in Upserts : IsRecord(r)
    /\ \A s \in Steps : s.limit \in Nat
    /\ Cuts \subseteq Nat
    /\ {ReplayStart, ReplayEnd, JitterWarning, IdleWarning, WindowWidth, MaxObservations} \subseteq Nat

VARIABLES
    handlers,       \* handlers_, each by what it does
    calls,          \* the publish() calls under way, the innermost last
    registry, steps, links, window,
    archive, replay,
    published,      \* history: the events of outermost publish() calls
    done,           \* history: of the publish() calls that returned, whom they should have called and whom they did
    registryCalls,  \* history: the calls on the registry
    added, cuts     \* history: what the window was given, and expire_before

viewVars == <<registry, steps, links, window, registryCalls, added, cuts>>

dispatchVars == <<handlers, calls, archive, replay, published, done, viewVars>>

-----------------------------------------------------------------------------
(* EventDispatcher. *)
PublishCall(event) == [event |-> event, copy |-> handlers, called |-> <<>>]

\* mutant: the loop runs over handlers_ itself
PendingLive(call) == SubSeq(handlers, Len(call.called) + 1, Len(handlers))

\* publish() copies the list, so it is not disturbed by what the handlers do to it.
Pending(call) == SubSeq(call.copy, Len(call.called) + 1, Len(call.copy))

Turn(handler) == calls # <<>> /\ Pending(Last(calls)) # <<>> /\ Head(Pending(Last(calls))) = handler

Event == Last(calls).event

Advanced(handler) == [calls EXCEPT ![Len(calls)].called = Append(@, handler)]

Publish(event) ==
    /\ calls = <<>> /\ replay.status = "none" /\ Len(published) < MaxPublished
    /\ calls' = <<PublishCall(event)>>
    /\ published' = Append(published, event)
    /\ UNCHANGED <<handlers, archive, replay, done, viewVars>>

Subscribe(handler) ==
    /\ calls = <<>> /\ Len(handlers) < MaxHandlers
    /\ handlers' = Append(handlers, handler)
    /\ UNCHANGED <<calls, archive, replay, published, done, viewVars>>

\* The driver's dispatcher is private and has no clear().
ClearHandlers ==
    /\ calls = <<>> /\ replay.status = "none" /\ handlers # <<>>
    /\ handlers' = <<>>
    /\ UNCHANGED <<calls, archive, replay, published, done, viewVars>>

-----------------------------------------------------------------------------
(* Handlers. *)
RegistryHandler ==
    /\ Turn("registry")
    /\ calls' = Advanced("registry")
    /\ IF PipelineAccepts(steps, Event.packet)
       THEN /\ registry' = MarkSeen(registry, Event.packet, Event.time)
            /\ registryCalls' = Append(registryCalls, [op |-> "seen", device |-> Event.packet.device,
                                                       arg |-> Event.packet.capabilities, time |-> Event.time])
       ELSE UNCHANGED <<registry, registryCalls>>
    /\ UNCHANGED <<handlers, archive, replay, published, done, steps, links, window, added, cuts>>

LinkHandler ==
    /\ Turn("links")
    /\ calls' = Advanced("links")
    /\ links' = Append(links, LinkSample(Event.packet, Event.time))
    /\ UNCHANGED <<handlers, archive, replay, published, done, registry, steps, window, registryCalls, added, cuts>>

WindowHandler ==
    /\ Turn("window")
    /\ calls' = Advanced("window")
    /\ window' = WindowAdd(window, Event.packet.sampled, WindowWidth, MaxObservations)
    /\ added' = Append(added, Event.packet.sampled)
    /\ UNCHANGED <<handlers, archive, replay, published, done, registry, steps, links, registryCalls, cuts>>

\* A handler that calls back: it subscribes another one, clears the list, publishes, or throws
\* through every publish() under way.
UserReturns ==
    /\ Turn("user")
    /\ calls' = Advanced("user")
    /\ UNCHANGED <<handlers, archive, replay, published, done, viewVars>>

UserSubscribes(handler) ==
    /\ Turn("user") /\ Len(handlers) < MaxHandlers
    /\ calls' = Advanced("user")
    /\ handlers' = Append(handlers, handler)
    /\ UNCHANGED <<archive, replay, published, done, viewVars>>

UserClears ==
    /\ Turn("user") /\ replay.status = "none"
    /\ calls' = Advanced("user")
    /\ handlers' = <<>>
    /\ UNCHANGED <<archive, replay, published, done, viewVars>>

UserPublishes(event) ==
    /\ Turn("user") /\ replay.status = "none" /\ Len(calls) = 1
    /\ calls' = Append(Advanced("user"), PublishCall(event))
    /\ UNCHANGED <<handlers, archive, replay, published, done, viewVars>>

UserThrows ==
    /\ Turn("user")
    /\ calls' = <<>>
    /\ replay' = IF replay.status = "running" THEN [replay EXCEPT !.status = "failed"] ELSE replay
    /\ UNCHANGED <<handlers, archive, published, done, viewVars>>

PublishReturns ==
    /\ calls # <<>> /\ Pending(Last(calls)) = <<>>
    /\ calls' = Front(calls)
    /\ done' = done \cup {[wanted |-> Last(calls).copy, called |-> Last(calls).called]}
    /\ replay' = IF replay.status # "running" THEN replay
                 ELSE [replay EXCEPT !.published = @ + 1, !.emitted = @ + 1, !.bytes = @ + Event.packet.payload]
    /\ UNCHANGED <<handlers, archive, published, viewVars>>

-----------------------------------------------------------------------------
(* ReplayDriver::run and ReplayEngine::run. *)
WithinWindow(time) == (ReplayStart = 0 \/ time >= ReplayStart) /\ (ReplayEnd = 0 \/ time <= ReplayEnd)

NoReplay == [status |-> "none", seen |-> 0, emitted |-> 0, bytes |-> 0, published |-> 0]

ReplayRun == replay.status = "running" /\ calls = <<>>

\* next() gives the next record, which is published if it lies in the window.
ReplayRecord ==
    /\ ReplayRun /\ replay.seen < Len(archive)
    /\ archive[replay.seen + 1].intact
    /\ replay' = [replay EXCEPT !.seen = @ + 1]
    /\ LET record == archive[replay.seen + 1]
           event == [time |-> record.time, packet |-> record.packet]
       IN  IF WithinWindow(record.time)
           THEN calls' = <<PublishCall(event)>> /\ published' = Append(published, event)
           ELSE UNCHANGED <<calls, published>>
    /\ UNCHANGED <<handlers, archive, done, viewVars>>

\* It throws on a damaged record and gives nothing at the end.
ReplayStops ==
    /\ ReplayRun /\ (replay.seen < Len(archive) => ~archive[replay.seen + 1].intact)
    /\ replay' = [replay EXCEPT !.status = IF replay.seen < Len(archive) THEN "failed" ELSE "finished"]
    /\ UNCHANGED <<handlers, calls, archive, published, done, viewVars>>

-----------------------------------------------------------------------------
(* Calls on the views from outside. *)
RegistryCall(op, device, arg) ==
    /\ calls = <<>> /\ Len(registryCalls) < MaxCalls
    /\ registry' = CASE op = "upsert" -> Upserted(registry, arg)
                     [] op = "erase" -> Erased(registry, device)
                     [] op = "lifecycle" -> SetLifecycle(registry, device, arg)
                     [] op = "label" -> AddLabel(registry, device, arg)
    /\ registryCalls' = Append(registryCalls, [op |-> op, device |-> device, arg |-> arg, time |-> 0])
    /\ UNCHANGED <<handlers, calls, archive, replay, published, done, steps, links, window, added, cuts>>

AddStep(step) ==
    /\ calls = <<>> /\ Len(steps) < MaxSteps
    /\ steps' = Append(steps, step)
    /\ UNCHANGED <<handlers, calls, archive, replay, published, done, registry, links, window, registryCalls, added, cuts>>

ClearSteps ==
    /\ calls = <<>> /\ steps # <<>>
    /\ steps' = <<>>
    /\ UNCHANGED <<handlers, calls, archive, replay, published, done, registry, links, window, registryCalls, added, cuts>>

ClearLinks ==
    /\ calls = <<>> /\ links # <<>>
    /\ links' = <<>>
    /\ UNCHANGED <<handlers, calls, archive, replay, published, done, registry, steps, window, registryCalls, added, cuts>>

CutWindow(time) ==
    /\ calls = <<>> /\ window # <<>>
    /\ window' = ExpireBefore(window, time)
    /\ cuts' = cuts \cup {[after |-> Len(added), time |-> time]}
    /\ UNCHANGED <<handlers, calls, archive, replay, published, done, registry, steps, links, registryCalls, added>>

ClearWindow ==
    /\ calls = <<>> /\ window # <<>>
    /\ window' = <<>> /\ added' = <<>> /\ cuts' = {}
    /\ UNCHANGED <<handlers, calls, archive, replay, published, done, registry, steps, links, registryCalls>>

-----------------------------------------------------------------------------
InitDispatch ==
    /\ handlers = <<>> /\ calls = <<>>
    /\ registry = <<>> /\ steps = <<>> /\ links = <<>> /\ window = <<>>
    /\ archive \in Archives
    /\ replay \in {NoReplay, [NoReplay EXCEPT !.status = "running"]}
    /\ published = <<>> /\ done = {} /\ registryCalls = <<>> /\ added = <<>> /\ cuts = {}

HandlerStep ==
    \/ RegistryHandler \/ LinkHandler \/ WindowHandler
    \/ UserReturns \/ UserClears \/ UserThrows
    \/ \E h \in {"registry", "user"} : UserSubscribes(h)
    \/ \E e \in Relayed : UserPublishes(e)
    \/ PublishReturns

RegistryCalls ==
    \/ \E r \in Upserts : RegistryCall("upsert", r.device, r)
    \/ \E d \in {e.packet.device : e \in Events} :
        \/ RegistryCall("erase", d, d)
        \/ RegistryCall("lifecycle", d, "quarantined")
        \/ \E l \in Labels : RegistryCall("label", d, l)

ReplayStep == ReplayRecord \/ ReplayStops

NextDispatch ==
    \/ \E e \in Events : Publish(e)
    \/ \E h \in {"registry", "links", "window", "user"} : Subscribe(h)
    \/ ClearHandlers \/ HandlerStep \/ ReplayStep \/ RegistryCalls
    \/ \E s \in Steps : AddStep(s)
    \/ ClearSteps \/ ClearLinks \/ ClearWindow
    \/ \E t \in Cuts : CutWindow(t)

DispatchSpec == InitDispatch /\ [][NextDispatch]_dispatchVars

-----------------------------------------------------------------------------
\* A publish() that returns has called exactly the handlers that were subscribed when it began, in
\* their order, although handlers subscribe others, clear the list, publish or throw meanwhile
\* (EventDispatcher::publish).
DeliveryExact == \A d \in done : d.called = d.wanted

\* What a replay has published is what the archive holds before its first damaged record, in order
\* and within the window; its counts say how much of that the handlers have seen to the end, also
\* when a handler or the reader threw (ReplayEngine::run, ReplayDriver::run).
ReplayExact ==
    replay.status # "none" =>
        LET chosen == {i \in 1..replay.seen : WithinWindow(archive[i].time)}
            underway == Len(published) - replay.emitted
        IN  /\ \A i \in 1..replay.seen : archive[i].intact
            /\ Len(published) = Cardinality(chosen)
            /\ \A i \in chosen :
                published[Cardinality(chosen \cap 1..i)] = [time |-> archive[i].time, packet |-> archive[i].packet]
            /\ replay.published = replay.emitted
            /\ underway \in 0..1
            /\ replay.status # "failed" => (underway = 1 <=> calls # <<>>)
            /\ replay.bytes = SumFunctionOnSet([i \in DOMAIN published |-> published[i].packet.payload], 1..replay.emitted)
            /\ replay.status = "finished" => replay.seen = Len(archive)

\* The events reach their handlers exactly once and in order, live or replayed, and what three of
\* the handlers keep says what their calls say, taken together: the verdict of the pipeline is the
\* one of the steps that were added, the window is the end of what was observed, and the registry's
\* records and lifecycles follow from the packets, labels and orders of an operator in whatever
\* order they came, also for device 0 (EventDispatcher, ReplayDriver, PacketPipeline::run,
\* ObservationWindow, FleetRegistry).
EventsServed ==
    /\ DeliveryExact
    /\ ReplayExact
    /\ PipelineExact(steps, {e.packet : e \in Events})
    /\ WindowExact(window, added, cuts, WindowWidth, MaxObservations)
    /\ RegistryExact(registry, registryCalls)

\* The link report says which neighbours in time are too far apart or out of sequence, whatever order
\* the packets were observed in (LinkMonitor::report).
LinksReported == LinkReportExact(links, JitterWarning, IdleWarning)
=============================================================================
