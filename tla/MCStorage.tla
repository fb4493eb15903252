------------------------------- MODULE MCStorage -------------------------------
(* ArchiveStore with two archives.  Each behaviour is about rotation, about     *)
(* damage and repair, about compaction and the views built before it, or about  *)
(* time ranges.                                                                 *)
EXTENDS ArchiveStore

VARIABLE focus

MCPathOrder == <<"archive-0", "archive-1", "archive-2", "archive-3", "capture", "capture.quarantine", "capture.repaired">>

MCShardPath == <<"archive-0", "archive-1", "archive-2", "archive-3">>

MCRepairedPath == [p \in {"capture"} |-> "capture.repaired"]

MCQuarantinePath == [p \in {"capture"} |-> "capture.quarantine"]

R(time, device, sequence, kind, payload) == Record(time, device, sequence, kind, payload, 9)

MCContents ==
    [p \in {"capture", "archive-2"} |->
        IF p = "capture"
        THEN {<<R(1, "x", 1, "telemetry", 2), R(2, "y", 4, "heartbeat", 0), R(4, "x", 2, "telemetry", 3)>>,
              <<R(0, "x", 1, "telemetry", 2), R(5, "x", 3, "telemetry", 1), R(2, "x", 2, "heartbeat", 0)>>}
        ELSE {<<>>, <<R(3, "x", 2, "telemetry", 1)>>, <<R(2, "y", 1, "telemetry", 2), R(3, "y", 2, "heartbeat", 0)>>}]

MCInputs == {<<"capture">>, <<"archive-2", "capture">>}

MCPolicies ==
    {[NoLimits EXCEPT !.max_records = 2], [NoLimits EXCEPT !.max_payload = 3],
     [NoLimits EXCEPT !.max_span = 2, !.max_records = 3], [NoLimits EXCEPT !.max_bytes = 70],
     [NoLimits EXCEPT !.idle_gap = 1]}

MCCompactionOptions ==
    {[query |-> AnyRecord, drop_empty |-> FALSE, keep_latest |-> TRUE],
     [query |-> AnyRecord, drop_empty |-> TRUE, keep_latest |-> TRUE],
     [query |-> [AnyRecord EXCEPT !.start = {2}], drop_empty |-> FALSE, keep_latest |-> FALSE]}

MCRepairOptions ==
    {[allow_salvage |-> TRUE, quarantine |-> TRUE, rewrite_header |-> TRUE, rewrite_unordered |-> u] : u \in BOOLEAN}
        \cup {[allow_salvage |-> s, quarantine |-> ~s, rewrite_header |-> TRUE, rewrite_unordered |-> FALSE] : s \in BOOLEAN}

MCQueries ==
    {AnyRecord, [AnyRecord EXCEPT !.start = {2}, !.end = {3}], [AnyRecord EXCEPT !.device = {"x"}, !.limit = 1],
     [AnyRecord EXCEPT !.kind = {"heartbeat"}], [AnyRecord EXCEPT !.device = {"y"}, !.min_payload = {1}],
     [AnyRecord EXCEPT !.kind = {"telemetry"}, !.max_payload = {2}, !.limit = 2]}

MCInit ==
    /\ Init
    /\ focus \in {"rotation", "repair", "views", "ranges"}
    /\ focus \in {"repair", "ranges"} => files["archive-2"].slots = <<>>
    /\ focus = "rotation" => Len(files["archive-2"].slots) # 1

\* Which steps a behaviour consists of.  What the disk does to a rotation's input is kept to one
\* kind of damage while shards are written.
MCNext ==
    /\ Next
    /\ UNCHANGED focus
    /\ focus = "rotation" => /\ UNCHANGED <<catalog, collection, ranges>>
                             /\ report'.operation \in {"none", "rotation"}
                             /\ (steps' # steps /\ job'.shards = job.shards) =>
                                    Busy /\ files'["capture"].slots[1].damage = "frame"
    /\ focus = "repair" => /\ UNCHANGED <<job, catalog, collection, ranges, files["archive-2"]>>
                           /\ report'.operation \in {"none", "repair"}
    /\ focus = "views" => /\ UNCHANGED <<job, ranges>>
                          /\ files' = files \/ report'.operation = "compaction"
    /\ focus = "ranges" => UNCHANGED <<files, job, report, catalog, collection>>

MCSpec == MCInit /\ [][MCNext]_<<vars, focus>>
=============================================================================
