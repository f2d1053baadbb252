----------------------------- MODULE CaptureLab -----------------------------
(***************************************************************************)
(* The recorder (src/bin/capture-lab.rs) and the bundle it writes          *)
(* (src/replay.rs:14-278).  Its provider is Linux evdev; what it sees of   *)
(* that provider is a sequence of answers, so the scripted one stands for  *)
(* it, with snapshots the Linux provider describes.  The host may change   *)
(* between the enumeration of the manifest and that of the session's poll. *)
(***************************************************************************)
EXTENDS Replay

CONSTANTS
  PollCounts,  \* the poll-count arguments; parse_options refuses 0
  Nodes        \* the event nodes hosts may have

ASSUME PollsAssumption == PollCounts \subseteq Nat
ASSUME NodesAssumption ==
  \A n \in Nodes :
    /\ n.path \in Seq(Byte)
    /\ \A option \in {n.uniq, n.phys} :
         option = None \/ \E value \in option : value \in Seq(Byte) /\ option = Some(value)
\* Vectors are sequences, and a directory lists a device node once.
IsSequence(q) == q \in Seq(Range(q))
ASSUME ScriptsAssumption ==
  \A s \in Scripts :
    /\ IsSequence(s.scans) /\ IsSequence(s.plans)
    /\ \A scan \in Range(s.scans) : \A snapshot \in scan :
         /\ snapshot.devices \in Seq(Described(Nodes)) /\ IsSequence(snapshot.issues)
         /\ \A i, j \in DOMAIN snapshot.devices :
              snapshot.devices[i].device_path = snapshot.devices[j].device_path => i = j
    /\ \A plan \in Range(s.plans) :
         /\ IsSequence(plan.reads)
         /\ \A read \in Range(plan.reads) : \A batches \in read : IsSequence(batches)

VARIABLES
  program,    \* "embedder", or where the lab is: "start", "poll", ..., "failed"
  polls,      \* the polls still to be done
  devices,    \* the snapshot the manifest and the indices are made from
  recording   \* the bundle written, if one is

vars == <<replay, program, polls, devices, recording>>

-----------------------------------------------------------------------------
(* Sanitizing.                                                             *)

Manifest(listed) == [i \in DOMAIN listed |->
  [identity |-> listed[i].identity, transport |-> listed[i].transport,
   control_count |-> Len(listed[i].controls)]]

\* The map from ids to indices; of equal ids the last one stays.
Indices(listed) == [id \in {d.source_id : d \in Range(listed)} |->
                      Max({i \in DOMAIN listed : listed[i].source_id = id})]

\* A source that is not in the manifest has no frames.
OrFirst(listed, id) ==
  IF id \in DOMAIN Indices(listed) THEN Some(Indices(listed)[id]) ELSE Some(1)
IndexOf(listed, id) ==
  IF id \in DOMAIN Indices(listed) THEN Some(Indices(listed)[id]) ELSE None

FixtureControl(index, control) ==
  [source_index |-> index, event_type |-> EventType[control.kind], code |-> control.code,
   absolute_range |-> IF control.kind = "AbsoluteAxis" THEN Some(control.range) ELSE None]

FixtureControls(listed) ==
  FlattenSeq([i \in DOMAIN listed |->
    [c \in DOMAIN listed[i].controls |->
       FixtureControl(Get(IndexOf(listed, listed[i].source_id)), listed[i].controls[c])]])

\* Times are nanoseconds from the epoch; those before it are recorded as 0.
Micros(time) == IF time < 0 THEN 0 ELSE time \div 1000
FixtureEvent(event) == [timestamp_micros |-> Micros(event.timestamp), code |-> event.code]

\* Only Input events are kept.
Batches(calls) ==
  LET events == FlattenSeq([n \in DOMAIN calls |-> calls[n].events])
      inputs == Chosen(events, {n \in DOMAIN events : events[n].kind = "Input"})
  IN [i \in DOMAIN inputs |-> inputs[i].detail]

FixtureFrame(index, batch) ==
  [source_index |-> index, sequence |-> batch.sequence,
   events |-> [e \in DOMAIN batch.events |-> FixtureEvent(batch.events[e])]]

FixtureFrames(listed, batches) ==
  LET kept == Chosen(batches, {n \in DOMAIN batches : IndexOf(listed, batches[n].source_id) # None})
  IN [i \in DOMAIN kept |-> FixtureFrame(Get(IndexOf(listed, kept[i].source_id)), kept[i])]

SanitizedCapture(listed, calls, synthetic) ==
  LET frames == FixtureFrames(listed, Batches(calls))
  IN [synthetic |-> synthetic, sources |-> Manifest(listed), controls |-> FixtureControls(listed),
      frames |-> frames, frame_count |-> Len(frames)]

-----------------------------------------------------------------------------
(* The program.                                                            *)

LabInit ==
  /\ Init
  /\ program \in {"embedder", "start"}
  /\ polls \in PollCounts
  /\ devices = <<>>
  /\ recording = None

Embedder == program = "embedder" /\ Embed /\ UNCHANGED <<program, polls, devices, recording>>

\* parse_options fails before anything is enumerated or written.
RefuseOptions ==
  /\ program = "start" /\ polls = 0
  /\ program' = "failed"
  /\ UNCHANGED <<replay, polls, devices, recording>>

Synthetic ==
  /\ program = "start" /\ polls > 0
  /\ recording' = Some(SanitizedCapture(<<>>, <<>>, TRUE))
  /\ program' = "done"
  /\ UNCHANGED <<replay, polls, devices>>

Enumerate ==
  /\ program = "start" /\ polls > 0
  /\ scans' = ScansLeft
  /\ IF Answer = None THEN program' = "failed" /\ UNCHANGED devices
     ELSE program' = "poll" /\ devices' = Get(Answer).devices
  /\ UNCHANGED <<script, sources, active, log, polls, recording>>

FirstPoll ==
  /\ program = "poll"
  /\ Poll
  /\ program' = IF Answer = None THEN "failed" ELSE "poll_active"
  /\ polls' = polls - 1
  /\ UNCHANGED <<devices, recording>>

NextPoll ==
  /\ program = "poll_active" /\ polls > 0
  /\ PollActive
  /\ polls' = polls - 1
  /\ UNCHANGED <<program, devices, recording>>

Record ==
  /\ program = "poll_active" /\ polls = 0
  /\ recording' = Some(SanitizedCapture(devices, log, FALSE))
  /\ program' = "done"
  /\ UNCHANGED <<replay, polls, devices>>

Next == Embedder \/ RefuseOptions \/ Synthetic \/ Enumerate \/ FirstPoll \/ NextPoll \/ Record

Spec == LabInit /\ [][Next]_vars

-----------------------------------------------------------------------------
(* Properties.                                                             *)

\* "native frames, control metadata ... by sanitized source index" (README.md:144-145):
\* no two sources share an index, and the frames of a bundle are, in the order they
\* were delivered, those of the manifest's sources, each under the index of its
\* own source and its events in their order; a source that only the session's own
\* enumeration found has none.
FramesOfTheirSource ==
  \A bundle \in recording :
    LET batches == Batches(log)
        listed == {n \in DOMAIN batches :
                     \E d \in Range(devices) : d.source_id = batches[n].source_id}
        Codes(events) == [e \in DOMAIN events |-> events[e].code]
    IN /\ Len(bundle.sources) = Len(devices)
       /\ \A i, j \in DOMAIN devices : devices[i].source_id = devices[j].source_id => i = j
       /\ Len(bundle.frames) = Cardinality(listed) /\ bundle.frame_count = Cardinality(listed)
       /\ \A n \in listed :
            LET frame == bundle.frames[Cardinality(listed \cap (1..n))]
            IN /\ frame.source_index \in DOMAIN bundle.sources
               /\ devices[frame.source_index].source_id = batches[n].source_id
               /\ frame.sequence = batches[n].sequence
               /\ Codes(frame.events) = Codes(batches[n].events)

Evidence(d) == <<d.identity.bus, d.identity.vendor, d.identity.product,
                 IF d.unique_id # None THEN <<"uniq", d.unique_id>>
                 ELSE <<"phys", d.physical_path>>>>

Seen == Range(devices) \cup {active[id].descriptor : id \in DOMAIN active}

\* "preferring a hardware unique ID and then topology" (identity.rs:3): whatever
\* bytes the kernel's strings hold, two devices share a physical id exactly when
\* they share that evidence, two sources share an id exactly when they are also
\* one node, and the stability tells which evidence it was.
IdentityFollowsEvidence ==
  \A d, e \in Seen :
    /\ d.physical_id = e.physical_id <=> Evidence(d) = Evidence(e)
    /\ d.source_id = e.source_id <=> /\ Evidence(d) = Evidence(e)
                                     /\ d.device_path = e.device_path
    /\ d.identity_stability = CASE d.unique_id # None -> "Hardware"
                                [] d.unique_id = None /\ d.physical_path # None -> "Topology"
                                [] OTHER -> "ConnectionOnly"
=============================================================================
