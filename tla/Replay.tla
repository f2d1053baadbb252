------------------------------- MODULE Replay -------------------------------
(***************************************************************************)
(* ReplayProvider (src/replay.rs:280-370), the provider whose scans and    *)
(* reads are scripted, under a CaptureSession (src/session.rs).  A script  *)
(* is any sequence of answers a provider may give; nothing else moves, so  *)
(* here a call of the session is one step.                                 *)
(*                                                                         *)
(* A script is [scans, plans]: scans are options of snapshots, None being  *)
(* an error; a plan is [source, access, reads], a read being an option of  *)
(* a sequence of batches [source_id, sequence, events].                    *)
(***************************************************************************)
EXTENDS LinuxDescriptors, Functions

CONSTANTS
  Scripts,   \* the arguments of ReplayProvider::new
  MaxCalls   \* bound: calls of a session

\* A source's batches carry its id, as those of the kernel do (linux.rs:141).
ASSUME BatchesAssumption ==
  \A s \in Scripts : \A plan \in Range(s.plans) : \A read \in Range(plan.reads) :
    \A batches \in read : \A i \in DOMAIN batches : batches[i].source_id = plan.source

VARIABLES
  script,
  scans,     \* the scans not yet asked for
  sources,   \* per source id, the plans not yet opened
  active,    \* CaptureSession.active: a function on the ids of open sources
  log        \* the results of the session's calls

replay == <<script, scans, sources, active, log>>

\* The elements of a sequence at these positions, in order.
Chosen(q, at) ==
  LET chosen[n \in 0..Len(q)] ==
        IF n = 0 THEN <<>>
        ELSE IF n \in at THEN Append(chosen[n - 1], q[n]) ELSE chosen[n - 1]
  IN chosen[Len(q)]

Init ==
  /\ script \in Scripts
  /\ scans = script.scans
  /\ sources = [id \in {p.source : p \in Range(script.plans)} |->
                  Chosen(script.plans, {n \in DOMAIN script.plans : script.plans[n].source = id})]
  /\ active = <<>>
  /\ log = <<>>

Connected(id, access) == [kind |-> "Connected", source |-> id, detail |-> access]
Disconnected(id) == [kind |-> "Disconnected", source |-> id, detail |-> "none"]
Input(batch) == [kind |-> "Input", source |-> batch.source_id, detail |-> batch]
SourceError(id, why) == [kind |-> "SourceError", source |-> id, detail |-> why]
DiscoveryError(path) == [kind |-> "DiscoveryError", source |-> path, detail |-> "none"]

\* What `enumerate` answers; after the last scan, the default snapshot.
Answer == IF scans = <<>> THEN Some([devices |-> <<>>, issues |-> <<>>]) ELSE Head(scans)
ScansLeft == IF scans = <<>> THEN <<>> ELSE Tail(scans)

-----------------------------------------------------------------------------
NewestFirst(plans) == Last(plans)
NextPlan(plans) == Head(plans)

\* One device of the snapshot: skipped when open, else opened with its next plan.
Admit(state, device) ==
  LET id == device.source_id
      plans == IF id \in DOMAIN state.sources THEN state.sources[id] ELSE <<>>
  IN IF id \in DOMAIN state.active THEN state
     ELSE IF plans = <<>>
     THEN [state EXCEPT !.output = Append(@, SourceError(id, "Open"))]
     ELSE [active |-> [i \in {id} \cup DOMAIN state.active |->
                         IF i = id
                         THEN [descriptor |-> device, reads |-> NextPlan(plans).reads]
                         ELSE state.active[i]],
           sources |-> [state.sources EXCEPT ![id] = Tail(@)],
           output |-> Append(state.output, Connected(id, NextPlan(plans).access))]

Reconciled(snapshot) ==
  LET ids == {d.source_id : d \in Range(snapshot.devices)}
      removed == SetToSeq(DOMAIN active \ ids)
      kept ==
        [active |-> Restrict(active, DOMAIN active \cap ids),
         sources |-> sources,
         output |-> [i \in DOMAIN snapshot.issues |-> DiscoveryError(snapshot.issues[i])]
                      \o [i \in DOMAIN removed |-> Disconnected(removed[i])]]
      admitted[n \in 0..Len(snapshot.devices)] ==
        IF n = 0 THEN kept ELSE Admit(admitted[n - 1], snapshot.devices[n])
  IN admitted[Len(snapshot.devices)]

\* ReplaySource::read_batches; an exhausted source reads nothing.
ReadOf(open) == IF open.reads = <<>> THEN Some(<<>>) ELSE Head(open.reads)
AfterRead(open) == [open EXCEPT !.reads = IF @ = <<>> THEN @ ELSE Tail(@)]
RetriesError(open) ==
  IF ReadOf(open) = None THEN open ELSE AfterRead(open)
Consumed(open) == AfterRead(open)

EventsOf(id, read) ==
  IF read = None THEN <<SourceError(id, "Read")>>
  ELSE [i \in DOMAIN Get(read) |-> Input(Get(read)[i])]

\* poll_active on these sources: each is read once, whatever the others answer.
ReadAll(open) ==
  LET ids == SetToSeq(DOMAIN open)
  IN FlattenSeq([i \in DOMAIN ids |-> EventsOf(ids[i], ReadOf(open[ids[i]]))])

Poll ==
  /\ scans' = ScansLeft
  /\ IF Answer = None
     THEN /\ log' = Append(log, [call |-> "error", events |-> <<>>])
          /\ UNCHANGED <<sources, active>>
     ELSE LET state == Reconciled(Get(Answer))
          IN /\ active' = [id \in DOMAIN state.active |-> Consumed(state.active[id])]
             /\ sources' = state.sources
             /\ log' = Append(log, [call |-> "poll",
                                    events |-> state.output \o ReadAll(state.active)])
  /\ UNCHANGED script

PollActive ==
  /\ active' = [id \in DOMAIN active |-> Consumed(active[id])]
  /\ log' = Append(log, [call |-> "poll_active", events |-> ReadAll(active)])
  /\ UNCHANGED <<script, scans, sources>>

\* A session's owner polls in any order.
Embed == Len(log) < MaxCalls /\ (Poll \/ PollActive)

-----------------------------------------------------------------------------
(* Properties.                                                             *)

IdsIn(call) == {e.source : e \in Range(call.events)}

\* The calls, by number, that brought an event of this kind from a source.
CallsWith(id, kind) ==
  {n \in DOMAIN log : \E e \in Range(log[n].events) : e.source = id /\ e.kind = kind}

PlansOf(id) == Chosen(script.plans, {n \in DOMAIN script.plans : script.plans[n].source = id})

\* A source connected by call `start` is so in call n too.
StaysConnected(id, start, n) == \A m \in CallsWith(id, "Disconnected") : ~(start < m /\ m <= n)

\* What a call says of reading a source.
Readout(id, n) ==
  LET events == log[n].events
  IN Chosen(events, {i \in DOMAIN events : events[i].source = id
                                           /\ events[i].kind \in {"Input", "SourceError"}})

ReadAt(reads, i) == IF i > Len(reads) THEN Some(<<>>) ELSE reads[i]

\* "Deterministic" replay (replay.rs:1, 300): the k-th connection of a source plays
\* its k-th plan, one read per call, errors in their place, nothing twice and
\* nothing dropped, whatever the other sources answer and however the source comes
\* and goes; a source has no more connections than plans.
ReplayedExactly ==
  \A id \in UNION {IdsIn(log[n]) : n \in DOMAIN log} :
    LET starts == CallsWith(id, "Connected")
    IN /\ Cardinality(starts) <= Len(PlansOf(id))
       /\ \A start \in starts : \A n \in start..Len(log) :
            StaysConnected(id, start, n) /\ log[n].call # "error" =>
              LET plan == PlansOf(id)[Cardinality({s \in starts : s <= start})]
                  i == Cardinality({m \in start..n : log[m].call # "error"})
              IN Readout(id, n) = EventsOf(id, ReadAt(plan.reads, i))
=============================================================================
