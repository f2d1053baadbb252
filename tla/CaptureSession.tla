--------------------------- MODULE CaptureSession ---------------------------
(***************************************************************************)
(* A CaptureSession (src/session.rs) on top of the Linux provider          *)
(* (src/linux.rs): hotplug reconciliation, the access policy and the       *)
(* isolation of failing sources.                                           *)
(*                                                                         *)
(* A session is driven by one caller through &mut self, so its calls do    *)
(* not overlap, but the host moves while a call runs: nodes come and go,   *)
(* other processes grab them, players press buttons.  A call is therefore  *)
(* split at each of its system calls; its locals are reset when it         *)
(* returns, and its output is then the caller's.  A source id names one    *)
(* event node of one physical device (identity.rs:35-37); replugging the   *)
(* device gives a new kernel object under the same id, which gen counts.   *)
(***************************************************************************)
EXTENDS Integers, Sequences, FiniteSets

CONSTANTS
  SourceIds,    \* the event nodes that may exist
  AccessModes,  \* the modes a session is created with, some of AllModes
  MaxPlugs,     \* bound: how often one node is plugged in
  MaxFaults,    \* bound: faults of the host (failed describe, open or read)
  MaxSnapshot   \* bound: entries of a snapshot handed to `reconcile`

AllModes == {"Shared", "Exclusive", "PreferExclusive"}

ASSUME ModesAssumption == AccessModes \subseteq AllModes
ASSUME BoundsAssumption == /\ MaxPlugs \in Nat \ {0}
                           /\ MaxFaults \in Nat
                           /\ MaxSnapshot \in Nat

VARIABLES
  \* The host.
  up,         \* up[s]: the node of s exists
  gen,        \* gen[s]: how often s has been plugged in
  holder,     \* holder[s]: who holds the kernel's grab of s
  ready,      \* ready[s]: complete frames wait on the session's handle of s
  faults,     \* host faults so far
  \* The session: CaptureSession.mode and CaptureSession.active.
  mode,
  opened,     \* opened[s]: the incarnation the handle of s was opened on, or 0
  access,     \* access[s]: what the source granted, "Closed" without handle
  \* The call in progress.
  pc,         \* "idle", "reconcile", "grab" (inside open) or "read"
  thenRead,   \* the call is `poll`, which reads after it reconciles
  discovered, \* the ids of the snapshot
  devices,    \* the snapshot's devices the loop has not reached
  fd,         \* the incarnation `open` has opened and not granted, or 0
  unread,     \* the active sources the read loop has not reached
  output      \* the events the call has collected and not yet returned

host == <<up, gen, holder, ready, faults>>
call == <<pc, thenRead, discovered, devices, fd, unread>>
vars == <<up, gen, holder, ready, faults, mode, opened, access,
          pc, thenRead, discovered, devices, fd, unread, output>>

Holders   == {"none", "session", "other"}
Granted   == {"Shared", "Exclusive", "SharedFallback"}
Snapshots == UNION {[1..n -> SourceIds] : n \in 0..MaxSnapshot}
Elements(q) == {q[i] : i \in DOMAIN q}

Event(k, s, d) == [kind |-> k, source |-> s, detail |-> d]
Kinds   == {"Connected", "Disconnected", "Input", "SourceError",
            "DiscoveryError"}
Details == Granted \cup {"Open", "ExclusiveGrab", "Read",
                         "SynchronizationLost", "none"}
NoSource == "no source"
Events  == [kind : Kinds, source : SourceIds \cup {NoSource}, detail : Details]

-----------------------------------------------------------------------------
(* What the code reads of the state.                                       *)

Active == {s \in SourceIds : opened[s] # 0}

\* The handle of s still belongs to the device behind the node.
Live(s) == up[s] /\ opened[s] = gen[s]

NoneRemoved == {}
Removed == Active \ discovered

NeverKnown(s) == FALSE
Known(s) == s \in Active

\* Dropping a live handle closes its descriptor, which ends its grab.
KeepsGrab(S) == holder
Released(S) ==
  [s \in SourceIds |->
     IF s \in S /\ Live(s) /\ access[s] = "Exclusive" THEN "none" ELSE holder[s]]

\* What remains of a loop after one of its sources failed.
AbandonsDevices == <<>>
DevicesAfterError == Tail(devices)
AbandonsReads(s) == {}
UnreadAfterError(s) == unread \ {s}

\* `open` drops the Device on its error paths.
LeaksFd == fd
FdAfterError == 0

-----------------------------------------------------------------------------
Init ==
  /\ up \in [SourceIds -> BOOLEAN]
  /\ gen = [s \in SourceIds |-> IF up[s] THEN 1 ELSE 0]
  /\ holder = [s \in SourceIds |-> "none"]
  /\ ready = [s \in SourceIds |-> FALSE]
  /\ faults = 0
  /\ mode \in AccessModes
  /\ opened = [s \in SourceIds |-> 0]
  /\ access = [s \in SourceIds |-> "Closed"]
  /\ pc = "idle"
  /\ thenRead = FALSE
  /\ discovered = {}
  /\ devices = <<>>
  /\ fd = 0
  /\ unread = {}
  /\ output = <<>>

-----------------------------------------------------------------------------
(* The host.                                                               *)

Plug(s) ==
  /\ ~up[s] /\ gen[s] < MaxPlugs
  /\ up' = [up EXCEPT ![s] = TRUE]
  /\ gen' = [gen EXCEPT ![s] = @ + 1]
  /\ UNCHANGED <<holder, ready, faults, mode, opened, access, call, output>>

\* The kernel object goes: its grab ends and reads of its handles fail.
Unplug(s) ==
  /\ up[s]
  /\ up' = [up EXCEPT ![s] = FALSE]
  /\ holder' = [holder EXCEPT ![s] = "none"]
  /\ ready' = [ready EXCEPT ![s] = FALSE]
  /\ UNCHANGED <<gen, faults, mode, opened, access, call, output>>

\* Another process, or the capture thread this session replaces.
ForeignGrab(s) ==
  /\ up[s] /\ holder[s] = "none"
  /\ holder' = [holder EXCEPT ![s] = "other"]
  /\ UNCHANGED <<up, gen, ready, faults, mode, opened, access, call, output>>

ForeignRelease(s) ==
  /\ holder[s] = "other"
  /\ holder' = [holder EXCEPT ![s] = "none"]
  /\ UNCHANGED <<up, gen, ready, faults, mode, opened, access, call, output>>

\* A complete frame arrives; a foreign grab keeps it from other readers.
Press(s) ==
  /\ Live(s) /\ holder[s] # "other" /\ ~ready[s]
  /\ ready' = [ready EXCEPT ![s] = TRUE]
  /\ UNCHANGED <<up, gen, holder, faults, mode, opened, access, call, output>>

-----------------------------------------------------------------------------
(* reconcile: the removals, then the snapshot's devices in order.          *)

StartReconcile(devs, issue, read) ==
  /\ pc = "idle"
  /\ pc' = "reconcile"
  /\ thenRead' = read
  /\ discovered' = Elements(devs)
  /\ devices' = devs
  /\ output' = IF issue THEN <<Event("DiscoveryError", NoSource, "none")>>
                        ELSE <<>>
  /\ UNCHANGED <<up, gen, holder, ready, mode, opened, access, fd, unread>>

\* The caller's snapshot may be stale, partial, and name a device twice.
Reconcile ==
  \E devs \in Snapshots, issue \in BOOLEAN :
    StartReconcile(devs, issue, FALSE) /\ UNCHANGED faults

\* `poll` enumerates first.  A node that cannot be described or opened for
\* description is missing from the snapshot, with or without an issue.
Poll ==
  \E missed \in SUBSET {s \in SourceIds : up[s]}, devs \in Snapshots :
    /\ Elements(devs) = {s \in SourceIds : up[s]} \ missed
    /\ Len(devs) = Cardinality(Elements(devs))
    /\ missed # {} => faults < MaxFaults
    /\ faults' = IF missed = {} THEN faults ELSE faults + 1
    /\ \E issue \in BOOLEAN : /\ issue => missed # {}
                             /\ StartReconcile(devs, issue, TRUE)

\* enumerate()? returns before anything is touched.
PollError ==
  /\ pc = "idle" /\ faults < MaxFaults
  /\ faults' = faults + 1
  /\ UNCHANGED <<up, gen, holder, ready, mode, opened, access, call, output>>

RemoveOne(s) ==
  /\ pc = "reconcile" /\ s \in Removed
  /\ holder' = Released({s})
  /\ opened' = [opened EXCEPT ![s] = 0]
  /\ access' = [access EXCEPT ![s] = "Closed"]
  /\ ready' = [ready EXCEPT ![s] = FALSE]
  /\ output' = Append(output, Event("Disconnected", s, "none"))
  /\ UNCHANGED <<up, gen, faults, mode, call>>

AtDevice == pc = "reconcile" /\ Removed = {} /\ devices # <<>>

SkipKnown ==
  /\ AtDevice /\ Known(Head(devices))
  /\ devices' = Tail(devices)
  /\ UNCHANGED <<host, mode, opened, access, pc, thenRead, discovered, fd,
                 unread, output>>

\* Device::open succeeds; the grab is a system call of its own.
OpenNode ==
  /\ AtDevice /\ ~Known(Head(devices)) /\ up[Head(devices)]
  /\ fd' = gen[Head(devices)]
  /\ pc' = "grab"
  /\ UNCHANGED <<host, mode, opened, access, thenRead, discovered, devices,
                 unread, output>>

\* The provider's error is reported and the loop goes on.
SkipFailed(kind) ==
  /\ output' = Append(output, Event("SourceError", Head(devices), kind))
  /\ devices' = DevicesAfterError
  /\ fd' = FdAfterError
  /\ pc' = "reconcile"
  /\ UNCHANGED <<up, gen, holder, ready, mode, opened, access, thenRead,
                 discovered, unread>>

OpenFail ==
  /\ AtDevice /\ ~Known(Head(devices))
  /\ \/ ~up[Head(devices)] /\ UNCHANGED faults
     \/ up[Head(devices)] /\ faults < MaxFaults /\ faults' = faults + 1
  /\ SkipFailed("Open")

Insert(s, a) ==
  /\ opened' = [opened EXCEPT ![s] = fd]
  /\ access' = [access EXCEPT ![s] = a]
  /\ ready' = [ready EXCEPT ![s] = FALSE]
  /\ output' = Append(output, Event("Connected", s, a))
  /\ devices' = Tail(devices)
  /\ fd' = 0
  /\ pc' = "reconcile"
  /\ UNCHANGED <<up, gen, faults, mode, thenRead, discovered, unread>>

Grabbable(s) == up[s] /\ fd = gen[s] /\ holder[s] = "none"

GrantShared ==
  /\ pc = "grab" /\ mode = "Shared"
  /\ Insert(Head(devices), "Shared")
  /\ UNCHANGED holder

GrantExclusive ==
  /\ pc = "grab" /\ mode # "Shared" /\ Grabbable(Head(devices))
  /\ Insert(Head(devices), "Exclusive")
  /\ holder' = [holder EXCEPT ![Head(devices)] = "session"]

FallBackAlways ==
  /\ pc = "grab" /\ mode # "Shared" /\ ~Grabbable(Head(devices))
  /\ Insert(Head(devices), "SharedFallback")
  /\ UNCHANGED holder

GrantFallback ==
  /\ pc = "grab" /\ mode = "PreferExclusive" /\ ~Grabbable(Head(devices))
  /\ Insert(Head(devices), "SharedFallback")
  /\ UNCHANGED holder

GrabFail ==
  /\ pc = "grab" /\ mode = "Exclusive" /\ ~Grabbable(Head(devices))
  /\ SkipFailed("ExclusiveGrab")
  /\ UNCHANGED faults

FinishReconcile ==
  /\ pc = "reconcile" /\ Removed = {} /\ devices = <<>>
  /\ IF thenRead
     THEN pc' = "read" /\ unread' = Active /\ UNCHANGED output
     ELSE pc' = "idle" /\ output' = <<>>   /\ UNCHANGED unread
  /\ thenRead' = FALSE
  /\ discovered' = {}
  /\ UNCHANGED <<host, mode, opened, access, devices, fd>>

-----------------------------------------------------------------------------
(* poll_active: one read_batches per active source.                        *)

PollActive ==
  /\ pc = "idle"
  /\ pc' = "read"
  /\ unread' = Active
  /\ UNCHANGED <<host, mode, opened, access, thenRead, discovered, devices, fd,
                 output>>

Reading(s) == pc = "read" /\ s \in unread

ReadIdle(s) ==
  /\ Reading(s) /\ Live(s) /\ ~ready[s]
  /\ unread' = unread \ {s}
  /\ UNCHANGED <<host, mode, opened, access, pc, thenRead, discovered, devices,
                 fd, output>>

ReadInput(s) ==
  /\ Reading(s) /\ Live(s) /\ ready[s]
  /\ ready' = [ready EXCEPT ![s] = FALSE]
  /\ unread' = unread \ {s}
  /\ output' = Append(output, Event("Input", s, access[s]))
  /\ UNCHANGED <<up, gen, holder, faults, mode, opened, access, pc, thenRead,
                 discovered, devices, fd>>

\* The kernel's event buffer overran; the read's frames are discarded.
ReadLost(s) ==
  /\ Reading(s) /\ Live(s) /\ ready[s]
  /\ ready' = [ready EXCEPT ![s] = FALSE]
  /\ unread' = UnreadAfterError(s)
  /\ output' = Append(output, Event("SourceError", s, "SynchronizationLost"))
  /\ UNCHANGED <<up, gen, holder, faults, mode, opened, access, pc, thenRead,
                 discovered, devices, fd>>

\* A dead handle fails every read; a live one may fail once in a while.
ReadFail(s) ==
  /\ Reading(s)
  /\ \/ ~Live(s) /\ UNCHANGED faults
     \/ Live(s) /\ faults < MaxFaults /\ faults' = faults + 1
  /\ unread' = UnreadAfterError(s)
  /\ output' = Append(output, Event("SourceError", s, "Read"))
  /\ UNCHANGED <<up, gen, holder, ready, mode, opened, access, pc, thenRead,
                 discovered, devices, fd>>

FinishRead ==
  /\ pc = "read" /\ unread = {}
  /\ pc' = "idle"
  /\ output' = <<>>
  /\ UNCHANGED <<host, mode, opened, access, thenRead, discovered, devices, fd,
                 unread>>

\* The owner drops the session and creates another one.
Restart ==
  /\ pc = "idle"
  /\ mode' \in AccessModes
  /\ holder' = Released(SourceIds)
  /\ opened' = [s \in SourceIds |-> 0]
  /\ access' = [s \in SourceIds |-> "Closed"]
  /\ ready' = [s \in SourceIds |-> FALSE]
  /\ UNCHANGED <<up, gen, faults, call, output>>

-----------------------------------------------------------------------------
HostStep ==
  \E s \in SourceIds : Plug(s) \/ Unplug(s) \/ ForeignGrab(s)
                       \/ ForeignRelease(s) \/ Press(s)

\* The steps of a call that is in progress.
CallStep ==
  \/ \E s \in SourceIds : RemoveOne(s)
  \/ SkipKnown \/ OpenNode \/ OpenFail
  \/ GrantShared \/ GrantExclusive \/ GrantFallback \/ GrabFail
  \/ FinishReconcile
  \/ \E s \in SourceIds : ReadIdle(s) \/ ReadInput(s) \/ ReadLost(s) \/ ReadFail(s)
  \/ FinishRead

Next == HostStep \/ CallStep \/ Reconcile \/ Poll \/ PollError \/ PollActive
        \/ Restart

\* Any sequence of API calls.
Spec == Init /\ [][Next]_vars

\* The loop of README.md:60-72: poll, handle the events, poll again.  A call is
\* a thread's straight-line code, so weak fairness is what scheduling gives it.
\* The Linux provider's enumerate never fails, so PollError has no part in it.
LoopNext == HostStep \/ CallStep \/ Poll
LoopSpec == Init /\ [][LoopNext]_vars /\ WF_vars(CallStep \/ Poll)

-----------------------------------------------------------------------------
(* Properties.                                                             *)

\* Every variable has its type, the locals of a call are in use exactly in the
\* phases that use them, and an entry of `active` has a handle and an access.
TypeOK ==
  /\ up \in [SourceIds -> BOOLEAN]
  /\ gen \in [SourceIds -> 0..MaxPlugs]
  /\ holder \in [SourceIds -> Holders]
  /\ ready \in [SourceIds -> BOOLEAN]
  /\ faults \in 0..MaxFaults
  /\ mode \in AccessModes
  /\ opened \in [SourceIds -> 0..MaxPlugs]
  /\ access \in [SourceIds -> Granted \cup {"Closed"}]
  /\ pc \in {"idle", "reconcile", "grab", "read"}
  /\ thenRead \in BOOLEAN
  /\ discovered \subseteq SourceIds
  /\ devices \in Seq(SourceIds)
  /\ fd \in 0..MaxPlugs
  /\ unread \subseteq SourceIds
  /\ output \in Seq(Events)
  /\ \A s \in SourceIds : up[s] => gen[s] # 0
  /\ fd # 0 <=> pc = "grab"
  /\ pc = "grab" => devices # <<>>
  /\ unread # {} => pc = "read"
  /\ unread \subseteq Active
  /\ \A s \in SourceIds : access[s] = "Closed" <=> opened[s] = 0
  /\ pc \in {"idle", "read"} => devices = <<>>
  /\ pc = "idle" => output = <<>>

\* The kernel's grabs and the accesses reported to the consumer agree at every
\* moment: the session holds a grab exactly for its live "Exclusive" handles.
\* No grab outlives its handle, across removals, failed opens and restarts.
GrabMatchesAccess ==
  \A s \in SourceIds : holder[s] = "session" <=> Live(s) /\ access[s] = "Exclusive"

\* "Require exclusive access and fail the source" (model.rs): in Exclusive mode
\* every live handle the session reads is grabbed by it, whatever other
\* processes grabbed while the handle was being opened.
ExclusiveFailsClosed ==
  mode = "Exclusive" => \A s \in Active : Live(s) => holder[s] = "session"

ReportsFailure(q, s) ==
  \E i \in DOMAIN q : q[i].kind = "SourceError" /\ q[i].source = s
Failed(s) == ReportsFailure(output, s)

\* When the reconciliation loop is through, what is active is what the snapshot
\* lists, less the devices whose failure this call's events name: one device
\* that cannot be opened costs no other device its turn.
ReconcileAccounts ==
  (pc = "reconcile" /\ Removed = {} /\ devices = <<>>) =>
    /\ Active \subseteq discovered
    /\ \A s \in discovered \ Active : Failed(s)

Latest == IF output = <<>>
          THEN [kind |-> "none", source |-> NoSource, detail |-> "none"]
          ELSE output[Len(output)]
Lifecycle == INSTANCE SourceLifecycle WITH link <- access, event <- Latest

\* The session implements the consumer's view of it (SourceLifecycle): no
\* source is announced twice, none leaves silently, and none is heard of
\* after its Disconnected.
ImplementsLifecycle == Lifecycle!Spec

\* "A failed source is reported without stopping unrelated controllers"
\* (session.rs:65): under the poll loop the frames waiting on a source are
\* read, or lost with its device, whatever the other sources do.
IsolatedDelivery == \A s \in SourceIds : ready[s] ~> ~ready[s]

\* A node that stays, and that nobody else grabs for good, is captured in the
\* end and stays captured, whatever failed before.
EventuallyCaptured ==
  \A s \in SourceIds :
    <>[](up[s] /\ holder[s] # "other") => <>[](s \in Active)

\* A node that is gone for good does not stay in connected_devices().
EventuallyReleased ==
  \A s \in SourceIds : <>[](~up[s]) => <>[](s \notin Active)

\* docs/HARDWARE_VALIDATION.md:84-85, "no stale identity persists": a node that
\* stays is captured through a handle of the device that is there.  The code
\* does not do this: a device replugged under its id between two scans is
\* `contains_key` (session.rs:113), so its dead handle is kept for ever.
StaleHandleReplaced ==
  \A s \in SourceIds : <>[](up[s] /\ holder[s] # "other") => <>[]Live(s)
=============================================================================
