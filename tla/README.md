# gamepad-capture in TLA+

`gamepad-capture` reads game controllers on Linux: it discovers evdev nodes,
opens them under an access policy, and hands complete input frames to a caller.
Around this core the crate has offline parts (HID descriptors, profiles,
sanitized recordings, replay) and two programs, `gamepad-tester` (a window) and
`capture-lab` (a command line). This project models the parts whose correctness
depends on order, concurrency or failure, checks them with TLC and proves the
central results with TLAPS, among them every safety property that a run shows to hold. Line numbers refer to this commit of the repository.

## The system

| Component | State | Operations | Talks to |
|---|---|---|---|
| `CaptureSession` (`session.rs`) | `mode`, `active` (source id to open source) | `new`, `poll`, `reconcile`, `poll_active`, `connected_devices`, `into_provider`, drop | calls the provider and its sources; returns events to its caller |
| Linux provider (`linux.rs`) | none of its own; the kernel holds nodes, handles and grabs | `enumerate`, `open` (open, grab, or fall back) | system calls; other processes may act between any two of them |
| `EvdevSource` (`linux.rs`) | `pending`, `sequence` | `read_batches` | the kernel's bounded event buffer, through the `evdev` crate |
| Tester: live capture (`bin/gamepad-tester.rs`) | capture thread, discovery thread, two bounded channels, stop flag, repaint requests | start, iterate, drain, stop | `CaptureSession` on its thread; `TesterState` on the GUI thread |
| `TesterState` (`tester.rs`) | sources, frames, log, selection, timing, all bounded | `apply`, `apply_hid_fixture`, selection and queries | receives the session's events |
| HID (`hid.rs`) | none (pure) | descriptor to layouts, report framing, endpoint pairing | fixtures, recordings |
| Profiles (`profile.rs`) | none (pure) | candidates in order, the most specific match | device descriptors |
| Recording and replay (`replay.rs`) | recording index space; a replay plan's sources are used once | sanitize, serialize, `enumerate`, `open`, `read_batches` | is a second provider for `CaptureSession` |
| `capture-lab` (`bin/capture-lab.rs`) | none | enumerate, record, write | session and recording |
| Identity (`identity.rs`) | none (pure) | source id, physical id and stability of a device | used as the key everywhere |

What is hard about it:

- **The host moves under every call.** The session is driven by one caller
  through `&mut self`, but nodes come and go, and other processes grab them,
  between enumerate, open, grab and read.
- **Partial failure.** One node that cannot be described, opened, grabbed or read
  must cost no other node anything, and must be retried.
- **Loss.** The kernel overruns its buffer and says so with `SYN_DROPPED`,
  anywhere in what one read returns.
- **Two threads and a bounded queue.** The tester's capture thread never blocks:
  it omits events, counts them, reports the count, and throttles its repaint
  requests while the GUI thread drains with a limit of its own.
- **Stale views.** Snapshots, ids, selections and window contents outlive what
  they describe.

What makes each component correct:

- *Session and provider*: per source the events alternate Connected and
  Disconnected with input only in between; the reported access is the kernel's
  truth; Exclusive mode never reads an ungrabbed device; every device of a
  snapshot becomes active or its failure is reported; no source starves another;
  a node that stays is captured, one that goes is released.
- *Frame assembly*: a batch is one frame; frames come in order; where one is
  missing the caller was told.
- *Tester pipeline*: omissions are counted exactly and reported; order is kept; what
  a repaint finds queued gets shown; stopping ends the capture thread.
- *TesterState*: agrees with the session's events; bounded; no view of something gone;
  nothing of a replaced capture in the list of the next.
- *HID*: offsets, counts and globals of every field are those of the item
  stream; ambiguous endpoints stay ambiguous.
- *Profiles*: the candidate chosen is the most specific that matches.
- *Replay*: obeys the same session contract as the Linux provider; a source is
  replayed once.
- *Identity*: distinct nodes never share a source id.

## Modules

| Module | Models | Builds on |
|---|---|---|
| `CaptureSession` | `session.rs:42-172`, `linux.rs:29-80` and the outcome of reads | |
| `SourceLifecycle` | what the session promises a consumer (abstract) | |
| `MCCaptureSession` | instances of `CaptureSession` for TLC | `CaptureSession` |
| `CaptureSession_proofs` | theorems and proofs | `CaptureSession` |
| `EvdevSource` | `linux.rs:83-164` and the kernel's buffer | |
| `EvdevSource_proofs` | theorems and proofs | `EvdevSource` |
| `TesterPipeline` | one live capture: `gamepad-tester.rs:648-743`, `88-102`, `494-522` | |
| `TesterPipeline_proofs` | theorems and proofs | `TesterPipeline`, `Prefixes_proofs` |
| `TesterReducer` | what one event makes of list, selection, values, history (`tester.rs`) | |
| `TesterState` | the window's state under any events and user choices | `TesterReducer` |
| `TesterViews` | the window's projections and latency summaries (`tester.rs:18-130`, `150-204`, `324-430`) | `TesterState` |
| `MCTesterState` | instances of `TesterState` and `TesterViews` for TLC | `TesterViews` |
| `TesterState_proofs` | theorems and proofs | `TesterViews`, `Prefixes_proofs` |
| `TesterApp` | captures that are started, stopped and replaced, with the window's list | `TesterReducer` |
| `TesterApp_proofs` | theorems and proofs | `TesterApp`, `Prefixes_proofs` |
| `HidItems` | bytes to items and their data (`hid.rs:131-247`) | |
| `HidLayouts` | the stateful pass over the items (`hid.rs:201-369`) | `HidItems` |
| `HidFixture` | framing of reports, pairing of endpoints (`hid.rs:371-590`) | `HidLayouts` |
| `MCHidFixture` | descriptors, reports and fixtures for TLC | `HidFixture` |
| `LinuxDescriptors` | how a node is described and named (`linux.rs:29-44`, `166-323`, `identity.rs`) | |
| `Replay` | the replay provider under a session (`replay.rs:280-370`) | `LinuxDescriptors` |
| `CaptureLab` | the recorder and its sanitized bundle (`capture-lab.rs`, `replay.rs:14-278`) | `Replay` |
| `MCCaptureLab` | hosts, scripts and plans for TLC | `CaptureLab` |
| `CaptureLab_proofs` | theorems and proofs, of the ids and of replay too | `CaptureLab`, `Prefixes_proofs` |
| `ProfileSelection` | automatic detection and forced profiles (`profile.rs`) | |
| `MCProfileSelection` | a catalog for TLC | `ProfileSelection` |
| `Devices_proofs` | theorems and proofs of the HID modules and of profile detection | `HidFixture`, `ProfileSelection`, `Prefixes_proofs` |
| `Prefixes_proofs` | facts the proofs share: induction over numbers, recursion along a sequence, sums, least and largest numbers, sorting | |

### CaptureSession

A call is a program counter `pc` with the call's locals (`discovered`, `devices`,
`fd`, `unread`, `output`), split at every system call, so that host steps (`Plug`,
`Unplug`, `ForeignGrab`, `ForeignRelease`, `Press`) fall between them:

| Code | Actions |
|---|---|
| `poll`, `reconcile`, `poll_active` entered | `Poll`, `PollError`, `Reconcile`, `PollActive` |
| removals (`session.rs:97-110`) | `RemoveOne` |
| `contains_key` (`session.rs:113`) | `SkipKnown` |
| `Device::open`, `set_nonblocking` (`linux.rs:51-55`) | `OpenNode`, `OpenFail` |
| the access policy (`linux.rs:56-72`) | `GrantShared`, `GrantExclusive`, `GrantFallback`, `GrabFail` |
| end of the loop | `FinishReconcile` |
| one `read_batches` per active source | `ReadIdle`, `ReadInput`, `ReadLost`, `ReadFail`, `FinishRead` |
| drop and `new` / `into_provider` | `Restart` |

`active` is two functions, `opened` (the incarnation of the device the handle was
opened on, 0 when absent) and `access`. `gen` counts incarnations: a replugged
device is a new kernel object under the same source id. `Reconcile` takes *any*
snapshot, stale, partial or with duplicates, because the method is public and the
tester hands it snapshots made on another thread. `Poll` enumerates at one
moment; the code opens the nodes one by one, and what could change meanwhile is
what `Reconcile` covers. Payloads of events are not modelled here: a read is one
of nothing, input, loss or error. Dropping a session emits no events, so
`SourceLifecycle` has a step for it.

`SourceLifecycle` sees only `access` (as `link`) and the latest event: a source is
announced once with the access it was granted, heard of only while linked, and
leaves with a `Disconnected`. `ImplementsLifecycle` is the refinement.

### EvdevSource

The controller writes frames item by item into a bounded `ring`; a full ring is
replaced by `SYN_DROPPED` and the item that did not fit. `Copy` is read(2) taking
items while the kernel goes on writing. `Collect` is `fetch_events` collected into a
vector (`linux.rs:107`); `PushNative`, `EmptyReport`, `CloseFrame` and
`SyncLost` are the body of the loop; `Return` is `Ok(batches)`. The `evdev` crate is
outside the repository: `split` leaves open, for a whole behaviour, whether
it yields a frame only when complete. Properties that need whole frames say so.
`log` is what the caller was given, with `Lost` for each `SynchronizationLost`.

### TesterPipeline

One live capture, from start to stop: `Iterate` is the top of the thread's loop with
the omission report, `Send` one `try_send`, `Sleep` the throttled repaint request and
the sleep, `Exit` the two ways out. `BeginUpdate`, `Drain`, `EndDrain` and `Render` are
the GUI thread's update; `ServeRepaint` runs it because a repaint was asked for,
`UserInput` because the user touched the window. Time is abstracted to
`cooling`: the thread sleeps 8 ms of a 16 ms interval, so a repaint is due again
in the second iteration after a request, and may be due in the first.

### TesterReducer, TesterState and TesterApp

`TesterReducer` has the parts of `TesterState::apply` as operators, so that two modules
apply the same translation. `TesterState` is the public type with all its operations that
change what is shown: `Apply` (any event in any order), `SelectSource`, `Preview`
(`force_profile`, `clear_forced_profile`) and `ApplyHidFixture`. It carries a
history of logged operations, and its properties compare the incremental state with what
that history says: the list with its descriptions, the newest value of each code since the last
disconnection, the newest frames and log entries, and a selection that never dangles.

`TesterApp` has several captures, each with its thread (`Top`, `Iterate`, `Send`,
`Sleep`, and `Stopped` or `SendFails` as ways out), its session's links and its
one-snapshot discovery channel (`Discover`; when the channel is full the new
snapshot is dropped, which is no step). `StartCapture` does not wait for the thread it
replaces, as in the code, so two captures may hold and want the same grabs. A whole
`reconcile` and `poll_active` is one step there: `CaptureSession` splits them. A queue
belongs to one capture, since each start makes a new channel. Omission reports
and repaints are `TesterPipeline`'s and left out.

### TesterViews

`TesterViews` adds to `TesterState` what the window derives from it. `NativeInputView`
and `XboxDisplayView` are operators on the reducer's state; a control that no frame has
carried yet falls back on the description of its source (`Resting`). A description comes
with each `Connected` and replaces the one before, in the entry of the list; it is a
function from the device's keys and axes to where each rested. `Observe` is one latency
recorded in a bounded `RecentLatencies`, of which the code has five that share nothing,
and `Summary` its percentiles. `ViewsShowEvidence` compares the views with the history of events,
not with the reducer's list and values.

### HidItems, HidLayouts and HidFixture

A descriptor grows item by item while it is interpreted, so that every prefix of a
descriptor is a descriptor, and may be cut off inside an item. `HidItems` writes an item as
bytes and cuts bytes into items; `ItemsRecovered` says that the second undoes the first. `HidLayouts`
is `HidDescriptor::parse`: the global state with its stack, the usages, the collection depth and a
layout per report type and id. Its properties know nothing of that state:
`FieldsAsDeclared` finds for each field the globals in force by looking back over the items (the
last one set at this push depth or inherited), and `VerdictExact` says which
descriptors are rejected. The code parses all items before it interprets them; a parse error
therefore hides an error of the pass, and with either there are no layouts.
`HidFixture` frames reports against the layouts, and pairs a HID endpoint with evdev
endpoints. Bytes have `Base` values and `ByteBits` bits, so that a value of four bytes
still overflows a page, and a field still straddles bytes (`ByteAssumption` ties the two constants together).
A `Script` lists which items a descriptor may have at each place. `ScriptAssumption` says that
they are `Writable`: what the HID grammar can put into bytes, so no short item with the prefix of a long one.
`TailsAssumption` says that a cut-off descriptor ends in a nonempty beginning of an item that is not a whole one,
`ReportsAssumption` that reports are bytes, and `FixturesAssumption` that candidates are a sequence with indices that are numbers.

### LinuxDescriptors, Replay and CaptureLab

`LinuxDescriptors` has `describe`, `classify`, `controls` and the two ids as operators on what
evdev reads of a node. Kernel strings are sequences of bytes, and `Escape` writes each byte as `identity.rs` does:
as it is, or as `%` and two digits. White space is what `str::trim` removes, in UTF-8.
The ids, which the code joins from formatted parts, are sequences of bytes and of a symbol for each
fixed word and each number of fixed width. Reported names and control names are left out (nothing is decided from them).

`Replay` is `ReplayProvider` under a session. A scripted provider does not change
between two calls of a session, so a call is one step here and `CaptureSession` has its interior;
removed ids are handled in one fixed order, where the code follows its map's. Its
embedder calls `poll` and `poll_active`; a public `reconcile` is `CaptureSession`'s.

`CaptureLab` is the recorder: an enumeration for the manifest, a session that
enumerates again, `poll-count` polls and the bundle. Its provider is the Linux one. What the lab sees
of that is a sequence of answers, so a scripted provider stands for it, its
snapshots made by `Enumerated` from hosts of nodes. Frames of a source that was not in the first
enumeration have no index and are left out of the bundle, as in the code.
Its constant `Nodes` is the nodes that hosts may have; `ScriptsAssumption` says
that vectors are sequences and that a snapshot lists described nodes, each path once, since
`evdev::enumerate` walks a directory. `BatchesAssumption` says that a scripted batch carries the id of the
source it is scripted for, as those of the kernel do (`linux.rs:141`); without it a batch would
be another source's event.

### ProfileSelection

`Offer` and `PassOver` are the loop of `detect`, one profile per step, `Select` the sort and the
fallback, `ForceProfile` and `Clear` what a user does with the result. A profile's rules are records of options.

## Runs

| Run | Question | Result |
|---|---|---|
| `session_safety` | do grabs, reported accesses, the reconciliation's accounting and the consumer's view stay right under any calls and any host? | holds |
| `session_liveness` | does the poll loop deliver, capture and release, whatever fails? | holds |
| `session_replug` | is a replugged device captured again? | **no** (finding 1) |
| `evdev_frames` | do overruns at any point of a read mix, hide or duplicate frames? | holds |
| `tester_queue` | are omissions exact and reported, order kept, backlog drained, stop effective? | holds |
| `tester_wakeup` | is what is queued shown? | **no** (finding 2) |
| `tester_state` | are the incremental state, the views and the summaries what the history of events says? | holds |
| `tester_restart` | do overlapping captures keep the list and the grabs right? | holds |
| `tester_phantom` | does a device that is gone leave the list? | **no** (finding 3) |
| `hid_fixture` | are layouts, framing and pairing what the item stream and the evidence say? | holds |
| `recording` | is every plan replayed once and in order, are frames recorded under their own source, do ids follow the evidence? | holds |
| `profile_specific` | is the most specific profile selected? | **no** (finding 4) |

Bounds, and why they suffice:

- *Session*: two sources, so that one can fail while the other is due; two
  incarnations of each node (the smallest number with a replug); one host fault at a
  time anywhere; snapshots of up to two entries, hence partial, complete and duplicate
  ones. Sources are interchangeable, so the safety run uses their symmetry; the
  liveness runs do not. The liveness run uses Exclusive mode, where opening fails in the
  most ways, and `session_replug` a single source, since it needs no second.
- *Frames*: frames of two events in a ring of five items, so that an overrun
  can fall inside a frame, between frames, and while the reader is copying; six
  frames allow two overruns; sequence numbers wrap at three.
- *Pipeline*: a queue of four, iterations of up to two events and eight events: the
  queue overflows, is drained while it is filled, and overflows again. In the code queue
  and drain limit are both 512, here both 4. `OmissionReported` depends on an iteration
  being unable to fill the queue by itself (`MaxBatch + 1 < Capacity`): with
  512 slots and the 32 items the `evdev` crate fetches per source and iteration this
  holds for any realistic number of controllers. With `MaxBatch + 1 = Capacity` TLC finds
  the queue full for ever: the report's failed send requests no repaint.

- *State*: two sources, two codes, frames that set a code twice or two codes, and
  two retained frames and log entries under histories of four operations: both
  limits evict twice, and a source can connect, be previewed, go and come back. A
  device says at each connection either that it has the Xbox shape or that it lacks one axis
  of it, with another rest. Five of six
  latencies of three values are kept: with five, the percentiles are three different
  samples, and the sixth evicts one; a behaviour records latencies or operations, since
  neither reads the other.
- *HID*: bytes of two bits and collections to depth two; descriptors of up to
  seven items, each from a script that leads to what can go wrong: sizes of one and
  four bytes, report id 0, Push and Pop in any order, collections opened and closed too
  often, sizes whose product or only whose sum passes the largest number, reserved and long items, and the beginnings of items at the end. Every accepted
  descriptor meets reports that are empty, too short, exact and too long. Endpoints are paired
  for fixtures of up to three candidates; fixtures without candidates are the ones
  whose descriptor is interpreted, as pairing does not read it.
- *Recording*: three scans, of hosts with twins, a device that moves, strings that are
  equal only when escaped carelessly (an escape in the string itself, a digit that is not padded), nodes that are no controllers and errors; up to two plans per
  source with errors among their reads; five calls; poll counts 0 (refused), 1 and 3.
- *Profiles*: one profile for everything, and rules of one, two and three clues, over all eight devices.
- *Restarts*: two captures, the smallest number with an overlap, each Exclusive or
  PreferExclusive; one node that comes or goes up to three times; a queue of one, so
  that lifecycle events are omitted as well as delivered. Sources
  interact only through the queue, whose order and overflow `tester_queue` checks.

Fairness: a call of the session is straight-line code of the thread that made it, and
the loop of `README.md:60-72` polls again, so `LoopSpec` has weak fairness of
`CallStep \/ Poll` and none of the host: nobody has to plug, release or press anything.
The Linux provider's `enumerate` never returns an error, so `PollError` is not in the loop.
In `EvdevSource` the loop keeps reading and a controller finishes the frame it
began. In `TesterPipeline` both threads run and a requested repaint is served
(egui's promise); `UserInput` has no fairness. `TesterApp` has weak fairness of its
threads and of `Drain`: finding 3 stands although the window is watched.

`evdev_frames` does not check for deadlock, because its supply of frames is finite,
nor do the runs of `TesterApp`, where all captures may be stopped, nor `hid_fixture` and
`recording`, whose descriptors, programs and calls end. Everywhere else TLC does.

## Findings

1. **A replug between two scans is never noticed** (`session_replug`).
   `reconcile` skips every id already in `active` (`session.rs:113`) and a read error
   never removes a source. If a device goes and comes back under its id between two
   snapshots (the tester scans every 500 ms), the dead handle stays for good:
   `Read` errors at every poll, the new device not opened, and
   `connected_devices()` listing it. `docs/HARDWARE_VALIDATION.md:84-85` asks that
   "no stale identity persists".
2. **The last event before a pause may not be shown** (`tester_wakeup`).
   A repaint is requested only by an iteration that sent something and finds the
   16 ms interval over. An event sent earlier than that, with nothing after it (a quick
   release), stays queued until another event arrives or the user touches the window.

3. **Phantom sources** (`tester_phantom`). The window's state is kept across captures,
   and a new session never disconnects what it never had. A device that goes between
   two captures stays listed for good. `tester.rs:142` calls an entry "the current state
   of one connected source".
4. **The selected profile need not be the most specific** (`profile_specific`).
   `profile.rs:186` announces the "most specific passive profile". Rules of two and of three
   clues both make a candidate `Strong` (`profile.rs:207`), and the candidates are then ordered
   by their ids, so a profile for a vendor and product can precede one for the same product
   and transport.

Observed, and not a divergence: `fetch_events` of the `evdev` crate is outside the
repository. `EvdevSource` takes it to yield `SYN_DROPPED` like any other event, because
`linux.rs:119` tests for it; were the crate to resynchronise by itself, `SyncLost`
would never run. A PreferExclusive capture started while the replaced one still
holds the grab falls back to shared for good; the policy's documentation allows it.

## Proofs

All theorems are proved for every value of the constants, under the assumptions the modules
name (`ModesAssumption`, `BoundsAssumption`, `FrameAssumption`, `PipelineAssumption`,
`AppAssumption` ...), which say what the code's constants are: numbers, positive
sizes, the three modes. Sets of ids may be infinite. `DescriptionAssumption` adds that a device describes
codes that exist, its keys at 0; `NodesAssumption` that paths and kernel strings are sequences of bytes;
`ScriptsAssumption` and `BatchesAssumption` are explained with `CaptureLab` above, those of the HID modules with them.

| Theorem | Module | States |
|---|---|---|
| `TypeCorrect`, `GrabsMatch`, `FailsClosed`, `AccountsForAll` | `CaptureSession_proofs` | the four state properties of `session_safety` |
| `Implements` | `CaptureSession_proofs` | `Spec => Lifecycle!Spec` |
| `FrameTypes`, `FramesUnmixed`, `FramesWhole`, `FrameGapsReported` | `EvdevSource_proofs` | the four safety properties of `evdev_frames` |
| `PipelineTypes`, `WindowInOrder`, `OmissionsCounted` | `TesterPipeline_proofs` | `TypeOK`, `ShownInOrder` and `OmissionsExact` of `tester_queue` |
| `SelectionFound`, `ListFromHistory`, `ValuesAreLatest`, `NewestKeptInOrder` | `TesterState_proofs` | `SelectionListed`, `SourcesFromHistory`, `ValuesFromHistory` and `HistoryRetained` of `tester_state` |
| `ViewsAreEvidence`, `SummariesAreOfNewest` | `TesterState_proofs` | `ViewsShowEvidence` and `SummaryOfNewest` of `tester_state` |
| `GrabsBelong`, `ListIsOfSession` | `TesterApp_proofs` | `GrabsOfCaptures` and `ListFollowsSession` of `tester_restart` |
| `EscapeInjective` | `CaptureLab_proofs` | two strings with one escaping are one string |
| `IdsFollowEvidence`, `FramesUnderOwnIndex`, `PlansPlayedExactly` | `CaptureLab_proofs` | `IdentityFollowsEvidence`, `FramesOfTheirSource` and `ReplayedExactly` of `recording` |
| `ItemsAreRecovered`, `FieldsAreAsDeclared`, `VerdictIsExact` | `Devices_proofs` | `ItemsRecovered`, `FieldsAsDeclared` and `VerdictExact` of `hid_fixture` |
| `FramingIsExact`, `PairingIsByEvidence` | `Devices_proofs` | `FramingExact` and `PairingByEvidence` of `hid_fixture` |
| `SelectionContract` | `Devices_proofs` | the documented contract of a selection |

**The session.** One inductive invariant, `SessionInv`, of four parts:
`TypeOK` (with which locals are in use in which phase); `Grants`, that an access
in the table is one the mode can grant; `GrabMatchesAccess`; and `Accounting`,
that within a reconciliation every discovered device is active, still to come, or
reported as failed. `ExclusiveFailsClosed` is not inductive alone: it follows from
`Grants` (in Exclusive mode the table holds only "Exclusive") and
`GrabMatchesAccess`. `ReconcileAccounts` speaks of the end of the loop only, and
`Accounting` is what the loop preserves. The refinement is proved step by
step: under `SessionInv` every action maps to a step of `Lifecycle` or a stutter.

**The frames.** None of the four properties is inductive: they speak of what the caller
has, and a step that violates them starts from buffers that were already wrong. `FrameInv` puts
`pending`, `events`, `fetched` and `ring` behind each other as one `Line` of items. `Copy`, `Collect` and
`PushNative` leave the line as it is, a write appends to it or cuts it at a marker, and the
loop takes items off its front. The invariant says that neighbours in the line follow each other
(`Follows`) unless a marker is between them, that no item is of an earlier frame than one before it
(`Later`), and that the line goes on with the frame after the last returned one unless a loss was just reported
(`Continues`). Then a report closes exactly the events of its own frame (lemma `Closed`), and
what comes behind a report is the next frame or a marker (lemma `AfterReport`); everything else follows from these two. For
`WholeFrames`, `SplitInv` adds that with whole frames from the crate the loop's items end in a report,
so that an early return leaves the line at the start of a frame.

**The pipeline.** `ShownInOrder` needs that what is still to be sent is newer than what was
sent (`StreamBelow`), which needs that the batch holds exactly the latest events (`BatchShape`).

`OmissionsExact` adds `CountInv`: the reports in the channel and the thread's count
together are as many as the events that are handled and not in the channel. A failed `try_send` makes one
more of these and counts it; a report moves the count into the channel and brings no event.

**Recursion.** The library's induction theorems take an operator, which the provers cannot
instantiate. `Prefixes_proofs` therefore derives, from the well-foundedness of the naturals (`WFMin`), induction
over a *set* of numbers, and from it that a function computed along `1..n` by steps that keep a type
exists and is unique; these are lemmas and not results. Folds, counts over a queue, `Escape`, `Chosen` and the loop of
`reconcile` are recursive functions over `0..n`, so the proofs reason about them prefix by prefix.

**The tester's state.** `SelectionListed` needs the list's type: no preview makes or
unmakes an entry. The `...FromHistory` properties compare an incremental state with the whole
history. Their proofs rest on what one more logged event does to each thing read off the history:
`SinceGone` empties or grows, `NewestOf` becomes the event or stays, `Newest` takes it in and drops its
oldest. A frame that carries a code twice needs that the loop over its changes leaves the last
value. The views follow from the values, the list, whose entry of a source has its
latest description (`DescriptionKnown`), and the retained frames. For the
summary: a sorting exists and has, at place k, at most k - 1 smaller and n - k larger samples
(`SortedRanks`), and `Place` is the one with the percentile's share before it (`PlaceOfShare`).

**Captures.** `GrabsOfCaptures` needs that a dead handle is still a handle, and that
discovery brings sets of nodes. `ListFollowsSession` is about the list after the queue and the batch
have been applied. It is inductive with what `Turns` says of the threads: a running capture was not told to stop,
those to come have no thread yet, and a batch is sent before the next iteration. Applying a queue to
the list is a recursion along the queue, and the list it gives for one source depends on the events of that
source only (`AfterLocal`). A reconciliation has at most one lifecycle event per source, so the order in which
the session's map gives them does not matter (`AfterOrdered`).

**Ids.** `EscapeInjective` is proved with prefixes: an escaped string is laid out as one token per
byte, tokens have a length that their first byte tells, because the escape marks itself and always writes two digits, and so two
equal escapings have equal tokens from the start. An id is a header of fixed length, the discriminator and a rest; the escaped part holds no
`:`, so its end is found, and "uniq", "phys" and "unknown" cannot be taken for each other. `IdsInjective` puts
them together, and `LabInvariant` says that every device the recorder or its session has seen is described from a node.

**Bundles.** `FramesUnderOwnIndex` needs that `devices` and `log` no longer change once a bundle is written, that
a snapshot's ids differ (its paths do, and ids are injective), and that a choice of positions keeps
rank and order (`ChosenRight`).

**Replay.** `ReplayedExactly` speaks of the whole log; what is inductive (`AllPlayed`) adds, for every id, what the
next call starts from: with c connections so far, the plans that are left are those after the first c
(`After`), and a source that was not disconnected since its connection is open, connected last, and has left of its
plan exactly the reads after as many as it had turns (`Current`). A poll that answers first
reconciles. `Fate` says what the loop over the snapshot can make of one source: nothing, a disconnection, or a connection with its
next plan, and that a source that failed to open has none. It then reads, and as each open source has one part in
what `ReadAll` joins (`Pass`, `LaidCovers`), what the call says of the source is that part (`OwnOfReading`). Only
then is the next read of the plan the one that is reported (`ReadNext`, `CallPlays`).

**Profiles.** The invariant follows the loop of `detect`: the candidates are those of the profiles
considered so far, and the sort keeps their set. That the selected one is the most
specific is not provable, since it is false (finding 4).

**HID descriptors.** The properties know nothing of the pass: they look back over the items. `PassInv` says what
the pass has kept, for any number n of items: `global` is what is in force behind item n, the stack holds what
was in force at each Push that is still open, `usages` are those since the last Main item, `depth` is the nesting,
the layouts are those of the declared fields (`Stands(n)`), and the items so far are legal; once the status is an
error of an item, they are not, and after the end they are closed or not as the status says. The stack is why the properties are not
inductive: a Pop brings back what was in force at its Push, and to know it the invariant must say
what is in force at *every* open Push. Looking back, `InForce` skips whatever lies between a Push and its
Pop; the proof reads both off the height of the items (`Height`, pushes less pops): a place is undone when two
brackets of one height enclose it (`UndoneMeans`), and behind a Pop exactly what was in force at its Push is
(`AfterPop`). One lemma per handler (`SetGlobalStands`, ...) then takes `PassInv` from n items to n + 1.
`VerdictExact` also needs the other direction, that a handler fails only on an illegal item (`LegalNow`).

**HID bytes.** `BytesInv` says that the bytes spell the items, each encoding at its offset, and whether something
is cut off behind them. `Decoded` takes an encoding apart again: the prefix by arithmetic (`PrefixParts`), the
length and the data of short and long items. `SpelledIsParsed` follows the loop of `parse_items` over any
bytes that spell items and then break off.

**HID reports and endpoints.** `FrameInv` adds that the last result is that of its report and of layouts that are
final, since an accepted descriptor takes no further item. A layout's bits are the sum of its
fields (`BitsAddUp`), so framing by them is framing by the declarations. Pairing is a pure operator, and `PairInv`
says that it was applied. Its order is chosen by `CHOOSE`: that a sorting exists (`SortingExists`) and that the sorted indices
are the same for every order of the candidates (`BestShuffled`) is most of its proof.

The proof of the pass found a flaw of the model: `Finish` was a CASE with overlapping arms, of which TLC
takes the first and TLA+ any that is true. It is an IF now, in the order of the code's checks.

Only model-checked: the eight liveness properties that hold, since liveness under fairness is out of the prover's reach.

## Not modelled

- *Rendering* (`gamepad-tester.rs`): `egui` layout without state of its own.
- *Reading and writing JSON*, of recordings, bundles and fixtures: serde's; the in-memory values are modelled.
- *Names and wording*: reported device names, control names, error messages, `Display`.
- *Examples, fuzz targets and integration tests*: callers of the library, read as evidence of its use.
- *The `evdev` crate and the kernel*, beyond what the code in `src/` shows of their use; their definitions are marked external.

## Plan

Done, in this order: `CaptureSession` and `SourceLifecycle`; `EvdevSource` and `TesterPipeline`;
`TesterReducer`, `TesterState`, `TesterApp`; the HID modules; `ProfileSelection`; `LinuxDescriptors`, `Replay` and
`CaptureLab`; `TesterViews`; the theorems above.

Left: that the session with a replay provider refines
`SourceLifecycle` (its parts are checked by `recording` and proved); a `CaptureLab` over the split steps
of `CaptureSession`, so that the host also moves within a poll.
