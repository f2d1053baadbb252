---------------------------- MODULE EvdevSource ----------------------------
(***************************************************************************)
(* How an EvdevSource (src/linux.rs:82-164) turns the kernel's stream of   *)
(* input events into numbered batches, one per frame, and what it makes of *)
(* an overrun of the kernel's event buffer.                                *)
(*                                                                         *)
(* A frame is FrameLen native events and a SYN_REPORT.  The kernel writes  *)
(* while read_batches reads; the reader can be late for any number of      *)
(* frames, across any number of read calls.                                *)
(***************************************************************************)
EXTENDS Integers, Sequences

CONSTANTS
  FrameLen,    \* native events per frame
  RingSize,    \* capacity of the kernel's buffer for this handle, in events
  SeqModulus,  \* batches are numbered modulo this (2^64 in the code)
  MaxFrames    \* bound: frames the controller sends

ASSUME FrameAssumption == /\ FrameLen \in Nat \ {0}
                          /\ RingSize \in Nat /\ RingSize > 2
                          /\ SeqModulus \in Nat \ {0}
                          /\ MaxFrames \in Nat

VARIABLES
  \* The kernel and the evdev crate.
  frame,     \* the frame being written, and how many
  part,      \*   of its events have been
  ring,      \* the kernel's buffer: unread items, oldest first
  fetched,   \* the crate's buffer: items read and not yielded
  split,     \* the crate yields whatever a read returned, frame ends or not
  \* EvdevSource and the locals of read_batches.
  pending,   \* native events of the frame that has not been reported
  sequence,  \* number of the latest batch
  pc,        \* "idle", "fetch" (inside fetch_events) or "scan"
  events,    \* yielded items the loop has not reached
  batches,   \* batches this call completed
  \* What the caller has seen.
  log        \* the batches returned, and a Lost for every SynchronizationLost

kernel == <<frame, part, ring>>
vars == <<frame, part, ring, fetched, split, pending, sequence, pc, events,
          batches, log>>

Native(f, n) == [kind |-> "native",  frame |-> f, index |-> n]
Report(f)    == [kind |-> "report",  frame |-> f, index |-> 0]
Dropped      == [kind |-> "dropped", frame |-> 0, index |-> 0]
Lost         == [sequence |-> 0, events |-> <<>>]

UpToLastReport(q) ==
  LET reports == {i \in DOMAIN q : q[i].kind = "report"}
  IN IF reports = {} THEN 0
     ELSE CHOOSE i \in reports : \A j \in reports : j <= i

-----------------------------------------------------------------------------
Init ==
  /\ frame = 1 /\ part = 0
  /\ ring = <<>>
  /\ fetched = <<>>
  /\ split \in BOOLEAN
  /\ pending = <<>>
  /\ sequence = 0
  /\ pc = "idle"
  /\ events = <<>>
  /\ batches = <<>>
  /\ log = <<>>

\* A full buffer is replaced by SYN_DROPPED and the item that did not fit.
Queue(item) ==
  ring' = IF Len(ring) = RingSize THEN <<Dropped, item>> ELSE Append(ring, item)

Write ==
  /\ frame <= MaxFrames
  /\ IF part < FrameLen
     THEN Queue(Native(frame, part + 1)) /\ part' = part + 1 /\ UNCHANGED frame
     ELSE Queue(Report(frame)) /\ part' = 0 /\ frame' = frame + 1
  /\ UNCHANGED <<fetched, split, pending, sequence, pc, events, batches, log>>

-----------------------------------------------------------------------------
(* read_batches                                                            *)

\* Items up to the newest SYN_REPORT are readable; otherwise the call returns.
Begin ==
  /\ pc = "idle"
  /\ UpToLastReport(ring) > 0
  /\ pc' = "fetch"
  /\ UNCHANGED <<kernel, fetched, split, pending, sequence, events, batches, log>>

\* read(2) copies item by item, and the kernel may overrun between two of them.
Copy ==
  /\ pc = "fetch" /\ UpToLastReport(ring) > 0
  /\ fetched' = Append(fetched, Head(ring))
  /\ ring' = Tail(ring)
  /\ UNCHANGED <<frame, part, split, pending, sequence, pc, events, batches, log>>

\* The read ends, at the latest when nothing is readable.  What the crate yields
\* (with ~split only whole frames) is collected before the loop starts.
Collect ==
  /\ pc = "fetch"
  /\ LET n == IF split THEN Len(fetched) ELSE UpToLastReport(fetched)
     IN /\ UpToLastReport(ring) = 0 \/ n > 0
        /\ events' = SubSeq(fetched, 1, n)
        /\ fetched' = SubSeq(fetched, n + 1, Len(fetched))
  /\ pc' = "scan"
  /\ UNCHANGED <<kernel, split, pending, sequence, batches, log>>

At(kind) == pc = "scan" /\ events # <<>> /\ Head(events).kind = kind

PushNative ==
  /\ At("native")
  /\ pending' = Append(pending, Head(events))
  /\ events' = Tail(events)
  /\ UNCHANGED <<kernel, fetched, split, sequence, pc, batches, log>>

EmptyReport ==
  /\ At("report") /\ pending = <<>>
  /\ events' = Tail(events)
  /\ UNCHANGED <<kernel, fetched, split, pending, sequence, pc, batches, log>>

SameSequence == sequence
CheckedSequence == sequence + 1
NextSequence == (sequence + 1) % SeqModulus

CloseFrame ==
  /\ At("report") /\ pending # <<>>
  /\ sequence' = NextSequence
  /\ batches' = Append(batches, [sequence |-> NextSequence, events |-> pending])
  /\ pending' = <<>>
  /\ events' = Tail(events)
  /\ UNCHANGED <<kernel, fetched, split, pc, log>>

\* pending.clear(), and the error returns without the rest of the read: neither
\* the items after SYN_DROPPED nor the batches completed before it.
KeepsPending ==
  /\ pending' = pending
  /\ events' = <<>>
  /\ batches' = <<>>
  /\ log' = Append(log, Lost)
  /\ pc' = "idle"

SkipsMarker ==
  /\ pending' = <<>>
  /\ events' = Tail(events)
  /\ log' = Append(log, Lost)
  /\ UNCHANGED <<batches, pc>>

LosesSilently ==
  /\ pending' = <<>>
  /\ events' = <<>>
  /\ batches' = <<>>
  /\ pc' = "idle"
  /\ UNCHANGED log

FailRead ==
  /\ pending' = <<>>
  /\ events' = <<>>
  /\ batches' = <<>>
  /\ log' = Append(log, Lost)
  /\ pc' = "idle"

SyncLost ==
  /\ At("dropped")
  /\ FailRead
  /\ UNCHANGED <<kernel, fetched, split, sequence>>

Return ==
  /\ pc = "scan" /\ events = <<>>
  /\ log' = log \o batches
  /\ batches' = <<>>
  /\ pc' = "idle"
  /\ UNCHANGED <<kernel, fetched, split, pending, sequence, events>>

-----------------------------------------------------------------------------
ReadStep == \/ Begin \/ Copy \/ Collect
            \/ PushNative \/ EmptyReport \/ CloseFrame \/ SyncLost \/ Return

Next == Write \/ ReadStep

\* The session's loop reads every active source again and again, and a
\* controller finishes the frame it began.
Spec == Init /\ [][Next]_vars /\ WF_vars(ReadStep) /\ WF_vars(Write)

-----------------------------------------------------------------------------
(* Properties.                                                             *)

Items == {Native(f, n) : f \in 1..MaxFrames, n \in 1..FrameLen}
         \cup {Report(f) : f \in 1..MaxFrames} \cup {Dropped}
Natives == {Native(f, n) : f \in 1..MaxFrames, n \in 1..FrameLen}
Batches == [sequence : 0..SeqModulus - 1, events : Seq(Natives)]

\* Every variable has its type, and locals of a call do not outlive it.
TypeOK ==
  /\ frame \in 1..MaxFrames + 1 /\ part \in 0..FrameLen
  /\ ring \in Seq(Items) /\ Len(ring) <= RingSize
  /\ fetched \in Seq(Items) /\ events \in Seq(Items)
  /\ split \in BOOLEAN
  /\ pending \in Seq(Natives)
  /\ sequence \in 0..SeqModulus - 1
  /\ pc \in {"idle", "fetch", "scan"}
  /\ batches \in Seq(Batches) /\ log \in Seq(Batches)
  /\ pc # "scan" => events = <<>> /\ batches = <<>>

FrameOf(b) == b.events[1].frame
Returned == {i \in DOMAIN log : log[i] # Lost}

\* A batch holds events of one frame, in order, without a gap and up to the
\* frame's last event, however the reads and overruns fell.  (Its first events
\* may be missing when the crate splits a frame behind SYN_DROPPED.)
NoMixedFrames ==
  \A i \in Returned : \A n \in DOMAIN log[i].events :
    log[i].events[n] = Native(FrameOf(log[i]), FrameLen - Len(log[i].events) + n)

\* README.md:16, "incomplete frames are discarded": when the crate yields whole
\* frames only, so does the source.
WholeFrames ==
  ~split => \A i \in Returned : Len(log[i].events) = FrameLen

\* README.md:16, "explicit SYN_DROPPED loss reporting": frames are returned in
\* order, and where one is missing the caller was told of a loss between its
\* neighbours.  Without a loss the sequence numbers count up by one.
GapsReported ==
  \A i \in Returned :
    /\ \A j \in Returned : j < i => FrameOf(log[j]) < FrameOf(log[i])
    /\ i = 1 => FrameOf(log[i]) = 1
    /\ i - 1 \in Returned =>
         /\ FrameOf(log[i]) = FrameOf(log[i - 1]) + 1
         /\ log[i].sequence = (log[i - 1].sequence + 1) % SeqModulus

\* Frame f was returned, or a loss stands in the log where f is missing.
Settled(f) ==
  \E i \in DOMAIN log :
    \/ log[i] # Lost /\ FrameOf(log[i]) = f
    \/ /\ log[i] = Lost
       /\ \A j \in Returned : j < i <=> FrameOf(log[j]) < f

\* Every frame the controller completed is returned to the caller in the end,
\* or the caller is told that frames were lost at its place.
FramesSettled == \A f \in 1..MaxFrames : frame > f ~> Settled(f)
=============================================================================
