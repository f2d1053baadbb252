----------------------------- MODULE TesterApp -----------------------------
(***************************************************************************)
(* Starting, stopping and restarting live captures in gamepad-tester       *)
(* (src/bin/gamepad-tester.rs:648-810).  start_live_capture does not wait  *)
(* for the capture it replaces: the old thread goes on until it sees its   *)
(* flag or its closed queue, and holds its grabs until then.  Each capture *)
(* has a discovery thread of its own and a channel of one snapshot.        *)
(*                                                                         *)
(* The session's calls are whole steps here (CaptureSession splits them),  *)
(* and so is the application of one queued event (TesterPipeline has the   *)
(* update it is part of).                                                  *)
(***************************************************************************)
EXTENDS TesterReducer

CONSTANTS
  SourceIds,  \* the event nodes, in the order of their ids
  Modes,      \* the access modes the user may choose
  MaxStarts,  \* bound: captures started
  MaxChanges, \* bound: how often nodes come or go
  Capacity    \* MAX_PENDING_CAPTURE_EVENTS

ASSUME AppAssumption ==
  /\ SourceIds \subseteq Nat \ {NoSource} /\ IsFiniteSet(SourceIds)
  /\ Modes \subseteq {"Shared", "Exclusive", "PreferExclusive"}
  /\ MaxStarts \in Nat /\ MaxChanges \in Nat /\ Capacity \in Nat \ {0}

Captures == 1..MaxStarts
Nobody == 0

VARIABLES
  \* The host.
  up,        \* up[s]: the node of s exists
  changes,   \* how often nodes have come or gone
  holder,    \* holder[s]: the capture that holds the grab of s, or Nobody
  \* The GUI thread.
  current,   \* the latest capture started, or 0
  running,   \* `receiver` and `stop` are Some
  queue,     \* the current capture's channel
  sources,   \* TesterState.sources
  \* Every capture that was started.
  mode,      \* mode[k]: its access mode
  stop,      \* stop[k]: its flag
  pc,        \* pc[k]: "none", "top", "body", "send" or "done"
  link,      \* link[k][s]: the access its session has to s, or "Closed"
  dead,      \* dead[k]: its handles whose device has gone
  slot,      \* slot[k]: its discovery channel, at most one snapshot
  batch,     \* batch[k]: the events of this iteration still to be sent
  \* What the properties need to know about the current capture.
  heard,     \* the sources it has announced
  lost       \* the sources with a lifecycle event that found the queue full

host == <<up, changes, holder>>
threads == <<pc, link, dead, slot, batch>>
vars == <<up, changes, holder, current, running, queue, sources, mode, stop,
          pc, link, dead, slot, batch, heard, lost>>

-----------------------------------------------------------------------------
Init ==
  /\ up \in [SourceIds -> BOOLEAN]
  /\ changes = 0
  /\ holder = [s \in SourceIds |-> Nobody]
  /\ current = 0
  /\ running = FALSE
  /\ queue = <<>>
  /\ sources = [s \in SourceIds |-> Absent]
  /\ mode = [k \in Captures |-> "none"]
  /\ stop = [k \in Captures |-> FALSE]
  /\ pc = [k \in Captures |-> "none"]
  /\ link = [k \in Captures |-> [s \in SourceIds |-> "Closed"]]
  /\ dead = [k \in Captures |-> {}]
  /\ slot = [k \in Captures |-> {}]
  /\ batch = [k \in Captures |-> <<>>]
  /\ heard = {} /\ lost = {}

Linked(k) == {s \in SourceIds : link[k][s] # "Closed"}

Plug(s) ==
  /\ ~up[s] /\ changes < MaxChanges
  /\ changes' = changes + 1
  /\ up' = [up EXCEPT ![s] = TRUE]
  /\ UNCHANGED <<holder, current, running, queue, sources, mode, stop, threads,
                 heard, lost>>

Unplug(s) ==
  /\ up[s] /\ changes < MaxChanges
  /\ changes' = changes + 1
  /\ up' = [up EXCEPT ![s] = FALSE]
  /\ holder' = [holder EXCEPT ![s] = Nobody]
  /\ dead' = [k \in Captures |-> dead[k] \cup ({s} \cap Linked(k))]
  /\ UNCHANGED <<current, running, queue, sources, mode, stop, pc, link, slot,
                 batch, heard, lost>>

-----------------------------------------------------------------------------
(* The GUI thread.                                                         *)

\* stop_capture: the flag is set, and the receiver dropped.
StopFlags == IF running THEN [stop EXCEPT ![current] = TRUE] ELSE stop

StopCapture ==
  /\ running
  /\ stop' = StopFlags
  /\ running' = FALSE
  /\ queue' = <<>>
  /\ heard' = {} /\ lost' = {}
  /\ UNCHANGED <<host, current, sources, mode, threads>>

\* start_live_capture stops the capture that runs and spawns the next one.
StartCapture ==
  /\ current < MaxStarts
  /\ current' = current + 1
  /\ stop' = StopFlags
  /\ running' = TRUE
  /\ queue' = <<>>
  /\ \E m \in Modes : mode' = [mode EXCEPT ![current + 1] = m]
  /\ pc' = [pc EXCEPT ![current + 1] = "top"]
  /\ heard' = {} /\ lost' = {}
  /\ UNCHANGED <<host, sources, link, dead, slot, batch>>

\* One event of drain_events.
Drain ==
  /\ running /\ queue # <<>>
  /\ sources' = SourcesAfter(sources, Head(queue))
  /\ queue' = Tail(queue)
  /\ UNCHANGED <<host, current, running, mode, stop, threads, heard, lost>>

-----------------------------------------------------------------------------
(* The threads of capture k.                                               *)

\* The discovery thread; a snapshot nobody took yet stays, and the new one goes.
Discover(k) ==
  /\ pc[k] \notin {"none", "done"} /\ ~stop[k]
  /\ slot[k] = {}
  /\ slot' = [slot EXCEPT ![k] = {{s \in SourceIds : up[s]}}]
  /\ UNCHANGED <<host, current, running, queue, sources, mode, stop, pc, link,
                 dead, batch, heard, lost>>

KeepsGrabs(k, S) == holder
\* Dropping the handles of S ends the grabs capture k has on them.
Ungrabbed(k, S) ==
  [s \in SourceIds |-> IF s \in S /\ holder[s] = k THEN Nobody ELSE holder[s]]

\* The thread returns, which drops its session.
Exit(k) ==
  /\ pc' = [pc EXCEPT ![k] = "done"]
  /\ holder' = Ungrabbed(k, SourceIds)
  /\ link' = [link EXCEPT ![k] = [s \in SourceIds |-> "Closed"]]
  /\ dead' = [dead EXCEPT ![k] = {}]
  /\ slot' = [slot EXCEPT ![k] = {}]
  /\ batch' = [batch EXCEPT ![k] = <<>>]
  /\ UNCHANGED <<up, changes, current, running, queue, sources, mode, stop, heard, lost>>

NeverStops(k) == FALSE
SeesStop(k) == stop[k]

Stopped(k) == pc[k] = "top" /\ SeesStop(k) /\ Exit(k)

Top(k) ==
  /\ pc[k] = "top" /\ ~SeesStop(k)
  /\ pc' = [pc EXCEPT ![k] = "body"]
  /\ UNCHANGED <<host, current, running, queue, sources, mode, stop, link, dead,
                 slot, batch, heard, lost>>

\* What `open` grants capture k for s, by the access policy.
Grant(k, s) ==
  IF ~up[s] THEN "Closed"
  ELSE IF mode[k] = "Shared" THEN "Shared"
  ELSE IF holder[s] = Nobody THEN "Exclusive"
  ELSE IF mode[k] = "PreferExclusive" THEN "SharedFallback" ELSE "Closed"

\* What devices say of themselves plays no part here.
Event(kind, s, a) == [kind |-> kind, source |-> s, device |-> <<>>, access |-> a]

\* The sources of S in the order of their ids.
InOrder(S) ==
  CHOOSE ids \in [1..Cardinality(S) -> S] :
    /\ \A s \in S : \E i \in DOMAIN ids : ids[i] = s
    /\ \A i, j \in DOMAIN ids : i < j => ids[i] < ids[j]

\* The events of some sources, in the order of the ids.
Ordered(events) ==
  LET ids == InOrder(DOMAIN events) IN [i \in DOMAIN ids |-> events[ids[i]]]

\* reconcile with the snapshot, if there is one: capture k's links after it.
Found(k) == IF slot[k] = {} THEN Linked(k) ELSE UNION slot[k]
Reconciled(k) ==
  [s \in SourceIds |->
     IF s \notin Found(k) THEN "Closed"
     ELSE IF link[k][s] = "Closed" THEN Grant(k, s) ELSE link[k][s]]

\* Then poll_active: dead handles fail, others may have input or lose some.
Iterate(k) ==
  /\ pc[k] = "body"
  /\ LET gone == Linked(k) \ Found(k)
         new  == Found(k) \ Linked(k)
         left == {s \in SourceIds : Reconciled(k)[s] # "Closed"}
         Went == [s \in gone |-> Event("Disconnected", s, "Closed")]
         Came == [s \in new |-> Event(IF s \in left THEN "Connected" ELSE "SourceError",
                                      s, Reconciled(k)[s])]
         Polled(read) ==
           [s \in read |-> Event(IF s \in dead[k] THEN "SourceError" ELSE "Input",
                                 s, "Closed")]
     IN /\ link' = [link EXCEPT ![k] = Reconciled(k)]
        /\ dead' = [dead EXCEPT ![k] = @ \cap left]
        /\ holder' = [s \in SourceIds |->
                        IF s \in new /\ Reconciled(k)[s] = "Exclusive" THEN k
                        ELSE Ungrabbed(k, gone)[s]]
        /\ \E read \in SUBSET left :
             /\ dead[k] \cap left \subseteq read
             /\ batch' = [batch EXCEPT ![k] = Ordered(Went) \o Ordered(Came)
                                              \o Ordered(Polled(read))]
        /\ heard' = IF k = current /\ running THEN heard \cup (new \cap left) ELSE heard
  /\ slot' = [slot EXCEPT ![k] = {}]
  /\ pc' = [pc EXCEPT ![k] = "send"]
  /\ UNCHANGED <<up, changes, current, running, queue, sources, mode, stop, lost>>

SharedQueue(k) == ~running
\* The queue of capture k is closed: its receiver was dropped.
Closed(k) == ~running \/ k # current

Lifecycle == {"Connected", "Disconnected"}

Send(k) ==
  /\ pc[k] = "send" /\ batch[k] # <<>> /\ ~Closed(k)
  /\ batch' = [batch EXCEPT ![k] = Tail(@)]
  /\ IF Len(queue) = Capacity
     THEN /\ lost' = IF Head(batch[k]).kind \in Lifecycle
                      THEN lost \cup {Head(batch[k]).source} ELSE lost
          /\ UNCHANGED queue
     ELSE queue' = Append(queue, Head(batch[k])) /\ UNCHANGED lost
  /\ UNCHANGED <<host, current, running, sources, mode, stop, pc, link, dead,
                 slot, heard>>

SendFails(k) == pc[k] = "send" /\ batch[k] # <<>> /\ Closed(k) /\ Exit(k)

Sleep(k) ==
  /\ pc[k] = "send" /\ batch[k] = <<>>
  /\ pc' = [pc EXCEPT ![k] = "top"]
  /\ UNCHANGED <<host, current, running, queue, sources, mode, stop, link, dead,
                 slot, batch, heard, lost>>

-----------------------------------------------------------------------------
Capture(k) == Stopped(k) \/ Top(k) \/ Iterate(k) \/ Send(k) \/ SendFails(k) \/ Sleep(k)

Next ==
  \/ \E s \in SourceIds : Plug(s) \/ Unplug(s)
  \/ StopCapture \/ StartCapture \/ Drain
  \/ \E k \in Captures : Discover(k) \/ Capture(k)

\* All threads run, and the window is watched; hosts and users need do nothing.
Spec == /\ Init /\ [][Next]_vars
        /\ WF_vars(Drain)
        /\ \A k \in Captures : WF_vars(Capture(k)) /\ WF_vars(Discover(k))

-----------------------------------------------------------------------------
(* Properties.                                                             *)

\* The list of sources once these events have been applied.
AfterAll(list, q) ==
  LET after[i \in 0..Len(q)] == IF i = 0 THEN list ELSE SourcesAfter(after[i - 1], q[i])
  IN after[Len(q)]

\* The list of sources once everything under way has been applied.
Coming == AfterAll(sources, queue \o batch[current])

\* Through stops and restarts, the window will list what the running capture
\* announced with exactly the access its session has, and no longer than its
\* session has it; only sources with an omitted lifecycle event are excepted.
ListFollowsSession ==
  running => \A s \in heard \ lost :
    Coming[s].access = IF link[current][s] = "Closed" THEN "Absent" ELSE link[current][s]

\* Two captures may overlap, but the kernel's grab of a source belongs to the
\* one whose live handle says "Exclusive", and to nobody when none does.
GrabsOfCaptures ==
  \A s \in SourceIds, k \in Captures :
    holder[s] = k <=> link[k][s] = "Exclusive" /\ s \notin dead[k]

\* A restarted Exclusive capture gets the grabs of the capture it replaced: a
\* source that stays is grabbed by the capture that stays, unless its handle is
\* one of a device that was replugged (CaptureSession!StaleHandleReplaced).
GrabsHandedOver ==
  \A s \in SourceIds, k \in Captures :
    <>[](up[s] /\ running /\ current = k /\ mode[k] = "Exclusive")
      => <>[](holder[s] = k \/ s \in dead[k])

\* "The current state of one connected source" (tester.rs:142): a source that is
\* gone for good leaves the list of a capture that runs and omits nothing.  Not
\* so when it went between two captures: TesterState is never reset, and the new
\* session has no Disconnected to send for a source it never had.
GoneSourcesLeave ==
  \A s \in SourceIds :
    <>[](~up[s] /\ running /\ lost = {}) => <>[](s \notin Listed(sources))
=============================================================================
