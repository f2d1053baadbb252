--------------------------- MODULE TesterPipeline ---------------------------
(***************************************************************************)
(* How captured events reach the window of gamepad-tester                  *)
(* (src/bin/gamepad-tester.rs): the capture thread of one live capture     *)
(* (660-732), the bounded display queue, and the update of the GUI thread  *)
(* (89-102, 494-522).  The capture thread asks for a repaint at most every *)
(* UI_REPAINT_INTERVAL; the GUI thread updates when it was asked to or     *)
(* when the user touches the window.                                       *)
(***************************************************************************)
EXTENDS Integers, Sequences, FiniteSets, SequencesExt

CONSTANTS
  Capacity,      \* MAX_PENDING_CAPTURE_EVENTS
  MaxPerUpdate,  \* MAX_EVENTS_PER_UPDATE
  MaxBatch,      \* bound: events one iteration of the capture thread collects
  MaxEvents      \* bound: events of the whole capture, numbered from 1

ASSUME PipelineAssumption ==
  /\ Capacity \in Nat \ {0} /\ MaxPerUpdate \in Nat \ {0}
  /\ MaxBatch \in Nat /\ MaxEvents \in Nat

VARIABLES
  stopped,   \* stop_capture ran: the flag is set and the receiver dropped
  queue,     \* the sync_channel, oldest first
  repaint,   \* a repaint was requested and not yet served
  \* The capture thread.
  worker,    \* "top", "send" (events of one iteration) or "done"
  produced,  \* events collected so far
  batch,     \* events of this iteration still to be sent
  dropped,   \* dropped_display_events
  sent,      \* sent_event
  due,       \* now >= next_repaint, with `now` read at the top
  cooling,   \* the latest request is less than one interval old
  \* The GUI thread.
  gui,       \* "idle", "drain" or "render"
  budget,    \* items drain_events may still take
  shown      \* the items applied to TesterState

capture == <<worker, produced, batch, dropped, sent, due, cooling>>
vars == <<stopped, queue, repaint, worker, produced, batch, dropped, sent, due,
          cooling, gui, budget, shown>>

\* A queued item is a captured event or the report of an omission.
EventItem(n)    == [id |-> n, omitted |-> 0]
ReportItem(n)   == [id |-> 0, omitted |-> n]

LeakyFull == Len(queue) > Capacity
Full == Len(queue) = Capacity

-----------------------------------------------------------------------------
Init ==
  /\ stopped = FALSE
  /\ queue = <<>>
  /\ repaint = FALSE
  /\ worker = "top"
  /\ produced = 0
  /\ batch = <<>>
  /\ dropped = 0
  /\ sent = FALSE
  /\ due = FALSE
  /\ cooling = FALSE
  /\ gui = "idle"
  /\ budget = 0
  /\ shown = <<>>

-----------------------------------------------------------------------------
(* The capture thread.                                                     *)

NeverStops == FALSE
SeesStop == stopped

ForgetsOnFull == 0
DroppedAfterReport == IF Full THEN dropped ELSE 0

SkipsOne == dropped > 1
ReportDue == dropped > 0

\* try_send of the report, before the iteration's own events.
Report ==
  IF ReportDue
  THEN /\ queue' = IF Full THEN queue ELSE Append(queue, ReportItem(dropped))
       /\ sent' = ~Full
       /\ dropped' = DroppedAfterReport
  ELSE sent' = FALSE /\ UNCHANGED <<queue, dropped>>

\* The thread sleeps half an interval between iterations, so a repaint is due
\* again in the second iteration after a request, and maybe in the first.
Iterate ==
  /\ worker = "top" /\ ~SeesStop
  /\ due' \in IF cooling THEN BOOLEAN ELSE {TRUE}
  /\ cooling' = FALSE
  /\ Report
  /\ \E n \in 0..MaxBatch :
       /\ produced + n <= MaxEvents
       /\ produced' = produced + n
       /\ batch' = [i \in 1..n |-> produced + i]
  /\ worker' = "send"
  /\ UNCHANGED <<stopped, repaint, gui, budget, shown>>

RetriesLater == Append(Tail(batch), Head(batch))
AfterFull == Tail(batch)

Send ==
  /\ worker = "send" /\ batch # <<>> /\ ~SeesStop
  /\ IF Full
     THEN /\ dropped' = dropped + 1
          /\ batch' = AfterFull
          /\ UNCHANGED <<queue, sent>>
     ELSE /\ queue' = Append(queue, EventItem(Head(batch)))
          /\ batch' = Tail(batch)
          /\ sent' = TRUE
          /\ UNCHANGED dropped
  /\ UNCHANGED <<stopped, repaint, worker, produced, due, cooling, gui, budget,
                 shown>>

Sleep ==
  /\ worker = "send" /\ batch = <<>>
  /\ repaint' = (repaint \/ (sent /\ due))
  /\ cooling' = (sent /\ due)
  /\ worker' = "top"
  /\ UNCHANGED <<stopped, queue, produced, batch, dropped, sent, due, gui,
                 budget, shown>>

\* The flag is read at the top of an iteration; a send finds the queue closed.
Exit ==
  /\ SeesStop
  /\ worker = "top" \/ (worker = "send" /\ batch # <<>>)
  /\ worker' = "done"
  /\ UNCHANGED <<stopped, queue, repaint, produced, batch, dropped, sent, due,
                 cooling, gui, budget, shown>>

-----------------------------------------------------------------------------
(* The GUI thread.                                                         *)

BeginUpdate ==
  /\ gui = "idle"
  /\ gui' = "drain"
  /\ budget' = MaxPerUpdate
  /\ repaint' = FALSE
  /\ UNCHANGED <<stopped, queue, capture, shown>>

ServeRepaint == repaint /\ BeginUpdate
UserInput == BeginUpdate

Drain ==
  /\ gui = "drain" /\ budget > 0 /\ queue # <<>>
  /\ shown' = Append(shown, Head(queue))
  /\ queue' = Tail(queue)
  /\ budget' = budget - 1
  /\ UNCHANGED <<stopped, repaint, capture, gui>>

NeverMore == FALSE
MoreEventsReady == budget = 0 /\ ~stopped

\* drain_events ran into its limit, or into an empty or missing queue.
EndDrain ==
  /\ gui = "drain" /\ (budget = 0 \/ queue = <<>>)
  /\ repaint' = (repaint \/ MoreEventsReady)
  /\ gui' = "render"
  /\ UNCHANGED <<stopped, queue, capture, budget, shown>>

\* The rest of the update, in which the user may stop the capture.
Render ==
  /\ gui = "render"
  /\ gui' = "idle"
  /\ budget' = 0
  /\ \/ UNCHANGED <<stopped, queue>>
     \/ ~stopped /\ stopped' = TRUE /\ queue' = <<>>
  /\ UNCHANGED <<repaint, capture, shown>>

-----------------------------------------------------------------------------
Worker == Iterate \/ Send \/ Sleep \/ Exit
Gui == ServeRepaint \/ Drain \/ EndDrain \/ Render

Next == Worker \/ Gui \/ UserInput

\* Both threads run; nothing makes the user touch the window.
Spec == Init /\ [][Next]_vars /\ WF_vars(Worker) /\ WF_vars(Gui)

-----------------------------------------------------------------------------
(* Properties.                                                             *)

Items == {EventItem(n) : n \in 1..MaxEvents} \cup {ReportItem(n) : n \in 1..MaxEvents}

\* Every variable has its type; the queue never outgrows the channel.
TypeOK ==
  /\ stopped \in BOOLEAN /\ repaint \in BOOLEAN
  /\ queue \in Seq(Items) /\ Len(queue) <= Capacity
  /\ worker \in {"top", "send", "done"}
  /\ produced \in 0..MaxEvents /\ dropped \in 0..produced
  /\ batch \in Seq(1..produced)
  /\ sent \in BOOLEAN /\ due \in BOOLEAN /\ cooling \in BOOLEAN
  /\ gui \in {"idle", "drain", "render"}
  /\ budget \in 0..MaxPerUpdate
  /\ shown \in Seq(Items)

\* What has reached the channel, in order.
Stream == shown \o queue
Ids(q) == {q[i].id : i \in DOMAIN q} \ {0}
OmissionsIn(q) ==
  LET count[i \in 0..Len(q)] == IF i = 0 THEN 0 ELSE count[i - 1] + q[i].omitted
  IN count[Len(q)]

\* "Reports omitted display events" (README.md:127-129), exactly: while the
\* capture runs, the events that did not reach the channel are as many as the
\* reports in the channel and the thread's own count say, none counted twice.
OmissionsExact ==
  ~stopped => OmissionsIn(Stream) + dropped
              = Cardinality((1..produced) \ (Ids(Stream) \cup ToSet(batch)))

\* The window applies events once and in the order they were captured.
ShownInOrder ==
  \A i, j \in DOMAIN Stream :
    i < j /\ Stream[i].id # 0 /\ Stream[j].id # 0 => Stream[i].id < Stream[j].id

\* An update that could not empty the queue asks for the next one: a requested
\* repaint brings everything then queued to the window without the user.
BacklogDrains == repaint ~> (queue = <<>> \/ stopped)

\* README.md:127-129, "an overloaded diagnostics window reports omitted display
\* events": an omission gets its report in the end, although a report that finds
\* the queue full requests no repaint.  This needs MaxBatch + 1 < Capacity: a queue
\* that one iteration and a report fill within the interval stays full for ever.
OmissionReported == dropped > 0 ~> (dropped = 0 \/ stopped)

\* Stopping the capture ends its thread, and with it the grabs of its session.
StopEndsWorker == stopped ~> worker = "done"

\* README.md:127, "the tester is event-driven": what is queued gets shown.  Not
\* so: an event sent within the repaint interval, when no other follows it, has
\* no request of its own (gamepad-tester.rs:727-730).
QueuedShown == queue # <<>> ~> queue = <<>>
=============================================================================
