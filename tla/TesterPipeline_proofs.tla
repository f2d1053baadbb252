----------------------- MODULE TesterPipeline_proofs -----------------------
(***************************************************************************)
(* TypeOK, ShownInOrder and OmissionsExact for any capacities, limits and  *)
(* events.  None is inductive: that what still is to be sent follows what  *)
(* was sent needs the batch to hold exactly the latest events, the count   *)
(* of omissions is bounded because an omitted event has left the batch,    *)
(* and that it is exact needs the events of the channel to be distinct     *)
(* from those still to come.                                               *)
(***************************************************************************)
EXTENDS TesterPipeline, Prefixes_proofs, FiniteSetTheorems, TLAPS

\* The events already sent or omitted are 1..Handled.
Handled == produced - Len(batch)

BatchShape ==
  /\ Len(batch) <= produced
  /\ \A i \in DOMAIN batch : batch[i] = Handled + i
  /\ worker = "top" => batch = <<>>
  /\ dropped <= Handled

StreamBelow == \A i \in DOMAIN Stream : Stream[i].id <= Handled

PipelineInv == TypeOK /\ BatchShape /\ StreamBelow /\ ShownInOrder

\* The part of the invariant that is about the channel.
StreamOK(q, limit) ==
  /\ \A i \in DOMAIN q : q[i].id <= limit
  /\ \A i, j \in DOMAIN q : i < j /\ q[i].id # 0 /\ q[j].id # 0 => q[i].id < q[j].id

-----------------------------------------------------------------------------
LEMMA ItemFields ==
  ASSUME NEW item \in Items
  PROVE  item.id \in 0..MaxEvents
  BY PipelineAssumption DEF Items, EventItem, ReportItem

LEMMA BudgetBounds == 0 \in 0..MaxPerUpdate /\ MaxPerUpdate \in 0..MaxPerUpdate
  BY PipelineAssumption

\* Appending a report changes no order, appending the next event keeps it.
LEMMA AppendReport ==
  ASSUME NEW q \in Seq(Items), NEW limit \in Nat, StreamOK(q, limit),
         NEW n \in 1..MaxEvents
  PROVE  StreamOK(Append(q, ReportItem(n)), limit)
<1>1. Append(q, ReportItem(n))[Len(q) + 1].id = 0
  BY DEF ReportItem
<1> QED BY <1>1 DEF StreamOK

LEMMA AppendEvent ==
  ASSUME NEW q \in Seq(Items), NEW limit \in Nat, StreamOK(q, limit),
         limit + 1 \in 1..MaxEvents
  PROVE  StreamOK(Append(q, EventItem(limit + 1)), limit + 1)
<1>1. /\ Append(q, EventItem(limit + 1))[Len(q) + 1].id = limit + 1
      /\ \A i \in DOMAIN q : Append(q, EventItem(limit + 1))[i] = q[i] /\ q[i].id \in Nat
      /\ DOMAIN Append(q, EventItem(limit + 1)) = 1..(Len(q) + 1)
      /\ DOMAIN q = 1..Len(q)
  BY ItemFields, PipelineAssumption DEF EventItem
<1> QED BY <1>1 DEF StreamOK

LEMMA PrefixOK ==
  ASSUME NEW p \in Seq(Items), NEW q \in Seq(Items), NEW limit, StreamOK(p \o q, limit)
  PROVE  StreamOK(p, limit)
<1>1. \A i \in DOMAIN p : i \in DOMAIN (p \o q) /\ (p \o q)[i] = p[i]
  OBVIOUS
<1> QED BY <1>1 DEF StreamOK

\* Moving the head of the queue to the window leaves the stream as it is.
LEMMA MoveHead ==
  ASSUME NEW p \in Seq(Items), NEW q \in Seq(Items), q # <<>>
  PROVE  Append(p, Head(q)) \o Tail(q) = p \o q
  OBVIOUS

LEMMA AppendToConcat ==
  ASSUME NEW p \in Seq(Items), NEW q \in Seq(Items), NEW item \in Items
  PROVE  p \o Append(q, item) = Append(p \o q, item)
  OBVIOUS

\* The invariant from its parts, in the form the steps use.
LEMMA StreamInv ==
  ASSUME TypeOK
  PROVE  StreamOK(Stream, Handled) <=> StreamBelow /\ ShownInOrder
  BY DEF StreamOK, StreamBelow, ShownInOrder

LEMMA Shape ==
  ASSUME PipelineInv
  PROVE  /\ StreamOK(Stream, Handled)
         /\ Handled \in Nat /\ Handled <= MaxEvents
         /\ shown \in Seq(Items) /\ queue \in Seq(Items) /\ Stream \in Seq(Items)
         /\ batch \in Seq(Nat)
<1>1. Handled \in Nat /\ Handled <= MaxEvents
  BY PipelineAssumption DEF PipelineInv, TypeOK, BatchShape, Handled
<1>2. batch \in Seq(Nat)
  BY PipelineAssumption DEF PipelineInv, TypeOK
<1> QED BY <1>1, <1>2, StreamInv DEF PipelineInv, TypeOK, Stream

-----------------------------------------------------------------------------
\* What the capture thread's report leaves, whichever branch it takes.
LEMMA ReportKeeps ==
  ASSUME PipelineInv, Report, UNCHANGED shown, worker = "top"
  PROVE  /\ queue' \in Seq(Items) /\ Len(queue') <= Capacity
         /\ sent' \in BOOLEAN /\ dropped' \in 0..produced
         /\ StreamOK(Stream', Handled) /\ Stream' \in Seq(Items)
<1>1. /\ queue \in Seq(Items) /\ Len(queue) <= Capacity /\ shown \in Seq(Items)
      /\ dropped \in 0..produced /\ produced \in 0..MaxEvents
      /\ StreamOK(Stream, Handled) /\ Handled \in Nat /\ Stream \in Seq(Items)
  BY Shape DEF PipelineInv, TypeOK
<1>2. CASE ReportDue
  <2>1. dropped \in 1..MaxEvents /\ ReportItem(dropped) \in Items
    BY <1>1, <1>2, PipelineAssumption DEF ReportDue, Items
  <2>2. /\ queue' = IF Full THEN queue ELSE Append(queue, ReportItem(dropped))
        /\ sent' \in BOOLEAN
        /\ dropped' = IF Full THEN dropped ELSE 0
    BY <1>2 DEF Report, DroppedAfterReport, Full
  <2>3. queue' \in Seq(Items) /\ Len(queue') <= Capacity
    BY <1>1, <2>1, <2>2, PipelineAssumption DEF Full
  <2>4. StreamOK(Stream', Handled)
    <3>1. CASE Full
      BY <1>1, <2>2, <3>1 DEF Stream
    <3>2. CASE ~Full
      <4>1. Stream' = Append(Stream, ReportItem(dropped))
        BY <1>1, <2>1, <2>2, <3>2, AppendToConcat DEF Stream
      <4> QED BY <4>1, <1>1, <2>1, AppendReport
    <3> QED BY <3>1, <3>2
  <2> QED BY <1>1, <2>2, <2>3, <2>4, PipelineAssumption DEF Stream
<1>3. CASE ~ReportDue
  BY <1>1, <1>3 DEF Report, Stream
<1> QED BY <1>2, <1>3

LEMMA IterateKeeps ==
  ASSUME PipelineInv, Iterate
  PROVE  PipelineInv'
<1>1. /\ worker = "top" /\ batch = <<>> /\ Handled = produced
      /\ produced \in 0..MaxEvents /\ dropped \in 0..produced
  BY PipelineAssumption DEF PipelineInv, TypeOK, BatchShape, Iterate, Handled
<1>2. /\ queue' \in Seq(Items) /\ Len(queue') <= Capacity
      /\ sent' \in BOOLEAN /\ dropped' \in 0..produced
      /\ StreamOK(Stream', Handled) /\ Stream' \in Seq(Items)
  BY ReportKeeps DEF Iterate
<1>3. PICK n \in 0..MaxBatch :
        /\ produced + n <= MaxEvents
        /\ produced' = produced + n
        /\ batch' = [i \in 1..n |-> produced + i]
  BY DEF Iterate
<1>4. n \in Nat
  BY <1>3, PipelineAssumption
<1>5. batch' \in Seq(1..produced') /\ Len(batch') = n
  BY <1>1, <1>3, <1>4, PipelineAssumption
<1>6. Handled' = Handled
  BY <1>1, <1>3, <1>4, <1>5, PipelineAssumption DEF Handled
<1>7. TypeOK'
  <2>1. /\ due' \in BOOLEAN /\ cooling' \in BOOLEAN
        /\ UNCHANGED <<stopped, repaint, gui, budget, shown>>
    BY Zenon DEF Iterate
  <2>2. worker' = "send" /\ produced' \in 0..MaxEvents /\ dropped' \in 0..produced'
    BY <1>1, <1>2, <1>3, <1>4, PipelineAssumption DEF Iterate
  <2> QED BY <1>2, <1>5, <2>1, <2>2 DEF PipelineInv, TypeOK
<1>8. BatchShape'
  BY <1>1, <1>2, <1>3, <1>4, <1>5, <1>6, PipelineAssumption DEF BatchShape, Iterate
<1>9. StreamBelow' /\ ShownInOrder'
  BY <1>2, <1>6 DEF StreamOK, StreamBelow, ShownInOrder
<1> QED BY <1>7, <1>8, <1>9 DEF PipelineInv

LEMMA SendKeeps ==
  ASSUME PipelineInv, Send
  PROVE  PipelineInv'
<1>1. /\ batch \in Seq(Nat) /\ batch \in Seq(1..produced) /\ batch # <<>>
      /\ Len(batch) \in Nat \ {0} /\ Len(batch) <= produced
      /\ produced \in 0..MaxEvents /\ worker = "send"
      /\ \A i \in DOMAIN batch : batch[i] = Handled + i
      /\ dropped \in 0..produced /\ dropped <= Handled
      /\ queue \in Seq(Items) /\ Len(queue) <= Capacity
  BY Shape DEF PipelineInv, TypeOK, BatchShape, Send
<1>2. /\ batch' = Tail(batch) /\ produced' = produced /\ shown' = shown
      /\ worker' = worker
  BY DEF Send, AfterFull
<1>3. /\ Len(batch') = Len(batch) - 1 /\ batch' \in Seq(1..produced)
      /\ \A i \in DOMAIN batch' : batch'[i] = batch[i + 1] /\ i + 1 \in DOMAIN batch
      /\ DOMAIN batch' = 1..(Len(batch) - 1)
  BY <1>1, <1>2
<1>4. Handled' = Handled + 1 /\ Head(batch) = Handled + 1 /\ Handled \in Nat
  <2>1. Head(batch) = batch[1] /\ 1 \in DOMAIN batch
    BY <1>1
  <2>2. Len(batch') = Len(batch) - 1 /\ produced' = produced /\ produced \in Nat
    BY <1>1, <1>2, <1>3, PipelineAssumption
  <2>3. Handled' = Handled + 1 /\ Handled \in Nat
    BY <1>1, <2>2 DEF Handled
  <2> QED BY <1>1, <2>1, <2>3
<1>5. /\ StreamOK(Stream, Handled) /\ shown \in Seq(Items) /\ Stream \in Seq(Items)
  BY Shape
<1>6. Handled + 1 \in 1..MaxEvents /\ EventItem(Handled + 1) \in Items
  <2>1. Handled + 1 \in 1..MaxEvents
    BY <1>1, <1>4, PipelineAssumption DEF Handled
  <2> QED BY <2>1 DEF Items
<1>7. \A i \in DOMAIN batch' : batch'[i] = Handled' + i
  BY <1>1, <1>3, <1>4
<1>8. CASE Full
  <2>1. queue' = queue /\ dropped' = dropped + 1
    BY <1>8 DEF Send
  <2>2. TypeOK'
    BY <1>1, <1>2, <1>3, <1>4, <2>1, <1>8, PipelineAssumption
    DEF PipelineInv, TypeOK, Send, Handled
  <2>3. BatchShape'
    BY <1>1, <1>2, <1>3, <1>4, <1>7, <2>1, PipelineAssumption DEF BatchShape
  <2>4. Stream' = Stream
    BY <1>2, <2>1 DEF Stream
  <2>5. StreamOK(Stream', Handled')
    <3>1. \A i \in DOMAIN Stream : Stream[i] \in Items /\ Stream[i].id \in Nat
      BY <1>5, ItemFields, PipelineAssumption
    <3> QED BY <1>4, <1>5, <2>4, <3>1 DEF StreamOK
  <2> QED BY <2>2, <2>3, <2>5 DEF StreamOK, StreamBelow, ShownInOrder, PipelineInv
<1>9. CASE ~Full
  <2>1. queue' = Append(queue, EventItem(Handled + 1)) /\ dropped' = dropped
    BY <1>4, <1>9 DEF Send
  <2>2. queue' \in Seq(Items) /\ Len(queue') <= Capacity
    BY <1>1, <1>6, <1>9, <2>1, PipelineAssumption DEF Full
  <2>3. TypeOK'
    BY <1>1, <1>2, <1>3, <2>1, <2>2, <1>9, PipelineAssumption DEF PipelineInv, TypeOK, Send
  <2>4. BatchShape'
    BY <1>1, <1>2, <1>3, <1>4, <1>7, <2>1, PipelineAssumption DEF BatchShape
  <2>5. Stream' = Append(Stream, EventItem(Handled + 1))
    BY <1>1, <1>2, <1>5, <1>6, <2>1, AppendToConcat DEF Stream
  <2>6. StreamOK(Stream', Handled')
    BY <1>4, <1>5, <1>6, <2>5, AppendEvent
  <2> QED BY <2>3, <2>4, <2>6 DEF StreamOK, StreamBelow, ShownInOrder, PipelineInv
<1> QED BY <1>8, <1>9

\* One item reaches the window.
LEMMA DrainKeeps ==
  ASSUME PipelineInv, Drain
  PROVE  PipelineInv'
<1>1. /\ shown' = Append(shown, Head(queue)) /\ queue' = Tail(queue)
      /\ budget' = budget - 1 /\ budget > 0 /\ queue # <<>>
      /\ UNCHANGED <<stopped, repaint, worker, produced, batch, dropped, sent, due,
                     cooling, gui>>
  BY DEF Drain, capture
<1>2. queue \in Seq(Items) /\ shown \in Seq(Items) /\ budget \in 0..MaxPerUpdate
  BY DEF PipelineInv, TypeOK
<1>3. /\ queue' \in Seq(Items) /\ Len(queue') = Len(queue) - 1
      /\ shown' \in Seq(Items) /\ budget' \in 0..MaxPerUpdate
  BY <1>1, <1>2, PipelineAssumption
<1>4. TypeOK'
  BY <1>1, <1>2, <1>3, PipelineAssumption DEF PipelineInv, TypeOK
<1>5. Stream' = Stream /\ Handled' = Handled
  BY <1>1, <1>2, MoveHead DEF Stream, Handled
<1>6. BatchShape'
  BY <1>1, <1>5 DEF PipelineInv, BatchShape
<1> QED BY <1>4, <1>5, <1>6 DEF PipelineInv, StreamBelow, ShownInOrder

\* stop_capture drops what is queued; what is shown stays in order.
LEMMA RenderKeeps ==
  ASSUME PipelineInv, Render
  PROVE  PipelineInv'
<1>1. /\ gui' = "idle" /\ budget' = 0
      /\ UNCHANGED <<repaint, worker, produced, batch, dropped, sent, due, cooling, shown>>
      /\ \/ UNCHANGED <<stopped, queue>>
         \/ stopped' = TRUE /\ queue' = <<>>
  BY DEF Render, capture
<1>2. TypeOK'
  <2>1. queue' \in Seq(Items) /\ Len(queue') <= Capacity
    <3>1. <<>> \in Seq(Items) /\ Len(<<>>) <= Capacity
      BY PipelineAssumption
    <3>2. queue' = queue \/ queue' = <<>>
      BY <1>1
    <3> QED BY <3>1, <3>2, Zenon DEF PipelineInv, TypeOK
  <2>2. stopped' \in BOOLEAN
    BY <1>1, Zenon DEF PipelineInv, TypeOK
  <2> QED BY <1>1, <2>1, <2>2, BudgetBounds DEF PipelineInv, TypeOK
<1>3. Handled' = Handled
  BY <1>1 DEF Handled
<1>4. BatchShape'
  BY <1>1, <1>3 DEF PipelineInv, BatchShape
<1>5. StreamOK(Stream', Handled)
  <2>1. CASE queue' = queue
    BY <1>1, <2>1, Shape DEF Stream
  <2>2. CASE queue' = <<>>
    <3>1. Stream' = shown
      BY <1>1, <2>2, Shape DEF Stream
    <3> QED BY <3>1, Shape, PrefixOK DEF Stream
  <2> QED BY <1>1, <2>1, <2>2
<1> QED BY <1>2, <1>3, <1>4, <1>5 DEF StreamOK, StreamBelow, ShownInOrder, PipelineInv

\* The steps that touch neither the channel nor the batch.
LEMMA OthersKeep ==
  ASSUME PipelineInv, Sleep \/ Exit \/ BeginUpdate \/ EndDrain \/ UNCHANGED vars
  PROVE  PipelineInv'
<1>1. UNCHANGED <<queue, shown, produced, batch, dropped>>
  BY DEF Sleep, Exit, BeginUpdate, EndDrain, vars, capture
<1>2. worker' = "top" => batch = <<>>
  BY DEF PipelineInv, BatchShape, Sleep, Exit, BeginUpdate, EndDrain, vars, capture
<1>3. TypeOK'
  <2>1. CASE Sleep
    BY <2>1 DEF PipelineInv, TypeOK, Sleep
  <2>2. CASE Exit
    BY <2>2 DEF PipelineInv, TypeOK, Exit
  <2>3. CASE BeginUpdate
    BY <2>3, BudgetBounds DEF PipelineInv, TypeOK, BeginUpdate, capture
  <2>4. CASE EndDrain
    BY <2>4 DEF PipelineInv, TypeOK, EndDrain, capture, MoreEventsReady
  <2>5. CASE UNCHANGED vars
    BY <2>5 DEF PipelineInv, TypeOK, vars
  <2> QED BY <2>1, <2>2, <2>3, <2>4, <2>5
<1>4. Stream' = Stream /\ Handled' = Handled
  BY <1>1 DEF Stream, Handled
<1>5. BatchShape'
  BY <1>1, <1>2, <1>4 DEF PipelineInv, BatchShape
<1> QED BY <1>3, <1>4, <1>5 DEF PipelineInv, StreamBelow, ShownInOrder

-----------------------------------------------------------------------------
(* The sum of the reports.                                                 *)

LEMMA OmittedTyped ==
  ASSUME NEW item \in Items
  PROVE  item.omitted \in Nat
  BY PipelineAssumption DEF Items, EventItem, ReportItem

\* The sum of the reports, one item after the other.
CountSteps(q) == [i \in DOMAIN q |-> [n \in Nat |-> n + q[i].omitted]]

LEMMA CountStep ==
  ASSUME NEW q \in Seq(Items)
  PROVE  /\ Len(q) \in Nat /\ DOMAIN q = 1..Len(q)
         /\ \A i \in 1..Len(q) : /\ CountSteps(q)[i] \in [Nat -> Nat]
                                 /\ \A n \in Nat : CountSteps(q)[i][n] = n + q[i].omitted
<1>1. Len(q) \in Nat /\ DOMAIN q = 1..Len(q) /\ \A i \in 1..Len(q) : q[i] \in Items
  OBVIOUS
<1>2. \A i \in 1..Len(q) : q[i].omitted \in Nat
  BY <1>1, OmittedTyped
<1> QED BY <1>1, <1>2 DEF CountSteps

LEMMA CountAlong ==
  ASSUME NEW q \in Seq(Items)
  PROVE  \E f : /\ Along(f, Len(q), 0, CountSteps(q))
                /\ OmissionsIn(q) = f[Len(q)]
                /\ \A i \in 0..Len(q) : f[i] \in Nat
<1> DEFINE n == Len(q)
           Counts(f) == f = [i \in 0..n |-> IF i = 0 THEN 0 ELSE f[i - 1] + q[i].omitted]
           count == CHOOSE f : Counts(f)
<1>1. n \in Nat /\ n \in 0..n
  OBVIOUS
<1>2. StepsIn(CountSteps(q), n, Nat) /\ 0 \in Nat
  BY CountStep DEF StepsIn
<1>3. \A i \in 1..n : \A k \in Nat : CountSteps(q)[i][k] = k + q[i].omitted
  BY CountStep
<1>4. PICK f : Along(f, n, 0, CountSteps(q))
  BY <1>1, <1>2, AlongExists
<1>5. \A i \in 0..n : f[i] \in Nat
  BY <1>1, <1>2, <1>4, AlongUnique
<1>6. Counts(f)
  <2>1. \A i \in 1..n : CountSteps(q)[i][f[i - 1]] = f[i - 1] + q[i].omitted
    BY <1>1, <1>3, <1>5
  <2> QED BY <1>4, <2>1 DEF Along
<1>7. Counts(count)
  BY <1>6
<1>8. OmissionsIn(q) = count[n]
  BY DEF OmissionsIn
<1> HIDE DEF count
<1>9. /\ Over(count, n) /\ count[0] = 0
      /\ Follows(count, n, Nat, CountSteps(q))
  <2>1. \A i \in 0..n : count[i] = IF i = 0 THEN 0 ELSE count[i - 1] + q[i].omitted
    BY <1>7
  <2>2. \A i \in 1..n : i \in 0..n /\ i # 0
    BY <1>1
  <2>3. Over(count, n)
    BY <1>7, <2>1 DEF Over
  <2>4. count[0] = 0
    BY <1>1, <2>1
  <2> QED BY <1>3, <2>1, <2>2, <2>3, <2>4 DEF Follows
<1>10. Along(count, n, 0, CountSteps(q)) /\ \A i \in 0..n : count[i] \in Nat
  BY <1>1, <1>2, <1>9, AlongFrom
<1> QED BY <1>8, <1>10

LEMMA OmissionsAppend ==
  ASSUME NEW q \in Seq(Items), NEW item \in Items
  PROVE  /\ OmissionsIn(q) \in Nat
         /\ OmissionsIn(Append(q, item)) = OmissionsIn(q) + item.omitted
<1> DEFINE n == Len(q)
           longer == Append(q, item)
<1>1. /\ n \in Nat /\ longer \in Seq(Items) /\ Len(longer) = n + 1 /\ longer[n + 1] = item
      /\ \A i \in 1..n : longer[i] = q[i]
      /\ n + 1 \in 1..(n + 1) /\ n + 1 # 0 /\ (n + 1) - 1 = n /\ n \in 0..n
      /\ n \in 0..(n + 1) /\ n + 1 \in Nat /\ n + 1 \in 0..(n + 1)
  OBVIOUS
<1> HIDE DEF longer
<1>2. PICK f : /\ Along(f, n, 0, CountSteps(q)) /\ OmissionsIn(q) = f[n]
               /\ \A i \in 0..n : f[i] \in Nat
  BY CountAlong
<1>3. PICK g : Along(g, n + 1, 0, CountSteps(longer)) /\ OmissionsIn(longer) = g[n + 1]
  BY <1>1, CountAlong
<1>4. StepsIn(CountSteps(longer), n + 1, Nat) /\ 0 \in Nat
  BY <1>1, CountStep DEF StepsIn
<1>5. Along(f, n, 0, CountSteps(longer))
  <2>1. \A i \in 1..n : CountSteps(longer)[i] = CountSteps(q)[i]
    BY <1>1 DEF CountSteps
  <2> QED BY <1>1, <1>2, <2>1 DEF Along
<1>6. f[n] = g[n] /\ f[n] \in Nat
  <2>1. \A i \in 0..n : f[i] = g[i] /\ f[i] \in Nat
    BY <1>1, <1>3, <1>4, <1>5, AlongUnique
  <2> QED BY <1>1, <2>1
<1>7. g[n + 1] = CountSteps(longer)[n + 1][g[n]]
  BY <1>1, <1>3 DEF Along
<1>8. CountSteps(longer)[n + 1][g[n]] = g[n] + longer[n + 1].omitted
  <2>1. \A i \in 1..(n + 1) : \A k \in Nat : CountSteps(longer)[i][k] = k + longer[i].omitted
    BY <1>1, CountStep
  <2>2. n + 1 \in 1..(n + 1) /\ g[n] \in Nat
    BY <1>1, <1>6
  <2> QED BY <2>1, <2>2
<1> QED BY <1>1, <1>2, <1>3, <1>6, <1>7, <1>8 DEF longer

LEMMA OmissionsEmpty == OmissionsIn(<<>>) = 0
<1>1. <<>> \in Seq(Items) /\ Len(<<>>) = 0
  OBVIOUS
<1>2. PICK f : Along(f, 0, 0, CountSteps(<<>>)) /\ OmissionsIn(<<>>) = f[0]
  BY <1>1, CountAlong
<1> QED BY <1>2 DEF Along
-----------------------------------------------------------------------------
(* No omission is lost or counted twice.                                   *)

\* The events that are handled, and not in the channel.
Omitted == (1..Handled) \ Ids(Stream)

CountInv == ~stopped => OmissionsIn(Stream) + dropped = Cardinality(Omitted)

LEMMA IdsAppend ==
  ASSUME NEW q \in Seq(Items), NEW item \in Items
  PROVE  Ids(Append(q, item)) = Ids(q) \cup ({item.id} \ {0})
<1>1. /\ DOMAIN Append(q, item) = DOMAIN q \cup {Len(q) + 1}
      /\ Append(q, item)[Len(q) + 1] = item
      /\ \A i \in DOMAIN q : Append(q, item)[i] = q[i]
  OBVIOUS
<1> QED BY <1>1 DEF Ids

\* A report brings the count along, and no event.
LEMMA ReportCounted ==
  ASSUME NEW q \in Seq(Items), NEW n \in 1..MaxEvents
  PROVE  /\ ReportItem(n) \in Items
         /\ OmissionsIn(Append(q, ReportItem(n))) = OmissionsIn(q) + n
         /\ Ids(Append(q, ReportItem(n))) = Ids(q)
<1>1. ReportItem(n) \in Items /\ ReportItem(n).omitted = n /\ ReportItem(n).id = 0
  BY DEF Items, ReportItem
<1>2. Ids(Append(q, ReportItem(n))) = Ids(q) \cup ({0} \ {0})
  BY <1>1, IdsAppend
<1>3. OmissionsIn(Append(q, ReportItem(n))) = OmissionsIn(q) + n
  BY <1>1, OmissionsAppend
<1> QED BY <1>1, <1>2, <1>3

LEMMA EventCounted ==
  ASSUME NEW q \in Seq(Items), NEW n \in 1..MaxEvents
  PROVE  /\ EventItem(n) \in Items
         /\ OmissionsIn(Append(q, EventItem(n))) = OmissionsIn(q)
         /\ Ids(Append(q, EventItem(n))) = Ids(q) \cup {n}
<1>1. EventItem(n) \in Items /\ EventItem(n).omitted = 0 /\ EventItem(n).id = n /\ n # 0
  BY DEF Items, EventItem
<1>2. OmissionsIn(q) \in Nat
  BY <1>1, OmissionsAppend
<1> QED BY <1>1, <1>2, OmissionsAppend, IdsAppend

\* What the batch still holds is what is not handled.
LEMMA OmittedExactly ==
  ASSUME PipelineInv
  PROVE  Omitted = (1..produced) \ (Ids(Stream) \cup ToSet(batch))
<1>1. /\ produced \in Nat /\ Len(batch) \in Nat /\ DOMAIN batch = 1..Len(batch)
      /\ Len(batch) <= produced /\ Handled = produced - Len(batch)
      /\ \A i \in DOMAIN batch : batch[i] = Handled + i
  BY PipelineAssumption DEF PipelineInv, TypeOK, BatchShape, Handled
<1>2. ToSet(batch) = (Handled + 1)..produced
  <2>1. ASSUME NEW n \in (Handled + 1)..produced PROVE n \in ToSet(batch)
    <3>1. n - Handled \in DOMAIN batch /\ batch[n - Handled] = n
      BY <1>1
    <3> QED BY <3>1 DEF ToSet
  <2>2. ASSUME NEW n \in ToSet(batch) PROVE n \in (Handled + 1)..produced
    BY <1>1 DEF ToSet
  <2> QED BY <2>1, <2>2
<1>3. (1..produced) \ ((Handled + 1)..produced) = 1..Handled
  BY <1>1
<1> QED BY <1>2, <1>3 DEF Omitted

LEMMA OmittedFinite ==
  ASSUME PipelineInv
  PROVE  IsFiniteSet(Omitted)
<1>1. Handled \in Nat
  BY Shape
<1>2. IsFiniteSet(1..Handled)
  BY <1>1, FS_Interval
<1> QED BY <1>2, FS_Subset DEF Omitted

LEMMA IterateCounts ==
  ASSUME PipelineInv, CountInv, Iterate
  PROVE  CountInv'
<1>1. /\ batch = <<>> /\ Handled = produced /\ produced \in Nat /\ produced <= MaxEvents
      /\ dropped \in 0..produced /\ stopped' = stopped /\ shown' = shown
  BY PipelineAssumption DEF PipelineInv, TypeOK, BatchShape, Iterate, Handled
<1>2. Handled' = Handled
  <2>1. PICK n \in 0..MaxBatch : /\ produced' = produced + n
                                 /\ batch' = [i \in 1..n |-> produced + i]
    BY DEF Iterate
  <2>2. n \in Nat
    BY PipelineAssumption
  <2>3. Len(batch') = n
    BY <2>1, <2>2
  <2> QED BY <1>1, <2>1, <2>2, <2>3 DEF Handled
<1>3. Stream \in Seq(Items) /\ shown \in Seq(Items) /\ queue \in Seq(Items)
  BY Shape
<1>4. OmissionsIn(Stream) + dropped = OmissionsIn(Stream') + dropped' /\ Ids(Stream') = Ids(Stream)
  <2>1. CASE ReportDue /\ ~Full
    <3>1. dropped \in 1..MaxEvents
      BY <1>1, <2>1, PipelineAssumption DEF ReportDue
    <3>2. queue' = Append(queue, ReportItem(dropped)) /\ dropped' = 0
      BY <2>1 DEF Iterate, Report, DroppedAfterReport
    <3>3. Stream' = Append(Stream, ReportItem(dropped))
      BY <1>1, <1>3, <3>1, <3>2, ReportCounted, AppendToConcat DEF Stream
    <3>4. OmissionsIn(Stream) \in Nat
      BY <1>3, <3>1, ReportCounted, OmissionsAppend
    <3> QED BY <1>3, <3>1, <3>2, <3>3, <3>4, ReportCounted
  <2>2. CASE ~(ReportDue /\ ~Full)
    <3>1. queue' = queue /\ dropped' = dropped
      BY <2>2 DEF Iterate, Report, DroppedAfterReport
    <3> QED BY <1>1, <3>1 DEF Stream
  <2> QED BY <2>1, <2>2
<1>5. Omitted' = Omitted
  BY <1>2, <1>4 DEF Omitted
<1> QED BY <1>1, <1>4, <1>5 DEF CountInv

LEMMA SendCounts ==
  ASSUME PipelineInv, CountInv, Send
  PROVE  CountInv'
<1>1. /\ batch # <<>> /\ batch' = Tail(batch) /\ produced' = produced /\ shown' = shown
      /\ stopped' = stopped
  BY DEF Send, AfterFull
<1>2. /\ produced \in Nat /\ produced <= MaxEvents /\ batch \in Seq(Nat)
      /\ Handled \in Nat /\ Len(batch) \in Nat \ {0} /\ Handled = produced - Len(batch)
      /\ Head(batch) = Handled + 1 /\ dropped \in Nat
  <2>1. /\ produced \in Nat /\ produced <= MaxEvents /\ batch \in Seq(Nat) /\ Handled \in Nat
        /\ Len(batch) \in Nat \ {0} /\ dropped \in Nat
    BY <1>1, Shape, PipelineAssumption DEF PipelineInv, TypeOK
  <2>2. Head(batch) = batch[1] /\ 1 \in DOMAIN batch
    BY <1>1, <2>1
  <2> QED BY <2>1, <2>2 DEF PipelineInv, BatchShape, Handled
<1>3. Handled' = Handled + 1 /\ Handled + 1 \in 1..MaxEvents
  <2>1. Len(batch') = Len(batch) - 1
    BY <1>1, <1>2
  <2> QED BY <1>1, <1>2, <2>1, PipelineAssumption DEF Handled
<1>4. /\ StreamOK(Stream, Handled) /\ Stream \in Seq(Items)
      /\ shown \in Seq(Items) /\ queue \in Seq(Items)
  BY Shape
<1>5. Handled + 1 \notin Ids(Stream)
  BY <1>2, <1>4 DEF StreamOK, Ids
<1>6. CASE Full
  <2>1. Stream' = Stream /\ dropped' = dropped + 1
    BY <1>1, <1>6 DEF Send, Stream
  <2>2. Omitted' = Omitted \cup {Handled + 1} /\ Handled + 1 \notin Omitted
    BY <1>2, <1>3, <1>5, <2>1 DEF Omitted
  <2>3. Cardinality(Omitted') = Cardinality(Omitted) + 1
    BY <2>2, OmittedFinite, FS_AddElement
  <2>4. OmissionsIn(Stream) \in Nat
    BY <1>3, <1>4, EventCounted, OmissionsAppend
  <2>5. Cardinality(Omitted) \in Nat
    BY OmittedFinite, FS_CardinalityType
  <2> QED BY <1>1, <1>2, <2>1, <2>3, <2>4, <2>5 DEF CountInv
<1>7. CASE ~Full
  <2>1. queue' = Append(queue, EventItem(Handled + 1)) /\ dropped' = dropped
    BY <1>2, <1>7 DEF Send
  <2>2. Stream' = Append(Stream, EventItem(Handled + 1))
    BY <1>1, <1>3, <1>4, <2>1, EventCounted, AppendToConcat DEF Stream
  <2>3. OmissionsIn(Stream') = OmissionsIn(Stream) /\ Ids(Stream') = Ids(Stream) \cup {Handled + 1}
    BY <1>3, <1>4, <2>2, EventCounted
  <2>4. Omitted' = Omitted
    BY <1>2, <1>3, <2>3 DEF Omitted
  <2> QED BY <1>1, <2>1, <2>3, <2>4 DEF CountInv
<1> QED BY <1>6, <1>7

\* The other steps leave the stream and the count alone, or stop the capture.
LEMMA OthersCount ==
  ASSUME PipelineInv, CountInv,
         Sleep \/ Exit \/ BeginUpdate \/ Drain \/ EndDrain \/ Render \/ UNCHANGED vars
  PROVE  CountInv'
<1>1. UNCHANGED <<produced, batch, dropped>>
  BY DEF Sleep, Exit, BeginUpdate, Drain, EndDrain, Render, vars, capture
<1>2. stopped' \/ (stopped' = stopped /\ Stream' = Stream)
  <2>1. CASE Drain
    BY <2>1, MoveHead DEF Drain, Stream, PipelineInv, TypeOK
  <2>2. CASE Render
    BY <2>2 DEF Render, Stream
  <2>3. CASE Sleep \/ Exit \/ BeginUpdate \/ EndDrain \/ UNCHANGED vars
    BY <2>3 DEF Sleep, Exit, BeginUpdate, EndDrain, vars, capture, Stream
  <2> QED BY <2>1, <2>2, <2>3
<1>3. Handled' = Handled
  BY <1>1 DEF Handled
<1> QED BY <1>1, <1>2, <1>3 DEF CountInv, Omitted

-----------------------------------------------------------------------------
\* The invariant of the capture thread, the display queue and the window.
THEOREM PipelineInvariant == Spec => []PipelineInv
<1>1. Init => PipelineInv
  <2> SUFFICES ASSUME Init PROVE PipelineInv
    OBVIOUS
  <2>1. TypeOK
    <3>1. /\ 0 \in 0..MaxEvents /\ 0 \in 0..0 /\ Len(<<>>) <= Capacity
          /\ <<>> \in Seq(Items) /\ <<>> \in Seq(1..0)
      BY PipelineAssumption
    <3> QED BY <3>1, BudgetBounds DEF Init, TypeOK
  <2>2. Stream = <<>> /\ Handled = 0
    <3>1. shown = <<>> /\ queue = <<>> /\ batch = <<>> /\ produced = 0
      BY DEF Init
    <3>2. <<>> \o <<>> = <<>> /\ Len(<<>>) = 0
      OBVIOUS
    <3>3. 0 - 0 = 0
      OBVIOUS
    <3> QED BY <3>1, <3>2, <3>3, Zenon DEF Stream, Handled
  <2>3. BatchShape
    BY <2>2 DEF Init, BatchShape
  <2> QED BY <2>1, <2>2, <2>3 DEF PipelineInv, StreamBelow, ShownInOrder
<1>2. PipelineInv /\ [Next]_vars => PipelineInv'
  BY IterateKeeps, SendKeeps, DrainKeeps, RenderKeeps, OthersKeep
  DEF Next, Worker, Gui, UserInput, ServeRepaint
<1> QED BY <1>1, <1>2, PTL DEF Spec

\* For any capacities the display queue is never longer than its channel, and no
\* omission is counted that is not an event of the capture.
THEOREM PipelineTypes == Spec => []TypeOK
<1>1. PipelineInv => TypeOK
  BY DEF PipelineInv
<1> QED BY <1>1, PipelineInvariant, PTL

\* However queue, omissions and drains interleave, the window applies the events
\* once and in the order they were captured.
THEOREM WindowInOrder == Spec => []ShownInOrder
<1>1. PipelineInv => ShownInOrder
  BY DEF PipelineInv
<1> QED BY <1>1, PipelineInvariant, PTL
\* While a capture runs, an event it collected is in the channel, in the batch, or
\* counted once: by a report in the channel or by the thread's own count.  This is
\* what "reports omitted display events" (README.md:127-129) rests on.
THEOREM OmissionsCounted == Spec => []OmissionsExact
<1>1. Init => CountInv
  <2> SUFFICES ASSUME Init PROVE CountInv
    OBVIOUS
  <2>1. shown = <<>> /\ queue = <<>> /\ batch = <<>> /\ produced = 0 /\ dropped = 0
    BY DEF Init
  <2>2. Stream = <<>> /\ Handled = 0
    <3>1. <<>> \o <<>> = <<>> /\ Len(<<>>) = 0 /\ 0 - 0 = 0
      OBVIOUS
    <3> QED BY <2>1, <3>1, Zenon DEF Stream, Handled
  <2>3. Omitted = {}
    BY <2>2 DEF Omitted
  <2>4. OmissionsIn(Stream) = 0
    BY <2>2, OmissionsEmpty
  <2>5. Cardinality(Omitted) = 0
    BY <2>3, FS_EmptySet
  <2> QED BY <2>1, <2>4, <2>5 DEF CountInv
<1>2. PipelineInv /\ CountInv /\ [Next]_vars => CountInv'
  BY IterateCounts, SendCounts, OthersCount
  DEF Next, Worker, Gui, UserInput, ServeRepaint
<1>3. PipelineInv /\ CountInv => OmissionsExact
  BY OmittedExactly DEF CountInv, OmissionsExact
<1> QED BY <1>1, <1>2, <1>3, PipelineInvariant, PTL DEF Spec
=============================================================================
