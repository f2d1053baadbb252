------------------------- MODULE EvdevSource_proofs -------------------------
(***************************************************************************)
(* The safety properties of EvdevSource for frames, kernel buffers and     *)
(* moduli of any size.  Everything the source has not yet made a batch of  *)
(* is one line of items, over which the buffers and the locals of          *)
(* read_batches only move their borders.  The invariant says how the items *)
(* of the line follow each other, and how the line continues what the      *)
(* caller has seen.                                                        *)
(***************************************************************************)
EXTENDS EvdevSource, TLAPS, SequenceTheorems, WellFoundedInduction

Join(p, q) == p \o q
Line == Join(pending, Join(events, Join(fetched, ring)))

LastItem == IF part > 0 THEN Native(frame, part) ELSE Report(frame - 1)
NextItem == IF part < FrameLen THEN Native(frame, part + 1) ELSE Report(frame)

\* b may stand directly behind a.
Follows(a, b) ==
  \/ a = Dropped
  \/ b = Dropped
  \/ /\ a.kind = "native"
     /\ b = IF a.index < FrameLen THEN Native(a.frame, a.index + 1) ELSE Report(a.frame)
  \/ a.kind = "report" /\ b = Native(a.frame + 1, 1)

\* b may stand anywhere behind a.
Later(a, b) ==
  \/ a = Dropped
  \/ b = Dropped
  \/ a.frame < b.frame
  \/ a.frame = b.frame /\ a.kind = "native"

Chain(q) ==
  /\ \A i \in DOMAIN q : i + 1 \in DOMAIN q => Follows(q[i], q[i + 1])
  /\ \A i, j \in DOMAIN q : i < j => Later(q[i], q[j])

Behind(q, item) == \A i \in DOMAIN q : Later(q[i], item)

LineInv ==
  /\ Chain(Line)
  /\ Behind(Line, NextItem)
  /\ Line # <<>> => Line[Len(Line)] = LastItem

\* pending holds neighbours of one frame.
PendingInv ==
  \A n \in DOMAIN pending :
    pending[n] = Native(pending[1].frame, pending[1].index + n - 1)

\* What the caller gets, were the call to return now.
Out == log \o batches

Whole(b) == Len(b.events) = FrameLen
Tailing(b) == \A n \in DOMAIN b.events :
                b.events[n] = Native(FrameOf(b), FrameLen - Len(b.events) + n)

\* The returned batches, in order and with every gap reported.
OutOK(out) ==
  /\ \A i \in DOMAIN out : out[i] # Lost => out[i].events # <<>> /\ Tailing(out[i])
  /\ \A i, j \in DOMAIN out :
       i < j /\ out[i] # Lost /\ out[j] # Lost => FrameOf(out[i]) < FrameOf(out[j])
  /\ 1 \in DOMAIN out /\ out[1] # Lost => FrameOf(out[1]) = 1
  /\ \A i \in DOMAIN out :
       i + 1 \in DOMAIN out /\ out[i] # Lost /\ out[i + 1] # Lost =>
         /\ FrameOf(out[i + 1]) = FrameOf(out[i]) + 1
         /\ out[i + 1].sequence = (out[i].sequence + 1) % SeqModulus

\* The line holds only frames the caller has not got.
OutBelow(out, q, f) ==
  \A i \in DOMAIN out : out[i] # Lost =>
    /\ FrameOf(out[i]) < f
    /\ \A j \in DOMAIN q : q[j] = Dropped \/ FrameOf(out[i]) < q[j].frame

\* Unless a loss was just reported, the line continues with the next frame.
Start(q, e) == IF q = <<>> THEN frame = e /\ part = 0
               ELSE q[1] = Dropped \/ q[1] = Native(e, 1)
Continues(out, q) ==
  /\ out = <<>> => Start(q, 1)
  /\ out # <<>> /\ out[Len(out)] # Lost =>
       /\ Start(q, FrameOf(out[Len(out)]) + 1)
       /\ out[Len(out)].sequence = sequence

OutInv == OutOK(Out) /\ OutBelow(Out, Line, frame) /\ Continues(Out, Line)

\* With a crate that yields whole frames, so does the line.
SplitInv ==
  ~split =>
    /\ events # <<>> => events[Len(events)].kind = "report"
    /\ events = <<>> => pending = <<>>
    /\ IF Line = <<>> THEN part = 0 ELSE Line[1] = Dropped \/ Line[1].index = 1
    /\ \A i \in DOMAIN Out : Out[i] # Lost => Whole(Out[i])

FrameInv == TypeOK /\ LineInv /\ PendingInv /\ OutInv /\ SplitInv

-----------------------------------------------------------------------------
(* Items and sequences.                                                    *)

LEMMA ItemTypes ==
  ASSUME NEW a \in Items
  PROVE  \/ /\ a.kind = "native" /\ a \in Natives /\ a.frame \in 1..MaxFrames
            /\ a.index \in 1..FrameLen /\ a = Native(a.frame, a.index) /\ a # Dropped
         \/ /\ a.kind = "report" /\ a.frame \in 1..MaxFrames /\ a.index = 0
            /\ a = Report(a.frame) /\ a # Dropped
         \/ a.kind = "dropped" /\ a = Dropped
  BY DEF Items, Natives, Native, Report, Dropped

LEMMA EmptyTyped ==
  ASSUME NEW S
  PROVE  <<>> \in Seq(S) /\ Len(<<>>) = 0
  OBVIOUS

LEMMA JoinTyped ==
  \A p, q \in Seq(Items) : Join(p, q) \in Seq(Items)
  BY DEF Join

LEMMA JoinAssoc ==
  \A p, q, r \in Seq(Items) : Join(Join(p, q), r) = Join(p, Join(q, r))
  BY DEF Join

LEMMA JoinEmpty ==
  \A q \in Seq(Items) : Join(<<>>, q) = q /\ Join(q, <<>>) = q
  BY DEF Join

LEMMA JoinAppend ==
  \A p, q \in Seq(Items), item \in Items : Join(p, Append(q, item)) = Append(Join(p, q), item)
  BY DEF Join

LEMMA MoveHead ==
  ASSUME NEW p \in Seq(Items), NEW q \in Seq(Items), q # <<>>
  PROVE  /\ Join(Append(p, Head(q)), Tail(q)) = Join(p, q)
         /\ Head(q) \in Items /\ Tail(q) \in Seq(Items) /\ Head(q) = q[1]
         /\ Append(p, Head(q)) \in Seq(Items)
  BY DEF Join

\* Moving the head of the second of three sequences to the first.
LEMMA MoveHeadOfThree ==
  ASSUME NEW p \in Seq(Items), NEW q \in Seq(Items), NEW r \in Seq(Items), q # <<>>
  PROVE  /\ Join(Tail(q), r) \in Seq(Items)
         /\ Join(Join(p, q), r) = Join(Append(p, Head(q)), Join(Tail(q), r))
<1>1. PICK t \in Seq(Items), u \in Seq(Items) :
         t = Append(p, Head(q)) /\ u = Tail(q) /\ Join(t, u) = Join(p, q)
  BY MoveHead
<1>2. Join(Join(t, u), r) = Join(t, Join(u, r)) /\ Join(u, r) \in Seq(Items)
  BY JoinAssoc, JoinTyped
<1> QED BY <1>1, <1>2

\* A pair joined behind a sequence.
LEMMA JoinPair ==
  ASSUME NEW p \in Seq(Items), NEW a \in Items, NEW b \in Items
  PROVE  /\ <<a, b>> \in Seq(Items)
         /\ Join(p, <<a, b>>) = Append(Append(p, a), b)
<1>1. <<>> \in Seq(Items) /\ Append(<<>>, a) \in Seq(Items)
      /\ <<a, b>> \in Seq(Items) /\ <<a, b>> = Append(Append(<<>>, a), b)
  BY EmptyTyped
<1>2. PICK empty \in Seq(Items), one \in Seq(Items) : empty = <<>> /\ one = Append(<<>>, a)
  BY <1>1, Zenon
<1>3. Join(p, Append(one, b)) = Append(Join(p, one), b)
  BY JoinAppend, Zenon
<1>4. Join(p, Append(empty, a)) = Append(Join(p, empty), a)
  BY JoinAppend, Zenon
<1>5. Join(p, <<>>) = p
  BY JoinEmpty, Zenon
<1> QED BY <1>1, <1>2, <1>3, <1>4, <1>5, Zenon

LEMMA BelowTop ==
  ASSUME NEW n \in Nat, NEW i \in 1..(n + 1), i # n + 1
  PROVE  i \in 1..n
  OBVIOUS

\* The items of a join.
LEMMA JoinItems ==
  ASSUME NEW p \in Seq(Items), NEW q \in Seq(Items)
  PROVE  /\ DOMAIN p = 1..Len(p) /\ DOMAIN q = 1..Len(q)
         /\ Len(p) \in Nat /\ Len(q) \in Nat
         /\ DOMAIN Join(p, q) = 1..(Len(p) + Len(q)) /\ Len(Join(p, q)) = Len(p) + Len(q)
         /\ \A i \in DOMAIN p : i \in DOMAIN Join(p, q) /\ Join(p, q)[i] = p[i]
         /\ \A j \in DOMAIN q : /\ Len(p) + j \in DOMAIN Join(p, q)
                                /\ Join(p, q)[Len(p) + j] = q[j]
         /\ p # <<>> => Len(p) > 0
         /\ q # <<>> => Len(q) > 0
  BY DEF Join

LEMMA JoinLater ==
  ASSUME NEW p \in Seq(Items), NEW q \in Seq(Items), NEW j \in DOMAIN q
  PROVE  \E i \in DOMAIN Join(p, q) : Join(p, q)[i] = q[j]
<1>1. Len(p) + j \in DOMAIN Join(p, q) /\ Join(p, q)[Len(p) + j] = q[j]
  BY JoinItems
<1> QED BY <1>1

LEMMA JoinFirst ==
  ASSUME NEW p \in Seq(Items), NEW q \in Seq(Items), p # <<>>
  PROVE  Join(p, q) # <<>> /\ Join(p, q)[1] = p[1]
  BY DEF Join

LEMMA CutInTwo ==
  ASSUME NEW q \in Seq(Items), NEW n \in 0..Len(q)
  PROVE  /\ SubSeq(q, 1, n) \in Seq(Items) /\ SubSeq(q, n + 1, Len(q)) \in Seq(Items)
         /\ Join(SubSeq(q, 1, n), SubSeq(q, n + 1, Len(q))) = q
         /\ Len(SubSeq(q, 1, n)) = n
         /\ n > 0 => SubSeq(q, 1, n)[n] = q[n]
<1> DEFINE front == SubSeq(q, 1, n)
           back == SubSeq(q, n + 1, Len(q))
<1>1. front \in Seq(Items) /\ Len(front) = n /\ \A i \in 1..n : front[i] = q[i]
  OBVIOUS
<1>2. /\ back \in Seq(Items) /\ Len(back) = Len(q) - n
      /\ \A i \in 1..(Len(q) - n) : back[i] = q[n + i]
  OBVIOUS
<1> HIDE DEF front, back
<1>3. front \o back \in Seq(Items) /\ Len(front \o back) = Len(q)
  <2>1. front \o back \in Seq(Items) /\ Len(front \o back) = Len(front) + Len(back)
    <3>1. front \in Seq(Items) /\ back \in Seq(Items)
      BY <1>1, <1>2
    <3> QED BY <3>1, ConcatProperties
  <2>2. n + (Len(q) - n) = Len(q)
    OBVIOUS
  <2> QED BY <1>1, <1>2, <2>1, <2>2
<1>4. ASSUME NEW i \in 1..Len(q) PROVE (front \o back)[i] = q[i]
  <2>1. CASE i <= n
    BY <1>1, <1>2, <2>1
  <2>2. CASE i > n
    <3>1. i - n \in 1..(Len(q) - n) /\ i = n + (i - n)
      BY <2>2
    <3>2. (front \o back)[i] = back[i - n]
      BY <1>1, <1>2, <2>2, <3>1
    <3> QED BY <1>2, <3>1, <3>2
  <2>3. i <= n \/ i > n
    <3>1. i \in Nat /\ n \in Nat
      OBVIOUS
    <3> QED BY <3>1
  <2> QED BY <2>1, <2>2, <2>3
<1>5. front \o back = q
  BY <1>3, <1>4, SeqEqual
<1>6. n > 0 => front[n] = q[n]
  BY <1>1
<1> QED BY <1>1, <1>2, <1>5, <1>6 DEF front, back, Join

\* The last report of a sequence is one of its items.
LEMMA LastReport ==
  ASSUME NEW q \in Seq(Items)
  PROVE  /\ UpToLastReport(q) \in 0..Len(q)
         /\ UpToLastReport(q) > 0 => q[UpToLastReport(q)].kind = "report"
<1> DEFINE reports == {i \in DOMAIN q : q[i].kind = "report"}
           distances == {Len(q) - i : i \in reports}
<1>1. CASE reports = {}
  BY <1>1 DEF UpToLastReport
<1>2. CASE reports # {}
  <2>1. distances \subseteq Nat /\ distances # {}
    BY <1>2
  <2>2. IsWellFoundedOn(OpToRel(<, Nat), Nat)
    BY NatLessThanWellFounded
  <2>3. PICK d \in distances : \A e \in distances : ~(<<e, d>> \in OpToRel(<, Nat))
    BY <2>1, <2>2, WFMin
  <2>4. OpToRel(<, Nat) = {p \in Nat \X Nat : p[1] < p[2]}
    BY DEF OpToRel
  <2>5. \A e \in distances : e \in Nat /\ d \in Nat /\ ~(e < d)
    BY <2>1, <2>3, <2>4
  <2>6. PICK i \in reports : d = Len(q) - i
    BY <2>3
  <2>7. ASSUME NEW j \in reports PROVE j <= i
    <3>1. Len(q) - j \in distances /\ Len(q) - i \in distances
      OBVIOUS
    <3>2. ~(Len(q) - j < Len(q) - i)
      BY <2>5, <2>6, <3>1
    <3> QED BY <3>2
  <2>8. UpToLastReport(q) \in reports
    BY <1>2, <2>6, <2>7 DEF UpToLastReport
  <2> QED BY <2>8
<1> QED BY <1>1, <1>2

\* The chain of a line's end, and what joins it to the part before.
LEMMA SuffixChain ==
  ASSUME NEW p \in Seq(Items), NEW q \in Seq(Items), Chain(Join(p, q))
  PROVE  /\ Chain(q)
         /\ p # <<>> /\ q # <<>> => Follows(p[Len(p)], q[1])
         /\ \A i \in DOMAIN p, j \in DOMAIN q : Later(p[i], q[j])
<1>1. ASSUME NEW i \in DOMAIN q, i + 1 \in DOMAIN q PROVE Follows(q[i], q[i + 1])
  <2>1. Len(p) + i \in DOMAIN Join(p, q) /\ Len(p) + (i + 1) \in DOMAIN Join(p, q)
        /\ Join(p, q)[Len(p) + (i + 1)] = q[i + 1] /\ Join(p, q)[Len(p) + i] = q[i]
    BY <1>1, JoinItems
  <2>2. Len(p) + (i + 1) = (Len(p) + i) + 1
    BY JoinItems
  <2> QED BY <2>1, <2>2 DEF Chain
<1>2. ASSUME NEW i \in DOMAIN q, NEW j \in DOMAIN q, i < j PROVE Later(q[i], q[j])
  <2>1. Len(p) + i < Len(p) + j /\ Len(p) + i \in DOMAIN Join(p, q) /\ Len(p) + j \in DOMAIN Join(p, q)
        /\ Join(p, q)[Len(p) + i] = q[i] /\ Join(p, q)[Len(p) + j] = q[j]
    BY <1>2, JoinItems
  <2> QED BY <2>1 DEF Chain
<1>3. ASSUME p # <<>>, q # <<>> PROVE Follows(p[Len(p)], q[1])
  <2>1. Len(p) \in DOMAIN Join(p, q) /\ Len(p) + 1 \in DOMAIN Join(p, q)
        /\ Join(p, q)[Len(p)] = p[Len(p)] /\ Join(p, q)[Len(p) + 1] = q[1]
    BY <1>3, JoinItems
  <2> QED BY <2>1 DEF Chain
<1>4. ASSUME NEW i \in DOMAIN p, NEW j \in DOMAIN q PROVE Later(p[i], q[j])
  <2>1. i \in DOMAIN Join(p, q) /\ Join(p, q)[i] = p[i]
    BY JoinItems
  <2>2. Len(p) + j \in DOMAIN Join(p, q) /\ Join(p, q)[Len(p) + j] = q[j]
    BY JoinItems
  <2>3. i \in 1..Len(p) /\ j \in 1..Len(q) /\ Len(p) \in Nat /\ Len(q) \in Nat
    BY JoinItems
  <2>4. i < Len(p) + j
    BY <2>3
  <2> QED BY <2>1, <2>2, <2>4 DEF Chain
<1> QED BY <1>1, <1>2, <1>3, <1>4 DEF Chain

LEMMA PrefixChain ==
  ASSUME NEW p \in Seq(Items), NEW q \in Seq(Items), Chain(Join(p, q))
  PROVE  Chain(p)
<1>1. \A i \in DOMAIN p : i \in DOMAIN Join(p, q) /\ Join(p, q)[i] = p[i]
  BY JoinItems
<1> QED BY <1>1 DEF Chain

LEMMA AppendChain ==
  ASSUME NEW q \in Seq(Items), NEW item \in Items, Chain(q), Behind(q, item),
         q # <<>> => Follows(q[Len(q)], item)
  PROVE  Chain(Append(q, item))
<1>1. /\ DOMAIN Append(q, item) = 1..(Len(q) + 1) /\ DOMAIN q = 1..Len(q) /\ Len(q) \in Nat
      /\ Append(q, item)[Len(q) + 1] = item
      /\ \A i \in DOMAIN q : Append(q, item)[i] = q[i]
      /\ Len(q) > 0 => q # <<>>
  OBVIOUS
<1> QED BY <1>1 DEF Chain, Behind

-----------------------------------------------------------------------------
(* Types.                                                                  *)

LEMMA NextItemTyped ==
  ASSUME TypeOK, frame <= MaxFrames
  PROVE  NextItem \in Items /\ NextItem # Dropped
<1>1. frame \in 1..MaxFrames
  BY FrameAssumption DEF TypeOK
<1>2. CASE part < FrameLen
  <2>1. part + 1 \in 1..FrameLen
    BY <1>2, FrameAssumption DEF TypeOK
  <2> QED BY <1>1, <1>2, <2>1 DEF NextItem, Items, Native, Dropped
<1>3. CASE ~(part < FrameLen)
  BY <1>1, <1>3 DEF NextItem, Items, Report, Dropped
<1> QED BY <1>2, <1>3

\* Write queues the next item of the frame, behind what is queued or a marker.
LEMMA WriteQueues ==
  ASSUME TypeOK, Write
  PROVE  /\ frame <= MaxFrames
         /\ \/ Len(ring) < RingSize /\ ring' = Append(ring, NextItem)
            \/ ring' = <<Dropped, NextItem>>
         /\ \/ part < FrameLen /\ part' = part + 1 /\ frame' = frame
            \/ part = FrameLen /\ part' = 0 /\ frame' = frame + 1
         /\ UNCHANGED <<fetched, split, pending, sequence, pc, events, batches, log>>
<1>1. Len(ring) \in Nat /\ Len(ring) <= RingSize /\ part \in 0..FrameLen
  BY DEF TypeOK
<1>2. part < FrameLen \/ part = FrameLen
  BY <1>1, FrameAssumption
<1>3. Len(ring) < RingSize \/ Len(ring) = RingSize
  BY <1>1, FrameAssumption
<1> QED BY <1>2, <1>3 DEF Write, Queue, NextItem

LEMMA TypesKept ==
  ASSUME TypeOK, [Next]_vars
  PROVE  TypeOK'
<1> USE FrameAssumption
<1>1. CASE Write
  <2>1. NextItem \in Items /\ Dropped \in Items
    BY <1>1, NextItemTyped DEF Write, Items
  <2>2. ring' \in Seq(Items) /\ Len(ring') <= RingSize
    <3>1. CASE Len(ring) < RingSize /\ ring' = Append(ring, NextItem)
      BY <2>1, <3>1 DEF TypeOK
    <3>2. CASE ring' = <<Dropped, NextItem>>
      <4>1. <<Dropped, NextItem>> \in Seq(Items) /\ Len(<<Dropped, NextItem>>) = 2
        BY <2>1
      <4>2. 2 <= RingSize
        OBVIOUS
      <4> QED BY <3>2, <4>1, <4>2
    <3> QED BY <1>1, <3>1, <3>2, WriteQueues
  <2>3. frame' \in 1..MaxFrames + 1 /\ part' \in 0..FrameLen
    <3>1. frame \in 1..MaxFrames + 1 /\ part \in 0..FrameLen
      BY DEF TypeOK
    <3>2. /\ frame <= MaxFrames
          /\ \/ part < FrameLen /\ part' = part + 1 /\ frame' = frame
             \/ part = FrameLen /\ part' = 0 /\ frame' = frame + 1
      BY <1>1, WriteQueues
    <3> QED BY <3>1, <3>2
  <2> QED BY <1>1, <2>2, <2>3, WriteQueues DEF TypeOK
<1>2. CASE Begin
  BY <1>2 DEF Begin, TypeOK, kernel
<1>3. CASE Copy
  <2>1. ring \in Seq(Items) /\ ring # <<>>
    <3>1. ring \in Seq(Items) /\ UpToLastReport(ring) > 0
      BY <1>3 DEF Copy, TypeOK
    <3>2. Len(ring) > 0
      BY <3>1, LastReport
    <3>3. ring # <<>>
      BY <3>2, EmptyTyped
    <3> QED BY <3>1, <3>3
  <2>2. Head(ring) \in Items /\ Tail(ring) \in Seq(Items) /\ Len(Tail(ring)) <= RingSize
    BY <2>1 DEF TypeOK
  <2>3. Append(fetched, Head(ring)) \in Seq(Items)
    BY <2>2 DEF TypeOK
  <2> QED BY <1>3, <2>2, <2>3 DEF Copy, TypeOK
<1>4. CASE Collect
  <2> DEFINE n == IF split THEN Len(fetched) ELSE UpToLastReport(fetched)
  <2>1. fetched \in Seq(Items) /\ n \in 0..Len(fetched)
    BY LastReport DEF TypeOK
  <2>2. events' = SubSeq(fetched, 1, n) /\ fetched' = SubSeq(fetched, n + 1, Len(fetched))
    BY <1>4 DEF Collect
  <2> HIDE DEF n
  <2>3. events' \in Seq(Items) /\ fetched' \in Seq(Items)
    BY <2>1, <2>2, CutInTwo
  <2> QED BY <1>4, <2>3 DEF Collect, TypeOK, kernel
<1>5. ASSUME At("native") \/ At("report") \/ At("dropped")
      PROVE  Head(events) \in Items /\ Tail(events) \in Seq(Items) /\ pc = "scan"
  BY <1>5 DEF At, TypeOK
<1>6. CASE PushNative
  <2>1. Head(events) \in Natives
    BY <1>5, <1>6, ItemTypes DEF PushNative, At
  <2>2. Append(pending, Head(events)) \in Seq(Natives)
    BY <2>1 DEF TypeOK
  <2> QED BY <1>5, <1>6, <2>2 DEF PushNative, TypeOK, kernel
<1>7. CASE EmptyReport
  BY <1>5, <1>7 DEF EmptyReport, TypeOK, kernel
<1>8. CASE CloseFrame
  <2>1. NextSequence \in 0..SeqModulus - 1
    BY DEF NextSequence, TypeOK
  <2>2. [sequence |-> NextSequence, events |-> pending] \in Batches
    BY <2>1 DEF Batches, TypeOK
  <2>3. batches' \in Seq(Batches)
    BY <1>8, <2>2 DEF CloseFrame, TypeOK
  <2>4. pending' \in Seq(Natives)
    BY <1>8, EmptyTyped DEF CloseFrame
  <2> QED BY <1>5, <1>8, <2>1, <2>3, <2>4 DEF CloseFrame, TypeOK, kernel
<1>9. CASE SyncLost
  <2>1. Lost \in Batches
    BY EmptyTyped DEF Lost, Batches
  <2>2. log' \in Seq(Batches)
    BY <1>9, <2>1 DEF SyncLost, FailRead, TypeOK
  <2> QED BY <1>9, <2>2, EmptyTyped DEF SyncLost, FailRead, TypeOK, kernel
<1>10. CASE Return
  <2>1. log' \in Seq(Batches)
    BY <1>10 DEF Return, TypeOK
  <2> QED BY <1>10, <2>1, EmptyTyped DEF Return, TypeOK, kernel
<1>11. CASE UNCHANGED vars
  BY <1>11 DEF vars, TypeOK
<1> QED BY <1>1, <1>2, <1>3, <1>4, <1>6, <1>7, <1>8, <1>9, <1>10, <1>11
        DEF Next, ReadStep

-----------------------------------------------------------------------------
(* What each step does to the line.                                        *)
LEMMA Parts ==
  ASSUME TypeOK
  PROVE  /\ pending \in Seq(Items) /\ events \in Seq(Items)
         /\ fetched \in Seq(Items) /\ ring \in Seq(Items)
         /\ Join(fetched, ring) \in Seq(Items)
         /\ Join(events, Join(fetched, ring)) \in Seq(Items)
         /\ Line \in Seq(Items)
         /\ Join(pending, events) \in Seq(Items)
         /\ Line = Join(Join(pending, events), Join(fetched, ring))
<1>1. /\ pending \in Seq(Items) /\ events \in Seq(Items)
      /\ fetched \in Seq(Items) /\ ring \in Seq(Items)
  BY DEF TypeOK, Items, Natives
<1>2. Join(fetched, ring) \in Seq(Items)
  BY <1>1, JoinTyped
<1>3. Join(events, Join(fetched, ring)) \in Seq(Items) /\ Join(pending, events) \in Seq(Items)
  BY <1>1, <1>2, JoinTyped
<1>4. Line \in Seq(Items)
  BY <1>1, <1>3, JoinTyped DEF Line
<1>5. Line = Join(Join(pending, events), Join(fetched, ring))
  BY <1>1, <1>2, JoinAssoc DEF Line
<1> QED BY <1>1, <1>2, <1>3, <1>4, <1>5

\* The loop takes the item behind pending.
LEMMA LineSplit ==
  ASSUME TypeOK, events # <<>>
  PROVE  LET rest == Join(Tail(events), Join(fetched, ring))
             taken == Append(pending, Head(events))
         IN /\ rest \in Seq(Items) /\ taken \in Seq(Items)
            /\ Head(events) \in Items /\ Tail(events) \in Seq(Items)
            /\ Line = Join(taken, rest)
            /\ Head(events) = events[1]
<1>1. /\ Head(events) \in Items /\ Tail(events) \in Seq(Items) /\ Head(events) = events[1]
      /\ Append(pending, Head(events)) \in Seq(Items)
  BY Parts, MoveHead
<1>2. /\ Join(Tail(events), Join(fetched, ring)) \in Seq(Items)
      /\ Join(Join(pending, events), Join(fetched, ring))
           = Join(Append(pending, Head(events)), Join(Tail(events), Join(fetched, ring)))
  BY Parts, MoveHeadOfThree
<1>3. Line = Join(Join(pending, events), Join(fetched, ring))
  BY Parts
<1> QED BY <1>1, <1>2, <1>3

\* A step of read_batches that only moves a border within the line.
LEMMA LineKept ==
  ASSUME TypeOK, Begin \/ Copy \/ Collect \/ PushNative \/ Return \/ UNCHANGED vars
  PROVE  Line' = Line
<1> USE Parts
<1>1. CASE Begin \/ Return \/ UNCHANGED vars
  BY <1>1 DEF Begin, Return, vars, kernel, Line
<1>2. CASE Copy
  <2>1. ring # <<>>
    <3>1. UpToLastReport(ring) > 0
      BY <1>2 DEF Copy
    <3>2. Len(ring) > 0
      BY <3>1, LastReport
    <3> QED BY <3>2, EmptyTyped
  <2>2. Join(fetched', ring') = Join(fetched, ring)
    BY <1>2, <2>1, MoveHead DEF Copy
  <2> QED BY <1>2, <2>2 DEF Copy, Line
<1>3. CASE Collect
  <2> DEFINE n == IF split THEN Len(fetched) ELSE UpToLastReport(fetched)
             front == SubSeq(fetched, 1, n)
             back == SubSeq(fetched, n + 1, Len(fetched))
  <2>1. n \in 0..Len(fetched)
    BY LastReport
  <2>2. /\ events' = front /\ fetched' = back
        /\ ring' = ring /\ pending' = pending /\ events = <<>>
    BY <1>3 DEF Collect, TypeOK, kernel
  <2> HIDE DEF n
  <2>3. front \in Seq(Items) /\ back \in Seq(Items) /\ Join(front, back) = fetched
    BY <2>1, CutInTwo
  <2> HIDE DEF front, back
  <2>4. Join(Join(front, back), ring) = Join(front, Join(back, ring))
    BY <2>3, JoinAssoc
  <2>5. Join(events, Join(fetched, ring)) = Join(fetched, ring)
    BY <2>2, JoinEmpty
  <2> QED BY <2>2, <2>3, <2>4, <2>5 DEF Line
<1>4. CASE PushNative
  <2>1. events # <<>>
    BY <1>4 DEF PushNative, At
  <2> QED BY <1>4, <2>1, LineSplit DEF PushNative, Line, kernel
<1> QED BY <1>1, <1>2, <1>3, <1>4

\* The kernel appends the next item, or marks the loss of its buffer first.
LEMMA LineWritten ==
  ASSUME TypeOK, Write
  PROVE  \/ Line' = Append(Line, NextItem)
         \/ \E p, q \in Seq(Items) :
              Line = Join(p, q) /\ Line' = Append(Append(p, Dropped), NextItem)
<1> USE Parts
<1>1. NextItem \in Items /\ Dropped \in Items
  BY NextItemTyped DEF Write, Items
<1>2. CASE ring' = Append(ring, NextItem)
  <2>1. Join(fetched, Append(ring, NextItem)) = Append(Join(fetched, ring), NextItem)
    BY <1>1, JoinAppend
  <2>2. Join(events, Append(Join(fetched, ring), NextItem))
          = Append(Join(events, Join(fetched, ring)), NextItem)
    <3>1. events \in Seq(Items) /\ Join(fetched, ring) \in Seq(Items) /\ NextItem \in Items
      BY <1>1
    <3> QED BY <3>1, JoinAppend, Zenon
  <2>3. Join(pending, Append(Join(events, Join(fetched, ring)), NextItem)) = Append(Line, NextItem)
    <3>1. pending \in Seq(Items) /\ Join(events, Join(fetched, ring)) \in Seq(Items)
          /\ NextItem \in Items
      BY <1>1
    <3> QED BY <3>1, JoinAppend, Zenon DEF Line
  <2> QED BY <1>2, <2>1, <2>2, <2>3, WriteQueues DEF Line
<1>3. CASE ring' = <<Dropped, NextItem>>
  <2> DEFINE q == Join(events, fetched)
             p == Join(pending, q)
             marked == <<Dropped, NextItem>>
  <2>1. q \in Seq(Items) /\ marked \in Seq(Items)
    BY <1>1, JoinTyped
  <2>2. p \in Seq(Items)
    BY <2>1, JoinTyped
  <2>3. marked = Append(Append(<<>>, Dropped), NextItem) /\ Append(<<>>, Dropped) \in Seq(Items)
    BY <1>1
  <2> HIDE DEF marked
  <2>4. Line = Join(p, ring)
    BY <2>1, JoinAssoc DEF Line
  <2>5. Line' = Join(p, marked)
    <3>1. Join(q, marked) = Join(events, Join(fetched, marked))
      BY <2>1, JoinAssoc
    <3>2. Join(p, marked) = Join(pending, Join(q, marked))
      BY <2>1, JoinAssoc
    <3> QED BY <1>3, <3>1, <3>2, WriteQueues DEF Line, marked
  <2> HIDE DEF p, q
  <2>6. Join(p, marked) = Append(Append(p, Dropped), NextItem)
    BY <1>1, <2>2, JoinPair DEF marked
  <2> QED BY <2>2, <2>4, <2>5, <2>6
<1> QED BY <1>2, <1>3, WriteQueues

-----------------------------------------------------------------------------
(* The line stays a chain.                                                 *)

LEMMA Fields ==
  /\ \A f, n : /\ Native(f, n).kind = "native" /\ Native(f, n).frame = f
               /\ Native(f, n).index = n /\ Native(f, n) # Dropped
  /\ \A f : /\ Report(f).kind = "report" /\ Report(f).frame = f
            /\ Report(f).index = 0 /\ Report(f) # Dropped
  /\ Dropped.kind = "dropped"
  BY DEF Native, Report, Dropped

LEMMA NextFields ==
  ASSUME TypeOK
  PROVE  /\ NextItem.frame = frame /\ NextItem # Dropped
         /\ NextItem.kind \in {"native", "report"}
  BY Fields DEF NextItem

\* What stood before the next item stands before the one after it.
LEMMA BehindWritten ==
  ASSUME TypeOK, Write,
         NEW a \in Items, a = NextItem \/ Later(a, NextItem)
  PROVE  Later(a, NextItem')
<1> USE FrameAssumption
<1>1. frame \in Nat /\ part \in Nat /\ (a = Dropped \/ a.frame \in Nat)
  <2>1. frame \in Nat /\ part \in Nat
    BY DEF TypeOK
  <2> QED BY <2>1, ItemTypes
<1>2. frame \in Nat
  BY DEF TypeOK
<1>3. CASE a = Dropped
  BY <1>3 DEF Later
<1>4. CASE a # Dropped /\ part < FrameLen
  <2>1. frame' = frame
    BY <1>4, WriteQueues
  <2>2. NextItem = Native(frame, part + 1) /\ NextItem.kind = "native"
    BY <1>4, Fields DEF NextItem
  <2>3. NextItem'.frame = frame
    BY <2>1, Fields DEF NextItem
  <2>4. a.frame < frame \/ (a.frame = frame /\ a.kind = "native")
    BY <1>4, <2>2, Fields DEF Later
  <2> QED BY <2>3, <2>4 DEF Later
<1>5. CASE a # Dropped /\ ~(part < FrameLen)
  <2>1. frame' = frame + 1 /\ part' = 0
    BY <1>5, WriteQueues
  <2>2. NextItem = Report(frame)
    BY <1>5 DEF NextItem
  <2>3. NextItem'.frame = frame + 1
    BY <2>1, Fields DEF NextItem
  <2>4. a.frame < frame \/ a.frame = frame
    BY <1>5, <2>2, Fields DEF Later
  <2>5. a.frame < frame + 1
    BY <1>2, <2>4, <1>1, <1>5
  <2> QED BY <2>3, <2>5 DEF Later
<1> QED BY <1>3, <1>4, <1>5

LEMMA LastFollowed ==
  ASSUME TypeOK
  PROVE  Follows(LastItem, NextItem)
<1> USE FrameAssumption
<1>1. frame \in Nat /\ part \in Nat
  BY DEF TypeOK
<1>2. CASE part > 0
  <2>1. LastItem = Native(frame, part)
    BY <1>2 DEF LastItem
  <2> QED BY <2>1, Fields DEF Follows, NextItem
<1>3. CASE ~(part > 0)
  <2>1. LastItem = Report(frame - 1) /\ NextItem = Native(frame, 1) /\ frame - 1 + 1 = frame
    BY <1>1, <1>3 DEF LastItem, NextItem
  <2> QED BY <2>1, Fields DEF Follows
<1> QED BY <1>2, <1>3

LEMMA LastWritten ==
  ASSUME TypeOK, Write
  PROVE  LastItem' = NextItem
<1>1. frame \in Nat /\ part \in Nat
  BY DEF TypeOK
<1>2. CASE part < FrameLen /\ part' = part + 1 /\ frame' = frame
  BY <1>1, <1>2 DEF LastItem, NextItem
<1>3. CASE part = FrameLen /\ part' = 0 /\ frame' = frame + 1
  BY <1>1, <1>3, FrameAssumption DEF LastItem, NextItem
<1> QED BY <1>2, <1>3, WriteQueues

LEMMA AppendItems ==
  ASSUME NEW q \in Seq(Items), NEW item \in Items
  PROVE  /\ Append(q, item) \in Seq(Items)
         /\ DOMAIN Append(q, item) = 1..(Len(q) + 1) /\ DOMAIN q = 1..Len(q) /\ Len(q) \in Nat
         /\ Append(q, item)[Len(q) + 1] = item /\ Len(Append(q, item)) = Len(q) + 1
         /\ \A i \in DOMAIN q : Append(q, item)[i] = q[i]
         /\ Append(q, item) # <<>>
         /\ q # <<>> => Len(q) > 0
  OBVIOUS

LEMMA LineInvWritten ==
  ASSUME TypeOK, LineInv, Write
  PROVE  LineInv'
<1>1. NextItem \in Items /\ Dropped \in Items /\ Line \in Seq(Items)
  BY NextItemTyped, Parts DEF Write, Items
<1>2. ASSUME NEW q \in Seq(Items), Behind(q, NextItem)
      PROVE  \A i \in DOMAIN Append(q, NextItem) : Later(Append(q, NextItem)[i], NextItem')
  <2> TAKE i \in DOMAIN Append(q, NextItem)
  <2>1. CASE i \in DOMAIN q
    <3>1. q[i] \in Items /\ Later(q[i], NextItem) /\ Append(q, NextItem)[i] = q[i]
      BY <1>1, <1>2, <2>1, AppendItems DEF Behind
    <3> QED BY <3>1, BehindWritten
  <2>2. CASE i \notin DOMAIN q
    <3>1. i = Len(q) + 1
      BY <1>1, <2>2, AppendItems
    <3> QED BY <1>1, <3>1, AppendItems, BehindWritten
  <2> QED BY <2>1, <2>2
<1>3. CASE Line' = Append(Line, NextItem)
  <2>1. Chain(Append(Line, NextItem))
    <3>1. Line # <<>> => Follows(Line[Len(Line)], NextItem)
      BY LastFollowed DEF LineInv
    <3> QED BY <1>1, <3>1, AppendChain DEF LineInv
  <2>2. Line'[Len(Line')] = NextItem
    BY <1>1, <1>3, AppendItems
  <2>3. Behind(Line', NextItem')
    BY <1>1, <1>2, <1>3 DEF LineInv, Behind
  <2> QED BY <1>3, <2>1, <2>2, <2>3, LastWritten DEF LineInv, Chain, Behind
<1>4. CASE \E p, q \in Seq(Items) :
             Line = Join(p, q) /\ Line' = Append(Append(p, Dropped), NextItem)
  <2>1. PICK p, q \in Seq(Items) :
             Line = Join(p, q) /\ Line' = Append(Append(p, Dropped), NextItem)
    BY <1>4
  <2> DEFINE marked == Append(p, Dropped)
  <2>2. marked \in Seq(Items) /\ marked[Len(marked)] = Dropped
    BY <1>1, AppendItems
  <2>3. Chain(marked)
    <3>1. Chain(p)
      BY <2>1, PrefixChain DEF LineInv
    <3>2. Behind(p, Dropped) /\ (p # <<>> => Follows(p[Len(p)], Dropped))
      BY DEF Behind, Later, Follows
    <3> QED BY <1>1, <3>1, <3>2, AppendChain
  <2>4. Behind(marked, NextItem)
    <3> SUFFICES ASSUME NEW i \in DOMAIN marked PROVE Later(marked[i], NextItem)
      BY DEF Behind
    <3>1. CASE i \in DOMAIN p
      <4>1. i \in DOMAIN Line /\ Line[i] = p[i]
        BY <2>1, <3>1, JoinItems
      <4>2. marked[i] = p[i]
        BY <1>1, <3>1, AppendItems
      <4> QED BY <4>1, <4>2 DEF LineInv, Behind
    <3>2. CASE i \notin DOMAIN p
      <4>1. marked[i] = Dropped
        BY <1>1, <3>2, AppendItems
      <4> QED BY <4>1 DEF Later
    <3> QED BY <3>1, <3>2
  <2> HIDE DEF marked
  <2>5. Chain(Append(marked, NextItem))
    <3>1. Follows(marked[Len(marked)], NextItem)
      BY <2>2 DEF Follows
    <3> QED BY <1>1, <2>2, <2>3, <2>4, <3>1, AppendChain
  <2>6. Line' = Append(marked, NextItem)
    BY <2>1 DEF marked
  <2>7. Line'[Len(Line')] = NextItem
    BY <1>1, <2>2, <2>6, AppendItems
  <2>8. Behind(Line', NextItem')
    BY <1>2, <2>2, <2>4, <2>6 DEF Behind
  <2> QED BY <2>5, <2>6, <2>7, <2>8, LastWritten DEF LineInv, Chain, Behind
<1> QED BY <1>3, <1>4, LineWritten

\* The source takes items off the front.
LEMMA LineInvTaken ==
  ASSUME TypeOK, LineInv, NEW p \in Seq(Items), NEW r \in Seq(Items),
         Line = Join(p, r), Line' = r, UNCHANGED <<frame, part>>
  PROVE  LineInv'
<1>1. Chain(r)
  BY SuffixChain DEF LineInv
<1>2. ASSUME NEW j \in DOMAIN r
      PROVE  Len(p) + j \in DOMAIN Line /\ Line[Len(p) + j] = r[j]
  BY JoinItems
<1>3. NextItem' = NextItem /\ LastItem' = LastItem
  BY DEF NextItem, LastItem
<1>4. \A j \in DOMAIN r : Later(r[j], NextItem)
  BY <1>2 DEF LineInv, Behind
<1>5. ASSUME r # <<>> PROVE r[Len(r)] = LastItem
  <2>1. Len(r) \in DOMAIN r /\ Len(Line) = Len(p) + Len(r)
    BY <1>5, JoinItems
  <2>2. Line[Len(Line)] = r[Len(r)] /\ Len(Line) > 0
    BY <2>1, <1>2, JoinItems
  <2>3. Line # <<>>
    BY <2>2, EmptyTyped
  <2> QED BY <2>2, <2>3 DEF LineInv
<1> QED BY <1>1, <1>3, <1>4, <1>5 DEF LineInv, Chain, Behind

\* Behind a frame's report comes the next frame, or a marker.
LEMMA AfterReport ==
  ASSUME TypeOK, LineInv, NEW p \in Seq(Items), NEW r \in Seq(Items),
         Line = Join(p, r), p # <<>>, NEW f \in Nat, p[Len(p)] = Report(f)
  PROVE  /\ Start(r, f + 1)
         /\ f < frame
         /\ \A j \in DOMAIN r : r[j] = Dropped \/ f < r[j].frame
<1>1. Len(p) \in DOMAIN p /\ Len(p) \in DOMAIN Line /\ Line[Len(p)] = Report(f)
  BY JoinItems
<1>2. f < frame
  <2>1. Later(Report(f), NextItem)
    BY <1>1 DEF LineInv, Behind
  <2> QED BY <2>1, NextFields, Fields DEF Later
<1>3. ASSUME NEW j \in DOMAIN r PROVE r[j] = Dropped \/ f < r[j].frame
  <2>1. Later(Report(f), r[j])
    BY <1>1, SuffixChain DEF LineInv
  <2> QED BY <2>1, Fields DEF Later
<1>4. CASE r = <<>>
  <2>1. Line = p
    BY <1>4, JoinEmpty
  <2>2. LastItem = Report(f)
    BY <2>1 DEF LineInv
  <2>3. part \in Nat /\ frame \in Nat
    BY FrameAssumption DEF TypeOK
  <2>4. part = 0 /\ frame - 1 = f
    BY <2>2, <2>3, Fields DEF LastItem
  <2> QED BY <1>2, <1>4, <2>3, <2>4 DEF Start
<1>5. CASE r # <<>>
  <2>1. Follows(Report(f), r[1])
    BY <1>5, SuffixChain DEF LineInv
  <2>2. r[1] = Dropped \/ r[1] = Native(f + 1, 1)
    BY <2>1, Fields DEF Follows
  <2> QED BY <1>2, <1>3, <1>5, <2>2 DEF Start
<1> QED BY <1>2, <1>3, <1>4, <1>5

-----------------------------------------------------------------------------
(* What the caller has got.                                                *)

LEMMA OutParts ==
  ASSUME TypeOK
  PROVE  /\ Out \in Seq(Batches) /\ log \in Seq(Batches) /\ batches \in Seq(Batches)
         /\ DOMAIN log = 1..Len(log) /\ DOMAIN Out = 1..Len(Out)
         /\ Len(log) \in Nat /\ Len(Out) \in Nat
         /\ \A i \in DOMAIN log : i \in DOMAIN Out /\ Out[i] = log[i]
  BY DEF TypeOK, Out

LEMMA OutPrefix ==
  ASSUME TypeOK, OutOK(Out)
  PROVE  OutOK(log)
<1>1. \A i \in DOMAIN log : i \in DOMAIN Out /\ Out[i] = log[i]
  BY OutParts
<1> QED BY <1>1 DEF OutOK

LEMMA BatchAppended ==
  ASSUME NEW out \in Seq(Batches), NEW b \in Batches
  PROVE  /\ Append(out, b) # <<>> /\ Len(Append(out, b)) = Len(out) + 1 /\ Len(out) \in Nat
         /\ DOMAIN out = 1..Len(out) /\ DOMAIN Append(out, b) = 1..(Len(out) + 1)
         /\ \A i \in DOMAIN out : Append(out, b)[i] = out[i]
         /\ Append(out, b)[Len(out) + 1] = b
         /\ out = <<>> <=> Len(out) = 0
  OBVIOUS

\* A loss, or the next frame, continues the returned batches.
LEMMA OutExtended ==
  ASSUME NEW out \in Seq(Batches), NEW b \in Batches, OutOK(out),
         b # Lost =>
           /\ b.events # <<>> /\ Tailing(b)
           /\ \A i \in DOMAIN out : out[i] # Lost => FrameOf(out[i]) < FrameOf(b)
           /\ out = <<>> => FrameOf(b) = 1
           /\ out # <<>> /\ out[Len(out)] # Lost =>
                /\ FrameOf(b) = FrameOf(out[Len(out)]) + 1
                /\ b.sequence = (out[Len(out)].sequence + 1) % SeqModulus
  PROVE  OutOK(Append(out, b))
<1> DEFINE new == Append(out, b)
           n == Len(out) + 1
<1>1. /\ n \in Nat /\ new[n] = b /\ DOMAIN new = 1..n /\ DOMAIN out = 1..(n - 1)
      /\ \A i \in DOMAIN out : new[i] = out[i]
      /\ out = <<>> <=> n = 1
      /\ Len(out) = n - 1
  BY BatchAppended
<1> HIDE DEF new, n
<1>2. \A i \in DOMAIN new : i \in DOMAIN out \/ i = n
  BY <1>1
<1>3. \A i \in DOMAIN new : new[i] # Lost => new[i].events # <<>> /\ Tailing(new[i])
  BY <1>1, <1>2 DEF OutOK
<1>4. ASSUME NEW i \in DOMAIN new, NEW j \in DOMAIN new, i < j, new[i] # Lost, new[j] # Lost
      PROVE  FrameOf(new[i]) < FrameOf(new[j])
  <2>1. i \in DOMAIN out
    BY <1>1, <1>4
  <2>2. CASE j \in DOMAIN out
    BY <1>1, <1>4, <2>1, <2>2 DEF OutOK
  <2>3. CASE j = n
    BY <1>1, <1>4, <2>1, <2>3
  <2> QED BY <1>2, <2>2, <2>3
<1>5. ASSUME 1 \in DOMAIN new, new[1] # Lost PROVE FrameOf(new[1]) = 1
  <2>1. CASE 1 \in DOMAIN out
    BY <1>1, <1>5, <2>1 DEF OutOK
  <2>2. CASE n = 1
    BY <1>1, <1>5, <2>2
  <2> QED BY <1>2, <1>5, <2>1, <2>2
<1>6. ASSUME NEW i \in DOMAIN new, i + 1 \in DOMAIN new, new[i] # Lost, new[i + 1] # Lost
      PROVE  /\ FrameOf(new[i + 1]) = FrameOf(new[i]) + 1
             /\ new[i + 1].sequence = (new[i].sequence + 1) % SeqModulus
  <2>1. i \in DOMAIN out
    BY <1>1, <1>6
  <2>2. CASE i + 1 \in DOMAIN out
    BY <1>1, <1>6, <2>1, <2>2 DEF OutOK
  <2>3. CASE i + 1 = n
    <3>1. i = Len(out) /\ out # <<>> /\ new[i] = out[Len(out)] /\ new[i + 1] = b
      BY <1>1, <2>1, <2>3
    <3> QED BY <1>6, <3>1
  <2> QED BY <1>2, <1>6, <2>2, <2>3
<1>7. OutOK(new)
  BY <1>3, <1>4, <1>5, <1>6 DEF OutOK
<1> QED BY <1>7 DEF new

LEMMA OutFrames ==
  ASSUME TypeOK, OutOK(Out), NEW i \in DOMAIN Out, Out[i] # Lost
  PROVE  FrameOf(Out[i]) \in Nat
<1>1. Out[i] \in Batches /\ Out[i].events # <<>>
  BY OutParts DEF OutOK
<1>2. Out[i].events[1] \in Natives
  BY <1>1 DEF Batches
<1> QED BY <1>2, Fields, FrameAssumption DEF FrameOf, Natives

\* A queue that starts over begins with the marker, or as it began.
LEMMA MarkedFront ==
  ASSUME NEW p \in Seq(Items), NEW a \in Items, NEW b \in Items
  PROVE  /\ Append(Append(p, a), b) # <<>>
         /\ p = <<>> => Append(Append(p, a), b)[1] = a
         /\ p # <<>> => Append(Append(p, a), b)[1] = p[1]
<1>1. Append(p, a) \in Seq(Items) /\ Append(p, a) # <<>>
  BY AppendItems
<1>2. Append(Append(p, a), b) # <<>> /\ Append(Append(p, a), b)[1] = Append(p, a)[1]
  BY <1>1, AppendItems
<1>3. CASE p = <<>>
  BY <1>2, <1>3, AppendItems, EmptyTyped
<1>4. CASE p # <<>>
  BY <1>2, <1>4, AppendItems
<1> QED BY <1>2, <1>3, <1>4

\* A write leaves the front of the line alone, or begins it.
LEMMA FrontWritten ==
  ASSUME TypeOK, Write
  PROVE  /\ Line' # <<>>
         /\ \/ Line'[1] = Dropped
            \/ Line = <<>> /\ Line'[1] = NextItem
            \/ Line # <<>> /\ Line'[1] = Line[1]
<1>1. NextItem \in Items /\ Dropped \in Items /\ Line \in Seq(Items)
  BY NextItemTyped, Parts DEF Write, Items
<1>2. CASE Line' = Append(Line, NextItem)
  <2>1. CASE Line = <<>>
    BY <1>1, <1>2, <2>1, AppendItems, EmptyTyped
  <2>2. CASE Line # <<>>
    BY <1>1, <1>2, <2>2, AppendItems
  <2> QED BY <2>1, <2>2
<1>3. CASE \E p, q \in Seq(Items) :
             Line = Join(p, q) /\ Line' = Append(Append(p, Dropped), NextItem)
  <2>1. PICK p, q \in Seq(Items) :
             Line = Join(p, q) /\ Line' = Append(Append(p, Dropped), NextItem)
    BY <1>3
  <2>2. p # <<>> => Line # <<>> /\ p[1] = Line[1]
    BY <2>1, JoinFirst
  <2> QED BY <1>1, <2>1, <2>2, MarkedFront
<1> QED BY <1>2, <1>3, LineWritten

\* Nothing was returned, and the line moves on at its far end.
LEMMA OutInvWritten ==
  ASSUME TypeOK, OutInv, Write
  PROVE  OutInv'
<1>1. NextItem \in Items /\ Dropped \in Items /\ Line \in Seq(Items)
  BY NextItemTyped, Parts DEF Write, Items
<1>2. Out' = Out /\ sequence' = sequence
  BY WriteQueues DEF Out
<1>3. frame \in Nat /\ part \in Nat /\ frame' \in Nat /\ frame <= frame'
  BY WriteQueues, FrameAssumption DEF TypeOK
<1>4. ASSUME NEW i \in DOMAIN Out, Out[i] # Lost PROVE FrameOf(Out[i]) < frame
  BY <1>4 DEF OutInv, OutBelow
<1>5. ASSUME NEW i \in DOMAIN Out, Out[i] # Lost, NEW j \in DOMAIN Line'
      PROVE  Line'[j] = Dropped \/ FrameOf(Out[i]) < Line'[j].frame
  <2>1. FrameOf(Out[i]) < NextItem.frame
    BY <1>4, <1>5, NextFields
  <2>2. CASE Line' = Append(Line, NextItem)
    <3>1. CASE j \in DOMAIN Line
      <4>1. Line'[j] = Line[j]
        BY <1>1, <2>2, <3>1, AppendItems
      <4> QED BY <1>5, <3>1, <4>1 DEF OutInv, OutBelow
    <3>2. CASE j \notin DOMAIN Line
      <4>1. Line'[j] = NextItem
        BY <1>1, <1>5, <2>2, <3>2, AppendItems
      <4> QED BY <2>1, <4>1
    <3> QED BY <3>1, <3>2
  <2>3. CASE \E p, q \in Seq(Items) :
               Line = Join(p, q) /\ Line' = Append(Append(p, Dropped), NextItem)
    <3>1. PICK p, q \in Seq(Items) :
               Line = Join(p, q) /\ Line' = Append(Append(p, Dropped), NextItem)
      BY <2>3
    <3>2. Append(p, Dropped) \in Seq(Items)
      BY <1>1, AppendItems
    <3>3. CASE j \in DOMAIN p
      <4>1. j \in DOMAIN Append(p, Dropped) /\ Append(p, Dropped)[j] = p[j]
        BY <1>1, <3>3, AppendItems
      <4>2. Line'[j] = p[j]
        BY <1>1, <3>1, <3>2, <4>1, AppendItems
      <4>3. j \in DOMAIN Line /\ Line[j] = p[j]
        BY <3>1, <3>3, JoinItems
      <4> QED BY <1>5, <4>2, <4>3 DEF OutInv, OutBelow
    <3>4. CASE j = Len(p) + 1
      <4>1. j \in DOMAIN Append(p, Dropped) /\ Append(p, Dropped)[j] = Dropped
        BY <1>1, <3>4, AppendItems
      <4>2. Line'[j] = Dropped
        BY <1>1, <3>1, <3>2, <4>1, AppendItems
      <4> QED BY <4>2
    <3>5. CASE j = Len(p) + 2
      <4>1. Len(Append(p, Dropped)) + 1 = j
        BY <1>1, <3>5, AppendItems
      <4>2. Line'[j] = NextItem
        BY <1>1, <3>1, <3>2, <4>1, AppendItems
      <4> QED BY <2>1, <4>2
    <3>6. DOMAIN Line' = 1..(Len(p) + 2) /\ DOMAIN p = 1..Len(p) /\ Len(p) \in Nat
      <4>1. Len(Append(p, Dropped)) = Len(p) + 1 /\ DOMAIN p = 1..Len(p) /\ Len(p) \in Nat
        BY <1>1, AppendItems
      <4>2. DOMAIN Line' = 1..(Len(Append(p, Dropped)) + 1)
        BY <1>1, <3>1, <3>2, AppendItems
      <4> QED BY <4>1, <4>2
    <3> QED BY <1>5, <3>3, <3>4, <3>5, <3>6
  <2> QED BY <2>2, <2>3, LineWritten
<1>6. ASSUME NEW e \in Nat, Start(Line, e) PROVE Start(Line, e)'
  <2>1. CASE Line = <<>>
    <3>1. frame = e /\ part = 0
      BY <1>6, <2>1 DEF Start
    <3>2. NextItem = Native(e, 1)
      BY <3>1, FrameAssumption DEF NextItem
    <3> QED BY <2>1, <3>2, FrontWritten DEF Start
  <2>2. CASE Line # <<>>
    BY <1>6, <2>2, FrontWritten DEF Start
  <2> QED BY <2>1, <2>2
<1>7. OutOK(Out)'
  BY <1>2 DEF OutInv, OutOK, Tailing
<1>8. OutBelow(Out, Line, frame)'
  <2>1. ASSUME NEW i \in DOMAIN Out, Out[i] # Lost PROVE FrameOf(Out[i]) < frame'
    <3>1. FrameOf(Out[i]) \in Nat /\ FrameOf(Out[i]) < frame
      BY <1>4, <2>1, OutFrames DEF OutInv
    <3> QED BY <1>3, <3>1
  <2> QED BY <1>2, <1>5, <2>1 DEF OutBelow, FrameOf
<1>9. Continues(Out, Line)'
  <2>1. ASSUME Out = <<>> PROVE Start(Line, 1)'
    BY <1>6, <2>1 DEF OutInv, Continues
  <2>2. ASSUME Out # <<>>, Out[Len(Out)] # Lost
        PROVE  Start(Line, FrameOf(Out[Len(Out)]) + 1)' /\ Out[Len(Out)].sequence = sequence
    <3>1. Start(Line, FrameOf(Out[Len(Out)]) + 1) /\ Out[Len(Out)].sequence = sequence
      BY <2>2 DEF OutInv, Continues
    <3>2. FrameOf(Out[Len(Out)]) + 1 \in Nat
      <4>1. Len(Out) \in DOMAIN Out
        BY <2>2, OutParts
      <4> QED BY <2>2, <4>1, OutFrames DEF OutInv
    <3>3. PICK e \in Nat : e = FrameOf(Out[Len(Out)]) + 1
      BY <3>2
    <3>4. Start(Line, e)'
      BY <1>6, <3>1, <3>3
    <3>5. (FrameOf(Out[Len(Out)]) + 1)' = e
      BY <1>2, <3>3 DEF FrameOf
    <3> QED BY <3>1, <3>4, <3>5 DEF Start
  <2> QED BY <1>2, <2>1, <2>2 DEF Continues
<1> QED BY <1>7, <1>8, <1>9 DEF OutInv

-----------------------------------------------------------------------------
(* The frame that is being put together.                                   *)

LEMMA PendingItems ==
  ASSUME TypeOK, PendingInv, pending # <<>>
  PROVE  /\ Len(pending) \in Nat \ {0} /\ DOMAIN pending = 1..Len(pending)
         /\ pending[1] \in Natives /\ pending[1].frame \in 1..MaxFrames
         /\ pending[1].index \in 1..FrameLen /\ pending[1].kind = "native" /\ pending[1] # Dropped
         /\ pending[Len(pending)] = Native(pending[1].frame, pending[1].index + Len(pending) - 1)
         /\ pending[Len(pending)] \in Natives
<1>1. Len(pending) \in Nat \ {0} /\ DOMAIN pending = 1..Len(pending)
      /\ pending[1] \in Natives /\ pending[Len(pending)] \in Natives
  BY DEF TypeOK
<1>2. pending[1] \in Items /\ \A f : pending[1] # Report(f) /\ pending[1] # Dropped
  BY <1>1, Fields DEF Items, Natives
<1>3. pending[Len(pending)] = Native(pending[1].frame, pending[1].index + Len(pending) - 1)
  BY <1>1 DEF PendingInv
<1> QED BY <1>1, <1>2, <1>3, ItemTypes

LEMMA PendingNext ==
  ASSUME TypeOK, LineInv, pending # <<>>, events # <<>>
  PROVE  /\ Follows(pending[Len(pending)], Head(events))
         /\ Line # <<>> /\ Line[1] = pending[1]
<1> USE Parts
<1>1. Chain(Join(pending, Join(events, Join(fetched, ring))))
  BY DEF LineInv, Line
<1>2. Join(events, Join(fetched, ring)) # <<>>
      /\ Join(events, Join(fetched, ring))[1] = events[1]
  BY JoinFirst
<1>3. Head(events) = events[1]
  BY MoveHead
<1>4. Follows(pending[Len(pending)], Head(events))
  BY <1>1, <1>2, <1>3, SuffixChain
<1>5. Line # <<>> /\ Line[1] = pending[1]
  BY JoinFirst DEF Line
<1> QED BY <1>4, <1>5

LEMMA PendingKept ==
  ASSUME TypeOK, LineInv, PendingInv, [Next]_vars
  PROVE  PendingInv'
<1>1. CASE PushNative
  <2> DEFINE h == Head(events)
  <2>1. events # <<>> /\ h.kind = "native" /\ pending' = Append(pending, h)
    BY <1>1 DEF PushNative, At
  <2>2. h \in Items /\ h \in Natives /\ h = Native(h.frame, h.index)
        /\ h.frame \in 1..MaxFrames /\ h.index \in 1..FrameLen
    <3>1. h \in Items
      BY <2>1, LineSplit
    <3> QED BY <2>1, <3>1, ItemTypes
  <2>3. pending \in Seq(Natives)
    BY DEF TypeOK
  <2> HIDE DEF h
  <2>4. CASE pending = <<>>
    <3>1. DOMAIN pending' = {1} /\ pending'[1] = h
      BY <2>1, <2>2, <2>4
    <3>2. h.index + 1 - 1 = h.index
      BY <2>2, FrameAssumption
    <3> QED BY <2>2, <3>1, <3>2 DEF PendingInv
  <2>5. CASE pending # <<>>
    <3> DEFINE n == Len(pending)
    <3>1. /\ n \in Nat \ {0} /\ DOMAIN pending = 1..n
          /\ DOMAIN pending' = 1..(n + 1) /\ pending'[n + 1] = h
          /\ \A i \in 1..n : pending'[i] = pending[i]
      BY <2>1, <2>2, <2>3, <2>5
    <3>2. pending[n] = Native(pending[1].frame, pending[1].index + n - 1)
          /\ pending[1].index \in Nat
      BY <2>5, PendingItems, FrameAssumption
    <3>3. Follows(pending[n], h)
      BY <2>1, <2>5, PendingNext DEF h
    <3> HIDE DEF n
    <3>4. h = Native(pending[1].frame, pending[1].index + n - 1 + 1)
      BY <2>1, <3>2, <3>3, Fields DEF Follows
    <3>5. pending[1].index + n - 1 + 1 = pending[1].index + (n + 1) - 1
      BY <3>1, <3>2
    <3>6. pending'[1] = pending[1]
      BY <3>1
    <3> QED BY <3>1, <3>4, <3>5, <3>6 DEF PendingInv
  <2> QED BY <2>4, <2>5
<1>2. CASE CloseFrame \/ SyncLost
  BY <1>2, EmptyTyped DEF CloseFrame, SyncLost, FailRead, PendingInv
<1>3. CASE UNCHANGED pending
  BY <1>3 DEF PendingInv
<1>4. Write \/ Begin \/ Copy \/ Collect \/ EmptyReport \/ Return \/ UNCHANGED vars
        => UNCHANGED pending
  BY DEF Write, Begin, Copy, Collect, EmptyReport, Return, vars
<1> QED BY <1>1, <1>2, <1>3, <1>4 DEF Next, ReadStep

\* What a report closes is the end of its frame.
LEMMA Closed ==
  ASSUME TypeOK, LineInv, PendingInv, CloseFrame,
         NEW b, b = [sequence |-> NextSequence, events |-> pending]
  PROVE  /\ b \in Batches /\ b # Lost /\ b.events # <<>> /\ Tailing(b)
         /\ FrameOf(b) = pending[1].frame /\ pending[1].frame \in Nat
         /\ Head(events) = Report(pending[1].frame)
         /\ Line # <<>> /\ Line[1] = pending[1]
         /\ pending[1].index + Len(pending) - 1 = FrameLen
<1> USE FrameAssumption
<1>1. pending # <<>> /\ events # <<>> /\ Head(events).kind = "report"
  BY DEF CloseFrame, At
<1> DEFINE f == pending[1].frame
           k == pending[1].index
           n == Len(pending)
<1>2. /\ n \in Nat \ {0} /\ f \in Nat /\ k \in Nat /\ DOMAIN pending = 1..n
      /\ pending[n] = Native(f, k + n - 1) /\ pending[n] \in Natives
  BY <1>1, PendingItems
<1>3. k + n - 1 \in 1..FrameLen
  <2>1. pending[n].index = k + n - 1
    BY <1>2, Fields
  <2>2. pending[n].index \in 1..FrameLen
    BY <1>2, Fields DEF Natives
  <2> QED BY <2>1, <2>2
<1>4. Follows(pending[n], Head(events))
  BY <1>1, PendingNext
<1>5. k + n - 1 = FrameLen /\ Head(events) = Report(f)
  <2>1. Head(events) # Dropped
    BY <1>1, Fields
  <2>2. Head(events) = IF k + n - 1 < FrameLen THEN Native(f, k + n - 1 + 1) ELSE Report(f)
    BY <1>2, <1>4, <2>1, Fields DEF Follows
  <2>3. ~(k + n - 1 < FrameLen)
    BY <1>1, <2>2, Fields
  <2> QED BY <1>3, <2>2, <2>3
<1>6. b.events = pending /\ b.sequence = NextSequence
  OBVIOUS
<1>7. Tailing(b)
  <2> SUFFICES ASSUME NEW i \in DOMAIN pending
               PROVE  pending[i] = Native(f, FrameLen - n + i)
    BY <1>6 DEF Tailing, FrameOf
  <2>1. pending[i] = Native(f, k + i - 1)
    BY DEF PendingInv
  <2>2. i \in Nat /\ k \in Nat /\ n \in Nat
    BY <1>2
  <2>3. k + i - 1 = FrameLen - n + i
    <3> HIDE DEF k, n
    <3> QED BY <1>5, <2>2
  <2> QED BY <2>1, <2>3
<1>8. b \in Batches
  <2>1. NextSequence \in 0..SeqModulus - 1
    BY DEF NextSequence, TypeOK
  <2> QED BY <2>1 DEF Batches, TypeOK
<1>9. b # Lost
  BY <1>1, <1>6 DEF Lost
<1> QED BY <1>1, <1>2, <1>5, <1>6, <1>7, <1>8, <1>9, PendingNext DEF FrameOf

\* The steps of read_batches that neither return nor complete anything.
LEMMA OutInvKept ==
  ASSUME OutInv, Line' = Line, Out' = Out, UNCHANGED <<frame, part, sequence>>
  PROVE  OutInv'
<1>1. OutOK(Out)'
  BY DEF OutInv, OutOK, Tailing
<1>2. OutBelow(Out, Line, frame)'
  BY DEF OutInv, OutBelow, FrameOf
<1>3. Continues(Out, Line)'
  BY DEF OutInv, Continues, Start, FrameOf
<1> QED BY <1>1, <1>2, <1>3 DEF OutInv

LEMMA OutKept ==
  ASSUME TypeOK, Return
  PROVE  Out' = Out
<1>1. batches' = <<>> /\ log' = Out
  BY DEF Return, Out
<1>2. Out \o <<>> = Out
  <2>1. Out \in Seq(Batches)
    BY OutParts
  <2> QED BY <2>1, ConcatEmptySeq
<1> QED BY <1>1, <1>2 DEF Out

\* A report with nothing before it ends a frame that was lost in part.
LEMMA OutInvEmpty ==
  ASSUME TypeOK, OutInv, EmptyReport
  PROVE  OutInv'
<1> DEFINE rest == Join(Tail(events), Join(fetched, ring))
           taken == Append(pending, Head(events))
<1>1. events # <<>> /\ Head(events).kind = "report" /\ pending = <<>>
  BY DEF EmptyReport, At
<1>2. rest \in Seq(Items) /\ taken \in Seq(Items) /\ Line = Join(taken, rest)
      /\ Head(events) \in Items
  BY <1>1, LineSplit
<1>3. Line' = rest
  <2>1. Line' = Join(<<>>, rest)
    BY <1>1 DEF EmptyReport, kernel, Line
  <2> QED BY <1>2, <2>1, JoinEmpty
<1>4. taken # <<>> /\ taken[1] = Head(events)
  BY <1>1, <1>2, AppendItems, EmptyTyped
<1>5. Line # <<>> /\ Line[1] = Head(events)
  BY <1>2, <1>4, JoinFirst
<1> HIDE DEF rest, taken
<1>6. \A e : ~Start(Line, e)
  BY <1>1, <1>5, Fields DEF Start
<1>7. Out # <<>> /\ Out[Len(Out)] = Lost
  BY <1>6 DEF OutInv, Continues
<1>8. Out' = Out /\ frame' = frame
  BY DEF EmptyReport, Out, kernel
<1>9. OutOK(Out)'
  BY <1>8 DEF OutInv, OutOK, Tailing
<1>10. OutBelow(Out, Line, frame)'
  <2>1. \A j \in DOMAIN rest : \E i \in DOMAIN Line : Line[i] = rest[j]
    BY <1>2, JoinLater
  <2> QED BY <1>3, <1>8, <2>1 DEF OutInv, OutBelow, FrameOf
<1>11. Continues(Out, Line)'
  BY <1>7, <1>8 DEF Continues, Lost
<1> QED BY <1>9, <1>10, <1>11 DEF OutInv

LEMMA OutInvClosed ==
  ASSUME TypeOK, LineInv, PendingInv, OutInv, CloseFrame
  PROVE  OutInv'
<1> DEFINE rest == Join(Tail(events), Join(fetched, ring))
           taken == Append(pending, Head(events))
           b == [sequence |-> NextSequence, events |-> pending]
           f == pending[1].frame
<1>1. events # <<>> /\ pending # <<>>
  BY DEF CloseFrame, At
<1>2. rest \in Seq(Items) /\ taken \in Seq(Items) /\ Line = Join(taken, rest)
      /\ Head(events) \in Items /\ pending \in Seq(Items)
  BY <1>1, LineSplit, Parts
<1>3. Line' = rest
  <2>1. Line' = Join(<<>>, rest)
    BY DEF CloseFrame, kernel, Line
  <2> QED BY <1>2, <2>1, JoinEmpty
<1>4. taken # <<>> /\ taken[Len(taken)] = Head(events)
  BY <1>2, AppendItems
<1>5. /\ b \in Batches /\ b # Lost /\ b.events # <<>> /\ Tailing(b)
      /\ FrameOf(b) = f /\ f \in Nat /\ Head(events) = Report(f)
      /\ Line # <<>> /\ Line[1] = pending[1]
  BY Closed
<1>6. b.sequence = NextSequence /\ sequence' = NextSequence
  BY DEF CloseFrame
<1>7. Out' = Append(Out, b) /\ frame' = frame
  <2>1. log \o Append(batches, b) = Append(log \o batches, b)
    BY <1>5, OutParts
  <2> QED BY <2>1 DEF CloseFrame, Out, kernel
<1>8. pending[1] # Dropped /\ pending[1].frame = f
  BY <1>1, PendingItems
<1>9. Start(rest, f + 1) /\ f < frame /\ \A j \in DOMAIN rest : rest[j] = Dropped \/ f < rest[j].frame
  <2> HIDE DEF rest, taken, f
  <2> QED BY <1>2, <1>4, <1>5, AfterReport
<1> HIDE DEF rest, taken, b, f
<1>10. ASSUME NEW e, Start(Line, e) PROVE f = e
  BY <1>5, <1>8, <1>10, Fields DEF Start
<1>11. OutOK(Out)'
  <2>1. ASSUME NEW i \in DOMAIN Out, Out[i] # Lost PROVE FrameOf(Out[i]) < f
    <3>1. 1 \in DOMAIN Line
      <4>1. Line \in Seq(Items)
        BY Parts
      <4> QED BY <1>5, <4>1
    <3> QED BY <1>5, <1>8, <2>1, <3>1 DEF OutInv, OutBelow
  <2>2. Out = <<>> => f = 1
    BY <1>10 DEF OutInv, Continues
  <2>3. ASSUME Out # <<>>, Out[Len(Out)] # Lost
        PROVE  /\ f = FrameOf(Out[Len(Out)]) + 1
               /\ b.sequence = (Out[Len(Out)].sequence + 1) % SeqModulus
    BY <1>6, <1>10, <2>3 DEF OutInv, Continues, NextSequence
  <2>4. Out \in Seq(Batches) /\ OutOK(Out)
    BY OutParts DEF OutInv
  <2>5. OutOK(Append(Out, b))
    BY <1>5, <2>1, <2>2, <2>3, <2>4, OutExtended
  <2> QED BY <1>7, <2>5 DEF OutOK, Tailing
<1>12. /\ DOMAIN Append(Out, b) = 1..(Len(Out) + 1) /\ DOMAIN Out = 1..Len(Out) /\ Len(Out) \in Nat
       /\ \A i \in DOMAIN Out : Append(Out, b)[i] = Out[i]
       /\ Append(Out, b)[Len(Out) + 1] = b /\ Append(Out, b) # <<>>
       /\ Len(Append(Out, b)) = Len(Out) + 1
  BY <1>5, OutParts, BatchAppended
<1>13. OutBelow(Out, Line, frame)'
  <2>1. \A j \in DOMAIN rest : \E i \in DOMAIN Line : Line[i] = rest[j]
    BY <1>2, JoinLater
  <2>2. ASSUME NEW i \in DOMAIN Out', Out'[i] # Lost
        PROVE  /\ FrameOf(Out'[i]) < frame
               /\ \A j \in DOMAIN rest : rest[j] = Dropped \/ FrameOf(Out'[i]) < rest[j].frame
    <3>1. CASE i \in DOMAIN Out
      <4>1. Out'[i] = Out[i]
        BY <1>7, <1>12, <3>1
      <4> QED BY <2>1, <2>2, <3>1, <4>1 DEF OutInv, OutBelow
    <3>2. CASE i = Len(Out) + 1
      <4>1. FrameOf(Out'[i]) = f
        BY <1>5, <1>7, <1>12, <3>2
      <4> QED BY <1>9, <4>1
    <3> QED BY <1>7, <1>12, <2>2, <3>1, <3>2
  <2> QED BY <1>3, <1>7, <2>2 DEF OutBelow, FrameOf
<1>14. Continues(Out, Line)'
  <2>1. Out'[Len(Out')] = b /\ Out' # <<>>
    BY <1>7, <1>12
  <2>2. FrameOf(Out[Len(Out)])' = f
    BY <1>5, <2>1 DEF FrameOf
  <2>3. part' = part
    BY DEF CloseFrame, kernel
  <2>4. Start(Line, FrameOf(Out[Len(Out)]) + 1)'
    BY <1>3, <1>7, <1>9, <2>2, <2>3 DEF Start
  <2> QED BY <1>6, <2>1, <2>4 DEF Continues
<1> QED BY <1>11, <1>13, <1>14 DEF OutInv

LEMMA OutInvLost ==
  ASSUME TypeOK, OutInv, SyncLost
  PROVE  OutInv'
<1> USE Parts
<1>1. Lost \in Batches
  BY EmptyTyped, FrameAssumption DEF Lost, Batches
<1>2. Out' = Append(log, Lost)
  <2>1. Append(log, Lost) \in Seq(Batches)
    BY <1>1, OutParts
  <2>2. Out' = Append(log, Lost) \o <<>>
    BY DEF SyncLost, FailRead, Out
  <2> QED BY <2>1, <2>2, ConcatEmptySeq
<1>3. Line' = Join(fetched, ring)
  <2>1. Line' = Join(<<>>, Join(<<>>, Join(fetched, ring)))
    BY DEF SyncLost, FailRead, kernel, Line
  <2> QED BY <2>1, JoinEmpty
<1>4. frame' = frame
  BY DEF SyncLost, kernel
<1>5. /\ DOMAIN Append(log, Lost) = 1..(Len(log) + 1) /\ DOMAIN log = 1..Len(log) /\ Len(log) \in Nat
      /\ \A i \in DOMAIN log : Append(log, Lost)[i] = log[i]
      /\ Append(log, Lost)[Len(log) + 1] = Lost /\ Append(log, Lost) # <<>>
      /\ Len(Append(log, Lost)) = Len(log) + 1
  BY <1>1, OutParts, BatchAppended
<1>6. OutOK(Out)'
  <2>1. OutOK(log) /\ log \in Seq(Batches)
    BY OutPrefix, OutParts DEF OutInv
  <2>2. OutOK(Append(log, Lost))
    BY <1>1, <2>1, OutExtended
  <2> QED BY <1>2, <2>2 DEF OutOK, Tailing
<1>7. OutBelow(Out, Line, frame)'
  <2>1. ASSUME NEW j \in DOMAIN Join(fetched, ring)
        PROVE  \E i \in DOMAIN Line : Line[i] = Join(fetched, ring)[j]
    <3> DEFINE p == Join(pending, events)
               q == Join(fetched, ring)
    <3>1. p \in Seq(Items) /\ q \in Seq(Items) /\ Line = Join(p, q) /\ j \in DOMAIN q
      OBVIOUS
    <3> HIDE DEF p, q
    <3>2. \E i \in DOMAIN Line : Line[i] = q[j]
      BY <3>1, JoinLater
    <3> QED BY <3>2 DEF q
  <2>2. ASSUME NEW i \in DOMAIN Out', Out'[i] # Lost
        PROVE  i \in DOMAIN Out /\ Out'[i] = Out[i]
    <3>1. i \in DOMAIN log
      <4>1. i \in 1..(Len(log) + 1)
        BY <1>2, <1>5, <2>2
      <4>2. i # Len(log) + 1
        BY <1>2, <1>5, <2>2
      <4>3. DOMAIN log = 1..Len(log) /\ Len(log) \in Nat
        BY <1>5
      <4>4. i \in 1..Len(log)
        BY <4>1, <4>2, <4>3, BelowTop
      <4> QED BY <4>3, <4>4
    <3> QED BY <1>2, <1>5, <3>1, OutParts
  <2> QED BY <1>3, <1>4, <2>1, <2>2 DEF OutInv, OutBelow, FrameOf
<1>8. Continues(Out, Line)'
  BY <1>2, <1>5 DEF Continues, Lost
<1> QED BY <1>6, <1>7, <1>8 DEF OutInv

-----------------------------------------------------------------------------
(* When the crate yields whole frames.                                     *)

LEMMA TailLast ==
  ASSUME NEW q \in Seq(Items), q # <<>>
  PROVE  /\ Tail(q) # <<>> => Tail(q)[Len(Tail(q))] = q[Len(q)]
         /\ Tail(q) = <<>> => q[Len(q)] = q[1]
<1>1. /\ Len(q) \in Nat \ {0} /\ Tail(q) \in Seq(Items) /\ Len(Tail(q)) = Len(q) - 1
      /\ \A i \in 1..(Len(q) - 1) : Tail(q)[i] = q[i + 1]
  OBVIOUS
<1>2. ASSUME Tail(q) # <<>> PROVE Tail(q)[Len(Tail(q))] = q[Len(q)]
  <2>1. Len(Tail(q)) # 0
    BY <1>1, <1>2
  <2>2. Len(q) - 1 \in 1..(Len(q) - 1) /\ Len(q) - 1 + 1 = Len(q)
    BY <1>1, <2>1
  <2> QED BY <1>1, <2>2
<1>3. ASSUME Tail(q) = <<>> PROVE q[Len(q)] = q[1]
  <2>1. Len(q) = 1
    BY <1>1, <1>3, EmptyTyped
  <2> QED BY <2>1
<1> QED BY <1>2, <1>3

LEMMA SplitKept ==
  ASSUME TypeOK, LineInv, PendingInv, OutInv, SplitInv, [Next]_vars
  PROVE  SplitInv'
<1>0. split' = split
  BY DEF Next, ReadStep, Write, Begin, Copy, Collect, PushNative, EmptyReport, CloseFrame,
         SyncLost, Return, vars
<1> SUFFICES ASSUME ~split PROVE SplitInv'
  BY <1>0 DEF SplitInv
<1> DEFINE Reported == events # <<>> => events[Len(events)].kind = "report"
           Nothing == events = <<>> => pending = <<>>
           AtStart == IF Line = <<>> THEN part = 0 ELSE Line[1] = Dropped \/ Line[1].index = 1
           AllWhole == \A i \in DOMAIN Out : Out[i] # Lost => Whole(Out[i])
<1>1. Reported /\ Nothing /\ AtStart /\ AllWhole
  BY DEF SplitInv
<1>2. ASSUME Reported', Nothing', AtStart', AllWhole' PROVE SplitInv'
  BY <1>2 DEF SplitInv
<1>3. ASSUME UNCHANGED <<Out>> PROVE AllWhole'
  BY <1>1, <1>3 DEF Whole
<1>4. ASSUME Line' = Line, part' = part PROVE AtStart'
  BY <1>1, <1>4
<1>5. ASSUME At("native") \/ At("report"), events' = Tail(events)
      PROVE  Reported' /\ (events' = <<>> => Head(events).kind = "report")
  <2>1. events # <<>> /\ events \in Seq(Items) /\ Head(events) = events[1]
    BY <1>5, Parts, MoveHead DEF At
  <2> QED BY <1>1, <1>5, <2>1, TailLast
<1>6. CASE Write
  <2>1. AtStart'
    <3>1. CASE Line = <<>>
      <4>1. NextItem.index = 1
        BY <1>1, <3>1, Fields, FrameAssumption DEF NextItem
      <4> QED BY <1>6, <3>1, <4>1, FrontWritten
    <3>2. CASE Line # <<>>
      BY <1>1, <1>6, <3>2, FrontWritten
    <3> QED BY <3>1, <3>2
  <2>2. UNCHANGED <<Out, events, pending>>
    BY <1>6, WriteQueues DEF Out
  <2> HIDE DEF AtStart, AllWhole
  <2> QED BY <1>1, <1>2, <1>3, <2>1, <2>2
<1>7. CASE Begin \/ Copy \/ UNCHANGED vars
  <2>1. Line' = Line /\ UNCHANGED <<part, Out, events, pending>>
    BY <1>7, LineKept DEF Begin, Copy, vars, kernel, Out
  <2> HIDE DEF AtStart, AllWhole
  <2> QED BY <1>1, <1>2, <1>3, <1>4, <2>1
<1>8. CASE Collect
  <2> DEFINE n == UpToLastReport(fetched)
  <2>1. Line' = Line /\ UNCHANGED <<part, Out, pending>>
    BY <1>8, LineKept DEF Collect, kernel, Out
  <2>2. pending = <<>>
    BY <1>1, <1>8 DEF Collect, TypeOK
  <2>3. events' = SubSeq(fetched, 1, n) /\ fetched \in Seq(Items)
    BY <1>8, Parts DEF Collect
  <2>4. n \in 0..Len(fetched) /\ (n > 0 => fetched[n].kind = "report")
    BY <2>3, LastReport
  <2> HIDE DEF n
  <2>5. Len(events') = n /\ (n > 0 => events'[n] = fetched[n]) /\ events' \in Seq(Items)
    BY <2>3, <2>4, CutInTwo
  <2>6. events' # <<>> => n > 0
    BY <2>4, <2>5
  <2>7. Reported'
    BY <2>4, <2>5, <2>6
  <2> HIDE DEF AtStart, AllWhole
  <2> QED BY <1>2, <1>3, <1>4, <2>1, <2>2, <2>7
<1>9. CASE PushNative
  <2>1. Line' = Line /\ UNCHANGED <<part, Out>>
    BY <1>9, LineKept DEF PushNative, kernel, Out
  <2>2. At("native") /\ events' = Tail(events) /\ Head(events).kind = "native"
    BY <1>9 DEF PushNative, At
  <2>3. Reported' /\ events' # <<>>
    BY <1>5, <2>2
  <2> HIDE DEF AtStart, AllWhole
  <2> QED BY <1>2, <1>3, <1>4, <2>1, <2>3
<1>10. CASE EmptyReport
  <2>1. At("report") /\ pending = <<>> /\ Head(events) = events[1] /\ events # <<>>
        /\ Head(events) \in Items /\ Head(events).kind = "report"
    BY <1>10, LineSplit DEF EmptyReport, At
  <2>2. Line = Join(events, Join(fetched, ring))
    BY <2>1, Parts, JoinEmpty DEF Line
  <2>3. Line # <<>> /\ Line[1] = Head(events)
    BY <2>1, <2>2, Parts, JoinFirst
  <2>4. Head(events).index = 0 /\ Head(events) # Dropped
    BY <2>1, ItemTypes, Fields
  <2> QED BY <1>1, <2>3, <2>4
<1>11. CASE CloseFrame
  <2> DEFINE rest == Join(Tail(events), Join(fetched, ring))
             taken == Append(pending, Head(events))
             b == [sequence |-> NextSequence, events |-> pending]
             f == pending[1].frame
  <2>1. At("report") /\ events # <<>> /\ pending # <<>> /\ events' = Tail(events) /\ pending' = <<>>
    BY <1>11 DEF CloseFrame, At
  <2>2. rest \in Seq(Items) /\ taken \in Seq(Items) /\ Line = Join(taken, rest)
        /\ Head(events) \in Items /\ pending \in Seq(Items)
    BY <2>1, LineSplit, Parts
  <2>3. Line' = rest
    <3>1. Line' = Join(<<>>, rest)
      BY <1>11 DEF CloseFrame, kernel, Line
    <3> QED BY <2>2, <3>1, JoinEmpty
  <2>4. taken # <<>> /\ taken[Len(taken)] = Head(events)
    BY <2>2, AppendItems
  <2>5. /\ b \in Batches /\ f \in Nat /\ Head(events) = Report(f)
        /\ Line # <<>> /\ Line[1] = pending[1]
        /\ pending[1].index + Len(pending) - 1 = FrameLen
    BY <1>11, Closed
  <2>6. pending[1] # Dropped /\ Len(pending) \in Nat
    BY <2>1, PendingItems
  <2>7. b.events = pending
    OBVIOUS
  <2>8. Whole(b)
    <3>1. pending[1].index = 1
      BY <1>1, <2>5, <2>6
    <3> QED BY <2>5, <2>6, <2>7, <3>1 DEF Whole
  <2>9. Start(rest, f + 1) /\ f < frame
    <3> HIDE DEF rest, taken, f
    <3> QED BY <2>2, <2>4, <2>5, AfterReport
  <2>10. AtStart'
    <3>1. part' = part
      BY <1>11 DEF CloseFrame, kernel
    <3> HIDE DEF rest, f
    <3> QED BY <2>3, <2>9, <3>1, Fields DEF Start
  <2> HIDE DEF rest, taken, b, f
  <2>11. Out' = Append(Out, b)
    <3>1. log \o Append(batches, b) = Append(log \o batches, b)
      BY <2>5, OutParts
    <3> QED BY <1>11, <3>1 DEF CloseFrame, Out, b
  <2>12. AllWhole'
    <3>1. /\ DOMAIN Append(Out, b) = 1..(Len(Out) + 1) /\ DOMAIN Out = 1..Len(Out)
          /\ \A i \in DOMAIN Out : Append(Out, b)[i] = Out[i]
          /\ Append(Out, b)[Len(Out) + 1] = b /\ Len(Out) \in Nat
      BY <2>5, OutParts, BatchAppended
    <3>2. \A i \in DOMAIN Append(Out, b) : i \in DOMAIN Out \/ i = Len(Out) + 1
      BY <3>1
    <3> QED BY <1>1, <2>8, <2>11, <3>1, <3>2 DEF Whole
  <2> HIDE DEF AtStart, AllWhole
  <2> QED BY <1>2, <1>5, <2>1, <2>10, <2>12
<1>12. CASE SyncLost
  <2> DEFINE p == Join(pending, events)
             r == Join(fetched, ring)
             last == events[Len(events)]
  <2>1. events # <<>> /\ events' = <<>> /\ pending' = <<>> /\ part' = part
    BY <1>12 DEF SyncLost, FailRead, At, kernel
  <2>2. p \in Seq(Items) /\ r \in Seq(Items) /\ Line = Join(p, r)
        /\ pending \in Seq(Items) /\ events \in Seq(Items)
    BY Parts
  <2>3. p # <<>> /\ p[Len(p)] = last
    <3>1. Len(p) = Len(pending) + Len(events) /\ Len(events) > 0
          /\ DOMAIN events = 1..Len(events) /\ Len(events) \in Nat /\ Len(pending) \in Nat
      BY <2>1, <2>2, JoinItems
    <3>2. Len(events) \in DOMAIN events /\ Len(p) > 0
      BY <3>1
    <3>3. p[Len(pending) + Len(events)] = events[Len(events)]
      BY <2>2, <3>2, JoinItems
    <3> QED BY <3>1, <3>2, <3>3, EmptyTyped
  <2>4. last \in Items /\ last.kind = "report"
    BY <1>1, <2>1, <2>2
  <2>5. last = Report(last.frame) /\ last.frame \in Nat
    BY <2>4, ItemTypes, Fields, FrameAssumption
  <2>6. Line' = r
    <3>1. Line' = Join(<<>>, Join(<<>>, r))
      BY <1>12 DEF SyncLost, FailRead, kernel, Line
    <3> QED BY <2>2, <3>1, JoinEmpty
  <2> HIDE DEF p, r, last
  <2>7. Start(r, last.frame + 1)
    BY <2>2, <2>3, <2>5, AfterReport
  <2>8. AtStart'
    BY <2>1, <2>6, <2>7, Fields DEF Start
  <2>9. Out' = Append(log, Lost)
    <3>1. Lost \in Batches
      BY EmptyTyped, FrameAssumption DEF Lost, Batches
    <3>2. Append(log, Lost) \in Seq(Batches)
      BY <3>1, OutParts
    <3>3. Out' = Append(log, Lost) \o <<>>
      BY <1>12 DEF SyncLost, FailRead, Out
    <3> QED BY <3>2, <3>3, ConcatEmptySeq
  <2>10. AllWhole'
    <3>1. Lost \in Batches
      BY EmptyTyped, FrameAssumption DEF Lost, Batches
    <3>2. /\ DOMAIN Append(log, Lost) = 1..(Len(log) + 1) /\ DOMAIN log = 1..Len(log)
          /\ \A i \in DOMAIN log : Append(log, Lost)[i] = log[i]
          /\ Append(log, Lost)[Len(log) + 1] = Lost /\ Len(log) \in Nat
      BY <3>1, OutParts, BatchAppended
    <3>3. \A i \in DOMAIN Append(log, Lost) : i \in DOMAIN log \/ i = Len(log) + 1
      BY <3>2
    <3>4. \A i \in DOMAIN log : i \in DOMAIN Out /\ Out[i] = log[i]
      BY OutParts
    <3> QED BY <1>1, <2>9, <3>2, <3>3, <3>4 DEF Whole
  <2> HIDE DEF AtStart, AllWhole
  <2> QED BY <1>2, <2>1, <2>8, <2>10
<1>13. CASE Return
  <2>1. Line' = Line /\ Out' = Out /\ UNCHANGED <<part, events, pending>>
    BY <1>13, LineKept, OutKept DEF Return, kernel
  <2> HIDE DEF AtStart, AllWhole
  <2> QED BY <1>1, <1>2, <1>3, <1>4, <2>1
<1> QED BY <1>6, <1>7, <1>8, <1>9, <1>10, <1>11, <1>12, <1>13 DEF Next, ReadStep

-----------------------------------------------------------------------------
(* The invariant and what follows from it.                                 *)

LEMMA InvStart ==
  ASSUME Init
  PROVE  FrameInv
<1> USE EmptyTyped, FrameAssumption
<1>1. TypeOK
  BY DEF Init, TypeOK
<1>2. Line = <<>> /\ Out = <<>>
  <2>1. <<>> \o <<>> = <<>>
    OBVIOUS
  <2>2. Join(<<>>, <<>>) = <<>>
    BY <2>1 DEF Join
  <2> QED BY <2>1, <2>2 DEF Init, Line, Out
<1>3. LineInv
  BY <1>2 DEF LineInv, Chain, Behind
<1>4. PendingInv
  BY DEF Init, PendingInv
<1>5. OutInv
  BY <1>2 DEF Init, OutInv, OutOK, OutBelow, Continues, Start
<1>6. SplitInv
  BY <1>2 DEF Init, SplitInv
<1> QED BY <1>1, <1>3, <1>4, <1>5, <1>6 DEF FrameInv

LEMMA InvKept ==
  ASSUME FrameInv, [Next]_vars
  PROVE  FrameInv'
<1> USE DEF FrameInv
<1>1. LineInv' /\ OutInv'
  <2>1. CASE Write
    BY <2>1, LineInvWritten, OutInvWritten
  <2>2. CASE Begin \/ Copy \/ Collect \/ PushNative \/ Return \/ UNCHANGED vars
    <3>1. Line' = Line
      BY <2>2, LineKept
    <3>2. Out' = Out
      BY <2>2, OutKept DEF Begin, Copy, Collect, PushNative, vars, Out
    <3>3. UNCHANGED <<frame, part, sequence>>
      BY <2>2 DEF Begin, Copy, Collect, PushNative, Return, vars, kernel
    <3>4. LineInv'
      BY <3>1, <3>3 DEF LineInv, Chain, Behind, NextItem, LastItem
    <3> QED BY <3>1, <3>2, <3>3, <3>4, OutInvKept
  <2>3. CASE EmptyReport \/ CloseFrame
    <3> DEFINE rest == Join(Tail(events), Join(fetched, ring))
               taken == Append(pending, Head(events))
    <3>1. events # <<>>
      BY <2>3 DEF EmptyReport, CloseFrame, At
    <3>2. rest \in Seq(Items) /\ taken \in Seq(Items) /\ Line = Join(taken, rest)
      BY <3>1, LineSplit
    <3>3. Line' = rest
      <4>1. Line' = Join(<<>>, rest)
        BY <2>3 DEF EmptyReport, CloseFrame, kernel, Line
      <4> QED BY <3>2, <4>1, JoinEmpty
    <3>4. UNCHANGED <<frame, part>>
      BY <2>3 DEF EmptyReport, CloseFrame, kernel
    <3> HIDE DEF rest, taken
    <3>5. LineInv'
      BY <3>2, <3>3, <3>4, LineInvTaken
    <3> QED BY <2>3, <3>5, OutInvEmpty, OutInvClosed
  <2>4. CASE SyncLost
    <3> DEFINE p == Join(pending, events)
               r == Join(fetched, ring)
    <3>1. p \in Seq(Items) /\ r \in Seq(Items) /\ Line = Join(p, r)
      BY Parts
    <3>2. Line' = r
      <4>1. Line' = Join(<<>>, Join(<<>>, r))
        BY <2>4 DEF SyncLost, FailRead, kernel, Line
      <4> QED BY <3>1, <4>1, JoinEmpty
    <3>3. UNCHANGED <<frame, part>>
      BY <2>4 DEF SyncLost, kernel
    <3> HIDE DEF p, r
    <3>4. LineInv'
      BY <3>1, <3>2, <3>3, LineInvTaken
    <3> QED BY <2>4, <3>4, OutInvLost
  <2> QED BY <2>1, <2>2, <2>3, <2>4 DEF Next, ReadStep
<1> QED BY <1>1, TypesKept, PendingKept, SplitKept

\* The invariant holds in every behaviour of the source and the kernel, for every
\* frame length, buffer size and number of frames.
THEOREM FrameInvariant == Spec => []FrameInv
<1>1. Init => FrameInv
  BY InvStart
<1>2. FrameInv /\ [Next]_vars => FrameInv'
  BY InvKept
<1> QED BY <1>1, <1>2, PTL DEF Spec

\* The variables of read_batches keep their types, the locals do not outlive a call.
THEOREM FrameTypes == Spec => []TypeOK
<1>1. FrameInv => TypeOK
  BY DEF FrameInv
<1> QED BY <1>1, FrameInvariant, PTL

\* A batch never mixes two frames, skips an event or leaves one out at its end.
THEOREM FramesUnmixed == Spec => []NoMixedFrames
<1>1. FrameInv => NoMixedFrames
  <2> SUFFICES ASSUME FrameInv, NEW i \in Returned
               PROVE  Tailing(log[i])
    BY DEF NoMixedFrames, Tailing
  <2>1. i \in DOMAIN Out /\ Out[i] = log[i] /\ log[i] # Lost
    BY OutParts DEF FrameInv, Returned
  <2> QED BY <2>1 DEF FrameInv, OutInv, OutOK
<1> QED BY <1>1, FrameInvariant, PTL

\* With whole frames from the crate, the caller gets whole frames only.
THEOREM FramesWhole == Spec => []WholeFrames
<1>1. FrameInv => WholeFrames
  <2> SUFFICES ASSUME FrameInv, ~split, NEW i \in Returned
               PROVE  Len(log[i].events) = FrameLen
    BY DEF WholeFrames
  <2>1. i \in DOMAIN Out /\ Out[i] = log[i] /\ log[i] # Lost
    BY OutParts DEF FrameInv, Returned
  <2> QED BY <2>1 DEF FrameInv, SplitInv, Whole
<1> QED BY <1>1, FrameInvariant, PTL

\* Frames come in order, and a missing one is announced by a loss at its place.
THEOREM FrameGapsReported == Spec => []GapsReported
<1>1. FrameInv => GapsReported
  <2> SUFFICES ASSUME FrameInv, NEW i \in Returned
               PROVE  /\ \A j \in Returned : j < i => FrameOf(log[j]) < FrameOf(log[i])
                      /\ i = 1 => FrameOf(log[i]) = 1
                      /\ i - 1 \in Returned =>
                           /\ FrameOf(log[i]) = FrameOf(log[i - 1]) + 1
                           /\ log[i].sequence = (log[i - 1].sequence + 1) % SeqModulus
    BY DEF GapsReported
  <2>1. \A j \in Returned : j \in DOMAIN Out /\ Out[j] = log[j] /\ log[j] # Lost
    BY OutParts DEF FrameInv, Returned
  <2>2. i \in Nat
    BY OutParts DEF FrameInv, Returned
  <2>3. OutOK(Out)
    BY DEF FrameInv, OutInv
  <2>4. \A j \in Returned : j < i => FrameOf(log[j]) < FrameOf(log[i])
    BY <2>1, <2>3 DEF OutOK
  <2>5. i = 1 => FrameOf(log[i]) = 1
    BY <2>1, <2>3 DEF OutOK
  <2>6. ASSUME i - 1 \in Returned
        PROVE  /\ FrameOf(log[i]) = FrameOf(log[i - 1]) + 1
               /\ log[i].sequence = (log[i - 1].sequence + 1) % SeqModulus
    <3> DEFINE k == i - 1
    <3>1. k + 1 = i
      BY <2>2
    <3>2. k \in Returned
      BY <2>6
    <3> HIDE DEF k
    <3>3. /\ k \in DOMAIN Out /\ k + 1 \in DOMAIN Out /\ Out[k] = log[k] /\ Out[k + 1] = log[i]
          /\ Out[k] # Lost /\ Out[k + 1] # Lost
      BY <2>1, <3>1, <3>2
    <3>4. /\ FrameOf(log[i]) = FrameOf(log[k]) + 1
          /\ log[i].sequence = (log[k].sequence + 1) % SeqModulus
      BY <2>3, <3>3 DEF OutOK
    <3> QED BY <3>4 DEF k
  <2> QED BY <2>4, <2>5, <2>6
<1> QED BY <1>1, FrameInvariant, PTL
=============================================================================
