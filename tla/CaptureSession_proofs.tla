----------------------- MODULE CaptureSession_proofs -----------------------
(***************************************************************************)
(* Proofs about CaptureSession, for any set of nodes and any bounds.       *)
(***************************************************************************)
EXTENDS CaptureSession, TLAPS

-----------------------------------------------------------------------------
(* Sequences.                                                              *)

\* The elements of a queue are its head and those of its tail.
LEMMA ElementsTail ==
  ASSUME NEW S, NEW q \in Seq(S), q # <<>>
  PROVE  /\ Head(q) \in S
         /\ Tail(q) \in Seq(S)
         /\ Elements(q) = {Head(q)} \cup Elements(Tail(q))
<1>1. Len(q) \in Nat \ {0} /\ Head(q) = q[1] /\ Head(q) \in S /\ Tail(q) \in Seq(S)
  OBVIOUS
<1>2. Len(Tail(q)) = Len(q) - 1 /\ \A i \in 1..Len(q) - 1 : Tail(q)[i] = q[i + 1]
  OBVIOUS
<1>3. ASSUME NEW i \in 1..Len(q), i # 1
      PROVE  q[i] = Tail(q)[i - 1] /\ i - 1 \in 1..Len(Tail(q))
  <2>1. i - 1 \in 1..Len(q) - 1 /\ (i - 1) + 1 = i
    BY <1>1, <1>3
  <2>2. Tail(q)[i - 1] = q[(i - 1) + 1]
    BY <1>2, <2>1
  <2> QED BY <1>2, <2>1, <2>2
<1>4. ASSUME NEW i \in DOMAIN q
      PROVE  q[i] \in {Head(q)} \cup Elements(Tail(q))
  <2>1. i \in 1..Len(q)
    OBVIOUS
  <2>2. CASE i = 1
    BY <2>2, <1>1
  <2>3. CASE i # 1
    <3>1. q[i] = Tail(q)[i - 1] /\ i - 1 \in DOMAIN Tail(q)
      BY <2>1, <2>3, <1>1, <1>3
    <3> QED BY <3>1 DEF Elements
  <2> QED BY <2>2, <2>3
<1>5. Head(q) \in Elements(q)
  BY <1>1 DEF Elements
<1>6. ASSUME NEW i \in DOMAIN Tail(q)
      PROVE  Tail(q)[i] \in Elements(q)
  <2>1. i \in 1..Len(q) - 1
    BY <1>1, <1>2
  <2>2. Tail(q)[i] = q[i + 1] /\ i + 1 \in DOMAIN q
    BY <2>1, <1>1, <1>2
  <2> QED BY <2>2 DEF Elements
<1>7. Elements(q) \subseteq {Head(q)} \cup Elements(Tail(q))
  BY <1>4 DEF Elements
<1>8. Elements(Tail(q)) \subseteq Elements(q)
  BY <1>6 DEF Elements
<1> QED BY <1>1, <1>5, <1>7, <1>8

LEMMA ElementsEmpty == Elements(<<>>) = {}
  BY DEF Elements

\* Appending an event makes it the latest and loses none of the earlier ones.
LEMMA AppendLast ==
  ASSUME NEW S, NEW q \in Seq(S), NEW e \in S
  PROVE  /\ Append(q, e) \in Seq(S)
         /\ Append(q, e) # <<>>
         /\ Append(q, e)[Len(Append(q, e))] = e
         /\ Len(Append(q, e)) \in DOMAIN Append(q, e)
         /\ \A i \in DOMAIN q : /\ i \in DOMAIN Append(q, e)
                                /\ Append(q, e)[i] = q[i]
  OBVIOUS

LEMMA SnapshotType == ASSUME NEW devs \in Snapshots PROVE devs \in Seq(SourceIds)
  BY BoundsAssumption DEF Snapshots

\* Every event the session reports is an event.
LEMMA EventType ==
  ASSUME NEW k \in Kinds, NEW s \in SourceIds \cup {NoSource}, NEW d \in Details
  PROVE  Event(k, s, d) \in Events
  BY DEF Event, Events

-----------------------------------------------------------------------------
(* The type invariant.                                                     *)

LEMMA TypeInit == Init => TypeOK
<1> SUFFICES ASSUME Init PROVE TypeOK
  OBVIOUS
<1>1. gen \in [SourceIds -> 0..MaxPlugs]
  BY BoundsAssumption DEF Init
<1>2. output \in Seq(Events) /\ devices \in Seq(SourceIds)
  BY DEF Init
<1>3. /\ up \in [SourceIds -> BOOLEAN]
      /\ holder \in [SourceIds -> Holders]
      /\ ready \in [SourceIds -> BOOLEAN]
      /\ \A s \in SourceIds : up[s] => gen[s] # 0
  BY DEF Init, Holders
<1>4. /\ opened \in [SourceIds -> 0..MaxPlugs]
      /\ access \in [SourceIds -> Granted \cup {"Closed"}]
      /\ faults \in 0..MaxFaults
      /\ fd \in 0..MaxPlugs
  BY BoundsAssumption DEF Init
<1> QED
  BY <1>1, <1>2, <1>3, <1>4 DEF Init, TypeOK

LEMMA TypeHost == ASSUME TypeOK, HostStep PROVE TypeOK'
<1> USE DEF TypeOK, Active, Holders, call
<1>1. PICK s \in SourceIds : Plug(s) \/ Unplug(s) \/ ForeignGrab(s)
                             \/ ForeignRelease(s) \/ Press(s)
  BY DEF HostStep
<1>2. CASE Plug(s)
  <2>1. gen'[s] \in 0..MaxPlugs /\ gen' \in [SourceIds -> 0..MaxPlugs]
    BY <1>2, BoundsAssumption DEF Plug
  <2> QED BY <1>2, <2>1 DEF Plug
<1>3. CASE Unplug(s)
  BY <1>3 DEF Unplug
<1>4. CASE ForeignGrab(s)
  BY <1>4 DEF ForeignGrab
<1>5. CASE ForeignRelease(s)
  BY <1>5 DEF ForeignRelease
<1>6. CASE Press(s)
  BY <1>6 DEF Press
<1> QED BY <1>1, <1>2, <1>3, <1>4, <1>5, <1>6

\* The calls that begin, and the restart.
LEMMA TypeBegin ==
  ASSUME TypeOK, Reconcile \/ Poll \/ PollError \/ PollActive \/ Restart
  PROVE  TypeOK'
<1>1. ASSUME NEW devs \in Snapshots, NEW issue \in BOOLEAN, NEW read \in BOOLEAN,
             StartReconcile(devs, issue, read), faults' \in 0..MaxFaults
      PROVE  TypeOK'
  <2>1. devices' \in Seq(SourceIds) /\ discovered' \subseteq SourceIds
    BY <1>1, SnapshotType DEF StartReconcile, Elements
  <2>2. output' \in Seq(Events)
    <3>1. Event("DiscoveryError", NoSource, "none") \in Events
      BY EventType DEF Kinds, Details
    <3> QED BY <1>1, <3>1 DEF StartReconcile
  <2> QED BY <1>1, <2>1, <2>2 DEF StartReconcile, TypeOK
<1>2. CASE Reconcile
  BY <1>1, <1>2 DEF Reconcile, TypeOK
<1>3. CASE Poll
  <2>1. PICK missed \in SUBSET {s \in SourceIds : up[s]}, devs \in Snapshots,
             issue \in BOOLEAN :
               /\ missed # {} => faults < MaxFaults
               /\ faults' = IF missed = {} THEN faults ELSE faults + 1
               /\ StartReconcile(devs, issue, TRUE)
    BY <1>3 DEF Poll
  <2>2. faults' \in 0..MaxFaults
    BY <2>1, BoundsAssumption DEF TypeOK
  <2> QED BY <1>1, <2>1, <2>2
<1>4. CASE PollError
  BY <1>4, BoundsAssumption DEF PollError, TypeOK, call
<1>5. CASE PollActive
  BY <1>5 DEF PollActive, TypeOK, host, Active
<1>6. CASE Restart
  BY <1>6 DEF Restart, TypeOK, call, Released, Holders
<1> QED BY <1>2, <1>3, <1>4, <1>5, <1>6

\* The steps of a call in progress.
LEMMA TypeCall == ASSUME TypeOK, CallStep PROVE TypeOK'
<1> USE DEF host, call
<1>0. /\ \A s \in SourceIds : Event("Disconnected", s, "none") \in Events
      /\ \A s \in SourceIds, a \in Granted : /\ Event("Connected", s, a) \in Events
      /\ \A s \in SourceIds, a \in {"Open", "ExclusiveGrab", "Read",
                                    "SynchronizationLost"} :
           Event("SourceError", s, a) \in Events
  BY DEF Event, Events, Kinds, Details
<1>1. ASSUME NEW e \in Events PROVE Append(output, e) \in Seq(Events)
  BY DEF TypeOK
<1>2. devices # <<>> => /\ Head(devices) \in SourceIds
                        /\ Tail(devices) \in Seq(SourceIds)
  BY ElementsTail DEF TypeOK
<1>3. ASSUME NEW s \in SourceIds, RemoveOne(s) PROVE TypeOK'
  <2>1. /\ output' \in Seq(Events)
        /\ unread = {}
        /\ s \in SourceIds
    BY <1>0, <1>1, <1>3 DEF RemoveOne, TypeOK
  <2>2. /\ holder' \in [SourceIds -> Holders]
        /\ opened' \in [SourceIds -> 0..MaxPlugs]
        /\ access' \in [SourceIds -> Granted \cup {"Closed"}]
        /\ ready' \in [SourceIds -> BOOLEAN]
    BY <1>3, BoundsAssumption DEF RemoveOne, TypeOK, Released, Holders
  <2>3. \A x \in SourceIds : access'[x] = "Closed" <=> opened'[x] = 0
    BY <1>3 DEF RemoveOne, TypeOK
  <2> QED BY <1>3, <2>1, <2>2, <2>3 DEF RemoveOne, TypeOK
<1>4. CASE SkipKnown
  BY <1>2, <1>4 DEF SkipKnown, AtDevice, TypeOK
<1>5. CASE OpenNode
  <2>1. up[Head(devices)] /\ gen[Head(devices)] \in 0..MaxPlugs
    BY <1>2, <1>5 DEF OpenNode, AtDevice, TypeOK
  <2> QED BY <1>5, <2>1 DEF OpenNode, AtDevice, TypeOK
<1>6. CASE OpenFail
  <2>1. output' \in Seq(Events) /\ devices' \in Seq(SourceIds) /\ fd' = 0
    BY <1>0, <1>1, <1>2, <1>6
    DEF OpenFail, AtDevice, SkipFailed, DevicesAfterError, FdAfterError
  <2>2. faults' \in 0..MaxFaults
    BY <1>6, BoundsAssumption DEF OpenFail, TypeOK
  <2> QED BY <1>6, <2>1, <2>2 DEF OpenFail, AtDevice, SkipFailed, TypeOK
<1>7. ASSUME NEW a \in Granted, pc = "grab", Insert(Head(devices), a),
             holder' \in [SourceIds -> Holders]
      PROVE  TypeOK'
  <2>1. output' \in Seq(Events) /\ devices' \in Seq(SourceIds)
    BY <1>0, <1>1, <1>2, <1>7 DEF Insert, TypeOK
  <2>2. /\ opened' \in [SourceIds -> 0..MaxPlugs]
        /\ access' \in [SourceIds -> Granted \cup {"Closed"}]
        /\ ready' \in [SourceIds -> BOOLEAN]
        /\ fd' \in 0..MaxPlugs
    BY <1>2, <1>7, BoundsAssumption DEF Insert, TypeOK
  <2>3. \A x \in SourceIds : access'[x] = "Closed" <=> opened'[x] = 0
    BY <1>2, <1>7 DEF Insert, TypeOK, Granted
  <2> QED BY <1>7, <2>1, <2>2, <2>3 DEF Insert, TypeOK
<1>8. CASE GrantShared
  BY <1>7, <1>8 DEF GrantShared, Granted, TypeOK
<1>9. CASE GrantExclusive
  BY <1>7, <1>9 DEF GrantExclusive, Granted, Holders, TypeOK
<1>10. CASE GrantFallback
  BY <1>7, <1>10 DEF GrantFallback, Granted, TypeOK
<1>11. CASE GrabFail
  <2>1. output' \in Seq(Events) /\ devices' \in Seq(SourceIds) /\ fd' = 0
    BY <1>0, <1>1, <1>2, <1>11
    DEF GrabFail, SkipFailed, DevicesAfterError, FdAfterError, TypeOK
  <2>2. /\ pc = "grab" /\ pc' = "reconcile"
        /\ UNCHANGED <<up, gen, holder, ready, faults, mode, opened, access,
                       thenRead, discovered, unread>>
    BY <1>11 DEF GrabFail, SkipFailed
  <2>3. fd' \in 0..MaxPlugs
    BY <2>1, BoundsAssumption
  <2> QED BY <2>1, <2>2, <2>3 DEF TypeOK, Active
<1>12. CASE FinishReconcile
  <2>1. output' \in Seq(Events)
    <3>1. output' = output \/ output' = <<>>
      BY <1>12 DEF FinishReconcile
    <3>2. <<>> \in Seq(Events)
      OBVIOUS
    <3> QED BY <3>1, <3>2 DEF TypeOK
  <2>2. CASE thenRead
    BY <1>12, <2>1, <2>2 DEF FinishReconcile, TypeOK, Active
  <2>3. CASE ~thenRead
    BY <1>12, <2>1, <2>3 DEF FinishReconcile, TypeOK, Active
  <2> QED BY <2>2, <2>3
<1>13. ASSUME NEW s \in SourceIds,
              ReadIdle(s) \/ ReadInput(s) \/ ReadLost(s) \/ ReadFail(s)
       PROVE  TypeOK'
  <2>1. s \in unread => access[s] \in Granted
    BY DEF TypeOK, Active
  <2>2. s \in unread => Event("Input", s, access[s]) \in Events
    BY <2>1 DEF Event, Events, Kinds, Details
  <2>3. output' \in Seq(Events)
    <3>1. CASE ReadIdle(s)
      BY <3>1 DEF ReadIdle, TypeOK
    <3>2. CASE ReadInput(s)
      BY <1>1, <2>2, <3>2 DEF ReadInput, Reading
    <3>3. CASE ReadLost(s) \/ ReadFail(s)
      BY <1>0, <1>1, <3>3 DEF ReadLost, ReadFail
    <3> QED BY <1>13, <3>1, <3>2, <3>3
  <2>4. faults' \in 0..MaxFaults
    BY <1>13, BoundsAssumption
    DEF ReadIdle, ReadInput, ReadLost, ReadFail, TypeOK
  <2>5. ready' \in [SourceIds -> BOOLEAN] /\ unread' \subseteq unread
    BY <1>13 DEF ReadIdle, ReadInput, ReadLost, ReadFail, UnreadAfterError, TypeOK
  <2>6. UNCHANGED <<up, gen, holder, mode, opened, access, pc, thenRead,
                    discovered, devices, fd>> /\ pc = "read"
    BY <1>13 DEF ReadIdle, ReadInput, ReadLost, ReadFail, Reading
  <2> QED BY <2>3, <2>4, <2>5, <2>6 DEF TypeOK, Active
<1>14. CASE FinishRead
  BY <1>14 DEF FinishRead, TypeOK
<1> QED
  BY <1>3, <1>4, <1>5, <1>6, <1>8, <1>9, <1>10, <1>11, <1>12, <1>13, <1>14
  DEF CallStep

THEOREM TypeCorrect == Spec => []TypeOK
<1>1. ASSUME TypeOK, [Next]_vars PROVE TypeOK'
  BY <1>1, TypeHost, TypeBegin, TypeCall DEF Next, vars, TypeOK, Active
<1> QED BY <1>1, TypeInit, PTL DEF Spec

-----------------------------------------------------------------------------
(* The inductive invariant.                                                *)

\* No handle is newer than its device, the device `open` works on is not
\* active and not newer either, and no access goes beyond the mode.
Grants ==
  /\ \A s \in SourceIds : opened[s] <= gen[s]
  /\ pc = "grab" => /\ fd <= gen[Head(devices)]
                    /\ opened[Head(devices)] = 0
                    /\ Removed = {}
  /\ \A s \in SourceIds :
       access[s] # "Closed" => /\ mode = "Shared" => access[s] = "Shared"
                               /\ mode = "Exclusive" => access[s] = "Exclusive"
                               /\ mode = "PreferExclusive" => access[s] # "Shared"

\* Every device of the snapshot is active, still to come, or reported.
Accounting ==
  pc \in {"reconcile", "grab"} =>
    /\ Elements(devices) \subseteq discovered
    /\ \A s \in discovered : s \in Active \/ s \in Elements(devices) \/ Failed(s)

SessionInv == TypeOK /\ Grants /\ GrabMatchesAccess /\ Accounting

LEMMA SafetyInit == Init => SessionInv
<1> SUFFICES ASSUME Init PROVE SessionInv
  OBVIOUS
<1>1. TypeOK
  BY TypeInit
<1>2. Grants
  BY <1>1 DEF Init, Grants, TypeOK
<1>3. GrabMatchesAccess
  BY DEF Init, GrabMatchesAccess, Live
<1>4. Accounting
  BY DEF Init, Accounting
<1> QED BY <1>1, <1>2, <1>3, <1>4 DEF SessionInv

\* The host can change neither the bookkeeping of a call nor the accesses.  A
\* node that is replugged leaves the handles of the old one behind its `gen`.
LEMMA SafetyHost == ASSUME SessionInv, HostStep PROVE SessionInv'
<1>1. TypeOK /\ TypeOK' /\ Grants /\ GrabMatchesAccess /\ Accounting
  BY TypeHost DEF SessionInv
<1>2. PICK s \in SourceIds : Plug(s) \/ Unplug(s) \/ ForeignGrab(s)
                             \/ ForeignRelease(s) \/ Press(s)
  BY DEF HostStep
<1>3. /\ UNCHANGED <<mode, opened, access, pc, thenRead, discovered, devices, fd,
                     unread, output>>
      /\ \A x \in SourceIds : gen[x] <= gen'[x]
      /\ \A x \in SourceIds : up'[x] /\ gen'[x] = gen[x] => up[x]
  <2>1. \A x \in SourceIds : gen[x] \in Int
    BY <1>1, BoundsAssumption DEF TypeOK
  <2>2. CASE Plug(s)
    <3>1. \A x \in SourceIds : gen'[x] = IF x = s THEN gen[x] + 1 ELSE gen[x]
      BY <1>1, <2>2 DEF Plug, TypeOK
    <3> QED BY <1>1, <2>1, <2>2, <3>1 DEF Plug, call, TypeOK
  <2>3. CASE Unplug(s)
    BY <1>1, <2>1, <2>3 DEF Unplug, call, TypeOK
  <2>4. CASE ForeignGrab(s) \/ ForeignRelease(s) \/ Press(s)
    BY <2>1, <2>4 DEF ForeignGrab, ForeignRelease, Press, call
  <2> QED BY <1>2, <2>2, <2>3, <2>4
<1>4. Grants'
  <2>1. \A x \in SourceIds : opened'[x] <= gen'[x]
    BY <1>1, <1>3 DEF Grants, TypeOK
  <2>2. ASSUME pc' = "grab"
        PROVE  fd' <= gen'[Head(devices')] /\ opened'[Head(devices')] = 0
    <3>1. Head(devices) \in SourceIds
      BY <1>1, <1>3, <2>2, ElementsTail DEF TypeOK
    <3> QED BY <1>1, <1>3, <2>2, <3>1 DEF Grants, TypeOK
  <2>3. pc' = "grab" => Removed' = {}
    BY <1>1, <1>3 DEF Grants, Removed, Active
  <2> QED BY <1>1, <1>3, <2>1, <2>2, <2>3 DEF Grants
<1>5. GrabMatchesAccess'
  <2>1. CASE Plug(s)
    <3>1. ~Live(s) /\ ~Live(s)'
      <4>1. ~up[s] /\ gen'[s] = gen[s] + 1 /\ gen[s] \in Nat /\ opened[s] \in Nat
        BY <1>1, <2>1, BoundsAssumption DEF Plug, TypeOK
      <4> QED BY <1>1, <1>3, <4>1 DEF Live, Grants
    <3>2. \A x \in SourceIds \ {s} : Live(x)' <=> Live(x)
      BY <1>1, <2>1 DEF Plug, Live, TypeOK
    <3> QED BY <1>1, <2>1, <3>1, <3>2 DEF Plug, GrabMatchesAccess
  <2>2. CASE Unplug(s)
    BY <1>1, <2>2 DEF Unplug, GrabMatchesAccess, Live, TypeOK
  <2>3. CASE ForeignGrab(s)
    BY <1>1, <2>3 DEF ForeignGrab, GrabMatchesAccess, Live, TypeOK
  <2>4. CASE ForeignRelease(s)
    BY <1>1, <2>4 DEF ForeignRelease, GrabMatchesAccess, Live, TypeOK
  <2>5. CASE Press(s)
    BY <1>1, <2>5 DEF Press, GrabMatchesAccess, Live
  <2> QED BY <1>2, <2>1, <2>2, <2>3, <2>4, <2>5
<1>6. Accounting'
  BY <1>1, <1>3 DEF Accounting, Failed, Active
<1> QED BY <1>1, <1>4, <1>5, <1>6 DEF SessionInv

LEMMA SafetyBegin ==
  ASSUME SessionInv, Reconcile \/ Poll \/ PollError \/ PollActive \/ Restart
  PROVE  SessionInv'
<1>1. TypeOK /\ TypeOK' /\ Grants /\ GrabMatchesAccess /\ Accounting
  BY TypeBegin DEF SessionInv
<1>2. ASSUME NEW devs \in Snapshots, NEW issue, NEW read,
             StartReconcile(devs, issue, read)
      PROVE  SessionInv'
  <2>1. Grants'
    BY <1>1, <1>2 DEF StartReconcile, Grants
  <2>2. GrabMatchesAccess'
    BY <1>1, <1>2 DEF StartReconcile, GrabMatchesAccess, Live
  <2>3. Accounting'
    BY <1>2 DEF StartReconcile, Accounting
  <2> QED BY <1>1, <2>1, <2>2, <2>3 DEF SessionInv
<1>3. CASE Reconcile
  BY <1>2, <1>3 DEF Reconcile
<1>4. CASE Poll
  BY <1>2, <1>4 DEF Poll
<1>5. CASE PollError
  BY <1>1, <1>5 DEF PollError, call, SessionInv, Grants, GrabMatchesAccess, Live,
     Accounting
<1>6. CASE PollActive
  <2>1. Grants' /\ Accounting'
    BY <1>1, <1>6 DEF PollActive, host, Grants, Accounting
  <2>2. GrabMatchesAccess'
    BY <1>1, <1>6 DEF PollActive, host, GrabMatchesAccess, Live
  <2> QED BY <1>1, <2>1, <2>2 DEF SessionInv
<1>7. CASE Restart
  <2>1. Grants'
    BY <1>1, <1>7, BoundsAssumption DEF Restart, call, Grants, TypeOK
  <2>2. GrabMatchesAccess'
    BY <1>1, <1>7 DEF Restart, GrabMatchesAccess, Released, Live, TypeOK
  <2>3. Accounting'
    BY <1>7 DEF Restart, call, Accounting
  <2> QED BY <1>1, <2>1, <2>2, <2>3 DEF SessionInv
<1> QED BY <1>3, <1>4, <1>5, <1>6, <1>7

LEMMA FailedKept ==
  ASSUME TypeOK, NEW e \in Events, output' = Append(output, e)
  PROVE  /\ \A s \in SourceIds : Failed(s) => Failed(s)'
         /\ \A s \in SourceIds :
              e.kind = "SourceError" /\ e.source = s => Failed(s)'
<1>1. /\ Len(output') \in DOMAIN output' /\ output'[Len(output')] = e
      /\ \A i \in DOMAIN output : i \in DOMAIN output' /\ output'[i] = output[i]
  BY AppendLast DEF TypeOK
<1> QED BY <1>1 DEF Failed, ReportsFailure

\* One device of the snapshot is dealt with: it is active, or reported.
LEMMA DeviceDone ==
  ASSUME TypeOK, Accounting, devices # <<>>, pc \in {"reconcile", "grab"},
         devices' = Tail(devices), discovered' = discovered,
         Active \subseteq Active',
         \A s \in SourceIds : Failed(s) => Failed(s)',
         NEW d \in SourceIds, d = Head(devices), d \in Active' \/ Failed(d)'
  PROVE  Accounting'
<1>1. /\ Head(devices) \in SourceIds
      /\ Elements(devices) = {Head(devices)} \cup Elements(devices')
  BY ElementsTail DEF TypeOK
<1>2. discovered \subseteq SourceIds
  BY DEF TypeOK
<1>3. Elements(devices') \subseteq discovered'
  BY <1>1 DEF Accounting
<1>4. ASSUME NEW s \in discovered
      PROVE  s \in Active' \/ s \in Elements(devices') \/ Failed(s)'
  <2>1. s \in SourceIds
    BY <1>2, <1>4
  <2>2. s \in Active \/ s \in Elements(devices) \/ Failed(s)
    BY <1>4 DEF Accounting
  <2>3. s \in Active \/ s = d \/ s \in Elements(devices') \/ Failed(s)
    BY <1>1, <2>2
  <2> QED BY <2>1, <2>3
<1> QED BY <1>3, <1>4 DEF Accounting

\* The provider's error on a device is reported; nothing else changes.
LEMMA SafetySkipFailed ==
  ASSUME SessionInv, TypeOK', NEW k \in {"Open", "ExclusiveGrab"},
         pc \in {"reconcile", "grab"}, devices # <<>>, SkipFailed(k)
  PROVE  SessionInv'
<1>1. TypeOK /\ Grants /\ GrabMatchesAccess /\ Accounting
  BY DEF SessionInv
<1>2. /\ output' = Append(output, Event("SourceError", Head(devices), k))
      /\ devices' = Tail(devices) /\ pc' = "reconcile"
      /\ UNCHANGED <<up, gen, holder, mode, opened, access, discovered>>
  BY DEF SkipFailed, DevicesAfterError
<1>3. Head(devices) \in SourceIds
  BY <1>1, ElementsTail DEF TypeOK
<1>4. Event("SourceError", Head(devices), k) \in Events
  BY <1>3, EventType DEF Kinds, Details
<1>5. ASSUME NEW d \in SourceIds, d = Head(devices)
      PROVE  Failed(d)' /\ \A s \in SourceIds : Failed(s) => Failed(s)'
  <2> DEFINE e == Event("SourceError", d, k)
  <2>1. e.kind = "SourceError" /\ e.source = d
    BY DEF Event
  <2>2. e \in Events /\ output' = Append(output, e)
    BY <1>2, <1>4, <1>5
  <2> HIDE DEF e
  <2> QED BY <1>1, <2>1, <2>2, FailedKept
<1>6. Active' = Active
  BY <1>2 DEF Active
<1>7. Accounting'
  BY <1>1, <1>2, <1>3, <1>5, <1>6, DeviceDone
<1>8. Grants'
  BY <1>1, <1>2 DEF Grants
<1>9. GrabMatchesAccess'
  BY <1>1, <1>2 DEF GrabMatchesAccess, Live
<1> QED BY <1>7, <1>8, <1>9 DEF SessionInv

\* A granted device becomes active with an access its mode allows.
LEMMA SafetyInsert ==
  ASSUME SessionInv, TypeOK', pc = "grab", NEW a \in Granted,
         Insert(Head(devices), a),
         mode = "Shared" => a = "Shared",
         mode = "Exclusive" => a = "Exclusive",
         mode = "PreferExclusive" => a # "Shared"
  PROVE  Grants' /\ Accounting'
<1>1. TypeOK /\ Grants /\ Accounting
  BY DEF SessionInv
<1>2. Head(devices) \in SourceIds /\ devices # <<>>
  BY <1>1, ElementsTail DEF TypeOK
<1>3. Active' = Active \cup {Head(devices)}
  BY <1>1, <1>2 DEF Insert, Active, TypeOK
<1>4. Event("Connected", Head(devices), a) \in Events
  BY <1>2, EventType DEF Kinds, Details
<1>5. \A s \in SourceIds : Failed(s) => Failed(s)'
  BY <1>1, <1>4, FailedKept DEF Insert
<1>6. Accounting'
  BY <1>1, <1>2, <1>3, <1>5, DeviceDone DEF Insert
<1>7. Grants'
  <2>1. \A s \in SourceIds : opened'[s] <= gen'[s]
    BY <1>1, <1>2 DEF Insert, Grants, TypeOK
  <2>2. pc' = "reconcile" /\ mode' = mode
    BY DEF Insert
  <2>3. \A s \in SourceIds : access'[s] = IF s = Head(devices) THEN a ELSE access[s]
    BY <1>1, <1>2 DEF Insert, TypeOK
  <2> QED BY <1>1, <2>1, <2>2, <2>3 DEF Grants
<1> QED BY <1>6, <1>7

\* Granted without a grab: the device was not active, so not the session's.
LEMMA InsertUngrabbed ==
  ASSUME SessionInv, TypeOK', pc = "grab", NEW a \in Granted \ {"Exclusive"},
         Insert(Head(devices), a), UNCHANGED holder
  PROVE  GrabMatchesAccess'
<1>1. TypeOK /\ Grants /\ GrabMatchesAccess
  BY DEF SessionInv
<1>2. Head(devices) \in SourceIds /\ access[Head(devices)] = "Closed"
  BY <1>1, ElementsTail DEF TypeOK, Grants
<1>3. holder[Head(devices)] # "session"
  BY <1>1, <1>2 DEF GrabMatchesAccess
<1> QED BY <1>1, <1>2, <1>3 DEF Insert, GrabMatchesAccess, Live, TypeOK

LEMMA SafetyRead ==
  ASSUME SessionInv, TypeOK', NEW s \in SourceIds,
         ReadIdle(s) \/ ReadInput(s) \/ ReadLost(s) \/ ReadFail(s)
  PROVE  SessionInv'
<1>1. /\ pc = "read"
      /\ UNCHANGED <<up, gen, holder, mode, opened, access, pc, discovered,
                     devices, fd>>
  BY DEF ReadIdle, ReadInput, ReadLost, ReadFail, Reading, host
<1>2. Grants' /\ Accounting'
  BY <1>1 DEF SessionInv, Grants, Accounting
<1>3. GrabMatchesAccess'
  BY <1>1 DEF SessionInv, GrabMatchesAccess, Live
<1> QED BY <1>2, <1>3 DEF SessionInv

LEMMA SafetyCall == ASSUME SessionInv, CallStep PROVE SessionInv'
<1>1. TypeOK /\ TypeOK' /\ Grants /\ GrabMatchesAccess /\ Accounting
  BY TypeCall DEF SessionInv
<1>2. ASSUME NEW s \in SourceIds, RemoveOne(s) PROVE SessionInv'
  <2>1. /\ pc = "reconcile" /\ s \notin discovered
        /\ UNCHANGED <<up, gen, mode, pc, discovered, devices>>
        /\ output' = Append(output, Event("Disconnected", s, "none"))
    BY <1>2 DEF RemoveOne, call, Removed
  <2>2. Grants'
    BY <1>1, <1>2, <2>1, BoundsAssumption DEF RemoveOne, Grants, TypeOK
  <2>3. GrabMatchesAccess'
    BY <1>1, <1>2 DEF RemoveOne, GrabMatchesAccess, Released, Live, TypeOK
  <2>4. \A x \in SourceIds : Failed(x) => Failed(x)'
    <3>1. Event("Disconnected", s, "none") \in Events
      BY EventType DEF Kinds, Details
    <3> QED BY <1>1, <2>1, <3>1, FailedKept
  <2>5. \A x \in discovered : x \in Active => x \in Active'
    BY <1>1, <1>2, <2>1 DEF RemoveOne, Active, TypeOK
  <2>6. Accounting'
    BY <1>1, <2>1, <2>4, <2>5 DEF Accounting, TypeOK
  <2> QED BY <1>1, <2>2, <2>3, <2>6 DEF SessionInv
<1>3. CASE SkipKnown
  <2>1. /\ devices # <<>> /\ Head(devices) \in Active
        /\ UNCHANGED <<up, gen, holder, mode, opened, access, pc, discovered, output>>
        /\ devices' = Tail(devices) /\ pc = "reconcile"
    BY <1>3 DEF SkipKnown, AtDevice, Known, host
  <2>2. Active' = Active /\ Head(devices) \in SourceIds
    BY <2>1 DEF Active
  <2>3. \A x \in SourceIds : Failed(x) => Failed(x)'
    BY <2>1 DEF Failed
  <2>4. Accounting'
    BY <1>1, <2>1, <2>2, <2>3, DeviceDone
  <2>5. Grants' /\ GrabMatchesAccess'
    BY <1>1, <2>1 DEF Grants, GrabMatchesAccess, Live
  <2> QED BY <1>1, <2>4, <2>5 DEF SessionInv
<1>4. CASE OpenNode
  <2>1. Head(devices) \in SourceIds /\ opened[Head(devices)] = 0
    BY <1>1, <1>4, ElementsTail DEF OpenNode, AtDevice, Known, Active, TypeOK
  <2>2. Grants'
    <3>1. fd' = gen[Head(devices)] /\ gen[Head(devices)] \in Int
      BY <1>1, <1>4, <2>1, BoundsAssumption DEF OpenNode, TypeOK
    <3>2. Removed' = {}
      BY <1>4 DEF OpenNode, AtDevice, Removed, Active
    <3> QED BY <1>1, <1>4, <2>1, <3>1, <3>2 DEF OpenNode, host, Grants
  <2>3. GrabMatchesAccess' /\ Accounting'
    BY <1>1, <1>4
    DEF OpenNode, AtDevice, host, GrabMatchesAccess, Live, Accounting, Failed, Active
  <2> QED BY <1>1, <2>2, <2>3 DEF SessionInv
<1>5. CASE OpenFail
  BY <1>1, <1>5, SafetySkipFailed DEF OpenFail, AtDevice
<1>6. CASE GrantShared
  <2>1. /\ pc = "grab" /\ mode = "Shared" /\ UNCHANGED holder
        /\ Insert(Head(devices), "Shared") /\ "Shared" \in Granted
    BY <1>6 DEF GrantShared, Granted
  <2>2. Grants' /\ Accounting' /\ GrabMatchesAccess'
    BY <1>1, <2>1, SafetyInsert, InsertUngrabbed
  <2> QED BY <1>1, <2>2 DEF SessionInv
<1>7. CASE GrantExclusive
  <2>1. /\ pc = "grab" /\ mode # "Shared" /\ Grabbable(Head(devices))
        /\ Insert(Head(devices), "Exclusive") /\ "Exclusive" \in Granted
        /\ holder' = [holder EXCEPT ![Head(devices)] = "session"]
    BY <1>7 DEF GrantExclusive, Granted
  <2>2. Grants' /\ Accounting'
    BY <1>1, <2>1, SafetyInsert
  <2>3. Head(devices) \in SourceIds
    BY <1>1, <2>1, ElementsTail DEF TypeOK
  <2>4. GrabMatchesAccess'
    BY <1>1, <2>1, <2>3 DEF Insert, Grabbable, GrabMatchesAccess, Live, TypeOK
  <2> QED BY <1>1, <2>2, <2>4 DEF SessionInv
<1>8. CASE GrantFallback
  <2>1. /\ pc = "grab" /\ mode = "PreferExclusive" /\ UNCHANGED holder
        /\ Insert(Head(devices), "SharedFallback") /\ "SharedFallback" \in Granted
    BY <1>8 DEF GrantFallback, Granted
  <2>2. Grants' /\ Accounting' /\ GrabMatchesAccess'
    BY <1>1, <2>1, SafetyInsert, InsertUngrabbed
  <2> QED BY <1>1, <2>2 DEF SessionInv
<1>9. CASE GrabFail
  BY <1>1, <1>9, SafetySkipFailed DEF GrabFail, TypeOK
<1>10. CASE FinishReconcile
  <2>1. /\ pc' \in {"read", "idle"}
        /\ UNCHANGED <<up, gen, holder, mode, opened, access>>
    BY <1>10 DEF FinishReconcile, host
  <2>2. Grants' /\ GrabMatchesAccess' /\ Accounting'
    BY <1>1, <2>1 DEF Grants, GrabMatchesAccess, Live, Accounting
  <2> QED BY <1>1, <2>2 DEF SessionInv
<1>11. CASE FinishRead
  <2>1. pc' = "idle" /\ UNCHANGED <<up, gen, holder, mode, opened, access>>
    BY <1>11 DEF FinishRead, host
  <2>2. Grants' /\ GrabMatchesAccess' /\ Accounting'
    BY <1>1, <2>1 DEF Grants, GrabMatchesAccess, Live, Accounting
  <2> QED BY <1>1, <2>2 DEF SessionInv
<1> QED
  BY <1>1, <1>2, <1>3, <1>4, <1>5, <1>6, <1>7, <1>8, <1>9, <1>10, <1>11, SafetyRead
  DEF CallStep

LEMMA SafetyStep == SessionInv /\ [Next]_vars => SessionInv'
<1> SUFFICES ASSUME SessionInv, [Next]_vars PROVE SessionInv'
  OBVIOUS
<1>1. CASE UNCHANGED vars
  BY <1>1 DEF vars, SessionInv, TypeOK, Grants, GrabMatchesAccess, Live, Accounting,
     Failed, Active, Removed
<1> QED BY <1>1, SafetyHost, SafetyBegin, SafetyCall DEF Next

THEOREM SessionInvariant == Spec => []SessionInv
  BY SafetyInit, SafetyStep, PTL DEF Spec

-----------------------------------------------------------------------------
(* What follows from it.                                                   *)

\* The kernel's grabs and the accesses told to the consumer never disagree.
THEOREM GrabsMatch == Spec => []GrabMatchesAccess
<1>1. SessionInv => GrabMatchesAccess
  BY DEF SessionInv
<1> QED BY <1>1, SessionInvariant, PTL

\* Exclusive mode fails closed: no live handle is read without its grab.
THEOREM FailsClosed == Spec => []ExclusiveFailsClosed
<1>1. SessionInv => ExclusiveFailsClosed
  BY DEF SessionInv, Grants, GrabMatchesAccess, ExclusiveFailsClosed, Active, TypeOK
<1> QED BY <1>1, SessionInvariant, PTL

\* Reconciliation accounts for every device of the snapshot.
THEOREM AccountsForAll == Spec => []ReconcileAccounts
<1>1. SessionInv => ReconcileAccounts
  BY ElementsEmpty DEF SessionInv, Accounting, ReconcileAccounts, Removed
<1> QED BY <1>1, SessionInvariant, PTL

-----------------------------------------------------------------------------
(* The session implements SourceLifecycle.                                 *)

LEMMA LatestAppend ==
  ASSUME TypeOK, NEW e \in Events, output' = Append(output, e)
  PROVE  Latest' = e
<1>1. output' # <<>> /\ output'[Len(output')] = e
  BY AppendLast DEF TypeOK
<1>2. Latest' = output'[Len(output')]
  BY <1>1 DEF Latest
<1> QED BY <1>1, <1>2

LEMMA LifecycleInit == Init => Lifecycle!Init
  BY DEF Init, Lifecycle!Init, Latest, Lifecycle!NoEvent, Lifecycle!NoSource, NoSource

LEMMA HostStutters == HostStep => UNCHANGED <<mode, access, Latest>>
  BY DEF HostStep, Plug, Unplug, ForeignGrab, ForeignRelease, Press, call, Latest

\* A call that begins has reported its snapshot's issues, or nothing yet.
LEMMA BeginMaps ==
  ASSUME SessionInv, Reconcile \/ Poll \/ PollError \/ PollActive \/ Restart
  PROVE  Lifecycle!Next \/ UNCHANGED <<mode, access, Latest>>
<1>1. ASSUME NEW devs, NEW issue, NEW read, StartReconcile(devs, issue, read)
      PROVE  Lifecycle!StartCall
  <2>1. output' = <<Event("DiscoveryError", NoSource, "none")>> \/ output' = <<>>
    BY <1>1 DEF StartReconcile
  <2>2. Latest' \in {Lifecycle!NoEvent, Event("DiscoveryError", NoSource, "none")}
    <3>1. CASE output' = <<>>
      BY <3>1 DEF Latest, Lifecycle!NoEvent, Lifecycle!NoSource, NoSource
    <3>2. CASE output' = <<Event("DiscoveryError", NoSource, "none")>>
      BY <3>2 DEF Latest
    <3> QED BY <2>1, <3>1, <3>2
  <2> QED
    BY <1>1, <2>2 DEF StartReconcile, Lifecycle!StartCall, Event, Lifecycle!Event,
       NoSource, Lifecycle!NoSource
<1>2. CASE Reconcile
  BY <1>1, <1>2 DEF Reconcile, Lifecycle!Next
<1>3. CASE Poll
  BY <1>1, <1>3 DEF Poll, Lifecycle!Next
<1>4. CASE PollError \/ PollActive
  BY <1>4 DEF PollError, PollActive, call, Latest
<1>5. CASE Restart
  BY <1>5 DEF Restart, SessionInv, TypeOK, Latest, Lifecycle!Next, Lifecycle!Restart,
     Lifecycle!NoEvent, Lifecycle!NoSource, NoSource
<1> QED BY <1>2, <1>3, <1>4, <1>5

LEMMA CallMaps ==
  ASSUME SessionInv, CallStep
  PROVE  Lifecycle!Next \/ UNCHANGED <<mode, access, Latest>>
<1>1. TypeOK /\ Grants
  BY DEF SessionInv
<1>2. ASSUME NEW s \in SourceIds, RemoveOne(s) PROVE Lifecycle!Disconnect(s)
  <2>1. access[s] # "Closed"
    BY <1>1, <1>2 DEF RemoveOne, Removed, Active, TypeOK
  <2>2. Latest' = Event("Disconnected", s, "none")
    BY <1>1, <1>2, LatestAppend, EventType DEF RemoveOne, Kinds, Details
  <2> QED
    BY <1>2, <2>1, <2>2 DEF RemoveOne, Lifecycle!Disconnect, Event, Lifecycle!Event
<1>3. CASE SkipKnown \/ OpenNode
  BY <1>3 DEF SkipKnown, OpenNode, Latest
<1>4. ASSUME NEW k \in {"Open", "ExclusiveGrab"}, SkipFailed(k),
             pc \in {"reconcile", "grab"}, devices # <<>>,
             Head(devices) \notin Active, k = "ExclusiveGrab" => mode = "Exclusive"
      PROVE  Lifecycle!Next
  <2>1. PICK s \in SourceIds : s = Head(devices)
    BY <1>1, <1>4, ElementsTail DEF TypeOK
  <2>2. Latest' = Event("SourceError", s, k)
    BY <1>1, <1>4, <2>1, LatestAppend, EventType DEF SkipFailed, Kinds, Details
  <2>3. Lifecycle!OpenError(s)
    BY <1>1, <1>4, <2>1, <2>2
    DEF SkipFailed, Lifecycle!OpenError, Event, Lifecycle!Event, Active, TypeOK
  <2> QED BY <2>3 DEF Lifecycle!Next
<1>5. CASE OpenFail
  BY <1>4, <1>5 DEF OpenFail, AtDevice, Known
<1>6. CASE GrabFail
  BY <1>1, <1>4, <1>6, ElementsTail DEF GrabFail, TypeOK, Grants, Active
<1>7. ASSUME NEW a \in Granted, pc = "grab", Insert(Head(devices), a),
             a \in Lifecycle!Allowed(mode)
      PROVE  Lifecycle!Next
  <2>1. PICK s \in SourceIds : s = Head(devices)
    BY <1>1, <1>7, ElementsTail DEF TypeOK
  <2>2. Latest' = Event("Connected", s, a)
    BY <1>1, <1>7, <2>1, LatestAppend, EventType DEF Insert, Kinds, Details
  <2>3. access[s] = "Closed"
    BY <1>1, <1>7, <2>1 DEF Grants, TypeOK
  <2>4. Lifecycle!Connect(s)
    BY <1>7, <2>1, <2>2, <2>3
    DEF Insert, Lifecycle!Connect, Event, Lifecycle!Event
  <2> QED BY <2>4 DEF Lifecycle!Next
<1>8. CASE GrantShared
  BY <1>7, <1>8 DEF GrantShared, Lifecycle!Allowed, Granted
<1>9. CASE GrantExclusive
  <2>1. mode \in {"Exclusive", "PreferExclusive"}
    BY <1>1, <1>9, ModesAssumption DEF GrantExclusive, AllModes, TypeOK
  <2> QED BY <1>7, <1>9, <2>1 DEF GrantExclusive, Lifecycle!Allowed, Granted
<1>10. CASE GrantFallback
  BY <1>7, <1>10 DEF GrantFallback, Lifecycle!Allowed, Granted
<1>11. CASE FinishReconcile \/ FinishRead
  <2>1. /\ UNCHANGED <<mode, access>>
        /\ Latest' = Latest \/ Latest' = Lifecycle!NoEvent
    BY <1>11
    DEF FinishReconcile, FinishRead, Latest, Lifecycle!NoEvent, Lifecycle!NoSource,
        NoSource
  <2> QED BY <2>1 DEF Lifecycle!Next, Lifecycle!StartCall
<1>12. ASSUME NEW s \in SourceIds,
              ReadIdle(s) \/ ReadInput(s) \/ ReadLost(s) \/ ReadFail(s)
       PROVE  Lifecycle!Next \/ UNCHANGED <<mode, access, Latest>>
  <2>1. access[s] # "Closed" /\ access[s] \in Granted
    BY <1>1, <1>12
    DEF ReadIdle, ReadInput, ReadLost, ReadFail, Reading, Active, TypeOK
  <2>2. CASE ReadIdle(s)
    BY <2>2 DEF ReadIdle, Latest
  <2>3. CASE ReadInput(s)
    <3>1. Latest' = Event("Input", s, access[s])
      BY <1>1, <2>1, <2>3, LatestAppend, EventType DEF ReadInput, Kinds, Details
    <3> QED
      BY <2>1, <2>3, <3>1
      DEF ReadInput, Lifecycle!Next, Lifecycle!Deliver, Event, Lifecycle!Event
  <2>4. ASSUME NEW d \in {"Read", "SynchronizationLost"},
               output' = Append(output, Event("SourceError", s, d)),
               UNCHANGED <<mode, access>>
        PROVE  Lifecycle!Next
    <3>1. Latest' = Event("SourceError", s, d)
      BY <1>1, <2>4, LatestAppend, EventType DEF Kinds, Details
    <3> QED
      BY <2>1, <2>4, <3>1
      DEF Lifecycle!Next, Lifecycle!ReadError, Event, Lifecycle!Event
  <2>5. CASE ReadLost(s)
    BY <2>4, <2>5 DEF ReadLost
  <2>6. CASE ReadFail(s)
    BY <2>4, <2>6 DEF ReadFail
  <2> QED BY <1>12, <2>2, <2>3, <2>5, <2>6
<1> QED
  BY <1>2, <1>3, <1>5, <1>6, <1>8, <1>9, <1>10, <1>11, <1>12
  DEF CallStep, Lifecycle!Next

\* Every behaviour of the session is, for its consumer, one of SourceLifecycle.
THEOREM Implements == Spec => ImplementsLifecycle
<1>1. SessionInv /\ [Next]_vars => [Lifecycle!Next]_<<mode, access, Latest>>
  <2> SUFFICES ASSUME SessionInv, [Next]_vars
               PROVE  Lifecycle!Next \/ UNCHANGED <<mode, access, Latest>>
    OBVIOUS
  <2>1. CASE UNCHANGED vars
    BY <2>1 DEF vars, Latest
  <2> QED BY <2>1, HostStutters, BeginMaps, CallMaps DEF Next
<1> QED
  BY <1>1, LifecycleInit, SessionInvariant, PTL
  DEF Spec, ImplementsLifecycle, Lifecycle!Spec
=============================================================================
