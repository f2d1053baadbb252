-------------------------- MODULE TesterApp_proofs --------------------------
(***************************************************************************)
(* GrabsOfCaptures and ListFollowsSession for any number of nodes,         *)
(* captures and changes of the host, and any capacity of the queue.        *)
(*                                                                         *)
(* The grabs are not inductive by themselves: what a capture's dead        *)
(* handles are, and that its discovery channel holds sets of nodes, must   *)
(* be known to see that an iteration opens only sources it has no handle   *)
(* of.  The list needs what the threads are doing: the capture that runs   *)
(* was not told to stop, so it is not the one that returns, and a batch is *)
(* sent before the next iteration, so nothing is announced in between.     *)
(* The rest is about the events under way, whose effect on the list is a   *)
(* recursive function: Prefixes has the induction.                         *)
(***************************************************************************)
EXTENDS TesterApp, Prefixes_proofs, FiniteSetTheorems, TLAPS

AccessesOrClosed == {"Closed", "Shared", "Exclusive", "SharedFallback"}

HandleTypes ==
  /\ holder \in [SourceIds -> Captures \cup {Nobody}]
  /\ link \in [Captures -> [SourceIds -> AccessesOrClosed]]
  /\ dead \in [Captures -> SUBSET SourceIds]
  /\ slot \in [Captures -> SUBSET SUBSET SourceIds]

\* A dead handle is still a handle.
DeadLinked == \A k \in Captures : dead[k] \subseteq Linked(k)

HandleInv == HandleTypes /\ DeadLinked /\ GrabsOfCaptures

handles == <<holder, link, dead, slot>>

-----------------------------------------------------------------------------
\* Nobody is the number of no capture.
LEMMA NobodyIsNone == Nobody \notin Captures
  BY AppAssumption DEF Nobody, Captures

\* Steps that leave handles, grabs and channels alone.
LEMMA HandlesKept ==
  ASSUME HandleInv, UNCHANGED handles
  PROVE  HandleInv'
  BY DEF HandleInv, HandleTypes, DeadLinked, GrabsOfCaptures, Linked, handles

\* A node that goes takes its grab with it, and leaves only dead handles.
LEMMA UnplugKeeps ==
  ASSUME HandleInv, NEW s \in SourceIds, Unplug(s)
  PROVE  HandleInv'
<1> USE DEF HandleInv
<1>1. HandleTypes'
  BY DEF HandleTypes, Unplug, Linked
<1>2. \A k \in Captures : dead'[k] = dead[k] \cup ({s} \cap Linked(k))
  BY DEF Unplug
<1>3. \A k \in Captures : Linked(k)' = Linked(k)
  BY DEF Unplug, Linked
<1>4. DeadLinked'
  BY <1>2, <1>3 DEF DeadLinked
<1>5. GrabsOfCaptures'
  <2> SUFFICES ASSUME NEW r \in SourceIds, NEW k \in Captures
               PROVE  holder'[r] = k <=> link'[k][r] = "Exclusive" /\ r \notin dead'[k]
    BY DEF GrabsOfCaptures
  <2>1. link' = link
    BY DEF Unplug
  <2>2. CASE r = s
    <3>1. holder'[r] # k
      BY <2>2, NobodyIsNone DEF Unplug, HandleTypes
    <3>2. link[k][r] = "Exclusive" => r \in dead'[k]
      BY <2>2, <1>2 DEF Linked
    <3> QED BY <3>1, <3>2, <2>1
  <2>3. CASE r # s
    <3>1. holder'[r] = holder[r] /\ (r \in dead'[k] <=> r \in dead[k])
      BY <2>3, <1>2 DEF Unplug, HandleTypes
    <3> QED BY <3>1, <2>1 DEF GrabsOfCaptures
  <2> QED BY <2>2, <2>3
<1> QED BY <1>1, <1>4, <1>5

\* A thread that returns drops its session, handles and grabs.
LEMMA ExitKeeps ==
  ASSUME HandleInv, NEW k \in Captures, Exit(k)
  PROVE  HandleInv'
<1> USE DEF HandleInv
<1>1. /\ link' = [link EXCEPT ![k] = [s \in SourceIds |-> "Closed"]]
      /\ dead' = [dead EXCEPT ![k] = {}]
      /\ slot' = [slot EXCEPT ![k] = {}]
      /\ holder' = [s \in SourceIds |-> IF holder[s] = k THEN Nobody ELSE holder[s]]
  BY DEF Exit, Ungrabbed
<1>2. HandleTypes'
  BY <1>1 DEF HandleTypes, AccessesOrClosed
<1>3. DeadLinked'
  BY <1>1 DEF HandleTypes, DeadLinked, Linked
<1>4. GrabsOfCaptures'
  BY <1>1, NobodyIsNone DEF HandleTypes, GrabsOfCaptures
<1> QED BY <1>2, <1>3, <1>4

\* A scan is a set of nodes.
LEMMA DiscoverKeeps ==
  ASSUME HandleInv, NEW k \in Captures, Discover(k)
  PROVE  HandleInv'
<1> USE DEF HandleInv
<1>1. HandleTypes'
  BY DEF Discover, HandleTypes, host
<1>2. DeadLinked' /\ GrabsOfCaptures'
  BY DEF Discover, host, DeadLinked, GrabsOfCaptures, Linked
<1> QED BY <1>1, <1>2

\* An iteration: sources that went lose handle and grab, a new one is grabbed
\* only when nobody grabs it, and an open one keeps what it has.
LEMMA IterateKeeps ==
  ASSUME HandleInv, NEW k \in Captures, Iterate(k)
  PROVE  HandleInv'
<1> USE DEF HandleInv
<1> DEFINE gone == Linked(k) \ Found(k)
           new  == Found(k) \ Linked(k)
           left == {s \in SourceIds : Reconciled(k)[s] # "Closed"}
<1>1. /\ link' = [link EXCEPT ![k] = Reconciled(k)]
      /\ dead' = [dead EXCEPT ![k] = @ \cap left]
      /\ slot' = [slot EXCEPT ![k] = {}]
      /\ holder' = [s \in SourceIds |->
                      IF s \in new /\ Reconciled(k)[s] = "Exclusive" THEN k
                      ELSE Ungrabbed(k, gone)[s]]
  BY DEF Iterate
<1>2. \A s \in SourceIds : Grant(k, s) \in AccessesOrClosed
  BY DEF Grant, AccessesOrClosed
<1>3. Reconciled(k) \in [SourceIds -> AccessesOrClosed]
  BY <1>2 DEF Reconciled, HandleTypes, AccessesOrClosed
<1>4. \A s \in SourceIds :
        Reconciled(k)[s] = IF s \notin Found(k) THEN "Closed"
                           ELSE IF link[k][s] = "Closed" THEN Grant(k, s) ELSE link[k][s]
  BY DEF Reconciled
<1>5. \A s \in SourceIds :
        Ungrabbed(k, gone)[s] = IF s \in gone /\ holder[s] = k THEN Nobody ELSE holder[s]
  BY DEF Ungrabbed
<1>6. HandleTypes'
  <2>1. holder' \in [SourceIds -> Captures \cup {Nobody}]
    BY <1>1, <1>5 DEF HandleTypes
  <2>2. link' \in [Captures -> [SourceIds -> AccessesOrClosed]]
    BY <1>1, <1>3 DEF HandleTypes
  <2>3. dead' \in [Captures -> SUBSET SourceIds]
    BY <1>1 DEF HandleTypes
  <2>4. slot' \in [Captures -> SUBSET SUBSET SourceIds]
    BY <1>1 DEF HandleTypes
  <2> QED BY <2>1, <2>2, <2>3, <2>4 DEF HandleTypes
<1>7. \A j \in Captures : j # k => link'[j] = link[j] /\ dead'[j] = dead[j]
  BY <1>1 DEF HandleTypes
<1>8. link'[k] = Reconciled(k) /\ dead'[k] = dead[k] \cap left
  BY <1>1 DEF HandleTypes
<1>9. DeadLinked'
  BY <1>7, <1>8 DEF DeadLinked, Linked
<1>10. GrabsOfCaptures'
  <2> SUFFICES ASSUME NEW s \in SourceIds, NEW j \in Captures
               PROVE  holder'[s] = j <=> link'[j][s] = "Exclusive" /\ s \notin dead'[j]
    BY DEF GrabsOfCaptures
  <2>1. /\ \A i \in Captures :
             holder[s] = i <=> link[i][s] = "Exclusive" /\ s \notin dead[i]
        /\ s \in Linked(k) <=> link[k][s] # "Closed"
        /\ s \in dead[k] => s \in Linked(k)
    BY DEF GrabsOfCaptures, DeadLinked, Linked
  <2>2. holder'[s] = IF s \in new /\ Reconciled(k)[s] = "Exclusive" THEN k
                     ELSE IF s \in gone /\ holder[s] = k THEN Nobody ELSE holder[s]
    BY <1>1, <1>5
  <2>3. s \in left <=> Reconciled(k)[s] # "Closed"
    OBVIOUS
  <2>4. CASE s \in new
    \* Opened now: grabbed when the grant says so, and then it was free.
    <3>1. /\ link[k][s] = "Closed" /\ s \notin dead[k] /\ s \notin gone
          /\ Reconciled(k)[s] = Grant(k, s)
      BY <2>4, <2>1, <1>4
    <3>2. CASE Grant(k, s) = "Exclusive"
      <4>1. holder[s] = Nobody
        BY <3>2 DEF Grant
      <4>2. holder'[s] = k
        BY <3>1, <3>2, <2>2, <2>4
      <4>3. link'[k][s] = "Exclusive" /\ s \notin dead'[k]
        BY <1>8, <3>1, <3>2
      <4>4. j # k => ~(link'[j][s] = "Exclusive" /\ s \notin dead'[j])
        BY <4>1, <1>7, <2>1, NobodyIsNone
      <4> QED BY <4>2, <4>3, <4>4
    <3>3. CASE Grant(k, s) # "Exclusive"
      <4>1. holder'[s] = holder[s]
        BY <3>1, <3>3, <2>2
      <4>2. link'[k][s] # "Exclusive" /\ link[k][s] # "Exclusive"
        BY <1>8, <3>1, <3>3
      <4> QED BY <4>1, <4>2, <1>7, <2>1
    <3> QED BY <3>2, <3>3
  <2>5. CASE s \in gone
    <3>1. Reconciled(k)[s] = "Closed"
      BY <2>5, <1>4
    <3>2. holder'[s] = IF holder[s] = k THEN Nobody ELSE holder[s]
      BY <2>2, <2>5, <3>1
    <3>3. CASE j = k
      BY <3>1, <3>2, <3>3, <1>8, NobodyIsNone
    <3>4. CASE j # k
      BY <3>2, <3>4, <1>7, <2>1, NobodyIsNone
    <3> QED BY <3>3, <3>4
  <2>6. CASE s \notin new /\ s \notin gone
    <3>1. Reconciled(k)[s] = link[k][s]
      BY <2>6, <2>1, <1>4
    <3>2. holder'[s] = holder[s]
      BY <2>2, <2>6
    <3>3. s \in dead'[k] <=> s \in dead[k]
      BY <1>8, <2>1, <2>3, <3>1
    <3> QED BY <3>1, <3>2, <3>3, <1>7, <1>8, <2>1
  <2> QED BY <2>4, <2>5, <2>6
<1> QED BY <1>6, <1>9, <1>10

-----------------------------------------------------------------------------
\* The invariant of the handles (CaptureSession's active sources, the kernel's
\* grabs and the discovery channels) holds initially and through every step.
THEOREM HandlesInvariant == Spec => []HandleInv
<1>1. Init => HandleInv
  BY NobodyIsNone
  DEF Init, HandleInv, HandleTypes, DeadLinked, GrabsOfCaptures, AccessesOrClosed
<1>2. HandleInv /\ [Next]_vars => HandleInv'
  <2> SUFFICES ASSUME HandleInv, [Next]_vars PROVE HandleInv'
    OBVIOUS
  <2>1. CASE UNCHANGED vars
    BY <2>1, HandlesKept DEF vars, handles
  <2>2. ASSUME NEW s \in SourceIds, Plug(s) PROVE HandleInv'
    BY <2>2, HandlesKept DEF Plug, handles, threads
  <2>3. ASSUME NEW s \in SourceIds, Unplug(s) PROVE HandleInv'
    BY <2>3, UnplugKeeps
  <2>4. CASE StopCapture \/ StartCapture \/ Drain
    BY <2>4, HandlesKept DEF StopCapture, StartCapture, Drain, handles, threads, host
  <2>5. ASSUME NEW k \in Captures, Discover(k) PROVE HandleInv'
    BY <2>5, DiscoverKeeps
  <2>6. ASSUME NEW k \in Captures, Capture(k) PROVE HandleInv'
    <3>1. CASE Stopped(k) \/ SendFails(k)
      BY <3>1, ExitKeeps DEF Stopped, SendFails
    <3>2. CASE Top(k) \/ Send(k) \/ Sleep(k)
      BY <3>2, HandlesKept DEF Top, Send, Sleep, handles, host
    <3>3. CASE Iterate(k)
      BY <3>3, IterateKeeps
    <3> QED BY <2>6, <3>1, <3>2, <3>3 DEF Capture
  <2> QED BY <2>1, <2>2, <2>3, <2>4, <2>5, <2>6 DEF Next
<1> QED BY <1>1, <1>2, PTL DEF Spec

\* However many captures overlap and whatever the host does, the kernel's grab of
\* a source is with the capture whose live handle was reported Exclusive, and only
\* then.
THEOREM GrabsBelong == Spec => []GrabsOfCaptures
<1>1. HandleInv => GrabsOfCaptures
  BY DEF HandleInv
<1> QED BY <1>1, HandlesInvariant, PTL
-----------------------------------------------------------------------------
(* The events of an iteration: those of some sources, in the order of ids. *)

Ascending(ids, S) ==
  /\ \A s \in S : \E i \in DOMAIN ids : ids[i] = s
  /\ \A i, j \in DOMAIN ids : i < j => ids[i] < ids[j]

\* A finite set of numbers has an ascending sequence: its smallest element, and that
\* of the others.
LEMMA OrderExists ==
  ASSUME NEW S \in SUBSET Nat, IsFiniteSet(S)
  PROVE  \E ids \in [1..Cardinality(S) -> S] : Ascending(ids, S)
<1> DEFINE Has(T) == \E ids \in [1..Cardinality(T) -> T] : Ascending(ids, T)
           N == {n \in Nat : \A T \in SUBSET Nat :
                               IsFiniteSet(T) /\ Cardinality(T) = n => Has(T)}
<1>1. 0 \in N
  <2> SUFFICES ASSUME NEW T \in SUBSET Nat, IsFiniteSet(T), Cardinality(T) = 0
               PROVE  Has(T)
    OBVIOUS
  <2>1. T = {}
    BY FS_EmptySet
  <2> DEFINE ids == [i \in 1..0 |-> 0]
  <2>2. ids \in [1..0 -> T] /\ DOMAIN ids = {}
    BY <2>1
  <2>3. Ascending(ids, T)
    BY <2>1, <2>2 DEF Ascending
  <2> QED BY <2>2, <2>3
<1>2. \A n \in Nat : n \in N => n + 1 \in N
  <2> SUFFICES ASSUME NEW n \in Nat, n \in N,
                      NEW T \in SUBSET Nat, IsFiniteSet(T), Cardinality(T) = n + 1
               PROVE  Has(T)
    OBVIOUS
  <2>1. T # {}
    BY FS_EmptySet
  <2>2. PICK m \in T : \A y \in T : ~(<<y, m>> \in OpToRel(<, Nat))
    BY <2>1, NatLessThanWellFounded, WFMin
  <2>3. \A y \in T \ {m} : m < y
    <3>1. OpToRel(<, Nat) = {p \in Nat \X Nat : p[1] < p[2]}
      BY DEF OpToRel
    <3>2. \A y \in T : y \in Nat /\ m \in Nat /\ ~(y < m)
      BY <2>2, <3>1
    <3> QED BY <3>2
  <2> DEFINE R == T \ {m}
  <2>4. R \in SUBSET Nat /\ IsFiniteSet(R) /\ Cardinality(R) = n
    <3>1. IsFiniteSet(R) /\ Cardinality(R) = (n + 1) - 1
      BY FS_RemoveElement
    <3> QED BY <3>1
  <2> HIDE DEF Has
  <2>5. Has(R)
    BY <2>4
  <2> USE DEF Has
  <2>6. PICK ids \in [1..n -> R] : Ascending(ids, R)
    BY <2>4, <2>5
  <2> DEFINE all == [i \in 1..(n + 1) |-> IF i = 1 THEN m ELSE ids[i - 1]]
  <2>7. \A i \in 1..(n + 1) : i # 1 => i - 1 \in 1..n
    OBVIOUS
  <2>8. all \in [1..(n + 1) -> T]
    BY <2>6, <2>7
  <2>9. Ascending(all, T)
    <3>1. ASSUME NEW s \in T PROVE \E i \in 1..(n + 1) : all[i] = s
      <4>1. CASE s = m
        <5>1. 1 \in 1..(n + 1) /\ all[1] = m
          OBVIOUS
        <5> QED BY <4>1, <5>1
      <4>2. CASE s # m
        <5>1. PICK i \in 1..n : ids[i] = s
          BY <2>6, <4>2 DEF Ascending
        <5>2. i + 1 \in 1..(n + 1) /\ i + 1 # 1 /\ (i + 1) - 1 = i
          OBVIOUS
        <5> QED BY <5>1, <5>2
      <4> QED BY <4>1, <4>2
    <3>2. ASSUME NEW i \in 1..(n + 1), NEW j \in 1..(n + 1), i < j
          PROVE  all[i] < all[j]
      <4>1. j # 1 /\ j - 1 \in 1..n /\ all[j] = ids[j - 1]
        BY <3>2
      <4>2. CASE i = 1
        BY <2>3, <2>6, <4>1, <4>2
      <4>3. CASE i # 1
        <5>1. i - 1 \in 1..n /\ i - 1 < j - 1 /\ all[i] = ids[i - 1]
          BY <3>2, <4>3
        <5> QED BY <2>6, <4>1, <5>1 DEF Ascending
      <4> QED BY <4>2, <4>3
    <3> QED BY <3>1, <3>2, <2>8 DEF Ascending
  <2> QED BY <2>8, <2>9
<1> HIDE DEF Has, N
<1>3. \A n \in Nat : n \in N
  BY <1>1, <1>2, SetInduction
<1>4. Cardinality(S) \in Nat
  BY FS_CardinalityType
<1> QED BY <1>3, <1>4 DEF Has, N

Kinds == {"Connected", "Disconnected", "SourceError", "Input"}
AppEvents == [kind : Kinds, source : SourceIds, device : {<<>>}, access : AccessesOrClosed]

\* The ordered events are those of the sources: all of them, and no other.
LEMMA OrderedEvents ==
  ASSUME NEW T \in SUBSET SourceIds, NEW events \in [T -> AppEvents]
  PROVE  /\ Ordered(events) \in Seq(AppEvents)
         /\ \A i \in 1..Len(Ordered(events)) : \E s \in T : Ordered(events)[i] = events[s]
         /\ \A s \in T : \E i \in 1..Len(Ordered(events)) : Ordered(events)[i] = events[s]
<1> DEFINE ids == InOrder(T)
           q == [i \in DOMAIN ids |-> events[ids[i]]]
<1>1. T \in SUBSET Nat /\ IsFiniteSet(T)
  BY AppAssumption, FS_Subset
<1>2. Cardinality(T) \in Nat
  BY <1>1, FS_CardinalityType
<1>3. \E x \in [1..Cardinality(T) -> T] : Ascending(x, T)
  BY <1>1, OrderExists
<1>4. ids = CHOOSE x \in [1..Cardinality(T) -> T] : Ascending(x, T)
  BY DEF InOrder, Ascending
<1>5. ids \in [1..Cardinality(T) -> T] /\ Ascending(ids, T)
  BY <1>3, <1>4
<1>6. Ordered(events) = q
  BY DEF Ordered
<1> HIDE DEF ids
<1>7. q \in Seq(AppEvents) /\ Len(q) = Cardinality(T) /\ DOMAIN ids = 1..Len(q)
  <2>1. q \in [1..Cardinality(T) -> AppEvents]
    BY <1>5
  <2> QED BY <1>2, <1>5, <2>1
<1>8. \A i \in DOMAIN ids : q[i] = events[ids[i]] /\ ids[i] \in T
  BY <1>5
<1> HIDE DEF q
<1> QED BY <1>5, <1>6, <1>7, <1>8 DEF Ascending
-----------------------------------------------------------------------------
(* The list after some events.                                             *)

Slots == [device : {<<>>}, access : AccessesOrClosed \cup {"Absent"}, forced : {FALSE}]
Lists == [SourceIds -> Slots]

\* What one event makes of the entry of a source.
EntryAfter(entry, e, s) ==
  IF s # e.source THEN entry
  ELSE IF e.kind = "Connected"
  THEN [device |-> e.device, access |-> e.access, forced |-> FALSE]
  ELSE IF e.kind = "Disconnected" THEN Absent
  ELSE entry

\* One event, at its source and at the others.
LEMMA AfterEvent ==
  ASSUME NEW list \in Lists, NEW e \in AppEvents
  PROVE  /\ SourcesAfter(list, e) \in Lists
         /\ \A s \in SourceIds : SourcesAfter(list, e)[s] = EntryAfter(list[s], e, s)
<1>1. \A s \in SourceIds : SourcesAfter(list, e)[s] = EntryAfter(list[s], e, s)
  BY DEF SourcesAfter, Lists, EntryAfter
<1>2. Absent \in Slots
      /\ [device |-> e.device, access |-> e.access, forced |-> FALSE] \in Slots
  BY DEF Absent, Slots, AppEvents
<1>3. \A s \in SourceIds : SourcesAfter(list, e)[s] \in Slots
  BY <1>1, <1>2 DEF Lists, EntryAfter
<1>4. SourcesAfter(list, e) \in Lists
  BY <1>3 DEF SourcesAfter, Lists
<1> QED BY <1>1, <1>4

AfterSteps(q) == [i \in DOMAIN q |-> [list \in Lists |-> SourcesAfter(list, q[i])]]

LEMMA AfterStep ==
  ASSUME NEW q \in Seq(AppEvents)
  PROVE  /\ Len(q) \in Nat /\ DOMAIN q = 1..Len(q)
         /\ StepsIn(AfterSteps(q), Len(q), Lists)
         /\ \A i \in 1..Len(q) : \A list \in Lists :
              AfterSteps(q)[i][list] = SourcesAfter(list, q[i])
<1>1. Len(q) \in Nat /\ DOMAIN q = 1..Len(q) /\ \A i \in 1..Len(q) : q[i] \in AppEvents
  OBVIOUS
<1>2. \A list \in Lists, e \in AppEvents : SourcesAfter(list, e) \in Lists
  BY AfterEvent
<1> QED BY <1>1, <1>2 DEF AfterSteps, StepsIn

\* The lists along the events, from `list` on.
Applied(f, list, q) ==
  /\ \A i \in 0..Len(q) : f[i] \in Lists
  /\ f[0] = list
  /\ \A i \in 1..Len(q) : f[i] = SourcesAfter(f[i - 1], q[i])

LEMMA AfterAlong ==
  ASSUME NEW q \in Seq(AppEvents), NEW list \in Lists
  PROVE  \E f : Applied(f, list, q) /\ AfterAll(list, q) = f[Len(q)]
<1> DEFINE n == Len(q)
           Applies(f) == f = [i \in 0..n |->
                                IF i = 0 THEN list ELSE SourcesAfter(f[i - 1], q[i])]
           after == CHOOSE f : Applies(f)
<1>1. n \in Nat /\ n \in 0..n /\ 0 \in 0..n
  OBVIOUS
<1>2. /\ StepsIn(AfterSteps(q), n, Lists)
      /\ \A i \in 1..n : \A l \in Lists : AfterSteps(q)[i][l] = SourcesAfter(l, q[i])
  BY AfterStep
<1>3. PICK f : Along(f, n, list, AfterSteps(q))
  BY <1>1, <1>2, AlongExists
<1>4. \A i \in 0..n : f[i] \in Lists
  BY <1>1, <1>2, <1>3, AlongUnique
<1>5. Applies(f)
  <2>1. \A i \in 1..n : AfterSteps(q)[i][f[i - 1]] = SourcesAfter(f[i - 1], q[i])
    <3> SUFFICES ASSUME NEW i \in 1..n
                 PROVE  AfterSteps(q)[i][f[i - 1]] = SourcesAfter(f[i - 1], q[i])
      OBVIOUS
    <3>1. i - 1 \in 0..n
      BY <1>1
    <3>2. f[i - 1] \in Lists
      BY <1>4, <3>1
    <3> QED BY <1>2, <3>2
  <2>2. \A i \in 0..n : (IF i = 0 THEN list ELSE AfterSteps(q)[i][f[i - 1]])
                           = IF i = 0 THEN list ELSE SourcesAfter(f[i - 1], q[i])
    <3>1. \A i \in 0..n : i # 0 => i \in 1..n
      BY <1>1
    <3> QED BY <2>1, <3>1
  <2>3. f = [i \in 0..n |-> IF i = 0 THEN list ELSE AfterSteps(q)[i][f[i - 1]]]
    BY <1>3 DEF Along
  <2> QED BY <2>2, <2>3, Zenon
<1>6. Applies(after)
  BY <1>5
<1>7. AfterAll(list, q) = after[n]
  BY DEF AfterAll
<1> HIDE DEF after
<1>8. \A i \in 0..n : after[i] = IF i = 0 THEN list ELSE SourcesAfter(after[i - 1], q[i])
  BY <1>6
<1>9. \A i \in 1..n : i \in 0..n /\ i # 0
  BY <1>1
<1>10. /\ Over(after, n) /\ after[0] = list
       /\ Follows(after, n, Lists, AfterSteps(q))
  <2>1. Over(after, n)
    BY <1>6, <1>8 DEF Over
  <2>2. after[0] = list
    BY <1>1, <1>8
  <2> QED BY <1>2, <1>8, <1>9, <2>1, <2>2 DEF Follows
<1>11. \A i \in 0..n : after[i] \in Lists
  BY <1>1, <1>2, <1>10, AlongFrom
<1>12. Applied(after, list, q)
  BY <1>8, <1>9, <1>10, <1>11 DEF Applied
<1> QED BY <1>7, <1>12

LEMMA AfterTyped ==
  ASSUME NEW q \in Seq(AppEvents), NEW list \in Lists
  PROVE  AfterAll(list, q) \in Lists
<1>1. PICK f : Applied(f, list, q) /\ AfterAll(list, q) = f[Len(q)]
  BY AfterAlong
<1>2. Len(q) \in 0..Len(q)
  OBVIOUS
<1> QED BY <1>1, <1>2 DEF Applied

\* Events after others.
LEMMA AfterConcat ==
  ASSUME NEW p \in Seq(AppEvents), NEW q \in Seq(AppEvents), NEW list \in Lists
  PROVE  AfterAll(list, p \o q) = AfterAll(AfterAll(list, p), q)
<1> DEFINE n == Len(p)
           m == Len(q)
           both == p \o q
<1>1. /\ n \in Nat /\ m \in Nat /\ both \in Seq(AppEvents) /\ Len(both) = n + m
      /\ \A i \in 1..n : both[i] = p[i]
      /\ \A i \in 1..m : both[n + i] = q[i]
  OBVIOUS
<1> HIDE DEF both
<1>2. PICK f : Applied(f, list, both) /\ AfterAll(list, both) = f[n + m]
  BY <1>1, AfterAlong
<1>3. PICK g : Applied(g, list, p) /\ AfterAll(list, p) = g[n]
  BY AfterAlong
<1>4. AfterAll(list, p) \in Lists
  BY AfterTyped
<1>5. PICK h : Applied(h, g[n], q) /\ AfterAll(g[n], q) = h[m]
  BY <1>3, <1>4, AfterAlong
<1>6. \A i \in 0..n : f[i] = g[i]
  <2> DEFINE S == {i \in 0..n : f[i] = g[i]}
  <2>1. 0 \in S
    BY <1>1, <1>2, <1>3 DEF Applied
  <2>2. ASSUME NEW i \in 1..n, i - 1 \in S PROVE i \in S
    <3>1. i \in 1..(n + m) /\ i \in 0..n
      BY <1>1
    <3>2. f[i] = SourcesAfter(f[i - 1], p[i]) /\ g[i] = SourcesAfter(g[i - 1], p[i])
      BY <1>1, <1>2, <1>3, <3>1 DEF Applied
    <3> QED BY <2>2, <3>1, <3>2
  <2> HIDE DEF S
  <2>3. \A i \in 0..n : i \in S
    BY <1>1, <2>1, <2>2, BoundedInduction
  <2> QED BY <2>3 DEF S
<1>7. \A i \in 0..m : f[n + i] = h[i]
  <2> DEFINE S == {i \in 0..m : f[n + i] = h[i]}
  <2>1. 0 \in S
    <3>1. n \in 0..n /\ n + 0 = n /\ 0 \in 0..m
      BY <1>1
    <3> QED BY <1>5, <1>6, <3>1 DEF Applied
  <2>2. ASSUME NEW i \in 1..m, i - 1 \in S PROVE i \in S
    <3>1. n + i \in 1..(n + m) /\ i \in 0..m /\ (n + i) - 1 = n + (i - 1)
      BY <1>1
    <3>2. f[n + i] = SourcesAfter(f[n + (i - 1)], q[i])
      BY <1>1, <1>2, <3>1 DEF Applied
    <3>3. h[i] = SourcesAfter(h[i - 1], q[i])
      BY <1>5 DEF Applied
    <3> QED BY <2>2, <3>1, <3>2, <3>3
  <2> HIDE DEF S
  <2>3. \A i \in 0..m : i \in S
    BY <1>1, <2>1, <2>2, BoundedInduction
  <2> QED BY <2>3 DEF S
<1>8. m \in 0..m
  BY <1>1
<1> QED BY <1>2, <1>3, <1>5, <1>7, <1>8 DEF both

LEMMA AfterOne ==
  ASSUME NEW e \in AppEvents, NEW list \in Lists
  PROVE  AfterAll(list, <<e>>) = SourcesAfter(list, e)
<1>1. <<e>> \in Seq(AppEvents) /\ Len(<<e>>) = 1 /\ <<e>>[1] = e /\ 1 \in 1..1 /\ 1 - 1 = 0
  OBVIOUS
<1>2. PICK f : Applied(f, list, <<e>>) /\ AfterAll(list, <<e>>) = f[1]
  BY <1>1, AfterAlong
<1> QED BY <1>1, <1>2 DEF Applied

LEMMA AfterHead ==
  ASSUME NEW q \in Seq(AppEvents), q # <<>>, NEW list \in Lists
  PROVE  /\ Head(q) \in AppEvents /\ Tail(q) \in Seq(AppEvents)
         /\ AfterAll(list, q) = AfterAll(SourcesAfter(list, Head(q)), Tail(q))
<1>1. Head(q) \in AppEvents /\ Tail(q) \in Seq(AppEvents) /\ q = <<Head(q)>> \o Tail(q)
      /\ <<Head(q)>> \in Seq(AppEvents)
  OBVIOUS
<1>2. AfterAll(list, <<Head(q)>> \o Tail(q)) = AfterAll(AfterAll(list, <<Head(q)>>), Tail(q))
  BY <1>1, AfterConcat
<1>3. AfterAll(list, <<Head(q)>>) = SourcesAfter(list, Head(q))
  BY <1>1, AfterOne
<1> QED BY <1>1, <1>2, <1>3

LEMMA AfterAppend ==
  ASSUME NEW q \in Seq(AppEvents), NEW e \in AppEvents, NEW list \in Lists
  PROVE  AfterAll(list, Append(q, e)) = SourcesAfter(AfterAll(list, q), e)
<1>1. Append(q, e) = q \o <<e>> /\ <<e>> \in Seq(AppEvents)
  OBVIOUS
<1>2. AfterAll(list, q) \in Lists
  BY AfterTyped
<1>3. AfterAll(list, q \o <<e>>) = AfterAll(AfterAll(list, q), <<e>>)
  BY <1>1, AfterConcat
<1>4. AfterAll(AfterAll(list, q), <<e>>) = SourcesAfter(AfterAll(list, q), e)
  BY <1>2, AfterOne
<1> QED BY <1>1, <1>3, <1>4

\* What becomes of a source depends on nothing but its own entry and events.
LEMMA AfterLocal ==
  ASSUME NEW q \in Seq(AppEvents), NEW list \in Lists, NEW other \in Lists,
         NEW s \in SourceIds, list[s] = other[s]
  PROVE  AfterAll(list, q)[s] = AfterAll(other, q)[s]
<1> DEFINE n == Len(q)
<1>1. n \in Nat /\ n \in 0..n /\ 0 \in 0..n /\ \A i \in 1..n : q[i] \in AppEvents
  OBVIOUS
<1>2. PICK f : Applied(f, list, q) /\ AfterAll(list, q) = f[n]
  BY AfterAlong
<1>3. PICK g : Applied(g, other, q) /\ AfterAll(other, q) = g[n]
  BY AfterAlong
<1> DEFINE S == {i \in 0..n : f[i][s] = g[i][s]}
<1>4. 0 \in S
  BY <1>1, <1>2, <1>3 DEF Applied
<1>5. ASSUME NEW i \in 1..n, i - 1 \in S PROVE i \in S
  <2>1. /\ f[i] = SourcesAfter(f[i - 1], q[i]) /\ g[i] = SourcesAfter(g[i - 1], q[i])
        /\ f[i - 1] \in Lists /\ g[i - 1] \in Lists /\ i \in 0..n
    BY <1>1, <1>2, <1>3 DEF Applied
  <2>2. f[i - 1][s] = g[i - 1][s]
    BY <1>5
  <2>3. /\ SourcesAfter(f[i - 1], q[i])[s] = EntryAfter(f[i - 1][s], q[i], s)
        /\ SourcesAfter(g[i - 1], q[i])[s] = EntryAfter(g[i - 1][s], q[i], s)
    BY <1>1, <2>1, AfterEvent
  <2>4. f[i][s] = g[i][s]
    BY <2>1, <2>2, <2>3
  <2> QED BY <2>1, <2>4
<1> HIDE DEF S
<1>6. \A i \in 0..n : i \in S
  BY <1>1, <1>4, <1>5, BoundedInduction
<1> QED BY <1>1, <1>2, <1>3, <1>6 DEF S

\* Every event of the source leaves it with the entry v.
Leaves(q, s, v) ==
  \A i \in 1..Len(q) : \A l \in Lists : q[i].source = s => SourcesAfter(l, q[i])[s] = v

\* Such events leave it with that entry, if there are any.
LEMMA AfterEntry ==
  ASSUME NEW q \in Seq(AppEvents), NEW list \in Lists, NEW s \in SourceIds, NEW v,
         Leaves(q, s, v),
         \E i \in 1..Len(q) : q[i].source = s
  PROVE  AfterAll(list, q)[s] = v
<1> DEFINE n == Len(q)
<1>1. n \in Nat /\ n \in 0..n /\ 0 \in 0..n /\ \A i \in 1..n : q[i] \in AppEvents
  OBVIOUS
<1>2. PICK f : Applied(f, list, q) /\ AfterAll(list, q) = f[n]
  BY AfterAlong
<1> DEFINE S == {i \in 0..n : (\E j \in 1..i : q[j].source = s) => f[i][s] = v}
<1>3. 0 \in S
  BY <1>1
<1>4. ASSUME NEW i \in 1..n, i - 1 \in S PROVE i \in S
  <2>1. /\ f[i] = SourcesAfter(f[i - 1], q[i])
        /\ f[i - 1] \in Lists /\ i \in 0..n
    BY <1>1, <1>2 DEF Applied
  <2>2. CASE q[i].source = s
    BY <2>1, <2>2 DEF Leaves
  <2>3. CASE q[i].source # s
    <3>1. f[i][s] = f[i - 1][s]
      <4>1. SourcesAfter(f[i - 1], q[i])[s] = EntryAfter(f[i - 1][s], q[i], s)
        BY <1>1, <2>1, AfterEvent
      <4> QED BY <2>1, <2>3, <4>1 DEF EntryAfter
    <3>2. \A j \in 1..i : q[j].source = s => j \in 1..(i - 1)
      BY <2>3
    <3>3. (\E j \in 1..(i - 1) : q[j].source = s) => f[i - 1][s] = v
      BY <1>4
    <3> QED BY <2>1, <3>1, <3>2, <3>3
  <2> QED BY <2>2, <2>3
<1> HIDE DEF S
<1>5. \A i \in 0..n : i \in S
  BY <1>1, <1>3, <1>4, BoundedInduction
<1>6. (\E j \in 1..n : q[j].source = s) => f[n][s] = v
  BY <1>1, <1>5 DEF S
<1> QED BY <1>2, <1>6

\* Events that leave a source as it is.
LEMMA AfterNothing ==
  ASSUME NEW q \in Seq(AppEvents), NEW list \in Lists, NEW s \in SourceIds,
         \A i \in 1..Len(q) : q[i].source = s => q[i].kind \notin Lifecycle
  PROVE  AfterAll(list, q)[s] = list[s]
<1> DEFINE n == Len(q)
<1>1. n \in Nat /\ n \in 0..n /\ 0 \in 0..n /\ \A i \in 1..n : q[i] \in AppEvents
  OBVIOUS
<1>2. PICK f : Applied(f, list, q) /\ AfterAll(list, q) = f[n]
  BY AfterAlong
<1> DEFINE S == {i \in 0..n : f[i][s] = list[s]}
<1>3. 0 \in S
  BY <1>1, <1>2 DEF Applied
<1>4. ASSUME NEW i \in 1..n, i - 1 \in S PROVE i \in S
  <2>1. /\ f[i] = SourcesAfter(f[i - 1], q[i])
        /\ f[i - 1] \in Lists /\ i \in 0..n
    BY <1>1, <1>2 DEF Applied
  <2>2. f[i][s] = f[i - 1][s]
    <3>1. SourcesAfter(f[i - 1], q[i])[s] = EntryAfter(f[i - 1][s], q[i], s)
      BY <1>1, <2>1, AfterEvent
    <3>2. s # q[i].source \/ q[i].kind \notin Lifecycle
      OBVIOUS
    <3> QED BY <2>1, <3>1, <3>2 DEF EntryAfter, Lifecycle
  <2> QED BY <1>4, <2>1, <2>2
<1> HIDE DEF S
<1>5. \A i \in 0..n : i \in S
  BY <1>1, <1>3, <1>4, BoundedInduction
<1> QED BY <1>1, <1>2, <1>5 DEF S
LEMMA AfterNone ==
  ASSUME NEW list \in Lists
  PROVE  AfterAll(list, <<>>) = list
<1>1. <<>> \in Seq(AppEvents) /\ Len(<<>>) = 0
  OBVIOUS
<1>2. PICK f : Applied(f, list, <<>>) /\ AfterAll(list, <<>>) = f[0]
  BY <1>1, AfterAlong
<1> QED BY <1>2 DEF Applied

\* An event of each source of T.
OnePerSource(T, events) ==
  events \in [T -> AppEvents] /\ \A s \in T : events[s].source = s

\* These events leave a source of T with what its event makes of it, and the others
\* alone.
TurnsInto(q, T, events) ==
  \A list \in Lists :
    /\ AfterAll(list, q) \in Lists
    /\ \A s \in SourceIds : AfterAll(list, q)[s] =
         IF s \in T THEN EntryAfter(list[s], events[s], s) ELSE list[s]

\* What becomes of a source is what its event does.
LEMMA AfterOrdered ==
  ASSUME NEW T \in SUBSET SourceIds, NEW events, OnePerSource(T, events)
  PROVE  Ordered(events) \in Seq(AppEvents) /\ TurnsInto(Ordered(events), T, events)
<1> USE DEF OnePerSource
<1> DEFINE q == Ordered(events)
<1>1. /\ q \in Seq(AppEvents)
      /\ \A i \in 1..Len(q) : \E r \in T : q[i] = events[r]
      /\ \A r \in T : \E i \in 1..Len(q) : q[i] = events[r]
  BY OrderedEvents
<1> HIDE DEF q
<1>2. \A list \in Lists : AfterAll(list, q) \in Lists
  BY <1>1, AfterTyped
<1>3. \A i \in 1..Len(q) : /\ q[i] \in AppEvents
                           /\ q[i].source \in T /\ q[i] = events[q[i].source]
  BY <1>1
<1> SUFFICES ASSUME NEW list \in Lists, NEW s \in SourceIds
             PROVE  AfterAll(list, q)[s] =
                      IF s \in T THEN EntryAfter(list[s], events[s], s) ELSE list[s]
  BY <1>1, <1>2 DEF q, TurnsInto
<1>4. CASE s \in T /\ events[s].kind \in Lifecycle
  <2> DEFINE v == EntryAfter(list[s], events[s], s)
  <2>1. events[s].source = s
    BY <1>4
  <2>2. \A entry : EntryAfter(entry, events[s], s) = v
    BY <1>4, <2>1 DEF EntryAfter, Lifecycle
  <2> HIDE DEF v
  <2>3. Leaves(q, s, v)
    <3> SUFFICES ASSUME NEW i \in 1..Len(q), NEW l \in Lists, q[i].source = s
                 PROVE  SourcesAfter(l, q[i])[s] = v
      BY DEF Leaves
    <3>1. q[i] = events[s] /\ q[i] \in AppEvents
      BY <1>3
    <3>2. SourcesAfter(l, q[i])[s] = EntryAfter(l[s], q[i], s)
      BY <3>1, AfterEvent
    <3> QED BY <2>2, <3>1, <3>2
  <2>4. \E i \in 1..Len(q) : q[i].source = s
    BY <1>1, <1>4, <2>1
  <2>5. AfterAll(list, q)[s] = v
    BY <1>1, <2>3, <2>4, AfterEntry
  <2> QED BY <1>4, <2>5 DEF v
<1>5. CASE ~(s \in T /\ events[s].kind \in Lifecycle)
  <2>1. \A i \in 1..Len(q) : q[i].source = s => q[i].kind \notin Lifecycle
    BY <1>3, <1>5
  <2>2. AfterAll(list, q)[s] = list[s]
    BY <1>1, <2>1, AfterNothing
  <2>3. s \in T => EntryAfter(list[s], events[s], s) = list[s]
    BY <1>5 DEF EntryAfter, Lifecycle
  <2> QED BY <2>2, <2>3
<1> QED BY <1>4, <1>5

-----------------------------------------------------------------------------
(* The window's list follows the session of the running capture.           *)

Stages == {"none", "top", "body", "send", "done"}

FollowTypes ==
  /\ sources \in Lists
  /\ queue \in Seq(AppEvents)
  /\ batch \in [Captures -> Seq(AppEvents)]
  /\ current \in 0..MaxStarts
  /\ stop \in [Captures -> BOOLEAN]
  /\ pc \in [Captures -> Stages]
  /\ heard \in SUBSET SourceIds

\* The capture that runs has not been told to stop; those to come have no thread yet;
\* and a batch is sent before the next iteration.
Turns ==
  /\ running => current \in Captures /\ ~stop[current]
  /\ \A k \in Captures : k > current => ~stop[k] /\ pc[k] = "none"
  /\ \A k \in Captures : pc[k] # "send" => batch[k] = <<>>

FollowInv == FollowTypes /\ Turns /\ ListFollowsSession

\* What the list will say of a source against its session, `under` being what is
\* under way to it.
Agrees(list, links, s) ==
  list[s].access = IF links[s] = "Closed" THEN "Absent" ELSE links[s]

LEMMA ListFollows ==
  ListFollowsSession <=> (running => \A s \in heard \ lost : Agrees(Coming, link[current], s))
  BY DEF ListFollowsSession, Agrees

\* What is under way is in the queue first, then in the batch.
LEMMA ComingSplit ==
  ASSUME FollowInv, running
  PROVE  /\ current \in Captures
         /\ batch[current] \in Seq(AppEvents)
         /\ AfterAll(sources, queue) \in Lists
         /\ Coming = AfterAll(AfterAll(sources, queue), batch[current])
<1>1. current \in Captures /\ batch[current] \in Seq(AppEvents)
  BY DEF FollowInv, FollowTypes, Turns
<1> QED BY <1>1, AfterConcat, AfterTyped DEF Coming, FollowInv, FollowTypes

\* A thread goes from one stage to the next.
LEMMA TurnsKept ==
  ASSUME FollowInv, NEW k \in Captures, pc[k] # "none", NEW stage \in Stages,
         pc' = [pc EXCEPT ![k] = stage],
         stage # "send" => batch'[k] = <<>>,
         \A j \in Captures \ {k} : batch'[j] = batch[j],
         UNCHANGED <<current, running, stop>>
  PROVE  pc' \in [Captures -> Stages] /\ Turns'
<1>1. pc' \in [Captures -> Stages]
  BY DEF FollowInv, FollowTypes
<1>2. pc'[k] = stage /\ \A j \in Captures \ {k} : pc'[j] = pc[j]
  BY DEF FollowInv, FollowTypes
<1>3. Turns'
  BY <1>2 DEF FollowInv, Turns
<1> QED BY <1>1, <1>3

\* Steps that leave the list, the events and the sessions alone.
LEMMA QuietKeeps ==
  ASSUME FollowInv,
         UNCHANGED <<current, running, queue, sources, stop, link, batch, heard, lost>>,
         pc' \in [Captures -> Stages], Turns'
  PROVE  FollowInv'
<1>1. FollowTypes'
  BY DEF FollowInv, FollowTypes
<1>2. ListFollowsSession'
  BY DEF FollowInv, ListFollowsSession, Coming
<1> QED BY <1>1, <1>2 DEF FollowInv

\* A capture that is stopped or replaced has announced nothing to the next one.
LEMMA StopKeeps ==
  ASSUME FollowInv, StopCapture
  PROVE  FollowInv'
<1>1. /\ running' = FALSE /\ current' = current /\ queue' = <<>> /\ heard' = {}
      /\ UNCHANGED <<sources, pc, batch>>
      /\ stop' = [stop EXCEPT ![current] = TRUE]
  BY DEF StopCapture, StopFlags, threads
<1>2. FollowTypes'
  <2>1. stop' \in [Captures -> BOOLEAN]
    BY <1>1 DEF FollowInv, FollowTypes
  <2>2. queue' \in Seq(AppEvents) /\ heard' \in SUBSET SourceIds
    BY <1>1
  <2> QED BY <1>1, <2>1, <2>2 DEF FollowInv, FollowTypes
<1>3. \A k \in Captures : k > current => stop'[k] = stop[k]
  <2>1. \A k \in Captures : k > current => k # current
    BY AppAssumption DEF FollowInv, FollowTypes, Captures
  <2> QED BY <1>1, <2>1 DEF FollowInv, FollowTypes
<1>4. Turns'
  BY <1>1, <1>3 DEF FollowInv, Turns
<1>5. ListFollowsSession'
  BY <1>1 DEF ListFollowsSession
<1> QED BY <1>2, <1>4, <1>5 DEF FollowInv

LEMMA StartKeeps ==
  ASSUME FollowInv, StartCapture
  PROVE  FollowInv'
<1>1. /\ current < MaxStarts /\ current' = current + 1 /\ queue' = <<>> /\ heard' = {}
      /\ UNCHANGED <<sources, batch>>
      /\ stop' = StopFlags
      /\ pc' = [pc EXCEPT ![current + 1] = "top"]
  BY DEF StartCapture
<1>2. current \in Nat /\ MaxStarts \in Nat
  BY AppAssumption DEF FollowInv, FollowTypes
<1>3. /\ current + 1 \in 0..MaxStarts /\ current + 1 \in Captures
      /\ \A k \in Captures : k > current + 1 => k > current
      /\ current + 1 > current
  BY <1>1, <1>2 DEF Captures
<1>4. stop' \in [Captures -> BOOLEAN]
  BY <1>1 DEF StopFlags, FollowInv, FollowTypes
<1>5. pc' \in [Captures -> Stages]
  BY <1>1 DEF FollowInv, FollowTypes, Stages
<1>6. FollowTypes'
  BY <1>1, <1>3, <1>4, <1>5 DEF FollowInv, FollowTypes
<1>7. ASSUME NEW k \in Captures, k > current PROVE stop'[k] = FALSE /\ pc[k] = "none"
  <2>1. stop[k] = FALSE /\ pc[k] = "none"
    BY <1>7 DEF FollowInv, FollowTypes, Turns
  <2>2. k # current
    BY <1>2, <1>7
  <2> QED BY <1>1, <2>1, <2>2 DEF StopFlags, FollowInv, FollowTypes
<1>8. ASSUME NEW k \in Captures, pc'[k] # "send" PROVE batch[k] = <<>>
  <2>1. CASE k = current + 1
    \* The thread of a capture to come has done nothing, and sends nothing.
    BY <1>3, <2>1 DEF FollowInv, Turns
  <2>2. CASE k # current + 1
    BY <1>1, <1>8, <2>2 DEF FollowInv, FollowTypes, Turns
  <2> QED BY <2>1, <2>2
<1>9. Turns'
  <2>1. \A k \in Captures : k > current + 1 => pc'[k] = pc[k]
    BY <1>1, <1>2 DEF FollowInv, FollowTypes
  <2> QED BY <1>1, <1>3, <1>7, <1>8, <2>1 DEF Turns
<1>10. ListFollowsSession'
  BY <1>1 DEF ListFollowsSession
<1> QED BY <1>6, <1>9, <1>10 DEF FollowInv

\* A thread that returns is not that of the capture that runs.
LEMMA ExitFollows ==
  ASSUME HandleInv, FollowInv, NEW k \in Captures, Stopped(k) \/ SendFails(k)
  PROVE  FollowInv'
<1>1. Exit(k) /\ pc[k] # "none"
  BY DEF Stopped, SendFails
<1>2. running => k # current
  BY DEF Stopped, SendFails, SeesStop, Closed, FollowInv, Turns
<1>3. /\ pc' = [pc EXCEPT ![k] = "done"] /\ batch' = [batch EXCEPT ![k] = <<>>]
      /\ link' = [link EXCEPT ![k] = [s \in SourceIds |-> "Closed"]]
      /\ UNCHANGED <<current, running, queue, sources, stop, heard, lost>>
  BY <1>1 DEF Exit
<1>4. /\ batch' \in [Captures -> Seq(AppEvents)] /\ batch'[k] = <<>>
      /\ \A j \in Captures \ {k} : batch'[j] = batch[j] /\ link'[j] = link[j]
  BY <1>3 DEF FollowInv, FollowTypes, HandleInv, HandleTypes
<1>5. pc' \in [Captures -> Stages] /\ Turns'
  <2>1. "done" \in Stages
    BY DEF Stages
  <2> QED BY <1>1, <1>3, <1>4, <2>1, TurnsKept
<1>6. FollowTypes'
  BY <1>3, <1>4, <1>5 DEF FollowInv, FollowTypes
<1>7. ListFollowsSession'
  <2>1. ASSUME running PROVE batch'[current] = batch[current] /\ link'[current] = link[current]
    BY <1>2, <1>4, <2>1 DEF FollowInv, Turns
  <2> QED BY <1>3, <2>1 DEF FollowInv, ListFollowsSession, Coming
<1> QED BY <1>5, <1>6, <1>7 DEF FollowInv

\* drain_events applies what was under way.
LEMMA DrainFollows ==
  ASSUME FollowInv, Drain
  PROVE  FollowInv'
<1>1. /\ running /\ queue # <<>>
      /\ sources' = SourcesAfter(sources, Head(queue)) /\ queue' = Tail(queue)
      /\ UNCHANGED <<current, running, stop, pc, link, batch, heard, lost>>
  BY DEF Drain, threads
<1>2. /\ Head(queue) \in AppEvents /\ Tail(queue) \in Seq(AppEvents)
      /\ AfterAll(sources, queue) = AfterAll(sources', queue')
  BY <1>1, AfterHead DEF FollowInv, FollowTypes
<1>3. sources' \in Lists
  BY <1>1, <1>2, AfterEvent DEF FollowInv, FollowTypes
<1>4. FollowTypes' /\ Turns'
  BY <1>1, <1>2, <1>3 DEF FollowInv, FollowTypes, Turns
<1>5. Coming' = Coming
  <2>1. /\ current \in Captures /\ batch[current] \in Seq(AppEvents)
        /\ Coming = AfterAll(AfterAll(sources, queue), batch[current])
    BY <1>1, ComingSplit
  <2>2. Coming' = AfterAll(sources', queue' \o batch[current])
    BY <1>1 DEF Coming
  <2>3. AfterAll(sources', queue' \o batch[current])
          = AfterAll(AfterAll(sources', queue'), batch[current])
    BY <1>1, <1>2, <1>3, <2>1, AfterConcat
  <2> QED BY <1>2, <2>1, <2>2, <2>3
<1>6. ListFollowsSession'
  BY <1>1, <1>5 DEF FollowInv, ListFollowsSession
<1> QED BY <1>4, <1>6 DEF FollowInv
\* send_event: an event that is queued stays under way; one that is not is omitted, which
\* concerns its source alone.
LEMMA SendFollows ==
  ASSUME HandleInv, FollowInv, NEW k \in Captures, Send(k)
  PROVE  FollowInv'
<1> DEFINE e == Head(batch[k])
           list == AfterAll(sources, queue)
<1>1. /\ running /\ k = current /\ pc[k] = "send" /\ batch[k] # <<>>
      /\ batch' = [batch EXCEPT ![k] = Tail(@)]
      /\ UNCHANGED <<current, running, sources, stop, pc, link, heard>>
  BY DEF Send, Closed
<1>2. /\ list \in Lists /\ batch[k] \in Seq(AppEvents)
      /\ Coming = AfterAll(list, batch[k])
  BY <1>1, ComingSplit
<1>3. /\ e \in AppEvents /\ Tail(batch[k]) \in Seq(AppEvents)
      /\ AfterAll(list, batch[k]) = AfterAll(SourcesAfter(list, e), Tail(batch[k]))
  BY <1>1, <1>2, AfterHead
<1>4. batch'[k] = Tail(batch[k]) /\ batch' \in [Captures -> Seq(AppEvents)]
      /\ \A j \in Captures \ {k} : batch'[j] = batch[j]
  BY <1>1, <1>3 DEF FollowInv, FollowTypes
<1>5. Turns'
  <2>1. \A j \in Captures : pc[j] # "send" => batch'[j] = <<>>
    BY <1>1, <1>4 DEF FollowInv, Turns
  <2> QED BY <1>1, <2>1 DEF FollowInv, Turns
<1>6. Coming' = AfterAll(sources, queue' \o Tail(batch[k]))
  BY <1>1, <1>4 DEF Coming
<1>7. sources \in Lists /\ queue \in Seq(AppEvents)
  BY DEF FollowInv, FollowTypes
<1>8. CASE Len(queue) = Capacity
  <2>1. /\ queue' = queue
        /\ lost' = IF e.kind \in Lifecycle THEN lost \cup {e.source} ELSE lost
    BY <1>8 DEF Send
  <2>2. FollowTypes'
    BY <1>1, <1>4, <2>1 DEF FollowInv, FollowTypes
  <2>3. Coming' = AfterAll(list, Tail(batch[k]))
    BY <1>3, <1>6, <1>7, <2>1, AfterConcat
  <2>4. ASSUME NEW s \in heard \ lost' PROVE Coming'[s] = Coming[s]
    <3>1. s \in SourceIds /\ (s # e.source \/ e.kind \notin Lifecycle)
      BY <2>1, <2>4 DEF FollowInv, FollowTypes
    <3>2. SourcesAfter(list, e)[s] = EntryAfter(list[s], e, s) /\ SourcesAfter(list, e) \in Lists
      BY <1>2, <1>3, <3>1, AfterEvent
    <3>3. SourcesAfter(list, e)[s] = list[s]
      BY <3>1, <3>2 DEF EntryAfter, Lifecycle
    <3>4. AfterAll(SourcesAfter(list, e), Tail(batch[k]))[s] = AfterAll(list, Tail(batch[k]))[s]
      BY <1>2, <1>3, <3>1, <3>2, <3>3, AfterLocal
    <3> QED BY <1>2, <1>3, <2>3, <3>4
  <2>5. lost \subseteq lost'
    BY <2>1
  <2>6. ListFollowsSession'
    BY <1>1, <2>4, <2>5 DEF FollowInv, ListFollowsSession
  <2> QED BY <1>5, <2>2, <2>6 DEF FollowInv
<1>9. CASE Len(queue) # Capacity
  <2>1. queue' = Append(queue, e) /\ lost' = lost
    BY <1>9 DEF Send
  <2>2. queue' \in Seq(AppEvents)
    BY <1>3, <1>7, <2>1
  <2>3. FollowTypes'
    BY <1>1, <1>4, <2>2 DEF FollowInv, FollowTypes
  <2>4. Coming' = AfterAll(AfterAll(sources, queue'), Tail(batch[k]))
    BY <1>3, <1>6, <1>7, <2>2, AfterConcat
  <2>5. AfterAll(sources, queue') = SourcesAfter(list, e)
    BY <1>3, <1>7, <2>1, AfterAppend
  <2>6. Coming' = Coming
    BY <1>2, <1>3, <2>4, <2>5
  <2>7. ListFollowsSession'
    BY <1>1, <2>1, <2>6 DEF FollowInv, ListFollowsSession
  <2> QED BY <1>5, <2>3, <2>7 DEF FollowInv
<1> QED BY <1>8, <1>9

\* An iteration announces what reconcile did to the session, and reports no other
\* lifecycle event.
LEMMA IterateFollows ==
  ASSUME HandleInv, FollowInv, NEW k \in Captures, Iterate(k)
  PROVE  FollowInv'
<1> DEFINE gone == Linked(k) \ Found(k)
           new  == Found(k) \ Linked(k)
           left == {s \in SourceIds : Reconciled(k)[s] # "Closed"}
           Went == [s \in gone |-> Event("Disconnected", s, "Closed")]
           Came == [s \in new |-> Event(IF s \in left THEN "Connected" ELSE "SourceError",
                                        s, Reconciled(k)[s])]
           Polled(read) ==
             [s \in read |-> Event(IF s \in dead[k] THEN "SourceError" ELSE "Input",
                                   s, "Closed")]
<1>1. PICK read \in SUBSET left :
        batch' = [batch EXCEPT ![k] = Ordered(Went) \o Ordered(Came) \o Ordered(Polled(read))]
  BY DEF Iterate
<1>2. /\ pc[k] = "body" /\ pc' = [pc EXCEPT ![k] = "send"]
      /\ link' = [link EXCEPT ![k] = Reconciled(k)]
      /\ heard' = IF k = current /\ running THEN heard \cup (new \cap left) ELSE heard
      /\ UNCHANGED <<current, running, queue, sources, stop, lost>>
  BY DEF Iterate
<1> DEFINE A == Ordered(Went)
           B == Ordered(Came)
           C == Ordered(Polled(read))
<1>3. /\ gone \in SUBSET SourceIds /\ new \in SUBSET SourceIds /\ left \in SUBSET SourceIds
  BY DEF Linked, Found, HandleInv, HandleTypes
<1>4. \A s \in SourceIds :
        /\ s \in Linked(k) <=> link[k][s] # "Closed"
        /\ Reconciled(k)[s] = IF s \notin Found(k) THEN "Closed"
                              ELSE IF link[k][s] = "Closed" THEN Grant(k, s) ELSE link[k][s]
        /\ Reconciled(k)[s] \in AccessesOrClosed
        /\ s \in left <=> Reconciled(k)[s] # "Closed"
  BY DEF Linked, Reconciled, Grant, AccessesOrClosed, HandleInv, HandleTypes
<1> HIDE DEF gone, new, left
<1>5. /\ Went \in [gone -> AppEvents] /\ Came \in [new -> AppEvents]
      /\ Polled(read) \in [read -> AppEvents] /\ read \in SUBSET SourceIds
      /\ \A s \in gone : Went[s].source = s /\ Went[s].kind = "Disconnected"
      /\ \A s \in new : /\ Came[s].source = s /\ Came[s].access = Reconciled(k)[s]
                        /\ Came[s].kind = IF s \in left THEN "Connected" ELSE "SourceError"
      /\ \A s \in read : Polled(read)[s].source = s /\ Polled(read)[s].kind \notin Lifecycle
  BY <1>3, <1>4 DEF Event, AppEvents, Kinds, AccessesOrClosed, Lifecycle
<1> HIDE DEF Went, Came, Polled
<1>5a. OnePerSource(gone, Went) /\ OnePerSource(new, Came) /\ OnePerSource(read, Polled(read))
  BY <1>5 DEF OnePerSource
<1>6. A \in Seq(AppEvents) /\ TurnsInto(A, gone, Went)
  BY <1>3, <1>5, <1>5a, AfterOrdered
<1>7. B \in Seq(AppEvents) /\ TurnsInto(B, new, Came)
  BY <1>3, <1>5, <1>5a, AfterOrdered
<1>8. C \in Seq(AppEvents) /\ TurnsInto(C, read, Polled(read))
  BY <1>3, <1>5, <1>5a, AfterOrdered
<1> HIDE DEF A, B, C
<1>9. A \in Seq(AppEvents) /\ B \in Seq(AppEvents) /\ C \in Seq(AppEvents)
      /\ A \o B \in Seq(AppEvents) /\ (A \o B) \o C \in Seq(AppEvents)
  BY <1>6, <1>7, <1>8
<1>10. /\ batch' \in [Captures -> Seq(AppEvents)]
       /\ batch'[k] = (A \o B) \o C
       /\ \A j \in Captures \ {k} : batch'[j] = batch[j] /\ link'[j] = link[j]
       /\ link'[k] = Reconciled(k)
  <2>1. batch' = [batch EXCEPT ![k] = (A \o B) \o C]
    BY <1>1 DEF A, B, C, Went, Came, Polled, gone, new, left
  <2> QED BY <1>2, <1>9, <2>1 DEF FollowInv, FollowTypes, HandleInv, HandleTypes
<1>11. pc' \in [Captures -> Stages] /\ Turns'
  <2>1. "send" \in Stages
    BY DEF Stages
  <2> QED BY <1>2, <1>10, <2>1, TurnsKept
<1>12. FollowTypes'
  <2>1. heard' \in SUBSET SourceIds
    BY <1>2, <1>3 DEF FollowInv, FollowTypes
  <2> QED BY <1>2, <1>10, <1>11, <2>1 DEF FollowInv, FollowTypes
<1>13. CASE ~(k = current /\ running)
  <2>1. ASSUME running PROVE batch'[current] = batch[current] /\ link'[current] = link[current]
    BY <1>10, <1>13, <2>1 DEF FollowInv, Turns
  <2>2. ListFollowsSession'
    BY <1>2, <1>13, <2>1 DEF FollowInv, ListFollowsSession, Coming
  <2> QED BY <1>11, <1>12, <2>2 DEF FollowInv
<1>14. CASE k = current /\ running
  <2> DEFINE list == AfterAll(sources, queue)
  <2>1. list \in Lists /\ Coming = list
    <3>1. list \in Lists /\ Coming = AfterAll(list, batch[k])
      BY <1>14, ComingSplit
    <3>2. batch[k] = <<>>
      BY <1>2 DEF FollowInv, Turns
    <3> QED BY <3>1, <3>2, AfterNone
  <2>2. Coming' = AfterAll(AfterAll(AfterAll(list, A), B), C)
    <3>1. Coming' = AfterAll(sources, queue \o ((A \o B) \o C))
      BY <1>2, <1>10, <1>14 DEF Coming
    <3>2. sources \in Lists /\ queue \in Seq(AppEvents)
      BY DEF FollowInv, FollowTypes
    <3>3. AfterAll(sources, queue \o ((A \o B) \o C)) = AfterAll(list, (A \o B) \o C)
      BY <1>9, <3>2, AfterConcat
    <3>4. AfterAll(list, (A \o B) \o C) = AfterAll(AfterAll(list, A \o B), C)
      BY <1>9, <2>1, AfterConcat
    <3>5. AfterAll(list, A \o B) = AfterAll(AfterAll(list, A), B)
      BY <1>9, <2>1, AfterConcat
    <3> QED BY <3>1, <3>3, <3>4, <3>5
  <2> HIDE DEF list
  <2> DEFINE listA == AfterAll(list, A)
             listB == AfterAll(listA, B)
  <2>3. listA \in Lists /\ listB \in Lists
    BY <2>1, <1>6, <1>7 DEF TurnsInto
  <2>4. ASSUME NEW s \in heard' \ lost PROVE Agrees(Coming', link'[k], s)
    <3>1. s \in SourceIds
      BY <1>12, <2>4 DEF FollowTypes
    <3>2. /\ listA[s] = IF s \in gone THEN EntryAfter(list[s], Went[s], s) ELSE list[s]
          /\ listB[s] = IF s \in new THEN EntryAfter(listA[s], Came[s], s) ELSE listA[s]
      BY <2>1, <2>3, <3>1, <1>6, <1>7 DEF TurnsInto
    <3>3. Coming'[s] = listB[s]
      <4>1. Coming'[s] = IF s \in read THEN EntryAfter(listB[s], Polled(read)[s], s)
                         ELSE listB[s]
        BY <2>2, <2>3, <3>1, <1>8 DEF TurnsInto
      <4> QED BY <4>1, <1>5 DEF EntryAfter, Lifecycle
    <3> HIDE DEF listA, listB
    <3>4. s \in gone => s \notin new /\ s \notin Found(k)
      BY DEF gone, new
    <3>5. s \in new <=> s \in Found(k) /\ link[k][s] = "Closed"
      BY <1>4, <3>1 DEF new
    <3>6. s \in heard => Agrees(list, link[k], s)
      BY <2>1, <2>4, <1>14, ListFollows DEF FollowInv
    <3>7. link'[k][s] = Reconciled(k)[s]
      BY <1>10
    <3>8. CASE s \in gone
      <4>1. listB[s] = Absent
        BY <1>5, <3>2, <3>4, <3>8 DEF EntryAfter
      <4> QED BY <1>4, <3>1, <3>3, <3>4, <3>7, <3>8, <4>1 DEF Agrees, Absent
    <3>9. CASE s \in new /\ s \in left
      <4>1. listB[s].access = Reconciled(k)[s]
        BY <1>5, <3>2, <3>9 DEF EntryAfter
      <4> QED BY <1>4, <3>1, <3>3, <3>7, <3>9, <4>1 DEF Agrees
    <3>10. CASE s \in new /\ s \notin left
      <4>1. listB[s] = list[s]
        BY <1>5, <3>2, <3>4, <3>10 DEF EntryAfter
      <4>2. s \in heard /\ link'[k][s] = "Closed" /\ link[k][s] = "Closed"
        BY <1>2, <1>4, <2>4, <3>1, <3>5, <3>7, <3>10
      <4> QED BY <3>3, <3>6, <4>1, <4>2 DEF Agrees
    <3>11. CASE s \notin new /\ s \notin gone
      <4>1. listB[s] = list[s]
        BY <3>2, <3>11
      <4>2. s \in heard
        BY <1>2, <2>4, <3>11
      <4>3. link'[k][s] = link[k][s]
        BY <1>4, <3>1, <3>5, <3>7, <3>11 DEF gone
      <4> QED BY <3>3, <3>6, <4>1, <4>2, <4>3 DEF Agrees
    <3> QED BY <3>8, <3>9, <3>10, <3>11
  <2>5. ListFollowsSession'
    <3>1. \A s \in heard' \ lost' :
            Coming'[s].access
              = IF link'[current'][s] = "Closed" THEN "Absent" ELSE link'[current'][s]
      BY <1>2, <1>14, <2>4 DEF Agrees
    <3> QED BY <3>1 DEF ListFollowsSession
  <2> QED BY <1>11, <1>12, <2>5 DEF FollowInv
<1> QED BY <1>13, <1>14

\* The invariant of the events under way: from the session of the capture that runs,
\* through its batch and the queue, to the window's list.
THEOREM FollowInvariant == Spec => []FollowInv
<1>1. Init => FollowInv
  <2> SUFFICES ASSUME Init PROVE FollowInv
    OBVIOUS
  <2>1. sources \in Lists
    BY DEF Init, Lists, Slots, Absent
  <2>2. /\ queue \in Seq(AppEvents) /\ batch \in [Captures -> Seq(AppEvents)]
        /\ stop \in [Captures -> BOOLEAN] /\ heard \in SUBSET SourceIds
    BY DEF Init
  <2>3. current \in 0..MaxStarts /\ pc \in [Captures -> Stages]
    BY AppAssumption DEF Init, Stages
  <2>4. Turns /\ ListFollowsSession
    BY DEF Init, Turns, ListFollowsSession
  <2> QED BY <2>1, <2>2, <2>3, <2>4 DEF FollowInv, FollowTypes
<1>2. HandleInv /\ FollowInv /\ [Next]_vars => FollowInv'
  <2> SUFFICES ASSUME HandleInv, FollowInv, [Next]_vars PROVE FollowInv'
    OBVIOUS
  <2>1. ASSUME UNCHANGED <<current, running, queue, sources, stop, pc, link, batch, heard, lost>>
        PROVE  FollowInv'
    <3>1. pc' \in [Captures -> Stages] /\ Turns'
      BY <2>1 DEF FollowInv, FollowTypes, Turns
    <3> QED BY <2>1, <3>1, QuietKeeps
  <2>2. CASE UNCHANGED vars
    BY <2>1, <2>2 DEF vars
  <2>3. ASSUME NEW s \in SourceIds, Plug(s) \/ Unplug(s) PROVE FollowInv'
    BY <2>1, <2>3 DEF Plug, Unplug, threads
  <2>4. ASSUME NEW k \in Captures, Discover(k) PROVE FollowInv'
    BY <2>1, <2>4 DEF Discover
  <2>5. ASSUME NEW k \in Captures, Top(k) \/ Sleep(k) PROVE FollowInv'
    <3>1. /\ UNCHANGED <<current, running, queue, sources, stop, link, batch, heard, lost>>
          /\ pc[k] # "none" /\ batch[k] = <<>>
      BY <2>5 DEF Top, Sleep, FollowInv, Turns
    <3>2. \E stage \in Stages : pc' = [pc EXCEPT ![k] = stage]
      BY <2>5 DEF Top, Sleep, Stages
    <3>3. pc' \in [Captures -> Stages] /\ Turns'
      BY <3>1, <3>2, TurnsKept
    <3> QED BY <3>1, <3>3, QuietKeeps
  <2>6. CASE StopCapture \/ StartCapture \/ Drain
    BY <2>6, StopKeeps, StartKeeps, DrainFollows
  <2>7. ASSUME NEW k \in Captures, Stopped(k) \/ SendFails(k) \/ Send(k) \/ Iterate(k)
        PROVE  FollowInv'
    BY <2>7, ExitFollows, SendFollows, IterateFollows
  <2> QED BY <2>2, <2>3, <2>4, <2>5, <2>6, <2>7 DEF Next, Capture
<1> QED BY <1>1, <1>2, HandlesInvariant, PTL DEF Spec

\* Whatever is stopped, restarted, plugged and unplugged, the window's list comes to the
\* access the running session has of every source it announced, but for omitted events.
THEOREM ListIsOfSession == Spec => []ListFollowsSession
<1>1. FollowInv => ListFollowsSession
  BY DEF FollowInv
<1> QED BY <1>1, FollowInvariant, PTL
=============================================================================
