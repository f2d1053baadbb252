------------------------- MODULE TesterState_proofs -------------------------
(***************************************************************************)
(* The window's state for any sources, any events in any order and any     *)
(* retention limits: the selection is listed; the list, the values, the    *)
(* frames, the log and the views of them are what the logged history says; *)
(* a summary is one of the newest latencies.                               *)
(*                                                                         *)
(* The selection needs the list's type: an entry that is not absent has an *)
(* access a device can have, so no preview can make or undo an entry.  The *)
(* others compare an incremental state with the whole history, so they     *)
(* rest on what one more event makes of each thing that is read off the    *)
(* history: the events since a source was last gone, the newest of some    *)
(* events, the newest items and the frames among them.                     *)
(***************************************************************************)
EXTENDS TesterViews, Prefixes_proofs, FiniteSetTheorems, FunctionTheorems, TLAPS,
        WellFoundedInduction

Entries == {Absent} \cup [device : Descriptions, access : Accesses, forced : BOOLEAN]

ListTypes == sources \in [SourceIds -> Entries]

SelectionInv == ListTypes /\ SelectionListed

-----------------------------------------------------------------------------
\* An entry that was announced is not Absent, whatever is previewed.
LEMMA AnnouncedListed ==
  ASSUME NEW d, NEW a \in Accesses, NEW f \in BOOLEAN
  PROVE  [device |-> d, access |-> a, forced |-> f] # Absent
  BY DEF Accesses, Absent

\* The events that change the list, or the selection, name a source.
LEMMA LifecycleNamed ==
  ASSUME NEW e \in CaptureEvents
  PROVE  /\ e.kind = "Connected" => /\ e.source \in SourceIds
                                    /\ e.device \in Descriptions /\ e.access \in Accesses
         /\ e.kind = "Disconnected" => e.source \in SourceIds
  BY DEF CaptureEvents, Entry

LEMMA ListTypesKept ==
  ASSUME ListTypes, NEW e \in CaptureEvents
  PROVE  SourcesAfter(sources, e) \in [SourceIds -> Entries]
<1> SUFFICES ASSUME NEW s \in SourceIds
             PROVE  SourcesAfter(sources, e)[s] \in Entries
  BY DEF SourcesAfter, ListTypes
<1>1. SourcesAfter(sources, e)[s] =
        IF s # e.source THEN sources[s]
        ELSE IF e.kind = "Connected"
        THEN [device |-> e.device, access |-> e.access, forced |-> FALSE]
        ELSE IF e.kind = "Disconnected" THEN Absent
        ELSE sources[s]
  BY DEF SourcesAfter, ListTypes
<1> QED BY <1>1, LifecycleNamed DEF ListTypes, Entries

\* One event: what is selected afterwards is listed afterwards.
LEMMA ApplyKeeps ==
  ASSUME SelectionInv, NEW e \in CaptureEvents, Apply(e)
  PROVE  SelectionInv'
<1> USE DEF SelectionInv
<1>1. ListTypes'
  BY ListTypesKept DEF Apply, ListTypes
<1>2. \A s \in SourceIds :
        sources'[s] = IF s # e.source THEN sources[s]
                      ELSE IF e.kind = "Connected"
                      THEN [device |-> e.device, access |-> e.access, forced |-> FALSE]
                      ELSE IF e.kind = "Disconnected" THEN Absent
                      ELSE sources[s]
  BY DEF Apply, SourcesAfter, ListTypes
<1>3. Listed(sources) \subseteq SourceIds /\ Listed(sources') \subseteq SourceIds
  BY <1>1 DEF Listed, ListTypes
<1>4. CASE e.kind = "Connected" /\ selected = NoSource
  <2>1. selected' = e.source
    BY <1>4 DEF Apply, SelectedAfter
  <2>2. e.source \in SourceIds /\ sources'[e.source] # Absent
    BY <1>2, <1>4, LifecycleNamed, AnnouncedListed
  <2>3. SelectionListed'
    BY <1>1, <2>1, <2>2 DEF SelectionListed, Listed, ListTypes
  <2> QED BY <1>1, <2>3
<1>5. CASE e.kind = "Disconnected" /\ selected = e.source
  <2>1. selected' = IF Listed(sources') = {} THEN NoSource ELSE Min(Listed(sources'))
    BY <1>5 DEF Apply, SelectedAfter
  <2>2. Listed(sources') # {} => Min(Listed(sources')) \in Listed(sources')
    BY <1>3, MinIsMember, SourceAssumption
  <2> QED BY <1>1, <2>1, <2>2 DEF SelectionListed
<1>6. CASE /\ ~(e.kind = "Connected" /\ selected = NoSource)
           /\ ~(e.kind = "Disconnected" /\ selected = e.source)
  <2>1. selected' = selected
    BY <1>6 DEF Apply, SelectedAfter
  <2>2. ASSUME selected # NoSource PROVE selected \in Listed(sources')
    <3>1. selected \in SourceIds /\ sources[selected] # Absent
      BY <2>2, <1>3 DEF SelectionListed, Listed
    <3>2. sources'[selected] # Absent
      BY <3>1, <1>2, <1>6, LifecycleNamed, AnnouncedListed
    <3> QED BY <1>1, <3>1, <3>2 DEF Listed, ListTypes
  <2> QED BY <1>1, <2>1, <2>2 DEF SelectionListed
<1> QED BY <1>4, <1>5, <1>6

\* A preview changes an entry, never whether there is one.
LEMMA PreviewKeeps ==
  ASSUME SelectionInv, NEW s \in SourceIds, NEW forced \in BOOLEAN, Preview(s, forced)
  PROVE  SelectionInv'
<1> USE DEF SelectionInv
<1>1. /\ sources' = [sources EXCEPT ![s].forced = forced]
      /\ selected' = selected
      /\ sources[s] # Absent
  BY DEF Preview, Listed
<1>2. sources[s] \in [device : Descriptions, access : Accesses, forced : BOOLEAN]
  BY <1>1 DEF ListTypes, Entries
<1>3. /\ sources'[s] \in [device : Descriptions, access : Accesses, forced : BOOLEAN]
      /\ \A r \in SourceIds \ {s} : sources'[r] = sources[r]
  BY <1>1, <1>2 DEF ListTypes
<1>4. ListTypes'
  BY <1>1, <1>3 DEF ListTypes, Entries
<1>5. sources'[s] # Absent
  BY <1>3, AnnouncedListed DEF Accesses, Absent
<1>6. Listed(sources') = Listed(sources)
  BY <1>1, <1>3, <1>4, <1>5 DEF Listed, ListTypes
<1> QED BY <1>1, <1>4, <1>6 DEF SelectionListed

-----------------------------------------------------------------------------
\* TesterState::apply, select_source and the previews keep the list well formed and
\* the selection on it.
THEOREM SelectionInvariant == Spec => []SelectionInv
<1>1. Init => SelectionInv
  BY DEF Init, SelectionInv, ListTypes, SelectionListed, Entries
<1>2. SelectionInv /\ [Next]_vars => SelectionInv'
  <2> SUFFICES ASSUME SelectionInv, [Next]_vars PROVE SelectionInv'
    OBVIOUS
  <2>1. CASE UNCHANGED vars
    BY <2>1 DEF vars, SelectionInv, ListTypes, SelectionListed
  <2>2. ASSUME NEW e \in CaptureEvents, Apply(e) PROVE SelectionInv'
    BY <2>2, ApplyKeeps
  <2>3. ASSUME NEW s \in SourceIds \cup {NoSource}, SelectSource(s) PROVE SelectionInv'
    BY <2>3 DEF SelectSource, SelectionInv, ListTypes, SelectionListed
  <2>4. ASSUME NEW s \in SourceIds, NEW forced \in BOOLEAN, Preview(s, forced)
        PROVE  SelectionInv'
    BY <2>4, PreviewKeeps
  <2>5. ASSUME NEW parses \in BOOLEAN, ApplyHidFixture(parses) PROVE SelectionInv'
    BY <2>5 DEF ApplyHidFixture, SelectionInv, ListTypes, SelectionListed
  <2> QED BY <2>1, <2>2, <2>3, <2>4, <2>5 DEF Next
<1> QED BY <1>1, <1>2, PTL DEF Spec

\* Whatever comes, goes and is selected, the window's views find the source that is
\* selected in the list.
THEOREM SelectionFound == Spec => []SelectionListed
<1>1. SelectionInv => SelectionListed
  BY DEF SelectionInv
<1> QED BY <1>1, SelectionInvariant, PTL
-----------------------------------------------------------------------------
(* The history: what an operation adds to it.                              *)

\* What the state logs.
Logged ==
  CaptureEvents
  \cup {Entry(k, s) : k \in {"Forced", "Cleared", "Fixture", "FixtureError"},
                      s \in SourceIds \cup {NoSource}}

HistoryTypes == history \in Seq(Logged)

LEMMA AppendPlaces ==
  ASSUME NEW T, NEW q \in Seq(T), NEW e \in T
  PROVE  /\ Len(q) \in Nat /\ DOMAIN q = 1..Len(q)
         /\ Append(q, e) \in Seq(T)
         /\ Len(Append(q, e)) = Len(q) + 1
         /\ DOMAIN Append(q, e) = 1..(Len(q) + 1)
         /\ \A i \in 1..Len(q) : Append(q, e)[i] = q[i]
         /\ Append(q, e)[Len(q) + 1] = e
  OBVIOUS

\* The newest of some earlier events is the same with one more event, and the event
\* itself where it is one of them.
LEMMA NewestKept ==
  ASSUME NEW q \in Seq(Logged), NEW e \in Logged, NEW hits \in SUBSET (1..Len(q))
  PROVE  NewestOf(Append(q, e), hits) = NewestOf(q, hits)
<1>1. hits # {} => Max(hits) \in 1..Len(q)
  BY MaxIsMember, AppendPlaces
<1>2. hits # {} => Append(q, e)[Max(hits)] = q[Max(hits)]
  BY <1>1, AppendPlaces
<1> QED BY <1>2 DEF NewestOf

LEMMA NewestAdded ==
  ASSUME NEW q \in Seq(Logged), NEW e \in Logged, NEW hits \in SUBSET (1..Len(q))
  PROVE  NewestOf(Append(q, e), hits \cup {Len(q) + 1}) = e
<1> DEFINE n == Len(q)
           more == hits \cup {n + 1}
<1>1. n \in Nat /\ n + 1 \in Nat
  BY AppendPlaces
<1>2. more \in SUBSET (1..(n + 1)) /\ more # {} /\ n + 1 \in more
  <2>1. 1..n \subseteq 1..(n + 1) /\ n + 1 \in 1..(n + 1)
    BY <1>1
  <2>2. hits \subseteq 1..n
    OBVIOUS
  <2> HIDE DEF n
  <2> QED BY <2>1, <2>2
<1>3. Max(more) \in more /\ Max(more) >= n + 1
  BY <1>1, <1>2, MaxIsMember
<1>4. Max(more) = n + 1
  BY <1>1, <1>2, <1>3
<1> QED BY <1>2, <1>4, AppendPlaces DEF NewestOf

\* The newest of some events is one of them.
LEMMA NewestIsOne ==
  ASSUME NEW q \in Seq(Logged), NEW hits \in SUBSET (1..Len(q)), hits # {}
  PROVE  \E i \in hits : NewestOf(q, hits) = q[i]
<1>1. Len(q) \in Nat
  OBVIOUS
<1>2. Max(hits) \in hits
  BY <1>1, MaxIsMember
<1> QED BY <1>2 DEF NewestOf

\* A Disconnected starts the events of its source afresh; another event of the source
\* is one more.
LEMMA SinceGoneAppend ==
  ASSUME HistoryTypes, NEW e \in Logged, history' = Append(history, e), NEW s
  PROVE  /\ SinceGone(s) \in SUBSET (1..Len(history))
         /\ SinceGone(s)' = IF Gone(e, s) THEN {}
                            ELSE IF e.source = s THEN SinceGone(s) \cup {Len(history) + 1}
                            ELSE SinceGone(s)
<1> DEFINE n == Len(history)
<1>1. /\ n \in Nat /\ DOMAIN history = 1..n /\ DOMAIN history' = 1..(n + 1)
      /\ Len(history') = n + 1
      /\ \A i \in 1..n : history'[i] = history[i]
      /\ history'[n + 1] = e
  BY AppendPlaces DEF HistoryTypes
<1> HIDE DEF n
<1>2. SinceGone(s) = {i \in 1..n : /\ history[i].source = s
                                   /\ \A j \in i..n : ~Gone(history[j], s)}
  BY <1>1 DEF SinceGone, n
<1>3. SinceGone(s)' = {i \in 1..(n + 1) : /\ history'[i].source = s
                                          /\ \A j \in i..(n + 1) : ~Gone(history'[j], s)}
  BY <1>1 DEF SinceGone, Gone
<1>4. SinceGone(s)' = {i \in 1..(n + 1) :
                         /\ (IF i = n + 1 THEN e ELSE history[i]).source = s
                         /\ \A j \in i..n : ~Gone(history[j], s)
                         /\ ~Gone(e, s)}
  <2>1. ASSUME NEW i \in 1..(n + 1)
        PROVE  (\A j \in i..(n + 1) : ~Gone(history'[j], s))
               <=> (\A j \in i..n : ~Gone(history[j], s)) /\ ~Gone(e, s)
    <3>1. i..(n + 1) = (i..n) \cup {n + 1} /\ i..n \subseteq 1..n
      BY <1>1
    <3>2. \A j \in i..n : history'[j] = history[j]
      BY <1>1, <3>1
    <3> QED BY <1>1, <3>1, <3>2
  <2>2. \A i \in 1..(n + 1) : history'[i] = IF i = n + 1 THEN e ELSE history[i]
    BY <1>1
  <2> QED BY <1>3, <2>1, <2>2
<1>5. SinceGone(s)' = IF Gone(e, s) THEN {}
                      ELSE IF e.source = s THEN SinceGone(s) \cup {n + 1}
                      ELSE SinceGone(s)
  <2>1. 1..(n + 1) = (1..n) \cup {n + 1} /\ ~(n + 1 \in 1..n) /\ (n + 1)..n = {}
    BY <1>1
  <2> QED BY <1>2, <1>4, <2>1
<1> QED BY <1>2, <1>5 DEF n
-----------------------------------------------------------------------------
(* The list and the values against the history.                            *)

\* What an operation logs makes the history one event longer.
LEMMA ListFields ==
  ASSUME NEW e \in CaptureEvents
  PROVE  /\ e \in Logged
         /\ e.kind \notin {"none", "Forced", "Cleared"}
         /\ e.kind \in {"Connected", "Disconnected"} => e.source \in SourceIds
         /\ \A s : Gone(e, s) <=> e.kind = "Disconnected" /\ e.source = s
  BY DEF CaptureEvents, Logged, Entry, Gone

LEMMA PreviewFields ==
  ASSUME NEW s \in SourceIds, NEW forced \in BOOLEAN
  PROVE  LET e == Entry(IF forced THEN "Forced" ELSE "Cleared", s)
         IN /\ e \in Logged
            /\ e.source = s
            /\ e.kind \in {"Forced", "Cleared"} /\ (e.kind = "Forced" <=> forced)
            /\ \A r : ~Gone(e, r)
  BY DEF Logged, Entry, Gone

LEMMA FixtureFields ==
  ASSUME NEW parses \in BOOLEAN
  PROVE  LET e == Entry(IF parses THEN "Fixture" ELSE "FixtureError", NoSource)
         IN /\ e \in Logged
            /\ e.source = NoSource
            /\ e.kind \in {"Fixture", "FixtureError"}
            /\ \A r : ~Gone(e, r)
<1>1. \A k \in {"Fixture", "FixtureError"} : Entry(k, NoSource) \in Logged
  BY DEF Logged
<1>2. (IF parses THEN "Fixture" ELSE "FixtureError") \in {"Fixture", "FixtureError"}
  OBVIOUS
<1> QED BY <1>1, <1>2 DEF Entry, Gone

\* The announcements and the previews of a source: what one more event makes of them.
LEMMA LivesAppend ==
  ASSUME HistoryTypes, NEW e \in Logged, history' = Append(history, e), NEW s
  PROVE  /\ Lives(s) \in SUBSET (1..Len(history))
         /\ Previews(s) \in SUBSET (1..Len(history))
         /\ Lives(s)' = IF Gone(e, s) THEN {}
                        ELSE IF e.source = s /\ e.kind = "Connected"
                        THEN Lives(s) \cup {Len(history) + 1}
                        ELSE Lives(s)
         /\ Previews(s)' = IF Gone(e, s) THEN {}
                           ELSE IF e.source = s /\ e.kind \in {"Connected", "Forced", "Cleared"}
                           THEN Previews(s) \cup {Len(history) + 1}
                           ELSE Previews(s)
<1> DEFINE n == Len(history)
<1>1. /\ n \in Nat /\ history'[n + 1] = e
      /\ \A i \in 1..n : history'[i] = history[i]
      /\ ~(n + 1 \in 1..n)
  BY AppendPlaces DEF HistoryTypes
<1>2. /\ SinceGone(s) \in SUBSET (1..n)
      /\ SinceGone(s)' = IF Gone(e, s) THEN {}
                         ELSE IF e.source = s THEN SinceGone(s) \cup {n + 1}
                         ELSE SinceGone(s)
  BY SinceGoneAppend
<1> HIDE DEF n
<1>3. Lives(s)' = {i \in SinceGone(s)' : history'[i].kind = "Connected"}
  BY DEF Lives
<1>4. Previews(s)' = {i \in SinceGone(s)' :
                        history'[i].kind \in {"Connected", "Forced", "Cleared"}}
  BY DEF Previews
<1>5. /\ Lives(s)' = IF Gone(e, s) THEN {}
                     ELSE IF e.source = s /\ e.kind = "Connected" THEN Lives(s) \cup {n + 1}
                     ELSE Lives(s)
      /\ Previews(s)' = IF Gone(e, s) THEN {}
                        ELSE IF e.source = s /\ e.kind \in {"Connected", "Forced", "Cleared"}
                        THEN Previews(s) \cup {n + 1}
                        ELSE Previews(s)
  <2>1. \A i \in SinceGone(s) : history'[i] = history[i] /\ i # n + 1
    BY <1>1, <1>2
  <2>2. CASE Gone(e, s)
    BY <1>2, <1>3, <1>4, <2>2
  <2>3. CASE ~Gone(e, s) /\ e.source = s
    <3>1. SinceGone(s)' = SinceGone(s) \cup {n + 1}
      BY <1>2, <2>3
    <3> QED BY <1>1, <1>3, <1>4, <2>1, <2>3, <3>1 DEF Lives, Previews
  <2>4. CASE ~Gone(e, s) /\ e.source # s
    <3>1. SinceGone(s)' = SinceGone(s)
      BY <1>2, <2>4
    <3> QED BY <1>3, <1>4, <2>1, <2>4, <3>1 DEF Lives, Previews
  <2> QED BY <2>2, <2>3, <2>4
<1>6. Lives(s) \in SUBSET (1..n) /\ Previews(s) \in SUBSET (1..n)
  BY <1>2 DEF Lives, Previews
<1> QED BY <1>5, <1>6 DEF n

\* The newest announcement is one; where there is none, its kind says so.
LEMMA LifeKind ==
  ASSUME HistoryTypes, NEW s, Lives(s) \in SUBSET (1..Len(history))
  PROVE  NewestOf(history, Lives(s)).kind = IF Lives(s) = {} THEN "none" ELSE "Connected"
<1>1. CASE Lives(s) = {}
  BY <1>1 DEF NewestOf, Entry
<1>2. CASE Lives(s) # {}
  <2>1. PICK i \in Lives(s) : NewestOf(history, Lives(s)) = history[i]
    BY <1>2, NewestIsOne DEF HistoryTypes
  <2> QED BY <1>2, <2>1 DEF Lives
<1> QED BY <1>1, <1>2

\* What the history says of the entry of a source.
FromHistory(s) ==
  IF Lives(s) = {} THEN Absent
  ELSE [device |-> NewestOf(history, Lives(s)).device,
        access |-> NewestOf(history, Lives(s)).access,
        forced |-> NewestOf(history, Previews(s)).kind = "Forced"]

LEMMA FromHistoryMeans ==
  ASSUME HistoryTypes, \A s \in SourceIds : Lives(s) \in SUBSET (1..Len(history))
  PROVE  SourcesFromHistory <=> \A s \in SourceIds : sources[s] = FromHistory(s)
  BY LifeKind DEF SourcesFromHistory, FromHistory

LEMMA LivesPlaces ==
  ASSUME HistoryTypes, NEW s
  PROVE  Lives(s) \in SUBSET (1..Len(history))
  BY DEF HistoryTypes, Lives, SinceGone

\* One more event: what the history then says of a source.
LEMMA FromHistoryAppend ==
  ASSUME HistoryTypes, NEW e \in Logged, history' = Append(history, e), NEW s
  PROVE  FromHistory(s)' =
           IF Gone(e, s) THEN Absent
           ELSE IF e.source # s THEN FromHistory(s)
           ELSE IF e.kind = "Connected"
           THEN [device |-> e.device, access |-> e.access, forced |-> FALSE]
           ELSE IF Lives(s) # {} /\ e.kind \in {"Forced", "Cleared"}
           THEN [device |-> FromHistory(s).device, access |-> FromHistory(s).access,
                 forced |-> e.kind = "Forced"]
           ELSE FromHistory(s)
<1> DEFINE n == Len(history)
<1>1. /\ Lives(s) \in SUBSET (1..n) /\ Previews(s) \in SUBSET (1..n)
      /\ Lives(s)' = IF Gone(e, s) THEN {}
                     ELSE IF e.source = s /\ e.kind = "Connected" THEN Lives(s) \cup {n + 1}
                     ELSE Lives(s)
      /\ Previews(s)' = IF Gone(e, s) THEN {}
                        ELSE IF e.source = s /\ e.kind \in {"Connected", "Forced", "Cleared"}
                        THEN Previews(s) \cup {n + 1}
                        ELSE Previews(s)
  BY LivesAppend
<1>2. \A hits \in SUBSET (1..n) :
        /\ NewestOf(history', hits) = NewestOf(history, hits)
        /\ NewestOf(history', hits \cup {n + 1}) = e
  <2>1. history \in Seq(Logged)
    BY DEF HistoryTypes
  <2> SUFFICES ASSUME NEW hits \in SUBSET (1..n)
               PROVE  /\ NewestOf(history', hits) = NewestOf(history, hits)
                      /\ NewestOf(history', hits \cup {n + 1}) = e
    OBVIOUS
  <2>2. NewestOf(Append(history, e), hits) = NewestOf(history, hits)
    BY <2>1, NewestKept
  <2>3. NewestOf(Append(history, e), hits \cup {n + 1}) = e
    BY <2>1, NewestAdded
  <2> QED BY <2>2, <2>3
<1>3. FromHistory(s)' =
        IF Lives(s)' = {} THEN Absent
        ELSE [device |-> NewestOf(history', Lives(s)').device,
              access |-> NewestOf(history', Lives(s)').access,
              forced |-> NewestOf(history', Previews(s)').kind = "Forced"]
  BY DEF FromHistory, NewestOf
<1> HIDE DEF n
<1>4. CASE Gone(e, s)
  BY <1>1, <1>3, <1>4
<1>5. CASE ~Gone(e, s) /\ e.source = s /\ e.kind = "Connected"
  <2>1. Lives(s)' = Lives(s) \cup {n + 1} /\ Previews(s)' = Previews(s) \cup {n + 1}
    BY <1>1, <1>5
  <2>2. NewestOf(history', Lives(s)') = e /\ NewestOf(history', Previews(s)') = e
    BY <1>1, <1>2, <2>1
  <2> QED BY <1>3, <1>5, <2>1, <2>2
<1>6. CASE ~Gone(e, s) /\ e.source = s /\ e.kind \in {"Forced", "Cleared"}
  <2>1. Lives(s)' = Lives(s) /\ Previews(s)' = Previews(s) \cup {n + 1}
    BY <1>1, <1>6
  <2>2. /\ NewestOf(history', Lives(s)') = NewestOf(history, Lives(s))
        /\ NewestOf(history', Previews(s)') = e
    BY <1>1, <1>2, <2>1
  <2> QED BY <1>3, <1>6, <2>1, <2>2 DEF FromHistory
<1>7. CASE /\ ~Gone(e, s)
           /\ ~(e.source = s /\ e.kind \in {"Connected", "Forced", "Cleared"})
  <2>1. Lives(s)' = Lives(s) /\ Previews(s)' = Previews(s)
    BY <1>1, <1>7
  <2>2. /\ NewestOf(history', Lives(s)') = NewestOf(history, Lives(s))
        /\ NewestOf(history', Previews(s)') = NewestOf(history, Previews(s))
    BY <1>1, <1>2, <2>1
  <2> QED BY <1>3, <1>7, <2>1, <2>2 DEF FromHistory
<1> QED BY <1>4, <1>5, <1>6, <1>7
\* The list is what the history says of it.
ListAgrees == \A s \in SourceIds : sources[s] = FromHistory(s)

HistoryInv == ListTypes /\ HistoryTypes /\ ListAgrees

LEMMA HistoryGrows ==
  ASSUME HistoryTypes, NEW e \in Logged, history' = Append(history, e)
  PROVE  HistoryTypes'
  BY DEF HistoryTypes

LEMMA ApplyAgrees ==
  ASSUME HistoryInv, NEW e \in CaptureEvents, Apply(e)
  PROVE  HistoryInv'
<1> USE DEF HistoryInv
<1>1. e \in Logged /\ history' = Append(history, e)
  BY ListFields DEF Apply, Log
<1>2. ListTypes' /\ HistoryTypes'
  BY <1>1, ListTypesKept, HistoryGrows DEF Apply, ListTypes
<1>3. ASSUME NEW s \in SourceIds PROVE sources'[s] = FromHistory(s)'
  <2>1. sources'[s] = IF s # e.source THEN sources[s]
                      ELSE IF e.kind = "Connected"
                      THEN [device |-> e.device, access |-> e.access, forced |-> FALSE]
                      ELSE IF e.kind = "Disconnected" THEN Absent
                      ELSE sources[s]
    BY DEF Apply, SourcesAfter, ListTypes
  <2>2. FromHistory(s)' =
           IF Gone(e, s) THEN Absent
           ELSE IF e.source # s THEN FromHistory(s)
           ELSE IF e.kind = "Connected"
           THEN [device |-> e.device, access |-> e.access, forced |-> FALSE]
           ELSE IF Lives(s) # {} /\ e.kind \in {"Forced", "Cleared"}
           THEN [device |-> FromHistory(s).device, access |-> FromHistory(s).access,
                 forced |-> e.kind = "Forced"]
           ELSE FromHistory(s)
    BY <1>1, FromHistoryAppend
  <2>3. /\ e.kind \notin {"Forced", "Cleared"}
        /\ Gone(e, s) <=> e.kind = "Disconnected" /\ e.source = s
    BY ListFields
  <2>4. sources[s] = FromHistory(s)
    BY DEF ListAgrees
  <2> QED BY <2>1, <2>2, <2>3, <2>4
<1> QED BY <1>2, <1>3 DEF ListAgrees

LEMMA PreviewAgrees ==
  ASSUME HistoryInv, NEW s \in SourceIds, NEW forced \in BOOLEAN, Preview(s, forced),
         ListTypes'
  PROVE  HistoryInv'
<1> USE DEF HistoryInv
<1> DEFINE e == Entry(IF forced THEN "Forced" ELSE "Cleared", s)
<1>1. e \in Logged /\ history' = Append(history, e)
  BY PreviewFields DEF Preview, Log
<1>2. HistoryTypes'
  BY <1>1, HistoryGrows
<1>3. /\ e.source = s
      /\ e.kind \in {"Forced", "Cleared"} /\ (e.kind = "Forced" <=> forced)
      /\ \A r : ~Gone(e, r)
  BY PreviewFields
<1> HIDE DEF e
<1>4. /\ sources' = [sources EXCEPT ![s].forced = forced]
      /\ sources[s] # Absent
  BY DEF Preview, Listed
<1>5. ASSUME NEW r \in SourceIds PROVE sources'[r] = FromHistory(r)'
  <2>1. FromHistory(r)' =
           IF Gone(e, r) THEN Absent
           ELSE IF e.source # r THEN FromHistory(r)
           ELSE IF e.kind = "Connected"
           THEN [device |-> e.device, access |-> e.access, forced |-> FALSE]
           ELSE IF Lives(r) # {} /\ e.kind \in {"Forced", "Cleared"}
           THEN [device |-> FromHistory(r).device, access |-> FromHistory(r).access,
                 forced |-> e.kind = "Forced"]
           ELSE FromHistory(r)
    BY <1>1, FromHistoryAppend
  <2>2. sources[r] = FromHistory(r)
    BY DEF ListAgrees
  <2>3. CASE r = s
    <3>1. Lives(s) # {}
      BY <1>4, <2>2, <2>3 DEF FromHistory
    <3>2. FromHistory(s)' = [device |-> FromHistory(s).device, access |-> FromHistory(s).access,
                             forced |-> e.kind = "Forced"]
      BY <1>3, <2>1, <2>3, <3>1
    <3>3. sources[s] \in [device : Descriptions, access : Accesses, forced : BOOLEAN]
      BY <1>4 DEF ListTypes, Entries
    <3>4. sources'[s] = [device |-> sources[s].device, access |-> sources[s].access,
                      forced |-> forced]
      BY <1>4, <3>3 DEF ListTypes
    <3>5. (e.kind = "Forced") = forced
      BY <1>3
    <3> QED BY <2>2, <2>3, <3>2, <3>4, <3>5
  <2>4. CASE r # s
    <3>1. sources'[r] = sources[r]
      BY <1>4, <2>4 DEF ListTypes
    <3> QED BY <1>3, <2>1, <2>2, <2>4, <3>1
  <2> QED BY <2>3, <2>4
<1> QED BY <1>2, <1>5 DEF ListAgrees

LEMMA FixtureAgrees ==
  ASSUME HistoryInv, NEW parses \in BOOLEAN, ApplyHidFixture(parses)
  PROVE  HistoryInv'
<1> USE DEF HistoryInv
<1> DEFINE e == Entry(IF parses THEN "Fixture" ELSE "FixtureError", NoSource)
<1>1. e \in Logged /\ history' = Append(history, e)
  BY FixtureFields DEF ApplyHidFixture, Log
<1>2. e.source = NoSource /\ e.kind \in {"Fixture", "FixtureError"} /\ \A r : ~Gone(e, r)
  BY FixtureFields
<1> HIDE DEF e
<1>3. HistoryTypes' /\ ListTypes' /\ sources' = sources
  BY <1>1, HistoryGrows DEF ApplyHidFixture, ListTypes
<1>4. ASSUME NEW s \in SourceIds PROVE sources'[s] = FromHistory(s)'
  <2>1. s # e.source
    BY <1>2, SourceAssumption
  <2>2. FromHistory(s)' = FromHistory(s)
    BY <1>1, <1>2, <2>1, FromHistoryAppend
  <2> QED BY <1>3, <2>2 DEF ListAgrees
<1> QED BY <1>3, <1>4 DEF ListAgrees

LEMMA StutterAgrees ==
  ASSUME HistoryInv, UNCHANGED <<sources, history>>
  PROVE  HistoryInv'
<1>1. ListTypes' /\ HistoryTypes'
  BY DEF HistoryInv, ListTypes, HistoryTypes
<1>2. \A s : SinceGone(s)' = SinceGone(s)
  BY DEF SinceGone
<1>3. \A s : Lives(s)' = Lives(s) /\ Previews(s)' = Previews(s)
  BY <1>2 DEF Lives, Previews
<1>4. \A s : FromHistory(s)' = FromHistory(s)
  BY <1>3 DEF FromHistory
<1> QED BY <1>1, <1>4 DEF HistoryInv, ListAgrees

\* TesterState::apply and the previews keep the list equal to what the logged history
\* says of it.
THEOREM HistoryInvariant == Spec => []HistoryInv
<1>1. Init => HistoryInv
  <2> SUFFICES ASSUME Init PROVE HistoryInv
    OBVIOUS
  <2>1. ListTypes /\ HistoryTypes
    BY DEF Init, ListTypes, HistoryTypes, Entries
  <2>2. \A s : Lives(s) = {}
    BY DEF Init, Lives, SinceGone
  <2> QED BY <2>1, <2>2 DEF Init, HistoryInv, ListAgrees, FromHistory
<1>2. HistoryInv /\ SelectionInv' /\ [Next]_vars => HistoryInv'
  <2> SUFFICES ASSUME HistoryInv, SelectionInv', [Next]_vars PROVE HistoryInv'
    OBVIOUS
  <2>1. CASE UNCHANGED vars
    BY <2>1, StutterAgrees DEF vars
  <2>2. ASSUME NEW e \in CaptureEvents, Apply(e) PROVE HistoryInv'
    BY <2>2, ApplyAgrees
  <2>3. ASSUME NEW s \in SourceIds \cup {NoSource}, SelectSource(s) PROVE HistoryInv'
    BY <2>3, StutterAgrees DEF SelectSource
  <2>4. ASSUME NEW s \in SourceIds, NEW forced \in BOOLEAN, Preview(s, forced)
        PROVE  HistoryInv'
    BY <2>4, PreviewAgrees DEF SelectionInv
  <2>5. ASSUME NEW parses \in BOOLEAN, ApplyHidFixture(parses) PROVE HistoryInv'
    BY <2>5, FixtureAgrees
  <2> QED BY <2>1, <2>2, <2>3, <2>4, <2>5 DEF Next
<1> QED BY <1>1, <1>2, SelectionInvariant, PTL DEF Spec

\* The list the window shows, and the previews on it, are what the events and the user's
\* choices say, in any order: nothing of a source outlives its disconnection, and no
\* preview a reconnection.
THEOREM ListFromHistory == Spec => []SourcesFromHistory
<1>1. HistoryInv => SourcesFromHistory
  BY FromHistoryMeans, LivesPlaces DEF HistoryInv, ListAgrees
<1> QED BY <1>1, HistoryInvariant, PTL
-----------------------------------------------------------------------------
(* The values against the history.                                         *)

\* The frames of a source that carry a code: what one more event makes of them.
LEMMA CarriersAppend ==
  ASSUME HistoryTypes, NEW e \in Logged, history' = Append(history, e), NEW s, NEW c
  PROVE  /\ Carriers(s, c) \in SUBSET (1..Len(history))
         /\ Carriers(s, c)' = IF Gone(e, s) THEN {}
                              ELSE IF e.source = s /\ Carries(e, c)
                              THEN Carriers(s, c) \cup {Len(history) + 1}
                              ELSE Carriers(s, c)
<1> DEFINE n == Len(history)
<1>1. /\ n \in Nat /\ history'[n + 1] = e
      /\ \A i \in 1..n : history'[i] = history[i]
      /\ ~(n + 1 \in 1..n)
  BY AppendPlaces DEF HistoryTypes
<1>2. /\ SinceGone(s) \in SUBSET (1..n)
      /\ SinceGone(s)' = IF Gone(e, s) THEN {}
                         ELSE IF e.source = s THEN SinceGone(s) \cup {n + 1}
                         ELSE SinceGone(s)
  BY SinceGoneAppend
<1> HIDE DEF n
<1>3. Carriers(s, c)' = {i \in SinceGone(s)' : Carries(history'[i], c)}
  BY DEF Carriers, Carries
<1>4. \A i \in SinceGone(s) : history'[i] = history[i] /\ i # n + 1
  BY <1>1, <1>2
<1>5. Carriers(s, c)' = IF Gone(e, s) THEN {}
                        ELSE IF e.source = s /\ Carries(e, c) THEN Carriers(s, c) \cup {n + 1}
                        ELSE Carriers(s, c)
  <2>1. CASE Gone(e, s)
    BY <1>2, <1>3, <2>1
  <2>2. CASE ~Gone(e, s) /\ e.source = s
    <3>1. SinceGone(s)' = SinceGone(s) \cup {n + 1}
      BY <1>2, <2>2
    <3> QED BY <1>1, <1>3, <1>4, <2>2, <3>1 DEF Carriers
  <2>3. CASE ~Gone(e, s) /\ e.source # s
    <3>1. SinceGone(s)' = SinceGone(s)
      BY <1>2, <2>3
    <3> QED BY <1>3, <1>4, <2>3, <3>1 DEF Carriers
  <2> QED BY <2>1, <2>2, <2>3
<1>6. Carriers(s, c) \in SUBSET (1..n)
  BY <1>2 DEF Carriers
<1> QED BY <1>5, <1>6 DEF n

LEMMA CarriersPlaces ==
  ASSUME HistoryTypes, NEW s, NEW c
  PROVE  Carriers(s, c) \in SUBSET (1..Len(history))
  BY DEF HistoryTypes, Carriers, SinceGone

\* What the history says of the value of a code.
ValueOf(s, c) ==
  IF Carriers(s, c) = {} THEN Unset
  ELSE {LastValue(NewestOf(history, Carriers(s, c)), c)}

LEMMA ValueOfMeans ==
  ASSUME HistoryTypes
  PROVE  ValuesFromHistory <=> \A s \in SourceIds, c \in Codes : values[s][c] = ValueOf(s, c)
<1>1. ASSUME NEW s, NEW c
      PROVE  (NewestOf(history, Carriers(s, c)).kind = "none") <=> Carriers(s, c) = {}
  <2>1. CASE Carriers(s, c) = {}
    BY <2>1 DEF NewestOf, Entry
  <2>2. CASE Carriers(s, c) # {}
    <3>1. PICK i \in Carriers(s, c) : NewestOf(history, Carriers(s, c)) = history[i]
      BY <2>2, CarriersPlaces, NewestIsOne DEF HistoryTypes
    <3>2. Carries(history[i], c)
      BY <3>1 DEF Carriers
    <3>3. NewestOf(history, Carriers(s, c)).kind = "Input"
      BY <3>1, <3>2 DEF Carries
    <3> QED BY <2>2, <3>3
  <2> QED BY <2>1, <2>2
<1>2. \A s, c : ValueOf(s, c) =
        LET frame == NewestOf(history, Carriers(s, c))
        IN IF frame.kind = "none" THEN Unset ELSE {LastValue(frame, c)}
  BY <1>1, Zenon DEF ValueOf
<1> QED BY <1>2, Zenon DEF ValuesFromHistory

LEMMA ValueOfAppend ==
  ASSUME HistoryTypes, NEW e \in Logged, history' = Append(history, e), NEW s, NEW c
  PROVE  ValueOf(s, c)' = IF Gone(e, s) THEN Unset
                          ELSE IF e.source = s /\ Carries(e, c) THEN {LastValue(e, c)}
                          ELSE ValueOf(s, c)
<1> DEFINE n == Len(history)
<1>1. /\ Carriers(s, c) \in SUBSET (1..n)
      /\ Carriers(s, c)' = IF Gone(e, s) THEN {}
                           ELSE IF e.source = s /\ Carries(e, c)
                           THEN Carriers(s, c) \cup {n + 1}
                           ELSE Carriers(s, c)
  BY CarriersAppend
<1>2. \A hits \in SUBSET (1..n) :
        /\ NewestOf(history', hits) = NewestOf(history, hits)
        /\ NewestOf(history', hits \cup {n + 1}) = e
  <2>1. history \in Seq(Logged)
    BY DEF HistoryTypes
  <2> SUFFICES ASSUME NEW hits \in SUBSET (1..n)
               PROVE  /\ NewestOf(history', hits) = NewestOf(history, hits)
                      /\ NewestOf(history', hits \cup {n + 1}) = e
    OBVIOUS
  <2>2. NewestOf(Append(history, e), hits) = NewestOf(history, hits)
    BY <2>1, NewestKept
  <2>3. NewestOf(Append(history, e), hits \cup {n + 1}) = e
    BY <2>1, NewestAdded
  <2> QED BY <2>2, <2>3
<1>3. ValueOf(s, c)' = IF Carriers(s, c)' = {} THEN Unset
                       ELSE {LastValue(NewestOf(history', Carriers(s, c)'), c)}
  BY DEF ValueOf, NewestOf, LastValue
<1> HIDE DEF n
<1>4. CASE Gone(e, s)
  BY <1>1, <1>3, <1>4
<1>5. CASE ~Gone(e, s) /\ e.source = s /\ Carries(e, c)
  <2>1. Carriers(s, c)' = Carriers(s, c) \cup {n + 1}
    BY <1>1, <1>5
  <2>2. NewestOf(history', Carriers(s, c)') = e
    BY <1>1, <1>2, <2>1
  <2> QED BY <1>3, <1>5, <2>1, <2>2
<1>6. CASE ~Gone(e, s) /\ ~(e.source = s /\ Carries(e, c))
  <2>1. Carriers(s, c)' = Carriers(s, c)
    BY <1>1, <1>6
  <2>2. NewestOf(history', Carriers(s, c)') = NewestOf(history, Carriers(s, c))
    BY <1>1, <1>2, <2>1
  <2> QED BY <1>3, <1>6, <2>1, <2>2 DEF ValueOf
<1> QED BY <1>4, <1>5, <1>6

\* The values are those of the codes of the sources.
ValueTypes == DOMAIN values = SourceIds /\ \A s \in SourceIds : DOMAIN values[s] = Codes

ValuesAgree == \A s \in SourceIds, c \in Codes : values[s][c] = ValueOf(s, c)

ValuesInv == ValueTypes /\ HistoryTypes /\ ValuesAgree

LEMMA ApplyValues ==
  ASSUME ValuesInv, NEW e \in CaptureEvents, Apply(e)
  PROVE  ValuesInv'
<1> USE DEF ValuesInv
<1>1. e \in Logged /\ history' = Append(history, e)
  BY ListFields DEF Apply, Log
<1>2. HistoryTypes'
  BY <1>1, HistoryGrows
<1>3. /\ DOMAIN values' = SourceIds
      /\ \A s \in SourceIds :
           values'[s] = IF s # e.source THEN values[s]
                        ELSE IF e.kind = "Input"
                        THEN [c \in Codes |-> Latest(e.changes, c, values[s][c])]
                        ELSE IF e.kind = "Disconnected" THEN [c \in Codes |-> Unset]
                        ELSE values[s]
  BY DEF Apply, ValuesAfter, ValueTypes
<1>4. ValueTypes'
  BY <1>3 DEF ValueTypes
<1>5. ASSUME NEW s \in SourceIds, NEW c \in Codes PROVE values'[s][c] = ValueOf(s, c)'
  <2>1. ValueOf(s, c)' = IF Gone(e, s) THEN Unset
                         ELSE IF e.source = s /\ Carries(e, c) THEN {LastValue(e, c)}
                         ELSE ValueOf(s, c)
    BY <1>1, ValueOfAppend
  <2>2. Gone(e, s) <=> e.kind = "Disconnected" /\ e.source = s
    BY ListFields
  <2>3. values[s][c] = ValueOf(s, c)
    BY DEF ValuesAgree
  <2>4. e.kind = "Input" =>
          Latest(e.changes, c, values[s][c])
            = IF Carries(e, c) THEN {LastValue(e, c)} ELSE values[s][c]
    <3> DEFINE hits == {i \in DOMAIN e.changes : e.changes[i].code = c}
    <3>1. e.kind = "Input" => (Carries(e, c) <=> hits # {})
      BY DEF Carries
    <3>2. Latest(e.changes, c, values[s][c])
            = IF hits = {} THEN values[s][c] ELSE {LastValue(e, c)}
      BY DEF Latest, LastValue
    <3> QED BY <3>1, <3>2
  <2>5. e.kind # "Input" => ~Carries(e, c)
    BY DEF Carries
  <2> QED BY <1>3, <2>1, <2>2, <2>3, <2>4, <2>5
<1> QED BY <1>2, <1>4, <1>5 DEF ValuesAgree

\* The user's choices and the fixture log an entry of no frame and of no disconnection.
LEMMA OtherValues ==
  ASSUME ValuesInv, NEW e \in Logged, \A s, c : ~Gone(e, s) /\ ~Carries(e, c),
         history' = Append(history, e), values' = values
  PROVE  ValuesInv'
<1>1. HistoryTypes' /\ ValueTypes'
  BY HistoryGrows DEF ValuesInv, ValueTypes
<1>2. \A s, c : ValueOf(s, c)' = ValueOf(s, c)
  BY ValueOfAppend DEF ValuesInv
<1> QED BY <1>1, <1>2 DEF ValuesInv, ValuesAgree

LEMMA StutterValues ==
  ASSUME ValuesInv, UNCHANGED <<values, history>>
  PROVE  ValuesInv'
<1>1. ValueTypes' /\ HistoryTypes'
  BY DEF ValuesInv, ValueTypes, HistoryTypes
<1>2. \A s, c : Carriers(s, c)' = Carriers(s, c)
  BY DEF SinceGone, Carriers
<1>3. \A s, c : ValueOf(s, c)' = ValueOf(s, c)
  BY <1>2 DEF ValueOf
<1> QED BY <1>1, <1>3 DEF ValuesInv, ValuesAgree

\* TesterState::apply keeps the newest value of every code, and forgets the values of a
\* source that disconnects.
THEOREM ValuesInvariant == Spec => []ValuesInv
<1>1. Init => ValuesInv
  <2> SUFFICES ASSUME Init PROVE ValuesInv
    OBVIOUS
  <2>1. ValueTypes /\ HistoryTypes
    BY DEF Init, ValueTypes, HistoryTypes
  <2>2. \A s, c : Carriers(s, c) = {}
    BY DEF Init, Carriers, SinceGone
  <2> QED BY <2>1, <2>2 DEF Init, ValuesInv, ValuesAgree, ValueOf
<1>2. ValuesInv /\ [Next]_vars => ValuesInv'
  <2> SUFFICES ASSUME ValuesInv, [Next]_vars PROVE ValuesInv'
    OBVIOUS
  <2>1. CASE UNCHANGED vars
    BY <2>1, StutterValues DEF vars
  <2>2. ASSUME NEW e \in CaptureEvents, Apply(e) PROVE ValuesInv'
    BY <2>2, ApplyValues
  <2>3. ASSUME NEW s \in SourceIds \cup {NoSource}, SelectSource(s) PROVE ValuesInv'
    BY <2>3, StutterValues DEF SelectSource
  <2>4. ASSUME NEW s \in SourceIds, NEW forced \in BOOLEAN, Preview(s, forced)
        PROVE  ValuesInv'
    <3> DEFINE e == Entry(IF forced THEN "Forced" ELSE "Cleared", s)
    <3>1. e \in Logged /\ \A r, c : ~Gone(e, r) /\ ~Carries(e, c)
      BY PreviewFields DEF Carries
    <3>2. history' = Append(history, e) /\ values' = values
      BY <2>4 DEF Preview, Log
    <3> HIDE DEF e
    <3> QED BY <3>1, <3>2, OtherValues
  <2>5. ASSUME NEW parses \in BOOLEAN, ApplyHidFixture(parses) PROVE ValuesInv'
    <3> DEFINE e == Entry(IF parses THEN "Fixture" ELSE "FixtureError", NoSource)
    <3>1. e \in Logged /\ \A r, c : ~Gone(e, r) /\ ~Carries(e, c)
      BY FixtureFields DEF Carries
    <3>2. history' = Append(history, e) /\ values' = values
      BY <2>5 DEF ApplyHidFixture, Log
    <3> HIDE DEF e
    <3> QED BY <3>1, <3>2, OtherValues
  <2> QED BY <2>1, <2>2, <2>3, <2>4, <2>5 DEF Next
<1> QED BY <1>1, <1>2, PTL DEF Spec

\* "State keeps raw values and clears them on disconnect", in any order of events: a value
\* the window shows is the last one a frame of the connection carried.
THEOREM ValuesAreLatest == Spec => []ValuesFromHistory
<1>1. ValuesInv => ValuesFromHistory
  BY ValueOfMeans DEF ValuesInv, ValuesAgree
<1> QED BY <1>1, ValuesInvariant, PTL
-----------------------------------------------------------------------------
(* The retained frames and log against the history.                        *)

LEMMA LargerOf ==
  ASSUME NEW k \in Int
  PROVE  Max({0, k}) = IF k > 0 THEN k ELSE 0
<1> DEFINE larger == IF k > 0 THEN k ELSE 0
<1>1. larger \in {0, k} /\ \A y \in {0, k} : larger >= y
  OBVIOUS
<1>2. \A x \in {0, k} : (\A y \in {0, k} : x >= y) => x = larger
  OBVIOUS
<1> HIDE DEF larger
<1>3. Max({0, k}) = larger
  BY <1>1, <1>2 DEF Max
<1> QED BY <1>3 DEF larger

\* Retain keeps the newest items, as many as the limit.
LEMMA NewestRetained ==
  ASSUME NEW T, NEW q \in Seq(T), NEW e \in T, NEW limit \in Nat \ {0}
  PROVE  Newest(Append(q, e), limit) = Retain(Newest(q, limit), e, limit)
<1> DEFINE n == Len(q)
           longer == Append(q, e)
<1>1. n \in Nat /\ longer \in Seq(T) /\ Len(longer) = n + 1
      /\ (\A i \in 1..n : longer[i] = q[i]) /\ longer[n + 1] = e
  BY AppendPlaces
<1> HIDE DEF longer
<1>2. CASE n < limit
  <2>1. Max({0, n - limit}) = 0 /\ Max({0, (n + 1) - limit}) = 0
    BY <1>1, <1>2, LargerOf
  <2>2. Newest(q, limit) = SubSeq(q, 1, n) /\ Newest(longer, limit) = SubSeq(longer, 1, n + 1)
    <3>1. 0 + 1 = 1
      OBVIOUS
    <3>2. /\ Newest(q, limit) = SubSeq(q, 0 + 1, n)
          /\ Newest(longer, limit) = SubSeq(longer, 0 + 1, n + 1)
      BY <1>1, <2>1 DEF Newest
    <3> QED BY <3>1, <3>2
  <2>3. SubSeq(q, 1, n) = q /\ SubSeq(longer, 1, n + 1) = longer
    BY <1>1
  <2>4. Len(q) # limit /\ longer = Append(q, e)
    BY <1>1, <1>2 DEF longer
  <2>5. Retain(q, e, limit) = Append(q, e)
    BY <2>4 DEF Retain
  <2> QED BY Zenon, <2>2, <2>3, <2>4, <2>5
<1>3. CASE n >= limit
  <2> DEFINE m == n - limit
             old == SubSeq(q, m + 1, n)
             new == SubSeq(longer, m + 2, n + 1)
             kept == Append(Tail(old), e)
  <2>1. Max({0, n - limit}) = m /\ Max({0, (n + 1) - limit}) = m + 1
    BY <1>1, <1>3, LargerOf
  <2>2. Newest(q, limit) = old /\ Newest(longer, limit) = new
    <3>1. (m + 1) + 1 = m + 2
      BY <1>1
    <3>2. /\ Newest(q, limit) = SubSeq(q, m + 1, n)
          /\ Newest(longer, limit) = SubSeq(longer, (m + 1) + 1, n + 1)
      BY <1>1, <2>1 DEF Newest
    <3> QED BY <3>1, <3>2
  <2>3. /\ old \in Seq(T) /\ Len(old) = limit
        /\ \A i \in 1..limit : old[i] = q[m + i]
    BY <1>1, <1>3
  <2>4. /\ new \in Seq(T) /\ Len(new) = limit
        /\ \A i \in 1..limit : new[i] = longer[m + 1 + i]
    BY <1>1, <1>3
  <2> HIDE DEF old, new
  <2>5. /\ Tail(old) \in Seq(T) /\ Len(Tail(old)) = limit - 1
        /\ \A i \in 1..(limit - 1) : Tail(old)[i] = old[i + 1]
    BY <2>3
  <2>6. /\ kept \in Seq(T) /\ Len(kept) = limit
        /\ (\A i \in 1..(limit - 1) : kept[i] = Tail(old)[i]) /\ kept[limit] = e
    BY <2>5
  <2>7. ASSUME NEW i \in 1..limit PROVE kept[i] = new[i]
    <3>1. CASE i = limit
      <4>1. m + 1 + i = n + 1
        BY <1>1, <3>1
      <4> QED BY <1>1, <2>4, <2>6, <3>1, <4>1
    <3>2. CASE i # limit
      <4>1. i \in 1..(limit - 1) /\ i + 1 \in 1..limit /\ m + 1 + i \in 1..n
            /\ m + (i + 1) = m + 1 + i
        BY <1>1, <1>3, <3>2
      <4>2. kept[i] = Tail(old)[i] /\ Tail(old)[i] = old[i + 1] /\ old[i + 1] = q[m + (i + 1)]
        BY <2>3, <2>5, <2>6, <4>1
      <4>3. new[i] = longer[m + 1 + i] /\ longer[m + 1 + i] = q[m + 1 + i]
        BY <1>1, <2>4, <4>1
      <4> QED BY <4>1, <4>2, <4>3
    <3> QED BY <3>1, <3>2
  <2> HIDE DEF kept
  <2>8. kept = new
    BY <2>4, <2>6, <2>7
  <2>9. Newest(longer, limit) = Append(Tail(Newest(q, limit)), e)
    BY <2>2, <2>8 DEF kept
  <2>10. Len(Newest(q, limit)) = limit /\ longer = Append(q, e)
    BY <2>2, <2>3 DEF longer
  <2> QED BY <2>9, <2>10 DEF Retain
<1>4. n \in Int /\ limit \in Int
  BY <1>1
<1>5. n < limit \/ n >= limit
  BY <1>4
<1> QED BY <1>2, <1>3, <1>5 DEF longer

\* The frames of the history, one event after the other.
FrameSteps(q) ==
  [i \in DOMAIN q |->
     [s \in Seq(Logged) |-> IF q[i].kind = "Input" THEN Append(s, q[i]) ELSE s]]

LEMMA FrameStep ==
  ASSUME NEW q \in Seq(Logged)
  PROVE  /\ Len(q) \in Nat /\ DOMAIN q = 1..Len(q)
         /\ StepsIn(FrameSteps(q), Len(q), Seq(Logged))
         /\ \A i \in 1..Len(q) : \A s \in Seq(Logged) :
              FrameSteps(q)[i][s] = IF q[i].kind = "Input" THEN Append(s, q[i]) ELSE s
<1>1. Len(q) \in Nat /\ DOMAIN q = 1..Len(q) /\ \A i \in 1..Len(q) : q[i] \in Logged
  OBVIOUS
<1>2. \A x \in Logged, s \in Seq(Logged) : Append(s, x) \in Seq(Logged)
  OBVIOUS
<1> QED BY <1>1, <1>2 DEF FrameSteps, StepsIn

LEMMA FramesAlong ==
  ASSUME NEW q \in Seq(Logged)
  PROVE  \E f : /\ Along(f, Len(q), <<>>, FrameSteps(q))
                /\ InputsOf(q) = f[Len(q)]
                /\ \A i \in 0..Len(q) : f[i] \in Seq(Logged)
<1> DEFINE n == Len(q)
           A == Seq(Logged)
           Keeps(f) == f = [i \in 0..n |->
                              IF i = 0 THEN <<>>
                              ELSE IF q[i].kind = "Input" THEN Append(f[i - 1], q[i])
                              ELSE f[i - 1]]
           kept == CHOOSE f : Keeps(f)
<1>1. n \in Nat /\ n \in 0..n /\ <<>> \in A
  OBVIOUS
<1>2. StepsIn(FrameSteps(q), n, A)
  BY FrameStep
<1>3. \A i \in 1..n : \A s \in A :
        FrameSteps(q)[i][s] = IF q[i].kind = "Input" THEN Append(s, q[i]) ELSE s
  BY FrameStep
<1> HIDE DEF A
<1>4. PICK f : Along(f, n, <<>>, FrameSteps(q))
  BY <1>1, <1>2, AlongExists
<1>5. \A i \in 0..n : f[i] \in A
  BY <1>1, <1>2, <1>4, AlongUnique
<1>6. Keeps(f)
  <2>1. \A i \in 1..n : FrameSteps(q)[i][f[i - 1]] =
                          IF q[i].kind = "Input" THEN Append(f[i - 1], q[i]) ELSE f[i - 1]
    BY <1>1, <1>3, <1>5
  <2>2. \A i \in 0..n : i = 0 \/ i \in 1..n
    BY <1>1
  <2> DEFINE Frames(i) == IF i = 0 THEN <<>>
                          ELSE IF q[i].kind = "Input" THEN Append(f[i - 1], q[i])
                          ELSE f[i - 1]
             Step(i) == IF i = 0 THEN <<>> ELSE FrameSteps(q)[i][f[i - 1]]
  <2>3. f = [i \in 0..n |-> Step(i)]
    BY <1>4 DEF Along
  <2>4. \A i \in 0..n : Step(i) = Frames(i)
    BY <2>1, <2>2
  <2> HIDE DEF Frames, Step
  <2>5. f = [i \in 0..n |-> Frames(i)]
    BY <2>3, <2>4
  <2> QED BY <2>5 DEF Frames
<1>7. Keeps(kept)
  <2> HIDE DEF Keeps
  <2> QED BY <1>6
<1>8. InputsOf(q) = kept[n]
  BY DEF InputsOf
<1> HIDE DEF kept
<1>9. /\ Over(kept, n) /\ kept[0] = <<>>
      /\ Follows(kept, n, A, FrameSteps(q))
  <2>1. \A i \in 0..n : kept[i] = IF i = 0 THEN <<>>
                                  ELSE IF q[i].kind = "Input" THEN Append(kept[i - 1], q[i])
                                  ELSE kept[i - 1]
    BY <1>7
  <2>2. \A i \in 1..n : i \in 0..n /\ i # 0
    BY <1>1
  <2>3. Over(kept, n)
    BY <1>7, <2>1 DEF Over
  <2>4. kept[0] = <<>>
    BY <1>1, <2>1
  <2> QED BY <1>3, <2>1, <2>2, <2>3, <2>4 DEF Follows
<1>10. Along(kept, n, <<>>, FrameSteps(q)) /\ \A i \in 0..n : kept[i] \in A
  BY <1>1, <1>2, <1>9, AlongFrom
<1> QED BY <1>8, <1>10 DEF A

\* One more event is one more frame where it is a frame.
LEMMA InputsAppend ==
  ASSUME NEW q \in Seq(Logged), NEW e \in Logged
  PROVE  /\ InputsOf(q) \in Seq(Logged)
         /\ InputsOf(Append(q, e)) = IF e.kind = "Input" THEN Append(InputsOf(q), e)
                                     ELSE InputsOf(q)
<1> DEFINE n == Len(q)
           A == Seq(Logged)
           longer == Append(q, e)
<1>1. /\ n \in Nat /\ longer \in Seq(Logged) /\ Len(longer) = n + 1 /\ longer[n + 1] = e
      /\ \A i \in 1..n : longer[i] = q[i]
      /\ n + 1 \in 1..(n + 1) /\ n + 1 # 0 /\ (n + 1) - 1 = n /\ n \in 0..n
      /\ n \in 0..(n + 1) /\ n + 1 \in Nat /\ n + 1 \in 0..(n + 1)
      /\ <<>> \in A
  OBVIOUS
<1> HIDE DEF longer
<1>2. PICK f : /\ Along(f, n, <<>>, FrameSteps(q)) /\ InputsOf(q) = f[n]
               /\ \A i \in 0..n : f[i] \in A
  BY FramesAlong
<1>3. PICK g : Along(g, n + 1, <<>>, FrameSteps(longer)) /\ InputsOf(longer) = g[n + 1]
  BY <1>1, FramesAlong
<1>4. /\ StepsIn(FrameSteps(longer), n + 1, A)
      /\ DOMAIN q = 1..n /\ DOMAIN longer = 1..(n + 1)
      /\ \A i \in 1..(n + 1) : \A s \in A :
           FrameSteps(longer)[i][s]
             = IF longer[i].kind = "Input" THEN Append(s, longer[i]) ELSE s
  BY <1>1, FrameStep
<1> HIDE DEF A
<1>5. Along(f, n, <<>>, FrameSteps(longer))
  <2>1. \A i \in 1..n : i \in 1..(n + 1)
    BY <1>1
  <2>2. ASSUME NEW i \in 1..n PROVE FrameSteps(longer)[i] = FrameSteps(q)[i]
    <3>1. i \in DOMAIN q /\ i \in DOMAIN longer /\ longer[i] = q[i]
      BY <1>1, <1>4, <2>1
    <3> QED BY <3>1 DEF FrameSteps
  <2> QED BY <1>1, <1>2, <2>2 DEF Along
<1>6. f[n] = g[n] /\ f[n] \in A
  <2>1. \A i \in 0..n : f[i] = g[i] /\ f[i] \in A
    BY <1>1, <1>3, <1>4, <1>5, AlongUnique
  <2> QED BY <1>1, <2>1
<1>7. g[n + 1] = FrameSteps(longer)[n + 1][g[n]]
  BY <1>1, <1>3 DEF Along
<1>8. FrameSteps(longer)[n + 1][g[n]] = IF e.kind = "Input" THEN Append(g[n], e) ELSE g[n]
  BY <1>1, <1>4, <1>6
<1> QED BY <1>2, <1>3, <1>6, <1>7, <1>8 DEF longer, A

LEMMA NoInputs == InputsOf(<<>>) = <<>>
<1>1. <<>> \in Seq(Logged) /\ Len(<<>>) = 0
  OBVIOUS
<1>2. PICK f : Along(f, 0, <<>>, FrameSteps(<<>>)) /\ InputsOf(<<>>) = f[0]
  BY <1>1, FramesAlong
<1> QED BY <1>2 DEF Along

RetainedInv == HistoryTypes /\ HistoryRetained

\* An operation that logs an entry, and keeps it among the frames if it is one.
LEMMA LogRetains ==
  ASSUME RetainedInv, NEW e \in Logged, Log(e),
         frames' = IF e.kind = "Input" THEN Retain(frames, e, MaxFrames) ELSE frames
  PROVE  RetainedInv'
<1>1. history' = Append(history, e) /\ log' = Retain(log, e, MaxLog)
  BY DEF Log
<1>2. HistoryTypes'
  BY <1>1, HistoryGrows DEF RetainedInv
<1>3. log' = Newest(history', MaxLog)
  <2>1. log = Newest(history, MaxLog)
    BY DEF RetainedInv, HistoryRetained
  <2>2. Newest(Append(history, e), MaxLog) = Retain(Newest(history, MaxLog), e, MaxLog)
    BY NewestRetained, RetentionAssumption DEF RetainedInv, HistoryTypes
  <2> QED BY <1>1, <2>1, <2>2
<1>4. frames' = Newest(InputsOf(history'), MaxFrames)
  <2>1. frames = Newest(InputsOf(history), MaxFrames)
    BY DEF RetainedInv, HistoryRetained
  <2>2. /\ InputsOf(history) \in Seq(Logged)
        /\ InputsOf(history') = IF e.kind = "Input" THEN Append(InputsOf(history), e)
                                ELSE InputsOf(history)
    BY <1>1, InputsAppend DEF RetainedInv, HistoryTypes
  <2>3. Newest(Append(InputsOf(history), e), MaxFrames)
          = Retain(Newest(InputsOf(history), MaxFrames), e, MaxFrames)
    BY <2>2, NewestRetained, RetentionAssumption
  <2> QED BY <2>1, <2>2, <2>3
<1>5. HistoryRetained'
  BY Zenon, <1>3, <1>4 DEF HistoryRetained, Newest, InputsOf
<1> QED BY <1>2, <1>5 DEF RetainedInv

LEMMA StutterRetains ==
  ASSUME RetainedInv, UNCHANGED <<frames, log, history>>
  PROVE  RetainedInv'
  BY DEF RetainedInv, HistoryTypes, HistoryRetained

\* push_frame and push_log keep the newest frames and log entries, whatever is mixed.
THEOREM RetainedInvariant == Spec => []RetainedInv
<1>1. Init => RetainedInv
  <2> SUFFICES ASSUME Init PROVE RetainedInv
    OBVIOUS
  <2>1. \A limit \in Nat \ {0} : Newest(<<>>, limit) = <<>>
    <3> SUFFICES ASSUME NEW limit \in Nat \ {0} PROVE Newest(<<>>, limit) = <<>>
      OBVIOUS
    <3>1. Max({0, 0 - limit}) = 0
      BY LargerOf
    <3>2. Len(<<>>) = 0 /\ SubSeq(<<>>, 1, 0) = <<>>
      OBVIOUS
    <3> QED BY <3>1, <3>2 DEF Newest
  <2> QED BY <2>1, NoInputs, RetentionAssumption
          DEF Init, RetainedInv, HistoryTypes, HistoryRetained
<1>2. RetainedInv /\ [Next]_vars => RetainedInv'
  <2> SUFFICES ASSUME RetainedInv, [Next]_vars PROVE RetainedInv'
    OBVIOUS
  <2>1. CASE UNCHANGED vars
    BY <2>1, StutterRetains DEF vars
  <2>2. ASSUME NEW e \in CaptureEvents, Apply(e) PROVE RetainedInv'
    BY <2>2, LogRetains, ListFields DEF Apply
  <2>3. ASSUME NEW s \in SourceIds \cup {NoSource}, SelectSource(s) PROVE RetainedInv'
    BY <2>3, StutterRetains DEF SelectSource
  <2>4. ASSUME NEW s \in SourceIds, NEW forced \in BOOLEAN, Preview(s, forced)
        PROVE  RetainedInv'
    <3> DEFINE e == Entry(IF forced THEN "Forced" ELSE "Cleared", s)
    <3>1. e \in Logged /\ e.kind # "Input"
      BY PreviewFields
    <3>2. Log(e) /\ frames' = frames
      BY <2>4 DEF Preview
    <3> HIDE DEF e
    <3> QED BY <3>1, <3>2, LogRetains
  <2>5. ASSUME NEW parses \in BOOLEAN, ApplyHidFixture(parses) PROVE RetainedInv'
    <3> DEFINE e == Entry(IF parses THEN "Fixture" ELSE "FixtureError", NoSource)
    <3>1. e \in Logged /\ e.kind # "Input"
      BY FixtureFields
    <3>2. Log(e) /\ frames' = frames
      BY <2>5 DEF ApplyHidFixture
    <3> HIDE DEF e
    <3> QED BY <3>1, <3>2, LogRetains
  <2> QED BY <2>1, <2>2, <2>3, <2>4, <2>5 DEF Next
<1> QED BY <1>1, <1>2, PTL DEF Spec

\* The frames and the log the window keeps are the newest, in order and with none left
\* out, for any limits.
THEOREM NewestKeptInOrder == Spec => []HistoryRetained
<1>1. RetainedInv => HistoryRetained
  BY DEF RetainedInv
<1> QED BY <1>1, RetainedInvariant, PTL
-----------------------------------------------------------------------------
(* The views.                                                              *)

\* Observing latencies leaves the state alone: the views' steps are the state's.
LEMMA ViewsSteps == ViewsSpec => Spec
<1>1. ViewsInit => Init
  BY DEF ViewsInit
<1>2. [ViewsNext]_<<vars, samples, observed>> => [Next]_vars
  BY DEF ViewsNext, Observe
<1> QED BY <1>1, <1>2, PTL DEF ViewsSpec, Spec

\* A listed source has the controls of its latest description.
LEMMA DescriptionKnown ==
  ASSUME ListTypes, SourcesFromHistory, NEW s \in SourceIds, s \in Listed(sources)
  PROVE  sources[s].device = Announced(s) /\ Announced(s) \in Descriptions
<1> DEFINE life == NewestOf(history, Lives(s))
           forced == NewestOf(history, Previews(s)).kind = "Forced"
<1>1. sources[s] # Absent /\ sources[s] \in Entries
  BY DEF Listed, ListTypes
<1>2. sources[s] = IF life.kind = "none" THEN Absent
                   ELSE [device |-> life.device, access |-> life.access, forced |-> forced]
  BY DEF SourcesFromHistory
<1>3. Announced(s) = life.device
  BY DEF Announced
<1> HIDE DEF life, forced
<1>4. sources[s].device = Announced(s)
  BY <1>1, <1>2, <1>3
<1>5. sources[s].device \in Descriptions
  BY <1>1 DEF Entries
<1> QED BY <1>4, <1>5

\* What the lemmas of a view assume of the source it is of.
Viewed(s) == /\ s \in SourceIds /\ sources[s].device = Announced(s)
             /\ Announced(s) \in Descriptions

\* A control is shown with what is known of it.
LEMMA ShownKnown ==
  ASSUME ValuesFromHistory, NEW s, Viewed(s), NEW type
  PROVE  /\ DOMAIN Shown(s, type) = {c \in DOMAIN Announced(s) : c[1] = type}
         /\ \A c \in DOMAIN Shown(s, type) : Shown(s, type)[c] = Known(s, c)
<1> DEFINE device == Announced(s)
<1>1. DOMAIN Shown(s, type) = {c \in DOMAIN device : c[1] = type}
  BY DEF Shown, Viewed
<1>2. ASSUME NEW c \in DOMAIN device
      PROVE  (IF values[s][c] = Unset THEN Resting(s, c) ELSE Get(values[s][c])) = Known(s, c)
  <2> DEFINE frame == NewestOf(history, Carriers(s, c))
  <2>1. s \in SourceIds /\ c \in Codes /\ Resting(s, c) = device[c]
    <3>1. DOMAIN device \subseteq Codes /\ (c[1] = 3 \/ (c[1] = 1 /\ device[c] = 0))
      BY DescriptionAssumption DEF Viewed
    <3> QED BY <3>1 DEF Resting, Viewed
  <2>2. values[s][c] = IF frame.kind = "none" THEN Unset ELSE {LastValue(frame, c)}
    BY <2>1 DEF ValuesFromHistory
  <2>3. Known(s, c) = IF frame.kind = "none" THEN device[c] ELSE LastValue(frame, c)
    BY DEF Known
  <2> HIDE DEF frame, device
  <2>4. \A v : {v} # Unset /\ Get({v}) = v
    BY DEF Unset, Get
  <2> QED BY <2>1, <2>2, <2>3, <2>4
<1> QED BY <1>1, <1>2 DEF Shown, Viewed

\* The view, if there is one, is of the selected source.
LEMMA ViewOfSelected ==
  ASSUME NEW view \in NativeInputView
  PROVE  /\ selected \in Listed(sources)
         /\ view.source = selected
         /\ view.keys = Shown(selected, 1) /\ view.axes = Shown(selected, 3)
         /\ view.dpad = IF {Axis(16), Axis(17)} \subseteq DOMAIN view.axes
                        THEN Some(<<view.axes[Axis(16)], view.axes[Axis(17)]>>) ELSE None
         /\ view.recent = Len(FramesFrom(frames, selected))
<1> DEFINE axes == Shown(selected, 3)
           keys == Shown(selected, 1)
           recent == Len(FramesFrom(frames, selected))
           dpad == IF {Axis(16), Axis(17)} \subseteq DOMAIN axes
                   THEN Some(<<axes[Axis(16)], axes[Axis(17)]>>) ELSE None
<1>1. NativeInputView =
        IF selected \notin Listed(sources) THEN None
        ELSE Some([source |-> selected, keys |-> keys, axes |-> axes, dpad |-> dpad,
                   recent |-> recent])
  BY Zenon DEF NativeInputView
<1> HIDE DEF axes, keys, recent, dpad
<1>2. selected \in Listed(sources)
  BY <1>1 DEF None
<1>3. view = [source |-> selected, keys |-> keys, axes |-> axes, dpad |-> dpad,
              recent |-> recent]
  BY <1>1, <1>2 DEF Some
<1>4. /\ view.source = selected /\ view.keys = keys /\ view.axes = axes
      /\ view.dpad = dpad /\ view.recent = recent
  BY <1>3
<1> QED BY <1>2, <1>4 DEF axes, keys, recent, dpad

ViewsAre == /\ ListTypes /\ SelectionListed
            /\ SourcesFromHistory /\ ValuesFromHistory /\ HistoryRetained

\* A view shows the selected source, each control with what is known of it.
Faithful(view) ==
  /\ view.source = selected /\ Viewed(view.source)
  /\ DOMAIN view.keys = {c \in DOMAIN Announced(view.source) : c[1] = 1}
  /\ DOMAIN view.axes = {c \in DOMAIN Announced(view.source) : c[1] = 3}
  /\ \A c \in DOMAIN view.keys : view.keys[c] = Known(view.source, c)
  /\ \A c \in DOMAIN view.axes : view.axes[c] = Known(view.source, c)

LEMMA ViewsAreFaithful ==
  ASSUME ViewsAre, NEW view \in NativeInputView
  PROVE  Faithful(view)
<1> USE DEF ViewsAre
<1>1. Listed(sources) \subseteq SourceIds
  BY DEF ListTypes, Listed
<1>2. selected \in Listed(sources) /\ view.source = selected
      /\ view.keys = Shown(selected, 1) /\ view.axes = Shown(selected, 3)
  BY ViewOfSelected
<1>3. Viewed(selected)
  BY <1>1, <1>2, DescriptionKnown DEF Viewed
<1>4. /\ DOMAIN Shown(selected, 1) = {c \in DOMAIN Announced(selected) : c[1] = 1}
      /\ \A c \in DOMAIN Shown(selected, 1) : Shown(selected, 1)[c] = Known(selected, c)
  BY <1>3, ShownKnown
<1>5. /\ DOMAIN Shown(selected, 3) = {c \in DOMAIN Announced(selected) : c[1] = 3}
      /\ \A c \in DOMAIN Shown(selected, 3) : Shown(selected, 3)[c] = Known(selected, c)
  BY <1>3, ShownKnown
<1> QED BY <1>2, <1>3, <1>4, <1>5 DEF Faithful

\* An axis, or a key, is in a view exactly if the description has it.
LEMMA ControlShown ==
  ASSUME NEW view, Faithful(view), NEW code
  PROVE  /\ Axis(code) \in DOMAIN view.axes <=> Axis(code) \in DOMAIN Announced(view.source)
         /\ Key(code) \in DOMAIN view.keys <=> Key(code) \in DOMAIN Announced(view.source)
<1>1. Axis(code)[1] = 3 /\ Key(code)[1] = 1
  BY DEF Axis, Key
<1> QED BY <1>1 DEF Faithful

\* The Xbox view is made of one native view that has all it cannot do without.
XboxOf(xbox, view) ==
  /\ XboxKeys \subseteq DOMAIN view.keys /\ XboxAxes \subseteq DOMAIN view.axes
  /\ xbox.source = view.source
  /\ \A c \in XboxButtons :
       xbox.buttons[c] = IF c \in DOMAIN view.keys THEN view.keys[c] ELSE 0
  /\ xbox.left_stick = <<view.axes[Axis(0)], view.axes[Axis(1)]>>
  /\ xbox.right_stick = <<view.axes[Axis(3)], view.axes[Axis(4)]>>
  /\ xbox.dpad = <<view.axes[Axis(16)], view.axes[Axis(17)]>>
  /\ xbox.triggers = <<IF Axis(2) \in DOMAIN view.axes THEN {view.axes[Axis(2)]} ELSE {},
                       IF Axis(5) \in DOMAIN view.axes THEN {view.axes[Axis(5)]} ELSE {}>>

LEMMA XboxOfNative ==
  ASSUME NEW xbox \in XboxDisplayView
  PROVE  \E view \in NativeInputView : XboxOf(xbox, view)
<1> DEFINE Value(view, c) == IF c \in DOMAIN view.axes THEN view.axes[c] ELSE 0
           Optional(view, c) == IF c \in DOMAIN view.axes THEN Some(view.axes[c]) ELSE None
           buttons(view) == [c \in XboxButtons |->
                               IF c \in DOMAIN view.keys THEN view.keys[c] ELSE 0]
           left(view) == <<Value(view, Axis(0)), Value(view, Axis(1))>>
           right(view) == <<Value(view, Axis(3)), Value(view, Axis(4))>>
           dpad(view) == <<Value(view, Axis(16)), Value(view, Axis(17))>>
           triggers(view) == <<Optional(view, Axis(2)), Optional(view, Axis(5))>>
<1>1. PICK view \in NativeInputView :
        /\ XboxKeys \subseteq DOMAIN view.keys /\ XboxAxes \subseteq DOMAIN view.axes
        /\ xbox = [source |-> view.source, buttons |-> buttons(view),
                   left_stick |-> left(view), right_stick |-> right(view),
                   dpad |-> dpad(view), triggers |-> triggers(view)]
  BY Zenon DEF XboxDisplayView
<1>2. \A code \in {0, 1, 3, 4, 16, 17} : Axis(code) \in DOMAIN view.axes
  BY <1>1 DEF XboxAxes
<1>3. /\ left(view) = <<view.axes[Axis(0)], view.axes[Axis(1)]>>
      /\ right(view) = <<view.axes[Axis(3)], view.axes[Axis(4)]>>
      /\ dpad(view) = <<view.axes[Axis(16)], view.axes[Axis(17)]>>
  BY <1>2
<1>4. triggers(view)
        = <<IF Axis(2) \in DOMAIN view.axes THEN {view.axes[Axis(2)]} ELSE {},
            IF Axis(5) \in DOMAIN view.axes THEN {view.axes[Axis(5)]} ELSE {}>>
  BY DEF Some, None
<1>5. \A c \in XboxButtons :
        buttons(view)[c] = IF c \in DOMAIN view.keys THEN view.keys[c] ELSE 0
  OBVIOUS
<1> HIDE DEF buttons, left, right, dpad, triggers
<1>6. /\ xbox.source = view.source /\ xbox.buttons = buttons(view)
      /\ xbox.left_stick = left(view) /\ xbox.right_stick = right(view)
      /\ xbox.dpad = dpad(view) /\ xbox.triggers = triggers(view)
  BY <1>1
<1>7. XboxOf(xbox, view)
  BY <1>1, <1>3, <1>4, <1>5, <1>6 DEF XboxOf
<1> QED BY <1>7

\* The hat is shown exactly if both its axes are there, with what is known of them.
LEMMA HatShown ==
  ASSUME ViewsAre, NEW view \in NativeInputView
  PROVE  view.dpad = {<<x, y>> : x \in Said(view.source, Axis(16)),
                                 y \in Said(view.source, Axis(17))}
<1> DEFINE s == view.source
           h == Axis(16)
           v == Axis(17)
<1>1. Faithful(view)
  BY ViewsAreFaithful
<1>2. view.dpad = IF {h, v} \subseteq DOMAIN view.axes
                  THEN {<<view.axes[h], view.axes[v]>>} ELSE {}
  BY ViewOfSelected DEF Some, None
<1>3. /\ h \in DOMAIN view.axes <=> h \in DOMAIN Announced(s)
      /\ v \in DOMAIN view.axes <=> v \in DOMAIN Announced(s)
  BY <1>1, ControlShown
<1>4. /\ Said(s, h) = IF h \in DOMAIN Announced(s) THEN {Known(s, h)} ELSE {}
      /\ Said(s, v) = IF v \in DOMAIN Announced(s) THEN {Known(s, v)} ELSE {}
  BY DEF Said, Some, None
<1>5. \A c \in DOMAIN view.axes : view.axes[c] = Known(s, c)
  BY <1>1 DEF Faithful
<1> HIDE DEF s, h, v
<1>6. CASE h \in DOMAIN view.axes /\ v \in DOMAIN view.axes
  <2>1. view.dpad = {<<Known(s, h), Known(s, v)>>}
    BY <1>2, <1>5, <1>6
  <2>2. Said(s, h) = {Known(s, h)} /\ Said(s, v) = {Known(s, v)}
    BY <1>3, <1>4, <1>6
  <2> QED BY <2>1, <2>2 DEF s, h, v
<1>7. CASE ~(h \in DOMAIN view.axes /\ v \in DOMAIN view.axes)
  <2>1. view.dpad = {}
    BY <1>2, <1>7
  <2>2. Said(s, h) = {} \/ Said(s, v) = {}
    BY <1>3, <1>4, <1>7
  <2> QED BY <2>1, <2>2 DEF s, h, v
<1> QED BY <1>6, <1>7

\* The Xbox shape is drawn exactly for a description that has all it cannot do without.
LEMMA XboxDrawn ==
  ASSUME ViewsAre, NEW view \in NativeInputView
  PROVE  XboxDisplayView # None
           <=> XboxKeys \cup XboxAxes \subseteq DOMAIN Announced(view.source)
<1> DEFINE Complete(w) == XboxKeys \subseteq DOMAIN w.keys /\ XboxAxes \subseteq DOMAIN w.axes
<1>1. XboxDisplayView # None <=> \E w \in NativeInputView : Complete(w)
  <2> DEFINE Value(u, c) == IF c \in DOMAIN u.axes THEN u.axes[c] ELSE 0
             Optional(u, c) == IF c \in DOMAIN u.axes THEN Some(u.axes[c]) ELSE None
             Shape(u) ==
               [source |-> u.source,
                buttons |-> [c \in XboxButtons |->
                               IF c \in DOMAIN u.keys THEN u.keys[c] ELSE 0],
                left_stick |-> <<Value(u, Axis(0)), Value(u, Axis(1))>>,
                right_stick |-> <<Value(u, Axis(3)), Value(u, Axis(4))>>,
                dpad |-> <<Value(u, Axis(16)), Value(u, Axis(17))>>,
                triggers |-> <<Optional(u, Axis(2)), Optional(u, Axis(5))>>]
  <2>1. XboxDisplayView = {Shape(w) : w \in {v \in NativeInputView : Complete(v)}}
    BY Zenon DEF XboxDisplayView
  <2> HIDE DEF Shape, Complete
  <2> QED BY <2>1 DEF None
<1>2. ASSUME NEW w \in NativeInputView
      PROVE  Complete(w) <=> XboxKeys \cup XboxAxes \subseteq DOMAIN Announced(view.source)
  <2>1. Faithful(w) /\ w.source = view.source
    BY ViewsAreFaithful DEF Faithful
  <2>2. \A c \in XboxKeys : c[1] = 1
    BY DEF XboxKeys, Key
  <2>3. \A c \in XboxAxes : c[1] = 3
    BY DEF XboxAxes, Axis
  <2> QED BY <2>1, <2>2, <2>3 DEF Faithful
<1> HIDE DEF Complete
<1> QED BY <1>1, <1>2

\* Each figure of the Xbox shape is what is known of the control it stands for.
LEMMA XboxShowsKnown ==
  ASSUME ViewsAre, NEW xbox \in XboxDisplayView
  PROVE  XboxKnown(xbox)
<1>1. PICK view \in NativeInputView : XboxOf(xbox, view)
  BY XboxOfNative
<1> DEFINE s == view.source
<1>2. Faithful(view)
  BY ViewsAreFaithful
<1>3. s = selected /\ xbox.source = s
  BY <1>1, <1>2 DEF Faithful, XboxOf
<1>4. \A code \in {0, 1, 3, 4, 16, 17} : view.axes[Axis(code)] = Known(s, Axis(code))
  BY <1>1, <1>2 DEF XboxOf, XboxAxes, Faithful
<1>5. /\ xbox.left_stick = <<Known(s, Axis(0)), Known(s, Axis(1))>>
      /\ xbox.right_stick = <<Known(s, Axis(3)), Known(s, Axis(4))>>
      /\ xbox.dpad = <<Known(s, Axis(16)), Known(s, Axis(17))>>
  BY <1>1, <1>4 DEF XboxOf
<1>6. \A code : (IF Axis(code) \in DOMAIN view.axes THEN {view.axes[Axis(code)]} ELSE {})
                  = Said(s, Axis(code))
  <2> SUFFICES ASSUME NEW code
               PROVE  (IF Axis(code) \in DOMAIN view.axes THEN {view.axes[Axis(code)]} ELSE {})
                        = Said(s, Axis(code))
    OBVIOUS
  <2>1. Axis(code) \in DOMAIN view.axes <=> Axis(code) \in DOMAIN Announced(s)
    BY <1>2, ControlShown
  <2>2. Axis(code) \in DOMAIN view.axes => view.axes[Axis(code)] = Known(s, Axis(code))
    BY <1>2 DEF Faithful
  <2> QED BY <2>1, <2>2 DEF Said, Some, None
<1>7. xbox.triggers = <<Said(s, Axis(2)), Said(s, Axis(5))>>
  BY <1>1, <1>6 DEF XboxOf
<1>8. ASSUME NEW c \in XboxButtons
      PROVE  xbox.buttons[c] = IF Said(s, c) = None THEN 0 ELSE Known(s, c)
  <2>1. c[1] = 1
    BY DEF XboxButtons, Key
  <2>2. c \in DOMAIN view.keys <=> c \in DOMAIN Announced(s)
    BY <1>2, <2>1 DEF Faithful
  <2>3. c \in DOMAIN view.keys => view.keys[c] = Known(s, c)
    BY <1>2 DEF Faithful
  <2>4. Said(s, c) = None <=> c \notin DOMAIN Announced(s)
    BY DEF Said, Some, None
  <2>5. xbox.buttons[c] = IF c \in DOMAIN view.keys THEN view.keys[c] ELSE 0
    BY <1>1 DEF XboxOf
  <2> QED BY <2>2, <2>3, <2>4, <2>5
<1> QED BY <1>3, <1>5, <1>7, <1>8 DEF XboxKnown

LEMMA ViewsShow ==
  ASSUME ViewsAre
  PROVE  ViewsShowEvidence
<1>1. NativeInputView = None <=> selected = NoSource
  <2>1. Listed(sources) \subseteq SourceIds /\ NoSource \notin SourceIds
    BY SourceAssumption DEF ViewsAre, ListTypes, Listed
  <2>2. selected \in Listed(sources) <=> selected # NoSource
    BY <2>1 DEF ViewsAre, SelectionListed
  <2> QED BY <2>2 DEF NativeInputView, None, Some
<1>2. ASSUME NEW view \in NativeInputView
      PROVE  NativeKnown(view)
  <2>1. Faithful(view)
    BY ViewsAreFaithful
  <2>2. DOMAIN view.keys \cup DOMAIN view.axes = DOMAIN Announced(view.source)
    BY <2>1, DescriptionAssumption DEF Faithful, Viewed
  <2>3. view.recent = Len(FramesFrom(Newest(InputsOf(history), MaxFrames), view.source))
    BY ViewOfSelected DEF ViewsAre, HistoryRetained
  <2> QED BY <2>1, <2>2, <2>3, HatShown, XboxDrawn DEF Faithful, NativeKnown
<1>3. \A xbox \in XboxDisplayView : XboxKnown(xbox)
  BY XboxShowsKnown
<1> QED BY <1>1, <1>2, <1>3 DEF ViewsShowEvidence

\* A source is shown exactly while one is selected, with the controls of its latest
\* description; and every control in its views, the native one and the Xbox shape's, is
\* as the last frame of that connection carried it, or as the description said.
THEOREM ViewsAreEvidence == ViewsSpec => []ViewsShowEvidence
<1>1. SelectionInv /\ SourcesFromHistory /\ ValuesInv /\ RetainedInv => ViewsAre
  BY ValueOfMeans DEF ViewsAre, SelectionInv, ValuesInv, ValuesAgree, RetainedInv
<1>2. ViewsAre => ViewsShowEvidence
  BY ViewsShow
<1> QED
  BY <1>1, <1>2, ViewsSteps, SelectionInvariant, ListFromHistory, ValuesInvariant,
     RetainedInvariant, PTL
-----------------------------------------------------------------------------
(* The timing summaries.                                                   *)

\* The k-th of the sorted numbers: at most k - 1 are smaller and n - k larger.
Ranks(q, v, k) ==
  /\ Cardinality({i \in DOMAIN q : q[i] < v}) \in 0..(k - 1)
  /\ Cardinality({i \in DOMAIN q : q[i] > v}) \in 0..(Len(q) - k)

LEMMA SortedRanks ==
  ASSUME NEW q \in Seq(Nat), NEW k \in 1..Len(q)
  PROVE  Ranks(q, Sorted(q)[k], k)
<1> DEFINE n == Len(q)
           r == Sorted(q)
<1>1. n \in Nat /\ DOMAIN q = 1..n /\ q \in [1..n -> Nat]
  OBVIOUS
<1> DEFINE Orders(o) == \A i, j \in 1..n : i < j => q[o[i]] <= q[o[j]]
           p == CHOOSE o \in Bijection(1..n, 1..n) : Orders(o)
<1>2. r = [i \in 1..n |-> q[p[i]]]
  BY <1>1 DEF Sorted
<1>3. p \in Bijection(1..n, 1..n) /\ Orders(p)
  <2>1. PICK o : Sorts(o, q, n)
    BY <1>1, SortingExists
  <2>2. o \in Bijection(1..n, 1..n) /\ Orders(o)
    BY <2>1 DEF Sorts
  <2> HIDE DEF Orders
  <2> QED BY <2>2
<1> HIDE DEF p, r
<1>4. p \in [1..n -> 1..n] /\ \A t \in 1..n : \E s \in 1..n : p[s] = t
  BY <1>3 DEF Bijection, Surjection
<1>5. k \in 1..n /\ \A i \in 1..n : r[i] = q[p[i]]
  BY <1>1, <1>2
<1>6. /\ \A i \in 1..n : r[i] \in Nat
      /\ \A i, j \in 1..n : i < j => r[i] <= r[j]
  BY <1>1, <1>3, <1>4, <1>5
<1> DEFINE Within(T, a, b) == /\ T \in SUBSET (1..n) /\ a \in Int /\ b \in Int
                              /\ a <= b + 1 /\ a..b \subseteq 1..n
                              /\ \A j \in 1..n : p[j] \in T => j \in a..b
<1>7. ASSUME NEW T, NEW a, NEW b, Within(T, a, b)
      PROVE  Cardinality(T) \in 0..(b - a + 1)
  <2> DEFINE places == {j \in a..b : p[j] \in T}
             f == [j \in places |-> p[j]]
  <2>1. f \in [places -> T]
    OBVIOUS
  <2>2. \A t \in T : \E j \in places : f[j] = t
    BY <1>4, <1>7
  <2>3. f \in Surjection(places, T)
    BY <2>1, <2>2, Fun_IsSurj
  <2>4. IsFiniteSet(a..b) /\ Cardinality(a..b) = b - a + 1
    <3>1. /\ IsFiniteSet(a..b)
          /\ Cardinality(a..b) = IF a > b THEN 0 ELSE b - a + 1
      BY <1>7, FS_Interval
    <3> QED BY <1>7, <3>1
  <2>5. IsFiniteSet(places) /\ Cardinality(places) <= b - a + 1
    <3>1. places \in SUBSET (a..b)
      OBVIOUS
    <3> HIDE DEF places
    <3>2. IsFiniteSet(places) /\ Cardinality(places) <= Cardinality(a..b)
      BY <2>4, <3>1, FS_Subset
    <3> QED BY <2>4, <3>2
  <2>6. IsFiniteSet(T) /\ Cardinality(T) <= Cardinality(places)
    BY <2>3, <2>5, FS_Surjection
  <2>7. Cardinality(T) \in Nat /\ Cardinality(places) \in Nat
    BY <2>5, <2>6, FS_CardinalityType
  <2> HIDE DEF places
  <2> QED BY <1>7, <2>5, <2>6, <2>7
<1>8. Cardinality({i \in 1..n : q[i] < r[k]}) \in 0..(k - 1)
  <2> DEFINE T == {i \in 1..n : q[i] < r[k]}
  <2>1. \A j \in 1..n : p[j] \in T => j \in 1..(k - 1)
    <3> SUFFICES ASSUME NEW j \in 1..n, r[j] < r[k], ~(j < k) PROVE FALSE
      BY <1>1, <1>5
    <3>1. j = k \/ k < j
      BY <1>5
    <3> QED BY <1>5, <1>6, <3>1
  <2>2. 1..(k - 1) \subseteq 1..n /\ k - 1 \in Int /\ 1 <= (k - 1) + 1
        /\ (k - 1) - 1 + 1 = k - 1
    BY <1>1, <1>5
  <2>3. T \in SUBSET (1..n)
    OBVIOUS
  <2>4. Within(T, 1, k - 1)
    BY <2>1, <2>2, <2>3
  <2> HIDE DEF T, Within
  <2>5. Cardinality(T) \in 0..((k - 1) - 1 + 1)
    BY <1>7, <2>4
  <2> QED BY <2>2, <2>5 DEF T
<1>9. Cardinality({i \in 1..n : q[i] > r[k]}) \in 0..(n - k)
  <2> DEFINE T == {i \in 1..n : q[i] > r[k]}
  <2>1. \A j \in 1..n : p[j] \in T => j \in (k + 1)..n
    <3> SUFFICES ASSUME NEW j \in 1..n, r[j] > r[k], ~(k < j) PROVE FALSE
      BY <1>1, <1>5
    <3>1. j = k \/ j < k
      BY <1>5
    <3> QED BY <1>5, <1>6, <3>1
  <2>2. (k + 1)..n \subseteq 1..n /\ k + 1 \in Int /\ n \in Int /\ k + 1 <= n + 1
        /\ n - (k + 1) + 1 = n - k
    BY <1>1, <1>5
  <2>3. T \in SUBSET (1..n)
    OBVIOUS
  <2>4. Within(T, k + 1, n)
    BY <2>1, <2>2, <2>3
  <2> HIDE DEF T, Within
  <2>5. Cardinality(T) \in 0..(n - (k + 1) + 1)
    BY <1>7, <2>4
  <2> QED BY <2>2, <2>5 DEF T
<1> QED BY <1>1, <1>8, <1>9 DEF Ranks, r

\* How many of the other numbers a percentile leaves below it.
Share(n, percent) == ((n - 1) * percent) \div 100

\* The place of a percentile is one of the n places, with its share before it; that of
\* the last percentile is the last.
Placed(n, percent) == /\ Place(n, percent) \in 1..n /\ Share(n, percent) \in Nat
                      /\ Place(n, percent) - 1 = Share(n, percent)
                      /\ Place(n, 100) = n

LEMMA PlaceOfShare ==
  ASSUME NEW n \in Nat \ {0}, NEW percent \in {50, 95, 100}
  PROVE  Placed(n, percent)
<1>1. n - 1 \in Nat
  OBVIOUS
<1>2. CASE percent = 50
  BY <1>1, <1>2 DEF Placed, Place, Share
<1>3. CASE percent = 95
  BY <1>1, <1>3 DEF Placed, Place, Share
<1>4. CASE percent = 100
  BY <1>1, <1>4 DEF Placed, Place, Share
<1> QED BY <1>2, <1>3, <1>4

\* The share of the other numbers lies below a figure at most, and the rest above it.
Divides(q, v, percent) ==
  /\ Cardinality({i \in DOMAIN q : q[i] < v}) <= Share(Len(q), percent)
  /\ Cardinality({i \in DOMAIN q : q[i] > v}) <= Len(q) - 1 - Share(Len(q), percent)

LEMMA SortedDivides ==
  ASSUME NEW q \in Seq(Nat), q # <<>>, NEW percent \in {50, 95, 100}
  PROVE  Divides(q, Sorted(q)[Place(Len(q), percent)], percent)
<1> DEFINE n == Len(q)
           k == Place(n, percent)
           v == Sorted(q)[k]
           share == Share(n, percent)
           below == Cardinality({i \in DOMAIN q : q[i] < v})
           above == Cardinality({i \in DOMAIN q : q[i] > v})
<1>1. n \in Nat \ {0}
  OBVIOUS
<1> HIDE DEF n
<1>2. Placed(n, percent)
  BY <1>1, PlaceOfShare
<1>3. k \in 1..n /\ share \in Nat /\ k - 1 = share
  BY <1>2 DEF Placed
<1>4. Ranks(q, v, k)
  BY <1>3, SortedRanks DEF n
<1>5. below \in 0..(k - 1) /\ above \in 0..(n - k)
  BY <1>4 DEF Ranks, n
<1> HIDE DEF k, v, share, below, above
<1>6. below <= share /\ above <= n - 1 - share
  BY <1>1, <1>3, <1>5
<1> QED BY <1>6 DEF Divides, n, k, v, share, below, above

SamplesInv == /\ observed \in Seq(Nat)
              /\ samples = Newest(observed, MaxSamples)

LEMMA NewestTyped ==
  ASSUME NEW T, NEW q \in Seq(T), NEW limit \in Nat \ {0}
  PROVE  Newest(q, limit) \in Seq(T)
<1> DEFINE from == Max({0, Len(q) - limit})
<1>1. Len(q) \in Nat /\ from \in Nat
  BY LargerOf
<1> HIDE DEF from
<1>2. SubSeq(q, from + 1, Len(q)) \in Seq(T)
  BY <1>1
<1> QED BY <1>2 DEF Newest, from

\* RecentLatencies keeps the newest durations, whatever the state does in between.
THEOREM SamplesInvariant == ViewsSpec => []SamplesInv
<1>1. ViewsInit => SamplesInv
  <2> SUFFICES ASSUME ViewsInit PROVE SamplesInv
    OBVIOUS
  <2>1. Max({0, 0 - MaxSamples}) = 0
    BY LargerOf, TimingAssumption
  <2>2. <<>> \in Seq(Nat) /\ Len(<<>>) = 0 /\ SubSeq(<<>>, 1, 0) = <<>>
    OBVIOUS
  <2>3. Newest(<<>>, MaxSamples) = SubSeq(<<>>, 0 + 1, 0)
    BY <2>1, <2>2 DEF Newest
  <2>4. 0 + 1 = 1
    OBVIOUS
  <2> QED BY <2>2, <2>3, <2>4 DEF ViewsInit, SamplesInv
<1>2. SamplesInv /\ [ViewsNext]_<<vars, samples, observed>> => SamplesInv'
  <2> SUFFICES ASSUME SamplesInv, [ViewsNext]_<<vars, samples, observed>> PROVE SamplesInv'
    OBVIOUS
  <2>1. CASE UNCHANGED <<samples, observed>>
    BY <2>1 DEF SamplesInv
  <2>2. ASSUME NEW duration \in Durations, Observe(duration) PROVE SamplesInv'
    <3>1. duration \in Nat /\ MaxSamples \in Nat \ {0}
      BY TimingAssumption
    <3>2. /\ Append(observed, duration) \in Seq(Nat)
          /\ Newest(Append(observed, duration), MaxSamples)
               = Retain(Newest(observed, MaxSamples), duration, MaxSamples)
      BY <3>1, NewestRetained, AppendPlaces DEF SamplesInv
    <3> QED BY <2>2, <3>2 DEF Observe, SamplesInv
  <2> QED BY <2>1, <2>2 DEF ViewsNext
<1> QED BY <1>1, <1>2, PTL DEF ViewsSpec

\* The figures of a timing summary are order statistics of the newest durations, for
\* any durations and any number of samples kept.
THEOREM SummariesAreOfNewest == ViewsSpec => []SummaryOfNewest
<1>1. SamplesInv => SummaryOfNewest
  <2> SUFFICES ASSUME SamplesInv PROVE SummaryOfNewest
    OBVIOUS
  <2> DEFINE q == Newest(observed, MaxSamples)
             n == Len(q)
             sorted == Sorted(q)
  <2>1. samples = q /\ q \in Seq(Nat)
    BY NewestTyped, TimingAssumption DEF SamplesInv
  <2>2. CASE q = <<>>
    BY <2>1, <2>2 DEF SummaryOfNewest, Summary, None
  <2>3. CASE q # <<>>
    <3>1. n \in Nat \ {0}
      BY <2>1, <2>3
    <3>2. Summary = {[samples |-> n, p50 |-> sorted[Place(n, 50)],
                      p95 |-> sorted[Place(n, 95)], max |-> sorted[n]]}
      BY <2>1, <2>3 DEF Summary, Some
    <3>3. \A percent \in {50, 95, 100} : Divides(q, sorted[Place(n, percent)], percent)
      BY <2>1, <2>3, SortedDivides
    <3>4. Place(n, 100) = n
      BY <3>1, PlaceOfShare DEF Placed
    <3> HIDE DEF q, sorted, n
    <3>5. \A summary \in Summary :
            /\ summary.samples = n
            /\ Divides(q, summary.p50, 50) /\ Divides(q, summary.p95, 95)
            /\ Divides(q, summary.max, 100)
      BY <3>2, <3>3, <3>4
    <3> QED BY <3>5 DEF SummaryOfNewest, Divides, Share, q, n
  <2> QED BY <2>2, <2>3
<1> QED BY <1>1, SamplesInvariant, PTL
=============================================================================
