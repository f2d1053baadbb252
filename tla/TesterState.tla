---------------------------- MODULE TesterState ----------------------------
(***************************************************************************)
(* The state behind the tester's window (src/tester.rs:206-269, 299-317,   *)
(* 432-484): a public type that takes any events in any order, those of a  *)
(* session as well as synthetic ones, and the user's choices.              *)
(***************************************************************************)
EXTENDS TesterReducer, SequencesExt

CONSTANTS
  SourceIds,    \* the sources events may name
  Codes,        \* the native codes of a controller
  Descriptions, \* what a device may say of its controls when it is connected
  ChangeLists,  \* the frames a source may send: sequences of [code, value]
  MaxFrames,    \* MAX_RETAINED_FRAMES
  MaxLog,       \* MAX_RETAINED_LOG_ENTRIES
  MaxHistory    \* bound: logged operations

ASSUME SourceAssumption == SourceIds \subseteq Nat \ {NoSource}
ASSUME RetentionAssumption == /\ MaxFrames \in Nat \ {0}
                              /\ MaxLog \in Nat \ {0}
                              /\ MaxHistory \in Nat

VARIABLES
  sources, values, frames, log, selected, hid,
  history  \* every logged operation, which the properties are stated over

vars == <<sources, values, frames, log, selected, hid, history>>

Accesses == {"Shared", "Exclusive"}
Entry(kind, s) == [kind |-> kind, source |-> s]

\* The events of CaptureEvent.  A DiscoveryError names no source.
CaptureEvents ==
  {[kind |-> "Connected", source |-> s, device |-> d, access |-> a] :
     s \in SourceIds, d \in Descriptions, a \in Accesses}
  \cup {[kind |-> "Input", source |-> s, changes |-> c] : s \in SourceIds, c \in ChangeLists}
  \cup {Entry("Disconnected", s) : s \in SourceIds}
  \cup {Entry("SourceError", s) : s \in SourceIds}
  \cup {Entry("DiscoveryError", NoSource)}

-----------------------------------------------------------------------------
Init ==
  /\ sources = [s \in SourceIds |-> Absent]
  /\ values = [s \in SourceIds |-> [c \in Codes |-> Unset]]
  /\ frames = <<>>
  /\ log = <<>>
  /\ selected = NoSource
  /\ hid = "none"
  /\ history = <<>>

\* push_log; the history grows with the log, which is how it is bounded.
Log(entry) ==
  /\ Len(history) < MaxHistory
  /\ log' = Retain(log, entry, MaxLog)
  /\ history' = Append(history, entry)

Apply(e) ==
  /\ sources' = SourcesAfter(sources, e)
  /\ values' = ValuesAfter(values, e)
  /\ selected' = SelectedAfter(selected, sources', e)
  /\ frames' = IF e.kind = "Input" THEN Retain(frames, e, MaxFrames) ELSE frames
  /\ Log(e)
  /\ UNCHANGED hid

SelectSource(s) ==
  /\ selected' = IF s \in Listed(sources) THEN s ELSE NoSource
  /\ UNCHANGED <<sources, values, frames, log, hid, history>>

\* force_profile and clear_forced_profile do nothing for an unknown source.
Preview(s, forced) ==
  /\ s \in Listed(sources)
  /\ sources' = [sources EXCEPT ![s].forced = forced]
  /\ Log(Entry(IF forced THEN "Forced" ELSE "Cleared", s))
  /\ UNCHANGED <<values, frames, selected, hid>>

\* A fixture whose descriptor does not parse leaves the evidence as it is.
ApplyHidFixture(parses) ==
  /\ hid' = IF parses THEN "fixture" ELSE hid
  /\ Log(Entry(IF parses THEN "Fixture" ELSE "FixtureError", NoSource))
  /\ UNCHANGED <<sources, values, frames, selected>>

Next ==
  \/ \E e \in CaptureEvents : Apply(e)
  \/ \E s \in SourceIds \cup {NoSource} : SelectSource(s)
  \/ \E s \in SourceIds, forced \in BOOLEAN : Preview(s, forced)
  \/ \E parses \in BOOLEAN : ApplyHidFixture(parses)

Spec == Init /\ [][Next]_vars

-----------------------------------------------------------------------------
(* Properties: the incremental state against what the history says.        *)

\* The events of s since its latest Disconnected, by their places in the history.
Gone(e, s) == e.kind = "Disconnected" /\ e.source = s
SinceGone(s) ==
  {i \in DOMAIN history : /\ history[i].source = s
                          /\ \A j \in i..Len(history) : ~Gone(history[j], s)}

\* The newest of the events at these places.
NewestOf(q, hits) == IF hits = {} THEN Entry("none", NoSource) ELSE q[Max(hits)]

Newest(q, limit) == SubSeq(q, Max({0, Len(q) - limit}) + 1, Len(q))

\* The frames among the events.
InputsOf(q) ==
  LET kept[i \in 0..Len(q)] ==
        IF i = 0 THEN <<>>
        ELSE IF q[i].kind = "Input" THEN Append(kept[i - 1], q[i]) ELSE kept[i - 1]
  IN kept[Len(q)]

Lives(s) == {i \in SinceGone(s) : history[i].kind = "Connected"}
Previews(s) == {i \in SinceGone(s) : history[i].kind \in {"Connected", "Forced", "Cleared"}}

\* The list and the previews agree with the history, in types and in content: a
\* source is listed with the device and the access of its latest Connected, unless it
\* is gone, and a preview does not survive a reconnection.
SourcesFromHistory ==
  \A s \in SourceIds :
    LET life == NewestOf(history, Lives(s))
        user == NewestOf(history, Previews(s))
    IN sources[s] = IF life.kind = "none" THEN Absent
                    ELSE [device |-> life.device, access |-> life.access,
                          forced |-> user.kind = "Forced"]

Carries(e, c) == e.kind = "Input" /\ \E i \in DOMAIN e.changes : e.changes[i].code = c
LastValue(e, c) == e.changes[Max({i \in DOMAIN e.changes : e.changes[i].code = c})].value
Carriers(s, c) == {i \in SinceGone(s) : Carries(history[i], c)}

\* "State keeps raw values and clears them on disconnect" (the test of that name,
\* tester.rs): a value is the last one a frame of the source carried for the
\* code since the source was last disconnected.
ValuesFromHistory ==
  \A s \in SourceIds, c \in Codes :
    LET frame == NewestOf(history, Carriers(s, c))
    IN values[s][c] = IF frame.kind = "none" THEN Unset ELSE {LastValue(frame, c)}

\* Retention is bounded and evicts the oldest: the frames and the log are the
\* newest ones, in order, whatever was mixed between them.
HistoryRetained ==
  /\ frames = Newest(InputsOf(history), MaxFrames)
  /\ log = Newest(history, MaxLog)

\* The selection never dangles, so the views find the source they show: whatever
\* disconnects, reconnects and is selected, it is listed or there is none.
SelectionListed == selected # NoSource => selected \in Listed(sources)
=============================================================================
