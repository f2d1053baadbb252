--------------------------- MODULE TesterReducer ---------------------------
(***************************************************************************)
(* The parts of TesterState::apply (src/tester.rs:221-269) as operators:   *)
(* what one event makes of the list of sources, of the selection, of the   *)
(* newest values and of a bounded history.                                 *)
(*                                                                         *)
(* Sources are positive numbers, in the order of the BTreeMap's keys.      *)
(***************************************************************************)
EXTENDS Integers, Sequences, FiniteSetsExt

NoSource == 0

\* The newest value of a code, as a set of at most one number.
Unset == {}

\* An entry of `sources`: the description of the device, the access, and whether a
\* profile is being previewed.
Absent == [device |-> <<>>, access |-> "Absent", forced |-> FALSE]
Listed(list) == {s \in DOMAIN list : list[s] # Absent}

KeepsPreview(list, e) ==
  [s \in DOMAIN list |->
     IF s # e.source THEN list[s]
     ELSE IF e.kind = "Connected"
     THEN [list[s] EXCEPT !.device = e.device, !.access = e.access]
     ELSE IF e.kind = "Disconnected" THEN Absent
     ELSE list[s]]

KeepsDevice(list, e) ==
  [s \in DOMAIN list |->
     IF s # e.source THEN list[s]
     ELSE IF e.kind = "Connected" /\ list[s] = Absent
     THEN [device |-> e.device, access |-> e.access, forced |-> FALSE]
     ELSE IF e.kind = "Connected"
     THEN [list[s] EXCEPT !.access = e.access, !.forced = FALSE]
     ELSE IF e.kind = "Disconnected" THEN Absent
     ELSE list[s]]

\* Connected replaces a whole entry, whose preview is lost; Disconnected removes it.
SourcesAfter(list, e) ==
  [s \in DOMAIN list |->
     IF s # e.source THEN list[s]
     ELSE IF e.kind = "Connected"
     THEN [device |-> e.device, access |-> e.access, forced |-> FALSE]
     ELSE IF e.kind = "Disconnected" THEN Absent
     ELSE list[s]]

KeepsSelection(selected, list, e) ==
  IF e.kind = "Connected" /\ selected = NoSource THEN e.source ELSE selected

\* `list` is the list after the event.
SelectedAfter(selected, list, e) ==
  IF e.kind = "Connected" /\ selected = NoSource THEN e.source
  ELSE IF e.kind = "Disconnected" /\ selected = e.source
  THEN IF Listed(list) = {} THEN NoSource ELSE Min(Listed(list))
  ELSE selected

\* The value a frame leaves for a code: that of its last event for the code.
Latest(changes, c, old) ==
  LET hits == {i \in DOMAIN changes : changes[i].code = c}
  IN IF hits = {} THEN old ELSE {changes[Max(hits)].value}

KeepsValues(values, e) ==
  [s \in DOMAIN values |->
     IF s = e.source /\ e.kind = "Input"
     THEN [c \in DOMAIN values[s] |-> Latest(e.changes, c, values[s][c])]
     ELSE values[s]]

ValuesAfter(values, e) ==
  [s \in DOMAIN values |->
     IF s # e.source THEN values[s]
     ELSE IF e.kind = "Input"
     THEN [c \in DOMAIN values[s] |-> Latest(e.changes, c, values[s][c])]
     ELSE IF e.kind = "Disconnected" THEN [c \in DOMAIN values[s] |-> Unset]
     ELSE values[s]]

RetainsOldest(q, item, limit) == IF Len(q) = limit THEN q ELSE Append(q, item)

\* push_frame and push_log: the oldest entry makes room.
Retain(q, item, limit) == Append(IF Len(q) = limit THEN Tail(q) ELSE q, item)
=============================================================================
