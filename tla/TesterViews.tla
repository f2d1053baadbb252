---------------------------- MODULE TesterViews ----------------------------
(***************************************************************************)
(* What the tester's window derives from its state: the native and the     *)
(* Xbox-shaped view of the selected source (src/tester.rs:150-204 and      *)
(* 324-430), and the summary of recent latencies (src/tester.rs:18-130).   *)
(*                                                                         *)
(* A code of TesterState is here a pair of event type and native code, and *)
(* a description a function from a device's keys and axes to the value     *)
(* each had when it was described (0 of a key).                            *)
(***************************************************************************)
EXTENDS TesterState

CONSTANTS
  MaxSamples,  \* MAX_TIMING_SAMPLES
  Durations,   \* the latencies observed
  MaxObserved  \* bound: observations

ASSUME TimingAssumption == /\ MaxSamples \in Nat \ {0}
                           /\ Durations \subseteq Nat
ASSUME DescriptionAssumption ==
  \A d \in Descriptions :
    /\ DOMAIN d \subseteq Codes
    /\ \A c \in DOMAIN d : c[1] = 3 \/ (c[1] = 1 /\ d[c] = 0)

VARIABLES
  samples,     \* one of the five RecentLatencies; they do not share anything
  observed     \* every duration observed, which the properties are stated over

None == {}
Some(v) == {v}
Get(option) == CHOOSE v \in option : TRUE

Key(code) == <<1, code>>
Axis(code) == <<3, code>>

-----------------------------------------------------------------------------
\* The fallback of a control no frame has carried yet.
Resting(s, c) == IF c[1] = 1 THEN 0 ELSE sources[s].device[c]

\* VisualKey and VisualAxis: the value shown for each control.
Shown(s, type) ==
  [c \in {c \in DOMAIN sources[s].device : c[1] = type} |->
     IF values[s][c] = Unset THEN Resting(s, c) ELSE Get(values[s][c])]

FramesFrom(q, s) == SelectSeq(q, LAMBDA f : f.source = s)

NativeInputView ==
  IF selected \notin Listed(sources) THEN None
  ELSE LET axes == Shown(selected, 3)
           hat == {Axis(16), Axis(17)}
       IN Some([source |-> selected, keys |-> Shown(selected, 1), axes |-> axes,
                dpad |-> IF hat \subseteq DOMAIN axes
                         THEN Some(<<axes[Axis(16)], axes[Axis(17)]>>) ELSE None,
                recent |-> Len(FramesFrom(frames, selected))])

XboxKeys == {Key(c) : c \in {304, 305, 307, 308}}
XboxAxes == {Axis(c) : c \in {0, 1, 3, 4, 16, 17}}
XboxButtons == {Key(c) : c \in {304, 305, 307, 308, 310, 311, 314, 315, 316, 317, 318}}

XboxDisplayView ==
  {LET Value(c) == IF c \in DOMAIN view.axes THEN view.axes[c] ELSE 0
       Optional(c) == IF c \in DOMAIN view.axes THEN Some(view.axes[c]) ELSE None
   IN [source |-> view.source,
       buttons |-> [c \in XboxButtons |-> IF c \in DOMAIN view.keys THEN view.keys[c] ELSE 0],
       left_stick |-> <<Value(Axis(0)), Value(Axis(1))>>,
       right_stick |-> <<Value(Axis(3)), Value(Axis(4))>>,
       dpad |-> <<Value(Axis(16)), Value(Axis(17))>>,
       triggers |-> <<Optional(Axis(2)), Optional(Axis(5))>>] :
     view \in {v \in NativeInputView :
                 XboxKeys \subseteq DOMAIN v.keys /\ XboxAxes \subseteq DOMAIN v.axes}}

-----------------------------------------------------------------------------
\* The samples in ascending order.
Sorted(q) ==
  LET order == CHOOSE p \in Bijection(DOMAIN q, DOMAIN q) :
                 \A i, j \in DOMAIN q : i < j => q[p[i]] <= q[p[j]]
  IN [i \in DOMAIN q |-> q[order[i]]]

Ceiled(n, percent) == (n * percent) \div 100 + 1
\* The place of a percentile among n sorted samples.
Place(n, percent) == ((n - 1) * percent) \div 100 + 1

Summary ==
  IF samples = <<>> THEN None
  ELSE LET micros == Sorted(samples)
           n == Len(samples)
       IN Some([samples |-> n, p50 |-> micros[Place(n, 50)],
                p95 |-> micros[Place(n, 95)], max |-> micros[n]])

\* TesterTiming::record_*.  Bound: timing and state do not depend on each other, so
\* latencies are observed, or operations logged, but not both.
Observe(duration) ==
  /\ history = <<>> /\ Len(observed) < MaxObserved
  /\ samples' = Retain(samples, duration, MaxSamples)
  /\ observed' = Append(observed, duration)
  /\ UNCHANGED vars

ViewsInit == Init /\ samples = <<>> /\ observed = <<>>
ViewsNext == \/ /\ Next
                /\ observed # <<>> => UNCHANGED history
                /\ UNCHANGED <<samples, observed>>
             \/ \E duration \in Durations : Observe(duration)
ViewsSpec == ViewsInit /\ [][ViewsNext]_<<vars, samples, observed>>

-----------------------------------------------------------------------------
(* Properties.                                                             *)

\* What the latest Connected of a source said of its controls.
Announced(s) == NewestOf(history, Lives(s)).device

\* What a control was last said to be: by a frame since the source was last
\* disconnected, or else by its description.
Known(s, c) ==
  LET frame == NewestOf(history, Carriers(s, c))
  IN IF frame.kind = "none" THEN Announced(s)[c] ELSE LastValue(frame, c)

\* The same of a control that need not be there.
Said(s, c) == IF c \in DOMAIN Announced(s) THEN Some(Known(s, c)) ELSE None

\* A native view is of the selected source and has the controls of its latest
\* description; each, and the hat, is as what was last said of it.
NativeKnown(view) ==
  LET s == view.source
  IN /\ s = selected
     /\ DOMAIN view.keys \cup DOMAIN view.axes = DOMAIN Announced(s)
     /\ \A c \in DOMAIN view.keys : view.keys[c] = Known(s, c)
     /\ \A c \in DOMAIN view.axes : view.axes[c] = Known(s, c)
     /\ view.dpad = {<<x, y>> : x \in Said(s, Axis(16)), y \in Said(s, Axis(17))}
     /\ view.recent = Len(FramesFrom(Newest(InputsOf(history), MaxFrames), s))
     /\ XboxDisplayView # None
          <=> XboxKeys \cup XboxAxes \subseteq DOMAIN Announced(s)

\* So are the figures of the Xbox shape; a button that is not there is released.
XboxKnown(xbox) ==
  LET s == xbox.source
  IN /\ s = selected
     /\ xbox.left_stick = <<Known(s, Axis(0)), Known(s, Axis(1))>>
     /\ xbox.right_stick = <<Known(s, Axis(3)), Known(s, Axis(4))>>
     /\ xbox.dpad = <<Known(s, Axis(16)), Known(s, Axis(17))>>
     /\ xbox.triggers = <<Said(s, Axis(2)), Said(s, Axis(5))>>
     /\ \A c \in XboxButtons :
          xbox.buttons[c] = IF Said(s, c) = None THEN 0 ELSE Known(s, c)

\* "Build a generic native-input view without changing the captured evidence"
\* (tester.rs:324): a source is shown exactly while one is selected, with the controls
\* of its latest description, whatever it said of itself before; what is shown of each,
\* of the hat, and of the sticks, the d-pad, the triggers and the buttons of the Xbox
\* shape is what was last said of it, by a frame or by that description; and the Xbox
\* shape is drawn exactly for a source that now has all the controls it cannot do
\* without.
ViewsShowEvidence ==
  /\ NativeInputView = None <=> selected = NoSource
  /\ \A view \in NativeInputView : NativeKnown(view)
  /\ \A xbox \in XboxDisplayView : XboxKnown(xbox)

\* A summary is of the newest MAX_TIMING_SAMPLES durations, and its figures are order
\* statistics of them: of n samples, floor((n - 1) * percent / 100) at most lie below a
\* percentile and the rest of the others at most above it.
SummaryOfNewest ==
  \A summary \in Summary :
    LET kept == Newest(observed, MaxSamples)
        Below(p) == Cardinality({i \in DOMAIN kept : kept[i] < p})
        Above(p) == Cardinality({i \in DOMAIN kept : kept[i] > p})
        Splits(p, percent) == LET share == ((Len(kept) - 1) * percent) \div 100
                              IN Below(p) <= share /\ Above(p) <= Len(kept) - 1 - share
    IN /\ summary.samples = Len(kept)
       /\ Splits(summary.p50, 50) /\ Splits(summary.p95, 95) /\ Splits(summary.max, 100)
=============================================================================
