---- MODULE MCCaptureLab ----
EXTENDS CaptureLab

Control(kind, code) == [kind |-> kind, code |-> code, range |-> <<-1, 1>>]
Pad == {Control("Key", 304), Control("Key", 288), Control("AbsoluteAxis", 0),
        Control("AbsoluteAxis", 1), Control("ForceFeedback", 80)}
Stick == {Control("Key", 288), Control("AbsoluteAxis", 0), Control("Switch", 1)}
Keyboard == {Control("Key", 30), Control("Led", 1), Control("RelativeAxis", 0)}

Node(path, bus, uniq, phys, supported, absinfo) ==
  [path |-> path, bus |-> bus, vendor |-> "045e", product |-> "0b13", version |-> "0001",
   uniq |-> uniq, phys |-> phys, supported |-> supported, absinfo |-> absinfo,
   virtual |-> FALSE]

\* Paths and kernel strings in bytes: "/1", "a", " a " with a no-break space, blanks,
\* "a:", "a%3A", and control characters that only the padding tells apart.
P1 == <<47, 49>>
P2 == <<47, 50>>
P3 == <<47, 58, 51>>
A == <<97>>
Spaced == <<194, 160, 97, 32>>
Blanks == <<32, 9>>
WithColon == <<97, 58>>
Escaped == <<97, 37, 51, 65>>
Unit == <<1, 48>>
Twin == <<16>>

\* Twins on two nodes, strings that differ only before escaping, a device that
\* moves to another node, nodes that are no controllers, or fail to describe.
Hosts ==
  {{},
   {Node(P1, "0003", Some(WithColon), None, Pad, TRUE)},
   {Node(P1, "0003", Some(WithColon), None, Pad, TRUE), Node(P2, "0003", Some(Escaped), Some(A), Stick, TRUE)},
   {Node(P2, "0003", Some(WithColon), None, Pad, TRUE), Node(P3, "0005", Some(Blanks), Some(Spaced), Pad, TRUE)},
   {Node(P1, "0003", None, None, Pad, TRUE), Node(P2, "0003", None, None, Pad, TRUE)},
   {Node(P1, "0003", Some(Unit), None, Pad, TRUE), Node(P2, "0003", Some(Twin), None, Pad, TRUE)},
   {Node(P1, "0003", None, Some(A), Pad, TRUE), Node(P2, "0003", Some(A), Some(A), Pad, TRUE),
    Node(P3, "0006", None, None, Keyboard, TRUE)},
   {Node(P1, "0019", None, Some(A), Pad, TRUE), Node(P3, "0000", None, None, Pad, FALSE)}}

MCNodes == UNION Hosts

Scans == {None} \cup {Some(Enumerated(host)) : host \in Hosts}

Batch(id, n) == [source_id |-> id, sequence |-> n,
                 events |-> <<[timestamp |-> 1500 * n - 2000, code |-> n]>>]
ReadsOf(id, first) ==
  <<Some(<<Batch(id, first)>>), None, Some(<<Batch(id, first + 1), Batch(id, first + 2)>>)>>

Ids == UNION {{d.source_id : d \in Range(Enumerated(host).devices)} : host \in Hosts}
IdSeq == FoldSet(LAMBDA id, q : Append(q, id), <<>>, Ids)
\* Two plans per source; or one for every other source.
Twice == [i \in 1..(2 * Len(IdSeq)) |->
  LET id == IdSeq[((i - 1) \div 2) + 1]
  IN [source |-> id, access |-> "Shared",
      reads |-> IF i % 2 = 1 THEN ReadsOf(id, 1) ELSE Tail(ReadsOf(id, 5))]]
Once == SelectSeq([i \in DOMAIN IdSeq |->
  [source |-> IdSeq[i], access |-> "Exclusive", reads |-> IF i % 2 = 1 THEN <<>> ELSE ReadsOf(IdSeq[i], 1)]],
  LAMBDA p : p.reads # <<>>)

MCScripts == {[scans |-> <<a, b, a>>, plans |-> plans] : a \in Scans, b \in Scans, plans \in {Twice, Once}}
====
