----------------------------- MODULE HidFixture -----------------------------
(***************************************************************************)
(* What is done with a HID fixture (src/hid.rs:371-590): its descriptor is *)
(* parsed, reports are framed against the layouts, and the HID endpoint is *)
(* paired with evdev endpoints by evidence.                                *)
(***************************************************************************)
EXTENDS HidLayouts

CONSTANTS
  ByteBits,   \* 8, the bits of a byte
  Reports,    \* the reports a fixture may hold: records of a type and bytes
  Fixtures    \* the endpoints of a fixture: records [hid, evdev]

ASSUME ByteAssumption == ByteBits \in Nat \ {0} /\ Base = 2^ByteBits
ASSUME ReportsAssumption == \A report \in Reports : report.bytes \in Seq(Nat)
ASSUME FixturesAssumption ==
  \A f \in Fixtures : /\ f.evdev \in Seq(Range(f.evdev))
                     /\ \A i \in DOMAIN f.evdev : f.evdev[i].index \in Nat

VARIABLES
  framed,   \* the report framed last and the result
  fixture,
  pairing   \* the result of pair_endpoint

vars == <<parser, framed, fixture, pairing>>

-----------------------------------------------------------------------------
Rejected(why) == [error |-> why]

HasIds(type) == \E key \in DOMAIN layouts : key[1] = type /\ key[2] # 0

RoundsDown(bits) == bits \div ByteBits
MinimumBytes(bits) == (bits + ByteBits - 1) \div ByteBits

Framed(report) ==
  LET ids == HasIds(report.type)
      id == IF ids THEN Head(report.bytes) ELSE 0
      payload == IF ids THEN Tail(report.bytes) ELSE report.bytes
      expected == MinimumBytes(layouts[<<report.type, id>>].bits)
  IN IF ids /\ report.bytes = <<>> THEN Rejected("MissingReportId")
     ELSE IF <<report.type, id>> \notin DOMAIN layouts THEN Rejected("UnknownReportId")
     ELSE IF Len(payload) < expected THEN Rejected("ShortReport")
     ELSE [error |-> "none", id |-> id,
           payload |-> SubSeq(payload, 1, expected),
           trailing |-> SubSeq(payload, expected + 1, Len(payload))]

FrameReport ==
  /\ status = "accepted" /\ framed = None
  /\ \E report \in Reports : framed' = Some([report |-> report, result |-> Framed(report)])
  /\ UNCHANGED <<parser, fixture, pairing>>

-----------------------------------------------------------------------------
Agree(left, right) == left # None /\ left = right

CountsClues(left, right) ==
  IF left.identity # right.identity \/ left.transport # right.transport THEN 0
  ELSE 1 + Cardinality({c \in {"topology", "connection"} : Agree(left[c], right[c])})
EvidenceScore(left, right) ==
  IF left.identity # right.identity \/ left.transport # right.transport THEN 0
  ELSE 1 + (IF Agree(left.topology, right.topology) THEN 2 ELSE 0)
         + (IF Agree(left.connection, right.connection) THEN 4 ELSE 0)

\* The indices of the best candidates in the order of the sort: by index, equal
\* ones as they came.
Best(hid, evdev) ==
  LET score == [i \in DOMAIN evdev |-> EvidenceScore(hid.evidence, evdev[i].evidence)]
      matched == {i \in DOMAIN evdev : score[i] > 0}
      top == {i \in matched : \A j \in matched : score[i] >= score[j]}
      Earlier(i, j) == \/ evdev[i].index < evdev[j].index
                       \/ evdev[i].index = evdev[j].index /\ i < j
      order == CHOOSE f \in [1..Cardinality(top) -> top] :
                 \A m, n \in DOMAIN f : m < n => Earlier(f[m], f[n])
  IN [n \in DOMAIN order |-> evdev[order[n]].index]

Pairing(hid, evdev) ==
  LET indices == Best(hid, evdev)
  IN CASE indices = <<>>   -> [kind |-> "Unmatched", indices |-> <<>>]
       [] Len(indices) = 1 -> [kind |-> "Unique", indices |-> indices]
       [] OTHER            -> [kind |-> "Ambiguous", indices |-> indices]

PairEndpoint ==
  /\ items = <<>> /\ status = "open" /\ pairing = None
  /\ pairing' = Some(Pairing(fixture.hid, fixture.evdev))
  /\ UNCHANGED <<parser, framed, fixture>>

-----------------------------------------------------------------------------
\* Bound: the descriptor and the endpoints of a fixture do not depend on each
\* other, so only fixtures without evdev endpoints have their descriptor read.
Parse == /\ fixture.evdev = <<>> /\ pairing = None
         /\ Item \/ Finish
         /\ UNCHANGED <<framed, fixture, pairing>>

FixtureInit == Init /\ framed = None /\ fixture \in Fixtures /\ pairing = None
FixtureNext == Parse \/ FrameReport \/ PairEndpoint
FixtureSpec == FixtureInit /\ [][FixtureNext]_vars

-----------------------------------------------------------------------------
(* Properties.                                                             *)

\* "Select a descriptor layout for opaque report bytes" (hid.rs:409): a report is
\* accepted exactly when its own id is declared and its bytes hold every field of
\* that report; the parts put together are the report, and none is longer than the
\* fields need.
FramingExact ==
  \A f \in framed :
    LET type == f.report.type
        raw == f.report.bytes
        head == IF \E i \in Fields : KeyOf(i)[1] = type /\ KeyOf(i)[2] # 0 THEN 1 ELSE 0
        id == IF head = 1 /\ raw # <<>> THEN raw[1] ELSE 0
        own == {i \in Fields : KeyOf(i) = <<type, id>>}
        bits == DeclaredBits(<<type, id>>, Len(items))
        result == f.result
    IN IF own # {} /\ Len(raw) >= head /\ ByteBits * (Len(raw) - head) >= bits
       THEN /\ result.error = "none" /\ result.id = id
            /\ SubSeq(raw, 1, head) \o result.payload \o result.trailing = raw
            /\ ByteBits * Len(result.payload) \in bits..(bits + ByteBits - 1)
       ELSE result.error # "none"

Compatible(c) == /\ c.evidence.identity = fixture.hid.evidence.identity
                 /\ c.evidence.transport = fixture.hid.evidence.transport
Shares(c, clue) == Agree(fixture.hid.evidence[clue], c.evidence[clue])

\* A connection clue outweighs any topology clue.
Stronger(c, d) ==
  \/ Shares(c, "connection") /\ ~Shares(d, "connection")
  \/ /\ Shares(c, "connection") = Shares(d, "connection")
     /\ Shares(c, "topology") /\ ~Shares(d, "topology")

\* "Pair endpoints only from explicit supplied evidence, never local path order"
\* (hid.rs:514): an endpoint is paired only when its evidence is stronger than that
\* of every other compatible one, and the order of the candidates decides nothing.
PairingByEvidence ==
  \A p \in pairing :
    LET evdev == fixture.evdev
        Winner(i) == /\ Compatible(evdev[i])
                     /\ \A j \in DOMAIN evdev \ {i} :
                          Compatible(evdev[j]) => Stronger(evdev[i], evdev[j])
    IN /\ IF \E i \in DOMAIN evdev : Winner(i)
          THEN \E i \in DOMAIN evdev :
                 Winner(i) /\ p = [kind |-> "Unique", indices |-> <<evdev[i].index>>]
          ELSE p.kind = IF \E i \in DOMAIN evdev : Compatible(evdev[i])
                        THEN "Ambiguous" ELSE "Unmatched"
       /\ \A order \in SetToSeqs(DOMAIN evdev) :
            Pairing(fixture.hid, [i \in DOMAIN evdev |-> evdev[order[i]]]) = p
=============================================================================
