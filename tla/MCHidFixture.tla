---- MODULE MCHidFixture ----
EXTENDS HidFixture

Page(n) == Short("Global", 0, <<n>>)
Size(data) == Short("Global", 7, data)
CountItem(n) == Short("Global", 9, <<n>>)
Id(data) == Short("Global", 8, data)
PushItem == Short("Global", 10, <<>>)
PopItem == Short("Global", 11, <<>>)
UsageItem(data) == Short("Local", 0, data)
OpenItem == Short("Main", 10, <<1>>)
EndItem == Short("Main", 12, <<>>)
InputItem == Short("Main", 8, <<2>>)
FeatureItem == Short("Main", 11, <<0>>)

\* Items that are only worth a place at one position of the descriptor.  Three fields of
\* the one size are wider than a number; of the other, those of one item are not, and
\* those of two are.
First == {Page(1), Size(<<1>>), Long(3, <<LongPrefix, 3>>), Short("Reserved", 15, <<1>>)}
Odd == {Size(<<0, 0, 0, 2>>), Size(<<1, 1, 1, 1>>), Id(<<0>>), Id(<<0, 1>>), Short("Main", 0, <<>>),
        Short("Local", 1, <<2>>), UsageItem(<<0, 0, 2, 1>>)}
Body == {Size(<<3>>), Id(<<1>>), PushItem, PopItem, UsageItem(<<1>>),
         OpenItem, EndItem, InputItem, FeatureItem}
MCScript ==
  <<First, {CountItem(3)}, Body \cup Odd, Body, Body, Body \ {FeatureItem, OpenItem}, {InputItem, PopItem, EndItem}>>

\* Beginnings of a long and of a short item.
MCTails == {<<LongPrefix>>, <<117>>, <<LongPrefix, 3, 0, 1>>}

MCReports ==
  {[type |-> "Input", bytes |-> <<>>]}
    \cup {[type |-> "Input", bytes |-> <<id>> \o rest] :
            id \in {0, 1}, rest \in {<<>>, <<3>>, <<3, 2, 1>>}}

Evidence(identity, transport, topology, connection) ==
  [identity |-> identity, transport |-> transport,
   topology |-> topology, connection |-> connection]
Evidences ==
  {Evidence("pad", "Usb", t, c) : t \in {None, {1}, {2}}, c \in {None, {1}}}
    \cup {Evidence("pad", "Bluetooth", {1}, {1}), Evidence("other", "Usb", {1}, {1})}
Endpoint(i, evidence) == [index |-> i, evidence |-> evidence]
HidEndpoint(t, c) == Endpoint(0, Evidence("pad", "Usb", t, c))
MCFixtures ==
  {[hid |-> HidEndpoint(t, c), evdev |-> [i \in DOMAIN q |-> Endpoint(4 - i, q[i])]] :
     t \in {None, {1}}, c \in {None, {1}}, q \in UNION {[1..n -> Evidences] : n \in 1..3}}
  \cup {[hid |-> HidEndpoint(None, None), evdev |-> <<>>]}
====
