-------------------------- MODULE LinuxDescriptors --------------------------
(***************************************************************************)
(* How the Linux provider describes an event node (src/linux.rs:29-44 and  *)
(* 166-323) and names it (src/identity.rs).                                *)
(*                                                                         *)
(* A node is what evdev reads of it: [path, bus, vendor, product, version, *)
(* uniq, phys, supported, absinfo, virtual].  Kernel strings are sequences *)
(* of UTF-8 bytes; numbers that are only printed, with a fixed width, are  *)
(* strings; an option has at most one element.  An id is a sequence of its *)
(* numbers, its fixed words and the bytes between them.  Reported names    *)
(* are left out: nothing is decided from them.                             *)
(***************************************************************************)
EXTENDS Integers, Sequences, SequencesExt

None == {}
Some(v) == {v}
Get(option) == CHOOSE v \in option : TRUE

-----------------------------------------------------------------------------
(* identity.rs                                                             *)

Byte == 0..255
Colon == 58

\* ASCII digits and letters, '-', '.', '/' and '_'.
Plain == 48..57 \cup 65..90 \cup 97..122 \cup {45, 46, 47, 95}

\* A digit of {:X}.
HexDigit(d) == IF d < 10 THEN 48 + d ELSE 55 + d

Unpadded(value) ==
  FlattenSeq([i \in DOMAIN value |->
    IF value[i] \in Plain THEN <<value[i]>>
    ELSE <<37>> \o (IF value[i] < 16 THEN <<>> ELSE <<HexDigit(value[i] \div 16)>>)
                \o <<HexDigit(value[i] % 16)>>])

\* Every other byte is a '%' and its two digits, of which the first may be 0.
Token(byte) ==
  IF byte \in Plain THEN <<byte>> ELSE <<37, HexDigit(byte \div 16), HexDigit(byte % 16)>>
Escape(value) == FlattenSeq([i \in DOMAIN value |-> Token(value[i])])

\* What str::trim takes for white space, in UTF-8.
WhiteSpace ==
  {<<b>> : b \in 9..13 \cup {32}} \cup {<<194, 133>>, <<194, 160>>}
    \cup {<<225, 154, 128>>, <<226, 129, 159>>, <<227, 128, 128>>}
    \cup {<<226, 128, b>> : b \in 128..138 \cup {168, 169, 175}}

\* The places of a string that no white space covers.
Visible(value) ==
  {i \in DOMAIN value : \A w \in WhiteSpace : \A k \in DOMAIN w :
     \E j \in DOMAIN w : i - k + j \notin DOMAIN value \/ value[i - k + j] # w[j]}

Filled(option) == {value \in option : Visible(value) # {}}

Discriminator(unique_id, physical_path) ==
  IF Filled(unique_id) # None THEN <<"uniq", Colon>> \o Escape(Get(unique_id))
  ELSE IF Filled(physical_path) # None THEN <<"phys", Colon>> \o Escape(Get(physical_path))
  ELSE <<"anonymous">>

TransportLabel(transport, bus) ==
  IF transport = "Other" THEN <<"bus-", bus>> ELSE <<transport>>

PhysicalId(identity, transport, unique_id, physical_path) ==
  <<identity.bus, Colon, identity.vendor, Colon, identity.product, Colon>>
    \o TransportLabel(transport, identity.bus) \o <<Colon>>
    \o Discriminator(unique_id, physical_path)

SourceId(physical_id, path) == physical_id \o <<Colon, "source", Colon>> \o Escape(path)

-----------------------------------------------------------------------------
(* linux.rs                                                                *)

NonEmpty(option) ==
  {SubSeq(value, Min(Visible(value)), Max(Visible(value))) : value \in Filled(option)}

Transport(bus) == CASE bus = "0003" -> "Usb"
                    [] bus = "0005" -> "Bluetooth"
                    [] bus = "0006" -> "Virtual"
                    [] bus = "0000" -> "Unknown"
                    [] OTHER        -> "Other"

EventType == [Key |-> 1, RelativeAxis |-> 2, AbsoluteAxis |-> 3,
              Switch |-> 5, Led |-> 17, ForceFeedback |-> 21]

\* The provider never answers WheelOrPedals or FlightController.
Classify(supported) ==
  LET Has(codes) == \E c \in supported : c.kind = "Key" /\ c.code \in codes
      axes == \E c \in supported : c.kind = "AbsoluteAxis"
  IN CASE axes /\ Has(304..319) -> Some("Gamepad")         \* 0x130..=0x13f
       [] axes /\ ~Has(304..319) /\ Has(288..303) -> Some("ControllerLike")
       [] OTHER -> None

\* In the order of the sort; the kernel's bit sets name a control once.
Controls(supported) ==
  LET Earlier(c, d) == \/ EventType[c.kind] < EventType[d.kind]
                       \/ c.kind = d.kind /\ c.code < d.code
  IN SetToSortSeq(supported, Earlier)

Descriptor(node) ==
  LET identity == [bus |-> node.bus, vendor |-> node.vendor,
                   product |-> node.product, version |-> node.version]
      transport == Transport(node.bus)
      unique_id == NonEmpty(node.uniq)
      physical_path == NonEmpty(node.phys)
      physical_id == PhysicalId(identity, transport, unique_id, physical_path)
  IN [physical_id |-> physical_id,
      source_id |-> SourceId(physical_id, node.path),
      identity |-> identity,
      transport |-> transport,
      provenance |-> IF node.bus = "0006" \/ node.virtual THEN "Virtual" ELSE "Physical",
      identity_stability |-> CASE unique_id # None -> "Hardware"
                               [] unique_id = None /\ physical_path # None -> "Topology"
                               [] OTHER -> "ConnectionOnly",
      class |-> Get(Classify(node.supported)),
      device_path |-> node.path,
      physical_path |-> physical_path,
      unique_id |-> unique_id,
      controls |-> Controls(node.supported)]

\* The controllers among the nodes, those that can be described.
Controllers(nodes) == {n \in nodes : Classify(n.supported) # None}
Described(nodes) == {Descriptor(n) : n \in {n \in Controllers(nodes) : n.absinfo}}

\* EvdevProvider::enumerate.  The devices are sorted by source id; no property
\* depends on which order that is, so any fixed one stands for it.
Enumerated(nodes) ==
  [devices |-> SetToSeq(Described(nodes)),
   issues |-> SetToSeq({n.path : n \in {n \in Controllers(nodes) : ~n.absinfo}})]
=============================================================================
