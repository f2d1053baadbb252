------------------------------ MODULE HidItems ------------------------------
(***************************************************************************)
(* The raw item stream of a HID report descriptor (src/hid.rs:131-247):    *)
(* how bytes are cut into items, and what an item's data is worth.         *)
(*                                                                         *)
(* A data byte has Base values (256 in the code); prefixes keep their own  *)
(* width.  An option of the code is a set of at most one element.          *)
(***************************************************************************)
EXTENDS Integers, Sequences, SequencesExt

CONSTANT Base  \* the values of a data byte; a u32 is a word of four of them

ASSUME BaseAssumption == Base \in Nat /\ Base > 1

MaxByte == Base - 1
MaxWord == Base^4 - 1
None == {}
Some(v) == {v}
Get(option) == CHOOSE v \in option : TRUE

Types == <<"Main", "Global", "Local", "Reserved">>
LongPrefix == 254  \* 0xfe

Short(type, tag, data) == [kind |-> type, tag |-> tag, data |-> data]
Long(tag, data) == [kind |-> "Long", tag |-> tag, data |-> data]

IsLong(bytes, o) == bytes[o + 1] = LongPrefix
TwoBits(bytes, o) == bytes[o + 1] % 4
ThreeByteData(bytes, o) ==
  IF IsLong(bytes, o) THEN bytes[o + 2] ELSE TwoBits(bytes, o)
DataSize(bytes, o) ==
  IF IsLong(bytes, o) THEN bytes[o + 2] ELSE <<0, 1, 2, 4>>[TwoBits(bytes, o) + 1]
DataStart(bytes, o) == o + (IF IsLong(bytes, o) THEN 3 ELSE 1)
EndOf(bytes, o) == DataStart(bytes, o) + DataSize(bytes, o)

ItemAt(bytes, o) ==
  LET prefix == bytes[o + 1]
      data == SubSeq(bytes, DataStart(bytes, o) + 1, EndOf(bytes, o))
  IN IF IsLong(bytes, o)
     THEN Long(bytes[o + 3], data)
     ELSE Short(Types[((prefix \div 4) % 4) + 1], prefix \div 16, data)

\* The bytes an item still needed when the stream ends inside it, if it does.
Missing(bytes, o) ==
  IF IsLong(bytes, o) /\ o + 2 >= Len(bytes) THEN Some(2)
  ELSE IF EndOf(bytes, o) > Len(bytes) THEN Some(DataSize(bytes, o))
  ELSE None

\* All items with their offsets, or where and for what the stream was too short:
\* scan[n] is what n turns of the loop leave.
ParseItems(bytes) ==
  LET scan[n \in 0..Len(bytes)] ==
        IF n = 0 THEN [offset |-> 0, items |-> <<>>, error |-> None]
        ELSE LET s == scan[n - 1]
                 lacks == Missing(bytes, s.offset)
             IN IF s.offset = Len(bytes) \/ s.error # None THEN s
                ELSE IF lacks # None
                THEN [offset |-> s.offset, items |-> <<>>,
                      error |-> Some([offset |-> s.offset, expected |-> Get(lacks)])]
                ELSE [offset |-> EndOf(bytes, s.offset), error |-> None,
                      items |-> Append(s.items, [offset |-> s.offset, item |-> ItemAt(bytes, s.offset)])]
      end == scan[Len(bytes)]
  IN [items |-> end.items, error |-> end.error]

\* Little endian: value[n] is worth the last n bytes.
Value(data) ==
  LET value[n \in 0..Len(data)] ==
        IF n = 0 THEN 0 ELSE data[Len(data) + 1 - n] + Base * value[n - 1]
  IN value[Len(data)]

-----------------------------------------------------------------------------
(* The other direction, as the HID grammar has it: a device's bytes.       *)

TypeCode(type) == CHOOSE i \in 0..3 : Types[i + 1] = type
SizeCode(data) == CHOOSE i \in 0..3 : <<0, 1, 2, 4>>[i + 1] = Len(data)

Encode(item) ==
  IF item.kind = "Long" THEN <<LongPrefix, Len(item.data), item.tag>> \o item.data
  ELSE <<item.tag * 16 + TypeCode(item.kind) * 4 + SizeCode(item.data)>> \o item.data

\* The items there are: no short one begins like a long one, and the data of a long
\* one, which has no value, is any bytes.
Writable ==
  [kind : {"Long"}, tag : 0..255, data : Seq(0..255)]
    \cup {item \in [kind : Range(Types), tag : 0..15, data : Seq(0..MaxByte)] :
           Len(item.data) \in {0, 1, 2, 4} /\ Encode(item)[1] # LongPrefix}
=============================================================================
