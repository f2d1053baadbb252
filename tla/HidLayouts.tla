----------------------------- MODULE HidLayouts -----------------------------
(***************************************************************************)
(* HidDescriptor::parse (src/hid.rs:201-369): the stateful pass over the   *)
(* items that turns global, local and main items into report layouts.      *)
(* The descriptor is chosen item by item while it is interpreted, and ends *)
(* anywhere, also inside an item.  A parse error of the code precedes the  *)
(* errors of this pass; with either there are no layouts.                  *)
(***************************************************************************)
EXTENDS HidItems, FiniteSetsExt

CONSTANTS
  Script,    \* bound: the i-th item of a descriptor is one of Script[i]
  Tails,     \* the beginnings of items a descriptor may be cut off in
  MaxDepth   \* MAX_COLLECTION_DEPTH

ASSUME DepthAssumption == MaxDepth \in Nat
ASSUME ScriptAssumption == Script \in Seq(SUBSET Writable)
ASSUME TailsAssumption ==
  \A tail \in Tails : tail \in Seq(Nat) /\ tail # <<>> /\ Missing(tail, 0) # None

VARIABLES
  bytes,    \* the descriptor so far
  items,    \* the items it was written from, which the properties are about
  global,   \* GlobalState
  stack,    \* global_stack
  usages, depth,
  layouts,  \* a function on the declared pairs of report type and id
  status    \* "open", "accepted" or the error

parser == <<bytes, items, global, stack, usages, depth, layouts, status>>

MainTag == [Input |-> 8, Output |-> 9, Feature |-> 11]
ReportTypes == DOMAIN MainTag

\* (page << 16) | usage in u32: the page loses its high half, and a usage of
\* four bytes shares its own high half with the page.
Half == Base^2
BitsOf(n) == {i \in 0..15 : (n \div 2^i) % 2 = 1}
Or(a, b) == CHOOSE n \in 0..(Half - 1) : BitsOf(n) = BitsOf(a) \cup BitsOf(b)
Qualified(page, usage) ==
  IF page = None THEN usage
  ELSE Half * Or(Get(page) % Half, usage \div Half) + (usage % Half)

Init ==
  /\ bytes = <<>>
  /\ items = <<>>
  /\ global = [page |-> None, size |-> None, count |-> None, id |-> 0]
  /\ stack = <<>>
  /\ usages = <<>>
  /\ depth = 0
  /\ layouts = <<>>
  /\ status = "open"

Fail(error) ==
  /\ status' = error
  /\ UNCHANGED <<global, stack, usages, depth, layouts>>

SetGlobal(item) ==
  /\ item.kind = "Global"
  /\ \/ item.tag = 0 /\ global' = [global EXCEPT !.page = Some(Value(item.data))]
     \/ item.tag = 7 /\ global' = [global EXCEPT !.size = Some(Value(item.data))]
     \/ item.tag = 9 /\ global' = [global EXCEPT !.count = Some(Value(item.data))]
  /\ UNCHANGED <<stack, usages, depth, layouts, status>>

ReportId(item) ==
  /\ item.kind = "Global" /\ item.tag = 8
  /\ LET id == Value(item.data)
     IN IF id \notin 1..MaxByte THEN Fail("ZeroReportId")
        ELSE /\ global' = [global EXCEPT !.id = id]
             /\ UNCHANGED <<stack, usages, depth, layouts, status>>

PushGlobal(item) ==
  /\ item.kind = "Global" /\ item.tag = 10
  /\ stack' = Append(stack, global)
  /\ UNCHANGED <<global, usages, depth, layouts, status>>

KeepsReportId(now, saved) == [saved EXCEPT !.id = now.id]
\* What a Pop makes the global state, from the state and the stack's top.
Restored(now, saved) == saved

PopGlobal(item) ==
  /\ item.kind = "Global" /\ item.tag = 11
  /\ IF stack = <<>> THEN Fail("GlobalPopUnderflow")
     ELSE /\ global' = Restored(global, Last(stack))
          /\ stack' = Front(stack)
          /\ UNCHANGED <<usages, depth, layouts, status>>

Usage(item) ==
  /\ item.kind = "Local" /\ item.tag = 0
  /\ usages' = Append(usages, Qualified(global.page, Value(item.data)))
  /\ UNCHANGED <<global, stack, depth, layouts, status>>

StopsEarly(d) == d >= MaxDepth
TooDeep(d) == d > MaxDepth

OpenCollection(item) ==
  /\ item.kind = "Main" /\ item.tag = 10
  /\ IF TooDeep(depth + 1) THEN Fail("CollectionDepthExceeded")
     ELSE /\ depth' = depth + 1
          /\ usages' = <<>>
          /\ UNCHANGED <<global, stack, layouts, status>>

EndCollection(item) ==
  /\ item.kind = "Main" /\ item.tag = 12
  /\ IF depth = 0 THEN Fail("CollectionEndWithoutStart")
     ELSE /\ depth' = depth - 1
          /\ usages' = <<>>
          /\ UNCHANGED <<global, stack, layouts, status>>

LayoutOf(key) ==
  IF key \in DOMAIN layouts THEN layouts[key] ELSE [bits |-> 0, fields |-> <<>>]

Overflows(n) == n > MaxWord

DeclareField(item) ==
  /\ item.kind = "Main"
  /\ \E type \in ReportTypes :
       /\ item.tag = MainTag[type]
       /\ IF global.size = None THEN Fail("MissingReportSize")
          ELSE IF global.count = None THEN Fail("MissingReportCount")
          ELSE LET key == <<type, global.id>>
                   start == LayoutOf(key).bits
                   width == Get(global.size) * Get(global.count)
                   flags == Value(item.data)
                   field == [offset |-> start, size |-> Get(global.size),
                             count |-> Get(global.count), flags |-> flags,
                             variable |-> (flags \div 2) % 2 = 1, usages |-> usages]
               IN IF Overflows(width) \/ Overflows(start + width) THEN Fail("ArithmeticOverflow")
                  ELSE /\ layouts' = [k \in DOMAIN layouts \cup {key} |->
                            IF k = key
                            THEN [bits |-> start + width,
                                  fields |-> Append(LayoutOf(key).fields, field)]
                            ELSE layouts[k]]
                       /\ usages' = <<>>
                       /\ UNCHANGED <<global, stack, depth, status>>

OtherMain(item) ==
  /\ item.kind = "Main" /\ item.tag \notin {8, 9, 10, 11, 12}
  /\ usages' = <<>>
  /\ UNCHANGED <<global, stack, depth, layouts, status>>

\* Long and reserved items, and the globals and locals without a use here.
Ignored(item) ==
  /\ \/ item.kind \in {"Long", "Reserved"}
     \/ item.kind = "Global" /\ item.tag \notin {0, 7, 8, 9, 10, 11}
     \/ item.kind = "Local" /\ item.tag # 0
  /\ UNCHANGED <<global, stack, usages, depth, layouts, status>>

Item ==
  /\ status = "open" /\ Len(items) < Len(Script)
  /\ \E item \in Script[Len(items) + 1] :
       /\ bytes' = bytes \o Encode(item)
       /\ items' = Append(items, [offset |-> Len(bytes), item |-> item])
       /\ \/ SetGlobal(item) \/ ReportId(item) \/ PushGlobal(item) \/ PopGlobal(item)
          \/ Usage(item) \/ OpenCollection(item) \/ EndCollection(item)
          \/ DeclareField(item) \/ OtherMain(item) \/ Ignored(item)

\* The stream ends, with the checks after the loop, or is cut off.
Finish ==
  /\ status = "open"
  /\ \E tail \in Tails \cup {<<>>} :
       /\ bytes' = bytes \o tail
       /\ status' = IF tail # <<>> THEN "Truncated"
                    ELSE IF stack # <<>> THEN "UnclosedGlobalPush"
                    ELSE IF depth # 0 THEN "UnclosedCollection"
                    ELSE "accepted"
  /\ UNCHANGED <<items, global, stack, usages, depth, layouts>>

Next == Item \/ Finish

Spec == Init /\ [][Next]_parser

-----------------------------------------------------------------------------
(* Properties: the incremental state against what the items declare.       *)

Is(i, kind, tag) == items[i].item.kind = kind /\ items[i].item.tag = tag
Push(i) == Is(i, "Global", 10)
Pop(i) == Is(i, "Global", 11)
Count(Test(_), first, last) == Cardinality({i \in first..last : Test(i)})

\* The brackets among the items first..last match each other.
Balanced(Opens(_), Closes(_), first, last) ==
  /\ Count(Opens, first, last) = Count(Closes, first, last)
  /\ \A i \in first..last : Count(Opens, first, i) >= Count(Closes, first, i)

\* Item j is between a Push and its Pop, both before item i.
Undone(j, i) ==
  \E p \in 1..(j - 1), q \in (j + 1)..(i - 1) :
    Push(p) /\ Pop(q) /\ Balanced(Push, Pop, p + 1, q - 1)

\* The value of a global item that is in force at item i.
InForce(tag, i) ==
  LET seen == {j \in 1..(i - 1) : Is(j, "Global", tag) /\ ~Undone(j, i)}
  IN IF seen = {} THEN None ELSE Some(Value(items[Max(seen)].item.data))

Fields == {i \in DOMAIN items : \E type \in ReportTypes : Is(i, "Main", MainTag[type])}
KeyOf(i) ==
  <<CHOOSE type \in ReportTypes : Is(i, "Main", MainTag[type]),
    IF InForce(8, i) = None THEN 0 ELSE Get(InForce(8, i))>>
WidthOf(i) == Get(InForce(7, i)) * Get(InForce(9, i))
Before(i) == {j \in Fields : j < i /\ KeyOf(j) = KeyOf(i)}
\* The bits that the fields among the first n items declare in a report.
DeclaredBits(key, n) ==
  LET bits[k \in 0..n] ==
        IF k = 0 THEN 0
        ELSE bits[k - 1] + (IF k \in Fields /\ KeyOf(k) = key THEN WidthOf(k) ELSE 0)
  IN bits[n]
OffsetOf(i) == DeclaredBits(KeyOf(i), i - 1)
\* The usages since the last main item, each with the page in force at its own item.
UsagesOf(i) ==
  LET mains == {j \in 1..(i - 1) : items[j].item.kind = "Main"}
      own == {j \in 1..(i - 1) : Is(j, "Local", 0) /\ \A k \in mains : k < j}
  IN [n \in 1..Cardinality(own) |->
        LET j == Get({j \in own : Cardinality({k \in own : k <= j}) = n})
        IN Qualified(InForce(0, j), Value(items[j].item.data))]

\* "Parse a descriptor into lossless items" (hid.rs:131): whatever bytes the data
\* of an item holds, the cuts are where the items were written, and a stream that
\* ends inside an item is refused at that item.
ItemsRecovered ==
  LET parsed == ParseItems(bytes)
  IN IF status = "Truncated"
     THEN /\ parsed.error # None
          /\ Get(parsed.error).offset = Len(FlattenSeq([i \in DOMAIN items |-> Encode(items[i].item)]))
     ELSE parsed = [items |-> items, error |-> None]

\* The report bits are tiled by the fields its main items declared: each has the
\* globals in force at its item, however Push, Pop and report ids interleave, and
\* starts where the widths before it in its own report end.
FieldsAsDeclared ==
  status \in {"open", "accepted"} =>
    /\ DOMAIN layouts = {KeyOf(i) : i \in Fields}
    /\ \A i \in Fields :
         LET report == layouts[KeyOf(i)]
             field == report.fields[Cardinality(Before(i)) + 1]
         IN /\ Len(report.fields) = Cardinality({j \in Fields : KeyOf(j) = KeyOf(i)})
            /\ field.offset = OffsetOf(i)
            /\ <<Some(field.size), Some(field.count)>> = <<InForce(7, i), InForce(9, i)>>
            /\ field.usages = UsagesOf(i)
            /\ report.bits >= OffsetOf(i) + WidthOf(i)

Opens(i) == Is(i, "Main", 10)
Ends(i) == Is(i, "Main", 12)

\* The rules an item may break at its place in the descriptor.
Legal ==
  /\ \A i \in DOMAIN items :
       /\ Count(Push, 1, i) >= Count(Pop, 1, i)
       /\ Count(Opens, 1, i) - Count(Ends, 1, i) \in 0..MaxDepth
       /\ Is(i, "Global", 8) => Value(items[i].item.data) \in 1..MaxByte
  /\ \A i \in Fields :
       /\ InForce(7, i) # None /\ InForce(9, i) # None
       /\ OffsetOf(i) + WidthOf(i) <= MaxWord

Closed == /\ Count(Push, 1, Len(items)) = Count(Pop, 1, Len(items))
          /\ Count(Opens, 1, Len(items)) = Count(Ends, 1, Len(items))

\* The verdict of the single pass is that of the whole descriptor: nothing legal is
\* refused, nothing else is accepted.
VerdictExact ==
  CASE status \in {"open", "Truncated"} -> Legal
    [] status = "accepted"              -> Legal /\ Closed
    [] status \in {"UnclosedGlobalPush", "UnclosedCollection"} -> Legal /\ ~Closed
    [] OTHER                            -> ~Legal
=============================================================================
