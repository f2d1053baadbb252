-------------------------- MODULE Devices_proofs --------------------------
(***************************************************************************)
(* What is known of a device without reading it.                           *)
(*                                                                         *)
(* For every descriptor: what one pass over its items keeps is what the    *)
(* whole descriptor declares, and exactly the legal ones are accepted.     *)
(* For every report and every set of endpoints: framing follows the        *)
(* declarations and pairing the evidence.  For every catalog: a selection  *)
(* offers exactly the evident profiles and then the fallback, and what it  *)
(* selects is as confident as anything offered.                            *)
(*                                                                         *)
(* In this order: items and bytes, the pass (PassInv, BytesInv), framing   *)
(* (FrameInv), pairing (PairInv), profile detection (DetectInv).           *)
(***************************************************************************)
EXTENDS HidFixture, ProfileSelection, Prefixes_proofs, SequenceTheorems, FiniteSetTheorems, TLAPS

-----------------------------------------------------------------------------
(* Counting items.                                                         *)

\* What is wrapped is what is unwrapped.
LEMMA GetSome ==
  ASSUME NEW v
  PROVE  Get(Some(v)) = v /\ Some(v) # None
BY DEF Get, Some, None

\* The places of a set up to n, and one place more.
LEMMA PlacesCounted ==
  ASSUME NEW S, NEW n \in Nat
  PROVE  /\ Cardinality({i \in 1..n : i \in S}) \in Nat
         /\ IsFiniteSet({i \in 1..n : i \in S})
         /\ Cardinality({i \in 1..0 : i \in S}) = 0
         /\ Cardinality({i \in 1..(n + 1) : i \in S}) =
              Cardinality({i \in 1..n : i \in S}) + (IF n + 1 \in S THEN 1 ELSE 0)
<1> DEFINE T == {i \in 1..n : i \in S}
<1>1. IsFiniteSet(T) /\ Cardinality(T) \in Nat
  <2>1. IsFiniteSet(1..n)
    BY FS_Interval
  <2>2. T \in SUBSET (1..n)
    OBVIOUS
  <2> HIDE DEF T
  <2> QED BY <2>1, <2>2, FS_Subset, FS_CardinalityType
<1>2. {i \in 1..0 : i \in S} = {}
  OBVIOUS
<1>3. CASE n + 1 \in S
  <2>1. {i \in 1..(n + 1) : i \in S} = T \cup {n + 1} /\ n + 1 \notin T
    BY <1>3
  <2> HIDE DEF T
  <2>2. Cardinality(T \cup {n + 1}) = Cardinality(T) + 1
    BY <1>1, <2>1, FS_AddElement
  <2> QED BY <1>1, <1>2, <1>3, <2>1, <2>2, FS_EmptySet DEF T
<1>4. CASE n + 1 \notin S
  <2>1. {i \in 1..(n + 1) : i \in S} = T
    BY <1>4
  <2> QED BY <1>1, <1>2, <1>4, <2>1, FS_EmptySet
<1> QED BY <1>3, <1>4

\* The places from a + 1 to n are those up to n without those up to a.
LEMMA PlacesBetween ==
  ASSUME NEW S, NEW a \in Nat, NEW n \in Nat, a <= n
  PROVE  Cardinality({i \in (a + 1)..n : i \in S}) =
           Cardinality({i \in 1..n : i \in S}) - Cardinality({i \in 1..a : i \in S})
<1> DEFINE all == {i \in 1..n : i \in S}
           low == {i \in 1..a : i \in S}
           high == {i \in (a + 1)..n : i \in S}
<1>1. all = low \cup high /\ low \cap high = {} /\ high \in SUBSET all
  OBVIOUS
<1>2. IsFiniteSet(all) /\ IsFiniteSet(low) /\ Cardinality(low) \in Nat
  BY PlacesCounted
<1> HIDE DEF all, low, high
<1>3. IsFiniteSet(high) /\ Cardinality(high) \in Nat
  BY <1>1, <1>2, FS_Subset, FS_CardinalityType
<1>4. Cardinality(low \cup high) = Cardinality(low) + Cardinality(high) - 0
  BY <1>1, <1>2, <1>3, FS_Union, FS_EmptySet
<1> QED BY <1>1, <1>2, <1>3, <1>4 DEF all, low, high

\* How many Pushes are still open after item k.
Height(k) == Count(Push, 1, k) - Count(Pop, 1, k)

HeightSteps ==
  /\ Height(0) = 0
  /\ \A k \in Nat : Height(k) \in Int
  /\ \A k \in Nat : Height(k + 1) = Height(k) + (IF Push(k + 1) THEN 1
                                                 ELSE IF Pop(k + 1) THEN -1 ELSE 0)

\* So it is before a step and after it; the same holds of the lemmas below.
LEMMA Heights == HeightSteps /\ HeightSteps'
<1> DEFINE P == {i \in Nat : Push(i)}
           Q == {i \in Nat : Pop(i)}
           Up(k) == Cardinality({i \in 1..k : i \in P})
           Down(k) == Cardinality({i \in 1..k : i \in Q})
<1>1. ASSUME NEW k \in Nat PROVE Height(k) = Up(k) - Down(k)
  <2>1. {i \in 1..k : i \in P} = {i \in 1..k : Push(i)}
    OBVIOUS
  <2>2. {i \in 1..k : i \in Q} = {i \in 1..k : Pop(i)}
    OBVIOUS
  <2> QED BY <2>1, <2>2 DEF Height, Count
<1>2. \A i \in Nat : ~(Push(i) /\ Pop(i))
  BY DEF Push, Pop, Is
<1>3. ASSUME NEW k \in Nat
      PROVE  /\ Up(k) \in Nat /\ Down(k) \in Nat /\ Up(0) = 0 /\ Down(0) = 0
             /\ Up(k + 1) = Up(k) + (IF Push(k + 1) THEN 1 ELSE 0)
             /\ Down(k + 1) = Down(k) + (IF Pop(k + 1) THEN 1 ELSE 0)
  <2>1. (k + 1 \in P <=> Push(k + 1)) /\ (k + 1 \in Q <=> Pop(k + 1))
    OBVIOUS
  <2> HIDE DEF P, Q
  <2> QED BY <2>1, PlacesCounted
<1> HIDE DEF Up, Down
<1>4. HeightSteps
  BY <1>1, <1>2, <1>3 DEF HeightSteps
<1> QED BY <1>4, PTL

\* A stretch of items is balanced when the height never falls below where it
\* began and ends there.
EvenHeight(a, b) == /\ Height(b) = Height(a)
                    /\ \A k \in (a + 1)..b : Height(k) >= Height(a)

BalancedLevels ==
  \A a, b \in Nat : a <= b => (Balanced(Push, Pop, a + 1, b) <=> EvenHeight(a, b))

\* Balanced, which counts brackets, read off the heights; before a step and after it.
LEMMA BalancedMeans == BalancedLevels /\ BalancedLevels'
<1>1. BalancedLevels
  <2> SUFFICES ASSUME NEW a \in Nat, NEW b \in Nat, a <= b
               PROVE  Balanced(Push, Pop, a + 1, b) <=> EvenHeight(a, b)
    BY DEF BalancedLevels
  <2> DEFINE P == {i \in Nat : Push(i)}
             Q == {i \in Nat : Pop(i)}
  <2>1. ASSUME NEW f \in Nat, NEW k \in Nat
        PROVE  /\ Count(Push, f, k) = Cardinality({i \in f..k : i \in P})
               /\ Count(Pop, f, k) = Cardinality({i \in f..k : i \in Q})
    <3>1. {i \in f..k : i \in P} = {i \in f..k : Push(i)}
      OBVIOUS
    <3>2. {i \in f..k : i \in Q} = {i \in f..k : Pop(i)}
      OBVIOUS
    <3> QED BY <3>1, <3>2 DEF Count
  <2> HIDE DEF P, Q
  <2>2. ASSUME NEW k \in Nat, a <= k
        PROVE  Count(Push, a + 1, k) - Count(Pop, a + 1, k) = Height(k) - Height(a)
               /\ Count(Push, a + 1, k) \in Int /\ Count(Pop, a + 1, k) \in Int
    <3> DEFINE N(S, f, l) == Cardinality({i \in f..l : i \in S})
    <3>1. \A S : N(S, a + 1, k) = N(S, 1, k) - N(S, 1, a)
      BY ONLY a \in Nat, k \in Nat, a <= k, PlacesBetween, Zenon
    <3>2. \A S : N(S, 1, k) \in Nat /\ N(S, 1, a) \in Nat
      BY PlacesCounted
    <3>3. 1 \in Nat /\ a + 1 \in Nat
      OBVIOUS
    <3>4. \A f, l \in Nat : Count(Push, f, l) = N(P, f, l) /\ Count(Pop, f, l) = N(Q, f, l)
      BY <2>1
    <3> HIDE DEF N
    <3> QED BY <3>1, <3>2, <3>3, <3>4 DEF Height
  <2>3. \A k \in (a + 1)..b : k \in Nat /\ a <= k
    OBVIOUS
  <2>4. \A k \in Nat : Height(k) \in Int
    BY Heights DEF HeightSteps
  <2> QED BY <2>2, <2>3, <2>4 DEF Balanced, EvenHeight
<1> QED BY <1>1, PTL

\* A Push and the Pop that takes it back.
Undoes(p, q) == Push(p) /\ Pop(q) /\ EvenHeight(p, q - 1)

UndoneLevels ==
  \A i, j \in Nat :
    Undone(j, i) <=> \E p \in 1..(j - 1), q \in (j + 1)..(i - 1) : Undoes(p, q)

\* A place is undone when a Push before it and a Pop behind it are of the same height.
LEMMA UndoneMeans == UndoneLevels /\ UndoneLevels'
<1>1. UndoneLevels
  <2> SUFFICES ASSUME NEW i \in Nat, NEW j \in Nat,
                      NEW p \in 1..(j - 1), NEW q \in (j + 1)..(i - 1)
               PROVE  Balanced(Push, Pop, p + 1, q - 1) <=> EvenHeight(p, q - 1)
    BY DEF UndoneLevels, Undone, Undoes
  <2>1. p \in Nat /\ q - 1 \in Nat /\ p <= q - 1
    OBVIOUS
  <2> QED BY <2>1, BalancedMeans DEF BalancedLevels
<1> QED BY <1>1, PTL

\* The places before item i that set a global value which is in force there.
Alive(tag, i) == {j \in 1..(i - 1) : Is(j, "Global", tag) /\ ~Undone(j, i)}

\* An item other than a Pop sets its own value or leaves every one in force.
PlainItems ==
  \A n \in Nat : \A tag :
    ~Pop(n + 1) =>
      InForce(tag, n + 2) =
        IF Is(n + 1, "Global", tag) THEN Some(Value(items[n + 1].item.data))
        ELSE InForce(tag, n + 1)

\* The values in force behind an item that restores nothing.
LEMMA AfterPlainItem == PlainItems /\ PlainItems'
<1>1. PlainItems
  <2> SUFFICES ASSUME NEW n \in Nat, NEW tag, ~Pop(n + 1)
               PROVE  InForce(tag, n + 2) =
                        IF Is(n + 1, "Global", tag) THEN Some(Value(items[n + 1].item.data))
                        ELSE InForce(tag, n + 1)
    BY DEF PlainItems
  <2>1. ASSUME NEW j \in 1..n PROVE Undone(j, n + 2) <=> Undone(j, n + 1)
    <3>1. \A q \in (j + 1)..(n + 1) : q = n + 1 \/ q \in (j + 1)..n
      OBVIOUS
    <3>2. \A q \in (j + 1)..n : q \in (j + 1)..(n + 1)
      OBVIOUS
    <3>3. \A p : ~Undoes(p, n + 1)
      BY DEF Undoes
    <3>4. j \in Nat /\ n + 1 \in Nat /\ n + 2 \in Nat /\ (n + 2) - 1 = n + 1 /\ (n + 1) - 1 = n
      OBVIOUS
    <3>5. /\ Undone(j, n + 2) <=> \E p \in 1..(j - 1), q \in (j + 1)..(n + 1) : Undoes(p, q)
          /\ Undone(j, n + 1) <=> \E p \in 1..(j - 1), q \in (j + 1)..n : Undoes(p, q)
      <4>1. \A i \in Nat : Undone(j, i) <=>
              \E p \in 1..(j - 1), q \in (j + 1)..(i - 1) : Undoes(p, q)
        BY <3>4, UndoneMeans DEF UndoneLevels
      <4> QED BY <3>4, <4>1
    <3> QED BY <3>1, <3>2, <3>3, <3>5
  <2>2. ~Undone(n + 1, n + 2)
    <3>1. n + 1 \in Nat /\ n + 2 \in Nat /\ \A q : q \notin ((n + 1) + 1)..((n + 2) - 1)
      OBVIOUS
    <3> QED BY <3>1, UndoneMeans DEF UndoneLevels
  <2>3. Alive(tag, n + 2) = Alive(tag, n + 1) \cup
          (IF Is(n + 1, "Global", tag) THEN {n + 1} ELSE {})
    <3>1. 1..((n + 2) - 1) = 1..n \cup {n + 1} /\ 1..((n + 1) - 1) = 1..n /\ n + 1 \notin 1..n
      OBVIOUS
    <3> QED BY <2>1, <2>2, <3>1 DEF Alive
  <2>4. CASE ~Is(n + 1, "Global", tag)
    BY <2>3, <2>4 DEF InForce, Alive
  <2>5. CASE Is(n + 1, "Global", tag)
    <3> DEFINE S == Alive(tag, n + 2)
    <3>1. n + 1 \in S /\ S \in SUBSET (1..(n + 1)) /\ n + 1 \in Nat
      BY <2>3, <2>5 DEF Alive
    <3> HIDE DEF S
    <3>2. Max(S) \in S /\ Max(S) >= n + 1
      BY <3>1, MaxIsMember
    <3>3. Max(S) = n + 1
      <4>1. Max(S) \in 1..(n + 1)
        BY <3>1, <3>2
      <4> QED BY <3>2, <4>1
    <3> QED BY <2>5, <3>1, <3>3 DEF InForce, Alive, S
  <2> QED BY <2>4, <2>5
<1> QED BY <1>1, PTL

\* The Push at p is the last one that is open after item n.
OpenAt(p, n) == /\ p \in 1..n /\ Push(p) /\ Height(p) = Height(n)
                /\ \A k \in p..n : Height(k) >= Height(p)

\* A Pop brings back what was in force at the last open Push.
PoppedItems ==
  \A n \in Nat : \A p, tag :
    OpenAt(p, n) /\ Pop(n + 1) /\ tag \notin {10, 11} => InForce(tag, n + 2) = InForce(tag, p)

\* The values in force behind a Pop.
LEMMA AfterPop == PoppedItems /\ PoppedItems'
<1>1. PoppedItems
  <2> SUFFICES ASSUME NEW n \in Nat, NEW p, NEW tag, OpenAt(p, n), Pop(n + 1),
                      tag \notin {10, 11}
               PROVE  InForce(tag, n + 2) = InForce(tag, p)
    BY DEF PoppedItems
  <2>1. /\ p \in 1..n /\ p \in Nat /\ p - 1 \in Nat /\ n + 2 \in Nat /\ (n + 2) - 1 = n + 1
        /\ Push(p) /\ Height(p) = Height(n)
    BY DEF OpenAt
  <2>2. Height(p) = Height(p - 1) + 1 /\ Height(p) \in Int /\ Height(p - 1) \in Int
    <3>1. (p - 1) + 1 = p
      BY <2>1
    <3>2. Height((p - 1) + 1) = Height(p - 1) + 1
      BY <2>1, <3>1, Heights DEF HeightSteps
    <3> QED BY <2>1, <3>1, <3>2, Heights DEF HeightSteps
  <2>3. \A i, j \in Nat : Undone(j, i) <=>
          \E b \in 1..(j - 1), q \in (j + 1)..(i - 1) : Undoes(b, q)
    BY UndoneMeans DEF UndoneLevels
  <2>4. ASSUME NEW j \in 1..n, p < j PROVE Undone(j, n + 2)
    <3>1. Undoes(p, n + 1)
      <4>1. EvenHeight(p, n)
        BY <2>1 DEF OpenAt, EvenHeight
      <4>2. (n + 1) - 1 = n
        OBVIOUS
      <4> QED BY <2>1, <4>1, <4>2 DEF Undoes
    <3>2. p \in 1..(j - 1) /\ n + 1 \in (j + 1)..((n + 2) - 1) /\ j \in Nat
      BY <2>1, <2>4
    <3> QED BY <2>1, <2>3, <3>1, <3>2
  <2>5. ASSUME NEW j \in 1..(p - 1) PROVE Undone(j, n + 2) <=> Undone(j, p)
    <3>0. j \in Nat /\ (Undone(j, n + 2) <=>
            \E b \in 1..(j - 1), q \in (j + 1)..((n + 2) - 1) : Undoes(b, q))
          /\ (Undone(j, p) <=> \E b \in 1..(j - 1), q \in (j + 1)..(p - 1) : Undoes(b, q))
      BY <2>1, <2>3
    <3>1. Undone(j, p) => Undone(j, n + 2)
      <4>1. \A q \in (j + 1)..(p - 1) : q \in (j + 1)..((n + 2) - 1)
        BY <2>1
      <4> QED BY <3>0, <4>1
    <3>2. ASSUME NEW b \in 1..(j - 1), NEW q \in (j + 1)..(n + 1), Undoes(b, q)
          PROVE  q \in (j + 1)..(p - 1)
      <4>1. /\ Pop(q) /\ Height(q - 1) = Height(b)
            /\ \A k \in (b + 1)..(q - 1) : Height(k) >= Height(b)
        BY <3>2 DEF Undoes, EvenHeight
      <4>2. q # p
        BY <2>1, <4>1 DEF Push, Pop, Is
      <4>3. ~(q > p)
        <5> SUFFICES ASSUME q > p PROVE FALSE
          OBVIOUS
        <5>1. Height(p - 1) >= Height(b)
          <6>1. p - 1 \in (b + 1)..(q - 1)
            BY <2>1
          <6> QED BY <4>1, <6>1
        <5>2. Height(b) \in Int /\ Height(q) \in Int /\ Height(q - 1) \in Int
              /\ Height(q) = Height(q - 1) - 1
          <6>1. b \in Nat /\ q \in Nat /\ q - 1 \in Nat /\ (q - 1) + 1 = q
            BY <2>1
          <6>2. ~Push(q)
            BY <4>1 DEF Push, Pop, Is
          <6>3. Height((q - 1) + 1) = Height(q - 1) - 1
            BY <4>1, <6>1, <6>2, Heights DEF HeightSteps
          <6> QED BY <6>1, <6>3, Heights DEF HeightSteps
        <5>3. CASE q = n + 1
          <6>1. q - 1 = n
            BY <5>3
          <6>2. Height(n) = Height(b)
            BY <4>1, <6>1
          <6>3. Height(b) = Height(p - 1) + 1
            BY <2>1, <2>2, <6>2
          <6> QED BY <2>2, <5>1, <6>3
        <5>4. CASE q # n + 1
          <6>1. q \in p..n
            BY <2>1, <5>4
          <6>2. Height(q) >= Height(p)
            BY <6>1 DEF OpenAt
          <6> QED BY <2>2, <4>1, <5>1, <5>2, <6>2
        <5> QED BY <5>3, <5>4
      <4> QED BY <2>1, <4>2, <4>3
    <3> QED BY <2>1, <3>0, <3>1, <3>2
  <2>6. Alive(tag, n + 2) = Alive(tag, p)
    <3>1. ~Is(n + 1, "Global", tag) /\ ~Is(p, "Global", tag)
      BY <2>1 DEF Push, Pop, Is
    <3>2. \A j \in 1..(n + 1) : j = n + 1 \/ j = p \/ (j \in 1..n /\ p < j) \/ j \in 1..(p - 1)
      BY <2>1
    <3>3. \A j \in 1..(p - 1) : j \in 1..(n + 1)
      BY <2>1
    <3> QED BY <2>1, <2>4, <2>5, <3>1, <3>2, <3>3 DEF Alive
  <2> QED BY <2>6 DEF InForce, Alive
<1> QED BY <1>1, PTL

-----------------------------------------------------------------------------
(* What the items declare, one item more at a time.                        *)

\* What item k adds to the bits of a report.
ShareOf(key, k) == IF k \in Fields /\ KeyOf(k) = key THEN WidthOf(k) ELSE 0

BitsSteps ==
  \A key : /\ DeclaredBits(key, 0) = 0
           /\ \A n \in Nat : DeclaredBits(key, n + 1) = DeclaredBits(key, n) + ShareOf(key, n + 1)

\* The bits of a key grow by the share of each further item.
LEMMA BitsAddUp == BitsSteps /\ BitsSteps'
<1>1. BitsSteps
  <2> SUFFICES ASSUME NEW key
               PROVE  /\ DeclaredBits(key, 0) = 0
                      /\ \A n \in Nat :
                           DeclaredBits(key, n + 1) = DeclaredBits(key, n) + ShareOf(key, n + 1)
    BY DEF BitsSteps
  <2> DEFINE Adds(f, m) ==
               f = [k \in 0..m |->
                      IF k = 0 THEN 0
                      ELSE f[k - 1] + (IF k \in Fields /\ KeyOf(k) = key THEN WidthOf(k) ELSE 0)]
             g(m) == [k \in 1..m |-> ShareOf(key, k)]
             sum(m) == CHOOSE f : Adds(f, m)
  <2>1. \A m \in Nat : DeclaredBits(key, m) = sum(m)[m]
    BY DEF DeclaredBits
  <2>2. ASSUME NEW m \in Nat, NEW f PROVE Adds(f, m) <=> Sums(f, m, g(m))
    <3>1. \A k \in 0..m : k # 0 => k \in 1..m
      OBVIOUS
    <3>2. \A k \in 1..m : g(m)[k] = IF k \in Fields /\ KeyOf(k) = key THEN WidthOf(k) ELSE 0
      BY DEF ShareOf
    <3> HIDE DEF g
    <3> QED BY <3>1, <3>2 DEF Sums
  <2>3. ASSUME NEW m \in Nat PROVE Sums(sum(m), m, g(m))
    <3> DEFINE shares == g(m)
    <3> HIDE DEF shares
    <3>1. \E f : Sums(f, m, shares)
      BY SumExists
    <3> HIDE DEF Adds
    <3>2. \E f : Adds(f, m)
      BY <2>2, <3>1 DEF shares
    <3>3. Adds(sum(m), m)
      BY <3>2
    <3> QED BY <2>2, <3>3
  <2> HIDE DEF sum
  <2>4. DeclaredBits(key, 0) = 0
    <3>1. sum(0)[0] = 0
      <4>1. Sums(sum(0), 0, g(0))
        BY <2>3
      <4> QED BY <4>1 DEF Sums
    <3> QED BY <2>1, <3>1
  <2>5. ASSUME NEW n \in Nat
        PROVE  DeclaredBits(key, n + 1) = DeclaredBits(key, n) + ShareOf(key, n + 1)
    <3>1. Sums(sum(n), n, g(n)) /\ Sums(sum(n + 1), n + 1, g(n + 1))
      BY <2>3
    <3>2. \A k \in 1..n : g(n)[k] = g(n + 1)[k]
      <4>1. \A k \in 1..n : k \in 1..(n + 1)
        OBVIOUS
      <4> QED BY <4>1
    <3>3. g(n + 1)[n + 1] = ShareOf(key, n + 1)
      OBVIOUS
    <3> HIDE DEF g
    <3>4. sum(n)[n] = sum(n + 1)[n]
      <4>1. n \in 0..(n + 1) /\ n \in 0..n /\ n + 1 \in Nat
        OBVIOUS
      <4>2. \A k \in 0..n : sum(n)[k] = sum(n + 1)[k]
        BY <3>1, <3>2, <4>1, SumUnique
      <4> QED BY <4>1, <4>2
    <3>5. sum(n + 1)[n + 1] = sum(n + 1)[n] + ShareOf(key, n + 1)
      <4>1. n + 1 \in 0..(n + 1) /\ n + 1 # 0 /\ (n + 1) - 1 = n
        OBVIOUS
      <4> QED BY <3>1, <3>3, <4>1 DEF Sums
    <3> QED BY <2>1, <3>4, <3>5
  <2> QED BY <2>4, <2>5
<1> QED BY <1>1, PTL

\* The usages since the last main item before item i.
OwnUsages(i) ==
  {j \in 1..(i - 1) : Is(j, "Local", 0) /\ \A k \in 1..(i - 1) : items[k].item.kind = "Main" => k < j}
Ranked(S, n) == {j \in S : Cardinality({k \in S : k <= j}) = n}
UsageAt(j) == Qualified(InForce(0, j), Value(items[j].item.data))

UsagesByRank ==
  \A i : UsagesOf(i) = [n \in 1..Cardinality(OwnUsages(i)) |-> UsageAt(Get(Ranked(OwnUsages(i), n)))]

\* The usages of a place are those since the last Main item, in the order of the items.
LEMMA UsagesMean == UsagesByRank /\ UsagesByRank'
<1>1. UsagesByRank
  <2> SUFFICES ASSUME NEW i
               PROVE  UsagesOf(i) = [n \in 1..Cardinality(OwnUsages(i)) |->
                                       UsageAt(Get(Ranked(OwnUsages(i), n)))]
    BY DEF UsagesByRank
  <2> DEFINE mains == {j \in 1..(i - 1) : items[j].item.kind = "Main"}
             own == {j \in 1..(i - 1) : Is(j, "Local", 0) /\ \A k \in mains : k < j}
  <2>1. own = OwnUsages(i)
    BY DEF OwnUsages
  <2>2. UsagesOf(i) = [n \in 1..Cardinality(own) |-> UsageAt(Get(Ranked(own, n)))]
    BY DEF UsagesOf, UsageAt, Ranked
  <2> QED BY <2>1, <2>2
<1> QED BY <1>1, PTL

UsageSteps ==
  /\ UsagesOf(1) = <<>>
  /\ \A n \in Nat :
       UsagesOf(n + 2) = IF items[n + 1].item.kind = "Main" THEN <<>>
                         ELSE IF Is(n + 1, "Local", 0) THEN Append(UsagesOf(n + 1), UsageAt(n + 1))
                         ELSE UsagesOf(n + 1)

\* A main item clears the usages, and a usage is added at their end.
LEMMA UsagesGrow == UsageSteps /\ UsageSteps'
<1>1. UsageSteps
  <2>1. \A i : UsagesOf(i) = [k \in 1..Cardinality(OwnUsages(i)) |-> UsageAt(Get(Ranked(OwnUsages(i), k)))]
    BY UsagesMean DEF UsagesByRank
  <2>2. ASSUME NEW i, OwnUsages(i) = {} PROVE UsagesOf(i) = <<>>
    <3>1. Cardinality(OwnUsages(i)) = 0 /\ 1..0 = {}
      BY <2>2, FS_EmptySet
    <3>2. UsagesOf(i) = [k \in {} |-> UsageAt(Get(Ranked(OwnUsages(i), k)))]
      BY <2>1, <3>1
    <3> QED BY <3>2
  <2>3. UsagesOf(1) = <<>>
    <3>1. 1..(1 - 1) = {}
      OBVIOUS
    <3> QED BY <2>2, <3>1 DEF OwnUsages
  <2>4. ASSUME NEW n \in Nat
        PROVE  UsagesOf(n + 2) = IF items[n + 1].item.kind = "Main" THEN <<>>
                         ELSE IF Is(n + 1, "Local", 0) THEN Append(UsagesOf(n + 1), UsageAt(n + 1))
                         ELSE UsagesOf(n + 1)
    <3> DEFINE own == OwnUsages(n + 1)
               more == OwnUsages(n + 2)
    <3>1. 1..((n + 2) - 1) = 1..n \cup {n + 1} /\ 1..((n + 1) - 1) = 1..n
          /\ n + 1 \notin 1..n /\ \A k \in 1..n : k < n + 1
      OBVIOUS
    <3>2. CASE items[n + 1].item.kind = "Main"
      <4>1. \A j \in 1..n \cup {n + 1} : ~(n + 1 < j)
        BY <3>1
      <4>2. more = {}
        BY <3>1, <3>2, <4>1 DEF OwnUsages
      <4> QED BY <2>2, <3>2, <4>2
    <3>3. CASE items[n + 1].item.kind # "Main" /\ ~Is(n + 1, "Local", 0)
      <4>1. more = own
        BY <3>1, <3>3 DEF OwnUsages
      <4> HIDE DEF more, own
      <4>2. UsagesOf(n + 2) = UsagesOf(n + 1)
        BY <2>1, <4>1 DEF more, own
      <4> QED BY <3>3, <4>2
    <3>4. CASE Is(n + 1, "Local", 0)
      <4>1. more = own \cup {n + 1} /\ n + 1 \notin own /\ own \in SUBSET (1..n)
        BY <3>1, <3>4 DEF OwnUsages, Is
      <4>2. IsFiniteSet(own) /\ Cardinality(own) \in Nat /\ Cardinality(more) = Cardinality(own) + 1
        <5>1. IsFiniteSet(1..n)
          BY FS_Interval
        <5>2. IsFiniteSet(own)
          BY <4>1, <5>1, FS_Subset
        <5> HIDE DEF own
        <5> QED BY <4>1, <5>2, FS_CardinalityType, FS_AddElement
      <4> DEFINE c == Cardinality(own)
      <4> HIDE DEF own, more
      <4>15. {i \in more : i <= n + 1} = more
        <5>1. \A i \in more : i <= n + 1
          BY <4>1
        <5> QED BY <5>1
      <4>3. ASSUME NEW k \in 1..c PROVE Ranked(more, k) = Ranked(own, k)
        <5>1. ASSUME NEW j \in own PROVE {i \in more : i <= j} = {i \in own : i <= j}
          BY <4>1
        <5>2. Cardinality(more) # k
          BY <4>2 DEF c
        <5>3. n + 1 \notin Ranked(more, k)
          BY <4>15, <5>2 DEF Ranked
        <5> QED BY <4>1, <5>1, <5>3 DEF Ranked
      <4>4. Ranked(more, c + 1) = {n + 1}
        <5>1. ASSUME NEW j \in own PROVE Cardinality({i \in more : i <= j}) # c + 1
          <6> DEFINE low == {i \in own : i <= j}
          <6>1. {i \in more : i <= j} = low
            BY <4>1
          <6>2. low \in SUBSET own
            OBVIOUS
          <6> HIDE DEF low
          <6>3. Cardinality(low) <= Cardinality(own) /\ Cardinality(low) \in Nat
            BY <4>2, <6>2, FS_Subset, FS_CardinalityType
          <6>4. Cardinality(low) # c + 1
            BY <4>2, <6>3 DEF c
          <6> QED BY <6>1, <6>4
        <5>2. Cardinality(more) = c + 1
          BY <4>2 DEF c
        <5>3. \A j \in own : j \notin Ranked(more, c + 1)
          BY <5>1 DEF Ranked
        <5>4. n + 1 \in Ranked(more, c + 1) /\ Ranked(more, c + 1) \in SUBSET more
          BY <4>1, <4>15, <5>2 DEF Ranked
        <5> QED BY <4>1, <5>3, <5>4
      <4> DEFINE s == UsagesOf(n + 1)
                 t == UsagesOf(n + 2)
                 x == UsageAt(n + 1)
                 C == {s[k] : k \in 1..c} \cup {x}
      <4>5. c \in Nat
        BY <4>2 DEF c
      <4>6. s = [k \in 1..c |-> UsageAt(Get(Ranked(own, k)))]
        BY <2>1 DEF own, c
      <4>7. t = [k \in 1..(c + 1) |-> UsageAt(Get(Ranked(more, k)))]
        BY <2>1, <4>2 DEF more, c
      <4>8. \A k \in 1..c : t[k] = s[k]
        <5>1. \A k \in 1..c : k \in 1..(c + 1)
          BY <4>5
        <5> HIDE DEF s, t
        <5> QED BY <4>3, <4>6, <4>7, <5>1
      <4>9. t[c + 1] = x
        <5>1. c + 1 \in 1..(c + 1)
          BY <4>5
        <5>2. Get({n + 1}) = n + 1
          BY DEF Get
        <5> HIDE DEF t
        <5> QED BY <4>4, <4>7, <5>1, <5>2
      <4> HIDE DEF c
      <4>10. s \in Seq(C) /\ Len(s) = c
        <5>1. s = [k \in 1..c |-> s[k]]
          BY <4>6
        <5> HIDE DEF s, x
        <5> QED BY <4>5, <5>1
      <4>11. t \in Seq(C) /\ Len(t) = c + 1
        <5>1. t = [k \in 1..(c + 1) |-> t[k]]
          BY <4>7
        <5>2. \A k \in 1..(c + 1) : t[k] \in C
          <6>1. \A k \in 1..(c + 1) : k = c + 1 \/ k \in 1..c
            BY <4>5
          <6> HIDE DEF s, t, x
          <6> QED BY <4>8, <4>9, <6>1
        <5> HIDE DEF s, t, x, C
        <5>3. t \in [1..(c + 1) -> C] /\ c + 1 \in Nat
          BY <4>5, <5>1, <5>2
        <5> QED BY <5>3
      <4>12. x \in C
        OBVIOUS
      <4> HIDE DEF s, t, x, C
      <4>13. t = Append(s, x)
        <5>1. Longer(Append(s, x), s, x, C)
          BY <4>10, <4>12, Appended
        <5> DEFINE u == Append(s, x)
        <5>2. u \in Seq(C) /\ Len(u) = c + 1 /\ u[c + 1] = x /\ \A k \in 1..c : u[k] = s[k]
          BY <4>10, <5>1 DEF Longer
        <5> HIDE DEF u
        <5>3. \A k \in 1..(c + 1) : u[k] = t[k]
          <6>1. \A k \in 1..(c + 1) : k = c + 1 \/ k \in 1..c
            BY <4>5
          <6> QED BY <4>8, <4>9, <5>2, <6>1
        <5>4. u = t
          BY <4>11, <5>2, <5>3, SeqEqual
        <5> QED BY <5>4 DEF u
      <4>14. items[n + 1].item.kind # "Main"
        BY <3>4 DEF Is
      <4> QED BY <3>4, <4>13, <4>14 DEF s, t, x
    <3> QED BY <3>2, <3>3, <3>4
  <2> QED BY <2>3, <2>4 DEF UsageSteps
<1> QED BY <1>1, PTL

-----------------------------------------------------------------------------
(* A step that keeps the first n items keeps what they say.                *)

SameItems(n) ==
  /\ n \in Nat /\ DOMAIN items \in SUBSET (Nat \ {0}) /\ DOMAIN items' \in SUBSET (Nat \ {0})
  /\ \A j \in 1..n : j \in DOMAIN items /\ j \in DOMAIN items' /\ items'[j] = items[j]

\* The kinds and tags of the first n items, and the brackets among them.
KeptItems(n) ==
  /\ \A j \in 1..n : \A kind, tag : Is(j, kind, tag)' <=> Is(j, kind, tag)
  /\ \A k \in 0..n : Height(k)' = Height(k)

\* An item that stays is of the kind it was, and so are the counts up to it.
LEMMA ItemsKept ==
  ASSUME NEW n, SameItems(n)
  PROVE  KeptItems(n)
<1>1. ASSUME NEW j \in 1..n, NEW kind, NEW tag PROVE Is(j, kind, tag)' <=> Is(j, kind, tag)
  BY DEF SameItems, Is
<1>2. ASSUME NEW k \in 0..n PROVE Height(k)' = Height(k)
  <2>1. \A i \in 1..k : i \in 1..n
    BY DEF SameItems
  <2>2. \A i \in 1..k : (Push(i)' <=> Push(i)) /\ (Pop(i)' <=> Pop(i))
    BY <1>1, <2>1 DEF Push, Pop
  <2>3. {i \in 1..k : Push(i)'} = {i \in 1..k : Push(i)}
        /\ {i \in 1..k : Pop(i)'} = {i \in 1..k : Pop(i)}
    BY <2>2
  <2> QED BY <2>3 DEF Height, Count
<1> QED BY <1>1, <1>2 DEF KeptItems

KeptGlobals(n) == \A tag : \A i \in 1..(n + 1) : InForce(tag, i)' = InForce(tag, i)

\* What was in force at an item that stays is in force there still.
LEMMA GlobalsKept ==
  ASSUME NEW n, SameItems(n)
  PROVE  KeptGlobals(n)
<1>1. n \in Nat /\ KeptItems(n)
  BY ItemsKept DEF SameItems
<1>2. ASSUME NEW p \in 1..n, NEW q \in 1..n, p < q PROVE Undoes(p, q)' <=> Undoes(p, q)
  <2>1. \A k \in (p + 1)..(q - 1) : k \in 0..n
    BY <1>1
  <2>2. p \in 0..n /\ q - 1 \in 0..n
    BY <1>1, <1>2
  <2>3. EvenHeight(p, q - 1)' <=> EvenHeight(p, q - 1)
    BY <1>1, <2>1, <2>2 DEF EvenHeight, KeptItems
  <2>4. (Push(p)' <=> Push(p)) /\ (Pop(q)' <=> Pop(q))
    BY <1>1 DEF KeptItems, Push, Pop
  <2> QED BY <2>3, <2>4 DEF Undoes
<1>3. ASSUME NEW i \in 1..(n + 1), NEW j \in 1..(i - 1) PROVE Undone(j, i)' <=> Undone(j, i)
  <2>1. i \in Nat /\ j \in Nat
    BY <1>1
  <2>2. \A p \in 1..(j - 1), q \in (j + 1)..(i - 1) : p \in 1..n /\ q \in 1..n /\ p < q
    BY <1>1, <2>1
  <2>3. Undone(j, i) <=> \E p \in 1..(j - 1), q \in (j + 1)..(i - 1) : Undoes(p, q)
    BY <2>1, UndoneMeans DEF UndoneLevels
  <2>4. Undone(j, i)' <=> \E p \in 1..(j - 1), q \in (j + 1)..(i - 1) : Undoes(p, q)'
    BY <2>1, UndoneMeans DEF UndoneLevels
  <2> QED BY <1>2, <2>2, <2>3, <2>4
<1>4. ASSUME NEW tag, NEW i \in 1..(n + 1) PROVE InForce(tag, i)' = InForce(tag, i)
  <2>1. \A j \in 1..(i - 1) : j \in 1..n
    BY <1>1
  <2>2. \A j \in 1..(i - 1) : Is(j, "Global", tag)' <=> Is(j, "Global", tag)
    BY <1>1, <2>1 DEF KeptItems
  <2>3. Alive(tag, i)' = Alive(tag, i)
    BY <1>3, <2>2 DEF Alive
  <2>4. CASE Alive(tag, i) = {}
    BY <2>3, <2>4 DEF InForce, Alive
  <2>5. CASE Alive(tag, i) # {}
    <3> DEFINE S == Alive(tag, i)
               m == i - 1
    <3>1. S \in SUBSET (1..m) /\ m \in Nat
      BY <1>1 DEF Alive
    <3> HIDE DEF S, m
    <3>2. Max(S) \in S
      BY <2>5, <3>1, MaxIsMember DEF S
    <3>3. items'[Max(S)] = items[Max(S)]
      BY <2>1, <3>1, <3>2 DEF SameItems, m
    <3> QED BY <2>3, <2>5, <3>3 DEF InForce, Alive, S
  <2> QED BY <2>4, <2>5
<1> QED BY <1>4 DEF KeptGlobals

\* The report id in force at item i, and the report a main item declares a field of.
IdAt(i) == IF InForce(8, i) = None THEN 0 ELSE Get(InForce(8, i))
KeysByTag ==
  \A i : \A type \in ReportTypes :
    Is(i, "Main", MainTag[type]) => KeyOf(i) = <<type, IdAt(i)>>

\* The key of a field is its report type and the id in force.
LEMMA KeysMean == KeysByTag /\ KeysByTag'
<1>1. KeysByTag
  <2> SUFFICES ASSUME NEW i, NEW type \in ReportTypes, Is(i, "Main", MainTag[type])
               PROVE  KeyOf(i) = <<type, IdAt(i)>>
    BY DEF KeysByTag
  <2> DEFINE T == CHOOSE t \in ReportTypes : Is(i, "Main", MainTag[t])
  <2>1. T \in ReportTypes /\ Is(i, "Main", MainTag[T])
    OBVIOUS
  <2> HIDE DEF T
  <2>2. T = type
    BY <2>1 DEF Is, ReportTypes, MainTag
  <2> QED BY <2>2 DEF KeyOf, IdAt, T
<1> QED BY <1>1, PTL

\* The fields, with their reports, their widths and their usages.
KeptFields(n) ==
  /\ \A i \in 1..n : i \in Fields' <=> i \in Fields
  /\ \A i \in 1..n : i \in Fields => KeyOf(i)' = KeyOf(i)
  /\ \A i \in 1..n : WidthOf(i)' = WidthOf(i)
  /\ \A i \in 1..n : i \in Fields => Before(i)' = Before(i)
  /\ \A key : \A m \in 0..n : DeclaredBits(key, m)' = DeclaredBits(key, m)
  /\ \A i \in 1..(n + 1) : UsagesOf(i)' = UsagesOf(i)

\* The fields among the items that stay are those they were, with what they declare.
LEMMA FieldsKept ==
  ASSUME NEW n, SameItems(n)
  PROVE  KeptFields(n)
<1>1. n \in Nat /\ KeptItems(n) /\ KeptGlobals(n)
  BY ItemsKept, GlobalsKept DEF SameItems
<1>2. \A i \in 1..n : \A type : Is(i, "Main", MainTag[type])' <=> Is(i, "Main", MainTag[type])
  BY <1>1 DEF KeptItems
<1>3. \A i \in 1..n : i \in Fields' <=> i \in Fields
  <2>1. \A i \in 1..n : i \in DOMAIN items /\ i \in DOMAIN items'
    BY DEF SameItems
  <2> QED BY <1>2, <2>1 DEF Fields
<1>4. \A i \in 1..n : i \in 1..(n + 1)
  BY <1>1
<1>5. ASSUME NEW i \in 1..n, i \in Fields PROVE KeyOf(i)' = KeyOf(i)
  <2>1. PICK type \in ReportTypes : Is(i, "Main", MainTag[type])
    BY <1>5 DEF Fields
  <2>2. Is(i, "Main", MainTag[type])'
    BY <1>2, <2>1
  <2>3. KeyOf(i) = <<type, IdAt(i)>> /\ KeyOf(i)' = <<type, IdAt(i)'>>
    <3>1. KeyOf(i) = <<type, IdAt(i)>>
      BY <2>1, KeysMean DEF KeysByTag
    <3>2. KeyOf(i)' = <<type, IdAt(i)'>>
      <4>1. \A t \in ReportTypes' : Is(i, "Main", MainTag[t])' => KeyOf(i)' = <<t, IdAt(i)'>>
        BY KeysMean DEF KeysByTag
      <4>2. type \in ReportTypes'
        BY <2>1 DEF ReportTypes, MainTag
      <4> QED BY <2>2, <4>1, <4>2
    <3> QED BY <3>1, <3>2
  <2>4. IdAt(i)' = IdAt(i)
    BY <1>1, <1>4 DEF KeptGlobals, IdAt
  <2> QED BY <2>3, <2>4
<1>6. \A i \in 1..n : WidthOf(i)' = WidthOf(i)
  BY <1>1, <1>4 DEF KeptGlobals, WidthOf
<1>7. ASSUME NEW i \in 1..n, i \in Fields PROVE Before(i)' = Before(i)
  <2>1. (\A j \in Fields : j \in Nat \ {0}) /\ (\A j \in Fields' : j \in Nat \ {0})
    BY DEF Fields, SameItems
  <2>2. (\A j \in Fields : j < i => j \in 1..n) /\ (\A j \in Fields' : j < i => j \in 1..n)
    BY <1>1, <2>1
  <2> QED BY <1>3, <1>5, <1>7, <2>2 DEF Before
<1>8. ASSUME NEW key PROVE \A m \in 0..n : DeclaredBits(key, m)' = DeclaredBits(key, m)
  <2> DEFINE S == {m \in 0..n : DeclaredBits(key, m)' = DeclaredBits(key, m)}
  <2>1. 0 \in S
    BY <1>1, BitsAddUp DEF BitsSteps
  <2>2. ASSUME NEW m \in 1..n, m - 1 \in S PROVE m \in S
    <3>1. m - 1 \in Nat /\ (m - 1) + 1 = m /\ m \in 0..n
      BY <1>1
    <3>2. ShareOf(key, m)' = ShareOf(key, m)
      BY <1>3, <1>5, <1>6 DEF ShareOf
    <3>3. DeclaredBits(key, (m - 1) + 1) = DeclaredBits(key, m - 1) + ShareOf(key, (m - 1) + 1)
      BY <3>1, BitsAddUp DEF BitsSteps
    <3>4. DeclaredBits(key, (m - 1) + 1)' = DeclaredBits(key, m - 1)' + ShareOf(key, (m - 1) + 1)'
      BY <3>1, BitsAddUp DEF BitsSteps
    <3> QED BY <2>2, <3>1, <3>2, <3>3, <3>4
  <2> HIDE DEF S
  <2>3. \A m \in 0..n : m \in S
    BY <1>1, <2>1, <2>2, BoundedInduction
  <2> QED BY <2>3 DEF S
<1>9. \A i \in 1..(n + 1) : UsagesOf(i)' = UsagesOf(i)
  <2> DEFINE S == {m \in 0..n : UsagesOf(m + 1)' = UsagesOf(m + 1)}
  <2>1. 0 \in S
    <3>1. UsagesOf(1)' = UsagesOf(1) /\ 0 + 1 = 1
      BY UsagesGrow DEF UsageSteps
    <3> QED BY <1>1, <3>1
  <2>2. ASSUME NEW m \in 1..n, m - 1 \in S PROVE m \in S
    <3>1. m - 1 \in Nat /\ (m - 1) + 1 = m /\ (m - 1) + 2 = m + 1 /\ m \in 0..n
      BY <1>1
    <3>2. UsageAt(m)' = UsageAt(m) /\ (Is(m, "Local", 0)' <=> Is(m, "Local", 0))
          /\ items'[m] = items[m]
      BY <1>1, <1>4 DEF KeptGlobals, KeptItems, UsageAt, SameItems
    <3>3. UsagesOf((m - 1) + 2) = IF items[(m - 1) + 1].item.kind = "Main" THEN <<>>
                         ELSE IF Is((m - 1) + 1, "Local", 0) THEN Append(UsagesOf((m - 1) + 1), UsageAt((m - 1) + 1))
                         ELSE UsagesOf((m - 1) + 1)
      BY <3>1, UsagesGrow DEF UsageSteps
    <3>4. UsagesOf((m - 1) + 2)' = IF items'[(m - 1) + 1].item.kind = "Main" THEN <<>>
                         ELSE IF Is((m - 1) + 1, "Local", 0)' THEN Append(UsagesOf((m - 1) + 1)', UsageAt((m - 1) + 1)')
                         ELSE UsagesOf((m - 1) + 1)'
      BY <3>1, UsagesGrow DEF UsageSteps
    <3> QED BY <2>2, <3>1, <3>2, <3>3, <3>4
  <2> HIDE DEF S
  <2>3. \A m \in 0..n : m \in S
    BY <1>1, <2>1, <2>2, BoundedInduction
  <2>4. ASSUME NEW i \in 1..(n + 1) PROVE UsagesOf(i)' = UsagesOf(i)
    <3>1. i - 1 \in 0..n /\ (i - 1) + 1 = i
      BY <1>1
    <3>2. i - 1 \in S
      BY <2>3, <3>1
    <3> QED BY <3>1, <3>2 DEF S
  <2> QED BY <2>4
<1> QED BY <1>3, <1>5, <1>6, <1>7, <1>8, <1>9 DEF KeptFields

-----------------------------------------------------------------------------
(* The numbers in the items.                                               *)

\* A Writable item that is not long has its data in bytes.
LEMMA ShortData ==
  ASSUME NEW item \in Writable, item.kind # "Long"
  PROVE  item.data \in Seq(0..MaxByte)
BY DEF Writable

Digits(data) ==
  [i \in 1..Len(data) |-> [v \in Nat |-> data[Len(data) + 1 - i] + Base * v]]

\* The value of data bytes is a number.
LEMMA ValueIsNumber ==
  ASSUME NEW data \in Seq(0..MaxByte)
  PROVE  Value(data) \in Nat
<1> DEFINE n == Len(data)
           value == CHOOSE f : f = [k \in 0..n |->
                      IF k = 0 THEN 0 ELSE data[Len(data) + 1 - k] + Base * f[k - 1]]
<1>1. Value(data) = value[n]
  BY DEF Value
<1>2. n \in Nat /\ 0 \in Nat /\ Base \in Nat
  BY BaseAssumption
<1>3. ASSUME NEW k \in 1..n, NEW v \in Nat
      PROVE  Digits(data)[k][v] = data[Len(data) + 1 - k] + Base * v
  BY DEF Digits
<1>4. StepsIn(Digits(data), n, Nat)
  <2>1. ASSUME NEW k \in 1..n PROVE Digits(data)[k] \in [Nat -> Nat]
    <3>1. data[Len(data) + 1 - k] \in Nat
      <4>1. Len(data) + 1 - k \in 1..Len(data) /\ MaxByte \in Int
        BY <1>2 DEF MaxByte
      <4> QED BY <4>1
    <3>2. ASSUME NEW v \in Nat PROVE data[Len(data) + 1 - k] + Base * v \in Nat
      <4>1. Base * v \in Nat
        BY <1>2
      <4> QED BY <3>1, <4>1
    <3> QED BY <3>2 DEF Digits
  <2> QED BY <2>1 DEF StepsIn
<1>5. PICK f : Along(f, n, 0, Digits(data))
  <2> HIDE DEF n
  <2> QED BY <1>2, <1>4, AlongExists
<1>6. \A k \in 0..n : f[k] \in Nat
  <2>1. n \in 0..n
    BY <1>2
  <2> HIDE DEF n
  <2> QED BY <1>2, <1>4, <1>5, <2>1, AlongUnique
<1>7. f = [k \in 0..n |-> IF k = 0 THEN 0 ELSE data[Len(data) + 1 - k] + Base * f[k - 1]]
  <2>1. ASSUME NEW k \in 0..n
        PROVE  f[k] = IF k = 0 THEN 0 ELSE data[Len(data) + 1 - k] + Base * f[k - 1]
    <3>1. CASE k = 0
      BY <1>5, <3>1 DEF Along
    <3>2. CASE k # 0
      <4>1. k \in 1..n /\ k - 1 \in 0..n
        BY <1>2, <3>2
      <4>2. f[k] = Digits(data)[k][f[k - 1]]
        BY <1>5, <3>2 DEF Along
      <4> QED BY <1>3, <1>6, <3>2, <4>1, <4>2
    <3> QED BY <3>1, <3>2
  <2>2. f = [k \in 0..n |-> f[k]]
    BY <1>5 DEF Along
  <2> HIDE DEF n
  <2> QED BY <2>1, <2>2
<1>8. value = [k \in 0..n |-> IF k = 0 THEN 0 ELSE data[Len(data) + 1 - k] + Base * value[k - 1]]
  BY <1>7
<1> HIDE DEF value
<1>9. \A k \in 0..n : value[k] \in Nat
  <2> DEFINE S == {k \in 0..n : value[k] \in Nat}
  <2>1. 0 \in S
    BY <1>2, <1>8
  <2>2. ASSUME NEW k \in 1..n, k - 1 \in S PROVE k \in S
    <3>1. k \in 0..n /\ k # 0
      BY <1>2
    <3>2. value[k] = data[Len(data) + 1 - k] + Base * value[k - 1]
      BY <1>8, <3>1
    <3>3. value[k] = Digits(data)[k][value[k - 1]]
      BY <1>3, <2>2, <3>2
    <3> QED BY <1>4, <2>2, <3>1, <3>3 DEF StepsIn
  <2> HIDE DEF S
  <2>3. \A k \in 0..n : k \in S
    BY <1>2, <2>1, <2>2, BoundedInduction
  <2> QED BY <2>3 DEF S
<1> QED BY <1>1, <1>2, <1>9

Entries == [offset : Nat, item : Writable]
ItemsTyped == items \in Seq(Entries)

NumbersInForce ==
  ItemsTyped =>
    \A tag : \A i \in 1..(Len(items) + 1) :
      InForce(tag, i) = None \/ \E v \in Nat : InForce(tag, i) = Some(v)

\* A global value that is in force is a number.
LEMMA InForceIsNumber == NumbersInForce /\ NumbersInForce'
<1>1. NumbersInForce
  <2> SUFFICES ASSUME ItemsTyped, NEW tag, NEW i \in 1..(Len(items) + 1), InForce(tag, i) # None
               PROVE  \E v \in Nat : InForce(tag, i) = Some(v)
    BY DEF NumbersInForce
  <2> DEFINE S == Alive(tag, i)
             m == i - 1
  <2>1. S # {} /\ InForce(tag, i) = Some(Value(items[Max(S)].item.data))
    BY DEF InForce, Alive
  <2>2. S \in SUBSET (1..m) /\ m \in Nat /\ \A j \in S : Is(j, "Global", tag)
    BY DEF Alive, ItemsTyped
  <2>3. \A j \in 1..m : j \in 1..Len(items)
    BY DEF ItemsTyped
  <2> HIDE DEF S, m
  <2>4. Max(S) \in S
    BY <2>1, <2>2, MaxIsMember
  <2> DEFINE item == items[Max(S)].item
  <2>5. item \in Writable /\ item.kind = "Global"
    <3> DEFINE e == items[Max(S)]
    <3>1. e \in Entries
      <4>1. Max(S) \in 1..Len(items)
        BY <2>2, <2>3, <2>4
      <4> QED BY <4>1 DEF ItemsTyped
    <3>2. e.item.kind = "Global"
      BY <2>2, <2>4 DEF Is
    <3> HIDE DEF e
    <3>3. e.item \in Writable
      BY <3>1 DEF Entries
    <3> QED BY <3>2, <3>3 DEF e
  <2> HIDE DEF item
  <2>6. Value(item.data) \in Nat
    BY <2>5, ShortData, ValueIsNumber
  <2> QED BY <2>1, <2>6 DEF item
<1> QED BY <1>1, PTL

-----------------------------------------------------------------------------
(* The invariant of the pass: each part of the parser's state is what the  *)
(* first n items make it.                                                  *)

\* How many collections are open after item k.
Nesting(k) == Count(Opens, 1, k) - Count(Ends, 1, k)

NestingSteps ==
  /\ Nesting(0) = 0
  /\ \A k \in Nat : Nesting(k) \in Int
  /\ \A k \in Nat : Nesting(k + 1) = Nesting(k) + (IF Opens(k + 1) THEN 1
                                                   ELSE IF Ends(k + 1) THEN -1 ELSE 0)

\* The depth of the collections goes up and down by one.
LEMMA Nestings == NestingSteps /\ NestingSteps'
<1> DEFINE P == {i \in Nat : Opens(i)}
           Q == {i \in Nat : Ends(i)}
           Up(k) == Cardinality({i \in 1..k : i \in P})
           Down(k) == Cardinality({i \in 1..k : i \in Q})
<1>1. ASSUME NEW k \in Nat PROVE Nesting(k) = Up(k) - Down(k)
  <2>1. {i \in 1..k : i \in P} = {i \in 1..k : Opens(i)}
    OBVIOUS
  <2>2. {i \in 1..k : i \in Q} = {i \in 1..k : Ends(i)}
    OBVIOUS
  <2> QED BY <2>1, <2>2 DEF Nesting, Count
<1>2. \A i \in Nat : ~(Opens(i) /\ Ends(i))
  BY DEF Opens, Ends, Is
<1>3. ASSUME NEW k \in Nat
      PROVE  /\ Up(k) \in Nat /\ Down(k) \in Nat /\ Up(0) = 0 /\ Down(0) = 0
             /\ Up(k + 1) = Up(k) + (IF Opens(k + 1) THEN 1 ELSE 0)
             /\ Down(k + 1) = Down(k) + (IF Ends(k + 1) THEN 1 ELSE 0)
  <2>1. (k + 1 \in P <=> Opens(k + 1)) /\ (k + 1 \in Q <=> Ends(k + 1))
    OBVIOUS
  <2> HIDE DEF P, Q
  <2> QED BY <2>1, PlacesCounted
<1> HIDE DEF Up, Down
<1>4. NestingSteps
  BY <1>1, <1>2, <1>3 DEF NestingSteps
<1> QED BY <1>4, PTL

\* The counts themselves are numbers.
CountsAreNumbers ==
  \A k \in Nat : /\ Count(Push, 1, k) \in Nat /\ Count(Pop, 1, k) \in Nat
                 /\ Count(Opens, 1, k) \in Nat /\ Count(Ends, 1, k) \in Nat

\* What the verdict counts are numbers.
LEMMA Counts == CountsAreNumbers /\ CountsAreNumbers'
<1>1. CountsAreNumbers
  <2> SUFFICES ASSUME NEW k \in Nat
               PROVE  /\ Count(Push, 1, k) \in Nat /\ Count(Pop, 1, k) \in Nat
                      /\ Count(Opens, 1, k) \in Nat /\ Count(Ends, 1, k) \in Nat
    BY DEF CountsAreNumbers
  <2>1. \A S : Cardinality({i \in 1..k : i \in S}) \in Nat
    BY PlacesCounted
  <2>2. ASSUME NEW S \in SUBSET (1..k) PROVE Cardinality(S) \in Nat
    <3>1. {i \in 1..k : i \in S} = S
      OBVIOUS
    <3> QED BY <2>1, <3>1
  <2> QED BY <2>2 DEF Count
<1> QED BY <1>1, PTL

\* The rules at item i.
LegalItem(i) ==
  /\ Height(i) >= 0
  /\ Nesting(i) \in 0..MaxDepth
  /\ Is(i, "Global", 8) => Value(items[i].item.data) \in 1..MaxByte
  /\ i \in Fields => /\ InForce(7, i) # None /\ InForce(9, i) # None
                     /\ OffsetOf(i) + WidthOf(i) <= MaxWord
LegalByItem ==
  ItemsTyped => (Legal <=> \A i \in 1..Len(items) : LegalItem(i))

\* A descriptor is legal when each item is where it may be.
LEMMA LegalMeans == LegalByItem /\ LegalByItem'
<1>1. LegalByItem
  <2> SUFFICES ASSUME ItemsTyped PROVE Legal <=> \A i \in 1..Len(items) : LegalItem(i)
    BY DEF LegalByItem
  <2>1. DOMAIN items = 1..Len(items) /\ Len(items) \in Nat
    BY DEF ItemsTyped
  <2>2. \A i \in 1..Len(items) : i \in Nat
    BY <2>1
  <2>3. ASSUME NEW i \in 1..Len(items) PROVE Count(Push, 1, i) >= Count(Pop, 1, i) <=> Height(i) >= 0
    <3>1. Count(Push, 1, i) \in Nat /\ Count(Pop, 1, i) \in Nat
      BY <2>2, Counts DEF CountsAreNumbers
    <3> DEFINE a == Count(Push, 1, i)
               b == Count(Pop, 1, i)
    <3> HIDE DEF a, b
    <3>2. a \in Nat /\ b \in Nat => (a >= b <=> a - b >= 0)
      OBVIOUS
    <3> QED BY <3>1, <3>2 DEF a, b, Height
  <2>4. \A i \in Fields : i \in 1..Len(items)
    BY <2>1 DEF Fields
  <2> QED BY <2>1, <2>3, <2>4 DEF Legal, LegalItem, Nesting
<1> QED BY <1>1, PTL

GlobalAt(i) ==
  [page |-> InForce(0, i), size |-> InForce(7, i), count |-> InForce(9, i), id |-> IdAt(i)]

\* A sequence of whatever elements.
IsSequence(s) == Len(s) \in Nat /\ s = [k \in 1..Len(s) |-> s[k]]

\* Every saved state is the one at its Push: that of its height since which the
\* items stayed inside.
OpensLevel(p, l, n) ==
  p \in 1..n /\ Push(p) /\ Height(p) = l /\ \A k \in p..n : Height(k) >= l
StackStands(n) ==
  /\ IsSequence(stack) /\ Len(stack) = Height(n)
  /\ \A l \in 1..Len(stack) : \E p : OpensLevel(p, l, n) /\ stack[l] = GlobalAt(p)

FieldsOf(key) == {j \in Fields : KeyOf(j) = key}
Rank(i) == Cardinality(Before(i)) + 1
Held(i) == LayoutOf(KeyOf(i)).fields[Rank(i)]
Described(i) ==
  /\ Rank(i) \in 1..Len(LayoutOf(KeyOf(i)).fields)
  /\ Held(i).offset = OffsetOf(i)
  /\ Some(Held(i).size) = InForce(7, i) /\ Some(Held(i).count) = InForce(9, i)
  /\ Held(i).usages = UsagesOf(i)
LayoutsStand(n) ==
  /\ DOMAIN layouts = {KeyOf(i) : i \in Fields}
  /\ \A key : /\ LayoutOf(key).bits = DeclaredBits(key, n) /\ DeclaredBits(key, n) \in Nat
              /\ IsSequence(LayoutOf(key).fields)
              /\ Len(LayoutOf(key).fields) = Cardinality(FieldsOf(key))
  /\ \A i \in Fields : Described(i)

Stands(n) ==
  /\ \A i \in 1..n : LegalItem(i)
  /\ global = GlobalAt(n + 1)
  /\ StackStands(n)
  /\ depth = Nesting(n)
  /\ usages = UsagesOf(n + 1)
  /\ LayoutsStand(n)

Unclosed == {"UnclosedGlobalPush", "UnclosedCollection"}
Clean == {"open", "accepted", "Truncated"} \cup Unclosed
PassInv ==
  /\ ItemsTyped
  /\ \A n : n = Len(items) /\ status \in Clean => Stands(n)
  /\ status \notin Clean => ~Legal
  /\ status = "accepted" => Closed
  /\ status \in Unclosed => ~Closed

-----------------------------------------------------------------------------
(* Sequences that grow and shrink by one.                                  *)

\* A sequence is one over the set of its elements.
LEMMA SequenceOf ==
  ASSUME NEW s, IsSequence(s)
  PROVE  \E C : s \in Seq(C)
<1> DEFINE C == {s[k] : k \in 1..Len(s)}
<1>1. s = [k \in 1..Len(s) |-> s[k]] /\ Len(s) \in Nat
  BY DEF IsSequence
<1>2. s \in [1..Len(s) -> C]
  BY <1>1
<1> HIDE DEF C
<1>3. s \in Seq(C)
  BY <1>1, <1>2
<1> QED BY <1>3

\* A sequence over some set is a sequence.
LEMMA IsOne ==
  ASSUME NEW C, NEW s \in Seq(C)
  PROVE  IsSequence(s)
BY DEF IsSequence

Grown(t, s, x) ==
  /\ IsSequence(t) /\ Len(t) = Len(s) + 1 /\ t[Len(s) + 1] = x
  /\ \A k \in 1..Len(s) : t[k] = s[k]

\* What appending makes of a sequence, element by element.
LEMMA GrownByOne ==
  ASSUME NEW s, IsSequence(s), NEW x
  PROVE  Grown(Append(s, x), s, x)
<1>1. PICK C : s \in Seq(C)
  BY SequenceOf
<1> DEFINE D == C \cup {x}
           t == Append(s, x)
<1>2. s \in Seq(D) /\ x \in D
  BY <1>1
<1> HIDE DEF D
<1>3. Longer(t, s, x, D)
  BY <1>2, Appended
<1> HIDE DEF t
<1>4. t \in Seq(D)
  BY <1>3 DEF Longer
<1>5. IsSequence(t)
  BY <1>4, IsOne
<1> QED BY <1>3, <1>5 DEF Longer, Grown, t

Shrunk(t, s) ==
  /\ IsSequence(t) /\ Len(t) = Len(s) - 1
  /\ \A k \in 1..Len(t) : t[k] = s[k]

\* What taking the last one away leaves of a sequence.
LEMMA ShrunkByOne ==
  ASSUME NEW s, IsSequence(s), s # <<>>
  PROVE  Shrunk(Front(s), s) /\ Last(s) = s[Len(s)] /\ Len(s) \in Nat \ {0}
<1>1. PICK C : s \in Seq(C)
  BY SequenceOf
<1>2. Len(s) \in Nat \ {0}
  BY <1>1
<1> DEFINE t == SubSeq(s, 1, Len(s) - 1)
<1>3. t \in Seq(C) /\ Len(t) = Len(s) - 1 /\ \A k \in 1..Len(t) : t[k] = s[k]
  <2> DEFINE m == Len(s) - 1
  <2>1. m \in Nat /\ 1 \in Int /\ m \in Int /\ \A i \in 1..m : s[i] \in C
    BY <1>1, <1>2
  <2> HIDE DEF m
  <2>2. /\ SubSeq(s, 1, m) \in Seq(C)
        /\ Len(SubSeq(s, 1, m)) = IF 1 <= m THEN m - 1 + 1 ELSE 0
        /\ \A i \in 1..(m - 1 + 1) : SubSeq(s, 1, m)[i] = s[1 + i - 1]
    BY <2>1, SubSeqProperties
  <2>3. t = SubSeq(s, 1, m)
    BY DEF m
  <2> HIDE DEF t
  <2>4. t \in Seq(C) /\ Len(t) = IF 1 <= m THEN m - 1 + 1 ELSE 0
    BY <2>2, <2>3
  <2>5. \A i \in 1..(m - 1 + 1) : t[i] = s[1 + i - 1]
    BY <2>2, <2>3
  <2>6. Len(t) = m /\ \A i \in 1..m : t[i] = s[i]
    BY ONLY <2>1, <2>4, <2>5
  <2> QED BY <2>4, <2>6 DEF m
<1>4. Front(s) = t /\ Last(s) = s[Len(s)]
  BY DEF Front, Last
<1> HIDE DEF t
<1>5. IsSequence(t)
  BY <1>3, IsOne
<1> QED BY <1>2, <1>3, <1>4, <1>5 DEF Shrunk

-----------------------------------------------------------------------------
(* One item more.                                                          *)

Grows(item, n) ==
  /\ n \in Nat /\ Len(items) = n /\ DOMAIN items = 1..n
  /\ Len(items') = n + 1 /\ DOMAIN items' = 1..(n + 1)
  /\ SameItems(n)
  /\ items'[n + 1].item = item /\ item \in Writable
  /\ ItemsTyped /\ ItemsTyped'

Writes(item) ==
  /\ item \in Script[Len(items) + 1] /\ Len(items) < Len(Script)
  /\ items' = Append(items, [offset |-> Len(bytes), item |-> item])
  /\ Len(bytes) \in Nat

\* Writing an item makes it the last one and keeps those before it.
LEMMA ItemGrows ==
  ASSUME ItemsTyped, NEW item, Writes(item)
  PROVE  Grows(item, Len(items)) /\ items'[Len(items) + 1] = [offset |-> Len(bytes), item |-> item]
<1> DEFINE n == Len(items)
           e == [offset |-> Len(bytes), item |-> item]
<1>1. n \in Nat /\ DOMAIN items = 1..n /\ items \in Seq(Entries)
  BY DEF ItemsTyped
<1>2. item \in Writable
  <2> DEFINE W == Writable
  <2> HIDE DEF W
  <2>1. Script \in Seq(SUBSET W)
    BY ScriptAssumption DEF W
  <2>2. n + 1 \in 1..Len(Script)
    BY <1>1, <2>1 DEF Writes
  <2>3. Script[n + 1] \in SUBSET W
    BY <2>1, <2>2
  <2> QED BY <2>3 DEF Writes, W
<1>3. e \in Entries
  BY <1>2 DEF Writes, Entries
<1> HIDE DEF e
<1>4. Longer(items', items, e, Entries)
  <2>1. Longer(Append(items, e), items, e, Entries)
    BY <1>1, <1>3, Appended
  <2> QED BY <2>1 DEF Writes, e
<1>5. /\ items' \in Seq(Entries) /\ Len(items') = n + 1 /\ items'[n + 1] = e
      /\ \A k \in 1..n : items'[k] = items[k]
  BY <1>4 DEF Longer
<1>6. DOMAIN items' = 1..(n + 1)
  BY <1>1, <1>5
<1>7. SameItems(n)
  BY <1>1, <1>5, <1>6 DEF SameItems
<1> QED BY <1>1, <1>2, <1>5, <1>6, <1>7 DEF Grows, ItemsTyped, e

\* The collections open after an item do not depend on later ones.
LEMMA NestingsKept ==
  ASSUME NEW n, SameItems(n)
  PROVE  \A k \in 0..n : Nesting(k)' = Nesting(k)
<1> TAKE k \in 0..n
<1>1. KeptItems(n) /\ n \in Nat
  BY ItemsKept DEF SameItems
<1>2. \A i \in 1..k : i \in 1..n
  BY <1>1
<1>3. \A i \in 1..k : (Opens(i)' <=> Opens(i)) /\ (Ends(i)' <=> Ends(i))
  BY <1>1, <1>2 DEF Opens, Ends, KeptItems
<1>4. {i \in 1..k : Opens(i)'} = {i \in 1..k : Opens(i)}
      /\ {i \in 1..k : Ends(i)'} = {i \in 1..k : Ends(i)}
  BY <1>3
<1> QED BY <1>4 DEF Nesting, Count

Reads(item, kind, tag) == item.kind = kind /\ item.tag = tag

\* What the new item does to the brackets.
Brackets(item, n) ==
  /\ \A kind, tag : Is(n + 1, kind, tag)' <=> Reads(item, kind, tag)
  /\ Height(n) \in Int /\ Nesting(n) \in Int
  /\ Height(n + 1)' = Height(n) + (IF Reads(item, "Global", 10) THEN 1
                                   ELSE IF Reads(item, "Global", 11) THEN -1 ELSE 0)
  /\ Nesting(n + 1)' = Nesting(n) + (IF Reads(item, "Main", 10) THEN 1
                                     ELSE IF Reads(item, "Main", 12) THEN -1 ELSE 0)
  /\ \A k \in 0..n : Height(k)' = Height(k) /\ Nesting(k)' = Nesting(k)

\* Heights and depths behind the new item.
LEMMA NewBrackets ==
  ASSUME NEW n, NEW item, Grows(item, n)
  PROVE  Brackets(item, n)
<1>1. n \in Nat /\ n \in 0..n /\ KeptItems(n) /\ SameItems(n)
  BY ItemsKept DEF Grows
<1>2. \A kind, tag : Is(n + 1, kind, tag)' <=> Reads(item, kind, tag)
  BY DEF Grows, Is, Reads
<1>3. \A k \in 0..n : Nesting(k)' = Nesting(k)
  BY <1>1, NestingsKept
<1>4. \A k \in 0..n : Height(k)' = Height(k)
  BY <1>1 DEF KeptItems
<1>5. Height(n) \in Int /\ Nesting(n) \in Int
  BY <1>1, Heights, Nestings DEF HeightSteps, NestingSteps
<1>6. Height(n + 1)' = Height(n)' + (IF Push(n + 1)' THEN 1 ELSE IF Pop(n + 1)' THEN -1 ELSE 0)
  BY <1>1, Heights DEF HeightSteps
<1>7. Nesting(n + 1)' = Nesting(n)' + (IF Opens(n + 1)' THEN 1 ELSE IF Ends(n + 1)' THEN -1 ELSE 0)
  BY <1>1, Nestings DEF NestingSteps
<1>8. /\ Push(n + 1)' <=> Reads(item, "Global", 10)
      /\ Pop(n + 1)' <=> Reads(item, "Global", 11)
      /\ Opens(n + 1)' <=> Reads(item, "Main", 10)
      /\ Ends(n + 1)' <=> Reads(item, "Main", 12)
  BY <1>2 DEF Push, Pop, Opens, Ends
<1> QED BY <1>1, <1>2, <1>3, <1>4, <1>5, <1>6, <1>7, <1>8 DEF Brackets

\* What it does to the globals in force, unless it is a Pop.
NewInForce(item, n) ==
  \A tag : InForce(tag, n + 2)' = IF Reads(item, "Global", tag) THEN Some(Value(item.data))
                                  ELSE InForce(tag, n + 1)

\* What is in force behind the new item, unless it is a Pop.
LEMMA NewGlobals ==
  ASSUME NEW n, NEW item, Grows(item, n), ~Reads(item, "Global", 11)
  PROVE  NewInForce(item, n)
<1>1. n \in Nat /\ KeptGlobals(n) /\ Brackets(item, n) /\ items'[n + 1].item = item
  BY GlobalsKept, NewBrackets DEF Grows
<1>2. ~Pop(n + 1)'
  BY <1>1 DEF Pop, Brackets
<1> SUFFICES ASSUME NEW tag
             PROVE  InForce(tag, n + 2)' = IF Reads(item, "Global", tag) THEN Some(Value(item.data))
                                           ELSE InForce(tag, n + 1)
  BY DEF NewInForce
<1>3. InForce(tag, n + 2)' = IF Is(n + 1, "Global", tag)' THEN Some(Value(items'[n + 1].item.data))
                             ELSE InForce(tag, n + 1)'
  BY <1>1, <1>2, AfterPlainItem DEF PlainItems
<1>4. InForce(tag, n + 1)' = InForce(tag, n + 1)
  <2>1. n + 1 \in 1..(n + 1)
    BY <1>1
  <2> QED BY <1>1, <2>1 DEF KeptGlobals
<1> QED BY <1>1, <1>3, <1>4 DEF Brackets

-----------------------------------------------------------------------------
(* Each part of the state, for the items that leave it alone and for those *)
(* that change it.                                                         *)

\* Items that set none of the globals of the parser.
LEMMA GlobalStays ==
  ASSUME NEW n, NEW item, Grows(item, n), global = GlobalAt(n + 1), global' = global,
         \A tag \in {0, 7, 8, 9, 11} : ~Reads(item, "Global", tag)
  PROVE  global' = GlobalAt((n + 1) + 1)'
<1>1. NewInForce(item, n)
  BY NewGlobals
<1>2. \A tag \in {0, 7, 8, 9} : InForce(tag, n + 2)' = InForce(tag, n + 1)
  BY <1>1 DEF NewInForce
<1>3. (n + 1) + 1 = n + 2
  BY DEF Grows
<1> QED BY <1>2, <1>3 DEF GlobalAt, IdAt

\* A global item (hid.rs:263-276) keeps the globals those in force.
LEMMA GlobalSet ==
  ASSUME NEW n, NEW item, Grows(item, n), global = GlobalAt(n + 1), SetGlobal(item)
  PROVE  global' = GlobalAt((n + 1) + 1)'
<1>1. NewInForce(item, n)
  <2>1. ~Reads(item, "Global", 11)
    BY DEF SetGlobal, Reads
  <2> QED BY <2>1, NewGlobals
<1>2. (n + 1) + 1 = n + 2
  BY DEF Grows
<1> DEFINE v == Value(item.data)
<1> HIDE DEF v
<1>3. item.kind = "Global" /\ item.tag \in {0, 7, 9}
  BY DEF SetGlobal
<1>4. CASE item.tag = 0
  <2>1. global' = [global EXCEPT !.page = Some(v)]
    BY <1>4 DEF SetGlobal, v
  <2>2. /\ InForce(0, n + 2)' = Some(v) /\ InForce(7, n + 2)' = InForce(7, n + 1)
        /\ InForce(9, n + 2)' = InForce(9, n + 1) /\ InForce(8, n + 2)' = InForce(8, n + 1)
    BY <1>1, <1>3, <1>4 DEF NewInForce, Reads, v
  <2> QED BY <1>2, <2>1, <2>2 DEF GlobalAt, IdAt
<1>5. CASE item.tag = 7
  <2>1. global' = [global EXCEPT !.size = Some(v)]
    BY <1>5 DEF SetGlobal, v
  <2>2. /\ InForce(7, n + 2)' = Some(v) /\ InForce(0, n + 2)' = InForce(0, n + 1)
        /\ InForce(9, n + 2)' = InForce(9, n + 1) /\ InForce(8, n + 2)' = InForce(8, n + 1)
    BY <1>1, <1>3, <1>5 DEF NewInForce, Reads, v
  <2> QED BY <1>2, <2>1, <2>2 DEF GlobalAt, IdAt
<1>6. CASE item.tag = 9
  <2>1. global' = [global EXCEPT !.count = Some(v)]
    BY <1>6 DEF SetGlobal, v
  <2>2. /\ InForce(9, n + 2)' = Some(v) /\ InForce(0, n + 2)' = InForce(0, n + 1)
        /\ InForce(7, n + 2)' = InForce(7, n + 1) /\ InForce(8, n + 2)' = InForce(8, n + 1)
    BY <1>1, <1>3, <1>6 DEF NewInForce, Reads, v
  <2> QED BY <1>2, <2>1, <2>2 DEF GlobalAt, IdAt
<1> QED BY <1>3, <1>4, <1>5, <1>6

\* A report id (hid.rs:265-275) is the one in force behind its item.
LEMMA IdSet ==
  ASSUME NEW n, NEW item, Grows(item, n), global = GlobalAt(n + 1), Reads(item, "Global", 8),
         global' = [global EXCEPT !.id = Value(item.data)]
  PROVE  global' = GlobalAt((n + 1) + 1)'
<1>1. NewInForce(item, n)
  <2>1. ~Reads(item, "Global", 11)
    BY DEF Reads
  <2> QED BY <2>1, NewGlobals
<1>2. (n + 1) + 1 = n + 2
  BY DEF Grows
<1> DEFINE v == Value(item.data)
<1> HIDE DEF v
<1>3. /\ InForce(8, n + 2)' = Some(v) /\ InForce(0, n + 2)' = InForce(0, n + 1)
      /\ InForce(7, n + 2)' = InForce(7, n + 1) /\ InForce(9, n + 2)' = InForce(9, n + 1)
  BY <1>1 DEF NewInForce, Reads, v
<1>4. IdAt(n + 2)' = v
  BY <1>3, GetSome DEF IdAt
<1>5. global' = [global EXCEPT !.id = v]
  BY DEF v
<1> QED BY <1>2, <1>3, <1>4, <1>5 DEF GlobalAt

\* A Push stays the one at its height as long as the items stay inside it, and so
\* do the globals at it.
LEMMA LevelStays ==
  ASSUME NEW n, NEW item, Grows(item, n), NEW p, NEW l \in Int, OpensLevel(p, l, n),
         Height(n + 1)' >= l
  PROVE  OpensLevel(p, l, n + 1)' /\ GlobalAt(p)' = GlobalAt(p)
<1>1. n \in Nat /\ p \in 1..n /\ KeptItems(n) /\ KeptGlobals(n)
  BY ItemsKept, GlobalsKept DEF Grows, OpensLevel
<1>2. Push(p)' /\ Height(p)' = l
  BY <1>1 DEF KeptItems, OpensLevel, Push
<1>3. \A k \in p..(n + 1) : Height(k)' >= l
  <2> TAKE k \in p..(n + 1)
  <2>1. CASE k = n + 1
    BY <2>1
  <2>2. CASE k # n + 1
    <3>1. k \in p..n /\ k \in 0..n
      BY <1>1, <2>2
    <3> QED BY <1>1, <3>1 DEF KeptItems, OpensLevel
  <2> QED BY <2>1, <2>2
<1>4. p \in 1..(n + 1)
  BY <1>1
<1>5. GlobalAt(p)' = GlobalAt(p)
  BY <1>1, <1>4 DEF KeptGlobals, GlobalAt, IdAt
<1> QED BY <1>2, <1>3, <1>4, <1>5 DEF OpensLevel

\* An item other than Push and Pop leaves the stack as it has to be.
LEMMA StackStays ==
  ASSUME NEW n, NEW item, Grows(item, n), StackStands(n), stack' = stack,
         ~Reads(item, "Global", 10), ~Reads(item, "Global", 11)
  PROVE  StackStands(n + 1)'
<1>1. Height(n + 1)' = Height(n) /\ Height(n) \in Int
  BY NewBrackets DEF Brackets
<1>2. ASSUME NEW l \in 1..Len(stack)
      PROVE  \E p : OpensLevel(p, l, n + 1)' /\ stack'[l] = GlobalAt(p)'
  <2>1. PICK p : OpensLevel(p, l, n) /\ stack[l] = GlobalAt(p)
    BY DEF StackStands
  <2>2. Height(n + 1)' >= l /\ l \in Int
    BY <1>1 DEF StackStands
  <2>3. OpensLevel(p, l, n + 1)' /\ GlobalAt(p)' = GlobalAt(p)
    BY <2>1, <2>2, LevelStays
  <2> QED BY <2>1, <2>3
<1> QED BY <1>1, <1>2 DEF StackStands

\* A Push saves the globals that its Pop will bring back.
LEMMA StackPushed ==
  ASSUME NEW n, NEW item, Grows(item, n), StackStands(n), global = GlobalAt(n + 1),
         PushGlobal(item)
  PROVE  StackStands(n + 1)'
<1>1. Reads(item, "Global", 10) /\ stack' = Append(stack, global)
  BY DEF PushGlobal, Reads
<1>2. n \in Nat /\ Len(stack) = Height(n) /\ Len(stack) \in Nat
  BY DEF StackStands, IsSequence, Grows
<1>3. Height(n + 1)' = Len(stack) + 1 /\ Is(n + 1, "Global", 10)'
  BY <1>1, <1>2, NewBrackets DEF Brackets
<1>4. Grown(stack', stack, global)
  BY <1>1, GrownByOne DEF StackStands
<1>5. ASSUME NEW l \in 1..Len(stack)
      PROVE  \E p : OpensLevel(p, l, n + 1)' /\ stack'[l] = GlobalAt(p)'
  <2>1. PICK p : OpensLevel(p, l, n) /\ stack[l] = GlobalAt(p)
    BY DEF StackStands
  <2>2. Height(n + 1)' >= l /\ l \in Int
    BY <1>2, <1>3
  <2>3. OpensLevel(p, l, n + 1)' /\ GlobalAt(p)' = GlobalAt(p)
    BY <2>1, <2>2, LevelStays
  <2>4. stack'[l] = stack[l]
    BY <1>4 DEF Grown
  <2> QED BY <2>1, <2>3, <2>4
<1>6. ASSUME NEW l, l = Len(stack) + 1 PROVE OpensLevel(n + 1, l, n + 1)'
  <2>1. n + 1 \in 1..(n + 1) /\ \A k \in (n + 1)..(n + 1) : k = n + 1
    BY <1>2
  <2>2. Push(n + 1)'
    BY <1>3 DEF Push
  <2>3. l \in Int /\ Height(n + 1)' = l
    BY <1>2, <1>3, <1>6
  <2>4. \A k \in (n + 1)..(n + 1) : Height(k)' >= l
    BY <2>1, <2>3
  <2> QED BY <2>1, <2>2, <2>3, <2>4 DEF OpensLevel
<1>7. GlobalAt(n + 1)' = global
  <2>1. KeptGlobals(n) /\ n + 1 \in 1..(n + 1)
    BY <1>2, GlobalsKept DEF Grows
  <2> QED BY <2>1 DEF KeptGlobals, GlobalAt, IdAt
<1>8. ASSUME NEW l \in 1..Len(stack')
      PROVE  \E p : OpensLevel(p, l, n + 1)' /\ stack'[l] = GlobalAt(p)'
  <2>1. Len(stack') = Len(stack) + 1 /\ stack'[Len(stack) + 1] = global
    BY <1>4 DEF Grown
  <2>2. l = Len(stack) + 1 \/ l \in 1..Len(stack)
    BY <1>2, <2>1
  <2> QED BY <1>5, <1>6, <1>7, <2>1, <2>2
<1>9. IsSequence(stack)' /\ Len(stack') = Height(n + 1)'
  BY <1>3, <1>4 DEF Grown, IsSequence
<1> QED BY <1>8, <1>9 DEF StackStands

\* A Pop takes the last saved state away, and it is what is in force again.
LEMMA StackPopped ==
  ASSUME NEW n, NEW item, Grows(item, n), StackStands(n), stack # <<>>,
         Reads(item, "Global", 11), stack' = Front(stack), global' = Last(stack)
  PROVE  StackStands(n + 1)' /\ global' = GlobalAt((n + 1) + 1)'
<1>1. Shrunk(stack', stack) /\ global' = stack[Len(stack)] /\ Len(stack) \in Nat \ {0}
  BY ShrunkByOne DEF StackStands
<1>2. n \in Nat /\ Len(stack) = Height(n)
  BY DEF StackStands, Grows
<1>3. Height(n + 1)' = Len(stack) - 1 /\ Is(n + 1, "Global", 11)'
  <2>1. Brackets(item, n)
    BY NewBrackets
  <2>2. ~Reads(item, "Global", 10)
    BY DEF Reads
  <2> QED BY <1>1, <1>2, <2>1, <2>2 DEF Brackets
<1>4. Len(stack') = Len(stack) - 1 /\ \A l \in 1..Len(stack') : stack'[l] = stack[l]
  BY <1>1 DEF Shrunk
<1>5. ASSUME NEW l \in 1..Len(stack')
      PROVE  \E p : OpensLevel(p, l, n + 1)' /\ stack'[l] = GlobalAt(p)'
  <2>1. l \in 1..Len(stack) /\ Height(n + 1)' >= l /\ l \in Int
    BY <1>1, <1>3, <1>4
  <2>2. PICK p : OpensLevel(p, l, n) /\ stack[l] = GlobalAt(p)
    BY <2>1 DEF StackStands
  <2>3. OpensLevel(p, l, n + 1)' /\ GlobalAt(p)' = GlobalAt(p)
    BY <2>1, <2>2, LevelStays
  <2> QED BY <1>4, <2>2, <2>3
<1>6. StackStands(n + 1)'
  BY <1>1, <1>3, <1>4, <1>5 DEF StackStands, Shrunk, IsSequence
<1>7. PICK p : OpensLevel(p, Len(stack), n) /\ stack[Len(stack)] = GlobalAt(p)
  <2>1. Len(stack) \in 1..Len(stack)
    BY <1>1
  <2> QED BY <2>1 DEF StackStands
<1>8. ASSUME NEW tag, tag \notin {10, 11} PROVE InForce(tag, n + 2)' = InForce(tag, p)
  <2>1. KeptItems(n) /\ KeptGlobals(n) /\ p \in 1..n
    BY <1>7, ItemsKept, GlobalsKept DEF Grows, OpensLevel
  <2>2. OpenAt(p, n)'
    <3>1. p \in 0..n /\ n \in 0..n /\ \A k \in p..n : k \in 0..n
      BY <1>2, <2>1
    <3> QED BY <1>2, <1>7, <2>1, <3>1 DEF OpenAt, OpensLevel, KeptItems, Push
  <2>3. Pop(n + 1)'
    BY <1>3 DEF Pop
  <2>4. InForce(tag, n + 2)' = InForce(tag, p)'
    BY <1>2, <1>8, <2>2, <2>3, AfterPop DEF PoppedItems
  <2>5. p \in 1..(n + 1)
    BY <1>2, <2>1
  <2> QED BY <2>1, <2>4, <2>5 DEF KeptGlobals
<1>9. (n + 1) + 1 = n + 2
  BY <1>2
<1>10. \A tag \in {0, 7, 8, 9} : InForce(tag, n + 2)' = InForce(tag, p)
  BY <1>8
<1> QED BY <1>1, <1>6, <1>7, <1>9, <1>10 DEF GlobalAt, IdAt

\* Only collections change the depth.
LEMMA NestingStays ==
  ASSUME NEW n, NEW item, Grows(item, n), depth = Nesting(n), depth' = depth,
         ~Reads(item, "Main", 10), ~Reads(item, "Main", 12)
  PROVE  depth' = Nesting(n + 1)'
BY NewBrackets DEF Brackets

\* Items other than usages and Main items leave the usages alone.
LEMMA UsagesStay ==
  ASSUME NEW n, NEW item, Grows(item, n), usages = UsagesOf(n + 1), usages' = usages,
         item.kind # "Main", ~Reads(item, "Local", 0)
  PROVE  usages' = UsagesOf((n + 1) + 1)'
<1>1. n \in Nat /\ (n + 1) + 1 = n + 2 /\ items'[n + 1].item = item /\ n + 1 \in 1..(n + 1)
  BY DEF Grows
<1>2. ~Is(n + 1, "Local", 0)'
  BY NewBrackets DEF Brackets
<1>3. UsagesOf(n + 2)' = UsagesOf(n + 1)'
  BY <1>1, <1>2, UsagesGrow DEF UsageSteps
<1>4. UsagesOf(n + 1)' = UsagesOf(n + 1)
  BY <1>1, FieldsKept DEF Grows, KeptFields
<1> QED BY <1>1, <1>3, <1>4

\* No usage outlives a Main item.
LEMMA UsagesClear ==
  ASSUME NEW n, NEW item, Grows(item, n), usages' = <<>>, item.kind = "Main"
  PROVE  usages' = UsagesOf((n + 1) + 1)'
<1>1. n \in Nat /\ (n + 1) + 1 = n + 2 /\ items'[n + 1].item = item
  BY DEF Grows
<1>2. UsagesOf(n + 2)' = <<>>
  BY <1>1, UsagesGrow DEF UsageSteps
<1> QED BY <1>1, <1>2

\* A usage is the last one, qualified by the page in force.
LEMMA UsageAdded ==
  ASSUME NEW n, NEW item, Grows(item, n), global = GlobalAt(n + 1), usages = UsagesOf(n + 1),
         Usage(item)
  PROVE  usages' = UsagesOf((n + 1) + 1)'
<1>1. /\ n \in Nat /\ (n + 1) + 1 = n + 2 /\ items'[n + 1].item = item /\ n + 1 \in 1..(n + 1)
      /\ item.kind # "Main"
  BY DEF Grows, Usage
<1>2. Is(n + 1, "Local", 0)'
  <2>1. Reads(item, "Local", 0)
    BY DEF Usage, Reads
  <2> QED BY <2>1, NewBrackets DEF Brackets
<1>3. UsagesOf(n + 2)' = Append(UsagesOf(n + 1)', UsageAt(n + 1)')
  BY <1>1, <1>2, UsagesGrow DEF UsageSteps
<1>4. UsagesOf(n + 1)' = UsagesOf(n + 1)
  BY <1>1, FieldsKept DEF Grows, KeptFields
<1>5. UsageAt(n + 1)' = Qualified(global.page, Value(item.data))
  <2>1. InForce(0, n + 1)' = InForce(0, n + 1)
    BY <1>1, GlobalsKept DEF Grows, KeptGlobals
  <2> QED BY <1>1, <2>1 DEF UsageAt, GlobalAt
<1> QED BY <1>1, <1>3, <1>4, <1>5 DEF Usage

\* The fields after one item more.
IsField(item) == \E type \in ReportTypes : Reads(item, "Main", MainTag[type])
NewFields(item, n) ==
  /\ Fields \in SUBSET (1..n) /\ n + 1 \notin Fields
  /\ Fields' = IF IsField(item) THEN Fields \cup {n + 1} ELSE Fields

\* The fields behind the new item: those before it, and it if it declares one.
LEMMA FieldsGrow ==
  ASSUME NEW n, NEW item, Grows(item, n)
  PROVE  NewFields(item, n)
<1>1. n \in Nat /\ KeptFields(n) /\ Brackets(item, n)
  BY FieldsKept, NewBrackets DEF Grows
<1>2. Fields \in SUBSET (1..n) /\ Fields' \in SUBSET (1..(n + 1)) /\ n + 1 \notin 1..n
  BY <1>1 DEF Grows, Fields
<1>3. n + 1 \in Fields' <=> IsField(item)
  <2>1. n + 1 \in DOMAIN items'
    BY <1>1 DEF Grows
  <2>2. \A type : Is(n + 1, "Main", MainTag[type])' <=> Reads(item, "Main", MainTag[type])
    BY <1>1 DEF Brackets
  <2>3. ReportTypes' = ReportTypes
    BY DEF ReportTypes, MainTag
  <2> QED BY <2>1, <2>2, <2>3 DEF Fields, IsField
<1>4. \A i \in 1..n : i \in Fields' <=> i \in Fields
  BY <1>1 DEF KeptFields
<1>5. 1..(n + 1) = 1..n \cup {n + 1}
  BY <1>1
<1>6. Fields' = IF IsField(item) THEN Fields \cup {n + 1} ELSE Fields
  <2> DEFINE F == Fields
             G == Fields'
             P == IsField(item)
  <2> HIDE DEF F, G, P
  <2>1. F \in SUBSET (1..n) /\ G \in SUBSET (1..n \cup {n + 1}) /\ n + 1 \notin 1..n
        /\ (n + 1 \in G <=> P) /\ \A i \in 1..n : i \in G <=> i \in F
    BY <1>2, <1>3, <1>4, <1>5 DEF F, G, P
  <2>2. \A i : i \in G <=> i \in F \/ (P /\ i = n + 1)
    BY <2>1
  <2>3. G = IF P THEN F \cup {n + 1} ELSE F
    BY <2>2
  <2> QED BY <2>3 DEF F, G, P
<1>7. n + 1 \notin Fields
  BY <1>2
<1> QED BY <1>2, <1>6, <1>7 DEF NewFields

OffsetByKey == \A i, key : key = KeyOf(i) => OffsetOf(i) = DeclaredBits(key, i - 1)

\* A field begins behind the bits of its own key.
LEMMA OffsetMeans == OffsetByKey /\ OffsetByKey'
<1>1. OffsetByKey
  BY DEF OffsetByKey, OffsetOf
<1> QED BY <1>1, PTL

\* What a field was declared to be stays.
SameField(i) ==
  /\ OffsetOf(i)' = OffsetOf(i) /\ WidthOf(i)' = WidthOf(i)
  /\ InForce(7, i)' = InForce(7, i) /\ InForce(9, i)' = InForce(9, i)
  /\ UsagesOf(i)' = UsagesOf(i)
  /\ KeyOf(i)' = KeyOf(i) /\ Rank(i)' = Rank(i)

\* What an earlier field was declared to be it stays.
LEMMA FieldKept ==
  ASSUME NEW n, SameItems(n), NEW i \in Fields, i \in 1..n
  PROVE  SameField(i)
<1>1. n \in Nat /\ KeptFields(n) /\ KeptGlobals(n)
  BY FieldsKept, GlobalsKept DEF SameItems
<1>2. i \in 1..n /\ i \in 1..(n + 1) /\ i - 1 \in 0..n
  BY <1>1
<1>3. KeyOf(i)' = KeyOf(i) /\ Before(i)' = Before(i) /\ WidthOf(i)' = WidthOf(i)
      /\ UsagesOf(i)' = UsagesOf(i)
  BY <1>1, <1>2 DEF KeptFields
<1>4. \A key : DeclaredBits(key, i - 1)' = DeclaredBits(key, i - 1)
  BY <1>1, <1>2 DEF KeptFields
<1>5. \A key : key = KeyOf(i) => OffsetOf(i) = DeclaredBits(key, i - 1)
  BY OffsetMeans DEF OffsetByKey
<1>9. \A key : key = KeyOf(i)' => OffsetOf(i)' = DeclaredBits(key, i - 1)'
  BY OffsetMeans DEF OffsetByKey
<1>6. OffsetOf(i)' = OffsetOf(i)
  <2>1. PICK key : key = KeyOf(i)
    OBVIOUS
  <2>2. OffsetOf(i) = DeclaredBits(key, i - 1)
    BY <1>5, <2>1
  <2>3. OffsetOf(i)' = DeclaredBits(key, i - 1)'
    BY <1>3, <1>9, <2>1
  <2> QED BY <1>4, <2>2, <2>3
<1>7. InForce(7, i)' = InForce(7, i) /\ InForce(9, i)' = InForce(9, i)
  BY <1>1, <1>2 DEF KeptGlobals
<1>8. Rank(i)' = Rank(i)
  BY <1>3 DEF Rank
<1> QED BY <1>3, <1>6, <1>7, <1>8 DEF SameField

\* So it does when an item follows.
LEMMA FieldStays ==
  ASSUME NEW n, NEW item, Grows(item, n), NEW i \in Fields
  PROVE  SameField(i)
<1>1. SameItems(n) /\ i \in 1..n
  BY FieldsGrow DEF Grows, NewFields
<1> QED BY <1>1, FieldKept

\* The bits of a report after one item more.
LEMMA BitsGrow ==
  ASSUME NEW n, NEW item, Grows(item, n), NEW key
  PROVE  DeclaredBits(key, n + 1)' =
           DeclaredBits(key, n) + (IF IsField(item) /\ KeyOf(n + 1)' = key THEN WidthOf(n + 1)' ELSE 0)
<1>1. n \in Nat /\ n \in 0..n /\ KeptFields(n) /\ NewFields(item, n)
  BY FieldsKept, FieldsGrow DEF Grows
<1>2. DeclaredBits(key, n + 1)' = DeclaredBits(key, n)' + ShareOf(key, n + 1)'
  BY <1>1, BitsAddUp DEF BitsSteps
<1>3. DeclaredBits(key, n)' = DeclaredBits(key, n)
  BY <1>1 DEF KeptFields
<1>4. n + 1 \in Fields' <=> IsField(item)
  BY <1>1 DEF NewFields
<1> QED BY <1>2, <1>3, <1>4 DEF ShareOf

\* An item that declares no field leaves the layouts those of the items.
LEMMA LayoutsStay ==
  ASSUME NEW n, NEW item, Grows(item, n), LayoutsStand(n), layouts' = layouts, ~IsField(item)
  PROVE  LayoutsStand(n + 1)'
<1>1. Fields' = Fields
  BY FieldsGrow DEF NewFields
<1>2. \A i \in Fields : SameField(i)
  BY FieldStays
<1>3. \A key : LayoutOf(key)' = LayoutOf(key)
  BY DEF LayoutOf
<1>4. \A key : DeclaredBits(key, n + 1)' = DeclaredBits(key, n)
  <2> TAKE key
  <2>1. DeclaredBits(key, n + 1)' = DeclaredBits(key, n) + 0
    BY BitsGrow
  <2> QED BY <2>1 DEF LayoutsStand
<1>5. \A key : FieldsOf(key)' = FieldsOf(key)
  BY <1>1, <1>2 DEF FieldsOf, SameField
<1>6. DOMAIN layouts' = {KeyOf(i)' : i \in Fields'}
  BY <1>1, <1>2 DEF LayoutsStand, SameField
<1>7. ASSUME NEW i \in Fields PROVE Described(i)'
  <2>1. SameField(i) /\ Described(i)
    BY <1>2 DEF LayoutsStand
  <2>2. LayoutOf(KeyOf(i))' = LayoutOf(KeyOf(i))
    BY <2>1 DEF SameField, LayoutOf
  <2>3. Held(i)' = Held(i)
    BY <2>1, <2>2 DEF Held, SameField
  <2> QED BY <2>1, <2>2, <2>3 DEF Described, SameField
<1> QED BY <1>1, <1>3, <1>4, <1>5, <1>6, <1>7 DEF LayoutsStand

\* The place and the size of the field that a new main item declares.
Declares(item, n, key, start, width) ==
  /\ IsField(item)
  /\ KeyOf(n + 1)' = key /\ WidthOf(n + 1)' = width /\ width \in Nat
  /\ start = LayoutOf(key).bits /\ start \in Nat /\ OffsetOf(n + 1)' = start
  /\ DeclaredBits(key, n) = start

\* The bits of the layout are those the fields before it declare, and the new field adds its own.
LEMMA FieldDeclared ==
  ASSUME NEW n, NEW item, Grows(item, n), LayoutsStand(n), global = GlobalAt(n + 1),
         NEW type \in ReportTypes, Reads(item, "Main", MainTag[type]),
         global.size # None, global.count # None,
         NEW key, key = <<type, global.id>>, NEW start, start = LayoutOf(key).bits,
         NEW width, width = Get(global.size) * Get(global.count)
  PROVE  Declares(item, n, key, start, width)
<1>1. /\ n \in Nat /\ KeptGlobals(n) /\ KeptFields(n) /\ Brackets(item, n) /\ n + 1 \in 1..(n + 1)
      /\ n \in 0..n /\ (n + 1) - 1 = n
  BY GlobalsKept, FieldsKept, NewBrackets DEF Grows
<1>2. \A tag : InForce(tag, n + 1)' = InForce(tag, n + 1)
  BY <1>1 DEF KeptGlobals
<1>3. KeyOf(n + 1)' = key
  <2>1. Is(n + 1, "Main", MainTag[type])'
    BY <1>1 DEF Brackets
  <2>2. \A t \in ReportTypes' : Is(n + 1, "Main", MainTag[t])' => KeyOf(n + 1)' = <<t, IdAt(n + 1)'>>
    BY KeysMean DEF KeysByTag
  <2>3. type \in ReportTypes' /\ MainTag' = MainTag
    BY DEF ReportTypes, MainTag
  <2>4. KeyOf(n + 1)' = <<type, IdAt(n + 1)'>>
    BY <2>1, <2>2, <2>3
  <2>5. IdAt(n + 1)' = global.id
    BY <1>2 DEF IdAt, GlobalAt
  <2> QED BY <2>4, <2>5
<1>4. WidthOf(n + 1)' = width
  BY <1>2 DEF WidthOf, GlobalAt
<1>5. width \in Nat
  <2>1. n + 1 \in 1..(Len(items) + 1) /\ ItemsTyped
    BY <1>1 DEF Grows
  <2>2. \A tag : InForce(tag, n + 1) = None \/ \E v \in Nat : InForce(tag, n + 1) = Some(v)
    BY <2>1, InForceIsNumber DEF NumbersInForce
  <2>3. Get(global.size) \in Nat /\ Get(global.count) \in Nat
    <3>1. global.size = InForce(7, n + 1) /\ global.count = InForce(9, n + 1)
      BY DEF GlobalAt
    <3>2. PICK v \in Nat : global.size = Some(v)
      BY <2>2, <3>1
    <3>3. PICK w \in Nat : global.count = Some(w)
      BY <2>2, <3>1
    <3> QED BY <3>2, <3>3, GetSome
  <2> DEFINE a == Get(global.size)
             b == Get(global.count)
  <2> HIDE DEF a, b
  <2>4. a \in Nat /\ b \in Nat => a * b \in Nat
    OBVIOUS
  <2> QED BY <2>3, <2>4 DEF a, b
<1>6. DeclaredBits(key, n) = start /\ start \in Nat
  BY DEF LayoutsStand
<1>7. OffsetOf(n + 1)' = start
  <2>1. OffsetOf(n + 1)' = DeclaredBits(key, (n + 1) - 1)'
    BY <1>3, OffsetMeans DEF OffsetByKey
  <2>2. DeclaredBits(key, n)' = DeclaredBits(key, n)
    BY <1>1 DEF KeptFields
  <2> QED BY <1>1, <1>6, <2>1, <2>2
<1>8. IsField(item)
  BY DEF IsField
<1> QED BY <1>3, <1>4, <1>5, <1>6, <1>7, <1>8 DEF Declares

\* With its field appended, the layouts are those of one item more.
LEMMA LayoutsGrow ==
  ASSUME NEW n, NEW item, Grows(item, n), LayoutsStand(n), global = GlobalAt(n + 1),
         usages = UsagesOf(n + 1), global.size # None, global.count # None,
         NEW key, NEW start, NEW width, Declares(item, n, key, start, width),
         NEW field, field.offset = start, field.size = Get(global.size),
         field.count = Get(global.count), field.usages = usages,
         layouts' = [k \in DOMAIN layouts \cup {key} |->
                       IF k = key
                       THEN [bits |-> start + width, fields |-> Append(LayoutOf(key).fields, field)]
                       ELSE layouts[k]]
  PROVE  LayoutsStand(n + 1)'
<1> DEFINE old == LayoutOf(key).fields
           new == [bits |-> start + width, fields |-> Append(old, field)]
<1>1. /\ n \in Nat /\ n + 1 \in 1..(n + 1) /\ KeptGlobals(n) /\ KeptFields(n) /\ NewFields(item, n)
      /\ IsField(item)
  BY GlobalsKept, FieldsKept, FieldsGrow DEF Grows, Declares
<1>2. /\ Fields' = Fields \cup {n + 1} /\ n + 1 \notin Fields /\ \A i \in Fields : i < n + 1
      /\ Fields \in SUBSET (1..n)
  <2>1. \A i \in 1..n : i < n + 1
    BY <1>1
  <2> QED BY <1>1, <2>1 DEF NewFields
<1>3. \A i \in Fields : SameField(i)
  BY FieldStays
<1>4. KeyOf(n + 1)' = key /\ start \in Nat /\ width \in Nat
  BY DEF Declares
<1>5. \A k : LayoutOf(k)' = IF k = key THEN new ELSE LayoutOf(k)
  <2> HIDE DEF new
  <2>1. layouts' = [k \in DOMAIN layouts \cup {key} |-> IF k = key THEN new ELSE layouts[k]]
    BY DEF new
  <2> TAKE k
  <2>2. CASE k = key
    BY <2>1, <2>2 DEF LayoutOf
  <2>3. CASE k # key
    BY <2>1, <2>3 DEF LayoutOf
  <2> QED BY <2>2, <2>3
<1>6. Grown(new.fields, old, field) /\ Len(old) = Cardinality(FieldsOf(key))
  BY GrownByOne DEF LayoutsStand
<1>7. DOMAIN layouts' = {KeyOf(i)' : i \in Fields'}
  <2>1. DOMAIN layouts' = DOMAIN layouts \cup {key}
    OBVIOUS
  <2>2. \A i \in Fields : KeyOf(i)' = KeyOf(i)
    BY <1>3 DEF SameField
  <2>3. DOMAIN layouts = {KeyOf(i) : i \in Fields}
    BY DEF LayoutsStand
  <2>4. {KeyOf(i)' : i \in Fields'} = {KeyOf(i) : i \in Fields} \cup {key}
    BY <1>2, <1>4, <2>2
  <2> QED BY <2>1, <2>3, <2>4
<1>8. \A k : LayoutOf(k).bits' = DeclaredBits(k, n + 1)' /\ DeclaredBits(k, n + 1)' \in Nat
  <2> TAKE k
  <2>1. DeclaredBits(k, n + 1)' = DeclaredBits(k, n) + (IF key = k THEN width ELSE 0)
    <3>1. WidthOf(n + 1)' = width
      BY DEF Declares
    <3> QED BY <1>1, <1>4, <3>1, BitsGrow
  <2>2. LayoutOf(k).bits = DeclaredBits(k, n) /\ DeclaredBits(k, n) \in Nat
    BY DEF LayoutsStand
  <2>3. LayoutOf(k).bits' = IF k = key THEN start + width ELSE LayoutOf(k).bits
    BY <1>5
  <2>4. DeclaredBits(key, n) = start
    BY DEF Declares
  <2> QED BY <1>4, <2>1, <2>2, <2>3, <2>4
<1>9. \A k : FieldsOf(k)' = IF k = key THEN FieldsOf(k) \cup {n + 1} ELSE FieldsOf(k)
  BY <1>2, <1>3, <1>4 DEF FieldsOf, SameField
<1>10. \A k : /\ IsSequence(LayoutOf(k).fields)'
              /\ Len(LayoutOf(k).fields)' = Cardinality(FieldsOf(k))'
  <2> TAKE k
  <2>1. CASE k = key
    <3>1. LayoutOf(k).fields' = new.fields
      BY <1>5, <2>1
    <3>2. Cardinality(FieldsOf(k) \cup {n + 1}) = Cardinality(FieldsOf(k)) + 1
      <4> DEFINE F == FieldsOf(k)
      <4>1. F \in SUBSET (1..n) /\ n + 1 \notin F
        BY <1>2 DEF FieldsOf
      <4> HIDE DEF F
      <4>2. IsFiniteSet(F)
        <5>1. IsFiniteSet(1..n)
          BY <1>1, FS_Interval
        <5> QED BY <4>1, <5>1, FS_Subset
      <4>3. Cardinality(F \cup {n + 1}) = Cardinality(F) + 1
        BY <4>1, <4>2, FS_AddElement
      <4> QED BY <4>3 DEF F
    <3>3. Cardinality(FieldsOf(k))' = Cardinality(FieldsOf(k)) + 1
      BY <1>9, <2>1, <3>2
    <3> HIDE DEF new, old
    <3>4. Len(new.fields) = Len(old) + 1 /\ IsSequence(new.fields)
      BY <1>6 DEF Grown
    <3> QED BY <1>6, <2>1, <3>1, <3>3, <3>4 DEF IsSequence
  <2>2. CASE k # key
    <3>1. LayoutOf(k)' = LayoutOf(k) /\ FieldsOf(k)' = FieldsOf(k)
      BY <1>5, <1>9, <2>2
    <3> QED BY <3>1 DEF LayoutsStand, IsSequence
  <2> QED BY <2>1, <2>2
<1>11. ASSUME NEW i \in Fields PROVE Described(i)'
  <2>1. SameField(i) /\ Described(i)
    BY <1>3 DEF LayoutsStand
  <2>2. PICK k : k = KeyOf(i) /\ k = KeyOf(i)'
    BY <2>1 DEF SameField
  <2> DEFINE was == LayoutOf(k).fields
             is == LayoutOf(k)'.fields
             r == Rank(i)
  <2>3. r \in 1..Len(was)
    BY <2>1, <2>2 DEF Described
  <2>4. r \in 1..Len(is) /\ is[r] = was[r]
    <3>1. CASE k = key
      <4>1. was = old /\ is = new.fields
        BY <1>5, <3>1
      <4>2. Len(old) \in Nat
        BY <1>6 DEF LayoutsStand, IsSequence
      <4> HIDE DEF was, is, r, old, new
      <4>3. Len(is) = Len(was) + 1 /\ \A j \in 1..Len(was) : is[j] = was[j]
        BY <1>6, <4>1 DEF Grown
      <4> QED BY <2>3, <4>1, <4>2, <4>3
    <3>2. CASE k # key
      BY <1>5, <2>3, <3>2
    <3> QED BY <3>1, <3>2
  <2>5. Held(i) = was[r] /\ Held(i)' = is[r]
    BY <2>1, <2>2 DEF Held, SameField
  <2>6. Rank(i)' \in 1..Len(LayoutOf(KeyOf(i)).fields)'
    BY <2>1, <2>2, <2>4 DEF SameField
  <2>7. Held(i)' = Held(i)
    BY <2>4, <2>5
  <2> QED BY <2>1, <2>6, <2>7 DEF Described, SameField
<1>12. Described(n + 1)'
  <2>1. Rank(n + 1)' = Len(old) + 1
    <3>1. Before(n + 1)' = FieldsOf(key)
      <4>1. Before(n + 1)' = {j \in Fields' : j < n + 1 /\ KeyOf(j)' = key}
        BY <1>4 DEF Before
      <4>2. ~(n + 1 < n + 1)
        BY <1>1
      <4> QED BY <1>2, <1>3, <4>1, <4>2 DEF FieldsOf, SameField
    <3> QED BY <1>6, <3>1 DEF Rank
  <2> DEFINE is == LayoutOf(KeyOf(n + 1))'.fields
  <2>2. is = new.fields
    BY <1>4, <1>5 DEF LayoutOf
  <2>3. Len(old) \in Nat
    BY DEF LayoutsStand, IsSequence
  <2>4. Rank(n + 1)' \in 1..Len(is) /\ is[Rank(n + 1)'] = field
    <3> HIDE DEF is, old, new
    <3> QED BY <1>6, <2>1, <2>2, <2>3 DEF Grown
  <2>5. Held(n + 1)' = field
    BY <2>4 DEF Held
  <2>6. field.offset = OffsetOf(n + 1)'
    BY DEF Declares
  <2>7. Some(field.size) = InForce(7, n + 1)' /\ Some(field.count) = InForce(9, n + 1)'
    <3>1. \A tag : InForce(tag, n + 1)' = InForce(tag, n + 1)
      BY <1>1 DEF KeptGlobals
    <3>2. n + 1 \in 1..(Len(items) + 1) /\ ItemsTyped
      BY <1>1 DEF Grows
    <3>3. \A tag : InForce(tag, n + 1) = None \/ \E v \in Nat : InForce(tag, n + 1) = Some(v)
      BY <3>2, InForceIsNumber DEF NumbersInForce
    <3>4. global.size = InForce(7, n + 1) /\ global.count = InForce(9, n + 1)
      BY DEF GlobalAt
    <3>5. \A v : Some(Get(Some(v))) = Some(v)
      BY GetSome
    <3> QED BY <3>1, <3>3, <3>4, <3>5
  <2>8. field.usages = UsagesOf(n + 1)'
    BY <1>1 DEF KeptFields
  <2> QED BY <2>4, <2>5, <2>6, <2>7, <2>8 DEF Described
<1> QED BY <1>2, <1>7, <1>8, <1>10, <1>11, <1>12 DEF LayoutsStand

-----------------------------------------------------------------------------
(* The verdict, item by item.                                              *)

\* The rules at an earlier item are met or broken as before.
LEMMA LegalKept ==
  ASSUME NEW n, SameItems(n)
  PROVE  \A i \in 1..n : LegalItem(i)' <=> LegalItem(i)
<1> TAKE i \in 1..n
<1>1. n \in Nat /\ KeptItems(n) /\ KeptFields(n) /\ i \in 0..n
  BY ItemsKept, FieldsKept DEF SameItems
<1>2. Height(i)' = Height(i) /\ Nesting(i)' = Nesting(i) /\ (i \in Fields' <=> i \in Fields)
  BY <1>1, NestingsKept DEF KeptItems, KeptFields
<1>3. (Is(i, "Global", 8)' <=> Is(i, "Global", 8)) /\ items'[i] = items[i]
  BY <1>1 DEF KeptItems, SameItems
<1>4. i \in Fields => SameField(i)
  BY FieldKept
<1> QED BY <1>2, <1>3, <1>4 DEF LegalItem, SameField

\* So the verdict so far rests on the new item.
LEMMA LegalSoFar ==
  ASSUME NEW n, NEW item, Grows(item, n), \A i \in 1..n : LegalItem(i)
  PROVE  /\ Legal' <=> LegalItem(n + 1)'
         /\ LegalItem(n + 1)' => \A i \in 1..(n + 1) : LegalItem(i)'
<1>1. \A i \in 1..n : LegalItem(i)'
  BY LegalKept DEF Grows
<1>2. n \in Nat /\ Len(items') = n + 1 /\ ItemsTyped'
  BY DEF Grows
<1>3. 1..(n + 1) = 1..n \cup {n + 1}
  BY <1>2
<1>4. Legal' <=> \A i \in 1..Len(items') : LegalItem(i)'
  BY <1>2, LegalMeans DEF LegalByItem
<1> QED BY <1>1, <1>2, <1>3, <1>4

\* When the new item keeps the rules, in the terms of the parser's state.
Keeps(item, n) ==
  /\ Reads(item, "Global", 11) => stack # <<>>
  /\ Reads(item, "Main", 10) => depth + 1 <= MaxDepth
  /\ Reads(item, "Main", 12) => depth # 0
  /\ Reads(item, "Global", 8) => Value(item.data) \in 1..MaxByte
  /\ IsField(item) => /\ global.size # None /\ global.count # None
                      /\ OffsetOf(n + 1)' + WidthOf(n + 1)' <= MaxWord

\* Whether the new item is legal shows in what the pass keeps.
LEMMA LegalNow ==
  ASSUME NEW n, NEW item, Grows(item, n), Stands(n)
  PROVE  LegalItem(n + 1)' <=> Keeps(item, n)
<1>1. /\ n \in Nat /\ Brackets(item, n) /\ NewFields(item, n) /\ KeptGlobals(n) /\ n + 1 \in 1..(n + 1)
      /\ items'[n + 1].item = item /\ MaxDepth \in Nat
  BY GlobalsKept, NewBrackets, FieldsGrow, DepthAssumption DEF Grows
<1>2. Height(n + 1)' >= 0 <=> (Reads(item, "Global", 11) => stack # <<>>)
  <2>1. Height(n) = Len(stack) /\ Len(stack) \in Nat
    BY DEF Stands, StackStands, IsSequence
  <2>2. stack = <<>> <=> Len(stack) = 0
    <3>1. PICK C : stack \in Seq(C)
      BY SequenceOf DEF Stands, StackStands
    <3> QED BY <3>1
  <2>3. ~(Reads(item, "Global", 10) /\ Reads(item, "Global", 11))
    BY DEF Reads
  <2> QED BY <1>1, <2>1, <2>2, <2>3 DEF Brackets
<1>3. depth \in 0..MaxDepth
  <2>1. CASE n = 0
    BY <1>1, <2>1, Nestings DEF Stands, NestingSteps
  <2>2. CASE n # 0
    <3>1. n \in 1..n
      BY <1>1, <2>2
    <3> QED BY <3>1 DEF Stands, LegalItem
  <2> QED BY <2>1, <2>2
<1>4. Nesting(n + 1)' \in 0..MaxDepth <=>
        /\ Reads(item, "Main", 10) => depth + 1 <= MaxDepth
        /\ Reads(item, "Main", 12) => depth # 0
  <2>1. ~(Reads(item, "Main", 10) /\ Reads(item, "Main", 12))
    BY DEF Reads
  <2> DEFINE x == Nesting(n + 1)'
             opens == Reads(item, "Main", 10)
             ends == Reads(item, "Main", 12)
  <2>2. x = depth + (IF opens THEN 1 ELSE IF ends THEN -1 ELSE 0)
    BY <1>1 DEF Brackets, Stands
  <2> HIDE DEF x, opens, ends
  <2>3. ~(opens /\ ends)
    BY <2>1 DEF opens, ends
  <2>4. x \in 0..MaxDepth <=> ((opens => depth + 1 <= MaxDepth) /\ (ends => depth # 0))
    <3>1. MaxDepth \in Nat /\ depth \in 0..MaxDepth
      BY <1>1, <1>3
    <3>2. CASE opens
      BY <2>2, <2>3, <3>1, <3>2
    <3>3. CASE ends
      BY <2>2, <2>3, <3>1, <3>3
    <3>4. CASE ~opens /\ ~ends
      BY <2>2, <3>1, <3>4
    <3> QED BY <3>2, <3>3, <3>4
  <2> QED BY <2>4 DEF x, opens, ends
<1>5. (Is(n + 1, "Global", 8)' <=> Reads(item, "Global", 8)) /\ items'[n + 1].item = item
  BY <1>1 DEF Brackets
<1>6. n + 1 \in Fields' <=> IsField(item)
  BY <1>1 DEF NewFields
<1>7. InForce(7, n + 1)' = global.size /\ InForce(9, n + 1)' = global.count
  <2>1. \A tag : InForce(tag, n + 1)' = InForce(tag, n + 1)
    BY <1>1 DEF KeptGlobals
  <2> QED BY <2>1 DEF Stands, GlobalAt
<1> DEFINE fits == OffsetOf(n + 1)' + WidthOf(n + 1)' <= MaxWord
<1> HIDE DEF fits
<1>8. LegalItem(n + 1)' <=>
        /\ Height(n + 1)' >= 0 /\ Nesting(n + 1)' \in 0..MaxDepth
        /\ Reads(item, "Global", 8) => Value(item.data) \in 1..MaxByte
        /\ IsField(item) => global.size # None /\ global.count # None /\ fits
  BY <1>5, <1>6, <1>7 DEF LegalItem, fits
<1>9. Keeps(item, n) <=>
        /\ Reads(item, "Global", 11) => stack # <<>>
        /\ Reads(item, "Main", 10) => depth + 1 <= MaxDepth
        /\ Reads(item, "Main", 12) => depth # 0
        /\ Reads(item, "Global", 8) => Value(item.data) \in 1..MaxByte
        /\ IsField(item) => global.size # None /\ global.count # None /\ fits
  BY DEF Keeps, fits
<1> QED BY <1>2, <1>4, <1>8, <1>9

\* An item that breaks a rule is refused, and only the status changes.
LEMMA FailStands ==
  ASSUME NEW n, NEW item, Grows(item, n), Stands(n), ~Keeps(item, n), status' \notin Clean
  PROVE  PassInv'
<1>1. ~Legal'
  BY LegalNow, LegalSoFar DEF Stands
<1>2. ItemsTyped' /\ status' # "accepted" /\ status' \notin Unclosed
  BY DEF Grows, Clean
<1> QED BY <1>1, <1>2 DEF PassInv

\* One that keeps them leaves every part of the state as the items make it.
LEMMA StepStands ==
  ASSUME NEW n, NEW item, Grows(item, n), Stands(n), Keeps(item, n), status' = "open",
         global' = GlobalAt((n + 1) + 1)', StackStands(n + 1)', depth' = Nesting(n + 1)',
         usages' = UsagesOf((n + 1) + 1)', LayoutsStand(n + 1)'
  PROVE  PassInv'
<1>1. \A i \in 1..(n + 1) : LegalItem(i)'
  BY LegalNow, LegalSoFar DEF Stands
<1>2. ItemsTyped' /\ Len(items') = n + 1
  BY DEF Grows
<1>3. Stands(n + 1)'
  BY <1>1 DEF Stands
<1>4. \A m : m = Len(items') => Stands(m)'
  BY <1>2, <1>3
<1> QED BY <1>2, <1>4 DEF PassInv, Clean, Unclosed

-----------------------------------------------------------------------------
(* Every action keeps the invariant.                                       *)

Ready(item, n) == Grows(item, n) /\ Stands(n) /\ status = "open"

\* What an item is not, by its kind and its tag.
LEMMA KindsDiffer ==
  ASSUME NEW item
  PROVE  /\ \A tag : item.kind # "Main" => ~Reads(item, "Main", tag)
         /\ \A tag : item.kind # "Global" => ~Reads(item, "Global", tag)
         /\ \A tag : item.kind # "Local" => ~Reads(item, "Local", tag)
         /\ \A kind, tag : item.tag # tag => ~Reads(item, kind, tag)
         /\ IsField(item) <=> item.kind = "Main" /\ item.tag \in {8, 9, 11}
BY DEF Reads, IsField, ReportTypes, MainTag

\* The parts that no global item touches.
LEMMA GlobalItem ==
  ASSUME NEW n, NEW item, Ready(item, n), item.kind = "Global",
         depth' = depth, usages' = usages, layouts' = layouts
  PROVE  depth' = Nesting(n + 1)' /\ usages' = UsagesOf((n + 1) + 1)' /\ LayoutsStand(n + 1)'
<1>1. Grows(item, n) /\ depth = Nesting(n) /\ usages = UsagesOf(n + 1) /\ LayoutsStand(n)
  BY DEF Ready, Stands
<1>2. /\ ~Reads(item, "Main", 10) /\ ~Reads(item, "Main", 12) /\ ~Reads(item, "Local", 0)
      /\ ~IsField(item) /\ item.kind # "Main"
  BY KindsDiffer
<1> QED BY <1>1, <1>2, NestingStays, UsagesStay, LayoutsStay

\* SetGlobal keeps the pass in step with the items, or finds the item illegal.
LEMMA SetGlobalStands ==
  ASSUME NEW n, NEW item, Ready(item, n), SetGlobal(item)
  PROVE  PassInv'
<1>1. Grows(item, n) /\ Stands(n) /\ global = GlobalAt(n + 1) /\ StackStands(n)
  BY DEF Ready, Stands
<1>2. /\ item.kind = "Global" /\ item.tag \in {0, 7, 9}
      /\ stack' = stack /\ usages' = usages /\ depth' = depth /\ layouts' = layouts
      /\ status' = "open"
  BY DEF SetGlobal, Ready
<1>3. /\ ~Reads(item, "Global", 10) /\ ~Reads(item, "Global", 11) /\ ~Reads(item, "Global", 8)
      /\ ~Reads(item, "Main", 10) /\ ~Reads(item, "Main", 12) /\ ~IsField(item)
  BY <1>2, KindsDiffer
<1>4. Keeps(item, n)
  BY <1>3 DEF Keeps
<1>5. global' = GlobalAt((n + 1) + 1)'
  BY <1>1, GlobalSet
<1>6. StackStands(n + 1)'
  BY <1>1, <1>2, <1>3, StackStays
<1>7. depth' = Nesting(n + 1)' /\ usages' = UsagesOf((n + 1) + 1)' /\ LayoutsStand(n + 1)'
  BY <1>2, GlobalItem
<1> QED BY <1>1, <1>2, <1>4, <1>5, <1>6, <1>7, StepStands

\* So does ReportId.
LEMMA ReportIdStands ==
  ASSUME NEW n, NEW item, Ready(item, n), ReportId(item)
  PROVE  PassInv'
<1>1. Grows(item, n) /\ Stands(n) /\ global = GlobalAt(n + 1) /\ StackStands(n)
  BY DEF Ready, Stands
<1>2. item.kind = "Global" /\ item.tag = 8 /\ Reads(item, "Global", 8)
  BY DEF ReportId, Reads
<1>3. /\ ~Reads(item, "Global", 10) /\ ~Reads(item, "Global", 11)
      /\ ~Reads(item, "Main", 10) /\ ~Reads(item, "Main", 12) /\ ~IsField(item)
  BY <1>2, KindsDiffer
<1>4. CASE Value(item.data) \notin 1..MaxByte
  <2>1. ~Keeps(item, n)
    BY <1>2, <1>4 DEF Keeps
  <2>2. status' \notin Clean
    BY <1>4 DEF ReportId, Fail, Clean, Unclosed
  <2> QED BY <1>1, <2>1, <2>2, FailStands
<1>5. CASE Value(item.data) \in 1..MaxByte
  <2>1. /\ stack' = stack /\ usages' = usages /\ depth' = depth /\ layouts' = layouts
        /\ status' = "open" /\ global' = [global EXCEPT !.id = Value(item.data)]
    BY <1>5 DEF ReportId, Ready
  <2>2. Keeps(item, n)
    BY <1>3, <1>5 DEF Keeps
  <2>3. global' = GlobalAt((n + 1) + 1)'
    BY <1>1, <1>2, <2>1, IdSet
  <2>4. StackStands(n + 1)'
    BY <1>1, <1>3, <2>1, StackStays
  <2>5. depth' = Nesting(n + 1)' /\ usages' = UsagesOf((n + 1) + 1)' /\ LayoutsStand(n + 1)'
    BY <1>2, <2>1, GlobalItem
  <2> QED BY <1>1, <2>1, <2>2, <2>3, <2>4, <2>5, StepStands
<1> QED BY <1>4, <1>5

\* So does PushGlobal.
LEMMA PushGlobalStands ==
  ASSUME NEW n, NEW item, Ready(item, n), PushGlobal(item)
  PROVE  PassInv'
<1>1. Grows(item, n) /\ Stands(n) /\ global = GlobalAt(n + 1) /\ StackStands(n)
  BY DEF Ready, Stands
<1>2. /\ item.kind = "Global" /\ item.tag = 10 /\ global' = global
      /\ usages' = usages /\ depth' = depth /\ layouts' = layouts /\ status' = "open"
  BY DEF PushGlobal, Ready
<1>3. /\ \A tag \in {0, 7, 8, 9, 11} : ~Reads(item, "Global", tag)
      /\ ~Reads(item, "Main", 10) /\ ~Reads(item, "Main", 12) /\ ~IsField(item)
  BY <1>2, KindsDiffer
<1>4. Keeps(item, n)
  BY <1>3 DEF Keeps
<1>5. global' = GlobalAt((n + 1) + 1)'
  BY <1>1, <1>2, <1>3, GlobalStays
<1>6. StackStands(n + 1)'
  BY <1>1, StackPushed
<1>7. depth' = Nesting(n + 1)' /\ usages' = UsagesOf((n + 1) + 1)' /\ LayoutsStand(n + 1)'
  BY <1>2, GlobalItem
<1> QED BY <1>1, <1>2, <1>4, <1>5, <1>6, <1>7, StepStands

\* So does PopGlobal.
LEMMA PopGlobalStands ==
  ASSUME NEW n, NEW item, Ready(item, n), PopGlobal(item)
  PROVE  PassInv'
<1>1. Grows(item, n) /\ Stands(n) /\ StackStands(n)
  BY DEF Ready, Stands
<1>2. item.kind = "Global" /\ item.tag = 11 /\ Reads(item, "Global", 11)
  BY DEF PopGlobal, Reads
<1>3. /\ ~Reads(item, "Global", 10) /\ ~Reads(item, "Global", 8)
      /\ ~Reads(item, "Main", 10) /\ ~Reads(item, "Main", 12) /\ ~IsField(item)
  BY <1>2, KindsDiffer
<1>4. CASE stack = <<>>
  <2>1. ~Keeps(item, n)
    BY <1>2, <1>4 DEF Keeps
  <2>2. status' \notin Clean
    BY <1>4 DEF PopGlobal, Fail, Clean, Unclosed
  <2> QED BY <1>1, <2>1, <2>2, FailStands
<1>5. CASE stack # <<>>
  <2>1. /\ global' = Last(stack) /\ stack' = Front(stack)
        /\ usages' = usages /\ depth' = depth /\ layouts' = layouts /\ status' = "open"
    BY <1>5 DEF PopGlobal, Restored, Ready
  <2>2. Keeps(item, n)
    BY <1>3, <1>5 DEF Keeps
  <2>3. StackStands(n + 1)' /\ global' = GlobalAt((n + 1) + 1)'
    BY <1>1, <1>2, <1>5, <2>1, StackPopped
  <2>4. depth' = Nesting(n + 1)' /\ usages' = UsagesOf((n + 1) + 1)' /\ LayoutsStand(n + 1)'
    BY <1>2, <2>1, GlobalItem
  <2> QED BY <1>1, <2>1, <2>2, <2>3, <2>4, StepStands
<1> QED BY <1>4, <1>5

\* So does Usage.
LEMMA UsageStands ==
  ASSUME NEW n, NEW item, Ready(item, n), Usage(item)
  PROVE  PassInv'
<1>1. /\ Grows(item, n) /\ Stands(n) /\ global = GlobalAt(n + 1) /\ StackStands(n)
      /\ depth = Nesting(n) /\ usages = UsagesOf(n + 1) /\ LayoutsStand(n)
  BY DEF Ready, Stands
<1>2. /\ item.kind = "Local" /\ global' = global /\ stack' = stack
      /\ depth' = depth /\ layouts' = layouts /\ status' = "open"
  BY DEF Usage, Ready
<1>3. /\ \A tag : ~Reads(item, "Global", tag) /\ ~Reads(item, "Main", tag)
      /\ ~IsField(item)
  BY <1>2, KindsDiffer
<1>4. Keeps(item, n)
  BY <1>3 DEF Keeps
<1>5. global' = GlobalAt((n + 1) + 1)'
  BY <1>1, <1>2, <1>3, GlobalStays
<1>6. StackStands(n + 1)' /\ depth' = Nesting(n + 1)' /\ LayoutsStand(n + 1)'
  BY <1>1, <1>2, <1>3, StackStays, NestingStays, LayoutsStay
<1>7. usages' = UsagesOf((n + 1) + 1)'
  BY <1>1, UsageAdded
<1> QED BY <1>1, <1>2, <1>4, <1>5, <1>6, <1>7, StepStands

\* The parts that main items treat alike.
LEMMA MainItem ==
  ASSUME NEW n, NEW item, Ready(item, n), item.kind = "Main",
         global' = global, stack' = stack, usages' = <<>>
  PROVE  global' = GlobalAt((n + 1) + 1)' /\ StackStands(n + 1)' /\ usages' = UsagesOf((n + 1) + 1)'
<1>1. Grows(item, n) /\ global = GlobalAt(n + 1) /\ StackStands(n)
  BY DEF Ready, Stands
<1>2. \A tag : ~Reads(item, "Global", tag)
  BY KindsDiffer
<1> QED BY <1>1, <1>2, GlobalStays, StackStays, UsagesClear

\* So does OpenCollection.
LEMMA OpenCollectionStands ==
  ASSUME NEW n, NEW item, Ready(item, n), OpenCollection(item)
  PROVE  PassInv'
<1>1. Grows(item, n) /\ Stands(n) /\ depth = Nesting(n) /\ LayoutsStand(n) /\ Brackets(item, n)
  BY NewBrackets DEF Ready, Stands
<1>2. item.kind = "Main" /\ item.tag = 10 /\ Reads(item, "Main", 10)
  BY DEF OpenCollection, Reads
<1>3. /\ \A tag : ~Reads(item, "Global", tag)
      /\ ~Reads(item, "Main", 12) /\ ~IsField(item)
  BY <1>2, KindsDiffer
<1>4. depth + 1 \in Int /\ MaxDepth \in Int
  BY <1>1, DepthAssumption DEF Brackets
<1>5. CASE TooDeep(depth + 1)
  <2>1. ~Keeps(item, n)
    BY <1>2, <1>4, <1>5 DEF Keeps, TooDeep
  <2>2. status' \notin Clean
    BY <1>5 DEF OpenCollection, Fail, Clean, Unclosed
  <2> QED BY <1>1, <2>1, <2>2, FailStands
<1>6. CASE ~TooDeep(depth + 1)
  <2>1. /\ depth' = depth + 1 /\ usages' = <<>>
        /\ global' = global /\ stack' = stack /\ layouts' = layouts /\ status' = "open"
    BY <1>6 DEF OpenCollection, Ready
  <2>2. Keeps(item, n)
    BY <1>3, <1>4, <1>6 DEF Keeps, TooDeep
  <2>3. depth' = Nesting(n + 1)'
    BY <1>1, <1>2, <2>1 DEF Brackets
  <2>4. LayoutsStand(n + 1)'
    BY <1>1, <1>3, <2>1, LayoutsStay
  <2>5. global' = GlobalAt((n + 1) + 1)' /\ StackStands(n + 1)' /\ usages' = UsagesOf((n + 1) + 1)'
    BY <1>2, <2>1, MainItem
  <2> QED BY <1>1, <2>1, <2>2, <2>3, <2>4, <2>5, StepStands
<1> QED BY <1>5, <1>6

\* So does EndCollection.
LEMMA EndCollectionStands ==
  ASSUME NEW n, NEW item, Ready(item, n), EndCollection(item)
  PROVE  PassInv'
<1>1. Grows(item, n) /\ Stands(n) /\ depth = Nesting(n) /\ LayoutsStand(n) /\ Brackets(item, n)
  BY NewBrackets DEF Ready, Stands
<1>2. item.kind = "Main" /\ item.tag = 12 /\ Reads(item, "Main", 12)
  BY DEF EndCollection, Reads
<1>3. /\ \A tag : ~Reads(item, "Global", tag)
      /\ ~Reads(item, "Main", 10) /\ ~IsField(item)
  BY <1>2, KindsDiffer
<1>4. depth \in Int
  BY <1>1 DEF Brackets
<1>5. CASE depth = 0
  <2>1. ~Keeps(item, n)
    BY <1>2, <1>5 DEF Keeps
  <2>2. status' \notin Clean
    BY <1>5 DEF EndCollection, Fail, Clean, Unclosed
  <2> QED BY <1>1, <2>1, <2>2, FailStands
<1>6. CASE depth # 0
  <2>1. /\ depth' = depth - 1 /\ usages' = <<>>
        /\ global' = global /\ stack' = stack /\ layouts' = layouts /\ status' = "open"
    BY <1>6 DEF EndCollection, Ready
  <2>2. Keeps(item, n)
    BY <1>3, <1>6 DEF Keeps
  <2>3. depth' = Nesting(n + 1)'
    BY <1>1, <1>2, <1>3, <1>4, <2>1 DEF Brackets
  <2>4. LayoutsStand(n + 1)'
    BY <1>1, <1>3, <2>1, LayoutsStay
  <2>5. global' = GlobalAt((n + 1) + 1)' /\ StackStands(n + 1)' /\ usages' = UsagesOf((n + 1) + 1)'
    BY <1>2, <2>1, MainItem
  <2> QED BY <1>1, <2>1, <2>2, <2>3, <2>4, <2>5, StepStands
<1> QED BY <1>5, <1>6

\* So does DeclareField.
LEMMA DeclareFieldStands ==
  ASSUME NEW n, NEW item, Ready(item, n), DeclareField(item)
  PROVE  PassInv'
<1>1. /\ Grows(item, n) /\ Stands(n) /\ global = GlobalAt(n + 1) /\ LayoutsStand(n)
      /\ depth = Nesting(n) /\ usages = UsagesOf(n + 1)
  BY DEF Ready, Stands
<1>2. PICK type \in ReportTypes :
        /\ item.tag = MainTag[type]
        /\ IF global.size = None THEN Fail("MissingReportSize")
          ELSE IF global.count = None THEN Fail("MissingReportCount")
          ELSE LET key == <<type, global.id>>
                   start == LayoutOf(key).bits
                   width == Get(global.size) * Get(global.count)
                   flags == Value(item.data)
                   field == [offset |-> start, size |-> Get(global.size),
                             count |-> Get(global.count), flags |-> flags,
                             variable |-> (flags \div 2) % 2 = 1, usages |-> usages]
               IN IF Overflows(width) \/ Overflows(start + width) THEN Fail("ArithmeticOverflow")
                  ELSE /\ layouts' = [k \in DOMAIN layouts \cup {key} |->
                            IF k = key
                            THEN [bits |-> start + width,
                                  fields |-> Append(LayoutOf(key).fields, field)]
                            ELSE layouts[k]]
                       /\ usages' = <<>>
                       /\ UNCHANGED <<global, stack, depth, status>>
  BY DEF DeclareField
<1>3. item.kind = "Main" /\ Reads(item, "Main", MainTag[type]) /\ IsField(item)
  BY <1>2 DEF DeclareField, Reads, IsField
<1>4. /\ \A tag : ~Reads(item, "Global", tag)
      /\ ~Reads(item, "Main", 10) /\ ~Reads(item, "Main", 12)
  BY <1>3, KindsDiffer
<1>5. CASE global.size = None \/ global.count = None
  <2>1. ~Keeps(item, n)
    BY <1>3, <1>5 DEF Keeps
  <2>2. status' \notin Clean
    BY <1>2, <1>5 DEF Fail, Clean, Unclosed
  <2> QED BY <1>1, <2>1, <2>2, FailStands
<1>6. CASE global.size # None /\ global.count # None
  <2>1. PICK key, start, width, field :
          /\ key = <<type, global.id>> /\ start = LayoutOf(key).bits
          /\ width = Get(global.size) * Get(global.count)
          /\ field = [offset |-> start, size |-> Get(global.size),
                      count |-> Get(global.count), flags |-> Value(item.data),
                      variable |-> (Value(item.data) \div 2) % 2 = 1, usages |-> usages]
    OBVIOUS
  <2>2. IF Overflows(width) \/ Overflows(start + width) THEN Fail("ArithmeticOverflow")
        ELSE /\ layouts' = [k \in DOMAIN layouts \cup {key} |->
                  IF k = key
                  THEN [bits |-> start + width, fields |-> Append(LayoutOf(key).fields, field)]
                  ELSE layouts[k]]
             /\ usages' = <<>>
             /\ UNCHANGED <<global, stack, depth, status>>
    BY <1>2, <1>6, <2>1
  <2>3. Declares(item, n, key, start, width)
    BY <1>1, <1>3, <1>6, <2>1, FieldDeclared
  <2>4. start \in Nat /\ width \in Nat /\ MaxWord \in Int
        /\ OffsetOf(n + 1)' + WidthOf(n + 1)' = start + width
    BY <2>3, BaseAssumption DEF Declares, MaxWord
  <2>5. CASE Overflows(width) \/ Overflows(start + width)
    <3>1. ~(start + width <= MaxWord)
      BY <2>4, <2>5 DEF Overflows
    <3>2. ~Keeps(item, n)
      BY <1>3, <2>4, <3>1 DEF Keeps
    <3>3. status' \notin Clean
      BY <2>2, <2>5 DEF Fail, Clean, Unclosed
    <3> QED BY <1>1, <3>2, <3>3, FailStands
  <2>6. CASE ~(Overflows(width) \/ Overflows(start + width))
    <3>1. start + width <= MaxWord
      BY <2>4, <2>6 DEF Overflows
    <3>2. Keeps(item, n)
      BY <1>4, <1>6, <2>4, <3>1 DEF Keeps
    <3>3. /\ layouts' = [k \in DOMAIN layouts \cup {key} |->
                IF k = key
                THEN [bits |-> start + width, fields |-> Append(LayoutOf(key).fields, field)]
                ELSE layouts[k]]
          /\ usages' = <<>> /\ global' = global /\ stack' = stack /\ depth' = depth
          /\ status' = "open"
      BY <2>2, <2>6 DEF Ready
    <3>4. field.offset = start /\ field.size = Get(global.size)
          /\ field.count = Get(global.count) /\ field.usages = usages
      BY <2>1
    <3>5. LayoutsStand(n + 1)'
      BY <1>1, <1>6, <2>3, <3>3, <3>4, LayoutsGrow
    <3>6. depth' = Nesting(n + 1)'
      BY <1>1, <1>4, <3>3, NestingStays
    <3>7. global' = GlobalAt((n + 1) + 1)' /\ StackStands(n + 1)' /\ usages' = UsagesOf((n + 1) + 1)'
      BY <1>3, <3>3, MainItem
    <3> QED BY <1>1, <3>2, <3>3, <3>5, <3>6, <3>7, StepStands
  <2> QED BY <2>5, <2>6
<1> QED BY <1>5, <1>6

\* So does OtherMain.
LEMMA OtherMainStands ==
  ASSUME NEW n, NEW item, Ready(item, n), OtherMain(item)
  PROVE  PassInv'
<1>1. Grows(item, n) /\ Stands(n) /\ depth = Nesting(n) /\ LayoutsStand(n)
  BY DEF Ready, Stands
<1>2. /\ item.kind = "Main" /\ item.tag \notin {8, 9, 10, 11, 12}
      /\ usages' = <<>> /\ global' = global /\ stack' = stack
      /\ depth' = depth /\ layouts' = layouts /\ status' = "open"
  BY DEF OtherMain, Ready
<1>3. /\ \A tag : ~Reads(item, "Global", tag)
      /\ ~Reads(item, "Main", 10) /\ ~Reads(item, "Main", 12) /\ ~IsField(item)
  BY <1>2, KindsDiffer
<1>4. Keeps(item, n)
  BY <1>3 DEF Keeps
<1>5. depth' = Nesting(n + 1)' /\ LayoutsStand(n + 1)'
  BY <1>1, <1>2, <1>3, NestingStays, LayoutsStay
<1>6. global' = GlobalAt((n + 1) + 1)' /\ StackStands(n + 1)' /\ usages' = UsagesOf((n + 1) + 1)'
  BY <1>2, MainItem
<1> QED BY <1>1, <1>2, <1>4, <1>5, <1>6, StepStands

\* So does Ignored.
LEMMA IgnoredStands ==
  ASSUME NEW n, NEW item, Ready(item, n), Ignored(item)
  PROVE  PassInv'
<1>1. /\ Grows(item, n) /\ Stands(n) /\ depth = Nesting(n) /\ LayoutsStand(n)
      /\ global = GlobalAt(n + 1) /\ StackStands(n) /\ usages = UsagesOf(n + 1)
  BY DEF Ready, Stands
<1>2. /\ usages' = usages /\ global' = global /\ stack' = stack
      /\ depth' = depth /\ layouts' = layouts /\ status' = "open"
  BY DEF Ignored, Ready
<1>3. /\ item.kind # "Main"
      /\ item.kind = "Global" => item.tag \notin {0, 7, 8, 9, 10, 11}
      /\ item.kind = "Local" => item.tag # 0
  BY DEF Ignored
<1>4. /\ \A tag \in {0, 7, 8, 9, 10, 11} : ~Reads(item, "Global", tag)
      /\ ~Reads(item, "Main", 10) /\ ~Reads(item, "Main", 12) /\ ~IsField(item)
      /\ ~Reads(item, "Local", 0)
  BY <1>3, KindsDiffer
<1>5. Keeps(item, n)
  BY <1>4 DEF Keeps
<1>6. global' = GlobalAt((n + 1) + 1)' /\ StackStands(n + 1)'
  <2>1. \A tag \in {0, 7, 8, 9, 11} : ~Reads(item, "Global", tag)
    BY <1>4
  <2> QED BY <1>1, <1>2, <1>4, <2>1, GlobalStays, StackStays
<1>7. depth' = Nesting(n + 1)' /\ usages' = UsagesOf((n + 1) + 1)' /\ LayoutsStand(n + 1)'
  BY <1>1, <1>2, <1>3, <1>4, NestingStays, UsagesStay, LayoutsStay
<1> QED BY <1>1, <1>2, <1>5, <1>6, <1>7, StepStands

-----------------------------------------------------------------------------
(* How an item is written, and that it is read back.                       *)

\* One sequence after another.
Joined(e, s, t) ==
  /\ Len(e) = Len(s) + Len(t)
  /\ \A k \in 1..Len(s) : e[k] = s[k]
  /\ \A k \in 1..Len(t) : e[Len(s) + k] = t[k]

\* A sequence over a set is one over a larger set.
LEMMA SeqWidens ==
  ASSUME NEW D, NEW E, D \in SUBSET E, NEW s \in Seq(D)
  PROVE  s \in Seq(E) /\ Len(s) \in Nat
<1>1. Len(s) \in Nat /\ s = [k \in 1..Len(s) |-> s[k]] /\ \A k \in 1..Len(s) : s[k] \in E
  OBVIOUS
<1>2. s \in [1..Len(s) -> E]
  BY <1>1
<1> QED BY <1>1, <1>2

\* Concatenated bytes, part by part.
LEMMA JoinedUp ==
  ASSUME NEW s \in Seq(Nat), NEW t \in Seq(Nat)
  PROVE  s \o t \in Seq(Nat) /\ Joined(s \o t, s, t)
BY ConcatProperties DEF Joined

IsShort(item) ==
  /\ item.kind \in Range(Types) /\ item.tag \in 0..15 /\ item.data \in Seq(0..MaxByte)
  /\ Len(item.data) \in {0, 1, 2, 4} /\ Encode(item)[1] # LongPrefix
  /\ item = Short(item.kind, item.tag, item.data)
IsLongItem(item) ==
  /\ item.kind = "Long" /\ item.tag \in 0..255 /\ item.data \in Seq(0..255)
  /\ item = Long(item.tag, item.data)

\* What a device can write is a short item or a long one.
LEMMA WritableKinds ==
  ASSUME NEW item \in Writable
  PROVE  (IsShort(item) /\ item.kind # "Long") \/ IsLongItem(item)
<1> DEFINE R == Range(Types)
           D == Seq(0..MaxByte)
           L == Seq(0..255)
<1>1. "Long" \notin R
  BY DEF Range, Types
<1> HIDE DEF R, D, L
<1>2. \/ item \in [kind : {"Long"}, tag : 0..255, data : L]
      \/ /\ item \in [kind : R, tag : 0..15, data : D]
         /\ Len(item.data) \in {0, 1, 2, 4} /\ Encode(item)[1] # LongPrefix
  BY DEF Writable, R, D, L
<1>3. ASSUME item \in [kind : {"Long"}, tag : 0..255, data : L] PROVE IsLongItem(item)
  <2>1. item.kind = "Long" /\ item.tag \in 0..255 /\ item.data \in L
    BY <1>3
  <2>2. item = [kind |-> "Long", tag |-> item.tag, data |-> item.data]
    BY <1>3
  <2> QED BY <2>1, <2>2 DEF IsLongItem, Long, L
<1>4. ASSUME item \in [kind : R, tag : 0..15, data : D],
             Len(item.data) \in {0, 1, 2, 4} /\ Encode(item)[1] # LongPrefix
      PROVE  IsShort(item) /\ item.kind # "Long"
  <2>1. item.kind \in R /\ item.tag \in 0..15 /\ item.data \in D
    BY <1>4
  <2>2. item = [kind |-> item.kind, tag |-> item.tag, data |-> item.data]
    BY <1>4
  <2> QED BY <1>1, <1>4, <2>1, <2>2 DEF IsShort, Short, R, D
<1> QED BY <1>2, <1>3, <1>4

\* The codes in the prefix of a short item.
LEMMA ShortCodes ==
  ASSUME NEW item, IsShort(item)
  PROVE  /\ TypeCode(item.kind) \in 0..3 /\ Types[TypeCode(item.kind) + 1] = item.kind
         /\ SizeCode(item.data) \in 0..3
         /\ <<0, 1, 2, 4>>[SizeCode(item.data) + 1] = Len(item.data)
<1>1. \E i \in 0..3 : Types[i + 1] = item.kind
  <2>1. PICK j \in 1..4 : Types[j] = item.kind
    BY DEF IsShort, Range, Types
  <2>2. j - 1 \in 0..3 /\ (j - 1) + 1 = j
    OBVIOUS
  <2> QED BY <2>1, <2>2
<1>2. \E i \in 0..3 : <<0, 1, 2, 4>>[i + 1] = Len(item.data)
  <2> DEFINE l == Len(item.data)
  <2>1. l \in {0, 1, 2, 4}
    BY DEF IsShort
  <2> HIDE DEF l
  <2>2. <<0, 1, 2, 4>>[0 + 1] = 0 /\ <<0, 1, 2, 4>>[1 + 1] = 1
        /\ <<0, 1, 2, 4>>[2 + 1] = 2 /\ <<0, 1, 2, 4>>[3 + 1] = 4
    OBVIOUS
  <2>3. 0 \in 0..3 /\ 1 \in 0..3 /\ 2 \in 0..3 /\ 3 \in 0..3
    OBVIOUS
  <2>4. \E i \in 0..3 : <<0, 1, 2, 4>>[i + 1] = l
    BY <2>1, <2>2, <2>3
  <2> QED BY <2>4 DEF l
<1>3. TypeCode(item.kind) \in 0..3 /\ Types[TypeCode(item.kind) + 1] = item.kind
  BY <1>1 DEF TypeCode
<1>4. SizeCode(item.data) \in 0..3 /\ <<0, 1, 2, 4>>[SizeCode(item.data) + 1] = Len(item.data)
  BY <1>2 DEF SizeCode
<1> QED BY <1>3, <1>4

\* The bytes of an item: its head and its data.
HeadOf(item) ==
  IF item.kind = "Long" THEN <<LongPrefix, Len(item.data), item.tag>>
  ELSE <<item.tag * 16 + TypeCode(item.kind) * 4 + SizeCode(item.data)>>

\* An encoding is the head and then the data, and never empty.
LEMMA Encoded ==
  ASSUME NEW item \in Writable
  PROVE  /\ Encode(item) \in Seq(Nat) /\ item.data \in Seq(Nat)
         /\ HeadOf(item) \in Seq(Nat) /\ Joined(Encode(item), HeadOf(item), item.data)
         /\ Len(Encode(item)) \in Nat \ {0}
<1>1. Encode(item) = HeadOf(item) \o item.data
  BY DEF Encode, HeadOf
<1>2. item.data \in Seq(Nat) /\ HeadOf(item) \in Seq(Nat) /\ Len(HeadOf(item)) \in {1, 3}
  <2>1. CASE IsShort(item) /\ item.kind # "Long"
    <3> DEFINE a == TypeCode(item.kind)
               b == SizeCode(item.data)
    <3>1. a \in 0..3 /\ b \in 0..3 /\ item.tag \in 0..15
      BY <2>1, ShortCodes DEF IsShort
    <3>2. item.data \in Seq(Nat)
      <4>1. 0..MaxByte \in SUBSET Nat
        BY BaseAssumption DEF MaxByte
      <4> DEFINE D == 0..MaxByte
      <4> HIDE DEF D
      <4>2. item.data \in Seq(D) /\ D \in SUBSET Nat
        BY <2>1, <4>1 DEF IsShort, D
      <4> QED BY <4>2, SeqWidens
    <3>3. HeadOf(item) = <<item.tag * 16 + a * 4 + b>>
      BY <2>1 DEF HeadOf
    <3> HIDE DEF a, b
    <3>4. item.tag * 16 + a * 4 + b \in Nat
      BY <3>1
    <3> QED BY <3>2, <3>3, <3>4
  <2>2. CASE IsLongItem(item)
    <3>1. item.data \in Seq(Nat) /\ Len(item.data) \in Nat /\ item.tag \in Nat
      <4> DEFINE D == 0..255
      <4>3. D \in SUBSET Nat
        OBVIOUS
      <4>1. item.tag \in Nat
        <5>1. item.tag \in 0..255
          BY <2>2 DEF IsLongItem
        <5> QED BY <5>1
      <4>2. item.data \in Seq(D)
        BY <2>2 DEF IsLongItem
      <4> HIDE DEF D
      <4> QED BY <4>1, <4>2, <4>3, SeqWidens
    <3>2. HeadOf(item) = <<254, Len(item.data), item.tag>>
      BY <2>2 DEF HeadOf, IsLongItem, LongPrefix
    <3> QED BY <3>1, <3>2
  <2> QED BY <2>1, <2>2, WritableKinds
<1> DEFINE h == HeadOf(item)
           d == item.data
<1> HIDE DEF h, d
<1>5. h \in Seq(Nat) /\ d \in Seq(Nat) /\ Len(h) \in {1, 3}
  BY <1>2 DEF h, d
<1>3. h \o d \in Seq(Nat) /\ Joined(h \o d, h, d) /\ Len(d) \in Nat /\ Len(h) \in Nat \ {0}
  BY <1>5, JoinedUp
<1>4. Len(h \o d) \in Nat \ {0}
  <2>1. Len(h \o d) = Len(h) + Len(d)
    BY <1>3 DEF Joined
  <2> QED BY <1>3, <2>1
<1> QED BY <1>1, <1>2, <1>3, <1>4 DEF h, d

\* A sequence is found at a place of another.
FoundAt(s, o, e) == o + Len(e) <= Len(s) /\ \A k \in 1..Len(e) : s[o + k] = e[k]

\* The bytes found at a place are a part of the whole.
LEMMA FoundIsSubSeq ==
  ASSUME NEW s \in Seq(Nat), NEW t \in Seq(Nat), NEW o \in Nat, FoundAt(s, o, t)
  PROVE  SubSeq(s, o + 1, o + Len(t)) = t
<1> DEFINE m == o + 1
           n == o + Len(t)
           u == SubSeq(s, m, n)
<1>1. m \in Int /\ n \in Int /\ Len(t) \in Nat
  OBVIOUS
<1>2. \A i \in m..n : s[i] \in Nat
  <2> TAKE i \in m..n
  <2>1. i \in 1..Len(s)
    BY <1>1 DEF FoundAt
  <2> QED BY <2>1
<1>3. n - m + 1 = Len(t) /\ (m <= n => n - m + 1 = Len(t)) /\ (~(m <= n) => Len(t) = 0)
  BY <1>1
<1> HIDE DEF m, n
<1>4. /\ u \in Seq(Nat) /\ Len(u) = IF m <= n THEN n - m + 1 ELSE 0
      /\ \A i \in 1..(n - m + 1) : u[i] = s[m + i - 1]
  <2>1. /\ SubSeq(s, m, n) \in Seq(Nat)
        /\ Len(SubSeq(s, m, n)) = IF m <= n THEN n - m + 1 ELSE 0
        /\ \A i \in 1..(n - m + 1) : SubSeq(s, m, n)[i] = s[m + i - 1]
    BY <1>1, <1>2, SubSeqProperties
  <2>2. u = SubSeq(s, m, n)
    OBVIOUS
  <2> HIDE DEF u
  <2>3. u \in Seq(Nat) /\ Len(u) = IF m <= n THEN n - m + 1 ELSE 0
    BY <2>1, <2>2
  <2>4. \A i \in 1..(n - m + 1) : u[i] = s[m + i - 1]
    BY <2>1, <2>2
  <2> QED BY <2>3, <2>4
<1> HIDE DEF u
<1>5. Len(u) = Len(t)
  BY ONLY <1>1, <1>3, <1>4
<1>6. \A i \in 1..Len(t) : u[i] = t[i]
  <2> TAKE i \in 1..Len(t)
  <2>1. u[i] = s[m + i - 1]
    BY <1>3, <1>4
  <2>2. m + i - 1 = o + i
    BY <1>1 DEF m
  <2> QED BY <2>1, <2>2 DEF FoundAt
<1>7. u = t
  BY <1>4, <1>5, <1>6, SeqEqual
<1> QED BY <1>7 DEF u, m, n

\* A prefix byte and its parts.
PutTogether(p, t, a, b) == p = t * 16 + a * 4 + b
TakenApart(p, t, a, b) == p \in Nat /\ p % 4 = b /\ (p \div 4) % 4 = a /\ p \div 16 = t

\* The tag, type and size that make up a prefix are found in it again.
LEMMA PrefixParts ==
  ASSUME NEW t \in 0..15, NEW a \in 0..3, NEW b \in 0..3, NEW p, PutTogether(p, t, a, b)
  PROVE  TakenApart(p, t, a, b)
<1> USE DEF PutTogether, TakenApart
<1>1. p \in Nat /\ p = 4 * (t * 4 + a) + b /\ p = 16 * t + (a * 4 + b) /\ a * 4 + b \in 0..15
  OBVIOUS
<1>2. p % 4 = b /\ p \div 4 = t * 4 + a
  BY <1>1
<1>3. (t * 4 + a) % 4 = a
  OBVIOUS
<1>4. p \div 16 = t
  BY <1>1
<1> QED BY <1>1, <1>2, <1>3, <1>4

\* Where an item is written, that item is read.
Decodes(s, o, item) ==
  Missing(s, o) = None /\ EndOf(s, o) = o + Len(Encode(item)) /\ ItemAt(s, o) = item

\* A short item is read as what was written.
LEMMA ShortDecoded ==
  ASSUME NEW s \in Seq(Nat), NEW o \in Nat, NEW item \in Writable, IsShort(item),
         item.kind # "Long", FoundAt(s, o, Encode(item))
  PROVE  Decodes(s, o, item)
<1> DEFINE e == Encode(item)
           d == item.data
           a == TypeCode(item.kind)
           b == SizeCode(item.data)
           p == item.tag * 16 + a * 4 + b
           n == Len(d)
<1>1. /\ a \in 0..3 /\ Types[a + 1] = item.kind /\ b \in 0..3 /\ <<0, 1, 2, 4>>[b + 1] = n
      /\ item.tag \in 0..15
  BY ShortCodes DEF IsShort
<1>2. p \in Nat /\ p % 4 = b /\ (p \div 4) % 4 = a /\ p \div 16 = item.tag
  <2>1. PutTogether(p, item.tag, a, b)
    BY DEF PutTogether
  <2> HIDE DEF a, b, p
  <2>2. TakenApart(p, item.tag, a, b)
    BY <1>1, <2>1, PrefixParts
  <2> QED BY <2>2 DEF TakenApart
<1>3. HeadOf(item) = <<p>>
  BY DEF HeadOf
<1>4. /\ d \in Seq(Nat) /\ n \in Nat /\ Len(e) = 1 + n /\ e[1] = p
      /\ \A k \in 1..n : e[1 + k] = d[k]
  <2>1. d \in Seq(Nat) /\ Joined(e, <<p>>, d)
    BY <1>3, Encoded
  <2> HIDE DEF e, d, p
  <2>2. 1 \in 1..Len(<<p>>) /\ Len(<<p>>) = 1 /\ <<p>>[1] = p
    OBVIOUS
  <2> QED BY <2>1, <2>2 DEF Joined
<1>5. p # LongPrefix
  BY <1>4 DEF IsShort
<1>6. o + Len(e) <= Len(s) /\ \A k \in 1..Len(e) : s[o + k] = e[k]
  BY DEF FoundAt
<1>7. item = Short(item.kind, item.tag, d)
  BY DEF IsShort
<1> HIDE DEF e, d, a, b, p, n
<1>8. s[o + 1] = p
  <2>1. 1 \in 1..Len(e)
    BY <1>4
  <2> QED BY <1>4, <1>6, <2>1
<1>9. FoundAt(s, o + 1, d)
  <2>1. (o + 1) + n <= Len(s)
    BY <1>4, <1>6
  <2>2. \A k \in 1..n : s[(o + 1) + k] = d[k]
    <3> TAKE k \in 1..n
    <3>1. 1 + k \in 1..Len(e) /\ o + (1 + k) = (o + 1) + k
      BY <1>4
    <3> QED BY <1>4, <1>6, <3>1
  <2> QED BY <2>1, <2>2 DEF FoundAt, n
<1>10. ~IsLong(s, o)
  BY <1>5, <1>8 DEF IsLong
<1>11. DataStart(s, o) = o + 1 /\ DataSize(s, o) = n
  BY <1>1, <1>2, <1>8, <1>10 DEF DataStart, DataSize, TwoBits
<1>12. EndOf(s, o) = (o + 1) + n
  BY <1>11 DEF EndOf
<1>13. Missing(s, o) = None
  <2>1. ~((o + 1) + n > Len(s))
    BY <1>4, <1>6
  <2> QED BY <1>10, <1>12, <2>1 DEF Missing
<1>14. SubSeq(s, DataStart(s, o) + 1, EndOf(s, o)) = d
  <2>1. SubSeq(s, (o + 1) + 1, (o + 1) + Len(d)) = d
    BY <1>4, <1>9, FoundIsSubSeq
  <2> QED BY <1>11, <1>12, <2>1 DEF n
<1>15. ItemAt(s, o) = Short(Types[a + 1], item.tag, d)
  BY <1>2, <1>8, <1>10, <1>14 DEF ItemAt
<1>16. EndOf(s, o) = o + Len(e)
  BY <1>4, <1>12
<1> QED BY <1>1, <1>7, <1>13, <1>15, <1>16 DEF Decodes, e

\* So is a long one.
LEMMA LongDecoded ==
  ASSUME NEW s \in Seq(Nat), NEW o \in Nat, NEW item \in Writable, IsLongItem(item),
         FoundAt(s, o, Encode(item))
  PROVE  Decodes(s, o, item)
<1> DEFINE e == Encode(item)
           d == item.data
           n == Len(d)
           h == <<LongPrefix, n, item.tag>>
<1>1. HeadOf(item) = h
  BY DEF HeadOf, IsLongItem
<1>2. /\ d \in Seq(Nat) /\ n \in Nat /\ Len(e) = 3 + n
      /\ e[1] = LongPrefix /\ e[2] = n /\ e[3] = item.tag
      /\ \A k \in 1..n : e[3 + k] = d[k]
  <2>1. d \in Seq(Nat) /\ Joined(e, h, d)
    BY <1>1, Encoded
  <2>2. Len(h) = 3 /\ h[1] = LongPrefix /\ h[2] = n /\ h[3] = item.tag
    OBVIOUS
  <2> HIDE DEF e, d, h
  <2>3. 1 \in 1..3 /\ 2 \in 1..3 /\ 3 \in 1..3
    OBVIOUS
  <2> QED BY <2>1, <2>2, <2>3 DEF Joined
<1>3. o + Len(e) <= Len(s) /\ \A k \in 1..Len(e) : s[o + k] = e[k]
  BY DEF FoundAt
<1>4. item = Long(item.tag, d)
  BY DEF IsLongItem
<1> HIDE DEF e, d, n, h
<1>5. s[o + 1] = LongPrefix /\ s[o + 2] = n /\ s[o + 3] = item.tag
  <2>1. 1 \in 1..Len(e) /\ 2 \in 1..Len(e) /\ 3 \in 1..Len(e)
    BY <1>2
  <2> QED BY <1>2, <1>3, <2>1
<1>6. FoundAt(s, o + 3, d)
  <2>1. (o + 3) + n <= Len(s)
    BY <1>2, <1>3
  <2>2. \A k \in 1..n : s[(o + 3) + k] = d[k]
    <3> TAKE k \in 1..n
    <3>1. 3 + k \in 1..Len(e) /\ o + (3 + k) = (o + 3) + k
      BY <1>2
    <3> QED BY <1>2, <1>3, <3>1
  <2> QED BY <2>1, <2>2 DEF FoundAt, n
<1>7. IsLong(s, o)
  BY <1>5 DEF IsLong
<1>8. DataStart(s, o) = o + 3 /\ DataSize(s, o) = n
  BY <1>5, <1>7 DEF DataStart, DataSize
<1>9. EndOf(s, o) = (o + 3) + n
  BY <1>8 DEF EndOf
<1>10. Missing(s, o) = None
  <2> DEFINE l == Len(s)
  <2>1. o + (3 + n) <= l /\ n \in Nat /\ l \in Nat
    BY <1>2, <1>3
  <2> HIDE DEF l
  <2>2. ~((o + 3) + n > l) /\ ~(o + 2 >= l)
    BY ONLY <2>1, o \in Nat
  <2> QED BY <1>9, <2>2 DEF Missing, l
<1>11. SubSeq(s, DataStart(s, o) + 1, EndOf(s, o)) = d
  <2>1. o + 3 \in Nat
    OBVIOUS
  <2>2. SubSeq(s, (o + 3) + 1, (o + 3) + Len(d)) = d
    BY <1>2, <1>6, <2>1, FoundIsSubSeq
  <2> QED BY <1>8, <1>9, <2>2 DEF n
<1>12. ItemAt(s, o) = Long(item.tag, d)
  BY <1>5, <1>7, <1>11 DEF ItemAt
<1>13. EndOf(s, o) = o + Len(e)
  BY <1>2, <1>9
<1> QED BY <1>4, <1>10, <1>12, <1>13 DEF Decodes, e

\* An item is read as what was written.
LEMMA Decoded ==
  ASSUME NEW s \in Seq(Nat), NEW o \in Nat, NEW item \in Writable, FoundAt(s, o, Encode(item))
  PROVE  Decodes(s, o, item)
BY WritableKinds, ShortDecoded, LongDecoded

-----------------------------------------------------------------------------
(* The loop that cuts a stream finds the items it was written from.        *)

\* Where the i-th item begins, the one after the last at m.
Start(its, i, m) == IF i <= Len(its) THEN its[i].offset ELSE m
\* The first m bytes are those of the items, one after the other.
Spelled(s, its, m) ==
  /\ m \in Nat /\ m <= Len(s) /\ Len(its) <= m
  /\ Start(its, 1, m) = 0
  /\ \A i \in 1..Len(its) :
       /\ Start(its, i, m) \in Nat
       /\ Start(its, i + 1, m) = Start(its, i, m) + Len(Encode(its[i].item))
       /\ Start(its, i + 1, m) <= m
       /\ FoundAt(s, Start(its, i, m), Encode(its[i].item))

\* One turn of the loop, and what all turns leave.
Turn(s, t) ==
  IF t.offset = Len(s) \/ t.error # None THEN t
  ELSE IF Missing(s, t.offset) # None
  THEN [offset |-> t.offset, items |-> <<>>,
        error |-> Some([offset |-> t.offset, expected |-> Get(Missing(s, t.offset))])]
  ELSE [offset |-> EndOf(s, t.offset), error |-> None,
        items |-> Append(t.items, [offset |-> t.offset, item |-> ItemAt(s, t.offset)])]
Untouched == [offset |-> 0, items |-> <<>>, error |-> None]
Scans(s, f) == f = [n \in 0..Len(s) |-> IF n = 0 THEN Untouched ELSE Turn(s, f[n - 1])]

\* Any scan over the bytes says what parse_items returns, since the recursion computes one.
LEMMA ParseScans ==
  ASSUME NEW s, NEW g, Scans(s, g)
  PROVE  \E f : Scans(s, f) /\ ParseItems(s) = [items |-> f[Len(s)].items, error |-> f[Len(s)].error]
<1> DEFINE Raw(f) ==
             f = [n \in 0..Len(s) |->
                   IF n = 0 THEN [offset |-> 0, items |-> <<>>, error |-> None]
                   ELSE LET t == f[n - 1]
                            lacks == Missing(s, t.offset)
                        IN IF t.offset = Len(s) \/ t.error # None THEN t
                           ELSE IF lacks # None
                           THEN [offset |-> t.offset, items |-> <<>>,
                                 error |-> Some([offset |-> t.offset, expected |-> Get(lacks)])]
                           ELSE [offset |-> EndOf(s, t.offset), error |-> None,
                                 items |-> Append(t.items, [offset |-> t.offset, item |-> ItemAt(s, t.offset)])]]
           scan == CHOOSE f : Raw(f)
<1>1. ParseItems(s) = [items |-> scan[Len(s)].items, error |-> scan[Len(s)].error]
  BY DEF ParseItems
<1>2. \A f : Raw(f) <=> Scans(s, f)
  BY DEF Scans, Untouched, Turn
<1> HIDE DEF Raw
<1>3. Raw(scan)
  BY <1>2
<1> HIDE DEF scan
<1> QED BY <1>1, <1>2, <1>3

\* There is only one scan.
LEMMA ScanUnique ==
  ASSUME NEW s \in Seq(Nat), NEW f, Scans(s, f), NEW g, Scans(s, g)
  PROVE  f[Len(s)] = g[Len(s)]
<1> DEFINE n == Len(s)
           S == {k \in 0..n : f[k] = g[k]}
<1>1. n \in Nat /\ n \in 0..n
  OBVIOUS
<1>2. 0 \in S
  BY <1>1 DEF Scans
<1>3. ASSUME NEW k \in 1..n, k - 1 \in S PROVE k \in S
  <2>1. k \in 0..n /\ k # 0
    BY <1>1
  <2>2. f[k] = Turn(s, f[k - 1]) /\ g[k] = Turn(s, g[k - 1])
    BY <2>1 DEF Scans
  <2> QED BY <1>3, <2>1, <2>2
<1> HIDE DEF S, n
<1>4. \A k \in 0..n : k \in S
  BY <1>1, <1>2, <1>3, BoundedInduction
<1> QED BY <1>1, <1>4 DEF S, n

Prefix(its, k) == [i \in 1..k |-> its[i]]

\* A prefix and the next element are the next prefix.
LEMMA PrefixGrows ==
  ASSUME NEW C, NEW its \in Seq(C), NEW k \in 1..Len(its)
  PROVE  Append(Prefix(its, k - 1), its[k]) = Prefix(its, k)
<1> DEFINE p == Prefix(its, k - 1)
           q == Prefix(its, k)
<1>1. k \in Nat /\ k - 1 \in Nat /\ \A i \in 1..k : its[i] \in C
  OBVIOUS
<1>2. p \in Seq(C) /\ Len(p) = k - 1 /\ \A i \in 1..(k - 1) : p[i] = its[i]
  BY <1>1 DEF Prefix
<1>3. q \in Seq(C) /\ Len(q) = k /\ \A i \in 1..k : q[i] = its[i]
  BY <1>1 DEF Prefix
<1> DEFINE u == Append(p, its[k])
<1> HIDE DEF p, q
<1>4. Longer(u, p, its[k], C)
  BY <1>1, <1>2, Appended
<1> HIDE DEF u
<1>5. u \in Seq(C) /\ Len(u) = k /\ u[k] = its[k] /\ \A i \in 1..(k - 1) : u[i] = its[i]
  <2>1. (k - 1) + 1 = k
    BY <1>1
  <2> QED BY <1>2, <1>4, <2>1 DEF Longer
<1>6. \A i \in 1..k : u[i] = q[i]
  <2>1. \A i \in 1..k : i = k \/ i \in 1..(k - 1)
    BY <1>1
  <2> QED BY <1>3, <1>5, <2>1
<1>7. u = q
  BY <1>3, <1>5, <1>6, SeqEqual
<1> QED BY <1>7 DEF u, p, q

\* What the scan of such a stream returns, the bytes after the items being none or
\* the beginning of another item.
Result(s, its, m) ==
  IF m = Len(s) THEN [items |-> its, error |-> None]
  ELSE [items |-> <<>>, error |-> Some([offset |-> m, expected |-> Get(Missing(s, m))])]

\* Bytes that spell items and then break off are parsed to those items, with the error of the break.
LEMMA SpelledIsParsed ==
  ASSUME NEW s \in Seq(Nat), NEW its \in Seq(Entries), NEW m, Spelled(s, its, m),
         m # Len(s) => Missing(s, m) # None
  PROVE  ParseItems(s) = Result(s, its, m)
<1> DEFINE L == Len(s)
           N == Len(its)
           last == IF m = L THEN [offset |-> m, items |-> its, error |-> None]
                   ELSE [offset |-> m, items |-> <<>>,
                         error |-> Some([offset |-> m, expected |-> Get(Missing(s, m))])]
           g == [n \in 0..L |->
                  IF n <= N THEN [offset |-> Start(its, n + 1, m), items |-> Prefix(its, n), error |-> None]
                  ELSE last]
<1>1. L \in Nat /\ N \in Nat /\ m \in Nat /\ m <= L /\ N <= m /\ L \in 0..L
  BY DEF Spelled
<1>2. Prefix(its, N) = its /\ Prefix(its, 0) = <<>> /\ Start(its, N + 1, m) = m
  <2>1. Prefix(its, N) = its
    BY DEF Prefix
  <2>2. Prefix(its, 0) = <<>>
    BY DEF Prefix
  <2>3. ~(N + 1 <= N)
    BY <1>1
  <2> QED BY <2>1, <2>2, <2>3 DEF Start
<1> HIDE DEF L, N, last
<1>3. g[0] = Untouched
  <2>1. Start(its, 0 + 1, m) = 0
    BY DEF Spelled
  <2>2. 0 \in 0..L /\ 0 <= N
    BY <1>1
  <2> QED BY <1>2, <2>1, <2>2 DEF Untouched
<1>4. ASSUME NEW n \in 1..L, n <= N PROVE g[n] = Turn(s, g[n - 1])
  <2> DEFINE o == Start(its, n, m)
             item == its[n].item
             t == [offset |-> o, items |-> Prefix(its, n - 1), error |-> None]
  <2>1. n \in 1..N /\ n \in 0..L /\ n - 1 \in 0..L /\ n - 1 <= N /\ (n - 1) + 1 = n
    BY <1>1, <1>4
  <2>2. g[n - 1] = t
    BY <2>1
  <2>3. its[n] \in Entries /\ item \in Writable /\ its[n] = [offset |-> o, item |-> item]
    <3>1. its[n] \in Entries
      BY <2>1 DEF N
    <3>2. item \in Writable /\ its[n] = [offset |-> its[n].offset, item |-> item]
      BY <3>1 DEF Entries
    <3>3. o = its[n].offset
      BY <1>4 DEF Start, N
    <3> QED BY <3>1, <3>2, <3>3
  <2>4. /\ o \in Nat /\ Start(its, n + 1, m) = o + Len(Encode(item))
        /\ Start(its, n + 1, m) <= m /\ FoundAt(s, o, Encode(item))
    BY <2>1 DEF Spelled, N
  <2> HIDE DEF o, item
  <2>5. Len(Encode(item)) \in Nat \ {0}
    BY <2>3, Encoded
  <2>6. o # L
    <3> DEFINE l == Len(Encode(item))
               z == Start(its, n + 1, m)
    <3>1. l \in Nat \ {0} /\ z = o + l /\ z <= m
      BY <2>4, <2>5
    <3> HIDE DEF l, z
    <3> QED BY <1>1, <2>4, <3>1
  <2>7. Missing(s, o) = None /\ EndOf(s, o) = Start(its, n + 1, m) /\ ItemAt(s, o) = item
    BY <2>3, <2>4, Decoded DEF Decodes
  <2>8. Turn(s, t) = [offset |-> EndOf(s, o), error |-> None,
                      items |-> Append(Prefix(its, n - 1), [offset |-> o, item |-> ItemAt(s, o)])]
    BY <2>6, <2>7 DEF Turn, L
  <2>9. Append(Prefix(its, n - 1), its[n]) = Prefix(its, n)
    <3> DEFINE C == Entries
    <3> HIDE DEF C
    <3>1. its \in Seq(C) /\ n \in 1..Len(its)
      BY <2>1 DEF C, N
    <3> QED BY <3>1, PrefixGrows
  <2>10. g[n] = [offset |-> Start(its, n + 1, m), items |-> Prefix(its, n), error |-> None]
    BY <1>4, <2>1
  <2> HIDE DEF t, g
  <2> QED BY <2>2, <2>3, <2>7, <2>8, <2>9, <2>10
<1>5. ASSUME NEW n \in 1..L, n > N PROVE g[n] = Turn(s, g[n - 1])
  <2>1. n \in 0..L /\ n - 1 \in 0..L /\ ~(n <= N)
    BY <1>1, <1>5
  <2>2. g[n] = last
    BY <2>1
  <2>3. CASE n - 1 <= N
    <3>1. n - 1 = N
      BY <1>1, <1>5, <2>3
    <3>2. g[n - 1] = [offset |-> m, items |-> its, error |-> None]
      <4>1. g[N] = [offset |-> Start(its, N + 1, m), items |-> Prefix(its, N), error |-> None]
        BY <2>1, <2>3, <3>1
      <4> QED BY <1>2, <3>1, <4>1
    <3> HIDE DEF g
    <3>3. CASE m = L
      BY <2>2, <3>2, <3>3 DEF Turn, last, L
    <3>4. CASE m # L
      BY <2>2, <3>2, <3>4 DEF Turn, last, L
    <3> QED BY <3>3, <3>4
  <2>4. CASE ~(n - 1 <= N)
    <3>1. g[n - 1] = last
      BY <2>1, <2>4
    <3> HIDE DEF g
    <3>2. CASE m = L
      BY <2>2, <3>1, <3>2 DEF Turn, last, L
    <3>3. CASE m # L
      BY <2>2, <3>1, <3>3, GetSome DEF Turn, last, L
    <3> QED BY <3>2, <3>3
  <2> QED BY <2>3, <2>4
<1>6. Scans(s, g)
  <2>1. \A n \in 0..L : g[n] = IF n = 0 THEN Untouched ELSE Turn(s, g[n - 1])
    <3> TAKE n \in 0..L
    <3>1. n = 0 \/ (n \in 1..L /\ n # 0 /\ n <= N) \/ (n \in 1..L /\ n # 0 /\ n > N)
      BY <1>1
    <3> HIDE DEF g
    <3> QED BY <1>3, <1>4, <1>5, <3>1
  <2>2. g = [n \in 0..L |-> g[n]]
    OBVIOUS
  <2> HIDE DEF g
  <2> QED BY <2>1, <2>2 DEF Scans, L
<1>7. g[L] = last
  <2>1. CASE L <= N
    <3>1. L = N /\ m = L
      BY <1>1, <2>1
    <3>2. g[N] = [offset |-> Start(its, N + 1, m), items |-> Prefix(its, N), error |-> None]
      BY <1>1, <2>1, <3>1
    <3> HIDE DEF g
    <3> QED BY <1>2, <3>1, <3>2 DEF last
  <2>2. CASE ~(L <= N)
    BY <1>1, <2>2
  <2> QED BY <2>1, <2>2
<1> HIDE DEF g
<1>8. PICK f : Scans(s, f) /\ ParseItems(s) = [items |-> f[Len(s)].items, error |-> f[Len(s)].error]
  BY <1>6, ParseScans
<1>9. f[Len(s)] = last
  BY <1>6, <1>7, <1>8, ScanUnique DEF L
<1> QED BY <1>8, <1>9 DEF Result, last, L

\* What is written down as an item is one.
LEMMA EntryItem ==
  ASSUME NEW its \in Seq(Entries), NEW i \in 1..Len(its)
  PROVE  its[i].item \in Writable
<1>1. its[i] \in Entries
  OBVIOUS
<1> QED BY <1>1 DEF Entries

\* More bytes leave what was written.
LEMMA SpelledLonger ==
  ASSUME NEW s \in Seq(Nat), NEW its \in Seq(Entries), NEW m, Spelled(s, its, m),
         NEW t \in Seq(Nat)
  PROVE  Spelled(s \o t, its, m)
<1> DEFINE u == s \o t
<1>1. Len(u) = Len(s) + Len(t) /\ (\A k \in 1..Len(s) : u[k] = s[k]) /\ Len(s) \in Nat /\ Len(t) \in Nat
  BY JoinedUp DEF Joined
<1> HIDE DEF u
<1>2. m <= Len(u)
  BY <1>1 DEF Spelled
<1>3. ASSUME NEW i \in 1..Len(its) PROVE FoundAt(u, Start(its, i, m), Encode(its[i].item))
  <2> DEFINE o == Start(its, i, m)
             e == Encode(its[i].item)
  <2>1. o \in Nat /\ FoundAt(s, o, e)
    BY DEF Spelled
  <2> HIDE DEF o, e
  <2>2. o + Len(e) <= Len(s) /\ \A k \in 1..Len(e) : s[o + k] = e[k]
    BY <2>1 DEF FoundAt
  <2>3. Len(e) \in Nat
    <3>1. its[i].item \in Writable
      BY EntryItem
    <3> QED BY <3>1, Encoded DEF e
  <2>4. o + Len(e) <= Len(u)
    BY <1>1, <2>1, <2>2, <2>3
  <2>5. \A k \in 1..Len(e) : o + k \in 1..Len(s)
    BY <1>1, <2>1, <2>2, <2>3
  <2>6. FoundAt(u, o, e)
    BY <1>1, <2>2, <2>4, <2>5 DEF FoundAt
  <2> QED BY <2>6 DEF o, e
<1> QED BY <1>2, <1>3 DEF Spelled, u

\* And so do the bytes of one item more.
LEMMA SpelledGrows ==
  ASSUME NEW s \in Seq(Nat), NEW its \in Seq(Entries), Spelled(s, its, Len(s)),
         NEW item \in Writable
  PROVE  Spelled(s \o Encode(item), Append(its, [offset |-> Len(s), item |-> item]),
                 Len(s) + Len(Encode(item)))
<1> DEFINE e == Encode(item)
           x == [offset |-> Len(s), item |-> item]
           u == s \o e
           m == Len(s)
           w == m + Len(e)
           n == Len(its)
           more == Append(its, x)
<1>1. e \in Seq(Nat) /\ Len(e) \in Nat \ {0} /\ m \in Nat /\ n \in Nat
  BY Encoded
<1>2. Spelled(u, its, m)
  <2> HIDE DEF e
  <2> QED BY <1>1, SpelledLonger
<1>3. Len(u) = w /\ \A k \in 1..Len(e) : u[m + k] = e[k]
  <2> HIDE DEF e
  <2> QED BY <1>1, JoinedUp DEF Joined
<1>4. x \in Entries
  BY <1>1 DEF Entries
<1>5. Len(more) = n + 1 /\ more[n + 1] = x /\ \A k \in 1..n : more[k] = its[k]
  <2> DEFINE C == Entries
  <2> HIDE DEF C, x
  <2>1. Longer(more, its, x, C)
    BY <1>4, Appended DEF C
  <2> HIDE DEF more
  <2> QED BY <2>1 DEF Longer
<1>6. x.offset = m /\ x.item = item
  OBVIOUS
<1> HIDE DEF e, x, u, m, n, more
<1>7. w \in Nat /\ m <= w /\ m < w
  BY <1>1
<1>8. ASSUME NEW i \in 1..(n + 1) PROVE Start(more, i, w) = Start(its, i, m)
  <2>1. CASE i = n + 1
    <3>1. ~(i <= n) /\ i <= n + 1
      BY <1>1, <2>1
    <3> QED BY <1>5, <1>6, <2>1, <3>1 DEF Start, n
  <2>2. CASE i # n + 1
    <3>1. i \in 1..n /\ i <= n /\ i <= n + 1
      BY <1>1, <2>2
    <3> QED BY <1>5, <3>1 DEF Start, n
  <2> QED BY <2>1, <2>2
<1>9. Start(more, (n + 1) + 1, w) = w
  <2>1. ~((n + 1) + 1 <= n + 1)
    BY <1>1
  <2> QED BY <1>5, <2>1 DEF Start
<1>10. Start(its, n + 1, m) = m
  <2>1. ~(n + 1 <= n)
    BY <1>1
  <2> QED BY <2>1 DEF Start, n
<1>11. \A i \in 1..n :
         /\ Start(its, i, m) \in Nat
         /\ Start(its, i + 1, m) = Start(its, i, m) + Len(Encode(its[i].item))
         /\ Start(its, i + 1, m) <= m
         /\ FoundAt(u, Start(its, i, m), Encode(its[i].item))
  BY <1>2 DEF Spelled, n
<1>12. Start(its, 1, m) = 0 /\ n <= m
  BY <1>2 DEF Spelled, n
<1>13. ASSUME NEW i \in 1..(n + 1)
       PROVE  /\ Start(more, i, w) \in Nat
              /\ Start(more, i + 1, w) = Start(more, i, w) + Len(Encode(more[i].item))
              /\ Start(more, i + 1, w) <= w
              /\ FoundAt(u, Start(more, i, w), Encode(more[i].item))
  <2>1. CASE i = n + 1
    <3>1. Start(more, i, w) = m /\ Start(more, i + 1, w) = w /\ more[i].item = item
      BY <1>5, <1>6, <1>8, <1>9, <1>10, <2>1
    <3>2. FoundAt(u, m, e)
      BY <1>3, <1>7 DEF FoundAt
    <3>3. w = m + Len(e) /\ w <= w
      BY <1>7
    <3> HIDE DEF w
    <3> QED BY <1>1, <3>1, <3>2, <3>3 DEF e
  <2>2. CASE i # n + 1
    <3>1. i \in 1..n /\ i + 1 \in 1..(n + 1)
      BY <1>1, <2>2
    <3>2. more[i] = its[i] /\ Start(more, i, w) = Start(its, i, m)
          /\ Start(more, i + 1, w) = Start(its, i + 1, m)
      BY <1>5, <1>8, <3>1
    <3>3. Start(its, i + 1, m) \in Nat
      <4> DEFINE l == Len(Encode(its[i].item))
                 a == Start(its, i, m)
                 b == Start(its, i + 1, m)
      <4>1. l \in Nat
        <5>1. its[i].item \in Writable
          BY <3>1, EntryItem DEF n
        <5> QED BY <5>1, Encoded
      <4>2. a \in Nat /\ b = a + l
        BY <1>11, <3>1
      <4> HIDE DEF l, a, b
      <4>3. b \in Nat
        BY <4>1, <4>2
      <4> QED BY <4>3 DEF b
    <3>4. Start(its, i + 1, m) <= w
      <4> DEFINE b == Start(its, i + 1, m)
      <4>1. b \in Nat /\ b <= m
        BY <1>11, <3>1, <3>3
      <4> HIDE DEF b, w
      <4>2. b <= w
        BY <1>1, <1>7, <4>1
      <4> QED BY <4>2 DEF b
    <3> HIDE DEF w
    <3> QED BY <1>11, <3>1, <3>2, <3>4
  <2> QED BY <2>1, <2>2
<1>14. Start(more, 1, w) = 0
  <2>1. 1 \in 1..(n + 1)
    BY <1>1
  <2> QED BY <1>8, <1>12, <2>1
<1>15. w <= Len(u) /\ Len(more) <= w
  BY <1>1, <1>3, <1>5, <1>7, <1>12
<1>16. Spelled(u, more, w)
  <2> HIDE DEF w
  <2> QED BY <1>5, <1>7, <1>13, <1>14, <1>15 DEF Spelled
<1> QED BY <1>16 DEF u, more, e, x, m

\* A stream that ends inside an item lacks bytes there.
LEMMA TailLacks ==
  ASSUME NEW s \in Seq(Nat), NEW tail \in Tails
  PROVE  /\ tail \in Seq(Nat) /\ Len(tail) \in Nat \ {0} /\ Len(s \o tail) = Len(s) + Len(tail)
         /\ Missing(s \o tail, Len(s)) # None
<1> DEFINE u == s \o tail
           m == Len(s)
           l == Len(tail)
<1>1. tail \in Seq(Nat) /\ l \in Nat \ {0} /\ m \in Nat /\ Missing(tail, 0) # None
  BY TailsAssumption
<1>2. Len(u) = m + l /\ \A k \in 1..l : u[m + k] = tail[k]
  BY <1>1, JoinedUp DEF Joined
<1> HIDE DEF u, m, l
<1>3. u[m + 1] = tail[1] /\ tail[0 + 1] = tail[1]
  <2>1. 1 \in 1..l /\ 0 + 1 = 1
    BY <1>1
  <2> QED BY <1>2, <2>1
<1>4. IsLong(u, m) <=> IsLong(tail, 0)
  BY <1>3 DEF IsLong
<1>5. CASE IsLong(tail, 0) /\ 0 + 2 >= l
  <2>1. m + 2 >= Len(u)
    BY <1>1, <1>2, <1>5
  <2> QED BY <1>1, <1>2, <1>4, <1>5, <2>1, GetSome DEF Missing, u, m, l
<1>6. CASE IsLong(tail, 0) /\ ~(0 + 2 >= l)
  <2>1. 2 \in 1..l /\ tail[2] \in Nat
    BY <1>1, <1>6 DEF l
  <2>2. u[m + 2] = tail[2] /\ tail[0 + 2] = tail[2]
    BY <1>2, <2>1
  <2>3. EndOf(tail, 0) = 0 + 3 + tail[2] /\ EndOf(u, m) = m + 3 + tail[2]
    BY <1>4, <1>6, <2>2 DEF EndOf, DataStart, DataSize
  <2>4. EndOf(tail, 0) > l
    BY <1>1, <1>6 DEF Missing, l
  <2> PICK x \in Nat : x = tail[2]
    BY <2>1
  <2>5. 3 + x > l
    BY <2>3, <2>4
  <2>6. m + 3 + x > m + l
    BY ONLY <1>1, <2>5, x \in Nat
  <2>7. Missing(u, m) # None
    BY <1>2, <2>3, <2>6, GetSome DEF Missing
  <2> QED BY <1>1, <1>2, <2>7 DEF u, m, l
<1>7. CASE ~IsLong(tail, 0)
  <2> DEFINE z == <<0, 1, 2, 4>>[TwoBits(tail, 0) + 1]
  <2>1. TwoBits(tail, 0) = TwoBits(u, m)
    BY <1>3 DEF TwoBits
  <2>2. DataSize(tail, 0) = z /\ DataSize(u, m) = z
    BY <1>4, <1>7, <2>1 DEF DataSize
  <2>3. z \in Nat
    <3>1. tail[1] \in Nat
      <4>1. 1 \in 1..l
        BY <1>1
      <4> QED BY <1>1, <4>1 DEF l
    <3>2. TwoBits(tail, 0) \in 0..3
      BY <1>3, <3>1 DEF TwoBits
    <3> QED BY <3>2
  <2> HIDE DEF z
  <2>4. EndOf(tail, 0) = 0 + 1 + z /\ EndOf(u, m) = m + 1 + z
    BY <1>4, <1>7, <2>2 DEF EndOf, DataStart
  <2>5. EndOf(tail, 0) > l
    BY <1>1, <1>7 DEF Missing, l
  <2>6. EndOf(u, m) > Len(u)
    BY <1>1, <1>2, <2>3, <2>4, <2>5
  <2>7. Missing(u, m) # None
    BY <2>6, GetSome DEF Missing
  <2> QED BY <1>1, <1>2, <2>7 DEF u, m, l
<1> QED BY <1>5, <1>6, <1>7

\* The items' bytes joined are as long as the last item's end.
LEMMA SpelledLength ==
  ASSUME NEW s \in Seq(Nat), NEW its \in Seq(Entries), NEW m, Spelled(s, its, m)
  PROVE  Len(FlattenSeq([i \in DOMAIN its |-> Encode(its[i].item)])) = m
<1> DEFINE parts == [i \in DOMAIN its |-> Encode(its[i].item)]
           n == Len(its)
<1>1. n \in Nat /\ DOMAIN its = 1..n /\ \A i \in 1..n : its[i].item \in Writable
  BY EntryItem
<1>2. parts \in Seq(Seq(Nat)) /\ Len(parts) = n /\ \A i \in 1..n : parts[i] = Encode(its[i].item)
  <2>1. \A i \in 1..n : Encode(its[i].item) \in Seq(Nat)
    BY <1>1, Encoded
  <2>2. parts \in [1..n -> Seq(Nat)]
    BY <1>1, <2>1
  <2> HIDE DEF parts, n
  <2> QED BY <1>1, <2>2 DEF parts
<1> HIDE DEF parts, n
<1>3. PICK at : Laid(parts, FlattenSeq(parts), at)
  BY <1>2, FlattenLaid
<1>4. at \in [0..n -> Nat] /\ at[0] = 0 /\ at[n] = Len(FlattenSeq(parts))
      /\ \A i \in 1..n : at[i] = at[i - 1] + Len(parts[i])
  BY <1>2, <1>3 DEF Laid
<1> DEFINE S == {i \in 0..n : at[i] = Start(its, i + 1, m)}
<1>5. 0 \in S
  <2>1. Start(its, 0 + 1, m) = 0
    BY DEF Spelled
  <2> QED BY <1>1, <1>4, <2>1
<1>6. ASSUME NEW i \in 1..n, i - 1 \in S PROVE i \in S
  <2>1. Start(its, i + 1, m) = Start(its, i, m) + Len(parts[i])
    BY <1>2 DEF Spelled, n
  <2>2. (i - 1) + 1 = i /\ i \in 0..n
    BY <1>1
  <2>3. at[i] = at[i - 1] + Len(parts[i])
    BY <1>4
  <2> QED BY <1>6, <2>1, <2>2, <2>3
<1> HIDE DEF S
<1>7. \A i \in 0..n : i \in S
  BY <1>1, <1>5, <1>6, BoundedInduction
<1>8. n \in 0..n /\ ~(n + 1 <= n)
  BY <1>1
<1>9. at[n] = m
  BY <1>7, <1>8 DEF S, Start, n
<1> QED BY <1>4, <1>9 DEF parts

-----------------------------------------------------------------------------
(* The steps of the pass.                                                  *)

Handles(item) ==
  \/ SetGlobal(item) \/ ReportId(item) \/ PushGlobal(item) \/ PopGlobal(item)
  \/ Usage(item) \/ OpenCollection(item) \/ EndCollection(item)
  \/ DeclareField(item) \/ OtherMain(item) \/ Ignored(item)

\* No item ends the stream.
LEMMA ItemNeverTruncates ==
  ASSUME NEW item, Handles(item), status = "open"
  PROVE  status' # "Truncated"
<1>1. CASE SetGlobal(item)
  BY <1>1 DEF SetGlobal
<1>2. CASE ReportId(item)
  BY <1>2 DEF ReportId, Fail
<1>3. CASE PushGlobal(item)
  BY <1>3 DEF PushGlobal
<1>4. CASE PopGlobal(item)
  BY <1>4 DEF PopGlobal, Fail
<1>5. CASE Usage(item)
  BY <1>5 DEF Usage
<1>6. CASE OpenCollection(item)
  BY <1>6 DEF OpenCollection, Fail
<1>7. CASE EndCollection(item)
  BY <1>7 DEF EndCollection, Fail
<1>8. CASE DeclareField(item)
  BY <1>8 DEF DeclareField, Fail
<1>9. CASE OtherMain(item)
  BY <1>9 DEF OtherMain
<1>10. CASE Ignored(item)
  BY <1>10 DEF Ignored
<1> QED BY <1>1, <1>2, <1>3, <1>4, <1>5, <1>6, <1>7, <1>8, <1>9, <1>10 DEF Handles

\* The bytes so far spell the items, to their end or, once the stream was cut off,
\* to where too little of an item follows.
CutOff(s, m, cut) == (m # Len(s) <=> cut) /\ (m # Len(s) => Missing(s, m) # None)
BytesInv ==
  /\ bytes \in Seq(Nat)
  /\ \E m : Spelled(bytes, items, m) /\ CutOff(bytes, m, status = "Truncated")

\* No bytes spell no items.
LEMMA NothingSpelled ==
  Spelled(<<>>, <<>>, 0) /\ CutOff(<<>>, 0, FALSE)
<1>1. Len(<<>>) = 0
  OBVIOUS
<1>2. \A i \in 1..0 : FALSE
  OBVIOUS
<1> QED BY <1>1, <1>2 DEF Spelled, Start, CutOff

\* At first nothing is written.
LEMMA BytesStart == Init => BytesInv
<1> SUFFICES ASSUME Init PROVE BytesInv
  OBVIOUS
<1>1. bytes = <<>> /\ items = <<>> /\ status # "Truncated"
  BY DEF Init
<1>2. <<>> \in Seq(Nat)
  OBVIOUS
<1> QED BY <1>1, <1>2, NothingSpelled DEF BytesInv, CutOff

\* Writing an item spells it out behind the others.
LEMMA BytesGrow ==
  ASSUME BytesInv, ItemsTyped, status = "open", NEW item, Writes(item), Handles(item),
         bytes' = bytes \o Encode(item)
  PROVE  BytesInv'
<1> DEFINE e == [offset |-> Len(bytes), item |-> item]
           m == Len(bytes) + Len(Encode(item))
<1>1. item \in Writable
  BY ItemGrows DEF Grows
<1>2. bytes \in Seq(Nat) /\ Spelled(bytes, items, Len(bytes))
  BY DEF BytesInv, CutOff
<1>3. items \in Seq(Entries)
  BY DEF ItemsTyped
<1>4. Spelled(bytes \o Encode(item), Append(items, e), m)
  BY <1>1, <1>2, <1>3, SpelledGrows
<1>5. bytes \o Encode(item) \in Seq(Nat) /\ Len(bytes \o Encode(item)) = m
  BY <1>1, <1>2, Encoded, JoinedUp DEF Joined
<1>6. status' # "Truncated"
  BY ItemNeverTruncates
<1>7. items' = Append(items, e)
  BY DEF Writes
<1> HIDE DEF e, m
<1>8. PICK s, its, l : s = bytes \o Encode(item) /\ its = Append(items, e) /\ l = m
  OBVIOUS
<1>9. s \in Seq(Nat) /\ Spelled(s, its, l) /\ CutOff(s, l, FALSE)
  BY <1>4, <1>5, <1>8 DEF CutOff
<1>10. bytes' = s /\ items' = its
  BY <1>7, <1>8
<1> QED BY <1>6, <1>9, <1>10 DEF BytesInv, CutOff

\* The end of the stream: what was read is left alone.
SamePass ==
  items' = items /\ global' = global /\ stack' = stack /\ usages' = usages
  /\ depth' = depth /\ layouts' = layouts

\* What the items mean does not change while they are the same.
LEMMA SamePassStands ==
  ASSUME ItemsTyped, SamePass, NEW n, n = Len(items)
  PROVE  /\ ItemsTyped' /\ Len(items') = n
         /\ Legal' <=> Legal
         /\ Closed' <=> Closed
         /\ Stands(n) => Stands(n)'
<1>1. n \in Nat /\ DOMAIN items = 1..n /\ items' = items
  BY DEF ItemsTyped, SamePass
<1>2. SameItems(n)
  BY <1>1 DEF SameItems
<1>3. ItemsTyped' /\ Len(items') = n
  BY <1>1 DEF ItemsTyped
<1>4. KeptItems(n) /\ KeptGlobals(n) /\ KeptFields(n)
  BY <1>2, ItemsKept, GlobalsKept, FieldsKept
<1>5. \A i \in 1..n : LegalItem(i)' <=> LegalItem(i)
  BY <1>2, LegalKept
<1>6. Legal' <=> Legal
  <2>1. Legal <=> \A i \in 1..n : LegalItem(i)
    BY LegalMeans DEF LegalByItem
  <2>2. Legal' <=> \A i \in 1..n : LegalItem(i)'
    BY <1>3, LegalMeans DEF LegalByItem
  <2> QED BY <1>5, <2>1, <2>2
<1>7. Closed' <=> Closed
  <2>1. \A i \in 1..n : /\ Push(i)' <=> Push(i)
                        /\ Pop(i)' <=> Pop(i)
                        /\ Opens(i)' <=> Opens(i)
                        /\ Ends(i)' <=> Ends(i)
    BY <1>4 DEF KeptItems, Push, Pop, Opens, Ends
  <2>2. /\ {i \in 1..n : Push(i)'} = {i \in 1..n : Push(i)}
        /\ {i \in 1..n : Pop(i)'} = {i \in 1..n : Pop(i)}
        /\ {i \in 1..n : Opens(i)'} = {i \in 1..n : Opens(i)}
        /\ {i \in 1..n : Ends(i)'} = {i \in 1..n : Ends(i)}
    BY <2>1
  <2>3. Closed <=> /\ Count(Push, 1, n) = Count(Pop, 1, n)
                   /\ Count(Opens, 1, n) = Count(Ends, 1, n)
    BY DEF Closed
  <2>4. Closed' <=> /\ Count(Push, 1, n)' = Count(Pop, 1, n)'
                    /\ Count(Opens, 1, n)' = Count(Ends, 1, n)'
    BY <1>3 DEF Closed
  <2> QED BY <2>2, <2>3, <2>4 DEF Count
<1>8. ASSUME Stands(n) PROVE Stands(n)'
  <2>1. global' = GlobalAt(n + 1)'
    <3>1. n + 1 \in 1..(n + 1)
      BY <1>1
    <3>2. GlobalAt(n + 1)' = GlobalAt(n + 1)
      BY <1>4, <3>1 DEF KeptGlobals, GlobalAt, IdAt
    <3> QED BY <1>8, <3>2 DEF Stands, SamePass
  <2>2. StackStands(n)'
    <3>1. \A k \in 0..n : Height(k)' = Height(k)
      BY <1>4 DEF KeptItems
    <3>2. stack' = stack /\ n \in 0..n
      BY <1>1 DEF SamePass
    <3>3. ASSUME NEW p, NEW l, OpensLevel(p, l, n)
          PROVE  OpensLevel(p, l, n)' /\ GlobalAt(p)' = GlobalAt(p)
      <4>1. p \in 1..n /\ p \in 1..(n + 1) /\ p \in 0..n /\ \A k \in p..n : k \in 0..n
        BY <1>1, <3>3 DEF OpensLevel
      <4>2. Push(p)' <=> Push(p)
        BY <1>4, <4>1 DEF KeptItems, Push
      <4>3. GlobalAt(p)' = GlobalAt(p)
        BY <1>4, <4>1 DEF KeptGlobals, GlobalAt, IdAt
      <4> QED BY <3>1, <3>3, <4>1, <4>2, <4>3 DEF OpensLevel
    <3>4. IsSequence(stack)' /\ Len(stack') = Height(n)'
      BY <1>8, <3>1, <3>2 DEF Stands, StackStands, IsSequence
    <3>5. \A l \in 1..Len(stack) : \E p : OpensLevel(p, l, n) /\ stack[l] = GlobalAt(p)
      BY <1>8 DEF Stands, StackStands
    <3>6. \A l \in 1..Len(stack') : \E p : OpensLevel(p, l, n)' /\ stack'[l] = GlobalAt(p)'
      BY <3>2, <3>3, <3>5
    <3> QED BY <3>4, <3>6 DEF StackStands
  <2>3. depth' = Nesting(n)'
    <3>1. Nesting(n)' = Nesting(n)
      BY <1>1, <1>2, NestingsKept
    <3> QED BY <1>8, <3>1 DEF Stands, SamePass
  <2>4. usages' = UsagesOf(n + 1)'
    <3>1. n + 1 \in 1..(n + 1)
      BY <1>1
    <3>2. UsagesOf(n + 1)' = UsagesOf(n + 1)
      BY <1>4, <3>1 DEF KeptFields
    <3> QED BY <1>8, <3>2 DEF Stands, SamePass
  <2>5. LayoutsStand(n)'
    <3>1. Fields \in SUBSET (1..n) /\ Fields' \in SUBSET (1..n)
      BY <1>1 DEF Fields
    <3>2. Fields' = Fields
      BY <1>4, <3>1 DEF KeptFields
    <3>3. \A i \in Fields : SameField(i)
      BY <1>2, <3>1, FieldKept
    <3>4. \A key : LayoutOf(key)' = LayoutOf(key)
      BY DEF LayoutOf, SamePass
    <3>5. \A key : DeclaredBits(key, n)' = DeclaredBits(key, n)
      BY <1>1, <1>4 DEF KeptFields
    <3>6. \A key : FieldsOf(key)' = FieldsOf(key)
      BY <3>2, <3>3 DEF FieldsOf, SameField
    <3>7. LayoutsStand(n)
      BY <1>8 DEF Stands
    <3>8. DOMAIN layouts' = {KeyOf(i)' : i \in Fields'}
      BY <3>2, <3>3, <3>7 DEF LayoutsStand, SameField, SamePass
    <3>9. ASSUME NEW i \in Fields PROVE Described(i)'
      <4>1. SameField(i) /\ Described(i)
        BY <3>3, <3>7 DEF LayoutsStand
      <4>2. LayoutOf(KeyOf(i))' = LayoutOf(KeyOf(i))
        BY <4>1 DEF SameField, LayoutOf, SamePass
      <4>3. Held(i)' = Held(i)
        BY <4>1, <4>2 DEF Held, SameField
      <4> QED BY <4>1, <4>2, <4>3 DEF Described, SameField
    <3> QED BY <3>2, <3>4, <3>5, <3>6, <3>7, <3>8, <3>9 DEF LayoutsStand
  <2>6. \A i \in 1..n : LegalItem(i)'
    BY <1>5, <1>8 DEF Stands
  <2> QED BY <2>1, <2>2, <2>3, <2>4, <2>5, <2>6 DEF Stands
<1> QED BY <1>3, <1>6, <1>7, <1>8

\* What is left of an item at the end is cut off, and the parser says so.
LEMMA BytesEnd ==
  ASSUME BytesInv, ItemsTyped, Finish
  PROVE  BytesInv'
<1>1. bytes \in Seq(Nat) /\ Spelled(bytes, items, Len(bytes)) /\ items' = items
  BY DEF BytesInv, CutOff, Finish
<1>2. items \in Seq(Entries)
  BY DEF ItemsTyped
<1>3. PICK tail \in Tails \cup {<<>>} :
        /\ bytes' = bytes \o tail
        /\ status' = IF tail # <<>> THEN "Truncated"
                     ELSE IF stack # <<>> THEN "UnclosedGlobalPush"
                     ELSE IF depth # 0 THEN "UnclosedCollection"
                     ELSE "accepted"
  BY DEF Finish
<1>4. CASE tail = <<>>
  <2>1. bytes' = bytes
    BY <1>1, <1>3, <1>4, ConcatEmptySeq
  <2>2. status' # "Truncated"
    BY <1>3, <1>4
  <2> QED BY <1>1, <2>1, <2>2 DEF BytesInv, CutOff
<1>5. CASE tail # <<>>
  <2>1. tail \in Tails /\ status' = "Truncated"
    BY <1>3, <1>5
  <2>2. /\ tail \in Seq(Nat) /\ Len(tail) \in Nat \ {0}
        /\ Len(bytes \o tail) = Len(bytes) + Len(tail)
        /\ Missing(bytes \o tail, Len(bytes)) # None
    BY <1>1, <2>1, TailLacks
  <2>3. bytes \o tail \in Seq(Nat) /\ Spelled(bytes \o tail, items, Len(bytes))
    BY <1>1, <1>2, <2>2, JoinedUp, SpelledLonger
  <2>4. PICK s, its, m : s = bytes \o tail /\ its = items /\ m = Len(bytes)
    OBVIOUS
  <2>5. m # Len(s)
    BY <1>1, <2>2, <2>4
  <2>6. s \in Seq(Nat) /\ Spelled(s, its, m) /\ Missing(s, m) # None
    BY <2>2, <2>3, <2>4
  <2>7. CutOff(s, m, TRUE)
    BY <2>5, <2>6 DEF CutOff
  <2>8. bytes' = s /\ items' = its
    BY <1>1, <1>3, <2>4
  <2> QED BY <2>1, <2>6, <2>7, <2>8 DEF BytesInv, CutOff
<1> QED BY <1>4, <1>5

\* It leaves the pass as it was, and refuses what is not closed.
LEMMA FinishStands ==
  ASSUME PassInv, BytesInv, Finish
  PROVE  PassInv'
<1> PICK n : n = Len(items)
  OBVIOUS
<1>1. SamePass /\ status = "open"
  BY DEF Finish, SamePass
<1>2. n \in Nat /\ Stands(n)
  BY <1>1 DEF PassInv, ItemsTyped, Clean
<1>3. stack = <<>> => Height(n) = 0
  BY <1>2 DEF Stands, StackStands
<1>4. stack # <<>> => Height(n) # 0
  <2> SUFFICES ASSUME stack # <<>> PROVE Height(n) # 0
    OBVIOUS
  <2>1. IsSequence(stack) /\ Len(stack) = Height(n)
    BY <1>2 DEF Stands, StackStands
  <2>2. Len(stack) \in Nat \ {0}
    BY <2>1, ShrunkByOne
  <2> QED BY <2>1, <2>2
<1>5. depth = Nesting(n)
  BY <1>2 DEF Stands
<1>6. Closed <=> Height(n) = 0 /\ Nesting(n) = 0
  <2>1. Count(Push, 1, n) \in Nat /\ Count(Pop, 1, n) \in Nat
        /\ Count(Opens, 1, n) \in Nat /\ Count(Ends, 1, n) \in Nat
    BY <1>2, Counts DEF CountsAreNumbers
  <2> DEFINE a == Count(Push, 1, n)
             b == Count(Pop, 1, n)
             c == Count(Opens, 1, n)
             d == Count(Ends, 1, n)
  <2> HIDE DEF a, b, c, d
  <2>2. a \in Nat /\ b \in Nat /\ c \in Nat /\ d \in Nat
        => ((a = b /\ c = d) <=> (a - b = 0 /\ c - d = 0))
    OBVIOUS
  <2> QED BY <2>1, <2>2 DEF a, b, c, d, Closed, Height, Nesting
<1>7. /\ ItemsTyped' /\ Len(items') = n
      /\ Closed' <=> Closed
      /\ Stands(n)'
  BY <1>1, <1>2, SamePassStands DEF PassInv
<1>8. status' \in {"Truncated", "UnclosedGlobalPush", "UnclosedCollection", "accepted"}
  BY DEF Finish
<1>9. status' = "accepted" => stack = <<>> /\ depth = 0
  BY DEF Finish
<1>10. status' \in Unclosed => stack # <<>> \/ depth # 0
  BY DEF Finish, Unclosed
<1>11. status' = "accepted" => Closed'
  BY <1>3, <1>5, <1>6, <1>7, <1>9
<1>12. status' \in Unclosed => ~Closed'
  BY <1>4, <1>5, <1>6, <1>7, <1>10
<1>13. status' \in Clean
  BY <1>8 DEF Clean, Unclosed
<1> QED BY <1>7, <1>11, <1>12, <1>13 DEF PassInv

\* A descriptor without items stands.
LEMMA PassStarts == Init => PassInv
<1> SUFFICES ASSUME Init PROVE PassInv
  OBVIOUS
<1>1. /\ items = <<>> /\ stack = <<>> /\ usages = <<>> /\ depth = 0 /\ layouts = <<>>
      /\ global = [page |-> None, size |-> None, count |-> None, id |-> 0]
      /\ status = "open"
  BY DEF Init
<1>2. ItemsTyped /\ Len(items) = 0
  BY <1>1 DEF ItemsTyped
<1>3. Fields = {}
  BY <1>1 DEF Fields
<1>4. global = GlobalAt(0 + 1)
  <2>1. ASSUME NEW tag PROVE InForce(tag, 1) = None
    <3>1. 1..(1 - 1) = {}
      OBVIOUS
    <3>2. {j \in 1..(1 - 1) : Is(j, "Global", tag) /\ ~Undone(j, 1)} = {}
      BY <3>1
    <3> QED BY <3>2 DEF InForce
  <2> QED BY <1>1, <2>1 DEF GlobalAt, IdAt
<1>5. StackStands(0)
  <2>1. Len(stack) = 0 /\ Height(0) = 0
    BY <1>1, Heights DEF HeightSteps
  <2>2. IsSequence(stack)
    BY <1>1 DEF IsSequence
  <2> QED BY <2>1, <2>2 DEF StackStands
<1>6. depth = Nesting(0)
  BY <1>1, Nestings DEF NestingSteps
<1>7. usages = UsagesOf(0 + 1)
  BY <1>1, UsagesGrow DEF UsageSteps
<1>8. LayoutsStand(0)
  <2>1. DOMAIN layouts = {} /\ \A key : LayoutOf(key) = [bits |-> 0, fields |-> <<>>]
    BY <1>1 DEF LayoutOf
  <2>2. \A key : DeclaredBits(key, 0) = 0
    BY BitsAddUp DEF BitsSteps
  <2>3. \A key : FieldsOf(key) = {}
    BY <1>3 DEF FieldsOf
  <2>4. Cardinality({}) = 0
    BY FS_EmptySet
  <2>5. IsSequence(<<>>) /\ Len(<<>>) = 0
    BY DEF IsSequence
  <2>6. DOMAIN layouts = {KeyOf(i) : i \in Fields}
    BY <1>3, <2>1
  <2>7. ASSUME NEW key
        PROVE  /\ LayoutOf(key).bits = DeclaredBits(key, 0) /\ DeclaredBits(key, 0) \in Nat
               /\ IsSequence(LayoutOf(key).fields)
               /\ Len(LayoutOf(key).fields) = Cardinality(FieldsOf(key))
    <3>1. LayoutOf(key).bits = 0 /\ LayoutOf(key).fields = <<>>
      BY <2>1
    <3>2. FieldsOf(key) = {} /\ DeclaredBits(key, 0) = 0
      BY <2>2, <2>3
    <3> QED BY ONLY <2>4, <2>5, <3>1, <3>2
  <2>8. \A i \in Fields : Described(i)
    BY <1>3
  <2> QED BY <2>6, <2>7, <2>8 DEF LayoutsStand
<1>9. Stands(0)
  BY <1>4, <1>5, <1>6, <1>7, <1>8 DEF Stands
<1>10. status \in Clean /\ status # "accepted" /\ status \notin Unclosed
  BY <1>1 DEF Clean, Unclosed
<1> QED BY <1>2, <1>9, <1>10 DEF PassInv

\* An item of the script keeps both.
LEMMA ItemStands ==
  ASSUME PassInv, BytesInv, Item
  PROVE  PassInv' /\ BytesInv'
<1>1. PICK item \in Script[Len(items) + 1] :
        /\ bytes' = bytes \o Encode(item)
        /\ items' = Append(items, [offset |-> Len(bytes), item |-> item])
        /\ Handles(item)
  BY DEF Item, Handles
<1>2. status = "open" /\ Len(items) < Len(Script) /\ ItemsTyped
  BY DEF Item, PassInv
<1>3. Len(bytes) \in Nat
  BY DEF BytesInv
<1>4. Writes(item)
  BY <1>1, <1>2, <1>3 DEF Writes
<1> PICK n : n = Len(items)
  OBVIOUS
<1>5. Grows(item, n)
  BY <1>2, <1>4, ItemGrows
<1>6. Stands(n)
  BY <1>2 DEF PassInv, Clean
<1>7. Ready(item, n)
  BY <1>2, <1>5, <1>6 DEF Ready
<1>8. PassInv'
  BY <1>1, <1>7, SetGlobalStands, ReportIdStands, PushGlobalStands, PopGlobalStands,
     UsageStands, OpenCollectionStands, EndCollectionStands, DeclareFieldStands,
     OtherMainStands, IgnoredStands DEF Handles
<1>9. BytesInv'
  BY <1>1, <1>2, <1>4, BytesGrow
<1> QED BY <1>8, <1>9

\* Without a step of the pass nothing changes.
LEMMA PassStays ==
  ASSUME PassInv, BytesInv, UNCHANGED parser
  PROVE  PassInv' /\ BytesInv'
<1> PICK n : n = Len(items)
  OBVIOUS
<1>1. SamePass /\ status' = status /\ bytes' = bytes /\ items' = items
  BY DEF parser, SamePass
<1>2. /\ ItemsTyped' /\ Len(items') = n
      /\ Legal' <=> Legal
      /\ Closed' <=> Closed
      /\ Stands(n) => Stands(n)'
  BY <1>1, SamePassStands DEF PassInv
<1>3. PassInv'
  BY <1>1, <1>2 DEF PassInv
<1>4. PICK m : Spelled(bytes, items, m) /\ CutOff(bytes, m, status = "Truncated")
  BY DEF BytesInv
<1>5. PICK s, its : s = bytes /\ its = items
  OBVIOUS
<1>6. bytes' \in Seq(Nat)
  BY <1>1 DEF BytesInv
<1>7. Spelled(bytes, items, m)' /\ CutOff(bytes, m, status = "Truncated")'
  BY <1>1, <1>4, <1>5
<1> QED BY <1>3, <1>6, <1>7 DEF BytesInv

\* The inductive invariant of the parser.
ParserInv == PassInv /\ BytesInv

\* The two invariants of the parser hold, whatever is written, framed and paired.
LEMMA ParserInvHolds == FixtureSpec => []ParserInv
<1>1. FixtureInit => ParserInv
  BY PassStarts, BytesStart DEF FixtureInit, ParserInv
<1>2. ASSUME ParserInv, [FixtureNext]_vars PROVE ParserInv'
  <2>1. CASE Item
    BY <1>2, <2>1, ItemStands DEF ParserInv
  <2>2. CASE Finish
    <3>1. PassInv /\ BytesInv /\ ItemsTyped
      BY <1>2 DEF ParserInv, PassInv
    <3> QED BY <2>2, <3>1, FinishStands, BytesEnd DEF ParserInv
  <2>3. CASE UNCHANGED parser
    BY <1>2, <2>3, PassStays DEF ParserInv
  <2>4. Item \/ Finish \/ UNCHANGED parser
    BY <1>2 DEF FixtureNext, Parse, FrameReport, PairEndpoint, vars
  <2> QED BY <2>1, <2>2, <2>3, <2>4
<1> QED BY <1>1, <1>2, PTL DEF FixtureSpec

-----------------------------------------------------------------------------
(* What the properties of the runs say, for every script.                  *)

\* The cuts are where the items were written (hid.rs:131-199): whatever the data of
\* an item holds, the items are recovered, and a stream cut off inside an item is
\* refused at that item.
THEOREM ItemsAreRecovered == FixtureSpec => []ItemsRecovered
<1>1. BytesInv /\ ItemsTyped => ItemsRecovered
  <2> SUFFICES ASSUME BytesInv, ItemsTyped PROVE ItemsRecovered
    OBVIOUS
  <2>1. bytes \in Seq(Nat) /\ items \in Seq(Entries)
    BY DEF BytesInv, ItemsTyped
  <2>2. PICK m : Spelled(bytes, items, m) /\ CutOff(bytes, m, status = "Truncated")
    BY DEF BytesInv
  <2>3. ParseItems(bytes) = Result(bytes, items, m)
    BY <2>1, <2>2, SpelledIsParsed DEF CutOff
  <2>4. CASE status = "Truncated"
    <3>1. m # Len(bytes)
      BY <2>2, <2>4 DEF CutOff
    <3> DEFINE e == [offset |-> m, expected |-> Get(Missing(bytes, m))]
    <3>2. ParseItems(bytes).error = Some(e)
      BY <2>3, <3>1 DEF Result
    <3>3. Some(e) # None /\ Get(Some(e)) = e /\ e.offset = m
      BY GetSome
    <3>4. Len(FlattenSeq([i \in DOMAIN items |-> Encode(items[i].item)])) = m
      BY <2>1, <2>2, SpelledLength
    <3> HIDE DEF e
    <3> QED BY <2>4, <3>2, <3>3, <3>4 DEF ItemsRecovered
  <2>5. CASE status # "Truncated"
    <3>1. m = Len(bytes)
      BY <2>2, <2>5 DEF CutOff
    <3>2. ParseItems(bytes) = [items |-> items, error |-> None]
      BY <2>3, <3>1 DEF Result
    <3> QED BY <2>5, <3>2 DEF ItemsRecovered
  <2> QED BY <2>4, <2>5
<1>2. ParserInv => ItemsRecovered
  BY <1>1 DEF ParserInv, PassInv
<1> QED BY <1>2, ParserInvHolds, PTL

\* The width of a legal field is a number.
LEMMA WidthIsNumber ==
  ASSUME ItemsTyped, NEW i \in Fields, LegalItem(i)
  PROVE  WidthOf(i) \in Nat
<1>1. i \in 1..(Len(items) + 1)
  BY DEF ItemsTyped, Fields
<1>2. InForce(7, i) # None /\ InForce(9, i) # None
  BY DEF LegalItem
<1>3. PICK v \in Nat : InForce(7, i) = Some(v)
  BY <1>1, <1>2, InForceIsNumber DEF NumbersInForce
<1>4. PICK w \in Nat : InForce(9, i) = Some(w)
  BY <1>1, <1>2, InForceIsNumber DEF NumbersInForce
<1>5. WidthOf(i) = v * w
  BY <1>3, <1>4, GetSome DEF WidthOf
<1> QED BY <1>5

\* No later field takes bits away.
LEMMA BitsNeverShrink ==
  ASSUME ItemsTyped, NEW n \in Nat, n = Len(items), \A i \in 1..n : LegalItem(i),
         NEW key, DeclaredBits(key, n) \in Nat, NEW i \in 1..n
  PROVE  /\ DeclaredBits(key, i - 1) + ShareOf(key, i) <= DeclaredBits(key, n)
         /\ DeclaredBits(key, i - 1) \in Nat
<1>1. \A k \in 1..n : ShareOf(key, k) \in Nat
  <2> TAKE k \in 1..n
  <2>1. k \in Fields => WidthOf(k) \in Nat
    BY WidthIsNumber
  <2> QED BY <2>1 DEF ShareOf
<1> DEFINE b == [k \in 0..n |-> DeclaredBits(key, k)]
           S == {k \in 0..n : b[k] \in Nat}
           T == {k \in 0..n : k >= i => b[k] >= b[i]}
<1>2. b[0] = 0 /\ \A k \in 1..n : b[k] = b[k - 1] + ShareOf(key, k)
  <2>1. ASSUME NEW k \in 1..n PROVE b[k] = b[k - 1] + ShareOf(key, k)
    <3>1. k - 1 \in Nat /\ (k - 1) + 1 = k /\ k \in 0..n /\ k - 1 \in 0..n
      OBVIOUS
    <3>2. DeclaredBits(key, (k - 1) + 1) = DeclaredBits(key, k - 1) + ShareOf(key, (k - 1) + 1)
      BY <3>1, BitsAddUp DEF BitsSteps
    <3> QED BY <3>1, <3>2
  <2>2. DeclaredBits(key, 0) = 0 /\ 0 \in 0..n
    BY BitsAddUp DEF BitsSteps
  <2>3. b[0] = 0
    BY <2>2
  <2> HIDE DEF b
  <2> QED BY <2>1, <2>3
<1>3. /\ b[i] = DeclaredBits(key, i) /\ b[i - 1] = DeclaredBits(key, i - 1)
      /\ b[n] = DeclaredBits(key, n)
  OBVIOUS
<1> HIDE DEF b
<1>4. \A k \in 0..n : k \in S
  <2>1. 0 \in S
    BY <1>2
  <2>2. \A k \in 1..n : k - 1 \in S => k \in S
    BY <1>1, <1>2
  <2> HIDE DEF S
  <2> QED BY <2>1, <2>2, BoundedInduction
<1>5. \A k \in 0..n : b[k] \in Nat
  BY <1>4
<1>6. \A k \in 0..n : k \in T
  <2>1. 0 \in T
    BY <1>2
  <2>2. ASSUME NEW k \in 1..n, k - 1 \in T PROVE k \in T
    <3>1. k \in 0..n /\ k - 1 \in 0..n /\ i \in 0..n
      OBVIOUS
    <3>2. b[k] \in Nat /\ b[k - 1] \in Nat /\ b[i] \in Nat /\ ShareOf(key, k) \in Nat
          /\ b[k] = b[k - 1] + ShareOf(key, k)
      BY <1>1, <1>2, <1>5, <3>1
    <3>3. CASE k = i
      BY <3>1, <3>2, <3>3
    <3>4. CASE k # i
      <4>1. k >= i => b[k - 1] >= b[i]
        BY <2>2, <3>4
      <4> QED BY <3>1, <3>2, <4>1
    <3> QED BY <3>3, <3>4
  <2> HIDE DEF T
  <2> QED BY <2>1, <2>2, BoundedInduction
<1>7. b[n] >= b[i]
  BY <1>6
<1>8. i - 1 \in 0..n /\ i \in 0..n /\ n \in 0..n
  OBVIOUS
<1>9. b[i] = b[i - 1] + ShareOf(key, i) /\ b[i] \in Nat /\ b[i - 1] \in Nat /\ b[n] \in Nat
  BY <1>2, <1>5, <1>8
<1> QED BY <1>3, <1>7, <1>9

\* The layouts are those the items declare (hid.rs:265-344): however Push, Pop and
\* report ids interleave, every field has the globals in force at its item and begins
\* where the widths before it in its own report end.
THEOREM FieldsAreAsDeclared == FixtureSpec => []FieldsAsDeclared
<1>1. PassInv => FieldsAsDeclared
  <2> SUFFICES ASSUME PassInv, status \in {"open", "accepted"}
               PROVE  FieldsAsDeclared
    BY DEF FieldsAsDeclared
  <2> PICK n : n = Len(items)
    OBVIOUS
  <2>1. n \in Nat /\ ItemsTyped /\ Stands(n) /\ DOMAIN items = 1..n
    BY DEF PassInv, Clean, ItemsTyped
  <2>2. LayoutsStand(n) /\ \A i \in 1..n : LegalItem(i)
    BY <2>1 DEF Stands
  <2>3. ASSUME NEW i \in Fields
        PROVE  LET report == layouts[KeyOf(i)]
                   field == report.fields[Cardinality(Before(i)) + 1]
               IN /\ Len(report.fields) = Cardinality({j \in Fields : KeyOf(j) = KeyOf(i)})
                  /\ field.offset = OffsetOf(i)
                  /\ <<Some(field.size), Some(field.count)>> = <<InForce(7, i), InForce(9, i)>>
                  /\ field.usages = UsagesOf(i)
                  /\ report.bits >= OffsetOf(i) + WidthOf(i)
    <3>1. Described(i) /\ i \in 1..n
      BY <2>1, <2>2 DEF LayoutsStand, Fields
    <3>2. KeyOf(i) \in DOMAIN layouts
      BY <2>2 DEF LayoutsStand
    <3>3. layouts[KeyOf(i)] = LayoutOf(KeyOf(i))
      BY <3>2 DEF LayoutOf
    <3>4. Held(i) = layouts[KeyOf(i)].fields[Cardinality(Before(i)) + 1]
      BY <3>3 DEF Held, Rank
    <3>5. Len(layouts[KeyOf(i)].fields) = Cardinality({j \in Fields : KeyOf(j) = KeyOf(i)})
      BY <2>2, <3>3 DEF LayoutsStand, FieldsOf
    <3>6. layouts[KeyOf(i)].bits >= OffsetOf(i) + WidthOf(i)
      <4>1. PICK key : key = KeyOf(i)
        OBVIOUS
      <4>2. LayoutOf(key).bits = DeclaredBits(key, n) /\ DeclaredBits(key, n) \in Nat
        BY <2>2 DEF LayoutsStand
      <4>3. ShareOf(key, i) = WidthOf(i) /\ OffsetOf(i) = DeclaredBits(key, i - 1)
        BY <4>1, OffsetMeans DEF ShareOf, OffsetByKey
      <4>4. WidthOf(i) \in Nat
        BY <2>1, <2>2, <3>1, WidthIsNumber
      <4>5. DeclaredBits(key, i - 1) + ShareOf(key, i) <= DeclaredBits(key, n)
            /\ DeclaredBits(key, i - 1) \in Nat
        BY <2>1, <2>2, <3>1, <4>2, BitsNeverShrink
      <4> QED BY <3>3, <4>1, <4>2, <4>3, <4>4, <4>5
    <3> QED BY <3>1, <3>4, <3>5, <3>6 DEF Described
  <2>4. DOMAIN layouts = {KeyOf(i) : i \in Fields}
    BY <2>2 DEF LayoutsStand
  <2> QED BY <2>3, <2>4 DEF FieldsAsDeclared
<1>2. ParserInv => FieldsAsDeclared
  BY <1>1 DEF ParserInv
<1> QED BY <1>2, ParserInvHolds, PTL

\* The verdict of the pass (hid.rs:201-369) is that of the whole descriptor: it
\* refuses nothing legal and accepts nothing else.
THEOREM VerdictIsExact == FixtureSpec => []VerdictExact
<1>1. PassInv => VerdictExact
  <2> SUFFICES ASSUME PassInv PROVE VerdictExact
    OBVIOUS
  <2>1. status \in Clean => Legal
    <3> SUFFICES ASSUME status \in Clean PROVE Legal
      OBVIOUS
    <3>1. ItemsTyped /\ Stands(Len(items))
      BY DEF PassInv
    <3>2. \A i \in 1..Len(items) : LegalItem(i)
      BY <3>1 DEF Stands
    <3> QED BY <3>1, <3>2, LegalMeans DEF LegalByItem
  <2>2. /\ status \notin Clean => ~Legal
        /\ status = "accepted" => Closed
        /\ status \in Unclosed => ~Closed
    BY DEF PassInv
  <2> QED BY <2>1, <2>2 DEF VerdictExact, Clean, Unclosed
<1>2. ParserInv => VerdictExact
  BY <1>1 DEF ParserInv
<1> QED BY <1>2, ParserInvHolds, PTL

-----------------------------------------------------------------------------
(* Framing.                                                                *)

\* The least number of bytes that holds so many bits.
LEMMA BytesHoldBits ==
  ASSUME NEW d \in Nat \ {0}, NEW bits \in Nat
  PROVE  /\ (bits + d - 1) \div d \in Nat
         /\ d * ((bits + d - 1) \div d) \in bits..(bits + d - 1)
<1> DEFINE x == bits + d - 1
<1>1. x \in Nat
  OBVIOUS
<1> HIDE DEF x
<1>2. x \div d \in Nat /\ x = d * (x \div d) + (x % d) /\ x % d \in 0..(d - 1)
  BY <1>1
<1> DEFINE q == x \div d
           r == x % d
<1> HIDE DEF q, r
<1>3. q \in Nat /\ x = d * q + r /\ r \in 0..(d - 1)
  BY <1>2 DEF q, r
<1> DEFINE y == d * q
<1>4. y \in Nat
  BY <1>3
<1> HIDE DEF y
<1>5. x = y + r
  BY <1>3 DEF y
<1>6. y \in bits..(bits + d - 1)
  BY <1>1, <1>3, <1>4, <1>5 DEF x
<1> QED BY <1>3, <1>6 DEF x, y, q

\* So as many bytes hold the bits as are at least as many.
LEMMA EnoughBytes ==
  ASSUME NEW d \in Nat \ {0}, NEW bits \in Nat, NEW e \in Nat, d * e \in bits..(bits + d - 1),
         NEW l \in Nat
  PROVE  l >= e <=> d * l >= bits
<1>1. CASE l >= e
  <2>1. PICK k \in Nat : l = e + k
    <3>1. l - e \in Nat /\ l = e + (l - e)
      BY <1>1
    <3> QED BY <3>1
  <2>2. d * l = d * e + d * k
    BY <2>1
  <2>3. d * k \in Nat /\ d * e \in Nat /\ d * e >= bits
    BY <2>1
  <2> DEFINE u == d * l
             v == d * e
             w == d * k
  <2> HIDE DEF u, v, w
  <2>4. u >= bits
    BY <2>2, <2>3 DEF u, v, w
  <2> QED BY <1>1, <2>4 DEF u
<1>2. CASE ~(l >= e)
  <2>1. PICK k \in Nat : e = l + 1 + k
    <3>1. e - l - 1 \in Nat /\ e = l + 1 + (e - l - 1)
      BY <1>2
    <3> QED BY <3>1
  <2>2. d * e = d * l + d + d * k
    BY <2>1
  <2>3. d * k \in Nat /\ d * l \in Nat /\ d * e <= bits + d - 1 /\ d * e \in Nat
    BY <2>1
  <2> DEFINE u == d * l
             v == d * e
             w == d * k
  <2> HIDE DEF u, v, w
  <2>4. ~(u >= bits)
    BY <2>2, <2>3 DEF u, v, w
  <2> QED BY <1>2, <2>4 DEF u
<1> QED BY <1>1, <1>2

\* A slice of a sequence.
LEMMA Slice ==
  ASSUME NEW s \in Seq(Nat), NEW i \in Nat, NEW j \in Nat, i <= j, j <= Len(s),
         NEW u, u = SubSeq(s, i + 1, j)
  PROVE  u \in Seq(Nat) /\ Len(u) = j - i /\ \A k \in 1..(j - i) : u[k] = s[i + k]
<1> DEFINE m == i + 1
<1>1. m \in Int /\ j \in Int /\ Len(s) \in Nat
  OBVIOUS
<1>2. \A k \in m..j : s[k] \in Nat
  BY <1>1
<1> HIDE DEF m
<1>3. /\ u \in Seq(Nat) /\ Len(u) = (IF m <= j THEN j - m + 1 ELSE 0)
      /\ \A k \in 1..(j - m + 1) : u[k] = s[m + k - 1]
  <2>1. u = SubSeq(s, m, j)
    BY DEF m
  <2> QED BY <1>1, <1>2, <2>1, SubSeqProperties
<1>4. j - m + 1 = j - i /\ (m <= j \/ j - i = 0)
  BY DEF m
<1>5. ASSUME NEW k \in 1..(j - i) PROVE u[k] = s[i + k]
  <2>1. m + k - 1 = i + k
    BY DEF m
  <2> QED BY <1>3, <1>4, <2>1
<1> QED BY <1>3, <1>4, <1>5

\* The first elements of a sequence.
LEMMA FirstSlice ==
  ASSUME NEW s \in Seq(Nat), NEW j \in Nat, j <= Len(s), NEW u, u = SubSeq(s, 1, j)
  PROVE  u \in Seq(Nat) /\ Len(u) = j /\ \A k \in 1..j : u[k] = s[k]
<1>1. 0 \in Nat /\ 0 <= j /\ u = SubSeq(s, 0 + 1, j)
  OBVIOUS
<1>2. u \in Seq(Nat) /\ Len(u) = j - 0 /\ \A k \in 1..(j - 0) : u[k] = s[0 + k]
  BY ONLY <1>1, s \in Seq(Nat), j \in Nat, j <= Len(s), Slice
<1>3. j - 0 = j /\ \A k \in 1..j : 0 + k = k
  OBVIOUS
<1> QED BY <1>2, <1>3

Payload(raw, h) == IF h = 1 THEN Tail(raw) ELSE raw
InThree(raw, h, e, p) ==
  /\ Len(p) = Len(raw) - h
  /\ Len(SubSeq(p, 1, e)) = e
  /\ SubSeq(raw, 1, h) \o SubSeq(p, 1, e) \o SubSeq(p, e + 1, Len(p)) = raw
Fits(raw, h, e) == h <= Len(raw) /\ e <= Len(raw) - h

\* A sequence cut into a head, so many elements and the rest.
LEMMA CutInThree ==
  ASSUME NEW raw \in Seq(Nat), NEW h \in {0, 1}, NEW e \in Nat, Fits(raw, h, e),
         NEW p, p = Payload(raw, h)
  PROVE  InThree(raw, h, e, p)
<1> USE DEF Payload, Fits
<1>1. /\ Len(raw) \in Nat /\ p \in Seq(Nat) /\ Len(p) = Len(raw) - h
      /\ \A k \in 1..Len(p) : p[k] = raw[h + k]
  <2>1. CASE h = 0
    BY <2>1
  <2>2. CASE h = 1
    BY <2>2
  <2> QED BY <2>1, <2>2
<1> DEFINE a == SubSeq(raw, 1, h)
           b == SubSeq(p, 1, e)
           c == SubSeq(p, e + 1, Len(p))
           l == Len(p)
<1>2. l \in Nat /\ l = Len(raw) - h /\ e <= l /\ h \in Nat
  BY <1>1
<1>3. a \in Seq(Nat) /\ Len(a) = h /\ \A k \in 1..h : a[k] = raw[k]
  <2>1. a = SubSeq(raw, 1, h) /\ h \in Nat /\ h <= Len(raw)
    BY <1>2
  <2> HIDE DEF a
  <2> QED BY ONLY <2>1, raw \in Seq(Nat), FirstSlice
<1>4. b \in Seq(Nat) /\ Len(b) = e /\ \A k \in 1..e : b[k] = p[k]
  <2>1. b = SubSeq(p, 1, e) /\ e <= Len(p) /\ p \in Seq(Nat) /\ e \in Nat
    BY <1>1, <1>2
  <2> HIDE DEF b
  <2> QED BY ONLY <2>1, FirstSlice
<1>5. c \in Seq(Nat) /\ Len(c) = l - e /\ \A k \in 1..(l - e) : c[k] = p[e + k]
  <2>1. c = SubSeq(p, e + 1, l) /\ e <= l /\ l <= Len(p) /\ p \in Seq(Nat) /\ e \in Nat /\ l \in Nat
    BY <1>1, <1>2
  <2> HIDE DEF c, l
  <2> QED BY ONLY <2>1, Slice
<1> HIDE DEF a, b, c, l
<1>6. a \o b \in Seq(Nat) /\ Joined(a \o b, a, b)
  BY <1>3, <1>4, JoinedUp
<1> DEFINE u == a \o b
           v == u \o c
<1>7. v \in Seq(Nat) /\ Joined(v, u, c)
  <2>1. u \in Seq(Nat)
    BY <1>6
  <2> HIDE DEF u
  <2> QED BY <1>5, <2>1, JoinedUp
<1> HIDE DEF u, v
<1>8. Joined(u, a, b)
  BY <1>6 DEF u
<1>9. Len(u) = h + e /\ Len(v) = Len(raw)
  BY <1>1, <1>2, <1>3, <1>4, <1>5, <1>7, <1>8 DEF Joined
<1>10. \A k \in 1..Len(raw) : v[k] = raw[k]
  <2> TAKE k \in 1..Len(raw)
  <2>1. CASE k <= h
    <3>1. k \in 1..h /\ k \in 1..Len(u)
      BY <1>2, <1>9, <2>1
    <3> QED BY <1>3, <1>7, <1>8, <3>1 DEF Joined
  <2>2. CASE k > h /\ k <= h + e
    <3>1. PICK j \in 1..e : k = h + j
      <4>1. k - h \in 1..e /\ k = h + (k - h)
        BY <1>2, <2>2
      <4> QED BY <4>1
    <3>2. k \in 1..Len(u) /\ j \in 1..l
      BY <1>2, <1>9, <2>2
    <3>3. v[k] = u[k] /\ u[h + j] = b[j] /\ b[j] = p[j]
      BY <1>3, <1>4, <1>7, <1>8, <3>2 DEF Joined
    <3> QED BY <1>1, <3>1, <3>2, <3>3 DEF l
  <2>3. CASE k > h + e
    <3>1. PICK j \in 1..(l - e) : k = (h + e) + j
      <4>1. k - (h + e) \in 1..(l - e) /\ k = (h + e) + (k - (h + e))
        BY <1>1, <1>2, <2>3
      <4> QED BY <4>1
    <3>2. e + j \in 1..l /\ h + (e + j) = k
      BY <1>2, <3>1
    <3>3. v[(h + e) + j] = c[j] /\ c[j] = p[e + j]
      BY <1>5, <1>7, <1>9 DEF Joined
    <3>4. p[e + j] = raw[h + (e + j)]
      BY <1>1, <3>2 DEF l
    <3> QED BY <3>1, <3>2, <3>3, <3>4
  <2> QED BY <1>2, <2>1, <2>2, <2>3
<1>11. v = raw
  BY <1>7, <1>9, <1>10, SeqEqual
<1> QED BY <1>1, <1>4, <1>11 DEF a, b, c, u, v, l, InThree

\* What a framed report was framed by.
FrameInv ==
  \A f \in framed : /\ status = "accepted"
                    /\ f.report \in Reports
                    /\ f.result = Framed(f.report)

\* Every report was framed by the layouts that are accepted now.
LEMMA FrameInvHolds == FixtureSpec => []FrameInv
<1>1. FixtureInit => FrameInv
  BY DEF FixtureInit, FrameInv, None
<1>2. ASSUME FrameInv, [FixtureNext]_vars PROVE FrameInv'
  <2>1. CASE framed' = framed /\ UNCHANGED parser
    <3>1. layouts' = layouts /\ status' = status
      BY <2>1 DEF parser
    <3>2. \A report : Framed(report)' = Framed(report)
      BY <3>1 DEF Framed, HasIds
    <3> QED BY <1>2, <2>1, <3>1, <3>2 DEF FrameInv
  <2>2. CASE Parse
    <3>1. status = "open" /\ framed' = framed
      BY <2>2 DEF Parse, Item, Finish
    <3>2. \A f \in framed : FALSE
      BY <1>2, <3>1 DEF FrameInv
    <3> QED BY <3>1, <3>2 DEF FrameInv
  <2>3. CASE FrameReport
    <3>1. PICK report \in Reports : framed' = Some([report |-> report, result |-> Framed(report)])
      BY <2>3 DEF FrameReport
    <3>2. status' = "accepted" /\ layouts' = layouts
      BY <2>3 DEF FrameReport, parser
    <3>3. Framed(report)' = Framed(report)
      BY <3>2 DEF Framed, HasIds
    <3> DEFINE g == [report |-> report, result |-> Framed(report)]
    <3>4. g.report = report /\ g.result = Framed(report)
      OBVIOUS
    <3>5. \A f \in framed' : f = g
      BY <3>1 DEF Some
    <3> HIDE DEF g
    <3>6. \A f \in framed' : f.report = report /\ f.result = Framed(report)'
      BY <3>3, <3>4, <3>5
    <3>7. \A f \in framed' : f.result = Framed(f.report)'
      BY <3>6
    <3> QED BY <3>2, <3>6, <3>7 DEF FrameInv
  <2>4. CASE PairEndpoint
    BY <2>1, <2>4 DEF PairEndpoint
  <2>5. CASE UNCHANGED vars
    BY <2>1, <2>5 DEF vars
  <2> QED BY <1>2, <2>2, <2>3, <2>4, <2>5 DEF FixtureNext
<1> QED BY <1>1, <1>2, PTL DEF FixtureSpec

\* The bits of a report that the layouts have are those its fields declare.
ReportBits(key) == layouts[key].bits
\* A report is as long as the fields of its key together.
LEMMA ReportsDeclared ==
  ASSUME PassInv, status = "accepted", NEW n, n = Len(items), NEW key, key \in DOMAIN layouts
  PROVE  ReportBits(key) = DeclaredBits(key, n) /\ DeclaredBits(key, n) \in Nat
<1>1. Stands(n)
  BY DEF PassInv, Clean
<1> QED BY <1>1 DEF Stands, LayoutsStand, LayoutOf, ReportBits

CutAt(p, e, id) ==
  IF Len(p) < e THEN Rejected("ShortReport")
  ELSE [error |-> "none", id |-> id, payload |-> SubSeq(p, 1, e),
        trailing |-> SubSeq(p, e + 1, Len(p))]
Cut(raw, head, bits, result) ==
  /\ result.error = "none"
  /\ SubSeq(raw, 1, head) \o result.payload \o result.trailing = raw
  /\ ByteBits * Len(result.payload) \in bits..(bits + ByteBits - 1)
Rightly(raw, head, bits, id, result) ==
  IF ByteBits * (Len(raw) - head) >= bits THEN Cut(raw, head, bits, result) /\ result.id = id
  ELSE result.error # "none"

\* A report is accepted when it holds the bits of its own layout, and cut there
\* (hid.rs:409-455).
LEMMA FramedIsCut ==
  ASSUME NEW raw \in Seq(Nat), NEW head \in {0, 1}, head <= Len(raw), NEW bits \in Nat,
         NEW p, p = Payload(raw, head),
         NEW e, e = MinimumBytes(bits), NEW id, NEW result, result = CutAt(p, e, id)
  PROVE  Rightly(raw, head, bits, id, result)
<1> USE DEF CutAt, Rightly
<1>1. ByteBits \in Nat \ {0}
  BY ByteAssumption
<1>2. e \in Nat /\ ByteBits * e \in bits..(bits + ByteBits - 1)
  BY <1>1, BytesHoldBits DEF MinimumBytes
<1> DEFINE l == Len(raw) - head
<1>3. l \in Nat /\ Len(p) = l
  <2>1. CASE head = 0
    BY <2>1 DEF Payload
  <2>2. CASE head = 1
    BY <2>2 DEF Payload
  <2> QED BY <2>1, <2>2
<1>4. l >= e <=> ByteBits * l >= bits
  <2> HIDE DEF l
  <2> QED BY <1>1, <1>2, <1>3, EnoughBytes
<1>5. CASE l >= e
  <2>1. ~(Len(p) < e)
    BY <1>2, <1>3, <1>5
  <2>2. /\ Len(SubSeq(p, 1, e)) = e
        /\ SubSeq(raw, 1, head) \o SubSeq(p, 1, e) \o SubSeq(p, e + 1, Len(p)) = raw
    <3>1. e \in Nat /\ Fits(raw, head, e)
      BY <1>2, <1>5 DEF Fits
    <3>2. InThree(raw, head, e, p)
      BY ONLY raw \in Seq(Nat), head \in {0, 1}, p = Payload(raw, head), <3>1, CutInThree
    <3> QED BY <3>2 DEF InThree
  <2>3. /\ result.error = "none" /\ result.id = id /\ result.payload = SubSeq(p, 1, e)
        /\ result.trailing = SubSeq(p, e + 1, Len(p))
    BY <2>1
  <2>4. Cut(raw, head, bits, result)
    BY <1>2, <2>2, <2>3 DEF Cut
  <2> QED BY <1>4, <1>5, <2>3, <2>4
<1>6. CASE ~(l >= e)
  <2>1. Len(p) < e
    BY <1>2, <1>3, <1>6
  <2>2. result.error = "ShortReport"
    BY <2>1 DEF Rejected
  <2> QED BY <1>4, <1>6, <2>2
<1> QED BY <1>5, <1>6

\* Reports are framed as declared (hid.rs:409-455): a report is accepted exactly when
\* its own id is declared and its bytes hold every field of that report, and what is
\* cut off at the end is no byte that a field needs.
THEOREM FramingIsExact == FixtureSpec => []FramingExact
<1>1. PassInv /\ FrameInv => FramingExact
  <2> SUFFICES ASSUME PassInv, FrameInv, NEW f \in framed
               PROVE  LET type == f.report.type
                          raw == f.report.bytes
                          head == IF \E i \in Fields : KeyOf(i)[1] = type /\ KeyOf(i)[2] # 0 THEN 1 ELSE 0
                          id == IF head = 1 /\ raw # <<>> THEN raw[1] ELSE 0
                          own == {i \in Fields : KeyOf(i) = <<type, id>>}
                          bits == DeclaredBits(<<type, id>>, Len(items))
                          result == f.result
                      IN IF own # {} /\ Len(raw) >= head /\ ByteBits * (Len(raw) - head) >= bits
                         THEN /\ result.error = "none" /\ result.id = id
                              /\ SubSeq(raw, 1, head) \o result.payload \o result.trailing = raw
                              /\ ByteBits * Len(result.payload) \in bits..(bits + ByteBits - 1)
                         ELSE result.error # "none"
    BY DEF FramingExact
  <2> DEFINE type == f.report.type
             raw == f.report.bytes
             head == IF \E i \in Fields : KeyOf(i)[1] = type /\ KeyOf(i)[2] # 0 THEN 1 ELSE 0
             id == IF head = 1 /\ raw # <<>> THEN raw[1] ELSE 0
             key == <<type, id>>
             own == {i \in Fields : KeyOf(i) = key}
             bits == DeclaredBits(key, Len(items))
             result == f.result
  <2>1. status = "accepted" /\ f.report \in Reports /\ result = Framed(f.report)
    BY DEF FrameInv
  <2>2. raw \in Seq(Nat) /\ Len(raw) \in Nat /\ head \in {0, 1}
    <3>1. raw \in Seq(Nat)
      BY <2>1, ReportsAssumption
    <3> HIDE DEF raw
    <3>2. Len(raw) \in Nat
      BY <3>1
    <3> QED BY <3>1, <3>2
  <2>3. DOMAIN layouts = {KeyOf(i) : i \in Fields}
    BY <2>1 DEF PassInv, Clean, Stands, LayoutsStand
  <2>4. HasIds(type) <=> head = 1
    BY <2>3 DEF HasIds
  <2>5. own # {} <=> key \in DOMAIN layouts
    <3> HIDE DEF key
    <3> QED BY <2>3
  <2> HIDE DEF own
  <2>6. CASE head = 1 /\ raw = <<>>
    <3>1. HasIds(f.report.type) /\ f.report.bytes = <<>>
      BY <2>4, <2>6
    <3>2. result = Rejected("MissingReportId")
      BY <2>1, <3>1 DEF Framed
    <3>3. result.error # "none" /\ ~(Len(raw) >= head)
      BY <2>6, <3>2 DEF Rejected
    <3> QED BY <3>3
  <2>7. CASE ~(head = 1 /\ raw = <<>>)
    <3> DEFINE p == Payload(raw, head)
               e == MinimumBytes(ReportBits(key))
    <3>1. Len(raw) >= head
      <4> HIDE DEF raw, head
      <4> QED BY <2>2, <2>7
    <3>2. /\ (IF HasIds(type) THEN Tail(raw) ELSE raw) = p
          /\ (IF HasIds(type) THEN Head(raw) ELSE 0) = id
      <4>1. head = 1 => Head(raw) = raw[1]
        BY <2>2, <2>7
      <4> HIDE DEF head, raw
      <4> QED BY <2>4, <2>7, <4>1 DEF Payload
    <3>3. result = IF key \notin DOMAIN layouts THEN Rejected("UnknownReportId")
                   ELSE IF Len(p) < e THEN Rejected("ShortReport")
                   ELSE [error |-> "none", id |-> id, payload |-> SubSeq(p, 1, e),
                         trailing |-> SubSeq(p, e + 1, Len(p))]
      <4>1. ~(HasIds(f.report.type) /\ f.report.bytes = <<>>)
        BY <2>4, <2>7
      <4> HIDE DEF id, p, head
      <4> QED BY <2>1, <3>2, <4>1 DEF Framed, ReportBits
    <3>4. CASE key \notin DOMAIN layouts
      <4>1. result.error # "none"
        BY <3>3, <3>4 DEF Rejected
      <4> QED BY <2>5, <3>4, <4>1 DEF own
    <3>5. CASE key \in DOMAIN layouts
      <4> PICK n : n = Len(items)
        OBVIOUS
      <4> HIDE DEF key, id, head, raw, p, e, result
      <4>1. bits \in Nat /\ ReportBits(key) = bits
        BY <2>1, <3>5, ReportsDeclared
      <4> HIDE DEF bits
      <4>2. e = MinimumBytes(bits) /\ p = Payload(raw, head) /\ head <= Len(raw)
        BY <2>2, <3>1, <4>1 DEF e, p
      <4>3. result = CutAt(p, e, id)
        BY <3>3, <3>5 DEF CutAt
      <4>4. Rightly(raw, head, bits, id, result)
        BY ONLY <2>2, <4>1, <4>2, <4>3, FramedIsCut
      <4>5. IF own # {} /\ Len(raw) >= head /\ ByteBits * (Len(raw) - head) >= bits
            THEN /\ result.error = "none" /\ result.id = id
                 /\ SubSeq(raw, 1, head) \o result.payload \o result.trailing = raw
                 /\ ByteBits * Len(result.payload) \in bits..(bits + ByteBits - 1)
            ELSE result.error # "none"
        BY <2>5, <3>1, <3>5, <4>4 DEF Cut, Rightly
      <4> QED BY <4>5 DEF own, bits, key, id, head, raw, result
    <3> QED BY <3>4, <3>5
  <2> QED BY <2>6, <2>7
<1>2. ParserInv /\ FrameInv => FramingExact
  BY <1>1 DEF ParserInv
<1> QED BY <1>2, ParserInvHolds, FrameInvHolds, PTL

-----------------------------------------------------------------------------
(* Pairing.                                                                *)

\* What is used of a bijection.
LEMMA BijectionMeans ==
  ASSUME NEW S, NEW T, NEW f \in Bijection(S, T)
  PROVE  f \in [S -> T] /\ \A i, j \in S : f[i] = f[j] => i = j
BY DEF Bijection, Injection, IsInjective

\* The numbers of the members of T in ascending order, under two enumerations of T.
Ascends(q, key, m) == \A i, j \in 1..m : i < j => key[q[i]] <= key[q[j]]
Below(q, key, m, v) == {i \in 1..m : key[q[i]] <= v}

\* As many places as members have a number up to v.
LEMMA PlacesBelow ==
  ASSUME NEW T, NEW key \in [T -> Nat], NEW m \in Nat, NEW q \in Bijection(1..m, T), NEW v \in Nat
  PROVE  /\ IsFiniteSet(Below(q, key, m, v))
         /\ Cardinality({t \in T : key[t] <= v}) = Cardinality(Below(q, key, m, v))
<1> DEFINE D == Below(q, key, m, v)
           U == {t \in T : key[t] <= v}
           f == [i \in D |-> q[i]]
<1>1. /\ q \in [1..m -> T]
      /\ \A a, b \in 1..m : q[a] = q[b] => a = b
      /\ \A t \in T : \E s \in 1..m : q[s] = t
  BY Fun_BijectionProperties
<1>2. f \in [D -> U] /\ \A i \in D : f[i] = q[i] /\ i \in 1..m
  BY <1>1 DEF Below
<1>3. \A t \in U : \E s \in D : f[s] = t
  BY <1>1 DEF Below
<1> HIDE DEF f
<1>4. \A a, b \in D : f[a] = f[b] => a = b
  BY <1>1, <1>2
<1>5. f \in Bijection(D, U)
  <2> HIDE DEF D, U
  <2> QED BY <1>2, <1>3, <1>4, Fun_IsBij
<1>6. IsFiniteSet(1..m)
  BY FS_Interval
<1>7. IsFiniteSet(D)
  <2>1. D \in SUBSET (1..m)
    BY DEF Below
  <2> HIDE DEF D
  <2> QED BY <1>6, <2>1, FS_Subset
<1> HIDE DEF D, U
<1>8. Cardinality(U) = Cardinality(D)
  BY <1>5, <1>7, FS_Bijection DEF ExistsBijection
<1> QED BY <1>7, <1>8 DEF D, U

\* So there is only one ascending sequence of them.
LEMMA AscendingUnique ==
  ASSUME NEW T, NEW key \in [T -> Nat], NEW m \in Nat,
         NEW q \in Bijection(1..m, T), Ascends(q, key, m),
         NEW r \in Bijection(1..m, T), Ascends(r, key, m)
  PROVE  \A i \in 1..m : key[q[i]] = key[r[i]]
<1>1. q \in [1..m -> T] /\ r \in [1..m -> T]
  BY Fun_BijectionProperties
<1>2. ASSUME NEW v \in Nat PROVE Below(q, key, m, v) = Below(r, key, m, v)
  <2> DEFINE D == Below(q, key, m, v)
             E == Below(r, key, m, v)
  <2>1. IsFiniteSet(D) /\ IsFiniteSet(E) /\ Cardinality(D) = Cardinality(E)
    <3>1. /\ IsFiniteSet(Below(q, key, m, v))
          /\ Cardinality({t \in T : key[t] <= v}) = Cardinality(Below(q, key, m, v))
      BY PlacesBelow
    <3>2. /\ IsFiniteSet(Below(r, key, m, v))
          /\ Cardinality({t \in T : key[t] <= v}) = Cardinality(Below(r, key, m, v))
      BY PlacesBelow
    <3> QED BY <3>1, <3>2
  <2>2. D \in SUBSET E \/ E \in SUBSET D
    <3> SUFFICES ASSUME NEW i \in D, i \notin E, NEW j \in E, j \notin D PROVE FALSE
      OBVIOUS
    <3>1. i \in 1..m /\ j \in 1..m /\ key[q[i]] <= v /\ key[r[j]] <= v
          /\ ~(key[r[i]] <= v) /\ ~(key[q[j]] <= v)
      BY DEF Below
    <3>2. /\ key[q[i]] \in Nat /\ key[r[j]] \in Nat
          /\ key[r[i]] \in Nat /\ key[q[j]] \in Nat
      BY <1>1, <3>1
    <3>3. CASE i < j
      <4>1. key[r[i]] <= key[r[j]]
        BY <3>1, <3>3 DEF Ascends
      <4> QED BY <3>1, <3>2, <4>1
    <3>4. CASE j < i
      <4>1. key[q[j]] <= key[q[i]]
        BY <3>1, <3>4 DEF Ascends
      <4> QED BY <3>1, <3>2, <4>1
    <3>5. CASE i = j
      BY <3>5
    <3> QED BY <3>1, <3>3, <3>4, <3>5
  <2> HIDE DEF D, E
  <2>3. D = E
    BY <2>1, <2>2, FS_Subset
  <2> QED BY <2>3 DEF D, E
<1> TAKE i \in 1..m
<1>3. key[q[i]] \in Nat /\ key[r[i]] \in Nat
  BY <1>1
<1>4. i \in Below(r, key, m, key[q[i]])
  <2>1. i \in Below(q, key, m, key[q[i]])
    BY <1>3 DEF Below
  <2> QED BY <1>2, <1>3, <2>1
<1>5. i \in Below(q, key, m, key[r[i]])
  <2>1. i \in Below(r, key, m, key[r[i]])
    BY <1>3 DEF Below
  <2> QED BY <1>2, <1>3, <2>1
<1>6. key[r[i]] <= key[q[i]] /\ key[q[i]] <= key[r[i]]
  BY <1>4, <1>5 DEF Below
<1> QED BY <1>3, <1>6

\* The order of the sort: by number, equal ones as they came.
KeyPrecedes(key, i, j) == key[i] < key[j] \/ (key[i] = key[j] /\ i < j)
KeyOrders(f, key, T) ==
  f \in [1..Cardinality(T) -> T] /\ \A i, j \in DOMAIN f : i < j => KeyPrecedes(key, f[i], f[j])

\* The one number of a pair that has that order.
LEMMA PairsInOrder ==
  ASSUME NEW m \in Nat, NEW a \in Nat, NEW b \in Nat, NEW x \in 1..m, NEW y \in 1..m, x # y,
         a * (m + 1) + x <= b * (m + 1) + y
  PROVE  a < b \/ (a = b /\ x < y)
<1>1. CASE a > b
  <2>1. PICK k \in Nat : a = b + 1 + k
    <3>1. a - b - 1 \in Nat /\ a = b + 1 + (a - b - 1)
      BY <1>1
    <3> QED BY <3>1
  <2> DEFINE d == m + 1
  <2>2. d \in Nat /\ x >= 1 /\ y < d
    OBVIOUS
  <2>3. a * d + x <= b * d + y
    OBVIOUS
  <2> HIDE DEF d
  <2>4. a * d = b * d + d + k * d
    BY <2>1, <2>2
  <2> DEFINE u == a * d
             v == b * d
             w == k * d
  <2>5. w \in Nat /\ v \in Nat /\ u \in Nat
    BY <2>1, <2>2
  <2> HIDE DEF u, v, w
  <2>6. u = v + d + w /\ u + x <= v + y
    BY <2>3, <2>4 DEF u, v, w
  <2>7. FALSE
    BY <2>2, <2>5, <2>6
  <2> QED BY <2>7
<1>2. CASE a = b
  <2> DEFINE u == a * (m + 1)
  <2>1. u \in Nat /\ u + x <= u + y
    BY <1>2
  <2> HIDE DEF u
  <2>2. x < y
    BY <2>1
  <2> QED BY <1>2, <2>2
<1> QED BY <1>1, <1>2

\* Any places can be put into that order.
LEMMA OrderExists ==
  ASSUME NEW m \in Nat, NEW T \in SUBSET (1..m), NEW key \in [1..m -> Nat]
  PROVE  \E f : KeyOrders(f, key, T)
<1> DEFINE c == Cardinality(T)
<1>1. c \in Nat /\ ExistsBijection(1..c, T)
  <2>1. IsFiniteSet(1..m)
    BY FS_Interval
  <2>2. IsFiniteSet(T)
    BY <2>1, FS_Subset
  <2> QED BY <2>2, FS_CardinalityType
<1>2. PICK b : b \in Bijection(1..c, T)
  BY <1>1 DEF ExistsBijection
<1>3. b \in [1..c -> T] /\ \A i, j \in 1..c : b[i] = b[j] => i = j
  BY <1>2, BijectionMeans
<1> HIDE DEF c
<1> DEFINE q == [i \in 1..c |-> key[b[i]] * (m + 1) + b[i]]
<1>4. \A i \in 1..c : b[i] \in 1..m /\ key[b[i]] \in Nat
  BY <1>3
<1>5. q \in [1..c -> Nat]
  <2> SUFFICES ASSUME NEW i \in 1..c PROVE key[b[i]] * (m + 1) + b[i] \in Nat
    OBVIOUS
  <2>1. b[i] \in Nat /\ key[b[i]] \in Nat
    BY <1>4
  <2> DEFINE k == key[b[i]]
             l == b[i]
  <2>2. k \in Nat /\ l \in Nat
    BY <2>1
  <2> HIDE DEF k, l
  <2>3. k * (m + 1) + l \in Nat
    BY <2>2
  <2> QED BY <2>3 DEF k, l
<1>6. PICK p : Sorts(p, q, c)
  <2> HIDE DEF q
  <2> QED BY <1>1, <1>5, SortingExists
<1>7. /\ p \in [1..c -> 1..c]
      /\ \A i, j \in 1..c : p[i] = p[j] => i = j
      /\ \A i, j \in 1..c : i < j => q[p[i]] <= q[p[j]]
  <2>1. p \in Bijection(1..c, 1..c) /\ \A i, j \in 1..c : i < j => q[p[i]] <= q[p[j]]
    BY <1>6 DEF Sorts
  <2>2. p \in [1..c -> 1..c] /\ \A i, j \in 1..c : p[i] = p[j] => i = j
    BY <2>1, BijectionMeans
  <2> QED BY <2>1, <2>2
<1> DEFINE f == [i \in 1..c |-> b[p[i]]]
<1>8. f \in [1..c -> T] /\ \A i \in 1..c : f[i] = b[p[i]]
  BY <1>3, <1>7
<1> HIDE DEF f
<1>9. ASSUME NEW i \in 1..c, NEW j \in 1..c, i < j PROVE KeyPrecedes(key, f[i], f[j])
  <2> DEFINE x == f[i]
             y == f[j]
  <2>1. x \in 1..m /\ y \in 1..m /\ key[x] \in Nat /\ key[y] \in Nat
    BY <1>8
  <2>2. x # y
    <3>1. p[i] # p[j] /\ p[i] \in 1..c /\ p[j] \in 1..c
      BY <1>7, <1>9
    <3>2. b[p[i]] # b[p[j]]
      BY <1>3, <3>1
    <3> QED BY <1>8, <3>2
  <2>3. key[x] * (m + 1) + x <= key[y] * (m + 1) + y
    <3>1. q[p[i]] <= q[p[j]] /\ p[i] \in 1..c /\ p[j] \in 1..c
      BY <1>7, <1>9
    <3>2. q[p[i]] = key[x] * (m + 1) + x /\ q[p[j]] = key[y] * (m + 1) + y
      BY <1>8, <3>1
    <3> HIDE DEF q
    <3> QED BY <3>1, <3>2
  <2> HIDE DEF x, y
  <2>4. key[x] < key[y] \/ (key[x] = key[y] /\ x < y)
    BY <2>1, <2>2, <2>3, PairsInOrder
  <2> QED BY <2>4 DEF KeyPrecedes, x, y
<1>10. KeyOrders(f, key, T)
  BY <1>8, <1>9 DEF KeyOrders, c
<1> QED BY <1>10

\* Such an order enumerates the places.
LEMMA OrderEnumerates ==
  ASSUME NEW m \in Nat, NEW T \in SUBSET (1..m), NEW key \in [1..m -> Nat],
         NEW f, KeyOrders(f, key, T)
  PROVE  f \in Bijection(1..Cardinality(T), T) /\ Ascends(f, key, Cardinality(T))
<1> DEFINE c == Cardinality(T)
<1>1. c \in Nat /\ IsFiniteSet(T)
  <2>1. IsFiniteSet(1..m)
    BY FS_Interval
  <2>2. IsFiniteSet(T)
    BY <2>1, FS_Subset
  <2> QED BY <2>2, FS_CardinalityType
<1>2. IsFiniteSet(1..c) /\ Cardinality(1..c) = c
  <2> HIDE DEF c
  <2>1. IsFiniteSet(1..c) /\ Cardinality(1..c) = IF 1 > c THEN 0 ELSE c - 1 + 1
    BY <1>1, FS_Interval
  <2> QED BY <1>1, <2>1
<1> HIDE DEF c
<1>3. /\ f \in [1..c -> T] /\ DOMAIN f = 1..c
      /\ \A i, j \in 1..c : i < j => KeyPrecedes(key, f[i], f[j])
  BY DEF KeyOrders, c
<1>4. \A i \in 1..c : f[i] \in 1..m /\ key[f[i]] \in Nat
  BY <1>3
<1>5. \A i, j \in 1..c : i < j => f[i] # f[j]
  <2> SUFFICES ASSUME NEW i \in 1..c, NEW j \in 1..c, i < j, f[i] = f[j] PROVE FALSE
    OBVIOUS
  <2>1. KeyPrecedes(key, f[i], f[i])
    BY <1>3
  <2>2. f[i] \in Nat /\ key[f[i]] \in Nat
    BY <1>4
  <2> QED BY <2>1, <2>2 DEF KeyPrecedes
<1>6. \A i, j \in 1..c : f[i] = f[j] => i = j
  <2> SUFFICES ASSUME NEW i \in 1..c, NEW j \in 1..c, f[i] = f[j], i # j PROVE FALSE
    OBVIOUS
  <2>1. i < j \/ j < i
    BY <1>1
  <2> QED BY <1>5, <2>1
<1>7. f \in Injection(1..c, T)
  BY <1>3, <1>6 DEF Injection, IsInjective
<1>8. f \in Surjection(1..c, T)
  BY <1>1, <1>2, <1>7, FS_Injection DEF c
<1>9. f \in Bijection(1..c, T)
  BY <1>7, <1>8 DEF Bijection
<1>10. Ascends(f, key, c)
  <2> SUFFICES ASSUME NEW i \in 1..c, NEW j \in 1..c, i < j PROVE key[f[i]] <= key[f[j]]
    BY DEF Ascends
  <2> DEFINE x == key[f[i]]
             y == key[f[j]]
  <2>1. x \in Nat /\ y \in Nat
    BY <1>4
  <2>2. x < y \/ x = y
    BY <1>3 DEF KeyPrecedes
  <2> HIDE DEF x, y
  <2>3. x <= y
    BY <2>1, <2>2
  <2> QED BY <2>3 DEF x, y
<1> QED BY <1>9, <1>10 DEF c

\* The candidates: those with any evidence, and among them those with the most.
Score(hid, evdev, i) == EvidenceScore(hid.evidence, evdev[i].evidence)
Matched(hid, evdev) == {i \in DOMAIN evdev : Score(hid, evdev, i) > 0}
Top(hid, evdev) ==
  {i \in Matched(hid, evdev) : \A j \in Matched(hid, evdev) : Score(hid, evdev, i) >= Score(hid, evdev, j)}
Indices(evdev) == [i \in DOMAIN evdev |-> evdev[i].index]
Endpoints(evdev, m) == m \in Nat /\ DOMAIN evdev = 1..m /\ \A i \in 1..m : evdev[i].index \in Nat
Listed(hid, evdev, f) ==
  /\ KeyOrders(f, Indices(evdev), Top(hid, evdev))
  /\ Best(hid, evdev) = [n \in 1..Cardinality(Top(hid, evdev)) |-> Indices(evdev)[f[n]]]

\* Best lists them in the order of the sort.
LEMMA BestIs ==
  ASSUME NEW hid, NEW evdev, NEW m, Endpoints(evdev, m)
  PROVE  \E f : Listed(hid, evdev, f)
<1> DEFINE score == [i \in DOMAIN evdev |-> EvidenceScore(hid.evidence, evdev[i].evidence)]
           matched == {i \in DOMAIN evdev : score[i] > 0}
           top == {i \in matched : \A j \in matched : score[i] >= score[j]}
           Earlier(i, j) == \/ evdev[i].index < evdev[j].index
                            \/ evdev[i].index = evdev[j].index /\ i < j
           Fit(f) == f \in [1..Cardinality(top) -> top] /\ \A k, n \in DOMAIN f : k < n => Earlier(f[k], f[n])
           order == CHOOSE f \in [1..Cardinality(top) -> top] :
                      \A k, n \in DOMAIN f : k < n => Earlier(f[k], f[n])
           key == Indices(evdev)
<1>1. Best(hid, evdev) = [n \in DOMAIN order |-> evdev[order[n]].index]
  BY DEF Best
<1>2. matched = Matched(hid, evdev)
  BY DEF Matched, Score
<1>3. top = Top(hid, evdev)
  <2>1. \A i \in matched : score[i] = Score(hid, evdev, i)
    BY DEF Score
  <2> HIDE DEF score, matched
  <2>2. \A i : i \in top <=> i \in Top(hid, evdev)
    BY <1>2, <2>1 DEF Top
  <2> QED BY <2>2
<1>4. m \in Nat /\ top \in SUBSET (1..m) /\ key \in [1..m -> Nat] /\ DOMAIN evdev = 1..m
  <2>1. top \in SUBSET (1..m)
    BY DEF Endpoints
  <2>2. key \in [1..m -> Nat]
    BY DEF Endpoints, Indices
  <2> QED BY <2>1, <2>2 DEF Endpoints
<1>5. \A i, j \in 1..m : KeyPrecedes(key, i, j) <=> Earlier(i, j)
  BY <1>4 DEF KeyPrecedes, Indices
<1> HIDE DEF matched, score, top, Earlier, key
<1>6. PICK g : KeyOrders(g, key, top)
  BY <1>4, OrderExists
<1>7. Fit(g)
  <2>1. \A k \in DOMAIN g : g[k] \in 1..m
    BY <1>4, <1>6 DEF KeyOrders
  <2> QED BY <1>5, <1>6, <2>1 DEF KeyOrders
<1>8. Fit(order)
  BY <1>7
<1> HIDE DEF order
<1>9. KeyOrders(order, key, top)
  <2>1. \A k \in DOMAIN order : order[k] \in 1..m
    BY <1>4, <1>8
  <2> QED BY <1>5, <1>8, <2>1 DEF KeyOrders
<1>10. [n \in DOMAIN order |-> evdev[order[n]].index] = [n \in 1..Cardinality(top) |-> key[order[n]]]
  <2>1. DOMAIN order = 1..Cardinality(top) /\ \A n \in DOMAIN order : order[n] \in 1..m
    BY <1>4, <1>8
  <2>2. \A n \in DOMAIN order : evdev[order[n]].index = key[order[n]]
    BY <1>4, <2>1 DEF key, Indices
  <2> QED BY <2>1, <2>2
<1>11. Listed(hid, evdev, order)
  <2>1. top = Top(hid, evdev)
    BY <1>3
  <2> QED BY <1>1, <1>9, <1>10, <2>1 DEF Listed, key
<1> QED BY <1>11

Shuffled(evdev, order) == [i \in DOMAIN evdev |-> evdev[order[i]]]

\* The order the candidates come in decides nothing: the best of a permutation are the
\* permuted best, and sorted they are the same numbers.
LEMMA BestShuffled ==
  ASSUME NEW hid, NEW evdev, NEW m, Endpoints(evdev, m), NEW order \in Bijection(1..m, 1..m)
  PROVE  Best(hid, Shuffled(evdev, order)) = Best(hid, evdev)
<1> DEFINE other == Shuffled(evdev, order)
           T == Top(hid, evdev)
           U == Top(hid, other)
           key == Indices(evdev)
           lock == Indices(other)
           kept == [t \in T |-> key[t]]
<1>1. /\ m \in Nat /\ DOMAIN evdev = 1..m /\ DOMAIN other = 1..m
      /\ order \in [1..m -> 1..m]
      /\ \A i \in 1..m : other[i] = evdev[order[i]] /\ order[i] \in 1..m
      /\ \A i, j \in 1..m : order[i] = order[j] => i = j
      /\ \A t \in 1..m : \E s \in 1..m : order[s] = t
  <2>1. m \in Nat /\ DOMAIN evdev = 1..m
    BY DEF Endpoints
  <2>2. order \in [1..m -> 1..m] /\ \A i, j \in 1..m : order[i] = order[j] => i = j
    BY BijectionMeans
  <2>3. \A t \in 1..m : \E s \in 1..m : order[s] = t
    BY Fun_BijectionProperties
  <2>4. DOMAIN other = 1..m /\ \A i \in 1..m : other[i] = evdev[order[i]] /\ order[i] \in 1..m
    BY <2>1, <2>2 DEF Shuffled
  <2> QED BY <2>1, <2>2, <2>3, <2>4
<1>2. Endpoints(other, m)
  BY <1>1 DEF Endpoints
<1> HIDE DEF other
<1>3. \A i \in 1..m : Score(hid, other, i) = Score(hid, evdev, order[i])
  BY <1>1 DEF Score
<1>4. \A i \in 1..m : i \in Matched(hid, other) <=> order[i] \in Matched(hid, evdev)
  BY <1>1, <1>3 DEF Matched
<1>5. \A i \in 1..m : i \in U <=> order[i] \in T
  <2> TAKE i \in 1..m
  <2>1. Matched(hid, evdev) \in SUBSET (1..m) /\ Matched(hid, other) \in SUBSET (1..m)
    BY <1>1 DEF Matched
  <2>2. ASSUME i \in U PROVE order[i] \in T
    <3>1. order[i] \in Matched(hid, evdev)
      BY <1>4, <2>2 DEF Top
    <3>2. ASSUME NEW j \in Matched(hid, evdev)
          PROVE  Score(hid, evdev, order[i]) >= Score(hid, evdev, j)
      <4>1. PICK s \in 1..m : order[s] = j
        BY <1>1, <2>1
      <4>2. Score(hid, other, i) >= Score(hid, other, s)
        BY <1>4, <2>2, <4>1 DEF Top
      <4> QED BY <1>3, <4>1, <4>2
    <3> QED BY <3>1, <3>2 DEF Top
  <2>3. ASSUME order[i] \in T PROVE i \in U
    <3>1. i \in Matched(hid, other)
      BY <1>4, <2>3 DEF Top
    <3>2. ASSUME NEW j \in Matched(hid, other)
          PROVE  Score(hid, other, i) >= Score(hid, other, j)
      <4>1. j \in 1..m /\ order[j] \in Matched(hid, evdev)
        BY <1>4, <2>1
      <4>2. Score(hid, evdev, order[i]) >= Score(hid, evdev, order[j])
        BY <2>3, <4>1 DEF Top
      <4> QED BY <1>3, <4>1, <4>2
    <3> QED BY <3>1, <3>2 DEF Top
  <2> QED BY <2>2, <2>3
<1>6. T \in SUBSET (1..m) /\ U \in SUBSET (1..m)
  BY <1>1 DEF Top, Matched
<1>7. key \in [1..m -> Nat] /\ lock \in [1..m -> Nat] /\ \A i \in 1..m : lock[i] = key[order[i]]
  BY <1>1, <1>2 DEF Endpoints, Indices
<1>8. PICK f : Listed(hid, evdev, f)
  BY BestIs
<1>9. PICK g : Listed(hid, other, g)
  BY <1>2, BestIs
<1> DEFINE c == Cardinality(T)
           d == Cardinality(U)
<1>10. KeyOrders(f, key, T) /\ Best(hid, evdev) = [n \in 1..c |-> key[f[n]]]
  BY <1>8 DEF Listed
<1>11. KeyOrders(g, lock, U) /\ Best(hid, other) = [n \in 1..d |-> lock[g[n]]]
  BY <1>9 DEF Listed
<1> HIDE DEF T, U, key, lock
<1>12. f \in Bijection(1..c, T) /\ Ascends(f, key, c)
  BY <1>1, <1>6, <1>7, <1>10, OrderEnumerates
<1>13. g \in Bijection(1..d, U) /\ Ascends(g, lock, d)
  BY <1>1, <1>6, <1>7, <1>11, OrderEnumerates
<1> DEFINE back == [u \in U |-> order[u]]
<1>14. back \in Bijection(U, T)
  <2>1. back \in [U -> T] /\ \A u \in U : back[u] = order[u]
    BY <1>5, <1>6
  <2>2. \A a, b \in U : back[a] = back[b] => a = b
    BY <1>1, <1>6, <2>1
  <2>3. \A t \in T : \E s \in U : back[s] = t
    <3> TAKE t \in T
    <3>1. PICK s \in 1..m : order[s] = t
      BY <1>1, <1>6
    <3>2. s \in U
      BY <1>5, <3>1
    <3> QED BY <2>1, <3>1, <3>2
  <2> HIDE DEF back
  <2> QED BY <2>1, <2>2, <2>3, Fun_IsBij
<1>15. c = d /\ c \in Nat
  <2>1. IsFiniteSet(1..m)
    BY <1>1, FS_Interval
  <2>2. IsFiniteSet(U) /\ IsFiniteSet(T)
    BY <1>6, <2>1, FS_Subset
  <2>3. ExistsBijection(U, T)
    BY <1>14 DEF ExistsBijection
  <2>4. Cardinality(T) = Cardinality(U)
    BY <2>2, <2>3, FS_Bijection
  <2>5. Cardinality(T) \in Nat
    BY <2>2, FS_CardinalityType
  <2> QED BY <2>4, <2>5
<1> HIDE DEF c, d
<1> DEFINE h == [n \in 1..c |-> back[g[n]]]
<1>16. g \in [1..c -> U] /\ \A n \in 1..c : h[n] = order[g[n]] /\ g[n] \in 1..m
  <2>1. g \in [1..c -> U]
    BY <1>13, <1>15, BijectionMeans
  <2> QED BY <1>6, <2>1
<1>17. h \in Bijection(1..c, T)
  <2>1. g \in Bijection(1..c, U)
    BY <1>13, <1>15
  <2> HIDE DEF back
  <2> QED BY <1>14, <2>1, Fun_BijTransitive
<1> HIDE DEF h
<1>18. /\ kept \in [T -> Nat]
       /\ \A n \in 1..c : kept[f[n]] = key[f[n]] /\ kept[h[n]] = lock[g[n]]
  <2>1. f \in [1..c -> T] /\ h \in [1..c -> T]
    BY <1>12, <1>17, BijectionMeans
  <2>2. kept \in [T -> Nat] /\ \A t \in T : kept[t] = key[t]
    BY <1>6, <1>7
  <2> HIDE DEF kept
  <2>3. \A n \in 1..c : h[n] = order[g[n]] /\ g[n] \in 1..m
    BY <1>16
  <2>4. \A n \in 1..c : lock[g[n]] = key[h[n]]
    BY <1>7, <2>3
  <2> QED BY <2>1, <2>2, <2>4
<1> HIDE DEF kept
<1>19. Ascends(f, kept, c)
  BY <1>12, <1>18 DEF Ascends
<1>20. Ascends(h, kept, c)
  BY <1>13, <1>15, <1>18 DEF Ascends
<1>21. \A n \in 1..c : kept[f[n]] = kept[h[n]]
  BY <1>12, <1>15, <1>17, <1>18, <1>19, <1>20, AscendingUnique
<1>22. \A n \in 1..c : key[f[n]] = lock[g[n]]
  BY <1>18, <1>21
<1>23. [n \in 1..c |-> key[f[n]]] = [n \in 1..d |-> lock[g[n]]]
  BY <1>15, <1>22
<1> QED BY <1>10, <1>11, <1>23 DEF other

\* The points of the evidence say which is stronger.
LEMMA ScoreMeans ==
  ASSUME NEW evdev, NEW i, NEW j
  PROVE  /\ Score(fixture.hid, evdev, i) \in 0..7
         /\ Score(fixture.hid, evdev, i) > 0 <=> Compatible(evdev[i])
         /\ Compatible(evdev[i]) /\ Compatible(evdev[j]) =>
              (Score(fixture.hid, evdev, i) > Score(fixture.hid, evdev, j)
                 <=> Stronger(evdev[i], evdev[j]))
<1> DEFINE x(k) == IF Shares(evdev[k], "topology") THEN 2 ELSE 0
           y(k) == IF Shares(evdev[k], "connection") THEN 4 ELSE 0
<1>1. ASSUME NEW k
      PROVE  Score(fixture.hid, evdev, k) = IF Compatible(evdev[k]) THEN 1 + x(k) + y(k) ELSE 0
  BY DEF Score, EvidenceScore, Compatible, Shares
<1>2. \A k : Shares(evdev[k], "topology") \in BOOLEAN /\ Shares(evdev[k], "connection") \in BOOLEAN
  BY DEF Shares, Agree
<1>3. /\ Score(fixture.hid, evdev, i) = IF Compatible(evdev[i]) THEN 1 + x(i) + y(i) ELSE 0
      /\ Score(fixture.hid, evdev, j) = IF Compatible(evdev[j]) THEN 1 + x(j) + y(j) ELSE 0
  BY <1>1
<1>4. Score(fixture.hid, evdev, i) \in 0..7
  BY <1>3
<1>5. Score(fixture.hid, evdev, i) > 0 <=> Compatible(evdev[i])
  BY <1>3
<1>6. ASSUME Compatible(evdev[i]), Compatible(evdev[j])
      PROVE  Score(fixture.hid, evdev, i) > Score(fixture.hid, evdev, j)
               <=> Stronger(evdev[i], evdev[j])
  BY <1>2, <1>3, <1>6 DEF Stronger
<1> QED BY <1>4, <1>5, <1>6

\* The candidate whose evidence is stronger than that of every other compatible one.
Wins(evdev, i) ==
  /\ Compatible(evdev[i])
  /\ \A j \in DOMAIN evdev \ {i} : Compatible(evdev[j]) => Stronger(evdev[i], evdev[j])

\* It is the one that has the most points alone.
LEMMA WinnerIsTop ==
  ASSUME NEW evdev, NEW i \in DOMAIN evdev
  PROVE  Wins(evdev, i) <=> Top(fixture.hid, evdev) = {i}
<1> DEFINE s(k) == Score(fixture.hid, evdev, k)
           M == Matched(fixture.hid, evdev)
<1>1. \A k : s(k) \in 0..7 /\ (s(k) > 0 <=> Compatible(evdev[k]))
  BY ScoreMeans
<1>2. \A k, l : Compatible(evdev[k]) /\ Compatible(evdev[l]) =>
        (s(k) > s(l) <=> Stronger(evdev[k], evdev[l]))
  BY ScoreMeans
<1>3. \A k : k \in M <=> k \in DOMAIN evdev /\ Compatible(evdev[k])
  BY <1>1 DEF Matched
<1>4. \A k : k \in Top(fixture.hid, evdev) <=> k \in M /\ \A l \in M : s(k) >= s(l)
  BY DEF Top
<1> DEFINE T == Top(fixture.hid, evdev)
<1> HIDE DEF s, M, T
<1>5. ASSUME Wins(evdev, i) PROVE T = {i}
  <2>1. i \in M /\ \A l \in M : l # i => s(i) > s(l)
    BY <1>2, <1>3, <1>5 DEF Wins
  <2>2. i \in T
    BY <1>1, <1>4, <2>1 DEF T
  <2>3. \A k \in T : k = i
    <3> SUFFICES ASSUME NEW k \in T, k # i PROVE FALSE
      OBVIOUS
    <3>1. k \in M /\ s(k) >= s(i)
      BY <1>4, <2>1 DEF T
    <3>2. s(i) > s(k) /\ s(i) \in 0..7 /\ s(k) \in 0..7
      BY <1>1, <2>1, <3>1
    <3> QED BY <3>1, <3>2
  <2> QED BY <2>2, <2>3
<1>6. ASSUME T = {i} PROVE Wins(evdev, i)
  <2>1. i \in M /\ \A l \in M : s(i) >= s(l)
    BY <1>4, <1>6 DEF T
  <2>2. ASSUME NEW j \in DOMAIN evdev, j # i, Compatible(evdev[j])
        PROVE  Stronger(evdev[i], evdev[j])
    <3>1. j \in M /\ j \notin T
      BY <1>3, <1>6, <2>2
    <3>2. PICK l \in M : ~(s(j) >= s(l))
      BY <1>4, <3>1 DEF T
    <3>3. s(i) > s(j)
      BY <1>1, <2>1, <3>2
    <3> QED BY <1>2, <1>3, <2>1, <2>2, <3>3
  <2> QED BY <1>3, <2>1, <2>2 DEF Wins
<1> QED BY <1>5, <1>6 DEF T

\* Any evidence at all puts someone on top.
LEMMA SomeOnTop ==
  ASSUME NEW evdev, NEW i \in DOMAIN evdev, Compatible(evdev[i])
  PROVE  Top(fixture.hid, evdev) # {}
<1> DEFINE M == Matched(fixture.hid, evdev)
           s == [k \in M |-> Score(fixture.hid, evdev, k)]
           S == {s[k] : k \in M}
<1>1. \A k \in M : s[k] \in 1..7
  <2>1. \A k : Score(fixture.hid, evdev, k) \in 0..7
    BY ScoreMeans
  <2>2. \A k \in M : Score(fixture.hid, evdev, k) > 0
    BY DEF Matched
  <2> QED BY <2>1, <2>2
<1>2. i \in M
  BY ScoreMeans DEF Matched
<1>3. \A k \in M : s[k] = Score(fixture.hid, evdev, k)
  OBVIOUS
<1> HIDE DEF s, M
<1>4. S \in SUBSET (1..7) /\ S # {}
  BY <1>1, <1>2
<1>5. Max(S) \in S /\ \A y \in S : Max(S) >= y
  <2> HIDE DEF S
  <2> QED BY <1>4, MaxIsMember
<1>6. PICK k \in M : s[k] = Max(S)
  BY <1>5
<1>7. \A l \in M : s[k] >= s[l]
  BY <1>5, <1>6
<1>8. k \in Top(fixture.hid, evdev)
  BY <1>3, <1>6, <1>7 DEF Top, M
<1> QED BY <1>8

\* The kind of the pairing.
Verdict(evdev, p) ==
  IF \E i \in DOMAIN evdev : Wins(evdev, i)
  THEN \E i \in DOMAIN evdev :
         Wins(evdev, i) /\ p = [kind |-> "Unique", indices |-> <<evdev[i].index>>]
  ELSE p.kind = IF \E i \in DOMAIN evdev : Compatible(evdev[i]) THEN "Ambiguous" ELSE "Unmatched"

\* What the pairing says is what the evidence of the endpoints says.
LEMMA PairingMeans ==
  ASSUME NEW evdev, NEW m, Endpoints(evdev, m)
  PROVE  Verdict(evdev, Pairing(fixture.hid, evdev))
<1> DEFINE T == Top(fixture.hid, evdev)
           c == Cardinality(T)
           b == Best(fixture.hid, evdev)
           p == Pairing(fixture.hid, evdev)
           key == Indices(evdev)
<1>1. PICK f : Listed(fixture.hid, evdev, f)
  BY BestIs
<1>2. f \in [1..c -> T] /\ b = [n \in 1..c |-> key[f[n]]]
  BY <1>1 DEF Listed, KeyOrders
<1>3. m \in Nat /\ T \in SUBSET (1..m) /\ DOMAIN evdev = 1..m
  BY DEF Endpoints, Top, Matched
<1>4. IsFiniteSet(T) /\ c \in Nat
  <2>1. IsFiniteSet(1..m)
    BY <1>3, FS_Interval
  <2> HIDE DEF T
  <2>2. IsFiniteSet(T)
    BY <1>3, <2>1, FS_Subset
  <2> QED BY <2>2, FS_CardinalityType
<1>5. p = CASE b = <<>> -> [kind |-> "Unmatched", indices |-> <<>>]
            [] Len(b) = 1 -> [kind |-> "Unique", indices |-> b]
            [] OTHER -> [kind |-> "Ambiguous", indices |-> b]
  BY DEF Pairing
<1> HIDE DEF b, p, key
<1>6. Len(b) = c
  <2> HIDE DEF c
  <2> QED BY <1>2, <1>4
<1>7. \A i \in DOMAIN evdev : Wins(evdev, i) <=> T = {i}
  BY WinnerIsTop
<1>8. (\E i \in DOMAIN evdev : Compatible(evdev[i])) <=> T # {}
  <2>1. \A i \in DOMAIN evdev : Compatible(evdev[i]) => T # {}
    BY SomeOnTop
  <2>2. \A i \in T : i \in DOMAIN evdev /\ Compatible(evdev[i])
    <3>1. \A i \in T : i \in DOMAIN evdev /\ Score(fixture.hid, evdev, i) > 0
      BY DEF Top, Matched
    <3> QED BY <3>1, ScoreMeans
  <2> HIDE DEF T
  <2> QED BY <2>1, <2>2
<1> HIDE DEF T, c
<1>9. CASE \E i \in DOMAIN evdev : Wins(evdev, i)
  <2>1. PICK i \in DOMAIN evdev : Wins(evdev, i)
    BY <1>9
  <2>2. T = {i}
    BY <1>7, <2>1
  <2>3. c = 1
    BY <2>2, FS_Singleton DEF c
  <2>4. f[1] = i /\ key[i] = evdev[i].index
    BY <1>2, <2>1, <2>2, <2>3 DEF key, Indices
  <2>5. b = <<evdev[i].index>>
    <3>1. b = [n \in 1..1 |-> key[f[n]]]
      BY <1>2, <2>3
    <3>2. b = [n \in 1..1 |-> evdev[i].index]
      BY <2>4, <3>1
    <3> QED BY <3>2
  <2>6. b # <<>> /\ Len(b) = 1
    BY <2>5
  <2>7. p = [kind |-> "Unique", indices |-> b]
    BY <1>5, <2>6
  <2> QED BY <1>9, <2>1, <2>5, <2>7 DEF Verdict, p
<1>10. CASE ~(\E i \in DOMAIN evdev : Wins(evdev, i)) /\ T = {}
  <2>1. c = 0
    BY <1>10, FS_EmptySet DEF c
  <2>2. b = <<>>
    <3>1. b = [n \in 1..0 |-> key[f[n]]]
      BY <1>2, <2>1
    <3> QED BY <3>1
  <2>3. Len(b) # 1
    BY <2>2
  <2>4. p = [kind |-> "Unmatched", indices |-> <<>>]
    BY <1>5, <2>2, <2>3
  <2>5. p.kind = "Unmatched"
    BY <2>4
  <2> QED BY <1>8, <1>10, <2>5 DEF Verdict, p
<1>11. CASE ~(\E i \in DOMAIN evdev : Wins(evdev, i)) /\ T # {}
  <2>1. c # 0
    BY <1>4, <1>11, FS_EmptySet DEF c
  <2>2. c # 1
    <3> SUFFICES ASSUME c = 1 PROVE FALSE
      OBVIOUS
    <3>1. \E i : T = {i}
      BY <1>4, FS_Singleton DEF c
    <3>2. PICK i : T = {i}
      BY <3>1
    <3>3. i \in DOMAIN evdev
      BY <1>3, <3>2
    <3> QED BY <1>7, <1>11, <3>2, <3>3
  <2>3. b # <<>> /\ Len(b) # 1
    BY <1>6, <2>1, <2>2
  <2>4. p = [kind |-> "Ambiguous", indices |-> b]
    BY <1>5, <2>3
  <2>5. p.kind = "Ambiguous"
    BY <2>4
  <2> QED BY <1>8, <1>11, <2>5 DEF Verdict, p
<1> QED BY <1>9, <1>10, <1>11

\* The endpoints of a fixture, and what was paired.
PairInv ==
  /\ fixture \in Fixtures
  /\ \A p \in pairing : p = Pairing(fixture.hid, fixture.evdev)

\* Every pairing is that of the fixture at hand.
LEMMA PairInvHolds == FixtureSpec => []PairInv
<1>1. FixtureInit => PairInv
  BY DEF FixtureInit, PairInv, None
<1>2. ASSUME PairInv, [FixtureNext]_vars PROVE PairInv'
  <2>1. fixture' = fixture
    BY <1>2 DEF FixtureNext, Parse, FrameReport, PairEndpoint, vars
  <2>2. pairing' = pairing \/ pairing' = Some(Pairing(fixture.hid, fixture.evdev))
    BY <1>2 DEF FixtureNext, Parse, FrameReport, PairEndpoint, vars
  <2>3. \A p \in pairing' : p = Pairing(fixture.hid, fixture.evdev)
    BY <1>2, <2>2 DEF PairInv, Some
  <2> QED BY <1>2, <2>1, <2>3 DEF PairInv
<1> QED BY <1>1, <1>2, PTL DEF FixtureSpec

\* Endpoints are paired by their evidence (hid.rs:514-590): uniquely only when one has
\* stronger evidence than every other compatible one, and the order of the candidates
\* decides nothing.
THEOREM PairingIsByEvidence == FixtureSpec => []PairingByEvidence
<1>1. PairInv => PairingByEvidence
  <2> SUFFICES ASSUME PairInv, NEW p \in pairing
               PROVE  /\ Verdict(fixture.evdev, p)
                      /\ \A order \in SetToSeqs(DOMAIN fixture.evdev) :
                           Pairing(fixture.hid, Shuffled(fixture.evdev, order)) = p
    BY DEF PairingByEvidence, Verdict, Wins, Shuffled
  <2> PICK m : m = Len(fixture.evdev)
    OBVIOUS
  <2>1. Endpoints(fixture.evdev, m)
    <3>1. fixture \in Fixtures
      BY DEF PairInv
    <3>2. fixture.evdev \in Seq(Range(fixture.evdev))
      BY <3>1, FixturesAssumption
    <3>3. m \in Nat /\ DOMAIN fixture.evdev = 1..m
      BY <3>2
    <3> QED BY <3>1, <3>3, FixturesAssumption DEF Endpoints
  <2>2. p = Pairing(fixture.hid, fixture.evdev)
    BY DEF PairInv
  <2>3. Verdict(fixture.evdev, p)
    <3>1. PICK evdev : evdev = fixture.evdev
      OBVIOUS
    <3>2. Verdict(evdev, Pairing(fixture.hid, evdev))
      BY <2>1, <3>1, PairingMeans
    <3> QED BY <2>2, <3>1, <3>2
  <2>4. ASSUME NEW order \in SetToSeqs(DOMAIN fixture.evdev)
        PROVE  Pairing(fixture.hid, Shuffled(fixture.evdev, order)) = p
    <3>1. IsFiniteSet(1..m) /\ Cardinality(1..m) = m /\ m \in Nat
      <4>1. m \in Nat
        BY <2>1 DEF Endpoints
      <4> HIDE DEF Endpoints
      <4>2. 1 \in Int /\ m \in Int
        BY <4>1
      <4>3. IsFiniteSet(1..m)
        BY ONLY <4>2, FS_Interval
      <4>4. Cardinality(1..m) = IF 1 > m THEN 0 ELSE m - 1 + 1
        BY ONLY <4>2, FS_Interval
      <4> QED BY ONLY <4>1, <4>3, <4>4
    <3>2. order \in [1..m -> 1..m] /\ \A i, j \in 1..m : i # j => order[i] # order[j]
      BY <2>1, <3>1 DEF SetToSeqs, Endpoints
    <3>3. order \in Injection(1..m, 1..m)
      BY <3>2 DEF Injection, IsInjective
    <3>4. order \in Surjection(1..m, 1..m)
      BY <3>1, <3>3, FS_Injection
    <3>5. order \in Bijection(1..m, 1..m)
      BY <3>3, <3>4 DEF Bijection
    <3>6. Best(fixture.hid, Shuffled(fixture.evdev, order)) = Best(fixture.hid, fixture.evdev)
      BY <2>1, <3>5, BestShuffled
    <3> QED BY <2>2, <3>6 DEF Pairing
  <2> QED BY <2>3, <2>4
<1> QED BY <1>1, PairInvHolds, PTL

-----------------------------------------------------------------------------
(* Profile detection.                                                      *)

CandidateSet ==
  [profile : 1..Len(Profiles), id : {Profiles[p].id : p \in 1..Len(Profiles)},
   confidence : {"Tentative", "Strong"}, evidence : SUBSET {"IdentityMatch", "TransportMatch"}]

\* The candidates so far are those of the evident profiles considered so far.
CandidatesSoFar ==
  /\ next \in 1..(Len(Profiles) + 1)
  /\ candidates \in Seq(CandidateSet)
  /\ \A p \in 1..Len(Profiles) :
       (p < next /\ Evident(p)) <=> \E i \in 1..Len(candidates) : candidates[i].profile = p

DetectInv == CandidatesSoFar /\ SelectionRetains

\* A candidate is one of its profile, at one of the two levels of passive evidence.
LEMMA CandidateType ==
  ASSUME NEW p \in 1..Len(Profiles), NEW rule
  PROVE  /\ Candidate(p, rule) \in CandidateSet
         /\ Candidate(p, rule).profile = p
<1>1. EvidenceOf(rule) \in SUBSET {"IdentityMatch", "TransportMatch"}
  BY DEF EvidenceOf
<1>2. ConfidenceOf(rule) \in {"Tentative", "Strong"}
  BY DEF ConfidenceOf
<1> QED
  BY <1>1, <1>2 DEF Candidate, CandidateSet

\* The steps of the detection do not change what it found out about the device.
LEMMA EvidenceStable ==
  ASSUME device' = device
  PROVE  \A p \in 1..Len(Profiles) : Evident(p)' <=> Evident(p)
BY DEF Evident, Matches, SpecificityAt

\* Considering one profile keeps the candidates in step with it.
LEMMA OfferKeeps ==
  ASSUME NEW S, Profiles \in Seq(S), DetectInv, Offer
  PROVE  DetectInv'
<1> DEFINE rules == Profiles[next].rules
<1>1. next \in 1..Len(Profiles) /\ Len(Profiles) \in Nat
  BY DEF Offer, DetectInv, CandidatesSoFar
<1>2. PICK i \in Hits(next) :
        /\ SpecificityAt(next, i) # 0
        /\ candidates' = Append(candidates, Candidate(next, rules[i]))
  BY DEF Offer
<1>3. Evident(next)
  BY <1>2 DEF Hits, Evident
<1>4. \A p \in 1..Len(Profiles) : Evident(p)' <=> Evident(p)
  BY EvidenceStable DEF Offer
<1>5. /\ Candidate(next, rules[i]) \in CandidateSet
      /\ Candidate(next, rules[i]).profile = next
  BY <1>1, CandidateType
<1>6. candidates \in Seq(CandidateSet)
  BY DEF DetectInv, CandidatesSoFar
<1>7. /\ candidates' \in Seq(CandidateSet)
      /\ Len(candidates') = Len(candidates) + 1
      /\ candidates'[Len(candidates) + 1] = Candidate(next, rules[i])
      /\ \A k \in 1..Len(candidates) : candidates'[k] = candidates[k]
  BY <1>2, <1>5, <1>6
<1>8. next' = next + 1
  BY DEF Offer
<1>9. ASSUME NEW p \in 1..Len(Profiles)
      PROVE  (p < next' /\ Evident(p)') <=>
               \E k \in 1..Len(candidates') : candidates'[k].profile = p
  <2>1. CASE p = next
    <3>1. candidates'[Len(candidates) + 1].profile = p
      BY <1>5, <1>7, <2>1
    <3>2. Len(candidates) + 1 \in 1..Len(candidates')
      BY <1>6, <1>7
    <3> QED
      BY <1>1, <1>3, <1>4, <1>8, <2>1, <3>1, <3>2
  <2>2. CASE p # next
    <3>1. (p < next /\ Evident(p)) <=> \E k \in 1..Len(candidates) : candidates[k].profile = p
      BY DEF DetectInv, CandidatesSoFar
    <3>2. ASSUME NEW k \in 1..Len(candidates), candidates[k].profile = p
          PROVE  k \in 1..Len(candidates') /\ candidates'[k].profile = p
      BY <1>6, <1>7, <3>2
    <3>3. ASSUME NEW k \in 1..Len(candidates'), candidates'[k].profile = p
          PROVE  k \in 1..Len(candidates) /\ candidates[k].profile = p
      <4>1. candidates'[Len(candidates) + 1].profile # p
        BY <1>5, <1>7, <2>2
      <4>2. k \in 1..Len(candidates)
        BY <1>6, <1>7, <3>3, <4>1
      <4> QED BY <1>7, <3>3, <4>2
    <3> QED
      BY <1>1, <1>4, <1>8, <2>2, <3>1, <3>2, <3>3
  <2> QED
    BY <2>1, <2>2
<1>10. SelectionRetains'
  <2>1. SelectionRetains /\ UNCHANGED selection
    BY DEF DetectInv, Offer
  <2> QED
    BY <1>4, <2>1 DEF SelectionRetains, Offered, Fallback
<1> QED
  BY <1>1, <1>7, <1>8, <1>9, <1>10 DEF DetectInv, CandidatesSoFar

\* Passing over a profile without evidence keeps them in step too.
LEMMA PassOverKeeps ==
  ASSUME NEW S, Profiles \in Seq(S), DetectInv, PassOver
  PROVE  DetectInv'
<1>1. next \in 1..Len(Profiles) /\ Len(Profiles) \in Nat
  BY DEF PassOver, DetectInv, CandidatesSoFar
<1>2. ~Evident(next)
  BY DEF PassOver, Evident, Hits
<1>3. \A p \in 1..Len(Profiles) : Evident(p)' <=> Evident(p)
  BY EvidenceStable DEF PassOver
<1>4. CandidatesSoFar'
  <2>1. next' = next + 1 /\ candidates' = candidates
    BY DEF PassOver
  <2> QED
    BY <1>1, <1>2, <1>3, <2>1 DEF DetectInv, CandidatesSoFar
<1>5. SelectionRetains'
  <2>1. SelectionRetains /\ UNCHANGED selection
    BY DEF DetectInv, PassOver
  <2> QED
    BY <1>3, <2>1 DEF SelectionRetains, Offered, Fallback
<1> QED
  BY <1>4, <1>5 DEF DetectInv

\* Sorting rearranges the candidates, with one of the strongest in front.
LEMMA SelectKeeps ==
  ASSUME NEW S, Profiles \in Seq(S), DetectInv, Select
  PROVE  DetectInv'
<1> DEFINE n == Len(candidates)
<1>1. PICK f \in Orders :
        LET sorted == Append([i \in 1..n |-> candidates[f[i]]], Fallback)
        IN selection' = {[selected |-> sorted[1], candidates |-> sorted]}
  BY DEF Select
<1> DEFINE front == [i \in 1..n |-> candidates[f[i]]]
           all == Append(front, Fallback)
           result == [selected |-> all[1], candidates |-> all]
<1>2. selection' = {result}
  BY <1>1
<1>3. /\ n \in Nat /\ candidates \in Seq(CandidateSet)
      /\ next = Len(Profiles) + 1 /\ Len(Profiles) \in Nat
  BY DEF DetectInv, CandidatesSoFar, Select
<1>4. /\ f \in [1..n -> 1..n]
      /\ \A i \in 1..n : \E j \in 1..n : f[j] = i
      /\ \A i, j \in 1..n : i < j => Precedes(f[i], f[j])
  BY <1>1 DEF Orders
<1>5. \A i \in 1..n : candidates[i] \in CandidateSet
  BY <1>3
<1>6. front \in Seq(CandidateSet) /\ Len(front) = n
  <2>1. front \in [1..n -> CandidateSet]
    BY <1>4, <1>5
  <2> HIDE DEF front
  <2> QED
    BY <1>3, <2>1
<1>7. /\ Len(all) = n + 1 /\ all[n + 1] = Fallback /\ DOMAIN all = 1..(n + 1)
      /\ \A i \in 1..n : all[i] = candidates[f[i]]
  <2>1. front \in Seq(CandidateSet \cup {Fallback})
    BY <1>6
  <2>2. all \in Seq(CandidateSet \cup {Fallback}) /\ Len(all) = n + 1
    BY <1>6, <2>1
  <2> QED
    BY <1>3, <1>6, <2>1, <2>2
<1>8. \A p \in 1..Len(Profiles) : Evident(p)' <=> Evident(p)
  BY EvidenceStable DEF Select
<1> HIDE DEF front, all
<1>9. \A c \in Offered(result) : c = Fallback \/ \E i \in 1..n : c = candidates[i]
  <2> TAKE c \in Offered(result)
  <2>1. PICK k \in 1..(n + 1) : c = all[k]
    BY <1>7 DEF Offered
  <2>2. CASE k = n + 1
    BY <1>7, <2>1, <2>2
  <2>3. CASE k # n + 1
    <3>1. k \in 1..n
      BY <1>3, <2>3
    <3>2. f[k] \in 1..n
      BY <1>4, <3>1
    <3> QED
      BY <1>7, <2>1, <3>1, <3>2
  <2> QED
    BY <2>2, <2>3
<1>10. \A i \in 1..n : candidates[i] \in Offered(result)
  <2> TAKE i \in 1..n
  <2>1. PICK j \in 1..n : f[j] = i
    BY <1>4
  <2>2. all[j] = candidates[i] /\ j \in DOMAIN all
    BY <1>3, <1>7, <2>1
  <2> QED
    BY <2>2 DEF Offered
<1>11. \A p \in 1..Len(Profiles) : Evident(p) <=> \E c \in Offered(result) : c.profile = p
  <2> TAKE p \in 1..Len(Profiles)
  <2>1. Evident(p) <=> \E i \in 1..n : candidates[i].profile = p
    BY <1>3 DEF DetectInv, CandidatesSoFar
  <2>2. Fallback.profile # p
    BY <1>3 DEF Fallback
  <2> QED
    BY <1>9, <1>10, <2>1, <2>2
<1>12. \A c \in Offered(result) : c = Fallback \/ c.confidence \in {"Tentative", "Strong"}
  BY <1>5, <1>9 DEF CandidateSet
<1>13. result.selected \in Offered(result)
  <2>1. 1 \in DOMAIN all
    BY <1>3, <1>7
  <2> QED
    BY <2>1 DEF Offered
<1>14. \A c \in Offered(result) : Level[c.confidence] <= Level[result.selected.confidence]
  <2> SUFFICES ASSUME NEW k \in 1..(n + 1)
               PROVE  Level[all[k].confidence] <= Level[all[1].confidence]
    BY <1>7 DEF Offered
  <2>1. \A i \in 1..n : candidates[i].confidence \in {"Tentative", "Strong"}
    BY <1>5 DEF CandidateSet
  <2>2. CASE k = 1
    <3>1. CASE n = 0
      BY <1>7, <2>2, <3>1 DEF Fallback, Level
    <3>2. CASE n # 0
      <4>1. 1 \in 1..n
        BY <1>3, <3>2
      <4>2. all[1] = candidates[f[1]] /\ f[1] \in 1..n
        BY <1>4, <1>7, <4>1
      <4>3. all[1].confidence \in {"Tentative", "Strong"}
        BY <2>1, <4>2
      <4> QED
        BY <2>2, <4>3 DEF Level
    <3> QED
      BY <3>1, <3>2
  <2>3. CASE k # 1 /\ k <= n
    <3>0. 1 \in 1..n /\ k \in 1..n /\ 1 < k
      BY <1>3, <2>3
    <3>1. Precedes(f[1], f[k]) /\ f[1] \in 1..n /\ f[k] \in 1..n
      BY <1>4, <3>0
    <3>2. all[1] = candidates[f[1]] /\ all[k] = candidates[f[k]]
      BY <1>3, <1>7, <2>3
    <3>3. \/ Level[all[1].confidence] > Level[all[k].confidence]
          \/ all[1].confidence = all[k].confidence
      BY <3>1, <3>2 DEF Precedes
    <3>4. Level[all[1].confidence] \in Nat /\ Level[all[k].confidence] \in Nat
      <4>1. \A grade \in {"Tentative", "Strong"} : Level[grade] \in Nat
        BY DEF Level
      <4>2. candidates[f[1]].confidence \in {"Tentative", "Strong"}
        BY <2>1, <3>1
      <4>3. candidates[f[k]].confidence \in {"Tentative", "Strong"}
        BY <2>1, <3>1
      <4> QED BY <3>2, <4>1, <4>2, <4>3
    <3> HIDE DEF result
    <3> QED
      BY <3>3, <3>4
  <2>4. CASE k # 1 /\ k = n + 1
    <3>0. 1 \in 1..n
      BY <1>3, <2>4
    <3>1. all[1] = candidates[f[1]] /\ f[1] \in 1..n /\ all[k] = Fallback
      BY <1>4, <1>7, <2>4, <3>0
    <3> QED
      BY <2>1, <3>1 DEF Fallback, Level
  <2> QED
    BY <1>3, <2>2, <2>3, <2>4
<1>15. result.candidates # <<>> /\ result.candidates[Len(result.candidates)] = Fallback
  BY <1>3, <1>7
<1>16. SelectionRetains'
  <2> SUFFICES ASSUME NEW r \in selection'
               PROVE  /\ r.candidates # <<>>
                      /\ r.candidates[Len(r.candidates)] = Fallback
                      /\ \A p \in 1..Len(Profiles) :
                           Evident(p)' <=> \E c \in Offered(r) : c.profile = p
                      /\ \A c \in Offered(r) :
                           c = Fallback \/ c.confidence \in {"Tentative", "Strong"}
                      /\ r.selected \in Offered(r)
                      /\ \A c \in Offered(r) : Level[c.confidence] <= Level[r.selected.confidence]
    BY DEF SelectionRetains, Offered, Fallback
  <2>1. r = result
    BY <1>2
  <2> HIDE DEF result
  <2> QED
    BY <1>8, <1>11, <1>12, <1>13, <1>14, <1>15, <2>1
<1>17. CandidatesSoFar'
  <2>1. UNCHANGED <<next, candidates>>
    BY DEF Select
  <2> QED
    BY <1>8, <2>1 DEF DetectInv, CandidatesSoFar, CandidateSet
<1> QED
  BY <1>16, <1>17 DEF DetectInv

\* What a user forces, or takes back, and stuttering leave detection alone.
LEMMA OthersKeep ==
  ASSUME DetectInv, UNCHANGED <<device, next, candidates, selection>>
  PROVE  DetectInv'
<1>1. \A p \in 1..Len(Profiles) : Evident(p)' <=> Evident(p)
  BY EvidenceStable
<1>2. SelectionRetains'
  BY <1>1 DEF DetectInv, SelectionRetains, Offered, Fallback
<1>3. CandidatesSoFar'
  BY <1>1 DEF DetectInv, CandidatesSoFar, CandidateSet
<1> QED
  BY <1>2, <1>3 DEF DetectInv, CandidateSet

\* "every selection retains the SDL fallback, no automatic profile is selected
\* without explicit evidence": for every catalog, every device and every order of
\* forcing and clearing.
THEOREM SelectionContract ==
  ASSUME NEW S, Profiles \in Seq(S)
  PROVE  DetectSpec => []SelectionRetains
<1>1. DetectInit => DetectInv
  <2> SUFFICES ASSUME DetectInit PROVE DetectInv
    OBVIOUS
  <2>1. Len(Profiles) \in Nat /\ next = 1 /\ candidates = <<>> /\ selection = {}
    BY DEF DetectInit
  <2> QED
    BY <2>1 DEF DetectInv, CandidatesSoFar, SelectionRetains
<1>2. DetectInv /\ [DetectNext]_detector => DetectInv'
  <2> SUFFICES ASSUME DetectInv, [DetectNext]_detector PROVE DetectInv'
    OBVIOUS
  <2>1. CASE Offer
    BY <2>1, OfferKeeps
  <2>2. CASE PassOver
    BY <2>2, PassOverKeeps
  <2>3. CASE Select
    BY <2>3, SelectKeeps
  <2>4. CASE Clear \/ \E id \in ForcedIds : ForceProfile(id)
    BY <2>4, OthersKeep DEF Clear, ForceProfile
  <2>5. CASE UNCHANGED detector
    BY <2>5, OthersKeep DEF detector
  <2> QED
    BY <2>1, <2>2, <2>3, <2>4, <2>5 DEF DetectNext
<1>3. DetectInv => SelectionRetains
  BY DEF DetectInv
<1> QED
  BY <1>1, <1>2, <1>3, PTL DEF DetectSpec
=============================================================================
