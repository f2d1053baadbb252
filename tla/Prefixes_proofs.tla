-------------------------- MODULE Prefixes_proofs --------------------------
(***************************************************************************)
(* What the proofs of several components share: induction over the natural *)
(* numbers, recursion along a sequence, concatenated sequences and sums,   *)
(* and sorting, in the first-order form the provers can instantiate.  A    *)
(* property of numbers is the set of those that have it, and the step of a *)
(* recursive function is a function.  Everything rests on the              *)
(* well-foundedness of the naturals.                                       *)
(***************************************************************************)
EXTENDS Integers, FiniteSetsExt, SequencesExt, SequenceTheorems, FunctionTheorems,
        FiniteSetTheorems, TLAPS, WellFoundedInduction

\* A set of numbers that has 0, and n + 1 with every n, has them all.
LEMMA SetInduction ==
  ASSUME NEW S, 0 \in S, \A n \in Nat : n \in S => n + 1 \in S
  PROVE  \A n \in Nat : n \in S
<1> SUFFICES ASSUME Nat \ S # {} PROVE FALSE
  OBVIOUS
<1>1. PICK x \in Nat \ S : \A y \in Nat \ S : ~(<<y, x>> \in OpToRel(<, Nat))
  BY NatLessThanWellFounded, WFMin
<1>2. \A y \in Nat : y < x => <<y, x>> \in OpToRel(<, Nat)
  BY DEF OpToRel
<1>3. x # 0
  OBVIOUS
<1>4. x - 1 \in Nat /\ x - 1 < x /\ x = (x - 1) + 1
  BY <1>3
<1>5. x - 1 \in S
  BY <1>1, <1>2, <1>4
<1> QED BY <1>5, <1>4

\* The same up to a bound.
LEMMA BoundedInduction ==
  ASSUME NEW n \in Nat, NEW S, 0 \in S,
         \A i \in 1..n : i - 1 \in S => i \in S
  PROVE  \A i \in 0..n : i \in S
<1> DEFINE T == {i \in Nat : i <= n => i \in S}
<1>1. 0 \in T
  OBVIOUS
<1>2. \A i \in Nat : i \in T => i + 1 \in T
  <2> SUFFICES ASSUME NEW i \in Nat, i \in T, i + 1 <= n
               PROVE  i + 1 \in S
    OBVIOUS
  <2>1. i + 1 \in 1..n /\ (i + 1) - 1 = i /\ i \in S
    OBVIOUS
  <2> QED BY <2>1
<1> HIDE DEF T
<1>3. \A i \in Nat : i \in T
  BY <1>1, <1>2, SetInduction
<1> QED BY <1>3 DEF T

\* The smallest element of a set of numbers is one of its elements.
LEMMA MinIsMember ==
  ASSUME NEW S \in SUBSET Nat, S # {}
  PROVE  Min(S) \in S
<1>1. IsWellFoundedOn(OpToRel(<, Nat), Nat)
  BY NatLessThanWellFounded
<1>2. PICK x \in S : \A y \in S : ~(<<y, x>> \in OpToRel(<, Nat))
  BY <1>1, WFMin
<1>3. OpToRel(<, Nat) = {p \in Nat \X Nat : p[1] < p[2]}
  BY DEF OpToRel
<1>4. \A y \in S : y \in Nat /\ x \in Nat /\ ~(y < x)
  BY <1>2, <1>3
<1>5. \A y \in S : x =< y
  BY <1>4
<1> QED BY <1>5 DEF Min

\* The largest element of a set of places in a sequence is one of its elements.
LEMMA MaxIsMember ==
  ASSUME NEW n \in Nat, NEW S \in SUBSET (1..n), S # {}
  PROVE  /\ Max(S) \in S
         /\ \A y \in S : Max(S) >= y
<1> DEFINE T == {n - y : y \in S}
<1>1. T \in SUBSET Nat /\ T # {}
  <2>1. \A y \in S : y \in Int /\ y =< n /\ n - y \in Nat
    OBVIOUS
  <2>2. PICK y \in S : TRUE
    OBVIOUS
  <2> QED BY <2>1, <2>2
<1> HIDE DEF T
<1>2. IsWellFoundedOn(OpToRel(<, Nat), Nat)
  BY NatLessThanWellFounded
<1>3. PICK x \in T : \A y \in T : ~(<<y, x>> \in OpToRel(<, Nat))
  BY <1>1, <1>2, WFMin
<1>4. \A y \in T : y \in Nat /\ x \in Nat /\ ~(y < x)
  <2>1. OpToRel(<, Nat) = {p \in Nat \X Nat : p[1] < p[2]}
    BY DEF OpToRel
  <2> QED BY <1>1, <1>3, <2>1
<1>5. PICK m \in S : x = n - m
  BY DEF T
<1>6. \A y \in S : m >= y
  <2> SUFFICES ASSUME NEW y \in S PROVE m >= y
    OBVIOUS
  <2>1. n - y \in T
    BY DEF T
  <2>2. ~(n - y < n - m)
    BY <1>4, <1>5, <2>1
  <2> QED BY <2>2
<1> QED BY <1>6 DEF Max

\* What a function that is computed along 1..n, by these steps from this base,
\* has to satisfy.
Along(f, n, base, step) ==
  f = [i \in 0..n |-> IF i = 0 THEN base ELSE step[i][f[i - 1]]]

\* The steps keep a type.
StepsIn(step, n, A) == \A i \in 1..n : step[i] \in [A -> A]

\* The function has the numbers up to n as its domain, and follows the steps from
\* every value of the type.
Over(f, n) == f = [i \in 0..n |-> f[i]]
Follows(f, n, A, step) ==
  \A i \in 1..n : f[i - 1] \in A => f[i] = step[i][f[i - 1]]

\* Such a function has values of the type its steps keep, and there is but one:
\* a longer one agrees with it.
LEMMA AlongUnique ==
  ASSUME NEW A, NEW base \in A, NEW m \in Nat, NEW n \in 0..m,
         NEW step, StepsIn(step, m, A),
         NEW f, Along(f, n, base, step), NEW g, Along(g, m, base, step)
  PROVE  \A i \in 0..n : f[i] = g[i] /\ f[i] \in A
<1> DEFINE S == {i \in 0..n : f[i] = g[i] /\ f[i] \in A}
<1>1. 0 \in S
  BY DEF Along
<1>2. ASSUME NEW i \in 1..n, i - 1 \in S PROVE i \in S
  <2>1. i \in 0..n /\ i \in 0..m /\ i # 0 /\ i \in 1..m
    OBVIOUS
  <2>2. f[i] = step[i][f[i - 1]]
    BY <2>1 DEF Along
  <2>3. g[i] = step[i][g[i - 1]]
    BY <2>1 DEF Along
  <2>4. f[i - 1] = g[i - 1] /\ f[i - 1] \in A
    BY <1>2
  <2> QED BY <2>1, <2>2, <2>3, <2>4 DEF StepsIn
<1> HIDE DEF S
<1>3. \A i \in 0..n : i \in S
  BY <1>1, <1>2, BoundedInduction
<1> QED BY <1>3 DEF S

\* A function that follows the steps wherever it has a value of the type does so
\* everywhere.
LEMMA AlongFrom ==
  ASSUME NEW A, NEW base \in A, NEW n \in Nat,
         NEW step, StepsIn(step, n, A),
         NEW f, Over(f, n), f[0] = base,
         Follows(f, n, A, step)
  PROVE  Along(f, n, base, step) /\ \A i \in 0..n : f[i] \in A
<1> DEFINE S == {i \in 0..n : f[i] \in A}
<1>1. 0 \in S
  OBVIOUS
<1>2. ASSUME NEW i \in 1..n, i - 1 \in S PROVE i \in S
  BY <1>2 DEF StepsIn, Follows
<1> HIDE DEF S
<1>3. \A i \in 0..n : i \in S
  BY <1>1, <1>2, BoundedInduction
<1>4. \A i \in 0..n : f[i] \in A
  BY <1>3 DEF S
<1>5. ASSUME NEW i \in 0..n PROVE f[i] = IF i = 0 THEN base ELSE step[i][f[i - 1]]
  <2>1. CASE i = 0
    BY <2>1
  <2>2. CASE i # 0
    <3>1. i \in 1..n /\ i - 1 \in 0..n
      BY <2>2
    <3> QED BY <2>2, <3>1, <1>4 DEF Follows
  <2> QED BY <2>1, <2>2
<1>6. Along(f, n, base, step)
  BY <1>5 DEF Along, Over
<1> QED BY <1>4, <1>6

\* And there is one.
LEMMA AlongExists ==
  ASSUME NEW A, NEW base \in A, NEW m \in Nat,
         NEW step, StepsIn(step, m, A)
  PROVE  \E f : Along(f, m, base, step)
<1> DEFINE S == {n \in 0..m : \E f : Along(f, n, base, step)}
<1>1. 0 \in S
  <2> DEFINE f == [i \in 0..0 |-> base]
  <2>1. f = [i \in 0..0 |-> IF i = 0 THEN base ELSE step[i][f[i - 1]]]
    OBVIOUS
  <2>2. Along(f, 0, base, step)
    BY <2>1 DEF Along
  <2> QED BY <2>2
<1>2. ASSUME NEW n \in 1..m, n - 1 \in S PROVE n \in S
  <2>1. PICK f : Along(f, n - 1, base, step)
    BY <1>2
  <2> DEFINE g == [i \in 0..n |-> IF i = n THEN step[n][f[n - 1]] ELSE f[i]]
  <2>2. ASSUME NEW i \in 0..n PROVE g[i] = IF i = 0 THEN base ELSE step[i][g[i - 1]]
    <3>1. CASE i = 0
      BY <2>1, <3>1 DEF Along
    <3>2. CASE i = n
      BY <3>2
    <3>3. CASE i # 0 /\ i # n
      <4>1. i \in 0..(n - 1) /\ i - 1 \in 0..n /\ i - 1 # n
        BY <3>3
      <4>2. g[i] = f[i] /\ g[i - 1] = f[i - 1]
        BY <3>3, <4>1
      <4>3. f[i] = step[i][f[i - 1]]
        BY <2>1, <3>3, <4>1 DEF Along
      <4> QED BY <3>3, <4>2, <4>3
    <3> QED BY <3>1, <3>2, <3>3
  <2>3. g = [i \in 0..n |-> IF i = 0 THEN base ELSE step[i][g[i - 1]]]
    <3>1. g = [i \in 0..n |-> g[i]]
      OBVIOUS
    <3> HIDE DEF g
    <3> QED BY <2>2, <3>1
  <2>4. Along(g, n, base, step)
    BY <2>3 DEF Along
  <2> QED BY <2>4
<1> HIDE DEF S
<1>3. \A n \in 0..m : n \in S
  BY <1>1, <1>2, BoundedInduction
<1> QED BY <1>3 DEF S

-----------------------------------------------------------------------------
(* Flattening: where the parts lie.                                        *)

\* Where the parts of a flattened sequence begin.
Laid(parts, flat, at) ==
  /\ at \in [0..Len(parts) -> Nat]
  /\ at[0] = 0 /\ at[Len(parts)] = Len(flat)
  /\ \A i \in 1..Len(parts) :
       /\ at[i] = at[i - 1] + Len(parts[i])
       /\ \A k \in 1..Len(parts[i]) : flat[at[i - 1] + k] = parts[i][k]

Joins(parts, C) ==
  [i \in DOMAIN parts |-> [s \in Seq(C) |-> s \o parts[i]]]

\* FlattenSeq joins the parts one after the other.
LEMMA FlattenAlong ==
  ASSUME NEW C, NEW parts \in Seq(Seq(C)), parts # <<>>
  PROVE  \E f : /\ Along(f, Len(parts), <<>>, Joins(parts, C))
                /\ FlattenSeq(parts) = f[Len(parts)]
                /\ f[0] = <<>>
                /\ \A i \in 0..Len(parts) : f[i] \in Seq(C)
                /\ \A i \in 1..Len(parts) : f[i] = f[i - 1] \o parts[i]
<1> DEFINE n == Len(parts)
           A == Seq(C)
           Flattens(g) == g = [i \in 1..n |-> IF i = 1 THEN parts[i] ELSE g[i - 1] \o parts[i]]
           flat == CHOOSE g : Flattens(g)
<1>1. n \in Nat /\ n # 0 /\ DOMAIN parts = 1..n /\ <<>> \in A /\ \A i \in 1..n : parts[i] \in A
  OBVIOUS
<1>2. StepsIn(Joins(parts, C), n, A) /\ \A i \in 1..n : \A s \in A :
        Joins(parts, C)[i][s] = s \o parts[i]
  BY <1>1 DEF StepsIn, Joins
<1>3. PICK f : Along(f, n, <<>>, Joins(parts, C))
  <2> HIDE DEF A
  <2> QED BY <1>1, <1>2, AlongExists
<1>4. \A i \in 0..n : f[i] \in A
  <2>1. n \in 0..n
    BY <1>1
  <2> HIDE DEF A
  <2> QED BY <1>1, <1>2, <1>3, <2>1, AlongUnique
<1>5. f[0] = <<>> /\ \A i \in 1..n : f[i] = f[i - 1] \o parts[i]
  <2>1. \A i \in 1..n : i \in 0..n /\ i # 0 /\ i - 1 \in 0..n
    BY <1>1
  <2>2. 0 \in 0..n
    BY <1>1
  <2>3. f[0] = <<>> /\ \A i \in 1..n : f[i] = Joins(parts, C)[i][f[i - 1]]
    BY <1>3, <2>1, <2>2 DEF Along
  <2> HIDE DEF A
  <2> QED BY <1>2, <1>4, <2>1, <2>3
<1>6. f[1] = parts[1]
  <2>1. 1 \in 1..n /\ 1 - 1 = 0
    BY <1>1
  <2>2. f[1] = <<>> \o parts[1]
    BY <1>5, <2>1
  <2> QED BY <1>1, <2>1, <2>2, ConcatEmptySeq
<1>7. \E g : Flattens(g)
  <2> DEFINE g == [i \in 1..n |-> f[i]]
  <2>1. ASSUME NEW i \in 1..n
        PROVE  g[i] = IF i = 1 THEN parts[i] ELSE g[i - 1] \o parts[i]
    <3>1. CASE i = 1
      BY <1>6, <3>1
    <3>2. CASE i # 1
      <4>1. i - 1 \in 1..n
        BY <1>1, <3>2
      <4>2. g[i] = f[i] /\ g[i - 1] = f[i - 1]
        BY <4>1
      <4> QED BY <1>5, <3>2, <4>2
    <3> QED BY <3>1, <3>2
  <2>2. g = [i \in 1..n |-> g[i]]
    OBVIOUS
  <2> HIDE DEF g
  <2>3. Flattens(g)
    BY <2>1, <2>2
  <2> QED BY <2>3
<1>8. Flattens(flat)
  BY <1>7
<1>9. FlattenSeq(parts) = flat[n]
  BY <1>1 DEF FlattenSeq
<1> HIDE DEF flat
<1>10. \A i \in 1..n : flat[i] = f[i]
  <2> DEFINE S == {i \in 0..n : i # 0 => flat[i] = f[i]}
  <2>1. 0 \in S
    BY <1>1
  <2>2. ASSUME NEW i \in 1..n, i - 1 \in S PROVE i \in S
    <3>1. flat[i] = IF i = 1 THEN parts[i] ELSE flat[i - 1] \o parts[i]
      BY <1>8
    <3>2. CASE i = 1
      BY <1>1, <1>6, <3>1, <3>2
    <3>3. CASE i # 1
      <4>1. flat[i - 1] = f[i - 1] /\ i \in 0..n
        BY <2>2, <3>3
      <4> QED BY <1>5, <3>1, <3>3, <4>1
    <3> QED BY <3>2, <3>3
  <2> HIDE DEF S
  <2>3. \A i \in 0..n : i \in S
    BY <1>1, <2>1, <2>2, BoundedInduction
  <2>4. \A i \in 1..n : i \in 0..n /\ i # 0
    BY <1>1
  <2> QED BY <2>3, <2>4 DEF S
<1>11. FlattenSeq(parts) = f[n]
  <2>1. n \in 1..n
    BY <1>1
  <2> QED BY <1>9, <1>10, <2>1
<1> QED BY <1>3, <1>4, <1>5, <1>11

\* So a flattened sequence is of what its parts are of, and each part is found in it.
LEMMA FlattenLaid ==
  ASSUME NEW C, NEW parts \in Seq(Seq(C))
  PROVE  /\ FlattenSeq(parts) \in Seq(C)
         /\ \E at : Laid(parts, FlattenSeq(parts), at)
<1> DEFINE n == Len(parts)
<1>1. CASE parts = <<>>
  <2>1. FlattenSeq(parts) = <<>>
    BY <1>1 DEF FlattenSeq
  <2> DEFINE at == [i \in 0..0 |-> 0]
  <2>2. Laid(parts, <<>>, at)
    BY <1>1 DEF Laid
  <2> QED BY <2>1, <2>2
<1>2. CASE parts # <<>>
  <2>1. n \in Nat /\ n # 0 /\ \A i \in 1..n : parts[i] \in Seq(C) /\ Len(parts[i]) \in Nat
    BY <1>2
  <2>2. PICK f : /\ Along(f, n, <<>>, Joins(parts, C))
                 /\ FlattenSeq(parts) = f[n]
                 /\ f[0] = <<>>
                 /\ \A i \in 0..n : f[i] \in Seq(C)
                 /\ \A i \in 1..n : f[i] = f[i - 1] \o parts[i]
    BY <1>2, FlattenAlong
  <2> HIDE DEF n
  <2>3. \A i \in 1..n : i \in 0..n /\ i - 1 \in 0..n
    BY <2>1
  <2>4. ASSUME NEW i \in 1..n
        PROVE  /\ Len(f[i]) = Len(f[i - 1]) + Len(parts[i])
               /\ \A k \in 1..Len(f[i - 1]) : f[i][k] = f[i - 1][k]
               /\ \A k \in 1..Len(parts[i]) : f[i][Len(f[i - 1]) + k] = parts[i][k]
    <3> DEFINE s == f[i - 1]
               t == parts[i]
    <3>1. s \in Seq(C) /\ t \in Seq(C) /\ f[i] = s \o t
      BY <2>1, <2>2, <2>3
    <3> HIDE DEF s, t
    <3>2. /\ Len(s \o t) = Len(s) + Len(t)
          /\ \A k \in 1..Len(s) : (s \o t)[k] = s[k]
          /\ \A k \in 1..Len(t) : (s \o t)[Len(s) + k] = t[k]
      BY <3>1
    <3> QED BY <3>1, <3>2 DEF s, t
  <2> DEFINE at == [i \in 0..n |-> Len(f[i])]
             S == {i \in 0..n : \A j \in 1..i : /\ at[j] <= at[i]
                    /\ \A k \in 1..Len(parts[j]) : f[i][at[j - 1] + k] = parts[j][k]}
  <2>5. \A i \in 0..n : at[i] \in Nat /\ at[i] = Len(f[i])
    BY <2>2
  <2>6. 0 \in S
    BY <2>1
  <2>7. ASSUME NEW i \in 1..n, i - 1 \in S PROVE i \in S
    <3> SUFFICES ASSUME NEW j \in 1..i
                 PROVE  /\ at[j] <= at[i]
                        /\ \A k \in 1..Len(parts[j]) : f[i][at[j - 1] + k] = parts[j][k]
      BY <2>3
    <3>1. at[i] = at[i - 1] + Len(parts[i]) /\ at[i] \in Nat /\ at[i - 1] \in Nat
          /\ at[i - 1] = Len(f[i - 1]) /\ Len(parts[i]) \in Nat
      BY <2>1, <2>3, <2>4, <2>5
    <3>2. CASE j = i
      <4> HIDE DEF at
      <4>1. at[i] <= at[i]
        BY <3>1
      <4>2. \A k \in 1..Len(parts[i]) : f[i][at[i - 1] + k] = parts[i][k]
        BY <2>4, <3>1
      <4> QED BY <3>2, <4>1, <4>2
    <3>3. CASE j # i
      <4>1. j \in 1..(i - 1) /\ j \in 1..n /\ j - 1 \in 0..n /\ j \in 0..n
        BY <2>1, <3>3
      <4>2. /\ at[j] <= at[i - 1]
            /\ \A k \in 1..Len(parts[j]) : f[i - 1][at[j - 1] + k] = parts[j][k]
        BY <2>7, <4>1
      <4>3. at[j] = at[j - 1] + Len(parts[j]) /\ at[j] \in Nat /\ at[j - 1] \in Nat
            /\ Len(parts[j]) \in Nat
        BY <2>1, <2>4, <2>5, <4>1
      <4> HIDE DEF at
      <4> DEFINE x == at[j]
                 y == at[i - 1]
                 z == at[j - 1]
                 len == Len(parts[j])
      <4>7. x <= y /\ x = z + len /\ x \in Nat /\ y \in Nat /\ z \in Nat /\ len \in Nat
            /\ y = Len(f[i - 1])
        BY <3>1, <4>2, <4>3
      <4>4. \A k \in 1..Len(parts[j]) : at[j - 1] + k \in 1..Len(f[i - 1])
        <5> HIDE DEF x, y, z, len
        <5>1. \A k \in 1..len : z + k \in 1..y
          BY <4>7
        <5> QED BY <4>7, <5>1 DEF z, len
      <4>5. \A k \in 1..Len(parts[j]) : f[i][at[j - 1] + k] = f[i - 1][at[j - 1] + k]
        BY <2>4, <4>4
      <4>6. at[j] <= at[i]
        <5> DEFINE w == at[i]
                   more == Len(parts[i])
        <5>1. w = y + more /\ more \in Nat
          BY <3>1
        <5> HIDE DEF x, y, w, more
        <5>2. x <= w
          BY <4>7, <5>1
        <5> QED BY <5>2 DEF x, w
      <4> QED BY <4>2, <4>5, <4>6
    <3> QED BY <3>2, <3>3
  <2>8. n \in S
    <3>1. n \in 0..n
      BY <2>1
    <3> HIDE DEF S
    <3> QED BY <2>1, <2>6, <2>7, <3>1, BoundedInduction
  <2>9. Laid(parts, f[n], at)
    <3>1. at \in [0..n -> Nat] /\ at[0] = 0 /\ at[n] = Len(f[n])
      BY <2>1, <2>2, <2>5
    <3>2. \A i \in 1..n : at[i] = at[i - 1] + Len(parts[i])
      BY <2>3, <2>4, <2>5
    <3>3. \A i \in 1..n : \A k \in 1..Len(parts[i]) : f[n][at[i - 1] + k] = parts[i][k]
      BY <2>8
    <3> HIDE DEF at
    <3> QED BY <3>1, <3>2, <3>3 DEF Laid, n
  <2>10. f[n] \in Seq(C)
    BY <2>1, <2>2
  <2> QED BY <2>2, <2>9, <2>10
<1> QED BY <1>1, <1>2

\* A sequence with one element more.
Longer(d, c, x, C) ==
  /\ d \in Seq(C) /\ Len(d) = Len(c) + 1 /\ d[Len(c) + 1] = x
  /\ \A k \in 1..Len(c) : d[k] = c[k]

\* What appending makes of a sequence over a set.
LEMMA Appended ==
  ASSUME NEW C, NEW c \in Seq(C), NEW x \in C
  PROVE  Longer(Append(c, x), c, x, C)
<1>1. Append(c, x) \in Seq(C) /\ Len(Append(c, x)) = Len(c) + 1
  BY AppendProperties
<1>2. Append(c, x)[Len(c) + 1] = x
  BY AppendProperties
<1>3. \A k \in 1..Len(c) : Append(c, x)[k] = c[k]
  BY AppendProperties
<1> QED BY <1>1, <1>2, <1>3 DEF Longer

\* A sum along the numbers g[1], g[2], ...
Sums(f, n, g) == f = [k \in 0..n |-> IF k = 0 THEN 0 ELSE f[k - 1] + g[k]]

\* There is one, whatever the summands are.
LEMMA SumExists ==
  ASSUME NEW n \in Nat, NEW g
  PROVE  \E f : Sums(f, n, g)
<1> DEFINE S == {m \in 0..n : \E f : Sums(f, m, g)}
<1>1. 0 \in S
  <2> DEFINE f == [k \in 0..0 |-> 0]
  <2>1. f = [k \in 0..0 |-> IF k = 0 THEN 0 ELSE f[k - 1] + g[k]]
    OBVIOUS
  <2> HIDE DEF f
  <2>2. Sums(f, 0, g)
    BY <2>1 DEF Sums
  <2> QED BY <2>2
<1>2. ASSUME NEW m \in 1..n, m - 1 \in S PROVE m \in S
  <2>1. PICK f : Sums(f, m - 1, g)
    BY <1>2
  <2> DEFINE h == [k \in 0..m |-> IF k = m THEN f[m - 1] + g[m] ELSE f[k]]
  <2>2. ASSUME NEW k \in 0..m PROVE h[k] = IF k = 0 THEN 0 ELSE h[k - 1] + g[k]
    <3>1. CASE k = m
      <4>1. m - 1 \in 0..m /\ m - 1 # m /\ m # 0
        OBVIOUS
      <4> QED BY <3>1, <4>1
    <3>2. CASE k # m
      <4>1. k \in 0..(m - 1) /\ h[k] = f[k]
        BY <3>2
      <4>2. f[k] = IF k = 0 THEN 0 ELSE f[k - 1] + g[k]
        BY <2>1, <4>1 DEF Sums
      <4>3. k # 0 => k - 1 \in 0..m /\ k - 1 # m
        BY <4>1
      <4> QED BY <4>1, <4>2, <4>3
    <3> QED BY <3>1, <3>2
  <2>3. h = [k \in 0..m |-> h[k]]
    OBVIOUS
  <2> HIDE DEF h
  <2>4. Sums(h, m, g)
    BY <2>2, <2>3 DEF Sums
  <2> QED BY <2>4
<1> HIDE DEF S
<1>3. \A m \in 0..n : m \in S
  BY <1>1, <1>2, BoundedInduction
<1> QED BY <1>3 DEF S

\* And a longer one over the same numbers agrees with it.
LEMMA SumUnique ==
  ASSUME NEW m \in Nat, NEW n \in 0..m, NEW g, NEW h, \A k \in 1..n : g[k] = h[k],
         NEW e, Sums(e, n, g), NEW f, Sums(f, m, h)
  PROVE  \A k \in 0..n : e[k] = f[k]
<1> DEFINE S == {k \in 0..n : e[k] = f[k]}
<1>1. 0 \in S
  BY DEF Sums
<1>2. ASSUME NEW k \in 1..n, k - 1 \in S PROVE k \in S
  <2>1. k \in 0..n /\ k \in 0..m /\ k # 0
    OBVIOUS
  <2>2. e[k] = e[k - 1] + g[k] /\ f[k] = f[k - 1] + h[k]
    BY <2>1 DEF Sums
  <2> QED BY <1>2, <2>1, <2>2
<1> HIDE DEF S
<1>3. \A k \in 0..n : k \in S
  BY <1>1, <1>2, BoundedInduction
<1> QED BY <1>3 DEF S

-----------------------------------------------------------------------------
(* Sorting.                                                                *)

\* Numbered things have a largest one.
HasLargest(q, n) == \E m \in 1..n : \A i \in 1..n : q[i] <= q[m]

\* A nonempty table of numbers has a largest one.
LEMMA LargestExists ==
  \A n \in Nat : \A q \in [1..(n + 1) -> Nat] : HasLargest(q, n + 1)
<1> DEFINE S == {n \in Nat : \A q \in [1..(n + 1) -> Nat] : HasLargest(q, n + 1)}
<1>1. 0 \in S
  BY DEF HasLargest
<1>2. ASSUME NEW n \in Nat, n \in S PROVE n + 1 \in S
  <2> SUFFICES ASSUME NEW q \in [1..((n + 1) + 1) -> Nat]
               PROVE  HasLargest(q, (n + 1) + 1)
    OBVIOUS
  <2> DEFINE first == [i \in 1..(n + 1) |-> q[i]]
             last == (n + 1) + 1
  <2>1. first \in [1..(n + 1) -> Nat]
    OBVIOUS
  <2>2. PICK m \in 1..(n + 1) : \A i \in 1..(n + 1) : first[i] <= first[m]
    BY <1>2, <2>1 DEF HasLargest
  <2>3. \A i \in 1..(n + 1) : q[i] <= q[m]
    BY <2>2
  <2>4. \A i \in 1..last : q[i] \in Nat /\ (i \in 1..(n + 1) \/ i = last)
    OBVIOUS
  <2>5. m \in 1..last /\ last \in 1..last
    OBVIOUS
  <2>6. CASE q[last] <= q[m]
    BY <2>3, <2>4, <2>5, <2>6 DEF HasLargest
  <2>7. CASE ~(q[last] <= q[m])
    <3>1. \A i \in 1..last : q[i] <= q[last]
      <4> SUFFICES ASSUME NEW i \in 1..(n + 1) PROVE q[i] <= q[last]
        BY <2>4, <2>5
      <4>1. q[i] <= q[m] /\ i \in 1..last
        BY <2>3
      <4> HIDE DEF last
      <4> QED BY <2>4, <2>5, <2>7, <4>1
    <3> QED BY <2>5, <3>1 DEF HasLargest
  <2> QED BY <2>6, <2>7
<1> HIDE DEF S
<1>3. \A n \in Nat : n \in S
  BY <1>1, <1>2, SetInduction
<1> QED BY <1>3 DEF S

\* An order of the places that puts the numbers in ascending order.
Sorts(p, q, n) == /\ p \in Bijection(1..n, 1..n)
                  /\ \A i, j \in 1..n : i < j => q[p[i]] <= q[p[j]]

\* Any numbers can be sorted: the largest one goes last, in exchange for the last one.
LEMMA SortingExists ==
  \A n \in Nat : \A q \in [1..n -> Nat] : \E p : Sorts(p, q, n)
<1> DEFINE S == {n \in Nat : \A q \in [1..n -> Nat] : \E p : Sorts(p, q, n)}
<1>1. 0 \in S
  <2> SUFFICES ASSUME NEW q \in [1..0 -> Nat] PROVE \E p : Sorts(p, q, 0)
    OBVIOUS
  <2>1. \A i : i \notin 1..0
    OBVIOUS
  <2>2. q \in [1..0 -> 1..0]
    BY <2>1
  <2>3. q \in Bijection(1..0, 1..0)
    BY <2>1, <2>2, Fun_IsBij
  <2> QED BY <2>1, <2>3 DEF Sorts
<1>2. ASSUME NEW n \in Nat, n \in S PROVE n + 1 \in S
  <2> SUFFICES ASSUME NEW q \in [1..(n + 1) -> Nat] PROVE \E p : Sorts(p, q, n + 1)
    OBVIOUS
  <2>1. PICK m \in 1..(n + 1) : \A i \in 1..(n + 1) : q[i] <= q[m]
    BY LargestExists DEF HasLargest
  <2> DEFINE Swapped(i) == IF i = m THEN n + 1 ELSE i
             rest == [i \in 1..n |-> q[Swapped(i)]]
  <2>2. \A i \in 1..n : Swapped(i) \in 1..(n + 1) /\ Swapped(i) # m
    OBVIOUS
  <2>3. rest \in [1..n -> Nat]
    BY <2>2
  <2>4. PICK p : Sorts(p, rest, n)
    BY <1>2, <2>3
  <2>5. /\ p \in [1..n -> 1..n]
        /\ \A a, b \in 1..n : p[a] = p[b] => a = b
        /\ \A t \in 1..n : \E s \in 1..n : p[s] = t
    <3>1. p \in Bijection(1..n, 1..n)
      BY <2>4 DEF Sorts
    <3> QED BY <3>1 DEF Bijection, Injection, Surjection, IsInjective
  <2> DEFINE whole == [i \in 1..(n + 1) |-> IF i = n + 1 THEN m ELSE Swapped(p[i])]
  <2>6. /\ whole \in [1..(n + 1) -> 1..(n + 1)]
        /\ whole[n + 1] = m
        /\ \A i \in 1..n : whole[i] = Swapped(p[i]) /\ p[i] \in 1..n
    <3>1. \A i \in 1..(n + 1) : i = n + 1 \/ (i \in 1..n /\ i # n + 1)
      OBVIOUS
    <3>2. \A i \in 1..n : i # n + 1 /\ i \in 1..(n + 1)
      OBVIOUS
    <3>3. n + 1 \in 1..(n + 1)
      OBVIOUS
    <3> HIDE DEF Swapped
    <3> QED BY <2>2, <2>5, <3>1, <3>2, <3>3
  <2> HIDE DEF whole
  <2>7. \A a, b \in 1..(n + 1) : whole[a] = whole[b] => a = b
    <3> SUFFICES ASSUME NEW a \in 1..(n + 1), NEW b \in 1..(n + 1), whole[a] = whole[b]
                 PROVE  a = b
      OBVIOUS
    <3>1. \A i, j \in 1..n : Swapped(i) = Swapped(j) => i = j
      OBVIOUS
    <3>2. (a = n + 1 \/ a \in 1..n) /\ (b = n + 1 \/ b \in 1..n)
      OBVIOUS
    <3> HIDE DEF Swapped
    <3>3. CASE a = n + 1 /\ b = n + 1
      BY <3>3
    <3>4. CASE a = n + 1 /\ b \in 1..n
      BY <2>2, <2>6, <3>4
    <3>5. CASE a \in 1..n /\ b = n + 1
      BY <2>2, <2>6, <3>5
    <3>6. CASE a \in 1..n /\ b \in 1..n
      <4>1. Swapped(p[a]) = Swapped(p[b]) /\ p[a] \in 1..n /\ p[b] \in 1..n
        BY <2>6, <3>6
      <4>2. p[a] = p[b]
        BY <3>1, <4>1
      <4> QED BY <2>5, <3>6, <4>2
    <3> QED BY <3>2, <3>3, <3>4, <3>5, <3>6
  <2>8. \A t \in 1..(n + 1) : \E s \in 1..(n + 1) : whole[s] = t
    <3> SUFFICES ASSUME NEW t \in 1..(n + 1), t # m
                 PROVE  \E s \in 1..(n + 1) : whole[s] = t
      <4>1. n + 1 \in 1..(n + 1)
        OBVIOUS
      <4> QED BY <2>6, <4>1
    <3>1. \E i \in 1..n : Swapped(i) = t
      <4>1. CASE t = n + 1
        BY <4>1
      <4>2. CASE t # n + 1
        <5>1. t \in 1..n /\ Swapped(t) = t
          BY <4>2
        <5> QED BY <5>1
      <4> QED BY <4>1, <4>2
    <3>2. \A s \in 1..n : s \in 1..(n + 1)
      OBVIOUS
    <3> HIDE DEF Swapped
    <3> QED BY <2>5, <2>6, <3>1, <3>2
  <2>9. whole \in Bijection(1..(n + 1), 1..(n + 1))
    BY <2>6, <2>7, <2>8, Fun_IsBij
  <2>10. ASSUME NEW i \in 1..(n + 1), NEW j \in 1..(n + 1), i < j
         PROVE  q[whole[i]] <= q[whole[j]]
    <3>1. i \in 1..n /\ (j = n + 1 \/ j \in 1..n)
      BY <2>10
    <3>2. CASE j = n + 1
      BY <2>1, <2>6, <3>2
    <3>3. CASE j \in 1..n
      <4>1. rest[p[i]] <= rest[p[j]]
        BY <2>4, <2>10, <3>1, <3>3 DEF Sorts
      <4>2. p[i] \in 1..n /\ p[j] \in 1..n
        BY <2>6, <3>1, <3>3
      <4>3. rest[p[i]] = q[Swapped(p[i])] /\ rest[p[j]] = q[Swapped(p[j])]
        BY <4>2
      <4> HIDE DEF Swapped, rest
      <4> QED BY <2>6, <3>1, <3>3, <4>1, <4>3
    <3> QED BY <3>1, <3>2, <3>3
  <2> QED BY <2>9, <2>10 DEF Sorts
<1> HIDE DEF S
<1>3. \A n \in Nat : n \in S
  BY <1>1, <1>2, SetInduction
<1> QED BY <1>3 DEF S
=============================================================================
