-------------------------- MODULE CaptureLab_proofs --------------------------
(***************************************************************************)
(* The ids of any devices, whatever bytes the kernel's strings hold:       *)
(* escaping loses nothing and leaves no separator behind, so an id can be  *)
(* taken apart again into the evidence it was made from; every descriptor  *)
(* the recorder or its session holds is one the Linux provider made.  A    *)
(* bundle has the frames of its sources, each under its own index, and     *)
(* every connection of a replayed source plays its plan read by read.      *)
(***************************************************************************)
EXTENDS CaptureLab, Prefixes_proofs, SequenceTheorems, FiniteSetTheorems, TLAPS

-----------------------------------------------------------------------------
(* Escaping: nothing is lost, and no separator is left.                    *)

\* What escaped strings are made of.
Marked == Plain \cup {37}

\* What one byte is escaped to.
Spells(t, c) ==
  /\ c \in Plain => Len(t) = 1 /\ t[1] = c
  /\ c \notin Plain => /\ Len(t) = 3 /\ t[1] = 37
                       /\ t[2] = HexDigit(c \div 16) /\ t[3] = HexDigit(c % 16)

LEMMA HexDigits ==
  /\ \A d \in 0..15 : HexDigit(d) \in Plain
  /\ \A d, e \in 0..15 : HexDigit(d) = HexDigit(e) => d = e
  BY DEF HexDigit, Plain

\* A byte is its two digits, the first of them 0 or not.
LEMMA TwoDigits ==
  ASSUME NEW c \in Byte
  PROVE  c \div 16 \in 0..15 /\ c % 16 \in 0..15 /\ c = 16 * (c \div 16) + (c % 16)
  BY DEF Byte

LEMMA Tokens ==
  ASSUME NEW c \in Byte
  PROVE  Token(c) \in Seq(Marked) /\ Spells(Token(c), c)
<1>1. CASE c \in Plain
  <2>1. Token(c) = <<c>> /\ c \in Marked
    BY <1>1 DEF Token, Marked
  <2>2. <<c>> \in Seq(Marked) /\ Len(<<c>>) = 1 /\ <<c>>[1] = c
    BY <2>1
  <2> QED BY <1>1, <2>1, <2>2 DEF Spells
<1>2. CASE c \notin Plain
  <2> DEFINE h == HexDigit(c \div 16)
             l == HexDigit(c % 16)
  <2>1. Token(c) = <<37, h, l>>
    BY <1>2 DEF Token
  <2>2. 37 \in Marked /\ h \in Marked /\ l \in Marked
    BY TwoDigits, HexDigits DEF Marked
  <2> HIDE DEF h, l
  <2>3. /\ <<37, h, l>> \in Seq(Marked) /\ Len(<<37, h, l>>) = 3
        /\ <<37, h, l>>[1] = 37 /\ <<37, h, l>>[2] = h /\ <<37, h, l>>[3] = l
    BY <2>2
  <2> QED BY <1>2, <2>1, <2>3 DEF Spells, h, l
<1> QED BY <1>1, <1>2

LEMMA TokenLength ==
  ASSUME NEW t, NEW c, Spells(t, c)
  PROVE  Len(t) \in 1..3
<1> DEFINE n == Len(t)
<1>1. n = 1 \/ n = 3
  BY DEF Spells
<1> HIDE DEF n
<1>2. n \in 1..3
  BY <1>1
<1> QED BY <1>2 DEF n

\* No token begins another: where two agree as far as both go, it is one byte.
LEMMA TokensDiffer ==
  ASSUME NEW c \in Byte, NEW d \in Byte,
         \A k \in 1..3 : k <= Len(Token(c)) /\ k <= Len(Token(d)) => Token(c)[k] = Token(d)[k]
  PROVE  c = d
<1> DEFINE t == Token(c)
           u == Token(d)
<1>0. Spells(t, c) /\ Spells(u, d)
  BY Tokens
<1>1. t[1] = u[1]
  <2>1. Len(t) \in 1..3 /\ Len(u) \in 1..3
    BY <1>0, TokenLength
  <2> DEFINE m == Len(t)
             n == Len(u)
  <2>2. 1 \in 1..3 /\ 1 <= Len(t) /\ 1 <= Len(u)
    <3>1. m \in 1..3 /\ n \in 1..3
      BY <2>1
    <3> HIDE DEF m, n
    <3>2. 1 \in 1..3 /\ 1 <= m /\ 1 <= n
      BY ONLY <3>1
    <3> QED BY <3>2 DEF m, n
  <2>3. \A k \in 1..3 : k <= Len(t) /\ k <= Len(u) => t[k] = u[k]
    OBVIOUS
  <2> HIDE DEF t, u
  <2> QED BY ONLY <2>2, <2>3
<1>2. 37 \notin Plain
  BY DEF Plain
<1>3. c \in Plain <=> d \in Plain
  BY <1>0, <1>1, <1>2 DEF Spells
<1>4. CASE c \in Plain
  BY <1>0, <1>1, <1>3, <1>4 DEF Spells
<1>5. CASE c \notin Plain
  <2>1. Len(t) = 3 /\ Len(u) = 3
    BY <1>0, <1>3, <1>5 DEF Spells
  <2>2. t[2] = u[2] /\ t[3] = u[3]
    <3>1. 2 \in 1..3 /\ 3 \in 1..3 /\ 2 <= 3 /\ 3 <= 3
      OBVIOUS
    <3> QED BY <2>1, <3>1
  <2> HIDE DEF t, u
  <2>3. /\ HexDigit(c \div 16) = HexDigit(d \div 16)
        /\ HexDigit(c % 16) = HexDigit(d % 16)
    BY <1>0, <1>3, <1>5, <2>2 DEF Spells
  <2>4. c \div 16 = d \div 16 /\ c % 16 = d % 16
    BY <2>3, TwoDigits, HexDigits
  <2> QED BY <2>4, TwoDigits
<1> QED BY <1>4, <1>5

\* Where the bytes of a string are in its escaped form.
Spelled(v, e, at) ==
  /\ at \in [0..Len(v) -> Nat]
  /\ at[0] = 0 /\ at[Len(v)] = Len(e)
  /\ \A i \in 1..Len(v) :
       /\ at[i] = at[i - 1] + Len(Token(v[i]))
       /\ \A k \in 1..Len(Token(v[i])) : e[at[i - 1] + k] = Token(v[i])[k]

LEMMA EscapeLaid ==
  ASSUME NEW v \in Seq(Byte)
  PROVE  Escape(v) \in Seq(Marked) /\ \E at : Spelled(v, Escape(v), at)
<1> DEFINE parts == [i \in DOMAIN v |-> Token(v[i])]
<1>1. Len(v) \in Nat /\ DOMAIN v = 1..Len(v) /\ \A i \in DOMAIN v : v[i] \in Byte
  OBVIOUS
<1>2. \A i \in DOMAIN v : Token(v[i]) \in Seq(Marked)
  BY <1>1, Tokens
<1>3. parts \in Seq(Seq(Marked)) /\ Len(parts) = Len(v)
      /\ \A i \in 1..Len(v) : parts[i] = Token(v[i])
  <2> DEFINE A == Seq(Marked)
  <2>1. parts \in [1..Len(v) -> A]
    BY <1>1, <1>2
  <2>2. \A i \in 1..Len(v) : parts[i] = Token(v[i])
    BY <1>1
  <2> HIDE DEF A, parts
  <2>3. parts \in Seq(A) /\ Len(parts) = Len(v)
    BY <1>1, <2>1
  <2> QED BY <2>2, <2>3 DEF A
<1>4. Escape(v) = FlattenSeq(parts)
  BY DEF Escape, Token
<1> HIDE DEF parts
<1>5. PICK at : Laid(parts, Escape(v), at)
  BY <1>3, <1>4, FlattenLaid
<1>6. Spelled(v, Escape(v), at)
  <2>1. /\ at \in [0..Len(v) -> Nat] /\ at[0] = 0 /\ at[Len(v)] = Len(Escape(v))
        /\ \A i \in 1..Len(v) :
             /\ at[i] = at[i - 1] + Len(parts[i])
             /\ \A k \in 1..Len(parts[i]) : Escape(v)[at[i - 1] + k] = parts[i][k]
    BY <1>3, <1>5 DEF Laid
  <2>2. \A i \in 1..Len(v) :
          /\ at[i] = at[i - 1] + Len(Token(v[i]))
          /\ \A k \in 1..Len(Token(v[i])) : Escape(v)[at[i - 1] + k] = Token(v[i])[k]
    <3> TAKE i \in 1..Len(v)
    <3>1. parts[i] = Token(v[i])
      BY <1>3
    <3> QED BY <2>1, <3>1
  <2> QED BY <2>1, <2>2 DEF Spelled
<1>7. Escape(v) \in Seq(Marked)
  BY <1>3, <1>4, FlattenLaid
<1> QED BY <1>6, <1>7

\* Two strings with one escaped form, the first not longer: they agree as far as the
\* first goes, and it goes as far as the second.
LEMMA EscapePrefix ==
  ASSUME NEW v \in Seq(Byte), NEW w \in Seq(Byte), Len(v) <= Len(w),
         Escape(v) = Escape(w)
  PROVE  v = w
<1> DEFINE n == Len(v)
           e == Escape(v)
           TV(i) == Token(v[i])
           TW(i) == Token(w[i])
<1>1. n \in Nat /\ Len(w) \in Nat /\ n <= Len(w)
      /\ (\A i \in 1..n : v[i] \in Byte) /\ (\A i \in 1..Len(w) : w[i] \in Byte)
  OBVIOUS
<1>a. PICK at : Spelled(v, e, at)
  BY EscapeLaid
<1>b. PICK bt : Spelled(w, e, bt)
  BY EscapeLaid
<1>2. /\ at \in [0..n -> Nat] /\ at[0] = 0 /\ at[n] = Len(e)
      /\ \A i \in 1..n : /\ at[i] = at[i - 1] + Len(TV(i))
                         /\ \A k \in 1..Len(TV(i)) : e[at[i - 1] + k] = TV(i)[k]
  BY <1>a DEF Spelled
<1>3. /\ bt \in [0..Len(w) -> Nat] /\ bt[0] = 0 /\ bt[Len(w)] = Len(e)
      /\ \A i \in 1..Len(w) : /\ bt[i] = bt[i - 1] + Len(TW(i))
                              /\ \A k \in 1..Len(TW(i)) : e[bt[i - 1] + k] = TW(i)[k]
  BY <1>b DEF Spelled
<1>4. \A c \in Byte : Len(Token(c)) \in 1..3
  BY Tokens, TokenLength
<1> HIDE DEF n, e
<1> DEFINE S == {i \in 0..n : at[i] = bt[i] /\ \A j \in 1..i : v[j] = w[j]}
<1>5. 0 \in S
  <2>1. 0 \in 0..n /\ \A j \in 1..0 : FALSE
    BY <1>1
  <2> QED BY <1>2, <1>3, <2>1
<1>6. ASSUME NEW i \in 1..n, i - 1 \in S PROVE i \in S
  <2>1. i \in 1..Len(w) /\ v[i] \in Byte /\ w[i] \in Byte /\ i \in 0..n
        /\ i - 1 \in 0..n
    BY <1>1
  <2>2. at[i - 1] = bt[i - 1] /\ \A j \in 1..(i - 1) : v[j] = w[j]
    BY <1>6
  <2>3. ASSUME NEW k \in 1..3, k <= Len(TV(i)), k <= Len(TW(i)) PROVE TV(i)[k] = TW(i)[k]
    <3>1. k \in 1..Len(TV(i)) /\ k \in 1..Len(TW(i))
      BY <1>4, <2>1, <2>3
    <3>2. e[at[i - 1] + k] = TV(i)[k] /\ e[bt[i - 1] + k] = TW(i)[k]
      BY <1>2, <1>3, <2>1, <3>1
    <3> QED BY <2>2, <3>2
  <2>4. v[i] = w[i]
    BY <2>1, <2>3, TokensDiffer
  <2>5. at[i] = bt[i]
    <3>1. at[i] = at[i - 1] + Len(TV(i)) /\ bt[i] = bt[i - 1] + Len(TW(i))
      BY <1>2, <1>3, <2>1
    <3> QED BY <2>2, <2>4, <3>1
  <2>6. \A j \in 1..i : j = i \/ j \in 1..(i - 1)
    OBVIOUS
  <2> QED BY <2>1, <2>2, <2>4, <2>5, <2>6
<1>7. n \in S
  <2>1. n \in 0..n
    BY <1>1
  <2> HIDE DEF S
  <2> QED BY <1>1, <1>5, <1>6, <2>1, BoundedInduction
<1>8. at[n] = bt[n] /\ \A j \in 1..n : v[j] = w[j]
  BY <1>7
<1>9. ~(n < Len(w))
  <2> SUFFICES ASSUME n < Len(w) PROVE FALSE
    OBVIOUS
  <2> DEFINE T == {j \in 0..Len(w) : j >= n + 1 => bt[j] > bt[n]}
  <2>1. 0 \in T
    BY <1>1
  <2>2. ASSUME NEW j \in 1..Len(w), j - 1 \in T PROVE j \in T
    <3> SUFFICES ASSUME j >= n + 1 PROVE bt[j] > bt[n]
      BY <1>1
    <3> DEFINE x == bt[j]
               y == bt[j - 1]
               z == bt[n]
               len == Len(TW(j))
    <3>1. x = y + len /\ len \in 1..3 /\ y \in Nat /\ z \in Nat
      <4>1. w[j] \in Byte /\ j - 1 \in 0..Len(w) /\ n \in 0..Len(w)
        BY <1>1
      <4> QED BY <1>3, <1>4, <4>1
    <3>2. j = n + 1 \/ j - 1 >= n + 1
      BY <1>1
    <3>3. j = n + 1 => y = z
      BY <1>1
    <3>4. j - 1 >= n + 1 => y > z
      BY <2>2
    <3> HIDE DEF x, y, z, len
    <3>5. x > z
      BY <3>1, <3>2, <3>3, <3>4
    <3> QED BY <3>5 DEF x, z
  <2>3. \A j \in 0..Len(w) : j \in T
    <3> HIDE DEF T
    <3> QED BY <1>1, <2>1, <2>2, BoundedInduction
  <2>4. Len(w) \in 0..Len(w) /\ Len(w) >= n + 1 /\ n \in 0..Len(w)
    BY <1>1
  <2>5. bt[Len(w)] > bt[n]
    BY <2>3, <2>4
  <2>6. bt[n] = Len(e) /\ bt[Len(w)] = Len(e) /\ bt[n] \in Nat
    BY <1>2, <1>3, <1>8, <2>4
  <2> QED BY <2>5, <2>6
<1>10. Len(w) = n
  BY <1>1, <1>9
<1> QED BY <1>8, <1>10 DEF n

\* Escaping any bytes is injective: a ':' and the text "%3A" stay apart, and so do
\* the bytes 1, '0' and the byte 16, by the digit that pads the first.
THEOREM EscapeInjective ==
  ASSUME NEW v \in Seq(Byte), NEW w \in Seq(Byte), Escape(v) = Escape(w)
  PROVE  v = w
<1>1. Len(v) \in Nat /\ Len(w) \in Nat
  OBVIOUS
<1>2. Len(v) <= Len(w) \/ Len(w) <= Len(v)
  BY <1>1
<1> QED BY <1>2, EscapePrefix
-----------------------------------------------------------------------------
(* Ids: how they are taken apart.                                          *)

\* What ids are made of.
Symbols ==
  Marked \cup {Colon, "uniq", "phys", "anonymous", "source", "bus-"}
        \cup UNION {{n.bus, n.vendor, n.product, Transport(n.bus)} : n \in Nodes}

\* A separator ends what it follows, where that holds none.
Ended(u, x) == u \o (<<Colon>> \o x)

LEMMA FirstColon ==
  ASSUME NEW u \in Seq(Marked), NEW v \in Seq(Marked),
         NEW x \in Seq(Symbols), NEW y \in Seq(Symbols),
         Ended(u, x) = Ended(v, y)
  PROVE  u = v /\ x = y
<1> DEFINE z == <<Colon>> \o x
           w == <<Colon>> \o y
           a == u \o z
           b == v \o w
<1>1. u \in Seq(Symbols) /\ v \in Seq(Symbols)
  BY SeqMonotonic DEF Symbols
<1>2. <<Colon>> \in Seq(Symbols)
  BY DEF Symbols
<1>3. /\ z \in Seq(Symbols) /\ Len(z) = 1 + Len(x) /\ z[1] = Colon
      /\ w \in Seq(Symbols) /\ Len(w) = 1 + Len(y) /\ w[1] = Colon
  <2> DEFINE s == <<Colon>>
  <2>1. s \in Seq(Symbols) /\ Len(s) = 1 /\ s[1] = Colon
    BY <1>2
  <2>2. Len(x) \in Nat /\ Len(y) \in Nat
    OBVIOUS
  <2> HIDE DEF s
  <2>3. /\ s \o x \in Seq(Symbols) /\ Len(s \o x) = Len(s) + Len(x)
        /\ \A i \in 1..(Len(s) + Len(x)) : (s \o x)[i] = IF i <= Len(s) THEN s[i] ELSE x[i - Len(s)]
        /\ s \o y \in Seq(Symbols) /\ Len(s \o y) = Len(s) + Len(y)
        /\ \A i \in 1..(Len(s) + Len(y)) : (s \o y)[i] = IF i <= Len(s) THEN s[i] ELSE y[i - Len(s)]
    BY <2>1, ConcatProperties
  <2> QED BY <2>1, <2>2, <2>3 DEF s
<1> HIDE DEF z, w
<1>4. Len(u) \in Nat /\ Len(v) \in Nat /\ Len(z) >= 1 /\ Len(w) >= 1
      /\ Len(z) \in Nat /\ Len(w) \in Nat
  BY <1>1, <1>3
<1>5. /\ \A i \in 1..Len(u) : a[i] = u[i]
      /\ a[Len(u) + 1] = Colon
      /\ \A i \in 1..Len(v) : b[i] = v[i]
      /\ b[Len(v) + 1] = Colon
  <2>1. /\ \A i \in 1..(Len(u) + Len(z)) : a[i] = IF i <= Len(u) THEN u[i] ELSE z[i - Len(u)]
        /\ \A i \in 1..(Len(v) + Len(w)) : b[i] = IF i <= Len(v) THEN v[i] ELSE w[i - Len(v)]
    <3>1. \A i \in 1..(Len(u) + Len(z)) : (u \o z)[i] = IF i <= Len(u) THEN u[i] ELSE z[i - Len(u)]
      BY <1>1, <1>3, ConcatProperties
    <3>2. \A i \in 1..(Len(v) + Len(w)) : (v \o w)[i] = IF i <= Len(v) THEN v[i] ELSE w[i - Len(v)]
      BY <1>1, <1>3, ConcatProperties
    <3> QED BY <1>3, <3>1, <3>2
  <2> HIDE DEF a, b
  <2>2. /\ \A i \in 1..Len(u) : i \in 1..(Len(u) + Len(z)) /\ i <= Len(u)
        /\ \A i \in 1..Len(v) : i \in 1..(Len(v) + Len(w)) /\ i <= Len(v)
    <3> DEFINE k == Len(u)
               l == Len(v)
               m == Len(z)
               n == Len(w)
    <3>1. k \in Nat /\ l \in Nat /\ m \in Nat /\ n \in Nat /\ m >= 1 /\ n >= 1
      BY <1>4
    <3> HIDE DEF k, l, m, n
    <3>2. /\ \A i \in 1..k : i \in 1..(k + m) /\ i <= k
          /\ \A i \in 1..l : i \in 1..(l + n) /\ i <= l
      BY ONLY <3>1
    <3> QED BY <3>2 DEF k, l, m, n
  <2>3. /\ Len(u) + 1 \in 1..(Len(u) + Len(z)) /\ ~(Len(u) + 1 <= Len(u))
        /\ (Len(u) + 1) - Len(u) = 1
        /\ Len(v) + 1 \in 1..(Len(v) + Len(w)) /\ ~(Len(v) + 1 <= Len(v))
        /\ (Len(v) + 1) - Len(v) = 1
    BY <1>4
  <2>4. a[Len(u) + 1] = z[(Len(u) + 1) - Len(u)] /\ b[Len(v) + 1] = w[(Len(v) + 1) - Len(v)]
    BY <2>1, <2>3
  <2> QED BY <1>3, <2>1, <2>2, <2>3, <2>4
<1>6. a = b
  BY DEF Ended, z, w
<1> HIDE DEF a, b
<1>7. (\A i \in 1..Len(u) : u[i] # Colon) /\ (\A i \in 1..Len(v) : v[i] # Colon)
  <2>1. (\A i \in 1..Len(u) : u[i] \in Marked) /\ (\A i \in 1..Len(v) : v[i] \in Marked)
    OBVIOUS
  <2>2. Colon \notin Marked
    BY DEF Marked, Plain, Colon
  <2> QED BY <2>1, <2>2
<1>8. Len(u) = Len(v)
  <2>1. ~(Len(u) < Len(v))
    <3> SUFFICES ASSUME Len(u) < Len(v) PROVE FALSE
      OBVIOUS
    <3>1. Len(u) + 1 \in 1..Len(v)
      BY <1>4
    <3> QED BY <1>5, <1>6, <1>7, <3>1
  <2>2. ~(Len(v) < Len(u))
    <3> SUFFICES ASSUME Len(v) < Len(u) PROVE FALSE
      OBVIOUS
    <3>1. Len(v) + 1 \in 1..Len(u)
      BY <1>4
    <3> QED BY <1>5, <1>6, <1>7, <3>1
  <2> QED BY <1>4, <2>1, <2>2
<1>9. u = v
  BY <1>1, <1>5, <1>6, <1>8, SeqEqual
<1>10. z = w
  BY <1>1, <1>3, <1>6, <1>9, ConcatSimplifications DEF a, b
<1>11. x = y
  BY <1>2, <1>10, ConcatSimplifications DEF z, w
<1> QED BY <1>9, <1>11

\* Options of strings that are not blank.
Strings == {value \in Seq(Byte) : Visible(value) # {}}
Solid(option) == option = None \/ \E value \in Strings : option = Some(value)

\* A part of a string from a place that no white space covers on is not blank.
LEMMA PartVisible ==
  ASSUME NEW value \in Seq(Byte), NEW first \in Visible(value), NEW last \in 1..Len(value),
         first <= last
  PROVE  SubSeq(value, first, last) \in Strings
<1> DEFINE t == SubSeq(value, first, last)
<1>1. Len(value) \in Nat /\ DOMAIN value = 1..Len(value) /\ last \in Int
      /\ first \in 1..Len(value)
  BY DEF Visible
<1>2. \A i \in first..last : value[i] \in Byte
  BY <1>1
<1>3. /\ t \in Seq(Byte)
      /\ Len(t) = IF first <= last THEN last - first + 1 ELSE 0
      /\ \A i \in 1..(last - first + 1) : t[i] = value[first + i - 1]
  BY <1>1, <1>2, SubSeqProperties
<1> HIDE DEF t
<1>4. DOMAIN t = 1..(last - first + 1) /\ 1 \in DOMAIN t /\ first \in DOMAIN value
  BY <1>1, <1>3
<1>5. ASSUME NEW w \in WhiteSpace, NEW k \in DOMAIN w
      PROVE  \E j \in DOMAIN w : 1 - k + j \notin DOMAIN t \/ t[1 - k + j] # w[j]
  <2>1. k \in 1..3 /\ \A j \in DOMAIN w : j \in 1..3
    BY DEF WhiteSpace
  <2>2. PICK j \in DOMAIN w : \/ first - k + j \notin DOMAIN value
                              \/ value[first - k + j] # w[j]
    BY DEF Visible
  <2>3. ASSUME 1 - k + j \in DOMAIN t
        PROVE  first - k + j \in DOMAIN value /\ t[1 - k + j] = value[first - k + j]
    <3> DEFINE n == Len(value)
    <3>0. k \in Int /\ j \in Int /\ n \in Nat /\ first \in 1..n /\ last \in 1..n
          /\ 1 - k + j \in 1..(last - first + 1)
      BY <1>1, <1>4, <2>1, <2>3
    <3> HIDE DEF n
    <3>8. k \in Int /\ j \in Int /\ first \in Int
      BY <3>0
    <3>5. first + (1 - k + j) - 1 = first - k + j
      BY ONLY <3>8
    <3> DEFINE m == 1 - k + j
    <3>6. m \in 1..(last - first + 1) /\ first - k + j = first + m - 1
      BY <3>0, <3>5
    <3> HIDE DEF m
    <3>7. first + m - 1 \in 1..n
      BY ONLY <3>0, <3>6
    <3>4. 1 - k + j \in 1..(last - first + 1) /\ first + (1 - k + j) - 1 = first - k + j
          /\ first - k + j \in 1..n
      BY <3>0, <3>5, <3>6, <3>7
    <3>1. 1 - k + j \in 1..(last - first + 1) /\ first + (1 - k + j) - 1 = first - k + j
          /\ first - k + j \in 1..Len(value)
      BY <3>4 DEF n
    <3>2. t[1 - k + j] = value[first + (1 - k + j) - 1]
      BY <1>3, <3>1
    <3> QED BY <1>1, <3>1, <3>2
  <2> QED BY <2>2, <2>3
<1>6. 1 \in Visible(t)
  BY <1>4, <1>5 DEF Visible
<1> QED BY <1>3, <1>6 DEF Strings, t

\* The kernel's strings are trimmed, so what is left of one is not blank.
LEMMA TrimmedSolid ==
  ASSUME NEW option,
         option = None \/ \E value \in option : value \in Seq(Byte) /\ option = Some(value)
  PROVE  Solid(NonEmpty(option))
<1> DEFINE Trim(value) == SubSeq(value, Min(Visible(value)), Max(Visible(value)))
<1>1. NonEmpty(option) = {Trim(value) : value \in Filled(option)}
  BY DEF NonEmpty
<1>2. CASE Filled(option) = {}
  BY <1>1, <1>2 DEF Solid, None
<1>3. CASE Filled(option) # {}
  <2>1. PICK value \in Seq(Byte) : Filled(option) = {value} /\ Visible(value) # {}
    BY <1>3 DEF Filled, None, Some
  <2> DEFINE S == Visible(value)
             first == Min(S)
             last == Max(S)
  <2>2. S \in SUBSET (1..Len(value)) /\ S # {} /\ Len(value) \in Nat
    <3>1. DOMAIN value = 1..Len(value) /\ Len(value) \in Nat
      OBVIOUS
    <3> QED BY <2>1, <3>1 DEF Visible
  <2>3. first \in S /\ last \in S /\ \A i \in S : last >= i
    <3> HIDE DEF S
    <3>1. 1..Len(value) \subseteq Nat
      BY <2>2
    <3> QED BY <2>2, <3>1, MinIsMember, MaxIsMember
  <2>4. first \in Visible(value) /\ last \in 1..Len(value) /\ first <= last
    <3>1. first \in S /\ last \in 1..Len(value) /\ first \in 1..Len(value)
      <4> HIDE DEF S, first, last
      <4> QED BY <2>2, <2>3
    <3> HIDE DEF S, first, last
    <3>2. last >= first
      BY <2>3
    <3>3. first <= last
      BY <2>2, <3>1, <3>2
    <3> QED BY <3>1, <3>3 DEF S
  <2> HIDE DEF first, last
  <2>5. Trim(value) \in Strings
    <3>1. SubSeq(value, first, last) \in Strings
      BY <2>4, PartVisible
    <3> QED BY <3>1 DEF first, last
  <2> HIDE DEF Trim
  <2>6. NonEmpty(option) = {Trim(value)}
    BY <1>1, <2>1
  <2> QED BY <2>5, <2>6 DEF Solid, Some
<1> QED BY <1>2, <1>3

\* Solid options lose nothing where blank ones are left out.
LEMMA SolidFilled ==
  ASSUME NEW option, Solid(option)
  PROVE  Filled(option) = option
  BY DEF Solid, Filled, Strings, None, Some

LEMMA SolidGet ==
  ASSUME NEW option, Solid(option), option # None
  PROVE  Get(option) \in Seq(Byte) /\ option = {Get(option)}
  BY DEF Solid, Strings, None, Some, Get

\* The evidence an id is made from, besides the numbers every device has.
Clue(unique_id, physical_path) ==
  IF unique_id # None THEN <<"uniq", unique_id>> ELSE <<"phys", physical_path>>

LEMMA DiscriminatorCases ==
  ASSUME NEW u, NEW p, Solid(u), Solid(p)
  PROVE  /\ u # None => /\ Discriminator(u, p) = <<"uniq", Colon>> \o Escape(Get(u))
                        /\ Clue(u, p) = <<"uniq", u>>
         /\ u = None /\ p # None => /\ Discriminator(u, p) = <<"phys", Colon>> \o Escape(Get(p))
                                    /\ Clue(u, p) = <<"phys", p>>
         /\ u = None /\ p = None => /\ Discriminator(u, p) = <<"anonymous">>
                                    /\ Clue(u, p) = <<"phys", None>>
<1>1. Filled(u) = u /\ Filled(p) = p
  BY SolidFilled
<1> QED BY <1>1 DEF Discriminator, Clue

\* What follows a tag and an escaped string, or a tag alone.
Tagged(tag, v, x) == <<tag, Colon>> \o Ended(Escape(v), x)

LEMMA SymbolSeqs ==
  /\ \A v \in Seq(Byte) : Escape(v) \in Seq(Symbols)
  /\ \A tag \in {"uniq", "phys"} : <<tag, Colon>> \in Seq(Symbols)
  /\ <<Colon>> \in Seq(Symbols) /\ <<"anonymous">> \in Seq(Symbols)
  /\ <<"source", Colon>> \in Seq(Symbols) /\ <<Colon, "source", Colon>> \in Seq(Symbols)
<1>1. /\ Marked \subseteq Symbols
      /\ {Colon, "uniq", "phys", "anonymous", "source", "bus-"} \subseteq Symbols
  BY DEF Symbols
<1>2. \A v \in Seq(Byte) : Escape(v) \in Seq(Symbols)
  BY <1>1, EscapeLaid, SeqMonotonic
<1> QED BY <1>1, <1>2

LEMMA ConcatTyped ==
  ASSUME NEW S, NEW s \in Seq(S), NEW t \in Seq(S)
  PROVE  s \o t \in Seq(S)
  BY ConcatProperties

LEMMA ConcatLength ==
  ASSUME NEW S, NEW s \in Seq(S), NEW t \in Seq(S)
  PROVE  Len(s \o t) = Len(s) + Len(t) /\ Len(s) \in Nat /\ Len(t) \in Nat
  BY ConcatProperties

Regroups(a, b, c) == (a \o b) \o c = a \o (b \o c)

LEMMA Regrouped ==
  ASSUME NEW a \in Seq(Symbols), NEW b \in Seq(Symbols), NEW c \in Seq(Symbols)
  PROVE  Regroups(a, b, c)
<1> DEFINE S == Symbols
<1>1. a \in Seq(S) /\ b \in Seq(S) /\ c \in Seq(S)
  OBVIOUS
<1> HIDE DEF S
<1> QED BY <1>1, ConcatAssociative DEF Regroups

LEMMA TaggedEqual ==
  ASSUME NEW tag \in {"uniq", "phys"}, NEW v \in Seq(Byte), NEW w \in Seq(Byte),
         NEW x \in Seq(Symbols), NEW y \in Seq(Symbols),
         Tagged(tag, v, x) = Tagged(tag, w, y)
  PROVE  v = w /\ x = y
<1> DEFINE a == Ended(Escape(v), x)
           b == Ended(Escape(w), y)
           h == <<tag, Colon>>
<1>1. a \in Seq(Symbols) /\ b \in Seq(Symbols) /\ h \in Seq(Symbols)
  BY SymbolSeqs, ConcatTyped DEF Ended
<1>2. h \o a = h \o b
  BY DEF Tagged
<1> HIDE DEF a, b, h
<1>3. a = b
  BY <1>1, <1>2, ConcatSimplifications
<1>4. Escape(v) \in Seq(Marked) /\ Escape(w) \in Seq(Marked)
  BY EscapeLaid
<1>5. Escape(v) = Escape(w) /\ x = y
  BY <1>3, <1>4, FirstColon DEF a, b
<1> QED BY <1>5, EscapeInjective

LEMMA HeadOfConcat ==
  ASSUME NEW S, NEW s \in Seq(S), NEW t \in Seq(S), NEW i \in 1..Len(s)
  PROVE  (s \o t)[i] = s[i]
<1>1. Len(s) \in Nat /\ Len(t) \in Nat
  OBVIOUS
<1>2. i \in 1..(Len(s) + Len(t)) /\ i <= Len(s)
  BY <1>1
<1> QED BY <1>2, ConcatProperties

\* What follows a discriminator tells what it was.
Tells(whole, u, p, x) ==
  /\ u # None => whole = Tagged("uniq", Get(u), x) /\ whole[1] = "uniq"
  /\ u = None /\ p # None => whole = Tagged("phys", Get(p), x) /\ whole[1] = "phys"
  /\ u = None /\ p = None => whole = Ended(<<"anonymous">>, x) /\ whole[1] = "anonymous"

LEMMA DiscriminatorEnds ==
  ASSUME NEW u, NEW p, Solid(u), Solid(p), NEW x \in Seq(Symbols)
  PROVE  /\ Discriminator(u, p) \in Seq(Symbols)
         /\ Ended(Discriminator(u, p), x) \in Seq(Symbols)
         /\ Tells(Ended(Discriminator(u, p), x), u, p, x)
<1> DEFINE tail == <<Colon>> \o x
           whole == Ended(Discriminator(u, p), x)
<1>1. tail \in Seq(Symbols)
  BY SymbolSeqs, ConcatTyped
<1>2. ASSUME NEW tag \in {"uniq", "phys"}, NEW v \in Seq(Byte),
             Discriminator(u, p) = <<tag, Colon>> \o Escape(v)
      PROVE  /\ Discriminator(u, p) \in Seq(Symbols)
             /\ whole = Tagged(tag, v, x) /\ whole[1] = tag
  <2> DEFINE h == <<tag, Colon>>
             e == Escape(v)
  <2>1. h \in Seq(Symbols) /\ e \in Seq(Symbols)
    BY SymbolSeqs
  <2>2. Len(h) = 2 /\ h[1] = tag /\ 1 \in 1..Len(h)
    OBVIOUS
  <2> HIDE DEF h, e, tail
  <2>3. h \o e \in Seq(Symbols) /\ e \o tail \in Seq(Symbols)
    BY <1>1, <2>1, ConcatTyped
  <2>4. (h \o e) \o tail = h \o (e \o tail)
    <3>1. Regroups(h, e, tail)
      BY ONLY <1>1, <2>1, Regrouped
    <3> QED BY ONLY <3>1 DEF Regroups
  <2>5. (h \o (e \o tail))[1] = tag
    BY <2>1, <2>2, <2>3, HeadOfConcat
  <2>6. whole = (h \o e) \o tail /\ Discriminator(u, p) = h \o e
    BY <1>2 DEF Ended, h, e, tail
  <2>7. Tagged(tag, v, x) = h \o (e \o tail)
    BY DEF Tagged, Ended, h, e, tail
  <2> HIDE DEF whole
  <2> QED BY <2>3, <2>4, <2>5, <2>6, <2>7
<1>3. CASE u # None
  <2>1. Get(u) \in Seq(Byte) /\ Discriminator(u, p) = <<"uniq", Colon>> \o Escape(Get(u))
    BY <1>3, SolidGet, DiscriminatorCases
  <2>2. /\ Discriminator(u, p) \in Seq(Symbols)
        /\ whole = Tagged("uniq", Get(u), x) /\ whole[1] = "uniq"
    BY <1>2, <2>1
  <2> HIDE DEF tail, whole
  <2>3. whole \in Seq(Symbols)
    BY <1>1, <2>2, ConcatTyped DEF Ended, tail, whole
  <2> QED BY <1>3, <2>2, <2>3 DEF Tells, whole
<1>4. CASE u = None /\ p # None
  <2>1. Get(p) \in Seq(Byte) /\ Discriminator(u, p) = <<"phys", Colon>> \o Escape(Get(p))
    BY <1>4, SolidGet, DiscriminatorCases
  <2>2. /\ Discriminator(u, p) \in Seq(Symbols)
        /\ whole = Tagged("phys", Get(p), x) /\ whole[1] = "phys"
    BY <1>2, <2>1
  <2> HIDE DEF tail, whole
  <2>3. whole \in Seq(Symbols)
    BY <1>1, <2>2, ConcatTyped DEF Ended, tail, whole
  <2> QED BY <1>4, <2>2, <2>3 DEF Tells, whole
<1>5. CASE u = None /\ p = None
  <2> DEFINE h == <<"anonymous">>
  <2>1. Discriminator(u, p) = h
    BY <1>5, DiscriminatorCases
  <2>2. h \in Seq(Symbols) /\ Len(h) = 1 /\ h[1] = "anonymous" /\ 1 \in 1..Len(h)
    BY SymbolSeqs
  <2> HIDE DEF tail, h
  <2>3. (h \o tail)[1] = "anonymous" /\ h \o tail \in Seq(Symbols)
    BY <1>1, <2>2, HeadOfConcat, ConcatTyped
  <2> QED BY <1>5, <2>1, <2>2, <2>3 DEF Tells, Ended, h, tail
<1> QED BY <1>3, <1>4, <1>5

\* A discriminator and what follows it after a separator are told apart.
LEMMA DiscriminatorInjective ==
  ASSUME NEW u, NEW p, Solid(u), Solid(p), NEW x \in Seq(Symbols),
         NEW v, NEW q, Solid(v), Solid(q), NEW y \in Seq(Symbols),
         Ended(Discriminator(u, p), x) = Ended(Discriminator(v, q), y)
  PROVE  Clue(u, p) = Clue(v, q) /\ x = y
<1> DEFINE a == Ended(Discriminator(u, p), x)
           b == Ended(Discriminator(v, q), y)
<1>1. Tells(a, u, p, x)
  BY DiscriminatorEnds
<1>2. Tells(b, v, q, y)
  BY DiscriminatorEnds
<1>3. a = b
  OBVIOUS
<1> HIDE DEF a, b
<1>4. CASE u # None
  <2>1. v # None
    BY <1>1, <1>2, <1>3, <1>4 DEF Tells
  <2>2. Get(u) \in Seq(Byte) /\ u = {Get(u)} /\ Get(v) \in Seq(Byte) /\ v = {Get(v)}
    BY <1>4, <2>1, SolidGet
  <2>3. Tagged("uniq", Get(u), x) = Tagged("uniq", Get(v), y) /\ "uniq" \in {"uniq", "phys"}
    BY <1>1, <1>2, <1>3, <1>4, <2>1 DEF Tells
  <2>4. Get(u) = Get(v) /\ x = y
    BY <2>2, <2>3, TaggedEqual
  <2> QED BY <1>4, <2>1, <2>2, <2>4 DEF Clue
<1>5. CASE u = None /\ p # None
  <2>1. v = None /\ q # None
    BY <1>1, <1>2, <1>3, <1>5 DEF Tells
  <2>2. Get(p) \in Seq(Byte) /\ p = {Get(p)} /\ Get(q) \in Seq(Byte) /\ q = {Get(q)}
    BY <1>5, <2>1, SolidGet
  <2>3. Tagged("phys", Get(p), x) = Tagged("phys", Get(q), y) /\ "phys" \in {"uniq", "phys"}
    BY <1>1, <1>2, <1>3, <1>5, <2>1 DEF Tells
  <2>4. Get(p) = Get(q) /\ x = y
    BY <2>2, <2>3, TaggedEqual
  <2> QED BY <1>5, <2>1, <2>2, <2>4 DEF Clue
<1>6. CASE u = None /\ p = None
  <2>1. v = None /\ q = None
    BY <1>1, <1>2, <1>3, <1>6 DEF Tells
  <2>2. <<"anonymous">> \o (<<Colon>> \o x) = <<"anonymous">> \o (<<Colon>> \o y)
    BY <1>1, <1>2, <1>3, <1>6, <2>1 DEF Tells, Ended
  <2>3. /\ <<"anonymous">> \in Seq(Symbols) /\ <<Colon>> \in Seq(Symbols)
        /\ <<Colon>> \o x \in Seq(Symbols) /\ <<Colon>> \o y \in Seq(Symbols)
    BY SymbolSeqs, ConcatTyped
  <2>4. <<Colon>> \o x = <<Colon>> \o y
    BY <2>2, <2>3, ConcatSimplifications
  <2>5. x = y
    BY <2>3, <2>4, ConcatSimplifications
  <2> QED BY <1>6, <2>1, <2>5 DEF Clue
<1> QED BY <1>4, <1>5, <1>6

\* What every id of a device begins with.
Header(n) ==
  <<n.bus, Colon, n.vendor, Colon, n.product, Colon>>
    \o TransportLabel(Transport(n.bus), n.bus) \o <<Colon>>

LEMMA HeaderShape ==
  ASSUME NEW n \in Nodes
  PROVE  /\ Header(n) \in Seq(Symbols) /\ Len(Header(n)) >= 6
         /\ Header(n)[1] = n.bus /\ Header(n)[3] = n.vendor /\ Header(n)[5] = n.product
<1> DEFINE h == <<n.bus, Colon, n.vendor, Colon, n.product, Colon>>
           label == TransportLabel(Transport(n.bus), n.bus)
           colon == <<Colon>>
<1>1. /\ n.bus \in Symbols /\ n.vendor \in Symbols /\ n.product \in Symbols
      /\ Transport(n.bus) \in Symbols
  <2> DEFINE own == {n.bus, n.vendor, n.product, Transport(n.bus)}
  <2>1. own \subseteq Symbols
    BY DEF Symbols
  <2> QED BY <2>1
<1>2. Colon \in Symbols /\ "bus-" \in Symbols
  BY DEF Symbols
<1>3. h \in Seq(Symbols) /\ Len(h) = 6 /\ h[1] = n.bus /\ h[3] = n.vendor /\ h[5] = n.product
  BY <1>1, <1>2
<1>4. label \in Seq(Symbols)
  BY <1>1, <1>2 DEF TransportLabel
<1>5. colon \in Seq(Symbols)
  BY <1>2
<1>6. Header(n) = (h \o label) \o colon
  BY DEF Header
<1> HIDE DEF h, label, colon
<1>7. h \o label \in Seq(Symbols) /\ Len(h \o label) = 6 + Len(label) /\ Len(label) \in Nat
  <2>1. h \o label \in Seq(Symbols)
    BY <1>3, <1>4, ConcatTyped
  <2>2. Len(h \o label) = Len(h) + Len(label) /\ Len(label) \in Nat
    BY <1>3, <1>4, ConcatLength
  <2> QED BY <1>3, <2>1, <2>2
<1>8. (h \o label) \o colon \in Seq(Symbols)
      /\ Len((h \o label) \o colon) = Len(h \o label) + Len(colon) /\ Len(colon) \in Nat
  <2> DEFINE s == h \o label
  <2>1. s \in Seq(Symbols)
    BY <1>7
  <2> HIDE DEF s
  <2>2. s \o colon \in Seq(Symbols) /\ Len(s \o colon) = Len(s) + Len(colon)
        /\ Len(colon) \in Nat
    BY <1>5, <2>1, ConcatTyped, ConcatLength
  <2> QED BY <2>2 DEF s
<1>9. ASSUME NEW i \in 1..6 PROVE ((h \o label) \o colon)[i] = h[i]
  <2>1. i \in 1..Len(h \o label) /\ i \in 1..Len(h)
    BY <1>3, <1>7
  <2> QED BY <1>3, <1>4, <1>5, <1>7, <2>1, HeadOfConcat
<1>10. Len(Header(n)) >= 6
  BY <1>6, <1>7, <1>8
<1>11. /\ ((h \o label) \o colon)[1] = h[1] /\ ((h \o label) \o colon)[3] = h[3]
       /\ ((h \o label) \o colon)[5] = h[5]
  <2>1. 1 \in 1..6 /\ 3 \in 1..6 /\ 5 \in 1..6
    OBVIOUS
  <2> DEFINE s == (h \o label) \o colon
  <2>2. \A i \in 1..6 : s[i] = h[i]
    BY <1>9
  <2> HIDE DEF s
  <2>3. s[1] = h[1] /\ s[3] = h[3] /\ s[5] = h[5]
    BY <2>1, <2>2
  <2> QED BY <2>3 DEF s
<1> QED BY <1>3, <1>6, <1>8, <1>10, <1>11

SameNumbers(n, m) == n.bus = m.bus /\ n.vendor = m.vendor /\ n.product = m.product

From(n, x) == Header(n) \o x

LEMMA HeaderInjective ==
  ASSUME NEW n \in Nodes, NEW m \in Nodes, NEW x \in Seq(Symbols), NEW y \in Seq(Symbols),
         From(n, x) = From(m, y)
  PROVE  SameNumbers(n, m) /\ x = y
<1> DEFINE a == Header(n) \o x
           b == Header(m) \o y
<1>1. /\ Header(n) \in Seq(Symbols) /\ Len(Header(n)) >= 6
      /\ Header(m) \in Seq(Symbols) /\ Len(Header(m)) >= 6
  BY HeaderShape
<1>2. \A i \in 1..6 : a[i] = Header(n)[i] /\ b[i] = Header(m)[i]
  <2> SUFFICES ASSUME NEW i \in 1..6 PROVE a[i] = Header(n)[i] /\ b[i] = Header(m)[i]
    OBVIOUS
  <2>1. Len(Header(n)) \in Nat /\ Len(Header(m)) \in Nat
    BY <1>1
  <2>2. i \in 1..Len(Header(n)) /\ i \in 1..Len(Header(m))
    BY <1>1, <2>1
  <2> QED BY <1>1, <2>2, HeadOfConcat
<1>3. a = b
  BY DEF From
<1>4. SameNumbers(n, m)
  <2>1. 1 \in 1..6 /\ 3 \in 1..6 /\ 5 \in 1..6
    OBVIOUS
  <2> HIDE DEF a, b
  <2> QED BY <1>2, <1>3, <2>1, HeaderShape DEF SameNumbers
<1>5. Header(n) = Header(m)
  BY <1>4 DEF SameNumbers, Header
<1>6. x = y
  BY <1>1, <1>3, <1>5, ConcatSimplifications
<1> QED BY <1>4, <1>6

-----------------------------------------------------------------------------
(* Descriptors.                                                            *)

Unique(n) == NonEmpty(n.uniq)
Physical(n) == NonEmpty(n.phys)
Basis(n) == From(n, Discriminator(Unique(n), Physical(n)))

LEMMA NodeTypes ==
  ASSUME NEW n \in Nodes
  PROVE  n.path \in Seq(Byte) /\ Solid(Unique(n)) /\ Solid(Physical(n))
<1>1. /\ n.path \in Seq(Byte)
      /\ \A option \in {n.uniq, n.phys} :
           option = None \/ \E value \in option : value \in Seq(Byte) /\ option = Some(value)
  BY NodesAssumption
<1>2. Solid(NonEmpty(n.uniq))
  BY <1>1, TrimmedSolid
<1>3. Solid(NonEmpty(n.phys))
  BY <1>1, TrimmedSolid
<1> QED BY <1>1, <1>2, <1>3 DEF Unique, Physical

LEMMA DescriptorFields ==
  ASSUME NEW n
  PROVE  LET d == Descriptor(n)
         IN /\ d.identity.bus = n.bus /\ d.identity.vendor = n.vendor
            /\ d.identity.product = n.product
            /\ d.unique_id = Unique(n) /\ d.physical_path = Physical(n)
            /\ d.device_path = n.path
            /\ d.physical_id = Basis(n)
            /\ d.source_id = Basis(n) \o <<Colon, "source", Colon>> \o Escape(n.path)
            /\ d.identity_stability = CASE Unique(n) # None -> "Hardware"
                                        [] Unique(n) = None /\ Physical(n) # None -> "Topology"
                                        [] OTHER -> "ConnectionOnly"
  BY DEF Descriptor, PhysicalId, SourceId, Basis, From, Header, Unique, Physical

\* A source id, taken apart.
Rest(n) == <<"source", Colon>> \o Escape(n.path)

LEMMA SourceIdParts ==
  ASSUME NEW n \in Nodes
  PROVE  /\ Rest(n) \in Seq(Symbols)
         /\ Basis(n) \o <<Colon, "source", Colon>> \o Escape(n.path)
              = From(n, Ended(Discriminator(Unique(n), Physical(n)), Rest(n)))
<1> DEFINE h == Header(n)
           d == Discriminator(Unique(n), Physical(n))
           c == <<Colon>>
           s == <<"source", Colon>>
           e == Escape(n.path)
<1>1. h \in Seq(Symbols)
  BY HeaderShape
<1>2. c \in Seq(Symbols) /\ s \in Seq(Symbols) /\ e \in Seq(Symbols)
  BY SymbolSeqs, NodeTypes
<1>3. d \in Seq(Symbols)
  BY <1>2, NodeTypes, DiscriminatorEnds
<1>4. <<Colon, "source", Colon>> = c \o s
  <2> DEFINE t == <<Colon, "source", Colon>>
  <2>1. /\ Len(c) = 1 /\ c[1] = Colon /\ Len(s) = 2 /\ s[1] = "source" /\ s[2] = Colon
        /\ Len(t) = 3 /\ t[1] = Colon /\ t[2] = "source" /\ t[3] = Colon
    OBVIOUS
  <2>2. t \in Seq(Symbols)
    BY SymbolSeqs
  <2> HIDE DEF c, s, t
  <2>6. /\ c \o s \in Seq(Symbols) /\ Len(c \o s) = Len(c) + Len(s)
        /\ \A i \in 1..(Len(c) + Len(s)) :
             (c \o s)[i] = IF i <= Len(c) THEN c[i] ELSE s[i - Len(c)]
    BY <1>2, ConcatProperties
  <2>3. /\ c \o s \in Seq(Symbols) /\ Len(c \o s) = 3
        /\ \A i \in 1..3 : (c \o s)[i] = IF i <= 1 THEN c[i] ELSE s[i - 1]
    BY <2>1, <2>6
  <2>4. \A i \in 1..3 : (c \o s)[i] = t[i]
    <3>1. \A i \in 1..3 : i = 1 \/ i = 2 \/ i = 3
      OBVIOUS
    <3>2. (c \o s)[1] = c[1] /\ (c \o s)[2] = s[1] /\ (c \o s)[3] = s[2]
      BY <2>3
    <3> QED BY <2>1, <3>1, <3>2
  <2>5. c \o s = t
    BY <2>1, <2>2, <2>3, <2>4, SeqEqual
  <2> QED BY <2>5 DEF t
<1> HIDE DEF h, d, c, s, e
<1>5. ((h \o d) \o (c \o s)) \o e = h \o (d \o (c \o (s \o e)))
  <2>1. c \o s \in Seq(Symbols) /\ s \o e \in Seq(Symbols) /\ h \o d \in Seq(Symbols)
    BY <1>1, <1>2, <1>3, ConcatTyped
  <2>2. c \o (s \o e) \in Seq(Symbols)
    BY <1>2, <2>1, ConcatTyped
  <2>3. ((h \o d) \o (c \o s)) \o e = (h \o d) \o ((c \o s) \o e)
    <3> DEFINE a == h \o d
               b == c \o s
    <3>1. a \in Seq(Symbols) /\ b \in Seq(Symbols) /\ e \in Seq(Symbols)
      BY <1>2, <2>1
    <3> HIDE DEF a, b
    <3>2. (a \o b) \o e = a \o (b \o e)
      <4>1. Regroups(a, b, e)
        BY ONLY <3>1, Regrouped
      <4> QED BY ONLY <4>1 DEF Regroups
    <3> QED BY <3>2 DEF a, b
  <2>4. (c \o s) \o e = c \o (s \o e)
    BY <1>2, ConcatAssociative
  <2>5. (h \o d) \o (c \o (s \o e)) = h \o (d \o (c \o (s \o e)))
    <3> DEFINE a == c \o (s \o e)
    <3>1. a \in Seq(Symbols)
      BY <2>2
    <3> HIDE DEF a
    <3>2. (h \o d) \o a = h \o (d \o a)
      BY <1>1, <1>3, <3>1, ConcatAssociative
    <3> QED BY <3>2 DEF a
  <2> QED BY <2>3, <2>4, <2>5
<1>6. s \o e \in Seq(Symbols)
  BY <1>2, ConcatTyped
<1> QED BY <1>4, <1>5, <1>6 DEF Basis, From, Rest, Ended, h, d, c, s, e

\* The evidence a physical id follows.
SameEvidence(n, m) ==
  SameNumbers(n, m) /\ Clue(Unique(n), Physical(n)) = Clue(Unique(m), Physical(m))

LEMMA SameBasis ==
  ASSUME NEW n \in Nodes, NEW m \in Nodes, SameEvidence(n, m)
  PROVE  Basis(n) = Basis(m)
<1>1. Header(n) = Header(m)
  BY DEF SameEvidence, SameNumbers, Header
<1> DEFINE u == Unique(n)
           p == Physical(n)
           v == Unique(m)
           q == Physical(m)
<1>2. Solid(u) /\ Solid(p) /\ Solid(v) /\ Solid(q) /\ Clue(u, p) = Clue(v, q)
  BY NodeTypes DEF SameEvidence
<1> HIDE DEF u, p, v, q
<1>3. u = v /\ (u = None => p = q)
  BY <1>2 DEF Clue
<1>4. Discriminator(u, p) = Discriminator(v, q)
  <2>1. CASE u # None
    BY <1>2, <1>3, <2>1, DiscriminatorCases
  <2>2. CASE u = None
    BY <1>3, <2>2
  <2> QED BY <2>1, <2>2
<1> QED BY <1>1, <1>4 DEF Basis, From, u, p, v, q

\* Physical ids are equal exactly where the evidence is, source ids exactly where the
\* node is the same one too.
LEMMA IdsInjective ==
  ASSUME NEW n \in Nodes, NEW m \in Nodes
  PROVE  /\ Descriptor(n).physical_id = Descriptor(m).physical_id <=> SameEvidence(n, m)
         /\ Descriptor(n).source_id = Descriptor(m).source_id
              <=> SameEvidence(n, m) /\ n.path = m.path
<1> DEFINE u == Unique(n)
           p == Physical(n)
           v == Unique(m)
           q == Physical(m)
           dn == Discriminator(u, p)
           dm == Discriminator(v, q)
           x == Rest(n)
           y == Rest(m)
           z == <<>>
<1>1. /\ Solid(Unique(n)) /\ Solid(Physical(n)) /\ n.path \in Seq(Byte)
      /\ Solid(Unique(m)) /\ Solid(Physical(m)) /\ m.path \in Seq(Byte)
  BY NodeTypes
<1>2. /\ Descriptor(n).physical_id = From(n, dn)
      /\ Descriptor(m).physical_id = From(m, dm)
  BY DescriptorFields DEF Basis
<1>3. /\ Descriptor(n).source_id = From(n, Ended(dn, x))
      /\ Descriptor(m).source_id = From(m, Ended(dm, y))
  BY DescriptorFields, SourceIdParts
<1>4. /\ Rest(n) \in Seq(Symbols) /\ Rest(m) \in Seq(Symbols) /\ <<>> \in Seq(Symbols)
      /\ dn \in Seq(Symbols) /\ dm \in Seq(Symbols)
      /\ Ended(dn, Rest(n)) \in Seq(Symbols) /\ Ended(dm, Rest(m)) \in Seq(Symbols)
  <2>1. Rest(n) \in Seq(Symbols) /\ Rest(m) \in Seq(Symbols) /\ <<>> \in Seq(Symbols)
    BY SourceIdParts
  <2> QED BY <1>1, <2>1, DiscriminatorEnds
<1>8. /\ Solid(u) /\ Solid(p) /\ Solid(v) /\ Solid(q)
      /\ x \in Seq(Symbols) /\ y \in Seq(Symbols) /\ z \in Seq(Symbols)
      /\ Ended(dn, x) \in Seq(Symbols) /\ Ended(dm, y) \in Seq(Symbols)
  BY <1>1, <1>4
<1> HIDE DEF u, p, v, q, dn, dm, x, y, z
<1>5. ASSUME Descriptor(n).physical_id = Descriptor(m).physical_id PROVE SameEvidence(n, m)
  <2>1. From(n, dn) = From(m, dm)
    BY <1>2, <1>5
  <2>2. SameNumbers(n, m) /\ dn = dm
    BY <1>4, <2>1, HeaderInjective
  <2>3. Ended(Discriminator(u, p), z) = Ended(Discriminator(v, q), z)
    BY <2>2 DEF dn, dm
  <2>4. Clue(u, p) = Clue(v, q)
    BY <1>8, <2>3, DiscriminatorInjective
  <2> QED BY <2>2, <2>4 DEF SameEvidence, u, p, v, q
<1>6. ASSUME Descriptor(n).source_id = Descriptor(m).source_id
      PROVE  SameEvidence(n, m) /\ n.path = m.path
  <2>1. From(n, Ended(dn, x)) = From(m, Ended(dm, y))
    BY <1>3, <1>6
  <2>2. SameNumbers(n, m) /\ Ended(dn, x) = Ended(dm, y)
    BY <1>8, <2>1, HeaderInjective
  <2>5. Ended(Discriminator(u, p), x) = Ended(Discriminator(v, q), y)
    BY <2>2 DEF dn, dm
  <2>6. Clue(u, p) = Clue(v, q) /\ x = y
    BY <1>8, <2>5, DiscriminatorInjective
  <2>7. Clue(Unique(n), Physical(n)) = Clue(Unique(m), Physical(m)) /\ Rest(n) = Rest(m)
    BY <2>6 DEF u, p, v, q, x, y
  <2>3. Escape(n.path) = Escape(m.path)
    <3>1. Escape(n.path) \in Seq(Symbols) /\ Escape(m.path) \in Seq(Symbols)
          /\ <<"source", Colon>> \in Seq(Symbols)
      BY <1>1, SymbolSeqs
    <3> QED BY <2>7, <3>1, ConcatSimplifications DEF Rest
  <2>4. n.path = m.path
    BY <1>1, <2>3, EscapeInjective
  <2> QED BY <2>2, <2>7, <2>4 DEF SameEvidence
<1>7. ASSUME SameEvidence(n, m) PROVE Descriptor(n).physical_id = Descriptor(m).physical_id
  <2>1. Basis(n) = Basis(m)
    BY <1>7, SameBasis
  <2> QED BY <2>1, DescriptorFields
<1>9. ASSUME SameEvidence(n, m), n.path = m.path
      PROVE  Descriptor(n).source_id = Descriptor(m).source_id
  <2>1. Basis(n) = Basis(m) /\ Escape(n.path) = Escape(m.path)
    BY <1>9, SameBasis
  <2>2. /\ Descriptor(n).source_id = Basis(n) \o <<Colon, "source", Colon>> \o Escape(n.path)
        /\ Descriptor(m).source_id = Basis(m) \o <<Colon, "source", Colon>> \o Escape(m.path)
    BY DescriptorFields
  <2> QED BY <2>1, <2>2
<1> QED BY <1>5, <1>6, <1>7, <1>9

LEMMA EvidenceOfNode ==
  ASSUME NEW n
  PROVE  Evidence(Descriptor(n))
           = <<n.bus, n.vendor, n.product, Clue(Unique(n), Physical(n))>>
BY DescriptorFields DEF Evidence, Clue

LEMMA SameEvidenceOfNodes ==
  ASSUME NEW n, NEW m
  PROVE  Evidence(Descriptor(n)) = Evidence(Descriptor(m)) <=> SameEvidence(n, m)
<1> DEFINE c == Clue(Unique(n), Physical(n))
           k == Clue(Unique(m), Physical(m))
<1>1. /\ Evidence(Descriptor(n)) = <<n.bus, n.vendor, n.product, c>>
      /\ Evidence(Descriptor(m)) = <<m.bus, m.vendor, m.product, k>>
  BY EvidenceOfNode
<1>2. SameEvidence(n, m) <=> SameNumbers(n, m) /\ c = k
  BY DEF SameEvidence
<1> HIDE DEF c, k
<1> QED BY <1>1, <1>2 DEF SameNumbers

-----------------------------------------------------------------------------
(* Choosing positions of a sequence.                                       *)

\* What choosing the positions of S among the first n of q gives.
Right(c, n, q, S, C) ==
  /\ c \in Seq(C) /\ Len(c) = Cardinality(S \cap (1..n))
  /\ \A m \in S \cap (1..n) : /\ Cardinality(S \cap (1..m)) \in 1..Len(c)
                              /\ c[Cardinality(S \cap (1..m))] = q[m]

\* A sequence of which every element to be chosen is in C.
Offers(q, S, C) == Len(q) \in Nat /\ \A m \in S \cap (1..Len(q)) : q[m] \in C

Chooses(f, q, S) ==
  f = [n \in 0..Len(q) |->
         IF n = 0 THEN <<>>
         ELSE IF n \in S THEN Append(f[n - 1], q[n]) ELSE f[n - 1]]

LEMMA ChosenAlong ==
  ASSUME NEW C, NEW q, NEW S, Offers(q, S, C)
  PROVE  \E f : Chooses(f, q, S)
<1> DEFINE A == Seq(C)
           n == Len(q)
           step == [i \in 1..n |-> [s \in A |-> IF i \in S THEN Append(s, q[i]) ELSE s]]
<1>1. n \in Nat /\ <<>> \in A /\ \A i \in 1..n : i \in S => q[i] \in C
  BY DEF Offers
<1>2. StepsIn(step, n, A)
  <2>1. \A i \in 1..n : \A s \in A : (IF i \in S THEN Append(s, q[i]) ELSE s) \in A
    BY <1>1
  <2> HIDE DEF A
  <2> QED BY <2>1 DEF StepsIn
<1>3. \A i \in 1..n : \A s \in A : step[i][s] = IF i \in S THEN Append(s, q[i]) ELSE s
  <2> HIDE DEF A
  <2> QED OBVIOUS
<1> HIDE DEF A, step
<1>4. PICK f : Along(f, n, <<>>, step)
  BY <1>1, <1>2, AlongExists
<1>5. \A i \in 0..n : f[i] \in A
  <2>1. n \in 0..n
    BY <1>1
  <2> QED BY <1>1, <1>2, <1>4, <2>1, AlongUnique
<1>6. f = [i \in 0..n |-> f[i]]
  BY <1>4 DEF Along
<1>7. ASSUME NEW i \in 0..n
      PROVE  f[i] = IF i = 0 THEN <<>>
                    ELSE IF i \in S THEN Append(f[i - 1], q[i]) ELSE f[i - 1]
  <2>1. CASE i = 0
    BY <1>4, <2>1 DEF Along
  <2>2. CASE i # 0
    <3>1. i \in 1..n /\ i - 1 \in 0..n
      BY <2>2
    <3>2. f[i] = step[i][f[i - 1]]
      BY <1>4, <2>2 DEF Along
    <3> QED BY <1>3, <1>5, <2>2, <3>1, <3>2
  <2> QED BY <2>1, <2>2
<1>8. Chooses(f, q, S)
  BY <1>6, <1>7 DEF Chooses
<1> QED BY <1>8

\* One more position: it is the next rank when it is chosen.
LEMMA RankSteps ==
  ASSUME NEW S, NEW n \in Nat
  PROVE  /\ IsFiniteSet(S \cap (1..n)) /\ Cardinality(S \cap (1..n)) \in Nat
         /\ S \cap (1..0) = {} /\ Cardinality(S \cap (1..0)) = 0
         /\ n > 0 /\ n \in S =>
              Cardinality(S \cap (1..n)) = Cardinality(S \cap (1..(n - 1))) + 1
         /\ n > 0 /\ n \notin S => S \cap (1..n) = S \cap (1..(n - 1))
<1>1. ASSUME NEW k \in Nat
      PROVE  IsFiniteSet(S \cap (1..k)) /\ Cardinality(S \cap (1..k)) \in Nat
  <2>1. IsFiniteSet(1..k)
    BY FS_Interval
  <2> QED BY <2>1, FS_Subset, FS_CardinalityType
<1>2. S \cap (1..0) = {} /\ Cardinality(S \cap (1..0)) = 0
  BY FS_EmptySet
<1>3. ASSUME n > 0, n \in S
      PROVE  Cardinality(S \cap (1..n)) = Cardinality(S \cap (1..(n - 1))) + 1
  <2> DEFINE T == S \cap (1..(n - 1))
  <2>1. S \cap (1..n) = T \cup {n} /\ n \notin T
    BY <1>3
  <2>2. IsFiniteSet(T)
    BY <1>1, <1>3
  <2> HIDE DEF T
  <2>3. Cardinality(T \cup {n}) = Cardinality(T) + 1
    BY <2>1, <2>2, FS_AddElement
  <2> QED BY <2>1, <2>3 DEF T
<1>4. ASSUME n > 0, n \notin S PROVE S \cap (1..n) = S \cap (1..(n - 1))
  BY <1>4
<1> QED BY <1>1, <1>2, <1>3, <1>4

LEMMA ChosenStep ==
  ASSUME NEW C, NEW q, NEW S, Offers(q, S, C), NEW n \in 1..Len(q),
         NEW c, Right(c, n - 1, q, S, C)
  PROVE  Right(IF n \in S THEN Append(c, q[n]) ELSE c, n, q, S, C)
<1>1. n \in Nat /\ n - 1 \in Nat /\ n > 0 /\ (n \in S => q[n] \in C)
  BY DEF Offers
<1>2. c \in Seq(C) /\ Len(c) = Cardinality(S \cap (1..(n - 1))) /\ Len(c) \in Nat
  BY DEF Right
<1>3. \A m \in S \cap (1..(n - 1)) : /\ Cardinality(S \cap (1..m)) \in 1..Len(c)
                                     /\ c[Cardinality(S \cap (1..m))] = q[m]
  BY DEF Right
<1>4. CASE n \notin S
  <2>1. S \cap (1..n) = S \cap (1..(n - 1))
    BY <1>1, <1>4, RankSteps
  <2> QED BY <1>2, <1>3, <1>4, <2>1 DEF Right
<1>5. CASE n \in S
  <2> DEFINE d == Append(c, q[n])
  <2>1. Cardinality(S \cap (1..n)) = Len(c) + 1
    <3>1. Cardinality(S \cap (1..n)) = Cardinality(S \cap (1..(n - 1))) + 1
      BY <1>1, <1>5, RankSteps
    <3> QED BY <1>2, <3>1
  <2>2. /\ d \in Seq(C) /\ Len(d) = Len(c) + 1 /\ d[Len(c) + 1] = q[n]
        /\ \A k \in 1..Len(c) : d[k] = c[k]
    <3> DEFINE x == q[n]
    <3>1. x \in C
      BY <1>1, <1>5
    <3> HIDE DEF x
    <3>2. Longer(Append(c, x), c, x, C)
      BY ONLY <1>2, <3>1, Appended
    <3> QED BY <3>2 DEF Longer, x
  <2> HIDE DEF d
  <2>3. ASSUME NEW m \in S \cap (1..n)
        PROVE  /\ Cardinality(S \cap (1..m)) \in 1..Len(d)
               /\ d[Cardinality(S \cap (1..m))] = q[m]
    <3>1. CASE m = n
      BY <1>2, <2>1, <2>2, <3>1
    <3>2. CASE m # n
      <4>1. m \in S \cap (1..(n - 1))
        BY <3>2
      <4>2. /\ Cardinality(S \cap (1..m)) \in 1..Len(c)
            /\ c[Cardinality(S \cap (1..m))] = q[m]
        BY <1>3, <4>1
      <4> DEFINE k == Cardinality(S \cap (1..m))
      <4> HIDE DEF k
      <4>3. k \in 1..Len(c) /\ c[k] = q[m]
        BY <4>2 DEF k
      <4>4. k \in 1..Len(d) /\ d[k] = q[m]
        <5> DEFINE l == Len(c)
        <5>1. l \in Nat /\ k \in 1..l /\ Len(d) = l + 1 /\ c[k] = q[m] /\ d[k] = c[k]
          BY ONLY <1>2, <2>2, <4>3
        <5> HIDE DEF l
        <5> QED BY ONLY <5>1
      <4> QED BY <4>4 DEF k
    <3> QED BY <3>1, <3>2
  <2>4. Right(d, n, q, S, C)
    BY <2>1, <2>2, <2>3 DEF Right
  <2> QED BY <1>5, <2>4 DEF d
<1> QED BY <1>4, <1>5

\* The chosen elements are those at the chosen positions, each at its rank.
LEMMA ChosenRight ==
  ASSUME NEW C, NEW q, NEW S, Offers(q, S, C)
  PROVE  Right(Chosen(q, S), Len(q), q, S, C)
<1> DEFINE n == Len(q)
           f == CHOOSE g : Chooses(g, q, S)
<1>1. n \in Nat
  BY DEF Offers
<1>2. Chosen(q, S) = f[n]
  BY DEF Chosen, Chooses
<1>3. Chooses(f, q, S)
  BY ChosenAlong
<1> HIDE DEF f
<1> DEFINE T == {i \in 0..n : Right(f[i], i, q, S, C)}
<1>4. 0 \in T
  <2>1. f[0] = <<>> /\ 0 \in 0..n
    BY <1>1, <1>3 DEF Chooses
  <2>2. S \cap (1..0) = {} /\ Cardinality(S \cap (1..0)) = 0
    BY RankSteps
  <2>3. Right(<<>>, 0, q, S, C)
    BY <2>2 DEF Right
  <2> QED BY <2>1, <2>3
<1>5. ASSUME NEW i \in 1..n, i - 1 \in T PROVE i \in T
  <2>1. i \in 0..n /\ i # 0
    OBVIOUS
  <2>2. f[i] = IF i \in S THEN Append(f[i - 1], q[i]) ELSE f[i - 1]
    BY <1>3, <2>1 DEF Chooses
  <2>3. Right(f[i - 1], i - 1, q, S, C)
    BY <1>5
  <2>4. Right(f[i], i, q, S, C)
    BY <2>2, <2>3, ChosenStep
  <2> QED BY <2>1, <2>4
<1> HIDE DEF T
<1>6. n \in T
  <2>1. \A i \in 0..n : i \in T
    BY <1>1, <1>4, <1>5, BoundedInduction
  <2> QED BY <1>1, <2>1
<1> QED BY <1>2, <1>6 DEF T

-----------------------------------------------------------------------------
(* Sequences of whatever they hold.                                        *)

LEMMA InSeq ==
  ASSUME NEW C, NEW q \in Seq(C)
  PROVE  IsSequence(q) /\ DOMAIN q = 1..Len(q) /\ Len(q) \in Nat
<1> DEFINE n == Len(q)
           R == Range(q)
<1>1. n \in Nat /\ DOMAIN q = 1..n /\ q \in [1..n -> C]
  OBVIOUS
<1>2. \A i \in 1..n : q[i] \in R
  BY <1>1 DEF Range
<1>3. q \in [1..n -> R]
  <2> HIDE DEF n, R
  <2> QED BY <1>1, <1>2
<1>4. q \in Seq(R)
  <2> HIDE DEF n, R
  <2> QED BY <1>1, <1>3
<1> QED BY <1>1, <1>4 DEF IsSequence

\* A function on the first numbers is a sequence.
LEMMA FunctionIsSequence ==
  ASSUME NEW n \in Nat, NEW f, f = [i \in 1..n |-> f[i]]
  PROVE  IsSequence(f) /\ Len(f) = n /\ DOMAIN f = 1..n
<1> DEFINE C == {f[i] : i \in 1..n}
<1>1. \A i \in 1..n : f[i] \in C
  OBVIOUS
<1> HIDE DEF C
<1>2. f \in [1..n -> C]
  BY <1>1
<1>3. f \in Seq(C) /\ DOMAIN f = 1..n
  BY <1>2
<1>4. Len(f) = n
  BY <1>2, <1>3
<1> QED BY <1>3, <1>4, InSeq

LEMMA AppendIsSequence ==
  ASSUME NEW q, IsSequence(q), NEW x
  PROVE  IsSequence(Append(q, x))
<1> DEFINE C == Range(q) \cup {x}
<1>1. q \in Seq(C)
  <2>1. q \in Seq(Range(q))
    BY DEF IsSequence
  <2> QED BY <2>1, SeqMonotonic
<1>2. x \in C
  OBVIOUS
<1> HIDE DEF C
<1>3. Append(q, x) \in Seq(C)
  BY <1>1, <1>2, AppendProperties
<1> QED BY <1>3, InSeq

LEMMA ConcatIsSequence ==
  ASSUME NEW q, IsSequence(q), NEW r, IsSequence(r)
  PROVE  IsSequence(q \o r)
<1> DEFINE C == Range(q) \cup Range(r)
<1>1. q \in Seq(C) /\ r \in Seq(C)
  <2>1. q \in Seq(Range(q)) /\ r \in Seq(Range(r))
    BY DEF IsSequence
  <2> QED BY <2>1, SeqMonotonic
<1> HIDE DEF C
<1>2. q \o r \in Seq(C)
  BY <1>1, ConcatProperties
<1> QED BY <1>2, InSeq

LEMMA FlattenIsSequence ==
  ASSUME NEW parts, IsSequence(parts), \A i \in DOMAIN parts : IsSequence(parts[i])
  PROVE  /\ IsSequence(FlattenSeq(parts))
         /\ \E at : Laid(parts, FlattenSeq(parts), at)
<1> DEFINE C == UNION {Range(parts[i]) : i \in DOMAIN parts}
           n == Len(parts)
<1>1. parts \in Seq(Range(parts)) /\ n \in Nat /\ DOMAIN parts = 1..n
      /\ parts = [i \in 1..n |-> parts[i]]
  BY DEF IsSequence
<1>2. \A i \in 1..n : parts[i] \in Seq(C)
  <2> TAKE i \in 1..n
  <2>1. parts[i] \in Seq(Range(parts[i]))
    BY <1>1 DEF IsSequence
  <2>2. Range(parts[i]) \subseteq C
    BY <1>1
  <2> QED BY <2>1, <2>2, SeqMonotonic
<1>3. parts \in Seq(Seq(C))
  <2> DEFINE A == Seq(C)
  <2>1. \A i \in 1..n : parts[i] \in A
    BY <1>2
  <2> HIDE DEF A, n
  <2>2. parts \in [1..n -> A]
    BY <1>1, <2>1
  <2>3. parts \in Seq(A)
    BY <1>1, <2>2
  <2> QED BY <2>3 DEF A
<1> HIDE DEF C
<1>4. FlattenSeq(parts) \in Seq(C) /\ \E at : Laid(parts, FlattenSeq(parts), at)
  BY <1>3, FlattenLaid
<1> QED BY <1>4, InSeq

LEMMA ChosenIsSequence ==
  ASSUME NEW q, IsSequence(q), NEW S
  PROVE  /\ IsSequence(Chosen(q, S)) /\ Right(Chosen(q, S), Len(q), q, S, Range(q))
         /\ \A C : (\A m \in S \cap (1..Len(q)) : q[m] \in C) => Chosen(q, S) \in Seq(C)
<1>1. Len(q) \in Nat /\ \A m \in 1..Len(q) : q[m] \in Range(q)
  <2>1. q \in Seq(Range(q))
    BY DEF IsSequence
  <2> QED BY <2>1
<1>2. Right(Chosen(q, S), Len(q), q, S, Range(q))
  <2>1. Offers(q, S, Range(q))
    BY <1>1 DEF Offers
  <2> QED BY <2>1, ChosenRight
<1>3. Chosen(q, S) \in Seq(Range(q))
  BY <1>2 DEF Right
<1>4. ASSUME NEW C, \A m \in S \cap (1..Len(q)) : q[m] \in C
      PROVE  Chosen(q, S) \in Seq(C)
  <2>1. Offers(q, S, C)
    BY <1>1, <1>4 DEF Offers
  <2>2. Right(Chosen(q, S), Len(q), q, S, C)
    BY <2>1, ChosenRight
  <2> QED BY <2>2 DEF Right
<1> QED BY <1>2, <1>3, <1>4, InSeq

LEMMA SetToSeqLists ==
  ASSUME NEW S, IsFiniteSet(S)
  PROVE  LET q == SetToSeq(S)
         IN /\ DOMAIN q = 1..Cardinality(S) /\ Cardinality(S) \in Nat
            /\ \A i \in DOMAIN q : q[i] \in S
            /\ \A i, j \in DOMAIN q : q[i] = q[j] => i = j
            /\ \A x \in S : \E i \in DOMAIN q : q[i] = x
<1> DEFINE n == Cardinality(S)
           q == SetToSeq(S)
<1>1. n \in Nat /\ ExistsBijection(1..n, S)
  BY FS_CardinalityType
<1>2. PICK f : f \in Bijection(1..n, S)
  BY <1>1 DEF ExistsBijection
<1>3. f \in [1..n -> S] /\ IsInjective(f)
  BY <1>2 DEF Bijection, Injection, IsInjective
<1>4. q = CHOOSE g \in [1..n -> S] : IsInjective(g)
  BY DEF SetToSeq
<1>5. q \in [1..n -> S] /\ IsInjective(q)
  BY <1>3, <1>4
<1> HIDE DEF q
<1>6. q \in Injection(1..n, S)
  BY <1>5 DEF Injection, IsInjective
<1>7. Cardinality(1..n) = n
  BY <1>1, FS_Interval
<1>8. q \in Surjection(1..n, S)
  BY <1>6, <1>7, FS_Injection
<1>9. \A i, j \in DOMAIN q : q[i] = q[j] => i = j
  BY <1>5 DEF IsInjective
<1>10. \A x \in S : \E i \in DOMAIN q : q[i] = x
  BY <1>5, <1>8 DEF Surjection
<1> QED BY <1>1, <1>5, <1>9, <1>10 DEF q

-----------------------------------------------------------------------------
(* The session and the recorder.                                           *)

\* The plans of a source, and what their reads may answer.
Owned(plans, id) == {p \in Range(plans) : p.source = id}
Played(plans, id) == UNION {Range(p.reads) : p \in Owned(plans, id)}
Opened(open, plans) ==
  /\ IsFiniteSet(DOMAIN open)
  /\ \A id \in DOMAIN open : /\ {"descriptor", "reads"} \subseteq DOMAIN open[id]
                             /\ open[id].descriptor \in Described(Nodes)
                             /\ open[id].reads \in Seq(Played(plans, id))
Planned(left, plans) == \A id \in DOMAIN left : left[id] \in Seq(Owned(plans, id))
Logged(calls) == IsSequence(calls) /\ \A n \in DOMAIN calls : IsSequence(calls[n].events)
Listing(listed) ==
  /\ listed \in Seq(Described(Nodes))
  /\ \A i, j \in DOMAIN listed : listed[i].device_path = listed[j].device_path => i = j

\* The session's part: what is open or still to come is as the script has it.
ReplayInv ==
  /\ script \in Scripts /\ scans \in Seq(Range(script.scans))
  /\ Planned(sources, script.plans) /\ Opened(active, script.plans)
  /\ Logged(log)

\* The recorder's part: a bundle is made from the snapshot and the log that stay.
BundleInv ==
  /\ Listing(devices)
  /\ program = "start" => devices = <<>> /\ log = <<>>
  /\ recording # None => program = "done"
  /\ \A bundle \in recording : \E synthetic \in BOOLEAN :
       bundle = SanitizedCapture(devices, log, synthetic)

LabInv == ReplayInv /\ BundleInv

\* A script, from the assumptions.
LEMMA ScriptShape ==
  ASSUME NEW s \in Scripts
  PROVE  /\ s.scans \in Seq(Range(s.scans)) /\ IsSequence(s.plans)
         /\ \A scan \in Range(s.scans) : \A snapshot \in scan :
              Listing(snapshot.devices) /\ IsSequence(snapshot.issues)
<1>1. s.scans \in Seq(Range(s.scans)) /\ IsSequence(s.plans)
  BY ScriptsAssumption DEF IsSequence
<1>2. \A scan \in Range(s.scans) : \A snapshot \in scan :
        Listing(snapshot.devices) /\ IsSequence(snapshot.issues)
  BY ScriptsAssumption DEF Listing
<1> QED BY <1>1, <1>2

PlansShape(plans) ==
  \A id : /\ \A p \in Owned(plans, id) : p.reads \in Seq(Played(plans, id))
          /\ \A read \in Played(plans, id) : \A batches \in read :
               IsSequence(batches) /\ \A i \in DOMAIN batches : batches[i].source_id = id

LEMMA ScriptPlans ==
  ASSUME NEW s \in Scripts
  PROVE  PlansShape(s.plans)
<1>1. \A p \in Range(s.plans) :
        /\ IsSequence(p.reads)
        /\ \A read \in Range(p.reads) : \A batches \in read : IsSequence(batches)
  BY ScriptsAssumption
<1>2. ASSUME NEW id, NEW p \in Owned(s.plans, id) PROVE p.reads \in Seq(Played(s.plans, id))
  <2>1. p \in Range(s.plans)
    BY DEF Owned
  <2>2. p.reads \in Seq(Range(p.reads))
    BY <1>1, <2>1 DEF IsSequence
  <2>3. Range(p.reads) \subseteq Played(s.plans, id)
    BY DEF Played
  <2> QED BY <2>2, <2>3, SeqMonotonic
<1>3. ASSUME NEW id, NEW read \in Played(s.plans, id), NEW batches \in read
      PROVE  IsSequence(batches) /\ \A i \in DOMAIN batches : batches[i].source_id = id
  <2>1. PICK p \in Range(s.plans) : p.source = id /\ read \in Range(p.reads)
    BY DEF Played, Owned
  <2>2. \A i \in DOMAIN batches : batches[i].source_id = p.source
    BY <2>1, BatchesAssumption
  <2> QED BY <1>1, <2>1, <2>2
<1> QED BY <1>2, <1>3 DEF PlansShape

Admits(f, m, kept, queue) ==
  f = [i \in 0..m |-> IF i = 0 THEN kept ELSE Admit(f[i - 1], queue[i])]

\* The devices of a snapshot are admitted one after the other.
LEMMA AdmitsExists ==
  ASSUME NEW kept, NEW queue, NEW m \in Nat
  PROVE  \E f : Admits(f, m, kept, queue)
<1> DEFINE S == {n \in 0..m : \E f : Admits(f, n, kept, queue)}
<1>1. 0 \in S
  <2> DEFINE f == [i \in 0..0 |-> kept]
  <2>1. f = [i \in 0..0 |-> IF i = 0 THEN kept ELSE Admit(f[i - 1], queue[i])]
    OBVIOUS
  <2>2. Admits(f, 0, kept, queue)
    BY <2>1 DEF Admits
  <2> QED BY <2>2
<1>2. ASSUME NEW n \in 1..m, n - 1 \in S PROVE n \in S
  <2>1. PICK f : Admits(f, n - 1, kept, queue)
    BY <1>2
  <2> DEFINE g == [i \in 0..n |-> IF i = n THEN Admit(f[n - 1], queue[n]) ELSE f[i]]
  <2>2. ASSUME NEW i \in 0..n
        PROVE  g[i] = IF i = 0 THEN kept ELSE Admit(g[i - 1], queue[i])
    <3>1. CASE i = 0
      BY <2>1, <3>1 DEF Admits
    <3>2. CASE i = n
      BY <3>2
    <3>3. CASE i # 0 /\ i # n
      <4>1. i \in 0..(n - 1) /\ i - 1 \in 0..n /\ i - 1 # n
        BY <3>3
      <4>2. g[i] = f[i] /\ g[i - 1] = f[i - 1]
        BY <3>3, <4>1
      <4>3. f[i] = Admit(f[i - 1], queue[i])
        BY <2>1, <3>3, <4>1 DEF Admits
      <4> QED BY <3>3, <4>2, <4>3
    <3> QED BY <3>1, <3>2, <3>3
  <2>3. g = [i \in 0..n |-> IF i = 0 THEN kept ELSE Admit(g[i - 1], queue[i])]
    <3>1. g = [i \in 0..n |-> g[i]]
      OBVIOUS
    <3> HIDE DEF g
    <3> QED BY <2>2, <3>1
  <2>4. Admits(g, n, kept, queue)
    BY <2>3 DEF Admits
  <2> QED BY <2>4
<1> HIDE DEF S
<1>3. \A n \in 0..m : n \in S
  BY <1>1, <1>2, BoundedInduction
<1> QED BY <1>3 DEF S

Holding(state, plans) ==
  /\ {"active", "sources", "output"} \subseteq DOMAIN state
  /\ Opened(state.active, plans) /\ Planned(state.sources, plans)
  /\ IsSequence(state.output)

LEMMA AdmitHolds ==
  ASSUME NEW plans, PlansShape(plans),
         NEW state, Holding(state, plans), NEW device \in Described(Nodes)
  PROVE  Holding(Admit(state, device), plans)
<1> DEFINE id == device.source_id
           own == IF id \in DOMAIN state.sources THEN state.sources[id] ELSE <<>>
           new == [descriptor |-> device, reads |-> NextPlan(own).reads]
           open == [i \in {id} \cup DOMAIN state.active |->
                      IF i = id THEN new ELSE state.active[i]]
           failed == Append(state.output, SourceError(id, "Open"))
           left == [state.sources EXCEPT ![id] = Tail(@)]
           told == Append(state.output, Connected(id, NextPlan(own).access))
<1>1. Admit(state, device) =
        IF id \in DOMAIN state.active THEN state
        ELSE IF own = <<>> THEN [state EXCEPT !.output = failed]
        ELSE [active |-> open, sources |-> left, output |-> told]
  BY DEF Admit
<1>2. IsSequence(failed) /\ IsSequence(told)
  BY AppendIsSequence DEF Holding
<1>3. ASSUME own # <<>> PROVE Opened(open, plans) /\ Planned(left, plans)
  <2>1. id \in DOMAIN state.sources /\ own = state.sources[id] /\ own \in Seq(Owned(plans, id))
    BY <1>3 DEF Holding, Planned
  <2>2. Head(own) \in Owned(plans, id) /\ Tail(own) \in Seq(Owned(plans, id))
    <3> DEFINE R == Owned(plans, id)
    <3>1. own \in Seq(R) /\ own # <<>>
      BY <1>3, <2>1
    <3> HIDE DEF own, R
    <3>2. Head(own) \in R /\ Tail(own) \in Seq(R)
      BY <3>1
    <3> QED BY <3>2 DEF R
  <2>3. {"descriptor", "reads"} \subseteq DOMAIN new /\ new.descriptor = device
        /\ new.reads \in Seq(Played(plans, id))
    BY <2>2 DEF NextPlan, PlansShape
  <2> HIDE DEF new
  <2>4. IsFiniteSet({id} \cup DOMAIN state.active)
    <3> DEFINE D == DOMAIN state.active
    <3>1. IsFiniteSet(D)
      BY DEF Holding, Opened
    <3> HIDE DEF D
    <3>2. IsFiniteSet(D \cup {id})
      BY <3>1, FS_AddElement
    <3>3. {id} \cup D = D \cup {id}
      OBVIOUS
    <3> QED BY <3>2, <3>3 DEF D
  <2>5. Opened(open, plans)
    BY <2>3, <2>4 DEF Holding, Opened
  <2>6. Planned(left, plans)
    <3>1. \A i \in DOMAIN left : left[i] = IF i = id THEN Tail(own) ELSE state.sources[i]
      BY <2>1
    <3> HIDE DEF own, id
    <3> QED BY <2>2, <3>1 DEF Holding, Planned
  <2> QED BY <2>5, <2>6
<1> HIDE DEF id, own, new, open, failed, left, told
<1>4. CASE id \in DOMAIN state.active
  BY <1>1, <1>4
<1>5. CASE id \notin DOMAIN state.active /\ own = <<>>
  <2> DEFINE s == [state EXCEPT !.output = failed]
  <2>1. /\ {"active", "sources", "output"} \subseteq DOMAIN s
        /\ s.active = state.active /\ s.sources = state.sources /\ s.output = failed
    BY DEF Holding
  <2>2. Admit(state, device) = s
    BY <1>1, <1>5
  <2> QED BY <1>2, <2>1, <2>2 DEF Holding
<1>6. CASE id \notin DOMAIN state.active /\ own # <<>>
  <2> DEFINE s == [active |-> open, sources |-> left, output |-> told]
  <2>1. /\ {"active", "sources", "output"} \subseteq DOMAIN s
        /\ s.active = open /\ s.sources = left /\ s.output = told
    OBVIOUS
  <2>2. Admit(state, device) = s
    BY <1>1, <1>6
  <2> QED BY <1>2, <1>3, <1>6, <2>1, <2>2 DEF Holding
<1> QED BY <1>4, <1>5, <1>6

\* Two sequences joined: each element is one of theirs.
Join(c, a, b) ==
  /\ IsSequence(c) /\ Len(c) = Len(a) + Len(b) /\ Len(a) \in Nat /\ Len(b) \in Nat
  /\ DOMAIN a = 1..Len(a) /\ DOMAIN b = 1..Len(b) /\ DOMAIN c = 1..(Len(a) + Len(b))
  /\ \A i \in 1..Len(a) : c[i] = a[i]
  /\ \A i \in 1..Len(b) : c[Len(a) + i] = b[i]
  /\ \A p \in 1..(Len(a) + Len(b)) : p \in 1..Len(a) \/ \E i \in 1..Len(b) : p = Len(a) + i

LEMMA Joined ==
  ASSUME NEW a, IsSequence(a), NEW b, IsSequence(b)
  PROVE  Join(a \o b, a, b)
<1> DEFINE C == Range(a) \cup Range(b)
<1>1. a \in Seq(C) /\ b \in Seq(C)
  <2>1. a \in Seq(Range(a)) /\ b \in Seq(Range(b))
    BY DEF IsSequence
  <2> QED BY <2>1, SeqMonotonic
<1> HIDE DEF C
<1>2. /\ a \o b \in Seq(C) /\ Len(a \o b) = Len(a) + Len(b)
      /\ Len(a) \in Nat /\ Len(b) \in Nat
  BY <1>1, ConcatProperties
<1>3. \A p \in 1..(Len(a) + Len(b)) :
        (a \o b)[p] = IF p <= Len(a) THEN a[p] ELSE b[p - Len(a)]
  BY <1>1, ConcatProperties
<1>4. /\ DOMAIN a = 1..Len(a) /\ DOMAIN b = 1..Len(b) /\ DOMAIN (a \o b) = 1..Len(a \o b)
      /\ IsSequence(a \o b)
  BY <1>1, <1>2, InSeq
<1> DEFINE c == a \o b
           l == Len(a)
           m == Len(b)
<1>5. /\ l \in Nat /\ m \in Nat
      /\ \A p \in 1..(l + m) : c[p] = IF p <= l THEN a[p] ELSE b[p - l]
  BY <1>2, <1>3
<1> HIDE DEF c, l, m
<1>6. \A i \in 1..l : c[i] = a[i]
  BY <1>5
<1>7. ASSUME NEW i \in 1..m PROVE c[l + i] = b[i]
  <2>1. l + i \in 1..(l + m) /\ ~(l + i <= l) /\ (l + i) - l = i
    BY <1>5
  <2> DEFINE p == l + i
  <2>2. p \in 1..(l + m) /\ ~(p <= l) /\ p - l = i
    BY <2>1
  <2> HIDE DEF p
  <2>3. c[p] = b[p - l]
    BY <1>5, <2>2
  <2>4. c[p] = b[i]
    BY <2>2, <2>3
  <2> QED BY <2>4 DEF p
<1>8. ASSUME NEW p \in 1..(l + m) PROVE p \in 1..l \/ \E i \in 1..m : p = l + i
  <2>1. CASE p <= l
    BY <1>5, <2>1
  <2>2. CASE ~(p <= l)
    <3>1. p - l \in 1..m /\ p = l + (p - l)
      BY <1>5, <2>2
    <3> QED BY <3>1
  <2> QED BY <2>1, <2>2
<1>9. /\ DOMAIN a = 1..l /\ DOMAIN b = 1..m /\ DOMAIN c = 1..(l + m)
      /\ IsSequence(c) /\ Len(c) = l + m
  BY <1>2, <1>4 DEF c, l, m
<1>10. Join(c, a, b)
  BY <1>5, <1>6, <1>7, <1>8, <1>9 DEF Join, l, m
<1> QED BY <1>10 DEF c

Says(events, id, kind) == \E e \in Range(events) : e.source = id /\ e.kind = kind
OwnAt(events, id) == {i \in DOMAIN events : events[i].source = id
                                            /\ events[i].kind \in {"Input", "SourceError"}}
OwnOf(events, id) == Chosen(events, OwnAt(events, id))

LEMMA SaysMore ==
  ASSUME NEW events, IsSequence(events), NEW e, NEW id, NEW kind
  PROVE  Says(Append(events, e), id, kind) <=>
           Says(events, id, kind) \/ (e.source = id /\ e.kind = kind)
<1> DEFINE C == Range(events) \cup {e}
           d == Append(events, e)
           n == Len(events)
<1>1. events \in Seq(C) /\ e \in C
  <2>1. events \in Seq(Range(events))
    BY DEF IsSequence
  <2> QED BY <2>1, SeqMonotonic
<1> HIDE DEF C
<1>2. Longer(d, events, e, C)
  BY <1>1, Appended
<1>3. DOMAIN events = 1..n /\ n \in Nat /\ DOMAIN d = 1..Len(d)
  BY <1>1, <1>2, InSeq DEF Longer
<1> HIDE DEF d
<1>4. DOMAIN d = 1..(n + 1) /\ d[n + 1] = e /\ \A k \in 1..n : d[k] = events[k]
  BY <1>2, <1>3 DEF Longer
<1> HIDE DEF n
<1> DEFINE Is(x) == x.source = id /\ x.kind = kind
<1>5. (\E k \in DOMAIN d : Is(d[k])) <=> (\E k \in DOMAIN events : Is(events[k])) \/ Is(e)
  <2> HIDE DEF Is
  <2>1. n + 1 \in DOMAIN d /\ \A k \in 1..n : k \in DOMAIN d
    BY <1>3, <1>4
  <2>2. \A k \in DOMAIN d : k = n + 1 \/ k \in 1..n
    BY <1>3, <1>4
  <2>3. ASSUME NEW k \in DOMAIN d, Is(d[k]) PROVE (\E h \in DOMAIN events : Is(events[h])) \/ Is(e)
    BY <1>3, <1>4, <2>2, <2>3
  <2>4. ASSUME NEW k \in DOMAIN events, Is(events[k]) PROVE \E h \in DOMAIN d : Is(d[h])
    BY <1>3, <1>4, <2>1, <2>4
  <2>5. Is(e) => \E h \in DOMAIN d : Is(d[h])
    BY <1>4, <2>1
  <2> QED BY <2>3, <2>4, <2>5
<1>6. Says(d, id, kind) <=> \E k \in DOMAIN d : Is(d[k])
  BY DEF Says, Range
<1>7. Says(events, id, kind) <=> \E k \in DOMAIN events : Is(events[k])
  BY DEF Says, Range
<1> QED BY <1>5, <1>6, <1>7 DEF d

\* What reconciling makes of a source: it stays as it was, or is disconnected, or is
\* connected with its next plan; one that could not be opened has no plan left.
LeftOf(left, id) == IF id \in DOMAIN left THEN left[id] ELSE <<>>
Heard(events, id) == Says(events, id, "Input") \/ Says(events, id, "SourceError")
Fate(id, state, open, left) ==
  /\ Heard(state.output, id) => id \notin DOMAIN state.active /\ LeftOf(state.sources, id) = <<>>
  /\ Says(state.output, id, "Connected") =>
       /\ id \in DOMAIN open => Says(state.output, id, "Disconnected")
       /\ left # <<>> /\ LeftOf(state.sources, id) = Tail(left)
       /\ id \in DOMAIN state.active /\ state.active[id].reads = Head(left).reads
  /\ ~Says(state.output, id, "Connected") =>
       /\ LeftOf(state.sources, id) = left
       /\ id \in DOMAIN open =>
            \/ Says(state.output, id, "Disconnected")
            \/ id \in DOMAIN state.active /\ state.active[id].reads = open[id].reads

LEMMA AdmitFate ==
  ASSUME NEW plans, NEW state, Holding(state, plans), NEW device,
         NEW id, NEW open, NEW left, Fate(id, state, open, left)
  PROVE  Fate(id, Admit(state, device), open, left)
<1> DEFINE x == device.source_id
           own == IF x \in DOMAIN state.sources THEN state.sources[x] ELSE <<>>
           new == [descriptor |-> device, reads |-> NextPlan(own).reads]
           opened == [i \in {x} \cup DOMAIN state.active |->
                        IF i = x THEN new ELSE state.active[i]]
           failed == Append(state.output, SourceError(x, "Open"))
           rest == [state.sources EXCEPT ![x] = Tail(@)]
           told == Append(state.output, Connected(x, NextPlan(own).access))
           after == Admit(state, device)
<1>1. Admit(state, device) =
        IF x \in DOMAIN state.active THEN state
        ELSE IF own = <<>> THEN [state EXCEPT !.output = failed]
        ELSE [active |-> opened, sources |-> rest, output |-> told]
  BY DEF Admit
<1>2. {"active", "sources", "output"} \subseteq DOMAIN state /\ IsSequence(state.output)
  BY DEF Holding
<1>3. \A kind : /\ Says(failed, id, kind) <=>
                     Says(state.output, id, kind) \/ (x = id /\ kind = "SourceError")
                /\ Says(told, id, kind) <=>
                     Says(state.output, id, kind) \/ (x = id /\ kind = "Connected")
  <2> TAKE kind
  <2>1. SourceError(x, "Open").source = x /\ SourceError(x, "Open").kind = "SourceError"
    BY DEF SourceError
  <2>2. \A access : Connected(x, access).source = x /\ Connected(x, access).kind = "Connected"
    BY DEF Connected
  <2> DEFINE e == SourceError(x, "Open")
             c == Connected(x, NextPlan(own).access)
  <2>3. e.source = x /\ e.kind = "SourceError" /\ c.source = x /\ c.kind = "Connected"
    BY <2>1, <2>2
  <2> HIDE DEF e, c
  <2>4. Says(Append(state.output, e), id, kind) <=>
          Says(state.output, id, kind) \/ (e.source = id /\ e.kind = kind)
    BY <1>2, SaysMore
  <2>5. Says(Append(state.output, c), id, kind) <=>
          Says(state.output, id, kind) \/ (c.source = id /\ c.kind = kind)
    BY <1>2, SaysMore
  <2>6. failed = Append(state.output, e) /\ told = Append(state.output, c)
    BY DEF e, c
  <2> QED BY <2>3, <2>4, <2>5, <2>6
<1>4. own = LeftOf(state.sources, x)
  BY DEF LeftOf
<1>5. /\ DOMAIN opened = {x} \cup DOMAIN state.active
      /\ opened[x].reads = Head(own).reads
      /\ \A i \in DOMAIN state.active : i # x => opened[i] = state.active[i]
  BY DEF NextPlan
<1>6. own # <<>> => /\ LeftOf(rest, x) = Tail(own)
                    /\ \A i : i # x => LeftOf(rest, i) = LeftOf(state.sources, i)
  BY DEF LeftOf
<1> HIDE DEF x, own, new, opened, failed, rest, told
<1>7. CASE x \in DOMAIN state.active
  BY <1>1, <1>7
<1>8. CASE x \notin DOMAIN state.active /\ own = <<>>
  <2>1. /\ after.active = state.active /\ after.sources = state.sources /\ after.output = failed
    BY <1>1, <1>2, <1>8
  <2> HIDE DEF after
  <2>2. CASE x # id
    <3>1. \A kind : Says(after.output, id, kind) <=> Says(state.output, id, kind)
      BY <1>3, <2>1, <2>2
    <3> QED BY <2>1, <3>1 DEF Fate, Heard, after
  <2>3. CASE x = id
    <3>1. /\ Says(after.output, id, "Connected") <=> Says(state.output, id, "Connected")
          /\ Says(after.output, id, "Disconnected") <=> Says(state.output, id, "Disconnected")
      BY <1>3, <2>1
    <3>2. id \notin DOMAIN after.active /\ LeftOf(after.sources, id) = <<>>
      BY <1>4, <1>8, <2>1, <2>3
    <3> QED BY <2>1, <3>1, <3>2 DEF Fate, after
  <2> QED BY <2>2, <2>3
<1>9. CASE x \notin DOMAIN state.active /\ own # <<>>
  <2>1. /\ after.active = opened /\ after.sources = rest /\ after.output = told
    BY <1>1, <1>9
  <2> HIDE DEF after
  <2>2. CASE x # id
    <3>1. \A kind : Says(after.output, id, kind) <=> Says(state.output, id, kind)
      BY <1>3, <2>1, <2>2
    <3>2. LeftOf(after.sources, id) = LeftOf(state.sources, id)
      BY <1>6, <1>9, <2>1, <2>2
    <3>3. /\ id \in DOMAIN after.active <=> id \in DOMAIN state.active
          /\ id \in DOMAIN state.active => after.active[id] = state.active[id]
      BY <1>5, <2>1, <2>2
    <3> QED BY <3>1, <3>2, <3>3 DEF Fate, Heard, after
  <2>3. CASE x = id
    <3>1. ~Says(state.output, id, "Connected") /\ ~Heard(state.output, id)
      BY <1>4, <1>9, <2>3 DEF Fate
    <3>2. /\ LeftOf(state.sources, id) = left
          /\ id \in DOMAIN open => Says(state.output, id, "Disconnected")
      BY <1>9, <2>3, <3>1 DEF Fate
    <3>3. /\ Says(after.output, id, "Connected")
          /\ Says(after.output, id, "Disconnected") <=> Says(state.output, id, "Disconnected")
          /\ ~Heard(after.output, id)
      BY <1>3, <2>1, <2>3, <3>1 DEF Heard
    <3>4. own = left /\ LeftOf(after.sources, id) = Tail(left)
      BY <1>4, <1>6, <1>9, <2>1, <2>3, <3>2
    <3>5. id \in DOMAIN after.active /\ after.active[id].reads = Head(left).reads
      BY <1>5, <2>1, <2>3, <3>4
    <3> QED BY <1>9, <3>2, <3>3, <3>4, <3>5 DEF Fate, after
  <2> QED BY <2>2, <2>3
<1> QED BY <1>7, <1>8, <1>9

Fates(state, open, left) == \A id : Fate(id, state, open, LeftOf(left, id))

\* Before any device is admitted, the sources that are gone have been closed.
LEMMA KeptFate ==
  ASSUME NEW open, IsFiniteSet(DOMAIN open), NEW left, NEW listed, IsSequence(listed), NEW ids,
         NEW state
  PROVE  LET removed == SetToSeq(DOMAIN open \ ids)
             issues == [i \in DOMAIN listed |-> DiscoveryError(listed[i])]
             gone == [i \in DOMAIN removed |-> Disconnected(removed[i])]
         IN state = [active |-> Restrict(open, DOMAIN open \cap ids), sources |-> left,
                     output |-> issues \o gone]
              => Fates(state, open, left)
<1> DEFINE removed == SetToSeq(DOMAIN open \ ids)
           issues == [i \in DOMAIN listed |-> DiscoveryError(listed[i])]
           gone == [i \in DOMAIN removed |-> Disconnected(removed[i])]
           l == Len(issues)
           m == Len(gone)
           told == issues \o gone
<1>1. IsSequence(issues) /\ DOMAIN issues = DOMAIN listed
  <2>1. DOMAIN listed = 1..Len(listed) /\ Len(listed) \in Nat
    BY InSeq DEF IsSequence
  <2> QED BY <2>1, FunctionIsSequence
<1>2. /\ DOMAIN removed = 1..Cardinality(DOMAIN open \ ids)
      /\ Cardinality(DOMAIN open \ ids) \in Nat
      /\ \A x \in DOMAIN open \ ids : \E i \in DOMAIN removed : removed[i] = x
  <2>1. IsFiniteSet(DOMAIN open \ ids)
    BY FS_Subset
  <2> QED BY <2>1, SetToSeqLists
<1>3. IsSequence(gone) /\ DOMAIN gone = DOMAIN removed
  BY <1>2, FunctionIsSequence
<1>4. \A i \in DOMAIN issues : issues[i].kind = "DiscoveryError"
  BY DEF DiscoveryError
<1>5. \A i \in DOMAIN gone : gone[i].kind = "Disconnected" /\ gone[i].source = removed[i]
  BY DEF Disconnected
<1> HIDE DEF issues, gone, removed
<1>6. /\ DOMAIN issues = 1..l /\ DOMAIN gone = 1..m /\ DOMAIN told = 1..(l + m)
      /\ l \in Nat /\ m \in Nat
      /\ \A i \in 1..l : told[i] = issues[i]
      /\ \A i \in 1..m : told[l + i] = gone[i]
      /\ \A p \in 1..(l + m) : p \in 1..l \/ \E i \in 1..m : p = l + i
  <2>1. IsSequence(issues) /\ IsSequence(gone)
    BY <1>1, <1>3
  <2>2. Join(told, issues, gone)
    BY <2>1, Joined
  <2> QED BY <2>2 DEF Join
<1> HIDE DEF told, l, m
<1>7. \A id, kind : Says(told, id, kind) => kind \in {"DiscoveryError", "Disconnected"}
  <2>1. \A p \in DOMAIN told : told[p].kind \in {"DiscoveryError", "Disconnected"}
    <3> TAKE p \in DOMAIN told
    <3>1. p \in 1..l \/ \E i \in 1..m : p = l + i
      BY <1>6
    <3>2. CASE p \in 1..l
      BY <1>4, <1>6, <3>2
    <3>3. CASE \E i \in 1..m : p = l + i
      <4>1. PICK i \in 1..m : p = l + i
        BY <3>3
      <4>2. told[p] = gone[i]
        BY <1>6, <4>1
      <4> QED BY <1>5, <1>6, <4>2
    <3> QED BY <3>1, <3>2, <3>3
  <2> QED BY <2>1 DEF Says, Range
<1>8. \A id \in DOMAIN open \ ids : Says(told, id, "Disconnected")
  <2> TAKE id \in DOMAIN open \ ids
  <2>1. PICK i \in 1..m : gone[i].kind = "Disconnected" /\ gone[i].source = id
    BY <1>2, <1>3, <1>5, <1>6
  <2>2. l + i \in 1..(l + m)
    <3>1. l \in Nat /\ m \in Nat /\ i \in 1..m
      BY <1>6
    <3> QED BY ONLY <3>1
  <2>3. l + i \in DOMAIN told /\ told[l + i] = gone[i]
    BY <1>6, <2>2
  <2> QED BY <2>1, <2>3 DEF Says, Range
<1> SUFFICES ASSUME state = [active |-> Restrict(open, DOMAIN open \cap ids), sources |-> left,
                             output |-> told]
             PROVE  Fates(state, open, left)
  BY DEF told, issues, gone, removed, l, m
<1>9. /\ state.output = told /\ state.sources = left
      /\ \A id \in DOMAIN open \cap ids :
           id \in DOMAIN state.active /\ state.active[id] = open[id]
  BY DEF Restrict
<1>10. ASSUME NEW id PROVE Fate(id, state, open, LeftOf(left, id))
  <2>1. ~Says(told, id, "Connected") /\ ~Heard(told, id)
    BY <1>7 DEF Heard
  <2> QED BY <1>8, <1>9, <2>1 DEF Fate
<1> QED BY <1>10 DEF Fates

\* Reconciling with a snapshot keeps the session's part.
LEMMA ReconciledHolds ==
  ASSUME ReplayInv, NEW snapshot, Listing(snapshot.devices), IsSequence(snapshot.issues)
  PROVE  /\ Holding(Reconciled(snapshot), script.plans)
         /\ Fates(Reconciled(snapshot), active, sources)
<1> DEFINE ids == {d.source_id : d \in Range(snapshot.devices)}
           removed == SetToSeq(DOMAIN active \ ids)
           issues == [i \in DOMAIN snapshot.issues |-> DiscoveryError(snapshot.issues[i])]
           gone == [i \in DOMAIN removed |-> Disconnected(removed[i])]
           kept == [active |-> Restrict(active, DOMAIN active \cap ids),
                    sources |-> sources, output |-> issues \o gone]
           m == Len(snapshot.devices)
           admitted == CHOOSE f : Admits(f, m, kept, snapshot.devices)
           plans == script.plans
<1>1. Reconciled(snapshot) = admitted[m]
  BY DEF Reconciled, Admits
<1>2. Holding(kept, plans)
  <2>1. IsFiniteSet(DOMAIN active)
    BY DEF ReplayInv, Opened
  <2>2. IsSequence(issues)
    <3>1. DOMAIN snapshot.issues = 1..Len(snapshot.issues) /\ Len(snapshot.issues) \in Nat
      BY InSeq DEF IsSequence
    <3> QED BY <3>1, FunctionIsSequence
  <2>3. IsSequence(gone)
    <3>1. IsFiniteSet(DOMAIN active \ ids)
      BY <2>1, FS_Subset
    <3>2. DOMAIN removed = 1..Cardinality(DOMAIN active \ ids)
          /\ Cardinality(DOMAIN active \ ids) \in Nat
      BY <3>1, SetToSeqLists
    <3> QED BY <3>2, FunctionIsSequence
  <2>4. IsSequence(issues \o gone)
    BY <2>2, <2>3, ConcatIsSequence
  <2> DEFINE open == Restrict(active, DOMAIN active \cap ids)
  <2>5. Opened(open, plans)
    <3>1. DOMAIN open = DOMAIN active \cap ids /\ \A id \in DOMAIN open : open[id] = active[id]
      BY DEF Restrict
    <3>2. IsFiniteSet(DOMAIN open)
      BY <2>1, <3>1, FS_Subset
    <3> HIDE DEF open
    <3> QED BY <3>1, <3>2 DEF ReplayInv, Opened
  <2>6. /\ {"active", "sources", "output"} \subseteq DOMAIN kept
        /\ kept.active = open /\ kept.sources = sources /\ kept.output = issues \o gone
    OBVIOUS
  <2> HIDE DEF kept, open, issues, gone
  <2> QED BY <2>4, <2>5, <2>6 DEF Holding, ReplayInv
<1>0. Fates(kept, active, sources)
  BY KeptFate DEF ReplayInv, Opened
<1> HIDE DEF kept
<1>3. m \in Nat /\ \A i \in 1..m : snapshot.devices[i] \in Described(Nodes)
  BY DEF Listing
<1>4. Admits(admitted, m, kept, snapshot.devices)
  BY <1>3, AdmitsExists
<1>5. PlansShape(plans)
  BY ScriptPlans DEF ReplayInv
<1> HIDE DEF m, admitted, plans
<1> DEFINE S == {i \in 0..m : Holding(admitted[i], plans) /\ Fates(admitted[i], active, sources)}
<1>6. 0 \in S
  BY <1>0, <1>2, <1>3, <1>4 DEF Admits
<1>7. ASSUME NEW i \in 1..m, i - 1 \in S PROVE i \in S
  <2>1. admitted[i] = Admit(admitted[i - 1], snapshot.devices[i])
    BY <1>3, <1>4 DEF Admits
  <2>2. Holding(admitted[i - 1], plans) /\ snapshot.devices[i] \in Described(Nodes)
    BY <1>3, <1>7
  <2>3. Holding(admitted[i], plans)
    BY <1>5, <2>1, <2>2, AdmitHolds
  <2>4. Fates(admitted[i - 1], active, sources)
    BY <1>7
  <2>5. Fates(admitted[i], active, sources)
    BY <2>1, <2>2, <2>4, AdmitFate DEF Fates
  <2> QED BY <2>3, <2>5
<1> HIDE DEF S
<1>8. m \in S
  <2>1. \A i \in 0..m : i \in S
    BY <1>3, <1>6, <1>7, BoundedInduction
  <2> QED BY <1>3, <2>1
<1> QED BY <1>1, <1>8 DEF S, plans

LEMMA ReadKeeps ==
  ASSUME NEW plans, NEW open, Opened(open, plans)
  PROVE  Opened([id \in DOMAIN open |-> Consumed(open[id])], plans)
<1> DEFINE after == [id \in DOMAIN open |-> Consumed(open[id])]
           P(id) == Played(plans, id)
<1>1. ASSUME NEW id \in DOMAIN open
      PROVE  /\ {"descriptor", "reads"} \subseteq DOMAIN after[id]
             /\ after[id].descriptor = open[id].descriptor
             /\ after[id].reads \in Seq(P(id))
  <2> DEFINE o == open[id]
             reads == IF o.reads = <<>> THEN o.reads ELSE Tail(o.reads)
  <2>1. after[id] = [o EXCEPT !.reads = reads]
    BY DEF Consumed, AfterRead
  <2>2. {"descriptor", "reads"} \subseteq DOMAIN o /\ o.reads \in Seq(P(id))
    BY DEF Opened
  <2> HIDE DEF after, o, P
  <2>3. reads \in Seq(P(id))
    <3>1. CASE o.reads = <<>>
      BY <2>2, <3>1
    <3>2. CASE o.reads # <<>>
      BY <2>2, <3>2, HeadTailProperties
    <3> QED BY <3>1, <3>2
  <2> HIDE DEF reads
  <2>4. /\ {"descriptor", "reads"} \subseteq DOMAIN after[id]
        /\ after[id].descriptor = o.descriptor /\ after[id].reads = reads
    BY <2>1, <2>2
  <2> QED BY <2>3, <2>4 DEF o
<1>2. DOMAIN after = DOMAIN open
  OBVIOUS
<1> HIDE DEF after
<1>3. Opened(after, plans)
  BY <1>1, <1>2 DEF Opened
<1> QED BY <1>3 DEF after

\* What a source's own read delivers: its batches, or that it failed.
ReadKinds == {"Input", "SourceError"}
Reading(events, id) ==
  /\ IsSequence(events)
  /\ \A k \in DOMAIN events : events[k].source = id /\ events[k].kind \in ReadKinds

LEMMA EventsShape ==
  ASSUME NEW s \in Scripts, NEW open, Opened(open, s.plans), NEW id \in DOMAIN open
  PROVE  Reading(EventsOf(id, ReadOf(open[id])), id)
<1> DEFINE read == ReadOf(open[id])
<1>1. CASE read = None
  <2> DEFINE e == SourceError(id, "Read")
  <2>1. <<e>> \in Seq({e}) /\ DOMAIN <<e>> = {1} /\ <<e>>[1] = e
    OBVIOUS
  <2>2. EventsOf(id, read) = <<e>>
    BY <1>1 DEF EventsOf
  <2>3. IsSequence(<<e>>)
    BY <2>1, InSeq
  <2>4. e.source = id /\ e.kind \in ReadKinds
    BY DEF SourceError, ReadKinds
  <2> HIDE DEF e, read
  <2> QED BY <2>1, <2>2, <2>3, <2>4 DEF Reading, read
<1>2. CASE read # None
  <2>1. IsSequence(Get(read)) /\ \A i \in DOMAIN Get(read) : Get(read)[i].source_id = id
    <3>1. CASE open[id].reads = <<>>
      <4>1. read = {<<>>}
        BY <3>1 DEF ReadOf, Some
      <4>2. Get(read) = <<>>
        BY <4>1 DEF Get
      <4>3. <<>> \in Seq({}) /\ DOMAIN <<>> = {}
        OBVIOUS
      <4> QED BY <4>2, <4>3, InSeq
    <3>2. CASE open[id].reads # <<>>
      <4> DEFINE P == Played(s.plans, id)
                 q == open[id].reads
      <4>1. q \in Seq(P) /\ q # <<>> /\ read = Head(q)
        BY <3>2 DEF Opened, ReadOf
      <4> HIDE DEF P, q, read
      <4>2. read \in P
        BY <4>1, HeadTailProperties
      <4>3. Get(read) \in read
        BY <1>2 DEF Get, None
      <4> QED BY <4>2, <4>3, ScriptPlans DEF P, PlansShape
    <3> QED BY <3>1, <3>2
  <2> DEFINE q == Get(read)
             events == [i \in DOMAIN q |-> Input(q[i])]
  <2>2. DOMAIN q = 1..Len(q) /\ Len(q) \in Nat
    BY <2>1, InSeq DEF IsSequence
  <2>3. EventsOf(id, read) = events
    BY <1>2 DEF EventsOf
  <2>4. \A i \in DOMAIN q : q[i].source_id = id
    BY <2>1
  <2> HIDE DEF q
  <2>5. IsSequence(events)
    BY <2>2, FunctionIsSequence
  <2>6. \A i \in DOMAIN events : events[i].source = id /\ events[i].kind \in ReadKinds
    BY <2>4 DEF Input, ReadKinds
  <2> HIDE DEF events
  <2>7. Reading(events, id)
    BY <2>5, <2>6 DEF Reading
  <2> QED BY <2>3, <2>7
<1> QED BY <1>1, <1>2

\* One part is a source's own, the others are other sources'.
Own(parts, j, id) ==
  /\ Reading(parts[j], id)
  /\ \A i \in DOMAIN parts : i # j => \E other : other # id /\ Reading(parts[i], other)
Pass(open, parts) ==
  /\ IsSequence(parts)
  /\ \A i \in DOMAIN parts : \E id : Reading(parts[i], id)
  /\ \A id \in DOMAIN open : \E j \in DOMAIN parts :
       parts[j] = EventsOf(id, ReadOf(open[id])) /\ Own(parts, j, id)

\* A pass over the open sources delivers what each one's read does, in some order.
LEMMA ReadAllIsSequence ==
  ASSUME NEW s \in Scripts, NEW open, Opened(open, s.plans)
  PROVE  /\ IsSequence(ReadAll(open))
         /\ \E parts, at : Pass(open, parts) /\ Laid(parts, ReadAll(open), at)
<1> DEFINE ids == SetToSeq(DOMAIN open)
           Part(id) == EventsOf(id, ReadOf(open[id]))
           parts == [i \in DOMAIN ids |-> Part(ids[i])]
<1>1. /\ DOMAIN ids = 1..Cardinality(DOMAIN open) /\ Cardinality(DOMAIN open) \in Nat
      /\ \A i \in DOMAIN ids : ids[i] \in DOMAIN open
      /\ \A i, j \in DOMAIN ids : ids[i] = ids[j] => i = j
      /\ \A x \in DOMAIN open : \E i \in DOMAIN ids : ids[i] = x
  BY SetToSeqLists DEF Opened
<1>2. IsSequence(parts) /\ DOMAIN parts = DOMAIN ids
  BY <1>1, FunctionIsSequence
<1>3. \A id \in DOMAIN open : Reading(Part(id), id)
  BY EventsShape
<1>4. \A i \in DOMAIN parts : parts[i] = Part(ids[i]) /\ Reading(parts[i], ids[i])
  BY <1>1, <1>2, <1>3
<1>5. ReadAll(open) = FlattenSeq(parts)
  BY DEF ReadAll
<1> HIDE DEF parts, Part, ids
<1>6. \A i \in DOMAIN parts : IsSequence(parts[i])
  BY <1>4 DEF Reading
<1>7. IsSequence(ReadAll(open)) /\ \E at : Laid(parts, ReadAll(open), at)
  BY <1>2, <1>5, <1>6, FlattenIsSequence
<1>8. \A i \in DOMAIN parts : \E id : Reading(parts[i], id)
  BY <1>4
<1>9. ASSUME NEW id \in DOMAIN open
      PROVE  \E j \in DOMAIN parts : parts[j] = Part(id) /\ Own(parts, j, id)
  <2>1. PICK j \in DOMAIN parts : ids[j] = id
    BY <1>1, <1>2
  <2>2. \A i \in DOMAIN parts : i # j => ids[i] # id
    BY <1>1, <1>2, <2>1
  <2>3. Own(parts, j, id)
    BY <1>4, <2>1, <2>2 DEF Own
  <2> QED BY <1>4, <2>1, <2>3
<1>10. Pass(open, parts)
  BY <1>2, <1>8, <1>9 DEF Pass, Part
<1> QED BY <1>7, <1>10

LEMMA LogGrows ==
  ASSUME NEW calls, Logged(calls), NEW kind, NEW events, IsSequence(events)
  PROVE  Logged(Append(calls, [call |-> kind, events |-> events]))
<1> DEFINE x == [call |-> kind, events |-> events]
           C == Range(calls) \cup {x}
           d == Append(calls, x)
<1>1. IsSequence(d)
  BY AppendIsSequence DEF Logged
<1>2. calls \in Seq(C) /\ x \in C
  <2>1. calls \in Seq(Range(calls))
    BY DEF Logged, IsSequence
  <2> QED BY <2>1, SeqMonotonic
<1>3. x.events = events
  OBVIOUS
<1> HIDE DEF C, x
<1>4. Longer(d, calls, x, C)
  BY <1>2, Appended
<1>5. DOMAIN calls = 1..Len(calls) /\ Len(calls) \in Nat /\ DOMAIN d = 1..Len(d)
  BY <1>2, <1>4 DEF Longer
<1> HIDE DEF d
<1>6. \A n \in DOMAIN d : d[n] = x \/ (n \in DOMAIN calls /\ d[n] = calls[n])
  <2> DEFINE l == Len(calls)
  <2>1. l \in Nat /\ DOMAIN d = 1..(l + 1) /\ DOMAIN calls = 1..l
    BY <1>4, <1>5 DEF Longer
  <2>2. d[l + 1] = x /\ \A k \in 1..l : d[k] = calls[k]
    BY <1>4 DEF Longer
  <2> HIDE DEF l
  <2>3. \A n \in 1..(l + 1) : n = l + 1 \/ n \in 1..l
    BY <2>1
  <2>4. ASSUME NEW n \in 1..(l + 1)
        PROVE  d[n] = x \/ (n \in 1..l /\ d[n] = calls[n])
    <3>1. CASE n = l + 1
      <4>1. d[l + 1] = x
        BY <2>2
      <4>2. d[n] = x
        BY ONLY <3>1, <4>1
      <4> QED BY ONLY <4>2
    <3>2. CASE n \in 1..l
      BY ONLY <2>2, <3>2
    <3> QED BY <2>3, <3>1, <3>2
  <2> QED BY <2>1, <2>4
<1>7. \A n \in DOMAIN d : IsSequence(d[n].events)
  BY <1>3, <1>6 DEF Logged
<1> QED BY <1>1, <1>7 DEF Logged, d, x

\* An answer lists each described device once, and what is left is a script too.
LEMMA AnswerShape ==
  ASSUME ReplayInv
  PROVE  /\ ScansLeft \in Seq(Range(script.scans))
         /\ Answer # None => /\ Listing(Get(Answer).devices)
                             /\ IsSequence(Get(Answer).issues)
<1> DEFINE R == Range(script.scans)
<1>1. scans \in Seq(R)
  BY DEF ReplayInv
<1>2. \A scan \in R : \A snapshot \in scan :
        Listing(snapshot.devices) /\ IsSequence(snapshot.issues)
  BY ScriptShape DEF ReplayInv
<1> HIDE DEF R
<1>3. ScansLeft \in Seq(R)
  BY <1>1 DEF ScansLeft
<1>4. ASSUME Answer # None
      PROVE  Listing(Get(Answer).devices) /\ IsSequence(Get(Answer).issues)
  <2>1. CASE scans = <<>>
    <3> DEFINE empty == [devices |-> <<>>, issues |-> <<>>]
    <3>1. Answer = {empty}
      BY <2>1 DEF Answer, Some
    <3>2. Get(Answer) = empty
      BY <3>1 DEF Get
    <3>3. empty.devices = <<>> /\ empty.issues = <<>>
      OBVIOUS
    <3> HIDE DEF empty
    <3>4. Listing(<<>>)
      BY DEF Listing
    <3>5. <<>> \in Seq({})
      OBVIOUS
    <3>6. IsSequence(<<>>)
      BY <3>5, InSeq
    <3> QED BY <3>2, <3>3, <3>4, <3>6
  <2>2. CASE scans # <<>>
    <3>1. Answer \in R
      BY <1>1, <2>2 DEF Answer
    <3>2. Get(Answer) \in Answer
      BY <1>4 DEF Get, None
    <3> QED BY <1>2, <3>1, <3>2
  <2> QED BY <2>1, <2>2
<1> QED BY <1>3, <1>4 DEF R

LEMMA PollKeeps ==
  ASSUME ReplayInv, Poll
  PROVE  ReplayInv'
<1>1. script' = script /\ scans' = ScansLeft
  BY DEF Poll
<1>2. script \in Scripts /\ Logged(log) /\ ScansLeft \in Seq(Range(script.scans))
  BY AnswerShape DEF ReplayInv
<1>3. /\ Planned(sources', script.plans) /\ Opened(active', script.plans)
      /\ Logged(log')
  <2>1. CASE Answer = None
    <3>1. /\ sources' = sources /\ active' = active
          /\ log' = Append(log, [call |-> "error", events |-> <<>>])
      BY <2>1 DEF Poll
    <3>2. <<>> \in Seq({})
      OBVIOUS
    <3>3. IsSequence(<<>>)
      BY <3>2, InSeq
    <3> QED BY <1>2, <3>1, <3>3, LogGrows DEF ReplayInv
  <2>2. CASE Answer # None
    <3> DEFINE state == Reconciled(Get(Answer))
               events == state.output \o ReadAll(state.active)
    <3>1. /\ active' = [id \in DOMAIN state.active |-> Consumed(state.active[id])]
          /\ sources' = state.sources
          /\ log' = Append(log, [call |-> "poll", events |-> events])
      BY <2>2 DEF Poll
    <3>2. Holding(state, script.plans)
      BY <2>2, AnswerShape, ReconciledHolds
    <3> HIDE DEF state
    <3>3. Opened(state.active, script.plans) /\ Planned(state.sources, script.plans)
          /\ IsSequence(state.output)
      BY <3>2 DEF Holding
    <3>4. IsSequence(ReadAll(state.active))
      BY <1>2, <3>3, ReadAllIsSequence
    <3>5. IsSequence(events)
      BY <3>3, <3>4, ConcatIsSequence
    <3> HIDE DEF events
    <3>6. Logged(log')
      BY <1>2, <3>1, <3>5, LogGrows
    <3>7. Opened(active', script.plans)
      BY <3>1, <3>3, ReadKeeps
    <3> QED BY <3>1, <3>3, <3>6, <3>7
  <2> QED BY <2>1, <2>2
<1> QED BY <1>1, <1>2, <1>3 DEF ReplayInv

LEMMA PollActiveKeeps ==
  ASSUME ReplayInv, PollActive
  PROVE  ReplayInv'
<1>1. /\ script' = script /\ scans' = scans /\ sources' = sources
      /\ active' = [id \in DOMAIN active |-> Consumed(active[id])]
      /\ log' = Append(log, [call |-> "poll_active", events |-> ReadAll(active)])
  BY DEF PollActive
<1>2. script \in Scripts /\ Opened(active, script.plans) /\ Logged(log)
  BY DEF ReplayInv
<1>3. Opened(active', script.plans)
  BY <1>1, <1>2, ReadKeeps
<1>4. Logged(log')
  BY <1>1, <1>2, LogGrows, ReadAllIsSequence
<1> QED BY <1>1, <1>2, <1>3, <1>4 DEF ReplayInv

LEMMA InitHolds ==
  ASSUME Init
  PROVE  ReplayInv
<1>1. script \in Scripts /\ scans = script.scans /\ active = <<>> /\ log = <<>>
  BY DEF Init
<1>2. Planned(sources, script.plans)
  <2> DEFINE plans == script.plans
             Of(id) == {n \in DOMAIN plans : plans[n].source = id}
  <2>1. sources = [id \in {p.source : p \in Range(plans)} |-> Chosen(plans, Of(id))]
    BY DEF Init
  <2>2. IsSequence(plans)
    BY <1>1, ScriptShape
  <2> HIDE DEF plans
  <2>3. ASSUME NEW id PROVE Chosen(plans, Of(id)) \in Seq(Owned(plans, id))
    <3> DEFINE S == Of(id)
    <3>1. \A m \in S \cap (1..Len(plans)) : plans[m] \in Owned(plans, id)
      BY DEF Owned, Range
    <3> HIDE DEF S
    <3>2. Chosen(plans, S) \in Seq(Owned(plans, id))
      BY <2>2, <3>1, ChosenIsSequence
    <3> QED BY <3>2 DEF S
  <2> HIDE DEF Of
  <2>4. \A id \in DOMAIN sources : sources[id] = Chosen(plans, Of(id))
    BY <2>1
  <2>5. Planned(sources, plans)
    BY <2>3, <2>4 DEF Planned
  <2> QED BY <2>5 DEF plans
<1>3. Opened(active, script.plans)
  BY <1>1, FS_EmptySet DEF Opened
<1>4. Logged(log)
  <2>1. <<>> \in Seq({}) /\ DOMAIN <<>> = {}
    OBVIOUS
  <2>2. IsSequence(<<>>)
    BY <2>1, InSeq
  <2> QED BY <1>1, <2>1, <2>2 DEF Logged
<1>5. scans \in Seq(Range(script.scans))
  BY <1>1, ScriptShape
<1> QED BY <1>1, <1>2, <1>3, <1>4, <1>5 DEF ReplayInv

\* Whatever the hosts, plans and polls, the manifest's devices and the session's
\* sources are ones the provider described, everything logged is a sequence of events,
\* and a bundle is the one of the snapshot and the log the recorder still has.
THEOREM LabInvariant == Spec => []LabInv
<1>1. LabInit => LabInv
  <2> SUFFICES ASSUME LabInit PROVE LabInv
    OBVIOUS
  <2>1. ReplayInv
    BY InitHolds DEF LabInit
  <2>2. Listing(devices)
    BY DEF LabInit, Listing
  <2>3. devices = <<>> /\ log = <<>> /\ recording = {}
    BY DEF LabInit, Init, None
  <2> QED BY <2>1, <2>2, <2>3 DEF LabInv, BundleInv, None
<1>2. LabInv /\ [Next]_vars => LabInv'
  <2> SUFFICES ASSUME LabInv, [Next]_vars PROVE LabInv'
    OBVIOUS
  <2>0. ReplayInv /\ BundleInv
    BY DEF LabInv
  <2>1. ASSUME UNCHANGED replay PROVE ReplayInv'
    BY <2>0, <2>1 DEF ReplayInv, replay
  <2>2. ASSUME UNCHANGED <<devices, recording>>, recording = None, program' # "start"
        PROVE  BundleInv'
    BY <2>0, <2>2 DEF BundleInv, None
  <2>3. ASSUME program # "done" PROVE recording = None
    BY <2>0, <2>3 DEF BundleInv
  <2>4. CASE Embedder
    <3>1. program = "embedder" /\ UNCHANGED <<program, devices, recording>> /\ (Poll \/ PollActive)
      BY <2>4 DEF Embedder, Embed
    <3>2. ReplayInv'
      BY <2>0, <3>1, PollKeeps, PollActiveKeeps
    <3>3. BundleInv'
      BY <2>2, <2>3, <3>1
    <3> QED BY <3>2, <3>3 DEF LabInv
  <2>5. CASE RefuseOptions
    <3>1. program = "start" /\ program' = "failed" /\ UNCHANGED <<devices, recording>>
          /\ UNCHANGED replay
      BY <2>5 DEF RefuseOptions
    <3> QED BY <2>1, <2>2, <2>3, <3>1 DEF LabInv
  <2>6. CASE Synthetic
    <3>1. /\ program = "start" /\ program' = "done" /\ devices' = devices
          /\ recording' = {SanitizedCapture(<<>>, <<>>, TRUE)} /\ UNCHANGED replay
      BY <2>6 DEF Synthetic, Some
    <3>2. devices' = <<>> /\ log' = <<>>
      BY <2>0, <3>1 DEF BundleInv, replay
    <3>3. BundleInv'
      BY <2>0, <3>1, <3>2 DEF BundleInv
    <3> QED BY <2>1, <3>1, <3>3 DEF LabInv
  <2>7. CASE Enumerate
    <3>1. /\ program = "start" /\ program' \in {"failed", "poll"} /\ recording' = recording
          /\ UNCHANGED <<script, sources, active, log>> /\ scans' = ScansLeft
      BY <2>7 DEF Enumerate
    <3>2. ReplayInv'
      BY <2>0, <3>1, AnswerShape DEF ReplayInv
    <3>3. Listing(devices')
      <4>1. CASE Answer = None
        BY <2>0, <2>7, <4>1 DEF Enumerate, BundleInv
      <4>2. CASE Answer # None
        BY <2>0, <2>7, <4>2, AnswerShape DEF Enumerate
      <4> QED BY <4>1, <4>2
    <3>4. recording' = {}
      BY <2>3, <3>1 DEF None
    <3>5. BundleInv'
      BY <3>1, <3>3, <3>4 DEF BundleInv, None
    <3> QED BY <3>2, <3>5 DEF LabInv
  <2>8. CASE FirstPoll
    <3>1. /\ program = "poll" /\ program' \in {"failed", "poll_active"}
          /\ UNCHANGED <<devices, recording>> /\ Poll
      BY <2>8 DEF FirstPoll
    <3> QED BY <2>0, <2>2, <2>3, <3>1, PollKeeps DEF LabInv
  <2>9. CASE NextPoll
    <3>1. /\ program = "poll_active" /\ program' = program
          /\ UNCHANGED <<devices, recording>> /\ PollActive
      BY <2>9 DEF NextPoll
    <3> QED BY <2>0, <2>2, <2>3, <3>1, PollActiveKeeps DEF LabInv
  <2>10. CASE Record
    <3>1. /\ program' = "done" /\ devices' = devices /\ UNCHANGED replay
          /\ recording' = {SanitizedCapture(devices, log, FALSE)}
      BY <2>10 DEF Record, Some
    <3>2. BundleInv'
      BY <2>0, <3>1 DEF BundleInv, replay
    <3> QED BY <2>1, <3>1, <3>2 DEF LabInv
  <2>11. CASE UNCHANGED vars
    <3>1. UNCHANGED replay /\ UNCHANGED <<program, devices, recording, log>>
      BY <2>11 DEF vars, replay
    <3>2. BundleInv'
      BY <2>0, <3>1 DEF BundleInv
    <3> QED BY <2>1, <3>1, <3>2 DEF LabInv
  <2> QED BY <2>4, <2>5, <2>6, <2>7, <2>8, <2>9, <2>10, <2>11 DEF Next
<1> QED BY <1>1, <1>2, PTL DEF Spec

LEMMA SeenDescribed ==
  ASSUME LabInv
  PROVE  Seen \subseteq {Descriptor(n) : n \in Nodes}
<1>1. Range(devices) \subseteq Described(Nodes)
  <2>1. \A i \in DOMAIN devices : devices[i] \in Described(Nodes)
    BY DEF LabInv, BundleInv, Listing
  <2> QED BY <2>1 DEF Range
<1>2. \A id \in DOMAIN active : active[id].descriptor \in Described(Nodes)
  BY DEF LabInv, ReplayInv, Opened
<1>3. Described(Nodes) \subseteq {Descriptor(n) : n \in Nodes}
  BY DEF Described, Controllers
<1> QED BY <1>1, <1>2, <1>3 DEF Seen

\* For any bytes, nodes, scripts and schedules of the embedder or the lab: two devices
\* ever seen share a physical id exactly when they share the evidence it is made
\* from, and a source id exactly when they are the same node as well.
THEOREM IdsFollowEvidence == Spec => []IdentityFollowsEvidence
<1>1. LabInv => IdentityFollowsEvidence
  <2> SUFFICES ASSUME LabInv, NEW d \in Seen, NEW e \in Seen
               PROVE
      /\ d.physical_id = e.physical_id <=> Evidence(d) = Evidence(e)
      /\ d.source_id = e.source_id <=> /\ Evidence(d) = Evidence(e)
                                       /\ d.device_path = e.device_path
      /\ d.identity_stability = CASE d.unique_id # None -> "Hardware"
                                  [] d.unique_id = None /\ d.physical_path # None -> "Topology"
                                  [] OTHER -> "ConnectionOnly"
    BY DEF IdentityFollowsEvidence
  <2>1. PICK n \in Nodes : d = Descriptor(n)
    BY SeenDescribed
  <2>2. PICK m \in Nodes : e = Descriptor(m)
    BY SeenDescribed
  <2>3. Evidence(d) = Evidence(e) <=> SameEvidence(n, m)
    BY <2>1, <2>2, SameEvidenceOfNodes
  <2>4. d.device_path = n.path /\ e.device_path = m.path
    BY <2>1, <2>2, DescriptorFields
  <2>5. d.physical_id = e.physical_id <=> Evidence(d) = Evidence(e)
    BY <2>1, <2>2, <2>3, IdsInjective
  <2>6. d.source_id = e.source_id <=> /\ Evidence(d) = Evidence(e)
                                      /\ d.device_path = e.device_path
    BY <2>1, <2>2, <2>3, <2>4, IdsInjective
  <2>7. d.identity_stability = CASE d.unique_id # None -> "Hardware"
                                 [] d.unique_id = None /\ d.physical_path # None -> "Topology"
                                 [] OTHER -> "ConnectionOnly"
    <3>1. d.unique_id = Unique(n) /\ d.physical_path = Physical(n)
      BY <2>1, DescriptorFields
    <3> QED BY <2>1, <3>1, DescriptorFields
  <2> QED BY <2>5, <2>6, <2>7
<1> QED BY <1>1, LabInvariant, PTL

-----------------------------------------------------------------------------
(* The frames of a bundle.                                                 *)

\* No two devices of a snapshot share a source id: their nodes have different paths.
LEMMA DistinctIds ==
  ASSUME NEW listed, Listing(listed), NEW i \in DOMAIN listed, NEW j \in DOMAIN listed,
         listed[i].source_id = listed[j].source_id
  PROVE  i = j
<1>1. \A k \in DOMAIN listed : listed[k] \in Described(Nodes)
  BY DEF Listing
<1>2. PICK n \in Nodes : listed[i] = Descriptor(n)
  BY <1>1 DEF Described, Controllers
<1>3. PICK m \in Nodes : listed[j] = Descriptor(m)
  BY <1>1 DEF Described, Controllers
<1>4. n.path = m.path
  BY <1>2, <1>3, IdsInjective
<1>5. listed[i].device_path = listed[j].device_path
  BY <1>2, <1>3, <1>4, DescriptorFields
<1> QED BY <1>5 DEF Listing

\* A source has an index exactly when the manifest lists it, and it is its own.
Found(listed, id, index) ==
  /\ index # None <=> \E d \in Range(listed) : d.source_id = id
  /\ index # None => /\ Get(index) \in DOMAIN listed
                     /\ listed[Get(index)].source_id = id

LEMMA IndexFound ==
  ASSUME NEW listed, Listing(listed), NEW id
  PROVE  Found(listed, id, IndexOf(listed, id))
<1> DEFINE S == {i \in DOMAIN listed : listed[i].source_id = id}
           ids == {d.source_id : d \in Range(listed)}
<1>1. DOMAIN listed = 1..Len(listed) /\ Len(listed) \in Nat
  BY DEF Listing
<1>2. id \in ids <=> \E d \in Range(listed) : d.source_id = id
  OBVIOUS
<1>3. DOMAIN Indices(listed) = ids
  BY DEF Indices
<1>4. CASE id \notin ids
  <2>1. IndexOf(listed, id) = None
    BY <1>3, <1>4 DEF IndexOf
  <2> QED BY <1>2, <1>4, <2>1 DEF Found
<1>5. CASE id \in ids
  <2>1. S # {}
    BY <1>2, <1>5 DEF Range
  <2>2. S \in SUBSET (1..Len(listed))
    BY <1>1
  <2>3. Max(S) \in S
    <3> HIDE DEF S
    <3> QED BY <1>1, <2>1, <2>2, MaxIsMember
  <2>4. Indices(listed)[id] = Max(S)
    BY <1>5 DEF Indices
  <2>5. IndexOf(listed, id) = {Max(S)}
    BY <1>3, <1>5, <2>4 DEF IndexOf, Some
  <2> HIDE DEF S
  <2>6. IndexOf(listed, id) # None /\ Get(IndexOf(listed, id)) = Max(S)
    BY <2>5 DEF None, Get
  <2>7. Max(S) \in DOMAIN listed /\ listed[Max(S)].source_id = id
    BY <2>3 DEF S
  <2> QED BY <1>2, <1>5, <2>6, <2>7 DEF Found
<1> QED BY <1>4, <1>5

LEMMA BatchesIsSequence ==
  ASSUME NEW calls, Logged(calls)
  PROVE  IsSequence(Batches(calls))
<1> DEFINE parts == [n \in DOMAIN calls |-> calls[n].events]
           events == FlattenSeq(parts)
           inputs == Chosen(events, {n \in DOMAIN events : events[n].kind = "Input"})
<1>1. DOMAIN calls = 1..Len(calls) /\ Len(calls) \in Nat
  <2>1. calls \in Seq(Range(calls))
    BY DEF Logged, IsSequence
  <2> QED BY <2>1, InSeq
<1>2. IsSequence(parts)
  <2>1. parts = [i \in 1..Len(calls) |-> parts[i]]
    BY <1>1
  <2> HIDE DEF parts
  <2> QED BY <1>1, <2>1, FunctionIsSequence
<1>3. \A i \in DOMAIN parts : IsSequence(parts[i])
  BY DEF Logged
<1>4. IsSequence(events)
  <2> HIDE DEF parts
  <2> QED BY <1>2, <1>3, FlattenIsSequence
<1>5. IsSequence(inputs)
  <2> HIDE DEF events
  <2> QED BY <1>4, ChosenIsSequence
<1>6. Batches(calls) = [i \in DOMAIN inputs |-> inputs[i].detail]
  BY DEF Batches
<1> HIDE DEF inputs
<1>7. DOMAIN inputs = 1..Len(inputs) /\ Len(inputs) \in Nat
  <2>1. inputs \in Seq(Range(inputs))
    BY <1>5 DEF IsSequence
  <2> QED BY <2>1, InSeq
<1> DEFINE f == [i \in DOMAIN inputs |-> inputs[i].detail]
<1>8. f = [i \in 1..Len(inputs) |-> f[i]]
  BY <1>7
<1> HIDE DEF f
<1>9. IsSequence(f)
  BY <1>7, <1>8, FunctionIsSequence
<1> QED BY <1>6, <1>9 DEF f

\* The positions of the batches whose source the manifest lists.
ListedAt(listed, batches) ==
  {n \in DOMAIN batches : \E d \in Range(listed) : d.source_id = batches[n].source_id}

LEMMA FramesAtRanks ==
  ASSUME NEW listed, Listing(listed), NEW batches, IsSequence(batches)
  PROVE  LET frames == FixtureFrames(listed, batches)
             S == ListedAt(listed, batches)
         IN /\ Len(frames) = Cardinality(S)
            /\ \A n \in S :
                 frames[Cardinality(S \cap (1..n))]
                   = FixtureFrame(Get(IndexOf(listed, batches[n].source_id)), batches[n])
<1> DEFINE S == ListedAt(listed, batches)
           T == {n \in DOMAIN batches : IndexOf(listed, batches[n].source_id) # None}
           kept == Chosen(batches, T)
           frames == FixtureFrames(listed, batches)
<1>1. T = S
  <2>1. \A n \in DOMAIN batches :
          IndexOf(listed, batches[n].source_id) # None
            <=> \E d \in Range(listed) : d.source_id = batches[n].source_id
    BY IndexFound DEF Found
  <2> QED BY <2>1 DEF ListedAt
<1>2. frames = [i \in DOMAIN kept |->
                  FixtureFrame(Get(IndexOf(listed, kept[i].source_id)), kept[i])]
  BY DEF FixtureFrames
<1>3. DOMAIN batches = 1..Len(batches)
  BY InSeq DEF IsSequence
<1>4. S \cap (1..Len(batches)) = S
  BY <1>3 DEF ListedAt
<1> HIDE DEF S, T, kept, frames
<1>5. Right(kept, Len(batches), batches, S, Range(batches)) /\ IsSequence(kept)
  <2>1. kept = Chosen(batches, S)
    BY <1>1 DEF kept
  <2> QED BY <2>1, ChosenIsSequence
<1>6. /\ Len(kept) = Cardinality(S)
      /\ \A n \in S : /\ Cardinality(S \cap (1..n)) \in 1..Len(kept)
                      /\ kept[Cardinality(S \cap (1..n))] = batches[n]
  BY <1>4, <1>5 DEF Right
<1>7. DOMAIN kept = 1..Len(kept) /\ Len(kept) \in Nat
  BY <1>5, InSeq DEF IsSequence
<1>8. Len(frames) = Len(kept)
  <2>1. frames = [i \in 1..Len(kept) |-> frames[i]]
    BY <1>2, <1>7
  <2> QED BY <1>7, <2>1, FunctionIsSequence
<1>9. ASSUME NEW n \in S
      PROVE  frames[Cardinality(S \cap (1..n))]
               = FixtureFrame(Get(IndexOf(listed, batches[n].source_id)), batches[n])
  <2> DEFINE r == Cardinality(S \cap (1..n))
  <2>1. r \in DOMAIN kept /\ kept[r] = batches[n]
    BY <1>6, <1>7
  <2> HIDE DEF r
  <2>2. frames[r] = FixtureFrame(Get(IndexOf(listed, kept[r].source_id)), kept[r])
    BY <1>2, <2>1
  <2> QED BY <2>1, <2>2 DEF r
<1> QED BY <1>6, <1>8, <1>9 DEF S, frames

LEMMA FrameFields ==
  ASSUME NEW index, NEW batch
  PROVE  LET frame == FixtureFrame(index, batch)
         IN /\ frame.source_index = index /\ frame.sequence = batch.sequence
            /\ [e \in DOMAIN frame.events |-> frame.events[e].code]
                 = [e \in DOMAIN batch.events |-> batch.events[e].code]
BY DEF FixtureFrame, FixtureEvent

\* A bundle made from `devices`, with the frames of these positions of the batches.
FramesAreOf(bundle, listed, batches) ==
  /\ Len(bundle.sources) = Len(devices)
  /\ Len(bundle.frames) = Cardinality(listed) /\ bundle.frame_count = Cardinality(listed)
  /\ \A n \in listed :
       LET frame == bundle.frames[Cardinality(listed \cap (1..n))]
       IN /\ frame.source_index \in DOMAIN bundle.sources
          /\ devices[frame.source_index].source_id = batches[n].source_id
          /\ frame.sequence = batches[n].sequence
          /\ [e \in DOMAIN frame.events |-> frame.events[e].code]
               = [e \in DOMAIN batches[n].events |-> batches[n].events[e].code]

\* For any scripts and hosts, in any order of the calls: a bundle has exactly the
\* frames of the sources its manifest lists, in the order they were delivered, each
\* under the index of its own source and with its events in their order.
THEOREM FramesUnderOwnIndex == Spec => []FramesOfTheirSource
<1>1. LabInv => FramesOfTheirSource
  <2> SUFFICES ASSUME LabInv, NEW bundle \in recording
               PROVE
      /\ \A i, j \in DOMAIN devices : devices[i].source_id = devices[j].source_id => i = j
      /\ FramesAreOf(bundle, ListedAt(devices, Batches(log)), Batches(log))
    BY DEF FramesOfTheirSource, FramesAreOf, ListedAt
  <2> DEFINE batches == Batches(log)
             S == ListedAt(devices, batches)
             Rank(n) == Cardinality(S \cap (1..n))
             Index(n) == Get(IndexOf(devices, batches[n].source_id))
             frames == FixtureFrames(devices, batches)
  <2>1. Listing(devices) /\ Logged(log)
    BY DEF LabInv, ReplayInv, BundleInv
  <2>2. PICK synthetic \in BOOLEAN : bundle = SanitizedCapture(devices, log, synthetic)
    BY DEF LabInv, BundleInv
  <2>3. /\ bundle.sources = Manifest(devices) /\ bundle.frames = frames
        /\ bundle.frame_count = Len(frames)
    BY <2>2 DEF SanitizedCapture
  <2>4. IsSequence(batches)
    BY <2>1, BatchesIsSequence
  <2> HIDE DEF batches
  <2>5. /\ Len(frames) = Cardinality(S)
        /\ \A n \in S : frames[Rank(n)] = FixtureFrame(Index(n), batches[n])
    BY <2>1, <2>4, FramesAtRanks
  <2>6. DOMAIN Manifest(devices) = DOMAIN devices /\ Len(Manifest(devices)) = Len(devices)
    <3> DEFINE m == Manifest(devices)
               l == Len(devices)
    <3>1. DOMAIN devices = 1..l /\ l \in Nat
      BY <2>1 DEF Listing
    <3>2. DOMAIN m = DOMAIN devices /\ m = [i \in DOMAIN devices |-> m[i]]
      BY DEF Manifest
    <3> HIDE DEF m, l
    <3>3. m = [i \in 1..l |-> m[i]]
      BY <3>1, <3>2
    <3>4. Len(m) = l
      BY <3>1, <3>3, FunctionIsSequence
    <3> QED BY <3>2, <3>4 DEF m, l
  <2>7. \A i, j \in DOMAIN devices : devices[i].source_id = devices[j].source_id => i = j
    BY <2>1, DistinctIds
  <2>8. ASSUME NEW n \in S
        PROVE  Index(n) \in DOMAIN devices /\ devices[Index(n)].source_id = batches[n].source_id
    <3>1. \E d \in Range(devices) : d.source_id = batches[n].source_id
      BY DEF ListedAt
    <3> DEFINE id == batches[n].source_id
    <3>2. Found(devices, id, IndexOf(devices, id))
      BY <2>1, IndexFound
    <3> QED BY <3>1, <3>2 DEF Found
  <2> HIDE DEF S, Rank, Index, frames
  <2>9. ASSUME NEW n \in S
        PROVE  LET frame == bundle.frames[Rank(n)]
                IN /\ frame.source_index \in DOMAIN bundle.sources
                   /\ devices[frame.source_index].source_id = batches[n].source_id
                   /\ frame.sequence = batches[n].sequence
                   /\ [e \in DOMAIN frame.events |-> frame.events[e].code]
                        = [e \in DOMAIN batches[n].events |-> batches[n].events[e].code]
    <3> DEFINE b == batches[n]
               i == Index(n)
               frame == FixtureFrame(i, b)
    <3>1. bundle.frames[Rank(n)] = frame
      BY <2>3, <2>5
    <3>2. /\ frame.source_index = i /\ frame.sequence = b.sequence
          /\ [e \in DOMAIN frame.events |-> frame.events[e].code]
               = [e \in DOMAIN b.events |-> b.events[e].code]
      BY FrameFields
    <3>3. i \in DOMAIN bundle.sources /\ devices[i].source_id = b.source_id
      BY <2>3, <2>6, <2>8
    <3> HIDE DEF b, i, frame
    <3>4. /\ frame.source_index \in DOMAIN bundle.sources
          /\ devices[frame.source_index].source_id = b.source_id
          /\ frame.sequence = b.sequence
          /\ [e \in DOMAIN frame.events |-> frame.events[e].code]
               = [e \in DOMAIN b.events |-> b.events[e].code]
      BY <3>2, <3>3
    <3> QED BY <3>1, <3>4 DEF b
  <2>10. Len(bundle.sources) = Len(devices) /\ Len(bundle.frames) = Cardinality(S)
         /\ bundle.frame_count = Cardinality(S)
    BY <2>3, <2>5, <2>6
  <2>11. FramesAreOf(bundle, S, batches)
    BY <2>9, <2>10 DEF FramesAreOf, Rank
  <2> QED BY <2>7, <2>11 DEF S, batches
<1> QED BY <1>1, LabInvariant, PTL

-----------------------------------------------------------------------------
(* What a call says of one source.                                         *)

LEMMA SameSequence ==
  ASSUME NEW a, IsSequence(a), NEW b, IsSequence(b), Len(a) = Len(b),
         \A i \in 1..Len(a) : a[i] = b[i]
  PROVE  a = b
<1> DEFINE C == Range(a) \cup Range(b)
<1>1. a \in Seq(C) /\ b \in Seq(C)
  <2>1. a \in Seq(Range(a)) /\ b \in Seq(Range(b))
    BY DEF IsSequence
  <2> QED BY <2>1, SeqMonotonic
<1> HIDE DEF C
<1> QED BY <1>1, SeqEqual

Neighbours(S, q, l, m) == S \cap (1..Len(q)) = (l + 1)..(l + m)
Segment(c, q, l, m) == IsSequence(c) /\ Len(c) = m /\ \A k \in 1..m : c[k] = q[l + k]

\* Choosing neighbours gives the part of the sequence they are.
LEMMA ChosenSegment ==
  ASSUME NEW q, IsSequence(q), NEW S, NEW l \in Nat, NEW m \in Nat, Neighbours(S, q, l, m)
  PROVE  Segment(Chosen(q, S), q, l, m)
<1> DEFINE c == Chosen(q, S)
           n == Len(q)
<1>1. IsSequence(c) /\ Right(c, n, q, S, Range(q))
  BY ChosenIsSequence
<1>2. n \in Nat
  BY InSeq DEF IsSequence
<1>0. S \cap (1..Len(q)) = (l + 1)..(l + m)
  BY DEF Neighbours
<1> HIDE DEF c, n
<1>3. Cardinality((l + 1)..(l + m)) = m
  BY FS_Interval
<1>4. Len(c) = m
  BY <1>0, <1>1, <1>3 DEF Right, n
<1>5. ASSUME NEW k \in 1..m PROVE c[k] = q[l + k]
  <2>1. l + k \in (l + 1)..(l + m)
    OBVIOUS
  <2>2. l + k \in S \cap (1..n)
    BY <1>0, <2>1 DEF n
  <2>3. S \cap (1..(l + k)) = (l + 1)..(l + k)
    <3>1. S \cap (1..n) = (l + 1)..(l + m)
      BY <1>0 DEF n
    <3>2. \A i \in 1..(l + k) : i \in 1..n
      BY <1>2, <2>2
    <3>3. S \cap (1..(l + k)) \subseteq (l + 1)..(l + k)
      <4>1. ASSUME NEW i \in S \cap (1..(l + k)) PROVE i \in (l + 1)..(l + k)
        <5>1. i \in (l + 1)..(l + m)
          BY <3>1, <3>2
        <5> QED BY <5>1
      <4> QED BY <4>1
    <3>4. (l + 1)..(l + k) \subseteq S \cap (1..(l + k))
      <4>1. ASSUME NEW i \in (l + 1)..(l + k) PROVE i \in S \cap (1..(l + k))
        <5>1. i \in (l + 1)..(l + m) /\ i \in 1..(l + k)
          OBVIOUS
        <5> QED BY <3>1, <5>1
      <4> QED BY <4>1
    <3> QED BY <3>3, <3>4
  <2>4. Cardinality((l + 1)..(l + k)) = k
    BY FS_Interval
  <2> DEFINE p == l + k
  <2>5. p \in S \cap (1..n) /\ Cardinality(S \cap (1..p)) = k
    BY <2>2, <2>3, <2>4
  <2> HIDE DEF p
  <2>6. c[k] = q[p]
    BY <1>1, <2>5 DEF Right
  <2> QED BY <2>6 DEF p
<1> QED BY <1>1, <1>4, <1>5 DEF c, Segment

Lengths(parts) == Len(parts) \in Nat /\ \A i \in 1..Len(parts) : Len(parts[i]) \in Nat
Covered(parts, flat, at) ==
  /\ \A i \in 1..Len(parts) : at[i] <= Len(flat)
  /\ \A p \in 1..Len(flat) : \E i \in 1..Len(parts) : \E k \in 1..Len(parts[i]) :
       p = at[i - 1] + k

\* The parts of a flattened sequence cover it.
LEMMA LaidCovers ==
  ASSUME NEW parts, Lengths(parts), NEW flat, NEW at, Laid(parts, flat, at)
  PROVE  Covered(parts, flat, at)
<1> DEFINE n == Len(parts)
<1>1. /\ n \in Nat /\ at \in [0..n -> Nat] /\ at[0] = 0 /\ at[n] = Len(flat)
      /\ \A i \in 1..n : Len(parts[i]) \in Nat /\ at[i] = at[i - 1] + Len(parts[i])
  BY DEF Laid, Lengths
<1> HIDE DEF n
<1>2. \A i \in 1..n : i \in 0..n /\ i - 1 \in 0..n
  BY <1>1
<1> DEFINE S == {i \in 0..n : \A h \in 0..i : at[h] <= at[i]}
           T == {i \in 0..n : \A p \in 1..at[i] : \E j \in 1..i : \E k \in 1..Len(parts[j]) :
                                p = at[j - 1] + k}
<1>3. n \in S
  <2>1. 0 \in S
    BY <1>1
  <2>2. ASSUME NEW i \in 1..n, i - 1 \in S PROVE i \in S
    <3>1. at[i] >= at[i - 1] /\ at[i] \in Nat /\ at[i - 1] \in Nat
      <4> DEFINE a == at[i - 1]
                 b == at[i]
                 w == Len(parts[i])
      <4>1. a \in Nat /\ b \in Nat /\ w \in Nat /\ b = a + w
        BY <1>1, <1>2
      <4> HIDE DEF a, b, w
      <4>2. b >= a
        BY <4>1
      <4> QED BY <4>1, <4>2 DEF a, b
    <3>2. ASSUME NEW h \in 0..i PROVE at[h] <= at[i]
      <4>1. CASE h = i
        BY <3>1, <4>1
      <4>2. CASE h # i
        <5>0. i \in Nat /\ i <= n /\ n \in Nat
          BY <1>1
        <5> HIDE DEF S
        <5>1. h \in 0..(i - 1) /\ h \in 0..n
          BY <4>2, <5>0
        <5> USE DEF S
        <5>2. at[h] <= at[i - 1] /\ at[h] \in Nat
          BY <1>1, <2>2, <5>1
        <5> QED BY <3>1, <5>2
      <4> QED BY <4>1, <4>2
    <3> QED BY <1>2, <3>2
  <2> HIDE DEF S
  <2>3. \A i \in 0..n : i \in S
    BY <1>1, <2>1, <2>2, BoundedInduction
  <2> QED BY <1>1, <2>3
<1>4. n \in T
  <2>1. 0 \in T
    BY <1>1
  <2>2. ASSUME NEW i \in 1..n, i - 1 \in T PROVE i \in T
    <3> DEFINE a == at[i - 1]
               b == at[i]
               w == Len(parts[i])
    <3>1. a \in Nat /\ b \in Nat /\ w \in Nat /\ b = a + w
      BY <1>1, <1>2
    <3>2. ASSUME NEW p \in 1..b
          PROVE  \E j \in 1..i : \E k \in 1..Len(parts[j]) : p = at[j - 1] + k
      <4> HIDE DEF a, b, w
      <4>1. CASE p \in 1..a
        <5>1. PICK j \in 1..(i - 1) : \E k \in 1..Len(parts[j]) : p = at[j - 1] + k
          BY <2>2, <4>1 DEF a
        <5>2. j \in 1..i
          BY <5>1
        <5> QED BY <5>1, <5>2
      <4>2. CASE p \notin 1..a
        <5>1. p - a \in 1..w /\ p = a + (p - a)
          BY <3>1, <4>2
        <5>2. i \in 1..i
          OBVIOUS
        <5> QED BY <5>1, <5>2 DEF a, w
      <4> QED BY <4>1, <4>2
    <3> QED BY <1>2, <3>2
  <2> HIDE DEF T
  <2>3. \A i \in 0..n : i \in T
    BY <1>1, <2>1, <2>2, BoundedInduction
  <2> QED BY <1>1, <2>3
<1>5. \A i \in 1..n : at[i] <= Len(flat)
  BY <1>1, <1>2, <1>3
<1>6. \A p \in 1..Len(flat) : \E i \in 1..n : \E k \in 1..Len(parts[i]) : p = at[i - 1] + k
  BY <1>1, <1>4
<1> QED BY <1>5, <1>6 DEF n, Covered

\* Of everything a call says, what it says of reading a source is that source's part.
LEMMA OwnOfFlat ==
  ASSUME NEW id, NEW output, IsSequence(output), OwnAt(output, id) = {},
         NEW parts, IsSequence(parts), NEW flat, IsSequence(flat),
         NEW at, Laid(parts, flat, at),
         NEW j \in DOMAIN parts, Own(parts, j, id)
  PROVE  OwnOf(output \o flat, id) = parts[j]
<1> DEFINE q == output \o flat
           o == Len(output)
           f == Len(flat)
           w == Len(parts[j])
           a == at[j - 1]
           l == o + a
           S == OwnAt(q, id)
<1>1. /\ IsSequence(q) /\ Len(q) = o + f /\ o \in Nat /\ f \in Nat
      /\ DOMAIN output = 1..o /\ DOMAIN q = 1..Len(q)
      /\ \A i \in 1..o : q[i] = output[i]
      /\ \A i \in 1..f : q[o + i] = flat[i]
      /\ \A p \in 1..(o + f) : p \in 1..o \/ \E i \in 1..f : p = o + i
  <2>1. Join(q, output, flat)
    BY Joined
  <2> QED BY <2>1 DEF Join
<1>2. Len(parts) \in Nat /\ DOMAIN parts = 1..Len(parts)
  BY InSeq DEF IsSequence
<1>3. \A i \in 1..Len(parts) : /\ IsSequence(parts[i]) /\ Len(parts[i]) \in Nat
                               /\ DOMAIN parts[i] = 1..Len(parts[i])
  <2> TAKE i \in 1..Len(parts)
  <2>1. IsSequence(parts[i])
    BY <1>2 DEF Own, Reading
  <2> QED BY <2>1, InSeq DEF IsSequence
<1>4. /\ \A i \in 1..Len(parts) : at[i] <= f
      /\ \A p \in 1..f : \E i \in 1..Len(parts) : \E k \in 1..Len(parts[i]) : p = at[i - 1] + k
  <2>1. Lengths(parts)
    BY <1>2, <1>3 DEF Lengths
  <2>2. Covered(parts, flat, at)
    BY <2>1, LaidCovers
  <2> QED BY <2>2 DEF Covered
<1>5. /\ at \in [0..Len(parts) -> Nat]
      /\ \A i \in 1..Len(parts) : /\ at[i] = at[i - 1] + Len(parts[i])
                                  /\ \A k \in 1..Len(parts[i]) : flat[at[i - 1] + k] = parts[i][k]
  BY DEF Laid
<1>6. a \in Nat /\ w \in Nat /\ a + w <= f /\ l \in Nat
  <2>1. j \in 1..Len(parts) /\ j - 1 \in 0..Len(parts) /\ j \in 0..Len(parts)
    BY <1>2
  <2>2. at[j] = a + w /\ at[j] <= f /\ a \in Nat /\ w \in Nat
    BY <1>3, <1>4, <1>5, <2>1
  <2> HIDE DEF a, w
  <2> QED BY <1>1, <2>2
<1>7. \A k \in 1..w : flat[a + k] = parts[j][k]
  BY <1>2, <1>5
<1>8. \A k \in 1..w : parts[j][k].source = id /\ parts[j][k].kind \in {"Input", "SourceError"}
  BY <1>2, <1>3 DEF Own, Reading, ReadKinds
<1>9. \A i \in 1..Len(parts) : i # j => \A k \in 1..Len(parts[i]) : parts[i][k].source # id
  BY <1>2, <1>3 DEF Own, Reading
<1> HIDE DEF q, o, f, w, a
<1>10. ASSUME NEW k \in 1..w
       PROVE  l + k \in DOMAIN q /\ q[l + k] = parts[j][k]
  <2>1. a + k \in 1..f /\ l + k = o + (a + k) /\ l + k \in 1..(o + f)
    BY <1>1, <1>6
  <2> DEFINE p == a + k
  <2> HIDE DEF p, l
  <2>2. p \in 1..f /\ l + k = o + p /\ flat[p] = parts[j][k]
    BY <1>7, <2>1 DEF p
  <2>3. q[o + p] = flat[p]
    BY <1>1, <2>2
  <2> QED BY <1>1, <2>1, <2>2, <2>3
<1>11. \A k \in 1..w : l + k \in S
  BY <1>8, <1>10 DEF OwnAt
<1>12. ASSUME NEW p \in S PROVE \E k \in 1..w : p = l + k
  <2>1. p \in 1..(o + f) /\ q[p].source = id /\ q[p].kind \in {"Input", "SourceError"}
    BY <1>1 DEF OwnAt
  <2>2. p \notin 1..o
    <3>1. SUFFICES ASSUME p \in 1..o PROVE FALSE
      OBVIOUS
    <3>2. q[p] = output[p] /\ p \in DOMAIN output
      BY <1>1, <3>1
    <3>3. p \in OwnAt(output, id)
      BY <2>1, <3>2 DEF OwnAt
    <3> QED BY <3>3
  <2>3. PICK h \in 1..f : p = o + h
    BY <1>1, <2>1, <2>2
  <2>4. q[p] = flat[h]
    BY <1>1, <2>3
  <2>5. PICK i \in 1..Len(parts) : \E k \in 1..Len(parts[i]) : h = at[i - 1] + k
    BY <1>4
  <2>6. PICK k \in 1..Len(parts[i]) : h = at[i - 1] + k
    BY <2>5
  <2>7. flat[h] = parts[i][k]
    BY <1>5, <2>6
  <2>8. i = j
    BY <1>9, <2>1, <2>4, <2>7
  <2>9. k \in 1..w /\ h = a + k
    BY <2>6, <2>8 DEF w, a
  <2>10. p = l + k
    BY <1>1, <1>6, <2>3, <2>9
  <2> QED BY <2>9, <2>10
<1> HIDE DEF S, l
<1>13. S \cap (1..Len(q)) = (l + 1)..(l + w)
  <2>1. ASSUME NEW p \in S PROVE p \in (l + 1)..(l + w)
    <3>1. PICK k \in 1..w : p = l + k
      BY <1>12
    <3> QED BY <1>6, <3>1
  <2>2. ASSUME NEW p \in (l + 1)..(l + w) PROVE p \in S
    <3>1. p - l \in 1..w /\ p = l + (p - l)
      BY <1>6
    <3> QED BY <1>11, <3>1
  <2>3. \A p \in S : p \in 1..Len(q)
    BY <1>1 DEF S, OwnAt
  <2> QED BY <2>1, <2>2, <2>3
<1>14. /\ IsSequence(Chosen(q, S)) /\ Len(Chosen(q, S)) = w
       /\ \A k \in 1..w : Chosen(q, S)[k] = q[l + k]
  <2>1. Neighbours(S, q, l, w)
    BY <1>13 DEF Neighbours
  <2>2. Segment(Chosen(q, S), q, l, w)
    BY <1>1, <1>6, <2>1, ChosenSegment
  <2> QED BY <2>2 DEF Segment
<1>15. \A k \in 1..w : Chosen(q, S)[k] = parts[j][k]
  BY <1>10, <1>14
<1>16. IsSequence(parts[j]) /\ Len(parts[j]) = w
  BY <1>2, <1>3 DEF w
<1>17. Chosen(q, S) = parts[j]
  <2> DEFINE c == Chosen(q, S)
  <2>1. IsSequence(c) /\ Len(c) = Len(parts[j]) /\ \A i \in 1..Len(c) : c[i] = parts[j][i]
    BY <1>14, <1>15, <1>16
  <2> HIDE DEF c
  <2>2. c = parts[j]
    BY <1>16, <2>1, SameSequence
  <2> QED BY <2>2 DEF c
<1> QED BY <1>17 DEF S, q, OwnOf

\* A call reads an open source once, and so does say of it what it answers.
LEMMA OwnOfReading ==
  ASSUME NEW s \in Scripts, NEW open, Opened(open, s.plans), NEW id \in DOMAIN open,
         NEW output, IsSequence(output), OwnAt(output, id) = {}
  PROVE  OwnOf(output \o ReadAll(open), id) = EventsOf(id, ReadOf(open[id]))
<1> DEFINE flat == ReadAll(open)
           own == EventsOf(id, ReadOf(open[id]))
<1>1. PICK parts, at :
        /\ IsSequence(parts) /\ Laid(parts, flat, at)
        /\ \E j \in DOMAIN parts : parts[j] = own /\ Own(parts, j, id)
  <2>1. PICK parts, at : Pass(open, parts) /\ Laid(parts, flat, at)
    BY ReadAllIsSequence
  <2> QED BY <2>1 DEF Pass
<1>2. PICK j \in DOMAIN parts : parts[j] = own /\ Own(parts, j, id)
  BY <1>1
<1>3. IsSequence(flat)
  BY ReadAllIsSequence
<1> HIDE DEF flat, own
<1>4. OwnOf(output \o flat, id) = parts[j]
  BY <1>1, <1>2, <1>3, OwnOfFlat
<1> QED BY <1>2, <1>4 DEF flat, own

\* Reading says nothing of sources coming and going.
LEMMA ReadingSays ==
  ASSUME NEW s \in Scripts, NEW open, Opened(open, s.plans),
         NEW output, IsSequence(output), NEW id, NEW kind \in {"Connected", "Disconnected"}
  PROVE  Says(output \o ReadAll(open), id, kind) <=> Says(output, id, kind)
<1> DEFINE flat == ReadAll(open)
           q == output \o flat
           o == Len(output)
           f == Len(flat)
<1>1. PICK parts, at :
        /\ IsSequence(parts) /\ Laid(parts, flat, at)
        /\ \A i \in DOMAIN parts : \E own : Reading(parts[i], own)
  BY ReadAllIsSequence DEF Pass
<1>2. IsSequence(flat)
  BY ReadAllIsSequence
<1> HIDE DEF flat
<1>3. /\ DOMAIN output = 1..o /\ DOMAIN q = 1..(o + f) /\ o \in Nat /\ f \in Nat
      /\ \A i \in 1..o : q[i] = output[i]
      /\ \A i \in 1..f : q[o + i] = flat[i]
      /\ \A p \in 1..(o + f) : p \in 1..o \/ \E i \in 1..f : p = o + i
  <2>1. Join(q, output, flat)
    BY <1>2, Joined
  <2> QED BY <2>1 DEF Join
<1>4. \A i \in 1..f : flat[i].kind \in ReadKinds
  <2>1. Len(parts) \in Nat /\ DOMAIN parts = 1..Len(parts)
    BY <1>1, InSeq DEF IsSequence
  <2>2. \A i \in 1..Len(parts) : /\ Len(parts[i]) \in Nat /\ DOMAIN parts[i] = 1..Len(parts[i])
                                 /\ \A k \in DOMAIN parts[i] : parts[i][k].kind \in ReadKinds
    <3> TAKE i \in 1..Len(parts)
    <3>1. IsSequence(parts[i]) /\ \A k \in DOMAIN parts[i] : parts[i][k].kind \in ReadKinds
      BY <1>1, <2>1 DEF Reading
    <3> QED BY <3>1, InSeq DEF IsSequence
  <2>3. Lengths(parts)
    BY <2>1, <2>2 DEF Lengths
  <2>4. Covered(parts, flat, at)
    BY <1>1, <2>3, LaidCovers
  <2> TAKE p \in 1..f
  <2>5. PICK i \in 1..Len(parts) : \E k \in 1..Len(parts[i]) : p = at[i - 1] + k
    BY <2>4 DEF Covered
  <2>6. PICK k \in 1..Len(parts[i]) : p = at[i - 1] + k
    BY <2>5
  <2>7. flat[p] = parts[i][k]
    BY <1>1, <2>6 DEF Laid
  <2> QED BY <2>2, <2>7
<1> HIDE DEF o, f, q
<1>5. ASSUME Says(output, id, kind) PROVE Says(q, id, kind)
  <2>1. PICK i \in 1..o : output[i].source = id /\ output[i].kind = kind
    BY <1>3, <1>5 DEF Says, Range
  <2>2. q[i] = output[i] /\ i \in DOMAIN q
    BY <1>3
  <2> QED BY <2>1, <2>2 DEF Says, Range
<1>6. ASSUME Says(q, id, kind) PROVE Says(output, id, kind)
  <2>1. PICK p \in 1..(o + f) : q[p].source = id /\ q[p].kind = kind
    BY <1>3, <1>6 DEF Says, Range
  <2>2. CASE p \in 1..o
    <3>1. q[p] = output[p] /\ p \in DOMAIN output
      BY <1>3, <2>2
    <3> QED BY <2>1, <3>1 DEF Says, Range
  <2>3. CASE p \notin 1..o
    <3>1. PICK i \in 1..f : p = o + i
      BY <1>3, <2>3
    <3>2. q[p] = flat[i]
      BY <1>3, <3>1
    <3>3. q[p].kind \in ReadKinds
      BY <1>4, <3>2
    <3> QED BY <2>1, <3>3 DEF ReadKinds
  <2> QED BY <2>2, <2>3
<1> QED BY <1>5, <1>6 DEF q, flat

\* What is left of a sequence after its first i elements.
After(r, q, i) ==
  /\ Len(r) = IF i <= Len(q) THEN Len(q) - i ELSE 0
  /\ \A k \in 1..Len(r) : r[k] = q[i + k]

LEMMA AfterMore ==
  ASSUME NEW C, NEW r \in Seq(C), NEW q \in Seq(C), NEW i \in Nat, After(r, q, i)
  PROVE  /\ r # <<>> => i + 1 <= Len(q) /\ Head(r) = q[i + 1] /\ After(Tail(r), q, i + 1)
         /\ r = <<>> => i + 1 > Len(q) /\ After(r, q, i + 1)
<1>1. /\ Len(r) = (IF i <= Len(q) THEN Len(q) - i ELSE 0) /\ Len(r) \in Nat /\ Len(q) \in Nat
      /\ \A k \in 1..Len(r) : r[k] = q[i + k]
  BY DEF After
<1>2. ASSUME r # <<>>
      PROVE  i + 1 <= Len(q) /\ Head(r) = q[i + 1] /\ After(Tail(r), q, i + 1)
  <2> DEFINE t == Tail(r)
             n == Len(r)
             w == Len(q)
  <2>1. /\ n \in Nat /\ n # 0 /\ Len(t) = n - 1 /\ Head(r) = r[1]
        /\ \A k \in 1..(n - 1) : t[k] = r[k + 1]
    BY <1>1, <1>2, HeadTailProperties
  <2> HIDE DEF t, n, w
  <2>2. n = w - i /\ i + 1 <= w /\ w \in Nat
    BY <1>1, <2>1 DEF n, w
  <2>3. Head(r) = q[i + 1]
    <3>1. 1 \in 1..n
      BY <2>1
    <3>2. r[1] = q[i + 1]
      BY <1>1, <3>1 DEF n
    <3> QED BY <2>1, <3>2
  <2>4. ASSUME NEW k \in 1..(n - 1) PROVE t[k] = q[(i + 1) + k]
    <3> DEFINE h == k + 1
    <3>2. h \in 1..n /\ i + h = (i + 1) + k /\ t[k] = r[h]
      BY <2>1
    <3> HIDE DEF h
    <3>3. r[h] = q[i + h]
      BY <1>1, <3>2 DEF n
    <3>4. q[i + h] = q[(i + 1) + k]
      BY <3>2
    <3> QED BY <3>2, <3>3, <3>4
  <2>5. Len(t) = IF i + 1 <= w THEN w - (i + 1) ELSE 0
    BY <2>1, <2>2
  <2>6. \A k \in 1..Len(t) : t[k] = q[(i + 1) + k]
    BY <2>1, <2>4
  <2>7. After(t, q, i + 1)
    BY <2>5, <2>6 DEF After, w
  <2> QED BY <2>2, <2>3, <2>7 DEF t, w
<1>3. ASSUME r = <<>> PROVE i + 1 > Len(q) /\ After(r, q, i + 1)
  <2>1. Len(r) = 0
    BY <1>3
  <2>2. i + 1 > Len(q)
    BY <1>1, <2>1
  <2>3. ~(i + 1 <= Len(q)) /\ \A k \in 1..Len(r) : r[k] = q[(i + 1) + k]
    BY <1>1, <2>1, <2>2
  <2> QED BY <2>1, <2>2, <2>3 DEF After
<1> QED BY <1>2, <1>3

\* The next read of a source that i of its plan's reads are behind is the one after them.
LEMMA ReadNext ==
  ASSUME NEW C, NEW open, {"descriptor", "reads"} \subseteq DOMAIN open, open.reads \in Seq(C),
         NEW q \in Seq(C), NEW i \in Nat, After(open.reads, q, i)
  PROVE  ReadOf(open) = ReadAt(q, i + 1) /\ After(Consumed(open).reads, q, i + 1)
<1> DEFINE r == open.reads
           left == IF r = <<>> THEN r ELSE Tail(r)
<1>1. r \in Seq(C) /\ After(r, q, i)
  OBVIOUS
<1>2. Consumed(open) = [open EXCEPT !.reads = left]
  BY DEF Consumed, AfterRead
<1>3. ReadOf(open) = IF r = <<>> THEN Some(<<>>) ELSE Head(r)
  BY DEF ReadOf
<1> HIDE DEF r, left
<1>4. Consumed(open).reads = left
  BY <1>2
<1>5. Len(q) \in Nat
  OBVIOUS
<1>6. CASE r = <<>>
  <2>1. i + 1 > Len(q) /\ After(r, q, i + 1)
    BY <1>1, <1>6, AfterMore
  <2>2. left = r
    BY <1>6 DEF left
  <2> QED BY <1>3, <1>4, <1>6, <2>1, <2>2 DEF ReadAt
<1>7. CASE r # <<>>
  <2>1. i + 1 <= Len(q) /\ Head(r) = q[i + 1] /\ After(Tail(r), q, i + 1)
    BY <1>1, <1>7, AfterMore
  <2>2. left = Tail(r) /\ ~(i + 1 > Len(q))
    BY <1>5, <1>7, <2>1 DEF left
  <2> QED BY <1>3, <1>4, <1>7, <2>1, <2>2 DEF ReadAt
<1> QED BY <1>6, <1>7

-----------------------------------------------------------------------------
(* A source's connections, along a session's calls.                        *)

With(calls, id, kind) == {n \in DOMAIN calls : Says(calls[n].events, id, kind)}
Going(calls, id, s, n) == \A m \in With(calls, id, "Disconnected") : ~(s < m /\ m <= n)
RankOf(calls, id, s) == Cardinality(With(calls, id, "Connected") \cap (1..s))
Answered(calls) == {m \in DOMAIN calls : calls[m].call # "error"}
Turns(calls, s, n) == Cardinality(Answered(calls) \cap (s..n))

\* One call more.
Grown(calls2, calls, x) ==
  /\ Len(calls) \in Nat /\ DOMAIN calls = 1..Len(calls)
  /\ Len(calls2) = Len(calls) + 1 /\ DOMAIN calls2 = 1..(Len(calls) + 1)
  /\ calls2[Len(calls) + 1] = x
  /\ \A k \in 1..Len(calls) : calls2[k] = calls[k]

LEMMA LogIsGrown ==
  ASSUME NEW calls, Logged(calls), NEW x
  PROVE  Grown(Append(calls, x), calls, x)
<1> DEFINE C == Range(calls) \cup {x}
           d == Append(calls, x)
<1>1. calls \in Seq(C) /\ x \in C
  <2>1. calls \in Seq(Range(calls))
    BY DEF Logged, IsSequence
  <2> QED BY <2>1, SeqMonotonic
<1> HIDE DEF C
<1>2. Longer(d, calls, x, C)
  BY <1>1, Appended
<1>3. DOMAIN calls = 1..Len(calls) /\ Len(calls) \in Nat /\ DOMAIN d = 1..Len(d)
  BY <1>1, <1>2, InSeq DEF Longer
<1> HIDE DEF d
<1>4. Grown(d, calls, x)
  BY <1>2, <1>3 DEF Longer, Grown
<1> QED BY <1>4 DEF d

\* A call that says it is one more, a call that does not leaves them as they were.
LEMMA WithGrown ==
  ASSUME NEW calls, NEW x, NEW calls2, Grown(calls2, calls, x), NEW id, NEW kind
  PROVE  LET W == With(calls, id, kind)
             l == Len(calls)
         IN /\ W \subseteq 1..l /\ IsFiniteSet(W) /\ Cardinality(W) \in Nat
            /\ Says(x.events, id, kind) => /\ With(calls2, id, kind) = W \cup {l + 1}
                                           /\ Cardinality(With(calls2, id, kind)) = Cardinality(W) + 1
            /\ ~Says(x.events, id, kind) => With(calls2, id, kind) = W
<1> DEFINE W == With(calls, id, kind)
           W2 == With(calls2, id, kind)
           l == Len(calls)
<1>1. /\ l \in Nat /\ DOMAIN calls = 1..l /\ DOMAIN calls2 = 1..(l + 1)
      /\ calls2[l + 1] = x /\ \A k \in 1..l : calls2[k] = calls[k]
  BY DEF Grown
<1> HIDE DEF l
<1>2. W \subseteq 1..l
  BY <1>1 DEF With
<1>3. IsFiniteSet(W) /\ Cardinality(W) \in Nat
  <2>1. IsFiniteSet(1..l)
    BY <1>1, FS_Interval
  <2> HIDE DEF W
  <2> QED BY <1>2, <2>1, FS_Subset, FS_CardinalityType
<1>4. l + 1 \in 1..(l + 1) /\ l + 1 \notin 1..l /\ \A k \in 1..l : k \in 1..(l + 1)
  BY <1>1
<1>5. \A k \in 1..(l + 1) : k = l + 1 \/ k \in 1..l
  BY <1>1
<1>6. \A k \in 1..l : k \in W2 <=> k \in W
  BY <1>1, <1>4 DEF With
<1>7. l + 1 \in W2 <=> Says(x.events, id, kind)
  BY <1>1, <1>4 DEF With
<1>8. W2 \subseteq 1..(l + 1)
  BY <1>1 DEF With
<1> HIDE DEF W, W2
<1>9. ASSUME Says(x.events, id, kind)
      PROVE  W2 = W \cup {l + 1} /\ Cardinality(W2) = Cardinality(W) + 1
  <2>1. W2 = W \cup {l + 1}
    BY <1>2, <1>4, <1>5, <1>6, <1>7, <1>8, <1>9
  <2>2. l + 1 \notin W
    BY <1>2, <1>4
  <2>3. Cardinality(W \cup {l + 1}) = Cardinality(W) + 1
    BY <1>3, <2>2, FS_AddElement
  <2> QED BY <2>1, <2>3
<1>10. ASSUME ~Says(x.events, id, kind) PROVE W2 = W
  BY <1>2, <1>4, <1>5, <1>6, <1>7, <1>8, <1>10
<1> QED BY <1>2, <1>3, <1>9, <1>10 DEF W, W2, l

Before(calls2, calls, id, s, n) ==
  /\ Going(calls2, id, s, n) <=> Going(calls, id, s, n)
  /\ RankOf(calls2, id, s) = RankOf(calls, id, s)
  /\ Turns(calls2, s, n) = Turns(calls, s, n)
  /\ s \in With(calls2, id, "Connected") <=> s \in With(calls, id, "Connected")
  /\ calls2[n] = calls[n]

\* What was is as it was.
LEMMA AsBefore ==
  ASSUME NEW calls, NEW x, NEW calls2, Grown(calls2, calls, x), NEW id,
         NEW s \in 1..Len(calls), NEW n \in s..Len(calls)
  PROVE  Before(calls2, calls, id, s, n)
<1> DEFINE l == Len(calls)
           K == With(calls, id, "Connected")
           K2 == With(calls2, id, "Connected")
           D == With(calls, id, "Disconnected")
           D2 == With(calls2, id, "Disconnected")
           A == Answered(calls)
           A2 == Answered(calls2)
<1>1. /\ l \in Nat /\ DOMAIN calls = 1..l /\ DOMAIN calls2 = 1..(l + 1)
      /\ \A k \in 1..l : calls2[k] = calls[k]
  BY DEF Grown
<1>2. s \in Nat /\ n \in Nat /\ 1 <= s /\ s <= n /\ n <= l
  BY <1>1
<1>3. \A k \in 1..l : (k \in K2 <=> k \in K) /\ (k \in D2 <=> k \in D) /\ (k \in A2 <=> k \in A)
  <2>1. \A k \in 1..l : k \in 1..(l + 1)
    BY <1>1
  <2> QED BY <1>1, <2>1 DEF With, Answered
<1>4. D \subseteq Nat /\ D2 \subseteq Nat
  BY <1>1 DEF With
<1> HIDE DEF l, K, K2, D, D2, A, A2
<1>5. ASSUME NEW m \in Nat, s < m, m <= n PROVE m \in D2 <=> m \in D
  <2>1. m \in 1..l
    BY <1>1, <1>2, <1>5
  <2> QED BY <1>3, <2>1
<1>6. K2 \cap (1..s) = K \cap (1..s)
  <2>1. \A k \in 1..s : k \in 1..l
    BY <1>1, <1>2
  <2> QED BY <1>3, <2>1
<1>7. A2 \cap (s..n) = A \cap (s..n)
  <2>1. \A k \in s..n : k \in 1..l
    BY <1>1, <1>2
  <2> QED BY <1>3, <2>1
<1>8. Going(calls2, id, s, n) <=> Going(calls, id, s, n)
  BY <1>4, <1>5 DEF Going, D, D2
<1>9. s \in 1..l /\ n \in 1..l
  BY <1>1, <1>2
<1> QED BY <1>1, <1>3, <1>6, <1>7, <1>8, <1>9 DEF Before, RankOf, Turns, K, K2, A, A2

\* A source connected before stays so unless this call says otherwise.
LEMMA OneMore ==
  ASSUME NEW calls, NEW x, NEW calls2, Grown(calls2, calls, x), NEW id, NEW s \in 1..Len(calls)
  PROVE  LET n == Len(calls) + 1
         IN /\ Going(calls2, id, s, n) <=>
                 Going(calls, id, s, Len(calls)) /\ ~Says(x.events, id, "Disconnected")
            /\ Turns(calls, s, Len(calls)) \in Nat
            /\ x.call # "error" => Turns(calls2, s, n) = Turns(calls, s, Len(calls)) + 1
            /\ x.call = "error" => Turns(calls2, s, n) = Turns(calls, s, Len(calls))
<1> DEFINE l == Len(calls)
           D == With(calls, id, "Disconnected")
           D2 == With(calls2, id, "Disconnected")
           A == Answered(calls)
           A2 == Answered(calls2)
           T == A \cap (s..l)
<1>1. /\ l \in Nat /\ DOMAIN calls = 1..l /\ DOMAIN calls2 = 1..(l + 1)
      /\ calls2[l + 1] = x /\ \A k \in 1..l : calls2[k] = calls[k]
  BY DEF Grown
<1>2. s \in Nat /\ 1 <= s /\ s <= l
  BY <1>1
<1>3. /\ D \subseteq 1..l
      /\ Says(x.events, id, "Disconnected") => D2 = D \cup {l + 1}
      /\ ~Says(x.events, id, "Disconnected") => D2 = D
  BY WithGrown
<1>4. \A k \in 1..l : k \in A2 <=> k \in A
  <2>1. \A k \in 1..l : k \in 1..(l + 1)
    BY <1>1
  <2> QED BY <1>1, <2>1 DEF Answered
<1>5. l + 1 \in A2 <=> x.call # "error"
  <2>1. l + 1 \in 1..(l + 1)
    BY <1>1
  <2> QED BY <1>1, <2>1 DEF Answered
<1> HIDE DEF l, D, D2, A, A2
<1>6. Going(calls2, id, s, l + 1) <=> Going(calls, id, s, l) /\ ~Says(x.events, id, "Disconnected")
  <2>1. CASE Says(x.events, id, "Disconnected")
    <3>1. l + 1 \in D2 /\ s < l + 1 /\ l + 1 <= l + 1
      BY <1>1, <1>2, <1>3, <2>1
    <3> QED BY <2>1, <3>1 DEF Going, D2
  <2>2. CASE ~Says(x.events, id, "Disconnected")
    <3>1. \A m \in D : m <= l + 1 <=> m <= l
      BY <1>1, <1>3
    <3>2. D2 = D
      BY <1>3, <2>2
    <3> QED BY <2>2, <3>1, <3>2 DEF Going, D, D2
  <2> QED BY <2>1, <2>2
<1>7. IsFiniteSet(T) /\ Cardinality(T) \in Nat
  <2>1. IsFiniteSet(s..l)
    BY <1>1, <1>2, FS_Interval
  <2> QED BY <2>1, FS_Subset, FS_CardinalityType
<1>8. \A k \in s..(l + 1) : k = l + 1 \/ k \in s..l
  BY <1>1, <1>2
<1>9. \A k \in s..l : k \in 1..l /\ k \in s..(l + 1)
  BY <1>1, <1>2
<1>10. l + 1 \in s..(l + 1) /\ l + 1 \notin s..l
  BY <1>1, <1>2
<1>11. ASSUME x.call # "error" PROVE Cardinality(A2 \cap (s..(l + 1))) = Cardinality(T) + 1
  <2>1. A2 \cap (s..(l + 1)) = T \cup {l + 1} /\ l + 1 \notin T
    BY <1>4, <1>5, <1>8, <1>9, <1>10, <1>11
  <2> HIDE DEF T
  <2>2. Cardinality(T \cup {l + 1}) = Cardinality(T) + 1
    BY <1>7, <2>1, FS_AddElement
  <2> QED BY <2>1, <2>2
<1>12. ASSUME x.call = "error" PROVE A2 \cap (s..(l + 1)) = T
  BY <1>4, <1>5, <1>8, <1>9, <1>10, <1>12
<1> QED BY <1>6, <1>7, <1>11, <1>12 DEF Turns, A, A2, T, l

\* A source that this call connects.
LEMMA FirstTurn ==
  ASSUME NEW calls, NEW x, NEW calls2, Grown(calls2, calls, x), NEW id, x.call # "error"
  PROVE  LET n == Len(calls) + 1
         IN /\ Turns(calls2, n, n) = 1
            /\ RankOf(calls2, id, n) = Cardinality(With(calls2, id, "Connected"))
<1> DEFINE l == Len(calls)
           n == l + 1
           A2 == Answered(calls2)
           K2 == With(calls2, id, "Connected")
<1>1. l \in Nat /\ DOMAIN calls2 = 1..n /\ calls2[n] = x /\ n \in Nat /\ 1 <= n
  BY DEF Grown
<1> HIDE DEF l, n
<1>2. n \in A2
  BY <1>1 DEF Answered
<1>3. K2 \subseteq 1..n
  BY <1>1 DEF With
<1> HIDE DEF A2, K2
<1>4. A2 \cap (n..n) = {n}
  <2>1. n..n = {n}
    BY <1>1
  <2> QED BY <1>2, <2>1
<1>5. Cardinality({n}) = 1
  BY FS_Singleton
<1>6. K2 \cap (1..n) = K2
  BY <1>3
<1> QED BY <1>4, <1>5, <1>6 DEF Turns, RankOf, A2, K2, n, l

\* What a call says of reading a connected source is what the next read of its plan says.
Replayed(calls, own, id) ==
  \A s \in With(calls, id, "Connected") : \A n \in s..Len(calls) :
    Going(calls, id, s, n) /\ calls[n].call # "error" =>
      OwnOf(calls[n].events, id)
        = EventsOf(id, ReadAt(own[RankOf(calls, id, s)].reads, Turns(calls, s, n)))

\* A source that is still connected is open, with its latest plan, of which it has read
\* as many reads as it had turns.
Current(calls, open, own, id, s) ==
  LET c == Cardinality(With(calls, id, "Connected"))
  IN /\ id \in DOMAIN open /\ RankOf(calls, id, s) = c
     /\ After(open[id].reads, own[c].reads, Turns(calls, s, Len(calls)))

Plays(calls, left, open, own, id) ==
  LET K == With(calls, id, "Connected")
  IN /\ Cardinality(K) <= Len(own) /\ After(left, own, Cardinality(K))
     /\ \A s \in K : Going(calls, id, s, Len(calls)) => Current(calls, open, own, id, s)
     /\ Replayed(calls, own, id)

\* A call that failed moves nothing.
LEMMA ErrorPlays ==
  ASSUME NEW calls, NEW x, x.call = "error", x.events = <<>>,
         NEW calls2, Grown(calls2, calls, x), NEW id, NEW own, NEW left, NEW open,
         Plays(calls, left, open, own, id)
  PROVE  Plays(calls2, left, open, own, id)
<1> DEFINE l == Len(calls)
           K == With(calls, id, "Connected")
           K2 == With(calls2, id, "Connected")
<1>1. l \in Nat /\ Len(calls2) = l + 1 /\ calls2[l + 1] = x
  BY DEF Grown
<1>2. \A kind : ~Says(x.events, id, kind)
  <2>1. Range(x.events) = {}
    <3>1. DOMAIN <<>> = {}
      OBVIOUS
    <3> QED BY <3>1 DEF Range
  <2> QED BY <2>1 DEF Says
<1>3. K2 = K /\ K \subseteq 1..l
  BY <1>2, WithGrown
<1>4. /\ Cardinality(K) <= Len(own) /\ After(left, own, Cardinality(K))
      /\ \A s \in K : Going(calls, id, s, l) => Current(calls, open, own, id, s)
      /\ Replayed(calls, own, id)
  BY DEF Plays
<1>5. \A s \in 1..l : /\ Going(calls2, id, s, l + 1) <=> Going(calls, id, s, l)
                      /\ Turns(calls2, s, l + 1) = Turns(calls, s, l)
  BY <1>2, OneMore
<1>6. \A s \in 1..l : \A n \in s..l :
        /\ Going(calls2, id, s, n) <=> Going(calls, id, s, n)
        /\ RankOf(calls2, id, s) = RankOf(calls, id, s)
        /\ Turns(calls2, s, n) = Turns(calls, s, n) /\ calls2[n] = calls[n]
  <2>1. \A s \in 1..l : \A m \in s..l : Before(calls2, calls, id, s, m)
    BY AsBefore
  <2> QED BY <2>1 DEF Before
<1> HIDE DEF l, K, K2
<1>7. ASSUME NEW s \in K2, Going(calls2, id, s, l + 1) PROVE Current(calls2, open, own, id, s)
  <2>1. s \in K /\ s \in 1..l /\ l \in s..l
    BY <1>1, <1>3
  <2>2. Current(calls, open, own, id, s) /\ Turns(calls2, s, l + 1) = Turns(calls, s, l)
    BY <1>4, <1>5, <1>7, <2>1
  <2>3. RankOf(calls2, id, s) = RankOf(calls, id, s)
    BY <1>6, <2>1
  <2> QED BY <1>1, <1>3, <2>2, <2>3 DEF Current, K, K2, l
<1>8. Replayed(calls2, own, id)
  <2>1. ASSUME NEW s \in K2, NEW n \in s..(l + 1),
               Going(calls2, id, s, n), calls2[n].call # "error"
        PROVE  OwnOf(calls2[n].events, id)
                 = EventsOf(id, ReadAt(own[RankOf(calls2, id, s)].reads, Turns(calls2, s, n)))
    <3>1. s \in K /\ s \in 1..l
      BY <1>3
    <3>2. n # l + 1
      BY <1>1, <2>1
    <3>3. n \in s..l
      BY <1>1, <3>1, <3>2
    <3>4. /\ Going(calls, id, s, n) /\ calls2[n] = calls[n]
          /\ RankOf(calls2, id, s) = RankOf(calls, id, s)
          /\ Turns(calls2, s, n) = Turns(calls, s, n)
      BY <1>6, <2>1, <3>1, <3>3
    <3>5. OwnOf(calls[n].events, id)
            = EventsOf(id, ReadAt(own[RankOf(calls, id, s)].reads, Turns(calls, s, n)))
      BY <1>4, <2>1, <3>1, <3>3, <3>4 DEF Replayed, K, l
    <3> QED BY <3>4, <3>5
  <2> QED BY <1>1, <2>1 DEF Replayed, K2
<1> QED BY <1>1, <1>3, <1>4, <1>7, <1>8 DEF Plays, K2

\* What a call that answered found of a source, and said of it.
Reported(id, x, open, left, mid, left2) ==
  /\ Says(x.events, id, "Connected") =>
       /\ id \in DOMAIN open => Says(x.events, id, "Disconnected")
       /\ left # <<>> /\ left2 = Tail(left)
       /\ id \in DOMAIN mid /\ mid[id].reads = Head(left).reads
  /\ ~Says(x.events, id, "Connected") =>
       /\ left2 = left
       /\ id \in DOMAIN open =>
            \/ Says(x.events, id, "Disconnected")
            \/ id \in DOMAIN mid /\ mid[id].reads = open[id].reads
  /\ id \in DOMAIN mid => OwnOf(x.events, id) = EventsOf(id, ReadOf(mid[id]))

Poised(calls, left, open, own, id, n) ==
  LET c == Cardinality(With(calls, id, "Connected"))
  IN /\ c <= Len(own) /\ After(left, own, c)
     /\ \A s \in With(calls, id, "Connected") : Going(calls, id, s, n) =>
          /\ c \in 1..Len(own) /\ id \in DOMAIN open /\ RankOf(calls, id, s) = c
          /\ \E i \in Nat : Turns(calls, s, n) = i + 1
                            /\ After(open[id].reads, own[c].reads, i)

\* Who is connected in a call, with which of its plans, and what that plan has left.
LEMMA FoundCurrent ==
  ASSUME NEW C, NEW P, \A p \in P : p.reads \in Seq(C),
         NEW calls, NEW x, x.call # "error", NEW calls2, Grown(calls2, calls, x),
         NEW id, NEW own \in Seq(P), NEW left \in Seq(P), NEW open, NEW mid, NEW left2,
         Plays(calls, left, open, own, id), Reported(id, x, open, left, mid, left2)
  PROVE  Poised(calls2, left2, mid, own, id, Len(calls) + 1)
<1> DEFINE l == Len(calls)
           n == l + 1
           K == With(calls, id, "Connected")
           K2 == With(calls2, id, "Connected")
           b == Cardinality(K)
           c == Cardinality(K2)
           on == Says(x.events, id, "Connected")
           off == Says(x.events, id, "Disconnected")
<1>1. /\ K \subseteq 1..l /\ b \in Nat
      /\ on => K2 = K \cup {n} /\ c = b + 1
      /\ ~on => K2 = K
  BY WithGrown
<1>2. l \in Nat /\ Len(own) \in Nat
  BY DEF Grown
<1>3. /\ b <= Len(own) /\ After(left, own, b) /\ Replayed(calls, own, id)
      /\ \A s \in K : Going(calls, id, s, l) => Current(calls, open, own, id, s)
  BY DEF Plays
<1>4. /\ on => /\ id \in DOMAIN open => off
               /\ left # <<>> /\ left2 = Tail(left)
               /\ id \in DOMAIN mid /\ mid[id].reads = Head(left).reads
      /\ ~on => /\ left2 = left
                /\ id \in DOMAIN open => off \/ (id \in DOMAIN mid /\ mid[id].reads = open[id].reads)
  BY DEF Reported
<1>5. \A s \in 1..l : /\ Going(calls2, id, s, n) <=> Going(calls, id, s, l) /\ ~off
                      /\ Turns(calls, s, l) \in Nat /\ Turns(calls2, s, n) = Turns(calls, s, l) + 1
  BY OneMore
<1>6. \A s \in 1..l : RankOf(calls2, id, s) = RankOf(calls, id, s)
  <2> TAKE s \in 1..l
  <2>1. s \in s..l
    BY <1>2
  <2>2. Before(calls2, calls, id, s, s)
    BY <2>1, AsBefore
  <2> QED BY <2>2 DEF Before
<1>7. Turns(calls2, n, n) = 1 /\ RankOf(calls2, id, n) = c
  BY FirstTurn
<1>8. /\ left # <<>> => b + 1 <= Len(own) /\ Head(left) = own[b + 1] /\ After(Tail(left), own, b + 1)
  BY <1>1, <1>3, AfterMore
<1> HIDE DEF l, K, K2, b, c, on, off
<1>9. c <= Len(own) /\ After(left2, own, c)
  <2>1. CASE on
    BY <1>1, <1>4, <1>8, <2>1
  <2>2. CASE ~on
    BY <1>1, <1>3, <1>4, <2>2 DEF b, c
  <2> QED BY <2>1, <2>2
<1> DEFINE Poising(s) ==
      /\ c \in 1..Len(own) /\ id \in DOMAIN mid /\ RankOf(calls2, id, s) = c
      /\ \E i \in Nat : Turns(calls2, s, n) = i + 1 /\ After(mid[id].reads, own[c].reads, i)
<1>10. ASSUME NEW s \in K, Going(calls2, id, s, n) PROVE Poising(s)
  <2>1. s \in 1..l /\ Going(calls, id, s, l) /\ ~off
    BY <1>1, <1>5, <1>10
  <2>2. /\ id \in DOMAIN open /\ RankOf(calls, id, s) = b
        /\ After(open[id].reads, own[b].reads, Turns(calls, s, l))
    BY <1>3, <2>1 DEF Current, K, b, l
  <2>3. ~on /\ K2 = K /\ c = b /\ id \in DOMAIN mid /\ mid[id].reads = open[id].reads
    BY <1>1, <1>4, <2>1, <2>2 DEF b, c
  <2>4. c \in 1..Len(own)
    <3>1. b # 0
      <4>1. IsFiniteSet(K) /\ K # {}
        BY WithGrown DEF K
      <4> QED BY <4>1, FS_EmptySet DEF b
    <3> QED BY <1>1, <1>2, <1>3, <2>3, <3>1
  <2>5. /\ Turns(calls, s, l) \in Nat /\ Turns(calls2, s, n) = Turns(calls, s, l) + 1
        /\ After(mid[id].reads, own[c].reads, Turns(calls, s, l))
    BY <1>5, <2>1, <2>2, <2>3
  <2>6. RankOf(calls2, id, s) = c
    BY <1>6, <2>1, <2>2, <2>3
  <2> QED BY <2>3, <2>4, <2>5, <2>6
<1>11. ASSUME NEW s \in K2, s \notin K PROVE Poising(s)
  <2>1. on /\ s = n /\ c = b + 1
    BY <1>1, <1>11
  <2>2. id \in DOMAIN mid /\ mid[id].reads = Head(left).reads /\ Head(left) = own[c] /\ c <= Len(own)
    BY <1>4, <1>8, <2>1
  <2>3. c \in 1..Len(own)
    BY <1>1, <1>2, <2>1, <2>2
  <2>4. own[c].reads \in Seq(C)
    BY <2>3
  <2>5. After(own[c].reads, own[c].reads, 0)
    <3> DEFINE q == own[c].reads
    <3>1. q \in Seq(C)
      BY <2>4
    <3> HIDE DEF q
    <3>2. After(q, q, 0)
      BY <3>1 DEF After
    <3> QED BY <3>2 DEF q
  <2>6. Turns(calls2, s, n) = 0 + 1 /\ RankOf(calls2, id, s) = c
    BY <1>7, <2>1
  <2>7. After(mid[id].reads, own[c].reads, 0)
    BY <2>2, <2>5
  <2> QED BY <2>2, <2>3, <2>6, <2>7
<1>12. \A s \in K2 : Going(calls2, id, s, n) => Poising(s)
  BY <1>10, <1>11
<1>13. Poised(calls2, left2, mid, own, id, n)
  BY <1>9, <1>12 DEF Poised, K2, c
<1> QED BY <1>13 DEF n, l

\* Its next read is the one the call says, and one less is left of its plan.
LEMMA CallPlays ==
  ASSUME NEW C, NEW P, \A p \in P : p.reads \in Seq(C),
         NEW calls, NEW x, x.call # "error", NEW calls2, Grown(calls2, calls, x),
         NEW id, NEW own \in Seq(P), NEW left \in Seq(P), NEW open, NEW mid, NEW left2,
         Plays(calls, left, open, own, id), Reported(id, x, open, left, mid, left2),
         id \in DOMAIN mid => /\ {"descriptor", "reads"} \subseteq DOMAIN mid[id]
                              /\ mid[id].reads \in Seq(C)
  PROVE  Plays(calls2, left2, [i \in DOMAIN mid |-> Consumed(mid[i])], own, id)
<1> DEFINE l == Len(calls)
           n == l + 1
           K == With(calls, id, "Connected")
           K2 == With(calls2, id, "Connected")
           c == Cardinality(K2)
           next == [i \in DOMAIN mid |-> Consumed(mid[i])]
<1>1. /\ l \in Nat /\ n \in Nat /\ Len(calls2) = n /\ calls2[n] = x /\ K2 \subseteq 1..n
  BY DEF Grown, With
<1>2. /\ c <= Len(own) /\ After(left2, own, c)
      /\ \A s \in K2 : Going(calls2, id, s, n) =>
           /\ c \in 1..Len(own) /\ id \in DOMAIN mid /\ RankOf(calls2, id, s) = c
           /\ \E i \in Nat : Turns(calls2, s, n) = i + 1
                             /\ After(mid[id].reads, own[c].reads, i)
  <2>1. Poised(calls2, left2, mid, own, id, n)
    BY FoundCurrent
  <2> QED BY <2>1 DEF Poised
<1>3. Replayed(calls, own, id)
  BY DEF Plays
<1>4. id \in DOMAIN mid => OwnOf(x.events, id) = EventsOf(id, ReadOf(mid[id]))
  BY DEF Reported
<1>5. \A s \in 1..l : \A m \in s..l :
        /\ Going(calls2, id, s, m) <=> Going(calls, id, s, m)
        /\ RankOf(calls2, id, s) = RankOf(calls, id, s)
        /\ Turns(calls2, s, m) = Turns(calls, s, m) /\ calls2[m] = calls[m]
        /\ s \in K2 <=> s \in K
  <2>1. \A s \in 1..l : \A m \in s..l : Before(calls2, calls, id, s, m)
    BY AsBefore
  <2> QED BY <2>1 DEF Before
<1>6. DOMAIN next = DOMAIN mid /\ (id \in DOMAIN mid => next[id] = Consumed(mid[id]))
  OBVIOUS
<1> HIDE DEF l, n, K, K2, c, next
<1>7. ASSUME NEW s \in K2, Going(calls2, id, s, n)
      PROVE  /\ id \in DOMAIN mid /\ RankOf(calls2, id, s) = c
             /\ ReadOf(mid[id]) = ReadAt(own[c].reads, Turns(calls2, s, n))
             /\ After(next[id].reads, own[c].reads, Turns(calls2, s, n))
  <2>1. c \in 1..Len(own) /\ id \in DOMAIN mid /\ RankOf(calls2, id, s) = c
    BY <1>2, <1>7
  <2>2. PICK i \in Nat : Turns(calls2, s, n) = i + 1 /\ After(mid[id].reads, own[c].reads, i)
    BY <1>2, <1>7
  <2>3. own[c].reads \in Seq(C)
    <3>1. own[c] \in P
      BY <2>1
    <3> QED BY <3>1
  <2> DEFINE o == mid[id]
             q == own[c].reads
  <2>4. {"descriptor", "reads"} \subseteq DOMAIN o /\ o.reads \in Seq(C) /\ q \in Seq(C)
        /\ After(o.reads, q, i) /\ i \in Nat
    BY <2>1, <2>2, <2>3
  <2> HIDE DEF o, q
  <2>5. ReadOf(o) = ReadAt(q, i + 1) /\ After(Consumed(o).reads, q, i + 1)
    BY <2>4, ReadNext
  <2> QED BY <1>6, <2>1, <2>2, <2>5 DEF o, q
<1>8. \A s \in K2 : Going(calls2, id, s, n) => Current(calls2, next, own, id, s)
  BY <1>1, <1>6, <1>7 DEF Current, c, K2
<1>9. Replayed(calls2, own, id)
  <2>1. ASSUME NEW s \in K2, NEW m \in s..n, Going(calls2, id, s, m), calls2[m].call # "error"
        PROVE  OwnOf(calls2[m].events, id)
                 = EventsOf(id, ReadAt(own[RankOf(calls2, id, s)].reads, Turns(calls2, s, m)))
    <3>1. CASE m = n
      <4>1. /\ id \in DOMAIN mid /\ RankOf(calls2, id, s) = c
            /\ ReadOf(mid[id]) = ReadAt(own[c].reads, Turns(calls2, s, n))
        BY <1>7, <2>1, <3>1
      <4> QED BY <1>1, <1>4, <3>1, <4>1
    <3>2. CASE m # n
      <4>1. s \in 1..l /\ m \in s..l
        BY <1>1, <3>2 DEF n
      <4>2. /\ Going(calls, id, s, m) /\ s \in K /\ calls2[m] = calls[m]
            /\ RankOf(calls2, id, s) = RankOf(calls, id, s)
            /\ Turns(calls2, s, m) = Turns(calls, s, m)
        BY <1>5, <2>1, <4>1
      <4>3. OwnOf(calls[m].events, id)
              = EventsOf(id, ReadAt(own[RankOf(calls, id, s)].reads, Turns(calls, s, m)))
        BY <1>3, <2>1, <4>1, <4>2 DEF Replayed, K, l
      <4> QED BY <4>2, <4>3
    <3> QED BY <3>1, <3>2
  <2> QED BY <1>1, <2>1 DEF Replayed, K2
<1>10. Plays(calls2, left2, next, own, id)
  BY <1>1, <1>2, <1>8, <1>9 DEF Plays, K2, c
<1> QED BY <1>10 DEF next

AllPlayed == \A id : Plays(log, LeftOf(sources, id), active, PlansOf(id), id)

\* The plans of a source, those it had and those it has left.
LEMMA PlansOfShape ==
  ASSUME ReplayInv, NEW id
  PROVE  LET P == Owned(script.plans, id)
             C == Played(script.plans, id)
         IN /\ PlansOf(id) \in Seq(P) /\ LeftOf(sources, id) \in Seq(P)
            /\ \A p \in P : p.reads \in Seq(C)
<1> DEFINE plans == script.plans
           S == {n \in DOMAIN plans : plans[n].source = id}
           P == Owned(plans, id)
<1>1. IsSequence(plans) /\ PlansShape(plans)
  BY ScriptShape, ScriptPlans DEF ReplayInv
<1>2. PlansOf(id) = Chosen(plans, S)
  BY DEF PlansOf
<1>3. \A m \in S \cap (1..Len(plans)) : plans[m] \in P
  BY DEF Owned, Range
<1>4. LeftOf(sources, id) \in Seq(P)
  <2>1. CASE id \in DOMAIN sources
    BY <2>1 DEF ReplayInv, Planned, LeftOf
  <2>2. CASE id \notin DOMAIN sources
    BY <2>2 DEF LeftOf
  <2> QED BY <2>1, <2>2
<1>5. \A p \in P : p.reads \in Seq(Played(plans, id))
  BY <1>1 DEF PlansShape
<1> HIDE DEF S, P, plans
<1>6. Chosen(plans, S) \in Seq(P)
  BY <1>1, <1>3, ChosenIsSequence
<1> QED BY <1>2, <1>4, <1>5, <1>6 DEF P, plans

LEMMA InitPlays ==
  ASSUME Init
  PROVE  AllPlayed
<1> SUFFICES ASSUME NEW id PROVE Plays(log, LeftOf(sources, id), active, PlansOf(id), id)
  BY DEF AllPlayed
<1> DEFINE plans == script.plans
           own == PlansOf(id)
           Of(i) == {n \in DOMAIN plans : plans[n].source = i}
           P == Owned(plans, id)
<1>1. script \in Scripts /\ log = <<>>
      /\ sources = [i \in {p.source : p \in Range(plans)} |-> Chosen(plans, Of(i))]
  BY DEF Init
<1>2. own \in Seq(P)
  BY InitHolds, PlansOfShape
<1>3. LeftOf(sources, id) = own
  <2>1. own = Chosen(plans, Of(id))
    BY DEF PlansOf
  <2>2. CASE id \in {p.source : p \in Range(plans)}
    BY <1>1, <2>1, <2>2 DEF LeftOf
  <2>3. CASE id \notin {p.source : p \in Range(plans)}
    <3>1. Of(id) = {}
      BY <2>3 DEF Range
    <3>2. IsSequence(plans)
      BY <1>1, ScriptShape
    <3> HIDE DEF plans
    <3>3. /\ Right(Chosen(plans, {}), Len(plans), plans, {}, Range(plans))
          /\ IsSequence(Chosen(plans, {}))
      BY <3>2, ChosenIsSequence
    <3>4. Len(own) = 0
      <4>1. {} \cap (1..Len(plans)) = {} /\ Cardinality({}) = 0
        BY FS_EmptySet
      <4> QED BY <2>1, <3>1, <3>3, <4>1 DEF Right
    <3>5. own = <<>>
      <4> HIDE DEF own, P
      <4> QED BY <1>2, <3>4
    <3>6. LeftOf(sources, id) = <<>>
      <4>1. DOMAIN sources = {p.source : p \in Range(plans)}
        BY <1>1
      <4> QED BY <2>3, <4>1 DEF LeftOf
    <3> QED BY <3>5, <3>6
  <2> QED BY <2>2, <2>3
<1>4. With(log, id, "Connected") = {}
  <2>1. DOMAIN log = {}
    BY <1>1
  <2> QED BY <2>1 DEF With
<1> HIDE DEF own, P
<1>5. After(own, own, 0) /\ 0 <= Len(own)
  BY <1>2 DEF After
<1>6. Cardinality({}) = 0
  BY FS_EmptySet
<1>7. Plays(log, own, active, own, id)
  BY <1>4, <1>5, <1>6 DEF Plays, Replayed
<1> QED BY <1>3, <1>7 DEF own

LEMMA PollPlays ==
  ASSUME ReplayInv, AllPlayed, Poll
  PROVE  AllPlayed'
<1> SUFFICES ASSUME NEW id
             PROVE  Plays(log', LeftOf(sources', id), active', PlansOf(id), id)
  <2>1. \A i : PlansOf(i)' = PlansOf(i)
    BY DEF Poll, PlansOf
  <2> QED BY <2>1 DEF AllPlayed
<1>1. Plays(log, LeftOf(sources, id), active, PlansOf(id), id)
  BY DEF AllPlayed
<1>2. script \in Scripts /\ Logged(log)
  BY DEF ReplayInv
<1>3. CASE Answer = None
  <2> DEFINE x == [call |-> "error", events |-> <<>>]
  <2>1. sources' = sources /\ active' = active /\ log' = Append(log, x)
    BY <1>3 DEF Poll
  <2>2. x.call = "error" /\ x.events = <<>>
    OBVIOUS
  <2> HIDE DEF x
  <2>3. Grown(log', log, x)
    BY <1>2, <2>1, LogIsGrown
  <2>4. Plays(log', LeftOf(sources, id), active, PlansOf(id), id)
    BY <1>1, <2>2, <2>3, ErrorPlays
  <2> QED BY <2>1, <2>4
<1>4. CASE Answer # None
  <2> DEFINE state == Reconciled(Get(Answer))
             mid == state.active
             events == state.output \o ReadAll(mid)
             x == [call |-> "poll", events |-> events]
             left2 == LeftOf(state.sources, id)
  <2>1. /\ active' = [i \in DOMAIN mid |-> Consumed(mid[i])]
        /\ sources' = state.sources /\ log' = Append(log, x)
    BY <1>4 DEF Poll
  <2>2. Holding(state, script.plans) /\ Fates(state, active, sources)
    BY <1>4, AnswerShape, ReconciledHolds
  <2>3. x.call # "error" /\ x.events = events
    OBVIOUS
  <2> HIDE DEF state, x
  <2>4. Opened(mid, script.plans) /\ IsSequence(state.output)
    BY <2>2 DEF Holding
  <2>5. Fate(id, state, active, LeftOf(sources, id))
    BY <2>2 DEF Fates
  <2>6. \A kind \in {"Connected", "Disconnected"} :
          Says(x.events, id, kind) <=> Says(state.output, id, kind)
    BY <1>2, <2>3, <2>4, ReadingSays
  <2>7. id \in DOMAIN mid => OwnOf(x.events, id) = EventsOf(id, ReadOf(mid[id]))
    <3>1. SUFFICES ASSUME id \in DOMAIN mid
                   PROVE  OwnOf(events, id) = EventsOf(id, ReadOf(mid[id]))
      BY <2>3
    <3>2. ~Heard(state.output, id)
      BY <2>5, <3>1 DEF Fate
    <3>3. OwnAt(state.output, id) = {}
      BY <3>2 DEF OwnAt, Heard, Says, Range
    <3> QED BY <1>2, <2>4, <3>1, <3>3, OwnOfReading
  <2>8. Reported(id, x, active, LeftOf(sources, id), mid, left2)
    <3> DEFINE left == LeftOf(sources, id)
    <3> HIDE DEF left, left2, events
    <3>1. /\ Says(x.events, id, "Connected") <=> Says(state.output, id, "Connected")
          /\ Says(x.events, id, "Disconnected") <=> Says(state.output, id, "Disconnected")
      BY <2>6
    <3>2. Fate(id, state, active, left) /\ left2 = LeftOf(state.sources, id)
      BY <2>5 DEF left, left2
    <3>3. Reported(id, x, active, left, mid, left2)
      BY <2>7, <3>1, <3>2 DEF Fate, Reported
    <3> QED BY <3>3 DEF left
  <2>9. Grown(log', log, x)
    BY <1>2, <2>1, LogIsGrown
  <2>10. id \in DOMAIN mid => /\ {"descriptor", "reads"} \subseteq DOMAIN mid[id]
                              /\ mid[id].reads \in Seq(Played(script.plans, id))
    BY <2>4 DEF Opened
  <2> HIDE DEF mid, events, left2
  <2>11. Plays(log', left2, [i \in DOMAIN mid |-> Consumed(mid[i])], PlansOf(id), id)
    <3> DEFINE P == Owned(script.plans, id)
               C == Played(script.plans, id)
    <3>1. /\ PlansOf(id) \in Seq(P) /\ LeftOf(sources, id) \in Seq(P)
          /\ \A p \in P : p.reads \in Seq(C)
      BY PlansOfShape
    <3> HIDE DEF P, C
    <3>2. id \in DOMAIN mid => {"descriptor", "reads"} \subseteq DOMAIN mid[id]
                               /\ mid[id].reads \in Seq(C)
      BY <2>10 DEF C
    <3> QED BY <1>1, <2>3, <2>8, <2>9, <3>1, <3>2, CallPlays
  <2> QED BY <2>1, <2>11 DEF left2
<1> QED BY <1>3, <1>4

LEMMA PollActivePlays ==
  ASSUME ReplayInv, AllPlayed, PollActive
  PROVE  AllPlayed'
<1> SUFFICES ASSUME NEW id
             PROVE  Plays(log', LeftOf(sources', id), active', PlansOf(id), id)
  <2>1. \A i : PlansOf(i)' = PlansOf(i)
    BY DEF PollActive, PlansOf
  <2> QED BY <2>1 DEF AllPlayed
<1> DEFINE events == ReadAll(active)
           x == [call |-> "poll_active", events |-> events]
           left == LeftOf(sources, id)
           plans == script.plans
<1>1. Plays(log, left, active, PlansOf(id), id)
  BY DEF AllPlayed
<1>2. script \in Scripts /\ Logged(log) /\ Opened(active, plans)
  BY DEF ReplayInv
<1>3. /\ active' = [i \in DOMAIN active |-> Consumed(active[i])]
      /\ sources' = sources /\ log' = Append(log, x)
  BY DEF PollActive
<1>4. <<>> \o events = events /\ IsSequence(<<>>)
  <2>1. events \in Seq(Range(events))
    BY <1>2, ReadAllIsSequence DEF IsSequence
  <2>2. <<>> \in Seq({})
    OBVIOUS
  <2> QED BY <2>1, <2>2, InSeq, ConcatEmptySeq
<1>5. /\ \A kind : ~Says(<<>>, id, kind)
      /\ OwnAt(<<>>, id) = {}
  <2>1. DOMAIN <<>> = {}
    OBVIOUS
  <2> QED BY <2>1 DEF Says, OwnAt, Range
<1>6. x.call # "error" /\ x.events = events
  OBVIOUS
<1> HIDE DEF x, plans
<1>7. ~Says(events, id, "Connected") /\ ~Says(events, id, "Disconnected")
  <2>1. \A kind \in {"Connected", "Disconnected"} :
          Says(<<>> \o events, id, kind) <=> Says(<<>>, id, kind)
    BY <1>2, <1>4, ReadingSays DEF plans
  <2> HIDE DEF events
  <2> QED BY <1>4, <1>5, <2>1
<1>8. id \in DOMAIN active => OwnOf(events, id) = EventsOf(id, ReadOf(active[id]))
  <2>1. SUFFICES ASSUME id \in DOMAIN active
                 PROVE  OwnOf(<<>> \o events, id) = EventsOf(id, ReadOf(active[id]))
    BY <1>4
  <2> QED BY <1>2, <1>4, <1>5, <2>1, OwnOfReading DEF plans
<1> HIDE DEF events
<1>9. Reported(id, x, active, left, active, left)
  BY <1>6, <1>7, <1>8 DEF Reported
<1>10. Grown(log', log, x)
  BY <1>2, <1>3, LogIsGrown
<1> DEFINE P == Owned(script.plans, id)
           C == Played(script.plans, id)
<1>11. /\ PlansOf(id) \in Seq(P) /\ left \in Seq(P) /\ \A p \in P : p.reads \in Seq(C)
  BY PlansOfShape
<1>12. id \in DOMAIN active => /\ {"descriptor", "reads"} \subseteq DOMAIN active[id]
                               /\ active[id].reads \in Seq(C)
  BY <1>2 DEF Opened, plans
<1> HIDE DEF left, P, C
<1>13. Plays(log', left, [i \in DOMAIN active |-> Consumed(active[i])], PlansOf(id), id)
  BY <1>1, <1>6, <1>9, <1>10, <1>11, <1>12, CallPlays
<1> QED BY <1>3, <1>13 DEF left

\* Whatever the script, whichever sources come and go and in whichever order the
\* session is polled, a source's k-th connection plays its k-th plan, one read per
\* call, errors in their place, nothing twice and nothing dropped.
THEOREM PlansPlayedExactly == Spec => []ReplayedExactly
<1>1. LabInit => AllPlayed
  BY InitPlays DEF LabInit
<1>2. LabInv /\ AllPlayed /\ [Next]_vars => AllPlayed'
  <2> SUFFICES ASSUME LabInv, AllPlayed, [Next]_vars PROVE AllPlayed'
    OBVIOUS
  <2>0. ReplayInv
    BY DEF LabInv
  <2>1. ASSUME UNCHANGED <<script, sources, active, log>> PROVE AllPlayed'
    <3>1. \A id : PlansOf(id)' = PlansOf(id)
      BY <2>1 DEF PlansOf
    <3> QED BY <2>1, <3>1 DEF AllPlayed
  <2>2. CASE Embedder
    BY <2>0, <2>2, PollPlays, PollActivePlays DEF Embedder, Embed
  <2>3. CASE FirstPoll
    BY <2>0, <2>3, PollPlays DEF FirstPoll
  <2>4. CASE NextPoll
    BY <2>0, <2>4, PollActivePlays DEF NextPoll
  <2>5. CASE Enumerate
    BY <2>1, <2>5 DEF Enumerate
  <2>6. CASE RefuseOptions \/ Synthetic \/ Record \/ UNCHANGED vars
    BY <2>1, <2>6 DEF RefuseOptions, Synthetic, Record, vars, replay
  <2> QED BY <2>2, <2>3, <2>4, <2>5, <2>6 DEF Next
<1>3. LabInv /\ AllPlayed => ReplayedExactly
  <2> SUFFICES ASSUME LabInv, AllPlayed PROVE ReplayedExactly
    OBVIOUS
  <2>1. Len(log) \in Nat /\ DOMAIN log = 1..Len(log)
    BY InSeq DEF LabInv, ReplayInv, Logged, IsSequence
  <2> SUFFICES ASSUME NEW id
               PROVE  LET starts == CallsWith(id, "Connected")
                      IN /\ Cardinality(starts) <= Len(PlansOf(id))
                         /\ \A start \in starts : \A n \in start..Len(log) :
                              StaysConnected(id, start, n) /\ log[n].call # "error" =>
                                LET plan == PlansOf(id)[Cardinality({s \in starts : s <= start})]
                                    i == Cardinality({m \in start..n : log[m].call # "error"})
                                IN Readout(id, n) = EventsOf(id, ReadAt(plan.reads, i))
    BY DEF ReplayedExactly
  <2> DEFINE K == With(log, id, "Connected")
  <2>2. /\ Cardinality(K) <= Len(PlansOf(id))
        /\ Replayed(log, PlansOf(id), id)
    BY DEF AllPlayed, Plays
  <2>3. \A kind : CallsWith(id, kind) = With(log, id, kind)
    BY DEF CallsWith, With, Says
  <2>4. ASSUME NEW start \in K, NEW n \in start..Len(log),
               StaysConnected(id, start, n), log[n].call # "error"
        PROVE  Readout(id, n)
                 = EventsOf(id, ReadAt(PlansOf(id)[Cardinality({s \in K : s <= start})].reads,
                                       Cardinality({m \in start..n : log[m].call # "error"})))
    <3>1. start \in 1..Len(log) /\ K \subseteq 1..Len(log)
      BY <2>1 DEF With
    <3>2. Going(log, id, start, n)
      BY <2>3, <2>4 DEF StaysConnected, Going
    <3> HIDE DEF K
    <3>3. {s \in K : s <= start} = K \cap (1..start)
      <4>1. \A s \in K : s <= start <=> s \in 1..start
        BY <2>1, <3>1
      <4> QED BY <4>1
    <3>4. {m \in start..n : log[m].call # "error"} = Answered(log) \cap (start..n)
      <4>1. \A m \in start..n : m \in DOMAIN log
        BY <2>1, <3>1
      <4> QED BY <4>1 DEF Answered
    <3>5. Readout(id, n) = OwnOf(log[n].events, id)
      BY DEF Readout, OwnOf, OwnAt
    <3>6. OwnOf(log[n].events, id)
            = EventsOf(id, ReadAt(PlansOf(id)[RankOf(log, id, start)].reads, Turns(log, start, n)))
      BY <2>2, <2>4, <3>2 DEF Replayed, K
    <3>7. /\ RankOf(log, id, start) = Cardinality(K \cap (1..start))
          /\ Turns(log, start, n) = Cardinality(Answered(log) \cap (start..n))
      BY DEF RankOf, Turns, K
    <3> QED BY <3>3, <3>4, <3>5, <3>6, <3>7
  <2>5. CallsWith(id, "Connected") = K
    BY <2>3
  <2> HIDE DEF K
  <2> QED BY <2>2, <2>4, <2>5
<1> QED BY <1>1, <1>2, <1>3, LabInvariant, PTL DEF Spec
=============================================================================
