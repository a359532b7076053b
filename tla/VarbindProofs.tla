---------------------------- MODULE VarbindProofs ----------------------------
(***************************************************************************)
(* For every object, every value and every size of arc below MaxArc: the   *)
(* length bytes of an SNMP setting state exactly what is behind them, and  *)
(* what was encoded is decoded as the setting it was.  Each encoder is     *)
(* shown to be undone by its reader: groups of seven bits (SubidBack),     *)
(* identifiers (ObjidBack), headers (TlvBack), numbers (SignedBack,        *)
(* UnsignedBack), bindings (BindingBack).                                  *)
(***************************************************************************)
EXTENDS Varbind, ProofLemmas

-----------------------------------------------------------------------------
(* Induction and recursion over the positions of a sequence.               *)

\* What a value is after each of n steps.
Taken(f, D, n, start, step) ==
  f \in [0..n -> D] /\ f[0] = start /\ \A i \in 1..n : f[i] = step[i][f[i - 1]]

\* A value can be taken n steps further, one after the other.
LEMMA Iterates ==
  ASSUME NEW D, NEW n \in Nat, NEW start \in D, NEW step \in [1..n -> [D -> D]]
  PROVE  \E f : Taken(f, D, n, start, step)
<1> DEFINE Good(f, k) == f \in [0..k -> D] /\ f[0] = start /\ \A i \in 1..k : f[i] = step[i][f[i - 1]]
           T == {k \in 0..n : \E f : Good(f, k)}
<1>1. 0 \in T
  <2>1. Good([i \in 0..0 |-> start], 0)
    OBVIOUS
  <2> HIDE DEF Good
  <2> QED BY <2>1
<1>2. ASSUME NEW k \in 1..n, k - 1 \in T PROVE k \in T
  <2>1. k - 1 \in 0..n
    BY <1>2
  <2>2. PICK f : Good(f, k - 1)
    <3> HIDE DEF Good
    <3> QED BY <1>2
  <2>3. f \in [0..(k - 1) -> D] /\ f[0] = start /\ \A i \in 1..(k - 1) : f[i] = step[i][f[i - 1]]
    BY <2>2
  <2> DEFINE e == step[k][f[k - 1]]
             g == [i \in 0..k |-> IF i = k THEN e ELSE f[i]]
  <2>4. e \in D
    <3>1. f[k - 1] \in D
      BY <2>1, <2>3
    <3> QED BY <2>1, <3>1
  <2> HIDE DEF e
  <2>5. g \in [0..k -> D] /\ g[k] = e /\ \A i \in 0..(k - 1) : g[i] = f[i]
    BY <2>1, <2>3, <2>4
  <2> HIDE DEF g
  <2>6. \A i \in 1..k : g[i] = step[i][g[i - 1]]
    <3> SUFFICES ASSUME NEW i \in 1..k PROVE g[i] = step[i][g[i - 1]]
      OBVIOUS
    <3>1. g[i - 1] = f[i - 1]
      BY <2>1, <2>5
    <3>2. CASE i = k
      BY <2>5, <3>1, <3>2 DEF e
    <3>3. CASE i # k
      <4>1. i \in 1..(k - 1) /\ g[i] = f[i]
        BY <2>1, <2>5, <3>3
      <4> QED BY <2>3, <3>1, <4>1
    <3> QED BY <3>2, <3>3
  <2>7. g[0] = start
    BY <2>1, <2>3, <2>5
  <2>8. Good(g, k)
    BY <2>5, <2>6, <2>7
  <2> HIDE DEF Good
  <2> QED BY <2>8
<1>3. n \in T
  <2> HIDE DEF T
  <2>1. \A i \in 0..n : i \in T
    BY <1>1, <1>2, UpTo
  <2> QED BY <2>1
<1>4. PICK f : Good(f, n)
  <2> HIDE DEF Good
  <2> QED BY <1>3
<1> QED BY <1>4 DEF Taken

\* Number, digit by digit.
LEMMA NumberSteps ==
  ASSUME NEW base \in Nat, NEW d \in Seq(Nat)
  PROVE  \E f \in [0..Len(d) -> Nat] :
           /\ f[0] = 0 /\ (\A i \in 1..Len(d) : f[i] = f[i - 1] * base + d[i])
           /\ Number(base, d) = f[Len(d)]
<1> DEFINE n == Len(d)
           step == [i \in 1..n |-> [a \in Nat |-> a * base + d[i]]]
           g == CHOOSE g : g = [i \in 0..n |-> IF i = 0 THEN 0 ELSE g[i - 1] * base + d[i]]
<1>1. n \in Nat /\ \A i \in 1..n : d[i] \in Nat
  OBVIOUS
<1>2. Number(base, d) = g[n]
  BY DEF Number
<1> HIDE DEF n
<1>3. step \in [1..n -> [Nat -> Nat]]
  <2>1. \A a \in Nat, i \in 1..n : a * base + d[i] \in Nat
    BY <1>1
  <2> QED BY <2>1
<1>4. \A a \in Nat, i \in 1..n : step[i][a] = a * base + d[i]
  OBVIOUS
<1> HIDE DEF step
<1>5. PICK f : f \in [0..n -> Nat] /\ f[0] = 0 /\ \A i \in 1..n : f[i] = step[i][f[i - 1]]
  <2>1. 0 \in Nat /\ n \in Nat
    BY <1>1
  <2>2. \E f : Taken(f, Nat, n, 0, step)
    BY <1>3, <2>1, Iterates, Zenon
  <2> QED BY <2>2 DEF Taken
<1>6. \A i \in 1..n : f[i] = f[i - 1] * base + d[i]
  <2> SUFFICES ASSUME NEW i \in 1..n PROVE f[i] = f[i - 1] * base + d[i]
    OBVIOUS
  <2>1. f[i - 1] \in Nat
    BY <1>1, <1>5
  <2> QED BY <1>4, <1>5, <2>1
<1>7. f = [i \in 0..n |-> IF i = 0 THEN 0 ELSE f[i - 1] * base + d[i]]
  <2>1. f = [i \in 0..n |-> f[i]]
    BY <1>5
  <2>2. \A i \in 0..n : f[i] = IF i = 0 THEN 0 ELSE f[i - 1] * base + d[i]
    BY <1>1, <1>5, <1>6
  <2> QED BY <2>1, <2>2
<1>8. g = [i \in 0..n |-> IF i = 0 THEN 0 ELSE g[i - 1] * base + d[i]]
  BY <1>7
<1> HIDE DEF g
<1>9. g[0] = 0 /\ \A i \in 1..n : g[i] = g[i - 1] * base + d[i]
  BY <1>1, <1>8
<1>10. g = f
  <2> DEFINE T == {i \in 0..n : g[i] = f[i]}
  <2>1. 0 \in T
    BY <1>1, <1>5, <1>9
  <2>2. \A i \in 1..n : i - 1 \in T => i \in T
    BY <1>1, <1>6, <1>9
  <2>3. \A i \in 0..n : i \in T
    <3> HIDE DEF T
    <3> QED BY <1>1, <2>1, <2>2, UpTo
  <2>4. DOMAIN g = 0..n /\ g = [i \in 0..n |-> g[i]]
    BY <1>8
  <2> QED BY <1>5, <2>3, <2>4
<1> QED BY <1>2, <1>5, <1>6, <1>10 DEF n

\* SubidNumber, byte by byte; no byte takes it above MaxArc.
Seven(before, b) ==
  IF before = -1 \/ before > (MaxArc - (b % 128)) \div 128 THEN -1 ELSE before * 128 + (b % 128)

\* Seven more bits of a number below MaxArc make one, or overflow.
LEMMA SevenIs ==
  ASSUME NEW a \in -1..MaxArc, NEW b \in Byte
  PROVE  Seven(a, b) \in -1..MaxArc
<1>1. MaxArc \in Nat /\ MaxArc >= 80
  BY MaxArcAssumption
<1> DEFINE x == b % 128
<1>2. x \in 0..127 /\ b \in 0..255
  BY DEF Byte
<1> HIDE DEF x
<1>3. CASE a = -1 \/ a > (MaxArc - x) \div 128
  BY <1>1, <1>3 DEF Seven, x
<1>4. CASE ~(a = -1 \/ a > (MaxArc - x) \div 128)
  <2>1. a \in Nat /\ a <= (MaxArc - x) \div 128
    BY <1>1, <1>2, <1>4
  <2>2. a * 128 + x <= MaxArc
    <3> DEFINE m == MaxArc - x
               q == m \div 128
    <3>1. m \in Int /\ q \in Int /\ q * 128 <= m
      BY <1>1, <1>2
    <3> HIDE DEF q
    <3>2. a <= q
      BY <2>1 DEF q
    <3>3. a * 128 <= m
      BY <2>1, <3>1, <3>2
    <3> QED BY <1>1, <1>2, <2>1, <3>3
  <2>3. Seven(a, b) = a * 128 + x
    BY <1>4 DEF Seven, x
  <2> QED BY <1>1, <1>2, <2>1, <2>2, <2>3
<1> QED BY <1>3, <1>4

\* What SubidNumber computes, byte by byte: its definition is recursive.
LEMMA SubidSteps ==
  ASSUME NEW bs \in Seq(Byte)
  PROVE  \E f : /\ f \in [0..Len(bs) -> -1..MaxArc]
                /\ f[0] = 0 /\ (\A i \in 1..Len(bs) : f[i] = Seven(f[i - 1], bs[i]))
                /\ SubidNumber(bs) = f[Len(bs)]
<1> DEFINE n == Len(bs)
           D == -1..MaxArc
           step == [i \in 1..n |-> [a \in D |-> Seven(a, bs[i])]]
           g == CHOOSE g : g = [i \in 0..n |-> IF i = 0 THEN 0 ELSE Seven(g[i - 1], bs[i])]
<1>1. n \in Nat /\ \A i \in 1..n : bs[i] \in Byte
  OBVIOUS
<1>2. SubidNumber(bs) = g[n]
  BY DEF SubidNumber, Seven
<1> HIDE DEF n
<1>3. step \in [1..n -> [D -> D]] /\ 0 \in D
  <2>1. \A a \in D, i \in 1..n : Seven(a, bs[i]) \in D
    BY <1>1, SevenIs
  <2>2. 0 \in D
    BY MaxArcAssumption
  <2> HIDE DEF D
  <2> QED BY <2>1, <2>2
<1>4. \A a \in D, i \in 1..n : step[i][a] = Seven(a, bs[i])
  OBVIOUS
<1> HIDE DEF step, D
<1>5. PICK f : f \in [0..n -> D] /\ f[0] = 0 /\ \A i \in 1..n : f[i] = step[i][f[i - 1]]
  <2>1. \E f : Taken(f, D, n, 0, step)
    BY <1>1, <1>3, Iterates, Zenon
  <2> QED BY <2>1 DEF Taken
<1>6. \A i \in 1..n : f[i] = Seven(f[i - 1], bs[i])
  <2> SUFFICES ASSUME NEW i \in 1..n PROVE f[i] = Seven(f[i - 1], bs[i])
    OBVIOUS
  <2>1. f[i - 1] \in D
    BY <1>1, <1>5
  <2> QED BY <1>4, <1>5, <2>1
<1>7. f = [i \in 0..n |-> IF i = 0 THEN 0 ELSE Seven(f[i - 1], bs[i])]
  <2>1. f = [i \in 0..n |-> f[i]]
    BY <1>5
  <2>2. \A i \in 0..n : f[i] = IF i = 0 THEN 0 ELSE Seven(f[i - 1], bs[i])
    BY <1>1, <1>5, <1>6
  <2> QED BY <2>1, <2>2
<1>8. g = [i \in 0..n |-> IF i = 0 THEN 0 ELSE Seven(g[i - 1], bs[i])]
  BY <1>7
<1> HIDE DEF g
<1>9. g[0] = 0 /\ \A i \in 1..n : g[i] = Seven(g[i - 1], bs[i])
  BY <1>1, <1>8
<1>10. \A i \in 0..n : g[i] = f[i]
  <2> DEFINE T == {i \in 0..n : g[i] = f[i]}
  <2>1. 0 \in T
    BY <1>1, <1>5, <1>9
  <2>2. \A i \in 1..n : i - 1 \in T => i \in T
    BY <1>1, <1>6, <1>9
  <2> HIDE DEF T
  <2>3. \A i \in 0..n : i \in T
    BY <1>1, <2>1, <2>2, UpTo
  <2> QED BY <2>3 DEF T
<1>11. g[n] = f[n]
  BY <1>1, <1>10
<1> QED BY <1>2, <1>5, <1>6, <1>11 DEF n, D

\* Where sub-identifiers end, one after the other.
Ends(f, bs) ==
  /\ f \in [0..Len(bs) -> 0..Len(bs)]
  /\ f[0] = 0 /\ \A k \in 1..Len(bs) : f[k] = NextEnd(bs, f[k - 1])

Terminated(bs) == bs # <<>> /\ Last(bs) < 128

\* There is a next end, and nothing ends before it.
LEMMA NextEndIs ==
  ASSUME NEW bs \in Seq(Byte), Terminated(bs), NEW from \in 0..Len(bs), from # Len(bs)
  PROVE  /\ NextEnd(bs, from) \in (from + 1)..Len(bs)
         /\ bs[NextEnd(bs, from)] < 128
         /\ \A j \in (from + 1)..(NextEnd(bs, from) - 1) : bs[j] >= 128
<1> DEFINE n == Len(bs)
           T == {i \in (from + 1)..n : bs[i] < 128}
           P(i) == bs[i] < 128 /\ \A j \in (from + 1)..(i - 1) : bs[j] >= 128
<1>1. n \in Nat \ {0} /\ bs[n] < 128 /\ \A i \in 1..n : bs[i] \in 0..255
  <2>1. bs # <<>> /\ bs[n] < 128
    BY DEF Terminated, Last
  <2>2. n \in Nat /\ n # 0
    BY <2>1
  <2>3. \A i \in 1..n : bs[i] \in 0..255
    <3>1. \A i \in 1..n : bs[i] \in Byte
      OBVIOUS
    <3> QED BY <3>1 DEF Byte
  <2> HIDE DEF n
  <2> QED BY <2>1, <2>2, <2>3
<1>2. NextEnd(bs, from) = CHOOSE i \in (from + 1)..n : P(i)
  BY DEF NextEnd
<1> HIDE DEF n
<1>3. from \in 0..n /\ from # n
  BY DEF n
<1>4. PICK i \in T : \A y \in T : i <= y
  <2>1. T \subseteq Nat /\ T # {}
    BY <1>1, <1>3
  <2> HIDE DEF T
  <2> QED BY <2>1, LeastNat
<1>5. i \in (from + 1)..n /\ bs[i] < 128
  OBVIOUS
<1>6. \A j \in (from + 1)..(i - 1) : bs[j] >= 128
  <2> SUFFICES ASSUME NEW j \in (from + 1)..(i - 1) PROVE bs[j] >= 128
    OBVIOUS
  <2>1. j \in (from + 1)..n /\ j \in 1..n /\ ~(i <= j)
    BY <1>1, <1>3, <1>5
  <2>2. j \notin T
    BY <1>4, <2>1
  <2> DEFINE b == bs[j]
  <2>3. ~(b < 128) /\ b \in 0..255
    BY <1>1, <2>1, <2>2
  <2> HIDE DEF b
  <2>4. b >= 128
    BY <2>3
  <2> QED BY <2>4 DEF b
<1>7. \E k \in (from + 1)..n : P(k)
  BY <1>5, <1>6
<1> DEFINE e == CHOOSE k \in (from + 1)..n : P(k)
<1>8. e \in (from + 1)..n /\ P(e)
  <2> HIDE DEF P
  <2> QED BY <1>7
<1>9. NextEnd(bs, from) = e
  BY <1>2
<1> HIDE DEF e
<1> QED BY <1>8, <1>9 DEF n

\* There is a list of the ends.
LEMMA EndsExist ==
  ASSUME NEW bs \in Seq(Byte), Terminated(bs)
  PROVE  \E f : Ends(f, bs)
<1> DEFINE n == Len(bs)
           D == 0..n
           step == [i \in 1..n |-> [a \in D |-> NextEnd(bs, a)]]
<1>1. n \in Nat
  OBVIOUS
<1>2. \A a \in D : NextEnd(bs, a) \in D
  <2> SUFFICES ASSUME NEW a \in D PROVE NextEnd(bs, a) \in D
    OBVIOUS
  <2>1. CASE a = n
    BY <2>1 DEF NextEnd
  <2>2. CASE a # n
    <3> DEFINE e == NextEnd(bs, a)
    <3>1. e \in (a + 1)..n
      BY <2>2, NextEndIs
    <3> HIDE DEF n, e
    <3>2. e \in D
      BY <1>1, <3>1
    <3> QED BY <3>2 DEF e
  <2> QED BY <2>1, <2>2
<1> HIDE DEF n
<1>3. step \in [1..n -> [D -> D]] /\ 0 \in D
  BY <1>1, <1>2
<1>4. \A a \in D, i \in 1..n : step[i][a] = NextEnd(bs, a)
  OBVIOUS
<1> HIDE DEF step
<1>5. PICK f : f \in [0..n -> D] /\ f[0] = 0 /\ \A i \in 1..n : f[i] = step[i][f[i - 1]]
  <2> HIDE DEF D
  <2>1. \E f : Taken(f, D, n, 0, step)
    BY <1>1, <1>3, Iterates, Zenon
  <2> QED BY <2>1 DEF Taken
<1>6. \A i \in 1..n : f[i] = NextEnd(bs, f[i - 1])
  <2> SUFFICES ASSUME NEW i \in 1..n PROVE f[i] = NextEnd(bs, f[i - 1])
    OBVIOUS
  <2>1. f[i - 1] \in D
    BY <1>1, <1>5
  <2> HIDE DEF D
  <2> QED BY <1>4, <1>5, <2>1
<1> QED BY <1>5, <1>6 DEF Ends, n

\* The end of the bytes is reached once, and kept.
LEMMA EndsReach ==
  ASSUME NEW bs \in Seq(Byte), Terminated(bs), NEW f, Ends(f, bs)
  PROVE  /\ \E m \in 1..Len(bs) : f[m] = Len(bs) /\ f[m - 1] # Len(bs)
         /\ \A a \in 0..Len(bs) : f[a] = Len(bs) => \A k \in a..Len(bs) : f[k] = Len(bs)
         /\ \A k \in 1..Len(bs) : f[k - 1] # Len(bs) => f[k] >= f[k - 1] + 1
<1> DEFINE n == Len(bs)
<1>1. n \in Nat /\ n # 0
  BY DEF Terminated
<1>2. f \in [0..n -> 0..n] /\ f[0] = 0 /\ \A k \in 1..n : f[k] = NextEnd(bs, f[k - 1])
  BY DEF Ends
<1>3. \A k \in 1..n : f[k - 1] = n => f[k] = n
  <2> SUFFICES ASSUME NEW k \in 1..n, f[k - 1] = n PROVE f[k] = n
    OBVIOUS
  <2>1. NextEnd(bs, n) = n
    BY DEF NextEnd
  <2> HIDE DEF n
  <2> QED BY <1>2, <2>1
<1>4. \A k \in 1..n : f[k - 1] # n => f[k] >= f[k - 1] + 1
  <2> SUFFICES ASSUME NEW k \in 1..n, f[k - 1] # n PROVE f[k] >= f[k - 1] + 1
    OBVIOUS
  <2> DEFINE a == f[k - 1]
             e == NextEnd(bs, a)
  <2>1. f[k] = e /\ a \in 0..n
    <3> HIDE DEF n
    <3> QED BY <1>1, <1>2
  <2>2. e \in (a + 1)..n
    <3> HIDE DEF a
    <3>1. a # n
      BY DEF a
    <3> QED BY <2>1, <3>1, NextEndIs
  <2> HIDE DEF e, n
  <2>3. e >= a + 1
    <3> HIDE DEF a
    <3> QED BY <1>1, <2>1, <2>2
  <2> QED BY <2>1, <2>3
<1> HIDE DEF n
<1>5. ASSUME NEW a \in 0..n, f[a] = n PROVE \A k \in a..n : f[k] = n
  <2> DEFINE T == {k \in 0..n : k >= a => f[k] = n}
  <2>1. 0 \in T
    BY <1>1, <1>5
  <2>2. ASSUME NEW i \in 1..n, i - 1 \in T PROVE i \in T
    <3> SUFFICES ASSUME i >= a PROVE f[i] = n
      BY <1>1
    <3>1. CASE i = a
      BY <1>5, <3>1
    <3>2. CASE i # a
      <4>1. i - 1 >= a
        BY <1>1, <3>2
      <4> QED BY <1>3, <2>2, <4>1
    <3> QED BY <3>1, <3>2
  <2>3. \A i \in 0..n : i \in T
    <3> HIDE DEF T
    <3> QED BY <1>1, <2>1, <2>2, UpTo
  <2> QED BY <1>1, <2>3
<1>6. f[n] = n
  <2> DEFINE T == {k \in 0..n : f[k] >= k}
  <2>1. 0 \in T
    BY <1>1, <1>2
  <2>2. ASSUME NEW i \in 1..n, i - 1 \in T PROVE i \in T
    <3>1. f[i - 1] >= i - 1 /\ f[i - 1] \in 0..n /\ f[i] \in 0..n
      BY <1>1, <1>2, <2>2, SMTT(30)
    <3>2. CASE f[i - 1] = n
      BY <1>1, <1>3, <3>2
    <3>3. CASE f[i - 1] # n
      BY <1>1, <1>4, <3>1, <3>3
    <3> QED BY <3>2, <3>3
  <2>3. \A i \in 0..n : i \in T
    <3> HIDE DEF T
    <3> QED BY <1>1, <2>1, <2>2, UpTo
  <2>4. f[n] >= n /\ f[n] \in 0..n
    BY <1>1, <1>2, <2>3
  <2> QED BY <1>1, <2>4
<1>7. \E m \in 1..n : f[m] = n /\ f[m - 1] # n
  <2> DEFINE T == {k \in 0..n : f[k] = n}
  <2>1. PICK m \in T : \A y \in T : m <= y
    <3>1. T \subseteq Nat /\ T # {}
      BY <1>1, <1>6
    <3> HIDE DEF T
    <3> QED BY <3>1, LeastNat
  <2>2. m \in 0..n /\ f[m] = n
    OBVIOUS
  <2>3. m # 0
    BY <1>1, <1>2, <2>2
  <2>4. m \in 1..n /\ m - 1 \in 0..n /\ ~(m <= m - 1)
    BY <1>1, <2>2, <2>3
  <2>5. f[m - 1] # n
    BY <2>1, <2>4
  <2> QED BY <2>2, <2>4, <2>5
<1> QED BY <1>4, <1>5, <1>7 DEF n

\* The list of the ends says which the sub-identifiers are.
LEMMA ReadSubidsAre ==
  ASSUME NEW bs \in Seq(Byte), Terminated(bs), NEW f, Ends(f, bs),
         NEW m \in 1..Len(bs), f[m] = Len(bs), f[m - 1] # Len(bs)
  PROVE  ReadSubids(bs) = [k \in 1..m |-> SubidNumber(SubSeq(bs, f[k - 1] + 1, f[k]))]
<1> DEFINE n == Len(bs)
           g == CHOOSE g : g = [k \in 0..n |-> IF k = 0 THEN 0 ELSE NextEnd(bs, g[k - 1])]
           P(c) == g[c] = n /\ g[c - 1] # n
           count == CHOOSE c \in 1..n : P(c)
<1>1. n \in Nat /\ m \in 1..n
  OBVIOUS
<1>2. f \in [0..n -> 0..n] /\ f[0] = 0 /\ \A k \in 1..n : f[k] = NextEnd(bs, f[k - 1])
  BY DEF Ends
<1>3. ReadSubids(bs) = [k \in 1..count |-> SubidNumber(SubSeq(bs, g[k - 1] + 1, g[k]))]
  BY DEF ReadSubids
<1>4. f[m] = n /\ f[m - 1] # n /\ \A a \in 0..n : f[a] = n => \A k \in a..n : f[k] = n
  BY EndsReach
<1> HIDE DEF n
<1>5. f = [k \in 0..n |-> IF k = 0 THEN 0 ELSE NextEnd(bs, f[k - 1])]
  <2>1. f = [i \in 0..n |-> f[i]]
    BY <1>2
  <2>2. \A i \in 0..n : f[i] = IF i = 0 THEN 0 ELSE NextEnd(bs, f[i - 1])
    BY <1>1, <1>2
  <2> QED BY <2>1, <2>2
<1>6. g = [k \in 0..n |-> IF k = 0 THEN 0 ELSE NextEnd(bs, g[k - 1])]
  BY <1>5
<1> HIDE DEF g
<1>7. g[0] = 0 /\ (\A i \in 1..n : g[i] = NextEnd(bs, g[i - 1])) /\ DOMAIN g = 0..n /\ g = [i \in 0..n |-> g[i]]
  BY <1>1, <1>6
<1>8. \A i \in 0..n : g[i] = f[i]
  <2> DEFINE T == {i \in 0..n : g[i] = f[i]}
  <2>1. 0 \in T
    BY <1>1, <1>2, <1>7
  <2>2. ASSUME NEW i \in 1..n, i - 1 \in T PROVE i \in T
    <3>1. g[i - 1] = f[i - 1] /\ i \in 0..n
      BY <1>1, <2>2
    <3>2. g[i] = NextEnd(bs, g[i - 1]) /\ f[i] = NextEnd(bs, f[i - 1])
      BY <1>2, <1>7
    <3>3. g[i] = f[i]
      BY <3>1, <3>2, Zenon
    <3> QED BY <3>1, <3>3
  <2>3. \A i \in 0..n : i \in T
    <3> HIDE DEF T
    <3> QED BY <1>1, <2>1, <2>2, UpTo
  <2> QED BY <2>3
<1>9. g = f
  BY <1>2, <1>7, <1>8
<1>10. P(m)
  BY <1>4, <1>9
<1>11. ASSUME NEW c \in 1..n, P(c) PROVE c = m
  <2>1. f[c] = n /\ f[c - 1] # n
    BY <1>9, <1>11
  <2>2. CASE c < m
    <3>1. c \in 0..n /\ m - 1 \in c..n
      BY <1>1, <2>2
    <3> QED BY <1>4, <2>1, <3>1
  <2>3. CASE m < c
    <3>1. m \in 0..n /\ c - 1 \in m..n
      BY <1>1, <2>3
    <3> QED BY <1>4, <2>1, <3>1
  <2> QED BY <1>1, <2>2, <2>3
<1> HIDE DEF P
<1>12. count = m
  BY <1>1, <1>10, <1>11
<1> HIDE DEF count
<1> QED BY <1>3, <1>9, <1>12

-----------------------------------------------------------------------------
(* Sub-identifiers.                                                        *)

\* Seven more bits at the end, and without them.
LEMMA SevenMore ==
  ASSUME NEW w \in 0..MaxArc, NEW b \in Byte, b % 128 = w % 128
  PROVE  Seven(w \div 128, b) = w
<1> DEFINE q == w \div 128
           x == b % 128
<1>1. MaxArc \in Nat /\ w \in Nat /\ w <= MaxArc
  BY MaxArcAssumption
<1>2. q \in Nat /\ x \in 0..127 /\ w = q * 128 + x
  BY <1>1
<1> HIDE DEF q, x
<1>3. ~(q > (MaxArc - x) \div 128)
  <2>1. q * 128 <= MaxArc - x
    BY <1>1, <1>2
  <2> DEFINE m == MaxArc - x
  <2>2. m \in Int /\ q * 128 <= m
    BY <1>1, <1>2, <2>1
  <2> HIDE DEF m
  <2>3. q <= m \div 128
    BY <1>2, <2>2
  <2> QED BY <1>1, <1>2, <2>3 DEF m
<1>4. q # -1
  BY <1>2
<1>5. Seven(q, b) = q * 128 + x
  BY <1>3, <1>4 DEF Seven, x
<1> QED BY <1>2, <1>5 DEF q

\* Shifting by seven bits, twice and more.
LEMMA ShiftTwice ==
  ASSUME NEW v \in Nat
  PROVE  /\ (v \div 128) \div 128 = v \div 16384
         /\ (v \div 16384) \div 128 = v \div 2097152
         /\ (v \div 2097152) \div 128 = v \div 268435456
         /\ v < 128 => v \div 128 = 0
         /\ v < 16384 => v \div 16384 = 0
         /\ v < 2097152 => v \div 2097152 = 0
         /\ v < 268435456 => v \div 268435456 = 0
         /\ \A s \in {128, 16384, 2097152, 268435456} : v \div s \in 0..v
<1>1. (v \div 128) \div 128 = v \div 16384
  BY SMT
<1>2. (v \div 16384) \div 128 = v \div 2097152
  BY SMT
<1>3. (v \div 2097152) \div 128 = v \div 268435456
  BY SMT
<1>4. v \div 128 \in 0..v /\ v \div 16384 \in 0..v /\ v \div 2097152 \in 0..v /\ v \div 268435456 \in 0..v
  BY SMT
<1>5. /\ v < 128 => v \div 128 = 0
      /\ v < 16384 => v \div 16384 = 0
      /\ v < 2097152 => v \div 2097152 = 0
      /\ v < 268435456 => v \div 268435456 = 0
  BY SMT
<1> QED BY <1>1, <1>2, <1>3, <1>4, <1>5, SMT

\* The groups of a sub-identifier: bytes, of which the last one only is below 128.
LEMMA GroupsAre ==
  ASSUME NEW v \in Nat, NEW e, e = EncodeSubid(v)
  PROVE  /\ e \in Seq(Byte) /\ Len(e) = Groups(v) /\ Groups(v) \in 1..5
         /\ e[Groups(v)] < 128 /\ \A i \in 1..(Groups(v) - 1) : e[i] >= 128
         /\ \A i \in 1..Groups(v) : e[i] % 128 = (v \div Shifts[5 - Groups(v) + i]) % 128
<1> DEFINE n == Groups(v)
           d(i) == (v \div Shifts[5 - n + i]) % 128
<1>1. n \in 1..5
  BY SMT DEF Groups
<1>2. e = [i \in 1..n |-> d(i) + (IF i < n THEN 128 ELSE 0)]
  BY SMT DEF EncodeSubid
<1> HIDE DEF n
<1>3. \A i \in 1..n : d(i) \in 0..127
  <2> SUFFICES ASSUME NEW i \in 1..n PROVE d(i) \in 0..127
    BY SMT
  <2> DEFINE s == Shifts[5 - n + i]
  <2>1. s \in {268435456, 2097152, 16384, 128, 1}
    <3>1. 5 - n + i \in 1..5
      BY <1>1, SMT
    <3> QED BY <3>1, SMT DEF Shifts
  <2> HIDE DEF s
  <2>2. v \div s \in Nat
    BY <2>1, SMT
  <2>3. (v \div s) % 128 \in 0..127
    BY <2>2, SMT
  <2> QED BY <2>3, SMT DEF s
<1> HIDE DEF d
<1>4. \A i \in 1..n : e[i] = d(i) + (IF i < n THEN 128 ELSE 0)
  BY <1>2, SMT
<1>5. e \in [1..n -> Byte]
  <2>1. \A i \in 1..n : d(i) + (IF i < n THEN 128 ELSE 0) \in Byte
    <3> SUFFICES ASSUME NEW i \in 1..n PROVE d(i) + (IF i < n THEN 128 ELSE 0) \in Byte
      BY Zenon
    <3>1. d(i) \in 0..127
      BY <1>3
    <3> QED BY <1>1, <3>1 DEF Byte
  <2> QED BY <1>2, <2>1
<1>6. e \in Seq(Byte) /\ Len(e) = n
  BY <1>1, <1>5, FixedSeq, SMT
<1>7. e[n] < 128
  BY <1>1, <1>3, <1>4, SMT
<1>8. \A i \in 1..(n - 1) : e[i] >= 128
  <2> SUFFICES ASSUME NEW i \in 1..(n - 1) PROVE e[i] >= 128
    BY SMT
  <2>1. i \in 1..n /\ i < n
    BY <1>1, SMT
  <2>2. e[i] = d(i) + 128 /\ d(i) \in 0..127
    BY <1>3, <1>4, <2>1, SMT
  <2> QED BY <2>2, SMT
<1>9. \A i \in 1..n : e[i] % 128 = d(i)
  <2> SUFFICES ASSUME NEW i \in 1..n PROVE e[i] % 128 = d(i)
    BY SMT
  <2>1. d(i) \in 0..127 /\ (e[i] = d(i) + 128 \/ e[i] = d(i))
    BY <1>3, <1>4, SMT
  <2> QED BY <2>1, SMT
<1> QED BY <1>1, <1>6, <1>7, <1>8, <1>9, SMT DEF n, d

\* A sub-identifier is read back as the number it was written for.
LEMMA SubidBack ==
  ASSUME NEW v \in 0..MaxArc
  PROVE  SubidNumber(EncodeSubid(v)) = v
<1> DEFINE e == EncodeSubid(v)
           n == Groups(v)
<1>1. v \in Nat /\ MaxArc \in Nat /\ v \div 268435456 < 128
  <2>1. MaxArc \in Nat /\ MaxArc \div 268435456 < 128
    BY MaxArcAssumption, SMT
  <2> QED BY <2>1, SMT
<1>2. /\ e \in Seq(Byte) /\ Len(e) = n /\ n \in 1..5
      /\ \A i \in 1..n : e[i] % 128 = (v \div Shifts[5 - n + i]) % 128
  <2>1. v \in Nat
    BY <1>1, SMT
  <2> QED BY <2>1, GroupsAre, Zenon
<1>3. PICK f : /\ f \in [0..n -> -1..MaxArc]
               /\ f[0] = 0 /\ (\A i \in 1..n : f[i] = Seven(f[i - 1], e[i]))
               /\ SubidNumber(e) = f[n]
  <2> DEFINE Read(m) == \E f : /\ f \in [0..m -> -1..MaxArc]
                               /\ f[0] = 0 /\ (\A i \in 1..m : f[i] = Seven(f[i - 1], e[i]))
                               /\ SubidNumber(e) = f[m]
  <2> HIDE DEF e, n
  <2>1. Read(Len(e))
    BY <1>2, SubidSteps, Zenon
  <2>2. Len(e) = n
    BY <1>2, Zenon
  <2> HIDE DEF Read
  <2>3. Read(n)
    BY <2>1, <2>2, Zenon
  <2> QED BY <2>3, Zenon DEF Read
<1>4. /\ n = 1 => v < 128
      /\ n = 2 => v < 16384
      /\ n = 3 => v < 2097152
      /\ n = 4 => v < 268435456
  BY <1>1, SMT DEF Groups
<1> HIDE DEF e, n
<1>5. \A i \in 1..n : e[i] \in Byte
  BY <1>2, SMT
<1>6. /\ Shifts[1] = 268435456 /\ Shifts[2] = 2097152 /\ Shifts[3] = 16384
      /\ Shifts[4] = 128 /\ Shifts[5] = 1
  BY SMT DEF Shifts
<1> DEFINE part(i) == v \div Shifts[5 - n + i]
\* Up to the i-th group the number is the part of v that these make.
<1>7. ASSUME NEW i \in 1..n, f[i - 1] = part(i) \div 128 PROVE f[i] = part(i)
  <2>1. part(i) \in 0..MaxArc
    <3>1. 5 - n + i \in 1..5
      BY <1>2, SMT
    <3>2. Shifts[5 - n + i] \in {268435456, 2097152, 16384, 128, 1}
      BY <1>6, <3>1, SMT
    <3> DEFINE s == Shifts[5 - n + i]
    <3> HIDE DEF s
    <3>3. s \in {268435456, 2097152, 16384, 128, 1}
      BY <3>2, SMT DEF s
    <3>4. v \div s \in 0..v
      BY <1>1, <3>3, SMT
    <3>5. v \div s \in 0..MaxArc
      BY <1>1, <3>4, SMT
    <3> QED BY <3>5, SMT DEF s
  <2>2. e[i] \in Byte /\ e[i] % 128 = part(i) % 128
    BY <1>2, <1>5, SMT
  <2> HIDE DEF part
  <2>3. Seven(part(i) \div 128, e[i]) = part(i)
    BY <2>1, <2>2, SevenMore, SMT
  <2>4. f[i] = Seven(f[i - 1], e[i])
    BY <1>3, SMT
  <2> QED BY <1>7, <2>3, <2>4, SMT
<1> DEFINE p1 == v \div 128
           p2 == v \div 16384
           p3 == v \div 2097152
           p4 == v \div 268435456
<1>8. v \div 1 = v
  BY <1>1, SMT
<1>9. p1 \div 128 = p2 /\ p2 \div 128 = p3 /\ p3 \div 128 = p4
  BY <1>1, ShiftTwice, SMT
<1>10. CASE n = 1
  <2>1. part(1) = v
    BY <1>6, <1>8, <1>10, SMT
  <2>2. v \div 128 = 0
    BY <1>1, <1>4, <1>10, SMT
  <2> HIDE DEF part
  <2>3. f[1] = v
    BY <1>3, <1>7, <1>10, <2>1, <2>2, SMT
  <2> QED BY <1>3, <1>10, <2>3, SMT DEF e
<1>11. CASE n = 2
  <2>1. part(1) = p1 /\ part(2) = v
    BY <1>6, <1>8, <1>11, SMT
  <2>2. p1 \div 128 = 0
    BY <1>1, <1>4, <1>9, <1>11, SMT
  <2> HIDE DEF part
  <2>3. f[1] = p1
    BY <1>3, <1>7, <1>11, <2>1, <2>2, SMT
  <2>4. f[2] = v
    BY <1>7, <1>11, <2>1, <2>3, SMT
  <2> QED BY <1>3, <1>11, <2>4, SMT DEF e
<1>12. CASE n = 3
  <2>1. part(1) = p2 /\ part(2) = p1 /\ part(3) = v
    BY <1>6, <1>8, <1>12, SMT
  <2>2. p2 \div 128 = 0
    BY <1>1, <1>4, <1>9, <1>12, SMT
  <2> HIDE DEF part
  <2>3. f[1] = p2
    BY <1>3, <1>7, <1>12, <2>1, <2>2, SMT
  <2>4. f[2] = p1
    BY <1>7, <1>9, <1>12, <2>1, <2>3, SMT
  <2>5. f[3] = v
    BY <1>7, <1>12, <2>1, <2>4, SMT
  <2> QED BY <1>3, <1>12, <2>5, SMT DEF e
<1>13. CASE n = 4
  <2>1. part(1) = p3 /\ part(2) = p2 /\ part(3) = p1 /\ part(4) = v
    BY <1>6, <1>8, <1>13, SMT
  <2>2. p3 \div 128 = 0
    BY <1>1, <1>4, <1>9, <1>13, SMT
  <2> HIDE DEF part
  <2>3. f[1] = p3
    BY <1>3, <1>7, <1>13, <2>1, <2>2, SMT
  <2>4. f[2] = p2
    BY <1>7, <1>9, <1>13, <2>1, <2>3, SMT
  <2>5. f[3] = p1
    BY <1>7, <1>9, <1>13, <2>1, <2>4, SMT
  <2>6. f[4] = v
    BY <1>7, <1>13, <2>1, <2>5, SMT
  <2> QED BY <1>3, <1>13, <2>6, SMT DEF e
<1>14. CASE n = 5
  <2>1. part(1) = p4 /\ part(2) = p3 /\ part(3) = p2 /\ part(4) = p1 /\ part(5) = v
    BY <1>6, <1>8, <1>14, SMT
  <2>2. p4 \div 128 = 0
    BY <1>1, SMT
  <2> HIDE DEF part
  <2>3. f[1] = p4
    BY <1>3, <1>7, <1>14, <2>1, <2>2, SMT
  <2>4. f[2] = p3
    BY <1>7, <1>9, <1>14, <2>1, <2>3, SMT
  <2>5. f[3] = p2
    BY <1>7, <1>9, <1>14, <2>1, <2>4, SMT
  <2>6. f[4] = p1
    BY <1>7, <1>9, <1>14, <2>1, <2>5, SMT
  <2>7. f[5] = v
    BY <1>7, <1>14, <2>1, <2>6, SMT
  <2> QED BY <1>3, <1>14, <2>7, SMT DEF e
<1> QED BY <1>2, <1>10, <1>11, <1>12, <1>13, <1>14, SMT

-----------------------------------------------------------------------------
(* Object identifiers.                                                     *)

\* Where the parts of a concatenation stand in it.
PartsAt(p, e, m, b) ==
  /\ p \in [0..m -> Nat] /\ p[0] = 0 /\ p[m] = Len(b)
  /\ \A k \in 1..m : /\ p[k] = p[k - 1] + Len(e[k]) /\ p[k] <= p[m]
                     /\ \A i \in 1..Len(e[k]) : b[p[k - 1] + i] = e[k][i]

\* The parts of a sequence of sequences lie one behind the other.
LEMMA Segments ==
  ASSUME NEW S, NEW n \in Nat, NEW e \in [1..(n + 1) -> Seq(S)]
  PROVE  FlattenSeq(e) \in Seq(S) /\ \E p : PartsAt(p, e, n + 1, FlattenSeq(e))
<1> DEFINE m == n + 1
<1>1. m \in Nat /\ m # 0 /\ Len(e) = m /\ \A k \in 1..m : e[k] \in Seq(S)
  OBVIOUS
<1>2. PICK F : Partial(F, e, m) /\ FlattenSeq(e) = F[m]
  <2> HIDE DEF m
  <2>1. \E f : Partial(f, e, Len(e)) /\ FlattenSeq(e) = f[Len(e)]
    BY <1>1, FlattenPartial
  <2> QED BY <1>1, <2>1
<1> HIDE DEF m
<1>3. \A i \in 1..m : F[i] = IF i = 1 THEN e[i] ELSE F[i - 1] \o e[i]
  BY <1>2 DEF Partial
<1> DEFINE p == [k \in 0..m |-> IF k = 0 THEN 0 ELSE Len(F[k])]
           Sound(k) == /\ F[k] \in Seq(S) /\ p[k] = Len(F[k])
                       /\ \A j \in 1..k : /\ p[j] = p[j - 1] + Len(e[j]) /\ p[j] <= p[k]
                                          /\ p[j - 1] \in Nat /\ p[j] \in Nat
                                          /\ \A i \in 1..Len(e[j]) : F[k][p[j - 1] + i] = e[j][i]
           T == {k \in 0..m : k # 0 => Sound(k)}
<1>4. 0 \in T
  BY <1>1
<1>5. ASSUME NEW k \in 1..m, k - 1 \in T PROVE k \in T
  <2>1. e[k] \in Seq(S) /\ p[k] = Len(F[k]) /\ k \in 0..m /\ k - 1 \in 0..m /\ k # 0
    BY <1>1
  <2>2. CASE k = 1
    <3>1. F[1] = e[1] /\ p[0] = 0
      BY <1>1, <1>3, <2>2
    <3> HIDE DEF p
    <3>2. Sound(1)
      <4>1. \A j \in 1..1 : j = 1
        OBVIOUS
      <4>2. Len(e[1]) \in Nat /\ p[1] = Len(e[1]) /\ F[1] \in Seq(S)
        BY <2>1, <2>2, <3>1
      <4> QED BY <3>1, <4>1, <4>2
    <3> HIDE DEF Sound
    <3> QED BY <2>1, <2>2, <3>2
  <2>3. CASE k # 1
    <3> DEFINE a == F[k - 1]
               b == e[k]
    <3>1. Sound(k - 1)
      <4> HIDE DEF Sound
      <4>1. k - 1 # 0
        BY <1>1, <2>3
      <4> QED BY <1>5, <4>1
    <3>2. F[k] = a \o b
      BY <1>3, <2>3
    <3>3. a \in Seq(S) /\ b \in Seq(S) /\ p[k - 1] = Len(a)
      BY <2>1, <3>1
    <3> HIDE DEF a, b, p
    <3>4. /\ a \o b \in Seq(S) /\ Len(a \o b) = Len(a) + Len(b) /\ Len(a) \in Nat /\ Len(b) \in Nat
          /\ \A i \in 1..Len(a) : (a \o b)[i] = a[i]
          /\ \A i \in 1..Len(b) : (a \o b)[Len(a) + i] = b[i]
      BY <3>3, ConcatAt
    <3>5. F[k] \in Seq(S) /\ p[k] = p[k - 1] + Len(b) /\ p[k - 1] \in Nat /\ p[k] \in Nat
      BY <2>1, <3>2, <3>3, <3>4
    <3>6. ASSUME NEW j \in 1..k
          PROVE  /\ p[j] = p[j - 1] + Len(e[j]) /\ p[j] <= p[k] /\ p[j - 1] \in Nat /\ p[j] \in Nat
                 /\ \A i \in 1..Len(e[j]) : F[k][p[j - 1] + i] = e[j][i]
      <4>1. CASE j = k
        <5>1. e[j] = b
          BY <4>1 DEF b
        <5>2. \A i \in 1..Len(b) : F[k][p[k - 1] + i] = b[i]
          BY <3>2, <3>3, <3>4
        <5> QED BY <3>5, <4>1, <5>1, <5>2
      <4>2. CASE j # k
        <5>1. j \in 1..(k - 1)
          BY <1>1, <4>2
        <5>2. /\ p[j] = p[j - 1] + Len(e[j]) /\ p[j] <= p[k - 1] /\ p[j - 1] \in Nat /\ p[j] \in Nat
              /\ \A i \in 1..Len(e[j]) : a[p[j - 1] + i] = e[j][i]
          BY <3>1, <5>1 DEF a
        <5>3. e[j] \in Seq(S)
          BY <1>1, <5>1
        <5> DEFINE l == Len(e[j])
        <5>4. l \in Nat
          BY <5>3
        <5>5. ASSUME NEW i \in 1..l PROVE F[k][p[j - 1] + i] = e[j][i]
          <6>1. a[p[j - 1] + i] = e[j][i]
            BY <5>2, <5>5
          <6>2. p[j - 1] + i \in 1..Len(a)
            <7> DEFINE x == p[j - 1]
                       y == p[j]
                       z == Len(a)
            <7>1. x \in Nat /\ z \in Nat /\ y = x + l /\ y <= z
              BY <3>3, <3>4, <5>2
            <7> HIDE DEF l, x, y, z
            <7>2. x + i \in 1..z
              BY <5>4, <7>1
            <7> QED BY <7>2 DEF x, z
          <6> QED BY <3>2, <3>4, <6>1, <6>2
        <5> QED BY <3>4, <3>5, <5>2, <5>5
      <4> QED BY <4>1, <4>2
    <3>7. Sound(k)
      BY <2>1, <3>5, <3>6
    <3> HIDE DEF Sound
    <3> QED BY <2>1, <3>7
  <2> QED BY <2>2, <2>3
<1>6. \A k \in 0..m : k \in T
  <2> HIDE DEF T
  <2> QED BY <1>1, <1>4, <1>5, UpTo
<1>7. Sound(m)
  <2> HIDE DEF Sound
  <2> QED BY <1>1, <1>6
<1>8. p \in [0..m -> Nat] /\ p[0] = 0
  <2>1. \A k \in 0..m : p[k] \in Nat
    <3> SUFFICES ASSUME NEW k \in 0..m PROVE p[k] \in Nat
      OBVIOUS
    <3>1. CASE k = 0
      BY <3>1
    <3>2. CASE k # 0
      <4>1. k \in 1..m
        BY <1>1, <3>2
      <4> HIDE DEF p
      <4> QED BY <1>7, <4>1
    <3> QED BY <3>1, <3>2
  <2> QED BY <1>1, <2>1
<1> HIDE DEF p
<1>9. PartsAt(p, e, m, FlattenSeq(e)) /\ FlattenSeq(e) \in Seq(S)
  BY <1>2, <1>7, <1>8 DEF PartsAt
<1> QED BY <1>9 DEF m

\* A part of a sequence.
LEMMA PartOf ==
  ASSUME NEW S, NEW s \in Seq(S), NEW x \in Nat, NEW l \in Nat, x + l <= Len(s), NEW y, y = x + l
  PROVE  /\ SubSeq(s, x + 1, y) \in Seq(S) /\ Len(SubSeq(s, x + 1, y)) = l
         /\ \A i \in 1..l : SubSeq(s, x + 1, y)[i] = s[x + i]
<1> DEFINE t == SubSeq(s, x + 1, y)
<1>1. t \in Seq(S) /\ Len(t) = l
  OBVIOUS
<1>2. \A i \in 1..l : t[i] = s[x + i]
  <2> SUFFICES ASSUME NEW i \in 1..l PROVE t[i] = s[x + i]
    OBVIOUS
  <2>1. x + 1 + i - 1 = x + i
    OBVIOUS
  <2> QED BY <2>1
<1> QED BY <1>1, <1>2

\* A part that is known byte for byte.
LEMMA PartIs ==
  ASSUME NEW S, NEW s \in Seq(S), NEW q \in Seq(S), NEW x \in Nat, NEW y \in Nat, y = x + Len(q),
         y <= Len(s), \A i \in 1..Len(q) : s[x + i] = q[i]
  PROVE  SubSeq(s, x + 1, y) = q
<1> DEFINE t == SubSeq(s, x + 1, y)
           l == Len(q)
<1>1. t \in Seq(S) /\ Len(t) = l /\ l \in Nat /\ q \in Seq(S)
  OBVIOUS
<1>2. \A i \in 1..l : t[i] = q[i]
  <2> SUFFICES ASSUME NEW i \in 1..l PROVE t[i] = q[i]
    OBVIOUS
  <2>1. x + 1 + i - 1 = x + i
    OBVIOUS
  <2> QED BY <2>1
<1> HIDE DEF t
<1>3. t = q
  BY <1>1, <1>2
<1> QED BY <1>3 DEF t

\* The numbers are read back from their groups, one behind the other.
LEMMA SubidsBack ==
  ASSUME NEW n \in Nat, NEW s \in [1..(n + 1) -> 0..MaxArc],
         NEW b, b = FlattenSeq([i \in 1..(n + 1) |-> EncodeSubid(s[i])])
  PROVE  b \in Seq(Byte) /\ b # <<>> /\ Terminated(b) /\ ReadSubids(b) = s
<1> DEFINE m == n + 1
           e == [i \in 1..m |-> EncodeSubid(s[i])]
<1>1. m \in Nat /\ m # 0 /\ \A i \in 1..m : s[i] \in 0..MaxArc
  OBVIOUS
<1>2. \A i \in 1..m : /\ e[i] \in Seq(Byte) /\ Len(e[i]) \in 1..5 /\ e[i][Len(e[i])] < 128
                      /\ \A j \in 1..(Len(e[i]) - 1) : e[i][j] >= 128
  <2> SUFFICES ASSUME NEW i \in 1..m
               PROVE  /\ e[i] \in Seq(Byte) /\ Len(e[i]) \in 1..5 /\ e[i][Len(e[i])] < 128
                      /\ \A j \in 1..(Len(e[i]) - 1) : e[i][j] >= 128
    OBVIOUS
  <2> DEFINE v == s[i]
             x == EncodeSubid(v)
  <2>1. v \in Nat /\ e[i] = x
    BY <1>1, MaxArcAssumption, SMT
  <2> HIDE DEF v, x, e, m
  <2>2. /\ x \in Seq(Byte) /\ Len(x) = Groups(v) /\ Groups(v) \in 1..5
        /\ x[Groups(v)] < 128 /\ \A j \in 1..(Groups(v) - 1) : x[j] >= 128
    BY <2>1, GroupsAre, Zenon DEF x
  <2> QED BY <2>1, <2>2
<1>3. \A i \in 1..m : SubidNumber(e[i]) = s[i]
  <2> SUFFICES ASSUME NEW i \in 1..m PROVE SubidNumber(e[i]) = s[i]
    OBVIOUS
  <2>1. e[i] = EncodeSubid(s[i]) /\ s[i] \in 0..MaxArc
    BY <1>1
  <2> HIDE DEF e
  <2>2. SubidNumber(EncodeSubid(s[i])) = s[i]
    BY <2>1, SubidBack
  <2> QED BY <2>1, <2>2, Zenon
<1>4. e \in [1..(n + 1) -> Seq(Byte)] /\ b = FlattenSeq(e)
  <2>1. e = [i \in 1..(n + 1) |-> e[i]]
    OBVIOUS
  <2>2. b = FlattenSeq(e)
    OBVIOUS
  <2> HIDE DEF e
  <2> QED BY <1>2, <2>1, <2>2
<1> HIDE DEF e
<1>5. PICK p : /\ p \in [0..m -> Nat] /\ p[0] = 0 /\ p[m] = Len(b) /\ b \in Seq(Byte)
               /\ \A k \in 1..m : /\ p[k] = p[k - 1] + Len(e[k]) /\ p[k] <= p[m]
                                  /\ \A i \in 1..Len(e[k]) : b[p[k - 1] + i] = e[k][i]
  <2>1. b \in Seq(Byte) /\ \E p : PartsAt(p, e, n + 1, b)
    BY <1>4, Segments
  <2> QED BY <2>1, ZenonT(40) DEF PartsAt
<1> HIDE DEF m
<1>6. \A k \in 1..m : /\ p[k] \in Nat /\ p[k - 1] \in Nat /\ p[k - 1] < p[k] /\ p[k] <= Len(b)
                      /\ b[p[k]] < 128 /\ \A j \in (p[k - 1] + 1)..(p[k] - 1) : b[j] >= 128
  <2> SUFFICES ASSUME NEW k \in 1..m
               PROVE  /\ p[k] \in Nat /\ p[k - 1] \in Nat /\ p[k - 1] < p[k] /\ p[k] <= Len(b)
                      /\ b[p[k]] < 128 /\ \A j \in (p[k - 1] + 1)..(p[k] - 1) : b[j] >= 128
    OBVIOUS
  <2> DEFINE l == Len(e[k])
             x == p[k - 1]
             y == p[k]
  <2>1. x \in Nat /\ y \in Nat /\ y = x + l /\ y <= Len(b)
    BY <1>1, <1>5
  <2>2. l \in 1..5 /\ e[k][l] < 128 /\ \A j \in 1..(l - 1) : e[k][j] >= 128
    BY <1>2
  <2>3. \A i \in 1..l : b[x + i] = e[k][i]
    BY <1>5
  <2> HIDE DEF l, x, y
  <2>4. b[y] < 128
    BY <2>1, <2>2, <2>3
  <2>5. \A j \in (x + 1)..(y - 1) : b[j] >= 128
    <3> SUFFICES ASSUME NEW j \in (x + 1)..(y - 1) PROVE b[j] >= 128
      OBVIOUS
    <3>1. j - x \in 1..(l - 1) /\ j - x \in 1..l /\ x + (j - x) = j
      BY <2>1, <2>2
    <3>2. b[x + (j - x)] = e[k][j - x]
      BY <2>3, <3>1
    <3> QED BY <2>2, <3>1, <3>2
  <2> QED BY <2>1, <2>2, <2>4, <2>5 DEF x, y
<1>7. b # <<>> /\ Terminated(b)
  <2>1. p[m] = Len(b) /\ m \in 1..m
    BY <1>1, <1>5
  <2>2. b[Len(b)] < 128 /\ Len(b) # 0
    BY <1>6, <2>1
  <2>3. b # <<>>
    BY <2>2
  <2> QED BY <2>2, <2>3 DEF Terminated, Last
<1>8. b \in Seq(Byte)
  BY <1>5
<1>9. PICK f : Ends(f, b)
  BY <1>7, <1>8, EndsExist
<1>10. f[0] = 0 /\ \A k \in 1..Len(b) : f[k] = NextEnd(b, f[k - 1])
  BY <1>9 DEF Ends
<1>11. \A k \in 0..m : p[k] >= k /\ k <= Len(b)
  <2> DEFINE T == {k \in 0..m : p[k] >= k}
  <2>1. 0 \in T
    BY <1>1, <1>5
  <2>2. ASSUME NEW k \in 1..m, k - 1 \in T PROVE k \in T
    <3>1. p[k - 1] >= k - 1 /\ k \in 0..m
      BY <1>1, <2>2
    <3> QED BY <1>6, <3>1
  <2>3. \A k \in 0..m : k \in T
    <3> HIDE DEF T
    <3> QED BY <1>1, <2>1, <2>2, UpTo
  <2>4. p[m] >= m /\ p[m] = Len(b)
    <3>1. m \in 0..m
      BY <1>1
    <3>2. m \in T
      BY <2>3, <3>1
    <3> QED BY <1>5, <3>2
  <2> DEFINE z == Len(b)
  <2>5. z \in Nat /\ z >= m
    BY <1>8, <2>4
  <2> HIDE DEF z
  <2>6. \A k \in 0..m : k <= z
    BY <1>1, <2>5
  <2> QED BY <2>3, <2>6 DEF z
\* The ends are where the groups end.
<1>12. \A k \in 0..m : f[k] = p[k]
  <2> DEFINE T == {k \in 0..m : f[k] = p[k]}
  <2>1. 0 \in T
    BY <1>1, <1>5, <1>10
  <2>2. ASSUME NEW k \in 1..m, k - 1 \in T PROVE k \in T
    <3> DEFINE x == p[k - 1]
               y == p[k]
               w == NextEnd(b, x)
               z == Len(b)
    <3>1. f[k - 1] = x /\ k \in 0..m /\ k \in 1..z
      <4>1. f[k - 1] = x /\ k \in 0..m
        BY <1>1, <2>2
      <4>2. k <= z /\ z \in Nat
        BY <1>8, <1>11, <4>1
      <4> HIDE DEF z, x
      <4> QED BY <1>1, <4>1, <4>2
    <3>2. /\ y \in Nat /\ x \in Nat /\ x < y /\ y <= z /\ z \in Nat
          /\ b[y] < 128 /\ \A j \in (x + 1)..(y - 1) : b[j] >= 128
      BY <1>6, <1>8
    <3> HIDE DEF x, y, z
    <3>3. x \in 0..z /\ x # z
      BY <3>2
    <3>4. w \in (x + 1)..z /\ b[w] < 128 /\ \A j \in (x + 1)..(w - 1) : b[j] >= 128
      BY <1>7, <1>8, <3>3, NextEndIs DEF z
    <3> HIDE DEF w
    <3>5. \A i \in 1..z : b[i] < 128 => ~(b[i] >= 128)
      <4> SUFFICES ASSUME NEW i \in 1..z PROVE b[i] < 128 => ~(b[i] >= 128)
        OBVIOUS
      <4> DEFINE c == b[i]
      <4>1. c \in Byte
        BY <1>8 DEF z
      <4> HIDE DEF c
      <4>2. c < 128 => ~(c >= 128)
        BY <4>1 DEF Byte
      <4> QED BY <4>2 DEF c
    <3>6. ~(w < y)
      <4> SUFFICES ASSUME w < y PROVE FALSE
        OBVIOUS
      <4>1. w \in (x + 1)..(y - 1) /\ w \in 1..z
        BY <3>2, <3>4
      <4> QED BY <3>2, <3>4, <3>5, <4>1
    <3>7. ~(y < w)
      <4> SUFFICES ASSUME y < w PROVE FALSE
        OBVIOUS
      <4>1. y \in (x + 1)..(w - 1) /\ y \in 1..z
        BY <3>2, <3>4
      <4> QED BY <3>2, <3>4, <3>5, <4>1
    <3>8. w = y
      BY <3>2, <3>4, <3>6, <3>7
    <3>9. f[k] = w
      BY <1>10, <3>1 DEF w, z
    <3> QED BY <3>1, <3>8, <3>9 DEF y
  <2>3. \A k \in 0..m : k \in T
    <3> HIDE DEF T
    <3> QED BY <1>1, <2>1, <2>2, UpTo
  <2> QED BY <2>3
<1>13. /\ m \in 1..Len(b) /\ f[m] = Len(b) /\ f[m - 1] # Len(b)
  <2> DEFINE z == Len(b)
  <2>1. z \in Nat /\ m <= z
    BY <1>1, <1>8, <1>11
  <2>2. f[m] = z
    BY <1>1, <1>5, <1>12
  <2>3. f[m - 1] = p[m - 1] /\ p[m - 1] < p[m] /\ p[m] = z /\ p[m - 1] \in Nat
    <3>1. m \in 1..m /\ m - 1 \in 0..m
      BY <1>1
    <3> QED BY <1>5, <1>6, <1>12, <3>1
  <2> HIDE DEF z
  <2>4. m \in 1..z /\ f[m - 1] # z
    BY <1>1, <2>1, <2>3
  <2> QED BY <2>2, <2>4 DEF z
<1>14. ReadSubids(b) = [k \in 1..m |-> SubidNumber(SubSeq(b, f[k - 1] + 1, f[k]))]
  BY <1>7, <1>8, <1>9, <1>13, ReadSubidsAre
<1>15. \A k \in 1..m : SubSeq(b, f[k - 1] + 1, f[k]) = e[k]
  <2> SUFFICES ASSUME NEW k \in 1..m PROVE SubSeq(b, f[k - 1] + 1, f[k]) = e[k]
    OBVIOUS
  <2> DEFINE l == Len(e[k])
             x == p[k - 1]
             y == p[k]
             q == e[k]
  <2>1. f[k - 1] = x /\ f[k] = y
    BY <1>1, <1>12
  <2>2. /\ x \in Nat /\ y \in Nat /\ x < y /\ y <= Len(b) /\ y = x + l
        /\ \A i \in 1..l : b[x + i] = q[i]
    BY <1>5, <1>6
  <2>3. q \in Seq(Byte) /\ Len(q) = l /\ l \in Nat
    BY <1>2
  <2> HIDE DEF x, y, q, l
  <2>4. y = x + Len(q) /\ \A i \in 1..Len(q) : b[x + i] = q[i]
    BY <2>2, <2>3, Zenon
  <2>5. SubSeq(b, x + 1, y) = q
    BY <1>8, <2>2, <2>3, <2>4, PartIs
  <2> QED BY <2>1, <2>5 DEF q
<1>16. [k \in 1..m |-> SubidNumber(SubSeq(b, f[k - 1] + 1, f[k]))] = [k \in 1..m |-> s[k]]
  <2>1. \A k \in 1..m : SubidNumber(SubSeq(b, f[k - 1] + 1, f[k])) = s[k]
    BY <1>3, <1>15
  <2> QED BY <2>1, Zenon
<1>17. s = [k \in 1..m |-> s[k]]
  BY DEF m
<1> QED BY <1>7, <1>8, <1>14, <1>16, <1>17

\* What a sequence is made of.
LEMMA ElementOf ==
  ASSUME NEW S, NEW s \in Seq(S), NEW i \in 1..Len(s)
  PROVE  s[i] \in S
  OBVIOUS

\* A sequence is a function on its places.
LEMMA FunctionOf ==
  ASSUME NEW S, NEW s \in Seq(S)
  PROVE  s \in [1..Len(s) -> S]
  OBVIOUS

\* A part of a sequence is made of what the sequence is made of.
LEMMA PartIn ==
  ASSUME NEW S, NEW s \in Seq(S), NEW x \in Nat, x # 0, NEW y \in Nat, y <= Len(s)
  PROVE  SubSeq(s, x, y) \in Seq(S)
  OBVIOUS

\* A sequence of one.
LEMMA OneOf ==
  ASSUME NEW S, NEW x \in S
  PROVE  <<x>> \in Seq(S) /\ Len(<<x>>) = 1 /\ <<x>>[1] = x /\ <<x>> \in [1..1 -> S]
  OBVIOUS

\* A sequence of two.
LEMMA PairOf ==
  ASSUME NEW S, NEW x \in S, NEW y \in S
  PROVE  <<x, y>> \in Seq(S) /\ Len(<<x, y>>) = 2 /\ <<x, y>>[1] = x /\ <<x, y>>[2] = y
  OBVIOUS

\* Whatever bytes are behind an identifier's header, what is read are arcs.
LEMMA ParsedBody ==
  ASSUME NEW bs \in Seq(Byte), NEW o \in ParseObjidBody(bs)
  PROVE  o \in Seq(0..MaxArc)
<1>1. CASE bs = <<>>
  <2>1. o = <<>>
    BY <1>1, Zenon DEF ParseObjidBody
  <2> QED BY <2>1
<1>2. CASE bs # <<>>
  <2> DEFINE v == ReadSubids(bs)
             n == Len(bs)
  <2>1. ~(Last(bs) >= 128) /\ -1 \notin Range(v) /\ o = FirstArcs(v[1]) \o Tail(v)
    BY <1>2, Zenon DEF ParseObjidBody
  <2>2. Terminated(bs) /\ n \in Nat /\ n # 0
    <3>1. n \in Nat /\ n # 0
      BY <1>2
    <3>2. Last(bs) = bs[n]
      BY DEF Last
    <3>3. bs[n] \in 0..255
      <4>1. n \in 1..n
        BY <3>1
      <4>2. bs[n] \in Byte
        BY <4>1, ElementOf, Zenon
      <4> QED BY <4>2, Zenon DEF Byte
    <3>4. Last(bs) < 128
      <4> DEFINE c == Last(bs)
      <4>1. c \in 0..255 /\ ~(c >= 128)
        BY <2>1, <3>2, <3>3
      <4> HIDE DEF c
      <4>2. c < 128
        BY <4>1
      <4> QED BY <4>2 DEF c
    <3> QED BY <1>2, <3>1, <3>4 DEF Terminated
  <2>3. PICK f : Ends(f, bs)
    BY <2>2, EndsExist
  <2>4. PICK m \in 1..n : f[m] = n /\ f[m - 1] # n
    BY <2>2, <2>3, EndsReach
  <2>5. v = [k \in 1..m |-> SubidNumber(SubSeq(bs, f[k - 1] + 1, f[k]))]
    BY <2>2, <2>3, <2>4, ReadSubidsAre
  <2> HIDE DEF n
  <2>6. m \in Nat /\ m >= 1 /\ DOMAIN v = 1..m
    BY <2>2, <2>4, <2>5
  <2>7. \A k \in 1..m : v[k] \in 0..MaxArc
    <3> SUFFICES ASSUME NEW k \in 1..m PROVE v[k] \in 0..MaxArc
      OBVIOUS
    <3> DEFINE q == SubSeq(bs, f[k - 1] + 1, f[k])
    <3>1. f[k] \in 0..n /\ f[k - 1] \in 0..n
      <4>1. k \in 0..n /\ k - 1 \in 0..n
        BY <2>2, <2>4
      <4>2. f \in [0..n -> 0..n]
        BY <2>3 DEF Ends, n
      <4> QED BY <4>1, <4>2
    <3>2. q \in Seq(Byte)
      <4> DEFINE x == f[k - 1]
                 y == f[k]
      <4>1. x \in Nat /\ y \in Nat /\ y <= n
        BY <2>2, <3>1
      <4> HIDE DEF x, y
      <4>2. SubSeq(bs, x + 1, y) \in Seq(Byte)
        BY <4>1 DEF n
      <4> QED BY <4>2 DEF x, y
    <3> HIDE DEF q
    <3>3. SubidNumber(q) \in -1..MaxArc
      <4>1. PICK g : /\ g \in [0..Len(q) -> -1..MaxArc]
                     /\ SubidNumber(q) = g[Len(q)]
        BY <3>2, SubidSteps
      <4>2. Len(q) \in 0..Len(q)
        BY <3>2
      <4> QED BY <4>1, <4>2
    <3>4. v[k] = SubidNumber(q)
      BY <2>5 DEF q
    <3>5. v[k] # -1
      BY <2>1, <2>6 DEF Range
    <3> DEFINE c == v[k]
    <3>6. c \in -1..MaxArc /\ c # -1
      BY <3>3, <3>4, <3>5
    <3> HIDE DEF c
    <3>7. c \in 0..MaxArc
      BY <3>6, MaxArcAssumption, SMT
    <3> QED BY <3>7 DEF c
  <2>8. v = [k \in 1..m |-> v[k]]
    BY <2>5, Zenon
  <2> HIDE DEF v
  <2>9. v \in Seq(0..MaxArc) /\ Len(v) = m
    <3>1. v \in [1..m -> 0..MaxArc]
      BY <2>7, <2>8, Zenon
    <3> QED BY <2>6, <3>1, FixedSeq, Zenon
  <2>10. Tail(v) \in Seq(0..MaxArc)
    BY <2>6, <2>9
  <2>11. FirstArcs(v[1]) \in Seq(0..MaxArc)
    <3> DEFINE c == v[1]
    <3>1. c \in 0..MaxArc
      BY <2>6, <2>7
    <3> HIDE DEF c
    <3>2. MaxArc \in Nat /\ MaxArc >= 80
      BY MaxArcAssumption, SMT
    <3>3. FirstArcs(c) \in Seq(0..MaxArc)
      <4> DEFINE S == 0..MaxArc
      <4>1. 0 \in S /\ 1 \in S /\ 2 \in S /\ c \in S /\ (~(c < 40) => c - 40 \in S) /\ (~(c < 80) => c - 80 \in S)
        BY <3>1, <3>2
      <4> HIDE DEF S
      <4>2. CASE c < 40
        <5>1. FirstArcs(c) = <<0, c>>
          BY <4>2 DEF FirstArcs
        <5> QED BY <4>1, <5>1, PairOf DEF S
      <4>3. CASE ~(c < 40) /\ c < 80
        <5>1. FirstArcs(c) = <<1, c - 40>>
          BY <4>3 DEF FirstArcs
        <5> QED BY <4>1, <4>3, <5>1, PairOf DEF S
      <4>4. CASE ~(c < 40) /\ ~(c < 80)
        <5>1. FirstArcs(c) = <<2, c - 80>>
          BY <4>4 DEF FirstArcs
        <5> QED BY <4>1, <4>4, <5>1, PairOf DEF S
      <4> QED BY <4>2, <4>3, <4>4
    <3> QED BY <3>3 DEF c
  <2> QED BY <2>1, <2>10, <2>11
<1> QED BY <1>1, <1>2

\* The numbers of an identifier that can be built.
LEMMA SubidsTyped ==
  ASSUME NEW oid \in Seq(0..MaxArc), Buildable(oid)
  PROVE  \E n \in Nat : Subids(oid) \in [1..(n + 1) -> 0..MaxArc]
<1>1. MaxArc \in Nat /\ MaxArc >= 80
  BY MaxArcAssumption, SMT
<1>2. CASE oid = <<>>
  <2>1. Subids(oid) = <<0>>
    <3>1. Len(oid) # 1
      BY <1>2
    <3> QED BY <1>2, <3>1 DEF Subids
  <2>2. <<0>> \in [1..(0 + 1) -> 0..MaxArc]
    <3>1. 0 \in 0..MaxArc /\ 0 + 1 = 1
      BY <1>1
    <3> QED BY <3>1, OneOf
  <2> QED BY <2>1, <2>2
<1>3. CASE oid # <<>>
  <2> DEFINE a == oid[1]
             n == Len(oid)
  <2>1. n \in Nat /\ n # 0
    BY <1>3
  <2>2. a \in 0..2
    <3>1. a \in 0..MaxArc /\ a <= 2
      <4>1. 1 \in 1..n
        BY <2>1
      <4>2. a \in 0..MaxArc
        BY <4>1, ElementOf, Zenon
      <4> QED BY <1>3, <4>2, Zenon DEF Buildable
    <3> HIDE DEF a
    <3> QED BY <1>1, <3>1
  <2>3. CASE n = 1
    <3>1. Subids(oid) = <<a * 40>>
      BY <1>3, <2>3, Zenon DEF Subids
    <3> HIDE DEF a
    <3>2. a * 40 \in 0..MaxArc
      BY <1>1, <2>2
    <3>3. <<a * 40>> \in [1..(0 + 1) -> 0..MaxArc]
      <4>1. 0 + 1 = 1
        OBVIOUS
      <4> QED BY <3>2, <4>1, OneOf, Zenon
    <3> QED BY <3>1, <3>3
  <2>4. CASE n # 1
    <3> DEFINE b == oid[2]
               t == SubSeq(oid, 3, Len(oid))
    <3>1. Subids(oid) = <<Shared(a, b)>> \o t
      BY <1>3, <2>4, Zenon DEF Subids
    <3>2. n >= 2 /\ b \in 0..MaxArc
      <4>1. n >= 2 /\ 2 \in 1..n
        BY <2>1, <2>4
      <4> QED BY <4>1, ElementOf, Zenon
    <3>3. t \in Seq(0..MaxArc)
      <4>1. 3 \in Nat /\ 3 # 0 /\ n <= n
        BY <2>1
      <4> QED BY <2>1, <4>1, PartIn, Zenon
    <3> HIDE DEF a, b, t, n
    <3>4. Shared(a, b) \in 0..MaxArc
      BY <1>1, <2>2, <3>2 DEF Shared
    <3> DEFINE h == <<Shared(a, b)>>
    <3>7. h \in Seq(0..MaxArc) /\ Len(h) = 1
      BY <3>4, OneOf, Zenon
    <3> HIDE DEF h
    <3>5. h \o t \in Seq(0..MaxArc) /\ Len(h \o t) = Len(t) + 1 /\ Len(t) \in Nat
      <4>1. h \o t \in Seq(0..MaxArc) /\ Len(h \o t) = Len(h) + Len(t)
        BY <3>3, <3>7, ConcatAt, Zenon
      <4>2. Len(t) \in Nat
        BY <3>3
      <4> HIDE DEF h
      <4> QED BY <3>7, <4>1, <4>2
    <3> DEFINE s == h \o t
    <3>6. s \in Seq(0..MaxArc) /\ Len(s) = Len(t) + 1
      BY <3>5
    <3> HIDE DEF s
    <3>8. s \in [1..(Len(t) + 1) -> 0..MaxArc]
      <4>1. s \in [1..Len(s) -> 0..MaxArc]
        BY <3>6, FunctionOf, Zenon
      <4> QED BY <3>6, <4>1, Zenon
    <3> QED BY <3>1, <3>5, <3>8, Zenon DEF s, h
  <2> QED BY <2>3, <2>4
<1> QED BY <1>2, <1>3

\* The body of an identifier says its numbers.
LEMMA BodyIs ==
  ASSUME NEW oid \in Seq(0..MaxArc), Buildable(oid)
  PROVE  /\ ObjidBody(oid) \in Seq(Byte) /\ ObjidBody(oid) # <<>> /\ Terminated(ObjidBody(oid))
         /\ ReadSubids(ObjidBody(oid)) = Subids(oid)
<1> DEFINE s == Subids(oid)
           b == ObjidBody(oid)
<1>1. PICK n \in Nat : s \in [1..(n + 1) -> 0..MaxArc]
  BY SubidsTyped
<1>2. b = FlattenSeq([i \in DOMAIN s |-> EncodeSubid(s[i])])
  BY Zenon DEF ObjidBody
<1> HIDE DEF s, b
<1>3. DOMAIN s = 1..(n + 1)
  BY <1>1
<1>4. b = FlattenSeq([i \in 1..(n + 1) |-> EncodeSubid(s[i])])
  BY <1>2, <1>3, Zenon
<1>5. b \in Seq(Byte) /\ b # <<>> /\ Terminated(b) /\ ReadSubids(b) = s
  BY <1>1, <1>4, SubidsBack
<1> QED BY <1>5 DEF s, b

\* The first two arcs can be told from the number they share.
LEMMA ArcsBack ==
  ASSUME NEW oid \in Seq(0..MaxArc), Proper(oid)
  PROVE  /\ Buildable(oid) /\ Len(Subids(oid)) = Len(oid) - 1
         /\ FirstArcs(Subids(oid)[1]) \o Tail(Subids(oid)) = oid
<1> DEFINE a == oid[1]
           b == oid[2]
           n == Len(oid)
           t == SubSeq(oid, 3, Len(oid))
           u == Shared(a, b)
<1>1. MaxArc \in Nat /\ MaxArc >= 80
  BY MaxArcAssumption, SMT
<1>2. n \in Nat /\ n >= 2 /\ a <= 2 /\ b < IF a < 2 THEN 40 ELSE MaxArc - 79
  BY DEF Proper
<1>3. a \in 0..MaxArc /\ b \in 0..MaxArc
  <2>1. 1 \in 1..n /\ 2 \in 1..n
    BY <1>2
  <2> QED BY <2>1, ElementOf, Zenon
<1>4. Buildable(oid)
  BY <1>2 DEF Buildable
<1>5. Subids(oid) = <<u>> \o t
  <2>1. oid # <<>> /\ Len(oid) # 1
    BY <1>2
  <2> QED BY <2>1, Zenon DEF Subids
<1>6. t \in Seq(0..MaxArc) /\ Len(t) = n - 2 /\ \A i \in 1..(n - 2) : t[i] = oid[i + 2]
  <2>1. \A i \in 1..(n - 2) : t[i] = oid[i + 2]
    <3> SUFFICES ASSUME NEW i \in 1..(n - 2) PROVE t[i] = oid[i + 2]
      OBVIOUS
    <3>1. 3 + i - 1 = i + 2
      BY <1>2
    <3> QED BY <1>2, <3>1
  <2>2. t \in Seq(0..MaxArc)
    <3>1. 3 \in Nat /\ 3 # 0 /\ n <= n
      BY <1>2
    <3> QED BY <1>2, <3>1, PartIn, Zenon
  <2>3. Len(t) = n - 2
    <3>1. /\ 2 \in Nat /\ n - 2 \in Nat /\ 2 + (n - 2) <= Len(oid) /\ n = 2 + (n - 2)
          /\ 2 + 1 = 3
      BY <1>2
    <3>2. Len(SubSeq(oid, 2 + 1, n)) = n - 2
      BY <3>1, PartOf
    <3> QED BY <3>1, <3>2, Zenon
  <2> QED BY <2>1, <2>2, <2>3
<1> HIDE DEF a, b, n, t, u
<1>7. FirstArcs(u) = <<a, b>> /\ u \in 0..MaxArc
  <2>1. u = a * 40 + b /\ a * 40 + b <= MaxArc
    BY <1>1, <1>2, <1>3 DEF Shared, u
  <2>2. a \in 0..2
    BY <1>1, <1>2, <1>3
  <2>3. CASE a = 0
    BY <1>1, <1>2, <1>3, <2>1, <2>3 DEF FirstArcs
  <2>4. CASE a = 1
    BY <1>1, <1>2, <1>3, <2>1, <2>4 DEF FirstArcs
  <2>5. CASE a = 2
    BY <1>1, <1>2, <1>3, <2>1, <2>5 DEF FirstArcs
  <2> QED BY <2>2, <2>3, <2>4, <2>5
<1> DEFINE s == <<u>> \o t
<1>8. s[1] = u /\ Tail(s) = t /\ Len(s) = Len(t) + 1
  BY <1>6, <1>7
<1>9. <<a, b>> \o t = oid
  <2>1. <<a, b>> \in Seq(0..MaxArc) /\ Len(<<a, b>>) = 2
    BY <1>3
  <2> DEFINE w == <<a, b>> \o t
  <2>2. w \in Seq(0..MaxArc) /\ Len(w) = n
    BY <1>2, <1>6, <2>1
  <2>3. \A i \in 1..n : w[i] = oid[i]
    <3> SUFFICES ASSUME NEW i \in 1..n PROVE w[i] = oid[i]
      OBVIOUS
    <3>1. CASE i = 1
      BY <1>6, <2>1, <3>1 DEF a
    <3>2. CASE i = 2
      BY <1>6, <2>1, <3>2 DEF b
    <3>3. CASE i > 2
      <4>1. i - 2 \in 1..(n - 2) /\ i - 2 \in Nat /\ i - 2 + 2 = i
        BY <1>2, <3>3
      <4>2. w[2 + (i - 2)] = t[i - 2]
        BY <1>6, <2>1, <4>1, ConcatAt
      <4> QED BY <1>6, <4>1, <4>2
    <3>4. i = 1 \/ i = 2 \/ i > 2
      BY <1>2
    <3> HIDE DEF w
    <3> QED BY <3>1, <3>2, <3>3, <3>4
  <2> HIDE DEF w
  <2>4. w = oid
    BY <2>2, <2>3 DEF n
  <2> QED BY <2>4 DEF w
<1>10. Len(Subids(oid)) = Len(oid) - 1
  BY <1>2, <1>5, <1>6, <1>8 DEF n
<1> QED BY <1>4, <1>5, <1>7, <1>8, <1>9, <1>10

\* An identifier is read back from its body.
LEMMA ObjidBack ==
  ASSUME NEW oid \in Seq(0..MaxArc), Proper(oid)
  PROVE  ParseObjidBody(ObjidBody(oid)) = {oid}
<1> DEFINE b == ObjidBody(oid)
           v == ReadSubids(b)
<1>1. Buildable(oid) /\ FirstArcs(Subids(oid)[1]) \o Tail(Subids(oid)) = oid
  BY ArcsBack
<1>2. b \in Seq(Byte) /\ b # <<>> /\ Terminated(b) /\ v = Subids(oid)
  BY <1>1, BodyIs
<1>3. PICK n \in Nat : v \in [1..(n + 1) -> 0..MaxArc]
  BY <1>1, <1>2, SubidsTyped
<1> HIDE DEF b
<1>4. Last(b) < 128 /\ Last(b) \in 0..255
  <2>1. Last(b) < 128 /\ Last(b) = b[Len(b)]
    BY <1>2 DEF Terminated, Last
  <2>2. Len(b) \in 1..Len(b)
    BY <1>2
  <2>3. b[Len(b)] \in Byte
    BY <1>2, <2>2, ElementOf, Zenon
  <2> QED BY <2>1, <2>3, Zenon DEF Byte
<1>5. ~(Last(b) >= 128)
  <2> DEFINE c == Last(b)
  <2>1. c < 128 /\ c \in 0..255
    BY <1>4
  <2> HIDE DEF c
  <2>2. ~(c >= 128)
    BY <2>1
  <2> QED BY <2>2 DEF c
<1>6. -1 \notin Range(v)
  BY <1>3 DEF Range
<1>7. FirstArcs(v[1]) \o Tail(v) = oid
  BY <1>1, <1>2, Zenon
<1>8. ParseObjidBody(b) = {oid}
  BY <1>2, <1>5, <1>6, <1>7, Zenon DEF ParseObjidBody
<1> QED BY <1>8 DEF b

-----------------------------------------------------------------------------
(* Headers                                                                 *)

\* The number of one byte ...
LEMMA NumberOfOne ==
  ASSUME NEW a \in Byte
  PROVE  Number(256, <<a>>) = a
<1> DEFINE d == <<a>>
<1>1. a \in Nat
  BY DEF Byte
<1>2. d \in Seq(Nat) /\ Len(d) = 1 /\ d[1] = a
  BY <1>1, OneOf, Zenon
<1> HIDE DEF d
<1>3. PICK f \in [0..Len(d) -> Nat] :
        /\ f[0] = 0 /\ (\A i \in 1..Len(d) : f[i] = f[i - 1] * 256 + d[i])
        /\ Number(256, d) = f[Len(d)]
  BY <1>2, NumberSteps, ZenonT(40)
<1>4. f[1] = f[0] * 256 + d[1]
  BY <1>2, <1>3
<1>5. Number(256, d) = a
  BY <1>1, <1>2, <1>3, <1>4
<1> QED BY <1>5 DEF d

\* ... and of two.
LEMMA NumberOfTwo ==
  ASSUME NEW a \in Byte, NEW b \in Byte
  PROVE  Number(256, <<a, b>>) = a * 256 + b
<1> DEFINE d == <<a, b>>
<1>1. a \in Nat /\ b \in Nat
  BY DEF Byte
<1>2. d \in Seq(Nat) /\ Len(d) = 2 /\ d[1] = a /\ d[2] = b
  BY <1>1, PairOf, Zenon
<1> HIDE DEF d
<1>3. PICK f \in [0..Len(d) -> Nat] :
        /\ f[0] = 0 /\ (\A i \in 1..Len(d) : f[i] = f[i - 1] * 256 + d[i])
        /\ Number(256, d) = f[Len(d)]
  BY <1>2, NumberSteps, ZenonT(40)
<1>4. f[1] = f[0] * 256 + d[1] /\ f[2] = f[1] * 256 + d[2]
  BY <1>2, <1>3
<1>5. f[1] = a
  BY <1>1, <1>2, <1>3, <1>4
<1>6. Number(256, d) = a * 256 + b
  BY <1>1, <1>2, <1>3, <1>4, <1>5
<1> QED BY <1>6 DEF d

\* What a header of one length byte, or of some behind the first, says.
LEMMA TlvIs ==
  ASSUME NEW d, Len(d) \in Nat, NEW c \in 0..4, NEW n \in Nat, Len(d) >= 2 + c + n, d[2] \in Nat,
         c = 0 => d[2] < 128 /\ n = d[2],
         c # 0 => d[2] = 128 + c /\ n = Number(256, SubSeq(d, 3, 2 + c))
  PROVE  ParseTlv(d) = {[tag |-> d[1], value |-> SubSeq(d, 2 + c + 1, 2 + c + n), size |-> 2 + c + n]}
<1> DEFINE z == Len(d)
           y == d[2]
           count == IF y < 128 THEN 0 ELSE y - 128
           many == Number(256, SubSeq(d, 3, 2 + count))
           amount == IF count = 0 THEN y ELSE many
<1>1. z \in Nat /\ z >= 2 + c + n /\ y \in Nat /\ (c = 0 => y < 128 /\ n = y) /\ (c # 0 => y = 128 + c)
  OBVIOUS
<1>2. c # 0 => n = Number(256, SubSeq(d, 3, 2 + c))
  OBVIOUS
<1> HIDE DEF z, y
<1>3. count = c
  BY <1>1
<1>4. ~(z < 2) /\ ~(y >= 128 /\ count \notin 1..4) /\ ~(z < 2 + count)
  BY <1>1, <1>3
<1>5. amount = n
  <2>1. c # 0 => many = n
    BY <1>2, <1>3, Zenon
  <2> HIDE DEF many
  <2> QED BY <1>1, <1>3, <2>1
<1> HIDE DEF amount, count
<1>6. ~(z < 2 + count + amount)
  BY <1>1, <1>3, <1>5
<1>7. ParseTlv(d) = {[tag |-> d[1], value |-> SubSeq(d, 2 + count + 1, 2 + count + amount),
                      size |-> 2 + count + amount]}
  BY <1>4, <1>6, Zenon DEF ParseTlv, z, y, count, amount
<1> QED BY <1>3, <1>5, <1>7, Zenon

\* The length bytes in front of l bytes.
Header(h, l) ==
  \/ l < 128 /\ h = <<l>>
  \/ l < 256 /\ h = <<129, l>>
  \/ l < 65536 /\ h = <<130, (l \div 256) % 256, l % 256>>

\* What the length bytes are and say.
LEMMA HeaderIs ==
  ASSUME NEW h, NEW l \in Nat, Header(h, l)
  PROVE  /\ h \in Seq(Byte) /\ Len(h) \in 1..3
         /\ \/ Len(h) = 1 /\ h[1] < 128 /\ l = h[1]
            \/ Len(h) = 2 /\ h[1] = 129 /\ l = Number(256, SubSeq(h, 2, 2))
            \/ Len(h) = 3 /\ h[1] = 130 /\ l = Number(256, SubSeq(h, 2, 3))
<1>1. CASE l < 128 /\ h = <<l>>
  <2>1. l \in Byte
    BY <1>1 DEF Byte
  <2>2. h \in Seq(Byte) /\ Len(h) = 1 /\ h[1] = l
    BY <1>1, <2>1, OneOf, Zenon
  <2> QED BY <1>1, <2>2
<1>2. CASE l < 256 /\ h = <<129, l>>
  <2>1. l \in Byte /\ 129 \in Byte
    BY <1>2 DEF Byte
  <2>2. h \in Seq(Byte) /\ Len(h) = 2 /\ h[1] = 129 /\ h[2] = l
    BY <1>2, <2>1, PairOf, Zenon
  <2>3. SubSeq(h, 2, 2) = <<l>>
    <3> DEFINE q == <<l>>
    <3>1. q \in Seq(Byte) /\ Len(q) = 1 /\ q[1] = l
      BY <2>1, OneOf, Zenon
    <3> HIDE DEF q
    <3>2. /\ 1 \in Nat /\ 2 \in Nat /\ 2 = 1 + Len(q) /\ 2 <= Len(h) /\ 1 + 1 = 2
          /\ \A i \in 1..Len(q) : h[1 + i] = q[i]
      BY <2>2, <3>1
    <3>3. SubSeq(h, 1 + 1, 2) = q
      BY <2>2, <3>1, <3>2, PartIs
    <3> QED BY <3>2, <3>3 DEF q
  <2>4. l = Number(256, SubSeq(h, 2, 2))
    BY <2>1, <2>3, NumberOfOne, Zenon
  <2> QED BY <2>2, <2>4
<1>3. CASE l < 65536 /\ h = <<130, (l \div 256) % 256, l % 256>>
  <2> DEFINE a == (l \div 256) % 256
             b == l % 256
  <2>1. a \in Byte /\ b \in Byte /\ 130 \in Byte /\ l = a * 256 + b
    BY <1>3, SMT DEF Byte
  <2>2. h = <<130, a, b>>
    BY <1>3
  <2> HIDE DEF a, b
  <2>3. h \in Seq(Byte) /\ Len(h) = 3 /\ h[1] = 130 /\ h[2] = a /\ h[3] = b
    BY <2>1, <2>2
  <2>4. SubSeq(h, 2, 3) = <<a, b>>
    <3> DEFINE q == <<a, b>>
    <3>1. q \in Seq(Byte) /\ Len(q) = 2 /\ q[1] = a /\ q[2] = b
      BY <2>1, PairOf, Zenon
    <3> HIDE DEF q
    <3>2. /\ 1 \in Nat /\ 3 \in Nat /\ 3 = 1 + Len(q) /\ 3 <= Len(h) /\ 1 + 1 = 2
          /\ \A i \in 1..Len(q) : h[1 + i] = q[i]
      BY <2>3, <3>1
    <3>3. SubSeq(h, 1 + 1, 3) = q
      BY <2>3, <3>1, <3>2, PartIs
    <3> QED BY <3>2, <3>3 DEF q
  <2>5. l = Number(256, SubSeq(h, 2, 3))
    BY <2>1, <2>4, NumberOfTwo, ZenonT(40)
  <2> QED BY <2>3, <2>5
<1> QED BY <1>1, <1>2, <1>3 DEF Header

\* A header is read as what is behind it, and the rest is left alone.
LEMMA TlvBack ==
  ASSUME NEW tag \in Byte, NEW v \in Seq(Byte), NEW h, Header(h, Len(v)), NEW rest \in Seq(Byte)
  PROVE  /\ <<tag>> \o h \o v \in Seq(Byte) /\ Len(<<tag>> \o h \o v) = 1 + Len(h) + Len(v)
         /\ ParseTlv((<<tag>> \o h \o v) \o rest)
              = {[tag |-> tag, value |-> v, size |-> Len(<<tag>> \o h \o v)]}
<1> DEFINE l == Len(v)
           k == Len(h)
           g == <<tag>> \o h
           t == g \o v
           d == t \o rest
<1>1. /\ h \in Seq(Byte) /\ k \in 1..3 /\ l \in Nat
      /\ \/ k = 1 /\ h[1] < 128 /\ l = h[1]
         \/ k = 2 /\ h[1] = 129 /\ l = Number(256, SubSeq(h, 2, 2))
         \/ k = 3 /\ h[1] = 130 /\ l = Number(256, SubSeq(h, 2, 3))
  BY HeaderIs
<1>2. /\ g \in Seq(Byte) /\ Len(g) = 1 + k /\ g[1] = tag
      /\ \A i \in 1..k : g[1 + i] = h[i]
  <2>1. <<tag>> \in Seq(Byte) /\ Len(<<tag>>) = 1 /\ <<tag>>[1] = tag
    BY OneOf
  <2>2. 1 \in 1..1
    OBVIOUS
  <2> QED BY <1>1, <2>1, <2>2, ConcatAt
<1> HIDE DEF k, l, g
<1>3. /\ t \in Seq(Byte) /\ Len(t) = 1 + k + l
      /\ (\A i \in 1..(1 + k) : t[i] = g[i]) /\ \A i \in 1..l : t[1 + k + i] = v[i]
  <2>1. /\ t \in Seq(Byte) /\ Len(t) = Len(g) + l
        /\ (\A i \in 1..Len(g) : t[i] = g[i]) /\ \A i \in 1..l : t[Len(g) + i] = v[i]
    <3>1. g \in Seq(Byte)
      BY <1>2
    <3>2. /\ g \o v \in Seq(Byte) /\ Len(g \o v) = Len(g) + Len(v)
          /\ (\A i \in 1..Len(g) : (g \o v)[i] = g[i]) /\ \A i \in 1..Len(v) : (g \o v)[Len(g) + i] = v[i]
      BY <3>1, ConcatAt
    <3> QED BY <3>2 DEF l
  <2> QED BY <1>2, <2>1, Zenon
<1>4. \A i \in 1..(1 + k + l) : (t \o rest)[i] = t[i]
  <2>1. \A i \in 1..Len(t) : (t \o rest)[i] = t[i]
    <3> HIDE DEF t
    <3> QED BY <1>3, ConcatAt, Zenon
  <2> QED BY <1>3, <2>1, Zenon
<1>5. d \in Seq(Byte) /\ Len(d) = 1 + k + l + Len(rest) /\ Len(rest) \in Nat
  BY <1>1, <1>3, ConcatAt, SMTT(30)
<1> HIDE DEF t
<1>6. d[1] = tag /\ (\A i \in 1..k : d[1 + i] = h[i]) /\ \A i \in 1..l : d[1 + k + i] = v[i]
  <2>1. d[1] = tag
    <3>1. 1 \in 1..(1 + k + l) /\ 1 \in 1..(1 + k)
      BY <1>1
    <3> QED BY <1>2, <1>3, <1>4, <3>1
  <2>2. ASSUME NEW i \in 1..k PROVE d[1 + i] = h[i]
    <3>1. 1 + i \in 1..(1 + k + l) /\ 1 + i \in 1..(1 + k)
      BY <1>1
    <3> QED BY <1>2, <1>3, <1>4, <3>1
  <2>3. ASSUME NEW i \in 1..l PROVE d[1 + k + i] = v[i]
    <3>1. 1 + k + i \in 1..(1 + k + l)
      BY <1>1
    <3> QED BY <1>3, <1>4, <3>1
  <2> HIDE DEF d
  <2> QED BY <2>1, <2>2, <2>3
<1> HIDE DEF d
<1>7. SubSeq(d, 1 + k + 1, 1 + k + l) = v
  <2>1. 1 + k \in Nat /\ 1 + k + l \in Nat /\ 1 + k + l = (1 + k) + Len(v) /\ 1 + k + l <= Len(d)
    BY <1>1, <1>5 DEF l
  <2>2. \A i \in 1..Len(v) : d[(1 + k) + i] = v[i]
    BY <1>6 DEF l
  <2> QED BY <1>5, <2>1, <2>2, PartIs
<1>8. SubSeq(d, 3, 1 + k) = SubSeq(h, 2, k)
  <2> DEFINE q == SubSeq(h, 2, k)
  <2>1. q \in Seq(Byte) /\ Len(q) = k - 1 /\ \A i \in 1..(k - 1) : q[i] = h[1 + i]
    <3>1. 1 \in Nat /\ k - 1 \in Nat /\ 1 + (k - 1) <= Len(h) /\ k = 1 + (k - 1) /\ 1 + 1 = 2
      BY <1>1 DEF k
    <3> QED BY <1>1, <3>1, PartOf
  <2> HIDE DEF q
  <2>2. 2 \in Nat /\ 1 + k \in Nat /\ 1 + k = 2 + Len(q) /\ 1 + k <= Len(d) /\ 2 + 1 = 3
    BY <1>1, <1>5, <2>1
  <2>3. \A i \in 1..Len(q) : d[2 + i] = q[i]
    <3> SUFFICES ASSUME NEW i \in 1..Len(q) PROVE d[2 + i] = q[i]
      OBVIOUS
    <3>1. 1 + i \in 1..k /\ i \in 1..(k - 1) /\ 1 + (1 + i) = 2 + i
      BY <1>1, <2>1
    <3>2. d[1 + (1 + i)] = h[1 + i]
      BY <1>6, <3>1, Zenon
    <3> QED BY <2>1, <3>1, <3>2, Zenon
  <2>4. SubSeq(d, 2 + 1, 1 + k) = q
    BY <1>5, <2>1, <2>2, <2>3, PartIs
  <2> QED BY <2>2, <2>4 DEF q
<1>9. d[2] = h[1]
  <2>1. 1 \in 1..k /\ 1 + 1 = 2
    BY <1>1
  <2> QED BY <1>6, <2>1
<1> DEFINE c == k - 1
<1>10. /\ c \in 0..4 /\ l \in Nat /\ Len(d) \in Nat /\ Len(d) >= 2 + c + l /\ 2 + c = 1 + k
       /\ d[2] \in Nat
       /\ c = 0 => d[2] < 128 /\ l = d[2]
       /\ c # 0 => d[2] = 128 + c
  BY <1>1, <1>5, <1>9, SMTT(30)
<1>11. c # 0 => l = Number(256, SubSeq(d, 3, 2 + c))
  <2>1. c # 0 => l = Number(256, SubSeq(h, 2, k))
    <3>1. c # 0 => k # 1
      BY <1>1
    <3> QED BY <1>1, <3>1, Zenon
  <2> QED BY <1>8, <1>10, <2>1, Zenon
<1> HIDE DEF c
<1>12. ParseTlv(d) = {[tag |-> d[1], value |-> SubSeq(d, 2 + c + 1, 2 + c + l), size |-> 2 + c + l]}
  BY <1>10, <1>11, TlvIs, ZenonT(40)
<1>13. ParseTlv(d) = {[tag |-> tag, value |-> v, size |-> 1 + k + l]}
  BY <1>6, <1>7, <1>10, <1>12, Zenon
<1>14. ParseTlv(d) = {[tag |-> tag, value |-> v, size |-> Len(t)]}
  BY <1>3, <1>13, Zenon
<1> QED BY <1>3, <1>14 DEF d, t, g, k, l

\* What stands where in a join, by the name of what it is.
LEMMA JoinAt ==
  ASSUME NEW S, NEW s \in Seq(S), NEW t \in Seq(S), NEW u, u = s \o t
  PROVE  /\ u \in Seq(S) /\ Len(u) = Len(s) + Len(t)
         /\ (\A i \in 1..Len(s) : u[i] = s[i]) /\ \A i \in 1..Len(t) : u[Len(s) + i] = t[i]
  BY ConcatAt


\* The end of a sequence, and ...
LEMMA EndOf ==
  ASSUME NEW S, NEW x \in Seq(S), NEW k \in Nat, k # 0, k <= Len(x), NEW s, s = SubSeq(x, k, Len(x))
  PROVE  /\ s \in Seq(S) /\ Len(s) = Len(x) + 1 - k
         /\ \A i \in 1..(Len(x) + 1 - k) : s[i] = x[k + i - 1]
  OBVIOUS

\* The bytes of an i64.
Eight(x) == x \in Seq(Byte) /\ Len(x) = 8

\* ... the end of eight bytes.
LEMMA EndOfEight ==
  ASSUME NEW x, Eight(x), NEW k \in 1..8
  PROVE  /\ SubSeq(x, k, 8) \in Seq(Byte) /\ Len(SubSeq(x, k, 8)) = 9 - k
         /\ \A i \in 1..(9 - k) : SubSeq(x, k, 8)[i] = x[k + i - 1]
<1> DEFINE n == Len(x)
           s == SubSeq(x, k, n)
<1>1. n = 8 /\ x \in Seq(Byte) /\ n \in Nat
  BY DEF Eight
<1>2. x \in Seq(Byte) /\ k \in Nat /\ k # 0
  BY DEF Eight
<1> HIDE DEF n
<1>3. k <= n /\ n + 1 - k = 9 - k
  BY <1>1
<1> HIDE DEF s
<1>4. s \in Seq(Byte) /\ Len(s) = n + 1 - k /\ \A i \in 1..(n + 1 - k) : s[i] = x[k + i - 1]
  BY <1>2, <1>3, EndOf DEF n, s
<1>5. s \in Seq(Byte) /\ Len(s) = 9 - k /\ \A i \in 1..(9 - k) : s[i] = x[k + i - 1]
  BY <1>3, <1>4, Zenon
<1>6. s = SubSeq(x, k, 8)
  BY <1>1, Zenon DEF s
<1> QED BY <1>5, <1>6, Zenon

-----------------------------------------------------------------------------
(* Integers                                                                *)

\* The first place of eight that is not to be left out, the last one at most.
LEMMA FirstKept ==
  ASSUME NEW Drop, Drop \subseteq 1..7
  PROVE  \E k \in 1..8 : (\A j \in 1..k - 1 : j \in Drop) /\ (k = 8 \/ k \notin Drop)
<1> DEFINE T == {k \in 1..8 : k = 8 \/ k \notin Drop}
<1>1. T \subseteq Nat /\ 8 \in T
  OBVIOUS
<1>2. PICK k \in T : \A y \in T : k <= y
  BY <1>1, LeastNat
<1>3. \A j \in 1..k - 1 : j \in Drop
  <2> SUFFICES ASSUME NEW j \in 1..k - 1 PROVE j \in Drop
    OBVIOUS
  <2>1. j \in 1..8 /\ ~(k <= j) /\ j # 8
    BY <1>2
  <2> QED BY <1>2, <2>1
<1> QED BY <1>2, <1>3

\* The eight bytes of a number that was read.
LEMMA LowIs ==
  ASSUME NEW b, NEW fill, NEW x \in Seq(Byte), Len(x) = 8,
         \A i \in 1..8 : x[i] = IF i + Len(b) > 8 THEN b[i + Len(b) - 8] ELSE fill
  PROVE  Low(8, b, fill) = x
<1>1. x = [i \in 1..8 |-> x[i]]
  OBVIOUS
<1>2. Low(8, b, fill) = [i \in 1..8 |-> x[i]]
  BY Zenon DEF Low
<1> QED BY <1>1, <1>2, Zenon

\* The fewest bytes of a signed number, whose first nine bits are not all alike.
LEMMA SignedBack ==
  ASSUME NEW x, Eight(x)
  PROVE  /\ ShortestInt(x) \in Seq(Byte) /\ Len(ShortestInt(x)) \in 1..8
         /\ Len(ShortestInt(x)) > 1 => ~Redundant(ShortestInt(x)[1], ShortestInt(x)[2])
         /\ ParseInt(ShortestInt(x)) = x
<1> DEFINE Drop == {j \in 1..7 : Redundant(x[j], x[j + 1])}
           P(k) == (\A j \in 1..k - 1 : Redundant(x[j], x[j + 1])) /\ (k = 8 \/ ~Redundant(x[k], x[k + 1]))
           k == CHOOSE k \in 1..8 : P(k)
           s == SubSeq(x, k, 8)
<1>1. \E c \in 1..8 : P(c)
  <2>1. Drop \subseteq 1..7
    OBVIOUS
  <2>2. PICK c \in 1..8 : (\A j \in 1..c - 1 : j \in Drop) /\ (c = 8 \/ c \notin Drop)
    <3> HIDE DEF Drop
    <3> QED BY <2>1, FirstKept, Zenon
  <2>3. c = 8 \/ c \in 1..7
    OBVIOUS
  <2> QED BY <2>2, <2>3
<1>2. k \in 1..8 /\ P(k)
  <2> HIDE DEF P
  <2> QED BY <1>1, Zenon
<1>3. ShortestInt(x) = s
  BY Zenon DEF ShortestInt
<1> HIDE DEF k, Drop
<1>4. s \in Seq(Byte) /\ Len(s) = 9 - k /\ \A i \in 1..(9 - k) : s[i] = x[k + i - 1]
  BY <1>2, EndOfEight, Zenon
<1> HIDE DEF s
<1>5. Len(s) \in 1..8 /\ s[1] = x[k]
  <2>1. 1 \in 1..(9 - k) /\ k + 1 - 1 = k
    BY <1>2
  <2> QED BY <1>2, <1>4, <2>1
<1>6. Len(s) > 1 => ~Redundant(s[1], s[2])
  <2> SUFFICES ASSUME Len(s) > 1 PROVE ~Redundant(s[1], s[2])
    OBVIOUS
  <2>1. k # 8 /\ 2 \in 1..(9 - k) /\ k + 2 - 1 = k + 1
    BY <1>2, <1>4
  <2>2. s[2] = x[k + 1]
    BY <1>4, <2>1, Zenon
  <2> QED BY <1>2, <1>5, <2>1, <2>2, Zenon
<1> DEFINE F == IF x[k] >= 128 THEN 255 ELSE 0
           S(j) == (j = 0 \/ x[k - j] = F) /\ (x[k - j] >= 128 <=> F = 255)
           T == {j \in 0..(k - 1) : S(j)}
<1>7. \A j \in 0..(k - 1) : j \in T
  <2>1. 0 \in T
    <3>1. k - 0 = k /\ 0 \in 0..(k - 1)
      BY <1>2
    <3>2. x[k] >= 128 <=> F = 255
      OBVIOUS
    <3> QED BY <3>1, <3>2
  <2>2. ASSUME NEW j \in 1..(k - 1), j - 1 \in T PROVE j \in T
    <3> DEFINE i == k - j
               a == x[i]
               c == x[i + 1]
    <3>1. i \in 1..(k - 1) /\ k - (j - 1) = i + 1 /\ j \in 0..(k - 1)
      BY <1>2
    <3>2. c >= 128 <=> F = 255
      BY <2>2, <3>1
    <3>3. Redundant(a, c)
      BY <1>2, <3>1
    <3>4. F = 255 \/ F = 0
      OBVIOUS
    <3>5. c \in Byte
      <4>1. x \in Seq(Byte) /\ i + 1 \in 1..Len(x)
        BY <1>2, <3>1 DEF Eight
      <4> QED BY <4>1, ElementOf, Zenon
    <3> HIDE DEF F, a, c, i
    <3>6. a = F /\ (a >= 128 <=> F = 255)
      BY <3>2, <3>3, <3>4, <3>5 DEF Redundant, Byte
    <3> QED BY <3>1, <3>6 DEF a, i
  <2>3. k - 1 \in Nat
    BY <1>2
  <2> HIDE DEF T
  <2> QED BY <2>1, <2>2, <2>3, UpTo
<1>8. \A i \in 1..8 : x[i] = IF i + Len(s) > 8 THEN s[i + Len(s) - 8] ELSE F
  <2> SUFFICES ASSUME NEW i \in 1..8
               PROVE  x[i] = IF i + Len(s) > 8 THEN s[i + Len(s) - 8] ELSE F
    OBVIOUS
  <2> HIDE DEF F
  <2>1. CASE i >= k
    <3>1. i + Len(s) > 8 /\ i + Len(s) - 8 = i - k + 1
      BY <1>2, <1>4, <2>1
    <3>2. i - k + 1 \in 1..(9 - k) /\ k + (i - k + 1) - 1 = i
      BY <1>2, <2>1
    <3>3. s[i - k + 1] = x[i]
      BY <1>4, <3>2
    <3> QED BY <3>1, <3>3
  <2>2. CASE i < k
    <3>1. ~(i + Len(s) > 8) /\ k - i \in 0..(k - 1) /\ k - i # 0 /\ k - (k - i) = i
      BY <1>2, <1>4, <2>2
    <3>2. k - i \in T
      BY <1>7, <3>1
    <3>3. x[i] = F
      BY <3>1, <3>2
    <3> QED BY <3>1, <3>3
  <2>3. i >= k \/ i < k
    BY <1>2
  <2> QED BY <2>1, <2>2, <2>3
<1>9. ParseInt(s) = Low(8, s, F)
  <2>1. s # <<>>
    BY <1>5
  <2>2. (IF s # <<>> /\ s[1] >= 128 THEN 255 ELSE 0) = F
    BY <1>5, <2>1
  <2> HIDE DEF F
  <2> QED BY <2>2, Zenon DEF ParseInt
<1>10. ParseInt(s) = x
  <2> HIDE DEF F
  <2> QED BY <1>8, <1>9, LowIs, Zenon DEF Eight
<1> QED BY <1>3, <1>4, <1>5, <1>6, <1>10, Zenon

\* The fewest bytes of an unsigned number, with a zero in front of a high bit.
LEMMA UnsignedBack ==
  ASSUME NEW x, Eight(x)
  PROVE  /\ ShortestUnsigned(x) \in Seq(Byte) /\ Len(ShortestUnsigned(x)) \in 1..9
         /\ ParseUnsigned(ShortestUnsigned(x)) = x
<1> DEFINE Drop == {j \in 1..7 : x[j] = 0}
           P(k) == (\A j \in 1..k - 1 : x[j] = 0) /\ (k = 8 \/ x[k] # 0)
           k == CHOOSE k \in 1..8 : P(k)
           s == SubSeq(x, k, 8)
           z == IF x[k] >= 128 THEN <<0>> ELSE <<>>
           r == z \o s
<1>1. \E c \in 1..8 : P(c)
  <2>1. Drop \subseteq 1..7
    OBVIOUS
  <2>2. PICK c \in 1..8 : (\A j \in 1..c - 1 : j \in Drop) /\ (c = 8 \/ c \notin Drop)
    <3> HIDE DEF Drop
    <3> QED BY <2>1, FirstKept, Zenon
  <2>3. c = 8 \/ c \in 1..7
    OBVIOUS
  <2> QED BY <2>2, <2>3
<1>2. k \in 1..8 /\ P(k)
  <2> HIDE DEF P
  <2> QED BY <1>1, Zenon
<1>3. ShortestUnsigned(x) = r
  BY Zenon DEF ShortestUnsigned
<1> HIDE DEF k, Drop
<1>4. s \in Seq(Byte) /\ Len(s) = 9 - k /\ \A i \in 1..(9 - k) : s[i] = x[k + i - 1]
  BY <1>2, EndOfEight, Zenon
<1> HIDE DEF s
<1>5. z \in Seq(Byte) /\ Len(z) \in 0..1 /\ (Len(z) = 1 => z[1] = 0)
  <2>1. 0 \in Byte
    BY DEF Byte
  <2>2. CASE x[k] >= 128
    <3>1. z = <<0>>
      BY <2>2
    <3> QED BY <2>1, <3>1, OneOf
  <2>3. CASE ~(x[k] >= 128)
    <3>1. z = <<>>
      BY <2>3
    <3>2. <<>> \in Seq(Byte) /\ Len(<<>>) = 0
      OBVIOUS
    <3> HIDE DEF z
    <3> QED BY <3>1, <3>2
  <2> QED BY <2>2, <2>3
<1> DEFINE n == Len(z)
<1> HIDE DEF z
<1>6. /\ r \in Seq(Byte) /\ Len(r) = n + (9 - k) /\ (n = 1 => r[1] = 0)
      /\ \A i \in 1..(9 - k) : r[n + i] = s[i]
  <2>1. /\ r \in Seq(Byte) /\ Len(r) = n + Len(s) /\ (\A i \in 1..n : r[i] = z[i])
        /\ \A i \in 1..Len(s) : r[n + i] = s[i]
    BY <1>4, <1>5, ConcatAt
  <2>2. n = 1 => r[1] = z[1]
    <3>1. 1 \in 1..1
      OBVIOUS
    <3> HIDE DEF r
    <3> QED BY <2>1, <3>1
  <2> HIDE DEF r
  <2> QED BY <1>4, <1>5, <2>1, <2>2
<1>7. n \in 0..1
  BY <1>5
<1> HIDE DEF r, n
<1>8. \A i \in 1..8 : x[i] = IF i + Len(r) > 8 THEN r[i + Len(r) - 8] ELSE 0
  <2> SUFFICES ASSUME NEW i \in 1..8
               PROVE  x[i] = IF i + Len(r) > 8 THEN r[i + Len(r) - 8] ELSE 0
    OBVIOUS
  <2>1. CASE i >= k
    <3>1. i + Len(r) > 8 /\ i + Len(r) - 8 = n + (i - k + 1)
      BY <1>2, <1>6, <1>7, <2>1
    <3>2. i - k + 1 \in 1..(9 - k) /\ k + (i - k + 1) - 1 = i
      BY <1>2, <2>1
    <3>3. r[n + (i - k + 1)] = x[i]
      <4>1. r[n + (i - k + 1)] = s[i - k + 1]
        BY <1>6, <3>2, Zenon
      <4>2. s[i - k + 1] = x[k + (i - k + 1) - 1]
        BY <1>4, <3>2, Zenon
      <4> QED BY <3>2, <4>1, <4>2, Zenon
    <3> QED BY <3>1, <3>3
  <2>2. CASE i < k
    <3>1. x[i] = 0
      <4>1. i \in 1..k - 1
        BY <1>2, <2>2
      <4> QED BY <1>2, <4>1
    <3>2. i + Len(r) > 8 => n = 1 /\ i + Len(r) - 8 = 1
      BY <1>2, <1>6, <1>7, <2>2
    <3>3. i + Len(r) > 8 => r[i + Len(r) - 8] = 0
      BY <1>6, <3>2
    <3> QED BY <3>1, <3>3
  <2>3. i >= k \/ i < k
    BY <1>2
  <2> QED BY <2>1, <2>2, <2>3
<1>9. ParseUnsigned(r) = x
  <2>1. ParseUnsigned(r) = Low(8, r, 0)
    BY Zenon DEF ParseUnsigned
  <2> QED BY <1>8, <2>1, LowIs, Zenon DEF Eight
<1>10. Len(r) \in 1..9
  BY <1>2, <1>6, <1>7
<1> QED BY <1>3, <1>6, <1>9, <1>10, Zenon

\* What was joined behind is the end.
LEMMA JoinEnd ==
  ASSUME NEW S, NEW f \in Seq(S), NEW w \in Seq(S), NEW x, x = f \o w
  PROVE  /\ x \in Seq(S) /\ Len(x) = Len(f) + Len(w)
         /\ SubSeq(x, Len(f) + 1, Len(f) + Len(w)) = w
<1> DEFINE m == Len(f)
           n == Len(f) + Len(w)
<1>1. x \in Seq(S) /\ Len(x) = n /\ m \in Nat /\ n \in Nat /\ n = m + Len(w) /\ n <= Len(x)
  OBVIOUS
<1>2. \A i \in 1..Len(w) : x[m + i] = w[i]
  OBVIOUS
<1> HIDE DEF m, n
<1>3. SubSeq(x, m + 1, n) = w
  BY <1>1, <1>2, PartIs
<1> QED BY <1>1, <1>3 DEF m, n

\* Four bytes as a signed number of eight, and the four of those that are kept.
LEMMA ExtendBack ==
  ASSUME NEW w \in [1..4 -> Byte]
  PROVE  Eight(SignExtend(w)) /\ Word(SignExtend(w)) = w
<1> DEFINE f == [i \in 1..4 |-> IF w[1] >= 128 THEN 255 ELSE 0]
<1>1. f \in [1..4 -> Byte]
  <2>1. 255 \in Byte /\ 0 \in Byte
    BY DEF Byte
  <2> QED BY <2>1, Zenon
<1>2. SignExtend(w) = f \o w
  BY Zenon DEF SignExtend
<1> HIDE DEF f
<1>3. f \in Seq(Byte) /\ Len(f) = 4 /\ w \in Seq(Byte) /\ Len(w) = 4
  BY <1>1, FixedSeq
<1>4. 4 + 4 = 8 /\ 4 + 1 = 5
  OBVIOUS
<1> DEFINE x == f \o w
<1>5. /\ x \in Seq(Byte) /\ Len(x) = Len(f) + Len(w)
      /\ SubSeq(x, Len(f) + 1, Len(f) + Len(w)) = w
  <2>1. f \in Seq(Byte) /\ w \in Seq(Byte)
    BY <1>3
  <2>2. \A s \in Seq(Byte), t \in Seq(Byte) :
          /\ s \o t \in Seq(Byte) /\ Len(s \o t) = Len(s) + Len(t)
          /\ SubSeq(s \o t, Len(s) + 1, Len(s) + Len(t)) = t
    BY JoinEnd
  <2> QED BY <2>1, <2>2, Zenon
<1> HIDE DEF x
<1>6. x \in Seq(Byte) /\ Len(x) = 8 /\ SubSeq(x, 5, 8) = w
  BY <1>3, <1>4, <1>5, Zenon
<1> QED BY <1>2, <1>6, Zenon DEF Eight, Word, x

-----------------------------------------------------------------------------
(* Values                                                                  *)

\* A tag, the length and the bytes themselves.
LEMMA TlvTyped ==
  ASSUME NEW tag \in Byte, NEW v \in Seq(Byte)
  PROVE  BuildTlv(tag, v) \in Seq(Byte) /\ BuildLength(Len(v)) \in Seq(Byte)
<1> DEFINE n == Len(v)
           h == BuildLength(n)
           g == <<tag>> \o h
<1>1. n \in Nat
  OBVIOUS
<1> HIDE DEF n
<1>2. h \in Seq(Byte)
  <2>1. CASE n < 128
    <3>1. h = <<n>> /\ n \in Byte
      BY <1>1, <2>1 DEF BuildLength, Byte
    <3> QED BY <3>1, OneOf
  <2>2. CASE ~(n < 128) /\ n <= 255
    <3>1. h = <<129, n>> /\ n \in Byte /\ 129 \in Byte
      BY <1>1, <2>2 DEF BuildLength, Byte
    <3> QED BY <3>1, PairOf
  <2>3. CASE ~(n < 128) /\ ~(n <= 255)
    <3> DEFINE a == (n \div 256) % 256
               b == n % 256
    <3>1. a \in Byte /\ b \in Byte /\ 130 \in Byte
      BY <1>1, SMT DEF Byte
    <3>2. h = <<130, a, b>>
      BY <2>3 DEF BuildLength
    <3> HIDE DEF a, b
    <3>3. <<130, a, b>> \in Seq(Byte)
      BY <3>1
    <3> QED BY <3>2, <3>3
  <2> QED BY <2>1, <2>2, <2>3
<1> HIDE DEF h
<1>3. g \in Seq(Byte)
  <2>1. <<tag>> \in Seq(Byte)
    BY OneOf
  <2> QED BY <1>2, <2>1, ConcatAt
<1>4. BuildTlv(tag, v) = g \o v
  BY Zenon DEF BuildTlv, h, n
<1> HIDE DEF g
<1>5. g \o v \in Seq(Byte)
  BY <1>3, ConcatAt
<1> QED BY <1>2, <1>4, <1>5 DEF h, n

\* As many bytes as two length bytes can say.
Small(v) == Len(v) < 65536

\* What was built is read back and its size is known.
LEMMA BuiltBack ==
  ASSUME NEW tag \in Byte, NEW v \in Seq(Byte), Small(v), NEW rest \in Seq(Byte)
  PROVE  /\ Len(BuildTlv(tag, v)) = 1 + Len(BuildLength(Len(v))) + Len(v)
         /\ Len(BuildLength(Len(v))) \in 1..3
         /\ Len(v) < 128 => Len(BuildLength(Len(v))) = 1
         /\ ParseTlv(BuildTlv(tag, v) \o rest) = {[tag |-> tag, value |-> v, size |-> Len(BuildTlv(tag, v))]}
<1> DEFINE n == Len(v)
           h == BuildLength(n)
<1>1. n \in Nat /\ n < 65536
  BY SMT DEF Small
<1> HIDE DEF n
<1>2. Header(h, n)
  BY <1>1, SMT DEF BuildLength, Header
<1>3. Len(h) \in 1..3
  <2>1. n \in Nat
    BY <1>1, SMT
  <2> HIDE DEF h
  <2> QED BY <1>2, <2>1, HeaderIs, Zenon
<1>4. n < 128 => Len(h) = 1
  <2>1. n < 128 => h = <<n>>
    BY DEF BuildLength
  <2> HIDE DEF h
  <2> QED BY <2>1
<1>5. BuildTlv(tag, v) = <<tag>> \o h \o v
  BY Zenon DEF BuildTlv, n
<1> HIDE DEF h
<1>6. /\ Len(<<tag>> \o h \o v) = 1 + Len(h) + Len(v)
      /\ ParseTlv((<<tag>> \o h \o v) \o rest) = {[tag |-> tag, value |-> v, size |-> Len(<<tag>> \o h \o v)]}
  <2>1. Header(h, Len(v))
    BY <1>2 DEF n
  <2> QED BY <2>1, TlvBack
<1> QED BY <1>3, <1>4, <1>5, <1>6, Zenon DEF h, n

\* A tag and bytes that say a value.
Reads(tag, b, v) ==
  \/ v.type = "Int" /\ tag = ASN_INTEGER /\ Word(ParseInt(b)) = v.data /\ (Len(b) > 1 => ~Redundant(b[1], b[2]))
  \/ v.type = "Gauge" /\ tag = ASN_GAUGE /\ Word(ParseUnsigned(b)) = v.data
  \/ v.type = "Counter" /\ tag = ASN_COUNTER /\ Word(ParseUnsigned(b)) = v.data
  \/ v.type = "TimeTicks" /\ tag = ASN_TIMETICKS /\ Word(ParseUnsigned(b)) = v.data
  \/ v.type = "Ip" /\ tag = ASN_IPADDRESS /\ b = v.data
  \/ v.type = "Str" /\ tag = ASN_OCTET_STR /\ b = v.data
  \/ v.type = "Oid" /\ tag = ASN_OBJECT_ID /\ b = ObjidBody(v.data)

\* The types that make up a binding with their identifier.
BoundTypes == Types \ {"Control", "Bare"}

\* A value is built as a tag and bytes that say it.
LEMMA ValueIs ==
  ASSUME NEW v, v.type \in BoundTypes, v.data \in Data(v.type), v.type = "Oid" => Buildable(v.data)
  PROVE  \E tag \in Byte, b \in Seq(Byte) : ValueTlv(v) = BuildTlv(tag, b) /\ Reads(tag, b, v)
<1> DEFINE x == SignExtend(v.data)
           s == ShortestInt(x)
           u == ShortestUnsigned(x)
<1>1. {2, 4, 6, 64, 65, 66, 67} \subseteq Byte
  BY DEF Byte
<1>2. v.type \in {"Int", "Gauge", "Counter", "TimeTicks"} =>
        /\ s \in Seq(Byte) /\ Word(ParseInt(s)) = v.data /\ (Len(s) > 1 => ~Redundant(s[1], s[2]))
        /\ u \in Seq(Byte) /\ Word(ParseUnsigned(u)) = v.data
  <2> SUFFICES ASSUME v.type \in {"Int", "Gauge", "Counter", "TimeTicks"}
               PROVE  /\ s \in Seq(Byte) /\ Word(ParseInt(s)) = v.data /\ (Len(s) > 1 => ~Redundant(s[1], s[2]))
                      /\ u \in Seq(Byte) /\ Word(ParseUnsigned(u)) = v.data
    OBVIOUS
  <2>1. v.data \in [1..4 -> Byte]
    BY DEF Data
  <2>2. Eight(x) /\ Word(x) = v.data
    BY <2>1, ExtendBack, Zenon
  <2> HIDE DEF x
  <2>3. s \in Seq(Byte) /\ ParseInt(s) = x /\ (Len(s) > 1 => ~Redundant(s[1], s[2]))
    BY <2>2, SignedBack, Zenon
  <2>4. u \in Seq(Byte) /\ ParseUnsigned(u) = x
    BY <2>2, UnsignedBack, Zenon
  <2> QED BY <2>2, <2>3, <2>4, Zenon
<1> HIDE DEF s, u
<1>3. CASE v.type = "Int"
  <2>1. ValueTlv(v) = BuildTlv(ASN_INTEGER, s)
    BY <1>3 DEF ValueTlv, s
  <2>2. s \in Seq(Byte) /\ Reads(ASN_INTEGER, s, v)
    BY <1>2, <1>3 DEF Reads
  <2>3. ASN_INTEGER \in Byte
    BY <1>1 DEF ASN_INTEGER
  <2> QED BY <2>1, <2>2, <2>3, Zenon
<1>4. CASE v.type = "Gauge"
  <2>1. ValueTlv(v) = BuildTlv(ASN_GAUGE, u)
    BY <1>4 DEF ValueTlv, u
  <2>2. u \in Seq(Byte) /\ Reads(ASN_GAUGE, u, v)
    BY <1>2, <1>4 DEF Reads
  <2>3. ASN_GAUGE \in Byte
    BY <1>1 DEF ASN_GAUGE
  <2> QED BY <2>1, <2>2, <2>3, Zenon
<1>5. CASE v.type = "Counter"
  <2>1. ValueTlv(v) = BuildTlv(ASN_COUNTER, u)
    BY <1>5 DEF ValueTlv, u
  <2>2. u \in Seq(Byte) /\ Reads(ASN_COUNTER, u, v)
    BY <1>2, <1>5 DEF Reads
  <2>3. ASN_COUNTER \in Byte
    BY <1>1 DEF ASN_COUNTER
  <2> QED BY <2>1, <2>2, <2>3, Zenon
<1>6. CASE v.type = "TimeTicks"
  <2>1. ValueTlv(v) = BuildTlv(ASN_TIMETICKS, u)
    BY <1>6 DEF ValueTlv, u
  <2>2. u \in Seq(Byte) /\ Reads(ASN_TIMETICKS, u, v)
    BY <1>2, <1>6 DEF Reads
  <2>3. ASN_TIMETICKS \in Byte
    BY <1>1 DEF ASN_TIMETICKS
  <2> QED BY <2>1, <2>2, <2>3, Zenon
<1>7. CASE v.type = "Ip"
  <2>1. ValueTlv(v) = BuildTlv(ASN_IPADDRESS, v.data)
    BY <1>7 DEF ValueTlv
  <2>2. v.data \in Seq(Byte) /\ Reads(ASN_IPADDRESS, v.data, v)
    <3>1. v.data \in [1..4 -> Byte]
      BY <1>7 DEF Data
    <3>2. v.data \in Seq(Byte)
      BY <3>1, FixedSeq
    <3> QED BY <1>7, <3>2 DEF Reads
  <2>3. ASN_IPADDRESS \in Byte
    BY <1>1 DEF ASN_IPADDRESS
  <2> QED BY <2>1, <2>2, <2>3, Zenon
<1>8. CASE v.type = "Str"
  <2>1. ValueTlv(v) = BuildTlv(ASN_OCTET_STR, v.data)
    BY <1>8 DEF ValueTlv
  <2>2. v.data \in Seq(Byte) /\ Reads(ASN_OCTET_STR, v.data, v)
    <3>1. v.data \in Seq(Byte)
      BY <1>8 DEF Data
    <3> QED BY <1>8, <3>1 DEF Reads
  <2>3. ASN_OCTET_STR \in Byte
    BY <1>1 DEF ASN_OCTET_STR
  <2> QED BY <2>1, <2>2, <2>3, Zenon
<1>9. CASE v.type = "Oid"
  <2> DEFINE b == ObjidBody(v.data)
  <2>1. ValueTlv(v) = BuildTlv(ASN_OBJECT_ID, b)
    BY <1>9 DEF ValueTlv, BuildObjid
  <2>2. b \in Seq(Byte) /\ Reads(ASN_OBJECT_ID, b, v)
    <3>1. v.data \in Seq(0..MaxArc)
      BY <1>9 DEF Data
    <3>2. b \in Seq(Byte)
      BY <1>9, <3>1, BodyIs, Zenon
    <3> HIDE DEF b
    <3>3. b = ObjidBody(v.data)
      BY DEF b
    <3> QED BY <1>9, <3>2, <3>3 DEF Reads
  <2>3. ASN_OBJECT_ID \in Byte
    BY <1>1 DEF ASN_OBJECT_ID
  <2> QED BY <2>1, <2>2, <2>3, Zenon
<1>10. v.type \in {"Int", "Gauge", "Counter", "TimeTicks", "Str", "Ip", "Oid"}
  BY DEF BoundTypes, Types
<1> QED BY <1>3, <1>4, <1>5, <1>6, <1>7, <1>8, <1>9, <1>10

-----------------------------------------------------------------------------
(* Bindings                                                                *)

\* What is built is longer than what it is built from.
LEMMA TlvLonger ==
  ASSUME NEW tag \in Byte, NEW v \in Seq(Byte)
  PROVE  Len(BuildTlv(tag, v)) \in Nat /\ Len(v) \in Nat /\ Len(BuildTlv(tag, v)) > Len(v)
<1> DEFINE h == BuildLength(Len(v))
           g == <<tag>> \o h
           t == g \o v
<1>1. h \in Seq(Byte) /\ <<tag>> \in Seq(Byte) /\ Len(<<tag>>) = 1
  BY TlvTyped, OneOf
<1> HIDE DEF h
<1>2. g \in Seq(Byte) /\ Len(g) = 1 + Len(h) /\ Len(h) \in Nat
  BY <1>1, ConcatAt
<1> HIDE DEF g
<1>3. Len(t) = Len(g) + Len(v) /\ Len(v) \in Nat
  <2>1. t = g \o v
    OBVIOUS
  <2> HIDE DEF t
  <2>2. g \in Seq(Byte)
    BY <1>2
  <2>3. Len(t) = Len(g) + Len(v)
    BY <2>1, <2>2, JoinAt
  <2> QED BY <2>3
<1>4. BuildTlv(tag, v) = t
  BY Zenon DEF BuildTlv, g, h
<1> HIDE DEF t
<1> QED BY <1>2, <1>3, <1>4

\* The test for the short header leaves room for what is behind it, and no
\* binding needs more than two length bytes.
CompactOf(nm, v) ==
  IF v.type = "Str" THEN Len(ObjidBody(nm)) - Len(nm) < 6 /\ Len(BuildObjid(nm) \o ValueTlv(v)) < 65536
  ELSE Len(BuildObjid(nm) \o ValueTlv(v)) < 128

\* A binding d: an identifier and a value behind one header.
Framed(d, nm, tag, b) ==
  \E inner \in Seq(Byte), behind \in Seq(Byte) :
    /\ ParseTlv(d) = {[tag |-> ASN_SEQUENCE, value |-> inner, size |-> Len(d)]}
    /\ ParseTlv(inner) = {[tag |-> ASN_OBJECT_ID, value |-> ObjidBody(nm), size |-> Len(BuildObjid(nm))]}
    /\ SubSeq(inner, Len(BuildObjid(nm)) + 1, Len(inner)) = behind
    /\ ParseTlv(behind) = {[tag |-> tag, value |-> b, size |-> Len(behind)]}

\* The header that is chosen says how much is behind it.
LEMMA HeaderFits ==
  ASSUME NEW nm \in Seq(0..MaxArc), NEW v, v.type = "Str" => v.data \in Seq(Byte),
         CompactOf(nm, v), NEW size \in Nat, size = Len(BuildObjid(nm) \o ValueTlv(v)),
         NEW lb \in Nat, lb = Len(ObjidBody(nm)), NEW lo \in Nat, lo = Len(BuildObjid(nm)),
         NEW lt \in Nat, lt = Len(ValueTlv(v)), size = lo + lt,
         lb < 128 => lo = lb + 2,
         v.type = "Str" => (Len(v.data) < 128 => lt = Len(v.data) + 2),
         NEW h, h = IF ShortHeader(nm, v) THEN <<size % 256>> ELSE <<130, (size \div 256) % 256, size % 256>>
  PROVE  Header(h, size)
<1>1. CASE v.type # "Str"
  <2>1. size < 128
    BY <1>1, SMT DEF CompactOf
  <2>2. ShortHeader(nm, v)
    BY <1>1, SMT DEF ShortHeader
  <2>3. size % 256 = size /\ size < 65536
    BY <2>1, SMT
  <2> QED BY <2>1, <2>2, <2>3, SMT DEF Header
<1>2. CASE v.type = "Str"
  <2> DEFINE ln == Len(nm)
             ld == Len(v.data)
  <2>1. ln \in Nat /\ ld \in Nat
    BY <1>2, SMT
  <2>2. lb - ln < 6 /\ size < 65536 /\ (ld < 128 => lt = ld + 2)
    BY <1>2, SMT DEF CompactOf
  <2>3. ShortHeader(nm, v) <=> ld + ln + 8 < 127
    BY <1>2, SMT DEF ShortHeader
  <2> HIDE DEF ln, ld
  <2>4. CASE ld + ln + 8 < 127
    <3>1. lb < 128 /\ ld < 128
      BY <2>1, <2>2, <2>4, SMT
    <3>2. size < 128
      BY <2>1, <2>2, <2>4, <3>1, SMT
    <3>3. size % 256 = size /\ size < 65536
      BY <3>2, SMT
    <3> QED BY <2>3, <2>4, <3>2, <3>3, SMT DEF Header
  <2>5. CASE ~(ld + ln + 8 < 127)
    BY <2>2, <2>3, <2>5, SMT DEF Header
  <2> QED BY <2>4, <2>5, SMT
<1> QED BY <1>1, <1>2, SMT

\* A binding is read as the identifier and the value that it was built from.
LEMMA BindingBack ==
  ASSUME NEW nm \in Seq(0..MaxArc), Proper(nm), NEW v, v.type \in BoundTypes, v.data \in Data(v.type),
         v.type = "Oid" => Buildable(v.data), CompactOf(nm, v)
  PROVE  \E tag \in Byte, b \in Seq(Byte) :
           /\ Reads(tag, b, v)
           /\ Framed(BuildVarOp(nm, ValueTlv(v), ShortHeader(nm, v)), nm, tag, b)
<1> DEFINE body == ObjidBody(nm)
           o == BuildObjid(nm)
           t == ValueTlv(v)
           inner == o \o t
           size == Len(inner)
           h == IF ShortHeader(nm, v) THEN <<size % 256>> ELSE <<130, (size \div 256) % 256, size % 256>>
           d == BuildVarOp(nm, t, ShortHeader(nm, v))
<1>1. PICK tag \in Byte, b \in Seq(Byte) : t = BuildTlv(tag, b) /\ Reads(tag, b, v)
  BY ValueIs
<1>2. Buildable(nm) /\ body \in Seq(Byte)
  BY ArcsBack, BodyIs
<1>3. o = BuildTlv(ASN_OBJECT_ID, body)
  BY Zenon DEF BuildObjid
<1>4. ASN_OBJECT_ID \in Byte /\ ASN_SEQUENCE \in Byte
  BY DEF ASN_OBJECT_ID, ASN_SEQUENCE, Byte
<1>5. d = <<ASN_SEQUENCE>> \o h \o inner
  BY <1>2, Zenon DEF BuildVarOp
<1> HIDE DEF h, d, body, o, t
<1>6. o \in Seq(Byte) /\ t \in Seq(Byte)
  BY <1>1, <1>2, <1>3, <1>4, TlvTyped, Zenon
<1>7. /\ inner \in Seq(Byte) /\ Len(inner) = Len(o) + Len(t)
      /\ SubSeq(inner, Len(o) + 1, Len(o) + Len(t)) = t
  BY <1>6, JoinEnd
<1> DEFINE lo == Len(o)
           lt == Len(t)
           lb == Len(body)
           lv == Len(b)
<1>8. lo \in Nat /\ lt \in Nat /\ lb \in Nat /\ lv \in Nat /\ size \in Nat /\ size = lo + lt
  BY <1>1, <1>2, <1>6, <1>7
<1>9. lo > lb /\ lt > lv
  BY <1>1, <1>2, <1>3, <1>4, TlvLonger, Zenon
<1>10. size < 65536
  BY SMT DEF CompactOf, o, t
<1> HIDE DEF inner
<1>11. Small(body) /\ Small(b)
  BY <1>8, <1>9, <1>10, SMT DEF Small
<1>12. /\ lb < 128 => lo = lb + 2
       /\ ParseTlv(o \o t) = {[tag |-> ASN_OBJECT_ID, value |-> body, size |-> lo]}
  <2>1. /\ lo = 1 + Len(BuildLength(lb)) + lb
        /\ lb < 128 => Len(BuildLength(lb)) = 1
        /\ ParseTlv(o \o t) = {[tag |-> ASN_OBJECT_ID, value |-> body, size |-> lo]}
    BY <1>2, <1>3, <1>4, <1>6, <1>11, BuiltBack
  <2>2. lb < 128 => lo = lb + 2
    <3> DEFINE c == Len(BuildLength(lb))
    <3>1. lo = 1 + c + lb /\ (lb < 128 => c = 1) /\ lb \in Nat
      BY <1>8, <2>1
    <3> HIDE DEF c, lo, lb
    <3> QED BY <3>1
  <2> QED BY <2>1, <2>2
<1>13. /\ lv < 128 => lt = lv + 2
       /\ ParseTlv(t) = {[tag |-> tag, value |-> b, size |-> lt]}
  <2>1. <<>> \in Seq(Byte) /\ t \o <<>> = t
    BY <1>6
  <2>2. /\ lt = 1 + Len(BuildLength(lv)) + lv
        /\ lv < 128 => Len(BuildLength(lv)) = 1
        /\ ParseTlv(t \o <<>>) = {[tag |-> tag, value |-> b, size |-> lt]}
    BY <1>1, <1>11, <2>1, BuiltBack
  <2>3. lv < 128 => lt = lv + 2
    <3> DEFINE c == Len(BuildLength(lv))
    <3>1. lt = 1 + c + lv /\ (lv < 128 => c = 1) /\ lv \in Nat
      BY <1>8, <2>2
    <3> HIDE DEF c, lt, lv
    <3> QED BY <3>1
  <2> QED BY <2>1, <2>2, <2>3, Zenon
<1>14. Header(h, size)
  <2>1. v.type = "Str" => v.data \in Seq(Byte) /\ (Len(v.data) < 128 => lt = Len(v.data) + 2)
    <3> SUFFICES ASSUME v.type = "Str" PROVE v.data \in Seq(Byte) /\ (Len(v.data) < 128 => lt = Len(v.data) + 2)
      OBVIOUS
    <3>1. v.data = b
      BY <1>1 DEF Reads
    <3> QED BY <1>1, <1>13, <3>1, Zenon
  <2> HIDE DEF lo, lt, lb, size
  <2>2. /\ size = Len(BuildObjid(nm) \o ValueTlv(v)) /\ lb = Len(ObjidBody(nm)) /\ lo = Len(BuildObjid(nm))
        /\ lt = Len(ValueTlv(v))
    BY Zenon DEF size, lb, lo, lt, o, t, body, inner
  <2>3. h = IF ShortHeader(nm, v) THEN <<size % 256>> ELSE <<130, (size \div 256) % 256, size % 256>>
    BY Zenon DEF h
  <2>4. lb < 128 => lo = lb + 2
    BY <1>12, Zenon
  <2>5. size \in Nat /\ lb \in Nat /\ lo \in Nat /\ lt \in Nat /\ size = lo + lt
    BY <1>8, Zenon
  <2> QED BY <2>1, <2>2, <2>3, <2>4, <2>5, HeaderFits, SMTT(30)
<1>15. ParseTlv(d) = {[tag |-> ASN_SEQUENCE, value |-> inner, size |-> Len(d)]}
  <2>1. <<>> \in Seq(Byte)
    OBVIOUS
  <2>2. /\ <<ASN_SEQUENCE>> \o h \o inner \in Seq(Byte)
        /\ ParseTlv((<<ASN_SEQUENCE>> \o h \o inner) \o <<>>)
             = {[tag |-> ASN_SEQUENCE, value |-> inner, size |-> Len(<<ASN_SEQUENCE>> \o h \o inner)]}
    BY <1>4, <1>7, <1>14, <2>1, TlvBack
  <2>3. d \in Seq(Byte) /\ ParseTlv(d \o <<>>) = {[tag |-> ASN_SEQUENCE, value |-> inner, size |-> Len(d)]}
    BY <1>5, <2>2, Zenon
  <2>4. d \o <<>> = d
    BY <2>3
  <2> QED BY <2>3, <2>4, Zenon
<1>16. SubSeq(inner, lo + 1, Len(inner)) = t
  BY <1>7, Zenon
<1>17. ParseTlv(inner) = {[tag |-> ASN_OBJECT_ID, value |-> body, size |-> lo]}
  BY <1>12, Zenon DEF inner
<1>18. Framed(d, nm, tag, b)
  BY <1>6, <1>7, <1>13, <1>15, <1>16, <1>17, Zenon DEF Framed, body, o
<1> QED BY <1>1, <1>18, Zenon DEF d, t

\* A binding says its identifier, and a tag and bytes.
LEMMA VarOpBack ==
  ASSUME NEW nm \in Seq(0..MaxArc), Proper(nm), NEW d, NEW tag, NEW b, Framed(d, nm, tag, b)
  PROVE  ParseVarOp(d) = {[name |-> nm, tag |-> tag, value |-> b]}
<1>1. PICK inner \in Seq(Byte), behind \in Seq(Byte) :
        /\ ParseTlv(d) = {[tag |-> ASN_SEQUENCE, value |-> inner, size |-> Len(d)]}
        /\ ParseTlv(inner) = {[tag |-> ASN_OBJECT_ID, value |-> ObjidBody(nm), size |-> Len(BuildObjid(nm))]}
        /\ SubSeq(inner, Len(BuildObjid(nm)) + 1, Len(inner)) = behind
        /\ ParseTlv(behind) = {[tag |-> tag, value |-> b, size |-> Len(behind)]}
  BY Zenon DEF Framed
<1> DEFINE q == [tag |-> ASN_SEQUENCE, value |-> inner, size |-> Len(d)]
           t == [tag |-> ASN_OBJECT_ID, value |-> ObjidBody(nm), size |-> Len(BuildObjid(nm))]
           u == [tag |-> tag, value |-> b, size |-> Len(behind)]
           r == [name |-> nm, tag |-> tag, value |-> b]
           V(qq, tt) == {[name |-> nn, tag |-> val.tag, value |-> val.value]
                           : nn \in ParseObjidBody(tt.value),
                             val \in ParseTlv(SubSeq(qq.value, tt.size + 1, Len(qq.value)))}
           T(qq) == {tt \in ParseTlv(qq.value) : tt.tag = ASN_OBJECT_ID}
           Q == {qq \in ParseTlv(d) : qq.tag = ASN_SEQUENCE}
<1>2. q.tag = ASN_SEQUENCE /\ q.value = inner
  OBVIOUS
<1>3. t.tag = ASN_OBJECT_ID /\ t.value = ObjidBody(nm) /\ t.size = Len(BuildObjid(nm))
  OBVIOUS
<1>4. u.tag = tag /\ u.value = b
  OBVIOUS
<1>5. ParseVarOp(d) = UNION {UNION {V(qq, tt) : tt \in T(qq)} : qq \in Q}
  <2> HIDE DEF q, t, u, r
  <2> QED BY DEF ParseVarOp
<1>6. ParseTlv(d) = {q} /\ ParseTlv(inner) = {t} /\ ParseTlv(behind) = {u}
  BY <1>1, Zenon
<1>7. SubSeq(inner, t.size + 1, Len(inner)) = behind
  BY <1>1, <1>3, Zenon
<1>8. ParseObjidBody(t.value) = {nm}
  BY <1>3, ObjidBack, Zenon
<1> HIDE DEF q, t, u
<1>9. Q = {q}
  BY <1>2, <1>6, Zenon
<1>10. T(q) = {t}
  BY <1>2, <1>3, <1>6, Zenon
<1>11. V(q, t) = {r}
  <2>1. ParseTlv(SubSeq(q.value, t.size + 1, Len(q.value))) = {u}
    BY <1>2, <1>6, <1>7, Zenon
  <2>2. V(q, t) = {[name |-> nn, tag |-> val.tag, value |-> val.value] : nn \in {nm}, val \in {u}}
    BY <1>8, <2>1
  <2>3. [name |-> nm, tag |-> u.tag, value |-> u.value] = r
    BY <1>4, Zenon
  <2> HIDE DEF V, r
  <2>4. {[name |-> nn, tag |-> val.tag, value |-> val.value] : nn \in {nm}, val \in {u}} = {r}
    BY <2>3
  <2> QED BY <2>2, <2>4
<1> HIDE DEF V, T, Q, r
<1>12. UNION {UNION {V(qq, tt) : tt \in T(qq)} : qq \in Q} = {r}
  <2>1. UNION {V(q, tt) : tt \in T(q)} = {r}
    BY <1>10, <1>11
  <2> DEFINE W(qq) == UNION {V(qq, tt) : tt \in T(qq)}
  <2>2. W(q) = {r}
    BY <2>1
  <2> HIDE DEF W
  <2>3. UNION {W(qq) : qq \in Q} = {r}
    BY <1>9, <2>2
  <2> QED BY <2>3 DEF W
<1> QED BY <1>5, <1>12, Zenon DEF r

\* What is printed of a string is read as a string, and as the same if it is legible.
LEMMA ReadStringIs ==
  ASSUME NEW s \in Seq(Byte)
  PROVE  ReadString(s) \subseteq Seq(Byte) /\ (ReadString(s) = {s} <=> Legible(s))
<1>1. CASE ~Printable(s)
  BY <1>1 DEF ReadString, Legible
<1>2. CASE Printable(s)
  <2>1. Unescape(s) \in Seq(Byte)
    <3>1. 32 \in Byte
      BY DEF Byte
    <3>2. \A i \in 1..Len(s) : s[i] # Backslash => s[i] \in Byte
      OBVIOUS
    <3> QED BY <3>1, <3>2, UnescapeOver
  <2>2. ReadString(s) = {s} <=> Scans(s) /\ Unescape(s) = s
    BY <1>2 DEF ReadString
  <2>3. Range(s) \cap {Tab, Newline} = {}
    <3>1. \A x \in Range(s) : x \in 32..126
      BY <1>2 DEF Printable, Range
    <3>2. \A x \in 32..126 : x # 9 /\ x # 10
      OBVIOUS
    <3> HIDE DEF Range
    <3> QED BY <3>1, <3>2, Zenon DEF Tab, Newline
  <2>4. Legible(s) <=> Range(s) \cap {Tab, Newline, Quote, Backslash} = {} /\ Len(s) <= MaxString
    BY <1>2, <2>3 DEF Legible
  <2>5. ReadString(s) \subseteq Seq(Byte)
    BY <1>2, <2>1 DEF ReadString
  <2> QED BY <2>2, <2>4, <2>5, ReadAsIs
<1> QED BY <1>1, <1>2

\* A string is shown as the string it is, if it is legible.
LEMMA ShownString ==
  ASSUME NEW b \in Seq(Byte), NEW nm
  PROVE  Shown([name |-> nm, tag |-> ASN_OCTET_STR, value |-> b]) = {[type |-> "Str", data |-> b]}
           <=> Legible(b)
<1> DEFINE vb == [name |-> nm, tag |-> ASN_OCTET_STR, value |-> b]
           As(data) == [type |-> "Str", data |-> data]
<1>1. vb.tag = ASN_OCTET_STR /\ vb.value = b
  OBVIOUS
<1> HIDE DEF vb
<1>2. Shown(vb) = {As(s) : s \in ReadString(b)}
  BY <1>1 DEF Shown, ASN_INTEGER, ASN_GAUGE, ASN_COUNTER, ASN_TIMETICKS, ASN_IPADDRESS, ASN_OCTET_STR, ASN_OBJECT_ID
<1>3. \A x, y : As(x) = As(y) => x = y
  <2>1. \A x : As(x).data = x
    OBVIOUS
  <2> HIDE DEF As
  <2> SUFFICES ASSUME NEW x, NEW y, As(x) = As(y) PROVE x = y
    OBVIOUS
  <2>2. As(x).data = x /\ As(y).data = y
    BY <2>1, Zenon
  <2> QED BY <2>2, Zenon
<1> DEFINE R == ReadString(b)
<1> HIDE DEF As, R
<1>4. {As(s) : s \in R} = {As(b)} <=> R = {b}
  <2>1. ASSUME {As(s) : s \in R} = {As(b)} PROVE R = {b}
    <3>1. \A s \in R : As(s) = As(b)
      BY <2>1
    <3>2. \E s \in R : As(s) = As(b)
      BY <2>1
    <3>3. (\A s \in R : s = b) /\ b \in R
      BY <1>3, <3>1, <3>2, Zenon
    <3> QED BY <3>3
  <2> QED BY <2>1
<1> QED BY <1>2, <1>4, ReadStringIs, Zenon DEF vb, As, R

\* A tag and bytes that are no string are shown as the value they say.
LEMMA ShownBack ==
  ASSUME NEW v, v = [type |-> v.type, data |-> v.data], v.type \in BoundTypes, v.data \in Data(v.type),
         v.type # "Str",
         v.type = "Oid" => Proper(v.data), object.hint \in {"none", "decimal"},
         NEW nm, NEW tag, NEW b, Reads(tag, b, v)
  PROVE  Shown([name |-> nm, tag |-> tag, value |-> b]) = {v}
<1> DEFINE vb == [name |-> nm, tag |-> tag, value |-> b]
           As(type, data) == [type |-> type, data |-> data]
<1>1. vb.tag = tag /\ vb.value = b
  OBVIOUS
<1>2. \A w : ReadNumber(w, object.hint) = {w}
  BY DEF ReadNumber
<1>3. v = As(v.type, v.data)
  OBVIOUS
<1>4. \A type, w : {As(type, x) : x \in ReadNumber(w, object.hint)} = {As(type, w)}
  <2> HIDE DEF As
  <2> QED BY <1>2
<1> HIDE DEF vb
<1>5. CASE v.type = "Int" /\ tag = ASN_INTEGER /\ Word(ParseInt(b)) = v.data
  <2>1. Shown(vb) = {[type |-> "Int", data |-> w] : w \in ReadNumber(Word(ParseInt(vb.value)), object.hint)}
    BY <1>1, <1>5 DEF Shown, ASN_INTEGER, ASN_GAUGE, ASN_COUNTER, ASN_TIMETICKS, ASN_IPADDRESS, ASN_OCTET_STR, ASN_OBJECT_ID
  <2> QED BY <1>1, <1>3, <1>4, <1>5, <2>1, Zenon DEF vb
<1>6. CASE v.type = "Gauge" /\ tag = ASN_GAUGE /\ Word(ParseUnsigned(b)) = v.data
  <2>1. Shown(vb) = {[type |-> "Gauge", data |-> w] : w \in ReadNumber(Word(ParseUnsigned(vb.value)), object.hint)}
    BY <1>1, <1>6 DEF Shown, ASN_INTEGER, ASN_GAUGE, ASN_COUNTER, ASN_TIMETICKS, ASN_IPADDRESS, ASN_OCTET_STR, ASN_OBJECT_ID
  <2> QED BY <1>1, <1>3, <1>4, <1>6, <2>1, Zenon DEF vb
<1>7. CASE v.type = "Counter" /\ tag = ASN_COUNTER /\ Word(ParseUnsigned(b)) = v.data
  <2>1. Shown(vb) = {[type |-> "Counter", data |-> w] : w \in ReadNumber(Word(ParseUnsigned(vb.value)), object.hint)}
    BY <1>1, <1>7 DEF Shown, ASN_INTEGER, ASN_GAUGE, ASN_COUNTER, ASN_TIMETICKS, ASN_IPADDRESS, ASN_OCTET_STR, ASN_OBJECT_ID
  <2> QED BY <1>1, <1>3, <1>4, <1>7, <2>1, Zenon DEF vb
<1>8. CASE v.type = "TimeTicks" /\ tag = ASN_TIMETICKS /\ Word(ParseUnsigned(b)) = v.data
  <2>1. Shown(vb) = {[type |-> "TimeTicks", data |-> Word(ParseUnsigned(vb.value))]}
    BY <1>1, <1>8 DEF Shown, ASN_INTEGER, ASN_GAUGE, ASN_COUNTER, ASN_TIMETICKS, ASN_IPADDRESS, ASN_OCTET_STR, ASN_OBJECT_ID
  <2> QED BY <1>1, <1>3, <1>8, <2>1, Zenon DEF vb
<1>9. CASE v.type = "Ip" /\ tag = ASN_IPADDRESS /\ b = v.data
  <2>1. b \in [1..4 -> Byte]
    BY <1>9 DEF Data
  <2>2. b \in Seq(Byte) /\ Len(b) = 4
    <3>1. PICK n \in Nat : n = 4
      OBVIOUS
    <3>2. b \in [1..n -> Byte]
      BY <2>1, <3>1
    <3>3. b \in Seq(Byte) /\ Len(b) = n
      BY <3>2, FixedSeq, Zenon
    <3> QED BY <3>1, <3>3
  <2>3. SubSeq(b, 1, Len(b)) = b
    BY <2>2
  <2>4. SubSeq(b, 1, 4) = b /\ Len(b) >= 4
    <3>1. 4 >= 4
      OBVIOUS
    <3> QED BY <2>2, <2>3, <3>1, Zenon
  <2>5. Shown(vb) = {[type |-> "Ip", data |-> SubSeq(vb.value, 1, 4)]}
    BY <1>1, <1>9, <2>4 DEF Shown, ASN_INTEGER, ASN_GAUGE, ASN_COUNTER, ASN_TIMETICKS, ASN_IPADDRESS, ASN_OCTET_STR, ASN_OBJECT_ID
  <2> QED BY <1>1, <1>3, <1>9, <2>4, <2>5, Zenon DEF vb
<1>10. CASE v.type = "Oid" /\ tag = ASN_OBJECT_ID /\ b = ObjidBody(v.data)
  <2>1. Shown(vb) = {[type |-> "Oid", data |-> o] : o \in ParseObjidBody(vb.value)}
    BY <1>1, <1>10 DEF Shown, ASN_INTEGER, ASN_GAUGE, ASN_COUNTER, ASN_TIMETICKS, ASN_IPADDRESS, ASN_OCTET_STR, ASN_OBJECT_ID
  <2>2. v.data \in Seq(0..MaxArc)
    BY <1>10 DEF Data
  <2>3. ParseObjidBody(vb.value) = {v.data}
    BY <1>1, <1>10, <2>2, ObjidBack, Zenon
  <2> QED BY <1>3, <1>10, <2>1, <2>3, Zenon DEF vb
<1>11. \/ v.type = "Int" /\ tag = ASN_INTEGER /\ Word(ParseInt(b)) = v.data
       \/ v.type = "Gauge" /\ tag = ASN_GAUGE /\ Word(ParseUnsigned(b)) = v.data
       \/ v.type = "Counter" /\ tag = ASN_COUNTER /\ Word(ParseUnsigned(b)) = v.data
       \/ v.type = "TimeTicks" /\ tag = ASN_TIMETICKS /\ Word(ParseUnsigned(b)) = v.data
       \/ v.type = "Ip" /\ tag = ASN_IPADDRESS /\ b = v.data
       \/ v.type = "Oid" /\ tag = ASN_OBJECT_ID /\ b = ObjidBody(v.data)
  BY Zenon DEF Reads
<1> QED BY <1>5, <1>6, <1>7, <1>8, <1>9, <1>10, <1>11, Zenon

\* An identifier of its own is read back.
LEMMA LoneBack ==
  ASSUME NEW nm \in Seq(0..MaxArc), Proper(nm), Small(ObjidBody(nm))
  PROVE  BuildObjid(nm) \in Seq(Byte) /\ ParseObjid(BuildObjid(nm)) = {nm}
<1> DEFINE body == ObjidBody(nm)
           o == BuildObjid(nm)
           t == [tag |-> ASN_OBJECT_ID, value |-> body, size |-> Len(o)]
<1>1. body \in Seq(Byte)
  <2>1. Buildable(nm)
    BY ArcsBack
  <2> QED BY <2>1, BodyIs
<1>2. Small(body)
  OBVIOUS
<1>3. ASN_OBJECT_ID \in Byte
  BY DEF ASN_OBJECT_ID, Byte
<1>4. o = BuildTlv(ASN_OBJECT_ID, body)
  BY DEF BuildObjid
<1>5. ParseObjidBody(body) = {nm}
  BY ObjidBack
<1> HIDE DEF body, o
<1>6. o \in Seq(Byte)
  BY <1>1, <1>3, <1>4, TlvTyped
<1>7. o \o <<>> = o /\ <<>> \in Seq(Byte)
  BY <1>6
<1>8. ParseTlv(o) = {t}
  <2>1. ParseTlv(BuildTlv(ASN_OBJECT_ID, body) \o <<>>) = {[tag |-> ASN_OBJECT_ID, value |-> body, size |-> Len(BuildTlv(ASN_OBJECT_ID, body))]}
    BY <1>1, <1>2, <1>3, <1>7, BuiltBack
  <2> QED BY <1>4, <1>7, <2>1
<1>9. t.tag = ASN_OBJECT_ID /\ t.value = body
  OBVIOUS
<1> HIDE DEF t
<1>10. {x \in ParseTlv(o) : x.tag = ASN_OBJECT_ID} = {t}
  BY <1>8, <1>9
<1>11. ParseObjid(o) = {nm}
  <2>1. ParseObjid(o) = UNION {ParseObjidBody(x.value) : x \in {x \in ParseTlv(o) : x.tag = ASN_OBJECT_ID}}
    BY DEF ParseObjid
  <2>2. UNION {ParseObjidBody(x.value) : x \in {t}} = {nm}
    BY <1>5, <1>9
  <2> QED BY <1>10, <2>1, <2>2
<1> QED BY <1>6, <1>11 DEF o

-----------------------------------------------------------------------------
(* Types                                                                   *)

\* What a header is read as, whatever the bytes are.
LEMMA TlvParsed ==
  ASSUME NEW d \in Seq(Byte), NEW t \in ParseTlv(d)
  PROVE  t.value \in Seq(Byte) /\ t.size \in Nat /\ t.size <= Len(d)
<1> DEFINE z == Len(d)
           y == d[2]
           count == IF y < 128 THEN 0 ELSE y - 128
           many == Number(256, SubSeq(d, 3, 2 + count))
           amount == IF count = 0 THEN y ELSE many
<1>1. z \in Nat
  OBVIOUS
<1>2. /\ ~(z < 2) /\ ~((y >= 128 /\ count \notin 1..4) \/ z < 2 + count) /\ ~(z < 2 + count + amount)
      /\ t = [tag |-> d[1], value |-> SubSeq(d, 2 + count + 1, 2 + count + amount),
              size |-> 2 + count + amount]
  BY Zenon DEF ParseTlv
<1>3. y \in Byte
  <2>1. 2 \in 1..z
    BY <1>1, <1>2
  <2> QED BY <2>1, ElementOf, Zenon
<1> HIDE DEF many, z, y
<1>4. count \in 0..127
  BY <1>3 DEF Byte
<1>5. many \in Nat
  <2> DEFINE q == SubSeq(d, 3, 2 + count)
  <2>1. 3 \in Nat /\ 3 # 0 /\ 2 + count \in Nat /\ 2 + count <= Len(d)
    <3>1. ~(z < 2 + count)
      BY <1>2, Zenon
    <3> HIDE DEF count
    <3>2. 3 \in Nat /\ 3 # 0 /\ 2 + count \in Nat /\ 2 + count <= z
      BY <1>1, <1>4, <3>1
    <3> QED BY <3>2, Zenon DEF z
  <2> HIDE DEF count
  <2>2. q \in Seq(Byte)
    BY <2>1, PartIn
  <2> HIDE DEF q
  <2>3. q \in Seq(Nat)
    <3>1. Byte \subseteq Nat
      BY DEF Byte
    <3>2. q \in [1..Len(q) -> Byte] /\ Len(q) \in Nat
      BY <2>2, FunctionOf
    <3>3. q \in [1..Len(q) -> Nat]
      BY <3>1, <3>2, Zenon
    <3> QED BY <3>2, <3>3, FixedSeq, Zenon
  <2>4. PICK f \in [0..Len(q) -> Nat] : Number(256, q) = f[Len(q)]
    <3>1. 256 \in Nat
      OBVIOUS
    <3> QED BY <2>3, <3>1, NumberSteps
  <2>5. Len(q) \in 0..Len(q)
    BY <2>3
  <2> QED BY <2>4, <2>5 DEF many, q
<1>6. amount \in Nat
  BY <1>3, <1>5 DEF Byte
<1> HIDE DEF amount, count
<1>7. 2 + count + 1 \in Nat /\ 2 + count + 1 # 0 /\ 2 + count + amount \in Nat /\ 2 + count + amount <= Len(d)
  BY <1>1, <1>2, <1>4, <1>6 DEF z
<1>8. SubSeq(d, 2 + count + 1, 2 + count + amount) \in Seq(Byte)
  BY <1>7, PartIn
<1>9. t.value = SubSeq(d, 2 + count + 1, 2 + count + amount) /\ t.size = 2 + count + amount
  BY <1>2
<1> QED BY <1>7, <1>8, <1>9, Zenon

\* At most eight decimal digits.
Digits == {d \in Seq(Nat) : Len(d) <= 8 /\ \A i \in 1..Len(d) : d[i] <= 9}

\* The greatest number of eight digits.
EightDigits == 99999999

\* A number that grows by at most a digit at a time.
ByDigits(f, n) == f[0] = 0 /\ \A i \in 1..n : \A c \in Nat : f[i - 1] <= c => f[i] <= c * 10 + 9

\* Eight digits make no more than that.
LEMMA DigitsBound ==
  ASSUME NEW n \in 0..8, NEW f \in [0..n -> Nat], ByDigits(f, n)
  PROVE  f[n] <= EightDigits
<1>1. 0 <= n => f[0] <= 0
  BY SMT DEF ByDigits
<1>2. 1 <= n => f[1] <= 9
  <2> SUFFICES ASSUME 1 <= n PROVE f[1] <= 9
    BY SMT
  <2>1. 1 \in 1..n /\ 1 - 1 = 0 /\ 0 <= n
    BY SMT
  <2>2. \A c \in Nat : f[0] <= c => f[1] <= c * 10 + 9
    BY <2>1, SMT DEF ByDigits
  <2>3. 0 \in Nat /\ 0 * 10 + 9 = 9 /\ f[0] <= 0
    BY <1>1, <2>1, SMT
  <2> QED BY <2>2, <2>3, SMT
<1>3. 2 <= n => f[2] <= 99
  <2> SUFFICES ASSUME 2 <= n PROVE f[2] <= 99
    BY SMT
  <2>1. 2 \in 1..n /\ 2 - 1 = 1 /\ 1 <= n
    BY SMT
  <2>2. \A c \in Nat : f[1] <= c => f[2] <= c * 10 + 9
    BY <2>1, SMT DEF ByDigits
  <2>3. 9 \in Nat /\ 9 * 10 + 9 = 99 /\ f[1] <= 9
    BY <1>2, <2>1, SMT
  <2> QED BY <2>2, <2>3, SMT
<1>4. 3 <= n => f[3] <= 999
  <2> SUFFICES ASSUME 3 <= n PROVE f[3] <= 999
    BY SMT
  <2>1. 3 \in 1..n /\ 3 - 1 = 2 /\ 2 <= n
    BY SMT
  <2>2. \A c \in Nat : f[2] <= c => f[3] <= c * 10 + 9
    BY <2>1, SMT DEF ByDigits
  <2>3. 99 \in Nat /\ 99 * 10 + 9 = 999 /\ f[2] <= 99
    BY <1>3, <2>1, SMT
  <2> QED BY <2>2, <2>3, SMT
<1>5. 4 <= n => f[4] <= 9999
  <2> SUFFICES ASSUME 4 <= n PROVE f[4] <= 9999
    BY SMT
  <2>1. 4 \in 1..n /\ 4 - 1 = 3 /\ 3 <= n
    BY SMT
  <2>2. \A c \in Nat : f[3] <= c => f[4] <= c * 10 + 9
    BY <2>1, SMT DEF ByDigits
  <2>3. 999 \in Nat /\ 999 * 10 + 9 = 9999 /\ f[3] <= 999
    BY <1>4, <2>1, SMT
  <2> QED BY <2>2, <2>3, SMT
<1>6. 5 <= n => f[5] <= 99999
  <2> SUFFICES ASSUME 5 <= n PROVE f[5] <= 99999
    BY SMT
  <2>1. 5 \in 1..n /\ 5 - 1 = 4 /\ 4 <= n
    BY SMT
  <2>2. \A c \in Nat : f[4] <= c => f[5] <= c * 10 + 9
    BY <2>1, SMT DEF ByDigits
  <2>3. 9999 \in Nat /\ 9999 * 10 + 9 = 99999 /\ f[4] <= 9999
    BY <1>5, <2>1, SMT
  <2> QED BY <2>2, <2>3, SMT
<1>7. 6 <= n => f[6] <= 999999
  <2> SUFFICES ASSUME 6 <= n PROVE f[6] <= 999999
    BY SMT
  <2>1. 6 \in 1..n /\ 6 - 1 = 5 /\ 5 <= n
    BY SMT
  <2>2. \A c \in Nat : f[5] <= c => f[6] <= c * 10 + 9
    BY <2>1, SMT DEF ByDigits
  <2>3. 99999 \in Nat /\ 99999 * 10 + 9 = 999999 /\ f[5] <= 99999
    BY <1>6, <2>1, SMT
  <2> QED BY <2>2, <2>3, SMT
<1>8. 7 <= n => f[7] <= 9999999
  <2> SUFFICES ASSUME 7 <= n PROVE f[7] <= 9999999
    BY SMT
  <2>1. 7 \in 1..n /\ 7 - 1 = 6 /\ 6 <= n
    BY SMT
  <2>2. \A c \in Nat : f[6] <= c => f[7] <= c * 10 + 9
    BY <2>1, SMT DEF ByDigits
  <2>3. 999999 \in Nat /\ 999999 * 10 + 9 = 9999999 /\ f[6] <= 999999
    BY <1>7, <2>1, SMT
  <2> QED BY <2>2, <2>3, SMT
<1>9. 8 <= n => f[8] <= 99999999
  <2> SUFFICES ASSUME 8 <= n PROVE f[8] <= 99999999
    BY SMT
  <2>1. 8 \in 1..n /\ 8 - 1 = 7 /\ 7 <= n
    BY SMT
  <2>2. \A c \in Nat : f[7] <= c => f[8] <= c * 10 + 9
    BY <2>1, SMT DEF ByDigits
  <2>3. 9999999 \in Nat /\ 9999999 * 10 + 9 = 99999999 /\ f[7] <= 9999999
    BY <1>8, <2>1, SMT
  <2> QED BY <2>2, <2>3, SMT
<1>10. n = 0 \/ n = 1 \/ n = 2 \/ n = 3 \/ n = 4 \/ n = 5 \/ n = 6 \/ n = 7 \/ n = 8
  BY SMT
<1>11. f[n] \in Nat
  BY SMT
<1>12. CASE n = 0
  BY <1>12, SMT DEF ByDigits, EightDigits
<1>13. CASE n = 1
  BY <1>2, <1>11, <1>13, SMT DEF EightDigits
<1>14. CASE n = 2
  BY <1>3, <1>11, <1>14, SMT DEF EightDigits
<1>15. CASE n = 3
  BY <1>4, <1>11, <1>15, SMT DEF EightDigits
<1>16. CASE n = 4
  BY <1>5, <1>11, <1>16, SMT DEF EightDigits
<1>17. CASE n = 5
  BY <1>6, <1>11, <1>17, SMT DEF EightDigits
<1>18. CASE n = 6
  BY <1>7, <1>11, <1>18, SMT DEF EightDigits
<1>19. CASE n = 7
  BY <1>8, <1>11, <1>19, SMT DEF EightDigits
<1>20. CASE n = 8
  BY <1>9, <1>11, <1>20, SMT DEF EightDigits
<1> QED BY <1>10, <1>12, <1>13, <1>14, <1>15, <1>16, <1>17, <1>18, <1>19, <1>20, SMT

\* Such a number is four bytes.
LEMMA WordTyped ==
  ASSUME NEW x \in Nat, x <= 99999999
  PROVE  WordOf(x) \in [1..4 -> Byte]
<1> DEFINE a == x \div 16777216
           b == (x \div 65536) % 256
           c == (x \div 256) % 256
           e == x % 256
<1>1. a \in Byte /\ b \in Byte /\ c \in Byte /\ e \in Byte
  BY SMT DEF Byte
<1>2. WordOf(x) = <<a, b, c, e>>
  BY SMT DEF WordOf
<1> HIDE DEF a, b, c, e
<1>3. <<a, b, c, e>> \in [1..4 -> Byte]
  BY <1>1, SMT
<1> QED BY <1>2, <1>3, SMT

\* So is what at most eight digits say.
LEMMA DecimalTyped ==
  ASSUME NEW d \in Digits
  PROVE  Decimal(d) \in [1..4 -> Byte]
<1> DEFINE n == Len(d)
<1>1. n \in 0..8 /\ d \in Seq(Nat) /\ \A i \in 1..n : d[i] <= 9
  <2>1. d \in Seq(Nat) /\ n <= 8 /\ \A i \in 1..n : d[i] <= 9
    BY DEF Digits
  <2>2. n \in Nat
    BY <2>1
  <2> HIDE DEF n
  <2>3. n \in 0..8
    BY <2>1, <2>2
  <2> QED BY <2>1, <2>3
<1>2. d \in Seq(Nat)
  BY <1>1
<1>3. 10 \in Nat
  OBVIOUS
<1>4. PICK f \in [0..n -> Nat] :
        /\ f[0] = 0 /\ (\A i \in 1..n : f[i] = f[i - 1] * 10 + d[i])
        /\ Number(10, d) = f[n]
  BY <1>2, <1>3, NumberSteps
<1>5. \A i \in 1..n : d[i] \in Nat
  BY <1>2
<1> HIDE DEF n
<1>6. \A i \in 1..n : \A c \in Nat : f[i - 1] <= c => f[i] <= c * 10 + 9
  <2> SUFFICES ASSUME NEW i \in 1..n, NEW c \in Nat, f[i - 1] <= c PROVE f[i] <= c * 10 + 9
    OBVIOUS
  <2> DEFINE x == f[i - 1]
             y == d[i]
  <2>1. i - 1 \in 0..n
    BY <1>1
  <2>2. x \in Nat /\ x <= c /\ y \in Nat /\ y <= 9
    BY <1>1, <1>5, <2>1
  <2> HIDE DEF x, y
  <2>3. x * 10 + y <= c * 10 + 9
    BY <2>2
  <2> QED BY <1>4, <2>3 DEF x, y
<1>7. f[n] <= EightDigits
  <2>1. n \in 0..8 /\ f \in [0..n -> Nat] /\ f[0] = 0
    BY <1>1, <1>4, SMT
  <2>2. ByDigits(f, n)
    BY <1>6, <2>1, Zenon DEF ByDigits
  <2> QED BY <2>1, <2>2, DigitsBound, Zenon
<1>8. f[n] \in Nat
  BY <1>1, <1>4, SMT
<1>9. Decimal(d) = WordOf(f[n])
  BY <1>4, SMT DEF Decimal
<1> QED BY <1>7, <1>8, <1>9, WordTyped, SMT DEF EightDigits

\* The hexadecimal digits of a word.
LEMMA HexTyped ==
  ASSUME NEW w \in [1..4 -> Byte]
  PROVE  HexDigits(w) \in Seq(Nat) /\ Len(HexDigits(w)) <= 8
<1> DEFINE all == [i \in 1..8 |-> IF i % 2 = 1 THEN w[(i + 1) \div 2] \div 16 ELSE w[i \div 2] % 16]
           P(k) == (\A j \in 1..k - 1 : all[j] = 0) /\ (k = 8 \/ all[k] # 0)
           k == CHOOSE k \in 1..8 : P(k)
           Drop == {j \in 1..7 : all[j] = 0}
<1>1. all \in [1..8 -> Nat]
  <2>1. ASSUME NEW i \in 1..8
        PROVE  (IF i % 2 = 1 THEN w[(i + 1) \div 2] \div 16 ELSE w[i \div 2] % 16) \in Nat
    <3>1. i % 2 = 1 => (i + 1) \div 2 \in 1..4
      OBVIOUS
    <3>2. ~(i % 2 = 1) => i \div 2 \in 1..4
      OBVIOUS
    <3>3. \A m \in 1..4 : w[m] \div 16 \in Nat /\ w[m] % 16 \in Nat
      <4>1. \A a \in Byte : a \div 16 \in Nat /\ a % 16 \in Nat
        BY DEF Byte
      <4> QED BY <4>1
    <3> QED BY <3>1, <3>2, <3>3, Zenon
  <2> QED BY <2>1
<1> HIDE DEF all
<1>2. \E c \in 1..8 : P(c)
  <2>1. Drop \subseteq 1..7
    OBVIOUS
  <2>2. PICK c \in 1..8 : (\A j \in 1..c - 1 : j \in Drop) /\ (c = 8 \/ c \notin Drop)
    <3> HIDE DEF Drop
    <3> QED BY <2>1, FirstKept, Zenon
  <2>3. c = 8 \/ c \in 1..7
    OBVIOUS
  <2> QED BY <2>2, <2>3
<1>3. k \in 1..8
  <2> HIDE DEF P
  <2> QED BY <1>2, Zenon
<1>4. HexDigits(w) = SubSeq(all, k, 8)
  BY Zenon DEF HexDigits, all
<1> HIDE DEF k, P, Drop
<1>5. all \in Seq(Nat) /\ Len(all) = 8
  <2> DEFINE m == 8
  <2>1. m \in Nat /\ all \in [1..m -> Nat] /\ m = 8
    BY <1>1
  <2> HIDE DEF m
  <2>2. all \in Seq(Nat) /\ Len(all) = m
    BY <2>1, FixedSeq, ZenonT(40)
  <2> QED BY <2>1, <2>2, Zenon
<1> DEFINE s == SubSeq(all, k, Len(all))
<1>6. SubSeq(all, k, 8) = s
  BY <1>5, Zenon
<1>7. k \in Nat /\ k # 0 /\ k <= Len(all)
  BY <1>3, <1>5
<1> HIDE DEF s
<1>8. s \in Seq(Nat) /\ Len(s) = Len(all) + 1 - k
  <2>1. all \in Seq(Nat)
    BY <1>5
  <2> QED BY <1>7, <2>1, EndOf DEF s
<1>9. Len(s) <= 8
  <2> DEFINE m == Len(s)
             n == Len(all)
  <2>1. m = n + 1 - k /\ n = 8
    BY <1>5, <1>8
  <2> HIDE DEF m, n
  <2>2. m <= 8
    BY <1>3, <2>1
  <2> QED BY <2>2 DEF m
<1> QED BY <1>4, <1>6, <1>8, <1>9, Zenon

\* The four bytes that are kept of a number that was read.
LEMMA LowTyped ==
  ASSUME NEW b \in Seq(Byte)
  PROVE  Word(ParseInt(b)) \in [1..4 -> Byte] /\ Word(ParseUnsigned(b)) \in [1..4 -> Byte]
<1>1. 0 \in Byte /\ 255 \in Byte
  BY DEF Byte
<1>2. \A fill \in Byte : Word(Low(8, b, fill)) \in [1..4 -> Byte]
  <2> SUFFICES ASSUME NEW fill \in Byte PROVE Word(Low(8, b, fill)) \in [1..4 -> Byte]
    OBVIOUS
  <2> DEFINE x == Low(8, b, fill)
             z == Len(b)
  <2>1. z \in Nat /\ \A i \in 1..z : b[i] \in Byte
    OBVIOUS
  <2> HIDE DEF z
  <2>2. \A i \in 1..8 : (IF i + z > 8 THEN b[i + z - 8] ELSE fill) \in Byte
    <3> SUFFICES ASSUME NEW i \in 1..8 PROVE (IF i + z > 8 THEN b[i + z - 8] ELSE fill) \in Byte
      OBVIOUS
    <3>1. i + z > 8 => i + z - 8 \in 1..z
      BY <2>1
    <3> QED BY <2>1, <3>1, Zenon
  <2>3. x = [i \in 1..8 |-> IF i + z > 8 THEN b[i + z - 8] ELSE fill]
    BY Zenon DEF Low, z
  <2> HIDE DEF x
  <2>4. x \in [1..8 -> Byte]
    BY <2>2, <2>3, Zenon
  <2>5. Eight(x)
    <3> DEFINE m == 8
    <3>1. m \in Nat /\ x \in [1..m -> Byte] /\ m = 8
      BY <2>4
    <3> HIDE DEF m
    <3>2. x \in Seq(Byte) /\ Len(x) = m
      BY <3>1, FixedSeq
    <3> QED BY <3>1, <3>2, Zenon DEF Eight
  <2>6. SubSeq(x, 5, 8) \in Seq(Byte) /\ Len(SubSeq(x, 5, 8)) = 4
    <3>1. 5 \in 1..8 /\ 9 - 5 = 4
      OBVIOUS
    <3> QED BY <2>5, <3>1, EndOfEight, Zenon
  <2>7. SubSeq(x, 5, 8) \in [1..4 -> Byte]
    BY <2>6, FunctionOf, Zenon
  <2> QED BY <2>7, Zenon DEF Word, x
<1>3. ParseUnsigned(b) = Low(8, b, 0) /\ \E fill \in Byte : ParseInt(b) = Low(8, b, fill)
  BY <1>1, Zenon DEF ParseInt, ParseUnsigned
<1> QED BY <1>1, <1>2, <1>3, Zenon

\* Whatever is printed of a word is read as a word.
LEMMA ReadTyped ==
  ASSUME NEW w \in [1..4 -> Byte], NEW hint, NEW x \in ReadNumber(w, hint)
  PROVE  x \in [1..4 -> Byte]
<1>1. CASE hint = "fraction"
  BY <1>1 DEF ReadNumber
<1>2. CASE hint = "hexadecimal"
  <2> DEFINE d == HexDigits(w)
  <2>1. x = Decimal(d) /\ \A y \in Range(d) : y < 10
    BY <1>2 DEF ReadNumber
  <2>2. d \in Seq(Nat) /\ Len(d) <= 8
    BY HexTyped, Zenon
  <2> HIDE DEF d
  <2>3. \A i \in 1..Len(d) : d[i] <= 9
    <3> SUFFICES ASSUME NEW i \in 1..Len(d) PROVE d[i] <= 9
      OBVIOUS
    <3> DEFINE y == d[i]
    <3>1. y \in Nat
      BY <2>2, ElementOf, Zenon
    <3>2. y \in Range(d)
      <4>1. DOMAIN d = 1..Len(d)
        BY <2>2
      <4> QED BY <4>1, Zenon DEF Range
    <3>3. y < 10
      BY <2>1, <3>2, Zenon
    <3> HIDE DEF y
    <3>4. y <= 9
      BY <3>1, <3>3
    <3> QED BY <3>4 DEF y
  <2>4. d \in Digits
    BY <2>2, <2>3, Zenon DEF Digits
  <2> QED BY <2>1, <2>4, DecimalTyped, Zenon
<1>3. CASE hint # "fraction" /\ hint # "hexadecimal"
  BY <1>3 DEF ReadNumber
<1> QED BY <1>1, <1>2, <1>3

\* A value of a config file.
Valued(v) == v = [type |-> v.type, data |-> v.data] /\ v.type \in Types /\ v.data \in Data(v.type)

\* A type and data that fit it make a value.
LEMMA ValuedIs ==
  ASSUME NEW type \in Types, NEW data \in Data(type)
  PROVE  Valued([type |-> type, data |-> data])
<1> DEFINE v == [type |-> type, data |-> data]
<1>1. v.type = type /\ v.data = data
  OBVIOUS
<1> HIDE DEF v
<1>2. v = [type |-> v.type, data |-> v.data]
  BY <1>1, Zenon DEF v
<1> QED BY <1>1, <1>2, Zenon DEF Valued, v

\* Whatever the tag and the bytes are, what is shown is a value.
LEMMA ShownTyped ==
  ASSUME NEW vb, vb.value \in Seq(Byte), NEW v \in Shown(vb)
  PROVE  Valued(v)
<1> DEFINE i == Word(ParseInt(vb.value))
           u == Word(ParseUnsigned(vb.value))
<1>1. i \in [1..4 -> Byte] /\ u \in [1..4 -> Byte]
  BY LowTyped, Zenon
<1>2. (\A w \in ReadNumber(i, object.hint) : w \in [1..4 -> Byte]) /\ \A w \in ReadNumber(u, object.hint) : w \in [1..4 -> Byte]
  BY <1>1, ReadTyped, Zenon
<1>3. {"Int", "Gauge", "Counter", "TimeTicks", "Str", "Ip", "Oid"} \subseteq Types
  BY DEF Types
<1>4. /\ \A w \in [1..4 -> Byte] : /\ w \in Data("Int") /\ w \in Data("Gauge") /\ w \in Data("Counter")
                                   /\ w \in Data("TimeTicks") /\ w \in Data("Ip")
      /\ \A w \in Seq(Byte) : w \in Data("Str")
      /\ \A w \in Seq(0..MaxArc) : w \in Data("Oid")
  BY DEF Data
<1> HIDE DEF i, u
<1>5. \/ \E w \in ReadNumber(i, object.hint) : v = [type |-> "Int", data |-> w]
      \/ \E w \in ReadNumber(u, object.hint) : v = [type |-> "Gauge", data |-> w]
      \/ \E w \in ReadNumber(u, object.hint) : v = [type |-> "Counter", data |-> w]
      \/ v = [type |-> "TimeTicks", data |-> u]
      \/ Len(vb.value) >= 4 /\ v = [type |-> "Ip", data |-> SubSeq(vb.value, 1, 4)]
      \/ \E w \in ReadString(vb.value) : v = [type |-> "Str", data |-> w]
      \/ \E o \in ParseObjidBody(vb.value) : v = [type |-> "Oid", data |-> o]
  BY DEF Shown, i, u
<1>6. CASE \E w \in ReadNumber(i, object.hint) : v = [type |-> "Int", data |-> w]
  BY <1>2, <1>3, <1>4, <1>6, ValuedIs
<1>7. CASE \E w \in ReadNumber(u, object.hint) : v = [type |-> "Gauge", data |-> w]
  BY <1>2, <1>3, <1>4, <1>7, ValuedIs
<1>8. CASE \E w \in ReadNumber(u, object.hint) : v = [type |-> "Counter", data |-> w]
  BY <1>2, <1>3, <1>4, <1>8, ValuedIs
<1>9. CASE v = [type |-> "TimeTicks", data |-> u]
  BY <1>1, <1>3, <1>4, <1>9, ValuedIs
<1>10. CASE Len(vb.value) >= 4 /\ v = [type |-> "Ip", data |-> SubSeq(vb.value, 1, 4)]
  <2> DEFINE w == SubSeq(vb.value, 1, 4)
             m == 4
  <2>1. m \in Nat /\ m <= Len(vb.value) /\ m = 4
    BY <1>10
  <2> HIDE DEF m
  <2>2. SubSeq(vb.value, 1, m) \in Seq(Byte) /\ Len(SubSeq(vb.value, 1, m)) = m
    BY <2>1, FirstOf
  <2>3. w \in Seq(Byte) /\ Len(w) = 4
    BY <2>1, <2>2, Zenon
  <2> HIDE DEF w
  <2>4. w \in [1..4 -> Byte]
    BY <2>3, FunctionOf, Zenon
  <2>5. v = [type |-> "Ip", data |-> w]
    BY <1>10, Zenon DEF w
  <2> QED BY <1>3, <1>4, <2>4, <2>5, ValuedIs
<1>11. CASE \E w \in ReadString(vb.value) : v = [type |-> "Str", data |-> w]
  <2>1. ReadString(vb.value) \subseteq Seq(Byte)
    BY ReadStringIs
  <2> QED BY <1>3, <1>4, <1>11, <2>1, ValuedIs
<1>12. CASE \E o \in ParseObjidBody(vb.value) : v = [type |-> "Oid", data |-> o]
  <2>1. PICK o \in ParseObjidBody(vb.value) : v = [type |-> "Oid", data |-> o]
    BY <1>12
  <2>2. o \in Seq(0..MaxArc)
    BY ParsedBody
  <2> QED BY <1>3, <1>4, <2>1, <2>2, ValuedIs
<1> QED BY <1>5, <1>6, <1>7, <1>8, <1>9, <1>10, <1>11, <1>12, Zenon

\* A binding says arcs and bytes.
LEMMA VarOpParsed ==
  ASSUME NEW d \in Seq(Byte), NEW r \in ParseVarOp(d)
  PROVE  r.name \in Seq(0..MaxArc) /\ r.value \in Seq(Byte)
<1> DEFINE Says(q, t) == \E nm \in ParseObjidBody(t.value), val \in ParseTlv(SubSeq(q.value, t.size + 1, Len(q.value))) :
                           r = [name |-> nm, tag |-> val.tag, value |-> val.value]
<1>0. \E q \in ParseTlv(d) : \E t \in ParseTlv(q.value) : Says(q, t)
  BY DEF ParseVarOp
<1>9. PICK q \in ParseTlv(d) : \E t \in ParseTlv(q.value) : Says(q, t)
  BY <1>0
<1>8. PICK t \in ParseTlv(q.value) : Says(q, t)
  BY <1>9
<1>1. PICK nm \in ParseObjidBody(t.value), val \in ParseTlv(SubSeq(q.value, t.size + 1, Len(q.value))) :
             r = [name |-> nm, tag |-> val.tag, value |-> val.value]
  BY <1>8
<1>2. q.value \in Seq(Byte)
  BY TlvParsed
<1>3. t.value \in Seq(Byte) /\ t.size \in Nat
  BY <1>2, TlvParsed
<1>4. nm \in Seq(0..MaxArc)
  BY <1>3, ParsedBody
<1>5. SubSeq(q.value, t.size + 1, Len(q.value)) \in Seq(Byte)
  <2>1. t.size + 1 \in Nat /\ t.size + 1 # 0 /\ Len(q.value) \in Nat /\ Len(q.value) <= Len(q.value)
    BY <1>2, <1>3
  <2> QED BY <1>2, <2>1, PartIn
<1>6. val.value \in Seq(Byte)
  BY <1>5, TlvParsed
<1>7. r.name = nm /\ r.value = val.value
  BY <1>1
<1> QED BY <1>4, <1>6, <1>7, Zenon

\* An identifier by itself says arcs.
LEMMA ObjidParsed ==
  ASSUME NEW d \in Seq(Byte), NEW o \in ParseObjid(d)
  PROVE  o \in Seq(0..MaxArc)
<1>1. PICK t \in ParseTlv(d) : o \in ParseObjidBody(t.value)
  BY DEF ParseObjid
<1>2. t.value \in Seq(Byte)
  BY TlvParsed
<1> QED BY <1>1, <1>2, ParsedBody

\* A decoded file says a setting.
LEMMA DecodedTyped ==
  ASSUME TypeOK, NEW d \in Decoded
  PROVE  d.name \in Seq(0..MaxArc) /\ Valued(d.value)
<1>1. bytes \in Seq(Byte) /\ Valued(value)
  BY Zenon DEF TypeOK, Bytes, Valued
<1>2. CASE Bound
  <2>0. PICK vb \in ParseVarOp(bytes) : \E v \in Shown(vb) : d = [name |-> vb.name, value |-> v]
    <3>1. value.type # "Control" /\ value.type # "Bare"
      BY <1>2 DEF Bound
    <3>2. Decoded = UNION {{[name |-> vb.name, value |-> v] : v \in Shown(vb)} : vb \in ParseVarOp(bytes)}
      BY <1>2, <3>1 DEF Decoded
    <3> QED BY <3>2
  <2>1. PICK v \in Shown(vb) : d = [name |-> vb.name, value |-> v]
    BY <2>0
  <2>2. d.name = vb.name /\ d.value = v
    BY <2>1
  <2>3. vb.name \in Seq(0..MaxArc) /\ vb.value \in Seq(Byte)
    BY <1>1, VarOpParsed
  <2>4. Valued(v)
    BY <2>3, ShownTyped
  <2> QED BY <2>2, <2>3, <2>4, Zenon
<1>3. CASE value.type = "Control"
  <2> DEFINE w == <<Last(bytes)>>
             v == [type |-> "Control", data |-> w]
  <2>1. PICK o \in ParseObjid(Front(bytes)) : d = [name |-> o, value |-> v]
    <3>1. ~Bound
      BY <1>3 DEF Bound
    <3> QED BY <1>3, <3>1 DEF Decoded
  <2>2. d.name = o /\ d.value = v
    BY <2>1
  <2>3. bytes # <<>>
    <3> SUFFICES ASSUME bytes = <<>> PROVE FALSE
      OBVIOUS
    <3>1. Front(bytes) = <<>>
      BY DEF Front
    <3>2. ParseTlv(<<>>) = {}
      BY DEF ParseTlv
    <3> QED BY <2>1, <3>1, <3>2 DEF ParseObjid
  <2>4. Front(bytes) \in Seq(Byte)
    <3>1. 1 \in Nat /\ 1 # 0 /\ Len(bytes) - 1 \in Nat /\ Len(bytes) - 1 <= Len(bytes)
      BY <1>1, <2>3
    <3> QED BY <1>1, <3>1, PartIn DEF Front
  <2>5. o \in Seq(0..MaxArc)
    BY <2>4, ObjidParsed
  <2>6. Last(bytes) \in Byte
    <3>1. Len(bytes) \in 1..Len(bytes)
      BY <1>1, <2>3
    <3> QED BY <1>1, <3>1, ElementOf, Zenon DEF Last
  <2>7. w \in [1..1 -> Byte]
    BY <2>6, OneOf, Zenon
  <2> HIDE DEF w
  <2>8. "Control" \in Types /\ w \in Data("Control")
    BY <2>7 DEF Types, Data
  <2> QED BY <2>2, <2>5, <2>8, ValuedIs
<1>4. CASE value.type = "Bare"
  <2>1. PICK o \in ParseObjid(bytes) : d = [name |-> o, value |-> value]
    <3>1. ~Bound
      BY <1>4 DEF Bound
    <3> QED BY <1>4, <3>1 DEF Decoded
  <2>2. d.name = o /\ d.value = value
    BY <2>1
  <2>3. o \in Seq(0..MaxArc)
    BY <1>1, ObjidParsed
  <2> QED BY <1>1, <2>2, <2>3, Zenon
<1> QED BY <1>2, <1>3, <1>4 DEF Bound

-----------------------------------------------------------------------------
(* The setting                                                             *)

\* What is encoded are bytes.
LEMMA EncodingTyped ==
  ASSUME TypeOK, Encodes
  PROVE  Encoding \in Seq(Byte)
<1>1. name \in Seq(0..MaxArc) /\ value.type \in Types /\ value.data \in Data(value.type)
  BY Zenon DEF TypeOK
<1>2. ASN_OBJECT_ID \in Byte /\ ASN_SEQUENCE \in Byte
  BY DEF ASN_OBJECT_ID, ASN_SEQUENCE, Byte
<1>3. Buildable(name) => BuildObjid(name) \in Seq(Byte)
  <2> SUFFICES ASSUME Buildable(name) PROVE BuildObjid(name) \in Seq(Byte)
    OBVIOUS
  <2>1. ObjidBody(name) \in Seq(Byte)
    BY <1>1, BodyIs, Zenon
  <2> QED BY <1>2, <2>1, TlvTyped, Zenon DEF BuildObjid
<1>4. CASE Bound
  <2> DEFINE t == ValueTlv(value)
             short == ShortHeader(name, value)
             o == IF Buildable(name) THEN BuildObjid(name) ELSE <<>>
             inner == o \o t
             size == Len(inner)
             h == IF short THEN <<size % 256>> ELSE <<130, (size \div 256) % 256, size % 256>>
             g == <<ASN_SEQUENCE>> \o h
  <2>1. Encoding = g \o inner
    <3>1. Encoding = BuildVarOp(name, t, short)
      <4>1. value.type # "Control" /\ value.type # "Bare"
        BY <1>4 DEF Bound
      <4> QED BY <1>4, <4>1 DEF Encoding
    <3> QED BY <3>1, Zenon DEF BuildVarOp
  <2>2. t \in Seq(Byte)
    <3>1. value.type \in BoundTypes
      BY <1>1, <1>4, Zenon DEF Bound, BoundTypes
    <3>2. value.type = "Oid" => Buildable(value.data)
      BY DEF Encodes, Bound
    <3>3. PICK tag \in Byte, b \in Seq(Byte) : t = BuildTlv(tag, b)
      BY <1>1, <3>1, <3>2, ValueIs, Zenon
    <3> QED BY <3>3, TlvTyped, Zenon
  <2>3. o \in Seq(Byte)
    <3>1. <<>> \in Seq(Byte)
      OBVIOUS
    <3> QED BY <1>3, <3>1, Zenon
  <2> HIDE DEF t, o, short
  <2>4. inner \in Seq(Byte) /\ size \in Nat
    <3>1. inner \in Seq(Byte)
      BY <2>2, <2>3, ConcatAt
    <3> HIDE DEF inner
    <3> QED BY <3>1
  <2> HIDE DEF inner
  <2>5. h \in Seq(Byte)
    <3> DEFINE a == (size \div 256) % 256
               b == size % 256
    <3> HIDE DEF size
    <3>1. a \in Byte /\ b \in Byte /\ 130 \in Byte
      BY <2>4, SMT DEF Byte
    <3>2. h = <<b>> \/ h = <<130, a, b>>
      OBVIOUS
    <3> HIDE DEF a, b, h
    <3>3. <<b>> \in Seq(Byte) /\ <<130, a, b>> \in Seq(Byte)
      BY <3>1
    <3> QED BY <3>2, <3>3, Zenon
  <2> HIDE DEF h
  <2>6. g \in Seq(Byte)
    <3>1. <<ASN_SEQUENCE>> \in Seq(Byte)
      BY <1>2, OneOf
    <3> QED BY <2>5, <3>1, ConcatAt
  <2> HIDE DEF g
  <2>7. g \o inner \in Seq(Byte)
    BY <2>4, <2>6, ConcatAt
  <2> QED BY <2>1, <2>7, Zenon
<1>5. CASE value.type = "Control"
  <2>1. ~Bound
    BY <1>5 DEF Bound
  <2>2. Encoding = BuildObjid(name) \o value.data
    BY <1>5, <2>1 DEF Encoding
  <2>3. Buildable(name)
    BY <1>5, <2>1 DEF Encodes
  <2>4. value.data \in Seq(Byte)
    <3>1. value.data \in [1..1 -> Byte]
      BY <1>1, <1>5 DEF Data
    <3> DEFINE m == 1
               w == value.data
    <3>2. m \in Nat /\ w \in [1..m -> Byte]
      BY <3>1
    <3> HIDE DEF m, w
    <3>3. w \in Seq(Byte)
      BY <3>2, FixedSeq
    <3> QED BY <3>3 DEF w
  <2> DEFINE o == BuildObjid(name)
             w == value.data
  <2>5. o \in Seq(Byte) /\ w \in Seq(Byte)
    BY <1>3, <2>3, <2>4
  <2> HIDE DEF o, w
  <2>6. o \o w \in Seq(Byte)
    BY <2>5, ConcatAt
  <2> QED BY <2>2, <2>6, Zenon DEF o, w
<1>6. CASE value.type = "Bare"
  <2>1. ~Bound
    BY <1>6 DEF Bound
  <2>2. Encoding = BuildObjid(name)
    BY <1>6, <2>1 DEF Encoding
  <2>3. Buildable(name)
    BY <1>6, <2>1 DEF Encodes
  <2> QED BY <1>3, <2>2, <2>3, Zenon
<1> QED BY <1>4, <1>5, <1>6 DEF Bound

\* What is in the file is the encoding of the setting at hand.
IInv ==
  /\ TypeOK
  /\ stage = "bytes" => Encodes /\ bytes = Encoding

\* A config file to begin with.
LEMMA InitInv == Init => IInv
<1> SUFFICES ASSUME Init PROVE IInv
  OBVIOUS
<1>1. object \in Objects /\ value \in Values /\ name = object.oid /\ stage = "config" /\ bytes = <<>> /\ history = <<>>
  BY Zenon DEF Init
<1>2. name \in Seq(0..MaxArc)
  BY <1>1, VarbindAssumption, Zenon
<1>3. Valued(value)
  BY <1>1, VarbindAssumption, Zenon DEF Valued
<1>4. <<>> \in Bytes /\ <<>> \in Seq(Bytes)
  BY DEF Bytes
<1>5. stage \in {"config", "bytes", "stopped"} /\ stage # "bytes"
  BY <1>1
<1> QED BY <1>1, <1>2, <1>3, <1>4, <1>5, Zenon DEF IInv, TypeOK, Valued

\* Every encoding and decoding keeps to it.
LEMMA StepInv == IInv /\ [Next]_vars => IInv'
<1> SUFFICES ASSUME IInv, [Next]_vars PROVE IInv'
  OBVIOUS
<1>1. /\ object \in Objects /\ name \in Seq(0..MaxArc) /\ Valued(value)
      /\ stage \in {"config", "bytes", "stopped"} /\ bytes \in Bytes /\ history \in Seq(Bytes)
      /\ TypeOK
  BY Zenon DEF IInv, TypeOK, Valued
<1>2. CASE Encode
  <2>1. /\ Encodes /\ bytes' = Encoding /\ history' = Append(history, bytes') /\ stage' = "bytes"
        /\ object' = object /\ name' = name /\ value' = value
    BY <1>2, Zenon DEF Encode
  <2>2. bytes' \in Bytes
    BY <1>1, <2>1, EncodingTyped, Zenon DEF Bytes
  <2>3. history' \in Seq(Bytes)
    <3> DEFINE b == bytes'
               t == history
    <3>1. b \in Bytes /\ t \in Seq(Bytes)
      BY <1>1, <2>2
    <3> HIDE DEF b, t
    <3>2. Append(t, b) \in Seq(Bytes)
      BY <3>1
    <3> QED BY <2>1, <3>2 DEF b, t
  <2>4. Encodes' /\ Encoding' = Encoding
    BY <2>1 DEF Encodes, Encoding, InSize, Bound
  <2>5. stage' \in {"config", "bytes", "stopped"}
    BY <2>1
  <2>6. TypeOK'
    BY <1>1, <2>1, <2>2, <2>3, <2>5, Zenon DEF TypeOK, Valued
  <2> QED BY <2>1, <2>4, <2>6, Zenon DEF IInv
<1>3. ASSUME Stop PROVE IInv'
  <2>1. stage' = "stopped" /\ UNCHANGED <<object, name, value, bytes, history>>
    BY <1>3, Zenon DEF Stop
  <2>2. stage' \in {"config", "bytes", "stopped"} /\ stage' # "bytes"
    BY <2>1
  <2> QED BY <1>1, <2>1, <2>2, Zenon DEF IInv, TypeOK, Valued
<1>4. CASE EncodeStops
  BY <1>3, <1>4, Zenon DEF EncodeStops
<1>5. CASE Decode
  <2>1. /\ \E d \in Decoded : name' = d.name /\ value' = d.value
        /\ stage' = "config" /\ object' = object /\ bytes' = bytes /\ history' = history
    BY <1>5, Zenon DEF Decode
  <2>2. PICK d \in Decoded : name' = d.name /\ value' = d.value
    BY <2>1, Zenon
  <2>3. d.name \in Seq(0..MaxArc) /\ Valued(d.value)
    BY <1>1, DecodedTyped, Zenon
  <2>4. stage' \in {"config", "bytes", "stopped"} /\ stage' # "bytes"
    BY <2>1
  <2> QED BY <1>1, <2>1, <2>2, <2>3, <2>4, Zenon DEF IInv, TypeOK, Valued
<1>6. CASE DecodeStops
  BY <1>3, <1>6, Zenon DEF DecodeStops
<1>7. CASE UNCHANGED vars
  <2>1. /\ object' = object /\ name' = name /\ value' = value /\ stage' = stage /\ bytes' = bytes
        /\ history' = history
    BY <1>7, Zenon DEF vars
  <2>2. Encodes' = Encodes /\ Encoding' = Encoding
    BY <2>1 DEF Encodes, Encoding, InSize, Bound
  <2> QED BY <1>1, <2>1, <2>2, Zenon DEF IInv, TypeOK, Valued
<1> QED BY <1>2, <1>4, <1>5, <1>6, <1>7, Zenon DEF Next

\* A setting holds what its type calls for, and the file holds bytes, through
\* every encoding and decoding (encode_vbind, decode_vbind, take_var_value).
THEOREM Typed == Spec => []TypeOK
<1>1. IInv => TypeOK
  BY DEF IInv
<1> QED BY InitInv, StepInv, <1>1, PTL DEF Spec

\* What Regular asks of the setting at hand.
LEMMA RegularIs ==
  ASSUME TypeOK, Regular
  PROVE  /\ name \in Seq(0..MaxArc) /\ Valued(value) /\ Proper(name) /\ (value.type = "Oid" => Proper(value.data))
         /\ Bound => CompactOf(name, value) /\ value.type \in BoundTypes
         /\ ~Bound => Small(ObjidBody(name)) /\ value.type \in {"Control", "Bare"}
<1>1. name \in Seq(0..MaxArc) /\ Valued(value)
  BY Zenon DEF TypeOK, Valued
<1>2. Proper(name) /\ (value.type = "Oid" => Proper(value.data)) /\ (Bound => Compact)
  BY SMT DEF Regular
<1>3. ~Bound => Small(ObjidBody(name))
  BY SMT DEF Regular, Small
<1>4. Compact => CompactOf(name, value)
  BY SMT DEF Compact, CompactOf
<1>5. (Bound => value.type \in BoundTypes) /\ (~Bound => value.type \in {"Control", "Bare"})
  BY <1>1 DEF Bound, BoundTypes, Valued
<1> QED BY <1>1, <1>2, <1>3, <1>4, <1>5, Zenon

\* The binding in the file.
LEMMA BindingIs ==
  ASSUME IInv, stage = "bytes", Bound, Regular
  PROVE  \E tag \in Byte, b \in Seq(Byte) : Reads(tag, b, value) /\ Framed(bytes, name, tag, b)
<1>1. TypeOK /\ Encodes /\ bytes = BuildVarOp(name, ValueTlv(value), ShortHeader(name, value))
  <2>1. value.type # "Control" /\ value.type # "Bare"
    BY DEF Bound
  <2>2. Encoding = BuildVarOp(name, ValueTlv(value), ShortHeader(name, value))
    BY <2>1 DEF Encoding
  <2> QED BY <2>2, Zenon DEF IInv
<1>2. /\ name \in Seq(0..MaxArc) /\ Valued(value) /\ Proper(name)
      /\ CompactOf(name, value) /\ value.type \in BoundTypes
  BY <1>1, RegularIs, Zenon
<1>3. value.type = "Oid" => Buildable(value.data)
  BY <1>1 DEF Encodes, Bound
<1>4. value.data \in Data(value.type)
  BY <1>2, Zenon DEF Valued
<1> QED BY <1>1, <1>2, <1>3, <1>4, BindingBack, Zenon

\* The frames of a binding, by the binding in the file.
LEMMA ExactNow == IInv => FramesExact
<1> SUFFICES ASSUME IInv, stage = "bytes", Bound, Regular
             PROVE  \E q \in ParseTlv(bytes) :
                      /\ Exact(q, bytes)
                      /\ \E n \in ParseTlv(q.value) :
                           \E v \in ParseTlv(SubSeq(q.value, n.size + 1, Len(q.value))) :
                             Exact(v, SubSeq(q.value, n.size + 1, Len(q.value))) /\ Shortest(v)
  BY Zenon DEF FramesExact
<1>1. PICK tag \in Byte, b \in Seq(Byte) : Reads(tag, b, value) /\ Framed(bytes, name, tag, b)
  BY BindingIs, Zenon
<1>2. PICK inner \in Seq(Byte), behind \in Seq(Byte) :
        /\ ParseTlv(bytes) = {[tag |-> ASN_SEQUENCE, value |-> inner, size |-> Len(bytes)]}
        /\ ParseTlv(inner) = {[tag |-> ASN_OBJECT_ID, value |-> ObjidBody(name), size |-> Len(BuildObjid(name))]}
        /\ SubSeq(inner, Len(BuildObjid(name)) + 1, Len(inner)) = behind
        /\ ParseTlv(behind) = {[tag |-> tag, value |-> b, size |-> Len(behind)]}
  BY <1>1, Zenon DEF Framed
<1> DEFINE q == [tag |-> ASN_SEQUENCE, value |-> inner, size |-> Len(bytes)]
           n == [tag |-> ASN_OBJECT_ID, value |-> ObjidBody(name), size |-> Len(BuildObjid(name))]
           v == [tag |-> tag, value |-> b, size |-> Len(behind)]
<1>3. q.value = inner /\ q.size = Len(bytes) /\ n.size = Len(BuildObjid(name))
  OBVIOUS
<1>4. v.tag = tag /\ v.value = b /\ v.size = Len(behind)
  OBVIOUS
<1>5. ParseTlv(bytes) = {q} /\ ParseTlv(inner) = {n} /\ ParseTlv(behind) = {v}
  BY <1>2, Zenon
<1>6. SubSeq(q.value, n.size + 1, Len(q.value)) = behind
  BY <1>2, <1>3, Zenon
<1>7. Shortest(v)
  <2>1. tag = ASN_INTEGER => (Len(b) > 1 => ~Redundant(b[1], b[2]))
    BY <1>1 DEF Reads, ASN_INTEGER, ASN_GAUGE, ASN_COUNTER, ASN_TIMETICKS, ASN_IPADDRESS, ASN_OCTET_STR, ASN_OBJECT_ID
  <2> HIDE DEF v
  <2> QED BY <1>4, <2>1, Zenon DEF Shortest
<1> HIDE DEF q, n, v
<1>8. q \in ParseTlv(bytes) /\ n \in ParseTlv(q.value) /\ v \in ParseTlv(behind)
  BY <1>3, <1>5, Zenon
<1>9. Exact(q, bytes) /\ Exact(v, behind)
  BY <1>3, <1>4, Zenon DEF Exact
<1> QED BY <1>6, <1>7, <1>8, <1>9, Zenon

\* Every length byte that encode_vbind writes states exactly what is behind it,
\* whatever the width of the numbers and arcs and the length of the string, and an
\* integer takes the fewest bytes (build_length, build_int, encode_subid).
THEOREM Framing == Spec => []FramesExact
<1> QED BY InitInv, StepInv, ExactNow, PTL DEF Spec

\* The setting read back, by the binding or the identifier in the file.
LEMMA SurvivesNow == IInv => SettingSurvives
<1> SUFFICES ASSUME IInv, stage = "bytes", Regular, Bound => object.hint \in {"none", "decimal"}
             PROVE  Decoded = {[name |-> name, value |-> value]}
                      <=> (value.type = "Str" => Legible(value.data))
  BY Zenon DEF SettingSurvives
<1>1. /\ TypeOK /\ Encodes /\ bytes = Encoding
  BY Zenon DEF IInv
<1>2. /\ name \in Seq(0..MaxArc) /\ Valued(value) /\ Proper(name) /\ (value.type = "Oid" => Proper(value.data))
      /\ Bound => CompactOf(name, value) /\ value.type \in BoundTypes
      /\ ~Bound => Small(ObjidBody(name)) /\ value.type \in {"Control", "Bare"}
  BY <1>1, RegularIs, Zenon
<1>3. value = [type |-> value.type, data |-> value.data] /\ value.data \in Data(value.type)
  BY <1>2, Zenon DEF Valued
<1>4. CASE Bound
  <2>1. PICK tag \in Byte, b \in Seq(Byte) : Reads(tag, b, value) /\ Framed(bytes, name, tag, b)
    BY <1>4, BindingIs, Zenon
  <2> DEFINE vb == [name |-> name, tag |-> tag, value |-> b]
  <2>2. ParseVarOp(bytes) = {vb}
    BY <1>2, <2>1, VarOpBack, Zenon
  <2>3. Shown(vb) = {value} <=> (value.type = "Str" => Legible(value.data))
    <3>1. CASE value.type = "Str"
      <4>1. tag = ASN_OCTET_STR /\ b = value.data
        BY <2>1, <3>1 DEF Reads
      <4>2. value = [type |-> "Str", data |-> b]
        BY <1>3, <3>1, <4>1, Zenon
      <4>3. Shown(vb) = {[type |-> "Str", data |-> b]} <=> Legible(b)
        BY <4>1, ShownString, Zenon
      <4> QED BY <3>1, <4>1, <4>2, <4>3, Zenon
    <3>2. CASE value.type # "Str"
      <4>1. Shown(vb) = {value}
        BY <1>2, <1>3, <1>4, <2>1, <3>2, ShownBack, Zenon
      <4> QED BY <3>2, <4>1
    <3> QED BY <3>1, <3>2
  <2>4. vb.name = name
    OBVIOUS
  <2>5. value.type # "Control" /\ value.type # "Bare"
    BY <1>4 DEF Bound
  <2> HIDE DEF vb
  <2>6. Decoded = UNION {{[name |-> x.name, value |-> v] : v \in Shown(x)} : x \in ParseVarOp(bytes)}
    BY <1>4, <2>5 DEF Decoded
  <2> DEFINE W(x) == {[name |-> x.name, value |-> v] : v \in Shown(x)}
  <2>7. W(vb) = {[name |-> name, value |-> value]} <=> Shown(vb) = {value}
    <3> DEFINE As(v) == [name |-> name, value |-> v]
    <3>1. \A v : As(v).value = v
      OBVIOUS
    <3>2. W(vb) = {As(v) : v \in Shown(vb)}
      BY <2>4
    <3> DEFINE R == Shown(vb)
               x == value
    <3> HIDE DEF As, W, R, x
    <3>3. \A u, v : As(u) = As(v) => u = v
      <4> SUFFICES ASSUME NEW u, NEW v, As(u) = As(v) PROVE u = v
        OBVIOUS
      <4>1. As(u).value = u /\ As(v).value = v
        BY <3>1, Zenon
      <4> QED BY <4>1, Zenon
    <3>4. {As(v) : v \in R} = {As(x)} <=> R = {x}
      <4>1. ASSUME {As(v) : v \in R} = {As(x)} PROVE R = {x}
        <5>1. \A v \in R : As(v) = As(x)
          BY <4>1
        <5>2. As(x) \in {As(v) : v \in R}
          BY <4>1
        <5>3. (\A v \in R : v = x) /\ x \in R
          BY <3>3, <5>1, <5>2, Zenon
        <5> QED BY <5>3
      <4> QED BY <4>1
    <3> QED BY <3>2, <3>4, Zenon DEF As, R, x
  <2> HIDE DEF W
  <2>8. UNION {W(x) : x \in ParseVarOp(bytes)} = W(vb)
    BY <2>2
  <2>9. Decoded = W(vb)
    BY <2>6, <2>8 DEF W
  <2> QED BY <2>3, <2>7, <2>9
<1>5. CASE ~Bound
  <2> DEFINE o == BuildObjid(name)
  <2>1. o \in Seq(Byte) /\ ParseObjid(o) = {name}
    BY <1>2, <1>5, LoneBack, Zenon
  <2> HIDE DEF o
  <2> SUFFICES Decoded = {[name |-> name, value |-> value]}
    <3>1. value.type # "Str"
      BY <1>2, <1>5
    <3> QED BY <3>1
  <2>2. CASE value.type = "Control"
    <3> DEFINE w == value.data
    <3>1. w \in [1..1 -> Byte]
      BY <1>3, <2>2 DEF Data
    <3>2. bytes = o \o w
      BY <1>1, <1>5, <2>2, Zenon DEF Encoding, o
    <3> HIDE DEF w
    <3>3. PICK c \in Byte : w = <<c>>
      <4>1. w = <<w[1]>> /\ w[1] \in Byte
        BY <3>1
      <4> QED BY <4>1, Zenon
    <3>4. Front(bytes) = o /\ Last(bytes) = c
      <4>1. <<c>> \in Seq(Byte) /\ Len(<<c>>) = 1 /\ <<c>>[1] = c
        BY OneOf
      <4> DEFINE u == <<c>>
      <4>2. u \in Seq(Byte) /\ Len(u) = 1 /\ u[1] = c /\ bytes = o \o u
        BY <3>2, <3>3, <4>1, Zenon
      <4> HIDE DEF u
      <4> DEFINE d == bytes
                 z == Len(o)
      <4>3. d = o \o u
        BY <4>2
      <4> HIDE DEF d
      <4>4. u \in Seq(Byte)
        BY <4>2
      <4>5. /\ d \in Seq(Byte) /\ Len(d) = z + Len(u)
            /\ (\A i \in 1..z : d[i] = o[i]) /\ \A i \in 1..Len(u) : d[z + i] = u[i]
        BY <2>1, <4>3, <4>4, JoinAt
      <4>6. z \in Nat
        BY <2>1
      <4>7. Len(d) = z + 1 /\ d[z + 1] = c
        <5>1. 1 \in 1..1
          OBVIOUS
        <5> HIDE DEF z
        <5> QED BY <4>2, <4>5, <5>1, Zenon
      <4>8. SubSeq(d, 1, z) = o
        <5>1. 0 \in Nat /\ z = 0 + Len(o) /\ z <= Len(d) /\ 0 + 1 = 1 /\ \A i \in 1..Len(o) : d[0 + i] = o[i]
          BY <4>5, <4>6, <4>7
        <5>2. SubSeq(d, 0 + 1, z) = o
          BY <2>1, <4>5, <4>6, <5>1, PartIs
        <5> QED BY <5>1, <5>2
      <4>9. Len(d) - 1 = z
        BY <4>6, <4>7
      <4> QED BY <4>7, <4>8, <4>9, Zenon DEF Front, Last, d
    <3>5. Decoded = {[name |-> x, value |-> [type |-> "Control", data |-> <<Last(bytes)>>]] : x \in ParseObjid(Front(bytes))}
      BY <1>5, <2>2 DEF Decoded
    <3>6. [type |-> "Control", data |-> <<Last(bytes)>>] = value
      BY <1>3, <2>2, <3>3, <3>4, Zenon DEF w
    <3>7. Decoded = {[name |-> x, value |-> value] : x \in {name}}
      BY <2>1, <3>4, <3>5, <3>6
    <3> QED BY <3>7
  <2>3. CASE value.type = "Bare"
    <3>1. bytes = o
      BY <1>1, <1>5, <2>3 DEF Encoding, o
    <3>2. Decoded = {[name |-> x, value |-> value] : x \in ParseObjid(bytes)}
      BY <1>5, <2>3 DEF Decoded
    <3>3. ParseObjid(bytes) = {name}
      BY <2>1, <3>1, Zenon
    <3> QED BY <3>2, <3>3
  <2> QED BY <1>2, <1>5, <2>2, <2>3
<1> QED BY <1>4, <1>5

\* A setting that is encoded is decoded as the setting it was: the same identifier,
\* the same type and the same value, for every width and sign of a number, every
\* address and arc, and of the strings for exactly those that stand between quotes
\* as they are or in no quotes at all (encode_vbind and build_var_op against
\* decode_vbind, parse_var_op, take_var_value and scan_string), unless a display
\* hint changes how it is printed.
THEOREM Survival == Spec => []SettingSurvives
<1> QED BY InitInv, StepInv, SurvivesNow, PTL DEF Spec
==============================================================================
