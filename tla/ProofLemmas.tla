----------------------------- MODULE ProofLemmas -----------------------------
(***************************************************************************)
(* Facts about numbers and sequences that the proofs about more than one   *)
(* component need.                                                         *)
(***************************************************************************)
EXTENDS Wire, TLAPS, SequenceTheorems, WellFoundedInduction

\* A set of numbers that is not empty has a least one.
LEMMA LeastNat ==
  ASSUME NEW T, T \subseteq Nat, T # {}
  PROVE  \E x \in T : \A y \in T : x <= y
<1> DEFINE R == OpToRel(<, Nat)
<1>1. IsWellFoundedOn(R, Nat)
  BY NatLessThanWellFounded
<1>2. \A x, y \in Nat : y < x => <<y, x>> \in R
  BY DEF OpToRel
<1> HIDE DEF R
<1>3. PICK x \in T : \A y \in T : ~ (<<y, x>> \in R)
  <2>1. \E x \in T : \A y \in T : ~ (<<y, x>> \in R)
    BY <1>1, WFMin, Zenon
  <2> QED BY <2>1
<1>4. \A y \in T : ~ (y < x)
  BY <1>2, <1>3
<1>5. \A y \in T : x <= y
  BY <1>3, <1>4
<1> QED BY <1>3, <1>5

\* What holds of 0 and is handed on holds up to n.
LEMMA UpTo ==
  ASSUME NEW n \in Nat, NEW T, 0 \in T, \A i \in 1..n : i - 1 \in T => i \in T
  PROVE  \A i \in 0..n : i \in T
<1> DEFINE U == {i \in 0..n : i \notin T}
<1>1. SUFFICES ASSUME U # {} PROVE FALSE
  OBVIOUS
<1>2. PICK k \in U : \A y \in U : k <= y
  <2>1. U \subseteq Nat
    OBVIOUS
  <2> HIDE DEF U
  <2> QED BY <1>1, <2>1, LeastNat
<1>3. k \in 0..n /\ k \notin T
  OBVIOUS
<1>4. k \in 1..n /\ k - 1 \in 0..n /\ ~(k <= k - 1)
  BY <1>3
<1>5. k - 1 \in T
  BY <1>2, <1>4
<1> QED BY <1>3, <1>4, <1>5

-----------------------------------------------------------------------------
(* Sequences one behind the other, and parts of one.                       *)

\* What stands where in a concatenation.
LEMMA ConcatAt ==
  ASSUME NEW S, NEW s \in Seq(S), NEW t \in Seq(S)
  PROVE  /\ s \o t \in Seq(S) /\ Len(s \o t) = Len(s) + Len(t)
         /\ \A i \in 1..Len(s) : (s \o t)[i] = s[i]
         /\ \A i \in 1..Len(t) : (s \o t)[Len(s) + i] = t[i]
  OBVIOUS

\* A function on 1..n is a sequence.
LEMMA FixedSeq ==
  ASSUME NEW S, NEW n \in Nat, NEW a \in [1..n -> S]
  PROVE  a \in Seq(S) /\ Len(a) = n /\ DOMAIN a = 1..n
  OBVIOUS

\* What stands where in the beginning of a sequence.
LEMMA FirstOf ==
  ASSUME NEW S, NEW s \in Seq(S), NEW n \in Nat, n <= Len(s)
  PROVE  /\ SubSeq(s, 1, n) \in Seq(S) /\ Len(SubSeq(s, 1, n)) = n
         /\ \A i \in 1..n : SubSeq(s, 1, n)[i] = s[i]
  OBVIOUS

-----------------------------------------------------------------------------
(* Sequences whose elements are of no one set.                             *)

IsSeq(s) == s \in Seq({s[j] : j \in DOMAIN s})

\* Whatever set the elements are from.
LEMMA SomeSeq ==
  ASSUME NEW S, NEW s \in Seq(S)
  PROVE  IsSeq(s) /\ Len(s) \in Nat /\ DOMAIN s = 1..Len(s)
  BY DEF IsSeq

\* One more element at the end.
LEMMA AppendAt ==
  ASSUME NEW s, IsSeq(s), NEW e
  PROVE  /\ IsSeq(Append(s, e)) /\ Len(s) \in Nat
         /\ DOMAIN Append(s, e) = 1..(Len(s) + 1) /\ DOMAIN s = 1..Len(s)
         /\ Append(s, e)[Len(s) + 1] = e
         /\ \A j \in 1..Len(s) : Append(s, e)[j] = s[j]
<1> DEFINE S == {s[j] : j \in DOMAIN s} \cup {e}
           t == Append(s, e)
<1>1. s \in Seq(S) /\ e \in S
  BY DEF IsSeq
<1> HIDE DEF S
<1>2. t \in Seq(S) /\ Len(t) = Len(s) + 1 /\ t[Len(s) + 1] = e /\ \A j \in 1..Len(s) : t[j] = s[j]
  BY <1>1
<1> HIDE DEF t
<1>3. IsSeq(t) /\ DOMAIN t = 1..(Len(s) + 1) /\ Len(s) \in Nat /\ DOMAIN s = 1..Len(s)
  BY <1>1, <1>2, SomeSeq
<1> QED BY <1>2, <1>3 DEF t

\* One more element in front.
LEMMA ConsAt ==
  ASSUME NEW s, IsSeq(s), NEW e
  PROVE  /\ IsSeq(<<e>> \o s) /\ Len(s) \in Nat /\ Len(<<e>> \o s) = Len(s) + 1
         /\ DOMAIN (<<e>> \o s) = 1..(Len(s) + 1) /\ DOMAIN s = 1..Len(s)
         /\ (<<e>> \o s)[1] = e
         /\ \A j \in 1..Len(s) : (<<e>> \o s)[j + 1] = s[j]
<1> DEFINE S == {s[j] : j \in DOMAIN s} \cup {e}
           t == <<e>> \o s
<1>1. s \in Seq(S) /\ <<e>> \in Seq(S) /\ Len(<<e>>) = 1 /\ <<e>>[1] = e
  BY DEF IsSeq
<1> HIDE DEF S
<1>2. t \in Seq(S) /\ Len(t) = Len(s) + 1 /\ t[1] = e /\ \A j \in 1..Len(s) : t[j + 1] = s[j]
  BY <1>1
<1> HIDE DEF t
<1>3. IsSeq(t) /\ DOMAIN t = 1..(Len(s) + 1) /\ Len(s) \in Nat /\ DOMAIN s = 1..Len(s)
  BY <1>1, <1>2, SomeSeq
<1> QED BY <1>2, <1>3 DEF t

\* All but the first element.
LEMMA TailAt ==
  ASSUME NEW s, IsSeq(s), s # <<>>
  PROVE  /\ IsSeq(Tail(s)) /\ Len(s) \in Nat \ {0} /\ Len(Tail(s)) = Len(s) - 1
         /\ Head(s) = s[1] /\ DOMAIN Tail(s) = 1..(Len(s) - 1) /\ DOMAIN s = 1..Len(s)
         /\ \A j \in 1..(Len(s) - 1) : Tail(s)[j] = s[j + 1]
<1> DEFINE S == {s[j] : j \in DOMAIN s}
<1>1. s \in Seq(S)
  BY DEF IsSeq
<1> HIDE DEF S
<1>2. Tail(s) \in Seq(S) /\ Len(Tail(s)) = Len(s) - 1 /\ Len(s) \in Nat \ {0} /\ Head(s) = s[1]
      /\ \A j \in 1..(Len(s) - 1) : Tail(s)[j] = s[j + 1]
  BY <1>1
<1> QED BY <1>1, <1>2, SomeSeq

-----------------------------------------------------------------------------
(* FlattenSeq, by its partial results.                                     *)

\* f lists the concatenations of the first i sequences of s.
Partial(f, s, n) == f = [i \in 1..n |-> IF i = 1 THEN s[i] ELSE f[i - 1] \o s[i]]

\* There are such lists, of every length.
LEMMA PartialExists ==
  ASSUME NEW s, NEW n \in Nat
  PROVE  \E f : Partial(f, s, n)
<1> DEFINE T == {k \in 0..n : ~ \E f : Partial(f, s, k)}
<1>1. SUFFICES ASSUME T # {} PROVE FALSE
  OBVIOUS
<1>2. PICK k \in T : \A y \in T : k <= y
  <2>1. T \subseteq Nat
    OBVIOUS
  <2> HIDE DEF T
  <2> QED BY <1>1, <2>1, LeastNat
<1>3. k \in 0..n /\ ~ \E f : Partial(f, s, k)
  OBVIOUS
<1>4. CASE k = 0
  <2>1. Partial([i \in 1..0 |-> s], s, 0)
    BY DEF Partial
  <2> QED BY <1>3, <1>4, <2>1
<1>5. CASE k # 0
  <2>1. k - 1 \in 0..n /\ ~ (k <= k - 1) /\ k \in Nat
    BY <1>3, <1>5
  <2>2. PICK f : Partial(f, s, k - 1)
    BY <1>2, <2>1
  <2> DEFINE e == IF k = 1 THEN s[k] ELSE f[k - 1] \o s[k]
             g == [i \in 1..k |-> IF i = k THEN e ELSE f[i]]
  <2>3. \A i \in 1..(k - 1) : f[i] = IF i = 1 THEN s[i] ELSE f[i - 1] \o s[i]
    BY <2>2 DEF Partial
  <2>4. \A i \in 1..k : g[i] = IF i = 1 THEN s[i] ELSE g[i - 1] \o s[i]
    <3> SUFFICES ASSUME NEW i \in 1..k
                 PROVE  g[i] = IF i = 1 THEN s[i] ELSE g[i - 1] \o s[i]
      OBVIOUS
    <3>1. i # 1 => g[i - 1] = f[i - 1]
      <4>1. i # 1 => i - 1 \in 1..k /\ i - 1 # k
        BY <2>1
      <4> HIDE DEF e
      <4> QED BY <4>1
    <3>2. CASE i = k
      BY <3>1, <3>2
    <3>3. CASE i # k
      <4>1. i \in 1..(k - 1) /\ g[i] = f[i]
        BY <2>1, <3>3
      <4> HIDE DEF g
      <4> QED BY <2>3, <3>1, <4>1
    <3> QED BY <3>2, <3>3
  <2>5. g = [i \in 1..k |-> g[i]]
    OBVIOUS
  <2> HIDE DEF g
  <2>6. Partial(g, s, k)
    BY <2>4, <2>5 DEF Partial
  <2> QED BY <1>3, <2>6
<1> QED BY <1>4, <1>5

\* FlattenSeq is the last of them.
LEMMA FlattenPartial ==
  ASSUME NEW s, Len(s) \in Nat, Len(s) # 0
  PROVE  \E f : Partial(f, s, Len(s)) /\ FlattenSeq(s) = f[Len(s)]
<1> DEFINE n == Len(s)
           f == CHOOSE f : f = [i \in 1..n |-> IF i = 1 THEN s[i] ELSE f[i - 1] \o s[i]]
<1>1. \E g : g = [i \in 1..n |-> IF i = 1 THEN s[i] ELSE g[i - 1] \o s[i]]
  BY PartialExists DEF Partial
<1>2. Partial(f, s, n)
  BY <1>1 DEF Partial
<1>3. FlattenSeq(s) = f[n]
  BY DEF FlattenSeq
<1> QED BY <1>2, <1>3

\* Lists of the same length, or longer, agree on what they share.
LEMMA PartialAgree ==
  \A s, t, f, g : \A m, n \in Nat :
    m <= n /\ (\A i \in 1..m : s[i] = t[i]) /\ Partial(f, s, m) /\ Partial(g, t, n)
      => \A i \in 1..m : f[i] = g[i]
<1> SUFFICES ASSUME NEW s, NEW t, NEW f, NEW g, NEW m \in Nat, NEW n \in Nat, m <= n,
                    \A i \in 1..m : s[i] = t[i], Partial(f, s, m), Partial(g, t, n)
             PROVE  \A i \in 1..m : f[i] = g[i]
  OBVIOUS
<1> DEFINE T == {i \in 1..m : f[i] # g[i]}
<1>1. SUFFICES ASSUME T # {} PROVE FALSE
  OBVIOUS
<1>2. PICK i \in T : \A y \in T : i <= y
  <2>1. T \subseteq Nat
    OBVIOUS
  <2> HIDE DEF T
  <2> QED BY <1>1, <2>1, LeastNat
<1>3. i \in 1..m /\ f[i] # g[i] /\ i \in 1..n
  OBVIOUS
<1>4. /\ f[i] = IF i = 1 THEN s[i] ELSE f[i - 1] \o s[i]
      /\ g[i] = IF i = 1 THEN t[i] ELSE g[i - 1] \o t[i]
  BY <1>3 DEF Partial
<1>5. i # 1 => f[i - 1] = g[i - 1]
  <2>1. i # 1 => i - 1 \in 1..m /\ ~(i <= i - 1)
    BY <1>3
  <2> QED BY <1>2, <2>1
<1> QED BY <1>3, <1>4, <1>5

\* The concatenation of sequences over S is one.
LEMMA FlattenTypedSeq ==
  ASSUME NEW S, NEW s \in Seq(Seq(S))
  PROVE  FlattenSeq(s) \in Seq(S)
<1> DEFINE n == Len(s)
<1>1. n \in Nat /\ \A i \in 1..n : s[i] \in Seq(S)
  OBVIOUS
<1>2. CASE n = 0
  <2>1. FlattenSeq(s) = s /\ s = <<>>
    BY <1>2 DEF FlattenSeq
  <2> QED BY <2>1
<1>3. CASE n # 0
  <2>1. PICK f : Partial(f, s, n) /\ FlattenSeq(s) = f[n]
    BY <1>1, <1>3, FlattenPartial
  <2> HIDE DEF n
  <2>2. \A i \in 1..n : f[i] = IF i = 1 THEN s[i] ELSE f[i - 1] \o s[i]
    BY <2>1 DEF Partial
  <2> DEFINE T == {i \in 1..n : f[i] \notin Seq(S)}
  <2>3. T = {}
    <3>1. SUFFICES ASSUME T # {} PROVE FALSE
      OBVIOUS
    <3>2. PICK i \in T : \A y \in T : i <= y
      <4>1. T \subseteq Nat
        OBVIOUS
      <4> HIDE DEF T
      <4> QED BY <3>1, <4>1, LeastNat
    <3>3. i \in 1..n /\ f[i] \notin Seq(S) /\ s[i] \in Seq(S)
      BY <1>1
    <3>4. i # 1
      BY <2>2, <3>3
    <3>5. f[i - 1] \in Seq(S)
      <4>1. i - 1 \in 1..n /\ ~(i <= i - 1)
        BY <1>1, <3>3, <3>4
      <4> QED BY <3>2, <4>1
    <3>6. f[i - 1] \o s[i] \in Seq(S)
      BY <3>3, <3>5
    <3> QED BY <2>2, <3>3, <3>4, <3>6
  <2> QED BY <1>1, <1>3, <2>1, <2>3
<1> QED BY <1>2, <1>3

\* One sequence more is concatenated behind the others.
LEMMA FlattenAppend ==
  ASSUME NEW S, NEW s \in Seq(Seq(S)), NEW e \in Seq(S)
  PROVE  FlattenSeq(Append(s, e)) = FlattenSeq(s) \o e
<1> DEFINE n == Len(s)
           t == Append(s, e)
<1>1. n \in Nat /\ Len(t) = n + 1 /\ t[n + 1] = e /\ \A i \in 1..n : t[i] = s[i]
  OBVIOUS
<1> HIDE DEF t
<1>2. PICK g : Partial(g, t, n + 1) /\ FlattenSeq(t) = g[n + 1]
  BY <1>1, FlattenPartial
<1>3. g[n + 1] = IF n + 1 = 1 THEN t[n + 1] ELSE g[(n + 1) - 1] \o t[n + 1]
  <2> HIDE DEF n
  <2>1. n + 1 \in 1..(n + 1)
    BY <1>1
  <2> QED BY <1>2, <2>1 DEF Partial
<1>4. CASE n = 0
  <2>1. FlattenSeq(s) = <<>>
    BY <1>4 DEF FlattenSeq
  <2>2. FlattenSeq(t) = e
    BY <1>1, <1>2, <1>3, <1>4
  <2> QED BY <2>1, <2>2 DEF t
<1>5. CASE n # 0
  <2>1. PICK f : Partial(f, s, n) /\ FlattenSeq(s) = f[n]
    BY <1>1, <1>5, FlattenPartial
  <2> HIDE DEF n
  <2>2. n <= n + 1 /\ n + 1 \in Nat /\ \A i \in 1..n : s[i] = t[i]
    BY <1>1
  <2>3. \A i \in 1..n : f[i] = g[i]
    <3>1. Partial(f, s, n) /\ Partial(g, t, n + 1)
      BY <1>2, <2>1
    <3>2. n \in Nat /\ n + 1 \in Nat
      BY <1>1, <2>2
    <3>3. n <= n + 1 /\ (\A i \in 1..n : s[i] = t[i]) /\ Partial(f, s, n) /\ Partial(g, t, n + 1)
      BY <2>2, <3>1
    <3> QED BY <3>2, <3>3, PartialAgree
  <2>4. n \in 1..n /\ (n + 1) - 1 = n /\ n + 1 # 1
    BY <1>1, <1>5
  <2>5. FlattenSeq(t) = g[n] \o e
    BY <1>1, <1>2, <1>3, <2>4
  <2> QED BY <2>1, <2>3, <2>4, <2>5 DEF t
<1> QED BY <1>4, <1>5

\* One sequence more is concatenated in front of the others.
LEMMA FlattenCons ==
  ASSUME NEW S, NEW s \in Seq(Seq(S)), NEW e \in Seq(S)
  PROVE  FlattenSeq(<<e>> \o s) = e \o FlattenSeq(s)
<1> DEFINE n == Len(s)
           t == <<e>> \o s
<1>1. n \in Nat /\ t \in Seq(Seq(S)) /\ Len(t) = n + 1 /\ t[1] = e /\ \A i \in 1..n : t[i + 1] = s[i]
  OBVIOUS
<1> HIDE DEF t
<1>2. PICK g : Partial(g, t, n + 1) /\ FlattenSeq(t) = g[n + 1]
  BY <1>1, FlattenPartial
<1>3. \A i \in 1..(n + 1) : g[i] = IF i = 1 THEN t[i] ELSE g[i - 1] \o t[i]
  BY <1>2 DEF Partial
<1>6. \A a \in Seq(S) : \A b \in Seq(S) : (e \o a) \o b = e \o (a \o b)
  BY ConcatAssociative
<1>4. CASE n = 0
  <2>1. FlattenSeq(s) = <<>>
    BY <1>4 DEF FlattenSeq
  <2>2. FlattenSeq(t) = e
    BY <1>1, <1>2, <1>3, <1>4
  <2> QED BY <2>1, <2>2 DEF t
<1>5. CASE n # 0
  <2>1. PICK f : Partial(f, s, n) /\ FlattenSeq(s) = f[n]
    BY <1>1, <1>5, FlattenPartial
  <2>2. \A i \in 1..n : f[i] = IF i = 1 THEN s[i] ELSE f[i - 1] \o s[i]
    BY <2>1 DEF Partial
  <2>3. \A i \in 1..n : s[i] \in Seq(S)
    OBVIOUS
  <2> HIDE DEF n
  <2> DEFINE T == {i \in 1..n : ~(f[i] \in Seq(S) /\ g[i + 1] = e \o f[i])}
  <2>4. T = {}
    <3>1. SUFFICES ASSUME T # {} PROVE FALSE
      OBVIOUS
    <3>2. PICK i \in T : \A y \in T : i <= y
      <4>1. T \subseteq Nat
        OBVIOUS
      <4> HIDE DEF T
      <4> QED BY <3>1, <4>1, LeastNat
    <3>3. i \in 1..n /\ ~(f[i] \in Seq(S) /\ g[i + 1] = e \o f[i]) /\ s[i] \in Seq(S)
      BY <2>3
    <3>4. g[i + 1] = g[i] \o s[i]
      <4>1. i + 1 \in 1..(n + 1) /\ i + 1 # 1 /\ (i + 1) - 1 = i
        BY <1>1, <3>3
      <4> QED BY <1>1, <1>3, <3>3, <4>1
    <3>5. CASE i = 1
      <4>1. f[1] = s[1] /\ g[1] = e
        <5>1. 1 \in 1..n /\ 1 \in 1..(n + 1)
          BY <1>1, <3>3, <3>5
        <5> QED BY <1>1, <1>3, <2>2, <5>1
      <4> QED BY <3>3, <3>4, <3>5, <4>1
    <3>6. CASE i # 1
      <4>1. i - 1 \in 1..n /\ ~(i <= i - 1) /\ (i - 1) + 1 = i
        BY <1>1, <3>3, <3>6
      <4>2. f[i - 1] \in Seq(S) /\ g[(i - 1) + 1] = e \o f[i - 1]
        BY <3>2, <4>1
      <4>3. f[i] = f[i - 1] \o s[i]
        BY <2>2, <3>3, <3>6
      <4>4. g[i] = e \o f[i - 1]
        BY <4>1, <4>2
      <4> DEFINE h == f[i - 1]
      <4>5. h \in Seq(S) /\ f[i] = h \o s[i] /\ g[i + 1] = (e \o h) \o s[i]
        BY <3>4, <4>2, <4>3, <4>4
      <4> HIDE DEF h
      <4>6. s[i] \in Seq(S)
        BY <3>3
      <4>7. (e \o h) \o s[i] = e \o (h \o s[i])
        BY <1>6, <4>5, <4>6
      <4>8. h \o s[i] \in Seq(S)
        BY <4>5, <4>6
      <4> QED BY <3>3, <4>5, <4>7, <4>8
    <3> QED BY <3>5, <3>6
  <2>5. n \in 1..n
    BY <1>1, <1>5
  <2> QED BY <1>2, <2>1, <2>4, <2>5 DEF t
<1> QED BY <1>4, <1>5

\* A family over 1..n+1 is the one over 1..n with its last member behind it.
LEMMA FamilyNext ==
  ASSUME NEW S, NEW n \in Nat, NEW F, F \in [1..(n + 1) -> Seq(S)]
  PROVE  /\ FlattenSeq([i \in 1..n |-> F[i]]) \in Seq(S)
         /\ FlattenSeq(F) = FlattenSeq([i \in 1..n |-> F[i]]) \o F[n + 1]
<1> DEFINE s == [i \in 1..n |-> F[i]]
<1>1. s \in Seq(Seq(S)) /\ F[n + 1] \in Seq(S) /\ Len(s) = n
  <2>1. \A i \in 1..n : F[i] \in Seq(S)
    OBVIOUS
  <2>2. s \in [1..n -> Seq(S)]
    BY <2>1
  <2> QED BY <2>2
<1>2. F = Append(s, F[n + 1])
  <2>1. F \in Seq(Seq(S)) /\ Len(F) = n + 1
    OBVIOUS
  <2> QED BY <1>1, <2>1
<1>3. FlattenSeq(Append(s, F[n + 1])) = FlattenSeq(s) \o F[n + 1]
  BY <1>1, FlattenAppend
<1> QED BY <1>1, <1>2, <1>3, FlattenTypedSeq

-----------------------------------------------------------------------------
(* Sequences of parts that have one length.                                *)

\* Multiples of n, one after the other.
LEMMA Multiples ==
  ASSUME NEW n \in Nat \ {0}, NEW i \in Nat
  PROVE  /\ n * i \in Nat /\ n * (i + 1) = n * i + n
         /\ \A j \in Nat : j <= i => n * j <= n * i
  OBVIOUS

\* A sequence cut into parts of length n, and they together, are its beginning.
LEMMA FlattenCut ==
  ASSUME NEW S, NEW b \in Seq(S), NEW n \in Nat \ {0}, NEW k \in Nat, n * k <= Len(b)
  PROVE  FlattenSeq([i \in 1..k |-> SubSeq(b, n * (i - 1) + 1, n * i)]) = SubSeq(b, 1, n * k)
<1> DEFINE s == [i \in 1..k |-> SubSeq(b, n * (i - 1) + 1, n * i)]
<1>1. Len(s) = k /\ \A i \in 1..k : s[i] = SubSeq(b, n * (i - 1) + 1, n * i)
  OBVIOUS
<1> HIDE DEF s
<1>2. CASE k = 0
  <2>1. FlattenSeq(s) = s /\ s = <<>>
    BY <1>2 DEF FlattenSeq, s
  <2>2. SubSeq(b, 1, n * k) = <<>>
    BY <1>2
  <2> QED BY <2>1, <2>2 DEF s
<1>3. CASE k # 0
  <2>1. PICK f : Partial(f, s, k) /\ FlattenSeq(s) = f[k]
    BY <1>1, <1>3, FlattenPartial
  <2>2. \A i \in 1..k : f[i] = IF i = 1 THEN s[i] ELSE f[i - 1] \o s[i]
    BY <2>1 DEF Partial
  <2> DEFINE T == {i \in 1..k : f[i] # SubSeq(b, 1, n * i)}
  <2>3. T = {}
    <3>1. SUFFICES ASSUME T # {} PROVE FALSE
      OBVIOUS
    <3>2. PICK i \in T : \A y \in T : i <= y
      <4>1. T \subseteq Nat
        OBVIOUS
      <4> HIDE DEF T
      <4> QED BY <3>1, <4>1, LeastNat
    <3>3. i \in 1..k /\ f[i] # SubSeq(b, 1, n * i)
      OBVIOUS
    <3>4. i # 1
      <4>1. i = 1 => SubSeq(b, n * (i - 1) + 1, n * i) = SubSeq(b, 1, n * i)
        OBVIOUS
      <4> QED BY <1>1, <2>2, <3>3, <4>1
    <3>5. f[i - 1] = SubSeq(b, 1, n * (i - 1))
      <4>1. i - 1 \in 1..k /\ ~(i <= i - 1)
        BY <3>3, <3>4
      <4> QED BY <3>2, <4>1
    <3> DEFINE m == n * (i - 1)
    <3>6. m \in Nat /\ n * i = m + n /\ m + n <= Len(b)
      <4>1. i - 1 \in Nat /\ i \in Nat /\ (i - 1) + 1 = i /\ i <= k
        BY <3>3
      <4>2. n * (i - 1) \in Nat /\ n * ((i - 1) + 1) = n * (i - 1) + n
        BY <4>1, Multiples
      <4>3. n * i <= n * k
        BY <4>1, Multiples
      <4>4. n * k \in Nat /\ Len(b) \in Nat /\ n * i \in Nat
        BY <4>1, Multiples
      <4> QED BY <4>1, <4>2, <4>3, <4>4
    <3> HIDE DEF m
    <3>7. SubSeq(b, 1, m) \o SubSeq(b, m + 1, m + n) = SubSeq(b, 1, m + n)
      BY <3>6
    <3>8. f[i] = f[i - 1] \o SubSeq(b, n * (i - 1) + 1, n * i)
      BY <1>1, <2>2, <3>3, <3>4
    <3> QED BY <3>3, <3>5, <3>6, <3>7, <3>8 DEF m
  <2>4. k \in 1..k
    BY <1>3
  <2> QED BY <2>1, <2>3, <2>4 DEF s
<1> QED BY <1>2, <1>3

\* Parts of length n together: each is found again where it was put.
LEMMA FlattenUniform ==
  ASSUME NEW S, NEW n \in Nat \ {0}, NEW s \in Seq(Seq(S)), \A i \in 1..Len(s) : Len(s[i]) = n
  PROVE  /\ Len(FlattenSeq(s)) = n * Len(s)
         /\ \A i \in 1..Len(s) : SubSeq(FlattenSeq(s), n * (i - 1) + 1, n * i) = s[i]
<1> DEFINE k == Len(s)
<1>1. k \in Nat /\ \A i \in 1..k : s[i] \in Seq(S) /\ Len(s[i]) = n
  OBVIOUS
<1> HIDE DEF k
<1>2. CASE k = 0
  <2>1. FlattenSeq(s) = <<>>
    BY <1>2 DEF FlattenSeq, k
  <2> QED BY <1>2, <2>1 DEF k
<1>3. CASE k # 0
  <2>1. PICK f : Partial(f, s, k) /\ FlattenSeq(s) = f[k]
    BY <1>1, <1>3, FlattenPartial DEF k
  <2>2. \A i \in 1..k : f[i] = IF i = 1 THEN s[i] ELSE f[i - 1] \o s[i]
    BY <2>1 DEF Partial
  <2> DEFINE Good(i) == /\ f[i] \in Seq(S) /\ Len(f[i]) = n * i
                        /\ \A j \in 1..i : SubSeq(f[i], n * (j - 1) + 1, n * j) = s[j]
             T == {i \in 1..k : ~Good(i)}
  <2>3. T = {}
    <3>1. SUFFICES ASSUME T # {} PROVE FALSE
      OBVIOUS
    <3>2. PICK i \in T : \A y \in T : i <= y
      <4>1. T \subseteq Nat
        OBVIOUS
      <4> HIDE DEF T
      <4> QED BY <3>1, <4>1, LeastNat
    <3>3. i \in 1..k /\ ~Good(i) /\ s[i] \in Seq(S) /\ Len(s[i]) = n
      BY <1>1
    <3> HIDE DEF Good
    <3>4. CASE i = 1
      <4>1. f[1] = s[1] /\ s[1] \in Seq(S) /\ Len(s[1]) = n
        BY <2>2, <3>3, <3>4
      <4>2. SubSeq(f[1], 1, n) = s[1]
        BY <4>1
      <4>3. n * 1 = n /\ n * (1 - 1) + 1 = 1
        OBVIOUS
      <4>4. Good(1)
        BY <4>1, <4>2, <4>3 DEF Good
      <4> QED BY <3>3, <3>4, <4>4
    <3>5. CASE i # 1
      <4> DEFINE h == i - 1
      <4>1. h \in 1..k /\ ~(i <= h) /\ h \in Nat /\ i = h + 1 /\ h < i
        <5>1. i \in 1..k
          BY <3>3
        <5> QED BY <1>1, <3>5, <5>1
      <4>2. Good(h)
        BY <3>2, <4>1
      <4> HIDE DEF h
      <4> DEFINE a == f[h]
                 c == s[i]
                 m == n * h
      <4>3. a \in Seq(S) /\ c \in Seq(S) /\ Len(a) = m /\ Len(c) = n
        BY <3>3, <4>2 DEF Good
      <4>4. m \in Nat /\ n * i = m + n
        BY <4>1, Multiples
      <4>5. f[i] = a \o c
        BY <2>2, <3>3, <3>5, <4>1 DEF h
      <4>6. \A j \in 1..h : n * (j - 1) + 1 \in Nat /\ n * j \in Nat /\ n * j <= m
        <5> SUFFICES ASSUME NEW j \in 1..h PROVE n * (j - 1) + 1 \in Nat /\ n * j \in Nat /\ n * j <= m
          OBVIOUS
        <5>1. j \in Nat /\ j - 1 \in Nat /\ j <= h
          BY <4>1
        <5>2. n * (j - 1) \in Nat
          BY <5>1, Multiples
        <5>3. n * j \in Nat /\ n * j <= n * h
          BY <4>1, <5>1, Multiples
        <5> QED BY <5>2, <5>3
      <4>7. \A j \in 1..h : SubSeq(a, n * (j - 1) + 1, n * j) = s[j]
        BY <4>2 DEF Good
      <4> HIDE DEF a, c, m
      <4>8. Len(a \o c) = m + n /\ a \o c \in Seq(S) /\ SubSeq(a \o c, m + 1, m + n) = c
        BY <4>3, <4>4, SMTT(30)
      <4>9. \A x, y \in Nat : 1 <= x /\ y <= m => SubSeq(a \o c, x, y) = SubSeq(a, x, y)
        BY <4>3, <4>4, SMTT(30)
      <4>10. \A j \in 1..h : SubSeq(a \o c, n * (j - 1) + 1, n * j) = s[j]
        <5> SUFFICES ASSUME NEW j \in 1..h PROVE SubSeq(a \o c, n * (j - 1) + 1, n * j) = s[j]
          OBVIOUS
        <5>1. n * (j - 1) + 1 \in Nat /\ n * j \in Nat /\ n * j <= m /\ 1 <= n * (j - 1) + 1
          <6>1. j - 1 \in Nat
            OBVIOUS
          <6>2. n * (j - 1) \in Nat
            BY <6>1, Multiples
          <6> QED BY <4>6, <6>2
        <5> QED BY <4>7, <4>9, <5>1
      <4>11. n * (i - 1) = m
        BY <4>1 DEF m
      <4>12. SubSeq(a \o c, n * (i - 1) + 1, n * i) = s[i]
        BY <4>4, <4>8, <4>11 DEF c
      <4>13. \A j \in 1..i : j \in 1..h \/ j = i
        BY <4>1
      <4>14. \A j \in 1..i : SubSeq(a \o c, n * (j - 1) + 1, n * j) = s[j]
        BY <4>10, <4>12, <4>13
      <4>15. Good(i)
        BY <4>4, <4>5, <4>8, <4>14 DEF Good
      <4> QED BY <3>3, <4>15
    <3> QED BY <3>4, <3>5
  <2>4. k \in 1..k
    BY <1>3, <1>1
  <2>5. Good(k)
    BY <2>3, <2>4
  <2> QED BY <2>1, <2>5 DEF k
<1> QED BY <1>2, <1>3

-----------------------------------------------------------------------------
(* Strings between quotes.                                                 *)

\* What is read is made of the characters that stand there, and spaces.
LEMMA UnescapeOver ==
  ASSUME NEW C, 32 \in C, NEW raw \in Seq(Byte), \A i \in 1..Len(raw) : raw[i] # Backslash => raw[i] \in C
  PROVE  Unescape(raw) \in Seq(C)
<1> DEFINE n == Len(raw)
           F == [i \in 1..n |-> IF raw[i] # Backslash THEN <<raw[i]>>
                                ELSE IF raw[i + 1] = Quote THEN <<>> ELSE <<32>>]
<1>1. n \in Nat /\ DOMAIN raw = 1..n /\ Range(raw) = {raw[i] : i \in 1..n}
  BY DEF Range
<1>2. CASE Backslash \notin Range(raw)
  <2>1. \A i \in 1..n : raw[i] \in C
    BY <1>1, <1>2
  <2>2. raw = [i \in 1..n |-> raw[i]]
    BY <1>1
  <2>3. raw \in [1..n -> C]
    BY <2>1, <2>2
  <2>4. raw \in Seq(C)
    BY <1>1, <2>3, FixedSeq
  <2> QED BY <1>2, <2>4 DEF Unescape
<1>3. CASE Backslash \in Range(raw)
  <2>1. Unescape(raw) = FlattenSeq(F)
    BY <1>1, <1>3 DEF Unescape
  <2>2. <<>> \in Seq(C) /\ <<32>> \in Seq(C)
    OBVIOUS
  <2>3. F \in [1..n -> Seq(C)]
    <3> SUFFICES ASSUME NEW i \in 1..n
                 PROVE  (IF raw[i] # Backslash THEN <<raw[i]>>
                         ELSE IF raw[i + 1] = Quote THEN <<>> ELSE <<32>>) \in Seq(C)
      OBVIOUS
    <3>1. CASE raw[i] # Backslash
      <4>1. raw[i] \in C
        BY <3>1
      <4>2. <<raw[i]>> \in Seq(C)
        BY <4>1
      <4> QED BY <3>1, <4>2
    <3>2. CASE raw[i] = Backslash
      BY <2>2, <3>2
    <3> QED BY <3>1, <3>2
  <2> HIDE DEF F, n
  <2>4. F \in Seq(Seq(C))
    BY <1>1, <2>3, FixedSeq
  <2> QED BY <2>1, <2>4, FlattenTypedSeq
<1> QED BY <1>2, <1>3

\* Where there are no backslashes, characters are read as they stand.
LEMMA UnescapePlain ==
  ASSUME NEW raw \in Seq(Byte), \A i \in 1..Len(raw) : raw[i] # Backslash
  PROVE  Unescape(raw) = raw
<1>1. Backslash \notin Range(raw)
  BY DEF Range
<1> QED BY <1>1 DEF Unescape

\* Without backslashes, a string is taken if it has no quote, tab or newline and
\* is not too long.
LEMMA ScansBare ==
  ASSUME NEW v \in Seq(Byte), \A i \in 1..Len(v) : v[i] # Backslash
  PROVE  Scans(v) <=> /\ \A i \in 1..Len(v) : v[i] \notin {Tab, Newline, Quote}
                      /\ Len(v) <= MaxString
<1>1. Len(v) \in Nat /\ DOMAIN v = 1..Len(v) /\ Range(v) = {v[i] : i \in 1..Len(v)}
  BY DEF Range
<1>2. Unescape(v) = v
  BY UnescapePlain
<1>3. v # <<>> => Last(v) # Backslash
  <2>1. v # <<>> => Last(v) = v[Len(v)] /\ Len(v) \in 1..Len(v)
    BY DEF Last
  <2> QED BY <2>1
<1>4. Range(v) \cap {Newline, Tab} = {} <=> \A i \in 1..Len(v) : v[i] \notin {Newline, Tab}
  BY <1>1
<1>5. (\A i \in 1..Len(v) : v[i] = Quote => i > 1 /\ v[i - 1] = Backslash)
        <=> \A i \in 1..Len(v) : v[i] # Quote
  <2>1. ASSUME NEW i \in 1..Len(v), i > 1 PROVE v[i - 1] # Backslash
    <3>1. i - 1 \in 1..Len(v)
      BY <2>1
    <3> QED BY <3>1
  <2> QED BY <2>1
<1>6. Scans(v) <=> /\ \A i \in 1..Len(v) : v[i] \notin {Newline, Tab}
                   /\ \A i \in 1..Len(v) : v[i] # Quote
                   /\ Len(v) <= MaxString
  BY <1>1, <1>2, <1>3, <1>4, <1>5 DEF Scans
<1> QED BY <1>6

\* What is read has no backslash.
LEMMA UnescapeClears ==
  ASSUME NEW raw \in Seq(Byte)
  PROVE  Unescape(raw) \in Seq(Byte \ {Backslash})
<1> DEFINE C == Byte \ {Backslash}
<1>1. 32 \in C
  BY DEF Byte, Backslash
<1>2. \A i \in 1..Len(raw) : raw[i] # Backslash => raw[i] \in C
  OBVIOUS
<1> HIDE DEF C
<1>3. Unescape(raw) \in Seq(C)
  BY <1>1, <1>2, UnescapeOver
<1> QED BY <1>3 DEF C

\* The strings that are read as they stand.
LEMMA ReadAsIs ==
  ASSUME NEW v \in Seq(Byte)
  PROVE  Scans(v) /\ Unescape(v) = v
           <=> Range(v) \cap {Tab, Newline, Quote, Backslash} = {} /\ Len(v) <= MaxString
<1>1. DOMAIN v = 1..Len(v) /\ Range(v) = {v[i] : i \in 1..Len(v)}
  BY DEF Range
<1>2. Range(v) \cap {Tab, Newline, Quote, Backslash} = {}
        <=> /\ \A i \in 1..Len(v) : v[i] # Backslash
            /\ \A i \in 1..Len(v) : v[i] \notin {Tab, Newline, Quote}
  BY <1>1
<1>3. Unescape(v) = v => \A i \in 1..Len(v) : v[i] # Backslash
  <2>1. Unescape(v) = v => v \in Seq(Byte \ {Backslash})
    BY UnescapeClears
  <2>2. v \in Seq(Byte \ {Backslash}) => \A i \in 1..Len(v) : v[i] \in Byte \ {Backslash}
    OBVIOUS
  <2> QED BY <2>1, <2>2
<1>4. CASE \A i \in 1..Len(v) : v[i] # Backslash
  BY <1>2, <1>4, UnescapePlain, ScansBare
<1>5. CASE ~(\A i \in 1..Len(v) : v[i] # Backslash)
  BY <1>2, <1>3, <1>5
<1> QED BY <1>4, <1>5
=============================================================================
