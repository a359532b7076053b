----------------------------- MODULE ParseProofs -----------------------------
(***************************************************************************)
(* For every text, whatever the value encoders, the MIB and the file       *)
(* system answer: settings are only taken from a file of the grammar       *)
(* (GrammarTaken), the tree is the text, setting by setting                *)
(* (TreesAreTexts), the pieces of a certificate are the file               *)
(* (CertificatesWhole), and what is held has its type (Typing).  Whatever  *)
(* a statement is, StatementIs and HeadIs say which of the grammar it is;  *)
(* the rest is about brackets and depths.                                  *)
(***************************************************************************)
EXTENDS ParseContract, ProofLemmas, FiniteSetTheorems

-----------------------------------------------------------------------------
(* What the parser holds.                                                  *)

\* Two sequences after each other.
LEMMA JoinSome ==
  ASSUME NEW s, IsSeq(s), NEW t, IsSeq(t)
  PROVE  /\ IsSeq(s \o t) /\ Len(s) \in Nat /\ Len(t) \in Nat /\ Len(s \o t) = Len(s) + Len(t)
         /\ DOMAIN s = 1..Len(s) /\ DOMAIN t = 1..Len(t) /\ DOMAIN (s \o t) = 1..(Len(s) + Len(t))
         /\ \A i \in 1..Len(s) : (s \o t)[i] = s[i]
         /\ \A i \in 1..Len(t) : (s \o t)[Len(s) + i] = t[i]
<1> DEFINE S == {s[j] : j \in DOMAIN s} \cup {t[j] : j \in DOMAIN t}
           u == s \o t
<1>1. s \in Seq(S) /\ t \in Seq(S)
  <2>1. \A T, U : T \subseteq U => Seq(T) \subseteq Seq(U)
    OBVIOUS
  <2> QED BY <2>1 DEF IsSeq
<1> HIDE DEF S
<1>2. /\ u \in Seq(S) /\ Len(u) = Len(s) + Len(t)
      /\ \A i \in 1..Len(s) : u[i] = s[i]
      /\ \A i \in 1..Len(t) : u[Len(s) + i] = t[i]
  BY <1>1, ConcatAt
<1>3. /\ Len(s) \in Nat /\ Len(t) \in Nat
      /\ DOMAIN s = 1..Len(s) /\ DOMAIN t = 1..Len(t)
  BY <1>1
<1> HIDE DEF u
<1>4. IsSeq(u) /\ DOMAIN u = 1..Len(u)
  BY <1>2, SomeSeq, Zenon
<1> QED BY <1>2, <1>3, <1>4 DEF u

\* One more element is a sequence of one more.
LEMMA AppendIsJoin ==
  ASSUME NEW s, IsSeq(s), NEW e
  PROVE  Append(s, e) = s \o <<e>>
  BY DEF IsSeq

\* A block whose end is not read yet.
Shaped(b) == b = [code |-> b.code, kids |-> b.kids] /\ IsSeq(b.kids)

Stacked ==
  /\ toks \in Inputs /\ pos \in Nat \ {0}
  /\ IsSeq(open) /\ \A i \in DOMAIN open : Shaped(open[i])
  /\ stage = "reading" => open # <<>>

\* More settings in the innermost block.
LEMMA AddedKids ==
  ASSUME NEW s, IsSeq(s), \A i \in DOMAIN s : Shaped(s[i]), s # <<>>, NEW more, IsSeq(more)
  PROVE  LET t == [s EXCEPT ![Len(s)].kids = @ \o more]
         IN /\ IsSeq(t) /\ Len(t) = Len(s) /\ Len(s) \in Nat \ {0} /\ DOMAIN t = 1..Len(s) /\ DOMAIN s = 1..Len(s)
            /\ \A i \in 1..(Len(s) - 1) : t[i] = s[i]
            /\ t[Len(s)] = [code |-> s[Len(s)].code, kids |-> s[Len(s)].kids \o more]
            /\ \A i \in DOMAIN t : Shaped(t[i])
<1> DEFINE n == Len(s)
           t == [s EXCEPT ![n].kids = @ \o more]
           b == s[n]
<1>1. n \in Nat \ {0} /\ DOMAIN s = 1..n
  BY DEF IsSeq
<1>2. Shaped(b)
  BY <1>1
<1>3. IsSeq(b.kids \o more)
  BY <1>2, JoinSome DEF Shaped
<1> HIDE DEF n
<1>4. /\ DOMAIN t = 1..n
      /\ \A i \in 1..(n - 1) : t[i] = s[i]
      /\ t[n] = [b EXCEPT !.kids = @ \o more]
  <2> DEFINE c == [b EXCEPT !.kids = @ \o more]
  <2>1. t = [s EXCEPT ![n] = c]
    OBVIOUS
  <2> HIDE DEF c, t, b
  <2>2. t = [i \in DOMAIN s |-> IF i = n THEN c ELSE s[i]]
    BY <2>1, <1>1, Zenon
  <2>3. n \in 1..n /\ \A i \in 1..(n - 1) : i \in 1..n /\ i # n
    BY <1>1
  <2> QED BY <1>1, <2>2, <2>3, Zenon DEF c
<1>5. t = [i \in 1..n |-> t[i]]
  BY <1>1, <1>4
<1> HIDE DEF t
<1>6. IsSeq(t) /\ Len(t) = n
  <2>1. t \in [1..n -> {t[j] : j \in DOMAIN t}]
    BY <1>4, <1>5
  <2> QED BY <1>1, <2>1, FixedSeq DEF IsSeq
<1>7. t[n] = [code |-> b.code, kids |-> b.kids \o more]
  <2>1. \A x, c, k, q : x = [code |-> c, kids |-> k] => [x EXCEPT !.kids = q] = [code |-> c, kids |-> q]
    OBVIOUS
  <2>2. b = [code |-> b.code, kids |-> b.kids]
    BY <1>2 DEF Shaped
  <2> HIDE DEF b
  <2>3. [b EXCEPT !.kids = @ \o more] = [code |-> b.code, kids |-> b.kids \o more]
    BY <2>1, <2>2, Zenon
  <2> QED BY <1>4, <2>3
<1>8. \A i \in 1..n : Shaped(t[i])
  <2> SUFFICES ASSUME NEW i \in 1..n PROVE Shaped(t[i])
    OBVIOUS
  <2>1. CASE i = n
    <3>1. t[i].code = b.code /\ t[i].kids = b.kids \o more
      BY <1>7, <2>1
    <3> QED BY <1>3, <1>7, <2>1, <3>1 DEF Shaped
  <2>2. CASE i # n
    <3>1. i \in 1..(n - 1) /\ i \in DOMAIN s
      BY <1>1, <2>2
    <3> QED BY <1>4, <3>1
  <2> QED BY <2>1, <2>2
<1> QED BY <1>1, <1>4, <1>6, <1>7, <1>8, Zenon DEF n, t, b

\* Stopping changes nothing else.
LEMMA Stopping == Stop => stage' = "stopped" /\ toks' = toks /\ pos' = pos /\ open' = open /\ tree' = tree
  BY Zenon DEF Stop

\* One setting.
LEMMA Single == ASSUME NEW x PROVE IsSeq(<<x>>) /\ Len(<<x>>) = 1 /\ <<x>>[1] = x /\ DOMAIN <<x>> = 1..1
  BY DEF IsSeq

\* A position of the text, from the kind of what is there.
LEMMA InText ==
  ASSUME toks \in Inputs, pos \in Nat \ {0}, NEW n \in Nat \ {0}, Kind(n) # "end"
  PROVE  /\ toks \in Seq([kind : STRING, of : Seq(Nat)]) /\ Len(toks) \in Nat
         /\ Next1(n) \in 1..Len(toks) /\ Next1(n) = pos + n - 1
         /\ Kind(n) = toks[Next1(n)].kind /\ Of(n) = toks[Next1(n)].of
<1>1. toks \in Seq([kind : STRING, of : Seq(Nat)])
  BY ParseAssumption
<1>2. Len(toks) \in Nat /\ DOMAIN toks = 1..Len(toks)
  BY <1>1
<1>3. Next1(n) = pos + n - 1 /\ Next1(n) \in Nat \ {0}
  BY DEF Next1
<1>4. Next1(n) <= Len(toks) /\ Kind(n) = toks[Next1(n)].kind
  BY Zenon DEF Kind
<1> QED BY <1>1, <1>2, <1>3, <1>4 DEF Of

\* What a file holds.
LEMMA FileIs ==
  ASSUME toks \in Inputs, pos \in Nat \ {0}, NEW n \in Nat \ {0}, Kind(n) # "end", NEW data \in FileBytes(Of(n))
  PROVE  data \in Seq(Byte) /\ FileBytes(Of(n)) = {data}
<1>1. Next1(n) \in DOMAIN toks /\ Of(n) = toks[Next1(n)].of
  BY InText
<1>2. \A d, e \in FileBytes(Of(n)) : d = e /\ d \in Seq(Byte)
  <2>1. \A i \in DOMAIN toks : \A d, e \in FileBytes(toks[i].of) : d = e /\ d \in Seq(Byte)
    BY ParseAssumption, Zenon
  <2> QED BY <1>1, <2>1, Zenon
<1> QED BY <1>2

-----------------------------------------------------------------------------
(* Certificates                                                            *)

\* The beginning of a sequence and the rest of it.
LEMMA CutInTwo ==
  ASSUME NEW S, NEW s \in Seq(S), NEW a \in Nat, a <= Len(s)
  PROVE  SubSeq(s, 1, a) \o SubSeq(s, a + 1, Len(s)) = s
<1> DEFINE n == Len(s)
           u == SubSeq(s, 1, a)
           v == SubSeq(s, a + 1, n)
           w == u \o v
<1>1. n \in Nat
  OBVIOUS
<1>2. u \in Seq(S) /\ Len(u) = a /\ \A i \in 1..a : u[i] = s[i]
  BY FirstOf
<1>3. v \in Seq(S) /\ Len(v) = n - a /\ \A i \in 1..(n - a) : v[i] = s[a + i]
  OBVIOUS
<1> HIDE DEF u, v
<1>4. /\ w \in Seq(S) /\ Len(w) = Len(u) + Len(v)
      /\ \A i \in 1..Len(u) : w[i] = u[i]
      /\ \A i \in 1..Len(v) : w[Len(u) + i] = v[i]
  BY <1>2, <1>3, ConcatAt
<1> HIDE DEF w
<1>5. Len(w) = n
  BY <1>1, <1>2, <1>3, <1>4
<1>6. \A i \in 1..n : w[i] = s[i]
  <2> SUFFICES ASSUME NEW i \in 1..n PROVE w[i] = s[i]
    OBVIOUS
  <2>1. CASE i <= a
    <3>1. i \in 1..a
      BY <2>1
    <3> QED BY <1>2, <1>4, <3>1
  <2>2. CASE ~(i <= a)
    <3>1. i - a \in 1..(n - a) /\ a + (i - a) = i
      BY <1>1, <2>2
    <3>2. w[a + (i - a)] = v[i - a]
      BY <1>2, <1>3, <1>4, <3>1, Zenon
    <3>3. v[i - a] = s[a + (i - a)]
      BY <1>3, <3>1, Zenon
    <3> QED BY <3>1, <3>2, <3>3, Zenon
  <2> QED BY <2>1, <2>2
<1>7. w = s
  <2> HIDE DEF n
  <2>1. w = [i \in 1..n |-> w[i]]
    BY <1>4, <1>5
  <2>2. s = [i \in 1..n |-> s[i]]
    BY DEF n
  <2> QED BY <1>6, <2>1, <2>2
<1> QED BY <1>7 DEF w, u, v, n

\* The pieces of a file are not empty, none is longer than ChunkSize, and
\* together they are the file.
LEMMA ChunksAre ==
  ASSUME NEW data \in Seq(Byte), data # <<>>
  PROVE  \E k \in Nat \ {0} :
           /\ DOMAIN Chunks(data) = 1..k /\ Chunks(data) \in [1..k -> Seq(Byte)]
           /\ ChunkSize * (k - 1) < Len(data) /\ Len(data) <= ChunkSize * k
           /\ \A i \in 1..k : Len(Chunks(data)[i]) \in 1..ChunkSize
           /\ FlattenSeq(Chunks(data)) = data
<1> DEFINE n == ChunkSize
           l == Len(data)
           k == (l + n - 1) \div n
           to(i) == IF n * i < l THEN n * i ELSE l
           F == [i \in 1..k |-> SubSeq(data, n * (i - 1) + 1, to(i))]
<1>1. n \in Nat \ {0} /\ l \in Nat \ {0}
  BY ParseAssumption
<1>2. Chunks(data) = F
  BY DEF Chunks
<1>3. k \in Nat \ {0} /\ n * (k - 1) < l /\ l <= n * k /\ n * (k - 1) \in Nat
  <2> HIDE DEF n, l
  <2>1. \A a \in Nat : LET q == a \div n
                       IN q \in Nat /\ n * q \in Nat /\ n * q <= a /\ a < n * q + n
    BY <1>1, SMT
  <2>2. l + n - 1 \in Nat
    BY <1>1
  <2>3. k \in Nat /\ n * k \in Nat /\ n * k <= l + n - 1 /\ l + n - 1 < n * k + n
    BY <2>1, <2>2, Zenon
  <2> HIDE DEF k
  <2>4. k # 0
    <3>1. n * 0 = 0
      BY <1>1
    <3> QED BY <1>1, <2>3, <3>1
  <2>5. k - 1 \in Nat /\ k = (k - 1) + 1
    BY <2>3, <2>4
  <2>6. n * ((k - 1) + 1) = n * (k - 1) + n /\ n * (k - 1) \in Nat
    BY <1>1, <2>5, Multiples
  <2> QED BY <1>1, <2>3, <2>4, <2>5, <2>6
<1> HIDE DEF k
<1>4. \A i \in 1..k : /\ to(i) \in Nat /\ to(i) <= l /\ n * (i - 1) \in Nat /\ n * (i - 1) < to(i)
                      /\ to(i) <= n * (i - 1) + n /\ (i < k => to(i) = n * i)
  <2> SUFFICES ASSUME NEW i \in 1..k
               PROVE  /\ to(i) \in Nat /\ to(i) <= l /\ n * (i - 1) \in Nat /\ n * (i - 1) < to(i)
                      /\ to(i) <= n * (i - 1) + n /\ (i < k => to(i) = n * i)
    OBVIOUS
  <2> HIDE DEF n, l
  <2>1. i - 1 \in Nat /\ k - 1 \in Nat /\ i - 1 <= k - 1 /\ i \in Nat /\ i = (i - 1) + 1
    BY <1>3
  <2>2. n * (i - 1) \in Nat /\ n * ((i - 1) + 1) = n * (i - 1) + n /\ n * (i - 1) <= n * (k - 1)
    BY <1>1, <1>3, <2>1, Multiples
  <2>3. n * i = n * (i - 1) + n
    BY <2>1, <2>2
  <2>4. i < k => n * i <= n * (k - 1)
    <3>1. i < k => i <= k - 1
      BY <1>3, <2>1
    <3> QED BY <1>1, <1>3, <2>1, <3>1, Multiples
  <2> QED BY <1>1, <1>3, <2>2, <2>3, <2>4
<1> HIDE DEF to
<1>5. \A i \in 1..k : /\ F[i] \in Seq(Byte) /\ Len(F[i]) = to(i) - n * (i - 1)
  <2> SUFFICES ASSUME NEW i \in 1..k
               PROVE  F[i] \in Seq(Byte) /\ Len(F[i]) = to(i) - n * (i - 1)
    OBVIOUS
  <2> DEFINE a == n * (i - 1) + 1
             b == to(i)
  <2>1. F[i] = SubSeq(data, a, b)
    OBVIOUS
  <2>2. a \in Nat \ {0} /\ b \in Nat /\ b <= l /\ a <= b
    BY <1>4
  <2> HIDE DEF a, b, F
  <2>3. SubSeq(data, a, b) \in Seq(Byte) /\ Len(SubSeq(data, a, b)) = b - a + 1
    BY <2>2
  <2> QED BY <1>4, <2>1, <2>2, <2>3 DEF a, b
<1>6. F \in [1..k -> Seq(Byte)]
  BY <1>5
<1>7. \A i \in 1..k : Len(F[i]) \in 1..n
  <2> HIDE DEF F, n
  <2> QED BY <1>1, <1>4, <1>5
<1>8. FlattenSeq(F) = data
  <2> DEFINE m == k - 1
             G == [i \in 1..m |-> SubSeq(data, n * (i - 1) + 1, n * i)]
  <2>1. m \in Nat /\ k = m + 1
    BY <1>3
  <2>2. FlattenSeq(F) = FlattenSeq([i \in 1..m |-> F[i]]) \o F[m + 1]
    <3> HIDE DEF F
    <3>1. F \in [1..(m + 1) -> Seq(Byte)]
      BY <1>6, <2>1
    <3> QED BY <2>1, <3>1, FamilyNext
  <2>3. [i \in 1..m |-> F[i]] = G
    <3>1. \A i \in 1..m : i \in 1..k /\ i < k
      BY <1>3
    <3>2. \A i \in 1..m : F[i] = SubSeq(data, n * (i - 1) + 1, n * i)
      BY <1>4, <3>1
    <3> HIDE DEF F
    <3> QED BY <3>2
  <2>4. FlattenSeq(G) = SubSeq(data, 1, n * m)
    <3>1. n * m \in Nat /\ n * m <= Len(data)
      BY <1>1, <1>3
    <3> HIDE DEF n, m
    <3> QED BY <1>1, <2>1, <3>1, FlattenCut
  <2>5. F[m + 1] = SubSeq(data, n * m + 1, l)
    <3>1. to(k) = l
      BY <1>1, <1>3 DEF to
    <3>2. k \in 1..k
      BY <1>3
    <3>3. F[k] = SubSeq(data, n * m + 1, l)
      BY <3>1, <3>2
    <3> QED BY <2>1, <3>3
  <2> DEFINE a == n * m
  <2>6. a \in Nat /\ a <= l
    BY <1>3
  <2> HIDE DEF F, G, a, m
  <2>7. SubSeq(data, 1, a) \o SubSeq(data, a + 1, l) = data
    BY <2>6, CutInTwo
  <2> QED BY <2>2, <2>3, <2>4, <2>5, <2>7 DEF a
<1> HIDE DEF F
<1>9. DOMAIN F = 1..k
  BY <1>6
<1> QED BY <1>2, <1>3, <1>6, <1>7, <1>8, <1>9, Zenon DEF n, l

-----------------------------------------------------------------------------
(* The blocks around the statement at hand, and what is in them so far.    *)

\* A statement that makes some settings, and the head of a block.
LEMMA AddStacks ==
  ASSUME Stacked, stage = "reading", NEW n \in Nat, NEW more, IsSeq(more), Add(n, more)
  PROVE  Stacked'
<1>1. /\ pos' = pos + n /\ toks' = toks /\ stage' = stage
      /\ open' = [open EXCEPT ![Len(open)].kids = @ \o more]
  BY DEF Add
<1>2. IsSeq(open') /\ Len(open') = Len(open) /\ Len(open) \in Nat \ {0} /\ \A i \in DOMAIN open' : Shaped(open'[i])
  BY <1>1, AddedKids, Zenon DEF Stacked
<1>3. open' # <<>>
  <2>1. Len(<<>>) = 0
    OBVIOUS
  <2> QED BY <1>2, <2>1
<1>4. pos' \in Nat \ {0} /\ toks' \in Inputs
  BY <1>1 DEF Stacked
<1> QED BY <1>2, <1>3, <1>4, Zenon DEF Stacked

\* The head of a block puts one more around what follows.
LEMMA OpenStacks ==
  ASSUME Stacked, stage = "reading", NEW n \in Nat, NEW code, Open(n, code)
  PROVE  Stacked'
<1> DEFINE b == [code |-> code, kids |-> <<>>]
<1>1. pos' = pos + n /\ toks' = toks /\ stage' = stage /\ open' = Append(open, b)
  BY DEF Open
<1>2. Shaped(b)
  BY DEF Shaped, IsSeq
<1> HIDE DEF b
<1>3. /\ IsSeq(open') /\ Len(open) \in Nat /\ DOMAIN open' = 1..(Len(open) + 1) /\ DOMAIN open = 1..Len(open)
      /\ open'[Len(open) + 1] = b /\ \A j \in 1..Len(open) : open'[j] = open[j]
  <2> DEFINE Longer(t) == /\ IsSeq(t) /\ Len(open) \in Nat /\ DOMAIN t = 1..(Len(open) + 1)
                          /\ DOMAIN open = 1..Len(open)
                          /\ t[Len(open) + 1] = b /\ \A j \in 1..Len(open) : t[j] = open[j]
  <2>1. Longer(Append(open, b))
    BY AppendAt, ZenonT(40) DEF Stacked
  <2> HIDE DEF Longer
  <2>2. Longer(open')
    BY <1>1, <2>1, Zenon
  <2> QED BY <2>2, Zenon DEF Longer
<1>4. \A i \in DOMAIN open' : Shaped(open'[i])
  BY <1>2, <1>3 DEF Stacked
<1>5. open' # <<>>
  <2>1. DOMAIN <<>> = {}
    OBVIOUS
  <2> QED BY <1>3, <2>1
<1> QED BY <1>1, <1>3, <1>4, <1>5 DEF Stacked

\* What is left of a sequence without its last element.
LEMMA FrontAt ==
  ASSUME NEW s, IsSeq(s), s # <<>>
  PROVE  /\ IsSeq(Front(s)) /\ Len(s) \in Nat \ {0} /\ Len(Front(s)) = Len(s) - 1 /\ Last(s) = s[Len(s)]
         /\ DOMAIN Front(s) = 1..(Len(s) - 1) /\ DOMAIN s = 1..Len(s)
         /\ \A j \in 1..(Len(s) - 1) : Front(s)[j] = s[j]
<1> DEFINE S == {s[j] : j \in DOMAIN s}
<1>0. s \in Seq(S)
  BY DEF IsSeq
<1> HIDE DEF S
<1>1. Len(s) \in Nat \ {0} /\ DOMAIN s = 1..Len(s)
  BY <1>0
<1>2. Front(s) \in Seq(S) /\ Len(Front(s)) = Len(s) - 1 /\ \A j \in 1..(Len(s) - 1) : Front(s)[j] = s[j]
  <2>1. Len(s) - 1 \in Nat /\ Len(s) - 1 <= Len(s)
    BY <1>1
  <2>2. Front(s) = SubSeq(s, 1, Len(s) - 1)
    BY DEF Front
  <2> QED BY <1>0, <2>1, <2>2, FirstOf, ZenonT(60)
<1>3. IsSeq(Front(s)) /\ DOMAIN Front(s) = 1..(Len(s) - 1)
  BY <1>2, SomeSeq
<1> QED BY <1>1, <1>2, <1>3 DEF Last

\* The end of a block.
LEMMA CloseStacks ==
  ASSUME Stacked, CloseBlock
  PROVE  /\ Stacked'
         /\ LET m == Len(open)
                b == [code |-> open[m - 1].code,
                      kids |-> open[m - 1].kids \o <<Block(open[m].code, open[m].kids)>>]
            IN /\ m \in Nat /\ m >= 2 /\ Len(open') = m - 1 /\ DOMAIN open' = 1..(m - 1)
               /\ open'[m - 1] = b /\ \A i \in 1..(m - 2) : open'[i] = open[i]
<1> DEFINE m == Len(open)
           outer == Front(open)
           c == Block(open[m].code, open[m].kids)
<1>1. /\ stage = "reading" /\ Len(open) > 1 /\ pos' = pos + 1 /\ toks' = toks /\ stage' = stage
      /\ open' = [outer EXCEPT ![Len(outer)].kids = Append(@, Block(Last(open).code, Last(open).kids))]
  BY DEF CloseBlock
<1>2. /\ IsSeq(outer) /\ m \in Nat \ {0} /\ Len(outer) = m - 1 /\ Last(open) = open[m]
      /\ DOMAIN outer = 1..(m - 1) /\ DOMAIN open = 1..m
      /\ \A j \in 1..(m - 1) : outer[j] = open[j]
  <2>1. open # <<>>
    BY <1>1 DEF Stacked
  <2> QED BY <2>1, FrontAt, Zenon DEF Stacked
<1>3. \A i \in DOMAIN outer : Shaped(outer[i])
  BY <1>2 DEF Stacked
<1>4. outer # <<>> /\ m >= 2
  BY <1>1, <1>2
<1>5. open' = [outer EXCEPT ![Len(outer)].kids = @ \o <<c>>]
  <2> DEFINE k == outer[Len(outer)].kids
  <2>1. IsSeq(k)
    <3>1. Len(outer) \in DOMAIN outer
      BY <1>2, <1>4
    <3> QED BY <1>3, <3>1 DEF Shaped
  <2>2. Append(k, c) = k \o <<c>>
    <3> HIDE DEF k
    <3> QED BY <2>1, AppendIsJoin
  <2>3. c = Block(Last(open).code, Last(open).kids)
    BY <1>2
  <2> HIDE DEF c
  <2> QED BY <1>1, <2>2, <2>3
<1>6. IsSeq(<<c>>)
  BY Single
<1> HIDE DEF c, outer
<1>7. /\ IsSeq(open') /\ Len(open') = Len(outer) /\ DOMAIN open' = 1..Len(outer)
      /\ \A i \in 1..(Len(outer) - 1) : open'[i] = outer[i]
      /\ open'[Len(outer)] = [code |-> outer[Len(outer)].code, kids |-> outer[Len(outer)].kids \o <<c>>]
      /\ \A i \in DOMAIN open' : Shaped(open'[i])
  <2> DEFINE More(t) == /\ IsSeq(t) /\ Len(t) = Len(outer) /\ DOMAIN t = 1..Len(outer)
                        /\ \A i \in 1..(Len(outer) - 1) : t[i] = outer[i]
                        /\ t[Len(outer)] = [code |-> outer[Len(outer)].code, kids |-> outer[Len(outer)].kids \o <<c>>]
                        /\ \A i \in DOMAIN t : Shaped(t[i])
  <2>1. More([outer EXCEPT ![Len(outer)].kids = @ \o <<c>>])
    BY <1>2, <1>3, <1>4, <1>6, AddedKids, ZenonT(90)
  <2> HIDE DEF More
  <2>2. More(open')
    BY <1>5, <2>1, Zenon
  <2> QED BY <2>2, Zenon DEF More
<1>8. Stacked'
  <2>1. open' # <<>>
    <3>1. Len(<<>>) = 0
      OBVIOUS
    <3> QED BY <1>2, <1>4, <1>7, <3>1
  <2>2. pos' \in Nat \ {0} /\ toks' \in Inputs
    BY <1>1 DEF Stacked
  <2> QED BY <1>7, <2>1, <2>2, Zenon DEF Stacked
<1>9. outer[Len(outer)] = open[m - 1] /\ \A i \in 1..(m - 2) : open'[i] = open[i]
  BY <1>2, <1>4, <1>7
<1> QED BY <1>2, <1>4, <1>7, <1>8, <1>9 DEF c

-----------------------------------------------------------------------------
(* What a statement and the head of a block look like.                     *)

\* Kinds that no brace and no semicolon has, except for the last, which is one.
Brackets == {"LBrace", "RBrace", "Semi"}
Inside(kinds) == kinds \cap Brackets = {} /\ "end" \notin kinds
Closed(kinds, last) ==
  /\ IsSeq(kinds) /\ Len(kinds) \in Nat \ {0} /\ DOMAIN kinds = 1..Len(kinds)
  /\ kinds[Len(kinds)] = {last}
  /\ \A i \in 1..(Len(kinds) - 1) : Inside(kinds[i])

\* A bracket alone, and one behind one to four kinds of tokens.
LEMMA ClosedOne == ASSUME NEW last PROVE Closed(<<Is(last)>>, last)
<1> DEFINE k == <<Is(last)>>
<1>1. IsSeq(k) /\ Len(k) = 1 /\ DOMAIN k = 1..1 /\ k[1] = {last}
  BY Single DEF Is
<1> HIDE DEF k
<1>2. Len(k) - 1 = 0 /\ 1 \in Nat \ {0} /\ 1..0 = {}
  BY <1>1
<1>3. \A i \in 1..(Len(k) - 1) : Inside(k[i])
  BY <1>2
<1>4. Len(k) \in Nat \ {0} /\ DOMAIN k = 1..Len(k) /\ k[Len(k)] = {last}
  BY <1>1
<1>5. Closed(k, last)
  BY <1>1, <1>3, <1>4, Zenon DEF Closed
<1> QED BY <1>5 DEF k

\* One kind before it.
LEMMA ClosedTwo ==
  ASSUME NEW last, NEW a, Inside(a)
  PROVE  Closed(<<a, Is(last)>>, last)
<1> DEFINE k == <<a, Is(last)>>
           S == {a, Is(last)}
<1>1. k \in Seq(S) /\ Len(k) = 2 /\ k[1] = a /\ k[2] = Is(last)
  OBVIOUS
<1> HIDE DEF k, S
<1>2. IsSeq(k) /\ Len(k) \in Nat \ {0} /\ DOMAIN k = 1..Len(k)
  BY <1>1, SomeSeq
<1>3. k[Len(k)] = {last}
  BY <1>1, Zenon DEF Is
<1>4. \A i \in 1..(Len(k) - 1) : Inside(k[i])
  <2>1. \A i \in 1..(Len(k) - 1) : i = 1
    BY <1>1
  <2> QED BY <1>1, <2>1, Zenon
<1>5. Closed(k, last)
  BY <1>2, <1>3, <1>4, Zenon DEF Closed
<1> QED BY <1>5, Zenon DEF k

\* Two kinds before it.
LEMMA ClosedThree ==
  ASSUME NEW last, NEW a, Inside(a), NEW b, Inside(b)
  PROVE  Closed(<<a, b, Is(last)>>, last)
<1> DEFINE k == <<a, b, Is(last)>>
           S == {a, b, Is(last)}
<1>1. k \in Seq(S) /\ Len(k) = 3 /\ k[1] = a /\ k[2] = b /\ k[3] = Is(last)
  OBVIOUS
<1> HIDE DEF k, S
<1>2. IsSeq(k) /\ Len(k) \in Nat \ {0} /\ DOMAIN k = 1..Len(k)
  BY <1>1, SomeSeq
<1>3. k[Len(k)] = {last}
  BY <1>1, Zenon DEF Is
<1>4. \A i \in 1..(Len(k) - 1) : Inside(k[i])
  <2>1. \A i \in 1..(Len(k) - 1) : i = 1 \/ i = 2
    BY <1>1
  <2> QED BY <1>1, <2>1, Zenon
<1>5. Closed(k, last)
  BY <1>2, <1>3, <1>4, Zenon DEF Closed
<1> QED BY <1>5, Zenon DEF k

\* Three kinds before it.
LEMMA ClosedFour ==
  ASSUME NEW last, NEW a, Inside(a), NEW b, Inside(b), NEW c, Inside(c)
  PROVE  Closed(<<a, b, c, Is(last)>>, last)
<1> DEFINE k == <<a, b, c, Is(last)>>
           S == {a, b, c, Is(last)}
<1>1. k \in Seq(S) /\ Len(k) = 4 /\ k[1] = a /\ k[2] = b /\ k[3] = c /\ k[4] = Is(last)
  OBVIOUS
<1> HIDE DEF k, S
<1>2. IsSeq(k) /\ Len(k) \in Nat \ {0} /\ DOMAIN k = 1..Len(k)
  BY <1>1, SomeSeq
<1>3. k[Len(k)] = {last}
  BY <1>1, Zenon DEF Is
<1>4. \A i \in 1..(Len(k) - 1) : Inside(k[i])
  <2>1. \A i \in 1..(Len(k) - 1) : i = 1 \/ i = 2 \/ i = 3
    BY <1>1
  <2> QED BY <1>1, <2>1, Zenon
<1>5. Closed(k, last)
  BY <1>2, <1>3, <1>4, Zenon DEF Closed
<1> QED BY <1>5, Zenon DEF k

\* Four kinds before it.
LEMMA ClosedFive ==
  ASSUME NEW last, NEW a, Inside(a), NEW b, Inside(b), NEW c, Inside(c), NEW d, Inside(d)
  PROVE  Closed(<<a, b, c, d, Is(last)>>, last)
<1> DEFINE k == <<a, b, c, d, Is(last)>>
           S == {a, b, c, d, Is(last)}
<1>1. k \in Seq(S) /\ Len(k) = 5 /\ k[1] = a /\ k[2] = b /\ k[3] = c /\ k[4] = d /\ k[5] = Is(last)
  OBVIOUS
<1> HIDE DEF k, S
<1>2. IsSeq(k) /\ Len(k) \in Nat \ {0} /\ DOMAIN k = 1..Len(k)
  BY <1>1, SomeSeq
<1>3. k[Len(k)] = {last}
  BY <1>1, Zenon DEF Is
<1>4. \A i \in 1..(Len(k) - 1) : Inside(k[i])
  <2>1. \A i \in 1..(Len(k) - 1) : i = 1 \/ i = 2 \/ i = 3 \/ i = 4
    BY <1>1
  <2> QED BY <1>1, <2>1, Zenon
<1>5. Closed(k, last)
  BY <1>2, <1>3, <1>4, Zenon DEF Closed
<1> QED BY <1>5, Zenon DEF k


\* A generic setting's kinds.
LEMMA HeadAt ==
  /\ IsSeq(GenericHead) /\ Len(GenericHead) = 3
  /\ GenericHead[1] = Is("IdentGeneric") /\ GenericHead[2] = Is("TlvCode") /\ GenericHead[3] = Is("integer")
<1> DEFINE k == GenericHead
           S == {Is("IdentGeneric"), Is("TlvCode"), Is("integer")}
<1>1. /\ k \in Seq(S) /\ Len(k) = 3
      /\ k[1] = Is("IdentGeneric") /\ k[2] = Is("TlvCode") /\ k[3] = Is("integer")
  BY DEF GenericHead
<1> HIDE DEF k, S
<1>2. IsSeq(k)
  BY <1>1, SomeSeq
<1> QED BY <1>1, <1>2, Zenon DEF k

\* What JoinSome says of s and t, as one fact about their concatenation u.
Both(s, t, u) ==
  /\ IsSeq(u) /\ Len(u) = Len(s) + Len(t) /\ DOMAIN u = 1..(Len(s) + Len(t))
  /\ \A i \in 1..Len(s) : u[i] = s[i]
  /\ \A i \in 1..Len(t) : u[Len(s) + i] = t[i]

\* A concatenation is its two parts, one after the other.
LEMMA BothIs ==
  ASSUME NEW s, IsSeq(s), NEW t, IsSeq(t)
  PROVE  Both(s, t, s \o t)
  BY JoinSome DEF Both

\* A generic setting ends where what follows its number does.
LEMMA ClosedGeneric ==
  ASSUME NEW kinds, NEW last, Closed(kinds, last)
  PROVE  Closed(GenericHead \o kinds, last)
<1> DEFINE h == GenericHead
           u == h \o kinds
           n == Len(kinds)
<1>1. IsSeq(kinds) /\ n \in Nat \ {0} /\ kinds[n] = {last} /\ \A i \in 1..(n - 1) : Inside(kinds[i])
  BY DEF Closed
<1>2. /\ IsSeq(h) /\ Len(h) = 3
      /\ \A i \in 1..3 : Inside(h[i])
  <2>1. Inside(Is("IdentGeneric")) /\ Inside(Is("TlvCode")) /\ Inside(Is("integer"))
    BY DEF Inside, Is, Brackets
  <2>2. \A i \in 1..3 : i = 1 \/ i = 2 \/ i = 3
    OBVIOUS
  <2> HIDE DEF h
  <2>3. IsSeq(h) /\ Len(h) = 3 /\ h[1] = Is("IdentGeneric") /\ h[2] = Is("TlvCode") /\ h[3] = Is("integer")
    BY HeadAt, Zenon DEF h
  <2> QED BY <2>1, <2>2, <2>3, Zenon
<1> HIDE DEF h
<1>3. /\ IsSeq(u) /\ Len(u) = 3 + n /\ DOMAIN u = 1..(3 + n)
      /\ \A i \in 1..3 : u[i] = h[i]
      /\ \A i \in 1..n : u[3 + i] = kinds[i]
  <2>1. /\ IsSeq(h \o kinds) /\ Len(h \o kinds) = Len(h) + Len(kinds)
        /\ DOMAIN (h \o kinds) = 1..(Len(h) + Len(kinds))
        /\ \A i \in 1..Len(h) : (h \o kinds)[i] = h[i]
        /\ \A i \in 1..Len(kinds) : (h \o kinds)[Len(h) + i] = kinds[i]
    <3>1. IsSeq(h) /\ IsSeq(kinds)
      BY <1>1, <1>2
    <3>2. Both(h, kinds, h \o kinds)
      BY <3>1, BothIs, Zenon
    <3> QED BY <3>2, Zenon DEF Both
  <2> QED BY <1>2, <2>1, Zenon
<1> HIDE DEF u, n
<1>4. Len(u) \in Nat \ {0} /\ DOMAIN u = 1..Len(u) /\ u[Len(u)] = {last}
  <2>1. 3 + n \in Nat \ {0} /\ n \in 1..n
    BY <1>1
  <2>2. u[3 + n] = kinds[n]
    BY <1>3, <2>1, Zenon
  <2> QED BY <1>1, <1>3, <2>1, <2>2, Zenon
<1>5. \A i \in 1..(Len(u) - 1) : Inside(u[i])
  <2> SUFFICES ASSUME NEW i \in 1..(Len(u) - 1) PROVE Inside(u[i])
    OBVIOUS
  <2>1. CASE i <= 3
    <3>1. i \in 1..3
      BY <2>1
    <3> QED BY <1>2, <1>3, <3>1
  <2>2. CASE ~(i <= 3)
    <3>1. i - 3 \in 1..(n - 1) /\ i - 3 \in 1..n /\ 3 + (i - 3) = i
      BY <1>1, <1>3, <2>2
    <3>2. u[3 + (i - 3)] = kinds[i - 3] /\ Inside(kinds[i - 3])
      BY <1>1, <1>3, <3>1, Zenon
    <3> QED BY <3>1, <3>2
  <2> QED BY <2>1, <2>2
<1>6. Closed(u, last)
  BY <1>3, <1>4, <1>5, Zenon DEF Closed
<1> QED BY <1>6, Zenon DEF u, h

\* Kinds of tokens that are no braces.
Plain == {"Identifier", "IdentCvc", "string", "DigitMap", "IdentSnmpW", "IdentSnmpSet", "integer", "hex",
          "TlvString", "TlvStringZero", "TlvLength", "TlvValue", "TlvType"}
\* No kind that a statement is made of is a bracket, or the end of the text.
LEMMA InsideKinds ==
  /\ \A k \in Plain : Inside(Is(k))
  /\ Inside(ValueKinds) /\ Inside(OidKinds)
  /\ \A t \in TypeKinds : Inside(Is(t)) /\ Inside(Wanted(t))
<1>1. \A k \in Plain : Inside(Is(k))
  BY DEF Inside, Is, Brackets, Plain
<1>2. Inside(ValueKinds) /\ Inside(OidKinds)
  BY DEF Inside, Brackets, ValueKinds, OidKinds
<1>3. \A t \in TypeKinds : Inside(Is(t))
  BY DEF Inside, Is, Brackets, TypeKinds
<1>4. \A t \in TypeKinds : Inside(Wanted(t))
  BY <1>2 DEF Inside, Brackets, TypeKinds, Wanted, OidKinds
<1> QED BY <1>1, <1>2, <1>3, <1>4

\* Every statement ends with its first semicolon, every head with its first brace.
LEMMA AllClosed ==
  /\ \A kinds \in Statements : Closed(kinds, "Semi")
  /\ \A kinds \in Heads : Closed(kinds, "LBrace")
<1>1. /\ Inside(Is("Identifier")) /\ Inside(Is("IdentCvc")) /\ Inside(Is("string")) /\ Inside(Is("DigitMap"))
      /\ Inside(Is("IdentSnmpW")) /\ Inside(Is("IdentSnmpSet")) /\ Inside(Is("integer")) /\ Inside(Is("hex"))
      /\ Inside(Is("TlvString")) /\ Inside(Is("TlvStringZero")) /\ Inside(Is("TlvLength"))
      /\ Inside(Is("TlvValue")) /\ Inside(Is("TlvType")) /\ Inside(ValueKinds) /\ Inside(OidKinds)
  BY InsideKinds, Zenon DEF Plain
<1>2. ASSUME NEW kinds \in Statements PROVE Closed(kinds, "Semi")
  <2>1. CASE kinds = <<Is("Identifier"), ValueKinds, Is("Semi")>>
    BY <1>1, <2>1, ClosedThree, Zenon
  <2>2. CASE kinds \in {<<Is("IdentCvc"), Is("string"), Is("Semi")>>, <<Is("DigitMap"), Is("string"), Is("Semi")>>}
    BY <1>1, <2>2, ClosedThree, Zenon
  <2>3. CASE kinds = <<Is("IdentSnmpW"), OidKinds, Number, Is("Semi")>>
    BY <1>1, <2>3, ClosedFour, Zenon DEF Number
  <2>4. CASE kinds \in {GenericOf(<<Is("TlvString"), Is("string"), Is("Semi")>>),
                        GenericOf(<<Is("TlvStringZero"), Is("string"), Is("Semi")>>)}
    <3>1. /\ Closed(<<Is("TlvString"), Is("string"), Is("Semi")>>, "Semi")
          /\ Closed(<<Is("TlvStringZero"), Is("string"), Is("Semi")>>, "Semi")
      BY <1>1, ClosedThree, Zenon
    <3>2. /\ Closed(GenericOf(<<Is("TlvString"), Is("string"), Is("Semi")>>), "Semi")
          /\ Closed(GenericOf(<<Is("TlvStringZero"), Is("string"), Is("Semi")>>), "Semi")
      BY <3>1, ClosedGeneric, Zenon DEF GenericOf
    <3> QED BY <2>4, <3>2, Zenon
  <2>5. CASE kinds = GenericOf(<<Is("TlvLength"), Number, Is("TlvValue"), Is("hex"), Is("Semi")>>)
    BY <1>1, <2>5, ClosedFive, ClosedGeneric, Zenon DEF GenericOf, Number
  <2>6. ASSUME NEW t \in {"Integer", "Short", "Char", "IPAddress"},
               kinds = GenericOf(<<Is("TlvType"), Is(t), Is("TlvValue"), ValueKinds, Is("Semi")>>)
        PROVE  Closed(kinds, "Semi")
    <3>1. t \in TypeKinds
      BY DEF TypeKinds
    <3>2. Inside(Is(t))
      BY <3>1, InsideKinds, Zenon
    <3>3. Closed(<<Is("TlvType"), Is(t), Is("TlvValue"), ValueKinds, Is("Semi")>>, "Semi")
      BY <1>1, <3>2, ClosedFive, Zenon
    <3> QED BY <2>6, <3>3, ClosedGeneric, Zenon DEF GenericOf
  <2>7. ASSUME NEW t \in TypeKinds, kinds = <<Is("IdentSnmpSet"), OidKinds, Is(t), Wanted(t), Is("Semi")>>
        PROVE  Closed(kinds, "Semi")
    <3>1. Inside(Is(t)) /\ Inside(Wanted(t))
      BY InsideKinds, Zenon
    <3> QED BY <1>1, <2>7, <3>1, ClosedFive, Zenon
  <2> QED BY <2>1, <2>2, <2>3, <2>4, <2>5, <2>6, <2>7, Zenon DEF Statements
<1>3. ASSUME NEW kinds \in Heads PROVE Closed(kinds, "LBrace")
  <2>1. CASE kinds = <<Is("Identifier"), Is("LBrace")>>
    BY <1>1, <2>1, ClosedTwo, Zenon
  <2>2. CASE kinds = GenericOf(<<Is("LBrace")>>)
    BY <2>2, ClosedOne, ClosedGeneric, Zenon DEF GenericOf
  <2> QED BY <2>1, <2>2, Zenon DEF Heads
<1> QED BY <1>2, <1>3

-----------------------------------------------------------------------------
(* The statement at hand.                                                  *)

\* The n tokens at hand.
Item(n) == SubSeq(toks, pos, pos + n - 1)

\* A part of a sequence.
LEMMA PartAt ==
  ASSUME NEW S, NEW s \in Seq(S), NEW a \in Nat \ {0}, NEW n \in Nat, a + n - 1 <= Len(s)
  PROVE  LET t == SubSeq(s, a, a + n - 1)
         IN t \in Seq(S) /\ Len(t) = n /\ DOMAIN t = 1..n /\ \A j \in 1..n : t[j] = s[a + j - 1]
  OBVIOUS

\* What reading them says of them.
LEMMA Itemized ==
  ASSUME Stacked, NEW kinds, NEW last \in Brackets, Closed(kinds, last), Reads(kinds)
  PROVE  LET n == Len(kinds)
         IN /\ n \in Nat \ {0} /\ pos + n - 1 \in 1..Len(toks) /\ Len(toks) \in Nat
            /\ toks \in Seq([kind : STRING, of : Seq(Nat)])
            /\ Len(Item(n)) = n /\ DOMAIN Item(n) = 1..n /\ DOMAIN kinds = 1..n
            /\ \A j \in 1..n : /\ Item(n)[j] = toks[pos + j - 1] /\ Kind(j) = toks[pos + j - 1].kind
                               /\ Of(j) = toks[pos + j - 1].of /\ Kind(j) \in kinds[j]
                               /\ pos + j - 1 \in 1..Len(toks)
            /\ toks[pos + n - 1].kind = last
            /\ \A j \in 1..(n - 1) : toks[pos + j - 1].kind \notin Brackets
<1> DEFINE n == Len(kinds)
           s == Item(n)
<1>1. /\ n \in Nat \ {0} /\ DOMAIN kinds = 1..n /\ kinds[n] = {last}
      /\ \A j \in 1..(n - 1) : Inside(kinds[j])
  BY Zenon DEF Closed
<1> HIDE DEF n
<1>2. \A j \in 1..n : Kind(j) \in kinds[j]
  BY <1>1, Zenon DEF Reads
<1>3. \A j \in 1..(n - 1) : Kind(j) # "end" /\ Kind(j) \notin Brackets
  <2> SUFFICES ASSUME NEW j \in 1..(n - 1) PROVE Kind(j) # "end" /\ Kind(j) \notin Brackets
    OBVIOUS
  <2>1. Inside(kinds[j]) /\ Kind(j) \in kinds[j]
    <3>1. j \in 1..n
      BY <1>1
    <3> QED BY <1>1, <1>2, <3>1, Zenon
  <2> QED BY <2>1 DEF Inside
<1>4. Kind(n) = last /\ Kind(n) # "end"
  <2>1. n \in 1..n
    BY <1>1
  <2>2. Kind(n) = last
    BY <1>1, <1>2, <2>1
  <2>3. last # "end"
    BY DEF Brackets
  <2> QED BY <2>2, <2>3
<1>5. \A j \in 1..n : j \in Nat \ {0} /\ Kind(j) # "end"
  <2> SUFFICES ASSUME NEW j \in 1..n PROVE j \in Nat \ {0} /\ Kind(j) # "end"
    OBVIOUS
  <2>1. j \in Nat \ {0} /\ (j \in 1..(n - 1) \/ j = n)
    BY <1>1
  <2> QED BY <1>3, <1>4, <2>1, Zenon
<1>6. \A j \in 1..n : /\ toks \in Seq([kind : STRING, of : Seq(Nat)]) /\ Len(toks) \in Nat
                      /\ pos + j - 1 \in 1..Len(toks) /\ Kind(j) = toks[pos + j - 1].kind
                      /\ Of(j) = toks[pos + j - 1].of
  <2> SUFFICES ASSUME NEW j \in 1..n
               PROVE  /\ toks \in Seq([kind : STRING, of : Seq(Nat)]) /\ Len(toks) \in Nat
                      /\ pos + j - 1 \in 1..Len(toks) /\ Kind(j) = toks[pos + j - 1].kind
                      /\ Of(j) = toks[pos + j - 1].of
    OBVIOUS
  <2>1. j \in Nat \ {0} /\ Kind(j) # "end" /\ toks \in Inputs /\ pos \in Nat \ {0}
    BY <1>5, Zenon DEF Stacked
  <2>2. /\ toks \in Seq([kind : STRING, of : Seq(Nat)]) /\ Len(toks) \in Nat
        /\ Next1(j) \in 1..Len(toks) /\ Next1(j) = pos + j - 1
        /\ Kind(j) = toks[Next1(j)].kind /\ Of(j) = toks[Next1(j)].of
    BY <2>1, InText, Zenon
  <2> QED BY <2>2
<1>7. /\ n \in 1..n /\ pos \in Nat \ {0}
      /\ toks \in Seq([kind : STRING, of : Seq(Nat)]) /\ Len(toks) \in Nat /\ pos + n - 1 \in 1..Len(toks)
  <2>1. n \in 1..n
    BY <1>1
  <2>2. pos \in Nat \ {0}
    BY DEF Stacked
  <2> QED BY <1>6, <2>1, <2>2, Zenon
<1>8. /\ Len(s) = n /\ DOMAIN s = 1..n
      /\ \A j \in 1..n : s[j] = toks[pos + j - 1]
  BY <1>1, <1>7, PartAt DEF Item
<1> HIDE DEF s
<1>9. toks[pos + n - 1].kind = last
  BY <1>4, <1>6, <1>7, Zenon
<1>10. \A j \in 1..(n - 1) : toks[pos + j - 1].kind \notin Brackets
  <2> SUFFICES ASSUME NEW j \in 1..(n - 1) PROVE toks[pos + j - 1].kind \notin Brackets
    OBVIOUS
  <2>1. j \in 1..n
    BY <1>1
  <2> QED BY <1>3, <1>6, <2>1, Zenon
<1> QED BY <1>1, <1>2, <1>6, <1>7, <1>8, <1>9, <1>10, Zenon DEF n, s

\* The code it begins with.
LEMMA CodeNow ==
  ASSUME Stacked, NEW kinds, NEW last \in Brackets, Closed(kinds, last), Reads(kinds)
  PROVE  LET p == Item(Len(kinds))
         IN /\ p[1].kind = Kind(1)
            /\ Kind(1) # "IdentGeneric" => CodeOf(p) = Code(Of(1))
            /\ Kind(1) = "IdentGeneric" /\ Len(kinds) >= 3 /\ Kind(3) = "integer" => CodeOf(p) = AsByte(3)
<1> DEFINE n == Len(kinds)
           p == Item(n)
<1>1. /\ n \in Nat \ {0} /\ toks \in Seq([kind : STRING, of : Seq(Nat)])
      /\ \A j \in 1..n : /\ p[j] = toks[pos + j - 1] /\ Kind(j) = toks[pos + j - 1].kind
                         /\ Of(j) = toks[pos + j - 1].of /\ pos + j - 1 \in 1..Len(toks)
  BY Itemized, Zenon
<1> HIDE DEF n, p
<1>2. 1 \in 1..n
  BY <1>1
<1>3. p[1].kind = Kind(1) /\ p[1].of = Of(1)
  BY <1>1, <1>2, Zenon
<1>4. Kind(1) # "IdentGeneric" => CodeOf(p) = Code(Of(1))
  BY <1>3 DEF CodeOf
<1>5. ASSUME Kind(1) = "IdentGeneric", n >= 3, Kind(3) = "integer" PROVE CodeOf(p) = AsByte(3)
  <2> DEFINE o == Of(3)
             t == toks[pos + 3 - 1]
  <2>1. 3 \in 1..n
    BY <1>1, <1>5
  <2>2. p[3] = t /\ o = t.of /\ t.kind = "integer" /\ pos + 3 - 1 \in 1..Len(toks)
    BY <1>1, <1>5, <2>1, Zenon
  <2>3. t \in [kind : STRING, of : Seq(Nat)] /\ pos + 3 - 1 \in DOMAIN toks
    <3> DEFINE q == pos + 3 - 1
    <3>1. q \in 1..Len(toks)
      BY <2>2
    <3> DEFINE R == [kind : STRING, of : Seq(Nat)]
    <3>2. toks \in Seq(R)
      BY <1>1
    <3> HIDE DEF q, R
    <3>3. toks[q] \in R /\ q \in DOMAIN toks
      BY <3>1, <3>2
    <3> QED BY <3>3, Zenon DEF q, R
  <2>4. \A s \in Inputs : \A i \in DOMAIN s : s[i].kind = "integer" => Len(s[i].of) = 5
    BY ParseAssumption, Zenon
  <2>5. toks \in Inputs
    BY Zenon DEF Stacked
  <2> HIDE DEF t
  <2>6. Len(o) = 5
    BY <2>2, <2>3, <2>4, <2>5, Zenon DEF t
  <2>7. o \in Seq(Nat)
    BY <2>2, <2>3
  <2>8. AsByte(3) = Tail(o)[4]
    BY <1>5 DEF AsByte, NumWord
  <2> HIDE DEF o
  <2>9. Tail(o)[4] = o[5]
    <3>1. 4 \in 1..(Len(o) - 1)
      BY <2>6
    <3> QED BY <2>7, <3>1
  <2>10. CodeOf(p) = o[5]
    BY <1>3, <1>5, <2>2, Zenon DEF CodeOf, o
  <2> QED BY <2>8, <2>9, <2>10, Zenon DEF o
<1> QED BY <1>3, <1>4, <1>5, Zenon DEF n, p

\* The first and the third token of a generic setting.
LEMMA GenericReads ==
  ASSUME NEW kinds, NEW last, Closed(kinds, last), Reads(GenericHead \o kinds)
  PROVE  /\ Kind(1) = "IdentGeneric" /\ Kind(3) = "integer"
         /\ Len(GenericHead \o kinds) = 3 + Len(kinds) /\ Len(kinds) \in Nat \ {0}
         /\ \A j \in 1..Len(kinds) : Kind(3 + j) \in kinds[j]
<1> DEFINE h == GenericHead
           u == h \o kinds
           n == Len(kinds)
<1>1. IsSeq(kinds) /\ n \in Nat \ {0}
  BY Zenon DEF Closed
<1> HIDE DEF h
<1>2. IsSeq(h) /\ Len(h) = 3 /\ h[1] = Is("IdentGeneric") /\ h[3] = Is("integer")
  BY HeadAt, Zenon DEF h
<1>3. /\ Len(u) = 3 + n /\ DOMAIN u = 1..(3 + n)
      /\ \A i \in 1..3 : u[i] = h[i]
      /\ \A i \in 1..n : u[3 + i] = kinds[i]
  <2>1. /\ Len(h \o kinds) = Len(h) + Len(kinds)
        /\ DOMAIN (h \o kinds) = 1..(Len(h) + Len(kinds))
        /\ \A i \in 1..Len(h) : (h \o kinds)[i] = h[i]
        /\ \A i \in 1..Len(kinds) : (h \o kinds)[Len(h) + i] = kinds[i]
    <3>1. IsSeq(h) /\ IsSeq(kinds)
      BY <1>1, <1>2
    <3>2. Both(h, kinds, h \o kinds)
      BY <3>1, BothIs, Zenon
    <3> QED BY <3>2, Zenon DEF Both
  <2> QED BY <1>2, <2>1, Zenon
<1>4. \A j \in DOMAIN u : Kind(j) \in u[j]
  BY Zenon DEF Reads, h
<1> HIDE DEF u, n
<1>5. 1 \in 1..(3 + n) /\ 3 \in 1..(3 + n) /\ 1 \in 1..3 /\ 3 \in 1..3
      /\ \A j \in 1..n : 3 + j \in 1..(3 + n)
  BY <1>1
<1>6. Kind(1) \in Is("IdentGeneric") /\ Kind(3) \in Is("integer")
  <2>1. u[1] = Is("IdentGeneric") /\ u[3] = Is("integer")
    BY <1>2, <1>3, <1>5, Zenon
  <2>2. Kind(1) \in u[1] /\ Kind(3) \in u[3]
    BY <1>3, <1>4, <1>5, Zenon
  <2> QED BY <2>1, <2>2, Zenon
<1>7. \A j \in 1..n : Kind(3 + j) \in kinds[j]
  BY <1>3, <1>4, <1>5, Zenon
<1>8. Kind(1) = "IdentGeneric" /\ Kind(3) = "integer"
  BY <1>6 DEF Is
<1> QED BY <1>1, <1>3, <1>7, <1>8, Zenon DEF u, n, h

\* A statement of these kinds makes these settings.
States(kinds, more) ==
  /\ kinds \in Statements /\ Reads(kinds) /\ Add(Len(kinds), more)
  /\ IsSeq(more) /\ Len(more) = Copies(Item(Len(kinds)))
  /\ \A i \in 1..Len(more) : \E v : more[i] = Leaf(CodeOf(Item(Len(kinds))), v)

\* A statement that is no certificate makes one setting.
LEMMA OneSetting ==
  ASSUME Stacked, NEW kinds \in Statements, Reads(kinds), Kind(1) # "IdentCvc",
         NEW code, code = CodeOf(Item(Len(kinds))), NEW v, Add(Len(kinds), <<Leaf(code, v)>>)
  PROVE  States(kinds, <<Leaf(code, v)>>)
<1> DEFINE p == Item(Len(kinds))
           more == <<Leaf(code, v)>>
<1>1. Closed(kinds, "Semi") /\ "Semi" \in Brackets
  BY AllClosed DEF Brackets
<1>2. p[1].kind = Kind(1)
  BY <1>1, CodeNow, Zenon
<1>3. Copies(p) = 1
  BY <1>2, Zenon DEF Copies
<1>4. IsSeq(more) /\ Len(more) = 1 /\ more[1] = Leaf(code, v)
  BY Single
<1>5. Add(Len(kinds), more)
  OBVIOUS
<1> HIDE DEF p, more
<1>6. \A i \in 1..Len(more) : \E w : more[i] = Leaf(CodeOf(p), w)
  <2>1. \A i \in 1..Len(more) : i = 1
    BY <1>4
  <2>2. code = CodeOf(p)
    BY DEF p
  <2> QED BY <1>4, <2>1, <2>2
<1>7. States(kinds, more)
  BY <1>3, <1>4, <1>5, <1>6, Zenon DEF States, p
<1> QED BY <1>7 DEF more

\* How many settings a certificate of some length takes.
LEMMA CopiesAre ==
  ASSUME NEW l \in Nat \ {0}, NEW k \in Nat \ {0}, ChunkSize * (k - 1) < l, l <= ChunkSize * k
  PROVE  (CHOOSE n \in 1..l : l \in ChunkSize * (n - 1) + 1 .. ChunkSize * n) = k
<1> DEFINE c == ChunkSize
           Holds(n) == c * (n - 1) < l /\ l <= c * n
<1>1. c \in Nat \ {0}
  BY ParseAssumption
<1>2. \A n \in Nat \ {0} : n - 1 \in Nat /\ c * n \in Nat /\ c * (n - 1) \in Nat
  <2> SUFFICES ASSUME NEW n \in Nat \ {0} PROVE n - 1 \in Nat /\ c * n \in Nat /\ c * (n - 1) \in Nat
    OBVIOUS
  <2>1. n - 1 \in Nat /\ n \in Nat
    OBVIOUS
  <2> HIDE DEF c
  <2> QED BY <1>1, <2>1, Multiples
<1>3. \A n \in Nat \ {0} : Holds(n) <=> l \in c * (n - 1) + 1 .. c * n
  <2> SUFFICES ASSUME NEW n \in Nat \ {0} PROVE Holds(n) <=> l \in c * (n - 1) + 1 .. c * n
    OBVIOUS
  <2> DEFINE a == c * (n - 1)
             b == c * n
  <2>1. a \in Nat /\ b \in Nat
    BY <1>2
  <2>2. Holds(n) <=> a < l /\ l <= b
    OBVIOUS
  <2> HIDE DEF Holds, a, b
  <2>3. Holds(n) <=> l \in a + 1 .. b
    BY <2>1, <2>2
  <2> QED BY <2>3 DEF a, b
<1>4. Holds(k)
  OBVIOUS
<1>5. \A m, n \in Nat \ {0} : Holds(m) /\ Holds(n) => ~(m < n)
  <2> SUFFICES ASSUME NEW m \in Nat \ {0}, NEW n \in Nat \ {0}, Holds(m), Holds(n), m < n PROVE FALSE
    BY Zenon
  <2>1. m \in Nat /\ n - 1 \in Nat /\ m <= n - 1
    OBVIOUS
  <2>2. l <= c * m /\ c * (n - 1) < l
    OBVIOUS
  <2> HIDE DEF c, Holds
  <2>3. c * m <= c * (n - 1)
    BY <1>1, <2>1, Multiples
  <2>4. c * m \in Nat /\ c * (n - 1) \in Nat
    BY <1>2
  <2> QED BY <2>2, <2>3, <2>4
<1>6. k \in 1..l
  <2>1. k - 1 \in Nat
    OBVIOUS
  <2> DEFINE j == k - 1
  <2>2. c * j < l /\ c * j \in Nat
    BY <1>2
  <2>3. j <= c * j
    <3>1. CASE j = 0
      BY <2>2, <3>1
    <3>2. CASE j # 0
      <4>1. j \in Nat \ {0} /\ 1 \in Nat /\ c \in Nat /\ 1 <= c
        BY <1>1, <2>1, <3>2
      <4> HIDE DEF j, c
      <4>2. j * 1 <= j * c
        BY <4>1, Multiples
      <4> QED BY <4>1, <4>2
    <3> QED BY <3>1, <3>2
  <2> HIDE DEF j, c
  <2>4. j < l
    BY <2>1, <2>2, <2>3 DEF j
  <2> QED BY <2>4 DEF j
<1> HIDE DEF Holds
<1>7. \A n \in 1..l : n \in Nat \ {0}
  OBVIOUS
<1> DEFINE x == CHOOSE n \in 1..l : l \in c * (n - 1) + 1 .. c * n
<1>8. x \in 1..l /\ l \in c * (x - 1) + 1 .. c * x
  <2>1. k \in 1..l /\ l \in c * (k - 1) + 1 .. c * k
    BY <1>3, <1>4, <1>6
  <2> HIDE DEF c
  <2> QED BY <2>1, Zenon
<1> HIDE DEF x
<1>9. x \in Nat \ {0} /\ Holds(x)
  BY <1>3, <1>7, <1>8, Zenon
<1>10. ~(x < k) /\ ~(k < x)
  BY <1>4, <1>5, <1>9, Zenon
<1>11. x = k
  BY <1>9, <1>10
<1> QED BY <1>11 DEF x

\* A certificate's settings.
LEMMA CvcIs ==
  ASSUME Stacked, CvcFile
  PROVE  \E kinds, more : /\ States(kinds, more)
                          /\ \E data : /\ FileBytes(Of(2)) = {data} /\ data \in Seq(Byte) /\ data # <<>>
                                       /\ more = [i \in DOMAIN Chunks(data) |-> Leaf(Code(Of(1)), Chunks(data)[i])]
<1> DEFINE kinds == <<Is("IdentCvc"), Is("string"), Is("Semi")>>
           p == Item(3)
<1>1. kinds \in Statements /\ Len(kinds) = 3 /\ Reads(kinds)
  <2>1. kinds \in Statements
    BY Zenon DEF Statements
  <2>2. Reads(kinds)
    BY DEF CvcFile
  <2> QED BY <2>1, <2>2
<1>2. Closed(kinds, "Semi") /\ "Semi" \in Brackets
  BY <1>1, AllClosed DEF Brackets
<1>3. Kind(1) = "IdentCvc" /\ Kind(2) = "string"
  <2>1. 1 \in DOMAIN kinds /\ 2 \in DOMAIN kinds /\ kinds[1] = Is("IdentCvc") /\ kinds[2] = Is("string")
    OBVIOUS
  <2> HIDE DEF kinds
  <2>2. Kind(1) \in Is("IdentCvc") /\ Kind(2) \in Is("string")
    BY <1>1, <2>1 DEF Reads
  <2> QED BY <2>2 DEF Is
<1>4. PICK data \in FileBytes(Of(2)) :
         /\ data # <<>>
         /\ Add(3, [i \in DOMAIN Chunks(data) |-> Leaf(Code(Of(1)), Chunks(data)[i])])
  BY Zenon DEF CvcFile
<1> HIDE DEF kinds
<1>5. data \in Seq(Byte) /\ FileBytes(Of(2)) = {data}
  <2>1. toks \in Inputs /\ pos \in Nat \ {0}
    BY Zenon DEF Stacked
  <2>2. Kind(2) # "end" /\ 2 \in Nat \ {0}
    BY <1>3
  <2> QED BY <1>4, <2>1, <2>2, FileIs, Zenon
<1>6. PICK k \in Nat \ {0} :
           /\ DOMAIN Chunks(data) = 1..k /\ Chunks(data) \in [1..k -> Seq(Byte)]
           /\ ChunkSize * (k - 1) < Len(data) /\ Len(data) <= ChunkSize * k
  BY <1>4, <1>5, ChunksAre, Zenon
<1> DEFINE more == [i \in DOMAIN Chunks(data) |-> Leaf(Code(Of(1)), Chunks(data)[i])]
<1>7. IsSeq(more) /\ Len(more) = k /\ \A i \in 1..k : \E v : more[i] = Leaf(Code(Of(1)), v)
  <2> DEFINE M == {more[i] : i \in 1..k}
  <2>1. more = [i \in 1..k |-> Leaf(Code(Of(1)), Chunks(data)[i])]
    BY <1>6, Zenon
  <2>2. \A i \in 1..k : \E v : more[i] = Leaf(Code(Of(1)), v)
    BY <2>1, Zenon
  <2>3. DOMAIN more = 1..k /\ more = [i \in 1..k |-> more[i]]
    BY <2>1, Zenon
  <2> HIDE DEF more
  <2>4. more \in [1..k -> M]
    BY <2>3
  <2> HIDE DEF M
  <2>5. more \in Seq(M) /\ Len(more) = k
    BY <2>4, FixedSeq
  <2>6. IsSeq(more)
    BY <2>5, SomeSeq, Zenon
  <2> QED BY <2>2, <2>5, <2>6, Zenon
<1>8. p[1].kind = "IdentCvc" /\ p[2].of = Of(2) /\ CodeOf(p) = Code(Of(1))
  <2>1. \A j \in 1..Len(kinds) : Item(Len(kinds))[j] = toks[pos + j - 1] /\ Of(j) = toks[pos + j - 1].of
    BY <1>1, <1>2, Itemized, Zenon
  <2>2. 2 \in 1..Len(kinds)
    BY <1>1
  <2>3. Item(Len(kinds))[2].of = Of(2)
    BY <2>1, <2>2, Zenon
  <2>4. Item(Len(kinds))[1].kind = Kind(1) /\ (Kind(1) # "IdentGeneric" => CodeOf(Item(Len(kinds))) = Code(Of(1)))
    BY <1>1, <1>2, CodeNow, Zenon
  <2>5. Kind(1) # "IdentGeneric"
    BY <1>3
  <2> QED BY <1>1, <1>3, <2>3, <2>4, <2>5, Zenon
<1>9. Copies(p) = k
  <2> DEFINE l == Len(data)
  <2>1. l \in Nat \ {0}
    BY <1>4, <1>5
  <2>2. (CHOOSE d \in FileBytes(p[2].of) : TRUE) = data
    BY <1>5, <1>8
  <2>3. Copies(p) = CHOOSE n \in 1..l : l \in ChunkSize * (n - 1) + 1 .. ChunkSize * n
    BY <1>8, <2>2, Zenon DEF Copies
  <2>4. ChunkSize * (k - 1) < l /\ l <= ChunkSize * k
    BY <1>6
  <2> HIDE DEF l
  <2> QED BY <2>1, <2>3, <2>4, CopiesAre, Zenon
<1>10. Add(Len(kinds), more)
  BY <1>1, <1>4, Zenon
<1> HIDE DEF p
<1>11. \A i \in 1..Len(more) : \E v : more[i] = Leaf(CodeOf(p), v)
  BY <1>7, <1>8, Zenon
<1>12. Len(more) = Copies(p)
  BY <1>7, <1>9, Zenon
<1>13. States(kinds, more)
  <2> HIDE DEF more
  <2> QED BY <1>1, <1>7, <1>10, <1>11, <1>12, Zenon DEF States, p
<1> QED BY <1>4, <1>5, <1>13, Zenon

\* The first kind of a tuple of kinds.
LEMMA FirstKind ==
  ASSUME NEW kinds, NEW last, Closed(kinds, last), Reads(kinds), NEW a, kinds[1] = Is(a)
  PROVE  Kind(1) = a
<1>1. 1 \in DOMAIN kinds
  <2>1. DOMAIN kinds = 1..Len(kinds) /\ Len(kinds) \in Nat \ {0}
    BY Zenon DEF Closed
  <2> QED BY <2>1
<1>2. Kind(1) \in kinds[1]
  BY <1>1, Zenon DEF Reads
<1> QED BY <1>2 DEF Is

\* A generic setting that is read as some kinds is read as others that its tokens are of.
LEMMA GenericSame ==
  ASSUME NEW loose, NEW ks, Closed(loose, "Semi"), Closed(ks, "Semi"), Len(loose) = Len(ks),
         Reads(GenericHead \o loose), \A j \in 1..Len(ks) : Kind(3 + j) \in ks[j]
  PROVE  Reads(GenericHead \o ks)
<1> DEFINE h == GenericHead
           n == Len(ks)
           u == h \o ks
           w == h \o loose
<1>1. IsSeq(ks) /\ IsSeq(loose) /\ n \in Nat \ {0} /\ Len(loose) = n
  BY Zenon DEF Closed
<1> HIDE DEF h
<1>2. IsSeq(h) /\ Len(h) = 3
  BY HeadAt, Zenon DEF h
<1>3. /\ DOMAIN u = 1..(3 + n) /\ DOMAIN w = 1..(3 + n)
      /\ \A i \in 1..3 : u[i] = h[i] /\ w[i] = h[i]
      /\ \A i \in 1..n : u[3 + i] = ks[i]
  <2>1. /\ DOMAIN (h \o ks) = 1..(Len(h) + Len(ks))
        /\ \A i \in 1..Len(h) : (h \o ks)[i] = h[i]
        /\ \A i \in 1..Len(ks) : (h \o ks)[Len(h) + i] = ks[i]
    <3>1. IsSeq(h) /\ IsSeq(ks)
      BY <1>1, <1>2
    <3> QED BY <3>1, JoinSome
  <2>2. /\ DOMAIN (h \o loose) = 1..(Len(h) + Len(loose))
        /\ \A i \in 1..Len(h) : (h \o loose)[i] = h[i]
    <3>1. IsSeq(h) /\ IsSeq(loose)
      BY <1>1, <1>2
    <3> QED BY <3>1, JoinSome
  <2> QED BY <1>1, <1>2, <2>1, <2>2, Zenon
<1>4. \A j \in DOMAIN w : Kind(j) \in w[j]
  BY Zenon DEF Reads, h
<1> HIDE DEF u, w
<1>5. \A j \in 1..(3 + n) : Kind(j) \in u[j]
  <2> SUFFICES ASSUME NEW j \in 1..(3 + n) PROVE Kind(j) \in u[j]
    OBVIOUS
  <2>1. CASE j <= 3
    <3>1. j \in 1..3
      BY <2>1
    <3> QED BY <1>3, <1>4, <3>1, Zenon
  <2>2. CASE ~(j <= 3)
    <3>1. j - 3 \in 1..n /\ 3 + (j - 3) = j
      BY <1>1, <2>2
    <3>2. Kind(3 + (j - 3)) \in ks[j - 3] /\ u[3 + (j - 3)] = ks[j - 3]
      BY <1>3, <3>1, Zenon DEF n
    <3> QED BY <3>1, <3>2
  <2> QED BY <2>1, <2>2
<1>6. Reads(u)
  BY <1>3, <1>5, Zenon DEF Reads
<1> QED BY <1>6, Zenon DEF u, h

\* Whatever the parser reads as a statement is one of the grammar.
LEMMA StatementIs ==
  ASSUME Stacked,
         \/ Setting \/ CvcFile \/ WriteControl \/ MibObject \/ DigitMap
         \/ GenericString \/ GenericStringZero \/ GenericHex \/ GenericTyped
  PROVE  stage = "reading" /\ \E kinds, more : States(kinds, more)
<1>1. CASE Setting
  <2> DEFINE kinds == <<Is("Identifier"), ValueKinds, Is("Semi")>>
  <2>1. kinds \in Statements /\ Len(kinds) = 3 /\ kinds[1] = Is("Identifier")
    <3>1. kinds \in Statements
      BY Zenon DEF Statements
    <3> QED BY <3>1
  <2>2. stage = "reading" /\ Reads(kinds) /\ \E v : Add(3, <<Leaf(Code(Of(1)), v)>>)
    BY <1>1, Zenon DEF Setting, Reading
  <2> HIDE DEF kinds
  <2>3. Closed(kinds, "Semi") /\ "Semi" \in Brackets
    BY <2>1, AllClosed DEF Brackets
  <2>4. Kind(1) = "Identifier"
    BY <2>1, <2>2, <2>3, FirstKind, Zenon
  <2>5. Kind(1) # "IdentGeneric" /\ Kind(1) # "IdentCvc"
    BY <2>4
  <2>6. Code(Of(1)) = CodeOf(Item(Len(kinds)))
    BY <2>2, <2>3, <2>5, CodeNow, Zenon
  <2>7. \E v : Add(Len(kinds), <<Leaf(Code(Of(1)), v)>>)
    BY <2>1, <2>2, Zenon
  <2> QED BY <2>1, <2>2, <2>5, <2>6, <2>7, OneSetting, Zenon
<1>2. CASE CvcFile
  BY <1>2, CvcIs, Zenon DEF CvcFile, Reading
<1>3. CASE WriteControl
  <2> DEFINE kinds == <<Is("IdentSnmpW"), OidKinds, Is("integer"), Is("Semi")>>
  <2>1. kinds \in Statements /\ Len(kinds) = 4 /\ kinds[1] = Is("IdentSnmpW")
    <3>1. kinds \in Statements
      BY Zenon DEF Statements, Number
    <3> QED BY <3>1
  <2>2. stage = "reading" /\ Reads(kinds) /\ \E v : Add(4, <<Leaf(Code(Of(1)), v)>>)
    BY <1>3, Zenon DEF WriteControl, Reading
  <2> HIDE DEF kinds
  <2>3. Closed(kinds, "Semi") /\ "Semi" \in Brackets
    BY <2>1, AllClosed DEF Brackets
  <2>4. Kind(1) = "IdentSnmpW"
    BY <2>1, <2>2, <2>3, FirstKind, Zenon
  <2>5. Kind(1) # "IdentGeneric" /\ Kind(1) # "IdentCvc"
    BY <2>4
  <2>6. Code(Of(1)) = CodeOf(Item(Len(kinds)))
    BY <2>2, <2>3, <2>5, CodeNow, Zenon
  <2>7. \E v : Add(Len(kinds), <<Leaf(Code(Of(1)), v)>>)
    BY <2>1, <2>2, Zenon
  <2> QED BY <2>1, <2>2, <2>5, <2>6, <2>7, OneSetting, Zenon
<1>4. CASE MibObject
  <2> DEFINE t == Kind(3)
             kinds == <<Is("IdentSnmpSet"), OidKinds, Is(t), Wanted(t), Is("Semi")>>
             loose == <<Is("IdentSnmpSet"), OidKinds, TypeKinds, Wanted(t), Is("Semi")>>
  <2>1. stage = "reading" /\ Reads(loose) /\ \E v : Add(5, <<Leaf(Code(Of(1)), v)>>)
    BY <1>4, Zenon DEF MibObject, Reading
  <2>2. t \in TypeKinds
    <3>1. 3 \in DOMAIN loose /\ loose[3] = TypeKinds
      OBVIOUS
    <3> HIDE DEF loose
    <3> QED BY <2>1, <3>1, Zenon DEF Reads
  <2>3. kinds \in Statements /\ Len(kinds) = 5 /\ kinds[1] = Is("IdentSnmpSet")
    <3>1. kinds \in Statements
      BY <2>2, Zenon DEF Statements
    <3> QED BY <3>1
  <2>4. Reads(kinds)
    <3>1. /\ DOMAIN kinds = 1..5 /\ DOMAIN loose = 1..5
          /\ kinds[1] = loose[1] /\ kinds[2] = loose[2] /\ kinds[3] = Is(t) /\ kinds[4] = loose[4] /\ kinds[5] = loose[5]
      OBVIOUS
    <3> HIDE DEF kinds, loose
    <3>2. \A n \in 1..5 : n = 1 \/ n = 2 \/ n = 3 \/ n = 4 \/ n = 5
      OBVIOUS
    <3>3. Kind(3) \in Is(t)
      BY DEF Is
    <3>4. \A n \in 1..5 : Kind(n) \in loose[n]
      BY <2>1, <3>1, Zenon DEF Reads
    <3>5. \A n \in 1..5 : Kind(n) \in kinds[n]
      BY <3>1, <3>2, <3>3, <3>4, Zenon
    <3> QED BY <3>1, <3>5, Zenon DEF Reads
  <2> HIDE DEF kinds
  <2>5. Closed(kinds, "Semi") /\ "Semi" \in Brackets
    BY <2>3, AllClosed DEF Brackets
  <2>6. Kind(1) = "IdentSnmpSet"
    BY <2>3, <2>4, <2>5, FirstKind, Zenon
  <2>7. Kind(1) # "IdentGeneric" /\ Kind(1) # "IdentCvc"
    BY <2>6
  <2>8. Code(Of(1)) = CodeOf(Item(Len(kinds)))
    BY <2>4, <2>5, <2>7, CodeNow, Zenon
  <2>9. \E v : Add(Len(kinds), <<Leaf(Code(Of(1)), v)>>)
    BY <2>1, <2>3, Zenon
  <2> QED BY <2>1, <2>3, <2>4, <2>7, <2>8, <2>9, OneSetting, Zenon
<1>5. CASE DigitMap
  <2> DEFINE kinds == <<Is("DigitMap"), Is("string"), Is("Semi")>>
  <2>1. kinds \in Statements /\ Len(kinds) = 3 /\ kinds[1] = Is("DigitMap")
    <3>1. kinds \in Statements
      BY Zenon DEF Statements
    <3> QED BY <3>1
  <2>2. stage = "reading" /\ Reads(kinds) /\ \E v : Add(3, <<Leaf(Code(Of(1)), v)>>)
    BY <1>5, Zenon DEF DigitMap, Reading
  <2> HIDE DEF kinds
  <2>3. Closed(kinds, "Semi") /\ "Semi" \in Brackets
    BY <2>1, AllClosed DEF Brackets
  <2>4. Kind(1) = "DigitMap"
    BY <2>1, <2>2, <2>3, FirstKind, Zenon
  <2>5. Kind(1) # "IdentGeneric" /\ Kind(1) # "IdentCvc"
    BY <2>4
  <2>6. Code(Of(1)) = CodeOf(Item(Len(kinds)))
    BY <2>2, <2>3, <2>5, CodeNow, Zenon
  <2>7. \E v : Add(Len(kinds), <<Leaf(Code(Of(1)), v)>>)
    BY <2>1, <2>2, Zenon
  <2> QED BY <2>1, <2>2, <2>5, <2>6, <2>7, OneSetting, Zenon
<1>6. ASSUME NEW ks, Closed(ks, "Semi"), GenericOf(ks) \in Statements, Generic(ks), NEW v,
             Add(3 + Len(ks), <<Leaf(AsByte(3), v)>>)
      PROVE  stage = "reading" /\ \E kinds, more : States(kinds, more)
  <2> DEFINE kinds == GenericOf(ks)
  <2>1. kinds \in Statements /\ Closed(kinds, "Semi") /\ "Semi" \in Brackets
    BY <1>6, AllClosed DEF Brackets
  <2>2. stage = "reading" /\ Reads(kinds) /\ kinds = GenericHead \o ks
    BY <1>6, Zenon DEF Generic, Reading, GenericOf
  <2>3. Kind(1) = "IdentGeneric" /\ Kind(3) = "integer" /\ Len(kinds) = 3 + Len(ks) /\ Len(ks) \in Nat \ {0}
    BY <1>6, <2>2, GenericReads, Zenon
  <2> HIDE DEF kinds
  <2>4. Len(kinds) >= 3 /\ Kind(1) # "IdentCvc"
    BY <2>3
  <2>5. AsByte(3) = CodeOf(Item(Len(kinds)))
    BY <2>1, <2>2, <2>3, <2>4, CodeNow, Zenon
  <2>6. Add(Len(kinds), <<Leaf(AsByte(3), v)>>)
    BY <1>6, <2>3, Zenon
  <2> QED BY <2>1, <2>2, <2>4, <2>5, <2>6, OneSetting, Zenon
<1>7. CASE GenericString
  <2> DEFINE ks == <<Is("TlvString"), Is("string"), Is("Semi")>>
  <2>1. Closed(ks, "Semi")
    BY ClosedThree, InsideKinds, Zenon DEF Plain
  <2>2. GenericOf(ks) \in Statements
    BY Zenon DEF Statements
  <2>3. Generic(ks) /\ Add(6, <<Leaf(AsByte(3), Of(5))>>)
    BY <1>7, Zenon DEF GenericString
  <2>4. 3 + Len(ks) = 6
    OBVIOUS
  <2> HIDE DEF ks
  <2> QED BY <1>6, <2>1, <2>2, <2>3, <2>4, Zenon
<1>8. CASE GenericStringZero
  <2> DEFINE ks == <<Is("TlvStringZero"), Is("string"), Is("Semi")>>
  <2>1. Closed(ks, "Semi")
    BY ClosedThree, InsideKinds, Zenon DEF Plain
  <2>2. GenericOf(ks) \in Statements
    BY Zenon DEF Statements
  <2>3. Generic(ks) /\ \E v : Add(6, <<Leaf(AsByte(3), v)>>)
    BY <1>8, Zenon DEF GenericStringZero
  <2>4. 3 + Len(ks) = 6
    OBVIOUS
  <2> HIDE DEF ks
  <2> QED BY <1>6, <2>1, <2>2, <2>3, <2>4, Zenon
<1>9. CASE GenericHex
  <2> DEFINE ks == <<Is("TlvLength"), Is("integer"), Is("TlvValue"), Is("hex"), Is("Semi")>>
  <2>1. Closed(ks, "Semi")
    BY ClosedFive, InsideKinds, Zenon DEF Plain
  <2>2. GenericOf(ks) \in Statements
    BY Zenon DEF Statements, Number
  <2>3. Generic(ks) /\ \E v : Add(8, <<Leaf(AsByte(3), v)>>)
    BY <1>9, Zenon DEF GenericHex
  <2>4. 3 + Len(ks) = 8
    OBVIOUS
  <2> HIDE DEF ks
  <2> QED BY <1>6, <2>1, <2>2, <2>3, <2>4, Zenon
<1>10. CASE GenericTyped
  <2> DEFINE T == {"Integer", "Short", "Char", "IPAddress"}
             t == Kind(5)
             ks == <<Is("TlvType"), Is(t), Is("TlvValue"), ValueKinds, Is("Semi")>>
             loose == <<Is("TlvType"), T, Is("TlvValue"), ValueKinds, Is("Semi")>>
  <2>1. Generic(loose) /\ \E v : Add(8, <<Leaf(AsByte(3), v)>>)
    BY <1>10, Zenon DEF GenericTyped
  <2>2. Closed(loose, "Semi")
    <3>1. Inside(T)
      BY DEF Inside, Brackets
    <3> HIDE DEF T
    <3> QED BY <3>1, ClosedFive, InsideKinds, Zenon DEF Plain
  <2>3. /\ Len(loose) = 5 /\ loose[2] = T /\ Len(ks) = 5
        /\ DOMAIN ks = 1..5 /\ ks[1] = loose[1] /\ ks[2] = Is(t)
        /\ ks[3] = loose[3] /\ ks[4] = loose[4] /\ ks[5] = loose[5]
    OBVIOUS
  <2>4. Reads(GenericHead \o loose)
    BY <2>1, Zenon DEF Generic
  <2> HIDE DEF loose
  <2>5. \A j \in 1..5 : Kind(3 + j) \in loose[j]
    BY <2>2, <2>3, <2>4, GenericReads, Zenon
  <2>6. t \in T
    <3>1. 3 + 2 = 5 /\ 2 \in 1..5
      OBVIOUS
    <3> HIDE DEF T
    <3> QED BY <2>3, <2>5, <3>1, Zenon
  <2>7. t \in TypeKinds
    BY <2>6 DEF TypeKinds
  <2>8. Closed(ks, "Semi")
    BY <2>7, ClosedFive, InsideKinds, Zenon DEF Plain
  <2>9. GenericOf(ks) \in Statements
    BY <2>6, Zenon DEF Statements
  <2>10. Generic(ks)
    <3>1. \A j \in 1..5 : Kind(3 + j) \in ks[j]
      <4>1. \A j \in 1..5 : j = 1 \/ j = 2 \/ j = 3 \/ j = 4 \/ j = 5
        OBVIOUS
      <4>2. Kind(3 + 2) \in Is(t)
        BY DEF Is
      <4> HIDE DEF ks, T, t
      <4> QED BY <2>3, <2>5, <4>1, <4>2, Zenon
    <3> HIDE DEF ks, T, t
    <3>2. Reads(GenericHead \o ks)
      BY <2>2, <2>3, <2>4, <2>8, <3>1, GenericSame, Zenon
    <3> QED BY <2>1, <3>2, Zenon DEF Generic
  <2>11. 3 + Len(ks) = 8
    BY <2>3
  <2> HIDE DEF ks
  <2> QED BY <1>6, <2>1, <2>8, <2>9, <2>10, <2>11, Zenon
<1> QED BY <1>1, <1>2, <1>3, <1>4, <1>5, <1>7, <1>8, <1>9, <1>10, Zenon

\* Whatever the parser reads as the beginning of a block is one of the grammar.
LEMMA HeadIs ==
  ASSUME Stacked, OpenBlock \/ GenericBlock
  PROVE  stage = "reading" /\ \E kinds \in Heads : Reads(kinds) /\ Open(Len(kinds), CodeOf(Item(Len(kinds))))
<1>1. CASE OpenBlock
  <2> DEFINE kinds == <<Is("Identifier"), Is("LBrace")>>
  <2>1. kinds \in Heads /\ Len(kinds) = 2 /\ kinds[1] = Is("Identifier")
    <3>1. kinds \in Heads
      BY Zenon DEF Heads
    <3> QED BY <3>1
  <2>2. stage = "reading" /\ Reads(kinds) /\ Open(2, Code(Of(1)))
    BY <1>1, Zenon DEF OpenBlock, Reading
  <2> HIDE DEF kinds
  <2>3. Closed(kinds, "LBrace") /\ "LBrace" \in Brackets
    BY <2>1, AllClosed DEF Brackets
  <2>4. Kind(1) = "Identifier"
    BY <2>1, <2>2, <2>3, FirstKind, Zenon
  <2>5. Kind(1) # "IdentGeneric"
    BY <2>4
  <2>6. Code(Of(1)) = CodeOf(Item(Len(kinds)))
    BY <2>2, <2>3, <2>5, CodeNow, Zenon
  <2>7. Open(Len(kinds), CodeOf(Item(Len(kinds))))
    BY <2>1, <2>2, <2>6, Zenon
  <2> QED BY <2>1, <2>2, <2>7, Zenon
<1>2. CASE GenericBlock
  <2> DEFINE ks == <<Is("LBrace")>>
             kinds == GenericOf(ks)
  <2>1. kinds \in Heads
    BY Zenon DEF Heads
  <2>2. Closed(ks, "LBrace") /\ Len(ks) = 1
    <3>1. Len(ks) = 1
      OBVIOUS
    <3> QED BY <3>1, ClosedOne, Zenon
  <2>3. Generic(ks) /\ Open(4, AsByte(3))
    BY <1>2, Zenon DEF GenericBlock
  <2>4. stage = "reading" /\ Reads(kinds) /\ kinds = GenericHead \o ks
    BY <2>3, Zenon DEF Generic, Reading, GenericOf
  <2> HIDE DEF ks
  <2>5. Kind(1) = "IdentGeneric" /\ Kind(3) = "integer" /\ Len(kinds) = 3 + Len(ks)
    BY <2>2, <2>4, GenericReads, Zenon
  <2> HIDE DEF kinds
  <2>6. Len(kinds) = 4 /\ Len(kinds) >= 3
    BY <2>2, <2>5
  <2>7. Closed(kinds, "LBrace") /\ "LBrace" \in Brackets
    BY <2>1, AllClosed DEF Brackets
  <2>8. AsByte(3) = CodeOf(Item(Len(kinds)))
    BY <2>4, <2>5, <2>6, <2>7, CodeNow, Zenon
  <2>9. Open(Len(kinds), CodeOf(Item(Len(kinds))))
    BY <2>3, <2>6, <2>8, Zenon
  <2> QED BY <2>1, <2>4, <2>9, Zenon
<1> QED BY <1>1, <1>2

-----------------------------------------------------------------------------
(* The blocks are never lost track of.                                     *)

\* No block is open in the beginning.
LEMMA InitStacks == Init => Stacked
<1> SUFFICES ASSUME Init PROVE Stacked
  OBVIOUS
<1>1. IsSeq(open) /\ DOMAIN open = {} /\ stage # "reading"
  BY DEF Init, IsSeq
<1>2. toks \in Inputs /\ pos \in Nat \ {0}
  BY DEF Init
<1> QED BY <1>1, <1>2, Zenon DEF Stacked

\* What a step does to the parser's blocks.
LEMMA Steps ==
  ASSUME Stacked, Next
  PROVE  \/ Begin
         \/ End
         \/ CloseBlock
         \/ stage = "reading" /\ \E kinds, more : States(kinds, more)
         \/ stage = "reading" /\ \E kinds \in Heads : Reads(kinds) /\ Open(Len(kinds), CodeOf(Item(Len(kinds))))
         \/ Stop
  BY HeadIs, StatementIs, Zenon DEF Next, Read

\* Main is the outermost block.
LEMMA BeginStacks ==
  ASSUME Stacked, Begin
  PROVE  Stacked'
<1> DEFINE b == [code |-> 0, kids |-> <<>>]
<1>1. open' = <<b>> /\ toks' = toks /\ pos' = pos + 2
  BY Zenon DEF Begin
<1>2. Shaped(b)
  BY DEF Shaped, IsSeq
<1> HIDE DEF b
<1>3. IsSeq(open') /\ DOMAIN open' = 1..1 /\ open'[1] = b /\ Len(open') = 1
  BY <1>1, Single, Zenon
<1>4. \A i \in DOMAIN open' : Shaped(open'[i])
  <2>1. \A i \in DOMAIN open' : i = 1
    BY <1>3
  <2> QED BY <1>2, <1>3, <2>1, Zenon
<1>5. open' # <<>>
  <2>1. Len(<<>>) # 1
    OBVIOUS
  <2> QED BY <1>3, <2>1
<1>6. toks' \in Inputs /\ pos' \in Nat \ {0}
  BY <1>1 DEF Stacked
<1> QED BY <1>3, <1>4, <1>5, <1>6, Zenon DEF Stacked

\* No block is open after the end of Main.
LEMMA EndStacks ==
  ASSUME Stacked, End
  PROVE  Stacked'
<1>1. open' = <<>> /\ toks' = toks /\ pos' = pos + 1 /\ stage' = "parsed"
  BY Zenon DEF End
<1>2. IsSeq(open') /\ DOMAIN open' = {} /\ stage' # "reading"
  BY <1>1 DEF IsSeq
<1>3. toks' \in Inputs /\ pos' \in Nat \ {0}
  BY <1>1 DEF Stacked
<1> QED BY <1>2, <1>3, Zenon DEF Stacked

\* Stopping leaves the blocks as they are.
LEMMA StopStacks ==
  ASSUME Stacked, Stop
  PROVE  Stacked'
<1>1. stage' = "stopped" /\ toks' = toks /\ pos' = pos /\ open' = open
  BY Stopping, Zenon
<1>2. stage' # "reading"
  BY <1>1
<1> QED BY <1>1, <1>2, Zenon DEF Stacked

\* Every statement and every head is over somewhere.
LEMMA LengthOf ==
  ASSUME NEW kinds, kinds \in Statements \/ kinds \in Heads
  PROVE  Len(kinds) \in Nat
<1>1. \E last : Closed(kinds, last)
  BY AllClosed, Zenon
<1>2. Len(kinds) \in Nat \ {0}
  BY <1>1, Zenon DEF Closed
<1> QED BY <1>2

\* The blocks are well formed after every step.
LEMMA StackedStep == Stacked /\ [Next]_vars => Stacked'
<1> SUFFICES ASSUME Stacked, [Next]_vars PROVE Stacked'
  OBVIOUS
<1>1. CASE Next
  <2>1. ASSUME NEW kinds, NEW more, States(kinds, more), stage = "reading" PROVE Stacked'
    <3>1. Len(kinds) \in Nat
      BY <2>1, LengthOf, Zenon DEF States
    <3>2. IsSeq(more) /\ Add(Len(kinds), more)
      BY <2>1, Zenon DEF States
    <3> QED BY <2>1, <3>1, <3>2, AddStacks, Zenon
  <2>2. ASSUME NEW kinds \in Heads, Open(Len(kinds), CodeOf(Item(Len(kinds)))), stage = "reading" PROVE Stacked'
    <3>1. Len(kinds) \in Nat
      BY LengthOf, Zenon
    <3> QED BY <2>2, <3>1, OpenStacks, Zenon
  <2> QED BY <1>1, <2>1, <2>2, Steps, BeginStacks, EndStacks, StopStacks, CloseStacks, Zenon
<1>2. CASE UNCHANGED vars
  BY <1>2 DEF vars, Stacked
<1> QED BY <1>1, <1>2

-----------------------------------------------------------------------------
(* Certificates, piece by piece.                                           *)

\* What is behind the first of two sequences is the second.
LEMMA Joined ==
  ASSUME NEW s, IsSeq(s), NEW t, IsSeq(t)
  PROVE  SubSeq(s \o t, Len(s) + 1, Len(s \o t)) = t
<1> DEFINE u == s \o t
           S == {u[j] : j \in DOMAIN u}
           v == SubSeq(u, Len(s) + 1, Len(u))
<1>1. /\ IsSeq(u) /\ Len(s) \in Nat /\ Len(t) \in Nat /\ Len(u) = Len(s) + Len(t) /\ DOMAIN t = 1..Len(t)
      /\ \A i \in 1..Len(t) : u[Len(s) + i] = t[i]
  BY JoinSome
<1>2. u \in Seq(S)
  BY <1>1 DEF IsSeq
<1> HIDE DEF u, S
<1>3. v \in Seq(S) /\ Len(v) = Len(t) /\ \A i \in 1..Len(t) : v[i] = u[Len(s) + i]
  <2> DEFINE a == Len(s) + 1
             n == Len(t)
  <2>1. a \in Nat \ {0} /\ n \in Nat /\ a + n - 1 <= Len(u) /\ a + n - 1 = Len(u)
    BY <1>1
  <2> HIDE DEF a, n
  <2>2. LET w == SubSeq(u, a, a + n - 1)
        IN w \in Seq(S) /\ Len(w) = n /\ \A i \in 1..n : w[i] = u[a + i - 1]
    BY <1>2, <2>1, PartAt
  <2>3. \A i \in 1..n : a + i - 1 = Len(s) + i
    BY <1>1 DEF a
  <2> QED BY <2>1, <2>2, <2>3, Zenon DEF a, n
<1> HIDE DEF v
<1>4. IsSeq(v)
  BY <1>3, SomeSeq, Zenon
<1>5. v = [i \in 1..Len(t) |-> v[i]]
  BY <1>3
<1>6. t = [i \in 1..Len(t) |-> t[i]]
  BY DEF IsSeq
<1>7. v = t
  BY <1>1, <1>3, <1>5, <1>6
<1> QED BY <1>7 DEF v, u

\* A certificate's settings are its pieces, behind what the block had.
LEMMA CertificateStep ==
  ASSUME Stacked, CvcFile
  PROVE  LET old  == Last(open).kids
             new  == Last(open').kids
             made == SubSeq(new, Len(old) + 1, Len(new))
         IN /\ FileBytes(Of(2)) = {FlattenSeq([i \in DOMAIN made |-> made[i].value])}
            /\ \A i \in DOMAIN made : Len(made[i].value) \in 1..ChunkSize
<1> DEFINE old  == Last(open).kids
           new  == Last(open').kids
           made == SubSeq(new, Len(old) + 1, Len(new))
<1>1. PICK kinds, more :
        /\ States(kinds, more)
        /\ \E data : /\ FileBytes(Of(2)) = {data} /\ data \in Seq(Byte) /\ data # <<>>
                     /\ more = [i \in DOMAIN Chunks(data) |-> Leaf(Code(Of(1)), Chunks(data)[i])]
  BY CvcIs, Zenon
<1>2. PICK data : /\ FileBytes(Of(2)) = {data} /\ data \in Seq(Byte) /\ data # <<>>
                  /\ more = [i \in DOMAIN Chunks(data) |-> Leaf(Code(Of(1)), Chunks(data)[i])]
  BY <1>1, Zenon
<1>3. PICK k \in Nat \ {0} :
        /\ DOMAIN Chunks(data) = 1..k /\ Chunks(data) \in [1..k -> Seq(Byte)]
        /\ \A i \in 1..k : Len(Chunks(data)[i]) \in 1..ChunkSize
        /\ FlattenSeq(Chunks(data)) = data
  BY <1>2, ChunksAre, Zenon
<1>4. /\ IsSeq(more) /\ DOMAIN more = 1..k
      /\ \A i \in 1..k : more[i].value = Chunks(data)[i]
  <2>1. IsSeq(more)
    BY <1>1, Zenon DEF States
  <2>2. more = [i \in 1..k |-> Leaf(Code(Of(1)), Chunks(data)[i])]
    BY <1>2, <1>3, Zenon
  <2>3. \A c, v : Leaf(c, v).value = v
    BY DEF Leaf
  <2> QED BY <2>1, <2>2, <2>3, Zenon
<1>5. open' = [open EXCEPT ![Len(open)].kids = @ \o more] /\ open # <<>>
  <2>1. stage = "reading"
    BY Zenon DEF CvcFile, Reading
  <2> QED BY <1>1, <2>1, Zenon DEF States, Add, Stacked
<1>6. /\ Len(open') = Len(open) /\ Len(open) \in DOMAIN open
      /\ open'[Len(open)] = [code |-> open[Len(open)].code, kids |-> open[Len(open)].kids \o more]
  <2> DEFINE More(t) == /\ Len(t) = Len(open) /\ Len(open) \in Nat \ {0} /\ DOMAIN open = 1..Len(open)
                        /\ t[Len(open)] = [code |-> open[Len(open)].code, kids |-> open[Len(open)].kids \o more]
  <2>1. More([open EXCEPT ![Len(open)].kids = @ \o more])
    BY <1>4, <1>5, AddedKids, Zenon DEF Stacked
  <2> HIDE DEF More
  <2>2. More(open')
    BY <1>5, <2>1, Zenon
  <2> QED BY <2>2 DEF More
<1>7. new = old \o more /\ IsSeq(old)
  <2>1. Last(open) = open[Len(open)] /\ Last(open') = open'[Len(open)]
    BY <1>6, Zenon DEF Last
  <2>2. \A c, q : [code |-> c, kids |-> q].kids = q
    OBVIOUS
  <2>3. Last(open').kids = open[Len(open)].kids \o more
    BY <1>6, <2>1, <2>2, ZenonT(40)
  <2>4. IsSeq(open[Len(open)].kids)
    BY <1>6, Zenon DEF Stacked, Shaped
  <2> QED BY <2>1, <2>3, <2>4, Zenon
<1> HIDE DEF old, new
<1>8. made = more
  BY <1>4, <1>7, Joined
<1> HIDE DEF made
<1>9. [i \in DOMAIN made |-> made[i].value] = Chunks(data)
  <2>1. Chunks(data) = [i \in 1..k |-> Chunks(data)[i]]
    BY <1>3
  <2> QED BY <1>4, <1>8, <2>1
<1>10. \A i \in DOMAIN made : Len(made[i].value) \in 1..ChunkSize
  BY <1>3, <1>4, <1>8, Zenon
<1>11. FileBytes(Of(2)) = {FlattenSeq([i \in DOMAIN made |-> made[i].value])}
  BY <1>2, <1>3, <1>9, Zenon
<1> QED BY <1>10, <1>11, Zenon DEF made, old, new

\* A certificate is taken whole: its pieces, in the order they are encoded, are the file,
\* none empty and none longer than one TLV takes (CertificateWhole).
THEOREM CertificatesWhole == Spec => CertificateWhole
<1>1. Init => Stacked
  BY InitStacks
<1>2. Stacked /\ [Next]_vars => Stacked'
  BY StackedStep
<1>3. Stacked /\ [Next]_vars =>
        [CvcFile =>
           LET old  == Last(open).kids
               new  == Last(open').kids
               made == SubSeq(new, Len(old) + 1, Len(new))
           IN /\ FileBytes(Of(2)) = {FlattenSeq([i \in DOMAIN made |-> made[i].value])}
              /\ \A i \in DOMAIN made : Len(made[i].value) \in 1..ChunkSize]_vars
  BY CertificateStep, Zenon
<1> QED BY <1>1, <1>2, <1>3, PTL DEF Spec, CertificateWhole

-----------------------------------------------------------------------------
(* The grammar, statement by statement.                                    *)

\* The end of a statement, of a block's head, or of a block, is the grammar's.
Fits(i) == CASE toks[i].kind = "LBrace" -> Like(Piece(i), Heads)
             [] toks[i].kind = "Semi" -> Like(Piece(i), Statements)
             [] toks[i].kind = "RBrace" -> Len(Piece(i)) = 1

\* The text before m is of the grammar, and d blocks are open there.
SoFar(m, d) ==
  /\ Len(toks) >= 2 /\ toks[1].kind = "Main" /\ toks[2].kind = "LBrace"
  /\ m \in Nat /\ m >= 3 /\ m - 1 \in Ends /\ Depth(m - 1) = d
  /\ \A i \in Ends : i < m => Depth(i) \in Nat \ {0}
  /\ \A i \in Ends : i < m /\ 2 < i => Fits(i)

\* What has been read is of the grammar.
Following ==
  /\ Stacked
  /\ stage = "begin" => pos = 1
  /\ stage = "reading" => SoFar(pos, Len(open))
  /\ TakesTheGrammar

\* What the text is made of.
LEMMA TextIs ==
  ASSUME Stacked
  PROVE  /\ toks \in Seq([kind : STRING, of : Seq(Nat)]) /\ Len(toks) \in Nat /\ DOMAIN toks = 1..Len(toks)
         /\ Ends \subseteq 1..Len(toks)
<1>1. toks \in Seq([kind : STRING, of : Seq(Nat)])
  BY ParseAssumption DEF Stacked
<1>2. Len(toks) \in Nat /\ DOMAIN toks = 1..Len(toks)
  BY <1>1
<1> QED BY <1>1, <1>2 DEF Ends

\* A statement begins behind the end before it.
LEMMA NextStart ==
  ASSUME Stacked, NEW e \in Ends, NEW i \in Ends, e < i, \A j \in Ends : ~(e < j /\ j < i)
  PROVE  Start(i) = e + 1
<1>1. \A j \in Ends : j \in Nat
  BY TextIs
<1> DEFINE P(j) == j < i /\ \A k \in Ends : k < i => k <= j
           x == CHOOSE j \in Ends : P(j)
<1>2. P(e)
  <2> SUFFICES ASSUME NEW k \in Ends, k < i PROVE k <= e
    OBVIOUS
  <2>1. ~(e < k /\ k < i) /\ k \in Nat /\ e \in Nat
    BY <1>1
  <2> QED BY <2>1
<1> HIDE DEF P
<1>3. x \in Ends /\ P(x)
  BY <1>2, Zenon
<1>4. Start(i) = 1 + x
  BY DEF Start, P
<1> HIDE DEF x
<1>5. x = e
  <2>1. e <= x /\ x <= e /\ x \in Nat /\ e \in Nat
    BY <1>1, <1>2, <1>3 DEF P
  <2> QED BY <2>1
<1> QED BY <1>1, <1>4, <1>5

\* One more token of some kind, or none.
LEMMA CountNext ==
  ASSUME Stacked, NEW e \in Ends, NEW i \in Ends, e < i, \A j \in Ends : ~(e < j /\ j < i), NEW k
  PROVE  /\ Cardinality({j \in Ends : j <= e /\ toks[j].kind = k}) \in Nat
         /\ Cardinality({j \in Ends : j <= i /\ toks[j].kind = k})
              = Cardinality({j \in Ends : j <= e /\ toks[j].kind = k}) + (IF toks[i].kind = k THEN 1 ELSE 0)
<1> DEFINE C(m) == {j \in Ends : j <= m /\ toks[j].kind = k}
<1>1. \A j \in Ends : j \in Nat
  BY TextIs
<1>2. IsFiniteSet(Ends)
  <2>1. IsFiniteSet(1..Len(toks))
    BY TextIs, FS_Interval
  <2> QED BY <2>1, TextIs, FS_Subset
<1>3. IsFiniteSet(C(e)) /\ Cardinality(C(e)) \in Nat
  <2>1. C(e) \subseteq Ends
    OBVIOUS
  <2> HIDE DEF C
  <2> QED BY <1>2, <2>1, FS_Subset, FS_CardinalityType
<1>4. \A j \in Ends : j <= i <=> j <= e \/ j = i
  <2> SUFFICES ASSUME NEW j \in Ends PROVE j <= i <=> j <= e \/ j = i
    OBVIOUS
  <2>1. ~(e < j /\ j < i) /\ j \in Nat /\ e \in Nat /\ i \in Nat
    BY <1>1
  <2> QED BY <2>1
<1>5. CASE toks[i].kind = k
  <2>1. C(i) = C(e) \cup {i} /\ i \notin C(e)
    BY <1>1, <1>4, <1>5
  <2> HIDE DEF C
  <2>2. Cardinality(C(i)) = Cardinality(C(e)) + 1
    BY <1>3, <2>1, FS_AddElement
  <2> QED BY <1>3, <1>5, <2>2 DEF C
<1>6. CASE toks[i].kind # k
  <2>1. C(i) = C(e)
    BY <1>4, <1>6
  <2> HIDE DEF C
  <2>2. Cardinality(C(i)) = Cardinality(C(e)) + 0
    BY <1>3, <2>1
  <2> QED BY <1>3, <1>6, <2>2 DEF C
<1> QED BY <1>5, <1>6

\* How many blocks are open there.
LEMMA NextDepth ==
  ASSUME Stacked, NEW e \in Ends, NEW i \in Ends, e < i, \A j \in Ends : ~(e < j /\ j < i)
  PROVE  /\ Depth(e) \in Int
         /\ toks[i].kind = "LBrace" => Depth(i) = Depth(e) + 1
         /\ toks[i].kind = "RBrace" => Depth(i) = Depth(e) - 1
         /\ toks[i].kind = "Semi" => Depth(i) = Depth(e)
<1> DEFINE C(m, k) == Cardinality({j \in Ends : j <= m /\ toks[j].kind = k})
<1>1. \A m : Depth(m) = C(m, "LBrace") - C(m, "RBrace")
  BY DEF Depth
<1>2. \A k : C(e, k) \in Nat /\ C(i, k) = C(e, k) + (IF toks[i].kind = k THEN 1 ELSE 0)
  BY CountNext, Zenon
<1> HIDE DEF C
<1> QED BY <1>1, <1>2

\* What the parser has read as a statement, a head or an end of a block.
LEMMA StepOver ==
  ASSUME Stacked, NEW d, SoFar(pos, d), NEW kinds, NEW last \in Brackets, Closed(kinds, last), Reads(kinds)
  PROVE  LET n == Len(kinds)
             i == pos + n - 1
         IN /\ n \in Nat \ {0} /\ i \in Ends /\ toks[i].kind = last /\ Piece(i) = Item(n)
            /\ 2 < i /\ pos - 1 \in Ends /\ pos - 1 < i
            /\ \A j \in Ends : j < pos + n => j < pos \/ j = i
            /\ d \in Nat \ {0}
            /\ last = "LBrace" => Depth(i) = d + 1
            /\ last = "RBrace" => Depth(i) = d - 1
            /\ last = "Semi" => Depth(i) = d
<1> DEFINE n == Len(kinds)
           i == pos + n - 1
<1>1. /\ n \in Nat \ {0} /\ i \in 1..Len(toks) /\ toks[i].kind = last
      /\ \A j \in 1..(n - 1) : toks[pos + j - 1].kind \notin Brackets
  BY Itemized, Zenon
<1>2. pos \in Nat \ {0} /\ pos - 1 \in Ends /\ pos >= 3 /\ Depth(pos - 1) = d /\ d \in Nat \ {0}
  <2>1. pos \in Nat \ {0}
    BY DEF Stacked
  <2>2. pos - 1 \in Ends /\ pos >= 3 /\ Depth(pos - 1) = d
    BY Zenon DEF SoFar
  <2>3. pos - 1 < pos
    BY <2>1
  <2>4. Depth(pos - 1) \in Nat \ {0}
    BY <2>2, <2>3, Zenon DEF SoFar
  <2> QED BY <2>1, <2>2, <2>4
<1> HIDE DEF n
<1>3. i \in Ends
  <2>1. i \in DOMAIN toks
    BY <1>1, TextIs
  <2> HIDE DEF i
  <2> QED BY <1>1, <2>1 DEF Ends, Brackets
<1>4. pos - 1 < i /\ 2 < i /\ i = pos + n - 1 /\ i \in Nat
  BY <1>1, <1>2
<1>5. \A j \in Ends : j \in Nat /\ toks[j].kind \in Brackets
  BY TextIs DEF Ends, Brackets
<1>6. \A j \in Ends : ~(pos - 1 < j /\ j < i)
  <2> SUFFICES ASSUME NEW j \in Ends, pos - 1 < j, j < i PROVE FALSE
    BY Zenon
  <2>1. j \in Nat /\ toks[j].kind \in Brackets
    BY <1>5
  <2>2. j - pos + 1 \in 1..(n - 1) /\ pos + (j - pos + 1) - 1 = j
    BY <1>1, <1>2, <1>4, <2>1
  <2>3. toks[pos + (j - pos + 1) - 1].kind \notin Brackets
    BY <1>1, <2>2, Zenon
  <2> QED BY <2>1, <2>2, <2>3
<1>7. \A j \in Ends : j < pos + n => j < pos \/ j = i
  <2> SUFFICES ASSUME NEW j \in Ends, j < pos + n PROVE j < pos \/ j = i
    OBVIOUS
  <2>1. ~(pos - 1 < j /\ j < i) /\ j \in Nat
    BY <1>5, <1>6
  <2> HIDE DEF i
  <2> QED BY <1>1, <1>2, <1>4, <2>1
<1> HIDE DEF i
<1>8. Piece(i) = Item(n)
  <2>1. Start(i) = pos - 1 + 1
    BY <1>2, <1>3, <1>4, <1>6, NextStart, Zenon
  <2>2. Start(i) = pos
    BY <1>2, <2>1
  <2> QED BY <1>4, <2>2, Zenon DEF Piece, Item
<1>9. /\ toks[i].kind = "LBrace" => Depth(i) = Depth(pos - 1) + 1
      /\ toks[i].kind = "RBrace" => Depth(i) = Depth(pos - 1) - 1
      /\ toks[i].kind = "Semi" => Depth(i) = Depth(pos - 1)
  BY <1>2, <1>3, <1>4, <1>6, NextDepth, Zenon
<1>10. /\ last = "LBrace" => Depth(i) = d + 1
       /\ last = "RBrace" => Depth(i) = d - 1
       /\ last = "Semi" => Depth(i) = d
  BY <1>1, <1>2, <1>9, Zenon
<1> QED BY <1>1, <1>2, <1>3, <1>4, <1>7, <1>8, <1>10, Zenon DEF n, i

\* Tokens read as some kinds are like them.
LEMMA ReadIsLike ==
  ASSUME Stacked, NEW shapes, NEW kinds \in shapes, NEW last \in Brackets, Closed(kinds, last), Reads(kinds)
  PROVE  Like(Item(Len(kinds)), shapes)
<1> DEFINE n == Len(kinds)
           p == Item(n)
<1>1. /\ Len(p) = n /\ DOMAIN kinds = 1..n
      /\ \A j \in 1..n : p[j] = toks[pos + j - 1] /\ Kind(j) = toks[pos + j - 1].kind /\ Kind(j) \in kinds[j]
  BY Itemized, Zenon
<1> HIDE DEF p
<1>2. \A j \in DOMAIN kinds : p[j].kind \in kinds[j]
  BY <1>1, Zenon
<1> QED BY <1>1, <1>2, Zenon DEF Like, p

\* One more statement, head or end is of the grammar, unless it is the end of Main.
LEMMA Further ==
  ASSUME Stacked, NEW d, SoFar(pos, d), NEW kinds, NEW last \in Brackets, Closed(kinds, last), Reads(kinds),
         Fits(pos + Len(kinds) - 1), NEW e \in Nat \ {0}, Depth(pos + Len(kinds) - 1) = e
  PROVE  SoFar(pos + Len(kinds), e)
<1> DEFINE n == Len(kinds)
           i == pos + n - 1
<1>1. /\ n \in Nat \ {0} /\ i \in Ends /\ 2 < i
      /\ \A j \in Ends : j < pos + n => j < pos \/ j = i
  BY StepOver, Zenon
<1>2. pos \in Nat \ {0}
  BY DEF Stacked
<1>3. /\ Fits(i) /\ Depth(i) = e
  BY Zenon
<1> HIDE DEF n
<1>4. pos + n \in Nat /\ pos + n >= 3 /\ (pos + n) - 1 = i
  BY <1>1, <1>2
<1> HIDE DEF i
<1>5. /\ Len(toks) >= 2 /\ toks[1].kind = "Main" /\ toks[2].kind = "LBrace"
      /\ \A j \in Ends : j < pos => Depth(j) \in Nat \ {0}
      /\ \A j \in Ends : j < pos /\ 2 < j => Fits(j)
  BY Zenon DEF SoFar
<1>6. /\ \A j \in Ends : j < pos + n => Depth(j) \in Nat \ {0}
      /\ \A j \in Ends : j < pos + n /\ 2 < j => Fits(j)
  BY <1>1, <1>3, <1>5, Zenon
<1>7. SoFar(pos + n, e)
  BY <1>1, <1>3, <1>4, <1>5, <1>6, Zenon DEF SoFar
<1> QED BY <1>7 DEF n

\* The text does not change.
LEMMA StillSoFar ==
  ASSUME toks' = toks, NEW m, NEW d, pos' = m, Len(open') = d, SoFar(m, d)
  PROVE  SoFar(pos, Len(open))'
<1>1. Ends' = Ends
  BY DEF Ends
<1>2. \A i : Depth(i)' = Depth(i)
  BY DEF Depth, Ends
<1>3. \A i : Fits(i)' <=> Fits(i)
  BY DEF Fits, Like, Piece, Start, Ends
<1> QED BY <1>1, <1>2, <1>3 DEF SoFar, Depth

\* Nor does what the grammar says of it.
LEMMA StillGrammatical ==
  ASSUME toks' = toks
  PROVE  (Grammatical' <=> Grammatical) /\ MainEnd' = MainEnd
<1>1. MainEnd' = MainEnd
  BY DEF MainEnd, Depth, Ends
<1>2. Grammatical' <=> Grammatical
  BY DEF Grammatical, MainEnd, Depth, Ends, Piece, Start, Like
<1> QED BY <1>1, <1>2

\* Main is over at the first end that closes it, the one the parser takes.
LEMMA MainEnds ==
  ASSUME Stacked, NEW i \in Ends, Depth(i) = 0, \A j \in Ends : j < i => Depth(j) # 0
  PROVE  MainEnd = i
<1> DEFINE over == {j \in Ends : Depth(j) = 0}
           P(k) == \A j \in over : k <= j
           x == CHOOSE k \in over : P(k)
<1>1. \A j \in Ends : j \in Nat
  BY TextIs
<1>2. i \in over /\ P(i)
  <2> SUFFICES ASSUME NEW j \in over PROVE i <= j
    OBVIOUS
  <2>1. j \in Ends /\ Depth(j) = 0
    OBVIOUS
  <2>2. ~(j < i) /\ j \in Nat /\ i \in Nat
    BY <1>1, <2>1
  <2> QED BY <2>2
<1>3. MainEnd = x
  BY <1>2 DEF MainEnd
<1>4. \A k \in over : k \in Nat
  BY <1>1
<1> HIDE DEF over
<1>5. x \in over /\ P(x)
  <2> HIDE DEF P
  <2> QED BY <1>2, Zenon
<1> HIDE DEF x
<1>6. x <= i /\ i <= x /\ x \in Nat /\ i \in Nat
  BY <1>1, <1>2, <1>4, <1>5
<1>7. x = i
  BY <1>6
<1> QED BY <1>3, <1>7

\* Main and its brace are of the grammar.
LEMMA BeginFollows ==
  ASSUME Following, Begin
  PROVE  Following'
<1>1. /\ stage = "begin" /\ Reads(<<Is("Main"), Is("LBrace")>>) /\ toks' = toks
      /\ stage' = "reading" /\ pos' = pos + 2 /\ open' = <<[code |-> 0, kids |-> <<>>]>>
  BY Zenon DEF Begin
<1>2. pos = 1 /\ Stacked /\ toks \in Inputs /\ pos \in Nat \ {0}
  BY <1>1 DEF Following, Stacked
<1>3. Kind(1) = "Main" /\ Kind(2) = "LBrace"
  <2> DEFINE kinds == <<Is("Main"), Is("LBrace")>>
  <2>1. 1 \in DOMAIN kinds /\ 2 \in DOMAIN kinds /\ kinds[1] = Is("Main") /\ kinds[2] = Is("LBrace")
    OBVIOUS
  <2> HIDE DEF kinds
  <2>2. Kind(1) \in Is("Main") /\ Kind(2) \in Is("LBrace")
    BY <1>1, <2>1 DEF Reads, kinds
  <2> QED BY <2>2 DEF Is
<1>4. /\ Len(toks) \in Nat /\ 2 \in 1..Len(toks)
      /\ toks[1].kind = "Main" /\ toks[2].kind = "LBrace"
  <2>1. Kind(1) # "end" /\ Kind(2) # "end" /\ 1 \in Nat \ {0} /\ 2 \in Nat \ {0}
    BY <1>3
  <2>2. Next1(1) = pos + 1 - 1 /\ Kind(1) = toks[Next1(1)].kind
    BY <1>2, <2>1, InText, Zenon
  <2>3. Len(toks) \in Nat /\ Next1(2) \in 1..Len(toks) /\ Next1(2) = pos + 2 - 1 /\ Kind(2) = toks[Next1(2)].kind
    BY <1>2, <2>1, InText, Zenon
  <2>4. pos + 1 - 1 = 1 /\ pos + 2 - 1 = 2
    BY <1>2
  <2> QED BY <1>3, <2>2, <2>3, <2>4, Zenon
<1>5. 2 \in Ends /\ 1 \notin Ends /\ \A i \in Ends : i \in Nat /\ i >= 2
  <2>1. 2 \in Ends /\ 1 \notin Ends
    BY <1>2, <1>4, TextIs DEF Ends
  <2>2. \A i \in Ends : i \in Nat \ {0}
    BY <1>2, TextIs
  <2> QED BY <2>1, <2>2
<1>6. Depth(2) = 1
  <2>1. {j \in Ends : j <= 2 /\ toks[j].kind = "LBrace"} = {2}
    BY <1>4, <1>5
  <2>2. {j \in Ends : j <= 2 /\ toks[j].kind = "RBrace"} = {}
    BY <1>4, <1>5
  <2>3. Cardinality({2}) = 1 /\ Cardinality({}) = 0
    BY FS_Singleton, FS_EmptySet
  <2>4. Depth(2) = Cardinality({2}) - Cardinality({})
    BY <2>1, <2>2, Zenon DEF Depth
  <2> QED BY <2>3, <2>4
<1>7. SoFar(3, 1)
  <2>1. 3 - 1 = 2 /\ 1 \in Nat \ {0} /\ Len(toks) >= 2 /\ 3 \in Nat /\ 3 >= 3
    BY <1>4
  <2>2. \A i \in Ends : i < 3 => i = 2 /\ ~(2 < i)
    BY <1>5
  <2> QED BY <1>4, <1>5, <1>6, <2>1, <2>2, Zenon DEF SoFar
<1>8. SoFar(pos, Len(open))'
  <2>1. pos' = 3 /\ Len(open') = 1
    BY <1>1, <1>2, Single
  <2> QED BY <1>1, <1>7, <2>1, StillSoFar, Zenon
<1>9. Stacked'
  BY <1>2, BeginStacks, Zenon
<1>10. stage' # "begin" /\ stage' # "parsed"
  BY <1>1
<1> QED BY <1>8, <1>9, <1>10, Zenon DEF Following, TakesTheGrammar

\* The end of a block, as tokens.
LEMMA EndReads ==
  ASSUME Stacked, NEW d, SoFar(pos, d), Kind(1) = "RBrace"
  PROVE  /\ pos \in Ends /\ 2 < pos /\ Fits(pos) /\ Depth(pos) = d - 1 /\ d \in Nat \ {0}
         /\ \A j \in Ends : j < pos + 1 => j < pos \/ j = pos
         /\ \A e \in Nat \ {0} : e = d - 1 => SoFar(pos + 1, e)
<1> DEFINE kinds == <<Is("RBrace")>>
<1>1. Closed(kinds, "RBrace") /\ "RBrace" \in Brackets
  <2>1. Closed(kinds, "RBrace")
    BY ClosedOne, Zenon
  <2> QED BY <2>1 DEF Brackets
<1>2. Len(kinds) = 1 /\ DOMAIN kinds = 1..1 /\ kinds[1] = Is("RBrace")
  BY Single
<1> HIDE DEF kinds
<1>3. Reads(kinds)
  <2>1. \A j \in DOMAIN kinds : j = 1
    BY <1>2
  <2>2. Kind(1) \in Is("RBrace")
    BY DEF Is
  <2> QED BY <1>2, <2>1, <2>2, Zenon DEF Reads
<1>4. LET i == pos + Len(kinds) - 1
      IN /\ i \in Ends /\ toks[i].kind = "RBrace" /\ Piece(i) = Item(Len(kinds)) /\ 2 < i
         /\ \A j \in Ends : j < pos + Len(kinds) => j < pos \/ j = i
         /\ d \in Nat \ {0} /\ Depth(i) = d - 1
  BY <1>1, <1>3, StepOver, Zenon
<1>5. pos \in Nat \ {0} /\ pos + 1 - 1 = pos
  BY DEF Stacked
<1>6. /\ pos \in Ends /\ toks[pos].kind = "RBrace" /\ Piece(pos) = Item(1) /\ 2 < pos
      /\ \A j \in Ends : j < pos + 1 => j < pos \/ j = pos
      /\ d \in Nat \ {0} /\ Depth(pos) = d - 1
  BY <1>2, <1>4, <1>5, Zenon
<1>7. Len(Item(1)) = 1
  <2>1. Len(Item(Len(kinds))) = Len(kinds)
    BY <1>1, <1>3, Itemized, Zenon
  <2> QED BY <1>2, <2>1, Zenon
<1>8. Fits(pos)
  BY <1>6, <1>7 DEF Fits
<1>9. ASSUME NEW e \in Nat \ {0}, e = d - 1 PROVE SoFar(pos + 1, e)
  <2>1. Fits(pos + Len(kinds) - 1) /\ Depth(pos + Len(kinds) - 1) = e
    BY <1>2, <1>5, <1>6, <1>8, <1>9, Zenon
  <2>2. SoFar(pos + Len(kinds), e)
    BY <1>1, <1>3, <2>1, Further, Zenon
  <2> QED BY <1>2, <2>2, Zenon
<1> QED BY <1>6, <1>8, <1>9, Zenon

\* The brace that ends Main makes the whole file one of the grammar.
LEMMA EndFollows ==
  ASSUME Following, End
  PROVE  Following'
<1>1. /\ stage = "reading" /\ Len(open) = 1 /\ Kind(1) = "RBrace" /\ toks' = toks
      /\ stage' = "parsed" /\ pos' = pos + 1
  BY Zenon DEF End
<1>2. Stacked /\ SoFar(pos, 1)
  BY <1>1, Zenon DEF Following
<1>3. /\ pos \in Ends /\ 2 < pos /\ Fits(pos) /\ Depth(pos) = 1 - 1
      /\ \A j \in Ends : j < pos + 1 => j < pos \/ j = pos
  BY <1>1, <1>2, EndReads, Zenon
<1>4. /\ Len(toks) >= 2 /\ toks[1].kind = "Main" /\ toks[2].kind = "LBrace"
      /\ \A j \in Ends : j < pos => Depth(j) \in Nat \ {0}
      /\ \A j \in Ends : j < pos /\ 2 < j => Fits(j)
  BY <1>2, Zenon DEF SoFar
<1>5. MainEnd = pos
  <2>1. Depth(pos) = 0
    BY <1>3
  <2>2. \A j \in Ends : j < pos => Depth(j) # 0
    BY <1>4
  <2> QED BY <1>2, <1>3, <2>1, <2>2, MainEnds, Zenon
<1>6. pos \in Nat \ {0} /\ \A j \in Ends : j \in Nat
  BY <1>2, TextIs DEF Stacked
<1>7. Grammatical
  <2>1. MainEnd > 0
    BY <1>5, <1>6
  <2>2. \A j \in Ends : 2 < j /\ j <= MainEnd => Fits(j)
    <3>1. \A j \in Ends : j <= pos => j < pos \/ j = pos
      BY <1>6
    <3> QED BY <1>3, <1>4, <1>5, <3>1, Zenon
  <2> QED BY <1>4, <2>1, <2>2 DEF Grammatical, Fits
<1>8. Grammatical' /\ MainEnd' = MainEnd
  BY <1>1, <1>7, StillGrammatical, Zenon
<1>9. TakesTheGrammar'
  BY <1>1, <1>5, <1>8, Zenon DEF TakesTheGrammar
<1>10. stage' # "begin" /\ stage' # "reading"
  BY <1>1
<1>11. Stacked'
  BY <1>2, EndStacks, Zenon
<1> QED BY <1>9, <1>10, <1>11, Zenon DEF Following

\* The brace that ends a block is of the grammar.
LEMMA CloseFollows ==
  ASSUME Following, CloseBlock
  PROVE  Following'
<1>1. stage = "reading" /\ Kind(1) = "RBrace" /\ toks' = toks /\ pos' = pos + 1 /\ stage' = stage
  BY Zenon DEF CloseBlock
<1>2. Stacked /\ SoFar(pos, Len(open))
  BY <1>1, Zenon DEF Following
<1>3. Stacked' /\ Len(open) \in Nat /\ Len(open) >= 2 /\ Len(open') = Len(open) - 1
  BY <1>2, CloseStacks, Zenon
<1> DEFINE e == Len(open')
<1>4. e \in Nat \ {0} /\ e = Len(open) - 1
  BY <1>3
<1>5. SoFar(pos + 1, e)
  BY <1>1, <1>2, <1>4, EndReads, Zenon
<1>6. SoFar(pos, Len(open))'
  BY <1>1, <1>5, StillSoFar, Zenon
<1>7. stage' # "begin" /\ stage' # "parsed"
  BY <1>1
<1> QED BY <1>3, <1>6, <1>7, Zenon DEF Following, TakesTheGrammar

\* A statement is of the grammar.
LEMMA StatementFollows ==
  ASSUME Following, stage = "reading", NEW kinds, NEW more, States(kinds, more)
  PROVE  Following'
<1>1. Stacked /\ SoFar(pos, Len(open))
  BY Zenon DEF Following
<1>2. kinds \in Statements /\ Reads(kinds) /\ Add(Len(kinds), more) /\ IsSeq(more)
  BY Zenon DEF States
<1>3. Closed(kinds, "Semi") /\ "Semi" \in Brackets /\ Len(kinds) \in Nat
  <2>1. Closed(kinds, "Semi") /\ Len(kinds) \in Nat
    BY <1>2, AllClosed, LengthOf, Zenon
  <2> QED BY <2>1 DEF Brackets
<1> DEFINE i == pos + Len(kinds) - 1
<1>4. toks[i].kind = "Semi" /\ Piece(i) = Item(Len(kinds)) /\ Depth(i) = Len(open) /\ Len(open) \in Nat \ {0}
  BY <1>1, <1>2, <1>3, StepOver, Zenon
<1>5. Like(Item(Len(kinds)), Statements)
  BY <1>1, <1>2, <1>3, ReadIsLike, Zenon
<1>6. Fits(i)
  <2> HIDE DEF i
  <2> QED BY <1>4, <1>5 DEF Fits
<1>7. SoFar(pos + Len(kinds), Len(open))
  BY <1>1, <1>2, <1>3, <1>4, <1>6, Further, Zenon
<1>8. /\ toks' = toks /\ pos' = pos + Len(kinds) /\ stage' = stage
      /\ open' = [open EXCEPT ![Len(open)].kids = @ \o more]
  BY <1>2, Zenon DEF Add
<1>9. Len(open') = Len(open)
  BY <1>1, <1>2, <1>8, AddedKids, Zenon DEF Stacked
<1>10. SoFar(pos, Len(open))'
  BY <1>7, <1>8, <1>9, StillSoFar, Zenon
<1>11. Stacked'
  BY <1>1, <1>2, <1>3, AddStacks, Zenon
<1>12. stage' # "begin" /\ stage' # "parsed"
  BY <1>8
<1> QED BY <1>10, <1>11, <1>12, Zenon DEF Following, TakesTheGrammar

\* The head of a block is of the grammar.
LEMMA HeadFollows ==
  ASSUME Following, stage = "reading", NEW kinds \in Heads, Reads(kinds), Open(Len(kinds), CodeOf(Item(Len(kinds))))
  PROVE  Following'
<1>1. Stacked /\ SoFar(pos, Len(open))
  BY Zenon DEF Following
<1>2. Closed(kinds, "LBrace") /\ "LBrace" \in Brackets /\ Len(kinds) \in Nat
  <2>1. Closed(kinds, "LBrace") /\ Len(kinds) \in Nat
    BY AllClosed, LengthOf, Zenon
  <2> QED BY <2>1 DEF Brackets
<1> DEFINE i == pos + Len(kinds) - 1
           e == Len(open) + 1
<1>3. toks[i].kind = "LBrace" /\ Piece(i) = Item(Len(kinds)) /\ Depth(i) = Len(open) + 1 /\ Len(open) \in Nat \ {0}
  BY <1>1, <1>2, StepOver, Zenon
<1>4. Like(Item(Len(kinds)), Heads)
  BY <1>1, <1>2, ReadIsLike, Zenon
<1>5. Fits(i)
  <2> HIDE DEF i
  <2> QED BY <1>3, <1>4 DEF Fits
<1>6. e \in Nat \ {0}
  BY <1>3
<1>7. SoFar(pos + Len(kinds), e)
  BY <1>1, <1>2, <1>3, <1>5, <1>6, Further, Zenon
<1>8. /\ toks' = toks /\ pos' = pos + Len(kinds) /\ stage' = stage
      /\ open' = Append(open, [code |-> CodeOf(Item(Len(kinds))), kids |-> <<>>])
  BY Zenon DEF Open
<1>9. Len(open') = e
  <2> DEFINE b == [code |-> CodeOf(Item(Len(kinds))), kids |-> <<>>]
  <2>1. IsSeq(open) /\ open' = Append(open, b)
    BY <1>1, <1>8, Zenon DEF Stacked
  <2> HIDE DEF b
  <2> QED BY <2>1 DEF IsSeq
<1>10. SoFar(pos, Len(open))'
  BY <1>7, <1>8, <1>9, StillSoFar, Zenon
<1>11. Stacked'
  BY <1>1, <1>2, OpenStacks, Zenon
<1>12. stage' # "begin" /\ stage' # "parsed"
  BY <1>8
<1> QED BY <1>10, <1>11, <1>12, Zenon DEF Following, TakesTheGrammar

\* What has been read is of the grammar, at every step.
LEMMA FollowingStep == Following /\ [Next]_vars => Following'
<1> SUFFICES ASSUME Following, [Next]_vars PROVE Following'
  OBVIOUS
<1>1. CASE Stop
  <2>1. stage' = "stopped" /\ Stacked'
    BY <1>1, Stopping, StopStacks, Zenon DEF Following
  <2>2. stage' # "begin" /\ stage' # "reading" /\ stage' # "parsed"
    BY <2>1
  <2> QED BY <2>1, <2>2, Zenon DEF Following, TakesTheGrammar
<1>2. CASE UNCHANGED vars
  <2>1. toks' = toks /\ pos' = pos /\ open' = open /\ stage' = stage /\ tree' = tree
    BY <1>2 DEF vars
  <2>2. Stacked'
    BY <1>2, StackedStep, Zenon DEF Following
  <2>3. stage = "reading" => SoFar(pos, Len(open))'
    BY <2>1, StillSoFar, Zenon DEF Following
  <2>4. TakesTheGrammar'
    BY <2>1, StillGrammatical, Zenon DEF Following, TakesTheGrammar
  <2> QED BY <2>1, <2>2, <2>3, <2>4, Zenon DEF Following
<1>3. CASE Next
  <2>1. Stacked
    BY Zenon DEF Following
  <2> QED BY <1>1, <1>3, <2>1, Steps, BeginFollows, EndFollows, CloseFollows, StatementFollows, HeadFollows, Zenon
<1> QED BY <1>2, <1>3

\* Settings are only ever taken from a file of the grammar, read to the end of Main
\* (TakesTheGrammar, the first half of ReadsTheGrammar).
THEOREM GrammarTaken == Spec => []TakesTheGrammar
<1>1. Init => Following
  <2> SUFFICES ASSUME Init PROVE Following
    OBVIOUS
  <2>1. Stacked
    BY InitStacks
  <2>2. pos = 1 /\ stage # "reading" /\ stage # "parsed"
    BY DEF Init
  <2> QED BY <2>1, <2>2, Zenon DEF Following, TakesTheGrammar
<1>2. Following /\ [Next]_vars => Following'
  BY FollowingStep
<1>3. Following => TakesTheGrammar
  BY DEF Following
<1> QED BY <1>1, <1>2, <1>3, PTL DEF Spec

-----------------------------------------------------------------------------
(* Types.                                                                  *)

\* The head of a block names a code, by a row or by its number.
LEMMA HeadCode ==
  ASSUME Stacked, NEW kinds \in Heads, Reads(kinds)
  PROVE  CodeOf(Item(Len(kinds))) \in Byte
<1> DEFINE n == Len(kinds)
           p == Item(n)
<1>1. Closed(kinds, "LBrace") /\ "LBrace" \in Brackets
  BY AllClosed DEF Brackets
<1>2. /\ n \in Nat \ {0}
      /\ \A j \in 1..n : p[j] = toks[pos + j - 1] /\ Kind(j) = toks[pos + j - 1].kind /\ pos + j - 1 \in 1..Len(toks)
  BY <1>1, Itemized, Zenon
<1> HIDE DEF p, n
<1>3. toks \in Inputs /\ DOMAIN toks = 1..Len(toks)
  BY TextIs, Zenon DEF Stacked
<1>4. CASE kinds = <<Is("Identifier"), Is("LBrace")>>
  <2>1. kinds[1] = Is("Identifier") /\ n = 2
    BY <1>4 DEF n
  <2>2. Kind(1) = "Identifier"
    BY <1>1, <2>1, FirstKind, Zenon
  <2>3. 1 \in 1..n
    BY <1>2
  <2> DEFINE q == pos + 1 - 1
  <2>4. p[1] = toks[q] /\ toks[q].kind = "Identifier" /\ q \in DOMAIN toks
    BY <1>2, <1>3, <2>2, <2>3, Zenon
  <2> HIDE DEF q
  <2>5. Code(toks[q].of) \in Byte
    BY <1>3, <2>4, ParseAssumption, Zenon
  <2>6. CodeOf(p) = Code(p[1].of)
    BY <2>4 DEF CodeOf
  <2> QED BY <2>4, <2>5, <2>6, Zenon DEF p, n
<1>5. CASE kinds = GenericOf(<<Is("LBrace")>>)
  <2> DEFINE ks == <<Is("LBrace")>>
  <2>1. Closed(ks, "LBrace") /\ Len(ks) = 1
    <3>1. Len(ks) = 1
      OBVIOUS
    <3> QED BY <3>1, ClosedOne, Zenon
  <2>2. kinds = GenericHead \o ks
    BY <1>5, Zenon DEF GenericOf
  <2> HIDE DEF ks
  <2>3. Kind(1) = "IdentGeneric" /\ Kind(3) = "integer" /\ n = 3 + Len(ks)
    BY <2>1, <2>2, GenericReads, Zenon DEF n
  <2>4. 1 \in 1..n /\ 3 \in 1..n
    BY <2>1, <2>3
  <2> DEFINE q == pos + 3 - 1
  <2>5. p[3] = toks[q] /\ toks[q].kind = "integer" /\ q \in DOMAIN toks /\ p[1].kind = "IdentGeneric"
    BY <1>2, <1>3, <2>3, <2>4, Zenon
  <2> HIDE DEF q
  <2>6. toks[q].of[5] \in Byte
    BY <1>3, <2>5, ParseAssumption, Zenon
  <2>7. CodeOf(p) = p[3].of[5]
    BY <2>5 DEF CodeOf
  <2> QED BY <2>5, <2>6, <2>7, Zenon DEF p, n
<1> QED BY <1>4, <1>5, Zenon DEF Heads

\* The position is in the text, or right behind it.
LEMMA PosInText == Following /\ stage \in {"begin", "reading", "parsed"} => pos \in 1..Len(toks) + 1
<1> SUFFICES ASSUME Following, stage \in {"begin", "reading", "parsed"} PROVE pos \in 1..Len(toks) + 1
  OBVIOUS
<1>1. Len(toks) \in Nat /\ Ends \subseteq 1..Len(toks)
  BY TextIs, Zenon DEF Following
<1>2. CASE stage = "begin"
  BY <1>1, <1>2 DEF Following
<1>3. CASE stage = "reading"
  <2>1. pos \in Nat /\ pos - 1 \in Ends
    BY <1>3 DEF Following, SoFar
  <2> QED BY <1>1, <2>1
<1>4. CASE stage = "parsed"
  <2> DEFINE over == {i \in Ends : Depth(i) = 0}
             e == MainEnd
  <2>1. e > 0 /\ pos = e + 1
    BY <1>4 DEF Following, TakesTheGrammar, Grammatical
  <2>2. pos \in Nat
    BY DEF Following, Stacked
  <2>3. e \in Ends
    <3>1. over # {}
      BY <2>1 DEF MainEnd
    <3>2. over \subseteq Nat /\ over \subseteq Ends
      <4>1. over \subseteq Ends
        BY Zenon
      <4>2. Ends \subseteq Nat
        BY <1>1
      <4> QED BY <4>1, <4>2, Zenon
    <3>3. MainEnd = CHOOSE k \in over : \A j \in over : k <= j
      BY <3>1, Zenon DEF MainEnd
    <3> HIDE DEF over
    <3>4. \E k \in over : \A j \in over : k <= j
      BY <3>1, <3>2, LeastNat
    <3> QED BY <3>2, <3>3, <3>4, Zenon
  <2> HIDE DEF e
  <2> QED BY <1>1, <2>1, <2>3
<1> QED BY <1>2, <1>3, <1>4

\* The open blocks have codes.
Coded == \A i \in DOMAIN open : open[i].code \in Byte
Sound == Following /\ stage \in {"begin", "reading", "parsed", "stopped"} /\ pos \in 1..Len(toks) + 1 /\ Coded

\* A step that reads on, or to the end of Main.
Onward == Coded' /\ stage' \in {"reading", "parsed"}

\* Main has the code 0.
LEMMA BeginCoded ==
  ASSUME Begin
  PROVE  Onward
<1> DEFINE b == [code |-> 0, kids |-> <<>>]
<1>1. open' = <<b>> /\ stage' = "reading" /\ b.code = 0
  BY DEF Begin
<1> HIDE DEF b
<1>2. DOMAIN open' = 1..1 /\ open'[1] = b
  BY <1>1, Single, Zenon
<1> QED BY <1>1, <1>2 DEF Coded, Onward, Byte

\* The end of Main leaves no block, that of a block one less.
LEMMA EndCoded ==
  ASSUME Stacked, Coded, End \/ CloseBlock
  PROVE  Onward
<1>1. CASE End
  <2>1. open' = <<>> /\ stage' = "parsed"
    BY <1>1, Zenon DEF End
  <2> QED BY <2>1 DEF Coded, Onward
<1>2. CASE CloseBlock
  <2> DEFINE m == Len(open)
             k == open[m - 1].kids \o <<Block(open[m].code, open[m].kids)>>
  <2>1. /\ m \in Nat /\ m >= 2 /\ DOMAIN open' = 1..(m - 1)
        /\ open'[m - 1] = [code |-> open[m - 1].code, kids |-> k]
        /\ \A i \in 1..(m - 2) : open'[i] = open[i]
    BY <1>2, CloseStacks, Zenon
  <2>2. DOMAIN open = 1..m
    BY DEF Stacked, IsSeq
  <2>3. stage' = "reading"
    BY <1>2 DEF CloseBlock
  <2> HIDE DEF k, m
  <2>4. open'[m - 1].code = open[m - 1].code
    BY <2>1
  <2>5. \A i \in DOMAIN open' : i \in DOMAIN open /\ open'[i].code = open[i].code
    BY <2>1, <2>2, <2>4
  <2> QED BY <2>3, <2>5 DEF Coded, Onward
<1> QED BY <1>1, <1>2

\* A statement changes no code.
LEMMA StatementCoded ==
  ASSUME Stacked, Coded, stage = "reading", NEW kinds, NEW more, States(kinds, more)
  PROVE  Onward
<1>1. IsSeq(more) /\ stage' = stage /\ open' = [open EXCEPT ![Len(open)].kids = @ \o more]
  BY DEF States, Add
<1>2. /\ Len(open) \in Nat \ {0} /\ DOMAIN open' = 1..Len(open) /\ DOMAIN open = 1..Len(open)
      /\ \A i \in 1..(Len(open) - 1) : open'[i] = open[i]
      /\ open'[Len(open)] = [code |-> open[Len(open)].code, kids |-> open[Len(open)].kids \o more]
  <2> DEFINE More(t) == /\ Len(open) \in Nat \ {0} /\ DOMAIN t = 1..Len(open) /\ DOMAIN open = 1..Len(open)
                        /\ \A i \in 1..(Len(open) - 1) : t[i] = open[i]
                        /\ t[Len(open)] = [code |-> open[Len(open)].code, kids |-> open[Len(open)].kids \o more]
  <2>1. IsSeq(open) /\ open # <<>> /\ \A i \in DOMAIN open : Shaped(open[i])
    BY Zenon DEF Stacked
  <2>2. More([open EXCEPT ![Len(open)].kids = @ \o more])
    BY <1>1, <2>1, AddedKids, ZenonT(60)
  <2> HIDE DEF More
  <2>3. More(open')
    BY <1>1, <2>2, Zenon
  <2> QED BY <2>3, Zenon DEF More
<1> DEFINE m == Len(open)
           k == open[m].kids \o more
<1> HIDE DEF k, m
<1>3. open'[m].code = open[m].code
  BY <1>2 DEF m, k
<1>4. \A i \in DOMAIN open' : i \in DOMAIN open /\ open'[i].code = open[i].code
  BY <1>2, <1>3 DEF m
<1> QED BY <1>1, <1>4 DEF Coded, Onward

\* A new block has the code of its head.
LEMMA HeadCoded ==
  ASSUME Stacked, Coded, stage = "reading", NEW kinds \in Heads, Reads(kinds), Open(Len(kinds), CodeOf(Item(Len(kinds))))
  PROVE  Onward
<1> DEFINE c == CodeOf(Item(Len(kinds)))
           b == [code |-> c, kids |-> <<>>]
<1>1. stage' = stage /\ open' = Append(open, b)
  BY DEF Open
<1>2. c \in Byte
  BY HeadCode, Zenon
<1>3. b.code = c
  OBVIOUS
<1>4. IsSeq(open)
  BY Zenon DEF Stacked
<1> HIDE DEF b, c
<1>5. DOMAIN open' = 1..(Len(open) + 1) /\ DOMAIN open = 1..Len(open) /\ Len(open) \in Nat
  BY <1>1, <1>4 DEF IsSeq
<1>6. open'[Len(open) + 1] = b /\ \A j \in 1..Len(open) : open'[j] = open[j]
  BY <1>1, <1>4 DEF IsSeq
<1>7. \A i \in DOMAIN open' : open'[i].code \in Byte
  BY <1>2, <1>3, <1>5, <1>6 DEF Coded
<1> QED BY <1>1, <1>7 DEF Coded, Onward

\* The blocks have codes after every step.
LEMMA StepCoded ==
  ASSUME Stacked, Coded, Next
  PROVE  Stop \/ Onward
  BY Steps, BeginCoded, EndCoded, StatementCoded, HeadCoded, Zenon

\* What the parser keeps has its type, in every state and for every text (TypeOK).
THEOREM Typing == Spec => []TypeOK
<1>1. Init => Sound
  <2> SUFFICES ASSUME Init PROVE Sound
    OBVIOUS
  <2>1. Stacked /\ pos = 1 /\ stage = "begin" /\ open = <<>>
    BY InitStacks DEF Init
  <2>2. Len(toks) \in Nat
    BY <2>1, TextIs, Zenon
  <2>3. Following
    <3>1. stage # "reading" /\ stage # "parsed"
      BY <2>1
    <3> QED BY <2>1, <3>1, Zenon DEF Following, TakesTheGrammar
  <2> QED BY <2>1, <2>2, <2>3 DEF Sound, Coded
<1>2. Sound /\ [Next]_vars => Sound'
  <2> SUFFICES ASSUME Sound, [Next]_vars PROVE Sound'
    OBVIOUS
  <2>1. Following' /\ Following /\ Stacked /\ Coded
    BY FollowingStep, Zenon DEF Sound, Following
  <2>2. CASE Stop
    <3>1. stage' = "stopped" /\ toks' = toks /\ pos' = pos /\ open' = open
      BY <2>2, Stopping
    <3> QED BY <2>1, <3>1 DEF Sound, Coded
  <2>3. CASE UNCHANGED vars
    BY <2>1, <2>3 DEF Sound, Coded, vars
  <2>4. CASE Next
    <3>1. Stop \/ Onward
      <4>1. Stacked /\ Coded
        BY <2>1
      <4> QED BY <2>4, <4>1, StepCoded, Zenon
    <3>2. CASE ~Stop
      <4>1. (stage \in {"begin", "reading", "parsed"})'
        BY <3>1, <3>2 DEF Onward
      <4>2. (pos \in 1..Len(toks) + 1)'
        BY <2>1, <4>1, PosInText, PTL
      <4> QED BY <2>1, <3>1, <3>2, <4>1, <4>2 DEF Sound, Onward
    <3> QED BY <2>2, <3>2
  <2> QED BY <2>3, <2>4
<1>3. Sound => TypeOK
  BY DEF Sound, TypeOK, Coded
<1> QED BY <1>1, <1>2, <1>3, PTL DEF Spec

-----------------------------------------------------------------------------
(* The tree, setting by setting.                                           *)

\* Three sequences after each other.
LEMMA JoinThree ==
  ASSUME NEW s, IsSeq(s), NEW t, IsSeq(t), NEW u, IsSeq(u)
  PROVE  (s \o t) \o u = s \o (t \o u)
<1> DEFINE S == {s[j] : j \in DOMAIN s} \cup {t[j] : j \in DOMAIN t} \cup {u[j] : j \in DOMAIN u}
<1>1. s \in Seq(S) /\ t \in Seq(S) /\ u \in Seq(S)
  <2>1. \A T, U : T \subseteq U => Seq(T) \subseteq Seq(U)
    OBVIOUS
  <2> QED BY <2>1 DEF IsSeq
<1> HIDE DEF S
<1> QED BY <1>1

\* Nothing before or behind a sequence.
LEMMA JoinNothing ==
  /\ IsSeq(<<>>) /\ Len(<<>>) = 0
  /\ \A s : IsSeq(s) => <<>> \o s = s /\ s \o <<>> = s
<1>1. ASSUME NEW s, IsSeq(s) PROVE <<>> \o s = s /\ s \o <<>> = s
  <2> DEFINE S == {s[j] : j \in DOMAIN s}
  <2>1. s \in Seq(S)
    BY <1>1 DEF IsSeq
  <2> HIDE DEF S
  <2> QED BY <2>1
<1>2. IsSeq(<<>>) /\ Len(<<>>) = 0
  BY DEF IsSeq
<1> QED BY <1>1, <1>2

\* Settings to come, all at one depth.
LEMMA AtIs ==
  ASSUME NEW s, IsSeq(s), NEW d
  PROVE  /\ IsSeq(At(d, s)) /\ Len(At(d, s)) = Len(s) /\ DOMAIN At(d, s) = 1..Len(s)
         /\ \A i \in 1..Len(s) : At(d, s)[i] = [depth |-> d, of |-> s[i]]
<1> DEFINE n == Len(s)
           t == At(d, s)
           S == {t[i] : i \in 1..n}
<1>1. n \in Nat /\ DOMAIN s = 1..n
  BY DEF IsSeq
<1> HIDE DEF n
<1>2. t = [i \in 1..n |-> [depth |-> d, of |-> s[i]]]
  BY <1>1 DEF At
<1> HIDE DEF t
<1>3. DOMAIN t = 1..n /\ t \in [1..n -> S]
  BY <1>2
<1> HIDE DEF S
<1>4. IsSeq(t) /\ Len(t) = n
  <2>1. t \in Seq(S) /\ Len(t) = n
    BY <1>1, <1>3, FixedSeq
  <2> QED BY <2>1, SomeSeq, Zenon
<1>5. \A i \in 1..n : t[i] = [depth |-> d, of |-> s[i]]
  BY <1>2, Zenon
<1> QED BY <1>3, <1>4, <1>5, Zenon DEF n, t

\* Two sequences with the same elements are the same.
LEMMA SameSeq ==
  ASSUME NEW s, IsSeq(s), NEW t, IsSeq(t), Len(s) = Len(t), \A i \in 1..Len(s) : s[i] = t[i]
  PROVE  s = t
<1>1. s = [i \in 1..Len(s) |-> s[i]] /\ t = [i \in 1..Len(t) |-> t[i]]
  BY DEF IsSeq
<1> QED BY <1>1

\* First the ones, then the others.
LEMMA AtJoined ==
  ASSUME NEW s, IsSeq(s), NEW t, IsSeq(t), NEW d
  PROVE  At(d, s \o t) = At(d, s) \o At(d, t)
<1> DEFINE u == s \o t
           a == At(d, s)
           b == At(d, t)
           l == At(d, u)
           r == a \o b
           m == Len(s)
           n == Len(t)
<1>1. /\ IsSeq(u) /\ m \in Nat /\ n \in Nat /\ Len(u) = m + n
      /\ \A i \in 1..m : u[i] = s[i]
      /\ \A i \in 1..n : u[m + i] = t[i]
  BY JoinSome
<1>2. /\ IsSeq(a) /\ Len(a) = m /\ \A i \in 1..m : a[i] = [depth |-> d, of |-> s[i]]
  BY AtIs, Zenon
<1>3. /\ IsSeq(b) /\ Len(b) = n /\ \A i \in 1..n : b[i] = [depth |-> d, of |-> t[i]]
  BY AtIs, Zenon
<1> HIDE DEF u
<1>4. /\ IsSeq(l) /\ Len(l) = m + n /\ \A i \in 1..(m + n) : l[i] = [depth |-> d, of |-> u[i]]
  <2>1. /\ IsSeq(l) /\ Len(l) = Len(u) /\ \A i \in 1..Len(u) : l[i] = [depth |-> d, of |-> u[i]]
    <3>1. IsSeq(u)
      BY <1>1
    <3> QED BY <3>1, AtIs
  <2> HIDE DEF l, m, n
  <2> QED BY <1>1, <2>1, Zenon
<1> HIDE DEF a, b, l
<1>5. /\ IsSeq(r) /\ Len(r) = Len(a) + Len(b)
      /\ \A i \in 1..Len(a) : r[i] = a[i]
      /\ \A i \in 1..Len(b) : r[Len(a) + i] = b[i]
  <2>1. IsSeq(a) /\ IsSeq(b)
    BY <1>2, <1>3
  <2> QED BY <2>1, JoinSome
<1> HIDE DEF r, m, n
<1>6. \A i \in 1..(m + n) : l[i] = r[i]
  <2> SUFFICES ASSUME NEW i \in 1..(m + n) PROVE l[i] = r[i]
    OBVIOUS
  <2>1. CASE i <= m
    <3>1. i \in 1..m
      BY <1>1, <2>1
    <3>2. u[i] = s[i] /\ a[i] = [depth |-> d, of |-> s[i]] /\ r[i] = a[i]
      BY <1>1, <1>2, <1>5, <3>1, Zenon
    <3> QED BY <1>4, <3>2, Zenon
  <2>2. CASE ~(i <= m)
    <3>1. i - m \in 1..n /\ m + (i - m) = i
      BY <1>1, <2>2
    <3>2. u[m + (i - m)] = t[i - m] /\ r[m + (i - m)] = [depth |-> d, of |-> t[i - m]]
      BY <1>1, <1>2, <1>3, <1>5, <3>1, Zenon
    <3>3. u[i] = t[i - m] /\ r[i] = [depth |-> d, of |-> t[i - m]]
      BY <3>1, <3>2
    <3> QED BY <1>4, <3>3, Zenon
  <2> QED BY <2>1, <2>2
<1>7. l = r
  <2>1. Len(l) = Len(r) /\ \A i \in 1..Len(l) : l[i] = r[i]
    BY <1>2, <1>3, <1>4, <1>5, <1>6, Zenon
  <2> QED BY <1>4, <1>5, <2>1, SameSeq, Zenon
<1> QED BY <1>7 DEF l, u, r, a, b

\* n settings of a walk take it from w to z.
Walks(w, n, z) ==
  \E f : /\ DOMAIN f = 0..n /\ f[0] = w /\ f[n] = z
         /\ \A i \in 1..n : f[i] = OneMore(f[i - 1])

\* No setting takes a walk nowhere.
LEMMA WalkNowhere ==
  ASSUME NEW w
  PROVE  Walks(w, 0, w)
<1> DEFINE f == [i \in 0..0 |-> w]
<1>1. DOMAIN f = 0..0 /\ f[0] = w /\ \A i \in 1..0 : f[i] = OneMore(f[i - 1])
  OBVIOUS
<1> HIDE DEF f
<1> QED BY <1>1, Zenon DEF Walks

\* One setting takes it one further.
LEMMA WalkOne ==
  ASSUME NEW w
  PROVE  Walks(w, 1, OneMore(w))
<1> DEFINE z == OneMore(w)
<1> HIDE DEF z
<1> DEFINE f == [i \in 0..1 |-> IF i = 0 THEN w ELSE z]
<1>1. DOMAIN f = 0..1 /\ f[0] = w /\ f[1] = z /\ \A i \in 1..1 : i = 1 /\ i - 1 = 0
  OBVIOUS
<1> HIDE DEF f
<1>2. \A i \in 1..1 : f[i] = OneMore(f[i - 1])
  BY <1>1, Zenon DEF z
<1> QED BY <1>1, <1>2, Zenon DEF Walks, z

\* A walk goes on where it was.
LEMMA WalkOn ==
  ASSUME NEW w, NEW x, NEW z, NEW m \in Nat, NEW n \in Nat, Walks(w, m, x), Walks(x, n, z)
  PROVE  Walks(w, m + n, z)
<1>1. PICK f : /\ DOMAIN f = 0..m /\ f[0] = w /\ f[m] = x
               /\ \A i \in 1..m : f[i] = OneMore(f[i - 1])
  BY Zenon DEF Walks
<1>2. PICK g : /\ DOMAIN g = 0..n /\ g[0] = x /\ g[n] = z
               /\ \A i \in 1..n : g[i] = OneMore(g[i - 1])
  BY Zenon DEF Walks
<1> DEFINE h == [i \in 0..(m + n) |-> IF i <= m THEN f[i] ELSE g[i - m]]
<1>3. DOMAIN h = 0..(m + n) /\ \A i \in 0..(m + n) : h[i] = IF i <= m THEN f[i] ELSE g[i - m]
  OBVIOUS
<1> HIDE DEF h
<1>4. \A i \in 0..m : h[i] = f[i]
  BY <1>3
<1>5. \A i \in 0..n : h[m + i] = g[i]
  <2> SUFFICES ASSUME NEW i \in 0..n PROVE h[m + i] = g[i]
    OBVIOUS
  <2>1. CASE i = 0
    <3>1. m \in 0..m /\ m + i = m
      BY <2>1
    <3> QED BY <1>1, <1>2, <1>4, <2>1, <3>1, Zenon
  <2>2. CASE i # 0
    <3>1. m + i \in 0..(m + n) /\ ~(m + i <= m) /\ (m + i) - m = i
      BY <2>2
    <3> QED BY <1>3, <3>1
  <2> QED BY <2>1, <2>2
<1>6. \A i \in 1..(m + n) : h[i] = OneMore(h[i - 1])
  <2> SUFFICES ASSUME NEW i \in 1..(m + n) PROVE h[i] = OneMore(h[i - 1])
    OBVIOUS
  <2>1. CASE i <= m
    <3>1. i \in 1..m /\ i \in 0..m /\ i - 1 \in 0..m
      BY <2>1
    <3> QED BY <1>1, <1>4, <3>1, Zenon
  <2>2. CASE ~(i <= m)
    <3> DEFINE j == i - m
    <3>1. j \in 1..n /\ j \in 0..n /\ j - 1 \in 0..n /\ m + j = i /\ m + (j - 1) = i - 1
      BY <2>2
    <3> HIDE DEF j
    <3>2. h[m + j] = g[j] /\ h[m + (j - 1)] = g[j - 1] /\ g[j] = OneMore(g[j - 1])
      BY <1>2, <1>5, <3>1, Zenon
    <3>3. h[i] = g[j] /\ h[i - 1] = g[j - 1]
      BY <3>1, <3>2, Zenon
    <3> QED BY <3>2, <3>3, Zenon
  <2> QED BY <2>1, <2>2
<1>7. 0 \in 0..m /\ n \in 0..n
  OBVIOUS
<1>8. h[0] = w /\ h[m + n] = z
  BY <1>1, <1>2, <1>4, <1>5, <1>7, Zenon
<1> QED BY <1>3, <1>6, <1>8, Zenon DEF Walks

\* A walk, and what it says of one setting.
Walk(said, left) == [said |-> said, left |-> left]
Line(d, code, block) == [depth |-> d, code |-> code, block |-> block]

\* The first of what is left.
LEMMA FirstOfRest ==
  ASSUME NEW l, IsSeq(l), NEW e
  PROVE  <<e>> \o l # <<>> /\ Head(<<e>> \o l) = e /\ Tail(<<e>> \o l) = l
<1> DEFINE u == <<e>> \o l
           n == Len(l)
<1>1. /\ IsSeq(u) /\ n \in Nat /\ Len(u) = n + 1 /\ u[1] = e
      /\ \A j \in 1..n : u[j + 1] = l[j]
  BY ConsAt
<1> HIDE DEF u, n
<1>2. u # <<>>
  <2>1. Len(<<>>) = 0
    OBVIOUS
  <2> QED BY <1>1, <2>1
<1>3. /\ IsSeq(Tail(u)) /\ Len(Tail(u)) = Len(u) - 1 /\ Head(u) = u[1]
      /\ \A j \in 1..(Len(u) - 1) : Tail(u)[j] = u[j + 1]
  BY <1>1, <1>2, TailAt, Zenon
<1>4. Tail(u) = l
  <2>1. Len(Tail(u)) = n
    BY <1>1, <1>3
  <2>2. \A j \in 1..n : Tail(u)[j] = l[j]
    BY <1>1, <1>3
  <2> QED BY <1>3, <2>1, <2>2, SameSeq, Zenon DEF n
<1> QED BY <1>1, <1>2, <1>3, <1>4, Zenon DEF u

\* The next setting is said, and what is in it comes next.
LEMMA OneMoreIs ==
  ASSUME NEW a, IsSeq(a), NEW l, IsSeq(l), NEW x, NEW d
  PROVE  OneMore(Walk(a, <<[depth |-> d, of |-> x]>> \o l))
           = Walk(a \o <<Line(d, x.code, x.block)>>, At(d + 1, x.children) \o l)
<1> DEFINE e == [depth |-> d, of |-> x]
           u == <<e>> \o l
<1>1. u # <<>> /\ Head(u) = e /\ Tail(u) = l
  BY FirstOfRest
<1>2. e.depth = d /\ e.of = x
  OBVIOUS
<1> HIDE DEF e, u
<1>3. Walk(a, u).left = u /\ Walk(a, u).said = a
  BY DEF Walk
<1>4. OneMore(Walk(a, u))
        = [said |-> Append(a, [depth |-> e.depth, code |-> e.of.code, block |-> e.of.block]),
           left |-> At(e.depth + 1, e.of.children) \o l]
  BY <1>1, <1>3, Zenon DEF OneMore
<1>5. Append(a, Line(d, x.code, x.block)) = a \o <<Line(d, x.code, x.block)>>
  BY AppendIsJoin
<1> QED BY <1>2, <1>4, <1>5, Zenon DEF Walk, Line, u, e

\* Wherever settings come up, a walk says this of them, and goes on behind them.
Yields(ts, d, out) ==
  /\ IsSeq(ts) /\ IsSeq(out)
  /\ \A a, r : IsSeq(a) /\ IsSeq(r) => Walks(Walk(a, At(d, ts) \o r), Len(out), Walk(a \o out, r))

\* No settings at any depth.
LEMMA AtNothing == ASSUME NEW d PROVE At(d, <<>>) = <<>>
<1>1. IsSeq(<<>>) /\ Len(<<>>) = 0
  BY JoinNothing
<1>2. IsSeq(At(d, <<>>)) /\ Len(At(d, <<>>)) = Len(<<>>)
  BY <1>1, AtIs, Zenon
<1>3. \A i \in 1..Len(At(d, <<>>)) : At(d, <<>>)[i] = <<>>[i]
  BY <1>1, <1>2
<1> QED BY <1>1, <1>2, <1>3, SameSeq, Zenon

\* Of no settings, it says nothing.
LEMMA YieldsNothing == ASSUME NEW d PROVE Yields(<<>>, d, <<>>)
<1>1. ASSUME NEW a, NEW r, IsSeq(a), IsSeq(r)
      PROVE  Walks(Walk(a, At(d, <<>>) \o r), Len(<<>>), Walk(a \o <<>>, r))
  <2>1. At(d, <<>>) \o r = r /\ a \o <<>> = a /\ Len(<<>>) = 0
    BY <1>1, AtNothing, JoinNothing, Zenon
  <2> QED BY <2>1, WalkNowhere, Zenon
<1> QED BY <1>1, JoinNothing, Zenon DEF Yields

\* Of settings one behind the other, it says what it says of each.
LEMMA YieldsJoined ==
  ASSUME NEW s, NEW t, NEW d, NEW p, NEW q, Yields(s, d, p), Yields(t, d, q)
  PROVE  Yields(s \o t, d, p \o q)
<1>1. IsSeq(s) /\ IsSeq(t) /\ IsSeq(p) /\ IsSeq(q)
  BY Zenon DEF Yields
<1>2. IsSeq(s \o t) /\ IsSeq(p \o q) /\ Len(p) \in Nat /\ Len(q) \in Nat /\ Len(p \o q) = Len(p) + Len(q)
  BY <1>1, JoinSome
<1>3. ASSUME NEW a, NEW r, IsSeq(a), IsSeq(r)
      PROVE  Walks(Walk(a, At(d, s \o t) \o r), Len(p \o q), Walk(a \o (p \o q), r))
  <2> DEFINE l == At(d, t) \o r
             b == a \o p
  <2>1. At(d, s \o t) = At(d, s) \o At(d, t) /\ IsSeq(At(d, s)) /\ IsSeq(At(d, t))
    BY <1>1, AtJoined, AtIs, Zenon
  <2>2. (At(d, s) \o At(d, t)) \o r = At(d, s) \o l
    <3>1. IsSeq(At(d, s)) /\ IsSeq(At(d, t)) /\ IsSeq(r)
      BY <1>3, <2>1
    <3> QED BY <3>1, JoinThree
  <2>3. IsSeq(l) /\ IsSeq(b)
    <3>1. IsSeq(At(d, t)) /\ IsSeq(r) /\ IsSeq(a) /\ IsSeq(p)
      BY <1>1, <1>3, <2>1
    <3> QED BY <3>1, JoinSome
  <2>4. Walks(Walk(a, At(d, s) \o l), Len(p), Walk(b, l))
    <3> HIDE DEF l
    <3> QED BY <1>3, <2>3, Zenon DEF Yields
  <2>5. Walks(Walk(b, l), Len(q), Walk(b \o q, r))
    <3> HIDE DEF b
    <3> QED BY <1>3, <2>3, Zenon DEF Yields
  <2>6. b \o q = a \o (p \o q)
    <3>1. IsSeq(a) /\ IsSeq(p) /\ IsSeq(q)
      BY <1>1, <1>3
    <3> QED BY <3>1, JoinThree
  <2> HIDE DEF l, b
  <2>7. Walks(Walk(a, At(d, s) \o l), Len(p) + Len(q), Walk(b \o q, r))
    BY <1>2, <2>4, <2>5, WalkOn, Zenon
  <2> QED BY <1>2, <2>1, <2>2, <2>6, <2>7, Zenon
<1> QED BY <1>2, <1>3, Zenon DEF Yields

\* Of one setting, it says what it is, and then what is in it.
LEMMA YieldsOne ==
  ASSUME NEW x, NEW d, NEW p, Yields(x.children, d + 1, p)
  PROVE  Yields(<<x>>, d, <<Line(d, x.code, x.block)>> \o p)
<1> DEFINE line == Line(d, x.code, x.block)
           e == [depth |-> d, of |-> x]
           out == <<line>> \o p
<1>1. IsSeq(x.children) /\ IsSeq(p)
  BY Zenon DEF Yields
<1>2. IsSeq(<<x>>) /\ IsSeq(<<line>>)
  BY Single
<1>3. At(d, <<x>>) = <<e>>
  <2>1. IsSeq(<<x>>) /\ Len(<<x>>) = 1 /\ <<x>>[1] = x
    BY Single
  <2>2. IsSeq(<<e>>) /\ Len(<<e>>) = 1 /\ <<e>>[1] = e
    BY Single
  <2>3. /\ IsSeq(At(d, <<x>>)) /\ Len(At(d, <<x>>)) = Len(<<x>>)
        /\ \A i \in 1..Len(<<x>>) : At(d, <<x>>)[i] = [depth |-> d, of |-> <<x>>[i]]
    BY <2>1, AtIs, Zenon
  <2> DEFINE o == <<x>>
             w == <<e>>
             l == At(d, o)
  <2> HIDE DEF w, l, o
  <2>4. 1 \in 1..1 /\ \A i \in 1..1 : i = 1
    OBVIOUS
  <2>5. Len(l) = 1 /\ l[1] = e
    BY <2>1, <2>3, <2>4, Zenon DEF l, o
  <2>6. Len(l) = Len(w) /\ \A i \in 1..Len(l) : l[i] = w[i]
    BY <2>2, <2>4, <2>5, Zenon DEF w
  <2>7. IsSeq(l) /\ IsSeq(w)
    BY <2>2, <2>3, Zenon DEF l, o, w
  <2>8. l = w
    BY <2>6, <2>7, SameSeq, Zenon
  <2> QED BY <2>8, Zenon DEF l, w, o
<1> HIDE DEF line, e, out
<1>4. IsSeq(out) /\ Len(p) \in Nat /\ Len(out) = Len(p) + 1
  <2>1. IsSeq(p)
    BY <1>1
  <2> QED BY <2>1, ConsAt DEF out
<1>5. ASSUME NEW a, NEW r, IsSeq(a), IsSeq(r)
      PROVE  Walks(Walk(a, At(d, <<x>>) \o r), Len(out), Walk(a \o out, r))
  <2> DEFINE b == a \o <<line>>
             l == At(d + 1, x.children) \o r
             w == Walk(a, <<e>> \o r)
  <2>1. OneMore(w) = Walk(b, l)
    BY <1>5, OneMoreIs, Zenon DEF e, line
  <2>2. IsSeq(b)
    <3>1. IsSeq(a) /\ IsSeq(<<line>>)
      BY <1>2, <1>5
    <3> QED BY <3>1, JoinSome
  <2>3. b \o p = a \o out
    <3>1. IsSeq(a) /\ IsSeq(<<line>>) /\ IsSeq(p)
      BY <1>1, <1>2, <1>5
    <3> QED BY <3>1, JoinThree DEF out
  <2> HIDE DEF b, w
  <2>4. Walks(Walk(b, l), Len(p), Walk(b \o p, r))
    BY <1>5, <2>2, Zenon DEF Yields
  <2> HIDE DEF l
  <2>5. Walks(w, 1, Walk(b, l))
    BY <2>1, WalkOne, Zenon
  <2>6. Walks(w, 1 + Len(p), Walk(b \o p, r))
    <3>1. 1 \in Nat
      OBVIOUS
    <3> QED BY <1>4, <2>4, <2>5, <3>1, WalkOn, Zenon
  <2>7. 1 + Len(p) = Len(out)
    BY <1>4
  <2> QED BY <1>3, <2>3, <2>6, <2>7, Zenon DEF w
<1>6. Yields(<<x>>, d, out)
  BY <1>2, <1>4, <1>5, Zenon DEF Yields
<1> QED BY <1>6, Zenon DEF out, line

\* Of settings without others in them.
LEMMA YieldsLeaves ==
  ASSUME NEW ts, IsSeq(ts), NEW d, NEW code, \A i \in 1..Len(ts) : \E v : ts[i] = Leaf(code, v)
  PROVE  Yields(ts, d, [i \in 1..Len(ts) |-> Line(d, code, FALSE)])
<1> DEFINE n == Len(ts)
           line == Line(d, code, FALSE)
           out(k) == [i \in 1..k |-> line]
           T == {k \in 0..n : Yields(SubSeq(ts, 1, k), d, out(k))}
           S == {ts[j] : j \in DOMAIN ts}
<1>1. ts \in Seq(S) /\ n \in Nat
  BY DEF IsSeq
<1> HIDE DEF S, n, line
<1>2. 0 \in T
  <2>1. SubSeq(ts, 1, 0) = <<>> /\ out(0) = <<>>
    BY <1>1
  <2> HIDE DEF out
  <2>2. Yields(SubSeq(ts, 1, 0), d, out(0))
    BY <2>1, YieldsNothing, Zenon
  <2> QED BY <1>1, <2>2
<1>3. ASSUME NEW k \in 1..n, k - 1 \in T PROVE k \in T
  <2> DEFINE j == k - 1
             s == SubSeq(ts, 1, j)
             x == ts[k]
  <2>1. Yields(s, d, out(j)) /\ j \in 0..n /\ k = j + 1
    BY <1>1, <1>3
  <2>2. SubSeq(ts, 1, k) = s \o <<x>>
    <3>1. j \in Nat /\ k \in Nat /\ k <= Len(ts) /\ j <= Len(ts) /\ k \in 1..Len(ts)
      BY <1>1 DEF n
    <3> DEFINE u == SubSeq(ts, 1, k)
               w == s \o <<x>>
    <3>2. u \in Seq(S) /\ Len(u) = k /\ \A i \in 1..k : u[i] = ts[i]
      BY <1>1, <3>1, FirstOf, Zenon
    <3>3. s \in Seq(S) /\ Len(s) = j /\ \A i \in 1..j : s[i] = ts[i]
      BY <1>1, <3>1, FirstOf, Zenon
    <3>4. IsSeq(u) /\ IsSeq(s)
      BY <3>2, <3>3, SomeSeq, Zenon
    <3> HIDE DEF u, s, x
    <3>5. /\ IsSeq(w) /\ Len(w) = j + 1 /\ w[j + 1] = x /\ \A i \in 1..j : w[i] = s[i]
      <4>1. IsSeq(s) /\ IsSeq(<<x>>) /\ Len(<<x>>) = 1 /\ <<x>>[1] = x
        BY <3>4, Single
      <4>2. /\ IsSeq(w) /\ Len(w) = Len(s) + Len(<<x>>)
            /\ \A i \in 1..Len(s) : w[i] = s[i]
            /\ \A i \in 1..Len(<<x>>) : w[Len(s) + i] = <<x>>[i]
        BY <4>1, JoinSome
      <4> DEFINE o == <<x>>
      <4> HIDE DEF o, w, j
      <4>3. Len(o) = 1 /\ o[1] = x /\ Len(w) = Len(s) + Len(o) /\ \A i \in 1..Len(o) : w[Len(s) + i] = o[i]
        BY <4>1, <4>2 DEF o
      <4>4. w[Len(s) + 1] = o[1]
        BY <4>3
      <4> QED BY <3>3, <4>2, <4>3, <4>4, Zenon
    <3> HIDE DEF w
    <3>6. \A i \in 1..k : u[i] = w[i]
      <4> SUFFICES ASSUME NEW i \in 1..k PROVE u[i] = w[i]
        OBVIOUS
      <4>1. CASE i = k
        BY <2>1, <3>2, <3>5, <4>1, Zenon DEF x
      <4>2. CASE i # k
        <5>1. i \in 1..j
          BY <3>1, <4>2
        <5> QED BY <3>2, <3>3, <3>5, <5>1, Zenon
      <4> QED BY <4>1, <4>2
    <3>7. u = w
      BY <2>1, <3>2, <3>4, <3>5, <3>6, SameSeq, Zenon
    <3> QED BY <3>7 DEF u, w
  <2>3. Yields(<<x>>, d, <<line>>)
    <3>1. PICK v : x = Leaf(code, v)
      <4>1. k \in 1..Len(ts)
        BY DEF n
      <4> QED BY <4>1, Zenon
    <3>2. x.children = <<>> /\ x.code = code /\ x.block = FALSE
      BY <3>1 DEF Leaf
    <3> DEFINE m == Line(d, x.code, x.block)
    <3>3. m = line
      BY <3>2, Zenon DEF line
    <3> HIDE DEF x, m
    <3>4. Yields(x.children, d + 1, <<>>)
      BY <3>2, YieldsNothing, Zenon
    <3>5. Yields(<<x>>, d, <<m>> \o <<>>)
      BY <3>4, YieldsOne, Zenon DEF m
    <3>6. <<m>> \o <<>> = <<m>>
      <4>1. IsSeq(<<m>>)
        BY Single
      <4> QED BY <4>1, JoinNothing, Zenon
    <3> QED BY <3>3, <3>5, <3>6, Zenon
  <2>4. Yields(s \o <<x>>, d, out(j) \o <<line>>)
    <3> HIDE DEF s, x, j, out
    <3> QED BY <2>1, <2>3, YieldsJoined, Zenon
  <2>5. out(j) \o <<line>> = out(k)
    <3>1. out(j) \in Seq({line}) /\ Len(out(j)) = j
      BY <2>1, <1>1
    <3>2. out(k) = Append(out(j), line)
      BY <2>1, <1>1
    <3> HIDE DEF out
    <3>3. IsSeq(out(j))
      BY <3>1, SomeSeq, Zenon
    <3> QED BY <3>2, <3>3, AppendIsJoin, Zenon
  <2>6. Yields(SubSeq(ts, 1, k), d, out(k))
    <3> HIDE DEF s, x, j, out
    <3> QED BY <2>2, <2>4, <2>5, Zenon
  <2> QED BY <1>1, <2>6
<1>4. n \in T
  <2> HIDE DEF T
  <2>1. \A k \in 0..n : k \in T
    BY <1>1, <1>2, <1>3, UpTo
  <2> QED BY <1>1, <2>1
<1>5. SubSeq(ts, 1, n) = ts
  BY <1>1 DEF n
<1> QED BY <1>4, <1>5 DEF n, line

\* The tree that says what the text says, setting by setting, is the text's.
LEMMA OutlineIs ==
  ASSUME Yields(tree, 1, Said)
  PROVE  Outline[Len(Said)] = [said |-> Said, left |-> <<>>]
<1> DEFINE n == Len(Said)
           w == Walk(<<>>, At(1, tree))
           z == Walk(Said, <<>>)
           g == CHOOSE g : g = [i \in 0..n |-> IF i = 0 THEN w ELSE OneMore(g[i - 1])]
<1>1. IsSeq(tree) /\ IsSeq(Said) /\ n \in Nat
  BY DEF Yields, IsSeq
<1>2. Walks(w, n, z)
  <2>1. IsSeq(<<>>)
    BY JoinNothing
  <2>2. Walks(Walk(<<>>, At(1, tree) \o <<>>), n, Walk(<<>> \o Said, <<>>))
    BY <2>1, Zenon DEF Yields
  <2>3. IsSeq(At(1, tree))
    BY <1>1, AtIs, Zenon
  <2>4. At(1, tree) \o <<>> = At(1, tree) /\ <<>> \o Said = Said
    BY <1>1, <2>3, JoinNothing, Zenon
  <2> QED BY <2>2, <2>4, Zenon
<1>3. Outline = g
  BY DEF Outline, Walk
<1> HIDE DEF n, w, z
<1>4. PICK f : /\ DOMAIN f = 0..n /\ f[0] = w /\ f[n] = z
               /\ \A i \in 1..n : f[i] = OneMore(f[i - 1])
  BY <1>2, Zenon DEF Walks
<1>5. \E h : h = [i \in 0..n |-> IF i = 0 THEN w ELSE OneMore(h[i - 1])]
  <2> DEFINE h == [i \in 0..n |-> f[i]]
  <2>1. \A i \in 0..n : h[i] = IF i = 0 THEN w ELSE OneMore(h[i - 1])
    <3> SUFFICES ASSUME NEW i \in 0..n PROVE h[i] = IF i = 0 THEN w ELSE OneMore(h[i - 1])
      OBVIOUS
    <3>1. CASE i = 0
      BY <1>4, <3>1
    <3>2. CASE i # 0
      <4>1. i \in 1..n /\ i - 1 \in 0..n
        BY <1>1, <3>2
      <4>2. h[i] = f[i] /\ h[i - 1] = f[i - 1]
        BY <4>1
      <4> HIDE DEF h
      <4> QED BY <1>4, <3>2, <4>1, <4>2, Zenon
    <3> QED BY <3>1, <3>2
  <2>2. h = [i \in 0..n |-> h[i]]
    OBVIOUS
  <2> HIDE DEF h
  <2>3. h = [i \in 0..n |-> IF i = 0 THEN w ELSE OneMore(h[i - 1])]
    BY <2>1, <2>2
  <2> QED BY <2>3
<1>6. g = [i \in 0..n |-> IF i = 0 THEN w ELSE OneMore(g[i - 1])]
  BY <1>5
<1> HIDE DEF g
<1>7. g[0] = w /\ \A i \in 1..n : g[i] = OneMore(g[i - 1])
  BY <1>1, <1>6
<1>8. g[n] = f[n]
  <2> DEFINE T == {i \in 0..n : g[i] = f[i]}
  <2>1. 0 \in T
    BY <1>1, <1>4, <1>7
  <2>2. \A i \in 1..n : i - 1 \in T => i \in T
    <3> SUFFICES ASSUME NEW i \in 1..n, i - 1 \in T PROVE i \in T
      OBVIOUS
    <3>1. g[i - 1] = f[i - 1] /\ i \in 0..n
      BY <1>1
    <3>2. g[i] = f[i]
      BY <1>4, <1>7, <3>1, Zenon
    <3> QED BY <3>1, <3>2
  <2>3. \A i \in 0..n : i \in T
    <3> HIDE DEF T
    <3> QED BY <1>1, <2>1, <2>2, UpTo
  <2> QED BY <1>1, <2>3
<1> QED BY <1>3, <1>4, <1>8, Zenon DEF n, z, Walk

-----------------------------------------------------------------------------
(* The text, setting by setting.                                           *)

\* What the text says at i, and up to m.
Part(i) ==
  IF i \notin Ends \ {2} \/ toks[i].kind = "RBrace" THEN <<>>
  ELSE LET depth == IF toks[i].kind = "LBrace" THEN Depth(i) - 1 ELSE Depth(i)
       IN [k \in 1..Copies(Piece(i)) |-> [depth |-> depth, code |-> CodeOf(Piece(i)), block |-> toks[i].kind = "LBrace"]]
SaidTo(m) == FlattenSeq([i \in 1..m |-> Part(i)])

\* The contract's words are those up to the end of Main.
LEMMA SaidIs == Said = SaidTo(MainEnd)
  BY DEF Said, SaidTo, Part

\* What is said up to the next token.
LEMMA SaidNext ==
  ASSUME NEW m \in Nat, \A i \in 1..(m + 1) : IsSeq(Part(i))
  PROVE  IsSeq(SaidTo(m)) /\ SaidTo(m + 1) = SaidTo(m) \o Part(m + 1)
<1> DEFINE S == UNION {{Part(i)[j] : j \in DOMAIN Part(i)} : i \in 1..(m + 1)}
           F == [i \in 1..(m + 1) |-> Part(i)]
<1>1. \A i \in 1..(m + 1) : Part(i) \in Seq(S)
  <2> SUFFICES ASSUME NEW i \in 1..(m + 1) PROVE Part(i) \in Seq(S)
    OBVIOUS
  <2> DEFINE R == {Part(i)[j] : j \in DOMAIN Part(i)}
  <2>1. R \subseteq S
    OBVIOUS
  <2>2. Part(i) \in Seq(R)
    BY DEF IsSeq
  <2>3. \A T, U : T \subseteq U => Seq(T) \subseteq Seq(U)
    OBVIOUS
  <2> HIDE DEF R, S
  <2> QED BY <2>1, <2>2, <2>3, Zenon
<1> HIDE DEF S
<1>2. F \in [1..(m + 1) -> Seq(S)] /\ F[m + 1] = Part(m + 1)
  BY <1>1
<1>3. [i \in 1..m |-> F[i]] = [i \in 1..m |-> Part(i)]
  OBVIOUS
<1>4. SaidTo(m + 1) = FlattenSeq(F) /\ SaidTo(m) = FlattenSeq([i \in 1..m |-> F[i]])
  BY <1>3, Zenon DEF SaidTo
<1> HIDE DEF F
<1>5. /\ FlattenSeq([i \in 1..m |-> F[i]]) \in Seq(S)
      /\ FlattenSeq(F) = FlattenSeq([i \in 1..m |-> F[i]]) \o F[m + 1]
  BY <1>2, FamilyNext
<1>6. IsSeq(SaidTo(m))
  BY <1>4, <1>5, SomeSeq, Zenon
<1> QED BY <1>2, <1>4, <1>5, <1>6, Zenon

\* Between the ends it says nothing.
LEMMA SaidSilent ==
  ASSUME NEW m \in Nat, NEW n \in Nat, \A i \in 1..m : IsSeq(Part(i)), \A i \in (m + 1)..(m + n) : Part(i) = <<>>
  PROVE  SaidTo(m + n) = SaidTo(m)
<1> DEFINE T == {k \in 0..n : SaidTo(m + k) = SaidTo(m)}
<1>1. \A i \in 1..(m + n) : IsSeq(Part(i))
  <2> SUFFICES ASSUME NEW i \in 1..(m + n) PROVE IsSeq(Part(i))
    OBVIOUS
  <2>1. i \in 1..m \/ i \in (m + 1)..(m + n)
    OBVIOUS
  <2> QED BY <2>1, JoinNothing, Zenon
<1>2. 0 \in T
  OBVIOUS
<1>3. ASSUME NEW k \in 1..n, k - 1 \in T PROVE k \in T
  <2> DEFINE j == m + (k - 1)
  <2>1. j \in Nat /\ j + 1 = m + k /\ m + k \in (m + 1)..(m + n) /\ \A i \in 1..(j + 1) : i \in 1..(m + n)
    OBVIOUS
  <2>2. SaidTo(j) = SaidTo(m)
    BY <1>3
  <2> HIDE DEF j
  <2>3. IsSeq(SaidTo(j)) /\ SaidTo(j + 1) = SaidTo(j) \o Part(j + 1)
    BY <1>1, <2>1, SaidNext, Zenon
  <2>4. Part(j + 1) = <<>>
    BY <2>1, Zenon
  <2>5. SaidTo(j) \o <<>> = SaidTo(j)
    BY <2>3, JoinNothing, Zenon
  <2>6. SaidTo(m + k) = SaidTo(m)
    BY <2>1, <2>2, <2>3, <2>4, <2>5, Zenon
  <2> QED BY <2>6
<1>4. n \in T
  <2> HIDE DEF T
  <2>1. \A k \in 0..n : k \in T
    BY <1>2, <1>3, UpTo
  <2> QED BY <2>1
<1> QED BY <1>4

\* What is read says what is said at its end.
LEMMA SaidStep ==
  ASSUME Stacked, NEW d, SoFar(pos, d), NEW kinds, NEW last \in Brackets, Closed(kinds, last), Reads(kinds),
         \A i \in 1..(pos - 1) : IsSeq(Part(i)), IsSeq(Part(pos + Len(kinds) - 1))
  PROVE  LET i == pos + Len(kinds) - 1
         IN /\ IsSeq(SaidTo(pos - 1)) /\ SaidTo(i) = SaidTo(pos - 1) \o Part(i)
            /\ \A j \in 1..i : IsSeq(Part(j))
<1> DEFINE n == Len(kinds)
           i == pos + n - 1
           m == pos - 1
<1>1. /\ n \in Nat \ {0} /\ i \in Ends /\ 2 < i
      /\ \A j \in Ends : j < pos + n => j < pos \/ j = i
  BY StepOver, Zenon
<1>2. pos \in Nat \ {0} /\ m \in Nat /\ n - 1 \in Nat
  BY <1>1 DEF Stacked
<1>3. IsSeq(Part(i)) /\ \A j \in 1..m : IsSeq(Part(j))
  BY Zenon
<1> HIDE DEF n
<1>4. m + (n - 1) \in Nat /\ (m + (n - 1)) + 1 = i /\ \A j \in (m + 1)..(m + (n - 1)) : j < pos + n /\ ~(j < pos) /\ j # i
  BY <1>1, <1>2
<1>5. \A j \in (m + 1)..(m + (n - 1)) : j \notin Ends
  BY <1>1, <1>4, Zenon
<1>6. \A j \in (m + 1)..(m + (n - 1)) : Part(j) = <<>>
  BY <1>5, Zenon DEF Part
<1>7. SaidTo(m + (n - 1)) = SaidTo(m)
  <2> HIDE DEF m
  <2> QED BY <1>2, <1>3, <1>6, SaidSilent, Zenon
<1>8. \A j \in 1..i : IsSeq(Part(j))
  <2> SUFFICES ASSUME NEW j \in 1..i PROVE IsSeq(Part(j))
    OBVIOUS
  <2>1. j \in 1..m \/ j \in (m + 1)..(m + (n - 1)) \/ j = i
    BY <1>2, <1>4
  <2> QED BY <1>3, <1>6, <2>1, JoinNothing, Zenon
<1> DEFINE h == m + (n - 1)
<1> HIDE DEF h, i
<1>9. IsSeq(SaidTo(h)) /\ SaidTo(h + 1) = SaidTo(h) \o Part(h + 1)
  <2>1. h \in Nat /\ h + 1 = i
    BY <1>4 DEF h
  <2> QED BY <1>8, <2>1, SaidNext, Zenon
<1>10. SaidTo(h) = SaidTo(m) /\ h + 1 = i
  BY <1>4, <1>7 DEF h
<1>11. IsSeq(SaidTo(m)) /\ SaidTo(i) = SaidTo(m) \o Part(i)
  BY <1>9, <1>10, Zenon
<1> QED BY <1>8, <1>11, Zenon DEF n, i, m

-----------------------------------------------------------------------------
(* The blocks that are open, and what they say so far.                     *)

\* What is said of the i-th block and what is in it is P[i]; with what is said of
\* the blocks around it, Q[i].
Lines(s, P, Q) ==
  /\ \A i \in 1..Len(s) : Yields(s[i].kids, i, P[i])
  /\ Q[1] = P[1]
  /\ \A i \in 2..Len(s) : Q[i] = Q[i - 1] \o (<<Line(i - 1, s[i].code, TRUE)>> \o P[i])
  /\ \A i \in 1..Len(s) : IsSeq(Q[i])
Built(s, x) == \E P, Q : Lines(s, P, Q) /\ Q[Len(s)] = x

\* Main, with nothing in it.
LEMMA BuiltFirst == ASSUME NEW c PROVE Built(<<[code |-> c, kids |-> <<>>]>>, <<>>)
<1> DEFINE b == [code |-> c, kids |-> <<>>]
           s == <<b>>
           P == [i \in 1..1 |-> <<>>]
<1>1. Len(s) = 1 /\ s[1].kids = <<>>
  <2>1. b.kids = <<>>
    OBVIOUS
  <2> HIDE DEF b
  <2>2. Len(s) = 1 /\ s[1] = b
    BY Single
  <2> HIDE DEF s
  <2> QED BY <2>1, <2>2
<1>2. P[1] = <<>> /\ (\A i \in 1..1 : i = 1) /\ \A i \in 2..1 : FALSE
  OBVIOUS
<1> HIDE DEF s, P
<1>3. Lines(s, P, P)
  BY <1>1, <1>2, YieldsNothing, JoinNothing, Zenon DEF Lines
<1>4. Built(s, <<>>)
  BY <1>1, <1>2, <1>3, Zenon DEF Built
<1> QED BY <1>4 DEF s

\* What Main holds in the end is all that is said.
LEMMA BuiltLast ==
  ASSUME NEW s, Len(s) = 1, NEW x, Built(s, x)
  PROVE  Yields(s[1].kids, 1, x)
<1>1. PICK P, Q : Lines(s, P, Q) /\ Q[Len(s)] = x
  BY Zenon DEF Built
<1>2. 1 \in 1..Len(s)
  OBVIOUS
<1>3. Yields(s[1].kids, 1, P[1]) /\ Q[1] = P[1]
  BY <1>1, <1>2, Zenon DEF Lines
<1>4. Q[1] = x
  BY <1>1
<1> QED BY <1>3, <1>4, Zenon

\* Four sequences after each other.
Four(s, t, u, v) == (s \o (t \o u)) \o v = s \o (t \o (u \o v))
\* Three of them may be put together first.
LEMMA JoinFour ==
  ASSUME NEW s, NEW t, NEW u, NEW v, IsSeq(s), IsSeq(t), IsSeq(u), IsSeq(v)
  PROVE  Four(s, t, u, v)
<1> DEFINE tu == t \o u
<1>1. (t \o u) \o v = t \o (u \o v)
  BY JoinThree
<1>2. IsSeq(tu)
  BY JoinSome
<1> HIDE DEF tu
<1>3. (s \o tu) \o v = s \o (tu \o v)
  BY <1>2, JoinThree
<1> QED BY <1>1, <1>3 DEF tu, Four

\* More settings in the innermost block.
LEMMA BuiltMore ==
  ASSUME NEW s, IsSeq(s), s # <<>>, \A i \in DOMAIN s : Shaped(s[i]), NEW x, Built(s, x),
         NEW more, NEW out, Yields(more, Len(s), out)
  PROVE  Built([s EXCEPT ![Len(s)].kids = @ \o more], x \o out)
<1> DEFINE m == Len(s)
           t == [s EXCEPT ![m].kids = @ \o more]
<1>1. PICK P, Q : Lines(s, P, Q) /\ Q[m] = x
  BY Zenon DEF Built
<1>2. /\ Len(t) = m /\ m \in Nat \ {0}
      /\ \A i \in 1..(m - 1) : t[i] = s[i]
      /\ t[m] = [code |-> s[m].code, kids |-> s[m].kids \o more]
  <2>1. IsSeq(more)
    BY Zenon DEF Yields
  <2> HIDE DEF t, m
  <2> DEFINE More(u) == /\ Len(u) = m /\ m \in Nat \ {0}
                        /\ \A i \in 1..(m - 1) : u[i] = s[i]
                        /\ u[m] = [code |-> s[m].code, kids |-> s[m].kids \o more]
  <2>2. More([s EXCEPT ![Len(s)].kids = @ \o more])
    BY <2>1, AddedKids, Zenon DEF m
  <2> HIDE DEF More
  <2>3. More(t)
    BY <2>2, Zenon DEF t, m
  <2> QED BY <2>3, Zenon DEF More
<1>3. t[m].code = s[m].code /\ t[m].kids = s[m].kids \o more
  BY <1>2
<1> HIDE DEF t, m
<1> DEFINE R == [i \in 1..m |-> IF i = m THEN P[m] \o out ELSE P[i]]
           Z == [i \in 1..m |-> IF i = m THEN Q[m] \o out ELSE Q[i]]
<1>4. /\ R[m] = P[m] \o out /\ Z[m] = Q[m] \o out /\ m \in 1..m
      /\ \A i \in 1..(m - 1) : i \in 1..m /\ i # m /\ R[i] = P[i] /\ Z[i] = Q[i]
      /\ \A i \in 1..m : i = m \/ i \in 1..(m - 1)
  BY <1>2
<1> HIDE DEF R, Z
<1>5. /\ \A i \in 1..m : Yields(s[i].kids, i, P[i])
      /\ Q[1] = P[1]
      /\ \A i \in 2..m : Q[i] = Q[i - 1] \o (<<Line(i - 1, s[i].code, TRUE)>> \o P[i])
      /\ \A i \in 1..m : IsSeq(Q[i])
      /\ Yields(more, m, out)
  BY <1>1, Zenon DEF Lines, m
<1>6. \A i \in 1..m : Yields(t[i].kids, i, R[i])
  <2>1. Yields(t[m].kids, m, R[m])
    <3>1. Yields(s[m].kids, m, P[m]) /\ Yields(more, m, out)
      BY <1>4, <1>5, Zenon
    <3>2. Yields(s[m].kids \o more, m, P[m] \o out)
      BY <3>1, YieldsJoined, Zenon
    <3> QED BY <1>3, <1>4, <3>2, Zenon
  <2>2. \A i \in 1..(m - 1) : Yields(t[i].kids, i, R[i])
    BY <1>2, <1>4, <1>5, Zenon
  <2> QED BY <1>4, <2>1, <2>2, Zenon
<1>7. Z[1] = R[1]
  <2>1. CASE m = 1
    BY <1>4, <1>5, <2>1
  <2>2. CASE m # 1
    <3>1. 1 \in 1..(m - 1)
      BY <1>2, <2>2
    <3> QED BY <1>4, <1>5, <3>1, Zenon
  <2> QED BY <2>1, <2>2
<1>8. \A i \in 1..m : IsSeq(Z[i]) /\ IsSeq(P[i]) /\ IsSeq(out)
  <2>1. IsSeq(Q[m]) /\ IsSeq(out) /\ \A i \in 1..m : IsSeq(P[i])
    BY <1>4, <1>5, Zenon DEF Yields
  <2>2. IsSeq(Q[m] \o out)
    <3>1. IsSeq(Q[m]) /\ IsSeq(out)
      BY <2>1
    <3> QED BY <3>1, JoinSome
  <2> QED BY <1>4, <1>5, <2>1, <2>2, Zenon
<1>9. \A i \in 2..m : Z[i] = Z[i - 1] \o (<<Line(i - 1, t[i].code, TRUE)>> \o R[i])
  <2> SUFFICES ASSUME NEW i \in 2..m PROVE Z[i] = Z[i - 1] \o (<<Line(i - 1, t[i].code, TRUE)>> \o R[i])
    OBVIOUS
  <2>1. i - 1 \in 1..(m - 1) /\ i \in 1..m /\ i - 1 \in 1..m
    BY <1>2
  <2>2. Z[i - 1] = Q[i - 1] /\ IsSeq(Q[i - 1])
    BY <1>4, <1>5, <2>1, Zenon
  <2> DEFINE e == <<Line(i - 1, s[i].code, TRUE)>>
  <2>3. Q[i] = Q[i - 1] \o (e \o P[i])
    BY <1>5, Zenon
  <2>4. CASE i # m
    <3>1. i \in 1..(m - 1)
      BY <1>4, <2>1, <2>4, Zenon
    <3>2. Z[i] = Q[i] /\ R[i] = P[i] /\ t[i] = s[i]
      BY <1>2, <1>4, <3>1, Zenon
    <3> QED BY <2>2, <2>3, <3>2, Zenon
  <2>5. CASE i = m
    <3>1. IsSeq(e)
      BY Single
    <3>2. Z[i] = Q[i] \o out /\ R[i] = P[i] \o out /\ t[i].code = s[i].code
      BY <1>3, <1>4, <2>5, Zenon
    <3> HIDE DEF e
    <3>3. IsSeq(e) /\ IsSeq(P[i]) /\ IsSeq(out) /\ IsSeq(Q[i - 1])
      BY <1>8, <2>1, <2>2, <3>1, Zenon
    <3>4. (Q[i - 1] \o (e \o P[i])) \o out = Q[i - 1] \o (e \o (P[i] \o out))
      <4>1. Four(Q[i - 1], e, P[i], out)
        BY <3>3, JoinFour, Zenon
      <4> QED BY <4>1, Zenon DEF Four
    <3> QED BY <2>2, <2>3, <3>2, <3>4, Zenon DEF e
  <2> QED BY <2>4, <2>5
<1>10. Lines(t, R, Z)
  BY <1>2, <1>6, <1>7, <1>8, <1>9, Zenon DEF Lines
<1>11. Z[Len(t)] = x \o out
  BY <1>1, <1>2, <1>4, Zenon
<1>12. Built(t, x \o out)
  BY <1>10, <1>11, Zenon DEF Built
<1> QED BY <1>12, Zenon DEF t, m

\* One more block.
LEMMA BuiltOpen ==
  ASSUME NEW s, IsSeq(s), s # <<>>, NEW x, Built(s, x), NEW c
  PROVE  Built(Append(s, [code |-> c, kids |-> <<>>]), x \o <<Line(Len(s), c, TRUE)>>)
<1> DEFINE m == Len(s)
           b == [code |-> c, kids |-> <<>>]
           t == Append(s, b)
           e == <<Line(m, c, TRUE)>>
           n == m + 1
<1>1. PICK P, Q : Lines(s, P, Q) /\ Q[m] = x
  BY Zenon DEF Built
<1>2. b.code = c /\ b.kids = <<>>
  OBVIOUS
<1> HIDE DEF b
<1>3. m \in Nat \ {0}
  BY DEF IsSeq
<1>4. Len(t) = n /\ t[n] = b /\ \A j \in 1..m : t[j] = s[j]
  <2>1. t[n] = b /\ \A j \in 1..m : t[j] = s[j]
    BY AppendAt, ZenonT(40)
  <2>2. Len(t) = n
    BY DEF IsSeq
  <2> QED BY <2>1, <2>2
<1> HIDE DEF t, m
<1> DEFINE R == [i \in 1..n |-> IF i = n THEN <<>> ELSE P[i]]
           Z == [i \in 1..n |-> IF i = n THEN x \o e ELSE Q[i]]
<1>5. /\ R[n] = <<>> /\ Z[n] = x \o e /\ 1 \in 1..m /\ n \in 1..n /\ n - 1 = m
      /\ \A i \in 1..m : i \in 1..n /\ i # n /\ R[i] = P[i] /\ Z[i] = Q[i]
      /\ \A i \in 1..n : i = n \/ i \in 1..m
      /\ \A i \in 2..n : i = n \/ (i \in 2..m /\ i \in 1..m /\ i - 1 \in 1..m)
      /\ m \in 1..m
  <2> HIDE DEF e
  <2> QED BY <1>3
<1> HIDE DEF R, Z, n
<1>6. /\ \A i \in 1..m : Yields(s[i].kids, i, P[i])
      /\ Q[1] = P[1]
      /\ \A i \in 2..m : Q[i] = Q[i - 1] \o (<<Line(i - 1, s[i].code, TRUE)>> \o P[i])
      /\ \A i \in 1..m : IsSeq(Q[i])
  BY <1>1, Zenon DEF Lines, m
<1>7. \A i \in 1..n : Yields(t[i].kids, i, R[i])
  <2>1. Yields(t[n].kids, n, R[n])
    BY <1>2, <1>4, <1>5, YieldsNothing, Zenon
  <2>2. \A i \in 1..m : Yields(t[i].kids, i, R[i])
    BY <1>4, <1>5, <1>6, Zenon
  <2> QED BY <1>5, <2>1, <2>2, Zenon
<1>8. Z[1] = R[1]
  BY <1>5, <1>6, Zenon
<1>9. IsSeq(e) /\ IsSeq(x) /\ IsSeq(x \o e)
  <2>1. IsSeq(e)
    BY Single
  <2>2. IsSeq(x)
    BY <1>1, <1>5, <1>6, Zenon
  <2> HIDE DEF e
  <2> QED BY <2>1, <2>2, JoinSome
<1>10. \A i \in 1..n : IsSeq(Z[i])
  BY <1>5, <1>6, <1>9, Zenon
<1>11. \A i \in 2..n : Z[i] = Z[i - 1] \o (<<Line(i - 1, t[i].code, TRUE)>> \o R[i])
  <2> SUFFICES ASSUME NEW i \in 2..n PROVE Z[i] = Z[i - 1] \o (<<Line(i - 1, t[i].code, TRUE)>> \o R[i])
    OBVIOUS
  <2>1. CASE i = n
    <3>1. Z[i - 1] = x
      BY <1>1, <1>5, <2>1, Zenon
    <3>2. <<Line(i - 1, t[i].code, TRUE)>> = e
      BY <1>2, <1>4, <1>5, <2>1, Zenon
    <3>3. e \o R[i] = e
      BY <1>5, <1>9, <2>1, JoinNothing, Zenon
    <3>4. Z[i] = x \o e
      BY <1>5, <2>1, Zenon
    <3> HIDE DEF e
    <3> QED BY <3>1, <3>2, <3>3, <3>4, Zenon
  <2>2. CASE i # n
    <3>1. i \in 2..m /\ i \in 1..m /\ i - 1 \in 1..m
      BY <1>5, <2>2, Zenon
    <3>2. Z[i] = Q[i] /\ Z[i - 1] = Q[i - 1] /\ R[i] = P[i] /\ t[i] = s[i]
      BY <1>4, <1>5, <3>1, Zenon
    <3>3. Q[i] = Q[i - 1] \o (<<Line(i - 1, s[i].code, TRUE)>> \o P[i])
      BY <1>6, <3>1, Zenon
    <3> QED BY <3>2, <3>3, Zenon
  <2> QED BY <2>1, <2>2
<1>12. Lines(t, R, Z)
  BY <1>4, <1>7, <1>8, <1>10, <1>11, Zenon DEF Lines
<1>13. Z[Len(t)] = x \o e
  BY <1>4, <1>5, Zenon
<1>14. Built(t, x \o e)
  BY <1>12, <1>13, Zenon DEF Built
<1> QED BY <1>14, Zenon DEF t, b, m, e

\* The innermost of m blocks becomes the last setting of the one around it.
Closes(s, t, m) ==
  /\ m \in Nat /\ m >= 2 /\ Len(s) = m /\ Len(t) = m - 1
  /\ t[m - 1] = [code |-> s[m - 1].code, kids |-> s[m - 1].kids \o <<Block(s[m].code, s[m].kids)>>]
  /\ \A i \in 1..(m - 2) : t[i] = s[i]
\* It says what it said.
LEMMA BuiltClose ==
  ASSUME NEW s, NEW t, NEW m, Closes(s, t, m), NEW x, Built(s, x)
  PROVE  Built(t, x)
<1> USE DEF Closes
<1> DEFINE k == m - 1
           b == Block(s[m].code, s[m].kids)
           e == <<Line(k, s[m].code, TRUE)>>
<1>1. PICK P, Q : Lines(s, P, Q) /\ Q[m] = x
  BY Zenon DEF Built
<1>2. /\ \A i \in 1..m : Yields(s[i].kids, i, P[i])
      /\ Q[1] = P[1]
      /\ \A i \in 2..m : Q[i] = Q[i - 1] \o (<<Line(i - 1, s[i].code, TRUE)>> \o P[i])
      /\ \A i \in 1..m : IsSeq(Q[i])
  BY <1>1, Zenon DEF Lines
<1>3. /\ k \in Nat \ {0} /\ k \in 1..k /\ k \in 1..m /\ m \in 1..m /\ m \in 2..m /\ k + 1 = m /\ 1 \in 1..m
      /\ \A i \in 1..(m - 2) : i \in 1..k /\ i \in 1..m /\ i # k
      /\ \A i \in 1..k : i = k \/ i \in 1..(m - 2)
      /\ \A i \in 2..k : i \in 2..m /\ i - 1 \in 1..(m - 2) /\ i - 1 \in 1..m
      /\ (k # 1 => 1 \in 1..(m - 2))
  OBVIOUS
<1>4. t[k].code = s[k].code /\ t[k].kids = s[k].kids \o <<b>>
  OBVIOUS
<1>5. b.code = s[m].code /\ b.block = TRUE /\ b.children = s[m].kids
  BY DEF Block
<1> HIDE DEF b
<1>6. Len(t) = k /\ \A i \in 1..(m - 2) : t[i] = s[i]
  OBVIOUS
<1> DEFINE out == e \o P[m]
           R == [i \in 1..k |-> IF i = k THEN P[k] \o out ELSE P[i]]
           Z == [i \in 1..k |-> IF i = k THEN Q[k] \o out ELSE Q[i]]
<1> HIDE DEF k, out
<1>7. /\ R[k] = P[k] \o out /\ Z[k] = Q[k] \o out
      /\ \A i \in 1..(m - 2) : R[i] = P[i] /\ Z[i] = Q[i]
  BY <1>3
<1> HIDE DEF R, Z
<1>8. IsSeq(e) /\ IsSeq(P[m]) /\ IsSeq(out) /\ IsSeq(P[k]) /\ IsSeq(Q[k])
  <2>1. IsSeq(e)
    BY Single
  <2>2. IsSeq(P[m]) /\ IsSeq(P[k]) /\ IsSeq(Q[k])
    BY <1>2, <1>3, Zenon DEF Yields
  <2> HIDE DEF e
  <2>3. IsSeq(e \o P[m])
    BY <2>1, <2>2, JoinSome
  <2> QED BY <2>1, <2>2, <2>3 DEF out
<1>9. Yields(t[k].kids, k, R[k])
  <2>1. Yields(b.children, k + 1, P[m])
    BY <1>2, <1>3, <1>5, Zenon
  <2>2. Yields(<<b>>, k, <<Line(k, b.code, b.block)>> \o P[m])
    BY <2>1, YieldsOne, Zenon
  <2>3. Yields(<<b>>, k, out)
    <3>1. Line(k, b.code, b.block) = Line(k, s[m].code, TRUE)
      BY <1>5, Zenon
    <3> QED BY <2>2, <3>1, Zenon DEF out
  <2>4. Yields(s[k].kids, k, P[k])
    BY <1>2, <1>3, Zenon
  <2>5. Yields(s[k].kids \o <<b>>, k, P[k] \o out)
    BY <2>3, <2>4, YieldsJoined, Zenon
  <2> QED BY <1>4, <1>7, <2>5, Zenon
<1>10. \A i \in 1..k : Yields(t[i].kids, i, R[i])
  BY <1>2, <1>3, <1>6, <1>7, <1>9, Zenon
<1>11. Z[1] = R[1]
  <2>1. CASE k = 1
    BY <1>2, <1>7, <2>1
  <2>2. CASE k # 1
    BY <1>2, <1>3, <1>7, <2>2, Zenon
  <2> QED BY <2>1, <2>2
<1>12. \A i \in 1..k : IsSeq(Z[i])
  <2>1. IsSeq(Q[k] \o out)
    <3>1. IsSeq(Q[k]) /\ IsSeq(out)
      BY <1>8
    <3> QED BY <3>1, JoinSome
  <2> QED BY <1>2, <1>3, <1>7, <2>1, Zenon
<1>13. \A i \in 2..k : Z[i] = Z[i - 1] \o (<<Line(i - 1, t[i].code, TRUE)>> \o R[i])
  <2> SUFFICES ASSUME NEW i \in 2..k PROVE Z[i] = Z[i - 1] \o (<<Line(i - 1, t[i].code, TRUE)>> \o R[i])
    OBVIOUS
  <2> DEFINE f == <<Line(i - 1, s[i].code, TRUE)>>
  <2>1. i \in 2..m /\ i - 1 \in 1..(m - 2) /\ i - 1 \in 1..m /\ i \in 1..k
    BY <1>3
  <2>2. Q[i] = Q[i - 1] \o (f \o P[i]) /\ Z[i - 1] = Q[i - 1] /\ IsSeq(Q[i - 1])
    BY <1>2, <1>7, <2>1, Zenon
  <2>3. CASE i = k
    <3>1. Z[i] = Q[i] \o out /\ R[i] = P[i] \o out /\ t[i].code = s[i].code
      BY <1>4, <1>7, <2>3, Zenon
    <3>2. IsSeq(f)
      BY Single
    <3> HIDE DEF f
    <3>3. IsSeq(f) /\ IsSeq(P[i]) /\ IsSeq(out) /\ IsSeq(Q[i - 1])
      BY <1>8, <2>2, <2>3, <3>2, Zenon
    <3>4. (Q[i - 1] \o (f \o P[i])) \o out = Q[i - 1] \o (f \o (P[i] \o out))
      <4>1. Four(Q[i - 1], f, P[i], out)
        BY <3>3, JoinFour, Zenon
      <4> QED BY <4>1, Zenon DEF Four
    <3> QED BY <2>2, <3>1, <3>4, Zenon DEF f
  <2>4. CASE i # k
    <3>1. i \in 1..(m - 2)
      BY <1>3, <2>1, <2>4, Zenon
    <3>2. Z[i] = Q[i] /\ R[i] = P[i] /\ t[i] = s[i]
      BY <1>6, <1>7, <3>1, Zenon
    <3> QED BY <2>2, <3>2, Zenon
  <2> QED BY <2>3, <2>4
<1>14. Lines(t, R, Z)
  BY <1>6, <1>10, <1>11, <1>12, <1>13, Zenon DEF Lines
<1>15. Z[Len(t)] = x
  <2>1. m - 1 = k
    BY DEF k
  <2>2. Q[m] = Q[k] \o out
    BY <1>2, <1>3, <2>1, Zenon DEF out
  <2> QED BY <1>1, <1>6, <1>7, <2>2, Zenon
<1> QED BY <1>14, <1>15, Zenon DEF Built

-----------------------------------------------------------------------------
(* The tree is the text.                                                   *)

\* What has been read is said by the blocks that are open, and all of it by the tree.
Told == stage = "reading" => (\A i \in 1..(pos - 1) : IsSeq(Part(i))) /\ Built(open, SaidTo(pos - 1))
Telling == Following /\ Told /\ (stage = "parsed" => Yields(tree, 1, Said))

\* The text does not change, nor what it says.
LEMMA StillSaid ==
  ASSUME toks' = toks
  PROVE  (\A i : Part(i)' = Part(i)) /\ (\A m : SaidTo(m)' = SaidTo(m)) /\ Said' = Said
<1>1. \A i : Part(i)' = Part(i)
  BY DEF Part, Ends, Depth, Piece, Start, CodeOf, Copies
<1>2. \A m : SaidTo(m)' = SaidTo(m)
  BY DEF SaidTo, Part, Ends, Depth, Piece, Start, CodeOf, Copies
<1>3. Said' = Said
  BY DEF Said, MainEnd, Ends, Depth, Piece, Start, CodeOf, Copies
<1> QED BY <1>1, <1>2, <1>3

\* What is said so far, of a text that does not change.
LEMMA StillTold ==
  ASSUME toks' = toks, NEW m, pos' - 1 = m, \A i \in 1..m : IsSeq(Part(i)), NEW s, open' = s, Built(s, SaidTo(m))
  PROVE  Told'
<1>1. \A i : Part(i)' = Part(i)
  BY StillSaid, Zenon
<1>2. SaidTo(pos - 1)' = SaidTo(m)
  <2>1. SaidTo(pos - 1)' = FlattenSeq([i \in 1..(pos' - 1) |-> Part(i)'])
    BY Zenon DEF SaidTo
  <2>2. [i \in 1..(pos' - 1) |-> Part(i)'] = [i \in 1..m |-> Part(i)]
    BY <1>1
  <2> QED BY <2>1, <2>2, Zenon DEF SaidTo
<1>3. \A i \in 1..(pos' - 1) : IsSeq(Part(i)')
  BY <1>1, Zenon
<1>4. Built(open', SaidTo(pos - 1)')
  BY <1>2, Zenon
<1> QED BY <1>3, <1>4, Zenon DEF Told

\* The end of a block says nothing.
LEMMA EndSays ==
  ASSUME Stacked, NEW d, SoFar(pos, d), Kind(1) = "RBrace", \A i \in 1..(pos - 1) : IsSeq(Part(i))
  PROVE  SaidTo(pos) = SaidTo(pos - 1) /\ \A i \in 1..pos : IsSeq(Part(i))
<1> DEFINE kinds == <<Is("RBrace")>>
<1>1. Closed(kinds, "RBrace") /\ "RBrace" \in Brackets
  <2>1. Closed(kinds, "RBrace")
    BY ClosedOne, Zenon
  <2> QED BY <2>1 DEF Brackets
<1>2. Len(kinds) = 1 /\ DOMAIN kinds = 1..1 /\ kinds[1] = Is("RBrace")
  BY Single
<1> HIDE DEF kinds
<1>3. Reads(kinds)
  <2>1. \A j \in DOMAIN kinds : j = 1
    BY <1>2
  <2>2. Kind(1) \in Is("RBrace")
    BY DEF Is
  <2> QED BY <1>2, <2>1, <2>2, Zenon DEF Reads
<1>4. toks[pos + Len(kinds) - 1].kind = "RBrace"
  BY <1>1, <1>3, StepOver, Zenon
<1>5. Part(pos + Len(kinds) - 1) = <<>>
  BY <1>4, Zenon DEF Part
<1>6. LET i == pos + Len(kinds) - 1
      IN /\ IsSeq(SaidTo(pos - 1)) /\ SaidTo(i) = SaidTo(pos - 1) \o Part(i)
         /\ \A j \in 1..i : IsSeq(Part(j))
  <2>1. IsSeq(Part(pos + Len(kinds) - 1))
    BY <1>5, JoinNothing, Zenon
  <2> QED BY <1>1, <1>3, <2>1, SaidStep, Zenon
<1>7. pos + Len(kinds) - 1 = pos
  BY <1>2 DEF Stacked
<1>8. SaidTo(pos - 1) \o <<>> = SaidTo(pos - 1)
  BY <1>6, JoinNothing, Zenon
<1> QED BY <1>5, <1>6, <1>7, <1>8, Zenon

\* Main itself is not said.
LEMMA BeginTells ==
  ASSUME Telling, Begin
  PROVE  Telling'
<1>1. stage = "begin" /\ stage' = "reading" /\ pos' = pos + 2 /\ toks' = toks /\ open' = <<[code |-> 0, kids |-> <<>>]>>
  BY Zenon DEF Begin
<1>2. Following' /\ pos = 1
  BY <1>1, BeginFollows, Zenon DEF Telling, Following
<1>3. pos' = 3 /\ pos' - 1 = 2
  BY <1>1, <1>2
<1>4. toks'[1].kind = "Main"
  BY <1>1, <1>2, Zenon DEF Following, SoFar
<1>5. Part(1) = <<>> /\ Part(2) = <<>>
  <2>1. 1 \notin Ends
    BY <1>1, <1>4 DEF Ends
  <2>2. 1 \notin Ends \ {2} /\ 2 \notin Ends \ {2}
    BY <2>1
  <2> QED BY <2>2, Zenon DEF Part
<1>6. SaidTo(2) = <<>>
  <2>1. \A i \in (0 + 1)..(0 + 2) : i = 1 \/ i = 2
    OBVIOUS
  <2>2. \A i \in 1..0 : IsSeq(Part(i))
    OBVIOUS
  <2>3. \A i \in (0 + 1)..(0 + 2) : Part(i) = <<>>
    BY <1>5, <2>1, Zenon
  <2>4. 0 \in Nat /\ 2 \in Nat /\ 0 + 2 = 2
    OBVIOUS
  <2>5. SaidTo(0 + 2) = SaidTo(0)
    BY <2>2, <2>3, <2>4, SaidSilent, Zenon
  <2>6. SaidTo(0) = <<>>
    <3>1. [i \in 1..0 |-> Part(i)] = <<>>
      OBVIOUS
    <3>2. FlattenSeq(<<>>) = <<>>
      BY DEF FlattenSeq
    <3> QED BY <3>1, <3>2, Zenon DEF SaidTo
  <2> QED BY <2>4, <2>5, <2>6, Zenon
<1>7. \A i \in 1..2 : IsSeq(Part(i))
  <2>1. \A i \in 1..2 : i = 1 \/ i = 2
    OBVIOUS
  <2> QED BY <1>5, <2>1, JoinNothing, Zenon
<1>8. Told'
  BY <1>1, <1>3, <1>6, <1>7, BuiltFirst, StillTold, Zenon
<1>9. stage' # "parsed"
  BY <1>1
<1> QED BY <1>2, <1>8, <1>9, Zenon DEF Telling

\* At the end of Main, its settings say what the text says.
LEMMA EndTells ==
  ASSUME Telling, End
  PROVE  Telling'
<1>1. /\ stage = "reading" /\ stage' = "parsed" /\ Len(open) = 1 /\ Kind(1) = "RBrace" /\ pos' = pos + 1
      /\ toks' = toks /\ tree' = open[1].kids
  BY Zenon DEF End
<1>2. /\ Following' /\ Stacked /\ SoFar(pos, Len(open))
      /\ Built(open, SaidTo(pos - 1)) /\ \A i \in 1..(pos - 1) : IsSeq(Part(i))
  BY <1>1, EndFollows, Zenon DEF Telling, Following, Told
<1>3. Yields(open[1].kids, 1, SaidTo(pos - 1))
  BY <1>1, <1>2, BuiltLast, Zenon
<1>4. SaidTo(pos) = SaidTo(pos - 1)
  BY <1>1, <1>2, EndSays, Zenon
<1>5. MainEnd = pos
  <2>1. pos' = MainEnd' + 1 /\ MainEnd' = MainEnd
    BY <1>1, <1>2, StillGrammatical, Zenon DEF Following, TakesTheGrammar
  <2>2. pos \in Nat /\ pos \in Ends /\ Depth(pos) = 0
    <3>1. pos \in Ends /\ Depth(pos) = Len(open) - 1
      BY <1>1, <1>2, EndReads, Zenon
    <3> QED BY <1>1, <1>2, <3>1 DEF Stacked
  <2>3. MainEnd \in Nat
    <3> DEFINE over == {i \in Ends : Depth(i) = 0}
    <3>1. \A j \in Ends : j < pos => Depth(j) \in Nat \ {0}
      BY <1>2, Zenon DEF SoFar
    <3>2. \A j \in Ends : j < pos => Depth(j) # 0
      BY <3>1
    <3>3. MainEnd = pos
      BY <1>2, <2>2, <3>2, MainEnds, Zenon
    <3> QED BY <2>2, <3>3
  <2> QED BY <1>1, <2>1, <2>2, <2>3
<1>6. Said' = SaidTo(pos - 1)
  BY <1>1, <1>4, <1>5, SaidIs, StillSaid, Zenon
<1>7. Yields(tree', 1, Said')
  BY <1>1, <1>3, <1>6, Zenon
<1>8. stage' # "reading"
  BY <1>1
<1> QED BY <1>2, <1>7, <1>8, Zenon DEF Telling, Told

\* The end of a block changes what no block says.
LEMMA CloseTells ==
  ASSUME Telling, CloseBlock
  PROVE  Telling'
<1>1. stage = "reading" /\ Kind(1) = "RBrace" /\ toks' = toks /\ pos' = pos + 1 /\ stage' = stage
  BY Zenon DEF CloseBlock
<1>2. /\ Following' /\ Stacked /\ SoFar(pos, Len(open))
      /\ Built(open, SaidTo(pos - 1)) /\ \A i \in 1..(pos - 1) : IsSeq(Part(i))
  BY <1>1, CloseFollows, Zenon DEF Telling, Following, Told
<1>3. SaidTo(pos) = SaidTo(pos - 1) /\ \A i \in 1..pos : IsSeq(Part(i))
  BY <1>1, <1>2, EndSays, Zenon
<1> DEFINE m == Len(open)
           b == [code |-> open[m - 1].code,
                 kids |-> open[m - 1].kids \o <<Block(open[m].code, open[m].kids)>>]
<1>4. /\ m \in Nat /\ m >= 2 /\ Len(open') = m - 1
      /\ open'[m - 1] = b /\ \A i \in 1..(m - 2) : open'[i] = open[i]
  BY <1>2, CloseStacks, Zenon
<1>5. Built(open', SaidTo(pos - 1))
  <2>1. Closes(open, open', m)
    BY <1>4, Zenon DEF Closes
  <2> QED BY <1>2, <2>1, BuiltClose, Zenon
<1>6. pos' - 1 = pos
  BY <1>1, <1>2 DEF Stacked
<1>7. Told'
  BY <1>1, <1>3, <1>5, <1>6, StillTold, Zenon
<1>8. stage' # "parsed"
  BY <1>1
<1> QED BY <1>2, <1>7, <1>8, Zenon DEF Telling

\* A statement's settings say what it says.
LEMMA StatementTells ==
  ASSUME Telling, stage = "reading", NEW kinds, NEW more, States(kinds, more)
  PROVE  Telling'
<1>1. /\ Following' /\ Stacked /\ SoFar(pos, Len(open))
      /\ Built(open, SaidTo(pos - 1)) /\ \A i \in 1..(pos - 1) : IsSeq(Part(i))
  BY StatementFollows, Zenon DEF Telling, Following, Told
<1>2. /\ kinds \in Statements /\ Reads(kinds) /\ Add(Len(kinds), more) /\ IsSeq(more)
      /\ Len(more) = Copies(Item(Len(kinds)))
      /\ \A i \in 1..Len(more) : \E v : more[i] = Leaf(CodeOf(Item(Len(kinds))), v)
  BY Zenon DEF States
<1>3. Closed(kinds, "Semi") /\ "Semi" \in Brackets
  <2>1. Closed(kinds, "Semi")
    BY <1>2, AllClosed, Zenon
  <2> QED BY <2>1 DEF Brackets
<1> DEFINE n == Len(kinds)
           i == pos + n - 1
           code == CodeOf(Item(n))
           out == [k \in 1..Len(more) |-> Line(Len(open), code, FALSE)]
<1>4. /\ n \in Nat \ {0} /\ i \in Ends /\ 2 < i /\ toks[i].kind = "Semi" /\ Piece(i) = Item(n)
      /\ Depth(i) = Len(open)
  BY <1>1, <1>2, <1>3, StepOver, Zenon
<1>5. Yields(more, Len(open), out)
  <2> HIDE DEF code
  <2>1. \A k \in 1..Len(more) : \E v : more[k] = Leaf(code, v)
    BY <1>2, Zenon DEF code
  <2> QED BY <1>2, <2>1, YieldsLeaves, Zenon
<1> HIDE DEF out, i, n
<1>6. Part(i) = out
  <2>1. i \in Ends \ {2} /\ toks[i].kind # "RBrace" /\ toks[i].kind # "LBrace"
    BY <1>4
  <2>2. Part(i) = [k \in 1..Copies(Piece(i)) |-> [depth |-> Depth(i), code |-> CodeOf(Piece(i)), block |-> FALSE]]
    BY <2>1 DEF Part
  <2>3. Copies(Piece(i)) = Len(more)
    BY <1>2, <1>4, Zenon DEF n
  <2> QED BY <1>4, <2>2, <2>3, Zenon DEF out, Line
<1>7. IsSeq(out)
  BY <1>5, Zenon DEF Yields
<1>8. SaidTo(i) = SaidTo(pos - 1) \o out /\ \A j \in 1..i : IsSeq(Part(j))
  BY <1>1, <1>2, <1>3, <1>6, <1>7, SaidStep, Zenon DEF i, n
<1>9. /\ toks' = toks /\ pos' = pos + n /\ stage' = stage
      /\ open' = [open EXCEPT ![Len(open)].kids = @ \o more]
  BY <1>2, Zenon DEF Add, n
<1>10. Built([open EXCEPT ![Len(open)].kids = @ \o more], SaidTo(pos - 1) \o out)
  BY <1>1, <1>5, BuiltMore, Zenon DEF Stacked
<1>11. Built(open', SaidTo(i))
  BY <1>8, <1>9, <1>10, Zenon
<1>12. pos' - 1 = i
  BY <1>1, <1>4, <1>9 DEF i, Stacked
<1>13. Told'
  BY <1>8, <1>9, <1>11, <1>12, StillTold, Zenon
<1>14. stage' # "parsed"
  BY <1>9
<1> QED BY <1>1, <1>13, <1>14, Zenon DEF Telling

\* The head of a block is no certificate.
LEMMA HeadsKind ==
  ASSUME NEW kinds \in Heads, Reads(kinds)
  PROVE  Kind(1) # "IdentCvc"
<1>1. CASE kinds = <<Is("Identifier"), Is("LBrace")>>
  <2>1. kinds[1] = Is("Identifier")
    BY <1>1
  <2>2. Kind(1) = "Identifier"
    BY <2>1, AllClosed, FirstKind, Zenon
  <2> QED BY <2>2
<1>2. CASE kinds = GenericOf(<<Is("LBrace")>>)
  <2> DEFINE ks == <<Is("LBrace")>>
  <2>1. Closed(ks, "LBrace")
    BY ClosedOne, Zenon
  <2>2. Reads(GenericHead \o ks)
    BY <1>2, Zenon DEF GenericOf
  <2> HIDE DEF ks
  <2>3. Kind(1) = "IdentGeneric"
    BY <2>1, <2>2, GenericReads, Zenon
  <2> QED BY <2>3
<1> QED BY <1>1, <1>2, Zenon DEF Heads

\* The head of a block says what the block will.
LEMMA HeadTells ==
  ASSUME Telling, stage = "reading", NEW kinds \in Heads, Reads(kinds), Open(Len(kinds), CodeOf(Item(Len(kinds))))
  PROVE  Telling'
<1>1. /\ Following' /\ Stacked /\ SoFar(pos, Len(open))
      /\ Built(open, SaidTo(pos - 1)) /\ \A i \in 1..(pos - 1) : IsSeq(Part(i))
  BY HeadFollows, Zenon DEF Telling, Following, Told
<1>2. Closed(kinds, "LBrace") /\ "LBrace" \in Brackets
  <2>1. Closed(kinds, "LBrace")
    BY AllClosed, Zenon
  <2> QED BY <2>1 DEF Brackets
<1> DEFINE n == Len(kinds)
           i == pos + n - 1
           p == Item(n)
           line == Line(Len(open), CodeOf(p), TRUE)
<1>3. /\ n \in Nat \ {0} /\ i \in Ends /\ 2 < i /\ toks[i].kind = "LBrace" /\ Piece(i) = p
      /\ Depth(i) = Len(open) + 1 /\ Len(open) \in Nat \ {0}
  BY <1>1, <1>2, StepOver, Zenon
<1>4. Copies(p) = 1
  <2>1. p[1].kind = Kind(1)
    BY <1>1, <1>2, CodeNow, Zenon
  <2>2. Kind(1) # "IdentCvc"
    BY HeadsKind, Zenon
  <2> QED BY <2>1, <2>2, Zenon DEF Copies
<1> HIDE DEF i, n, p, line
<1>5. Part(i) = <<line>>
  <2>1. i \in Ends \ {2} /\ toks[i].kind # "RBrace" /\ toks[i].kind = "LBrace"
    BY <1>3
  <2>2. Part(i) = [k \in 1..Copies(Piece(i)) |-> [depth |-> Depth(i) - 1, code |-> CodeOf(Piece(i)), block |-> TRUE]]
    BY <2>1 DEF Part
  <2>3. Copies(Piece(i)) = 1 /\ Depth(i) - 1 = Len(open)
    BY <1>3, <1>4
  <2>4. Part(i) = [k \in 1..1 |-> line]
    BY <1>3, <2>2, <2>3, Zenon DEF line, Line
  <2> QED BY <2>4
<1>6. IsSeq(<<line>>)
  BY Single
<1>7. SaidTo(i) = SaidTo(pos - 1) \o <<line>> /\ \A j \in 1..i : IsSeq(Part(j))
  BY <1>1, <1>2, <1>5, <1>6, SaidStep, Zenon DEF i, n
<1>8. /\ toks' = toks /\ pos' = pos + n /\ stage' = stage
      /\ open' = Append(open, [code |-> CodeOf(p), kids |-> <<>>])
  BY Zenon DEF Open, n, p
<1>9. Built(open', SaidTo(i))
  <2>1. IsSeq(open) /\ open # <<>>
    BY <1>1, Zenon DEF Stacked
  <2>2. Built(Append(open, [code |-> CodeOf(p), kids |-> <<>>]), SaidTo(pos - 1) \o <<line>>)
    BY <1>1, <2>1, BuiltOpen, Zenon DEF line
  <2> QED BY <1>7, <1>8, <2>2, Zenon
<1>10. pos' - 1 = i
  BY <1>1, <1>3, <1>8 DEF i, Stacked
<1>11. Told'
  BY <1>7, <1>8, <1>9, <1>10, StillTold, Zenon
<1>12. stage' # "parsed"
  BY <1>8
<1> QED BY <1>1, <1>11, <1>12, Zenon DEF Telling

\* The blocks say what has been read, after every step.
LEMMA TellingStep == Telling /\ [Next]_vars => Telling'
<1> SUFFICES ASSUME Telling, [Next]_vars PROVE Telling'
  OBVIOUS
<1>0. Stacked /\ Following /\ Following'
  BY FollowingStep, Zenon DEF Telling, Following
<1>1. CASE Stop
  <2>1. stage' = "stopped"
    BY <1>1, Stopping, Zenon
  <2>2. stage' # "reading" /\ stage' # "parsed"
    BY <2>1
  <2> QED BY <1>0, <2>2, Zenon DEF Telling, Told
<1>2. CASE UNCHANGED vars
  <2>1. toks' = toks /\ pos' = pos /\ open' = open /\ stage' = stage /\ tree' = tree
    BY <1>2 DEF vars
  <2>2. Told'
    <3>1. CASE stage = "reading"
      <4>1. pos' - 1 = pos - 1
        BY <2>1
      <4> QED BY <2>1, <3>1, <4>1, StillTold, Zenon DEF Telling, Told
    <3>2. CASE stage # "reading"
      BY <2>1, <3>2, Zenon DEF Told
    <3> QED BY <3>1, <3>2
  <2>3. stage' = "parsed" => Yields(tree', 1, Said')
    BY <2>1, StillSaid, Zenon DEF Telling
  <2> QED BY <1>0, <2>2, <2>3, Zenon DEF Telling
<1>3. CASE Next
  BY <1>0, <1>1, <1>3, Steps, BeginTells, EndTells, CloseTells, StatementTells, HeadTells, Zenon
<1> QED BY <1>2, <1>3

\* No setting of the text is lost, moved to another block or taken twice; a block
\* without settings stays one, and a certificate is as many settings as it takes
\* (TreeIsText).
THEOREM TreesAreTexts == Spec => []TreeIsText
<1>1. Init => Telling
  <2> SUFFICES ASSUME Init PROVE Telling
    OBVIOUS
  <2>1. Stacked
    BY InitStacks
  <2>2. pos = 1 /\ stage # "reading" /\ stage # "parsed"
    BY DEF Init
  <2> QED BY <2>1, <2>2, Zenon DEF Telling, Told, Following, TakesTheGrammar
<1>2. Telling /\ [Next]_vars => Telling'
  BY TellingStep
<1>3. Telling => TreeIsText
  BY OutlineIs, Zenon DEF Telling, TreeIsText
<1> QED BY <1>1, <1>2, <1>3, PTL DEF Spec
=============================================================================
