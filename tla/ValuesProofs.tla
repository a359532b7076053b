---------------------------- MODULE ValuesProofs ----------------------------
(***************************************************************************)
(* For every table of rows, every text of a config file and every value of *)
(* a file made elsewhere: what a text says is what the listing says, the   *)
(* bytes that survive listing and encoding are exactly the canonical ones, *)
(* and a second listing loses nothing more.                                *)
(***************************************************************************)
EXTENDS Values, ProofLemmas

-----------------------------------------------------------------------------
(* Numbers of one to four bytes.                                           *)

Num == [top : Int, word : [1..4 -> Byte]]

\* The low bytes of a word.
LEMMA LowIs ==
  ASSUME NEW w \in [1..4 -> Byte], NEW n \in 1..4
  PROVE  /\ Low(w, n) \in Seq(Byte) /\ Len(Low(w, n)) = n
         /\ \A i \in 1..n : Low(w, n)[i] = w[4 - n + i]
<1>1. /\ SubSeq(w, 5 - n, 4) \in Seq(Byte)
      /\ Len(SubSeq(w, 5 - n, 4)) = IF 5 - n <= 4 THEN 4 - (5 - n) + 1 ELSE 0
      /\ \A i \in 1..(4 - (5 - n) + 1) : SubSeq(w, 5 - n, 4)[i] = w[5 - n + i - 1]
  <2>1. 5 - n \in Int /\ 4 \in Int /\ \A i \in (5 - n)..4 : w[i] \in Byte
    OBVIOUS
  <2> QED BY <2>1, SubSeqProperties
<1>2. 4 - (5 - n) + 1 = n /\ 5 - n <= 4 /\ \A i \in Int : 5 - n + i - 1 = 4 - n + i
  OBVIOUS
<1> QED BY <1>1, <1>2 DEF Low

\* Bytes with zeros in front of them.
LEMMA NumberIs ==
  ASSUME NEW b \in Seq(Byte), NEW n \in 1..4, Len(b) = n
  PROVE  /\ Number(b) \in Num /\ Number(b).top = 0 /\ Fits(Number(b), n)
         /\ \A i \in 1..n : Number(b).word[4 - n + i] = b[i]
         /\ Low(Number(b).word, n) = b
<1> DEFINE z == [i \in 1..4 - n |-> 0]
           w == z \o b
<1>1. z \in Seq(Byte) /\ Len(z) = 4 - n /\ \A i \in 1..4 - n : z[i] = 0
  <2>1. 4 - n \in Nat /\ 0 \in Byte
    BY DEF Byte
  <2> QED BY <2>1
<1> HIDE DEF z
<1>2. /\ w \in Seq(Byte) /\ Len(w) = 4
      /\ \A i \in 1..4 - n : w[i] = 0
      /\ \A i \in 1..n : w[4 - n + i] = b[i]
  BY <1>1
<1>3. Number(b) = [top |-> 0, word |-> w]
  BY DEF Number, z
<1> HIDE DEF w
<1>4. w \in [1..4 -> Byte]
  BY <1>2
<1>5. Low(w, n) = b
  <2> DEFINE l == Low(w, n)
  <2>1. l \in Seq(Byte) /\ Len(l) = n /\ \A i \in 1..n : l[i] = w[4 - n + i]
    BY <1>4, LowIs
  <2> HIDE DEF l
  <2>2. \A i \in 1..n : l[i] = b[i]
    BY <1>2, <2>1
  <2>3. l = b
    BY <2>1, <2>2
  <2> QED BY <2>3 DEF l
<1> QED BY <1>2, <1>3, <1>4, <1>5 DEF Num, Fits

\* A number that fits is found again in its low bytes.
LEMMA NumberBack ==
  ASSUME NEW x \in Num, NEW n \in 1..4, Fits(x, n)
  PROVE  Number(Low(x.word, n)) = x
<1> DEFINE b == Low(x.word, n)
           y == Number(b)
<1>1. x.word \in [1..4 -> Byte]
  BY DEF Num
<1>2. b \in Seq(Byte) /\ Len(b) = n /\ \A i \in 1..n : b[i] = x.word[4 - n + i]
  BY <1>1, LowIs
<1> HIDE DEF b
<1>3. /\ y \in Num /\ y.top = 0 /\ Fits(y, n)
      /\ \A i \in 1..n : y.word[4 - n + i] = b[i]
  BY <1>2, NumberIs
<1> HIDE DEF y
<1>4. \A i \in 1..4 : y.word[i] = x.word[i]
  <2> SUFFICES ASSUME NEW i \in 1..4 PROVE y.word[i] = x.word[i]
    OBVIOUS
  <2>1. CASE i <= 4 - n
    BY <1>3, <2>1 DEF Fits
  <2>2. CASE i > 4 - n
    <3> DEFINE j == i - (4 - n)
    <3>1. j \in 1..n /\ i = 4 - n + j
      BY <2>2
    <3> HIDE DEF j
    <3> QED BY <1>2, <1>3, <3>1
  <2> QED BY <2>1, <2>2
<1>5. y.word = x.word
  BY <1>1, <1>3, <1>4 DEF Num
<1> QED BY <1>3, <1>5 DEF Num, Fits, y, b

\* What limits of n bytes let through has n bytes.
LEMMA LimitsCut ==
  ASSUME NEW w \in [1..4 -> Byte], NEW n \in 1..4, InRange(w), Limited(n)
  PROVE  \A i \in 1..4 - n : w[i] = 0
<1> DEFINE h == Word(row.high)
<1>1. \A i \in 1..4 - n : h[i] = 0
  BY DEF Limited, Fits
<1>2. w = h \/ \E i \in 1..4 : w[i] < h[i] /\ \A j \in 1..i - 1 : w[j] = h[j]
  BY DEF InRange, Limited, AtMost
<1> HIDE DEF h
<1>3. CASE w = h
  BY <1>1, <1>3
<1>4. CASE \E i \in 1..4 : w[i] < h[i] /\ \A j \in 1..i - 1 : w[j] = h[j]
  <2>1. PICK i \in 1..4 : w[i] < h[i] /\ \A j \in 1..i - 1 : w[j] = h[j]
    BY <1>4
  <2>2. ~(i <= 4 - n)
    <3>1. w[i] \in 0..255
      BY DEF Byte
    <3> QED BY <1>1, <2>1, <3>1
  <2> QED BY <1>1, <2>1, <2>2
<1> QED BY <1>2, <1>3, <1>4

-----------------------------------------------------------------------------
(* A value and the parts it is cut into.                                   *)

\* How long the parts of a value are.
Sizes == {1, 2, 4, 6, 16, 17}

\* One part is the whole, and two are one behind the other.
LEMMA OnePart == ASSUME NEW s, Len(s) = 1 PROVE FlattenSeq(s) = s[1]
<1>1. \E f : Partial(f, s, Len(s)) /\ FlattenSeq(s) = f[Len(s)]
  <2>1. Len(s) \in Nat /\ Len(s) # 0
    OBVIOUS
  <2> QED BY <2>1, FlattenPartial, Zenon
<1>2. PICK f : Partial(f, s, 1) /\ FlattenSeq(s) = f[1]
  BY <1>1
<1> QED BY <1>2 DEF Partial

\* See OnePart.
LEMMA TwoParts == ASSUME NEW s, Len(s) = 2 PROVE FlattenSeq(s) = s[1] \o s[2]
<1>1. \E f : Partial(f, s, Len(s)) /\ FlattenSeq(s) = f[Len(s)]
  <2>1. Len(s) \in Nat /\ Len(s) # 0
    OBVIOUS
  <2> QED BY <2>1, FlattenPartial, Zenon
<1>2. PICK f : Partial(f, s, 2) /\ FlattenSeq(s) = f[2]
  BY <1>1
<1>3. \A i \in 1..2 : f[i] = IF i = 1 THEN s[i] ELSE f[i - 1] \o s[i]
  BY <1>2 DEF Partial
<1>4. f[1] = s[1] /\ f[2] = f[2 - 1] \o s[2] /\ 2 - 1 = 1
  BY <1>3
<1> QED BY <1>2, <1>4

\* Division by a size.
LEMMA Division ==
  ASSUME NEW n \in Sizes, NEW l \in Nat
  PROVE  /\ l \div n \in Nat /\ l % n \in 0..(n - 1) /\ l = n * (l \div n) + (l % n)
         /\ \A k \in Nat : (n * k) \div n = k /\ (n * k) % n = 0
<1>1. CASE n = 1
  BY <1>1
<1>2. CASE n = 2
  BY <1>2
<1>3. CASE n = 4
  BY <1>3
<1>4. CASE n = 6
  BY <1>4
<1>5. CASE n = 16
  BY <1>5
<1>6. CASE n = 17
  BY <1>6
<1> QED BY <1>1, <1>2, <1>3, <1>4, <1>5, <1>6 DEF Sizes

\* The parts of length n, and what they are together.
LEMMA ChunksAre ==
  ASSUME bytes \in Seq(Byte), NEW n \in Sizes
  PROVE  /\ Chunks(n) \in Seq(Seq(Byte)) /\ Len(Chunks(n)) = Len(bytes) \div n
         /\ \A i \in 1..Len(bytes) \div n :
              Chunks(n)[i] \in [1..n -> Byte] /\ Chunks(n)[i] \in Seq(Byte) /\ Len(Chunks(n)[i]) = n
         /\ FlattenSeq(Chunks(n)) = SubSeq(bytes, 1, n * (Len(bytes) \div n))
<1> DEFINE l == Len(bytes)
           k == l \div n
           c == Chunks(n)
<1>1. l \in Nat /\ n \in Nat \ {0} /\ k \in Nat /\ n * k \in Nat /\ n * k <= l
  <2>1. l \in Nat /\ n \in Nat \ {0}
    BY DEF Sizes
  <2>2. k \in Nat /\ l % n \in 0..(n - 1) /\ l = n * k + (l % n)
    BY <2>1, Division
  <2> HIDE DEF k, l
  <2>3. n * k \in Nat
    BY <2>1, <2>2
  <2> QED BY <2>1, <2>2, <2>3
<1>2. c = [i \in 1..k |-> SubSeq(bytes, n * (i - 1) + 1, n * i)]
  BY DEF Chunks
<1> HIDE DEF c, k, l
<1>3. \A i \in 1..k : c[i] \in [1..n -> Byte] /\ c[i] \in Seq(Byte) /\ Len(c[i]) = n
  <2> SUFFICES ASSUME NEW i \in 1..k
               PROVE  c[i] \in [1..n -> Byte] /\ c[i] \in Seq(Byte) /\ Len(c[i]) = n
    OBVIOUS
  <2> DEFINE m == n * (i - 1)
  <2>1. i \in Nat /\ i - 1 \in Nat /\ (i - 1) + 1 = i /\ i <= k
    BY <1>1
  <2>2. m \in Nat /\ n * ((i - 1) + 1) = m + n
    BY <1>1, <2>1, Multiples
  <2>3. n * i = m + n /\ n * i <= n * k
    BY <1>1, <2>1, <2>2, Multiples
  <2>4. c[i] = SubSeq(bytes, m + 1, n * i)
    BY <1>2
  <2> HIDE DEF m
  <2>5. m + n <= Len(bytes)
    BY <1>1, <2>2, <2>3 DEF l
  <2>6. \A j \in (m + 1)..(m + n) : bytes[j] \in Byte
    <3> SUFFICES ASSUME NEW j \in (m + 1)..(m + n) PROVE bytes[j] \in Byte
      OBVIOUS
    <3>1. j \in 1..Len(bytes)
      BY <1>1, <2>2, <2>5
    <3> QED BY <3>1, ElementOfSeq
  <2>7. /\ SubSeq(bytes, m + 1, m + n) \in Seq(Byte)
        /\ Len(SubSeq(bytes, m + 1, m + n)) = IF m + 1 <= m + n THEN m + n - (m + 1) + 1 ELSE 0
    <3>1. m + 1 \in Int /\ m + n \in Int
      BY <1>1, <2>2
    <3> QED BY <1>1, <2>2, <2>5
  <2>8. c[i] \in Seq(Byte) /\ Len(c[i]) = n
    BY <1>1, <2>2, <2>3, <2>4, <2>7
  <2> QED BY <2>8
<1>4. c \in Seq(Seq(Byte)) /\ Len(c) = k
  <2>1. \A i \in 1..k : c[i] \in Seq(Byte)
    BY <1>3
  <2>2. c \in [1..k -> Seq(Byte)]
    BY <1>2, <2>1
  <2> QED BY <1>1, <2>2
<1>5. FlattenSeq(c) = SubSeq(bytes, 1, n * k)
  <2>1. n * k <= Len(bytes)
    BY <1>1 DEF l
  <2> QED BY <1>1, <1>2, <2>1, FlattenCut
<1> QED BY <1>3, <1>4, <1>5 DEF c, k, l

\* Cutting a value into parts loses what is behind the last whole one.
LEMMA Together ==
  ASSUME bytes \in Seq(Byte), NEW n \in Sizes
  PROVE  FlattenSeq(Chunks(n)) = bytes <=> Len(bytes) % n = 0
<1> DEFINE l == Len(bytes)
           k == l \div n
<1>1. l \in Nat /\ k \in Nat /\ l % n \in 0..(n - 1) /\ l = n * k + (l % n) /\ n \in Nat
  BY Division DEF Sizes
<1>2. FlattenSeq(Chunks(n)) = SubSeq(bytes, 1, n * k)
  BY ChunksAre
<1> HIDE DEF k
<1>3. n * k \in Nat /\ n * k <= l
  BY <1>1
<1>4. Len(SubSeq(bytes, 1, n * k)) = n * k
  BY <1>3
<1>5. ASSUME l % n = 0 PROVE FlattenSeq(Chunks(n)) = bytes
  <2>1. n * k = Len(bytes)
    BY <1>1, <1>3, <1>5
  <2> QED BY <1>2, <2>1, SubSeqFull
<1>6. ASSUME FlattenSeq(Chunks(n)) = bytes PROVE l % n = 0
  <2>1. l = n * k
    BY <1>2, <1>4, <1>6
  <2> QED BY <1>1, <1>3, <2>1
<1> QED BY <1>5, <1>6

\* Parts of length n that have been put together are what the value is cut into.
LEMMA Apart ==
  ASSUME NEW n \in Sizes, NEW s \in Seq([1..n -> Byte]), bytes = FlattenSeq(s)
  PROVE  bytes \in Seq(Byte) /\ Len(bytes) = n * Len(s) /\ Chunks(n) = s
<1> DEFINE k == Len(s)
<1>1. n \in Nat \ {0} /\ k \in Nat
  BY DEF Sizes
<1>2. \A i \in 1..k : s[i] \in Seq(Byte) /\ Len(s[i]) = n
  <2> SUFFICES ASSUME NEW i \in 1..k PROVE s[i] \in Seq(Byte) /\ Len(s[i]) = n
    OBVIOUS
  <2>1. s[i] \in [1..n -> Byte]
    OBVIOUS
  <2> QED BY <1>1, <2>1
<1>3. s \in Seq(Seq(Byte))
  <2>1. s \in [1..k -> Seq(Byte)]
    BY <1>2
  <2> QED BY <1>1, <2>1
<1>4. bytes \in Seq(Byte)
  BY <1>3, FlattenTypedSeq
<1>5. Len(bytes) = n * k /\ \A i \in 1..k : SubSeq(bytes, n * (i - 1) + 1, n * i) = s[i]
  BY <1>1, <1>2, <1>3, FlattenUniform
<1>6. Len(bytes) \div n = k
  BY <1>1, <1>5, Division
<1>7. Chunks(n) = s
  <2>1. Chunks(n) = [i \in 1..k |-> SubSeq(bytes, n * (i - 1) + 1, n * i)]
    BY <1>6 DEF Chunks
  <2>2. s = [i \in 1..k |-> s[i]]
    OBVIOUS
  <2> QED BY <1>5, <2>1, <2>2
<1> QED BY <1>4, <1>5, <1>7

-----------------------------------------------------------------------------
(* What a text says is what the listing says, encoding by encoding.        *)

\* The bytes at hand are what the text at hand says.
Said == /\ row \in Limits /\ text = Text(text.form, text.items) /\ Shaped(text)
        /\ bytes \in Encodings /\ Sayable

\* They are listed as that text.
ListedBack == Len(bytes) \in Lengths /\ Listed = {text}

\* A text that is no string is its own token, and not empty.
LEMMA TokenIs ==
  ASSUME NEW t \in Token(text), text.form # "quoted"
  PROVE  t = text /\ \A S : text.items \in Seq(S) => Len(text.items) \in Nat \ {0}
<1>1. /\ t = text
      /\ \/ Len(text.items) \in 1..128
         \/ Len(text.items) \in 1..16
         \/ Len(text.items) = 1
         \/ Len(text.items) \in 2..15
         \/ text.items # <<>>
  BY DEF Token
<1>2. ASSUME NEW S, text.items \in Seq(S) PROVE Len(text.items) \in Nat \ {0}
  <2>1. CASE text.items # <<>>
    BY <1>2, <2>1
  <2>2. CASE text.items = <<>>
    BY <1>1, <2>2
  <2> QED BY <2>1, <2>2
<1> QED BY <1>1, <1>2

\* Numbers that fit, low bytes behind low bytes, are listed as they were.
LEMMA NumbersAre ==
  ASSUME NEW n \in {1, 2, 4}, NEW s \in Seq(Num), \A i \in 1..Len(s) : Fits(s[i], n),
         bytes = FlattenSeq([i \in 1..Len(s) |-> Low(s[i].word, n)])
  PROVE  /\ bytes \in Seq(Byte) /\ Len(bytes) = n * Len(s)
         /\ Numbers(n) = Text("numbers", s)
<1> DEFINE k == Len(s)
           F == [i \in 1..k |-> Low(s[i].word, n)]
<1>1. k \in Nat /\ n \in 1..4 /\ n \in Sizes
  BY DEF Sizes
<1>2. \A i \in 1..k : s[i] \in Num /\ s[i].word \in [1..4 -> Byte]
  <2>1. \A i \in 1..k : s[i] \in Num
    BY ElementOfSeq
  <2>2. \A x \in Num : x.word \in [1..4 -> Byte]
    BY DEF Num
  <2> QED BY <2>1, <2>2
<1> HIDE DEF k
<1>3. \A i \in 1..k : F[i] \in [1..n -> Byte]
  <2> SUFFICES ASSUME NEW i \in 1..k PROVE F[i] \in [1..n -> Byte]
    OBVIOUS
  <2>1. Low(s[i].word, n) \in Seq(Byte) /\ Len(Low(s[i].word, n)) = n
    BY <1>1, <1>2, LowIs
  <2> QED BY <2>1
<1>4. F \in Seq([1..n -> Byte]) /\ Len(F) = k
  <2>1. F \in [1..k -> [1..n -> Byte]]
    BY <1>3
  <2> QED BY <1>1, <2>1
<1>5. \A i \in 1..k : Number(F[i]) = s[i]
  BY <1>1, <1>2, NumberBack DEF k
<1>6. bytes = FlattenSeq(F)
  BY DEF F, k
<1> HIDE DEF F
<1>7. bytes \in Seq(Byte) /\ Len(bytes) = n * k /\ Chunks(n) = F
  BY <1>1, <1>4, <1>6, Apart
<1>8. DOMAIN Chunks(n) = 1..k
  BY <1>4, <1>7
<1>9. [i \in DOMAIN Chunks(n) |-> Number(Chunks(n)[i])] = [i \in 1..k |-> s[i]]
  BY <1>5, <1>7, <1>8
<1>10. [i \in 1..k |-> s[i]] = s
  BY DEF k
<1> QED BY <1>7, <1>9, <1>10 DEF Numbers, k

\* A value as long as one part is one part.
LEMMA OneChunk ==
  ASSUME bytes \in Seq(Byte), NEW n \in Sizes, Len(bytes) = n
  PROVE  Chunks(n) = <<bytes>>
<1>1. n \in Nat /\ n \div n = 1
  BY DEF Sizes
<1>2. Chunks(n) = [i \in 1..1 |-> SubSeq(bytes, n * (i - 1) + 1, n * i)]
  BY <1>1 DEF Chunks
<1>3. \A i \in 1..1 : SubSeq(bytes, n * (i - 1) + 1, n * i) = bytes
  <2>1. n * (1 - 1) + 1 = 1 /\ n * 1 = Len(bytes)
    BY <1>1
  <2>2. SubSeq(bytes, 1, Len(bytes)) = bytes
    BY SubSeqFull
  <2>3. SubSeq(bytes, n * (1 - 1) + 1, n * 1) = bytes
    BY <2>1, <2>2
  <2> QED BY <2>3
<1>4. Chunks(n) = [i \in 1..1 |-> bytes]
  BY <1>2, <1>3
<1> QED BY <1>4

\* What is no string is encoded as it stands.
LEMMA SaidToken ==
  ASSUME Said, text.form # "quoted"
  PROVE  bytes \in Encoded(text) /\ \A S : text.items \in Seq(S) => Len(text.items) \in Nat \ {0}
<1>1. PICK t \in Token(text) : bytes \in Encoded(t)
  BY DEF Said, Encodings
<1> QED BY <1>1, TokenIs

\* A number in n bytes that hold it.
LEMMA SaidNumber ==
  ASSUME Said, NEW n \in 1..4, Holds(n), row.enc # "Uint24" => InRange(text.items[1].word),
         bytes = Low(text.items[1].word, n)
  PROVE  bytes \in Seq(Byte) /\ Len(bytes) = n /\ text = Text("numbers", <<Number(bytes)>>)
<1> DEFINE s == text.items
           x == s[1]
<1>1. s \in Seq(Num) /\ Len(s) = 1 /\ text = Text("numbers", s)
  BY DEF Said, Holds, One, Shaped, Items, Num
<1> HIDE DEF s
<1>2. x \in Num /\ x.word \in [1..4 -> Byte] /\ x.top = 0
  <2>1. 1 \in 1..Len(s)
    BY <1>1
  <2>2. x \in Num
    BY <1>1, <2>1, ElementOfSeq
  <2> QED BY <2>2 DEF Num, Holds, s
<1>3. Fits(x, n)
  <2>1. CASE row.enc # "Uint24" /\ Limited(n)
    <3>1. InRange(x.word)
      BY <2>1 DEF s
    <3>2. \A i \in 1..4 - n : x.word[i] = 0
      BY <1>2, <2>1, <3>1, LimitsCut
    <3> QED BY <1>2, <3>2 DEF Fits
  <2>2. CASE Fits(x, n)
    BY <2>2
  <2> QED BY <2>1, <2>2 DEF Holds, s
<1>4. bytes \in Seq(Byte) /\ Len(bytes) = n
  BY <1>2, LowIs DEF s
<1>5. Number(bytes) = x
  BY <1>2, <1>3, NumberBack DEF s
<1>6. s = <<x>>
  BY <1>1
<1> QED BY <1>1, <1>4, <1>5, <1>6

\* Numbers are listed as they were given.
LEMMA SaidNumbers ==
  ASSUME Said, row.enc \in {"Uint", "Uint24", "Ushort", "Uchar"}
  PROVE  ListedBack
<1> DEFINE w == text.items[1].word
<1>1. text.form = "numbers" /\ One(text)
  BY DEF Said, Sayable, Holds
<1>2. bytes \in Encoded(text)
  BY <1>1, SaidToken
<1>3. AsNum(text) = w /\ w \in [1..4 -> Byte]
  <2>1. text.items \in Seq(Num) /\ Len(text.items) = 1
    BY <1>1 DEF Said, One, Shaped, Items, Num
  <2>2. text.items[1] \in Num
    BY <2>1
  <2> QED BY <1>1, <2>2 DEF AsNum, Num
<1>4. Low(w, 4) = w
  <2> DEFINE l == Low(w, 4)
  <2>1. 4 \in 1..4 /\ w \in [1..4 -> Byte]
    BY <1>3
  <2>2. l \in Seq(Byte) /\ Len(l) = 4 /\ \A i \in 1..4 : l[i] = w[4 - 4 + i]
    BY <2>1, LowIs
  <2> HIDE DEF l, w
  <2>3. \A i \in 1..4 : l[i] = w[i]
    BY <2>2
  <2> QED BY <2>1, <2>2, <2>3 DEF l
<1> HIDE DEF w
<1>5. Lengths = {Len(bytes)}
  BY DEF Lengths
<1>6. CASE row.enc = "Uint"
  <2>1. Holds(4) /\ bytes = Low(w, 4) /\ InRange(w)
    BY <1>2, <1>3, <1>4, <1>6 DEF Said, Sayable, Encoded, If
  <2>2. bytes \in Seq(Byte) /\ Len(bytes) = 4 /\ text = Text("numbers", <<Number(bytes)>>)
    BY <1>6, <2>1, SaidNumber DEF w
  <2>3. Chunks(4) = <<bytes>>
    BY <2>2, OneChunk DEF Sizes
  <2>4. Numbers(4) = text
    BY <2>2, <2>3 DEF Numbers
  <2> QED BY <1>5, <1>6, <2>2, <2>4 DEF ListedBack, Listed, Sized
<1>7. CASE row.enc = "Uint24"
  <2>1. Holds(3) /\ bytes = Low(w, 3)
    BY <1>2, <1>3, <1>7 DEF Said, Sayable, Encoded
  <2>2. bytes \in Seq(Byte) /\ Len(bytes) = 3 /\ text = Text("numbers", <<Number(bytes)>>)
    BY <1>7, <2>1, SaidNumber DEF w
  <2>3. SubSeq(bytes, 1, 3) = bytes
    BY <2>2, SubSeqFull
  <2>4. Listed = {Text("numbers", <<Number(SubSeq(bytes, 1, 3))>>)}
    BY <1>7, <2>2 DEF Listed
  <2> QED BY <1>5, <2>2, <2>3, <2>4 DEF ListedBack
<1>8. CASE row.enc = "Ushort"
  <2>1. Holds(2) /\ bytes = Low(w, 2) /\ InRange(w)
    BY <1>2, <1>3, <1>8 DEF Said, Sayable, Encoded, If
  <2>2. bytes \in Seq(Byte) /\ Len(bytes) = 2 /\ text = Text("numbers", <<Number(bytes)>>)
    BY <1>8, <2>1, SaidNumber DEF w
  <2>3. Chunks(2) = <<bytes>>
    BY <2>2, OneChunk DEF Sizes
  <2>4. Numbers(2) = text
    BY <2>2, <2>3 DEF Numbers
  <2> QED BY <1>5, <1>8, <2>2, <2>4 DEF ListedBack, Listed, Sized
<1>9. CASE row.enc = "Uchar"
  <2>1. Holds(1) /\ bytes = Low(w, 1) /\ InRange(w)
    BY <1>2, <1>3, <1>9 DEF Said, Sayable, Encoded, If
  <2>2. bytes \in Seq(Byte) /\ Len(bytes) = 1 /\ text = Text("numbers", <<Number(bytes)>>)
    BY <1>9, <2>1, SaidNumber DEF w
  <2>3. bytes # <<>> /\ <<bytes[1]>> = bytes
    BY <2>2
  <2> QED BY <1>5, <1>9, <2>2, <2>3 DEF ListedBack, Listed
<1> QED BY <1>6, <1>7, <1>8, <1>9

\* A sequence of one.
LEMMA OneIn ==
  ASSUME NEW S, NEW s \in Seq(S), Len(s) = 1
  PROVE  s[1] \in S /\ s = <<s[1]>>
<1>1. 1 \in 1..Len(s)
  OBVIOUS
<1>2. s[1] \in S
  BY <1>1, ElementOfSeq
<1> QED BY <1>2

\* A fixed number of bytes: see FixedSeq.
LEMMA FixedBytes ==
  ASSUME NEW n \in Nat, NEW a \in [1..n -> Byte]
  PROVE  a \in Seq(Byte) /\ Len(a) = n /\ DOMAIN a = 1..n
  OBVIOUS

\* A byte in front of others.
LEMMA ByteBefore ==
  ASSUME NEW c \in Byte, NEW a \in Seq(Byte)
  PROVE  /\ <<c>> \o a \in Seq(Byte) /\ Len(<<c>> \o a) = Len(a) + 1
         /\ (<<c>> \o a)[1] = c /\ Tail(<<c>> \o a) = a
<1> DEFINE b == <<c>> \o a
<1>1. /\ b \in Seq(Byte) /\ Len(b) = Len(a) + 1 /\ Len(a) \in Nat
      /\ b[1] = c /\ \A i \in 1..Len(a) : b[i + 1] = a[i]
  OBVIOUS
<1> HIDE DEF b
<1>2. b # <<>>
  BY <1>1
<1>3. Tail(b) \in Seq(Byte) /\ Len(Tail(b)) = Len(a) /\ \A i \in 1..Len(a) : Tail(b)[i] = b[i + 1]
  BY <1>1, <1>2
<1>4. \A i \in 1..Len(a) : Tail(b)[i] = a[i]
  BY <1>1, <1>3
<1>5. Tail(b) = a
  BY <1>3, <1>4, SeqEqual
<1> QED BY <1>1, <1>5 DEF b

\* The items one behind the other.
LEMMA EachSame ==
  ASSUME NEW S, text.items \in Seq(S)
  PROVE  Each(Same, text) = FlattenSeq(text.items)
<1>1. [i \in DOMAIN text.items |-> text.items[i]] = text.items
  OBVIOUS
<1> QED BY <1>1 DEF Each, Joined, Same

\* An address whose parts are bytes.
LEMMA OctetBytes ==
  ASSUME NEW x \in [1..4 -> Nat], Octets(x)
  PROVE  x \in [1..4 -> Byte]
<1>1. \A j \in 1..4 : x[j] \in Nat /\ x[j] <= 255
  BY DEF Octets
<1>2. \A j \in 1..4 : x[j] \in Byte
  BY <1>1 DEF Byte
<1> QED BY <1>2

\* Addresses of four bytes.
LEMMA SaidIp4 ==
  ASSUME Said, text.form = "ip4", row.enc \in {"Ip", "IpList", "IpIp6", "CharIpIp6"}
  PROVE  ListedBack
<1> DEFINE s == text.items
<1>1. s \in Seq([1..4 -> Nat]) /\ text = Text("ip4", s)
  BY DEF Said, Shaped, Items
<1>2. bytes \in Encoded(text) /\ ~NoText(text) /\ ~V6(text)
  BY SaidToken DEF NoText, V6
<1>3. Each(Same, text) = FlattenSeq(s)
  BY <1>1, EachSame
<1>4. /\ \A x \in Range(s) : Octets(x)
      /\ row.enc # "CharIpIp6" => bytes = FlattenSeq(s)
      /\ row.enc = "CharIpIp6" => bytes = <<1>> \o FlattenSeq(s)
      /\ row.enc # "IpList" => Len(s) = 1
  <2>1. CASE row.enc = "IpList"
    BY <1>2, <1>3, <2>1 DEF Encoded, If
  <2>2. CASE row.enc # "IpList"
    <3>1. /\ V4(text)
          /\ row.enc # "CharIpIp6" => bytes = FlattenSeq(s)
          /\ row.enc = "CharIpIp6" => bytes = <<1>> \o FlattenSeq(s)
      BY <1>2, <1>3, <2>2 DEF Encoded, If
    <3>2. Len(s) = 1 /\ Octets(s[1])
      BY <3>1 DEF V4, One
    <3>3. \A x \in Range(s) : x = s[1]
      BY <1>1, <3>2 DEF Range
    <3> QED BY <2>2, <3>1, <3>2, <3>3
  <2> QED BY <2>1, <2>2
<1> HIDE DEF s
<1>5. s \in Seq([1..4 -> Byte])
  <2>1. \A i \in 1..Len(s) : s[i] \in [1..4 -> Byte]
    <3> SUFFICES ASSUME NEW i \in 1..Len(s) PROVE s[i] \in [1..4 -> Byte]
      OBVIOUS
    <3>1. s[i] \in [1..4 -> Nat] /\ s[i] \in Range(s)
      BY <1>1 DEF Range
    <3> QED BY <1>4, <3>1, OctetBytes
  <2>2. Len(s) \in Nat /\ s = [i \in 1..Len(s) |-> s[i]]
    BY <1>1
  <2> QED BY <2>1, <2>2
<1>6. CASE row.enc # "CharIpIp6"
  <2>1. Len(bytes) = 4 * Len(s) /\ Chunks(4) = s
    BY <1>4, <1>5, <1>6, Apart DEF Sizes
  <2>2. CASE row.enc = "Ip"
    <3>1. Len(bytes) = 4
      <4>1. Len(s) = 1
        BY <1>4, <2>2
      <4> QED BY <2>1, <4>1
    <3> QED BY <1>1, <2>1, <2>2, <3>1 DEF ListedBack, Lengths, Listed, Sized
  <2>3. CASE row.enc = "IpList"
    BY <1>1, <2>1, <2>3 DEF ListedBack, Lengths, Listed
  <2>4. CASE row.enc = "IpIp6"
    <3>1. Len(bytes) = 4
      <4>1. Len(s) = 1
        BY <1>4, <2>4
      <4> QED BY <2>1, <4>1
    <3> QED BY <1>1, <2>1, <2>4, <3>1 DEF ListedBack, Lengths, Listed
  <2> QED BY <1>6, <2>2, <2>3, <2>4
<1>7. CASE row.enc = "CharIpIp6"
  <2> DEFINE a == s[1]
  <2>1. Len(s) = 1 /\ bytes = <<1>> \o FlattenSeq(s)
    BY <1>4, <1>7
  <2>2. FlattenSeq(s) = a
    BY <2>1, OnePart
  <2>3. a \in [1..4 -> Byte] /\ s = <<a>>
    BY <1>5, <2>1, OneIn
  <2> HIDE DEF a
  <2>4. a \in Seq(Byte) /\ Len(a) = 4
    BY <2>3, FixedBytes
  <2>5. bytes = <<1>> \o a
    BY <2>1, <2>2
  <2>6. Len(bytes) = 5 /\ Tail(bytes) = a
    <3>1. 1 \in Byte
      BY DEF Byte
    <3>2. Len(bytes) = Len(a) + 1 /\ Tail(bytes) = a
      <4>1. Len(<<1>> \o a) = Len(a) + 1 /\ Tail(<<1>> \o a) = a
        BY <2>4, <3>1, ByteBefore
      <4> QED BY <2>5, <4>1, Zenon
    <3> QED BY <2>4, <3>2
  <2>7. Listed = {Text("ip4", <<Tail(bytes)>>)}
    BY <1>7, <2>6 DEF Listed
  <2> QED BY <1>1, <1>7, <2>3, <2>6, <2>7 DEF ListedBack, Lengths
<1> QED BY <1>6, <1>7

\* Addresses none of which maps IPv4 are printed as they are.
LEMMA PrintedPlain ==
  ASSUME NoneMapped, NEW form PROVE PrintedV6(form, text.items) = Text(form, text.items)
  BY DEF NoneMapped, PrintedV6

\* Addresses of sixteen bytes.
LEMMA SaidIp6 ==
  ASSUME Said, text.form = "ip6", row.enc \in {"Ip6", "Ip6List", "IpIp6", "CharIpIp6"}
  PROVE  ListedBack
<1> DEFINE s == text.items
<1>1. s \in Seq([1..16 -> Byte]) /\ text = Text("ip6", s)
  BY DEF Said, Shaped, Items
<1>2. bytes \in Encoded(text) /\ ~NoText(text) /\ NoneMapped
  BY SaidToken DEF NoText, Said, Sayable
<1>3. Each(Same, text) = FlattenSeq(s)
  BY <1>1, EachSame
<1>4. PrintedV6("ip6", s) = text
  BY <1>1, <1>2, PrintedPlain
<1>5. /\ row.enc # "CharIpIp6" => bytes = FlattenSeq(s)
      /\ row.enc = "CharIpIp6" => bytes = <<2>> \o FlattenSeq(s)
      /\ row.enc # "Ip6List" => Len(s) = 1
  <2>1. CASE row.enc = "Ip6List"
    BY <1>2, <1>3, <2>1 DEF Encoded, If
  <2>2. CASE row.enc # "Ip6List"
    <3>1. ~V4(text)
      BY DEF V4
    <3>2. /\ V6(text)
          /\ row.enc # "CharIpIp6" => bytes = FlattenSeq(s)
          /\ row.enc = "CharIpIp6" => bytes = <<2>> \o FlattenSeq(s)
      BY <1>2, <1>3, <2>2, <3>1 DEF Encoded, If
    <3> QED BY <2>2, <3>2 DEF V6, One
  <2> QED BY <2>1, <2>2
<1> HIDE DEF s
<1>6. CASE row.enc # "CharIpIp6"
  <2>1. Len(bytes) = 16 * Len(s) /\ Chunks(16) = s
    BY <1>1, <1>5, <1>6, Apart DEF Sizes
  <2>2. CASE row.enc = "Ip6"
    <3>1. Len(bytes) = 16
      <4>1. Len(s) = 1
        BY <1>5, <2>2
      <4> QED BY <2>1, <4>1
    <3> QED BY <1>4, <2>1, <2>2, <3>1 DEF ListedBack, Lengths, Listed, Sized
  <2>3. CASE row.enc = "Ip6List"
    BY <1>4, <2>1, <2>3 DEF ListedBack, Lengths, Listed
  <2>4. CASE row.enc = "IpIp6"
    <3>1. Len(bytes) = 16
      <4>1. Len(s) = 1
        BY <1>5, <2>4
      <4> QED BY <2>1, <4>1
    <3>2. Listed = {PrintedV6("ip6", Chunks(16))} /\ Lengths = {4, 16}
      BY <2>4, <3>1 DEF Listed, Lengths
    <3> QED BY <1>4, <2>1, <3>1, <3>2 DEF ListedBack
  <2> QED BY <1>6, <2>2, <2>3, <2>4
<1>7. CASE row.enc = "CharIpIp6"
  <2> DEFINE a == s[1]
  <2>1. Len(s) = 1 /\ bytes = <<2>> \o FlattenSeq(s)
    BY <1>5, <1>7
  <2>2. FlattenSeq(s) = a
    BY <2>1, OnePart
  <2>3. a \in [1..16 -> Byte] /\ s = <<a>>
    BY <1>1, <2>1, OneIn
  <2> HIDE DEF a
  <2>4. a \in Seq(Byte) /\ Len(a) = 16
    BY <2>3, FixedBytes
  <2>5. bytes = <<2>> \o a
    BY <2>1, <2>2
  <2>6. Len(bytes) = 17 /\ Tail(bytes) = a
    <3>1. 2 \in Byte
      BY DEF Byte
    <3>2. Len(bytes) = Len(a) + 1 /\ Tail(bytes) = a
      <4>1. Len(<<2>> \o a) = Len(a) + 1 /\ Tail(<<2>> \o a) = a
        BY <2>4, <3>1, ByteBefore
      <4> QED BY <2>5, <4>1, Zenon
    <3> QED BY <2>4, <3>2
  <2>7. Listed = {PrintedV6("ip6", <<Tail(bytes)>>)}
    BY <1>7, <2>6 DEF Listed
  <2>8. <<Tail(bytes)>> = s
    BY <2>3, <2>6
  <2> QED BY <1>4, <1>7, <2>6, <2>7, <2>8 DEF ListedBack, Lengths
<1> QED BY <1>6, <1>7

\* The two parts of a pair.
LEMMA PairOf ==
  ASSUME NEW A, NEW B, NEW x \in A \X B
  PROVE  x = <<x[1], x[2]>> /\ x[1] \in A /\ x[2] \in B
  OBVIOUS

\* The two bytes of a number below 65536.
LEMMA TwoBytes ==
  ASSUME NEW k \in Nat, k < 65536
  PROVE  BE16(k) \in [1..2 -> Byte] /\ BE(BE16(k)[1], BE16(k)[2]) = k
<1>0. k % 65536 = k /\ k \div 256 \in 0..255 /\ k % 256 \in 0..255
      /\ 256 * (k \div 256) + (k % 256) = k
  <2>1. k % 65536 = k
    OBVIOUS
  <2>2. k \div 256 \in 0..255 /\ k % 256 \in 0..255
    OBVIOUS
  <2>3. 256 * (k \div 256) + (k % 256) = k
    OBVIOUS
  <2> QED BY <2>1, <2>2, <2>3
<1>1. (k % 65536) \div 256 \in Byte /\ k % 256 \in Byte
  BY <1>0 DEF Byte
<1>2. 256 * ((k % 65536) \div 256) + (k % 256) = k
  BY <1>0
<1>3. BE16(k)[1] = (k % 65536) \div 256 /\ BE16(k)[2] = k % 256
  BY DEF BE16
<1>4. BE16(k) \in [1..2 -> Byte]
  BY <1>1 DEF BE16
<1> QED BY <1>2, <1>3, <1>4 DEF BE

\* b is a and c behind it, place by place.
Behind(b, a, c) ==
  /\ b \in Seq(Byte) /\ Len(b) = Len(a) + Len(c) /\ Len(a) \in Nat
  /\ SubSeq(b, 1, Len(a)) = a
  /\ \A i \in 1..Len(a) : b[i] = a[i]
  /\ \A i \in 1..Len(c) : b[Len(a) + i] = c[i]

\* A sequence in front of another.
LEMMA FrontOf ==
  ASSUME NEW a \in Seq(Byte), NEW c \in Seq(Byte)
  PROVE  Behind(a \o c, a, c)
<1> DEFINE b == a \o c
           n == Len(a)
           u == SubSeq(b, 1, n)
<1>1. /\ b \in Seq(Byte) /\ Len(b) = n + Len(c)
      /\ \A i \in 1..n : b[i] = a[i]
      /\ \A i \in 1..Len(c) : b[n + i] = c[i]
  BY ConcatAt
<1>2. n \in Nat /\ Len(c) \in Nat
  OBVIOUS
<1> HIDE DEF b
<1>3. u \in Seq(Byte) /\ Len(u) = n /\ \A i \in 1..n : u[i] = b[i]
  <2>1. n <= Len(b)
    BY <1>1, <1>2
  <2> QED BY <1>1, <1>2, <2>1, FirstOf
<1> HIDE DEF u
<1>4. u = a
  BY <1>1, <1>3, SeqEqual
<1>5. Behind(b, a, c)
  BY <1>1, <1>2, <1>4 DEF u, Behind
<1> QED BY <1>5 DEF b

\* Of the addresses, only those of IPv6 have this length.
LEMMA LongAddress ==
  ASSUME NEW a \in [1..4 -> Nat] \cup [1..16 -> Byte], Len(a) = 16
  PROVE  a \in [1..16 -> Byte]
<1>1. ASSUME a \in [1..4 -> Nat] PROVE FALSE
  <2>1. Len(a) = 4
    BY <1>1
  <2> QED BY <2>1, Z3
<1> QED BY <1>1

\* An address and its port.
LEMMA SaidPort ==
  ASSUME Said, row.enc = "IpIp6Port"
  PROVE  ListedBack
<1> DEFINE s == text.items
           a == s[1][1]
           k == s[1][2]
<1>1. text = Text("slash", s) /\ s \in Seq(([1..4 -> Nat] \cup [1..16 -> Byte]) \X Nat) /\ Len(s) = 1
  BY DEF Said, Sayable, Shaped, Items, One
<1>2. k < 65536 /\ NoneMapped
  BY DEF Said, Sayable
<1>3. s[1] = <<a, k>> /\ a \in [1..4 -> Nat] \cup [1..16 -> Byte] /\ k \in Nat /\ k < 65536 /\ s = <<<<a, k>>>>
  <2>1. s[1] \in ([1..4 -> Nat] \cup [1..16 -> Byte]) \X Nat /\ s = <<s[1]>>
    BY <1>1, OneIn
  <2>2. s[1] = <<a, k>> /\ a \in [1..4 -> Nat] \cup [1..16 -> Byte] /\ k \in Nat
    BY <2>1, PairOf
  <2>3. k < 65536
    BY <1>2
  <2>4. s = <<<<a, k>>>>
    <3> HIDE DEF a, k, s
    <3> QED BY <2>1, <2>2, Zenon
  <2> HIDE DEF a, k, s
  <2> QED BY <2>2, <2>3, <2>4
<1>4. bytes \in Encoded(text)
  BY <1>1, SaidToken DEF Text
<1>5. Octets(a) /\ bytes = Address(s[1]) \o Port(text)
  <2>1. ~V4(text) /\ ~V6(text) /\ text.form = "slash"
    BY <1>1 DEF V4, V6, Text
  <2> QED BY <1>4, <2>1 DEF Encoded, If
<1>6. Port(text) = BE16(k)
  BY <1>1, <1>2 DEF Port, One, Text
<1>7. Address(s[1]) = a
  <2> HIDE DEF a, k
  <2>1. Len(<<a, k>>) = 2 /\ <<a, k>>[1] = a
    OBVIOUS
  <2>2. Address(<<a, k>>) = a
    BY <2>1 DEF Address
  <2> QED BY <1>3, <2>2
<1> HIDE DEF a, k
<1>8. a \in [1..4 -> Byte] \/ a \in [1..16 -> Byte]
  <2>1. CASE a \in [1..4 -> Nat]
    BY <1>5, <2>1, OctetBytes
  <2>2. CASE a \in [1..16 -> Byte]
    BY <2>2
  <2> QED BY <1>3, <2>1, <2>2
<1>9. PICK n \in {4, 16} : a \in [1..n -> Byte]
  BY <1>8
<1> DEFINE c == BE16(k)
<1>10. c \in [1..2 -> Byte] /\ BE(c[1], c[2]) = k
  <2>1. k \in Nat /\ k < 65536
    BY <1>3
  <2> QED BY <2>1, TwoBytes DEF c
<1> HIDE DEF c
<1>11. bytes = a \o c
  BY <1>5, <1>6, <1>7 DEF c
<1>12. /\ Len(bytes) = n + 2 /\ SubSeq(bytes, 1, n) = a
       /\ bytes[n + 1] = c[1] /\ bytes[n + 2] = c[2]
  <2>1. a \in Seq(Byte) /\ Len(a) = n
    <3>1. n \in Nat
      OBVIOUS
    <3> QED BY <1>9, <3>1, FixedBytes
  <2>2. c \in Seq(Byte) /\ Len(c) = 2
    <3>1. 2 \in Nat
      OBVIOUS
    <3> QED BY <1>10, <3>1, FixedBytes
  <2>3. Behind(a \o c, a, c)
    BY <2>1, <2>2, FrontOf
  <2>4. Behind(bytes, a, c)
    BY <1>11, <2>3, Zenon
  <2>5. Len(bytes) = n + 2 /\ SubSeq(bytes, 1, n) = a /\ \A i \in 1..2 : bytes[n + i] = c[i]
    BY <2>1, <2>2, <2>4 DEF Behind
  <2> QED BY <2>5
<1>13. Last2(n) = <<a, k>>
  BY <1>10, <1>12 DEF Last2
<1>14. Len(bytes) - 2 = n
  BY <1>12
<1>15. Listed = {PrintedV6("slash", s)}
  <2>1. Listed = {PrintedV6("slash", <<Last2(Len(bytes) - 2)>>)}
    BY DEF Listed
  <2>2. <<Last2(Len(bytes) - 2)>> = s
    <3> HIDE DEF s
    <3> QED BY <1>3, <1>13, <1>14
  <2> QED BY <2>1, <2>2
<1>16. PrintedV6("slash", s) = text
  BY <1>1, <1>2, PrintedPlain
<1>17. Lengths = {6, 18}
  BY DEF Lengths
<1>18. Len(bytes) \in {6, 18}
  BY <1>9, <1>12
<1> QED BY <1>15, <1>16, <1>17, <1>18 DEF ListedBack

\* Prefixes: each is sixteen bytes and one more.
LEMMA SaidPrefixes ==
  ASSUME Said, row.enc = "Ip6PrefixList"
  PROVE  ListedBack
<1> DEFINE s == text.items
           F == [i \in 1..Len(s) |-> PrefixEntry(text, s[i])]
<1>1. /\ text = Text("slash", s) /\ s \in Seq(([1..4 -> Nat] \cup [1..16 -> Byte]) \X Nat) /\ NoneMapped
      /\ \A x \in Range(s) : Len(x[1]) = 16 /\ x[2] < 256
  BY DEF Said, Sayable, Shaped, Items
<1>2. bytes \in Encoded(text)
  BY <1>1, SaidToken DEF Text
<1>3. text.form = "slash" /\ ~NoText(text) /\ Len(s) \in Nat /\ DOMAIN s = 1..Len(s)
  BY <1>1 DEF NoText, Text
<1>4. bytes = FlattenSeq(F)
  BY <1>2, <1>3 DEF Encoded, Each, Joined
<1>5. ASSUME NEW i \in 1..Len(s)
      PROVE  /\ s[i] = <<s[i][1], s[i][2]>> /\ s[i][1] \in [1..16 -> Byte] /\ s[i][2] \in Byte
             /\ F[i] = s[i][1] \o <<s[i][2]>>
  <2> DEFINE x == s[i]
  <2>1. x \in ([1..4 -> Nat] \cup [1..16 -> Byte]) \X Nat
    BY <1>1, ElementOfSeq
  <2>2. x \in Range(s)
    BY <1>3 DEF Range
  <2>3. x = <<x[1], x[2]>> /\ x[1] \in [1..4 -> Nat] \cup [1..16 -> Byte] /\ x[2] \in Nat
    BY <2>1, PairOf
  <2>4. Len(x[1]) = 16 /\ x[2] < 256
    BY <1>1, <2>2
  <2> DEFINE a == x[1]
             k == x[2]
  <2> HIDE DEF a, k
  <2>5. a \in [1..16 -> Byte]
    <3>1. a \in [1..4 -> Nat] \cup [1..16 -> Byte] /\ Len(a) = 16
      BY <2>3, <2>4 DEF a
    <3> QED BY <3>1, LongAddress
  <2>6. k \in Byte /\ k < 256
    <3>1. k \in Nat /\ k < 256
      BY <2>3, <2>4 DEF k
    <3> QED BY <3>1 DEF Byte
  <2>7. F[i] = a \o ByteOrZero(k)
    BY <1>3, <2>4 DEF PrefixEntry, a, k
  <2>8. ByteOrZero(k) = <<k>>
    BY <2>6 DEF ByteOrZero
  <2> QED BY <2>3, <2>5, <2>6, <2>7, <2>8 DEF a, k
<1> HIDE DEF F
<1>6. ASSUME NEW i \in 1..Len(s)
      PROVE  F[i] \in [1..17 -> Byte] /\ Front(F[i]) = s[i][1] /\ Last(F[i]) = s[i][2]
  <2> DEFINE a == s[i][1]
             k == s[i][2]
             f == F[i]
  <2>1. a \in Seq(Byte) /\ Len(a) = 16 /\ k \in Byte /\ f = a \o <<k>>
    <3>1. a \in [1..16 -> Byte] /\ k \in Byte /\ f = a \o <<k>>
      BY <1>5, Zenon
    <3> HIDE DEF a, k, f
    <3> QED BY <3>1, FixedBytes
  <2> HIDE DEF a, k, f
  <2>2. f \in Seq(Byte) /\ Len(f) = 17 /\ f[17] = k /\ SubSeq(f, 1, 16) = a
    <3> DEFINE c == <<k>>
    <3>1. c \in Seq(Byte) /\ Len(c) = 1 /\ c[1] = k /\ 16 \in Nat
      BY <2>1
    <3> HIDE DEF c
    <3>2. f = a \o c
      BY <2>1 DEF c
    <3>3. Behind(a \o c, a, c)
      BY <2>1, <3>1, FrontOf
    <3>4. Behind(f, a, c)
      BY <3>2, <3>3, Zenon
    <3>5. Len(f) = 16 + 1 /\ f \in Seq(Byte) /\ SubSeq(f, 1, 16) = a
      BY <2>1, <3>1, <3>4 DEF Behind
    <3>6. \A x \in 1..1 : f[16 + x] = c[x]
      BY <2>1, <3>1, <3>4 DEF Behind
    <3>7. f[16 + 1] = k
      BY <3>1, <3>6
    <3> QED BY <3>5, <3>7
  <2>4. f \in [1..17 -> Byte]
    BY <2>2, LenProperties
  <2>5. Front(f) = a /\ Last(f) = k
    BY <2>2 DEF Front, Last
  <2> QED BY <2>4, <2>5 DEF a, k, f
<1>7. F \in Seq([1..17 -> Byte]) /\ Len(F) = Len(s)
  <2>1. F \in [1..Len(s) -> [1..17 -> Byte]]
    BY <1>6 DEF F
  <2> QED BY <1>3, <2>1
<1>8. Chunks(17) = F
  BY <1>4, <1>7, Apart DEF Sizes
<1>9. [i \in DOMAIN Chunks(17) |-> <<Front(Chunks(17)[i]), Last(Chunks(17)[i])>>] = s
  <2>1. DOMAIN Chunks(17) = 1..Len(s)
    BY <1>7, <1>8
  <2>2. \A i \in 1..Len(s) : <<Front(F[i]), Last(F[i])>> = s[i]
    BY <1>5, <1>6
  <2>3. s = [i \in 1..Len(s) |-> s[i]]
    BY <1>1
  <2> HIDE DEF s
  <2> QED BY <1>8, <2>1, <2>2, <2>3
<1>10. PrintedV6("slash", s) = text
  BY <1>1, PrintedPlain
<1> HIDE DEF s
<1> QED BY <1>9, <1>10 DEF ListedBack, Lengths, Listed

\* Hardware addresses, and pairs of them.
Macs  == [1..6 -> Byte]
Pairs == [1..2 -> Macs]

\* A hardware address, and an address and its mask.
LEMMA SaidMac ==
  ASSUME Said, row.enc \in {"Ether", "Ethermask"}
  PROVE  ListedBack
<1> DEFINE s == text.items
<1>1. bytes \in Encoded(text)
  BY SaidToken DEF Said, Sayable
<1>2. CASE row.enc = "Ether"
  <2>1. text = Text("mac", s) /\ s \in [1..1 -> Macs] /\ text.form = "mac"
    BY <1>2 DEF Said, Sayable, Shaped, Items, Macs, Pairs
  <2>2. s \in Seq(Macs) /\ Len(s) = 1
    <3>1. 1 \in Nat
      OBVIOUS
    <3> QED BY <2>1, <3>1, FixedSeq
  <2>3. bytes = FlattenSeq(s)
    <3>1. Each(Same, text) = FlattenSeq(s)
      BY <2>2, EachSame
    <3> QED BY <1>1, <1>2, <2>1, <3>1 DEF Encoded, If
  <2>4. bytes = s[1] /\ s = <<s[1]>> /\ s[1] \in Macs
    BY <2>2, <2>3, OnePart, OneIn
  <2>5. s = <<bytes>> /\ bytes \in Macs
    <3> HIDE DEF s
    <3> QED BY <2>4
  <2>6. Len(bytes) = 6
    BY <2>5 DEF Macs
  <2> QED BY <1>2, <2>1, <2>5, <2>6 DEF ListedBack, Lengths, Listed, Sized
<1>3. CASE row.enc = "Ethermask"
  <2> DEFINE m == s[1]
  <2>1. text = Text("masked", s) /\ s \in [1..1 -> Pairs] /\ text.form = "masked"
    BY <1>3 DEF Said, Sayable, Shaped, Items, Macs, Pairs
  <2>2. s \in Seq(Pairs) /\ Len(s) = 1 /\ DOMAIN s = 1..1
    <3>1. 1 \in Nat
      OBVIOUS
    <3> QED BY <2>1, <3>1, FixedSeq
  <2>3. m \in Pairs /\ s = <<m>>
    BY <2>2, OneIn
  <2>4. m \in Seq(Macs) /\ Len(m) = 2
    <3>1. 2 \in Nat
      OBVIOUS
    <3>2. m \in [1..2 -> Macs]
      BY <2>3 DEF Pairs
    <3> HIDE DEF m
    <3> QED BY <3>1, <3>2, FixedSeq
  <2>5. bytes = FlattenSeq([i \in 1..1 |-> FlattenSeq(s[i])])
    BY <1>1, <1>3, <2>1, <2>2 DEF Encoded, If, Each, Joined
  <2>6. bytes = FlattenSeq(m)
    <3> DEFINE F == [i \in 1..1 |-> FlattenSeq(s[i])]
    <3>1. Len(F) = 1 /\ F[1] = FlattenSeq(m)
      OBVIOUS
    <3> HIDE DEF F, m
    <3>2. FlattenSeq(F) = F[1]
      BY <3>1, OnePart
    <3> QED BY <2>5, <3>1, <3>2 DEF F
  <2> HIDE DEF m
  <2>7. Len(bytes) = 12 /\ Chunks(6) = m
    <3>1. 6 \in Sizes
      BY DEF Sizes
    <3>2. Len(bytes) = 6 * Len(m) /\ Chunks(6) = m
      BY <2>4, <2>6, <3>1, Apart DEF Macs
    <3> QED BY <2>4, <3>2
  <2>8. Listed = {Text("masked", <<m>>)}
    BY <1>3, <2>7 DEF Listed, Sized
  <2> QED BY <1>3, <2>1, <2>3, <2>7, <2>8 DEF ListedBack, Lengths
<1> QED BY <1>2, <1>3

\* Lists of short numbers.
LEMMA SaidShorts ==
  ASSUME Said, row.enc \in {"DualQtag", "CharList", "UshortList"}
  PROVE  ListedBack
<1> DEFINE s == text.items
           n == IF row.enc = "CharList" THEN 1 ELSE 2
           F == [i \in 1..Len(s) |-> Low(s[i].word, n)]
<1>1. text.form = "numbers" /\ ~One(text) /\ \A x \in Range(s) : Fits(x, n)
  BY DEF Said, Sayable, ShortList
<1>2. s \in Seq(Num) /\ Len(s) \in Nat /\ DOMAIN s = 1..Len(s)
  BY <1>1 DEF Said, Shaped, Items, Num
<1>3. bytes \in Encoded(text)
  BY <1>1, SaidToken
<1>4. ~NoText(text) /\ \A i \in 1..Len(s) : Fits(s[i], n)
  BY <1>1, <1>2 DEF NoText, Range
<1>5. bytes = FlattenSeq(F)
  <2>1. CASE row.enc = "DualQtag"
    <3>1. Len(s) = 2 /\ n = 2
      BY <2>1 DEF Said, Sayable
    <3>2. bytes = OrZero(s[1], 2) \o OrZero(s[2], 2)
      BY <1>1, <1>3, <2>1 DEF Encoded
    <3>3. OrZero(s[1], 2) = Low(s[1].word, 2) /\ OrZero(s[2], 2) = Low(s[2].word, 2)
      BY <1>4, <3>1 DEF OrZero
    <3>4. Len(F) = 2 /\ F[1] = Low(s[1].word, 2) /\ F[2] = Low(s[2].word, 2)
      BY <3>1
    <3> HIDE DEF F, s
    <3>5. FlattenSeq(F) = F[1] \o F[2]
      BY <3>4, TwoParts
    <3> QED BY <3>2, <3>3, <3>4, <3>5
  <2>2. CASE row.enc = "CharList"
    BY <1>1, <1>2, <1>3, <1>4, <2>2 DEF Encoded, Each, Joined
  <2>3. CASE row.enc = "UshortList"
    BY <1>1, <1>2, <1>3, <1>4, <2>3 DEF Encoded, Each, Joined, If
  <2> QED BY <2>1, <2>2, <2>3
<1>6. n \in {1, 2, 4}
  OBVIOUS
<1>7. Len(bytes) = n * Len(s) /\ Numbers(n) = Text("numbers", s)
  <2> HIDE DEF n, s
  <2> QED BY <1>2, <1>4, <1>5, <1>6, NumbersAre DEF F
<1>8. text = Text("numbers", s)
  BY <1>1 DEF Said
<1>9. CASE row.enc = "DualQtag"
  <2>1. Len(s) = 2 /\ n = 2
    BY <1>9 DEF Said, Sayable
  <2>2. Len(bytes) = 4
    BY <1>7, <2>1
  <2> HIDE DEF s
  <2> QED BY <1>7, <1>8, <1>9, <2>1, <2>2 DEF ListedBack, Lengths, Listed, Sized
<1>10. CASE row.enc = "CharList"
  BY <1>7, <1>8, <1>10 DEF ListedBack, Lengths, Listed
<1>11. CASE row.enc = "UshortList"
  BY <1>7, <1>8, <1>11 DEF ListedBack, Lengths, Listed
<1> QED BY <1>9, <1>10, <1>11

\* Characters the scanner and the decoder leave as they are, one by one.
LEMMA PlainAt ==
  ASSUME NEW raw \in Seq(Byte)
  PROVE  Plain(raw) <=> \A i \in 1..Len(raw) : raw[i] \notin {0, Tab, Newline, Quote, Backslash}
<1>1. Range(raw) = {raw[i] : i \in 1..Len(raw)}
  BY DEF Range
<1> QED BY <1>1 DEF Plain

\* Characters without a NUL, and these with one behind them.
LEMMA PrintedWhole ==
  ASSUME NEW raw \in Seq(Byte), \A i \in 1..Len(raw) : raw[i] # 0, bytes = raw \/ bytes = Append(raw, 0)
  PROVE  UpToNul = raw
<1> DEFINE I == {i \in 1..Len(bytes) : bytes[i] = 0}
           n == Len(raw)
<1>1. n \in Nat /\ \A i \in 1..n : raw[i] # 0
  OBVIOUS
<1>2. SelectInSeq(bytes, LAMBDA b : b = 0) = IF I # {} THEN Min(I) ELSE 0
  BY DEF SelectInSeq
<1>3. CASE bytes = raw
  <2>1. I = {}
    BY <1>1, <1>3
  <2> QED BY <1>2, <1>3, <2>1 DEF UpToNul
<1>4. CASE bytes = Append(raw, 0)
  <2>1. /\ Len(bytes) = n + 1 /\ bytes[n + 1] = 0
        /\ \A i \in 1..n : bytes[i] = raw[i]
    BY <1>1, <1>4
  <2>2. I = {n + 1}
    BY <1>1, <2>1
  <2> HIDE DEF I
  <2>3. Min(I) = n + 1
    BY <1>1, <2>2 DEF Min
  <2>4. UpToNul = SubSeq(bytes, 1, n)
    BY <1>1, <1>2, <2>2, <2>3 DEF UpToNul
  <2>5. SubSeq(bytes, 1, n) = raw
    <3>1. 0 \in Byte
      BY DEF Byte
    <3>2. bytes \in Seq(Byte)
      BY <1>4, <3>1
    <3> HIDE DEF n
    <3>3. /\ SubSeq(bytes, 1, n) \in Seq(Byte) /\ Len(SubSeq(bytes, 1, n)) = n
          /\ \A i \in 1..n : SubSeq(bytes, 1, n)[i] = bytes[i]
      <4>1. n <= Len(bytes)
        BY <1>1, <2>1
      <4> QED BY <1>1, <3>2, <4>1, FirstOf
    <3> DEFINE u == SubSeq(bytes, 1, n)
    <3>4. u \in Seq(Byte) /\ Len(u) = Len(raw) /\ \A i \in 1..Len(u) : u[i] = raw[i]
      BY <2>1, <3>3 DEF n
    <3> HIDE DEF u
    <3>5. u = raw
      BY <3>4, SeqEqual
    <3> QED BY <3>5 DEF u
  <2> QED BY <2>4, <2>5
<1> QED BY <1>3, <1>4

\* Strings.
LEMMA SaidString ==
  ASSUME Said, row.enc \in {"String", "Strzero"}
  PROVE  ListedBack
<1> DEFINE raw == text.items
<1>1. text = Text("quoted", raw) /\ text.form = "quoted" /\ raw \in Seq(Byte) /\ Plain(raw)
  BY DEF Said, Sayable, Shaped, Items
<1>0. \A i \in 1..Len(raw) : raw[i] \notin {0, Tab, Newline, Quote, Backslash}
  BY <1>1, PlainAt
<1>2. PICK t \in Token(text) : bytes \in Encoded(t)
  BY DEF Said, Encodings
<1>3. t = Text("quoted", raw)
  <2>1. t = Text("quoted", Unescape(raw))
    BY <1>1, <1>2 DEF Token
  <2> QED BY <1>0, <1>1, <2>1, UnescapePlain
<1>4. AsBytes(t) = raw
  BY <1>3 DEF AsBytes, Text
<1>5. bytes = raw \/ bytes = Append(raw, 0)
  BY <1>2, <1>4 DEF Encoded, If
<1>6. UpToNul = raw
  BY <1>0, <1>1, <1>5, PrintedWhole
<1> HIDE DEF raw
<1> QED BY <1>1, <1>6 DEF ListedBack, Lengths, Listed

\* Two hexadecimal digits are one byte, and this prints as them.
LEMMA TwoDigits ==
  ASSUME NEW x \in 0..15, NEW y \in 0..15
  PROVE  /\ x * 16 + y \in Byte /\ (x * 16 + y) \div 16 = x /\ (x * 16 + y) % 16 = y
  BY DEF Byte

\* Hexadecimal digits.
LEMMA SaidHex ==
  ASSUME Said, row.enc = "Hexstr"
  PROVE  ListedBack
<1> DEFINE s == text.items
           k == Len(s) \div 2
<1>1. text = Text("hex", s) /\ text.form = "hex" /\ s \in Seq(0..15)
  BY DEF Said, Sayable, Shaped, Items
<1>2. bytes \in Encoded(text)
  BY <1>1, SaidToken
<1>3. Len(s) % 2 = 0 /\ bytes = Paired(s)
  <2>1. HexOf(text) = {s}
    BY <1>1 DEF HexOf
  <2> QED BY <1>2, <2>1 DEF Encoded
<1>4. Len(s) \in Nat /\ k \in Nat /\ Len(s) = 2 * k /\ \A i \in 1..Len(s) : s[i] \in 0..15
  <2>1. Len(s) \in Nat /\ \A i \in 1..Len(s) : s[i] \in 0..15
    BY <1>1, ElementOfSeq
  <2>2. Len(s) % 2 = 0
    BY <1>3
  <2> HIDE DEF s
  <2>3. k \in Nat /\ Len(s) = 2 * k
    BY <2>1, <2>2
  <2> QED BY <2>1, <2>3
<1>5. bytes = [i \in 1..k |-> s[2 * i - 1] * 16 + s[2 * i]]
  BY <1>3 DEF Paired
<1> HIDE DEF s, k
<1>6. Len(bytes) = k
  BY <1>4, <1>5
<1>7. ASSUME NEW i \in 1..Len(s)
      PROVE  s[i] = LET b == bytes[(i + 1) \div 2] IN IF i % 2 = 1 THEN b \div 16 ELSE b % 16
  <2> DEFINE j == (i + 1) \div 2
             x == s[2 * j - 1]
             y == s[2 * j]
  <2>1. j \in 1..k /\ 2 * j - 1 \in 1..Len(s) /\ 2 * j \in 1..Len(s)
        /\ (i % 2 = 1 => i = 2 * j - 1) /\ (i % 2 # 1 => i = 2 * j)
    BY <1>4
  <2> HIDE DEF j
  <2>2. bytes[j] = x * 16 + y
    BY <1>5, <2>1
  <2>3. x \in 0..15 /\ y \in 0..15
    BY <1>4, <2>1
  <2>4. (x * 16 + y) \div 16 = x /\ (x * 16 + y) % 16 = y
    BY <2>3, TwoDigits
  <2>5. s[i] = IF i % 2 = 1 THEN x ELSE y
    BY <2>1
  <2>6. s[i] = IF i % 2 = 1 THEN bytes[j] \div 16 ELSE bytes[j] % 16
    BY <2>2, <2>4, <2>5
  <2> QED BY <2>6 DEF j
<1>8. Digits = [i \in 1..Len(s) |-> s[i]]
  BY <1>4, <1>6, <1>7 DEF Digits
<1>9. Digits = s
  BY <1>1, <1>8
<1> QED BY <1>1, <1>9 DEF ListedBack, Lengths, Listed

\* Every encoding lists what it was told.
LEMMA SaidIsListed == Said => ListedBack
<1> SUFFICES ASSUME Said PROVE ListedBack
  OBVIOUS
<1>1. row.enc \in Encs /\ Sayable
  BY ValuesAssumption DEF Said
<1>2. CASE row.enc \in {"Uint", "Uint24", "Ushort", "Uchar"}
  BY <1>2, SaidNumbers
<1>3. CASE row.enc \in {"Ip", "IpList", "Ip6", "Ip6List", "IpIp6", "CharIpIp6"}
  <2>1. \/ row.enc \in {"Ip", "IpList", "IpIp6", "CharIpIp6"} /\ text.form = "ip4"
        \/ row.enc \in {"Ip6", "Ip6List", "IpIp6", "CharIpIp6"} /\ text.form = "ip6"
    BY <1>1, <1>3 DEF Sayable
  <2> QED BY <2>1, SaidIp4, SaidIp6
<1>4. CASE row.enc = "IpIp6Port"
  BY <1>4, SaidPort
<1>5. CASE row.enc = "Ip6PrefixList"
  BY <1>5, SaidPrefixes
<1>6. CASE row.enc \in {"Ether", "Ethermask"}
  BY <1>6, SaidMac
<1>7. CASE row.enc \in {"DualQtag", "CharList", "UshortList"}
  BY <1>7, SaidShorts
<1>8. CASE row.enc \in {"String", "Strzero"}
  BY <1>8, SaidString
<1>9. CASE row.enc = "Hexstr"
  BY <1>9, SaidHex
<1>10. CASE row.enc = "Lenzero"
  BY <1>1, <1>10 DEF Sayable
<1> QED BY <1>1, <1>2, <1>3, <1>4, <1>5, <1>6, <1>7, <1>8, <1>9, <1>10 DEF Encs

-----------------------------------------------------------------------------
(* What is encoded are bytes, and what is listed is text.                  *)

\* The four bytes of a number.
LEMMA WordIs == ASSUME NEW n \in Int PROVE Word(n) \in [1..4 -> Byte]
<1>1. (n \div 16777216) % 256 \in 0..255 /\ (n \div 65536) % 256 \in 0..255
      /\ (n \div 256) % 256 \in 0..255 /\ n % 256 \in 0..255
  OBVIOUS
<1> QED BY <1>1 DEF Word, Byte

\* Byte sequences one behind the other.
LEMMA JoinedBytes ==
  ASSUME NEW n \in Nat, NEW F, F \in [1..n -> Seq(Byte)]
  PROVE  FlattenSeq(F) \in Seq(Byte)
<1>1. F \in Seq(Seq(Byte))
  BY FixedSeq
<1> QED BY <1>1, FlattenTypedSeq

\* A text that is a token; its items are the elements of a sequence.
TokenText(t) == Shaped(t) /\ t.form \notin {"dotted", "missing"} /\ (t.form = "quoted" \/ t.items # <<>>)

\* It has a number of items, and they are numbered from 1.
LEMMA ItemsCount ==
  ASSUME NEW t, TokenText(t)
  PROVE  Len(t.items) \in Nat /\ DOMAIN t.items = 1..Len(t.items)
<1> DEFINE s == t.items
<1>1. \E S : s \in Seq(S)
  <2>1. CASE t.form \in {"numbers", "ip4", "ip6", "slash", "hex", "quoted"}
    BY <2>1 DEF TokenText, Shaped, Items
  <2>2. CASE t.form = "mac"
    <3>1. s \in [1..1 -> Macs] /\ 1 \in Nat
      BY <2>2 DEF TokenText, Shaped, Items, Macs
    <3>2. s \in Seq(Macs)
      BY <3>1, FixedSeq
    <3> QED BY <3>2
  <2>3. CASE t.form = "masked"
    <3>1. s \in [1..1 -> Pairs] /\ 1 \in Nat
      BY <2>3 DEF TokenText, Shaped, Items, Macs, Pairs
    <3>2. s \in Seq(Pairs)
      BY <3>1, FixedSeq
    <3> QED BY <3>2
  <2> QED BY <2>1, <2>2, <2>3 DEF TokenText, Shaped, Forms
<1> HIDE DEF s
<1>2. Len(s) \in Nat /\ DOMAIN s = 1..Len(s)
  BY <1>1
<1> QED BY <1>2 DEF s

\* Zeros.
LEMMA ZerosAre == ASSUME NEW n \in Nat PROVE Zeros(n) \in Seq(Byte) /\ Len(Zeros(n)) = n
<1>1. 0 \in Byte
  BY DEF Byte
<1>2. Zeros(n) \in [1..n -> Byte]
  BY <1>1 DEF Zeros
<1> QED BY <1>2, FixedSeq

\* The number a value is.
LEMMA AsNumIs ==
  ASSUME NEW t, TokenText(t)
  PROVE  AsNum(t) \in [1..4 -> Byte]
<1>1. Zero \in [1..4 -> Byte]
  BY WordIs DEF Zero
<1>2. CASE t.form = "numbers" /\ One(t)
  <2>1. t.items \in Seq(Num) /\ Len(t.items) = 1
    BY <1>2 DEF TokenText, Shaped, Items, Num, One
  <2>2. t.items[1] \in Num
    BY <2>1, OneIn
  <2> QED BY <1>2, <2>2 DEF AsNum, Num
<1> QED BY <1>1, <1>2 DEF AsNum

\* A number, or zero, in one or two bytes.
LEMMA OrZeroIs ==
  ASSUME NEW x \in Num, NEW n \in {1, 2}
  PROVE  OrZero(x, n) \in Seq(Byte)
<1>1. n \in 1..4 /\ Zero \in [1..4 -> Byte] /\ x.word \in [1..4 -> Byte]
  BY WordIs DEF Zero, Num
<1>2. Low(x.word, n) \in Seq(Byte) /\ Low(Zero, n) \in Seq(Byte)
  BY <1>1, LowIs
<1> QED BY <1>2 DEF OrZero

\* Numbers are encoded as bytes.
LEMMA NumberBytes ==
  ASSUME NEW t, TokenText(t), row.enc \in {"Uint", "Uint24", "Ushort", "Uchar"}
  PROVE  Encoded(t) \subseteq Seq(Byte)
<1> DEFINE n == AsNum(t)
<1>1. n \in [1..4 -> Byte]
  BY AsNumIs
<1> HIDE DEF n
<1>2. n \in Seq(Byte) /\ Low(n, 3) \in Seq(Byte) /\ Low(n, 2) \in Seq(Byte) /\ Low(n, 1) \in Seq(Byte)
  <2>1. n \in Seq(Byte)
    <3>1. 4 \in Nat
      OBVIOUS
    <3> QED BY <1>1, <3>1, FixedBytes
  <2>2. 3 \in 1..4 /\ 2 \in 1..4 /\ 1 \in 1..4
    OBVIOUS
  <2> QED BY <1>1, <2>1, <2>2, LowIs
<1>3. CASE row.enc = "Uint"
  BY <1>2, <1>3 DEF Encoded, If, n
<1>4. CASE row.enc = "Uint24"
  BY <1>2, <1>4 DEF Encoded, If, n
<1>5. CASE row.enc = "Ushort"
  BY <1>2, <1>5 DEF Encoded, If, n
<1>6. CASE row.enc = "Uchar"
  BY <1>2, <1>6 DEF Encoded, If, n
<1> QED BY <1>3, <1>4, <1>5, <1>6

\* The items are bytes one behind the other: of addresses of bytes, of hardware ones.
LEMMA SameBytes ==
  ASSUME NEW t, NEW n \in Nat, t.items \in Seq([1..n -> Byte])
  PROVE  Each(Same, t) \in Seq(Byte)
<1> DEFINE s == t.items
           k == Len(s)
<1>1. k \in Nat /\ DOMAIN s = 1..k /\ \A i \in 1..k : s[i] \in [1..n -> Byte]
  BY ElementOfSeq
<1>2. \A i \in 1..k : s[i] \in Seq(Byte)
  BY <1>1, FixedBytes
<1>3. [i \in 1..k |-> s[i]] \in [1..k -> Seq(Byte)]
  BY <1>2
<1>4. Each(Same, t) = FlattenSeq([i \in 1..k |-> s[i]])
  BY <1>1 DEF Each, Joined, Same
<1> QED BY <1>1, <1>3, <1>4, JoinedBytes

\* So are addresses of IPv4 whose parts are bytes.
LEMMA OctetsBytes ==
  ASSUME NEW t, t.items \in Seq([1..4 -> Nat]), \A x \in Range(t.items) : Octets(x)
  PROVE  t.items \in Seq([1..4 -> Byte])
<1> DEFINE s == t.items
<1>1. \A i \in 1..Len(s) : s[i] \in [1..4 -> Byte]
  <2> SUFFICES ASSUME NEW i \in 1..Len(s) PROVE s[i] \in [1..4 -> Byte]
    OBVIOUS
  <2>1. s[i] \in [1..4 -> Nat] /\ s[i] \in Range(s)
    BY DEF Range
  <2> QED BY <2>1, OctetBytes
<1>2. s \in Seq([1..4 -> Nat])
  OBVIOUS
<1> HIDE DEF s
<1>3. Len(s) \in Nat /\ s = [i \in 1..Len(s) |-> s[i]]
  BY <1>2
<1>4. s \in Seq([1..4 -> Byte])
  BY <1>1, <1>3
<1> QED BY <1>4 DEF s

\* One address, of either kind.
LEMMA OneAddress ==
  ASSUME NEW t, TokenText(t), V4(t) \/ V6(t)
  PROVE  /\ Each(Same, t) \in Seq(Byte)
         /\ Address(t.items[1]) \in Seq(Byte)
<1> DEFINE s == t.items
<1>1. PICK n \in {4, 16} : s \in Seq([1..n -> Byte]) /\ Len(s) = 1
  <2>1. CASE V4(t)
    <3>1. s \in Seq([1..4 -> Nat]) /\ Len(s) = 1 /\ Octets(s[1])
      BY <2>1 DEF V4, One, TokenText, Shaped, Items
    <3>2. \A x \in Range(s) : Octets(x)
      BY <3>1 DEF Range
    <3>3. s \in Seq([1..4 -> Byte])
      BY <3>1, <3>2, OctetsBytes
    <3> QED BY <3>1, <3>3
  <2>2. CASE V6(t)
    <3>1. s \in Seq([1..16 -> Byte]) /\ Len(s) = 1
      BY <2>2 DEF V6, One, TokenText, Shaped, Items
    <3> QED BY <3>1
  <2> QED BY <2>1, <2>2
<1>2. n \in Nat
  OBVIOUS
<1>3. Each(Same, t) \in Seq(Byte)
  BY <1>1, <1>2, SameBytes
<1>4. s[1] \in [1..n -> Byte]
  BY <1>1, OneIn
<1>5. s[1] \in Seq(Byte) /\ Len(s[1]) = n
  BY <1>2, <1>4, FixedBytes
<1>6. Len(s[1]) # 2
  BY <1>5
<1>7. Address(s[1]) = s[1]
  BY <1>6 DEF Address
<1> HIDE DEF s
<1> QED BY <1>3, <1>5, <1>7 DEF s

\* Addresses of IPv4 and IPv6 are encoded as bytes.
LEMMA AddressBytes ==
  ASSUME NEW t, TokenText(t), row.enc \in {"Ip", "IpList", "Ip6", "Ip6List", "IpIp6", "CharIpIp6"}
  PROVE  Encoded(t) \subseteq Seq(Byte)
<1>1. <<>> \in Seq(Byte) /\ <<1>> \in Seq(Byte) /\ <<2>> \in Seq(Byte)
  <2>1. 1 \in Byte /\ 2 \in Byte
    BY DEF Byte
  <2> QED BY <2>1
<1>2. CASE row.enc \in {"Ip", "Ip6", "IpIp6"}
  BY <1>2, OneAddress DEF Encoded, If
<1>3. CASE row.enc = "CharIpIp6"
  <2>1. ASSUME V4(t) \/ V6(t) PROVE <<IF V6(t) THEN 2 ELSE 1>> \o Each(Same, t) \in Seq(Byte)
    <3>1. Each(Same, t) \in Seq(Byte)
      BY <2>1, OneAddress
    <3>2. <<IF V6(t) THEN 2 ELSE 1>> \in Seq(Byte)
      BY <1>1
    <3> QED BY <3>1, <3>2
  <2> QED BY <1>3, <2>1 DEF Encoded, If
<1>4. CASE row.enc = "IpList"
  <2>1. ASSUME t.form = "ip4", \A x \in Range(t.items) : Octets(x) PROVE Each(Same, t) \in Seq(Byte)
    <3>1. t.items \in Seq([1..4 -> Nat])
      BY <2>1 DEF TokenText, Shaped, Items
    <3>2. t.items \in Seq([1..4 -> Byte]) /\ 4 \in Nat
      BY <2>1, <3>1, OctetsBytes
    <3> QED BY <3>2, SameBytes
  <2> QED BY <1>1, <1>4, <2>1 DEF Encoded, If
<1>5. CASE row.enc = "Ip6List"
  <2>1. ASSUME t.form = "ip6" PROVE Each(Same, t) \in Seq(Byte)
    <3>1. t.items \in Seq([1..16 -> Byte]) /\ 16 \in Nat
      BY <2>1 DEF TokenText, Shaped, Items
    <3> QED BY <3>1, SameBytes
  <2> QED BY <1>1, <1>5, <2>1 DEF Encoded, If
<1> QED BY <1>2, <1>3, <1>4, <1>5

\* One byte.
LEMMA OneByte == ASSUME NEW k \in Nat PROVE ByteOrZero(k) \in Seq(Byte)
<1>1. 0 \in Byte /\ (k < 256 => k \in Byte)
  BY DEF Byte
<1> QED BY <1>1 DEF ByteOrZero

\* An address and the number behind it are of these sets.
LEMMA SlashItem ==
  ASSUME NEW t, TokenText(t), t.form = "slash", NEW i \in 1..Len(t.items)
  PROVE  /\ t.items[i][1] \in [1..4 -> Nat] \cup [1..16 -> Byte] /\ t.items[i][2] \in Nat
         /\ Len(t.items[i]) = 2
<1> DEFINE s == t.items
           A == [1..4 -> Nat] \cup [1..16 -> Byte]
<1>1. s \in Seq(A \X Nat)
  BY DEF TokenText, Shaped, Items
<1> HIDE DEF s, A
<1>2. s[i] \in A \X Nat
  <2>1. i \in 1..Len(s)
    BY DEF s
  <2> QED BY <1>1, <2>1, ElementOfSeq
<1>3. s[i] = <<s[i][1], s[i][2]>> /\ s[i][1] \in A /\ s[i][2] \in Nat
  BY <1>2, PairOf
<1>4. Len(s[i]) = 2
  <2> DEFINE a == s[i][1]
             k == s[i][2]
  <2>1. Len(<<a, k>>) = 2
    OBVIOUS
  <2> HIDE DEF a, k
  <2>2. s[i] = <<a, k>>
    BY <1>3 DEF a, k
  <2> QED BY <2>1, <2>2, Zenon
<1> QED BY <1>3, <1>4 DEF s, A

\* An address with the length of a prefix.
LEMMA PrefixBytes ==
  ASSUME NEW t, TokenText(t), NEW i \in 1..Len(t.items)
  PROVE  PrefixEntry(t, t.items[i]) \in Seq(Byte)
<1> DEFINE x == t.items[i]
<1>1. Zeros(16) \in Seq(Byte) /\ Zeros(17) \in Seq(Byte)
  BY ZerosAre
<1>2. CASE t.form = "slash"
  <2>1. x[1] \in [1..4 -> Nat] \cup [1..16 -> Byte] /\ x[2] \in Nat
    BY <1>2, SlashItem
  <2>2. ByteOrZero(x[2]) \in Seq(Byte)
    BY <2>1, OneByte
  <2>3. ASSUME Len(x[1]) = 16 PROVE x[1] \in Seq(Byte)
    <3>1. x[1] \in [1..16 -> Byte] /\ 16 \in Nat
      BY <2>1, <2>3, LongAddress
    <3> QED BY <3>1, FixedBytes
  <2>4. (IF Len(x[1]) = 16 THEN x[1] ELSE Zeros(16)) \in Seq(Byte)
    BY <1>1, <2>3
  <2>5. PrefixEntry(t, x) = (IF Len(x[1]) = 16 THEN x[1] ELSE Zeros(16)) \o ByteOrZero(x[2])
    BY <1>2 DEF PrefixEntry
  <2> HIDE DEF x
  <2>6. (IF Len(x[1]) = 16 THEN x[1] ELSE Zeros(16)) \o ByteOrZero(x[2]) \in Seq(Byte)
    BY <2>2, <2>4, ConcatProperties
  <2> QED BY <2>5, <2>6 DEF x
<1>3. CASE t.form = "ip6"
  <2>1. t.items \in Seq([1..16 -> Byte]) /\ 16 \in Nat
    BY <1>3 DEF TokenText, Shaped, Items
  <2>2. x \in [1..16 -> Byte]
    BY <2>1, ElementOfSeq
  <2>3. x \in Seq(Byte) /\ <<0>> \in Seq(Byte)
    <3>1. 0 \in Byte
      BY DEF Byte
    <3>2. <<0>> \in Seq(Byte)
      BY <3>1
    <3>3. x \in Seq(Byte)
      BY <2>1, <2>2, FixedBytes
    <3> QED BY <3>2, <3>3
  <2>4. PrefixEntry(t, x) = x \o <<0>>
    BY <1>3 DEF PrefixEntry
  <2> HIDE DEF x
  <2>5. x \o <<0>> \in Seq(Byte)
    BY <2>3
  <2> QED BY <2>4, <2>5 DEF x
<1>4. CASE t.form = "numbers"
  <2>1. t.items \in Seq(Num)
    BY <1>4 DEF TokenText, Shaped, Items, Num
  <2>2. x \in Num
    BY <2>1, ElementOfSeq
  <2>3. OrZero(x, 1) \in Seq(Byte)
    BY <2>2, OrZeroIs
  <2>4. PrefixEntry(t, x) = Zeros(16) \o OrZero(x, 1)
    BY <1>4 DEF PrefixEntry
  <2>5. Zeros(16) \o OrZero(x, 1) \in Seq(Byte)
    BY <1>1, <2>3, ConcatProperties
  <2> QED BY <2>4, <2>5
<1>5. CASE t.form \notin {"slash", "ip6", "numbers"}
  BY <1>1, <1>5 DEF PrefixEntry
<1> QED BY <1>2, <1>3, <1>4, <1>5

\* The two bytes of a port.
LEMMA PortBytes ==
  ASSUME NEW t, TokenText(t)
  PROVE  Port(t) \in Seq(Byte)
<1>1. <<0, 0>> \in Seq(Byte)
  <2>1. 0 \in Byte
    BY DEF Byte
  <2> QED BY <2>1
<1>2. CASE t.form = "slash" /\ One(t) /\ t.items[1][2] < 65536
  <2> DEFINE k == t.items[1][2]
  <2>1. 1 \in 1..Len(t.items)
    BY <1>2 DEF One
  <2>2. k \in Nat /\ k < 65536
    BY <1>2, <2>1, SlashItem
  <2>3. Port(t) = BE16(k)
    BY <1>2 DEF Port
  <2> HIDE DEF k
  <2>4. BE16(k) \in [1..2 -> Byte] /\ 2 \in Nat
    BY <2>2, TwoBytes
  <2> QED BY <2>3, <2>4, FixedBytes
<1> QED BY <1>1, <1>2 DEF Port

\* Addresses with a number behind them, and hardware ones, are encoded as bytes.
LEMMA SlashBytes ==
  ASSUME NEW t, TokenText(t), row.enc \in {"Ip6PrefixList", "IpIp6Port", "Ether", "Ethermask"}
  PROVE  Encoded(t) \subseteq Seq(Byte)
<1>1. CASE row.enc = "Ip6PrefixList"
  <2> DEFINE n == Len(t.items)
             F == [i \in 1..n |-> PrefixEntry(t, t.items[i])]
  <2>1. n \in Nat /\ DOMAIN t.items = 1..n
    BY ItemsCount
  <2>2. F \in [1..n -> Seq(Byte)]
    BY PrefixBytes
  <2>3. FlattenSeq(F) \in Seq(Byte)
    BY <2>1, <2>2, JoinedBytes
  <2>4. Each(LAMBDA x : PrefixEntry(t, x), t) = FlattenSeq(F)
    BY <2>1 DEF Each, Joined
  <2>5. <<>> \in Seq(Byte) /\ Zeros(17) \in Seq(Byte)
    BY ZerosAre
  <2>6. Encoded(t) = {CASE NoText(t)       -> <<>>
                        [] t.form = "hex" -> Zeros(17)
                        [] OTHER          -> Each(LAMBDA x : PrefixEntry(t, x), t)}
    BY <1>1 DEF Encoded
  <2>7. NoText(t) => t.form # "hex"
    BY DEF NoText
  <2> HIDE DEF F
  <2> QED BY <2>3, <2>4, <2>5, <2>6, <2>7
<1>2. CASE row.enc = "IpIp6Port"
  <2>1. Port(t) \in Seq(Byte)
    BY PortBytes
  <2>2. ASSUME V4(t) \/ V6(t) PROVE Address(t.items[1]) \in Seq(Byte)
    BY <2>2, OneAddress
  <2>3. ASSUME t.form = "slash", Octets(t.items[1][1]), t.items # <<>> PROVE Address(t.items[1]) \in Seq(Byte)
    <3> DEFINE a == t.items[1][1]
    <3>1. 1 \in 1..Len(t.items)
      <4> DEFINE s == t.items
      <4>1. s \in Seq(([1..4 -> Nat] \cup [1..16 -> Byte]) \X Nat) /\ s # <<>>
        BY <2>3 DEF TokenText, Shaped, Items
      <4> HIDE DEF s
      <4>2. 1 \in 1..Len(s)
        BY <4>1
      <4> QED BY <4>2 DEF s
    <3>2. a \in [1..4 -> Nat] \cup [1..16 -> Byte] /\ Address(t.items[1]) = a
      BY <2>3, <3>1, SlashItem DEF Address
    <3> HIDE DEF a
    <3>3. a \in [1..4 -> Byte] \cup [1..16 -> Byte]
      <4>1. Octets(a)
        BY <2>3 DEF a
      <4> QED BY <3>2, <4>1, OctetBytes
    <3>4. 4 \in Nat /\ 16 \in Nat
      OBVIOUS
    <3>5. a \in Seq(Byte)
      BY <3>3, <3>4, FixedBytes
    <3> QED BY <3>2, <3>5
  <2>4. ASSUME NEW b \in Encoded(t), Address(t.items[1]) \in Seq(Byte) PROVE b \in Seq(Byte)
    <3>1. b = Address(t.items[1]) \o Port(t)
      BY <1>2 DEF Encoded, If
    <3> QED BY <2>1, <2>4, <3>1, ConcatProperties
  <2>5. ASSUME NEW b \in Encoded(t) PROVE b \in Seq(Byte)
    <3>1. V4(t) \/ V6(t) \/ (t.form = "slash" /\ Octets(t.items[1][1]))
      BY <1>2 DEF Encoded, If
    <3>2. t.form = "slash" => t.items # <<>>
      BY DEF TokenText
    <3> QED BY <2>2, <2>3, <2>4, <3>1, <3>2
  <2> QED BY <2>5
<1>3. CASE row.enc = "Ether"
  <2>1. ASSUME t.form = "mac" PROVE Each(Same, t) \in Seq(Byte)
    <3>1. t.items \in [1..1 -> Macs] /\ 1 \in Nat /\ 6 \in Nat
      BY <2>1 DEF TokenText, Shaped, Items, Macs
    <3>2. t.items \in Seq(Macs)
      BY <3>1, FixedSeq
    <3> QED BY <3>1, <3>2, SameBytes DEF Macs
  <2> QED BY <1>3, <2>1 DEF Encoded, If
<1>4. CASE row.enc = "Ethermask"
  <2>1. ASSUME t.form = "masked" PROVE Each(Joined, t) \in Seq(Byte)
    <3> DEFINE F == [i \in 1..1 |-> FlattenSeq(t.items[i])]
    <3>1. t.items \in [1..1 -> Pairs] /\ 1 \in Nat /\ 6 \in Nat /\ 2 \in Nat
      BY <2>1 DEF TokenText, Shaped, Items, Macs, Pairs
    <3>2. t.items[1] \in Pairs /\ DOMAIN t.items = 1..1
      BY <3>1
    <3>3. \A m \in Pairs : FlattenSeq(m) \in Seq(Byte)
      <4> SUFFICES ASSUME NEW m \in Pairs PROVE FlattenSeq(m) \in Seq(Byte)
        OBVIOUS
      <4>1. m \in [1..2 -> Seq(Byte)]
        <5>1. \A x \in Macs : x \in Seq(Byte)
          BY <3>1, FixedBytes DEF Macs
        <5> QED BY <5>1 DEF Pairs
      <4> QED BY <3>1, <4>1, JoinedBytes
    <3>4. F \in [1..1 -> Seq(Byte)]
      BY <3>2, <3>3
    <3>5. Each(Joined, t) = FlattenSeq(F)
      BY <3>2 DEF Each, Joined
    <3> HIDE DEF F
    <3> QED BY <3>1, <3>4, <3>5, JoinedBytes
  <2> QED BY <1>4, <2>1 DEF Encoded, If
<1> QED BY <1>1, <1>2, <1>3, <1>4

\* Hexadecimal digits are below sixteen.
LEMMA HexDigits ==
  ASSUME NEW t, TokenText(t)
  PROVE  \A d \in HexOf(t) : d \in Seq(0..15)
<1> SUFFICES ASSUME NEW d \in HexOf(t) PROVE d \in Seq(0..15)
  OBVIOUS
<1>1. CASE t.form = "hex"
  <2>1. t.items \in Seq(0..15)
    BY <1>1 DEF TokenText, Shaped, Items
  <2> QED BY <1>1, <2>1 DEF HexOf
<1>2. CASE t.form = "quoted"
  <2> DEFINE raw == t.items
             n == Len(raw) - 2
             digits == [i \in 1..n |-> DigitAt(raw, i + 2)]
  <2>1. raw \in Seq(Byte)
    BY <1>2 DEF TokenText, Shaped, Items
  <2>2. d = digits /\ Len(raw) >= 2 /\ NoDigit \notin Range(digits)
    BY <1>2 DEF HexOf, If
  <2>3. n \in Nat /\ \A i \in 1..n : raw[i + 2] \in Byte
    <3> DEFINE l == Len(raw)
    <3>1. l \in Nat /\ \A i \in 1..l : raw[i] \in Byte
      BY <2>1, ElementOfSeq
    <3> HIDE DEF l
    <3>2. l - 2 \in Nat /\ \A i \in 1..l - 2 : i + 2 \in 1..l
      BY <2>2, <3>1 DEF l
    <3> QED BY <3>1, <3>2 DEF l
  <2> HIDE DEF n, raw
  <2>4. \A i \in 1..n : DigitAt(raw, i + 2) \in 0..16
    <3> SUFFICES ASSUME NEW i \in 1..n PROVE DigitAt(raw, i + 2) \in 0..16
      OBVIOUS
    <3>1. raw[i + 2] \in 0..255
      BY <2>3 DEF Byte
    <3>2. \A c \in 0..255 : DigitOf(c) \in 0..16
      BY DEF DigitOf, NoDigit
    <3> QED BY <3>1, <3>2 DEF DigitAt
  <2>5. \A i \in 1..n : digits[i] \in Range(digits)
    BY DEF Range
  <2>6. \A i \in 1..n : DigitAt(raw, i + 2) # 16
    BY <2>2, <2>5 DEF NoDigit
  <2>7. digits \in [1..n -> 0..15]
    BY <2>4, <2>6
  <2> HIDE DEF digits
  <2>8. digits \in Seq(0..15)
    BY <2>3, <2>7, FixedSeq
  <2> QED BY <2>2, <2>8
<1>3. CASE t.form \notin {"hex", "quoted"}
  BY <1>3 DEF HexOf
<1> QED BY <1>1, <1>2, <1>3

\* Pairs of them are bytes.
LEMMA PairedBytes == ASSUME NEW s \in Seq(0..15) PROVE Paired(s) \in Seq(Byte)
<1> DEFINE n == Len(s)
<1>1. n \in Nat /\ \A i \in 1..n : s[i] \in 0..15
  BY ElementOfSeq
<1>2. n \div 2 \in Nat /\ \A i \in 1..n \div 2 : 2 * i - 1 \in 1..n /\ 2 * i \in 1..n
  <2> HIDE DEF n
  <2> QED BY <1>1
<1>3. \A i \in 1..n \div 2 : s[2 * i - 1] * 16 + s[2 * i] \in Byte
  <2> HIDE DEF n
  <2> QED BY <1>1, <1>2, TwoDigits
<1>4. Paired(s) \in [1..n \div 2 -> Byte]
  BY <1>3 DEF Paired
<1> QED BY <1>2, <1>4, FixedSeq

\* Lists of numbers and hexadecimal strings are encoded as bytes.
LEMMA ListBytes ==
  ASSUME NEW t, TokenText(t), row.enc \in {"DualQtag", "CharList", "UshortList", "Hexstr", "Lenzero"}
  PROVE  Encoded(t) \subseteq Seq(Byte)
<1> DEFINE s == t.items
           n == Len(s)
<1>1. n \in Nat /\ DOMAIN s = 1..n
  BY ItemsCount
<1>2. <<>> \in Seq(Byte) /\ <<0>> \in Seq(Byte) /\ Zeros(4) \in Seq(Byte) /\ Zeros(n) \in Seq(Byte)
  <2>1. 0 \in Byte /\ 4 \in Nat
    BY DEF Byte
  <2>2. Zeros(4) \in Seq(Byte) /\ Zeros(n) \in Seq(Byte)
    BY <1>1, <2>1, ZerosAre
  <2>3. <<0>> \in Seq(Byte)
    BY <2>1
  <2> QED BY <2>2, <2>3
<1>3. ASSUME t.form = "numbers", NEW i \in 1..n PROVE s[i] \in Num
  <2>1. s \in Seq(Num)
    BY <1>3 DEF TokenText, Shaped, Items, Num
  <2> QED BY <2>1, ElementOfSeq
<1>4. ASSUME t.form = "numbers", NEW k \in {1, 2}
      PROVE  Each(LAMBDA x : Low(x.word, k), t) \in Seq(Byte)
  <2> DEFINE F == [i \in 1..n |-> Low(s[i].word, k)]
  <2>1. \A i \in 1..n : s[i].word \in [1..4 -> Byte]
    BY <1>3, <1>4 DEF Num
  <2>2. \A i \in 1..n : Low(s[i].word, k) \in Seq(Byte)
    <3>1. k \in 1..4
      OBVIOUS
    <3> QED BY <2>1, <3>1, LowIs
  <2>3. F \in [1..n -> Seq(Byte)]
    BY <2>2
  <2>4. Each(LAMBDA x : Low(x.word, k), t) = FlattenSeq(F)
    BY <1>1 DEF Each, Joined
  <2> HIDE DEF F, n
  <2> QED BY <1>1, <2>3, <2>4, JoinedBytes
<1>5. CASE row.enc = "DualQtag"
  <2>1. ASSUME t.form = "numbers", ~One(t), s # <<>> PROVE OrZero(s[1], 2) \o OrZero(s[2], 2) \in Seq(Byte)
    <3>1. 1 \in 1..n /\ 2 \in 1..n
      <4>1. s \in Seq(Num)
        BY <2>1 DEF TokenText, Shaped, Items, Num
      <4>2. n # 1 /\ s # <<>>
        BY <2>1 DEF One
      <4> HIDE DEF s
      <4>3. n # 0
        BY <4>1, <4>2
      <4> QED BY <1>1, <4>2, <4>3
    <3>2. s[1] \in Num /\ s[2] \in Num
      BY <1>3, <2>1, <3>1
    <3>3. OrZero(s[1], 2) \in Seq(Byte) /\ OrZero(s[2], 2) \in Seq(Byte)
      BY <3>2, OrZeroIs
    <3> QED BY <3>3, ConcatProperties
  <2>2. t.form = "numbers" => t.items # <<>>
    BY DEF TokenText
  <2> QED BY <1>2, <1>5, <2>1, <2>2 DEF Encoded
<1>6. CASE row.enc = "CharList"
  <2>1. Encoded(t) = {CASE NoText(t)     -> <<>>
                        [] t.form = "numbers" /\ ~One(t) -> Each(LAMBDA x : Low(x.word, 1), t)
                        [] t.form = "hex" -> <<0>>
                        [] OTHER          -> Zeros(n)}
    BY <1>6 DEF Encoded
  <2>2. NoText(t) <=> t.form = "quoted" \/ (t.form = "numbers" /\ One(t))
    BY DEF NoText
  <2> HIDE DEF n
  <2> QED BY <1>2, <1>4, <2>1, <2>2
<1>7. CASE row.enc = "UshortList"
  BY <1>2, <1>4, <1>7 DEF Encoded, If
<1>8. CASE row.enc = "Hexstr"
  <2>1. \A d \in HexOf(t) : Paired(d) \in Seq(Byte)
    BY HexDigits, PairedBytes
  <2> QED BY <1>8, <2>1 DEF Encoded
<1>9. CASE row.enc = "Lenzero"
  BY <1>2, <1>9 DEF Encoded
<1> QED BY <1>5, <1>6, <1>7, <1>8, <1>9

\* A string with its quotes and backslashes read.
LEMMA UnescapeBytes == ASSUME NEW raw \in Seq(Byte) PROVE Unescape(raw) \in Seq(Byte)
<1>1. 32 \in Byte
  BY DEF Byte
<1>2. \A i \in 1..Len(raw) : raw[i] # Backslash => raw[i] \in Byte
  OBVIOUS
<1> QED BY <1>1, <1>2, UnescapeOver

\* Strings are encoded as bytes.
LEMMA StringBytes ==
  ASSUME NEW t, TokenText(t), row.enc \in {"String", "Strzero"}
  PROVE  Encoded(t) \subseteq Seq(Byte)
<1>1. AsBytes(t) \in Seq(Byte)
  <2>1. CASE t.form = "quoted"
    <3>1. t.items \in Seq(Byte)
      BY <2>1 DEF TokenText, Shaped, Items
    <3> QED BY <2>1, <3>1 DEF AsBytes
  <2>2. CASE t.form = "hex"
    <3> DEFINE s == t.items
               c == [i \in DOMAIN s |-> s[i] + IF s[i] < 10 THEN 48 ELSE 87]
    <3>1. s \in Seq(0..15)
      BY <2>2 DEF TokenText, Shaped, Items
    <3>2. Len(s) \in Nat /\ DOMAIN s = 1..Len(s) /\ \A i \in 1..Len(s) : s[i] \in 0..15
      BY <3>1, ElementOfSeq
    <3>3. AsBytes(t) = <<48, 120>> \o c
      BY <2>2 DEF AsBytes, Spelled
    <3> HIDE DEF s
    <3>4. \A i \in 1..Len(s) : s[i] + (IF s[i] < 10 THEN 48 ELSE 87) \in Byte
      <4>1. \A x \in 0..15 : x + (IF x < 10 THEN 48 ELSE 87) \in Byte
        <5> SUFFICES ASSUME NEW x \in 0..15 PROVE x + (IF x < 10 THEN 48 ELSE 87) \in Byte
          OBVIOUS
        <5>1. CASE x < 10
          BY <5>1 DEF Byte
        <5>2. CASE ~(x < 10)
          BY <5>2 DEF Byte
        <5> QED BY <5>1, <5>2
      <4> QED BY <3>2, <4>1
    <3>5. c \in [1..Len(s) -> Byte]
      BY <3>2, <3>4
    <3>6. c \in Seq(Byte)
      BY <3>2, <3>5, FixedSeq
    <3> HIDE DEF c
    <3>7. <<48, 120>> \in Seq(Byte)
      <4>1. 48 \in Byte /\ 120 \in Byte
        BY DEF Byte
      <4> QED BY <4>1
    <3> QED BY <3>3, <3>6, <3>7, ConcatProperties
  <2>3. CASE t.form \notin {"quoted", "hex"}
    <3>1. <<>> \in Seq(Byte)
      OBVIOUS
    <3> QED BY <2>3, <3>1 DEF AsBytes
  <2> QED BY <2>1, <2>2, <2>3
<1>2. Append(AsBytes(t), 0) \in Seq(Byte)
  <2>1. 0 \in Byte
    BY DEF Byte
  <2> QED BY <1>1, <2>1
<1>3. CASE row.enc = "String"
  BY <1>1, <1>3 DEF Encoded, If
<1>4. CASE row.enc = "Strzero"
  BY <1>2, <1>4 DEF Encoded, If
<1> QED BY <1>3, <1>4

\* Whatever a text says, what is made of it are bytes.
LEMMA EncodedBytes ==
  ASSUME row \in Limits, NEW t, TokenText(t)
  PROVE  Encoded(t) \subseteq Seq(Byte)
<1>1. row.enc \in Encs
  BY ValuesAssumption
<1>2. CASE row.enc \in {"Uint", "Uint24", "Ushort", "Uchar"}
  BY <1>2, NumberBytes
<1>3. CASE row.enc \in {"Ip", "IpList", "Ip6", "Ip6List", "IpIp6", "CharIpIp6"}
  BY <1>3, AddressBytes
<1>4. CASE row.enc \in {"Ip6PrefixList", "IpIp6Port", "Ether", "Ethermask"}
  BY <1>4, SlashBytes
<1>5. CASE row.enc \in {"DualQtag", "CharList", "UshortList", "Hexstr", "Lenzero"}
  BY <1>5, ListBytes
<1>6. CASE row.enc \in {"String", "Strzero"}
  BY <1>6, StringBytes
<1> QED BY <1>1, <1>2, <1>3, <1>4, <1>5, <1>6 DEF Encs

\* The tokens of a text are texts themselves.
LEMMA TokenTexts ==
  ASSUME NEW text1, text1 = Text(text1.form, text1.items), Shaped(text1), NEW t \in Token(text1)
  PROVE  TokenText(t) /\ t = Text(t.form, t.items)
<1> DEFINE s == text1.items
<1>1. text1.form \in Forms
  BY DEF Shaped
<1>2. CASE text1.form = "quoted"
  <2>1. s \in Seq(Byte)
    BY <1>2 DEF Shaped, Items
  <2>2. Unescape(s) \in Seq(Byte)
    BY <2>1, UnescapeBytes
  <2>3. t = Text("quoted", Unescape(s))
    BY <1>2 DEF Token
  <2>4. t.form = "quoted" /\ t.items = Unescape(s)
    BY <2>3 DEF Text
  <2> QED BY <2>2, <2>3, <2>4 DEF TokenText, Shaped, Items, Forms
<1>3. CASE text1.form # "quoted"
  <2>1. t = text1 /\ text1.form \notin {"dotted", "missing"}
    BY <1>1, <1>3 DEF Token, Forms
  <2>2. s # <<>>
    <3>1. \/ Len(s) \in 1..128
          \/ Len(s) \in 1..16
          \/ Len(s) = 1
          \/ Len(s) \in 2..15
          \/ s # <<>>
      BY <1>1, <1>3 DEF Token
    <3> HIDE DEF s
    <3>2. ASSUME s = <<>> PROVE FALSE
      <4>1. Len(s) = 0
        BY <3>2
      <4> QED BY <3>1, <3>2, <4>1
    <3> QED BY <3>2
  <2> QED BY <2>1, <2>2 DEF TokenText
<1> QED BY <1>2, <1>3

\* A text of a form and items of that form.
LEMMA TextIs ==
  ASSUME NEW form \in Forms, NEW items, form # "dotted" => items \in Items(form)
  PROVE  /\ Text(form, items) = Text(Text(form, items).form, Text(form, items).items)
         /\ Shaped(Text(form, items))
<1>1. Text(form, items).form = form /\ Text(form, items).items = items
  BY DEF Text
<1> QED BY <1>1 DEF Shaped

\* See TextIs; an address that maps IPv4 is printed in another form.
LEMMA PrintedIs ==
  ASSUME NEW form \in Forms, NEW items, items \in Items(form), NEW t, t = PrintedV6(form, items)
  PROVE  t = Text(t.form, t.items) /\ Shaped(t)
<1>1. t = Text("dotted", items) \/ t = Text(form, items)
  BY DEF PrintedV6
<1>2. "dotted" \in Forms
  BY DEF Forms
<1> QED BY <1>1, <1>2, TextIs

\* Numbers, of as many bytes as they have.
LEMMA NumbersText ==
  ASSUME bytes \in Seq(Byte), NEW n \in {1, 2, 4}, NEW t, t = Numbers(n)
  PROVE  t = Text(t.form, t.items) /\ Shaped(t)
<1> DEFINE k == Len(bytes) \div n
           s == [i \in 1..k |-> Number(Chunks(n)[i])]
<1>1. n \in Sizes /\ n \in 1..4
  BY DEF Sizes
<1>2. /\ Chunks(n) \in Seq(Seq(Byte)) /\ Len(Chunks(n)) = k
      /\ \A i \in 1..k : Chunks(n)[i] \in Seq(Byte) /\ Len(Chunks(n)[i]) = n
  BY <1>1, ChunksAre
<1>3. k \in Nat /\ DOMAIN Chunks(n) = 1..k
  <2> HIDE DEF k
  <2> QED BY <1>2
<1> HIDE DEF k
<1>4. \A i \in 1..k : Number(Chunks(n)[i]) \in Num
  BY <1>1, <1>2, NumberIs
<1>5. s \in Seq(Num)
  <2>1. s \in [1..k -> Num]
    BY <1>4
  <2> QED BY <1>3, <2>1, FixedSeq
<1>6. t = Text("numbers", s)
  BY <1>3 DEF Numbers
<1>7. s \in Items("numbers") /\ "numbers" \in Forms
  BY <1>5 DEF Items, Forms, Num
<1> HIDE DEF s
<1> QED BY <1>6, <1>7, TextIs

\* One number, of some bytes.
LEMMA NumberText ==
  ASSUME NEW b \in Seq(Byte), Len(b) \in 1..4, NEW t, t = Text("numbers", <<Number(b)>>)
  PROVE  t = Text(t.form, t.items) /\ Shaped(t)
<1> DEFINE x == Number(b)
<1>1. x \in Num
  BY NumberIs
<1> HIDE DEF x
<1>2. <<x>> \in Seq(Num)
  BY <1>1
<1>3. <<x>> \in Items("numbers") /\ "numbers" \in Forms
  BY <1>2 DEF Items, Forms, Num
<1> QED BY <1>3, TextIs DEF x

\* Numbers are listed as text.
LEMMA NumberTexts ==
  ASSUME bytes \in Seq(Byte), NEW t \in Listed,
         row.enc \in {"Uint", "Uint24", "Ushort", "Uchar", "DualQtag", "CharList", "UshortList"}
  PROVE  t = Text(t.form, t.items) /\ Shaped(t)
<1>1. CASE row.enc = "Uint24"
  <2>1. Len(bytes) >= 3 /\ t = Text("numbers", <<Number(SubSeq(bytes, 1, 3))>>)
    BY <1>1 DEF Listed
  <2>2. SubSeq(bytes, 1, 3) \in Seq(Byte) /\ Len(SubSeq(bytes, 1, 3)) = 3
    <3>1. 3 \in Nat /\ 3 <= Len(bytes)
      BY <2>1
    <3> QED BY <3>1, FirstOf
  <2> DEFINE b == SubSeq(bytes, 1, 3)
  <2>3. b \in Seq(Byte) /\ Len(b) \in 1..4 /\ t = Text("numbers", <<Number(b)>>)
    BY <2>1, <2>2
  <2> HIDE DEF b
  <2> QED BY <2>3, NumberText
<1>2. CASE row.enc = "Uchar"
  <2> DEFINE b == IF bytes = <<>> THEN <<0>> ELSE <<bytes[1]>>
  <2>1. t = Text("numbers", <<Number(b)>>)
    BY <1>2 DEF Listed
  <2>2. b \in Seq(Byte) /\ Len(b) = 1
    <3>1. 0 \in Byte
      BY DEF Byte
    <3>2. CASE bytes = <<>>
      BY <3>1, <3>2
    <3>3. CASE bytes # <<>>
      <4>1. bytes[1] \in Byte
        BY <3>3
      <4> QED BY <3>3, <4>1
    <3> QED BY <3>2, <3>3
  <2> HIDE DEF b
  <2> QED BY <2>1, <2>2, NumberText
<1>3. CASE row.enc \notin {"Uint24", "Uchar"}
  <2>1. t = Numbers(1) \/ t = Numbers(2) \/ t = Numbers(4)
    BY <1>3 DEF Listed, Sized
  <2> QED BY <2>1, NumbersText
<1> QED BY <1>1, <1>2, <1>3

\* Bytes are natural numbers.
LEMMA ByteAddress == ASSUME NEW a \in [1..4 -> Byte] PROVE a \in [1..4 -> Nat]
<1>1. \A i \in 1..4 : a[i] \in Nat
  BY DEF Byte
<1> QED BY <1>1

\* Four bytes are an address of IPv4, sixteen one of IPv6.
LEMMA AddressItems ==
  ASSUME NEW s
  PROVE  /\ s \in Seq([1..4 -> Byte]) => s \in Items("ip4")
         /\ s \in Seq([1..16 -> Byte]) => s \in Items("ip6")
<1>1. ASSUME s \in Seq([1..4 -> Byte]) PROVE s \in Seq([1..4 -> Nat])
  <2>1. Len(s) \in Nat /\ \A i \in 1..Len(s) : s[i] \in [1..4 -> Byte]
    BY <1>1, ElementOfSeq
  <2>2. \A x \in [1..4 -> Byte] : x \in [1..4 -> Nat]
    BY ByteAddress
  <2>3. s = [i \in 1..Len(s) |-> s[i]]
    BY <1>1
  <2>4. s \in [1..Len(s) -> [1..4 -> Nat]]
    BY <2>1, <2>2, <2>3
  <2> QED BY <2>1, <2>4, FixedSeq
<1> QED BY <1>1 DEF Items

\* One address.
LEMMA AddressItem ==
  ASSUME NEW a \in Seq(Byte), NEW n \in {4, 16}, Len(a) = n
  PROVE  /\ n = 4  => <<a>> \in Items("ip4")
         /\ n = 16 => <<a>> \in Items("ip6")
<1>1. a \in [1..n -> Byte]
  BY LenProperties
<1>2. <<a>> \in Seq([1..n -> Byte])
  BY <1>1
<1> QED BY <1>2, AddressItems

\* Parts of four or sixteen bytes.
LEMMA ChunkItems ==
  ASSUME bytes \in Seq(Byte)
  PROVE  Chunks(4) \in Items("ip4") /\ Chunks(16) \in Items("ip6")
<1>1. ASSUME NEW n \in {4, 16} PROVE Chunks(n) \in Seq([1..n -> Byte])
  <2> DEFINE c == Chunks(n)
  <2>1. n \in Sizes
    BY DEF Sizes
  <2>2. c \in Seq(Seq(Byte)) /\ \A i \in 1..Len(c) : c[i] \in [1..n -> Byte]
    BY <2>1, ChunksAre
  <2> HIDE DEF c
  <2>3. Len(c) \in Nat /\ c = [i \in 1..Len(c) |-> c[i]]
    BY <2>2
  <2>4. c \in [1..Len(c) -> [1..n -> Byte]]
    BY <2>2, <2>3
  <2>5. c \in Seq([1..n -> Byte])
    BY <2>3, <2>4, FixedSeq
  <2> QED BY <2>5 DEF c
<1> QED BY <1>1, AddressItems

\* Addresses are listed as text.
LEMMA AddressTexts ==
  ASSUME bytes \in Seq(Byte), NEW t \in Listed, Len(bytes) \in Lengths,
         row.enc \in {"Ip", "IpList", "Ip6", "Ip6List", "IpIp6", "CharIpIp6"}
  PROVE  t = Text(t.form, t.items) /\ Shaped(t)
<1>1. "ip4" \in Forms /\ "ip6" \in Forms
  BY DEF Forms
<1>2. CASE row.enc # "CharIpIp6"
  <2>1. t = Text("ip4", Chunks(4)) \/ t = PrintedV6("ip6", Chunks(16))
    BY <1>2 DEF Listed, Sized
  <2>2. Chunks(4) \in Items("ip4") /\ Chunks(16) \in Items("ip6")
    BY ChunkItems
  <2> QED BY <1>1, <2>1, <2>2, TextIs, PrintedIs
<1>3. CASE row.enc = "CharIpIp6"
  <2> DEFINE a == Tail(bytes)
  <2>1. Len(bytes) \in {5, 17}
    BY <1>3 DEF Lengths
  <2>2. a \in Seq(Byte) /\ Len(a) = Len(bytes) - 1
    BY <2>1
  <2>3. t = IF Len(bytes) = 5 THEN Text("ip4", <<a>>) ELSE PrintedV6("ip6", <<a>>)
    BY <1>3 DEF Listed
  <2> HIDE DEF a
  <2>4. Len(bytes) = 5 => <<a>> \in Items("ip4")
    <3>1. ASSUME Len(bytes) = 5 PROVE Len(a) = 4
      BY <2>2, <3>1
    <3> QED BY <2>2, <3>1, AddressItem
  <2>5. Len(bytes) # 5 => <<a>> \in Items("ip6")
    <3>1. ASSUME Len(bytes) # 5 PROVE Len(a) = 16
      <4>1. Len(bytes) = 17
        BY <2>1, <3>1
      <4>2. Len(a) = 17 - 1
        BY <2>2, <4>1
      <4> QED BY <4>2
    <3> QED BY <2>2, <3>1, AddressItem
  <2> QED BY <1>1, <2>3, <2>4, <2>5, TextIs, PrintedIs
<1> QED BY <1>2, <1>3

\* An address and a number are an item of the form they are printed in.
LEMMA SlashIs ==
  ASSUME NEW s \in Seq(([1..4 -> Nat] \cup [1..16 -> Byte]) \X Nat)
  PROVE  s \in Items("slash")
  BY DEF Items

\* Prefixes and ports are listed as text.
LEMMA SlashTexts ==
  ASSUME bytes \in Seq(Byte), NEW t \in Listed, Len(bytes) \in Lengths,
         row.enc \in {"Ip6PrefixList", "IpIp6Port"}
  PROVE  t = Text(t.form, t.items) /\ Shaped(t)
<1> DEFINE A == [1..4 -> Nat] \cup [1..16 -> Byte]
<1>1. "slash" \in Forms
  BY DEF Forms
<1>2. CASE row.enc = "Ip6PrefixList"
  <2> DEFINE k == Len(bytes) \div 17
             s == [i \in 1..k |-> <<Front(Chunks(17)[i]), Last(Chunks(17)[i])>>]
  <2>1. /\ Chunks(17) \in Seq(Seq(Byte)) /\ Len(Chunks(17)) = k
        /\ \A i \in 1..k : Chunks(17)[i] \in Seq(Byte) /\ Len(Chunks(17)[i]) = 17
    BY ChunksAre DEF Sizes
  <2>2. k \in Nat /\ DOMAIN Chunks(17) = 1..k
    <3> HIDE DEF k
    <3> QED BY <2>1
  <2> HIDE DEF k
  <2>3. ASSUME NEW c \in Seq(Byte), Len(c) = 17
        PROVE  <<Front(c), Last(c)>> \in A \X Nat
    <3>1. SubSeq(c, 1, 16) \in Seq(Byte) /\ Len(SubSeq(c, 1, 16)) = 16
      <4>1. 16 \in Nat /\ 16 <= Len(c)
        BY <2>3
      <4> QED BY <4>1, FirstOf
    <3>2. Front(c) = SubSeq(c, 1, 16) /\ Last(c) = c[17]
      BY <2>3 DEF Front, Last
    <3>3. c[17] \in Nat
      <4>1. 17 \in 1..Len(c)
        BY <2>3
      <4>2. c[17] \in Byte
        BY <4>1, ElementOfSeq
      <4>3. \A b \in Byte : b \in Nat
        BY DEF Byte
      <4> QED BY <4>2, <4>3
    <3>4. SubSeq(c, 1, 16) \in [1..16 -> Byte]
      BY <3>1, LenProperties
    <3> QED BY <3>2, <3>3, <3>4
  <2> HIDE DEF A
  <2>4. s \in Seq(A \X Nat)
    <3>1. s \in [1..k -> A \X Nat]
      BY <2>1, <2>3
    <3> QED BY <2>2, <3>1, FixedSeq
  <2>5. s \in Items("slash")
    BY <2>4, SlashIs DEF A
  <2>6. t = PrintedV6("slash", s)
    BY <1>2, <2>2 DEF Listed
  <2> HIDE DEF s
  <2> QED BY <1>1, <2>5, <2>6, PrintedIs
<1>3. CASE row.enc = "IpIp6Port"
  <2> DEFINE n == Len(bytes) - 2
             x == Last2(n)
  <2>1. n \in {4, 16} /\ Len(bytes) = n + 2
    <3>1. Len(bytes) \in {6, 18}
      BY <1>3 DEF Lengths
    <3> QED BY <3>1
  <2>2. t = PrintedV6("slash", <<x>>)
    BY <1>3 DEF Listed
  <2> HIDE DEF n
  <2>3. x \in A \X Nat
    <3> DEFINE a == SubSeq(bytes, 1, n)
               p == bytes[n + 1]
               q == bytes[n + 2]
    <3>1. a \in Seq(Byte) /\ Len(a) = n
      <4>1. n \in Nat /\ n <= Len(bytes)
        BY <2>1
      <4> QED BY <4>1, FirstOf
    <3>2. p \in Byte /\ q \in Byte
      <4>1. n + 1 \in 1..Len(bytes) /\ n + 2 \in 1..Len(bytes)
        BY <2>1
      <4> QED BY <4>1, ElementOfSeq
    <3>3. x = <<a, BE(p, q)>>
      BY DEF Last2
    <3> HIDE DEF a, p, q
    <3>4. BE(p, q) \in Nat
      BY <3>2 DEF BE, Byte
    <3>5. a \in [1..n -> Byte]
      BY <3>1, LenProperties
    <3>6. a \in A
      <4>1. CASE n = 4
        <5>1. a \in [1..4 -> Nat]
          <6>1. a \in [1..4 -> Byte]
            BY <3>5, <4>1
          <6> QED BY <6>1, ByteAddress
        <5> QED BY <5>1
      <4>2. CASE n = 16
        BY <3>5, <4>2
      <4> QED BY <2>1, <4>1, <4>2
    <3> HIDE DEF A, x
    <3> QED BY <3>3, <3>4, <3>6
  <2> HIDE DEF A, x
  <2>4. <<x>> \in Seq(A \X Nat)
    BY <2>3
  <2>5. <<x>> \in Items("slash")
    BY <2>4, SlashIs DEF A
  <2> QED BY <1>1, <2>2, <2>5, PrintedIs
<1> QED BY <1>2, <1>3

\* Hardware addresses are listed as text.
LEMMA MacTexts ==
  ASSUME bytes \in Seq(Byte), NEW t \in Listed, row.enc \in {"Ether", "Ethermask"}
  PROVE  t = Text(t.form, t.items) /\ Shaped(t)
<1>1. "mac" \in Forms /\ "masked" \in Forms
  BY DEF Forms
<1>2. CASE row.enc = "Ether"
  <2>1. Len(bytes) = 6 /\ t = Text("mac", <<bytes>>)
    BY <1>2 DEF Listed, Sized
  <2>2. bytes \in Macs
    <3>1. bytes \in [1..Len(bytes) -> Byte]
      BY LenProperties
    <3> QED BY <2>1, <3>1 DEF Macs
  <2>3. <<bytes>> \in [1..1 -> Macs]
    BY <2>2
  <2>4. <<bytes>> \in Items("mac")
    BY <2>3 DEF Items, Macs
  <2> QED BY <1>1, <2>1, <2>4, TextIs
<1>3. CASE row.enc = "Ethermask"
  <2> DEFINE c == Chunks(6)
  <2>1. Len(bytes) = 12 /\ t = Text("masked", <<c>>)
    BY <1>3 DEF Listed, Sized
  <2>2. c \in Seq(Seq(Byte)) /\ Len(c) = Len(bytes) \div 6 /\ \A i \in 1..Len(bytes) \div 6 : c[i] \in [1..6 -> Byte]
    BY ChunksAre DEF Sizes
  <2> HIDE DEF c
  <2>3. Len(c) = 2 /\ \A i \in 1..2 : c[i] \in Macs
    BY <2>1, <2>2 DEF Macs
  <2>4. c \in Pairs
    <3>1. c = [i \in 1..2 |-> c[i]]
      <4>1. c = [i \in 1..Len(c) |-> c[i]]
        BY <2>2
      <4> QED BY <2>3, <4>1
    <3> QED BY <2>3, <3>1 DEF Pairs
  <2>5. <<c>> \in [1..1 -> Pairs]
    BY <2>4
  <2>6. <<c>> \in Items("masked")
    BY <2>5 DEF Items, Macs, Pairs
  <2> QED BY <1>1, <2>1, <2>6, TextIs
<1> QED BY <1>2, <1>3

\* Strings are listed as text.
LEMMA StringTexts ==
  ASSUME bytes \in Seq(Byte), NEW t \in Listed, row.enc \in {"String", "Strzero", "Hexstr", "Lenzero"}
  PROVE  t = Text(t.form, t.items) /\ Shaped(t)
<1>1. "quoted" \in Forms /\ "hex" \in Forms
  BY DEF Forms
<1>2. CASE row.enc \in {"String", "Strzero"}
  <2> DEFINE I == {i \in 1..Len(bytes) : bytes[i] = 0}
             n == SelectInSeq(bytes, LAMBDA b : b = 0)
  <2>1. n = IF I # {} THEN Min(I) ELSE 0
    BY DEF SelectInSeq
  <2>2. n \in 0..Len(bytes)
    <3>1. CASE I = {}
      BY <2>1, <3>1
    <3>2. CASE I # {}
      <4>1. I \subseteq Nat
        OBVIOUS
      <4> HIDE DEF I
      <4>2. \E m \in I : \A y \in I : m <= y
        BY <3>2, <4>1, LeastNat
      <4>3. Min(I) \in I
        BY <4>2 DEF Min
      <4> QED BY <2>1, <3>2, <4>3 DEF I
    <3> QED BY <3>1, <3>2
  <2>3. UpToNul = IF n = 0 THEN bytes ELSE SubSeq(bytes, 1, n - 1)
    BY DEF UpToNul
  <2> HIDE DEF n
  <2>4. UpToNul \in Seq(Byte)
    <3>1. CASE n = 0
      BY <2>3, <3>1
    <3>2. CASE n # 0
      <4>1. n - 1 \in Nat /\ n - 1 <= Len(bytes)
        BY <2>2, <3>2
      <4>2. SubSeq(bytes, 1, n - 1) \in Seq(Byte)
        BY <4>1, FirstOf
      <4> QED BY <2>3, <3>2, <4>2
    <3> QED BY <3>1, <3>2
  <2>5. UpToNul \in Items("quoted")
    BY <2>4 DEF Items
  <2>6. t = Text("quoted", UpToNul)
    BY <1>2 DEF Listed
  <2> QED BY <1>1, <2>5, <2>6, TextIs
<1>3. CASE row.enc = "Hexstr"
  <2> DEFINE n == 2 * Len(bytes)
  <2>1. n \in Nat /\ \A i \in 1..n : (i + 1) \div 2 \in 1..Len(bytes)
    <3> DEFINE l == Len(bytes)
    <3>1. l \in Nat
      OBVIOUS
    <3> HIDE DEF l
    <3>2. 2 * l \in Nat /\ \A i \in 1..2 * l : (i + 1) \div 2 \in 1..l
      BY <3>1
    <3> QED BY <3>2 DEF l
  <2>2. \A b \in Byte : b \div 16 \in 0..15 /\ b % 16 \in 0..15
    BY DEF Byte
  <2>3. \A i \in 1..n : bytes[(i + 1) \div 2] \in Byte
    BY <2>1, ElementOfSeq
  <2>4. Digits \in [1..n -> 0..15]
    <3>1. Digits = [i \in 1..n |-> IF i % 2 = 1 THEN bytes[(i + 1) \div 2] \div 16 ELSE bytes[(i + 1) \div 2] % 16]
      BY DEF Digits
    <3> HIDE DEF n
    <3> QED BY <2>2, <2>3, <3>1
  <2>5. Digits \in Seq(0..15)
    <3> HIDE DEF n
    <3> QED BY <2>1, <2>4, FixedSeq
  <2>6. Digits \in Items("hex") /\ t = Text("hex", Digits)
    BY <1>3, <2>5 DEF Items, Listed
  <2> QED BY <1>1, <2>6, TextIs
<1>4. CASE row.enc = "Lenzero"
  <2>1. <<0, 0>> \in Seq(0..15)
    OBVIOUS
  <2>2. <<0, 0>> \in Items("hex") /\ t = Text("hex", <<0, 0>>)
    BY <1>4, <2>1 DEF Items, Listed
  <2> QED BY <1>1, <2>2, TextIs
<1> QED BY <1>2, <1>3, <1>4

\* Whatever bytes say, what is listed is text.
LEMMA ListedTexts ==
  ASSUME row \in Limits, bytes \in Seq(Byte), NEW t \in Listed, Len(bytes) \in Lengths
  PROVE  t = Text(t.form, t.items) /\ Shaped(t)
<1>1. row.enc \in Encs
  BY ValuesAssumption
<1>2. CASE row.enc \in {"Uint", "Uint24", "Ushort", "Uchar", "DualQtag", "CharList", "UshortList"}
  BY <1>2, NumberTexts
<1>3. CASE row.enc \in {"Ip", "IpList", "Ip6", "Ip6List", "IpIp6", "CharIpIp6"}
  BY <1>3, AddressTexts
<1>4. CASE row.enc \in {"Ip6PrefixList", "IpIp6Port"}
  BY <1>4, SlashTexts
<1>5. CASE row.enc \in {"Ether", "Ethermask"}
  BY <1>5, MacTexts
<1>6. CASE row.enc \in {"String", "Strzero", "Hexstr", "Lenzero"}
  BY <1>6, StringTexts
<1> QED BY <1>1, <1>2, <1>3, <1>4, <1>5, <1>6 DEF Encs

-----------------------------------------------------------------------------
(* What a text says is what the listing says.                              *)

\* The text and the bytes at hand; the bytes, once encoded, are an encoding of the text.
Base == /\ row \in Limits /\ bytes \in Seq(Byte)
        /\ text = Text(text.form, text.items) /\ Shaped(text)
        /\ FromText => bytes \in Encodings

\* It holds in the beginning.
LEMMA BaseInit == Init => Base
<1> SUFFICES ASSUME Init PROVE Base
  OBVIOUS
<1>1. row \in Limits /\ row.enc \in Encs
  BY ValuesAssumption DEF Init
<1>2. CASE text \in Texts[row.enc] /\ bytes = <<>> /\ stage = "text"
  <2>1. text = Text(text.form, text.items) /\ Shaped(text)
    BY <1>1, <1>2, ValuesAssumption DEF Text
  <2>2. bytes \in Seq(Byte) /\ ~FromText
    BY <1>2 DEF FromText
  <2> QED BY <1>1, <2>1, <2>2 DEF Base
<1>3. CASE text = Text("missing", <<>>) /\ bytes \in Files[row.enc]
  <2>1. bytes \in Seq(Byte)
    BY <1>1, <1>3, ValuesAssumption
  <2>2. "missing" \in Forms /\ <<>> \in Items("missing")
    BY DEF Forms, Items
  <2>3. text = Text(text.form, text.items) /\ Shaped(text)
    BY <1>3, <2>2, TextIs
  <2>4. text.form = "missing"
    BY <1>3 DEF Text
  <2> QED BY <1>1, <2>1, <2>3, <2>4 DEF Base, FromText
<1> QED BY <1>2, <1>3 DEF Init

\* Every step keeps it.
LEMMA BaseKept == Base /\ [Next]_vars => Base'
<1> SUFFICES ASSUME Base, [Next]_vars PROVE Base'
  OBVIOUS
<1>1. CASE Encode
  <2>1. bytes' \in Encodings /\ UNCHANGED <<row, text>>
    BY <1>1 DEF Encode
  <2>2. PICK t \in Token(text) : bytes' \in Encoded(t)
    BY <2>1 DEF Encodings
  <2>3. TokenText(t)
    BY TokenTexts DEF Base
  <2>4. bytes' \in Seq(Byte)
    BY <2>2, <2>3, EncodedBytes DEF Base
  <2>5. bytes' \in Encodings'
    <3>1. Encodings' = Encodings
      BY <2>1 DEF Encodings, Encoded, InRange, InSize, Unlimited
    <3> QED BY <2>1, <3>1
  <2>6. (row \in Limits)' /\ (text = Text(text.form, text.items) /\ Shaped(text))'
    BY <2>1 DEF Base
  <2> QED BY <2>4, <2>5, <2>6 DEF Base
<1>2. CASE List
  <2>1. text' \in Listed /\ Len(bytes) \in Lengths /\ stage' = "text" /\ UNCHANGED <<row, bytes>>
    BY <1>2 DEF List
  <2>2. (text = Text(text.form, text.items) /\ Shaped(text))'
    BY <2>1, ListedTexts DEF Base
  <2>3. ~FromText'
    BY <2>1 DEF FromText
  <2> QED BY <2>1, <2>2, <2>3 DEF Base
<1>3. CASE Stop \/ LeaveOut
  <2>1. UNCHANGED <<row, text, bytes>> /\ ~FromText'
    BY <1>3 DEF Stop, LeaveOut, FromText
  <2> QED BY <2>1 DEF Base
<1>4. CASE UNCHANGED vars
  <2>1. UNCHANGED <<row, text, bytes, stage>>
    BY <1>4 DEF vars
  <2>2. Encodings' = Encodings
    BY <2>1 DEF Encodings, Encoded, InRange, InSize, Unlimited
  <2> QED BY <2>1, <2>2 DEF Base, FromText
<1> QED BY <1>1, <1>2, <1>3, <1>4 DEF Next, EncodeStops, ListStops

\* What is at hand are a text and bytes, whatever the table, the texts and the files.
LEMMA BaseAlways == Spec => []Base
<1> QED BY BaseInit, BaseKept, PTL DEF Spec

\* encode_value and decode_value: a value that the row's bytes can hold is neither cut
\* to their width nor lost on the way to the file and back.
THEOREM ValueIsListed == Spec => []ListsWhatWasSaid
<1>1. Base => ListsWhatWasSaid
  <2> SUFFICES ASSUME Base, FromText, Sayable PROVE Len(bytes) \in Lengths /\ Listed = {text}
    BY DEF ListsWhatWasSaid
  <2>1. Said
    BY DEF Base, Said
  <2> QED BY <2>1, SaidIsListed DEF ListedBack
<1> QED BY <1>1, BaseAlways, PTL

-----------------------------------------------------------------------------
(* What listing bytes and reading the listing give back.                   *)

First  == IF bytes = <<>> THEN <<0>> ELSE <<bytes[1]>>
Parts(n) == FlattenSeq(Chunks(n))
Count(n) == Len(bytes) \div n

\* Whether there are such bytes.
Returns ==
  CASE row.enc = "Uint"          -> Len(bytes) = 4 /\ InRange(bytes)
    [] row.enc = "Uint24"        -> Len(bytes) >= 3
    [] row.enc = "Ushort"        -> Len(bytes) = 2 /\ InRange(<<0, 0>> \o bytes)
    [] row.enc = "Uchar"         -> InRange(<<0, 0, 0>> \o First)
    [] row.enc = "Ip"            -> Len(bytes) = 4
    [] row.enc = "IpList"        -> Count(4) >= 1
    [] row.enc = "Ip6"           -> V6Bytes(bytes)
    [] row.enc = "Ip6List"       -> Count(16) \in 1..16 /\ \A i \in 1..Count(16) : V6Bytes(Chunks(16)[i])
    [] row.enc = "Ip6PrefixList" -> Count(17) \in 1..15 /\ \A i \in 1..Count(17) : V6Bytes(Front(Chunks(17)[i]))
    [] row.enc = "IpIp6"         -> Len(bytes) = 4 \/ V6Bytes(bytes)
    [] row.enc = "CharIpIp6"     -> Len(bytes) = 5 \/ (Len(bytes) = 17 /\ V6Bytes(Tail(bytes)))
    [] row.enc = "IpIp6Port"     -> Len(bytes) = 6 \/ (Len(bytes) = 18 /\ V6Bytes(SubSeq(bytes, 1, 16)))
    [] row.enc = "Lenzero"       -> TRUE
    [] row.enc = "Ether"         -> Len(bytes) = 6
    [] row.enc = "DualQtag"      -> Len(bytes) = 4
    [] row.enc = "CharList"      -> Len(bytes) \in 1..128
    [] row.enc = "Ethermask"     -> Len(bytes) = 12
    [] row.enc \in {"String", "Strzero"} -> Scans(UpToNul) /\ InSize(Len(Unescape(UpToNul)))
    [] row.enc = "Hexstr"        -> bytes # <<>> /\ InSize(Len(bytes))
    [] row.enc = "UshortList"    -> \/ Count(2) = 1 /\ InSize(0)
                                    \/ Count(2) \in 2..128 /\ InSize(Count(2))

\* And which ones.
Given ==
  CASE row.enc = "Uint24"        -> SubSeq(bytes, 1, 3)
    [] row.enc = "Uchar"         -> First
    [] row.enc = "IpList"        -> Parts(4)
    [] row.enc = "Ip6List"       -> Parts(16)
    [] row.enc = "Ip6PrefixList" -> Parts(17)
    [] row.enc = "CharIpIp6"     -> <<IF Len(bytes) = 5 THEN 1 ELSE 2>> \o Tail(bytes)
    [] row.enc = "Lenzero"       -> <<>>
    [] row.enc = "CharList"      -> IF Len(bytes) = 1 THEN <<>> ELSE bytes
    [] row.enc = "String"        -> Unescape(UpToNul)
    [] row.enc = "Strzero"       -> Append(Unescape(UpToNul), 0)
    [] row.enc = "UshortList"    -> IF Count(2) = 1 THEN <<>> ELSE Parts(2)
    [] OTHER                     -> bytes

\* Bytes that no listing changes any more.
Unquoted(b) == \A i \in DOMAIN b : b[i] \notin {0, Tab, Newline, Backslash}
Settled(b) ==
  CASE row.enc = "Uint24"        -> Len(b) = 3
    [] row.enc = "Uchar"         -> Len(b) = 1
    [] row.enc = "IpList"        -> Len(b) % 4 = 0
    [] row.enc = "Ip6List"       -> Len(b) % 16 = 0
    [] row.enc = "Ip6PrefixList" -> Len(b) % 17 = 0
    [] row.enc = "CharIpIp6"     -> b # <<>> /\ b[1] = (IF Len(b) = 5 THEN 1 ELSE 2)
    [] row.enc = "Lenzero"       -> b = <<>>
    [] row.enc = "CharList"      -> Len(b) # 1
    [] row.enc = "String"        -> Unquoted(b)
    [] row.enc = "Strzero"       -> b # <<>> /\ Last(b) = 0 /\ Unquoted(Front(b))
    [] row.enc = "UshortList"    -> Len(b) % 2 = 0 /\ Len(b) # 2
    [] OTHER                     -> TRUE

\* It is these and none else.
ReadBack == Reread = IF Returns THEN {Given} ELSE {}

\* A listing that is its own token.
LEMMA ReadOne ==
  ASSUME NEW l, Len(bytes) \in Lengths, Listed = {l}, Token(l) = {l}
  PROVE  Reread = Encoded(l)
  BY DEF Reread

\* A listing that is no token, or none at all.
LEMMA ReadNone ==
  ASSUME Len(bytes) \in Lengths => \A l \in Listed : Token(l) = {}
  PROVE  Reread = {}
  BY DEF Reread

\* Most encodings list values of any length.
LEMMA AnyLength ==
  ASSUME row.enc \notin {"IpIp6", "CharIpIp6", "IpIp6Port"}
  PROVE  Len(bytes) \in Lengths
  BY DEF Lengths

\* All the bytes of a word.
LEMMA LowAll == ASSUME NEW w \in [1..4 -> Byte] PROVE Low(w, 4) = w
<1> DEFINE l == Low(w, 4)
<1>1. l \in Seq(Byte) /\ Len(l) = 4 /\ \A i \in 1..4 : l[i] = w[4 - 4 + i]
  BY LowIs
<1>2. w \in Seq(Byte) /\ Len(w) = 4
  <2>1. 4 \in Nat
    OBVIOUS
  <2> QED BY <2>1, FixedBytes
<1> HIDE DEF l
<1>3. \A i \in 1..4 : l[i] = w[i]
  BY <1>1
<1>4. l = w
  BY <1>1, <1>2, <1>3, SeqEqual
<1> QED BY <1>4 DEF l

\* One number of n bytes as a value.
LEMMA NumberToken ==
  ASSUME NEW b \in Seq(Byte), NEW n \in 1..4, Len(b) = n,
         NEW l, l = Text("numbers", <<Number(b)>>)
  PROVE  /\ Token(l) = {l} /\ NoText(l)
         /\ AsNum(l) \in [1..4 -> Byte] /\ AsNum(l) = [i \in 1..4 - n |-> 0] \o b
         /\ Low(AsNum(l), n) = b
<1> DEFINE x == Number(b)
<1>1. x \in Num /\ Low(x.word, n) = b
  BY NumberIs
<1>2. x.word = [i \in 1..4 - n |-> 0] \o b
  BY DEF Number
<1> HIDE DEF x
<1>3. l.form = "numbers" /\ l.items = <<x>> /\ Len(l.items) = 1 /\ l.items[1] = x
  BY DEF Text, x
<1>4. Token(l) = {l} /\ NoText(l) /\ AsNum(l) = x.word
  BY <1>3 DEF Token, NoText, AsNum, One
<1>5. x.word \in [1..4 -> Byte]
  BY <1>1 DEF Num
<1> QED BY <1>1, <1>2, <1>4, <1>5

\* Zeros in front of a number.
LEMMA ZerosInFront ==
  /\ [i \in 1..4 - 2 |-> 0] = <<0, 0>>
  /\ [i \in 1..4 - 1 |-> 0] = <<0, 0, 0>>
<1>1. 4 - 2 = 2 /\ 4 - 1 = 3
  OBVIOUS
<1>2. [i \in 1..2 |-> 0] = <<0, 0>> /\ [i \in 1..3 |-> 0] = <<0, 0, 0>>
  OBVIOUS
<1> QED BY <1>1, <1>2, Zenon

\* One number is read back, cut to its bytes or not at all.
LEMMA ReadNumber ==
  ASSUME bytes \in Seq(Byte), row.enc \in {"Uint", "Uint24", "Ushort", "Uchar"}
  PROVE  ReadBack
<1>1. Len(bytes) \in Lengths /\ Len(bytes) \in Nat
  BY AnyLength
<1>2. CASE row.enc = "Uint"
  <2>1. CASE Len(bytes) = 4
    <3> DEFINE l == Text("numbers", <<Number(bytes)>>)
    <3>1. Token(l) = {l} /\ AsNum(l) \in [1..4 -> Byte] /\ Low(AsNum(l), 4) = bytes
      BY <2>1, NumberToken
    <3>2. Chunks(4) = <<bytes>>
      BY <2>1, OneChunk DEF Sizes
    <3>3. Listed = {l}
      BY <1>2, <2>1, <3>2 DEF Listed, Sized, Numbers
    <3>4. AsNum(l) = bytes
      BY <3>1, LowAll
    <3> HIDE DEF l
    <3>5. Reread = If(InRange(bytes), bytes)
      BY <1>1, <1>2, <3>1, <3>3, <3>4, ReadOne DEF Encoded
    <3>6. Returns <=> InRange(bytes)
      BY <1>2, <2>1 DEF Returns
    <3>7. Given = bytes
      BY <1>2 DEF Given
    <3> QED BY <3>5, <3>6, <3>7 DEF ReadBack, If
  <2>2. CASE Len(bytes) # 4
    <3>1. Listed = {} /\ ~Returns
      BY <1>2, <2>2 DEF Listed, Sized, Returns
    <3> QED BY <3>1, ReadNone DEF ReadBack
  <2> QED BY <2>1, <2>2
<1>3. CASE row.enc = "Uint24"
  <2>1. CASE Len(bytes) >= 3
    <3> DEFINE b == SubSeq(bytes, 1, 3)
               l == Text("numbers", <<Number(b)>>)
    <3>1. b \in Seq(Byte) /\ Len(b) = 3
      BY <2>1, FirstOf
    <3>2. Listed = {l}
      BY <1>3, <2>1 DEF Listed
    <3>3. Returns /\ Given = b
      BY <1>3, <2>1 DEF Returns, Given
    <3> HIDE DEF b
    <3>4. Token(l) = {l} /\ Low(AsNum(l), 3) = b
      BY <3>1, NumberToken
    <3> HIDE DEF l
    <3>5. Reread = {b}
      BY <1>1, <1>3, <3>2, <3>4, ReadOne DEF Encoded
    <3> QED BY <3>3, <3>5 DEF ReadBack
  <2>2. CASE ~(Len(bytes) >= 3)
    <3>1. Listed = {} /\ ~Returns
      BY <1>3, <2>2 DEF Listed, Returns
    <3> QED BY <3>1, ReadNone DEF ReadBack
  <2> QED BY <2>1, <2>2
<1>4. CASE row.enc = "Ushort"
  <2>1. CASE Len(bytes) = 2
    <3> DEFINE l == Text("numbers", <<Number(bytes)>>)
    <3>1. Token(l) = {l} /\ Low(AsNum(l), 2) = bytes /\ AsNum(l) = [i \in 1..4 - 2 |-> 0] \o bytes
      BY <2>1, NumberToken
    <3>2. Chunks(2) = <<bytes>>
      BY <2>1, OneChunk DEF Sizes
    <3>3. Listed = {l}
      BY <1>4, <2>1, <3>2 DEF Listed, Sized, Numbers
    <3>4. AsNum(l) = <<0, 0>> \o bytes
      BY <3>1, ZerosInFront
    <3> HIDE DEF l
    <3>5. Reread = If(InRange(<<0, 0>> \o bytes), bytes)
      <4>1. Reread = Encoded(l)
        BY <1>1, <3>1, <3>3, ReadOne
      <4>2. Encoded(l) = If(InRange(AsNum(l)), Low(AsNum(l), 2))
        BY <1>4 DEF Encoded
      <4> QED BY <3>1, <3>4, <4>1, <4>2, Zenon
    <3>6. Returns <=> InRange(<<0, 0>> \o bytes)
      BY <1>4, <2>1 DEF Returns
    <3>7. Given = bytes
      BY <1>4 DEF Given
    <3> QED BY <3>5, <3>6, <3>7 DEF ReadBack, If
  <2>2. CASE Len(bytes) # 2
    <3>1. Listed = {} /\ ~Returns
      BY <1>4, <2>2 DEF Listed, Sized, Returns
    <3> QED BY <3>1, ReadNone DEF ReadBack
  <2> QED BY <2>1, <2>2
<1>5. CASE row.enc = "Uchar"
  <2> DEFINE b == First
             l == Text("numbers", <<Number(b)>>)
  <2>1. b \in Seq(Byte) /\ Len(b) = 1
    <3>1. 0 \in Byte
      BY DEF Byte
    <3>2. bytes # <<>> => bytes[1] \in Byte
      OBVIOUS
    <3> QED BY <3>1, <3>2 DEF First
  <2>2. Listed = {l}
    BY <1>5 DEF Listed, First
  <2>3. Given = b /\ (Returns <=> InRange(<<0, 0, 0>> \o b))
    BY <1>5 DEF Given, Returns
  <2> HIDE DEF b
  <2>4. Token(l) = {l} /\ Low(AsNum(l), 1) = b /\ AsNum(l) = [i \in 1..4 - 1 |-> 0] \o b
    BY <2>1, NumberToken
  <2>5. AsNum(l) = <<0, 0, 0>> \o b
    BY <2>4, ZerosInFront
  <2> HIDE DEF l
  <2>6. Reread = If(InRange(<<0, 0, 0>> \o b), b)
    <3>1. Reread = Encoded(l)
      BY <1>1, <2>2, <2>4, ReadOne
    <3>2. Encoded(l) = If(InRange(AsNum(l)), Low(AsNum(l), 1))
      BY <1>5 DEF Encoded
    <3> QED BY <2>4, <2>5, <3>1, <3>2, Zenon
  <2> QED BY <2>3, <2>6 DEF ReadBack, If
<1> QED BY <1>2, <1>3, <1>4, <1>5

\* Numbers of n bytes as a value: there are as many of them as the value has parts,
\* and their low bytes are these parts.
LEMMA NumbersToken ==
  ASSUME bytes \in Seq(Byte), NEW n \in {1, 2}, NEW l, l = Numbers(n)
  PROVE  /\ l.form = "numbers" /\ Len(l.items) = Count(n) /\ Count(n) \in Nat
         /\ Token(l) = (IF Count(n) \in 1..128 THEN {l} ELSE {})
         /\ \A x \in Range(l.items) : Fits(x, n)
         /\ \A i \in 1..Count(n) : /\ Fits(l.items[i], n)
                                  /\ Low(l.items[i].word, n) = Chunks(n)[i]
         /\ Each(LAMBDA x : Low(x.word, n), l) = Parts(n)
<1> DEFINE k == Count(n)
           c == Chunks(n)
           s == [i \in 1..k |-> Number(c[i])]
<1>1. n \in Sizes /\ n \in 1..4
  BY DEF Sizes
<1>2. /\ c \in Seq(Seq(Byte)) /\ Len(c) = k
      /\ \A i \in 1..k : c[i] \in Seq(Byte) /\ Len(c[i]) = n
  BY <1>1, ChunksAre DEF Count
<1>3. k \in Nat /\ DOMAIN c = 1..k
  <2> HIDE DEF k
  <2> QED BY <1>2
<1>4. Numbers(n) = Text("numbers", s)
  BY <1>3 DEF Numbers
<1> HIDE DEF k, c
<1>5. \A i \in 1..k : Number(c[i]) \in Num /\ Fits(Number(c[i]), n) /\ Low(Number(c[i]).word, n) = c[i]
  BY <1>1, <1>2, NumberIs
<1>6. s \in Seq(Num) /\ Len(s) = k /\ DOMAIN s = 1..k
  <2>1. s \in [1..k -> Num]
    BY <1>5
  <2> QED BY <1>3, <2>1, FixedSeq
<1>7. \A i \in 1..k : s[i] = Number(c[i])
  OBVIOUS
<1> HIDE DEF s
<1>8. l.form = "numbers" /\ l.items = s
  BY <1>4 DEF Text
<1>9. Token(l) = IF k \in 1..128 THEN {l} ELSE {}
  BY <1>6, <1>8 DEF Token
<1>10. \A i \in 1..k : Fits(s[i], n) /\ Low(s[i].word, n) = c[i]
  BY <1>5, <1>7
<1>11. \A x \in Range(s) : Fits(x, n)
  BY <1>6, <1>10 DEF Range
<1>12. Each(LAMBDA x : Low(x.word, n), l) = FlattenSeq(c)
  <2>1. Each(LAMBDA x : Low(x.word, n), l) = FlattenSeq([i \in 1..k |-> Low(s[i].word, n)])
    BY <1>6, <1>8 DEF Each, Joined
  <2>2. [i \in 1..k |-> Low(s[i].word, n)] = [i \in 1..k |-> c[i]]
    BY <1>10
  <2>3. [i \in 1..k |-> c[i]] = c
    BY <1>2, <1>3
  <2> QED BY <2>1, <2>2, <2>3, Zenon
<1> QED BY <1>3, <1>6, <1>8, <1>9, <1>10, <1>11, <1>12 DEF k, c, Parts

\* What a number of parts says of the length.
LEMMA CountOf ==
  ASSUME bytes \in Seq(Byte), NEW n \in Sizes
  PROVE  /\ Count(n) \in Nat /\ Len(bytes) \in Nat /\ Len(bytes) % n \in 0..(n - 1)
         /\ Len(bytes) = n * Count(n) + (Len(bytes) % n)
         /\ n * Count(n) \in Nat /\ n \in Nat \ {0}
<1>1. Len(bytes) \in Nat
  OBVIOUS
<1>2. /\ Count(n) \in Nat /\ Len(bytes) % n \in 0..(n - 1)
      /\ Len(bytes) = n * Count(n) + (Len(bytes) % n)
  BY <1>1, Division DEF Count
<1>3. n \in Nat \ {0}
  BY DEF Sizes
<1> QED BY <1>1, <1>2, <1>3, Multiples

\* A list of numbers is read back if it is long enough to be a list; one number
\* becomes no value, or a value of no length.
LEMMA ReadNumbers ==
  ASSUME bytes \in Seq(Byte), row.enc \in {"DualQtag", "CharList", "UshortList"}
  PROVE  ReadBack
<1>1. Len(bytes) \in Lengths
  BY AnyLength
<1>2. CASE row.enc = "DualQtag"
  <2>1. CASE Len(bytes) = 4
    <3> DEFINE l == Numbers(2)
               c == Chunks(2)
    <3>1. Count(2) = 2
      BY <2>1 DEF Count
    <3>2. /\ l.form = "numbers" /\ Len(l.items) = 2 /\ Token(l) = {l}
          /\ \A i \in 1..2 : Fits(l.items[i], 2) /\ Low(l.items[i].word, 2) = c[i]
      <4>1. /\ l.form = "numbers" /\ Len(l.items) = Count(2)
            /\ Token(l) = (IF Count(2) \in 1..128 THEN {l} ELSE {})
            /\ \A i \in 1..Count(2) : Fits(l.items[i], 2) /\ Low(l.items[i].word, 2) = c[i]
        BY NumbersToken
      <4> HIDE DEF l, c
      <4> QED BY <3>1, <4>1
    <3>3. Listed = {l}
      BY <1>2, <2>1 DEF Listed, Sized
    <3>4. Returns /\ Given = bytes
      BY <1>2, <2>1 DEF Returns, Given
    <3>5. c[1] \o c[2] = bytes
      <4>1. Len(c) = 2
        BY <3>1, ChunksAre DEF Sizes, Count
      <4>2. FlattenSeq(c) = bytes
        BY <2>1, Together DEF Sizes
      <4> HIDE DEF c
      <4> QED BY <4>1, <4>2, TwoParts
    <3> HIDE DEF l, c
    <3>6. Encoded(l) = {OrZero(l.items[1], 2) \o OrZero(l.items[2], 2)}
      BY <1>2, <3>2 DEF Encoded, One
    <3>7. OrZero(l.items[1], 2) = c[1] /\ OrZero(l.items[2], 2) = c[2]
      BY <3>2 DEF OrZero
    <3>8. Reread = {bytes}
      BY <1>1, <3>2, <3>3, <3>5, <3>6, <3>7, ReadOne
    <3> QED BY <3>4, <3>8 DEF ReadBack
  <2>2. CASE Len(bytes) # 4
    <3>1. Listed = {} /\ ~Returns
      BY <1>2, <2>2 DEF Listed, Sized, Returns
    <3> QED BY <3>1, ReadNone DEF ReadBack
  <2> QED BY <2>1, <2>2
<1>3. CASE row.enc = "CharList"
  <2> DEFINE l == Numbers(1)
             k == Count(1)
  <2>1. /\ l.form = "numbers" /\ Len(l.items) = k
        /\ Token(l) = (IF k \in 1..128 THEN {l} ELSE {})
        /\ Each(LAMBDA x : Low(x.word, 1), l) = Parts(1)
    BY NumbersToken
  <2>2. Len(bytes) = k /\ k \in Nat /\ Len(bytes) % 1 = 0
    <3>1. Len(bytes) = 1 * k + (Len(bytes) % 1) /\ Len(bytes) % 1 \in 0..(1 - 1) /\ k \in Nat
      BY CountOf DEF Sizes
    <3> QED BY <3>1
  <2>3. Parts(1) = bytes
    BY <2>2, Together DEF Sizes, Parts
  <2>4. Listed = {l}
    BY <1>3 DEF Listed
  <2>5. /\ Returns <=> k \in 1..128
        /\ Given = IF k = 1 THEN <<>> ELSE bytes
    BY <1>3, <2>2 DEF Returns, Given
  <2> HIDE DEF l, k
  <2>6. CASE k \in 1..128
    <3>1. Reread = Encoded(l)
      BY <1>1, <2>1, <2>4, <2>6, ReadOne
    <3>2. Encoded(l) = IF k = 1 THEN {<<>>} ELSE {bytes}
      <4>1. NoText(l) <=> k = 1
        BY <2>1 DEF NoText, One
      <4>2. Encoded(l) = {CASE NoText(l)     -> <<>>
                            [] l.form = "numbers" /\ ~One(l) -> Each(LAMBDA x : Low(x.word, 1), l)
                            [] l.form = "hex" -> <<0>>
                            [] OTHER          -> Zeros(Len(l.items))}
        BY <1>3 DEF Encoded
      <4>3. l.form = "numbers" /\ (One(l) <=> k = 1)
        BY <2>1 DEF One
      <4> QED BY <2>1, <2>3, <4>1, <4>2, <4>3
    <3> QED BY <2>5, <2>6, <3>1, <3>2 DEF ReadBack
  <2>7. CASE k \notin 1..128
    <3>1. Reread = {}
      BY <2>1, <2>4, <2>7, ReadNone
    <3> QED BY <2>5, <2>7, <3>1 DEF ReadBack
  <2> QED BY <2>6, <2>7
<1>4. CASE row.enc = "UshortList"
  <2> DEFINE l == Numbers(2)
             k == Count(2)
  <2>1. /\ l.form = "numbers" /\ Len(l.items) = k /\ k \in Nat
        /\ Token(l) = (IF k \in 1..128 THEN {l} ELSE {})
        /\ \A x \in Range(l.items) : Fits(x, 2)
        /\ Each(LAMBDA x : Low(x.word, 2), l) = Parts(2)
    BY NumbersToken
  <2>2. Listed = {l}
    BY <1>4 DEF Listed
  <2>3. /\ Returns <=> (k = 1 /\ InSize(0)) \/ (k \in 2..128 /\ InSize(k))
        /\ Given = IF k = 1 THEN <<>> ELSE Parts(2)
    BY <1>4 DEF Returns, Given
  <2> HIDE DEF l, k
  <2>4. CASE k \in 1..128
    <3>1. Reread = Encoded(l)
      BY <1>1, <2>1, <2>2, <2>4, ReadOne
    <3>2. NoText(l) <=> k = 1
      BY <2>1 DEF NoText, One
    <3>3. CASE k = 1
      <4>1. Encoded(l) = If(InSize(0), <<>>)
        BY <1>4, <3>2, <3>3 DEF Encoded
      <4> QED BY <2>3, <3>1, <3>3, <4>1 DEF ReadBack, If
    <3>4. CASE k # 1
      <4>1. Encoded(l) = If(InSize(k), Parts(2))
        <5>1. Encoded(l) = If(/\ l.form = "numbers" /\ \A x \in Range(l.items) : Fits(x, 2)
                              /\ InSize(Len(l.items)), Each(LAMBDA x : Low(x.word, 2), l))
          BY <1>4, <3>2, <3>4 DEF Encoded
        <5>2. l.form = "numbers" /\ (\A x \in Range(l.items) : Fits(x, 2)) /\ Len(l.items) = k
          BY <2>1
        <5> QED BY <2>1, <5>1, <5>2 DEF If
      <4>2. k \in 2..128
        BY <2>4, <3>4
      <4> QED BY <2>3, <3>1, <3>4, <4>1, <4>2 DEF ReadBack, If
    <3> QED BY <3>3, <3>4
  <2>5. CASE k \notin 1..128
    <3>1. Reread = {}
      BY <2>1, <2>2, <2>5, ReadNone
    <3>2. ~Returns
      BY <2>3, <2>5
    <3> QED BY <3>1, <3>2 DEF ReadBack
  <2> QED BY <2>4, <2>5
<1> QED BY <1>2, <1>3, <1>4

\* The parts of a value as a sequence.
LEMMA ChunkSeq ==
  ASSUME bytes \in Seq(Byte), NEW n \in Sizes
  PROVE  /\ Chunks(n) \in Seq([1..n -> Byte]) /\ Len(Chunks(n)) = Count(n) /\ Count(n) \in Nat
         /\ DOMAIN Chunks(n) = 1..Count(n)
<1> DEFINE c == Chunks(n)
           k == Count(n)
<1>1. c \in Seq(Seq(Byte)) /\ Len(c) = k /\ \A i \in 1..k : c[i] \in [1..n -> Byte]
  BY ChunksAre DEF Count
<1> HIDE DEF c, k
<1>2. k \in Nat /\ c = [i \in 1..k |-> c[i]]
  BY <1>1
<1>3. c \in [1..k -> [1..n -> Byte]]
  BY <1>1, <1>2
<1>4. c \in Seq([1..n -> Byte]) /\ DOMAIN c = 1..k
  BY <1>2, <1>3, FixedSeq
<1> QED BY <1>1, <1>2, <1>4 DEF c, k

\* Addresses of IPv4 as a value.
LEMMA Ip4Token ==
  ASSUME NEW s \in Seq([1..4 -> Byte]), NEW l, l = Text("ip4", s)
  PROVE  /\ l.form = "ip4" /\ l.items = s
         /\ Token(l) = (IF s # <<>> THEN {l} ELSE {})
         /\ ~NoText(l) /\ ~V6(l) /\ (V4(l) <=> Len(s) = 1)
         /\ \A x \in Range(s) : Octets(x)
         /\ Each(Same, l) = FlattenSeq(s)
<1>1. l.form = "ip4" /\ l.items = s
  BY DEF Text
<1>2. Token(l) = (IF s # <<>> THEN {l} ELSE {}) /\ ~NoText(l) /\ ~V6(l)
  BY <1>1 DEF Token, NoText, V6
<1>3. \A x \in [1..4 -> Byte] : Octets(x)
  <2> SUFFICES ASSUME NEW x \in [1..4 -> Byte] PROVE Octets(x)
    OBVIOUS
  <2>1. DOMAIN x = 1..4 /\ \A i \in 1..4 : x[i] \in Byte
    OBVIOUS
  <2>2. \A b \in Byte : b <= 255
    BY DEF Byte
  <2> QED BY <2>1, <2>2 DEF Octets
<1>4. \A x \in Range(s) : Octets(x)
  BY <1>3 DEF Range
<1>5. Len(s) = 1 => Octets(s[1])
  BY <1>3
<1>6. V4(l) <=> Len(s) = 1
  BY <1>1, <1>5 DEF V4, One
<1>7. Each(Same, l) = FlattenSeq(s)
  <2>1. [i \in DOMAIN s |-> s[i]] = s
    OBVIOUS
  <2> QED BY <1>1, <2>1 DEF Each, Joined, Same
<1> QED BY <1>1, <1>2, <1>4, <1>6, <1>7

\* An address of IPv6 is an item of its own.
LEMMA LongItem == ASSUME NEW a \in [1..16 -> Byte] PROVE Len(a) = 16 /\ Address(a) = a
<1>1. 16 \in Nat
  OBVIOUS
<1>2. Len(a) = 16
  BY <1>1, FixedBytes
<1> QED BY <1>2 DEF Address

\* Addresses of IPv6 as a value: none may map IPv4, and there may be sixteen of them.
LEMMA Ip6Token ==
  ASSUME NEW s \in Seq([1..16 -> Byte]), NEW l, l = PrintedV6("ip6", s)
  PROVE  /\ (\E i \in 1..Len(s) : Mapped(s[i])) => Token(l) = {}
         /\ (\A i \in 1..Len(s) : ~Mapped(s[i])) =>
              /\ l.form = "ip6" /\ l.items = s
              /\ Token(l) = (IF Len(s) \in 1..16 THEN {l} ELSE {})
              /\ ~NoText(l) /\ ~V4(l) /\ (V6(l) <=> Len(s) = 1)
              /\ Each(Same, l) = FlattenSeq(s)
<1>1. \A x \in Range(s) : x \in [1..16 -> Byte]
  BY DEF Range
<1>2. \A x \in Range(s) : Address(x) = x
  BY <1>1, LongItem
<1>3. ASSUME \E i \in 1..Len(s) : Mapped(s[i]) PROVE Token(l) = {}
  <2>1. \E x \in Range(s) : Mapped(Address(x))
    <3>1. PICK i \in 1..Len(s) : Mapped(s[i])
      BY <1>3
    <3>2. s[i] \in Range(s)
      BY DEF Range
    <3> QED BY <1>2, <3>1, <3>2
  <2>2. l.form = "dotted"
    BY <2>1 DEF PrintedV6, Text
  <2> QED BY <2>2 DEF Token
<1>4. ASSUME \A i \in 1..Len(s) : ~Mapped(s[i])
      PROVE  /\ l.form = "ip6" /\ l.items = s
             /\ Token(l) = (IF Len(s) \in 1..16 THEN {l} ELSE {})
             /\ ~NoText(l) /\ ~V4(l) /\ (V6(l) <=> Len(s) = 1)
             /\ Each(Same, l) = FlattenSeq(s)
  <2>1. ~\E x \in Range(s) : Mapped(Address(x))
    <3>1. \A x \in Range(s) : ~Mapped(x)
      <4> SUFFICES ASSUME NEW x \in Range(s) PROVE ~Mapped(x)
        OBVIOUS
      <4>1. PICK i \in DOMAIN s : x = s[i]
        BY DEF Range
      <4>2. DOMAIN s = 1..Len(s)
        BY LenProperties
      <4> QED BY <1>4, <4>1, <4>2, Zenon
    <3> QED BY <1>2, <3>1
  <2>2. l.form = "ip6" /\ l.items = s
    BY <2>1 DEF PrintedV6, Text
  <2>3. Each(Same, l) = FlattenSeq(s)
    <3>1. [i \in DOMAIN s |-> s[i]] = s
      OBVIOUS
    <3> QED BY <2>2, <3>1 DEF Each, Joined, Same
  <2>4. Token(l) = (IF Len(s) \in 1..16 THEN {l} ELSE {}) /\ ~NoText(l) /\ ~V4(l) /\ (V6(l) <=> Len(s) = 1)
    BY <2>2 DEF Token, NoText, V4, V6, One
  <2> QED BY <2>2, <2>3, <2>4
<1> QED BY <1>3, <1>4

\* One address.
LEMMA OneToken ==
  ASSUME NEW a \in Seq(Byte)
  PROVE  /\ Len(a) = 4 => LET l == Text("ip4", <<a>>)
                          IN Token(l) = {l} /\ V4(l) /\ ~V6(l) /\ Each(Same, l) = a
         /\ Len(a) = 16 => LET l == PrintedV6("ip6", <<a>>)
                           IN IF V6Bytes(a) THEN Token(l) = {l} /\ V6(l) /\ ~V4(l) /\ Each(Same, l) = a
                                            ELSE Token(l) = {}
<1> DEFINE s == <<a>>
<1>1. Len(s) = 1 /\ s[1] = a /\ s # <<>> /\ FlattenSeq(s) = a
  BY OnePart
<1>2. a \in [1..Len(a) -> Byte]
  BY LenProperties
<1>3. ASSUME NEW n \in {4, 16}, Len(a) = n PROVE s \in Seq([1..n -> Byte])
  BY <1>2, <1>3
<1> HIDE DEF s
<1>4. ASSUME Len(a) = 4
      PROVE  LET l == Text("ip4", s) IN Token(l) = {l} /\ V4(l) /\ ~V6(l) /\ Each(Same, l) = a
  <2>1. s \in Seq([1..4 -> Byte])
    BY <1>3, <1>4
  <2> QED BY <1>1, <2>1, Ip4Token
<1>5. ASSUME Len(a) = 16
      PROVE  LET l == PrintedV6("ip6", s)
             IN IF V6Bytes(a) THEN Token(l) = {l} /\ V6(l) /\ ~V4(l) /\ Each(Same, l) = a ELSE Token(l) = {}
  <2> DEFINE l == PrintedV6("ip6", s)
  <2>1. s \in Seq([1..16 -> Byte])
    BY <1>3, <1>5
  <2>2. /\ (\E i \in 1..Len(s) : Mapped(s[i])) => Token(l) = {}
        /\ (\A i \in 1..Len(s) : ~Mapped(s[i])) =>
             /\ Token(l) = (IF Len(s) \in 1..16 THEN {l} ELSE {})
             /\ ~V4(l) /\ (V6(l) <=> Len(s) = 1) /\ Each(Same, l) = FlattenSeq(s)
    BY <2>1, Ip6Token
  <2> HIDE DEF l
  <2>3. V6Bytes(a) <=> ~Mapped(a)
    BY <1>5 DEF V6Bytes
  <2>4. Mapped(a) => Token(l) = {}
    BY <1>1, <2>2
  <2>5. ~Mapped(a) => Token(l) = {l} /\ V6(l) /\ ~V4(l) /\ Each(Same, l) = a
    BY <1>1, <2>2
  <2> QED BY <2>3, <2>4, <2>5 DEF l
<1> QED BY <1>4, <1>5 DEF s

\* The encoding of one address.
LEMMA ReadAddress ==
  ASSUME bytes \in Seq(Byte), row.enc \in {"Ip", "Ip6", "IpIp6", "CharIpIp6"}
  PROVE  ReadBack
<1>1. Len(bytes) \in Nat
  OBVIOUS
<1>2. CASE row.enc \in {"Ip", "Ip6", "IpIp6"}
  <2>1. Given = bytes
    BY <1>2 DEF Given
  <2>2. CASE Len(bytes) = 4 /\ row.enc # "Ip6"
    <3> DEFINE l == Text("ip4", <<bytes>>)
    <3>1. Token(l) = {l} /\ V4(l) /\ Each(Same, l) = bytes
      BY <2>2, OneToken
    <3>2. Chunks(4) = <<bytes>>
      BY <2>2, OneChunk DEF Sizes
    <3>3. Listed = {l} /\ Len(bytes) \in Lengths /\ Returns
      BY <1>2, <2>2, <3>2 DEF Listed, Sized, Lengths, Returns
    <3> HIDE DEF l
    <3>4. Encoded(l) = {bytes}
      BY <1>2, <2>2, <3>1 DEF Encoded, If
    <3> QED BY <2>1, <3>1, <3>3, <3>4, ReadOne DEF ReadBack
  <2>3. CASE Len(bytes) = 16 /\ row.enc # "Ip"
    <3> DEFINE l == PrintedV6("ip6", <<bytes>>)
    <3>1. IF V6Bytes(bytes) THEN Token(l) = {l} /\ V6(l) /\ Each(Same, l) = bytes ELSE Token(l) = {}
      BY <2>3, OneToken
    <3>2. Chunks(16) = <<bytes>>
      BY <2>3, OneChunk DEF Sizes
    <3>3. Listed = {l} /\ Len(bytes) \in Lengths /\ (Returns <=> V6Bytes(bytes))
      <4>1. Len(bytes) = 16 /\ Len(bytes) # 4 /\ row.enc \in {"Ip6", "IpIp6"}
        BY <1>2, <2>3
      <4>2. Listed = {l}
        BY <3>2, <4>1 DEF Listed, Sized
      <4>3. Len(bytes) \in Lengths
        BY <4>1 DEF Lengths
      <4>4. Returns <=> V6Bytes(bytes)
        BY <4>1 DEF Returns
      <4> QED BY <4>2, <4>3, <4>4
    <3> HIDE DEF l
    <3>4. CASE V6Bytes(bytes)
      <4>1. Encoded(l) = {bytes}
        BY <1>2, <2>3, <3>1, <3>4 DEF Encoded, If
      <4> QED BY <2>1, <3>1, <3>3, <3>4, <4>1, ReadOne DEF ReadBack
    <3>5. CASE ~V6Bytes(bytes)
      BY <3>1, <3>3, <3>5, ReadNone DEF ReadBack
    <3> QED BY <3>4, <3>5
  <2>4. CASE ~(Len(bytes) = 4 /\ row.enc # "Ip6") /\ ~(Len(bytes) = 16 /\ row.enc # "Ip")
    <3>1. ~Returns
      BY <1>2, <2>4 DEF Returns, V6Bytes
    <3>2. Len(bytes) \in Lengths => Listed = {}
      BY <1>2, <2>4 DEF Listed, Sized, Lengths
    <3> QED BY <3>1, <3>2, ReadNone DEF ReadBack
  <2> QED BY <2>2, <2>3, <2>4
<1>3. CASE row.enc = "CharIpIp6"
  <2> DEFINE a == Tail(bytes)
  <2>1. Lengths = {5, 17}
    BY <1>3 DEF Lengths
  <2>2. CASE Len(bytes) \in {5, 17}
    <3>1. a \in Seq(Byte) /\ Len(a) = Len(bytes) - 1
      <4>1. bytes # <<>>
        <5>1. ASSUME bytes = <<>> PROVE FALSE
          <6>1. Len(bytes) = 0
            BY <5>1
          <6> HIDE DEF a
          <6> QED BY <2>2, <6>1
        <5> QED BY <5>1
      <4> QED BY <4>1
    <3>2. Returns <=> Len(bytes) = 5 \/ (Len(bytes) = 17 /\ V6Bytes(a))
      BY <1>3 DEF Returns
    <3>3. Given = <<IF Len(bytes) = 5 THEN 1 ELSE 2>> \o a
      BY <1>3 DEF Given
    <3>4. Listed = {IF Len(bytes) = 5 THEN Text("ip4", <<a>>) ELSE PrintedV6("ip6", <<a>>)}
      BY <1>3 DEF Listed
    <3> HIDE DEF a
    <3>5. CASE Len(bytes) = 5
      <4> DEFINE l == Text("ip4", <<a>>)
      <4>1. Len(a) = 4
        BY <3>1, <3>5
      <4>2. Token(l) = {l} /\ V4(l) /\ ~V6(l) /\ Each(Same, l) = a
        BY <3>1, <4>1, OneToken
      <4>3. Listed = {l} /\ Len(bytes) \in Lengths
        BY <2>1, <3>4, <3>5
      <4> HIDE DEF l
      <4>4. Encoded(l) = {<<1>> \o a}
        BY <1>3, <4>2 DEF Encoded, If
      <4> QED BY <3>2, <3>3, <3>5, <4>2, <4>3, <4>4, ReadOne DEF ReadBack
    <3>6. CASE Len(bytes) = 17
      <4> DEFINE l == PrintedV6("ip6", <<a>>)
      <4>1. Len(a) = 16 /\ Len(bytes) # 5
        BY <3>1, <3>6
      <4>2. IF V6Bytes(a) THEN Token(l) = {l} /\ V6(l) /\ ~V4(l) /\ Each(Same, l) = a ELSE Token(l) = {}
        BY <3>1, <4>1, OneToken
      <4>3. Listed = {l} /\ Len(bytes) \in Lengths
        BY <2>1, <3>4, <3>6
      <4> HIDE DEF l
      <4>4. CASE V6Bytes(a)
        <5>1. Encoded(l) = {<<2>> \o a}
          BY <1>3, <4>2, <4>4 DEF Encoded, If
        <5>2. Reread = Encoded(l)
          BY <4>2, <4>3, <4>4, ReadOne
        <5>3. Given = <<2>> \o a /\ Returns
          BY <3>2, <3>3, <3>6, <4>1, <4>4
        <5> QED BY <5>1, <5>2, <5>3 DEF ReadBack
      <4>5. CASE ~V6Bytes(a)
        BY <3>2, <4>1, <4>2, <4>3, <4>5, ReadNone DEF ReadBack
      <4> QED BY <4>4, <4>5
    <3> QED BY <2>2, <3>5, <3>6
  <2>3. CASE Len(bytes) \notin {5, 17}
    <3>1. ~Returns
      BY <1>3, <2>3 DEF Returns
    <3> QED BY <2>1, <2>3, <3>1, ReadNone DEF ReadBack
  <2> QED BY <2>2, <2>3
<1> QED BY <1>2, <1>3

\* Lists of addresses are read back as far as they are whole, those of IPv6 unless
\* there are too many of them or one maps IPv4.
LEMMA ReadAddresses ==
  ASSUME bytes \in Seq(Byte), row.enc \in {"IpList", "Ip6List"}
  PROVE  ReadBack
<1>1. Len(bytes) \in Lengths
  BY AnyLength
<1>2. CASE row.enc = "IpList"
  <2> DEFINE s == Chunks(4)
             k == Count(4)
             l == Text("ip4", s)
  <2>1. s \in Seq([1..4 -> Byte]) /\ Len(s) = k /\ k \in Nat
    BY ChunkSeq DEF Sizes
  <2>2. (Returns <=> k >= 1) /\ Given = FlattenSeq(s) /\ Listed = {l}
    BY <1>2 DEF Returns, Given, Parts, Listed
  <2> HIDE DEF s, k
  <2>3. /\ l.form = "ip4" /\ l.items = s
        /\ Token(l) = (IF s # <<>> THEN {l} ELSE {})
        /\ ~NoText(l) /\ (\A x \in Range(s) : Octets(x))
        /\ Each(Same, l) = FlattenSeq(s)
    BY <2>1, Ip4Token
  <2> HIDE DEF l
  <2>4. s # <<>> <=> k >= 1
    BY <2>1
  <2>5. Encoded(l) = {FlattenSeq(s)}
    BY <1>2, <2>3 DEF Encoded, If
  <2>6. CASE s # <<>>
    BY <1>1, <2>2, <2>3, <2>4, <2>5, <2>6, ReadOne DEF ReadBack
  <2>7. CASE s = <<>>
    BY <2>2, <2>3, <2>4, <2>7, ReadNone DEF ReadBack
  <2> QED BY <2>6, <2>7
<1>3. CASE row.enc = "Ip6List"
  <2> DEFINE s == Chunks(16)
             k == Count(16)
             l == PrintedV6("ip6", s)
             plain == \A i \in 1..k : ~Mapped(s[i])
  <2>1. s \in Seq([1..16 -> Byte]) /\ Len(s) = k /\ k \in Nat
    BY ChunkSeq DEF Sizes
  <2>2. Given = FlattenSeq(s) /\ Listed = {l}
    BY <1>3 DEF Given, Parts, Listed
  <2>3. Returns <=> k \in 1..16 /\ plain
    <3>1. \A i \in 1..k : s[i] \in [1..16 -> Byte]
      BY <2>1
    <3>2. \A i \in 1..k : V6Bytes(s[i]) <=> ~Mapped(s[i])
      BY <3>1, LongItem DEF V6Bytes
    <3>3. Returns <=> k \in 1..16 /\ \A i \in 1..k : V6Bytes(s[i])
      BY <1>3 DEF Returns
    <3> QED BY <3>2, <3>3
  <2> HIDE DEF s, k
  <2>4. /\ ~plain => Token(l) = {}
        /\ plain => /\ l.form = "ip6" /\ l.items = s
                    /\ Token(l) = (IF k \in 1..16 THEN {l} ELSE {})
                    /\ ~NoText(l) /\ Each(Same, l) = FlattenSeq(s)
    <3>1. (\E i \in 1..Len(s) : Mapped(s[i])) => Token(l) = {}
      BY <2>1, Ip6Token
    <3>2. (\A i \in 1..Len(s) : ~Mapped(s[i])) =>
              /\ l.form = "ip6" /\ l.items = s
              /\ Token(l) = (IF Len(s) \in 1..16 THEN {l} ELSE {})
              /\ ~NoText(l) /\ Each(Same, l) = FlattenSeq(s)
      BY <2>1, Ip6Token
    <3> HIDE DEF l
    <3> QED BY <2>1, <3>1, <3>2
  <2> HIDE DEF l, plain
  <2>5. CASE plain /\ k \in 1..16
    <3>1. Encoded(l) = {FlattenSeq(s)}
      BY <1>3, <2>4, <2>5 DEF Encoded, If
    <3> QED BY <1>1, <2>2, <2>3, <2>4, <2>5, <3>1, ReadOne DEF ReadBack
  <2>6. CASE ~(plain /\ k \in 1..16)
    <3>1. Token(l) = {}
      BY <2>4, <2>6
    <3> QED BY <2>2, <2>3, <2>6, <3>1, ReadNone DEF ReadBack
  <2> QED BY <2>5, <2>6
<1> QED BY <1>2, <1>3

\* A sequence without its last element, and this behind it.
LEMMA FrontAndLast ==
  ASSUME NEW f \in Seq(Byte), f # <<>>
  PROVE  /\ Front(f) \in Seq(Byte) /\ Len(f) \in Nat \ {0} /\ Len(Front(f)) = Len(f) - 1
         /\ Last(f) = f[Len(f)] /\ Last(f) \in Byte
         /\ \A i \in 1..Len(f) - 1 : Front(f)[i] = f[i]
         /\ Front(f) \o <<Last(f)>> = f /\ Append(Front(f), Last(f)) = f
<1> DEFINE n == Len(f) - 1
           a == SubSeq(f, 1, n)
           k == f[Len(f)]
<1>1. n \in Nat /\ Len(f) = n + 1 /\ n <= Len(f) /\ Len(f) \in Nat \ {0}
  OBVIOUS
<1>2. Front(f) = a /\ Last(f) = k
  BY DEF Front, Last
<1>3. a \in Seq(Byte) /\ Len(a) = n /\ \A i \in 1..n : a[i] = f[i]
  <2> HIDE DEF n
  <2> QED BY <1>1, FirstOf
<1>4. k \in Byte
  <2>1. Len(f) \in 1..Len(f)
    BY <1>1
  <2> QED BY <2>1, ElementOfSeq
<1> HIDE DEF a
<1>5. k = f[n + 1]
  BY <1>1
<1> HIDE DEF n, k
<1>6. a \o <<k>> = f
  <2> DEFINE b == a \o <<k>>
  <2>1. b \in Seq(Byte) /\ Len(b) = n + 1 /\ b[n + 1] = k /\ \A i \in 1..n : b[i] = a[i]
    BY <1>1, <1>3, <1>4
  <2> HIDE DEF b
  <2>2. \A i \in 1..Len(b) : b[i] = f[i]
    BY <1>1, <1>3, <1>5, <2>1
  <2>3. b = f
    BY <1>1, <2>1, <2>2, SeqEqual
  <2> QED BY <2>3 DEF b
<1>7. Append(a, k) = f
  <2> DEFINE b == Append(a, k)
  <2>1. b \in Seq(Byte) /\ Len(b) = n + 1 /\ b[n + 1] = k /\ \A i \in 1..n : b[i] = a[i]
    BY <1>1, <1>3, <1>4
  <2> HIDE DEF b
  <2>2. \A i \in 1..Len(b) : b[i] = f[i]
    BY <1>1, <1>3, <1>5, <2>1
  <2>3. b = f
    BY <1>1, <2>1, <2>2, SeqEqual
  <2> QED BY <2>3 DEF b
<1> QED BY <1>1, <1>2, <1>3, <1>4, <1>6, <1>7 DEF n, k

\* The address of a pair.
LEMMA PairAddress == ASSUME NEW a, NEW k PROVE Address(<<a, k>>) = a
<1>1. Len(<<a, k>>) = 2 /\ <<a, k>>[1] = a
  OBVIOUS
<1> QED BY <1>1 DEF Address

\* What has a length is not empty.
LEMMA NotEmpty == ASSUME NEW s, Len(s) # 0 PROVE s # <<>>
<1>1. ASSUME s = <<>> PROVE FALSE
  <2>1. Len(s) = 0
    BY <1>1
  <2> QED BY <2>1
<1> QED BY <1>1

\* Prefixes as a value: none may map IPv4, and there may be fifteen of them.
LEMMA PrefixToken ==
  ASSUME NEW c \in Seq([1..17 -> Byte]), NEW s, s = [i \in 1..Len(c) |-> <<Front(c[i]), Last(c[i])>>],
         NEW l, l = PrintedV6("slash", s)
  PROVE  /\ (\E i \in 1..Len(c) : Mapped(Front(c[i]))) => Token(l) = {}
         /\ (\A i \in 1..Len(c) : ~Mapped(Front(c[i]))) =>
              /\ l.form = "slash" /\ ~NoText(l)
              /\ Token(l) = (IF Len(c) \in 1..15 THEN {l} ELSE {})
              /\ Each(LAMBDA x : PrefixEntry(l, x), l) = FlattenSeq(c)
<1> DEFINE k == Len(c)
<1>1. k \in Nat /\ c = [i \in 1..k |-> c[i]]
  OBVIOUS
<1>2. ASSUME NEW i \in 1..k
      PROVE  /\ Len(Front(c[i])) = 16 /\ Last(c[i]) \in Byte
             /\ Front(c[i]) \o <<Last(c[i])>> = c[i]
             /\ Address(s[i]) = Front(c[i]) /\ s[i][1] = Front(c[i]) /\ s[i][2] = Last(c[i])
  <2> DEFINE f == c[i]
  <2>1. f \in [1..17 -> Byte] /\ 17 \in Nat
    BY ElementOfSeq
  <2>2. s[i] = <<Front(f), Last(f)>>
    OBVIOUS
  <2> HIDE DEF f
  <2>3. f \in Seq(Byte) /\ Len(f) = 17
    BY <2>1, FixedBytes
  <2>4. f # <<>>
    <3>1. Len(f) # 0
      BY <2>3
    <3> QED BY <3>1, NotEmpty, Zenon
  <2>5. Len(Front(f)) = Len(f) - 1 /\ Last(f) \in Byte /\ Front(f) \o <<Last(f)>> = f
    BY <2>3, <2>4, FrontAndLast
  <2>6. Address(<<Front(f), Last(f)>>) = Front(f)
    BY PairAddress
  <2>7. Len(Front(f)) = 16
    BY <2>3, <2>5
  <2>8. s[i][1] = Front(f) /\ s[i][2] = Last(f)
    BY <2>2
  <2> QED BY <2>2, <2>5, <2>6, <2>7, <2>8 DEF f
<1>3. Len(s) = k /\ DOMAIN s = 1..k
  BY <1>1
<1> HIDE DEF k
<1>4. ASSUME \E i \in 1..k : Mapped(Front(c[i])) PROVE Token(l) = {}
  <2>1. PICK i \in 1..k : Mapped(Front(c[i]))
    BY <1>4
  <2>2. s[i] \in Range(s) /\ Mapped(Address(s[i]))
    BY <1>2, <1>3, <2>1 DEF Range
  <2>3. l.form = "dotted"
    BY <2>2 DEF PrintedV6, Text
  <2> QED BY <2>3 DEF Token
<1>5. ASSUME \A i \in 1..k : ~Mapped(Front(c[i]))
      PROVE  /\ l.form = "slash" /\ ~NoText(l)
             /\ Token(l) = (IF k \in 1..15 THEN {l} ELSE {})
             /\ Each(LAMBDA x : PrefixEntry(l, x), l) = FlattenSeq(c)
  <2>1. \A x \in Range(s) : \E i \in 1..k : x = s[i]
    BY <1>3 DEF Range
  <2>2. ~\E x \in Range(s) : Mapped(Address(x))
    <3> SUFFICES ASSUME NEW x \in Range(s) PROVE ~Mapped(Address(x))
      OBVIOUS
    <3>1. PICK i \in 1..k : x = s[i]
      BY <2>1
    <3>2. Address(s[i]) = Front(c[i])
      BY <1>2
    <3> QED BY <1>5, <3>1, <3>2, Zenon
  <2>3. l.form = "slash" /\ l.items = s
    BY <2>2 DEF PrintedV6, Text
  <2>4. \A x \in Range(s) : Len(x[1]) = 16
    <3> SUFFICES ASSUME NEW x \in Range(s) PROVE Len(x[1]) = 16
      OBVIOUS
    <3>1. PICK i \in 1..k : x = s[i]
      BY <2>1
    <3>2. s[i][1] = Front(c[i]) /\ Len(Front(c[i])) = 16
      BY <1>2
    <3> QED BY <3>1, <3>2, Zenon
  <2>5. Token(l) = IF k \in 1..15 THEN {l} ELSE {}
    <3>1. Token(l) = IF k = 1 \/ (k \in 2..15 /\ \A x \in Range(s) : Len(x[1]) = 16) THEN {l} ELSE {}
      BY <1>3, <2>3 DEF Token
    <3> QED BY <1>1, <2>4, <3>1
  <2>6. \A i \in 1..k : PrefixEntry(l, s[i]) = c[i]
    <3> SUFFICES ASSUME NEW i \in 1..k PROVE PrefixEntry(l, s[i]) = c[i]
      OBVIOUS
    <3>1. PrefixEntry(l, s[i]) = (IF Len(s[i][1]) = 16 THEN s[i][1] ELSE Zeros(16)) \o ByteOrZero(s[i][2])
      BY <2>3 DEF PrefixEntry
    <3>2. Len(s[i][1]) = 16 /\ s[i][1] = Front(c[i]) /\ s[i][2] = Last(c[i])
      BY <1>2
    <3>3. ByteOrZero(Last(c[i])) = <<Last(c[i])>>
      <4>1. \A b \in Byte : b < 256
        BY DEF Byte
      <4>2. Last(c[i]) \in Byte
        BY <1>2
      <4> QED BY <4>1, <4>2 DEF ByteOrZero
    <3>4. Front(c[i]) \o <<Last(c[i])>> = c[i]
      BY <1>2
    <3>5. PrefixEntry(l, s[i]) = Front(c[i]) \o ByteOrZero(Last(c[i]))
      BY <3>1, <3>2, Zenon
    <3> QED BY <3>3, <3>4, <3>5, Zenon
  <2>7. Each(LAMBDA x : PrefixEntry(l, x), l) = FlattenSeq(c)
    <3>1. Each(LAMBDA x : PrefixEntry(l, x), l) = FlattenSeq([i \in 1..k |-> PrefixEntry(l, s[i])])
      BY <1>3, <2>3 DEF Each, Joined
    <3>2. [i \in 1..k |-> PrefixEntry(l, s[i])] = [i \in 1..k |-> c[i]]
      BY <2>6
    <3> QED BY <1>1, <3>1, <3>2, Zenon
  <2>8. ~NoText(l)
    BY <2>3 DEF NoText
  <2> QED BY <2>3, <2>5, <2>7, <2>8
<1> QED BY <1>4, <1>5 DEF k

\* A list of prefixes is read back as a list of addresses is.
LEMMA ReadPrefixes ==
  ASSUME bytes \in Seq(Byte), row.enc = "Ip6PrefixList"
  PROVE  ReadBack
<1> DEFINE c == Chunks(17)
           k == Count(17)
           s == [i \in 1..Len(c) |-> <<Front(c[i]), Last(c[i])>>]
           l == PrintedV6("slash", s)
           plain == \A i \in 1..k : ~Mapped(Front(c[i]))
<1>1. Len(bytes) \in Lengths
  BY AnyLength
<1>2. c \in Seq([1..17 -> Byte]) /\ Len(c) = k /\ k \in Nat /\ DOMAIN c = 1..k
  BY ChunkSeq DEF Sizes
<1>3. Given = FlattenSeq(c) /\ Listed = {l}
  <2>1. Listed = {PrintedV6("slash", [i \in DOMAIN Chunks(17) |-> <<Front(Chunks(17)[i]), Last(Chunks(17)[i])>>])}
    BY DEF Listed
  <2>2. DOMAIN Chunks(17) = 1..Len(Chunks(17))
    BY <1>2
  <2> QED BY <2>1, <2>2 DEF Given, Parts
<1>4. Returns <=> k \in 1..15 /\ plain
  <2>1. \A i \in 1..k : Len(Front(c[i])) = 16
    <3> SUFFICES ASSUME NEW i \in 1..k PROVE Len(Front(c[i])) = 16
      OBVIOUS
    <3>1. c[i] \in [1..17 -> Byte] /\ 17 \in Nat
      BY <1>2, ElementOfSeq
    <3> DEFINE f == c[i]
    <3> HIDE DEF f
    <3>2. f \in Seq(Byte) /\ Len(f) = 17
      BY <3>1, FixedBytes DEF f
    <3>3. f # <<>>
      <4>1. Len(f) # 0
        BY <3>2
      <4> QED BY <4>1, NotEmpty, Zenon
    <3>4. Len(Front(f)) = Len(f) - 1
      BY <3>2, <3>3, FrontAndLast
    <3>5. Len(Front(f)) = 16
      BY <3>2, <3>4
    <3> QED BY <3>5 DEF f
  <2>2. \A i \in 1..k : V6Bytes(Front(c[i])) <=> ~Mapped(Front(c[i]))
    BY <2>1 DEF V6Bytes
  <2>3. Returns <=> k \in 1..15 /\ \A i \in 1..k : V6Bytes(Front(c[i]))
    BY DEF Returns
  <2> QED BY <2>2, <2>3
<1> HIDE DEF c, k
<1>5. /\ ~plain => Token(l) = {}
      /\ plain => /\ l.form = "slash" /\ ~NoText(l)
                  /\ Token(l) = (IF k \in 1..15 THEN {l} ELSE {})
                  /\ Each(LAMBDA x : PrefixEntry(l, x), l) = FlattenSeq(c)
  <2>1. (\E i \in 1..Len(c) : Mapped(Front(c[i]))) => Token(l) = {}
    BY <1>2, PrefixToken
  <2>2. (\A i \in 1..Len(c) : ~Mapped(Front(c[i]))) =>
              /\ l.form = "slash" /\ ~NoText(l)
              /\ Token(l) = (IF Len(c) \in 1..15 THEN {l} ELSE {})
              /\ Each(LAMBDA x : PrefixEntry(l, x), l) = FlattenSeq(c)
    BY <1>2, PrefixToken
  <2> HIDE DEF l
  <2> QED BY <1>2, <2>1, <2>2
<1> HIDE DEF l, s, plain
<1>6. CASE plain /\ k \in 1..15
  <2>1. Encoded(l) = {CASE NoText(l)       -> <<>>
                        [] l.form = "hex" -> Zeros(17)
                        [] OTHER          -> Each(LAMBDA x : PrefixEntry(l, x), l)}
    BY DEF Encoded
  <2>2. Encoded(l) = {FlattenSeq(c)}
    BY <1>5, <1>6, <2>1
  <2> QED BY <1>1, <1>3, <1>4, <1>5, <1>6, <2>2, ReadOne DEF ReadBack
<1>7. CASE ~(plain /\ k \in 1..15)
  <2>1. Token(l) = {}
    BY <1>5, <1>7
  <2> QED BY <1>3, <1>4, <1>7, <2>1, ReadNone DEF ReadBack
<1> QED BY <1>6, <1>7

\* A number of two bytes is put into these again.
LEMMA TwoBytesBack ==
  ASSUME NEW p \in Byte, NEW q \in Byte
  PROVE  BE(p, q) \in Nat /\ BE(p, q) < 65536 /\ BE16(BE(p, q)) = <<p, q>>
<1> DEFINE k == 256 * p + q
<1>1. p \in 0..255 /\ q \in 0..255
  BY DEF Byte
<1>2. k \in Nat /\ k < 65536 /\ k % 65536 = k /\ k \div 256 = p /\ k % 256 = q
  BY <1>1
<1> HIDE DEF k
<1>3. BE16(k) = <<p, q>>
  BY <1>2 DEF BE16
<1> QED BY <1>2, <1>3 DEF k, BE

\* An address and its port are read back, unless the address maps IPv4.
LEMMA ReadPort ==
  ASSUME bytes \in Seq(Byte), row.enc = "IpIp6Port"
  PROVE  ReadBack
<1>1. Lengths = {6, 18} /\ Given = bytes
  BY DEF Lengths, Given
<1>2. CASE Len(bytes) \notin {6, 18}
  <2>1. ~Returns
    BY <1>2 DEF Returns
  <2> QED BY <1>1, <1>2, <2>1, ReadNone DEF ReadBack
<1>3. CASE Len(bytes) \in {6, 18}
  <2> DEFINE n == Len(bytes) - 2
             a == SubSeq(bytes, 1, n)
             p == bytes[n + 1]
             q == bytes[n + 2]
             k == BE(p, q)
             s == <<<<a, k>>>>
             l == PrintedV6("slash", s)
  <2>1. n \in {4, 16} /\ Len(bytes) = n + 2 /\ n \in Nat
    <3>1. CASE Len(bytes) = 6
      BY <3>1
    <3>2. CASE Len(bytes) = 18
      BY <3>2
    <3> QED BY <1>3, <3>1, <3>2
  <2>2. Listed = {l}
    BY DEF Listed, Last2
  <2> HIDE DEF n
  <2>3. a \in Seq(Byte) /\ Len(a) = n /\ \A i \in 1..n : a[i] = bytes[i]
    <3>1. n <= Len(bytes)
      BY <2>1
    <3> QED BY <2>1, <3>1, FirstOf
  <2>4. p \in Byte /\ q \in Byte
    <3>1. n + 1 \in 1..Len(bytes) /\ n + 2 \in 1..Len(bytes)
      BY <2>1
    <3> QED BY <3>1, ElementOfSeq
  <2>5. k \in Nat /\ k < 65536 /\ BE16(k) = <<p, q>>
    <3> HIDE DEF p, q
    <3> QED BY <2>4, TwoBytesBack
  <2>6. Returns <=> ~Mapped(a)
    <3>1. CASE n = 4
      <4>1. Len(bytes) = 6 /\ Len(a) = 4
        BY <2>1, <2>3, <3>1
      <4>2. ~Mapped(a)
        <5> HIDE DEF a
        <5> QED BY <4>1 DEF Mapped
      <4> QED BY <4>1, <4>2 DEF Returns
    <3>2. CASE n = 16
      <4>1. Len(bytes) = 18 /\ Len(a) = 16
        BY <2>1, <2>3, <3>2
      <4>2. Returns <=> V6Bytes(SubSeq(bytes, 1, 16))
        BY <4>1 DEF Returns
      <4>3. a = SubSeq(bytes, 1, 16)
        BY <3>2
      <4>4. V6Bytes(a) <=> ~Mapped(a)
        BY <4>1 DEF V6Bytes
      <4> QED BY <4>2, <4>3, <4>4, Zenon
    <3> QED BY <2>1, <3>1, <3>2
  <2>7. Octets(a)
    <3>1. \A i \in 1..n : a[i] \in Byte
      BY <2>3, ElementOfSeq
    <3>2. \A b \in Byte : b <= 255
      BY DEF Byte
    <3>3. DOMAIN a = 1..n
      BY <2>3
    <3> QED BY <3>1, <3>2, <3>3 DEF Octets
  <2>8. a \o <<p, q>> = bytes
    <3> DEFINE c == <<p, q>>
               b == a \o c
    <3>1. c \in Seq(Byte) /\ Len(c) = 2 /\ c[1] = p /\ c[2] = q
      <4> HIDE DEF p, q
      <4> QED BY <2>4
    <3> HIDE DEF c
    <3>2. Behind(b, a, c)
      BY <2>3, <3>1, FrontOf
    <3> HIDE DEF b
    <3>3. b \in Seq(Byte) /\ Len(b) = n + 2 /\ (\A i \in 1..n : b[i] = a[i]) /\ \A i \in 1..2 : b[n + i] = c[i]
      <4> HIDE DEF a
      <4> QED BY <2>3, <3>1, <3>2 DEF Behind
    <3>4. \A i \in 1..Len(b) : b[i] = bytes[i]
      <4> SUFFICES ASSUME NEW i \in 1..Len(b) PROVE b[i] = bytes[i]
        OBVIOUS
      <4>1. CASE i \in 1..n
        BY <2>3, <3>3, <4>1
      <4>2. CASE i = n + 1
        <5>1. b[n + 1] = c[1]
          BY <3>3
        <5> QED BY <3>1, <4>2, <5>1
      <4>3. CASE i = n + 2
        <5>1. b[n + 2] = c[2]
          BY <3>3
        <5> QED BY <3>1, <4>3, <5>1
      <4>4. i \in 1..n \/ i = n + 1 \/ i = n + 2
        <5>1. i \in 1..(n + 2)
          BY <3>3
        <5> QED BY <2>1, <5>1
      <4> QED BY <4>1, <4>2, <4>3, <4>4
    <3>5. b = bytes
      BY <2>1, <3>3, <3>4, SeqEqual
    <3> QED BY <3>5 DEF b, c
  <2> HIDE DEF a, p, q, k
  <2>9. Range(s) = {<<a, k>>} /\ Len(s) = 1 /\ s[1] = <<a, k>>
    BY DEF Range
  <2>10. Address(<<a, k>>) = a
    BY PairAddress
  <2> HIDE DEF s
  <2>11. CASE Mapped(a)
    <3>1. l.form = "dotted"
      <4>1. \E x \in Range(s) : Mapped(Address(x))
        BY <2>9, <2>10, <2>11
      <4> QED BY <4>1 DEF PrintedV6, Text
    <3>2. Token(l) = {}
      BY <3>1 DEF Token
    <3> QED BY <2>2, <2>6, <2>11, <3>2, ReadNone DEF ReadBack
  <2>12. CASE ~Mapped(a)
    <3>1. l.form = "slash" /\ l.items = s
      <4>1. ~\E x \in Range(s) : Mapped(Address(x))
        BY <2>9, <2>10, <2>12
      <4> QED BY <4>1 DEF PrintedV6, Text
    <3> HIDE DEF l
    <3>2. Token(l) = {l}
      BY <2>9, <3>1 DEF Token
    <3>3. Port(l) = <<p, q>>
      BY <2>5, <2>9, <3>1 DEF Port, One
    <3>4. V4(l) \/ V6(l) \/ (l.form = "slash" /\ Octets(l.items[1][1]))
      BY <2>7, <2>9, <3>1
    <3>5. Address(l.items[1]) \o Port(l) = bytes
      BY <2>8, <2>9, <2>10, <3>1, <3>3, Zenon
    <3>6. Encoded(l) = {bytes}
      BY <3>4, <3>5 DEF Encoded, If
    <3>7. Len(bytes) \in Lengths
      BY <1>1, <1>3
    <3> QED BY <1>1, <2>2, <2>6, <2>12, <3>2, <3>6, <3>7, ReadOne DEF ReadBack
  <2> QED BY <2>11, <2>12
<1> QED BY <1>2, <1>3

\* A hardware address, and an address and its mask, are read back.
LEMMA ReadMac ==
  ASSUME bytes \in Seq(Byte), row.enc \in {"Ether", "Ethermask"}
  PROVE  ReadBack
<1>1. Len(bytes) \in Lengths /\ Given = bytes
  BY AnyLength DEF Given
<1>2. CASE row.enc = "Ether"
  <2>1. CASE Len(bytes) = 6
    <3> DEFINE s == <<bytes>>
               l == Text("mac", s)
    <3>1. Listed = {l} /\ Returns
      BY <1>2, <2>1 DEF Listed, Sized, Returns
    <3>2. Len(s) = 1 /\ s # <<>> /\ FlattenSeq(s) = bytes /\ [i \in DOMAIN s |-> s[i]] = s
      BY OnePart
    <3> HIDE DEF s
    <3>3. l.form = "mac" /\ l.items = s
      BY DEF Text
    <3> HIDE DEF l
    <3>4. Token(l) = {l}
      BY <3>2, <3>3 DEF Token
    <3>5. Each(Same, l) = bytes
      BY <3>2, <3>3 DEF Each, Joined, Same
    <3>6. Encoded(l) = {bytes}
      BY <1>2, <3>3, <3>5 DEF Encoded, If
    <3> QED BY <1>1, <3>1, <3>4, <3>6, ReadOne DEF ReadBack
  <2>2. CASE Len(bytes) # 6
    <3>1. Listed = {} /\ ~Returns
      BY <1>2, <2>2 DEF Listed, Sized, Returns
    <3> QED BY <3>1, ReadNone DEF ReadBack
  <2> QED BY <2>1, <2>2
<1>3. CASE row.enc = "Ethermask"
  <2>1. CASE Len(bytes) = 12
    <3> DEFINE c == Chunks(6)
               s == <<c>>
               l == Text("masked", s)
    <3>1. Listed = {l} /\ Returns
      BY <1>3, <2>1 DEF Listed, Sized, Returns
    <3>2. FlattenSeq(c) = bytes
      BY <2>1, Together DEF Sizes
    <3> HIDE DEF c
    <3>3. s # <<>> /\ DOMAIN s = 1..1 /\ s[1] = c
      OBVIOUS
    <3> HIDE DEF s
    <3>4. l.form = "masked" /\ l.items = s
      BY DEF Text
    <3> HIDE DEF l
    <3>5. Token(l) = {l}
      BY <3>3, <3>4 DEF Token
    <3>6. Each(Joined, l) = bytes
      <4> DEFINE F == [i \in 1..1 |-> FlattenSeq(s[i])]
      <4>1. Each(Joined, l) = FlattenSeq(F)
        BY <3>3, <3>4 DEF Each, Joined
      <4>2. Len(F) = 1 /\ F[1] = bytes
        BY <3>2, <3>3
      <4> HIDE DEF F
      <4>3. FlattenSeq(F) = F[1]
        BY <4>2, OnePart
      <4> QED BY <4>1, <4>2, <4>3
    <3>7. Encoded(l) = {bytes}
      BY <1>3, <3>4, <3>6 DEF Encoded, If
    <3> QED BY <1>1, <3>1, <3>5, <3>7, ReadOne DEF ReadBack
  <2>2. CASE Len(bytes) # 12
    <3>1. Listed = {} /\ ~Returns
      BY <1>3, <2>2 DEF Listed, Sized, Returns
    <3> QED BY <3>1, ReadNone DEF ReadBack
  <2> QED BY <2>1, <2>2
<1> QED BY <1>2, <1>3

\* The two digits of a byte.
LEMMA ByteDigits ==
  ASSUME NEW b \in Byte
  PROVE  b \div 16 \in 0..15 /\ b % 16 \in 0..15 /\ (b \div 16) * 16 + (b % 16) = b
  BY DEF Byte

\* The digits of a value, paired, are the value.
LEMMA PairedDigits ==
  ASSUME bytes \in Seq(Byte)
  PROVE  /\ Len(Digits) = 2 * Len(bytes) /\ Paired(Digits) = bytes
         /\ Len(Digits) % 2 = 0 /\ Len(Digits) \div 2 = Len(bytes)
         /\ Digits # <<>> <=> bytes # <<>>
<1> DEFINE k == Len(bytes)
           d == Digits
<1>1. k \in Nat /\ bytes = [i \in 1..k |-> bytes[i]] /\ \A i \in 1..k : bytes[i] \in Byte
  BY ElementOfSeq
<1>2. d = [i \in 1..2 * k |-> IF i % 2 = 1 THEN bytes[(i + 1) \div 2] \div 16 ELSE bytes[(i + 1) \div 2] % 16]
  BY DEF Digits
<1>3. bytes # <<>> <=> k # 0
  OBVIOUS
<1> HIDE DEF k, d
<1>4. 2 * k \in Nat /\ (2 * k) % 2 = 0 /\ (2 * k) \div 2 = k
  BY <1>1
<1>5. Len(d) = 2 * k
  BY <1>2, <1>4
<1>6. d # <<>> <=> k # 0
  <2>1. CASE k = 0
    <3>1. d \in [1..0 -> {0}]
      BY <1>2, <2>1
    <3> QED BY <2>1, <3>1
  <2>2. CASE k # 0
    <3>1. Len(d) # 0
      BY <1>1, <1>5, <2>2
    <3> QED BY <2>2, <3>1, NotEmpty
  <2> QED BY <2>1, <2>2
<1>7. \A i \in 1..k : d[2 * i - 1] * 16 + d[2 * i] = bytes[i]
  <2> SUFFICES ASSUME NEW i \in 1..k PROVE d[2 * i - 1] * 16 + d[2 * i] = bytes[i]
    OBVIOUS
  <2>1. /\ 2 * i - 1 \in 1..2 * k /\ (2 * i - 1) % 2 = 1 /\ (2 * i - 1 + 1) \div 2 = i
        /\ 2 * i \in 1..2 * k /\ (2 * i) % 2 # 1 /\ (2 * i + 1) \div 2 = i
    <3>1. i \in Nat /\ 1 <= i /\ i <= k
      BY <1>1
    <3>2. 2 * i - 1 \in 1..2 * k /\ 2 * i \in 1..2 * k
      BY <1>1, <3>1
    <3>3. (2 * i - 1) % 2 = 1 /\ (2 * i) % 2 # 1
      BY <3>1
    <3>4. (2 * i - 1 + 1) \div 2 = i /\ (2 * i + 1) \div 2 = i
      BY <3>1
    <3> QED BY <3>2, <3>3, <3>4
  <2>2. d[2 * i - 1] = bytes[i] \div 16 /\ d[2 * i] = bytes[i] % 16
    BY <1>2, <2>1
  <2>3. bytes[i] \in Byte
    BY <1>1
  <2> QED BY <2>2, <2>3, ByteDigits
<1>8. Paired(d) = bytes
  <2>1. Len(d) \div 2 = k
    BY <1>4, <1>5
  <2>2. Paired(d) = [i \in 1..k |-> d[2 * i - 1] * 16 + d[2 * i]]
    BY <2>1 DEF Paired
  <2>3. [i \in 1..k |-> d[2 * i - 1] * 16 + d[2 * i]] = [i \in 1..k |-> bytes[i]]
    BY <1>7
  <2> QED BY <1>1, <2>2, <2>3, Zenon
<1>9. Len(d) % 2 = 0 /\ Len(d) \div 2 = k
  BY <1>4, <1>5
<1> QED BY <1>3, <1>5, <1>6, <1>8, <1>9 DEF k, d

\* Hexadecimal strings are read back as they are, unless they are empty; a value of
\* no length is read back as one.
LEMMA ReadHex ==
  ASSUME bytes \in Seq(Byte), row.enc \in {"Hexstr", "Lenzero"}
  PROVE  ReadBack
<1>1. Len(bytes) \in Lengths
  BY AnyLength
<1>2. CASE row.enc = "Hexstr"
  <2> DEFINE l == Text("hex", Digits)
  <2>1. Listed = {l} /\ Given = bytes /\ (Returns <=> bytes # <<>> /\ InSize(Len(bytes)))
    BY <1>2 DEF Listed, Given, Returns
  <2>2. l.form = "hex" /\ l.items = Digits
    BY DEF Text
  <2> HIDE DEF l
  <2>3. Token(l) = IF bytes # <<>> THEN {l} ELSE {}
    BY <2>2, PairedDigits DEF Token
  <2>4. Encoded(l) = If(InSize(Len(bytes)), bytes)
    <3>1. Encoded(l) = If(Len(l.items) % 2 = 0 /\ InSize(Len(l.items) \div 2), Paired(l.items))
      <4>1. HexOf(l) = {l.items}
        BY <2>2 DEF HexOf
      <4> QED BY <1>2, <4>1 DEF Encoded, If
    <3>2. Len(l.items) % 2 = 0 /\ Len(l.items) \div 2 = Len(bytes) /\ Paired(l.items) = bytes
      BY <2>2, PairedDigits
    <3> QED BY <2>2, <3>1, <3>2 DEF If
  <2>5. CASE bytes # <<>>
    <3>1. Reread = Encoded(l)
      BY <1>1, <2>1, <2>3, <2>5, ReadOne
    <3> QED BY <2>1, <2>4, <2>5, <3>1 DEF ReadBack, If
  <2>6. CASE bytes = <<>>
    <3>1. Reread = {}
      BY <2>1, <2>3, <2>6, ReadNone
    <3> QED BY <2>1, <2>6, <3>1 DEF ReadBack
  <2> QED BY <2>5, <2>6
<1>3. CASE row.enc = "Lenzero"
  <2> DEFINE l == Text("hex", <<0, 0>>)
  <2>1. Listed = {l} /\ Given = <<>> /\ Returns /\ Encoded(l) = {<<>>}
    BY <1>3 DEF Listed, Given, Returns, Encoded
  <2>2. l.form = "hex" /\ l.items # <<>>
    BY DEF Text
  <2> HIDE DEF l
  <2>3. Token(l) = {l}
    BY <2>2 DEF Token
  <2> QED BY <1>1, <2>1, <2>3, ReadOne DEF ReadBack
<1> QED BY <1>2, <1>3

\* Strings are read back as far as the first NUL, if the scanner takes them, with
\* their quotes and backslashes read.
LEMMA ReadString ==
  ASSUME bytes \in Seq(Byte), row.enc \in {"String", "Strzero"}
  PROVE  ReadBack
<1> DEFINE u == UpToNul
           v == Unescape(u)
           l == Text("quoted", u)
           t == Text("quoted", v)
<1>1. Len(bytes) \in Lengths /\ Listed = {l}
  BY AnyLength DEF Listed
<1>2. Returns <=> Scans(u) /\ InSize(Len(v))
  BY DEF Returns
<1>3. Given = IF row.enc = "String" THEN v ELSE Append(v, 0)
  BY DEF Given
<1> HIDE DEF u
<1>4. Token(l) = IF Scans(u) THEN {t} ELSE {}
  BY DEF Token, Text
<1>5. t.form = "quoted" /\ t.items = v
  BY DEF Text
<1> HIDE DEF v, l, t
<1>6. AsBytes(t) = v
  BY <1>5 DEF AsBytes
<1>7. CASE Scans(u)
  <2>1. Reread = Encoded(t)
    BY <1>1, <1>4, <1>7 DEF Reread
  <2>2. Encoded(t) = If(InSize(Len(v)), Given)
    <3>1. CASE row.enc = "String"
      BY <1>3, <1>6, <3>1 DEF Encoded
    <3>2. CASE row.enc = "Strzero"
      BY <1>3, <1>6, <3>2 DEF Encoded
    <3> QED BY <3>1, <3>2
  <2> QED BY <1>2, <1>7, <2>1, <2>2 DEF ReadBack, If
<1>8. CASE ~Scans(u)
  BY <1>1, <1>2, <1>4, <1>8, ReadNone DEF ReadBack
<1> QED BY <1>7, <1>8

\* What listing and reading the listing give back, whatever the encoding.
LEMMA AlwaysReadBack == ASSUME row \in Limits, bytes \in Seq(Byte) PROVE ReadBack
<1>1. row.enc \in Encs
  BY ValuesAssumption
<1>2. CASE row.enc \in {"Uint", "Uint24", "Ushort", "Uchar"}
  BY <1>2, ReadNumber
<1>3. CASE row.enc \in {"DualQtag", "CharList", "UshortList"}
  BY <1>3, ReadNumbers
<1>4. CASE row.enc \in {"Ip", "Ip6", "IpIp6", "CharIpIp6"}
  BY <1>4, ReadAddress
<1>5. CASE row.enc \in {"IpList", "Ip6List"}
  BY <1>5, ReadAddresses
<1>6. CASE row.enc = "Ip6PrefixList"
  BY <1>6, ReadPrefixes
<1>7. CASE row.enc = "IpIp6Port"
  BY <1>7, ReadPort
<1>8. CASE row.enc \in {"Ether", "Ethermask"}
  BY <1>8, ReadMac
<1>9. CASE row.enc \in {"Hexstr", "Lenzero"}
  BY <1>9, ReadHex
<1>10. CASE row.enc \in {"String", "Strzero"}
  BY <1>10, ReadString
<1> QED BY <1>1, <1>2, <1>3, <1>4, <1>5, <1>6, <1>7, <1>8, <1>9, <1>10 DEF Encs

-----------------------------------------------------------------------------
(* The bytes that survive are the canonical ones.                          *)

\* Bytes are given back as they are.
Survives == Returns /\ Given = bytes

\* Numbers, and values of one length.
LEMMA FixedSurvive ==
  ASSUME bytes \in Seq(Byte),
         row.enc \in {"Uint", "Uint24", "Ushort", "Uchar", "Ip", "Ip6", "IpIp6", "IpIp6Port", "Lenzero",
                      "Ether", "DualQtag", "Ethermask", "Hexstr"}
  PROVE  Survives <=> Canonical
<1>1. CASE row.enc = "Uint24"
  <2> DEFINE b == SubSeq(bytes, 1, 3)
  <2>1. Len(bytes) >= 3 => (b = bytes <=> Len(bytes) = 3)
    <3>1. ASSUME Len(bytes) >= 3 PROVE b = bytes <=> Len(bytes) = 3
      <4>1. Len(b) = 3
        BY <3>1, FirstOf
      <4>2. Len(bytes) = 3 => b = bytes
        BY SubSeqFull
      <4> HIDE DEF b
      <4> QED BY <4>1, <4>2
    <3> QED BY <3>1
  <2>2. Returns <=> Len(bytes) >= 3
    BY <1>1 DEF Returns
  <2>3. Given = b /\ (Canonical <=> Len(bytes) = 3)
    BY <1>1 DEF Given, Canonical
  <2> HIDE DEF b
  <2>4. Len(bytes) = 3 => Len(bytes) >= 3
    OBVIOUS
  <2> QED BY <2>1, <2>2, <2>3, <2>4 DEF Survives
<1>2. CASE row.enc = "Uchar"
  <2>1. First = bytes <=> Len(bytes) = 1
    <3>1. CASE bytes = <<>>
      <4>1. Len(bytes) = 0 /\ First = <<0>> /\ Len(<<0>>) = 1
        BY <3>1 DEF First
      <4> QED BY <4>1
    <3>2. CASE bytes # <<>>
      <4> DEFINE a == bytes[1]
      <4>1. First = <<a>> /\ Len(<<a>>) = 1
        BY <3>2 DEF First
      <4>2. Len(bytes) = 1 => bytes = <<a>>
        BY OneIn
      <4> HIDE DEF a
      <4> QED BY <4>1, <4>2
    <3> QED BY <3>1, <3>2
  <2>2. (Returns <=> InRange(<<0, 0, 0>> \o First)) /\ Given = First
    BY <1>2 DEF Returns, Given
  <2>3. Canonical <=> Len(bytes) = 1 /\ InRange(<<0, 0, 0>> \o bytes)
    BY <1>2 DEF Canonical
  <2> QED BY <2>1, <2>2, <2>3, Zenon DEF Survives
<1>3. CASE row.enc = "Lenzero"
  BY <1>3 DEF Survives, Returns, Given, Canonical
<1>4. CASE row.enc \notin {"Uint24", "Uchar", "Lenzero"}
  <2>1. Given = bytes
    BY <1>4 DEF Given
  <2>2. Returns <=> Canonical
    BY <1>4 DEF Returns, Canonical
  <2> QED BY <2>1, <2>2 DEF Survives
<1> QED BY <1>1, <1>2, <1>3, <1>4

\* A whole number of parts, and how many there are.
LEMMA WholeParts ==
  ASSUME bytes \in Seq(Byte), NEW n \in Sizes
  PROVE  /\ Whole(n) <=> Count(n) >= 1 /\ Parts(n) = bytes
         /\ DOMAIN Chunks(n) = 1..Count(n)
         /\ Parts(n) = bytes => Len(bytes) = n * Count(n)
<1> DEFINE k == Count(n)
           r == Len(bytes) % n
<1>1. /\ k \in Nat /\ r \in 0..(n - 1) /\ Len(bytes) = n * k + r
      /\ n * k \in Nat /\ n \in Nat \ {0}
  BY CountOf
<1>2. Parts(n) = bytes <=> r = 0
  BY Together DEF Parts
<1>3. bytes # <<>> <=> Len(bytes) # 0
  OBVIOUS
<1>4. DOMAIN Chunks(n) = 1..k
  BY ChunkSeq
<1>5. Whole(n) <=> bytes # <<>> /\ r = 0
  BY DEF Whole
<1> HIDE DEF k, r
<1>6. ASSUME r = 0 PROVE Len(bytes) # 0 <=> k >= 1
  <2>1. CASE k = 0
    <3>1. n * k = 0
      BY <1>1, <2>1
    <3> QED BY <1>1, <1>6, <2>1, <3>1
  <2>2. CASE k # 0
    <3>1. k >= 1 /\ n * 1 = n
      BY <1>1, <2>2
    <3>2. n * 1 <= n * k
      BY <1>1, <3>1, Multiples
    <3> QED BY <1>1, <1>6, <3>1, <3>2
  <2> QED BY <2>1, <2>2
<1>7. r = 0 => Len(bytes) = n * k
  BY <1>1
<1> QED BY <1>2, <1>3, <1>4, <1>5, <1>6, <1>7 DEF k

\* Lists.
LEMMA ListsSurvive ==
  ASSUME bytes \in Seq(Byte),
         row.enc \in {"IpList", "Ip6List", "Ip6PrefixList", "CharIpIp6", "CharList", "UshortList"}
  PROVE  Survives <=> Canonical
<1>1. CASE row.enc = "IpList"
  <2>1. Whole(4) <=> Count(4) >= 1 /\ Parts(4) = bytes
    BY WholeParts DEF Sizes
  <2>2. (Returns <=> Count(4) >= 1) /\ Given = Parts(4) /\ (Canonical <=> Whole(4))
    BY <1>1 DEF Returns, Given, Canonical
  <2> QED BY <2>1, <2>2 DEF Survives
<1>2. CASE row.enc = "Ip6List"
  <2> DEFINE k == Count(16)
             plain == \A i \in 1..k : V6Bytes(Chunks(16)[i])
  <2>1. /\ Whole(16) <=> k >= 1 /\ Parts(16) = bytes
        /\ DOMAIN Chunks(16) = 1..k
        /\ Parts(16) = bytes => Len(bytes) = 16 * k
    BY WholeParts DEF Sizes
  <2>2. (Returns <=> k \in 1..16 /\ plain) /\ Given = Parts(16)
    BY <1>2 DEF Returns, Given
  <2>3. Canonical <=> Whole(16) /\ Len(bytes) <= 256 /\ plain
    BY <1>2, <2>1 DEF Canonical
  <2>4. k \in Nat
    BY CountOf DEF Sizes
  <2> HIDE DEF k, plain
  <2>5. Parts(16) = bytes => (k \in 1..16 <=> k >= 1 /\ Len(bytes) <= 256)
    BY <2>1, <2>4
  <2> QED BY <2>1, <2>2, <2>3, <2>5 DEF Survives
<1>3. CASE row.enc = "Ip6PrefixList"
  <2> DEFINE k == Count(17)
             plain == \A i \in 1..k : V6Bytes(Front(Chunks(17)[i]))
  <2>1. /\ Whole(17) <=> k >= 1 /\ Parts(17) = bytes
        /\ DOMAIN Chunks(17) = 1..k
        /\ Parts(17) = bytes => Len(bytes) = 17 * k
    BY WholeParts DEF Sizes
  <2>2. (Returns <=> k \in 1..15 /\ plain) /\ Given = Parts(17)
    BY <1>3 DEF Returns, Given
  <2>3. Canonical <=> Whole(17) /\ Len(bytes) <= 255 /\ plain
    BY <1>3, <2>1 DEF Canonical
  <2>4. k \in Nat
    BY CountOf DEF Sizes
  <2> HIDE DEF k, plain
  <2>5. Parts(17) = bytes => (k \in 1..15 <=> k >= 1 /\ Len(bytes) <= 255)
    BY <2>1, <2>4
  <2> QED BY <2>1, <2>2, <2>3, <2>5 DEF Survives
<1>4. CASE row.enc = "CharIpIp6"
  <2> DEFINE c == IF Len(bytes) = 5 THEN 1 ELSE 2
             a == Tail(bytes)
  <2>1. (Returns <=> Len(bytes) = 5 \/ (Len(bytes) = 17 /\ V6Bytes(a))) /\ Given = <<c>> \o a
    BY <1>4 DEF Returns, Given
  <2>2. Canonical <=> \/ Len(bytes) = 5 /\ bytes[1] = 1
                      \/ Len(bytes) = 17 /\ bytes[1] = 2 /\ V6Bytes(a)
    BY <1>4 DEF Canonical
  <2>3. ASSUME bytes # <<>> PROVE <<c>> \o a = bytes <=> bytes[1] = c
    <3>1. c \in Byte
      BY DEF Byte
    <3>2. a \in Seq(Byte) /\ Len(a) = Len(bytes) - 1 /\ \A i \in 1..Len(a) : a[i] = bytes[i + 1]
      BY <2>3
    <3> HIDE DEF c, a
    <3>3. (<<c>> \o a)[1] = c
      BY <3>1, <3>2, ByteBefore
    <3>4. ASSUME bytes[1] = c PROVE <<c>> \o a = bytes
      <4> DEFINE b == <<c>> \o a
      <4>1. b \in Seq(Byte) /\ Len(b) = Len(a) + 1 /\ b[1] = c /\ \A i \in 1..Len(a) : b[i + 1] = a[i]
        BY <3>1, <3>2
      <4> HIDE DEF b
      <4>2. Len(a) \in Nat /\ Len(bytes) = Len(a) + 1
        BY <2>3, <3>2
      <4>3. \A i \in 1..Len(b) : b[i] = bytes[i]
        <5> SUFFICES ASSUME NEW i \in 1..Len(b) PROVE b[i] = bytes[i]
          OBVIOUS
        <5>1. CASE i = 1
          BY <3>4, <4>1, <5>1
        <5>2. CASE i # 1
          <6> DEFINE j == i - 1
          <6>1. j \in 1..Len(a) /\ i = j + 1
            BY <4>1, <4>2, <5>2
          <6> HIDE DEF j
          <6> QED BY <3>2, <4>1, <6>1
        <5> QED BY <5>1, <5>2
      <4>4. b = bytes
        BY <4>1, <4>2, <4>3, SeqEqual
      <4> QED BY <4>4 DEF b
    <3>5. ASSUME <<c>> \o a = bytes PROVE bytes[1] = c
      BY <3>3, <3>5, Zenon
    <3> QED BY <3>4, <3>5
  <2>4. Len(bytes) \in {5, 17} => bytes # <<>>
    <3> HIDE DEF c, a
    <3>1. Len(bytes) \in {5, 17} => Len(bytes) # 0
      <4> DEFINE n == Len(bytes)
      <4> HIDE DEF n
      <4>1. n \in {5, 17} => n # 0
        OBVIOUS
      <4> QED BY <4>1 DEF n
    <3> QED BY <3>1, NotEmpty, Zenon
  <2>5. /\ Len(bytes) = 5 => c = 1
        /\ Len(bytes) = 17 => c = 2 /\ Len(bytes) # 5
    <3> DEFINE n == Len(bytes)
    <3> HIDE DEF a, n
    <3>1. n = 17 => n # 5
      OBVIOUS
    <3>2. c = IF n = 5 THEN 1 ELSE 2
      BY DEF n
    <3> HIDE DEF c
    <3> QED BY <3>1, <3>2 DEF n
  <2> HIDE DEF c, a
  <2> QED BY <2>1, <2>2, <2>3, <2>4, <2>5 DEF Survives
<1>5. CASE row.enc = "CharList"
  <2>1. Len(bytes) \in Nat /\ (bytes = <<>> => Len(bytes) = 0)
    OBVIOUS
  <2>2. /\ Returns <=> Len(bytes) \in 1..128
        /\ Given = IF Len(bytes) = 1 THEN <<>> ELSE bytes
        /\ Canonical <=> Len(bytes) \in 2..128
    BY <1>5 DEF Returns, Given, Canonical
  <2>3. CASE Len(bytes) = 1
    <3>1. bytes # <<>> /\ Given = <<>> /\ ~Canonical
      BY <2>1, <2>2, <2>3
    <3> QED BY <3>1 DEF Survives
  <2>4. CASE Len(bytes) # 1
    <3>1. Given = bytes /\ (Len(bytes) \in 1..128 <=> Len(bytes) \in 2..128)
      BY <2>1, <2>2, <2>4
    <3> QED BY <2>2, <3>1 DEF Survives
  <2> QED BY <2>3, <2>4
<1>6. CASE row.enc = "UshortList"
  <2> DEFINE k == Count(2)
             q == Parts(2)
  <2>1. /\ Whole(2) <=> k >= 1 /\ q = bytes
        /\ q = bytes => Len(bytes) = 2 * k
    BY WholeParts DEF Sizes
  <2>2. /\ Returns <=> (k = 1 /\ InSize(0)) \/ (k \in 2..128 /\ InSize(k))
        /\ Given = IF k = 1 THEN <<>> ELSE q
    BY <1>6 DEF Returns, Given
  <2>3. Canonical <=> Whole(2) /\ Len(bytes) \in 4..256 /\ InSize(k)
    BY <1>6 DEF Canonical, Count
  <2>4. k \in Nat /\ Len(bytes) \in Nat /\ (bytes = <<>> => Len(bytes) = 0) /\ (Len(bytes) = 0 => k = 0)
    <3>1. k \in Nat /\ Len(bytes) \in Nat /\ Len(bytes) % 2 \in 0..(2 - 1)
          /\ Len(bytes) = 2 * k + (Len(bytes) % 2)
      BY CountOf DEF Sizes
    <3>2. bytes = <<>> => Len(bytes) = 0
      OBVIOUS
    <3> HIDE DEF k
    <3>3. Len(bytes) = 0 => k = 0
      BY <3>1
    <3> QED BY <3>1, <3>2, <3>3
  <2> HIDE DEF k, q
  <2> DEFINE n == Len(bytes)
  <2> HIDE DEF n
  <2>5. ASSUME q = bytes PROVE k \in 2..128 <=> n \in 4..256
    <3>1. n = 2 * k /\ k \in Nat
      BY <2>1, <2>4, <2>5 DEF n
    <3> QED BY <3>1
  <2>6. ASSUME k = 1 PROVE ~(Given = bytes) /\ ~(q = bytes /\ n \in 4..256)
    <3>1. n # 0 /\ Given = <<>> /\ (bytes = <<>> => n = 0)
      BY <2>2, <2>4, <2>6 DEF n
    <3>2. q = bytes => n = 2
      BY <2>1, <2>6 DEF n
    <3>3. ~(2 \in 4..256)
      OBVIOUS
    <3>4. ~(Given = bytes)
      BY <3>1, Zenon
    <3> QED BY <3>2, <3>3, <3>4, Zenon
  <2>7. k \in 2..128 => k >= 1 /\ k # 1
    BY <2>4
  <2> QED BY <2>1, <2>2, <2>3, <2>5, <2>6, <2>7 DEF Survives, n
<1> QED BY <1>1, <1>2, <1>3, <1>4, <1>5, <1>6

\* What is printed of a string: its beginning, without a NUL.
LEMMA PrintedPart ==
  ASSUME bytes \in Seq(Byte)
  PROVE  /\ UpToNul \in Seq(Byte) /\ Len(UpToNul) \in Nat
         /\ \A i \in 1..Len(UpToNul) : UpToNul[i] # 0
<1> DEFINE I == {i \in 1..Len(bytes) : bytes[i] = 0}
           n == SelectInSeq(bytes, LAMBDA b : b = 0)
<1>1. n = IF I # {} THEN Min(I) ELSE 0
  BY DEF SelectInSeq
<1>2. UpToNul = IF n = 0 THEN bytes ELSE SubSeq(bytes, 1, n - 1)
  BY DEF UpToNul
<1> HIDE DEF n
<1>3. CASE I = {}
  <2>1. \A i \in 1..Len(bytes) : bytes[i] # 0
    BY <1>3
  <2>2. UpToNul = bytes /\ Len(bytes) \in Nat
    BY <1>1, <1>2, <1>3
  <2> QED BY <2>1, <2>2
<1>4. CASE I # {}
  <2>1. I \subseteq Nat
    OBVIOUS
  <2>2. /\ \A i \in 1..Len(bytes) : bytes[i] = 0 => i \in I
        /\ \A i \in I : i \in 1..Len(bytes)
    OBVIOUS
  <2> HIDE DEF I
  <2>3. \E m \in I : \A y \in I : m <= y
    BY <1>4, <2>1, LeastNat
  <2>4. Min(I) \in I /\ \A y \in I : Min(I) <= y
    BY <2>3 DEF Min
  <2>5. n \in I /\ \A y \in I : n <= y
    BY <1>1, <1>4, <2>4
  <2>6. n \in 1..Len(bytes) /\ n # 0 /\ n - 1 \in Nat /\ n - 1 <= Len(bytes)
    <3>1. n \in 1..Len(bytes)
      BY <2>2, <2>5
    <3> QED BY <3>1
  <2> DEFINE u == SubSeq(bytes, 1, n - 1)
  <2>7. u \in Seq(Byte) /\ Len(u) = n - 1 /\ \A i \in 1..n - 1 : u[i] = bytes[i]
    BY <2>6, FirstOf
  <2> HIDE DEF u
  <2>8. \A i \in 1..n - 1 : bytes[i] # 0
    <3> SUFFICES ASSUME NEW i \in 1..n - 1, bytes[i] = 0 PROVE FALSE
      OBVIOUS
    <3>1. i \in 1..Len(bytes) /\ i < n
      BY <2>6
    <3>2. n <= i
      BY <2>2, <2>5, <3>1
    <3> QED BY <2>6, <3>1, <3>2
  <2>9. UpToNul = u
    BY <1>2, <2>6 DEF u
  <2> QED BY <2>6, <2>7, <2>8, <2>9
<1> QED BY <1>3, <1>4

\* Characters that can follow a backslash or come from one are not among these.
Clean == Byte \ {0, Tab, Newline, Backslash}

\* What is read between quotes has neither NUL, tab nor newline, and no backslash.
LEMMA UnescapeClean ==
  ASSUME NEW u \in Seq(Byte), \A i \in 1..Len(u) : u[i] # 0, Scans(u)
  PROVE  Unescape(u) \in Seq(Clean)
<1>1. DOMAIN u = 1..Len(u) /\ \A i \in 1..Len(u) : u[i] \in Byte /\ u[i] \in Range(u)
  BY DEF Range
<1>2. Range(u) \cap {Newline, Tab} = {}
  BY DEF Scans
<1>3. \A i \in 1..Len(u) : u[i] # Backslash => u[i] \in Clean
  BY <1>1, <1>2 DEF Clean
<1>4. 32 \in Clean
  BY DEF Clean, Byte, Tab, Newline, Backslash
<1> QED BY <1>3, <1>4, UnescapeOver

\* Such characters are bytes, and none of these.
LEMMA CleanAre ==
  ASSUME NEW v \in Seq(Clean)
  PROVE  /\ v \in Seq(Byte) /\ Len(v) \in Nat /\ DOMAIN v = 1..Len(v)
         /\ \A i \in 1..Len(v) : v[i] \notin {0, Tab, Newline, Backslash}
<1>1. \A i \in 1..Len(v) : v[i] \in Clean
  BY ElementOfSeq
<1>2. Clean \subseteq Byte /\ \A x \in Clean : x \notin {0, Tab, Newline, Backslash}
  BY DEF Clean
<1>3. Len(v) \in Nat /\ v = [i \in 1..Len(v) |-> v[i]] /\ DOMAIN v = 1..Len(v)
  OBVIOUS
<1>4. v \in [1..Len(v) -> Byte]
  BY <1>1, <1>2, <1>3
<1>5. v \in Seq(Byte)
  BY <1>3, <1>4, FixedSeq
<1> QED BY <1>1, <1>2, <1>3, <1>5

\* Without backslashes, a string is taken if it is plain and not too long.
LEMMA ScansPlain ==
  ASSUME NEW v \in Seq(Byte), \A i \in 1..Len(v) : v[i] \notin {0, Backslash}
  PROVE  Scans(v) <=> Plain(v) /\ Len(v) <= MaxString
<1>1. Plain(v) <=> \A i \in 1..Len(v) : v[i] \notin {0, Tab, Newline, Quote, Backslash}
  BY PlainAt
<1>2. Scans(v) <=> /\ \A i \in 1..Len(v) : v[i] \notin {Tab, Newline, Quote}
                   /\ Len(v) <= MaxString
  BY ScansBare
<1> QED BY <1>1, <1>2

\* A string without these, alone or with a NUL behind it, is printed whole and read as it stands.
LEMMA CleanRead ==
  ASSUME NEW v \in Seq(Clean), bytes = v \/ bytes = Append(v, 0)
  PROVE  UpToNul = v /\ Unescape(v) = v /\ (Scans(v) <=> Plain(v) /\ Len(v) <= MaxString)
<1>1. v \in Seq(Byte) /\ \A i \in 1..Len(v) : v[i] # 0 /\ v[i] # Backslash /\ v[i] \notin {0, Backslash}
  BY CleanAre
<1> QED BY <1>1, PrintedWhole, UnescapePlain, ScansPlain

\* Plain strings are such.
LEMMA PlainClean ==
  ASSUME NEW v \in Seq(Byte), Plain(v)
  PROVE  v \in Seq(Clean)
<1>1. Len(v) \in Nat /\ v = [i \in 1..Len(v) |-> v[i]] /\ \A i \in 1..Len(v) : v[i] \in Byte
  BY ElementOfSeq
<1>2. \A i \in 1..Len(v) : v[i] \in Clean
  BY <1>1, PlainAt DEF Clean
<1>3. v \in [1..Len(v) -> Clean]
  BY <1>1, <1>2
<1> QED BY <1>1, <1>3, FixedSeq

\* An element behind a sequence is its last one.
LEMMA AppendedBack ==
  ASSUME NEW v \in Seq(Byte), NEW e \in Byte
  PROVE  Append(v, e) # <<>> /\ Last(Append(v, e)) = e /\ Front(Append(v, e)) = v
<1> DEFINE b == Append(v, e)
<1>1. b \in Seq(Byte) /\ Len(v) \in Nat /\ Len(b) = Len(v) + 1 /\ b[Len(v) + 1] = e /\ \A i \in 1..Len(v) : b[i] = v[i]
  OBVIOUS
<1> HIDE DEF b
<1>2. b # <<>>
  BY <1>1
<1>3. Front(b) \in Seq(Byte) /\ Len(Front(b)) = Len(b) - 1 /\ Last(b) = b[Len(b)]
      /\ \A i \in 1..Len(b) - 1 : Front(b)[i] = b[i]
  BY <1>1, <1>2, FrontAndLast
<1> DEFINE f == Front(b)
<1>4. f \in Seq(Byte) /\ Len(f) = Len(v) /\ \A i \in 1..Len(v) : f[i] = v[i]
  BY <1>1, <1>3
<1> HIDE DEF f
<1>5. f = v
  BY <1>4, SeqEqual
<1>6. Last(b) = e
  BY <1>1, <1>3
<1> QED BY <1>2, <1>5, <1>6 DEF b, f

\* Strings.
LEMMA StringsSurvive ==
  ASSUME bytes \in Seq(Byte), row.enc \in {"String", "Strzero"}
  PROVE  Survives <=> Canonical
<1> DEFINE u == UpToNul
           v == Unescape(u)
<1>1. u \in Seq(Byte) /\ \A i \in 1..Len(u) : u[i] # 0
  BY PrintedPart
<1>2. Returns <=> Scans(u) /\ InSize(Len(v))
  BY DEF Returns
<1>3. Scans(u) => v \in Seq(Clean)
  BY <1>1, UnescapeClean
<1>4. CASE row.enc = "String"
  <2>1. Given = v /\ (Canonical <=> Plain(bytes) /\ InSize(Len(bytes)) /\ Len(bytes) <= MaxString)
    BY <1>4 DEF Given, Canonical, Bare
  <2> HIDE DEF u
  <2>2. ASSUME Returns, v = bytes PROVE Canonical
    <3>1. bytes \in Seq(Clean) /\ Scans(u) /\ InSize(Len(bytes))
      BY <1>2, <1>3, <2>2
    <3>2. u = bytes /\ (Scans(bytes) <=> Plain(bytes) /\ Len(bytes) <= MaxString)
      BY <3>1, CleanRead DEF u
    <3> HIDE DEF v
    <3> QED BY <2>1, <3>1, <3>2
  <2>3. ASSUME Canonical PROVE Returns /\ v = bytes
    <3>1. Plain(bytes) /\ InSize(Len(bytes)) /\ Len(bytes) <= MaxString
      BY <2>1, <2>3
    <3>2. bytes \in Seq(Clean)
      BY <3>1, PlainClean
    <3>3. u = bytes /\ Unescape(bytes) = bytes /\ Scans(bytes)
      BY <3>1, <3>2, CleanRead DEF u
    <3>4. v = bytes
      BY <3>3
    <3> HIDE DEF v
    <3> QED BY <1>2, <3>1, <3>3, <3>4
  <2> HIDE DEF v
  <2> QED BY <2>1, <2>2, <2>3 DEF Survives
<1>5. CASE row.enc = "Strzero"
  <2> DEFINE f == Front(bytes)
  <2>1. /\ Given = Append(v, 0)
        /\ Canonical <=> bytes # <<>> /\ Last(bytes) = 0 /\ Plain(f) /\ InSize(Len(f)) /\ Len(f) <= MaxString
    BY <1>5 DEF Given, Canonical, Bare
  <2> HIDE DEF u
  <2>2. ASSUME Returns, Append(v, 0) = bytes PROVE Canonical
    <3>1. v \in Seq(Clean) /\ Scans(u) /\ InSize(Len(v))
      BY <1>2, <1>3, <2>2
    <3> HIDE DEF v
    <3>2. u = v /\ (Scans(v) <=> Plain(v) /\ Len(v) <= MaxString)
      BY <2>2, <3>1, CleanRead DEF u
    <3>3. bytes # <<>> /\ Last(bytes) = 0 /\ f = v
      <4>1. v \in Seq(Byte) /\ 0 \in Byte
        BY <3>1, CleanAre DEF Byte
      <4>2. Append(v, 0) # <<>> /\ Last(Append(v, 0)) = 0 /\ Front(Append(v, 0)) = v
        BY <4>1, AppendedBack
      <4> QED BY <2>2, <4>2, Zenon
    <3> HIDE DEF f
    <3> QED BY <2>1, <3>1, <3>2, <3>3
  <2>3. ASSUME Canonical PROVE Returns /\ Append(v, 0) = bytes
    <3>1. bytes # <<>> /\ Last(bytes) = 0 /\ Plain(f) /\ InSize(Len(f)) /\ Len(f) <= MaxString
      BY <2>1, <2>3
    <3>2. f \in Seq(Byte) /\ Append(f, 0) = bytes
      <4>1. f \in Seq(Byte) /\ Append(f, Last(bytes)) = bytes
        BY <3>1, FrontAndLast
      <4> QED BY <3>1, <4>1, Zenon
    <3> HIDE DEF f
    <3>3. f \in Seq(Clean)
      BY <3>1, <3>2, PlainClean
    <3>4. u = f /\ Unescape(f) = f /\ Scans(f)
      BY <3>1, <3>2, <3>3, CleanRead DEF u
    <3>5. v = f
      BY <3>4
    <3> HIDE DEF v
    <3> QED BY <1>2, <3>1, <3>2, <3>4, <3>5
  <2> HIDE DEF v, f
  <2> QED BY <2>1, <2>2, <2>3 DEF Survives
<1> QED BY <1>4, <1>5

\* decode_value and encode_value: exactly the canonical bytes survive the way through
\* a listing; all others end a program, are left out, or become other bytes.
LEMMA SurvivorsCanonical ==
  ASSUME row \in Limits, bytes \in Seq(Byte)
  PROVE  Reread = {bytes} <=> Canonical
<1>1. row.enc \in Encs
  BY ValuesAssumption
<1>2. CASE row.enc \in {"Uint", "Uint24", "Ushort", "Uchar", "Ip", "Ip6", "IpIp6", "IpIp6Port", "Lenzero",
                        "Ether", "DualQtag", "Ethermask", "Hexstr"}
  <2>1. Survives <=> Canonical
    BY <1>2, FixedSurvive
  <2> QED BY <2>1, AlwaysReadBack DEF ReadBack, Survives
<1>3. CASE row.enc \in {"IpList", "Ip6List", "Ip6PrefixList", "CharIpIp6", "CharList", "UshortList"}
  <2>1. Survives <=> Canonical
    BY <1>3, ListsSurvive
  <2> QED BY <2>1, AlwaysReadBack DEF ReadBack, Survives
<1>4. CASE row.enc \in {"String", "Strzero"}
  <2>1. Survives <=> Canonical
    BY <1>4, StringsSurvive
  <2> QED BY <2>1, AlwaysReadBack DEF ReadBack, Survives
<1> QED BY <1>1, <1>2, <1>3, <1>4 DEF Encs

\* SurvivesExactly for every table, every text and every file.
THEOREM CanonicalSurvive == Spec => []SurvivesExactly
<1>1. Base => SurvivesExactly
  BY SurvivorsCanonical DEF Base, SurvivesExactly
<1> QED BY <1>1, BaseAlways, PTL

-----------------------------------------------------------------------------
(* A second listing loses nothing more.                                    *)

\* Parts one behind the other.
LEMMA PartsLength ==
  ASSUME bytes \in Seq(Byte), NEW n \in Sizes
  PROVE  /\ Count(n) \in Nat /\ Len(Parts(n)) = n * Count(n) /\ Len(Parts(n)) % n = 0
         /\ Len(bytes) % n = 0 => Parts(n) = bytes
<1> DEFINE k == Count(n)
<1>1. k \in Nat /\ n * k \in Nat /\ n * k <= Len(bytes)
  <2>1. /\ k \in Nat /\ Len(bytes) \in Nat /\ Len(bytes) % n \in 0..(n - 1)
        /\ Len(bytes) = n * k + (Len(bytes) % n) /\ n * k \in Nat /\ n \in Nat \ {0}
    BY CountOf
  <2> HIDE DEF k
  <2> QED BY <2>1
<1>2. Parts(n) = SubSeq(bytes, 1, n * k)
  BY ChunksAre DEF Parts, Count
<1> HIDE DEF k
<1>3. Len(Parts(n)) = n * k
  BY <1>1, <1>2, FirstOf
<1>4. (n * k) % n = 0
  BY <1>1, Division
<1>5. Len(bytes) % n = 0 => Parts(n) = bytes
  BY Together DEF Parts
<1> QED BY <1>1, <1>3, <1>4, <1>5 DEF k

\* A text of clean characters.
LEMMA UnquotedClean ==
  ASSUME NEW v \in Seq(Byte)
  PROVE  Unquoted(v) <=> v \in Seq(Clean)
<1>1. Len(v) \in Nat /\ DOMAIN v = 1..Len(v) /\ v = [i \in 1..Len(v) |-> v[i]] /\ \A i \in 1..Len(v) : v[i] \in Byte
  BY ElementOfSeq
<1>2. ASSUME Unquoted(v) PROVE v \in Seq(Clean)
  <2>1. \A i \in 1..Len(v) : v[i] \in Clean
    BY <1>1, <1>2 DEF Unquoted, Clean
  <2>2. v \in [1..Len(v) -> Clean]
    BY <1>1, <2>1
  <2> QED BY <1>1, <2>2, FixedSeq
<1>3. ASSUME v \in Seq(Clean) PROVE Unquoted(v)
  BY <1>3, CleanAre DEF Unquoted
<1> QED BY <1>2, <1>3

\* What a listing gives back, the next one gives back as it is ...
LEMMA GivenSettled ==
  ASSUME row \in Limits, bytes \in Seq(Byte), Returns
  PROVE  Settled(Given)
<1>1. CASE row.enc = "Uint24"
  <2>1. Len(bytes) >= 3 /\ Given = SubSeq(bytes, 1, 3)
    BY <1>1 DEF Returns, Given
  <2>2. Len(SubSeq(bytes, 1, 3)) = 3
    BY <2>1, FirstOf
  <2> QED BY <1>1, <2>1, <2>2 DEF Settled
<1>2. CASE row.enc = "Uchar"
  <2>1. Given = First /\ Len(First) = 1
    BY <1>2 DEF Given, First
  <2> QED BY <1>2, <2>1 DEF Settled
<1>3. CASE row.enc \in {"IpList", "Ip6List", "Ip6PrefixList"}
  <2>1. Len(Parts(4)) % 4 = 0 /\ Len(Parts(16)) % 16 = 0 /\ Len(Parts(17)) % 17 = 0
    BY PartsLength DEF Sizes
  <2>2. CASE row.enc = "IpList"
    BY <2>1, <2>2 DEF Given, Settled
  <2>3. CASE row.enc = "Ip6List"
    BY <2>1, <2>3 DEF Given, Settled
  <2>4. CASE row.enc = "Ip6PrefixList"
    BY <2>1, <2>4 DEF Given, Settled
  <2> QED BY <1>3, <2>2, <2>3, <2>4
<1>4. CASE row.enc = "CharIpIp6"
  <2> DEFINE c == IF Len(bytes) = 5 THEN 1 ELSE 2
             a == Tail(bytes)
             b == <<c>> \o a
  <2>1. Given = b
    BY <1>4 DEF Given
  <2>2. Len(bytes) # 0
    <3> DEFINE n == Len(bytes)
    <3>1. n = 5 \/ n = 17
      BY <1>4 DEF Returns
    <3> HIDE DEF n
    <3>2. n # 0
      BY <3>1
    <3> QED BY <3>2 DEF n
  <2>3. a \in Seq(Byte) /\ Len(bytes) = Len(a) + 1
    <3>1. bytes # <<>>
      BY <2>2, NotEmpty, Zenon
    <3> QED BY <3>1
  <2>4. c \in Byte
    BY DEF Byte
  <2> HIDE DEF a
  <2>5. b # <<>> /\ Len(b) = Len(bytes) /\ b[1] = c
    <3> HIDE DEF c
    <3>1. Len(b) = Len(a) + 1 /\ b[1] = c
      BY <2>3, <2>4, ByteBefore
    <3> HIDE DEF b
    <3>2. Len(b) = Len(bytes)
      BY <2>3, <3>1
    <3>3. b # <<>>
      BY <2>2, <3>2, NotEmpty, Zenon
    <3> QED BY <3>1, <3>2, <3>3
  <2>6. Settled(b) <=> b # <<>> /\ b[1] = IF Len(b) = 5 THEN 1 ELSE 2
    BY <1>4 DEF Settled
  <2> HIDE DEF b
  <2> QED BY <2>1, <2>5, <2>6
<1>5. CASE row.enc = "Lenzero"
  BY <1>5 DEF Given, Settled
<1>6. CASE row.enc = "CharList"
  <2>1. Given = (IF Len(bytes) = 1 THEN <<>> ELSE bytes) /\ (Settled(Given) <=> Len(Given) # 1)
    BY <1>6 DEF Given, Settled
  <2> QED BY <2>1
<1>7. CASE row.enc = "UshortList"
  <2> DEFINE k == Count(2)
  <2>1. /\ k = 1 \/ k \in 2..128
        /\ Given = (IF k = 1 THEN <<>> ELSE Parts(2))
        /\ Settled(Given) <=> Len(Given) % 2 = 0 /\ Len(Given) # 2
    BY <1>7 DEF Returns, Given, Settled
  <2>2. k \in Nat /\ Len(Parts(2)) = 2 * k /\ Len(Parts(2)) % 2 = 0
    BY PartsLength DEF Sizes
  <2> HIDE DEF k
  <2>3. CASE k = 1
    <3>1. Len(Given) = 0
      BY <2>1, <2>3
    <3>2. Len(Given) % 2 = 0 /\ Len(Given) # 2
      <4> DEFINE n == Len(Given)
      <4> HIDE DEF n
      <4>1. n = 0
        BY <3>1 DEF n
      <4>2. n % 2 = 0 /\ n # 2
        BY <4>1
      <4> QED BY <4>2 DEF n
    <3> QED BY <2>1, <3>2, Zenon
  <2>4. CASE k # 1
    <3>1. Given = Parts(2)
      BY <2>1, <2>4
    <3>2. 2 * k # 2
      BY <2>2, <2>4
    <3> QED BY <2>1, <2>2, <3>1, <3>2
  <2> QED BY <2>3, <2>4
<1>8. CASE row.enc \in {"String", "Strzero"}
  <2> DEFINE v == Unescape(UpToNul)
  <2>1. UpToNul \in Seq(Byte) /\ (\A i \in 1..Len(UpToNul) : UpToNul[i] # 0) /\ Scans(UpToNul)
    BY <1>8, PrintedPart DEF Returns
  <2>2. v \in Seq(Clean)
    BY <2>1, UnescapeClean
  <2>3. Given = IF row.enc = "String" THEN v ELSE Append(v, 0)
    BY <1>8 DEF Given
  <2> HIDE DEF v
  <2>4. v \in Seq(Byte) /\ 0 \in Byte /\ Unquoted(v)
    BY <2>2, CleanAre, UnquotedClean DEF Byte
  <2>5. CASE row.enc = "String"
    BY <2>3, <2>4, <2>5 DEF Settled
  <2>6. CASE row.enc = "Strzero"
    <3>1. Append(v, 0) # <<>> /\ Last(Append(v, 0)) = 0 /\ Front(Append(v, 0)) = v
      BY <2>4, AppendedBack
    <3>2. Settled(Given) <=> Given # <<>> /\ Last(Given) = 0 /\ Unquoted(Front(Given))
      BY <2>6 DEF Settled
    <3>3. Given = Append(v, 0)
      BY <2>3, <2>6
    <3> QED BY <2>4, <3>1, <3>2, <3>3, Zenon
  <2> QED BY <1>8, <2>5, <2>6
<1>9. CASE row.enc \notin {"Uint24", "Uchar", "IpList", "Ip6List", "Ip6PrefixList", "CharIpIp6", "Lenzero",
                           "CharList", "UshortList", "String", "Strzero"}
  BY <1>9 DEF Settled
<1> QED BY <1>1, <1>2, <1>3, <1>4, <1>5, <1>6, <1>7, <1>8, <1>9

\* ... for of such bytes it loses nothing.
LEMMA SettledGiven ==
  ASSUME row \in Limits, bytes \in Seq(Byte), Settled(bytes), Returns
  PROVE  Given = bytes
<1>1. CASE row.enc = "Uint24"
  <2>1. Given = SubSeq(bytes, 1, 3) /\ Len(bytes) = 3
    BY <1>1 DEF Given, Settled
  <2> QED BY <2>1, SubSeqFull
<1>2. CASE row.enc = "Uchar"
  <2>1. Len(bytes) = 1 /\ Given = First
    BY <1>2 DEF Given, Settled
  <2>2. bytes # <<>> /\ bytes = <<bytes[1]>>
    BY <2>1, OneIn
  <2>3. First = <<bytes[1]>>
    BY <2>2 DEF First
  <2> QED BY <2>1, <2>2, <2>3, Zenon
<1>3. CASE row.enc = "IpList"
  <2>1. Len(bytes) % 4 = 0 /\ Given = Parts(4)
    BY <1>3 DEF Given, Settled
  <2> QED BY <2>1, PartsLength DEF Sizes
<1>4. CASE row.enc = "Ip6List"
  <2>1. Len(bytes) % 16 = 0 /\ Given = Parts(16)
    BY <1>4 DEF Given, Settled
  <2> QED BY <2>1, PartsLength DEF Sizes
<1>5. CASE row.enc = "Ip6PrefixList"
  <2>1. Len(bytes) % 17 = 0 /\ Given = Parts(17)
    BY <1>5 DEF Given, Settled
  <2> QED BY <2>1, PartsLength DEF Sizes
<1>6. CASE row.enc = "CharIpIp6"
  <2>1. /\ Len(bytes) = 5 \/ Len(bytes) = 17
        /\ bytes[1] = IF Len(bytes) = 5 THEN 1 ELSE 2
    BY <1>6 DEF Returns, Settled
  <2>2. \/ Len(bytes) = 5 /\ bytes[1] = 1
        \/ Len(bytes) = 17 /\ bytes[1] = 2 /\ V6Bytes(Tail(bytes))
    BY <1>6, <2>1 DEF Returns
  <2>3. Canonical
    BY <1>6, <2>2 DEF Canonical
  <2> QED BY <1>6, <2>3, ListsSurvive DEF Survives
<1>7. CASE row.enc = "Lenzero"
  BY <1>7 DEF Given, Settled
<1>8. CASE row.enc = "CharList"
  BY <1>8 DEF Given, Settled
<1>9. CASE row.enc = "UshortList"
  <2> DEFINE k == Count(2)
  <2>1. Len(bytes) % 2 = 0 /\ Len(bytes) # 2 /\ Given = IF k = 1 THEN <<>> ELSE Parts(2)
    BY <1>9 DEF Given, Settled
  <2>2. Parts(2) = bytes /\ Len(Parts(2)) = 2 * k
    BY <2>1, PartsLength DEF Sizes
  <2>3. k # 1
    <3> DEFINE n == Len(bytes)
    <3>1. n = Len(Parts(2))
      BY <2>2, Zenon
    <3>2. n = 2 * k /\ n # 2
      BY <2>1, <2>2, <3>1, Zenon
    <3> HIDE DEF n, k
    <3> QED BY <3>2
  <2> HIDE DEF k
  <2>4. Given = Parts(2)
    BY <2>1, <2>3
  <2> QED BY <2>2, <2>4
<1>10. CASE row.enc = "String"
  <2>1. Unquoted(bytes) /\ Given = Unescape(UpToNul)
    BY <1>10 DEF Given, Settled
  <2>2. bytes \in Seq(Clean)
    BY <2>1, UnquotedClean
  <2>3. UpToNul = bytes /\ Unescape(bytes) = bytes
    BY <2>2, CleanRead
  <2> QED BY <2>1, <2>3
<1>11. CASE row.enc = "Strzero"
  <2> DEFINE f == Front(bytes)
  <2>1. bytes # <<>> /\ Last(bytes) = 0 /\ Unquoted(f) /\ Given = Append(Unescape(UpToNul), 0)
    BY <1>11 DEF Given, Settled
  <2>2. f \in Seq(Byte) /\ Append(f, 0) = bytes
    <3>1. f \in Seq(Byte) /\ Append(f, Last(bytes)) = bytes
      BY <2>1, FrontAndLast
    <3> QED BY <2>1, <3>1, Zenon
  <2> HIDE DEF f
  <2>3. f \in Seq(Clean)
    BY <2>1, <2>2, UnquotedClean
  <2>4. UpToNul = f /\ Unescape(f) = f
    BY <2>2, <2>3, CleanRead
  <2> QED BY <2>1, <2>2, <2>4
<1>12. CASE row.enc \notin {"Uint24", "Uchar", "IpList", "Ip6List", "Ip6PrefixList", "CharIpIp6", "Lenzero",
                            "CharList", "UshortList", "String", "Strzero"}
  BY <1>12 DEF Given
<1> QED BY <1>1, <1>2, <1>3, <1>4, <1>5, <1>6, <1>7, <1>8, <1>9, <1>10, <1>11, <1>12

-----------------------------------------------------------------------------
(* A second listing changes nothing.                                       *)

\* What a later listing finds: the text at hand is the listing of the bytes at hand,
\* which are, from the second file on, bytes that no listing changes.
Listing ==
  /\ history \in Seq(Seq(Byte))
  /\ stage = "text" /\ history # <<>> => text \in Listed /\ Len(bytes) \in Lengths
  /\ Len(history) >= 2 => Settled(bytes)
  /\ \A i \in 2..Len(history) : history[i] = bytes

\* Encoding the listing of some bytes gives what a listing of them gives back.
LEMMA EncodedListing ==
  ASSUME row \in Limits, bytes \in Seq(Byte), text \in Listed, Len(bytes) \in Lengths, NEW b \in Encodings
  PROVE  Returns /\ b = Given
<1>1. b \in Reread
  <2>1. Reread = UNION {UNION {Encoded(t) : t \in Token(listing)} : listing \in Listed}
    BY DEF Reread
  <2>2. Encodings \in {UNION {Encoded(t) : t \in Token(listing)} : listing \in Listed}
    BY DEF Encodings
  <2> QED BY <2>1, <2>2
<1>2. Reread = IF Returns THEN {Given} ELSE {}
  BY AlwaysReadBack DEF ReadBack
<1> QED BY <1>1, <1>2

\* No listing depends on anything but the row and the bytes.
LEMMA ListedKept ==
  ASSUME UNCHANGED <<row, bytes>>
  PROVE  Listed' = Listed /\ Lengths' = Lengths /\ (Settled(bytes))' = Settled(bytes)
<1>1. Listed' = Listed
  BY DEF Listed, Sized, Numbers, Chunks, UpToNul, Digits, Last2
<1>2. Lengths' = Lengths
  BY DEF Lengths
<1>3. (Settled(bytes))' = Settled(bytes)
  BY DEF Settled, Unquoted
<1> QED BY <1>1, <1>2, <1>3

\* It holds in the beginning.
LEMMA ListingInit == Init => Listing
<1> SUFFICES ASSUME Init PROVE Listing
  OBVIOUS
<1>1. CASE history = <<>>
  BY <1>1 DEF Listing
<1>2. CASE stage = "bytes" /\ bytes \in Files[row.enc] /\ history = <<bytes>>
  <2>1. bytes \in Seq(Byte) /\ Len(history) = 1
    BY <1>2, ValuesAssumption DEF Init
  <2> QED BY <1>2, <2>1 DEF Listing
<1> QED BY <1>1, <1>2 DEF Init

\* Every step keeps it: the second encoding settles the bytes, a third one gives the same.
LEMMA ListingKept == Base /\ Base' /\ Listing /\ [Next]_vars => Listing'
<1> SUFFICES ASSUME Base, Base', Listing, [Next]_vars PROVE Listing'
  OBVIOUS
<1>1. CASE Encode
  <2>1. /\ stage = "text" /\ stage' = "bytes" /\ row' = row
        /\ bytes' \in Encodings /\ history' = Append(history, bytes')
    BY <1>1 DEF Encode
  <2>2. PICK b \in Encodings : bytes' = b
    BY <2>1
  <2>3. b \in Seq(Byte) /\ bytes \in Seq(Byte) /\ row \in Limits
    BY <2>2 DEF Base
  <2>4. /\ history' \in Seq(Seq(Byte)) /\ Len(history') = Len(history) + 1
        /\ history'[Len(history) + 1] = b
        /\ \A i \in 1..Len(history) : history'[i] = history[i]
    BY <2>1, <2>2, <2>3 DEF Listing
  <2>5. ASSUME Len(history) # 0
        PROVE  Settled(b) /\ (Len(history) >= 2 => b = bytes)
    <3>1. history # <<>>
      BY <2>5, NotEmpty, Zenon
    <3>2. text \in Listed /\ Len(bytes) \in Lengths
      BY <2>1, <3>1 DEF Listing
    <3>3. Returns /\ b = Given
      BY <2>3, <3>2, EncodedListing
    <3>4. Settled(b)
      BY <2>3, <3>3, GivenSettled
    <3>5. Len(history) >= 2 => Settled(bytes)
      BY DEF Listing
    <3> QED BY <2>3, <3>3, <3>4, <3>5, SettledGiven
  <2>6. Len(history) \in Nat
    BY DEF Listing
  <2>7. Len(history') >= 2 => (Settled(bytes))'
    <3>1. (Settled(bytes))' <=> Settled(b)
      BY <2>1, <2>2 DEF Settled, Unquoted
    <3> QED BY <2>4, <2>5, <2>6, <3>1
  <2>8. \A i \in 2..Len(history') : history'[i] = bytes'
    <3> SUFFICES ASSUME NEW i \in 2..Len(history') PROVE history'[i] = b
      BY <2>2
    <3>1. CASE i = Len(history) + 1
      BY <2>4, <3>1
    <3>2. CASE i # Len(history) + 1
      <4>1. i \in 2..Len(history) /\ i \in 1..Len(history) /\ Len(history) >= 2
        BY <2>4, <2>6, <3>2
      <4>2. history'[i] = history[i] /\ history[i] = bytes
        BY <2>4, <4>1 DEF Listing
      <4>3. b = bytes
        BY <2>5, <2>6, <4>1
      <4> QED BY <4>2, <4>3
    <3> QED BY <3>1, <3>2
  <2> QED BY <2>1, <2>4, <2>7, <2>8 DEF Listing
<1>2. CASE List
  <2>1. /\ text' \in Listed /\ Len(bytes) \in Lengths
        /\ UNCHANGED <<row, bytes, history>>
    BY <1>2 DEF List
  <2>2. Listed' = Listed /\ Lengths' = Lengths /\ (Settled(bytes))' = Settled(bytes)
    BY <2>1, ListedKept
  <2> QED BY <2>1, <2>2 DEF Listing
<1>3. CASE Stop \/ LeaveOut
  <2>1. stage' # "text" /\ UNCHANGED <<row, bytes, history>>
    BY <1>3 DEF Stop, LeaveOut
  <2>2. (Settled(bytes))' = Settled(bytes)
    BY <2>1, ListedKept
  <2> QED BY <2>1, <2>2 DEF Listing
<1>4. CASE UNCHANGED vars
  <2>1. UNCHANGED <<row, text, bytes, stage, history>>
    BY <1>4 DEF vars
  <2>2. Listed' = Listed /\ Lengths' = Lengths /\ (Settled(bytes))' = Settled(bytes)
    BY <2>1, ListedKept
  <2> QED BY <2>1, <2>2 DEF Listing
<1> QED BY <1>1, <1>2, <1>3, <1>4 DEF Next, EncodeStops, ListStops

\* Settles for every table, every text and every file, however often a setting is listed
\* and encoded: whatever the first listing loses, a second one loses nothing more.
THEOREM ListingSettles == Spec => []Settles
<1>1. Base /\ Base' /\ Listing /\ [Next]_vars => Listing'
  BY ListingKept
<1>2. Listing => Settles
  BY DEF Listing, Settles
<1>3. Spec => []Listing
  BY <1>1, ListingInit, BaseAlways, PTL DEF Spec
<1> QED BY <1>2, <1>3, PTL
=============================================================================
