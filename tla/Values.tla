------------------------------- MODULE Values -------------------------------
(***************************************************************************)
(* The value of one setting: from the text of a config file by the value   *)
(* token the scanner makes of it (src/lexer.rs), Value (src/value.rs) and  *)
(* the encoder of its row (src/encode.rs) to the bytes of a file, back to  *)
(* text by the row's decoder (src/decode.rs), and around again.  A text is *)
(* its form and its items, of which there are several in a list:           *)
(*   numbers  [top, word]: four bytes and what is above them               *)
(*   ip4      four numbers          ip6   sixteen bytes                    *)
(*   slash    an address and the number behind it                          *)
(*   mac      six bytes             masked  two of those                   *)
(*   hex      hexadecimal digits    quoted  the bytes between the quotes   *)
(*   dotted   addresses of IPv6 with their end in the form of IPv4         *)
(*   missing  no text where a value has to be                              *)
(* The identifiers of MIB objects are in Varbind.                          *)
(***************************************************************************)
EXTENDS Wire

CONSTANTS
  Limits,  \* the rows of the symbol table: [enc, low, high]
  Texts,   \* values a config file may give, for every encoding
  Files    \* values a file made elsewhere may give, for every encoding

Encs == {"Uint", "Uint24", "Ushort", "Uchar", "Ip", "IpList", "Ip6", "Ip6List", "Ip6PrefixList", "IpIp6",
         "CharIpIp6", "IpIp6Port", "Lenzero", "Ether", "DualQtag", "CharList", "Ethermask", "String",
         "Strzero", "Hexstr", "UshortList"}

Forms == {"numbers", "ip4", "ip6", "slash", "mac", "masked", "hex", "quoted", "dotted", "missing"}

\* The items of a text of each form.
Items(form) ==
  LET Ip4 == [1..4 -> Nat]
      Ip6 == [1..16 -> Byte]
      Mac == [1..6 -> Byte]
  IN CASE form = "numbers" -> Seq([top : Int, word : [1..4 -> Byte]])
       [] form = "ip4"     -> Seq(Ip4)
       [] form = "ip6"     -> Seq(Ip6)
       [] form = "slash"   -> Seq((Ip4 \cup Ip6) \X Nat)
       [] form = "mac"     -> [1..1 -> Mac]
       [] form = "masked"  -> [1..1 -> [1..2 -> Mac]]
       [] form = "hex"     -> Seq(0..15)
       [] form = "quoted"  -> Seq(Byte)
       [] OTHER            -> {<<>>}
Shaped(t) == t.form \in Forms /\ (t.form # "dotted" => t.items \in Items(t.form))

\* Of the texts that are no strings, string rows are given numbers and hexadecimal ones.
ASSUME ValuesAssumption ==
  /\ \A r \in Limits : r.enc \in Encs /\ {r.low, r.high} \subseteq Int
  /\ \A e \in Encs : Files[e] \subseteq Seq(Byte)
  /\ \A e \in Encs : \A t \in Texts[e] : t = [form |-> t.form, items |-> t.items] /\ Shaped(t)
  /\ \A e \in {"String", "Strzero"} : \A t \in Texts[e] :
       t.form \in {"quoted", "hex"} \/ (t.form = "numbers" /\ Len(t.items) = 1)

VARIABLES
  row,     \* the setting's
  text,    \* its value in the config file at hand
  bytes,   \* its value in the binary file at hand
  stage,   \* "text" or "bytes" is at hand, "stopped", "left out" of the listing
  history  \* the bytes so far

vars == <<row, text, bytes, stage, history>>

-----------------------------------------------------------------------------
(* Numbers *)

\* The four bytes of n; -1 stands for 2^32 - 1.
Word(n) == <<(n \div 16777216) % 256, (n \div 65536) % 256, (n \div 256) % 256, n % 256>>
Zero    == Word(0)
Low(w, n)    == SubSeq(w, 5 - n, 4)
Fits(num, n) == num.top = 0 /\ \A i \in 1..4 - n : num.word[i] = 0    \* in n bytes
Number(bs)   == [top |-> 0, word |-> [i \in 1..4 - Len(bs) |-> 0] \o bs]
AtMost(v, w) == v = w \/ \E i \in 1..4 : v[i] < w[i] /\ \A j \in 1..i - 1 : v[j] = w[j]

\* parse().unwrap_or(0) into n bytes, and into one byte of a plain number.
OrZero(num, n) == IF Fits(num, n) THEN Low(num.word, n) ELSE Low(Zero, n)
ByteOrZero(k)  == IF k < 256 THEN <<k>> ELSE <<0>>

Unlimited  == row.low = 0 /\ row.high = 0
InRange(w) == Unlimited \/ (AtMost(Word(row.low), w) /\ AtMost(w, Word(row.high)))
InSize(n)  == Unlimited \/ n \in row.low .. row.high

-----------------------------------------------------------------------------
(* Text and token *)

Text(form, items) == [form |-> form, items |-> items]
One(t)            == Len(t.items) = 1
Octets(x)         == \A i \in DOMAIN x : x[i] <= 255

\* Rust prints such an address as ::ffff:1.2.3.4, which m_ipv6 does not match whole.
Mapped(a)   == Len(a) = 16 /\ a[11] = 255 /\ a[12] = 255 /\ \A i \in 1..10 : a[i] = 0
Address(x)  == IF Len(x) = 2 THEN x[1] ELSE x  \* of an item
PrintedV6(form, items) ==
  Text(IF \E x \in Range(items) : Mapped(Address(x)) THEN "dotted" ELSE form, items)

\* The value token a text is, none if the parser stops: lists have a longest
\* length, but one of IPv4 addresses beyond it passes for an object identifier.
Token(t) ==
  LET n == Len(t.items)
  IN CASE t.form \in {"dotted", "missing"} -> {}
       [] t.form = "quoted"  -> IF Scans(t.items) THEN {Text("quoted", Unescape(t.items))} ELSE {}
       [] t.form = "numbers" -> IF n \in 1..128 THEN {t} ELSE {}
       [] t.form = "ip6"     -> IF n \in 1..16 THEN {t} ELSE {}
       [] t.form = "slash"   -> IF n = 1 \/ (n \in 2..15 /\ \A x \in Range(t.items) : Len(x[1]) = 16)
                                THEN {t} ELSE {}
       [] OTHER              -> IF t.items # <<>> THEN {t} ELSE {}

-----------------------------------------------------------------------------
(* Encoders: the value's bytes, none if the program exits.                 *)

\* as_num and as_text of src/value.rs: a value of the other kind is 0, or no text.
AsNum(t)  == IF t.form = "numbers" /\ One(t) THEN t.items[1].word ELSE Zero
NoText(t) == t.form = "quoted" \/ (t.form = "numbers" /\ One(t))

If(test, bs)   == IF test THEN {bs} ELSE {}
Joined(parts)  == FlattenSeq(parts)
Each(f(_), t)  == Joined([i \in DOMAIN t.items |-> f(t.items[i])])
Same(x)        == x

V4(t) == t.form = "ip4" /\ One(t) /\ Octets(t.items[1])
V6(t) == t.form = "ip6" /\ One(t)

Zeros(n)  == [i \in 1..n |-> 0]
PrefixEntry(t, x) ==
  CASE t.form = "slash"   -> (IF Len(x[1]) = 16 THEN x[1] ELSE Zeros(16)) \o ByteOrZero(x[2])
    [] t.form = "ip6"     -> x \o <<0>>
    [] t.form = "numbers" -> Zeros(16) \o OrZero(x, 1)
    [] OTHER              -> Zeros(17)

\* A slip: the bytes of the port the other way round.
PortSwapped(t) == IF t.form = "slash" /\ One(t) /\ t.items[1][2] < 65536 THEN Reverse(BE16(t.items[1][2])) ELSE <<0, 0>>
Port(t) == IF t.form = "slash" /\ One(t) /\ t.items[1][2] < 65536 THEN BE16(t.items[1][2]) ELSE <<0, 0>>

\* as_bytes: the characters of a text, here of hexadecimal ones only.
Spelled(digits) == <<48, 120>> \o [i \in DOMAIN digits |-> digits[i] + IF digits[i] < 10 THEN 48 ELSE 87]
AsBytes(t) == CASE t.form = "quoted" -> t.items
                [] t.form = "hex"    -> Spelled(t.items)
                [] OTHER             -> <<>>
Paired(digits) == [i \in 1..Len(digits) \div 2 |-> digits[2 * i - 1] * 16 + digits[2 * i]]

\* The digit a character is, and the + that from_str_radix takes before one.
NoDigit == 16
DigitOf(c) == CASE c \in 48..57 -> c - 48 [] c \in 65..70 -> c - 55 [] c \in 97..102 -> c - 87 [] OTHER -> NoDigit
DigitAt(raw, i) == IF raw[i] = 43 /\ i % 2 = 1 THEN 0 ELSE DigitOf(raw[i])

\* The hexadecimal digits behind the 0x of a text, in quotes or not, if it is such.
HexOf(t) ==
  CASE t.form = "hex"    -> {t.items}
    [] t.form = "quoted" ->
         LET digits == [i \in 1..Len(t.items) - 2 |-> DigitAt(t.items, i + 2)]
         IN If(/\ Len(t.items) >= 2 /\ t.items[1] = 48 /\ t.items[2] \in {120, 88}
               /\ NoDigit \notin Range(digits), digits)
    [] OTHER             -> {}

Encoded(t) ==
  LET n == AsNum(t)
  IN CASE row.enc = "Uint"    -> If(InRange(n), n)
       [] row.enc = "Uint24"  -> {Low(n, 3)}
       [] row.enc = "Ushort"  -> If(InRange(n), Low(n, 2))
       [] row.enc = "Uchar"   -> If(InRange(n), Low(n, 1))
       [] row.enc = "Ip"      -> If(V4(t), Each(Same, t))
       [] row.enc = "IpList"  -> IF NoText(t) THEN {<<>>}
                                 ELSE If(t.form = "ip4" /\ \A x \in Range(t.items) : Octets(x), Each(Same, t))
       [] row.enc = "Ip6"     -> If(V6(t), Each(Same, t))
       [] row.enc = "Ip6List" -> IF NoText(t) THEN {<<>>} ELSE If(t.form = "ip6", Each(Same, t))
       [] row.enc = "Ip6PrefixList" -> {CASE NoText(t)       -> <<>>
                                         [] t.form = "hex" -> Zeros(17)
                                         [] OTHER          -> Each(LAMBDA x : PrefixEntry(t, x), t)}
       [] row.enc = "IpIp6"     -> If(V4(t) \/ V6(t), Each(Same, t))
       [] row.enc = "CharIpIp6" -> If(V4(t) \/ V6(t), <<IF V6(t) THEN 2 ELSE 1>> \o Each(Same, t))
       [] row.enc = "IpIp6Port" -> If(V4(t) \/ V6(t) \/ (t.form = "slash" /\ Octets(t.items[1][1])),
                                      Address(t.items[1]) \o Port(t))
       [] row.enc = "Lenzero"   -> {<<>>}
       [] row.enc = "Ether"     -> If(t.form = "mac", Each(Same, t))
       [] row.enc = "DualQtag"  -> {IF t.form = "numbers" /\ ~One(t)
                                    THEN OrZero(t.items[1], 2) \o OrZero(t.items[2], 2) ELSE Zeros(4)}
       [] row.enc = "CharList"  -> {CASE NoText(t)     -> <<>>
                                      [] t.form = "numbers" /\ ~One(t) -> Each(LAMBDA x : Low(x.word, 1), t)
                                      [] t.form = "hex" -> <<0>>
                                      [] OTHER          -> Zeros(Len(t.items))}
       [] row.enc = "Ethermask" -> If(t.form = "masked", Each(Joined, t))
       [] row.enc = "String"    -> If(InSize(Len(AsBytes(t))), AsBytes(t))
       [] row.enc = "Strzero"   -> If(InSize(Len(AsBytes(t))), Append(AsBytes(t), 0))
       [] row.enc = "Hexstr"    -> {Paired(d) : d \in {d \in HexOf(t) : Len(d) % 2 = 0 /\ InSize(Len(d) \div 2)}}
       [] row.enc = "UshortList" ->
            IF NoText(t) THEN If(InSize(0), <<>>)
            ELSE If(/\ t.form = "numbers" /\ \A x \in Range(t.items) : Fits(x, 2)
                    /\ InSize(Len(t.items)), Each(LAMBDA x : Low(x.word, 2), t))

-----------------------------------------------------------------------------
(* Decoders: the text of some bytes, none if the program ends.             *)

Sized(n, t) == IF Len(bytes) = n THEN {t} ELSE {}
Chunks(n)   == [i \in 1..Len(bytes) \div n |-> SubSeq(bytes, n * (i - 1) + 1, n * i)]
BE(a, b)    == 256 * a + b
Numbers(n)  == Text("numbers", [i \in DOMAIN Chunks(n) |-> Number(Chunks(n)[i])])
Last2(k)    == <<SubSeq(bytes, 1, k), BE(bytes[k + 1], bytes[k + 2])>>

\* A slip: the terminating NUL printed too.
WithNul == IF bytes # <<>> /\ Last(bytes) = 0 THEN Front(bytes) \o <<32>> ELSE bytes

\* write_quoted: as far as the first NUL, character by character.
UpToNul == LET i == SelectInSeq(bytes, LAMBDA b : b = 0) IN IF i = 0 THEN bytes ELSE SubSeq(bytes, 1, i - 1)
Digits  == [i \in 1..2 * Len(bytes) |-> LET b == bytes[(i + 1) \div 2] IN IF i % 2 = 1 THEN b \div 16 ELSE b % 16]

\* Lengths the decoder prints; it leaves the setting out at any other.
Lengths == CASE row.enc = "IpIp6" -> {4, 16} [] row.enc = "CharIpIp6" -> {5, 17}
             [] row.enc = "IpIp6Port" -> {6, 18} [] OTHER -> {Len(bytes)}

Listed ==
  CASE row.enc = "Uint"       -> Sized(4, Numbers(4))
    [] row.enc = "Uint24"     -> IF Len(bytes) >= 3 THEN {Text("numbers", <<Number(SubSeq(bytes, 1, 3))>>)} ELSE {}
    [] row.enc = "Ushort"     -> Sized(2, Numbers(2))
    [] row.enc = "Uchar"      -> {Text("numbers", <<Number(IF bytes = <<>> THEN <<0>> ELSE <<bytes[1]>>)>>)}
    [] row.enc = "Ip"         -> Sized(4, Text("ip4", Chunks(4)))
    [] row.enc = "IpList"     -> {Text("ip4", Chunks(4))}
    [] row.enc = "Ip6"        -> Sized(16, PrintedV6("ip6", Chunks(16)))
    [] row.enc = "Ip6List"    -> {PrintedV6("ip6", Chunks(16))}
    [] row.enc = "Ip6PrefixList" ->
         {PrintedV6("slash", [i \in DOMAIN Chunks(17) |-> <<Front(Chunks(17)[i]), Last(Chunks(17)[i])>>])}
    [] row.enc = "IpIp6"      -> {IF Len(bytes) = 4 THEN Text("ip4", Chunks(4)) ELSE PrintedV6("ip6", Chunks(16))}
    [] row.enc = "CharIpIp6"  -> {IF Len(bytes) = 5 THEN Text("ip4", <<Tail(bytes)>>)
                                  ELSE PrintedV6("ip6", <<Tail(bytes)>>)}
    [] row.enc = "IpIp6Port"  -> {PrintedV6("slash", <<Last2(Len(bytes) - 2)>>)}
    [] row.enc = "Lenzero"    -> {Text("hex", <<0, 0>>)}
    [] row.enc = "Ether"      -> Sized(6, Text("mac", <<bytes>>))
    [] row.enc = "DualQtag"   -> Sized(4, Numbers(2))
    [] row.enc = "CharList"   -> {Numbers(1)}
    [] row.enc = "Ethermask"  -> Sized(12, Text("masked", <<Chunks(6)>>))
    [] row.enc \in {"String", "Strzero"} -> {Text("quoted", UpToNul)}
    [] row.enc = "Hexstr"     -> {Text("hex", Digits)}
    [] row.enc = "UshortList" -> {Numbers(2)}

-----------------------------------------------------------------------------
Init ==
  /\ row \in Limits
  /\ \/ text \in Texts[row.enc] /\ bytes = <<>> /\ stage = "text" /\ history = <<>>
     \/ text = Text("missing", <<>>) /\ bytes \in Files[row.enc] /\ stage = "bytes" /\ history = <<bytes>>

Stop == stage' = "stopped" /\ UNCHANGED <<row, text, bytes, history>>

Encodings == UNION {Encoded(t) : t \in Token(text)}

Encode ==
  /\ stage = "text"
  /\ bytes' \in Encodings
  /\ stage' = "bytes" /\ history' = Append(history, bytes')
  /\ UNCHANGED <<row, text>>

EncodeStops == stage = "text" /\ Encodings = {} /\ Stop

List ==
  /\ stage = "bytes" /\ Len(bytes) \in Lengths
  /\ text' \in Listed
  /\ stage' = "text"
  /\ UNCHANGED <<row, bytes, history>>

ListStops == stage = "bytes" /\ Len(bytes) \in Lengths /\ Listed = {} /\ Stop

LeaveOut ==
  /\ stage = "bytes" /\ Len(bytes) \notin Lengths
  /\ stage' = "left out"
  /\ UNCHANGED <<row, text, bytes, history>>

Rounds == Len(history) < 4  \* bound: files of one setting

Next == (Rounds /\ (Encode \/ EncodeStops)) \/ List \/ ListStops \/ LeaveOut

Spec == Init /\ [][Next]_vars

-----------------------------------------------------------------------------
TypeOK ==
  /\ row \in Limits /\ row.enc \in Encs
  /\ text = Text(text.form, text.items) /\ Shaped(text)
  /\ bytes \in Seq(Byte) /\ history \in Seq(Seq(Byte))
  /\ stage \in {"text", "bytes", "stopped", "left out"}
  /\ stage = "bytes" => bytes = Last(history)

\* The bytes come from text, not from elsewhere.
FromText == stage = "bytes" /\ text.form # "missing"

\* A row's limits are those of a number of n bytes.
Limited(n) == ~Unlimited /\ Fits([top |-> 0, word |-> Word(row.high)], n)

\* Texts that say a value the row's bytes can hold.  Numbers need only fit where no
\* limit sees to that: the limits are tested on 32 bits, for three bytes never, and
\* one row has an upper one that two bytes cannot hold.  Characters that the
\* decoder prints as they are and the scanner does not take so stay out.
Plain(raw) == Range(raw) \cap {0, Tab, Newline, Quote, Backslash} = {}
Holds(n)   == text.form = "numbers" /\ One(text) /\ text.items[1].top = 0
                /\ ((row.enc # "Uint24" /\ Limited(n)) \/ Fits(text.items[1], n))
ShortList(n) == text.form = "numbers" /\ ~One(text) /\ \A x \in Range(text.items) : Fits(x, n)
NoneMapped == \A x \in Range(text.items) : ~Mapped(Address(x))
Sayable ==
  CASE row.enc = "Uint"          -> Holds(4)
    [] row.enc = "Uint24"        -> Holds(3)
    [] row.enc = "Ushort"        -> Holds(2)
    [] row.enc = "Uchar"         -> Holds(1)
    [] row.enc \in {"Ip", "IpList", "IpIp6", "CharIpIp6"} /\ text.form = "ip4" -> TRUE
    [] row.enc \in {"Ip6", "Ip6List", "IpIp6", "CharIpIp6"} /\ text.form = "ip6" -> NoneMapped
    [] row.enc = "IpIp6Port"     -> text.form = "slash" /\ One(text) /\ NoneMapped /\ text.items[1][2] < 65536
    [] row.enc = "Ip6PrefixList" -> /\ text.form = "slash" /\ NoneMapped
                                    /\ \A x \in Range(text.items) : Len(x[1]) = 16 /\ x[2] < 256
    [] row.enc = "Ether"         -> text.form = "mac"
    [] row.enc = "Ethermask"     -> text.form = "masked"
    [] row.enc = "DualQtag"      -> ShortList(2) /\ Len(text.items) = 2
    [] row.enc = "CharList"      -> ShortList(1)
    [] row.enc = "UshortList"    -> ShortList(2)
    [] row.enc \in {"String", "Strzero"} -> text.form = "quoted" /\ Plain(text.items)
    [] row.enc = "Hexstr"        -> text.form = "hex"
    [] OTHER                     -> FALSE

\* A value that was written is listed as it was given: what a text says is neither
\* cut to the width of its bytes nor lost on the way to the file and back.
ListsWhatWasSaid == FromText /\ Sayable => Len(bytes) \in Lengths /\ Listed = {text}

\* Bytes that listing and reading the listing give back.
Bare(raw)   == Plain(raw) /\ InSize(Len(raw)) /\ Len(raw) <= MaxString
V6Bytes(bs) == Len(bs) = 16 /\ ~Mapped(bs)
Whole(n)    == bytes # <<>> /\ Len(bytes) % n = 0
Canonical ==
  CASE row.enc = "Uint"          -> Len(bytes) = 4 /\ InRange(bytes)
    [] row.enc = "Uint24"        -> Len(bytes) = 3
    [] row.enc = "Ushort"        -> Len(bytes) = 2 /\ InRange(<<0, 0>> \o bytes)
    [] row.enc = "Uchar"         -> Len(bytes) = 1 /\ InRange(<<0, 0, 0>> \o bytes)
    [] row.enc = "Ip"            -> Len(bytes) = 4
    [] row.enc = "IpList"        -> Whole(4)
    [] row.enc = "Ip6"           -> V6Bytes(bytes)
    [] row.enc = "Ip6List"       -> Whole(16) /\ Len(bytes) <= 256 /\ \A i \in DOMAIN Chunks(16) : V6Bytes(Chunks(16)[i])
    [] row.enc = "Ip6PrefixList" -> Whole(17) /\ Len(bytes) <= 255 /\ \A i \in DOMAIN Chunks(17) : V6Bytes(Front(Chunks(17)[i]))
    [] row.enc = "IpIp6"         -> Len(bytes) = 4 \/ V6Bytes(bytes)
    [] row.enc = "CharIpIp6"     -> \/ Len(bytes) = 5 /\ bytes[1] = 1
                                    \/ Len(bytes) = 17 /\ bytes[1] = 2 /\ V6Bytes(Tail(bytes))
    [] row.enc = "IpIp6Port"     -> Len(bytes) = 6 \/ (Len(bytes) = 18 /\ V6Bytes(SubSeq(bytes, 1, 16)))
    [] row.enc = "Lenzero"       -> bytes = <<>>
    [] row.enc = "Ether"         -> Len(bytes) = 6
    [] row.enc = "DualQtag"      -> Len(bytes) = 4
    [] row.enc = "CharList"      -> Len(bytes) \in 2..128
    [] row.enc = "Ethermask"     -> Len(bytes) = 12
    [] row.enc = "String"        -> Bare(bytes)
    [] row.enc = "Strzero"       -> bytes # <<>> /\ Last(bytes) = 0 /\ Bare(Front(bytes))
    [] row.enc = "Hexstr"        -> bytes # <<>> /\ InSize(Len(bytes))
    [] row.enc = "UshortList"    -> Whole(2) /\ Len(bytes) \in 4..256 /\ InSize(Len(bytes) \div 2)

Reread == IF Len(bytes) \notin Lengths THEN {}
          ELSE UNION {UNION {Encoded(t) : t \in Token(listing)} : listing \in Listed}

\* Bytes survive listing and encoding if, and only if, they are such: everything
\* else ends one of the programs, is left out, or becomes other bytes.
SurvivesExactly == stage = "bytes" => (Reread = {bytes} <=> Canonical)

\* Whatever a first listing loses, a second one loses nothing more.
Settles == \A i, j \in 2..Len(history) : history[i] = history[j]
=============================================================================
