------------------------------- MODULE Varbind -------------------------------
(***************************************************************************)
(* The SNMP settings of src/snmp.rs, from a config file to bytes, back to  *)
(* a config file and to bytes again: encode_vbind, encode_snmp_oid,        *)
(* decode_vbind, decode_snmp_oid, decode_snmp_wd and the parser's reading  *)
(* of the type and the value.  Names are resolved to arcs (Names shows     *)
(* when that is so); a 32-bit number is its four bytes.                    *)
(***************************************************************************)
EXTENDS Ber

CONSTANTS
  Objects,  \* MIB objects: [oid, ranges, hint]
  Values    \* values a config file may give: [type, data]

\* "Control" is a SnmpWriteControl, "Bare" a setting that is an identifier.
Types == {"Int", "Gauge", "Counter", "TimeTicks", "Str", "Ip", "Oid", "Control", "Bare"}
Hints == {"none", "decimal", "fraction", "hexadecimal"}

\* Values are words, addresses, strings, arcs or, for Control, the one byte.
Data(type) ==
  CASE type \in {"Int", "Gauge", "Counter", "TimeTicks", "Ip"} -> [1..4 -> Byte]
    [] type = "Str"     -> Seq(Byte)
    [] type = "Oid"     -> Seq(0..MaxArc)
    [] type = "Control" -> [1..1 -> Byte]
    [] type = "Bare"    -> {<<>>}

ASSUME VarbindAssumption ==
  /\ \A o \in Objects : /\ o.oid \in Seq(0..MaxArc) /\ o.hint \in Hints
                        /\ o.ranges \in Seq([lo : Nat, hi : Nat])
  /\ \A v \in Values : v = [type |-> v.type, data |-> v.data] /\ v.type \in Types /\ v.data \in Data(v.type)

VARIABLES
  object,  \* what the setting names; its name is read back as it was printed
  name,    \* its identifier, as the config file at hand has it
  value,   \* the value, as the config file at hand has it
  stage,   \* "config", "bytes", "stopped"
  bytes,   \* the setting's value in the binary file
  history  \* the bytes of every encoding so far

vars == <<object, name, value, stage, bytes, history>>

Init ==
  /\ object \in Objects /\ value \in Values /\ name = object.oid
  /\ stage = "config" /\ bytes = <<>> /\ history = <<>>

Stop == stage' = "stopped" /\ UNCHANGED <<object, name, value, bytes, history>>

-----------------------------------------------------------------------------
(* encode_vbind *)

\* as i32 as i64, which a negative gauge takes too
SignExtend(w) == [i \in 1..4 |-> IF w[1] >= 128 THEN 255 ELSE 0] \o w

ValueTlv(v) ==
  CASE v.type = "Int"       -> BuildTlv(ASN_INTEGER, ShortestInt(SignExtend(v.data)))
    [] v.type = "Gauge"     -> BuildTlv(ASN_GAUGE, ShortestUnsigned(SignExtend(v.data)))
    [] v.type = "Counter"   -> BuildTlv(ASN_COUNTER, ShortestUnsigned(SignExtend(v.data)))
    [] v.type = "TimeTicks" -> BuildTlv(ASN_TIMETICKS, ShortestUnsigned(SignExtend(v.data)))
    [] v.type = "Ip"        -> BuildTlv(ASN_IPADDRESS, v.data)
    [] v.type = "Str"       -> BuildTlv(ASN_OCTET_STR, v.data)
    [] v.type = "Oid"       -> BuildObjid(v.data)

\* A slip: the three headers inside forgotten.
ShortHeaderBare(oid, v) == v.type = "Str" => Len(v.data) + Len(oid) < 127

\* Only a string may take the long header.
ShortHeader(oid, v) == v.type = "Str" => Len(v.data) + Len(oid) + 8 < 127

InSize(v) == object.ranges = <<>>
               \/ \E r \in Range(object.ranges) : Len(v.data) \in r.lo..r.hi

Bound   == value.type \notin {"Control", "Bare"}
Encodes == CASE value.type = "Str" -> InSize(value)
             [] value.type = "Oid" -> Buildable(value.data)
             [] ~Bound             -> Buildable(name)
             [] OTHER              -> TRUE

Encoding ==
  CASE Bound                  -> BuildVarOp(name, ValueTlv(value), ShortHeader(name, value))
    [] value.type = "Control" -> BuildObjid(name) \o value.data
    [] value.type = "Bare"    -> BuildObjid(name)

Encode ==
  /\ stage = "config" /\ Encodes
  /\ bytes' = Encoding /\ history' = Append(history, bytes')
  /\ stage' = "bytes"
  /\ UNCHANGED <<object, name, value>>

\* Nothing is written: the encoder exits.
EncodeStops == stage = "config" /\ ~Encodes /\ Stop

-----------------------------------------------------------------------------
(* decode_vbind and take_var_value *)

Word(i64) == SubSeq(i64, 5, 8)

\* Digits of a word, and the word that decimal digits say.
HexDigits(w) ==
  LET all == [i \in 1..8 |-> IF i % 2 = 1 THEN w[(i + 1) \div 2] \div 16 ELSE w[i \div 2] % 16]
      k   == CHOOSE k \in 1..8 : (\A j \in 1..k - 1 : all[j] = 0) /\ (k = 8 \/ all[k] # 0)
  IN SubSeq(all, k, 8)
WordOf(n) == <<n \div 16777216, (n \div 65536) % 256, (n \div 256) % 256, n % 256>>
Decimal(digits) == WordOf(Number(10, digits))

\* hinted_integer and expect_integer: a fraction is no integer, nor is a number
\* with a letter among its digits; hexadecimal digits are read as decimal ones.
ReadNumber(w, hint) ==
  CASE hint = "fraction"    -> {}
    [] hint = "hexadecimal" -> IF \A d \in Range(HexDigits(w)) : d < 10
                               THEN {Decimal(HexDigits(w))} ELSE {}
    [] OTHER                -> {w}

\* A string of printable characters stands between quotes as it is, any other in
\* hexadecimal digits, of which nothing is lost.
ReadString(s) == IF ~Printable(s) THEN {s} ELSE IF Scans(s) THEN {Unescape(s)} ELSE {}

\* The type a tag is printed as, and what that type is read as.
Shown(vb) ==
  CASE vb.tag = ASN_INTEGER ->
         {[type |-> "Int", data |-> w] : w \in ReadNumber(Word(ParseInt(vb.value)), object.hint)}
    [] vb.tag = ASN_GAUGE ->
         {[type |-> "Gauge", data |-> w] : w \in ReadNumber(Word(ParseUnsigned(vb.value)), object.hint)}
    [] vb.tag = ASN_COUNTER ->
         {[type |-> "Counter", data |-> w] : w \in ReadNumber(Word(ParseUnsigned(vb.value)), object.hint)}
    [] vb.tag = ASN_TIMETICKS -> {[type |-> "TimeTicks", data |-> Word(ParseUnsigned(vb.value))]}
    [] vb.tag = ASN_IPADDRESS -> IF Len(vb.value) >= 4
                                 THEN {[type |-> "Ip", data |-> SubSeq(vb.value, 1, 4)]} ELSE {}
    [] vb.tag = ASN_OCTET_STR -> {[type |-> "Str", data |-> s] : s \in ReadString(vb.value)}
    [] vb.tag = ASN_OBJECT_ID -> {[type |-> "Oid", data |-> o] : o \in ParseObjidBody(vb.value)}
    [] OTHER                  -> {}

\* What the config file then says: [name, value], or nothing that can be read.
Decoded ==
  CASE Bound -> UNION {{[name |-> vb.name, value |-> v] : v \in Shown(vb)} : vb \in ParseVarOp(bytes)}
    [] value.type = "Control" ->
         {[name |-> o, value |-> [type |-> "Control", data |-> <<Last(bytes)>>]]
            : o \in ParseObjid(Front(bytes))}
    [] value.type = "Bare" -> {[name |-> o, value |-> value] : o \in ParseObjid(bytes)}

Decode ==
  /\ stage = "bytes"
  /\ \E d \in Decoded : name' = d.name /\ value' = d.value
  /\ stage' = "config"
  /\ UNCHANGED <<object, bytes, history>>

\* The decoded file cannot be read.
DecodeStops == stage = "bytes" /\ Decoded = {} /\ Stop

Rounds == Len(history) < 3  \* bound: encodings of one setting

Next == (Rounds /\ (Encode \/ EncodeStops)) \/ Decode \/ DecodeStops

Spec == Init /\ [][Next]_vars

-----------------------------------------------------------------------------
TypeOK ==
  /\ object \in Objects /\ name \in Seq(0..MaxArc)
  /\ value = [type |-> value.type, data |-> value.data] /\ value.type \in Types /\ value.data \in Data(value.type)
  /\ stage \in {"config", "bytes", "stopped"}
  /\ bytes \in Bytes /\ history \in Seq(Bytes)

\* What the encoder was given: identifiers below one of the three roots, with a
\* second arc that leaves the first one recognisable and does not wrap.
Proper(oid) == Len(oid) >= 2 /\ oid[1] <= 2 /\ oid[2] < IF oid[1] < 2 THEN 40 ELSE MaxArc - 79

\* The test for the short header counts an arc as a byte and leaves room for six
\* more; it is made for strings only.  No header has more than two length bytes.
Compact == LET size == Len(BuildObjid(name) \o ValueTlv(value))
           IN IF value.type = "Str" THEN Len(ObjidBody(name)) - Len(name) < 6 /\ size < 65536 ELSE size < 128

Regular == /\ Proper(name) /\ (value.type = "Oid" => Proper(value.data))
           /\ IF Bound THEN Compact ELSE Len(ObjidBody(name)) < 65536

\* Strings that stand between quotes as they are, or in no quotes at all.
Legible(s) == Printable(s) => Range(s) \cap {Quote, Backslash} = {} /\ Len(s) <= MaxString

\* A setting that is written is read back as the setting it was, whatever the
\* width and sign of its number, the length of its string and the size of the
\* arcs, unless a display hint changes how a number is printed; a string if, and
\* only if, it is legible (snmp.rs:156-163 against lexer.rs:279-317).
SettingSurvives ==
  stage = "bytes" /\ Regular /\ (Bound => object.hint \in {"none", "decimal"}) =>
    (Decoded = {[name |-> name, value |-> value]} <=> (value.type = "Str" => Legible(value.data)))

\* Every header states exactly what is behind it, and integers take the fewest
\* bytes, whose first nine bits are not all alike.
Exact(t, d) == t.size = Len(d)
Shortest(t) == t.tag = ASN_INTEGER /\ Len(t.value) > 1 => ~Redundant(t.value[1], t.value[2])
FramesExact ==
  stage = "bytes" /\ Bound /\ Regular =>
    \E q \in ParseTlv(bytes) :
      /\ Exact(q, bytes)
      /\ \E n \in ParseTlv(q.value) :
           LET behind == SubSeq(q.value, n.size + 1, Len(q.value))
           IN \E v \in ParseTlv(behind) : Exact(v, behind) /\ Shortest(v)

\* "... a decoded file can be re-encoded to the same bytes" (decode.rs:3-4).
Reencodes == /\ stage = "stopped" => history = <<>>
             /\ \A i, j \in DOMAIN history : history[i] = history[j]
=============================================================================
