--------------------------------- MODULE Ber ---------------------------------
(***************************************************************************)
(* BER as src/asn1.rs writes and reads it.  Bytes are numbers below 256;   *)
(* an i64 is its eight bytes, most significant first.  A result that may   *)
(* be None is a set of at most one element.                                *)
(***************************************************************************)
EXTENDS Wire

CONSTANT MaxArc  \* the greatest sub-identifier: u32::MAX

\* Five groups of seven bits hold it.
ASSUME MaxArcAssumption == MaxArc \in Nat /\ MaxArc >= 80 /\ MaxArc \div 268435456 < 128

Bytes == Seq(Byte)

ASN_INTEGER   == 2
ASN_OCTET_STR == 4
ASN_OBJECT_ID == 6
ASN_SEQUENCE  == 48
ASN_IPADDRESS == 64
ASN_COUNTER   == 65
ASN_GAUGE     == 66
ASN_TIMETICKS == 67

-----------------------------------------------------------------------------
(* Building                                                                *)

BuildLength(n) ==
  IF n < 128 THEN <<n>>
  ELSE IF n <= 255 THEN <<129, n>>
  ELSE <<130, (n \div 256) % 256, n % 256>>

BuildTlv(tag, value) == <<tag>> \o BuildLength(Len(value)) \o value

\* A slip: the sign bit of the byte behind is not looked at.
RedundantAny(b, next) == b \in {0, 255}

\* A leading byte that only repeats the sign of the next.
Redundant(b, next) == (b = 0 /\ next < 128) \/ (b = 255 /\ next >= 128)

\* build_int: no leading byte can be dropped, and one byte stays at least.
ShortestInt(i64) ==
  LET k == CHOOSE k \in 1..8 :
             /\ \A j \in 1..k - 1 : Redundant(i64[j], i64[j + 1])
             /\ k = 8 \/ ~Redundant(i64[k], i64[k + 1])
  IN SubSeq(i64, k, 8)

\* build_unsigned_int: no leading zero, but one before a high bit.
ShortestUnsigned(u64) ==
  LET k == CHOOSE k \in 1..8 : (\A j \in 1..k - 1 : u64[j] = 0) /\ (k = 8 \/ u64[k] # 0)
  IN (IF u64[k] >= 128 THEN <<0>> ELSE <<>>) \o SubSeq(u64, k, 8)

\* encode_subid: groups of seven bits, all but the last marked.
Shifts    == <<268435456, 2097152, 16384, 128, 1>>
Groups(v) == IF v < 128 THEN 1 ELSE IF v < 16384 THEN 2
             ELSE IF v < 2097152 THEN 3 ELSE IF v < 268435456 THEN 4 ELSE 5
EncodeSubid(v) ==
  [i \in 1..Groups(v) |->
     ((v \div Shifts[5 - Groups(v) + i]) % 128) + (IF i < Groups(v) THEN 128 ELSE 0)]

\* The first two arcs share a number, which a large second one wraps.
Shared(a, b) == IF b > MaxArc - a * 40 THEN b - (MaxArc - a * 40) - 1 ELSE a * 40 + b
Subids(oid) ==
  CASE oid = <<>>     -> <<0>>
    [] Len(oid) = 1   -> <<oid[1] * 40>>
    [] OTHER          -> <<Shared(oid[1], oid[2])>> \o SubSeq(oid, 3, Len(oid))

Buildable(oid)  == oid = <<>> \/ oid[1] <= 2
ObjidBody(oid)  == FlattenSeq([i \in DOMAIN Subids(oid) |-> EncodeSubid(Subids(oid)[i])])
BuildObjid(oid) == BuildTlv(ASN_OBJECT_ID, ObjidBody(oid))

\* build_var_op does not look at what build_objid says: an identifier that
\* cannot be built is left out.
BuildVarOp(oid, val, short) ==
  LET inner == (IF Buildable(oid) THEN BuildObjid(oid) ELSE <<>>) \o val
  IN <<ASN_SEQUENCE>>
       \o (IF short THEN <<Len(inner) % 256>>
           ELSE <<130, (Len(inner) \div 256) % 256, Len(inner) % 256>>)
       \o inner

-----------------------------------------------------------------------------
(* Parsing                                                                 *)

\* The number that digits say.
Number(base, digits) ==
  LET n[i \in 0..Len(digits)] == IF i = 0 THEN 0 ELSE n[i - 1] * base + digits[i]
  IN n[Len(digits)]

\* At most four length bytes behind the first, none of which may be missing.
ParseTlv(d) ==
  IF Len(d) < 2 THEN {}
  ELSE LET count == IF d[2] < 128 THEN 0 ELSE d[2] - 128
           head  == 2 + count
       IN IF (d[2] >= 128 /\ count \notin 1..4) \/ Len(d) < head THEN {}
          ELSE LET n == IF count = 0 THEN d[2] ELSE Number(256, SubSeq(d, 3, head))
               IN IF Len(d) < head + n THEN {}
                  ELSE {[tag |-> d[1], value |-> SubSeq(d, head + 1, head + n), size |-> head + n]}

\* The last eight bytes count, extended by the sign or by zeros.
Low(n, b, fill) == [i \in 1..n |-> IF i + Len(b) > n THEN b[i + Len(b) - n] ELSE fill]
ParseInt(b)      == Low(8, b, IF b # <<>> /\ b[1] >= 128 THEN 255 ELSE 0)
ParseUnsigned(b) == Low(8, b, 0)

FirstArcs(v) == IF v < 40 THEN <<0, v>> ELSE IF v < 80 THEN <<1, v - 40>> ELSE <<2, v - 80>>

\* The number that seven bits of each byte make, or -1 if it overflows.
SubidNumber(bs) ==
  LET v[i \in 0..Len(bs)] ==
        IF i = 0 THEN 0
        ELSE LET before == v[i - 1]
             IN IF before = -1 \/ before > (MaxArc - (bs[i] % 128)) \div 128 THEN -1
                ELSE before * 128 + (bs[i] % 128)
  IN v[Len(bs)]

\* A sub-identifier ends with the next byte below 128.
NextEnd(bs, from) ==
  IF from = Len(bs) THEN from
  ELSE CHOOSE i \in from + 1..Len(bs) : bs[i] < 128 /\ \A j \in from + 1..i - 1 : bs[j] >= 128
ReadSubids(bs) ==
  LET end[k \in 0..Len(bs)] == IF k = 0 THEN 0 ELSE NextEnd(bs, end[k - 1])
      count == CHOOSE n \in 1..Len(bs) : end[n] = Len(bs) /\ end[n - 1] # Len(bs)
  IN [k \in 1..count |-> SubidNumber(SubSeq(bs, end[k - 1] + 1, end[k]))]

ParseObjidBody(bs) ==
  IF bs = <<>> THEN {<<>>}
  ELSE IF Last(bs) >= 128 \/ -1 \in Range(ReadSubids(bs)) THEN {}
  ELSE LET v == ReadSubids(bs) IN {FirstArcs(v[1]) \o Tail(v)}

ParseObjid(d) ==
  UNION {ParseObjidBody(t.value) : t \in {t \in ParseTlv(d) : t.tag = ASN_OBJECT_ID}}

\* SEQUENCE { OBJECT IDENTIFIER, value }
ParseVarOp(d) ==
  UNION { UNION {
    {[name |-> name, tag |-> val.tag, value |-> val.value]
       : name \in ParseObjidBody(t.value),
         val \in ParseTlv(SubSeq(q.value, t.size + 1, Len(q.value)))}
    : t \in {t \in ParseTlv(q.value) : t.tag = ASN_OBJECT_ID}}
    : q \in {q \in ParseTlv(d) : q.tag = ASN_SEQUENCE} }
=============================================================================
