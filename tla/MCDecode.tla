------------------------------ MODULE MCDecode ------------------------------
(***************************************************************************)
(* Decode on every byte string up to a length, over an alphabet that holds *)
(* the codes, lengths and values the decoder's branches look at, and on a  *)
(* few longer files: truncated long forms, nested vendor blocks, hashes    *)
(* and dial plans.                                                         *)
(***************************************************************************)
EXTENDS Decode

\* A cut of the symbol table that has every kind of row and both the rows for
\* TLV 64; the ids and parents are the table's.
Sy(id, c, pid, dec, size) ==
  [id |-> id, code |-> c, pid |-> pid, dec |-> dec, size |-> size]

Table == <<
  Sy(0, 0, 0, "special", 0),         \* Pad
  Sy(3, 3, 0, "value", 0),           \* NetworkAccess
  Sy(6, 4, 0, "aggregate", 0),       \* ClassOfService
  Sy(7, 1, 6, "value", 0),
  Sy(5, 7, 0, "md5", 0),             \* CmtsMic
  Sy(16, 11, 0, "snmp", 0),          \* SnmpMibObject
  Sy(1536, 11, 0, "snmp", 0),        \* DigitMap
  Sy(1288, 43, 0, "aggregate", 0),   \* VendorSpecific
  Sy(1397, 8, 1288, "vendor", 0),    \* VendorIdentifier
  Sy(202, 5, 1288, "aggregate", 0),
  Sy(1386, 43, 202, "aggregate", 0),
  Sy(1387, 8, 1386, "vendor", 0),
  Sy(443, 26, 202, "uint24", 0),     \* L2VPNDSID
  Sy(1300, 4, 202, "fixed", 2),
  Sy(341, 64, 0, "aggregate", 0),    \* CMTSStaticMulticastSessionEncodings
  Sy(157, 254, 0, "value", 0),       \* MtaConfigDelimiter
  Sy(999, 255, 0, "special", 0) >>   \* EndOfDataMkr

Rep(n, b) == [i \in 1..n |-> b]
Tlv(c, v) == <<c, Len(v)>> \o v

VendorFiles ==
  {Tlv(43, v \o w) \o <<43, 3, 5, 1, 9>> :
     v \in {Tlv(8, <<0, 0, 1>>), Tlv(8, <<255, 255, 255>>), Tlv(8, <<1>>),
            Tlv(5, Tlv(43, Tlv(8, <<1, 2, 3>>)))},
     w \in {<<>>, Tlv(5, Tlv(4, <<1, 2>>)), Tlv(5, Tlv(26, <<1>>)),
            Tlv(5, Tlv(43, Tlv(8, <<1, 2, 3>>) \o Tlv(9, <<7, 7>>)) \o Tlv(4, <<1>>)),
            Tlv(43, <<1, 2>>), <<5>>, <<8, 9, 1>>}}

Delim == Tlv(254, <<1>>)
PlanS == <<48, 30>> \o DIALPLAN_ASN_OID \o <<4, 3, 40, 120, 41>>
PlanL == <<48, 130, 1, 68>> \o DIALPLAN_ASN_OID \o <<4, 130, 1, 44>> \o Rep(300, 57)
Hash  == <<48, 38, 6, 14>> \o Rep(36, 2)

LongFiles ==
  {Tlv(11, PlanS), Tlv(11, Hash) \o Tlv(254, <<255>>),
   Delim \o <<64, 1, 72>> \o PlanL \o Tlv(11, PlanS), Delim \o <<64, 255, 255, 1>>,
   Delim \o <<64>>, Delim \o <<64, 0>>, <<64, 0, 1, 9>>, Tlv(7, Rep(16, 1)),
   Tlv(4, Tlv(64, <<1>>)) \o <<255, 0, 0>>}

Alphabet == {0, 1, 3, 4, 8, 11, 43, 64, 254, 255}
AnyBytes == UNION {[1..n -> Alphabet] : n \in 0..3}
MCFiles  == AnyBytes \cup VendorFiles \cup LongFiles
=============================================================================
