-------------------------------- MODULE Wire --------------------------------
(***************************************************************************)
(* The byte-level vocabulary shared by the encoder and the decoder: the    *)
(* TLV codes the program treats specially, the literal byte strings it     *)
(* splices into a file, the settings tree the parser hands over, and how the *)
(* scanner reads a quoted string.                                          *)
(***************************************************************************)
EXTENDS Integers, Sequences, SequencesExt

Byte == 0..255

Code_CmMic           == 6
Code_CmtsMic         == 7
Code_SnmpMibObject   == 11
Code_LongForm        == 64   \* also CMTSStaticMulticastSessionEncodings
Code_MtaDelimiter    == 254
Code_EndOfData       == 255

\* The top-level settings the CMTS MIC covers, in hashing order.
CMTS_MIC_TLVS == <<1, 2, 3, 4, 17, 43, 6, 18, 19, 20, 22, 23, 24, 25, 28, 29,
                   26, 35, 36, 37, 40>>

MTA_END == <<254, 1, 255>>

NA_HASH_PREFIX == <<11, 40, 48, 38, 6, 14, 43, 6, 1, 4, 1, 163, 11, 2, 2, 1,
                    1, 2, 7, 0, 4, 20>>

EU_HASH_PREFIX == <<11, 38, 48, 36, 6, 12, 43, 6, 1, 4, 1, 186, 8, 1, 1, 2,
                    9, 0, 4, 20>>

\* The ASN.1 encoding of the PacketCable 2.0 dial plan object's OID.
DIALPLAN_ASN_OID == <<6, 18, 43, 6, 1, 4, 1, 163, 11, 2, 2, 8, 2, 1, 1, 3,
                      1, 1, 2, 1>>

\* u16::to_be_bytes(n as u16): the high bits of a larger n are lost.
BE16(n) == <<(n % 65536) \div 256, n % 256>>

\* A parsed setting: a leaf with a value, or a block with children.
Leaf(c, v)   == [code |-> c, block |-> FALSE, value |-> v, children |-> <<>>]
Block(c, cs) == [code |-> c, block |-> TRUE, value |-> <<>>, children |-> cs]

\* The last n bytes cut off, as Vec::truncate(len - n).
Cut(s, n) == SubSeq(s, 1, Len(s) - n)

-----------------------------------------------------------------------------
(* Strings, from what stands between the quotes.                           *)

Quote == 34  Backslash == 92  Newline == 10  Tab == 9
MaxString == 2048

\* is_printable
Printable(v) == \A i \in DOMAIN v : v[i] \in 32..126

\* A slip: backslashes other than those before a quote kept.
UnescapeQuotes(raw) ==
  IF Backslash \notin Range(raw) THEN raw
  ELSE FlattenSeq([i \in DOMAIN raw |-> IF raw[i] = Backslash /\ raw[i + 1] = Quote THEN <<>> ELSE <<raw[i]>>])

\* A backslash before a quote goes, any other one is a space.
Unescape(raw) ==
  IF Backslash \notin Range(raw) THEN raw
  ELSE FlattenSeq([i \in DOMAIN raw |-> IF raw[i] # Backslash THEN <<raw[i]>>
                                        ELSE IF raw[i + 1] = Quote THEN <<>> ELSE <<32>>])

\* scan_string: the first quote without a backslash before it ends the string.
\* What follows a quote within is no statement.
Scans(raw) ==
  /\ Range(raw) \cap {Newline, Tab} = {}
  /\ \A i \in DOMAIN raw : raw[i] = Quote => i > 1 /\ raw[i - 1] = Backslash
  /\ raw # <<>> => Last(raw) # Backslash
  /\ Len(Unescape(raw)) <= MaxString
=============================================================================
