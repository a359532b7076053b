------------------------------ MODULE RoundTrip ------------------------------
(***************************************************************************)
(* Encode, decode, encode again: the composition that the regression tests *)
(* run on fixtures (tests/regression.rs:89-143).  The encoder and the      *)
(* decoder are the modules Encode and Decode, run one after the other; the *)
(* text between the second and the third run is what the parser makes of   *)
(* the decoder's statements, and dialplan_output.txt is the file through   *)
(* which a dial plan travels.                                              *)
(***************************************************************************)
EXTENDS EncodeContract

CONSTANTS Symbols, NoPlan

VARIABLES
  phase,    \* "first", "decode", "second" or "rejected"
  first,    \* the file the first run wrote
  faithful, \* ghost: the input avoids what the two directions disagree on
  dstage, data, nohash, cur, calls, isMta, vspecific, planFile

D == INSTANCE Decode WITH Files <- {}

dvars  == <<dstage, data, nohash, cur, calls, isMta, vspecific, planFile>>
rtvars == <<vars, phase, first, faithful, dvars>>

(* What a tree must avoid to be re-encoded to the same bytes.              *)

RECURSIVE LeavesOf(_)
LeavesOf(ts) == UNION {IF ts[i].block THEN LeavesOf(ts[i].children) ELSE {ts[i]} :
                         i \in DOMAIN ts}

TooLong(t) == ~t.block /\ Len(t.value) > 255
Delimited(i) == \E j \in 1..(i - 1) : tree[j].code = Code_MtaDelimiter

\* TLV 64 is long exactly behind a delimiter.
LengthsUnderstood ==
  \A i \in DOMAIN tree :
    /\ tree[i].code = Code_LongForm => ~Delimited(i)
    /\ tree[i].code = Code_SnmpMibObject /\ TooLong(tree[i]) => Delimited(i)

\* Top-level codes the decoder prints as comments, and empty values, are lost.
NothingLost ==
  /\ \A i \in DOMAIN tree : tree[i].code \notin {0, Code_CmMic, Code_CmtsMic, Code_EndOfData}
  /\ \A t \in LeavesOf(tree) : t.value # <<>>

\* Unknown values that look like text need their quoting to survive.
NothingQuoted ==
  \A t \in LeavesOf(tree) : \A i \in DOMAIN t.value : t.value[i] \notin {Quote, Backslash}

IsPlan(v) == D!ShortPlan(v) \/ D!LongPlan(v)
PlanSettings == {i \in DOMAIN tree : /\ tree[i].code = Code_SnmpMibObject
                                     /\ IsPlan(tree[i].value)}

\* One dial plan at most, with its length in one byte or in two.
OnePlan ==
  /\ Cardinality(PlanSettings) <= 1
  /\ \A i \in PlanSettings : ~D!At(tree[i].value, 25, <<4, 129>>)
  /\ opts.dialplan => PlanSettings = {} /\ DialplanFits /\ Len(dialplanFile) > 255

\* The extensions are for MTA files, and dialplan.txt is there.
ExtensionsProper == opts.dialplan \/ opts.hash # 0 => Terminated

Faithful == LengthsUnderstood /\ NothingLost /\ NothingQuoted /\ OnePlan
              /\ ExtensionsProper

-----------------------------------------------------------------------------
RTInit ==
  /\ Init
  /\ phase = "first" /\ first = <<>> /\ faithful = Faithful
  /\ dstage = "ready" /\ data = <<>> /\ nohash \in BOOLEAN
  /\ cur = D!Call(0, <<>>, 0) /\ calls = <<>>
  /\ isMta = FALSE /\ vspecific = FALSE /\ planFile = NoPlan

Encoding1 == phase = "first" /\ Next /\ UNCHANGED <<phase, first, faithful, dvars>>

Decode1 ==
  /\ phase = "first" /\ stage = "written" /\ out # <<>>
  /\ phase' = "decode" /\ first' = out
  /\ D!StartOn(out, nohash)
  /\ UNCHANGED <<vars, faithful, planFile>>

Decoding == phase = "decode" /\ D!DecodeStep /\ UNCHANGED <<vars, phase, first, faithful>>

-----------------------------------------------------------------------------
(* The parser's reading of the decoder's text.                             *)

\* decode_unknown's three shapes: TlvString, TlvStringZero, TlvValue.
AsString(s) == s.len > 1 /\ Printable(s.value)
AsZero(s)   == /\ s.len > 1 /\ s.value # <<>> /\ s.value[Len(s.value)] = 0
               /\ Printable(Cut(s.value, 1))

\* encode_vbind of a DigitMap: the string header in its shortest form, the
\* sequence header short only while 18 arcs, 8 and the body stay below 127.
StrBytes(b) == <<4>> \o (IF Len(b) < 128 THEN <<Len(b)>>
                         ELSE IF Len(b) <= 255 THEN <<129, Len(b)>>
                         ELSE <<130>> \o BE16(Len(b))) \o b
DigitMapValue(b) ==
  LET inner == DIALPLAN_ASN_OID \o StrBytes(b)
  IN <<48>> \o (IF Len(b) + 18 + 8 < 127 THEN <<Len(inner) % 256>>
                ELSE <<130>> \o BE16(Len(inner))) \o inner

\* read_dialplan: at most 8192 bytes, up to the first NUL.
MaxDialplanSize == 8192
UpToNul(b) == LET nul == SelectInSeq(b, LAMBDA c : c = 0)
              IN IF nul = 0 THEN b ELSE SubSeq(b, 1, nul - 1)

RECURSIVE Accepted(_), Parsed(_)
\* The statement gets past the lexer and the parser.
Accepted(s) ==
  CASE s.kind = "block"    -> \A i \in DOMAIN s.inner : Accepted(s.inner[i])
    [] s.kind = "digitmap" -> planFile # NoPlan /\ Len(planFile) <= MaxDialplanSize
    [] s.kind = "generic"  ->
         IF AsString(s) THEN Scans(s.value)
         ELSE IF AsZero(s) THEN Scans(Cut(s.value, 1))
         ELSE s.len > 0 /\ s.len = Len(s.value)
    [] OTHER -> TRUE

\* The settings the text stands for; comments are none.
Parsed(text) ==
  FlattenSeq([i \in DOMAIN text |->
    LET s == text[i] IN
    CASE s.kind = "comment"  -> <<>>
      [] s.kind = "block"    -> <<Block(s.code, Parsed(s.inner))>>
      [] s.kind = "digitmap" -> <<Leaf(s.code, DigitMapValue(UpToNul(planFile)))>>
      [] s.kind = "setting"  -> <<Leaf(s.code, s.value)>>
      [] s.kind = "generic"  ->
           <<Leaf(s.code, IF AsString(s) THEN Unescape(s.value)
                          ELSE IF AsZero(s) THEN Unescape(Cut(s.value, 1)) \o <<0>>
                          ELSE s.value)>>])

Decoded == phase = "decode" /\ dstage = "done"

Reject ==
  /\ Decoded /\ \E i \in DOMAIN cur.text : ~Accepted(cur.text[i])
  /\ phase' = "rejected"
  /\ UNCHANGED <<vars, first, faithful, dvars>>

\* The second run has the first's key.  It adds the hash itself only if the
\* decoder left the hash out, and takes the dial plan from the text.
Encode2 ==
  /\ Decoded /\ \A i \in DOMAIN cur.text : Accepted(cur.text[i])
  /\ phase' = "second"
  /\ tree' = Parsed(cur.text)
  /\ opts' = [opts EXCEPT !.dialplan = FALSE, !.hash = IF nohash THEN @ ELSE 0]
  /\ stage' = "parsed" /\ docsis' = opts.docsis
  /\ todo' = <<>> /\ out' = <<>> /\ stack' = <<>> /\ warnings' = 0 /\ spans' = <<>>
  /\ want' = 1 /\ pos' = 1 /\ selected' = <<>>
  /\ UNCHANGED <<dialplanFile, first, faithful, dvars>>

Encoding2 == phase = "second" /\ Next /\ UNCHANGED <<phase, first, faithful, dvars>>

RTNext == Encoding1 \/ Decode1 \/ Decoding \/ Reject \/ Encode2 \/ Encoding2

RTSpec == RTInit /\ [][RTNext]_rtvars

-----------------------------------------------------------------------------
\* "The output format is the one the encoder accepts, so a decoded file can be
\* re-encoded to the same bytes" (decode.rs:3-4, tests/regression.rs:133-136).
DecodedReencodes ==
  /\ phase # "rejected"
  /\ phase = "second" => stage # "failed" /\ (stage = "written" => out = first)

\* Every file made from a faithful tree and command line comes back byte for
\* byte, whatever mix of blocks, vendor settings, long MIB objects behind a
\* delimiter, hashes and dial plans it has (decode.rs:3-4).
FaithfulReencodes == faithful => DecodedReencodes
=============================================================================
