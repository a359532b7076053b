------------------------------- MODULE Decode -------------------------------
(***************************************************************************)
(* The decoder of src/decode.rs: a binary file becomes text, setting by    *)
(* setting.  Text is a sequence of statements; how one value is printed is *)
(* left out, but what is lost in printing at this level (comments, the     *)
(* dial plan moved to a file) is not.                                      *)
(*                                                                         *)
(* The recursion of decode_aggregate is an explicit stack of suspended     *)
(* calls; one step reads one setting.                                      *)
(***************************************************************************)
EXTENDS Wire

CONSTANTS
  Files,     \* the binary files to decode
  Symbols,   \* the symbol table: a sequence of [id, code, pid, dec, size]
  NoPlan     \* dialplan_output.txt does not exist

Decoders == {"aggregate", "special", "md5", "fixed", "uint24", "value",
             "vendor", "snmp"}

\* A VendorIdentifier always stands in a block.
ASSUME SymbolsAssumption ==
  /\ Symbols \in Seq([id : Nat, code : Byte, pid : Nat, dec : Decoders, size : Nat])
  /\ \A i \in DOMAIN Symbols : Symbols[i].dec = "vendor" => Symbols[i].pid # 0

ASSUME FilesAssumption == Files \subseteq Seq(Byte)

VARIABLES
  dstage,     \* "ready", "reading", "done", "exited" or "panicked"
  data,       \* the file
  nohash,     \* the -nohash option
  cur,        \* the running call: its buffer, position, symbol id and text
  calls,      \* suspended calls, innermost first
  isMta,      \* an MtaConfigDelimiter has been seen
  vspecific,  \* settings of this block are no longer interpreted
  planFile    \* dialplan_output.txt

dvars == <<dstage, data, nohash, cur, calls, isMta, vspecific, planFile>>

Call(c, b, id) == [code |-> c, buf |-> b, pos |-> 1, id |-> id, text |-> <<>>]

StartOn(b, keep) ==
  /\ dstage' = "reading" /\ data' = b /\ nohash' = keep
  /\ cur' = Call(0, b, 0) /\ calls' = <<>>
  /\ isMta' = FALSE /\ vspecific' = FALSE

Init ==
  /\ dstage = "ready" /\ data \in Files /\ nohash \in BOOLEAN
  /\ cur = Call(0, <<>>, 0) /\ calls = <<>>
  /\ isMta = FALSE /\ vspecific = FALSE /\ planFile = NoPlan

Start == dstage = "ready" /\ StartOn(data, nohash) /\ UNCHANGED planFile

-----------------------------------------------------------------------------
(* Reading one header.                                                     *)

Least(a, b)  == IF a < b THEN a ELSE b
ByteAt(b, i) == IF i \in DOMAIN b THEN b[i] ELSE 0

AtTop   == calls = <<>>
Reading == dstage = "reading" /\ cur.pos <= Len(cur.buf)
Code    == cur.buf[cur.pos]
MtaNow  == isMta \/ (AtTop /\ Code = Code_MtaDelimiter)
LongAnywhere == AtTop /\ Code = Code_LongForm  \* a slip: in any file

LongNow == AtTop /\ MtaNow /\ Code = Code_LongForm

\* The first row with this code under this parent; rows are in table order.
Row(c, pid) == {i \in DOMAIN Symbols : Symbols[i].code = c /\ Symbols[i].pid = pid}
Known(c, pid) == Row(c, pid) # {}
Sym(c, pid) == Symbols[CHOOSE i \in Row(c, pid) : \A j \in Row(c, pid) : i <= j]

\* In an MTA file TLV 64 is the long form of TLV 11.
HereCode == IF LongNow THEN Code_SnmpMibObject ELSE Code
Here     == Sym(HereCode, cur.id)
Opaque   == (~AtTop /\ vspecific) \/ ~Known(HereCode, cur.id)

ValueLen == IF LongNow THEN 256 * ByteAt(cur.buf, cur.pos + 1) + ByteAt(cur.buf, cur.pos + 2)
            ELSE ByteAt(cur.buf, cur.pos + 1)
ValueAt  == Least(cur.pos + 1 + (IF LongNow THEN 2 ELSE 1), Len(cur.buf) + 1)
Value    == SubSeq(cur.buf, ValueAt, Least(ValueAt + ValueLen, Len(cur.buf) + 1) - 1)

NextPosSet == ValueLen  \* a slip: set instead of advanced

NextPos == ValueAt + ValueLen

Stmt(k, c, n, v, in) == [kind |-> k, code |-> c, len |-> n, value |-> v, inner |-> in]
Comment == Stmt("comment", 0, 0, <<>>, <<>>)

\* The running call prints `s` and moves to the next setting.
Render(s) == /\ cur' = [cur EXCEPT !.pos = NextPos, !.text = Append(@, s)]
            /\ isMta' = MtaNow
            /\ UNCHANGED <<data, nohash, calls>>

EndedExactly == cur.pos = Len(cur.buf) + 1  \* a slip: no value runs past the end

Ended == cur.pos > Len(cur.buf)

Decodes(kinds) == Reading /\ ~Opaque /\ Here.dec \in kinds

-----------------------------------------------------------------------------
ReadUnknown ==
  LET rest == SubSeq(cur.buf, cur.pos, Len(cur.buf))
      body == IF Len(rest) > 2
              THEN SubSeq(rest, 3, Least(2 + Least(ValueLen, 256), Len(rest)))
              ELSE <<>>
  IN /\ Reading /\ Opaque
     /\ Render(Stmt("generic", Code, Least(ValueLen, 256), body, <<>>))
     /\ UNCHANGED <<dstage, vspecific, planFile>>

\* Padding, the end-of-data marker and the two MICs are printed as comments.
ReadComment ==
  /\ Decodes({"special"}) \/ (Decodes({"md5"}) /\ Len(Value) = 16)
  /\ Render(Comment)
  /\ UNCHANGED <<dstage, vspecific, planFile>>

\* A length the decoder of the value does not expect ends the program.
Mismatch == \/ Decodes({"md5"}) /\ Len(Value) # 16
            \/ Decodes({"fixed"}) /\ Len(Value) # Here.size

ExitMismatch ==
  /\ Mismatch
  /\ dstage' = "exited"
  /\ UNCHANGED <<data, nohash, cur, calls, isMta, vspecific, planFile>>

\* decode_uint24 indexes three bytes without looking at the length.
PanicUint24 ==
  /\ Decodes({"uint24"}) /\ Len(Value) < 3
  /\ dstage' = "panicked"
  /\ UNCHANGED <<data, nohash, cur, calls, isMta, vspecific, planFile>>

Setting == Stmt("setting", Here.code, Len(Value), Value, <<>>)

ReadValue ==
  /\ Decodes({"fixed", "uint24", "value"}) /\ ~Mismatch
  /\ Here.dec = "uint24" => Len(Value) >= 3
  /\ Render(Setting)
  /\ UNCHANGED <<dstage, vspecific, planFile>>

\* A vendor block is not interpreted past a non-generic VendorIdentifier.
ForeignVendor(v) == Len(v) >= 3 /\ SubSeq(v, 1, 3) # <<255, 255, 255>>

ReadVendor ==
  /\ Decodes({"vendor"})
  /\ Render(Setting)
  /\ vspecific' = (vspecific \/ ForeignVendor(Value))
  /\ UNCHANGED <<dstage, planFile>>

EnterAggregate ==
  /\ Decodes({"aggregate"})
  /\ calls' = <<[cur EXCEPT !.pos = NextPos]>> \o calls
  /\ cur' = Call(Here.code, Value, Here.id)
  /\ isMta' = MtaNow
  /\ UNCHANGED <<dstage, data, nohash, vspecific, planFile>>

\* A slip: vspecific outlives the block.
LeaveForeign ==
  LET caller == Head(calls) IN
  /\ dstage = "reading" /\ Ended /\ ~AtTop
  /\ cur' = [caller EXCEPT !.text = Append(@, Stmt("block", cur.code, 0, <<>>, cur.text))]
  /\ calls' = Tail(calls)
  /\ UNCHANGED <<dstage, data, nohash, isMta, vspecific, planFile>>

LeaveAggregate ==
  LET caller == Head(calls) IN
  /\ dstage = "reading" /\ Ended /\ ~AtTop
  /\ cur' = [caller EXCEPT !.text = Append(@, Stmt("block", cur.code, 0, <<>>, cur.text))]
  /\ calls' = Tail(calls)
  /\ vspecific' = FALSE
  /\ UNCHANGED <<dstage, data, nohash, isMta, planFile>>

Finish ==
  /\ dstage = "reading" /\ Ended /\ AtTop
  /\ dstage' = "done"
  /\ UNCHANGED <<data, nohash, cur, calls, isMta, vspecific, planFile>>

-----------------------------------------------------------------------------
(* decode_snmp_object                                                      *)

DIALPLAN_OID == SubSeq(DIALPLAN_ASN_OID, 1, 19)
At(v, i, s)  == Len(v) >= i - 1 + Len(s) /\ SubSeq(v, i, i - 1 + Len(s)) = s

IsHash(v)    == At(v, 1, <<48, 38, 6, 14>>) \/ At(v, 1, <<48, 36, 6, 12>>)
ShortPlan(v) == Len(v) >= 24 /\ At(v, 3, DIALPLAN_OID)
LongPlan(v)  == Len(v) >= 26 /\ At(v, 5, DIALPLAN_OID)

PlanBodyShort(v) ==  \* a slip: the string's length taken for one byte or two
  SubSeq(v, IF ShortPlan(v) THEN 25 ELSE 27, Len(v))

PlanBody(v) ==
  LET from == IF ShortPlan(v) THEN 25 ELSE IF At(v, 25, <<4, 130>>) THEN 29 ELSE 27
  IN SubSeq(v, from, Len(v))

ReadHash ==
  /\ Decodes({"snmp"}) /\ nohash /\ IsHash(Value)
  /\ Render(Comment)
  /\ UNCHANGED <<dstage, vspecific, planFile>>

\* A dial plan goes to a file of its own, always the same one.
ReadDialplan ==
  /\ Decodes({"snmp"}) /\ ~(nohash /\ IsHash(Value))
  /\ ShortPlan(Value) \/ LongPlan(Value)
  /\ planFile' = PlanBody(Value)
  /\ Render(Stmt("digitmap", Code_SnmpMibObject, 0, <<>>, <<>>))
  /\ UNCHANGED <<dstage, vspecific>>

ReadMibObject ==
  /\ Decodes({"snmp"}) /\ ~(nohash /\ IsHash(Value))
  /\ ~ShortPlan(Value) /\ ~LongPlan(Value)
  /\ Render(Setting)
  /\ UNCHANGED <<dstage, vspecific, planFile>>

DecodeStep ==
  \/ ReadUnknown \/ ReadComment \/ ExitMismatch \/ PanicUint24 \/ ReadValue
  \/ ReadVendor \/ EnterAggregate \/ LeaveAggregate \/ Finish
  \/ ReadHash \/ ReadDialplan \/ ReadMibObject

Next == Start \/ DecodeStep

Spec     == Init /\ [][Next]_dvars
FairSpec == Spec /\ WF_dvars(Next)

-----------------------------------------------------------------------------
CallOK(c) == /\ c.code \in Byte /\ c.buf \in Seq(Byte)
             /\ c.pos \in Nat \ {0} /\ c.id \in Nat

TypeOK ==
  /\ dstage \in {"ready", "reading", "done", "exited", "panicked"}
  /\ data \in Seq(Byte) /\ nohash \in BOOLEAN
  /\ isMta \in BOOLEAN /\ vspecific \in BOOLEAN
  /\ planFile = NoPlan \/ planFile \in Seq(Byte)
  /\ CallOK(cur) /\ \A i \in DOMAIN calls : CallOK(calls[i])

NamesForeignVendor(s) ==
  /\ s.kind = "setting" /\ ForeignVendor(s.value)
  /\ Sym(s.code, cur.id).dec = "vendor"

\* Settings stay uninterpreted only inside the block that named a foreign
\* vendor, after that name: neither an enclosing block nor a later one, nor
\* the top level, inherits it (vspecific, decode.rs:32-34 and 175).
VendorScope ==
  dstage = "reading" /\ vspecific =>
    ~AtTop /\ \E i \in DOMAIN cur.text : NamesForeignVendor(cur.text[i])

\* Whatever the bytes, the decoder comes to an end: every header moves it on,
\* also when a length runs past the end of its block.
DecodeTerminates == <>(dstage \in {"done", "exited", "panicked"})
=============================================================================
