---------------------------- MODULE DecodeProofs ----------------------------
(***************************************************************************)
(* For every file, every symbol table and both settings of -nohash: what   *)
(* the decoder holds is of its type, and settings stay uninterpreted only  *)
(* inside the block that named a foreign vendor.                           *)
(***************************************************************************)
EXTENDS Decode, ProofLemmas

\* A part of some bytes is bytes.
LEMMA PartOfBytes ==
  ASSUME NEW b \in Seq(Byte), NEW m \in Nat \ {0}, NEW n \in Int, n <= Len(b)
  PROVE  SubSeq(b, m, n) \in Seq(Byte)
<1>1. \A k \in m..n : b[k] \in Byte
  OBVIOUS
<1> QED BY <1>1, SubSeqProperties

-----------------------------------------------------------------------------
(* The symbol table.                                                       *)

\* A row that is there is found.
LEMMA SymIsARow ==
  ASSUME NEW c, NEW pid, Known(c, pid)
  PROVE  /\ Sym(c, pid).code = c /\ Sym(c, pid).pid = pid
         /\ Sym(c, pid).code \in Byte /\ Sym(c, pid).id \in Nat
         /\ Sym(c, pid).dec \in Decoders
         /\ Sym(c, pid).dec = "vendor" => pid # 0
<1> DEFINE R == Row(c, pid)
<1>1. R \subseteq Nat /\ R # {}
  BY SymbolsAssumption DEF Row, Known
<1>2. \E i \in R : \A j \in R : i <= j
  BY <1>1, LeastNat
<1>3. PICK i \in R : Sym(c, pid) = Symbols[i]
  BY <1>2 DEF Sym
<1>4. i \in DOMAIN Symbols /\ Symbols[i].code = c /\ Symbols[i].pid = pid
  BY <1>3 DEF Row
<1>5. Symbols[i] \in [id : Nat, code : Byte, pid : Nat, dec : Decoders, size : Nat]
  <2> DEFINE Rows == [id : Nat, code : Byte, pid : Nat, dec : Decoders, size : Nat]
  <2>1. Symbols \in Seq(Rows)
    BY SymbolsAssumption
  <2> HIDE DEF Rows
  <2>2. Symbols[i] \in Rows
    BY <1>4, <2>1
  <2> QED BY <2>2 DEF Rows
<1> QED BY <1>3, <1>4, <1>5, SymbolsAssumption

-----------------------------------------------------------------------------
(* What the decoder holds.                                                 *)

\* A call: what it is about is read off its block, what it has printed is a
\* sequence of statements.
Shape(c) == /\ DOMAIN c = {"code", "buf", "pos", "id", "text"}
            /\ CallOK(c) /\ IsSeq(c.text)

\* The calls are a stack, and the one at its bottom is about the whole file.
Stack ==
  /\ IsSeq(calls) /\ Shape(cur) /\ \A i \in DOMAIN calls : Shape(calls[i])
  /\ calls = <<>> => cur.id = 0
  /\ calls # <<>> => calls[Len(calls)].id = 0

Held == TypeOK /\ Stack

\* A call begins at the first byte of its block.
LEMMA CallShape ==
  ASSUME NEW c \in Byte, NEW b \in Seq(Byte), NEW id \in Nat
  PROVE  Shape(Call(c, b, id)) /\ Call(c, b, id).id = id
<1>1. IsSeq(<<>>)
  BY DEF IsSeq
<1> QED BY <1>1 DEF Call, Shape, CallOK

\* What is read of a header, of however few bytes.
LEMMA HeaderTyped ==
  ASSUME Held, Reading
  PROVE  /\ Code \in Byte /\ HereCode \in Byte /\ ValueLen \in Nat
         /\ NextPos \in Nat \ {0} /\ Value \in Seq(Byte)
<1>1. /\ cur.buf \in Seq(Byte) /\ cur.pos \in Nat \ {0} /\ Len(cur.buf) \in Nat
      /\ cur.pos <= Len(cur.buf)
  BY DEF Held, Stack, Shape, CallOK, Reading
<1>2. Code \in Byte /\ HereCode \in Byte
  <2>1. Code \in Byte
    BY <1>1 DEF Code
  <2>2. Code_SnmpMibObject \in Byte
    BY DEF Code_SnmpMibObject, Byte
  <2> QED BY <2>1, <2>2 DEF HereCode
<1>3. \A n : ByteAt(cur.buf, n) \in Byte
  <2>1. 0 \in Byte
    BY DEF Byte
  <2> QED BY <1>1, <2>1 DEF ByteAt
<1>4. ValueLen \in Nat
  <2> DEFINE m == ByteAt(cur.buf, cur.pos + 1)
             n == ByteAt(cur.buf, cur.pos + 2)
  <2>1. m \in 0..255 /\ n \in 0..255
    BY <1>3 DEF Byte
  <2>2. ValueLen \in {256 * m + n, m}
    BY DEF ValueLen
  <2> HIDE DEF m, n
  <2> QED BY <2>1, <2>2
<1>5. ValueAt \in Nat \ {0}
  BY <1>1 DEF ValueAt, Least
<1>6. NextPos \in Nat \ {0}
  BY <1>4, <1>5 DEF NextPos
<1>7. Value \in Seq(Byte)
  <2> DEFINE n == Least(ValueAt + ValueLen, Len(cur.buf) + 1) - 1
  <2>1. n \in Int /\ n <= Len(cur.buf)
    BY <1>1, <1>4, <1>5 DEF Least
  <2> QED BY <1>1, <1>5, <2>1, PartOfBytes DEF Value
<1> QED BY <1>2, <1>4, <1>6, <1>7

\* Printing a statement keeps the call a call.
LEMMA PrintShape ==
  ASSUME NEW c, Shape(c), NEW s, NEW p \in Nat \ {0}
  PROVE  LET d == [c EXCEPT !.pos = p, !.text = Append(@, s)]
             e == [c EXCEPT !.text = Append(@, s)]
             f == [c EXCEPT !.pos = p]
         IN /\ Shape(d) /\ d.id = c.id /\ d.text = Append(c.text, s)
            /\ Shape(e) /\ e.id = c.id
            /\ Shape(f) /\ f.id = c.id
<1>1. IsSeq(Append(c.text, s))
  BY AppendAt DEF Shape
<1> QED BY <1>1 DEF Shape, CallOK

\* The decoder starts with an empty call.
LEMMA HeldInit == Init => Held
<1> SUFFICES ASSUME Init PROVE Held
  OBVIOUS
<1>1. data \in Seq(Byte)
  BY FilesAssumption DEF Init
<1>2. Shape(cur) /\ cur.id = 0
  <2>1. 0 \in Byte /\ <<>> \in Seq(Byte)
    BY DEF Byte
  <2> QED BY <2>1, CallShape DEF Init
<1>3. calls = <<>> /\ IsSeq(calls)
  BY DEF Init, IsSeq
<1>4. Stack
  BY <1>2, <1>3 DEF Stack
<1>5. TypeOK
  <2>1. CallOK(cur) /\ \A i \in DOMAIN calls : CallOK(calls[i])
    BY <1>2, <1>3 DEF Shape
  <2>2. /\ nohash \in BOOLEAN /\ isMta \in BOOLEAN /\ vspecific \in BOOLEAN
        /\ dstage = "ready" /\ planFile = NoPlan
    BY DEF Init
  <2> QED BY <1>1, <2>1, <2>2 DEF TypeOK
<1> QED BY <1>4, <1>5 DEF Held

\* Printing one statement, whichever it is.
LEMMA HeldPrint ==
  ASSUME Held, Reading, NEW s, Render(s), dstage' = dstage,
         vspecific' \in BOOLEAN, planFile' = NoPlan \/ planFile' \in Seq(Byte)
  PROVE  /\ Held'
         /\ calls' = calls /\ cur'.id = cur.id /\ cur'.text = Append(cur.text, s)
<1>1. /\ cur' = [cur EXCEPT !.pos = NextPos, !.text = Append(@, s)]
      /\ calls' = calls /\ data' = data /\ nohash' = nohash /\ isMta' \in BOOLEAN
  BY DEF Render, MtaNow, Held, TypeOK
<1>2. Shape(cur') /\ cur'.id = cur.id /\ cur'.text = Append(cur.text, s)
  BY <1>1, HeaderTyped, PrintShape, ZenonT(30) DEF Held, Stack
<1>3. Stack'
  BY <1>1, <1>2 DEF Held, Stack
<1>4. TypeOK'
  BY <1>1, <1>2, <1>3 DEF Held, TypeOK, Stack, Shape
<1> QED BY <1>1, <1>2, <1>3, <1>4 DEF Held


\* A block is entered: the caller waits behind it.
LEMMA HeldEnter ==
  ASSUME Held, EnterAggregate
  PROVE  Held' /\ calls' # <<>>
<1> DEFINE c == [cur EXCEPT !.pos = NextPos]
<1>1. /\ Reading /\ Known(HereCode, cur.id)
      /\ calls' = <<c>> \o calls /\ cur' = Call(Here.code, Value, Here.id)
      /\ isMta' = MtaNow /\ UNCHANGED <<dstage, data, nohash, vspecific, planFile>>
  BY DEF EnterAggregate, Decodes, Opaque
<1>2. Shape(cur') /\ Shape(c) /\ c.id = cur.id
  <2>1. Here.code \in Byte /\ Here.id \in Nat
    BY <1>1, SymIsARow DEF Here
  <2> QED BY <1>1, <2>1, CallShape, HeaderTyped, PrintShape DEF Held, Stack
<1> HIDE DEF c
<1>3. /\ IsSeq(calls') /\ Len(calls) \in Nat /\ Len(calls') = Len(calls) + 1
      /\ DOMAIN calls' = 1..(Len(calls) + 1) /\ DOMAIN calls = 1..Len(calls)
      /\ calls'[1] = c /\ \A j \in 1..Len(calls) : calls'[j + 1] = calls[j]
  BY <1>1, ConsAt DEF Held, Stack
<1>4. ASSUME NEW j \in DOMAIN calls' PROVE Shape(calls'[j])
  <2>1. CASE j = 1
    BY <1>2, <1>3, <2>1
  <2>2. CASE j # 1
    <3>1. j - 1 \in 1..Len(calls) /\ calls'[j] = calls[j - 1]
      BY <1>3, <2>2
    <3> QED BY <1>3, <3>1 DEF Held, Stack
  <2> QED BY <2>1, <2>2
<1>5. calls' # <<>> /\ calls'[Len(calls')].id = 0
  <2>1. calls' # <<>>
    BY <1>3
  <2>2. CASE calls = <<>>
    <3>1. Len(calls) = 0
      BY <2>2
    <3>2. calls'[Len(calls')] = c /\ cur.id = 0
      BY <1>3, <2>2, <3>1 DEF Held, Stack
    <3> QED BY <1>2, <2>1, <3>2
  <2>3. CASE calls # <<>>
    <3>1. Len(calls) \in 1..Len(calls)
      BY <1>3, <2>3 DEF Held, Stack, IsSeq
    <3>2. calls'[Len(calls')] = calls[Len(calls)]
      BY <1>3, <3>1
    <3> QED BY <2>1, <2>3, <3>2 DEF Held, Stack
  <2> QED BY <2>1, <2>2, <2>3
<1>6. Stack'
  BY <1>2, <1>3, <1>4, <1>5 DEF Stack
<1>7. TypeOK'
  BY <1>1, <1>2, <1>4 DEF Held, TypeOK, Shape, MtaNow
<1> QED BY <1>5, <1>6, <1>7 DEF Held

\* A block is left: its caller prints it.
LEMMA HeldLeave ==
  ASSUME Held, LeaveAggregate
  PROVE  Held'
<1> DEFINE s == Stmt("block", cur.code, 0, <<>>, cur.text)
           c == Head(calls)
<1>1. /\ calls # <<>> /\ calls' = Tail(calls) /\ cur' = [c EXCEPT !.text = Append(@, s)]
      /\ vspecific' = FALSE /\ UNCHANGED <<dstage, data, nohash, isMta, planFile>>
  BY DEF LeaveAggregate, AtTop
<1>2. /\ IsSeq(calls') /\ Len(calls) \in Nat \ {0} /\ Len(calls') = Len(calls) - 1
      /\ c = calls[1] /\ DOMAIN calls' = 1..(Len(calls) - 1) /\ DOMAIN calls = 1..Len(calls)
      /\ \A j \in 1..(Len(calls) - 1) : calls'[j] = calls[j + 1]
  BY <1>1, TailAt DEF Held, Stack
<1> HIDE DEF s, c
<1>3. Shape(c)
  BY <1>2 DEF Held, Stack
<1>4. Shape(cur') /\ cur'.id = c.id
  <2>1. 1 \in Nat \ {0}
    OBVIOUS
  <2> QED BY <1>1, <1>3, <2>1, PrintShape
<1>5. \A j \in DOMAIN calls' : Shape(calls'[j])
  <2>1. \A j \in 1..(Len(calls) - 1) : j + 1 \in DOMAIN calls
    BY <1>2
  <2> QED BY <1>2, <2>1 DEF Held, Stack
<1>6. calls' = <<>> => cur'.id = 0
  <2>1. calls' = <<>> => Len(calls) = 1
    BY <1>2
  <2> QED BY <1>1, <1>2, <1>4, <2>1 DEF Held, Stack
<1>7. calls' # <<>> => calls'[Len(calls')].id = 0
  <2>1. calls' # <<>> => Len(calls') \in 1..(Len(calls) - 1)
    BY <1>2 DEF IsSeq
  <2>2. calls' # <<>> => calls'[Len(calls')] = calls[Len(calls)]
    BY <1>2, <2>1
  <2> QED BY <1>1, <2>2 DEF Held, Stack
<1>8. Stack'
  BY <1>2, <1>4, <1>5, <1>6, <1>7 DEF Stack
<1>9. TypeOK'
  BY <1>1, <1>4, <1>5 DEF Held, TypeOK, Shape
<1> QED BY <1>8, <1>9 DEF Held

\* The start and the end of a run, and what stops it, leave the calls alone.
LEMMA HeldStay ==
  ASSUME Held, dstage' \in {"reading", "done", "exited", "panicked"},
         UNCHANGED <<data, nohash, isMta, vspecific, planFile>>, UNCHANGED <<cur, calls>>
  PROVE  Held'
<1>1. Stack'
  BY DEF Held, Stack
<1>2. TypeOK'
  BY DEF Held, TypeOK, CallOK
<1> QED BY <1>1, <1>2 DEF Held

\* So every step keeps its types.
LEMMA HeldStep == Held /\ [Next]_dvars => Held'
<1> SUFFICES ASSUME Held, [Next]_dvars PROVE Held'
  OBVIOUS
<1>1. CASE Start
  <2>1. /\ data' = data /\ cur' = Call(0, data, 0) /\ calls' = <<>> /\ planFile' = planFile
        /\ dstage' = "reading" /\ nohash' = nohash /\ isMta' = FALSE /\ vspecific' = FALSE
    BY <1>1 DEF Start, StartOn
  <2>2. Shape(cur') /\ cur'.id = 0
    <3>1. 0 \in Byte /\ 0 \in Nat /\ data \in Seq(Byte)
      BY DEF Byte, Held, TypeOK
    <3> QED BY <2>1, <3>1, CallShape
  <2>3. Stack'
    BY <2>1, <2>2 DEF Stack, IsSeq
  <2>4. CallOK(cur') /\ \A i \in DOMAIN calls' : CallOK(calls'[i])
    BY <2>1, <2>2 DEF Shape
  <2>5. TypeOK'
    BY <2>1, <2>4 DEF Held, TypeOK
  <2> QED BY <2>3, <2>5 DEF Held
<1>2. CASE ReadUnknown \/ ReadComment \/ ReadValue \/ ReadHash \/ ReadMibObject
  <2>1. PICK s : Render(s) /\ dstage' = dstage /\ vspecific' = vspecific /\ planFile' = planFile
    BY <1>2 DEF ReadUnknown, ReadComment, ReadValue, ReadHash, ReadMibObject
  <2>2. Reading
    BY <1>2 DEF ReadUnknown, ReadComment, ReadValue, ReadHash, ReadMibObject, Decodes
  <2>3. vspecific' \in BOOLEAN /\ (planFile' = NoPlan \/ planFile' \in Seq(Byte))
    BY <2>1 DEF Held, TypeOK
  <2> QED BY <2>1, <2>2, <2>3, HeldPrint
<1>3. CASE ReadVendor
  <2>1. /\ Render(Setting) /\ Reading /\ dstage' = dstage /\ planFile' = planFile
        /\ vspecific' = (vspecific \/ ForeignVendor(Value))
    BY <1>3 DEF ReadVendor, Decodes
  <2>2. vspecific' \in BOOLEAN /\ (planFile' = NoPlan \/ planFile' \in Seq(Byte))
    BY <2>1 DEF Held, TypeOK
  <2> QED BY <2>1, <2>2, HeldPrint
<1>4. CASE ReadDialplan
  <2>1. /\ Render(Stmt("digitmap", Code_SnmpMibObject, 0, <<>>, <<>>)) /\ Reading
        /\ dstage' = dstage /\ planFile' = PlanBody(Value) /\ vspecific' = vspecific
    BY <1>4 DEF ReadDialplan, Decodes
  <2>2. planFile' \in Seq(Byte)
    <3>1. Value \in Seq(Byte)
      BY <2>1, HeaderTyped
    <3>2. Len(Value) \in Int /\ Len(Value) <= Len(Value)
      BY <3>1
    <3> QED BY <2>1, <3>1, <3>2, PartOfBytes DEF PlanBody
  <2>3. vspecific' \in BOOLEAN
    BY <2>1 DEF Held, TypeOK
  <2> QED BY <2>1, <2>2, <2>3, HeldPrint
<1>5. CASE ExitMismatch \/ PanicUint24 \/ Finish
  BY <1>5, HeldStay DEF ExitMismatch, PanicUint24, Finish
<1>6. CASE UNCHANGED dvars
  <2>1. UNCHANGED <<data, nohash, isMta, vspecific, planFile, cur, calls, dstage>>
    BY <1>6 DEF dvars
  <2>2. Stack'
    BY <2>1 DEF Held, Stack
  <2>3. TypeOK'
    BY <2>1 DEF Held, TypeOK, CallOK
  <2> QED BY <2>2, <2>3 DEF Held
<1>7. CASE EnterAggregate
  BY <1>7, HeldEnter
<1>8. CASE LeaveAggregate
  BY <1>8, HeldLeave
<1> QED BY <1>1, <1>2, <1>3, <1>4, <1>5, <1>6, <1>7, <1>8 DEF Next, DecodeStep

\* Whatever the bytes, what the decoder holds is of its type: every position
\* is one, and every value it cuts out is bytes, also where a length runs past
\* the end of its block.
THEOREM DecodeTypes == Spec => []TypeOK
<1>1. Held => TypeOK
  BY DEF Held
<1> QED BY <1>1, HeldInit, HeldStep, PTL DEF Spec

-----------------------------------------------------------------------------
(* Where settings stay uninterpreted.                                      *)

\* Printing behind the vendor's name keeps the name.
LEMMA NameStays ==
  ASSUME Held, NEW s, cur'.id = cur.id, cur'.text = Append(cur.text, s)
  PROVE  /\ \A i \in DOMAIN cur.text :
              NamesForeignVendor(cur.text[i]) =>
                i \in DOMAIN cur'.text /\ NamesForeignVendor(cur.text[i])'
         /\ Len(cur.text) + 1 \in DOMAIN cur'.text /\ cur'.text[Len(cur.text) + 1] = s
<1>1. IsSeq(cur.text)
  BY DEF Held, Stack, Shape
<1>2. /\ DOMAIN cur'.text = 1..(Len(cur.text) + 1) /\ DOMAIN cur.text = 1..Len(cur.text)
      /\ cur'.text[Len(cur.text) + 1] = s /\ Len(cur.text) \in Nat
      /\ \A j \in 1..Len(cur.text) : cur'.text[j] = cur.text[j]
  BY <1>1, AppendAt
<1>3. \A j \in 1..Len(cur.text) : j \in 1..(Len(cur.text) + 1)
  BY <1>2
<1>4. 1 <= Len(cur.text) + 1
  BY <1>2
<1> QED BY <1>2, <1>3, <1>4 DEF NamesForeignVendor

\* Printing leaves the scope of the vendor as it is.
LEMMA ScopePrint ==
  ASSUME Held, VendorScope, dstage = "reading", Reading,
         NEW s, Render(s), dstage' = dstage, vspecific' = vspecific, planFile' = NoPlan \/ planFile' \in Seq(Byte)
  PROVE  VendorScope'
<1>1. calls' = calls /\ cur'.id = cur.id /\ cur'.text = Append(cur.text, s)
  <2>1. vspecific' \in BOOLEAN
    BY DEF Held, TypeOK
  <2> QED BY <2>1, HeldPrint
<1>2. SUFFICES ASSUME vspecific PROVE VendorScope'
  BY DEF VendorScope
<1>3. ~AtTop /\ \E i \in DOMAIN cur.text : NamesForeignVendor(cur.text[i])
  BY <1>2 DEF VendorScope
<1>4. ~AtTop'
  BY <1>1, <1>3 DEF AtTop
<1>5. PICK i \in DOMAIN cur.text : NamesForeignVendor(cur.text[i])
  BY <1>3
<1>6. i \in DOMAIN cur'.text /\ NamesForeignVendor(cur.text[i])'
  BY <1>1, <1>5, NameStays
<1> QED BY <1>4, <1>6 DEF VendorScope

\* The vendor's name opens the scope, in a block.
LEMMA ScopeVendor ==
  ASSUME Held, VendorScope, dstage = "reading", ReadVendor
  PROVE  VendorScope'
<1>1. /\ Render(Setting) /\ Reading /\ dstage' = dstage /\ planFile' = planFile
      /\ vspecific' = (vspecific \/ ForeignVendor(Value))
      /\ Known(HereCode, cur.id) /\ Here.dec = "vendor"
  BY DEF ReadVendor, Decodes, Opaque
<1>2. CASE vspecific' = vspecific
  <2>1. planFile' = NoPlan \/ planFile' \in Seq(Byte)
    BY <1>1 DEF Held, TypeOK
  <2> QED BY <1>1, <1>2, <2>1, ScopePrint
<1>3. CASE vspecific' # vspecific
  <2>1. ForeignVendor(Value)
    BY <1>1, <1>3 DEF Held, TypeOK
  <2>2. vspecific' \in BOOLEAN /\ (planFile' = NoPlan \/ planFile' \in Seq(Byte))
    BY <1>1 DEF Held, TypeOK
  <2>3. calls' = calls /\ cur'.id = cur.id /\ cur'.text = Append(cur.text, Setting)
    BY <1>1, <2>2, HeldPrint
  <2>4. ~AtTop /\ Here.code = HereCode
    BY <1>1, SymIsARow DEF Here, AtTop, Held, Stack
  <2>5. ~AtTop'
    BY <2>3, <2>4 DEF AtTop
  <2>6. /\ Len(cur.text) + 1 \in DOMAIN cur'.text
        /\ cur'.text[Len(cur.text) + 1] = Setting
    BY <2>3, NameStays
  <2>7. PICK n \in DOMAIN cur'.text : cur'.text[n] = Setting
    BY <2>6
  <2>8. /\ Setting.kind = "setting" /\ Setting.value = Value
        /\ Sym(Setting.code, cur.id).dec = "vendor"
    BY <1>1, <2>4 DEF Setting, Stmt, Here
  <2>9. NamesForeignVendor(cur.text[n])'
    BY <2>1, <2>3, <2>7, <2>8 DEF NamesForeignVendor, Sym, Row, ForeignVendor
  <2> QED BY <2>5, <2>7, <2>9 DEF VendorScope
<1> QED BY <1>2, <1>3

\* The scope ends with the block, and is never entered deeper.
LEMMA ScopeStep == Held /\ VendorScope /\ [Next]_dvars => VendorScope'
<1> SUFFICES ASSUME Held, VendorScope, [Next]_dvars PROVE VendorScope'
  OBVIOUS
<1>1. CASE Start
  BY <1>1 DEF Start, StartOn, VendorScope
<1>2. CASE ReadUnknown \/ ReadComment \/ ReadValue \/ ReadHash \/ ReadMibObject
  <2>1. PICK s : Render(s) /\ dstage' = dstage /\ vspecific' = vspecific /\ planFile' = planFile
    BY <1>2 DEF ReadUnknown, ReadComment, ReadValue, ReadHash, ReadMibObject
  <2>2. Reading /\ dstage = "reading"
    BY <1>2 DEF ReadUnknown, ReadComment, ReadValue, ReadHash, ReadMibObject, Decodes, Reading
  <2>3. planFile' = NoPlan \/ planFile' \in Seq(Byte)
    BY <2>1 DEF Held, TypeOK
  <2> QED BY <2>1, <2>2, <2>3, ScopePrint
<1>3. CASE ReadVendor
  BY <1>3, ScopeVendor DEF ReadVendor, Decodes, Reading
<1>4. CASE ReadDialplan
  <2>1. /\ Render(Stmt("digitmap", Code_SnmpMibObject, 0, <<>>, <<>>)) /\ Reading
        /\ dstage' = dstage /\ vspecific' = vspecific /\ dstage = "reading"
    BY <1>4 DEF ReadDialplan, Decodes, Reading
  <2>2. planFile' = NoPlan \/ planFile' \in Seq(Byte)
    BY <1>4, HeldStep DEF Held, TypeOK, Next, DecodeStep
  <2> QED BY <2>1, <2>2, ScopePrint
<1>5. CASE ExitMismatch \/ PanicUint24 \/ Finish
  BY <1>5 DEF ExitMismatch, PanicUint24, Finish, VendorScope
<1>6. CASE UNCHANGED dvars
  BY <1>6 DEF dvars, VendorScope, AtTop, NamesForeignVendor, Sym, Row
<1>7. CASE EnterAggregate
  <2>1. /\ (AtTop \/ ~vspecific) /\ vspecific' = vspecific /\ dstage = "reading"
    BY <1>7 DEF EnterAggregate, Decodes, Opaque, Reading
  <2>2. ~vspecific'
    BY <2>1 DEF VendorScope
  <2> QED BY <2>2 DEF VendorScope
<1>8. CASE LeaveAggregate
  BY <1>8 DEF LeaveAggregate, VendorScope
<1> QED BY <1>1, <1>2, <1>3, <1>4, <1>5, <1>6, <1>7, <1>8 DEF Next, DecodeStep

\* Settings stay uninterpreted only inside the block that named a foreign
\* vendor, behind that name, in no block around it and in none after it.
THEOREM VendorStaysInside == Spec => []VendorScope
<1>1. Init => VendorScope
  BY DEF Init, VendorScope
<1> QED BY <1>1, HeldInit, HeldStep, ScopeStep, PTL DEF Spec

=============================================================================
