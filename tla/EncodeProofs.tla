---------------------------- MODULE EncodeProofs ----------------------------
(***************************************************************************)
(* For every tree of settings, every set of options and whatever the       *)
(* digests return: the encoder's state is well typed, the walk of the CMTS *)
(* MIC stays on settings, no long form gets into a block, and the encoder  *)
(* makes a ConfigFile: each of its steps is a step of ConfigFile, or       *)
(* changes nothing ConfigFile sees.  The CMTS MIC covers the listed        *)
(* settings, the dial plan and the hash leave a file whose lengths lead to *)
(* its terminator and whose hash is of the file as it was, and a file that *)
(* is written is what its tree says: flatten makes the encodings of the    *)
(* settings, and what follows leaves them alone.                           *)
(***************************************************************************)
EXTENDS EncodeContract, ProofLemmas

-----------------------------------------------------------------------------
(* The pieces a file is made of.                                           *)

\* The numbers a byte holds.
LEMMA ByteFacts == (\A n \in Nat : n <= 255 => n \in Byte) /\ (\A n \in Byte : n \in Nat)
  BY DEF Byte

\* A header of known length in front.
LEMMA ConcatLen ==
  ASSUME NEW S, NEW s \in Seq(S), NEW t \in Seq(S), NEW n \in Nat, Len(s) = n
  PROVE  s \o t \in Seq(S) /\ Len(s \o t) = n + Len(t)
  OBVIOUS

\* A digest is that many bytes, whatever its function returns.
LEMMA DigestTypes ==
  ASSUME NEW m
  PROVE  /\ Md5(m) \in Seq(Byte) /\ Len(Md5(m)) = 16
         /\ Hmac(m) \in Seq(Byte) /\ Len(Hmac(m)) = 16
         /\ Sha1(m) \in Seq(Byte) /\ Len(Sha1(m)) = 20
<1>1. \A x : AsByte(x) \in Byte
  BY DEF AsByte, Byte
<1>2. Md5(m) \in [1..16 -> Byte] /\ Hmac(m) \in [1..16 -> Byte] /\ Sha1(m) \in [1..20 -> Byte]
  BY <1>1 DEF Md5, Hmac, Sha1
<1>3. \A f, n : n \in Nat /\ f \in [1..n -> Byte] => f \in Seq(Byte) /\ Len(f) = n
  BY SeqDef, LenProperties
<1> QED BY <1>2, <1>3

\* Two length bytes hold every length below 64 KiB.
LEMMA BE16Facts ==
  ASSUME NEW n \in Nat
  PROVE  /\ BE16(n) \in Seq(Byte) /\ Len(BE16(n)) = 2
         /\ n < 65536 => 256 * BE16(n)[1] + BE16(n)[2] = n
<1>1. (n % 65536) \div 256 \in Byte /\ n % 256 \in Byte
  BY DEF Byte
<1>2. n < 65536 => 256 * ((n % 65536) \div 256) + (n % 256) = n
  OBVIOUS
<1> QED BY <1>1, <1>2 DEF BE16

\* The three headers of a dial plan are bytes at every size of its body.
LEMMA DialplanTyped ==
  ASSUME NEW body \in Seq(Byte)
  PROVE  DialplanTlv(body) \in Seq(Byte) /\ DialplanTlv(body) # <<>>
<1> DEFINE n == Len(body)
<1>1. n \in Nat
  OBVIOUS
<1> HIDE DEF n
<1>2. OuterLen(n) \in Nat
  BY <1>1 DEF OuterLen
<1>3. SeqHeader(n) \in Seq(Byte)
  <2>1. CASE 22 + n < 128
    BY <1>1, <2>1 DEF SeqHeader, Byte
  <2>2. CASE ~(22 + n < 128)
    <3> DEFINE k == IF n > 127 THEN 20 + 2 + 2 + n ELSE 20 + 1 + 1 + n
    <3>1. k \in Nat
      BY <1>1
    <3> HIDE DEF k
    <3>2. BE16(k) \in Seq(Byte) /\ <<48, 130>> \in Seq(Byte)
      BY <3>1, BE16Facts DEF Byte
    <3>3. <<48, 130>> \o BE16(k) \in Seq(Byte)
      BY <3>2
    <3> QED BY <2>2, <3>3 DEF SeqHeader, k
  <2> QED BY <2>1, <2>2
<1>4. StrHeader(n) \in Seq(Byte)
  <2>1. <<4, 130>> \o BE16(n) \in Seq(Byte)
    <3>1. BE16(n) \in Seq(Byte) /\ <<4, 130>> \in Seq(Byte)
      BY <1>1, BE16Facts DEF Byte
    <3> QED BY <3>1
  <2>2. n <= 127 => <<4, n>> \in Seq(Byte)
    BY <1>1 DEF Byte
  <2> QED BY <1>1, <2>1, <2>2 DEF StrHeader
<1>5. <<Code_LongForm>> \in Seq(Byte) /\ DIALPLAN_ASN_OID \in Seq(Byte)
  BY DEF Code_LongForm, DIALPLAN_ASN_OID, Byte
<1>6. BE16(OuterLen(n)) \in Seq(Byte)
  BY <1>2, BE16Facts
<1> DEFINE front == <<Code_LongForm>> \o BE16(OuterLen(n)) \o SeqHeader(n)
                     \o DIALPLAN_ASN_OID
<1>7. front \in Seq(Byte) /\ front # <<>>
  <2>1. /\ DIALPLAN_ASN_OID \in Seq(Byte) /\ DIALPLAN_ASN_OID # <<>>
        /\ <<Code_LongForm>> \o BE16(OuterLen(n)) \o SeqHeader(n) \in Seq(Byte)
    BY <1>3, <1>5, <1>6 DEF DIALPLAN_ASN_OID
  <2> QED BY <2>1, ConcatEqualIffEmpty
<1> HIDE DEF front
<1>8. /\ front \o StrHeader(n) \in Seq(Byte) /\ front \o StrHeader(n) # <<>>
      /\ front \o StrHeader(n) \o body \in Seq(Byte)
      /\ front \o StrHeader(n) \o body # <<>>
  BY <1>4, <1>7, ConcatEqualIffEmpty
<1> QED BY <1>8 DEF DialplanTlv, n, front

\* Cutting the terminator off leaves bytes.
LEMMA CutTyped ==
  ASSUME NEW b \in Seq(Byte), Len(b) >= 3
  PROVE  Cut(b, 3) \in Seq(Byte)
<1>1. \A i \in 1..(Len(b) - 3) : b[i] \in Byte
  BY ElementOfSeq
<1> QED BY <1>1, SubSeqProperties DEF Cut

\* So does putting the hash in its place.
LEMMA HashedTyped ==
  ASSUME NEW b \in Seq(Byte), Len(b) >= 3
  PROVE  Hashed(b) \in Seq(Byte)
<1>1. NA_HASH_PREFIX \in Seq(Byte)
  BY DEF NA_HASH_PREFIX, Byte
<1>2. EU_HASH_PREFIX \in Seq(Byte)
  BY DEF EU_HASH_PREFIX, Byte
<1>3. HashPrefix \in Seq(Byte)
  BY <1>1, <1>2 DEF HashPrefix
<1>4. MTA_END \in Seq(Byte)
  BY DEF MTA_END, Byte
<1> QED BY <1>3, <1>4, CutTyped, DigestTypes DEF Hashed

\* What Emit leaves behind.
LEMMA EmitTyped ==
  ASSUME NEW before \in Seq(Byte), NEW old \in Seq(Span), NEW enc \in Seq(Byte),
         NEW long \in BOOLEAN, Emit(before, old, enc, long)
  PROVE  out' \in Seq(Byte) /\ spans' \in Seq(Span)
<1>1. [from |-> Len(before) + 1, to |-> Len(before) + 1 + Len(enc), long |-> long] \in Span
  BY DEF Span
<1> QED BY <1>1 DEF Emit

-----------------------------------------------------------------------------
(* Types.                                                                  *)

\* Taking the first element off.
LEMMA TailTyped ==
  ASSUME NEW S, NEW s \in Seq(S), s # <<>>
  PROVE  Head(s) \in S /\ Tail(s) \in Seq(S)
  OBVIOUS

\* A setting with one length byte is bytes when its value fits.
LEMMA HeaderTyped ==
  ASSUME NEW code \in Byte, NEW body \in Seq(Byte), Len(body) <= 255
  PROVE  <<code, Len(body)>> \o body \in Seq(Byte)
<1>1. Len(body) \in Nat
  OBVIOUS
<1>2. Len(body) \in Byte
  BY <1>1, ByteFacts
<1>3. <<code, Len(body)>> \in Seq(Byte)
  BY <1>2
<1> QED BY <1>3

\* A long-form setting is bytes at every size.
LEMMA LongTyped ==
  ASSUME NEW body \in Seq(Byte)
  PROVE  LET enc == <<Code_LongForm>> \o BE16(Len(body)) \o body IN
         enc \in Seq(Byte) /\ Len(enc) = 3 + Len(body)
<1> DEFINE hi == (Len(body) % 65536) \div 256
           lo == Len(body) % 256
<1>1. hi \in Byte /\ lo \in Byte /\ Code_LongForm \in Byte
  <2>1. \A n \in Nat : (n % 65536) \div 256 \in Byte /\ n % 256 \in Byte
    BY DEF Byte
  <2>2. Len(body) \in Nat
    OBVIOUS
  <2>3. Code_LongForm \in Byte
    BY DEF Code_LongForm, Byte
  <2> QED BY <2>1, <2>2, <2>3
<1>2. BE16(Len(body)) = <<hi, lo>>
  BY DEF BE16
<1> HIDE DEF hi, lo
<1>3. /\ <<Code_LongForm>> \o <<hi, lo>> \in Seq(Byte)
      /\ Len(<<Code_LongForm>> \o <<hi, lo>>) = 3
  BY <1>1
<1> QED BY <1>2, <1>3, ConcatLen

\* Whatever a walk gathers is bytes of the buffer.
LEMMA SubSeqTyped ==
  ASSUME NEW b \in Seq(Byte), NEW i \in Nat \ {0}, NEW j \in Int, j <= Len(b)
  PROVE  SubSeq(b, i, j) \in Seq(Byte)
<1>1. \A k \in i..j : b[k] \in Byte
  BY ElementOfSeq
<1> QED BY <1>1, SubSeqProperties

\* flatten keeps the types; TlvsAssumption types what it takes from a setting.
LEMMA FlattenTyped ==
  ASSUME TypeOK, Flatten
  PROVE  TypeOK'
<1>1. CASE WriteLeaf
  <2>1. Head(todo) \in Tlvs /\ Tail(todo) \in Seq(Tlvs)
    BY <1>1, TailTyped DEF WriteLeaf, Flattening, TypeOK
  <2>2. out' \in Seq(Byte) /\ spans' \in Seq(Span)
    <3>1. <<Head(todo).code, Len(Head(todo).value)>> \o Head(todo).value \in Seq(Byte)
      BY <1>1, <2>1, TlvsAssumption, HeaderTyped DEF WriteLeaf, Fits
    <3> QED BY <1>1, <3>1, EmitTyped DEF WriteLeaf, TypeOK
  <2> QED BY <1>1, <2>1, <2>2 DEF WriteLeaf, TypeOK, input, walk
<1>2. CASE WriteLongMib
  <2>1. Head(todo) \in Tlvs /\ Tail(todo) \in Seq(Tlvs)
    BY <1>2, TailTyped DEF WriteLongMib, Flattening, TypeOK
  <2>2. out' \in Seq(Byte) /\ spans' \in Seq(Span)
    <3>1. <<Code_LongForm>> \o BE16(Len(Head(todo).value)) \o Head(todo).value \in Seq(Byte)
      BY <2>1, TlvsAssumption, LongTyped
    <3> QED BY <1>2, <3>1, EmitTyped DEF WriteLongMib, TypeOK
  <2> QED BY <1>2, <2>1, <2>2 DEF WriteLongMib, TypeOK, input, walk
<1>3. CASE DropLeaf
  <2>1. Tail(todo) \in Seq(Tlvs)
    BY <1>3, TailTyped DEF DropLeaf, Flattening, TypeOK
  <2> QED BY <1>3, <2>1 DEF DropLeaf, TypeOK, input, walk
<1>4. CASE EnterBlock
  <2>1. Head(todo) \in Tlvs /\ Tail(todo) \in Seq(Tlvs)
    BY <1>4, TailTyped DEF EnterBlock, Flattening, TypeOK
  <2>2. [code |-> Head(todo).code, todo |-> Tail(todo), out |-> out, spans |-> spans] \in Frame
    BY <2>1, TlvsAssumption DEF Frame, TypeOK
  <2>3. stack' \in Seq(Frame)
    BY <1>4, <2>2 DEF EnterBlock, TypeOK
  <2>4. todo' \in Seq(Tlvs) /\ out' \in Seq(Byte) /\ spans' \in Seq(Span)
    BY <1>4, <2>1, TlvsAssumption DEF EnterBlock
  <2> QED BY <1>4, <2>3, <2>4 DEF EnterBlock, TypeOK, input, walk
<1>5. CASE WriteBlock
  <2>1. Head(stack) \in Frame /\ Tail(stack) \in Seq(Frame)
    BY <1>5, TailTyped DEF WriteBlock, Returning, TypeOK
  <2>2. out' \in Seq(Byte) /\ spans' \in Seq(Span)
    <3>1. <<Head(stack).code, Len(out)>> \o out \in Seq(Byte)
      BY <1>5, <2>1, HeaderTyped DEF WriteBlock, Fits, Frame, TypeOK
    <3> QED BY <1>5, <2>1, <3>1, EmitTyped DEF WriteBlock, Frame
  <2> QED BY <1>5, <2>1, <2>2 DEF WriteBlock, Frame, TypeOK, input, walk
<1>6. CASE DropBlock
  <2>1. Head(stack) \in Frame /\ Tail(stack) \in Seq(Frame)
    BY <1>6, TailTyped DEF DropBlock, Returning, TypeOK
  <2> QED BY <1>6, <2>1, SMTT(30) DEF DropBlock, Frame, TypeOK, input, walk
<1>7. CASE EndFlatten
  BY <1>7 DEF EndFlatten, Extensions, TypeOK, input, flat, walk
<1> QED BY <1>1, <1>2, <1>3, <1>4, <1>5, <1>6, <1>7 DEF Flatten

\* The walk keeps the types: no read is outside the buffer.
LEMMA WalkTyped ==
  ASSUME TypeOK, Walk
  PROVE  TypeOK'
<1> USE DEF Walking, InBuffer, input, flat
<1>1. CASE WalkSelect
  <2> DEFINE end == IF pos + out[pos + 1] + 2 <= Len(out) + 1
                    THEN pos + out[pos + 1] + 2 ELSE Len(out) + 1
  <2>1. pos \in 1..Len(out) /\ pos + 1 \in 1..Len(out) /\ out \in Seq(Byte)
    BY <1>1, SMTT(30) DEF WalkSelect, TypeOK
  <2>2. out[pos + 1] \in Byte /\ Len(out) \in Nat
    BY <2>1
  <2>3. end \in Nat \ {0} /\ end - 1 <= Len(out)
    <3>1. pos \in Nat \ {0} /\ out[pos + 1] \in Nat
      BY <2>1, <2>2, ByteFacts
    <3> QED BY <2>2, <3>1
  <2> HIDE DEF end
  <2>4. SubSeq(out, pos, end - 1) \in Seq(Byte)
    BY <2>1, <2>3, SubSeqTyped
  <2>5. selected' = selected \o SubSeq(out, pos, end - 1) /\ pos' = end
    BY <1>1 DEF WalkSelect, end
  <2>6. selected' \in Seq(Byte)
    BY <2>4, <2>5 DEF TypeOK
  <2> QED BY <1>1, <2>3, <2>5, <2>6 DEF WalkSelect, TypeOK
<1>2. CASE WalkPass
  <2>1. /\ out[pos] \in Byte /\ out[pos + 1] \in Byte
        /\ out[pos] = Code_LongForm => out[pos + 2] \in Byte
    BY <1>2 DEF WalkPass, HeaderCut, TypeOK
  <2>2. /\ out[pos + 1] \in Nat
        /\ out[pos] = Code_LongForm => out[pos + 2] \in Nat
    BY <2>1 DEF Byte
  <2>3. WalkStep(out, pos) \in Nat
    BY <2>2 DEF WalkStep
  <2> QED BY <1>2, <2>3 DEF WalkPass, TypeOK
<1>3. CASE WalkRestart
  BY <1>3 DEF WalkRestart, TypeOK, CMTS_MIC_TLVS
<1> QED BY <1>1, <1>2, <1>3 DEF Walk

\* The actions behind flatten that write to the buffer.
LEMMA SealTyped ==
  ASSUME TypeOK, AddCmMic \/ AddCmtsMic \/ AddEodAndPad \/ AddDialplan \/ AddMtaHash
  PROVE  TypeOK'
<1>1. CASE AddCmMic
  <2>1. <<Code_CmMic, 16>> \o Md5(out) \in Seq(Byte)
    <3>1. <<Code_CmMic, 16>> \in Seq(Byte)
      BY DEF Code_CmMic, Byte
    <3> QED BY <3>1, DigestTypes
  <2>2. out' \in Seq(Byte) /\ spans' \in Seq(Span)
    BY <1>1, <2>1, EmitTyped DEF AddCmMic, TypeOK
  <2> QED BY <1>1, <2>2 DEF AddCmMic, TypeOK, input, walk
<1>2. CASE AddCmtsMic
  <2>1. <<Code_CmtsMic, 16>> \o Hmac(selected) \in Seq(Byte)
    <3>1. <<Code_CmtsMic, 16>> \in Seq(Byte)
      BY DEF Code_CmtsMic, Byte
    <3> QED BY <3>1, DigestTypes
  <2>2. out' \in Seq(Byte) /\ spans' \in Seq(Span)
    BY <1>2, <2>1, EmitTyped DEF AddCmtsMic, TypeOK
  <2> QED BY <1>2, <2>2 DEF AddCmtsMic, TypeOK, input, walk
<1>3. CASE AddEodAndPad
  <2>1. <<Code_EndOfData>> \in Seq(Byte)
    BY DEF Code_EndOfData, Byte
  <2>2. [i \in 1..Pad(Len(out) + 1) |-> 0] \in Seq(Byte)
    <3>1. Pad(Len(out) + 1) \in Nat
      BY DEF Pad, TypeOK
    <3>2. [i \in 1..Pad(Len(out) + 1) |-> 0] \in [1..Pad(Len(out) + 1) -> Byte]
      BY DEF Byte
    <3> QED BY <3>1, <3>2, SeqDef
  <2>3. out \o <<Code_EndOfData>> \o [i \in 1..Pad(Len(out) + 1) |-> 0] \in Seq(Byte)
    <3>1. out \o <<Code_EndOfData>> \in Seq(Byte)
      BY <2>1 DEF TypeOK
    <3> QED BY <2>2, <3>1, ConcatProperties
  <2>4. out' \in Seq(Byte)
    BY <1>3, <2>3 DEF AddEodAndPad, TypeOK
  <2> QED BY <1>3, <2>4 DEF AddEodAndPad, Extensions, TypeOK, input, flat, walk
<1>4. CASE AddDialplan
  <2>1. dialplanFile \in Seq(Byte)
    BY <1>4 DEF AddDialplan, TypeOK
  <2>2. MTA_END \in Seq(Byte)
    BY DEF MTA_END, Byte
  <2>3. Len(out) >= 3 => Cut(out, 3) \o DialplanTlv(dialplanFile) \o MTA_END \in Seq(Byte)
    BY <2>1, <2>2, CutTyped, DialplanTyped DEF TypeOK
  <2>4. out' \in Seq(Byte)
    BY <1>4, <2>3 DEF AddDialplan, TypeOK
  <2> QED BY <1>4, <2>4 DEF AddDialplan, AfterDialplan, TypeOK, input, flat, walk
<1>5. CASE AddMtaHash
  <2>1. out' \in Seq(Byte)
    BY <1>5, HashedTyped DEF AddMtaHash, TypeOK
  <2> QED BY <1>5, <2>1 DEF AddMtaHash, TypeOK, input, flat, walk
<1> QED BY <1>1, <1>2, <1>3, <1>4, <1>5

\* encode_one_file starts well typed.
LEMMA TypedInit == Init => TypeOK
  BY RunsAssumption DEF Init, TypeOK, CMTS_MIC_TLVS, Options

\* Every step keeps the types.
LEMMA TypedStep == TypeOK /\ [Next]_vars => TypeOK'
<1> SUFFICES ASSUME TypeOK, [Next]_vars PROVE TypeOK'
  OBVIOUS
<1>1. CASE UNCHANGED vars
  BY <1>1 DEF vars, input, flat, walk, TypeOK
<1>2. CASE Begin
  BY <1>2 DEF Begin, TypeOK, input, walk
<1>3. CASE RejectEmpty \/ NoDialplan \/ Write \/ StopListing
  BY <1>3 DEF RejectEmpty, NoDialplan, Write, StopListing, TypeOK, input, flat, walk
<1> QED BY <1>1, <1>2, <1>3, FlattenTyped, WalkTyped, SealTyped DEF Next

\* The variables of encode_one_file keep their types for every tree.
THEOREM Typing == Spec => []TypeOK
<1> QED BY TypedInit, TypedStep, PTL DEF Spec

-----------------------------------------------------------------------------
(* Long forms stay out of blocks.                                          *)

\* Calls of flatten are suspended during flatten only.
StackInv == stage # "flatten" => stack = <<>>

HasLong(ss) == \E i \in DOMAIN ss : ss[i].long

\* A suspended block's output with a long form is too large already.
Kept(ss, b) == HasLong(ss) => Len(b) > 255

BlockInv == /\ stack # <<>> => Kept(spans, out)
            /\ \A j \in 1..(Len(stack) - 1) : Kept(stack[j].spans, stack[j].out)

\* Only a long form makes an output large at once; the others make it no smaller.
LEMMA EmitKept ==
  ASSUME NEW before \in Seq(Byte), NEW old \in Seq(Span), NEW enc \in Seq(Byte),
         NEW long \in BOOLEAN, Emit(before, old, enc, long),
         Kept(old, before), long => Len(enc) > 255
  PROVE  Kept(spans', out')
<1> DEFINE s == [from |-> Len(before) + 1, to |-> Len(before) + 1 + Len(enc), long |-> long]
<1>1. s \in Span /\ s.long = long
  BY DEF Span
<1> HIDE DEF s
<1>2. spans' = Append(old, s) /\ Len(out') = Len(before) + Len(enc)
  BY DEF Emit, s
<1>3. \A i \in DOMAIN spans' : spans'[i].long => (i \in DOMAIN old /\ old[i].long) \/ long
  BY <1>1, <1>2
<1> QED BY <1>2, <1>3 DEF Kept, HasLong

\* The output of a block, suspended or not, keeps to that through flatten.
LEMMA BlockStep ==
  ASSUME TypeOK, StackInv, BlockInv, Flatten
  PROVE  BlockInv'
<1> DEFINE t == Head(todo)
<1>1. CASE WriteLeaf
  <2>1. t \in Tlvs
    BY <1>1, TailTyped DEF WriteLeaf, Flattening, TypeOK
  <2>2. <<t.code, Len(t.value)>> \o t.value \in Seq(Byte)
    BY <1>1, <2>1, TlvsAssumption, HeaderTyped DEF WriteLeaf, Fits
  <2> HIDE DEF t
  <2>3. Kept(spans, out) => Kept(spans', out')
    BY <1>1, <2>2, EmitKept DEF WriteLeaf, TypeOK, t
  <2> QED BY <1>1, <2>3 DEF WriteLeaf, BlockInv
<1>2. CASE WriteLongMib
  <2>1. t \in Tlvs /\ Len(t.value) > 255
    BY <1>2, TailTyped, TlvsAssumption DEF WriteLongMib, Flattening, Fits, TypeOK
  <2> DEFINE v   == t.value
             enc == <<Code_LongForm>> \o BE16(Len(v)) \o v
             n   == Len(v)
             m   == Len(enc)
  <2>2. v \in Seq(Byte) /\ n > 255
    BY <2>1, TlvsAssumption
  <2>3. Emit(out, spans, enc, TRUE)
    BY <1>2 DEF WriteLongMib
  <2> HIDE DEF t, v
  <2>4. enc \in Seq(Byte) /\ m = 3 + n /\ n \in Nat
    BY <2>2, LongTyped
  <2> HIDE DEF n, m
  <2>5. m > 255
    BY <2>2, <2>4
  <2> HIDE DEF enc
  <2>6. Kept(spans, out) => Kept(spans', out')
    BY <2>3, <2>4, <2>5, EmitKept DEF TypeOK, m
  <2> QED BY <1>2, <2>6 DEF WriteLongMib, BlockInv
<1>3. CASE DropLeaf
  BY <1>3 DEF DropLeaf, BlockInv
<1>4. CASE EnterBlock
  <2> DEFINE f == [code |-> t.code, todo |-> Tail(todo), out |-> out, spans |-> spans]
  <2>1. stack' = <<f>> \o stack /\ stack \in Seq(Frame) /\ spans' = <<>>
    BY <1>4 DEF EnterBlock, TypeOK
  <2>2. f.spans = spans /\ f.out = out
    OBVIOUS
  <2> HIDE DEF f
  <2>3. /\ Len(stack') = Len(stack) + 1 /\ stack'[1] = f
        /\ \A j \in 2..(Len(stack) + 1) : stack'[j] = stack[j - 1]
    BY <2>1
  <2>4. \A j \in 1..(Len(stack') - 1) : Kept(stack'[j].spans, stack'[j].out)
    <3> SUFFICES ASSUME NEW j \in 1..(Len(stack') - 1)
                 PROVE  Kept(stack'[j].spans, stack'[j].out)
      OBVIOUS
    <3>1. Len(stack) \in Nat
      BY <2>1
    <3>2. CASE j = 1
      <4>1. stack # <<>>
        BY <2>3, <3>1
      <4> QED BY <2>2, <2>3, <3>2, <4>1 DEF BlockInv
    <3>3. CASE j # 1
      <4>1. j \in 2..(Len(stack) + 1) /\ j - 1 \in 1..(Len(stack) - 1)
        BY <2>3, <3>1, <3>3
      <4> QED BY <2>3, <4>1 DEF BlockInv
    <3> QED BY <3>2, <3>3
  <2>5. Kept(spans', out')
    BY <2>1 DEF Kept, HasLong
  <2> QED BY <2>4, <2>5 DEF BlockInv
<1>5. ASSUME WriteBlock \/ DropBlock PROVE BlockInv'
  <2>1. /\ stack \in Seq(Frame) /\ stack # <<>> /\ stack' = Tail(stack)
        /\ Head(stack) = stack[1] /\ Head(stack) \in Frame
    <3>1. stack \in Seq(Frame) /\ stack # <<>> /\ stack' = Tail(stack)
      BY <1>5 DEF WriteBlock, DropBlock, Returning, TypeOK
    <3> QED BY <3>1, TailTyped
  <2>2. /\ Len(stack') = Len(stack) - 1
        /\ \A j \in 1..(Len(stack) - 1) : stack'[j] = stack[j + 1]
    BY <2>1
  <2>3. \A j \in 1..(Len(stack') - 1) : Kept(stack'[j].spans, stack'[j].out)
    <3>1. \A j \in 1..(Len(stack) - 2) : j \in 1..(Len(stack) - 1) /\ j + 1 \in 1..(Len(stack) - 1)
      BY <2>1
    <3> QED BY <2>2, <3>1 DEF BlockInv
  <2>4. stack' # <<>> => Kept(stack[1].spans, stack[1].out)
    <3>1. stack' # <<>> => 1 \in 1..(Len(stack) - 1)
      BY <2>1, <2>2
    <3> QED BY <3>1 DEF BlockInv
  <2>5. Kept(stack[1].spans, stack[1].out) => Kept(spans', out')
    <3>1. CASE WriteBlock
      <4>1. <<stack[1].code, Len(out)>> \o out \in Seq(Byte)
        BY <2>1, <3>1, HeaderTyped DEF WriteBlock, Fits, Frame, TypeOK
      <4>2. stack[1].out \in Seq(Byte) /\ stack[1].spans \in Seq(Span)
        BY <2>1 DEF Frame
      <4>3. Emit(stack[1].out, stack[1].spans, <<stack[1].code, Len(out)>> \o out, FALSE)
        BY <2>1, <3>1 DEF WriteBlock
      <4> QED BY <4>1, <4>2, <4>3, EmitKept
    <3>2. CASE DropBlock
      BY <2>1, <3>2 DEF DropBlock
    <3> QED BY <1>5, <3>1, <3>2
  <2> QED BY <2>3, <2>4, <2>5 DEF BlockInv
<1>6. CASE EndFlatten
  BY <1>6 DEF EndFlatten, flat, BlockInv
<1> QED BY <1>1, <1>2, <1>3, <1>4, <1>5, <1>6 DEF Flatten

StackBlocks == StackInv /\ BlockInv

\* Outside flatten nothing is suspended, and there is nothing to keep.
LEMMA StackBlocksStep == TypeOK /\ StackBlocks /\ [Next]_vars => StackBlocks'
<1> SUFFICES ASSUME TypeOK, StackInv, BlockInv, [Next]_vars PROVE StackInv' /\ BlockInv'
  BY DEF StackBlocks
<1>1. CASE Flatten
  <2>1. StackInv'
    BY <1>1 DEF Flatten, WriteLeaf, WriteLongMib, DropLeaf, EnterBlock, WriteBlock,
                DropBlock, EndFlatten, Flattening, Returning, StackInv, flat
  <2> QED BY <1>1, <2>1, BlockStep
<1>2. CASE RejectEmpty \/ Begin \/ AddCmMic \/ Walk \/ AddCmtsMic
             \/ AddEodAndPad \/ NoDialplan \/ AddDialplan \/ AddMtaHash
             \/ Write \/ StopListing \/ UNCHANGED vars
  <2>1. stack' = stack /\ (stage # "flatten" \/ UNCHANGED vars)
    BY <1>2 DEF RejectEmpty, Begin, AddCmMic, Walk, WalkSelect, WalkPass, WalkRestart,
                Walking, AddCmtsMic, AddEodAndPad, NoDialplan, AddDialplan, AddMtaHash,
                Write, StopListing, Selected, flat, vars
  <2>2. CASE stage # "flatten"
    <3>1. stack' = <<>>
      BY <2>1, <2>2 DEF StackInv
    <3>2. \A j \in 1..(Len(stack') - 1) : FALSE
      BY <3>1
    <3> QED BY <3>1, <3>2 DEF StackInv, BlockInv
  <2>3. CASE UNCHANGED vars
    BY <2>3 DEF vars, flat, StackInv, BlockInv
  <2> QED BY <2>1, <2>2, <2>3
<1> QED BY <1>1, <1>2 DEF Next

\* Nor at the start.
LEMMA StackBlocksInit == Init => StackBlocks
<1> SUFFICES ASSUME Init PROVE StackBlocks
  OBVIOUS
<1>1. stack = <<>>
  BY DEF Init
<1>2. \A j \in 1..(Len(stack) - 1) : FALSE
  BY <1>1
<1> QED BY <1>1, <1>2 DEF StackBlocks, StackInv, BlockInv

\* TLV 64 with two length bytes is never written inside a block.
THEOREM LongFormsOutside == Spec => []NoLongFormInBlocks
<1>1. StackBlocks => NoLongFormInBlocks
  BY DEF StackBlocks, BlockInv, Kept, HasLong, NoLongFormInBlocks
<1> QED BY <1>1, Typing, StackBlocksInit, StackBlocksStep, PTL DEF Spec

-----------------------------------------------------------------------------
(* The walk of the CMTS MIC stays on settings.  It does because the file's *)
(* settings are framed: they tile the buffer, and each is as long as the   *)
(* walk's reading of its header says.  flatten frames them one by one,     *)
(* while blocks are written above it on the stack.                         *)

\* Setting s lies in b, its header too, and the header states where it ends.
Sound(s, b) ==
  /\ 1 <= s.from /\ s.from + 2 <= s.to /\ s.to <= Len(b) + 1
  /\ b[s.from] = Code_LongForm => s.from + 3 <= s.to
  /\ Readable(s, b)

Framed(ss, b) == Tiles(ss, b) /\ \A i \in DOMAIN ss : Sound(ss[i], b)

\* The bytes of one setting alone.
Unit(enc) ==
  /\ Len(enc) >= 2 /\ (enc[1] = Code_LongForm => Len(enc) >= 3)
  /\ WalkStep(enc, 1) = Len(enc)

\* A setting written with one length byte reads as long as it is, but for code 64.
LEMMA ShortUnit ==
  ASSUME NEW code \in Byte, code # Code_LongForm,
         NEW body \in Seq(Byte), Len(body) <= 255
  PROVE  Unit(<<code, Len(body)>> \o body)
<1> DEFINE n   == Len(body)
           enc == <<code, n>> \o body
<1>1. n \in Nat /\ n \in Byte
  <2>1. n \in Nat
    OBVIOUS
  <2> QED BY <2>1, ByteFacts
<1> HIDE DEF n
<1>2. /\ <<code, n>> \in Seq(Byte) /\ Len(<<code, n>>) = 2
      /\ <<code, n>>[1] = code /\ <<code, n>>[2] = n
  BY <1>1
<1>3. Len(enc) = 2 + n
  BY <1>2, ConcatLen DEF n
<1>4. enc[1] = code /\ enc[2] = n
  BY <1>1
<1> HIDE DEF enc
<1>5. Unit(enc)
  BY <1>1, <1>3, <1>4 DEF Unit, WalkStep
<1> QED BY <1>5 DEF enc, n

\* So does one written with two, below 64 KiB.
LEMMA LongUnit ==
  ASSUME NEW body \in Seq(Byte), Len(body) < 65536
  PROVE  Unit(<<Code_LongForm>> \o BE16(Len(body)) \o body)
<1> DEFINE n   == Len(body)
           hi  == (n % 65536) \div 256
           lo  == n % 256
           top == <<Code_LongForm>> \o <<hi, lo>>
           enc == top \o body
<1>1. n \in Nat /\ n < 65536
  OBVIOUS
<1> HIDE DEF n
<1>2. BE16(n) = <<hi, lo>>
  BY DEF BE16
<1>3. hi \in Byte /\ lo \in Byte /\ 256 * hi + lo = n
  BY <1>1 DEF Byte
<1>4. Code_LongForm \in Byte
  BY DEF Code_LongForm, Byte
<1> HIDE DEF hi, lo
<1>5. /\ top \in Seq(Byte) /\ Len(top) = 3
      /\ top[1] = Code_LongForm /\ top[2] = hi /\ top[3] = lo
  BY <1>3, <1>4
<1> HIDE DEF top
<1> DEFINE k == Len(top)
           m == Len(enc)
<1>6. k = 3
  BY <1>5
<1>7. m = k + n /\ \A i \in 1..k : enc[i] = top[i]
  <2>1. top \in Seq(Byte)
    BY <1>5
  <2> QED BY <2>1, ConcatAt DEF n
<1> HIDE DEF enc, k, m
<1>8. Unit(enc)
  <2>1. 1 \in 1..k /\ 2 \in 1..k /\ 3 \in 1..k
    BY <1>6
  <2>2. enc[1] = Code_LongForm /\ enc[2] = hi /\ enc[3] = lo
    BY <1>5, <1>7, <2>1
  <2>3. WalkStep(enc, 1) = 256 * hi + lo + 3
    BY <2>2 DEF WalkStep
  <2>4. hi \in Nat /\ lo \in Nat
    BY <1>3, ByteFacts
  <2> QED BY <1>1, <1>3, <1>6, <1>7, <2>3, <2>4 DEF Unit, m
<1>9. enc = <<Code_LongForm>> \o BE16(n) \o body
  BY <1>2 DEF enc, top
<1> QED BY <1>8, <1>9 DEF n

\* What is written behind a setting does not change how it reads.
LEMMA SoundOld ==
  ASSUME NEW b \in Seq(Byte), NEW e \in Seq(Byte), NEW s \in Span, Sound(s, b)
  PROVE  Sound(s, b \o e)
<1> DEFINE c == b \o e
           l == Len(b)
           m == Len(c)
           x == s.from
<1>1. l \in Nat /\ m \in Nat /\ m >= l /\ \A i \in 1..l : c[i] = b[i]
  BY ConcatAt
<1>2. x \in Nat /\ s.to \in Nat
  BY DEF Span
<1>3. 1 <= x /\ x + 2 <= s.to /\ s.to <= l + 1 /\ (b[x] = Code_LongForm => x + 3 <= s.to)
  BY DEF Sound
<1>4. s.to = x + WalkStep(b, x)
  BY DEF Sound, Readable
<1> HIDE DEF c, l, m, x
<1>5. c[x] = b[x] /\ c[x + 1] = b[x + 1] /\ (b[x] = Code_LongForm => c[x + 2] = b[x + 2])
  <2>1. x \in 1..l /\ x + 1 \in 1..l /\ (b[x] = Code_LongForm => x + 2 \in 1..l)
    BY <1>1, <1>2, <1>3
  <2> QED BY <1>1, <2>1
<1>6. s.to = x + WalkStep(c, x)
  BY <1>4, <1>5 DEF WalkStep
<1>7. s.to <= m + 1
  BY <1>1, <1>2, <1>3
<1> QED BY <1>3, <1>5, <1>6, <1>7 DEF Sound, Readable, c, m, x

\* A unit is a sound setting wherever it is written.
LEMMA SoundNew ==
  ASSUME NEW b \in Seq(Byte), NEW e \in Seq(Byte), Unit(e), NEW s \in Span,
         s.from = Len(b) + 1, s.to = Len(b) + 1 + Len(e)
  PROVE  Sound(s, b \o e)
<1> DEFINE c == b \o e
           l == Len(b)
           k == Len(e)
           m == Len(c)
<1>1. l \in Nat /\ k \in Nat /\ m = l + k /\ \A i \in 1..k : c[l + i] = e[i]
  BY ConcatAt
<1>2. k >= 2 /\ (e[1] = Code_LongForm => k >= 3) /\ WalkStep(e, 1) = k
  BY DEF Unit
<1>3. s.from = l + 1 /\ s.to = l + 1 + k
  OBVIOUS
<1> HIDE DEF c, l, k, m
<1>4. c[l + 1] = e[1] /\ c[l + 2] = e[2] /\ (e[1] = Code_LongForm => c[l + 3] = e[3])
  <2>1. 1 \in 1..k /\ 2 \in 1..k /\ (e[1] = Code_LongForm => 3 \in 1..k)
    BY <1>1, <1>2
  <2> QED BY <1>1, <2>1
<1>5. WalkStep(c, l + 1) = k
  <2>1. l + 1 + 1 = l + 2 /\ l + 1 + 2 = l + 3
    BY <1>1
  <2> QED BY <1>2, <1>4, <2>1 DEF WalkStep
<1>6. Sound(s, c)
  <2>1. 1 <= l + 1 /\ l + 1 + 2 <= l + 1 + k /\ l + 1 + k <= m + 1
    BY <1>1, <1>2
  <2>2. c[l + 1] = Code_LongForm => l + 1 + 3 <= l + 1 + k
    BY <1>1, <1>2, <1>4
  <2> QED BY <1>3, <1>5, <2>1, <2>2 DEF Sound, Readable, m
<1> QED BY <1>6 DEF c

\* Writing a unit behind framed settings leaves them framed.
LEMMA FramedEmit ==
  ASSUME NEW b \in Seq(Byte), NEW ss \in Seq(Span), Framed(ss, b),
         NEW e \in Seq(Byte), Unit(e), NEW long \in BOOLEAN, Emit(b, ss, e, long)
  PROVE  Framed(spans', out') /\ spans' # <<>>
<1> DEFINE s == [from |-> Len(b) + 1, to |-> Len(b) + 1 + Len(e), long |-> long]
           l == Len(b)
           n == Len(ss)
<1>1. l \in Nat /\ n \in Nat /\ Len(e) \in Nat /\ DOMAIN ss = 1..n
  OBVIOUS
<1>2. out' = b \o e /\ spans' = Append(ss, s) /\ Len(out') = Len(b) + Len(e)
  BY DEF Emit
<1>3. s \in Span /\ s.from = l + 1 /\ s.to = l + 1 + Len(e)
  BY <1>1 DEF Span
<1>4. /\ spans' \in Seq(Span) /\ Len(spans') = n + 1 /\ DOMAIN spans' = 1..(n + 1)
      /\ spans'[n + 1] = s /\ \A i \in 1..n : spans'[i] = ss[i]
  BY <1>1, <1>2, <1>3
<1>5. Tiles(ss, b) /\ \A i \in 1..n : Sound(ss[i], b) /\ ss[i] \in Span
  BY <1>1, ElementOfSeq DEF Framed
<1> HIDE DEF s
<1>6. \A i \in DOMAIN spans' : Sound(spans'[i], out')
  <2>1. Sound(s, out')
    BY <1>2, <1>3, SoundNew
  <2>2. \A i \in 1..n : Sound(ss[i], out')
    BY <1>2, <1>5, SoundOld
  <2> QED BY <1>1, <1>4, <2>1, <2>2
<1>7. Tiles(spans', out')
  <2>1. n = 0 <=> ss = <<>>
    OBVIOUS
  <2>2. l + 1 = IF n = 0 THEN 1 ELSE ss[n].to
    BY <1>5, <2>1 DEF Tiles
  <2>3. \A i \in 1..n : /\ ss[i].from = (IF i = 1 THEN 1 ELSE ss[i - 1].to)
                         /\ ss[i].to >= ss[i].from + 2
    BY <1>1, <1>5 DEF Tiles
  <2>4. Len(e) >= 2
    BY DEF Unit
  <2> HIDE DEF l, n
  <2>5. s.from = IF n + 1 = 1 THEN 1 ELSE spans'[n].to
    <3>1. n # 0 => n \in 1..n
      BY <1>1
    <3> QED BY <1>1, <1>3, <1>4, <2>2, <3>1
  <2>6. s.to >= s.from + 2
    BY <1>1, <1>3, <2>4
  <2>7. \A i \in 1..n : spans'[i].from = (IF i = 1 THEN 1 ELSE spans'[i - 1].to)
    <3>1. \A i \in 1..n : i # 1 => i - 1 \in 1..n
      BY <1>1
    <3> QED BY <1>4, <2>3, <3>1
  <2>8. \A i \in 1..(n + 1) :
          /\ spans'[i].from = (IF i = 1 THEN 1 ELSE spans'[i - 1].to)
          /\ spans'[i].to >= spans'[i].from + 2
    <3>1. \A i \in 1..(n + 1) : i \in 1..n \/ i = n + 1
      BY <1>1
    <3>2. (n + 1) - 1 = n
      BY <1>1
    <3> QED BY <1>4, <2>3, <2>5, <2>6, <2>7, <3>1, <3>2
  <2>9. Len(out') + 1 = s.to
    BY <1>1, <1>2, <1>3 DEF l
  <2>10. spans' # <<>>
    BY <1>1, <1>4
  <2> QED BY <1>4, <2>8, <2>9, <2>10 DEF Tiles
<1>8. spans' # <<>>
  BY <1>1, <1>4
<1> QED BY <1>6, <1>7, <1>8 DEF Framed

\* The file's own level: what flatten's outermost call has, suspended or not.
PlainTodo(ts) == \A i \in DOMAIN ts : Plain(ts[i])
Level(b, ss, ts) == Framed(ss, b) /\ PlainTodo(ts)

FileLevel ==
  IF stack = <<>> THEN Level(out, spans, todo)
  ELSE LET f == stack[Len(stack)]
       IN Level(f.out, f.spans, f.todo) /\ f.code # Code_LongForm

WalkInv ==
  /\ stage = "parsed" => out = <<>> /\ spans = <<>>
  /\ stage \in {"parsed", "flatten", "cm_mic"} => pos = 1
  /\ stage \in {"flatten", "cm_mic", "cmts_mic"} /\ PlainTree => FileLevel
  /\ WalkOnSettings

\* What is left of a plain list is plain.
LEMMA PlainTail ==
  ASSUME NEW ts \in Seq(Tlvs), ts # <<>>, PlainTodo(ts)
  PROVE  Plain(Head(ts)) /\ PlainTodo(Tail(ts))
<1>1. 1 \in DOMAIN ts /\ Head(ts) = ts[1]
  OBVIOUS
<1>2. \A i \in DOMAIN Tail(ts) : i + 1 \in DOMAIN ts /\ Tail(ts)[i] = ts[i + 1]
  OBVIOUS
<1> QED BY <1>1, <1>2 DEF PlainTodo

\* A setting of the file's level is written as a unit.
LEMMA LeafLevel ==
  ASSUME TypeOK, todo # <<>>, Level(out, spans, todo), WriteLeaf \/ WriteLongMib \/ DropLeaf
  PROVE  Level(out', spans', todo')
<1> DEFINE t == Head(todo)
           v == t.value
<1>1. t \in Tlvs /\ Plain(t) /\ PlainTodo(Tail(todo))
  BY TailTyped, PlainTail DEF Level, TypeOK
<1>2. v \in Seq(Byte) /\ t.code \in Byte /\ t.code # Code_LongForm /\ Len(v) < 65536
  BY <1>1, TlvsAssumption DEF Plain
<1>3. todo' = Tail(todo)
  BY DEF WriteLeaf, WriteLongMib, DropLeaf
<1>4. Framed(spans', out')
  <2>1. Framed(spans, out) /\ out \in Seq(Byte) /\ spans \in Seq(Span)
    BY DEF Level, TypeOK
  <2>2. CASE WriteLeaf
    <3>1. Len(v) <= 255 /\ Emit(out, spans, <<t.code, Len(v)>> \o v, FALSE)
      BY <2>2 DEF WriteLeaf, Fits
    <3> HIDE DEF v, t
    <3>2. Unit(<<t.code, Len(v)>> \o v) /\ <<t.code, Len(v)>> \o v \in Seq(Byte)
      BY <1>2, <3>1, ShortUnit, HeaderTyped
    <3> QED BY <2>1, <3>1, <3>2, FramedEmit
  <2>3. CASE WriteLongMib
    <3> DEFINE enc == <<Code_LongForm>> \o BE16(Len(v)) \o v
    <3>1. Emit(out, spans, enc, TRUE)
      BY <2>3 DEF WriteLongMib
    <3> HIDE DEF v, t
    <3>2. Unit(enc) /\ enc \in Seq(Byte)
      BY <1>2, LongUnit, LongTyped
    <3> HIDE DEF enc
    <3> QED BY <2>1, <3>1, <3>2, FramedEmit
  <2>4. CASE DropLeaf
    BY <2>1, <2>4 DEF DropLeaf
  <2> QED BY <2>2, <2>3, <2>4
<1> QED BY <1>1, <1>3, <1>4 DEF Level

\* flatten frames the settings of the file's level.
LEMMA FlattenLevel ==
  ASSUME TypeOK, FileLevel, Flatten
  PROVE  FileLevel'
<1> DEFINE n == Len(stack)
<1>1. stack \in Seq(Frame) /\ n \in Nat /\ (stack = <<>> <=> n = 0)
  BY DEF TypeOK
<1>2. CASE WriteLeaf \/ WriteLongMib \/ DropLeaf
  <2>1. stack' = stack /\ todo # <<>>
    BY <1>2 DEF WriteLeaf, WriteLongMib, DropLeaf, Flattening
  <2>2. CASE stack = <<>>
    BY <1>2, <2>1, <2>2, LeafLevel DEF FileLevel
  <2>3. CASE stack # <<>>
    BY <2>1, <2>3 DEF FileLevel
  <2> QED BY <2>2, <2>3
<1>3. CASE EnterBlock
  <2> DEFINE t == Head(todo)
             f == [code |-> t.code, todo |-> Tail(todo), out |-> out, spans |-> spans]
  <2>1. todo \in Seq(Tlvs) /\ todo # <<>> /\ stack' = <<f>> \o stack
    BY <1>3 DEF EnterBlock, Flattening, TypeOK
  <2>2. f.code = t.code /\ f.todo = Tail(todo) /\ f.out = out /\ f.spans = spans
    OBVIOUS
  <2> HIDE DEF f
  <2>3. /\ Len(stack') = n + 1 /\ stack' # <<>> /\ stack'[1] = f
        /\ n # 0 => stack'[n + 1] = stack[n]
    BY <1>1, <2>1
  <2>4. CASE stack = <<>>
    <3>1. Framed(spans, out) /\ Plain(t) /\ PlainTodo(Tail(todo))
      BY <2>1, <2>4, PlainTail DEF FileLevel, Level
    <3>2. stack'[Len(stack')] = f
      BY <1>1, <2>3, <2>4
    <3>3. Level(f.out, f.spans, f.todo) /\ f.code # Code_LongForm
      BY <2>2, <3>1 DEF Level, Plain
    <3> QED BY <2>3, <3>2, <3>3 DEF FileLevel
  <2>5. CASE stack # <<>>
    <3>1. stack'[Len(stack')] = stack[Len(stack)]
      BY <1>1, <2>3, <2>5
    <3> QED BY <2>3, <2>5, <3>1 DEF FileLevel
  <2> QED BY <2>4, <2>5
<1>4. CASE WriteBlock \/ DropBlock
  <2>1. stack # <<>> /\ stack' = Tail(stack) /\ n # 0
    BY <1>1, <1>4 DEF WriteBlock, DropBlock, Returning
  <2>2. Head(stack) = stack[1] /\ stack[1] \in Frame
    BY <1>1, <2>1, TailTyped
  <2>3. /\ Len(stack') = n - 1
        /\ \A j \in 1..(n - 1) : stack'[j] = stack[j + 1]
    BY <1>1, <2>1
  <2> HIDE DEF n
  <2>4. CASE n = 1
    <3> DEFINE c == stack[1]
    <3>1. stack' = <<>> /\ stack[Len(stack)] = c
      <4>1. stack' \in Seq(Frame) /\ Len(stack') = 0
        BY <1>1, <2>1, <2>3, <2>4, TailTyped
      <4> QED BY <2>4, <4>1 DEF n
    <3>2. Framed(c.spans, c.out) /\ PlainTodo(c.todo) /\ c.code # Code_LongForm
      BY <2>1, <3>1 DEF FileLevel, Level
    <3>3. todo' = c.todo
      BY <1>4, <2>2 DEF WriteBlock, DropBlock
    <3>4. Framed(spans', out')
      <4>1. c.out \in Seq(Byte) /\ c.spans \in Seq(Span) /\ c.code \in Byte
        BY <2>2 DEF Frame
      <4>2. CASE WriteBlock
        <5>1. Len(out) <= 255 /\ Emit(c.out, c.spans, <<c.code, Len(out)>> \o out, FALSE)
          BY <2>2, <4>2 DEF WriteBlock, Fits
        <5> HIDE DEF c
        <5>2. /\ Unit(<<c.code, Len(out)>> \o out)
              /\ <<c.code, Len(out)>> \o out \in Seq(Byte)
          BY <3>2, <4>1, <5>1, ShortUnit, HeaderTyped DEF TypeOK
        <5> QED BY <3>2, <4>1, <5>1, <5>2, FramedEmit
      <4>3. CASE DropBlock
        BY <2>2, <3>2, <4>3 DEF DropBlock
      <4> QED BY <1>4, <4>2, <4>3
    <3> QED BY <3>1, <3>2, <3>3, <3>4 DEF FileLevel, Level
  <2>5. CASE n # 1
    <3>1. stack' # <<>> /\ stack'[Len(stack')] = stack[Len(stack)]
      <4>1. n - 1 \in 1..(n - 1) /\ (n - 1) + 1 = n
        BY <1>1, <2>1, <2>5
      <4> QED BY <1>1, <2>3, <4>1 DEF n
    <3> QED BY <2>1, <3>1 DEF FileLevel
  <2> QED BY <2>4, <2>5
<1>5. CASE EndFlatten
  BY <1>5 DEF EndFlatten, flat, FileLevel
<1> QED BY <1>2, <1>3, <1>4, <1>5 DEF Flatten

\* Behind a framed setting another one begins, or the buffer ends.
LEMMA NextSetting ==
  ASSUME NEW ss \in Seq(Span), NEW b \in Seq(Byte), Framed(ss, b), NEW i \in DOMAIN ss
  PROVE  ss[i].to = Len(b) + 1 \/ \E j \in DOMAIN ss : ss[j].from = ss[i].to
<1> DEFINE n == Len(ss)
<1>1. n \in Nat /\ DOMAIN ss = 1..n /\ (n = 0 <=> ss = <<>>)
  OBVIOUS
<1>2. i \in 1..n /\ n # 0
  BY <1>1
<1>3. CASE i = n
  BY <1>1, <1>2, <1>3 DEF Framed, Tiles
<1>4. CASE i # n
  <2>1. i + 1 \in 1..n /\ i + 1 # 1 /\ (i + 1) - 1 = i
    BY <1>1, <1>2, <1>4
  <2>2. ss[i + 1].from = ss[i].to
    BY <1>1, <2>1 DEF Framed, Tiles
  <2> QED BY <1>1, <2>1, <2>2
<1> QED BY <1>3, <1>4

\* No code that the CMTS MIC asks for is the long form's.
LEMMA ListedShort == \A k \in 1..Len(CMTS_MIC_TLVS) : CMTS_MIC_TLVS[k] # Code_LongForm
  BY DEF CMTS_MIC_TLVS, Code_LongForm

\* A pass steps from setting to setting.
LEMMA WalkStays ==
  ASSUME TypeOK, WalkInv, stage = "cmts_mic", PlainTree, Framed(spans, out), Walk
  PROVE  pos' = Len(out) + 1 \/ \E i \in DOMAIN spans : spans[i].from = pos'
<1>1. out \in Seq(Byte) /\ spans \in Seq(Span) /\ Len(out) \in Nat /\ pos \in Nat
  BY DEF TypeOK
<1>2. CASE WalkSelect \/ WalkPass
  <2>1. pos < Len(out) /\ want \in 1..Len(CMTS_MIC_TLVS)
    BY <1>2 DEF WalkSelect, WalkPass, InBuffer, Walking, TypeOK
  <2>2. PICK i \in DOMAIN spans : spans[i].from = pos
    BY <1>1, <2>1 DEF WalkInv, WalkOnSettings
  <2>3. spans[i] \in Span /\ Sound(spans[i], out)
    BY <1>1, <2>2 DEF Framed
  <2>4. /\ spans[i].to = pos + WalkStep(out, pos) /\ spans[i].to <= Len(out) + 1
        /\ spans[i].to \in Nat
    BY <2>2, <2>3 DEF Sound, Readable, Span
  <2>5. pos' = spans[i].to
    <3>1. CASE WalkSelect
      <4>1. out[pos] # Code_LongForm
        BY <2>1, <3>1, ListedShort DEF WalkSelect, Wanted
      <4>2. WalkStep(out, pos) = out[pos + 1] + 2
        BY <4>1 DEF WalkStep
      <4>3. out[pos + 1] \in Nat
        <5>1. pos + 1 \in 1..Len(out)
          BY <1>1, <2>1
        <5>2. out[pos + 1] \in Byte
          BY <1>1, <5>1
        <5> QED BY <5>2, ByteFacts
      <4>4. pos + out[pos + 1] + 2 = spans[i].to
        BY <1>1, <2>4, <4>2, <4>3
      <4>5. pos' = IF pos + out[pos + 1] + 2 <= Len(out) + 1
                   THEN pos + out[pos + 1] + 2 ELSE Len(out) + 1
        BY <3>1 DEF WalkSelect
      <4> QED BY <2>4, <4>4, <4>5
    <3>2. CASE WalkPass
      BY <2>4, <3>2 DEF WalkPass
    <3> QED BY <1>2, <3>1, <3>2
  <2> QED BY <1>1, <2>2, <2>5, NextSetting
<1>3. CASE WalkRestart
  <2>1. pos' = 1
    BY <1>3 DEF WalkRestart
  <2>2. CASE spans = <<>>
    BY <2>1, <2>2 DEF Framed, Tiles
  <2>3. CASE spans # <<>>
    <3>1. 1 \in DOMAIN spans
      BY <1>1, <2>3
    <3> QED BY <2>1, <3>1 DEF Framed, Tiles
  <2> QED BY <2>2, <2>3
<1> QED BY <1>2, <1>3 DEF Walk

\* Nothing is written and the walk has not begun.
LEMMA WalkInit == Init => WalkInv
  BY DEF Init, WalkInv, WalkOnSettings

\* One step per action: Begin, flatten, the CM MIC, the walk, and the rest that ends it.
LEMMA WalkInvStep == TypeOK /\ StackInv /\ WalkInv /\ [Next]_vars => WalkInv'
<1> SUFFICES ASSUME TypeOK, StackInv, WalkInv, [Next]_vars PROVE WalkInv'
  OBVIOUS
<1>1. CASE UNCHANGED vars
  BY <1>1 DEF vars, input, flat, walk, WalkInv, WalkOnSettings, FileLevel, PlainTree
<1>2. CASE Begin
  <2>1. /\ stage' = "flatten" /\ tree' = tree /\ todo' = tree /\ stack' = <<>>
        /\ out' = <<>> /\ spans' = <<>> /\ pos' = 1
    BY <1>2 DEF Begin, input, walk, StackInv, WalkInv
  <2>2. Framed(<<>>, <<>>)
    BY DEF Framed, Tiles
  <2>3. PlainTree' => FileLevel'
    BY <2>1, <2>2 DEF PlainTree, PlainTodo, FileLevel, Level
  <2> QED BY <2>1, <2>3 DEF WalkInv, WalkOnSettings
<1>3. CASE Flatten
  <2>1. stage = "flatten" /\ tree' = tree /\ pos' = pos
    BY <1>3 DEF Flatten, WriteLeaf, WriteLongMib, DropLeaf, EnterBlock, WriteBlock,
                DropBlock, EndFlatten, Flattening, Returning, input, walk
  <2>2. stage' # "parsed" /\ stage' # "cmts_mic"
    BY <1>3 DEF Flatten, WriteLeaf, WriteLongMib, DropLeaf, EnterBlock, WriteBlock,
                DropBlock, EndFlatten, Flattening, Returning, Extensions
  <2>3. PlainTree' => FileLevel'
    BY <1>3, <2>1, FlattenLevel DEF PlainTree, WalkInv
  <2> QED BY <2>1, <2>2, <2>3 DEF WalkInv, WalkOnSettings
<1>4. CASE AddCmMic
  <2>1. /\ stage = "cm_mic" /\ stage' = "cmts_mic" /\ tree' = tree /\ pos' = 1
        /\ stack = <<>> /\ stack' = <<>> /\ todo' = todo
    BY <1>4 DEF AddCmMic, input, walk, StackInv, WalkInv
  <2>2. SUFFICES ASSUME PlainTree
                 PROVE  /\ FileLevel'
                        /\ pos' = Len(out') + 1 \/ \E i \in DOMAIN spans' : spans'[i].from = pos'
    BY <2>1 DEF WalkInv, WalkOnSettings, PlainTree
  <2>3. Framed(spans, out) /\ PlainTodo(todo)
    BY <2>1, <2>2 DEF WalkInv, FileLevel, Level
  <2>4. CASE out = <<>>
    <3>1. out' = out /\ spans' = spans
      BY <1>4, <2>4 DEF AddCmMic
    <3> QED BY <2>1, <2>3, <2>4, <3>1 DEF FileLevel, Level
  <2>5. CASE out # <<>>
    <3> DEFINE enc == <<Code_CmMic, 16>> \o Md5(out)
    <3>1. Emit(out, spans, enc, FALSE)
      BY <1>4, <2>5 DEF AddCmMic
    <3>2. Unit(enc) /\ enc \in Seq(Byte)
      <4> DEFINE d == Md5(out)
      <4>1. d \in Seq(Byte) /\ Len(d) = 16
        BY DigestTypes
      <4>2. Code_CmMic \in Byte /\ Code_CmMic # Code_LongForm
        BY DEF Code_CmMic, Code_LongForm, Byte
      <4> HIDE DEF d
      <4>3. Len(d) <= 255
        BY <4>1
      <4>4. Unit(<<Code_CmMic, Len(d)>> \o d) /\ <<Code_CmMic, Len(d)>> \o d \in Seq(Byte)
        BY <4>1, <4>2, <4>3, ShortUnit, HeaderTyped
      <4>5. <<Code_CmMic, Len(d)>> \o d = <<Code_CmMic, 16>> \o d
        BY <4>1
      <4> QED BY <4>4, <4>5 DEF d
    <3> HIDE DEF enc
    <3>3. Framed(spans', out') /\ spans' # <<>>
      BY <2>3, <3>1, <3>2, FramedEmit DEF TypeOK
    <3>4. spans' \in Seq(Span)
      BY <3>1, <3>2, EmitTyped DEF TypeOK
    <3>5. 1 \in DOMAIN spans' /\ spans'[1].from = 1
      BY <3>3, <3>4 DEF Framed, Tiles
    <3> QED BY <2>1, <2>3, <3>3, <3>5 DEF FileLevel, Level
  <2> QED BY <2>4, <2>5
<1>5. CASE Walk
  <2>1. /\ stage = "cmts_mic" /\ stage' = stage /\ tree' = tree /\ out' = out
        /\ spans' = spans /\ stack = <<>> /\ stack' = stack /\ todo' = todo
    BY <1>5 DEF Walk, WalkSelect, WalkPass, WalkRestart, Walking, input, flat, StackInv
  <2>2. PlainTree => Framed(spans, out)
    BY <2>1 DEF WalkInv, FileLevel, Level
  <2>3. PlainTree' => FileLevel'
    BY <2>1 DEF PlainTree, WalkInv, FileLevel
  <2>4. WalkOnSettings'
    BY <1>5, <2>1, <2>2, WalkStays DEF WalkOnSettings, PlainTree
  <2> QED BY <2>1, <2>3, <2>4 DEF WalkInv
<1>6. CASE RejectEmpty \/ AddCmtsMic \/ AddEodAndPad \/ NoDialplan \/ AddDialplan
             \/ AddMtaHash \/ Write \/ StopListing
  <2>1. stage' \notin {"parsed", "flatten", "cm_mic", "cmts_mic"}
    BY <1>6 DEF RejectEmpty, AddCmtsMic, AddEodAndPad, NoDialplan, AddDialplan,
                AddMtaHash, Write, StopListing, Extensions, AfterDialplan
  <2> QED BY <2>1 DEF WalkInv, WalkOnSettings
<1> QED BY <1>1, <1>2, <1>3, <1>4, <1>5, <1>6 DEF Next

\* The read position of the CMTS MIC walk is always the start of a setting or
\* the end of the buffer, for every tree without a short-form TLV 64.
THEOREM WalkAlwaysOnSettings == Spec => []WalkOnSettings
<1>1. TypeOK /\ StackBlocks /\ WalkInv /\ [Next]_vars => WalkInv'
  BY WalkInvStep DEF StackBlocks
<1>2. WalkInv => WalkOnSettings
  BY DEF WalkInv
<1> QED BY <1>1, <1>2, Typing, StackBlocksInit, StackBlocksStep, WalkInit, PTL DEF Spec

-----------------------------------------------------------------------------
(* What a call of flatten has still to write is the end of the tree.       *)

\* ts is what is left of the tree.
Rest(ts) == /\ Len(ts) <= Len(tree)
            /\ \A i \in 1..Len(ts) : ts[i] = tree[Len(tree) - Len(ts) + i]

\* The block on whose behalf the inner calls of flatten run.
Pending(f) == /\ Len(f.todo) < Len(tree)
              /\ LET t == tree[Len(tree) - Len(f.todo)]
                 IN t.block /\ t.code = f.code

\* The outermost call works through the tree in order.
Account ==
  /\ stage = "parsed" => todo = <<>> /\ out = <<>> /\ stack = <<>>
  /\ stage \notin {"parsed", "failed"} => tree # <<>>
  /\ stage = "flatten" => IF stack = <<>> THEN Rest(todo)
                          ELSE Rest(Outermost.todo) /\ Pending(Outermost)

\* Nothing is left to write before flatten begins.
LEMMA AccountInit == Init => Account
  BY DEF Init, Account

\* Taking the first of them leaves the rest.
LEMMA RestTail ==
  ASSUME tree \in Seq(Tlvs), NEW ts \in Seq(Tlvs), ts # <<>>, Rest(ts)
  PROVE  /\ Rest(Tail(ts)) /\ Len(Tail(ts)) = Len(ts) - 1 /\ Len(ts) \in Nat
         /\ Len(Tail(ts)) < Len(tree)
         /\ Head(ts) = tree[Len(tree) - Len(Tail(ts))]
<1> DEFINE m == Len(tree)
           n == Len(ts)
<1>1. m \in Nat /\ n \in Nat \ {0} /\ n <= m
  BY DEF Rest
<1>2. \A i \in 1..n : ts[i] = tree[m - n + i]
  BY DEF Rest
<1>3. /\ Len(Tail(ts)) = n - 1 /\ Head(ts) = ts[1]
      /\ \A i \in 1..(n - 1) : Tail(ts)[i] = ts[i + 1]
  OBVIOUS
<1> HIDE DEF m, n
<1>4. \A i \in 1..(n - 1) : Tail(ts)[i] = tree[m - (n - 1) + i]
  <2>1. \A i \in 1..(n - 1) : i + 1 \in 1..n /\ m - n + (i + 1) = m - (n - 1) + i
    BY <1>1
  <2> QED BY <1>2, <1>3, <2>1
<1>5. ts[1] = tree[m - (n - 1)]
  <2>1. 1 \in 1..n /\ m - n + 1 = m - (n - 1)
    BY <1>1
  <2> QED BY <1>2, <2>1
<1> QED BY <1>1, <1>3, <1>4, <1>5 DEF Rest, m, n

\* What a call that returns finds below it.
LEMMA PopStack ==
  ASSUME NEW S, NEW s \in Seq(S), s # <<>>
  PROVE  /\ Len(Tail(s)) = Len(s) - 1 /\ Head(s) = s[1] /\ (Tail(s) = <<>> <=> Len(s) = 1)
         /\ \A j \in 1..(Len(s) - 1) : Tail(s)[j] = s[j + 1]
<1>1. /\ Len(Tail(s)) = Len(s) - 1 /\ Head(s) = s[1]
      /\ \A j \in 1..(Len(s) - 1) : Tail(s)[j] = s[j + 1]
  OBVIOUS
<1>2. Tail(s) \in Seq(S) /\ Len(s) \in Nat
  OBVIOUS
<1>3. \A u \in Seq(S) : u = <<>> <=> Len(u) = 0
  OBVIOUS
<1> QED BY <1>1, <1>2, <1>3

\* flatten keeps account.
LEMMA AccountFlatten ==
  ASSUME TypeOK, Account, Flatten
  PROVE  Account'
<1> DEFINE n == Len(stack)
<1>1. /\ stack \in Seq(Frame) /\ n \in Nat /\ (stack = <<>> <=> n = 0)
      /\ tree \in Seq(Tlvs) /\ todo \in Seq(Tlvs)
  BY DEF TypeOK
<1>2. stage = "flatten" /\ tree' = tree /\ tree # <<>> /\ stage' # "parsed"
  BY DEF Account, Flatten, WriteLeaf, WriteLongMib, DropLeaf, EnterBlock, WriteBlock,
         DropBlock, EndFlatten, Flattening, Returning, Extensions, input
<1>3. CASE WriteLeaf \/ WriteLongMib \/ DropLeaf
  <2>1. stack' = stack /\ todo # <<>> /\ todo' = Tail(todo)
    BY <1>3 DEF WriteLeaf, WriteLongMib, DropLeaf, Flattening
  <2>2. CASE stack = <<>>
    <3>1. Rest(todo)'
      BY <1>1, <1>2, <2>1, <2>2, RestTail DEF Account, Rest
    <3> QED BY <1>2, <2>1, <2>2, <3>1 DEF Account
  <2>3. CASE stack # <<>>
    BY <1>2, <2>1, <2>3 DEF Account, Rest, Pending, Outermost
  <2> QED BY <2>2, <2>3
<1>4. CASE EnterBlock
  <2> DEFINE t == Head(todo)
             f == [code |-> t.code, todo |-> Tail(todo), out |-> out, spans |-> spans]
  <2>1. todo # <<>> /\ t.block /\ stack' = <<f>> \o stack
    BY <1>4 DEF EnterBlock, Flattening
  <2>2. f.code = t.code /\ f.todo = Tail(todo)
    OBVIOUS
  <2> HIDE DEF f
  <2>3. /\ Len(stack') = n + 1 /\ stack' # <<>> /\ stack'[1] = f
        /\ n # 0 => stack'[n + 1] = stack[n]
    BY <1>1, <2>1
  <2>4. CASE stack = <<>>
    <3>1. Outermost' = f
      BY <1>1, <2>3, <2>4 DEF Outermost
    <3>2. Rest(f.todo) /\ Pending(f)
      <4>1. Rest(todo)
        BY <1>2, <2>4 DEF Account
      <4> QED BY <1>1, <2>1, <2>2, <4>1, RestTail DEF Pending
    <3> QED BY <1>2, <2>3, <3>1, <3>2 DEF Account, Rest, Pending
  <2>5. CASE stack # <<>>
    <3>1. Outermost' = Outermost
      BY <1>1, <2>3, <2>5 DEF Outermost
    <3> QED BY <1>2, <2>3, <2>5, <3>1 DEF Account, Rest, Pending
  <2> QED BY <2>4, <2>5
<1>5. CASE WriteBlock \/ DropBlock
  <2>1. stack # <<>> /\ stack' = Tail(stack) /\ todo' = Head(stack).todo /\ n # 0
    BY <1>1, <1>5 DEF WriteBlock, DropBlock, Returning
  <2>2. /\ Len(stack') = n - 1 /\ Head(stack) = stack[1] /\ (stack' = <<>> <=> n = 1)
        /\ \A j \in 1..(n - 1) : stack'[j] = stack[j + 1]
    BY <1>1, <2>1, PopStack
  <2>3. CASE n = 1
    <3>1. Outermost = stack[1]
      BY <2>3 DEF Outermost
    <3> QED BY <1>2, <2>1, <2>2, <2>3, <3>1 DEF Account, Rest
  <2>4. CASE n # 1
    <3>1. Outermost' = Outermost
      <4>1. n - 1 \in 1..(n - 1) /\ (n - 1) + 1 = n
        <5> HIDE DEF n
        <5> QED BY <1>1, <2>1, <2>4
      <4>2. Outermost' = stack'[n - 1] /\ Outermost = stack[n]
        BY <2>2 DEF Outermost
      <4> QED BY <2>2, <4>1, <4>2
    <3> QED BY <1>2, <2>1, <2>2, <2>4, <3>1 DEF Account, Rest, Pending
  <2> QED BY <2>3, <2>4
<1>6. CASE EndFlatten
  BY <1>2, <1>6 DEF EndFlatten, Extensions, flat, Account
<1> QED BY <1>3, <1>4, <1>5, <1>6 DEF Flatten

\* So does every other step: it is taken before flatten or after it.
LEMMA AccountStep == TypeOK /\ Account /\ [Next]_vars => Account'
<1> SUFFICES ASSUME TypeOK, Account, [Next]_vars PROVE Account'
  OBVIOUS
<1>1. CASE Flatten
  BY <1>1, AccountFlatten
<1>2. CASE Begin
  <2>1. /\ stage = "parsed" /\ stage' = "flatten" /\ tree' = tree /\ tree # <<>>
        /\ todo' = tree /\ stack' = <<>>
    BY <1>2 DEF Begin, input, Account
  <2>2. Rest(tree)
    BY DEF Rest, TypeOK
  <2> QED BY <2>1, <2>2 DEF Account, Rest
<1>3. CASE RejectEmpty
  BY <1>3 DEF RejectEmpty, Account
<1>4. CASE UNCHANGED vars
  BY <1>4 DEF vars, input, flat, Account, Rest, Pending, Outermost
<1>5. CASE AddCmMic \/ Walk \/ AddCmtsMic \/ AddEodAndPad \/ NoDialplan \/ AddDialplan
             \/ AddMtaHash \/ Write \/ StopListing
  <2>1. /\ tree' = tree /\ stage \notin {"parsed", "failed", "flatten"}
        /\ stage' \notin {"parsed", "failed", "flatten"}
    BY <1>5 DEF AddCmMic, Walk, WalkSelect, WalkPass, WalkRestart, Walking, AddCmtsMic,
                AddEodAndPad, NoDialplan, AddDialplan, AddMtaHash, Write, StopListing,
                Selected, Extensions, AfterDialplan, input
  <2> QED BY <2>1 DEF Account
<1> QED BY <1>1, <1>2, <1>3, <1>4, <1>5 DEF Next

-----------------------------------------------------------------------------
(* What is written is whole, and stands behind what was there.             *)

\* A concatenation grows its first part by its second.
LEMMA GrownBehind ==
  ASSUME NEW b \in Seq(Byte), NEW e \in Seq(Byte)
  PROVE  Config!Grown(b, b \o e) /\ Config!Behind(b, b \o e) = e
<1>1. Len(b \o e) = Len(b) + Len(e) /\ Len(b) \in Nat /\ Len(e) \in Nat
  OBVIOUS
<1>2. SubSeq(b \o e, 1, Len(b)) = b
  BY SubSeqOfConcat1, SubSeqFull
<1>3. SubSeq(b \o e, Len(b) + 1, Len(b \o e)) = e
  BY <1>1, SubSeqOfConcat2, SubSeqFull
<1> QED BY <1>1, <1>2, <1>3 DEF Config!Grown, Config!Behind

\* What stands behind a header of k bytes.
LEMMA BehindTop ==
  ASSUME NEW top \in Seq(Byte), NEW body \in Seq(Byte)
  PROVE  /\ Len(top) = 2 => SubSeq(top \o body, 3, Len(top \o body)) = body
         /\ Len(top) = 3 => SubSeq(top \o body, 4, Len(top \o body)) = body
<1> DEFINE enc == top \o body
<1>1. SubSeq(enc, Len(top) + 1, Len(enc)) = body
  BY GrownBehind DEF Config!Behind
<1> HIDE DEF enc
<1>2. 2 + 1 = 3 /\ 3 + 1 = 4
  OBVIOUS
<1>3. /\ Len(top) = 2 => SubSeq(enc, 3, Len(enc)) = body
      /\ Len(top) = 3 => SubSeq(enc, 4, Len(enc)) = body
  BY <1>1, <1>2, Zenon
<1> QED BY <1>3 DEF enc

\* A setting with one length byte is whole.
LEMMA ShortWhole ==
  ASSUME NEW t \in Tlvs, NEW body \in Seq(Byte), Len(body) <= 255, ~t.block => body = t.value
  PROVE  Config!Short(<<t.code, Len(body)>> \o body, t)
<1> DEFINE n   == Len(body)
           top == <<t.code, n>>
           enc == top \o body
<1>1. n \in Nat /\ n \in Byte /\ t.code \in Byte
  <2>1. n \in Nat
    OBVIOUS
  <2> QED BY <2>1, ByteFacts, TlvsAssumption
<1> HIDE DEF n
<1>2. top \in Seq(Byte) /\ Len(top) = 2 /\ top[1] = t.code /\ top[2] = n
  BY <1>1
<1> HIDE DEF top
<1>3. Len(enc) = 2 + n /\ enc[1] = t.code /\ enc[2] = n
  <2>1. 1 \in 1..Len(top) /\ 2 \in 1..Len(top)
    BY <1>2
  <2>2. Len(enc) = Len(top) + Len(body) /\ enc[1] = top[1] /\ enc[2] = top[2]
    BY <1>2, <2>1, ConcatAt, SMTT(30)
  <2> HIDE DEF enc
  <2> QED BY <1>2, <2>2 DEF n
<1>4. SubSeq(enc, 3, Len(enc)) = body
  BY <1>2, BehindTop
<1> HIDE DEF enc
<1>5. Config!Short(enc, t)
  BY <1>1, <1>3, <1>4 DEF Config!Short
<1> QED BY <1>5 DEF enc, top, n

\* So is one with two, at every size.
LEMMA LongWhole ==
  ASSUME NEW t \in Tlvs, t.code = Code_SnmpMibObject, ~t.block
  PROVE  Config!Long(<<Code_LongForm>> \o BE16(Len(t.value)) \o t.value, t)
<1> DEFINE body == t.value
           n    == Len(body)
           hi   == (n % 65536) \div 256
           lo   == n % 256
           top  == <<Code_LongForm>> \o <<hi, lo>>
           enc  == top \o body
<1>1. body \in Seq(Byte) /\ n \in Nat
  BY TlvsAssumption
<1> HIDE DEF body, n
<1>2. BE16(n) = <<hi, lo>>
  BY DEF BE16
<1>3. hi \in Byte /\ lo \in Byte /\ 256 * hi + lo = n % 65536
  BY <1>1 DEF Byte
<1>4. Code_LongForm \in Byte
  BY DEF Code_LongForm, Byte
<1> HIDE DEF hi, lo
<1>5. /\ top \in Seq(Byte) /\ Len(top) = 3
      /\ top[1] = Code_LongForm /\ top[2] = hi /\ top[3] = lo
  BY <1>3, <1>4
<1> HIDE DEF top
<1>6. Len(enc) = 3 + n /\ enc[1] = Code_LongForm /\ enc[2] = hi /\ enc[3] = lo
  <2>1. 1 \in 1..Len(top) /\ 2 \in 1..Len(top) /\ 3 \in 1..Len(top)
    BY <1>5
  <2>2. /\ Len(enc) = Len(top) + Len(body)
        /\ enc[1] = top[1] /\ enc[2] = top[2] /\ enc[3] = top[3]
    <3>1. top \in Seq(Byte) /\ body \in Seq(Byte)
      BY <1>1, <1>5
    <3> QED BY <2>1, <3>1, ConcatAt
  <2> HIDE DEF enc
  <2> QED BY <1>5, <2>2 DEF n
<1>7. SubSeq(enc, 4, Len(enc)) = body
  BY <1>1, <1>5, BehindTop
<1> HIDE DEF enc
<1>8. Config!Long(enc, t)
  <2>1. Len(enc) >= 3 /\ (Len(enc) - 3) % 65536 = n % 65536
    BY <1>1, <1>6
  <2>2. body = t.value
    BY DEF body
  <2>3. 256 * enc[2] + enc[3] = (Len(enc) - 3) % 65536
    BY <1>3, <1>6, <2>1
  <2> QED BY <1>6, <1>7, <2>1, <2>2, <2>3
          DEF Config!Long, Config!Code_LongForm, Code_LongForm,
              Config!Code_SnmpMibObject, Code_SnmpMibObject
<1> QED BY <1>2, <1>8 DEF enc, top, n, body

-----------------------------------------------------------------------------
(* Every step of flatten is a step of ConfigFile or none.                  *)

\* What ConfigFile sees of the outermost call, and of calls inside it.
LEMMA SeenOutside ==
  ASSUME stage = "flatten", stack = <<>>
  PROVE  Taken = Len(tree) - Len(todo) /\ FileSoFar = out /\ Phase = "settings"
  BY DEF Taken, FileSoFar, Phase

\* Inside a block it sees the outermost caller, with its block still open.
LEMMA SeenInside ==
  ASSUME stage = "flatten", stack # <<>>
  PROVE  /\ Taken = Len(tree) - Len(Outermost.todo) - 1 /\ FileSoFar = Outermost.out
         /\ Phase = "settings"
  BY DEF Taken, FileSoFar, Phase

\* Writing a leaf of the file itself, or leaving it out, takes the next setting;
\* inside a block nothing is seen of it.
LEMMA LeafMaps ==
  ASSUME TypeOK, Account, WriteLeaf \/ WriteLongMib \/ DropLeaf
  PROVE  [Config!CFNext]_(Config!cfvars)
<1> DEFINE t == Head(todo)
           v == t.value
<1>1. /\ stage = "flatten" /\ stage' = "flatten" /\ tree' = tree /\ stack' = stack
      /\ todo # <<>> /\ todo' = Tail(todo) /\ ~t.block
  BY DEF WriteLeaf, WriteLongMib, DropLeaf, Flattening, input
<1>2. CASE stack # <<>>
  <2>1. Outermost' = Outermost
    BY <1>1 DEF Outermost
  <2>2. Taken' = Taken /\ FileSoFar' = FileSoFar /\ Phase' = Phase
    BY <1>1, <1>2, <2>1, SeenInside DEF Taken, FileSoFar, Phase
  <2> QED BY <1>1, <2>2 DEF Config!cfvars
<1>3. CASE stack = <<>>
  <2>1. /\ Taken = Len(tree) - Len(todo) /\ Taken' = Len(tree) - Len(Tail(todo))
        /\ FileSoFar = out /\ FileSoFar' = out' /\ Phase = "settings" /\ Phase' = "settings"
    BY <1>1, <1>3 DEF Taken, FileSoFar, Phase
  <2>2. tree \in Seq(Tlvs) /\ todo \in Seq(Tlvs) /\ Rest(todo) /\ out \in Seq(Byte)
    BY <1>1, <1>3 DEF TypeOK, Account
  <2>3. /\ Len(Tail(todo)) = Len(todo) - 1 /\ Len(todo) \in Nat /\ Len(Tail(todo)) < Len(tree)
        /\ t = tree[Len(tree) - Len(Tail(todo))]
    BY <1>1, <2>2, RestTail
  <2>4. Taken' = Taken + 1 /\ Taken < Len(tree) /\ t = tree[Taken + 1]
    <3> DEFINE m == Len(tree)
               k == Len(todo)
               r == Len(Tail(todo))
    <3>1. /\ Taken = m - k /\ Taken' = m - r /\ r = k - 1 /\ k \in Nat \ {0} /\ m \in Nat
      BY <1>1, <2>1, <2>2, <2>3
    <3>2. t = tree[m - r]
      BY <2>3
    <3> HIDE DEF m, k, r, t
    <3>3. Taken' = Taken + 1 /\ Taken < m /\ m - r = Taken + 1
      BY <3>1
    <3> QED BY <3>2, <3>3 DEF m
  <2>5. Config!Taking
    BY <1>1, <2>1, <2>4 DEF Config!Taking
  <2>6. t \in Tlvs /\ v \in Seq(Byte)
    BY <1>1, <2>2, TailTyped, TlvsAssumption
  <2>7. CASE DropLeaf
    BY <2>1, <2>5, <2>7 DEF DropLeaf, Config!LeaveOut, Config!CFNext
  <2>8. ASSUME NEW enc \in Seq(Byte), out' = out \o enc, Config!Whole(enc, t)
        PROVE  Config!WriteOne
    <3>1. Config!Grown(out, out') /\ Config!Behind(out, out') = enc
      BY <2>2, <2>8, GrownBehind
    <3> QED BY <2>1, <2>4, <2>5, <2>8, <3>1 DEF Config!WriteOne
  <2>9. CASE WriteLeaf
    <3>1. Len(v) <= 255 /\ out' = out \o (<<t.code, Len(v)>> \o v)
      BY <2>9 DEF WriteLeaf, Fits, Emit
    <3>2. <<t.code, Len(v)>> \o v \in Seq(Byte)
      BY <2>6, <3>1, HeaderTyped, TlvsAssumption
    <3>3. Config!Whole(<<t.code, Len(v)>> \o v, t)
      BY <2>6, <3>1, ShortWhole DEF Config!Whole
    <3>4. Config!WriteOne
      BY <2>8, <3>1, <3>2, <3>3
    <3> QED BY <3>4 DEF Config!CFNext
  <2>10. CASE WriteLongMib
    <3> DEFINE enc == <<Code_LongForm>> \o BE16(Len(v)) \o v
    <3>1. t.code = Code_SnmpMibObject /\ out' = out \o enc
      BY <2>10 DEF WriteLongMib, Emit
    <3>2. enc \in Seq(Byte)
      BY <2>6, LongTyped
    <3>3. Config!Whole(enc, t)
      BY <1>1, <2>6, <3>1, LongWhole DEF Config!Whole
    <3> HIDE DEF enc
    <3>4. Config!WriteOne
      BY <2>8, <3>1, <3>2, <3>3
    <3> QED BY <3>4 DEF Config!CFNext
  <2> QED BY <2>7, <2>9, <2>10
<1> QED BY <1>2, <1>3

\* Entering a block shows nothing: the block is taken when it returns.
LEMMA EnterMaps ==
  ASSUME TypeOK, EnterBlock
  PROVE  UNCHANGED Config!cfvars
<1> DEFINE f == [code |-> Head(todo).code, todo |-> Tail(todo), out |-> out, spans |-> spans]
           n == Len(stack)
<1>1. /\ stage = "flatten" /\ stage' = "flatten" /\ tree' = tree
      /\ todo # <<>> /\ stack' = <<f>> \o stack
  BY DEF EnterBlock, Flattening, input
<1>2. f.todo = Tail(todo) /\ f.out = out
  OBVIOUS
<1>3. stack \in Seq(Frame) /\ n \in Nat /\ (stack = <<>> <=> n = 0) /\ todo \in Seq(Tlvs)
  BY DEF TypeOK
<1> HIDE DEF f
<1>4. /\ Len(stack') = n + 1 /\ stack' # <<>> /\ stack'[1] = f
      /\ n # 0 => stack'[n + 1] = stack[n]
  BY <1>1, <1>3
<1>5. CASE stack = <<>>
  <2>1. Outermost' = f
    BY <1>3, <1>4, <1>5 DEF Outermost
  <2>2. FileSoFar' = FileSoFar /\ Phase' = Phase
    BY <1>1, <1>2, <1>4, <1>5, <2>1 DEF FileSoFar, Phase
  <2>3. Taken' = Len(tree) - Len(Tail(todo)) - 1 /\ Taken = Len(tree) - Len(todo)
    BY <1>1, <1>2, <1>4, <1>5, <2>1 DEF Taken
  <2>4. Len(Tail(todo)) = Len(todo) - 1 /\ Len(todo) \in Nat /\ Len(tree) \in Nat
    BY <1>1, <1>3, PopStack DEF TypeOK
  <2>5. Taken' = Taken
    <3> DEFINE m == Len(tree)
               k == Len(todo)
               r == Len(Tail(todo))
    <3>1. Taken' = m - r - 1 /\ Taken = m - k /\ r = k - 1 /\ k \in Nat /\ m \in Nat
      BY <2>3, <2>4
    <3> HIDE DEF m, k, r
    <3> QED BY <3>1
  <2> QED BY <1>1, <2>2, <2>5 DEF Config!cfvars
<1>6. CASE stack # <<>>
  <2>1. Outermost' = Outermost
    BY <1>3, <1>4, <1>6 DEF Outermost
  <2>2. FileSoFar' = FileSoFar /\ Phase' = Phase /\ Taken' = Taken
    BY <1>1, <1>4, <1>6, <2>1 DEF FileSoFar, Phase, Taken
  <2> QED BY <1>1, <2>2 DEF Config!cfvars
<1> QED BY <1>5, <1>6

\* A block of the file itself is taken, written or not, when its call returns.
LEMMA ReturnMaps ==
  ASSUME TypeOK, Account, WriteBlock \/ DropBlock
  PROVE  [Config!CFNext]_(Config!cfvars)
<1> DEFINE n == Len(stack)
           c == stack[1]
<1>1. /\ stage = "flatten" /\ stage' = "flatten" /\ tree' = tree /\ stack # <<>>
      /\ stack' = Tail(stack) /\ todo' = Head(stack).todo
  BY DEF WriteBlock, DropBlock, Returning, input
<1>2. /\ Head(stack) = c /\ Len(stack') = n - 1 /\ (stack' = <<>> <=> n = 1)
      /\ \A j \in 1..(n - 1) : stack'[j] = stack[j + 1]
  BY <1>1, PopStack DEF TypeOK
<1>3. n \in Nat /\ n # 0 /\ c \in Frame /\ tree \in Seq(Tlvs) /\ out \in Seq(Byte)
  BY <1>1, <1>2, TailTyped DEF TypeOK
<1>4. CASE n # 1
  <2>1. Outermost' = Outermost
    <3>1. n - 1 \in 1..(n - 1) /\ (n - 1) + 1 = n
      <4> HIDE DEF n
      <4> QED BY <1>3, <1>4
    <3>2. Outermost' = stack'[n - 1] /\ Outermost = stack[n]
      BY <1>2 DEF Outermost
    <3> QED BY <1>2, <3>1, <3>2
  <2>2. FileSoFar' = FileSoFar /\ Phase' = Phase /\ Taken' = Taken
    BY <1>1, <1>2, <1>4, <2>1 DEF FileSoFar, Phase, Taken
  <2> QED BY <1>1, <2>2 DEF Config!cfvars
<1>5. CASE n = 1
  <2>1. Outermost = c
    BY <1>5 DEF Outermost
  <2>2. /\ Taken = Len(tree) - Len(c.todo) - 1 /\ Taken' = Len(tree) - Len(c.todo)
        /\ FileSoFar = c.out /\ FileSoFar' = out' /\ Phase = "settings" /\ Phase' = "settings"
    BY <1>1, <1>2, <1>5, <2>1 DEF Taken, FileSoFar, Phase
  <2>3. Pending(c)
    BY <1>1, <2>1 DEF Account
  <2> DEFINE t == tree[Len(tree) - Len(c.todo)]
  <2>4. t.block /\ t.code = c.code /\ Len(c.todo) < Len(tree)
    BY <2>3 DEF Pending
  <2>5. /\ c.todo \in Seq(Tlvs) /\ c.out \in Seq(Byte) /\ c.code \in Byte
    BY <1>3 DEF Frame
  <2>6. t \in Tlvs /\ Taken' = Taken + 1 /\ Taken < Len(tree) /\ t = tree[Taken + 1]
    <3> DEFINE m == Len(tree)
               k == Len(c.todo)
    <3>1. m \in Nat /\ k \in Nat /\ k < m /\ Taken = m - k - 1 /\ Taken' = m - k
      BY <1>3, <2>2, <2>4, <2>5
    <3>2. \A i \in 1..m : tree[i] \in Tlvs
      BY <1>3
    <3> HIDE DEF m, k
    <3>3. Taken' = Taken + 1 /\ Taken < m /\ m - k = Taken + 1 /\ m - k \in 1..m
      BY <3>1
    <3> QED BY <3>2, <3>3 DEF m, k
  <2> HIDE DEF t
  <2>7. Config!Taking
    BY <1>1, <2>2, <2>6 DEF Config!Taking
  <2>8. CASE DropBlock
    <3>1. out' = c.out
      BY <1>2, <2>8 DEF DropBlock
    <3> QED BY <2>2, <2>7, <3>1 DEF Config!LeaveOut, Config!CFNext
  <2>9. CASE WriteBlock
    <3> DEFINE enc == <<c.code, Len(out)>> \o out
    <3>1. Len(out) <= 255 /\ out' = c.out \o enc
      BY <1>2, <2>9 DEF WriteBlock, Fits, Emit
    <3>2. enc \in Seq(Byte)
      BY <1>3, <2>5, <3>1, HeaderTyped
    <3>3. Config!Whole(enc, t)
      BY <1>3, <2>4, <2>6, <3>1, ShortWhole DEF Config!Whole
    <3> HIDE DEF enc
    <3>4. Config!Grown(c.out, out') /\ Config!Behind(c.out, out') = enc
      BY <2>5, <3>1, <3>2, GrownBehind
    <3>5. Config!WriteOne
      BY <2>2, <2>6, <2>7, <3>3, <3>4 DEF Config!WriteOne
    <3> QED BY <3>5 DEF Config!CFNext
  <2> QED BY <2>8, <2>9
<1> QED BY <1>4, <1>5

\* flatten as a whole.
LEMMA FlattenMaps ==
  ASSUME TypeOK, Account, Flatten
  PROVE  [Config!CFNext]_(Config!cfvars)
<1>1. CASE EndFlatten
  <2>1. /\ stage = "flatten" /\ todo = <<>> /\ stack = <<>> /\ tree' = tree /\ todo' = todo
        /\ stack' = stack /\ out' = out
        /\ stage' \in {"cm_mic", "dialplan", "hash", "write"}
    BY <1>1 DEF EndFlatten, Extensions, input, flat
  <2>2. tree # <<>> /\ Len(tree) \in Nat
    BY <2>1 DEF Account, TypeOK
  <2>3. Taken = Len(tree) /\ Taken' = Len(tree) /\ FileSoFar' = FileSoFar
    <3>1. Len(todo) = 0
      BY <2>1
    <3>2. Taken = Len(tree) - Len(todo) /\ Taken' = Len(tree) - Len(todo)
      BY <2>1 DEF Taken
    <3>3. FileSoFar' = FileSoFar
      BY <2>1 DEF FileSoFar
    <3> QED BY <2>2, <3>1, <3>2, <3>3
  <2>4. Phase = "settings" /\ Phase' \in {"cm_mic", "extend"}
    BY <2>1 DEF Phase
  <2>5. Config!EndSettings
    BY <2>1, <2>2, <2>3, <2>4 DEF Config!EndSettings
  <2> QED BY <2>5 DEF Config!CFNext
<1> QED BY <1>1, LeafMaps, EnterMaps, ReturnMaps DEF Flatten

-----------------------------------------------------------------------------
(* So is every step that seals, extends or ends.                           *)

\* Behind flatten ConfigFile sees the buffer itself, and the count stands.
LEMMA SeenBehind ==
  ASSUME StackInv, stage \notin {"parsed", "flatten"}, stage' \notin {"parsed", "flatten"},
         tree' = tree, todo' = todo, stack' = stack
  PROVE  FileSoFar = out /\ FileSoFar' = out' /\ Taken' = Taken
  BY DEF StackInv, FileSoFar, Taken

\* A code, the number 16 and a digest seal the file.
LEMMA SealGrows ==
  ASSUME NEW b \in Seq(Byte), NEW code \in Byte, NEW d \in Seq(Byte), Len(d) = 16
  PROVE  LET c == b \o (<<code, 16>> \o d) IN
         /\ Config!Grown(b, c) /\ Len(c) = Len(b) + 18
         /\ SubSeq(c, Len(b) + 1, Len(b) + 2) = <<code, 16>>
<1> DEFINE h == <<code, 16>>
           e == h \o d
           c == b \o e
<1>1. h \in Seq(Byte) /\ Len(h) = 2
  BY DEF Byte
<1> HIDE DEF h
<1>2. e \in Seq(Byte) /\ Len(e) = 18 /\ e[1] = h[1] /\ e[2] = h[2]
  <2>1. h \in Seq(Byte) /\ d \in Seq(Byte)
    BY <1>1
  <2>2. 1 \in 1..Len(h) /\ 2 \in 1..Len(h)
    BY <1>1
  <2>3. e \in Seq(Byte) /\ Len(e) = Len(h) + Len(d)
    BY <2>1, ConcatAt, ZenonT(30)
  <2>4. \A i \in 1..Len(h) : e[i] = h[i]
    BY <2>1, ConcatAt
  <2> HIDE DEF e
  <2> QED BY <1>1, <2>2, <2>3, <2>4
<1> HIDE DEF e
<1>3. Len(c) = Len(b) + 18 /\ c \in Seq(Byte)
  <2>1. c \in Seq(Byte) /\ Len(c) = Len(b) + Len(e)
    BY <1>2, ConcatAt, ZenonT(30)
  <2> HIDE DEF c
  <2> QED BY <1>2, <2>1
<1>4. Config!Grown(b, c)
  BY <1>2, GrownBehind
<1>5. c[Len(b) + 1] = e[1] /\ c[Len(b) + 2] = e[2]
  <2>1. 1 \in 1..Len(e) /\ 2 \in 1..Len(e)
    BY <1>2
  <2>2. b \in Seq(Byte) /\ e \in Seq(Byte)
    BY <1>2
  <2> QED BY <2>1, <2>2, ConcatAt
<1> HIDE DEF c
<1>6. SubSeq(c, Len(b) + 1, Len(b) + 2) = h
  <2> DEFINE l == Len(b)
             s == SubSeq(c, l + 1, l + 2)
  <2>1. l \in Nat /\ Len(c) = l + 18
    BY <1>3
  <2> HIDE DEF l
  <2>2. Len(s) = 2 /\ s \in Seq(Byte) /\ s[1] = c[l + 1] /\ s[2] = c[l + 2]
    BY <1>3, <2>1
  <2> HIDE DEF s
  <2>3. s = h
    BY <1>1, <1>2, <1>5, <2>2 DEF l
  <2> QED BY <2>3 DEF s, l
<1> QED BY <1>3, <1>4, <1>6 DEF c, e, h

\* The two MICs.
LEMMA SealMaps ==
  ASSUME TypeOK, StackInv, AddCmMic \/ AddCmtsMic
  PROVE  Config!CFNext
<1>1. /\ stage \in {"cm_mic", "cmts_mic"} /\ stage' \notin {"parsed", "flatten"}
      /\ tree' = tree /\ todo' = todo /\ stack' = stack
  BY DEF AddCmMic, AddCmtsMic, Selected, input
<1>2. FileSoFar = out /\ FileSoFar' = out' /\ Taken' = Taken
  BY <1>1, SeenBehind
<1>3. out \in Seq(Byte)
  BY DEF TypeOK
<1>4. CASE AddCmMic
  <2>1. Phase = "cm_mic" /\ Phase' = "cmts_mic"
    BY <1>4 DEF AddCmMic, Phase
  <2>2. Config!Sealed(Code_CmMic)
    <3>1. CASE out = <<>>
      BY <1>2, <1>4, <3>1 DEF AddCmMic, Config!Sealed
    <3>2. CASE out # <<>>
      <4>1. out' = out \o (<<Code_CmMic, 16>> \o Md5(out))
        BY <1>4, <3>2 DEF AddCmMic, Emit
      <4>2. Code_CmMic \in Byte
        BY DEF Code_CmMic, Byte
      <4> QED BY <1>2, <1>3, <3>2, <4>1, <4>2, SealGrows, DigestTypes DEF Config!Sealed
    <3> QED BY <3>1, <3>2
  <2> QED BY <1>1, <1>2, <2>1, <2>2
          DEF Config!SealModem, Config!Code_CmMic, Code_CmMic, Config!CFNext
<1>5. CASE AddCmtsMic
  <2>1. Phase = "cmts_mic" /\ Phase' = "eod"
    BY <1>5 DEF AddCmtsMic, Selected, Phase
  <2>2. Config!Sealed(Code_CmtsMic)
    <3>1. CASE out = <<>>
      BY <1>2, <1>5, <3>1 DEF AddCmtsMic, Config!Sealed
    <3>2. CASE out # <<>>
      <4>1. out' = out \o (<<Code_CmtsMic, 16>> \o Hmac(selected))
        BY <1>5, <3>2 DEF AddCmtsMic, Emit
      <4>2. Code_CmtsMic \in Byte
        BY DEF Code_CmtsMic, Byte
      <4> QED BY <1>2, <1>3, <3>2, <4>1, <4>2, SealGrows, DigestTypes DEF Config!Sealed
    <3> QED BY <3>1, <3>2
  <2> QED BY <1>1, <1>2, <2>1, <2>2
          DEF Config!SealSystem, Config!Code_CmtsMic, Code_CmtsMic, Config!CFNext
<1> QED BY <1>4, <1>5

\* The end-of-data marker, padded to four bytes.
LEMMA EodMaps ==
  ASSUME TypeOK, StackInv, AddEodAndPad
  PROVE  Config!CFNext
<1> DEFINE l   == Len(out)
           k   == Pad(l + 1)
           pad == [i \in 1..k |-> 0]
           mid == out \o <<Code_EndOfData>>
<1>1. /\ stage = "eod" /\ stage' \in {"dialplan", "hash", "write"}
      /\ tree' = tree /\ todo' = todo /\ stack' = stack
  BY DEF AddEodAndPad, Extensions, input, flat
<1>2. FileSoFar = out /\ FileSoFar' = out' /\ Taken' = Taken
  BY <1>1, SeenBehind
<1>3. Phase = "eod" /\ Phase' = "extend"
  BY <1>1 DEF Phase
<1>4. out = <<>> => out' = out
  BY DEF AddEodAndPad
<1>5. ASSUME out # <<>>
      PROVE  /\ Config!Grown(out, out') /\ Len(out') \in (l + 1)..(l + 4)
             /\ out'[l + 1] = Code_EndOfData /\ Len(out') % 4 = 0
  <2>1. out' = mid \o pad
    BY <1>5 DEF AddEodAndPad
  <2>2. out \in Seq(Byte) /\ l \in Nat
    BY DEF TypeOK
  <2>3. k \in 0..3 /\ (l + 1 + k) % 4 = 0
    <3> HIDE DEF l
    <3> QED BY <2>2 DEF Pad
  <2> HIDE DEF k
  <2>4. pad \in Seq(Byte) /\ Len(pad) = k
    <3>1. pad \in [1..k -> Byte] /\ k \in Nat
      BY <2>3 DEF Byte
    <3> QED BY <3>1, SeqDef, LenProperties
  <2> HIDE DEF pad
  <2>5. <<Code_EndOfData>> \in Seq(Byte) /\ Len(<<Code_EndOfData>>) = 1
    BY DEF Code_EndOfData, Byte
  <2>6. out' = out \o (<<Code_EndOfData>> \o pad)
    BY <2>1, <2>2, <2>4, <2>5, ConcatAssociative
  <2> DEFINE e == <<Code_EndOfData>> \o pad
  <2>7. e \in Seq(Byte) /\ Len(e) = 1 + k /\ e[1] = Code_EndOfData
    BY <2>4, <2>5
  <2> HIDE DEF e
  <2>8. Len(out') = l + 1 + k
    <3>1. Len(out') = l + Len(e)
      BY <2>2, <2>6, <2>7, ConcatAt DEF e
    <3> QED BY <2>2, <2>3, <2>7, <3>1
  <2>9. out'[l + 1] = Code_EndOfData
    <3>1. 1 \in 1..Len(e)
      BY <2>3, <2>7
    <3>2. out'[l + 1] = e[1]
      BY <2>2, <2>6, <2>7, <3>1, ConcatAt DEF e
    <3> QED BY <2>7, <3>2
  <2>10. Config!Grown(out, out')
    BY <2>2, <2>6, <2>7, GrownBehind DEF e
  <2> QED BY <2>2, <2>3, <2>8, <2>9, <2>10
<1>6. Config!EndFile
  BY <1>1, <1>2, <1>3, <1>4, <1>5 DEF Config!EndFile, Config!Code_EndOfData, Code_EndOfData
<1> QED BY <1>6 DEF Config!CFNext

\* Something put where a terminator was cut off, and the terminator behind it.
LEMMA ExtensionGrows ==
  ASSUME NEW b \in Seq(Byte), Len(b) >= 3, NEW mid \in Seq(Byte), mid # <<>>
  PROVE  LET c == Cut(b, 3) \o mid \o MTA_END IN
         /\ Config!Grown(Cut(b, 3), c) /\ Len(c) > Len(b)
         /\ SubSeq(c, Len(c) - 2, Len(c)) = MTA_END
<1> DEFINE a == Cut(b, 3)
           z == MTA_END
           m == a \o mid
           c == m \o z
<1>1. a \in Seq(Byte) /\ Len(a) = Len(b) - 3
  <2>1. Len(a) = Len(b) - 3
    <3>1. \A i \in 1..(Len(b) - 3) : b[i] \in Byte
      BY ElementOfSeq
    <3>2. Len(b) - 3 \in Int
      OBVIOUS
    <3>3. Len(Cut(b, 3)) = IF 1 <= Len(b) - 3 THEN (Len(b) - 3) - 1 + 1 ELSE 0
      BY <3>1, <3>2, SubSeqProperties DEF Cut
    <3> HIDE DEF a
    <3>4. Len(b) \in Nat /\ a = Cut(b, 3)
      BY DEF a
    <3> QED BY <3>3, <3>4
  <2> QED BY <2>1, CutTyped
<1>2. z \in Seq(Byte) /\ Len(z) = 3
  BY DEF MTA_END, Byte
<1> HIDE DEF a, z
<1>3. m \in Seq(Byte) /\ Len(m) = Len(a) + Len(mid) /\ Len(mid) \in Nat \ {0}
  BY <1>1
<1>4. mid \o z \in Seq(Byte) /\ c = a \o (mid \o z)
  BY <1>1, <1>2, ConcatAssociative, SMTT(30)
<1>5. Config!Grown(a, c)
  BY <1>1, <1>4, GrownBehind
<1> HIDE DEF m
<1>6. Len(c) = Len(m) + 3 /\ SubSeq(c, Len(m) + 1, Len(c)) = z
  <2>1. Len(c) = Len(m) + Len(z)
    BY <1>2, <1>3, ConcatAt, ZenonT(30)
  <2>2. SubSeq(c, Len(m) + 1, Len(c)) = z
    BY <1>2, <1>3, GrownBehind DEF Config!Behind
  <2> QED BY <1>2, <2>1, <2>2
<1> HIDE DEF c
<1>7. Len(c) > Len(b) /\ Len(c) - 2 = Len(m) + 1
  <2>1. Len(b) \in Nat /\ Len(m) \in Nat
    BY <1>3
  <2> QED BY <1>1, <1>3, <1>6, <2>1
<1>8. SubSeq(c, Len(c) - 2, Len(c)) = z
  BY <1>6, <1>7, Zenon
<1> QED BY <1>5, <1>7, <1>8 DEF c, m, a, z

\* The dial plan and the hash: a file too short for them is left as it is.
LEMMA ExtendMaps ==
  ASSUME TypeOK, StackInv, AddDialplan \/ AddMtaHash
  PROVE  [Config!CFNext]_(Config!cfvars)
<1>1. /\ stage \in {"dialplan", "hash"} /\ stage' \in {"hash", "write"}
      /\ tree' = tree /\ todo' = todo /\ stack' = stack
  BY DEF AddDialplan, AddMtaHash, AfterDialplan, input, flat
<1>2. FileSoFar = out /\ FileSoFar' = out' /\ Taken' = Taken
  BY <1>1, SeenBehind
<1>3. Phase = "extend" /\ Phase' = "extend"
  BY <1>1 DEF Phase
<1>4. out \in Seq(Byte) /\ Len(out) \in Nat
  BY DEF TypeOK
<1>5. ASSUME NEW mid \in Seq(Byte), mid # <<>>, Len(out) >= 3,
             out' = Cut(out, 3) \o mid \o MTA_END
      PROVE  Config!CFNext
  <2>1. /\ Config!Grown(Cut(out, 3), out') /\ Len(out') > Len(out)
        /\ SubSeq(out', Len(out') - 2, Len(out')) = MTA_END
    BY <1>4, <1>5, ExtensionGrows
  <2>2. Config!Extend
    BY <1>1, <1>2, <1>3, <1>5, <2>1
       DEF Config!Extend, Config!Cut, Cut, Config!MTA_END, MTA_END
  <2> QED BY <2>2 DEF Config!CFNext
<1>6. CASE Len(out) < 3
  <2>1. out' = out
    BY <1>6 DEF AddDialplan, AddMtaHash
  <2> QED BY <1>1, <1>2, <1>3, <2>1 DEF Config!cfvars
<1>7. CASE Len(out) >= 3
  <2>1. CASE AddDialplan
    <3>1. dialplanFile \in Seq(Byte) /\ out' = Cut(out, 3) \o DialplanTlv(dialplanFile) \o MTA_END
      BY <1>4, <1>7, <2>1 DEF AddDialplan, TypeOK
    <3>2. DialplanTlv(dialplanFile) \in Seq(Byte) /\ DialplanTlv(dialplanFile) # <<>>
      BY <3>1, DialplanTyped
    <3> QED BY <1>5, <1>7, <3>1, <3>2
  <2>2. CASE AddMtaHash
    <3> DEFINE mid == HashPrefix \o Sha1(out)
               p   == HashPrefix
    <3>1. p \in Seq(Byte) /\ p # <<>>
      <4>1. NA_HASH_PREFIX \in Seq(Byte) /\ NA_HASH_PREFIX # <<>>
        BY DEF NA_HASH_PREFIX, Byte
      <4>2. EU_HASH_PREFIX \in Seq(Byte) /\ EU_HASH_PREFIX # <<>>
        BY DEF EU_HASH_PREFIX, Byte
      <4> QED BY <4>1, <4>2 DEF HashPrefix
    <3>2. out' = Cut(out, 3) \o p \o Sha1(out) \o MTA_END
      BY <1>4, <1>7, <2>2 DEF AddMtaHash, Hashed
    <3>3. Cut(out, 3) \in Seq(Byte) /\ Sha1(out) \in Seq(Byte)
      BY <1>4, <1>7, CutTyped, DigestTypes
    <3> HIDE DEF p
    <3>4. p \o Sha1(out) \in Seq(Byte) /\ p \o Sha1(out) # <<>>
      BY <3>1, <3>3, ConcatEqualIffEmpty
    <3>5. Cut(out, 3) \o p \o Sha1(out) = Cut(out, 3) \o (p \o Sha1(out))
      BY <3>1, <3>3, ConcatAssociative, SMTT(30)
    <3> QED BY <1>5, <1>7, <3>2, <3>4, <3>5
  <2> QED BY <2>1, <2>2
<1> QED BY <1>4, <1>6, <1>7

-----------------------------------------------------------------------------
(* The refinement.                                                         *)

\* encode_one_file starts with an empty file of which nothing is taken.
LEMMA ConfigInit == Init => Config!CFInit
  BY DEF Init, Config!CFInit, Taken, FileSoFar, Phase

\* Each step of encode_one_file is one of ConfigFile, or shows nothing.
LEMMA ConfigStep ==
  TypeOK /\ StackBlocks /\ Account /\ [Next]_vars => [Config!CFNext]_(Config!cfvars)
<1> SUFFICES ASSUME TypeOK, StackInv, Account, [Next]_vars
             PROVE  [Config!CFNext]_(Config!cfvars)
  BY DEF StackBlocks
<1>1. CASE RejectEmpty
  <2>1. /\ stage = "parsed" /\ stage' = "failed" /\ tree = <<>> /\ tree' = tree
        /\ todo = <<>> /\ todo' = todo /\ stack = <<>> /\ stack' = stack /\ out' = out
    BY <1>1 DEF RejectEmpty, Account, input, flat
  <2>2. Taken = 0 /\ Taken' = 0 /\ FileSoFar' = FileSoFar
    BY <2>1 DEF Taken, FileSoFar
  <2>3. Phase = "settings" /\ Phase' = "stopped"
    BY <2>1 DEF Phase
  <2> QED BY <2>1, <2>2, <2>3 DEF Config!Stop, Config!CFNext
<1>2. CASE Begin
  <2>1. /\ stage = "parsed" /\ stage' = "flatten" /\ tree' = tree /\ todo' = tree
        /\ stack = <<>> /\ stack' = stack /\ out' = out /\ Len(tree) \in Nat
    BY <1>2 DEF Begin, Account, input, TypeOK
  <2>2. Taken = 0 /\ Taken' = 0 /\ FileSoFar' = FileSoFar /\ Phase' = Phase
    BY <2>1 DEF Taken, FileSoFar, Phase
  <2> QED BY <2>1, <2>2 DEF Config!cfvars
<1>3. CASE Walk
  <2>1. /\ stage = "cmts_mic" /\ stage' = stage /\ tree' = tree /\ todo' = todo
        /\ stack' = stack /\ out' = out
    BY <1>3 DEF Walk, WalkSelect, WalkPass, WalkRestart, Walking, input, flat
  <2> QED BY <2>1 DEF Config!cfvars, Taken, FileSoFar, Phase, Outermost
<1>4. CASE NoDialplan \/ Write \/ StopListing
  <2>1. /\ stage \in {"dialplan", "write", "cmts_mic"} /\ tree' = tree /\ todo' = todo
        /\ stack' = stack /\ out' = out
        /\ \/ stage' = "written" /\ stage = "write"
           \/ stage' = "exited"
    BY <1>4 DEF NoDialplan, Write, StopListing, Selected, input, flat
  <2>2. FileSoFar' = FileSoFar /\ Taken' = Taken
    BY <2>1 DEF FileSoFar, Taken, Outermost
  <2>3. /\ Phase \in {"extend", "cmts_mic"}
        /\ \/ Phase' = "published" /\ Phase = "extend"
           \/ Phase' = "stopped"
    BY <2>1 DEF Phase
  <2> QED BY <2>1, <2>2, <2>3 DEF Config!Publish, Config!Stop, Config!CFNext
<1>5. CASE UNCHANGED vars
  BY <1>5 DEF vars, input, flat, Config!cfvars, Taken, FileSoFar, Phase, Outermost
<1> QED BY <1>1, <1>2, <1>3, <1>4, <1>5, FlattenMaps, SealMaps, EodMaps, ExtendMaps DEF Next

\* The encoder makes a ConfigFile: the file grows by whole settings of the tree,
\* in its order and each dealt with once; sealing only adds to it; extending
\* replaces only a terminator; what is published is complete.
THEOREM MakesAConfigFile == Spec => MakesConfigFile
<1> QED BY ConfigInit, ConfigStep, Typing, StackBlocksInit, StackBlocksStep,
           AccountInit, AccountStep, PTL DEF Spec, MakesConfigFile, Config!CFSpec

-----------------------------------------------------------------------------
(* What the CMTS MIC covers.  A pass gathers setting by setting, and the   *)
(* passes are concatenated in the listed order.                            *)

\* What a pass for code c takes of setting s of b.
Piece(b, s, c) == IF b[s.from] = c THEN SubSeq(b, s.from, s.to - 1) ELSE <<>>

\* What it has of the first n settings; what the first k passes have together.
Gather(b, ss, c, n) == FlattenSeq([i \in 1..n |-> Piece(b, ss[i], c)])
Passes(b, ss, k)    == FlattenSeq([j \in 1..k |-> Gather(b, ss, CMTS_MIC_TLVS[j], Len(ss))])

\* Of framed settings every piece is bytes.
LEMMA PieceTyped ==
  ASSUME NEW b \in Seq(Byte), NEW s \in Span, Sound(s, b), NEW c
  PROVE  Piece(b, s, c) \in Seq(Byte)
<1>1. SubSeq(b, s.from, s.to - 1) \in Seq(Byte)
  <2>1. s.from \in Nat \ {0} /\ s.to - 1 \in Int /\ s.to - 1 <= Len(b)
    BY DEF Sound, Span
  <2> QED BY <2>1, SubSeqTyped
<1> QED BY <1>1 DEF Piece

\* A pass goes on by a piece.
LEMMA GatherNext ==
  ASSUME NEW b \in Seq(Byte), NEW ss \in Seq(Span), Framed(ss, b), NEW c, NEW n \in 1..Len(ss)
  PROVE  /\ Gather(b, ss, c, n - 1) \in Seq(Byte) /\ Piece(b, ss[n], c) \in Seq(Byte)
         /\ Gather(b, ss, c, n) = Gather(b, ss, c, n - 1) \o Piece(b, ss[n], c)
<1> DEFINE F == [i \in 1..n |-> Piece(b, ss[i], c)]
<1>1. n \in Nat /\ n - 1 \in Nat /\ (n - 1) + 1 = n /\ \A i \in 1..n : i \in DOMAIN ss
  OBVIOUS
<1>2. \A i \in 1..n : Piece(b, ss[i], c) \in Seq(Byte)
  <2> SUFFICES ASSUME NEW i \in 1..n PROVE Piece(b, ss[i], c) \in Seq(Byte)
    OBVIOUS
  <2>1. ss[i] \in Span /\ Sound(ss[i], b)
    BY <1>1 DEF Framed
  <2> QED BY <2>1, PieceTyped
<1>3. F \in [1..((n - 1) + 1) -> Seq(Byte)]
  BY <1>1, <1>2
<1>4. [i \in 1..(n - 1) |-> F[i]] = [i \in 1..(n - 1) |-> Piece(b, ss[i], c)] /\ F[n] = Piece(b, ss[n], c)
  BY <1>1
<1> HIDE DEF F
<1>5. /\ FlattenSeq([i \in 1..(n - 1) |-> F[i]]) \in Seq(Byte)
      /\ FlattenSeq(F) = FlattenSeq([i \in 1..(n - 1) |-> F[i]]) \o F[(n - 1) + 1]
  BY <1>1, <1>3, FamilyNext
<1>6. Gather(b, ss, c, n - 1) = FlattenSeq([i \in 1..(n - 1) |-> F[i]])
  BY <1>4 DEF Gather
<1>7. Gather(b, ss, c, n) = FlattenSeq(F)
  BY DEF Gather, F
<1>8. Piece(b, ss[n], c) \in Seq(Byte) /\ F[(n - 1) + 1] = Piece(b, ss[n], c)
  <2>1. n \in 1..n
    BY <1>1
  <2> QED BY <1>1, <1>2, <1>4, <2>1
<1> QED BY <1>5, <1>6, <1>7, <1>8

\* Nothing is gathered of no settings.
LEMMA GatherNone == ASSUME NEW b, NEW ss, NEW c PROVE Gather(b, ss, c, 0) = <<>>
<1>1. [i \in 1..0 |-> Piece(b, ss[i], c)] = <<>>
  OBVIOUS
<1> QED BY <1>1 DEF Gather, FlattenSeq

\* A whole pass is bytes.
LEMMA GatherTyped ==
  ASSUME NEW b \in Seq(Byte), NEW ss \in Seq(Span), Framed(ss, b), NEW c
  PROVE  Gather(b, ss, c, Len(ss)) \in Seq(Byte)
<1> DEFINE n == Len(ss)
<1>1. n \in Nat /\ <<>> \in Seq(Byte)
  OBVIOUS
<1>2. CASE n = 0
  <2> HIDE DEF n
  <2>1. Gather(b, ss, c, n) = <<>>
    BY <1>2, GatherNone
  <2> QED BY <1>1, <2>1 DEF n
<1>3. CASE n # 0
  <2>1. n \in 1..n
    BY <1>1, <1>3
  <2>2. /\ Gather(b, ss, c, n - 1) \in Seq(Byte) /\ Piece(b, ss[n], c) \in Seq(Byte)
        /\ Gather(b, ss, c, n) = Gather(b, ss, c, n - 1) \o Piece(b, ss[n], c)
    BY <2>1, GatherNext
  <2> QED BY <2>2
<1> QED BY <1>2, <1>3

\* The next pass is concatenated behind the passes before it.
LEMMA PassesNext ==
  ASSUME NEW b \in Seq(Byte), NEW ss \in Seq(Span), Framed(ss, b), NEW k \in 1..Len(CMTS_MIC_TLVS)
  PROVE  /\ Passes(b, ss, k - 1) \in Seq(Byte)
         /\ Passes(b, ss, k) = Passes(b, ss, k - 1) \o Gather(b, ss, CMTS_MIC_TLVS[k], Len(ss))
<1> DEFINE G(j) == Gather(b, ss, CMTS_MIC_TLVS[j], Len(ss))
           F == [j \in 1..k |-> G(j)]
<1>1. k \in Nat /\ k - 1 \in Nat /\ (k - 1) + 1 = k
  BY DEF CMTS_MIC_TLVS
<1>2. \A j \in 1..k : G(j) \in Seq(Byte)
  BY GatherTyped
<1> HIDE DEF G
<1>3. F \in [1..((k - 1) + 1) -> Seq(Byte)]
  BY <1>1, <1>2
<1>4. [j \in 1..(k - 1) |-> F[j]] = [j \in 1..(k - 1) |-> G(j)] /\ F[k] = G(k)
  BY <1>1
<1> HIDE DEF F
<1>5. /\ FlattenSeq([j \in 1..(k - 1) |-> F[j]]) \in Seq(Byte)
      /\ FlattenSeq(F) = FlattenSeq([j \in 1..(k - 1) |-> F[j]]) \o F[(k - 1) + 1]
  BY <1>1, <1>3, FamilyNext
<1> QED BY <1>1, <1>4, <1>5 DEF Passes, F, G

\* Before the first pass there is nothing.
LEMMA PassesNone == ASSUME NEW b, NEW ss PROVE Passes(b, ss, 0) = <<>>
<1>1. [j \in 1..0 |-> Gather(b, ss, CMTS_MIC_TLVS[j], Len(ss))] = <<>>
  OBVIOUS
<1> QED BY <1>1 DEF Passes, FlattenSeq

\* Where the walk stands when it is past the first n settings.
Past(ss, n) == IF n = 0 THEN 1 ELSE ss[n].to

\* All passes before this one, and of this one the settings behind the position.
Gathered(n) ==
  /\ pos = Past(spans, n)
  /\ want > Len(CMTS_MIC_TLVS) => selected = Passes(out, spans, want - 1)
  /\ want <= Len(CMTS_MIC_TLVS) =>
       selected = Passes(out, spans, want - 1) \o Gather(out, spans, CMTS_MIC_TLVS[want], n)

CoverInv ==
  /\ stage \in {"parsed", "flatten", "cm_mic"} => want = 1 /\ selected = <<>>
  /\ stage = "cmts_mic" /\ PlainTree => \E n \in 0..Len(spans) : Gathered(n)
  /\ CmtsMicCoversPlain

\* The settings of code c are what its pass gathers, and the selection all passes.
LEMMA SelectionPasses ==
  ASSUME spans \in Seq(Span)
  PROVE  CmtsMicSelection = Passes(out, spans, Len(CMTS_MIC_TLVS))
<1>1. DOMAIN spans = 1..Len(spans) /\ DOMAIN CMTS_MIC_TLVS = 1..Len(CMTS_MIC_TLVS)
  BY DEF CMTS_MIC_TLVS
<1>2. \A c : WithCode(c) = Gather(out, spans, c, Len(spans))
  BY <1>1 DEF WithCode, Gather, Piece, SettingBytes
<1>3. [k \in DOMAIN CMTS_MIC_TLVS |-> WithCode(CMTS_MIC_TLVS[k])]
        = [k \in 1..Len(CMTS_MIC_TLVS) |-> Gather(out, spans, CMTS_MIC_TLVS[k], Len(spans))]
  BY <1>1, <1>2
<1> QED BY <1>3 DEF CmtsMicSelection, Passes

\* The settings of a framed buffer: where the n-th begins.
LEMMA PastNext ==
  ASSUME NEW ss \in Seq(Span), NEW b \in Seq(Byte), Framed(ss, b), NEW n \in 0..Len(ss)
  PROVE  /\ n < Len(ss) => n + 1 \in 1..Len(ss) /\ ss[n + 1].from = Past(ss, n)
         /\ n = Len(ss) => Past(ss, n) = Len(b) + 1
<1> DEFINE l == Len(ss)
<1>1. l \in Nat /\ DOMAIN ss = 1..l /\ (l = 0 <=> ss = <<>>)
  OBVIOUS
<1>2. \A i \in 1..l : ss[i].from = IF i = 1 THEN 1 ELSE ss[i - 1].to
  BY <1>1 DEF Framed, Tiles
<1>3. Len(b) + 1 = IF ss = <<>> THEN 1 ELSE ss[l].to
  BY DEF Framed, Tiles
<1> HIDE DEF l
<1>4. ASSUME n < l PROVE n + 1 \in 1..l /\ ss[n + 1].from = Past(ss, n)
  <2>1. n + 1 \in 1..l /\ (n + 1) - 1 = n /\ (n + 1 = 1 <=> n = 0)
    BY <1>1, <1>4 DEF l
  <2> QED BY <1>2, <2>1 DEF Past
<1>5. ASSUME n = l PROVE Past(ss, n) = Len(b) + 1
  BY <1>1, <1>3, <1>5 DEF Past
<1> QED BY <1>4, <1>5 DEF l

\* A step of the walk gathers the setting it passes, if it is a wanted one.
LEMMA WalkGathers ==
  ASSUME TypeOK, stage = "cmts_mic", Framed(spans, out), WalkSelect \/ WalkPass,
         NEW n \in 0..Len(spans), Gathered(n)
  PROVE  n < Len(spans) /\ Gathered(n + 1)'
<1> DEFINE c == CMTS_MIC_TLVS[want]
           l == Len(out)
<1>1. out \in Seq(Byte) /\ spans \in Seq(Span) /\ l \in Nat /\ selected \in Seq(Byte)
  BY DEF TypeOK
<1>2. /\ pos < l /\ want \in 1..Len(CMTS_MIC_TLVS) /\ spans' = spans /\ out' = out /\ want' = want
  BY DEF WalkSelect, WalkPass, InBuffer, Walking, TypeOK, flat
<1>3. n < Len(spans) /\ n + 1 \in 1..Len(spans) /\ spans[n + 1].from = pos
  <2>1. pos = Past(spans, n) /\ Len(spans) \in Nat
    BY <1>1 DEF Gathered
  <2>2. n = Len(spans) => pos = l + 1
    BY <1>1, <2>1, PastNext
  <2>3. n < Len(spans)
    BY <1>1, <1>2, <2>1, <2>2
  <2> QED BY <1>1, <2>1, <2>3, PastNext
<1> DEFINE s == spans[n + 1]
<1>4. s \in Span /\ Sound(s, out)
  BY <1>1, <1>3 DEF Framed
<1>5. s.to = pos + WalkStep(out, pos) /\ s.to <= l + 1 /\ s.to \in Nat /\ pos \in Nat
  BY <1>3, <1>4 DEF Sound, Readable, Span
<1>6. out[pos + 1] \in Nat
  <2>1. pos + 1 \in 1..l
    BY <1>1, <1>2, <1>5
  <2>2. out[pos + 1] \in Byte
    BY <1>1, <2>1
  <2> QED BY <2>2, ByteFacts
<1>7. pos' = s.to /\ selected' = selected \o Piece(out, s, c)
  <2>1. CASE WalkSelect
    <3>1. out[pos] # Code_LongForm /\ out[pos] = c
      BY <1>2, <2>1, ListedShort DEF WalkSelect, Wanted
    <3>2. WalkStep(out, pos) = out[pos + 1] + 2
      BY <3>1 DEF WalkStep
    <3>3. pos + out[pos + 1] + 2 = s.to
      BY <1>5, <1>6, <3>2
    <3>4. LET end == IF pos + out[pos + 1] + 2 <= l + 1 THEN pos + out[pos + 1] + 2 ELSE l + 1
          IN selected' = selected \o SubSeq(out, pos, end - 1) /\ pos' = end
      BY <2>1 DEF WalkSelect
    <3> HIDE DEF s
    <3>5. selected' = selected \o SubSeq(out, pos, s.to - 1) /\ pos' = s.to
      BY <1>5, <3>3, <3>4
    <3>6. Piece(out, s, c) = SubSeq(out, pos, s.to - 1)
      BY <1>3, <3>1 DEF Piece, s
    <3> QED BY <3>5, <3>6
  <2>2. CASE WalkPass
    <3>1. Piece(out, s, c) = <<>> /\ selected' = selected /\ pos' = s.to
      BY <1>3, <1>5, <2>2 DEF WalkPass, Wanted, Piece
    <3>2. selected \o <<>> = selected
      BY <1>1
    <3> QED BY <3>1, <3>2
  <2> QED BY <2>1, <2>2
<1> HIDE DEF c
<1>8. /\ Gather(out, spans, c, n) \in Seq(Byte) /\ Piece(out, s, c) \in Seq(Byte)
      /\ Gather(out, spans, c, n + 1) = Gather(out, spans, c, n) \o Piece(out, s, c)
  <2>1. (n + 1) - 1 = n
    OBVIOUS
  <2> QED BY <1>1, <1>3, <2>1, GatherNext, ZenonT(30)
<1>9. Passes(out, spans, want - 1) \in Seq(Byte)
  BY <1>1, <1>2, PassesNext
<1>10. selected = Passes(out, spans, want - 1) \o Gather(out, spans, c, n)
  BY <1>2 DEF Gathered, c
<1>11. selected' = Passes(out, spans, want - 1) \o Gather(out, spans, c, n + 1)
  <2> DEFINE p == Passes(out, spans, want - 1)
             g == Gather(out, spans, c, n)
             x == Piece(out, s, c)
  <2>1. selected' = (p \o g) \o x /\ Gather(out, spans, c, n + 1) = g \o x
    BY <1>7, <1>8, <1>10
  <2> HIDE DEF p, g, x
  <2>2. (p \o g) \o x = p \o (g \o x)
    <3>1. p \in Seq(Byte) /\ g \in Seq(Byte) /\ x \in Seq(Byte)
      BY <1>8, <1>9 DEF p, g, x
    <3> QED BY <3>1, ConcatAssociative, SMTT(30)
  <2> QED BY <2>1, <2>2 DEF p
<1>12. pos' = Past(spans, n + 1)
  BY <1>7 DEF Past
<1>13. ~(want > Len(CMTS_MIC_TLVS))
  BY <1>2 DEF CMTS_MIC_TLVS
<1> QED BY <1>2, <1>3, <1>11, <1>12, <1>13 DEF Gathered, c

\* A pass ends behind the last setting, and the next starts with nothing.
LEMMA RestartGathers ==
  ASSUME TypeOK, stage = "cmts_mic", Framed(spans, out), WalkRestart,
         NEW n \in 0..Len(spans), Gathered(n)
  PROVE  Gathered(0)'
<1> DEFINE c == CMTS_MIC_TLVS[want]
           l == Len(out)
           p == Passes(out, spans, want - 1)
<1>1. out \in Seq(Byte) /\ spans \in Seq(Span) /\ l \in Nat /\ Len(spans) \in Nat
  BY DEF TypeOK
<1>2. /\ want \in 1..Len(CMTS_MIC_TLVS) /\ spans' = spans /\ out' = out /\ want' = want + 1
      /\ pos' = 1 /\ selected' = selected
  BY DEF WalkRestart, Walking, TypeOK, flat
<1>3. n = Len(spans)
  <2>1. SUFFICES ASSUME n < Len(spans) PROVE FALSE
    BY <1>1
  <2>2. n + 1 \in 1..Len(spans) /\ spans[n + 1].from = pos
    <3>1. pos = Past(spans, n)
      BY DEF Gathered
    <3> QED BY <1>1, <2>1, <3>1, PastNext
  <2>3. spans[n + 1] \in Span /\ Sound(spans[n + 1], out)
    BY <1>1, <2>2 DEF Framed
  <2>4. pos + 2 <= l + 1 /\ pos \in Nat /\ (out[pos] = Code_LongForm => pos + 3 <= l + 1)
    BY <1>1, <2>2, <2>3, SMTT(30) DEF Sound, Span
  <2>5. InBuffer /\ ~HeaderCut
    BY <1>1, <2>4 DEF InBuffer, HeaderCut
  <2> QED BY <2>5 DEF WalkRestart
<1>4. p \in Seq(Byte) /\ Passes(out, spans, want) = p \o Gather(out, spans, c, Len(spans))
  BY <1>1, <1>2, PassesNext
<1>5. selected = Passes(out, spans, want)
  <2>1. want <= Len(CMTS_MIC_TLVS)
    BY <1>2 DEF CMTS_MIC_TLVS
  <2>2. selected = p \o Gather(out, spans, c, n)
    BY <2>1 DEF Gathered
  <2> HIDE DEF p, c
  <2> QED BY <1>3, <1>4, <2>2
<1>6. selected \o <<>> = selected
  BY DEF TypeOK
<1>7. want' - 1 = want /\ selected' = Passes(out', spans', want' - 1) /\ pos' = Past(spans', 0)
  BY <1>2, <1>5 DEF Past
<1>8. selected' = Passes(out', spans', want' - 1) \o Gather(out', spans', CMTS_MIC_TLVS[want'], 0)
  BY <1>2, <1>6, <1>7, GatherNone
<1> QED BY <1>7, <1>8 DEF Gathered

\* A setting of another code behind the others leaves a pass as it was.
LEMMA GatherGrown ==
  ASSUME NEW b \in Seq(Byte), NEW ss \in Seq(Span), Framed(ss, b), NEW e \in Seq(Byte), e # <<>>,
         NEW s \in Span, s.from = Len(b) + 1, NEW c, e[1] # c
  PROVE  Gather(b \o e, Append(ss, s), c, Len(Append(ss, s))) = Gather(b, ss, c, Len(ss))
<1> DEFINE bb == b \o e
           tt == Append(ss, s)
           n  == Len(ss)
           G  == [i \in 1..n |-> Piece(bb, tt[i], c)]
           F  == [i \in 1..(n + 1) |-> Piece(bb, tt[i], c)]
<1>1. /\ n \in Nat /\ Len(tt) = n + 1 /\ tt[n + 1] = s /\ \A i \in 1..n : tt[i] = ss[i] /\ ss[i] \in Span
      /\ DOMAIN ss = 1..n
  OBVIOUS
<1>2. bb \in Seq(Byte) /\ Len(bb) = Len(b) + Len(e) /\ Len(b) \in Nat
      /\ (\A i \in 1..Len(b) : bb[i] = b[i]) /\ bb[Len(b) + 1] = e[1]
  <2>1. 1 \in 1..Len(e)
    OBVIOUS
  <2> QED BY <2>1, ConcatAt
<1> HIDE DEF bb, tt, n
<1>3. \A i \in 1..n : Piece(bb, tt[i], c) = Piece(b, ss[i], c) /\ Piece(b, ss[i], c) \in Seq(Byte)
  <2> SUFFICES ASSUME NEW i \in 1..n
               PROVE  Piece(bb, tt[i], c) = Piece(b, ss[i], c) /\ Piece(b, ss[i], c) \in Seq(Byte)
    OBVIOUS
  <2> DEFINE x == ss[i].from
             y == ss[i].to
  <2>1. ss[i] \in Span /\ tt[i] = ss[i] /\ Sound(ss[i], b)
    BY <1>1 DEF Framed
  <2>2. x \in 1..Len(b) /\ x \in Nat /\ y \in Nat /\ y <= Len(b) + 1 /\ x + 2 <= y
    BY <1>2, <2>1 DEF Sound, Span
  <2> HIDE DEF x, y
  <2>3. bb[x] = b[x]
    BY <1>2, <2>2
  <2>4. SubSeq(bb, x, y - 1) = SubSeq(b, x, y - 1)
    <3>1. y - 1 \in 1..Len(b)
      BY <1>2, <2>2
    <3> QED BY <2>2, <3>1, SubSeqOfConcat1 DEF bb
  <2>5. Piece(bb, tt[i], c) = Piece(b, ss[i], c)
    BY <2>1, <2>3, <2>4 DEF Piece, x, y
  <2> QED BY <2>1, <2>5, PieceTyped
<1>4. Piece(bb, tt[n + 1], c) = <<>>
  BY <1>1, <1>2 DEF Piece
<1>5. F \in [1..(n + 1) -> Seq(Byte)] /\ F[n + 1] = <<>>
  <2>1. \A i \in 1..(n + 1) : i \in 1..n \/ i = n + 1
    BY <1>1
  <2>2. \A i \in 1..(n + 1) : Piece(bb, tt[i], c) \in Seq(Byte)
    <3>1. <<>> \in Seq(Byte)
      OBVIOUS
    <3> QED BY <1>3, <1>4, <2>1, <3>1
  <2>3. n + 1 \in 1..(n + 1)
    BY <1>1
  <2> QED BY <1>4, <2>2, <2>3
<1>6. [i \in 1..n |-> F[i]] = [i \in 1..n |-> Piece(b, ss[i], c)]
  <2>1. \A i \in 1..n : i \in 1..(n + 1)
    BY <1>1
  <2> QED BY <1>3, <2>1
<1> HIDE DEF F
<1>7. /\ FlattenSeq([i \in 1..n |-> F[i]]) \in Seq(Byte)
      /\ FlattenSeq(F) = FlattenSeq([i \in 1..n |-> F[i]]) \o F[n + 1]
  BY <1>1, <1>5, FamilyNext
<1>8. FlattenSeq(F) = FlattenSeq([i \in 1..n |-> F[i]])
  BY <1>5, <1>7
<1>9. Gather(bb, tt, c, n + 1) = FlattenSeq(F)
  BY DEF Gather, F
<1>10. Gather(b, ss, c, n) = FlattenSeq([i \in 1..n |-> F[i]])
  BY <1>6 DEF Gather
<1>11. Gather(bb, tt, c, Len(tt)) = Gather(b, ss, c, n)
  BY <1>1, <1>8, <1>9, <1>10
<1> QED BY <1>11 DEF bb, tt, n

\* The CMTS MIC's own setting is of no listed code.
LEMMA CmtsMicUnlisted == \A k \in 1..Len(CMTS_MIC_TLVS) : Code_CmtsMic # CMTS_MIC_TLVS[k]
  BY DEF CMTS_MIC_TLVS, Code_CmtsMic

\* Sealing adds a setting that the selection does not ask for.
LEMMA SealKeepsSelection ==
  ASSUME TypeOK, Framed(spans, out), AddCmtsMic
  PROVE  CmtsMicSelection' = CmtsMicSelection
<1> DEFINE K == Len(CMTS_MIC_TLVS)
<1>1. out \in Seq(Byte) /\ spans \in Seq(Span) /\ Len(out) \in Nat
  BY DEF TypeOK
<1>2. CmtsMicSelection = Passes(out, spans, K)
  BY <1>1, SelectionPasses
<1>3. CASE out = <<>>
  BY <1>3 DEF AddCmtsMic, CmtsMicSelection, WithCode, SettingBytes
<1>4. CASE out # <<>>
  <2> DEFINE e == <<Code_CmtsMic, 16>> \o Hmac(selected)
             s == [from |-> Len(out) + 1, to |-> Len(out) + 1 + Len(e), long |-> FALSE]
  <2>1. out' = out \o e /\ spans' = Append(spans, s)
    BY <1>4 DEF AddCmtsMic, Emit
  <2>2. e \in Seq(Byte) /\ e # <<>> /\ e[1] = Code_CmtsMic
    <3>1. <<Code_CmtsMic, 16>> \in Seq(Byte)
      BY DEF Code_CmtsMic, Byte
    <3>2. Hmac(selected) \in Seq(Byte) /\ Len(Hmac(selected)) = 16
      BY DigestTypes
    <3> QED BY <3>1, <3>2
  <2>3. s \in Span /\ s.from = Len(out) + 1
    <3>1. Len(e) \in Nat
      BY <2>2
    <3> QED BY <1>1, <3>1 DEF Span
  <2> HIDE DEF e, s
  <2>4. \A k \in 1..K : Gather(out', spans', CMTS_MIC_TLVS[k], Len(spans'))
                          = Gather(out, spans, CMTS_MIC_TLVS[k], Len(spans))
    <3> SUFFICES ASSUME NEW k \in 1..K
                 PROVE  Gather(out', spans', CMTS_MIC_TLVS[k], Len(spans'))
                          = Gather(out, spans, CMTS_MIC_TLVS[k], Len(spans))
      OBVIOUS
    <3>1. e[1] # CMTS_MIC_TLVS[k]
      BY <2>2, CmtsMicUnlisted
    <3> QED BY <1>1, <2>1, <2>2, <2>3, <3>1, GatherGrown
  <2>5. Passes(out', spans', K) = Passes(out, spans, K)
    BY <2>4 DEF Passes
  <2>6. spans' \in Seq(Span)
    BY <1>1, <2>1, <2>3
  <2>7. CmtsMicSelection' = Passes(out', spans', K)
    <3>1. DOMAIN spans' = 1..Len(spans') /\ DOMAIN CMTS_MIC_TLVS = 1..K
      BY <2>6 DEF CMTS_MIC_TLVS
    <3>2. \A c : WithCode(c)' = Gather(out', spans', c, Len(spans'))
      BY <3>1 DEF WithCode, Gather, Piece, SettingBytes
    <3> QED BY <3>1, <3>2 DEF CmtsMicSelection, Passes
  <2> QED BY <1>2, <2>5, <2>7
<1> QED BY <1>3, <1>4

\* Nothing is gathered before the walk.
LEMMA CoverInit == Init => CoverInv
  BY DEF Init, CoverInv, CmtsMicCoversPlain, CmtsMicCoversListed

\* One step per action: up to the CM MIC, the walk, the seal, and the rest.
LEMMA CoverStep == TypeOK /\ StackInv /\ WalkInv /\ CoverInv /\ [Next]_vars => CoverInv'
<1> SUFFICES ASSUME TypeOK, StackInv, WalkInv, CoverInv, [Next]_vars PROVE CoverInv'
  OBVIOUS
<1> USE DEF CmtsMicCoversPlain, CmtsMicCoversListed
<1>1. CASE UNCHANGED vars
  <2>1. /\ stage' = stage /\ tree' = tree /\ out' = out /\ spans' = spans
        /\ want' = want /\ pos' = pos /\ selected' = selected
    BY <1>1 DEF vars, input, flat, walk
  <2>2. (\E n \in 0..Len(spans) : Gathered(n)) => (\E n \in 0..Len(spans) : Gathered(n))'
    BY <2>1 DEF Gathered
  <2>3. CmtsMicSelection' = CmtsMicSelection /\ PlainTree' = PlainTree
    BY <2>1 DEF CmtsMicSelection, WithCode, SettingBytes, PlainTree
  <2> QED BY <2>1, <2>2, <2>3 DEF CoverInv
<1>2. CASE Begin \/ Flatten
  <2>1. /\ want' = want /\ selected' = selected /\ stage \in {"parsed", "flatten"}
        /\ stage' \notin {"cmts_mic", "eod"}
    BY <1>2 DEF Begin, Flatten, WriteLeaf, WriteLongMib, DropLeaf, EnterBlock, WriteBlock,
                DropBlock, EndFlatten, Flattening, Returning, Extensions, walk
  <2> QED BY <2>1 DEF CoverInv
<1>3. CASE AddCmMic
  <2>1. /\ stage = "cm_mic" /\ stage' = "cmts_mic" /\ want' = want /\ pos' = pos
        /\ selected' = selected /\ want = 1 /\ selected = <<>> /\ pos = 1
    BY <1>3 DEF AddCmMic, walk, CoverInv, WalkInv
  <2>2. Passes(out', spans', 0) = <<>> /\ Gather(out', spans', CMTS_MIC_TLVS[1], 0) = <<>>
    BY PassesNone, GatherNone
  <2>3. <<>> \o <<>> = <<>>
    OBVIOUS
  <2>4. Gathered(0)'
    BY <2>1, <2>2, <2>3 DEF Gathered, Past, CMTS_MIC_TLVS
  <2>5. 0 \in 0..Len(spans')
    <3>1. TypeOK'
      BY TypedStep
    <3> QED BY <3>1 DEF TypeOK
  <2> QED BY <2>1, <2>4, <2>5 DEF CoverInv
<1>4. CASE Walk
  <2>1. /\ stage = "cmts_mic" /\ stage' = stage /\ tree' = tree /\ spans' = spans /\ out' = out
    BY <1>4 DEF Walk, WalkSelect, WalkPass, WalkRestart, Walking, input, flat
  <2>2. SUFFICES ASSUME PlainTree PROVE (\E n \in 0..Len(spans) : Gathered(n))'
    BY <2>1 DEF CoverInv, PlainTree
  <2>3. Framed(spans, out) /\ Len(spans) \in Nat
    BY <2>1, <2>2 DEF WalkInv, FileLevel, Level, StackInv, TypeOK
  <2>4. PICK n \in 0..Len(spans) : Gathered(n)
    BY <2>1, <2>2 DEF CoverInv
  <2>5. CASE WalkSelect \/ WalkPass
    <3>1. n < Len(spans) /\ Gathered(n + 1)'
      BY <2>1, <2>3, <2>4, <2>5, WalkGathers
    <3>2. n + 1 \in 0..Len(spans')
      BY <2>1, <2>3, <3>1
    <3> QED BY <3>1, <3>2
  <2>6. CASE WalkRestart
    <3>1. Gathered(0)'
      BY <2>1, <2>3, <2>4, <2>6, RestartGathers
    <3>2. 0 \in 0..Len(spans')
      BY <2>1, <2>3
    <3> QED BY <3>1, <3>2
  <2> QED BY <1>4, <2>5, <2>6 DEF Walk
<1>5. CASE AddCmtsMic
  <2>1. /\ stage = "cmts_mic" /\ stage' = "eod" /\ tree' = tree /\ selected' = selected
        /\ want > Len(CMTS_MIC_TLVS) /\ want \in 1..(Len(CMTS_MIC_TLVS) + 1)
    BY <1>5 DEF AddCmtsMic, Selected, input, walk, TypeOK
  <2>2. SUFFICES ASSUME PlainTree PROVE selected' = CmtsMicSelection'
    BY <2>1 DEF CoverInv, PlainTree
  <2>3. Framed(spans, out) /\ spans \in Seq(Span)
    BY <2>1, <2>2 DEF WalkInv, FileLevel, Level, StackInv, TypeOK
  <2>4. selected = Passes(out, spans, want - 1)
    BY <2>1, <2>2 DEF CoverInv, Gathered
  <2>5. want - 1 = Len(CMTS_MIC_TLVS)
    BY <2>1 DEF CMTS_MIC_TLVS
  <2>6. CmtsMicSelection = selected
    BY <2>3, <2>4, <2>5, SelectionPasses
  <2> QED BY <1>5, <2>1, <2>3, <2>6, SealKeepsSelection
<1>6. CASE RejectEmpty \/ AddEodAndPad \/ NoDialplan \/ AddDialplan
             \/ AddMtaHash \/ Write \/ StopListing
  <2>1. stage' \notin {"parsed", "flatten", "cm_mic", "cmts_mic", "eod"}
    BY <1>6 DEF RejectEmpty, AddEodAndPad, NoDialplan, AddDialplan,
                AddMtaHash, Write, StopListing, Extensions, AfterDialplan
  <2> QED BY <2>1 DEF CoverInv
<1> QED BY <1>1, <1>2, <1>3, <1>4, <1>5, <1>6 DEF Next

\* When the CMTS MIC is sealed it covers exactly the listed settings of the
\* file, in the listed order, for every tree without a short-form TLV 64
\* (main.rs:19-20, add_cmts_mic).
THEOREM MicCovers == Spec => []CmtsMicCoversPlain
<1>1. TypeOK /\ StackBlocks /\ WalkInv /\ [Next]_vars => WalkInv'
  BY WalkInvStep DEF StackBlocks
<1>2. TypeOK /\ StackBlocks /\ WalkInv /\ CoverInv /\ [Next]_vars => CoverInv'
  BY CoverStep DEF StackBlocks
<1>3. CoverInv => CmtsMicCoversPlain
  BY DEF CoverInv
<1> QED BY <1>1, <1>2, <1>3, Typing, StackBlocksInit, StackBlocksStep, WalkInit, CoverInit, PTL
        DEF Spec

-----------------------------------------------------------------------------
(* The bytes of the extensions.                                            *)

\* How many bytes the sequence header and the string header of a dial plan take.
SeqHead(n) == IF n <= 105 THEN 2 ELSE 4
StrHead(n) == IF n <= 127 THEN 2 ELSE 4

\* The headers of a dial plan of n bytes, one behind the other.
PlanHeaders(n) == <<Code_LongForm>> \o BE16(OuterLen(n)) \o SeqHeader(n) \o DIALPLAN_ASN_OID \o StrHeader(n)

\* Headers of three and of four bytes.
LEMMA ThreeBytes ==
  ASSUME NEW w \in Byte, NEW x \in Byte, NEW y \in Byte
  PROVE  LET t == <<w>> \o <<x, y>> IN
         t \in Seq(Byte) /\ Len(t) = 3 /\ t[1] = w /\ t[2] = x /\ t[3] = y
  OBVIOUS

\* Four bytes, read back one by one.
LEMMA FourBytes ==
  ASSUME NEW w \in Byte, NEW x \in Byte, NEW y \in Byte, NEW z \in Byte
  PROVE  LET t == <<w, x>> \o <<y, z>> IN
         t \in Seq(Byte) /\ Len(t) = 4 /\ t[1] = w /\ t[2] = x /\ t[3] = y /\ t[4] = z
  OBVIOUS

\* The sequence header, short below 106 bytes, states what is behind it.
LEMMA SeqHeaderAt ==
  ASSUME NEW n \in Nat, n <= 65507
  PROVE  /\ SeqHeader(n) \in Seq(Byte) /\ Len(SeqHeader(n)) = SeqHead(n)
         /\ n <= 105 => SeqHeader(n)[2] = 22 + n
         /\ n > 105 => SeqHeader(n)[2] = 130
                       /\ 256 * SeqHeader(n)[3] + SeqHeader(n)[4] = 20 + StrHead(n) + n
<1>1. CASE n <= 105
  <2>1. SeqHeader(n) = <<48, 22 + n>>
    BY <1>1 DEF SeqHeader
  <2>2. 48 \in Byte /\ 22 + n \in Byte
    BY <1>1 DEF Byte
  <2> QED BY <1>1, <2>1, <2>2 DEF SeqHead
<1>2. CASE n > 105
  <2> DEFINE k == 20 + StrHead(n) + n
  <2>1. k \in Nat /\ k < 65536 /\ k = IF n > 127 THEN 20 + 2 + 2 + n ELSE 20 + 1 + 1 + n
    BY DEF StrHead
  <2> HIDE DEF k
  <2>2. BE16(k) = <<(k % 65536) \div 256, k % 256>>
    BY DEF BE16
  <2>3. /\ (k % 65536) \div 256 \in Byte /\ k % 256 \in Byte
        /\ 256 * ((k % 65536) \div 256) + (k % 256) = k
    BY <2>1 DEF Byte
  <2>4. SeqHeader(n) = <<48, 130>> \o BE16(k)
    BY <1>2, <2>1 DEF SeqHeader
  <2>5. 48 \in Byte /\ 130 \in Byte
    BY DEF Byte
  <2> DEFINE hi == (k % 65536) \div 256
             lo == k % 256
  <2>6. hi \in Byte /\ lo \in Byte /\ 256 * hi + lo = k /\ SeqHeader(n) = <<48, 130>> \o <<hi, lo>>
    BY <2>2, <2>3, <2>4
  <2> HIDE DEF hi, lo
  <2> DEFINE t == <<48, 130>> \o <<hi, lo>>
  <2>7. t \in Seq(Byte) /\ Len(t) = 4 /\ t[2] = 130 /\ t[3] = hi /\ t[4] = lo
    BY <2>5, <2>6, FourBytes
  <2>8. SeqHeader(n) = t
    BY <2>6
  <2> HIDE DEF t
  <2>9. 256 * SeqHeader(n)[3] + SeqHeader(n)[4] = k /\ SeqHeader(n)[2] = 130
    BY <2>6, <2>7, <2>8
  <2>10. SeqHeader(n) \in Seq(Byte) /\ Len(SeqHeader(n)) = SeqHead(n)
    BY <1>2, <2>7, <2>8 DEF SeqHead
  <2> QED BY <1>2, <2>9, <2>10 DEF k
<1> QED BY <1>1, <1>2

\* So does the string header, short below 128 bytes.
LEMMA StrHeaderAt ==
  ASSUME NEW n \in Nat, n <= 65507
  PROVE  /\ StrHeader(n) \in Seq(Byte) /\ Len(StrHeader(n)) = StrHead(n)
         /\ n <= 127 => StrHeader(n)[2] = n
         /\ n > 127 => StrHeader(n)[2] = 130 /\ 256 * StrHeader(n)[3] + StrHeader(n)[4] = n
<1>1. CASE n <= 127
  <2>1. StrHeader(n) = <<4, n>>
    BY <1>1 DEF StrHeader
  <2>2. 4 \in Byte /\ n \in Byte
    BY <1>1 DEF Byte
  <2> QED BY <1>1, <2>1, <2>2 DEF StrHead
<1>2. CASE n > 127
  <2> DEFINE hi == (n % 65536) \div 256
             lo == n % 256
  <2>1. hi \in Byte /\ lo \in Byte /\ 256 * hi + lo = n
    BY DEF Byte
  <2>2. StrHeader(n) = <<4, 130>> \o <<hi, lo>>
    BY <1>2 DEF StrHeader, BE16
  <2> HIDE DEF hi, lo
  <2>3. 4 \in Byte /\ 130 \in Byte
    BY DEF Byte
  <2> DEFINE t == <<4, 130>> \o <<hi, lo>>
  <2>4. t \in Seq(Byte) /\ Len(t) = 4 /\ t[2] = 130 /\ t[3] = hi /\ t[4] = lo
    BY <2>1, <2>3, FourBytes
  <2>5. StrHeader(n) = t
    BY <2>2
  <2> HIDE DEF t
  <2> QED BY <1>2, <2>1, <2>4, <2>5 DEF StrHead
<1> QED BY <1>1, <1>2

\* The outer length is what the headers and the body take together.
LEMMA OuterLenIs ==
  ASSUME NEW n \in Nat, n <= 65507
  PROVE  /\ OuterLen(n) = SeqHead(n) + 20 + StrHead(n) + n /\ OuterLen(n) \in Nat
         /\ OuterLen(n) < 65536
  BY DEF OuterLen, SeqHead, StrHead

\* Where each header is.
LEMMA HeadersAt ==
  ASSUME NEW n \in Nat, n <= 65507
  PROVE  LET f == PlanHeaders(n) IN
         /\ f \in Seq(Byte) /\ Len(f) = 3 + SeqHead(n) + 20 + StrHead(n)
         /\ f[1] = Code_LongForm /\ 256 * f[2] + f[3] = OuterLen(n)
         /\ \A i \in 1..SeqHead(n) : f[3 + i] = SeqHeader(n)[i]
         /\ \A i \in 1..StrHead(n) : f[23 + SeqHead(n) + i] = StrHeader(n)[i]
<1> DEFINE a == <<Code_LongForm>> \o BE16(OuterLen(n))
           b == a \o SeqHeader(n)
           c == b \o DIALPLAN_ASN_OID
           f == c \o StrHeader(n)
           x == SeqHead(n)
           y == StrHead(n)
<1>1. /\ a \in Seq(Byte) /\ Len(a) = 3 /\ a[1] = Code_LongForm
      /\ 256 * a[2] + a[3] = OuterLen(n)
  <2> DEFINE k == OuterLen(n)
             hi == (k % 65536) \div 256
             lo == k % 256
  <2>1. k \in Nat /\ k < 65536
    BY OuterLenIs
  <2> HIDE DEF k
  <2>2. hi \in Byte /\ lo \in Byte /\ 256 * hi + lo = k
    BY <2>1 DEF Byte
  <2>3. BE16(k) = <<hi, lo>>
    BY DEF BE16
  <2> HIDE DEF hi, lo
  <2>4. a = <<Code_LongForm>> \o <<hi, lo>>
    BY <2>3 DEF k
  <2> HIDE DEF a
  <2>5. Code_LongForm \in Byte
    BY DEF Code_LongForm, Byte
  <2> DEFINE t == <<Code_LongForm>> \o <<hi, lo>>
  <2>6. t \in Seq(Byte) /\ Len(t) = 3 /\ t[1] = Code_LongForm /\ t[2] = hi /\ t[3] = lo
    BY <2>2, <2>5, ThreeBytes
  <2>7. a = t
    BY <2>4
  <2> HIDE DEF t
  <2> QED BY <2>2, <2>6, <2>7 DEF k
<1> HIDE DEF a
<1>2. x \in Nat /\ y \in Nat /\ SeqHeader(n) \in Seq(Byte) /\ Len(SeqHeader(n)) = x
      /\ StrHeader(n) \in Seq(Byte) /\ Len(StrHeader(n)) = y
  BY SeqHeaderAt, StrHeaderAt DEF SeqHead, StrHead
<1>3. DIALPLAN_ASN_OID \in Seq(Byte) /\ Len(DIALPLAN_ASN_OID) = 20
  BY DEF DIALPLAN_ASN_OID, Byte
<1>4. /\ b \in Seq(Byte) /\ Len(b) = 3 + x /\ \A i \in 1..3 : b[i] = a[i]
      /\ \A i \in 1..x : b[3 + i] = SeqHeader(n)[i]
  <2>1. a \in Seq(Byte)
    BY <1>1
  <2>2. SeqHeader(n) \in Seq(Byte)
    BY <1>2
  <2>3. /\ b \in Seq(Byte) /\ Len(b) = Len(a) + Len(SeqHeader(n)) /\ \A i \in 1..Len(a) : b[i] = a[i]
        /\ \A i \in 1..Len(SeqHeader(n)) : b[Len(a) + i] = SeqHeader(n)[i]
    BY <2>1, <2>2, ConcatAt
  <2> HIDE DEF b, x
  <2> QED BY <1>1, <1>2, <2>3
<1> HIDE DEF b, x, y
<1>5. c \in Seq(Byte) /\ Len(c) = 3 + x + 20 /\ \A i \in 1..(3 + x) : c[i] = b[i]
  <2>1. c \in Seq(Byte) /\ Len(c) = Len(b) + Len(DIALPLAN_ASN_OID) /\ \A i \in 1..Len(b) : c[i] = b[i]
    <3>1. b \in Seq(Byte)
      BY <1>4
    <3>2. DIALPLAN_ASN_OID \in Seq(Byte)
      BY <1>3
    <3> QED BY <3>1, <3>2, ConcatAt
  <2> HIDE DEF c
  <2> QED BY <1>3, <1>4, <2>1
<1> HIDE DEF c
<1>6. /\ f \in Seq(Byte) /\ Len(f) = 3 + x + 20 + y /\ \A i \in 1..(3 + x + 20) : f[i] = c[i]
      /\ \A i \in 1..y : f[3 + x + 20 + i] = StrHeader(n)[i]
  <2>1. /\ f \in Seq(Byte) /\ Len(f) = Len(c) + Len(StrHeader(n)) /\ \A i \in 1..Len(c) : f[i] = c[i]
        /\ \A i \in 1..Len(StrHeader(n)) : f[Len(c) + i] = StrHeader(n)[i]
    <3>1. c \in Seq(Byte)
      BY <1>5
    <3>2. StrHeader(n) \in Seq(Byte)
      BY <1>2
    <3> QED BY <3>1, <3>2, ConcatAt
  <2> HIDE DEF f
  <2> QED BY <1>2, <1>5, <2>1
<1> HIDE DEF f
<1>7. \A i \in 1..(3 + x) : f[i] = b[i]
  <2>1. \A i \in 1..(3 + x) : i \in 1..(3 + x + 20)
    BY <1>2
  <2> QED BY <1>5, <1>6, <2>1
<1>8. f[1] = Code_LongForm /\ 256 * f[2] + f[3] = OuterLen(n)
  <2>1. \A i \in 1..3 : i \in 1..(3 + x)
    BY <1>2
  <2>2. \A i \in 1..3 : f[i] = a[i]
    BY <1>4, <1>7, <2>1
  <2>3. f[1] = a[1] /\ f[2] = a[2] /\ f[3] = a[3]
    BY <2>2
  <2> QED BY <1>1, <2>3
<1>9. \A i \in 1..x : f[3 + i] = SeqHeader(n)[i]
  <2>1. \A i \in 1..x : 3 + i \in 1..(3 + x)
    BY <1>2
  <2> QED BY <1>4, <1>7, <2>1
<1>10. \A i \in 1..y : f[23 + x + i] = StrHeader(n)[i]
  <2>1. \A i \in 1..y : 23 + x + i = 3 + x + 20 + i
    BY <1>2
  <2> QED BY <1>6, <2>1
<1>11. PlanHeaders(n) = f
  BY DEF PlanHeaders, f, c, b, a
<1> QED BY <1>6, <1>8, <1>9, <1>10, <1>11 DEF x, y

\* A dial plan is its headers and the file.
LEMMA DialplanAt ==
  ASSUME NEW body \in Seq(Byte), Len(body) <= 65507
  PROVE  LET d == DialplanTlv(body)
             n == Len(body)
             m == 3 + SeqHead(n) + 20 + StrHead(n)
         IN /\ d \in Seq(Byte) /\ Len(d) = m + n /\ Len(d) = 3 + OuterLen(n)
            /\ \A i \in 1..m : d[i] = PlanHeaders(n)[i]
            /\ \A i \in 1..n : d[m + i] = body[i]
<1> DEFINE n == Len(body)
           m == 3 + SeqHead(n) + 20 + StrHead(n)
           f == PlanHeaders(n)
           d == f \o body
<1>1. n \in Nat /\ n <= 65507
  OBVIOUS
<1> HIDE DEF n
<1>2. f \in Seq(Byte)
  BY <1>1, HeadersAt
<1>3. Len(f) = m /\ m \in Nat
  BY <1>1, HeadersAt DEF SeqHead, StrHead
<1>4. OuterLen(n) = SeqHead(n) + 20 + StrHead(n) + n
  BY <1>1, OuterLenIs
<1>5. 3 + OuterLen(n) = m + n
  BY <1>1, <1>4 DEF SeqHead, StrHead
<1> HIDE DEF f, m
<1>6. /\ d \in Seq(Byte) /\ Len(d) = Len(f) + Len(body) /\ \A i \in 1..Len(f) : d[i] = f[i]
      /\ \A i \in 1..Len(body) : d[Len(f) + i] = body[i]
  BY <1>2, ConcatAt
<1>7. DialplanTlv(body) = d
  BY DEF DialplanTlv, PlanHeaders, d, f, n
<1> HIDE DEF d
<1>8. /\ d \in Seq(Byte) /\ Len(d) = m + n /\ Len(d) = 3 + OuterLen(n)
      /\ \A i \in 1..m : d[i] = f[i]
      /\ \A i \in 1..n : d[m + i] = body[i]
  BY <1>3, <1>5, <1>6 DEF n
<1> QED BY <1>7, <1>8 DEF n, m, f

\* A configuration hash is a setting whose length is its header's.
LEMMA HashAt ==
  ASSUME opts \in Options, opts.hash # 0, NEW m
  PROVE  LET h == HashPrefix \o Sha1(m)
         IN /\ h \in Seq(Byte) /\ Len(h) = IF opts.hash = 1 THEN 42 ELSE 40
            /\ h[1] # Code_LongForm /\ h[2] + 2 = Len(h)
<1> DEFINE q == HashPrefix
           s == Sha1(m)
           h == q \o s
           k == IF opts.hash = 1 THEN 22 ELSE 20
<1>1. NA_HASH_PREFIX \in Seq(Byte) /\ Len(NA_HASH_PREFIX) = 22
      /\ NA_HASH_PREFIX[1] = 11 /\ NA_HASH_PREFIX[2] = 40
  BY DEF NA_HASH_PREFIX, Byte
<1>2. EU_HASH_PREFIX \in Seq(Byte) /\ Len(EU_HASH_PREFIX) = 20
      /\ EU_HASH_PREFIX[1] = 11 /\ EU_HASH_PREFIX[2] = 38
  BY DEF EU_HASH_PREFIX, Byte
<1>3. q \in Seq(Byte) /\ Len(q) = k /\ q[1] = 11 /\ q[2] = IF opts.hash = 1 THEN 40 ELSE 38
  BY <1>1, <1>2 DEF HashPrefix
<1>4. s \in Seq(Byte) /\ Len(s) = 20
  BY DigestTypes
<1> HIDE DEF q, s
<1>5. h \in Seq(Byte) /\ Len(h) = Len(q) + Len(s) /\ \A i \in 1..Len(q) : h[i] = q[i]
  <2>1. q \in Seq(Byte)
    BY <1>3
  <2>2. s \in Seq(Byte)
    BY <1>4
  <2> QED BY <2>1, <2>2, ConcatAt
<1> HIDE DEF h
<1>6. h[1] = q[1] /\ h[2] = q[2]
  <2>1. 1 \in 1..Len(q) /\ 2 \in 1..Len(q)
    BY <1>3
  <2> QED BY <1>5, <2>1
<1>7. h \in Seq(Byte) /\ Len(h) = (IF opts.hash = 1 THEN 42 ELSE 40)
      /\ h[1] # Code_LongForm /\ h[2] + 2 = Len(h)
  BY <1>3, <1>4, <1>5, <1>6 DEF Code_LongForm
<1> QED BY <1>7 DEF h, q, s

\* The bytes of b are those of p, d, h and t.
PartsOf(b, p, d, h, t) ==
  /\ b \in Seq(Byte) /\ Len(b) = Len(p) + Len(d) + Len(h) + Len(t)
  /\ \A i \in 1..Len(d) : b[Len(p) + i] = d[i]
  /\ \A i \in 1..Len(h) : b[Len(p) + Len(d) + i] = h[i]
  /\ SubSeq(b, Len(p) + Len(d) + Len(h) + 1, Len(b)) = t

\* Four parts, one behind the other.
LEMMA FourParts ==
  ASSUME NEW p \in Seq(Byte), NEW d \in Seq(Byte), NEW h \in Seq(Byte), NEW t \in Seq(Byte)
  PROVE  PartsOf(((p \o d) \o h) \o t, p, d, h, t)
<1> DEFINE x == p \o d
           y == x \o h
           b == y \o t
<1>1. /\ x \in Seq(Byte) /\ Len(x) = Len(p) + Len(d) /\ Len(p) \in Nat /\ Len(d) \in Nat
      /\ \A i \in 1..Len(d) : x[Len(p) + i] = d[i]
  BY ConcatAt
<1> HIDE DEF x
<1>2. x \in Seq(Byte)
  BY <1>1
<1>3. /\ y \in Seq(Byte) /\ Len(y) = Len(x) + Len(h) /\ Len(h) \in Nat
      /\ (\A i \in 1..Len(x) : y[i] = x[i]) /\ \A i \in 1..Len(h) : y[Len(x) + i] = h[i]
  BY <1>2, ConcatAt
<1> HIDE DEF y
<1>4. y \in Seq(Byte)
  BY <1>3
<1>5. /\ b \in Seq(Byte) /\ Len(b) = Len(y) + Len(t) /\ \A i \in 1..Len(y) : b[i] = y[i]
  BY <1>4, ConcatAt
<1>6. SubSeq(b, Len(y) + 1, Len(b)) = t
  BY <1>4, GrownBehind DEF Config!Behind
<1> HIDE DEF b
<1>7. \A i \in 1..Len(d) : b[Len(p) + i] = d[i]
  <2>1. \A i \in 1..Len(d) : Len(p) + i \in 1..Len(x) /\ Len(p) + i \in 1..Len(y)
    BY <1>1, <1>3
  <2> QED BY <1>1, <1>3, <1>5, <2>1
<1>8. \A i \in 1..Len(h) : b[Len(p) + Len(d) + i] = h[i]
  <2>1. \A i \in 1..Len(h) : Len(x) + i \in 1..Len(y)
    BY <1>1, <1>3
  <2>2. \A i \in 1..Len(h) : b[Len(x) + i] = h[i]
    BY <1>3, <1>5, <2>1
  <2> QED BY <1>1, <2>2
<1>9. Len(b) = Len(p) + Len(d) + Len(h) + Len(t)
  BY <1>1, <1>3, <1>5
<1>10. SubSeq(b, Len(p) + Len(d) + Len(h) + 1, Len(b)) = t
  BY <1>1, <1>3, <1>6
<1>11. PartsOf(b, p, d, h, t)
  BY <1>5, <1>7, <1>8, <1>9, <1>10 DEF PartsOf
<1> QED BY <1>11 DEF b, y, x

-----------------------------------------------------------------------------
(* An MTA file stands on its last setting, the terminator: the extensions  *)
(* go where it was, and it is put back behind them.                        *)

MtaTree == tree # <<>> /\ tree[Len(tree)] = Leaf(Code_MtaDelimiter, <<255>>)

\* The extensions of this run, the hash for a file b.
PlanPart    == IF opts.dialplan THEN DialplanTlv(dialplanFile) ELSE <<>>
HashPart(b) == IF opts.hash # 0 THEN HashPrefix \o Sha1(b) ELSE <<>>

\* The settings ahead of the terminator are p.
Ahead(p) == p \in Seq(Byte) /\ spans # <<>> /\ spans[Len(spans)].from = Len(p) + 1

Bare(p)     == out = p \o MTA_END
Planned(p)  == out = (p \o PlanPart) \o MTA_END
Lengthened(p) == out = ((p \o PlanPart) \o HashPart((p \o PlanPart) \o MTA_END)) \o MTA_END

TailInv ==
  /\ stage \in {"cm_mic", "cmts_mic", "eod"} => docsis
  /\ stage = "dialplan" => opts.dialplan
  /\ stage = "hash" => opts.hash # 0
  /\ MtaTree => /\ stage = "flatten" /\ stack = <<>> /\ todo = <<>> => \E p : Ahead(p) /\ Bare(p)
                /\ stage = "dialplan" /\ ~docsis => \E p : Ahead(p) /\ Bare(p)
                /\ stage = "hash" /\ ~docsis => PlanPart \in Seq(Byte) /\ \E p : Ahead(p) /\ Planned(p)
                /\ stage \in {"write", "written"} /\ ~docsis =>
                     PlanPart \in Seq(Byte) /\ \E p : Ahead(p) /\ Lengthened(p)

\* The terminator is three bytes, which Cut takes off again.
LEMMA CutBack ==
  ASSUME NEW b \in Seq(Byte)
  PROVE  /\ b \o MTA_END \in Seq(Byte) /\ Len(b \o MTA_END) = Len(b) + 3 /\ Len(b \o MTA_END) >= 3
         /\ Cut(b \o MTA_END, 3) = b
<1> DEFINE c == b \o MTA_END
<1>1. MTA_END \in Seq(Byte) /\ Len(MTA_END) = 3
  BY DEF MTA_END, Byte
<1>2. MTA_END \in Seq(Byte)
  BY <1>1
<1>3. c \in Seq(Byte) /\ Len(c) = Len(b) + Len(MTA_END) /\ Len(b) \in Nat
  BY <1>2, ConcatAt
<1>4. SubSeq(c, 1, Len(b)) = b
  BY <1>2, GrownBehind DEF Config!Grown
<1> HIDE DEF c
<1>5. Len(c) - 3 = Len(b) /\ Len(c) >= 3
  BY <1>1, <1>3
<1>6. Cut(c, 3) = b
  BY <1>4, <1>5 DEF Cut
<1> QED BY <1>1, <1>3, <1>5, <1>6 DEF c

\* The terminator is the last setting that flatten writes.
LEMMA LastWritten ==
  ASSUME TypeOK, Account, MtaTree, Flatten, stack' = <<>>, todo' = <<>>, stage' = "flatten"
  PROVE  (\E p : Ahead(p) /\ Bare(p))'
<1> DEFINE t == tree[Len(tree)]
<1>1. t.code = Code_MtaDelimiter /\ ~t.block /\ t.value = <<255>>
  BY DEF MtaTree, Leaf
<1>2. /\ stage = "flatten" /\ tree \in Seq(Tlvs) /\ todo \in Seq(Tlvs) /\ out \in Seq(Byte)
      /\ spans \in Seq(Span) /\ stack \in Seq(Frame)
  BY DEF TypeOK, Flatten, WriteLeaf, WriteLongMib, DropLeaf, EnterBlock, WriteBlock,
         DropBlock, EndFlatten, Flattening, Returning
<1>3. CASE WriteLeaf \/ WriteLongMib \/ DropLeaf
  <2>1. stack = <<>> /\ todo # <<>> /\ Tail(todo) = <<>>
    BY <1>3 DEF WriteLeaf, WriteLongMib, DropLeaf, Flattening
  <2>2. Rest(todo)
    BY <1>2, <2>1 DEF Account
  <2>3. Head(todo) = tree[Len(tree) - Len(Tail(todo))]
    BY <1>2, <2>1, <2>2, RestTail
  <2>4. Head(todo) = t
    <3>1. Len(Tail(todo)) = 0
      <4>1. Len(<<>>) = 0
        OBVIOUS
      <4> QED BY <2>1, <4>1, Zenon
    <3>2. tree \in Seq(Tlvs)
      BY <1>2
    <3>3. \A k : k = 0 => Len(tree) - k = Len(tree)
      BY <3>2
    <3>4. Len(tree) - Len(Tail(todo)) = Len(tree)
      BY <3>1, <3>3
    <3> QED BY <2>3, <3>4
  <2>5. Len(t.value) = 1
    BY <1>1
  <2> HIDE DEF t
  <2>6. WriteLeaf
    <3>1. Len(Head(todo).value) = 1
      BY <2>4, <2>5
    <3>2. \A k : k = 1 => Fits(k)
      BY DEF Fits
    <3>3. Fits(Len(Head(todo).value))
      BY <3>1, <3>2
    <3> QED BY <1>3, <3>3 DEF WriteLongMib, DropLeaf
  <2>7. Emit(out, spans, <<t.code, Len(t.value)>> \o t.value, FALSE)
    BY <2>4, <2>6 DEF WriteLeaf
  <2>8. <<t.code, Len(t.value)>> \o t.value = MTA_END
    <3> DEFINE a == <<254, 1>>
               b == <<255>>
    <3>1. a \in Seq(Byte) /\ b \in Seq(Byte) /\ Len(a) = 2 /\ Len(b) = 1 /\ b[1] = 255
          /\ a[1] = 254 /\ a[2] = 1
      BY DEF Byte
    <3> HIDE DEF a, b
    <3>2. a \in Seq(Byte) /\ b \in Seq(Byte)
      BY <3>1
    <3>3. /\ a \o b \in Seq(Byte) /\ Len(a \o b) = Len(a) + Len(b)
          /\ (\A i \in 1..Len(a) : (a \o b)[i] = a[i])
          /\ \A i \in 1..Len(b) : (a \o b)[Len(a) + i] = b[i]
      BY <3>2, ConcatAt
    <3>4. a \o b = <<254, 1, 255>>
      <4> DEFINE c == a \o b
      <4>1. c \in Seq(Byte) /\ Len(c) = 3 /\ c[1] = 254 /\ c[2] = 1 /\ c[3] = 255
        <5>1. 1 \in 1..Len(a) /\ 2 \in 1..Len(a) /\ 1 \in 1..Len(b) /\ Len(a) + 1 = 3
          BY <3>1
        <5>2. Len(a) + Len(b) = 3
          BY <3>1
        <5> QED BY <3>1, <3>3, <5>1, <5>2
      <4> HIDE DEF c
      <4>2. c = <<254, 1, 255>>
        BY <4>1
      <4> QED BY <4>2 DEF c
    <3>5. <<t.code, Len(t.value)>> = a /\ t.value = b
      BY <1>1, <2>5 DEF a, b, Code_MtaDelimiter
    <3> QED BY <3>4, <3>5 DEF MTA_END
  <2> DEFINE s == [from |-> Len(out) + 1, to |-> Len(out) + 1 + Len(MTA_END), long |-> FALSE]
  <2>9. out' = out \o MTA_END /\ spans' = Append(spans, s)
    BY <2>7, <2>8 DEF Emit
  <2>10. s \in Span /\ s.from = Len(out) + 1
    <3>1. Len(out) \in Nat /\ Len(MTA_END) = 3
      BY <1>2 DEF MTA_END
    <3> QED BY <3>1 DEF Span
  <2> HIDE DEF s
  <2>11. spans' # <<>> /\ spans'[Len(spans')] = s
    <3>1. Len(spans') = Len(spans) + 1 /\ Len(spans) \in Nat
      BY <1>2, <2>9
    <3>2. Append(spans, s)[Len(spans) + 1] = s
      BY <1>2, <2>10
    <3>3. Len(spans') # 0
      BY <3>1
    <3> QED BY <2>9, <3>1, <3>2, <3>3
  <2>12. PICK p : p = out
    OBVIOUS
  <2>13. Ahead(p)' /\ Bare(p)'
    BY <1>2, <2>9, <2>10, <2>11, <2>12 DEF Ahead, Bare
  <2> QED BY <2>13
<1>4. CASE EnterBlock
  <2> DEFINE f == [code |-> Head(todo).code, todo |-> Tail(todo), out |-> out, spans |-> spans]
  <2>1. stack' = <<f>> \o stack
    BY <1>4 DEF EnterBlock
  <2> HIDE DEF f
  <2>2. stack' # <<>>
    <3>1. stack \in Seq(Frame)
      BY <1>2
    <3>2. \A g : <<g>> \o stack # <<>>
      BY <3>1, ConcatEqualIffEmpty
    <3> QED BY <2>1, <3>2
  <2> QED BY <2>2
<1>5. CASE WriteBlock \/ DropBlock
  <2>1. stack # <<>> /\ Tail(stack) = <<>> /\ Head(stack).todo = <<>>
    BY <1>5 DEF WriteBlock, DropBlock, Returning
  <2>2. Len(stack) = 1 /\ Head(stack) = stack[1]
    BY <1>2, <2>1, PopStack
  <2>3. Pending(stack[1]) /\ stack[1].todo = <<>>
    BY <1>2, <2>1, <2>2 DEF Account, Outermost
  <2>4. tree[Len(tree) - 0].block
    BY <2>3 DEF Pending
  <2> QED BY <1>1, <1>2, <2>4
<1>6. CASE EndFlatten
  BY <1>6 DEF EndFlatten, Extensions
<1> QED BY <1>3, <1>4, <1>5, <1>6 DEF Flatten

\* Nothing behind is nothing added.
LEMMA NothingBehind == ASSUME NEW b \in Seq(Byte) PROVE b \o <<>> = b
  OBVIOUS

\* When flatten ends the file is the settings and the terminator.
LEMMA EndFlattenTail ==
  ASSUME TypeOK, TailInv, EndFlatten
  PROVE  TailInv'
<1>1. /\ stage = "flatten" /\ stack = <<>> /\ todo = <<>> /\ docsis' = docsis /\ tree' = tree
      /\ opts' = opts /\ dialplanFile' = dialplanFile /\ out' = out /\ spans' = spans
      /\ stage' = IF docsis THEN "cm_mic" ELSE Extensions
  BY DEF EndFlatten, input, flat
<1>2. docsis \in BOOLEAN
  BY DEF TypeOK
<1>3. stage' = "dialplan" => opts'.dialplan
  BY <1>1 DEF Extensions
<1>4. stage' = "hash" => opts'.hash # 0
  BY <1>1 DEF Extensions
<1>5. stage' \in {"cm_mic", "cmts_mic", "eod"} => docsis'
  BY <1>1 DEF Extensions
<1>6. stage' # "flatten"
  BY <1>1 DEF Extensions
<1>7. ASSUME MtaTree, ~docsis
      PROVE  /\ stage' = "dialplan" => (\E p : Ahead(p) /\ Bare(p))'
             /\ stage' = "hash" => (PlanPart \in Seq(Byte) /\ \E p : Ahead(p) /\ Planned(p))'
             /\ stage' \in {"write", "written"} =>
                  (PlanPart \in Seq(Byte) /\ \E p : Ahead(p) /\ Lengthened(p))'
  <2>1. PICK p : Ahead(p) /\ Bare(p)
    BY <1>1, <1>7 DEF TailInv
  <2>2. Ahead(p)' /\ Bare(p)'
    BY <1>1, <2>1 DEF Ahead, Bare
  <2>3. p \in Seq(Byte) /\ p \o <<>> = p /\ <<>> \in Seq(Byte)
    BY <2>1, NothingBehind DEF Ahead
  <2>4. ASSUME ~opts.dialplan PROVE PlanPart' = <<>> /\ p \o PlanPart' = p
    BY <1>1, <2>3, <2>4 DEF PlanPart
  <2>5. ASSUME stage' = "hash" PROVE PlanPart' \in Seq(Byte) /\ Planned(p)'
    <3>1. ~opts.dialplan
      BY <1>1, <1>7, <2>5 DEF Extensions
    <3> QED BY <2>2, <2>3, <2>4, <3>1 DEF Planned, Bare
  <2>6. ASSUME stage' \in {"write", "written"} PROVE PlanPart' \in Seq(Byte) /\ Lengthened(p)'
    <3>1. ~opts.dialplan /\ opts.hash = 0
      BY <1>1, <1>7, <2>6 DEF Extensions
    <3>2. \A b : HashPart(b)' = <<>>
      BY <1>1, <3>1 DEF HashPart
    <3>3. PlanPart' = <<>> /\ p \o PlanPart' = p
      BY <2>4, <3>1
    <3>4. out' = p \o MTA_END
      BY <2>2 DEF Bare
    <3>5. out' = ((p \o PlanPart') \o <<>>) \o MTA_END
      BY <2>3, <3>3, <3>4
    <3>6. HashPart((p \o PlanPart) \o MTA_END)' = <<>>
      BY <1>1, <3>1 DEF HashPart
    <3> QED BY <2>3, <3>3, <3>5, <3>6 DEF Lengthened
  <2> QED BY <2>2, <2>5, <2>6
<1>8. MtaTree' = MtaTree
  BY <1>1 DEF MtaTree
<1> QED BY <1>1, <1>3, <1>4, <1>5, <1>6, <1>7, <1>8 DEF TailInv

\* add_dialplan puts its setting where the terminator was.
LEMMA DialplanTail ==
  ASSUME TypeOK, TailInv, MtaTree, ~docsis, AddDialplan
  PROVE  /\ PlanPart' \in Seq(Byte)
         /\ \E p : Ahead(p)' /\ out' = (p \o PlanPart') \o MTA_END
<1>1. /\ stage = "dialplan" /\ opts.dialplan /\ dialplanFile # NoFile
      /\ opts' = opts /\ dialplanFile' = dialplanFile /\ spans' = spans
  BY DEF AddDialplan, TailInv, input, flat
<1>2. PICK p : Ahead(p) /\ Bare(p)
  BY <1>1 DEF TailInv
<1>3. p \in Seq(Byte) /\ out = p \o MTA_END
  BY <1>2 DEF Ahead, Bare
<1>4. ~(Len(out) < 3) /\ Cut(out, 3) = p
  <2>1. Len(out) >= 3 /\ Len(out) = Len(p) + 3 /\ Len(p) \in Nat
    BY <1>3, CutBack
  <2>2. Cut(out, 3) = p
    BY <1>3, CutBack
  <2> QED BY <2>1, <2>2
<1>5. dialplanFile \in Seq(Byte)
  BY <1>1 DEF TypeOK
<1>6. PlanPart' = DialplanTlv(dialplanFile)
  BY <1>1 DEF PlanPart
<1>7. PlanPart' \in Seq(Byte)
  BY <1>5, <1>6, DialplanTyped
<1>8. out' = (p \o PlanPart') \o MTA_END
  BY <1>1, <1>4, <1>6 DEF AddDialplan
<1>9. Ahead(p)'
  BY <1>1, <1>2 DEF Ahead
<1> QED BY <1>7, <1>8, <1>9

\* add_mta_hash puts its own where the terminator is by then.
LEMMA HashTail ==
  ASSUME TypeOK, TailInv, MtaTree, ~docsis, AddMtaHash
  PROVE  PlanPart' \in Seq(Byte) /\ \E p : Ahead(p)' /\ Lengthened(p)'
<1>1. /\ stage = "hash" /\ opts.hash # 0
      /\ opts' = opts /\ dialplanFile' = dialplanFile /\ spans' = spans
  BY DEF AddMtaHash, TailInv, input, flat
<1>2. PICK p : Ahead(p) /\ Planned(p)
  BY <1>1 DEF TailInv
<1>3. PlanPart \in Seq(Byte) /\ PlanPart' = PlanPart
  BY <1>1 DEF TailInv, PlanPart
<1> DEFINE x == p \o PlanPart
           q == HashPrefix
           h == Sha1(out)
<1>4. x \in Seq(Byte)
  BY <1>2, <1>3 DEF Ahead
<1>5. out = x \o MTA_END
  BY <1>2 DEF Planned
<1> HIDE DEF x
<1>6. ~(Len(out) < 3) /\ Cut(out, 3) = x
  <2>1. Len(out) >= 3 /\ Len(out) = Len(x) + 3 /\ Len(x) \in Nat
    BY <1>4, <1>5, CutBack
  <2>2. Cut(out, 3) = x
    BY <1>4, <1>5, CutBack
  <2> QED BY <2>1, <2>2
<1>7. q \in Seq(Byte) /\ h \in Seq(Byte)
  <2>1. NA_HASH_PREFIX \in Seq(Byte)
    BY DEF NA_HASH_PREFIX, Byte
  <2>2. EU_HASH_PREFIX \in Seq(Byte)
    BY DEF EU_HASH_PREFIX, Byte
  <2>3. HashPrefix \in Seq(Byte)
    BY <2>1, <2>2 DEF HashPrefix
  <2> QED BY <2>3, DigestTypes
<1>8. HashPart(out)' = q \o Sha1(out') /\ \A b : HashPart(b)' = q \o Sha1(b)
  BY <1>1 DEF HashPart, HashPrefix
<1>9. out' = ((x \o q) \o h) \o MTA_END
  BY <1>1, <1>6 DEF AddMtaHash, Hashed
<1> HIDE DEF q, h
<1>10. (x \o q) \o h = x \o (q \o h)
  BY <1>4, <1>7, ConcatAssociative, SMTT(30)
<1>11. out' = (x \o (q \o h)) \o MTA_END
  BY <1>9, <1>10
<1>12. Lengthened(p)'
  BY <1>1, <1>3, <1>5, <1>11 DEF Lengthened, HashPart, HashPrefix, x, q, h
<1>13. Ahead(p)'
  BY <1>1, <1>2 DEF Ahead
<1> QED BY <1>3, <1>12, <1>13

-----------------------------------------------------------------------------
\* Before flatten has begun there is nothing to keep.
LEMMA TailInit == Init => TailInv
  BY DEF Init, TailInv

\* Every step keeps the file on its last setting.
LEMMA TailStep == TypeOK /\ Account /\ TailInv /\ [Next]_vars => TailInv'
<1> SUFFICES ASSUME TypeOK, Account, TailInv, [Next]_vars PROVE TailInv'
  OBVIOUS
<1>1. CASE RejectEmpty \/ NoDialplan \/ StopListing
  BY <1>1 DEF RejectEmpty, NoDialplan, StopListing, TailInv, input, flat, MtaTree
<1>2. CASE Begin
  <2>1. stage' = "flatten" /\ todo' # <<>>
    BY <1>2 DEF Begin
  <2> QED BY <2>1 DEF TailInv
<1>3. CASE Flatten /\ ~EndFlatten
  <2>1. stage' = "flatten" /\ tree' = tree
    BY <1>3 DEF Flatten, WriteLeaf, WriteLongMib, DropLeaf, EnterBlock, WriteBlock, DropBlock,
                Flattening, Returning, input
  <2>2. ASSUME MtaTree', stack' = <<>>, todo' = <<>> PROVE (\E p : Ahead(p) /\ Bare(p))'
    <3>1. MtaTree
      BY <2>1, <2>2 DEF MtaTree
    <3> QED BY <1>3, <2>1, <2>2, <3>1, LastWritten
  <2> QED BY <2>1, <2>2 DEF TailInv
<1>4. CASE EndFlatten
  BY <1>4, EndFlattenTail
<1>5. CASE AddCmMic \/ Walk \/ AddCmtsMic
  <2>1. stage' \in {"cm_mic", "cmts_mic", "eod"} /\ docsis' = docsis /\ docsis
    BY <1>5 DEF AddCmMic, Walk, WalkSelect, WalkPass, WalkRestart, Walking, AddCmtsMic, Selected,
                TailInv
  <2> QED BY <2>1 DEF TailInv
<1>6. CASE AddEodAndPad
  <2>1. stage' = Extensions /\ docsis' = docsis /\ docsis /\ opts' = opts
    BY <1>6 DEF AddEodAndPad, TailInv, input
  <2>2. stage' \in {"dialplan", "hash", "write"}
    BY <2>1 DEF Extensions
  <2>3. (stage' = "dialplan" => opts'.dialplan) /\ (stage' = "hash" => opts'.hash # 0)
    BY <2>1 DEF Extensions
  <2> QED BY <2>1, <2>2, <2>3 DEF TailInv
<1>7. CASE AddDialplan
  <2>1. /\ stage' = AfterDialplan /\ docsis' = docsis /\ tree' = tree /\ opts' = opts
        /\ dialplanFile' = dialplanFile
    BY <1>7 DEF AddDialplan, input
  <2>2. stage' \in {"hash", "write"} /\ (stage' = "hash" => opts'.hash # 0)
        /\ (stage' = "write" => opts'.hash = 0)
    BY <2>1 DEF AfterDialplan
  <2>3. MtaTree' = MtaTree
    BY <2>1 DEF MtaTree
  <2>4. ASSUME MtaTree, ~docsis
        PROVE  /\ PlanPart' \in Seq(Byte)
               /\ stage' = "hash" => (\E p : Ahead(p) /\ Planned(p))'
               /\ stage' = "write" => (\E p : Ahead(p) /\ Lengthened(p))'
    <3>1. PlanPart' \in Seq(Byte)
      BY <1>7, <2>4, DialplanTail
    <3>2. PICK p : Ahead(p)' /\ out' = (p \o PlanPart') \o MTA_END
      BY <1>7, <2>4, DialplanTail
    <3>3. p \in Seq(Byte)
      BY <3>2 DEF Ahead
    <3>4. Planned(p)'
      BY <3>2 DEF Planned
    <3>5. ASSUME stage' = "write" PROVE Lengthened(p)'
      <4> DEFINE x == p \o PlanPart'
      <4>1. x \in Seq(Byte) /\ out' = x \o MTA_END
        BY <3>1, <3>2, <3>3
      <4>2. \A b : HashPart(b)' = <<>>
        BY <2>2, <3>5 DEF HashPart
      <4> HIDE DEF x
      <4>3. x \o <<>> = x
        BY <4>1, NothingBehind
      <4>4. out' = (x \o <<>>) \o MTA_END
        BY <4>1, <4>3
      <4>5. HashPart((p \o PlanPart) \o MTA_END)' = <<>>
        BY <2>2, <3>5 DEF HashPart
      <4> QED BY <4>4, <4>5 DEF Lengthened, x
    <3> QED BY <3>1, <3>2, <3>4, <3>5
  <2> QED BY <2>1, <2>2, <2>3, <2>4 DEF TailInv
<1>8. CASE AddMtaHash
  <2>1. stage' = "write" /\ docsis' = docsis /\ tree' = tree
    BY <1>8 DEF AddMtaHash, input
  <2>2. MtaTree' = MtaTree
    BY <2>1 DEF MtaTree
  <2>3. MtaTree /\ ~docsis => (PlanPart \in Seq(Byte) /\ \E p : Ahead(p) /\ Lengthened(p))'
    BY <1>8, HashTail
  <2> QED BY <2>1, <2>2, <2>3 DEF TailInv
<1>9. CASE Write
  <2>1. /\ stage = "write" /\ stage' = "written" /\ docsis' = docsis /\ tree' = tree /\ opts' = opts
        /\ dialplanFile' = dialplanFile /\ out' = out /\ spans' = spans
    BY <1>9 DEF Write, input, flat
  <2>2. /\ MtaTree' = MtaTree /\ PlanPart' = PlanPart
        /\ \A p : Ahead(p)' = Ahead(p) /\ Lengthened(p)' = Lengthened(p)
    BY <2>1 DEF MtaTree, PlanPart, Ahead, Lengthened, HashPart, HashPrefix
  <2> QED BY <2>1, <2>2 DEF TailInv
<1>10. CASE UNCHANGED vars
  <2>1. /\ stage' = stage /\ docsis' = docsis /\ tree' = tree /\ opts' = opts
        /\ dialplanFile' = dialplanFile /\ out' = out /\ spans' = spans
        /\ stack' = stack /\ todo' = todo
    BY <1>10 DEF vars, input, flat
  <2>2. /\ MtaTree' = MtaTree /\ PlanPart' = PlanPart
        /\ \A p : Ahead(p)' = Ahead(p) /\ Bare(p)' = Bare(p)
        /\ \A p : Planned(p)' = Planned(p) /\ Lengthened(p)' = Lengthened(p)
    BY <2>1 DEF MtaTree, PlanPart, Ahead, Bare, Planned, Lengthened, HashPart, HashPrefix
  <2> QED BY <2>1, <2>2 DEF TailInv
<1> QED BY <1>1, <1>2, <1>3, <1>4, <1>5, <1>6, <1>7, <1>8, <1>9, <1>10 DEF Next

\* The file stands on its last setting in every state.
LEMMA TailKept == Spec => [](TypeOK /\ TailInv)
<1>1. TypeOK /\ Account /\ [Next]_vars => Account'
  BY AccountStep
<1>2. TypeOK /\ Account /\ TailInv /\ [Next]_vars => TailInv'
  BY TailStep
<1> QED BY <1>1, <1>2, Typing, AccountInit, TailInit, PTL DEF Spec

\* An ending shows at the end.
LEMMA EndsAt ==
  ASSUME NEW b \in Seq(Byte), NEW e \in Seq(Byte)
  PROVE  EndsWith(b \o e, e)
<1> DEFINE c == b \o e
<1>1. Len(c) = Len(b) + Len(e) /\ Len(b) \in Nat /\ Len(e) \in Nat
  BY ConcatAt
<1>2. SubSeq(c, Len(b) + 1, Len(c)) = e
  BY GrownBehind DEF Config!Behind
<1> HIDE DEF c
<1>3. Len(c) - Len(e) + 1 = Len(b) + 1 /\ Len(c) >= Len(e)
  BY <1>1
<1>4. EndsWith(c, e)
  BY <1>2, <1>3 DEF EndsWith
<1> QED BY <1>4 DEF c

\* The hash of an MTA file is that of the file as it stood with its
\* terminator, dial plan included (add_mta_hash takes the digest before it
\* truncates, main.rs:496).
THEOREM HashCovers == Spec => []HashCoversFile
<1>1. TypeOK /\ TailInv => HashCoversFile
  <2> SUFFICES ASSUME TypeOK, TailInv, stage = "written", Terminated, opts.hash # 0
               PROVE  EndsWith(out, Sha1(Cut(out, IF opts.hash = 1 THEN 45 ELSE 43) \o MTA_END)
                                      \o MTA_END)
    BY DEF HashCoversFile
  <2>1. PICK p : Ahead(p) /\ Lengthened(p)
    BY DEF TailInv, Terminated, MtaTree
  <2>2. p \in Seq(Byte) /\ PlanPart \in Seq(Byte)
    BY <2>1 DEF Ahead, TailInv, Terminated, MtaTree
  <2> DEFINE x == p \o PlanPart
             q == HashPrefix
             s == Sha1(x \o MTA_END)
             n == IF opts.hash = 1 THEN 22 ELSE 20
  <2>3. x \in Seq(Byte)
    BY <2>2
  <2>4. q \in Seq(Byte) /\ Len(q) = n
    <3>1. NA_HASH_PREFIX \in Seq(Byte) /\ Len(NA_HASH_PREFIX) = 22
      BY DEF NA_HASH_PREFIX, Byte
    <3>2. EU_HASH_PREFIX \in Seq(Byte) /\ Len(EU_HASH_PREFIX) = 20
      BY DEF EU_HASH_PREFIX, Byte
    <3> QED BY <3>1, <3>2 DEF HashPrefix
  <2>5. s \in Seq(Byte) /\ Len(s) = 20
    BY DigestTypes
  <2>6. MTA_END \in Seq(Byte) /\ Len(MTA_END) = 3
    BY DEF MTA_END, Byte
  <2>7. out = (x \o (q \o s)) \o MTA_END
    BY <2>1 DEF Lengthened, HashPart
  <2>8. q \in Seq(Byte) /\ s \in Seq(Byte) /\ MTA_END \in Seq(Byte)
    BY <2>4, <2>5, <2>6
  <2> HIDE DEF x, q, n
  <2> DEFINE w == s \o MTA_END
             v == q \o w
  <2>9. w \in Seq(Byte) /\ Len(w) = 23 /\ v \in Seq(Byte) /\ Len(v) = Len(q) + Len(w)
    <3> HIDE DEF s
    <3>1. w \in Seq(Byte) /\ Len(w) = Len(s) + Len(MTA_END)
      BY <2>8, ConcatAt
    <3>2. Len(w) = 23
      BY <2>5, <2>6, <3>1
    <3> HIDE DEF w
    <3>3. v \in Seq(Byte) /\ Len(v) = Len(q) + Len(w)
      BY <2>8, <3>1, ConcatAt
    <3> QED BY <3>1, <3>2, <3>3
  <2>10. out = x \o v /\ out = (x \o q) \o w
    <3> HIDE DEF s
    <3>1. (x \o (q \o s)) \o MTA_END = x \o ((q \o s) \o MTA_END)
      <4>1. q \o s \in Seq(Byte)
        BY <2>8
      <4> QED BY <2>3, <2>8, <4>1, ConcatAssociative, SMTT(30)
    <3>2. (q \o s) \o MTA_END = q \o (s \o MTA_END)
      BY <2>8, ConcatAssociative
    <3>3. out = x \o v
      BY <2>7, <3>1, <3>2
    <3> HIDE DEF w
    <3>4. x \o (q \o w) = (x \o q) \o w
      <4>1. w \in Seq(Byte)
        BY <2>9
      <4>2. \A a, b, c \in Seq(Byte) : a \o (b \o c) = (a \o b) \o c
        BY ConcatAssociative, SMTT(30)
      <4>3. x \in Seq(Byte) /\ q \in Seq(Byte)
        BY <2>3, <2>8
      <4> QED BY <4>1, <4>2, <4>3, Zenon
    <3> QED BY <3>3, <3>4
  <2> HIDE DEF v
  <2>11. Cut(out, IF opts.hash = 1 THEN 45 ELSE 43) = x
    <3>1. Len(out) = Len(x) + Len(v) /\ Len(x) \in Nat
      <4>1. v \in Seq(Byte)
        BY <2>9
      <4>2. Len(x \o v) = Len(x) + Len(v) /\ Len(x) \in Nat
        BY <2>3, <4>1, ConcatAt
      <4>3. out = x \o v
        BY <2>10
      <4> QED BY <4>2, <4>3
    <3>2. SubSeq(out, 1, Len(x)) = x
      BY <2>3, <2>9, <2>10, GrownBehind DEF Config!Grown
    <3>3. Len(v) = n + 23
      BY <2>4, <2>9
    <3>4. Len(out) - (IF opts.hash = 1 THEN 45 ELSE 43) = Len(x)
      BY <3>1, <3>3 DEF n
    <3> QED BY <3>2, <3>4 DEF Cut
  <2>12. x \o q \in Seq(Byte)
    BY <2>3, <2>8
  <2>13. EndsWith(out, w)
    <3> HIDE DEF w
    <3> QED BY <2>9, <2>10, <2>12, EndsAt
  <2> QED BY <2>11, <2>13
<1> QED BY <1>1, TailKept, PTL

-----------------------------------------------------------------------------
(* Where the length bytes of the extensions lead.                          *)

\* The numbers in the headers of a dial plan, by their place in it.
LEMMA PlanNumbers ==
  ASSUME NEW body \in Seq(Byte), Len(body) <= 65507
  PROVE  LET d == DialplanTlv(body)
             n == Len(body)
             x == SeqHead(n)
             y == StrHead(n)
         IN /\ d[1] = Code_LongForm /\ 256 * d[2] + d[3] + 3 = Len(d)
            /\ n <= 105 => d[5] = 22 + n
            /\ n > 105 => d[5] = 130 /\ 256 * d[6] + d[7] = 20 + y + n
            /\ n <= 127 => d[25 + x] = n
            /\ n > 127 => d[25 + x] = 130 /\ 256 * d[26 + x] + d[27 + x] = n
<1> DEFINE n == Len(body)
           x == SeqHead(n)
           y == StrHead(n)
           m == 3 + x + 20 + y
           d == DialplanTlv(body)
           f == PlanHeaders(n)
           sh == SeqHeader(n)
           th == StrHeader(n)
<1>1. n \in Nat /\ n <= 65507
  OBVIOUS
<1>2. /\ Len(d) = 3 + OuterLen(n)
      /\ \A i \in 1..m : d[i] = f[i]
  BY DialplanAt
<1> HIDE DEF n, d
<1>3. /\ f[1] = Code_LongForm /\ 256 * f[2] + f[3] = OuterLen(n)
      /\ \A i \in 1..x : f[3 + i] = sh[i]
      /\ \A i \in 1..y : f[23 + x + i] = th[i]
  BY <1>1, HeadersAt, SMTT(30)
<1>4. /\ n <= 105 => sh[2] = 22 + n
      /\ n > 105 => sh[2] = 130 /\ 256 * sh[3] + sh[4] = 20 + y + n
  <2>1. n <= 105 => sh[2] = 22 + n
    BY <1>1, SeqHeaderAt
  <2>2. ASSUME n > 105 PROVE sh[2] = 130
    BY <1>1, <2>2, SeqHeaderAt
  <2>3. ASSUME n > 105 PROVE 256 * sh[3] + sh[4] = 20 + y + n
    <3> HIDE DEF y
    <3>1. 256 * sh[3] + sh[4] = 20 + StrHead(n) + n
      BY <1>1, <2>3, SeqHeaderAt
    <3> QED BY <3>1 DEF y
  <2> QED BY <2>1, <2>2, <2>3
<1>5. /\ n <= 127 => th[2] = n
      /\ n > 127 => th[2] = 130 /\ 256 * th[3] + th[4] = n
  BY <1>1, StrHeaderAt, SMTT(30)
<1>6. (n <= 105 => x = 2) /\ (n > 105 => x = 4) /\ (n <= 127 => y = 2) /\ (n > 127 => y = 4)
  BY <1>1 DEF SeqHead, StrHead
<1>7. x \in 2..4 /\ y \in 2..4
  BY <1>1 DEF SeqHead, StrHead
<1>8. OuterLen(n) \in Nat
  BY <1>1, OuterLenIs
<1> HIDE DEF x, y, f, sh, th
<1>9. \A i \in 1..x : d[3 + i] = sh[i]
  <2>1. \A i \in 1..x : 3 + i \in 1..m
    BY <1>7
  <2> QED BY <1>2, <1>3, <2>1
<1>10. \A i \in 1..y : d[23 + x + i] = th[i]
  <2>1. \A i \in 1..y : 23 + x + i \in 1..m
    BY <1>7
  <2> QED BY <1>2, <1>3, <2>1
<1>11. d[1] = Code_LongForm /\ 256 * d[2] + d[3] + 3 = Len(d)
  <2>1. 1 \in 1..m /\ 2 \in 1..m /\ 3 \in 1..m
    BY <1>7
  <2>2. d[1] = f[1] /\ d[2] = f[2] /\ d[3] = f[3]
    BY <1>2, <2>1
  <2>3. 256 * d[2] + d[3] = OuterLen(n)
    BY <1>3, <2>2
  <2>4. Len(d) = OuterLen(n) + 3
    BY <1>2, <1>8
  <2> QED BY <1>3, <2>2, <2>3, <2>4
<1>12. d[5] = sh[2] /\ (x = 4 => d[6] = sh[3] /\ d[7] = sh[4])
  <2>1. 2 \in 1..x /\ (x = 4 => 3 \in 1..x /\ 4 \in 1..x)
    BY <1>7
  <2>2. d[3 + 2] = sh[2] /\ (x = 4 => d[3 + 3] = sh[3] /\ d[3 + 4] = sh[4])
    BY <1>9, <2>1
  <2> QED BY <2>2
<1>13. d[25 + x] = th[2] /\ (y = 4 => d[26 + x] = th[3] /\ d[27 + x] = th[4])
  <2>1. 2 \in 1..y /\ (y = 4 => 3 \in 1..y /\ 4 \in 1..y)
    BY <1>7
  <2>2. d[23 + x + 2] = th[2] /\ (y = 4 => d[23 + x + 3] = th[3] /\ d[23 + x + 4] = th[4])
    BY <1>10, <2>1
  <2>3. 23 + x + 2 = 25 + x /\ 23 + x + 3 = 26 + x /\ 23 + x + 4 = 27 + x
    BY <1>7
  <2> QED BY <2>2, <2>3
<1>14. /\ n <= 105 => d[5] = 22 + n
       /\ n > 105 => d[5] = 130 /\ 256 * d[6] + d[7] = 20 + y + n
  BY <1>4, <1>6, <1>12
<1>15. /\ n <= 127 => d[25 + x] = n
       /\ n > 127 => d[25 + x] = 130 /\ 256 * d[26 + x] + d[27 + x] = n
  BY <1>5, <1>6, <1>13
<1> QED BY <1>11, <1>14, <1>15 DEF d, n, x, y

\* A setting standing behind l bytes is read there as it is.
LEMMA ReadThere ==
  ASSUME NEW b, NEW l \in Nat, NEW d \in Seq(Byte), Len(d) >= 2,
         \A i \in 1..Len(d) : b[l + i] = d[i],
         d[1] # Code_LongForm => d[2] + 2 = Len(d),
         d[1] = Code_LongForm => Len(d) >= 3 /\ 256 * d[2] + d[3] + 3 = Len(d)
  PROVE  WalkStep(b, l + 1) = Len(d)
<1>1. Len(d) \in Nat
  OBVIOUS
<1>2. b[l + 1] = d[1] /\ b[l + 2] = d[2] /\ (Len(d) >= 3 => b[l + 3] = d[3])
  <2>1. 1 \in 1..Len(d) /\ 2 \in 1..Len(d) /\ (Len(d) >= 3 => 3 \in 1..Len(d))
    BY <1>1
  <2> QED BY <2>1
<1>3. l + 1 + 1 = l + 2 /\ l + 1 + 2 = l + 3
  OBVIOUS
<1>4. CASE d[1] = Code_LongForm
  <2>1. WalkStep(b, l + 1) = 256 * b[l + 2] + b[l + 3] + 3
    BY <1>2, <1>3, <1>4 DEF WalkStep
  <2> QED BY <1>2, <1>4, <2>1
<1>5. CASE d[1] # Code_LongForm
  <2>1. WalkStep(b, l + 1) = b[l + 2] + 2
    BY <1>2, <1>3, <1>5 DEF WalkStep
  <2> QED BY <1>2, <1>5, <2>1
<1> QED BY <1>4, <1>5

\* The nested lengths of a dial plan at `old` of b lead to its end.
PlanLeads(b, old, body) ==
  LET hash    == old + WalkStep(b, old)
      seqLong == b[old + 4] = 130
      oid     == old + IF seqLong THEN 7 ELSE 5
      strLong == b[oid + 21] = 130
      str     == oid + IF strLong THEN 24 ELSE 22
      Be(p)   == 256 * b[p] + b[p + 1]
  IN /\ hash = old + Len(DialplanTlv(body))
     /\ oid + (IF seqLong THEN Be(old + 5) ELSE b[old + 4]) = hash
     /\ str + (IF strLong THEN Be(oid + 22) ELSE b[oid + 21]) = hash
     /\ SubSeq(b, str, hash - 1) = body

\* The dial plan of a body of a size that fits stands behind l bytes of b.
PlanStands(b, l, body) ==
  /\ b \in Seq(Byte) /\ l \in Nat /\ body \in Seq(Byte) /\ Len(body) <= 65507
  /\ l + Len(DialplanTlv(body)) <= Len(b)
  /\ \A i \in 1..Len(DialplanTlv(body)) : b[l + i] = DialplanTlv(body)[i]

\* Wherever it stands its lengths lead to its end.
LEMMA PlanLeadsOn ==
  ASSUME NEW b, NEW l, NEW body, PlanStands(b, l, body)
  PROVE  PlanLeads(b, l + 1, body)
<1>0. /\ b \in Seq(Byte) /\ l \in Nat /\ body \in Seq(Byte) /\ Len(body) <= 65507
      /\ l + Len(DialplanTlv(body)) <= Len(b)
      /\ \A i \in 1..Len(DialplanTlv(body)) : b[l + i] = DialplanTlv(body)[i]
  BY DEF PlanStands
<1> DEFINE d == DialplanTlv(body)
           n == Len(body)
           x == SeqHead(n)
           y == StrHead(n)
           m == 3 + x + 20 + y
<1>1. n \in Nat /\ n <= 65507 /\ Len(b) \in Nat /\ l \in Nat
  BY <1>0
<1>2. d \in Seq(Byte) /\ Len(d) = m + n /\ \A i \in 1..n : d[m + i] = body[i]
  BY <1>0, DialplanAt
<1>3. /\ d[1] = Code_LongForm /\ 256 * d[2] + d[3] + 3 = Len(d)
      /\ n <= 105 => d[5] = 22 + n
      /\ n > 105 => d[5] = 130 /\ 256 * d[6] + d[7] = 20 + y + n
      /\ n <= 127 => d[25 + x] = n
      /\ n > 127 => d[25 + x] = 130 /\ 256 * d[26 + x] + d[27 + x] = n
  BY <1>0, PlanNumbers
<1>4. (n <= 105 => x = 2) /\ (n > 105 => x = 4) /\ (n <= 127 => y = 2) /\ (n > 127 => y = 4)
  BY <1>1 DEF SeqHead, StrHead
<1>5. x \in 2..4 /\ y \in 2..4
  BY <1>1 DEF SeqHead, StrHead
<1>6. l + Len(d) <= Len(b) /\ \A i \in 1..Len(d) : b[l + i] = d[i]
  BY <1>0
<1> DEFINE old == l + 1
           hash == old + WalkStep(b, old)
           oid == old + IF b[old + 4] = 130 THEN 7 ELSE 5
           str == oid + IF b[oid + 21] = 130 THEN 24 ELSE 22
<1> HIDE DEF d, x, y
<1>7. WalkStep(b, old) = Len(d)
  <2>1. Len(d) >= 3
    BY <1>1, <1>2, <1>5
  <2>2. d \in Seq(Byte)
    BY <1>2
  <2>3. Len(d) >= 2
    BY <2>1
  <2>4. d[1] # Code_LongForm => d[2] + 2 = Len(d)
    BY <1>3
  <2>5. d[1] = Code_LongForm => Len(d) >= 3 /\ 256 * d[2] + d[3] + 3 = Len(d)
    BY <1>3, <2>1
  <2> QED BY <1>1, <1>6, <2>2, <2>3, <2>4, <2>5, ReadThere
<1> HIDE DEF n
<1>8. hash = l + 1 + m + n
  BY <1>1, <1>2, <1>5, <1>7
<1>9. \A k \in 1..(m + n) : b[l + k] = d[k]
  BY <1>2, <1>6
<1>10. b[old + 4] = d[5]
  <2>1. m + n >= 27 /\ m + n \in Nat
    BY <1>1, <1>5
  <2>2. old + 4 = l + 5
    BY <1>1
  <2> HIDE DEF m
  <2>3. 5 \in 1..(m + n)
    BY <2>1
  <2> QED BY <1>9, <2>2, <2>3
<1>11. oid = l + 4 + x /\ (b[old + 4] = 130 <=> n > 105)
  <2>1. n <= 105 => d[5] # 130
    BY <1>1, <1>3
  <2>2. CASE n <= 105
    <3>1. oid = old + 5
      BY <1>10, <2>1, <2>2
    <3> QED BY <1>1, <1>4, <1>10, <2>1, <2>2, <3>1
  <2>3. CASE n > 105
    <3>1. oid = old + 7
      BY <1>3, <1>10, <2>3
    <3> QED BY <1>1, <1>3, <1>4, <1>10, <2>3, <3>1
  <2> QED BY <1>1, <2>2, <2>3
<1>12. b[oid + 21] = d[25 + x]
  <2>1. 25 + x \in 1..(m + n)
    BY <1>1, <1>5
  <2> HIDE DEF oid
  <2>2. oid + 21 = l + (25 + x)
    BY <1>1, <1>5, <1>11
  <2> QED BY <1>9, <2>1, <2>2
<1>13. oid + (IF b[old + 4] = 130 THEN 256 * b[old + 5] + b[old + 5 + 1] ELSE b[old + 4]) = hash
  <2>1. CASE n <= 105
    <3>1. b[old + 4] = 22 + n /\ ~(b[old + 4] = 130)
      BY <1>1, <1>3, <1>10, <2>1
    <3> HIDE DEF oid, hash
    <3> QED BY <1>1, <1>4, <1>8, <1>11, <2>1, <3>1
  <2>2. CASE n > 105
    <3>1. b[old + 5] = d[6] /\ b[old + 5 + 1] = d[7]
      <4>1. 6 \in 1..(m + n) /\ 7 \in 1..(m + n)
        BY <1>1, <1>5
      <4>2. old + 5 = l + 6 /\ old + 5 + 1 = l + 7
        BY <1>1
      <4> QED BY <1>9, <4>1, <4>2
    <3>2. b[old + 4] = 130 /\ 256 * b[old + 5] + b[old + 5 + 1] = 20 + y + n
      BY <1>3, <1>10, <2>2, <3>1
    <3> HIDE DEF oid, hash, old
    <3> QED BY <1>1, <1>4, <1>5, <1>8, <1>11, <2>2, <3>2
  <2> QED BY <1>1, <2>1, <2>2
<1>14. str = l + 4 + x + 20 + y /\ (b[oid + 21] = 130 <=> n > 127)
  <2> HIDE DEF oid
  <2>1. CASE n <= 127
    <3>1. b[oid + 21] # 130
      BY <1>1, <1>3, <1>12, <2>1
    <3> QED BY <1>1, <1>4, <1>5, <1>11, <2>1, <3>1
  <2>2. CASE n > 127
    <3>1. b[oid + 21] = 130
      BY <1>3, <1>12, <2>2
    <3> QED BY <1>1, <1>4, <1>5, <1>11, <2>2, <3>1
  <2> QED BY <1>1, <2>1, <2>2
<1>15. str + (IF b[oid + 21] = 130 THEN 256 * b[oid + 22] + b[oid + 22 + 1] ELSE b[oid + 21]) = hash
  <2>1. CASE n <= 127
    <3>1. b[oid + 21] = n /\ ~(b[oid + 21] = 130)
      BY <1>1, <1>3, <1>12, <2>1
    <3> HIDE DEF oid, hash, str
    <3> QED BY <1>1, <1>4, <1>5, <1>8, <1>14, <2>1, <3>1
  <2>2. CASE n > 127
    <3>1. b[oid + 22] = d[26 + x] /\ b[oid + 22 + 1] = d[27 + x]
      <4>1. 26 + x \in 1..(m + n) /\ 27 + x \in 1..(m + n)
        BY <1>1, <1>4, <1>5, <2>2
      <4> HIDE DEF oid
      <4>2. oid + 22 = l + (26 + x) /\ oid + 22 + 1 = l + (27 + x)
        BY <1>1, <1>5, <1>11
      <4> QED BY <1>9, <4>1, <4>2
    <3>2. b[oid + 21] = 130 /\ 256 * b[oid + 22] + b[oid + 22 + 1] = n
      BY <1>3, <1>12, <2>2, <3>1
    <3> HIDE DEF oid, hash, str
    <3> QED BY <1>1, <1>4, <1>5, <1>8, <1>14, <2>2, <3>2
  <2> QED BY <1>1, <2>1, <2>2
<1> HIDE DEF oid, hash, str
<1>16. SubSeq(b, str, hash - 1) = body
  <2> DEFINE c == SubSeq(b, str, hash - 1)
  <2>1. str = l + m + 1 /\ hash - 1 = l + m + n /\ m \in Nat
    BY <1>1, <1>5, <1>8, <1>14
  <2> HIDE DEF m
  <2>2. l + m + n <= Len(b)
    BY <1>1, <1>2, <1>6, <2>1
  <2>3. c = SubSeq(b, l + m + 1, l + m + n)
    BY <2>1, Zenon
  <2>4. \A i \in (l + m + 1)..(l + m + n) : b[i] \in Byte
    <3>1. \A i \in (l + m + 1)..(l + m + n) : i \in 1..Len(b)
      BY <1>1, <2>1, <2>2
    <3> QED BY <1>0, <3>1, ElementOfSeq
  <2>5. c \in Seq(Byte) /\ Len(c) = n /\ \A i \in 1..n : c[i] = b[l + m + i]
    <3>1. l + m + 1 \in Int /\ l + m + n \in Int
      BY <1>1, <2>1
    <3>2. l + m + 1 <= l + m + n + 1
      BY <1>1, <2>1
    <3> DEFINE lo == l + m + 1
               hi == l + m + n
    <3>3. lo \in Int /\ hi \in Int /\ lo <= hi + 1 /\ \A i \in lo..hi : b[i] \in Byte
      BY <2>4, <3>1, <3>2
    <3>4. hi - lo + 1 = n /\ \A i \in 1..n : lo + i - 1 = l + m + i
      BY <1>1, <2>1
    <3>5. c = SubSeq(b, lo, hi)
      BY <2>3, Zenon
    <3> HIDE DEF lo, hi, c
    <3>6. c \in Seq(Byte) /\ Len(c) = (IF lo <= hi THEN hi - lo + 1 ELSE 0)
          /\ \A i \in 1..(hi - lo + 1) : c[i] = b[lo + i - 1]
      BY <3>3, <3>5, SubSeqProperties
    <3>7. Len(c) = n
      BY <1>1, <3>3, <3>4, <3>6
    <3> QED BY <3>4, <3>6, <3>7
  <2>6. \A i \in 1..n : b[l + m + i] = body[i]
    <3>1. \A i \in 1..n : m + i \in 1..(m + n) /\ l + m + i = l + (m + i)
      BY <1>1, <2>1
    <3> QED BY <1>2, <1>9, <3>1
  <2> HIDE DEF c
  <2>7. c = body
    <3>1. \A i \in 1..n : c[i] = body[i]
      BY <2>5, <2>6
    <3>2. c \in Seq(Byte) /\ body \in Seq(Byte) /\ Len(c) = Len(body)
      BY <1>0, <2>5 DEF n
    <3> QED BY <2>5, <3>1, <3>2, SeqEqual
  <2> QED BY <2>7 DEF c
<1>17. hash = old + Len(d)
  BY <1>7 DEF hash
<1> HIDE DEF old
<1> QED BY <1>13, <1>15, <1>16, <1>17 DEF old, hash, oid, str, d, PlanLeads

\* What stands where in an extended file: the settings p, the dial plan d, the
\* hash h and the terminator.
Parted(p, d, h) ==
  /\ Len(p) \in Nat /\ d \in Seq(Byte) /\ h \in Seq(Byte)
  /\ PartsOf(out, p, d, h, MTA_END) /\ Len(MTA_END) = 3

\* A file that is extended has those parts.
LEMMA ExtendedParts ==
  ASSUME opts \in Options, NEW p, p \in Seq(Byte), PlanPart \in Seq(Byte), Lengthened(p)
  PROVE  \E h : /\ Parted(p, PlanPart, h)
                /\ opts.hash = 0 => h = <<>>
                /\ opts.hash # 0 => Len(h) >= 2 /\ h[1] # Code_LongForm /\ h[2] + 2 = Len(h)
<1> DEFINE m == (p \o PlanPart) \o MTA_END
           h == HashPart(m)
<1>1. /\ opts.hash = 0 => h = <<>>
      /\ opts.hash # 0 => Len(h) >= 2 /\ h[1] # Code_LongForm /\ h[2] + 2 = Len(h)
      /\ h \in Seq(Byte)
  <2> HIDE DEF m
  <2>1. CASE opts.hash = 0
    BY <2>1 DEF HashPart
  <2>2. CASE opts.hash # 0
    <3> DEFINE g == HashPrefix \o Sha1(m)
    <3>1. g \in Seq(Byte) /\ Len(g) = (IF opts.hash = 1 THEN 42 ELSE 40)
          /\ g[1] # Code_LongForm /\ g[2] + 2 = Len(g)
      BY <2>2, HashAt
    <3>2. h = g
      BY <2>2 DEF HashPart
    <3> HIDE DEF g, h
    <3>3. Len(g) >= 2
      BY <3>1
    <3>4. h \in Seq(Byte) /\ Len(h) >= 2 /\ h[1] # Code_LongForm /\ h[2] + 2 = Len(h)
      BY <3>1, <3>2, <3>3, Zenon
    <3> QED BY <2>2, <3>4
  <2> QED BY <2>1, <2>2
<1>2. MTA_END \in Seq(Byte)
  BY DEF MTA_END, Byte
<1>3. Len(MTA_END) = 3
  BY DEF MTA_END
<1>4. out = ((p \o PlanPart) \o h) \o MTA_END
  BY DEF Lengthened
<1> HIDE DEF h
<1>5. h \in Seq(Byte)
  BY <1>1
<1> DEFINE d == PlanPart
           b == ((p \o d) \o h) \o MTA_END
<1>6. PartsOf(b, p, d, h, MTA_END)
  <2>1. d \in Seq(Byte) /\ p \in Seq(Byte)
    OBVIOUS
  <2> HIDE DEF d
  <2> QED BY <1>2, <1>5, <2>1, FourParts
<1>7. out = b
  BY <1>4
<1> HIDE DEF b
<1>8. Len(p) \in Nat
  OBVIOUS
<1>9. Parted(p, d, h)
  BY <1>3, <1>5, <1>6, <1>7, <1>8 DEF Parted
<1> QED BY <1>1, <1>9

\* Reading on from the place of the old terminator, the dial plan and the hash
\* each end where the next begins, the nested lengths of the dial plan lead to
\* its end, and the terminator ends the file (add_dialplan, add_mta_hash).
THEOREM ExtensionsLead == Spec => []ExtensionsParse
<1>1. TypeOK /\ TailInv => ExtensionsParse
  <2> SUFFICES ASSUME TypeOK, TailInv PROVE ExtensionsParse
    OBVIOUS
  <2>0. SUFFICES ASSUME stage = "written", Terminated, opts.dialplan => DialplanFits
                 PROVE  ExtensionsParse
    BY DEF ExtensionsParse
  <2>1. opts \in Options
    BY DEF TypeOK
  <2>2. PICK p : Ahead(p) /\ Lengthened(p)
    BY <2>0 DEF TailInv, Terminated, MtaTree
  <2>3. p \in Seq(Byte) /\ PlanPart \in Seq(Byte) /\ spans[Len(spans)].from = Len(p) + 1
    BY <2>0, <2>2 DEF Ahead, TailInv, Terminated, MtaTree
  <2> DEFINE d == PlanPart
  <2>4. PICK h : /\ Parted(p, d, h)
                 /\ opts.hash = 0 => h = <<>>
                 /\ opts.hash # 0 => Len(h) >= 2 /\ h[1] # Code_LongForm /\ h[2] + 2 = Len(h)
    BY <2>1, <2>2, <2>3, ExtendedParts
  <2> DEFINE old  == Len(p) + 1
             hash == IF opts.dialplan THEN old + WalkStep(out, old) ELSE old
             end  == IF opts.hash # 0 THEN hash + WalkStep(out, hash) ELSE hash
  <2>5. opts.dialplan => d = DialplanTlv(dialplanFile) /\ PlanLeads(out, old, dialplanFile)
    <3> SUFFICES ASSUME opts.dialplan
                 PROVE  d = DialplanTlv(dialplanFile) /\ PlanLeads(out, old, dialplanFile)
      OBVIOUS
    <3>1. d = DialplanTlv(dialplanFile)
      BY DEF PlanPart
    <3>2. dialplanFile \in Seq(Byte) /\ Len(dialplanFile) <= 65507
      BY <2>0 DEF DialplanFits, TypeOK
    <3> HIDE DEF d
    <3>3. /\ out \in Seq(Byte) /\ Len(p) \in Nat /\ Len(p) + Len(d) <= Len(out)
          /\ \A i \in 1..Len(d) : out[Len(p) + i] = d[i]
      BY <2>4 DEF Parted, PartsOf
    <3>4. PlanStands(out, Len(p), dialplanFile)
      BY <3>1, <3>2, <3>3 DEF PlanStands
    <3>5. PlanLeads(out, Len(p) + 1, dialplanFile)
      BY <3>4, PlanLeadsOn
    <3> QED BY <3>1, <3>5
  <2>6. hash = Len(p) + Len(d) + 1
    <3>1. CASE opts.dialplan
      BY <2>4, <2>5, <3>1 DEF PlanLeads, Parted
    <3>2. CASE ~opts.dialplan
      <4>1. d = <<>>
        BY <3>2 DEF PlanPart
      <4>2. Len(d) = 0
        BY <4>1
      <4> HIDE DEF d
      <4> QED BY <2>4, <3>2, <4>2 DEF Parted, PartsOf
    <3> QED BY <3>1, <3>2
  <2> HIDE DEF d, hash
  <2>7. end = Len(p) + Len(d) + Len(h) + 1
    <3>1. CASE opts.hash # 0
      <4>1. /\ Len(p) + Len(d) \in Nat /\ h \in Seq(Byte)
            /\ \A i \in 1..Len(h) : out[Len(p) + Len(d) + i] = h[i]
        BY <2>4 DEF Parted, PartsOf
      <4>2. h \in Seq(Byte) /\ Len(p) + Len(d) \in Nat
        BY <4>1
      <4>3. Len(h) >= 2 /\ h[1] # Code_LongForm /\ h[2] + 2 = Len(h)
        BY <2>4, <3>1
      <4>4. WalkStep(out, Len(p) + Len(d) + 1) = Len(h)
        BY <4>1, <4>2, <4>3, ReadThere
      <4>5. Len(p) \in Nat /\ Len(d) \in Nat /\ Len(h) \in Nat
        BY <2>4 DEF Parted, PartsOf
      <4>6. hash = Len(p) + Len(d) + 1
        BY <2>6
      <4>7. WalkStep(out, hash) = Len(h)
        BY <4>4, <4>6
      <4>8. end = hash + Len(h)
        BY <3>1, <4>7
      <4> QED BY <4>5, <4>6, <4>8
    <3>2. CASE opts.hash = 0
      <4>1. h = <<>>
        BY <2>4, <3>2
      <4>2. Len(h) = 0
        BY <4>1
      <4> QED BY <2>4, <2>6, <3>2, <4>2 DEF Parted, PartsOf
    <3> QED BY <3>1, <3>2
  <2> HIDE DEF end
  <2>8. end + 2 = Len(out) /\ SubSeq(out, end, end + 2) = MTA_END
    <3>1. /\ Len(out) = Len(p) + Len(d) + Len(h) + 3
          /\ Len(p) \in Nat /\ Len(d) \in Nat /\ Len(h) \in Nat
      BY <2>4 DEF Parted, PartsOf
    <3>2. end + 2 = Len(out)
      BY <2>7, <3>1
    <3>3. SubSeq(out, end, Len(out)) = MTA_END
      BY <2>4, <2>7 DEF Parted, PartsOf
    <3> QED BY <3>2, <3>3
  <2>9. spans[Len(spans)].from = old
    BY <2>3
  <2> HIDE DEF old
  <2>10. opts.dialplan => hash = old + WalkStep(out, old)
    BY DEF hash
  <2> QED BY <2>5, <2>8, <2>9, <2>10 DEF ExtensionsParse, PlanLeads, end, hash
<1> QED BY <1>1, TailKept, PTL


-----------------------------------------------------------------------------
(* The tree's own encoding.  It is defined by recursion over settings, and *)
(* so there is one only because settings end somewhere (Graded).           *)

\* What the encoding of t is, if f encodes the settings in it.
Step(f, t) ==
  LET body == IF t.block THEN FlattenSeq([i \in DOMAIN t.children |-> f[t.children[i]]]) ELSE t.value
      n == Len(body)
  IN IF n <= 255 THEN <<t.code, n>> \o body
     ELSE IF ~t.block /\ t.code = Code_SnmpMibObject THEN <<Code_LongForm>> \o BE16(n) \o body
     ELSE <<>>
Encodes(f, S) == f = [t \in S |-> Step(f, t)]
Upto(depth, n) == {t \in Tlvs : depth[t] < n}

\* Only the settings inside of t matter.
LEMMA StepInside ==
  ASSUME NEW t, NEW f, NEW g, \A i \in DOMAIN t.children : f[t.children[i]] = g[t.children[i]]
  PROVE  Step(f, t) = Step(g, t)
<1>1. [i \in DOMAIN t.children |-> f[t.children[i]]] = [i \in DOMAIN t.children |-> g[t.children[i]]]
  OBVIOUS
<1> QED BY <1>1, Zenon DEF Step

\* Children are settings of a lower depth.
LEMMA Inside ==
  ASSUME NEW depth, Graded(depth), NEW t \in Tlvs, NEW i \in DOMAIN t.children
  PROVE  /\ t.children[i] \in Tlvs /\ depth[t.children[i]] \in Nat /\ depth[t] \in Nat
         /\ depth[t.children[i]] < depth[t]
<1>1. t.children \in Seq(Tlvs)
  BY TlvsAssumption
<1>2. t.children[i] \in Tlvs
  BY <1>1
<1> QED BY <1>2 DEF Graded

\* Two ways to encode settings agree on those that both encode.
LEMMA EncodesAgree ==
  ASSUME NEW depth, Graded(depth), NEW m \in Nat, NEW n \in Nat, NEW f, NEW g,
         Encodes(f, Upto(depth, m)), Encodes(g, Upto(depth, n))
  PROVE  \A t \in Upto(depth, m) \cap Upto(depth, n) : f[t] = g[t]
<1> DEFINE S == Upto(depth, m) \cap Upto(depth, n)
           T == {depth[t] : t \in {x \in S : f[x] # g[x]}}
<1>1. SUFFICES ASSUME T # {} PROVE FALSE
  OBVIOUS
<1>2. PICK k \in T : \A y \in T : k <= y
  <2>1. T \subseteq Nat
    BY DEF Upto, Graded
  <2> HIDE DEF T
  <2> QED BY <1>1, <2>1, LeastNat
<1>3. PICK t \in S : f[t] # g[t] /\ k = depth[t]
  OBVIOUS
<1>4. t \in Tlvs /\ depth[t] < m /\ depth[t] < n
  BY <1>3 DEF Upto
<1>5. \A i \in DOMAIN t.children : f[t.children[i]] = g[t.children[i]]
  <2> SUFFICES ASSUME NEW i \in DOMAIN t.children, f[t.children[i]] # g[t.children[i]] PROVE FALSE
    OBVIOUS
  <2> DEFINE c == t.children[i]
  <2>1. c \in Tlvs /\ depth[c] \in Nat /\ depth[t] \in Nat /\ depth[c] < depth[t]
    BY <1>4, Inside
  <2> HIDE DEF c
  <2>2. c \in S
    BY <1>4, <2>1 DEF Upto
  <2>3. depth[c] \in T
    BY <2>2 DEF c
  <2> HIDE DEF T
  <2>4. depth[t] <= depth[c]
    BY <1>2, <1>3, <2>3
  <2> QED BY <2>1, <2>4
<1>6. f[t] = Step(f, t) /\ g[t] = Step(g, t)
  BY <1>3 DEF Encodes
<1>7. Step(f, t) = Step(g, t)
  BY <1>5, StepInside
<1> QED BY <1>3, <1>6, <1>7

\* Settings of bounded depth can be encoded.
LEMMA UptoEncodes ==
  ASSUME NEW depth, Graded(depth), NEW n \in Nat
  PROVE  \E f : Encodes(f, Upto(depth, n))
<1> DEFINE T == {k \in Nat : ~ \E f : Encodes(f, Upto(depth, k))}
<1>1. SUFFICES ASSUME T # {} PROVE FALSE
  OBVIOUS
<1>2. PICK k \in T : \A y \in T : k <= y
  <2>1. T \subseteq Nat
    OBVIOUS
  <2> HIDE DEF T
  <2> QED BY <1>1, <2>1, LeastNat
<1>3. k \in Nat /\ ~ \E f : Encodes(f, Upto(depth, k))
  OBVIOUS
<1>4. CASE k = 0
  <2>1. Upto(depth, k) = {}
    BY <1>4 DEF Upto, Graded
  <2>2. Encodes([t \in {} |-> t], {})
    BY DEF Encodes
  <2> QED BY <1>3, <2>1, <2>2
<1>5. CASE k # 0
  <2>1. k - 1 \in Nat /\ ~(k <= k - 1)
    BY <1>3, <1>5
  <2>2. PICK f : Encodes(f, Upto(depth, k - 1))
    BY <1>2, <2>1
  <2> DEFINE g == [t \in Upto(depth, k) |-> Step(f, t)]
  <2>3. ASSUME NEW t \in Upto(depth, k) PROVE Step(f, t) = Step(g, t)
    <3>1. \A i \in DOMAIN t.children : f[t.children[i]] = g[t.children[i]]
      <4> SUFFICES ASSUME NEW i \in DOMAIN t.children PROVE f[t.children[i]] = g[t.children[i]]
        OBVIOUS
      <4> DEFINE c == t.children[i]
      <4>1. t \in Tlvs /\ depth[t] < k
        BY DEF Upto
      <4>2. c \in Tlvs /\ depth[c] \in Nat /\ depth[t] \in Nat /\ depth[c] < depth[t]
        BY <4>1, Inside
      <4> HIDE DEF c
      <4>3. depth[c] < k - 1 /\ depth[c] < k
        BY <1>3, <4>1, <4>2
      <4>4. c \in Upto(depth, k - 1) /\ c \in Upto(depth, k)
        BY <4>2, <4>3 DEF Upto
      <4>5. f[c] = Step(f, c)
        BY <2>2, <4>4 DEF Encodes
      <4> QED BY <4>4, <4>5 DEF c
    <3> HIDE DEF g
    <3> QED BY <3>1, StepInside
  <2>4. Encodes(g, Upto(depth, k))
    <3>1. g = [t \in Upto(depth, k) |-> Step(g, t)]
      <4> HIDE DEF g
      <4>1. g = [t \in Upto(depth, k) |-> Step(f, t)]
        BY DEF g
      <4> QED BY <2>3, <4>1
    <3> HIDE DEF g
    <3> QED BY <3>1 DEF Encodes
  <2> QED BY <1>3, <2>4
<1> QED BY <1>4, <1>5

\* There is the encoding.
LEMMA EncodingExists ==
  ASSUME NEW depth, Graded(depth)
  PROVE  \E f : Encodes(f, Tlvs)
<1> DEFINE F(t) == CHOOSE f : Encodes(f, Upto(depth, depth[t] + 1))
           e == [t \in Tlvs |-> F(t)[t]]
<1>1. ASSUME NEW t \in Tlvs
      PROVE  /\ depth[t] \in Nat /\ depth[t] + 1 \in Nat
             /\ Encodes(F(t), Upto(depth, depth[t] + 1)) /\ t \in Upto(depth, depth[t] + 1)
  <2>1. depth[t] \in Nat /\ depth[t] + 1 \in Nat /\ depth[t] < depth[t] + 1
    BY DEF Graded
  <2>2. \E f : Encodes(f, Upto(depth, depth[t] + 1))
    BY <2>1, UptoEncodes
  <2> QED BY <2>1, <2>2 DEF Upto
<1> HIDE DEF F
<1>2. ASSUME NEW t \in Tlvs PROVE e[t] = Step(e, t)
  <2>1. \A i \in DOMAIN t.children : F(t)[t.children[i]] = e[t.children[i]]
    <3> SUFFICES ASSUME NEW i \in DOMAIN t.children PROVE F(t)[t.children[i]] = e[t.children[i]]
      OBVIOUS
    <3> DEFINE c == t.children[i]
    <3>1. c \in Tlvs /\ depth[c] \in Nat /\ depth[t] \in Nat /\ depth[c] < depth[t]
      BY Inside
    <3> HIDE DEF c
    <3>2. c \in Upto(depth, depth[t] + 1) \cap Upto(depth, depth[c] + 1)
      BY <3>1 DEF Upto
    <3>3. /\ Encodes(F(t), Upto(depth, depth[t] + 1)) /\ Encodes(F(c), Upto(depth, depth[c] + 1))
          /\ depth[t] + 1 \in Nat /\ depth[c] + 1 \in Nat
      BY <1>1, <3>1
    <3>4. F(t)[c] = F(c)[c]
      BY <3>2, <3>3, EncodesAgree
    <3> QED BY <3>1, <3>4 DEF c
  <2> HIDE DEF e
  <2>2. Step(F(t), t) = Step(e, t)
    BY <2>1, StepInside
  <2>3. F(t)[t] = Step(F(t), t)
    BY <1>1 DEF Encodes
  <2> QED BY <2>2, <2>3 DEF e
<1>3. e = [t \in Tlvs |-> e[t]]
  OBVIOUS
<1> HIDE DEF e
<1>4. Encodes(e, Tlvs)
  BY <1>2, <1>3 DEF Encodes
<1> QED BY <1>4

\* And it is what its definition says.
LEMMA EncodingIs ==
  ASSUME NEW depth, Graded(depth), NEW t \in Tlvs
  PROVE  Encoding[t] = Step(Encoding, t)
<1>1. Encoding = CHOOSE f : Encodes(f, Tlvs)
  BY DEF Encoding, Encodes, Step
<1>2. Encodes(Encoding, Tlvs)
  BY <1>1, EncodingExists
<1> QED BY <1>2 DEF Encodes

\* The encodings of settings, one behind the other.
Part(ts) == FlattenSeq([i \in DOMAIN ts |-> Encoding[ts[i]]])

\* A block around some bytes; a value too long for it is left out.
Wrapped(c, b) == IF Len(b) <= 255 THEN <<c, Len(b)>> \o b ELSE <<>>

\* A header of two bytes, or of three, and what it is of.
LEMMA HeadedTyped ==
  ASSUME NEW c \in Byte, NEW b \in Seq(Byte)
  PROVE  Wrapped(c, b) \in Seq(Byte) /\ <<Code_LongForm>> \o BE16(Len(b)) \o b \in Seq(Byte)
<1>1. Len(b) <= 255 => <<c, Len(b)>> \o b \in Seq(Byte)
  BY HeaderTyped
<1>2. <<Code_LongForm>> \o BE16(Len(b)) \o b \in Seq(Byte)
  BY LongTyped
<1> QED BY <1>1, <1>2 DEF Wrapped

\* The encoding of a setting is bytes.
LEMMA EncodingTyped ==
  ASSUME NEW depth, Graded(depth)
  PROVE  \A t \in Tlvs : Encoding[t] \in Seq(Byte)
<1> DEFINE T == {depth[t] : t \in {x \in Tlvs : Encoding[x] \notin Seq(Byte)}}
<1>1. SUFFICES ASSUME T # {} PROVE FALSE
  OBVIOUS
<1>2. PICK k \in T : \A y \in T : k <= y
  <2>1. T \subseteq Nat
    BY DEF Graded
  <2> HIDE DEF T
  <2> QED BY <1>1, <2>1, LeastNat
<1>3. PICK t \in Tlvs : Encoding[t] \notin Seq(Byte) /\ k = depth[t]
  OBVIOUS
<1>4. ASSUME NEW i \in DOMAIN t.children PROVE Encoding[t.children[i]] \in Seq(Byte)
  <2> DEFINE c == t.children[i]
  <2>1. c \in Tlvs /\ depth[c] \in Nat /\ depth[t] \in Nat /\ depth[c] < depth[t]
    BY <1>3, Inside
  <2> HIDE DEF c
  <2>2. Encoding[c] \notin Seq(Byte) => depth[c] \in T
    BY <2>1
  <2> HIDE DEF T
  <2> QED BY <1>2, <1>3, <2>1, <2>2 DEF c
<1> HIDE DEF T
<1>5. t.children \in Seq(Tlvs) /\ t.value \in Seq(Byte) /\ t.code \in Byte
  BY <1>3, TlvsAssumption
<1> DEFINE b == IF t.block THEN FlattenSeq([i \in DOMAIN t.children |-> Encoding[t.children[i]]]) ELSE t.value
<1>6. b \in Seq(Byte)
  <2>1. [i \in DOMAIN t.children |-> Encoding[t.children[i]]] \in Seq(Seq(Byte))
    <3>1. DOMAIN t.children = 1..Len(t.children) /\ Len(t.children) \in Nat
      BY <1>5
    <3> DEFINE F == [i \in 1..Len(t.children) |-> Encoding[t.children[i]]]
    <3>2. \A i \in 1..Len(t.children) : Encoding[t.children[i]] \in Seq(Byte)
      BY <1>4, <3>1
    <3>3. F \in [1..Len(t.children) -> Seq(Byte)]
      BY <3>2
    <3> HIDE DEF F
    <3>4. F \in Seq(Seq(Byte))
      BY <3>1, <3>3, FixedSeq
    <3> QED BY <3>1, <3>4 DEF F
  <2> QED BY <1>5, <2>1, FlattenTypedSeq
<1>7. Encoding[t] = IF Len(b) <= 255 THEN <<t.code, Len(b)>> \o b
                    ELSE IF ~t.block /\ t.code = Code_SnmpMibObject THEN <<Code_LongForm>> \o BE16(Len(b)) \o b
                    ELSE <<>>
  BY <1>3, EncodingIs DEF Step
<1> HIDE DEF b
<1>8. /\ Len(b) <= 255 => <<t.code, Len(b)>> \o b \in Seq(Byte)
      /\ <<Code_LongForm>> \o BE16(Len(b)) \o b \in Seq(Byte)
  BY <1>5, <1>6, HeadedTyped DEF Wrapped
<1> QED BY <1>3, <1>7, <1>8

-----------------------------------------------------------------------------
(* What is written and what is left to write are the body at every point.  *)

\* The encodings of some settings are bytes, those of the first and of the others.
LEMMA PartCons ==
  ASSUME NEW depth, Graded(depth), NEW ts \in Seq(Tlvs)
  PROVE  /\ Part(ts) \in Seq(Byte)
         /\ ts = <<>> => Part(ts) = <<>>
         /\ ts # <<>> => Part(ts) = Encoding[Head(ts)] \o Part(Tail(ts))
<1> DEFINE E(ss) == [i \in DOMAIN ss |-> Encoding[ss[i]]]
<1>1. ASSUME NEW ss \in Seq(Tlvs)
      PROVE  E(ss) \in Seq(Seq(Byte)) /\ Len(E(ss)) = Len(ss) /\ \A i \in 1..Len(ss) : E(ss)[i] = Encoding[ss[i]]
  <2>1. DOMAIN ss = 1..Len(ss) /\ Len(ss) \in Nat /\ \A i \in 1..Len(ss) : ss[i] \in Tlvs
    OBVIOUS
  <2> DEFINE F == [i \in 1..Len(ss) |-> Encoding[ss[i]]]
  <2>2. F \in [1..Len(ss) -> Seq(Byte)]
    BY <2>1, EncodingTyped
  <2>3. \A i \in 1..Len(ss) : F[i] = Encoding[ss[i]]
    OBVIOUS
  <2>4. E(ss) = F
    BY <2>1
  <2> HIDE DEF F, E
  <2>5. F \in Seq(Seq(Byte)) /\ Len(F) = Len(ss)
    BY <2>1, <2>2, FixedSeq
  <2> QED BY <2>3, <2>4, <2>5
<1>2. E(ts) \in Seq(Seq(Byte))
  BY <1>1
<1>3. Part(ts) = FlattenSeq(E(ts)) /\ Part(Tail(ts)) = FlattenSeq(E(Tail(ts)))
  BY DEF Part
<1>4. ts = <<>> => E(ts) = <<>>
  OBVIOUS
<1> HIDE DEF E
<1>5. Part(ts) \in Seq(Byte)
  BY <1>2, <1>3, FlattenTypedSeq
<1>6. ASSUME ts = <<>> PROVE Part(ts) = <<>>
  <2>1. FlattenSeq(<<>>) = <<>>
    BY DEF FlattenSeq
  <2> QED BY <1>3, <1>4, <1>6, <2>1
<1>7. ASSUME ts # <<>> PROVE Part(ts) = Encoding[Head(ts)] \o Part(Tail(ts))
  <2> DEFINE h == Head(ts)
             r == Tail(ts)
  <2>1. h \in Tlvs /\ r \in Seq(Tlvs) /\ Len(ts) = Len(r) + 1 /\ h = ts[1] /\ \A i \in 1..Len(r) : r[i] = ts[i + 1]
    BY <1>7
  <2> HIDE DEF h, r
  <2> DEFINE a == E(ts)
             b == E(r)
             e == Encoding[h]
  <2>2. a \in Seq(Seq(Byte)) /\ Len(a) = Len(ts) /\ \A i \in 1..Len(ts) : a[i] = Encoding[ts[i]]
    BY <1>1
  <2>3. b \in Seq(Seq(Byte)) /\ Len(b) = Len(r) /\ \A i \in 1..Len(r) : b[i] = Encoding[r[i]]
    BY <1>1, <2>1
  <2>4. e \in Seq(Byte)
    BY <2>1, EncodingTyped
  <2>5. Len(a) = Len(b) + 1 /\ a[1] = e /\ \A i \in 1..Len(b) : a[i + 1] = b[i]
    <3>1. Len(r) \in Nat /\ 1 \in 1..Len(ts) /\ \A i \in 1..Len(r) : i + 1 \in 1..Len(ts)
      BY <2>1
    <3> HIDE DEF a, b
    <3> QED BY <2>1, <2>2, <2>3, <3>1
  <2> HIDE DEF a, b, e
  <2>6. a = <<e>> \o b
    <3> DEFINE c == <<e>> \o b
    <3>1. c \in Seq(Seq(Byte)) /\ Len(c) = Len(b) + 1 /\ c[1] = e /\ \A i \in 1..Len(b) : c[i + 1] = b[i]
      BY <2>3, <2>4
    <3> HIDE DEF c
    <3>2. \A i \in 1..Len(a) : a[i] = c[i]
      <4>1. Len(b) \in Nat
        BY <2>3
      <4>2. \A i \in 1..Len(a) : i = 1 \/ (i - 1 \in 1..Len(b) /\ (i - 1) + 1 = i)
        BY <2>5, <4>1
      <4> QED BY <2>5, <3>1, <4>2
    <3> QED BY <2>2, <2>5, <3>1, <3>2, SeqEqual DEF c
  <2>7. FlattenSeq(<<e>> \o b) = e \o FlattenSeq(b)
    BY <2>3, <2>4, FlattenCons
  <2> QED BY <1>3, <2>6, <2>7 DEF a, b, e, h, r
<1> QED BY <1>5, <1>6, <1>7

\* What each call of flatten will have returned once all settings are dealt with:
\* R[0] the running one, R[k] the k-th that is suspended, the last of them the whole.
Results(R) ==
  /\ R \in [0..Len(stack) -> Seq(Byte)]
  /\ R[0] = out \o Part(todo)
  /\ \A k \in 1..Len(stack) : R[k] = (stack[k].out \o Wrapped(stack[k].code, R[k - 1])) \o Part(stack[k].todo)
  /\ R[Len(stack)] = Body

\* A setting that is written or left out by the running call.
LEMMA SameResults ==
  ASSUME TypeOK, NEW R, Results(R), out' \o Part(todo') = out \o Part(todo), stack' = stack, tree' = tree
  PROVE  Results(R)'
<1>1. Body' = Body
  BY DEF Body
<1> QED BY <1>1 DEF Results

\* Three parts one behind the other.
LEMMA Associates ==
  ASSUME NEW a \in Seq(Byte), NEW b \in Seq(Byte), NEW c \in Seq(Byte)
  PROVE  (a \o b) \o c = a \o (b \o c)
  BY ConcatAssociative

\* Nothing in front, and nothing behind.
LEMMA NothingAround ==
  ASSUME NEW a \in Seq(Byte)
  PROVE  <<>> \o a = a /\ a \o <<>> = a
  OBVIOUS

\* The encoding of a setting that is no block, and of a block.
LEMMA EncodingOf ==
  ASSUME NEW depth, Graded(depth), NEW t \in Tlvs
  PROVE  /\ t.block => Encoding[t] = Wrapped(t.code, Part(t.children))
         /\ ~t.block /\ Len(t.value) <= 255 => Encoding[t] = <<t.code, Len(t.value)>> \o t.value
         /\ ~t.block /\ ~(Len(t.value) <= 255) /\ t.code = Code_SnmpMibObject
              => Encoding[t] = <<Code_LongForm>> \o BE16(Len(t.value)) \o t.value
         /\ ~t.block /\ ~(Len(t.value) <= 255) /\ t.code # Code_SnmpMibObject => Encoding[t] = <<>>
<1>1. Encoding[t] = Step(Encoding, t)
  BY EncodingIs
<1>2. t.block => Step(Encoding, t) = Wrapped(t.code, Part(t.children))
  BY Zenon DEF Step, Wrapped, Part
<1>3. ~t.block => Step(Encoding, t) = IF Len(t.value) <= 255 THEN <<t.code, Len(t.value)>> \o t.value
                                      ELSE IF t.code = Code_SnmpMibObject
                                      THEN <<Code_LongForm>> \o BE16(Len(t.value)) \o t.value ELSE <<>>
  BY Zenon DEF Step
<1> QED BY <1>1, <1>2, <1>3, Zenon

\* Each leaf is dealt with as its encoding says.
LEMMA LeafShapes ==
  ASSUME NEW depth, Graded(depth), TypeOK, NEW R, Results(R), WriteLeaf \/ WriteLongMib \/ DropLeaf
  PROVE  Results(R)'
<1> DEFINE t == Head(todo)
           r == Tail(todo)
           e == Encoding[t]
<1>1. todo \in Seq(Tlvs) /\ out \in Seq(Byte) /\ todo # <<>>
  BY DEF TypeOK, WriteLeaf, WriteLongMib, DropLeaf, Flattening
<1>2. t \in Tlvs /\ r \in Seq(Tlvs)
  BY <1>1, TailTyped
<1>3. /\ ~t.block /\ todo' = r /\ stack' = stack /\ tree' = tree
      /\ \/ Len(t.value) <= 255 /\ out' = out \o (<<t.code, Len(t.value)>> \o t.value)
         \/ ~(Len(t.value) <= 255) /\ t.code = Code_SnmpMibObject
              /\ out' = out \o (<<Code_LongForm>> \o BE16(Len(t.value)) \o t.value)
         \/ ~(Len(t.value) <= 255) /\ t.code # Code_SnmpMibObject /\ out' = out
  BY DEF WriteLeaf, WriteLongMib, DropLeaf, Emit, Fits, input
<1>4. e \in Seq(Byte) /\ Part(r) \in Seq(Byte) /\ Part(todo) = e \o Part(r)
  BY <1>1, <1>2, EncodingTyped, PartCons
<1>5. out' = out \o e
  <2>1. out = out \o <<>>
    BY <1>1
  <2> QED BY <1>2, <1>3, <2>1, EncodingOf, Zenon
<1> HIDE DEF t, r, e
<1>6. out' \o Part(todo') = out \o Part(todo)
  <2>1. (out \o e) \o Part(r) = out \o (e \o Part(r))
    BY <1>1, <1>4, Associates
  <2>2. todo' = r
    BY <1>3 DEF r
  <2>3. Part(todo') = Part(r)
    BY <2>2
  <2> QED BY <1>4, <1>5, <2>1, <2>3
<1> QED BY <1>3, <1>6, SameResults

\* A call more: it will return the block's content, and its caller goes on with it.
LEMMA EnterShapes ==
  ASSUME NEW depth, Graded(depth), TypeOK, NEW R, Results(R), EnterBlock
  PROVE  \E Q : Results(Q)'
<1> DEFINE t == Head(todo)
           r == Tail(todo)
           n == Len(stack)
           f == [code |-> t.code, todo |-> r, out |-> out, spans |-> spans]
           D == [k \in 0..(n + 1) |-> IF k = 0 THEN Part(t.children) ELSE R[k - 1]]
<1>1. /\ todo \in Seq(Tlvs) /\ out \in Seq(Byte) /\ todo # <<>> /\ stack \in Seq(Frame)
      /\ n \in Nat /\ R \in [0..n -> Seq(Byte)]
  BY DEF TypeOK, EnterBlock, Flattening, Results
<1>2. t \in Tlvs /\ r \in Seq(Tlvs)
  BY <1>1, TailTyped
<1>3. t.block /\ todo' = t.children /\ out' = <<>> /\ stack' = <<f>> \o stack /\ tree' = tree
  BY DEF EnterBlock, input
<1>4. t.children \in Seq(Tlvs) /\ t.code \in Byte
  BY <1>2, TlvsAssumption
<1>5. f \in Frame /\ f.code = t.code /\ f.out = out /\ f.todo = r
  <2>1. spans \in Seq(Span)
    BY DEF TypeOK
  <2> QED BY <1>1, <1>2, <1>4, <2>1 DEF Frame
<1>6. /\ Part(t.children) \in Seq(Byte) /\ Part(r) \in Seq(Byte)
      /\ Part(todo) = Encoding[t] \o Part(r) /\ Encoding[t] \in Seq(Byte)
      /\ Encoding[t] = Wrapped(t.code, Part(t.children))
  BY <1>1, <1>2, <1>3, <1>4, PartCons, EncodingOf, EncodingTyped
<1> HIDE DEF t, r, f, n
<1>7. /\ Len(stack') = n + 1 /\ stack'[1] = f /\ \A k \in 1..n : stack'[k + 1] = stack[k]
  BY <1>1, <1>3, <1>5 DEF n
<1>8. PICK Q : Q = D
  OBVIOUS
<1>9. /\ Q \in [0..(n + 1) -> Seq(Byte)] /\ Q[0] = Part(t.children) /\ \A k \in 1..(n + 1) : Q[k] = R[k - 1]
  BY <1>1, <1>6, <1>8
<1> HIDE DEF D
<1>10. Q[0] = out' \o Part(todo')
  BY <1>3, <1>6, <1>9, NothingAround
<1>11. Q[1] = (f.out \o Wrapped(f.code, Q[0])) \o Part(f.todo)
  <2>1. Q[1] = R[0] /\ R[0] = out \o Part(todo)
    <3>1. 1 \in 1..(n + 1) /\ 1 - 1 = 0
      BY <1>1
    <3> QED BY <1>9, <3>1 DEF Results
  <2>2. (out \o Encoding[t]) \o Part(r) = out \o (Encoding[t] \o Part(r))
    BY <1>1, <1>6, Associates
  <2>3. Wrapped(f.code, Q[0]) = Encoding[t]
    BY <1>5, <1>6, <1>9
  <2> QED BY <1>5, <1>6, <2>1, <2>2, <2>3
<1>12. ASSUME NEW k \in 1..(n + 1)
       PROVE  Q[k] = (stack'[k].out \o Wrapped(stack'[k].code, Q[k - 1])) \o Part(stack'[k].todo)
  <2>1. CASE k = 1
    <3>1. k - 1 = 0
      BY <2>1
    <3> QED BY <1>7, <1>11, <2>1, <3>1
  <2>2. CASE k # 1
    <3>1. k - 1 \in 1..n /\ (k - 1) + 1 = k /\ k - 1 \in 1..(n + 1)
      BY <1>1, <2>2
    <3> DEFINE j == k - 1
    <3>2. R[j] = (stack[j].out \o Wrapped(stack[j].code, R[j - 1])) \o Part(stack[j].todo)
      BY <3>1 DEF Results, n
    <3>3. stack'[k] = stack[j]
      BY <1>7, <3>1
    <3>4. Q[k] = R[j] /\ Q[j] = R[j - 1]
      BY <1>9, <3>1
    <3> QED BY <3>2, <3>3, <3>4
  <2> QED BY <2>1, <2>2
<1>13. Q[n + 1] = Body'
  <2>1. Body' = Body
    BY <1>3 DEF Body
  <2>2. n + 1 \in 1..(n + 1) /\ (n + 1) - 1 = n
    BY <1>1
  <2> QED BY <1>9, <2>1, <2>2 DEF Results, n
<1>14. Results(Q)'
  BY <1>7, <1>9, <1>10, <1>12, <1>13 DEF Results
<1> QED BY <1>14

\* A block that returns is written, or left out, as its encoding says.
LEMMA ReturnShapes ==
  ASSUME NEW depth, Graded(depth), TypeOK, NEW R, Results(R), WriteBlock \/ DropBlock
  PROVE  \E Q : Results(Q)'
<1> DEFINE n == Len(stack)
           f == stack[1]
           D == [k \in 0..(n - 1) |-> R[k + 1]]
<1>1. /\ out \in Seq(Byte) /\ todo = <<>> /\ stack \in Seq(Frame) /\ stack # <<>>
      /\ n \in Nat \ {0} /\ R \in [0..n -> Seq(Byte)]
  <2>1. out \in Seq(Byte) /\ todo = <<>> /\ stack \in Seq(Frame) /\ stack # <<>>
    BY DEF TypeOK, WriteBlock, DropBlock, Returning
  <2>2. Len(stack) \in Nat \ {0}
    BY <2>1
  <2> QED BY <2>1, <2>2 DEF Results
<1>2. /\ f \in Frame /\ f.code \in Byte /\ f.out \in Seq(Byte) /\ f.todo \in Seq(Tlvs) /\ Head(stack) = f
  <2>1. Head(stack) = stack[1] /\ stack[1] \in Frame
    BY <1>1
  <2> QED BY <2>1 DEF Frame
<1>3. /\ todo' = f.todo /\ stack' = Tail(stack) /\ tree' = tree
      /\ \/ Len(out) <= 255 /\ out' = f.out \o (<<f.code, Len(out)>> \o out)
         \/ ~(Len(out) <= 255) /\ out' = f.out
  BY <1>2 DEF WriteBlock, DropBlock, Emit, Fits, input
<1> HIDE DEF f
<1>4. out' = f.out \o Wrapped(f.code, out)
  <2>1. f.out = f.out \o <<>>
    BY <1>2
  <2> QED BY <1>3, <2>1, Zenon DEF Wrapped
<1> HIDE DEF n
<1>5. Len(stack') = n - 1 /\ \A k \in 1..(n - 1) : stack'[k] = stack[k + 1]
  BY <1>1, <1>3 DEF n
<1>6. PICK Q : Q = D
  OBVIOUS
<1>7. /\ Q \in [0..(n - 1) -> Seq(Byte)] /\ \A k \in 0..(n - 1) : Q[k] = R[k + 1]
  BY <1>1, <1>6
<1> HIDE DEF D
<1>8. Q[0] = out' \o Part(todo')
  <2>1. 0 \in 0..(n - 1) /\ 0 + 1 = 1 /\ 1 \in 1..n /\ 1 - 1 = 0
    BY <1>1
  <2>2. R[0] = out \o Part(todo) /\ R[1] = (stack[1].out \o Wrapped(stack[1].code, R[1 - 1])) \o Part(stack[1].todo)
    BY <2>1 DEF Results, n
  <2>3. R[0] = out
    <3>1. Part(<<>>) = <<>>
      <4>1. <<>> \in Seq(Tlvs)
        OBVIOUS
      <4> QED BY <4>1, PartCons
    <3>2. out \o <<>> = out
      BY <1>1
    <3> QED BY <1>1, <2>2, <3>1, <3>2
  <2>4. Q[0] = R[1]
    BY <1>7, <2>1
  <2>5. R[1] = (f.out \o Wrapped(f.code, out)) \o Part(f.todo)
    BY <2>1, <2>2, <2>3 DEF f
  <2> QED BY <1>3, <1>4, <2>4, <2>5
<1>9. ASSUME NEW k \in 1..(n - 1)
      PROVE  Q[k] = (stack'[k].out \o Wrapped(stack'[k].code, Q[k - 1])) \o Part(stack'[k].todo)
  <2> DEFINE j == k + 1
  <2>1. j \in 1..n /\ j - 1 = k /\ k - 1 \in 0..(n - 1) /\ k \in 0..(n - 1) /\ (k - 1) + 1 = k
    BY <1>1
  <2>2. R[j] = (stack[j].out \o Wrapped(stack[j].code, R[j - 1])) \o Part(stack[j].todo)
    BY <2>1 DEF Results, n
  <2>3. Q[k] = R[j] /\ Q[k - 1] = R[k]
    BY <1>7, <2>1
  <2>4. stack'[k] = stack[j]
    BY <1>5
  <2> QED BY <2>1, <2>2, <2>3, <2>4
<1>10. Q[n - 1] = Body'
  <2>1. Body' = Body
    BY <1>3 DEF Body
  <2>2. n - 1 \in 0..(n - 1) /\ (n - 1) + 1 = n
    BY <1>1
  <2> QED BY <1>7, <2>1, <2>2 DEF Results, n
<1>11. Results(Q)'
  BY <1>5, <1>7, <1>8, <1>9, <1>10 DEF Results
<1> QED BY <1>11

-----------------------------------------------------------------------------
(* What the seals and the extensions make of the body.                     *)

\* A prefix, element by element.
LEMMA PrefixAt ==
  ASSUME NEW s \in Seq(Byte), NEW t \in Seq(Byte)
  PROVE  IsPrefix(s, t) <=> Len(s) <= Len(t) /\ \A i \in 1..Len(s) : s[i] = t[i]
<1>1. Len(s) \in Nat /\ Len(t) \in Nat /\ SubSeq(s, 1, Len(s)) = s
  OBVIOUS
<1>2. ASSUME Len(s) <= Len(t)
      PROVE  s = SubSeq(t, 1, Len(s)) <=> \A i \in 1..Len(s) : s[i] = t[i]
  <2> DEFINE u == SubSeq(t, 1, Len(s))
  <2>1. u \in Seq(Byte) /\ Len(u) = Len(s) /\ \A i \in 1..Len(s) : u[i] = t[i]
    BY <1>1, <1>2, FirstOf
  <2> HIDE DEF u
  <2>2. s = u => \A i \in 1..Len(s) : s[i] = t[i]
    BY <2>1
  <2>3. (\A i \in 1..Len(s) : s[i] = t[i]) => s = u
    <3> SUFFICES ASSUME \A i \in 1..Len(s) : s[i] = t[i] PROVE s = u
      OBVIOUS
    <3>1. \A i \in 1..Len(s) : s[i] = u[i]
      BY <2>1
    <3> QED BY <2>1, <3>1, SeqEqual
  <2> QED BY <2>2, <2>3 DEF u
<1> QED BY <1>1, <1>2 DEF IsPrefix

\* Three bytes cut off.
LEMMA CutAt ==
  ASSUME NEW b \in Seq(Byte)
  PROVE  /\ Cut(b, 3) \in Seq(Byte) /\ Len(b) \in Nat
         /\ Len(Cut(b, 3)) = IF Len(b) >= 3 THEN Len(b) - 3 ELSE 0
         /\ \A i \in 1..Len(Cut(b, 3)) : Cut(b, 3)[i] = b[i]
<1>1. Len(b) \in Nat
  OBVIOUS
<1>2. CASE Len(b) >= 3
  <2>1. Len(b) - 3 \in Nat /\ Len(b) - 3 <= Len(b)
    BY <1>1, <1>2
  <2>2. /\ SubSeq(b, 1, Len(b) - 3) \in Seq(Byte) /\ Len(SubSeq(b, 1, Len(b) - 3)) = Len(b) - 3
        /\ \A i \in 1..(Len(b) - 3) : SubSeq(b, 1, Len(b) - 3)[i] = b[i]
    BY <2>1, FirstOf
  <2> QED BY <1>1, <1>2, <2>2 DEF Cut
<1>3. CASE Len(b) < 3
  <2>1. SubSeq(b, 1, Len(b) - 3) = <<>>
    BY <1>1, <1>3
  <2> QED BY <1>1, <1>3, <2>1 DEF Cut
<1> QED BY <1>1, <1>2, <1>3

\* The body, but for its last three bytes, is the beginning of b.
Begins(b) == IsPrefix(Cut(Body, 3), b)

\* So it is of the body with more behind it, cut itself.
LEMMA BeginsGrown ==
  ASSUME Body \in Seq(Byte), NEW x \in Seq(Byte)
  PROVE  Begins(Cut(Body \o x, 3))
<1> DEFINE p == Cut(Body, 3)
           b == Body \o x
           c == Cut(b, 3)
<1>1. /\ b \in Seq(Byte) /\ Len(b) = Len(Body) + Len(x) /\ Len(Body) \in Nat /\ Len(x) \in Nat
      /\ \A i \in 1..Len(Body) : b[i] = Body[i]
  BY ConcatAt
<1> HIDE DEF b
<1>2. /\ p \in Seq(Byte) /\ Len(p) = IF Len(Body) >= 3 THEN Len(Body) - 3 ELSE 0
      /\ \A i \in 1..Len(p) : p[i] = Body[i]
  BY CutAt
<1>3. /\ c \in Seq(Byte) /\ Len(c) = IF Len(b) >= 3 THEN Len(b) - 3 ELSE 0
      /\ \A i \in 1..Len(c) : c[i] = b[i]
  BY <1>1, CutAt
<1> HIDE DEF p, c
<1>4. Len(p) <= Len(c) /\ Len(p) <= Len(Body) /\ Len(p) \in Nat /\ Len(c) \in Nat
  BY <1>1, <1>2, <1>3
<1>5. \A i \in 1..Len(p) : i \in 1..Len(c) /\ i \in 1..Len(Body)
  BY <1>1, <1>4
<1>6. \A i \in 1..Len(p) : p[i] = c[i]
  BY <1>1, <1>2, <1>3, <1>5
<1>7. IsPrefix(p, c)
  BY <1>2, <1>3, <1>4, <1>6, PrefixAt
<1> QED BY <1>7 DEF Begins, p, c, b

\* And of a file with an extension in the place of its last three bytes.
LEMMA BeginsExtended ==
  ASSUME Body \in Seq(Byte), NEW b \in Seq(Byte), Len(b) >= 3, NEW x \in Seq(Byte), Begins(Cut(b, 3))
  PROVE  LET n == (Cut(b, 3) \o x) \o MTA_END IN Begins(n) /\ Begins(Cut(n, 3))
<1> DEFINE p == Cut(Body, 3)
           c == Cut(b, 3)
           y == c \o x
           n == y \o MTA_END
           d == Cut(n, 3)
<1>1. MTA_END \in Seq(Byte) /\ Len(MTA_END) = 3
  BY DEF MTA_END, Byte
<1>2. p \in Seq(Byte) /\ Len(p) \in Nat
  BY CutAt
<1>3. c \in Seq(Byte) /\ Len(c) \in Nat
  BY CutAt
<1>4. Len(p) <= Len(c) /\ \A i \in 1..Len(p) : p[i] = c[i]
  BY <1>2, <1>3, PrefixAt DEF Begins
<1> HIDE DEF p, c
<1>5. /\ y \in Seq(Byte) /\ Len(y) = Len(c) + Len(x) /\ Len(x) \in Nat /\ Len(y) \in Nat
      /\ \A i \in 1..Len(c) : y[i] = c[i]
  BY <1>3, ConcatAt
<1> HIDE DEF y
<1>6. /\ n \in Seq(Byte) /\ Len(n) = Len(y) + 3 /\ \A i \in 1..Len(y) : n[i] = y[i]
  <2>1. n \in Seq(Byte) /\ Len(n) = Len(y) + Len(MTA_END) /\ \A i \in 1..Len(y) : n[i] = y[i]
    <3>1. MTA_END \in Seq(Byte)
      BY <1>1
    <3>2. y \in Seq(Byte)
      BY <1>5
    <3> QED BY <3>1, <3>2, ConcatAt
  <2> HIDE DEF n
  <2> QED BY <1>1, <2>1
<1> HIDE DEF n
<1>7. d \in Seq(Byte) /\ Len(d) = Len(y) /\ \A i \in 1..Len(d) : d[i] = n[i]
  <2>1. d \in Seq(Byte) /\ Len(d) = IF Len(n) >= 3 THEN Len(n) - 3 ELSE 0
    BY <1>6, CutAt
  <2>2. \A i \in 1..Len(d) : d[i] = n[i]
    BY <1>6, CutAt
  <2> HIDE DEF d
  <2> QED BY <1>5, <1>6, <2>1, <2>2
<1> HIDE DEF d
<1>8. \A i \in 1..Len(p) : i \in 1..Len(c) /\ i \in 1..Len(y)
  BY <1>2, <1>3, <1>4, <1>5
<1>9. Len(p) <= Len(d) /\ Len(p) <= Len(n) /\ \A i \in 1..Len(p) : p[i] = d[i] /\ p[i] = n[i]
  BY <1>2, <1>3, <1>4, <1>5, <1>6, <1>7, <1>8
<1>10. IsPrefix(p, n) /\ IsPrefix(p, d)
  BY <1>2, <1>6, <1>7, <1>9, PrefixAt
<1> QED BY <1>10 DEF Begins, p, d, n, y, c

\* A file that is too short to cut begins with nothing.
LEMMA BeginsShort ==
  ASSUME Body \in Seq(Byte), NEW b \in Seq(Byte), Len(b) < 3, Begins(Cut(b, 3))
  PROVE  Begins(b)
<1> DEFINE p == Cut(Body, 3)
           c == Cut(b, 3)
<1>1. p \in Seq(Byte) /\ Len(p) \in Nat
  BY CutAt
<1>2. c \in Seq(Byte) /\ Len(c) = 0 /\ Len(b) \in Nat
  BY CutAt
<1>3. Len(p) <= Len(c)
  BY <1>1, <1>2, PrefixAt DEF Begins
<1> HIDE DEF p, c
<1>4. Len(p) = 0
  BY <1>1, <1>2, <1>3
<1>5. Len(p) <= Len(b) /\ \A i \in 1..Len(p) : p[i] = b[i]
  BY <1>2, <1>4
<1> QED BY <1>1, <1>5, PrefixAt DEF Begins, p

\* What the buffer is at each point.
Seal(b) == IF b = <<>> THEN b ELSE b \o (<<Code_CmMic, 16>> \o Md5(b))
Mics    == <<Code_CmtsMic, 16>> \o Hmac(selected)
ShapeInv ==
  /\ stage = "parsed" => out = <<>> /\ stack = <<>>
  /\ stage = "flatten" => \E R : Results(R)
  /\ stage \in {"cm_mic", "cmts_mic", "eod"} => docsis
  /\ stage = "cm_mic" => out = Body
  /\ stage = "cmts_mic" => out = Seal(Body)
  /\ stage = "eod" => out = IF Body = <<>> THEN <<>> ELSE Seal(Body) \o Mics
  /\ stage \in {"dialplan", "hash"} => Extended /\ Begins(Cut(out, 3))
  /\ stage \in {"write", "written"} => IF Extended THEN Begins(out) ELSE Finished

\* The body is bytes.
LEMMA BodyTyped ==
  ASSUME NEW depth, Graded(depth), TypeOK
  PROVE  Body \in Seq(Byte) /\ Body = Part(tree)
<1>1. tree \in Seq(Tlvs) /\ Body = Part(tree)
  BY DEF TypeOK, Body, Part
<1> QED BY <1>1, PartCons

\* Where a buffer that begins with the body goes on to, extended or not.
LEMMA ToExtensions ==
  ASSUME Body \in Seq(Byte), NEW x \in Seq(Byte), out' = Body \o x, stage' = Extensions,
         UNCHANGED <<opts, tree>>, ~Extended => Finished'
  PROVE  /\ stage' \in {"dialplan", "hash"} => (Extended /\ Begins(Cut(out, 3)))'
         /\ stage' = "write" => (IF Extended THEN Begins(out) ELSE Finished)'
         /\ stage' \in {"dialplan", "hash", "write"}
<1>1. Begins(Cut(Body \o x, 3))
  BY BeginsGrown
<1>2. Body' = Body /\ Extended' = Extended
  BY DEF Body, Extended
<1>3. Begins(Cut(out, 3))'
  BY <1>1, <1>2 DEF Begins
<1>4. stage' \in {"dialplan", "hash"} => Extended
  BY DEF Extensions, Extended
<1>5. stage' = "write" => ~Extended
  BY DEF Extensions, Extended
<1>6. stage' \in {"dialplan", "hash", "write"}
  BY DEF Extensions
<1> QED BY <1>2, <1>3, <1>4, <1>5, <1>6

\* From the empty file on, through flatten.
LEMMA ShapeFlatten ==
  ASSUME NEW depth, Graded(depth), TypeOK, ShapeInv, Begin \/ Flatten
  PROVE  ShapeInv'
<1>1. CASE Begin
  <2>1. /\ stage = "parsed" /\ stage' = "flatten" /\ todo' = tree /\ out' = out /\ stack' = stack /\ tree' = tree
    BY <1>1 DEF Begin, input
  <2>2. out = <<>> /\ stack = <<>> /\ Body' = Body
    BY <2>1 DEF ShapeInv, Body
  <2>3. PICK R : R = [k \in 0..0 |-> Body]
    OBVIOUS
  <2>4. Results(R)'
    <3>1. Body \in Seq(Byte) /\ Body = Part(tree) /\ <<>> \o Body = Body
      BY BodyTyped, NothingAround
    <3>2. Len(stack') = 0 /\ Part(todo') = Body /\ out' = <<>>
      BY <2>1, <2>2, <3>1
    <3>3. R \in [0..0 -> Seq(Byte)] /\ R[0] = Body /\ 1..0 = {}
      BY <2>3, <3>1
    <3> QED BY <2>2, <3>1, <3>2, <3>3 DEF Results
  <2> QED BY <2>1, <2>4 DEF ShapeInv
<1>2. CASE EndFlatten
  <2>1. /\ stage = "flatten" /\ todo = <<>> /\ stack = <<>> /\ out' = out /\ docsis' = docsis
        /\ stage' = (IF docsis THEN "cm_mic" ELSE Extensions) /\ opts' = opts /\ tree' = tree
    BY <1>2 DEF EndFlatten, input
  <2>2. PICK R : Results(R)
    BY <2>1 DEF ShapeInv
  <2>3. Body \in Seq(Byte) /\ out \in Seq(Byte) /\ Body' = Body
    BY <2>1, BodyTyped DEF TypeOK, Body
  <2>4. out = Body
    <3>1. R[0] = out \o Part(todo) /\ R[0] = Body
      <4>1. Len(stack) = 0
        BY <2>1
      <4> QED BY <2>2, <4>1 DEF Results
    <3>2. Part(todo) = <<>>
      <4>1. <<>> \in Seq(Tlvs)
        OBVIOUS
      <4> QED BY <2>1, <4>1, PartCons
    <3> QED BY <2>3, <3>1, <3>2, NothingAround
  <2>5. CASE docsis
    BY <2>1, <2>3, <2>4, <2>5 DEF ShapeInv
  <2>6. CASE ~docsis
    <3>1. out' = Body \o <<>> /\ <<>> \in Seq(Byte)
      BY <2>1, <2>3, <2>4
    <3>2. ~Extended => Finished'
      BY <2>1, <2>3, <2>4, <2>6 DEF Finished
    <3>3. /\ stage' \in {"dialplan", "hash"} => (Extended /\ Begins(Cut(out, 3)))'
          /\ stage' = "write" => (IF Extended THEN Begins(out) ELSE Finished)'
          /\ stage' \in {"dialplan", "hash", "write"}
      BY <2>1, <2>3, <2>6, <3>1, <3>2, ToExtensions
    <3> QED BY <3>3 DEF ShapeInv
  <2> QED BY <2>5, <2>6
<1>3. CASE WriteLeaf \/ WriteLongMib \/ DropLeaf \/ EnterBlock \/ WriteBlock \/ DropBlock
  <2>1. stage = "flatten" /\ stage' = "flatten"
    BY <1>3 DEF WriteLeaf, WriteLongMib, DropLeaf, EnterBlock, WriteBlock, DropBlock, Flattening, Returning
  <2>2. PICK R : Results(R)
    BY <2>1 DEF ShapeInv
  <2>3. \E Q : Results(Q)'
    BY <1>3, <2>2, LeafShapes, EnterShapes, ReturnShapes
  <2> QED BY <2>1, <2>3 DEF ShapeInv
<1> QED BY <1>1, <1>2, <1>3 DEF Flatten

\* Zeros up to a multiple of four.
LEMMA PadIs ==
  ASSUME NEW n \in Nat
  PROVE  Pad(n) \in Nat /\ Pad(n) < 4 /\ (n + Pad(n)) % 4 = 0
  BY DEF Pad

\* The end marker and the padding finish a sealed body.
LEMMA PaddedFinishes ==
  ASSUME Body \in Seq(Byte), Body # <<>>, docsis, NEW s \in Seq(Byte), s = Sealed,
         out' = s \o [i \in 1..Pad(Len(s)) |-> 0], UNCHANGED <<tree, docsis, selected>>
  PROVE  Finished'
<1> DEFINE n == Pad(Len(s))
           z == [i \in 1..n |-> 0]
<1>1. Len(s) \in Nat /\ n \in Nat /\ n < 4 /\ (Len(s) + n) % 4 = 0
  <2>1. Len(s) \in Nat
    OBVIOUS
  <2> QED BY <2>1, PadIs
<1> HIDE DEF n
<1>2. z \in Seq(Byte) /\ Len(z) = n /\ \A i \in 1..n : z[i] = 0
  <2>1. z \in [1..n -> Byte]
    BY DEF Byte
  <2>2. \A i \in 1..n : z[i] = 0
    OBVIOUS
  <2> HIDE DEF z
  <2> QED BY <1>1, <2>1, <2>2, FixedSeq
<1>3. PICK b : b = out'
  OBVIOUS
<1>4. b = s \o z
  BY <1>3 DEF n
<1> DEFINE l == Len(s)
<1> HIDE DEF z
<1>5. b \in Seq(Byte) /\ Len(b) = l + n /\ (\A i \in 1..l : b[i] = s[i]) /\ \A i \in 1..n : b[l + i] = 0
  <2>1. /\ s \o z \in Seq(Byte) /\ Len(s \o z) = Len(s) + Len(z)
        /\ \A i \in 1..Len(s) : (s \o z)[i] = s[i]
        /\ \A i \in 1..Len(z) : (s \o z)[Len(s) + i] = z[i]
    <3>1. z \in Seq(Byte) /\ s \in Seq(Byte)
      BY <1>2
    <3> QED BY <3>1, ConcatAt
  <2> QED BY <1>2, <1>4, <2>1
<1>6. l \in Nat
  BY <1>1
<1> HIDE DEF l
<1>7. \A i \in (l + 1)..Len(b) : b[i] = 0
  <2>1. \A i \in (l + 1)..(l + n) : i - l \in 1..n /\ l + (i - l) = i
    BY <1>1, <1>6
  <2> QED BY <1>5, <2>1
<1>8. IsPrefix(s, b)
  <2>1. l <= Len(b)
    BY <1>1, <1>5, <1>6
  <2> QED BY <1>5, <2>1, PrefixAt DEF l
<1>9. Body' = Body
  BY DEF Body
<1>10. Sealed' = s
  BY <1>9 DEF Sealed
<1>11. Len(b) % 4 = 0 /\ Len(b) - l < 4
  BY <1>1, <1>5, <1>6 DEF l
<1> QED BY <1>3, <1>7, <1>8, <1>9, <1>10, <1>11 DEF Finished, l

\* A MIC of sixteen bytes with its header.
LEMMA MicTyped ==
  ASSUME NEW b
  PROVE  /\ <<Code_CmMic, 16>> \in Seq(Byte) /\ Md5(b) \in Seq(Byte)
         /\ <<Code_CmtsMic, 16>> \in Seq(Byte) /\ Hmac(b) \in Seq(Byte) /\ <<Code_EndOfData>> \in Seq(Byte)
<1>1. Code_CmMic \in Byte /\ Code_CmtsMic \in Byte /\ Code_EndOfData \in Byte /\ 16 \in Byte
  BY DEF Code_CmMic, Code_CmtsMic, Code_EndOfData, Byte
<1>2. Md5(b) \in [1..16 -> Byte] /\ Hmac(b) \in [1..16 -> Byte] /\ 16 \in Nat
  <2>1. \A n : AsByte(n) \in Byte
    BY DEF AsByte, Byte
  <2> QED BY <2>1, Zenon DEF Md5, Hmac
<1>3. <<Code_CmMic, 16>> \in Seq(Byte) /\ <<Code_CmtsMic, 16>> \in Seq(Byte) /\ <<Code_EndOfData>> \in Seq(Byte)
  BY <1>1
<1>4. \A a \in [1..16 -> Byte] : a \in Seq(Byte)
  BY <1>2, FixedSeq
<1> QED BY <1>2, <1>3, <1>4

\* Sealing makes longer.
LEMMA SealLonger ==
  ASSUME NEW b \in Seq(Byte), b # <<>>
  PROVE  Seal(b) \in Seq(Byte) /\ Seal(b) # <<>>
<1> DEFINE m == <<Code_CmMic, 16>> \o Md5(b)
<1>1. m \in Seq(Byte)
  BY MicTyped
<1> HIDE DEF m
<1>2. Seal(b) = b \o m
  BY DEF Seal, m
<1>3. b \o m \in Seq(Byte) /\ b \o m # <<>>
  BY <1>1
<1> QED BY <1>2, <1>3

\* Bytes is left a set of any kind, so that the provers see nothing but what
\* they are told of it.
Bytes == Seq(Byte)
Assoc(a, b, c) == (a \o b) \o c = a \o (b \o c)
Six(y, h, m, k, n, z) ==
  /\ ((((y \o h) \o m) \o k) \o n) \o z = ((y \o (h \o m)) \o (k \o n)) \o z
  /\ ((y \o (h \o m)) \o (k \o n)) \o z = y \o ((h \o m) \o ((k \o n) \o z))
  /\ (h \o m) \o ((k \o n) \o z) \in Bytes /\ (y \o (h \o m)) \o (k \o n) \in Bytes

\* Six parts one behind the other, taken together in two other ways.
LEMMA Chains ==
  ASSUME \A a, b \in Bytes : a \o b \in Bytes,
         \A a, b, c \in Bytes : Assoc(a, b, c)
  PROVE  \A y, h, m, k, n, z \in Bytes : Six(y, h, m, k, n, z)
<1> SUFFICES ASSUME NEW y \in Bytes, NEW h \in Bytes, NEW m \in Bytes,
                    NEW k \in Bytes, NEW n \in Bytes, NEW z \in Bytes
             PROVE  Six(y, h, m, k, n, z)
  OBVIOUS
<1> DEFINE r == h \o m
           q == k \o n
           p == y \o r
           w == q \o z
<1>1. r \in Bytes /\ q \in Bytes
  OBVIOUS
<1>2. p \in Bytes /\ w \in Bytes
  <2> HIDE DEF r, q
  <2> QED BY <1>1
<1>3. r \o w \in Bytes /\ p \o q \in Bytes
  <2> HIDE DEF r, q, p, w
  <2> QED BY <1>1, <1>2
<1>4. Assoc(y, h, m)
  OBVIOUS
<1>5. Assoc(p, k, n) /\ Assoc(p, q, z) /\ Assoc(y, r, w)
  <2> HIDE DEF r, q, p, w
  <2> QED BY <1>1, <1>2
<1> QED BY <1>3, <1>4, <1>5, Zenon DEF Six, Assoc, p, q, r, w

\* The same of bytes.
LEMMA SixParts ==
  \A y, h, m, k, n, z \in Bytes : Six(y, h, m, k, n, z)
<1>1. \A a, b \in Bytes : a \o b \in Bytes
  BY DEF Bytes
<1>2. \A a, b, c \in Bytes : Assoc(a, b, c)
  BY Associates DEF Bytes, Assoc
<1> QED BY <1>1, <1>2, Chains, Zenon

\* A sealed file is the body, the two MICs and the end marker.
LEMMA SealedIs ==
  ASSUME Body \in Seq(Byte), Body # <<>>, NEW b, b = Seal(Body) \o Mics
  PROVE  LET x == (<<Code_CmMic, 16>> \o Md5(Body)) \o (Mics \o <<Code_EndOfData>>) IN
         /\ Sealed \in Seq(Byte) /\ Sealed = b \o <<Code_EndOfData>> /\ Len(Sealed) = Len(b) + 1
         /\ x \in Seq(Byte) /\ Sealed = Body \o x /\ b # <<>>
<1> DEFINE h == <<Code_CmMic, 16>>
           m == Md5(Body)
           k == <<Code_CmtsMic, 16>>
           n == Hmac(selected)
           z == <<Code_EndOfData>>
           y == Body
           c == y \o (h \o m)
           x == (h \o m) \o ((k \o n) \o z)
<1>1. h \in Seq(Byte) /\ m \in Seq(Byte) /\ k \in Seq(Byte) /\ n \in Seq(Byte) /\ z \in Seq(Byte) /\ Len(z) = 1
  BY MicTyped
<1>2. Sealed = ((((y \o h) \o m) \o k) \o n) \o z /\ b = c \o (k \o n)
      /\ x = (<<Code_CmMic, 16>> \o Md5(Body)) \o (Mics \o <<Code_EndOfData>>)
  BY DEF Sealed, Seal, Mics
<1>3. y # <<>> /\ y \in Seq(Byte)
  OBVIOUS
<1> HIDE DEF h, m, k, n, z, y
<1>4. Sealed = b \o z /\ Sealed = y \o x /\ x \in Seq(Byte) /\ b \in Seq(Byte)
  <2>1. h \in Bytes /\ m \in Bytes /\ k \in Bytes /\ n \in Bytes /\ z \in Bytes /\ y \in Bytes
    BY <1>1, <1>3 DEF Bytes
  <2>2. Six(y, h, m, k, n, z)
    BY <2>1, SixParts
  <2> QED BY <1>2, <2>2, Zenon DEF Bytes, Six
<1> HIDE DEF x
<1>5. b # <<>>
  <2>1. h \o m \in Seq(Byte) /\ k \o n \in Seq(Byte)
    BY <1>1
  <2> DEFINE p == h \o m
             q == k \o n
  <2>2. c = y \o p /\ b = c \o q
    BY <1>2
  <2> HIDE DEF p, q, c
  <2>3. p \in Seq(Byte) /\ q \in Seq(Byte)
    BY <2>1 DEF p, q
  <2>4. c \in Seq(Byte) /\ c # <<>>
    BY <1>3, <2>2, <2>3
  <2>5. c \o q # <<>>
    BY <2>3, <2>4
  <2> QED BY <2>2, <2>5
<1>6. Len(Sealed) = Len(b) + 1 /\ Sealed \in Seq(Byte)
  <2>1. \A a \in Seq(Byte) : \A d \in Seq(Byte) : Len(a \o d) = Len(a) + Len(d) /\ a \o d \in Seq(Byte)
    OBVIOUS
  <2>2. z \in Seq(Byte) /\ Len(z) = 1 /\ b \in Seq(Byte)
    BY <1>1, <1>4
  <2>3. Len(b \o z) = Len(b) + Len(z) /\ b \o z \in Seq(Byte)
    BY <2>1, <2>2, Zenon
  <2>4. Len(b \o z) = Len(b) + 1
    BY <2>2, <2>3, Zenon
  <2> QED BY <1>4, <2>3, <2>4, Zenon
<1> QED BY <1>2, <1>4, <1>5, <1>6 DEF y, z

\* The MICs, the end marker and what is done to a file that is empty.
LEMMA ShapeSeals ==
  ASSUME NEW depth, Graded(depth), TypeOK, ShapeInv, AddCmMic \/ Walk \/ AddCmtsMic \/ AddEodAndPad
  PROVE  ShapeInv'
<1>1. Body \in Seq(Byte) /\ Body' = Body
  <2>1. tree' = tree
    BY DEF AddCmMic, Walk, WalkSelect, WalkPass, WalkRestart, AddCmtsMic, AddEodAndPad, input
  <2> QED BY <2>1, BodyTyped DEF Body
<1>2. CASE AddCmMic
  <2>1. /\ stage = "cm_mic" /\ stage' = "cmts_mic" /\ docsis' = docsis
        /\ out' = IF out = <<>> THEN out ELSE out \o (<<Code_CmMic, 16>> \o Md5(out))
    BY <1>2 DEF AddCmMic, Emit
  <2>2. out = Body /\ docsis
    BY <2>1 DEF ShapeInv
  <2>3. out' = Seal(Body)
    BY <2>1, <2>2 DEF Seal
  <2>4. (out = Seal(Body))'
    BY <1>1, <2>3 DEF Seal, Md5
  <2> QED BY <2>1, <2>2, <2>4 DEF ShapeInv
<1>3. CASE Walk
  <2>1. stage = "cmts_mic" /\ stage' = stage /\ out' = out /\ docsis' = docsis
    BY <1>3 DEF Walk, WalkSelect, WalkPass, WalkRestart, Walking
  <2>2. (out = Seal(Body))'
    BY <1>1, <2>1 DEF ShapeInv, Seal, Md5
  <2> QED BY <2>1, <2>2 DEF ShapeInv
<1>4. CASE AddCmtsMic
  <2>1. /\ stage = "cmts_mic" /\ stage' = "eod" /\ docsis' = docsis /\ selected' = selected
        /\ out' = IF out = <<>> THEN out ELSE out \o Mics
    BY <1>4 DEF AddCmtsMic, Selected, Emit, walk, Mics
  <2>2. out = Seal(Body) /\ docsis
    BY <2>1 DEF ShapeInv
  <2>3. Body # <<>> => Seal(Body) # <<>>
    BY <1>1, SealLonger
  <2>4. Seal(<<>>) = <<>>
    BY DEF Seal
  <2>5. out' = IF Body = <<>> THEN <<>> ELSE Seal(Body) \o Mics
    BY <2>1, <2>2, <2>3, <2>4
  <2>6. Seal(Body)' = Seal(Body) /\ Mics' = Mics
    BY <1>1, <2>1 DEF Seal, Md5, Mics, Hmac
  <2>7. (out = IF Body = <<>> THEN <<>> ELSE Seal(Body) \o Mics)'
    BY <1>1, <2>5, <2>6
  <2> QED BY <2>1, <2>2, <2>7 DEF ShapeInv
<1>5. CASE AddEodAndPad
  <2>1. /\ stage = "eod" /\ stage' = Extensions /\ UNCHANGED <<opts, tree, docsis, selected>>
        /\ out' = IF out = <<>> THEN out
                  ELSE out \o <<Code_EndOfData>> \o [i \in 1..Pad(Len(out) + 1) |-> 0]
    BY <1>5 DEF AddEodAndPad, input, walk
  <2>2. docsis /\ out = IF Body = <<>> THEN <<>> ELSE Seal(Body) \o Mics
    BY <2>1 DEF ShapeInv
  <2>3. CASE Body = <<>>
    <3>1. out' = Body \o <<>> /\ <<>> \in Seq(Byte)
      BY <1>1, <2>1, <2>2, <2>3
    <3>2. Finished'
      BY <1>1, <2>1, <2>2, <2>3 DEF Finished
    <3>3. /\ stage' \in {"dialplan", "hash"} => (Extended /\ Begins(Cut(out, 3)))'
          /\ stage' = "write" => (IF Extended THEN Begins(out) ELSE Finished)'
          /\ stage' \in {"dialplan", "hash", "write"}
      BY <1>1, <2>1, <3>1, <3>2, ToExtensions
    <3> QED BY <3>3 DEF ShapeInv
  <2>4. CASE Body # <<>>
    <3> DEFINE s == Sealed
               z == [i \in 1..Pad(Len(s)) |-> 0]
               x == (<<Code_CmMic, 16>> \o Md5(Body)) \o (Mics \o <<Code_EndOfData>>)
    <3>1. /\ s \in Seq(Byte) /\ s = out \o <<Code_EndOfData>> /\ Len(s) = Len(out) + 1
          /\ x \in Seq(Byte) /\ s = Body \o x /\ out # <<>>
      BY <1>1, <2>2, <2>4, SealedIs
    <3>2. out' = s \o z
      BY <2>1, <3>1
    <3>3. z \in Seq(Byte)
      <4>1. Pad(Len(s)) \in Nat
        <5>1. Len(s) \in Nat
          BY <3>1
        <5> QED BY <5>1, PadIs
      <4>2. z \in [1..Pad(Len(s)) -> Byte]
        BY DEF Byte
      <4> HIDE DEF z
      <4> QED BY <4>1, <4>2, FixedSeq
    <3>4. Finished'
      <4> HIDE DEF s
      <4>1. s = Sealed
        BY DEF s
      <4> QED BY <1>1, <2>1, <2>2, <2>4, <3>1, <3>2, <4>1, PaddedFinishes
    <3> HIDE DEF s, z, x
    <3>5. out' = Body \o (x \o z) /\ x \o z \in Seq(Byte)
      <4>1. (Body \o x) \o z = Body \o (x \o z)
        BY <1>1, <3>1, <3>3, Associates
      <4> QED BY <3>1, <3>2, <3>3, <4>1
    <3>6. /\ stage' \in {"dialplan", "hash"} => (Extended /\ Begins(Cut(out, 3)))'
          /\ stage' = "write" => (IF Extended THEN Begins(out) ELSE Finished)'
          /\ stage' \in {"dialplan", "hash", "write"}
      BY <1>1, <2>1, <3>4, <3>5, ToExtensions
    <3> QED BY <3>6 DEF ShapeInv
  <2> QED BY <2>3, <2>4
<1> QED BY <1>2, <1>3, <1>4, <1>5

\* What an extension makes of a buffer with x, or leaves of one that is too short.
LEMMA Extending ==
  ASSUME Body \in Seq(Byte), out \in Seq(Byte), Extended, Begins(Cut(out, 3)), NEW x \in Seq(Byte),
         out' = IF Len(out) < 3 THEN out ELSE (Cut(out, 3) \o x) \o MTA_END, UNCHANGED <<opts, tree>>
  PROVE  (Extended /\ Begins(out) /\ Begins(Cut(out, 3)))'
<1>1. Body' = Body /\ Extended' = Extended
  BY DEF Body, Extended
<1>2. Begins(out') /\ Begins(Cut(out', 3))
  <2>1. CASE Len(out) < 3
    <3>1. out' = out
      BY <2>1
    <3>2. Begins(out)
      BY <2>1, BeginsShort
    <3> QED BY <3>1, <3>2
  <2>2. CASE Len(out) >= 3
    <3>1. out' = (Cut(out, 3) \o x) \o MTA_END
      <4>1. Len(out) \in Nat
        OBVIOUS
      <4>2. ~(Len(out) < 3)
        BY <2>2, <4>1
      <4> QED BY <4>2
    <3>2. /\ Begins((Cut(out, 3) \o x) \o MTA_END)
          /\ Begins(Cut((Cut(out, 3) \o x) \o MTA_END, 3))
      BY <2>2, BeginsExtended
    <3> QED BY <3>1, <3>2
  <2>3. Len(out) < 3 \/ Len(out) >= 3
    OBVIOUS
  <2> QED BY <2>1, <2>2, <2>3
<1> QED BY <1>1, <1>2 DEF Begins

\* The extensions and the end of the run.
LEMMA ShapeExtend ==
  ASSUME NEW depth, Graded(depth), TypeOK, ShapeInv,
         RejectEmpty \/ NoDialplan \/ AddDialplan \/ AddMtaHash \/ Write \/ StopListing
  PROVE  ShapeInv'
<1>1. Body \in Seq(Byte)
  BY BodyTyped
<1>2. out \in Seq(Byte)
  BY DEF TypeOK
<1>3. CASE RejectEmpty \/ NoDialplan \/ StopListing
  <2>1. stage' \in {"failed", "exited"}
    BY <1>3 DEF RejectEmpty, NoDialplan, StopListing
  <2> QED BY <2>1 DEF ShapeInv
<1>4. CASE AddDialplan
  <2>1. /\ stage = "dialplan" /\ dialplanFile # NoFile /\ stage' = AfterDialplan /\ UNCHANGED <<opts, tree>>
        /\ out' = IF Len(out) < 3 THEN out ELSE (Cut(out, 3) \o DialplanTlv(dialplanFile)) \o MTA_END
    BY <1>4 DEF AddDialplan, input
  <2>2. Extended /\ Begins(Cut(out, 3))
    BY <2>1 DEF ShapeInv
  <2>3. DialplanTlv(dialplanFile) \in Seq(Byte)
    <3>1. dialplanFile \in Seq(Byte)
      BY <2>1 DEF TypeOK
    <3> QED BY <3>1, DialplanTyped
  <2>4. (Extended /\ Begins(out) /\ Begins(Cut(out, 3)))'
    BY <1>1, <1>2, <2>1, <2>2, <2>3, Extending
  <2>5. stage' \in {"hash", "write"}
    BY <2>1 DEF AfterDialplan
  <2> QED BY <2>4, <2>5 DEF ShapeInv
<1>5. CASE AddMtaHash
  <2> DEFINE x == HashPrefix \o Sha1(out)
  <2>1. /\ stage = "hash" /\ stage' = "write" /\ UNCHANGED <<opts, tree>>
        /\ out' = IF Len(out) < 3 THEN out ELSE Hashed(out)
    BY <1>5 DEF AddMtaHash, input
  <2>2. Extended /\ Begins(Cut(out, 3))
    BY <2>1 DEF ShapeInv
  <2>3. Cut(out, 3) \in Seq(Byte) /\ HashPrefix \in Seq(Byte) /\ Sha1(out) \in Seq(Byte)
    <3>1. NA_HASH_PREFIX \in Seq(Byte) /\ EU_HASH_PREFIX \in Seq(Byte)
      BY DEF NA_HASH_PREFIX, EU_HASH_PREFIX, Byte
    <3>2. HashPrefix \in Seq(Byte)
      BY <3>1 DEF HashPrefix
    <3> QED BY <1>2, <3>2, CutAt, DigestTypes
  <2>4. Hashed(out) = (Cut(out, 3) \o x) \o MTA_END
    <3>1. (Cut(out, 3) \o HashPrefix) \o Sha1(out) = Cut(out, 3) \o x
      BY <2>3, Associates
    <3> QED BY <3>1 DEF Hashed
  <2>5. x \in Seq(Byte)
    BY <2>3
  <2> HIDE DEF x
  <2>6. out' = IF Len(out) < 3 THEN out ELSE (Cut(out, 3) \o x) \o MTA_END
    BY <2>1, <2>4
  <2>7. (Extended /\ Begins(out) /\ Begins(Cut(out, 3)))'
    BY <1>1, <1>2, <2>1, <2>2, <2>5, <2>6, Extending
  <2> QED BY <2>1, <2>7 DEF ShapeInv
<1>6. CASE Write
  <2>1. stage = "write" /\ stage' = "written" /\ UNCHANGED <<opts, tree, docsis, out, selected>>
    BY <1>6 DEF Write, input, flat, walk
  <2>2. Begins(out)' = Begins(out) /\ Extended' = Extended /\ Finished' = Finished
    <3>1. Body' = Body
      BY <2>1 DEF Body
    <3>2. Sealed' = Sealed
      BY <2>1, <3>1 DEF Sealed, Md5, Hmac
    <3> QED BY <2>1, <3>1, <3>2 DEF Begins, Extended, Finished
  <2> QED BY <2>1, <2>2 DEF ShapeInv
<1> QED BY <1>3, <1>4, <1>5, <1>6

\* Every step, and none.
LEMMA ShapeStep ==
  ASSUME NEW depth, Graded(depth), TypeOK, ShapeInv, [Next]_vars
  PROVE  ShapeInv'
<1>1. CASE Begin \/ Flatten
  BY <1>1, ShapeFlatten
<1>2. CASE AddCmMic \/ Walk \/ AddCmtsMic \/ AddEodAndPad
  BY <1>2, ShapeSeals
<1>3. CASE RejectEmpty \/ NoDialplan \/ AddDialplan \/ AddMtaHash \/ Write \/ StopListing
  BY <1>3, ShapeExtend
<1>4. CASE UNCHANGED vars
  <2>1. UNCHANGED <<stage, opts, tree, docsis, out, stack, todo, selected>>
    BY <1>4 DEF vars, input, flat, walk
  <2>2. Body' = Body
    BY <2>1 DEF Body
  <2>3. Begins(out)' = Begins(out) /\ Begins(Cut(out, 3))' = Begins(Cut(out, 3)) /\ Extended' = Extended
    BY <2>1, <2>2 DEF Begins, Extended
  <2>4. Finished' = Finished /\ Seal(Body)' = Seal(Body) /\ Mics' = Mics
    <3>1. Sealed' = Sealed
      BY <2>1, <2>2 DEF Sealed, Md5, Hmac
    <3> QED BY <2>1, <2>2, <3>1 DEF Finished, Seal, Mics, Md5, Hmac
  <2>5. \A R : Results(R) => Results(R)'
    BY <2>1, <2>2 DEF Results
  <2> QED BY <2>1, <2>2, <2>3, <2>4, <2>5 DEF ShapeInv
<1> QED BY <1>1, <1>2, <1>3, <1>4 DEF Next

\* Every file that is written is what its tree says: for a cable modem the
\* encodings of its settings, the two MICs over them, the end marker and zeros
\* up to a multiple of four, for an MTA the encodings alone, and with a dial plan
\* or a hash still all of them but for the three bytes of the terminator
\* (encode_one_file, main.rs:335-371).
THEOREM FileIsItsTree ==
  ASSUME NEW depth, Graded(depth)
  PROVE  Spec => []FileShape
<1>1. Init => ShapeInv
  BY DEF Init, ShapeInv
<1>2. TypeOK /\ ShapeInv /\ [Next]_vars => ShapeInv'
  BY ShapeStep
<1>3. ShapeInv => FileShape
  BY DEF ShapeInv, FileShape, Begins
<1>4. Spec => []TypeOK
  BY Typing
<1> QED BY <1>1, <1>2, <1>3, <1>4, PTL DEF Spec
===============================================================================
