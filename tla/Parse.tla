-------------------------------- MODULE Parse --------------------------------
(***************************************************************************)
(* The parser of src/parser.rs, from the tokens of a config file to the    *)
(* tree of settings that the encoder is given.  Tokens have a kind and     *)
(* what they hold: a keyword its row of the symbol table, a number its     *)
(* four bytes and what is above them, a string its bytes.  One action      *)
(* reads one statement, the beginning of a block, or its end.  What the    *)
(* value encoders, the MIB and the file system answer are constants here:  *)
(* see Values, Varbind and Batch.                                          *)
(***************************************************************************)
EXTENDS Wire, FiniteSets

CONSTANTS
  Inputs,            \* token sequences
  Code(_),           \* the TLV code of a keyword, that of the first row of its name
  ValueBytes(_, _),  \* encode: {bytes} of a keyword and a value, {} if the encoder exits
  ObjectBytes(_),    \* encode_snmp_oid: {bytes} of an identifier, {} if there are none
  BindingBytes(_, _, _), \* encode_vbind: of an identifier, a type and a value
  FileBytes(_),      \* a file's contents: {bytes}, {} if it cannot be read
  ChunkSize,         \* what one TLV takes of a certificate file
  MaxDialplan        \* MAX_DIALPLAN_SIZE

\* A number's lowest byte and the code of a row are bytes, and a file says the same
\* whenever it is read.
ASSUME ParseAssumption ==
  /\ ChunkSize \in Nat \ {0} /\ MaxDialplan \in Nat
  /\ \A s \in Inputs :
       /\ s \in Seq([kind : STRING, of : Seq(Nat)])
       /\ \A i \in DOMAIN s : s[i].kind = "integer" => Len(s[i].of) = 5
       /\ \A i \in DOMAIN s : s[i].kind = "integer" => s[i].of[5] \in Byte
       /\ \A i \in DOMAIN s : s[i].kind = "Identifier" => Code(s[i].of) \in Byte
       /\ \A i \in DOMAIN s : \A d, e \in FileBytes(s[i].of) : d = e /\ d \in Seq(Byte)

VARIABLES
  toks,   \* the file
  pos,    \* the next token
  open,   \* blocks whose end is not read yet: [code, kids], the outermost first
  stage,  \* "begin", "reading", "parsed", "stopped"
  tree    \* the settings, once parsed

vars == <<toks, pos, open, stage, tree>>

Init == toks \in Inputs /\ pos = 1 /\ open = <<>> /\ stage = "begin" /\ tree = <<>>

-----------------------------------------------------------------------------
(* Tokens *)

Tok(kind, of) == [kind |-> kind, of |-> of]

\* take_value; a type of SnmpMibObject and the value it wants.
ValueKinds == {"integer", "string", "hex", "submgt", "ip", "iplist", "ip6", "mac", "oid", "timeticks"}
TypeKinds  == {"Integer", "Gauge", "Counter32", "TimeTicks", "IPAddress", "String", "HexString", "ObjectID",
               "Short", "Char", "Float"}
OidKinds   == {"oid", "ip"}   \* expect_label_oid: a dotted quad passes too
Wanted(type) ==
  CASE type \in {"Integer", "Gauge", "Counter32", "TimeTicks"} -> {"integer"}
    [] type = "IPAddress" -> {"ip"}
    [] type = "String"    -> {"string"}
    [] type = "HexString" -> {"hex"}
    [] type = "ObjectID"  -> OidKinds
    [] OTHER              -> {}

Next1(n)     == pos + n - 1           \* index of the n-th token from here
Kind(n)      == IF Next1(n) <= Len(toks) THEN toks[Next1(n)].kind ELSE "end"
Of(n)        == toks[Next1(n)].of
Reads(kinds) == \A n \in DOMAIN kinds : Kind(n) \in kinds[n]
Is(k)        == {k}

\* as_num() as u8, u16, u32 and as declared lengths; a value of another kind is 0.
NumWord(n) == IF Kind(n) = "integer" THEN Tail(Of(n)) ELSE <<0, 0, 0, 0>>
LowBytes(w, k) == SubSeq(w, 5 - k, 4)
AsByte(n)  == NumWord(n)[4]
Says(n, k) == Of(n) = <<0>> \o <<0, 0>> \o BE16(k)

\* The statement at hand, of n tokens, is over and makes these settings.
Add(n, settings) ==
  /\ pos' = pos + n
  /\ open' = [open EXCEPT ![Len(open)].kids = @ \o settings]
  /\ UNCHANGED <<toks, stage, tree>>

\* A block of some code begins behind n tokens.
Open(n, code) ==
  /\ pos' = pos + n
  /\ open' = Append(open, [code |-> code, kids |-> <<>>])
  /\ UNCHANGED <<toks, stage, tree>>

Paired(digits) == [i \in 1..Len(digits) \div 2 |-> digits[2 * i - 1] * 16 + digits[2 * i]]
Even(digits)   == Len(digits) % 2 = 0

-----------------------------------------------------------------------------
(* parse and assignment_list *)

Begin ==
  /\ stage = "begin" /\ Reads(<<Is("Main"), Is("LBrace")>>)
  /\ stage' = "reading" /\ pos' = pos + 2 /\ open' = <<[code |-> 0, kids |-> <<>>]>>
  /\ UNCHANGED <<toks, tree>>

\* What is behind the end of Main is not looked at.
End ==
  /\ stage = "reading" /\ Len(open) = 1 /\ Kind(1) = "RBrace"
  /\ tree' = open[1].kids /\ stage' = "parsed" /\ pos' = pos + 1 /\ open' = <<>>
  /\ UNCHANGED toks

\* A slip: the block is dissolved into the one around it.
CloseBlockInto ==
  /\ stage = "reading" /\ Len(open) > 1 /\ Kind(1) = "RBrace"
  /\ open' = [Front(open) EXCEPT ![Len(open) - 1].kids = @ \o Last(open).kids]
  /\ pos' = pos + 1
  /\ UNCHANGED <<toks, stage, tree>>

CloseBlock ==
  /\ stage = "reading" /\ Len(open) > 1 /\ Kind(1) = "RBrace"
  /\ LET block == Last(open) outer == Front(open)
     IN open' = [outer EXCEPT ![Len(outer)].kids = Append(@, Block(block.code, block.kids))]
  /\ pos' = pos + 1
  /\ UNCHANGED <<toks, stage, tree>>

-----------------------------------------------------------------------------
(* statement *)

Reading == stage = "reading"

OpenBlock == Reading /\ Reads(<<Is("Identifier"), Is("LBrace")>>) /\ Open(2, Code(Of(1)))

\* A slip: the semicolon may be missing.
SettingUnended ==
  /\ Reading /\ Reads(<<Is("Identifier"), ValueKinds>>)
  /\ \E v \in ValueBytes(Of(1), toks[Next1(2)]) :
       Add(IF Kind(3) = "Semi" THEN 3 ELSE 2, <<Leaf(Code(Of(1)), v)>>)

Setting ==
  /\ Reading /\ Reads(<<Is("Identifier"), ValueKinds, Is("Semi")>>)
  /\ \E v \in ValueBytes(Of(1), toks[Next1(2)]) : Add(3, <<Leaf(Code(Of(1)), v)>>)

\* A slip: the last, shorter piece is left out.
ChunksWhole(data) == [i \in 1..Len(data) \div ChunkSize |-> SubSeq(data, ChunkSize * (i - 1) + 1, ChunkSize * i)]

\* external_file_tlvs
Chunks(data) == [i \in 1..(Len(data) + ChunkSize - 1) \div ChunkSize |->
                   SubSeq(data, ChunkSize * (i - 1) + 1, IF ChunkSize * i < Len(data) THEN ChunkSize * i ELSE Len(data))]

CvcFile ==
  /\ Reading /\ Reads(<<Is("IdentCvc"), Is("string"), Is("Semi")>>)
  /\ \E data \in FileBytes(Of(2)) :
       /\ data # <<>>
       /\ Add(3, [i \in DOMAIN Chunks(data) |-> Leaf(Code(Of(1)), Chunks(data)[i])])

WriteControl ==
  /\ Reading /\ Reads(<<Is("IdentSnmpW"), OidKinds, Is("integer"), Is("Semi")>>)
  /\ \E o \in ObjectBytes(Of(2)) : Add(4, <<Leaf(Code(Of(1)), o \o LowBytes(NumWord(3), 1))>>)

MibObject ==
  /\ Reading /\ Reads(<<Is("IdentSnmpSet"), OidKinds, TypeKinds, Wanted(Kind(3)), Is("Semi")>>)
  /\ Kind(3) = "HexString" => Even(Of(4))
  /\ \E b \in BindingBytes(Of(2), Kind(3), IF Kind(3) = "HexString" THEN Paired(Of(4)) ELSE Of(4)) :
       Add(5, <<Leaf(Code(Of(1)), b)>>)

\* read_dialplan: the file as far as its first NUL.
DialplanOid == <<1, 3, 6, 1, 4, 1, 4491, 2, 2, 8, 2, 1, 1, 3, 1, 1, 2, 1>>
UpToNul(s)  == LET i == SelectInSeq(s, LAMBDA b : b = 0) IN IF i = 0 THEN s ELSE SubSeq(s, 1, i - 1)
DigitMap ==
  /\ Reading /\ Reads(<<Is("DigitMap"), Is("string"), Is("Semi")>>)
  /\ \E data \in FileBytes(Of(2)) :
       /\ Len(data) <= MaxDialplan
       /\ \E b \in BindingBytes(DialplanOid, "String", UpToNul(data)) : Add(3, <<Leaf(Code(Of(1)), b)>>)

-----------------------------------------------------------------------------
(* generic_statement; its code is the low byte of whatever number is given *)

GenericHead == <<Is("IdentGeneric"), Is("TlvCode"), Is("integer")>>
Generic(kinds) == Reading /\ Reads(GenericHead \o kinds)

GenericBlock == Generic(<<Is("LBrace")>>) /\ Open(4, AsByte(3))

GenericString == Generic(<<Is("TlvString"), Is("string"), Is("Semi")>>) /\ Add(6, <<Leaf(AsByte(3), Of(5))>>)

GenericStringZero ==
  /\ Generic(<<Is("TlvStringZero"), Is("string"), Is("Semi")>>)
  /\ Add(6, <<Leaf(AsByte(3), IF Len(Of(5)) <= 254 THEN Append(Of(5), 0) ELSE Of(5))>>)

GenericHex ==
  /\ Generic(<<Is("TlvLength"), Is("integer"), Is("TlvValue"), Is("hex"), Is("Semi")>>)
  /\ Even(Of(7)) /\ Says(5, Len(Of(7)) \div 2)
  /\ Add(8, <<Leaf(AsByte(3), Paired(Of(7)))>>)

\* An address is encoded by the row of the keyword GenericTLV, that is, as nothing.
Typed == CASE Kind(5) = "Integer"   -> NumWord(7)
           [] Kind(5) = "Short"     -> LowBytes(NumWord(7), 2)
           [] Kind(5) = "Char"      -> LowBytes(NumWord(7), 1)
           [] Kind(5) = "IPAddress" -> <<>>

GenericTyped ==
  /\ Generic(<<Is("TlvType"), {"Integer", "Short", "Char", "IPAddress"}, Is("TlvValue"), ValueKinds, Is("Semi")>>)
  /\ Add(8, <<Leaf(AsByte(3), Typed)>>)

-----------------------------------------------------------------------------
Read == \/ Begin \/ End \/ CloseBlock \/ OpenBlock \/ Setting \/ CvcFile \/ WriteControl \/ MibObject \/ DigitMap
        \/ GenericBlock \/ GenericString \/ GenericStringZero \/ GenericHex \/ GenericTyped

\* Anything else ends the program with a message.
Stop ==
  /\ stage \in {"begin", "reading"} /\ ~ENABLED Read
  /\ stage' = "stopped"
  /\ UNCHANGED <<toks, pos, open, tree>>

Next     == Read \/ Stop
Spec     == Init /\ [][Next]_vars

-----------------------------------------------------------------------------
\* What the parser keeps has its type.
TypeOK ==
  /\ pos \in 1..Len(toks) + 1
  /\ stage \in {"begin", "reading", "parsed", "stopped"}
  /\ \A i \in DOMAIN open : open[i].code \in Byte

\* The pieces of a certificate, put together in the order they are encoded, are the
\* file, and none is empty or longer than a length byte counts.
CertificateWhole ==
  [][CvcFile =>
       LET old  == Last(open).kids
           new  == Last(open').kids
           made == SubSeq(new, Len(old) + 1, Len(new))
       IN /\ FileBytes(Of(2)) = {FlattenSeq([i \in DOMAIN made |-> made[i].value])}
          /\ \A i \in DOMAIN made : Len(made[i].value) \in 1..ChunkSize]_vars

\* "... range-free IP encoding inside `GenericTLV TlvType`" (parser.rs:436).
TypedAddressKept ==
  [][GenericTyped /\ Kind(5) = "IPAddress" /\ Kind(7) = "ip" => Last(Last(open').kids).value = Of(7)]_vars
=============================================================================
