------------------------------- MODULE MCParse -------------------------------
(***************************************************************************)
(* Every statement of the grammar, alone, in pairs, in blocks and in blocks *)
(* of blocks, with the values that are refused; and files one token away   *)
(* from the grammar: one left out, one put in, one taken for another.      *)
(***************************************************************************)
EXTENDS ParseContract

MCCode(k) == k[1]

\* Keyword 3 has limits that no number above 1 meets; 24 is one of a block and has no encoding.
MCValueBytes(k, v) ==
  CASE k[1] = 24                         -> {<<>>}
    [] v.kind = "integer" /\ k[1] = 3    -> IF v.of \in {<<0, 0, 0, 0, 0>>, <<0, 0, 0, 0, 1>>} THEN {<<v.of[5]>>} ELSE {}
    [] v.kind = "integer" /\ k[1] # 3    -> {Tail(v.of)}
    [] OTHER                             -> {v.of}

Unknown == <<9>>  \* an identifier no module defines
MCObjectBytes(o) == IF o = Unknown THEN {} ELSE {o}
MCBindingBytes(o, type, v) ==
  IF o = Unknown \/ (type = "ObjectID" /\ v = Unknown) THEN {} ELSE {<<Len(o), Len(v)>> \o SelectSeq(v, LAMBDA b : b \in Byte)}

\* Certificates of one piece less a byte, of one, of two and a half; no bytes; a dial
\* plan with a NUL; one too long; and no file.
MCFileBytes(name) ==
  CASE name = <<1>> -> {<<48>>}           [] name = <<2>> -> {<<48, 130>>}
    [] name = <<5>> -> {<<48, 130, 1, 0, 7>>} [] name = <<6>> -> {<<>>}
    [] name = <<7>> -> {<<1, 2, 3, 4, 5, 6, 7>>} [] OTHER -> {}

T(kind)     == Tok(kind, <<>>)
N(n)        == Tok("integer", <<0, 0, 0>> \o BE16(n))
Wide        == Tok("integer", <<1, 0, 0, 1, 4>>)   \* 2^32 + 260
K(n)        == Tok("Identifier", <<n>>)
File(n)     == Tok("string", <<n>>)
Addr        == Tok("ip", <<1, 2, 3, 4>>)
Oid         == Tok("oid", <<1, 3, 6>>)
Hex(n)      == Tok("hex", [i \in 1..n |-> i])
Semi        == <<T("Semi")>>
Cvc(n)      == <<Tok("IdentCvc", <<32>>), File(n)>> \o Semi
Dial(n)     == <<Tok("DigitMap", <<11>>), File(n)>> \o Semi
Control(o, v) == <<Tok("IdentSnmpW", <<10>>), o, v>> \o Semi
Object(o, type, v) == <<Tok("IdentSnmpSet", <<11>>), o, T(type), v>> \o Semi
Gen(c)     == <<Tok("IdentGeneric", <<0>>), T("TlvCode"), c>>
Typed1(c, type, v) == Gen(c) \o <<T("TlvType"), T(type), T("TlvValue"), v>> \o Semi
HexOf(n, h) == Gen(N(43)) \o <<T("TlvLength"), N(n), T("TlvValue"), h>> \o Semi
In(head, body) == head \o <<T("LBrace")>> \o body \o <<T("RBrace")>>
Main(body)  == In(<<T("Main")>>, body)
Long(n)     == Tok("string", [i \in 1..n |-> 65])

Sound ==
  {<<K(3), N(1)>> \o Semi, <<K(4), Addr>> \o Semi, <<K(24), N(1)>> \o Semi, Cvc(1), Cvc(5), Dial(5),
   Control(Oid, Wide), Object(Oid, "Integer", N(7)), Object(Addr, "HexString", Hex(4)),
   Gen(Wide) \o <<T("TlvString"), File(0)>> \o Semi, Typed1(N(43), "Short", Wide), Typed1(N(43), "IPAddress", Addr),
   HexOf(2, Hex(4))}
Others ==
  {Cvc(2), Control(Addr, N(1)), Object(Oid, "IPAddress", Addr), Object(Oid, "String", File(1)),
   Object(Oid, "ObjectID", Addr), Typed1(N(1), "Integer", Addr), Typed1(N(1), "Char", Wide), HexOf(0, Hex(0))}
    \cup {Gen(N(300)) \o <<T("TlvStringZero"), Long(n)>> \o Semi : n \in {0, 254, 255}}
Refused ==
  {<<K(3), N(2)>> \o Semi, Cvc(6), Cvc(9), Dial(7), Dial(9), Control(Tok("oid", Unknown), N(1)),
   Object(Tok("oid", Unknown), "Integer", N(1)), Object(Oid, "ObjectID", Tok("oid", Unknown)),
   Object(Oid, "HexString", Hex(3)), HexOf(1, Hex(4)), HexOf(2, Hex(3)), HexOf(258, Hex(4)),
   Object(Oid, "Float", N(1)), Typed1(N(1), "String", File(1))}
Statement1 == Sound \cup Others \cup Refused

Heads1 == {<<K(24)>>, Gen(N(43))}
Items  == Sound \cup {In(h, s) : h \in Heads1, s \in Sound \cup {<<>>}}
Files  == {Main(<<>>)} \cup {Main(s) : s \in Statement1} \cup {Main(a \o b) : a, b \in Items}
            \cup {Main(In(<<K(24)>>, a) \o b) : a \in Statement1, b \in Items}
            \cup {Main(In(<<K(24)>>, In(h, a) \o b) \o c) : h \in Heads1, a, b \in Sound \cup {<<>>}, c \in Sound}

\* One token away.
Kinds == {T("Main"), T("LBrace"), T("RBrace"), T("Semi"), K(24), Tok("IdentGeneric", <<0>>), T("TlvCode"), T("TlvValue"),
          T("Integer"), N(1), File(1), Oid, Addr}
Near  == {Main(<<>>)} \cup {Main(In(<<K(24)>>, a) \o b) : a \in Sound, b \in {<<>>, <<K(4), Addr>> \o Semi}}
Edited ==
  UNION {{RemoveAt(f, i) : i \in DOMAIN f} \cup {SubSeq(f, 1, i) : i \in DOMAIN f}
           \cup {InsertAt(f, i, t) : i \in DOMAIN f, t \in Kinds} \cup {Append(f, t) : t \in Kinds}
           \cup {ReplaceAt(f, i, t) : i \in DOMAIN f, t \in Kinds} : f \in Near}

MCInputs == Files \cup Edited
=============================================================================
