---------------------------- MODULE MCRoundTrip ----------------------------
(***************************************************************************)
(* RoundTrip on trees of up to three settings that meet every case the two *)
(* directions treat differently, and a long MIB object in a modem file.    *)
(***************************************************************************)
EXTENDS RoundTrip

Rep(n, b) == [i \in 1..n |-> b]
SeqsUpTo(S, n) == UNION {[1..k -> S] : k \in 0..n}

Sy(id, c, pid, dec, size) ==
  [id |-> id, code |-> c, pid |-> pid, dec |-> dec, size |-> size]

Table == <<
  Sy(0, 0, 0, "special", 0), Sy(3, 3, 0, "value", 0), Sy(6, 4, 0, "aggregate", 0),
  Sy(7, 1, 6, "value", 0), Sy(4, 6, 0, "md5", 0), Sy(5, 7, 0, "md5", 0),
  Sy(16, 11, 0, "snmp", 0), Sy(1536, 11, 0, "snmp", 0),
  Sy(1288, 43, 0, "aggregate", 0), Sy(1397, 8, 1288, "vendor", 0),
  Sy(202, 5, 1288, "aggregate", 0), Sy(1300, 4, 202, "fixed", 2),
  Sy(443, 26, 202, "uint24", 0), Sy(341, 64, 0, "aggregate", 0),
  Sy(157, 254, 0, "value", 0), Sy(999, 255, 0, "special", 0) >>

\* A varbind for the dial plan, as a DigitMap statement encodes it.
Plan(n) == Leaf(11, DigitMapValue(Rep(n, 57)))

Net    == Leaf(3, <<1>>)
Cos    == Block(4, <<Leaf(1, <<1>>), Leaf(9, <<1, 200>>)>>)
Gen    == Leaf(200, <<65, 66>>)              \* unknown and printable
GenZ   == Leaf(200, <<65, 0>>)               \* the same with a final NUL
GenQ   == Leaf(200, <<65, Quote>>)
GenE   == Leaf(200, <<>>)
Ours   == Block(43, <<Leaf(8, <<255, 255, 255>>), Block(5, <<Leaf(4, <<1, 2>>)>>)>>)
Theirs == Block(43, <<Leaf(8, <<0, 0, 1>>), Block(5, <<Leaf(4, <<1>>), Leaf(26, <<9>>)>>)>>)
Mib    == Leaf(11, <<48, 3, 1, 2, 3>>)
MibBig == Leaf(11, Rep(300, 4))
Mcast  == Block(64, <<Leaf(1, <<5>>)>>)    \* static multicast session
DelimA == Leaf(254, <<1>>)
DelimZ == Leaf(254, <<255>>)

Usual == {Net, Cos, Gen, GenZ, Ours, Theirs, Mib, Mcast}
Odd   == {GenQ, GenE, MibBig, Plan(3), Plan(150), Leaf(255, <<1>>), Leaf(9, Rep(256, 1))}

Opt(d, p, h) == [docsis |-> d, dialplan |-> p, hash |-> h]

MtaBodies == SeqsUpTo({Mib, MibBig, Gen}, 2)
               \cup {<<Plan(n)>> : n \in {0, 100, 101, 127, 128, 255, 256, 300}}
               \cup {<<Plan(3), Mib, Plan(3)>>}
MtaTrees  == {<<DelimA>> \o b \o <<DelimZ>> : b \in MtaBodies}

ModemTrees == SeqsUpTo(Usual, 2) \cup {<<a, b, c>> : a \in Odd, b \in Usual, c \in Usual}
             \cup {<<a, b>> : a \in Usual, b \in Odd}
\* Every setting of a tree, however deep.
Children(S) == UNION {{t.children[i] : i \in DOMAIN t.children} : t \in S}
TopTlvs == Usual \cup Odd \cup {MibBig, DelimA, DelimZ, Plan(4)}
             \cup {Plan(n) : n \in {0, 100, 101, 127, 128, 255, 256, 300}}
MCTlvs  == TopTlvs \cup Children(TopTlvs) \cup Children(Children(TopTlvs))

Plans == {NoFile} \cup {Rep(n, 57) : n \in {3, 104, 200, 256, 300}}

RunsOf(trees, options, files) == [tree : trees, opts : options, dialplanFile : files]

ModemRuns == RunsOf(ModemTrees, {Opt(TRUE, FALSE, 0)}, {NoFile})
MtaRuns   == RunsOf(MtaTrees, {Opt(FALSE, p, h) : p \in BOOLEAN, h \in {0, 2}}, Plans)
AllRuns   == ModemRuns \cup MtaRuns

LongModemRuns == RunsOf({<<Net, MibBig>>}, {Opt(TRUE, FALSE, 0)}, {NoFile})

\* What the listing would stop on, the decoding of the file stops on.
NeverStops(b) == FALSE

Sample(m, i) == IF m = <<>> THEN i
                ELSE (m[((i * 37) % Len(m)) + 1] + i * Len(m)) % 256
Md5Of(m, i)  == Sample(m, i)
HmacOf(m, i) == (Sample(m, i) + 1) % 256
Sha1Of(m, i) == (Sample(m, i) + 2) % 256
=============================================================================
