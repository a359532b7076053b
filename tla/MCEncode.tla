------------------------------ MODULE MCEncode ------------------------------
(***************************************************************************)
(* Instances of Encode for TLC.  Settings are the shortest ones that take  *)
(* each branch: values of 0, 1, 254, 255 and 256 bytes, blocks that just   *)
(* fit and just do not, oversized MIB objects at the top and inside a      *)
(* block, the delimiter in first and in last place.                        *)
(***************************************************************************)
EXTENDS EncodeContract

Rep(n, b) == [i \in 1..n |-> b]

Net    == Leaf(3, <<1>>)
Cpe    == Leaf(18, <<>>)                     \* GenericTLV of length zero
Vendor == Leaf(43, <<8, 3>>)                 \* value that looks like a header
Mib    == Leaf(11, <<48, 1, 64>>)
MibBig == Leaf(11, Rep(258, 4))
Mib255 == Leaf(11, Rep(255, 3))
TooBig == Leaf(9, Rep(256, 1))
Cos    == Block(4, <<Leaf(1, <<1>>), Leaf(2, <<>>)>>)
Nest   == Block(24, <<Block(43, <<Leaf(8, <<255>>)>>), Leaf(1, <<2>>)>>)
FullB  == Block(17, <<Leaf(1, Rep(253, 6))>>)
OverB  == Block(17, <<Leaf(1, Rep(253, 6)), Leaf(2, <<>>)>>)
LongIn == Block(24, <<Block(43, <<MibBig>>), Net>>)
MidIn  == Block(24, <<Leaf(11, Rep(130, 7))>>)
Empty  == Block(25, <<>>)
Mcast  == Block(64, <<Leaf(1, <<5>>)>>)      \* static multicast session
DelimA == Leaf(254, <<1>>)
DelimZ == Leaf(254, <<255>>)

\* How deep the settings inside of t go.
Depth[t \in Tlvs] == IF t.children = <<>> THEN 0
                     ELSE 1 + Max({Depth[t.children[i]] : i \in DOMAIN t.children})
ASSUME DepthAssumption == Graded(Depth)

Common == {Net, Cpe, Vendor, Cos}
Edge   == {Mib, MibBig, Mib255, TooBig, Nest, FullB, OverB, LongIn, MidIn, Empty, DelimA}

SeqsUpTo(S, n) == UNION {[1..k -> S] : k \in 0..n}

Children(t) == {t.children[i] : i \in DOMAIN t.children}
Closure(S) == LET S1 == S \cup UNION {Children(t) : t \in S}
              IN S1 \cup UNION {Children(t) : t \in S1}

MCTlvs == Closure(Common \cup Edge \cup {Mcast, DelimZ})

McastTrees == {<<Mcast, Net>>, <<Net, Mcast, Cos, Net>>, <<Mcast, Vendor>>, <<Cos, Mcast>>}
ModemTrees == SeqsUpTo(Common, 3) \cup McastTrees
                \cup {<<a, b, c>> : a \in {Net, Cpe}, b \in Edge, c \in {Net, Cos}}
                \cup {<<a, b>> : a \in Edge, b \in Edge}
                \cup {<<MibBig, Cos, Net, Cpe, Vendor>>, <<TooBig>>}
MtaTrees   == {<<DelimA>> \o s : s \in {<<DelimZ>>, <<Mib, DelimZ>>, <<MibBig, Mib, DelimZ>>,
                                          <<Empty, DelimZ>>, <<Mib>>, <<>>}}
                \cup {<<TooBig>>, <<Cpe>>, <<Mib, DelimZ>>}

Opt(d, p, h) == [docsis |-> d, dialplan |-> p, hash |-> h]

\* Around the sizes at which a length field changes form: 105, 127, 255.
Plans    == {NoFile} \cup {Rep(n, 57) : n \in {0, 1, 105, 106, 127, 128, 255, 256, 600}}

RunsOf(trees, options, files) == [tree : trees, opts : options, dialplanFile : files]

ModemRuns == RunsOf(ModemTrees, {Opt(TRUE, FALSE, 0)}, {NoFile})
MtaRuns   == RunsOf(MtaTrees, {Opt(FALSE, p, h) : p \in BOOLEAN, h \in 0..2}, Plans)
AllRuns   == ModemRuns \cup MtaRuns
McastRuns == RunsOf(McastTrees, {Opt(TRUE, FALSE, 0)}, {NoFile})

\* The listing stops on an empty TLV 25, wherever it is.
StopsOn(b) == \E i \in 1..(Len(b) - 1) : b[i] = 25 /\ b[i + 1] = 0

\* Any function of the message that tells the messages of a run apart: its
\* length and a sample of its bytes.
Sample(m, i) == IF m = <<>> THEN i
                ELSE (m[((i * 37) % Len(m)) + 1] + i * Len(m)) % 256
Md5Of(m, i)  == Sample(m, i)
HmacOf(m, i) == (Sample(m, i) + 1) % 256
Sha1Of(m, i) == (Sample(m, i) + 2) % 256
=============================================================================
