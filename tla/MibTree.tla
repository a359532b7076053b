------------------------------- MODULE MibTree -------------------------------
(***************************************************************************)
(* The installed tree of object identifiers that src/mib/render.rs and     *)
(* src/mib/oidstr.rs read, and the text that passes between them.  As in   *)
(* MibInstall the children of a node are the nodes that have it as parent, *)
(* in order of their numbers, and the roots are the children of 0.         *)
(*                                                                         *)
(* A text is a sequence of whole words, whole numbers and the single       *)
(* characters of dots, quotes and quoted strings.  No word is a number.    *)
(***************************************************************************)
EXTENDS Integers, Sequences, SequencesExt

CONSTANTS
  Labels,   \* object names and names of enumerated values
  NoLabel,  \* the empty name
  Mibs,     \* installed trees, a function to [nodes, byLabel]
  Prints    \* what may be printed: [mib, oid], a tree's index and an identifier

\* A definition of its own, which TLC evaluates once.
Installed == Mibs

Bases == {"Integer", "TimeTicks", "OctetStr", "IpAddr", "NetAddr", "ObjId", "Other"}

\* is_integerish makes one base of five.
Syntax == [base : Bases, enums : Seq([label : Labels, value : Nat]),
           ranges : Seq([lo : Nat, hi : Nat])]
Index  == [label : Labels, implied : BOOLEAN]
Node   == [label : Labels \cup {NoLabel}, subid : Nat, parent : Nat,
           syntax : Syntax, indexes : Seq(Index), augments : Labels \cup {NoLabel}]

\* What MibInstall!TreeSound says of every tree that Mib::install leaves.
Sound(m) ==
  /\ \A i \in DOMAIN m.nodes : m.nodes[i].parent < i
  /\ \A i, j \in DOMAIN m.nodes :
       m.nodes[i].parent = m.nodes[j].parent /\ m.nodes[i].subid = m.nodes[j].subid => i = j
  /\ \A l \in Labels : m.byLabel[l] \in 0..Len(m.nodes)
  /\ \A i \in DOMAIN m.nodes : m.nodes[i].label # NoLabel => m.byLabel[m.nodes[i].label] # 0

ASSUME TreesAssumption ==
  /\ NoLabel \notin Labels
  /\ \A i \in DOMAIN Installed : /\ Installed[i].nodes \in Seq(Node)
                                 /\ Installed[i].byLabel \in [Labels -> Nat]
                                 /\ Sound(Installed[i])
  \* parse_objid_body makes two arcs of the first number, if there is one
  /\ \A p \in Prints : /\ p.mib \in DOMAIN Installed /\ p.oid \in Seq(Nat)
                        /\ Len(p.oid) # 1 /\ (p.oid # <<>> => p.oid[1] <= 2)

-----------------------------------------------------------------------------
(* The tree.                                                               *)

ChildrenOf(m, p)   == {i \in DOMAIN m.nodes : m.nodes[i].parent = p}
WithSubid(m, p, s) == {i \in ChildrenOf(m, p) : m.nodes[i].subid = s}
Labelled(m, p, l)  == {i \in ChildrenOf(m, p) : m.nodes[i].label = l}
IsFirst(i, S)      == i \in S /\ \A j \in S : i <= j

Anonymous(m, i) == m.nodes[i].label = NoLabel

\* The INDEX list of a row entry, its own or that of the row it augments.
IndexesOf(m, i) ==
  LET n == m.nodes[i] IN
  IF n.indexes # <<>> THEN n.indexes
  ELSE IF n.augments # NoLabel /\ m.byLabel[n.augments] # 0
  THEN m.nodes[m.byLabel[n.augments]].indexes ELSE <<>>

OidOf(m, i) ==
  LET path[j \in 0..Len(m.nodes)] ==
        IF j = 0 THEN <<>> ELSE Append(path[m.nodes[j].parent], m.nodes[j].subid)
  IN path[i]

InRanges(s, v) == s.ranges = <<>> \/ \E r \in Range(s.ranges) : v \in r.lo..r.hi

\* A single range of one value makes a string's length fixed.
IsFixed(s) == Len(s.ranges) = 1 /\ s.ranges[1].lo = s.ranges[1].hi
FixedLen(s) == s.ranges[1].lo

-----------------------------------------------------------------------------
(* Text.                                                                   *)

Word(l)   == [kind |-> "word", word |-> l, n |-> 0]
Number(n) == [kind |-> "num", word |-> NoLabel, n |-> n]
Chr(c)    == [kind |-> "chr", word |-> NoLabel, n |-> c]

Atom == {a \in [kind : {"word", "num", "chr"}, word : Labels \cup {NoLabel}, n : Nat] :
           a.kind = "word" => a.word \in Labels}
Text == Seq(Atom)

Dot       == Chr(46)
Colon     == Chr(58)
DoubleQ   == Chr(34)
SingleQ   == Chr(39)
Backslash == Chr(92)

\* split_component: the text up to the next dot, and what follows it, if any.
DotAt(t)   == LET d == SelectInSeq(t, LAMBDA a : a = Dot)
              IN IF d = 0 THEN Len(t) + 1 ELSE d
Comp(t)    == SubSeq(t, 1, DotAt(t) - 1)
HasRest(t) == DotAt(t) <= Len(t)
RestOf(t)  == SubSeq(t, DotAt(t) + 1, Len(t))

IsNumber(c) == Len(c) = 1 /\ c[1].kind = "num"
IsWord(c)   == Len(c) = 1 /\ c[1].kind = "word"

-----------------------------------------------------------------------------
(* What the scanner of src/lexer.rs takes for one object identifier token. *)
(* The longest pattern that matches wins, so a text is one token when a    *)
(* pattern takes all of it; what is left of any other text is no type      *)
(* name, and the parser stops.  The pattern LabelOid is the case of        *)
(* LabelOidText without quotes, and a dotted quad passes for an identifier *)
(* too.  Words are names of letters and digits.                            *)

Alnum(a)     == a.kind # "chr" \/ a.n \in 48..57 \cup 65..90 \cup 97..122
LabelChar(a) == Alnum(a) \/ a.n \in {45, 95}
InText(a)    == LabelChar(a) \/ a.n \in {44, 46, 58}
InQuotes(a)  == InText(a) \/ a.n \in {64, 91, 93}

LeadingDots(t) ==
  LET i == SelectInSeq(t, LAMBDA a : a # Dot) IN IF i = 0 THEN Len(t) ELSE i - 1

\* oid_prefix_positions: where the last component may begin, behind groups of a
\* label and a dot.
Starts(t) ==
  LET first == LeadingDots(t) + 1
  IN {p \in first + 2 .. Len(t) :
        /\ t[p - 1] = Dot
        /\ \A i \in first .. p - 1 : IF t[i] = Dot THEN t[i - 1] # Dot ELSE LabelChar(t[i])}

\* m_label_oid_quoted: one string in single quotes, to the very end.
QuotedFrom(t, p) ==
  /\ p + 2 <= Len(t) /\ t[p] = SingleQ /\ t[Len(t)] = SingleQ
  /\ \A i \in p + 1 .. Len(t) - 1 : InQuotes(t[i])

\* m_label_oid_text: strings in double quotes and what else an index may be.
TextFrom(t, p) ==
  /\ \A i \in p .. Len(t) : t[i] = DoubleQ \/ InText(t[i])
  /\ \E i \in p .. Len(t) : t[i] # DoubleQ

OneToken(t) == \E p \in Starts(t) : QuotedFrom(t, p) \/ TextFrom(t, p)
=============================================================================
