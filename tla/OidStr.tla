------------------------------- MODULE OidStr -------------------------------
(***************************************************************************)
(* resolve_oid and its relatives of src/mib/oidstr.rs: a printed object    *)
(* identifier is read back to numbers, as a name followed by arcs          *)
(* (get_node) or as a path from the roots (read_objid), whichever of the   *)
(* two succeeds first.                                                     *)
(***************************************************************************)
EXTENDS Render

VARIABLES
  rstage,    \* "idle", "attempt", "descend", "index", "bytes", "tail",
             \* "resolved" or "refused"
  attempts,  \* "name" for get_node, "path" for read_objid, in order
  cp,        \* text still to read
  some,      \* whether there is any: cp.is_some()
  node,      \* Cur: 0 for Top
  indexes,   \* in_dices, while there is text
  left,      \* characters of a string, or bytes of an address, still to read
  got        \* the identifier read

ovars == <<rstage, attempts, cp, some, node, indexes, left, got>>

\* The encoder looks names up first; a value's identifier is read as a path first.
NameFirst == <<"name", "path">>
PathFirst == <<"path", "name">>

StartReading(order) ==
  /\ rstage' = "attempt" /\ attempts' = order
  /\ cp' = <<>> /\ some' = FALSE /\ node' = 0 /\ indexes' = <<>> /\ left' = 0 /\ got' = <<>>

\* The component is consumed.
Advance == cp' = RestOf(cp) /\ some' = HasRest(cp)

-----------------------------------------------------------------------------
(* get_node and read_objid *)

Unqualified(t) == SubSeq(t, SelectLastInSeq(t, LAMBDA a : a = Colon) + 1, Len(t))
Undotted(t)    == IF t # <<>> /\ t[1] = Dot THEN Tail(t) ELSE t
NamePart       == Undotted(Unqualified(text))

Attempting(a) == rstage = "attempt" /\ Head(attempts) = a
NameKnown     == IsWord(Comp(NamePart)) /\ mib.byLabel[Comp(NamePart)[1].word] # 0

GetNode ==
  /\ Attempting("name") /\ NameKnown
  /\ node' = mib.byLabel[Comp(NamePart)[1].word]
  /\ got' = OidOf(mib, node')
  /\ cp' = RestOf(NamePart) /\ some' = HasRest(NamePart)
  /\ rstage' = IF some' THEN "descend" ELSE "resolved"
  /\ UNCHANGED <<attempts, indexes, left>>

\* A path with a colon in it is left to get_node.
ReadObjid ==
  /\ Attempting("path")
  /\ IF Contains(text, Colon)
     THEN /\ attempts' = <<"name">> \o Tail(attempts)
          /\ UNCHANGED <<rstage, cp, some, node, indexes, left, got>>
     ELSE /\ cp' = Undotted(text) /\ some' = TRUE
          /\ node' = 0 /\ got' = <<>> /\ rstage' = "descend"
          /\ UNCHANGED <<attempts, indexes, left>>

-----------------------------------------------------------------------------
(* add_strings_to_oid: down the tree *)

Descending == rstage = "descend" /\ some /\ ChildrenOf(mib, node) # {}

\* The children a component may stand for: the label of a node without a name
\* is the empty string, and so an empty component finds it.
Meant(c) == CASE IsNumber(c) -> WithSubid(mib, node, c[1].n)
              [] IsWord(c)   -> Labelled(mib, node, c[1].word)
              [] c = <<>>    -> Labelled(mib, node, NoLabel)
              [] OTHER       -> {}

DescendKnown ==
  /\ Descending
  /\ \E i \in Meant(Comp(cp)) :
       /\ IsFirst(i, Meant(Comp(cp)))
       /\ node' = i /\ got' = Append(got, mib.nodes[i].subid)
  /\ Advance
  /\ UNCHANGED <<rstage, attempts, indexes, left>>

DescendUnknown ==
  /\ Descending /\ IsNumber(Comp(cp)) /\ Meant(Comp(cp)) = {}
  /\ got' = Append(got, Comp(cp)[1].n)
  /\ Advance
  /\ rstage' = "index" /\ indexes' = <<>>
  /\ UNCHANGED <<attempts, node, left>>

\* Behind a leaf come the index values of its row.
RowIndexes(i) ==
  IF i = 0 \/ ChildrenOf(mib, i) # {} \/ mib.nodes[i].parent = 0 THEN <<>>
  ELSE IndexesOf(mib, mib.nodes[i].parent)

EndDescent ==
  /\ rstage = "descend" /\ ~Descending
  /\ rstage' = "index" /\ indexes' = RowIndexes(node)
  /\ UNCHANGED <<attempts, cp, some, node, left, got>>

-----------------------------------------------------------------------------
(* add_strings_to_oid: index values *)

Reading == rstage = "index" /\ some /\ indexes # <<>>
RdNode  == mib.byLabel[Head(indexes).label]
RdSyn   == mib.nodes[RdNode].syntax
RdBase(B) == Reading /\ RdNode # 0 /\ RdSyn.base \in B

EndIndexes ==
  /\ rstage = "index"
  /\ ~Reading \/ (Reading /\ RdNode = 0) \/ RdBase({"NetAddr", "ObjId", "Other"})
  /\ rstage' = "tail"
  /\ UNCHANGED <<attempts, cp, some, node, indexes, left, got>>

\* A number, or the first enumerated value of that name, within the ranges.
ValuesOf(c) ==
  IF IsNumber(c) THEN {c[1].n}
  ELSE LET e == SelectInSeq(RdSyn.enums, LAMBDA x : IsWord(c) /\ x.label = c[1].word)
       IN IF e = 0 THEN {} ELSE {RdSyn.enums[e].value}

ReadInteger ==
  /\ RdBase({"Integer", "TimeTicks"})
  /\ \E v \in ValuesOf(Comp(cp)) : InRanges(RdSyn, v) /\ got' = Append(got, v)
  /\ Advance /\ indexes' = Tail(indexes)
  /\ UNCHANGED <<rstage, attempts, node, left>>

ReadAddress ==
  /\ RdBase({"IpAddr"})
  /\ rstage' = "bytes" /\ left' = 4 /\ indexes' = Tail(indexes)
  /\ UNCHANGED <<attempts, cp, some, node, got>>

QuotedNext == cp # <<>> /\ cp[1] \in {DoubleQ, SingleQ}
ReadString == RdBase({"OctetStr"})
Counts     == ~IsFixed(RdSyn) /\ ~Head(indexes).implied

\* An unquoted string: its length first, unless it is fixed; one whose length
\* is not known at all takes no arc and leaves them to what comes next.
ReadCounted ==
  /\ ReadString /\ ~QuotedNext /\ Counts /\ IsNumber(Comp(cp))
  /\ got' = Append(got, Comp(cp)[1].n) /\ left' = Comp(cp)[1].n
  /\ Advance /\ indexes' = Tail(indexes) /\ rstage' = "bytes"
  /\ UNCHANGED <<attempts, node>>

ReadUncounted ==
  /\ ReadString /\ ~QuotedNext /\ ~Counts
  /\ left' = IF IsFixed(RdSyn) THEN FixedLen(RdSyn) ELSE 0
  /\ indexes' = Tail(indexes) /\ rstage' = "bytes"
  /\ UNCHANGED <<attempts, cp, some, node, got>>

ReadByte ==
  /\ rstage = "bytes" /\ left > 0 /\ some
  /\ IsNumber(Comp(cp)) /\ Comp(cp)[1].n <= 255
  /\ got' = Append(got, Comp(cp)[1].n) /\ left' = left - 1
  /\ Advance
  /\ UNCHANGED <<rstage, attempts, node, indexes>>

EndBytes ==
  /\ rstage = "bytes" /\ (left = 0 \/ ~some)
  /\ rstage' = "index" /\ left' = 0
  /\ UNCHANGED <<attempts, cp, some, node, indexes, got>>

\* find_unescaped and unescape: a backslash protects the next character.
Escaped(t) ==
  LET e[i \in 0..Len(t)] == i > 1 /\ t[i - 1] = Backslash /\ ~e[i - 1] IN e
CloseAt(t, q) ==
  LET s == {i \in 2..Len(t) : t[i] = q /\ ~Escaped(SubSeq(t, 2, Len(t)))[i - 1]}
  IN IF s = {} THEN 0 ELSE CHOOSE i \in s : \A j \in s : i <= j
Unescape(t) ==
  FlattenSeq([i \in DOMAIN t |-> IF t[i] = Backslash /\ ~Escaped(t)[i] THEN <<>> ELSE <<t[i]>>])

\* The bytes of a text: a number is its digits (below 1000), a word one letter.
BytesOf(t) ==
  FlattenSeq([i \in DOMAIN t |->
    CASE t[i].kind = "chr" -> <<t[i].n>>
      [] t[i].kind = "num" -> (IF t[i].n > 99 THEN <<48 + (t[i].n \div 100)>> ELSE <<>>)
                                \o (IF t[i].n > 9 THEN <<48 + ((t[i].n \div 10) % 10)>> ELSE <<>>)
                                \o <<48 + (t[i].n % 10)>>
      [] OTHER -> <<97>>])

\* Double quotes around what has a length arc, single ones around the rest.
RightQuote == cp[1] = (IF Counts THEN DoubleQ ELSE SingleQ)

Close  == CloseAt(cp, cp[1])
Body   == BytesOf(Unescape(SubSeq(cp, 2, Close - 1)))
DotBehind(i) == i < Len(cp) => cp[i + 1] = Dot

\* A slip: the length arc forgotten.
QuotedArcsBare(b) == b

QuotedArcs(b) == IF Counts THEN <<Len(b)>> \o b ELSE b

LengthRight == IF IsFixed(RdSyn) THEN Len(Body) = FixedLen(RdSyn)
               ELSE InRanges(RdSyn, Len(Body))

ReadQuoted ==
  /\ ReadString /\ QuotedNext /\ RightQuote /\ Close # 0 /\ DotBehind(Close) /\ LengthRight
  /\ got' = got \o QuotedArcs(Body)
  /\ cp' = SubSeq(cp, Close + 2, Len(cp)) /\ some' = (Close < Len(cp))
  /\ indexes' = Tail(indexes)
  /\ UNCHANGED <<rstage, attempts, node, left>>

-----------------------------------------------------------------------------
(* add_strings_to_oid: the bare tail *)

InTail == rstage = "tail" /\ some

TailNumber ==
  /\ InTail /\ IsNumber(Comp(cp))
  /\ got' = Append(got, Comp(cp)[1].n)
  /\ Advance
  /\ UNCHANGED <<rstage, attempts, node, indexes, left>>

\* Here no character is protected, and only double quotes have a length arc.
TailClose == SelectInSubSeq(cp, 2, Len(cp), LAMBDA a : a = cp[1])
TailBody  == BytesOf(SubSeq(cp, 2, TailClose - 1))

TailQuoted ==
  /\ InTail /\ QuotedNext /\ TailClose # 0 /\ DotBehind(TailClose)
  /\ got' = got \o (IF cp[1] = DoubleQ THEN <<Len(TailBody)>> ELSE <<>>) \o TailBody
  /\ cp' = SubSeq(cp, TailClose + 2, Len(cp)) /\ some' = (TailClose < Len(cp))
  /\ UNCHANGED <<rstage, attempts, node, indexes, left>>

Resolve ==
  /\ rstage = "tail" /\ ~some
  /\ rstage' = "resolved"
  /\ UNCHANGED <<attempts, cp, some, node, indexes, left, got>>

-----------------------------------------------------------------------------
\* The early returns of FALSE and None.
Stuck ==
  \/ Attempting("name") /\ ~NameKnown
  \/ Descending /\ ~IsNumber(Comp(cp)) /\ Meant(Comp(cp)) = {}
  \/ RdBase({"Integer", "TimeTicks"}) /\ ~(\E v \in ValuesOf(Comp(cp)) : InRanges(RdSyn, v))
  \/ ReadString /\ ~QuotedNext /\ Counts /\ ~IsNumber(Comp(cp))
  \/ ReadString /\ QuotedNext
       /\ ~(RightQuote /\ Close # 0 /\ DotBehind(Close) /\ LengthRight)
  \/ rstage = "bytes" /\ left > 0 /\ some
       /\ ~(IsNumber(Comp(cp)) /\ Comp(cp)[1].n <= 255)
  \/ InTail /\ ~IsNumber(Comp(cp)) /\ ~(QuotedNext /\ TailClose # 0 /\ DotBehind(TailClose))

\* The other way of reading is tried next, if there is one.
GiveUp ==
  /\ Stuck
  /\ attempts' = Tail(attempts)
  /\ rstage' = IF attempts' = <<>> THEN "refused" ELSE "attempt"
  /\ UNCHANGED <<cp, some, node, indexes, left, got>>

ReadIndex == ReadInteger \/ ReadAddress \/ ReadCounted \/ ReadUncounted \/ ReadByte
               \/ EndBytes \/ ReadQuoted \/ EndIndexes

ReadStep == GetNode \/ ReadObjid \/ DescendKnown \/ DescendUnknown \/ EndDescent
              \/ ReadIndex \/ TailNumber \/ TailQuoted \/ Resolve \/ GiveUp
=============================================================================
