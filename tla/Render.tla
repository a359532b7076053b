------------------------------- MODULE Render -------------------------------
(***************************************************************************)
(* sprint_objid of src/mib/render.rs: a numeric object identifier is       *)
(* printed with the names of the tree, and what lies beyond the tree as    *)
(* table indexes (strings, names of values, addresses) or bare numbers.    *)
(*                                                                         *)
(* get_symbol calls itself once per arc, and format_indexes calls it again *)
(* for an index that is an object identifier: `outer` holds those calls.   *)
(***************************************************************************)
EXTENDS MibTree

VARIABLES
  tree,     \* index of the tree
  oid,      \* the identifier to print
  format,   \* "Numeric", "Full" or "Suffix"
  mode,     \* "walk", "index", "numbers", "return", "rendered"
  rest,     \* sub-identifiers not printed yet
  at,       \* node whose children are `subtree`, 0 for the roots
  dices,    \* in_dices, <<>> for None
  todo,     \* indexes format_indexes has still to print
  outer,    \* suspended calls of format_indexes
  text,     \* buf
  known,    \* end_of_known: length of the text then, 0 for None
  marks     \* ghost: what was printed that may not be read as it was

rvars == <<format, mode, rest, at, dices, todo, outer, text, known, marks>>

mib == Installed[tree]

StartPrinting(f) ==
  /\ format' = f /\ mode' = "walk" /\ rest' = oid /\ at' = 0 /\ dices' = <<>>
  /\ todo' = <<>> /\ outer' = <<>> /\ text' = <<Dot>> /\ known' = 0 /\ marks' = {}

-----------------------------------------------------------------------------
(* get_symbol *)

Numeric == format = "Numeric"

Walking == mode = "walk"
Matches == IF rest = <<>> THEN {} ELSE WithSubid(mib, at, Head(rest))

NameOf(i) == IF Anonymous(mib, i) \/ Numeric THEN Number(mib.nodes[i].subid)
             ELSE Word(mib.nodes[i].label)

WalkKnown ==
  /\ Walking
  /\ \E i \in Matches :
       /\ IsFirst(i, Matches)
       /\ at' = i
       /\ dices' = IF IndexesOf(mib, i) # <<>> THEN IndexesOf(mib, i) ELSE dices
       /\ text' = Append(text, NameOf(i)) \o (IF Len(rest) > 1 THEN <<Dot>> ELSE <<>>)
  /\ rest' = Tail(rest)
  /\ mode' = IF Len(rest) > 1 THEN "walk" ELSE "return"
  /\ UNCHANGED <<format, todo, outer, known, marks>>

\* An arc below a row entry that is no column is still the column's number.
UnknownColumn == dices # <<>> /\ ChildrenOf(mib, at) # {} /\ rest # <<>>

WalkUnknown ==
  /\ Walking /\ Matches = {}
  /\ known' = IF outer = <<>> THEN Len(text) ELSE known
  /\ text' = IF UnknownColumn THEN text \o <<Number(Head(rest)), Dot>> ELSE text
  /\ rest' = IF UnknownColumn THEN Tail(rest) ELSE rest
  /\ mode' = IF Numeric \/ dices = <<>> THEN "numbers" ELSE "index"
  /\ todo' = dices
  /\ UNCHANGED <<format, at, dices, outer, marks>>

-----------------------------------------------------------------------------
(* format_indexes *)

Indexing == mode = "index"
More     == Indexing /\ todo # <<>> /\ rest # <<>>
Idx      == Head(todo)
IdxNode  == mib.byLabel[Idx.label]
IdxSyn   == mib.nodes[IdxNode].syntax
Base(b)  == More /\ IdxNode # 0 /\ IdxSyn.base = b

Pieces(n)  == SubSeq(rest, 1, n)
Behind(n)  == SubSeq(rest, n + 1, Len(rest))
Printable(n) == n \in 32..126

\* dump_oid_to_string: no quotes and nothing between them for no arcs at all;
\* what cannot be printed becomes a dot.
Quoted(s, q) ==
  IF s = <<>> THEN <<>>
  ELSE <<q>> \o [i \in DOMAIN s |-> IF Printable(s[i]) THEN Chr(s[i]) ELSE Dot] \o <<q>>

StringMarks(s, q) ==
  (IF \E i \in DOMAIN s : ~Printable(s[i]) THEN {"substituted"} ELSE {})
    \cup (IF \E i \in DOMAIN s : s[i] = 58 \/ ~(IF q = SingleQ THEN InQuotes(Chr(s[i])) ELSE InText(Chr(s[i])))
          THEN {"special"} ELSE {})
    \cup (IF q = SingleQ /\ (Len(s) < Len(rest) \/ Contains(text, DoubleQ))
          THEN {"single quotes inside"} ELSE {})

\* One index printed: `piece` for the first n arcs, then a dot.
Printed(n, piece, ms) ==
  /\ text' = text \o piece \o <<Dot>> /\ rest' = Behind(n) /\ todo' = Tail(todo)
  /\ marks' = marks \cup ms
  /\ UNCHANGED <<format, mode, at, dices, outer, known>>

ImpliedString ==
  /\ Base("OctetStr") /\ Idx.implied
  /\ Printed(Len(rest), Quoted(rest, SingleQ), StringMarks(rest, SingleQ))

FixedString ==
  /\ Base("OctetStr") /\ ~Idx.implied /\ IsFixed(IdxSyn) /\ FixedLen(IdxSyn) <= Len(rest)
  /\ LET s == Pieces(FixedLen(IdxSyn))
     IN Printed(FixedLen(IdxSyn), Quoted(s, SingleQ), StringMarks(s, SingleQ))

\* The string behind its length arc.
Counted(n) == SubSeq(rest, 2, n)

CountedString ==
  LET n == Head(rest) + 1 IN
  /\ Base("OctetStr") /\ ~Idx.implied /\ ~IsFixed(IdxSyn) /\ n <= Len(rest)
  /\ Printed(n, IF n = 1 THEN <<DoubleQ, DoubleQ>> ELSE Quoted(Counted(n), DoubleQ),
             StringMarks(Counted(n), DoubleQ))

\* The first enumerated value of that number gives its name.
Meaning(s, v) == SelectInSeq(s.enums, LAMBDA e : e.value = v)

IntegerIndex ==
  LET v == Head(rest)
      e == Meaning(IdxSyn, v)
  IN /\ Base("Integer")
     /\ IF e = 0 THEN Printed(1, <<Number(v)>>, {})
        ELSE Printed(1, <<Word(IdxSyn.enums[e].label)>>, {"named value"})

TicksIndex == Base("TimeTicks") /\ Printed(1, <<Number(Head(rest))>>, {})

Dotted(s) == [i \in 1..(2 * Len(s) - 1) |-> IF i % 2 = 1 THEN Number(s[(i + 1) \div 2]) ELSE Dot]

AddressIndex == Base("IpAddr") /\ Len(rest) >= 4 /\ Printed(4, Dotted(Pieces(4)), {})

\* A network address other than an IP address ends the breakdown.
NetworkIndex ==
  /\ Base("NetAddr")
  /\ IF Head(rest) = 1 /\ Len(rest) >= 5
     THEN Printed(5, Dotted(Pieces(5)), {})
     ELSE /\ text' = text \o <<Number(Head(rest)), Dot>>
          /\ rest' = Tail(rest) /\ mode' = "numbers"
          /\ UNCHANGED <<format, at, dices, todo, outer, known, marks>>

OidLen == IF Idx.implied THEN Len(rest) ELSE Head(rest) + 1

OidIndex ==
  /\ Base("ObjId") /\ OidLen <= Len(rest)
  /\ outer' = <<[rest |-> Behind(OidLen), todo |-> Tail(todo)]>> \o outer
  /\ rest' = Pieces(OidLen) /\ at' = 0 /\ dices' = <<>> /\ todo' = <<>> /\ mode' = "walk"
  /\ marks' = marks \cup {"named value"}
  /\ UNCHANGED <<format, text, known>>

\* No more indexes, or one that does not fit what is left.
TooShort ==
  \/ Base("OctetStr") /\ ~Idx.implied
       /\ IF IsFixed(IdxSyn) THEN FixedLen(IdxSyn) > Len(rest) ELSE Head(rest) + 1 > Len(rest)
  \/ Base("IpAddr") /\ Len(rest) < 4
  \/ Base("ObjId") /\ OidLen > Len(rest)

IndexOver ==
  /\ Indexing
  /\ ~More \/ (More /\ IdxNode = 0) \/ Base("Other") \/ TooShort
  /\ mode' = "numbers"
  /\ UNCHANGED <<format, rest, at, dices, todo, outer, text, known, marks>>

-----------------------------------------------------------------------------
\* What is left prints as numbers; the dot behind the last piece goes.
BareNumbers ==
  /\ mode = "numbers"
  /\ LET open == IF Last(text) = Dot THEN text ELSE Append(text, Dot)
     IN text' = IF rest = <<>> THEN Front(open) ELSE open \o Dotted(rest)
  /\ rest' = <<>> /\ mode' = "return"
  /\ UNCHANGED <<format, at, dices, todo, outer, known, marks>>

\* A nested call returns to format_indexes, which goes on to the next index.
ReturnInner ==
  /\ mode = "return" /\ outer # <<>>
  /\ rest' = Head(outer).rest /\ todo' = Head(outer).todo /\ outer' = Tail(outer)
  /\ text' = Append(text, Dot) /\ mode' = "index"
  /\ UNCHANGED <<format, at, dices, known, marks>>

\* A slip: behind the known part.
SuffixFromDot(t, k) == IF k # 0 THEN k + 1 ELSE 1

\* Where "Suffix" begins: at the last name before the unknown arcs, or the last
\* name at all, and at the very front when there is none.
SuffixFrom(t, k) ==
  LET last == IF k # 0 THEN k - 1 ELSE SelectLastInSeq(t, LAMBDA a : a.kind = "word")
      dot  == SelectLastInSubSeq(t, 1, last, LAMBDA a : a = Dot)
  IN dot + 1

FinishPrinting ==
  /\ mode = "return" /\ outer = <<>>
  /\ mode' = "rendered"
  /\ text' = IF format = "Suffix" THEN SubSeq(text, SuffixFrom(text, known), Len(text))
             ELSE text
  /\ UNCHANGED <<format, rest, at, dices, todo, outer, known, marks>>

PrintIndex == ImpliedString \/ FixedString \/ CountedString \/ IntegerIndex
                \/ TicksIndex \/ AddressIndex \/ NetworkIndex \/ OidIndex \/ IndexOver

PrintStep == WalkKnown \/ WalkUnknown \/ PrintIndex \/ BareNumbers \/ ReturnInner
               \/ FinishPrinting
=============================================================================
