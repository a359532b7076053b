------------------------------ MODULE MCNames ------------------------------
(***************************************************************************)
(* Names on a tree with one table, iso.tab.ent.{col, val, ...}, for every  *)
(* list of up to two indexes of nine kinds, and on trees with unnamed      *)
(* nodes, shared names and an augmented row.                               *)
(***************************************************************************)
EXTENDS Names, TLC, FiniteSetsExt

CONSTANTS ccitt, iso, tab, ent, col, val, row, arc, up, down, int, str, fix, ip, net, ticks, obj, cnt, lim, lost

MCLabels == {ccitt, iso, tab, ent, col, val, row, arc, up, down, int, str, fix, ip, net,
             ticks, obj, cnt, lim, lost}

Syn(b)          == [base |-> b, enums |-> <<>>, ranges |-> <<>>]
Limited(b, l, h) == [Syn(b) EXCEPT !.ranges = <<[lo |-> l, hi |-> h]>>]
Enumerated      == [Syn("Integer") EXCEPT !.enums = <<[label |-> up, value |-> 1],
                                                      [label |-> down, value |-> 2]>>]

N(l, s, p)      == [label |-> l, subid |-> s, parent |-> p, syntax |-> Syn("Other"),
                    indexes |-> <<>>, augments |-> NoLabel]
Obj(l, s, p, y) == [N(l, s, p) EXCEPT !.syntax = y]

\* The first node of a name keeps it.
Names1(ns) == Restrict(FoldLeftDomain(LAMBDA f, i : f @@ (ns[i].label :> i), <<>>, ns)
                         @@ [l \in Labels |-> 0], Labels)
Tree(ns) == [nodes |-> ns, byLabel |-> Names1(ns)]

I(l)  == [label |-> l, implied |-> FALSE]
II(l) == [label |-> l, implied |-> TRUE]

Kinds == {I(int), I(str), I(fix), I(ip), I(obj), I(val)}
Rare  == {I(net), I(ticks), I(cnt), I(lim), I(lost)}
OneIndex   == {<<a>> : a \in Kinds \cup Rare \cup {II(str), II(obj), II(fix)}}
TwoIndexes == {<<a, b>> : a \in Kinds, b \in {I(int), I(str), I(fix), II(str)}}
IndexLists == OneIndex \cup TwoIndexes

\* iso.1.1.2 is `val`, an enumerated column; the other columns only type indexes.
TableNodes(idx) ==
  << N(ccitt, 0, 0), N(iso, 1, 0), N(tab, 1, 2), [N(ent, 1, 3) EXCEPT !.indexes = idx],
     N(col, 1, 4), Obj(val, 2, 4, Enumerated), Obj(int, 3, 4, Syn("Integer")),
     Obj(str, 4, 4, Syn("OctetStr")), Obj(fix, 5, 4, Limited("OctetStr", 2, 2)),
     Obj(ip, 6, 4, Syn("IpAddr")), Obj(net, 7, 4, Syn("NetAddr")),
     Obj(ticks, 8, 4, Syn("TimeTicks")), Obj(obj, 9, 4, Syn("ObjId")),
     Obj(cnt, 10, 4, Syn("Other")), Obj(lim, 11, 4, Limited("OctetStr", 1, 2)),
     \* iso.7.3 has an unnamed parent; iso.6 shares the column's name
     N(NoLabel, 7, 2), N(row, 3, 16), N(col, 6, 2),
     \* a second row that augments the first, with a column that has children
     [N(row, 2, 3) EXCEPT !.augments = ent], N(arc, 1, 19), N(NoLabel, 4, 20) >>

MCMibs == FoldSet(LAMBDA idx, f : f @@ (idx :> Tree(TableNodes(idx))), <<>>, IndexLists)

Arcs  == {0, 1, 2, 97}
Chars == {34, 39, 45, 46, 58, 64, 92, 97, 300}

SeqsUpTo(S, n) == UNION {[1..k -> S] : k \in 0..n}
Under(p, S) == {p \o t : t \in S}

Tails  == SeqsUpTo(Arcs, 3)
Quirks == {<<1>> \o t : t \in SeqsUpTo(Chars, 1)}
            \cup {<<2>> \o t : t \in SeqsUpTo(Chars, 2)} \cup SeqsUpTo(Chars, 2)
            \cup Under(<<2, 97, 97>>, SeqsUpTo(Arcs, 2)) \cup {<<1, 1, 2, 97, 2>>, <<1, 97, 97, 2>>}

OneColumn == Under(<<1, 1, 1, 1>>, Tails \cup Quirks)
\* A column the row does not have, and a column of the augmenting row.
OtherColumns == Under(<<1, 1, 1, 99>>, SeqsUpTo(Arcs, 2))
                  \cup Under(<<1, 1, 2, 1>>, SeqsUpTo(Arcs, 2) \cup {<<4, 97>>})
Elsewhere == {<<>>, <<1, 1>>, <<1, 1, 1>>, <<2, 3>>, <<2, 3, 0>>, <<1, 7>>,
              <<1, 7, 3>>, <<1, 7, 3, 0>>, <<1, 7, 4>>, <<1, 7, 4, 0>>,
              <<1, 6, 0>>, <<1, 6>>, <<1, 1, 2, 1, 4>>, <<1, 1, 2, 1, 4, 97>>}

Of(idxs, oids) == [mib : idxs, oid : oids]

MCPrints == Of(OneIndex, OneColumn) \cup Of({<<a>> : a \in Kinds}, OtherColumns)
              \cup Of(TwoIndexes, Under(<<1, 1, 1, 1>>, SeqsUpTo({1, 2, 97}, 3)))
              \cup Of({<<I(int)>>}, Elsewhere)

\* An identifier whose last node in the tree has no name.
UnnamedPrints == Of({<<I(int)>>}, {<<1, 7, 4>>, <<1, 7, 4, 0>>, <<1, 7, 4, 0, 1>>})
=============================================================================
