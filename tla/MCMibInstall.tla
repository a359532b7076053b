---------------------------- MODULE MCMibInstall ----------------------------
(***************************************************************************)
(* MibInstall on every list of up to four different definitions out of     *)
(* twelve, in every load order: chains, two definitions of one OID, two    *)
(* OIDs of one name, numbered names, bare names behind a number, a parent  *)
(* nobody defines.                                                         *)
(***************************************************************************)
EXTENDS MibInstall, FiniteSets

MCLabels == {"ccitt", "iso", "joint", "a", "b", "c", "c2", "d", "e", "f", "g", "h",
             "m", "org", "z"}

Syn(t)  == [base |-> TRUE, enums |-> FALSE, other |-> FALSE, tag |-> t]
SynE(t) == [base |-> FALSE, enums |-> TRUE, other |-> TRUE, tag |-> t]
SynO(t) == [base |-> FALSE, enums |-> FALSE, other |-> TRUE, tag |-> t]

Plain(l, es)    == [name |-> l, elems |-> es, hasSyntax |-> FALSE, syntax |-> BlankSyntax,
                    indexes |-> 0, augments |-> 0]
With(l, es, sy) == [name |-> l, elems |-> es, hasSyntax |-> TRUE, syntax |-> sy,
                    indexes |-> sy.tag, augments |-> sy.tag]

Pool == {
  Plain("a", <<Name("iso"), Num(3)>>),
  Plain("a", <<Name("iso"), Num(4)>>),
  Plain("b", <<Name("a"), Num(1)>>),
  With("c", <<Name("b"), Num(1)>>, Syn(1)),
  With("c2", <<Name("iso"), Num(3), Num(1), Num(1)>>, SynE(2)),
  With("d", <<Num(1), NamedNum("a", 3), NamedNum("d", 1), Num(1)>>, SynO(3)),
  Plain("e", <<Name("a"), Name("b"), Num(5)>>),
  Plain("f", <<Name("iso"), NamedNum("org", 3), Name("m"), Num(4)>>),
  With("g", <<Name("org"), Num(1)>>, Syn(4)),
  With("h", <<Name("c")>>, Syn(5)),
  Plain("z", <<>>),
  With("org", <<Num(7), NamedNum("m", 3)>>, Syn(6)) }

Orders(n) == UNION {{s \in [1..k -> Pool] : Cardinality({s[i] : i \in 1..k}) = k} : k \in 0..n}

AllOrders == Orders(4)
=============================================================================
