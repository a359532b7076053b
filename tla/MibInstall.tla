----------------------------- MODULE MibInstall -----------------------------
(***************************************************************************)
(* Mib::install of src/mib/resolve.rs: the definitions read from all MIB   *)
(* modules, in load order, are placed into the tree of object identifiers. *)
(* A definition may name parents that another one still has to place, so   *)
(* passes are made over those left, until a pass places none.              *)
(*                                                                         *)
(* A step handles one component of one definition's OID value.  A node's   *)
(* list of children is in creation order, as node numbers are, and so is   *)
(* left out: the children of p are the nodes with parent p.                *)
(***************************************************************************)
EXTENDS Integers, Sequences

CONSTANTS
  DefLists,  \* the lists of definitions the parser may return
  Labels,    \* object names
  NoLabel,   \* the empty name
  ccitt, iso, jointIsoCcitt  \* the names of the three roots

ASSUME LabelsAssumption ==
  /\ NoLabel \notin Labels
  /\ {ccitt, iso, jointIsoCcitt} \subseteq Labels
  /\ ccitt # iso /\ iso # jointIsoCcitt /\ ccitt # jointIsoCcitt

\* Components of an OID value: 4, dod(6) and dod.
Num(n)         == [kind |-> "num", name |-> NoLabel, num |-> n]
NamedNum(l, n) == [kind |-> "named", name |-> l, num |-> n]
Name(l)        == [kind |-> "name", name |-> l, num |-> 0]

Elem == {e \in [kind : {"num", "named", "name"}, name : Labels \cup {NoLabel}, num : Nat] :
           e.kind # "num" => e.name \in Labels}

\* A resolved syntax: is a base type known, are there named values, is there
\* anything else; `tag` tells syntaxes with the same answers apart.
BlankSyntax == [base |-> FALSE, enums |-> FALSE, other |-> FALSE, tag |-> 0]
Syntax  == [base : BOOLEAN, enums : BOOLEAN, other : BOOLEAN, tag : Nat]

\* Clauses a definition may lack are 0.
Def == [name : Labels \cup {NoLabel}, elems : Seq(Elem), hasSyntax : BOOLEAN,
        syntax : Syntax, indexes : Nat, augments : Nat]

ASSUME DefListsAssumption ==
  \A ds \in DefLists : ds \in Seq(Def)

VARIABLES
  defs,      \* all definitions, in load order
  nodes,     \* the tree
  byLabel,   \* by_label: the node of a name, 0 when there is none
  pending,   \* definitions this pass has still to handle
  deferred,  \* definitions this pass could not place
  before,    \* how many the pass began with
  idx,       \* component of the first pending definition to handle next
  cur,       \* node reached so far, 0 at the root
  pass,      \* ghost: number of the pass
  placed,    \* ghost: <<definition, node, pass>> for each one attached
  done

tree  == <<nodes, byLabel>>
queue == <<pending, deferred, before>>
vars  == <<defs, tree, queue, idx, cur, pass, placed, done>>

-----------------------------------------------------------------------------
NewNode(l, s, p) ==
  [label |-> l, subid |-> s, parent |-> p, anonymous |-> l = NoLabel,
   syntax |-> BlankSyntax, indexes |-> 0, augments |-> 0]

Renamed(n, l) == [n EXCEPT !.label = l, !.anonymous = FALSE]

\* by_label.entry(l).or_insert(i): the first node of a name keeps it.
WithLabel(m, l, i) ==
  IF l = NoLabel \/ m[l] # 0 THEN m ELSE [m EXCEPT ![l] = i]

IsFirst(i, S)       == i \in S /\ \A j \in S : i <= j
ChildrenOf(ns, p)   == {i \in DOMAIN ns : ns[i].parent = p}
WithSubid(ns, p, s) == {i \in ChildrenOf(ns, p) : ns[i].subid = s}
Labelled(ns, p, l)  == {i \in ChildrenOf(ns, p) : ns[i].label = l}

\* A slip: a node that was anonymous gets its name, the map does not.
EnsureChildUnlisted(p, s, l, alias) ==
  LET old == WithSubid(nodes, p, s) IN
  \E i \in 1..(Len(nodes) + 1) :
    /\ IF old # {} THEN IsFirst(i, old) ELSE i = Len(nodes) + 1
    /\ IF old = {}
       THEN nodes' = Append(nodes, NewNode(l, s, p)) /\ byLabel' = WithLabel(byLabel, l, i)
       ELSE IF l # NoLabel /\ nodes[i].anonymous
       THEN nodes' = [nodes EXCEPT ![i] = Renamed(@, l)] /\ byLabel' = byLabel
       ELSE nodes' = nodes /\ byLabel' = WithLabel(byLabel, l, i)
    /\ cur' = i

\* ensure_child: the node p.s is found, and named if it was not, or created;
\* `alias` is a further name for it.
EnsureChild(p, s, l, alias) ==
  LET old == WithSubid(nodes, p, s) IN
  \E i \in 1..(Len(nodes) + 1) :
    /\ IF old # {} THEN IsFirst(i, old) ELSE i = Len(nodes) + 1
    /\ nodes' = IF old = {} THEN Append(nodes, NewNode(l, s, p))
                ELSE IF l # NoLabel /\ nodes[i].anonymous
                THEN [nodes EXCEPT ![i] = Renamed(@, l)]
                ELSE nodes
    /\ byLabel' = WithLabel(WithLabel(byLabel, l, i), alias, i)
    /\ cur' = i

-----------------------------------------------------------------------------
Root(l, s) == NewNode(l, s, 0)

Init ==
  /\ defs \in DefLists
  /\ nodes = <<Root(ccitt, 0), Root(iso, 1), Root(jointIsoCcitt, 2)>>
  /\ byLabel = [l \in Labels |-> CASE l = ccitt -> 1 [] l = iso -> 2
                                   [] l = jointIsoCcitt -> 3 [] OTHER -> 0]
  /\ pending = [i \in 1..Len(defs) |-> i] /\ deferred = <<>>
  /\ before = Len(defs)
  /\ idx = 1 /\ cur = 0 /\ pass = 1 /\ placed = {} /\ done = FALSE

Busy   == ~done /\ pending # <<>>
Def1   == defs[Head(pending)]
Within == Busy /\ idx <= Len(Def1.elems)
Elem1  == Def1.elems[idx]

\* Only the last component carries the definition's own name.
OwnName == IF idx = Len(Def1.elems) THEN Def1.name ELSE NoLabel

PlaceNum ==
  /\ Within /\ Elem1.kind = "num"
  /\ EnsureChild(cur, Elem1.num, OwnName, NoLabel)
  /\ idx' = idx + 1
  /\ UNCHANGED <<defs, queue, pass, placed, done>>

\* The component's name comes first, the definition's becomes a second name.
PlaceNamedNum ==
  /\ Within /\ Elem1.kind = "named"
  /\ EnsureChild(cur, Elem1.num, Elem1.name, OwnName)
  /\ idx' = idx + 1
  /\ UNCHANGED <<defs, queue, pass, placed, done>>

\* A slip: an unknown name leads to the root.
NamedAlways(l) == IF idx = 1 THEN {byLabel[l]} ELSE Labelled(nodes, cur, l)

\* The nodes a bare name may stand for: any node at the front of the value, a
\* child of the node reached further on.
Named(l) == IF idx = 1 THEN {byLabel[l]} \ {0} ELSE Labelled(nodes, cur, l)

FollowName ==
  /\ Within /\ Elem1.kind = "name"
  /\ \E i \in Named(Elem1.name) : IsFirst(i, Named(Elem1.name)) /\ cur' = i
  /\ idx' = idx + 1
  /\ UNCHANGED <<defs, tree, queue, pass, placed, done>>

NextDef == pending' = Tail(pending) /\ idx' = 1 /\ cur' = 0

LaterFirst(q, d) == <<d>> \o q  \* a slip: pushed at the wrong end

Later(q, d) == Append(q, d)

NameUnknown == Within /\ Elem1.kind = "name" /\ Named(Elem1.name) = {}

\* The test for an empty value is place's first; NameUnknown alone is a slip.
Unplaced == Def1.elems = <<>> \/ NameUnknown

\* The nodes made for the components before the unknown name remain.
Defer ==
  /\ Busy /\ Unplaced
  /\ deferred' = Later(deferred, Head(pending))
  /\ NextDef
  /\ UNCHANGED <<defs, tree, before, pass, placed, done>>

\* attach: what a node already has, it keeps.
UnsetBase(s) == ~s.base  \* a slip: named values are forgotten

Unset(s) == ~s.base /\ ~s.enums /\ ~s.other

Attached(n, d) ==
  [n EXCEPT
    !.syntax   = IF d.hasSyntax /\ Unset(@) /\ (d.syntax.base \/ d.syntax.enums)
                 THEN d.syntax ELSE @,
    !.indexes  = IF @ = 0 THEN d.indexes ELSE @,
    !.augments = IF @ = 0 THEN d.augments ELSE @]

Attach ==
  /\ Busy /\ Def1.elems # <<>> /\ idx > Len(Def1.elems)
  /\ nodes' = [nodes EXCEPT ![cur] = Attached(@, Def1)]
  /\ placed' = placed \cup {<<Head(pending), cur, pass>>}
  /\ NextDef
  /\ UNCHANGED <<defs, byLabel, deferred, before, pass, done>>

OnePass == TRUE  \* a slip

NoProgress == Len(deferred) = before \/ deferred = <<>>

NextPass ==
  /\ ~done /\ pending = <<>> /\ ~NoProgress
  /\ pending' = deferred /\ deferred' = <<>> /\ before' = Len(deferred)
  /\ pass' = pass + 1
  /\ UNCHANGED <<defs, tree, idx, cur, placed, done>>

Stop ==
  /\ ~done /\ pending = <<>> /\ NoProgress
  /\ done' = TRUE
  /\ UNCHANGED <<defs, tree, queue, idx, cur, pass, placed>>

Next == PlaceNum \/ PlaceNamedNum \/ FollowName \/ Defer \/ Attach
          \/ NextPass \/ Stop

Spec == Init /\ [][Next]_vars

\* install is one loop of one thread.
FairSpec == Spec /\ WF_vars(Next)

-----------------------------------------------------------------------------
Node == [label : Labels \cup {NoLabel}, subid : Nat, parent : Nat,
         anonymous : BOOLEAN, syntax : Syntax, indexes : Nat, augments : Nat]

TypeOK ==
  /\ defs \in Seq(Def) /\ done \in BOOLEAN
  /\ nodes \in Seq(Node)
  /\ byLabel \in [Labels -> Nat]
  /\ pending \in Seq(1..Len(defs)) /\ deferred \in Seq(1..Len(defs))
  /\ before \in Nat /\ pass \in Nat \ {0}
  /\ idx \in Nat \ {0} /\ cur \in 0..Len(nodes)
  /\ placed \subseteq (1..Len(defs)) \X (1..Len(nodes)) \X (Nat \ {0})

\* A node's parent is older than the node, so oid_of (mod.rs:225-234) and every
\* other walk towards a root ends.
ParentsOlder == \A i \in DOMAIN nodes : nodes[i].parent < i

\* No two children of a node have the same number: an OID is one node, however
\* many definitions name it and in whichever pass they come.
OidsUnique ==
  \A i, j \in DOMAIN nodes :
    nodes[i].parent = nodes[j].parent /\ nodes[i].subid = nodes[j].subid => i = j

\* A name leads to a node, and every named node's name leads somewhere: a node
\* renamed from anonymous never makes by_label forget it (mod.rs:201-217).
LabelsResolve ==
  /\ \A l \in Labels : byLabel[l] \in 0..Len(nodes)
  /\ \A i \in DOMAIN nodes : nodes[i].label # NoLabel => byLabel[nodes[i].label] # 0

TreeSound == ParentsOlder /\ OidsUnique /\ LabelsResolve

\* Every definition is attached, put off or still to be handled, never two of
\* these, and the queues keep the load order across passes (resolve.rs:12-31).
InQueue(q, d) == \E i \in DOMAIN q : q[i] = d
Rising(q)     == \A i, j \in DOMAIN q : i < j => q[i] < q[j]

NoDefLost ==
  /\ \A d \in 1..Len(defs) :
       \/ InQueue(pending, d)  /\ ~InQueue(deferred, d) /\ ~(\E x \in placed : x[1] = d)
       \/ ~InQueue(pending, d) /\ InQueue(deferred, d)  /\ ~(\E x \in placed : x[1] = d)
       \/ ~InQueue(pending, d) /\ ~InQueue(deferred, d) /\ (\E x \in placed : x[1] = d)
  /\ Rising(pending) /\ Rising(deferred)
  /\ \A i \in DOMAIN deferred, j \in DOMAIN pending : deferred[i] < pending[j]

\* The definitions that reached node n and bring a syntax it can keep.
Storable(d)   == defs[d].hasSyntax /\ (defs[d].syntax.base \/ defs[d].syntax.enums)
Claims(n)     == {x \in placed : x[2] = n /\ Storable(x[1])}
Sooner(x, y)  == x[3] < y[3] \/ (x[3] = y[3] /\ x[1] <= y[1])

\* A node's syntax is that of the definition attached to it first: the earliest
\* pass, and within a pass the load order (attach, resolve.rs:70-87).
FirstAttachedSticks ==
  \A n \in DOMAIN nodes :
    \A x \in Claims(n) : (\A y \in Claims(n) : Sooner(x, y))
                            => nodes[n].syntax = defs[x[1]].syntax

\* "the module read first wins" (README.md:75-76; resolve.rs:72-75, mod.rs:177):
\* of the definitions at one OID it is the first in load order that sticks.
FirstReadWins ==
  done => \A n \in DOMAIN nodes :
            \A x \in Claims(n) : (\A y \in Claims(n) : x[1] <= y[1])
                                    => nodes[n].syntax = defs[x[1]].syntax

\* Where the components 1..k of definition d lead in the tree as it is: a node,
\* New when place would create one, Lost when a bare name leads nowhere.
New  == -1
Lost == -2
Reach(d) ==
  LET es == defs[d].elems
      ByNumber(p, s) == IF p = New \/ WithSubid(nodes, p, s) = {} THEN New
                        ELSE CHOOSE i \in DOMAIN nodes : IsFirst(i, WithSubid(nodes, p, s))
      ByName(k, p, l) == IF k = 1 THEN IF byLabel[l] = 0 THEN Lost ELSE byLabel[l]
                         ELSE IF p = New \/ Labelled(nodes, p, l) = {} THEN Lost
                         ELSE CHOOSE i \in DOMAIN nodes : IsFirst(i, Labelled(nodes, p, l))
      at[k \in 0..Len(es)] ==
        IF k = 0 THEN 0
        ELSE IF at[k - 1] = Lost THEN Lost
        ELSE IF es[k].kind = "name" THEN ByName(k, at[k - 1], es[k].name)
        ELSE ByNumber(at[k - 1], es[k].num)
  IN at

Placeable(d) == defs[d].elems # <<>> /\ Reach(d)[Len(defs[d].elems)] # Lost

\* "Placement runs in repeated passes until a pass makes no further progress"
\* (resolve.rs:3-4): nothing that could be placed is left behind.
NoneLeftPlaceable == done => \A i \in DOMAIN deferred : ~Placeable(deferred[i])

\* That holds when bare names only lead a value: a definition then fails before
\* it has named any node.
NamesLead == \A d \in DOMAIN defs : \A k \in DOMAIN defs[d].elems :
               k > 1 => defs[d].elems[k].kind # "name"

LeadingNamesSuffice == NamesLead => NoneLeftPlaceable

\* Installing ends: a pass that places nothing is the last.
Terminates == <>done
=============================================================================
