-------------------------- MODULE MibInstallProofs --------------------------
(***************************************************************************)
(* For every list of definitions: the tree install builds is sound in      *)
(* every state, no definition is lost or reordered, a node keeps the first *)
(* syntax it is given, and what is left behind could not be placed.        *)
(***************************************************************************)
EXTENDS MibInstall, ProofLemmas

\* Between definitions the walk is at the root; within one, on a node.
CurOK == IF idx = 1 THEN cur = 0 ELSE cur \in 1..Len(nodes)

IInv == TypeOK /\ CurOK /\ TreeSound

\* What naming a node does to by_label: entries stay, the name gets one.
LEMMA WithLabelFacts ==
  ASSUME NEW m \in [Labels -> Nat], NEW l \in Labels \cup {NoLabel},
         NEW i \in Nat \ {0}
  PROVE  /\ WithLabel(m, l, i) \in [Labels -> Nat]
         /\ \A k \in Labels : WithLabel(m, l, i)[k] = m[k] \/ WithLabel(m, l, i)[k] = i
         /\ \A k \in Labels : m[k] # 0 => WithLabel(m, l, i)[k] # 0
         /\ l # NoLabel => WithLabel(m, l, i)[l] # 0
  BY DEF WithLabel

\* Giving a node a name changes nothing else of it.
LEMMA RenamedFacts ==
  ASSUME NEW n \in Node, NEW l \in Labels
  PROVE  /\ Renamed(n, l) \in Node /\ Renamed(n, l).label = l
         /\ Renamed(n, l).parent = n.parent /\ Renamed(n, l).subid = n.subid
         /\ Renamed(n, l).syntax = n.syntax
  BY DEF Renamed, Node

\* Attaching a definition to a node leaves its place in the tree alone.
LEMMA AttachedFacts ==
  ASSUME NEW n \in Node, NEW d \in Def
  PROVE  /\ Attached(n, d) \in Node
         /\ Attached(n, d).label = n.label
         /\ Attached(n, d).parent = n.parent /\ Attached(n, d).subid = n.subid
  BY DEF Attached, Node, Def

\* Replacing one node of a sequence.
LEMMA ReplaceFacts ==
  ASSUME NEW ns \in Seq(Node), NEW i \in 1..Len(ns), NEW n \in Node
  PROVE  LET ns2 == [ns EXCEPT ![i] = n] IN
         /\ ns2 \in Seq(Node) /\ Len(ns2) = Len(ns) /\ ns2[i] = n
         /\ \A j \in 1..Len(ns) : j # i => ns2[j] = ns[j]
  OBVIOUS

\* ensure_child keeps the tree sound, under whatever names it is called.
LEMMA EnsureChildSound ==
  ASSUME TypeOK, TreeSound,
         NEW s \in Nat, NEW l \in Labels \cup {NoLabel},
         NEW alias \in Labels \cup {NoLabel},
         EnsureChild(cur, s, l, alias)
  PROVE  /\ nodes' \in Seq(Node) /\ Len(nodes') >= Len(nodes)
         /\ cur' \in 1..Len(nodes')
         /\ byLabel' \in [Labels -> Nat]
         /\ TreeSound'
<1> DEFINE old   == WithSubid(nodes, cur, s)
           named == l # NoLabel /\ nodes[cur'].anonymous
           new   == NewNode(l, s, cur)
           first == WithLabel(byLabel, l, cur')
<1>1. /\ cur' \in 1..(Len(nodes) + 1)
      /\ IF old # {} THEN IsFirst(cur', old) ELSE cur' = Len(nodes) + 1
      /\ nodes' = IF old = {} THEN Append(nodes, new)
                  ELSE IF named
                  THEN [nodes EXCEPT ![cur'] = Renamed(@, l)]
                  ELSE nodes
      /\ byLabel' = WithLabel(first, alias, cur')
  BY DEF EnsureChild
<1>2. /\ nodes \in Seq(Node) /\ Len(nodes) \in Nat
      /\ DOMAIN nodes = 1..Len(nodes)
      /\ \A j \in 1..Len(nodes) : nodes[j].label \in Labels \cup {NoLabel}
      /\ byLabel \in [Labels -> Nat] /\ cur \in 0..Len(nodes)
  <2>1. nodes \in Seq(Node) /\ byLabel \in [Labels -> Nat] /\ cur \in 0..Len(nodes)
    BY DEF TypeOK
  <2>2. \A j \in 1..Len(nodes) : nodes[j] \in Node
    BY <2>1
  <2> QED BY <2>1, <2>2, SMTT(30) DEF Node
<1>3. cur' \in Nat \ {0}
  BY <1>1, <1>2
<1>4. /\ \A j \in 1..Len(nodes) : nodes[j].parent < j
      /\ \A i, j \in 1..Len(nodes) :
           nodes[i].parent = nodes[j].parent /\ nodes[i].subid = nodes[j].subid => i = j
      /\ \A k \in Labels : byLabel[k] \in 0..Len(nodes)
      /\ \A j \in 1..Len(nodes) : nodes[j].label # NoLabel => byLabel[nodes[j].label] # 0
  BY <1>2 DEF TreeSound, ParentsOlder, OidsUnique, LabelsResolve
<1>5. /\ first \in [Labels -> Nat]
      /\ \A k \in Labels : first[k] = byLabel[k] \/ first[k] = cur'
      /\ \A k \in Labels : byLabel[k] # 0 => first[k] # 0
      /\ l # NoLabel => first[l] # 0
  BY <1>2, <1>3, WithLabelFacts
<1> HIDE DEF first
<1>6. /\ byLabel' \in [Labels -> Nat]
      /\ \A k \in Labels : byLabel'[k] = first[k] \/ byLabel'[k] = cur'
      /\ \A k \in Labels : first[k] # 0 => byLabel'[k] # 0
  <2> DEFINE both == WithLabel(first, alias, cur')
  <2>1. /\ both \in [Labels -> Nat]
        /\ \A k \in Labels : both[k] = first[k] \/ both[k] = cur'
        /\ \A k \in Labels : first[k] # 0 => both[k] # 0
    BY <1>3, <1>5, WithLabelFacts
  <2> HIDE DEF both
  <2>2. byLabel' = both
    BY <1>1 DEF both
  <2> QED BY <2>1, <2>2
<1>7. /\ \A k \in Labels : byLabel'[k] = byLabel[k] \/ byLabel'[k] = cur'
      /\ \A k \in Labels : byLabel[k] # 0 => byLabel'[k] # 0
      /\ l # NoLabel => byLabel'[l] # 0
  BY <1>5, <1>6
\* What both cases come down to.
<1>8. /\ nodes' \in Seq(Node) /\ Len(nodes') >= Len(nodes) /\ cur' \in 1..Len(nodes')
      /\ \A j \in 1..Len(nodes') :
           \/ /\ j \in 1..Len(nodes)
              /\ nodes'[j].parent = nodes[j].parent /\ nodes'[j].subid = nodes[j].subid
              /\ nodes'[j].label \in {nodes[j].label, l}
           \/ /\ j = Len(nodes) + 1 /\ old = {}
              /\ nodes'[j].parent = cur /\ nodes'[j].subid = s /\ nodes'[j].label = l
  <2>1. CASE old = {}
    <3>1. new \in Node /\ new.label = l /\ new.parent = cur /\ new.subid = s
      BY <1>2 DEF NewNode, Node, BlankSyntax, Syntax
    <3>2. nodes' = Append(nodes, new) /\ cur' = Len(nodes) + 1
      BY <1>1, <2>1
    <3> HIDE DEF new
    <3>3. /\ nodes' \in Seq(Node) /\ Len(nodes') = Len(nodes) + 1
          /\ \A j \in 1..Len(nodes) : nodes'[j] = nodes[j]
          /\ nodes'[Len(nodes) + 1] = new
      BY <1>2, <3>1, <3>2
    <3> QED BY <1>2, <2>1, <3>1, <3>2, <3>3
  <2>2. CASE old # {}
    <3>1. cur' \in 1..Len(nodes)
      BY <1>1, <1>2, <2>2 DEF IsFirst, WithSubid, ChildrenOf
    <3>2. CASE named
      <4>1. l \in Labels /\ nodes' = [nodes EXCEPT ![cur'] = Renamed(@, l)]
        BY <1>1, <2>2, <3>2
      <4>2. nodes[cur'] \in Node
        BY <1>2, <3>1
      <4> DEFINE n == Renamed(nodes[cur'], l)
      <4>3. /\ n \in Node /\ n.label = l
            /\ n.parent = nodes[cur'].parent /\ n.subid = nodes[cur'].subid
        BY <4>1, <4>2, RenamedFacts
      <4>4. nodes' = [nodes EXCEPT ![cur'] = n]
        BY <4>1
      <4> HIDE DEF n
      <4>5. /\ nodes' \in Seq(Node) /\ Len(nodes') = Len(nodes) /\ nodes'[cur'] = n
            /\ \A j \in 1..Len(nodes) : j # cur' => nodes'[j] = nodes[j]
        BY <1>2, <3>1, <4>3, <4>4, ReplaceFacts
      <4> QED BY <1>2, <3>1, <4>3, <4>5
    <3>3. CASE ~named
      BY <1>1, <1>2, <2>2, <3>1, <3>3
    <3> QED BY <3>2, <3>3
  <2> QED BY <2>1, <2>2
<1>9. /\ Len(nodes') \in Nat /\ DOMAIN nodes' = 1..Len(nodes')
  BY <1>8
<1>10. old = {} => \A j \in 1..Len(nodes) : ~(nodes[j].parent = cur /\ nodes[j].subid = s)
  BY <1>2 DEF WithSubid, ChildrenOf
<1>11. ParentsOlder'
  BY <1>2, <1>4, <1>8, <1>9 DEF ParentsOlder
<1>12. OidsUnique'
  BY <1>4, <1>8, <1>9, <1>10 DEF OidsUnique
<1>13. LabelsResolve'
  <2>1. \A k \in Labels : byLabel'[k] \in 0..Len(nodes')
    BY <1>2, <1>4, <1>7, <1>8, <1>9
  <2>2. ASSUME NEW j \in 1..Len(nodes'), nodes'[j].label # NoLabel
        PROVE  byLabel'[nodes'[j].label] # 0
    <3>1. CASE nodes'[j].label = l
      BY <3>1, <2>2, <1>7
    <3>2. CASE j \in 1..Len(nodes) /\ nodes'[j].label = nodes[j].label
      BY <3>2, <2>2, <1>2, <1>4, <1>7
    <3> QED BY <3>1, <3>2, <1>8
  <2> QED BY <2>1, <2>2, <1>9 DEF LabelsResolve
<1> QED BY <1>6, <1>8, <1>11, <1>12, <1>13 DEF TreeSound

-----------------------------------------------------------------------------
\* The first pending definition, and the component being handled.
LEMMA HeadFacts ==
  ASSUME TypeOK, Busy
  PROVE  /\ Head(pending) \in 1..Len(defs) /\ Def1 \in Def
         /\ Tail(pending) \in Seq(1..Len(defs))
         /\ Len(Def1.elems) \in Nat
         /\ Def1.name \in Labels \cup {NoLabel} /\ Def1.elems \in Seq(Elem)
         /\ Within => Elem1 \in Elem /\ OwnName \in Labels \cup {NoLabel}
<1>1. Head(pending) \in 1..Len(defs) /\ Tail(pending) \in Seq(1..Len(defs))
  BY DEF TypeOK, Busy
<1>2. Def1 \in Def
  BY <1>1 DEF TypeOK, Def1
<1>3. Def1.elems \in Seq(Elem) /\ Def1.name \in Labels \cup {NoLabel}
  BY <1>2 DEF Def
<1>4. ASSUME Within PROVE Elem1 \in Elem
  <2>1. idx \in 1..Len(Def1.elems)
    BY <1>3, <1>4 DEF Within, TypeOK
  <2> QED BY <1>3, <2>1 DEF Elem1
<1> QED BY <1>1, <1>2, <1>3, <1>4 DEF OwnName

\* What PlaceNum and PlaceNamedNum share.
LEMMA PlacedNumber ==
  ASSUME IInv, Within,
         NEW s \in Nat, NEW l \in Labels \cup {NoLabel},
         NEW alias \in Labels \cup {NoLabel},
         EnsureChild(cur, s, l, alias),
         idx' = idx + 1,
         UNCHANGED <<defs, queue, pass, placed, done>>
  PROVE  IInv'
<1>1. /\ nodes' \in Seq(Node) /\ Len(nodes') >= Len(nodes)
      /\ cur' \in 1..Len(nodes')
      /\ byLabel' \in [Labels -> Nat]
      /\ TreeSound'
  BY EnsureChildSound DEF IInv
<1>2. idx' \in Nat \ {0} /\ idx' # 1
  BY DEF IInv, TypeOK
<1>3. Len(nodes) \in Nat /\ Len(nodes') \in Nat
  BY <1>1 DEF IInv, TypeOK
<1>4. placed' \subseteq (1..Len(defs')) \X (1..Len(nodes')) \X (Nat \ {0})
  BY <1>1, <1>3 DEF IInv, TypeOK
<1>5. TypeOK'
  BY <1>1, <1>2, <1>3, <1>4 DEF IInv, TypeOK, queue
<1> QED BY <1>1, <1>2, <1>5 DEF IInv, CurOK

\* The empty tree is sound.
LEMMA InitIInv == Init => IInv
<1> SUFFICES ASSUME Init PROVE IInv
  OBVIOUS
<1>1. defs \in Seq(Def) /\ Len(defs) \in Nat
  BY DefListsAssumption DEF Init
<1>2. \A l \in Labels, k \in 0..2 : Root(l, k) \in Node /\ Root(l, k).label = l
                           /\ Root(l, k).subid = k /\ Root(l, k).parent = 0
  BY DEF Root, NewNode, Node, BlankSyntax, Syntax
<1>3. /\ nodes \in Seq(Node) /\ Len(nodes) = 3 /\ DOMAIN nodes = 1..3
      /\ nodes[1].label = ccitt /\ nodes[2].label = iso /\ nodes[3].label = jointIsoCcitt
      /\ \A i \in 1..3 : nodes[i].parent = 0 /\ nodes[i].subid = i - 1
  BY <1>2, LabelsAssumption DEF Init
<1>4. /\ byLabel \in [Labels -> Nat] /\ \A l \in Labels : byLabel[l] \in 0..3
      /\ byLabel[ccitt] = 1 /\ byLabel[iso] = 2 /\ byLabel[jointIsoCcitt] = 3
  BY LabelsAssumption DEF Init
<1>5. pending \in Seq(1..Len(defs)) /\ deferred \in Seq(1..Len(defs))
  BY <1>1 DEF Init
<1>6. TypeOK
  <2>1. before \in Nat /\ pass = 1 /\ idx = 1 /\ cur = 0 /\ placed = {} /\ done = FALSE
    BY <1>1 DEF Init
  <2>2. pass \in Nat \ {0} /\ idx \in Nat \ {0} /\ cur \in 0..Len(nodes)
    BY <1>3, <2>1
  <2>3. placed \subseteq (1..Len(defs)) \X (1..Len(nodes)) \X (Nat \ {0})
    BY <2>1, Zenon
  <2>4. done \in BOOLEAN
    BY <2>1, Zenon
  <2> QED BY <1>1, <1>3, <1>4, <1>5, <2>1, <2>2, <2>3, <2>4, Zenon DEF TypeOK
<1>7. ParentsOlder /\ OidsUnique
  BY <1>3 DEF ParentsOlder, OidsUnique
<1>8. LabelsResolve
  BY <1>3, <1>4 DEF LabelsResolve
<1>9. CurOK
  BY DEF Init, CurOK
<1> QED BY <1>6, <1>7, <1>8, <1>9 DEF IInv, TreeSound

\* Every step keeps it sound.
LEMMA NextIInv == IInv /\ [Next]_vars => IInv'
<1> SUFFICES ASSUME IInv, [Next]_vars PROVE IInv'
  OBVIOUS
<1>1. CASE PlaceNum
  <2>1. Within /\ Busy
    BY <1>1 DEF PlaceNum, Within
  <2>2. Elem1.num \in Nat /\ OwnName \in Labels \cup {NoLabel}
    BY <2>1, HeadFacts DEF IInv, Elem
  <2> QED BY <1>1, <2>1, <2>2, PlacedNumber DEF PlaceNum
<1>2. CASE PlaceNamedNum
  <2>1. Within /\ Busy
    BY <1>2 DEF PlaceNamedNum, Within
  <2>2. /\ Elem1.num \in Nat /\ Elem1.name \in Labels \cup {NoLabel}
        /\ OwnName \in Labels \cup {NoLabel}
    BY <2>1, HeadFacts DEF IInv, Elem
  <2> QED BY <1>2, <2>1, <2>2, PlacedNumber DEF PlaceNamedNum
<1>3. CASE FollowName
  <2>1. Within /\ Busy /\ Elem1.kind = "name"
    BY <1>3 DEF FollowName, Within
  <2>2. Elem1.name \in Labels
    BY <2>1, HeadFacts DEF IInv, Elem
  <2>3. nodes \in Seq(Node) /\ DOMAIN nodes = 1..Len(nodes)
    BY DEF IInv, TypeOK
  <2>4. Named(Elem1.name) \subseteq 1..Len(nodes)
    BY <2>2, <2>3 DEF Named, Labelled, ChildrenOf, IInv, TreeSound, LabelsResolve
  <2>5. cur' \in 1..Len(nodes) /\ idx' \in Nat \ {0} /\ idx' # 1
    BY <1>3, <2>4 DEF FollowName, IsFirst, IInv, TypeOK
  <2>6. UNCHANGED <<defs, nodes, byLabel, pending, deferred, before, pass, placed, done>>
    BY <1>3 DEF FollowName, tree, queue
  <2>7. TypeOK'
    BY <2>3, <2>5, <2>6 DEF IInv, TypeOK
  <2>8. TreeSound'
    BY <2>6 DEF IInv, TreeSound, ParentsOlder, OidsUnique, LabelsResolve
  <2> QED BY <2>5, <2>6, <2>7, <2>8 DEF IInv, CurOK
<1>4. CASE Defer
  <2>1. Busy /\ NextDef /\ deferred' = Append(deferred, Head(pending))
    BY <1>4 DEF Defer, Later
  <2>2. UNCHANGED <<defs, nodes, byLabel, before, pass, placed, done>>
    BY <1>4 DEF Defer, tree
  <2>3. Head(pending) \in 1..Len(defs) /\ Tail(pending) \in Seq(1..Len(defs))
    BY <2>1, HeadFacts DEF IInv
  <2>4. deferred' \in Seq(1..Len(defs))
    BY <2>1, <2>3 DEF IInv, TypeOK
  <2>5. TypeOK'
    BY <2>1, <2>2, <2>3, <2>4 DEF IInv, TypeOK, NextDef
  <2>6. TreeSound'
    BY <2>2 DEF IInv, TreeSound, ParentsOlder, OidsUnique, LabelsResolve
  <2> QED BY <2>1, <2>5, <2>6 DEF IInv, CurOK, NextDef
<1>5. CASE Attach
  <2>1. Busy /\ NextDef /\ Def1.elems # <<>> /\ idx > Len(Def1.elems)
    BY <1>5 DEF Attach
  <2>2. /\ nodes' = [nodes EXCEPT ![cur] = Attached(@, Def1)]
        /\ placed' = placed \cup {<<Head(pending), cur, pass>>}
        /\ UNCHANGED <<defs, byLabel, deferred, before, pass, done>>
    BY <1>5 DEF Attach
  <2>3. /\ Head(pending) \in 1..Len(defs) /\ Tail(pending) \in Seq(1..Len(defs))
        /\ Def1 \in Def /\ Def1.elems \in Seq(Elem)
    BY <2>1, HeadFacts DEF IInv
  <2>4. cur \in 1..Len(nodes)
    BY <2>1, <2>3 DEF IInv, TypeOK, CurOK
  <2>5. nodes \in Seq(Node) /\ nodes[cur] \in Node
    BY <2>4 DEF IInv, TypeOK
  <2> DEFINE n == Attached(nodes[cur], Def1)
  <2>6. /\ n \in Node /\ n.label = nodes[cur].label
        /\ n.parent = nodes[cur].parent /\ n.subid = nodes[cur].subid
    BY <2>3, <2>5, AttachedFacts
  <2>7. nodes' = [nodes EXCEPT ![cur] = n]
    BY <2>2
  <2> HIDE DEF n
  <2>8. /\ nodes' \in Seq(Node) /\ Len(nodes') = Len(nodes) /\ nodes'[cur] = n
        /\ \A j \in 1..Len(nodes) : j # cur => nodes'[j] = nodes[j]
    BY <2>4, <2>5, <2>6, <2>7, ReplaceFacts
  <2>9. \A j \in 1..Len(nodes) : /\ nodes'[j].label = nodes[j].label
                                 /\ nodes'[j].parent = nodes[j].parent
                                 /\ nodes'[j].subid = nodes[j].subid
    BY <2>6, <2>8
  <2>10. DOMAIN nodes' = 1..Len(nodes) /\ DOMAIN nodes = 1..Len(nodes) /\ Len(nodes) \in Nat
    BY <2>5, <2>8
  <2>11. TreeSound'
    BY <2>2, <2>8, <2>9, <2>10 DEF IInv, TreeSound, ParentsOlder, OidsUnique, LabelsResolve
  <2>12. placed' \subseteq (1..Len(defs')) \X (1..Len(nodes')) \X (Nat \ {0})
    BY <2>2, <2>3, <2>4, <2>8 DEF IInv, TypeOK
  <2>13. TypeOK'
    BY <2>1, <2>2, <2>3, <2>8, <2>10, <2>12 DEF IInv, TypeOK, NextDef
  <2> QED BY <2>1, <2>11, <2>13 DEF IInv, CurOK, NextDef
<1>6. CASE NextPass
  <2>1. UNCHANGED <<defs, nodes, byLabel, idx, cur, placed, done>>
    BY <1>6 DEF NextPass, tree
  <2>2. /\ pending' = deferred /\ deferred' = <<>> /\ before' = Len(deferred)
        /\ pass' = pass + 1
    BY <1>6 DEF NextPass
  <2>3. TypeOK'
    BY <2>1, <2>2 DEF IInv, TypeOK
  <2>4. TreeSound' /\ CurOK'
    BY <2>1 DEF IInv, CurOK, TreeSound, ParentsOlder, OidsUnique, LabelsResolve
  <2> QED BY <2>3, <2>4 DEF IInv
<1>7. CASE Stop
  <2>1. UNCHANGED <<defs, nodes, byLabel, pending, deferred, before, idx, cur, pass, placed>>
    BY <1>7 DEF Stop, tree, queue
  <2>2. TypeOK'
    BY <1>7, <2>1 DEF IInv, TypeOK, Stop
  <2> QED BY <2>1, <2>2 DEF IInv, CurOK, TreeSound, ParentsOlder, OidsUnique, LabelsResolve
<1>8. CASE UNCHANGED vars
  BY <1>8 DEF vars, tree, queue, IInv, TypeOK, CurOK, TreeSound, ParentsOlder,
              OidsUnique, LabelsResolve
<1> QED BY <1>1, <1>2, <1>3, <1>4, <1>5, <1>6, <1>7, <1>8 DEF Next

\* IInv holds in every state of every behaviour.
LEMMA Invariance == Spec => []IInv
  BY InitIInv, NextIInv, PTL DEF Spec

\* The variables keep their types: in particular no component is ever looked up
\* below a node that does not exist (resolve.rs:42-65).
THEOREM Typing == Spec => []TypeOK
<1>1. IInv => TypeOK
  BY DEF IInv
<1> QED BY <1>1, Invariance, PTL

\* The tree is sound whatever the definitions, however many passes they take:
\* parents are older than children, an OID is one node, and names resolve.
THEOREM TreeAlwaysSound == Spec => []TreeSound
<1>1. IInv => TreeSound
  BY DEF IInv
<1> QED BY <1>1, Invariance, PTL

-----------------------------------------------------------------------------
\* Taking the head of a rising queue, and appending a larger number to one.
LEMMA TailFacts ==
  ASSUME NEW q \in Seq(Nat), q # <<>>, Rising(q)
  PROVE  /\ Rising(Tail(q)) /\ InQueue(q, Head(q))
         /\ \A d : InQueue(Tail(q), d) <=> InQueue(q, d) /\ d # Head(q)
         /\ \A i \in DOMAIN Tail(q) : Head(q) < Tail(q)[i]
<1>1. /\ Len(q) \in Nat \ {0} /\ DOMAIN q = 1..Len(q)
      /\ DOMAIN Tail(q) = 1..(Len(q) - 1) /\ Head(q) = q[1]
      /\ \A i \in 1..(Len(q) - 1) : Tail(q)[i] = q[i + 1]
  OBVIOUS
<1>2. \A i \in 1..Len(q) : q[i] \in Nat
  OBVIOUS
<1>3. Rising(Tail(q))
  BY <1>1, SMTT(30) DEF Rising
<1>4. \A i \in DOMAIN Tail(q) : Head(q) < Tail(q)[i]
  BY <1>1 DEF Rising
<1>5. ASSUME NEW d, InQueue(q, d), d # Head(q) PROVE InQueue(Tail(q), d)
  <2>1. PICK i \in 1..Len(q) : q[i] = d
    BY <1>1, <1>5 DEF InQueue
  <2>2. i - 1 \in 1..(Len(q) - 1) /\ Tail(q)[i - 1] = d
    BY <1>1, <1>5, <2>1
  <2> QED BY <1>1, <2>2 DEF InQueue
<1>6. ASSUME NEW d, InQueue(Tail(q), d) PROVE InQueue(q, d) /\ d # Head(q)
  <2>1. PICK i \in 1..(Len(q) - 1) : Tail(q)[i] = d
    BY <1>1, <1>6 DEF InQueue
  <2>2. i + 1 \in 1..Len(q) /\ q[i + 1] = d
    BY <1>1, <2>1
  <2>3. d # Head(q)
    <3>1. q[1] \in Nat /\ q[i + 1] \in Nat /\ q[1] < q[i + 1]
      BY <1>1, <1>2, <2>2 DEF Rising
    <3> QED BY <1>1, <2>2, <3>1
  <2> QED BY <1>1, <2>2, <2>3 DEF InQueue
<1>7. InQueue(q, Head(q))
  BY <1>1 DEF InQueue
<1> QED BY <1>3, <1>4, <1>5, <1>6, <1>7, Zenon

\* Appending to a sequence.
LEMMA AppendFacts ==
  ASSUME NEW q \in Seq(Nat), NEW x \in Nat
  PROVE  /\ \A d : InQueue(Append(q, x), d) <=> InQueue(q, d) \/ d = x
         /\ Rising(q) /\ (\A i \in DOMAIN q : q[i] < x) => Rising(Append(q, x))
<1> DEFINE r == Append(q, x)
<1>1. /\ Len(q) \in Nat /\ DOMAIN q = 1..Len(q) /\ DOMAIN r = 1..(Len(q) + 1)
      /\ \A i \in 1..Len(q) : r[i] = q[i]
      /\ r[Len(q) + 1] = x
  OBVIOUS
<1> HIDE DEF r
<1>2. \A d : InQueue(r, d) <=> InQueue(q, d) \/ d = x
  BY <1>1 DEF InQueue
<1>3. Rising(q) /\ (\A i \in DOMAIN q : q[i] < x) => Rising(r)
  BY <1>1 DEF Rising
<1> QED BY <1>2, <1>3 DEF r

\* At the start every definition is pending.
LEMMA InitNoDefLost == Init => NoDefLost
<1> SUFFICES ASSUME Init PROVE NoDefLost
  OBVIOUS
<1>1. Len(defs) \in Nat
  BY DefListsAssumption DEF Init
<1>2. DOMAIN pending = 1..Len(defs) /\ \A i \in 1..Len(defs) : pending[i] = i
  BY DEF Init
<1>3. DOMAIN deferred = {} /\ placed = {}
  BY DEF Init
<1> QED BY <1>1, <1>2, <1>3 DEF NoDefLost, InQueue, Rising

\* Each step moves at most one definition.
LEMMA NextNoDefLost == IInv /\ NoDefLost /\ [Next]_vars => NoDefLost'
<1> SUFFICES ASSUME IInv, NoDefLost, [Next]_vars PROVE NoDefLost'
  OBVIOUS
<1> DEFINE Attachment(d) == \E x \in placed : x[1] = d
<1>1. /\ pending \in Seq(Nat) /\ deferred \in Seq(Nat) /\ Len(defs) \in Nat
      /\ pending \in Seq(1..Len(defs))
  BY DEF IInv, TypeOK
<1>2. CASE UNCHANGED <<defs, queue, placed>>
  BY <1>2 DEF queue, NoDefLost, InQueue, Rising
<1>3. ASSUME Busy
      PROVE  /\ Head(pending) \in Nat /\ Rising(Tail(pending))
             /\ \A d : InQueue(Tail(pending), d) <=> InQueue(pending, d) /\ d # Head(pending)
             /\ \A i \in DOMAIN Tail(pending) : Head(pending) < Tail(pending)[i]
             /\ InQueue(pending, Head(pending))
             /\ \A i \in DOMAIN deferred : deferred[i] < Head(pending)
             /\ \A i \in DOMAIN deferred, j \in DOMAIN Tail(pending) :
                  deferred[i] < Tail(pending)[j]
  <2>1. pending # <<>> /\ Rising(pending)
    BY <1>3 DEF Busy, NoDefLost
  <2>2. Head(pending) \in Nat /\ Head(pending) = pending[1] /\ 1 \in DOMAIN pending
    BY <1>1, <2>1
  <2>3. \A i \in DOMAIN deferred : deferred[i] \in Nat
    BY <1>1
  <2>4. \A i \in DOMAIN Tail(pending) : Tail(pending)[i] \in Nat
    BY <1>1, <2>1
  <2>5. \A i \in DOMAIN deferred : deferred[i] < Head(pending)
    BY <2>2 DEF NoDefLost
  <2> QED BY <1>1, <2>1, <2>2, <2>3, <2>4, <2>5, TailFacts, SMTT(30)
<1>4. CASE Defer
  <2>1. /\ Busy /\ pending' = Tail(pending) /\ deferred' = Append(deferred, Head(pending))
        /\ UNCHANGED <<defs, placed>>
    BY <1>4 DEF Defer, NextDef, Later
  <2>2. /\ \A d : InQueue(deferred', d) <=> InQueue(deferred, d) \/ d = Head(pending)
        /\ Rising(deferred')
    BY <1>1, <1>3, <2>1, AppendFacts DEF NoDefLost
  <2>3. \A i \in DOMAIN deferred', j \in DOMAIN pending' : deferred'[i] < pending'[j]
    <3>1. ASSUME NEW i \in DOMAIN deferred' PROVE InQueue(deferred', deferred'[i])
      BY DEF InQueue
    <3>2. \A i \in DOMAIN deferred' :
            deferred'[i] = Head(pending) \/ \E k \in DOMAIN deferred : deferred'[i] = deferred[k]
      BY <2>2, <3>1 DEF InQueue
    <3> QED BY <1>3, <2>1, <3>2
  <2>4. \A d : InQueue(pending', d) <=> InQueue(pending, d) /\ d # Head(pending)
    BY <1>3, <2>1
  <2>5. Rising(pending') /\ InQueue(pending, Head(pending))
    BY <1>3, <2>1
  <2>6. ASSUME NEW d \in 1..Len(defs)
        PROVE \/ InQueue(pending', d)  /\ ~InQueue(deferred', d) /\ ~Attachment(d)
              \/ ~InQueue(pending', d) /\ InQueue(deferred', d)  /\ ~Attachment(d)
              \/ ~InQueue(pending', d) /\ ~InQueue(deferred', d) /\ Attachment(d)
    BY <2>2, <2>4, <2>5, Zenon DEF NoDefLost
  <2> QED BY <2>1, <2>2, <2>3, <2>5, <2>6 DEF NoDefLost, InQueue, Rising
<1>5. CASE Attach
  <2>1. /\ Busy /\ pending' = Tail(pending)
        /\ placed' = placed \cup {<<Head(pending), cur, pass>>}
        /\ UNCHANGED <<defs, deferred>>
    BY <1>5 DEF Attach, NextDef
  <2>2. \A d : (\E x \in placed' : x[1] = d) <=> Attachment(d) \/ d = Head(pending)
    <3>1. <<Head(pending), cur, pass>>[1] = Head(pending)
      OBVIOUS
    <3> QED BY <2>1, <3>1
  <2>3. \A d : InQueue(pending', d) <=> InQueue(pending, d) /\ d # Head(pending)
    BY <1>3, <2>1
  <2>4. /\ Rising(pending') /\ InQueue(pending, Head(pending))
        /\ \A i \in DOMAIN deferred, j \in DOMAIN pending' : deferred[i] < pending'[j]
    BY <1>3, <2>1
  <2>5. ASSUME NEW d \in 1..Len(defs)
        PROVE \/ InQueue(pending', d)  /\ ~InQueue(deferred, d) /\ ~(\E x \in placed' : x[1] = d)
              \/ ~InQueue(pending', d) /\ InQueue(deferred, d)  /\ ~(\E x \in placed' : x[1] = d)
              \/ ~InQueue(pending', d) /\ ~InQueue(deferred, d) /\ (\E x \in placed' : x[1] = d)
    BY <2>2, <2>3, <2>4, Zenon DEF NoDefLost
  <2> QED BY <2>1, <2>4, <2>5 DEF NoDefLost, InQueue, Rising
<1>6. CASE NextPass
  <2>1. /\ pending = <<>> /\ pending' = deferred /\ deferred' = <<>>
        /\ UNCHANGED <<defs, placed>>
    BY <1>6 DEF NextPass
  <2>2. DOMAIN pending = {} /\ DOMAIN deferred' = {}
    BY <2>1
  <2> QED BY <2>1, <2>2 DEF NoDefLost, InQueue, Rising
<1>7. CASE PlaceNum \/ PlaceNamedNum \/ FollowName \/ Stop
  BY <1>2, <1>7 DEF PlaceNum, PlaceNamedNum, FollowName, Stop
<1>8. CASE UNCHANGED vars
  BY <1>2, <1>8 DEF vars
<1> QED BY <1>4, <1>5, <1>6, <1>7, <1>8 DEF Next

\* However many passes it takes, each definition is in exactly one place, and
\* the queues keep the load order that decides which definition is first.
THEOREM NothingLost == Spec => []NoDefLost
  BY InitIInv, NextIInv, InitNoDefLost, NextNoDefLost, PTL DEF Spec

-----------------------------------------------------------------------------
\* What is attached was attached before whatever is still pending.
Orderly == \A x \in placed :
             /\ x[3] <= pass
             /\ x[3] = pass => \A i \in DOMAIN pending : x[1] < pending[i]

\* A node no definition claims has no syntax; one that is claimed has that of
\* the claim that came first.
Settled(n) ==
  IF Claims(n) = {} THEN Unset(nodes[n].syntax)
  ELSE ~Unset(nodes[n].syntax)
       /\ \E x \in Claims(n) : /\ nodes[n].syntax = defs[x[1]].syntax
                               /\ \A y \in Claims(n) : Sooner(x, y)

SInv == Orderly /\ \A n \in DOMAIN nodes : Settled(n)

\* Nothing is attached at the start.
LEMMA InitSInv == Init => SInv
<1> SUFFICES ASSUME Init PROVE SInv
  OBVIOUS
<1>1. placed = {}
  BY DEF Init
<1>2. \A n \in DOMAIN nodes : Unset(nodes[n].syntax)
  BY DEF Init, Root, NewNode, BlankSyntax, Unset
<1> QED BY <1>1, <1>2 DEF SInv, Orderly, Settled, Claims

\* Finding or creating a node leaves every syntax alone.
LEMMA EnsureChildSyntax ==
  ASSUME TypeOK, NEW s, NEW l \in Labels \cup {NoLabel}, NEW alias,
         EnsureChild(cur, s, l, alias), nodes' \in Seq(Node)
  PROVE  \A n \in DOMAIN nodes' : \/ n \in DOMAIN nodes /\ nodes'[n].syntax = nodes[n].syntax
                                  \/ n = Len(nodes) + 1 /\ nodes'[n].syntax = BlankSyntax
<1>1. PICK i \in 1..(Len(nodes) + 1) :
        /\ IF WithSubid(nodes, cur, s) # {} THEN IsFirst(i, WithSubid(nodes, cur, s))
                                            ELSE i = Len(nodes) + 1
        /\ nodes' = IF WithSubid(nodes, cur, s) = {} THEN Append(nodes, NewNode(l, s, cur))
                    ELSE IF l # NoLabel /\ nodes[i].anonymous
                    THEN [nodes EXCEPT ![i] = Renamed(@, l)]
                    ELSE nodes
  BY DEF EnsureChild
<1>2. nodes \in Seq(Node)
  BY DEF TypeOK
<1>3. CASE WithSubid(nodes, cur, s) = {}
  <2> DEFINE new == NewNode(l, s, cur)
  <2>1. new.syntax = BlankSyntax
    BY DEF NewNode
  <2>2. nodes' = Append(nodes, new)
    BY <1>1, <1>3
  <2> HIDE DEF new
  <2> QED BY <1>2, <2>1, <2>2
<1>4. CASE WithSubid(nodes, cur, s) # {} /\ l # NoLabel /\ nodes[i].anonymous
  <2>1. i \in 1..Len(nodes)
    BY <1>1, <1>2, <1>4 DEF IsFirst, WithSubid, ChildrenOf
  <2> DEFINE n == Renamed(nodes[i], l)
  <2>2. nodes[i] \in Node
    BY <1>2, <2>1
  <2>3. n \in Node /\ n.syntax = nodes[i].syntax
    BY <1>4, <2>2, RenamedFacts
  <2>4. nodes' = [nodes EXCEPT ![i] = n]
    BY <1>1, <1>4
  <2> HIDE DEF n
  <2> QED BY <1>2, <2>1, <2>3, <2>4
<1>5. CASE WithSubid(nodes, cur, s) # {} /\ ~(l # NoLabel /\ nodes[i].anonymous)
  BY <1>1, <1>5
<1> QED BY <1>3, <1>4, <1>5

\* Steps that attach nothing and leave the syntaxes alone.
LEMMA SettledKept ==
  ASSUME TypeOK, \A n \in DOMAIN nodes : Settled(n), UNCHANGED <<defs, placed>>,
         \A n \in DOMAIN nodes' : \/ n \in DOMAIN nodes /\ nodes'[n].syntax = nodes[n].syntax
                                  \/ n = Len(nodes) + 1 /\ nodes'[n].syntax = BlankSyntax
  PROVE  \A n \in DOMAIN nodes' : Settled(n)'
<1> SUFFICES ASSUME NEW n \in DOMAIN nodes' PROVE Settled(n)'
  OBVIOUS
<1>1. Claims(n)' = Claims(n)
  BY DEF Claims, Storable
<1>2. CASE n \in DOMAIN nodes /\ nodes'[n].syntax = nodes[n].syntax
  BY <1>1, <1>2 DEF Settled
<1>3. CASE n = Len(nodes) + 1 /\ nodes'[n].syntax = BlankSyntax
  <2>1. \A x \in placed : x[2] # n
    BY <1>3 DEF TypeOK
  <2>2. Claims(n) = {}
    BY <2>1 DEF Claims
  <2>3. Unset(nodes'[n].syntax)
    BY <1>3 DEF Unset, BlankSyntax
  <2> QED BY <1>1, <2>2, <2>3 DEF Settled
<1> QED BY <1>2, <1>3

\* A later definition never takes a node's syntax over.
LEMMA NextSInv == IInv /\ IInv' /\ NoDefLost /\ SInv /\ [Next]_vars => SInv'
<1> SUFFICES ASSUME IInv, IInv', NoDefLost, SInv, [Next]_vars PROVE SInv'
  OBVIOUS
<1>1. /\ TypeOK /\ TypeOK' /\ nodes' \in Seq(Node) /\ pass \in Nat
      /\ pending \in Seq(Nat)
      /\ \A x \in placed : x[1] \in Nat /\ x[2] \in 1..Len(nodes) /\ x[3] \in Nat
  <2>1. TypeOK /\ TypeOK'
    BY DEF IInv
  <2>2. placed \subseteq (1..Len(defs)) \X (1..Len(nodes)) \X (Nat \ {0})
    BY <2>1 DEF TypeOK
  <2>3. \A x \in placed : x[1] \in 1..Len(defs) /\ x[2] \in 1..Len(nodes) /\ x[3] \in Nat
    BY <2>2
  <2>4. /\ nodes' \in Seq(Node) /\ pass \in Nat /\ pending \in Seq(Nat)
        /\ Len(defs) \in Nat
    BY <2>1 DEF TypeOK
  <2> QED BY <2>1, <2>3, <2>4
<1>2. CASE UNCHANGED <<defs, pending, pass, placed>> /\ (PlaceNum \/ PlaceNamedNum)
  <2>1. PICK s \in Nat, l \in Labels \cup {NoLabel}, alias \in Labels \cup {NoLabel} :
            EnsureChild(cur, s, l, alias)
    <3>1. Within /\ Busy
      BY <1>2 DEF PlaceNum, PlaceNamedNum, Within
    <3>2. Elem1.num \in Nat /\ OwnName \in Labels \cup {NoLabel}
          /\ (Elem1.kind = "named" => Elem1.name \in Labels)
      BY <1>1, <3>1, HeadFacts DEF Elem
    <3> QED BY <1>2, <3>2 DEF PlaceNum, PlaceNamedNum
  <2>2. \A n \in DOMAIN nodes' : Settled(n)'
    BY <1>1, <1>2, <2>1, EnsureChildSyntax, SettledKept DEF SInv
  <2> QED BY <1>2, <2>2 DEF SInv, Orderly
<1>3. CASE UNCHANGED <<defs, nodes, pending, pass, placed>>
  BY <1>1, <1>3, SettledKept DEF SInv, Orderly
<1>4. CASE Defer
  <2>1. Busy /\ pending' = Tail(pending) /\ UNCHANGED <<defs, nodes, pass, placed>>
    BY <1>4 DEF Defer, NextDef, tree
  <2>2. \A i \in DOMAIN pending' : \E j \in DOMAIN pending : pending'[i] = pending[j]
    BY <1>1, <2>1 DEF Busy
  <2>3. Orderly'
    BY <2>1, <2>2 DEF SInv, Orderly
  <2> QED BY <1>1, <2>1, <2>3, SettledKept DEF SInv
<1>5. CASE NextPass
  <2>1. pass' = pass + 1 /\ UNCHANGED <<defs, nodes, placed>>
    BY <1>5 DEF NextPass, tree
  <2>2. Orderly'
    BY <1>1, <2>1 DEF SInv, Orderly
  <2> QED BY <1>1, <2>1, <2>2, SettledKept DEF SInv
<1>6. CASE Attach
  <2> DEFINE new == <<Head(pending), cur, pass>>
             n2  == Attached(nodes[cur], Def1)
  <2>1. /\ Busy /\ Def1.elems # <<>> /\ idx > Len(Def1.elems)
        /\ pending' = Tail(pending) /\ placed' = placed \cup {new}
        /\ nodes' = [nodes EXCEPT ![cur] = n2]
        /\ UNCHANGED <<defs, pass>>
    BY <1>6 DEF Attach, NextDef
  <2>2. Head(pending) \in 1..Len(defs) /\ Def1 \in Def /\ Def1.elems \in Seq(Elem)
    BY <1>1, <2>1, HeadFacts
  <2>3. cur \in 1..Len(nodes) /\ nodes \in Seq(Node) /\ nodes[cur] \in Node
    <3>1. cur \in 1..Len(nodes)
      BY <2>1, <2>2 DEF IInv, TypeOK, CurOK
    <3> QED BY <3>1 DEF IInv, TypeOK
  <2>4. new[1] = Head(pending) /\ new[2] = cur /\ new[3] = pass
    OBVIOUS
  <2> HIDE DEF new
  \* The new claim is the latest.
  <2>5. \A x \in placed : Sooner(x, new)
    <3>1. Head(pending) = pending[1] /\ 1 \in DOMAIN pending /\ Head(pending) \in Nat
      BY <1>1, <2>1 DEF Busy
    <3> QED BY <1>1, <2>4, <3>1 DEF SInv, Orderly, Sooner
  <2>6. Sooner(new, new)
    BY <1>1, <2>2, <2>4 DEF Sooner
  <2>7. Orderly'
    <3>1. \A i \in DOMAIN pending' : \E j \in DOMAIN pending : pending'[i] = pending[j]
      BY <1>1, <2>1 DEF Busy
    <3>2. \A i \in DOMAIN pending' : Head(pending) < pending'[i]
      BY <1>1, <2>1, TailFacts DEF Busy, NoDefLost
    <3> QED BY <1>1, <2>1, <2>4, <3>1, <3>2, SMTT(30) DEF SInv, Orderly
  <2> PICK c \in 1..Len(nodes) : c = cur
    BY <2>3
  <2>8. n2.syntax = IF Def1.hasSyntax /\ Unset(nodes[c].syntax)
                         /\ (Def1.syntax.base \/ Def1.syntax.enums)
                    THEN Def1.syntax ELSE nodes[c].syntax
    BY <2>2, <2>3 DEF Attached, Node
  <2> HIDE DEF n2
  <2>9. /\ DOMAIN nodes' = DOMAIN nodes /\ nodes'[c] = n2
        /\ \A n \in DOMAIN nodes : n # c => nodes'[n] = nodes[n]
    BY <2>1, <2>3
  <2>10. ASSUME NEW n \in DOMAIN nodes, n # c PROVE Settled(n)'
    <3>1. Claims(n)' = Claims(n)
      BY <2>1, <2>4, <2>10 DEF Claims, Storable
    <3> QED BY <2>1, <2>9, <2>10, <3>1 DEF Settled, SInv
  <2>11. Storable(Head(pending)) <=> Def1.hasSyntax /\ (Def1.syntax.base \/ Def1.syntax.enums)
    BY DEF Storable, Def1
  <2>12. Settled(c) /\ c \in DOMAIN nodes
    BY <2>3 DEF SInv
  <2>13. CASE ~Storable(Head(pending))
    <3>1. Claims(c)' = Claims(c)
      BY <2>1, <2>4, <2>13 DEF Claims, Storable
    <3>2. nodes'[c].syntax = nodes[c].syntax
      BY <2>8, <2>9, <2>11, <2>13
    <3> QED BY <2>1, <2>7, <2>9, <2>10, <2>12, <3>1, <3>2 DEF Settled, SInv
  <2>14. CASE Storable(Head(pending))
    <3>1. Claims(c)' = Claims(c) \cup {new}
      BY <2>1, <2>4, <2>14 DEF Claims, Storable
    <3>2. CASE Claims(c) = {}
      <4>1. nodes'[c].syntax = Def1.syntax /\ ~Unset(Def1.syntax)
        BY <2>8, <2>9, <2>11, <2>12, <2>14, <3>2 DEF Settled, Unset
      <4>2. defs'[new[1]].syntax = Def1.syntax
        BY <2>1, <2>4 DEF Def1
      <4>3. Settled(c)'
        BY <2>6, <3>1, <3>2, <4>1, <4>2 DEF Settled
      <4> QED BY <2>7, <2>9, <2>10, <4>3 DEF SInv
    <3>3. CASE Claims(c) # {}
      <4>1. nodes'[c].syntax = nodes[c].syntax
        BY <2>8, <2>9, <2>12, <3>3 DEF Settled
      <4>2. Settled(c)'
        BY <2>1, <2>5, <2>12, <3>1, <3>3, <4>1 DEF Settled, Claims
      <4> QED BY <2>7, <2>9, <2>10, <4>2 DEF SInv
    <3> QED BY <3>2, <3>3
  <2> QED BY <2>13, <2>14
<1>7. CASE PlaceNum \/ PlaceNamedNum
  BY <1>2, <1>7 DEF PlaceNum, PlaceNamedNum, queue
<1>8. CASE FollowName \/ Stop
  BY <1>3, <1>8 DEF FollowName, Stop, queue, tree
<1>9. CASE UNCHANGED vars
  BY <1>3, <1>9 DEF vars, queue, tree
<1> QED BY <1>4, <1>5, <1>6, <1>7, <1>8, <1>9 DEF Next

\* That is what FirstAttachedSticks asks.
LEMMA SInvSticks == IInv /\ SInv => FirstAttachedSticks
<1> SUFFICES ASSUME IInv, SInv, NEW n \in DOMAIN nodes, NEW x \in Claims(n),
                    \A y \in Claims(n) : Sooner(x, y)
             PROVE  nodes[n].syntax = defs[x[1]].syntax
  BY DEF FirstAttachedSticks
<1>1. PICK y \in Claims(n) : /\ nodes[n].syntax = defs[y[1]].syntax
                             /\ \A z \in Claims(n) : Sooner(y, z)
  BY DEF SInv, Settled
<1>2. x \in placed /\ y \in placed /\ Sooner(x, y) /\ Sooner(y, x)
  BY <1>1 DEF Claims
<1>3. x[1] \in Nat /\ x[3] \in Nat /\ y[1] \in Nat /\ y[3] \in Nat
  BY <1>2 DEF IInv, TypeOK
<1>4. x[1] = y[1]
  BY <1>2, <1>3 DEF Sooner
<1> QED BY <1>1, <1>4

\* A node's syntax is that of the first definition attached to it, by pass and
\* then by load order, for every list of definitions: later ones never replace
\* it and none is skipped.
THEOREM FirstSticks == Spec => []FirstAttachedSticks
  BY InitIInv, NextIInv, InitNoDefLost, NextNoDefLost, InitSInv, NextSInv,
     SInvSticks, PTL DEF Spec

-----------------------------------------------------------------------------
(* What is left behind.                                                    *)

\* The first component of definition d is a name that leads nowhere.
Stuck(d) ==
  LET es == defs[d].elems IN
  es = <<>> \/ (1 <= Len(es) /\ es[1].kind = "name" /\ byLabel[es[1].name] = 0)

\* While a pass attaches nothing it names nothing, so what it put off first is
\* as stuck as what it put off last.
Blocked ==
  /\ Len(deferred) + Len(pending) <= before
  /\ idx > 1 => pending # <<>> /\ Def1.elems # <<>>
  /\ Len(deferred) + Len(pending) = before /\ idx = 1 => \A i \in DOMAIN deferred : Stuck(deferred[i])
  /\ done => pending = <<>> /\ NoProgress

\* Before the first pass nothing has been put off.
LEMMA InitBlocked == Init => Blocked
<1> SUFFICES ASSUME Init PROVE Blocked
  OBVIOUS
<1>1. Len(defs) \in Nat
  BY DefListsAssumption DEF Init
<1>2. Len(pending) = Len(defs)
  BY <1>1 DEF Init
<1> QED BY <1>1, <1>2 DEF Init, Blocked

\* A definition is put off only where it is stuck, and then nothing has changed.
LEMMA NextBlocked == IInv /\ NamesLead /\ Blocked /\ [Next]_vars => Blocked'
<1> SUFFICES ASSUME IInv, NamesLead, Blocked, [Next]_vars PROVE Blocked'
  OBVIOUS
<1>1. /\ pending \in Seq(Nat) /\ deferred \in Seq(Nat) /\ before \in Nat /\ idx \in Nat \ {0}
      /\ Len(pending) \in Nat /\ Len(deferred) \in Nat
  <2>1. pending \in Seq(Nat) /\ deferred \in Seq(Nat) /\ before \in Nat /\ idx \in Nat \ {0}
    BY DEF IInv, TypeOK
  <2> QED BY <2>1
<1>2. CASE PlaceNum \/ PlaceNamedNum \/ FollowName
  <2>1. /\ Within /\ idx' = idx + 1 /\ UNCHANGED <<defs, pending, deferred, before, done>>
    BY <1>2 DEF PlaceNum, PlaceNamedNum, FollowName, queue
  <2>2. pending # <<>> /\ ~done
    BY <2>1 DEF Within, Busy
  <2>3. Def1.elems # <<>>
    <3>1. Len(Def1.elems) >= idx /\ Def1.elems \in Seq(Elem)
      BY <2>1, HeadFacts DEF Within, IInv
    <3> QED BY <1>1, <3>1
  <2>4. Def1' = Def1
    BY <2>1 DEF Def1
  <2> QED BY <1>1, <2>1, <2>2, <2>3, <2>4 DEF Blocked
<1>3. CASE Defer
  <2> DEFINE d == Head(pending)
  <2>1. /\ Busy /\ Unplaced /\ deferred' = Append(deferred, d) /\ pending' = Tail(pending)
        /\ idx' = 1 /\ UNCHANGED <<defs, byLabel, before, done>>
    BY <1>3 DEF Defer, NextDef, Later, tree
  <2>2. pending # <<>> /\ ~done /\ d \in 1..Len(defs) /\ Def1.elems \in Seq(Elem)
    BY <2>1, HeadFacts DEF Busy, IInv
  <2>3. idx = 1
    <3>1. CASE Def1.elems = <<>>
      BY <1>1, <3>1 DEF Blocked
    <3>2. CASE NameUnknown
      <4>1. idx \in DOMAIN Def1.elems /\ Def1.elems[idx].kind = "name"
        BY <1>1, <2>2, <3>2 DEF NameUnknown, Within, Elem1
      <4>2. d \in DOMAIN defs
        BY <2>2 DEF IInv, TypeOK
      <4> QED BY <1>1, <4>1, <4>2 DEF NamesLead, Def1
    <3> QED BY <2>1, <3>1, <3>2 DEF Unplaced
  <2>4. Stuck(d)
    <3>1. CASE NameUnknown
      <4>1. Len(Def1.elems) >= 1 /\ Elem1.kind = "name" /\ {byLabel[Elem1.name]} \ {0} = {}
        BY <2>3, <3>1 DEF NameUnknown, Within, Named
      <4>2. byLabel[Elem1.name] = 0
        BY <4>1
      <4> QED BY <2>3, <4>1, <4>2 DEF Stuck, Elem1, Def1
    <3> QED BY <2>1, <3>1 DEF Unplaced, Stuck, Def1
  <2>5. \A j : Stuck(j)' = Stuck(j)
    BY <2>1 DEF Stuck
  <2> HIDE DEF d
  <2>6. /\ Len(deferred') = Len(deferred) + 1 /\ Len(pending') = Len(pending) - 1
        /\ DOMAIN deferred' = 1..(Len(deferred) + 1) /\ deferred'[Len(deferred) + 1] = d
        /\ \A j \in 1..Len(deferred) : deferred'[j] = deferred[j] /\ j \in DOMAIN deferred
    <3>1. d \in Nat /\ deferred' \in Seq(Nat)
      BY <1>1, <2>1, <2>2 DEF d
    <3> QED BY <1>1, <2>1, <2>2, <3>1
  <2>7. Len(deferred) + Len(pending) = before =>
          \A i \in DOMAIN deferred' : Stuck(deferred'[i])
    <3> SUFFICES ASSUME Len(deferred) + Len(pending) = before, NEW j \in DOMAIN deferred'
                 PROVE  Stuck(deferred'[j])
      OBVIOUS
    <3>1. j = Len(deferred) + 1 \/ j \in 1..Len(deferred)
      BY <1>1, <2>6
    <3> QED BY <2>3, <2>4, <2>6, <3>1 DEF Blocked
  <2>8. Len(deferred') + Len(pending') = Len(deferred) + Len(pending)
    BY <1>1, <2>6
  <2>9. Len(deferred') + Len(pending') = before' =>
          \A i \in DOMAIN deferred' : Stuck(deferred[i])'
    BY <2>1, <2>7, <2>8 DEF Stuck
  <2> QED BY <1>1, <2>1, <2>2, <2>8, <2>9 DEF Blocked
<1>4. CASE Attach
  <2>1. /\ Busy /\ pending' = Tail(pending) /\ idx' = 1 /\ UNCHANGED <<defs, deferred, before, done>>
    BY <1>4 DEF Attach, NextDef
  <2>2. Len(pending') = Len(pending) - 1 /\ ~done
    BY <1>1, <2>1 DEF Busy
  <2>3. Len(deferred') + Len(pending') < before'
    BY <1>1, <2>1, <2>2 DEF Blocked
  <2>4. Len(deferred') + Len(pending') \in Nat
    BY <1>1, <2>1, <2>2 DEF Busy
  <2> QED BY <1>1, <2>1, <2>2, <2>3, <2>4 DEF Blocked
<1>5. CASE NextPass
  <2>1. /\ pending = <<>> /\ pending' = deferred /\ deferred' = <<>> /\ before' = Len(deferred)
        /\ idx' = idx /\ ~done /\ done' = done
    BY <1>5 DEF NextPass
  <2>2. idx = 1
    BY <1>1, <2>1 DEF Blocked
  <2>3. Len(deferred') = 0 /\ DOMAIN deferred' = {}
    BY <2>1
  <2> QED BY <1>1, <2>1, <2>2, <2>3 DEF Blocked
<1>6. CASE Stop \/ UNCHANGED vars
  <2>1. /\ UNCHANGED <<defs, nodes, byLabel, pending, deferred, before, idx>>
        /\ done' = done \/ (pending = <<>> /\ NoProgress)
    BY <1>6 DEF Stop, vars, tree, queue
  <2>2. Def1' = Def1 /\ NoProgress' = NoProgress /\ \A i \in DOMAIN deferred : Stuck(deferred[i])' = Stuck(deferred[i])
    BY <2>1 DEF Def1, NoProgress, Stuck
  <2> QED BY <1>1, <2>1, <2>2 DEF Blocked
<1> QED BY <1>2, <1>3, <1>4, <1>5, <1>6 DEF Next
\* A value whose first component is stuck leads nowhere.
LEMMA StuckIsLost ==
  ASSUME IInv, NEW d \in 1..Len(defs), Stuck(d)
  PROVE  ~Placeable(d)
<1> SUFFICES ASSUME defs[d].elems # <<>>
             PROVE  Reach(d)[Len(defs[d].elems)] = Lost
  BY DEF Placeable
<1> DEFINE es == defs[d].elems
           n  == Len(es)
           ByNumber(p, s) == IF p = New \/ WithSubid(nodes, p, s) = {} THEN New
                             ELSE CHOOSE i \in DOMAIN nodes : IsFirst(i, WithSubid(nodes, p, s))
           ByName(k, p, l) == IF k = 1 THEN IF byLabel[l] = 0 THEN Lost ELSE byLabel[l]
                              ELSE IF p = New \/ Labelled(nodes, p, l) = {} THEN Lost
                              ELSE CHOOSE i \in DOMAIN nodes : IsFirst(i, Labelled(nodes, p, l))
           Step(k, p) == IF p = Lost THEN Lost
                         ELSE IF es[k].kind = "name" THEN ByName(k, p, es[k].name)
                         ELSE ByNumber(p, es[k].num)
           Walk(f) == [k \in 0..n |-> IF k = 0 THEN 0 ELSE Step(k, f[k - 1])]
           at == CHOOSE f : f = Walk(f)
           lost == [k \in 0..n |-> IF k = 0 THEN 0 ELSE Lost]
<1>1. Reach(d) = at
  BY DEF Reach
<1>2. n \in Nat \ {0} /\ es[1].kind = "name" /\ byLabel[es[1].name] = 0
  <2>1. defs[d] \in Def
    BY DEF IInv, TypeOK
  <2>2. es \in Seq(Elem) /\ es # <<>>
    BY <2>1 DEF Def
  <2>3. n \in Nat \ {0}
    BY <2>2
  <2> QED BY <2>2, <2>3 DEF Stuck
<1>3. Step(1, 0) = Lost /\ \A k \in 1..n : Step(k, Lost) = Lost
  BY <1>2 DEF Lost
<1> HIDE DEF Step, es, n
<1>4. lost = Walk(lost)
  <2>1. ASSUME NEW k \in 0..n PROVE lost[k] = Walk(lost)[k]
    <3>1. CASE k = 0
      BY <3>1
    <3>2. CASE k = 1
      BY <1>2, <1>3, <3>2
    <3>3. CASE k \notin {0, 1}
      <4>1. k - 1 \in 1..n /\ k \in 1..n
        BY <1>2, <3>3
      <4>2. lost[k - 1] = Lost
        BY <4>1
      <4> QED BY <1>3, <4>1, <4>2
    <3> QED BY <3>1, <3>2, <3>3
  <2> QED BY <2>1
<1>5. at = Walk(at)
  <2> HIDE DEF Walk, lost
  <2> QED BY <1>4
<1> HIDE DEF at
<1>6. at[0] = 0 /\ \A k \in 1..n : at[k] = Step(k, at[k - 1])
  <2>1. \A k \in 0..n : Walk(at)[k] = IF k = 0 THEN 0 ELSE Step(k, at[k - 1])
    OBVIOUS
  <2> HIDE DEF Walk
  <2>2. \A k \in 0..n : at[k] = IF k = 0 THEN 0 ELSE Step(k, at[k - 1])
    BY <1>5, <2>1
  <2> QED BY <1>2, <2>2
<1> HIDE DEF Walk
<1>7. \A k \in 1..n : at[k] = Lost
  <2> SUFFICES ASSUME {k \in 1..n : at[k] # Lost} # {} PROVE FALSE
    OBVIOUS
  <2>1. PICK k \in {j \in 1..n : at[j] # Lost} : \A j \in {m \in 1..n : at[m] # Lost} : k <= j
    <3>1. {j \in 1..n : at[j] # Lost} \subseteq Nat
      BY <1>2
    <3> QED BY <3>1, LeastNat
  <2>2. CASE k = 1
    BY <1>2, <1>3, <1>6, <2>1, <2>2
  <2>3. CASE k # 1
    <3>1. k - 1 \in 1..n /\ k \in 1..n
      BY <1>2, <2>1, <2>3
    <3>2. at[k - 1] = Lost
      BY <2>1, <3>1
    <3> QED BY <1>3, <1>6, <2>1, <3>1, <3>2
  <2> QED BY <2>2, <2>3
<1> QED BY <1>1, <1>2, <1>7 DEF es, n

\* Where bare names only lead a value, nothing that could be placed is left
\* behind, whatever the order of the definitions.
THEOREM NothingPlaceableLeft == Spec => []LeadingNamesSuffice
<1>1. IInv /\ Blocked /\ NamesLead => NoneLeftPlaceable
  <2> SUFFICES ASSUME IInv, Blocked, done, NEW i \in DOMAIN deferred
               PROVE  ~Placeable(deferred[i])
    BY DEF NoneLeftPlaceable
  <2>1. deferred \in Seq(1..Len(defs)) /\ Len(deferred) \in Nat /\ deferred # <<>>
    <3>1. deferred \in Seq(1..Len(defs))
      BY DEF IInv, TypeOK
    <3> QED BY <3>1
  <2>2. pending = <<>> /\ Len(deferred) = before
    BY <2>1 DEF Blocked, NoProgress
  <2>3. idx = 1 /\ Len(deferred) + Len(pending) = before
    BY <2>1, <2>2 DEF Blocked, IInv, TypeOK
  <2>4. Stuck(deferred[i]) /\ deferred[i] \in 1..Len(defs)
    BY <2>1, <2>3 DEF Blocked
  <2> QED BY <2>4, StuckIsLost
<1>2. [Next]_vars => (NamesLead' <=> NamesLead)
  <2>1. [Next]_vars => defs' = defs
    BY DEF Next, PlaceNum, PlaceNamedNum, FollowName, Defer, Attach, NextPass, Stop, vars
  <2> QED BY <2>1 DEF NamesLead
<1>3. Init /\ [][Next]_vars /\ []IInv => [](NamesLead => Blocked)
  <2>1. Init => (NamesLead => Blocked)
    BY InitBlocked
  <2>2. IInv /\ (NamesLead => Blocked) /\ [Next]_vars => (NamesLead => Blocked)'
    BY <1>2, NextBlocked
  <2> QED BY <2>1, <2>2, PTL
<1>4. IInv /\ (NamesLead => Blocked) => LeadingNamesSuffice
  BY <1>1 DEF LeadingNamesSuffice
<1> QED BY <1>3, <1>4, Invariance, PTL DEF Spec

=============================================================================
