----------------------------- MODULE MCMibModule -----------------------------
(***************************************************************************)
(* Modules of every kind of clause in many orders; modules with a token    *)
(* missing from the definition of an object; search paths over two         *)
(* directories, a missing one and one listed twice, with files that are    *)
(* unreadable, ignored or no files.                                        *)
(***************************************************************************)
EXTENDS MibModule

W(w)   == [kind |-> "word", word |-> w, num |-> 0]
V(v)   == [kind |-> "num", word |-> "", num |-> v]
S(s)   == [kind |-> "str", word |-> s, num |-> 0]
P(k)   == [kind |-> k, word |-> "", num |-> 0]
Words(ws) == [k \in DOMAIN ws |-> W(ws[k])]
In(ts) == <<P("{")>> \o ts \o <<P("}")>>
Of(ts) == <<P("(")>> \o ts \o <<P(")")>>
Assign == <<P("::=")>>

Clause(ts, ds, sy) == [toks |-> ts, defs |-> ds, types |-> sy]
Defines(ts, d)     == Clause(ts, <<d>>, <<>>)
Names(ts, t, sy)   == Clause(<<W(t)>> \o Assign \o ts, <<>>, <<<<t, sy>>>>)
Nothing(ts)        == Clause(ts, <<>>, <<>>)

Base(b)  == [NoType EXCEPT !.base = b]
Named(t) == [NoType EXCEPT !.named = t]
With(sy) == [NoClauses EXCEPT !.hasSyntax = TRUE, !.syntax = sy]

Header == Nothing(Words(<<"M", "DEFINITIONS">>) \o Assign \o Words(<<"BEGIN">>))
Footer == Nothing(<<W("END")>>)
Imports == Nothing(Words(<<"IMPORTS", "x", "OBJECT-TYPE", "FROM", "OTHER">>) \o <<P(";")>>)

Arc(l) == Defines(Words(<<l, "OBJECT", "IDENTIFIER">>) \o Assign
                    \o In(<<W("iso"), W("org")>> \o Of(<<V(3)>>) \o <<V(6)>>),
                  Definition(l, <<Name("iso"), NamedNum("org", 3), Num(6)>>, NoClauses))
Identity(l) == Defines(Words(<<l, "MODULE-IDENTITY", "DESCRIPTION">>) \o <<S("text")>> \o Assign \o In(<<W("a"), V(-1)>>),
                       Definition(l, <<Name("a"), Num(-1)>>, NoClauses))
Enumerated(l) ==
  Defines(Words(<<l, "OBJECT-TYPE", "SYNTAX", "INTEGER">>)
            \o In(<<W("up")>> \o Of(<<V(1)>>) \o <<P(","), W("down")>> \o Of(<<V(2)>>))
            \o Words(<<"STATUS", "current">>) \o Assign \o In(<<W("a"), V(1)>>),
          Definition(l, <<Name("a"), Num(1)>>, With([Base("Integer") EXCEPT !.enums = <<<<"up", 1>>, <<"down", 2>>>>])))
Sized(l) ==
  Defines(Words(<<l, "OBJECT-TYPE", "SYNTAX", "T">>) \o Of(<<W("SIZE")>> \o Of(<<V(0), P(".."), V(5), P("|"), V(7)>>))
            \o Words(<<"DEFVAL">>) \o In(<<S("x")>>) \o Assign \o In(<<W("a"), V(2)>>),
          Definition(l, <<Name("a"), Num(2)>>, With([Named("T") EXCEPT !.ranges = <<<<0, 5>>, <<7, 7>>>>])))
Row(l) ==
  Defines(Words(<<l, "OBJECT-TYPE", "SYNTAX", "Row", "INDEX">>) \o In(<<W("x"), P(","), W("IMPLIED"), W("y")>>)
            \o Assign \o In(<<W("a"), V(1), V(64)>>),
          Definition(l, <<Name("a"), Num(1), Num(0)>>,
                     [With(Named("Row")) EXCEPT !.indexes = <<[label |-> "x", implied |-> FALSE], [label |-> "y", implied |-> TRUE]>>]))
Augmenting(l) ==
  Defines(Words(<<l, "OBJECT-TYPE", "SYNTAX", "SEQUENCE", "OF", "Row", "AUGMENTS">>) \o In(<<W("e")>>) \o Assign \o In(<<V(1), V(3)>>),
          Definition(l, <<Num(1), Num(3)>>, [With(NoType) EXCEPT !.augments = "e"]))

Objects(l) == {Arc(l), Identity(l), Enumerated(l), Sized(l), Row(l), Augmenting(l)}

Convention1 == Names(<<W("TEXTUAL-CONVENTION"), W("DISPLAY-HINT"), S("255a"), W("SYNTAX"), W("OCTET"), W("STRING")>>
                       \o Of(<<W("SIZE")>> \o Of(<<V(4)>>)),
                     "T", [Base("OctetStr") EXCEPT !.ranges = <<<<4, 4>>>>, !.hint = "255a"])
Convention2 == Names(Words(<<"TEXTUAL-CONVENTION", "SYNTAX", "U">>), "T", Named("U"))
\* Without SYNTAX, and longer than it is looked for.
Convention3 == Names(<<W("TEXTUAL-CONVENTION")>> \o [k \in 1..14 |-> W("STATUS")], "T", NoType)
Narrowed    == Names(<<W("U")>> \o Of(<<V(1), P(".."), V(2)>>), "T", [Named("U") EXCEPT !.ranges = <<<<1, 2>>>>])
Alias(t, u) == Names(<<W(u)>>, t, Named(u))
Limited     == Names(<<W("Integer32")>> \o Of(<<V(-2), P(".."), V(9)>>), "U", [Base("Integer32") EXCEPT !.ranges = <<<<-2, 9>>>>])
Sequence    == Nothing(<<W("Row")>> \o Assign \o <<W("SEQUENCE")>> \o In(Words(<<"x", "INTEGER">>)))
Trap        == Nothing(Words(<<"t", "NOTIFICATION-TYPE", "OBJECTS">>) \o In(<<W("x")>>) \o Assign \o <<V(5)>>)
Macro1      == Clause(Words(<<"OBJECT-TYPE", "MACRO">>) \o Assign \o Words(<<"BEGIN", "VALUE", "NOTATION">>) \o Assign
                        \o <<W("value")>> \o Of(Words(<<"VALUE", "ObjectName">>)) \o <<W("END")>>,
                      <<>>, <<<<"NOTATION", Named("value")>>>>)
Odd         == Nothing(Words(<<"o", "OBJECT", "IDENTIFIER">>) \o Assign \o <<V(5)>>)

Others == {Convention1, Convention2, Convention3, Narrowed, Alias("T", "U"), Alias("U", "V"), Alias("V", "T"), Names(<<W("Counter32")>>, "V", Base("Counter")), Limited,
           Sequence, Trap, Macro1, Odd, Imports}

\* A file of some clauses; of clause d, token k is missing.
Joined(cs) == FlattenSeq([k \in DOMAIN cs |-> cs[k].toks])
File(name, cs) == [name |-> name, regular |-> TRUE, ignored |-> FALSE, readable |-> TRUE,
                   toks |-> Joined(cs), clauses |-> cs, damaged |-> 0]
Damaged(cs, d, k) == [File(1, cs) EXCEPT !.toks = Joined([cs EXCEPT ![d].toks = RemoveAt(@, k)]), !.damaged = d]
Module(cs) == <<Header>> \o cs \o <<Footer>>

Whole == {Module(<<a, b, c>>) : a \in Others, b \in Objects("b") \cup Others, c \in {Sized("c"), Limited, Alias("V", "T"), Names(<<W("Counter32")>>, "V", Base("Counter"))}}
            \cup {Module(<<a, b>>) : a \in Objects("d"), b \in Objects("e")}
Missing == UNION {{Damaged(Module(<<a, b, c, Sized("e"), Arc("f")>>), 3, k) : k \in DOMAIN b.toks}
                   : a \in {Imports, Row("g"), Convention1, Sequence}, b \in Objects("b"), c \in Objects("c") \cup {Trap, Sequence, Convention2}}

Home == "home" First == "first" Second == "second" None == "none"
Only(f) == [d \in {Home, First, Second, None} |-> IF d = None THEN Unreadable ELSE IF d = First THEN {f} ELSE {}]

\* Three modules that define T and a in one directory, the last also in another.
MA == File(2, Module(<<Convention1, Arc("a")>>))
MB == File(1, Module(<<Limited, Alias("T", "U"), Identity("a")>>))
MC == File(3, Module(<<Convention2, Enumerated("a")>>))
Several ==
  [d \in {Home, First, Second, None} |->
    CASE d = None   -> Unreadable
      [] d = Home   -> {[MA EXCEPT !.name = 9]}
      [] d = First  -> {MA, MB, MC, [MB EXCEPT !.name = 4, !.ignored = TRUE]}
      [] d = Second -> {MC, [MA EXCEPT !.name = 4, !.readable = FALSE], [MB EXCEPT !.name = 5, !.regular = FALSE]}]

Says(c, m, h) == [custom |-> c, mibdirs |-> m, home |-> h]
Silent == Says(NoPath, NoPath, NoPath)
Spoken == {Silent, Says(<<Second, None, First>>, <<Home>>, NoPath), Says(NoPath, <<First, First>>, NoPath),
           Says(NoPath, NoPath, <<Home>>)}
MCStandard == <<None, First>>

MCSystems == [says : {Silent}, disk : {Only(File(1, cs)) : cs \in Whole} \cup {Only(f) : f \in Missing}]
               \cup [says : Spoken, disk : {Several}]

\* A convention without its last parenthesis.
MCUnclosed == [says : {Silent},
               disk : {Only(Damaged(Module(<<Convention1, Arc("a"), Enumerated("b")>>), 2, Len(Convention1.toks)))}]
=============================================================================
