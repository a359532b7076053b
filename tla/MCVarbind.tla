----------------------------- MODULE MCVarbind -----------------------------
(***************************************************************************)
(* Settings with every word of five telling bytes, strings around the      *)
(* lengths where a header changes form and where the scanner stops, others *)
(* of what it takes for something else, and arcs around the numbers where  *)
(* a sub-identifier takes another byte.                                    *)
(***************************************************************************)
EXTENDS Varbind

Obj(o)   == [oid |-> o, ranges |-> <<>>, hint |-> "none"]
Rep(n, x) == [i \in 1..n |-> x]

Enterprise == <<1, 3, 6, 1, 4, 1, 4491, 2, 1, 20, 1, 1>>
Wide       == <<2, 999, 127, 128, 16383, 16384, 2097151, 2097152, 268435455, 268435456, MaxArc>>

\* The last ones are not below a root, and just too long for a short header.
Oids == {<<1, 3>>, <<0, 39, 0>>, <<1, 39, 1>>, <<2, 0>>, <<1, 3, 6, 1, 2, 1, 69, 1, 1, 1, 0>>,
         Enterprise, Enterprise \o Rep(5, 200), Wide, <<3, 1>>, <<2, MaxArc>>} \cup {Enterprise \o Rep(n, 2^28) : n \in 20..23}

MCObjects == {Obj(o) : o \in Oids}
               \cup {[Obj(Enterprise) EXCEPT !.ranges = <<[lo |-> 0, hi |-> 1], [lo |-> 100, hi |-> 255]>>],
                     [Obj(Enterprise) EXCEPT !.hint = "decimal"]}

Words   == [1..4 -> {0, 1, 127, 128, 255}]
Lengths == {0, 1, 2, 95, 100, 101, 102, 104, 105, 106, 107, 108, 109, 110, 114, 115, 116, 117, 118, 126,
            127, 128, 129, 240, 255, 256, 257, 300, MaxString - 1, MaxString, MaxString + 1}

\* What is printed as it is, what the scanner changes, and what stands in
\* hexadecimal digits; and long strings with one of the second or of the last.
Strings == UNION {[1..n -> {97, Quote, Backslash, Tab}] : n \in 1..3}
             \cup {<<97, b>> : b \in {0, 31, 32, 126, 127, 128}}
             \cup {Append(Rep(MaxString, 97), b) : b \in {0, Quote}}

MCValues ==
  {[type |-> t, data |-> w] : t \in {"Int", "Gauge"}, w \in Words}
    \cup {[type |-> t, data |-> w] : t \in {"Counter", "TimeTicks"}, w \in [1..4 -> {0, 128, 255}]}
    \cup {[type |-> "Str", data |-> Rep(n, 97)] : n \in Lengths}
    \cup {[type |-> "Str", data |-> s] : s \in Strings}
    \cup {[type |-> "Ip", data |-> w] : w \in [1..4 -> {0, 255}]}
    \cup {[type |-> "Oid", data |-> o] : o \in Oids}
    \cup {[type |-> "Control", data |-> <<b>>] : b \in {0, 1, 255}}
    \cup {[type |-> "Bare", data |-> <<>>]}

\* Two rows of addresses: nine arcs of two bytes.
Addresses   == {Obj(Enterprise \o Rep(8, 200))}
LongValues  == {[type |-> "Str", data |-> Rep(n, 97)] : n \in 95..100}
Hinted      == {[Obj(Enterprise) EXCEPT !.hint = h] : h \in {"fraction", "hexadecimal"}}
HintedValues == {[type |-> "Int", data |-> WordOf(n)] : n \in {1, 16, 31}}
=============================================================================
