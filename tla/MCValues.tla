------------------------------ MODULE MCValues ------------------------------
(***************************************************************************)
(* The limits of every row of the symbol table that has a value; numbers   *)
(* around every one of these limits and around the width of the bytes;     *)
(* one text of every form, and lists around the lengths where they become  *)
(* another token or none; values of every length the decoders tell apart.  *)
(***************************************************************************)
EXTENDS Values, SymTable

Rep(n, x) == [i \in 1..n |-> x]

MCLimits == {[enc |-> r.enc, low |-> r.low, high |-> r.high]
               : r \in {s \in Range(SYMTABLE) : s.enc \notin {"Nothing", "Oid"}}}

Edges == {r.low : r \in MCLimits} \cup {r.high : r \in MCLimits} \cup {255, 65535, 65536, 16777215}
Naturals == UNION {{n - 1, n, n + 1} : n \in {e \in Edges : e > 0}} \cup {0, 65792, 16777217}
Words == {Word(n) : n \in Naturals \cup {-1}} \cup {<<255, 255, 255, 254>>, <<128, 0, 0, 0>>}
Num(n) == [top |-> 0, word |-> Word(n)]

\* -1 and 2^32 + 1 have the low four bytes of other numbers.
Singles == {Text("numbers", <<[top |-> t, word |-> w]>>) : t \in {0}, w \in Words}
             \cup {Text("numbers", <<[top |-> t, word |-> w]>>) : t \in {-1, 1}, w \in {Zero, Word(1), Word(-1)}}

Q(d)     == <<1, 2, 3, d>>
Local    == [i \in 1..16 |-> IF i = 1 THEN 254 ELSE IF i = 16 THEN 1 ELSE 0]
V4Mapped == Rep(10, 0) \o <<255, 255, 1, 2, 3, 4>>

Numeric == {"Uint", "Uint24", "Ushort", "Uchar"}
Strings == {"String", "Strzero", "Hexstr"}

NumberTexts == {Text("numbers", [i \in 1..n |-> Num(v)]) : n \in {2, 3, 4, 10, 11, 15, 16, 128, 129},
                                                           v \in {0, 5, 255, 256, 65535, 65536}}
AddressTexts ==
  {Text("ip4", Rep(n, Q(d))) : n \in {1, 2, 16, 17}, d \in {4, 256}}
    \cup {Text("ip6", Rep(n, a)) : n \in {1, 2, 16, 17}, a \in {Local, V4Mapped}}
    \cup {Text("slash", Rep(n, <<a, k>>)) : n \in {1, 2, 15, 16}, a \in {Q(4), Local, V4Mapped}, k \in {0, 64, 256, 65536}}
StringTexts ==
  {Text("hex", Rep(n, d)) : n \in {1, 2, 3, 4, 6, 8, 28}, d \in {0, 10}}
    \cup {Text("quoted", Rep(n, 97)) : n \in {0, 1, 2, 14, 15, 16, 17, 28, 29, 32, 33, 253, 254, 255, MaxString + 1}}
    \cup {Text("quoted", <<97, b>> \o s \o <<97>>) : b \in {0, Tab, Newline, Quote, Backslash},
                                                    s \in {<<>>, <<97>>, <<Quote>>}}
\* Hexadecimal digits in quotes: "0x", "0X" or neither, and what may stand behind.
QuotedHex == {Text("quoted", x \o d) : x \in {<<48, 120>>, <<48, 88>>, <<48>>, <<120, 48>>},
                                       d \in UNION {[1..n -> {43, 48, 70, 97, 103}] : n \in 0..4}}
OneOfEach == {Text("numbers", <<Num(5)>>), Text("numbers", <<Num(5), Num(6)>>), Text("ip4", <<Q(4)>>),
              Text("ip6", <<Local>>), Text("slash", <<<<Q(4), 80>>>>), Text("slash", <<<<Local, 64>>>>),
              Text("mac", <<Rep(6, 17)>>), Text("masked", <<<<Rep(6, 17), Rep(6, 255)>>>>),
              Text("hex", <<1, 2>>), Text("quoted", <<97, 98>>)}
MCTexts == [e \in Encs |-> CASE e \in Numeric -> OneOfEach \cup Singles
                             [] e \in Strings -> StringTexts \cup {Text("numbers", <<Num(5)>>)}
                                                             \cup IF e = "Hexstr" THEN QuotedHex ELSE {}
                             [] OTHER         -> OneOfEach \cup NumberTexts \cup AddressTexts]

WordFiles   == UNION {{w, Low(w, 3), Low(w, 2), Low(w, 1)} : w \in Words}
StringFiles == {<<97, b>> \o s : b \in {0, Tab, Newline, Quote, Backslash}, s \in {<<>>, <<97>>, <<Quote>>, <<97, 0>>}}
MappedFiles == {V4Mapped, <<1>> \o V4Mapped, <<2>> \o V4Mapped, V4Mapped \o <<64>>, V4Mapped \o <<0, 80>>, Local \o V4Mapped}
LongFiles   == {Rep(n, b) : n \in 0..19 \cup {28, 29, 32, 34, 64, 68, 127, 128, 129, 240, 254, 255}, b \in {0, 1, 2, 97}}
MCFiles == [e \in Encs |-> CASE e \in Numeric -> WordFiles \cup {Rep(n, 1) : n \in 0..5}
                             [] e \in Strings -> LongFiles \cup StringFiles
                             [] OTHER         -> LongFiles \cup MappedFiles]
=============================================================================
