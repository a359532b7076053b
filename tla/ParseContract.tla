---------------------------- MODULE ParseContract ----------------------------
(***************************************************************************)
(* The grammar of a config file and what its tree must hold, stated over   *)
(* the whole text at once: neither follows the parser's steps.             *)
(***************************************************************************)
EXTENDS Parse

(* The text, bracket by bracket.                                           *)

Ends     == {i \in DOMAIN toks : toks[i].kind \in {"LBrace", "RBrace", "Semi"}}
Start(i) == 1 + IF \E j \in Ends : j < i THEN CHOOSE j \in Ends : j < i /\ \A k \in Ends : k < i => k <= j ELSE 0
Piece(i) == SubSeq(toks, Start(i), i)  \* the statement, or the head of the block, that ends at i
Depth(i) == Cardinality({j \in Ends : j <= i /\ toks[j].kind = "LBrace"})
              - Cardinality({j \in Ends : j <= i /\ toks[j].kind = "RBrace"})

\* Where Main is over, 0 if it never is.
MainEnd  == LET over == {i \in Ends : Depth(i) = 0}
            IN IF over = {} THEN 0 ELSE CHOOSE i \in over : \A j \in over : i <= j

Number     == Is("integer")
GenericOf(ks) == GenericHead \o ks
Statements ==
  {<<Is("Identifier"), ValueKinds, Is("Semi")>>, <<Is("IdentCvc"), Is("string"), Is("Semi")>>,
   <<Is("DigitMap"), Is("string"), Is("Semi")>>, <<Is("IdentSnmpW"), OidKinds, Number, Is("Semi")>>,
   GenericOf(<<Is("TlvString"), Is("string"), Is("Semi")>>), GenericOf(<<Is("TlvStringZero"), Is("string"), Is("Semi")>>),
   GenericOf(<<Is("TlvLength"), Number, Is("TlvValue"), Is("hex"), Is("Semi")>>)}
    \cup {GenericOf(<<Is("TlvType"), Is(t), Is("TlvValue"), ValueKinds, Is("Semi")>>) : t \in {"Integer", "Short", "Char", "IPAddress"}}
    \cup {<<Is("IdentSnmpSet"), OidKinds, Is(t), Wanted(t), Is("Semi")>> : t \in TypeKinds}
Heads == {<<Is("Identifier"), Is("LBrace")>>, GenericOf(<<Is("LBrace")>>)}

Like(p, shapes) == \E s \in shapes : Len(s) = Len(p) /\ \A i \in DOMAIN s : p[i].kind \in s[i]

\* A file of the grammar: Main around blocks and statements, and whatever behind it.
Grammatical ==
  /\ MainEnd > 0 /\ Len(toks) >= 2 /\ toks[1].kind = "Main" /\ toks[2].kind = "LBrace"
  /\ \A i \in Ends : 2 < i /\ i <= MainEnd =>
       CASE toks[i].kind = "LBrace" -> Like(Piece(i), Heads)
         [] toks[i].kind = "Semi" -> Like(Piece(i), Statements)
         [] toks[i].kind = "RBrace" -> Len(Piece(i)) = 1

\* Settings are only ever taken from a file of the grammar, read to the end of Main.
TakesTheGrammar == stage = "parsed" => Grammatical /\ pos = MainEnd + 1

\* And every such file is read, or as far as a statement whose value is refused.
ReadsTheGrammar ==
  /\ TakesTheGrammar
  /\ stage = "stopped" /\ Grammatical => \E i \in Ends : Start(i) = pos /\ toks[i].kind = "Semi"

-----------------------------------------------------------------------------
(* Every setting with its depth and its code, in their order.              *)

CodeOf(p) == IF p[1].kind = "IdentGeneric" THEN p[3].of[5] ELSE Code(p[1].of)
Copies(p) ==
  IF p[1].kind # "IdentCvc" THEN 1
  ELSE LET data == CHOOSE d \in FileBytes(p[2].of) : TRUE
       IN CHOOSE n \in 1..Len(data) : Len(data) \in ChunkSize * (n - 1) + 1 .. ChunkSize * n

Said == \* by the text
  FlattenSeq([i \in 1..MainEnd |->
    IF i \notin Ends \ {2} \/ toks[i].kind = "RBrace" THEN <<>>
    ELSE LET depth == IF toks[i].kind = "LBrace" THEN Depth(i) - 1 ELSE Depth(i)
         IN [k \in 1..Copies(Piece(i)) |-> [depth |-> depth, code |-> CodeOf(Piece(i)), block |-> toks[i].kind = "LBrace"]]])

\* By the tree: what the first n settings are, each before those in it, and
\* which ones are left.
At(depth, ts) == [i \in DOMAIN ts |-> [depth |-> depth, of |-> ts[i]]]
OneMore(walk) ==
  IF walk.left = <<>> THEN walk
  ELSE LET next == Head(walk.left)
       IN [said |-> Append(walk.said, [depth |-> next.depth, code |-> next.of.code, block |-> next.of.block]),
           left |-> At(next.depth + 1, next.of.children) \o Tail(walk.left)]
Outline[n \in 0..Len(Said)] == IF n = 0 THEN [said |-> <<>>, left |-> At(1, tree)] ELSE OneMore(Outline[n - 1])

\* No setting of the text is lost, moved to another block, or taken twice; a block
\* without settings stays one, and a certificate is as many settings as it takes.
TreeIsText == stage = "parsed" => Outline[Len(Said)] = [said |-> Said, left |-> <<>>]
=============================================================================
