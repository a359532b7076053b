------------------------------ MODULE MibModule ------------------------------
(***************************************************************************)
(* Reading the MIBs: the search path of src/main.rs, Mib::load_dirs of     *)
(* src/mib/mod.rs, and the parser of src/mib/parse.rs, which walks the     *)
(* tokens of a module for the macros and types it knows and steps over     *)
(* anything else.  What it collects, the definitions in load order and the *)
(* named types, is what MibInstall is given; resolve_syntax follows the    *)
(* types to a base.                                                        *)
(*                                                                         *)
(* A step handles a directory, a file, or one construct of a file.  A      *)
(* token is a word, a number, a string or a mark.  File names are numbers, *)
(* in the order of the names.                                              *)
(***************************************************************************)
EXTENDS Integers, Sequences, SequencesExt, FiniteSets, FiniteSetsExt

CONSTANTS
  Systems,    \* [says, disk]: what the user says, [custom, mibdirs, home], each a path or
              \* NoPath; what is on disk, from directories to their entries or to Unreadable
  NoPath,
  Standard,   \* the usual net-snmp locations
  Unreadable,
  TcLimit,    \* tokens after which the search for a convention's SYNTAX is given up: 400
  TypeDepth,  \* named types followed to a base: 16
  U32         \* 2^32

VARIABLES
  disk,    \* the disk
  path,    \* the search path
  files,   \* the files found on it
  stage,   \* "listing", "opening", "parsing", "done"
  n,       \* the directory, then the file, at hand
  i,       \* the next token of the file at hand
  defs,    \* definitions, in load order
  types    \* named types

vars == <<disk, path, files, stage, n, i, defs, types>>

\* load_mibs and default_mib_dirs
SearchPath(s) == IF s.custom # NoPath THEN s.custom
                 ELSE IF s.mibdirs # NoPath THEN s.mibdirs
                 ELSE IF s.home # NoPath THEN s.home \o Standard ELSE Standard

Init ==
  /\ \E s \in Systems : disk = s.disk /\ path = SearchPath(s.says)
  /\ files = <<>> /\ stage = "listing" /\ n = 1 /\ i = 1 /\ defs = <<>> /\ types = <<>>

-----------------------------------------------------------------------------
(* load_dirs                                                               *)

\* A slip: as the file system lists them.
AsListed(es) == es

InNameOrder(es) == SortSeq(es, LAMBDA a, b : a.name < b.name)

\* is_file and is_ignored_file: every other file is a module, whatever its name.
Modules(entries) == {e \in entries : e.regular /\ ~e.ignored}

\* read_dir's order is the file system's; a directory that cannot be read is left out.
ListDir ==
  /\ stage = "listing" /\ n <= Len(path)
  /\ IF disk[path[n]] = Unreadable THEN files' = files
     ELSE \E here \in SetToSeqs(Modules(disk[path[n]])) : files' = files \o InNameOrder(here)
  /\ n' = n + 1
  /\ UNCHANGED <<disk, path, stage, i, defs, types>>

Listed ==
  /\ stage = "listing" /\ n > Len(path)
  /\ stage' = "opening" /\ n' = 1
  /\ UNCHANGED <<disk, path, files, i, defs, types>>

\* So is a file that cannot be read.
OpenFile ==
  /\ stage = "opening" /\ n <= Len(files)
  /\ IF files[n].readable THEN stage' = "parsing" /\ n' = n ELSE stage' = stage /\ n' = n + 1
  /\ i' = 1
  /\ UNCHANGED <<disk, path, files, defs, types>>

Finish ==
  /\ stage = "opening" /\ n > Len(files)
  /\ stage' = "done"
  /\ UNCHANGED <<disk, path, files, n, i, defs, types>>

-----------------------------------------------------------------------------
(* Tokens of the file at hand.                                             *)

toks == files[n].toks

Kind(j)        == IF j <= Len(toks) THEN toks[j].kind ELSE "end"
IsWord(j, w)   == Kind(j) = "word" /\ toks[j].word = w
IsWords(j, ws) == \A k \in DOMAIN ws : IsWord(j + k - 1, ws[k])
End            == Len(toks) + 1
FirstOf(S)     == IF S = {} THEN End ELSE Min(S)
FirstKind(k, j) == FirstOf({m \in j..Len(toks) : toks[m].kind = k})

\* Where the bracket at j is closed, End if it never is: skip_parens, skip_braces.
Closing(open, close, j) ==
  LET from[m \in 1..End, depth \in 0..End] ==
        CASE m = End         -> End
          [] Kind(m) = open  -> from[m + 1, depth + 1]
          [] Kind(m) = close -> IF depth = 1 THEN m ELSE from[m + 1, depth - 1]
          [] OTHER           -> from[m + 1, depth]
  IN from[j, 0]

\* name ( number )
Numbered(j) == Kind(j) = "word" /\ Kind(j + 1) = "(" /\ Kind(j + 2) = "num"

-----------------------------------------------------------------------------
(* parse_type                                                              *)

NoType == [named |-> "", base |-> "", enums |-> <<>>, ranges |-> <<>>, hint |-> ""]

Builtin ==
  [INTEGER |-> "Integer", BITS |-> "BitString", NULL |-> "Null", Integer32 |-> "Integer32",
   Unsigned32 |-> "Unsigned32", Gauge |-> "Gauge", Gauge32 |-> "Gauge", Counter |-> "Counter",
   Counter32 |-> "Counter", Counter64 |-> "Counter64", TimeTicks |-> "TimeTicks", IpAddress |-> "IpAddr",
   NetworkAddress |-> "NetAddr", Opaque |-> "Opaque", UInteger32 |-> "Uinteger"]

\* parse_enums, behind the brace; `next` is the token behind the closing one.
Enums(j) ==
  LET from[m \in 1..End + 4] ==
        IF Kind(m) \in {"}", "end"} THEN [list |-> <<>>, next |-> m + 1]
        ELSE IF Numbered(m)
        THEN [from[m + 4] EXCEPT !.list = <<<<toks[m].word, toks[m + 2].num>>>> \o @]
        ELSE from[m + 1]
  IN from[j]

\* parse_constraint: ends at the closing parenthesis, which its caller steps over.
Ranges(j) ==
  LET end == Closing("(", ")", j)
      from[m \in 1..End + 3] ==
        IF m >= end THEN <<>>
        ELSE IF Kind(m) # "num" THEN from[m + 1]
        ELSE IF Kind(m + 1) # ".." THEN <<<<toks[m].num, toks[m].num>>>> \o from[m + 1]
        ELSE (IF Kind(m + 2) = "num" THEN <<<<toks[m].num, toks[m + 2].num>>>> ELSE <<>>) \o from[m + 3]
  IN [list |-> from[j + 1], next |-> end]

\* An enumeration or a constraint behind the type's name.
Constrained(t, j) ==
  CASE Kind(j) = "{" -> LET e == Enums(j + 1) IN [syntax |-> [t EXCEPT !.enums = e.list], next |-> e.next]
    [] Kind(j) = "(" -> LET r == Ranges(j) IN [syntax |-> [t EXCEPT !.ranges = r.list], next |-> r.next]
    [] OTHER         -> [syntax |-> t, next |-> j]

\* SEQUENCE is no type of its own: tables and rows have none.
ParseType(j) ==
  CASE Kind(j) # "word" -> [syntax |-> NoType, next |-> j + 1]
    [] IsWord(j, "SEQUENCE") ->
         [syntax |-> NoType,
          next   |-> CASE IsWord(j + 1, "OF") -> j + 3
                       [] Kind(j + 1) = "{"   -> IF Closing("{", "}", j + 1) = End THEN End
                                                 ELSE Closing("{", "}", j + 1) + 1
                       [] OTHER               -> j + 1]
    [] IsWords(j, <<"OCTET", "STRING">>)      -> Constrained([NoType EXCEPT !.base = "OctetStr"], j + 2)
    [] IsWords(j, <<"OBJECT", "IDENTIFIER">>) -> Constrained([NoType EXCEPT !.base = "ObjId"], j + 2)
    [] OTHER ->
         LET w == toks[j].word
         IN Constrained(IF w \in DOMAIN Builtin THEN [NoType EXCEPT !.base = Builtin[w]]
                        ELSE [NoType EXCEPT !.named = w], j + 1)

-----------------------------------------------------------------------------
(* parse_oid_value and the clauses of an object                            *)

Num(v)         == [kind |-> "num", name |-> "", num |-> v % U32]
NamedNum(l, v) == [kind |-> "named", name |-> l, num |-> v % U32]
Name(l)        == [kind |-> "name", name |-> l, num |-> 0]

\* The value whose brace is at j.
OidValue(j) ==
  LET from[m \in 1..End + 4] ==
        IF Kind(m) \in {"}", "end"} THEN [elems |-> <<>>, next |-> m + 1]
        ELSE IF Numbered(m) THEN [from[m + 4] EXCEPT !.elems = <<NamedNum(toks[m].word, toks[m + 2].num)>> \o @]
        ELSE CASE Kind(m) = "word" -> [from[m + 1] EXCEPT !.elems = <<Name(toks[m].word)>> \o @]
               [] Kind(m) = "num"  -> [from[m + 1] EXCEPT !.elems = <<Num(toks[m].num)>> \o @]
               [] OTHER            -> from[m + 1]
  IN from[j + 1]

\* INDEX { a, IMPLIED b }, up to the end of the body.
IndexList(j, end) ==
  LET from[m \in 1..End + 1, implied \in BOOLEAN] ==
        IF m >= end \/ Kind(m) = "}" THEN [list |-> <<>>, next |-> m + 1]
        ELSE IF Kind(m) # "word" THEN from[m + 1, implied]
        ELSE IF IsWord(m, "IMPLIED") THEN from[m + 1, TRUE]
        ELSE [from[m + 1, FALSE] EXCEPT !.list = <<[label |-> toks[m].word, implied |-> implied]>> \o @]
  IN from[j, FALSE]

\* collect_object_clauses: the first SYNTAX, all that INDEX lists, the last AUGMENTS.
NoClauses == [hasSyntax |-> FALSE, syntax |-> NoType, indexes |-> <<>>, augments |-> ""]
Clauses(start, end) ==
  LET Closed(m) == IF FirstKind("}", m) < end THEN FirstKind("}", m) ELSE IF m < end THEN end ELSE m
      from[m \in 1..End + 5, seen \in BOOLEAN] ==
        IF m >= end THEN NoClauses
        ELSE CASE IsWord(m, "SYNTAX") /\ ~seen ->
                    LET t == ParseType(m + 1) IN [from[t.next, TRUE] EXCEPT !.hasSyntax = TRUE, !.syntax = t.syntax]
               [] IsWord(m, "INDEX") /\ Kind(m + 1) = "{" ->
                    LET x == IndexList(m + 2, end) IN [from[x.next, seen] EXCEPT !.indexes = x.list \o @]
               [] IsWord(m, "AUGMENTS") /\ Kind(m + 1) = "{" ->
                    [from[Closed(m + 2) + 1, seen] EXCEPT
                       !.augments = IF @ = "" /\ Kind(m + 2) = "word" THEN toks[m + 2].word ELSE @]
               [] OTHER -> from[m + 1, seen]
  IN from[start, FALSE]

-----------------------------------------------------------------------------
(* parse_module                                                            *)

OID_MACROS == {"OBJECT-TYPE", "MODULE-IDENTITY", "OBJECT-IDENTITY", "NOTIFICATION-TYPE", "OBJECT-GROUP",
               "NOTIFICATION-GROUP", "MODULE-COMPLIANCE", "AGENT-CAPABILITIES"}

AtList     == IsWord(i, "IMPORTS") \/ IsWord(i, "EXPORTS")
AtHeader   == ~AtList /\ IsWord(i + 1, "DEFINITIONS")
AtName     == ~AtList /\ ~AtHeader /\ Kind(i) = "word"
AtOid      == AtName /\ IsWords(i + 1, <<"OBJECT", "IDENTIFIER">>) /\ Kind(i + 3) = "::="
AtMacro    == AtName /\ Kind(i + 1) = "word" /\ toks[i + 1].word \in OID_MACROS
AtType     == AtName /\ Kind(i + 1) = "::="

Parsing    == stage = "parsing" /\ i <= Len(toks)
Go(j)      == i' = j /\ UNCHANGED <<disk, path, files, stage, n>>
Skip(j)    == Go(j) /\ UNCHANGED <<defs, types>>

Definition(name, elems, c) ==
  [name |-> name, elems |-> elems, hasSyntax |-> c.hasSyntax, syntax |-> c.syntax,
   indexes |-> c.indexes, augments |-> c.augments]
Define(d) == defs' = Append(defs, d) /\ UNCHANGED types

\* types.insert
SetType(w, t) == types' = [m \in DOMAIN types \cup {w} |-> IF m = w THEN t ELSE types[m]] /\ UNCHANGED defs

SkipImports == Parsing /\ AtList /\ Skip(FirstKind(";", i) + 1)
SkipHeader  == Parsing /\ AtHeader /\ Skip(FirstOf({m \in i..Len(toks) : IsWord(m, "BEGIN")}) + 1)

ObjectIdentifier ==
  /\ Parsing /\ AtOid /\ Kind(i + 4) = "{"
  /\ LET value == OidValue(i + 4)
     IN Define(Definition(toks[i].word, value.elems, NoClauses)) /\ Go(value.next)

\* A slip: nothing is stepped over.
ObjectIdentifierStay == Parsing /\ AtOid /\ Kind(i + 4) # "{" /\ Skip(i)

ObjectIdentifierOdd == Parsing /\ AtOid /\ Kind(i + 4) # "{" /\ Skip(i + 4)

\* scan_to_assign: the last token if there is no ::= any more.
AssignAt(j) == IF FirstKind("::=", j) = End THEN Len(toks) ELSE FirstKind("::=", j)

Macro ==
  /\ Parsing /\ ~AtOid /\ AtMacro /\ Kind(AssignAt(i + 2) + 1) = "{"
  /\ LET at == AssignAt(i + 2)
         value == OidValue(at + 1)
         clauses == IF IsWord(i + 1, "OBJECT-TYPE") THEN Clauses(i + 2, at) ELSE NoClauses
     IN Define(Definition(toks[i].word, value.elems, clauses)) /\ Go(value.next)

\* A slip: the file is given up.
MacroGivesUp == Parsing /\ AtMacro /\ Kind(AssignAt(i + 2) + 1) # "{" /\ Skip(End)

\* SMIv1's traps end in a number.
MacroOdd == Parsing /\ AtMacro /\ Kind(AssignAt(i + 2) + 1) # "{" /\ Skip(AssignAt(i + 2) + 1)

\* The body of a macro's own definition is read like any other text.
MacroBody == Parsing /\ AtType /\ IsWord(i + 2, "BEGIN") /\ Skip(i + 3)

\* parse_textual_convention: SYNTAX, the last of its clauses, ends it; hint is the last
\* DISPLAY-HINT's.
ConventionAt(start) ==
  LET Hint(at) == IF at = 0 THEN "" ELSE toks[at].word
      from[m \in 1..End + 2, at \in 0..End] ==
        IF m > Len(toks) THEN [syntax |-> [NoType EXCEPT !.hint = Hint(at)], next |-> m]
        ELSE IF IsWord(m, "SYNTAX")
        THEN [ParseType(m + 1) EXCEPT !.syntax.hint = Hint(at)]
        ELSE LET next == IF IsWord(m, "DISPLAY-HINT") THEN m + 2 ELSE m + 1
                 h == IF IsWord(m, "DISPLAY-HINT") /\ Kind(m + 1) = "str" THEN m + 1 ELSE at
             IN IF next > start + TcLimit THEN [syntax |-> [NoType EXCEPT !.hint = Hint(h)], next |-> next]
                ELSE from[next, h]
  IN from[start, 0]

AtConvention == AtType /\ IsWord(i + 2, "TEXTUAL-CONVENTION")
Convention ==
  /\ Parsing /\ AtConvention
  /\ LET c == ConventionAt(i + 3) IN SetType(toks[i].word, c.syntax) /\ Go(c.next)

TypeAlias ==
  /\ Parsing /\ AtType /\ ~AtConvention /\ ~IsWord(i + 2, "BEGIN")
  /\ LET t == ParseType(i + 2)
     IN /\ IF t.syntax.base # "" \/ t.syntax.named # "" THEN SetType(toks[i].word, t.syntax)
           ELSE UNCHANGED <<defs, types>>
        /\ Go(t.next)

SkipToken == Parsing /\ ~AtList /\ ~AtHeader /\ ~AtOid /\ ~AtMacro /\ ~AtType /\ Skip(i + 1)

CloseFile ==
  /\ stage = "parsing" /\ i > Len(toks)
  /\ n' = n + 1 /\ stage' = "opening"
  /\ UNCHANGED <<disk, path, files, i, defs, types>>

Parse == \/ SkipImports \/ SkipHeader \/ ObjectIdentifier \/ ObjectIdentifierOdd \/ Macro \/ MacroOdd
         \/ MacroBody \/ Convention \/ TypeAlias \/ SkipToken
Next  == ListDir \/ Listed \/ OpenFile \/ Finish \/ Parse \/ CloseFile
Spec     == Init /\ [][Next]_vars
FairSpec == Spec /\ WF_vars(Next)  \* one thread

-----------------------------------------------------------------------------
(* resolve_syntax                                                          *)

\* A slip: the convention's constraints replace the object's own.
InnerFirst(outer, inner) == IF inner # <<>> THEN inner ELSE outer

OuterFirst(outer, inner) == IF outer # <<>> THEN outer ELSE inner

\* A name that leads nowhere, and one left at the depth, give no base.
Resolve(sr) ==
  LET Named(t) == t.named \in DOMAIN types
      at[k \in 0..TypeDepth] == IF k = 0 THEN sr ELSE IF Named(at[k - 1]) THEN types[at[k - 1].named] ELSE NoType
      out[k \in 0..TypeDepth] ==
        IF k = TypeDepth \/ ~Named(at[k]) THEN at[k]
        ELSE [named  |-> "",
              base   |-> out[k + 1].base,
              enums  |-> OuterFirst(at[k].enums, out[k + 1].enums),
              ranges |-> OuterFirst(at[k].ranges, out[k + 1].ranges),
              hint   |-> IF at[k].hint # "" THEN at[k].hint ELSE out[k + 1].hint]
  IN [out[0] EXCEPT !.named = ""]

-----------------------------------------------------------------------------
(* What is written: a file's clauses, each with the definitions and types  *)
(* that it makes; `damaged` is the one that a token is missing from, or 0. *)

Elem == [kind : {"num", "named", "name"}, name : STRING, num : 0..U32 - 1]

TypeOK ==
  /\ stage \in {"listing", "opening", "parsing", "done"} /\ n \in Nat \ {0} /\ i \in Nat \ {0}
  /\ \A d \in Range(defs) :
       /\ \A e \in Range(d.elems) : e \in Elem /\ (e.kind # "num" => e.name # "")
       /\ d.hasSyntax \/ d.syntax = NoType
       /\ d.name # "" /\ \A x \in Range(d.indexes) : x.label # ""

\* In the order of the path, and within a directory of the names.
Found == FlattenSeq([k \in DOMAIN path |->
           IF disk[path[k]] = Unreadable THEN <<>>
           ELSE SetToSortSeq(Modules(disk[path[k]]), LAMBDA a, b : a.name < b.name)])
Written == FlattenSeq([k \in DOMAIN Found |-> IF Found[k].readable THEN Found[k].clauses ELSE <<>>])

\* Damaged modules aside, whatever order the file system lists directories in, the
\* definitions are those written, in the order of the path and the names, and a type
\* is the last one of its name (README.md:76-78, parse.rs).
ReadsWhatIsWritten ==
  stage = "done" /\ (\A k \in DOMAIN Found : Found[k].damaged = 0) =>
    LET said == FlattenSeq([k \in DOMAIN Written |-> Written[k].types])
    IN /\ defs = FlattenSeq([k \in DOMAIN Written |-> Written[k].defs])
       /\ DOMAIN types = {t[1] : t \in Range(said)}
       /\ \A k \in DOMAIN said : (\A m \in DOMAIN said : m > k => said[m][1] # said[k][1])
                                  => types[said[k][1]] = said[k][2]

\* "The rule is to never fail a whole file over a construct we do not understand"
\* (lexer.rs:4-5): a token missing from the definition of an object costs that
\* definition and the next one, no others, and nothing in other files.
Spared(file) ==
  LET Lost(k) == file.damaged # 0 /\ k >= file.damaged
                   /\ \A m \in file.damaged + 1..k - 1 : file.clauses[m].defs = <<>>
  IN FlattenSeq([k \in DOMAIN file.clauses |-> IF Lost(k) THEN <<>> ELSE file.clauses[k].defs])
DamageStaysLocal ==
  stage = "done" =>
    LET kept == FlattenSeq([k \in DOMAIN Found |-> IF Found[k].readable THEN Spared(Found[k]) ELSE <<>>])
    IN SelectSeq(defs, LAMBDA d : d \in Range(kept)) = kept

\* A type is followed through the names to the end of the chain, its constraints are the
\* outermost, and a chain too long for the program, or one that bites its own tail, has
\* no base.
Reached(t, k) ==
  LET at[m \in 0..k] == IF m = 0 THEN t
                        ELSE IF at[m - 1] # "" /\ at[m - 1] \in DOMAIN types THEN types[at[m - 1]].named ELSE ""
  IN at[k]
TypesFollowed ==
  stage = "done" =>
    \A t \in DOMAIN types :
      LET r == Resolve([NoType EXCEPT !.named = t])
          last == {k \in 0..TypeDepth : Reached(t, k) # "" /\ Reached(t, k + 1) = ""}
          own  == {k \in 0..TypeDepth - 1 : Reached(t, k) \in DOMAIN types /\ types[Reached(t, k)].ranges # <<>>}
      IN /\ r.base = IF \E k \in last : k < TypeDepth /\ Reached(t, k) \in DOMAIN types
                     THEN types[Reached(t, Min(last))].base ELSE ""
         /\ r.ranges = IF own = {} THEN <<>> ELSE types[Reached(t, Min(own))].ranges

\* Reading ends, on any text.
Terminates == <>(stage = "done")

\* "A malformed TC should not swallow the rest of the file" (parse.rs:242).
ConventionStops == [][Convention => i' <= i + 3 + TcLimit + 1 \/ i' <= Len(toks)]_vars
=============================================================================
