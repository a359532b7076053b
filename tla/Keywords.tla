------------------------------ MODULE Keywords ------------------------------
(***************************************************************************)
(* How settings find their row of the symbol table: find_by_name and       *)
(* find_by_code_and_pid of src/symbol.rs, the token a keyword becomes      *)
(* (keyword_or_identifier of src/lexer.rs), the statement the parser then  *)
(* expects, and dispatch of src/decode.rs.  One setting is written with    *)
(* the keyword of its row inside the blocks it belongs in, listed, and     *)
(* read again: the keyword is looked up by its name alone, wherever it     *)
(* stands.                                                                 *)
(***************************************************************************)
EXTENDS SequencesExt, Integers

CONSTANT Table  \* rows: [id, parent_id, ident, code, enc, dec, low, high]

\* The block around everything; its number is no row's.
Main == 0

ASSUME KeywordsAssumption ==
  /\ Table \in Seq([id : Nat \ {Main}, parent_id : Nat, ident : STRING, code : 0..255,
                    enc : STRING, dec : STRING, low : Int, high : Int])
  /\ IsInjective([i \in DOMAIN Table |-> Table[i].id])

Rows == Range(Table)

VARIABLES
  block,   \* the number of the block the setting stands in
  path,    \* the keywords' codes on the way there, as the encoder finds them
  listed,  \* the same codes, as they are after the file was listed and read again
  setting  \* <<>>, or the row whose keyword the config file has

vars == <<block, path, listed, setting>>

-----------------------------------------------------------------------------
(* Lookups: the first row that fits.                                       *)

\* Slips: the last row that fits; a block's code wherever it stands.
LastRow(fits(_))             == LET i == SelectLastInSeq(Table, fits) IN IF i = 0 THEN {} ELSE {Table[i]}
LastByName(name)             == LastRow(LAMBDA r : r.ident = name)
LastByCode(code, pid)        == LastRow(LAMBDA r : r.code = code /\ r.parent_id = pid)
FirstRow(fits(_)) == LET i == SelectInSeq(Table, fits) IN IF i = 0 THEN {} ELSE {Table[i]}

ByCodeAlone(code, pid)          == FirstRow(LAMBDA r : r.code = code)
find_by_name(name)              == FirstRow(LAMBDA r : r.ident = name)
find_by_code_and_pid(code, pid) == FirstRow(LAMBDA r : r.code = code /\ r.parent_id = pid)

-----------------------------------------------------------------------------
(* Statements *)

CvcFiles == {"ManufacturerCVC", "CoSignerCVC", "ManufacturerCVCChainFile", "CoSignerCVCChainFile"}

\* What has to follow the keyword.
Statement(name) ==
  CASE name = "SnmpWriteControl" -> "object and control"
    [] name = "SnmpMibObject"    -> "object and value"
    [] name = "DigitMap"         -> "file"
    [] name \in CvcFiles         -> "file"
    [] name = "GenericTLV"       -> "code and value"
    [] OTHER                     -> "value or block"

\* What the decoder puts behind the keyword; comments are not read.
Listing(dec) ==
  CASE dec = "SnmpWd"     -> "object and control"
    [] dec = "SnmpObject" -> "object and value"
    [] dec \in {"Md5", "Special"} -> "comment"
    [] OTHER              -> "value or block"

\* The row whose code the encoder writes for a keyword.
Written(name) == find_by_name(name)

\* The row the decoder prints for a code, the one the printed keyword is read as.
Printed(code, pid) == find_by_code_and_pid(code, pid)
ReadBack(code, pid) == UNION {find_by_name(r.ident) : r \in Printed(code, pid)}

-----------------------------------------------------------------------------
Init == block = Main /\ path = <<>> /\ listed = <<>> /\ setting = <<>>

\* Below block, the file has the code of the keyword; below the block that the
\* decoder finds for the code, the listing goes on.
Enter(r) ==
  /\ setting = <<>>
  /\ r.parent_id = block /\ r.dec = "Aggregate"
  /\ \E w \in Written(r.ident) : \E p \in Printed(w.code, block) : \E b \in ReadBack(w.code, block) :
       /\ path' = Append(path, w.code)
       /\ listed' = Append(listed, b.code)
       /\ block' = p.id
  /\ UNCHANGED setting

Set(r) ==
  /\ setting = <<>>
  /\ r.parent_id = block /\ r.dec # "Aggregate"
  /\ setting' = <<r>>
  /\ UNCHANGED <<block, path, listed>>

Next == \E r \in Rows : Enter(r) \/ Set(r)

Spec == Init /\ [][Next]_vars

-----------------------------------------------------------------------------
TypeOK ==
  /\ block \in {Main} \cup {r.id : r \in Rows}
  /\ path \in Seq(0..255) /\ listed \in Seq(0..255)
  /\ setting \in {<<>>} \cup {<<r>> : r \in Rows}

\* The rows a setting meets: written as w, listed as p, read again as b.
Fates == {[w |-> w, p |-> p, b |-> b] :
            w \in Written(setting[1].ident),
            p \in Printed(setting[1].code, block), b \in ReadBack(setting[1].code, block)}

\* A keyword that stands in its block is written with the code of its own row,
\* and listing the file and reading the listing gives that code, below the same
\* codes, by the encoding that wrote it, however many rows share the keyword and
\* however many keywords the code.
KeepsSetting ==
  /\ listed = path
  /\ setting # <<>> =>
       \E f \in Fates : /\ f.w.code = setting[1].code /\ f.b.code = setting[1].code
                        /\ f.w.enc = setting[1].enc /\ f.b.enc = f.p.enc /\ f.p.dec = setting[1].dec
                        /\ setting[1].enc # "Nothing" => f.b.enc = setting[1].enc

\* What the decoder prints behind a keyword is what the parser wants behind it:
\* a code that a file's contents are written under is listed with the keyword
\* that takes the contents.
ReadableListing ==
  setting # <<>> => \A f \in Fates : Listing(f.p.dec) \in {"comment", Statement(f.p.ident)}

\* Limits of a row: none when both are zero, nor when the upper one is 2^32 - 1
\* (here -1, see SymTable) and the lower one zero.
Top == -1
Unlimited(r) == r.low = 0 /\ r.high \in {0, Top}
Admits(a, r) == \* what r admits, a admits
  \/ Unlimited(a)
  \/ ~Unlimited(r) /\ a.low <= r.low /\ (a.high = Top \/ (r.high # Top /\ r.high <= a.high))

\* Keywords whose rows differ in their limits: only those of the first row are
\* ever tested, which are narrower for these, wider for the last one.
Narrowed == {"EtherType", "VlanID", "PcIPv6TrafficClassRangeAndMask", "RulePriority"}
Widened  == {"SNMPv3AccessViewMask"}

\* A value that a block's own row admits can be set in the block, and one that
\* is set is one that the row admits, except for the keywords above.
KeepsLimits ==
  setting # <<>> =>
    LET own == setting[1]
    IN \A w \in Written(own.ident) :
         /\ own.ident \notin Narrowed => Admits(w, own)
         /\ own.ident \notin Widened => Admits(own, w)
=============================================================================
