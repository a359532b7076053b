-------------------------------- MODULE Names --------------------------------
(***************************************************************************)
(* What becomes of an object identifier between the decoder and the        *)
(* encoder: decode_vbind and decode_snmp_oid print it (Render), the        *)
(* decoder itself reads an object's name back to see whether it can be     *)
(* read and prints the full path if it cannot, and the encoder reads what  *)
(* was printed (OidStr).                                                   *)
(***************************************************************************)
EXTENDS OidStr

VARIABLES
  use,    \* "object", printed by name or, with -o, "numeric object"; "value"
  phase,  \* "print", "check", "print full", "read"
  fellBack  \* the full path was printed

nvars == <<tree, oid, rvars, ovars, use, phase, fellBack>>

Uses == {"object", "numeric object", "value"}

Init ==
  /\ \E p \in Prints : tree = p.mib /\ oid = p.oid
  /\ use \in Uses /\ phase = "print" /\ fellBack = FALSE
  /\ format = (IF use = "object" THEN "Suffix" ELSE "Numeric")
  /\ mode = "walk" /\ rest = oid /\ at = 0 /\ dices = <<>> /\ todo = <<>> /\ outer = <<>>
  /\ text = <<Dot>> /\ known = 0 /\ marks = {}
  /\ rstage = "idle" /\ attempts = <<>> /\ cp = <<>> /\ some = FALSE /\ node = 0
  /\ indexes = <<>> /\ left = 0 /\ got = <<>>

Printing ==
  /\ phase \in {"print", "print full"} /\ mode # "rendered"
  /\ PrintStep
  /\ UNCHANGED <<tree, oid, ovars, use, phase, fellBack>>

\* An object's name is read back before it is written out.
Check ==
  /\ phase = "print" /\ mode = "rendered" /\ use # "value"
  /\ phase' = "check" /\ StartReading(NameFirst)
  /\ UNCHANGED <<tree, oid, rvars, use, fellBack>>

ReadBack ==
  /\ phase \in {"check", "read"}
  /\ ReadStep
  /\ UNCHANGED <<tree, oid, rvars, use, phase, fellBack>>

\* What cannot be read back is printed as a full path instead.
FallBack ==
  /\ phase = "check" /\ rstage = "refused"
  /\ phase' = "print full" /\ fellBack' = TRUE
  /\ StartPrinting("Full")
  /\ UNCHANGED <<tree, oid, ovars, use>>

\* The encoder's turn: it scans and reads the text printed last, and stops at
\* one that is not a single token.
Refuse ==
  /\ rstage' = "refused" /\ attempts' = <<>>
  /\ cp' = <<>> /\ some' = FALSE /\ node' = 0 /\ indexes' = <<>> /\ left' = 0 /\ got' = <<>>

Encode ==
  /\ \/ phase = "check" /\ rstage = "resolved"
     \/ phase = "print full" /\ mode = "rendered"
     \/ phase = "print" /\ mode = "rendered" /\ use = "value"
  /\ phase' = "read"
  /\ IF OneToken(text) THEN StartReading(IF use = "value" THEN PathFirst ELSE NameFirst)
     ELSE Refuse
  /\ UNCHANGED <<tree, oid, rvars, use, fellBack>>

Next == Printing \/ Check \/ ReadBack \/ FallBack \/ Encode

Spec == Init /\ [][Next]_nvars

-----------------------------------------------------------------------------
TypeOK ==
  /\ use \in Uses /\ phase \in {"print", "check", "print full", "read"}
  /\ fellBack \in BOOLEAN /\ tree \in DOMAIN Installed /\ oid \in Seq(Nat)
  /\ format \in {"Numeric", "Full", "Suffix"}
  /\ mode \in {"walk", "index", "numbers", "return", "rendered"}
  /\ rest \in Seq(Nat) /\ at \in 0..Len(mib.nodes)
  /\ dices \in Seq(Index) /\ todo \in Seq(Index)
  /\ outer \in Seq([rest : Seq(Nat), todo : Seq(Index)])
  /\ text \in Text /\ known \in Nat
  /\ rstage \in {"idle", "attempt", "descend", "index", "bytes", "tail", "resolved", "refused"}
  /\ attempts \in Seq({"name", "path"}) /\ cp \in Text /\ some \in BOOLEAN
  /\ node \in 0..Len(mib.nodes) /\ indexes \in Seq(Index)
  /\ left \in Nat /\ got \in Seq(Nat)

\* The nodes an identifier passes.
Passed == {i \in DOMAIN mib.nodes : IsPrefix(OidOf(mib, i), oid)}
Deepest == IF Passed = {} THEN 0 ELSE CHOOSE i \in Passed : \A j \in Passed : j <= i
AllKnown == OidOf(mib, Deepest) = oid

\* The name a reader starts from leads to the node it was printed for: the
\* last node passed or, when the whole identifier is in the tree, the last one
\* that has a name.
OwnName(i) == mib.nodes[i].label # NoLabel /\ mib.byLabel[mib.nodes[i].label] = i
NamedLast ==
  IF ~AllKnown THEN Deepest = 0 \/ OwnName(Deepest)
  ELSE \A i \in Passed : (\A j \in Passed : j > i => Anonymous(mib, j))
                            => Anonymous(mib, i) \/ OwnName(i)

PrintedRight == rstage = "resolved" => got = oid

\* "... so that a config file produced by decoding re-encodes to the same
\* bytes" (oidstr.rs:3-4): the encoder reads the identifier the decoder had.
PrintedResolves == phase = "read" => rstage # "refused" /\ PrintedRight

\* A name read back is never another object's: where the name is the node's own
\* and no character was replaced, the encoder reads the same identifier or
\* reports that it cannot, whatever the indexes are.
NeverMisread ==
  phase = "read" /\ rstage = "resolved" /\ "substituted" \notin marks
    /\ (use = "object" => NamedLast) => PrintedRight

\* No range of a row's indexes and no byte limit stands against the identifier,
\* and no string of fixed length is IMPLIED, which is for those of variable one.
WithinLimits ==
  /\ \A i \in Passed : \A x \in Range(IndexesOf(mib, i)) :
       LET n == mib.byLabel[x.label]
       IN n # 0 => \/ mib.nodes[n].syntax.ranges = <<>>
                   \/ IsFixed(mib.nodes[n].syntax) /\ ~x.implied
  /\ \A k \in DOMAIN oid : oid[k] <= 255

\* A suffix that is a name and no more, or a name and an empty string.
BareName == use = "object" /\ (AllKnown \/ (Len(text) = 4 /\ text[3] = DoubleQ))

\* Within the limits, and where no name of a value had to be printed and no
\* string in single quotes ahead of other strings or arcs, every identifier is
\* scanned and read back as it was, by name and by number.
LegibleResolves ==
  phase = "read" /\ oid # <<>> /\ marks = {} /\ WithinLimits
    /\ (use = "object" => NamedLast) /\ ~BareName
    => PrintedResolves
=============================================================================
