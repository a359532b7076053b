------------------------------- MODULE Encode -------------------------------
(***************************************************************************)
(* encode_one_file of src/main.rs: a parsed settings tree is flattened to  *)
(* bytes, sealed with the CM MIC, the CMTS MIC and the end-of-data marker  *)
(* when it is a cable modem file, and optionally extended with a dial plan *)
(* and a PacketCable configuration hash.                                   *)
(*                                                                         *)
(* The recursion of `flatten` is an explicit stack of suspended calls, one *)
(* step per setting; the walk of `add_cmts_mic` is one step per iteration. *)
(* The digest functions are uninterpreted, and so is the decoder, which    *)
(* lists the selection and the finished file before anything is written.   *)
(***************************************************************************)
EXTENDS Wire

CONSTANTS
  Tlvs,           \* the settings that may occur in a tree
  Runs,           \* what a run may be given: [tree, opts, dialplanFile]
  NoFile,         \* dialplan.txt is missing
  Md5Byte(_, _), HmacByte(_, _), Sha1Byte(_, _),  \* (message, index) -> byte
  ListingStops(_) \* does the decoder end the program when it lists these bytes

ASSUME TlvsAssumption ==
  \A t \in Tlvs : /\ t.code \in Byte
                  /\ t.block \in BOOLEAN
                  /\ t.value \in Seq(Byte)
                  /\ t.children \in Seq(Tlvs)

Options == [docsis : BOOLEAN, dialplan : BOOLEAN, hash : 0..2]

ASSUME RunsAssumption ==
  \A r \in Runs : /\ r.tree \in Seq(Tlvs) /\ r.opts \in Options
                  /\ r.dialplanFile = NoFile \/ r.dialplanFile \in Seq(Byte)

VARIABLES
  stage,         \* where encode_one_file stands
  opts,          \* the command line's options
  dialplanFile,  \* contents of dialplan.txt
  tree,          \* the parsed file
  docsis,        \* encode_docsis, after the MtaConfigDelimiter test
  todo,          \* settings the current call of flatten has still to write
  out,           \* that call's output; the buffer once flatten has returned
  stack,         \* suspended calls of flatten, innermost first
  warnings,      \* settings dropped with a warning
  spans,         \* ghost: where in `out` each setting written lies
  want,          \* index into CMTS_MIC_TLVS
  pos,           \* read position of the CMTS MIC walk, 1-based
  selected       \* bytes gathered for the CMTS MIC

input    == <<opts, dialplanFile, tree>>
flat     == <<todo, stack, warnings, spans>>
walk     == <<want, pos, selected>>
vars     == <<stage, input, docsis, flat, out, walk>>

-----------------------------------------------------------------------------
\* Digests are opaque: any bytes, a function of the message alone.
AsByte(x) == IF x \in Byte THEN x ELSE 0
Md5(m)    == [i \in 1..16 |-> AsByte(Md5Byte(m, i))]
Hmac(m)   == [i \in 1..16 |-> AsByte(HmacByte(m, i))]
Sha1(m)   == [i \in 1..20 |-> AsByte(Sha1Byte(m, i))]

Init ==
  /\ stage = "parsed"
  /\ \E r \in Runs :
       tree = r.tree /\ opts = r.opts /\ dialplanFile = r.dialplanFile
  /\ docsis = opts.docsis
  /\ todo = <<>> /\ out = <<>> /\ stack = <<>> /\ warnings = 0 /\ spans = <<>>
  /\ want = 1 /\ pos = 1 /\ selected = <<>>

\* An empty tree counts as a parse error.
RejectEmpty ==
  /\ stage = "parsed" /\ tree = <<>>
  /\ stage' = "failed"
  /\ UNCHANGED <<input, docsis, flat, out, walk>>

\* A leading MtaConfigDelimiter turns a cable modem run into an MTA one.
Begin ==
  /\ stage = "parsed" /\ tree # <<>>
  /\ stage' = "flatten"
  /\ docsis' = (opts.docsis /\ tree[1].code # Code_MtaDelimiter)
  /\ todo' = tree
  /\ UNCHANGED <<input, out, stack, warnings, spans, walk>>

-----------------------------------------------------------------------------
(* flatten *)

Flattening == stage = "flatten" /\ todo # <<>>

\* Slips in the size test, each of which some property below must notice.
FitsLoose(n)  == n <= 256
FitsBer(n)    == n <= 127

\* A value this long has a one-byte length.
Fits(n) == n <= 255

\* The bytes `enc` are written behind `before`, and that place is remembered.
Emit(before, old, enc, long) ==
  /\ out' = before \o enc
  /\ spans' = Append(old, [from |-> Len(before) + 1,
                           to   |-> Len(before) + 1 + Len(enc),
                           long |-> long])

WriteLeaf ==
  LET t == Head(todo) IN
  /\ Flattening /\ ~t.block /\ Fits(Len(t.value))
  /\ Emit(out, spans, <<t.code, Len(t.value)>> \o t.value, FALSE)
  /\ todo' = Tail(todo)
  /\ UNCHANGED <<stage, input, docsis, stack, warnings, walk>>

\* An oversized SnmpMibObject becomes TLV 64, which has a 16-bit length.
WriteLongMib ==
  LET t == Head(todo) IN
  /\ Flattening /\ ~t.block /\ ~Fits(Len(t.value))
  /\ t.code = Code_SnmpMibObject
  /\ Emit(out, spans, <<Code_LongForm>> \o BE16(Len(t.value)) \o t.value, TRUE)
  /\ todo' = Tail(todo)
  /\ UNCHANGED <<stage, input, docsis, stack, warnings, walk>>

DropLeaf ==
  LET t == Head(todo) IN
  /\ Flattening /\ ~t.block /\ ~Fits(Len(t.value))
  /\ t.code # Code_SnmpMibObject
  /\ warnings' = warnings + 1
  /\ todo' = Tail(todo)
  /\ UNCHANGED <<stage, input, docsis, out, stack, spans, walk>>

\* The recursive call: the caller is suspended and the block starts empty.
EnterBlock ==
  LET t == Head(todo) IN
  /\ Flattening /\ t.block
  /\ stack' = <<[code |-> t.code, todo |-> Tail(todo), out |-> out,
                 spans |-> spans]>> \o stack
  /\ todo' = t.children /\ out' = <<>> /\ spans' = <<>>
  /\ UNCHANGED <<stage, input, docsis, warnings, walk>>

Returning == stage = "flatten" /\ todo = <<>> /\ stack # <<>>

WriteBlock ==
  LET caller == Head(stack) IN
  /\ Returning /\ Fits(Len(out))
  /\ Emit(caller.out, caller.spans, <<caller.code, Len(out)>> \o out, FALSE)
  /\ todo' = caller.todo /\ stack' = Tail(stack)
  /\ UNCHANGED <<stage, input, docsis, warnings, walk>>

\* A slip: the block's settings go to its caller's buffer.
DropBlockSpill ==
  LET caller == Head(stack) IN
  /\ Returning /\ ~Fits(Len(out))
  /\ out' = caller.out \o out /\ spans' = caller.spans
  /\ warnings' = warnings + 1
  /\ todo' = caller.todo /\ stack' = Tail(stack)
  /\ UNCHANGED <<stage, input, docsis, walk>>

DropBlock ==
  LET caller == Head(stack) IN
  /\ Returning /\ ~Fits(Len(out))
  /\ out' = caller.out /\ spans' = caller.spans
  /\ warnings' = warnings + 1
  /\ todo' = caller.todo /\ stack' = Tail(stack)
  /\ UNCHANGED <<stage, input, docsis, walk>>

\* The stage that follows sealing: the optional extensions, then writing.
Extensions == IF opts.dialplan THEN "dialplan"
              ELSE IF opts.hash # 0 THEN "hash" ELSE "write"

EndFlatten ==
  /\ stage = "flatten" /\ todo = <<>> /\ stack = <<>>
  /\ stage' = IF docsis THEN "cm_mic" ELSE Extensions
  /\ UNCHANGED <<input, docsis, flat, out, walk>>

-----------------------------------------------------------------------------
(* add_cm_mic, add_cmts_mic, add_eod_and_pad; each leaves an empty buffer  *)
(* alone.                                                                  *)

AddCmMic ==
  /\ stage = "cm_mic"
  /\ stage' = "cmts_mic"
  /\ IF out = <<>> THEN UNCHANGED <<out, spans>>
     ELSE Emit(out, spans, <<Code_CmMic, 16>> \o Md5(out), FALSE)
  /\ UNCHANGED <<input, docsis, todo, stack, warnings, walk>>

\* Slips: every length taken for one byte; the header not stepped over.
WalkStepShort(b, p) == b[p + 1] + 2
WalkStepValue(b, p) == IF b[p] = Code_LongForm THEN 256 * b[p + 1] + b[p + 2]
                                               ELSE b[p + 1]

\* How far the walk moves past the setting at p.
WalkStep(b, p) == IF b[p] = Code_LongForm THEN 256 * b[p + 1] + b[p + 2] + 3
                                          ELSE b[p + 1] + 2

\* A long-form header cut off by the end of the buffer ends the pass.
HeaderCut == out[pos] = Code_LongForm /\ pos + 2 > Len(out)

Walking   == stage = "cmts_mic" /\ want <= Len(CMTS_MIC_TLVS)
InBuffer  == pos < Len(out)
Wanted    == out[pos] = CMTS_MIC_TLVS[want]

WalkSelect ==
  /\ Walking /\ InBuffer /\ ~HeaderCut /\ Wanted
  /\ LET end == IF pos + out[pos + 1] + 2 <= Len(out) + 1
                THEN pos + out[pos + 1] + 2 ELSE Len(out) + 1
     IN /\ selected' = selected \o SubSeq(out, pos, end - 1)
        /\ pos' = end
  /\ UNCHANGED <<stage, input, docsis, flat, out, want>>

WalkPass ==
  /\ Walking /\ InBuffer /\ ~HeaderCut /\ ~Wanted
  /\ pos' = pos + WalkStep(out, pos)
  /\ UNCHANGED <<stage, input, docsis, flat, out, want, selected>>

\* A slip: the next pass goes on where the last one ended.
WalkOn ==
  /\ Walking /\ (InBuffer => HeaderCut)
  /\ want' = want + 1
  /\ UNCHANGED <<stage, input, docsis, flat, out, pos, selected>>

\* The pass for one code is over; the next starts again at the beginning.
WalkRestart ==
  /\ Walking /\ (InBuffer => HeaderCut)
  /\ want' = want + 1 /\ pos' = 1
  /\ UNCHANGED <<stage, input, docsis, flat, out, selected>>

Selected == stage = "cmts_mic" /\ want > Len(CMTS_MIC_TLVS)

AddCmtsMic ==
  /\ Selected /\ (out = <<>> \/ ~ListingStops(selected))
  /\ stage' = "eod"
  /\ IF out = <<>> THEN UNCHANGED <<out, spans>>
     ELSE Emit(out, spans, <<Code_CmtsMic, 16>> \o Hmac(selected), FALSE)
  /\ UNCHANGED <<input, docsis, todo, stack, warnings, walk>>

PadAlways(n) == 4 - (n % 4)  \* a slip: four bytes for none

Pad(n) == (4 - (n % 4)) % 4

AddEodAndPad ==
  /\ stage = "eod"
  /\ stage' = Extensions
  /\ out' = IF out = <<>> THEN out
            ELSE out \o <<Code_EndOfData>> \o [i \in 1..Pad(Len(out) + 1) |-> 0]
  /\ UNCHANGED <<input, docsis, flat, walk>>

-----------------------------------------------------------------------------
(* add_dialplan and add_mta_hash: both cut three bytes, add their setting  *)
(* and put the terminator back.                                            *)

\* The lengths of the three nested headers, from the size of the body.
\* A slip: the middle form begins one byte early.
OuterLenEarly(n) == IF n > 127 THEN 2 + 2 + 20 + 2 + 2 + n
                    ELSE IF n >= 105 THEN 2 + 2 + 20 + 1 + 1 + n
                    ELSE 1 + 1 + 20 + 1 + 1 + n

OuterLen(n) == IF n > 127 THEN 2 + 2 + 20 + 2 + 2 + n
               ELSE IF n > 105 THEN 2 + 2 + 20 + 1 + 1 + n
               ELSE 1 + 1 + 20 + 1 + 1 + n

SeqHeader(n) == IF 22 + n < 128 THEN <<48, 22 + n>>
                ELSE <<48, 130>> \o BE16(IF n > 127 THEN 20 + 2 + 2 + n
                                                    ELSE 20 + 1 + 1 + n)

StrHeader(n) == IF n > 127 THEN <<4, 130>> \o BE16(n) ELSE <<4, n>>

DialplanTlv(body) ==
  LET n == Len(body) IN
  <<Code_LongForm>> \o BE16(OuterLen(n)) \o SeqHeader(n) \o DIALPLAN_ASN_OID
    \o StrHeader(n) \o body

AfterDialplan == IF opts.hash # 0 THEN "hash" ELSE "write"

NoDialplan ==
  /\ stage = "dialplan" /\ dialplanFile = NoFile
  /\ stage' = "exited"
  /\ UNCHANGED <<input, docsis, flat, out, walk>>

AddDialplan ==
  /\ stage = "dialplan" /\ dialplanFile # NoFile
  /\ stage' = AfterDialplan
  /\ out' = IF Len(out) < 3 THEN out
            ELSE Cut(out, 3) \o DialplanTlv(dialplanFile) \o MTA_END
  /\ UNCHANGED <<input, docsis, flat, walk>>

HashPrefix == IF opts.hash = 1 THEN NA_HASH_PREFIX ELSE EU_HASH_PREFIX

\* A slip: the digest taken after the cut.
HashedLate(b) == Cut(b, 3) \o HashPrefix \o Sha1(Cut(b, 3)) \o MTA_END

Hashed(b) == Cut(b, 3) \o HashPrefix \o Sha1(b) \o MTA_END

AddMtaHash ==
  /\ stage = "hash"
  /\ stage' = "write"
  /\ out' = IF Len(out) < 3 THEN out ELSE Hashed(out)
  /\ UNCHANGED <<input, docsis, flat, walk>>

Write ==
  /\ stage = "write" /\ ~ListingStops(out)
  /\ stage' = "written"
  /\ UNCHANGED <<input, docsis, flat, out, walk>>

\* The decoder exits or panics on a value of a length it does not expect, and
\* the encoder with it: no file is written.
StopListing ==
  /\ \/ Selected /\ out # <<>> /\ ListingStops(selected)
     \/ stage = "write" /\ ListingStops(out)
  /\ stage' = "exited"
  /\ UNCHANGED <<input, docsis, flat, out, walk>>

-----------------------------------------------------------------------------
Flatten == WriteLeaf \/ WriteLongMib \/ DropLeaf \/ EnterBlock
             \/ WriteBlock \/ DropBlock \/ EndFlatten

Walk == WalkSelect \/ WalkPass \/ WalkRestart

Next == RejectEmpty \/ Begin \/ Flatten \/ AddCmMic \/ Walk \/ AddCmtsMic
          \/ AddEodAndPad \/ NoDialplan \/ AddDialplan \/ AddMtaHash \/ Write \/ StopListing

Spec == Init /\ [][Next]_vars

\* One thread runs the program and nothing it calls here blocks.
FairSpec == Spec /\ WF_vars(Next)
-----------------------------------------------------------------------------
(* What the encoder keeps true.                                            *)

Span  == [from : Nat, to : Nat, long : BOOLEAN]
Frame == [code : Byte, todo : Seq(Tlvs), out : Seq(Byte), spans : Seq(Span)]

TypeOK ==
  /\ stage \in {"parsed", "flatten", "cm_mic", "cmts_mic", "eod", "dialplan",
                "hash", "write", "written", "failed", "exited"}
  /\ tree \in Seq(Tlvs) /\ opts \in Options /\ docsis \in BOOLEAN
  /\ dialplanFile = NoFile \/ dialplanFile \in Seq(Byte)
  /\ todo \in Seq(Tlvs) /\ out \in Seq(Byte)
  /\ stack \in Seq(Frame) /\ warnings \in Nat /\ spans \in Seq(Span)
  /\ want \in 1..(Len(CMTS_MIC_TLVS) + 1)
  /\ pos \in Nat \ {0} /\ selected \in Seq(Byte)

\* The settings of ss lie end to end and fill b exactly.
Tiles(ss, b) ==
  /\ \A i \in DOMAIN ss : /\ ss[i].from = IF i = 1 THEN 1 ELSE ss[i - 1].to
                          /\ ss[i].to >= ss[i].from + 2
  /\ Len(b) + 1 = IF ss = <<>> THEN 1 ELSE ss[Len(ss)].to

\* The header of setting s states the extent the setting really has.
Readable(s, b) == s.to = s.from + WalkStep(b, s.from)

\* A one-byte-length setting 64 is the form no reader of this buffer expects,
\* and a value of 64 KiB does not fit the two length bytes.
Plain(t) == t.code # Code_LongForm /\ Len(t.value) < 65536

PlainTree == \A i \in DOMAIN tree : Plain(tree[i])

\* While the CMTS MIC is gathered, the read position is always the start of a
\* setting or the end of the buffer, so that no byte of a value is ever taken
\* for a header: main.rs:443-460 steps exactly over what flatten wrote.
WalkOnSettings ==
  stage = "cmts_mic" /\ PlainTree =>
    pos = Len(out) + 1 \/ \E i \in DOMAIN spans : spans[i].from = pos

\* A block under construction that holds a long-form setting is already too
\* large to be written, so TLV 64 with two length bytes never occurs inside a
\* block, where decode_aggregate (decode.rs:158) would misread it.
NoLongFormInBlocks ==
  /\ stack # <<>> /\ (\E i \in DOMAIN spans : spans[i].long) => Len(out) > 255
  /\ \A j \in 1..(Len(stack) - 1) :
       (\E i \in DOMAIN stack[j].spans : stack[j].spans[i].long)
         => Len(stack[j].out) > 255

-----------------------------------------------------------------------------
(* The encoder makes a ConfigFile.  Of the calls of flatten the outermost  *)
(* one writes the file; the block on whose behalf the others run is taken  *)
(* when it returns.                                                        *)

Outermost == stack[Len(stack)]
FileSoFar == IF stack = <<>> THEN out ELSE Outermost.out
Taken     == IF stage = "parsed" THEN 0
             ELSE IF stack = <<>> THEN Len(tree) - Len(todo)
             ELSE Len(tree) - Len(Outermost.todo) - 1

Phase == CASE stage \in {"parsed", "flatten"}        -> "settings"
           [] stage \in {"dialplan", "hash", "write"} -> "extend"
           [] stage = "written"                       -> "published"
           [] stage \in {"failed", "exited"}          -> "stopped"
           [] OTHER                                   -> stage

Config == INSTANCE ConfigFile WITH taken <- Taken, file <- FileSoFar, phase <- Phase

\* Whatever goes on inside blocks, the file grows by whole settings of the
\* tree, in its order and each dealt with once; sealing only adds to it and
\* extending replaces only a terminator (encode_one_file, main.rs:343-359, with
\* the recursion of flatten, main.rs:391-423).
MakesConfigFile == Config!CFSpec

\* The encoder always finishes: it writes a file, or stops with an error.
Terminates == <>(stage \in {"written", "failed", "exited"})
=============================================================================
