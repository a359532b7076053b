--------------------------- MODULE EncodeContract ---------------------------
(***************************************************************************)
(* What a file produced by Encode is, stated against a definition that     *)
(* does not follow the program: the tree's own encoding.                   *)
(***************************************************************************)
EXTENDS Encode

-----------------------------------------------------------------------------
(* The whole file.                                                         *)

\* Settings end somewhere: what is inside of one is of a lower depth.
Graded(depth) == /\ depth \in [Tlvs -> Nat]
                 /\ \A t \in Tlvs : \A i \in DOMAIN t.children : depth[t.children[i]] < depth[t]

\* The encoding of setting t, empty when it is too large to be written.
Encoding[t \in Tlvs] ==
  LET body == IF t.block
              THEN FlattenSeq([i \in DOMAIN t.children |-> Encoding[t.children[i]]])
              ELSE t.value
      n == Len(body)
  IN IF n <= 255 THEN <<t.code, n>> \o body
     ELSE IF ~t.block /\ t.code = Code_SnmpMibObject THEN <<Code_LongForm>> \o BE16(n) \o body
     ELSE <<>>

Body == FlattenSeq([i \in DOMAIN tree |-> Encoding[tree[i]]])

\* An extension was asked for.
Extended == opts.dialplan \/ opts.hash # 0

\* A cable modem file is its body, the CM MIC over all of it, the CMTS MIC, the
\* end-of-data marker and zeros up to a multiple of four; an MTA file is its
\* body alone (README.md:45-47, main.rs:345-349).  The extensions take the
\* place of the last three bytes and leave the others as they are.
Sealed == Body \o <<Code_CmMic, 16>> \o Md5(Body) \o <<Code_CmtsMic, 16>> \o Hmac(selected)
               \o <<Code_EndOfData>>
Finished ==
  IF ~docsis \/ Body = <<>> THEN out = Body
  ELSE /\ IsPrefix(Sealed, out)
       /\ Len(out) % 4 = 0 /\ Len(out) - Len(Sealed) < 4
       /\ \A i \in (Len(Sealed) + 1)..Len(out) : out[i] = 0
FileShape == stage = "written" => IF Extended THEN IsPrefix(Cut(Body, 3), out) ELSE Finished

-----------------------------------------------------------------------------
(* What the MIC covers.                                                    *)

SettingBytes(s) == SubSeq(out, s.from, s.to - 1)

\* The settings with code c, in file order.
WithCode(c) ==
  FlattenSeq([i \in DOMAIN spans |-> IF out[spans[i].from] = c
                                     THEN SettingBytes(spans[i]) ELSE <<>>])

\* What the comment at main.rs:19-20 says is hashed.
CmtsMicSelection ==
  FlattenSeq([k \in DOMAIN CMTS_MIC_TLVS |-> WithCode(CMTS_MIC_TLVS[k])])

\* The CMTS MIC covers every listed setting of the file, in the listed order,
\* "regardless of where they appear" (main.rs:19-20, add_cmts_mic).
CmtsMicCoversListed == stage = "eod" => selected = CmtsMicSelection

\* The same for every file without a short-form 64 or a 64 KiB value.
CmtsMicCoversPlain == PlainTree => CmtsMicCoversListed

-----------------------------------------------------------------------------
(* The optional extensions.                                                *)

EndsWith(b, t) == Len(b) >= Len(t) /\ SubSeq(b, Len(b) - Len(t) + 1, Len(b)) = t

\* Main { ... MtaConfigDelimiter 255; }, which is what an MTA file ends in.
Terminated == ~docsis /\ tree # <<>> /\ tree[Len(tree)] = Leaf(Code_MtaDelimiter, <<255>>)

DialplanFits == dialplanFile # NoFile /\ Len(dialplanFile) <= 65507

\* Reading on from the place of the old terminator, the dial plan and the hash
\* are each a setting whose length bytes end it exactly where the next begins,
\* and a terminator still ends the file; the nested lengths of the dial plan
\* agree with its size as well (add_dialplan, add_mta_hash).
ExtensionsParse ==
  stage = "written" /\ Terminated /\ (opts.dialplan => DialplanFits) =>
    LET old  == spans[Len(spans)].from
        hash == IF opts.dialplan THEN old + WalkStep(out, old) ELSE old
        end  == IF opts.hash # 0 THEN hash + WalkStep(out, hash) ELSE hash
        seqLong == out[old + 4] = 130
        oid  == old + IF seqLong THEN 7 ELSE 5
        strLong == out[oid + 21] = 130
        str  == oid + IF strLong THEN 24 ELSE 22
        Be(p) == 256 * out[p] + out[p + 1]
    IN /\ end + 2 = Len(out) /\ SubSeq(out, end, end + 2) = MTA_END
       /\ opts.dialplan =>
            /\ oid + (IF seqLong THEN Be(old + 5) ELSE out[old + 4]) = hash
            /\ str + (IF strLong THEN Be(oid + 22) ELSE out[oid + 21]) = hash
            /\ SubSeq(out, str, hash - 1) = dialplanFile

\* The configuration hash covers the file as it stood with its terminator
\* (add_mta_hash takes the digest before it truncates, main.rs:496).
HashCoversFile ==
  stage = "written" /\ Terminated /\ opts.hash # 0 =>
    EndsWith(out, Sha1(Cut(out, IF opts.hash = 1 THEN 45 ELSE 43) \o MTA_END)
                    \o MTA_END)
=============================================================================
