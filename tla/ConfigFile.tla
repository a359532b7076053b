----------------------------- MODULE ConfigFile -----------------------------
(***************************************************************************)
(* What making a configuration file promises, without how: the settings of *)
(* a tree are taken in order, each written whole behind the others or left *)
(* out; a modem's file is then sealed by adding to it only; an extension   *)
(* changes nothing but the terminator; and what is published is complete.  *)
(* Blocks are written in one step, however they are put together.          *)
(***************************************************************************)
EXTENDS Wire

VARIABLES
  tree,    \* the settings to be written
  taken,   \* how many of them have been dealt with
  file,    \* the bytes so far
  phase    \* "settings", "cm_mic", "cmts_mic", "eod", "extend", "published", "stopped"

cfvars == <<tree, taken, file, phase>>

CFInit == taken = 0 /\ file = <<>> /\ phase = "settings"

\* enc is setting t whole: its header states the bytes that follow it (the two
\* length bytes of a long form hold that number below 64 KiB, and what is left
\* of it above), and those of a leaf are its value.
Short(enc, t) == /\ Len(enc) >= 2 /\ enc[1] = t.code /\ enc[2] = Len(enc) - 2
                 /\ ~t.block => SubSeq(enc, 3, Len(enc)) = t.value
Long(enc, t)  == /\ Len(enc) >= 3 /\ enc[1] = Code_LongForm /\ t.code = Code_SnmpMibObject
                 /\ 256 * enc[2] + enc[3] = (Len(enc) - 3) % 65536
                 /\ ~t.block /\ SubSeq(enc, 4, Len(enc)) = t.value
Whole(enc, t) == Short(enc, t) \/ Long(enc, t)

\* c is b with something behind it, and that something.
Grown(b, c)  == Len(b) <= Len(c) /\ SubSeq(c, 1, Len(b)) = b
Behind(b, c) == SubSeq(c, Len(b) + 1, Len(c))

Taking == /\ phase = "settings" /\ taken < Len(tree)
          /\ taken' = taken + 1
          /\ UNCHANGED <<tree, phase>>

LeaveOut == Taking /\ file' = file
WriteOne == Taking /\ Grown(file, file') /\ Whole(Behind(file, file'), tree[taken + 1])

\* A seal adds one setting of 16 bytes, and nothing to an empty file.
Sealed(code) ==
  IF file = <<>> THEN file' = file
  ELSE /\ Grown(file, file') /\ Len(file') = Len(file) + 18
       /\ SubSeq(file', Len(file) + 1, Len(file) + 2) = <<code, 16>>

EndSettings == /\ phase = "settings" /\ taken = Len(tree) /\ tree # <<>>
               /\ phase' \in {"cm_mic", "extend"}
               /\ UNCHANGED <<tree, taken, file>>

SealModem  == /\ phase = "cm_mic" /\ phase' = "cmts_mic"
              /\ Sealed(Code_CmMic) /\ UNCHANGED <<tree, taken>>
SealSystem == /\ phase = "cmts_mic" /\ phase' = "eod"
              /\ Sealed(Code_CmtsMic) /\ UNCHANGED <<tree, taken>>
EndFile    == /\ phase = "eod" /\ phase' = "extend"
              /\ file # <<>> => /\ Grown(file, file') /\ Len(file') \in (Len(file) + 1)..(Len(file) + 4)
                                /\ file'[Len(file) + 1] = Code_EndOfData
                                /\ Len(file') % 4 = 0
              /\ file = <<>> => file' = file
              /\ UNCHANGED <<tree, taken>>

\* Everything but the last three bytes stays, and a terminator ends the file.
Extend == /\ phase = "extend" /\ Len(file) >= 3
          /\ Grown(Cut(file, 3), file') /\ Len(file') > Len(file)
          /\ SubSeq(file', Len(file') - 2, Len(file')) = MTA_END
          /\ UNCHANGED <<tree, taken, phase>>

Publish == phase = "extend" /\ phase' = "published" /\ UNCHANGED <<tree, taken, file>>

Stop == /\ phase \in {"settings", "cmts_mic", "extend"} /\ phase' = "stopped"
        /\ UNCHANGED <<tree, taken, file>>

CFNext == LeaveOut \/ WriteOne \/ EndSettings \/ SealModem \/ SealSystem \/ EndFile
            \/ Extend \/ Publish \/ Stop

CFSpec == CFInit /\ [][CFNext]_cfvars
=============================================================================
