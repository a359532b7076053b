-------------------------------- MODULE Batch --------------------------------
(***************************************************************************)
(* The whole program, main of src/main.rs: the option loop, the key file,  *)
(* and the encoding of one input or of several (-m), each read, parsed,    *)
(* sealed, extended, listed and written by encode_one_file, on one small   *)
(* file system.  What a file holds is abstract: a text has a fate, and a   *)
(* file made from it remembers everything that went into it.  How the      *)
(* bytes are made is the module Encode.                                    *)
(***************************************************************************)
EXTENDS Naturals, Sequences, FiniteSetsExt

CONSTANTS
  Commands,   \* [args, disk, stdin]: what a run may be given
  PlaceOf(_), \* the file a name stands for: two names may be one file
  Unwritable  \* places that cannot be written

\* A command line is a sequence of words.
IsSeq(s) == s \in Seq({s[j] : j \in DOMAIN s})

ASSUME CommandsAssumption == \A c \in Commands : IsSeq(c.args)

\* A word of the command line, cut where an extension begins: at the last dot
\* behind the last separator, if there is one.
Word(stem, ext) == [stem |-> stem, ext |-> ext]
Opt(name)       == Word(name, "")
NoWord          == Word("no", "word")

Dash     == Opt("-")                         \* standard input or output
Dialplan == Word("dialplan", ".txt")
PlanFile == Word("dialplan_output", ".txt")  \* DIALPLAN_OUTPUT

(* What a file may hold. *)
Absent   == [kind |-> "absent"]
Broken   == [kind |-> "broken"]              \* a write that ended half-way
\* fate: "sound", "unscannable", "refused", "empty", or "stops" the listing;
\* mta: begins with MtaConfigDelimiter; map: the file a DigitMap names;
\* cert: the file a certificate is read from.
Text(id, fate, mta, map, cert) ==
  [kind |-> "text", id |-> id, fate |-> fate, mta |-> mta, map |-> map, cert |-> cert]
Plan(id, large) == [kind |-> "plan", id |-> id, large |-> large]
\* A file of other bytes, a key: "k" for any, "n" for a line end.
Key(bytes)      == [kind |-> "key", bytes |-> bytes]
\* What standard input holds once it has been read to its end: no Main.
Nothing         == Text("nothing", "refused", FALSE, NoWord, NoWord)

VARIABLES
  stage,     \* where main stands
  args,      \* the command line
  i,         \* the next word of it
  o,         \* Options: [flags, mibs, hash, dialplan]
  cmd,       \* [config, key, output, extension, docsis, decode, rest]
  key,       \* the shared secret
  next,      \* which input of the batch
  text,      \* what was read from it
  file,      \* what has been made of it
  disk,      \* the file system: what each place holds that holds something
  stdin,     \* what standard input still holds; Absent if it cannot be read
  stdout,    \* what was printed there, as a sequence
  status,    \* exit status, Running while there is none
  disk0,     \* ghost: the file system at the start
  stdin0     \* ghost: standard input at the start

parse   == <<args, i, o, cmd>>
work    == <<next, text, file>>
effects == <<disk, stdin, stdout>>
start   == <<disk0, stdin0>>
vars    == <<stage, parse, key, work, effects, status, start>>

Running == 999

At(d, w)  == IF PlaceOf(w) \in DOMAIN d THEN d[PlaceOf(w)] ELSE Absent
Put(w, c) == [p \in DOMAIN disk \cup {PlaceOf(w)} |-> IF p = PlaceOf(w) THEN c ELSE disk[p]]

-----------------------------------------------------------------------------
(* The option loop.                                                        *)

NoOptions == [flags |-> {}, mibs |-> NoWord, hash |-> 0, dialplan |-> FALSE]
NoCommand == [config |-> NoWord, key |-> NoWord, output |-> NoWord, extension |-> NoWord,
              docsis |-> FALSE, decode |-> FALSE, rest |-> <<>>]

Init ==
  /\ \E c \in Commands : args = c.args /\ disk = c.disk /\ stdin = c.stdin
  /\ stage = "options" /\ i = 1 /\ o = NoOptions /\ cmd = NoCommand /\ key = Absent
  /\ next = 1 /\ text = Absent /\ file = Absent
  /\ stdout = <<>> /\ status = Running /\ disk0 = disk /\ stdin0 = stdin

Exit(code) == stage' = "ended" /\ status' = code

VersionAsked == \E j \in DOMAIN args : args[j] \in {Opt("--version"), Opt("-V")}

\* Asked before anything else is looked at; println! panics when it cannot write.
ShowVersion ==
  /\ stage = "options" /\ i = 1 /\ VersionAsked
  /\ \/ Exit(0) /\ stdout' = <<"stamp">>
     \/ Exit(101) /\ stdout' = <<"part">>
  /\ UNCHANGED <<parse, key, work, disk, stdin, start>>

Options == stage = "options" /\ ~VersionAsked /\ i <= Len(args)
Left    == Len(args) + 1 - i     \* words not consumed yet, with this one
From(j) == SubSeq(args, j, Len(args))

UsageCode == 246
Usage == Exit(UsageCode) /\ UNCHANGED <<parse, key, work, effects, start>>

\* The loop goes on behind n words.
Consumed(n) == /\ i' = i + n
               /\ UNCHANGED <<stage, args, key, work, effects, status, start>>
\* The loop is left.
Settled == /\ stage' = "keyfile"
           /\ UNCHANGED <<args, key, work, effects, status, start>>

NoWordsLeft == /\ stage = "options" /\ ~VersionAsked /\ i > Len(args)
               /\ Usage

TakeFlag ==
  /\ Options /\ args[i] \in {Opt("-nohash"), Opt("-o")}
  /\ o' = [o EXCEPT !.flags = @ \cup {args[i]}]
  /\ Consumed(1) /\ UNCHANGED cmd

TakeMibs ==
  /\ Options /\ args[i] = Opt("-M")
  /\ IF Left < 2 THEN Usage
     ELSE o' = [o EXCEPT !.mibs = args[i + 1]] /\ Consumed(2) /\ UNCHANGED cmd

TakeHash ==
  /\ Options /\ args[i] \in {Opt("-na"), Opt("-eu")}
  /\ IF o.hash # 0 THEN Usage
     ELSE /\ o' = [o EXCEPT !.hash = IF args[i] = Opt("-na") THEN 1 ELSE 2]
          /\ Consumed(1) /\ UNCHANGED cmd

TakeDialplan ==
  /\ Options /\ args[i] = Opt("-dialplan")
  /\ o' = [o EXCEPT !.dialplan = TRUE]
  /\ Consumed(1) /\ UNCHANGED cmd

TakeDecode ==
  /\ Options /\ args[i] = Opt("-d")
  /\ IF Left < 2 THEN Usage
     ELSE /\ cmd' = [cmd EXCEPT !.decode = TRUE, !.config = args[i + 1]]
          /\ Settled /\ UNCHANGED <<i, o>>

TakeEncode ==
  /\ Options /\ args[i] = Opt("-e")
  /\ IF Left < 4 THEN Usage
     ELSE /\ cmd' = [cmd EXCEPT !.docsis = TRUE, !.config = args[i + 1],
                                !.key = args[i + 2], !.output = args[i + 3]]
          /\ Settled /\ UNCHANGED <<i, o>>

TakeMulti ==
  /\ Options /\ args[i] = Opt("-m")
  /\ IF Len(args) < 3 THEN Usage
     ELSE /\ cmd' = [cmd EXCEPT !.docsis = TRUE, !.key = args[Len(args) - 1],
                                !.extension = args[Len(args)]]
          /\ Consumed(1) /\ UNCHANGED o

TakeMta ==
  /\ Options /\ args[i] = Opt("-p")
  /\ LET plan  == Left >= 2 /\ args[i + 1] = Opt("-dialplan")
         first == IF plan THEN i + 2 ELSE i + 1
     IN IF Left < 3 \/ Len(args) + 1 - first < 2 THEN Usage
        ELSE /\ o' = [o EXCEPT !.dialplan = @ \/ plan]
             /\ cmd' = IF cmd.extension # NoWord
                       THEN [cmd EXCEPT !.docsis = FALSE, !.rest = From(first)]
                       ELSE [cmd EXCEPT !.docsis = FALSE, !.rest = From(first),
                                        !.config = args[first], !.output = args[first + 1]]
             /\ i' = first /\ Settled

OptionNames == {"-nohash", "-o", "-M", "-na", "-eu", "-dialplan", "-d", "-e", "-m", "-p"}

TakeInput ==
  /\ Options /\ args[i] \notin {Opt(n) : n \in OptionNames}
  /\ IF cmd.docsis THEN cmd' = [cmd EXCEPT !.rest = From(i)] /\ Settled /\ UNCHANGED <<i, o>>
     ELSE Usage

TakeOption == NoWordsLeft \/ TakeFlag \/ TakeMibs \/ TakeHash \/ TakeDialplan
                \/ TakeDecode \/ TakeEncode \/ TakeMulti \/ TakeMta \/ TakeInput

-----------------------------------------------------------------------------
(* The key file, and what is to be done.                                   *)

MaxKey == 64

\* At most MaxKey bytes, and of those no line ends behind the last other byte.
KeyOf(f) ==
  IF f.kind # "key" THEN f
  ELSE LET kept == {j \in DOMAIN f.bytes : j <= MaxKey /\ f.bytes[j] # "n"}
       IN Key(SubSeq(f.bytes, 1, IF kept = {} THEN 0 ELSE Max(kept)))

KeyFile ==
  /\ stage = "keyfile"
  /\ IF ~cmd.docsis THEN stage' = "ready" /\ UNCHANGED <<key, status>>
     ELSE IF At(disk, cmd.key) = Absent THEN Exit(251) /\ UNCHANGED key
     ELSE stage' = "ready" /\ key' = KeyOf(At(disk, cmd.key)) /\ UNCHANGED status
  /\ UNCHANGED <<parse, work, effects, start>>

\* replace_extension: a name whose extension is shorter than the new one has
\* no output.
Renamed(w) ==
  LET e == cmd.extension IN
  IF Len(w.ext) < Len(e.stem) + Len(e.ext) THEN NoWord
  ELSE Word(w.stem \o e.stem, e.ext)

Job(in, out) == [in |-> in, out |-> out]

\* How many words at the end are no inputs.  A slip: always one.
DroppedOne == 1
Dropped    == IF cmd.docsis THEN 2 ELSE 1

Jobs ==
  IF cmd.extension = NoWord THEN <<Job(cmd.config, cmd.output)>>
  ELSE [j \in 1..(Len(cmd.rest) - Dropped) |-> Job(cmd.rest[j], Renamed(cmd.rest[j]))]

Ready ==
  /\ stage = "ready" /\ ~cmd.decode
  /\ IF cmd.extension # NoWord /\ Len(cmd.rest) <= Dropped THEN Usage
     ELSE /\ stage' = "loop"
          /\ UNCHANGED <<parse, key, work, effects, status, start>>

-----------------------------------------------------------------------------
(* encode_one_file, for the input at next.                                 *)

Looping == stage = "loop" /\ next <= Len(Jobs)
In  == Jobs[next].in
Out == Jobs[next].out

Goto(s) == stage' = s /\ UNCHANGED <<parse, key, status, start>>

\* A slip: the batch goes on with the next input.
FailGoOn(code) == next' = next + 1 /\ Goto("loop") /\ UNCHANGED <<text, file, effects>>

Fail(code) == Exit(code) /\ UNCHANGED <<parse, key, work, effects, start>>

SkipShort ==
  /\ Looping /\ Out = NoWord
  /\ next' = next + 1
  /\ Goto("loop") /\ UNCHANGED <<text, file, effects>>

SameName == In = Out /\ In # Dash

RefuseSameName == Looping /\ Out # NoWord /\ SameName /\ Fail(2)

Input == IF In = Dash THEN stdin ELSE At(disk, In)

CannotRead ==
  /\ Looping /\ Out # NoWord /\ ~SameName /\ Input = Absent
  /\ Fail(2)

\* Standard input is read to its end: nothing is left for another "-".
Read ==
  /\ Looping /\ Out # NoWord /\ ~SameName /\ Input # Absent
  /\ text' = Input
  /\ stdin' = IF In = Dash THEN Nothing ELSE stdin
  /\ Goto("parse") /\ UNCHANGED <<next, file, disk, stdout>>

IsText == text.kind = "text"

\* What is no text does not get past the scanner, or holds no Main.
CannotScan == stage = "parse" /\ (IsText => text.fate = "unscannable") /\ Fail(2)
NotParsed  == stage = "parse" /\ (IsText => text.fate = "refused") /\ Fail(255)
NoSettings == stage = "parse" /\ IsText /\ text.fate = "empty" /\ Fail(2)

HasMap(t)    == t.map # NoWord
HasCert(t)   == t.cert # NoWord
Readable(f)  == f # Absent /\ (f.kind = "plan" => ~f.large)
Filled(f)    == f # Absent /\ f # Key(<<>>)

\* The files that a text names can be read: no dial plan is missing or larger
\* than MAX_DIALPLAN_SIZE, no certificate missing or empty.
Provided(t, d) == /\ HasMap(t) => Readable(At(d, t.map))
                  /\ HasCert(t) => Filled(At(d, t.cert))

NotProvided ==
  /\ stage = "parse" /\ IsText /\ text.fate \in {"sound", "stops"}
  /\ ~Provided(text, disk)
  /\ Fail(251)

Parses == /\ stage = "parse" /\ IsText /\ text.fate \in {"sound", "stops"}
          /\ Provided(text, disk)

\* encode_docsis is shadowed by a local that a leading delimiter clears.
Sealed(t) == cmd.docsis /\ ~t.mta

\* What a text becomes on a file system, without the dial plan of the options.
Flattened(t, d) ==
  [kind   |-> "file", of |-> t.id, mta |-> t.mta, fate |-> t.fate,
   inner  |-> IF HasMap(t) THEN At(d, t.map) ELSE Absent,
   cert   |-> IF HasCert(t) THEN At(d, t.cert) ELSE Absent,
   sealed |-> Sealed(t), key |-> IF Sealed(t) THEN key ELSE Absent,
   plan   |-> Absent, hash |-> 0]

\* A slip: the program's own encode_docsis is cleared.
AssembleShared ==
  /\ Parses
  /\ file' = Flattened(text, disk) /\ stage' = "extend"
  /\ cmd' = [cmd EXCEPT !.docsis = @ /\ ~text.mta]
  /\ UNCHANGED <<args, i, o, key, status, start, next, text, effects>>

Assemble ==
  /\ Parses
  /\ file' = Flattened(text, disk)
  /\ Goto("extend") /\ UNCHANGED <<next, text, effects>>

\* The listing of what the CMTS MIC covers may stop the program as well.
SealingStops ==
  /\ stage = "extend" /\ file.sealed /\ file.fate = "stops"
  /\ \E code \in {101, 211} : Fail(code)

NoDialplan ==
  /\ stage = "extend" /\ o.dialplan /\ At(disk, Dialplan) = Absent
  /\ Fail(255)

Extended(f, d) == [f EXCEPT !.plan = IF o.dialplan THEN At(d, Dialplan) ELSE Absent,
                            !.hash = o.hash]

Extend ==
  /\ stage = "extend" /\ (o.dialplan => At(disk, Dialplan) # Absent)
  /\ file' = Extended(file, disk)
  /\ Goto("list") /\ UNCHANGED <<next, text, effects>>

\* Lines are printed while a file is sealed or extended, and before it is listed.
Printing == stage = "list" \/ (stage = "extend" /\ (file.sealed \/ o.dialplan \/ o.hash # 0))

\* println! panics when it cannot write to standard output.
PrintFails ==
  /\ Printing
  /\ Exit(101) /\ stdout' = Append(stdout, "part")
  /\ UNCHANGED <<parse, key, work, disk, stdin, start>>

\* The dial plan behind a delimiter, else the text's own, else none.
PlanIn(f)  == IF f.kind # "file" THEN Absent
              ELSE IF f.mta /\ f.plan # Absent THEN f.plan ELSE f.inner

\* The decoder reads the long form of a dial plan in a file without a
\* delimiter as something else, and may stop there or not.
Misread(f) == f.plan # Absent /\ ~f.mta
Stops(f)   == f.fate = "stops" \/ Misread(f)
Goes(f)    == f.fate # "stops"

\* The side effect of listing a dial plan; failing to write it is no error.
PlanWritten(f) ==
  IF PlanIn(f) = Absent THEN disk' = disk
  ELSE \/ PlaceOf(PlanFile) \notin Unwritable /\ disk' = Put(PlanFile, PlanIn(f))
       \/ disk' = IF PlaceOf(PlanFile) \in Unwritable THEN disk ELSE Put(PlanFile, Broken)

\* A slip: the output is opened before the listing.
ListingStopsOpened ==
  /\ stage = "list" /\ Stops(file)
  /\ Exit(211)
  /\ disk' = IF Out = Dash THEN disk ELSE Put(Out, Broken)
  /\ UNCHANGED <<parse, key, work, stdin, stdout, start>>

\* The value decoders exit with 211 or panic, which is status 101.
ListingStops ==
  /\ stage = "list" /\ Stops(file)
  /\ \E code \in {101, 211} : Exit(code)
  /\ disk' = disk \/ PlanWritten(file)
  /\ UNCHANGED <<parse, key, work, stdin, stdout, start>>

\* write_stdout does not look at whether the listing could be written.
ListAndWrite ==
  /\ stage = "list" /\ Goes(file)
  /\ PlanWritten(file)
  /\ stdout' = Append(stdout, "listing")
  /\ Goto("write") /\ UNCHANGED <<work, stdin>>

\* Writing to a file, or to standard output: nobody looks at whether the bytes
\* in its buffer could be flushed.
Write ==
  /\ stage = "write"
  /\ IF Out = Dash
     THEN (\E arrived \in {"file", "lost"} : stdout' = Append(stdout, arrived)) /\ UNCHANGED disk
     ELSE /\ PlaceOf(Out) \notin Unwritable
          /\ disk' = Put(Out, file) /\ UNCHANGED stdout
  /\ next' = next + 1
  /\ Goto("loop") /\ UNCHANGED <<text, file, stdin>>

\* A write that fails half-way leaves what it had written.
WriteFails ==
  /\ stage = "write"
  /\ Exit(2)
  /\ IF Out = Dash THEN stdout' = Append(stdout, "part") /\ UNCHANGED disk
     ELSE /\ disk' = IF PlaceOf(Out) \in Unwritable THEN disk ELSE Put(Out, Broken)
          /\ UNCHANGED stdout
  /\ UNCHANGED <<parse, key, work, stdin, start>>

EncodeStep == RefuseSameName \/ CannotRead \/ Read \/ CannotScan \/ NotParsed
                \/ NoSettings \/ NotProvided \/ Assemble \/ SealingStops \/ NoDialplan \/ Extend
                \/ PrintFails \/ ListingStops \/ ListAndWrite \/ Write \/ WriteFails

EndLoop ==
  /\ stage = "loop" /\ next > Len(Jobs)
  /\ Exit(0) /\ UNCHANGED <<parse, key, work, effects, start>>

(* decode_file. *)
CannotDecode ==
  /\ stage = "ready" /\ cmd.decode /\ At(disk, cmd.config) = Absent
  /\ Fail(255)

\* Bytes that no encoder made are listed as they come, or end the decoder.
DecodeFile ==
  LET f == At(disk, cmd.config) IN
  /\ stage = "ready" /\ cmd.decode /\ f # Absent
  /\ \/ /\ f.kind = "file" => Goes(f)
        /\ Exit(0) /\ PlanWritten(f) /\ stdout' = Append(stdout, "listing")
     \/ /\ f.kind = "file" => Stops(f)
        /\ \E code \in {101, 211} : Exit(code)
        /\ disk' = disk \/ PlanWritten(f)
        /\ UNCHANGED stdout
  /\ UNCHANGED <<parse, key, work, stdin, start>>

Next == ShowVersion \/ TakeOption \/ KeyFile \/ Ready \/ SkipShort \/ EncodeStep
          \/ EndLoop \/ CannotDecode \/ DecodeFile

Spec == Init /\ [][Next]_vars

-----------------------------------------------------------------------------
(* What the program promises.                                              *)

TypeOK ==
  /\ stage \in {"options", "keyfile", "ready", "loop", "parse", "extend", "list",
                "write", "ended"}
  /\ i \in 1..(Len(args) + 1) /\ o.hash \in 0..2 /\ o.dialplan \in BOOLEAN
  /\ cmd.docsis \in BOOLEAN /\ cmd.decode \in BOOLEAN
  /\ stage \in {"parse", "extend", "list", "write"} => next \in DOMAIN Jobs
  /\ DOMAIN disk0 \subseteq DOMAIN disk
  /\ (stage = "ended") = (status # Running)

\* The inputs dealt with, and not skipped.
Done == {j \in DOMAIN Jobs : j < next /\ Jobs[j].out # NoWord}
Named == {j \in DOMAIN Jobs : Jobs[j].out # NoWord}
Places(j) == IF Jobs[j].out = Dash THEN {} ELSE {PlaceOf(Jobs[j].out)}

\* What an input has to say: standard input speaks once.
Said(j) ==
  IF Jobs[j].in # Dash THEN At(disk0, Jobs[j].in)
  ELSE IF \E k \in Named : k < j /\ Jobs[k].in = Dash THEN Nothing ELSE stdin0

\* What an input needs of the file system.
Needs(j) ==
  LET t == Said(j) IN
  (IF Jobs[j].in # Dash THEN {PlaceOf(Jobs[j].in)} ELSE {})
    \cup (IF t.kind = "text" /\ HasMap(t) THEN {PlaceOf(t.map)} ELSE {})
    \cup (IF t.kind = "text" /\ HasCert(t) THEN {PlaceOf(t.cert)} ELSE {})
    \cup (IF o.dialplan THEN {PlaceOf(Dialplan)} ELSE {})

\* No input needs what another's encoding writes, and no two write one file.
Apart ==
  /\ \A j, k \in Named : /\ Places(j) \cap Needs(k) = {}
                         /\ j # k => Places(j) \cap Places(k) = {}
  /\ \A j \in Named : PlaceOf(PlanFile) \notin Needs(j) \cup Places(j)

\* The file that an input alone makes of the file system at the start.
Alone(j) == Extended(Flattened(Said(j), disk0), disk0)

\* Alone, the input is refused; and when the listing may go either way.
FailsAlone(j) ==
  LET t == Said(j) IN
  \/ Jobs[j].in = Jobs[j].out /\ Jobs[j].in # Dash
  \/ t.kind # "text" \/ t.fate # "sound" \/ ~Provided(t, disk0)
  \/ o.dialplan /\ At(disk0, Dialplan) = Absent
  \/ Places(j) \cap Unwritable # {}
Unsure(j) == o.dialplan /\ ~Said(j).mta

\* A batch of inputs that do not meet on the file system is as many single
\* runs: whatever stands in the batch before it, each output is what its input
\* alone makes of the file system at the start, with the same key and options;
\* only standard input is gone once it has been read (the loop at
\* main.rs:225-234, the local encode_docsis of main.rs:336).
BatchIsSingles ==
  Apart => \A j \in Done :
    /\ ~FailsAlone(j)
    /\ Places(j) # {} => At(disk, Jobs[j].out) = Alone(j)

KeyMissing == cmd.docsis /\ At(disk0, cmd.key) = Absent

\* Writing or printing failed: the output is cut short, or standard output is.
CutShort ==
  IF status = 101 \/ Jobs[next].out = Dash
  THEN stdout # <<>> /\ stdout[Len(stdout)] = "part"
  ELSE At(disk, Jobs[next].out) = Broken

\* Status 0 says that every input that could be renamed has been encoded;
\* another status, that the one the batch stopped at cannot be encoded by
\* itself, or that writing failed (main.rs:231-233, 370-377).
StatusTellsAll ==
  Apart /\ stage = "ended" /\ status # UsageCode /\ ~VersionAsked /\ ~cmd.decode /\ ~KeyMissing =>
    IF status = 0 THEN Done = Named /\ \A j \in Named : ~FailsAlone(j)
    ELSE /\ next \in Named
         /\ FailsAlone(next) \/ Unsure(next) \/ CutShort

Changed(p) == p \in DOMAIN disk /\ (p \in DOMAIN disk0 => disk[p] # disk0[p])

\* An input that fails leaves no output, old or new, unless the write itself
\* fails half-way; nothing else is ever written but the outputs of the inputs
\* before it, never under the name of their own text, and dialplan_output.txt
\* (the order in encode_one_file: main.rs:297-378; the test at main.rs:299).
FailureLeavesNothing ==
  \A p \in DOMAIN disk : Changed(p) =>
    \/ p = PlaceOf(PlanFile)
    \/ \E j \in Done : p \in Places(j) /\ Jobs[j].in # Jobs[j].out
    \/ status = 2 /\ next \in Named /\ p \in Places(next) /\ disk[p] = Broken

\* In a batch the words left over by the options are inputs up to the key file
\* and the extension, and neither of these is ever taken for an input
\* (main.rs:153-162, 217-224).
TrailingWordsApart ==
  stage = "loop" /\ cmd.extension # NoWord =>
    \A j \in DOMAIN Jobs :
      /\ Jobs[j].in = args[i + j - 1]
      /\ i + j - 1 < Len(args) - (IF cmd.docsis THEN 1 ELSE 0)
=============================================================================
