---------------------------- MODULE BatchProofs ----------------------------
(***************************************************************************)
(* For every command line, every file system and whatever the names on it  *)
(* stand for: an input that fails leaves no output, the trailing words of  *)
(* a batch are never inputs, each output of a batch is what its input      *)
(* alone would make, and the exit status tells whether all of them were    *)
(* made.                                                                   *)
(***************************************************************************)
EXTENDS Batch, TLAPS, SequenceTheorems

-----------------------------------------------------------------------------
(* The command line, as far as it has been read.                           *)

Stages  == {"options", "keyfile", "ready", "loop", "parse", "extend", "list", "write", "ended"}
Working == {"parse", "extend", "list", "write"}

\* The two records keep their fields.
Shaped ==
  /\ DOMAIN o = {"flags", "mibs", "hash", "dialplan"}
  /\ o.hash \in 0..2 /\ o.dialplan \in BOOLEAN
  /\ DOMAIN cmd = {"config", "key", "output", "extension", "docsis", "decode", "rest"}
  /\ cmd.docsis \in BOOLEAN /\ cmd.decode \in BOOLEAN

\* The words left over are those from where the option loop stopped.
Leftover ==
  /\ IsSeq(args) /\ i \in 1..(Len(args) + 1)
  /\ stage = "options" => cmd.rest = <<>>
  /\ cmd.rest = <<>> \/ cmd.rest = From(i)

\* Where main stands says what it is about.
Control ==
  /\ stage \in Stages /\ (stage = "ended" <=> status # Running)
  /\ stage = "options" => ~cmd.decode
  /\ cmd.decode => stage \notin Working \cup {"loop"}
  /\ stage \in Working \cup {"loop"} /\ cmd.extension # NoWord => Len(cmd.rest) > Dropped

Base == Shaped /\ Leftover /\ Control

\* main starts so.
LEMMA BaseInit == Init => Base
<1> SUFFICES ASSUME Init PROVE Base
  OBVIOUS
<1>1. IsSeq(args) /\ i = 1
  BY CommandsAssumption DEF Init
<1>2. i \in 1..(Len(args) + 1)
  BY <1>1 DEF IsSeq
<1>3. /\ stage = "options" /\ status = Running
      /\ o = NoOptions /\ cmd = NoCommand
  BY DEF Init
<1>4. Shaped
  BY <1>3 DEF Shaped, NoOptions, NoCommand
<1>5. Leftover
  BY <1>1, <1>2, <1>3 DEF Leftover, NoCommand
<1>6. Control
  BY <1>3 DEF Control, Stages, Working, NoCommand
<1> QED BY <1>4, <1>5, <1>6 DEF Base

\* The option loop reads on, and leaves what it stops at.
LEMMA BaseOption ==
  ASSUME Base, TakeOption
  PROVE  Base'
<1> DEFINE n == Len(args)
<1>1. /\ stage = "options" /\ status = Running /\ n \in Nat /\ i \in 1..(n + 1)
      /\ cmd.rest = <<>> /\ ~cmd.decode
  BY DEF TakeOption, NoWordsLeft, TakeFlag, TakeMibs, TakeHash, TakeDialplan, TakeDecode,
         TakeEncode, TakeMulti, TakeMta, TakeInput, Options, Base, Leftover, Control, IsSeq
<1> USE DEF Usage, Exit, UsageCode, Running, Consumed, Settled, parse, work, effects
<1>2. CASE Usage
  BY <1>1, <1>2 DEF Base, Shaped, Leftover, Control, Stages, Working, From
<1>3. CASE TakeFlag
  <2>1. Shaped'
    BY <1>1, <1>3 DEF TakeFlag, Base, Shaped
  <2>2. Leftover'
    BY <1>1, <1>3 DEF TakeFlag, Options, Left, Base, Leftover, Shaped
  <2>3. Control'
    BY <1>1, <1>3 DEF TakeFlag, Options, Base, Control, Shaped, Stages, Working, Dropped
  <2> QED BY <2>1, <2>2, <2>3 DEF Base
<1>4. CASE TakeMibs /\ ~Usage
  <2>1. Shaped'
    BY <1>1, <1>4 DEF TakeMibs, Base, Shaped
  <2>2. Leftover'
    BY <1>1, <1>4 DEF TakeMibs, Options, Left, Base, Leftover, Shaped
  <2>3. Control'
    BY <1>1, <1>4 DEF TakeMibs, Options, Base, Control, Shaped, Stages, Working, Dropped
  <2> QED BY <2>1, <2>2, <2>3 DEF Base
<1>5. CASE TakeHash /\ ~Usage
  <2>1. Shaped'
    BY <1>1, <1>5 DEF TakeHash, Base, Shaped
  <2>2. Leftover'
    BY <1>1, <1>5 DEF TakeHash, Options, Left, Base, Leftover, Shaped
  <2>3. Control'
    BY <1>1, <1>5 DEF TakeHash, Options, Base, Control, Shaped, Stages, Working, Dropped
  <2> QED BY <2>1, <2>2, <2>3 DEF Base
<1>6. CASE TakeDialplan
  <2>1. Shaped'
    BY <1>1, <1>6 DEF TakeDialplan, Base, Shaped
  <2>2. Leftover'
    BY <1>1, <1>6 DEF TakeDialplan, Options, Left, Base, Leftover, Shaped
  <2>3. Control'
    BY <1>1, <1>6 DEF TakeDialplan, Options, Base, Control, Shaped, Stages, Working, Dropped
  <2> QED BY <2>1, <2>2, <2>3 DEF Base
<1>7. CASE TakeDecode /\ ~Usage
  <2>1. /\ cmd' = [cmd EXCEPT !.decode = TRUE, !.config = args[i + 1]]
        /\ stage' = "keyfile" /\ args' = args /\ status' = status /\ i' = i /\ o' = o
    BY <1>7 DEF TakeDecode, Options, Left
  <2>2. /\ DOMAIN cmd' = DOMAIN cmd /\ cmd'.decode = TRUE
        /\ cmd'.docsis = cmd.docsis /\ cmd'.rest = cmd.rest
    BY <2>1 DEF Base, Shaped
  <2>3. Shaped'
    BY <2>1, <2>2 DEF Base, Shaped
  <2>4. Leftover'
    BY <1>1, <2>1, <2>2 DEF Base, Leftover
  <2>5. Control'
    BY <1>1, <2>1, <2>2 DEF Base, Control, Stages, Working
  <2> QED BY <2>3, <2>4, <2>5 DEF Base
<1>8. CASE TakeEncode /\ ~Usage
  <2>1. /\ cmd' = [cmd EXCEPT !.docsis = TRUE, !.config = args[i + 1],
                                !.key = args[i + 2], !.output = args[i + 3]]
        /\ stage' = "keyfile" /\ args' = args /\ status' = status /\ i' = i /\ o' = o
    BY <1>8 DEF TakeEncode, Options, Left
  <2>2. /\ DOMAIN cmd' = DOMAIN cmd /\ cmd'.decode = cmd.decode
        /\ cmd'.docsis = TRUE /\ cmd'.rest = cmd.rest
    BY <2>1 DEF Base, Shaped
  <2>3. Shaped'
    BY <2>1, <2>2 DEF Base, Shaped
  <2>4. Leftover'
    BY <1>1, <2>1, <2>2 DEF Base, Leftover
  <2>5. Control'
    BY <1>1, <2>1, <2>2 DEF Base, Control, Stages, Working
  <2> QED BY <2>3, <2>4, <2>5 DEF Base
<1>9. CASE TakeMulti /\ ~Usage
  <2>1. /\ cmd' = [cmd EXCEPT !.docsis = TRUE, !.key = args[Len(args) - 1],
                                !.extension = args[Len(args)]]
        /\ stage' = "options" /\ args' = args /\ status' = status /\ i' = i + 1 /\ o' = o
        /\ i <= n
    BY <1>9 DEF TakeMulti, Options, Left
  <2>2. /\ DOMAIN cmd' = DOMAIN cmd /\ cmd'.decode = cmd.decode
        /\ cmd'.docsis = TRUE /\ cmd'.rest = cmd.rest
    BY <2>1 DEF Base, Shaped
  <2>3. Shaped'
    BY <2>1, <2>2 DEF Base, Shaped
  <2>4. Leftover'
    BY <1>1, <2>1, <2>2 DEF Base, Leftover
  <2>5. Control'
    BY <1>1, <2>1, <2>2 DEF Base, Control, Stages, Working
  <2> QED BY <2>3, <2>4, <2>5 DEF Base
<1>10. CASE TakeMta /\ ~Usage
  <2> DEFINE plan  == Left >= 2 /\ args[i + 1] = Opt("-dialplan")
             first == IF plan THEN i + 2 ELSE i + 1
  <2>1. /\ Len(args) + 1 - first >= 2 /\ i' = first /\ stage' = "keyfile" /\ args' = args
        /\ status' = status
        /\ o' = [o EXCEPT !.dialplan = @ \/ plan]
        /\ \/ cmd' = [cmd EXCEPT !.docsis = FALSE, !.rest = From(first)]
           \/ cmd' = [cmd EXCEPT !.docsis = FALSE, !.rest = From(first),
                                 !.config = args[first], !.output = args[first + 1]]
    BY <1>1, <1>10 DEF TakeMta, Options
  <2>2. first \in 1..(n + 1)
    BY <1>1, <2>1
  <2> HIDE DEF first, plan
  <2>3. DOMAIN o' = DOMAIN o /\ o'.hash = o.hash /\ o'.dialplan \in BOOLEAN
    BY <2>1 DEF Base, Shaped, plan
  <2>4. /\ DOMAIN cmd' = DOMAIN cmd /\ cmd'.decode = cmd.decode /\ cmd'.docsis = FALSE
        /\ cmd'.rest = From(first)
    BY <2>1 DEF Base, Shaped
  <2>5. Shaped'
    BY <2>3, <2>4 DEF Base, Shaped
  <2>6. Leftover'
    BY <1>1, <2>1, <2>2, <2>4 DEF Base, Leftover, From
  <2>7. Control'
    BY <1>1, <2>1, <2>4 DEF Base, Control, Stages, Working
  <2> QED BY <2>5, <2>6, <2>7 DEF Base
<1>11. CASE TakeInput /\ ~Usage
  <2>1. Shaped'
    BY <1>1, <1>11 DEF TakeInput, Base, Shaped
  <2>2. Leftover'
    BY <1>1, <1>11 DEF TakeInput, Options, Left, Base, Leftover, Shaped, From
  <2>3. Control'
    BY <1>1, <1>11 DEF TakeInput, Options, Base, Control, Shaped, Stages, Working
  <2> QED BY <2>1, <2>2, <2>3 DEF Base
<1>12. CASE NoWordsLeft
  BY <1>2, <1>12 DEF NoWordsLeft
<1> QED BY <1>2, <1>3, <1>4, <1>5, <1>6, <1>7, <1>8, <1>9, <1>10, <1>11, <1>12 DEF TakeOption

\* The steps behind the option loop leave the command line as it was read.
AfterOptions ==
  \/ KeyFile \/ Ready \/ SkipShort \/ EncodeStep \/ EndLoop \/ CannotDecode \/ DecodeFile

\* Exit statuses are not the mark of a running program.
LEMMA Statuses ==
  ASSUME NEW code \in {0, 2, 101, 211, 246, 251, 255}
  PROVE  code # Running
  BY DEF Running

\* Every step behind the options leaves the command line alone, and keeps Base.
LEMMA BaseAfter ==
  ASSUME Base, AfterOptions
  PROVE  /\ Base' /\ args' = args /\ i' = i /\ o' = o /\ cmd' = cmd
         /\ disk0' = disk0 /\ stdin0' = stdin0
<1>1. args' = args /\ i' = i /\ o' = o /\ cmd' = cmd /\ disk0' = disk0 /\ stdin0' = stdin0
  BY DEF AfterOptions, KeyFile, Ready, Usage, SkipShort, EncodeStep, RefuseSameName,
         CannotRead, Read, CannotScan, NotParsed, NoSettings, NotProvided, Assemble, SealingStops,
         NoDialplan, Extend, PrintFails, ListingStops, ListAndWrite, Write, WriteFails, EndLoop,
         CannotDecode, DecodeFile, Fail, Goto, parse, start
<1>2. /\ stage \notin {"options", "ended"} /\ stage' # "options"
      /\ stage' \in Stages /\ (stage' = "ended" <=> status' # Running)
  BY Statuses
     DEF AfterOptions, KeyFile, Ready, Usage, UsageCode, SkipShort, EncodeStep, RefuseSameName,
         CannotRead, Read, CannotScan, NotParsed, NoSettings, NotProvided, Assemble, SealingStops,
         NoDialplan, Extend, PrintFails, ListingStops, ListAndWrite, Write, WriteFails, EndLoop,
         CannotDecode, DecodeFile, Fail, Goto, Exit, Parses, Printing, Looping,
         Stages, Base, Control
<1>3. /\ stage \notin Working \cup {"loop"} /\ stage' \in Working \cup {"loop"} => Ready /\ ~Usage
      /\ cmd.decode => stage' \notin Working \cup {"loop"}
  BY DEF AfterOptions, KeyFile, Ready, SkipShort, EncodeStep, RefuseSameName,
         CannotRead, Read, CannotScan, NotParsed, NoSettings, NotProvided, Assemble, SealingStops,
         NoDialplan, Extend, PrintFails, ListingStops, ListAndWrite, Write, WriteFails, EndLoop,
         CannotDecode, DecodeFile, Fail, Goto, Exit, Usage, Parses, Printing, Looping,
         Working, Base, Control
<1>4. Dropped' = Dropped /\ Len(cmd.rest) \in Nat /\ Dropped \in Nat
  BY <1>1 DEF Dropped, Base, Leftover, From, IsSeq
<1>5. Control'
  <2>1. Ready /\ ~Usage /\ cmd.extension # NoWord => Len(cmd.rest) > Dropped
    BY <1>4 DEF Ready
  <2> QED BY <1>1, <1>2, <1>3, <1>4, <2>1 DEF Base, Control
<1>6. Shaped' /\ Leftover'
  BY <1>1, <1>2 DEF Base, Shaped, Leftover, From
<1> QED BY <1>1, <1>5, <1>6 DEF Base

\* So the whole program keeps to it.
LEMMA BaseStep == Base /\ [Next]_vars => Base'
<1> SUFFICES ASSUME Base, [Next]_vars PROVE Base'
  OBVIOUS
<1>1. CASE ShowVersion
  BY <1>1 DEF ShowVersion, Exit, Running, parse, Base, Shaped, Leftover, Control, Stages,
              Working, From
<1>2. CASE UNCHANGED vars
  BY <1>2 DEF vars, parse, Base, Shaped, Leftover, Control, From, Dropped
<1> QED BY <1>1, <1>2, BaseOption, BaseAfter DEF Next, AfterOptions

\* The words of the command line from k on.
LEMMA FromProperties ==
  ASSUME IsSeq(args), NEW k \in 1..(Len(args) + 1)
  PROVE  /\ Len(args) \in Nat /\ Len(From(k)) = Len(args) - k + 1
         /\ \A j \in 1..Len(From(k)) : From(k)[j] = args[k + j - 1]
<1> DEFINE n == Len(args)
           S == {args[j] : j \in DOMAIN args}
<1>1. args \in Seq(S)
  BY DEF IsSeq
<1>2. n \in Nat /\ \A j \in k..n : args[j] \in S
  BY <1>1
<1> HIDE DEF n, S
<1>3. /\ Len(SubSeq(args, k, n)) = IF k <= n THEN n - k + 1 ELSE 0
      /\ \A j \in 1..(n - k + 1) : SubSeq(args, k, n)[j] = args[k + j - 1]
  BY <1>2, SubSeqProperties DEF n
<1>4. Len(SubSeq(args, k, n)) = n - k + 1
  BY <1>2, <1>3 DEF n
<1> QED BY <1>2, <1>3, <1>4 DEF From, n

\* The inputs of a batch, from where the option loop stopped.
LEMMA JobsOfBatch ==
  ASSUME Base, stage \in Working \cup {"loop"}, cmd.extension # NoWord
  PROVE  LET n == Len(cmd.rest) - Dropped IN
         /\ n \in Nat \ {0} /\ n = Len(args) - i + 1 - Dropped /\ DOMAIN Jobs = 1..n
         /\ Len(Jobs) = n
         /\ \A j \in 1..n : Jobs[j] = Job(args[i + j - 1], Renamed(args[i + j - 1]))
<1> DEFINE n == Len(cmd.rest) - Dropped
           r == Len(cmd.rest)
<1>1. /\ r > Dropped /\ i \in 1..(Len(args) + 1) /\ IsSeq(args)
      /\ cmd.rest = <<>> \/ cmd.rest = From(i)
  BY DEF Base, Control, Leftover
<1>2. Dropped \in {1, 2}
  BY DEF Dropped
<1>3. cmd.rest = From(i)
  <2>1. CASE cmd.rest = <<>>
    <3>1. r = 0
      BY <2>1
    <3> HIDE DEF r
    <3> QED BY <1>1, <1>2, <3>1
  <2> QED BY <1>1, <2>1
<1>4. /\ Len(args) \in Nat /\ r = Len(args) - i + 1
      /\ \A j \in 1..r : cmd.rest[j] = args[i + j - 1]
  BY <1>1, <1>3, FromProperties
<1>5. n \in Nat \ {0} /\ n = Len(args) - i + 1 - Dropped /\ n < r
  <2> HIDE DEF r
  <2> QED BY <1>1, <1>2, <1>4 DEF r
<1>6. Jobs = [j \in 1..n |-> Job(cmd.rest[j], Renamed(cmd.rest[j]))]
  BY DEF Jobs
<1> HIDE DEF n
<1>7. DOMAIN Jobs = 1..n /\ Len(Jobs) = n
  BY <1>5, <1>6, LenProperties
<1>8. \A j \in 1..n : Jobs[j] = Job(cmd.rest[j], Renamed(cmd.rest[j])) /\ j \in 1..r
  <2> HIDE DEF r
  <2> QED BY <1>4, <1>5, <1>6
<1> QED BY <1>4, <1>5, <1>7, <1>8 DEF n

\* A batch's inputs are the words up to the key file and the extension, and
\* neither of these is ever taken for an input.
THEOREM TrailingWordsAreNoInputs == Spec => []TrailingWordsApart
<1>1. Base => TrailingWordsApart
  <2> SUFFICES ASSUME Base, stage = "loop", cmd.extension # NoWord, NEW j \in DOMAIN Jobs
               PROVE  /\ Jobs[j].in = args[i + j - 1]
                      /\ i + j - 1 < Len(args) - (IF cmd.docsis THEN 1 ELSE 0)
    BY DEF TrailingWordsApart
  <2> DEFINE n == Len(cmd.rest) - Dropped
  <2>1. /\ n \in Nat /\ n = Len(args) - i + 1 - Dropped /\ j \in 1..n
        /\ Jobs[j] = Job(args[i + j - 1], Renamed(args[i + j - 1]))
    BY JobsOfBatch
  <2>2. Jobs[j].in = args[i + j - 1]
    BY <2>1 DEF Job
  <2>3. Len(args) \in Nat /\ i \in Nat /\ Dropped = IF cmd.docsis THEN 2 ELSE 1
    BY DEF Base, Leftover, IsSeq, Dropped
  <2> HIDE DEF n
  <2>4. i + j - 1 < Len(args) - (IF cmd.docsis THEN 1 ELSE 0)
    BY <2>1, <2>3
  <2> QED BY <2>2, <2>4
<1> QED BY <1>1, BaseInit, BaseStep, PTL DEF Spec

-----------------------------------------------------------------------------
(* Which input is being worked on, and what has been written so far.       *)

Progress ==
  /\ next \in Nat \ {0}
  /\ stage \in {"options", "keyfile", "ready"} => next = 1 /\ disk = disk0
  /\ stage \in Working => next \in DOMAIN Jobs /\ Out # NoWord /\ ~SameName

\* Inputs are numbered from one.
LEMMA JobsNumbered ==
  ASSUME Base
  PROVE  \A j \in DOMAIN Jobs : j \in Nat \ {0}
<1>1. Len(cmd.rest) \in Nat /\ Dropped \in Nat
  BY DEF Base, Leftover, From, IsSeq, Dropped
<1>2. CASE cmd.extension = NoWord
  BY <1>2 DEF Jobs
<1>3. CASE cmd.extension # NoWord
  BY <1>1, <1>3 DEF Jobs
<1> QED BY <1>2, <1>3

\* So they are after a step.
LEMMA JobsNumberedNext ==
  ASSUME Base'
  PROVE  \A j \in DOMAIN Jobs' : j \in Nat \ {0}
<1>1. (Len(cmd.rest) \in Nat /\ Dropped \in Nat)'
  BY DEF Base, Leftover, From, IsSeq, Dropped
<1>2. CASE (cmd.extension = NoWord)'
  BY <1>2 DEF Jobs
<1>3. CASE (cmd.extension # NoWord)'
  BY <1>1, <1>3 DEF Jobs
<1> QED BY <1>2, <1>3

\* While the loop runs they are numbered without a gap.
LEMMA JobsCounted ==
  ASSUME Base, stage \in Working \cup {"loop"}
  PROVE  Len(Jobs) \in Nat /\ DOMAIN Jobs = 1..Len(Jobs)
<1>1. CASE cmd.extension = NoWord
  BY <1>1 DEF Jobs
<1>2. CASE cmd.extension # NoWord
  BY <1>2, JobsOfBatch
<1> QED BY <1>1, <1>2

\* Nothing is worked on before the loop.
LEMMA ProgressInit == Init => Progress
  BY DEF Init, Progress, Working

\* Every step keeps the input in hand one of the batch's, with an output that is
\* not its own text.
LEMMA ProgressStep == Base /\ Progress /\ [Next]_vars => Progress'
<1> SUFFICES ASSUME Base, Progress, [Next]_vars PROVE Progress'
  OBVIOUS
<1>1. CASE ShowVersion \/ TakeOption
  <2>1. stage = "options" /\ next' = next /\ disk' = disk /\ disk0' = disk0 /\ stage' \notin Working
    BY <1>1 DEF ShowVersion, TakeOption, NoWordsLeft, TakeFlag, TakeMibs, TakeHash,
                TakeDialplan, TakeDecode, TakeEncode, TakeMulti, TakeMta, TakeInput,
                Options, Usage, Exit, Consumed, Settled, work, effects, start, Working
  <2> QED BY <2>1 DEF Progress
<1>2. CASE AfterOptions
  <2>1. cmd' = cmd /\ disk0' = disk0
    BY <1>2, BaseAfter
  <2>2. Jobs' = Jobs
    BY <2>1 DEF Jobs, Dropped, Renamed
  <2>3. CASE Read
    <3>1. next \in DOMAIN Jobs
      <4>1. stage = "loop" /\ next <= Len(Jobs)
        BY <2>3 DEF Read, Looping
      <4>2. Len(Jobs) \in Nat /\ DOMAIN Jobs = 1..Len(Jobs)
        BY <4>1, JobsCounted
      <4> QED BY <4>1, <4>2 DEF Progress
    <3> QED BY <2>2, <2>3, <3>1 DEF Read, Goto, Progress, Out, In, SameName, Working
  <2>4. CASE KeyFile
    BY <2>1, <2>4 DEF KeyFile, Exit, work, effects, Progress, Working
  <2>5. CASE Assemble \/ Extend \/ ListAndWrite
    <3>1. stage \in Working /\ stage' \in Working /\ next' = next
      BY <2>5 DEF Assemble, Extend, ListAndWrite, Parses, Goto, work, Working
    <3> QED BY <2>2, <3>1 DEF Progress, Out, In, SameName, Working
  <2>6. CASE ~(Read \/ KeyFile \/ Assemble \/ Extend \/ ListAndWrite)
    <3>1. stage' \in {"loop", "ended"} /\ next' \in {next, next + 1}
      BY <1>2, <2>6
         DEF AfterOptions, Ready, Usage, SkipShort, EncodeStep, RefuseSameName,
             CannotRead, CannotScan, NotParsed, NoSettings, NotProvided, SealingStops,
             NoDialplan, PrintFails, ListingStops, Write, WriteFails, EndLoop,
             CannotDecode, DecodeFile, Fail, Goto, Exit, work
    <3> QED BY <3>1 DEF Progress, Working
  <2> QED BY <2>3, <2>4, <2>5, <2>6
<1>3. CASE UNCHANGED vars
  BY <1>3 DEF vars, work, effects, start, parse, Progress, Jobs, Dropped, Renamed, Out, In, SameName
<1> QED BY <1>1, <1>2, <1>3 DEF Next, AfterOptions

\* Whether an input so far was standard input: it has been read to its end.
DashRead ==
  \E k \in Named : Jobs[k].in = Dash /\ (k < next \/ (k = next /\ stage \in Working))
Heard == stage # "ended" => stdin = IF DashRead THEN Nothing ELSE stdin0

\* It has not been read before the loop.
LEMMA HeardInit == Init => Heard
<1> SUFFICES ASSUME Init PROVE Heard
  OBVIOUS
<1>1. Base /\ next = 1 /\ stage = "options" /\ stdin = stdin0
  BY BaseInit DEF Init
<1>2. \A k \in Named : ~(k < 1)
  BY <1>1, JobsNumbered DEF Named
<1> QED BY <1>1, <1>2 DEF Heard, DashRead, Working

\* The input that names it reads it, and no other step does.
LEMMA HeardStep == Base /\ Base' /\ Progress /\ Heard /\ [Next]_vars => Heard'
<1> SUFFICES ASSUME Base, Base', Progress, Heard, [Next]_vars, stage' # "ended" PROVE Heard'
  BY DEF Heard
<1>1. CASE ShowVersion \/ TakeOption
  <2>1. /\ stage = "options" /\ next' = next /\ stdin' = stdin /\ stdin0' = stdin0
        /\ stage' \notin Working
    BY <1>1 DEF ShowVersion, TakeOption, NoWordsLeft, TakeFlag, TakeMibs, TakeHash,
                TakeDialplan, TakeDecode, TakeEncode, TakeMulti, TakeMta, TakeInput,
                Options, Usage, Exit, Consumed, Settled, work, effects, start, Working
  <2>2. next = 1 /\ ~DashRead
    <3>1. next = 1
      BY <2>1 DEF Progress
    <3>2. \A k \in Named : ~(k < 1)
      BY JobsNumbered DEF Named
    <3> QED BY <2>1, <3>1, <3>2 DEF DashRead, Working
  <2>3. ~DashRead'
    <3>1. \A k \in Named' : ~(k < 1)
      BY JobsNumberedNext DEF Named
    <3> QED BY <2>1, <2>2, <3>1 DEF DashRead
  <2> QED BY <2>1, <2>2, <2>3 DEF Heard, Working
<1>2. CASE UNCHANGED vars
  BY <1>2 DEF vars, work, effects, start, parse, Heard, DashRead, Named, Jobs, Dropped, Renamed
<1>3. CASE AfterOptions
  <2>1. cmd' = cmd /\ stdin0' = stdin0
    BY <1>3, BaseAfter
  <2>2. Jobs' = Jobs /\ Named' = Named
    BY <2>1 DEF Jobs, Dropped, Renamed, Named
  <2>3. \A k \in Named : k \in Nat /\ next \in Nat
    BY JobsNumbered DEF Named, Progress
  <2>4. stage # "ended"
    BY <1>3, BaseAfter DEF AfterOptions, KeyFile, Ready, SkipShort, EncodeStep, RefuseSameName,
         CannotRead, Read, CannotScan, NotParsed, NoSettings, NotProvided, Assemble, SealingStops,
         NoDialplan, Extend, PrintFails, ListingStops, ListAndWrite, Write, WriteFails, EndLoop,
         CannotDecode, DecodeFile, Parses, Printing, Looping
  <2>5. stdin = IF DashRead THEN Nothing ELSE stdin0
    BY <2>4 DEF Heard
  <2>6. CASE Read
    <3>1. /\ stage = "loop" /\ next <= Len(Jobs) /\ Out # NoWord /\ next' = next
          /\ stdin' = (IF In = Dash THEN Nothing ELSE stdin) /\ stage' = "parse"
      BY <2>6 DEF Read, Looping, Goto
    <3>2. next \in Named
      <4>1. Len(Jobs) \in Nat /\ DOMAIN Jobs = 1..Len(Jobs)
        BY <3>1, JobsCounted
      <4> QED BY <3>1, <4>1 DEF Progress, Named, Out
    <3>3. DashRead' = (DashRead \/ In = Dash)
      BY <2>2, <3>1, <3>2 DEF DashRead, Working, In
    <3> QED BY <2>1, <2>5, <3>1, <3>3 DEF Heard
  <2>7. CASE SkipShort
    <3>1. stage = "loop" /\ stage' = "loop" /\ next' = next + 1 /\ stdin' = stdin /\ next \notin Named
      BY <2>7 DEF SkipShort, Looping, Goto, effects, Named, Out
    <3>2. DashRead' = DashRead
      BY <2>2, <2>3, <3>1 DEF DashRead, Working
    <3> QED BY <2>1, <2>5, <3>1, <3>2 DEF Heard
  <2>8. CASE Write
    <3>1. stage = "write" /\ stage' = "loop" /\ next' = next + 1 /\ stdin' = stdin
      BY <2>8 DEF Write, Goto
    <3>2. DashRead' = DashRead
      BY <2>2, <2>3, <3>1 DEF DashRead, Working
    <3> QED BY <2>1, <2>5, <3>1, <3>2 DEF Heard
  <2>9. CASE Assemble \/ Extend \/ ListAndWrite
    <3>1. stage \in Working /\ stage' \in Working /\ next' = next /\ stdin' = stdin
      BY <2>9 DEF Assemble, Extend, ListAndWrite, Parses, Goto, work, effects, Working
    <3>2. DashRead' = DashRead
      BY <2>2, <3>1 DEF DashRead
    <3> QED BY <2>1, <2>5, <3>1, <3>2 DEF Heard
  <2>10. CASE KeyFile \/ Ready
    <3>1. stage \notin Working /\ stage' \notin Working /\ next' = next /\ stdin' = stdin
      BY <2>10 DEF KeyFile, Ready, Usage, Exit, work, effects, Working
    <3>2. DashRead' = DashRead
      BY <2>2, <3>1 DEF DashRead
    <3> QED BY <2>1, <2>5, <3>1, <3>2 DEF Heard
  <2>11. CASE ~(Read \/ SkipShort \/ Write \/ Assemble \/ Extend \/ ListAndWrite \/ KeyFile \/ Ready)
    <3>1. stage' = "ended"
      BY <1>3, <2>11
         DEF AfterOptions, EncodeStep, RefuseSameName, CannotRead, CannotScan, NotParsed,
             NoSettings, NotProvided, SealingStops, NoDialplan, PrintFails, ListingStops,
             WriteFails, EndLoop, CannotDecode, DecodeFile, Fail, Exit
    <3> QED BY <3>1
  <2> QED BY <2>6, <2>7, <2>8, <2>9, <2>10, <2>11
<1> QED BY <1>1, <1>2, <1>3 DEF Next, AfterOptions

\* Nothing is lost from the file system, and it changes at the places P only.
Grows(P) ==
  /\ DOMAIN disk \subseteq DOMAIN disk'
  /\ \A p \in DOMAIN disk' : p \in P \/ (p \in DOMAIN disk /\ disk'[p] = disk[p])

\* One place is written.
LEMMA PutGrows ==
  ASSUME NEW w, NEW c, disk' = Put(w, c)
  PROVE  /\ Grows({PlaceOf(w)}) /\ PlaceOf(w) \in DOMAIN disk' /\ disk'[PlaceOf(w)] = c
         /\ \A v : At(disk', v) = IF PlaceOf(v) = PlaceOf(w) THEN c ELSE At(disk, v)
<1>1. /\ DOMAIN disk' = DOMAIN disk \cup {PlaceOf(w)}
      /\ \A p \in DOMAIN disk' : disk'[p] = IF p = PlaceOf(w) THEN c ELSE disk[p]
  BY DEF Put
<1> QED BY <1>1 DEF Grows, At

\* Listing a dial plan writes dialplan_output.txt, if anything.
LEMMA PlanGrows ==
  ASSUME NEW f, PlanWritten(f)
  PROVE  Grows({PlaceOf(PlanFile)})
<1>1. CASE disk' = disk
  BY <1>1 DEF Grows
<1>2. ASSUME NEW c, disk' = Put(PlanFile, c) PROVE Grows({PlaceOf(PlanFile)})
  BY <1>2, PutGrows
<1> QED BY <1>1, <1>2 DEF PlanWritten

\* A place outside P holds what it held.
LEMMA GrowsAt ==
  ASSUME NEW P, Grows(P), NEW w, PlaceOf(w) \notin P
  PROVE  At(disk', w) = At(disk, w)
  BY DEF Grows, At
\* Behind the options a step writes dialplan_output.txt, the output of the
\* input at next, or nothing.
LEMMA StepWrites ==
  ASSUME Base, Progress, AfterOptions
  PROVE  /\ Jobs' = Jobs /\ status = Running /\ next' \in {next, next + 1}
         /\ Named' = Named /\ Done \subseteq Done'
         /\ \/ Grows({PlaceOf(PlanFile)})
            \/ /\ Write /\ Out # Dash /\ disk' = Put(Out, file)
            \/ /\ WriteFails /\ Out # Dash /\ disk' = Put(Out, Broken)
<1>1. cmd' = cmd /\ status = Running
  BY BaseAfter DEF AfterOptions, KeyFile, Ready, SkipShort, EncodeStep, RefuseSameName,
         CannotRead, Read, CannotScan, NotParsed, NoSettings, NotProvided, Assemble, SealingStops,
         NoDialplan, Extend, PrintFails, ListingStops, ListAndWrite, Write, WriteFails, EndLoop,
         CannotDecode, DecodeFile, Parses, Printing, Looping, Base, Control
<1>2. Jobs' = Jobs
  BY <1>1 DEF Jobs, Dropped, Renamed
<1>3. next' \in {next, next + 1}
  BY DEF AfterOptions, KeyFile, Ready, Usage, SkipShort, EncodeStep, RefuseSameName,
         CannotRead, Read, CannotScan, NotParsed, NoSettings, NotProvided, Assemble, SealingStops,
         NoDialplan, Extend, PrintFails, ListingStops, ListAndWrite, Write, WriteFails, EndLoop,
         CannotDecode, DecodeFile, Fail, Goto, work
<1>4. Named' = Named
  BY <1>2 DEF Named
<1>5. Done \subseteq Done'
  <2>1. next \in Nat /\ next' \in Nat /\ next <= next'
    BY <1>3 DEF Progress
  <2>2. \A j \in DOMAIN Jobs : j < next => j < next'
    BY <2>1, JobsNumbered
  <2> QED BY <1>2, <2>2 DEF Done
<1>6. \/ Grows({PlaceOf(PlanFile)})
      \/ /\ Write /\ Out # Dash /\ disk' = Put(Out, file)
      \/ /\ WriteFails /\ Out # Dash /\ disk' = Put(Out, Broken)
  <2>1. disk' = disk => Grows({PlaceOf(PlanFile)})
    BY DEF Grows
  <2>2. CASE ListingStops \/ ListAndWrite \/ DecodeFile
    BY <2>1, <2>2, PlanGrows DEF ListingStops, ListAndWrite, DecodeFile
  <2>3. CASE Write
    BY <2>1, <2>3 DEF Write
  <2>4. CASE WriteFails
    BY <2>1, <2>4 DEF WriteFails
  <2>5. CASE ~(ListingStops \/ ListAndWrite \/ DecodeFile \/ Write \/ WriteFails)
    <3>1. disk' = disk
      BY <2>5 DEF AfterOptions, KeyFile, Ready, Usage, SkipShort, EncodeStep, RefuseSameName,
         CannotRead, Read, CannotScan, NotParsed, NoSettings, NotProvided, Assemble, SealingStops,
         NoDialplan, Extend, PrintFails, EndLoop, CannotDecode, Fail, Goto, work, effects
    <3> QED BY <2>1, <3>1
  <2> QED BY <2>2, <2>3, <2>4, <2>5
<1> QED BY <1>1, <1>2, <1>3, <1>4, <1>5, <1>6

\* What is on the file system: all that was there, and what was written.
Written == DOMAIN disk0 \subseteq DOMAIN disk /\ FailureLeavesNothing

\* At the start nothing has been written.
LEMMA WrittenInit == Init => Written
  BY DEF Init, Written, FailureLeavesNothing, Changed

\* Whoever writes, writes what he may.
LEMMA WrittenStep == Base /\ Progress /\ Written /\ [Next]_vars => Written'
<1> SUFFICES ASSUME Base, Progress, Written, [Next]_vars PROVE Written'
  OBVIOUS
<1>1. CASE ShowVersion \/ TakeOption
  <2>1. stage = "options" /\ disk' = disk /\ disk0' = disk0
    BY <1>1 DEF ShowVersion, TakeOption, NoWordsLeft, TakeFlag, TakeMibs, TakeHash,
                TakeDialplan, TakeDecode, TakeEncode, TakeMulti, TakeMta, TakeInput,
                Options, Usage, Exit, Consumed, Settled, work, effects, start
  <2> QED BY <2>1 DEF Progress, Written, FailureLeavesNothing, Changed
<1>2. CASE UNCHANGED vars
  <2>1. Jobs' = Jobs /\ next' = next /\ disk' = disk /\ disk0' = disk0 /\ status' = status
    BY <1>2 DEF vars, work, effects, start, parse, Jobs, Dropped, Renamed
  <2>2. Done' = Done /\ Named' = Named /\ \A j : Places(j)' = Places(j)
    BY <2>1 DEF Done, Named, Places
  <2>3. Places(next)' = Places(next)
    BY <2>1 DEF Places
  <2> QED BY <2>1, <2>2, <2>3 DEF Written, FailureLeavesNothing, Changed
<1>3. CASE AfterOptions
  <2>1. disk0' = disk0
    BY <1>3, BaseAfter
  <2>2. /\ Jobs' = Jobs /\ status = Running /\ next' \in {next, next + 1}
        /\ Named' = Named /\ Done \subseteq Done'
    BY <1>3, StepWrites
  <2>3. \A j : Places(j)' = Places(j)
    BY <2>2 DEF Places
  <2>4. \A p \in DOMAIN disk : Changed(p) =>
          \/ p = PlaceOf(PlanFile)
          \/ \E j \in Done' : p \in Places(j)' /\ Jobs'[j].in # Jobs'[j].out
    BY <2>2, <2>3 DEF Written, FailureLeavesNothing, Running
  <2>5. ASSUME NEW P, Grows(P),
               \A p \in DOMAIN disk' \cap P :
                 \/ p = PlaceOf(PlanFile)
                 \/ \E j \in Done' : p \in Places(j)' /\ Jobs'[j].in # Jobs'[j].out
                 \/ status' = 2 /\ next' \in Named' /\ p \in Places(next)' /\ disk'[p] = Broken
        PROVE  Written'
    <3>1. DOMAIN disk0' \subseteq DOMAIN disk'
      BY <2>1, <2>5 DEF Grows, Written
    <3>2. ASSUME NEW p \in DOMAIN disk', Changed(p)'
          PROVE  \/ p = PlaceOf(PlanFile)
                 \/ \E j \in Done' : p \in Places(j)' /\ Jobs'[j].in # Jobs'[j].out
                 \/ status' = 2 /\ next' \in Named' /\ p \in Places(next)' /\ disk'[p] = Broken
      <4>1. CASE p \in P
        BY <2>5, <4>1
      <4>2. CASE p \in DOMAIN disk /\ disk'[p] = disk[p]
        <5>1. Changed(p)
          BY <2>1, <3>2, <4>2 DEF Changed
        <5> QED BY <2>4, <4>2, <5>1
      <4> QED BY <2>5, <4>1, <4>2 DEF Grows
    <3> QED BY <3>1, <3>2 DEF Written, FailureLeavesNothing
  <2>6. CASE Grows({PlaceOf(PlanFile)})
    BY <2>5, <2>6
  <2>7. ASSUME stage = "write"
        PROVE  /\ next \in Named /\ next \in Nat
               /\ Out # Dash => Places(next) = {PlaceOf(Out)} /\ Jobs[next].in # Jobs[next].out
    BY <2>7 DEF Progress, Working, Named, Places, Out, In, SameName
  <2>8. CASE Write /\ Out # Dash /\ disk' = Put(Out, file)
    <3>1. stage = "write" /\ next' = next + 1
      BY <2>8 DEF Write
    <3>2. next \in Done'
      BY <2>2, <2>7, <3>1 DEF Named, Done
    <3>3. Grows({PlaceOf(Out)})
      BY <2>8, PutGrows
    <3>4. PICK j \in Done' : j = next
      BY <3>2
    <3>5. PlaceOf(Out) \in Places(j)' /\ Jobs'[j].in # Jobs'[j].out
      BY <2>2, <2>3, <2>7, <2>8, <3>1, <3>4
    <3> QED BY <2>5, <3>3, <3>4, <3>5
  <2>9. CASE WriteFails /\ Out # Dash /\ disk' = Put(Out, Broken)
    <3>1. stage = "write" /\ next' = next /\ status' = 2 /\ Out # Dash
      BY <2>9 DEF WriteFails, Exit, work
    <3>2. Grows({PlaceOf(Out)}) /\ disk'[PlaceOf(Out)] = Broken
      BY <2>9, PutGrows
    <3>3. next' \in Named' /\ PlaceOf(Out) \in Places(next)'
      BY <2>2, <2>7, <3>1 DEF Places
    <3> QED BY <2>5, <3>1, <3>2, <3>3
  <2> QED BY <1>3, <2>6, <2>8, <2>9, StepWrites
<1> QED BY <1>1, <1>2, <1>3 DEF Next, AfterOptions

\* An input that fails leaves no output, unless the write itself fails half-way,
\* and nothing else is ever written but the outputs of the inputs before it,
\* never under the name of their own text, and dialplan_output.txt.
THEOREM FailuresLeaveNothing == Spec => []FailureLeavesNothing
<1>1. Written => FailureLeavesNothing
  BY DEF Written
<1> QED BY <1>1, BaseInit, BaseStep, ProgressInit, ProgressStep, WrittenInit, WrittenStep,
           PTL DEF Spec
-----------------------------------------------------------------------------
(* Inputs that do not meet on the file system.                             *)

\* What a step behind the options finds to be as it was.
LEMMA Fixed ==
  ASSUME Base, Progress, AfterOptions
  PROVE  /\ Jobs' = Jobs /\ Named' = Named /\ Apart' = Apart
         /\ \A j : /\ Places(j)' = Places(j) /\ Needs(j)' = Needs(j) /\ Said(j)' = Said(j)
                   /\ FailsAlone(j)' = FailsAlone(j) /\ Unsure(j)' = Unsure(j)
                   /\ ~KeyFile => Alone(j)' = Alone(j)
         /\ VersionAsked' = VersionAsked /\ KeyMissing' = KeyMissing /\ ~KeyFile => key' = key
<1>1. cmd' = cmd /\ disk0' = disk0 /\ stdin0' = stdin0 /\ o' = o /\ args' = args
  BY BaseAfter
<1>2. Jobs' = Jobs /\ Named' = Named
  BY StepWrites
<1>9. \A j : Said(j)' = Said(j)
  BY <1>1, <1>2 DEF Said, At
<1>3. \A j : Places(j)' = Places(j) /\ Needs(j)' = Needs(j)
  BY <1>1, <1>2, <1>9 DEF Places, Needs, HasMap, HasCert
<1>4. Apart' = Apart
  BY <1>2, <1>3 DEF Apart
<1>5. \A j : FailsAlone(j)' = FailsAlone(j) /\ Unsure(j)' = Unsure(j)
  BY <1>1, <1>2, <1>3, <1>9 DEF FailsAlone, Unsure, At, Provided, HasMap, HasCert, Readable, Filled
<1>6. ~KeyFile => key' = key
  BY DEF AfterOptions, Ready, Usage, SkipShort, EncodeStep, RefuseSameName,
         CannotRead, Read, CannotScan, NotParsed, NoSettings, NotProvided, Assemble, SealingStops,
         NoDialplan, Extend, PrintFails, ListingStops, ListAndWrite, Write, WriteFails, EndLoop,
         CannotDecode, DecodeFile, Fail, Goto
<1>7. ~KeyFile => \A j : Alone(j)' = Alone(j)
  <2> SUFFICES ASSUME ~KeyFile, NEW j PROVE Alone(j)' = Alone(j)
    OBVIOUS
  <2>1. Said(j)' = Said(j) /\ key' = key
    BY <1>6, <1>9
  <2>2. Flattened(Said(j), disk0)' = Flattened(Said(j), disk0)
    BY <1>1, <2>1 DEF Flattened, Sealed, At, HasMap, HasCert
  <2> QED BY <1>1, <2>2 DEF Alone, Extended, At
<1>8. VersionAsked' = VersionAsked /\ KeyMissing' = KeyMissing
  BY <1>1 DEF VersionAsked, KeyMissing, At
<1> QED BY <1>2, <1>3, <1>4, <1>5, <1>6, <1>7, <1>8, <1>9

\* What the input at next needs is as it was at the start.
LEMMA NeedsUntouched ==
  ASSUME Written, Apart, status = Running, next \in Named,
         NEW w, PlaceOf(w) \in Needs(next)
  PROVE  At(disk, w) = At(disk0, w)
<1>1. ~Changed(PlaceOf(w))
  <2> SUFFICES ASSUME Changed(PlaceOf(w)) PROVE FALSE
    OBVIOUS
  <2>1. PlaceOf(w) # PlaceOf(PlanFile)
    BY DEF Apart
  <2>2. \A j \in Done : PlaceOf(w) \notin Places(j)
    BY DEF Apart, Done, Named
  <2> QED BY <2>1, <2>2 DEF Written, FailureLeavesNothing, Changed, Running
<1> QED BY <1>1 DEF Written, Changed, At

\* The inputs dealt with are what they are alone.
Outputs ==
  \A j \in Done : /\ ~FailsAlone(j)
                  /\ Places(j) # {} => At(disk, Jobs[j].out) = Alone(j)

\* So is, as far as it has come, the one in hand.
InHand ==
  LET t == Said(next) IN
  stage \in Working =>
    /\ text = t
    /\ stage # "parse" => /\ t.kind = "text" /\ t.fate \in {"sound", "stops"}
                          /\ Provided(t, disk0)
    /\ stage = "extend" => file = Flattened(t, disk0)
    /\ stage \in {"list", "write"} =>
         /\ file = Alone(next)
         /\ o.dialplan => At(disk0, Dialplan) # Absent
    /\ stage = "write" => t.fate = "sound"

Singles == Apart => Outputs /\ InHand

\* At the start there is no input.
LEMMA SinglesInit == Init => Singles
<1> SUFFICES ASSUME Init PROVE Outputs /\ InHand
  BY DEF Singles
<1>1. Base /\ next = 1 /\ stage = "options"
  BY BaseInit DEF Init
<1>2. Done = {}
  BY <1>1, JobsNumbered DEF Done
<1> QED BY <1>1, <1>2 DEF Outputs, InHand, Working

\* A step of nothing changes nothing.
LEMMA Unmoved ==
  ASSUME UNCHANGED vars
  PROVE  /\ Jobs' = Jobs /\ Named' = Named /\ Done' = Done /\ Apart' = Apart
         /\ \A j : /\ Places(j)' = Places(j) /\ FailsAlone(j)' = FailsAlone(j)
                   /\ Unsure(j)' = Unsure(j) /\ Alone(j)' = Alone(j)
         /\ Said(next)' = Said(next) /\ Alone(next)' = Alone(next)
         /\ FailsAlone(next)' = FailsAlone(next) /\ Unsure(next)' = Unsure(next)
<1>1. /\ Jobs' = Jobs /\ next' = next /\ disk0' = disk0 /\ stdin0' = stdin0 /\ o' = o /\ cmd' = cmd
      /\ key' = key
  BY DEF vars, work, effects, start, parse, Jobs, Dropped, Renamed
<1>2. Named' = Named /\ Done' = Done /\ \A j : Places(j)' = Places(j)
  BY <1>1 DEF Named, Done, Places
<1>3. \A j : Said(j)' = Said(j)
  BY <1>1, <1>2 DEF Said, At
<1>4. \A j : Needs(j)' = Needs(j)
  BY <1>1, <1>3 DEF Needs, HasMap, HasCert
<1>5. Apart' = Apart
  BY <1>2, <1>4 DEF Apart
<1>6. \A j : FailsAlone(j)' = FailsAlone(j) /\ Unsure(j)' = Unsure(j)
  BY <1>1, <1>2, <1>3 DEF FailsAlone, Unsure, At, Provided, HasMap, HasCert, Readable, Filled
<1>7. \A j : Alone(j)' = Alone(j)
  <2> SUFFICES ASSUME NEW j PROVE Alone(j)' = Alone(j)
    OBVIOUS
  <2>1. Flattened(Said(j), disk0)' = Flattened(Said(j), disk0)
    BY <1>1, <1>3 DEF Flattened, Sealed, At, HasMap, HasCert
  <2> QED BY <1>1, <2>1 DEF Alone, Extended, At
<1>8. Said(next)' = Said(next)
  BY <1>1, <1>2 DEF Said, At
<1>9. /\ Alone(next)' = Alone(next)
      /\ FailsAlone(next)' = FailsAlone(next) /\ Unsure(next)' = Unsure(next)
  BY <1>1, <1>2, <1>8
     DEF Alone, Extended, Flattened, Sealed, At, FailsAlone, Unsure, Provided, HasMap, HasCert,
         Readable, Filled, Places
<1> QED BY <1>1, <1>2, <1>3, <1>4, <1>5, <1>6, <1>7, <1>8, <1>9

\* Whatever is written in between, an output that has been made stays.
LEMMA OutputsStay ==
  ASSUME Base, Progress, Written, Apart, Outputs, AfterOptions, ~KeyFile, next' = next
  PROVE  Outputs'
<1>1. /\ Jobs' = Jobs /\ Named' = Named /\ Apart' = Apart
      /\ \A j : Places(j)' = Places(j) /\ FailsAlone(j)' = FailsAlone(j) /\ Alone(j)' = Alone(j)
  BY Fixed
<1>2. Done' = Done
  BY <1>1 DEF Done
<1>3. SUFFICES ASSUME NEW j \in Done, Places(j) # {}
               PROVE  At(disk', Jobs[j].out) = At(disk, Jobs[j].out)
  BY <1>1, <1>2 DEF Outputs
<1>4. Places(j) = {PlaceOf(Jobs[j].out)} /\ j \in Named /\ PlaceOf(PlanFile) \notin Places(j)
  BY <1>3 DEF Places, Done, Named, Apart
<1>5. CASE Grows({PlaceOf(PlanFile)})
  BY <1>4, <1>5, GrowsAt
<1>6. CASE WriteFails /\ Out # Dash /\ disk' = Put(Out, Broken)
  <2>1. next \in Named /\ Places(next) = {PlaceOf(Out)} /\ next # j
    BY <1>3, <1>6 DEF WriteFails, Progress, Working, Named, Places, Out, Done
  <2>2. PlaceOf(Out) # PlaceOf(Jobs[j].out)
    BY <1>4, <2>1 DEF Apart
  <2> QED BY <1>6, <2>2, PutGrows
<1>7. CASE Write
  BY <1>7 DEF Write, Progress
<1> QED BY <1>5, <1>6, <1>7, StepWrites

\* The input in hand is taken one step further.
LEMMA InHandStep ==
  ASSUME Base, Progress, Heard, Written, Apart, InHand, AfterOptions
  PROVE  InHand'
<1>1. /\ Jobs' = Jobs /\ Named' = Named /\ disk0' = disk0 /\ stdin0' = stdin0
      /\ o' = o /\ cmd' = cmd
  BY Fixed, BaseAfter
<1>2. status = Running
  BY StepWrites
<1>3. CASE Read
  <2>1. stage = "loop" /\ next <= Len(Jobs) /\ Out # NoWord /\ next' = next
        /\ text' = Input /\ stage' = "parse"
    BY <1>3 DEF Read, Looping, Goto
  <2>2. next \in Named
    <3>1. Len(Jobs) \in Nat /\ DOMAIN Jobs = 1..Len(Jobs)
      BY <2>1, JobsCounted
    <3> QED BY <2>1, <3>1 DEF Progress, Named, Out
  <2>3. Input = Said(next)
    <3>1. CASE In = Dash
      <4>1. DashRead <=> \E k \in Named : k < next /\ Jobs[k].in = Dash
        BY <2>1 DEF DashRead, Working
      <4> QED BY <2>1, <3>1, <4>1 DEF Heard, Input, Said, In
    <3>2. CASE In # Dash
      <4>1. PlaceOf(In) \in Needs(next)
        BY <3>2 DEF Needs, In
      <4>2. At(disk, In) = At(disk0, In)
        BY <1>2, <2>2, <4>1, NeedsUntouched
      <4> QED BY <3>2, <4>2 DEF Input, Said, In
    <3> QED BY <3>1, <3>2
  <2>4. Said(next)' = Said(next)
    BY <1>1, <2>1 DEF Said, At
  <2> QED BY <2>1, <2>3, <2>4 DEF InHand
<1>4. ASSUME stage \in Working
      PROVE  next \in Named /\ (next' = next => Said(next)' = Said(next))
  <2>1. next \in Named
    BY <1>4 DEF Progress, Named, Out
  <2> QED BY <1>1, <2>1 DEF Said, At
<1>5. CASE Assemble
  <2> DEFINE t == Said(next)
  <2>1. /\ stage = "parse" /\ stage' = "extend" /\ next' = next /\ text' = text
        /\ IsText /\ text.fate \in {"sound", "stops"}
        /\ Provided(text, disk)
        /\ file' = Flattened(text, disk)
    BY <1>5 DEF Assemble, Parses, Goto
  <2>2. next \in Named /\ text = t /\ t' = t
    BY <1>4, <2>1 DEF InHand, Working
  <2>3. /\ HasMap(t) => At(disk, t.map) = At(disk0, t.map)
        /\ HasCert(t) => At(disk, t.cert) = At(disk0, t.cert)
    <3>1. /\ HasMap(t) => PlaceOf(t.map) \in Needs(next)
          /\ HasCert(t) => PlaceOf(t.cert) \in Needs(next)
      BY <2>1, <2>2 DEF Needs, IsText
    <3> QED BY <1>2, <2>2, <3>1, NeedsUntouched
  <2>4. Flattened(t, disk) = Flattened(t, disk0) /\ (Provided(t, disk) <=> Provided(t, disk0))
    BY <2>3 DEF Flattened, Provided
  <2>5. Flattened(t, disk0)' = Flattened(t, disk0) /\ Provided(t, disk0)' = Provided(t, disk0)
    <3>1. key' = key
      BY <1>5 DEF Assemble, Goto
    <3> HIDE DEF t
    <3> QED BY <1>1, <2>2, <3>1
        DEF Flattened, HasMap, HasCert, Sealed, At, Provided, Readable, Filled
  <2> HIDE DEF t
  <2>6. /\ text' = t' /\ (t.kind = "text")' /\ (t.fate \in {"sound", "stops"})'
        /\ Provided(t, disk0)'
        /\ file' = Flattened(t, disk0)'
    BY <2>1, <2>2, <2>3, <2>4, <2>5 DEF IsText
  <2> USE DEF t
  <2> QED BY <2>1, <2>6 DEF InHand
<1>6. CASE Extend
  <2> DEFINE t == Said(next)
  <2>1. /\ stage = "extend" /\ stage' = "list" /\ next' = next /\ text' = text
        /\ o.dialplan => At(disk, Dialplan) # Absent
        /\ file' = Extended(file, disk) /\ key' = key
    BY <1>6 DEF Extend, Goto
  <2>2. /\ next \in Named /\ t' = t
        /\ text = t /\ t.kind = "text" /\ t.fate \in {"sound", "stops"}
        /\ Provided(t, disk0)
        /\ file = Flattened(t, disk0)
    BY <1>4, <2>1 DEF InHand, Working
  <2>3. o.dialplan => At(disk, Dialplan) = At(disk0, Dialplan)
    BY <1>2, <2>2, NeedsUntouched DEF Needs
  <2>4. Extended(file, disk) = Alone(next)
    BY <2>2, <2>3 DEF Extended, Alone
  <2>5. Alone(next)' = Alone(next)
    BY <1>1, <2>1, <2>2 DEF Alone, Extended, Flattened, Sealed, At, HasMap, HasCert
  <2>6. Provided(t, disk0)' = Provided(t, disk0)
        /\ (o.dialplan => At(disk0, Dialplan) # Absent)'
           = (o.dialplan => At(disk0, Dialplan) # Absent)
    BY <1>1, <2>2 DEF Provided, HasMap, HasCert, Readable, Filled, At
  <2> HIDE DEF t
  <2>7. /\ text' = t' /\ (t.kind = "text")' /\ (t.fate \in {"sound", "stops"})'
        /\ Provided(t, disk0)'
        /\ file' = Alone(next)' /\ (o.dialplan => At(disk0, Dialplan) # Absent)'
    BY <2>1, <2>2, <2>3, <2>4, <2>5, <2>6
  <2> USE DEF t
  <2> QED BY <2>1, <2>7 DEF InHand
<1>7. CASE ListAndWrite
  <2> DEFINE t == Said(next)
  <2>1. /\ stage = "list" /\ stage' = "write" /\ next' = next /\ text' = text
        /\ file' = file /\ key' = key /\ Goes(file)
    BY <1>7 DEF ListAndWrite, Goto, work
  <2>2. /\ next \in Named /\ t' = t
        /\ text = t /\ t.kind = "text" /\ t.fate \in {"sound", "stops"}
        /\ Provided(t, disk0)
        /\ file = Alone(next) /\ (o.dialplan => At(disk0, Dialplan) # Absent)
    BY <1>4, <2>1 DEF InHand, Working
  <2>3. t.fate = "sound"
    <3>1. Alone(next).fate = t.fate
      BY DEF Alone, Extended, Flattened
    <3> QED BY <2>1, <2>2, <3>1 DEF Goes
  <2>5. Alone(next)' = Alone(next)
    BY <1>1, <2>1, <2>2 DEF Alone, Extended, Flattened, Sealed, At, HasMap, HasCert
  <2>6. Provided(t, disk0)' = Provided(t, disk0)
        /\ (o.dialplan => At(disk0, Dialplan) # Absent)'
           = (o.dialplan => At(disk0, Dialplan) # Absent)
    BY <1>1, <2>2 DEF Provided, HasMap, HasCert, Readable, Filled, At
  <2> HIDE DEF t
  <2>7. /\ text' = t' /\ (t.kind = "text")' /\ (t.fate = "sound")'
        /\ Provided(t, disk0)'
        /\ file' = Alone(next)' /\ (o.dialplan => At(disk0, Dialplan) # Absent)'
    BY <2>1, <2>2, <2>3, <2>5, <2>6
  <2> USE DEF t
  <2> QED BY <2>1, <2>7 DEF InHand
<1>8. CASE ~(Read \/ Assemble \/ Extend \/ ListAndWrite)
  <2>1. stage' \notin Working
    BY <1>8
       DEF AfterOptions, KeyFile, Ready, Usage, SkipShort, EncodeStep, RefuseSameName,
           CannotRead, CannotScan, NotParsed, NoSettings, NotProvided, SealingStops,
           NoDialplan, PrintFails, ListingStops, Write, WriteFails, EndLoop,
           CannotDecode, DecodeFile, Fail, Goto, Exit, Working
  <2> QED BY <2>1 DEF InHand, Working
<1> QED BY <1>3, <1>5, <1>6, <1>7, <1>8
\* Before the loop nothing has been dealt with.
LEMMA NoneDone ==
  ASSUME Base', next' = 1
  PROVE  Done' = {}
<1> QED BY JobsNumberedNext DEF Done

\* Writing an output deals with one more input.
LEMMA OutputsWrite ==
  ASSUME Base, Progress, Written, Apart, Outputs, InHand, Write
  PROVE  Outputs'
<1> DEFINE t == Said(next)
<1>1. /\ Jobs' = Jobs
      /\ \A j : Places(j)' = Places(j) /\ FailsAlone(j)' = FailsAlone(j) /\ Alone(j)' = Alone(j)
  BY Fixed DEF AfterOptions, EncodeStep, Write, KeyFile
<1>2. stage = "write" /\ next' = next + 1
  BY DEF Write
<1>3. /\ next \in Named /\ Out # NoWord /\ ~SameName
      /\ t.kind = "text" /\ t.fate = "sound" /\ file = Alone(next)
      /\ Provided(t, disk0)
      /\ o.dialplan => At(disk0, Dialplan) # Absent
  BY <1>2 DEF Progress, Working, Named, Out, InHand
<1>4. Places(next) \cap Unwritable = {} /\ (Out # Dash => Places(next) = {PlaceOf(Out)})
  BY DEF Write, Places, Out
<1>5. ~FailsAlone(next)
  BY <1>3, <1>4 DEF FailsAlone, SameName, In, Out
<1>6. Done' \subseteq Done \cup {next}
  BY <1>1, <1>2, JobsNumbered DEF Done, Progress
<1>7. Places(next) # {} => At(disk', Jobs[next].out) = Alone(next)
  BY <1>3, PutGrows, ZenonT(30) DEF Write, Places, Out
<1>8. ASSUME NEW j \in Done, Places(j) # {}
      PROVE  At(disk', Jobs[j].out) = Alone(j)
  <2>1. Places(j) = {PlaceOf(Jobs[j].out)} /\ j \in Named /\ j # next
    BY <1>8 DEF Places, Done, Named, Progress
  <2>2. At(disk, Jobs[j].out) = Alone(j)
    BY <1>8 DEF Outputs
  <2>3. CASE Out = Dash
    BY <2>2, <2>3 DEF Write
  <2>4. CASE Out # Dash
    <3>1. PlaceOf(Jobs[j].out) # PlaceOf(Out)
      BY <1>3, <1>4, <2>1, <2>4 DEF Apart
    <3> QED BY <2>2, <2>4, <3>1, PutGrows DEF Write
  <2> QED BY <2>3, <2>4
<1>9. ASSUME NEW j \in Done'
      PROVE  ~FailsAlone(j) /\ (Places(j) # {} => At(disk', Jobs[j].out) = Alone(j))
  BY <1>5, <1>6, <1>7, <1>8, <1>9 DEF Outputs
<1> QED BY <1>1, <1>9 DEF Outputs

\* Every step keeps the outputs what they are alone.
LEMMA SinglesStep ==
  Base /\ Base' /\ Progress /\ Heard /\ Written /\ Singles /\ [Next]_vars => Singles'
<1> SUFFICES ASSUME Base, Base', Progress, Heard, Written, Singles, [Next]_vars
             PROVE  Singles'
  OBVIOUS
<1>1. CASE ShowVersion \/ TakeOption
  <2>1. stage = "options" /\ next' = next /\ stage' \notin Working
    BY <1>1 DEF ShowVersion, TakeOption, NoWordsLeft, TakeFlag, TakeMibs, TakeHash,
                TakeDialplan, TakeDecode, TakeEncode, TakeMulti, TakeMta, TakeInput,
                Options, Usage, Exit, Consumed, Settled, work, effects, start, Working
  <2>2. Done' = {}
    BY <2>1, NoneDone DEF Progress
  <2> QED BY <2>1, <2>2 DEF Singles, Outputs, InHand
<1>2. CASE UNCHANGED vars
  <2>1. /\ Jobs' = Jobs /\ next' = next /\ disk' = disk /\ disk0' = disk0 /\ o' = o /\ cmd' = cmd
        /\ key' = key /\ stage' = stage /\ text' = text /\ file' = file
        /\ Done' = Done /\ Apart' = Apart
        /\ \A j : Places(j)' = Places(j) /\ FailsAlone(j)' = FailsAlone(j) /\ Alone(j)' = Alone(j)
        /\ Said(next)' = Said(next) /\ Alone(next)' = Alone(next)
    BY <1>2, Unmoved DEF vars, work, effects, start, parse
  <2>5. Outputs' = Outputs
    BY <2>1 DEF Outputs, At
  <2>6. /\ (o.dialplan => At(disk0, Dialplan) # Absent)' = (o.dialplan => At(disk0, Dialplan) # Absent)
        /\ Flattened(Said(next), disk0)' = Flattened(Said(next), disk0)
        /\ Provided(Said(next), disk0)' = Provided(Said(next), disk0)
    BY <2>1 DEF At, Flattened, Sealed, Provided, HasMap, HasCert, Readable, Filled
  <2>7. InHand' = InHand
    BY <2>1, <2>6 DEF InHand
  <2> QED BY <2>1, <2>5, <2>7 DEF Singles
<1>3. ASSUME AfterOptions, Apart' PROVE Outputs' /\ InHand'
  <2>1. Apart /\ Outputs /\ InHand /\ Jobs' = Jobs /\ Named' = Named
    BY <1>3, Fixed DEF Singles
  <2>2. InHand'
    BY <1>3, <2>1, InHandStep
  <2>3. CASE KeyFile
    <3>1. next' = 1
      BY <2>3 DEF KeyFile, Progress, work
    <3>2. Done' = {}
      BY <3>1, NoneDone
    <3> QED BY <2>2, <3>2 DEF Outputs
  <2>4. CASE Write
    BY <2>1, <2>2, <2>4, OutputsWrite
  <2>5. CASE SkipShort
    <3>1. Out = NoWord /\ next' = next + 1 /\ disk' = disk /\ ~KeyFile
      BY <2>5 DEF SkipShort, effects, KeyFile, Looping
    <3>2. \A j : Places(j)' = Places(j) /\ FailsAlone(j)' = FailsAlone(j) /\ Alone(j)' = Alone(j)
      BY <1>3, <3>1, Fixed
    <3>3. Done' \subseteq Done
      BY <2>1, <3>1, JobsNumbered DEF Done, Progress, Out
    <3> QED BY <2>1, <2>2, <3>1, <3>2, <3>3 DEF Outputs, At
  <2>6. CASE ~(KeyFile \/ Write \/ SkipShort)
    <3>1. next' = next
      BY <1>3, <2>6
         DEF AfterOptions, Ready, Usage, EncodeStep, RefuseSameName,
             CannotRead, Read, CannotScan, NotParsed, NoSettings, NotProvided, Assemble, SealingStops,
             NoDialplan, Extend, PrintFails, ListingStops, ListAndWrite, WriteFails, EndLoop,
             CannotDecode, DecodeFile, Fail, Goto, work
    <3> QED BY <1>3, <2>1, <2>2, <2>6, <3>1, OutputsStay
  <2> QED BY <2>3, <2>4, <2>5, <2>6
<1> QED BY <1>1, <1>2, <1>3 DEF Next, AfterOptions, Singles

\* A batch of inputs that do not meet on the file system is as many single
\* runs: each output is what its input alone makes of the file system at the
\* start, whatever stands in the batch before it.
THEOREM ABatchIsSingles == Spec => []BatchIsSingles
<1>1. Singles => BatchIsSingles
  BY DEF Singles, Outputs, BatchIsSingles
<1> QED BY <1>1, BaseInit, BaseStep, ProgressInit, ProgressStep, HeardInit, HeardStep,
           WrittenInit, WrittenStep, SinglesInit, SinglesStep, PTL DEF Spec

\* The step that ends the program leaves its output cut short.
Ruined == IF status' = 101 \/ Out = Dash
          THEN stdout' = Append(stdout, "part")
          ELSE At(disk', Out) = Broken

\* An exit from the middle of an encoding: the input at next fails alone.
LEMMA FailuresAreItsOwn ==
  ASSUME Base, Progress, Heard, Written, Apart, InHand, EncodeStep, stage' = "ended"
  PROVE  /\ next \in Named /\ next' = next /\ status' # 0
         /\ FailsAlone(next) \/ Unsure(next) \/ Ruined
<1> DEFINE t == Said(next)
<1>1. /\ status = Running /\ AfterOptions /\ next' = next /\ status' # 0
  <2>1. AfterOptions
    BY DEF AfterOptions
  <2>2. next' = next /\ status' # 0
    BY Statuses
       DEF EncodeStep, RefuseSameName, CannotRead, Read, CannotScan, NotParsed, NoSettings, NotProvided,
           Assemble, SealingStops, NoDialplan, Extend, PrintFails, ListingStops, ListAndWrite, Write,
           WriteFails, Fail, Goto, Exit, work
  <2> QED BY <2>1, <2>2, StepWrites
<1>2. next \in Named
  <2>1. CASE Looping
    <3>1. stage = "loop" /\ next <= Len(Jobs) /\ Out # NoWord
      <4>1. RefuseSameName \/ CannotRead \/ Read
        BY <2>1 DEF Looping, EncodeStep, CannotScan, NotParsed, NoSettings, NotProvided,
             Assemble, Parses, SealingStops, NoDialplan, Extend, PrintFails, Printing,
             ListingStops, ListAndWrite, Write, WriteFails
      <4> QED BY <2>1, <4>1 DEF Looping, RefuseSameName, CannotRead, Read
    <3>2. Len(Jobs) \in Nat /\ DOMAIN Jobs = 1..Len(Jobs)
      BY <3>1, JobsCounted
    <3> QED BY <3>1, <3>2 DEF Progress, Named, Out
  <2>2. CASE ~Looping
    <3>1. stage \in Working
      BY <2>2 DEF EncodeStep, RefuseSameName, CannotRead, Read, CannotScan, NotParsed,
           NoSettings, NotProvided, Assemble, Parses, SealingStops, NoDialplan, Extend,
           PrintFails, Printing, ListingStops, ListAndWrite, Write, WriteFails, Working
    <3> QED BY <3>1 DEF Progress, Named, Out
  <2> QED BY <2>1, <2>2
<1>3. \A w : PlaceOf(w) \in Needs(next) => At(disk, w) = At(disk0, w)
  BY <1>1, <1>2, NeedsUntouched
<1>4. stage = "loop" => Input = t
  <2> SUFFICES ASSUME stage = "loop" PROVE Input = t
    OBVIOUS
  <2>1. CASE In = Dash
    <3>1. DashRead <=> \E k \in Named : k < next /\ Jobs[k].in = Dash
      BY DEF DashRead, Working
    <3> QED BY <2>1, <3>1 DEF Heard, Input, Said, In
  <2>2. CASE In # Dash
    <3>1. PlaceOf(In) \in Needs(next)
      BY <2>2 DEF Needs, In
    <3> QED BY <1>3, <2>2, <3>1 DEF Input, Said, In
  <2> QED BY <2>1, <2>2
<1>5. o.dialplan => At(disk, Dialplan) = At(disk0, Dialplan)
  BY <1>3 DEF Needs
<1>6. t.kind = "text" => (Provided(t, disk) <=> Provided(t, disk0))
  <2>1. t.kind = "text" => /\ HasMap(t) => At(disk, t.map) = At(disk0, t.map)
                           /\ HasCert(t) => At(disk, t.cert) = At(disk0, t.cert)
    BY <1>3 DEF Needs
  <2> QED BY <2>1 DEF Provided
<1>7. CASE RefuseSameName
  BY <1>1, <1>2, <1>7 DEF RefuseSameName, SameName, FailsAlone, In, Out
<1>8. CASE CannotRead
  BY <1>1, <1>2, <1>4, <1>8 DEF CannotRead, Looping, FailsAlone, Absent
<1>9. CASE CannotScan \/ NotParsed \/ NoSettings
  <2>1. text = t
    BY <1>9 DEF CannotScan, NotParsed, NoSettings, InHand, Working
  <2>2. t.kind # "text" \/ t.fate # "sound"
    BY <1>9, <2>1 DEF CannotScan, NotParsed, NoSettings, IsText
  <2> QED BY <1>1, <1>2, <2>2 DEF FailsAlone, In
<1>10. CASE NotProvided
  <2>1. text = t /\ t.kind = "text" /\ ~Provided(t, disk)
    BY <1>10 DEF NotProvided, InHand, Working, IsText
  <2> QED BY <1>1, <1>2, <1>6, <2>1 DEF FailsAlone
<1>11. CASE SealingStops
  <2>1. file = Flattened(t, disk0) /\ file.fate = "stops"
    BY <1>11 DEF SealingStops, InHand, Working
  <2>2. t.fate # "sound"
    BY <2>1 DEF Flattened
  <2> QED BY <1>1, <1>2, <2>2 DEF FailsAlone, In
<1>12. CASE NoDialplan
  BY <1>1, <1>2, <1>5, <1>12 DEF NoDialplan, FailsAlone
<1>13. CASE ListingStops
  <2>1. file = Alone(next) /\ Stops(file)
    BY <1>13 DEF ListingStops, InHand, Working
  <2>2. Alone(next).fate = t.fate /\ Alone(next).mta = t.mta
        /\ Alone(next).plan = IF o.dialplan THEN At(disk0, Dialplan) ELSE Absent
    BY DEF Alone, Extended, Flattened
  <2>3. CASE t.fate = "stops"
    BY <1>1, <1>2, <2>3 DEF FailsAlone, In
  <2>4. CASE Misread(file)
    BY <1>1, <1>2, <2>1, <2>2, <2>4 DEF Misread, Unsure, In
  <2> QED BY <2>1, <2>2, <2>3, <2>4 DEF Stops
<1>14. CASE WriteFails
  <2>1. CASE Out = Dash
    BY <1>1, <1>2, <1>14, <2>1 DEF WriteFails, Ruined
  <2>2. CASE Out # Dash
    <3>1. /\ status' = 2 /\ Places(next) = {PlaceOf(Out)}
          /\ disk' = IF PlaceOf(Out) \in Unwritable THEN disk ELSE Put(Out, Broken)
      BY <1>14, <2>2 DEF WriteFails, Exit, Places, Out
    <3>2. CASE PlaceOf(Out) \in Unwritable
      BY <1>1, <1>2, <3>1, <3>2 DEF FailsAlone
    <3>3. CASE PlaceOf(Out) \notin Unwritable
      BY <1>1, <1>2, <2>2, <3>1, <3>3, PutGrows DEF Ruined
    <3> QED BY <3>2, <3>3
  <2> QED BY <2>1, <2>2
<1>16. CASE PrintFails
  BY <1>1, <1>2, <1>16 DEF PrintFails, Exit, Ruined
<1>15. CASE Read \/ Assemble \/ Extend \/ ListAndWrite \/ Write
  BY <1>15 DEF Read, Assemble, Extend, ListAndWrite, Write, Goto
<1> QED BY <1>1, <1>2, <1>7, <1>8, <1>9, <1>10, <1>11, <1>12, <1>13, <1>14, <1>15, <1>16
    DEF EncodeStep

\* What is printed is printed behind what was.
Printed == stdout \in Seq({"stamp", "listing", "file", "lost", "part"})

\* Nothing is printed yet.
LEMMA PrintedInit == Init => Printed
  BY DEF Init, Printed

\* A step prints one thing at most.
LEMMA PrintedStep == Printed /\ [Next]_vars => Printed'
<1> SUFFICES ASSUME Printed, [Next]_vars PROVE Printed'
  OBVIOUS
<1> USE DEF Printed
<1>1. stdout' = stdout \/ stdout' = <<"stamp">> \/ stdout' = <<"part">>
        \/ \E p \in {"listing", "file", "lost", "part"} : stdout' = Append(stdout, p)
  <2>1. CASE ShowVersion \/ KeyFile \/ Ready \/ SkipShort \/ EndLoop \/ CannotDecode \/ UNCHANGED vars
    BY <2>1 DEF ShowVersion, KeyFile, Ready, SkipShort, EndLoop, CannotDecode, Usage, Fail,
                effects, vars
  <2>2. CASE TakeOption
    BY <2>2 DEF TakeOption, NoWordsLeft, TakeFlag, TakeMibs, TakeHash, TakeDialplan, TakeDecode,
                TakeEncode, TakeMulti, TakeMta, TakeInput, Usage, Consumed, Settled, effects
  <2>3. CASE DecodeFile
    BY <2>3 DEF DecodeFile
  <2>4. CASE PrintFails \/ ListingStops \/ ListAndWrite \/ Write \/ WriteFails
    BY <2>4 DEF PrintFails, ListingStops, ListAndWrite, Write, WriteFails
  <2>5. CASE RefuseSameName \/ CannotRead \/ Read \/ CannotScan \/ NotParsed \/ NoSettings
               \/ NotProvided \/ Assemble \/ SealingStops \/ NoDialplan \/ Extend
    BY <2>5 DEF RefuseSameName, CannotRead, Read, CannotScan, NotParsed, NoSettings,
                NotProvided, Assemble, SealingStops, NoDialplan, Extend, Fail, effects
  <2> QED BY <2>1, <2>2, <2>3, <2>4, <2>5 DEF Next, EncodeStep
<1>2. CASE stdout' \in {stdout, <<"stamp">>, <<"part">>}
  <2> DEFINE S == {"stamp", "listing", "file", "lost", "part"}
  <2>1. "stamp" \in S /\ "part" \in S
    OBVIOUS
  <2> HIDE DEF S
  <2>2. <<"stamp">> \in Seq(S) /\ <<"part">> \in Seq(S)
    BY <2>1
  <2>3. stdout' \in Seq(S)
    BY <1>2, <2>2 DEF S
  <2> QED BY <2>3 DEF S
<1>3. CASE \E p \in {"listing", "file", "lost", "part"} : stdout' = Append(stdout, p)
  BY <1>3, AppendProperties
<1> QED BY <1>1, <1>2, <1>3

\* While the program runs there is no status to tell.
LEMMA StatusInit == Init => StatusTellsAll
  BY DEF Init, StatusTellsAll

\* The step that ends the program says what came of the batch.
LEMMA StatusStep ==
  Base /\ Progress /\ Heard /\ Written /\ Singles /\ Printed /\ StatusTellsAll /\ [Next]_vars
    => StatusTellsAll'
<1> SUFFICES ASSUME Base, Progress, Heard, Written, Singles, Printed, StatusTellsAll,
                    [Next]_vars
             PROVE  StatusTellsAll'
  OBVIOUS
<1>1. CASE ShowVersion
  <2>1. VersionAsked'
    BY <1>1 DEF ShowVersion, VersionAsked, parse
  <2> QED BY <2>1 DEF StatusTellsAll
<1>2. CASE TakeOption
  <2>1. stage' # "ended" \/ status' = UsageCode
    BY <1>2 DEF TakeOption, NoWordsLeft, TakeFlag, TakeMibs, TakeHash,
                TakeDialplan, TakeDecode, TakeEncode, TakeMulti, TakeMta, TakeInput,
                Options, Usage, Exit, Consumed, Settled, Base, Control
  <2> QED BY <2>1 DEF StatusTellsAll
<1>3. CASE UNCHANGED vars
  <2>1. /\ stage' = stage /\ status' = status /\ cmd' = cmd /\ next' = next
        /\ Named' = Named /\ Done' = Done /\ Apart' = Apart
        /\ \A j : FailsAlone(j)' = FailsAlone(j)
        /\ FailsAlone(next)' = FailsAlone(next) /\ Unsure(next)' = Unsure(next)
    BY <1>3, Unmoved DEF vars, work, parse
  <2>2. /\ VersionAsked' = VersionAsked /\ KeyMissing' = KeyMissing
        /\ CutShort' = CutShort
    BY <1>3, <2>1, Unmoved DEF vars, work, effects, start, parse, VersionAsked, KeyMissing, CutShort, At
  <2> QED BY <2>1, <2>2 DEF StatusTellsAll
<1>4. CASE AfterOptions
  <2> SUFFICES ASSUME Apart', stage' = "ended", status' # UsageCode, (~VersionAsked)',
                      (~cmd.decode)', (~KeyMissing)'
               PROVE  (IF status = 0 THEN Done = Named /\ \A j \in Named : ~FailsAlone(j)
                       ELSE /\ next \in Named
                            /\ FailsAlone(next) \/ Unsure(next) \/ CutShort)'
    BY DEF StatusTellsAll
  <2>1. /\ Jobs' = Jobs /\ Named' = Named /\ Apart /\ cmd' = cmd /\ o' = o
        /\ disk0' = disk0 /\ stdin0' = stdin0 /\ ~cmd.decode /\ ~KeyMissing
        /\ \A j : FailsAlone(j)' = FailsAlone(j)
    <3>1. cmd' = cmd /\ o' = o /\ disk0' = disk0 /\ stdin0' = stdin0
      BY <1>4, BaseAfter
    <3>2. Jobs' = Jobs /\ Named' = Named /\ Apart' = Apart
      BY <1>4, Fixed
    <3>3. \A j : FailsAlone(j)' = FailsAlone(j)
      BY <1>4, Fixed
    <3>4. ~cmd.decode /\ ~KeyMissing /\ Apart
      BY <3>1, <3>2 DEF KeyMissing, At
    <3> QED BY <3>1, <3>2, <3>3, <3>4
  <2>2. Outputs /\ InHand
    BY <2>1 DEF Singles
  <2>3. CASE EncodeStep
    <3>1. /\ next \in Named /\ next' = next /\ status' # 0
          /\ FailsAlone(next) \/ Unsure(next) \/ Ruined
      BY <2>1, <2>2, <2>3, FailuresAreItsOwn
    <3>2. Said(next)' = Said(next)
      BY <2>1, <3>1 DEF Said, At
    <3>3. FailsAlone(next)' = FailsAlone(next) /\ Unsure(next)' = Unsure(next)
      BY <2>1, <3>1, <3>2
         DEF FailsAlone, Unsure, Places, At, Provided, HasMap, HasCert, Readable, Filled
    <3>4. Ruined => CutShort'
      <4>1. stdout' = Append(stdout, "part") => stdout' # <<>> /\ stdout'[Len(stdout')] = "part"
        <5>1. Len(stdout) \in Nat /\ DOMAIN stdout = 1..Len(stdout)
          BY DEF Printed
        <5> QED BY <5>1 DEF Printed
      <4> QED BY <2>1, <3>1, <4>1 DEF Ruined, CutShort, Out
    <3> QED BY <2>1, <3>1, <3>3, <3>4
  <2>4. CASE EndLoop
    <3>1. stage = "loop" /\ next > Len(Jobs) /\ next' = next /\ status' = 0
      BY <2>4 DEF EndLoop, Exit, work
    <3>2. Len(Jobs) \in Nat /\ DOMAIN Jobs = 1..Len(Jobs)
      BY <3>1, JobsCounted
    <3>3. Done = Named
      BY <3>1, <3>2 DEF Done, Named, Progress
    <3>4. Done' = Named' /\ \A j \in Named' : ~FailsAlone(j)'
      BY <2>1, <2>2, <3>1, <3>3 DEF Done, Outputs
    <3> QED BY <3>1, <3>4
  <2>5. CASE KeyFile
    <3>1. cmd.docsis /\ At(disk, cmd.key) = Absent /\ disk = disk0
      BY <2>5 DEF KeyFile, Exit, Progress, Base, Control
    <3> QED BY <2>1, <3>1 DEF KeyMissing
  <2>6. CASE Ready \/ SkipShort \/ CannotDecode \/ DecodeFile
    BY <2>1, <2>6 DEF Ready, Usage, Exit, SkipShort, Goto, CannotDecode, DecodeFile
  <2> QED BY <1>4, <2>3, <2>4, <2>5, <2>6 DEF AfterOptions
<1> QED BY <1>1, <1>2, <1>3, <1>4 DEF Next, AfterOptions

\* Status 0 says that every input that could be renamed has been encoded;
\* another, that the one the batch stopped at cannot be encoded by itself, or
\* that writing it failed.
THEOREM TheStatusTellsAll == Spec => []StatusTellsAll
  BY BaseInit, BaseStep, ProgressInit, ProgressStep, HeardInit, HeardStep,
     WrittenInit, WrittenStep, SinglesInit, SinglesStep, PrintedInit, PrintedStep,
     StatusInit, StatusStep, PTL DEF Spec
=============================================================================
