------------------------------ MODULE MCBatch ------------------------------
(***************************************************************************)
(* Command lines for Batch: every short mix of options and names, and the  *)
(* batches of two and three inputs that meet on the file system in every   *)
(* way: equal outputs, an input that is another's output, two names of one *)
(* file, a text that names dialplan_output.txt.  Standard input is read    *)
(* once, twice or not at all; a file named "-" is not standard input.      *)
(***************************************************************************)
EXTENDS Batch, SequencesExt

A      == Word("a", ".cfg")
B      == Word("b", ".cfg")
AText  == Word("a", ".txt")
ABin   == Word("a", ".bin")
DotA   == Word("./a", ".cfg")      \* another name of a.cfg
C      == Word("c", "")            \* no extension to replace
Map    == Word("map", ".txt")
Cert   == Word("cert", ".der")
Secret == Word("key", "")
Bin    == Word("", ".bin")
Cfg    == Word("", ".cfg")

MCPlaceOf(w) == IF w = DotA THEN A
                ELSE IF w = Word("./a", ".bin") THEN ABin ELSE w
ReadOnly == {Word("b", ".bin")}

Sound(id)     == Text(id, "sound", FALSE, NoWord, NoWord)
SoundMta(id)  == Text(id, "sound", TRUE, NoWord, NoWord)
Mapped(id)    == Text(id, "sound", TRUE, Map, NoWord)
Listed(id)    == Text(id, "sound", FALSE, PlanFile, NoWord)
Certified(id, w) == Text(id, "sound", FALSE, NoWord, w)
Bad(id, fate) == Text(id, fate, FALSE, NoWord, NoWord)

Inputs(id) == {Sound(id), SoundMta(id), Mapped(id), Listed(id), Certified(id, Cert), Certified(id, ABin), Absent}
                \cup {Bad(id, f) : f \in {"unscannable", "refused", "empty", "stops"}}

Existing(d) == [p \in {w \in DOMAIN d : d[w] # Absent} |-> d[p]]

Disk(a, b, at, plan, old) ==
  Existing(A :> a @@ B :> b @@ AText :> at @@ Map :> Plan(1, FALSE) @@ Dialplan :> plan
             @@ PlanFile :> old @@ Secret :> Key(<<"k", "n", "k", "n">>) @@ Cert :> Key(<<"k">>)
             @@ Dash :> Sound(8))

Usual == Disk(Sound(1), Mapped(2), SoundMta(3), Plan(2, FALSE), Absent)

Words  == {Opt("-o"), Opt("-M"), Opt("-na"), Opt("-dialplan"), Opt("-d"), Opt("-e"),
           Opt("-m"), Opt("-p"), A, Secret, Bin}
Short  == UNION {[1..n -> Words] : n \in 0..4}
Odd    == {<<Opt("-m"), Opt("-p"), Opt("-dialplan"), A, Bin>>,
           <<Opt("-m"), Opt("-p"), Opt("-dialplan"), A, B, Bin>>,
           <<Opt("-na"), Opt("-m"), A, B, Secret, Bin>>,
           <<Opt("-m"), C, A, Secret, Bin>>, <<Opt("-e"), B, Secret, Word("out", "")>>,
           <<A, Opt("-V")>>, <<Opt("-d"), Opt("--version")>>}

\* Standard input and output; the last two read the file of that name.
Piped  == {<<Opt("-p"), Dash, Dash>>, <<Opt("-e"), Dash, Secret, Dash>>, <<Opt("-e"), Dash, Secret, ABin>>,
           <<Opt("-m"), Dash, A, Secret, Opt("")>>, <<Opt("-m"), A, Dash, B, Secret, Opt("")>>,
           <<Opt("-m"), Dash, Dash, Secret, Opt("")>>, <<Opt("-m"), Opt("-p"), Dash, A, Dash, Opt("")>>,
           <<Opt("-dialplan"), Opt("-e"), Dash, Secret, Dash>>, <<Opt("-eu"), Opt("-p"), A, Dash>>,
           <<Opt("-e"), Dash, Dash, ABin>>, <<Opt("-d"), Dash>>}
Stdins == {Sound(9), Mapped(9), Certified(9, Cert), Certified(9, ABin), Bad(9, "refused"), Bad(9, "stops"), Absent}

Inputs2 == {A, B, AText, DotA, C}
Batches == {<<Opt("-m"), x, y, Secret, e>> : x, y \in Inputs2, e \in {Bin, Cfg}}
             \cup {<<Opt("-m"), Opt("-p"), x, y, Bin>> : x, y \in Inputs2}
             \cup {<<Opt("-m"), AText, x, PlanFile, Secret, Bin>> : x \in {A, C}}
             \cup {<<Opt("-m"), A, ABin, Secret, Bin>>, <<Opt("-d"), ABin>>}

Extending == {<<Opt("-dialplan"), Opt("-m"), Opt("-p"), x, y, Bin>> : x, y \in {A, AText}}

Disks(plans) == {Disk(a, b, at, plan, old) :
                   a \in Inputs(1), b \in {Mapped(2), Listed(2), Bad(2, "stops")},
                   at \in {Listed(3), SoundMta(3)}, plan \in plans,
                   old \in {Plan(3, FALSE), Plan(3, TRUE), Absent}}

\* Files to decode: made by an encoder, and not.
Decoded == {Existing((ABin :> f) @@ Usual) :
              f \in {Absent, Plan(1, FALSE)}
                      \cup {[kind |-> "file", of |-> 1, mta |-> m, fate |-> x, inner |-> n,
                             cert |-> Absent, sealed |-> FALSE, key |-> Absent, plan |-> p,
                             hash |-> 0] :
                              m \in BOOLEAN, x \in {"sound", "stops"},
                              n, p \in {Absent, Plan(1, FALSE)}}}

\* A certificate file that is empty, or is not there.
NoCerts == {[Usual EXCEPT ![A] = Certified(1, Cert), ![Cert] = Key(<<>>)],
            [Usual EXCEPT ![A] = Certified(1, ABin), ![B] = Certified(2, Cert)]}

Cmd(argss, disks) == [args : argss, disk : disks, stdin : {Sound(9)}]
MCCommands == Cmd(Short \cup Odd, {Usual}) \cup Cmd(Batches, Disks({Absent}))
                \cup Cmd(Extending, Disks({Plan(2, FALSE), Absent}))
                \cup Cmd({<<Opt("-d"), ABin>>}, Decoded) \cup Cmd(Batches, NoCerts)
                \cup [args : Piped, disk : {Usual} \cup NoCerts, stdin : Stdins]
=============================================================================
