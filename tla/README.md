# Verification of the DOCSIS configuration file encoder and decoder

TLA+ specifications, model-checking runs and machine-checked proofs for
`gen_docsis`, a program that turns a text configuration file for a cable modem
or a PacketCable MTA into the binary file the device is provisioned with, and
turns such a binary file back into text. References to the code are to
`src/src/*.rs`; `PROJECT.json` maps each definition to the lines it models.

## 1. The system

The program is one process with one thread. A run either decodes one file (`-d`)
or encodes one or several (`-e`, `-p`, `-m`). Data flows along two chains, with
one shared structure, the tree of MIB objects, and one file on the side, the
dial plan:

    text --lexer--> tokens --parser--> settings tree --flatten, MICs--> binary
                               |   value encoders, encode_vbind
                               v
                           MIB tree  <--install-- MIB parser <-- MIB files
                               ^
                               |   value decoders, decode_vbind
    text <---------------- decoder <-------------------------------- binary
                               |
                               +--> dialplan_output.txt --> parser (next run)

The encoder itself calls the decoder twice, to list the settings selected for the
CMTS MIC and the finished file, before it writes anything.

| Component | State | Operations | What makes it correct |
|---|---|---|---|
| Encoding pipeline, `main.rs` | the output buffer, the suspended calls of `flatten`, the read position of the CMTS MIC walk | `flatten`, `add_cm_mic`, `add_cmts_mic`, `add_eod_and_pad`, `add_dialplan`, `add_mta_hash`, write | the file is the tree's settings in order; each MIC and hash covers what it says; every length states what follows |
| Decoder, `decode.rs` | position, suspended calls, `is_mta`, `vspecific`, output text | `decode_main_aggregate`, `decode_aggregate`, one decoder for each kind of value | ends on every input; foreign vendor blocks stay opaque and nothing else does; its text encodes to the same bytes |
| Config file lexer, `lexer.rs` | position, line | longest match over 17 patterns, strings, comments, keywords | a printed value is the token it was printed from |
| Config file parser, `parser.rs` | token position, the tree under construction | statements, SNMP settings, generic settings, dial plan and certificate files | the tree is what the text says; each error ends the run |
| Value encoders, `encode.rs`; decoders, `decode.rs` 222-388; `ethermac.rs`, `value.rs` | none | one function for each kind of value | inverse to each other within the accepted range |
| Symbol table, `symbol.rs`, `symtable.rs` | a constant table | by name, by code and parent | the first row wins |
| SNMP settings, `snmp.rs`, BER, `asn1.rs` | none | build and parse of lengths, integers, identifiers and bindings | a setting survives encoding and decoding; headers state what follows |
| Object names, `mib/render.rs`, `mib/oidstr.rs` | the text printed so far, the arcs read so far | `sprint_objid`, `resolve_oid` | an identifier printed and read is the same identifier |
| MIB tree, `mib/mod.rs`, `mib/resolve.rs` | nodes, `by_label`, definitions not placed yet | `install`, `place`, `attach`, `ensure_child` | one node for each identifier, no definition lost, first come first served |
| MIB lexer and parser, `mib/lexer.rs`, `mib/parse.rs`, `resolve_syntax` | token position | macro and clause reading, chains of types | tolerant of what it does not know |
| Command line and batch loop, `main.rs` 88-288, `replace_extension` | options, the list of inputs | option loop, key file, one encoding after another | the right files are written, and a failure is reported |

What is hard here is not concurrency, of which there is none. It is

- lengths in five forms, each chosen by a test of its own, that another function
  reads back;
- two readings of TLV 64, and a decoder whose reading of it depends on what it
  saw before (`is_mta`, `vspecific`);
- a buffer that is extended in stages, each over what the one before left, with
  three bytes cut off and put back;
- MIB definitions that come in any order and refer to each other, so that a
  structure is built in passes with failures in the middle;
- a printer and a reader of names that share no code, and a scanner between them;
- early ends: exits, a panic and errors between a file's listing and its writing.

`PROJECT.json` lists these as hazards, each with its line and the property that
would notice it going wrong, or the reason why none does.

## 2. Modules

| Module | Models | Extends |
|---|---|---|
| `Wire` | codes, byte strings, the settings tree, and how the scanner reads a quoted string | |
| `ConfigFile` | what making a file promises: the abstract specification of `Encode` | `Wire` |
| `Encode` | `encode_one_file` from the parsed tree on | `Wire`, instance of `ConfigFile` |
| `EncodeContract` | what an encoded file is, what its MIC and its hash cover and where its lengths lead, stated without following the program | `Encode` |
| `Decode` | the decoder's control and the statements it prints | `Wire` |
| `RoundTrip` | encode, decode, parse, encode again | `EncodeContract`, instance of `Decode` |
| `Batch` | `main`: options, key file, one input or many, over a file system | |
| `Parse` | the parser, from tokens to the settings tree | `Wire` |
| `ParseContract` | the grammar and the tree, stated over the whole text | `Parse` |
| `SymTable` | the 1571 rows of the symbol table | |
| `Keywords` | the two lookups, and a setting from its keyword to its code and back | |
| `Values` | a value from text to bytes to text to bytes, for every encoding | `Wire` |
| `MibModule` | search path, module parser, chains of types | |
| `MibInstall` | installing MIB definitions | |
| `MibTree` | an installed tree, text as atoms, and which texts are one object identifier token | |
| `Render` | `sprint_objid` | `MibTree` |
| `OidStr` | `resolve_oid` | `Render` |
| `Names` | printing, checking, falling back, reading | `OidStr` |
| `Ber` | `asn1.rs` as operators on bytes | `Wire` |
| `Varbind` | an SNMP setting from text to bytes to text to bytes | `Ber` |
| `ProofLemmas` | sequences, concatenations, parts of one length, quoted strings: what the proofs share | `Wire` |
| `EncodeProofs` | theorems about `Encode` and `EncodeContract` | `EncodeContract` |
| `ParseProofs` | theorems about `Parse` and `ParseContract` | `ParseContract` |
| `DecodeProofs`, `BatchProofs`, `MibInstallProofs`, `ValuesProofs`, `VarbindProofs` | theorems about the module of that name | that module |
| `MCEncode`, `MCDecode`, `MCRoundTrip`, `MCMibInstall`, `MCNames`, `MCVarbind`, `MCBatch`, `MCParse`, `MCKeywords`, `MCValues`, `MCMibModule` | instances for TLC | the module of that name, or its contract |

The modules overlap where the code's parts meet, and each takes the others' results
as constants: `Batch` knows that encoding may fail or write, `Encode` how the bytes are
made; `Parse` asks for the bytes of a value, `Values`, `Varbind` and `Names` say what they
are; `Keywords` follows a keyword, `Decode` and `RoundTrip` the settings around it;
`MibModule` reads definitions, `MibInstall` places them, `Names` uses the tree.

Some definitions stand beside a variant whose comment begins "A slip". The
variants are plausible mistakes (a dropped guard, an off-by-one, a missing reset)
that no specification uses: each is there to confirm that a property fails when
the definition is replaced by it. `PROJECT.json` pairs them under "mutants".

### How the models correspond to the code

**Recursion** is an explicit stack of suspended calls, so that a step is one
setting (`flatten`, `decode_aggregate`), one arc (`get_symbol`), one index
(`format_indexes`, `add_strings_to_oid`) or one component of an identifier
(`place`), and the invariants hold in the middle of the call as well.

**Encode.** `todo` is what the running call of `flatten` has left, `out` its
output, `stack` its callers. The six actions of `flatten` are its branches: a leaf
that fits, an oversized SnmpMibObject in the long form, another oversized leaf
(dropped with a warning), a block entered, a block that fits, a block that does
not. `AddCmMic`, `Walk*`, `AddCmtsMic` and `AddEodAndPad` follow, with one step
for each iteration of the walk, the early end on a truncated header included;
then `AddDialplan` and `AddMtaHash` with every length they compute.
`spans` is a ghost: where in `out` each setting lies. Digests are uninterpreted
functions of the message, constants of the module, so that equal digests are only
derived from equal messages. The decoder that lists the file is a predicate on
bytes, `ListingStops`: may it end the program? The instance says it does on an
empty TLV 25, and the theorems hold for every such predicate.

**ConfigFile** is the promise that a caller of the encoder relies on: settings are taken
in order, each written whole or left out; a seal or the end marker is only ever added
behind what is there; an extension replaces a terminator and nothing else; a file is
published when it is complete. `Encode` implements it with `Config`, an instance whose
variables are read off the encoder's: `FileSoFar` is the output of the outermost call
of `flatten`, `Taken` how many settings of the tree it has dealt with (the one that it is
inside of not included) and `Phase` the stage. All steps inside blocks are stutters,
and the one that closes an outermost block writes it whole. The walk, the listing and a
warning are stutters too.

**Decode.** `cur` is the running call with its buffer, position, symbol id and
text; each action reads one setting and is a branch of the dispatch: unknown (or
made opaque by `vspecific`), comment, value, exit on a length, panic, vendor
identifier, block, hash, dial plan, MIB object. Reads past the end give zero as
`byte_at` does. A statement keeps what the parser will get from it and drops
how it is worded. The symbol table is a constant; the instances hold a cut of
`symtable.rs` with its ids, codes and parents that has each kind of row.

**RoundTrip** runs `Encode`, then `Decode` on the file, then reads the statements
as the scanner and the parser do (`Accepted`, `Parsed`: quoting, the three shapes
of a generic setting, a dial plan read from `dialplan_output.txt`), then `Encode`
again. `Faithful` is the list of everything the two directions are known to
disagree on; section 5 explains each of its parts.

**MibInstall.** `pending` and `deferred` are the two lists of the loop in
`install`; `idx` and `cur` are the loop of `place`. `EnsureChild` takes an optional
second name, which stands for the second call of `ensure_child` for the last
component. Children are nodes with that parent, in the order they were made.
`placed` and `pass` are ghosts. A definition comes with its syntax resolved.

**Names.** A text is a sequence of whole words, whole numbers and single
characters, so that splitting at dots and quoting are exact while spelling is
left out. `Render` is `get_symbol`, `format_indexes` with all its kinds of index,
and the cut that makes a suffix; `OidStr` is `get_node`, `read_objid` and
`add_strings_to_oid`; `MibTree` holds the scanner's patterns for identifiers.
`Names` composes them as `decode_vbind` does: print by name, read it back, print
the full path if that fails; then the encoder scans and reads the text. `marks`
is a ghost that records what was printed in a way that is known to be lossy.

**Batch.** The command line is a sequence of words, each a name with its extension,
an option or `-`; `i` is the index of the option loop. One action is one option; the order
of the arms is the order in `main`, so that `-e`, `-p` and `-m` end the loop. Then the key is read and one
action is one step of `encode_one_file` for the input `next`: rename, the test of the two names, read,
parse, flatten, seal, extend, list, write. The file system is a function from places
to contents, and `PlaceOf` says which names are one place. A text has a fate (sound, unscannable, refused,
empty, or stopping the listing); a file remembers its text, whether it
was sealed and with which key, and the dial plans, the certificate and the hash in it. Thus equal contents stand
for equal bytes. A write may leave `Broken` behind, as `std::fs::write` does when the
disk is full. `stdin` is what standard input still holds: the first `-` reads it to its end, and the next one
finds a text without Main (`Nothing`). `-` means this for inputs and outputs of an encoding only; for a key file and
behind `-d` it is the name of a file. `stdout` is what was printed: a listing, the version stamp, a binary file, or a
`"part"` of one of these when a write failed. A failing `println!` is a panic, with status 101; a failing write of the
file to standard output is status 2; but `write_stdout`, which prints the listing, and the last `flush` ignore their errors,
so that a file may be `"lost"` at status 0.

**Parse.** A token has a kind and what it holds; `open` is the stack of `assignment_list`, `generic_statement`
and `parse`. One action reads a statement, the head of a block, or its end, and its guard is the
sequence of kinds that the code expects, token by token (`Reads`). Anything else is `Stop`,
which is `error` with its exit. `ParseContract` states the grammar by cutting the text at every `{`, `}` and
`;`, without a parser.

**Keywords and SymTable.** `SymTable` lists every row with its id, code, parent, encoder, decoder and
limits; blocks that occur several times, alike row for row, are written once. `Keywords` enters
blocks and sets one setting: `Written` is the row that the encoder finds by name,
`Printed` the one that the decoder finds by code and parent, and `ReadBack` what the printed
keyword means to the encoder.

**Values.** A text is a form (what kind of token the scanner makes of it) and its items; `Token` is the
scanner's decision, with the widths of its patterns; `Encoded` is `encode` with each encoder's tests and
exits; `Listed` is `dispatch` with each decoder's; `Lengths` are the lengths a decoder lists rather
than skips. A number is its four low bytes and `top`, what is above them. Addresses
are bytes, and `Mapped` ones are printed with a dotted end.

**MibModule.** A file is tokens (words, numbers, strings, marks). An action is one directory, one file or one
construct, and moves `i` as far as the code moves its position. `disk` gives a directory's files as a set: the
order of `read_dir` is nobody's promise, and the code sorts. `Resolve` follows names to `TypeDepth`. Each clause of an instance
carries the definitions and types that it makes, written down by hand in `MCMibModule`.

**Ber and Varbind.** Bytes are numbers below 256 and an `i64` is its eight bytes,
so no width is lost. `Varbind` follows one setting around the circle: `Encode` is
`encode_vbind` (or `encode_snmp_oid`), `Decode` is `decode_vbind` with the parser's
reading of the type and value that it printed. A string whose characters can all be printed goes through the scanner
(`ReadString`), which ends it at the first quote, turns a backslash into a space and refuses more than `MaxString`
characters; any other goes through hexadecimal digits.

## 3. Runs

All runs finish in under two minutes with two workers. Every action of every
specification occurs in some passing run.

| Run | Expected | Distinct states | Properties |
|---|---|---|---|
| `MCEncode` | pass | 28 000 | `TypeOK` `WalkOnSettings` `NoLongFormInBlocks` `CmtsMicCoversPlain` `FileShape` `ExtensionsParse` `HashCoversFile` `Terminates` `MakesConfigFile` |
| `MCDecode` | pass | 11 000 | `TypeOK` `VendorScope` `DecodeTerminates` |
| `MCRoundTrip` | pass | 234 000 | `FaithfulReencodes` |
| `MCMibInstall` | pass | 213 000 | `TypeOK` `TreeSound` `NoDefLost` `FirstAttachedSticks` `LeadingNamesSuffice` `Terminates` |
| `MCNames` | pass | 429 000 | `NeverMisread` `LegibleResolves` |
| `MCVarbind` | pass | 153 000 | `SettingSurvives` `FramesExact` |
| `MCBatch` | pass | 262 000 | `BatchIsSingles` `StatusTellsAll` `FailureLeavesNothing` `TrailingWordsApart` |
| `MCKeywords` | pass | 1 600 | `KeepsSetting` `ReadableListing` `KeepsLimits` |
| `MCValues` | pass | 214 000 | `ListsWhatWasSaid` `SurvivesExactly` `Settles` |
| `MCParse` | pass | 105 000 | `ReadsTheGrammar` `TreeIsText` `CertificateWhole` |
| `MCMibModule` | pass | 74 000 | `ReadsWhatIsWritten` `DamageStaysLocal` `TypesFollowed` `Terminates` |
| `MCRoundTripLong` | violation | | `DecodedReencodes` |

The type invariants of `Encode`, `Decode` and `MibInstall` are run, as their proofs or their
other properties rest on them, and are proved as well. Those of the other modules say what values
their variables take; that of `Varbind` is proved (`Typed`), and the proofs about `Batch` and `Values` have invariants
of their own that say as much as they need (`Base`). Further configurations are described in section 5.

**MCEncode.** For trees of every shape the size limits tell apart, a file is its
body (the tree's own recursive encoding, without what is too large), the two
MICs, the marker and the padding; the walk reads a header only where one was
written and selects exactly the listed settings in the listed order; a dial plan
and a hash added to an MTA file leave a file that reads to its terminator.
Bounds: up to three settings of sixteen kinds (five in one tree), nested two deep, with
values of 0, 1, 253 to 256 and 258 bytes: each side of the limit of 255 for a
leaf, for a block and for a block in a block. Dial plans of 0, 1, 105, 106, 127,
128, 255, 256 and 600 bytes are each side of every test in `add_dialplan`. Longer
trees repeat these cases, as `flatten` and the walk look at one setting at a time.

**MCDecode.** Every byte string of up to three bytes over an alphabet of ten bytes
that hold each kind of code and length, and vendor blocks with nested vendor
blocks, truncated long forms, hashes and dial plans. The position and the flags
are all that one setting passes on to the next, and the longer files combine them.

**MCRoundTrip.** Modem trees of up to three settings and MTA trees of up to five with
options, dial plans of eight sizes in the tree and five in `dialplan.txt`, around
each header's change of form, with and without `-nohash`.

**MCMibInstall.** Every ordered selection of up to four definitions out of twelve, which are
chosen so that two claim one identifier, two identifiers share a name, one is
reached by name and by number, one names its path, one has a bare name behind a
number, one is empty, one has a parent nobody defines. The longest
chain, read backwards, takes four passes, each with failures before its success.

**MCNames.** Every list of one index out of fourteen kinds and of two out of twenty-four pairs,
identifiers with up to three index arcs and with the characters that quoting,
scanning and splitting treat specially, unnamed nodes, shared names, an augmented
row, and columns the row does not have.

**MCVarbind.** Words of four bytes out of {0, 1, 127, 128, 255}, which decide every
test on signs and leading bytes; strings at each length around a change of header and around the scanner's limit, and
every string of up to three bytes out of a letter, a quote, a backslash and a tab;
arcs at each power of 128, and the greatest second arc, whose sum with the first one's
share wraps. `MaxArc` is 2^31 - 1, TLC's largest integer, in place of
2^32 - 1; the proofs are about either. `Rounds` bounds one setting to three encodings: the first file and two
re-encodings of it.

**MCBatch.** Every command line of up to four words out of eleven on one file system, so that every
option stands in front of, between and behind others, with too few words behind it as well; and batches of two
inputs out of five names (two of them one file, one without an extension, two that differ in their
extension only) with extensions that make outputs meet each other and other inputs, on
file systems where the inputs are of each fate, name the dial plan's output as their own
source, or do not exist. Three inputs would repeat pairs: an input meets the others through
the disk and the key only, and `Done` may be any earlier one. An unwritable file and a write that
breaks are included, as are `-` as input and as output, as input twice in a batch and among three inputs, and a certificate
file that is missing, empty or sound. What `BatchIsSingles` excludes (`Apart`) is inputs that meet; what it then shows is that
nothing else goes from one to the next but standard input, once: no flag, no buffer, no dial plan.

**MCKeywords.** The whole table: each of its rows in its block. `Narrowed` and `Widened` are the only five
keywords for which limits differ between rows of one name.

**MCValues.** Every pair of encoding and limits of the table; for each, the numbers at, one below and one above
every limit of any row and every width, with -1 and 2^32 + 1; one text of each form, lists around the
lengths at which they become another token, strings with each character that quoting and the
scanner treat specially; files of every length a decoder tells apart. `Rounds` bounds a
value to four files. `SurvivesExactly` is an equivalence: `Canonical` names, for each encoding, exactly the
bytes that listing and reading give back, so that what it leaves out is lost and what it has is not.

**MCParse.** Every statement alone, in pairs, in blocks and in blocks of blocks, refused values
included; files one token away from a sound one (left out, doubled, put in, replaced, cut off). `ChunkSize` is 2 in place of 254 and
`MaxDialplan` 6 in place of 8192: certificates of one, two and three pieces and a plan too long occur.

**MCMibModule.** Modules of up to three clauses out of twenty after each other, in which each clause ends where the
next begins in every way; every module with one token missing from an object between others; a path with a missing directory,
one listed twice, unreadable and ignored files, each way to say the path. `U32` is 64 and `TypeDepth` 2 in place
of 2^32 and 16, so that numbers wrap and chains are too long; `TcLimit` is 10 in place of 400 tokens.

**Fairness.** The liveness properties assume weak fairness of the next-state
relation as a whole. The program is one thread that calls nothing that waits, so
that it takes a step whenever it has one; no fairness of a single action is assumed.
`RoundTrip`, `Varbind`, `Names`, `Batch`, `Parse`, `Keywords` and `Values` have no liveness
property and no fairness. The programs
end, so all runs allow a final state without successor.

## 4. Proofs

Seven modules hold the theorems, an eighth (`ProofLemmas`) what they share. TLAPS checks all of them
down to the last leaf. They are about every value of the constants, from the assumptions
that the modules state and TLC evaluates in every run:

| Assumption | What the code justifies it with |
|---|---|
| `TlvsAssumption`, `RunsAssumption` (`Encode`) | settings have byte codes, byte values and children of the same kind; a run is a tree of them with options. The parser makes nothing else |
| `SymbolsAssumption`, `FilesAssumption` (`Decode`) | rows of the table have their fields, and the decoder of vendor identifiers is only used in blocks; a file is bytes |
| `LabelsAssumption`, `DefListsAssumption` (`MibInstall`) | names are not the empty one, the three roots have different names, definitions have the shape the MIB parser gives them |
| `CommandsAssumption` (`Batch`) | a command line is a sequence of words |
| `ValuesAssumption` (`Values`) | a row has one of the encodings and integer limits; a text has a form and items of that form; string rows are given strings, or a number or hexadecimal digits instead |
| `MaxArcAssumption` (`Ber`) | the greatest arc fits five groups of seven bits and is at least 80, as that of a `u32` is and does |
| `ParseAssumption` (`Parse`) | a file is a sequence of tokens, a number's token has five places, the last of them its lowest byte, a row's code is a byte, a file that is named says the same whenever it is read in one run, and the two limits are numbers |
| `VarbindAssumption` (`Varbind`) | an object has an identifier of such arcs, ranges and a display hint; a value has a type and what a config file says for that type |

Nothing is assumed of the digests, of the decoder that lists a file, of the file system, of standard input, or of which
names are one place.

| Theorem | States |
|---|---|
| `EncodeProofs!Typing` | `Spec => []TypeOK` |
| `EncodeProofs!LongFormsOutside` | `Spec => []NoLongFormInBlocks` |
| `EncodeProofs!WalkAlwaysOnSettings` | `Spec => []WalkOnSettings` |
| `EncodeProofs!MakesAConfigFile` | `Spec => MakesConfigFile`: `Encode` implements `ConfigFile` |
| `EncodeProofs!MicCovers` | `Spec => []CmtsMicCoversPlain` |
| `EncodeProofs!HashCovers` | `Spec => []HashCoversFile` |
| `EncodeProofs!ExtensionsLead` | `Spec => []ExtensionsParse` |
| `EncodeProofs!FileIsItsTree` | `Spec => []FileShape`, if settings end somewhere (`Graded`) |
| `DecodeProofs!DecodeTypes` | `Spec => []TypeOK` |
| `DecodeProofs!VendorStaysInside` | `Spec => []VendorScope` |
| `MibInstallProofs!Typing` | `Spec => []TypeOK` |
| `MibInstallProofs!TreeAlwaysSound` | `Spec => []TreeSound` |
| `MibInstallProofs!NothingLost` | `Spec => []NoDefLost` |
| `MibInstallProofs!FirstSticks` | `Spec => []FirstAttachedSticks` |
| `MibInstallProofs!NothingPlaceableLeft` | `Spec => []LeadingNamesSuffice` |
| `BatchProofs!TrailingWordsAreNoInputs` | `Spec => []TrailingWordsApart` |
| `BatchProofs!FailuresLeaveNothing` | `Spec => []FailureLeavesNothing` |
| `BatchProofs!ABatchIsSingles` | `Spec => []BatchIsSingles` |
| `BatchProofs!TheStatusTellsAll` | `Spec => []StatusTellsAll`, failing writes to standard output and a second `-` included |
| `ValuesProofs!ValueIsListed` | `Spec => []ListsWhatWasSaid` |
| `ValuesProofs!CanonicalSurvive` | `Spec => []SurvivesExactly` |
| `ValuesProofs!ListingSettles` | `Spec => []Settles` |
| `VarbindProofs!Typed` | `Spec => []TypeOK` |
| `VarbindProofs!Framing` | `Spec => []FramesExact` |
| `VarbindProofs!Survival` | `Spec => []SettingSurvives`, an equivalence for strings |
| `ParseProofs!TreesAreTexts` | `Spec => []TreeIsText` |
| `ParseProofs!CertificatesWhole` | `Spec => CertificateWhole` |
| `ParseProofs!Typing` | `Spec => []TypeOK` |
| `ParseProofs!GrammarTaken` | `Spec => []TakesTheGrammar`, the first half of `ReadsTheGrammar` |

### The encoder

**Long forms stay out of blocks.** `NoLongFormInBlocks` speaks of the running call
and its callers, but nothing in it says that a stack is empty once `flatten` has
returned. `StackInv` adds that; with it, each step is a case of `BlockStep`: a
long form alone is longer than 255 bytes, and what is written later makes an
output only longer. A block like that is then dropped by `DropBlock`.

**The walk stays on settings.** The property is about the stage of the walk, but the
reason lies in `flatten`: the file's own level, which is the running call or the
bottom of the stack, is `Framed`. That is, its settings tile the output, and each
is as long as the walk's reading of its header says. `WalkInv` carries this
through `flatten` together with `PlainTodo` (what the level has left is plain)
and the fact that the bottom frame's code is not 64, since it is a block of the
plain tree; `FramedEmit` adds one setting. Nested levels need no such invariant,
as only their length matters to the level below. `AddCmMic` adds one more framed setting,
and in the walk the position moves from the start of a setting to its end, which
`Tiles` makes the start of the next or the end of the buffer (`WalkStays`).

**A config file is made.** `Account` says how much of the tree each call has left: the outermost one is in
the middle of a suffix of it (`Rest`), or suspended in the block in front of that suffix (`Pending`). From it, each action
is a step of `ConfigFile` or a stutter: inside a block nothing that the refinement mapping reads changes; a setting of the outermost level
adds its own header and value (`Lin`); the seals append; an extension cuts three bytes
and puts back what ends in them.

**The CMTS MIC covers the listed settings.** `CoverInv` says what has been selected at each point of the
walk: all passes before this one (`Passes`) and, of this pass, the settings with its code that end at or before the position
(`Gather`). A step of the walk is one more member of a concatenation, and both concatenations are `FlattenSeq`s, whose
recursion the prover cannot unfold for a variable length. `FlattenPartial` (`ProofLemmas`) says that such a concatenation is the last of a list of partial
ones, `PartialExists` makes the list by induction over its length, and `FlattenAppend` is the equation that the step needs.
`WalkInv` gives that the position is the start of a setting.

**The extensions lead to the terminator.** `TailInv` says what the file is after each stage: the settings before
the terminator, the dial plan with the five lengths in front of it, the hash with its prefix, the terminator. The old
terminator's place is where the last setting begins (`LastWritten`), and nothing before it changes
(`TailKept`). The lengths are then a calculation for each form of `SeqHead` and `StrHead`, and the message of the hash
is the file that the invariant describes one stage earlier.

**A file is what its tree says.** The reference, `Encoding`, is a function on settings by recursion over the settings in them, so
that there is one only if settings end somewhere: `Graded(depth)` says that what is inside of a setting is of a lower depth. This is the theorem's
only hypothesis; every tree the parser makes has it, and TLC evaluates it for the settings of `MCEncode` (`DepthAssumption`). `EncodingExists`
builds the function for the settings below each depth, by `LeastNat`, and glues the pieces together. While `flatten`
runs, `Results(R)` says what each suspended call *will* return: what it has written, then its block
around what the call above it returns, then the encodings of what it has left; the outermost call returns the body. A setting written, dropped or entered moves bytes
from the right part of this to the left and changes no result, and in the end what is written is the body. The seals are then counted
byte by byte (`SealedIs`, `PaddedFinishes`), and an extension cuts three bytes and puts back a terminator of three, so that
a second one cuts only that (`BeginsExtended`).

### The decoder

`Held` is `TypeOK` with `Stack`: a suspended call is in the middle of the setting whose body is the buffer of
the call above it. This makes every position one of its buffer, also where a length runs past the end and `byte_at` gives
zeros. `VendorScope` is inductive by itself once a returning call is known to be in a block.

### The MIB tree

**The MIB tree is sound.** `IInv` is the type invariant, `TreeSound`, and `CurOK`,
which ties the two variables of `place`'s loop: no node is reached before the
first component, and a node of the tree after it. Without that, `EnsureChild`
could hang a node under one that does not exist. The induction itself is
`EnsureChildSound`: a new node's parent is older than it, its number is new among its
siblings, and a node that gets a name gets an entry for it.

**Nothing is lost.** `NoDefLost` is inductive relative to `IInv`: the head of
`pending` is smaller than the rest of it and greater than all of `deferred`, so that
either queue stays sorted and a definition moves from one to the other at most once
in a pass.

**The first attached sticks.** `SInv` says more than the property. `Orderly`: what is
attached was attached before whatever is still pending, by pass and then by number.
`Settled`: a node no definition claims has no syntax, and one that is claimed has that
of the earliest claim. An attachment can then only be a first claim, or a later one that
`Unset` turns away.

**Leading names suffice.** `Blocked` says that a definition deferred in a pass that has placed nothing is `Stuck` in
the tree as it is: its first component names no node. Where bare names only lead, a definition that fails changes
nothing, and one that succeeds makes the pass one with progress, so that the last pass leaves only stuck ones.

### The batch

`Base` is what the other three rest on: the option loop is at a word of the command line, what is
left over begins where it stopped, and the stages follow each other. `Progress` says which inputs are dealt
with; `Written` that the disk differs from that of the start only in their outputs and the dial plan's
file. `Singles` is for inputs that do not meet (`Apart`): each output is what a single run makes of the
disk of the start (`Outputs`), and what is in hand for the next input is what a single run would have in hand there (`InHand`),
since nothing it reads has been written. `Heard` says what standard input still holds: what it held at the start until an input dealt
with or in hand was `-`, and `Nothing` from then on. The status follows from `Progress` and from where the loop ended. Where
the loop ended is `Ruined` if it was a write: the step that ends the program adds a `"part"` to what was printed, which `Printed` makes the last
of it, or leaves the output `Broken`; after the end nothing changes (`Unmoved`).

### Values

`Base` is inductive: the row is one of the table, the bytes are bytes, the text is a shaped one, and bytes that
come from a text are among its encodings. It rests on what each of the 21 encoders and decoders returns
(`EncodedBytes`, `ListedTexts`). The property is then a statement about operators, `SaidIsListed`, with one lemma for
each encoding: numbers are cut to a width and read back (`NumberIs`), lists of addresses, prefixes or numbers are
parts of one length that are found again where they were put (`FlattenUniform`), strings are scanned, unescaped and cut at a zero,
digits are paired and taken apart.

**Exactly the canonical bytes survive.** The way through a listing and back is first written down without the text in
between: `Returns` says whether some bytes come back as any, `Given` as which. That this is what the decoder, the scanner and the
encoder do together (`AlwaysReadBack`) is proved encoding by encoding, in both directions: what is no whole
number of items, has an address with a dotted end or a list too long for the scanner ends in nothing, and all the rest in the bytes of `Given`.
The survivors are the bytes that return as themselves, and these are compared with `Canonical`: cutting bytes into parts and
joining them gives them back if nothing is left over (`WholeParts`), and a string is the same after unescaping only if it
has neither a backslash nor anything the scanner stops at (`StringsSurvive`).

**A second listing changes nothing.** `Settled` is what bytes are once they have been listed: of the row's length, without the bytes
that unescaping turns into spaces. `Given` is always settled (`GivenSettled`), and settled bytes that
return at all return as themselves (`SettledGiven`). The invariant `Listing` says that the text at hand is the listing of the bytes at hand, and
that from the second file on all are the same and settled. It does not need the bound on rounds.

Writing the proof showed three places where arms of a CASE overlapped, so that TLA+ left open what the model meant
(a string's last backslash, lists of one number, names out of a binding). TLC takes the first arm that
holds, and so do the definitions now.

### SNMP settings

`IInv` is `TypeOK` and one sentence more: a file at hand is the encoding of the setting at hand, which is one that
`Encode` accepts. `Encode` makes it true and `Decode` leaves no file. The second half makes both
properties statements about operators; the first half, `Typed`, needs the parser of any bytes whatsoever: a header that lies
about its length or an arc that wraps gives another setting, and `TlvParsed`, `ObjidParsed`, `ReadTyped` and `ShownTyped` say that it
is a setting all the same, which the next `Encode` may be given.

**Every encoder is undone by its reader.** One lemma per pair, from the inside to the outside:

- `SubidBack`: an arc is cut into groups of seven bits and put together again. The reader is a recursive function over the
  bytes of one arc, `Shifts` over what is left of the arc; `GroupsAre` connects them by counting from the last group
  back (`UpTo`, from `LeastNat`). Five groups hold every arc, and what the reader has put together so far is never more
  than the arc, so that it does not refuse it.
- `SubidsBack`, `ArcsBack`, `ObjidBack`: each group's last byte is the only one below 128 (`Terminated`), so that the
  ends that the reader finds are those that the writer made (`PartsAt`). The first two arcs share a number, whence
  `Proper`.
- `TlvBack`: a header of each of its forms leads to the end of its body (`HeaderIs`, `NumberOfOne`, `NumberOfTwo`).
- `SignedBack`, `UnsignedBack`: dropped leading bytes are put back from the sign bit of the first one kept (`FirstKept`, `ExtendBack`). A
  gauge of 2^31 or more goes through nine bytes here, too.
- `BindingBack`: the form of the outer header is chosen before anything is encoded, from a count that takes each arc for
  a byte. `HeaderFits` is the calculation that with `Compact` the form chosen is one that the size has.

`FramesExact` then reads off the sizes in these lemmas, and `SettingSurvives` follows through `ShownBack`: what is printed for a value is
read as the value, if no display hint rewrites it. For strings `ShownString` compares what the scanner makes of the text with the
string, in both directions: `UnescapePlain` and `ReadAsIs` where there is neither a quote nor a backslash, and `UnescapeClears` where there
is one, since no backslash is left in what was unescaped and no bare quote gets past the scanner (`ProofLemmas`, shared with `Values`).

Writing the proof corrected the model once: the number that the first two arcs share is computed in `u32` and wraps,
for which `Proper` had no bound. The folds in the readers have become
recursive functions over positions, which the prover can unfold and which follow the loops in `asn1.rs` more closely.

### The parser

`ParseContract` looks at the whole text at once: it counts brackets from the start to say how deep a place is, cuts the text behind each
bracket and semicolon, and asks of every piece between whether the grammar has it. The parser reads from left to right and knows the
tokens in front of it. The proofs connect the two, for texts of every length and nesting.

**What one step reads is one piece of the grammar.** `StatementIs` and `HeadIs` take the shapes one by one: all end in a semicolon or an
opening bracket and have no bracket, and no end of the text, before it (`Closed`, `AllClosed`). The tokens of the step are
then the piece that ends there (`Item`), and the next one begins behind it (`States`).

**Settings are only taken from a file of the grammar.** `Following` is the inductive invariant. While the parser reads (`SoFar`),
every piece before its position is of the grammar, the depth there is the number of blocks it has open, and Main has not ended
before. The property alone speaks of parsed files only and says nothing of a file half read. Depth is a difference of two cardinalities, of which a step
changes at most one. TLC checked `Following` on the instance of `MCParse` before it was proved.

**The tree is the text.** `Told` is about the stack of open blocks: each one's settings, outlined, yield a part of what the text has said
so far, and these parts, each behind the line of the block that it is in, are all of it (`Lines`, `Built`). A statement lengthens the innermost block's
part (`Yields`, by `YieldsJoined`), the head of a block adds a line, and its end makes a list of settings into one setting in the
list around it without changing the text that the two yield together. `Outline`, which takes one setting from a list of those left to visit at each
of its steps, is connected to `Yields` by `Walks`: a walk over a list in front of others leaves the others.

**A certificate is its file.** The pieces are as long as the formula in `external_file_tlvs` says, by a calculation with
the quotient (`ChunksAre`); put together they are the file (`FlattenSeq` again by partial concatenations), and their number is
the only one that `Copies` can choose.

Two definitions changed for the proofs: the outline is a recursive function rather than an operator, and the number of settings that a certificate takes is
looked for among all numbers up to the file's length.

### What is only model-checked

- Liveness (`Terminates` and `DecodeTerminates`): TLAPS has no rules for fairness here.
- `RoundTrip`, which composes the encoder, the decoder and a recursive parser of what the decoder prints.
- The second half of `ReadsTheGrammar`: that the parser stops only at a statement whose value is refused is about what is
  `ENABLED`, for which the prover has no rules.
- `Names` and `MibModule`, where what is written and what is read meet only in long runs over two trees or token lists.
- `Keywords`: its properties are about the one table the program has, and TLC checks them for each of its 1571 rows.

`SymTable` and `RoundTrip` define recursive operators, which the prover cannot reason about; no
theorem's module extends them. Induction over numbers is done with `LeastNat` (a property that
fails somewhere fails at a least number), since the library's induction rules take an operator as parameter.

## 5. Where code and documentation disagree

`MCRoundTripLong` ends in a counterexample against a sentence of the repository and stands for
the others here: each has a configuration of its own, whose counterexample TLC finds
within seconds (`tlc -config <name>.cfg <module>`), and which are not repeated as runs.

1. **Static multicast session blocks** (`MCEncodeMcast`). `add_cmts_mic` reads
   every TLV 64 with two length bytes (`main.rs:445`); `flatten` writes
   CMTSStaticMulticastSessionEncodings, also 64, with one. The walk lands inside
   values and misses listed settings. `main.rs:19-20` says they are hashed
   "regardless of where they appear".
2. **A long MIB object in a modem file** (`MCRoundTripLong`). `flatten` writes TLV 64
   in any file; the decoder expects it behind an MtaConfigDelimiter only
   (`decode.rs:93`). `decode.rs:3-4`: "a decoded file can be re-encoded to the same bytes".
3. **A definition deferred for its parent** (`MCMibFirstRead`). One read later takes its
   identifier first (`resolve.rs:22`). The repository's `README.md:75-76`: "the module read
   first wins".
4. **Long bindings in short headers** (`MCVarbindLong`). `snmp.rs:75` counts each arc as one
   byte, so that a string with a name of many two-byte arcs gets a one-byte length
   of 128 or more, which is read as another form.
5. **Display hints** (`MCVarbindHint`). A value printed with a fraction or in
   hexadecimal cannot be read, or is read as another number (`snmp.rs:147`).
6. **Unnamed nodes** (`MCNamesUnnamed`). An identifier whose last known node has no name
   is printed without its beginning (`render.rs:36`) and read as another one.
7. **Addresses of generic settings** (`MCParseTypedIp`, module `MCParse`). `GenericTLV TlvCode n TlvType IPAddress
   TlvValue a` is encoded by the row of the keyword GenericTLV, whose encoder writes nothing
   (`parser.rs:315`). The comment at `parser.rs:436` speaks of a "range-free IP encoding".
8. **Unclosed brackets in conventions** (`MCMibModuleTc`, module `MCMibModule`). The search for SYNTAX in a textual convention is
   limited, since "a malformed TC should not swallow the rest of the file" (`parse.rs:242`); the constraint behind
   SYNTAX is not, and one that is never closed does.

`MCEncodeMcast` is a configuration of `MCEncode`, `MCMibFirstRead` of `MCMibInstall`, `MCVarbindLong` and
`MCVarbindHint` of `MCVarbind`, `MCNamesUnnamed` of `MCNames`.

Further disagreements that the passing runs exclude by name:

- `Faithful` (`RoundTrip`): two dial plans in a file share one output file; the body of
  a dial plan whose string length has the form 129 is taken from one byte too early and
  comes back a byte longer (`decode.rs:455-461`); quotes and backslashes in an unknown setting's text are not
  escaped; empty unknown values are printed as a number without digits; pad,
  MIC and end settings given by hand are printed as comments; a hash or a dial plan added
  to a file without a terminator cuts three bytes of something else.
- `LeadingNamesSuffice` (`MibInstall`): with a bare name behind other components, a definition can
  fail after it has named a node that one deferred before it needs, in what turns
  out to be the last pass. The comment at `resolve.rs:3-4` holds when bare names lead.
- `marks`, `WithinLimits`, `NamedLast`, `BareName` (`Names`): bytes that cannot be printed become
  dots; punctuation, strings in single quotes ahead of others and a bare name are no
  token of the scanner; the name of an enumerated value is refused under a column the
  reader does not know; an index outside its range is refused; a name of two nodes means the first.
- `Regular` (`Varbind`): an identifier that is not below one of the three roots is left
  out of its binding without an error, and one below the third whose second arc is within 80 of 2^32 wraps into
  another (`asn1.rs:93`); more than 65535 bytes are too long for any header that is
  written. A gauge of 2^31 or more takes nine bytes, which the decoder undoes.
- `Legible` (`Varbind`): a string that can be printed stands between quotes as it is (`snmp.rs:158`), so that one with a quote, a backslash
  or more than 2048 characters does not come back (`lexer.rs:279-309`). `SettingSurvives` says that these are all that do not. What follows an inner quote
  is taken for something the parser refuses; a string could be made to go on as further statements, and is not the one written then either.
- `Sayable`, `Canonical` (`Values`): a number is cut to 32 bits before its limits are tested, so
  that 2^32 + 5 passes for 5 (`encode.rs:65`); numbers of three bytes are never tested
  (`encode.rs:70`); the upper limit of 65536 at `symtable.rs:1462` lets a number through that two bytes turn into 0
  (`encode.rs:78`); fields of another form than the row's count as 0 (`encode.rs:201`). A list of one number is
  printed as a number, which the encoder of lists does not take; an IPv6 address that maps IPv4 is printed with
  a dotted end that the scanner does not read; a value of a length no decoder
  foresees is left out of the listing; strings with quotes, backslashes, line ends or tabs
  are printed as they are.
- `Narrowed`, `Widened` (`Keywords`): limits are those of the first row of a keyword's name,
  narrower than the block's own for four keywords and wider for one.
- `Apart` (`Batch`): inputs of a batch whose outputs have one name overwrite each other, and an input that is another's
  output is read after that is written, without a message; so is a dial plan or a certificate that is another's output. With `-`
  for the output, the listing and the binary file go to the same stream. `StatusTellsAll` says nothing of what is lost where the code
  ignores an error: a listing, or the bytes behind the last `flush`.
- `ReadsTheGrammar` (`Parse`): whatever stands behind the end of Main is ignored; a value behind a keyword that
  begins a block is written as an empty setting.
- `ReadsWhatIsWritten`, `DamageStaysLocal` (`MibModule`): of two types of one name the last read wins, of two definitions
  the first; a macro without a value takes that of its neighbour, so that damage costs two definitions.

## 6. What is not modelled

- The scanner of MIB files, which turns text into the tokens that `MibModule` begins with, and comments,
  blanks and line numbers in config files. They keep no state that another part
  reads. One consequence is worth knowing: `/**/` is not the end of a comment for the config scanner
  (`lexer.rs`), which goes on to the next `*/` and drops the text between.
- What is printed: layout, messages, warnings (their number is kept where a property needs it), and the version stamp.
- Values of 64 KiB and more, whose length `flatten` and `add_dialplan` cut to 16 bits.
  `BE16` has the cut, but sequences of that length are out of TLC's reach, and the
  properties exclude them by name (`Plain`, `DialplanFits`).
- SNMP types the encoder never writes (Counter64, Opaque, NSAP, BitString) and the display
  hints `o` and `b`, which no bundled MIB uses.
- MD5, HMAC-MD5 and SHA-1 themselves, which are functions of the message here.
- `version.rs`, the build scripts and the MIB and fixture data.

## 7. Plan

Done: all components but the scanner of MIB files, their compositions where they interact, the abstract
specification of the encoder and that it is implemented, and the proofs of section 4: everything that the
runs check of `Encode`, `Decode`, `MibInstall` and `Batch` but termination, of `Values` and `Varbind`, and of
`Parse` but where it stops.

Next are proofs, in this order:

1. `Names`: that an identifier is never read as another (`NeverMisread`), from the lemmas on `Render` and `OidStr` it needs.
2. `MibModule`: that damage stays local (`DamageStaysLocal`), with where each clause ends as the invariant.
3. `Keywords` for every table: what `KeepsSetting` needs of one.
