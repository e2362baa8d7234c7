# A verification development of mzretools

mzretools analyses and compares DOS MZ executables: `mzmap` explores an
executable and writes a map of its routines, `mzdiff` compares the code (and
data) of two executables, `mzsig` and `mzdup` look for duplicate routines,
`mzptr` for pointers to variables. This directory holds TLA+ modules that model
its analysis core, TLC configurations that check them on small images, and
theorems about them that TLAPS proves for images and segments of any size.

The code is sequential. What makes it hard is *order*: a work list whose
entries are added at both ends, byte ownership that later steps take away and
wipe, tables indexed by number and searched by address, a segment table that
four callers write, a map built in one pass from what is left, and a comparison
that carries what it has learned at one place into its verdict at every later
one. A unit test follows one image through it; the model follows all the small
ones.

## 1. Inventory

| component | state it keeps | operations | what makes it correct |
|---|---|---|---|
| Search queue (`scanq.cpp`) | deque of points, entrypoints by id, owner of every byte, current point | `nextPoint`, `saveCall`, `saveJump`, `saveBranch`, `setRoutineIdx`, `clearRoutineIdx`, `isEntrypoint`, `getUnvisited` | entrypoints numbered without repeats, points belong to known routines and their segment, owners known |
| Code exploration (`analysis.cpp`) | position, registers, the queue, variables | `seedQueue`, `exploreCode`, `claimNops`, `getBranch`, `processDataReference` | ends; decodes only and all reachable code; rolls back its own bytes; entrypoints go to their routines |
| Register tracing (`applyMov`, `applyPush`, `applyPop`, `CpuState`, `touchedRegs`) | known registers, a simulated stack | on every instruction of a path; partly kept over calls | a register said to be known holds the value the program would have |
| Segment table (`executable.cpp`) | list of segments | `storeSegment`, `clearSegments`, `getSegment` | one per base, names lead back, type changes STACK to DATA only |
| Code map (`codemap.cpp`) | routines with blocks, unclaimed blocks, variables, segments | construction from a queue, `closeBlock`, `findSegment`, load from three formats, overlap check, sort, order, save, summary | blocks are disjoint and match the owners; what is saved is what is read; totals add up |
| Routines (`routine.cpp`) | extents, blocks, annotations | collision, extents, block at a place, next reachable block | extents are the run of blocks at the entrypoint |
| Addresses and blocks (`address.cpp`) | segment and offset, pairs of them | arithmetic, moving, intersection, adjacency, coalescing | same linear address in another segment, sets of bytes preserved |
| Offset maps (`OffsetMap`) | pairs of code, data, stack addresses | `codeMatch`, `dataMatch`, `stackMatch`, `setCode`, `resetStack` | one-to-one (for data: up to the number of data segments) |
| Comparison (`compareCode`, `comparisonLoop`) | two queues, offset map, skip counts and origins, position in both | location loop, skip, rewind, variants, search for a target, missed routines | nothing queued or reachable is left out of a success; pairs stay consistent; skips within their limits |
| Data comparison (`compareData`) | none | one pass over a segment | a match vouches for every byte of the segment |
| Pointer search (`findDataRefs`) | none | one pass over the data segments | all words that are offsets of variables, and no others |
| Duplicates, edit distance, signatures | patterns of routines, what each duplicates | `findDuplicates`, `edit_distance_dp_thr`, the signature library | the distance is the edit distance up to its threshold; each signature keeps its nearest target |
| Variant map (`VariantMap`) | buckets of equivalent sequences | load, find | longest match of an equivalent in the same bucket |
| Memory, DOS loader, PSP, MZ image | memory break, load segment | alloc, free, load, find | a program's block fits and is its own |
| CPU, interrupts | registers, flags | partly written emulator, used by no tool | |
| Decoder (`instruction.cpp`, `opcodes.cpp`, `modrm.cpp`) | none | decode, match two instructions, registers touched | |
| Tools, output, utilities | options | argument parsing, printing | |

How they interact: `mzmap` loads an image (which registers two segments),
optionally seeds the queue from a linker map, then explores. Exploration takes
points from the queue and on each instruction calls back into the queue, the
segment table and the variables. At its end the `CodeMap` constructor reads
the queue and the segment table once. `mzdiff` loads a map file, which is built
by the same walk over the bytes, and uses two queues, one for each executable,
driven by the reference's map, with the offset map between. `mzdup` reads
signatures `mzsig` saved and writes what it finds into the target's map.

Failure: only a `CpuError` (an undecodable byte, or INT 3 and INTO, of which
`touchedRegs` does not know what they change) is handled inside the
exploration, by marking the search's bytes bad. Every other exception, and the
asserts that the build keeps, end the analysis. They are outcomes of the model
(`pc = "aborted"`, `result = "error"`, `phase = "failed"`).

## 2. Modules

| module | models | notes |
|---|---|---|
| `Image` | the image: bytes, addresses, the decoded instruction | sizes are constants: `SegSize` for 64K, `ParaSize` for 16, `MemTotal` for 1M |
| `ScanQueue` | `ScanQueue`: the queue as a record, each method as an operator that returns the new queue | several calls in one step compose |
| `SegmentTable` | `Executable::storeSegment` as an operator on a list | |
| `SegmentStore` | the table's life, every registration in any order | |
| `ExploreCode` | `seedQueue` and `exploreCode`: one action per seeding step, per point taken and per pass of the inner loop | the whole pass is one action: claim, branch, wipe, register, advance |
| `CodeReach` | abstract: code looked at grows from roots along the control flow | knows nothing of queues, owners or routines |
| `ExploreReach` | `ExploreCode` with the history of decoded instructions, shown to implement `CodeReach` | |
| `CodeMapBuild` | `CodeMap`'s constructor: `blocksFromQueue`, `closeBlock`, `findSegment` | operators on a map under construction |
| `ExploreMap` | exploration followed by the construction of the map | |
| `OffsetMap` | `OffsetMap`: the equivalences of a comparison as a value, each match as an operator that accepts or refuses | |
| `CompareCode` | `compareCode`, `comparisonLoop` and what they call: one action per way a location is taken and per instruction compared | on `ScanQueue` (twice), `SegmentTable` and `OffsetMap` |
| `SegmentOrder` | lists sorted by a key: segments by base, blocks by begin | shared by everything that sorts |
| `Blocks` | `Block` as a range of linear addresses | |
| `CodeMapFile` | one line of a map file, order, save, summary, extents | operators on a map |
| `LoadMap` | `CodeMap`'s constructor from a file of any of the three formats, and a save and reload | on `CodeMapFile` and `CodeMapBuild` (`INSTANCE`) |
| `EditDistance` | `edit_distance_dp_thr` and the distance it stands for | the table goes forward over prefixes, the definition backward over what is left |
| `Duplicates` | signature library and `findDuplicates`: one routine, one signature, or one meeting of duplicates a step | |
| `Registers` | `Registers` and `CpuState`: halves, parents, known bits | |
| `RegTrace` | the tracing along one path, beside a machine that executes it | |
| `DataScan` | `compareData` and `findDataRefs` | |
| `MCImages`, `MC*` | all images of a few bytes, or the cases named in the module | |
| `QueueTableLemmas` | lemmas about the operators of `ScanQueue` and `SegmentTable`, and about numbers | |
| `SegmentStore_proofs`, `CompareCode_proofs`, `LoadMap_proofs`, `DataScan_proofs`, `Duplicates_proofs`, `RegTrace_proofs` | theorems about the module they are named for | `CompareCode_proofs` holds the lemmas on `OffsetMap` too, `Duplicates_proofs` those on `EditDistance`, `LoadMap_proofs` those on `CodeMapFile` |
| `Explore_proofs` | theorems about `ExploreCode`, `ExploreReach` and `ExploreMap` | |

Correspondence of state in `ExploreCode`: `code` is what `Instruction{...}`
finds at each byte of the image, constant during a behaviour; `sq` is
`Analyzer::scanQueue` (`visited`, `queue`, `entrypoints`, `cur` as in
`scanq.h`); `segs` is `Executable::segments`; `vars` is `Analyzer::vars`;
`csip` the position; `pc` says where the two loops are. Addresses are a base
and a linear address; `lin - seg` is the 16-bit offset, equality is equality of
`lin` as in the code. The image is loaded at linear address 0.

In `CompareCode`, `case` is what is compared and never changes; `sq`, `tq`,
`off`, `rout`, `block`, `rc`, `tc` are `scanQueue`, `tgtQueue`, `offMap`,
`routine`, `compareBlock`, `refCsip`, `tgtCsip`; `skip` holds `refSkipCount`,
`tgtSkipCount` and the two origins; `phase` is which of the two loops runs.
`hist` is history the properties read and the code does not keep. In `LoadMap`,
`map` is the `CodeMap`, `pos` the local state of the reader, `sq` the bogus
queue and `cm` the walk over it. In `RegTrace`, `traced` is the `CpuState`;
`mach` and `mstack` are the machine, which is in no source file; `stale` is
history. In `Duplicates` and `DataScan` the variables are the locals of the
functions.

Abstractions of `ExploreCode`:

* An instruction is its length, its kind and its destinations. Two decodings
  may overlap, as on the machine.
* Register values are not tracked. Where the code asks a register, every
  answer is taken: an indirect call goes anywhere in its segment or nowhere
  known, a mov or pop into DS, ES or SS registers the segment named or does
  not, interrupt 21h ends the routine or does not. An indirect jump is never
  followed by the code either.
* An instruction of kind `trap` is INT 3 or INTO: unlike a byte of kind `bad` it
  is decoded and claimed before the `CpuError`, so the bytes a prefix makes it
  longer by stay the routine's when the search is marked bad up to its first.
* The linker map's routines are inside the image (`SeedAssumption`); seeding
  does not check that, and a routine outside it makes exploration leave the
  image at once.
* Map segments are registered in any order and any number of times, where the
  code goes through a list once.

Abstractions of the comparison:

* An instruction has a name for its class and operand types, an immediate and
  the offset of a memory operand. Branches keep their destinations and the
  displacement they are encoded with, so the same call in another place
  differs in its operand as it does in the code.
* Both images have one size. Positions do not wrap in their segment; the
  segment sizes of the instance are larger than the images.
* A map of the reference is any of a few; it has been loaded, so its blocks
  are apart (see `LoadMap`; `MCCompareCode` has TLC evaluate that of the maps
  compared). A routine is its position in the map instead of a name; a map of
  the target names the same routines.
* A far call's destination is in the segment it names; entrypoints, and the
  places a map names, lie in the image and in reach of their segment
  (`CaseAssumption`).
* Signature search compares instructions, where the code compares a pattern of
  bytes with wildcards: instructions of the same form, values left out.
* Results that differ only in the colour they are shown in are one.
* That a comparison ends is not claimed. A rewind may take the reference back
  over what matched, and the skip origins are not reset where skips begin.

Abstractions of the map files: names are numbers, text is not lexed, segments of
one map file have different names, variables are places. The lines may come in
any order and the file may end anywhere, so a listing may leave a procedure or
a segment open; procedures of a listing are well nested otherwise. A saved map
is read back with the load segment it was saved with. Blocks are ranges of
linear addresses in the segment of their routine. The walk over a loaded map
goes over absolute addresses and looks segments up in the order of the file,
since the constructor sorts them only after it. Its first block is opened in
the segment that begins at the multiple of 64K below the load address, whatever
the file calls a segment: that block cannot be closed beyond the next multiple
of 64K (a `MemoryError`), and belongs to no known segment in the summary. Where
the walk skips a gap to a segment behind the map, the last block is opened
there and closed at the map's end, before it begins (`FinishMap`).

Abstractions of the tracing: one path at a time, as the state of registers goes
along a path; flags, IP and offsets into memory are left out, and so is the
stack pointer. A word has `Base` squared values. The registers an instruction
touches are wiped at once, where the code wipes them one after the other;
`MCRegTrace` has TLC evaluate that the result is the same. Whether the stack of
the executable begins where its code does, SS then being unknown, is a choice
(`EntryState`): the code compares whole addresses, and SP and IP are not kept.

Abstractions of the data passes: `ref` and `tgt` are load modules from their
first byte on; memory past one holds the pattern `Memory` was filled with. The
map's segments and variables are in the order `CodeMap::sort` puts them in,
which leaves segments of one base in any order (`DataScanAssumption`).

## 3. Runs

All constants are bounds of the instance. `MaxSegs`, `MaxRoutines`, `MaxVars`
(`LoadMap`) and `MaxStack` (`RegTrace`) are bounds in guards; no other action
has one. `CalleeBases` bounds the segments that `RegTrace` calls into. An image of `CodeSize` bytes of an exploration has all instructions of
the listed kinds at every byte, so such a run covers every program of that size.

| run | shows | bounds |
|---|---|---|
| `ExploreMixed` | queue consistency, rollback within the scan, termination, every call gets its entrypoint | 3 bytes filling one segment (so addresses wrap), 9 kinds, lengths 1 and 2 |
| `ExploreSegments` | routine segments registered, across overlapping segments | 3 bytes, 3-byte segments at 0 and 1, far calls and jumps, moves, seeding; `MemTotal` = 3 lets a far jump overflow |
| `ExploreReach` | the refinement of `CodeReach`; owned bytes were scanned; reachable code was explored; entrypoints kept | 4 bytes, 8 kinds (traps among them), lengths 1 and 2: a call, a wipe and a reclaim by a third party fit |
| `SegmentStore` | the table's guarantees | bases -1 to 4 around a 4-byte image, automatic and user names |
| `ExploreMap` | the map's guarantees, behind every exploration | 4 bytes, 2-byte segments at 0, 1 and 2, lengths 1 and 2 |
| `Compare` | the offset map one-to-one, final and within its limit; the stack map the routine's own; jumps agree with the map; skips within their limits; no queued place, reachable block or missed routine left out of a success | six 6-byte references, each against itself and every target one edit away (an instruction replaced by one of eight, inserted or removed), eight reference maps, with and without a target map, nine sets of options; and an entrypoint behind the routine it calls, whose place in the target may be outside |
| `LoadMap` | a loaded map partitions its bytes; extents are the run at the entrypoint; save and load are inverse; the summary adds up; listing segments lie apart | 4 bytes, loaded at 0 and at 6 (from where a map runs over a multiple of the 8 bytes that stand for 64K), two segments in either order, two of 18 routine lines (overlapping, disconnected, overhanging, turned around, annotated), six linker segments, listing lines at three offsets |
| `Duplicates` | the thresholded distance against the recursive one; nearest target kept; shared targets equally near | three references and two targets of up to four instructions of two kinds, thresholds of 40 and 70 percent, with and without a minimum size |
| `RegTrace` | a known register holds the machine's value but for the named losses; registered segments are the loaded ones | AX with its halves, CS and DS, bytes of two values, a stack of one word, callees in the segment of the code and in another |
| `DataScan` | a match vouches for the segment; the pointer search is exact | references of 1 and 5 bytes and targets of 3, of two values, up to three segments, 3 bytes to a segment, two variables |
| `DataSegment` | violated: the comparison of a data segment does not reach into one with a greater base; with segments at 0, 1 and 2 the comparison of the first goes up to 2 | as `DataScan` |
| `ExploreFarJump` | violated: far jumps are traced | 3 bytes, `MemTotal` = 3 |

Why so few bytes are enough: every decision of the walk looks at one byte's
owner, one entrypoint, one queued point; a run of bytes matters through its
first byte and its end. Three routines, a fall-through over two bytes of
another routine and an instruction overlapping an entrypoint all fit in 4
bytes. A comparison needs a call, a routine behind it and one changed place
between them; six bytes hold two routines of three instructions, or one in two
blocks with a gap. A rule about pairs of duplicates needs a third party that
comes back to a target two others met at. Each mutation of the code that the
runs are tried with is found within these bounds.

`CHECK_DEADLOCK FALSE` is set where the modelled program ends (`done`,
`aborted`, `failed`, a path cut off); `Compare` has its end as an action.

Fairness: `FairSpec` of `ExploreCode` adds `WF_state(Next)`. The program is one
thread in a loop; while a step is possible it is taken. Nothing is assumed
about which branch of a choice is taken. `Terminates` and
`EveryCallTakesItsEntrypoint` are the only properties that need it.

What the checks say about the code, beyond "it holds":

* `EntrypointsKept` and `ExploredAll` hold *but for* two things they name. The
  protection of entrypoints and of claimed code looks at the first byte of an
  instruction only, so an instruction overlapping an entrypoint takes it; and
  `claimNops` takes NOPs after a jump from anyone, an entrypoint included, and
  leaves them unscanned, so code that is only reached through them is missed.
* `MapFailsOnlyOnStraddle`: an instruction crossing the end of its routine's
  segment makes `closeBlock` throw, and there is no map at all.
* `CodeAndDataNamesUnique` leaves stack segments out: their number is a count
  that goes down when one becomes data, so `Stack2` may be given twice.
* `CodeOneToOne` leaves out the places `checkComparisonStop` guessed: the guess
  is written with `setCode`, and two reference places may then stand for one
  target place. `CodeMapStable` says that a guess never replaces what is known.
* `MissedAreQueued` holds where the last location taken was compared. The two
  `continue` statements of the location loop (`analysis.cpp:707`, `:731`) leave
  out the look for missed routines, see `MissedCompared` below.
* `QueuedCompared` leaves out a call whose equivalent is outside of the target's
  image: `compareCode` counts it as compared (`analysis.cpp:1138`).
* `CodeAndDataNamesUnique` supposes that no given name has the form of a
  composed one (`NamesGiven`): the composed number is a count, so a map whose
  segments were renumbered by hand may make it repeat a name.
* `BlocksMatchOwners` and the other properties of a map hold but for an image
  whose segments leave a gap before code, see `MainBlockExists` below.
* `KnownUnlessStale` names what the tracing loses: a mov from an unknown source
  or a pop from an empty simulated stack leaves the old value known; memory is
  read as the image has it; DS and SS are kept over calls; the stack is not
  followed through PUSHF, POPF, SP arithmetic and calls (a callee pops what its
  caller pushed); LOOP's CX is not followed; and the table of touched registers
  (`instruction.cpp:454`) has MUL and SAR touch nothing, LODSW nothing, MOVSB
  two operands it does not have, STOS AL instead of DI. INT 3 and INTO are
  unknown to it, a `CpuError` that marks the path bad.
* `RoundTrip` and `ExtentsAreMainRun` leave out routines without a block at
  their entrypoint: the order cuts their extents down to a byte. Nothing
  refuses a block that ends before it begins, and the extents of a routine with
  such a main block end before they begin too. `RoundTrip` leaves out maps in
  which a segment marked as the default one does not hold data as well: each
  time such a map is put in order, another segment may be marked. What is
  unclaimed is not saved but cut anew. Two losses are outside of the model: data
  segment overrides of blocks and attributes of variables (`external`, `bss`)
  are read, but `save` does not write them.
* `ClaimPartition` and `SummaryAddsUp` leave out listings, whose routines are
  never held against each other, and maps with bytes outside of all segments.
* `IdaSegmentsApart`: a listing's segment whose lines are all at offset 0 gives
  the next one its own base, and a name that gives a base puts its segment
  anywhere, so neither is claimed to lie apart.
* `MatchMeansEqual` leaves out the last byte of the image, which `compareData`
  never looks at, and lays a mismatch ahead of all variables to the first one.
  `RefsAreDataWords` leaves out the image's last word, which `findDataRefs`
  never looks at.

What the code does not do, of what is said of it:

| statement | run | where |
|---|---|---|
| the compared data segment ends at the next one (`analysis.cpp:832`) | `DataSegment` | the end moves on to every further segment with a greater base, `analysis.cpp:835` |
| jump destinations are traced (`README.md:68`) | `ExploreFarJump` | a far jump's immediate is taken for a linear address, `analysis.cpp:1248` |
| scanned code is attributed to a routine (`README.md:68`) | `ExploreLost.cfg` | a wipe of a routine's run, `analysis.cpp:516` |
| a call records how a known routine is called | `ExploreNearness.cfg` | `updateNear` does not see the newest routine, `scanq.cpp:163` |
| a routine of a map has its main block (`MainBlockExists` with an image that starts before its only segment) | `ExploreMapGap.cfg` | the owner is read before the gap is skipped, `codemap.cpp:59` |
| missed routines are compared before a success (`analysis.cpp:779`) | `MissedCompared`, in `Compare.cfg` | `continue` at `:707` and `:731` |
| call destinations are consistent (`analysis.h:25-26`) | `CallsFollowMap`, in `Compare.cfg` | a call whose callee is already known is not held against the map |
| the reference is taken back over skipped instructions (`analysis.cpp:1060`) | `RewindKeepsMatches`, in `Compare.cfg` | the origin of the skips is only reset by a match |
| a loaded map has a summary (`codemap.cpp:511`) | `SummaryNeverThrows`, in `LoadMap.cfg` | combined annotations make sums overlap, a `LogicError` |
| routines of a linker map are places of the image (`README.md:85`) | `LinkRoutinesInImage`, in `LoadMap.cfg` | they are not relocated, and the default load segment is 0x1000 |
| duplicates that were found are saved (`README.md:222`) | `FoundIsSaved`, in `Duplicates.cfg` | the assert at `analysis.cpp:1780` |
| a path ends at a DOS call that does not return (`analysis.cpp:538`) | `CutOnlyAtExit`, in `RegTrace.cfg` | an unknown AH reads as 0 |

The first two are kept as runs and listed under findings. The others can be
repeated: with the configuration named (the module is `MCExploreReach` for
`ExploreLost`, `MCExploreCode` for `ExploreNearness`, `MCExploreMap` for
`ExploreMapGap`), or with the property named in place of those that the run's
configuration lists.

## 4. Proofs

Every theorem is proved for every value of the constants that the named
assumptions of the modules allow: `SizeAssumption` (an image, segments and an
address space of any size), `ProgramAssumption`, `EntryAssumption`,
`SeedAssumption` (instructions decoded from the image, entrypoints in it),
`CaseAssumption` and `WordAssumption` (a comparison), `DataScanAssumption`,
`DuplicateAssumption`, `TraceAssumption` and `RegisterAssumption`,
`StoreAssumption`, `LoadAssumption` and `LinesAssumption` (any lines with
numbers that have no sign; a load segment at a paragraph; 16 bit offsets that
reach as far as a segment). TLC evaluates each of them in the runs. Some results need a hypothesis more, which is part of
their statement; what it excludes is told below. The runs that check the same
properties satisfy each of them: `MCSegmentStore` has TLC evaluate `NamesGiven`,
`MCCompareCode` what `MapsApart` says and `MapsLaidOut`, `ExploreReach` is a program of
one segment, and every map that `ExploreMap` finishes was checked to have
`SegmentsCover`.

| theorem | property | inductive invariant |
|---|---|---|
| `TableTypeCorrect`, `TableAddressesUnique`, `TableTypesStable` | `TableTypeOK`, `OneSegmentPerAddress`, `TypeOnlyFromStackToData` | `Tables` |
| `AutomaticNamesUnique`, under `NamesGiven` | `CodeAndDataNamesUnique` | `Numbered` |
| `TypeCorrect`, `QueueStaysConsistent`, `RollbackOnlyOwn` | `TypeOK`, `QueueConsistent`, `RollbackOwnsItsRange` | `IInv` |
| `RoutineSegmentsRegistered` | `RoutineSegmentsKnown` | `KnownOrQueued` |
| `ExplorationReaches` | `ImplementsReach` (refinement of `CodeReach`) | `QueuedReachable` |
| `OwnedBytesReached` | `OwnedBytesAreCode` | itself |
| `EntrypointsStayKept` | `EntrypointsKept` | `KeptOrCalled` |
| `ExploredCompletely`, under `OneSegment` | `ExploredAll` | `Pending` |
| `MapTyped` | `MapTypeOK` | `MapInv` |
| `BlocksAreOwned`, `MainBlocksExist`, `GivenIsSurrounded`, `OnlyStraddlingFails`, for states with `SegmentsCover` | `BlocksMatchOwners`, `MainBlockExists`, `UnreachableIsSurrounded`, `MapFailsOnlyOnStraddle` | `MapInv` |
| `MetCodeOneToOne`, `DataPartnersBounded` | `CodeOneToOne`, `DataBounded` | `CInv` |
| `ComparisonTyped`, `EquivalencesStay` | `CompareTypeOK`, `CodeMapStable` | `TInv` |
| `JumpsStayAlike` | `JumpsFollowMap` | `JInv` |
| `StackOffsetsOfRoutine`, under `MapsApart` | `StackOfRoutine` | `FrameInv` |
| `MissedRoutinesQueued` | `MissedAreQueued` | `MissedInv` |
| `QueuedEntrypointsCompared` | `QueuedCompared` | `QueuedInv` |
| `RoutinesComparedWhole`, under `MapsLaidOut` | `BlocksCompared` | `WalkInv` |
| `MatchComparesAll`, `SearchFindsAll` | `MatchMeansEqual`, `RefsAreDataWords` | `DataInv` |
| `DistanceIsExact` | `DistanceExact` | `LibraryKept`, and `OnTheWay` of each row |
| `NearestIsKept`, `SharesAreEqual` | `NearestKept`, `SharedEqually` | `SearchInv` |
| `TracingSound`, `SegmentsAreLoaded` | `KnownUnlessStale`, `StoredIsLoaded` | `TraceInv` |
| `TypedAlways` | (`Typed`) | itself, with `Walking` |
| `ClaimsPartTheMap`, `ExtentsAlwaysMainRun`, `SummaryAlwaysAddsUp` | `ClaimPartition`, `ExtentsAreMainRun`, `SummaryAddsUp` | `Typed` and `Walking` |
| `SavedComesBack` | `RoundTrip` | `Typed`, `Walking` and `Returning` |
| `IdaSegmentsAlwaysApart` | `IdaSegmentsApart` | `Apart` |

**Segment table.** That the table is a list of named segments with distinct
bases in the image is kept by adding a base that is not there, removing, and
replacing. For the names: the number of a new automatic name is one more than
the count of segments of its type. `Numbered` says that no automatic name of a
code or data segment has a number above that count, and no two are the same.
Segments of these types are never removed, so the count never comes back to a
number given.

**Exploration.** The inductive invariant

    IInv == TypeOK /\ segs \in Tables /\ QueueConsistent /\ RollbackOwnsItsRange

needs all four parts: a jump is saved in the segment of `entrypoints[cur.idx]`,
which exists only because the current point belongs to a known routine
(`RollbackOwnsItsRange` says that of `cur`, `QueueConsistent` of the points it
is taken from); that a new entrypoint repeats none rests on `saveCall` looking
for it first; and the owners written while scanning are known because `cur.idx`
is. `QueueTableLemmas` states for every queue operation that it keeps the set
`Queues` of well-typed, consistent queues and how it changes the rest.

The further invariants follow one entrypoint through the queue. Its routine's
segment is known or its call is still queued (`KnownOrQueued`); its first byte
is its own, or taken by one of the two ways `EntrypointsKept` names, or its call
is queued or at hand (`KeptOrCalled`). Each rests on calls being put before
jumps and on a wipe or a rollback never dropping a queued call.
`QueuedReachable` says that all that is queued or being scanned is reachable in
the abstract walk; from it each step of the exploration is a step of `CodeReach`
or leaves its variables alone. Completeness is the converse: each destination of
a decoded instruction was decoded, or is still pending in the queue or at the
current place, or lies behind NOPs that were claimed (`Pending`). It is proved
for a program of one segment with base 0 whose calls name their destination and
which has no interrupt that may end it (`OneSegment`): only there does
`CodeReach` know all the control flow. With overlapping segments a destination
in one segment may be dropped for a visited byte of the other; what the run
`ExploreReach` checks has one segment too.

**Code map.** While the bytes are walked over, those before the open block are
parted into blocks that tell the truth about their bytes, and those from it on
have one owner, one segment and no entrypoint but the first (`Walking`,
`Parted`, `Told`, all part of `MapInv`). `FindSegment` takes the last segment
that contains a byte, so another one begins to contain bytes only where it
starts (`NewSegmentBegins`), which is where the open block is closed; a block
lies in the segment it was opened in, and closing it fails only where its
routine's segment does not reach. Types hold without a condition. The other four
are stated for states in which the segments cover the image:

    SegmentsCover == every byte is in a segment, or behind them all and owned by no routine

Without it the walk is wrong, which is a finding and not a gap of the proof:
over a gap between segments the owner is read before the gap is skipped
(`ExploreMapGap`), and code that runs on past the last segment is left out of
the map.

**Comparison.** The invariant

    CInv == CaseTyped /\ HistShape(hist) /\ Good(off, hist.guessed)

says that the offset map has its shape, that its code part is one-to-one where
it was not guessed and that its data part keeps to its limit in both directions.
The guessed places are part of it because a guess may repeat a target address,
and stay left out when a later branch accepts them as they are. A step sends the
map through up to four things, one after the other: the operand's match, the
destinations' match in `instructionsMatch`, the branch that is followed, and the
guess of `checkComparisonStop`. The limit of the data part rests on `dataMatch`
counting the partners of *both* offsets before it adds a pair. `TInv` adds the
types of both queues and of the places; from it nothing the map holds is the
invalid address, so `getCode` tells a known place from an unknown one and no
step replaces what is known. What later steps leave alone is in relations
between states rather than in the invariants: a queue `Grows` and `Adds` only
certain points, a comparison `Continues`, a location was `Walked`. `JInv` keeps
alike what jumps led to, as the map only extends.

That stack offsets are the routine's own (`FrameInv`) rests on the order of the
queue: before a point that is no call they are not forgotten, but such a point
is taken right after it was queued, from the front and for the same routine. It
is proved for maps whose routines share no byte and whose blocks are not empty
(`MapsApart`). The loader sees to the first with `colidesBlock`, but for a
listing; nothing refuses a block that ends before it begins.

`QueuedInv` says where each queued entrypoint is: still queued, at hand,
compared, of an excluded routine, or with an equivalent outside of the image.
`MissedInv` says that when the queue is empty after a comparison, it has known
every routine of the map that was not entered.

`BlocksCompared` is proved for maps laid out like the code (`MapsLaidOut`):
no block ends before it begins, blocks are apart and in the order of their
addresses; a segment that reaches a routine reaches all of it; and there is a
set `S` of places where the instructions are. In `S` are the entrypoint, the
first byte of each routine and block, what is called, and behind each
instruction the next one of its block, and no two instructions share a byte.
A map that an exploration of a compiler's code gives is like this, but neither
the loader nor the comparison looks. Without it the property is false: an
instruction that straddles the end of a block marks the first byte of another
as visited, and that block is passed over. Two ends of a routine are exceptions
of the property, since the code means them: a block whose place is outside of
the image of the target ends the location as a success (analysis.cpp:1138,
`hist.short`), and a skip in the target may take the reference back to where an
earlier skip began, which may be in another location (analysis.cpp:1061,
`hist.strayed`). A rewind within the location's block is no exception.

`WalkInv` says that with such an `S` the queue and the position hold
instructions only (`Within`), that the position is in a block of the routine it
is taken for (`Walking`), and that a reachable block behind a part that was
compared was compared, waits at the front of the queue, or is the one being
reached (`Chained`, `Followed`). So a routine is compared block after block,
and what could break the chain is a block whose first byte was visited as part
of something else, which `S` excludes.

**Data.** Both passes are right up to the place they have reached (`DataInv`).
What it takes is where the segment of a byte ends: at the start of the next one
with a greater base, or with the image; and that `compareData`'s end, which
moves on to further segments, only ever moves on, so a match has compared too
much rather than too little.

**Duplicates.** In each row of the distance table some cell lies on a best way
through: what was spent up to it and what is left after it add up to the
distance, and nowhere to less (`OnTheWay`). The step to the next row takes the
last such cell, since from it a best way leads down or across and not along the
row. So a row that lies above the threshold leaves no way within it, and giving
up is right. Column 0, which the code does not look at, is no exception: a best
way through it has a cell in column 1 that is no larger (`NextOnTheWay`). The
definition is a recursive function on pairs of positions; that it satisfies its
equation, and that neighbouring pairs differ by the cost of the step between
them (`EditsNear`), is all that is used of it.

`SearchInv` says that signatures that have met and share a target are equally
near (`SharesKept`), and that one that lost its target lost it to a nearer one
that still has it (`LossesKept`). It is the first that makes the order of the
meetings irrelevant: all rivals of a new signature are at one distance, so
either all of them are cleared, or it is, or nobody (`MeetAllIs`). When they
are cleared, those that had lost to them have lost to the new one.

**Tracing.** `Traced` says that each known register that is not stale, and each
word of the simulated stack that is not lost, is the machine's. The lemmas say
what setting and wiping a register does to its halves and to the whole it is
part of, for every size of a byte; then each effect of an instruction either
does the same on both sides or puts what it changed into `stale`.

**Code map files.** `Typed` is more than types: a routine that is read has no
valid block both reachable and not, and its annotations are settled, which is
what every line is accepted for.
`Walking` follows the walk that cuts what is unclaimed. Before the open block,
each byte the routines leave is in one block that was cut and no byte of
theirs is in any (`CutTo`), and the bytes from it on have one owner (`Amid`);
that no block overlaps another is what `checkOverlap` has seen to before, and
putting the map in order changes extents but no block. From this
`ClaimsPartTheMap` counts the claims of a byte. `ExtentsIs` says what blocks
that are coalesced into the main block one after the other grow to, from their
order alone: it begins where the main block does, has no byte that is not in
some block, and the next byte is in none. The summary adds up since routines
have different bytes, so the sum of sizes is the number of bytes in them, and
classes of routines apart add up to no more than all (`ApartSum`, `ThreeSums`).
For listings, `Apart` says that the bases that are guessed grow with the order
of the segments, that nothing read so far lies past the position, which every
line moves on by its distance from the line before, and that what lies in a
segment ends below each greater base.

`Returning` is what makes a map come back. Reading again what `save` wrote
needs each step of `loadFromMapFile` to undo one of `routineString`: the name
on a line finds a segment at the base of the routine (`NamedBack`: names of a
map file are its own, though two segments may share a base), the blocks come
back one to one (`BackAgain`), the annotations were settled already
(`TagsBack`), and no line collides with another, because extents have no byte
outside of their blocks (`ColidesApart`). Then the constructor must not fail.
It finds no overlap, as the blocks are the same; but its walk meets the
segments in their order where that of the first load met them in the order of
the file. Blocks that are cut past the first one end where the segment they
were opened in does, whatever the order, and can be closed; the first may be
one that `MemoryError` strikes. That it was not struck the first time means
that it ends short of the multiple of 64K (`ShortMap`), which is said without
the order of the segments and so holds of the second walk (`OrderedShort`,
`SecondWalkByte`). The order leaves a map alone that is in order
(`StaysInOrder`). Nor may the second walk be sent over a gap to a segment behind
the map, where its last block could not be closed: the first came from a byte of
a segment or landed on the first byte of one (`Landed`), so that it ended means
that the map's last byte is in a segment, or one begins right behind it, or
none behind it (`TailHeld`), which again is said without their order and keeps the
second walk from leaving the map by more than a byte (`OnEnd`). The walk of the
loaded map is
not the one of an exploration: there the first block may lie in any segment,
there are many routines instead of one owner, so the two have invariants of
their own.

How the proofs do without induction over data: a set of naturals has a least
member (`LeastExists`), so what holds at 0 and goes on from each number to the
next holds up to a bound (`Upwards`). That gives, for each recursive function a
proof needs, that it exists and satisfies its equation, and then what it
computes (`SaveRoutinesSteps`, `EditsSteps`, `MeetSteps`, `CoalescedIs`). Folds
take an operator and cannot be treated so; what the two folds of `CompareCode`
compute matters to no theorem.

Each invariant that a passing run checks is proved. Only model-checked:

* `Terminates` and `EveryCallTakesItsEntrypoint`: liveness.
* What the table in section 3 refutes.

## 5. Not modelled, and the plan

Proofs still to come: the maps of an exploration without `SegmentsCover`, as
far as they are right (every block that is made tells the truth about the bytes
that are in a segment).

Model still to come: relocation and placing of an image; `Block::cut` and
`splitSegments` (used by unit tests only); the wrap of positions in a
comparison; images of different sizes; two paths of an exploration that share
a simulated stack.

Left out for good: printing, colours, file access, lexing of the text formats,
the opcode tables, the argument parsing of the tools, the Python scripts;
`VariantMap`, which only a unit test uses (the comparison has its own
dictionary, modelled in `CompareCode`); and the CPU emulator with the memory
allocation, DOS loader, PSP and interrupts that serve it. The emulator is
unfinished in the source: most opcodes throw, the length of an instruction is
always 0 so that its `run` never advances, and no tool uses it.
