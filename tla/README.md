# Verification of verifierloop

verifierloop hunts for logic bugs in the Linux eBPF verifier. It runs a C
harness inside a VM, captures what the verifier said about each program, and
judges that in a pipeline of Rust and Python stages that exchange JSON
artifacts. What it finds is only as good as its own plumbing: a report that
mixes two runs, a capture that belongs to somebody else's VM, or an
independent model that is itself wrong, all produce findings about nothing. This
directory states what the plumbing and the models must do, checks it with TLC
on small instances, and proves part of it with TLAPS for every size.

## The system and its parts

| Part | Where | State | Operations |
|---|---|---|---|
| Artifact contract | `crates/contract/src/lib.rs`, `python/.../contract.py` | the files of a period directory, their temporaries | `write_artifact`, `read_artifact` |
| Period loop | `crates/orchestrator/src/loop_runtime.rs`, `period.rs` | period id, exec count, the directory tree | `run_periods`, `run_period` |
| Drivers | `crates/orchestrator/src/driver.rs` | a batch counter or the last VM output file | `pump`, `sources`, `exec_count` |
| Ingest | `crates/pipeline/src/ingest.rs` | `RAW/`, the raw index | copy each source, fingerprint, write the index |
| VM launch and capture | `scripts/run-harness-vm.sh`, `boot-vm.sh`, `config/qemu/*` | the root image, one serial log, one port, `OUT` | inject, boot, extract, classify |
| Pipeline stages | `crates/pipeline/src/{normalize,score,diff,report}.rs`, `python/.../__main__.py` | NORMALIZED, ANOMALY_SCORES, DIFF_FINDINGS, REPORT | one `run` each, in that order |
| Diff oracles | `crates/pipeline/src/diff.rs` | none (pure) | eleven checks of a record, each with a count of what it compared |
| Verifier log parser | `crates/pipeline/src/verifier_log.rs` | none (pure) | a block of text to a record or a gap |
| Ground truth | `crates/pipeline/src/groundtruth/*` | static tables | loaders |
| Live-register model | `harness/bpflive.h` | kfunc table, live-before masks | `bpflive_register_kfunc`, `bpflive_analyse`, `bpflive_compare` |
| Reference interpreter | `harness/bpfref.h` | registers, stack, map value | `bpfref_run*` |
| Subsumption model | `harness/bpfsubs.h`, `scripts/subsume-check.py` | id map, two register lists | `bpfsubs_compare_log` |
| Claim reader | `harness/bpfclaim.h` | the union of the claims for one instruction | `bpfclaim_*` |
| Fuzz loop | `harness/diffharness.c` | corpus, seen program counters, counters, `g_log` | `run_fuzz` |
| Harness families | `harness/diffharness.c` | two array maps, `g_log` | the `--gen-*` families: a list of programs each, swept over inputs; the `--probe-*` ones |
| Composition generator | `harness/diffharness.c` | the recipe so far, `comp_ctx`, the tables of pairs and triples seen | `--gen-comp`: `run_comp_prog` and its pieces |
| Metric schema | `crates/metrics`, `python/.../schemas` | none | type definitions |
| vmctl | `crates/vmctl` | none | stubs without behaviour |
| Campaign and build scripts | `scripts/` | none of their own | command lines around the above |

How they interact:

    run_periods --pump--> driver --> run-harness-vm.sh --> guest: diffharness
        |                                                     |  bpfref, bpflive,
        v  at a boundary                                      v  bpfsubs, bpfclaim
      ingest --RAW--> normalize --NORMALIZED--> score (python) --ANOMALY_SCORES--+
                                      |                                          v
                                      +--------> diff --DIFF_FINDINGS--------> report

Every arrow between stages is a file written by `write_artifact` and read by
`read_artifact`. There are no locks. Two processes of the same program, of
different builds, or an analyzer whose parent was killed, may all work on the
same directory; only the contract's rename stands between them. The VM side
shares more: one image, one serial log, one forwarded port.

What is hard in it, and what makes each part correct:

* **Contract.** Writers race and die in the middle, pids are reused, readers are
  of another build. A reader must see a whole artifact of some writer, or none;
  an artifact once there never disappears; a version is looked at before the
  payload.
* **Period loop.** It is restarted on directories that an earlier process filled,
  with ids and counts from 0 again; any copy may fail; a pump overshoots. What a
  harvest lists must be on disk as described, must be the output of the last pump
  and not of an earlier one, and periods must end.
* **VM launch and capture.** The exit status and two markers are all that comes out
  of a VM that may crash, hang or never start, over a log that is not the run's
  own. `OUT` must be the run's own program blocks, exactly when status 0 says so.
* **Pipeline.** Four stages, any of which fails or is killed, re-run on a directory
  that holds an earlier attempt. A finished run's report must be about that run's
  records and must account for every one of them.
* **Diff oracles.** A check that cannot fail must not be counted as performed, and
  silence in a log is a bound at its extreme, also in the union of several states. A
  verifier without a bug must not be reported.
* **Live-register model.** It is compared with the kernel's own table, and its
  disagreements are read as kernel bugs: a register wrongly called live is a false
  finding, a register wrongly called dead is a missed one.
* **Reference interpreter.** Its arithmetic at width boundaries is the verdict, and its
  test of an address is a sum that wraps.
* **Harness families.** What a generator says of a program must be true of its
  instructions; what a line says of a run must be of that run, whatever calls failed
  before; and a control that must be rejected must leave something to see if it is not.
* **Composition generator.** Pieces are put together at random into arrays nobody
  checks; a bound that one piece proved is used some pieces later.
* **Subsumption model.** Its tables are finite and its predicate depends on order.
* **Fuzz loop.** A log that describes an earlier program, a table that is full, a
  denominator that counts comparisons which could not fail.

`PROJECT.json` lists the hazards one by one, each at its line, with the
property that covers it.

## Modules

| Module | What it is |
|---|---|
| `AtomicStore` | abstract: a map from artifact names to whole artifacts, replaced in one step |
| `ArtifactStore` | the contract step by step; shown to implement `AtomicStore` |
| `ArtifactStoreProofs` | its inductive invariant and theorems |
| `PeriodLoop` | `run_periods`, `run_period`, both drivers, the ingest stage |
| `PeriodLoopProofs` | its inductive invariant and theorems |
| `HarnessVm`, `MCHarnessVm` | `run-harness-vm.sh` and its guest |
| `HarnessVmProofs` | its inductive invariant and theorems |
| `DiffChecks` | the oracles of `diff.rs`: what each finds in a record and what it counts |
| `Pipeline`, `MCPipeline` | normalize, score with its analyzer process, diff, report, over `DiffChecks` |
| `PipelineProofs` | theorems about the processes, the report and the oracles |
| `Bpflive`, `MCBpflive` | the live-register analysis |
| `BpfliveProofs` | theorems about the analysis, and about the interpreter beside it |
| `Isa` | the instructions, and what arithmetic and jumps compute |
| `BpfRef` | the interpreter of `bpfref.h`: one turn of its loop |
| `LiveRef`, `MCLiveRef` | the analysis of a program by `Bpflive`, then two runs of it by `BpfRef`, apart only in registers called dead |
| `Families`, `StateFamilies` | the programs of the generated families, with what the generator says of each |
| `Sweep`, `MCSweep` | loading one of them, its sweep over the inputs, what is printed |
| `CompGen`, `MCCompGen` | the composition generator and a run of the program it makes |
| `CompGenProofs` | its inductive invariant and theorems |
| `FuzzLoop`, `MCFuzzLoop` | `run_fuzz`: corpus, coverage, gate, oracles, store sampling |
| `FuzzLoopProofs` | its inductive invariant and theorems |
| `RegDomains` | the domains of a register: arcs, tnums, the id map |
| `Subsume`, `MCSubsume` | the two readers of prune pairs, over `RegDomains` |
| `SubsumeProofs` | what the tests and the verdicts amount to |

A module and the one with its proofs, or with its instance for TLC (`MC...`), go
together by EXTENDS. `ArtifactStore` instantiates `AtomicStore` under a refinement
mapping; `Subsume` extends `RegDomains`, `Pipeline` extends `DiffChecks`. `BpfRef`
extends `Isa`; `LiveRef` extends `BpfRef` and `Bpflive`, and its specification `RunSpec`
implies that of `Bpflive` (`RunsAnalyse`), so that what is proved of the analysis holds in
it; `Sweep` runs the programs of `StateFamilies` (which extends `Families`) on
registers and memory of `BpfRef`. `PeriodLoop` and `Pipeline` take the
contract at its word: a write of an artifact is one step there, which is what
`ContractIsAtomic` shows it to be.

### ArtifactStore

One process per `Proc`; each is at some point of `write_artifact` (create the
directory, create the temporary, write, flush, rename, or any of them failing) or of
`read_artifact` (read, look at the version, deserialize). `tmp` maps the name of a
temporary file, which the code builds from the canonical path and the pid, to
what is in it; `files` maps canonical paths. A process may die at any point, and its
pid may be given to a new one, which then finds the old temporary. Versions stand
for builds: a payload written by another build does not have the reader's shape.
Power loss is left out: nothing is synced, and the code promises nothing about it.
A payload is a model value, and a file is `whole` or `half` of an artifact.

### PeriodLoop

`pc` follows one process through `run_periods`; `exec`, `id` and `start` are its
locals; `native`, `raw` and `index` are what it leaves in the tree, across processes. The
mock driver has several tools and one file for each, the VM driver has one file that
every pump replaces. Each file carries, as history, the pump that wrote it. Ingest
copies source after source; each copy, each directory and the index may fail, and
the process may be killed between any two of these. A process killed in
`ScriptRunner::run` may leave its script behind (`left`): nobody kills the child, which
goes on to write the VM driver's file, at any time, under later processes. `alone` records,
per period, whether such a script ran when the last pump began; it can only end later, so
this is the exact condition under which a harvest may hold something else than its pump's
output (`HarvestIsFresh`).

### HarnessVm

`run-harness-vm.sh` from the injection on. A run is a record of where its script and
its guest are. The serial log is a function from slots to lines, since two guests write
it with an offset each and a truncation does not reset the other's offset. The guest
prints its begin marker, one block per program and its end marker and then powers off;
at any point, after the end marker too, it may crash (with the kernel's oops on the log) or
hang. A crash after the end marker exits 0 (`fate` is "late"). The copies to `OUT` and to the
crash log may fail or stop half way; `lost` records the crashes whose log could not be kept,
which exit 1. `Exclusive`
says whether the operator runs one VM at a time, as `docs/RUNBOOK.md` asks;
with it a run starts only when the previous one and its VM are gone. Left out: kernel
messages other than an oops, overlapping loop mounts of the image, and a serial log
that cannot be opened. One block takes one slot.

### DiffChecks and Pipeline

`DiffChecks` has the eleven checks of `diff::run` as operators on one record: `Found` is
the set of findings (a kind and a place in the record), `Counted` the set of comparisons
that a denominator counts (its name and a place). A record has the registers of the log
with their tnum, four ranges and whether the bounds were read or made up
(`bounds_from_log`), the runs with their return value or store, the prune probe, the
live-register table, helper arguments and the documented outcome. What the ground truth
says of an argument or a label is part of the record. A word has `2 * Half` bits. The two
ordering findings of a width are one kind with the range's name as its place.

`Pipeline` is one period directory and the processes that work on it one after the other,
each at a stage. `Histories` are the sequences of harvests they parse: a harvest is some
records and some gaps, since the parser is an input. The scores are in hundredths. The
analyzer is a process of its own, because `score` starts it as a
command and `std::process` does not end a child when the parent dies; `orphaned`
keeps those. Each process may fail at every read, write and spawn, and may be killed.

What a finding and a count are worth is said against `Described`, the words that all of
what is printed of a register allows. A finding is a `FalseAlarm` if some word is left
(for a contradiction), if the bounds leave no other constant (for a mismatch), or if a
printed state allows what the run did. A count `CouldFail` if, whichever side of the
comparison is kept, another value of the other side is a finding.

### Bpflive

`Programs` is the set of programs, each a function from its instructions' indexes
to records of an operation kind and fields. `Use`, `Def` and `Succ` are the functions of
the same purpose; a sweep goes backwards over the program (`Visit`), sweep after sweep
(`EndPass`), until nothing changes or the guard of 4 sweeps per instruction a program
may have (`4 * MaxInsn`) runs out. `RegisterKfunc` is `bpflive_register_kfunc` and may
happen before. The comparison with the kernel's table follows, row by row:
`CompareBegins`, `CompareRow`, `CompareEnds`.

### FuzzLoop

One action per phase of an iteration: `Start`, `Load` (generate, load, coverage, corpus),
`Gate` or `SkipGate` (pruning differential, invariants), then for each input `Prepare`, which
clears the output map, and `Run` with the store sampling behind it, or `SkipInput` and `GiveUp`
where a call fails, and `NextProgram`. What a program is, is a record of what the
kernel does with it: its outcome when loaded plainly and with frequent checkpoints (a decision,
one of two limits, EFAULT, or an error that `prune_load_typed` takes for a decision), whether
its log fits, its sites and what they leave in the map, whether the
kernel computes it wrongly. The generator picks any; mutation of a corpus member is
one of the ways to get one. What outlives a program is modelled as it is: the log buffer,
the output map, the list of store sites, the hash table with its probing window, every
counter of the status line. The time budget is `MaxIters`.
No property is stated of a disagreement in the weak direction: the code
prints every flagged rejection that is not one of three limits, also one that failed with EFAULT or
for want of memory, and a property would repeat that guard.

### Isa, BpfRef and LiveRef

A word is 8 units, a half word 4, of `Unit` bits each (8 in the code): every width, every
truncation and every sign extension of the interpreter keeps its place. `Isa` computes
the operations the way the code does, traps included: unsigned and signed division by
zero and of the least number, shift amounts cut to the width, a 32-bit result that clears
the upper half. `Exec` of `BpfRef` is one turn of the interpreter's loop: fetch, the
budget, the register numbers, the class, the memory test. The memory is the three
regions at their bases. `bpfref_resolve` adds the address and the size as machine words,
so the sum may wrap; an access that passes the test so is the status `wild`, after which
C promises nothing.

`LiveRef` has one program in two forms: `text`, the instructions `BpfRef` executes, and `prog`, what
`bpflive.h` sees of them (`Seen`). First the analysis is made, by the actions `Scan`, `Visit` and
`EndPass` of `Bpflive` (`Analysing`); then the program is begun twice (`Begins`), with any
words in the varied registers of the first run and other words in those of the second that
`live_before[0]` calls dead, and both runs turn together (`Turns`). The texts may be
anything but for two things `LiveRefAssumption` says: the second slot of a wide load is
one, as `BPF_LD_IMM64` emits it, and there is no load-acquire. That one the interpreter does
not know, but takes for an atomic store until it has looked up the address: in `dst`, which
the analysis rightly calls dead, so that one run may end out of bounds and the other unsupported.

`RightValue` says what each operation must compute bit by bit or as a property of
integers, not the way `Isa` computes it. `AluIsExact` holds a turn to it, from the operands
before the turn to the register after it, in any program and at any place of it.

### Families, StateFamilies and Sweep

Each family is a set of `Arm`s: the instructions its function emits for one choice of its
parameters, the verdict the generator prints that an exact verifier would reach, and the
offsets or values it prints as possible. Calls to helpers and kfuncs are instructions of
class `call`. Sizes and offsets are the code's; only the bits of a unit are fewer.

`Sweep` loads one arm (the verifier may answer anything), writes an input, zeroes
the output map or the packet, runs the program, reads the output back and prints
a line, for every input of the family. Each call may fail; a failure leaves the maps as they
are, and the code goes on to the next input. The kernel runs a program without the checks
of the interpreter: a store that leaves its object happens beside it.

The families called `Blind` are exempt from one half of `ControlsHaveTeeth`: for them a
verifier that accepts a program it must reject leaves nothing to see in the sweep. The reason
is the sweep itself: it writes the same value of 0 to 7 to all words of the input, so the
register that a path left wide is narrow all the same (`spill`, `frame`, `idpart`, `idmap`),
the slice's end lies in the value that is read back (`dyn`), and how often a
may_goto loop turns decides where a store lands (`loopr`). For these families it is the verdict
alone that tells.

### CompGen

The walk of `run_comp_prog`: `Choose` draws the next piece among those that `comp_can`
allows, `Piece` emits it and updates the context, `Ends` narrows a register, stores and
exits. Kept of the program are the numbers the code keeps or should: instructions, parked
jumps, stack, the noted bound and its register, the slice. Beside it runs one run of the program:
the pieces that change a register change it in the run, a branch may leave it for
the exit. Words are numbers below `Top`, of any size in the proofs.

### RegDomains and Subsume

`RegDomains` has the three tests of `bpfsubs.h`, word width as a parameter: inclusion
of arcs, with the sum that wraps; inclusion of tnums; `check_ids` and
`check_scalar_ids` over a finite map. Beside them stands what an arc and a tnum mean
as sets of words.

In `Subsume` the kernel prints the prunes of several programs (`KernelPrints`, from the
instrumentation patch), each program's log keeps its end only (`LogsAreRead`), and both readers
consume the capture line by line: `c` are the locals of `bpfsubs_compare_log`, which judges a
pair when the next one opens and keeps `MaxReg` rows of a side; `py` those of
`parse_lines`, which keeps everything and judges at the end. Between two programs' logs stands a
`===PROG` line (`NewLog`). The fuzz loop calls the C reader with each log, `--subs` with the whole of its
input (`calls`); the Python reader always reads the whole capture, and passes over that line with its
last pair and the bytes for the next row still in hand. So rows at the beginning of a cut log can go into the
pair of the program before (`Overrun`), and a first row that lost its bytes can get those of
a row that was skipped (`Borrows`). The properties are about the pairs to which neither happens
(`PyMixes`, `CMixes`): of the others they are false in the code.

`Eval` is the predicate of
both, since they agree arm by arm; what differs is what they hand to it (an array
with a limit or a dictionary, an id map of 64 slots or a list), and what they
count. Left out: the predicates of older kernels' formats (an `era` log is read and its
pairs counted, not judged), the Python reader's live masks and liveness counters, which
no count of a pair depends on, and the name of the
arm that broke a pair. The verdicts about a pair are compared with `Covered`, which
says what the kernel claims when it prunes: values are subsets, byte prefixes
agree, and one renaming of ids fits all registers.

The two readers count `nontrivial` differently: C only for pairs that agree, Python also
for pairs that break after a range was compared. `ReadersAgree` therefore leaves that
counter out, and captures with pairs of which the C reader dropped rows.

## Runs

| Run | Instance | What it shows |
|---|---|---|
| `ArtifactStore` | 2 processes, 2 pids, 1 path, 2 versions, 2 payloads | readers have an atomic store: `FilesAreWhole`, `TmpIsMine`, `ReadsAreSound`, and the refinement `AtomicWrites`, which implies `PublishesOwn` and `NeverDisappears` |
| `PeriodLoop` | 2 processes in turn, both drivers, thresholds 0 and 3, batches up to 2, 2 periods | `HarvestMatchesDisk`, `HarvestIsFresh`, `BoundaryBounds`, `IndexAgreesOrOverwritten`, `PeriodsEnd` |
| `HarnessVm` | 3 exclusive runs, two with the same `OUT`, up to 2 programs | `CaptureIsOwn`, `StatusTellsFate`, `FailureKeepsOut`, `ScriptsEnd` |
| `HarnessVmShared` | 2 runs at once on the default port | a counterexample to a document: one run exits 0 with the other's blocks |
| `Pipeline` | words of 4 bits; up to 3 processes over 3 harvests that differ in count and cover most oracles; 1 process over each of 5,655 single records | `ReportAddsUp`, `ReportIsOfItsRun`, `DivergencesAreOwn`; of the oracles `NoFalseFinding`, `CountsCouldFail` |
| `Bpflive` | programs of up to 2 instructions of every kind, of 3 that jump, call or are short, of 4 that jump about, one too long; registrations out of 4 before, in a table of 1; kernel tables of up to 2 rows after the short ones | `LiveIsExact`, `ClaimIsRight`, `Returns` |
| `LiveRef` | units of 1 bit; 1,204 programs: each operation on registers and constants, each jump, each access at ten addresses; words 0, 1, 3, 8, 15, 16, 127, 128, 255 | `AluIsExact`, `DeadIsUnread`, `AccessIsChecked` |
| `Sweep` | units of 2 bits; all 185 arms of nineteen families, 4 or 8 inputs, up to 2 failing calls, loops of up to 4 turns | `ReportIsTheStore`, `LabelsAreTrue`, `ControlsHaveTeeth` |
| `CompGen` | words of 8 bits, recipes of up to 3 of all 14 pieces, bounds 4 and 15, a base that wraps | `ArraysFit`, `BoundIsProven`, `StoreIsInside` |
| `FuzzLoop` | 4 iterations over 8 programs that differ in one respect each, a table of 3 slots probed 2 deep, a corpus of 2, the gate every 3rd, a sample every 2nd | `BlocksAreOwn`, `ResultsAreReal`, `CountsAddUp`, `CoverageAccounted` |
| `FuzzLoopDesync` | a program whose full log does not fit | a counterexample to a comment: a desync that is a full buffer |
| `Subsume` | words of 2 bits; one register of each of 26 kinds against each other, every two states of up to 2 registers out of 7 linked kinds, up to 3 registers against arrays of 2; two prunes of one program or two, three of three; each program's log cut by 0 to 5 or 7 lines; both formats, the C reader called with each log or with the capture | `PairsAreKernels`, `ReadersAgree`, `CandidatesAreReal`, `AgreementsAreCovered` |

Why the bounds are enough. *ArtifactStore*: the races are between two writers or a
writer and a reader of one path; a second path would be independent of the first, and a
third process can only do to either what the second does. Two pids let a dead process's
temporary meet its namesake. *PeriodLoop*: a second process is the first that finds an
old tree, and the first under which a script left behind can write; threshold 3 with two
executions a pump overshoots, threshold 0 ends a period without any pump. *HarnessVm*:
the third run is the first that can be misled by a retry that was itself misled; two
programs tell a short capture from a whole one. *Pipeline*: three processes allow an
orphan of the first to write under the third. *Bpflive*: two instructions suffice for
any two kinds to be adjacent; four with jumps both ways need three sweeps, nested and
crossing loops included. Larger programs are covered by the proofs. *FuzzLoop*: four
iterations pass the gate by number and by novelty and leave a full table and corpus for
a last one; addresses share a home slot, so windows are crowded. *Subsume*: two bits are
enough for an arc to wrap, to be empty and to be everything, which `SubsetIsInclusion`
lifts to any width; two registers are the least that share an id, two prunes the
least that could be joined, and a third program's the first that an earlier one's rows can reach past a log
of which nothing is left; five lines are more than a prune of one register has, and seven leave
nothing but the last row of one with two. *Pipeline's oracles*: 4 bits are the least with a
subregister that has a sign and a range of its own; the registers combine nine tnums,
eight unsigned and four signed ranges with four and three of the subregister, so that
every two trackers agree, overlap, contradict or are silent; two states of a register
are the least of which a union can be too narrow. *LiveRef*: with 8 bits a word the 16-,
32- and 64-bit boundaries of the code are at 2, 4 and 8 bits; the ten addresses are the
edges of all regions and of the address space. *Sweep*: the code's sizes and offsets,
and every input of a word, not only those swept, for what is said of labels; two
failures allow a sentinel to survive one failed call and be read after another.
*CompGen*: three pieces are the least with an unseen triple; the proofs are for all
lengths to 8.

Deadlock is not checked where the program really ends: a script exits, a process
returns or has used up its bounded number of attempts, the analysis or the reading is
done. Only `ArtifactStore` never ends, and is checked for deadlock.

Fairness. `PeriodLoop`: weak fairness of the process's own next step. The loop is
sequential and waits for nothing but the file system and the harness script, and that
script is bounded by `timeout`. Failures and kills are not forced, and nothing is asked
of a script left behind. `HarnessVm`: weak fairness of the script's steps and of
`timeout` ending the VM; nothing is assumed of the guest, which may hang for ever, so
`ScriptsEnd` rests on the timeout alone. `Bpflive`: weak fairness of the one sequential
function. The other specifications state no liveness: `FuzzLoop`, `Sweep` and `CompGen`
are counted loops, and a pipeline process may fail anywhere.

Some modules have a `TypeOK` that no run lists (`HarnessVm`, `Pipeline`, `Bpflive`,
`FuzzLoop`): it is the first conjunct of an inductive invariant, and the runs are kept for
properties a type does not imply. Every one of them is proved.

## Where code and documents disagree

Two are runs that end in a counterexample, listed with the quoted line under
`findings` in `PROJECT.json`.

1. `OPEN-ITEMS.md` says that `OUT` is safe when two VMs collide; it is extracted from
   the shared log after the run's own VM is gone (`HarnessVmShared`).
2. `diffharness.c` says that a rejection of the plain load where the checkpointed one
   accepts comes of unsound pruning only, and elsewhere that ENOSPC is no verdict; the
   plain load's ENOSPC is not looked for (`FuzzLoopDesync`).

The others were met while modelling. A property says what does hold and names the
exception, where it has one.

3. `bpfref.h:84-86` says an access outside every region is NULL; the sum of
   address and size wraps, so one at the end of the address space passes the test and
   resolves to a pointer outside the array. `AccessIsChecked` has the exception, and the
   run reaches it.
4. `diff.rs:907-909` says a union of claims "can only MISS a violation, never fabricate
   one". `admits` (1118) takes a claim for one that allows nothing where the variable part
   of the offset is negative, and claims without a usable bound are left out of the union
   (921), so a store that such a path allows is reported. `NoFalseFinding` is about
   offsets that do not vary below zero.
5. `bpfsubs.h:11-12` says the two readers of prune pairs "must agree on every capture we have". On
   a capture of several programs of which one has lost its beginning, the Python reader puts that
   program's rows into the pair of the one before (`subsume-check.py:185-192`, 239), where the C reader, called
   with each log, skips them; and a row skipped before the first pair leaves its bytes for the next row
   (234). `ReadersAgree` has both as an exception.
6. `diff.rs:800-810` asks of every denominator that its check could have fired.
   `runtime_checked` counts the samples whose union is everything: `have32` is true as
   soon as there is a state, so the guard at 1256 never returns. `reg32_checked` counts
   registers whose tnum is unknown and whose range spans blocks, of which neither comparison can
   fail as they stand. `CountsCouldFail` therefore varies the ranges for the latter and leaves
   the former out. In the other direction `tnum_bounds_inconsistent` and the helper
   findings may come with a denominator of 0.
7. `diffharness.c:7340-7341` says the branch on `base + 4` proves a bound on the base; where
   the base was loaded whole it may have wrapped. `BoundIsProven` has the exception, and
   `StoreIsInside` has it too: such a store lands up to 4 units before the offset that is
   printed, and `SafeStoresAreInside` shows that it stays in the map value.
8. `diffharness.c:7875-7876` says each program's seed replays it alone; the choice of
   pieces also depends on the pairs and triples that earlier programs left seen.
9. `diffharness.c:7601-7604` says ringbuf and skref park a jump each; they park none, and
   the bound it derives holds (`RecipesFit`).
10. `loop_runtime.rs:138` says boundaries fall at N, 2N, 3N; the last pump's overshoot is
   carried into the next period, so they drift. `BoundaryBounds` is what holds: a
   period is between N and N plus a pump long.
11. `report.rs:79` says its exec count is carried through from the upstream artifacts; it is
   that of the scores alone, which may be an orphan's.
12. `diffharness.c:5075-5076` says that with one variable site and one byte the pairing is forced;
   a fixed site's byte may be the one.
13. `diffharness.c:3037` says the loop body branches on `r6 > 7`; it branches on 3, as 3076
   says.

## What is proved

For every value of the constants that satisfies the assumption named.

*ArtifactStoreProofs* (`NoneAssumption`: the null value is none of the others). The invariant
is `TypeOK`, no two living processes with the same pid, the temporary of a process
past its creation holds what that process put there, and every file under a
canonical name is whole. `FilesAreWhole` alone is not inductive: the rename
moves whatever the temporary holds, so it needs `TmpIsMine`, which in turn fails if
two writers share a temporary, so it needs that pids of living processes differ. The theorems:
`TypeCorrect`, `ReaderNeverSeesHalfAFile`, `TemporaryFileIsPrivate`,
`RenamePublishesOwn`, `ArtifactsNeverDisappear`, `ReadersAreSafe`, and
`ContractIsAtomic`, the refinement: initial states map to initial states and every step to a
step of `AtomicStore` or a stutter.

*PeriodLoopProofs* (`PeriodAssumption`). The invariant relates what the process knows
(which sources are copied, what it will list) to what is on disk, and the disk's
index to its files; that no script left behind runs now if none ran when the last pump
began (`AloneSince`) is what keeps the output file the pump's own until it is copied.
`VmTool \notin MockTool` says that the two drivers write different files. `TypeCorrect`, `HarvestsAreOnDisk`,
`HarvestsAreFresh`, `HarvestsAreSpaced`, `IndexesKeepTheirFiles`.

*BpfliveProofs* (`BpfliveAssumption`, at the end `LiveRefAssumption`). For programs of any length: every register in a mask has
a path on which it is read before it is written (`NoFalseClaim`, by an invariant
that extends a path by one instruction per sweep step), every mask is below every solution of
the equations (`LeastFixedPointReached`), at a fixed point the masks are a solution (`DeadIsDead`),
masks only grow (`LivenessIsMonotone`) and a registered kfunc keeps its
arity (`RegistrationsAreFinal`). Together: what the function returns is the least
solution, so it neither reports a false live register nor misses one.
`LiveOnlyGrows` and `ArityIsStable` are proved only; no run repeats them.
The guard of `4 * MaxInsn` sweeps cuts nothing (`GuardCutsNothing`): before sweep `k` all
that is read within `k` steps is live (`Swept`), a path that reads a register first can be cut
down to fewer steps than there are instructions, and so no sweep from number `n` on
changes anything (`Quiet`).
With that `LiveIsExact` is a theorem (`AnalysisIsExact`), against paths. The comparison has an
invariant of its own (`CInv`), over the cells already looked at, for
`ClaimIsOfTheTable`.

The last part is about the interpreter (`LiveRefAssumption`): `DeadRegistersAreUnread` says
`DeadIsUnread` of every program the analysis accepts, with any words, memory, regions and budget.
Two runs are `Twins` when they are the same but for tracked registers. What one instruction makes of
twins that agree on its use set is a lemma per class (`AluFollows`, `LoadFollows`,
`AtomicFollows`, ...), all of one form: they are twins again, they go on to one of the
same places, and agree on what they agreed on and on the def set (`Follows`, `ExecFollows`). The values
computed play no part in it: arithmetic is a function of what the instruction uses, whatever it
computes. The rest is the analysis: the places an instruction goes on to are its successors
(`OnwardIsSucc`), a second slot has nothing to execute (`SlotsAreSlots`, for which `SecondSlot` is
shown to be what its recursion says, `SecondSlotIs`), and at the fixed point (`GuardCutsNothing`) the
use set is live and so is what is live after and not defined. With that `Alike`, agreement on what is
live here, is kept by each turn (`TurnAlike`), and `RInv` is inductive; `DeadIsUnread` alone is
not, for it says nothing of `r10` and the budget.

`AccessesAreChecked` is the action property `AccessIsChecked`, for memory of any layout that
`BpfRefAssumption` allows, any width of a unit and any words. It rests on the type of a run:
registers and memory hold integers at every step (`Valued`, kept by a turn of any instruction: `ExecTurns`),
whatever is computed, read or stored. That in turn takes that a sum over a finite range is an integer (`SumIsInt`, for
bitwise operations and for reads) and that nothing is divided by zero: shift amounts are in range
(`AmountIs`) and moduli positive. Two assumptions are made for it. `PowersDouble` (`Isa`) says that each
power of two up to the width of a word is twice the one before, all that the provers need to be told of `^`;
that powers are positive, increase and multiply is proved from it. `ShiftAssumption` (`LiveRef`) is what `bpfref.h:170-171` says of constant shift
amounts: the verifier refuses others, so the interpreter need not mask them. An address is
then a word, the sum that `bpfref_resolve` compares wraps at most once, and a region passes its test and has
the access in its array exactly when it covers it (`InsideIsCovered`). What an access makes of the run
is one of four outcomes (`Resolved`), which are those the property allows (`ResolvedIsAllowed`). The
property does not speak of an instruction at which the budget is spent: the loop ends before it
is looked at (`Accesses`).

`ArithmeticIsExact` is the action property `AluIsExact`, for words of any width (the run has 8 bits, the
code 64). Both sides are numbers, `Isa`'s by powers and remainders, `RightValue`'s by bits or by a property of
the integers, and they meet in the uniqueness of a quotient and remainder (`DivisionIs`). From it come the bits of a
remainder, a quotient and a product by a power of two (`BitOfLow`, `BitOfQuotient`, `BitOfProduct`), which
are the bits of a truncation and of shifts, and those of a negative number, which are all set from the sign on
(`BitOfSign`), for arithmetic shifts and sign extensions. `And`, `Or` and `Xor` are sums of powers of
two over a set, which the library adds up in an order it chooses: that the sum has just the bits of the
set (`WordOfBits`) is shown for every order, by the least number of summands that would not
(`BitsOfSum`), since the library's induction cannot be instantiated. Signed
division and remainder are the truncated ones, by the signs of the operands (`TruncatedDivides`).
`AluIsRight` puts the operations together, `AluComputes` adds that an instruction writes
what it computed to the register it names and reads its operands before.

*HarnessVmProofs* (`HarnessVmAssumption`). Types hold however runs overlap
(`TypeCorrect`). The rest is under `Exclusive`, as its run is: `CaptureOfOneRun`, `StatusOfOneRun`,
`FailedRunKeepsOut`. The invariant says that one run at most has a script or a VM (`Alone`), that
the image holds the arguments of that run (`ImageIsOwn`), that the shared log holds what its
guest has printed and nothing else, in order, from the truncation on (`LogIsOwn`), that a
script outlives its VM (so that the log it greps is complete), and that `OUT` of a run that is over is what its status says
(`OutIsSettled`). `CaptureIsOwn` alone is not inductive, for nothing in it says whose
lines a capture is about to copy.

*PipelineProofs* (`PipelineAssumption`, `DiffAssumption`). For any histories of any number of
processes: a process past a stage holds what it harvested and what that stage made of it,
unless an analyzer was orphaned (`Held`, `OwnScores`, `OwnFindings`); hence `ReportOfOneRun`,
`DivergencesOfOneRun`. `ReportDropsNothing` is about the join of two judgments whatever they are:
the sort is a permutation, so no record and no total is lost. The two about the oracles are for
words of any even width. `FindingsAreNoFalseAlarms`: a register that has a word is described by what the
verifier printed of it, and whatever any oracle reports contradicts each description, bit by
bit for tnums. `ChecksCanFail`: for each counted comparison another value of the side that was
compared is built, which is a finding.

*FuzzLoopProofs* (`FuzzAssumption`). For any programs, table, window, hash and number of iterations.
`TypeCorrect`; `SampledBlocksAreOwn`, from the site list being that of the program whose log is in
the buffer (`Own`); `ResultFindingsAreReal`, from the output map being clear between `Prepare` and the run (`Clean`),
on every way that leads there; `StatusAddsUp`; `CoverageIsAccounted`, from the
table's probing being into the first free slot of a window and no slot ever being freed (`Cover`),
by an induction over the trace. `DesyncIsPruningWhereLogsFit` says that the violating run
`FuzzLoopDesync` needs a log that does not fit or a load that stops at a limit: where neither is, a
desync is unsound pruning.

*CompGenProofs* (`CompGenAssumption`, `PoolAssumption`). For recipes of any length up to 8, any
number of programs, words of any size. The invariant is `TypeOK`, `Recipe` (the piece about to be
emitted is one that `comp_can` allows), `Room`, `ArraysFit`, `Bounded` and
`StoreIsInside`. `ArraysFit` alone is not inductive, for nothing bounds a piece that is
large; what does is that the large ones come at most once, which `Room` says: after
`step` pieces there are at most `19 + 7 * step + Extra` instructions, `Extra` being what the
pieces used so far have beyond 7, at most 42 in all, and at most `2 + 2 * step` parked jumps.
The stack is above -440 since each piece that takes some looks at it first. `Bounded` adds that a
noted bound has a register and that one through a link is at most 14, so that the offset
printed beside it is one of the value. The theorems: `TypeCorrect`, `RecipesAreWhole` (neither guard
ends a walk early, proved only), `RecipesFit`, `BoundsAreProven`, `SafeStoresAreInside`.

*SubsumeProofs* (`SubsumeAssumption`; the first three theorems need none). For every width: the
test on bases and sizes is inclusion of the words of two arcs (`SubsetIsInclusion`),
by cases on whether the inner arc wraps past the origin of the outer, over a lemma on
the two wrapping operations. For every set of bits: the test on values and masks is
inclusion of words (`TnumInIsInclusion`); the counterexample to the converse is built
bit by bit. For every map with room: a check of two ids succeeds exactly if
the map with that pair is one to one, and then the map has gained just that pair
(`CheckIdsIsOneToOne`). `VerdictsAreReal` composes them over a pair, for any registers and any
rows of them in any order: it says that `Eval` breaks only a pair whose states are not `Covered`, and agrees
on all rows only if they are. A walk over the rows keeps: while it agrees, every register seen is covered
and the map is the union of the pairs of ids they ask for, one to one; once it breaks, either one of them is not
covered or no renaming fits. The new ids the two readers give out come in another
order than the definition's, so that any choice of new ids does is a lemma of its own
(`AnyNewIdsDo`).

What the readers make of a capture, the four properties of the run, is model-checked only. The two
evaluate in id maps of different size, the C reader in one of fixed size, the Python one in one with
room for every row: that this makes no difference while `MaxReg` rows fit is a lemma, `SameEval`.

Only model-checked: the liveness properties (`PeriodsEnd`, `ScriptsEnd`,
`Returns`; fairness is beyond the prover); how the two readers put a capture together (`Subsume`); the families and the sweep (`Sweep`), whose programs are run by
recursive definitions, and whose properties are about 185 concrete programs, to be evaluated
rather than argued about.

## Not modelled

The families that only load a program and print its log (`ptrneg`, `hi`, `pktcmp`,
`probe_t1` and single probes) and `f2probe.c` are fixed lists of instructions whose verdict is
read by a person. `bpfclaim.h` is a string scanner that nothing in the repository calls. The
text grammar of the verifier log and the loaders of the ground truth have no state;
what they answer is an input of `Pipeline` and `DiffChecks`. JSON encoding, wording and
exit codes other than the capture script's are left out, and so is the replay shim.
`vmctl` and the metric schema have no behaviour. The campaign and build
scripts are straight command lines.

## Plan

What is left is proof, of `Subsume` and of `Sweep`. The readers' state does not say which prune a row belongs to, so
an invariant of `Subsume` has to bring the log in: one pair for every opened prune, in order, and what each reader has
of it, those that are mixed excepted. In `Sweep`, once `RunFrom` is written as a function, `ReportIsTheStore` splits into what the
sweep does (zeroing before each run, a failed call making the line an error), which can be proved for any
number of inputs and failures, and the premise that a run of an arm stores all ones, once, which TLC
would evaluate for each arm. `LabelsAreTrue` and `ControlsHaveTeeth` stay with TLC.
