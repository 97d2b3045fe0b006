----------------------------- MODULE PeriodLoop -----------------------------
(***************************************************************************)
(* The period loop: run_periods / run_period of                            *)
(* crates/orchestrator/src/loop_runtime.rs, the bookkeeping of period.rs,  *)
(* the two drivers of driver.rs, and the ingest stage of                   *)
(* crates/pipeline/src/ingest.rs that ends a period.  One process at a     *)
(* time; it may fail in any call or be killed between any two steps, and   *)
(* the next one starts over, on the same directories, with whatever the    *)
(* earlier ones left there.  A process killed while it waits for the       *)
(* harness script need not take the script with it: the script runs on and *)
(* may write the output file under the processes that follow.              *)
(*                                                                         *)
(* A native output file is abstracted to the batch it holds: which process *)
(* produced it, the cumulative exec count it brought that process to, and  *)
(* whether it is a batch the driver counted, whole (ok) or what a failing  *)
(* write or a failing harness run left behind (not ok).                    *)
(***************************************************************************)
EXTENDS Integers, FiniteSets

CONSTANTS MockTool,    \* tools of MockDriver
          VmTool,      \* the source name of VmHarnessDriver, "diffharness"
          Thresholds,  \* values of LoopConfig::exec_threshold
          PerPump,     \* MockDriver::per_pump, after its max(1)
          MaxBatch,    \* bound: most programs one harness run reports
          Count,       \* periods a process runs
          MaxRun,      \* bound: processes started, and so scripts left behind
          None

VARIABLES run,        \* number of processes started so far
          driver,     \* "vm" or "mock", the driver of the current process
          threshold,  \* its exec_threshold
          pc,         \* where the process is
          exec,       \* the driver's cumulative exec count
          id,         \* period.id
          start,      \* period.exec_start
          todo,       \* tools the current pump or ingest has still to handle
          entries,    \* ingest's catalog so far: tool -> batch copied
          harvests,   \* the Vec<Harvest> of the current process, by period id
          alone,      \* history: alone[i], no script left behind was running
                      \*   when the last pump of period i began
          left,       \* processes killed whose harness script runs on
          native,     \* disk: native[t], what tool t's output file holds
          raw,        \* disk: raw[i][t], the blob of t under periods/<i>/raw
          index       \* disk: index[i], the RAW_INDEX of period i

mem  == <<run, driver, threshold, pc, exec, id, start, todo, entries, harvests,
          alone>>
disk == <<native, raw, index>>
vars == <<mem, left, disk>>

Tool  == MockTool \cup {VmTool}
Id    == 0 .. Count - 1
Step  == IF MaxBatch > PerPump THEN MaxBatch ELSE PerPump   \* most execs a pump adds
\* A batch, as a file holds it; a blob also names the process that copied it.
Batch == [run : 0 .. MaxRun, at : Nat, ok : BOOLEAN]
Blob  == [batch : Batch, by : 0 .. MaxRun]
Index == [run : 0 .. MaxRun, exec : Nat, tools : SUBSET Tool,
          entries : [Tool -> Batch \cup {None}]]
Harvest == [exec : Nat, files : Nat]

ASSUME PeriodAssumption ==
  /\ Thresholds \subseteq Nat
  /\ PerPump \in Nat \ {0} /\ MaxBatch \in Nat \ {0}
  /\ Count \in Nat \ {0} /\ MaxRun \in Nat
  /\ IsFiniteSet(MockTool) /\ VmTool \notin MockTool   \* they share no file
  /\ None \notin Batch \cup Blob \cup Index \cup Harvest

Running == pc \in {"loop", "pumping", "writing", "copying"}

\* FuzzDriver::sources.
Sources == IF driver = "vm" THEN {VmTool} ELSE MockTool

\* (wrong on purpose) counts the execs of earlier periods too.
ExecsSoFar == exec

\* Period::is_complete over execs_this_period, a saturating subtraction.
ExecsThisPeriod == IF exec > start THEN exec - start ELSE 0
IsComplete == ExecsThisPeriod >= threshold

New(at) == [run |-> run, at |-> at, ok |-> TRUE]
\* What is left of a batch whose write stopped half way.
Cut(b)  == [b EXCEPT !.ok = FALSE]
NoEntries == [t \in Tool |-> None]

Init ==
  /\ run = 0 /\ driver = "vm" /\ threshold \in Thresholds /\ pc = "off"
  /\ exec = 0 /\ id = 0 /\ start = 0
  /\ todo = {} /\ entries = NoEntries
  /\ harvests = [i \in Id |-> None]
  /\ alone = [i \in Id |-> TRUE] /\ left = {}
  /\ native = [t \in Tool |-> None]
  /\ raw = [i \in Id |-> [t \in Tool |-> None]]
  /\ index = [i \in Id |-> None]

-----------------------------------------------------------------------------
\* An error leaves run_periods through `?`: the harvests so far are dropped.
Fail ==
  /\ pc' = "failed"
  /\ harvests' = [i \in Id |-> None]
  /\ todo' = {} /\ entries' = NoEntries
  /\ UNCHANGED <<run, driver, threshold, exec, id, start, alone>>

\* A process starts: its driver counts from 0, its periods from id 0.
Launch ==
  /\ ~Running /\ run < MaxRun
  /\ run' = run + 1
  /\ driver' \in {"vm", "mock"} /\ threshold' \in Thresholds
  /\ pc' = "loop"
  /\ exec' = 0 /\ id' = 0 /\ start' = 0
  /\ todo' = {} /\ entries' = NoEntries
  /\ harvests' = [i \in Id |-> None]
  /\ alone' = [i \in Id |-> TRUE]
  /\ UNCHANGED <<left, disk>>

\* The process is killed between two steps.  Nobody kills the bash it waits
\* for in ScriptRunner::run: a signal sent to the process alone leaves the
\* script and its VM running.
Die ==
  /\ Running /\ Fail
  /\ \/ UNCHANGED left
     \/ pc = "pumping" /\ left' = left \cup {run}
  /\ UNCHANGED disk

\* A script left behind replaces the output file, or has truncated it and
\* writes it: a batch, or part of one, that no driver counted ...
LeftWrites(r) ==
  /\ r \in left
  /\ native' = [native EXCEPT ![VmTool] = [run |-> r, at |-> 0, ok |-> FALSE]]
  /\ UNCHANGED <<mem, left, raw, index>>

\* ... and ends, having written or not.
LeftEnds(r) ==
  /\ r \in left
  /\ left' = left \ {r}
  /\ UNCHANGED <<mem, disk>>

-----------------------------------------------------------------------------
(* The drivers.                                                            *)

\* (wrong on purpose) trusts the harness to report at least one program.
AtLeastNothing(n) == n

\* n.max(1): a batch of no program still advances the count.
Advance(n) == IF n = 0 THEN 1 ELSE n

\* VmHarnessDriver::pump: the harness script is started ...
VmPumpBegins ==
  /\ pc = "loop" /\ ~IsComplete /\ driver = "vm"
  /\ pc' = "pumping"
  /\ alone' = [alone EXCEPT ![id] = (left = {})]
  /\ UNCHANGED <<run, driver, threshold, exec, id, start, todo, entries,
                 harvests, left, disk>>

\* What a script that succeeds leaves in the output file: its batch, unless a
\* script left behind writes the same file, or runs a VM over the same serial
\* log (run HarnessVmShared), and what is there is of neither or of both.
Yield(at) == {New(at)} \cup {Cut(New(at)) : r \in left}

\* ... it replaces the output file by its batch of n programs, and the count
\* advances by at least one ...
VmPump ==
  /\ pc = "pumping"
  /\ pc' = "loop"
  /\ \E n \in 0 .. MaxBatch :
       /\ exec' = exec + Advance(n)
       /\ \E b \in Yield(exec + Advance(n)) :
            native' = [native EXCEPT ![VmTool] = b]
  /\ UNCHANGED <<run, driver, threshold, id, start, todo, entries,
                 harvests, alone, left, raw, index>>

\* What the output file may hold after a run that failed: as before (no
\* extraction), cut off, or a batch that could not be read back to count.
AfterFailedRun == {native[VmTool], Cut(New(exec))}

\* (wrong on purpose) a failed harness run taken for a batch of no program.
VmPumpShrugs ==
  /\ pc = "pumping" /\ pc' = "loop"
  /\ \E c \in AfterFailedRun : native' = [native EXCEPT ![VmTool] = c]
  /\ exec' = exec + 1
  /\ UNCHANGED <<run, driver, threshold, id, start, todo, entries,
                 harvests, alone, left, raw, index>>

\* ... or ScriptRunner::run returns an error: the script exits non-zero, or its
\* output cannot be read back.
VmPumpFails ==
  /\ pc = "pumping"
  /\ \E c \in AfterFailedRun : native' = [native EXCEPT ![VmTool] = c]
  /\ Fail
  /\ UNCHANGED <<left, raw, index>>

\* MockDriver::pump: the count first, then one file per tool ...
MockPump ==
  /\ pc = "loop" /\ ~IsComplete /\ driver = "mock"
  /\ exec' = exec + PerPump
  /\ todo' = MockTool
  /\ pc' = "writing"
  /\ UNCHANGED <<run, driver, threshold, id, start, entries, harvests, alone,
                 left, disk>>

MockWrite(t) ==
  /\ pc = "writing" /\ t \in todo
  /\ native' = [native EXCEPT ![t] = New(exec)]
  /\ todo' = todo \ {t}
  /\ UNCHANGED <<run, driver, threshold, pc, exec, id, start, entries,
                 harvests, alone, left, raw, index>>

\* ... each of which may fail, leaving the file as it was or cut off.
MockWriteFails(t) ==
  /\ pc = "writing" /\ t \in todo
  /\ \E c \in {native[t], Cut(New(exec))} : native' = [native EXCEPT ![t] = c]
  /\ Fail
  /\ UNCHANGED <<left, raw, index>>

\* pump returns to the loop.
MockPumped ==
  /\ pc = "writing" /\ todo = {}
  /\ pc' = "loop"
  /\ UNCHANGED <<run, driver, threshold, exec, id, start, todo, entries,
                 harvests, alone, left, disk>>

-----------------------------------------------------------------------------
(* The harvest: ingest::run over the driver's sources.                     *)

\* (wrong on purpose) every period is written as the same one.
SamePeriod(i) == 0

\* PeriodPaths::new: each period has the directory named by its id.
Dir(i) == i

HarvestBegins ==
  /\ pc = "loop" /\ IsComplete
  /\ pc' = "copying"
  /\ todo' = Sources /\ entries' = NoEntries
  /\ UNCHANGED <<run, driver, threshold, exec, id, start, harvests, alone,
                 left, disk>>

\* collect_file: the blob is replaced, then the entry recorded.
Copy(t) ==
  /\ pc = "copying" /\ t \in todo /\ native[t] # None
  /\ raw' = [raw EXCEPT ![Dir(id)][t] = [batch |-> native[t], by |-> run]]
  /\ entries' = [entries EXCEPT ![t] = native[t]]
  /\ todo' = todo \ {t}
  /\ UNCHANGED <<run, driver, threshold, pc, exec, id, start, harvests,
                 alone, left, native, index>>

\* The source is missing or unreadable, or the blob could not be written.
CopyFails(t) ==
  /\ pc = "copying" /\ t \in todo
  /\ \/ UNCHANGED raw
     \/ /\ native[t] # None
        /\ raw' = [raw EXCEPT ![Dir(id)][t] = [batch |-> Cut(native[t]), by |-> run]]
  /\ Fail
  /\ UNCHANGED <<left, native, index>>

\* (wrong on purpose) publishes the catalog before every file is copied.
WriteIndexEarly ==
  /\ pc = "copying"
  /\ index' = [index EXCEPT ![Dir(id)] =
                 [run |-> run, exec |-> exec, tools |-> Sources,
                  entries |-> entries]]
  /\ harvests' = [harvests EXCEPT ![id] =
                    [exec |-> exec, files |-> Cardinality(Sources)]]
  /\ id' = id + 1 /\ start' = exec
  /\ pc' = IF id + 1 = Count THEN "done" ELSE "loop"
  /\ entries' = NoEntries
  /\ UNCHANGED <<run, driver, threshold, exec, todo, alone, left,
                 native, raw>>

\* The catalog is published whole (module ArtifactStore), the harvest is
\* pushed, and the next period begins where this one ended.
WriteIndex ==
  /\ pc = "copying" /\ todo = {}
  /\ index' = [index EXCEPT ![Dir(id)] =
                 [run |-> run, exec |-> exec, tools |-> Sources,
                  entries |-> entries]]
  /\ harvests' = [harvests EXCEPT ![id] =
                    [exec |-> exec, files |-> Cardinality(Sources)]]
  /\ id' = id + 1 /\ start' = exec
  /\ pc' = IF id + 1 = Count THEN "done" ELSE "loop"
  /\ entries' = NoEntries
  /\ UNCHANGED <<run, driver, threshold, exec, todo, alone, left,
                 native, raw>>

\* write_artifact fails: the canonical index is as it was.
WriteIndexFails ==
  /\ pc = "copying" /\ todo = {}
  /\ Fail
  /\ UNCHANGED <<left, disk>>

-----------------------------------------------------------------------------
\* One step of run_periods.
Work ==
  \/ VmPumpBegins \/ VmPump \/ VmPumpFails
  \/ MockPump \/ MockPumped
  \/ HarvestBegins \/ WriteIndex \/ WriteIndexFails
  \/ \E t \in Tool : MockWrite(t) \/ MockWriteFails(t) \/ Copy(t) \/ CopyFails(t)

\* A script left behind does something.
LeftBehind == \E r \in left : LeftWrites(r) \/ LeftEnds(r)

Next == Launch \/ Die \/ Work \/ LeftBehind

Spec == Init /\ [][Next]_vars

\* A process that runs keeps running: the loop waits on nobody but the harness
\* script, which `timeout` ends, and the file system.  Nothing is asked of a
\* script left behind.
FairSpec == Spec /\ WF_vars(Work)

-----------------------------------------------------------------------------
TypeOK ==
  /\ run \in 0 .. MaxRun /\ driver \in {"vm", "mock"}
  /\ threshold \in Thresholds
  /\ pc \in {"off", "loop", "pumping", "writing", "copying", "done", "failed"}
  /\ exec \in Nat /\ id \in 0 .. Count /\ start \in Nat
  /\ Running => id \in Id
  /\ todo \in SUBSET Tool
  /\ entries \in [Tool -> Batch \cup {None}]
  /\ harvests \in [Id -> Harvest \cup {None}]
  /\ alone \in [Id -> BOOLEAN] /\ left \in SUBSET (0 .. MaxRun)
  /\ native \in [Tool -> Batch \cup {None}]
  /\ raw \in [Id -> [Tool -> Blob \cup {None}]]
  /\ index \in [Id -> Index \cup {None}]

\* A period the current process harvested is on disk exactly as the harvest
\* says it is: its index is this process's, carries the harvest's exec count
\* and number of files, and every file it lists is there, copied by this
\* process, with the content the index fingerprints.
HarvestMatchesDisk ==
  \A i \in Id : harvests[i] # None =>
    /\ index[i] # None
    /\ index[i].run = run
    /\ index[i].exec = harvests[i].exec
    /\ Cardinality(index[i].tools) = harvests[i].files
    /\ \A t \in index[i].tools :
         raw[i][t] = [batch |-> index[i].entries[t], by |-> run]

\* What a period with a positive threshold harvests is what its last pump
\* left: each blob is a whole, counted batch of this process, produced by the
\* pump that took the count to the harvest's exec count, and never output of
\* an earlier process, of a failed harness run or of an earlier period.  One
\* thing can come in between: a script that a killed process left behind, if
\* it still ran when that pump began.  Then the blob of the VM driver may be
\* output that no driver counted; the mock driver's blobs are never affected.
HarvestIsFresh ==
  threshold > 0 =>
    \A i \in Id : harvests[i] # None =>
      \A t \in index[i].tools :
        LET b == raw[i][t].batch
        IN  \/ b = [run |-> run, at |-> harvests[i].exec, ok |-> TRUE]
            \/ ~alone[i] /\ t = VmTool /\ ~b.ok

\* A harvest is at least `threshold` execs after the one before it, and
\* overshoots by less than one pump; with threshold 0 the boundary is where
\* the period started.
BoundaryBounds ==
  \A i \in Id : harvests[i] # None =>
    LET from == IF i = 0 THEN 0 ELSE harvests[i - 1].exec
    IN  /\ i > 0 => harvests[i - 1] # None
        /\ harvests[i].exec >= from + threshold
        /\ harvests[i].exec < from + threshold + Step
        /\ threshold = 0 => harvests[i].exec = from

\* A file an index lists exists, and differs from what the index fingerprints
\* only if a later process overwrote it (and stopped before its own index).
IndexAgreesOrOverwritten ==
  \A i \in Id : index[i] # None =>
    \A t \in index[i].tools :
      /\ raw[i][t] # None
      /\ \/ raw[i][t].batch = index[i].entries[t]
         \/ raw[i][t].by > index[i].run

\* run_periods returns: every process that starts ends, with its harvests or
\* with an error (a harness that reports no program cannot hold it up).
PeriodsEnd == Running ~> ~Running

=============================================================================
