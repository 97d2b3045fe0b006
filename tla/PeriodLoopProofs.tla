-------------------------- MODULE PeriodLoopProofs --------------------------
(***************************************************************************)
(* Proofs about the period loop, for any sets of tools and thresholds, any *)
(* batch sizes, and any number of periods and of processes.                *)
(***************************************************************************)
EXTENDS PeriodLoop, FiniteSetTheorems, TLAPS

\* The process has not failed: its harvests are the periods before id.
Healthy == Running \/ pc = "done"

HarvestsArePast ==
  \A i \in Id : harvests[i] # None <=> Healthy /\ i < id

StartIsLastHarvest ==
  Healthy => start = IF id = 0 THEN 0 ELSE harvests[id - 1].exec

PeriodProgress ==
  Running =>
    /\ start <= exec /\ exec < start + threshold + Step
    /\ threshold = 0 => exec = start
    /\ pc = "copying" => exec >= start + threshold
    /\ pc = "pumping" => driver = "vm" /\ exec < start + threshold
    /\ pc = "writing" => driver = "mock" /\ start < exec /\ todo \subseteq MockTool

\* Output of the last pump, unless a script left behind disturbed it.
Fresh(t, b) == \/ b = New(exec)
               \/ ~alone[id] /\ t = VmTool /\ ~b.ok

CopiedSoFar ==
  pc = "copying" =>
    /\ todo \subseteq Sources
    /\ \A t \in Sources \ todo :
         /\ entries[t] # None
         /\ start < exec => Fresh(t, entries[t])
         /\ raw[id][t] = [batch |-> entries[t], by |-> run]

IndexedByNow ==
  \A i \in Id : index[i] # None =>
    /\ index[i].run <= run
    /\ Running /\ index[i].run = run => i < id

NativeIsLastPump ==
  /\ pc \in {"loop", "copying"} /\ start < exec =>
       \A t \in Sources : Fresh(t, native[t])
  /\ pc = "writing" => \A t \in MockTool \ todo : native[t] = New(exec)

\* A script left behind can only end while another process runs: none runs now
\* if none ran when the last pump began.
AloneSince ==
  /\ \/ pc = "pumping"
     \/ pc \in {"loop", "copying"} /\ start < exec /\ driver = "vm"
  /\ alone[id]
  => left = {}

IInv == /\ TypeOK
        /\ HarvestsArePast /\ StartIsLastHarvest /\ PeriodProgress
        /\ CopiedSoFar /\ IndexedByNow /\ NativeIsLastPump /\ AloneSince
        /\ HarvestMatchesDisk /\ HarvestIsFresh /\ BoundaryBounds
        /\ IndexAgreesOrOverwritten

USE DEF Running

LEMMA StepIsPositive == Step \in Nat \ {0} /\ PerPump <= Step /\ MaxBatch <= Step
  BY PeriodAssumption DEF Step

LEMMA NoneIsNothing ==
  /\ None \notin Batch /\ None \notin Blob
  /\ None \notin Index /\ None \notin Harvest
  BY PeriodAssumption

LEMMA InitIInv == Init => IInv
<1> SUFFICES ASSUME Init PROVE IInv
  OBVIOUS
<1>1. TypeOK
  BY PeriodAssumption DEF Init, TypeOK, NoEntries, Id
<1>2. HarvestsArePast /\ StartIsLastHarvest /\ PeriodProgress
  BY DEF Init, HarvestsArePast, StartIsLastHarvest, PeriodProgress, Healthy
<1>3. CopiedSoFar /\ IndexedByNow /\ NativeIsLastPump /\ AloneSince
  BY DEF Init, CopiedSoFar, IndexedByNow, NativeIsLastPump, AloneSince
<1>4. HarvestMatchesDisk /\ HarvestIsFresh /\ BoundaryBounds
      /\ IndexAgreesOrOverwritten
  BY DEF Init, HarvestMatchesDisk, HarvestIsFresh, BoundaryBounds,
         IndexAgreesOrOverwritten
<1> QED
  BY <1>1, <1>2, <1>3, <1>4 DEF IInv

(***************************************************************************)
(* A process that stops drops its harvests; all it may have done to the    *)
(* disk in its last step is to its tools' files and to blobs of the period *)
(* it was in.                                                              *)
(***************************************************************************)
LEMMA FailStep ==
  ASSUME IInv, Running, Fail, UNCHANGED index,
         left' \in SUBSET (0 .. MaxRun),
         native' \in [Tool -> Batch \cup {None}],
         raw' \in [Id -> [Tool -> Blob \cup {None}]],
         \A i \in Id, t \in Tool :
           \/ raw'[i][t] = raw[i][t]
           \/ i = id /\ raw'[i][t] # None /\ raw'[i][t].by = run
  PROVE  IInv'
<1>0. TypeOK /\ IndexedByNow /\ IndexAgreesOrOverwritten
  BY DEF IInv
<1>1. TypeOK'
  BY <1>0 DEF TypeOK, Fail, NoEntries
<1>2. \A i \in Id : harvests'[i] = None
  BY DEF Fail
<1>3. pc' = "failed" /\ run' = run
  BY DEF Fail
<1>4. /\ HarvestsArePast' /\ StartIsLastHarvest' /\ PeriodProgress'
      /\ CopiedSoFar' /\ NativeIsLastPump' /\ AloneSince'
  BY <1>2, <1>3 DEF HarvestsArePast, StartIsLastHarvest, PeriodProgress,
                    CopiedSoFar, NativeIsLastPump, AloneSince, Healthy
<1>5. HarvestMatchesDisk' /\ HarvestIsFresh' /\ BoundaryBounds'
  BY <1>2 DEF HarvestMatchesDisk, HarvestIsFresh, BoundaryBounds
<1>6. IndexedByNow'
  BY <1>0, <1>3 DEF IndexedByNow
<1>7. IndexAgreesOrOverwritten'
  <2> SUFFICES ASSUME NEW i \in Id, index[i] # None, NEW t \in index[i].tools
               PROVE  /\ raw'[i][t] # None
                      /\ \/ raw'[i][t].batch = index[i].entries[t]
                         \/ raw'[i][t].by > index[i].run
    BY DEF IndexAgreesOrOverwritten
  <2>1. index[i] \in Index /\ t \in Tool
    BY <1>0 DEF TypeOK, Index
  <2>2. CASE raw'[i][t] = raw[i][t]
    BY <1>0, <2>2 DEF IndexAgreesOrOverwritten
  <2>3. CASE i = id /\ raw'[i][t] # None /\ raw'[i][t].by = run
    BY <1>0, <2>1, <2>3, SMTT(30) DEF IndexedByNow, TypeOK, Index
  <2> QED
    BY <2>1, <2>2, <2>3
<1> QED
  BY <1>1, <1>4, <1>5, <1>6, <1>7 DEF IInv

(***************************************************************************)
(* Steps of a pump, and the beginning of a harvest, leave alone what       *)
(* earlier periods and processes published.                                *)
(***************************************************************************)
Published == /\ HarvestsArePast /\ StartIsLastHarvest /\ IndexedByNow
             /\ HarvestMatchesDisk /\ HarvestIsFresh /\ BoundaryBounds
             /\ IndexAgreesOrOverwritten

LEMMA QuietStep ==
  ASSUME IInv, Running, pc' \in {"loop", "pumping", "writing", "copying"},
         UNCHANGED <<run, driver, threshold, id, start, harvests, raw, index>>,
         \A i \in Id : i # id => alone'[i] = alone[i]
  PROVE  Published'
<1>1. HarvestsArePast' /\ StartIsLastHarvest' /\ IndexedByNow'
  BY DEF IInv, HarvestsArePast, StartIsLastHarvest, IndexedByNow, Healthy
<1>2. HarvestMatchesDisk' /\ IndexAgreesOrOverwritten'
  BY DEF IInv, HarvestMatchesDisk, IndexAgreesOrOverwritten
<1>3. HarvestIsFresh'
  <2>1. \A i \in Id : harvests[i] # None => alone'[i] = alone[i]
    BY DEF IInv, TypeOK, HarvestsArePast, Id
  <2> QED
    BY <2>1 DEF IInv, HarvestIsFresh
<1>4. BoundaryBounds'
  BY DEF IInv, BoundaryBounds
<1> QED
  BY <1>1, <1>2, <1>3, <1>4 DEF Published

LEMMA LaunchStep == IInv /\ Launch => IInv'
<1> SUFFICES ASSUME IInv, Launch PROVE IInv'
  OBVIOUS
<1>0. TypeOK /\ IndexedByNow /\ IndexAgreesOrOverwritten
  BY DEF IInv
<1>1. TypeOK'
  BY <1>0, PeriodAssumption
  DEF TypeOK, Launch, disk, NoEntries, Id, Batch, Blob, Index
<1>2. \A i \in Id : harvests'[i] = None
  BY DEF Launch
<1>3. /\ pc' = "loop" /\ exec' = 0 /\ id' = 0 /\ start' = 0 /\ todo' = {}
      /\ run' = run + 1 /\ threshold' \in Nat
  BY PeriodAssumption DEF Launch
<1>4. /\ HarvestsArePast' /\ StartIsLastHarvest' /\ CopiedSoFar'
      /\ NativeIsLastPump' /\ AloneSince'
  BY <1>2, <1>3 DEF HarvestsArePast, StartIsLastHarvest, CopiedSoFar,
                    NativeIsLastPump, AloneSince, Healthy, Id
<1>5. PeriodProgress'
  <2>1. exec' = 0 /\ start' = 0 /\ threshold' \in Nat
    BY <1>3
  <2>2. \A x \in Nat : 0 < 0 + x + Step
    BY StepIsPositive
  <2>3. exec' < start' + threshold' + Step
    BY <2>1, <2>2
  <2> QED
    BY <1>3, <2>3 DEF PeriodProgress
<1>6. HarvestMatchesDisk' /\ HarvestIsFresh' /\ BoundaryBounds'
  BY <1>2 DEF HarvestMatchesDisk, HarvestIsFresh, BoundaryBounds
<1>7. IndexedByNow'
  BY <1>0, <1>3 DEF IndexedByNow, TypeOK, Index, Launch, disk
<1>8. IndexAgreesOrOverwritten'
  BY <1>0 DEF IndexAgreesOrOverwritten, Launch, disk
<1> QED
  BY <1>1, <1>4, <1>5, <1>6, <1>7, <1>8 DEF IInv

LEMMA DieStep == IInv /\ Die => IInv'
<1> SUFFICES ASSUME IInv, Die PROVE IInv'
  OBVIOUS
<1>1. TypeOK
  BY DEF IInv
<1>2. left' \in SUBSET (0 .. MaxRun)
  BY <1>1 DEF Die, TypeOK
<1> QED
  BY <1>1, <1>2, FailStep DEF Die, TypeOK, disk

(***************************************************************************)
(* A script left behind touches the output file of the VM driver alone.    *)
(***************************************************************************)
LEMMA LeftBehindStep == IInv /\ LeftBehind => IInv'
<1> SUFFICES ASSUME IInv, NEW r \in left, LeftWrites(r) \/ LeftEnds(r)
             PROVE  IInv'
  BY DEF LeftBehind
<1>0. /\ TypeOK /\ HarvestsArePast /\ StartIsLastHarvest /\ PeriodProgress
      /\ CopiedSoFar /\ IndexedByNow /\ NativeIsLastPump /\ AloneSince
      /\ HarvestMatchesDisk /\ HarvestIsFresh /\ BoundaryBounds
      /\ IndexAgreesOrOverwritten
  BY DEF IInv
<1>1. UNCHANGED <<mem, raw, index>> /\ left' \subseteq left
  BY DEF LeftWrites, LeftEnds, disk
<1>2. TypeOK'
  <2>1. [run |-> r, at |-> 0, ok |-> FALSE] \in Batch
    BY <1>0 DEF TypeOK, Batch
  <2>2. native' \in [Tool -> Batch \cup {None}]
    BY <1>0, <2>1 DEF LeftWrites, LeftEnds, disk, TypeOK
  <2> QED
    BY <1>0, <1>1, <2>2 DEF TypeOK, mem
<1>3. HarvestsArePast' /\ StartIsLastHarvest' /\ PeriodProgress'
  BY <1>0, <1>1 DEF HarvestsArePast, StartIsLastHarvest, PeriodProgress,
                    Healthy, mem
<1>4. CopiedSoFar'
  BY <1>0, <1>1 DEF CopiedSoFar, Fresh, New, Sources, mem
<1>5. IndexedByNow' /\ AloneSince'
  BY <1>0, <1>1 DEF IndexedByNow, AloneSince, mem
<1>6. NativeIsLastPump'
  <2>1. CASE LeftEnds(r)
    BY <1>0, <2>1 DEF NativeIsLastPump, Fresh, New, Sources, LeftEnds, mem, disk
  <2>2. CASE LeftWrites(r)
    <3>1. /\ ~native'[VmTool].ok
          /\ \A t \in Tool \ {VmTool} : native'[t] = native[t]
      BY <1>0, <2>2 DEF LeftWrites, TypeOK, Tool
    <3>2. MockTool \subseteq Tool \ {VmTool}
      BY PeriodAssumption DEF Tool
    <3>3. pc = "writing" => \A t \in MockTool \ todo : native'[t] = New(exec)
      BY <1>0, <3>1, <3>2 DEF NativeIsLastPump
    <3>4. ASSUME pc \in {"loop", "copying"}, start < exec, NEW t \in Sources
          PROVE  Fresh(t, native'[t])
      <4>1. CASE driver = "vm"
        <5>1. ~alone[id] /\ t = VmTool
          BY <1>0, <3>4, <4>1 DEF AloneSince, Sources
        <5> QED
          BY <3>1, <5>1 DEF Fresh
      <4>2. CASE driver # "vm"
        <5>1. t \in MockTool
          BY <4>2 DEF Sources
        <5>2. native'[t] = native[t] /\ Fresh(t, native[t])
          BY <1>0, <3>1, <3>2, <3>4, <5>1 DEF NativeIsLastPump
        <5> QED
          BY <5>2
      <4> QED
        BY <4>1, <4>2
    <3>5. UNCHANGED <<run, driver, pc, exec, id, start, todo, alone>>
      BY <1>1 DEF mem
    <3> QED
      BY <3>3, <3>4, <3>5 DEF NativeIsLastPump, Fresh, New, Sources
  <2> QED
    BY <2>1, <2>2
<1>7. HarvestMatchesDisk' /\ BoundaryBounds' /\ IndexAgreesOrOverwritten'
  BY <1>0, <1>1 DEF HarvestMatchesDisk, BoundaryBounds,
                    IndexAgreesOrOverwritten, mem
<1>8. HarvestIsFresh'
  BY <1>0, <1>1 DEF HarvestIsFresh, mem
<1> QED
  BY <1>2, <1>3, <1>4, <1>5, <1>6, <1>7, <1>8 DEF IInv

LEMMA VmPumpBeginsStep == IInv /\ VmPumpBegins => IInv'
<1> SUFFICES ASSUME IInv, VmPumpBegins PROVE IInv'
  OBVIOUS
<1>0. TypeOK /\ PeriodProgress
  BY DEF IInv
<1>1. TypeOK'
  BY <1>0 DEF TypeOK, VmPumpBegins, disk
<1>2. Published'
  <2>1. \A i \in Id : i # id => alone'[i] = alone[i]
    BY <1>0 DEF VmPumpBegins, TypeOK
  <2> QED
    BY <2>1, QuietStep DEF VmPumpBegins, disk
<1>3. PeriodProgress'
  <2>1. exec \in Nat /\ start \in Nat /\ threshold \in Nat
    BY <1>0, PeriodAssumption DEF TypeOK
  <2>2. start <= exec /\ exec < start + threshold
    BY <1>0, <2>1 DEF VmPumpBegins, IsComplete, ExecsThisPeriod, PeriodProgress
  <2> QED
    BY <1>0, <2>2 DEF PeriodProgress, VmPumpBegins
<1>4. CopiedSoFar' /\ NativeIsLastPump'
  BY DEF CopiedSoFar, NativeIsLastPump, VmPumpBegins
<1>5. AloneSince'
  <2>1. id \in Id
    BY <1>0 DEF VmPumpBegins, TypeOK
  <2> QED
    BY <1>0, <2>1 DEF AloneSince, VmPumpBegins, TypeOK
<1> QED
  BY <1>1, <1>2, <1>3, <1>4, <1>5 DEF IInv, Published

LEMMA VmPumpStep == IInv /\ VmPump => IInv'
<1> SUFFICES ASSUME IInv, VmPump PROVE IInv'
  OBVIOUS
<1>0. TypeOK /\ PeriodProgress /\ AloneSince
  BY DEF IInv
<1>1. PICK n \in 0 .. MaxBatch :
        /\ exec' = exec + Advance(n)
        /\ \E b \in Yield(exec + Advance(n)) :
             native' = [native EXCEPT ![VmTool] = b]
  BY DEF VmPump
<1>2. PICK b \in Yield(exec + Advance(n)) :
        native' = [native EXCEPT ![VmTool] = b]
  BY <1>1
<1>3. Advance(n) \in 1 .. Step
  BY StepIsPositive, PeriodAssumption DEF Advance
<1>4. /\ b \in Batch
      /\ b = New(exec + Advance(n)) \/ (left # {} /\ ~b.ok)
  <2>1. exec + Advance(n) \in Nat
    BY <1>0, <1>3, StepIsPositive DEF TypeOK
  <2>2. New(exec + Advance(n)) \in Batch
    BY <1>0, <2>1 DEF New, Batch, TypeOK
  <2>3. /\ Cut(New(exec + Advance(n))) \in Batch
        /\ ~Cut(New(exec + Advance(n))).ok
    BY <2>2 DEF Cut, New, Batch
  <2>4. \/ b = New(exec + Advance(n))
        \/ left # {} /\ b = Cut(New(exec + Advance(n)))
    BY <1>2 DEF Yield
  <2> QED
    BY <2>2, <2>3, <2>4
<1>5. TypeOK'
  <2>1. exec' \in Nat
    BY <1>0, <1>1, <1>2, <1>3, StepIsPositive DEF TypeOK
  <2>2. native' \in [Tool -> Batch \cup {None}]
    BY <1>0, <1>1, <1>2, <1>4 DEF TypeOK
  <2> QED
    BY <1>0, <2>1, <2>2 DEF TypeOK, VmPump
<1>6. Published'
  BY QuietStep DEF VmPump
<1>7. PeriodProgress'
  <2>1. exec \in Nat /\ start \in Nat /\ threshold \in Nat
    BY <1>0, PeriodAssumption DEF TypeOK
  <2>2. start <= exec /\ exec - start < threshold
    BY <1>0, <2>1 DEF VmPump, PeriodProgress
  <2> QED
    BY <1>1, <1>2, <1>3, <2>1, <2>2, StepIsPositive DEF PeriodProgress, VmPump
<1>8. CopiedSoFar' /\ AloneSince'
  BY <1>0 DEF CopiedSoFar, AloneSince, VmPump
<1>9. NativeIsLastPump'
  <2>1. driver = "vm" /\ native'[VmTool] = b
    BY <1>0, <1>1, <1>2 DEF PeriodProgress, VmPump, TypeOK, Tool
  <2>2. b = New(exec') \/ (~alone[id] /\ ~b.ok)
    BY <1>0, <1>1, <1>2, <1>4 DEF AloneSince, VmPump
  <2> QED
    BY <2>1, <2>2 DEF NativeIsLastPump, Fresh, New, Sources, VmPump
<1> QED
  BY <1>5, <1>6, <1>7, <1>8, <1>9 DEF IInv, Published

LEMMA VmPumpFailsStep == IInv /\ VmPumpFails => IInv'
<1> SUFFICES ASSUME IInv, VmPumpFails PROVE IInv'
  OBVIOUS
<1>0. TypeOK
  BY DEF IInv
<1>1. PICK c \in AfterFailedRun : native' = [native EXCEPT ![VmTool] = c]
  BY DEF VmPumpFails
<1>2. Cut(New(exec)) \in Batch
  BY <1>0 DEF Cut, New, Batch, TypeOK
<1>3. c \in Batch \cup {None}
  BY <1>0, <1>2 DEF AfterFailedRun, TypeOK, Tool
<1>4. native' \in [Tool -> Batch \cup {None}]
  BY <1>0, <1>1, <1>3 DEF TypeOK
<1> QED
  BY <1>0, <1>4, FailStep DEF VmPumpFails, TypeOK

LEMMA MockPumpStep == IInv /\ MockPump => IInv'
<1> SUFFICES ASSUME IInv, MockPump PROVE IInv'
  OBVIOUS
<1>0. TypeOK /\ PeriodProgress
  BY DEF IInv
<1>1. TypeOK'
  BY <1>0, StepIsPositive, PeriodAssumption DEF TypeOK, MockPump, disk, Tool
<1>2. Published'
  BY QuietStep DEF MockPump, disk
<1>3. PeriodProgress'
  <2>1. exec \in Nat /\ start \in Nat /\ threshold \in Nat
    BY <1>0, PeriodAssumption DEF TypeOK
  <2>2. start <= exec /\ exec - start < threshold
    BY <1>0, <2>1 DEF MockPump, IsComplete, ExecsThisPeriod, PeriodProgress
  <2> QED
    BY <2>1, <2>2, StepIsPositive, PeriodAssumption DEF PeriodProgress, MockPump
<1>4. CopiedSoFar' /\ NativeIsLastPump' /\ AloneSince'
  BY DEF CopiedSoFar, NativeIsLastPump, AloneSince, MockPump
<1> QED
  BY <1>1, <1>2, <1>3, <1>4 DEF IInv, Published

LEMMA MockWriteStep == IInv /\ (\E t \in Tool : MockWrite(t)) => IInv'
<1> SUFFICES ASSUME IInv, NEW t \in Tool, MockWrite(t) PROVE IInv'
  OBVIOUS
<1>0. TypeOK /\ PeriodProgress /\ NativeIsLastPump
  BY DEF IInv
<1>1. New(exec) \in Batch
  BY <1>0 DEF New, Batch, TypeOK
<1>2. TypeOK'
  BY <1>0, <1>1 DEF TypeOK, MockWrite
<1>3. Published'
  BY QuietStep DEF MockWrite
<1>4. PeriodProgress' /\ CopiedSoFar' /\ AloneSince'
  BY <1>0 DEF PeriodProgress, CopiedSoFar, AloneSince, MockWrite
<1>5. NativeIsLastPump'
  BY <1>0 DEF NativeIsLastPump, MockWrite, TypeOK, Tool, New
<1> QED
  BY <1>2, <1>3, <1>4, <1>5 DEF IInv, Published

LEMMA MockWriteFailsStep == IInv /\ (\E t \in Tool : MockWriteFails(t)) => IInv'
<1> SUFFICES ASSUME IInv, NEW t \in Tool, MockWriteFails(t) PROVE IInv'
  OBVIOUS
<1>0. TypeOK
  BY DEF IInv
<1>1. PICK c \in {native[t], Cut(New(exec))} : native' = [native EXCEPT ![t] = c]
  BY DEF MockWriteFails
<1>2. Cut(New(exec)) \in Batch
  BY <1>0 DEF Cut, New, Batch, TypeOK
<1>3. native' \in [Tool -> Batch \cup {None}]
  BY <1>0, <1>1, <1>2 DEF TypeOK
<1> QED
  BY <1>0, <1>3, FailStep DEF MockWriteFails, TypeOK

LEMMA MockPumpedStep == IInv /\ MockPumped => IInv'
<1> SUFFICES ASSUME IInv, MockPumped PROVE IInv'
  OBVIOUS
<1>0. TypeOK /\ PeriodProgress /\ NativeIsLastPump
  BY DEF IInv
<1>1. TypeOK'
  BY <1>0 DEF TypeOK, MockPumped, disk
<1>2. Published'
  BY QuietStep DEF MockPumped, disk
<1>3. PeriodProgress' /\ CopiedSoFar' /\ AloneSince'
  BY <1>0 DEF PeriodProgress, CopiedSoFar, AloneSince, MockPumped
<1>4. NativeIsLastPump'
  BY <1>0 DEF NativeIsLastPump, PeriodProgress, Fresh, MockPumped, disk, Sources,
          New
<1> QED
  BY <1>1, <1>2, <1>3, <1>4 DEF IInv, Published

LEMMA HarvestBeginsStep == IInv /\ HarvestBegins => IInv'
<1> SUFFICES ASSUME IInv, HarvestBegins PROVE IInv'
  OBVIOUS
<1>0. TypeOK /\ PeriodProgress /\ NativeIsLastPump /\ AloneSince
  BY DEF IInv
<1>1. TypeOK'
  BY <1>0 DEF TypeOK, HarvestBegins, disk, Sources, Tool, NoEntries
<1>2. Published'
  BY QuietStep DEF HarvestBegins, disk
<1>3. PeriodProgress'
  <2>1. exec \in Nat /\ start \in Nat /\ threshold \in Nat
    BY <1>0, PeriodAssumption DEF TypeOK
  <2>2. start <= exec /\ exec >= start + threshold
    BY <1>0, <2>1 DEF HarvestBegins, IsComplete, ExecsThisPeriod, PeriodProgress
  <2> QED
    BY <1>0, <2>2 DEF PeriodProgress, HarvestBegins
<1>4. CopiedSoFar' /\ NativeIsLastPump' /\ AloneSince'
  BY <1>0 DEF CopiedSoFar, NativeIsLastPump, AloneSince, Fresh, HarvestBegins,
              disk, Sources, New
<1> QED
  BY <1>1, <1>2, <1>3, <1>4 DEF IInv, Published

LEMMA CopyStep == IInv /\ (\E t \in Tool : Copy(t)) => IInv'
<1> SUFFICES ASSUME IInv, NEW t \in Tool, Copy(t) PROVE IInv'
  OBVIOUS
<1>0. TypeOK /\ HarvestsArePast /\ StartIsLastHarvest /\ PeriodProgress
      /\ CopiedSoFar /\ IndexedByNow /\ NativeIsLastPump /\ AloneSince
      /\ HarvestMatchesDisk /\ HarvestIsFresh /\ BoundaryBounds
      /\ IndexAgreesOrOverwritten
  BY DEF IInv
<1> DEFINE new == [batch |-> native[t], by |-> run]
<1>1. /\ pc = "copying" /\ t \in todo /\ native[t] # None
      /\ raw' = [raw EXCEPT ![id][t] = new]
      /\ entries' = [entries EXCEPT ![t] = native[t]]
      /\ todo' = todo \ {t}
      /\ UNCHANGED <<run, driver, threshold, pc, exec, id, start, harvests,
                     alone, left, native, index>>
  BY DEF Copy, Dir
<1>2. id \in Id /\ run \in 0 .. MaxRun /\ new \in Blob
  BY <1>0, <1>1 DEF TypeOK, Blob
<1>3. TypeOK'
  BY <1>0, <1>1, <1>2 DEF TypeOK
<1>4. \A i \in Id \ {id} : raw'[i] = raw[i]
  BY <1>0, <1>1, <1>2 DEF TypeOK
<1>5. \A s \in Tool : raw'[id][s] = IF s = t THEN new ELSE raw[id][s]
  BY <1>0, <1>1, <1>2 DEF TypeOK
<1>6. /\ HarvestsArePast' /\ StartIsLastHarvest' /\ PeriodProgress'
      /\ IndexedByNow'
  BY <1>0, <1>1 DEF HarvestsArePast, StartIsLastHarvest, PeriodProgress,
                    IndexedByNow, Healthy
<1>7. NativeIsLastPump' /\ AloneSince' /\ BoundaryBounds'
  BY <1>0, <1>1 DEF NativeIsLastPump, AloneSince, BoundaryBounds, Fresh,
                    Sources, New
<1>8. CopiedSoFar'
  <2>1. \A s \in Tool : entries'[s] = IF s = t THEN native[t] ELSE entries[s]
    BY <1>0, <1>1 DEF TypeOK
  <2>2. Sources' = Sources /\ Sources \subseteq Tool
    BY <1>1 DEF Sources, Tool
  <2>3. start < exec => Fresh(t, native[t])
    BY <1>0, <1>1, <2>2, PeriodAssumption DEF NativeIsLastPump, CopiedSoFar
  <2> QED
    <3> SUFFICES ASSUME pc = "copying"
                 PROVE  /\ todo' \subseteq Sources
                        /\ \A s \in Sources \ todo' :
                             /\ entries'[s] # None
                             /\ start < exec => Fresh(s, entries'[s])
                             /\ raw'[id][s] = [batch |-> entries'[s], by |-> run]
      BY <1>1, <2>2 DEF CopiedSoFar, Fresh, New
    <3>1. todo' \subseteq Sources
      BY <1>0, <1>1 DEF CopiedSoFar
    <3>2. ASSUME NEW s \in Sources \ todo', s # t
          PROVE  /\ entries'[s] # None
                 /\ start < exec => Fresh(s, entries'[s])
                 /\ raw'[id][s] = [batch |-> entries'[s], by |-> run]
      <4>1. s \in Sources \ todo /\ s \in Tool
        BY <1>1, <2>2, <3>2
      <4>2. entries'[s] = entries[s] /\ raw'[id][s] = raw[id][s]
        BY <1>5, <2>1, <3>2, <4>1
      <4> QED
        BY <1>0, <1>1, <4>1, <4>2 DEF CopiedSoFar
    <3>3. /\ entries'[t] # None
          /\ start < exec => Fresh(t, entries'[t])
          /\ raw'[id][t] = [batch |-> entries'[t], by |-> run]
      BY <1>1, <1>5, <2>1, <2>3
    <3> QED
      BY <3>1, <3>2, <3>3
<1>9. \A i \in Id : harvests[i] # None => i # id
  BY <1>0, <1>2 DEF HarvestsArePast, Id
<1>10. HarvestMatchesDisk'
  BY <1>0, <1>1, <1>4, <1>9 DEF HarvestMatchesDisk
<1>11. HarvestIsFresh'
  BY <1>0, <1>1, <1>4, <1>9 DEF HarvestIsFresh
<1>12. IndexAgreesOrOverwritten'
  <2> SUFFICES ASSUME NEW i \in Id, index[i] # None, NEW s \in index[i].tools
               PROVE  /\ raw'[i][s] # None
                      /\ \/ raw'[i][s].batch = index[i].entries[s]
                         \/ raw'[i][s].by > index[i].run
    BY <1>1 DEF IndexAgreesOrOverwritten
  <2>1. index[i] \in Index /\ s \in Tool
    BY <1>0 DEF TypeOK, Index
  <2>2. CASE i = id /\ s = t
    <3>1. index[i].run < run
      BY <1>0, <1>1, <1>2, <2>1, <2>2 DEF IndexedByNow, Index, Id
    <3>2. raw'[i][s] = new
      BY <1>5, <2>1, <2>2
    <3> QED
      BY <1>2, <2>1, <3>1, <3>2, NoneIsNothing DEF Index
  <2>3. CASE ~(i = id /\ s = t)
    <3>1. raw'[i][s] = raw[i][s]
      BY <1>4, <1>5, <2>1, <2>3
    <3> QED
      BY <1>0, <3>1 DEF IndexAgreesOrOverwritten
  <2> QED
    BY <2>2, <2>3
<1> QED
  BY <1>3, <1>6, <1>7, <1>8, <1>10, <1>11, <1>12 DEF IInv

LEMMA CopyFailsStep == IInv /\ (\E t \in Tool : CopyFails(t)) => IInv'
<1> SUFFICES ASSUME IInv, NEW t \in Tool, CopyFails(t) PROVE IInv'
  OBVIOUS
<1>0. TypeOK /\ Running /\ Fail /\ UNCHANGED <<left, native, index>>
  BY DEF IInv, CopyFails
<1>1. CASE UNCHANGED raw
  BY <1>0, <1>1, FailStep DEF TypeOK
<1>2. CASE /\ native[t] # None
           /\ raw' = [raw EXCEPT ![id][t] = [batch |-> Cut(native[t]), by |-> run]]
  <2>1. [batch |-> Cut(native[t]), by |-> run] \in Blob
    BY <1>0, <1>2 DEF TypeOK, Cut, Batch, Blob
  <2>2. raw' \in [Id -> [Tool -> Blob \cup {None}]]
    BY <1>0, <1>2, <2>1 DEF TypeOK
  <2>3. \A i \in Id, s \in Tool :
          \/ raw'[i][s] = raw[i][s]
          \/ i = id /\ raw'[i][s] # None /\ raw'[i][s].by = run
    BY <1>0, <1>2, <2>1, NoneIsNothing DEF TypeOK
  <2> QED
    BY <1>0, <2>2, <2>3, FailStep DEF TypeOK
<1> QED
  BY <1>1, <1>2 DEF CopyFails, Dir

LEMMA WriteIndexFailsStep == IInv /\ WriteIndexFails => IInv'
  BY FailStep DEF WriteIndexFails, IInv, TypeOK, disk

LEMMA WriteIndexStep == IInv /\ WriteIndex => IInv'
<1> SUFFICES ASSUME IInv, WriteIndex PROVE IInv'
  OBVIOUS
<1>0. TypeOK /\ HarvestsArePast /\ StartIsLastHarvest /\ PeriodProgress
      /\ CopiedSoFar /\ IndexedByNow /\ NativeIsLastPump /\ AloneSince
      /\ HarvestMatchesDisk /\ HarvestIsFresh /\ BoundaryBounds
      /\ IndexAgreesOrOverwritten
  BY DEF IInv
<1> DEFINE idx == [run |-> run, exec |-> exec, tools |-> Sources,
                   entries |-> entries]
           har == [exec |-> exec, files |-> Cardinality(Sources)]
<1>1. /\ pc = "copying" /\ todo = {}
      /\ index' = [index EXCEPT ![id] = idx]
      /\ harvests' = [harvests EXCEPT ![id] = har]
      /\ id' = id + 1 /\ start' = exec
      /\ pc' = IF id + 1 = Count THEN "done" ELSE "loop"
      /\ entries' = NoEntries
      /\ UNCHANGED <<run, driver, threshold, exec, todo, alone, left,
                     native, raw>>
  BY DEF WriteIndex, Dir
<1>2. /\ id \in Nat /\ id < Count /\ Count \in Nat /\ run \in Nat
      /\ exec \in Nat /\ start \in Nat /\ threshold \in Nat
      /\ id \in Id
  BY <1>0, <1>1, PeriodAssumption DEF TypeOK, Id
<1>3. idx \in Index
  BY <1>0, <1>2 DEF TypeOK, Index, Sources, Tool
<1>4. har \in Harvest
  <2>1. IsFiniteSet(Sources)
    BY PeriodAssumption, FS_Singleton DEF Sources
  <2> QED
    BY <1>2, <2>1, FS_CardinalityType DEF Harvest
<1>5. idx # None /\ har # None
  BY <1>3, <1>4, NoneIsNothing
<1>6. TypeOK'
  BY <1>0, <1>1, <1>2, <1>3, <1>4 DEF TypeOK, NoEntries, Id
<1>7. /\ index'[id] = idx /\ harvests'[id] = har
      /\ \A i \in Id \ {id} : index'[i] = index[i] /\ harvests'[i] = harvests[i]
  BY <1>0, <1>1, <1>2 DEF TypeOK
<1>8. \A i \in Id : harvests[i] # None <=> i < id
  BY <1>0, <1>1 DEF HarvestsArePast, Healthy
<1>9. HarvestsArePast'
  BY <1>1, <1>2, <1>5, <1>7, <1>8 DEF HarvestsArePast, Healthy, Id
<1>10. StartIsLastHarvest'
  BY <1>1, <1>2, <1>7 DEF StartIsLastHarvest
<1>11. PeriodProgress'
  <2>1. exec' < start' + threshold' + Step
    BY <1>1, <1>2, StepIsPositive
  <2> QED
    BY <1>1, <1>2, <2>1 DEF PeriodProgress
<1>12. CopiedSoFar' /\ NativeIsLastPump' /\ AloneSince'
  BY <1>1, <1>2 DEF CopiedSoFar, NativeIsLastPump, AloneSince
<1>13. IndexedByNow'
  BY <1>0, <1>1, <1>2, <1>7 DEF IndexedByNow, Id
<1>14. HarvestMatchesDisk'
  <2>1. \A t \in Sources : raw[id][t] = [batch |-> entries[t], by |-> run]
    BY <1>0, <1>1 DEF CopiedSoFar
  <2>2. ASSUME NEW i \in Id \ {id}, harvests'[i] # None
        PROVE  /\ index'[i] # None /\ index'[i].run = run'
               /\ index'[i].exec = harvests'[i].exec
               /\ Cardinality(index'[i].tools) = harvests'[i].files
               /\ \A t \in index'[i].tools :
                    raw'[i][t] = [batch |-> index'[i].entries[t], by |-> run']
    <3>1. index'[i] = index[i] /\ harvests'[i] = harvests[i]
          /\ raw' = raw /\ run' = run
      BY <1>1, <1>7
    <3>2. /\ index[i] # None /\ index[i].run = run
          /\ index[i].exec = harvests[i].exec
          /\ Cardinality(index[i].tools) = harvests[i].files
          /\ \A t \in index[i].tools :
               raw[i][t] = [batch |-> index[i].entries[t], by |-> run]
      BY <1>0, <2>2, <3>1 DEF HarvestMatchesDisk
    <3> QED
      BY <3>1, <3>2
  <2>3. /\ index'[id] # None /\ index'[id].run = run'
        /\ index'[id].exec = harvests'[id].exec
        /\ Cardinality(index'[id].tools) = harvests'[id].files
        /\ \A t \in index'[id].tools :
             raw'[id][t] = [batch |-> index'[id].entries[t], by |-> run']
    BY <1>1, <1>5, <1>7, <2>1
  <2> QED
    BY <2>2, <2>3 DEF HarvestMatchesDisk
<1>15. HarvestIsFresh'
  <2> SUFFICES ASSUME threshold > 0, NEW i \in Id, harvests'[i] # None,
                      NEW t \in index'[i].tools
               PROVE  \/ raw[i][t].batch =
                           [run |-> run, at |-> harvests'[i].exec, ok |-> TRUE]
                      \/ ~alone[i] /\ t = VmTool /\ ~raw[i][t].batch.ok
    BY <1>1 DEF HarvestIsFresh
  <2>1. CASE i # id
    BY <1>0, <1>1, <1>7, <2>1 DEF HarvestIsFresh
  <2>2. CASE i = id
    <3>1. t \in Sources /\ start < exec
      BY <1>0, <1>1, <1>2, <1>7, <2>2 DEF PeriodProgress
    <3>2. Fresh(t, entries[t])
      BY <1>0, <1>1, <3>1 DEF CopiedSoFar
    <3>3. raw[id][t] = [batch |-> entries[t], by |-> run]
      BY <1>0, <1>1, <3>1 DEF CopiedSoFar
    <3>4. Fresh(t, raw[i][t].batch)
      BY <2>2, <3>2, <3>3
    <3>5. harvests'[i].exec = exec
      BY <1>7, <2>2
    <3> QED
      BY <2>2, <3>4, <3>5 DEF Fresh, New
  <2> QED
    BY <2>1, <2>2
<1>16. BoundaryBounds'
  <2> SUFFICES ASSUME NEW i \in Id, harvests'[i] # None
               PROVE  LET from == IF i = 0 THEN 0 ELSE harvests'[i - 1].exec
                      IN  /\ i > 0 => harvests'[i - 1] # None
                          /\ harvests'[i].exec >= from + threshold
                          /\ harvests'[i].exec < from + threshold + Step
                          /\ threshold = 0 => harvests'[i].exec = from
    BY <1>1 DEF BoundaryBounds
  <2>1. i <= id
    BY <1>1, <1>2, <1>7, <1>8 DEF Id
  <2>2. i > 0 => i - 1 \in Id \ {id} /\ harvests'[i - 1] = harvests[i - 1]
                 /\ harvests[i - 1] # None
    BY <1>2, <1>7, <1>8, <2>1 DEF Id
  <2>3. CASE i # id
    <3>1. harvests'[i] = harvests[i] /\ harvests[i] # None
      BY <1>7, <2>3
    <3>2. /\ i > 0 => harvests[i - 1] # None
          /\ harvests[i].exec >=
               (IF i = 0 THEN 0 ELSE harvests[i - 1].exec) + threshold
          /\ harvests[i].exec <
               (IF i = 0 THEN 0 ELSE harvests[i - 1].exec) + threshold + Step
          /\ threshold = 0 =>
               harvests[i].exec = IF i = 0 THEN 0 ELSE harvests[i - 1].exec
      BY <1>0, <3>1 DEF BoundaryBounds
    <3>3. i # 0 => harvests'[i - 1] = harvests[i - 1]
      BY <2>2 DEF Id
    <3> QED
      BY <3>1, <3>2, <3>3
  <2>4. CASE i = id
    <3>1. start = IF i = 0 THEN 0 ELSE harvests'[i - 1].exec
      BY <1>0, <1>1, <1>2, <2>2, <2>4 DEF StartIsLastHarvest, Healthy, Id
    <3>2. /\ exec >= start + threshold /\ exec < start + threshold + Step
          /\ threshold = 0 => exec = start
      BY <1>0, <1>1 DEF PeriodProgress
    <3> QED
      BY <1>7, <2>2, <2>4, <3>1, <3>2
  <2> QED
    BY <2>3, <2>4
<1>17. IndexAgreesOrOverwritten'
  <2> SUFFICES ASSUME NEW i \in Id, index'[i] # None, NEW t \in index'[i].tools
               PROVE  /\ raw[i][t] # None
                      /\ \/ raw[i][t].batch = index'[i].entries[t]
                         \/ raw[i][t].by > index'[i].run
    BY <1>1 DEF IndexAgreesOrOverwritten
  <2>1. CASE i # id
    BY <1>0, <1>7, <2>1 DEF IndexAgreesOrOverwritten
  <2>2. CASE i = id
    <3>0. t \in Sources /\ t \in Tool
      BY <1>1, <1>7, <2>2 DEF Sources, Tool
    <3>1. entries[t] \in Batch
      BY <1>0, <1>1, <3>0 DEF CopiedSoFar, TypeOK
    <3>2. raw[id][t] = [batch |-> entries[t], by |-> run]
      BY <1>0, <1>1, <3>0 DEF CopiedSoFar
    <3>3. raw[id][t] \in Blob
      BY <1>2, <1>0, <1>1, <3>1, <3>2 DEF TypeOK, Blob
    <3> QED
      BY <1>7, <2>2, <3>0, <3>2, <3>3, NoneIsNothing
  <2> QED
    BY <2>1, <2>2
<1> QED
  BY <1>6, <1>9, <1>10, <1>11, <1>12, <1>13, <1>14, <1>15, <1>16, <1>17 DEF IInv

LEMMA NextIInv == IInv /\ [Next]_vars => IInv'
<1> SUFFICES ASSUME IInv, [Next]_vars PROVE IInv'
  OBVIOUS
<1>1. CASE UNCHANGED vars
  <2> USE <1>1 DEF vars, mem, disk, IInv
  <2>1. TypeOK'
    BY DEF TypeOK
  <2>2. HarvestsArePast' /\ StartIsLastHarvest' /\ PeriodProgress'
    BY DEF HarvestsArePast, StartIsLastHarvest, PeriodProgress, Healthy
  <2>3. CopiedSoFar'
    BY DEF CopiedSoFar, Fresh, New, Sources
  <2>4. IndexedByNow'
    BY DEF IndexedByNow
  <2>5. NativeIsLastPump' /\ AloneSince'
    BY DEF NativeIsLastPump, AloneSince, Fresh, Sources, New
  <2>6. HarvestMatchesDisk' /\ HarvestIsFresh'
    BY DEF HarvestMatchesDisk, HarvestIsFresh
  <2>7. BoundaryBounds' /\ IndexAgreesOrOverwritten'
    BY DEF BoundaryBounds, IndexAgreesOrOverwritten
  <2> QED
    BY <2>1, <2>2, <2>3, <2>4, <2>5, <2>6, <2>7
<1>2. CASE Next
  BY <1>2, LaunchStep, DieStep, LeftBehindStep, VmPumpBeginsStep, VmPumpStep, VmPumpFailsStep,
     MockPumpStep, MockWriteStep, MockWriteFailsStep, MockPumpedStep,
     HarvestBeginsStep, CopyStep, CopyFailsStep, WriteIndexStep,
     WriteIndexFailsStep
  DEF Next, Work
<1> QED
  BY <1>1, <1>2

\* The inductive invariant behind the theorems below: what a process has in
\* memory between two steps of the loop, against what it left on disk.
THEOREM Invariance == Spec => []IInv
  BY InitIInv, NextIInv, PTL DEF Spec

\* Every variable of the loop and of the disk keeps its type.
THEOREM TypeCorrect == Spec => []TypeOK
  BY Invariance, PTL DEF IInv

\* A harvest run_periods returns is on disk as the harvest describes it.
THEOREM HarvestsAreOnDisk == Spec => []HarvestMatchesDisk
  BY Invariance, PTL DEF IInv

\* With a positive threshold no harvest holds output of an earlier process, a
\* failed harness run or an earlier pump: the last pump's output only, except
\* for what a script left behind by a killed process writes to the VM driver's
\* file, and then only if it still ran when that pump began.
THEOREM HarvestsAreFresh == Spec => []HarvestIsFresh
  BY Invariance, PTL DEF IInv

\* Consecutive harvests are at least the threshold apart, and less than the
\* threshold plus one pump.
THEOREM HarvestsAreSpaced == Spec => []BoundaryBounds
  BY Invariance, PTL DEF IInv

\* An index on disk always has its files, changed at most by a later process.
THEOREM IndexesKeepTheirFiles == Spec => []IndexAgreesOrOverwritten
  BY Invariance, PTL DEF IInv

=============================================================================
