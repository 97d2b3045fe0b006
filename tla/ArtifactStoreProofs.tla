------------------------ MODULE ArtifactStoreProofs ------------------------
(***************************************************************************)
(* Proofs about ArtifactStore, for any number of processes, pids, paths,   *)
(* versions and payloads.                                                  *)
(***************************************************************************)
EXTENDS ArtifactStore, TLAPS

\* No two live processes have the same pid (the operating system's promise,
\* in Spawn): what makes the tag of tmp_sibling a name of one's own.
PidsDistinct ==
  \A p, q \in Proc : Live(p) /\ Live(q) /\ pid[p] = pid[q] => p = q

\* The inductive invariant: FilesAreWhole alone is not, since a Rename moves
\* whatever the temporary name holds; that name is the writer's own only
\* because live pids are distinct.
IInv == TypeOK /\ PidsDistinct /\ TmpIsMine /\ FilesAreWhole

USE NoneAssumption

LEMMA InitIInv == Init => IInv
BY DEF Init, IInv, TypeOK, PidsDistinct, TmpIsMine, FilesAreWhole, Live, Idle,
       NotRead, Outcome

LEMMA SpawnIInv == ASSUME IInv, NEW p \in Proc, Spawn(p) PROVE IInv'
BY DEF Spawn, IInv, TypeOK, PidsDistinct, TmpIsMine, FilesAreWhole, Live, Idle,
       TmpOf, TmpSibling

LEMMA DieIInv == ASSUME IInv, NEW p \in Proc, Die(p) PROVE IInv'
BY DEF Die, Return, IInv, TypeOK, PidsDistinct, TmpIsMine, FilesAreWhole, Live,
       Idle, TmpOf, TmpSibling, NotRead, Outcome

LEMMA CreateTmpIInv == ASSUME IInv, NEW p \in Proc, CreateTmp(p) PROVE IInv'
<1> PICK f \in Path, x \in Payload :
      LET art == [version |-> build[p], payload |-> x]
      IN  /\ req' = [req EXCEPT ![p] = [path |-> f, art |-> art]]
          /\ tmp' = [tmp EXCEPT ![TmpSibling(f, pid[p])] =
                                   [art |-> art, whole |-> FALSE]]
  BY DEF CreateTmp
<1> DEFINE art == [version |-> build[p], payload |-> x]
           mine == [path |-> f, art |-> art]
<1>0. /\ Live(p) /\ pc[p] = Idle /\ pc' = [pc EXCEPT ![p] = "created"]
      /\ UNCHANGED <<file, pid, build, seen>>
      /\ TypeOK /\ PidsDistinct /\ TmpIsMine /\ FilesAreWhole
  BY DEF CreateTmp, IInv
<1>1. /\ art \in Artifact /\ mine \in Request /\ mine # None
      /\ <<f, pid[p]>> \in Path \X Pid
      /\ [art |-> art, whole |-> FALSE] \in Content
  BY <1>0 DEF TypeOK, Live, Artifact, Request, Content
<1>2. TypeOK'
  BY <1>0, <1>1 DEF TypeOK, TmpSibling, Live, Idle
<1>3. PidsDistinct' /\ FilesAreWhole'
  BY <1>0 DEF PidsDistinct, Live, FilesAreWhole
<1>4. ASSUME NEW q \in Proc, pc'[q] # Idle
      PROVE  tmp'[TmpOf(q)'] = [art |-> req'[q].art, whole |-> pc'[q] = "flushed"]
  <2>1. CASE q = p
    <3>1. req'[p] = mine /\ pc'[p] = "created" /\ pid'[p] = pid[p]
      BY <1>0 DEF TypeOK
    <3>2. tmp'[<<f, pid[p]>>] = [art |-> art, whole |-> FALSE]
      BY <1>0, <1>1 DEF TypeOK, TmpSibling
    <3>3. TmpOf(p)' = <<f, pid[p]>>
      BY <3>1 DEF TmpOf, TmpSibling
    <3>4. req'[p].art = art /\ (pc'[p] = "flushed") = FALSE
      BY <3>1
    <3>. QED  BY <2>1, <3>2, <3>3, <3>4
  <2>2. CASE q # p
    <3>1. pc[q] # Idle /\ req'[q] = req[q] /\ pc'[q] = pc[q] /\ pid'[q] = pid[q]
      BY <1>0, <1>4, <2>2 DEF TypeOK
    <3>2. Live(q) /\ pid[q] # pid[p]
      BY <1>0, <2>2, <3>1 DEF TypeOK, PidsDistinct
    <3>3. req[q] \in Request /\ <<req[q].path, pid[q]>> \in Path \X Pid
      BY <1>0, <3>1, <3>2 DEF TypeOK, Live, Request
    <3>4. tmp'[<<req[q].path, pid[q]>>] = tmp[<<req[q].path, pid[q]>>]
      BY <1>0, <3>2, <3>3 DEF TypeOK, TmpSibling
    <3>. QED  BY <1>0, <3>1, <3>4 DEF TmpOf, TmpSibling, TmpIsMine
  <2>. QED  BY <2>1, <2>2
<1>. QED  BY <1>2, <1>3, <1>4 DEF IInv, TmpIsMine

LEMMA FlushIInv == ASSUME IInv, NEW p \in Proc, Flush(p) PROVE IInv'
<1>0. /\ pc[p] = "created" /\ pc' = [pc EXCEPT ![p] = "flushed"]
      /\ tmp' = [tmp EXCEPT ![TmpOf(p)] = [art |-> req[p].art, whole |-> TRUE]]
      /\ UNCHANGED <<file, pid, build, req, seen>>
      /\ TypeOK /\ PidsDistinct /\ TmpIsMine /\ FilesAreWhole
  BY DEF Flush, IInv
<1>1. /\ Live(p) /\ req[p] \in Request /\ TmpOf(p) \in Path \X Pid
      /\ [art |-> req[p].art, whole |-> TRUE] \in Content
  BY <1>0 DEF TypeOK, Live, Idle, Request, Content, TmpOf, TmpSibling
<1>2. TypeOK'
  BY <1>0, <1>1 DEF TypeOK, Live, Idle
<1>3. PidsDistinct' /\ FilesAreWhole'
  BY <1>0 DEF PidsDistinct, Live, FilesAreWhole
<1>4. ASSUME NEW q \in Proc, pc'[q] # Idle
      PROVE  tmp'[TmpOf(q)'] = [art |-> req'[q].art, whole |-> pc'[q] = "flushed"]
  <2>1. CASE q = p
    BY <1>0, <1>1, <2>1 DEF TypeOK, TmpOf, TmpSibling
  <2>2. CASE q # p
    <3>1. pc[q] # Idle /\ pc'[q] = pc[q]
      BY <1>0, <1>4, <2>2 DEF TypeOK
    <3>2. TmpOf(q) # TmpOf(p) /\ TmpOf(q) \in Path \X Pid
      BY <1>0, <1>1, <2>2, <3>1
      DEF TypeOK, PidsDistinct, Live, Request, TmpOf, TmpSibling
    <3>3. tmp'[TmpOf(q)] = tmp[TmpOf(q)]
      BY <1>0, <3>2 DEF TypeOK
    <3>. QED  BY <1>0, <3>1, <3>3 DEF TmpOf, TmpSibling, TmpIsMine
  <2>. QED  BY <2>1, <2>2
<1>. QED  BY <1>2, <1>3, <1>4 DEF IInv, TmpIsMine

LEMMA WriteFailsIInv ==
  ASSUME IInv, NEW p \in Proc, WriteFails(p) \/ RenameFails(p) PROVE IInv'
<1>0. Return(p) /\ UNCHANGED <<file, tmp, pid, build, seen>> /\ IInv
  BY DEF WriteFails, RenameFails
<1>1. TypeOK'
  BY <1>0 DEF IInv, TypeOK, Return, Live, Idle
<1>2. PidsDistinct' /\ FilesAreWhole'
  BY <1>0 DEF IInv, PidsDistinct, FilesAreWhole, Live
<1>3. ASSUME NEW q \in Proc, pc'[q] # Idle
      PROVE  tmp'[TmpOf(q)'] = [art |-> req'[q].art, whole |-> pc'[q] = "flushed"]
  <2>1. q # p /\ pc[q] # Idle /\ pc'[q] = pc[q] /\ req'[q] = req[q]
    BY <1>0, <1>3 DEF IInv, TypeOK, Return
  <2>. QED  BY <1>0, <2>1 DEF IInv, TmpIsMine, TmpOf, TmpSibling
<1>. QED  BY <1>1, <1>2, <1>3 DEF IInv, TmpIsMine

LEMMA RenameIInv == ASSUME IInv, NEW p \in Proc, Rename(p) PROVE IInv'
<1>0. /\ pc[p] = "flushed" /\ Return(p)
      /\ file' = [file EXCEPT ![req[p].path] = tmp[TmpOf(p)]]
      /\ tmp' = [tmp EXCEPT ![TmpOf(p)] = None]
      /\ UNCHANGED <<pid, build, seen>>
      /\ TypeOK /\ PidsDistinct /\ TmpIsMine /\ FilesAreWhole
  BY DEF Rename, IInv
<1>1. /\ Live(p) /\ req[p] \in Request /\ TmpOf(p) \in Path \X Pid
      /\ tmp[TmpOf(p)] = [art |-> req[p].art, whole |-> TRUE]
      /\ tmp[TmpOf(p)] \in Content
  <2>1. Live(p) /\ req[p] \in Request /\ TmpOf(p) \in Path \X Pid
    BY <1>0 DEF TypeOK, Live, Idle, Request, TmpOf, TmpSibling
  <2>2. pc[p] # Idle /\ (pc[p] = "flushed") = TRUE
    BY <1>0 DEF Idle
  <2>3. tmp[TmpOf(p)] = [art |-> req[p].art, whole |-> TRUE]
    BY <1>0, <2>2 DEF TmpIsMine
  <2>. QED  BY <2>1, <2>3 DEF Request, Content
<1>2. TypeOK'
  BY <1>0, <1>1 DEF TypeOK, Return, Live, Idle, Request
<1>3. PidsDistinct'
  BY <1>0 DEF PidsDistinct, Live
<1>4. FilesAreWhole'
  BY <1>0, <1>1 DEF FilesAreWhole, TypeOK, Request
<1>5. ASSUME NEW q \in Proc, pc'[q] # Idle
      PROVE  tmp'[TmpOf(q)'] = [art |-> req'[q].art, whole |-> pc'[q] = "flushed"]
  <2>1. q # p /\ pc[q] # Idle /\ pc'[q] = pc[q] /\ req'[q] = req[q]
    BY <1>0, <1>5 DEF TypeOK, Return
  <2>2. TmpOf(q) # TmpOf(p) /\ TmpOf(q) \in Path \X Pid
    BY <1>0, <1>1, <2>1 DEF TypeOK, PidsDistinct, Live, Request, TmpOf, TmpSibling
  <2>3. tmp'[TmpOf(q)] = tmp[TmpOf(q)]
    BY <1>0, <2>2 DEF TypeOK
  <2>. QED  BY <1>0, <2>1, <2>3 DEF TmpOf, TmpSibling, TmpIsMine
<1>. QED  BY <1>2, <1>3, <1>4, <1>5 DEF IInv, TmpIsMine

LEMMA ReadIInv == ASSUME IInv, NEW p \in Proc, Read(p) PROVE IInv'
<1> PICK f \in Path : seen' = [seen EXCEPT ![p] = ReadOutcome(file[f], build[p])]
  BY DEF Read
<1>0. UNCHANGED <<file, tmp, pid, build, pc, req>> /\ IInv
  BY DEF Read
<1>1. ReadOutcome(file[f], build[p])
        \in [kind : {"none", "io", "json", "version", "ok"},
            art : Artifact \cup {None}]
  BY <1>0 DEF IInv, TypeOK, ReadOutcome, Outcome, Content
<1>2. TypeOK'
  BY <1>0, <1>1 DEF IInv, TypeOK, Live
<1>. QED
  BY <1>0, <1>2
  DEF IInv, PidsDistinct, TmpIsMine, FilesAreWhole, Live, TmpOf, TmpSibling

LEMMA NextIInv == IInv /\ [Next]_vars => IInv'
<1>1. ASSUME IInv, UNCHANGED vars PROVE IInv'
  BY <1>1
  DEF vars, IInv, TypeOK, PidsDistinct, TmpIsMine, FilesAreWhole, Live, TmpOf,
      TmpSibling
<1>2. ASSUME IInv, Next PROVE IInv'
  BY <1>2, SpawnIInv, DieIInv, CreateTmpIInv, FlushIInv, WriteFailsIInv,
     RenameIInv, ReadIInv DEF Next
<1>. QED  BY <1>1, <1>2

\* What write_artifact keeps true between any two steps of any processes: the
\* temporary names are private and what is under a canonical name is whole.
THEOREM Invariance == Spec => []IInv
BY InitIInv, NextIInv, PTL DEF Spec

\* The type invariant, for every value of the constants.
THEOREM TypeCorrect == Spec => []TypeOK
BY Invariance, PTL DEF IInv

\* A reader never finds a half-written file under an artifact's name.
THEOREM ReaderNeverSeesHalfAFile == Spec => []FilesAreWhole
BY Invariance, PTL DEF IInv

\* A writer's temporary file is never touched by another process.
THEOREM TemporaryFileIsPrivate == Spec => []TmpIsMine
BY Invariance, PTL DEF IInv

-----------------------------------------------------------------------------
(* What a step may do.                                                     *)

\* What is renamed into place is what its writer was asked to write.
LEMMA RenamePublishes ==
  ASSUME IInv, NEW p \in Proc, Rename(p)
  PROVE  /\ req[p] \in Request
         /\ tmp[TmpOf(p)] = [art |-> req[p].art, whole |-> TRUE]
<1>1. pc[p] = "flushed" /\ pc[p] # Idle /\ (pc[p] = "flushed") = TRUE
  BY DEF Rename, Idle
<1>. QED  BY <1>1 DEF IInv, TypeOK, TmpIsMine

\* A rename publishes the renaming process's own artifact.
THEOREM RenamePublishesOwn == Spec => PublishesOwn
<1>1. ASSUME IInv, NEW p \in Proc, Rename(p)
      PROVE  file'[req[p].path] = [art |-> req[p].art, whole |-> TRUE]
  BY <1>1, RenamePublishes DEF Rename, IInv, TypeOK, Request
<1>2. IInv /\ [Next]_vars =>
        [\A p \in Proc : Rename(p) =>
           file'[req[p].path] = [art |-> req[p].art, whole |-> TRUE]]_vars
  BY <1>1
<1>. QED  BY <1>2, Invariance, PTL DEF Spec, PublishesOwn

\* An artifact that exists stays readable: no step leaves its name empty.
THEOREM ArtifactsNeverDisappear == Spec => NeverDisappears
<1>1. ASSUME IInv, Next, NEW f \in Path, file[f] # None PROVE file'[f] # None
  <2> PICK p \in Proc :
        Rename(p) \/ UNCHANGED file
    BY <1>1 DEF Next, Spawn, Die, CreateTmp, Flush, WriteFails, RenameFails, Read
  <2>1. CASE Rename(p)
    <3>1. tmp[TmpOf(p)] # None
      BY <2>1 DEF Rename
    <3>. QED  BY <1>1, <2>1, <3>1 DEF Rename, IInv, TypeOK
  <2>2. CASE UNCHANGED file
    BY <1>1, <2>2
  <2>. QED  BY <2>1, <2>2
<1>2. IInv /\ [Next]_vars =>
        [\A f \in Path : file[f] # None => file'[f] # None]_vars
  BY <1>1
<1>. QED  BY <1>2, Invariance, PTL DEF Spec, NeverDisappears

-----------------------------------------------------------------------------
(* What a reader is told.                                                  *)

\* ReadsAreSound is not inductive by itself: a process that starts with
\* another build must not have read anything before it was born.
DeadHaveNotRead == \A p \in Proc : ~Live(p) => seen[p] = NotRead

\* A read reports no shape error and returns only the reader's version.
LEMMA ReadIsSound ==
  ASSUME IInv, NEW f \in Path, NEW v \in Version,
         NEW o, o = ReadOutcome(file[f], v)
  PROVE  o.kind # "json" /\ (o.kind = "ok" => o.art.version = v)
BY DEF ReadOutcome, Outcome, IInv, FilesAreWhole

\* read_artifact never meets JSON it cannot deserialize, and never returns a
\* payload of another version.
THEOREM ReadersAreSafe == Spec => []ReadsAreSound
<1> DEFINE RInv == ReadsAreSound /\ DeadHaveNotRead
<1>1. Init => RInv
  BY DEF Init, ReadsAreSound, DeadHaveNotRead, NotRead, Outcome
<1>2. IInv /\ RInv /\ [Next]_vars => RInv'
  <2> SUFFICES ASSUME IInv, RInv, [Next]_vars PROVE RInv'
    OBVIOUS
  <2>0. TypeOK
    BY DEF IInv
  <2>1. CASE UNCHANGED <<seen, build, pid>>
    BY <2>1 DEF ReadsAreSound, DeadHaveNotRead, Live
  <2>2. ASSUME NEW p \in Proc, Spawn(p) PROVE RInv'
    <3>1. seen[p] = NotRead /\ UNCHANGED seen
      BY <2>2 DEF Spawn, DeadHaveNotRead
    <3>2. \A q \in Proc : q # p => build'[q] = build[q] /\ pid'[q] = pid[q]
      BY <2>0, <2>2 DEF Spawn, TypeOK
    <3>3. pid'[p] # None
      BY <2>0, <2>2 DEF Spawn, TypeOK
    <3>. QED
      BY <3>1, <3>2, <3>3 DEF ReadsAreSound, DeadHaveNotRead, Live, NotRead, Outcome
  <2>3. ASSUME NEW p \in Proc, Die(p) PROVE RInv'
    <3>1. seen'[p] = NotRead
      BY <2>0, <2>3 DEF Die, TypeOK
    <3>2. \A q \in Proc : q # p => /\ build'[q] = build[q] /\ pid'[q] = pid[q]
                                   /\ seen'[q] = seen[q]
      BY <2>0, <2>3 DEF Die, TypeOK
    <3>. QED
      BY <3>1, <3>2 DEF ReadsAreSound, DeadHaveNotRead, Live, NotRead, Outcome
  <2>4. ASSUME NEW p \in Proc, Read(p) PROVE RInv'
    <3> PICK f \in Path : seen' = [seen EXCEPT ![p] = ReadOutcome(file[f], build[p])]
      BY <2>4 DEF Read
    <3>1. build[p] \in Version /\ Live(p) /\ UNCHANGED <<build, pid>>
      BY <2>0, <2>4 DEF Read, TypeOK
    <3>2. seen'[p] = ReadOutcome(file[f], build[p])
      BY <2>0 DEF TypeOK
    <3>3. seen'[p].kind # "json" /\ (seen'[p].kind = "ok" => seen'[p].art.version = build[p])
      BY <3>1, <3>2, ReadIsSound
    <3>4. \A q \in Proc : q # p => seen'[q] = seen[q]
      BY <2>0 DEF TypeOK
    <3>. QED
      BY <3>1, <3>3, <3>4 DEF ReadsAreSound, DeadHaveNotRead, Live
  <2>. QED
    BY <2>1, <2>2, <2>3, <2>4
    DEF Next, vars, CreateTmp, Flush, WriteFails, Rename, RenameFails
<1>. QED  BY <1>1, <1>2, Invariance, PTL DEF Spec

-----------------------------------------------------------------------------
(* The contract implements the atomic store: Rename is where a write takes *)
(* effect, a failure or a death on the way there is an Abort, and nothing  *)
(* else is visible.                                                        *)

LEMMA StoreUnchanged == ASSUME UNCHANGED file PROVE UNCHANGED Store
BY DEF Store

LEMMA InitRefines == Init => Abstract!Init
BY DEF Init, Store, Abstract!Init

LEMMA BeginRefines ==
  ASSUME IInv, NEW p \in Proc, CreateTmp(p) PROVE Abstract!Begin(p)
<1> PICK f \in Path, x \in Payload :
      req' = [req EXCEPT ![p] =
                [path |-> f, art |-> [version |-> build[p], payload |-> x]]]
  BY DEF CreateTmp
<1>1. Live(p) /\ pc[p] = Idle /\ UNCHANGED file /\ TypeOK
  BY DEF CreateTmp, IInv
<1>2. req[p] = None /\ build[p] \in Version
  BY <1>1 DEF TypeOK
<1>3. [path |-> f, art |-> [version |-> build[p], payload |-> x]]
        \in Abstract!Request
  BY <1>2 DEF Abstract!Request, Artifact
<1>. QED  BY <1>1, <1>2, <1>3, StoreUnchanged DEF Abstract!Begin

LEMMA CommitRefines ==
  ASSUME IInv, NEW p \in Proc, Rename(p) PROVE Abstract!Commit(p)
<1>1. /\ req[p] \in Request
      /\ tmp[TmpOf(p)] = [art |-> req[p].art, whole |-> TRUE]
  BY RenamePublishes
<1>2. file' = [file EXCEPT ![req[p].path] = [art |-> req[p].art, whole |-> TRUE]]
  BY <1>1 DEF Rename
<1>3. req' = [req EXCEPT ![p] = None] /\ req[p] # None /\ file \in [Path -> Content \cup {None}]
  BY <1>1 DEF Rename, Return, IInv, TypeOK
<1>4. Store' = [Store EXCEPT ![req[p].path] = req[p].art]
  <2>1. ASSUME NEW f \in Path
        PROVE  Store'[f] = IF f = req[p].path THEN req[p].art ELSE Store[f]
    <3>1. CASE f = req[p].path
      <4>1. file'[f] = [art |-> req[p].art, whole |-> TRUE] /\ file'[f] \in Content
        BY <1>1, <1>2, <1>3, <3>1 DEF Request, Content
      <4>. QED  BY <3>1, <4>1 DEF Store
    <3>2. CASE f # req[p].path
      BY <1>2, <1>3, <3>2 DEF Store
    <3>. QED  BY <3>1, <3>2
  <2>. QED  BY <2>1 DEF Store
<1>. QED  BY <1>3, <1>4 DEF Abstract!Commit

LEMMA AbortRefines ==
  ASSUME IInv, NEW p \in Proc, WriteFails(p) \/ RenameFails(p) \/ Die(p)
  PROVE  Abstract!Abort(p) \/ UNCHANGED <<Store, req>>
<1>1. Return(p) /\ UNCHANGED file /\ TypeOK
  BY DEF WriteFails, RenameFails, Die, IInv
<1>2. CASE req[p] = None
  BY <1>1, <1>2, StoreUnchanged DEF Return, TypeOK
<1>3. CASE req[p] # None
  BY <1>1, <1>3, StoreUnchanged DEF Return, Abstract!Abort
<1>. QED  BY <1>2, <1>3

\* write_artifact and rename together give readers an atomic store.
THEOREM ContractIsAtomic == Spec => AtomicWrites
<1>1. IInv /\ [Next]_vars => [Abstract!Next]_<<Store, req>>
  <2> SUFFICES ASSUME IInv, [Next]_vars
               PROVE  Abstract!Next \/ UNCHANGED <<Store, req>>
    BY DEF Abstract!Next
  <2>1. CASE UNCHANGED <<file, req>>
    BY <2>1, StoreUnchanged
  <2>2. ASSUME NEW p \in Proc, CreateTmp(p) PROVE Abstract!Next
    BY <2>2, BeginRefines DEF Abstract!Next
  <2>3. ASSUME NEW p \in Proc, Rename(p) PROVE Abstract!Next
    BY <2>3, CommitRefines DEF Abstract!Next
  <2>4. ASSUME NEW p \in Proc, WriteFails(p) \/ RenameFails(p) \/ Die(p)
        PROVE  Abstract!Next \/ UNCHANGED <<Store, req>>
    BY <2>4, AbortRefines DEF Abstract!Next
  <2>. QED  BY <2>1, <2>2, <2>3, <2>4 DEF Next, vars, Spawn, Flush, Read
<1>. QED
  BY <1>1, InitRefines, Invariance, PTL
  DEF Spec, AtomicWrites, Abstract!Spec, Abstract!vars

=============================================================================
