--------------------------- MODULE ArtifactStore ---------------------------
(***************************************************************************)
(* The file-based artifact contract: write_artifact / read_artifact of     *)
(* crates/contract/src/lib.rs and its Python mirror                        *)
(* python/src/verifierloop_analysis/contract.py, used by any number of     *)
(* processes on one data root.  A process may be killed between any two of *)
(* its steps (the pipeline drivers `expect` every stage), a write may fail *)
(* half way (disk full, serialization error), a new process may get the    *)
(* pid of a dead one, and processes may be of builds with different        *)
(* CONTRACT_VERSION.                                                       *)
(***************************************************************************)

CONSTANTS Proc,      \* processes
          Pid,       \* process ids the operating system hands out
          Path,      \* artifact paths (raw index, normalized metrics, ...)
          Version,   \* values of CONTRACT_VERSION among the builds in use
          Payload,   \* artifact payloads, opaque here
          None       \* absent file, dead process's pid, no request

VARIABLES file,      \* file[f]: content under the canonical name, or None
          tmp,       \* tmp[f, i]: content under the name "f.tmp.i", or None
          pid,       \* pid[p]: the pid of a live process, None when it is dead
          build,     \* build[p]: the CONTRACT_VERSION compiled into a live p
          pc,        \* pc[p]: where p is in write_artifact
          req,       \* req[p]: path and artifact of p's current write, or None
          seen       \* seen[p]: the outcome of p's latest read_artifact

vars == <<file, tmp, pid, build, pc, req, seen>>

(***************************************************************************)
(* `Artifact::new` stamps the envelope with the build's CONTRACT_VERSION.  *)
(* A content is an artifact, and whether all of its bytes are there.       *)
(***************************************************************************)
Artifact == [version : Version, payload : Payload]
Content  == [art : Artifact, whole : BOOLEAN]
Request  == [path : Path, art : Artifact]

\* None is none of the things it stands in for.
ASSUME NoneAssumption ==
  None \notin Pid \cup Version \cup Artifact \cup Content \cup Request

Live(p) == pid[p] # None

\* (wrong on purpose) one temporary name for all processes.
UntaggedSibling(f, i) == <<f, CHOOSE j \in Pid : TRUE>>

\* A temp path next to `path`, tagged with the pid.
TmpSibling(f, i) == <<f, i>>

\* The temporary file of p's current write.
TmpOf(p) == TmpSibling(req[p].path, pid[p])

Idle == "idle"
Outcome(kind, art) == [kind |-> kind, art |-> art]
NotRead == Outcome("none", None)

(***************************************************************************)
(* read_artifact: a missing file is an Io error; the header is parsed from *)
(* the whole text, so cut-off JSON is a Json error; then the version is    *)
(* compared, and only a file of the reader's own version has its payload   *)
(* deserialized (another version's payload may have any shape).            *)
(***************************************************************************)
PayloadFirst(c, v) ==     \* (wrong on purpose) deserializes, then compares
  IF c = None THEN Outcome("io", None)
  ELSE IF ~c.whole \/ c.art.version # v THEN Outcome("json", None)
  ELSE Outcome("ok", c.art)

ReadOutcome(c, v) ==
  IF c = None THEN Outcome("io", None)
  ELSE IF ~c.whole THEN Outcome("json", None)
  ELSE IF c.art.version # v THEN Outcome("version", None)
  ELSE Outcome("ok", c.art)

TypeOK ==
  /\ file \in [Path -> Content \cup {None}]
  /\ tmp \in [Path \X Pid -> Content \cup {None}]
  /\ pid \in [Proc -> Pid \cup {None}]
  /\ build \in [Proc -> Version \cup {None}]
  /\ pc \in [Proc -> {Idle, "created", "flushed"}]
  /\ req \in [Proc -> Request \cup {None}]
  /\ seen \in [Proc -> [kind : {"none", "io", "json", "version", "ok"},
                        art : Artifact \cup {None}]]
  /\ \A p \in Proc : /\ Live(p) <=> build[p] # None
                     /\ pc[p] # Idle <=> req[p] # None
                     /\ pc[p] # Idle => Live(p)

Init ==
  /\ file = [f \in Path |-> None]
  /\ tmp = [t \in Path \X Pid |-> None]
  /\ pid = [p \in Proc |-> None]
  /\ build = [p \in Proc |-> None]
  /\ pc = [p \in Proc |-> Idle]
  /\ req = [p \in Proc |-> None]
  /\ seen = [p \in Proc |-> NotRead]

-----------------------------------------------------------------------------
\* p is out of write_artifact, whatever became of its write.
Return(p) ==
  /\ pc' = [pc EXCEPT ![p] = Idle]
  /\ req' = [req EXCEPT ![p] = None]

(* The operating system: processes start, with a pid no live process has,  *)
(* and die at any point, leaving every file as it is.                      *)

Spawn(p) ==
  /\ ~Live(p)
  /\ \E i \in Pid, v \in Version :
       /\ \A q \in Proc : pid[q] # i
       /\ pid' = [pid EXCEPT ![p] = i]
       /\ build' = [build EXCEPT ![p] = v]
  /\ UNCHANGED <<file, tmp, pc, req, seen>>

Die(p) ==
  /\ Live(p)
  /\ pid' = [pid EXCEPT ![p] = None]
  /\ build' = [build EXCEPT ![p] = None]
  /\ Return(p)
  /\ seen' = [seen EXCEPT ![p] = NotRead]
  /\ UNCHANGED <<file, tmp>>

-----------------------------------------------------------------------------
(* write_artifact, in the steps another process can see.                   *)

\* (wrong on purpose) removes the old artifact before writing the new one.
UnlinkFirst(p) ==
  /\ Live(p) /\ pc[p] = Idle
  /\ \E f \in Path, x \in Payload :
       LET art == [version |-> build[p], payload |-> x]
       IN  /\ req' = [req EXCEPT ![p] = [path |-> f, art |-> art]]
           /\ tmp' = [tmp EXCEPT ![TmpSibling(f, pid[p])] =
                                    [art |-> art, whole |-> FALSE]]
           /\ file' = [file EXCEPT ![f] = None]
  /\ pc' = [pc EXCEPT ![p] = "created"]
  /\ UNCHANGED <<pid, build, seen>>

\* File::create(&tmp): the temporary name now holds an empty file, whatever
\* an earlier owner of the pid left there.
CreateTmp(p) ==
  /\ Live(p) /\ pc[p] = Idle
  /\ \E f \in Path, x \in Payload :
       LET art == [version |-> build[p], payload |-> x]
       IN  /\ req' = [req EXCEPT ![p] = [path |-> f, art |-> art]]
           /\ tmp' = [tmp EXCEPT ![TmpSibling(f, pid[p])] =
                                    [art |-> art, whole |-> FALSE]]
  /\ pc' = [pc EXCEPT ![p] = "created"]
  /\ UNCHANGED <<file, pid, build, seen>>

\* to_writer_pretty, the newline and flush succeed: every byte is in the file.
Flush(p) ==
  /\ pc[p] = "created"
  /\ tmp' = [tmp EXCEPT ![TmpOf(p)] = [art |-> req[p].art, whole |-> TRUE]]
  /\ pc' = [pc EXCEPT ![p] = "flushed"]
  /\ UNCHANGED <<file, pid, build, req, seen>>

\* One of them fails: `?` returns the error; the temporary file stays behind.
WriteFails(p) ==
  /\ pc[p] = "created"
  /\ Return(p)
  /\ UNCHANGED <<file, tmp, pid, build, seen>>

\* rename(&tmp, path) moves whatever the temporary name holds.
Rename(p) ==
  /\ pc[p] = "flushed"
  /\ tmp[TmpOf(p)] # None
  /\ file' = [file EXCEPT ![req[p].path] = tmp[TmpOf(p)]]
  /\ tmp' = [tmp EXCEPT ![TmpOf(p)] = None]
  /\ Return(p)
  /\ UNCHANGED <<pid, build, seen>>

\* rename fails: again the temporary file stays behind.
RenameFails(p) ==
  /\ pc[p] = "flushed"
  /\ Return(p)
  /\ UNCHANGED <<file, tmp, pid, build, seen>>

-----------------------------------------------------------------------------
Read(p) ==
  /\ Live(p) /\ pc[p] = Idle
  /\ \E f \in Path : seen' = [seen EXCEPT ![p] = ReadOutcome(file[f], build[p])]
  /\ UNCHANGED <<file, tmp, pid, build, pc, req>>

Next ==
  \E p \in Proc :
    \/ Spawn(p) \/ Die(p)
    \/ CreateTmp(p) \/ Flush(p) \/ WriteFails(p) \/ Rename(p) \/ RenameFails(p)
    \/ Read(p)

Spec == Init /\ [][Next]_vars

-----------------------------------------------------------------------------
(* Properties *)

\* "A reader never sees a partially-written file" (contract/src/lib.rs:227,
\* write_artifact): what stands under a canonical name is whole, whoever was
\* killed, failed or raced on the way there.
FilesAreWhole == \A f \in Path : file[f] # None => file[f].whole

\* The temporary file of a writer is its own: it holds what that writer put
\* there, even when other processes write the same artifact at the same time
\* (tmp_sibling tags the name with the pid for exactly this).
TmpIsMine ==
  \A p \in Proc :
    pc[p] # Idle =>
      tmp[TmpOf(p)] = [art |-> req[p].art, whole |-> pc[p] = "flushed"]

\* A rename publishes the artifact the renaming process was asked to write,
\* never a competitor's.
PublishesOwn ==
  [][\A p \in Proc :
       Rename(p) => file'[req[p].path] = [art |-> req[p].art, whole |-> TRUE]]_vars

\* read_artifact never fails on shape: a file of an incompatible build is
\* reported as VersionMismatch "rather than a confusing payload-shape error"
\* (contract/src/lib.rs:202-204), and what is returned is of the reader's version.
ReadsAreSound ==
  \A p \in Proc :
    /\ seen[p].kind # "json"
    /\ seen[p].kind = "ok" => seen[p].art.version = build[p]

\* Once an artifact exists a reader always finds one: replacing it never
\* leaves a moment without a file.
NeverDisappears ==
  [][\A f \in Path : file[f] # None => file'[f] # None]_vars

\* The contract implements an atomic store: a write takes effect whole, at one
\* instant, or never.  A torn file is mapped to a value no artifact has, so it
\* is no step of the abstract store.
Torn == <<"torn">>
Store ==
  [f \in Path |-> IF file[f] = None THEN None
                  ELSE IF file[f].whole THEN file[f].art ELSE Torn]

Abstract == INSTANCE AtomicStore WITH store <- Store, pending <- req

AtomicWrites == Abstract!Spec

=============================================================================
