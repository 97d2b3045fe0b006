---------------------------- MODULE AtomicStore ----------------------------
(***************************************************************************)
(* What the artifact contract promises (crates/contract/src/lib.rs:224-227 *)
(* and the architecture document: "a reader never sees a half file"): a    *)
(* set of named files, each absent or holding one whole artifact, that     *)
(* writers replace in one step or not at all.                              *)
(***************************************************************************)

CONSTANTS Proc,      \* the processes that call write_artifact
          Path,      \* the artifact paths of one data root
          Artifact,  \* the artifacts that can be published
          None       \* "no such file", "no write in progress"

VARIABLES store,     \* store[f]: the artifact a reader of path f finds, or None
          pending    \* pending[p]: the write process p has begun, or None

vars == <<store, pending>>

Request == [path : Path, art : Artifact]

Init ==
  /\ store = [f \in Path |-> None]
  /\ pending = [p \in Proc |-> None]

\* A writer takes up a write; readers see nothing of it.
Begin(p) ==
  /\ pending[p] = None
  /\ \E req \in Request : pending' = [pending EXCEPT ![p] = req]
  /\ UNCHANGED store

\* The write takes effect: the whole artifact, at the path it was meant for.
Commit(p) ==
  /\ pending[p] # None
  /\ store' = [store EXCEPT ![pending[p].path] = pending[p].art]
  /\ pending' = [pending EXCEPT ![p] = None]

\* The write fails or its process dies: the store is what it was.
Abort(p) ==
  /\ pending[p] # None
  /\ pending' = [pending EXCEPT ![p] = None]
  /\ UNCHANGED store

Next == \E p \in Proc : Begin(p) \/ Commit(p) \/ Abort(p)

Spec == Init /\ [][Next]_vars

=============================================================================
