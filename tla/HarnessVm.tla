----------------------------- MODULE HarnessVm ------------------------------
(***************************************************************************)
(* Invocations of scripts/run-harness-vm.sh: each injects the harness and  *)
(* its arguments into the one root file system image, boots a VM whose     *)
(* console goes to the one .lab/harness-serial.log, and takes from that    *)
(* log either the program blocks (its output file OUT, exit 0), a copy of  *)
(* a crash (exit 2), or nothing (exit 1).                                  *)
(*                                                                         *)
(* The log is a sequence of lines, every line taking one slot.  A line is  *)
(* the run whose VM wrote it, the run whose arguments its harness had, and *)
(* a kind.  A shell redirection truncates the file and then writes at its  *)
(* own offset, so a log truncated under a running VM is left with holes.   *)
(***************************************************************************)
EXTENDS Integers, Sequences, SequencesExt

CONSTANTS Run,        \* invocations of the script, in the order of their names
          OutOf,      \* OutOf[r]: the OUT file that run r is given
          PortOf,     \* PortOf[r]: the SSHPORT that run r is given
          MaxProg,    \* bound: most program blocks a harness prints
          Exclusive,  \* TRUE: a run starts only when no script and no VM is left
          None

VARIABLES pc,      \* pc[r]: where the script of run r is
          code,    \* code[r]: its exit status
          vm,      \* vm[r]: whether its VM is up
          guest,   \* guest[r]: whose arguments the harness in that VM has
          pos,     \* pos[r]: offset of that VM's console in the serial log
          printed, \* printed[r]: program blocks printed so far
          fate,    \* fate[r]: what became of the guest
          rootfs,  \* the run whose arguments the image holds
          serial,  \* the serial log
          out,     \* out[f]: what the OUT file f holds
          crash,   \* crash[f]: what the crash log beside f holds
          lost     \* history: runs that saw a crash and could not copy its log

script == <<pc, code>>
machine == <<vm, guest, pos, printed, fate>>
files == <<rootfs, serial, out, crash, lost>>
vars == <<script, machine, files>>

File == {OutOf[r] : r \in Run}
Kind == {"error", "begin", "prog", "end", "oops"}
Line == [vm : Run, args : Run \cup {None}, kind : Kind, n : 0 .. MaxProg]
Hole == None
\* What a script made of a log, in OUT or in the crash log.
Copy == [by : Run, lines : Seq(Line \cup {Hole}), whole : BOOLEAN]

ASSUME HarnessVmAssumption ==
  /\ Exclusive \in BOOLEAN /\ MaxProg \in Nat
  /\ None \notin Run \cup Line \cup 0 .. 137 /\ None \notin Copy
  /\ DOMAIN OutOf = Run /\ DOMAIN PortOf = Run

Init ==
  /\ pc = [r \in Run |-> "idle"] /\ code = [r \in Run |-> None]
  /\ vm = [r \in Run |-> FALSE] /\ guest = [r \in Run |-> None]
  /\ pos = [r \in Run |-> 0] /\ printed = [r \in Run |-> 0]
  /\ fate = [r \in Run |-> "unbooted"]
  /\ rootfs = None /\ serial = <<>>
  /\ out = [f \in File |-> None] /\ crash = [f \in File |-> None]
  /\ lost = {}

-----------------------------------------------------------------------------
(* The log.                                                                *)

\* log with line x written at slot i.
Put(log, i, x) ==
  [j \in 1 .. (IF i > Len(log) THEN i ELSE Len(log)) |->
     IF j = i THEN x ELSE IF j <= Len(log) THEN log[j] ELSE Hole]

Has(log, kind) == \E i \in DOMAIN log : log[i] # Hole /\ log[i].kind = kind

\* sed -n '/BEGIN/,/END/p' | sed '1d;$d': the lines after the first begin
\* marker, up to the first end marker that follows it or, if there is none,
\* up to but not including the last line.
Blocks(log) ==
  LET Is(i, kind) == log[i] # Hole /\ log[i].kind = kind
      first == SelectInSeq(log, LAMBDA x : x # Hole /\ x.kind = "begin")
      ends  == {i \in first + 1 .. Len(log) : Is(i, "end")}
      last  == IF ends = {} THEN Len(log)
               ELSE CHOOSE i \in ends : \A j \in ends : i <= j
  IN  SubSeq(log, first + 1, last - 1)

\* The VM of run r prints a line.
Prints(r, kind, n) ==
  /\ serial' = Put(serial, pos[r] + 1,
                   [vm |-> r, args |-> guest'[r], kind |-> kind, n |-> n])
  /\ pos' = [pos EXCEPT ![r] = @ + 1]

-----------------------------------------------------------------------------
(* The script, up to the boot.                                             *)

Idle(r) == pc[r] \in {"idle", "exited"} /\ ~vm[r]

\* Steps 1 and 2: the binary and an init script with this run's HARNESS_ARGS
\* replace what an earlier run left in the image.
Inject(r) ==
  /\ pc[r] = "idle"
  /\ Exclusive => \A q \in Run : Idle(q)
  /\ rootfs' = r
  /\ pc' = [pc EXCEPT ![r] = "boot"]
  /\ UNCHANGED <<code, machine, serial, out, crash, lost>>

\* (wrong on purpose) appends the console to the log of earlier runs.
Reopened(log) == log

\* >"$SERIAL"
Truncated(log) == <<>>

\* Step 3: the log is truncated and QEMU started; a VM that holds the port
\* makes it fail, as may anything else in the launch, with a line of its own.
Boot(r) ==
  /\ pc[r] = "boot"
  /\ LET taken == \E q \in Run \ {r} : vm[q] /\ PortOf[q] = PortOf[r]
     IN  \/ /\ ~taken
            /\ vm' = [vm EXCEPT ![r] = TRUE]
            /\ fate' = [fate EXCEPT ![r] = "booted"]
            /\ serial' = Truncated(serial)
            /\ pos' = [pos EXCEPT ![r] = Len(Truncated(serial))]
         \/ /\ serial' = Append(Truncated(serial),
                [vm |-> r, args |-> None, kind |-> "error", n |-> 0])
            /\ pos' = [pos EXCEPT ![r] = Len(Truncated(serial)) + 1]
            /\ UNCHANGED <<vm, fate>>
  /\ pc' = [pc EXCEPT ![r] = "wait"]
  /\ UNCHANGED <<code, guest, printed, rootfs, out, crash, lost>>

-----------------------------------------------------------------------------
(* The guest: the init script and the harness it starts.                   *)

Begin(r) ==
  /\ vm[r] /\ fate[r] = "booted"
  /\ guest' = [guest EXCEPT ![r] = rootfs]
  /\ Prints(r, "begin", 0)
  /\ fate' = [fate EXCEPT ![r] = "begun"]
  /\ UNCHANGED <<script, vm, printed, rootfs, out, crash, lost>>

Program(r) ==
  /\ vm[r] /\ fate[r] = "begun" /\ printed[r] < MaxProg
  /\ printed' = [printed EXCEPT ![r] = @ + 1]
  /\ UNCHANGED guest
  /\ Prints(r, "prog", printed[r] + 1)
  /\ UNCHANGED <<script, vm, fate, rootfs, out, crash, lost>>

\* The harness returns, or dies: init prints the end marker either way.
End(r) ==
  /\ vm[r] /\ fate[r] = "begun"
  /\ UNCHANGED guest
  /\ Prints(r, "end", 0)
  /\ fate' = [fate EXCEPT ![r] = "ended"]
  /\ UNCHANGED <<script, vm, printed, rootfs, out, crash, lost>>

\* The kernel oopses, panics and, under -no-reboot, the VM is gone: before the
\* init script, under the harness, or when both are done and it powers off.
Oops(r) ==
  /\ vm[r] /\ fate[r] \in {"booted", "begun", "ended"}
  /\ UNCHANGED guest
  /\ Prints(r, "oops", 0)
  /\ fate' = [fate EXCEPT ![r] = IF @ = "ended" THEN "late" ELSE "oopsed"]
  /\ vm' = [vm EXCEPT ![r] = FALSE]
  /\ UNCHANGED <<script, printed, rootfs, out, crash, lost>>

PowerOff(r) ==
  /\ vm[r] /\ fate[r] = "ended"
  /\ vm' = [vm EXCEPT ![r] = FALSE]
  /\ UNCHANGED <<script, guest, pos, printed, fate, files>>

\* (wrong on purpose) only gives up on a guest that never came up.
TimeoutBeforeBegin(r) ==
  /\ vm[r] /\ fate[r] = "booted"
  /\ vm' = [vm EXCEPT ![r] = FALSE]
  /\ UNCHANGED <<script, guest, pos, printed, fate, files>>

\* `timeout` ends a VM that is still up, whatever it is doing.
Timeout(r) ==
  /\ vm[r]
  /\ vm' = [vm EXCEPT ![r] = FALSE]
  /\ UNCHANGED <<script, guest, pos, printed, fate, files>>

-----------------------------------------------------------------------------
(* The script, after the VM is gone.                                       *)

Exit(r, status) ==
  /\ pc' = [pc EXCEPT ![r] = "exited"]
  /\ code' = [code EXCEPT ![r] = status]

\* (wrong on purpose) is content with a log in which the harness began.
BeganIsEnough(log) == Has(log, "begin")

\* Step 4, the two greps.
HasMarkers(log) == Has(log, "begin") /\ Has(log, "end")

\* Both markers are there ...
Found(r) ==
  /\ pc[r] = "wait" /\ ~vm[r] /\ HasMarkers(serial)
  /\ pc' = [pc EXCEPT ![r] = "capture"]
  /\ UNCHANGED <<code, machine, files>>

\* ... and what is between them becomes OUT.
Capture(r) ==
  /\ pc[r] = "capture"
  /\ out' = [out EXCEPT ![OutOf[r]] =
               [by |-> r, lines |-> Blocks(serial), whole |-> TRUE]]
  /\ Exit(r, 0)
  /\ UNCHANGED <<machine, rootfs, serial, crash, lost>>

\* What a copy that stopped half way, or failed at the first byte, leaves.
Partial(r) == [by |-> r, lines |-> <<>>, whole |-> FALSE]

\* OUT cannot be opened, or the pipe fails half way (set -o pipefail).
CaptureFails(r) ==
  /\ pc[r] = "capture"
  /\ UNCHANGED out \/ out' = [out EXCEPT ![OutOf[r]] = Partial(r)]
  /\ Exit(r, 1)
  /\ UNCHANGED <<machine, rootfs, serial, crash, lost>>

\* The third grep, when the script comes to it.
SeesCrash(r) ==
  pc[r] = "wait" /\ ~vm[r] /\ ~HasMarkers(serial) /\ Has(serial, "oops")

\* (wrong on purpose) takes every missing end marker for a harness failure.
CrashUnnamed(r) ==
  /\ SeesCrash(r)
  /\ Exit(r, 1)
  /\ UNCHANGED <<machine, files>>

\* A crash: the log is kept beside OUT; a copy that fails ends the script there
\* (set -e), with the status of cp.
Crashed(r) ==
  /\ SeesCrash(r)
  /\ \/ /\ crash' = [crash EXCEPT ![OutOf[r]] =
                       [by |-> r, lines |-> serial, whole |-> TRUE]]
        /\ Exit(r, 2)
        /\ UNCHANGED lost
     \/ /\ UNCHANGED crash \/ crash' = [crash EXCEPT ![OutOf[r]] = Partial(r)]
        /\ Exit(r, 1)
        /\ lost' = lost \cup {r}
  /\ UNCHANGED <<machine, rootfs, serial, out>>

\* Neither: the tail of the log goes to the terminal.
NoMarkers(r) ==
  /\ pc[r] = "wait" /\ ~vm[r] /\ ~HasMarkers(serial) /\ ~Has(serial, "oops")
  /\ Exit(r, 1)
  /\ UNCHANGED <<machine, files>>

\* The script is killed; its VM, a process of its own, is not.
Killed(r) ==
  /\ pc[r] \in {"boot", "wait", "capture"}
  /\ Exit(r, 137)
  /\ \/ UNCHANGED out
     \/ pc[r] = "capture" /\ out' = [out EXCEPT ![OutOf[r]] = Partial(r)]
  /\ \/ UNCHANGED crash
     \/ SeesCrash(r) /\ crash' = [crash EXCEPT ![OutOf[r]] = Partial(r)]
  /\ UNCHANGED <<machine, rootfs, serial, lost>>

-----------------------------------------------------------------------------
Script(r) == Boot(r) \/ Found(r) \/ Capture(r) \/ CaptureFails(r)
             \/ Crashed(r) \/ NoMarkers(r)
Guest(r)  == Begin(r) \/ Program(r) \/ End(r) \/ Oops(r) \/ PowerOff(r)

Next == \E r \in Run : Inject(r) \/ Script(r) \/ Guest(r) \/ Timeout(r) \/ Killed(r)

Spec == Init /\ [][Next]_vars

\* A script that can take its next step does, and `timeout` fires on a VM that
\* stays up.  Nothing is assumed of the guest: it may hang at any point.
FairSpec == Spec /\ \A r \in Run : WF_vars(Script(r)) /\ WF_vars(Timeout(r))

-----------------------------------------------------------------------------
TypeOK ==
  /\ pc \in [Run -> {"idle", "boot", "wait", "capture", "exited"}]
  /\ code \in [Run -> {None, 0, 1, 2, 137}]
  /\ vm \in [Run -> BOOLEAN] /\ guest \in [Run -> Run \cup {None}]
  /\ pos \in [Run -> Nat] /\ printed \in [Run -> 0 .. MaxProg]
  /\ fate \in [Run -> {"unbooted", "booted", "begun", "ended", "oopsed", "late"}]
  /\ rootfs \in Run \cup {None} /\ serial \in Seq(Line \cup {Hole})
  /\ out \in [File -> {None} \cup Copy] /\ crash \in [File -> {None} \cup Copy]
  /\ lost \in SUBSET Run

\* The OUT file a run wrote holds the program blocks that run's own VM printed,
\* under that run's own arguments: all of them, in order, and nothing else.
\* (docs/OPEN-ITEMS.md:651, "The extracted $OUT file is per-run and safe".)
CaptureIsOwn ==
  \A f \in File : out[f] # None /\ out[f].whole =>
    LET r == out[f].by
    IN  out[f].lines =
          [i \in 1 .. printed[r] |-> [vm |-> r, args |-> r, kind |-> "prog", n |-> i]]

\* The exit status names what happened to the run's own guest: 0 only after the
\* end marker, 2 only for a crash before it, and every other status only when
\* there was no such crash, or the script was killed, or the log of the crash
\* could not be copied.  A whole crash log is that of a run that exited 2, and
\* tells of the crash of that run's own VM; such a run leaves a crash log.  (A
\* crash after the end marker, while the guest powers off, exits 0.)
StatusTellsFate ==
  /\ \A r \in Run :
       /\ code[r] = 0 => fate[r] \in {"ended", "late"}
       /\ code[r] = 2 => fate[r] = "oopsed" /\ crash[OutOf[r]] # None
       /\ fate[r] = "oopsed" /\ code[r] = 1 => r \in lost
  /\ \A f \in File : crash[f] # None /\ crash[f].whole =>
       /\ code[crash[f].by] = 2 /\ OutOf[crash[f].by] = f
       /\ \E i \in DOMAIN crash[f].lines :
            LET x == crash[f].lines[i]
            IN  x # Hole /\ x.kind = "oops" /\ x.vm = crash[f].by

\* A run whose guest did not reach the end marker leaves OUT, the file of an
\* earlier run, alone: the VM crashed before the marker, hung before it or never
\* booted.  (One that crashes or hangs after the marker replaces OUT.)
FailureKeepsOut ==
  [][\A r \in Run : code'[r] # code[r] /\ fate[r] \notin {"ended", "late"}
                    => UNCHANGED out]_vars

\* Every script that starts ends, whatever the guest does.
ScriptsEnd == \A r \in Run : pc[r] = "boot" ~> pc[r] = "exited"
=============================================================================
