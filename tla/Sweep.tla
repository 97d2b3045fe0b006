-------------------------------- MODULE Sweep --------------------------------
(***************************************************************************)
(* One program of a family: it is loaded and, if the kernel accepts it,    *)
(* run on every input of the sweep, its effect read back and printed       *)
(* (run_rt_one, run_rtw_one, run_rtw2_one, run_loc_one, run_pktw_one,      *)
(* run_pktw_probe_one and the second halves of run_prec_prog and of the    *)
(* generators like it, harness/diffharness.c).  The verifier's answer is   *)
(* any; what an accepted program does is what its instructions say.        *)
(***************************************************************************)
EXTENDS BpfRef, StateFamilies, TLC

CONSTANTS Arms,      \* the programs of the families considered
          Inputs,    \* RT_INPUTS
          Edges,     \* bound: the words of an input of three or more words
          MaxRounds, \* bound: turns of a may_goto loop
          MaxFailed  \* bound: calls that fail during a sweep

ASSUME SweepAssumption ==
  /\ Inputs \in Seq(0 .. Mod(4) - 1) /\ Edges \subseteq 0 .. Mod(4) - 1
  /\ MaxRounds \in Nat /\ MaxFailed \in Nat

Blank == [b \in 0 .. ValueSize - 1 |-> 0]
Sentinel == Mod(1) - 1       \* RTW_SENTINEL, all ones
HalfWords == 0 .. Mod(4) - 1

OnlyLoaded(arm) == arm.family \in {"prune", "loop", "iterprobe"}
OnPacket(arm) == arm.len > 0
OnValue(arm)  == arm.size > 0 /\ arm.len = 0
OverStates(arm) == arm \in StateArms
HasLoop(arm) == \E a \in DOMAIN arm.code : arm.code[a].op = "may_goto"

\* The inputs of a sweep: RT_INPUTS, or LOOPR_INPUTS, the residues of 8.
Values(arm) == IF OverStates(arm) THEN <<0, 1, 2, 3, 4, 5, 6, 7>> ELSE Inputs

\* What the sweep writes to map_in at its step i: the same value to every word
\* but the selector's, which gets the parity of the step.
Written(arm, i) ==
  [slot \in 0 .. 3 |->
     IF arm.family \in DOMAIN Selector /\ slot = Selector[arm.family] THEN (i - 1) % 2
     ELSE Values(arm)[i]]

-----------------------------------------------------------------------------
(* The run of a loaded program.  The kernel executes it without the checks *)
(* of the interpreter: a store that leaves its object goes on beside it.   *)

\* What a run begins with: the input, the output value or the packet, and the
\* iterations may_goto allows.
Launch(arm, input, value, rounds) ==
  Begin(0, Seeded(0, 0, 0, 0, FALSE, FALSE),
        [Fresh EXCEPT !.map = value, !.pkt = [b \in DOMAIN @ |-> 0]])
  @@ [input |-> input, len |-> arm.len, rounds |-> rounds, trips |-> 0, callers |-> << >>,
      stored |-> {}]

\* r6 to r10 are the caller's own; a callee gets r1 to r5 and leaves r0.
Return(s) ==
  LET caller == Head(s.callers)
  IN  [s EXCEPT !.pc = caller.pc, !.callers = Tail(@),
                !.r = [i \in Reg |-> IF i >= 6 THEN caller.r[i] ELSE @[i]]]

Kernel(s, in) ==
  CASE in.op = "input"  -> Step([s EXCEPT !.r[in.dst] = s.input[in.imm]])
    [] in.op = "lookup" -> Step([s EXCEPT !.r[0] = MapBase])
    [] in.op = "packet" -> Step([s EXCEPT !.r[2] = PktBase, !.r[3] = PktBase + s.len])
    [] in.op = "tail"   -> Step([s EXCEPT !.len = s.r[2], !.r[0] = 0])
    [] in.op = "may_goto" ->
         IF s.rounds > 0 THEN Step([s EXCEPT !.rounds = @ - 1])
         ELSE [s EXCEPT !.pc = @ + 1 + in.off]
    [] in.op = "iter_new"  -> Step([s EXCEPT !.trips = in.imm])
    [] in.op = "iter_next" ->
         IF s.trips > 0 THEN Step([s EXCEPT !.trips = @ - 1, !.r[0] = StackBase])
         ELSE Step([s EXCEPT !.r[0] = 0])
    [] in.op = "iter_destroy" -> Step(s)
    [] in.op = "slice" ->
         Step([s EXCEPT !.r[0] = IF in.off + in.imm <= DynSize THEN s.r[6] + in.off ELSE 0])
    [] in.op = "sub" ->
         [s EXCEPT !.pc = @ + 1 + in.imm, !.callers = <<[pc |-> s.pc + 1, r |-> s.r]>> \o @]
    [] in.op = "exit" -> Return(s)

\* A store to the value or the packet: its units, from the object's start, and
\* what of them is in the object.
KernelStore(s, in) ==
  LET from == s.r[in.dst] + in.off - (IF s.len > 0 THEN PktBase ELSE MapBase)
      units == from .. from + in.w - 1
      put(object) == [b \in DOMAIN object |->
                        IF b \in units THEN (Low(in.imm, in.w) \div Mod(b - from)) % Mod(1)
                        ELSE object[b]]
  IN  Step([s EXCEPT !.stored = units,
                     !.mem = IF s.len > 0 THEN [@ EXCEPT !.pkt = put(@)]
                             ELSE [@ EXCEPT !.map = put(@)]])

Turn(p, s) ==
  LET in == p[s.pc]
      returns == in.op = "exit" /\ s.callers # << >>
  IN  IF in.cls = "call" \/ in.op = "may_goto" \/ returns THEN Kernel(s, in)
      ELSE IF in.cls = "st" THEN KernelStore(s, in)
      ELSE Exec(p, s)

\* The state at its exit, or where the budget of one that never ends is spent.
RECURSIVE RunFrom(_, _)
RunFrom(p, s) == IF Running(s) THEN RunFrom(p, Turn(p, s)) ELSE s

Final(arm, input, value, rounds) == RunFrom(arm.code, Launch(arm, input, value, rounds))

\* What userspace reads back: the value, or the packet as long as it then is.
ReadBack(arm, s) ==
  IF OnPacket(arm) THEN [b \in DOMAIN Blank |-> IF b < s.len THEN s.mem.pkt[b] ELSE 0]
  ELSE s.mem.map

Marked(out) == {b \in DOMAIN out : out[b] = Sentinel}

\* The run of sentinels that begins at the first of them, as an offset and a
\* length: what the harness prints.
NoStore == [off |-> -1, len |-> 0]

Scan(out) ==
  LET marked == Marked(out)
      off == Min(marked)
  IN  IF marked = {} THEN NoStore
      ELSE [off |-> off,
            len |-> Max({l \in 1 .. ValueSize - off : off .. off + l - 1 \subseteq marked})]

-----------------------------------------------------------------------------
VARIABLES arm,      \* the program, with what the generator says of it
          pc, n,    \* where the harness is, the input it is at
          fd,       \* the program is loaded
          inVal, outVal, \* the values of map_in and map_out
          run,      \* the last run: retval, the units it stored, what is read back
          failed,   \* a call for this input failed
          line,     \* the last RUNTIME line
          failures, \* history: the calls that failed so far
          clean,    \* history: no line so far was an error
          caught    \* history: some line shows a store that left its object

vars == <<arm, pc, n, fd, inVal, outVal, run, failed, line, failures, clean, caught>>

NoRun == [retval |-> 0, stored |-> {}, out |-> Blank]
NoLine == [error |-> TRUE, executed |-> FALSE, retval |-> 0] @@ NoStore

\* The maps are the family's: they hold what the program before left there.
Init ==
  /\ arm \in Arms
  /\ pc = "load" /\ n = 1 /\ fd = FALSE
  /\ inVal = [slot \in 0 .. 3 |-> 0]
  /\ outVal \in {Blank, [b \in DOMAIN Blank |-> Sentinel]}
  /\ run = NoRun /\ failed = FALSE /\ line = NoLine
  /\ failures = 0 /\ clean = TRUE /\ caught = FALSE

\* A call to the kernel for this input, which may fail.
Succeeds == UNCHANGED <<failed, failures>>
Fails == failures < MaxFailed /\ failures' = failures + 1 /\ failed' = TRUE

\* Where the step for one input begins: dyn programs take no input, those that
\* store to the packet use no map.
First(a) == IF OnPacket(a) THEN "run" ELSE IF a.family = "dyn" THEN "zero" ELSE "set"

\* BPF_PROG_LOAD; programs of the later families are only loaded.
Load ==
  /\ pc = "load"
  /\ fd' \in BOOLEAN
  /\ pc' = IF ~fd' \/ OnlyLoaded(arm) THEN "done" ELSE First(arm)
  /\ UNCHANGED <<arm, n, inVal, outVal, run, failed, line, failures, clean, caught>>

\* rt_map_set(map_in).
SetInput ==
  /\ pc = "set"
  /\ \/ inVal' = Written(arm, n) /\ Succeeds
     \/ Fails /\ UNCHANGED inVal
  /\ pc' = IF OnValue(arm) THEN "zero" ELSE "run"
  /\ UNCHANGED <<arm, n, fd, outVal, run, line, clean, caught>>

\* (wrong on purpose) the value is zeroed for the first input only.
ZeroOnce ==
  /\ pc = "zero"
  /\ \/ outVal' = (IF n = 1 THEN Blank ELSE outVal) /\ Succeeds
     \/ Fails /\ UNCHANGED outVal
  /\ pc' = "run"
  /\ UNCHANGED <<arm, n, fd, inVal, run, line, clean, caught>>

\* rt_map_set_bytes(map_out), before every run.
ZeroOutput ==
  /\ pc = "zero"
  /\ \/ outVal' = Blank /\ Succeeds
     \/ Fails /\ UNCHANGED outVal
  /\ pc' = "run"
  /\ UNCHANGED <<arm, n, fd, inVal, run, line, clean, caught>>

\* BPF_PROG_TEST_RUN, and the read of the packet it returns.  How many turns a
\* may_goto loop takes is the kernel's choice; a run that never ends never
\* returns.
TestRun ==
  /\ pc = "run"
  /\ \/ \E rounds \in IF HasLoop(arm) THEN {1, MaxRounds} ELSE {0} :
        LET s == Final(arm, inVal, outVal, rounds)
        IN  /\ s.status = "ok"
            /\ run' = [retval |-> s.r[0], stored |-> s.stored,
                       out |-> IF OnPacket(arm) THEN ReadBack(arm, s) ELSE Blank]
            /\ outVal' = s.mem.map
            /\ Succeeds
     \/ Fails /\ run' = NoRun /\ UNCHANGED outVal
  /\ pc' = IF OnValue(arm) THEN "get" ELSE "print"
  /\ UNCHANGED <<arm, n, fd, inVal, line, clean, caught>>

\* rt_map_get(map_out), into a buffer that is zero.
GetOutput ==
  /\ pc = "get"
  /\ \/ run' = [run EXCEPT !.out = outVal] /\ Succeeds
     \/ Fails /\ UNCHANGED run
  /\ pc' = "print"
  /\ UNCHANGED <<arm, n, fd, inVal, outVal, line, clean, caught>>

\* The line of a run: where the store was found, and whether the program says
\* that it was executed.  In the frame family that is read off the value.
Report ==
  LET seen == Scan(run.out)
  IN  [error |-> FALSE, retval |-> run.retval,
       executed |-> IF arm.family = "frame" THEN seen.off >= 0 ELSE run.retval = 1] @@ seen

\* (wrong on purpose) a line is printed even when a call failed.
PrintAnyway ==
  /\ pc = "print"
  /\ line' = Report
  /\ clean' = clean
  /\ caught' = (caught \/ (arm.size > 0 /\ line'.len < arm.size))
  /\ IF OnPacket(arm) \/ n = Len(Values(arm)) THEN pc' = "done" /\ UNCHANGED n
     ELSE pc' = First(arm) /\ n' = n + 1
  /\ failed' = FALSE
  /\ UNCHANGED <<arm, fd, inVal, outVal, run, failures>>

\* A store of `size` units is missed when fewer of them are read back; where
\* the program has a path without a store, only if it says it was executed.
Missed(l) ==
  /\ arm.family \notin {"rt", "probe"}
  /\ l.len < arm.size /\ (arm.family = "loc" \/ OverStates(arm) => l.executed)

\* The RUNTIME line of this input, and the next one.
PrintLine ==
  /\ pc = "print"
  /\ line' = IF failed THEN NoLine
             ELSE Report
  /\ clean' = (clean /\ ~failed)
  /\ caught' = (caught \/ (~failed /\ Missed(line')))
  /\ IF OnPacket(arm) \/ n = Len(Values(arm)) THEN pc' = "done" /\ UNCHANGED n
     ELSE pc' = First(arm) /\ n' = n + 1
  /\ failed' = FALSE
  /\ UNCHANGED <<arm, fd, inVal, outVal, run, failures>>

Next == Load \/ SetInput \/ ZeroOutput \/ TestRun \/ GetOutput \/ PrintLine

Spec == Init /\ [][Next]_vars

-----------------------------------------------------------------------------
\* A line was printed last, for what `run` still holds.
Printed == pc \in {First(arm), "done"} /\ ~line.error /\ arm.family \notin {"rt", "probe"}

\* The units that are read back.
ReadUnits == IF OnPacket(arm) THEN 0 .. arm.len - 1 ELSE DOMAIN Blank

\* The zeroing before each run is there so that "a stale sentinel from a prior
\* sweep step can never be miscounted" (diffharness.c:1986): whatever calls
\* fail, and whatever the maps held, a line without an error reports the units
\* that the run of this very input stored inside the object, and no others.
ReportIsTheStore ==
  Printed =>
    LET inside == run.stored \cap ReadUnits
    IN  IF inside = {} THEN line.off = -1
        ELSE line.off = Min(inside) /\ line.len = Cardinality(inside)

\* Everything a program may do: for every input, not only those of the sweep,
\* and for every number of turns of its may_goto loop.
Words(a) == {a.code[k].imm : k \in {k \in DOMAIN a.code : a.code[k].op = "input"}}
Given(a, slot) ==
  IF (a.family \in DOMAIN Selector /\ slot = Selector[a.family]) \/ (a.family = "prune" /\ slot = 1)
  THEN {0, 1}
  ELSE IF Cardinality(Words(a)) > 2 THEN Edges ELSE HalfWords

Ends(a) ==
  {Final(a, input, Blank, rounds) :
     input \in {f \in [Words(a) -> UNION {Given(a, w) : w \in Words(a)}] :
                  \A w \in Words(a) : f[w] \in Given(a, w)},
     rounds \in IF HasLoop(a) THEN 0 .. MaxRounds ELSE {0}}

FirstSeen(a, s) == Scan(ReadBack(a, s)).off
Escapes(a, s) == s.status = "loop" \/ ~(s.stored \subseteq a.object)

\* What the generator says of each program is true of its instructions.  One
\* that "must be accepted" always exits, and stores inside its object or not at
\* all, at exactly the offsets (or returns only values) it is annotated with;
\* one that "must be rejected" leaves its object, or never ends, for some input.
LabelsAreTrue ==
  pc = "load" /\ outVal = Blank =>
    LET ends == Ends(arm)
    IN  /\ arm.must = "accept" => \A s \in ends : s.status = "ok" /\ ~Escapes(arm, s)
        /\ arm.must = "reject" => \E s \in ends : Escapes(arm, s)
        /\ arm.family = "rt" => \A s \in ends : s.r[0] \in arm.where
        /\ arm.must = "accept" /\ arm.family \in {"rtw", "rtw2", "loc", "pktw", "probe", "dyn"} =>
             {FirstSeen(arm, s) : s \in ends} \ {-1} = arm.where

\* Programs whose sweep need not show it if the kernel accepts them wrongly: it
\* writes one small value to all words of the input, so that the register the
\* path has not narrowed is narrow all the same; the slice that is left lies in
\* the value that is read back; or the number of turns a loop happens to take
\* decides where each store lands.
Blind(a) == a.family \in {"spill", "frame", "idpart", "idmap", "dyn", "loopr"}

\* The controls have teeth, and the oracle no false alarm: had the kernel
\* accepted a program that must be rejected, a sweep without errors would show a
\* store that left its object, except in the blind families; of one that must
\* be accepted, no line ever does.
ControlsHaveTeeth ==
  /\ pc = "done" /\ fd /\ clean /\ ~OnlyLoaded(arm) /\ arm.must = "reject" /\ ~Blind(arm) => caught
  /\ arm.must = "accept" => ~caught

=============================================================================
