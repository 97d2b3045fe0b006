----------------------------- MODULE DiffChecks -----------------------------
(***************************************************************************)
(* The oracles of the diff stage (crates/pipeline/src/diff.rs): what each  *)
(* finds in one record, and which comparisons it counts as done.  A        *)
(* finding is its kind and its place in the record, a counted comparison   *)
(* its denominator and its place.                                          *)
(*                                                                         *)
(* A word has 2 * Half bits, its subregister the lower Half of them (64    *)
(* and 32 in the code).  What is not printed is None where the record      *)
(* keeps the silence, and at its extreme where the parser resolves it.     *)
(***************************************************************************)
EXTENDS Integers, Sequences, FiniteSets, FiniteSetsExt, TLC

CONSTANTS Half,   \* bits of a subregister
          None    \* what was not printed

ASSUME DiffAssumption == Half \in Nat \ {0} /\ None \notin Int

\* The powers of two up to the width of a word.
Power[b \in 0 .. 2 * Half] == IF b = 0 THEN 1 ELSE 2 * Power[b - 1]

Block     == Power[Half]            \* the words of a subregister
MaxWord   == Block * Block - 1      \* u64::MAX
MaxSigned == MaxWord \div 2
MinSigned == -MaxSigned - 1

Words    == 0 .. MaxWord
SubWords == 0 .. Block - 1
LowHalf(v) == v % Block
BitOf(v, b) == (v \div Power[b]) % 2
Places == 0 .. 2 * Half - 1

Resolved(x, extreme) == IF x = None THEN extreme ELSE x
When(holds, x) == IF holds THEN {x} ELSE {}

Finding(kind, at)  == [kind |-> kind, at |-> at]
Count(counter, at) == [counter |-> counter, at |-> at]

\* A finding, or a counted comparison, at each of some places.
At(kind, places) == {Finding(kind, <<p>>) : p \in places}
Counts(counter, places) == {Count(counter, <<p>>) : p \in places}

-----------------------------------------------------------------------------
(* A register of a snapshot: RegState, with the instruction it is printed  *)
(* at.  Place i of a record's registers is <<i>>.                          *)

RegType ==
  LET Or(S)  == S \cup {None}
      Half32 == Block \div 2
  IN  [at : Nat, reg : Nat, scalar : BOOLEAN, logged : BOOLEAN, off : Or(Int),
       value : Words, mask : Words, umin : Words, umax : Words,
       smin : MinSigned .. MaxSigned, smax : MinSigned .. MaxSigned,
       u32min : Or(SubWords), u32max : Or(SubWords),
       s32min : Or(-Half32 .. Half32 - 1), s32max : Or(-Half32 .. Half32 - 1)]

\* The four ranges of a register and their extremes, the ones of 32 bits for a
\* scalar only.
Ranges(s) ==
  [unsigned |-> [lo |-> s.umin, hi |-> s.umax, min |-> 0, max |-> MaxWord],
   signed   |-> [lo |-> s.smin, hi |-> s.smax, min |-> MinSigned, max |-> MaxSigned],
   u32      |-> [lo |-> Resolved(s.u32min, 0), hi |-> Resolved(s.u32max, Block - 1),
                 min |-> 0, max |-> Block - 1],
   s32      |-> [lo |-> Resolved(s.s32min, -(Block \div 2)),
                 hi |-> Resolved(s.s32max, Block \div 2 - 1),
                 min |-> -(Block \div 2), max |-> Block \div 2 - 1]]

RangeNames(s) == {"unsigned", "signed"} \cup IF s.scalar THEN {"u32", "s32"} ELSE {}

OrderCheckable(r) == r.lo > r.min /\ r.hi < r.max

\* tnum_unsigned_span, its upper end: value | mask.
SpanEnd(s) ==
  LET end[b \in 0 .. 2 * Half] ==
        IF b = 0 THEN 0
        ELSE end[b - 1] + IF BitOf(s.value, b - 1) = 1 \/ BitOf(s.mask, b - 1) = 1
                          THEN Power[b - 1] ELSE 0
  IN  end[2 * Half]

TnumBoundsCheckable(s) ==
  /\ s.scalar /\ s.mask # 0 /\ s.mask # MaxWord
  /\ s.umin > 0 \/ s.umax < MaxWord

\* (wrong on purpose) without the provenance of the bounds.
ConstCheckableByShape(s) == s.mask = 0 /\ s.umax # MaxWord

\* A constant whose bounds were read from the log.
ConstCheckable(s) == s.mask = 0 /\ s.umax # MaxWord /\ s.logged

Pinned(lo, hi, value) == lo = value /\ hi = value
Signed(v, words) == IF v >= words \div 2 THEN v - words ELSE v
AsSigned(v) == Signed(v, MaxWord + 1)

\* check_logical_invariants, of one register.
LogicalFound(s, i) ==
  When(\E b \in Places : BitOf(s.value, b) = 1 /\ BitOf(s.mask, b) = 1,
       Finding("tnum_malformed", <<i>>))
  \cup {Finding("bounds_inverted", <<i, name>>) :
          name \in {name \in {"unsigned", "signed"} : Ranges(s)[name].lo > Ranges(s)[name].hi}}
  \cup When(/\ ConstCheckable(s) /\ s.smin # MinSigned /\ s.smax # MaxSigned
            /\ ~Pinned(s.smin, s.smax, AsSigned(s.value)),
            Finding("const_tnum_range_mismatch", <<i, "signed">>))
  \cup When(ConstCheckable(s) /\ ~Pinned(s.umin, s.umax, s.value),
            Finding("const_tnum_range_mismatch", <<i, "unsigned">>))
  \cup When(s.umin <= s.umax /\ (SpanEnd(s) < s.umin \/ s.value > s.umax),
            Finding("tnum_bounds_inconsistent", <<i>>))

LogicalCounted(s, i) ==
  When(TnumBoundsCheckable(s) \/ ConstCheckable(s), Count("tnum_bounds_checked", <<i>>))
  \cup When(s.value # 0 /\ s.mask # 0, Count("tnum_wellformed_checked", <<i>>))
  \cup {Count("bounds_order_checked", <<i, name>>) :
          name \in {name \in {"unsigned", "signed"} : OrderCheckable(Ranges(s)[name])}}

\* reg32_checkable: the view of 32 bits says something of its own.
Reg32Checkable(s) ==
  LET r == Ranges(s).u32
  IN  /\ s.scalar /\ ~(r.lo = r.min /\ r.hi = r.max)
      /\ \/ r.lo # LowHalf(s.umin) \/ r.hi # LowHalf(s.umax)
         \/ s.umin \div Block # s.umax \div Block

Disjoint(lo, hi, r) == hi < r.lo \/ lo > r.hi

\* check_subregister_invariants, of one register.
SubregisterFound(s, i) ==
  IF ~s.scalar THEN {}
  ELSE {Finding("bounds32_inverted", <<i, name>>) :
          name \in {name \in {"u32", "s32"} : Ranges(s)[name].lo > Ranges(s)[name].hi}}
       \cup When(/\ Reg32Checkable(s)
                 /\ Disjoint(LowHalf(s.value), LowHalf(SpanEnd(s)), Ranges(s).u32),
                 Finding("tnum32_bounds_inconsistent", <<i>>))
       \cup When(/\ Reg32Checkable(s) /\ s.umin \div Block = s.umax \div Block
                 /\ Disjoint(LowHalf(s.umin), LowHalf(s.umax), Ranges(s).u32),
                 Finding("reg32_reg64_inconsistent", <<i>>))

SubregisterCounted(s, i) ==
  IF ~s.scalar THEN {}
  ELSE {Count("bounds_order_checked", <<i, name>>) :
          name \in {name \in {"u32", "s32"} : OrderCheckable(Ranges(s)[name])}}
       \cup When(Reg32Checkable(s), Count("reg32_checked", <<i>>))

RegisterFound(s, i) == LogicalFound(s, i) \cup SubregisterFound(s, i)
RegisterCounted(s, i) == LogicalCounted(s, i) \cup SubregisterCounted(s, i)

StatesFound(rec)   == UNION {RegisterFound(rec.regs[i], i) : i \in DOMAIN rec.regs}
StatesCounted(rec) == UNION {RegisterCounted(rec.regs[i], i) : i \in DOMAIN rec.regs}

-----------------------------------------------------------------------------
(* What was run: a sample is one BPF_PROG_TEST_RUN, of which the store (off, *)
(* -1 when it is nowhere) or the return value was observed.                *)

\* (wrong on purpose) a state without a 32-bit view is left out of the union.
ReturnRangesPrinted(states) ==
  LET printed == {s \in states : s.u32min # None /\ s.u32max # None}
  IN  [u64 |-> [lo |-> Min({s.umin : s \in states}), hi |-> Max({s.umax : s \in states})],
       u32 |-> IF printed = {} THEN [lo |-> 0, hi |-> Block - 1]
               ELSE [lo |-> Min({s.u32min : s \in printed}), hi |-> Max({s.u32max : s \in printed})]]

\* The union of the ranges of r0 in all states printed; one of which a bound of
\* the 32-bit view is missing makes that view's union everything.
ReturnRanges(states) ==
  LET all == \E s \in states : s.u32min = None \/ s.u32max = None
  IN  [u64 |-> [lo |-> Min({s.umin : s \in states}), hi |-> Max({s.umax : s \in states})],
       u32 |-> IF all THEN [lo |-> 0, hi |-> Block - 1]
               ELSE [lo |-> Min({s.u32min : s \in states}), hi |-> Max({s.u32max : s \in states})]]

ReturnStates(rec) == {s \in {rec.regs[i] : i \in DOMAIN rec.regs} : s.reg = 0 /\ s.scalar}

\* check_runtime_ground_truth: the samples it takes, and those of them whose
\* value is outside of what r0 was said to hold.
ReturnsChecked(rec) ==
  {j \in DOMAIN rec.runs : /\ ~rec.multi /\ ReturnStates(rec) # {}
                           /\ ~rec.runs[j].error /\ rec.runs[j].off = None}

ReturnsFound(rec) ==
  {j \in ReturnsChecked(rec) :
     LET r == ReturnRanges(ReturnStates(rec))
         value == rec.runs[j].retval
     IN  \/ r.u64.hi < Block /\ value \notin r.u64.lo .. r.u64.hi
         \/ value \notin r.u32.lo .. r.u32.hi}

\* check_runtime_intent, against what the generator says of the run, or else of
\* the program.
Intended(rec, run) == Resolved(run.intended, rec.intended)

IntentChecked(rec) ==
  {j \in DOMAIN rec.runs :
     LET run == rec.runs[j]
     IN  /\ rec.accept /\ ~run.error /\ run.executed # "no" /\ run.observed
         /\ Intended(rec, run) # None}

IntentFound(rec) == {j \in IntentChecked(rec) : rec.runs[j].retval # Intended(rec, rec.runs[j])}

\* check_runtime_write_safety: the store is found whole, inside the value.
WritesChecked(rec) ==
  {j \in DOMAIN rec.runs :
     LET run == rec.runs[j] IN ~run.error /\ run.off # None /\ run.executed # "no"}

WritesFound(rec) ==
  {j \in WritesChecked(rec) :
     LET run == rec.runs[j]
     IN  run.off < 0 \/ (run.len # None /\ run.size # None /\ run.len # run.size)}

\* check_store_location: the states of the base register at the store, and the
\* ones of them that say where it can land.
SiteStates(rec) ==
  {s \in {rec.regs[i] : i \in DOMAIN rec.regs} :
     rec.site # None /\ s.at = rec.site.at /\ s.reg = rec.site.reg /\ ~s.scalar}

Claims(rec) ==
  {s \in SiteStates(rec) : ~(s.mask # 0 /\ s.umax = MaxWord) /\ s.umin <= s.umax}

\* admits: the variable part of the offset is in the claim.
Admits(s, site, off) ==
  LET v == off - Resolved(s.off, 0) - site.off
  IN  /\ v >= 0 /\ v >= s.umin /\ (s.umax = MaxWord \/ v <= s.umax)
      /\ \A b \in Places : IF BitOf(s.mask, b) = 1 THEN BitOf(s.value, b) = 0
                           ELSE BitOf(v, b) = BitOf(s.value, b)

LocationsChecked(rec) ==
  {j \in DOMAIN rec.runs : /\ Claims(rec) # {} /\ ~rec.runs[j].error
                           /\ rec.runs[j].off # None /\ rec.runs[j].off >= 0}

LocationsFound(rec) ==
  {j \in LocationsChecked(rec) : \A s \in Claims(rec) : ~Admits(s, rec.site, rec.runs[j].off)}

-----------------------------------------------------------------------------
(* The rest of a record.                                                   *)

\* build_regstate: the bounds of a scalar that is no constant are at their extremes
\* unless the log has one.
BoundsArePrinted(s) == s.scalar /\ s.mask # 0 => s.logged \/ (s.umin = 0 /\ s.umax = MaxWord)

\* What the metrics of a record are, as far as the oracles depend on it.
IsRecord(rec) ==
  /\ rec.regs \in Seq(RegType) /\ \A i \in DOMAIN rec.regs : BoundsArePrinted(rec.regs[i])
  /\ rec.runs \in Seq([retval : SubWords, observed : BOOLEAN, error : BOOLEAN,
                       intended : SubWords \cup {None}, off : Int \cup {None},
                       len : Nat \cup {None}, size : Nat \cup {None},
                       executed : {"yes", "no", "unsaid"}])
  /\ {rec.args, rec.violations} \subseteq Seq({"silent", "agrees", "differs"})
  /\ rec.site # None => rec.site \in [at : Nat, reg : Nat, off : Int]
  /\ rec.gate # None =>
       /\ IsFiniteSet(DOMAIN rec.gate.kernel)
       /\ rec.gate \in [kernel : [DOMAIN rec.gate.kernel -> SUBSET (0 .. 9)], claim : {rec.gate.claim}]

\* check_prune_differential, of a probe with the two verdicts, whether the flag
\* changed the state space, why the flagged load was rejected, and whether the
\* invariant load was.
ProbeFound(p) ==
  When(p.efault /\ p.base, Finding("reg_invariants_violation", << >>))
  \cup When(p.changed /\ p.freq /\ ~p.base, Finding("prune_soundness_desync", << >>))
  \cup When(p.changed /\ ~p.freq /\ p.base /\ p.reason = "verdict",
            Finding("prune_verdict_disagreement", << >>))

PruningFound(rec) == IF rec.probe = None THEN {} ELSE ProbeFound(rec.probe)

ProbeCounted(p) ==
  When(p.base, Count("reg_invariants_checked", << >>))
  \cup When(p.changed, Count("prune_pairs_checked", << >>))
  \cup When(p.changed /\ ~p.freq /\ p.base /\ p.reason = "resource",
            Count("prune_resource_artifacts", << >>))

\* check_liveness_gate: registers that bpflive calls live before an instruction
\* the kernel printed a row for.
GateCells(g) ==
  {c \in (DOMAIN g.kernel) \X (0 .. 9) :
     g.claim # None /\ c[1] \in DOMAIN g.claim /\ c[2] \in g.claim[c[1]]}
GateFound(g) == {c \in GateCells(g) : c[2] \notin g.kernel[c[1]]}

LivenessFound(rec) ==
  IF rec.gate = None THEN {}
  ELSE {Finding("liveness_gate_overreach", c) : c \in GateFound(rec.gate)}

\* check_helper_observations, of an accepted program: arguments of which the
\* ground truth says nothing, the same, or another type.
ArgsChecked(rec) == {a \in DOMAIN rec.args : rec.accept /\ rec.args[a] # "silent"}

\* It, and check_helper_proto over the violations of a prototype.
HelpersFound(rec) ==
  At("helper_proto", {v \in DOMAIN rec.violations : rec.violations[v] = "differs"})
  \cup At("helper_arg", {a \in ArgsChecked(rec) : rec.args[a] = "differs"})

\* check_documented_behavior.
Contradicts(rec) == rec.documented # None /\ rec.documented # rec.accept

\* All that diff::run finds in a record, and all it counts.
Found(rec) ==
  StatesFound(rec)
  \cup When(rec.jit = "differs", Finding("jit_interp_divergence", << >>))
  \cup At("runtime_bound_violation", ReturnsFound(rec))
  \cup At("runtime_intent_violation", IntentFound(rec))
  \cup At("runtime_oob_write", WritesFound(rec))
  \cup At("store_location_desync", LocationsFound(rec))
  \cup PruningFound(rec) \cup LivenessFound(rec) \cup HelpersFound(rec)
  \cup When(Contradicts(rec), Finding("documented_behavior_mismatch", << >>))

Counted(rec) ==
  StatesCounted(rec)
  \cup When(rec.jit # None, Count("jit_interp_checked", << >>))
  \cup Counts("runtime_checked", ReturnsChecked(rec))
  \cup Counts("runtime_intent_checked", IntentChecked(rec))
  \cup Counts("runtime_writes_checked", WritesChecked(rec))
  \cup Counts("store_locations_checked", LocationsChecked(rec))
  \cup (IF rec.probe = None THEN {} ELSE ProbeCounted(rec.probe))
  \cup (IF rec.gate = None THEN {}
        ELSE {Count("liveness_gate_checked", c) : c \in GateCells(rec.gate)})
  \cup Counts("helper_args_checked", ArgsChecked(rec))
  \cup When(rec.documented # None, Count("documented_cases_checked", << >>))

\* Evidence that is no finding: rejected as documented, with other words.
Notes(rec) == When(rec.documented = FALSE /\ ~rec.accept /\ rec.reworded, "documented_message_drift")

-----------------------------------------------------------------------------
(* What the findings and the counts are worth.                             *)

Within(r, x) == r.lo <= x /\ x <= r.hi

\* The words that all of what is printed of a register allows.
Described(s) ==
  {v \in Words :
     /\ \A b \in Places : /\ BitOf(s.mask, b) = 0 => BitOf(v, b) = BitOf(s.value, b)
                          /\ BitOf(s.mask, b) = 1 => BitOf(s.value, b) = 0
     /\ Within(Ranges(s).unsigned, v)      /\ Within(Ranges(s).signed, AsSigned(v))
     /\ Within(Ranges(s).u32, LowHalf(v)) /\ Within(Ranges(s).s32, Signed(LowHalf(v), Block))}

\* The variable part of a store's offset is never negative.
Forward(rec) == \A s \in SiteStates(rec) : \A v \in Described(s) : v <= MaxSigned

\* Each state at the store bounds the variable part.  The union of the claims
\* leaves out one that does not, although the run may have been on its path.
Bounded(rec) == \A s \in SiteStates(rec) : s.mask = 0 \/ s.umax # MaxWord

\* A finding that a verifier without a bug can cause: of a register, although a
\* word is all that is printed of it; of a constant, although its bounds leave
\* no other word or were not printed; of a run, although a printed state allows
\* what it did; of a register the kernel does not compare, although it is dead.
FalseAlarm(rec, f) ==
  CASE f.kind \in {"tnum_malformed", "bounds_inverted", "bounds32_inverted",
                   "tnum_bounds_inconsistent", "tnum32_bounds_inconsistent",
                   "reg32_reg64_inconsistent"} -> Described(rec.regs[f.at[1]]) # {}
    [] f.kind = "const_tnum_range_mismatch" ->
         LET s == rec.regs[f.at[1]]
             left == {v \in Words : Within(Ranges(s)[f.at[2]],
                                           IF f.at[2] = "signed" THEN AsSigned(v) ELSE v)}
         IN  \/ left = {s.value}
             \/ f.at[2] = "signed" /\ (s.smin = MinSigned \/ s.smax = MaxSigned)
    [] f.kind = "runtime_bound_violation" ->
         \E s \in ReturnStates(rec) : \E v \in Described(s) :
           LowHalf(v) = rec.runs[f.at[1]].retval
    [] f.kind = "store_location_desync" ->
         /\ Forward(rec) /\ Bounded(rec)
         /\ \E s \in SiteStates(rec) : \E v \in Described(s) :
              rec.runs[f.at[1]].off = Resolved(s.off, 0) + rec.site.off + AsSigned(v)
    [] f.kind = "liveness_gate_overreach" -> f.at[2] \notin rec.gate.claim[f.at[1]]
    [] OTHER -> FALSE

\* What else the kernel could have printed of one side of a comparison.  Of a
\* constant without bounds it prints one number, which the parser puts in both.
OtherTnums(s)  == {[s EXCEPT !.value = v, !.mask = m] : v, m \in Words}
OtherRanges(s) == {[s EXCEPT !.umin = lo, !.umax = hi] : lo, hi \in Words}
OtherNumbers(s) ==
  {[s EXCEPT !.value = v, !.umin = v, !.umax = v, !.smin = AsSigned(v), !.smax = AsSigned(v)] :
     v \in Words}

LowEnd(s, name, x) ==
  CASE name = "unsigned" -> [s EXCEPT !.umin = x]   [] name = "signed" -> [s EXCEPT !.smin = x]
    [] name = "u32"      -> [s EXCEPT !.u32min = x] [] OTHER -> [s EXCEPT !.s32min = x]
HighEnd(s, name, x) ==
  CASE name = "unsigned" -> [s EXCEPT !.umax = x]   [] name = "signed" -> [s EXCEPT !.smax = x]
    [] name = "u32"      -> [s EXCEPT !.u32max = x] [] OTHER -> [s EXCEPT !.s32max = x]

Sides(s, c) ==
  CASE c.counter = "bounds_order_checked" ->
         LET domain == Ranges(s)[c.at[2]].min .. Ranges(s)[c.at[2]].max
         IN  {{LowEnd(s, c.at[2], x) : x \in domain}, {HighEnd(s, c.at[2], x) : x \in domain}}
    [] c.counter = "tnum_wellformed_checked" ->
         {{[s EXCEPT !.value = v] : v \in Words}, {[s EXCEPT !.mask = m] : m \in Words}}
    [] c.counter = "tnum_bounds_checked" ->
         IF s.mask = 0 /\ ~s.logged THEN {OtherNumbers(s)} ELSE {OtherTnums(s), OtherRanges(s)}
    [] c.counter = "reg32_checked" -> {OtherRanges(s)}

\* INVARIANT_DENOMINATORS, for the checks of a register.
Denominator ==
  [kind \in {"bounds_inverted", "bounds32_inverted", "tnum_malformed", "tnum_bounds_inconsistent",
             "const_tnum_range_mismatch", "tnum32_bounds_inconsistent", "reg32_reg64_inconsistent"} |->
     CASE kind \in {"bounds_inverted", "bounds32_inverted"} -> "bounds_order_checked"
       [] kind = "tnum_malformed" -> "tnum_wellformed_checked"
       [] kind \in {"tnum_bounds_inconsistent", "const_tnum_range_mismatch"} -> "tnum_bounds_checked"
       [] OTHER -> "reg32_checked"]

\* A counted comparison could have failed: whichever side of it is kept, there
\* is another one for which it is a finding.
CouldFail(rec, c) ==
  CASE c.counter \in {Denominator[kind] : kind \in DOMAIN Denominator} ->
         \A side \in Sides(rec.regs[c.at[1]], c) : \E other \in side :
           \E f \in RegisterFound(other, c.at[1]) :
             Denominator[f.kind] = c.counter /\ (Len(c.at) = 2 => f.at = c.at)
    [] c.counter = "liveness_gate_checked" ->
         c.at \in GateFound([rec.gate EXCEPT !.kernel[c.at[1]] = {}])
    [] OTHER -> TRUE

=============================================================================
