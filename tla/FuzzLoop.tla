------------------------------ MODULE FuzzLoop ------------------------------
(***************************************************************************)
(* run_fuzz of src/harness/diffharness.c: the coverage-guided loop that    *)
(* loads one program after the other, keeps those that reached new         *)
(* verifier code, gives those and every GateEvery-th one to the expensive  *)
(* oracles, and runs the accepted ones against the reference interpreter.  *)
(*                                                                         *)
(* A program is a record of what the kernel does with it; the generator    *)
(* picks any.  The hazards are in what outlives a program: the log buffer, *)
(* the output map, the store-site list, the table of seen addresses and    *)
(* the counters.                                                           *)
(***************************************************************************)
EXTENDS Integers, Sequences, FiniteSets, SequencesExt, FiniteSetsExt

CONSTANTS Program,     \* what may be generated, see ProgramType
          Input,       \* GI_INPUTS
          Byte,        \* offsets in the output map's value
          Address,     \* addresses KCOV may report
          Slots,       \* KSEEN_N, slots of the table of seen addresses
          Window,      \* slots kseen_add probes
          Home(_),     \* the slot an address hashes to
          Area,        \* addresses the trace buffer holds
          CorpusMax,   \* FZ_CORPUS_MAX
          MaxStores,   \* GI_MAXSTORES
          GateEvery,   \* 8: one program in so many goes to the oracles
          SampleEvery, \* 64: one unambiguous store in so many is printed
          MaxIters,    \* bound: programs the time budget lasts for
          None

\* What a program is, as far as the loop can tell two apart:
\*   out, freq  what its search ends in, by default and checkpointed often: a
\*              decision, one of two limits, EFAULT, or another error of the call
\*   fits       whether the default search's full log fits the buffer
\*   deep       whether checkpointing often explores more states
\*   fault      whether it breaks the kernel's own register invariants
\*   sites      the stores its body registers, in order
\*   hits       for each input, the 0xff bytes it leaves and the site of each
\*   reads      whether its result depends on what the output map held
\*   wrong      whether the kernel computes a wrong result
\*   modelled   whether the reference interpreter can run it
Decision    == {"accept", "verdict"}
Outcome     == Decision \cup {"too_large", "too_many_states", "efault", "error"}
ProgramType ==
  [trace : Seq(Address), out : Outcome, freq : Outcome,
   fits : BOOLEAN, deep : BOOLEAN, fault : BOOLEAN,
   sites : Seq({"variable", "fixed"}),
   hits : [Input -> UNION {[B -> {"variable", "fixed"}] : B \in SUBSET Byte}],
   reads : BOOLEAN, wrong : BOOLEAN, modelled : BOOLEAN]

VARIABLES pc,      \* where run_fuzz is
          iters, prog, fd, fresh,
          seen,    \* g_kseen: slot -> address or None
          count,   \* g_kseen_count
          corpus,  \* the programs kept, with the number of addresses each added
          sites,   \* g_gi_stores: of which program, and whether variable
          log,     \* the program whose full log g_log holds
          todo,    \* inputs the current program has still to run on
          dirty,   \* bytes of the output map that are not zero
          stat,    \* the counters of the STATUS line
          findings, \* FINDING lines printed: kind and program
          blocks,  \* sampled store blocks printed
          traced   \* history: every address a load reported

loop == <<pc, iters, prog, fd, fresh, todo>>
printed == <<findings, blocks>>
vars == <<loop, seen, count, corpus, sites, log, dirty, stat, printed, traced>>

Counter == {"accepted", "rejected", "prune_pairs", "prune_flips",
            "prune_artifacts", "inv_checked", "inv_faults", "compared",
            "findings", "store_progs", "store_none", "store_readfail",
            "store_unamb", "store_sampled", "store_stale"}
Slot == 0 .. Slots - 1

ASSUME FuzzAssumption ==
  /\ \A p \in Program : p \in ProgramType
  /\ Input \subseteq Nat
  /\ \A a \in Address : Home(a) \in Slot
  /\ Slots \in Nat \ {0} /\ Window \in 1 .. Slots
  /\ GateEvery \in Nat \ {0} /\ SampleEvery \in Nat \ {0}
  /\ {Area, CorpusMax, MaxStores, MaxIters} \subseteq Nat
  /\ None \notin Program /\ None \notin Address /\ None \notin Slot

\* The counters with each of cs one higher.
Bump(cs) == [c \in Counter |-> stat[c] + IF c \in cs THEN 1 ELSE 0]

Init ==
  /\ pc = "start" /\ iters = 0 /\ prog = None /\ fd = FALSE /\ fresh = 0
  /\ seen = [s \in Slot |-> None] /\ count = 0
  /\ corpus = <<>> /\ sites = <<>> /\ log = None
  /\ todo = {} /\ dirty = {}
  /\ stat = [c \in Counter |-> 0]
  /\ findings = {} /\ blocks = {} /\ traced = {}

-----------------------------------------------------------------------------
\* Without coverage feedback, memory or maps the loop refuses to start.
Start ==
  /\ pc = "start"
  /\ pc' \in {"loop", "aborted"}
  /\ UNCHANGED <<iters, prog, fd, fresh, todo, seen, count, corpus, sites, log,
                 dirty, stat, printed, traced>>

\* kcov_stop: what the buffer held of the trace.
Trace(p) == SubSeq(p.trace, 1, IF Len(p.trace) < Area THEN Len(p.trace) ELSE Area)

Probe(a) == [i \in 1 .. Window |-> (Home(a) + i - 1) % Slots]

\* (wrong on purpose) gives up at the first slot that is taken.
SlotAtHome(table, a) ==
  IF table[Home(a)] \in {None, a} THEN Home(a) ELSE None

\* kseen_add: the first slot of the window that is free or has the address.
SlotFor(table, a) ==
  LET fit == {i \in 1 .. Window : table[Probe(a)[i]] \in {None, a}}
  IN  IF fit = {} THEN None ELSE Probe(a)[Min(fit)]

\* kseen_add of one address: the table, and how many were new so far.
Add(acc, a) ==
  LET s == SlotFor(acc.table, a)
  IN  IF s # None /\ acc.table[s] = None
      THEN [table |-> [acc.table EXCEPT ![s] = a], new |-> acc.new + 1]
      ELSE acc

\* kseen_add of every address of the trace in turn.
AddAll(table, trace) ==
  LET acc[i \in 0 .. Len(trace)] ==
        IF i = 0 THEN [table |-> table, new |-> 0] ELSE Add(acc[i - 1], trace[i])
  IN  acc[Len(trace)]

\* gi_emit_body forgets the sites of the program before and registers its own,
\* as many as the table holds.
EmitSites(p) ==
  [i \in 1 .. IF Len(p.sites) < MaxStores THEN Len(p.sites) ELSE MaxStores |->
     [of |-> p, kind |-> p.sites[i]]]

\* A program that reached new code is kept while there is room.
Keep(p, new) ==
  IF new > 0 /\ Len(corpus) < CorpusMax
  THEN Append(corpus, [prog |-> p, new_pcs |-> new]) ELSE corpus

\* One turn of the loop up to the gate: a program is made, from the corpus or
\* at random, loaded without a log, and its coverage looked at.
Load(p) ==
  /\ pc = "loop" /\ iters < MaxIters
  /\ iters' = iters + 1
  /\ prog' = p
  /\ sites' = EmitSites(p)
  /\ fd' = (p.out = "accept")
  /\ stat' = Bump({IF p.out = "accept" THEN "accepted" ELSE "rejected"})
  /\ LET added == AddAll(seen, Trace(p))
     IN  /\ seen' = added.table
         /\ count' = count + added.new
         /\ fresh' = added.new
         /\ corpus' = Keep(p, added.new)
  /\ traced' = traced \cup ToSet(Trace(p))
  /\ pc' = "gate"
  /\ UNCHANGED <<log, todo, dirty, printed>>

-----------------------------------------------------------------------------
(* The gate: two more loads of the same program, and what they disagree on. *)

\* log_is_current: whether this program goes through the gate, and so whether
\* g_log is its own.
LogIsCurrent == fresh > 0 \/ iters % GateEvery = 0

\* prune_load_typed at log level 2: a log that does not fit is an error too.
Base(p) == IF p.fits THEN p.out ELSE "log_truncated"

\* A flagged rejection at a limit is the instrument's own artefact.  A load that
\* fails with EFAULT, or with an error that is no decision, is not one of them.
Resource(p) == p.freq \in {"too_large", "too_many_states", "log_truncated"}

Flipped(p) == (Base(p) = "accept") # (p.freq = "accept")

\* The pruning differential's finding, in the direction it has.
PruneFinding(p) ==
  IF p.deep /\ Flipped(p) /\ ~Resource(p)
  THEN {[kind |-> IF p.freq = "accept" /\ Base(p) # "accept"
                  THEN "prune_soundness_desync" ELSE "prune_verdict_disagreement",
         prog |-> p]}
  ELSE {}

\* (wrong on purpose) the denominator of a load other than the one compared.
InvariantCountsOfBase(p) ==
  (IF Base(p) = "accept" THEN {"inv_checked"} ELSE {})
  \cup (IF p.out = "accept" /\ p.fault THEN {"inv_faults"} ELSE {})

\* The invariant load counts only where the plain load accepted.
InvariantCounts(p) ==
  (IF p.out = "accept" THEN {"inv_checked"} ELSE {})
  \cup (IF p.out = "accept" /\ p.fault THEN {"inv_faults"} ELSE {})

Gate ==
  /\ pc = "gate" /\ LogIsCurrent
  /\ log' = prog
  /\ stat' = Bump((IF prog.deep THEN {"prune_pairs"} ELSE {})
                  \cup (IF Resource(prog) THEN {"prune_artifacts"} ELSE {})
                  \cup (IF PruneFinding(prog) # {} THEN {"prune_flips"} ELSE {})
                  \cup InvariantCounts(prog))
  /\ findings' = findings \cup PruneFinding(prog)
       \cup (IF prog.out = "accept" /\ prog.fault
             THEN {[kind |-> "reg_invariants_violation", prog |-> prog]} ELSE {})
  /\ pc' = "run" /\ todo' = IF fd THEN Input ELSE {}
  /\ UNCHANGED <<iters, prog, fd, fresh, seen, count, corpus, sites, dirty,
                 blocks, traced>>

SkipGate ==
  /\ pc = "gate" /\ ~LogIsCurrent
  /\ pc' = "run" /\ todo' = IF fd THEN Input ELSE {}
  /\ UNCHANGED <<iters, prog, fd, fresh, seen, count, corpus, sites, log, dirty,
                 stat, printed, traced>>

-----------------------------------------------------------------------------
(* The runs of an accepted program.                                         *)

NextInput == CHOOSE a \in todo : \A b \in todo : a <= b

\* The input's map or the output map could not be set: on to the next input.
SkipInput ==
  /\ pc = "run" /\ todo # {}
  /\ todo' = todo \ {NextInput}
  /\ UNCHANGED <<pc, iters, prog, fd, fresh, seen, count, corpus, sites, log,
                 dirty, stat, printed, traced>>

\* (wrong on purpose) goes on when the output map could not be cleared.
PrepareUnchecked ==
  /\ pc = "run" /\ todo # {}
  /\ pc' = "ready"
  /\ dirty' \in {dirty, {}}
  /\ UNCHANGED <<iters, prog, fd, fresh, todo, seen, count, corpus, sites, log,
                 stat, printed, traced>>

\* Both maps are set, and the output map holds zeros.
Prepare ==
  /\ pc = "run" /\ todo # {}
  /\ pc' = "ready"
  /\ dirty' = {}
  /\ UNCHANGED <<iters, prog, fd, fresh, todo, seen, count, corpus, sites, log,
                 stat, printed, traced>>

\* The program's own bytes, over what the output map held.
Left == dirty \cup DOMAIN prog.hits[NextInput]

\* The reference does not model the program, or the test run fails: nothing is
\* compared.  A test run may fail once the program has run.
GiveUp ==
  /\ pc = "ready"
  /\ pc' = "run"
  /\ todo' = todo \ {NextInput}
  /\ dirty' \in {dirty} \cup (IF prog.modelled THEN {Left} ELSE {})
  /\ UNCHANGED <<iters, prog, fd, fresh, seen, count, corpus, sites, log,
                 stat, printed, traced>>

Variable == {i \in DOMAIN sites : sites[i].kind = "variable"}

\* A registered site that is not an instruction of this program.
Stale == \E i \in Variable : sites[i].of # prog

\* (wrong on purpose) samples whatever the log buffer holds.
UnambiguousInAnyLog(hit) ==
  Cardinality(Variable) = 1 /\ Cardinality(hit) = 1 /\ ~Stale

\* One variable site, one byte, and the program's own log.
Unambiguous(hit) ==
  Cardinality(Variable) = 1 /\ Cardinality(hit) = 1 /\ ~Stale /\ LogIsCurrent

\* The store channel: what was read back of the output map.
StoreCounts(hit) ==
  IF hit = {} THEN {"store_none"}
  ELSE {"store_progs"} \cup (IF Stale THEN {"store_stale"} ELSE {})
       \cup (IF Unambiguous(hit)
             THEN {"store_unamb"}
                  \cup (IF (stat["store_unamb"] + 1) % SampleEvery = 0
                        THEN {"store_sampled"} ELSE {})
             ELSE {})

\* A run, and the two oracles on it.  A wrong result prints a finding and
\* loads the program once more, with a full log into g_log.
Run(readback) ==
  /\ pc = "ready" /\ prog.modelled
  /\ LET a     == NextInput
         store == IF readback THEN StoreCounts(Left) ELSE {"store_readfail"}
         bad   == prog.wrong \/ (prog.reads /\ dirty # {})
     IN  /\ pc' = "run"
         /\ todo' = todo \ {a}
         /\ dirty' = Left
         /\ blocks' = blocks \cup
              (IF "store_sampled" \in store
               THEN {[prog |-> prog, log |-> log, input |-> a, byte |-> b] : b \in Left}
               ELSE {})
         /\ findings' = findings \cup
              (IF bad THEN {[kind |-> "result", prog |-> prog]} ELSE {})
         /\ log' = IF bad THEN prog ELSE log
         /\ stat' = Bump(store \cup {"compared"}
                         \cup (IF bad THEN {"findings"} ELSE {}))
  /\ UNCHANGED <<iters, prog, fd, fresh, seen, count, corpus, sites, traced>>

\* The program is closed and the loop looks at the clock again.
NextProgram ==
  /\ pc = "run" /\ todo = {}
  /\ pc' = "loop" /\ fd' = FALSE
  /\ UNCHANGED <<iters, prog, fresh, todo, seen, count, corpus, sites, log,
                 dirty, stat, printed, traced>>

\* The time budget is used up.
Stop ==
  /\ pc = "loop" /\ pc' = "done"
  /\ UNCHANGED <<iters, prog, fd, fresh, todo, seen, count, corpus, sites, log,
                 dirty, stat, printed, traced>>

Next ==
  \/ Start \/ Gate \/ SkipGate \/ NextProgram \/ Stop
  \/ SkipInput \/ Prepare \/ GiveUp
  \/ \E p \in Program : Load(p)
  \/ \E readback \in BOOLEAN : Run(readback)

Spec == Init /\ [][Next]_vars
-----------------------------------------------------------------------------
(* Properties.                                                              *)

Ran(p, a) == DOMAIN p.hits[a]

TypeOK ==
  /\ pc \in {"start", "aborted", "loop", "gate", "run", "ready", "done"}
  /\ iters \in 0 .. MaxIters /\ prog \in Program \cup {None}
  /\ fd \in BOOLEAN /\ fresh \in Nat
  /\ seen \in [Slot -> Address \cup {None}] /\ count \in 0 .. Slots
  /\ corpus \in Seq([prog : Program, new_pcs : 1 .. Slots])
  /\ Len(corpus) <= CorpusMax
  /\ sites \in Seq([of : Program, kind : {"variable", "fixed"}])
  /\ Len(sites) <= MaxStores
  /\ log \in Program \cup {None}
  /\ todo \subseteq Input /\ dirty \subseteq Byte
  /\ stat \in [Counter -> Nat]
  /\ findings \subseteq
       [kind : {"prune_soundness_desync", "prune_verdict_disagreement",
                "reg_invariants_violation", "result"}, prog : Program]
  /\ blocks \subseteq [prog : Program, log : Program \cup {None},
                       input : Input, byte : Byte]
  /\ traced \subseteq Address

\* What a sampled block shows belongs together: the log is that of the program
\* the block replays, whatever the log buffer went through before, and the byte
\* is one that this program leaves on this input.
BlocksAreOwn ==
  \A b \in blocks : b.log = b.prog /\ b.byte \in Ran(b.prog, b.input)

\* A result is reported only if the kernel computed it wrongly.  The output map
\* keeps the bytes of every run, also of one whose call failed and of the program
\* before: none of them reaches a program that reads the map, on whatever way
\* through skipped inputs and given-up runs the loop comes to it.
ResultsAreReal == \A f \in findings : f.kind = "result" => f.prog.wrong

\* Every count of something bad has its denominator: nothing is counted as
\* found that was not counted as looked at, and every run has one store result.
CountsAddUp ==
  /\ stat["accepted"] + stat["rejected"] = iters
  /\ stat["prune_flips"] <= stat["prune_pairs"]
  /\ stat["inv_faults"] <= stat["inv_checked"]
  /\ stat["findings"] <= stat["compared"]
  /\ stat["store_progs"] + stat["store_none"] + stat["store_readfail"]
       = stat["compared"]
  /\ stat["store_sampled"] * SampleEvery <= stat["store_unamb"]
  /\ stat["store_unamb"] <= stat["store_progs"]
  /\ stat["store_stale"] = 0

\* How many addresses the programs of a corpus brought together.
Brought(c) ==
  LET sum[i \in 0 .. Len(c)] == IF i = 0 THEN 0 ELSE sum[i - 1] + c[i].new_pcs
  IN  sum[Len(c)]

\* seen_pcs is the number of addresses in the table, each there once, and while
\* the corpus has room it is what the programs in it brought, program by program.
\* An address that was reported once is in the table, unless its whole window
\* is taken by others: nothing already seen is forgotten or counted again.
CoverageAccounted ==
  /\ count = Cardinality({s \in Slot : seen[s] # None})
  /\ \A s, t \in Slot : seen[s] = seen[t] /\ seen[s] # None => s = t
  /\ Len(corpus) < CorpusMax =>
       count = Brought(corpus)
  /\ \A a \in traced :
       \/ \E s \in Slot : seen[s] = a
       \/ \A i \in 1 .. Window : seen[Probe(a)[i]] # None

\* diffharness.c:4939-4940: "freq ACCEPT + base REJECT -- the extra checkpoints
\* pruned away a path that produced the rejection. Only an unsound regsafe does
\* that."
DesyncIsPruning ==
  \A f \in findings : f.kind = "prune_soundness_desync" =>
    f.prog.out = "verdict" /\ f.prog.freq = "accept"

=============================================================================
