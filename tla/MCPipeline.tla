----------------------------- MODULE MCPipeline -----------------------------
(***************************************************************************)
(* Harvests for Pipeline.  Three that are harvested by up to three         *)
(* processes in any order: they differ in exec count and in number of      *)
(* records, so that a join of two of them shows, and have records with     *)
(* findings of most oracles, a tie of two scores, and a parser gap.  And   *)
(* one of a single record for each state of a register, run, store, probe  *)
(* or live-register table, harvested by one process.                       *)
(***************************************************************************)
EXTENDS Pipeline

\* A scalar of which nothing is printed, and a record of nothing.
Unknown == [at |-> 0, reg |-> 0, scalar |-> TRUE, value |-> 0, mask |-> MaxWord,
            umin |-> 0, umax |-> MaxWord, smin |-> MinSigned, smax |-> MaxSigned,
            u32min |-> None, u32max |-> None, s32min |-> None, s32max |-> None,
            off |-> None, logged |-> FALSE]
Plain == [accept |-> TRUE, jit |-> None, violations |-> << >>, args |-> << >>, regs |-> << >>,
          runs |-> << >>, site |-> None, multi |-> FALSE, intended |-> None, probe |-> None,
          gate |-> None, documented |-> None, reworded |-> FALSE]
Sample == [retval |-> 0, observed |-> TRUE, intended |-> None, off |-> None, len |-> None,
           size |-> None, executed |-> "unsaid", error |-> FALSE]

Tnum(s, value, mask) == [s EXCEPT !.value = value, !.mask = mask]
Bounds(s, lo, hi)    == [s EXCEPT !.umin = lo, !.umax = hi, !.logged = s.scalar]
Number(v) == [Tnum(Bounds(Unknown, v, v), v, 0) EXCEPT
                !.smin = AsSigned(v), !.smax = AsSigned(v), !.logged = FALSE]

-----------------------------------------------------------------------------
(* Registers, whole or contradictory.                                      *)

Tnums   == {<<0, 15>>, <<0, 0>>, <<5, 0>>, <<15, 0>>, <<0, 3>>, <<4, 3>>, <<1, 6>>, <<8, 7>>, <<3, 1>>}
Spans   == {<<0, 15>>, <<0, 1>>, <<5, 5>>, <<5, 9>>, <<9, 5>>, <<0, 7>>, <<4, 7>>, <<3, 5>>}
Signeds == {<<-8, 7>>, <<0, 5>>, <<5, 5>>, <<3, -2>>}
Low32   == {<<None, None>>, <<1, 2>>, <<3, 1>>, <<None, 2>>}
Signed32 == {<<None, None>>, <<-2, 0>>, <<1, -1>>}

Scalars ==
  {[Bounds(Tnum(Unknown, t[1], t[2]), u[1], u[2]) EXCEPT
      !.smin = i[1], !.smax = i[2], !.u32min = l[1], !.u32max = l[2], !.s32min = k[1], !.s32max = k[2],
      !.logged = u # <<0, 15>> \/ i # <<-8, 7>>] :
     t \in Tnums, u \in Spans, i \in Signeds, l \in Low32, k \in Signed32}
  \cup {Number(v) : v \in {0, 5, 15}}
Pointer(s) == [s EXCEPT !.scalar = FALSE, !.logged = FALSE, !.at = 7, !.reg = 7]
Pointers == {Pointer(Bounds(Tnum(Unknown, t[1], t[2]), u[1], u[2])) : t \in Tnums, u \in Spans}

Registers == {[Plain EXCEPT !.regs = <<s>>] : s \in Scalars \cup Pointers}

-----------------------------------------------------------------------------
(* Runs: the value r0 returns, after one or two states of it; the place of *)
(* a store, after one or two states of its base.                           *)

Returned == {Number(2), Number(15), Unknown, Bounds(Tnum(Unknown, 0, 3), 1, 2),
             [Bounds(Unknown, 0, 12) EXCEPT !.u32min = 0, !.u32max = 1],
             [Unknown EXCEPT !.u32min = 2, !.u32max = 3], [Unknown EXCEPT !.u32max = 1]}
Returns ==
  {[Plain EXCEPT !.regs = <<s, [t EXCEPT !.at = 4]>>, !.multi = m, !.intended = i,
                 !.runs = <<[Sample EXCEPT !.retval = v], [Sample EXCEPT !.error = TRUE]>>] :
     s, t \in Returned, v \in 0 .. 3, m \in BOOLEAN, i \in {None, 1}}

Bases == {Pointer([Bounds(Tnum(Unknown, t[1], t[2]), 0, 7) EXCEPT !.off = o]) :
            t \in {<<0, 3>>, <<4, 3>>, <<0, 4>>}, o \in {None, 2}}
         \cup {Pointer(Tnum(Unknown, 3, 0)), Pointer(Tnum(Unknown, 4, 3)), Pointer(Bounds(Tnum(Unknown, 8, 7), 8, 14)), Unknown}
Stores ==
  {[Plain EXCEPT !.regs = <<s, t>>, !.site = [at |-> 7, reg |-> 7, off |-> 1],
                 !.runs = <<[Sample EXCEPT !.off = o, !.observed = FALSE, !.len = 1, !.size = w[1],
                                           !.executed = w[2]]>>] :
     s, t \in Bases, o \in {-1, 1, 4, 5, 8}, w \in {<<1, "yes">>, <<2, "yes">>, <<None, "no">>}}

-----------------------------------------------------------------------------
(* Probes, live-register tables, arguments, documents.                     *)

Probe == [base : BOOLEAN, freq : BOOLEAN, changed : BOOLEAN, efault : BOOLEAN,
          reason : {"verdict", "resource"}]
Gate == [kernel : [{0, 1} -> {{}, {1}, {1, 2}}],
         claim : {None} \cup [{0} -> {{}, {2}}] \cup [{0, 1} -> {{}, {1}}]]

Others ==
  {[Plain EXCEPT !.probe = p] : p \in Probe} \cup {[Plain EXCEPT !.gate = g] : g \in Gate}
  \cup {[Plain EXCEPT !.accept = a, !.jit = j, !.args = <<x, "silent", "agrees">>, !.violations = <<x>>] :
          a \in BOOLEAN, j \in {None, "same", "differs"}, x \in {"silent", "agrees", "differs"}}
  \cup {[Plain EXCEPT !.accept = a, !.documented = d, !.reworded = w] :
          a, w \in BOOLEAN, d \in {None} \cup BOOLEAN}

-----------------------------------------------------------------------------
Clean    == Plain
Inverted == [Plain EXCEPT !.regs = <<Bounds(Unknown, 9, 5), Bounds(Tnum(Unknown, 4, 3), 8, 12)>>]
Silent   == [Plain EXCEPT !.violations = <<"silent">>]
Proto    == [Plain EXCEPT !.violations = <<"differs">>]
Jit      == [Plain EXCEPT !.jit = "differs"]
JitInverted == [Inverted EXCEPT !.jit = "differs"]
Desync   == [Plain EXCEPT !.probe = [base |-> FALSE, freq |-> TRUE, changed |-> TRUE,
                                     efault |-> FALSE, reason |-> "verdict"]]

Harvests == {[exec |-> 1, recs |-> <<Clean, JitInverted, Inverted>>, gaps |-> 0],
             [exec |-> 2, recs |-> <<Proto, Silent, Jit, Clean, Desync>>, gaps |-> 1],
             [exec |-> 3, recs |-> << >>, gaps |-> 2]}

MCHistories ==
  [1 .. 3 -> Harvests]
  \cup {<<[exec |-> 1, recs |-> <<rec>>, gaps |-> 0]>> : rec \in Registers \cup Returns \cup Stores \cup Others}
=============================================================================
