---------------------------- MODULE StateFamilies ----------------------------
(***************************************************************************)
(* The families of harness/diffharness.c that aim at how the verifier      *)
(* compares states: precision, scalar ids, spilled links, frames,          *)
(* iterators and dynptr slices.  In most of them one input selects one of  *)
(* two paths, which differ in what they leave in the registers, and a      *)
(* store after the paths have met is in bounds on both or is not.          *)
(*                                                                         *)
(* A program's map_in holds up to four words of input; "word i of it ->    *)
(* register" is an instruction, as in Families, and so are these calls.    *)
(***************************************************************************)
EXTENDS Families

\* bpf_iter_num_new(fp - 8, 0, end), bpf_iter_num_next(fp - 8) -> r0,
\* bpf_iter_num_destroy(fp - 8); a slice of a dynptr over the value in r6.
IterNew(end)    == Insn("call", "iter_new", FALSE, 8, 0, 0, 0, end)
IterNext        == Insn("call", "iter_next", FALSE, 8, 0, 0, 0, 0)
IterDestroy     == Insn("call", "iter_destroy", FALSE, 8, 0, 0, 0, 0)
Slice(off, szk) == Insn("call", "slice", FALSE, 8, 0, 6, off, szk)

\* A call to a program of this program, `distance` instructions further on.
CallSub(distance) == Insn("call", "sub", FALSE, 8, 0, 0, 0, distance)

DynSize == 32      \* DYN_SIZE

\* Registers from words of the input: <<r6, r8>> takes word 0 and word 1.
Inputs4(regs) == [i \in 1 .. Len(regs) |-> Input(regs[i], i - 1)]

\* The sentinel goes to map_out + r[src] + off; r0 = 1 says that it did.
StoreVia(ptr, src, off) ==
  <<LookupOut, AluX("mov", ptr, 0), AluX("add", ptr, src), St(1, ptr, off, -1)>>
  \o ExitWith(1) \o ExitWith(0)

\* "Names r6 only": a path on which r6 > 7 exits; `more` instructions are
\* between this jump and StoreVia.
NarrowR6(more) == <<JmpK("jgt", 6, 7, ToExit0 + more)>>

StateArm(family, code, must) == Arm(family, code, 1, must, {}, 0)

\* Where the selector of a family is, among the words of its input.
Selector == [prec |-> 1, exact |-> 1, rw |-> 1, spill |-> 3, frame |-> 2,
             idpart |-> 3, idmap |-> 2]

-----------------------------------------------------------------------------
(* Precision: the paths differ in a constant, which the store uses or not. *)

TwoConstants(fall, taken) == Split(8, <<AluK("mov", 7, fall)>>, <<AluK("mov", 7, taken)>>)
Masked == <<Input(6, 0), AluK("and", 6, 7), Input(8, 1)>>

\* run_prec_prog, run_generated_prec_family; PREC_STORE_OFF is 40.
PrecProg(fall, taken, src) ==
  StateArm("prec", Masked \o TwoConstants(fall, taken) \o StoreVia(2, src, 40),
           OrReject(src = 7 => fall + 40 < ValueSize /\ taken + 40 < ValueSize))

PrecArms == {PrecProg(8, 16, 7), PrecProg(8, 16, 6), PrecProg(8, 23, 7),
             PrecProg(8, 24, 7), PrecProg(8, 40, 7), PrecProg(8, 8, 7)}

\* run_exact_prog: the pair alone, the pair in a may_goto loop, and a loop
\* that never ends, to be rejected.
ExactInf == <<K("and", 7), JmpK("jlt", 6, 10, -2)>>
ExactLoop == <<AluK("mov", 7, 8)>> \o MayGotoLoop(TwoConstants(8, 16))

ExactProg(body, src, must) ==
  StateArm("exact", Masked \o body \o StoreVia(2, src, 40), must)

ExactArms ==    \* run_generated_exact_family
  {ExactProg(ExactInf, 6, "reject")}
  \cup {ExactProg(b, src, "accept") : b \in {TwoConstants(8, 16), ExactLoop}, src \in {6, 7}}

-----------------------------------------------------------------------------
(* Iterators: a loop of a known number of turns.                           *)

\* emit_iter_loop, from 0.
IterLoop(end, body) ==
  <<IterNew(end), IterNext, JmpK("jeq", 0, 0, Len(body) + 1)>>
  \o body \o <<Ja(-Len(body) - 3), IterDestroy>>

\* run_rw_prog, run_generated_rw_family: the pair meets at the iterator.
RwProg(use_iter, src) ==
  StateArm("rw", Masked \o TwoConstants(8, 16)
                 \o (IF use_iter THEN IterLoop(4, LoopBody.nop) ELSE << >>)
                 \o StoreVia(2, src, 40), "accept")

RwArms == {RwProg(i, src) : i \in BOOLEAN, src \in {6, 7}}

\* run_iter_prog, run_generated_iter_family: the bodies of the may_goto loops.
\* Where a body does not grow r6 the two mechanisms agree; at offset 48 the
\* store is in bounds iff r6 <= 15.
IterProg(name, off) ==
  StateArm("iter", <<Input(6, 0), K("and", 7)>> \o IterLoop(8, LoopBody[name])
                   \o StoreVia(7, 6, off),
           OrReject(off = 48 \/ name \notin Grows))

IterArms == {IterProg(b, StoreOff) : b \in DOMAIN LoopBody}
            \cup {IterProg("inc", 48), IterProg("nop", 48)}

\* run_probe_iter: no store; r6 counts the turns under a mask, or without one.
IterProbe(body, tail) == <<AluK("mov", 6, 0)>> \o IterLoop(8, body) \o tail
IterProbes ==
  {StateArm("iterprobe", IterProbe(LoopBody.inc, ExitWith(0)), "accept"),
   StateArm("iterprobe", IterProbe(LoopBody.incmask, StoreVia(7, 6, StoreOff)), "accept"),
   StateArm("iterprobe", IterProbe(LoopBody.inc, StoreVia(7, 6, StoreOff)), "reject")}

\* run_loopr_prog, run_generated_loopr_family: may_goto loops that are run.
LooprProg(name) == [LoopProg(name, 7) EXCEPT !.family = "loopr"]
LooprArms == {LooprProg(b) : b \in {"nop", "mask", "incmask", "shr", "xor3", "cond", "maskinc"}}

-----------------------------------------------------------------------------
(* Scalar ids: r6 is narrowed, and a register copied from it with it.      *)

\* emit_idmap_link.
IdmapLink == [nolink |-> << >>,
              mov    |-> <<AluX("mov", 7, 6)>>,
              addc64 |-> <<AluX("mov", 7, 6), AluK("add", 7, 4)>>,
              addc32 |-> <<Alu32X("mov", 7, 6), Alu32K("add", 7, 4)>>]

\* run_idmap_prog, run_generated_idmap_family: the link on the path that falls
\* through, or on both; the store through the linked register or through r6.
IdmapProg(link, both, use_r6) ==
  StateArm("idmap",
           Inputs4(<<6, 7, 9>>)
           \o Split(9, IdmapLink[link], IF both THEN IdmapLink[link] ELSE << >>)
           \o NarrowR6(0) \o StoreVia(8, IF use_r6 THEN 6 ELSE 7, 48),
           OrReject(use_r6 \/ (both /\ link # "nolink")))

IdmapArms == {IdmapProg("nolink", FALSE, FALSE), IdmapProg("nolink", FALSE, TRUE),
              IdmapProg("mov", FALSE, TRUE)}
             \cup {IdmapProg(l, b, FALSE) : l \in {"mov", "addc64", "addc32"}, b \in BOOLEAN}

\* emit_idpart, idpart_narrows_r9.
Idpart == [same  |-> <<AluX("mov", 7, 6), AluX("mov", 9, 6)>>,
           chain |-> <<AluX("mov", 7, 6), AluX("mov", 9, 7)>>,
           addc  |-> <<AluX("mov", 7, 6), AluX("mov", 9, 6), AluK("add", 9, 4)>>,
           swap  |-> <<AluX("mov", 9, 6), AluX("mov", 7, 6)>>,
           tied8 |-> <<AluX("mov", 7, 6), AluX("mov", 9, 8)>>]
IdpartNarrowsR9(shape) == shape # "tied8"

\* run_idpart_prog, run_generated_idpart_family: word 3 selects, through r1.
IdpartProg(fall, taken) ==
  StateArm("idpart",
           Inputs4(<<6, 7, 8, 1>>) \o Split(1, Idpart[fall], Idpart[taken])
           \o NarrowR6(0) \o StoreVia(2, 9, 48),
           OrReject(IdpartNarrowsR9(fall) /\ IdpartNarrowsR9(taken)))

IdpartArms ==
  {IdpartProg(s, s) : s \in DOMAIN Idpart \ {"swap"}}
  \cup {IdpartProg(s, "tied8") : s \in {"same", "chain", "addc"}}
  \cup {IdpartProg("same", s) : s \in {"swap", "chain", "addc"}}
  \cup {IdpartProg("tied8", "same"), IdpartProg("swap", "same")}

\* emit_spill_shape: with the link, and without it the same stores and sums.
SpillShape == [spill   |-> [linked   |-> <<AluX("mov", 7, 6), Stx(8, 10, 7, -16)>>,
                            unlinked |-> <<Stx(8, 10, 7, -16)>>],
               delta   |-> [linked   |-> <<AluX("mov", 7, 6), AluK("add", 7, 4),
                                           AluX("mov", 9, 6), AluK("add", 9, 12)>>,
                            unlinked |-> <<AluK("add", 7, 4), AluK("add", 9, 12)>>],
               delta32 |-> [linked   |-> <<Alu32X("mov", 7, 6), Alu32K("add", 7, 4),
                                           Alu32X("mov", 9, 6), Alu32K("add", 9, 12)>>,
                            unlinked |-> <<Alu32K("add", 7, 4), Alu32K("add", 9, 12)>>]]

\* run_spill_prog, run_generated_spill_family: register 8 is what is reloaded
\* from the stack after the check.
SpillProg(shape, links, src) ==
  LET path(linked) == IF linked THEN SpillShape[shape].linked ELSE SpillShape[shape].unlinked
      reload == IF src = 8 THEN <<Ldx(8, 8, 10, -16)>> ELSE << >>
  IN  StateArm("spill",
               Inputs4(<<6, 7, 9, 8>>) \o Split(8, path(links # "no"), path(links = "both"))
               \o NarrowR6(Len(reload)) \o reload \o StoreVia(2, src, 44),
               OrReject(src = 6 \/ links = "both"))

SpillArms ==
  {SpillProg("spill", l, 8) : l \in {"no", "one", "both"}} \cup {SpillProg("spill", "one", 6)}
  \cup {SpillProg(s, l, 9) : s \in {"delta", "delta32"}, l \in {"no", "one", "both"}}
  \cup {SpillProg(s, "both", 7) : s \in {"delta", "delta32"}}

-----------------------------------------------------------------------------
(* Frames and slices.                                                      *)

\* run_frame_prog, run_generated_frame_family: the link is made by the caller,
\* the narrowing and the store are the callee's.
FrameProg(links, arg) ==
  LET link(on) == IF on THEN <<AluX("mov", 7, 6)>> ELSE << >>
  IN  StateArm("frame",
               Inputs4(<<6, 7, 8>>) \o Split(8, link(links # "no"), link(links = "both"))
               \o <<AluX("mov", 1, 6), AluX("mov", 2, 7), CallSub(4)>>
               \o ExitWith(1) \o ExitWith(0)
               \o <<AluX("mov", 6, 1), AluX("mov", 7, 2), JmpK("jgt", 6, 7, 4), LookupOut,
                    AluX("mov", 3, 0), AluX("add", 3, arg), St(1, 3, 48, -1)>>
               \o ExitWith(0),
               OrReject(arg = 6 \/ links = "both"))

FrameArms == {FrameProg(l, arg) : l \in {"no", "one", "both"}, arg \in {6, 7}}

\* run_dyn_prog, run_generated_dyn_family: a slice of szk units at off, NULL
\* where the dynptr is shorter, and a store at k in it.
DynProg(off, szk, k) ==
  [Arm("dyn", <<LookupOut, AluX("mov", 6, 0), Slice(off, szk), JmpK("jeq", 0, 0, 3),
                St(1, 0, k, -1)>> \o ExitWith(1) \o ExitWith(0),
       1, OrReject(k < szk), IF off + szk <= DynSize THEN {off + k} ELSE {}, 0)
   EXCEPT !.object = off .. off + szk - 1]

DynArms == {DynProg(0, 8, 0), DynProg(0, 8, 7), DynProg(0, 8, 8),
            DynProg(24, 8, 7), DynProg(28, 8, 0), DynProg(0, 64, 0)}

StateArms == PrecArms \cup ExactArms \cup RwArms \cup IterArms \cup LooprArms
             \cup IdmapArms \cup IdpartArms \cup SpillArms \cup FrameArms \cup DynArms
             \cup IterProbes

=============================================================================
