------------------------------- MODULE Families -------------------------------
(***************************************************************************)
(* The programs of the harness's generated families, harness/              *)
(* diffharness.c, as instructions of Isa, and what the generator says of   *)
(* each: whether the verifier must accept it, where its store lands.       *)
(*                                                                         *)
(* Calls to the kernel are instructions of class "call".  The look-up of   *)
(* an input (of key 0 in an array, which cannot fail) and the load of word *)
(* i of it is one instruction; so is the look-up of the output value.      *)
(***************************************************************************)
EXTENDS Isa

\* *(u32 *)(map_in + 4 * slot) -> r; map_out -> r0; data and data_end -> r2, r3;
\* bpf_skb_change_tail(r1, r2); may_goto +off.
Input(r, slot) == Insn("call", "input", FALSE, 4, r, 0, 0, slot)
LookupOut      == Insn("call", "lookup", FALSE, 8, 0, 0, 0, 0)
PacketBounds   == Insn("call", "packet", FALSE, 8, 0, 0, 0, 0)
ChangeTail     == Insn("call", "tail", FALSE, 8, 0, 2, 0, 0)
MayGoto(off)   == Insn("jmp", "may_goto", FALSE, 8, 0, 0, off, 0)

ValueSize == 64     \* RTW_VALUE_SIZE
PktM      == 32     \* PKTW_M
StoreOff  == 56     \* PRUNE_STORE_OFF, LOOP_STORE_OFF
Widths    == {1, 2, 4, 8}

\* One generated program.  must: the verdict the generator says an
\* exact verifier would reach; where: the offsets it says the store may land at, or the
\* values it may return; len: the length of the packet; object: the units that
\* a store may touch.
Arm(family, code, size, must, where, len) ==
  [family |-> family, code |-> Code(code), size |-> size, must |-> must,
   where |-> where, len |-> len,
   object |-> IF len > 0 THEN 0 .. len - 1 ELSE 0 .. ValueSize - 1]

K(op, c) == AluK(op, 6, c)
ExitWith(c) == <<AluK("mov", 0, c), Exit>>

-----------------------------------------------------------------------------
(* run_rt_prog: a value is shaped and returned.                            *)

RtProg(shape, where) ==
  Arm("rt", <<Input(6, 0)>> \o shape \o <<AluX("mov", 0, 6), Exit>> \o ExitWith(0),
      0, "accept", where, 0)

\* run_generated_rt_family; masks and constants scaled to the word.
RtArms ==
  {RtProg(<<K("and", m)>>, 0 .. m) : m \in {1, 15, 127}}
  \cup {RtProg(<<K("and", m), K("add", c)>>, c .. m + c) : m \in {7, 63}, c \in {1, 100}}
  \cup {RtProg(<<K("and", 15), K("lsh", c)>>, 0 .. 15 * 2 ^ c) : c \in {2, 4}}
  \cup {RtProg(<<JmpK("jgt", 6, k, 2)>>, 0 .. k) : k \in {10, 127}}
  \cup {RtProg(<<Alu32K("and", 6, m), Alu32K("or", 6, c)>>, 0 .. m + c)
          : m \in {15, 112}, c \in {0, 5}}

-----------------------------------------------------------------------------
(* A store through r7 = map_out + r6, the offset shaped before.            *)

\* The tail of run_rtw_prog, run_rtw2_prog, run_loc_prog, run_prune_prog and
\* run_loop_prog; `exit0` is its seventh instruction.
StoreAt(width, off, witness) ==
  <<LookupOut, AluX("mov", 7, 0), AluX("add", 7, 6), St(width, 7, off, -1)>>
  \o ExitWith(witness) \o ExitWith(0)
ToExit0 == 6

StoreProg(family, shape, width, off, witness, must, where) ==
  Arm(family, <<Input(6, 0)>> \o shape \o StoreAt(width, off, witness),
      width, must, where, 0)

\* run_rtw_prog, run_generated_rtw_family.  -1 is 0xff.
RtwArms ==
  {StoreProg("rtw", <<K("and", m)>>, 1, 0, 0, "accept", 0 .. m) : m \in {7, 15, 31, 63}}
  \cup {StoreProg("rtw", <<K("and", 15), K("add", c)>>, 1, 0, 0, "accept", c .. c + 15)
          : c \in {0, 24, 48}}
  \cup {StoreProg("rtw", <<K("and", m)>>, 1, 0, 0, "reject", {}) : m \in {127, -1}}

\* "Accept iff MASK + N <= value_size" (diffharness.c:2156).
Fits(mask, width) == IF mask + width <= ValueSize THEN "accept" ELSE "reject"

\* run_rtw2_prog, run_generated_rtw2_family: N sentinel bytes at a masked
\* offset, or at a constant one that ends at the end of the value or one past.
ConstProg(width, off, must) ==
  Arm("rtw2", <<LookupOut, AluX("mov", 7, 0), St(width, 7, off, -1)>>
              \o ExitWith(0) \o ExitWith(0),
      width, must, IF must = "accept" THEN {off} ELSE {}, 0)

Rtw2Arms ==
  {StoreProg("rtw2", <<K("and", m)>>, w, 0, 0, Fits(m, w),
             IF Fits(m, w) = "accept" THEN 0 .. m ELSE {}) : m \in {7, 31, 63}, w \in Widths}
  \cup {ConstProg(w, ValueSize - w, "accept") : w \in Widths}
  \cup {ConstProg(w, ValueSize - w + 1, "reject") : w \in Widths}

\* run_loc_prog, run_generated_loc_family: one transfer function each, with the
\* set of offsets it says the store lands at; r0 = 1 where it was executed.
\* LOC_RSH keeps the top three bits of an input, LOC_SHPAIR four of a word.
LocShapes ==
  {<<<<K("and", 7)>>, 0, 0 .. 7>>,
   <<<<K("and", 31)>>, 0, 0 .. 31>>,
   <<<<K("and", 7), K("or", 8)>>, 0, 8 .. 15>>,
   <<<<K("and", 7), K("add", 16)>>, 0, 16 .. 23>>,
   <<<<K("and", 7), K("add", 32), K("sub", 8)>>, 0, 24 .. 31>>,
   <<<<K("and", 3), K("lsh", 2)>>, 0, {0, 4, 8, 12}>>,
   <<<<K("and", 7), K("lsh", 3)>>, 0, {8 * i : i \in 0 .. 7}>>,
   <<<<K("rsh", Bits(4) - 3)>>, 0, 0 .. 7>>,
   <<<<K("and", 3), K("mul", 5)>>, 0, {0, 5, 10, 15}>>,
   <<<<K("and", 7), K("xor", 5)>>, 0, 0 .. 7>>,
   <<<<Alu32K("and", 6, 7)>>, 0, 0 .. 7>>,
   <<<<JmpK("jgt", 6, 7, ToExit0)>>, 0, 0 .. 7>>,
   <<<<K("lsh", Bits(8) - 4), K("rsh", Bits(8) - 4)>>, 0, 0 .. 15>>,
   <<<<K("and", 3), K("add", 1), K("lsh", 2)>>, 0, {4, 8, 12, 16}>>,
   <<<<K("and", 7)>>, 4, 4 .. 11>>}

LocArms == {StoreProg("loc", l[1], 1, l[2], 1, "accept", l[3]) : l \in LocShapes}

-----------------------------------------------------------------------------
(* Stores to a packet, behind the program's own check of its length.       *)

\* run_pktw_prog: data + M > data_end skips the store.
PacketStore(off, width, tail) ==
  <<PacketBounds, AluX("mov", 5, 2), AluK("add", 5, PktM),
    JmpX("jgt", 5, 3, 1), St(width, 2, off, -1)>> \o tail

PktwProg(width, off, must) ==
  Arm("pktw", PacketStore(off, width, ExitWith(0)), width, must,
      IF must = "accept" THEN {off} ELSE {}, PktM)

\* run_generated_pktw_family.
PktwArms ==
  UNION {{PktwProg(w, 0, "accept"), PktwProg(w, PktM - w, "accept"),
          PktwProg(w, PktM - w + 1, "reject")} : w \in Widths}

\* run_pktw_probe_prog, run_probe_pktw_family: the packet is cut after the
\* store, so that the byte past its end is one the program could write.
ProbeProg(off, len, trim, where) ==
  Arm("probe", PacketStore(off, 1, IF trim = 0 THEN ExitWith(0)
                                   ELSE <<AluK("mov", 2, trim), ChangeTail, Exit>>),
      1, "accept", where, len)

ProbeArms ==
  {ProbeProg(PktM - 1, PktM, 0, {PktM - 1}), ProbeProg(PktM - 1, PktM + 8, 0, {PktM - 1}),
   ProbeProg(19, PktM, 20, {19}), ProbeProg(20, PktM, 20, {})}

RuntimeArms == RtArms \cup RtwArms \cup Rtw2Arms \cup LocArms \cup PktwArms \cup ProbeArms

-----------------------------------------------------------------------------
(* Programs that are only loaded: paths that merge, and loops, before a    *)
(* store at r6 + 56, in bounds iff r6 <= 7.                                *)

\* emit_prune_shaper.
Shaper == [n7  |-> <<K("and", 7)>>,
           t6  |-> <<K("and", 3), K("lsh", 1)>>,
           w63 |-> <<K("and", 63)>>,
           m39 |-> <<K("and", 7), K("or", 32)>>,
           o19 |-> <<K("and", 15), K("add", 4)>>,
           s56 |-> <<K("and", 7), K("lsh", 3)>>,
           a32 |-> <<Alu32K("and", 6, 63)>>]
ShaperIsSafe(s) == s \in {"n7", "t6"}     \* prune_shaper_is_safe

OrReject(safe) == IF safe THEN "accept" ELSE "reject"

\* Two paths that meet: register sel, if it is 0, takes the second.
Split(sel, fall, taken) ==
  <<JmpK("jeq", sel, 0, Len(fall) + 1)>> \o fall \o <<Ja(Len(taken))>> \o taken

\* run_prune_prog: r9 chooses the shaper of r6, which may pass through the stack.
PruneProg(fall, taken, stack) ==
  LET spill == IF stack THEN <<Stx(8, 10, 6, -16), AluK("mov", 6, 0)>> ELSE << >>
      fill  == IF stack THEN <<Ldx(8, 6, 10, -16)>> ELSE << >>
      one == Shaper[fall] \o spill
      two == Shaper[taken] \o spill
  IN  Arm("prune", <<Input(6, 0), Input(9, 1)>> \o Split(9, one, two)
                   \o fill \o StoreAt(1, StoreOff, 0),
          1, OrReject(ShaperIsSafe(fall) /\ ShaperIsSafe(taken)), {}, 0)

Unsafe == {"w63", "m39", "o19", "s56", "a32"}
PruneArms ==    \* run_generated_prune_family
  {PruneProg("n7", t, FALSE) : t \in Unsafe \cup {"n7"}}
  \cup {PruneProg(f, "n7", FALSE) : f \in Unsafe \cup {"t6"}}
  \cup {PruneProg("t6", "w63", FALSE), PruneProg("w63", "t6", FALSE),
        PruneProg("n7", "w63", TRUE), PruneProg("w63", "n7", TRUE)}

\* emit_loop_body, and whether it keeps r6 <= 7.
LoopBody == [nop |-> << >>,
             mask |-> <<K("and", 7)>>,
             incmask |-> <<K("add", 1), K("and", 7)>>,
             maskinc |-> <<K("and", 7), K("add", 1)>>,
             shr |-> <<K("rsh", 1)>>,
             xor3 |-> <<K("xor", 3)>>,
             cond |-> <<JmpK("jle", 6, 3, 1), K("mov", 0)>>,
             inc |-> <<K("add", 1)>>,
             shl |-> <<K("lsh", 1)>>,
             add8 |-> <<K("add", 8)>>]
Grows == {"maskinc", "inc", "shl", "add8"}

\* (wrong on purpose) the back edge goes to the entry mask, not to may_goto.
BackEdgeToMask(body) == <<MayGoto(Len(body) + 1)>> \o body \o <<Ja(-Len(body) - 3)>>

\* may_goto leaves the loop, the back edge returns to it.
MayGotoLoop(body) == <<MayGoto(Len(body) + 1)>> \o body \o <<Ja(-Len(body) - 2)>>

\* run_loop_prog, run_generated_loop_family: "in bounds iff the JOIN over all
\* iteration counts keeps umax(r6) <= 7" (diffharness.c:10253).
LoopProg(name, mask) ==
  Arm("loop", <<Input(6, 0), K("and", mask)>> \o MayGotoLoop(LoopBody[name])
              \o StoreAt(1, StoreOff, 1),
      1, OrReject(mask <= 7 /\ name \notin Grows), {}, 0)

LoopArms == {LoopProg(b, 7) : b \in DOMAIN LoopBody}
            \cup {LoopProg("mask", 63), LoopProg("nop", 63)}

LoadedArms == PruneArms \cup LoopArms

=============================================================================
