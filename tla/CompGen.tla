------------------------------- MODULE CompGen -------------------------------
(***************************************************************************)
(* The composition generator (--gen-comp, run_generated_comp_family of     *)
(* harness/diffharness.c): a random walk that puts a program together from *)
(* pieces, and chooses the next one by what tables shared by all programs  *)
(* say has not been seen yet.  Beside the program there is a run of it: as *)
(* a piece is emitted, the run goes through it, from any registers.  So    *)
(* what the generator writes down of the program, a bound that a branch    *)
(* has proved, or where its store goes, can be held against what the       *)
(* program does.                                                           *)
(***************************************************************************)
EXTENDS Integers, FiniteSets

CONSTANTS MaxSteps,  \* COMP_MAXSTEPS, 8 in the code
          MaxProg,   \* COMP_MAXPROG
          Top,       \* the number of words of a register, 2^64 in the code
          Pool,      \* bound: the pieces there are
          Bounds,    \* bound: the upper bounds a branch proves, of 1 .. 15
          Values,    \* bound: the words that arithmetic or a load leaves in a register
          Seeds      \* bound: the words in map_in, for r6, r7, r9

Scalars == {6, 7, 9}     \* scalar_regs: r8 is the map value, then the slice
Word    == 0 .. Top - 1

ASSUME CompGenAssumption ==
  /\ MaxSteps \in 3 .. 8 /\ MaxProg \in Nat
  /\ Top \in Nat /\ Top > 128 /\ Bounds \subseteq 1 .. 15
  /\ Values \subseteq Word /\ Seeds \subseteq [Scalars -> Word]

\* enum comp_piece.
Pieces == {"shape", "link", "narrow", "spill", "loop", "dynptr", "alu32", "iter", "pkt",
           "call", "dynskb", "ringbuf", "skref", "relink"}

ASSUME PoolAssumption == Pool \subseteq Pieces /\ {"shape", "narrow"} \cap Pool # {}

Value     == 64            \* COMP_VALUE
LinkDelta == 4             \* COMP_LINK_DELTA

\* insns[160]; no piece is begun at 130 or beyond.
InsnRoom  == 160
WalkStops == 130

\* (wrong on purpose) there is no room but for the pieces' own jumps.
ParkRoomBare == 2 * MaxSteps

ParkRoom  == 2 * MaxSteps + 4     \* jexit[2 * COMP_MAXSTEPS + 4]

VARIABLES pc, prog,         \* where the generator is, the programs begun
          pairs, triples,   \* g_seen_pair, g_seen_triple
          step, steps, prev, prev2,    \* the walk: pieces emitted and to emit, the last two
          n, parked, stack, \* instructions, jumps to the exit, stack_next
          slice, base,      \* mem_reg >= 0, store_base_off
          bound, on,        \* narrowed_max, narrow_reg
          by,               \* history: how that bound was proved
          used,             \* used_iter, call_site >= 0, used_dynskb, _ringbuf, _skref
          r, alive,         \* a run of the program so far: r6, r7, r9; it is not at the exit
          store             \* the store: its offset as printed, whether it is meant to be
                            \* safe, and the unit the run writes

walk == <<prog, step, steps, prev, prev2, pairs, triples>>
room == <<n, parked, stack>>
said == <<slice, base, bound, on, by, used>>
vars == <<pc, walk, room, said, r, alive, store>>

NoStore == [off |-> 0, safe |-> FALSE, unit |-> 0]
NoRegs == [x \in Scalars |-> 0]

Init ==
  /\ pc = "begin" /\ prog = 0
  /\ pairs = {} /\ triples = {}
  /\ step = 0 /\ steps = 0 /\ prev = "none" /\ prev2 = "none"
  /\ n = 0 /\ parked = 0 /\ stack = 0
  /\ slice = FALSE /\ base = 0 /\ bound = -1 /\ on = -1 /\ by = "none" /\ used = {}
  /\ r = NoRegs /\ alive = TRUE /\ store = NoStore

\* The next program of the corpus.  In its prologue the context is spilled, r6,
\* r7 and r9 are loaded from map_in, r9 in its whole width, and r8 is the value
\* of map_out.
Begin ==
  /\ pc \in {"begin", "done"} /\ prog < MaxProg
  /\ pc' = "walk" /\ prog' = prog + 1
  /\ step' = 0 /\ steps' \in 3 .. MaxSteps /\ prev' = "none" /\ prev2' = "none"
  /\ n' = 19 /\ parked' = 2 /\ stack' = -32
  /\ slice' = FALSE /\ base' = 0 /\ bound' = -1 /\ on' = -1 /\ by' = "none" /\ used' = {}
  /\ r' \in Seeds
  /\ alive' = TRUE /\ store' = NoStore
  /\ UNCHANGED <<pairs, triples>>

-----------------------------------------------------------------------------
(* Which piece is next.                                                    *)

\* comp_can.  There are always three scalars.
Can(p) ==
  CASE p = "spill"   -> stack > -200
    [] p = "dynptr"  -> ~slice /\ stack > -160
    [] p = "dynskb"  -> p \notin used /\ stack > -300
    [] p = "ringbuf" -> p \notin used /\ stack > -380
    [] p = "skref"   -> p \notin used /\ stack > -420
    [] p \in {"iter", "call"} -> p \notin used
    [] OTHER -> TRUE

Available == {p \in Pool : Can(p)}

\* A piece that completes an unseen triple, or else an unseen pair, or any.
Best ==
  LET new3 == {p \in Available : prev2 # "none" /\ <<prev2, prev, p>> \notin triples}
      new2 == {p \in Available : prev # "none" /\ <<prev, p>> \notin pairs}
  IN  IF new3 # {} THEN new3 ELSE IF new2 # {} THEN new2 ELSE Available


GoesOn == step < steps /\ n < WalkStops /\ Available # {}

Choose ==
  /\ pc = "walk" /\ GoesOn
  /\ \E p \in Best :
       /\ prev' = p /\ prev2' = prev
       /\ pairs' = IF prev = "none" THEN pairs ELSE pairs \cup {<<prev, p>>}
       /\ triples' = IF prev2 = "none" THEN triples ELSE triples \cup {<<prev2, prev, p>>}
  /\ pc' = "emit"
  /\ UNCHANGED <<prog, step, steps, room, said, r, alive, store>>

-----------------------------------------------------------------------------
(* comp_emit: the instructions of a piece, their jumps to the exit and     *)
(* their stack, what the context says of them, and the run through them.   *)

Emits(p, size, jumps, bytes) ==
  /\ pc = "emit" /\ prev = p
  /\ pc' = "walk" /\ step' = step + 1
  /\ n' = n + size /\ parked' = parked + jumps /\ stack' = stack - bytes
  /\ UNCHANGED <<prog, steps, prev, prev2, pairs, triples, store>>

Proves(x, b, how) == bound' = b /\ on' = x /\ by' = how
Forgets == bound' = -1 /\ by' = "none" /\ UNCHANGED on
Holds   == UNCHANGED <<bound, on, by>>
Once(p) == used' = used \cup {p} /\ UNCHANGED <<slice, base>>
Plain   == UNCHANGED <<slice, base, used>>

\* The run goes on with these registers, or leaves for the exit.
Goes(regs) == r' = (IF alive THEN regs ELSE r) /\ UNCHANGED alive
Leaves     == r' = NoRegs /\ alive' = FALSE
GoesIf(stays, regs) == IF alive /\ stays THEN Goes(regs) ELSE Leaves

\* What arithmetic, or a load, leaves in the register.
GetsAny(x) == \E v \in Values : Goes([r EXCEPT ![x] = v])

\* (wrong on purpose) a bound is kept while its register is shaped.
ShapeKeepingBound ==
  /\ Emits("shape", 1, 0, 0)
  /\ \E x \in Scalars : GetsAny(x)
  /\ Holds /\ Plain

\* and, or, xor, lsh, rsh or add of a constant, and the same in 32 bits.
Shape ==
  /\ Emits("shape", 1, 0, 0)
  /\ \E x \in Scalars : GetsAny(x)
  /\ Forgets /\ Plain

Alu32 ==
  /\ Emits("alu32", 1, 0, 0)
  /\ \E x \in Scalars : GetsAny(x)
  /\ Forgets /\ Plain

Link ==
  /\ \E a, b \in Scalars, d \in {0, LinkDelta} :
       /\ a # b /\ Emits("link", IF d = 0 THEN 1 ELSE 2, 0, 0)
       /\ Goes([r EXCEPT ![b] = (r[a] + d) % Top])
  /\ Forgets /\ Plain

Narrow ==
  /\ Emits("narrow", 1, 1, 0)
  /\ \E x \in Scalars, b \in Bounds : GoesIf(r[x] <= b, r) /\ Proves(x, b, "branch")
  /\ Plain

\* From the stack a register comes back as it went.
Spill == Emits("spill", 2, 0, 8) /\ Goes(r) /\ Holds /\ Plain

\* may_goto may leave before the first turn.
Loop ==
  /\ Emits("loop", 3, 0, 0)
  /\ \E x \in Scalars : Goes(r) \/ Goes([r EXCEPT ![x] = @ % 8])
  /\ Forgets /\ Plain

\* The body of an iterator's loop is about r6.
Iter == Emits("iter", 14, 0, 0) /\ Goes([r EXCEPT ![6] = @ % 8]) /\ Forgets /\ Once("iter")

\* A slice of 8 units at 0, 8 or 16 of the value, or NULL.  r8 holds it from
\* here on, and nothing that is proved of a scalar is lost.
Dynptr ==
  /\ Emits("dynptr", 15, 1, 80)
  /\ base' \in {0, 8, 16}
  /\ Goes(r) \/ Leaves
  /\ slice' = TRUE /\ Holds /\ UNCHANGED used

\* Both branches go through the release: the run never leaves here.
SkRef ==
  /\ Emits("skref", 14, 0, 16)
  /\ \E x \in Scalars : Goes(r) \/ GetsAny(x)
  /\ Forgets /\ Once("skref")

Ringbuf ==
  /\ Emits("ringbuf", 20, 0, 48)
  /\ \E x \in Scalars : Goes(r) \/ GetsAny(x)
  /\ Forgets /\ Once("ringbuf")

DynSkb ==
  /\ Emits("dynskb", 14, 1, 48)
  /\ \E x \in Scalars : Leaves \/ GetsAny(x)
  /\ Forgets /\ Once("dynskb")

Pkt ==
  /\ Emits("pkt", 7, 1, 0)
  /\ \E x \in Scalars : Leaves \/ GetsAny(x)
  /\ Forgets /\ Plain

\* The callee returns its argument, or 0 where that is above 15.
Call ==
  /\ Emits("call", 3, 0, 0)
  /\ \E x \in Scalars :
       Goes([r EXCEPT ![x] = IF @ <= 15 THEN @ ELSE 0]) /\ Proves(x, 15, "callee")
  /\ Once("call")

\* off = b + 4 is bounded, dst gets b, off is bounded again.  A run that is
\* still here has off <= k2 + 4, which is tighter than k1 + 4.
Relink ==
  /\ Emits("relink", 5, 2, 0)
  /\ \E b, off, dst \in Scalars : \E k2 \in Bounds \ {15} :
       LET sum == (r[b] + LinkDelta) % Top
       IN  /\ b # off /\ dst \notin {b, off}
           /\ GoesIf(sum <= k2 + LinkDelta, [r EXCEPT ![off] = sum, ![dst] = r[b]])
           /\ Proves(b, k2, "link")
  /\ Plain

-----------------------------------------------------------------------------
(* The epilogue: one store.                                                *)

\* (wrong on purpose) the last unit of the value is at Value.
StoreOffOneMore(b) == Value - b

StoreOff(b) == Value - 1 - b

Ends(size, jumps) ==
  /\ pc = "walk" /\ ~GoesOn
  /\ pc' = "done"
  /\ n' = n + size + 5 + (IF "call" \in used THEN 5 ELSE 0)
  /\ parked' = parked + jumps
  /\ UNCHANGED <<stack, walk, slice, base, used>>

\* Through the slice, at an offset inside it.
StoreThroughSlice ==
  /\ slice /\ Ends(0, 0)
  /\ \E off \in 0 .. 7 : store' = [off |-> base + off, safe |-> TRUE, unit |-> base + off]
  /\ UNCHANGED <<bound, on, by, r, alive>>

\* Through r8 + x: meant to be safe if a bound is proved of x.
StoreVia(x, b, safe) ==
  LET off == IF safe THEN StoreOff(b) ELSE 0
  IN  store' = [off |-> off, safe |-> safe, unit |-> (r[x] + off) % Top]

StoreThroughValue ==
  /\ ~slice /\ Ends(1, 0)
  /\ \E x \in Scalars : StoreVia(x, bound, bound >= 0 /\ on = x)
  /\ UNCHANGED <<bound, on, by, r, alive>>

\* Where nothing is proved, mostly a bound is proved first.
NarrowAndStore ==
  /\ ~slice /\ bound < 0 /\ Ends(2, 1)
  /\ \E x \in Scalars, b \in Bounds :
       Proves(x, b, "branch") /\ GoesIf(r[x] <= b, r) /\ StoreVia(x, b, TRUE)

Piece == Shape \/ Alu32 \/ Link \/ Narrow \/ Spill \/ Loop \/ Iter \/ Dynptr \/ SkRef
         \/ Ringbuf \/ DynSkb \/ Pkt \/ Call \/ Relink

Next == Begin \/ Choose \/ Piece \/ StoreThroughSlice \/ StoreThroughValue
        \/ NarrowAndStore

Spec == Init /\ [][Next]_vars

-----------------------------------------------------------------------------
TypeOK ==
  /\ pc \in {"begin", "walk", "emit", "done"} /\ prog \in 0 .. MaxProg
  /\ step \in 0 .. MaxSteps /\ steps \in 0 .. MaxSteps
  /\ prev \in Pieces \cup {"none"} /\ prev2 \in Pieces \cup {"none"}
  /\ pairs \subseteq Pieces \X Pieces /\ triples \subseteq Pieces \X Pieces \X Pieces
  /\ n \in Nat /\ parked \in Nat /\ stack \in Int
  /\ slice \in BOOLEAN /\ base \in {0, 8, 16} /\ bound \in {-1} \cup 1 .. 15
  /\ on \in {-1} \cup Scalars /\ by \in {"none", "branch", "callee", "link"}
  /\ used \subseteq Pieces
  /\ r \in [Scalars -> Word] /\ alive \in BOOLEAN
  /\ store.off \in Nat /\ store.safe \in BOOLEAN /\ store.unit \in Nat

\* The arrays have "the recipe's maximum length times the worst piece" of room
\* (diffharness.c:7601-7606), and nothing checks an index: whatever pieces are
\* drawn, the program, the jumps to be patched and the stack stay inside.
ArraysFit == n <= InsnRoom /\ parked <= ParkRoom /\ stack >= -512

\* The guards that cut a recipe short, no room for instructions and no piece to
\* offer, never bind: every recipe has the length that was drawn for it.
RecipeIsWhole == pc = "done" => step = steps

\* What the context says is proved holds of every run that gets here: a piece
\* that changes a register leaves no bound behind.  The one exception is the
\* bound that goes through a link: base + 4 is small also where it has wrapped,
\* so of a base that was loaded in its whole width nothing is proved by it,
\* although a comment says so (diffharness.c:7340).
BoundIsProven ==
  alive /\ bound >= 0 =>
    \/ r[on] <= bound
    \/ by = "link" /\ r[on] >= Top - LinkDelta

\* A store that is meant to be safe lands in the value, in every run: on the slice
\* at exactly the place that is read back, else between the offset the generator
\* prints and the proved bound beyond it.  The one exception is again a base that
\* wrapped where a link added to it: its store lands up to 4 units before the
\* printed offset, still in the value.
StoreIsInside ==
  pc = "done" /\ alive /\ store.safe =>
    /\ store.unit \in 0 .. Value - 1
    /\ slice => store.unit = store.off
    /\ ~slice =>
         \/ store.unit \in store.off .. store.off + bound
         \/ /\ by = "link" /\ r[on] >= Top - LinkDelta
            /\ store.unit \in store.off - LinkDelta .. store.off - 1

=============================================================================
