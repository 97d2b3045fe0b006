-------------------------------- MODULE BpfRef --------------------------------
(***************************************************************************)
(* harness/bpfref.h: the interpreter the harness compares the kernel with. *)
(* `Exec` is one turn of its loop, on the state of one run.                *)
(***************************************************************************)
EXTENDS Isa

CONSTANTS StackBase, MapBase, PktBase,     \* BPFREF_*_BASE
          StackSize, MapSize, PktSize,     \* BPFREF_STACK, _MAP_SIZE, _PKT_SIZE
          Budget                           \* instructions of a run

\* The regions are apart, and none is at the end of the address space.
ASSUME BpfRefAssumption ==
  /\ {StackBase, MapBase, PktBase, StackSize, MapSize, PktSize, Budget} \subseteq Nat
  /\ MapBase + MapSize < StackBase - StackSize /\ StackBase < PktBase
  /\ PktBase + PktSize < Mod(8)

-----------------------------------------------------------------------------
(* Memory.                                                                 *)

PktUnit(i) == (i * 7 + 13) % Mod(1)     \* BPFREF_PKT_BYTE

Fresh == [stack |-> [i \in 0 .. StackSize - 1 |-> 0],
          map   |-> [i \in 0 .. MapSize - 1 |-> 0],
          pkt   |-> [i \in 0 .. PktSize - 1 |-> PktUnit(i)]]

Region == {[name |-> "stack", from |-> StackBase - StackSize, to |-> StackBase],
           [name |-> "map", from |-> MapBase, to |-> MapBase + MapSize],
           [name |-> "pkt", from |-> PktBase, to |-> PktBase + PktSize]}

\* (wrong on purpose) only where an access begins is looked at.
InsideAtStart(addr, w) == {r \in Region : addr >= r.from /\ addr < r.to}

\* bpfref_resolve: the regions whose test an access of w units passes.  The end
\* of the access is a sum of machine words: it wraps.
Inside(addr, w) == {r \in Region : addr >= r.from /\ Low(addr + w, 8) <= r.to}

\* The pointer it returns is into the array only if the access is.
Within(r, addr, w) == addr + w <= r.to

Read(m, r, addr, w) ==
  SumFunction([i \in 0 .. w - 1 |-> m[r.name][addr - r.from + i] * Mod(i)])

Write(m, r, addr, w, v) ==
  [m EXCEPT ![r.name] = [j \in DOMAIN @ |->
     IF j \in addr - r.from .. addr - r.from + w - 1
     THEN (v \div Mod(j - (addr - r.from))) % Mod(1) ELSE @[j]]]

-----------------------------------------------------------------------------
(* The state of a run: pc, registers, memory, budget left and status.      *)

Begin(start, regs, mem) ==
  [pc |-> start, r |-> regs, mem |-> mem, left |-> Budget, status |-> "running"]

\* bpfref_run_at2: r1 is the context, r6, r7 and r9 the seeds, and r8, r2, r3
\* pointers for the families whose prologue leaves them there.
Seeded(ctx, s6, s7, s9, map, pkt) ==
  [i \in Reg |-> CASE i = 1 -> ctx [] i = 6 -> s6 [] i = 7 -> s7 [] i = 9 -> s9
                   [] i = 10 -> StackBase
                   [] i = 8 /\ map -> MapBase
                   [] i = 2 /\ pkt -> PktBase
                   [] i = 3 /\ pkt -> PktBase + PktSize
                   [] OTHER -> 0]

Stop(s, status) == [s EXCEPT !.status = status]
Step(s) == [s EXCEPT !.pc = @ + 1]

WidthOf(in) == IF in.cls \in {"alu", "jmp32"} THEN 4 ELSE 8
Operand(s, in) == IF in.x THEN s.r[in.src] ELSE Low(in.imm, 8)

\* (wrong on purpose) a 32-bit MOV leaves the upper half as it was.
ExecAluMerging(s, in) ==
  IF ~AluKnown(in) THEN Stop(s, "unsupported")
  ELSE Step([s EXCEPT !.r[in.dst] = AluValue(in, WidthOf(in), @, Operand(s, in))
               + (IF in.cls = "alu" /\ in.op = "mov" THEN @ - Low(@, 4) ELSE 0)])

ExecAlu(s, in) ==
  IF ~AluKnown(in) THEN Stop(s, "unsupported")
  ELSE Step([s EXCEPT !.r[in.dst] = AluValue(in, WidthOf(in), @, Operand(s, in))])

\* LD_IMM64 takes two slots; a program that ends between them stops there.
ExecLoadImm(p, s, in) ==
  IF in.op # "imm64" \/ in.src # 0 THEN Stop(s, "unsupported")
  ELSE IF s.pc + 1 \notin DOMAIN p THEN Stop(s, "badpc")
  ELSE [s EXCEPT !.r[in.dst] = Low(in.imm, 4) + Mod(4) * Low(p[s.pc + 1].imm, 4),
                 !.pc = @ + 2]

\* What an access to memory does: `then` of the region it falls in, the status
\* oob outside every region, and wild when the test passes a pointer that is
\* not into the array, after which C says nothing.
Access(s, addr, w, then(_)) ==
  IF Inside(addr, w) = {} THEN Stop(s, "oob")
  ELSE LET r == CHOOSE q \in Inside(addr, w) : TRUE
       IN  IF Within(r, addr, w) THEN then(r) ELSE Stop(s, "wild")

Address(s, reg, off) == Low(s.r[reg] + off, 8)

ExecLoad(s, in) ==
  LET addr == Address(s, in.src, in.off)
      loaded(r) ==
        LET raw == Read(s.mem, r, addr, in.w)
        IN  CASE in.op = "mem" -> Step([s EXCEPT !.r[in.dst] = raw])
              [] in.op = "memsx" /\ in.w < 8 ->
                   Step([s EXCEPT !.r[in.dst] = Low(Sgn(raw, in.w), 8)])
              [] OTHER -> Stop(s, "unsupported")
  IN  Access(s, addr, in.w, loaded)

ExecStore(s, in) ==
  LET addr == Address(s, in.dst, in.off)
      v == IF in.cls = "stx" THEN s.r[in.src] ELSE Low(in.imm, in.w)
  IN  IF in.op # "mem" THEN Stop(s, "unsupported")
      ELSE Access(s, addr, in.w,
                  LAMBDA r : Step([s EXCEPT !.mem = Write(@, r, addr, in.w, v)]))

AtomicOps == {"add", "or", "and", "xor", "xchg", "cmpxchg"}

\* CMPXCHG leaves the old value in r0 always, a fetch leaves it in src.
AtomicRegs(s, in, old) ==
  IF in.op = "cmpxchg" THEN [s.r EXCEPT ![0] = old]
  ELSE IF in.imm = 1 THEN [s.r EXCEPT ![in.src] = old] ELSE s.r

\* Read, modify and write in one step; imm says whether the old value is fetched.
ExecAtomic(s, in) ==
  LET addr == Address(s, in.dst, in.off)
      sv == Low(s.r[in.src], in.w)
      result(old) ==
        CASE in.op = "add" -> Low(old + sv, in.w)
          [] in.op = "or"  -> OrBits(in.w, old, sv)
          [] in.op = "and" -> AndBits(in.w, old, sv)
          [] in.op = "xor" -> XorBits(in.w, old, sv)
          [] in.op = "xchg" -> sv
          [] in.op = "cmpxchg" -> IF old = Low(s.r[0], in.w) THEN sv ELSE old
      modified(r) ==
        LET old == Read(s.mem, r, addr, in.w)
        IN  IF in.op \notin AtomicOps THEN Stop(s, "unsupported")
            ELSE Step([s EXCEPT !.mem = Write(@, r, addr, in.w, result(old)),
                                !.r = AtomicRegs(s, in, old)])
  IN  IF in.w \notin {4, 8} THEN Stop(s, "unsupported")
      ELSE Access(s, addr, in.w, modified)

\* JA takes its distance from off, in class JMP32 from imm.
ExecJump(s, in) ==
  LET k == WidthOf(in)
      taken == Taken(in.op, k, Low(s.r[in.dst], k), Low(Operand(s, in), k))
  IN  CASE in.op = "exit" -> Stop(s, IF in.cls = "jmp" THEN "ok" ELSE "unsupported")
        [] in.op = "ja" -> [s EXCEPT !.pc = @ + 1 + (IF in.cls = "jmp32" THEN in.imm ELSE in.off)]
        [] in.op \in JumpOps -> [s EXCEPT !.pc = @ + 1 + (IF taken THEN in.off ELSE 0)]
        [] OTHER -> Stop(s, "unsupported")

\* One turn of the loop of bpfref_run_at2.  retval is r0 where status is ok.
Exec(p, old) ==
  IF old.pc \notin DOMAIN p THEN Stop(old, "badpc")
  ELSE IF old.left = 0 THEN Stop(old, "loop")
  ELSE LET in == p[old.pc]
           s == [old EXCEPT !.left = @ - 1]
       IN  IF ~({in.dst, in.src} \subseteq Reg) THEN Stop(s, "unsupported")
           ELSE CASE in.cls \in {"alu", "alu64"} -> ExecAlu(s, in)
                  [] in.cls = "ld" -> ExecLoadImm(p, s, in)
                  [] in.cls = "ldx" -> ExecLoad(s, in)
                  [] in.cls = "stx" /\ in.op # "mem" -> ExecAtomic(s, in)
                  [] in.cls = "st" \/ (in.cls = "stx" /\ in.op = "mem") -> ExecStore(s, in)
                  [] in.cls \in {"jmp", "jmp32"} -> ExecJump(s, in)

Running(s) == s.status = "running"

=============================================================================
