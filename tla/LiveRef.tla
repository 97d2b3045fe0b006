------------------------------- MODULE LiveRef -------------------------------
(***************************************************************************)
(* harness/bpfref.h and harness/bpflive.h, held against each other.  The   *)
(* analysis of bpflive.h, as Bpflive has it, is made of a program.  Then   *)
(* the program is run twice, by the interpreter of bpfref.h, from          *)
(* registers that agree where the analysis calls them live.  What it may   *)
(* be relied on for is that the runs end alike.                            *)
(***************************************************************************)
EXTENDS BpfRef, Bpflive

CONSTANTS Texts,       \* the programs run; Programs is what bpflive.h sees of them
          Words(_),    \* bound: the words a register may begin with
          Varied,      \* bound: the registers that begin with any of them
          Others       \* bound: the words the dead ones of the second run hold

Wide(in) == in.cls = "ld" /\ in.op = "imm64"

\* struct bpf_insn, of any of the eight classes.
AnyInsn == [cls : {"alu", "alu64", "ld", "ldx", "st", "stx", "jmp", "jmp32"}, op : STRING,
            x : BOOLEAN, w : {1, 2, 4, 8}, dst : AnyReg, src : AnyReg, off : Int, imm : Int]

\* The second slot of an LD_IMM64 has the code 0, as BPF_LD_IMM64 emits it and the
\* kernel demands.  A load-acquire, which bpfref.h does not know, it takes for an
\* atomic store until it has looked up the address, in a register that is dead.
ASSUME LiveRefAssumption ==
  /\ \A t \in Texts :
       /\ Cardinality(DOMAIN t) \in Nat
       /\ t \in [0 .. Cardinality(DOMAIN t) - 1 -> AnyInsn]
       /\ \A a \in DOMAIN t : Wide(t[a]) /\ a + 1 \in DOMAIN t =>
            t[a + 1].cls = "ld" /\ t[a + 1].op = "slot"
       /\ \A a \in DOMAIN t : t[a].op # "load_acq"
       /\ Words(t) \subseteq Word
  /\ Varied \subseteq Reg \ {10}
  /\ Others \subseteq Word

\* A constant shift amount that is out of range "is rejected at verify time and
\* never reaches here" (bpfref.h:170-171).
ASSUME ShiftAssumption ==
  \A t \in Texts : \A a \in DOMAIN t :
    t[a].cls \in {"alu", "alu64"} /\ t[a].op \in {"lsh", "rsh", "arsh"} /\ ~t[a].x =>
      t[a].imm \in 0 .. Bits(WidthOf(t[a])) - 1

-----------------------------------------------------------------------------
(* The same instruction as harness/bpflive.h sees it.                      *)

CallKind == [r \in AnyReg |-> CASE r = 0 -> "call" [] r = 1 -> "subprog" [] r = 2 -> "kfunc"
                             [] OTHER -> "other"]

AluKind(in) ==
  CASE in.op = "end" -> "end"
    [] in.op = "mov" -> IF in.x THEN "mov_x" ELSE "mov_k"
    [] OTHER -> IF in.x THEN "alu_x" ELSE "alu_k"

StoreKind(in) ==
  CASE in.op = "mem" -> "stx"
    [] in.op \in {"load_acq", "store_rel", "cmpxchg"} -> in.op
    [] OTHER -> IF in.imm = 1 THEN "fetch" ELSE "atomic"

JumpKind(in) ==
  CASE in.op = "exit" -> "exit"
    [] in.op = "ja" -> IF in.x THEN "gotox" ELSE "ja"
    [] in.op = "may_goto" -> "jcond"
    [] in.op = "call" -> CallKind[in.src]
    [] OTHER -> IF in.x THEN "cond_x" ELSE "cond_k"

Kind(in) ==
  CASE in.cls \in {"alu", "alu64"} -> AluKind(in)
    [] in.cls = "ld" -> IF Wide(in) THEN "imm64" ELSE "other"
    [] in.cls \in {"ldx", "st"} -> in.cls
    [] in.cls = "stx" -> StoreKind(in)
    [] in.cls \in {"jmp", "jmp32"} -> JumpKind(in)

Distance(in) == IF in.op = "ja" /\ in.cls = "jmp32" THEN in.imm ELSE in.off

Seen(in) == [op |-> Kind(in), dst |-> in.dst, src |-> in.src, off |-> Distance(in),
             imm |-> in.imm]

AsLive(t) == [a \in DOMAIN t |-> Seen(t[a])]

-----------------------------------------------------------------------------
(* Two runs of one program.                                                *)

VARIABLES text,    \* the program; prog is what the analysis sees of it
          one, two \* the runs

runs == <<text, one, two>>

Supported == pc = "done" /\ status = "ok"

\* Before they begin.
Zero == Seeded(0, 0, 0, 0, FALSE, FALSE)
NotBegun == Stop(Begin(0, Zero, Fresh), "waiting")

RunInit ==
  /\ text \in Texts /\ prog = AsLive(text)
  /\ Init
  /\ one = NotBegun /\ two = NotBegun

\* The analysis is made first.
Analysing == Analyse /\ UNCHANGED runs

\* Registers that begin with `seeds`, and the dead ones among them with `other`.
Seeds(seeds, dead, other) ==
  [r \in Reg |-> IF r \in dead THEN other ELSE IF r \in Varied THEN seeds[r] ELSE Zero[r]]

\* Whatever the registers hold: the second run has other words where bpflive
\* calls a register dead.
Begins ==
  /\ pc = "done" /\ one = NotBegun
  /\ \E seeds \in [Varied -> Words(text)], other \in Others :
       /\ one' = Begin(0, Seeds(seeds, {}, other), Fresh)
       /\ two' = Begin(0, Seeds(seeds, IF n = 0 THEN {} ELSE Varied \ live[0], other), Fresh)
  /\ UNCHANGED <<vars, text>>

\* Both runs turn once.
Turns ==
  /\ Running(one)
  /\ one' = Exec(text, one)
  /\ two' = Exec(text, two)
  /\ UNCHANGED <<vars, text>>

RunNext == Analysing \/ Begins \/ Turns

RunSpec == RunInit /\ [][RunNext]_<<vars, runs>>

-----------------------------------------------------------------------------
(* What an arithmetic instruction must compute, said of its result bit by  *)
(* bit or as a property of integers, from what its registers held.         *)

\* The bit that stands at place i of a value of k units, the top one beyond.
BitAt(v, k, j) == IF j < Bits(k) THEN Bit(v, j) ELSE Bit(v, Bits(k) - 1)

\* q is a / b rounded toward zero and m what is left.
Divides(a, b, q, m) == a = q * b + m /\ Abs(m) < Abs(b) /\ (m # 0 => (m < 0) = (a < 0))

\* res is right for the instruction `in` of k units, on dw and the operand v.
RightValue(in, k, dw, v, res) ==
  LET a == Low(dw, k)
      b == Low(v, k)
      s == IF in.x THEN b % Bits(k) ELSE b
      signed == in.off = 1
  IN CASE in.op \in {"add", "sub", "mul"} ->
            \E q \in -Mod(k) .. Mod(k) :
              (CASE in.op = "add" -> a + b [] in.op = "sub" -> a - b [] OTHER -> a * b)
                = res + q * Mod(k)
       [] in.op \in {"or", "and", "xor"} ->
            \A j \in 0 .. Bits(k) - 1 :
              Bit(res, j) = (CASE in.op = "or" -> Max({Bit(dw, j), Bit(v, j)})
                               [] in.op = "and" -> Bit(dw, j) * Bit(v, j)
                               [] OTHER -> (Bit(dw, j) + Bit(v, j)) % 2)
       [] in.op = "lsh" ->
            \A j \in 0 .. Bits(k) - 1 :
              Bit(res, j) = (IF j < s THEN 0 ELSE Bit(dw, j - s))
       [] in.op = "rsh" ->
            \A j \in 0 .. Bits(k) - 1 :
              Bit(res, j) = (IF j + s < Bits(k) THEN Bit(dw, j + s) ELSE 0)
       [] in.op = "arsh" ->
            \A j \in 0 .. Bits(k) - 1 : Bit(res, j) = BitAt(dw, k, j + s)
       [] in.op = "neg" -> (a + res) % Mod(k) = 0
       [] in.op = "mov" ->
            \A j \in 0 .. Bits(k) - 1 :
              Bit(res, j) = BitAt(v, IF in.off = 0 THEN k ELSE in.off, j)
       [] in.op = "div" ->
            IF b = 0 THEN res = 0
            ELSE IF ~signed THEN \E m \in 0 .. b - 1 : a = res * b + m
            ELSE IF Sgn(b, k) = -1 THEN (a + res) % Mod(k) = 0
            ELSE \E m \in -Mod(k) .. Mod(k) :
                   Divides(Sgn(a, k), Sgn(b, k), Sgn(res, k), m)
       [] in.op = "mod" ->
            IF b = 0 THEN res = a
            ELSE IF ~signed THEN res < b /\ (a - res) % b = 0
            ELSE \E q \in -Mod(k) .. Mod(k) :
                   Divides(Sgn(a, k), Sgn(b, k), q, Sgn(res, k))

\* The next instruction is an arithmetic one, within the budget.
Computes(s) ==
  Running(s) /\ s.left > 0 /\ s.pc \in Addr /\ text[s.pc].cls \in {"alu", "alu64"}

\* What it leaves in its register is right, and no wider than the instruction.
Computed ==
  Computes(one) /\ one'.status # "unsupported" =>
    LET in  == text[one.pc]
        k   == WidthOf(in)
        res == one'.r[in.dst]
    IN  /\ res \in 0 .. Mod(k) - 1
        /\ RightValue(in, k, one.r[in.dst], Operand(one, in), res)

\* Every arithmetic instruction of the interpreter computes what the
\* instruction set says: the traps of a naive implementation (bpfref.h:15-18)
\* are about its sign, its width, its shifts and its divisions.
AluIsExact == [][Computed]_<<vars, runs>>

\* A register that bpflive.h calls dead is never read by bpfref.h before it is
\* written: runs that agree on the live ones take the same path, agree at each
\* instruction on those live there and on memory, and end alike.
DeadIsUnread ==
  Supported =>
    /\ one.pc = two.pc /\ one.status = two.status /\ one.mem = two.mem
    /\ Running(one) /\ one.pc \in Addr => \A r \in live[one.pc] : one.r[r] = two.r[r]
    /\ one.status = "ok" => one.r[0] = two.r[0]

\* The next instruction is an access to memory, within the budget.
Accesses(s) ==
  Running(s) /\ s.left > 0 /\ s.pc \in Addr /\ text[s.pc].cls \in {"ldx", "st", "stx"}
AccessAt(s) == LET in == text[s.pc] IN Address(s, IF in.cls = "ldx" THEN in.src ELSE in.dst, in.off)

\* A region has the units from .. to - 1.
Covers(r, addr, w) == addr .. addr + w - 1 \subseteq r.from .. r.to - 1

\* An access goes through exactly when all of its units are in one region
\* (bpfref.h:88-90), and then no unit outside of it changes.  The one exception
\* is an access whose end wraps around the address space, which resolves to a
\* pointer outside the array.
Checked ==
  Accesses(one) /\ one'.status # "unsupported" =>
    LET w == text[one.pc].w
        addr == AccessAt(one)
        inside == {r \in Region : Covers(r, addr, w)}
    IN  /\ one'.status = "running" <=> inside # {}
        /\ one'.status = "wild" => addr + w >= Mod(8)
        /\ one'.status \in {"oob", "wild"} => one'.mem = one.mem
        /\ \A r \in Region : \A j \in DOMAIN one.mem[r.name] :
             one'.mem[r.name][j] # one.mem[r.name][j] =>
               r.from + j \in addr .. addr + w - 1

\* No step of the run is an access that is not checked like that.
AccessIsChecked == [][Checked]_<<vars, runs>>

=============================================================================
