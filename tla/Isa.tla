--------------------------------- MODULE Isa ---------------------------------
(***************************************************************************)
(* The instructions harness/bpfref.h interprets, and what the arithmetic   *)
(* and the jumps of them compute.  A word is 8 units and a half word 4,    *)
(* where the code has 8 bytes and 4 bytes: Unit is the number of bits of a *)
(* unit, 8 in the code.  An immediate is an integer of half a word with    *)
(* its sign, so that `Low` both truncates it and extends its sign.         *)
(***************************************************************************)
EXTENDS Integers, Sequences, FiniteSetsExt

CONSTANT Unit    \* bits of the smallest unit of memory
ASSUME UnitAssumption == Unit \in Nat \ {0}

\* Shifts and residues are by powers of two, which the provers know only to be
\* integers; TLC evaluates this.
ASSUME PowersDouble ==
  2 ^ 0 = 1 /\ \A b \in 0 .. 8 * Unit - 1 : 2 ^ (b + 1) = 2 * 2 ^ b

Reg == 0 .. 10
Mod(k)    == 2 ^ (Unit * k)
Bits(k)   == Unit * k
Low(v, k) == v % Mod(k)
Sgn(v, k) == IF Low(v, k) >= Mod(k) \div 2 THEN Low(v, k) - Mod(k) ELSE Low(v, k)

Word == 0 .. Mod(8) - 1

-----------------------------------------------------------------------------
(* Instructions: struct bpf_insn, its code split into class, operation,    *)
(* source bit (x) and width (w).                                           *)

Insn(cls, op, x, w, dst, src, off, imm) ==
  [cls |-> cls, op |-> op, x |-> x, w |-> w, dst |-> dst, src |-> src,
   off |-> off, imm |-> imm]

AluK(op, d, k)     == Insn("alu64", op, FALSE, 8, d, 0, 0, k)
AluX(op, d, s)     == Insn("alu64", op, TRUE, 8, d, s, 0, 0)
Alu32K(op, d, k)   == Insn("alu", op, FALSE, 4, d, 0, 0, k)
Alu32X(op, d, s)   == Insn("alu", op, TRUE, 4, d, s, 0, 0)
Ldx(w, d, s, off)  == Insn("ldx", "mem", FALSE, w, d, s, off, 0)
Stx(w, d, s, off)  == Insn("stx", "mem", FALSE, w, d, s, off, 0)
St(w, d, off, k)   == Insn("st", "mem", FALSE, w, d, 0, off, k)
Atomic(op, w, d, s, off, fetch) == Insn("stx", op, FALSE, w, d, s, off, fetch)
JmpK(op, d, k, off)   == Insn("jmp", op, FALSE, 8, d, 0, off, k)
JmpX(op, d, s, off)   == Insn("jmp", op, TRUE, 8, d, s, off, 0)
Jmp32K(op, d, k, off) == Insn("jmp32", op, FALSE, 4, d, 0, off, k)
Ja(off)  == Insn("jmp", "ja", FALSE, 8, 0, 0, off, 0)
Exit     == Insn("jmp", "exit", FALSE, 8, 0, 0, 0, 0)
ImmLow(d, k) == Insn("ld", "imm64", FALSE, 8, d, 0, 0, k)
ImmHigh(k)   == Insn("ld", "slot", FALSE, 8, 0, 0, 0, k)

\* A program is a function of the addresses 0 .. n-1.
Code(seq) == [a \in 0 .. Len(seq) - 1 |-> seq[a + 1]]

-----------------------------------------------------------------------------
(* Arithmetic of width k: class ALU64 for 8, class ALU for 4, which leaves *)
(* the upper half zero.                                                    *)

Bit(v, i) == (v \div 2 ^ i) % 2

\* The word whose bit i is 1 for the bits i that `on` holds of.
OfBits(k, on(_)) == SumFunction([i \in 0 .. Bits(k) - 1 |-> IF on(i) THEN 2 ^ i ELSE 0])

AndBits(k, a, b) == OfBits(k, LAMBDA i : Bit(a, i) = 1 /\ Bit(b, i) = 1)
OrBits(k, a, b)  == OfBits(k, LAMBDA i : Bit(a, i) = 1 \/ Bit(b, i) = 1)
XorBits(k, a, b) == OfBits(k, LAMBDA i : Bit(a, i) # Bit(b, i))

\* The product by halves, so that no intermediate value is wider than a word.
Times(k, a, b) ==
  LET h == Mod(k \div 2)
  IN  Low((a % h) * (b % h)
          + h * (((a % h) * (b \div h) + (a \div h) * (b % h)) % h), k)

Abs(v) == IF v < 0 THEN -v ELSE v

\* C's signed division, which truncates, and its remainder.
Truncated(a, b) == IF (a < 0) = (b < 0) THEN Abs(a) \div Abs(b) ELSE -(Abs(a) \div Abs(b))
Remainder(a, b) == a - b * Truncated(a, b)

\* The amount of a shift is reduced only when it comes from a register.
Amount(in, k, v) == IF in.x THEN v % Bits(k) ELSE v

\* (wrong on purpose) ARSH of a half word takes the sign of the whole one.
ArshOfWord(k, d, s) == Low(Sgn(d, 8) \div 2 ^ s, k)

\* ARSH takes its sign from the top bit of the operand of width k.
Arsh(k, d, s) == Low(Sgn(d, k) \div 2 ^ s, k)

\* DIV and MOD: nothing traps, off = 1 selects the signed forms.
Quotient(k, a, b, signed) ==
  IF b = 0 THEN 0 ELSE IF ~signed THEN a \div b
  ELSE Low(Truncated(Sgn(a, k), Sgn(b, k)), k)
Modulo(k, a, b, signed) ==
  IF b = 0 THEN a ELSE IF ~signed THEN a % b
  ELSE Low(Remainder(Sgn(a, k), Sgn(b, k)), k)

AluOps == {"add", "sub", "mul", "or", "and", "xor", "lsh", "rsh", "arsh", "neg",
           "mov", "div", "mod"}

\* An operation the interpreter has a case for; off selects MOVSX, in units of
\* the source, and the signed division.
AluKnown(in) ==
  /\ in.op \in AluOps
  /\ in.op = "mov" => in.off = 0 \/ (in.x /\ in.off \in {1, 2, 4})
  /\ in.op \in {"div", "mod"} => in.off \in {0, 1}

\* r[dst] after an ALU instruction of width k on d and the operand v.
AluValue(in, k, dw, v) ==
  LET d == Low(dw, k)
      b == Low(v, k)
      s == Amount(in, k, b)
  IN CASE in.op = "add" -> Low(d + b, k)
       [] in.op = "sub" -> Low(d - b, k)
       [] in.op = "mul" -> Times(k, d, b)
       [] in.op = "or"  -> OrBits(k, d, b)
       [] in.op = "and" -> AndBits(k, d, b)
       [] in.op = "xor" -> XorBits(k, d, b)
       [] in.op = "lsh" -> Times(k, d, Low(2 ^ s, k))
       [] in.op = "rsh" -> d \div 2 ^ s
       [] in.op = "arsh" -> Arsh(k, dw, s)
       [] in.op = "neg" -> Low(-d, k)
       [] in.op = "mov" -> IF in.off = 0 THEN b ELSE Low(Sgn(v, in.off), k)
       [] in.op = "div" -> Quotient(k, d, b, in.off = 1)
       [] in.op = "mod" -> Modulo(k, d, b, in.off = 1)

-----------------------------------------------------------------------------
(* Conditional jumps of width k: 8 for JMP and 4 for JMP32, which never    *)
(* looks at the upper half.                                                *)

JumpOps == {"jeq", "jne", "jgt", "jge", "jlt", "jle", "jset", "jsgt", "jsge",
            "jslt", "jsle"}

Taken(op, k, a, b) ==
  CASE op = "jeq" -> a = b
    [] op = "jne" -> a # b
    [] op = "jgt" -> a > b
    [] op = "jge" -> a >= b
    [] op = "jlt" -> a < b
    [] op = "jle" -> a <= b
    [] op = "jset" -> AndBits(k, a, b) # 0
    [] op = "jsgt" -> Sgn(a, k) > Sgn(b, k)
    [] op = "jsge" -> Sgn(a, k) >= Sgn(b, k)
    [] op = "jslt" -> Sgn(a, k) < Sgn(b, k)
    [] op = "jsle" -> Sgn(a, k) <= Sgn(b, k)

=============================================================================
