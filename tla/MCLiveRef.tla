------------------------------ MODULE MCLiveRef ------------------------------
(***************************************************************************)
(* A small instance of LiveRef: words of eight bits, programs around one   *)
(* instruction of every kind.                                              *)
(***************************************************************************)
EXTENDS LiveRef

MCVaried == 0 .. 1
MCOthers == {2, 250}

\* Every arithmetic instruction on r0, its operand r1 or a constant.
Shifts == {"lsh", "rsh", "arsh"}
Selected(in) ==
  {in} \cup IF in.op = "mov" /\ in.x THEN {[in EXCEPT !.off = o] : o \in {1, 2, 3, 4}}
            ELSE IF in.op \in {"div", "mod", "mov"} THEN {[in EXCEPT !.off = o] : o \in {1, 2}}
            ELSE {}
Arithmetic ==
  UNION {Selected(in) : in \in
    {AluX(op, 0, 1) : op \in AluOps} \cup {Alu32X(op, 0, 1) : op \in AluOps}
    \cup {AluK(op, 0, k) : op \in AluOps \ Shifts, k \in {-8, -1, 0, 3}}
    \cup {Alu32K(op, 0, k) : op \in AluOps \ Shifts, k \in {-8, -1, 0, 3}}
    \cup {AluK(op, 0, 5) : op \in Shifts} \cup {Alu32K(op, 0, 3) : op \in Shifts}}

JumpInsns ==
  {JmpX(op, 0, 1, 1) : op \in JumpOps} \cup {JmpK(op, 0, -1, 1) : op \in JumpOps}
  \cup {[JmpX(op, 0, 1, 1) EXCEPT !.cls = "jmp32"] : op \in JumpOps}
  \cup {Jmp32K(op, 0, 7, 1) : op \in JumpOps}
  \cup {Ja(1), [Ja(0) EXCEPT !.cls = "jmp32", !.imm = 1], Ja(7), Ja(-2),
        [Exit EXCEPT !.cls = "jmp32"], JmpK("jother", 0, 0, 0)}

\* Loads, stores and atomics through the pointer r2 set to some address.
MemoryOps ==
  {Ldx(w, 0, 2, 0) : w \in {1, 2, 4, 8}}
  \cup {[Ldx(w, 0, 2, 0) EXCEPT !.op = "memsx"] : w \in {1, 2, 4, 8}}
  \cup {Stx(w, 2, 1, 0) : w \in {1, 2, 4, 8}} \cup {St(w, 2, 0, -3) : w \in {1, 2, 4, 8}}
  \cup {Atomic(op, w, 2, 1, 0, f) : op \in AtomicOps, w \in {4, 8}, f \in {0, 1}}
  \cup {Atomic("aother", 4, 2, 1, 0, 0), Atomic("add", 2, 2, 1, 0, 0)}
Addresses == {MapBase - 1, MapBase, MapBase + 9, MapBase + MapSize - 1, StackBase - 8,
              StackBase - 1, StackBase, PktBase + 8, Mod(8) - 1, Mod(8) - 4}

\* r1 is read, written or both before the program ends.
Tails == {<<Exit>>, <<AluX("mov", 0, 1), Exit>>}

MCTexts ==
  {Code(<<in, Exit>>) : in \in Arithmetic}
  \cup {Code(<<in>> \o t) : in \in JumpInsns, t \in {<<Exit, AluX("mov", 0, 1), Exit>>,
                                             <<AluK("mov", 0, 0), Exit>>}}
  \cup {Code(<<AluK("mov", 2, 0), AluX("add", 2, 3)>> \o <<in>> \o t)
          : in \in MemoryOps, t \in Tails}
  \cup {Code(<<ImmLow(2, addr % 16), ImmHigh(addr \div 16), in, Ldx(1, 1, 2, 0)>> \o t)
          : in \in MemoryOps, t \in Tails, addr \in Addresses}
  \cup {Code(<<ImmLow(1, 3)>>), Code(<<[ImmLow(1, 3) EXCEPT !.src = 1], ImmHigh(0), Exit>>),
        Code(<<AluX("add", 0, 11), Exit>>),
        Code(<<AluK("sub", 1, 1), JmpK("jne", 1, 0, -2), Exit>>)}

MCPrograms == {AsLive(t) : t \in MCTexts}
MCMaxRows(p) == 0

\* Many words where they are computed with, few where they are stored.
MCWords(t) == IF t[0].cls = "ld" \/ t[0] = AluK("mov", 2, 0) THEN {0, 3, 200}
              ELSE {0, 1, 3, 8, 15, 16, 127, 128, 255}

=============================================================================
