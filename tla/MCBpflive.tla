----------------------------- MODULE MCBpflive -----------------------------
(***************************************************************************)
(* Small instances of Bpflive: sets of instructions from which every       *)
(* program of a few lengths is built.                                      *)
(***************************************************************************)
EXTENDS Bpflive

I(op, dst, src, off, imm) ==
  [op |-> op, dst |-> dst, src |-> src, off |-> off, imm |-> imm]

\* One instruction of every kind, over few registers, with short jumps.
AllKinds ==
  {I(op, 1, 2, 0, 0) : op \in AluKinds \cup MemKinds \cup {"imm64", "other", "subprog",
                                                       "gotox", "cond_x"}}
  \cup {I("fetch", 1, 0, 0, 0), I("cmpxchg", 1, 0, 0, 0), I("mov_x", 0, 1, 0, 0),
        I("exit", 0, 0, 0, 0), I("call", 0, 0, 0, 1), I("call", 0, 0, 0, 5),
        I("kfunc", 0, 0, 0, 9), I("ja", 0, 0, 1, 0), I("jcond", 0, 0, -2, 0),
        I("stx", 10, 1, 0, 0)}

\* What makes the fixed point hard: reads, writes and jumps in both directions.
Loops ==
  {I("mov_k", 1, 0, 0, 0), I("mov_x", 0, 1, 0, 0), I("exit", 0, 0, 0, 0),
   I("cond_k", 2, 0, 1, 0), I("imm64", 2, 0, 0, 0), I("ja", 0, 0, 1, 0),
   I("ja", 0, 0, -3, 0), I("jcond", 0, 0, -2, 0)}

\* Programs whose answer is short, to be compared with every small table.
Short == {I("mov_x", 0, 1, 0, 0), I("alu_x", 1, 2, 0, 0), I("exit", 0, 0, 0, 0),
          I("kfunc", 0, 0, 0, 9)}

Calling == {I("call", 0, 0, 0, 1), I("call", 0, 0, 0, 5),
            I("cmpxchg", 1, 0, 0, 0), I("fetch", 1, 0, 0, 0)}

\* All programs of up to two instructions of every kind, of three that jump,
\* call or are short, of four that jump about, and one that is too long.
MCPrograms == UNION {[0 .. m - 1 -> AllKinds] : m \in 0 .. 2}
              \cup [0 .. 2 -> Loops \cup Short \cup Calling]
              \cup [0 .. 3 -> Loops]
              \cup [0 .. 4 -> {I("exit", 0, 0, 0, 0)}]

\* Tables of up to two rows for the short programs, empty ones for the others.
MCMaxRows(p) == IF \A a \in DOMAIN p : p[a] \in Short THEN 2 ELSE 0

Registrations == {[id |-> 9, argc |-> 1], [id |-> 9, argc |-> 2],
                  [id |-> 8, argc |-> 3], [id |-> 0, argc |-> 1]}
MCMasks == {{}, {1}, {0, 2}}

=============================================================================
