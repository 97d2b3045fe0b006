------------------------------ MODULE Bpflive ------------------------------
(***************************************************************************)
(* harness/bpflive.h: the harness's own live-register analysis, and the    *)
(* comparison of its result with the kernel's `Live regs before insn:`     *)
(* table (bpflive_run, bpflive_compare_log).  An instruction is abstracted *)
(* to what decides its registers and successors: its kind, dst, src, jump  *)
(* offset and, for calls, the helper or kfunc number.                      *)
(***************************************************************************)
EXTENDS Integers, FiniteSets, Sequences, FiniteSetsExt

CONSTANTS Programs,  \* the programs considered: functions on 0 .. n-1
          MaxInsn,   \* BPFLIVE_MAXINSN
          MaxKfunc,  \* slots of bpflive_kfuncs
          Kfuncs,    \* registrations the harness may make: [id, argc]
          Masks,     \* register masks the kernel's table may print
          MaxRows(_) \* bound: rows of that table, for a program

AnyReg  == 0 .. 15   \* dst_reg and src_reg are four bits wide
Tracked == 0 .. 9    \* BL_TRACKED: r10 is never compared

\* BPF_SRC(code) = X: the second operand is a register.
AluKinds == {"alu_k", "alu_x", "mov_k", "mov_x", "end"}
MemKinds == {"ldx", "st", "stx", "load_acq", "store_rel", "atomic", "fetch",
             "cmpxchg"}
JmpKinds == {"ja", "jcond", "cond_k", "cond_x", "exit", "call", "kfunc",
             "subprog", "gotox"}
Kinds    == AluKinds \cup MemKinds \cup JmpKinds \cup {"imm64", "other"}
LiveInsn == [op : Kinds, dst : AnyReg, src : AnyReg, off : Int, imm : Int]

ASSUME BpfliveAssumption ==
  /\ \A p \in Programs : /\ Cardinality(DOMAIN p) \in Nat
                          /\ p \in [0 .. Cardinality(DOMAIN p) - 1 -> LiveInsn]
                          /\ MaxRows(p) \in Nat
  /\ MaxInsn \in Nat \ {0} /\ MaxKfunc \in Nat
  /\ Kfuncs \subseteq [id : Int, argc : Nat]
  /\ Masks \subseteq SUBSET Tracked

VARIABLES prog, n,     \* the emitted instructions 0 .. n-1
          kfuncs,      \* bpflive_kfuncs[0 .. nkfunc-1], as a sequence
          pc,          \* where the analysis is
          status, at,  \* bpflive_result: ok or unsupported, and unsupported_at
          live,        \* live_before
          i, changed, pass,   \* bpflive_run's loop: instruction, flag, guard
          table,       \* the kernel's rows: [idx, mask]
          row,         \* rows already parsed
          cmp          \* bpflive_cmp: rows, checked, overreach, first cell

vars == <<prog, n, kfuncs, pc, status, at, live, i, changed, pass, table, row, cmp>>

Addr  == 0 .. n - 1
NoCell == <<-1, -1>>
NoCmp  == [rows |-> 0, checked |-> 0, overreach |-> 0, first |-> NoCell]

-----------------------------------------------------------------------------
(* Calls: the registers they read are those of their first argc arguments. *)

\* bpflive_helper_argc, -1 for a helper it does not list.
HelperArgc(id) ==
  CASE id = 1 -> 2 [] id = 2 -> 4 [] id = 3 -> 2 [] id = 6 -> 2 [] id = 7 -> 0
    [] id = 84 -> 5 [] id = 86 -> 1 [] id \in {197, 198} -> 4
    [] id \in {199, 200} -> 2 [] OTHER -> -1

Registered(id) == {k \in DOMAIN kfuncs : kfuncs[k].id = id}

\* bpflive_kfunc_argc: the first registration of the id, -1 without one.
KfuncArgc(id) ==
  IF Registered(id) = {} THEN -1
  ELSE kfuncs[CHOOSE k \in Registered(id) : \A m \in Registered(id) : k <= m].argc

Argc(in) == IF in.op = "call" THEN HelperArgc(in.imm) ELSE KfuncArgc(in.imm)

-----------------------------------------------------------------------------
(* bpflive_usedef.                                                         *)

\* It returns 0 on an opcode outside the model, a subprogram call, an
\* unlisted helper and an unregistered kfunc.
InModel(in) ==
  /\ in.op \notin {"other", "subprog"}
  /\ in.op \in {"call", "kfunc"} => Argc(in) >= 0

\* The kinds that read their dst, and their src, as an operand.
UsesDst == {"alu_k", "alu_x", "end", "st", "stx", "store_rel", "atomic", "fetch",
            "cmpxchg", "cond_k", "cond_x"}
UsesSrc == {"alu_x", "mov_x", "ldx", "stx", "load_acq", "store_rel", "atomic",
            "fetch", "cmpxchg", "cond_x"}
Calls   == {"call", "kfunc"}

OnlyIf(condition, set) == IF condition THEN set ELSE {}

Use(in) ==
  OnlyIf(in.op \in UsesDst, {in.dst})
  \cup OnlyIf(in.op \in UsesSrc, {in.src})
  \cup OnlyIf(in.op \in {"exit", "cmpxchg"}, {0})
  \cup OnlyIf(in.op \in Calls, 1 .. Argc(in))

\* CMPXCHG has the FETCH bit set, so its src counts as written here.
Def(in) ==
  OnlyIf(in.op \in AluKinds \cup {"ldx", "load_acq", "imm64"}, {in.dst})
  \cup OnlyIf(in.op \in {"fetch", "cmpxchg"}, {in.src})
  \cup OnlyIf(in.op = "cmpxchg", {0})
  \cup OnlyIf(in.op \in Calls, 0 .. 5)

(* bpflive_succ: {} after exit, {-1} when a successor is out of model.     *)

NotInModel == {-1}
Jumps == {"ja", "cond_k", "cond_x", "jcond"}

\* A jump must land in the program, and an instruction that does not jump must
\* not run off its end; a conditional jump may, its fall-through then dropped.
Succ(a) ==
  LET in == prog[a]
      next == IF in.op = "imm64" THEN a + 2 ELSE a + 1
      target == OnlyIf(in.op \in Jumps, {a + 1 + in.off})
      fall == OnlyIf(in.op \notin {"ja", "exit"}, {next})
  IN  IF \/ in.op = "gotox"
         \/ ~(target \subseteq Addr)
         \/ in.op \notin Jumps /\ ~(fall \subseteq Addr)
      THEN NotInModel
      ELSE target \cup (fall \cap Addr)

\* skip: the second slot of an LD_IMM64.
SecondSlot[a \in Nat] == a > 0 /\ prog[a - 1].op = "imm64" /\ ~SecondSlot[a - 1]

Refused(a) == ~SecondSlot[a] /\ (~InModel(prog[a]) \/ Succ(a) = NotInModel)

\* One instruction's equation, over what is live before its successors.
After(a, l) == UNION {l[b] : b \in Succ(a)}
Transfer(a, l) == (Use(prog[a]) \cup (After(a, l) \ Def(prog[a]))) \cap Tracked

-----------------------------------------------------------------------------
Init ==
  /\ prog \in Programs /\ n = Cardinality(DOMAIN prog)
  /\ kfuncs = << >>
  /\ pc = "setup" /\ status = "ok" /\ at = -1
  /\ live = [a \in Addr |-> {}]
  /\ i = n - 1 /\ changed = FALSE /\ pass = 0
  /\ table = << >> /\ row = 0 /\ cmp = NoCmp

\* bpflive_register_kfunc: no-op on a bad id, a full table or a known id.
RegisterKfunc(k) ==
  /\ pc = "setup"
  /\ kfuncs' = IF k.id <= 0 \/ Len(kfuncs) >= MaxKfunc \/ Registered(k.id) # {}
               THEN kfuncs ELSE Append(kfuncs, k)
  /\ UNCHANGED <<prog, n, pc, status, at, live, i, changed, pass, table, row, cmp>>

\* The scan returns at the first instruction it refuses.
FirstRefused == Min({a \in Addr : Refused(a)})

\* bpflive_run up to the fixed point: the program is refused, at the first
\* instruction outside the model, or its use, def and succ sets are known.
Scan ==
  /\ pc = "setup"
  /\ IF n = 0 \/ n > MaxInsn
     THEN status' = "unsupported" /\ at' = -1 /\ pc' = "done"
     ELSE IF \E a \in Addr : Refused(a)
     THEN status' = "unsupported" /\ at' = FirstRefused
          /\ pc' = "done"
     ELSE pc' = "visit" /\ UNCHANGED <<status, at>>
  /\ UNCHANGED <<prog, n, kfuncs, live, i, changed, pass, table, row, cmp>>

\* One instruction of one backward pass.
Visit ==
  /\ pc = "visit" /\ i >= 0
  /\ IF SecondSlot[i] THEN UNCHANGED <<live, changed>>
     ELSE /\ live' = [live EXCEPT ![i] = Transfer(i, live)]
          /\ changed' = (changed \/ Transfer(i, live) # live[i])
  /\ i' = i - 1
  /\ UNCHANGED <<prog, n, kfuncs, pc, status, at, pass, table, row, cmp>>

Guard == 4 * MaxInsn

\* (wrong on purpose) gives up after the first pass.
EndPassOnce ==
  /\ pc = "visit" /\ i < 0
  /\ pass' = pass + 1
  /\ pc' = "done" /\ UNCHANGED <<i, changed>>
  /\ UNCHANGED <<prog, n, kfuncs, status, at, live, table, row, cmp>>

\* (wrong on purpose) repeats until nothing changes, `changed` never cleared.
EndPassForever ==
  /\ pc = "visit" /\ i < 0
  /\ IF changed THEN i' = n - 1 /\ UNCHANGED <<pc, pass>>
     ELSE pc' = "done" /\ pass' = pass + 1 /\ UNCHANGED i
  /\ UNCHANGED <<prog, n, kfuncs, status, at, live, changed, table, row, cmp>>

\* The pass is over; another follows if it changed anything, up to the guard.
EndPass ==
  /\ pc = "visit" /\ i < 0
  /\ pass' = pass + 1
  /\ IF changed /\ pass + 1 < Guard
     THEN i' = n - 1 /\ changed' = FALSE /\ UNCHANGED pc
     ELSE pc' = "done" /\ UNCHANGED <<i, changed>>
  /\ UNCHANGED <<prog, n, kfuncs, status, at, live, table, row, cmp>>

\* bpflive_compare_log: without a result, or without a table in the log,
\* there is nothing to compare; else the kernel printed some table.
CompareBegins ==
  /\ pc = "done"
  /\ IF status # "ok" THEN pc' = "over" /\ UNCHANGED <<status, table>>
     ELSE \/ pc' = "over" /\ status' = "unsupported" /\ UNCHANGED table
          \/ /\ pc' = "compare" /\ UNCHANGED status
             /\ \E m \in 0 .. MaxRows(prog) :
                  table' \in [1 .. m -> [idx : 0 .. n, mask : Masks]]
  /\ UNCHANGED <<prog, n, kfuncs, at, live, i, changed, pass, row, cmp>>

\* (wrong on purpose) reports the last cell, not the first.
FirstCellLast(first, cells, idx) ==
  IF cells = {} THEN first ELSE <<idx, Min(cells)>>

\* first_insn and first_reg after a row whose overreaching cells are `cells`.
FirstCell(first, cells, idx) ==
  IF first # NoCell \/ cells = {} THEN first ELSE <<idx, Min(cells)>>

\* One row; a row for an instruction the program does not have is ignored.
CompareRow ==
  /\ pc = "compare" /\ row < Len(table)
  /\ LET r == table[row + 1]
         over == live[r.idx] \ r.mask
     IN  cmp' = IF r.idx \notin Addr THEN cmp ELSE
                [rows |-> cmp.rows + 1,
                 checked |-> cmp.checked + Cardinality(live[r.idx]),
                 overreach |-> cmp.overreach + Cardinality(over),
                 first |-> FirstCell(cmp.first, over, r.idx)]
  /\ row' = row + 1
  /\ UNCHANGED <<prog, n, kfuncs, pc, status, at, live, i, changed, pass, table>>

CompareEnds ==
  /\ pc = "compare" /\ row = Len(table)
  /\ pc' = "over"
  /\ UNCHANGED <<prog, n, kfuncs, status, at, live, i, changed, pass, table, row, cmp>>

Analyse == Scan \/ Visit \/ EndPass
AnalysisStep == Analyse \/ CompareBegins \/ CompareRow \/ CompareEnds

Next == AnalysisStep \/ \E k \in Kfuncs : RegisterKfunc(k)

Spec == Init /\ [][Next]_vars

\* Sequential code: the analysis goes on until it returns.
FairSpec == Spec /\ WF_vars(AnalysisStep)

-----------------------------------------------------------------------------
(* What the registers of an instruction are in the reference interpreter,  *)
(* harness/bpfref.h: those whose value an execution of it depends on, and  *)
(* those it assigns.  Calls, byte swaps, acquire and release accesses and  *)
(* may_goto are outside bpfref.h: what the instruction set says of them.   *)

Reads(in) ==
  {r \in AnyReg :
    \/ r = in.dst /\ in.op \notin {"mov_k", "mov_x", "ldx", "load_acq", "imm64",
                                  "other"} \cup JmpKinds
    \/ r = in.src /\ in.op \in {"alu_x", "mov_x"} \cup (MemKinds \ {"st"})
    \/ r \in {in.dst, in.src} /\ in.op = "cond_x"
    \/ r = in.dst /\ in.op = "cond_k"
    \/ r = 0 /\ in.op \in {"cmpxchg", "exit"}
    \/ r \in 1 .. Argc(in) /\ in.op \in Calls}

\* CMPXCHG puts the old value in r0, and leaves src alone.
Writes(in) ==
  {r \in AnyReg :
    \/ r = in.dst /\ in.op \notin (MemKinds \ {"ldx", "load_acq"}) \cup JmpKinds \cup {"other"}
    \/ r = in.src /\ in.op = "fetch"
    \/ r = 0 /\ in.op = "cmpxchg"
    \/ r \in 0 .. 5 /\ in.op \in Calls}

\* The instructions p[0], ..., p[m] are a path that reads r at its end and
\* assigns it nowhere before.  A path ends at the second slot of an LD_IMM64,
\* which cannot be executed.
ReadsAtEnd(p, m, r) ==
  /\ \A k \in 0 .. m : ~SecondSlot[p[k]]
  /\ \A k \in 0 .. m - 1 : /\ p[k + 1] \in Succ(p[k])
                           /\ r \notin Writes(prog[p[k]])
  /\ r \in Reads(prog[p[m]])

ReadFirstIn(a, r, lengths) ==
  \E m \in lengths : \E p \in [0 .. m -> Addr] : p[0] = a /\ ReadsAtEnd(p, m, r)

\* A shortest such path visits no instruction twice.
ReadFirst(a, r) == ReadFirstIn(a, r, 0 .. n - 1)

Analysed == status = "ok" /\ pc \in {"done", "compare", "over"}

TypeOK ==
  /\ prog \in Programs /\ DOMAIN prog = Addr
  /\ kfuncs \in Seq(Kfuncs) /\ Len(kfuncs) <= MaxKfunc
  /\ pc \in {"setup", "visit", "done", "compare", "over"}
  /\ status \in {"ok", "unsupported"} /\ at \in -1 .. n - 1
  /\ live \in [Addr -> SUBSET Tracked]
  /\ i \in -1 .. n - 1 /\ changed \in BOOLEAN /\ pass \in 0 .. Guard
  /\ table \in Seq([idx : 0 .. n, mask : Masks]) /\ row \in 0 .. Len(table)
  /\ cmp.rows \in 0 .. row
  /\ cmp.checked \in Nat /\ cmp.overreach \in 0 .. cmp.checked
  /\ cmp.first \in {NoCell} \cup (Addr \X Tracked)

\* bpflive.h:263-265: "the least fixed point reached by iterating to stability
\* is the exact answer for this CFG": when the analysis returns ok, r is in
\* live_before[a] exactly when some path from a reads r before writing it.
LiveIsExact ==
  Analysed /\ pc = "done" =>
    \A a \in Addr : live[a] = {r \in Tracked : ReadFirst(a, r)}

\* A register's liveness, once established, is never withdrawn.
LiveOnlyGrows == [][\A a \in Addr : live[a] \subseteq live'[a]]_vars

\* The arity the analysis takes each kfunc to have.
Arity == [k \in Kfuncs |-> KfuncArgc(k.id)]

\* The arity of a registered kfunc never changes, whatever is registered later
\* and however full the table is.
ArityIsStable ==
  [][\A k \in Kfuncs : Arity[k] >= 0 => Arity'[k] = Arity[k]]_vars

\* Rows of the table that the comparison pairs with an instruction.
Paired == {k \in 1 .. row : table[k].idx \in Addr}
OverCells == {c \in Paired \X Tracked :
                c[2] \in live[table[c[1]].idx] /\ c[2] \notin table[c[1]].mask}

\* The claim sent out of the VM is about the table the kernel printed: its
\* count is the number of cells where the kernel says dead and a path reads
\* the register first, and its first cell is the first of them.
ClaimIsRight ==
  pc = "over" =>
    /\ cmp.rows = Cardinality(Paired)
    /\ cmp.overreach = Cardinality(OverCells)
    /\ cmp.overreach = 0 <=> cmp.first = NoCell
    /\ cmp.overreach > 0 =>
         \E c \in OverCells :
           /\ cmp.first = <<table[c[1]].idx, c[2]>>
           /\ ReadFirst(cmp.first[1], cmp.first[2])
           /\ \A d \in OverCells : c[1] < d[1] \/ (c[1] = d[1] /\ c[2] <= d[2])

\* The analysis and the comparison always return.
Returns == <>(pc = "over")

=============================================================================
