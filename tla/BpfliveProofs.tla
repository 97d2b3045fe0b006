--------------------------- MODULE BpfliveProofs ---------------------------
(***************************************************************************)
(* Proofs about the live-register analysis, for every program: any set of  *)
(* instructions, any length, any jumps.  In order: what the result claims  *)
(* (IInv), that the analysis reaches its fixed point before the guard of   *)
(* its loop (Swept, Quiet), what the comparison with the kernel's table    *)
(* counts (CInv), that the reference interpreter never reads a register    *)
(* the analysis calls dead (Twins, Follows, RInv), that its accesses are   *)
(* checked (Resolved, Allowed) and that its arithmetic is exact (Right).   *)
(***************************************************************************)
EXTENDS LiveRef, FiniteSetTheorems, TLAPS

\* The equation of instruction a holds of l.
Equation(a, l) == l[a] = IF SecondSlot[a] THEN {} ELSE Transfer(a, l)

IsSolution(l) == \A a \in Addr : Equation(a, l)

\* Some path, however long.
AnyReadFirst(a, r) == ReadFirstIn(a, r, Nat)

Shape ==
  /\ n \in Nat /\ prog \in [Addr -> LiveInsn]
  /\ live \in [Addr -> SUBSET Tracked]
  /\ i \in Int /\ -1 <= i /\ i < n
  /\ changed \in BOOLEAN
  /\ pc = "visit" => status = "ok"
  /\ pc = "setup" => /\ status = "ok" /\ changed = FALSE /\ i = n - 1
                     /\ \A a \in Addr : live[a] = {}

\* Past Scan with status ok, no instruction is refused.
Accepted ==
  pc # "setup" /\ status = "ok" => \A a \in Addr : ~Refused(a)

\* What an instruction's equation gives is never below what is there.
Ascending ==
  pc = "visit" =>
    \A a \in Addr : live[a] \subseteq IF SecondSlot[a] THEN {} ELSE Transfer(a, live)

\* Without a change so far, the instructions visited satisfy their equations.
Settled ==
  changed = FALSE =>
    /\ pc = "visit" => \A a \in Addr : a > i => Equation(a, live)
    /\ pc \notin {"setup", "visit"} /\ status = "ok" => IsSolution(live)

Least ==
  \A l \in [Addr -> SUBSET Tracked] :
    IsSolution(l) => \A a \in Addr : live[a] \subseteq l[a]

HasPath ==
  pc # "setup" /\ status = "ok" =>
    \A a \in Addr : \A r \in live[a] : AnyReadFirst(a, r)

IInv == Shape /\ Accepted /\ Ascending /\ Settled /\ Least /\ HasPath

-----------------------------------------------------------------------------
(* Lemmas about the instructions.                                          *)

\* use and def against what an execution reads and writes.
LEMMA UseDefSound ==
  ASSUME NEW in \in LiveInsn
  PROVE  /\ Reads(in) \subseteq Use(in)
         /\ Use(in) \cap Tracked \subseteq Reads(in)
         /\ Writes(in) \subseteq Def(in)
         /\ Def(in) \subseteq Writes(in) \cup Use(in)
<1>1. in.op \in Kinds /\ in.dst \in AnyReg /\ in.src \in AnyReg
  BY DEF LiveInsn
<1> QED
  BY <1>1 DEF Reads, Writes, Use, Def, OnlyIf, UsesDst, UsesSrc, Calls, Kinds,
              AluKinds, MemKinds, JmpKinds, AnyReg, Tracked

\* Successors of an instruction that is not refused are in the program.
LEMMA SuccInProgram ==
  ASSUME NEW a \in Addr, ~Refused(a), ~SecondSlot[a]
  PROVE  Succ(a) \subseteq Addr
  BY DEF Refused, Succ, OnlyIf, NotInModel

\* A wider live_before never has fewer registers live above an instruction.
LEMMA TransferMonotone ==
  ASSUME NEW a \in Addr, NEW l, NEW m, Succ(a) \subseteq Addr,
         \A b \in Addr : l[b] \subseteq m[b]
  PROVE  Transfer(a, l) \subseteq Transfer(a, m)
  BY DEF Transfer, After

-----------------------------------------------------------------------------
(* The operators read only prog, n and kfuncs.                             *)

\* What the analysis reads of the program stays with the program: its arities,
LEMMA SameArgc ==
  ASSUME NEW in, kfuncs' = kfuncs
  PROVE  Argc(in)' = Argc(in)
  BY DEF Argc, KfuncArgc, Registered

\* its second slots,
LEMMA SameSlots ==
  ASSUME prog' = prog
  PROVE  SecondSlot' = SecondSlot
  BY DEF SecondSlot

\* its use and def sets,
LEMMA SameUseDef ==
  ASSUME NEW a \in Addr, UNCHANGED <<prog, n, kfuncs>>
  PROVE  /\ Use(prog[a])' = Use(prog[a]) /\ Def(prog[a])' = Def(prog[a])
         /\ Reads(prog[a])' = Reads(prog[a]) /\ Writes(prog[a])' = Writes(prog[a])
         /\ InModel(prog[a])' = InModel(prog[a])
  BY SameArgc DEF Use, Def, Reads, Writes, InModel

\* its edges,
LEMMA SameSucc ==
  ASSUME NEW a \in Addr, UNCHANGED <<prog, n>>
  PROVE  Succ(a)' = Succ(a)
  BY DEF Succ, Addr

\* its equations,
LEMMA SameTransfer ==
  ASSUME NEW a \in Addr, UNCHANGED <<prog, n, kfuncs>>
  PROVE  /\ Transfer(a, live)' = Transfer(a, live')
         /\ Refused(a)' = Refused(a)
         /\ \A l : Transfer(a, l)' = Transfer(a, l)
<1>1. /\ Use(prog[a])' = Use(prog[a]) /\ Def(prog[a])' = Def(prog[a])
      /\ InModel(prog[a])' = InModel(prog[a]) /\ Succ(a)' = Succ(a)
      /\ SecondSlot' = SecondSlot
  BY SameUseDef, SameSucc, SameSlots
<1>2. Transfer(a, live)' = Transfer(a, live')
  BY <1>1 DEF Transfer, After
<1>3. Refused(a)' = Refused(a)
  BY <1>1 DEF Refused
<1>4. ASSUME NEW l PROVE Transfer(a, l)' = Transfer(a, l)
  BY <1>1 DEF Transfer, After
<1> QED
  BY <1>2, <1>3, <1>4

\* A path of m steps from a, at the end of which r is read.
ReadAfter(a, r, m) == \E p \in [0 .. m -> Addr] : p[0] = a /\ ReadsAtEnd(p, m, r)

\* the length of its paths,
LEMMA SameLength ==
  ASSUME NEW a, NEW r, NEW m \in Nat, UNCHANGED <<prog, n, kfuncs>>
  PROVE  ReadAfter(a, r, m)' <=> ReadAfter(a, r, m)
<1>1. Addr' = Addr /\ SecondSlot' = SecondSlot
  BY SameSlots DEF Addr
<1>2. ASSUME NEW p \in [0 .. m -> Addr]
      PROVE  ReadsAtEnd(p, m, r)' <=> ReadsAtEnd(p, m, r)
  <2>1. \A k \in 0 .. m : /\ Succ(p[k])' = Succ(p[k])
                          /\ Reads(prog[p[k]])' = Reads(prog[p[k]])
                          /\ Writes(prog[p[k]])' = Writes(prog[p[k]])
    <3> TAKE k \in 0 .. m
    <3>1. p[k] \in Addr
      OBVIOUS
    <3> QED
      BY <3>1, SameUseDef, SameSucc
  <2>2. 0 .. m - 1 \subseteq 0 .. m /\ m \in 0 .. m
    OBVIOUS
  <2> QED
    BY <1>1, <2>1, <2>2 DEF ReadsAtEnd
<1> QED
  BY <1>1, <1>2 DEF ReadAfter

\* and its paths.
LEMMA SamePath ==
  ASSUME NEW a \in Addr, NEW r, UNCHANGED <<prog, n, kfuncs>>
  PROVE  AnyReadFirst(a, r)' <=> AnyReadFirst(a, r)
<1>1. AnyReadFirst(a, r) <=> \E m \in Nat : ReadAfter(a, r, m)
  BY DEF AnyReadFirst, ReadFirstIn, ReadAfter
<1>2. AnyReadFirst(a, r)' <=> \E m \in Nat : ReadAfter(a, r, m)'
  BY DEF AnyReadFirst, ReadFirstIn, ReadAfter
<1> QED
  BY <1>1, <1>2, SameLength

-----------------------------------------------------------------------------
\* IInv holds before the analysis, and each step keeps it.
LEMMA InitIInv == Init => IInv
<1> SUFFICES ASSUME Init PROVE IInv
  OBVIOUS
<1>1. Shape
  <2>1. n \in Nat /\ i = n - 1
    BY BpfliveAssumption DEF Init
  <2>2. prog \in [Addr -> LiveInsn] /\ live \in [Addr -> SUBSET Tracked]
    BY BpfliveAssumption DEF Init, Addr
  <2>3. i \in Int /\ -1 <= i /\ i < n
    BY <2>1
  <2>4. status = "ok" /\ changed = FALSE /\ \A a \in Addr : live[a] = {}
    BY DEF Init
  <2> QED
    BY <2>1, <2>2, <2>3, <2>4 DEF Init, Shape
<1>2. Accepted /\ Ascending /\ Settled /\ HasPath
  BY DEF Init, Accepted, Ascending, Settled, HasPath
<1>3. Least
  BY DEF Init, Least
<1> QED
  BY <1>1, <1>2, <1>3 DEF IInv

\* Steps that leave the program and what is live alone.
LEMMA IdleStep ==
  ASSUME IInv, UNCHANGED <<prog, n, kfuncs, live>>
  PROVE  /\ Least'
         /\ \A a \in Addr : \A r \in live[a] : AnyReadFirst(a, r)' <=> AnyReadFirst(a, r)
         /\ \A a \in Addr : Refused(a)' = Refused(a)
         /\ \A a \in Addr : Equation(a, live)' <=> Equation(a, live)
         /\ \A a \in Addr : Transfer(a, live)' = Transfer(a, live)
<1>1. Addr' = Addr /\ SecondSlot' = SecondSlot
  BY SameSlots DEF Addr
<1>2. \A a \in Addr : /\ Refused(a)' = Refused(a)
                      /\ Transfer(a, live)' = Transfer(a, live')
  BY SameTransfer
<1>3. \A a \in Addr : \A r \in live[a] : AnyReadFirst(a, r)' <=> AnyReadFirst(a, r)
  BY SamePath
<1>4. \A a \in Addr : Transfer(a, live)' = Transfer(a, live)
  BY <1>2
<1>5. \A a \in Addr : Equation(a, live)' <=> Equation(a, live)
  BY <1>1, <1>4 DEF Equation
<1>6. Least'
  <2> SUFFICES ASSUME NEW l \in [Addr -> SUBSET Tracked], IsSolution(l)',
                      NEW a \in Addr
               PROVE  live[a] \subseteq l[a]
    BY <1>1 DEF Least
  <2>1. \A b \in Addr : Transfer(b, l)' = Transfer(b, l)
    BY SameTransfer
  <2>2. IsSolution(l)
    BY <1>1, <2>1 DEF IsSolution, Equation
  <2> QED
    BY <2>2 DEF Least, IInv
<1> QED
  BY <1>2, <1>3, <1>4, <1>5, <1>6

\* A kfunc's arity is registered before the scan only.
LEMMA RegisterStep ==
  IInv /\ (\E k \in Kfuncs : RegisterKfunc(k)) => IInv'
<1> SUFFICES ASSUME IInv, NEW k \in Kfuncs, RegisterKfunc(k) PROVE IInv'
  OBVIOUS
<1>1. Shape' /\ pc' = "setup" /\ (\A a \in Addr' : live'[a] = {})
  BY DEF IInv, Shape, RegisterKfunc, Addr
<1>2. Accepted' /\ Ascending' /\ Settled' /\ HasPath'
  BY <1>1 DEF Accepted, Ascending, Settled, HasPath
<1>3. Least'
  BY <1>1 DEF Least
<1> QED
  BY <1>1, <1>2, <1>3 DEF IInv

\* The scan starts the first pass or refuses the program.
LEMMA ScanStep == IInv /\ Scan => IInv'
<1> SUFFICES ASSUME IInv, Scan PROVE IInv'
  OBVIOUS
<1>0. /\ UNCHANGED <<prog, n, kfuncs, live, i, changed>>
      /\ pc = "setup" /\ Shape /\ Least
      /\ Addr' = Addr
  BY DEF Scan, IInv, Addr
<1>1. /\ \/ pc' = "done" /\ status' = "unsupported"
         \/ pc' = "visit" /\ status' = "ok" /\ \A a \in Addr : ~Refused(a)
      /\ \A a \in Addr : live[a] = {}
  BY <1>0 DEF Scan, Shape
<1>2. Shape'
  BY <1>0, <1>1 DEF Shape
<1>3. Least' /\ (\A a \in Addr : Refused(a)' = Refused(a))
  BY <1>0, IdleStep
<1>4. Accepted'
  BY <1>0, <1>1, <1>3 DEF Accepted
<1>5. Ascending' /\ HasPath'
  BY <1>0, <1>1 DEF Ascending, HasPath
<1>6. Settled'
  <2>1. i' = n - 1 /\ n \in Nat
    BY <1>0 DEF Shape
  <2>2. \A a \in Addr' : ~(a > i')
    BY <1>0, <2>1 DEF Addr
  <2>3. CASE pc' = "done" /\ status' = "unsupported"
    BY <2>3 DEF Settled
  <2>4. CASE pc' = "visit"
    BY <2>2, <2>4 DEF Settled
  <2> QED
    BY <1>1, <2>3, <2>4
<1> QED
  BY <1>2, <1>3, <1>4, <1>5, <1>6 DEF IInv

\* A pass that changed nothing leaves a solution.
LEMMA EndPassStep == IInv /\ EndPass => IInv'
<1> SUFFICES ASSUME IInv, EndPass PROVE IInv'
  OBVIOUS
<1>0. /\ UNCHANGED <<prog, n, kfuncs, live, status>>
      /\ pc = "visit" /\ i < 0 /\ Shape /\ Accepted /\ Ascending /\ Settled
      /\ Least /\ HasPath /\ Addr' = Addr /\ SecondSlot' = SecondSlot
  BY SameSlots DEF EndPass, IInv, Addr
<1>1. \/ changed /\ i' = n - 1 /\ changed' = FALSE /\ pc' = "visit"
      \/ pc' = "done" /\ UNCHANGED <<i, changed>>
  BY <1>0 DEF EndPass
<1>2. Shape'
  <2>1. /\ n \in Nat /\ prog \in [Addr -> LiveInsn] /\ live \in [Addr -> SUBSET Tracked]
        /\ i \in Int /\ -1 <= i /\ i < n /\ changed \in BOOLEAN /\ status = "ok"
    BY <1>0 DEF Shape
  <2>2. i' \in Int /\ -1 <= i' /\ i' < n
    BY <1>1, <2>1
  <2>3. changed' \in BOOLEAN /\ pc' # "setup"
    BY <1>1, <2>1
  <2> QED
    BY <1>0, <2>1, <2>2, <2>3 DEF Shape
<1>3. /\ Least' /\ \A a \in Addr : Refused(a)' = Refused(a)
      /\ \A a \in Addr : \A r \in live[a] : AnyReadFirst(a, r)' <=> AnyReadFirst(a, r)
      /\ \A a \in Addr : Equation(a, live)' <=> Equation(a, live)
      /\ \A a \in Addr : Transfer(a, live)' = Transfer(a, live)
  BY <1>0, IdleStep
<1>4. Accepted' /\ HasPath'
  BY <1>0, <1>1, <1>3 DEF Accepted, HasPath, Shape
<1>5. Ascending'
  BY <1>0, <1>1, <1>3 DEF Ascending
<1>6. Settled'
  <2>1. CASE i' = n - 1 /\ pc' = "visit"
    <3>1. \A a \in Addr' : ~(a > i')
      BY <1>0, <2>1 DEF Addr, Shape
    <3> QED
      BY <2>1, <3>1 DEF Settled
  <2>2. CASE pc' = "done" /\ UNCHANGED <<i, changed>>
    <3>1. \A a \in Addr : a > i
      BY <1>0 DEF Addr, Shape
    <3>2. changed = FALSE => \A a \in Addr : Equation(a, live)
      BY <1>0, <3>1 DEF Settled
    <3> QED
      BY <1>0, <1>3, <2>2, <3>2 DEF Settled, IsSolution
  <2> QED
    BY <1>1, <2>1, <2>2
<1> QED
  BY <1>2, <1>3, <1>4, <1>5, <1>6 DEF IInv

\* Putting a first step in front of a path.
LEMMA LongerPath ==
  ASSUME NEW a \in Addr, NEW b \in Addr, NEW r, n \in Nat,
         ~SecondSlot[a], b \in Succ(a), r \notin Writes(prog[a]),
         AnyReadFirst(b, r)
  PROVE  AnyReadFirst(a, r)
<1>0. PICK m \in Nat : \E p \in [0 .. m -> Addr] : p[0] = b /\ ReadsAtEnd(p, m, r)
  BY DEF AnyReadFirst, ReadFirstIn
<1>1. PICK p \in [0 .. m -> Addr] : p[0] = b /\ ReadsAtEnd(p, m, r)
  BY <1>0
<1> DEFINE q == [k \in 0 .. m + 1 |-> IF k = 0 THEN a ELSE p[k - 1]]
<1>2. q \in [0 .. m + 1 -> Addr] /\ q[0] = a /\ q[1] = b /\ m + 1 \in Nat
  BY <1>1
<1>3. \A k \in 1 .. m + 1 : k - 1 \in 0 .. m /\ q[k] = p[k - 1]
  OBVIOUS
<1>4. \A k \in 0 .. m + 1 : ~SecondSlot[q[k]]
  BY <1>1, <1>2, <1>3 DEF ReadsAtEnd
<1>5. ASSUME NEW k \in 0 .. m
      PROVE  q[k + 1] \in Succ(q[k]) /\ r \notin Writes(prog[q[k]])
  <2>1. CASE k = 0
    BY <1>2, <2>1
  <2>2. CASE k # 0
    <3>1. /\ k \in 1 .. m + 1 /\ k + 1 \in 1 .. m + 1 /\ k - 1 \in 0 .. m - 1
          /\ (k + 1) - 1 = k /\ (k - 1) + 1 = k
      BY <2>2
    <3>2. q[k] = p[k - 1] /\ q[k + 1] = p[k]
      BY <1>3, <3>1
    <3> QED
      BY <1>1, <3>1, <3>2 DEF ReadsAtEnd
  <2> QED
    BY <2>1, <2>2
<1>6. r \in Reads(prog[q[m + 1]])
  <2>1. q[m + 1] = p[m]
    OBVIOUS
  <2> QED
    BY <1>1, <2>1 DEF ReadsAtEnd
<1>7. ReadsAtEnd(q, m + 1, r)
  <2>1. (m + 1) - 1 = m
    OBVIOUS
  <2> HIDE DEF q
  <2> QED
    BY <1>4, <1>5, <1>6, <2>1 DEF ReadsAtEnd
<1> HIDE DEF q
<1> QED
  BY <1>2, <1>7 DEF AnyReadFirst, ReadFirstIn

\* An instruction that reads r is itself a path to a read of r.
LEMMA ShortestPath ==
  ASSUME NEW a \in Addr, NEW r, ~SecondSlot[a], r \in Reads(prog[a])
  PROVE  AnyReadFirst(a, r)
<1> DEFINE q == [k \in 0 .. 0 |-> a]
<1>1. q \in [0 .. 0 -> Addr] /\ q[0] = a /\ 0 \in Nat
  OBVIOUS
<1>2. ReadsAtEnd(q, 0, r)
  BY <1>1 DEF ReadsAtEnd
<1> HIDE DEF q
<1> QED
  BY <1>1, <1>2 DEF AnyReadFirst, ReadFirstIn

\* What the equation adds to an instruction is read first on some path.
LEMMA TransferHasPath ==
  ASSUME Shape, NEW a \in Addr, ~SecondSlot[a], ~Refused(a),
         \A b \in Addr : \A r \in live[b] : AnyReadFirst(b, r),
         NEW r \in Transfer(a, live)
  PROVE  AnyReadFirst(a, r)
<1>1. prog[a] \in LiveInsn /\ n \in Nat
  BY BpfliveAssumption DEF Shape
<1>2. r \in Tracked /\ (r \in Use(prog[a]) \/ r \in After(a, live) \ Def(prog[a]))
  BY DEF Transfer
<1>3. CASE r \in Use(prog[a])
  BY <1>1, <1>2, <1>3, UseDefSound, ShortestPath
<1>4. CASE r \in After(a, live) /\ r \notin Def(prog[a])
  <2>1. PICK b \in Succ(a) : r \in live[b]
    BY <1>4 DEF After
  <2>2. b \in Addr
    BY SuccInProgram
  <2>3. r \notin Writes(prog[a])
    BY <1>1, <1>4, UseDefSound
  <2> QED
    BY <1>1, <2>1, <2>2, <2>3, LongerPath
<1> QED
  BY <1>2, <1>3, <1>4

-----------------------------------------------------------------------------
\* One instruction's visit: live only grows, and never past the least solution.
LEMMA VisitStep == IInv /\ Visit => IInv' /\ \A a \in Addr : live[a] \subseteq live'[a]
<1> SUFFICES ASSUME IInv, Visit
             PROVE  IInv' /\ \A a \in Addr : live[a] \subseteq live'[a]
  OBVIOUS
<1>0. /\ UNCHANGED <<prog, n, kfuncs, pc, status>>
      /\ pc = "visit" /\ i >= 0 /\ i' = i - 1
      /\ Shape /\ Accepted /\ Ascending /\ Settled /\ Least /\ HasPath
      /\ Addr' = Addr /\ SecondSlot' = SecondSlot
  BY SameSlots DEF Visit, IInv, Addr
<1>1. /\ n \in Nat /\ i \in Addr /\ status = "ok" /\ changed \in BOOLEAN
      /\ live \in [Addr -> SUBSET Tracked]
  BY <1>0 DEF Shape, Addr
<1>2. /\ \A a \in Addr : ~Refused(a) /\ Refused(a)' = Refused(a)
      /\ \A a \in Addr : Transfer(a, live)' = Transfer(a, live')
      /\ \A a \in Addr : \A l : Transfer(a, l)' = Transfer(a, l)
      /\ \A a \in Addr : \A r : AnyReadFirst(a, r)' <=> AnyReadFirst(a, r)
  <2>1. \A a \in Addr : ~Refused(a)
    BY <1>0, <1>1 DEF Accepted
  <2>2. \A a \in Addr : /\ Refused(a)' = Refused(a)
                        /\ Transfer(a, live)' = Transfer(a, live')
                        /\ \A l : Transfer(a, l)' = Transfer(a, l)
    BY <1>0, SameTransfer
  <2>3. \A a \in Addr : \A r : AnyReadFirst(a, r)' <=> AnyReadFirst(a, r)
    BY <1>0, SamePath
  <2> QED
    BY <2>1, <2>2, <2>3
<1>3. Accepted'
  BY <1>0, <1>2 DEF Accepted
<1>4. i' \in Int /\ -1 <= i' /\ i' < n
  BY <1>0, <1>1 DEF Shape, Addr
<1>5. CASE SecondSlot[i]
  <2>1. UNCHANGED <<live, changed>>
    BY <1>5 DEF Visit
  <2>2. Shape'
    BY <1>0, <1>1, <1>4, <2>1 DEF Shape
  <2>3. Least' /\ (\A a \in Addr : Equation(a, live)' <=> Equation(a, live))
    BY <1>0, <2>1, IdleStep
  <2>4. Ascending' /\ HasPath'
    BY <1>0, <1>2, <2>1 DEF Ascending, HasPath
  <2>5. Equation(i, live)
    BY <1>0, <1>1, <1>5 DEF Equation, Ascending
  <2>6. \A a \in Addr : a > i - 1 => a > i \/ a = i
    BY <1>1 DEF Addr
  <2>7. Settled'
    BY <1>0, <2>1, <2>3, <2>5, <2>6 DEF Settled
  <2> QED
    BY <1>3, <2>1, <2>2, <2>3, <2>4, <2>7 DEF IInv
<1>6. CASE ~SecondSlot[i]
  <2> DEFINE new == Transfer(i, live)
  <2>1. /\ live' = [live EXCEPT ![i] = new]
        /\ changed' = (changed \/ new # live[i])
    BY <1>6 DEF Visit
  <2>2. new \subseteq Tracked /\ live[i] \subseteq new
    BY <1>0, <1>1, <1>6 DEF Transfer, Ascending
  <2>3. /\ live' \in [Addr -> SUBSET Tracked] /\ changed' \in BOOLEAN
        /\ live'[i] = new /\ \A a \in Addr \ {i} : live'[a] = live[a]
    BY <1>1, <2>1, <2>2
  <2>4. \A a \in Addr : live[a] \subseteq live'[a]
    BY <2>2, <2>3
  <2> HIDE DEF new
  <2>5. Shape'
    BY <1>0, <1>1, <1>4, <2>3 DEF Shape
  <2>6. Ascending'
    <3> SUFFICES ASSUME NEW a \in Addr
                 PROVE  live'[a] \subseteq IF SecondSlot[a] THEN {} ELSE Transfer(a, live')
      BY <1>0, <1>2 DEF Ascending
    <3>1. CASE SecondSlot[a]
      BY <1>0, <1>6, <2>3, <3>1 DEF Ascending
    <3>2. CASE ~SecondSlot[a]
      <4>1. Transfer(a, live) \subseteq Transfer(a, live')
        BY <1>2, <2>4, <3>2, SuccInProgram, TransferMonotone
      <4>2. live'[a] \subseteq Transfer(a, live)
        BY <1>0, <2>3, <3>2 DEF Ascending, new
      <4> QED
        BY <3>2, <4>1, <4>2
    <3> QED
      BY <3>1, <3>2
  <2>7. Settled'
    <3> SUFFICES ASSUME changed' = FALSE, NEW a \in Addr, a > i - 1
                 PROVE  live'[a] = IF SecondSlot[a] THEN {} ELSE Transfer(a, live')
      BY <1>0, <1>2 DEF Settled, Equation
    <3>1. changed = FALSE /\ new = live[i]
      BY <1>1, <2>1
    <3>2. live' = live
      BY <1>1, <2>1, <3>1
    <3>3. a > i \/ a = i
      BY <1>1 DEF Addr
    <3>4. CASE a > i
      BY <1>0, <3>1, <3>2, <3>4 DEF Settled, Equation
    <3>5. CASE a = i
      BY <1>6, <3>1, <3>2, <3>5 DEF new
    <3> QED
      BY <3>3, <3>4, <3>5
  <2>8. Least'
    <3> SUFFICES ASSUME NEW l \in [Addr -> SUBSET Tracked], IsSolution(l)',
                        NEW a \in Addr
                 PROVE  live'[a] \subseteq l[a]
      BY <1>0 DEF Least
    <3>1. IsSolution(l)
      BY <1>0, <1>2 DEF IsSolution, Equation
    <3>2. \A b \in Addr : live[b] \subseteq l[b]
      BY <1>0, <3>1 DEF Least
    <3>3. new \subseteq Transfer(i, l)
      BY <1>1, <1>2, <1>6, <3>2, SuccInProgram, TransferMonotone DEF new
    <3>4. l[i] = Transfer(i, l)
      BY <1>1, <1>6, <3>1 DEF IsSolution, Equation
    <3> QED
      BY <2>3, <3>2, <3>3, <3>4
  <2>9. HasPath'
    <3> SUFFICES ASSUME NEW a \in Addr, NEW r \in live'[a]
                 PROVE  AnyReadFirst(a, r)
      BY <1>0, <1>2 DEF HasPath
    <3>1. \A b \in Addr : \A x \in live[b] : AnyReadFirst(b, x)
      BY <1>0, <1>1 DEF HasPath
    <3>2. CASE a = i
      BY <1>0, <1>1, <1>2, <1>6, <2>3, <3>1, <3>2, TransferHasPath DEF new
    <3>3. CASE a # i
      BY <2>3, <3>1, <3>3
    <3> QED
      BY <3>2, <3>3
  <2> QED
    BY <1>3, <2>4, <2>5, <2>6, <2>7, <2>8, <2>9 DEF IInv
<1> QED
  BY <1>5, <1>6

\* The comparison leaves the result alone.
LEMMA CompareStep == IInv /\ (CompareBegins \/ CompareRow \/ CompareEnds) => IInv'
<1> SUFFICES ASSUME IInv, CompareBegins \/ CompareRow \/ CompareEnds PROVE IInv'
  OBVIOUS
<1>0. /\ UNCHANGED <<prog, n, kfuncs, live, i, changed>>
      /\ pc \in {"done", "compare"} /\ pc' \in {"compare", "over"}
      /\ status' = status \/ status' = "unsupported"
      /\ Shape /\ Accepted /\ Settled /\ HasPath /\ Addr' = Addr
  BY DEF CompareBegins, CompareRow, CompareEnds, IInv, Addr
<1>1. /\ Least' /\ \A a \in Addr : Refused(a)' = Refused(a)
      /\ \A a \in Addr : \A r \in live[a] : AnyReadFirst(a, r)' <=> AnyReadFirst(a, r)
      /\ \A a \in Addr : Equation(a, live)' <=> Equation(a, live)
  BY <1>0, IdleStep
<1>2. Shape' /\ Ascending'
  BY <1>0 DEF Shape, Ascending
<1>3. Accepted' /\ HasPath'
  BY <1>0, <1>1 DEF Accepted, HasPath
<1>4. Settled'
  BY <1>0, <1>1 DEF Settled, IsSolution
<1> QED
  BY <1>1, <1>2, <1>3, <1>4 DEF IInv

\* Every step keeps IInv.
LEMMA NextIInv == IInv /\ [Next]_vars => IInv'
<1> SUFFICES ASSUME IInv, [Next]_vars PROVE IInv'
  OBVIOUS
<1>1. CASE UNCHANGED vars
  <2>1. UNCHANGED <<prog, n, kfuncs, live, i, changed, pc, status>> /\ Addr' = Addr
    BY <1>1 DEF vars, Addr
  <2>2. Least' /\ (\A a \in Addr : Refused(a)' = Refused(a))
        /\ (\A a \in Addr : Equation(a, live)' <=> Equation(a, live))
        /\ (\A a \in Addr : Transfer(a, live)' = Transfer(a, live))
        /\ (\A a \in Addr : \A r \in live[a] : AnyReadFirst(a, r)' <=> AnyReadFirst(a, r))
    BY <2>1, IdleStep
  <2>3. SecondSlot' = SecondSlot
    BY <2>1, SameSlots
  <2>4. Shape' /\ Accepted' /\ HasPath'
    BY <2>1, <2>2 DEF IInv, Shape, Accepted, HasPath
  <2>5. Ascending'
    BY <2>1, <2>2, <2>3 DEF IInv, Ascending
  <2>6. Settled'
    BY <2>1, <2>2 DEF IInv, Settled, IsSolution
  <2> QED
    BY <2>2, <2>4, <2>5, <2>6 DEF IInv
<1>2. CASE Next
  BY <1>2, RegisterStep, ScanStep, VisitStep, EndPassStep, CompareStep DEF Next, AnalysisStep, Analyse
<1> QED
  BY <1>1, <1>2

\* The invariant of the fixed-point iteration: what is live only ever comes
\* from paths, and never exceeds any solution of the equations.
THEOREM Invariance == Spec => []IInv
  BY InitIInv, NextIInv, PTL DEF Spec

-----------------------------------------------------------------------------
(* What the analysis promises of every program.                            *)

\* What is live before a comes from a path (see NoFalseClaim).
ClaimsHavePaths == HasPath

\* The direction a finding rests on: as long as the analysis has not refused
\* the program, some path from a reads each register live before a, and
\* assigns it nowhere on the way; whatever the guard or the kernel's table.
THEOREM NoFalseClaim == Spec => []ClaimsHavePaths
  BY Invariance, PTL DEF IInv, ClaimsHavePaths

\* bpflive.h:263-265: when the iteration ends because a pass changed nothing,
\* live_before solves the equations, and is below every solution.
LeastFixedPoint ==
  Analysed /\ changed = FALSE =>
    /\ IsSolution(live)
    /\ \A l \in [Addr -> SUBSET Tracked] :
         IsSolution(l) => \A a \in Addr : live[a] \subseteq l[a]

\* The analysis computes the least fixed point, for every program.
THEOREM LeastFixedPointReached == Spec => []LeastFixedPoint
<1>1. IInv => LeastFixedPoint
  BY DEF IInv, LeastFixedPoint, Settled, Least, Analysed
<1> QED
  BY <1>1, Invariance, PTL

\* A register the analysis calls dead cannot matter: what an instruction reads
\* is live before it, and what is live after it is live before it unless the
\* instruction assigns it, in the sense of the reference interpreter.
DeadDoesNotMatter ==
  Analysed /\ changed = FALSE =>
    \A a \in Addr : ~SecondSlot[a] =>
      /\ Reads(prog[a]) \cap Tracked \subseteq live[a]
      /\ \A b \in Succ(a) : live[b] \ Writes(prog[a]) \subseteq live[a]

\* The direction the kernel may err in without harm is never this file's.
THEOREM DeadIsDead == Spec => []DeadDoesNotMatter
<1>1. ASSUME IInv PROVE DeadDoesNotMatter
  <2> SUFFICES ASSUME Analysed, changed = FALSE, NEW a \in Addr, ~SecondSlot[a]
               PROVE  /\ Reads(prog[a]) \cap Tracked \subseteq live[a]
                      /\ \A b \in Succ(a) : live[b] \ Writes(prog[a]) \subseteq live[a]
    BY DEF DeadDoesNotMatter
  <2>1. /\ live[a] = Transfer(a, live) /\ prog[a] \in LiveInsn
        /\ live \in [Addr -> SUBSET Tracked] /\ ~Refused(a)
    BY <1>1, BpfliveAssumption
    DEF IInv, Shape, Accepted, Settled, IsSolution, Equation, Analysed
  <2>2. Reads(prog[a]) \subseteq Use(prog[a]) /\ Def(prog[a]) \subseteq Writes(prog[a]) \cup Use(prog[a])
    BY <2>1, UseDefSound
  <2>3. \A b \in Succ(a) : live[b] \subseteq Tracked
    BY <2>1, SuccInProgram
  <2> QED
    BY <2>1, <2>2, <2>3 DEF Transfer, After
<1> QED
  BY <1>1, Invariance, PTL

\* A register called live stays live until the analysis returns.
THEOREM LivenessIsMonotone == Spec => LiveOnlyGrows
<1>1. IInv /\ [Next]_vars => [\A a \in Addr : live[a] \subseteq live'[a]]_vars
  <2> SUFFICES ASSUME IInv, Next PROVE \A a \in Addr : live[a] \subseteq live'[a]
    OBVIOUS
  <2>1. CASE Visit
    BY <2>1, VisitStep
  <2>2. CASE live' = live
    BY <2>2
  <2> QED
    BY <2>1, <2>2 DEF Next, AnalysisStep, Analyse, RegisterKfunc, Scan, EndPass, CompareBegins,
                      CompareRow, CompareEnds
<1> QED
  BY <1>1, Invariance, PTL DEF Spec, LiveOnlyGrows

\* A registered kfunc keeps its arity, however many registrations follow.
THEOREM RegistrationsAreFinal == Spec => ArityIsStable
<1> DEFINE Table == /\ kfuncs \in Seq([id : Int, argc : Nat])
                    /\ \A x \in DOMAIN kfuncs : \A y \in DOMAIN kfuncs :
                         kfuncs[x].id = kfuncs[y].id => x = y
<1>1. Init => Table
  BY DEF Init
<1>2. Table /\ [Next]_vars => Table'
  <2> SUFFICES ASSUME Table, [Next]_vars PROVE Table'
    OBVIOUS
  <2>1. CASE UNCHANGED kfuncs
    BY <2>1
  <2>2. ASSUME NEW k \in Kfuncs, RegisterKfunc(k) PROVE Table'
    <3>1. CASE UNCHANGED kfuncs
      BY <3>1
    <3>2. CASE kfuncs' = Append(kfuncs, k) /\ Registered(k.id) = {}
      <4>1. k \in [id : Int, argc : Nat]
        BY BpfliveAssumption
      <4>2. \A x \in DOMAIN kfuncs : kfuncs[x].id # k.id
        BY <3>2 DEF Registered
      <4>3. kfuncs' \in Seq([id : Int, argc : Nat])
        BY <3>2, <4>1
      <4> QED
        BY <3>2, <4>1, <4>2, <4>3
    <3> QED
      BY <2>2, <3>1, <3>2 DEF RegisterKfunc
  <2> QED
    BY <2>1, <2>2 DEF Next, AnalysisStep, Analyse, Scan, Visit, EndPass, CompareBegins,
                      CompareRow, CompareEnds, vars
<1>3. Table /\ [Next]_vars =>
        [\A k \in Kfuncs : Arity[k] >= 0 => Arity'[k] = Arity[k]]_vars
  <2> SUFFICES ASSUME Table, Next, NEW k \in Kfuncs, Arity[k] >= 0
               PROVE  Arity'[k] = Arity[k]
    OBVIOUS
  <2>1. Arity[k] = KfuncArgc(k.id) /\ Arity'[k] = KfuncArgc(k.id)'
    BY DEF Arity
  <2>2. CASE UNCHANGED kfuncs
    BY <2>1, <2>2 DEF KfuncArgc, Registered
  <2>3. ASSUME NEW new \in Kfuncs, RegisterKfunc(new), kfuncs' # kfuncs
        PROVE  Arity'[k] = Arity[k]
    <3>1. kfuncs' = Append(kfuncs, new) /\ Registered(new.id) = {}
      BY <2>3 DEF RegisterKfunc
    <3>2. Registered(k.id) # {}
      BY <2>1 DEF KfuncArgc
    <3>3. new.id # k.id
      BY <3>1, <3>2
    <3>4. Registered(k.id)' = Registered(k.id)
      BY <3>1, <3>3, BpfliveAssumption DEF Registered
    <3>5. \A m \in Registered(k.id) : kfuncs'[m] = kfuncs[m]
      BY <3>1, BpfliveAssumption DEF Registered
    <3>6. PICK first \in Registered(k.id) :
            first = CHOOSE x \in Registered(k.id) : \A m \in Registered(k.id) : x <= m
      <4>1. PICK x \in Registered(k.id) : TRUE
        BY <3>2
      <4>2. \A m \in Registered(k.id) : x <= m
        BY DEF Registered
      <4> QED
        BY <4>2
    <3> QED
      BY <2>1, <3>2, <3>4, <3>5, <3>6 DEF KfuncArgc
  <2> QED
    BY <2>2, <2>3 DEF Next, AnalysisStep, Analyse, Scan, Visit, EndPass, CompareBegins,
                      CompareRow, CompareEnds
<1> QED
  BY <1>1, <1>2, <1>3, PTL DEF Spec, ArityIsStable

-----------------------------------------------------------------------------
(* The iteration converges before its guard runs out.                      *)

\* The smallest of a set of numbers is one of them, and is smallest.
LEMMA MinOfNats ==
  ASSUME NEW I \in SUBSET Nat, I # {}
  PROVE  Min(I) \in I /\ \A k \in I : Min(I) <= k
<1> DEFINE Below == {1 .. k : k \in I}
<1>1. Below \subseteq FiniteSubsetsOf(Nat) /\ Below # {}
  <2>1. \A k \in I : 1 .. k \subseteq Nat /\ IsFiniteSet(1 .. k)
    BY FS_Interval
  <2> QED
    BY <2>1 DEF FiniteSubsetsOf
<1>2. PICK B \in Below : \A C \in Below : <<C, B>> \notin StrictSubsetOrdering(Nat)
  <2> HIDE DEF Below
  <2>1. IsWellFoundedOn(StrictSubsetOrdering(Nat), FiniteSubsetsOf(Nat))
    BY FS_StrictSubsetOrderingWellFounded
  <2> QED
    BY <1>1, <2>1, WFMin
<1>3. PICK m \in I : B = 1 .. m
  OBVIOUS
<1>4. \A k \in I : m <= k
  <2> SUFFICES ASSUME NEW k \in I, k < m
               PROVE  FALSE
    OBVIOUS
  <2>1. 1 .. k \subseteq B /\ m \in B /\ m \notin 1 .. k
    BY <1>3
  <2>2. 1 .. k \in SUBSET Nat /\ B \in SUBSET Nat
    BY <1>3
  <2> QED
    BY <1>2, <2>1, <2>2 DEF StrictSubsetOrdering
<1> QED
  BY <1>4 DEF Min

\* A path that meets an instruction twice can leave out what is between.
LEMMA ShorterPath ==
  ASSUME NEW a \in Addr, NEW r, NEW m \in Nat,
         NEW p \in [0 .. m -> Addr], p[0] = a, ReadsAtEnd(p, m, r),
         NEW j \in 0 .. m, NEW k \in 0 .. m, j < k, p[j] = p[k]
  PROVE  \E l \in Nat : l < m /\ ReadAfter(a, r, l)
<1> DEFINE d == k - j
           l == m - d
           q == [x \in 0 .. l |-> IF x <= j THEN p[x] ELSE p[x + d]]
<1>1. d \in Nat /\ d > 0 /\ l \in Nat /\ l < m /\ j <= l
  OBVIOUS
<1>2. \A x \in 0 .. l : x \in 0 .. m /\ x + d \in 0 .. m
  OBVIOUS
<1>3. q \in [0 .. l -> Addr] /\ q[0] = a
  BY <1>1, <1>2
<1>4. \A x \in 0 .. l : x >= j => q[x] = p[x + d]
  <2> SUFFICES ASSUME NEW x \in 0 .. l, x >= j
               PROVE  q[x] = p[x + d]
    OBVIOUS
  <2>1. CASE x = j
    BY <2>1
  <2>2. CASE x # j
    BY <2>2
  <2> QED
    BY <2>1, <2>2
<1>5. \A x \in 0 .. l : x <= j => q[x] = p[x]
  OBVIOUS
<1> HIDE DEF q
<1>6. \A x \in 0 .. l : ~SecondSlot[q[x]]
  <2> TAKE x \in 0 .. l
  <2>1. q[x] = p[x] \/ q[x] = p[x + d]
    BY <1>4, <1>5
  <2> QED
    BY <1>2, <2>1 DEF ReadsAtEnd
<1>7. ASSUME NEW x \in 0 .. l - 1
      PROVE  q[x + 1] \in Succ(q[x]) /\ r \notin Writes(prog[q[x]])
  <2>1. x \in 0 .. l /\ x + 1 \in 0 .. l
    BY <1>1
  <2>2. CASE x < j
    <3>1. q[x] = p[x] /\ q[x + 1] = p[x + 1] /\ x \in 0 .. m - 1
      BY <1>1, <1>5, <2>1, <2>2
    <3> QED
      BY <3>1 DEF ReadsAtEnd
  <2>3. CASE x >= j
    <3>1. q[x] = p[x + d] /\ q[x + 1] = p[(x + d) + 1] /\ x + d \in 0 .. m - 1
      <4>1. (x + 1) + d = (x + d) + 1 /\ x + 1 >= j
        BY <2>3
      <4> QED
        BY <1>1, <1>4, <2>1, <2>3, <4>1
    <3> QED
      BY <3>1 DEF ReadsAtEnd
  <2> QED
    BY <2>2, <2>3
<1>8. r \in Reads(prog[q[l]])
  <2>1. l \in 0 .. l /\ l >= j /\ l + d = m
    BY <1>1
  <2>2. q[l] = p[m]
    BY <1>4, <2>1
  <2> QED
    BY <2>2 DEF ReadsAtEnd
<1>9. ReadsAtEnd(q, l, r)
  BY <1>6, <1>7, <1>8 DEF ReadsAtEnd
<1> HIDE DEF l
<1> QED
  BY <1>1, <1>3, <1>9 DEF ReadAfter

\* A register that is read first on some path is so on one that meets no
\* instruction twice.
LEMMA ShortPath ==
  ASSUME Shape, NEW a \in Addr, NEW r, AnyReadFirst(a, r)
  PROVE  \E m \in 0 .. n - 1 : ReadAfter(a, r, m)
<1>1. n \in Nat /\ Addr = 0 .. n - 1
  BY DEF Shape, Addr
<1> DEFINE I == {m \in Nat : ReadAfter(a, r, m)}
<1>2. I # {} /\ I \in SUBSET Nat
  BY DEF AnyReadFirst, ReadFirstIn, ReadAfter
<1>3. PICK m \in I : \A k \in I : m <= k
  BY <1>2, MinOfNats
<1>4. m \in Nat /\ ReadAfter(a, r, m) /\ \A k \in Nat : ReadAfter(a, r, k) => m <= k
  BY <1>3
<1> HIDE DEF I
<1>5. PICK p \in [0 .. m -> Addr] : p[0] = a /\ ReadsAtEnd(p, m, r)
  BY <1>4 DEF ReadAfter
<1>6. m <= n - 1
  <2> SUFFICES ASSUME m > n - 1
               PROVE  FALSE
    BY <1>1, <1>4
  <2>1. /\ IsFiniteSet(0 .. m) /\ Cardinality(0 .. m) = m + 1
        /\ IsFiniteSet(Addr) /\ Cardinality(Addr) = n
    BY <1>1, <1>4, FS_Interval
  <2>5. Cardinality(Addr) < Cardinality(0 .. m)
    BY <1>1, <1>4, <2>1
  <2>6. \E x, y \in 0 .. m : x # y /\ p[x] = p[y]
    BY <1>5, <2>1, <2>5, FS_PigeonHole, ZenonT(30)
  <2>2. PICK x, y \in 0 .. m : x # y /\ p[x] = p[y]
    BY <2>6
  <2>3. CASE x < y
    BY <1>4, <1>5, <2>2, <2>3, ShorterPath
  <2>4. CASE y < x
    BY <1>4, <1>5, <2>2, <2>4, ShorterPath
  <2> QED
    BY <1>4, <2>2, <2>3, <2>4
<1> QED
  BY <1>1, <1>4, <1>6

\* The first step of a path.
LEMMA FirstStep ==
  ASSUME NEW a \in Addr, NEW r, NEW m \in Nat, ReadAfter(a, r, m)
  PROVE  /\ ~SecondSlot[a]
         /\ m = 0 => r \in Reads(prog[a])
         /\ m > 0 => /\ r \notin Writes(prog[a])
                     /\ \E b \in Addr : b \in Succ(a) /\ ReadAfter(b, r, m - 1)
<1>1. PICK p \in [0 .. m -> Addr] : p[0] = a /\ ReadsAtEnd(p, m, r)
  BY DEF ReadAfter
<1>2. ~SecondSlot[a] /\ (m = 0 => r \in Reads(prog[a]))
  BY <1>1 DEF ReadsAtEnd
<1>3. ASSUME m > 0
      PROVE  /\ r \notin Writes(prog[a])
             /\ \E b \in Addr : b \in Succ(a) /\ ReadAfter(b, r, m - 1)
  <2> DEFINE q == [x \in 0 .. m - 1 |-> p[x + 1]]
  <2>1. m - 1 \in Nat /\ \A x \in 0 .. m - 1 : x + 1 \in 0 .. m
    BY <1>3
  <2>2. q \in [0 .. m - 1 -> Addr] /\ q[0] = p[1] /\ p[1] \in Addr
    BY <1>3, <2>1
  <2>3. p[1] \in Succ(a) /\ r \notin Writes(prog[a])
    <3>1. 0 \in 0 .. m - 1 /\ 0 + 1 = 1
      BY <2>1
    <3> QED
      BY <1>1, <3>1 DEF ReadsAtEnd
  <2>4. \A x \in 0 .. m - 1 : q[x] = p[x + 1]
    OBVIOUS
  <2> HIDE DEF q
  <2>5. \A x \in 0 .. m - 1 : ~SecondSlot[q[x]]
    BY <1>1, <2>1, <2>4 DEF ReadsAtEnd
  <2>6. ASSUME NEW x \in 0 .. (m - 1) - 1
        PROVE  q[x + 1] \in Succ(q[x]) /\ r \notin Writes(prog[q[x]])
    <3>1. x \in 0 .. m - 1 /\ x + 1 \in 0 .. m - 1
      BY <2>1
    <3> QED
      BY <1>1, <2>4, <3>1 DEF ReadsAtEnd
  <2>7. r \in Reads(prog[q[m - 1]])
    <3>1. m - 1 \in 0 .. m - 1 /\ (m - 1) + 1 = m
      BY <2>1
    <3> QED
      BY <1>1, <2>4, <3>1 DEF ReadsAtEnd
  <2>8. ReadsAtEnd(q, m - 1, r)
    BY <2>5, <2>6, <2>7 DEF ReadsAtEnd
  <2> QED
    BY <2>2, <2>3, <2>8 DEF ReadAfter
<1> QED
  BY <1>2, <1>3

\* Before sweep number `pass`, all that is read within `pass` steps is live, and
\* of the instructions the sweep has passed all that is read within one more.
Swept ==
  pc = "visit" =>
    \A a \in Addr : \A r \in Tracked : \A m \in Nat :
      ReadAfter(a, r, m) /\ (m < pass \/ (m = pass /\ a > i)) => r \in live[a]

\* From sweep number n on nothing is left to change, so the guard, which allows
\* four times as many, ends no iteration.
Quiet ==
  /\ pc = "setup" => pass = 0
  /\ pc = "visit" => n <= MaxInsn /\ pass \in Nat /\ (pass >= n => changed = FALSE)
  /\ pc \notin {"setup", "visit"} /\ status = "ok" => changed = FALSE

\* What is read on a path of one step more is in the equation, once what is
\* read on shorter ones is live.
LEMMA TransferHasReads ==
  ASSUME Shape, NEW a \in Addr, NEW r \in Tracked, NEW m \in Nat, ReadAfter(a, r, m),
         \A b \in Addr : \A k \in Nat : ReadAfter(b, r, k) /\ k < m => r \in live[b]
  PROVE  r \in Transfer(a, live)
<1>1. prog[a] \in LiveInsn
  BY DEF Shape
<1>2. /\ Reads(prog[a]) \subseteq Use(prog[a])
      /\ Def(prog[a]) \subseteq Writes(prog[a]) \cup Use(prog[a])
  BY <1>1, UseDefSound
<1>3. CASE m = 0
  BY <1>2, <1>3, FirstStep DEF Transfer
<1>4. CASE m > 0
  <2>1. PICK b \in Addr : b \in Succ(a) /\ ReadAfter(b, r, m - 1)
    BY <1>4, FirstStep
  <2>2. r \in live[b] /\ r \notin Writes(prog[a])
    BY <1>4, <2>1, FirstStep
  <2> QED
    BY <1>2, <2>1, <2>2 DEF Transfer, After
<1> QED
  BY <1>3, <1>4

\* The sweep's invariant: before the first pass nothing was swept.
LEMMA InitQuiet == Init => Swept /\ Quiet
  BY DEF Init, Swept, Quiet

\* A visit adds the instruction to those swept.
LEMMA SweptVisit == IInv /\ Swept /\ Visit => Swept'
<1> SUFFICES ASSUME IInv, Swept, Visit
             PROVE  Swept'
  OBVIOUS
<1> SUFFICES ASSUME NEW a \in Addr, NEW r \in Tracked, NEW m \in Nat,
                    ReadAfter(a, r, m), m < pass \/ (m = pass /\ a > i')
             PROVE  r \in live'[a]
  <2>1. UNCHANGED <<prog, n, kfuncs, pass>> /\ Addr' = Addr
    BY DEF Visit, Addr
  <2>2. \A a \in Addr : \A r \in Tracked : \A m \in Nat :
          ReadAfter(a, r, m)' <=> ReadAfter(a, r, m)
    BY <2>1, SameLength
  <2> QED
    BY <2>1, <2>2 DEF Swept
<1>1. /\ pc = "visit" /\ i \in Addr /\ n \in Nat /\ i' = i - 1
      /\ live \in [Addr -> SUBSET Tracked] /\ Shape
  BY DEF IInv, Shape, Visit, Addr
<1>2. \A b \in Addr : live[b] \subseteq live'[b]
  BY VisitStep
<1>3. CASE m < pass \/ (m = pass /\ a > i)
  BY <1>1, <1>2, <1>3 DEF Swept
<1>4. CASE m = pass /\ a = i
  <2>1. ~SecondSlot[a]
    BY FirstStep
  <2>2. live'[a] = Transfer(a, live)
    BY <1>1, <1>4, <2>1 DEF Visit
  <2>3. \A b \in Addr : \A k \in Nat : ReadAfter(b, r, k) /\ k < m => r \in live[b]
    BY <1>1, <1>4 DEF Swept
  <2> QED
    BY <1>1, <2>2, <2>3, TransferHasReads
<1>5. m < pass \/ (m = pass /\ (a > i \/ a = i))
  BY <1>1 DEF Addr
<1> QED
  BY <1>3, <1>4, <1>5

\* A visit that changes nothing leaves its instruction's equation true.
LEMMA QuietVisit == IInv /\ Swept /\ Quiet /\ Visit => Quiet'
<1> SUFFICES ASSUME IInv, Swept, Quiet, Visit, pass >= n
             PROVE  changed' = FALSE
  BY DEF Visit, Quiet
<1>1. /\ pc = "visit" /\ i \in Addr /\ n \in Nat /\ pass \in Nat /\ changed = FALSE
      /\ live \in [Addr -> SUBSET Tracked] /\ Shape
  BY DEF IInv, Shape, Visit, Addr, Quiet
<1>2. CASE SecondSlot[i]
  BY <1>1, <1>2 DEF Visit
<1>3. CASE ~SecondSlot[i]
  <2>1. changed' = (changed \/ Transfer(i, live) # live[i])
    BY <1>3 DEF Visit
  <2>2. live[i] \subseteq Transfer(i, live)
    BY <1>1, <1>3 DEF IInv, Ascending
  <2>3. ASSUME NEW r \in Transfer(i, live)
        PROVE  r \in live[i]
    <3>0. ~Refused(i) /\ \A b \in Addr : \A x \in live[b] : AnyReadFirst(b, x)
      BY <1>1 DEF IInv, Shape, Accepted, HasPath
    <3>1. AnyReadFirst(i, r)
      BY <1>1, <1>3, <2>3, <3>0, TransferHasPath
    <3>2. PICK m \in 0 .. n - 1 : ReadAfter(i, r, m)
      BY <1>1, <3>1, ShortPath
    <3>3. m \in Nat /\ m < pass /\ r \in Tracked
      BY <1>1 DEF Transfer
    <3> QED
      BY <1>1, <3>2, <3>3 DEF Swept
  <2>4. Transfer(i, live) = live[i]
    BY <2>2, <2>3
  <2> QED
    BY <1>1, <2>1, <2>4
<1> QED
  BY <1>2, <1>3

\* One more sweep reaches the reads one edge further.
LEMMA EndPassQuiet == IInv /\ Swept /\ Quiet /\ EndPass => Swept' /\ Quiet'
<1> SUFFICES ASSUME IInv, Swept, Quiet, EndPass
             PROVE  Swept' /\ Quiet'
  OBVIOUS
<1>1. /\ UNCHANGED <<prog, n, kfuncs, live, status>> /\ Addr' = Addr
      /\ pc = "visit" /\ i < 0 /\ pass' = pass + 1 /\ pass \in Nat
      /\ n \in Nat /\ n <= MaxInsn /\ i \in Int
      /\ changed \in BOOLEAN /\ (pass >= n => changed = FALSE)
  BY DEF EndPass, IInv, Shape, Quiet, Addr
<1>2. \/ /\ changed /\ pc' = "visit" /\ i' = n - 1 /\ changed' = FALSE
      \/ /\ ~(changed /\ pass + 1 < Guard)
         /\ pc' = "done" /\ UNCHANGED <<i, changed>>
  BY <1>1 DEF EndPass
<1>3. Swept'
  <2> SUFFICES ASSUME NEW a \in Addr, NEW r \in Tracked, NEW m \in Nat, pc' = "visit",
                      ReadAfter(a, r, m), m < pass' \/ (m = pass' /\ a > i')
               PROVE  r \in live[a]
    <3>1. \A a \in Addr : \A r \in Tracked : \A m \in Nat :
            ReadAfter(a, r, m)' <=> ReadAfter(a, r, m)
      BY <1>1, SameLength
    <3> QED
      BY <1>1, <3>1 DEF Swept
  <2>1. a \in 0 .. n - 1 /\ i' = n - 1
    BY <1>1, <1>2 DEF Addr
  <2>2. m < pass \/ (m = pass /\ a > i)
    BY <1>1, <2>1
  <2> QED
    BY <1>1, <2>2 DEF Swept
<1>4. Quiet'
  <2>1. CASE pc' = "visit"
    BY <1>1, <1>2, <2>1 DEF Quiet
  <2>2. CASE pc' = "done"
    <3>1. MaxInsn \in Nat /\ MaxInsn > 0
      BY BpfliveAssumption
    <3>2. changed => pass < n
      BY <1>1
    <3>3. pass < n => pass + 1 < Guard
      BY <1>1, <3>1 DEF Guard
    <3> QED
      BY <1>1, <1>2, <2>2, <3>2, <3>3 DEF Quiet
  <2> QED
    BY <1>2, <2>1, <2>2
<1> QED
  BY <1>3, <1>4

\* Every step keeps Swept and Quiet.
LEMMA QuietStep == IInv /\ Swept /\ Quiet /\ [Next]_vars => Swept' /\ Quiet'
<1> SUFFICES ASSUME IInv, Swept, Quiet, [Next]_vars
             PROVE  Swept' /\ Quiet'
  OBVIOUS
<1>1. CASE UNCHANGED vars
  <2>1. UNCHANGED <<prog, n, kfuncs, live, i, changed, pc, status, pass>> /\ Addr' = Addr
    BY <1>1 DEF vars, Addr
  <2>2. \A a \in Addr : \A r \in Tracked : \A m \in Nat :
          ReadAfter(a, r, m)' <=> ReadAfter(a, r, m)
    BY <2>1, SameLength
  <2> QED
    BY <2>1, <2>2 DEF Swept, Quiet
<1>2. ASSUME NEW k \in Kfuncs, RegisterKfunc(k)
      PROVE  Swept' /\ Quiet'
  BY <1>2 DEF RegisterKfunc, Swept, Quiet
<1>3. CASE Scan
  <2>1. /\ pc = "setup" /\ pass = 0 /\ changed = FALSE /\ i = n - 1 /\ n \in Nat
        /\ UNCHANGED <<n, live, i, changed, pass>>
        /\ \/ pc' = "done" /\ status' = "unsupported"
           \/ pc' = "visit" /\ n <= MaxInsn
    BY <1>3, BpfliveAssumption DEF Scan, IInv, Shape, Quiet
  <2>2. \A a \in Addr' : ~(a > i') /\ pass' = 0
    BY <2>1 DEF Addr
  <2>3. Swept'
    BY <2>1, <2>2 DEF Swept
  <2> QED
    BY <2>1, <2>3 DEF Quiet
<1>4. CASE Visit
  BY <1>4, SweptVisit, QuietVisit
<1>5. CASE EndPass
  BY <1>5, EndPassQuiet
<1>6. CASE CompareBegins \/ CompareRow \/ CompareEnds
  <2>1. /\ changed' = changed /\ pc \in {"done", "compare"} /\ pc' \in {"compare", "over"}
        /\ status' = status \/ status' = "unsupported"
    BY <1>6 DEF CompareBegins, CompareRow, CompareEnds
  <2> QED
    BY <2>1 DEF Swept, Quiet
<1> QED
  BY <1>1, <1>2, <1>3, <1>4, <1>5, <1>6 DEF Next, AnalysisStep, Analyse

\* The iteration converges: when the analysis of a program returns, the last
\* sweep changed nothing, so its answer is the least fixed point.
Converges == Analysed => changed = FALSE /\ IsSolution(live)

\* The guard of four sweeps for every instruction a program may have never cuts
\* the iteration short, for programs of any length and any jumps.
THEOREM GuardCutsNothing == Spec => []Converges
<1>1. Spec => [](Swept /\ Quiet)
  BY InitQuiet, QuietStep, Invariance, PTL DEF Spec
<1>2. IInv /\ Quiet => Converges
  BY DEF IInv, Settled, Quiet, Converges, Analysed
<1> QED
  BY <1>1, <1>2, Invariance, PTL

\* Where the equations hold, what is read first on a path is live at its start.
LEMMA SolutionHasReads ==
  ASSUME IInv, Analysed, IsSolution(live), NEW a \in Addr, NEW r \in Tracked, NEW m \in Nat,
         ReadAfter(a, r, m)
  PROVE  r \in live[a]
<1> DEFINE Missed == {k \in Nat : \E b \in Addr : ReadAfter(b, r, k) /\ r \notin live[b]}
<1>1. Missed = {}
  <2> SUFFICES ASSUME Missed # {}
               PROVE  FALSE
    OBVIOUS
  <2>1. PICK k \in Missed : \A l \in Missed : k <= l
    BY MinOfNats
  <2>2. PICK b \in Addr : ReadAfter(b, r, k) /\ r \notin live[b]
    BY <2>1
  <2>3. \A c \in Addr : \A l \in Nat : ReadAfter(c, r, l) /\ l < k => r \in live[c]
    BY <2>1
  <2>4. ~SecondSlot[b] /\ k \in Nat
    BY <2>2, FirstStep
  <2> HIDE DEF Missed
  <2>5. r \in Transfer(b, live)
    BY <2>2, <2>3, <2>4, TransferHasReads DEF IInv
  <2> QED
    BY <2>2, <2>4, <2>5 DEF IsSolution, Equation
<1> QED
  BY <1>1

\* The analysis is exact, for every program it accepts: a register is in
\* live_before of an instruction if and only if some path from there reads it
\* before assigning it.
THEOREM AnalysisIsExact == Spec => []LiveIsExact
<1>1. IInv /\ Converges => LiveIsExact
  <2> SUFFICES ASSUME IInv, Converges, Analysed, NEW a \in Addr
               PROVE  live[a] = {r \in Tracked : ReadFirst(a, r)}
    BY DEF LiveIsExact
  <2>1. /\ Shape /\ n \in Nat /\ live[a] \subseteq Tracked
        /\ \A r \in live[a] : AnyReadFirst(a, r)
    BY DEF IInv, Shape, HasPath, Analysed
  <2>2. ASSUME NEW r \in live[a]
        PROVE  ReadFirst(a, r)
    BY <2>1, <2>2, ShortPath DEF ReadFirst, ReadFirstIn, ReadAfter
  <2>3. ASSUME NEW r \in Tracked, ReadFirst(a, r)
        PROVE  r \in live[a]
    <3>1. PICK m \in 0 .. n - 1 : ReadAfter(a, r, m)
      BY <2>3 DEF ReadFirst, ReadFirstIn, ReadAfter
    <3>2. m \in Nat
      BY <2>1
    <3> QED
      BY <3>1, <3>2, SolutionHasReads DEF Converges
  <2> QED
    BY <2>1, <2>2, <2>3
<1> QED
  BY <1>1, GuardCutsNothing, Invariance, PTL

-----------------------------------------------------------------------------
(* The comparison with the kernel's table.                                 *)

\* Before the comparison there is neither a table nor a count; there is one only
\* of a program that was analysed.
Uncompared ==
  /\ pc \in {"setup", "visit", "done"} => table = << >> /\ row = 0 /\ cmp = NoCmp
  /\ pc = "compare" \/ row > 0 => status = "ok"

\* What has been counted so far is of the rows read so far, and the first cell
\* is the first of theirs.
Tally ==
  /\ cmp.rows = Cardinality(Paired)
  /\ cmp.overreach = Cardinality(OverCells)
  /\ cmp.overreach = 0 <=> cmp.first = NoCell
  /\ cmp.overreach > 0 =>
       \E c \in OverCells :
         /\ cmp.first = <<table[c[1]].idx, c[2]>>
         /\ \A d \in OverCells : c[1] < d[1] \/ (c[1] = d[1] /\ c[2] <= d[2])

\* The guard is never passed.
InGuard == pc \in {"setup", "visit"} => pass < Guard

CInv == TypeOK /\ InGuard /\ Uncompared /\ Tally

\* Facts about finite sets and sequences.
LEMMA TrackedIsFinite == IsFiniteSet(Tracked)
<1>1. 0 \in Int /\ 9 \in Int
  OBVIOUS
<1>2. IsFiniteSet(0 .. 9)
  BY <1>1, FS_Interval
<1> QED
  BY <1>2 DEF Tracked

\* An element of a sequence is of its set.
LEMMA ElementOfSeq ==
  ASSUME NEW T, NEW s \in Seq(T), NEW j \in 1 .. Len(s)
  PROVE  s[j] \in T
  OBVIOUS

\* A function on 1 .. m is a sequence.
LEMMA SeqOfFunction ==
  ASSUME NEW T, NEW k \in Nat, NEW f \in [1 .. k -> T]
  PROVE  f \in Seq(T)
  OBVIOUS

\* The cells of one row are finitely many.
LEMMA CellsOfRow ==
  ASSUME NEW k, NEW S, IsFiniteSet(S)
  PROVE  IsFiniteSet({k} \X S) /\ Cardinality({k} \X S) = Cardinality(S)
<1> DEFINE T == {k} \X S
           f == [x \in S |-> <<k, x>>]
<1>1. f \in [S -> T] /\ (\A x, y \in S : f[x] = f[y] => x = y)
      /\ (\A t \in T : \E x \in S : f[x] = t)
  OBVIOUS
<1> HIDE DEF f, T
<1>2. ExistsBijection(S, T)
  <2>1. f \in Bijection(S, T)
    BY <1>1 DEF Bijection, Injection, Surjection, IsInjective
  <2> QED
    BY <2>1 DEF ExistsBijection
<1> USE DEF T
<1> QED
  BY <1>2, FS_Bijection

\* Nothing is counted of no rows.
LEMMA NoRowsNoCells ==
  ASSUME row = 0, cmp = NoCmp
  PROVE  Tally
<1>1. Paired = {} /\ OverCells = {}
  BY DEF Paired, OverCells
<1> QED
  BY <1>1, FS_EmptySet DEF Tally, NoCmp

\* A count of nothing is right where no row was read.
LEMMA NoRowsStill ==
  ASSUME row' = 0, cmp' = NoCmp
  PROVE  Tally'
<1>1. Paired' = {} /\ OverCells' = {}
  BY DEF Paired, OverCells
<1> QED
  BY <1>1, FS_EmptySet DEF Tally, NoCmp

\* CInv holds before the analysis, and each step keeps it.
LEMMA InitCInv == Init => CInv
<1> SUFFICES ASSUME Init
             PROVE  CInv
  OBVIOUS
<1>1. /\ n \in Nat /\ Addr = 0 .. n - 1 /\ DOMAIN prog = Addr /\ MaxInsn \in Nat /\ MaxInsn > 0
      /\ MaxKfunc \in Nat
  BY BpfliveAssumption DEF Init, Addr
<1>2. TypeOK
  <2>1. /\ i \in -1 .. n - 1 /\ 0 \in 0 .. Guard /\ -1 \in -1 .. n - 1
        /\ live \in [Addr -> SUBSET Tracked]
    BY <1>1 DEF Init, Guard
  <2>2. /\ << >> \in Seq(Kfuncs) /\ Len(<< >>) = 0
        /\ << >> \in Seq([idx : 0 .. n, mask : Masks])
    OBVIOUS
  <2>3. /\ NoCmp.rows \in 0 .. 0 /\ NoCmp.checked \in Nat /\ NoCmp.overreach \in 0 .. NoCmp.checked
        /\ NoCmp.first \in {NoCell} /\ Len(<< >>) = 0 /\ 0 \in 0 .. 0
    BY DEF NoCmp
  <2>4. /\ prog \in Programs /\ kfuncs = << >> /\ pc = "setup" /\ status = "ok" /\ at = -1
        /\ changed = FALSE /\ pass = 0 /\ table = << >> /\ row = 0 /\ cmp = NoCmp
    BY DEF Init
  <2>5. kfuncs \in Seq(Kfuncs) /\ Len(kfuncs) <= MaxKfunc
    BY <1>1, <2>2, <2>4
  <2>6. table \in Seq([idx : 0 .. n, mask : Masks]) /\ row \in 0 .. Len(table)
    BY <2>2, <2>4
  <2>7. /\ cmp.rows \in 0 .. row /\ cmp.checked \in Nat /\ cmp.overreach \in 0 .. cmp.checked
        /\ cmp.first \in {NoCell} \cup (Addr \X Tracked)
    BY <2>3, <2>4
  <2> QED
    BY <1>1, <2>1, <2>4, <2>5, <2>6, <2>7 DEF TypeOK
<1>3. InGuard /\ Uncompared
  BY <1>1 DEF Init, InGuard, Uncompared, Guard
<1>4. Tally
  BY NoRowsNoCells DEF Init
<1> QED
  BY <1>2, <1>3, <1>4 DEF CInv

\* One row of the table adds its own cells to the count and no other.
LEMMA CompareRowStep == IInv /\ CInv /\ CompareRow => TypeOK' /\ Tally'
<1> SUFFICES ASSUME IInv, CInv, CompareRow
             PROVE  TypeOK' /\ Tally'
  OBVIOUS
<1> DEFINE k == row + 1
           r == table[k]
           over == live[r.idx] \ r.mask
<1>1. /\ TypeOK /\ Tally /\ n \in Nat /\ row \in Nat
      /\ k \in 1 .. Len(table) /\ row' = k
      /\ UNCHANGED <<prog, n, kfuncs, pc, status, at, live, i, changed, pass, table>>
      /\ Addr' = Addr /\ Paired \in SUBSET (1 .. row)
  <2>1. TypeOK /\ Tally /\ n \in Nat
    BY DEF CInv, IInv, Shape
  <2>2. row \in Nat
    BY <2>1 DEF TypeOK
  <2>3. /\ k <= Len(table) /\ row' = k
        /\ UNCHANGED <<prog, n, kfuncs, pc, status, at, live, i, changed, pass, table>>
    BY <2>2 DEF CompareRow
  <2>4. table \in Seq([idx : 0 .. n, mask : Masks])
    BY <2>1 DEF TypeOK
  <2>5. Len(table) \in Nat
    BY <2>4
  <2>6. k \in 1 .. Len(table)
    BY <2>2, <2>3, <2>5
  <2>7. Addr' = Addr
    BY <2>3 DEF Addr
  <2>8. Paired \in SUBSET (1 .. row)
    BY DEF Paired
  <2> QED
    BY <2>1, <2>2, <2>3, <2>6, <2>7, <2>8
<1>2. r \in [idx : 0 .. n, mask : Masks]
  <2>1. table \in Seq([idx : 0 .. n, mask : Masks])
    BY <1>1 DEF TypeOK
  <2> QED
    BY <1>1, <2>1, ElementOfSeq
<1>3. IsFiniteSet(Paired) /\ IsFiniteSet(OverCells)
  <2>1. IsFiniteSet(1 .. row) /\ IsFiniteSet(Tracked)
    BY <1>1, TrackedIsFinite, FS_Interval
  <2>2. IsFiniteSet(Paired)
    BY <1>1, <2>1, FS_Subset
  <2>3. IsFiniteSet(Paired \X Tracked)
    BY <2>1, <2>2, FS_Product
  <2>4. OverCells \in SUBSET (Paired \X Tracked)
    BY DEF OverCells
  <2> QED
    BY <2>2, <2>3, <2>4, FS_Subset
<1>4. CASE r.idx \notin Addr
  <2>1. cmp' = cmp
    BY <1>4 DEF CompareRow
  <2>2. Paired' = Paired
    BY <1>1, <1>4 DEF Paired
  <2>3. OverCells' = OverCells
    BY <1>1, <2>2 DEF OverCells
  <2>4. Tally'
    BY <1>1, <2>1, <2>2, <2>3 DEF Tally
  <2>5. TypeOK'
    BY <1>1, <2>1 DEF TypeOK
  <2> QED
    BY <2>4, <2>5
<1>5. CASE r.idx \in Addr
  <2>1. cmp' = [rows |-> cmp.rows + 1,
                checked |-> cmp.checked + Cardinality(live[r.idx]),
                overreach |-> cmp.overreach + Cardinality(over),
                first |-> FirstCell(cmp.first, over, r.idx)]
    BY <1>5 DEF CompareRow
  <2>2. live[r.idx] \in SUBSET Tracked /\ over \in SUBSET live[r.idx]
    BY <1>1, <1>5 DEF TypeOK
  <2>3. /\ IsFiniteSet(live[r.idx]) /\ IsFiniteSet(over)
        /\ Cardinality(live[r.idx]) \in Nat /\ Cardinality(over) \in Nat
        /\ Cardinality(over) <= Cardinality(live[r.idx])
    <3>1. IsFiniteSet(live[r.idx])
      BY <2>2, TrackedIsFinite, FS_Subset
    <3> QED
      BY <2>2, <3>1, FS_Subset, FS_CardinalityType
  <2>4. Paired' = Paired \cup {k} /\ k \notin Paired
    BY <1>1, <1>5 DEF Paired
  <2>5. OverCells' = OverCells \cup ({k} \X over) /\ OverCells \cap ({k} \X over) = {}
    <3>1. OverCells' = {c \in Paired' \X Tracked :
                          c[2] \in live[table[c[1]].idx] /\ c[2] \notin table[c[1]].mask}
      BY <1>1 DEF OverCells
    <3> QED
      BY <2>2, <2>4, <3>1 DEF OverCells
  <2>6. Cardinality(Paired') = Cardinality(Paired) + 1
    BY <1>3, <2>4, FS_AddElement
  <2>7. Cardinality(OverCells') = Cardinality(OverCells) + Cardinality(over)
    <3>1. IsFiniteSet({k} \X over) /\ Cardinality({k} \X over) = Cardinality(over)
      BY <2>3, CellsOfRow
    <3>2. Cardinality(OverCells \cap ({k} \X over)) = 0
      BY <2>5, FS_EmptySet
    <3>3. Cardinality(OverCells \cup ({k} \X over)) =
            Cardinality(OverCells) + Cardinality({k} \X over) - 0
      BY <1>3, <3>1, <3>2, FS_Union
    <3>4. Cardinality(OverCells) \in Nat
      BY <1>3, FS_CardinalityType
    <3> QED
      BY <2>3, <2>5, <3>1, <3>3, <3>4
  <2>8. cmp.first # NoCell \/ over = {} => cmp'.first = cmp.first
    BY <2>1 DEF FirstCell
  <2>9. ~(cmp.first # NoCell \/ over = {}) =>
          cmp'.first = <<r.idx, Min(over)>> /\ Min(over) \in over
          /\ \A x \in over : Min(over) <= x
    <3>1. over \in SUBSET Nat
      BY <2>2 DEF Tracked
    <3> QED
      BY <2>1, <3>1, MinOfNats DEF FirstCell
  <2>10. /\ cmp'.rows = cmp.rows + 1 /\ cmp'.overreach = cmp.overreach + Cardinality(over)
         /\ cmp'.checked = cmp.checked + Cardinality(live[r.idx])
    BY <2>1
  <2>11. /\ cmp.overreach \in Nat /\ cmp.checked \in Nat /\ cmp.overreach <= cmp.checked
         /\ cmp.rows \in 0 .. row /\ cmp.first \in {NoCell} \cup (Addr \X Tracked)
         /\ cmp.rows = Cardinality(Paired) /\ cmp.overreach = Cardinality(OverCells)
    BY <1>1 DEF TypeOK, Tally
  <2>12. TypeOK'
    <3>1. cmp'.first \in {NoCell} \cup (Addr \X Tracked)
      <4>1. CASE cmp.first # NoCell \/ over = {}
        BY <2>8, <2>11, <4>1
      <4>2. CASE ~(cmp.first # NoCell \/ over = {})
        <5>1. cmp'.first = <<r.idx, Min(over)>> /\ Min(over) \in Tracked
          BY <2>2, <2>9, <4>2
        <5> QED
          BY <1>5, <5>1
      <4> QED
        BY <4>1, <4>2
    <3>2. /\ cmp'.rows \in 0 .. row' /\ cmp'.checked \in Nat
          /\ cmp'.overreach \in 0 .. cmp'.checked /\ row' \in 0 .. Len(table)
      BY <1>1, <2>3, <2>10, <2>11
    <3> QED
      BY <1>1, <3>1, <3>2 DEF TypeOK
  <2> HIDE DEF over, r, k
  <2>13. Cardinality(over) = 0 <=> over = {}
    BY <2>3, FS_EmptySet
  <2>14. cmp'.overreach = 0 <=> cmp'.first = NoCell
    <3>1. CASE over = {}
      BY <1>1, <2>8, <2>10, <2>11, <2>13, <3>1 DEF Tally
    <3>2. CASE over # {} /\ cmp.first # NoCell
      BY <1>1, <2>3, <2>8, <2>10, <2>11, <3>2 DEF Tally
    <3>3. CASE over # {} /\ cmp.first = NoCell
      <4>1. cmp'.overreach # 0
        BY <2>3, <2>10, <2>11, <2>13, <3>3
      <4>2. cmp'.first # NoCell
        BY <1>1, <1>5, <2>9, <3>3 DEF NoCell, Addr
      <4> QED
        BY <4>1, <4>2
    <3> QED
      BY <3>1, <3>2, <3>3
  <2>15. cmp'.overreach > 0 =>
           \E c \in OverCells' :
             /\ cmp'.first = <<table[c[1]].idx, c[2]>>
             /\ \A d \in OverCells' : c[1] < d[1] \/ (c[1] = d[1] /\ c[2] <= d[2])
    <3> SUFFICES ASSUME cmp'.overreach > 0
                 PROVE  \E c \in OverCells' :
                          /\ cmp'.first = <<table[c[1]].idx, c[2]>>
                          /\ \A d \in OverCells' : c[1] < d[1] \/ (c[1] = d[1] /\ c[2] <= d[2])
      OBVIOUS
    <3>1. CASE cmp.first # NoCell
      <4>1. cmp.overreach > 0
        BY <1>1, <2>11, <3>1 DEF Tally
      <4>2. PICK c \in OverCells :
               /\ cmp.first = <<table[c[1]].idx, c[2]>>
               /\ \A d \in OverCells : c[1] < d[1] \/ (c[1] = d[1] /\ c[2] <= d[2])
        BY <1>1, <4>1 DEF Tally
      <4>3. c \in OverCells' /\ c[1] \in 1 .. row
        BY <1>1, <2>5 DEF OverCells
      <4>4. \A d \in {k} \X over : c[1] < d[1]
        BY <1>1, <4>3 DEF k
      <4> QED
        BY <2>5, <2>8, <3>1, <4>2, <4>3, <4>4
    <3>2. CASE cmp.first = NoCell
      <4>1. cmp.overreach = 0 /\ OverCells = {}
        BY <1>1, <1>3, <2>11, <3>2, FS_EmptySet DEF Tally
      <4>2. over # {}
        BY <2>10, <2>11, <2>13, <4>1
      <4>3. /\ OverCells' = {k} \X over /\ cmp'.first = <<r.idx, Min(over)>>
            /\ Min(over) \in over /\ \A x \in over : Min(over) <= x
        BY <2>5, <2>9, <3>2, <4>1, <4>2
      <4> DEFINE c == <<k, Min(over)>>
      <4>4. c \in OverCells' /\ cmp'.first = <<table[c[1]].idx, c[2]>>
        BY <4>3 DEF r
      <4>5. \A d \in OverCells' : c[1] = d[1] /\ c[2] <= d[2]
        BY <4>3
      <4> QED
        BY <4>4, <4>5
    <3> QED
      BY <3>1, <3>2
  <2>16. /\ cmp'.rows = Cardinality(Paired') /\ cmp'.overreach = Cardinality(OverCells')
    BY <2>6, <2>7, <2>10, <2>11
  <2>17. Tally'
    BY <1>1, <2>14, <2>15, <2>16 DEF Tally
  <2> QED
    BY <2>12, <2>17
<1> QED
  BY <1>4, <1>5

\* Steps that touch neither the program nor the comparison.
LEMMA UncomparedStep ==
  ASSUME TypeOK, Shape, Shape', UNCHANGED <<prog, n, table, row, cmp>>,
         kfuncs' \in Seq(Kfuncs), Len(kfuncs') <= MaxKfunc,
         pc' \in {"setup", "visit", "done", "compare", "over"},
         status' \in {"ok", "unsupported"}, at' \in -1 .. n - 1, pass' \in 0 .. Guard
  PROVE  TypeOK'
<1>1. Addr' = Addr
  BY DEF Addr
<1>2. live' \in [Addr -> SUBSET Tracked] /\ changed' \in BOOLEAN /\ i' \in -1 .. n - 1
  BY <1>1 DEF Shape
<1> QED
  BY <1>1, <1>2 DEF TypeOK

\* The scan refuses at an instruction of the program, or goes on.
LEMMA ScanCInv == IInv /\ CInv /\ Scan => CInv'
<1> SUFFICES ASSUME IInv, CInv, Scan
             PROVE  CInv'
  OBVIOUS
<1>1. /\ UNCHANGED <<prog, n, kfuncs, live, i, changed, pass, table, row, cmp>>
      /\ pc = "setup" /\ status = "ok" /\ n \in Nat /\ Addr = 0 .. n - 1 /\ Addr' = Addr
      /\ \A a \in Addr : live[a] = {}
      /\ TypeOK /\ Shape /\ row = 0 /\ cmp = NoCmp /\ table = << >>
  BY DEF Scan, CInv, IInv, Shape, Uncompared, Addr
<1>3. \/ status' = "unsupported" /\ at' = -1 /\ pc' = "done"
      \/ /\ \E a \in Addr : Refused(a)
         /\ status' = "unsupported" /\ at' = FirstRefused /\ pc' = "done"
      \/ pc' = "visit" /\ UNCHANGED <<status, at>>
  BY DEF Scan
<1>4. (\E a \in Addr : Refused(a)) => FirstRefused \in Addr
  <2> DEFINE R == {a \in Addr : Refused(a)}
  <2>1. R \in SUBSET Nat
    BY <1>1
  <2>2. FirstRefused = Min(R)
    BY DEF FirstRefused
  <2> QED
    BY <2>1, <2>2, MinOfNats
<1>5. at' \in -1 .. n - 1
  BY <1>1, <1>3, <1>4 DEF TypeOK
<1>7. Shape'
  BY ScanStep DEF IInv
<1>8. TypeOK'
  BY <1>1, <1>3, <1>5, <1>7, UncomparedStep DEF TypeOK
<1>9. InGuard' /\ Uncompared'
  BY <1>1, <1>3 DEF CInv, InGuard, Uncompared
<1>10. Tally'
  BY <1>1, NoRowsNoCells DEF Tally, Paired, OverCells, Addr
<1> QED
  BY <1>8, <1>9, <1>10 DEF CInv

\* A pass touches none of the comparison's state and stays in the guard.
LEMMA VisitCInv == IInv /\ CInv /\ (Visit \/ EndPass) => CInv'
<1> SUFFICES ASSUME IInv, CInv, Visit \/ EndPass
             PROVE  CInv'
  OBVIOUS
<1>1. /\ UNCHANGED <<prog, n, kfuncs, status, at, table, row, cmp>>
      /\ pc = "visit" /\ pc' \in {"visit", "done"} /\ status = "ok"
      /\ TypeOK /\ Shape /\ Shape' /\ row = 0 /\ cmp = NoCmp /\ table = << >>
      /\ pass \in Nat /\ pass < Guard /\ Guard \in Nat
  <2>1. Guard \in Nat
    BY BpfliveAssumption DEF Guard
  <2>2. Shape'
    BY VisitStep, EndPassStep DEF IInv
  <2>3. UNCHANGED <<prog, n, kfuncs, status, at, table, row, cmp>> /\ pc = "visit"
    BY DEF Visit, EndPass
  <2>4. pc' \in {"visit", "done"}
    <3>1. CASE Visit
      BY <3>1, <2>3 DEF Visit
    <3>2. CASE EndPass
      BY <3>2, <2>3 DEF EndPass
    <3> QED
      BY <3>1, <3>2
  <2>5. TypeOK /\ Shape /\ Uncompared /\ InGuard
    BY DEF CInv, IInv
  <2>6. status = "ok"
    BY <2>3, <2>5 DEF Shape
  <2>7. row = 0 /\ cmp = NoCmp /\ table = << >>
    BY <2>3, <2>5 DEF Uncompared
  <2>8. pass \in Nat /\ pass < Guard
    BY <2>1, <2>3, <2>5 DEF TypeOK, InGuard
  <2> QED
    BY <2>1, <2>2, <2>3, <2>4, <2>5, <2>6, <2>7, <2>8
<1>2. pass' \in 0 .. Guard /\ (pc' = "visit" => pass' < Guard)
  BY <1>1 DEF Visit, EndPass
<1>3. TypeOK'
  BY <1>1, <1>2, UncomparedStep DEF TypeOK
<1>4. InGuard' /\ Uncompared'
  BY <1>1, <1>2 DEF InGuard, Uncompared
<1>5. row' = 0 /\ cmp' = NoCmp /\ NoCmp' = NoCmp
  BY <1>1
<1>6. Tally'
  BY <1>5, NoRowsStill
<1> QED
  BY <1>3, <1>4, <1>6 DEF CInv

\* A registration touches none of it either.
LEMMA RegisterCInv ==
  IInv /\ CInv /\ (\E k \in Kfuncs : RegisterKfunc(k)) => CInv'
<1> SUFFICES ASSUME IInv, CInv, NEW k \in Kfuncs, RegisterKfunc(k)
             PROVE  CInv'
  OBVIOUS
<1>1. /\ UNCHANGED <<prog, n, pc, status, at, live, i, changed, pass, table, row, cmp>>
      /\ pc = "setup" /\ status = "ok" /\ TypeOK /\ Shape /\ row = 0 /\ cmp = NoCmp
  BY DEF RegisterKfunc, CInv, IInv, Shape, Uncompared
<1>2. kfuncs' \in Seq(Kfuncs) /\ Len(kfuncs') <= MaxKfunc
  <2>1. kfuncs \in Seq(Kfuncs) /\ Len(kfuncs) <= MaxKfunc /\ MaxKfunc \in Nat
    BY <1>1, BpfliveAssumption DEF TypeOK
  <2>2. kfuncs' = kfuncs \/ (kfuncs' = Append(kfuncs, k) /\ Len(kfuncs) < MaxKfunc)
    BY <2>1 DEF RegisterKfunc
  <2> QED
    BY <2>1, <2>2
<1>3. Shape'
  BY RegisterStep DEF IInv
<1>4. TypeOK'
  BY <1>1, <1>2, <1>3, UncomparedStep DEF TypeOK
<1>5. InGuard' /\ Uncompared'
  BY <1>1 DEF CInv, InGuard, Uncompared
<1>6. Tally'
  BY <1>1, NoRowsStill
<1> QED
  BY <1>4, <1>5, <1>6 DEF CInv

\* The comparison begins with nothing counted, and ends.
LEMMA CompareCInv == IInv /\ CInv /\ (CompareBegins \/ CompareEnds) => CInv'
<1> SUFFICES ASSUME IInv, CInv, CompareBegins \/ CompareEnds
             PROVE  CInv'
  OBVIOUS
<1>1. /\ UNCHANGED <<prog, n, kfuncs, at, live, i, changed, pass, row, cmp>>
      /\ pc' \in {"compare", "over"} /\ status' \in {"ok", "unsupported"}
      /\ TypeOK /\ Tally /\ Shape /\ Shape'
  <2>1. Shape'
    BY CompareStep DEF IInv
  <2> QED
    BY <2>1 DEF CompareBegins, CompareEnds, CInv, IInv, TypeOK
<1>2. CASE CompareEnds
  <2>1. UNCHANGED <<status, table>> /\ pc = "compare" /\ pc' = "over" /\ Addr' = Addr
    BY <1>1, <1>2 DEF CompareEnds, Addr
  <2>2. TypeOK' /\ Uncompared'
    BY <1>1, <2>1, UncomparedStep DEF TypeOK, CInv, Uncompared
  <2>3. Paired' = Paired /\ OverCells' = OverCells
    BY <1>1, <2>1 DEF Paired, OverCells
  <2>4. Tally'
    BY <1>1, <2>1, <2>3 DEF Tally
  <2> QED
    BY <2>1, <2>2, <2>4 DEF CInv, InGuard
<1>3. CASE CompareBegins
  <2>1. /\ row = 0 /\ cmp = NoCmp /\ table = << >> /\ row' = 0
        /\ pc = "done" /\ (pc' = "compare" => status' = "ok")
    BY <1>1, <1>3 DEF CompareBegins, CInv, Uncompared
  <2>2. table' \in Seq([idx : 0 .. n, mask : Masks])
    <3>1. CASE table' = table
      BY <1>1, <3>1 DEF TypeOK
    <3>2. CASE \E m \in 0 .. MaxRows(prog) : table' \in [1 .. m -> [idx : 0 .. n, mask : Masks]]
      <4>1. PICK m \in 0 .. MaxRows(prog) : table' \in [1 .. m -> [idx : 0 .. n, mask : Masks]]
        BY <3>2
      <4>2. m \in Nat
        BY <1>1, BpfliveAssumption DEF TypeOK
      <4> QED
        BY <4>1, <4>2, SeqOfFunction
    <3> QED
      BY <1>3, <3>1, <3>2 DEF CompareBegins
  <2>3. row' \in 0 .. Len(table') /\ Addr' = Addr
    BY <1>1, <2>1, <2>2 DEF Addr
  <2>4. TypeOK'
    BY <1>1, <2>2, <2>3 DEF TypeOK
  <2>5. InGuard' /\ Uncompared'
    BY <1>1, <2>1 DEF InGuard, Uncompared
  <2>6. Tally'
    BY <1>1, <2>1, NoRowsStill
  <2> QED
    BY <2>4, <2>5, <2>6 DEF CInv
<1> QED
  BY <1>2, <1>3

\* Every step keeps CInv.
LEMMA NextCInv == IInv /\ CInv /\ [Next]_vars => CInv'
<1> SUFFICES ASSUME IInv, CInv, [Next]_vars
             PROVE  CInv'
  OBVIOUS
<1>1. CASE UNCHANGED vars
  <2>1. /\ UNCHANGED <<prog, n, kfuncs, pc, status, at, live, i, changed, pass>>
        /\ UNCHANGED <<table, row, cmp>> /\ Addr' = Addr
    BY <1>1 DEF vars, Addr
  <2>3. Paired' = Paired /\ OverCells' = OverCells
    BY <2>1 DEF Paired, OverCells
  <2>4. TypeOK' /\ InGuard' /\ Uncompared' /\ Tally'
    BY <2>1, <2>3 DEF CInv, TypeOK, InGuard, Uncompared, Tally
  <2> QED
    BY <2>4 DEF CInv
<1>2. CASE CompareRow
  <2>1. /\ pc = "compare" /\ UNCHANGED <<pc, status>>
    BY <1>2 DEF CompareRow
  <2>2. InGuard' /\ Uncompared'
    BY <2>1 DEF CInv, InGuard, Uncompared
  <2> QED
    BY <1>2, <2>2, CompareRowStep DEF CInv
<1> QED
  BY <1>1, <1>2, RegisterCInv, ScanCInv, VisitCInv, CompareCInv DEF Next, AnalysisStep, Analyse

\* The comparison's invariant holds in every behaviour.
LEMMA Counted == Spec => []CInv
  BY InitCInv, NextCInv, Invariance, PTL DEF Spec

\* Everything is of its type: the cells counted are among those looked at, the
\* sweeps stay below the guard, and the table of kfuncs in its array.
THEOREM TypeCorrect == Spec => []TypeOK
<1>1. CInv => TypeOK
  BY DEF CInv
<1> QED
  BY <1>1, Counted, PTL

\* The claim made of a kernel's table is the number of cells it calls dead that
\* are read first on a path, for tables of any length, and the cell named is the
\* first of them.
THEOREM ClaimIsOfTheTable == Spec => []ClaimIsRight
<1>1. IInv /\ CInv => ClaimIsRight
  <2> SUFFICES ASSUME IInv, CInv
               PROVE  cmp.overreach > 0 =>
                        \E c \in OverCells :
                          /\ cmp.first = <<table[c[1]].idx, c[2]>>
                          /\ ReadFirst(cmp.first[1], cmp.first[2])
                          /\ \A d \in OverCells : c[1] < d[1] \/ (c[1] = d[1] /\ c[2] <= d[2])
    BY DEF ClaimIsRight, CInv, Tally
  <2> SUFFICES ASSUME cmp.overreach > 0
               PROVE  \E c \in OverCells :
                        /\ cmp.first = <<table[c[1]].idx, c[2]>>
                        /\ ReadFirst(cmp.first[1], cmp.first[2])
                        /\ \A d \in OverCells : c[1] < d[1] \/ (c[1] = d[1] /\ c[2] <= d[2])
    OBVIOUS
  <2>1. PICK c \in OverCells :
          /\ cmp.first = <<table[c[1]].idx, c[2]>>
          /\ \A d \in OverCells : c[1] < d[1] \/ (c[1] = d[1] /\ c[2] <= d[2])
    BY DEF CInv, Tally
  <2>2. /\ table[c[1]].idx \in Addr /\ c[2] \in live[table[c[1]].idx]
        /\ c[1] \in 1 .. row
    BY DEF OverCells, Paired
  <2>3. row > 0 /\ status = "ok" /\ pc # "setup"
    BY <2>2 DEF CInv, Uncompared, TypeOK
  <2>4. AnyReadFirst(table[c[1]].idx, c[2])
    BY <2>2, <2>3 DEF IInv, HasPath
  <2>5. PICK m \in 0 .. n - 1 : ReadAfter(table[c[1]].idx, c[2], m)
    BY <2>2, <2>4, ShortPath DEF IInv
  <2>6. ReadFirst(table[c[1]].idx, c[2])
    BY <2>5 DEF ReadFirst, ReadFirstIn, ReadAfter
  <2>7. cmp.first[1] = table[c[1]].idx /\ cmp.first[2] = c[2]
    BY <2>1
  <2> QED
    BY <2>1, <2>6, <2>7
<1> QED
  BY <1>1, Counted, Invariance, PTL

-----------------------------------------------------------------------------
(* Two runs of the interpreter that differ in dead registers only.         *)

\* A state of a run, its registers a function on Reg.
IsRun(s) ==
  /\ s.pc \in Int
  /\ s.r = [j \in Reg |-> s.r[j]]
  /\ s = [pc |-> s.pc, r |-> s.r, mem |-> s.mem, left |-> s.left, status |-> s.status]

\* Runs that are the same but for registers the analysis keeps track of.
Twins(s, t) ==
  /\ IsRun(s) /\ IsRun(t)
  /\ s.pc = t.pc /\ s.mem = t.mem /\ s.left = t.left /\ s.status = t.status
  /\ s.r[10] = t.r[10]

\* One turn took twins s and t to s1 and t1: they are twins, and if they go on, it
\* is at one of `targets`, and what they agreed on they still do, and on `set`.
Follows(set, targets, s, t, s1, t1) ==
  /\ Twins(s1, t1) /\ s1.status # "ok"
  /\ Running(s1) =>
       /\ s1.pc \in targets
       /\ \A j \in Reg : s.r[j] = t.r[j] \/ j \in set => s1.r[j] = t1.r[j]

\* A run that stops, with any status but ok.
LEMMA StopFollows ==
  ASSUME NEW s, NEW t, Twins(s, t), NEW set, NEW targets, NEW x, x \notin {"ok", "running"}
  PROVE  Follows(set, targets, s, t, Stop(s, x), Stop(t, x))
<1>1. PICK p, r, q, m, l, x0 :
        /\ p \in Int
        /\ s = [pc |-> p, r |-> r, mem |-> m, left |-> l, status |-> x0]
        /\ t = [pc |-> p, r |-> q, mem |-> m, left |-> l, status |-> x0]
        /\ r = [j \in Reg |-> r[j]] /\ q = [j \in Reg |-> q[j]] /\ r[10] = q[10]
  BY DEF Twins, IsRun
<1>2. /\ Stop(s, x) = [pc |-> p, r |-> r, mem |-> m, left |-> l, status |-> x]
      /\ Stop(t, x) = [pc |-> p, r |-> q, mem |-> m, left |-> l, status |-> x]
  BY <1>1 DEF Stop
<1>3. Twins(Stop(s, x), Stop(t, x))
  BY <1>1, <1>2 DEF Twins, IsRun
<1> QED
  BY <1>2, <1>3 DEF Follows, Running

\* A turn that writes one register.
LEMMA WriteFollows ==
  ASSUME NEW s, NEW t, Twins(s, t), NEW d \in Reg, NEW v, s.status # "ok"
  PROVE  Follows({d}, {s.pc + 1}, s, t, Step([s EXCEPT !.r[d] = v]), Step([t EXCEPT !.r[d] = v]))
<1>1. PICK p, r, q, m, l, x0 :
        /\ p \in Int
        /\ s = [pc |-> p, r |-> r, mem |-> m, left |-> l, status |-> x0]
        /\ t = [pc |-> p, r |-> q, mem |-> m, left |-> l, status |-> x0]
        /\ r = [j \in Reg |-> r[j]] /\ q = [j \in Reg |-> q[j]] /\ r[10] = q[10]
  BY DEF Twins, IsRun
<1>2. PICK r1, q1 : r1 = [r EXCEPT ![d] = v] /\ q1 = [q EXCEPT ![d] = v]
  OBVIOUS
<1>3. /\ r1 = [j \in Reg |-> r1[j]] /\ q1 = [j \in Reg |-> q1[j]]
      /\ \A j \in Reg : r1[j] = IF j = d THEN v ELSE r[j]
      /\ \A j \in Reg : q1[j] = IF j = d THEN v ELSE q[j]
  BY <1>1, <1>2
<1>4. PICK s1, t1 : s1 = Step([s EXCEPT !.r[d] = v]) /\ t1 = Step([t EXCEPT !.r[d] = v])
  OBVIOUS
<1>5. /\ s1 = [pc |-> p + 1, r |-> r1, mem |-> m, left |-> l, status |-> x0]
      /\ t1 = [pc |-> p + 1, r |-> q1, mem |-> m, left |-> l, status |-> x0]
  BY <1>1, <1>2, <1>4 DEF Step
<1>6. 10 \in Reg /\ p + 1 \in Int
  BY <1>1 DEF Reg
<1>7. Twins(s1, t1)
  BY <1>1, <1>3, <1>5, <1>6 DEF Twins, IsRun
<1> QED
  BY <1>1, <1>3, <1>4, <1>5, <1>7 DEF Follows

\* A turn that stores.
LEMMA StoreFollows ==
  ASSUME NEW s, NEW t, Twins(s, t), NEW M, s.status # "ok"
  PROVE  Follows({}, {s.pc + 1}, s, t, Step([s EXCEPT !.mem = M]), Step([t EXCEPT !.mem = M]))
<1>1. PICK p, r, q, m, l, x0 :
        /\ p \in Int
        /\ s = [pc |-> p, r |-> r, mem |-> m, left |-> l, status |-> x0]
        /\ t = [pc |-> p, r |-> q, mem |-> m, left |-> l, status |-> x0]
        /\ r = [j \in Reg |-> r[j]] /\ q = [j \in Reg |-> q[j]] /\ r[10] = q[10]
  BY DEF Twins, IsRun
<1>2. PICK s1, t1 : s1 = Step([s EXCEPT !.mem = M]) /\ t1 = Step([t EXCEPT !.mem = M])
  OBVIOUS
<1>3. /\ s1 = [pc |-> p + 1, r |-> r, mem |-> M, left |-> l, status |-> x0]
      /\ t1 = [pc |-> p + 1, r |-> q, mem |-> M, left |-> l, status |-> x0]
  BY <1>1, <1>2 DEF Step
<1>4. Twins(s1, t1)
  BY <1>1, <1>3 DEF Twins, IsRun
<1> QED
  BY <1>1, <1>2, <1>3, <1>4 DEF Follows

\* A turn that only goes somewhere.
LEMMA GoFollows ==
  ASSUME NEW s, NEW t, Twins(s, t), NEW d \in Int, s.status # "ok"
  PROVE  Follows({}, {d}, s, t, [s EXCEPT !.pc = d], [t EXCEPT !.pc = d])
<1>1. PICK p, r, q, m, l, x0 :
        /\ p \in Int
        /\ s = [pc |-> p, r |-> r, mem |-> m, left |-> l, status |-> x0]
        /\ t = [pc |-> p, r |-> q, mem |-> m, left |-> l, status |-> x0]
        /\ r = [j \in Reg |-> r[j]] /\ q = [j \in Reg |-> q[j]] /\ r[10] = q[10]
  BY DEF Twins, IsRun
<1>2. PICK s1, t1 : s1 = [s EXCEPT !.pc = d] /\ t1 = [t EXCEPT !.pc = d]
  OBVIOUS
<1>3. /\ s1 = [pc |-> d, r |-> r, mem |-> m, left |-> l, status |-> x0]
      /\ t1 = [pc |-> d, r |-> q, mem |-> m, left |-> l, status |-> x0]
  BY <1>1, <1>2
<1>4. Twins(s1, t1)
  BY <1>1, <1>3 DEF Twins, IsRun
<1> QED
  BY <1>1, <1>2, <1>3, <1>4 DEF Follows

\* One instruction, executed by two runs in the middle of a program.
Together(s, t, in) ==
  /\ Twins(s, t) /\ Running(s) /\ in \in AnyInsn /\ in.dst \in Reg /\ in.src \in Reg
  /\ \A j \in Use(Seen(in)) \cap Reg : s.r[j] = t.r[j]

\* Arithmetic: what it reads is in the use set, and it writes its dst.
LEMMA AluFollows ==
  ASSUME NEW s, NEW t, NEW in, Together(s, t, in), in.cls \in {"alu", "alu64"}
  PROVE  Follows(Def(Seen(in)), {s.pc + 1}, s, t, ExecAlu(s, in), ExecAlu(t, in))
<1>1. /\ Twins(s, t) /\ s.status = "running" /\ in.x \in BOOLEAN
      /\ in.dst \in Reg /\ in.src \in Reg
  BY DEF Together, Running, AnyInsn
<1>2. CASE ~AluKnown(in)
  <2>1. ExecAlu(s, in) = Stop(s, "unsupported") /\ ExecAlu(t, in) = Stop(t, "unsupported")
    BY <1>2 DEF ExecAlu
  <2> QED
    BY <1>1, <2>1, StopFollows
<1>3. CASE AluKnown(in)
  <2>1. in.op # "end" /\ Seen(in).op = AluKind(in) /\ Seen(in).dst = in.dst /\ Seen(in).src = in.src
    BY <1>3 DEF AluKnown, AluOps, Seen, Kind
  <2>2. AluKind(in) \in {"mov_k", "mov_x", "alu_k", "alu_x"}
    BY <2>1 DEF AluKind
  <2>3. Def(Seen(in)) = {in.dst}
    BY <2>1, <2>2 DEF Def, OnlyIf, AluKinds, Calls
  <2>4. in.op # "mov" => s.r[in.dst] = t.r[in.dst]
    <3>1. in.op # "mov" => in.dst \in Use(Seen(in))
      BY <2>1 DEF AluKind, Use, OnlyIf, UsesDst
    <3> QED
      BY <1>1, <3>1 DEF Together
  <2>5. in.x => s.r[in.src] = t.r[in.src]
    <3>1. in.x => in.src \in Use(Seen(in))
      BY <2>1 DEF AluKind, Use, OnlyIf, UsesSrc
    <3> QED
      BY <1>1, <3>1 DEF Together
  <2>6. Operand(s, in) = Operand(t, in)
    BY <2>5 DEF Operand
  <2>7. PICK v : /\ v = AluValue(in, WidthOf(in), s.r[in.dst], Operand(s, in))
                 /\ v = AluValue(in, WidthOf(in), t.r[in.dst], Operand(t, in))
    <3>1. CASE in.op # "mov"
      BY <2>4, <2>6, <3>1
    <3>2. CASE in.op = "mov"
      BY <2>6, <3>2 DEF AluValue
    <3> QED
      BY <3>1, <3>2
  <2>8. ExecAlu(s, in) = Step([s EXCEPT !.r[in.dst] = v])
    <3>1. ExecAlu(s, in) = Step([s EXCEPT !.r[in.dst] = AluValue(in, WidthOf(in), @, Operand(s, in))])
      BY <1>3 DEF ExecAlu
    <3> QED
      BY <2>7, <3>1
  <2>9. ExecAlu(t, in) = Step([t EXCEPT !.r[in.dst] = v])
    <3>1. ExecAlu(t, in) = Step([t EXCEPT !.r[in.dst] = AluValue(in, WidthOf(in), @, Operand(t, in))])
      BY <1>3 DEF ExecAlu
    <3> QED
      BY <2>7, <3>1
  <2>10. Follows({in.dst}, {s.pc + 1}, s, t, Step([s EXCEPT !.r[in.dst] = v]), Step([t EXCEPT !.r[in.dst] = v]))
    BY <1>1, WriteFollows
  <2> QED
    BY <2>3, <2>8, <2>9, <2>10
<1> QED
  BY <1>2, <1>3

\* Both slots of a wide load.
LEMMA WideFollows ==
  ASSUME NEW s, NEW t, Twins(s, t), NEW d \in Reg, NEW v, s.status # "ok"
  PROVE  Follows({d}, {s.pc + 2}, s, t, [s EXCEPT !.r[d] = v, !.pc = @ + 2],
                                        [t EXCEPT !.r[d] = v, !.pc = @ + 2])
<1>1. PICK p, r, q, m, l, x0 :
        /\ p \in Int
        /\ s = [pc |-> p, r |-> r, mem |-> m, left |-> l, status |-> x0]
        /\ t = [pc |-> p, r |-> q, mem |-> m, left |-> l, status |-> x0]
        /\ r = [j \in Reg |-> r[j]] /\ q = [j \in Reg |-> q[j]] /\ r[10] = q[10]
  BY DEF Twins, IsRun
<1>2. PICK r1, q1 : r1 = [r EXCEPT ![d] = v] /\ q1 = [q EXCEPT ![d] = v]
  OBVIOUS
<1>3. /\ r1 = [j \in Reg |-> r1[j]] /\ q1 = [j \in Reg |-> q1[j]]
      /\ \A j \in Reg : r1[j] = IF j = d THEN v ELSE r[j]
      /\ \A j \in Reg : q1[j] = IF j = d THEN v ELSE q[j]
  BY <1>1, <1>2
<1>4. PICK s1, t1 : /\ s1 = [s EXCEPT !.r[d] = v, !.pc = @ + 2]
                    /\ t1 = [t EXCEPT !.r[d] = v, !.pc = @ + 2]
  OBVIOUS
<1>5. /\ s1 = [pc |-> p + 2, r |-> r1, mem |-> m, left |-> l, status |-> x0]
      /\ t1 = [pc |-> p + 2, r |-> q1, mem |-> m, left |-> l, status |-> x0]
  BY <1>1, <1>2, <1>4
<1>6. 10 \in Reg /\ p + 2 \in Int
  BY <1>1 DEF Reg
<1>7. Twins(s1, t1)
  BY <1>1, <1>3, <1>5, <1>6 DEF Twins, IsRun
<1> QED
  BY <1>1, <1>3, <1>4, <1>5, <1>7 DEF Follows

\* LD_IMM64, the class LD's only instruction.
LEMMA LoadImmFollows ==
  ASSUME NEW s, NEW t, NEW in, Together(s, t, in), in.cls = "ld", NEW p
  PROVE  Follows(Def(Seen(in)), {s.pc + 2}, s, t, ExecLoadImm(p, s, in), ExecLoadImm(p, t, in))
<1>1. /\ Twins(s, t) /\ s.status = "running" /\ s.pc = t.pc /\ in.dst \in Reg
  BY DEF Together, Running, Twins
<1>2. CASE in.op # "imm64" \/ in.src # 0
  <2>1. /\ ExecLoadImm(p, s, in) = Stop(s, "unsupported")
        /\ ExecLoadImm(p, t, in) = Stop(t, "unsupported")
    BY <1>2 DEF ExecLoadImm
  <2> QED
    BY <1>1, <2>1, StopFollows
<1>3. CASE ~(in.op # "imm64" \/ in.src # 0) /\ s.pc + 1 \notin DOMAIN p
  <2>1. ExecLoadImm(p, s, in) = Stop(s, "badpc") /\ ExecLoadImm(p, t, in) = Stop(t, "badpc")
    BY <1>1, <1>3 DEF ExecLoadImm
  <2> QED
    BY <1>1, <2>1, StopFollows
<1>4. CASE ~(in.op # "imm64" \/ in.src # 0) /\ s.pc + 1 \in DOMAIN p
  <2>1. PICK v : v = Low(in.imm, 4) + Mod(4) * Low(p[s.pc + 1].imm, 4)
    OBVIOUS
  <2>2. ExecLoadImm(p, s, in) = [s EXCEPT !.r[in.dst] = v, !.pc = @ + 2]
    BY <1>4, <2>1 DEF ExecLoadImm
  <2>3. ExecLoadImm(p, t, in) = [t EXCEPT !.r[in.dst] = v, !.pc = @ + 2]
    BY <1>1, <1>4, <2>1 DEF ExecLoadImm
  <2>4. Seen(in).op = "imm64" /\ Seen(in).dst = in.dst
    BY <1>4 DEF Seen, Kind, Wide
  <2>5. Def(Seen(in)) = {in.dst}
    BY <2>4 DEF Def, OnlyIf, AluKinds, Calls
  <2>6. Follows({in.dst}, {s.pc + 2}, s, t, [s EXCEPT !.r[in.dst] = v, !.pc = @ + 2],
                                            [t EXCEPT !.r[in.dst] = v, !.pc = @ + 2])
    BY <1>1, WideFollows
  <2> QED
    BY <2>2, <2>3, <2>5, <2>6
<1> QED
  BY <1>2, <1>3, <1>4

\* A load reads its address, and memory, which the runs share.
LEMMA LoadFollows ==
  ASSUME NEW s, NEW t, NEW in, Together(s, t, in), in.cls = "ldx"
  PROVE  Follows(Def(Seen(in)), {s.pc + 1}, s, t, ExecLoad(s, in), ExecLoad(t, in))
<1>1. /\ Twins(s, t) /\ s.status = "running" /\ in.dst \in Reg /\ in.src \in Reg
      /\ s.mem = t.mem
  BY DEF Together, Running, Twins
<1>2. Seen(in).op = "ldx" /\ Seen(in).dst = in.dst /\ Seen(in).src = in.src
  BY DEF Seen, Kind
<1>3. Def(Seen(in)) = {in.dst} /\ in.src \in Use(Seen(in))
  BY <1>2 DEF Def, Use, OnlyIf, AluKinds, Calls, UsesDst, UsesSrc
<1>4. PICK addr : addr = Address(s, in.src, in.off) /\ addr = Address(t, in.src, in.off)
  BY <1>1, <1>3 DEF Address, Together
<1>5. CASE Inside(addr, in.w) = {}
  <2>1. ExecLoad(s, in) = Stop(s, "oob") /\ ExecLoad(t, in) = Stop(t, "oob")
    BY <1>4, <1>5 DEF ExecLoad, Access
  <2> QED
    BY <1>1, <2>1, StopFollows
<1>6. CASE Inside(addr, in.w) # {}
  <2>1. PICK r : r = CHOOSE q \in Inside(addr, in.w) : TRUE
    OBVIOUS
  <2>2. CASE ~Within(r, addr, in.w)
    <3>1. ExecLoad(s, in) = Stop(s, "wild") /\ ExecLoad(t, in) = Stop(t, "wild")
      BY <1>4, <1>6, <2>1, <2>2 DEF ExecLoad, Access
    <3> QED
      BY <1>1, <3>1, StopFollows
  <2>3. CASE Within(r, addr, in.w)
    <3>1. PICK raw : raw = Read(s.mem, r, addr, in.w) /\ raw = Read(t.mem, r, addr, in.w)
      BY <1>1
    <3>2. CASE in.op = "mem"
      <4>1. ExecLoad(s, in) = Step([s EXCEPT !.r[in.dst] = raw])
        BY <1>4, <1>6, <2>1, <2>3, <3>1, <3>2 DEF ExecLoad, Access
      <4>2. ExecLoad(t, in) = Step([t EXCEPT !.r[in.dst] = raw])
        BY <1>4, <1>6, <2>1, <2>3, <3>1, <3>2 DEF ExecLoad, Access
      <4>3. Follows({in.dst}, {s.pc + 1}, s, t, Step([s EXCEPT !.r[in.dst] = raw]),
                                                Step([t EXCEPT !.r[in.dst] = raw]))
        BY <1>1, WriteFollows
      <4> QED
        BY <1>3, <4>1, <4>2, <4>3
    <3>3. CASE in.op = "memsx" /\ in.w < 8
      <4>0. PICK v : v = Low(Sgn(raw, in.w), 8)
        OBVIOUS
      <4>1. ExecLoad(s, in) = Step([s EXCEPT !.r[in.dst] = v])
        BY <1>4, <1>6, <2>1, <2>3, <3>1, <3>3, <4>0 DEF ExecLoad, Access
      <4>2. ExecLoad(t, in) = Step([t EXCEPT !.r[in.dst] = v])
        BY <1>4, <1>6, <2>1, <2>3, <3>1, <3>3, <4>0 DEF ExecLoad, Access
      <4>3. Follows({in.dst}, {s.pc + 1}, s, t, Step([s EXCEPT !.r[in.dst] = v]),
                                                Step([t EXCEPT !.r[in.dst] = v]))
        BY <1>1, WriteFollows
      <4> QED
        BY <1>3, <4>1, <4>2, <4>3
    <3>4. CASE ~(in.op = "mem") /\ ~(in.op = "memsx" /\ in.w < 8)
      <4>1. ExecLoad(s, in) = Stop(s, "unsupported")
        BY <1>4, <1>6, <2>1, <2>3, <3>4 DEF ExecLoad, Access
      <4>2. ExecLoad(t, in) = Stop(t, "unsupported")
        BY <1>4, <1>6, <2>1, <2>3, <3>4 DEF ExecLoad, Access
      <4> QED
        BY <1>1, <4>1, <4>2, StopFollows
    <3> QED
      BY <3>2, <3>3, <3>4
  <2> QED
    BY <2>2, <2>3
<1> QED
  BY <1>5, <1>6

\* A store reads its address and its value.
LEMMA StoreMemFollows ==
  ASSUME NEW s, NEW t, NEW in, Together(s, t, in),
         in.cls = "st" \/ (in.cls = "stx" /\ in.op = "mem")
  PROVE  Follows(Def(Seen(in)), {s.pc + 1}, s, t, ExecStore(s, in), ExecStore(t, in))
<1>1. /\ Twins(s, t) /\ s.status = "running" /\ in.dst \in Reg /\ in.src \in Reg
      /\ s.mem = t.mem
  BY DEF Together, Running, Twins
<1>2. Seen(in).op = in.cls /\ Seen(in).dst = in.dst /\ Seen(in).src = in.src
  BY DEF Seen, Kind, StoreKind
<1>3. Def(Seen(in)) = {} /\ in.dst \in Use(Seen(in)) /\ (in.cls = "stx" => in.src \in Use(Seen(in)))
  BY <1>2 DEF Def, Use, OnlyIf, AluKinds, Calls, UsesDst, UsesSrc
<1>4. PICK addr : addr = Address(s, in.dst, in.off) /\ addr = Address(t, in.dst, in.off)
  BY <1>1, <1>3 DEF Address, Together
<1>5. PICK v : /\ v = IF in.cls = "stx" THEN s.r[in.src] ELSE Low(in.imm, in.w)
               /\ v = IF in.cls = "stx" THEN t.r[in.src] ELSE Low(in.imm, in.w)
  BY <1>1, <1>3 DEF Together
<1>6. CASE in.op # "mem"
  <2>1. ExecStore(s, in) = Stop(s, "unsupported") /\ ExecStore(t, in) = Stop(t, "unsupported")
    BY <1>6 DEF ExecStore
  <2> QED
    BY <1>1, <2>1, StopFollows
<1>7. CASE in.op = "mem" /\ Inside(addr, in.w) = {}
  <2>1. ExecStore(s, in) = Stop(s, "oob") /\ ExecStore(t, in) = Stop(t, "oob")
    BY <1>4, <1>7 DEF ExecStore, Access
  <2> QED
    BY <1>1, <2>1, StopFollows
<1>8. CASE in.op = "mem" /\ Inside(addr, in.w) # {}
  <2>1. PICK r : r = CHOOSE q \in Inside(addr, in.w) : TRUE
    OBVIOUS
  <2>2. CASE ~Within(r, addr, in.w)
    <3>1. ExecStore(s, in) = Stop(s, "wild") /\ ExecStore(t, in) = Stop(t, "wild")
      BY <1>4, <1>8, <2>1, <2>2 DEF ExecStore, Access
    <3> QED
      BY <1>1, <3>1, StopFollows
  <2>3. CASE Within(r, addr, in.w)
    <3>1. PICK M : M = Write(s.mem, r, addr, in.w, v) /\ M = Write(t.mem, r, addr, in.w, v)
      BY <1>1
    <3>2. ExecStore(s, in) = Step([s EXCEPT !.mem = M])
      BY <1>4, <1>5, <1>8, <2>1, <2>3, <3>1 DEF ExecStore, Access
    <3>3. ExecStore(t, in) = Step([t EXCEPT !.mem = M])
      BY <1>4, <1>5, <1>8, <2>1, <2>3, <3>1 DEF ExecStore, Access
    <3>4. Follows({}, {s.pc + 1}, s, t, Step([s EXCEPT !.mem = M]), Step([t EXCEPT !.mem = M]))
      BY <1>1, StoreFollows
    <3> QED
      BY <1>3, <3>2, <3>3, <3>4
  <2> QED
    BY <2>2, <2>3
<1> QED
  BY <1>6, <1>7, <1>8

\* A conditional jump looks at its operands only; another jump at none.
LEMMA CondFollows ==
  ASSUME NEW s, NEW t, NEW in, Together(s, t, in), in.cls \in {"jmp", "jmp32"}, in.op \in JumpOps
  PROVE  Follows({}, {s.pc + 1, s.pc + 1 + in.off}, s, t, ExecJump(s, in), ExecJump(t, in))
<1>1. /\ Twins(s, t) /\ s.status = "running" /\ in.dst \in Reg /\ in.src \in Reg
      /\ s.pc = t.pc /\ s.pc \in Int /\ in.off \in Int /\ in.x \in BOOLEAN
  BY DEF Together, Running, Twins, IsRun, AnyInsn
<1>2. in.op \notin {"exit", "ja", "may_goto", "call"}
  BY DEF JumpOps
<1>3. /\ Seen(in).op = IF in.x THEN "cond_x" ELSE "cond_k"
      /\ Seen(in).dst = in.dst /\ Seen(in).src = in.src
  BY <1>2 DEF Seen, Kind, JumpKind
<1>4. in.dst \in Use(Seen(in)) /\ (in.x => in.src \in Use(Seen(in)))
  BY <1>3 DEF Use, OnlyIf, UsesDst, UsesSrc
<1>5. s.r[in.dst] = t.r[in.dst] /\ Operand(s, in) = Operand(t, in)
  BY <1>1, <1>4 DEF Together, Operand
<1>6. PICK taken \in BOOLEAN :
        /\ taken <=> Taken(in.op, WidthOf(in), Low(s.r[in.dst], WidthOf(in)),
                           Low(Operand(s, in), WidthOf(in)))
        /\ taken <=> Taken(in.op, WidthOf(in), Low(t.r[in.dst], WidthOf(in)),
                           Low(Operand(t, in), WidthOf(in)))
  BY <1>5
<1>7. PICK d : d = s.pc + 1 + (IF taken THEN in.off ELSE 0)
  OBVIOUS
<1>8. d \in Int /\ d \in {s.pc + 1, s.pc + 1 + in.off}
  BY <1>1, <1>7
<1>9. ExecJump(s, in) = [s EXCEPT !.pc = d]
  BY <1>2, <1>6, <1>7 DEF ExecJump
<1>10. ExecJump(t, in) = [t EXCEPT !.pc = d]
  BY <1>1, <1>2, <1>6, <1>7 DEF ExecJump
<1>11. Follows({}, {d}, s, t, [s EXCEPT !.pc = d], [t EXCEPT !.pc = d])
  BY <1>1, <1>8, GoFollows
<1>12. Follows({}, {d}, s, t, ExecJump(s, in), ExecJump(t, in))
  BY <1>9, <1>10, <1>11
<1> QED
  BY <1>8, <1>12 DEF Follows

\* A jump.
LEMMA JaFollows ==
  ASSUME NEW s, NEW t, NEW in, Together(s, t, in), in.cls \in {"jmp", "jmp32"}, in.op = "ja"
  PROVE  Follows({}, {s.pc + 1 + Distance(in)}, s, t, ExecJump(s, in), ExecJump(t, in))
<1>1. /\ Twins(s, t) /\ s.status = "running"
      /\ s.pc = t.pc /\ s.pc \in Int /\ Distance(in) \in Int
  BY DEF Together, Running, Twins, IsRun, AnyInsn, Distance
<1>0. in.op \notin JumpOps
  BY DEF JumpOps
<1>2. PICK k, d : /\ k = IF in.cls = "jmp32" THEN in.imm ELSE in.off
                  /\ d = s.pc + 1 + k
  OBVIOUS
<1>3. k = Distance(in) /\ d \in Int
  BY <1>1, <1>2 DEF Distance
<1>4. ExecJump(s, in) = [s EXCEPT !.pc = @ + 1 + k]
  BY <1>0, <1>2 DEF ExecJump
<1>5. ExecJump(t, in) = [t EXCEPT !.pc = @ + 1 + k]
  BY <1>0, <1>2 DEF ExecJump
<1>6. ExecJump(s, in) = [s EXCEPT !.pc = d]
  BY <1>2, <1>4
<1>7. ExecJump(t, in) = [t EXCEPT !.pc = d]
  BY <1>1, <1>2, <1>5
<1>8. Follows({}, {d}, s, t, [s EXCEPT !.pc = d], [t EXCEPT !.pc = d])
  BY <1>1, <1>3, GoFollows
<1> QED
  BY <1>2, <1>3, <1>6, <1>7, <1>8

\* A turn that stores and may write some registers.
LEMMA RegsFollow ==
  ASSUME NEW s, NEW t, Twins(s, t), NEW set, NEW M, NEW R, NEW Q, s.status # "ok",
         R = [j \in Reg |-> R[j]], Q = [j \in Reg |-> Q[j]],
         \A j \in Reg : s.r[j] = t.r[j] \/ j \in set => R[j] = Q[j]
  PROVE  Follows(set, {s.pc + 1}, s, t, Step([s EXCEPT !.mem = M, !.r = R]),
                                        Step([t EXCEPT !.mem = M, !.r = Q]))
<1>1. PICK p, r, q, m, l, x0 :
        /\ p \in Int
        /\ s = [pc |-> p, r |-> r, mem |-> m, left |-> l, status |-> x0]
        /\ t = [pc |-> p, r |-> q, mem |-> m, left |-> l, status |-> x0]
        /\ r = [j \in Reg |-> r[j]] /\ q = [j \in Reg |-> q[j]] /\ r[10] = q[10]
  BY DEF Twins, IsRun
<1>2. PICK s1, t1 : /\ s1 = Step([s EXCEPT !.mem = M, !.r = R])
                    /\ t1 = Step([t EXCEPT !.mem = M, !.r = Q])
  OBVIOUS
<1>3. /\ s1 = [pc |-> p + 1, r |-> R, mem |-> M, left |-> l, status |-> x0]
      /\ t1 = [pc |-> p + 1, r |-> Q, mem |-> M, left |-> l, status |-> x0]
  BY <1>1, <1>2 DEF Step
<1>4. 10 \in Reg /\ p + 1 \in Int
  BY <1>1 DEF Reg
<1>5. R[10] = Q[10]
  BY <1>1, <1>4
<1>6. Twins(s1, t1)
  <2>1. /\ s1.pc = p + 1 /\ s1.r = R /\ s1.mem = M /\ s1.left = l /\ s1.status = x0
        /\ t1.pc = p + 1 /\ t1.r = Q /\ t1.mem = M /\ t1.left = l /\ t1.status = x0
    BY <1>3
  <2>2. IsRun(s1)
    BY <1>3, <1>4, <2>1 DEF IsRun
  <2>3. IsRun(t1)
    BY <1>3, <1>4, <2>1 DEF IsRun
  <2> QED
    BY <1>5, <2>1, <2>2, <2>3 DEF Twins
<1>7. s1.r = R /\ t1.r = Q /\ s1.pc = s.pc + 1 /\ s1.status # "ok"
  BY <1>1, <1>3
<1>8. Follows(set, {s.pc + 1}, s, t, s1, t1)
  BY <1>6, <1>7 DEF Follows
<1> QED
  BY <1>2, <1>8

\* What an atomic leaves in the registers, which the analysis takes it to define.
LEMMA AtomicRegsAgree ==
  ASSUME NEW s, NEW t, NEW in, Together(s, t, in), in.cls = "stx", in.op \in AtomicOps, NEW old
  PROVE  /\ AtomicRegs(s, in, old) = [j \in Reg |-> AtomicRegs(s, in, old)[j]]
         /\ AtomicRegs(t, in, old) = [j \in Reg |-> AtomicRegs(t, in, old)[j]]
         /\ \A j \in Reg : s.r[j] = t.r[j] \/ j \in Def(Seen(in)) =>
              AtomicRegs(s, in, old)[j] = AtomicRegs(t, in, old)[j]
<1>1. /\ s.r = [j \in Reg |-> s.r[j]] /\ t.r = [j \in Reg |-> t.r[j]]
      /\ in.dst \in Reg /\ in.src \in Reg /\ 0 \in Reg
  BY DEF Together, Twins, IsRun, Reg
<1>2. /\ Seen(in).src = in.src /\ Seen(in).dst = in.dst
      /\ Seen(in).op = IF in.op = "cmpxchg" THEN "cmpxchg" ELSE IF in.imm = 1 THEN "fetch" ELSE "atomic"
  BY DEF Seen, Kind, StoreKind, AtomicOps
<1>3. in.src \in Use(Seen(in))
  BY <1>2 DEF Use, OnlyIf, UsesSrc
<1>4. s.r[in.src] = t.r[in.src]
  BY <1>1, <1>3 DEF Together
<1>5. PICK R, Q : R = AtomicRegs(s, in, old) /\ Q = AtomicRegs(t, in, old)
  OBVIOUS
<1>6. CASE in.op = "cmpxchg"
  <2>1. R = [s.r EXCEPT ![0] = old] /\ Q = [t.r EXCEPT ![0] = old]
    BY <1>5, <1>6 DEF AtomicRegs
  <2>2. Def(Seen(in)) = {in.src, 0}
    BY <1>2, <1>6 DEF Def, OnlyIf, AluKinds, Calls
  <2>3. R = [j \in Reg |-> R[j]] /\ Q = [j \in Reg |-> Q[j]]
    BY <1>1, <2>1
  <2>4. \A j \in Reg : s.r[j] = t.r[j] \/ j \in Def(Seen(in)) => R[j] = Q[j]
    BY <1>1, <1>4, <2>1, <2>2
  <2> QED
    BY <1>5, <2>3, <2>4
<1>7. CASE in.op # "cmpxchg" /\ in.imm = 1
  <2>1. R = [s.r EXCEPT ![in.src] = old] /\ Q = [t.r EXCEPT ![in.src] = old]
    BY <1>5, <1>7 DEF AtomicRegs
  <2>2. Def(Seen(in)) = {in.src}
    BY <1>2, <1>7 DEF Def, OnlyIf, AluKinds, Calls
  <2>3. R = [j \in Reg |-> R[j]] /\ Q = [j \in Reg |-> Q[j]]
    BY <1>1, <2>1
  <2>4. \A j \in Reg : s.r[j] = t.r[j] \/ j \in Def(Seen(in)) => R[j] = Q[j]
    BY <1>1, <2>1, <2>2
  <2> QED
    BY <1>5, <2>3, <2>4
<1>8. CASE in.op # "cmpxchg" /\ in.imm # 1
  <2>1. R = s.r /\ Q = t.r
    BY <1>5, <1>8 DEF AtomicRegs
  <2>2. Def(Seen(in)) = {}
    BY <1>2, <1>8 DEF Def, OnlyIf, AluKinds, Calls
  <2> QED
    BY <1>1, <1>5, <2>1, <2>2
<1> QED
  BY <1>6, <1>7, <1>8

\* What an atomic stores: of the old value, src and, for CMPXCHG, r0.
AtomicResult(s, in, old) ==
  LET sv == Low(s.r[in.src], in.w)
  IN  CASE in.op = "add" -> Low(old + sv, in.w)
        [] in.op = "or"  -> OrBits(in.w, old, sv)
        [] in.op = "and" -> AndBits(in.w, old, sv)
        [] in.op = "xor" -> XorBits(in.w, old, sv)
        [] in.op = "xchg" -> sv
        [] in.op = "cmpxchg" -> IF old = Low(s.r[0], in.w) THEN sv ELSE old

\* An atomic access: it reads memory, dst, src and, comparing, r0.
LEMMA AtomicFollows ==
  ASSUME NEW s, NEW t, NEW in, Together(s, t, in), in.cls = "stx", in.op \notin {"mem", "load_acq"}
  PROVE  Follows(Def(Seen(in)), {s.pc + 1}, s, t, ExecAtomic(s, in), ExecAtomic(t, in))
<1>1. /\ Twins(s, t) /\ s.status = "running" /\ in.dst \in Reg /\ in.src \in Reg
      /\ s.mem = t.mem /\ 0 \in Reg
  BY DEF Together, Running, Twins, Reg
<1>2. /\ Seen(in).op \in {"store_rel", "cmpxchg", "fetch", "atomic"}
      /\ (in.op = "cmpxchg" => Seen(in).op = "cmpxchg")
      /\ Seen(in).dst = in.dst /\ Seen(in).src = in.src
  BY DEF Seen, Kind, StoreKind
<1>3. /\ in.dst \in Use(Seen(in)) /\ in.src \in Use(Seen(in))
      /\ (in.op = "cmpxchg" => 0 \in Use(Seen(in)))
  BY <1>2 DEF Use, OnlyIf, UsesDst, UsesSrc
<1>4. /\ s.r[in.dst] = t.r[in.dst] /\ s.r[in.src] = t.r[in.src]
      /\ (in.op = "cmpxchg" => s.r[0] = t.r[0])
  BY <1>1, <1>3 DEF Together
<1>5. PICK addr : addr = Address(s, in.dst, in.off) /\ addr = Address(t, in.dst, in.off)
  BY <1>4 DEF Address
<1>6. CASE in.w \notin {4, 8}
  <2>1. ExecAtomic(s, in) = Stop(s, "unsupported") /\ ExecAtomic(t, in) = Stop(t, "unsupported")
    BY <1>6 DEF ExecAtomic
  <2> QED
    BY <1>1, <2>1, StopFollows
<1>7. CASE in.w \in {4, 8} /\ Inside(addr, in.w) = {}
  <2>1. ExecAtomic(s, in) = Stop(s, "oob") /\ ExecAtomic(t, in) = Stop(t, "oob")
    BY <1>5, <1>7 DEF ExecAtomic, Access
  <2> QED
    BY <1>1, <2>1, StopFollows
<1>8. CASE in.w \in {4, 8} /\ Inside(addr, in.w) # {}
  <2>1. PICK r : r = CHOOSE q \in Inside(addr, in.w) : TRUE
    OBVIOUS
  <2>2. CASE ~Within(r, addr, in.w)
    <3>1. ExecAtomic(s, in) = Stop(s, "wild") /\ ExecAtomic(t, in) = Stop(t, "wild")
      BY <1>5, <1>8, <2>1, <2>2 DEF ExecAtomic, Access
    <3> QED
      BY <1>1, <3>1, StopFollows
  <2>3. CASE Within(r, addr, in.w) /\ in.op \notin AtomicOps
    <3>1. ExecAtomic(s, in) = Stop(s, "unsupported") /\ ExecAtomic(t, in) = Stop(t, "unsupported")
      BY <1>5, <1>8, <2>1, <2>3 DEF ExecAtomic, Access
    <3> QED
      BY <1>1, <3>1, StopFollows
  <2>4. CASE Within(r, addr, in.w) /\ in.op \in AtomicOps
    <3>1. PICK old : old = Read(s.mem, r, addr, in.w) /\ old = Read(t.mem, r, addr, in.w)
      BY <1>1
    <3>2. PICK res : res = AtomicResult(s, in, old) /\ res = AtomicResult(t, in, old)
      <4>1. CASE in.op = "cmpxchg"
        BY <1>4, <4>1 DEF AtomicResult
      <4>2. CASE in.op # "cmpxchg"
        BY <1>4, <4>2, <2>4 DEF AtomicResult, AtomicOps
      <4> QED
        BY <4>1, <4>2
    <3>3. PICK M : M = Write(s.mem, r, addr, in.w, res) /\ M = Write(t.mem, r, addr, in.w, res)
      BY <1>1
    <3>4. PICK R, Q : R = AtomicRegs(s, in, old) /\ Q = AtomicRegs(t, in, old)
      OBVIOUS
    <3>5. ExecAtomic(s, in) = Step([s EXCEPT !.mem = M, !.r = R])
      BY <1>5, <1>8, <2>1, <2>4, <3>1, <3>2, <3>3, <3>4 DEF ExecAtomic, Access, AtomicResult
    <3>6. ExecAtomic(t, in) = Step([t EXCEPT !.mem = M, !.r = Q])
      BY <1>5, <1>8, <2>1, <2>4, <3>1, <3>2, <3>3, <3>4 DEF ExecAtomic, Access, AtomicResult
    <3>7. /\ R = [j \in Reg |-> R[j]] /\ Q = [j \in Reg |-> Q[j]]
          /\ \A j \in Reg : s.r[j] = t.r[j] \/ j \in Def(Seen(in)) => R[j] = Q[j]
      BY <2>4, <3>4, AtomicRegsAgree
    <3>8. Follows(Def(Seen(in)), {s.pc + 1}, s, t, Step([s EXCEPT !.mem = M, !.r = R]),
                                                   Step([t EXCEPT !.mem = M, !.r = Q]))
      BY <1>1, <3>7, RegsFollow
    <3> QED
      BY <3>5, <3>6, <3>8
  <2> QED
    BY <2>2, <2>3, <2>4
<1> QED
  BY <1>6, <1>7, <1>8

\* Where an instruction at `at` may lead.
Onward(in, at0) ==
  CASE in.cls = "ld" -> IF Wide(in) THEN {at0 + 2} ELSE {}
    [] in.cls \in {"jmp", "jmp32"} ->
         IF in.op = "ja" THEN {at0 + 1 + Distance(in)}
         ELSE IF in.op \in JumpOps THEN {at0 + 1, at0 + 1 + in.off} ELSE {}
    [] OTHER -> {at0 + 1}

\* An exit leaves everything as it is.
Ended(s, t, s1, t1) ==
  Twins(s1, t1) /\ s1.status = "ok" /\ s1.r = s.r /\ t1.r = t.r

\* An exit.
LEMMA ExitEnds ==
  ASSUME NEW s, NEW t, Twins(s, t)
  PROVE  Ended(s, t, Stop(s, "ok"), Stop(t, "ok"))
<1>1. PICK p, r, q, m, l, x0 :
        /\ p \in Int
        /\ s = [pc |-> p, r |-> r, mem |-> m, left |-> l, status |-> x0]
        /\ t = [pc |-> p, r |-> q, mem |-> m, left |-> l, status |-> x0]
        /\ r = [j \in Reg |-> r[j]] /\ q = [j \in Reg |-> q[j]] /\ r[10] = q[10]
  BY DEF Twins, IsRun
<1>2. /\ Stop(s, "ok") = [pc |-> p, r |-> r, mem |-> m, left |-> l, status |-> "ok"]
      /\ Stop(t, "ok") = [pc |-> p, r |-> q, mem |-> m, left |-> l, status |-> "ok"]
  BY <1>1 DEF Stop
<1>3. Twins(Stop(s, "ok"), Stop(t, "ok"))
  BY <1>1, <1>2 DEF Twins, IsRun
<1> QED
  BY <1>1, <1>2, <1>3 DEF Ended

\* One turn is paid for first.
LEMMA PaidTwins ==
  ASSUME NEW s, NEW t, Twins(s, t), NEW k
  PROVE  /\ Twins([s EXCEPT !.left = k], [t EXCEPT !.left = k])
         /\ [s EXCEPT !.left = k].r = s.r /\ [t EXCEPT !.left = k].r = t.r
         /\ [s EXCEPT !.left = k].pc = s.pc /\ [s EXCEPT !.left = k].status = s.status
<1>1. PICK p, r, q, m, l, x0 :
        /\ p \in Int
        /\ s = [pc |-> p, r |-> r, mem |-> m, left |-> l, status |-> x0]
        /\ t = [pc |-> p, r |-> q, mem |-> m, left |-> l, status |-> x0]
        /\ r = [j \in Reg |-> r[j]] /\ q = [j \in Reg |-> q[j]] /\ r[10] = q[10]
  BY DEF Twins, IsRun
<1>2. PICK s1, t1 : s1 = [s EXCEPT !.left = k] /\ t1 = [t EXCEPT !.left = k]
  OBVIOUS
<1>3. /\ s1 = [pc |-> p, r |-> r, mem |-> m, left |-> k, status |-> x0]
      /\ t1 = [pc |-> p, r |-> q, mem |-> m, left |-> k, status |-> x0]
  BY <1>1, <1>2
<1>4. Twins(s1, t1)
  BY <1>1, <1>3 DEF Twins, IsRun
<1> QED
  BY <1>1, <1>2, <1>3, <1>4

\* What the classes make of one instruction.
Executed(p, s, in) ==
  CASE in.cls \in {"alu", "alu64"} -> ExecAlu(s, in)
    [] in.cls = "ld" -> ExecLoadImm(p, s, in)
    [] in.cls = "ldx" -> ExecLoad(s, in)
    [] in.cls = "stx" /\ in.op # "mem" -> ExecAtomic(s, in)
    [] in.cls = "st" \/ (in.cls = "stx" /\ in.op = "mem") -> ExecStore(s, in)
    [] in.cls \in {"jmp", "jmp32"} -> ExecJump(s, in)

\* Jumps write nothing.
LEMMA JumpDefines ==
  ASSUME NEW in, in.cls \in {"jmp", "jmp32"}, in.op # "call"
  PROVE  Def(Seen(in)) = {}
<1>1. Seen(in).op \in {"exit", "gotox", "ja", "jcond", "cond_x", "cond_k"}
  BY DEF Seen, Kind, JumpKind
<1> QED
  BY <1>1 DEF Def, OnlyIf, AluKinds, Calls

\* Any instruction.
LEMMA ExecutedFollows ==
  ASSUME NEW p, NEW s, NEW t, NEW in, Together(s, t, in), in.op # "load_acq"
  PROVE  \/ Follows(Def(Seen(in)), Onward(in, s.pc), s, t, Executed(p, s, in), Executed(p, t, in))
         \/ in.op = "exit" /\ in.cls = "jmp" /\ Ended(s, t, Executed(p, s, in), Executed(p, t, in))
<1>1. in.cls \in {"alu", "alu64", "ld", "ldx", "st", "stx", "jmp", "jmp32"} /\ Twins(s, t)
      /\ s.status = "running"
  BY DEF Together, AnyInsn, Running
<1>2. CASE in.cls \in {"alu", "alu64"}
  <2>1. Executed(p, s, in) = ExecAlu(s, in) /\ Executed(p, t, in) = ExecAlu(t, in)
    BY <1>2 DEF Executed
  <2>2. Onward(in, s.pc) = {s.pc + 1}
    BY <1>2 DEF Onward
  <2> QED
    BY <1>2, <2>1, <2>2, AluFollows
<1>3. CASE in.cls = "ld"
  <2>1. Executed(p, s, in) = ExecLoadImm(p, s, in) /\ Executed(p, t, in) = ExecLoadImm(p, t, in)
    BY <1>3 DEF Executed
  <2>2. CASE Wide(in)
    <3>1. Onward(in, s.pc) = {s.pc + 2}
      BY <1>3, <2>2 DEF Onward
    <3> QED
      BY <1>3, <2>1, <3>1, LoadImmFollows
  <2>3. CASE ~Wide(in)
    <3>1. ExecLoadImm(p, s, in) = Stop(s, "unsupported") /\ ExecLoadImm(p, t, in) = Stop(t, "unsupported")
      BY <1>3, <2>3 DEF ExecLoadImm, Wide
    <3> QED
      BY <1>1, <2>1, <3>1, StopFollows
  <2> QED
    BY <2>2, <2>3
<1>4. CASE in.cls = "ldx"
  <2>1. Executed(p, s, in) = ExecLoad(s, in) /\ Executed(p, t, in) = ExecLoad(t, in)
    BY <1>4 DEF Executed
  <2>2. Onward(in, s.pc) = {s.pc + 1}
    BY <1>4 DEF Onward
  <2> QED
    BY <1>4, <2>1, <2>2, LoadFollows
<1>5. CASE in.cls = "stx" /\ in.op # "mem"
  <2>1. Executed(p, s, in) = ExecAtomic(s, in) /\ Executed(p, t, in) = ExecAtomic(t, in)
    BY <1>5 DEF Executed
  <2>2. Onward(in, s.pc) = {s.pc + 1}
    BY <1>5 DEF Onward
  <2> QED
    BY <1>5, <2>1, <2>2, AtomicFollows
<1>6. CASE in.cls = "st" \/ (in.cls = "stx" /\ in.op = "mem")
  <2>1. Executed(p, s, in) = ExecStore(s, in) /\ Executed(p, t, in) = ExecStore(t, in)
    BY <1>6 DEF Executed
  <2>2. Onward(in, s.pc) = {s.pc + 1}
    BY <1>6 DEF Onward
  <2> QED
    BY <1>6, <2>1, <2>2, StoreMemFollows
<1>7. CASE in.cls \in {"jmp", "jmp32"}
  <2>1. Executed(p, s, in) = ExecJump(s, in) /\ Executed(p, t, in) = ExecJump(t, in)
    BY <1>7 DEF Executed
  <2>2. {"exit", "ja", "call"} \cap JumpOps = {}
    BY DEF JumpOps
  <2>3. CASE in.op = "exit"
    <3>1. /\ ExecJump(s, in) = Stop(s, IF in.cls = "jmp" THEN "ok" ELSE "unsupported")
          /\ ExecJump(t, in) = Stop(t, IF in.cls = "jmp" THEN "ok" ELSE "unsupported")
      BY <2>2, <2>3 DEF ExecJump
    <3>2. CASE in.cls = "jmp"
      BY <1>1, <2>1, <2>3, <3>1, <3>2, ExitEnds
    <3>3. CASE in.cls # "jmp"
      BY <1>1, <2>1, <3>1, <3>3, StopFollows
    <3> QED
      BY <3>2, <3>3
  <2>4. CASE in.op = "ja"
    <3>1. Onward(in, s.pc) = {s.pc + 1 + Distance(in)} /\ Def(Seen(in)) = {}
      BY <1>7, <2>4, JumpDefines DEF Onward
    <3> QED
      BY <1>7, <2>1, <2>4, <3>1, JaFollows
  <2>5. CASE in.op \in JumpOps
    <3>1. Onward(in, s.pc) = {s.pc + 1, s.pc + 1 + in.off} /\ Def(Seen(in)) = {}
      BY <1>7, <2>2, <2>5, JumpDefines DEF Onward
    <3> QED
      BY <1>7, <2>1, <2>5, <3>1, CondFollows
  <2>6. CASE in.op \notin {"exit", "ja"} \cup JumpOps
    <3>1. ExecJump(s, in) = Stop(s, "unsupported") /\ ExecJump(t, in) = Stop(t, "unsupported")
      BY <2>6 DEF ExecJump
    <3> QED
      BY <1>1, <2>1, <3>1, StopFollows
  <2> QED
    BY <2>3, <2>4, <2>5, <2>6
<1> QED
  BY <1>1, <1>2, <1>3, <1>4, <1>5, <1>6, <1>7

\* What a turn does to twins that are at an instruction.
Turned(in, s, t, s1, t1) ==
  \/ Follows(Def(Seen(in)), Onward(in, s.pc), s, t, s1, t1)
  \/ in.op = "exit" /\ in.cls = "jmp" /\ Ended(s, t, s1, t1)

\* One turn of the loop, of runs that agree on what the instruction uses.
LEMMA ExecFollows ==
  ASSUME NEW p, NEW s, NEW t, Twins(s, t), Running(s), s.pc \in DOMAIN p,
         p[s.pc] \in AnyInsn, p[s.pc].op # "load_acq",
         \A j \in Use(Seen(p[s.pc])) \cap Reg : s.r[j] = t.r[j]
  PROVE  Turned(p[s.pc], s, t, Exec(p, s), Exec(p, t))
<1>1. t.pc = s.pc /\ t.left = s.left
  BY DEF Twins
<1>2. PICK in : in = p[s.pc] /\ in = p[t.pc]
  BY <1>1
<1>3. CASE s.left = 0
  <2>1. Exec(p, s) = Stop(s, "loop") /\ Exec(p, t) = Stop(t, "loop")
    BY <1>1, <1>3 DEF Exec
  <2>2. Follows(Def(Seen(in)), Onward(in, s.pc), s, t, Stop(s, "loop"), Stop(t, "loop"))
    BY StopFollows
  <2> QED
    BY <1>2, <2>1, <2>2 DEF Turned
<1>4. CASE s.left # 0
  <2>1. PICK k, s0, t0 : /\ k = s.left - 1 /\ s0 = [s EXCEPT !.left = k] /\ t0 = [t EXCEPT !.left = k]
    OBVIOUS
  <2>2. Twins(s0, t0) /\ s0.r = s.r /\ t0.r = t.r /\ s0.pc = s.pc /\ s0.status = "running"
    BY <2>1, PaidTwins DEF Running
  <2>3. s0 = [s EXCEPT !.left = @ - 1] /\ t0 = [t EXCEPT !.left = @ - 1]
    BY <1>1, <2>1
  <2>4. CASE ~({in.dst, in.src} \subseteq Reg)
    <3>1. Exec(p, s) = Stop(s0, "unsupported")
      BY <1>2, <1>4, <2>3, <2>4 DEF Exec
    <3>2. Exec(p, t) = Stop(t0, "unsupported")
      BY <1>1, <1>2, <1>4, <2>3, <2>4 DEF Exec
    <3>3. Follows(Def(Seen(in)), Onward(in, s.pc), s0, t0, Stop(s0, "unsupported"), Stop(t0, "unsupported"))
      BY <2>2, StopFollows
    <3>4. Follows(Def(Seen(in)), Onward(in, s.pc), s, t, Stop(s0, "unsupported"), Stop(t0, "unsupported"))
      BY <2>2, <3>3 DEF Follows
    <3> QED
      BY <1>2, <3>1, <3>2, <3>4 DEF Turned
  <2>5. CASE {in.dst, in.src} \subseteq Reg
    <3>1. Exec(p, s) = Executed(p, s0, in)
      BY <1>2, <1>4, <2>3, <2>5 DEF Exec, Executed
    <3>2. Exec(p, t) = Executed(p, t0, in)
      BY <1>1, <1>2, <1>4, <2>3, <2>5 DEF Exec, Executed
    <3>3. Together(s0, t0, in)
      BY <1>2, <2>2, <2>5 DEF Together, Running
    <3>4. in.op # "load_acq"
      BY <1>2
    <3>5. \/ Follows(Def(Seen(in)), Onward(in, s0.pc), s0, t0, Executed(p, s0, in), Executed(p, t0, in))
          \/ in.op = "exit" /\ in.cls = "jmp" /\ Ended(s0, t0, Executed(p, s0, in), Executed(p, t0, in))
      BY <3>3, <3>4, ExecutedFollows
    <3>6. CASE Follows(Def(Seen(in)), Onward(in, s0.pc), s0, t0, Executed(p, s0, in), Executed(p, t0, in))
      <4>1. Follows(Def(Seen(in)), Onward(in, s.pc), s, t, Executed(p, s0, in), Executed(p, t0, in))
        BY <2>2, <3>6 DEF Follows
      <4> QED
        BY <1>2, <3>1, <3>2, <4>1 DEF Turned
    <3>7. CASE in.op = "exit" /\ in.cls = "jmp" /\ Ended(s0, t0, Executed(p, s0, in), Executed(p, t0, in))
      <4>1. Ended(s, t, Executed(p, s0, in), Executed(p, t0, in))
        BY <2>2, <3>7 DEF Ended
      <4> QED
        BY <1>2, <3>1, <3>2, <3>7, <4>1 DEF Turned
    <3> QED
      BY <3>5, <3>6, <3>7
  <2> QED
    BY <2>4, <2>5
<1> QED
  BY <1>3, <1>4

\* An odd number of wide loads in a row come before a.
OddRun(a) ==
  \E b \in 0 .. a : /\ \A c \in b .. a - 1 : prog[c].op = "imm64"
                    /\ b = 0 \/ prog[b - 1].op # "imm64"
                    /\ (a - b) % 2 = 1

\* Where the wide loads before a begin.
LEMMA RunBegins ==
  ASSUME NEW a \in Nat
  PROVE  \E b \in 0 .. a : /\ \A c \in b .. a - 1 : prog[c].op = "imm64"
                           /\ b = 0 \/ prog[b - 1].op # "imm64"
<1> DEFINE B == {b \in 0 .. a : \A c \in b .. a - 1 : prog[c].op = "imm64"}
<1>1. a \in B /\ B \in SUBSET Nat
  OBVIOUS
<1>2. PICK b \in B : \A c \in B : b <= c
  BY <1>1, MinOfNats
<1>3. CASE b = 0
  BY <1>2, <1>3
<1>4. CASE b # 0 /\ prog[b - 1].op = "imm64"
  <2>1. b - 1 \in 0 .. a /\ ~(b <= b - 1)
    BY <1>2, <1>4
  <2>2. ASSUME NEW c \in b - 1 .. a - 1 PROVE prog[c].op = "imm64"
    <3>1. c = b - 1 \/ c \in b .. a - 1
      BY <1>2
    <3> QED
      BY <1>2, <1>4, <3>1
  <2>3. b - 1 \in B
    BY <2>1, <2>2
  <2> QED
    BY <1>2, <2>1, <2>3
<1> QED
  BY <1>2, <1>3, <1>4

\* Which of them are second slots.
LEMMA OddRunAlternates ==
  ASSUME NEW a \in Nat
  PROVE  OddRun(a) <=> a > 0 /\ prog[a - 1].op = "imm64" /\ ~OddRun(a - 1)
<1>1. CASE a = 0
  BY <1>1 DEF OddRun
<1>2. CASE a > 0 /\ prog[a - 1].op # "imm64"
  <2> SUFFICES ASSUME OddRun(a) PROVE FALSE
    BY <1>2
  <2>1. PICK b \in 0 .. a : (\A c \in b .. a - 1 : prog[c].op = "imm64") /\ (a - b) % 2 = 1
    BY DEF OddRun
  <2>2. b = a \/ a - 1 \in b .. a - 1
    OBVIOUS
  <2>3. b = a
    BY <1>2, <2>1, <2>2
  <2>4. (a - b) % 2 = 0
    BY <2>3
  <2> QED
    BY <2>1, <2>4
<1>3. CASE a > 0 /\ prog[a - 1].op = "imm64"
  <2>1. PICK b \in 0 .. a - 1 : /\ \A c \in b .. (a - 1) - 1 : prog[c].op = "imm64"
                                /\ b = 0 \/ prog[b - 1].op # "imm64"
    <3>1. a - 1 \in Nat
      BY <1>3
    <3> QED
      BY <3>1, RunBegins
  <2>2. \A c \in b .. a - 1 : prog[c].op = "imm64"
    <3>1. \A c \in b .. a - 1 : c = a - 1 \/ c \in b .. (a - 1) - 1
      OBVIOUS
    <3> QED
      BY <1>3, <2>1, <3>1
  <2>3. ASSUME NEW d \in 0 .. a, \A c \in d .. a - 1 : prog[c].op = "imm64",
               d = 0 \/ prog[d - 1].op # "imm64"
        PROVE  d = b
    <3>1. ~(d < b)
      <4> SUFFICES ASSUME d < b PROVE FALSE
        OBVIOUS
      <4>1. b # 0 /\ b - 1 \in d .. a - 1
        OBVIOUS
      <4> QED
        BY <2>1, <2>3, <4>1
    <3>2. ~(b < d)
      <4> SUFFICES ASSUME b < d PROVE FALSE
        OBVIOUS
      <4>1. d # 0 /\ d - 1 \in b .. a - 1
        OBVIOUS
      <4> QED
        BY <2>2, <2>3, <4>1
    <3> QED
      BY <3>1, <3>2
  <2>4. ASSUME NEW d \in 0 .. a - 1, \A c \in d .. (a - 1) - 1 : prog[c].op = "imm64",
               d = 0 \/ prog[d - 1].op # "imm64"
        PROVE  d = b
    <3>1. \A c \in d .. a - 1 : prog[c].op = "imm64"
      <4>1. \A c \in d .. a - 1 : c = a - 1 \/ c \in d .. (a - 1) - 1
        OBVIOUS
      <4> QED
        BY <1>3, <2>4, <4>1
    <3>2. d \in 0 .. a
      OBVIOUS
    <3> QED
      BY <2>3, <2>4, <3>1, <3>2
  <2>5. OddRun(a) <=> (a - b) % 2 = 1
    BY <2>1, <2>2, <2>3 DEF OddRun
  <2>6. OddRun(a - 1) <=> ((a - 1) - b) % 2 = 1
    BY <2>1, <2>4 DEF OddRun
  <2>7. (a - b) % 2 = 1 <=> ~(((a - 1) - b) % 2 = 1)
    BY <1>3
  <2> QED
    BY <1>3, <2>5, <2>6, <2>7
<1> QED
  BY <1>1, <1>2, <1>3

\* SecondSlot is the function its recursion says it is.
LEMMA SecondSlotIs ==
  ASSUME NEW a \in Nat
  PROVE  SecondSlot[a] <=> a > 0 /\ prog[a - 1].op = "imm64" /\ ~SecondSlot[a - 1]
<1> DEFINE F == [b \in Nat |-> OddRun(b)]
<1>1. ASSUME NEW b \in Nat
      PROVE  F[b] = (b > 0 /\ prog[b - 1].op = "imm64" /\ ~F[b - 1])
  <2>1. OddRun(b) <=> b > 0 /\ prog[b - 1].op = "imm64" /\ ~OddRun(b - 1)
    BY OddRunAlternates
  <2>2. F[b] = OddRun(b) /\ OddRun(b) \in BOOLEAN
    BY DEF OddRun
  <2>3. b > 0 => F[b - 1] = OddRun(b - 1)
    <3>1. b > 0 => b - 1 \in Nat
      OBVIOUS
    <3> QED
      BY <3>1
  <2> HIDE DEF F
  <2> QED
    BY <2>1, <2>2, <2>3
<1> HIDE DEF F
<1>2. F = [b \in Nat |-> b > 0 /\ prog[b - 1].op = "imm64" /\ ~F[b - 1]]
  <2>1. F = [b \in Nat |-> F[b]]
    BY DEF F
  <2> QED
    BY <1>1, <2>1
<1>3. \E G : G = [b \in Nat |-> b > 0 /\ prog[b - 1].op = "imm64" /\ ~G[b - 1]]
  BY <1>2
<1>4. SecondSlot = [b \in Nat |-> b > 0 /\ prog[b - 1].op = "imm64" /\ ~SecondSlot[b - 1]]
  BY <1>3 DEF SecondSlot
<1> QED
  BY <1>4

\* What the analysis sees of one instruction.
LEMMA SeenOp ==
  ASSUME NEW in \in AnyInsn
  PROVE  /\ in.cls \in {"alu", "alu64"} => Seen(in).op \in AluKinds
         /\ in.cls = "ld" => Seen(in).op = IF Wide(in) THEN "imm64" ELSE "other"
         /\ in.cls \in {"ldx", "st"} => Seen(in).op = in.cls
         /\ in.cls = "stx" => Seen(in).op \in MemKinds
         /\ in.cls \in {"jmp", "jmp32"} => Seen(in).op \in JmpKinds \cup {"other"}
<1>1. CallKind[in.src] \in {"call", "subprog", "kfunc", "other"}
  BY DEF AnyInsn, CallKind
<1>2. AluKind(in) \in AluKinds
  BY DEF AluKind, AluKinds
<1>3. StoreKind(in) \in MemKinds
  BY DEF StoreKind, MemKinds
<1>4. JumpKind(in) \in JmpKinds \cup {"other"}
  BY <1>1 DEF JumpKind, JmpKinds
<1>5. in.cls = "ldx" \/ in.cls = "st" => Kind(in) = in.cls
  BY DEF Kind
<1> QED
  BY <1>2, <1>3, <1>4, <1>5 DEF Seen, Kind

\* An instruction that may go on, where the analysis follows it.
LEMMA OnwardIsSucc ==
  ASSUME NEW a \in Addr, NEW in \in AnyInsn, prog[a] = Seen(in), ~Refused(a), ~SecondSlot[a]
  PROVE  Onward(in, a) \cap Addr \subseteq Succ(a)
<1>1. Succ(a) # NotInModel /\ a \in Int /\ prog[a].op = Seen(in).op /\ prog[a].off = Distance(in)
  BY DEF Refused, Addr, Seen
<1>2. CASE in.cls = "ld"
  <2>1. CASE Wide(in)
    <3>1. prog[a].op = "imm64"
      BY <1>1, <1>2, <2>1, SeenOp
    <3>2. a + 2 \in Addr => a + 2 \in Succ(a)
      BY <1>1, <3>1 DEF Succ, OnlyIf, Jumps
    <3> QED
      BY <1>2, <2>1, <3>2 DEF Onward
  <2>2. CASE ~Wide(in)
    BY <1>2, <2>2 DEF Onward
  <2> QED
    BY <2>1, <2>2
<1>3. CASE in.cls \in {"alu", "alu64", "ldx", "st", "stx"}
  <2>1. prog[a].op \in AluKinds \cup MemKinds
    BY <1>1, <1>3, SeenOp DEF MemKinds
  <2>2. prog[a].op \notin {"imm64", "exit", "gotox"} \cup Jumps
    BY <2>1 DEF AluKinds, MemKinds, Jumps
  <2>3. a + 1 \in Addr => a + 1 \in Succ(a)
    BY <1>1, <2>2 DEF Succ, OnlyIf, Jumps
  <2>4. Onward(in, a) = {a + 1}
    BY <1>3 DEF Onward
  <2> QED
    BY <2>3, <2>4
<1>4. CASE in.cls \in {"jmp", "jmp32"}
  <2>1. prog[a].op = JumpKind(in)
    BY <1>1, <1>4 DEF Seen, Kind
  <2>2. CASE in.op = "ja"
    <3>1. prog[a].op = IF in.x THEN "gotox" ELSE "ja"
      BY <2>1, <2>2 DEF JumpKind
    <3>2. prog[a].op = "ja"
      BY <1>1, <3>1 DEF Succ
    <3>3. a + 1 + prog[a].off \in Succ(a)
      BY <1>1, <3>2 DEF Succ, OnlyIf, Jumps
    <3>4. Onward(in, a) = {a + 1 + Distance(in)}
      BY <1>4, <2>2 DEF Onward
    <3> QED
      BY <1>1, <3>3, <3>4
  <2>3. CASE in.op \in JumpOps
    <3>1. in.op \notin {"exit", "ja", "may_goto", "call"}
      BY <2>3 DEF JumpOps
    <3>2. prog[a].op \in {"cond_x", "cond_k"}
      BY <2>1, <3>1 DEF JumpKind
    <3>3. Distance(in) = in.off
      BY <3>1 DEF Distance
    <3>4. /\ a + 1 + prog[a].off \in Succ(a)
          /\ a + 1 \in Addr => a + 1 \in Succ(a)
      BY <1>1, <3>2 DEF Succ, OnlyIf, Jumps
    <3>5. Onward(in, a) = {a + 1, a + 1 + in.off}
      BY <1>4, <2>3, <3>1 DEF Onward
    <3> QED
      BY <1>1, <3>3, <3>4, <3>5
  <2>4. CASE in.op \notin {"ja"} \cup JumpOps
    BY <1>4, <2>4 DEF Onward
  <2> QED
    BY <2>2, <2>3, <2>4
<1> QED
  BY <1>2, <1>3, <1>4 DEF AnyInsn

\* The program run is the one analysed.
SameProgram ==
  text \in Texts /\ prog = AsLive(text) /\ n = Cardinality(DOMAIN text)

\* What that says of each instruction.
LEMMA TextIs ==
  ASSUME SameProgram
  PROVE  /\ DOMAIN text = Addr /\ n \in Nat
         /\ \A a \in Addr : /\ text[a] \in AnyInsn /\ prog[a] = Seen(text[a])
                            /\ text[a].op # "load_acq"
<1>1. n \in Nat /\ text \in [0 .. n - 1 -> AnyInsn] /\ \A a \in DOMAIN text : text[a].op # "load_acq"
  BY LiveRefAssumption DEF SameProgram
<1>2. DOMAIN text = Addr
  BY <1>1 DEF Addr
<1>3. \A a \in Addr : prog[a] = Seen(text[a])
  BY <1>2 DEF SameProgram, AsLive
<1> QED
  BY <1>1, <1>2, <1>3

\* A second slot has nothing that could be executed.
LEMMA SlotsAreSlots ==
  ASSUME SameProgram, NEW a \in Addr, SecondSlot[a]
  PROVE  text[a].cls = "ld" /\ text[a].op = "slot" /\ Seen(text[a]).op = "other"
<1>1. a > 0 /\ prog[a - 1].op = "imm64" /\ a - 1 \in Addr /\ a - 1 + 1 = a
  <2>1. a \in Nat
    BY TextIs DEF Addr
  <2>2. a > 0 /\ prog[a - 1].op = "imm64"
    BY <2>1, SecondSlotIs
  <2> QED
    BY <2>1, <2>2, TextIs DEF Addr
<1>2. Seen(text[a - 1]).op = "imm64" /\ text[a - 1] \in AnyInsn
  BY <1>1, TextIs
<1>3. Wide(text[a - 1])
  <2>1. "imm64" \notin AluKinds \cup MemKinds \cup JmpKinds
    BY DEF AluKinds, MemKinds, JmpKinds
  <2>2. text[a - 1].cls \in {"alu", "alu64", "ld", "ldx", "st", "stx", "jmp", "jmp32"}
    BY <1>2 DEF AnyInsn
  <2> QED
    BY <1>2, <2>1, <2>2, SeenOp
<1>4. text[a].cls = "ld" /\ text[a].op = "slot"
  BY <1>1, <1>3, TextIs, LiveRefAssumption DEF SameProgram
<1>5. text[a] \in AnyInsn /\ ~Wide(text[a])
  BY <1>4, TextIs DEF Wide
<1> QED
  BY <1>4, <1>5, SeenOp

\* Runs that a register called dead has not told apart.
Alike(s, t) ==
  /\ Twins(s, t)
  /\ Running(s) /\ s.pc \in Addr => \A r \in live[s.pc] : s.r[r] = t.r[r]
  /\ s.status = "ok" => s.r[0] = t.r[0]

\* What an instruction uses it is given alike.
LEMMA UsesAlike ==
  ASSUME SameProgram, Shape, IsSolution(live), NEW s, NEW t, Alike(s, t), Running(s), s.pc \in Addr
  PROVE  \A j \in Use(Seen(text[s.pc])) \cap Reg : s.r[j] = t.r[j]
<1>1. PICK a \in Addr : a = s.pc
  OBVIOUS
<1>2. prog[a] = Seen(text[a])
  BY TextIs
<1>3. CASE SecondSlot[a]
  <2>1. Use(Seen(text[a])) = {}
    BY <1>3, SlotsAreSlots DEF Use, OnlyIf, UsesDst, UsesSrc, Calls
  <2> QED
    BY <1>1, <2>1
<1>4. CASE ~SecondSlot[a]
  <2>1. Use(prog[a]) \cap Tracked \subseteq live[a]
    BY <1>4 DEF IsSolution, Equation, Transfer
  <2>2. \A j \in Reg : j \in Tracked \/ j = 10
    BY DEF Reg, Tracked
  <2> QED
    BY <1>1, <1>2, <2>1, <2>2 DEF Alike, Twins
<1> QED
  BY <1>3, <1>4

\* One turn of runs that are alike.
LEMMA TurnAlike ==
  ASSUME SameProgram, Shape, \A a \in Addr : ~Refused(a), IsSolution(live),
         NEW s, NEW t, Alike(s, t), Running(s)
  PROVE  Alike(Exec(text, s), Exec(text, t))
<1>1. PICK s1, t1 : s1 = Exec(text, s) /\ t1 = Exec(text, t)
  OBVIOUS
<1>2. DOMAIN text = Addr /\ Twins(s, t) /\ t.pc = s.pc
  BY TextIs DEF Alike, Twins
<1>3. CASE s.pc \notin Addr
  <2>1. s1 = Stop(s, "badpc") /\ t1 = Stop(t, "badpc")
    BY <1>1, <1>2, <1>3 DEF Exec
  <2>2. Follows({}, {}, s, t, s1, t1)
    BY <1>2, <2>1, StopFollows
  <2> QED
    BY <1>1, <2>2 DEF Follows, Alike
<1>4. CASE s.pc \in Addr
  <2>1. PICK a \in Addr, in \in AnyInsn : a = s.pc /\ in = text[a]
    BY <1>4, TextIs
  <2>2. \A j \in Use(Seen(in)) \cap Reg : s.r[j] = t.r[j]
    BY <1>4, <2>1, UsesAlike
  <2>3. Turned(in, s, t, s1, t1)
    <3>1. in.op # "load_acq"
      BY <2>1, TextIs
    <3> QED
      BY <1>1, <1>2, <1>4, <2>1, <2>2, <3>1, ExecFollows
  <2>4. CASE Follows(Def(Seen(in)), Onward(in, a), s, t, s1, t1)
    <3>1. Twins(s1, t1) /\ s1.status # "ok"
      BY <2>4 DEF Follows
    <3>2. ASSUME Running(s1), s1.pc \in Addr, NEW j \in live[s1.pc]
          PROVE  s1.r[j] = t1.r[j]
      <4>1. /\ s1.pc \in Onward(in, a)
            /\ \A k \in Reg : s.r[k] = t.r[k] \/ k \in Def(Seen(in)) => s1.r[k] = t1.r[k]
        BY <2>4, <3>2 DEF Follows
      <4>2. ~SecondSlot[a]
        <5> SUFFICES ASSUME SecondSlot[a] PROVE FALSE
          OBVIOUS
        <5>1. in.cls = "ld" /\ ~Wide(in)
          BY <2>1, SlotsAreSlots DEF Wide
        <5> QED
          BY <4>1, <5>1 DEF Onward
      <4>3. prog[a] = Seen(in)
        BY <2>1, TextIs
      <4>4. s1.pc \in Succ(a)
        BY <3>2, <4>1, <4>2, <4>3, OnwardIsSucc
      <4>5. live[a] = Transfer(a, live) /\ j \in Tracked /\ j \in Reg
        BY <3>2, <4>2 DEF IsSolution, Equation, Shape, Tracked, Reg
      <4>6. j \in After(a, live)
        BY <3>2, <4>4 DEF After
      <4>7. j \in live[a] \/ j \in Def(Seen(in))
        BY <4>3, <4>5, <4>6 DEF Transfer
      <4>8. j \in live[a] => s.r[j] = t.r[j]
        BY <1>4, <2>1 DEF Alike
      <4> QED
        BY <4>1, <4>5, <4>7, <4>8
    <3> QED
      BY <1>1, <3>1, <3>2 DEF Alike
  <2>5. CASE in.op = "exit" /\ in.cls = "jmp" /\ Ended(s, t, s1, t1)
    <3>1. Seen(in).op = "exit"
      BY <2>5 DEF Seen, Kind, JumpKind
    <3>2. 0 \in Use(Seen(in)) /\ 0 \in Reg
      BY <3>1 DEF Use, OnlyIf, Reg
    <3>3. s.r[0] = t.r[0]
      BY <2>2, <3>2
    <3> QED
      BY <1>1, <2>5, <3>3 DEF Ended, Alike, Running
  <2> QED
    BY <2>1, <2>3, <2>4, <2>5 DEF Turned
<1> QED
  BY <1>3, <1>4

\* Runs that have not begun.
LEMMA WaitingAlike == Alike(NotBegun, NotBegun)
<1>1. Zero = [j \in Reg |-> Zero[j]]
  BY DEF Zero, Seeded
<1>2. NotBegun = [pc |-> 0, r |-> Zero, mem |-> Fresh, left |-> Budget, status |-> "waiting"]
  BY DEF NotBegun, Begin, Stop
<1>3. Twins(NotBegun, NotBegun)
  BY <1>1, <1>2 DEF Twins, IsRun
<1> QED
  BY <1>2, <1>3 DEF Alike, Running

\* Runs that begin from registers that agree on the live ones.
LEMMA BeginAlike ==
  ASSUME Shape, NEW seeds, NEW other
  PROVE  Alike(Begin(0, Seeds(seeds, {}, other), Fresh),
               Begin(0, Seeds(seeds, IF n = 0 THEN {} ELSE Varied \ live[0], other), Fresh))
<1>1. PICK dead : dead = IF n = 0 THEN {} ELSE Varied \ live[0]
  OBVIOUS
<1>2. PICK r, q : r = Seeds(seeds, {}, other) /\ q = Seeds(seeds, dead, other)
  OBVIOUS
<1>3. r = [j \in Reg |-> r[j]] /\ q = [j \in Reg |-> q[j]]
  BY <1>2 DEF Seeds
<1>4. \A j \in Reg \ dead : r[j] = q[j]
  BY <1>2 DEF Seeds
<1>5. 10 \in Reg \ dead
  BY <1>1, LiveRefAssumption DEF Reg
<1>6. PICK s, t : s = Begin(0, r, Fresh) /\ t = Begin(0, q, Fresh)
  OBVIOUS
<1>7. /\ s = [pc |-> 0, r |-> r, mem |-> Fresh, left |-> Budget, status |-> "running"]
      /\ t = [pc |-> 0, r |-> q, mem |-> Fresh, left |-> Budget, status |-> "running"]
  BY <1>6 DEF Begin
<1>8. Twins(s, t)
  BY <1>3, <1>4, <1>5, <1>7 DEF Twins, IsRun
<1>9. ASSUME 0 \in Addr, NEW j \in live[0] PROVE r[j] = q[j]
  <2>1. n # 0 /\ j \in Reg
    BY <1>9 DEF Addr, Shape, Tracked, Reg
  <2> QED
    BY <1>1, <1>4, <1>9, <2>1
<1>10. Alike(s, t)
  BY <1>7, <1>8, <1>9 DEF Alike
<1> QED
  BY <1>1, <1>2, <1>6, <1>10

\* The runs of the analysed program: before the analysis is done there are none.
RInv ==
  /\ SameProgram
  /\ pc # "done" => one = NotBegun /\ two = NotBegun
  /\ Supported => Alike(one, two)

\* RInv holds before the analysis,
LEMMA InitRInv == RunInit => RInv
<1> SUFFICES ASSUME RunInit PROVE RInv
  OBVIOUS
<1>1. SameProgram /\ pc = "setup" /\ one = NotBegun /\ two = NotBegun
  <2>1. DOMAIN prog = DOMAIN text
    BY DEF RunInit, AsLive
  <2> QED
    BY <2>1 DEF RunInit, Init, SameProgram
<1> QED
  BY <1>1, WaitingAlike DEF RInv, Supported

\* and every step keeps it.
LEMMA NextRInv ==
  IInv /\ Converges /\ RInv /\ [RunNext]_<<vars, runs>> => RInv'
<1> SUFFICES ASSUME IInv, Converges, RInv, [RunNext]_<<vars, runs>>
             PROVE  RInv'
  OBVIOUS
<1>1. UNCHANGED <<prog, n, text>>
  BY DEF RunNext, Analysing, Analyse, Scan, Visit, EndPass, Begins, Turns, vars, runs
<1>2. SameProgram' /\ Addr' = Addr /\ NotBegun' = NotBegun
  BY <1>1 DEF RInv, SameProgram, AsLive, Addr
<1>3. CASE Analysing
  <2>1. pc # "done" /\ UNCHANGED <<one, two>>
    BY <1>3 DEF Analysing, Analyse, Scan, Visit, EndPass, runs
  <2>2. one' = NotBegun /\ two' = NotBegun
    BY <2>1 DEF RInv
  <2>3. Alike(one, two)'
    BY <1>2, <2>2, WaitingAlike DEF Alike
  <2> QED
    BY <1>2, <2>2, <2>3 DEF RInv
<1>4. ASSUME UNCHANGED vars, Alike(one', two') \/ ~Supported, pc = "done" \/ UNCHANGED runs
      PROVE  RInv'
  <2>1. UNCHANGED <<pc, status, live>>
    BY <1>4 DEF vars
  <2>2. Alike(one, two)' <=> Alike(one', two')
    BY <1>2, <2>1 DEF Alike
  <2>3. pc # "done" => one' = NotBegun /\ two' = NotBegun
    BY <1>4 DEF RInv, runs
  <2> QED
    BY <1>2, <1>4, <2>1, <2>2, <2>3 DEF RInv, Supported
<1>5. Shape
  BY DEF IInv
<1>6. CASE Begins
  <2>1. Alike(one', two')
    BY <1>5, <1>6, BeginAlike DEF Begins
  <2> QED
    BY <1>4, <1>6, <2>1 DEF Begins
<1>7. CASE Turns
  <2>1. Running(one) /\ one' = Exec(text, one) /\ two' = Exec(text, two) /\ UNCHANGED vars
    BY <1>7 DEF Turns, vars
  <2>2. pc = "done"
    <3>1. NotBegun.status = "waiting"
      BY DEF NotBegun, Begin, Stop
    <3> QED
      BY <2>1, <3>1 DEF RInv, Running
  <2>3. Supported => Alike(one', two')
    <3> SUFFICES ASSUME Supported PROVE Alike(one', two')
      OBVIOUS
    <3>1. IsSolution(live) /\ \A a \in Addr : ~Refused(a)
      BY DEF Converges, Analysed, Supported, IInv, Accepted
    <3> QED
      BY <1>5, <2>1, <3>1, TurnAlike DEF RInv
  <2> QED
    BY <1>4, <2>1, <2>2, <2>3
<1>8. CASE UNCHANGED <<vars, runs>>
  <2>1. UNCHANGED vars /\ UNCHANGED runs /\ one' = one /\ two' = two
    BY <1>8 DEF runs
  <2> QED
    BY <1>4, <2>1 DEF RInv
<1> QED
  BY <1>3, <1>6, <1>7, <1>8 DEF RunNext

\* The runs leave the analysis as it is.
LEMMA RunsAnalyse == RunSpec => Spec
<1>1. RunInit => Init
  BY DEF RunInit
<1>2. [RunNext]_<<vars, runs>> => [Next]_vars
  BY DEF RunNext, Analysing, Begins, Turns, Next, AnalysisStep, vars
<1> QED
  BY <1>1, <1>2, PTL DEF RunSpec, Spec

\* For every program bpflive.h accepts, whatever its instructions, words, memory
\* and budget: two runs of the interpreter that begin with the same words in the
\* registers called live at its start take the same path, agree at every
\* instruction on the registers called live there and on memory, and end alike.
THEOREM DeadRegistersAreUnread == RunSpec => []DeadIsUnread
<1>1. Shape /\ RInv => DeadIsUnread
  BY DEF RInv, Alike, Twins, DeadIsUnread
<1>2. IInv => Shape
  BY DEF IInv
<1> QED
  BY <1>1, <1>2, InitRInv, NextRInv, RunsAnalyse, Invariance, GuardCutsNothing, PTL DEF RunSpec

-----------------------------------------------------------------------------
(* A run of the interpreter: what it holds are numbers, and its accesses   *)
(* to memory are what AccessIsChecked says.                                *)

\* The sums of the parts of f: g gives each set of its arguments the sum there.
Sums(g, f, S) ==
  g = [s \in SUBSET S |-> IF s = {} THEN 0
                          ELSE f[CHOOSE x \in s : TRUE] + g[s \ {CHOOSE x \in s : TRUE}]]

\* The sum of a function is the last of the sums of its parts, where there are such
LEMMA SumIsOfSums ==
  ASSUME NEW f, \E g : Sums(g, f, DOMAIN f)
  PROVE  \E g : Sums(g, f, DOMAIN f) /\ SumFunction(f) = g[DOMAIN f]
<1> DEFINE g == CHOOSE g : g = [s \in SUBSET (DOMAIN f) |-> IF s = {} THEN 0
                          ELSE f[CHOOSE x \in s : TRUE] + g[s \ {CHOOSE x \in s : TRUE}]]
<1>1. SumFunction(f) = g[DOMAIN f]
  BY DEF SumFunction, SumFunctionOnSet, FoldFunctionOnSet, MapThenFoldSet
<1>2. Sums(g, f, DOMAIN f)
  BY DEF Sums
<1> QED
  BY <1>1, <1>2

\* The same, for the sets of up to m arguments.
SumsTo(g, f, S, m) ==
  /\ DOMAIN g = {s \in SUBSET S : Cardinality(s) <= m}
  /\ \A s \in DOMAIN g :
       g[s] = IF s = {} THEN 0
              ELSE f[CHOOSE x \in s : TRUE] + g[s \ {CHOOSE x \in s : TRUE}]

\* and over a finite set there are
LEMMA SumsExist ==
  ASSUME NEW f, NEW S, IsFiniteSet(S)
  PROVE  \E g : Sums(g, f, S)
<1> DEFINE Bad == {m \in Nat : ~ \E g : SumsTo(g, f, S, m)}
           Rest(s) == s \ {CHOOSE x \in s : TRUE}
<1>0. \A s \in SUBSET S : /\ IsFiniteSet(s) /\ Cardinality(s) \in Nat
                          /\ Cardinality(s) = 0 <=> s = {}
  BY FS_Subset, FS_CardinalityType, FS_EmptySet
<1>1. \A s \in SUBSET S : s # {} => /\ Rest(s) \in SUBSET S
                                    /\ Cardinality(Rest(s)) = Cardinality(s) - 1
  BY <1>0, FS_RemoveElement
<1>2. 0 \notin Bad
  <2> DEFINE g == [s \in {s \in SUBSET S : Cardinality(s) <= 0} |-> 0]
  <2>1. \A s \in DOMAIN g : s = {} /\ g[s] = 0
    BY <1>0
  <2>2. DOMAIN g = {s \in SUBSET S : Cardinality(s) <= 0}
    OBVIOUS
  <2> HIDE DEF g
  <2>3. SumsTo(g, f, S, 0)
    BY <2>1, <2>2 DEF SumsTo
  <2> QED
    BY <2>3
<1>3. ASSUME NEW m \in Nat, m \notin Bad PROVE m + 1 \notin Bad
  <2>1. PICK g : SumsTo(g, f, S, m)
    BY <1>3
  <2> DEFINE h == [s \in {s \in SUBSET S : Cardinality(s) <= m + 1} |->
                    IF Cardinality(s) <= m THEN g[s]
                    ELSE f[CHOOSE x \in s : TRUE] + g[Rest(s)]]
  <2>2. DOMAIN h = {s \in SUBSET S : Cardinality(s) <= m + 1}
    OBVIOUS
  <2>3. ASSUME NEW s \in SUBSET S, Cardinality(s) <= m + 1, s # {}
        PROVE  Rest(s) \in DOMAIN g /\ h[Rest(s)] = g[Rest(s)]
    <3>1. Rest(s) \in SUBSET S /\ Cardinality(Rest(s)) <= m
      BY <1>0, <1>1, <2>3
    <3> HIDE DEF Rest
    <3>2. Cardinality(Rest(s)) <= m + 1
      BY <1>0, <3>1
    <3> QED
      BY <2>1, <3>1, <3>2 DEF SumsTo
  <2>4. ASSUME NEW s \in DOMAIN h
        PROVE  h[s] = IF s = {} THEN 0 ELSE f[CHOOSE x \in s : TRUE] + h[Rest(s)]
    <3>1. CASE Cardinality(s) <= m
      <4>1. s \in DOMAIN g /\ h[s] = g[s]
        BY <2>1, <2>4, <3>1 DEF SumsTo
      <4>2. g[s] = IF s = {} THEN 0 ELSE f[CHOOSE x \in s : TRUE] + g[Rest(s)]
        BY <2>1, <4>1 DEF SumsTo
      <4> HIDE DEF h, Rest
      <4> QED
        BY <2>2, <2>3, <2>4, <4>1, <4>2
    <3>2. CASE ~(Cardinality(s) <= m)
      <4>1. s # {} /\ h[s] = f[CHOOSE x \in s : TRUE] + g[Rest(s)]
        BY <1>0, <2>4, <3>2
      <4> HIDE DEF h, Rest
      <4> QED
        BY <2>2, <2>3, <2>4, <4>1
    <3> QED
      BY <3>1, <3>2
  <2>5. SumsTo(h, f, S, m + 1)
    <3> HIDE DEF h
    <3> QED
      BY <2>2, <2>4 DEF SumsTo
  <2> QED
    BY <2>5
<1>4. Bad = {}
  <2> SUFFICES ASSUME Bad # {} PROVE FALSE
    OBVIOUS
  <2>1. PICK m \in Bad : \A k \in Bad : m <= k
    <3>1. Bad \in SUBSET Nat
      OBVIOUS
    <3> QED
      BY <3>1, MinOfNats
  <2>2. m # 0 /\ m - 1 \in Nat /\ m - 1 \notin Bad /\ m - 1 + 1 = m
    BY <1>2, <2>1
  <2> HIDE DEF Bad
  <2> QED
    BY <1>3, <2>1, <2>2
<1>5. PICK m \in Nat : m = Cardinality(S)
  BY FS_CardinalityType
<1>6. PICK g : SumsTo(g, f, S, m)
  BY <1>4
<1>7. DOMAIN g = SUBSET S
  <2>1. \A s \in SUBSET S : Cardinality(s) <= m
    BY <1>5, FS_Subset
  <2> QED
    BY <1>6, <2>1 DEF SumsTo
<1>8. PICK h : h = [s \in SUBSET S |-> g[s]]
  OBVIOUS
<1>9. \A s \in SUBSET S : h[s] = IF s = {} THEN 0
        ELSE f[CHOOSE x \in s : TRUE] + h[s \ {CHOOSE x \in s : TRUE}]
  BY <1>6, <1>7, <1>8 DEF SumsTo
<1>10. h = [s \in SUBSET S |-> h[s]]
  BY <1>8
<1>11. h = [s \in SUBSET S |-> IF s = {} THEN 0
        ELSE f[CHOOSE x \in s : TRUE] + h[s \ {CHOOSE x \in s : TRUE}]]
  BY <1>9, <1>10, Zenon
<1> QED
  BY <1>11 DEF Sums

\* The sums of the parts of a function to the integers are integers.
LEMMA PartsAreInt ==
  ASSUME NEW S, IsFiniteSet(S), NEW f \in [S -> Int], NEW g, Sums(g, f, S)
  PROVE  \A s \in SUBSET S : g[s] \in Int
<1> DEFINE Bad == {Cardinality(s) : s \in {s \in SUBSET S : g[s] \notin Int}}
<1>0. \A s \in SUBSET S : IsFiniteSet(s) /\ Cardinality(s) \in Nat
  BY FS_Subset, FS_CardinalityType
<1>2. Bad = {}
  <2> SUFFICES ASSUME Bad # {} PROVE FALSE
    OBVIOUS
  <2>1. PICK m \in Bad : \A k \in Bad : m <= k
    <3>1. Bad \in SUBSET Nat
      BY <1>0
    <3> HIDE DEF Bad
    <3> QED
      BY <3>1, MinOfNats
  <2>2. PICK s \in SUBSET S : g[s] \notin Int /\ m = Cardinality(s)
    BY <2>1
  <2>3. PICK x, u : x = (CHOOSE y \in s : TRUE) /\ u = s \ {x}
    OBVIOUS
  <2>4. g[s] = IF s = {} THEN 0 ELSE f[x] + g[u]
    BY <2>3 DEF Sums
  <2>5. s # {}
    BY <2>2, <2>4
  <2>6. x \in s /\ u \in SUBSET S
    BY <2>3, <2>5
  <2>7. Cardinality(u) = m - 1 /\ m \in Nat
    BY <1>0, <2>2, <2>3, <2>6, FS_RemoveElement
  <2>8. g[u] \in Int
    <3> SUFFICES ASSUME g[u] \notin Int PROVE FALSE
      OBVIOUS
    <3>1. Cardinality(u) \in Bad
      BY <2>6
    <3> HIDE DEF Bad
    <3> QED
      BY <2>1, <2>7, <3>1
  <2>9. f[x] \in Int
    BY <2>6
  <2> QED
    BY <2>2, <2>4, <2>5, <2>8, <2>9
<1> QED
  BY <1>2

\* A sum of integers is one.
LEMMA SumIsInt ==
  ASSUME NEW S, IsFiniteSet(S), NEW f \in [S -> Int]
  PROVE  SumFunction(f) \in Int
<1>1. PICK g : Sums(g, f, S) /\ SumFunction(f) = g[S]
  <2>1. DOMAIN f = S
    OBVIOUS
  <2> QED
    BY <2>1, SumsExist, SumIsOfSums
<1> QED
  BY <1>1, PartsAreInt

\* The sums when any argument may be the first to be added.
InAnyOrder(g, f, S) == \A s \in SUBSET S : \A x \in s : g[s] = f[x] + g[s \ {x}]

\* Any may be.
LEMMA AnyIsFirst ==
  ASSUME NEW S, IsFiniteSet(S), NEW f \in [S -> Int], NEW g, Sums(g, f, S)
  PROVE  InAnyOrder(g, f, S)
<1> DEFINE Odd(s) == \E x \in s : g[s] # f[x] + g[s \ {x}]
           Bad == {Cardinality(s) : s \in {s \in SUBSET S : Odd(s)}}
<1>0. \A s \in SUBSET S : IsFiniteSet(s) /\ Cardinality(s) \in Nat
  BY FS_Subset, FS_CardinalityType
<1>1. \A s \in SUBSET S : g[s] \in Int
  BY PartsAreInt
<1> SUFFICES ASSUME Bad # {} PROVE FALSE
  BY DEF InAnyOrder
<1>2. PICK m \in Bad : \A k \in Bad : m <= k
  <2>1. Bad \in SUBSET Nat
    BY <1>0
  <2> HIDE DEF Bad
  <2> QED
    BY <2>1, MinOfNats
<1>3. PICK s \in SUBSET S : Odd(s) /\ m = Cardinality(s)
  BY <1>2
<1>4. PICK x \in s : g[s] # f[x] + g[s \ {x}]
  BY <1>3
<1>5. PICK y : y = CHOOSE z \in s : TRUE
  OBVIOUS
<1>6. y \in s /\ g[s] = f[y] + g[s \ {y}]
  BY <1>4, <1>5 DEF Sums
<1>7. x # y
  BY <1>4, <1>6
<1>8. PICK u, v, w : u = s \ {y} /\ v = s \ {x} /\ w = s \ {x, y}
  OBVIOUS
<1>9. /\ u \in SUBSET S /\ v \in SUBSET S /\ w \in SUBSET S
      /\ x \in u /\ y \in v /\ w = u \ {x} /\ w = v \ {y}
  BY <1>6, <1>7, <1>8
<1>10. /\ Cardinality(u) = m - 1 /\ Cardinality(v) = m - 1 /\ m \in Nat
  BY <1>0, <1>3, <1>4, <1>6, <1>8, FS_RemoveElement
<1>11. ASSUME NEW t \in SUBSET S, Cardinality(t) = m - 1, NEW z \in t
       PROVE  g[t] = f[z] + g[t \ {z}]
  <2> SUFFICES ASSUME Odd(t) PROVE FALSE
    OBVIOUS
  <2>1. Cardinality(t) \in Bad
    BY <1>11
  <2> HIDE DEF Bad, Odd
  <2> QED
    BY <1>2, <1>10, <1>11, <2>1
<1>12. g[u] = f[x] + g[w] /\ g[v] = f[y] + g[w]
  BY <1>9, <1>10, <1>11
<1>13. PICK a, b, c : a = f[x] /\ b = f[y] /\ c = g[w]
  OBVIOUS
<1>14. a \in Int /\ b \in Int /\ c \in Int
  BY <1>1, <1>6, <1>9, <1>13
<1>15. g[s] = b + (a + c) /\ g[v] = b + c
  BY <1>6, <1>8, <1>12, <1>13
<1>16. g[s] = a + g[v]
  BY <1>14, <1>15
<1> QED
  BY <1>4, <1>8, <1>13, <1>16

-----------------------------------------------------------------------------
(* Powers of two, and division by them.                                    *)

\* A set of naturals that has the successor of each of its members below m, and 0, has all up to m.
LEMMA UpTo ==
  ASSUME NEW m \in Nat, NEW S, 0 \in S,
         \A b \in Nat : b < m /\ b \in S => b + 1 \in S
  PROVE  \A b \in Nat : b <= m => b \in S
<1> DEFINE Bad == {b \in Nat : b <= m /\ b \notin S}
<1> SUFFICES ASSUME Bad # {} PROVE FALSE
  OBVIOUS
<1>1. PICK c \in Bad : \A k \in Bad : c <= k
  <2>1. Bad \in SUBSET Nat
    OBVIOUS
  <2> QED
    BY <2>1, MinOfNats
<1>2. c # 0 /\ c - 1 \in Nat /\ c - 1 < m /\ c - 1 \in S /\ c - 1 + 1 = c
  BY <1>1
<1> QED
  BY <1>1, <1>2

\* A power of two is positive,
LEMMA PowersArePositive == \A b \in 0 .. 8 * Unit : 2 ^ b \in Int /\ 2 ^ b > 0
<1>1. PICK m \in Nat : m = 8 * Unit
  BY UnitAssumption
<1> DEFINE S == {b \in Nat : 2 ^ b \in Int /\ 2 ^ b > 0}
<1>2. 0 \in S
  BY PowersDouble
<1>3. ASSUME NEW b \in Nat, b < m, b \in S PROVE b + 1 \in S
  <2>1. 2 ^ (b + 1) = 2 * 2 ^ b
    BY <1>1, <1>3, PowersDouble
  <2>2. PICK p, q : p = 2 ^ b /\ q = 2 ^ (b + 1)
    OBVIOUS
  <2>3. p \in Int /\ p > 0 /\ q = 2 * p
    BY <1>3, <2>1, <2>2
  <2> QED
    BY <2>2, <2>3
<1> HIDE DEF S
<1>4. \A b \in Nat : b <= m => b \in S
  BY <1>2, <1>3, UpTo
<1> QED
  BY <1>1, <1>4 DEF S

\* the product of two powers is that of the sum,
LEMMA PowerOfSum ==
  ASSUME NEW a \in Nat, NEW b \in Nat, a + b <= 8 * Unit
  PROVE  2 ^ (a + b) = 2 ^ a * 2 ^ b
<1>0. a \in 0 .. 8 * Unit /\ 8 * Unit \in Nat
  BY UnitAssumption
<1>1. PICK x : x = 2 ^ a /\ x \in Int
  BY <1>0, PowersArePositive
<1> DEFINE S == {c \in Nat : 2 ^ (a + c) = x * 2 ^ c}
<1>2. 0 \in S
  <2>1. a + 0 = a /\ 2 ^ 0 = 1
    BY PowersDouble
  <2> QED
    BY <1>1, <2>1
<1>3. ASSUME NEW c \in Nat, c < b, c \in S PROVE c + 1 \in S
  <2>1. c \in 0 .. 8 * Unit - 1 /\ a + c \in 0 .. 8 * Unit - 1 /\ a + (c + 1) = (a + c) + 1
    BY <1>0, <1>3
  <2>2. 2 ^ (c + 1) = 2 * 2 ^ c /\ 2 ^ ((a + c) + 1) = 2 * 2 ^ (a + c) /\ 2 ^ c \in Int
    BY <2>1, PowersDouble, PowersArePositive
  <2>3. PICK p, q : p = 2 ^ c /\ q = 2 ^ (a + c)
    OBVIOUS
  <2>4. p \in Int /\ q = x * p
    BY <1>3, <2>2, <2>3
  <2>5. 2 * q = x * (2 * p)
    BY <1>1, <2>4
  <2> QED
    BY <2>1, <2>2, <2>3, <2>5
<1> HIDE DEF S
<1>4. b \in S
  BY <1>2, <1>3, UpTo
<1> QED
  BY <1>1, <1>4 DEF S

\* and a larger power is a multiple of a smaller one.
LEMMA PowerOfLess ==
  ASSUME NEW a \in Nat, NEW b \in Nat, a <= b, b <= 8 * Unit
  PROVE  /\ 2 ^ b = 2 ^ a * 2 ^ (b - a) /\ 2 ^ a <= 2 ^ b
         /\ 2 ^ a \in Int /\ 2 ^ a > 0 /\ 2 ^ (b - a) \in Int /\ 2 ^ (b - a) > 0
         /\ 2 ^ b \in Int /\ 2 ^ b > 0
<1>1. b - a \in Nat /\ a + (b - a) = b /\ 8 * Unit \in Nat
  BY UnitAssumption
<1>2. a \in 0 .. 8 * Unit /\ b \in 0 .. 8 * Unit /\ b - a \in 0 .. 8 * Unit
  BY <1>1
<1>3. PICK x, y, z : x = 2 ^ a /\ y = 2 ^ (b - a) /\ z = 2 ^ b
  OBVIOUS
<1>4. x \in Int /\ x > 0 /\ y \in Int /\ y > 0 /\ z \in Int /\ z > 0
  BY <1>2, <1>3, PowersArePositive
<1>5. z = x * y
  BY <1>1, <1>3, PowerOfSum
<1>6. x <= z
  BY <1>4, <1>5
<1> QED
  BY <1>3, <1>4, <1>5, <1>6

\* Quotient and residue are the only ones.
LEMMA DivisionIsUnique ==
  ASSUME NEW p \in Int, p > 0, NEW e \in Int, NEW f \in Int, 0 <= f, f < p,
         NEW y, y = p * e + f
  PROVE  y \div p = e /\ y % p = f
<1>1. PICK q, r : q = y \div p /\ r = y % p
  OBVIOUS
<1>2. y \in Int
  OBVIOUS
<1>3. q \in Int /\ r \in Int /\ 0 <= r /\ r < p /\ y = p * q + r
  BY <1>1, <1>2
<1>4. PICK d \in Int : d = q - e
  BY <1>3
<1>5. p * d = f - r
  <2>1. p * d = p * q - p * e
    BY <1>3, <1>4
  <2>2. p * q \in Int /\ p * e \in Int
    BY <1>3
  <2> QED
    BY <1>3, <2>1, <2>2
<1>6. d = 0
  <2>1. p * d < p /\ p * d > -p
    BY <1>3, <1>5
  <2>2. CASE d >= 1
    <3>1. p * d >= p
      BY <2>2
    <3> QED
      BY <2>1, <3>1
  <2>3. CASE d <= -1
    <3>1. p * d <= -p
      BY <2>3
    <3> QED
      BY <2>1, <3>1
  <2> QED
    BY <2>2, <2>3
<1>7. q = e
  BY <1>3, <1>4, <1>6
<1> QED
  BY <1>1, <1>3, <1>7

\* What a division leaves.
LEMMA DivisionIs ==
  ASSUME NEW p \in Int, p > 0, NEW y \in Int
  PROVE  \E e \in Int, f \in Int : /\ 0 <= f /\ f < p /\ y = p * e + f
                                   /\ y \div p = e /\ y % p = f
<1>1. PICK q, r : q = y \div p /\ r = y % p
  OBVIOUS
<1>2. q \in Int /\ r \in Int /\ 0 <= r /\ r < p /\ y = p * q + r
  BY <1>1
<1> QED
  BY <1>1, <1>2

\* A multiple adds to the quotient and not to the residue.
LEMMA AddMultiple ==
  ASSUME NEW p \in Int, p > 0, NEW y \in Int, NEW t \in Int
  PROVE  /\ (y + p * t) \div p = y \div p + t
         /\ (y + p * t) % p = y % p
<1>1. PICK e \in Int, f \in Int : /\ 0 <= f /\ f < p /\ y = p * e + f
                                  /\ y \div p = e /\ y % p = f
  BY DivisionIs
<1>2. PICK z : z = y + p * t
  OBVIOUS
<1>3. e + t \in Int /\ z = p * (e + t) + f
  BY <1>1, <1>2
<1>4. z \div p = e + t /\ z % p = f
  BY <1>1, <1>3, DivisionIsUnique
<1> QED
  BY <1>1, <1>2, <1>4

\* Two divisions are one.
LEMMA DivideTwice ==
  ASSUME NEW p \in Int, p > 0, NEW r \in Int, r > 0, NEW y \in Int
  PROVE  (y \div p) \div r = y \div (p * r)
<1>1. PICK e \in Int, f \in Int : 0 <= f /\ f < p /\ y = p * e + f /\ y \div p = e
  BY DivisionIs
<1>2. PICK g \in Int, h \in Int : 0 <= h /\ h < r /\ e = r * g + h /\ e \div r = g
  BY DivisionIs
<1>3. PICK m : m = p * r
  OBVIOUS
<1>4. m \in Int /\ m > 0
  BY <1>3
<1>5. PICK w : w = p * h
  OBVIOUS
<1>6. w \in Int /\ 0 <= w /\ w <= m - p
  <2>1. h <= r - 1
    BY <1>2
  <2>2. p * h <= p * (r - 1)
    BY <1>2, <2>1
  <2>3. p * (r - 1) = m - p
    BY <1>3
  <2>4. 0 <= p * h
    BY <1>2
  <2> QED
    BY <1>2, <1>5, <2>2, <2>3, <2>4
<1>7. y = m * g + (w + f)
  <2>1. p * e = p * (r * g) + p * h
    BY <1>2
  <2>2. p * (r * g) = (p * r) * g
    BY <1>2
  <2>3. p * e = m * g + w
    BY <1>3, <1>5, <2>1, <2>2
  <2>4. m * g \in Int
    BY <1>4
  <2> QED
    BY <1>1, <1>6, <2>3, <2>4
<1>8. w + f \in Int /\ 0 <= w + f /\ w + f < m
  BY <1>1, <1>4, <1>6
<1>9. y \div m = g
  BY <1>4, <1>7, <1>8, DivisionIsUnique
<1> QED
  BY <1>1, <1>2, <1>3, <1>9

-----------------------------------------------------------------------------
(* Numbers read bit by bit.                                                *)

\* Moduli, residues and signed values are integers.
LEMMA ModIsPositive == \A k \in 0 .. 8 : Mod(k) \in Int /\ Mod(k) > 0
<1> TAKE k \in 0 .. 8
<1>1. Unit \in Nat /\ 8 * Unit = Unit * 8
  BY UnitAssumption
<1>2. Unit * k \in Nat /\ Unit * k <= Unit * 8
  BY <1>1
<1>3. Unit * k \in 0 .. 8 * Unit
  BY <1>1, <1>2
<1> QED
  BY <1>3, PowersArePositive DEF Mod

\* A residue is a number of its width.
LEMMA LowIsWord ==
  ASSUME NEW v \in Int, NEW k \in 0 .. 8
  PROVE  Low(v, k) \in 0 .. Mod(k) - 1 /\ Low(v, k) \in Int
<1>1. Mod(k) \in Int /\ Mod(k) > 0
  BY ModIsPositive
<1>2. v % Mod(k) \in 0 .. Mod(k) - 1
  BY <1>1
<1> QED
  BY <1>1, <1>2 DEF Low

\* The signed value of a number is one, and zero only of zero.
LEMMA SgnIsInt ==
  ASSUME NEW v \in Int, NEW k \in 0 .. 8
  PROVE  Sgn(v, k) \in Int /\ (Low(v, k) # 0 => Sgn(v, k) # 0)
<1>1. PICK m, l : m = Mod(k) /\ l = Low(v, k)
  OBVIOUS
<1>2. m \in Int /\ m > 0 /\ l \in 0 .. m - 1
  BY <1>1, ModIsPositive, LowIsWord
<1>3. Sgn(v, k) = IF l >= m \div 2 THEN l - m ELSE l
  BY <1>1 DEF Sgn
<1> QED
  BY <1>1, <1>2, <1>3

\* A bit is 0 or 1.
LEMMA BitIs ==
  ASSUME NEW x \in Int, NEW j \in 0 .. 8 * Unit
  PROVE  Bit(x, j) \in {0, 1} /\ x \div 2 ^ j \in Int
<1>1. PICK p, q : p = 2 ^ j /\ q = x \div p
  OBVIOUS
<1>2. p \in Int /\ p > 0
  BY <1>1, PowersArePositive
<1>3. q \in Int
  BY <1>1, <1>2
<1>4. q % 2 \in {0, 1}
  BY <1>3
<1> QED
  BY <1>1, <1>3, <1>4 DEF Bit

\* Adding a multiple of a higher power changes no bit below it.
LEMMA BitBelow ==
  ASSUME NEW x \in Int, NEW t \in Int, NEW m \in 0 .. 8 * Unit, NEW j \in 0 .. m - 1
  PROVE  Bit(x + 2 ^ m * t, j) = Bit(x, j)
<1>0. 8 * Unit \in Nat
  BY UnitAssumption
<1>1. PICK p, h, M : p = 2 ^ j /\ h = 2 ^ (m - (j + 1)) /\ M = 2 ^ m
  OBVIOUS
<1>2. /\ j \in Nat /\ j + 1 \in Nat /\ m \in Nat /\ j + 1 <= m /\ m <= 8 * Unit /\ m - (j + 1) \in Nat
      /\ j \in 0 .. 8 * Unit - 1 /\ j \in 0 .. 8 * Unit
  BY <1>0
<1>3. /\ M = 2 ^ (j + 1) * h /\ h \in Int /\ M \in Int
  BY <1>1, <1>2, PowerOfLess
<1>4. 2 ^ (j + 1) = 2 * p
  BY <1>1, <1>2, PowersDouble
<1>5. p \in Int /\ p > 0
  BY <1>1, <1>2, PowersArePositive
<1>6. PICK u : u = h * t
  OBVIOUS
<1>7. u \in Int /\ M * t = p * (2 * u)
  <2>1. M * t = (2 * p) * u
    BY <1>3, <1>4, <1>5, <1>6
  <2> QED
    BY <1>3, <1>5, <1>6, <2>1
<1>8. PICK q : q = x \div p
  OBVIOUS
<1>9. q \in Int
  BY <1>5, <1>8
<1>10. (x + p * (2 * u)) \div p = q + 2 * u
  <2>1. 2 * u \in Int
    BY <1>7
  <2> QED
    BY <1>5, <1>8, <2>1, AddMultiple
<1>11. (q + 2 * u) % 2 = q % 2
  BY <1>7, <1>9, AddMultiple
<1>12. Bit(x + 2 ^ m * t, j) = (q + 2 * u) % 2
  BY <1>1, <1>7, <1>10 DEF Bit
<1>13. Bit(x, j) = q % 2
  BY <1>1, <1>8 DEF Bit
<1> QED
  BY <1>11, <1>12, <1>13

\* The width of an operation: a half word, a word, or the source of a MOVSX.
LEMMA WidthIs ==
  ASSUME NEW k \in 1 .. 8
  PROVE  /\ Bits(k) \in Nat /\ Bits(k) > 0 /\ Bits(k) \in 0 .. 8 * Unit /\ 8 * Unit \in Nat
         /\ Bits(k) - 1 \in 0 .. 8 * Unit - 1 /\ Bits(k) - 1 + 1 = Bits(k)
         /\ Mod(k) = 2 ^ Bits(k) /\ Mod(k) \in Int /\ Mod(k) > 0
         /\ Mod(k) = 2 * 2 ^ (Bits(k) - 1)
         /\ 2 ^ (Bits(k) - 1) \in Int /\ 2 ^ (Bits(k) - 1) > 0
         /\ Mod(k) \div 2 = 2 ^ (Bits(k) - 1)
<1>1. PICK c, u : c = Bits(k) /\ u = 8 * Unit
  OBVIOUS
<1>2. c \in Nat /\ c > 0 /\ u \in Nat /\ c <= u
  BY <1>1, UnitAssumption DEF Bits
<1>3. c \in 0 .. u /\ c - 1 \in 0 .. u /\ c - 1 \in 0 .. u - 1 /\ c - 1 + 1 = c
  BY <1>2
<1>4. 2 ^ c = 2 * 2 ^ (c - 1)
  BY <1>1, <1>3, PowersDouble
<1>5. 2 ^ c \in Int /\ 2 ^ c > 0 /\ 2 ^ (c - 1) \in Int /\ 2 ^ (c - 1) > 0
  BY <1>1, <1>3, PowersArePositive
<1>6. Mod(k) = 2 ^ c
  BY <1>1 DEF Mod, Bits
<1>7. PICK y, z : y = 2 ^ c /\ z = 2 ^ (c - 1)
  OBVIOUS
<1>8. y \div 2 = z
  BY <1>4, <1>5, <1>7
<1> QED
  BY <1>1, <1>2, <1>3, <1>4, <1>5, <1>6, <1>7, <1>8

\* A residue is less by a multiple of the modulus.
LEMMA LowIs ==
  ASSUME NEW x \in Int, NEW k \in 1 .. 8
  PROVE  \E t \in Int : x = Low(x, k) + Mod(k) * t /\ Low(x, k) = x + Mod(k) * (-t)
<1>1. PICK m : m = Mod(k) /\ m \in Int /\ m > 0
  BY WidthIs
<1>2. PICK e \in Int, f \in Int : x = m * e + f /\ x % m = f
  BY <1>1, DivisionIs
<1>3. f = Low(x, k) /\ x = f + m * e /\ f = x + m * (-e)
  <2>1. m * (-e) = -(m * e) /\ m * e \in Int
    BY <1>1, <1>2
  <2> QED
    BY <1>1, <1>2, <2>1 DEF Low
<1> QED
  BY <1>1, <1>2, <1>3

\* It has the bits of its width.
LEMMA BitOfLow ==
  ASSUME NEW x \in Int, NEW k \in 1 .. 8, NEW j \in 0 .. Bits(k) - 1
  PROVE  Bit(Low(x, k), j) = Bit(x, j)
<1>1. PICK t \in Int : Low(x, k) = x + Mod(k) * (-t)
  BY LowIs
<1>2. PICK m : m = Bits(k) /\ m \in 0 .. 8 * Unit
  BY WidthIs
<1>3. j \in 0 .. m - 1 /\ -t \in Int
  BY <1>2
<1>4. Bit(x + 2 ^ m * (-t), j) = Bit(x, j)
  BY <1>2, <1>3, BitBelow
<1> QED
  BY <1>1, <1>2, <1>4, WidthIs

\* Numbers that differ by a multiple have the same residue.
LEMMA LowOfSum ==
  ASSUME NEW x \in Int, NEW t \in Int, NEW k \in 1 .. 8
  PROVE  Low(x + Mod(k) * t, k) = Low(x, k)
<1>1. PICK m : m = Mod(k) /\ m \in Int /\ m > 0
  BY WidthIs
<1> QED
  BY <1>1, AddMultiple DEF Low

\* A number of a width is its residue.
LEMMA LowOfWord ==
  ASSUME NEW k \in 1 .. 8, NEW x \in 0 .. Mod(k) - 1
  PROVE  Low(x, k) = x
<1>1. PICK m : m = Mod(k) /\ m \in Int /\ m > 0
  BY WidthIs
<1>2. x \in Int /\ 0 <= x /\ x < m /\ x = m * 0 + x
  BY <1>1
<1> QED
  BY <1>1, <1>2, DivisionIsUnique DEF Low

\* The signed value is the residue, or that less the modulus when its top bit is set.
LEMMA SgnIs ==
  ASSUME NEW x \in Int, NEW k \in 1 .. 8
  PROVE  /\ Sgn(x, k) \in Int
         /\ -(2 ^ (Bits(k) - 1)) <= Sgn(x, k) /\ Sgn(x, k) < 2 ^ (Bits(k) - 1)
         /\ \E t \in Int : Sgn(x, k) = x + Mod(k) * t
         /\ \E t \in {0, -1} : Sgn(x, k) = Low(x, k) + Mod(k) * t
         /\ Sgn(x, k) < 0 <=> Low(x, k) >= 2 ^ (Bits(k) - 1)
         /\ Low(Sgn(x, k), k) = Low(x, k)
<1>0. k \in 0 .. 8
  OBVIOUS
<1>1. PICK m, h, l : m = Mod(k) /\ h = 2 ^ (Bits(k) - 1) /\ l = Low(x, k)
  OBVIOUS
<1>2. m \in Int /\ h \in Int /\ m > 0 /\ h > 0 /\ m = 2 * h /\ m \div 2 = h
  BY <1>1, WidthIs
<1>3. l \in 0 .. m - 1 /\ l \in Int
  BY <1>0, <1>1, LowIsWord
<1>4. Sgn(x, k) = IF l >= h THEN l - m ELSE l
  BY <1>1, <1>2 DEF Sgn
<1>5. PICK t \in Int : l = x + m * (-t)
  BY <1>1, LowIs
<1>6. PICK c \in {0, -1} : Sgn(x, k) = l + m * c
  <2>1. m * 0 = 0 /\ m * (-1) = -m
    BY <1>2
  <2> QED
    BY <1>2, <1>3, <1>4, <2>1
<1>7. c \in Int /\ -t \in Int /\ -t + c \in Int
  OBVIOUS
<1>8. Sgn(x, k) = x + m * (-t + c)
  <2>1. m * (-t + c) = m * (-t) + m * c
    BY <1>2, <1>7
  <2>2. m * (-t) \in Int /\ m * c \in Int
    BY <1>2, <1>7
  <2> QED
    BY <1>3, <1>5, <1>6, <2>1, <2>2
<1>9. Low(Sgn(x, k), k) = Low(x, k)
  BY <1>1, <1>7, <1>8, LowOfSum
<1>10. PICK y : y = Sgn(x, k)
  OBVIOUS
<1>11. y \in Int /\ -h <= y /\ y < h /\ (y < 0 <=> l >= h)
  BY <1>2, <1>3, <1>4, <1>10
<1> QED
  BY <1>1, <1>6, <1>7, <1>8, <1>9, <1>10, <1>11

\* In its width its bits are those of the number.
LEMMA BitOfSgn ==
  ASSUME NEW x \in Int, NEW k \in 1 .. 8, NEW j \in 0 .. Bits(k) - 1
  PROVE  Bit(Sgn(x, k), j) = Bit(x, j)
<1>1. PICK t \in Int : Sgn(x, k) = x + Mod(k) * t
  BY SgnIs
<1>2. PICK m : m = Bits(k) /\ m \in 0 .. 8 * Unit
  BY WidthIs
<1>3. j \in 0 .. m - 1
  BY <1>2
<1>4. Bit(x + 2 ^ m * t, j) = Bit(x, j)
  BY <1>2, <1>3, BitBelow
<1> QED
  BY <1>1, <1>2, <1>4, WidthIs

\* The bits of a quotient by a power are those above.
LEMMA BitOfQuotient ==
  ASSUME NEW x \in Int, NEW s \in Nat, NEW j \in Nat, j + s <= 8 * Unit
  PROVE  Bit(x \div 2 ^ s, j) = Bit(x, j + s)
<1>1. s + j <= 8 * Unit /\ s + j = j + s /\ 8 * Unit \in Nat
  BY UnitAssumption
<1>2. s \in 0 .. 8 * Unit /\ j \in 0 .. 8 * Unit
  BY <1>1
<1>3. PICK p, r : p = 2 ^ s /\ r = 2 ^ j
  OBVIOUS
<1>4. p \in Int /\ p > 0 /\ r \in Int /\ r > 0
  BY <1>2, <1>3, PowersArePositive
<1>5. 2 ^ (s + j) = p * r
  BY <1>1, <1>3, PowerOfSum
<1>6. (x \div p) \div r = x \div (p * r)
  BY <1>4, DivideTwice
<1> QED
  BY <1>1, <1>3, <1>5, <1>6 DEF Bit

\* A product with a power has the bits of the number, moved up.
LEMMA BitOfProduct ==
  ASSUME NEW x \in Int, NEW s \in 0 .. 8 * Unit - 1, NEW j \in 0 .. 8 * Unit - 1
  PROVE  Bit(x * 2 ^ s, j) = IF j < s THEN 0 ELSE Bit(x, j - s)
<1>0. 8 * Unit \in Nat /\ s \in Nat /\ j \in Nat /\ s \in 0 .. 8 * Unit
  BY UnitAssumption
<1>1. PICK p, y : p = 2 ^ s /\ y = x * p
  OBVIOUS
<1>2. p \in Int /\ p > 0 /\ y \in Int
  BY <1>0, <1>1, PowersArePositive
<1>3. CASE j < s
  <2>0. j \in 0 .. s - 1 /\ 0 \in Int
    BY <1>0, <1>3
  <2>1. Bit(0 + p * x, j) = Bit(0, j)
    BY <1>0, <1>1, <2>0, BitBelow
  <2>2. y = 0 + p * x
    BY <1>1, <1>2
  <2>3. Bit(0, j) = 0
    <3>1. PICK r : r = 2 ^ j /\ r \in Int /\ r > 0
      BY <1>0, PowersArePositive
    <3>2. 0 \div r = 0
      BY <3>1
    <3> QED
      BY <3>1, <3>2 DEF Bit
  <2> QED
    BY <1>1, <1>3, <2>1, <2>2, <2>3
<1>4. CASE j >= s
  <2>1. j - s \in Nat /\ (j - s) + s = j /\ (j - s) + s <= 8 * Unit
    BY <1>0, <1>4
  <2>2. Bit(y \div p, j - s) = Bit(y, j)
    BY <1>1, <1>2, <2>1, <1>0, BitOfQuotient
  <2>3. y = p * x + 0
    BY <1>1, <1>2
  <2>4. y \div p = x
    BY <1>2, <2>3, DivisionIsUnique
  <2> QED
    BY <1>0, <1>1, <1>4, <2>2, <2>4
<1> QED
  BY <1>0, <1>3, <1>4

\* Beyond its top bit a number of a width has that of its sign.
LEMMA BitOfSign ==
  ASSUME NEW h \in Nat, NEW j \in Nat, h <= j, j <= 8 * Unit,
         NEW x \in Int, -(2 ^ h) <= x, x < 2 ^ h
  PROVE  Bit(x, j) = IF x < 0 THEN 1 ELSE 0
<1>1. PICK p, q : p = 2 ^ h /\ q = 2 ^ j
  OBVIOUS
<1>2. p \in Int /\ q \in Int /\ p > 0 /\ q > 0 /\ p <= q
  BY <1>1, PowerOfLess
<1>3. CASE x < 0
  <2>1. PICK f, e : f = q + x /\ e = -1
    OBVIOUS
  <2>2. f \in Int /\ 0 <= f /\ f < q /\ e \in Int /\ x = q * e + f
    BY <1>1, <1>2, <1>3, <2>1
  <2>3. x \div q = e
    BY <1>2, <2>2, DivisionIsUnique
  <2>4. e = 2 * e + 1
    BY <2>1
  <2>5. e % 2 = 1
    BY <2>2, <2>4, DivisionIsUnique
  <2> QED
    BY <1>1, <1>3, <2>3, <2>5 DEF Bit
<1>4. CASE x >= 0
  <2>1. PICK f, e : f = x /\ e = 0
    OBVIOUS
  <2>2. f \in Int /\ 0 <= f /\ f < q /\ e \in Int /\ x = q * e + f
    BY <1>1, <1>2, <1>4, <2>1
  <2>3. x \div q = e
    BY <1>2, <2>2, DivisionIsUnique
  <2>4. e % 2 = 0 /\ ~(x < 0)
    BY <1>4, <2>1
  <2> QED
    BY <1>1, <2>3, <2>4 DEF Bit
<1> QED
  BY <1>3, <1>4

\* A number of m bits, each 1 where f is not zero.
HasPlaces(z, f, m) ==
  /\ z \in Int /\ 0 <= z /\ z < 2 ^ m
  /\ \A j \in 0 .. m - 1 : Bit(z, j) = IF f[j] = 0 THEN 0 ELSE 1

\* One place more.
LEMMA NextPlace ==
  ASSUME NEW S, NEW f, NEW g, InAnyOrder(g, f, S),
         NEW m \in Nat, m + 1 <= 8 * Unit, 0 .. m \in SUBSET S, f[m] \in {0, 2 ^ m},
         HasPlaces(g[0 .. m - 1], f, m)
  PROVE  HasPlaces(g[0 .. m], f, m + 1)
<1>0. 8 * Unit \in Nat
  BY UnitAssumption
<1>1. PICK y, z, p : y = g[0 .. m - 1] /\ z = g[0 .. m] /\ p = 2 ^ m
  OBVIOUS
<1>2. m \in 0 .. 8 * Unit - 1 /\ m \in 0 .. 8 * Unit /\ (m + 1) - 1 = m
  BY <1>0
<1>3. p \in Int /\ p > 0 /\ 2 ^ (m + 1) = 2 * p
  BY <1>1, <1>2, PowersArePositive, PowersDouble
<1>4. y \in Int /\ 0 <= y /\ y < p
  BY <1>1 DEF HasPlaces
<1>5. z = f[m] + y
  <2>1. PICK U, u : U = 0 .. m /\ u = 0 .. m - 1
    OBVIOUS
  <2>2. U \ {m} = u /\ m \in U /\ U \in SUBSET S
    BY <2>1
  <2>4. g[U] = f[m] + g[u]
    BY <2>2 DEF InAnyOrder
  <2> QED
    BY <1>1, <2>1, <2>4
<1>6. PICK e \in {0, 1} : f[m] = p * e /\ e = (IF f[m] = 0 THEN 0 ELSE 1)
  BY <1>1, <1>3
<1>7. z = p * e + y /\ z = y + p * e /\ e \in Int
  BY <1>3, <1>4, <1>5, <1>6
<1>8. z \in Int /\ 0 <= z /\ z < 2 * p
  BY <1>3, <1>4, <1>6, <1>7
<1>9. Bit(z, m) = e
  <2>0. z = p * e + y /\ e \in Int /\ p \in Int /\ p > 0
    BY <1>3, <1>7
  <2>1. z \div p = e
    BY <1>4, <2>0, DivisionIsUnique
  <2>2. e % 2 = e
    OBVIOUS
  <2> QED
    BY <1>1, <2>1, <2>2 DEF Bit
<1>10. ASSUME NEW j \in 0 .. m - 1
       PROVE  Bit(z, j) = IF f[j] = 0 THEN 0 ELSE 1
  <2>1. Bit(y + 2 ^ m * e, j) = Bit(y, j)
    BY <1>2, <1>4, <1>7, BitBelow
  <2> QED
    BY <1>1, <1>7, <2>1 DEF HasPlaces
<1>11. \A j \in 0 .. m : Bit(z, j) = IF f[j] = 0 THEN 0 ELSE 1
  BY <1>6, <1>9, <1>10
<1> QED
  BY <1>1, <1>2, <1>3, <1>8, <1>11 DEF HasPlaces

\* A sum of a power of two or zero for each place is the number with those bits.
LEMMA BitsOfSum ==
  ASSUME NEW c \in 0 .. 8 * Unit, NEW f \in [0 .. c - 1 -> Int],
         \A j \in 0 .. c - 1 : f[j] \in {0, 2 ^ j}
  PROVE  HasPlaces(SumFunction(f), f, c)
<1>0. 8 * Unit \in Nat /\ c \in Nat /\ c <= 8 * Unit
  BY UnitAssumption
<1>1. PICK T : T = 0 .. c - 1
  OBVIOUS
<1>2. IsFiniteSet(T) /\ f \in [T -> Int] /\ DOMAIN f = T
  BY <1>0, <1>1, FS_Interval
<1>3. PICK g : Sums(g, f, T) /\ SumFunction(f) = g[T]
  BY <1>2, SumsExist, SumIsOfSums
<1>4. InAnyOrder(g, f, T)
  BY <1>2, <1>3, AnyIsFirst
<1> DEFINE S == {m \in Nat : HasPlaces(g[0 .. m - 1], f, m)}
<1>5. 0 \in S
  <2>1. 0 .. 0 - 1 = {}
    OBVIOUS
  <2>2. g[{}] = 0
    BY <1>3 DEF Sums
  <2> QED
    BY <2>1, <2>2, PowersDouble DEF HasPlaces
<1>6. ASSUME NEW b \in Nat, b < c, b \in S PROVE b + 1 \in S
  <2>1. b + 1 <= 8 * Unit /\ 0 .. b \in SUBSET T /\ f[b] \in {0, 2 ^ b}
    BY <1>0, <1>1, <1>6
  <2>2. HasPlaces(g[0 .. b], f, b + 1)
    BY <1>4, <1>6, <2>1, NextPlace
  <2>3. (b + 1) - 1 = b
    OBVIOUS
  <2> QED
    BY <2>2, <2>3
<1> HIDE DEF S
<1>7. c \in S
  <2>1. \A b \in Nat : b <= c => b \in S
    BY <1>0, <1>5, <1>6, UpTo
  <2> QED
    BY <1>0, <2>1
<1> QED
  BY <1>1, <1>3, <1>7 DEF S

\* A number of k units with the bits of T.
HasBits(z, k, T) ==
  /\ z \in 0 .. Mod(k) - 1
  /\ \A j \in 0 .. Bits(k) - 1 : Bit(z, j) = IF j \in T THEN 1 ELSE 0

\* The sum of the powers of two of T is such a number.
LEMMA WordOfBits ==
  ASSUME NEW k \in 1 .. 8, NEW T,
         NEW f, f = [j \in 0 .. Bits(k) - 1 |-> IF j \in T THEN 2 ^ j ELSE 0]
  PROVE  HasBits(SumFunction(f), k, T)
<1>1. PICK c : c = Bits(k)
  OBVIOUS
<1>2. c \in 0 .. 8 * Unit /\ c \in Nat /\ Mod(k) = 2 ^ c /\ Mod(k) \in Int
  BY <1>1, WidthIs
<1>3. \A j \in 0 .. c - 1 : 2 ^ j \in Int /\ 2 ^ j > 0
  <2>1. \A j \in 0 .. c - 1 : j \in 0 .. 8 * Unit
    BY <1>2, UnitAssumption
  <2> QED
    BY <2>1, PowersArePositive
<1>4. f \in [0 .. c - 1 -> Int] /\ \A j \in 0 .. c - 1 : f[j] \in {0, 2 ^ j}
  BY <1>1, <1>3
<1>5. PICK z : z = SumFunction(f)
  OBVIOUS
<1>6. HasPlaces(z, f, c)
  BY <1>2, <1>4, <1>5, BitsOfSum
<1>7. \A j \in 0 .. c - 1 : f[j] = 0 <=> j \notin T
  BY <1>1, <1>3
<1>8. z \in 0 .. Mod(k) - 1
  BY <1>2, <1>6 DEF HasPlaces
<1> QED
  BY <1>1, <1>5, <1>6, <1>7, <1>8 DEF HasPlaces, HasBits

\* The bits of a disjunction,
LEMMA OrIs ==
  ASSUME NEW k \in 1 .. 8, NEW a, NEW b
  PROVE  /\ OrBits(k, a, b) \in 0 .. Mod(k) - 1
         /\ \A j \in 0 .. Bits(k) - 1 :
              Bit(OrBits(k, a, b), j) = IF Bit(a, j) = 1 \/ Bit(b, j) = 1 THEN 1 ELSE 0
<1>1. PICK c, T : c = Bits(k) /\ T = {j \in 0 .. c - 1 : Bit(a, j) = 1 \/ Bit(b, j) = 1}
  OBVIOUS
<1>2. PICK f : f = [j \in 0 .. c - 1 |-> IF j \in T THEN 2 ^ j ELSE 0]
  OBVIOUS
<1>3. f = [j \in 0 .. c - 1 |-> IF Bit(a, j) = 1 \/ Bit(b, j) = 1 THEN 2 ^ j ELSE 0]
  BY <1>1, <1>2
<1>4. OrBits(k, a, b) = SumFunction(f)
  BY <1>1, <1>3 DEF OrBits, OfBits
<1>5. HasBits(SumFunction(f), k, T)
  BY <1>1, <1>2, WordOfBits
<1> QED
  BY <1>1, <1>4, <1>5 DEF HasBits

\* of a conjunction
LEMMA AndIs ==
  ASSUME NEW k \in 1 .. 8, NEW a, NEW b
  PROVE  /\ AndBits(k, a, b) \in 0 .. Mod(k) - 1
         /\ \A j \in 0 .. Bits(k) - 1 :
              Bit(AndBits(k, a, b), j) = IF Bit(a, j) = 1 /\ Bit(b, j) = 1 THEN 1 ELSE 0
<1>1. PICK c, T : c = Bits(k) /\ T = {j \in 0 .. c - 1 : Bit(a, j) = 1 /\ Bit(b, j) = 1}
  OBVIOUS
<1>2. PICK f : f = [j \in 0 .. c - 1 |-> IF j \in T THEN 2 ^ j ELSE 0]
  OBVIOUS
<1>3. f = [j \in 0 .. c - 1 |-> IF Bit(a, j) = 1 /\ Bit(b, j) = 1 THEN 2 ^ j ELSE 0]
  BY <1>1, <1>2
<1>4. AndBits(k, a, b) = SumFunction(f)
  BY <1>1, <1>3 DEF AndBits, OfBits
<1>5. HasBits(SumFunction(f), k, T)
  BY <1>1, <1>2, WordOfBits
<1> QED
  BY <1>1, <1>4, <1>5 DEF HasBits

\* and of an exclusive disjunction.
LEMMA XorIs ==
  ASSUME NEW k \in 1 .. 8, NEW a, NEW b
  PROVE  /\ XorBits(k, a, b) \in 0 .. Mod(k) - 1
         /\ \A j \in 0 .. Bits(k) - 1 :
              Bit(XorBits(k, a, b), j) = IF Bit(a, j) # Bit(b, j) THEN 1 ELSE 0
<1>1. PICK c, T : c = Bits(k) /\ T = {j \in 0 .. c - 1 : Bit(a, j) # Bit(b, j)}
  OBVIOUS
<1>2. PICK f : f = [j \in 0 .. c - 1 |-> IF j \in T THEN 2 ^ j ELSE 0]
  OBVIOUS
<1>3. f = [j \in 0 .. c - 1 |-> IF Bit(a, j) # Bit(b, j) THEN 2 ^ j ELSE 0]
  BY <1>1, <1>2
<1>4. XorBits(k, a, b) = SumFunction(f)
  BY <1>1, <1>3 DEF XorBits, OfBits
<1>5. HasBits(SumFunction(f), k, T)
  BY <1>1, <1>2, WordOfBits
<1> QED
  BY <1>1, <1>4, <1>5 DEF HasBits

-----------------------------------------------------------------------------
(* What the arithmetic of the interpreter computes.                        *)

\* The product by halves is the residue of the product.
LEMMA TimesIsLow ==
  ASSUME NEW k \in {4, 8}, NEW a \in Int, NEW b \in Int
  PROVE  Times(k, a, b) = Low(a * b, k)
<1>0. k \in 1 .. 8 /\ k \div 2 \in 1 .. 8
  OBVIOUS
<1>1. PICK h, m : h = Mod(k \div 2) /\ m = Mod(k)
  OBVIOUS
<1>2. h \in Int /\ h > 0 /\ m \in Int /\ m > 0
  BY <1>0, <1>1, WidthIs
<1>3. m = h * h
  <2>1. PICK u : u = Unit * (k \div 2)
    OBVIOUS
  <2>2. u \in Nat /\ Unit * k = u + u /\ u + u <= 8 * Unit
    BY <2>1, UnitAssumption
  <2>3. 2 ^ (u + u) = 2 ^ u * 2 ^ u
    BY <2>2, PowerOfSum
  <2> QED
    BY <1>1, <2>1, <2>2, <2>3 DEF Mod
<1>4. PICK e \in Int, f \in Int : a = h * e + f /\ a \div h = e /\ a % h = f
  BY <1>2, DivisionIs
<1>5. PICK g \in Int, w \in Int : b = h * g + w /\ b \div h = g /\ b % h = w
  BY <1>2, DivisionIs
<1>6. PICK c : c = f * g + e * w
  OBVIOUS
<1>7. c \in Int
  BY <1>6
<1>8. PICK t \in Int, u \in Int : c = h * t + u /\ c % h = u
  BY <1>2, <1>7, DivisionIs
<1>9. PICK y, z : y = f * w + h * u /\ z = -(e * g + t)
  OBVIOUS
<1>10. Times(k, a, b) = Low(y, k)
  BY <1>1, <1>4, <1>5, <1>6, <1>8, <1>9 DEF Times
<1>11. y \in Int /\ z \in Int /\ a * b \in Int
  BY <1>2, <1>9
<1>12. y = a * b + m * z
  <2>1. a * b = (h * h) * (e * g) + h * c + f * w
    BY <1>2, <1>4, <1>5, <1>6
  <2>2. h * c = (h * h) * t + h * u
    BY <1>2, <1>8
  <2>3. m * z = -((h * h) * (e * g)) - (h * h) * t
    BY <1>2, <1>3, <1>9
  <2>4. PICK p, q, r, x : p = (h * h) * (e * g) /\ q = (h * h) * t /\ r = h * u /\ x = f * w
    OBVIOUS
  <2>5. p \in Int /\ q \in Int /\ r \in Int /\ x \in Int
    BY <1>2, <2>4
  <2> QED
    BY <1>9, <2>1, <2>2, <2>3, <2>4, <2>5
<1> QED
  BY <1>0, <1>1, <1>10, <1>11, <1>12, LowOfSum

\* A residue in the range of the signed values is what it is the residue of.
LEMMA SgnOfLow ==
  ASSUME NEW k \in 1 .. 8, NEW q \in Int,
         -(2 ^ (Bits(k) - 1)) <= q, q < 2 ^ (Bits(k) - 1)
  PROVE  Sgn(Low(q, k), k) = q
<1>0. k \in 0 .. 8
  OBVIOUS
<1>1. PICK m, h, l : m = Mod(k) /\ h = 2 ^ (Bits(k) - 1) /\ l = Low(q, k)
  OBVIOUS
<1>2. m \in Int /\ h \in Int /\ m > 0 /\ h > 0 /\ m = 2 * h /\ m \div 2 = h
  BY <1>1, WidthIs
<1>3. l \in 0 .. m - 1 /\ l \in Int
  BY <1>0, <1>1, LowIsWord
<1>4. Low(l, k) = l
  BY <1>1, <1>3, LowOfWord
<1>5. Sgn(l, k) = IF l >= h THEN l - m ELSE l
  BY <1>1, <1>2, <1>4 DEF Sgn
<1>6. CASE q >= 0
  <2>1. q \in 0 .. m - 1 /\ q < h
    BY <1>1, <1>2, <1>6
  <2>2. l = q
    BY <1>1, <2>1, LowOfWord
  <2> QED
    BY <1>1, <1>2, <1>3, <1>5, <2>1, <2>2
<1>7. CASE q < 0
  <2>1. PICK z : z = q + m
    OBVIOUS
  <2>2. z \in 0 .. m - 1 /\ z >= h /\ z = q + m * 1
    BY <1>1, <1>2, <1>7, <2>1
  <2>3. Low(z, k) = z
    BY <1>1, <2>2, LowOfWord
  <2>4. Low(q + m * 1, k) = Low(q, k)
    BY <1>1, LowOfSum
  <2>5. l = z
    BY <1>1, <2>2, <2>3, <2>4
  <2> QED
    BY <1>1, <1>2, <1>3, <1>5, <2>1, <2>2, <2>5
<1> QED
  BY <1>6, <1>7

\* The quotient that truncates, and its remainder, divide.
LEMMA TruncatedDivides ==
  ASSUME NEW x \in Int, NEW y \in Int, y # 0,
         NEW q, q = Truncated(x, y), NEW m, m = Remainder(x, y)
  PROVE  /\ Divides(x, y, q, m) /\ q \in Int /\ m \in Int
         /\ Abs(q) <= Abs(x)
         /\ Abs(y) >= 2 => 2 * Abs(q) <= Abs(x)
<1>1. PICK a, b : a = Abs(x) /\ b = Abs(y)
  OBVIOUS
<1>2. /\ a \in Int /\ b \in Int /\ b > 0 /\ a >= 0
      /\ x = (IF x < 0 THEN -a ELSE a) /\ y = (IF y < 0 THEN -b ELSE b)
  BY <1>1 DEF Abs
<1>3. PICK e \in Int, f \in Int : 0 <= f /\ f < b /\ a = b * e + f /\ a \div b = e
  BY <1>2, DivisionIs
<1>4. PICK w : w = b * e
  OBVIOUS
<1>5. w \in Int /\ a = w + f
  BY <1>2, <1>3, <1>4
<1>6. e >= 0
  <2>1. e <= -1 => b * e <= -b
    BY <1>2
  <2> QED
    BY <1>2, <1>3, <1>4, <1>5, <2>1
<1>7. q = (IF (x < 0) = (y < 0) THEN e ELSE -e) /\ q \in Int
  BY <1>1, <1>3 DEF Truncated
<1>8. Abs(q) = e
  BY <1>6, <1>7 DEF Abs
<1>9. e <= a /\ (b >= 2 => 2 * e <= a)
  <2>1. b * e >= e
    BY <1>2, <1>6
  <2>2. b >= 2 => b * e >= 2 * e
    BY <1>2, <1>6
  <2> QED
    BY <1>2, <1>3, <1>4, <1>5, <2>1, <2>2
<1>10. y * q = IF x < 0 THEN -w ELSE w
  <2>1. b * (-e) = -w /\ (-b) * e = -w /\ (-b) * (-e) = w
    BY <1>2, <1>4
  <2> QED
    BY <1>2, <1>4, <1>7, <2>1
<1>11. m = IF x < 0 THEN -f ELSE f
  <2>1. m = x - y * q
    BY DEF Remainder
  <2> QED
    BY <1>2, <1>3, <1>5, <1>10, <2>1
<1>12. m \in Int /\ Abs(m) < b /\ (m # 0 => (m < 0) = (x < 0))
  <2>1. m \in Int
    BY <1>3, <1>11
  <2>2. Abs(m) = f
    BY <1>3, <1>11 DEF Abs
  <2>3. m # 0 => (m < 0 <=> x < 0)
    BY <1>3, <1>11
  <2> QED
    BY <1>3, <2>1, <2>2, <2>3
<1>13. x = q * y + m
  <2>1. q * y = y * q
    BY <1>7
  <2> QED
    BY <1>2, <1>3, <1>5, <1>10, <1>11, <2>1
<1> QED
  BY <1>1, <1>7, <1>8, <1>9, <1>12, <1>13 DEF Divides

\* A word's residue is no more than it.
LEMMA LowIsLess ==
  ASSUME NEW v \in Nat, NEW k \in 0 .. 8
  PROVE  Low(v, k) \in Nat /\ Low(v, k) <= v
<1>1. PICK m : m = Mod(k)
  OBVIOUS
<1>2. m \in Int /\ m > 0
  BY <1>1, ModIsPositive
<1>3. v % m \in Nat /\ v % m <= v
  BY <1>2
<1> QED
  BY <1>1, <1>3 DEF Low

\* An arithmetic instruction of width k that the verifier lets through.
Arithmetic(in, k, v) ==
  /\ k \in {4, 8} /\ v \in Int
  /\ AluKnown(in)
  /\ in.op \in {"lsh", "rsh", "arsh"} /\ ~in.x =>
       v = Low(in.imm, 8) /\ in.imm \in 0 .. Bits(k) - 1

\* A shift is by less than the width of what it shifts.
LEMMA AmountIs ==
  ASSUME NEW in, NEW k \in {4, 8}, NEW v \in Int,
         ~in.x => v = Low(in.imm, 8) /\ in.imm \in 0 .. Bits(k) - 1
  PROVE  Amount(in, k, Low(v, k)) \in 0 .. Bits(k) - 1
<1>1. PICK s, b : s = Amount(in, k, b) /\ b = Low(v, k)
  OBVIOUS
<1>2. k \in 0 .. 8 /\ 8 \in 0 .. 8 /\ k \in 1 .. 8
  OBVIOUS
<1>3. b \in Int
  BY <1>1, <1>2, LowIsWord
<1>4. Bits(k) \in Nat /\ Bits(k) > 0
  BY <1>2, WidthIs
<1>5. CASE in.x
  <2>1. PICK m : m = Bits(k)
    OBVIOUS
  <2>2. b % m \in 0 .. m - 1
    BY <1>3, <1>4, <2>1
  <2> QED
    BY <1>1, <1>5, <2>1, <2>2 DEF Amount
<1>6. CASE ~in.x
  <2>1. s = b
    BY <1>1, <1>6 DEF Amount
  <2>2. PICK j : j = in.imm
    OBVIOUS
  <2>3. j \in Nat /\ j <= Bits(k) - 1 /\ v = Low(j, 8)
    BY <1>4, <1>6, <2>2
  <2>4. v \in Nat /\ v <= j
    BY <1>2, <2>3, LowIsLess
  <2>5. b \in Nat /\ b <= v
    BY <1>1, <1>2, <2>4, LowIsLess
  <2> QED
    BY <1>1, <1>4, <2>1, <2>3, <2>4, <2>5
<1> QED
  BY <1>5, <1>6

\* What the instruction set says of the result.
Right(in, k, dw, v, res) == res \in 0 .. Mod(k) - 1 /\ RightValue(in, k, dw, v, res)

\* Its width.
LEMMA Widthed ==
  ASSUME NEW in, NEW k, NEW v, Arithmetic(in, k, v)
  PROVE  k \in {4, 8} /\ k \in 0 .. 8 /\ k \in 1 .. 8 /\ v \in Int
  BY DEF Arithmetic

\* A residue and the quotient that goes with it.
LEMMA LowAndQuotient ==
  ASSUME NEW k \in 1 .. 8, NEW x \in Int, -(Mod(k) * Mod(k)) <= x, x < Mod(k) * Mod(k)
  PROVE  /\ Low(x, k) \in 0 .. Mod(k) - 1
         /\ \E q \in -Mod(k) .. Mod(k) : x = Low(x, k) + q * Mod(k)
<1>0. k \in 0 .. 8
  OBVIOUS
<1>1. PICK m, l : m = Mod(k) /\ l = Low(x, k)
  OBVIOUS
<1>2. m \in Int /\ m > 0 /\ l \in 0 .. m - 1 /\ l \in Int
  BY <1>0, <1>1, WidthIs, LowIsWord
<1>3. PICK t \in Int : x = l + m * t
  BY <1>1, LowIs
<1>4. PICK w : w = m * t /\ w \in Int
  BY <1>2
<1>5. t <= m
  <2>1. t > m => m * t >= m * (m + 1)
    BY <1>2
  <2>2. m * (m + 1) = m * m + m /\ m * m \in Int
    BY <1>2
  <2> QED
    BY <1>1, <1>2, <1>3, <1>4, <2>1, <2>2
<1>6. t >= -m
  <2>1. t < -m => m * t <= m * (-m - 1)
    BY <1>2
  <2>2. m * (-m - 1) = -(m * m) - m /\ m * m \in Int
    BY <1>2
  <2> QED
    BY <1>1, <1>2, <1>3, <1>4, <2>1, <2>2
<1>7. m * t = t * m
  BY <1>2
<1> QED
  BY <1>1, <1>2, <1>3, <1>5, <1>6, <1>7

\* The sum, the difference and the product are exact but for a multiple of the modulus.
LEMMA SumIsRight ==
  ASSUME NEW in, NEW k, NEW dw \in Int, NEW v, Arithmetic(in, k, v),
         in.op \in {"add", "sub", "mul"}
  PROVE  Right(in, k, dw, v, AluValue(in, k, dw, v))
<1>0. k \in {4, 8} /\ k \in 0 .. 8 /\ k \in 1 .. 8 /\ v \in Int
  BY Widthed
<1>1. PICK m, a, b : m = Mod(k) /\ a = Low(dw, k) /\ b = Low(v, k)
  OBVIOUS
<1>2. m \in Int /\ m > 0 /\ a \in 0 .. m - 1 /\ b \in 0 .. m - 1 /\ a \in Int /\ b \in Int
  BY <1>0, <1>1, WidthIs, LowIsWord
<1>3. PICK x : x = IF in.op = "add" THEN a + b ELSE IF in.op = "sub" THEN a - b ELSE a * b
  OBVIOUS
<1>4. x \in Int /\ -(m * m) <= x /\ x < m * m
  <2>1. 0 <= a * b /\ a * b <= (m - 1) * (m - 1)
    <3>1. 0 <= a * b /\ a * b <= a * (m - 1)
      BY <1>2
    <3>2. a * (m - 1) <= (m - 1) * (m - 1)
      BY <1>2
    <3>3. a * b \in Int /\ a * (m - 1) \in Int /\ (m - 1) * (m - 1) \in Int
      BY <1>2
    <3> QED
      BY <3>1, <3>2, <3>3
  <2>2. (m - 1) * (m - 1) = m * m - 2 * m + 1 /\ m * m \in Int /\ m * m >= m
    BY <1>2
  <2>3. PICK p, r : p = a * b /\ r = m * m
    OBVIOUS
  <2>4. p \in Int /\ r \in Int /\ 0 <= p /\ p <= r - 2 * m + 1 /\ r >= m
    BY <1>2, <2>1, <2>2, <2>3
  <2>5. m = 1 => a = 0 /\ b = 0
    BY <1>2
  <2>6. m >= 2 => m * m >= 2 * m
    BY <1>2
  <2> QED
    BY <1>2, <1>3, <2>3, <2>4, <2>5, <2>6
<1>5. PICK res : res = Low(x, k)
  OBVIOUS
<1>6. /\ res \in 0 .. m - 1
      /\ \E q \in -m .. m : x = res + q * m
  BY <1>0, <1>1, <1>4, <1>5, LowAndQuotient
<1>7. AluValue(in, k, dw, v) = res
  <2>1. Times(k, a, b) = Low(a * b, k)
    BY <1>0, <1>2, TimesIsLow
  <2> QED
    BY <1>1, <1>3, <1>5, <2>1 DEF AluValue
<1>8. RightValue(in, k, dw, v, res)
  BY <1>1, <1>3, <1>6 DEF RightValue
<1> QED
  BY <1>1, <1>6, <1>7, <1>8 DEF Right

\* The greater of two bits.
LEMMA MaxOfBits ==
  ASSUME NEW x \in {0, 1}, NEW y \in {0, 1}
  PROVE  Max({x, y}) = IF x = 1 \/ y = 1 THEN 1 ELSE 0
<1>1. PICK S : S = {x, y}
  OBVIOUS
<1>2. PICK z : z = IF x = 1 \/ y = 1 THEN 1 ELSE 0
  OBVIOUS
<1>3. z \in S /\ \A w \in S : z >= w
  BY <1>1, <1>2
<1>4. \A w \in S : (\A u \in S : w >= u) => w = z
  BY <1>1, <1>2, <1>3
<1>5. Max(S) = z
  BY <1>3, <1>4 DEF Max
<1> QED
  BY <1>1, <1>2, <1>5

\* The operations bit by bit.
LEMMA LogicIsRight ==
  ASSUME NEW in, NEW k, NEW dw \in Int, NEW v, Arithmetic(in, k, v),
         in.op \in {"or", "and", "xor"}
  PROVE  Right(in, k, dw, v, AluValue(in, k, dw, v))
<1>0. k \in {4, 8} /\ k \in 0 .. 8 /\ k \in 1 .. 8 /\ v \in Int
  BY Widthed
<1>1. PICK a, b, res : a = Low(dw, k) /\ b = Low(v, k) /\ res = AluValue(in, k, dw, v)
  OBVIOUS
<1>2. ASSUME NEW j \in 0 .. Bits(k) - 1
      PROVE  /\ Bit(a, j) = Bit(dw, j) /\ Bit(b, j) = Bit(v, j)
             /\ Bit(dw, j) \in {0, 1} /\ Bit(v, j) \in {0, 1}
  <2>1. j \in 0 .. 8 * Unit
    BY <1>0, WidthIs
  <2> QED
    BY <1>0, <1>1, <2>1, BitOfLow, BitIs
<1>3. CASE in.op = "or"
  <2>1. res = OrBits(k, a, b)
    BY <1>1, <1>3 DEF AluValue
  <2>2. /\ res \in 0 .. Mod(k) - 1
        /\ \A j \in 0 .. Bits(k) - 1 :
             Bit(res, j) = IF Bit(a, j) = 1 \/ Bit(b, j) = 1 THEN 1 ELSE 0
    BY <1>0, <2>1, OrIs
  <2>3. \A j \in 0 .. Bits(k) - 1 : Bit(res, j) = Max({Bit(dw, j), Bit(v, j)})
    BY <1>2, <2>2, MaxOfBits
  <2>4. RightValue(in, k, dw, v, res)
    BY <1>3, <2>3 DEF RightValue
  <2> QED
    BY <1>1, <2>2, <2>4 DEF Right
<1>4. CASE in.op = "and"
  <2>1. res = AndBits(k, a, b)
    BY <1>1, <1>4 DEF AluValue
  <2>2. /\ res \in 0 .. Mod(k) - 1
        /\ \A j \in 0 .. Bits(k) - 1 :
             Bit(res, j) = IF Bit(a, j) = 1 /\ Bit(b, j) = 1 THEN 1 ELSE 0
    BY <1>0, <2>1, AndIs
  <2>3. \A j \in 0 .. Bits(k) - 1 : Bit(res, j) = Bit(dw, j) * Bit(v, j)
    BY <1>2, <2>2
  <2>4. RightValue(in, k, dw, v, res)
    BY <1>4, <2>3 DEF RightValue
  <2> QED
    BY <1>1, <2>2, <2>4 DEF Right
<1>5. CASE in.op = "xor"
  <2>1. res = XorBits(k, a, b)
    BY <1>1, <1>5 DEF AluValue
  <2>2. /\ res \in 0 .. Mod(k) - 1
        /\ \A j \in 0 .. Bits(k) - 1 :
             Bit(res, j) = IF Bit(a, j) # Bit(b, j) THEN 1 ELSE 0
    BY <1>0, <2>1, XorIs
  <2>3. \A j \in 0 .. Bits(k) - 1 : Bit(res, j) = (Bit(dw, j) + Bit(v, j)) % 2
    BY <1>2, <2>2
  <2>4. RightValue(in, k, dw, v, res)
    BY <1>5, <2>3 DEF RightValue
  <2> QED
    BY <1>1, <2>2, <2>4 DEF Right
<1> QED
  BY <1>3, <1>4, <1>5

\* What is shifted, and by how much.
Shifting(k, dw, s) == /\ k \in 1 .. 8 /\ dw \in Int /\ s \in 0 .. Bits(k) - 1

\* A left shift moves the bits up,
LEMMA LeftShift ==
  ASSUME NEW k \in {4, 8}, NEW dw, NEW s, Shifting(k, dw, s)
  PROVE  /\ Times(k, Low(dw, k), Low(2 ^ s, k)) \in 0 .. Mod(k) - 1
         /\ \A j \in 0 .. Bits(k) - 1 :
              Bit(Times(k, Low(dw, k), Low(2 ^ s, k)), j) = IF j < s THEN 0 ELSE Bit(dw, j - s)
<1>0. k \in 1 .. 8 /\ k \in 0 .. 8 /\ dw \in Int
  BY DEF Shifting
<1>1. PICK a, p, c : a = Low(dw, k) /\ p = 2 ^ s /\ c = Bits(k)
  OBVIOUS
<1>2. c \in Nat /\ c > 0 /\ c \in 0 .. 8 * Unit /\ 8 * Unit \in Nat /\ Mod(k) = 2 ^ c /\ Mod(k) \in Int
  BY <1>0, <1>1, WidthIs
<1>3. /\ s \in Nat /\ s + 1 <= c /\ c <= 8 * Unit /\ s + 1 \in Nat
      /\ s \in 0 .. 8 * Unit - 1 /\ s \in 0 .. 8 * Unit
  BY <1>1, <1>2 DEF Shifting
<1>4. a \in Int
  BY <1>0, <1>1, LowIsWord
<1>5. p \in 0 .. Mod(k) - 1 /\ p \in Int
  <2>1. 2 ^ (s + 1) = 2 * 2 ^ s
    BY <1>3, PowersDouble
  <2>2. 2 ^ (s + 1) <= 2 ^ c /\ 2 ^ (s + 1) \in Int
    BY <1>2, <1>3, PowerOfLess
  <2>3. p \in Int /\ p > 0
    BY <1>1, <1>3, PowersArePositive
  <2>4. PICK y, z : y = 2 ^ (s + 1) /\ z = 2 ^ c
    OBVIOUS
  <2> QED
    BY <1>1, <1>2, <2>1, <2>2, <2>3, <2>4
<1>6. Low(p, k) = p
  BY <1>0, <1>5, LowOfWord
<1>7. PICK y, res : y = a * p /\ res = Low(y, k)
  OBVIOUS
<1>8. y \in Int
  BY <1>4, <1>5, <1>7
<1>9. Times(k, a, Low(p, k)) = res
  BY <1>4, <1>5, <1>6, <1>7, TimesIsLow
<1>10. res \in 0 .. Mod(k) - 1
  BY <1>0, <1>7, <1>8, LowIsWord
<1>11. ASSUME NEW j \in 0 .. Bits(k) - 1
       PROVE  Bit(res, j) = IF j < s THEN 0 ELSE Bit(dw, j - s)
  <2>1. Bit(res, j) = Bit(y, j)
    BY <1>0, <1>7, <1>8, BitOfLow
  <2>2. j \in 0 .. 8 * Unit - 1
    BY <1>1, <1>2
  <2>3. Bit(y, j) = IF j < s THEN 0 ELSE Bit(a, j - s)
    BY <1>1, <1>3, <1>4, <1>7, <2>2, BitOfProduct
  <2>4. ~(j < s) => Bit(a, j - s) = Bit(dw, j - s)
    <3> SUFFICES ASSUME ~(j < s) PROVE Bit(a, j - s) = Bit(dw, j - s)
      OBVIOUS
    <3>1. j - s \in 0 .. Bits(k) - 1
      BY <1>1, <1>2, <1>3
    <3> QED
      BY <1>0, <1>1, <3>1, BitOfLow
  <2> QED
    BY <2>1, <2>3, <2>4
<1> QED
  BY <1>1, <1>9, <1>10, <1>11

\* a right shift down, with zeros above,
LEMMA RightShift ==
  ASSUME NEW k, NEW dw, NEW s, Shifting(k, dw, s)
  PROVE  /\ Low(dw, k) \div 2 ^ s \in 0 .. Mod(k) - 1
         /\ \A j \in 0 .. Bits(k) - 1 :
              Bit(Low(dw, k) \div 2 ^ s, j) = IF j + s < Bits(k) THEN Bit(dw, j + s) ELSE 0
<1>0. k \in 1 .. 8 /\ k \in 0 .. 8 /\ dw \in Int
  BY DEF Shifting
<1>1. PICK a, p, c, m : a = Low(dw, k) /\ p = 2 ^ s /\ c = Bits(k) /\ m = Mod(k)
  OBVIOUS
<1>2. c \in Nat /\ c > 0 /\ c <= 8 * Unit /\ 8 * Unit \in Nat /\ m = 2 ^ c /\ m \in Int
  BY <1>0, <1>1, WidthIs
<1>3. s \in Nat /\ s + 1 <= c /\ s <= c /\ s \in 0 .. 8 * Unit
  BY <1>1, <1>2 DEF Shifting
<1>4. a \in Int /\ 0 <= a /\ a < m
  <2>1. a \in 0 .. m - 1
    BY <1>0, <1>1, LowIsWord
  <2> QED
    BY <1>2, <2>1
<1>5. p \in Int /\ p > 0
  BY <1>1, <1>3, PowersArePositive
<1>6. PICK e \in Int, f \in Int : 0 <= f /\ f < p /\ a = p * e + f /\ a \div p = e
  BY <1>4, <1>5, DivisionIs
<1>7. PICK w : w = p * e /\ w \in Int
  BY <1>5, <1>6
<1>8. 0 <= e
  <2>1. e <= -1 => p * e <= -p
    BY <1>5
  <2> QED
    BY <1>4, <1>5, <1>6, <1>7, <2>1
<1>9. e <= a
  <2>1. p * e >= e
    BY <1>5, <1>8
  <2> QED
    BY <1>4, <1>6, <1>7, <2>1
<1>10. ASSUME NEW j \in 0 .. Bits(k) - 1
       PROVE  Bit(e, j) = IF j + s < Bits(k) THEN Bit(dw, j + s) ELSE 0
  <2>0. j \in Nat /\ j <= c - 1 /\ j <= 8 * Unit /\ c - s \in Nat
    BY <1>1, <1>2, <1>3
  <2>1. CASE j + s < c
    <3>1. j + s <= 8 * Unit /\ j + s \in 0 .. Bits(k) - 1
      BY <1>1, <1>2, <1>3, <2>0, <2>1
    <3>2. Bit(a \div 2 ^ s, j) = Bit(a, j + s)
      BY <1>3, <1>4, <2>0, <3>1, BitOfQuotient
    <3>3. Bit(a, j + s) = Bit(dw, j + s)
      BY <1>0, <1>1, <3>1, BitOfLow
    <3> QED
      BY <1>1, <1>6, <2>1, <3>2, <3>3
  <2>2. CASE j + s >= c
    <3>1. PICK q : q = 2 ^ (c - s)
      OBVIOUS
    <3>2. m = p * q /\ q \in Int /\ q > 0
      BY <1>1, <1>2, <1>3, <3>1, PowerOfLess
    <3>3. e < q
      <4>1. e >= q => p * e >= p * q
        BY <1>5, <3>2
      <4>2. p * e <= a
        BY <1>6, <1>7
      <4> QED
        BY <1>2, <1>4, <1>7, <3>2, <4>1, <4>2
    <3>4. c - s <= j
      BY <1>2, <1>3, <2>0, <2>2
    <3>5. -(2 ^ (c - s)) <= e /\ e < 2 ^ (c - s) /\ ~(e < 0)
      BY <1>8, <3>1, <3>2, <3>3
    <3>6. Bit(e, j) = 0
      BY <2>0, <3>4, <3>5, BitOfSign
    <3>7. ~(j + s < c)
      BY <1>2, <1>3, <2>0, <2>2
    <3> QED
      BY <1>1, <3>6, <3>7
  <2> QED
    BY <1>2, <1>3, <2>0, <2>1, <2>2
<1>11. e \in 0 .. m - 1
  BY <1>2, <1>4, <1>8, <1>9
<1> QED
  BY <1>1, <1>6, <1>10, <1>11

\* The bit of a signed value beyond the top is its top bit.
LEMMA SignAtTop ==
  ASSUME NEW x \in Int, NEW k \in 1 .. 8
  PROVE  Bit(x, Bits(k) - 1) = IF Sgn(x, k) < 0 THEN 1 ELSE 0
<1>1. PICK c : c = Bits(k) - 1 /\ c \in Nat /\ c <= 8 * Unit
  BY WidthIs
<1>2. Bits(k) - 1 \in 0 .. Bits(k) - 1
  BY WidthIs
<1>3. Bit(Sgn(x, k), c) = Bit(x, c)
  BY <1>1, <1>2, BitOfSgn
<1>4. Sgn(x, k) \in Int /\ -(2 ^ c) <= Sgn(x, k) /\ Sgn(x, k) < 2 ^ c
  BY <1>1, SgnIs
<1>5. PICK y : y = Sgn(x, k)
  OBVIOUS
<1>6. Bit(y, c) = IF y < 0 THEN 1 ELSE 0
  BY <1>1, <1>4, <1>5, BitOfSign
<1> QED
  BY <1>1, <1>3, <1>5, <1>6

\* So a signed value has the bits of the value, the top one beyond,
LEMMA SignExtends ==
  ASSUME NEW x \in Int, NEW k \in 1 .. 8, NEW j \in 0 .. 8 * Unit - 1
  PROVE  Bit(Sgn(x, k), j) = BitAt(x, k, j)
<1>1. PICK c, y : c = Bits(k) - 1 /\ y = Sgn(x, k)
  OBVIOUS
<1>2. c \in Nat /\ Bits(k) \in Nat /\ 8 * Unit \in Nat /\ c + 1 = Bits(k)
  BY <1>1, WidthIs
<1>3. CASE j < Bits(k)
  <2>1. j \in 0 .. Bits(k) - 1
    BY <1>2, <1>3
  <2> QED
    BY <1>3, <2>1, BitOfSgn DEF BitAt
<1>4. CASE ~(j < Bits(k))
  <2>1. y \in Int /\ -(2 ^ c) <= y /\ y < 2 ^ c
    BY <1>1, SgnIs
  <2>2. c <= j /\ j \in Nat /\ j <= 8 * Unit
    BY <1>2, <1>4
  <2>3. Bit(y, j) = IF y < 0 THEN 1 ELSE 0
    BY <1>2, <2>1, <2>2, BitOfSign
  <2>4. Bit(x, c) = IF y < 0 THEN 1 ELSE 0
    BY <1>1, SignAtTop
  <2> QED
    BY <1>1, <1>4, <2>3, <2>4 DEF BitAt
<1> QED
  BY <1>3, <1>4

\* and so has an arithmetic right shift.
LEMMA ArithmeticShift ==
  ASSUME NEW k, NEW dw, NEW s, Shifting(k, dw, s)
  PROVE  /\ Arsh(k, dw, s) \in 0 .. Mod(k) - 1
         /\ \A j \in 0 .. Bits(k) - 1 : Bit(Arsh(k, dw, s), j) = BitAt(dw, k, j + s)
<1>0. k \in 1 .. 8 /\ k \in 0 .. 8 /\ dw \in Int
  BY DEF Shifting
<1>1. PICK x, p, c : x = Sgn(dw, k) /\ p = 2 ^ s /\ c = Bits(k)
  OBVIOUS
<1>2. c \in Nat /\ c > 0 /\ c <= 8 * Unit /\ 8 * Unit \in Nat /\ c - 1 \in Nat
  BY <1>0, <1>1, WidthIs
<1>3. s \in Nat /\ s <= c - 1 /\ s \in 0 .. 8 * Unit /\ c - 1 <= 8 * Unit
  BY <1>1, <1>2 DEF Shifting
<1>4. p \in Int /\ p > 0
  BY <1>1, <1>3, PowersArePositive
<1>5. x \in Int /\ -(2 ^ (c - 1)) <= x /\ x < 2 ^ (c - 1)
  BY <1>0, <1>1, SgnIs
<1>6. PICK e \in Int, f \in Int : 0 <= f /\ f < p /\ x = p * e + f /\ x \div p = e
  BY <1>4, <1>5, DivisionIs
<1>7. Arsh(k, dw, s) = Low(e, k)
  BY <1>1, <1>6 DEF Arsh
<1>8. PICK q, h : q = 2 ^ ((c - 1) - s) /\ h = 2 ^ (c - 1)
  OBVIOUS
<1>9. h = p * q /\ q \in Int /\ q > 0 /\ h \in Int
  BY <1>1, <1>2, <1>3, <1>8, PowerOfLess
<1>10. PICK w : w = p * e /\ w \in Int
  BY <1>4, <1>6
<1>11. -q <= e /\ e < q
  <2>1. e >= q => p * e >= p * q
    BY <1>4, <1>9
  <2>2. e <= -q - 1 => p * e <= -(p * q) - p
    <3>1. e <= -q - 1 => p * e <= p * (-q - 1)
      BY <1>4, <1>9
    <3>2. p * (-q - 1) = -(p * q) - p
      BY <1>4, <1>9
    <3> QED
      BY <3>1, <3>2
  <2> QED
    BY <1>4, <1>5, <1>6, <1>8, <1>9, <1>10, <2>1, <2>2
<1>12. e < 0 <=> x < 0
  <2>1. e <= -1 => p * e <= -p
    BY <1>4
  <2>2. e >= 0 => p * e >= 0
    BY <1>4
  <2> QED
    BY <1>4, <1>5, <1>6, <1>10, <2>1, <2>2
<1>13. ASSUME NEW j \in 0 .. Bits(k) - 1
       PROVE  Bit(e, j) = BitAt(dw, k, j + s)
  <2>0. j \in Nat /\ j <= c - 1 /\ j <= 8 * Unit /\ (c - 1) - s \in Nat
    BY <1>1, <1>2, <1>3
  <2>1. CASE j + s < c
    <3>1. j + s <= 8 * Unit /\ j + s \in 0 .. Bits(k) - 1
      BY <1>1, <1>2, <1>3, <2>0, <2>1
    <3>2. Bit(x \div 2 ^ s, j) = Bit(x, j + s)
      BY <1>3, <1>5, <2>0, <3>1, BitOfQuotient
    <3>3. Bit(x, j + s) = Bit(dw, j + s)
      BY <1>0, <1>1, <3>1, BitOfSgn
    <3> QED
      BY <1>1, <1>6, <2>1, <3>2, <3>3 DEF BitAt
  <2>2. CASE ~(j + s < c)
    <3>1. (c - 1) - s <= j
      BY <1>2, <1>3, <2>0, <2>2
    <3>2. Bit(e, j) = IF e < 0 THEN 1 ELSE 0
      BY <1>8, <1>11, <2>0, <3>1, BitOfSign
    <3>3. Bit(dw, Bits(k) - 1) = IF x < 0 THEN 1 ELSE 0
      BY <1>0, <1>1, SignAtTop
    <3> QED
      BY <1>1, <1>12, <2>2, <3>2, <3>3 DEF BitAt
  <2> QED
    BY <2>1, <2>2
<1>14. \A j \in 0 .. Bits(k) - 1 : Bit(Low(e, k), j) = Bit(e, j)
  BY <1>0, BitOfLow
<1>15. Low(e, k) \in 0 .. Mod(k) - 1
  BY <1>0, LowIsWord
<1> QED
  BY <1>7, <1>13, <1>14, <1>15

\* The shifts.
LEMMA ShiftIsRight ==
  ASSUME NEW in, NEW k, NEW dw \in Int, NEW v, Arithmetic(in, k, v),
         in.op \in {"lsh", "rsh", "arsh"}
  PROVE  Right(in, k, dw, v, AluValue(in, k, dw, v))
<1>0. k \in {4, 8} /\ k \in 0 .. 8 /\ k \in 1 .. 8 /\ v \in Int
  BY Widthed
<1>1. PICK b, s, res : b = Low(v, k) /\ s = Amount(in, k, b) /\ res = AluValue(in, k, dw, v)
  OBVIOUS
<1>2. s = IF in.x THEN b % Bits(k) ELSE b
  BY <1>1 DEF Amount
<1>3. Shifting(k, dw, s)
  <2>1. ~in.x => v = Low(in.imm, 8) /\ in.imm \in 0 .. Bits(k) - 1
    BY DEF Arithmetic
  <2> QED
    BY <1>0, <1>1, <2>1, AmountIs DEF Shifting
<1>4. CASE in.op = "lsh"
  <2>1. res = Times(k, Low(dw, k), Low(2 ^ s, k))
    BY <1>1, <1>4 DEF AluValue
  <2>2. /\ res \in 0 .. Mod(k) - 1
        /\ \A j \in 0 .. Bits(k) - 1 : Bit(res, j) = IF j < s THEN 0 ELSE Bit(dw, j - s)
    BY <1>0, <1>3, <2>1, LeftShift
  <2>3. RightValue(in, k, dw, v, res)
    BY <1>1, <1>2, <1>4, <2>2 DEF RightValue
  <2> QED
    BY <1>1, <2>2, <2>3 DEF Right
<1>5. CASE in.op = "rsh"
  <2>1. res = Low(dw, k) \div 2 ^ s
    BY <1>1, <1>5 DEF AluValue
  <2>2. /\ res \in 0 .. Mod(k) - 1
        /\ \A j \in 0 .. Bits(k) - 1 :
             Bit(res, j) = IF j + s < Bits(k) THEN Bit(dw, j + s) ELSE 0
    BY <1>3, <2>1, RightShift
  <2>3. RightValue(in, k, dw, v, res)
    BY <1>1, <1>2, <1>5, <2>2 DEF RightValue
  <2> QED
    BY <1>1, <2>2, <2>3 DEF Right
<1>6. CASE in.op = "arsh"
  <2>1. res = Arsh(k, dw, s)
    BY <1>1, <1>6 DEF AluValue
  <2>2. /\ res \in 0 .. Mod(k) - 1
        /\ \A j \in 0 .. Bits(k) - 1 : Bit(res, j) = BitAt(dw, k, j + s)
    BY <1>3, <2>1, ArithmeticShift
  <2>3. RightValue(in, k, dw, v, res)
    BY <1>1, <1>2, <1>6, <2>2 DEF RightValue
  <2> QED
    BY <1>1, <2>2, <2>3 DEF Right
<1> QED
  BY <1>4, <1>5, <1>6

\* The move, plain or with its sign extended.
LEMMA MoveIsRight ==
  ASSUME NEW in, NEW k, NEW dw \in Int, NEW v, Arithmetic(in, k, v), in.op = "mov"
  PROVE  Right(in, k, dw, v, AluValue(in, k, dw, v))
<1>0. k \in {4, 8} /\ k \in 0 .. 8 /\ k \in 1 .. 8 /\ v \in Int
  BY Widthed
<1>1. PICK o, res : o = (IF in.off = 0 THEN k ELSE in.off) /\ res = AluValue(in, k, dw, v)
  OBVIOUS
<1>2. in.off = 0 \/ in.off \in {1, 2, 4}
  BY DEF Arithmetic, AluKnown
<1>3. PICK y : y = IF in.off = 0 THEN v ELSE Sgn(v, in.off)
  OBVIOUS
<1>4. y \in Int /\ res = Low(y, k)
  <2>1. CASE in.off = 0
    BY <1>0, <1>1, <1>3, <2>1 DEF AluValue
  <2>2. CASE in.off \in {1, 2, 4}
    <3>1. in.off \in 1 .. 8 /\ in.off # 0
      BY <2>2
    <3>2. y \in Int
      BY <1>0, <1>3, <3>1, SgnIs
    <3> QED
      BY <1>1, <1>3, <3>1, <3>2 DEF AluValue
  <2> QED
    BY <1>2, <2>1, <2>2
<1>5. ASSUME NEW j \in 0 .. Bits(k) - 1
      PROVE  Bit(res, j) = BitAt(v, o, j)
  <2>1. Bit(res, j) = Bit(y, j)
    BY <1>0, <1>4, BitOfLow
  <2>2. CASE in.off = 0
    <3>1. j < Bits(k)
      BY <1>0, WidthIs
    <3> QED
      BY <1>1, <1>3, <2>1, <2>2, <3>1 DEF BitAt
  <2>3. CASE in.off \in {1, 2, 4}
    <3>1. in.off \in 1 .. 8 /\ in.off # 0
      BY <2>3
    <3>2. j \in 0 .. 8 * Unit - 1
      BY <1>0, WidthIs
    <3>3. Bit(Sgn(v, o), j) = BitAt(v, o, j)
      BY <1>0, <1>1, <3>1, <3>2, SignExtends
    <3> QED
      BY <1>1, <1>3, <2>1, <3>1, <3>3
  <2> QED
    BY <1>2, <2>2, <2>3
<1>6. res \in 0 .. Mod(k) - 1
  BY <1>0, <1>4, LowIsWord
<1>7. RightValue(in, k, dw, v, res)
  BY <1>1, <1>5 DEF RightValue
<1> QED
  BY <1>1, <1>6, <1>7 DEF Right

\* A number and the residue of its negative add up to a multiple of the modulus.
LEMMA NegativeAdds ==
  ASSUME NEW k \in 1 .. 8, NEW a \in Int, NEW x \in Int, Low(a, k) = Low(x, k)
  PROVE  (a + Low(-x, k)) % Mod(k) = 0
<1>1. PICK m, l, r : m = Mod(k) /\ l = Low(x, k) /\ r = Low(-x, k)
  OBVIOUS
<1>2. m \in Int /\ m > 0
  BY <1>1, WidthIs
<1>3. PICK t \in Int : a = l + m * t
  <2>1. \E t \in Int : a = Low(a, k) + Mod(k) * t
    BY LowIs
  <2> QED
    BY <1>1, <2>1
<1>4. PICK u \in Int : x = l + m * u
  BY <1>1, LowIs
<1>5. -x \in Int
  OBVIOUS
<1>6. PICK w \in Int : -x = r + m * w
  BY <1>1, <1>5, LowIs
<1>7. PICK e, z : e = t - u - w /\ z = a + r
  OBVIOUS
<1>8. l \in Int /\ r \in Int
  <2>1. k \in 0 .. 8
    OBVIOUS
  <2> QED
    BY <1>1, <1>5, <2>1, LowIsWord
<1>9. z = m * e /\ e \in Int
  <2>1. m * e = m * t - m * u - m * w
    BY <1>2, <1>7
  <2>2. PICK p, q, y : p = m * t /\ q = m * u /\ y = m * w
    OBVIOUS
  <2>3. p \in Int /\ q \in Int /\ y \in Int
    BY <1>2, <2>2
  <2> QED
    BY <1>3, <1>4, <1>6, <1>7, <1>8, <2>1, <2>2, <2>3
<1>10. z % m = 0
  <2>1. PICK f : f = 0
    OBVIOUS
  <2>2. f \in Int /\ 0 <= f /\ f < m /\ z = m * e + f
    BY <1>2, <1>9, <2>1
  <2>3. z % m = f
    BY <1>2, <1>9, <2>2, DivisionIsUnique
  <2> QED
    BY <2>1, <2>3
<1> QED
  BY <1>1, <1>7, <1>10

\* The negative.
LEMMA NegIsRight ==
  ASSUME NEW in, NEW k, NEW dw \in Int, NEW v, Arithmetic(in, k, v), in.op = "neg"
  PROVE  Right(in, k, dw, v, AluValue(in, k, dw, v))
<1>0. k \in {4, 8} /\ k \in 0 .. 8 /\ k \in 1 .. 8 /\ v \in Int
  BY Widthed
<1>1. PICK a, res : a = Low(dw, k) /\ res = Low(-a, k)
  OBVIOUS
<1>2. a \in Int /\ -a \in Int
  <2>1. a \in Int
    BY <1>0, <1>1, LowIsWord
  <2> QED
    BY <2>1
<1>3. AluValue(in, k, dw, v) = res
  BY <1>1 DEF AluValue
<1>4. (a + res) % Mod(k) = 0
  BY <1>0, <1>1, <1>2, NegativeAdds
<1>5. res \in 0 .. Mod(k) - 1
  BY <1>0, <1>1, <1>2, LowIsWord
<1>6. RightValue(in, k, dw, v, res)
  BY <1>1, <1>4 DEF RightValue
<1> QED
  BY <1>3, <1>5, <1>6 DEF Right

\* The divisions of words without sign.
LEMMA UnsignedIsRight ==
  ASSUME NEW in, NEW k, NEW dw \in Int, NEW v, Arithmetic(in, k, v),
         in.op \in {"div", "mod"}, Low(v, k) = 0 \/ in.off # 1
  PROVE  Right(in, k, dw, v, AluValue(in, k, dw, v))
<1>0. k \in {4, 8} /\ k \in 0 .. 8 /\ k \in 1 .. 8 /\ v \in Int
  BY Widthed
<1>1. PICK a, b, m, res : /\ a = Low(dw, k) /\ b = Low(v, k) /\ m = Mod(k)
                          /\ res = AluValue(in, k, dw, v)
  OBVIOUS
<1>2. m \in Int /\ m > 0 /\ a \in 0 .. m - 1 /\ b \in 0 .. m - 1 /\ a \in Int /\ b \in Int
  BY <1>0, <1>1, WidthIs, LowIsWord
<1>3. res = IF in.op = "div" THEN Quotient(k, a, b, in.off = 1) ELSE Modulo(k, a, b, in.off = 1)
  BY <1>1 DEF AluValue
<1>4. CASE b = 0
  <2>1. res = IF in.op = "div" THEN 0 ELSE a
    BY <1>3, <1>4 DEF Quotient, Modulo
  <2>2. res \in 0 .. m - 1
    BY <1>2, <2>1
  <2>3. RightValue(in, k, dw, v, res)
    BY <1>1, <1>4, <2>1 DEF RightValue
  <2> QED
    BY <1>1, <2>2, <2>3 DEF Right
<1>5. CASE b # 0
  <2>0. b > 0 /\ in.off # 1
    BY <1>1, <1>2, <1>5
  <2>1. PICK e \in Int, f \in Int : /\ 0 <= f /\ f < b /\ a = b * e + f
                                    /\ a \div b = e /\ a % b = f
    BY <1>2, <2>0, DivisionIs
  <2>2. PICK w : w = b * e /\ w \in Int
    BY <1>2, <2>1
  <2>3. 0 <= e /\ e <= a
    <3>1. e <= -1 => b * e <= -b
      BY <1>2, <2>0
    <3>2. 0 <= e
      BY <1>2, <2>0, <2>1, <2>2, <3>1
    <3>3. b * e >= e
      BY <1>2, <2>0, <3>2
    <3> QED
      BY <1>2, <2>1, <2>2, <3>2, <3>3
  <2>4. CASE in.op = "div"
    <3>1. res = e
      BY <1>3, <1>5, <2>0, <2>1, <2>4 DEF Quotient
    <3>2. res \in 0 .. m - 1
      BY <1>2, <2>1, <2>3, <3>1
    <3>3. \E c \in 0 .. b - 1 : a = res * b + c
      <4>1. e * b = b * e /\ f \in 0 .. b - 1
        BY <1>2, <2>1
      <4> QED
        BY <2>1, <3>1, <4>1
    <3>4. RightValue(in, k, dw, v, res)
      BY <1>1, <1>5, <2>0, <2>4, <3>3 DEF RightValue
    <3> QED
      BY <1>1, <3>2, <3>4 DEF Right
  <2>5. CASE in.op = "mod"
    <3>1. res = f
      BY <1>3, <1>5, <2>0, <2>1, <2>5 DEF Modulo
    <3>2. res \in 0 .. m - 1 /\ res < b
      BY <1>2, <2>1, <3>1
    <3>3. (a - res) % b = 0
      <4>1. PICK z : z = a - res
        OBVIOUS
      <4>2. z = b * e + 0
        BY <1>2, <2>1, <2>2, <3>1, <4>1
      <4>3. z % b = 0
        BY <1>2, <2>0, <2>1, <4>2, DivisionIsUnique
      <4> QED
        BY <4>1, <4>3
    <3>4. RightValue(in, k, dw, v, res)
      BY <1>1, <1>5, <2>0, <2>5, <3>2, <3>3 DEF RightValue
    <3> QED
      BY <1>1, <3>2, <3>4 DEF Right
  <2> QED
    BY <2>4, <2>5
<1> QED
  BY <1>4, <1>5

\* The operands of a signed division.
LEMMA SignedOperands ==
  ASSUME NEW k \in 1 .. 8, NEW a \in Int, NEW b \in 0 .. Mod(k) - 1, b # 0
  PROVE  \E h \in Int : /\ h > 0 /\ Mod(k) = 2 * h /\ h = 2 ^ (Bits(k) - 1)
                        /\ Sgn(a, k) \in Int /\ Sgn(b, k) \in Int /\ Sgn(b, k) # 0
                        /\ Abs(Sgn(a, k)) <= h /\ Abs(Sgn(b, k)) <= h
                        /\ -h <= Sgn(a, k) /\ Sgn(a, k) < h
<1>0. k \in 0 .. 8
  OBVIOUS
<1>1. PICK h, x, y : h = 2 ^ (Bits(k) - 1) /\ x = Sgn(a, k) /\ y = Sgn(b, k)
  OBVIOUS
<1>2. h \in Int /\ h > 0 /\ Mod(k) = 2 * h
  BY <1>1, WidthIs
<1>3. b \in Int /\ Low(b, k) = b
  BY <1>2, LowOfWord
<1>4. x \in Int /\ -h <= x /\ x < h
  BY <1>1, SgnIs
<1>5. y \in Int /\ -h <= y /\ y < h
  BY <1>1, <1>3, SgnIs
<1>6. y # 0
  BY <1>0, <1>1, <1>3, SgnIsInt
<1>7. Abs(x) <= h /\ Abs(y) <= h
  BY <1>2, <1>4, <1>5 DEF Abs
<1> QED
  BY <1>1, <1>2, <1>4, <1>5, <1>6, <1>7

\* The divisions of signed words; the quotient of the least by -1 wraps around.
LEMMA SignedIsRight ==
  ASSUME NEW in, NEW k, NEW dw \in Int, NEW v, Arithmetic(in, k, v),
         in.op \in {"div", "mod"}, Low(v, k) # 0, in.off = 1
  PROVE  Right(in, k, dw, v, AluValue(in, k, dw, v))
<1>0. k \in {4, 8} /\ k \in 0 .. 8 /\ k \in 1 .. 8 /\ v \in Int
  BY Widthed
<1>1. PICK a, b, m, res : /\ a = Low(dw, k) /\ b = Low(v, k) /\ m = Mod(k)
                          /\ res = AluValue(in, k, dw, v)
  OBVIOUS
<1>2. m \in Int /\ m > 0 /\ a \in 0 .. m - 1 /\ b \in 0 .. m - 1 /\ a \in Int /\ b \in Int
  BY <1>0, <1>1, WidthIs, LowIsWord
<1>3. res = IF in.op = "div" THEN Quotient(k, a, b, in.off = 1) ELSE Modulo(k, a, b, in.off = 1)
  BY <1>1 DEF AluValue
<1>4. PICK h \in Int : /\ h > 0 /\ m = 2 * h /\ h = 2 ^ (Bits(k) - 1)
                       /\ Sgn(a, k) \in Int /\ Sgn(b, k) \in Int /\ Sgn(b, k) # 0
                       /\ Abs(Sgn(a, k)) <= h /\ Abs(Sgn(b, k)) <= h
                       /\ -h <= Sgn(a, k) /\ Sgn(a, k) < h
  BY <1>0, <1>1, <1>2, SignedOperands
<1>5. PICK x, y : x = Sgn(a, k) /\ y = Sgn(b, k)
  OBVIOUS
<1>6. PICK q, r : q = Truncated(x, y) /\ r = Remainder(x, y)
  OBVIOUS
<1>7. /\ Divides(x, y, q, r) /\ q \in Int /\ r \in Int
      /\ Abs(q) <= Abs(x)
      /\ Abs(y) >= 2 => 2 * Abs(q) <= Abs(x)
  BY <1>4, <1>5, <1>6, TruncatedDivides
<1>8. Abs(r) < Abs(y)
  BY <1>7 DEF Divides
<1>9. -h <= r /\ r < h
  BY <1>4, <1>5, <1>7, <1>8 DEF Abs
<1>10. -m <= q /\ q <= m /\ -m <= r /\ r <= m
  BY <1>4, <1>5, <1>7, <1>9 DEF Abs
<1>11. CASE in.op = "div"
  <2>1. res = Low(q, k)
    BY <1>1, <1>3, <1>5, <1>6, <1>11 DEF Quotient
  <2>2. res \in 0 .. m - 1
    BY <1>0, <1>1, <1>7, <2>1, LowIsWord
  <2>3. CASE y = -1
    <3>1. q = -x
      <4>1. Abs(y) = 1
        <5>1. y \in Int /\ y < 0 /\ y + 1 = 0
          BY <2>3
        <5>2. -y = 1
          BY <5>1
        <5> QED
          BY <5>1, <5>2 DEF Abs
      <4>2. PICK c : c = Abs(x) /\ c \in Int /\ c \div 1 = c
        BY <1>4, <1>5 DEF Abs
      <4>3. q = IF (x < 0) = (y < 0) THEN c ELSE -c
        BY <1>6, <4>1, <4>2 DEF Truncated
      <4> QED
        BY <1>4, <1>5, <2>3, <4>2, <4>3 DEF Abs
    <3>2. Low(x, k) = Low(a, k)
      BY <1>0, <1>2, <1>5, SgnIs
    <3>3. (a + res) % m = 0
      <4>1. x \in Int /\ res = Low(-x, k)
        BY <1>4, <1>5, <2>1, <3>1
      <4> QED
        BY <1>0, <1>1, <1>2, <3>2, <4>1, NegativeAdds
    <3>4. RightValue(in, k, dw, v, res)
      BY <1>1, <1>5, <1>11, <2>3, <3>3 DEF RightValue
    <3> QED
      BY <1>1, <2>2, <3>4 DEF Right
  <2>4. CASE y # -1
    <3>1. -h <= q /\ q < h
      <4>1. CASE y = 1
        <5>1. Abs(y) = 1
          BY <4>1 DEF Abs
        <5>2. PICK c : c = Abs(x) /\ c \in Int /\ c \div 1 = c
          BY <1>4, <1>5 DEF Abs
        <5>3. q = IF (x < 0) = (y < 0) THEN c ELSE -c
          BY <1>6, <5>1, <5>2 DEF Truncated
        <5>4. q = x
          BY <1>4, <1>5, <4>1, <5>2, <5>3 DEF Abs
        <5> QED
          BY <1>4, <1>5, <5>4
      <4>2. CASE y # 1
        <5>1. Abs(y) >= 2
          BY <1>4, <1>5, <2>4, <4>2 DEF Abs
        <5> QED
          BY <1>4, <1>5, <1>7, <5>1 DEF Abs
      <4> QED
        BY <4>1, <4>2
    <3>2. Sgn(res, k) = q
      BY <1>0, <1>4, <1>7, <2>1, <3>1, SgnOfLow
    <3>3. \E c \in -m .. m : Divides(x, y, Sgn(res, k), c)
      BY <1>2, <1>7, <1>10, <3>2
    <3>4. RightValue(in, k, dw, v, res)
      BY <1>1, <1>5, <1>11, <2>4, <3>3 DEF RightValue
    <3> QED
      BY <1>1, <2>2, <3>4 DEF Right
  <2> QED
    BY <2>3, <2>4
<1>12. CASE in.op = "mod"
  <2>1. res = Low(r, k)
    BY <1>1, <1>3, <1>5, <1>6, <1>12 DEF Modulo
  <2>2. res \in 0 .. m - 1
    BY <1>0, <1>1, <1>7, <2>1, LowIsWord
  <2>3. Sgn(res, k) = r
    BY <1>0, <1>4, <1>7, <1>9, <2>1, SgnOfLow
  <2>4. \E c \in -m .. m : Divides(x, y, c, Sgn(res, k))
    BY <1>2, <1>7, <1>10, <2>3
  <2>5. RightValue(in, k, dw, v, res)
    BY <1>1, <1>5, <1>12, <2>4 DEF RightValue
  <2> QED
    BY <1>1, <2>2, <2>5 DEF Right
<1> QED
  BY <1>11, <1>12

\* Every arithmetic instruction that the verifier lets through computes what is right.
LEMMA AluIsRight ==
  ASSUME NEW in, NEW k, NEW dw \in Int, NEW v, Arithmetic(in, k, v)
  PROVE  Right(in, k, dw, v, AluValue(in, k, dw, v))
<1>1. in.op \in AluOps
  BY DEF Arithmetic, AluKnown
<1>2. CASE in.op \in {"add", "sub", "mul"}
  BY <1>2, SumIsRight
<1>3. CASE in.op \in {"or", "and", "xor"}
  BY <1>3, LogicIsRight
<1>4. CASE in.op \in {"lsh", "rsh", "arsh"}
  BY <1>4, ShiftIsRight
<1>5. CASE in.op = "neg"
  BY <1>5, NegIsRight
<1>6. CASE in.op = "mov"
  BY <1>6, MoveIsRight
<1>7. CASE in.op \in {"div", "mod"}
  <2>1. CASE Low(v, k) = 0 \/ in.off # 1
    BY <1>7, <2>1, UnsignedIsRight
  <2>2. CASE Low(v, k) # 0 /\ in.off = 1
    BY <1>7, <2>2, SignedIsRight
  <2> QED
    BY <2>1, <2>2
<1> QED
  BY <1>1, <1>2, <1>3, <1>4, <1>5, <1>6, <1>7 DEF AluOps

\* It leaves an integer.
LEMMA AluIsInt ==
  ASSUME NEW in, NEW k, NEW dw \in Int, NEW v, Arithmetic(in, k, v)
  PROVE  AluValue(in, k, dw, v) \in Int
<1>1. Mod(k) \in Int
  BY Widthed, WidthIs
<1>2. AluValue(in, k, dw, v) \in 0 .. Mod(k) - 1
  BY AluIsRight DEF Right
<1> QED
  BY <1>1, <1>2

-----------------------------------------------------------------------------
(* Where an access falls.                                                  *)

\* The widths of an access.
Widths == {1, 2, 4, 8}

\* The regions are apart in name, and within the address space.
LEMMA RegionsAre ==
  /\ \A q \in Region : /\ q.name \in {"stack", "map", "pkt"}
                       /\ q.from \in Nat /\ q.to \in Nat /\ q.to < Mod(8)
  /\ \A q, r \in Region : q.name = r.name => q = r
  /\ Mod(8) \in Int /\ Mod(8) > 0
<1>1. PICK m : m = Mod(8)
  OBVIOUS
<1>2. m \in Int /\ m > 0
  BY <1>1, ModIsPositive
<1>3. /\ StackBase \in Nat /\ MapBase \in Nat /\ PktBase \in Nat
      /\ StackSize \in Nat /\ MapSize \in Nat /\ PktSize \in Nat
      /\ MapBase + MapSize < StackBase - StackSize /\ StackBase < PktBase
      /\ PktBase + PktSize < m
  BY <1>1, BpfRefAssumption
<1>4. PICK a, b, c : /\ a = [name |-> "stack", from |-> StackBase - StackSize, to |-> StackBase]
                     /\ b = [name |-> "map", from |-> MapBase, to |-> MapBase + MapSize]
                     /\ c = [name |-> "pkt", from |-> PktBase, to |-> PktBase + PktSize]
                     /\ Region = {a, b, c}
  BY DEF Region
<1>5. /\ a.name = "stack" /\ a.from \in Nat /\ a.to \in Nat /\ a.to < m
      /\ b.name = "map" /\ b.from \in Nat /\ b.to \in Nat /\ b.to < m
      /\ c.name = "pkt" /\ c.from \in Nat /\ c.to \in Nat /\ c.to < m
  BY <1>2, <1>3, <1>4
<1> QED
  BY <1>1, <1>2, <1>4, <1>5

\* The test of bpfref_resolve, and when it is wrong.
Resolves(addr, w) ==
  /\ \A q \in Region : q \in Inside(addr, w) /\ Within(q, addr, w) <=> Covers(q, addr, w)
  /\ addr + w >= Mod(8) \/ \A q \in Inside(addr, w) : Within(q, addr, w)

\* It passes the accesses that a region covers, and others only when they wrap.
LEMMA InsideIsCovered ==
  ASSUME NEW addr \in Word, NEW w \in Widths
  PROVE  Resolves(addr, w)
<1>1. PICK m : m = Mod(8)
  OBVIOUS
<1>2. m \in Int /\ m > 0 /\ addr \in 0 .. m - 1 /\ w \in Nat /\ w > 0
  BY <1>1, ModIsPositive DEF Word, Widths
<1>3. addr + w < m => Low(addr + w, 8) = addr + w
  <2>1. addr + w < m => (addr + w) % m = addr + w
    BY <1>2
  <2> QED
    BY <1>1, <2>1 DEF Low
<1>4. \A q \in Region : q.from \in Nat /\ q.to \in Nat /\ q.to < m
  BY <1>1, RegionsAre
<1>5. \A q \in Region : Covers(q, addr, w) <=> addr >= q.from /\ addr + w <= q.to
  <2> TAKE q \in Region
  <2>1. PICK x, y : x = q.from /\ y = q.to /\ x \in Nat /\ y \in Nat
    BY <1>4
  <2>2. addr .. addr + w - 1 \subseteq x .. y - 1 => addr >= x /\ addr + w <= y
    <3> SUFFICES ASSUME addr .. addr + w - 1 \subseteq x .. y - 1 PROVE addr >= x /\ addr + w <= y
      OBVIOUS
    <3>1. addr \in addr .. addr + w - 1 /\ addr + w - 1 \in addr .. addr + w - 1
      BY <1>2
    <3>2. addr \in x .. y - 1 /\ addr + w - 1 \in x .. y - 1
      BY <3>1
    <3> QED
      BY <1>2, <2>1, <3>2
  <2>3. addr >= x /\ addr + w <= y => addr .. addr + w - 1 \subseteq x .. y - 1
    BY <1>2, <2>1
  <2> QED
    BY <2>1, <2>2, <2>3 DEF Covers
<1>6. \A q \in Region : q \in Inside(addr, w) <=> addr >= q.from /\ Low(addr + w, 8) <= q.to
  BY DEF Inside
<1>7. \A q : Within(q, addr, w) <=> addr + w <= q.to
  BY DEF Within
<1>8. \A q \in Region : q \in Inside(addr, w) /\ Within(q, addr, w) <=> Covers(q, addr, w)
  <2> TAKE q \in Region
  <2>1. addr + w <= q.to => addr + w < m
    BY <1>2, <1>4
  <2> QED
    BY <1>3, <1>5, <1>6, <1>7, <2>1
<1>9. addr + w >= m \/ \A q \in Inside(addr, w) : Within(q, addr, w)
  <2>1. Inside(addr, w) \subseteq Region
    BY DEF Inside
  <2>2. addr + w >= m \/ addr + w < m
    BY <1>2
  <2> QED
    BY <1>3, <1>6, <1>7, <2>1, <2>2
<1> QED
  BY <1>1, <1>8, <1>9 DEF Resolves

-----------------------------------------------------------------------------
(* Memory holds numbers.                                                   *)

\* A memory of the sizes of the regions.
MemTyped(m) ==
  /\ DOMAIN m = {"stack", "map", "pkt"}
  /\ \A q \in Region : m[q.name] \in [0 .. q.to - q.from - 1 -> Int]

\* An access that goes through.
Granted(m, q, addr, w) ==
  /\ MemTyped(m) /\ addr \in Word /\ w \in Widths
  /\ q \in Region /\ Covers(q, addr, w)

\* The units of it, in the region.
LEMMA GrantedUnits ==
  ASSUME NEW m, NEW q, NEW addr, NEW w, Granted(m, q, addr, w)
  PROVE  /\ \A j \in 0 .. w - 1 : addr - q.from + j \in 0 .. q.to - q.from - 1
         /\ addr \in Int /\ q.from \in Int /\ q.to \in Int /\ w \in Int
<1>1. PICK x, y : x = q.from /\ y = q.to
  OBVIOUS
<1>2. x \in Nat /\ y \in Nat
  BY <1>1, RegionsAre DEF Granted
<1>3. addr \in Int /\ w \in Nat
  BY RegionsAre DEF Granted, Word, Widths
<1>4. addr .. addr + w - 1 \subseteq x .. y - 1
  BY <1>1 DEF Granted, Covers
<1>5. \A j \in 0 .. w - 1 : addr - x + j \in 0 .. y - x - 1
  <2> TAKE j \in 0 .. w - 1
  <2>1. addr + j \in addr .. addr + w - 1
    BY <1>3
  <2>2. addr + j \in x .. y - 1
    BY <1>4, <2>1
  <2> QED
    BY <1>2, <1>3, <2>2
<1> QED
  BY <1>1, <1>2, <1>3, <1>5

\* What is read is an integer.
LEMMA ReadIsInt ==
  ASSUME NEW m, NEW q, NEW addr, NEW w, Granted(m, q, addr, w)
  PROVE  Read(m, q, addr, w) \in Int
<1>1. PICK c : c = m[q.name]
  OBVIOUS
<1>2. PICK d : d = 0 .. q.to - q.from - 1 /\ c \in [d -> Int]
  BY <1>1 DEF Granted, MemTyped
<1>3. \A j \in 0 .. w - 1 : c[addr - q.from + j] \in Int
  BY <1>2, GrantedUnits
<1>4. \A j \in 0 .. w - 1 : Mod(j) \in Int
  <2>1. 0 .. w - 1 \subseteq 0 .. 8
    BY DEF Granted, Widths
  <2> QED
    BY <2>1, ModIsPositive
<1>5. \A j \in 0 .. w - 1 : c[addr - q.from + j] * Mod(j) \in Int
  <2> TAKE j \in 0 .. w - 1
  <2>1. PICK a, b : a = c[addr - q.from + j] /\ b = Mod(j) /\ a \in Int /\ b \in Int
    BY <1>3, <1>4
  <2> QED
    BY <2>1
<1>6. PICK f : f = [j \in 0 .. w - 1 |-> c[addr - q.from + j] * Mod(j)]
  OBVIOUS
<1>7. f \in [0 .. w - 1 -> Int] /\ IsFiniteSet(0 .. w - 1)
  <2>1. w \in Int
    BY GrantedUnits
  <2> QED
    BY <1>5, <1>6, <2>1, FS_Interval
<1>8. SumFunction(f) \in Int
  BY <1>7, SumIsInt
<1>9. Read(m, q, addr, w) = SumFunction(f)
  BY <1>1, <1>6 DEF Read
<1> QED
  BY <1>8, <1>9

\* A write keeps memory typed, and what it changes it covers.
Written(m, m1, addr, w) ==
  /\ MemTyped(m1)
  /\ \A q \in Region : \A j \in DOMAIN m[q.name] :
       m1[q.name][j] # m[q.name][j] => q.from + j \in addr .. addr + w - 1

\* That is what an access that goes through does.
LEMMA WriteIsWritten ==
  ASSUME NEW m, NEW q, NEW addr, NEW w, Granted(m, q, addr, w), NEW v \in Int
  PROVE  Written(m, Write(m, q, addr, w, v), addr, w)
<1>1. PICK x, a, c, d : x = q.name /\ a = addr - q.from /\ c = m[x] /\ d = 0 .. q.to - q.from - 1
  OBVIOUS
<1>2. c \in [d -> Int] /\ x \in DOMAIN m
  BY <1>1, RegionsAre DEF Granted, MemTyped
<1>3. PICK e : e = [j \in d |-> IF j \in a .. a + w - 1 THEN (v \div Mod(j - a)) % Mod(1) ELSE c[j]]
  OBVIOUS
<1>4. a \in Int /\ w \in Int /\ w <= 8 /\ w > 0 /\ addr \in Int /\ q.from \in Int
  <2>1. addr \in Int /\ q.from \in Int
    BY GrantedUnits
  <2> QED
    BY <1>1, <2>1 DEF Granted, Widths
<1>5. e \in [d -> Int]
  <2>1. ASSUME NEW j \in d PROVE e[j] \in Int
    <3>1. CASE j \in a .. a + w - 1
      <4>1. j - a \in 0 .. 8
        BY <1>4, <3>1
      <4>2. PICK p, u : p = Mod(j - a) /\ u = Mod(1)
        OBVIOUS
      <4>3. p \in Int /\ p > 0 /\ u \in Int /\ u > 0
        BY <4>1, <4>2, ModIsPositive
      <4>4. v \div p \in Int
        BY <4>3
      <4>5. (v \div p) % u \in Int
        BY <4>3, <4>4
      <4> QED
        BY <1>3, <3>1, <4>2, <4>5
    <3>2. CASE j \notin a .. a + w - 1
      BY <1>2, <1>3, <3>2
    <3> QED
      BY <3>1, <3>2
  <2> QED
    BY <1>3, <2>1
<1>6. Write(m, q, addr, w, v) = [m EXCEPT ![x] = e]
  <2>1. DOMAIN m[q.name] = d
    BY <1>1, <1>2
  <2>2. Write(m, q, addr, w, v) = [m EXCEPT ![q.name] =
          [j \in DOMAIN m[q.name] |-> IF j \in addr - q.from .. addr - q.from + w - 1
             THEN (v \div Mod(j - (addr - q.from))) % Mod(1) ELSE m[q.name][j]]]
    BY DEF Write
  <2> QED
    BY <1>1, <1>3, <2>1, <2>2
<1>7. PICK m1 : m1 = [m EXCEPT ![x] = e]
  OBVIOUS
<1>8. DOMAIN m1 = DOMAIN m /\ m1[x] = e /\ \A y \in DOMAIN m : y # x => m1[y] = m[y]
  BY <1>2, <1>7
<1>9. \A r \in Region : r.name \in DOMAIN m /\ (r.name = x => r = q)
  BY <1>1, RegionsAre DEF Granted, MemTyped
<1>10. MemTyped(m1)
  <2>1. MemTyped(m) /\ \A r \in Region : r.name # x => m1[r.name] = m[r.name]
    BY <1>8, <1>9 DEF Granted
  <2>2. m1[q.name] \in [0 .. q.to - q.from - 1 -> Int]
    BY <1>1, <1>5, <1>8
  <2> QED
    BY <1>8, <1>9, <2>1, <2>2 DEF MemTyped
<1>11. ASSUME NEW r \in Region, NEW j \in DOMAIN m[r.name], m1[r.name][j] # m[r.name][j]
       PROVE  r.from + j \in addr .. addr + w - 1
  <2>1. r.name = x /\ r = q
    BY <1>8, <1>9, <1>11
  <2>2. j \in d /\ e[j] # c[j]
    BY <1>1, <1>2, <1>8, <1>11, <2>1
  <2>3. j \in a .. a + w - 1
    BY <1>3, <2>2
  <2> QED
    BY <1>1, <1>4, <2>1, <2>3
<1> QED
  BY <1>6, <1>7, <1>10, <1>11 DEF Written

-----------------------------------------------------------------------------
(* A run holds numbers.                                                    *)

\* The state of a run, whose registers and memory hold integers.
Valued(s) ==
  /\ s.pc \in Int /\ s.r \in [Reg -> Int] /\ MemTyped(s.mem)
  /\ s = [pc |-> s.pc, r |-> s.r, mem |-> s.mem, left |-> s.left, status |-> s.status]

\* s1 is a state of the run that was s, with this memory and status.
Becomes(s1, m, x) == Valued(s1) /\ s1.mem = m /\ s1.status = x

\* A run that stops,
LEMMA StopBecomes ==
  ASSUME NEW s, Valued(s), NEW x
  PROVE  Becomes(Stop(s, x), s.mem, x)
<1>1. PICK p, r, m, l, x0 :
        /\ p \in Int /\ r \in [Reg -> Int] /\ MemTyped(m)
        /\ s = [pc |-> p, r |-> r, mem |-> m, left |-> l, status |-> x0]
  BY DEF Valued
<1>2. Stop(s, x) = [pc |-> p, r |-> r, mem |-> m, left |-> l, status |-> x]
  BY <1>1 DEF Stop
<1> QED
  BY <1>1, <1>2 DEF Becomes, Valued

\* one that writes a register,
LEMMA WriteBecomes ==
  ASSUME NEW s, Valued(s), NEW d \in Reg, NEW v \in Int
  PROVE  Becomes(Step([s EXCEPT !.r[d] = v]), s.mem, s.status)
<1>1. PICK p, r, m, l, x0 :
        /\ p \in Int /\ r \in [Reg -> Int] /\ MemTyped(m)
        /\ s = [pc |-> p, r |-> r, mem |-> m, left |-> l, status |-> x0]
  BY DEF Valued
<1>2. PICK r1 : r1 = [r EXCEPT ![d] = v]
  OBVIOUS
<1>3. r1 \in [Reg -> Int]
  BY <1>1, <1>2
<1>4. PICK s1 : s1 = Step([s EXCEPT !.r[d] = v])
  OBVIOUS
<1>5. s1 = [pc |-> p + 1, r |-> r1, mem |-> m, left |-> l, status |-> x0]
  BY <1>1, <1>2, <1>4 DEF Step
<1>6. p + 1 \in Int
  BY <1>1
<1> QED
  BY <1>1, <1>3, <1>4, <1>5, <1>6 DEF Becomes, Valued

\* one that loads two slots,
LEMMA WideBecomes ==
  ASSUME NEW s, Valued(s), NEW d \in Reg, NEW v \in Int
  PROVE  Becomes([s EXCEPT !.r[d] = v, !.pc = @ + 2], s.mem, s.status)
<1>1. PICK p, r, m, l, x0 :
        /\ p \in Int /\ r \in [Reg -> Int] /\ MemTyped(m)
        /\ s = [pc |-> p, r |-> r, mem |-> m, left |-> l, status |-> x0]
  BY DEF Valued
<1>2. PICK r1 : r1 = [r EXCEPT ![d] = v]
  OBVIOUS
<1>3. r1 \in [Reg -> Int]
  BY <1>1, <1>2
<1>4. PICK s1 : s1 = [s EXCEPT !.r[d] = v, !.pc = @ + 2]
  OBVIOUS
<1>5. s1 = [pc |-> p + 2, r |-> r1, mem |-> m, left |-> l, status |-> x0]
  BY <1>1, <1>2, <1>4
<1>6. p + 2 \in Int
  BY <1>1
<1> QED
  BY <1>1, <1>3, <1>4, <1>5, <1>6 DEF Becomes, Valued

\* one that stores,
LEMMA StoreBecomes ==
  ASSUME NEW s, Valued(s), NEW M, MemTyped(M), NEW R \in [Reg -> Int]
  PROVE  /\ Becomes(Step([s EXCEPT !.mem = M]), M, s.status)
         /\ Becomes(Step([s EXCEPT !.mem = M, !.r = R]), M, s.status)
<1>1. PICK p, r, m, l, x0 :
        /\ p \in Int /\ r \in [Reg -> Int] /\ MemTyped(m)
        /\ s = [pc |-> p, r |-> r, mem |-> m, left |-> l, status |-> x0]
  BY DEF Valued
<1>2. PICK s1, s2 : /\ s1 = Step([s EXCEPT !.mem = M])
                    /\ s2 = Step([s EXCEPT !.mem = M, !.r = R])
  OBVIOUS
<1>3. /\ s1 = [pc |-> p + 1, r |-> r, mem |-> M, left |-> l, status |-> x0]
      /\ s2 = [pc |-> p + 1, r |-> R, mem |-> M, left |-> l, status |-> x0]
  BY <1>1, <1>2 DEF Step
<1>4. p + 1 \in Int
  BY <1>1
<1> QED
  BY <1>1, <1>2, <1>3, <1>4 DEF Becomes, Valued

\* and one that jumps.
LEMMA GoBecomes ==
  ASSUME NEW s, Valued(s), NEW p1 \in Int
  PROVE  Becomes([s EXCEPT !.pc = p1], s.mem, s.status)
<1>1. PICK p, r, m, l, x0 :
        /\ p \in Int /\ r \in [Reg -> Int] /\ MemTyped(m)
        /\ s = [pc |-> p, r |-> r, mem |-> m, left |-> l, status |-> x0]
  BY DEF Valued
<1>2. [s EXCEPT !.pc = p1] = [pc |-> p1, r |-> r, mem |-> m, left |-> l, status |-> x0]
  BY <1>1
<1> QED
  BY <1>1, <1>2 DEF Becomes, Valued

\* A run in the middle of a program, about to execute this.
Ready(s, in) ==
  /\ Valued(s) /\ Running(s) /\ in \in AnyInsn /\ in.dst \in Reg /\ in.src \in Reg
  /\ in.cls \in {"alu", "alu64"} /\ in.op \in {"lsh", "rsh", "arsh"} /\ ~in.x =>
       in.imm \in 0 .. Bits(WidthOf(in)) - 1

\* The operands of an arithmetic instruction that is ready are numbers.
LEMMA OperandsAre ==
  ASSUME NEW s, NEW in, Ready(s, in), in.cls \in {"alu", "alu64"}, AluKnown(in)
  PROVE  /\ s.r[in.dst] \in Int
         /\ Arithmetic(in, WidthOf(in), Operand(s, in))
<1>1. Valued(s) /\ in \in AnyInsn /\ in.dst \in Reg /\ in.src \in Reg
  BY DEF Ready
<1>2. PICK k, v : k = WidthOf(in) /\ v = Operand(s, in)
  OBVIOUS
<1>3. k \in {4, 8} /\ s.r[in.dst] \in Int
  BY <1>1, <1>2 DEF WidthOf, Valued
<1>4. v \in Int /\ (~in.x => v = Low(in.imm, 8))
  <2>1. in.imm \in Int /\ 8 \in 0 .. 8 /\ s.r[in.src] \in Int
    BY <1>1 DEF AnyInsn, Valued
  <2>2. Low(in.imm, 8) \in Int
    BY <2>1, LowIsWord
  <2> QED
    BY <1>2, <2>1, <2>2 DEF Operand
<1> QED
  BY <1>2, <1>3, <1>4 DEF Arithmetic, Ready

\* Arithmetic,
LEMMA AluBecomes ==
  ASSUME NEW s, NEW in, Ready(s, in), in.cls \in {"alu", "alu64"}
  PROVE  Valued(ExecAlu(s, in))
<1>1. Valued(s) /\ in \in AnyInsn /\ in.dst \in Reg /\ in.src \in Reg
  BY DEF Ready
<1>2. CASE ~AluKnown(in)
  BY <1>1, <1>2, StopBecomes DEF ExecAlu, Becomes
<1>3. CASE AluKnown(in)
  <2>1. PICK k, v, dw : k = WidthOf(in) /\ v = Operand(s, in) /\ dw = s.r[in.dst]
    OBVIOUS
  <2>4. dw \in Int /\ Arithmetic(in, k, v)
    BY <1>3, <2>1, OperandsAre
  <2>5. PICK u : u = AluValue(in, k, dw, v) /\ u \in Int
    BY <2>4, AluIsInt
  <2>6. ExecAlu(s, in) = Step([s EXCEPT !.r[in.dst] = u])
    <3>1. ExecAlu(s, in) = Step([s EXCEPT !.r[in.dst] = AluValue(in, WidthOf(in), @, Operand(s, in))])
      BY <1>3 DEF ExecAlu
    <3> QED
      BY <2>1, <2>5, <3>1
  <2>7. Becomes(Step([s EXCEPT !.r[in.dst] = u]), s.mem, s.status)
    BY <1>1, <2>5, WriteBecomes
  <2> QED
    BY <2>6, <2>7 DEF Becomes
<1> QED
  BY <1>2, <1>3

\* wide loads
LEMMA LoadImmBecomes ==
  ASSUME NEW p, NEW s, NEW in, Ready(s, in),
         \A a \in DOMAIN p : p[a] \in AnyInsn
  PROVE  Valued(ExecLoadImm(p, s, in))
<1>1. Valued(s) /\ in \in AnyInsn /\ in.dst \in Reg
  BY DEF Ready
<1>2. CASE in.op # "imm64" \/ in.src # 0
  BY <1>1, <1>2, StopBecomes DEF ExecLoadImm, Becomes
<1>3. CASE ~(in.op # "imm64" \/ in.src # 0) /\ s.pc + 1 \notin DOMAIN p
  BY <1>1, <1>3, StopBecomes DEF ExecLoadImm, Becomes
<1>4. CASE ~(in.op # "imm64" \/ in.src # 0) /\ s.pc + 1 \in DOMAIN p
  <2>1. in.imm \in Int /\ p[s.pc + 1].imm \in Int /\ 4 \in 0 .. 8
    BY <1>1, <1>4 DEF AnyInsn
  <2>2. PICK a, b, m : a = Low(in.imm, 4) /\ b = Low(p[s.pc + 1].imm, 4) /\ m = Mod(4)
    OBVIOUS
  <2>3. a \in Int /\ b \in Int /\ m \in Int
    BY <2>1, <2>2, LowIsWord, ModIsPositive
  <2>4. PICK v : v = a + m * b /\ v \in Int
    BY <2>3
  <2>5. ExecLoadImm(p, s, in) = [s EXCEPT !.r[in.dst] = v, !.pc = @ + 2]
    BY <1>4, <2>2, <2>4 DEF ExecLoadImm
  <2>6. Becomes([s EXCEPT !.r[in.dst] = v, !.pc = @ + 2], s.mem, s.status)
    BY <1>1, <2>4, WideBecomes
  <2> QED
    BY <2>5, <2>6 DEF Becomes
<1> QED
  BY <1>2, <1>3, <1>4

\* and jumps leave integers.
LEMMA JumpBecomes ==
  ASSUME NEW s, NEW in, Ready(s, in)
  PROVE  Valued(ExecJump(s, in))
<1>1. Valued(s) /\ s.pc \in Int /\ in.imm \in Int /\ in.off \in Int
  BY DEF Ready, AnyInsn, Valued
<1>2. PICK taken : taken = Taken(in.op, WidthOf(in), Low(s.r[in.dst], WidthOf(in)),
                                Low(Operand(s, in), WidthOf(in)))
  OBVIOUS
<1>3. {"exit", "ja"} \cap JumpOps = {}
  BY DEF JumpOps
<1>4. PICK k, c, e : /\ k = IF in.cls = "jmp32" THEN in.imm ELSE in.off
                     /\ c = s.pc + 1 + k
                     /\ e = s.pc + 1 + (IF taken THEN in.off ELSE 0)
  OBVIOUS
<1>5. c \in Int /\ e \in Int
  BY <1>1, <1>4
<1>6. CASE in.op = "exit"
  <2>1. PICK x : x = IF in.cls = "jmp" THEN "ok" ELSE "unsupported"
    OBVIOUS
  <2>2. ExecJump(s, in) = Stop(s, IF in.cls = "jmp" THEN "ok" ELSE "unsupported")
    BY <1>3, <1>6 DEF ExecJump
  <2> QED
    BY <1>1, <2>1, <2>2, StopBecomes DEF Becomes
<1>7. CASE in.op = "ja"
  <2>1. ExecJump(s, in) = [s EXCEPT !.pc = @ + 1 + k]
    BY <1>3, <1>4, <1>7 DEF ExecJump
  <2>2. ExecJump(s, in) = [s EXCEPT !.pc = c]
    BY <1>4, <2>1
  <2> QED
    BY <1>1, <1>5, <2>2, GoBecomes DEF Becomes
<1>8. CASE in.op \in JumpOps
  <2>1. ExecJump(s, in) = [s EXCEPT !.pc = e]
    BY <1>2, <1>3, <1>4, <1>8 DEF ExecJump
  <2> QED
    BY <1>1, <1>5, <2>1, GoBecomes DEF Becomes
<1>9. CASE in.op \notin {"exit", "ja"} \cup JumpOps
  <2>1. ExecJump(s, in) = Stop(s, "unsupported")
    BY <1>9 DEF ExecJump
  <2> QED
    BY <1>1, <2>1, StopBecomes DEF Becomes
<1> QED
  BY <1>6, <1>7, <1>8, <1>9

\* What an access may do to the run that was s.
Resolved(s, s1, addr, w) ==
  /\ Valued(s1)
  /\ \/ s1.status = "unsupported"
     \/ s1.status = "oob" /\ s1.mem = s.mem /\ Inside(addr, w) = {}
     \/ s1.status = "wild" /\ s1.mem = s.mem /\ \E q \in Inside(addr, w) : ~Within(q, addr, w)
     \/ /\ s1.status = "running" /\ Written(s.mem, s1.mem, addr, w)
        /\ \E q \in Inside(addr, w) : Within(q, addr, w)

\* The region of an access that goes through.
Holds(s, q, addr, w) ==
  /\ Valued(s) /\ s.status = "running" /\ addr \in Word /\ w \in Widths
  /\ q \in Inside(addr, w) /\ Within(q, addr, w)

\* It covers the access.
LEMMA HoldsIsGranted ==
  ASSUME NEW s, NEW q, NEW addr, NEW w, Holds(s, q, addr, w)
  PROVE  Granted(s.mem, q, addr, w)
<1>1. q \in Region
  BY DEF Holds, Inside
<1>2. Resolves(addr, w)
  BY InsideIsCovered DEF Holds
<1> QED
  BY <1>1, <1>2 DEF Holds, Granted, Resolves, Valued

\* An access that stops the run does so for the reason it says.
LEMMA StopResolved ==
  ASSUME NEW s, Valued(s), NEW addr, NEW w
  PROVE  /\ Resolved(s, Stop(s, "unsupported"), addr, w)
         /\ Inside(addr, w) = {} => Resolved(s, Stop(s, "oob"), addr, w)
         /\ (\E q \in Inside(addr, w) : ~Within(q, addr, w)) =>
              Resolved(s, Stop(s, "wild"), addr, w)
<1>1. /\ Becomes(Stop(s, "unsupported"), s.mem, "unsupported")
      /\ Becomes(Stop(s, "oob"), s.mem, "oob")
      /\ Becomes(Stop(s, "wild"), s.mem, "wild")
  BY StopBecomes
<1> QED
  BY <1>1 DEF Becomes, Resolved

\* A load writes a register,
LEMMA LoadResolved ==
  ASSUME NEW s, NEW q, NEW addr, NEW w, Holds(s, q, addr, w), NEW d \in Reg, NEW v \in Int
  PROVE  Resolved(s, Step([s EXCEPT !.r[d] = v]), addr, w)
<1>1. PICK s1 : s1 = Step([s EXCEPT !.r[d] = v])
  OBVIOUS
<1>2. Becomes(s1, s.mem, "running")
  BY <1>1, WriteBecomes DEF Holds
<1>3. Written(s.mem, s.mem, addr, w)
  BY DEF Holds, Valued, Written
<1>4. \E r \in Inside(addr, w) : Within(r, addr, w)
  BY DEF Holds
<1> QED
  BY <1>1, <1>2, <1>3, <1>4 DEF Becomes, Resolved

\* a store and an atomic the memory.
LEMMA StoreResolved ==
  ASSUME NEW s, NEW q, NEW addr, NEW w, Holds(s, q, addr, w), NEW v \in Int,
         NEW M, M = Write(s.mem, q, addr, w, v), NEW R \in [Reg -> Int]
  PROVE  /\ Resolved(s, Step([s EXCEPT !.mem = M]), addr, w)
         /\ Resolved(s, Step([s EXCEPT !.mem = M, !.r = R]), addr, w)
<1>1. Written(s.mem, M, addr, w)
  BY HoldsIsGranted, WriteIsWritten
<1>2. MemTyped(M) /\ Valued(s) /\ s.status = "running"
  BY <1>1 DEF Written, Holds
<1>3. PICK s1, s2 : s1 = Step([s EXCEPT !.mem = M]) /\ s2 = Step([s EXCEPT !.mem = M, !.r = R])
  OBVIOUS
<1>4. Becomes(s1, M, "running") /\ Becomes(s2, M, "running")
  BY <1>2, <1>3, StoreBecomes
<1>5. \E r \in Inside(addr, w) : Within(r, addr, w)
  BY DEF Holds
<1> QED
  BY <1>1, <1>3, <1>4, <1>5 DEF Becomes, Resolved

\* Addresses are words.
LEMMA AddressIsWord ==
  ASSUME NEW s, NEW in, Ready(s, in), NEW j \in Reg
  PROVE  Address(s, j, in.off) \in Word
<1>1. s.r[j] \in Int /\ in.off \in Int
  BY DEF Ready, Valued, AnyInsn
<1>2. s.r[j] + in.off \in Int /\ 8 \in 0 .. 8
  BY <1>1
<1> QED
  BY <1>2, LowIsWord DEF Address, Word

\* A load,
LEMMA ExecLoadResolved ==
  ASSUME NEW s, NEW in, Ready(s, in), in.cls = "ldx"
  PROVE  Resolved(s, ExecLoad(s, in), Address(s, in.src, in.off), in.w)
<1>1. Valued(s) /\ s.status = "running" /\ in.dst \in Reg /\ in.src \in Reg /\ in.w \in Widths
  BY DEF Ready, Running, AnyInsn, Widths
<1>2. PICK addr : addr = Address(s, in.src, in.off) /\ addr \in Word
  BY <1>1, AddressIsWord
<1>3. CASE Inside(addr, in.w) = {}
  <2>1. ExecLoad(s, in) = Stop(s, "oob")
    BY <1>2, <1>3 DEF ExecLoad, Access
  <2> QED
    BY <1>1, <1>2, <1>3, <2>1, StopResolved
<1>4. CASE Inside(addr, in.w) # {}
  <2>1. PICK r : r = CHOOSE q \in Inside(addr, in.w) : TRUE
    OBVIOUS
  <2>2. r \in Inside(addr, in.w)
    BY <1>4, <2>1
  <2>3. CASE ~Within(r, addr, in.w)
    <3>1. ExecLoad(s, in) = Stop(s, "wild")
      BY <1>2, <1>4, <2>1, <2>3 DEF ExecLoad, Access
    <3>2. \E q \in Inside(addr, in.w) : ~Within(q, addr, in.w)
      BY <2>2, <2>3
    <3> QED
      BY <1>1, <1>2, <3>1, <3>2, StopResolved
  <2>4. CASE Within(r, addr, in.w)
    <3>1. Holds(s, r, addr, in.w)
      BY <1>1, <1>2, <2>2, <2>4 DEF Holds
    <3>2. PICK raw : raw = Read(s.mem, r, addr, in.w) /\ raw \in Int
      BY <3>1, HoldsIsGranted, ReadIsInt
    <3>3. CASE in.op = "mem"
      <4>1. ExecLoad(s, in) = Step([s EXCEPT !.r[in.dst] = raw])
        BY <1>2, <1>4, <2>1, <2>4, <3>2, <3>3 DEF ExecLoad, Access
      <4>2. Resolved(s, Step([s EXCEPT !.r[in.dst] = raw]), addr, in.w)
        BY <1>1, <3>1, <3>2, LoadResolved
      <4> QED
        BY <1>2, <4>1, <4>2
    <3>4. CASE in.op = "memsx" /\ in.w < 8
      <4>1. PICK v : v = Low(Sgn(raw, in.w), 8)
        OBVIOUS
      <4>2. v \in Int
        <5>1. in.w \in 0 .. 8 /\ 8 \in 0 .. 8
          BY <1>1 DEF Widths
        <5>2. Sgn(raw, in.w) \in Int
          BY <3>2, <5>1, SgnIsInt
        <5> QED
          BY <4>1, <5>1, <5>2, LowIsWord
      <4>3. ExecLoad(s, in) = Step([s EXCEPT !.r[in.dst] = v])
        BY <1>2, <1>4, <2>1, <2>4, <3>2, <3>4, <4>1 DEF ExecLoad, Access
      <4>4. Resolved(s, Step([s EXCEPT !.r[in.dst] = v]), addr, in.w)
        BY <1>1, <3>1, <4>2, LoadResolved
      <4> QED
        BY <1>2, <4>3, <4>4
    <3>5. CASE ~(in.op = "mem") /\ ~(in.op = "memsx" /\ in.w < 8)
      <4>1. ExecLoad(s, in) = Stop(s, "unsupported")
        BY <1>2, <1>4, <2>1, <2>4, <3>5 DEF ExecLoad, Access
      <4> QED
        BY <1>1, <1>2, <4>1, StopResolved
    <3> QED
      BY <3>3, <3>4, <3>5
  <2> QED
    BY <2>3, <2>4
<1> QED
  BY <1>3, <1>4

\* a store
LEMMA ExecStoreResolved ==
  ASSUME NEW s, NEW in, Ready(s, in), in.cls = "st" \/ (in.cls = "stx" /\ in.op = "mem")
  PROVE  Resolved(s, ExecStore(s, in), Address(s, in.dst, in.off), in.w)
<1>1. /\ Valued(s) /\ s.status = "running" /\ in.dst \in Reg /\ in.src \in Reg /\ in.w \in Widths
      /\ s.r \in [Reg -> Int] /\ in.imm \in Int
  BY DEF Ready, Running, AnyInsn, Widths, Valued
<1>2. PICK addr : addr = Address(s, in.dst, in.off) /\ addr \in Word
  BY <1>1, AddressIsWord
<1>3. PICK v : v = IF in.cls = "stx" THEN s.r[in.src] ELSE Low(in.imm, in.w)
  OBVIOUS
<1>4. v \in Int
  <2>1. in.w \in 0 .. 8
    BY <1>1 DEF Widths
  <2>2. Low(in.imm, in.w) \in Int
    BY <1>1, <2>1, LowIsWord
  <2> QED
    BY <1>1, <1>3, <2>2
<1>5. CASE in.op # "mem"
  <2>1. ExecStore(s, in) = Stop(s, "unsupported")
    BY <1>5 DEF ExecStore
  <2> QED
    BY <1>1, <1>2, <2>1, StopResolved
<1>6. CASE in.op = "mem" /\ Inside(addr, in.w) = {}
  <2>1. ExecStore(s, in) = Stop(s, "oob")
    BY <1>2, <1>6 DEF ExecStore, Access
  <2> QED
    BY <1>1, <1>2, <1>6, <2>1, StopResolved
<1>7. CASE in.op = "mem" /\ Inside(addr, in.w) # {}
  <2>1. PICK r : r = CHOOSE q \in Inside(addr, in.w) : TRUE
    OBVIOUS
  <2>2. r \in Inside(addr, in.w)
    BY <1>7, <2>1
  <2>3. CASE ~Within(r, addr, in.w)
    <3>1. ExecStore(s, in) = Stop(s, "wild")
      BY <1>2, <1>7, <2>1, <2>3 DEF ExecStore, Access
    <3>2. \E q \in Inside(addr, in.w) : ~Within(q, addr, in.w)
      BY <2>2, <2>3
    <3> QED
      BY <1>1, <1>2, <3>1, <3>2, StopResolved
  <2>4. CASE Within(r, addr, in.w)
    <3>1. Holds(s, r, addr, in.w)
      BY <1>1, <1>2, <2>2, <2>4 DEF Holds
    <3>2. PICK M : M = Write(s.mem, r, addr, in.w, v)
      OBVIOUS
    <3>3. ExecStore(s, in) = Step([s EXCEPT !.mem = M])
      BY <1>2, <1>3, <1>7, <2>1, <2>4, <3>2 DEF ExecStore, Access
    <3>4. Resolved(s, Step([s EXCEPT !.mem = M]), addr, in.w)
      BY <1>1, <1>4, <3>1, <3>2, StoreResolved
    <3> QED
      BY <1>2, <3>3, <3>4
  <2> QED
    BY <2>3, <2>4
<1> QED
  BY <1>5, <1>6, <1>7

\* What an atomic stores and what it leaves in the registers are integers.
LEMMA AtomicIsInt ==
  ASSUME NEW s, NEW in, Ready(s, in), in.w \in {4, 8}, in.op \in AtomicOps, NEW old \in Int
  PROVE  AtomicResult(s, in, old) \in Int /\ AtomicRegs(s, in, old) \in [Reg -> Int]
<1>1. s.r \in [Reg -> Int] /\ in.src \in Reg /\ 0 \in Reg /\ in.w \in 0 .. 8 /\ in.w \in Nat
  BY DEF Ready, Valued, Reg
<1>2. PICK sv : sv = Low(s.r[in.src], in.w)
  OBVIOUS
<1>3. sv \in Int
  BY <1>1, <1>2, LowIsWord
<1>4. Low(old + sv, in.w) \in Int
  <2>1. old + sv \in Int
    BY <1>3
  <2> QED
    BY <1>1, <2>1, LowIsWord
<1>5. OrBits(in.w, old, sv) \in Int /\ AndBits(in.w, old, sv) \in Int /\ XorBits(in.w, old, sv) \in Int
  <2>1. in.w \in 1 .. 8
    OBVIOUS
  <2>2. PICK m : m = Mod(in.w) /\ m \in Int
    BY <2>1, WidthIs
  <2>3. /\ OrBits(in.w, old, sv) \in 0 .. m - 1 /\ AndBits(in.w, old, sv) \in 0 .. m - 1
        /\ XorBits(in.w, old, sv) \in 0 .. m - 1
    BY <2>1, <2>2, OrIs, AndIs, XorIs
  <2> QED
    BY <2>2, <2>3
<1>6. AtomicResult(s, in, old) \in Int
  <2>1. CASE in.op = "add"
    BY <1>2, <1>4, <2>1 DEF AtomicResult
  <2>2. CASE in.op = "or"
    BY <1>2, <1>5, <2>2 DEF AtomicResult
  <2>3. CASE in.op = "and"
    BY <1>2, <1>5, <2>3 DEF AtomicResult
  <2>4. CASE in.op = "xor"
    BY <1>2, <1>5, <2>4 DEF AtomicResult
  <2>5. CASE in.op = "xchg"
    BY <1>2, <1>3, <2>5 DEF AtomicResult
  <2>6. CASE in.op = "cmpxchg"
    BY <1>2, <1>3, <2>6 DEF AtomicResult
  <2> QED
    BY <2>1, <2>2, <2>3, <2>4, <2>5, <2>6 DEF AtomicOps
<1>7. AtomicRegs(s, in, old) \in [Reg -> Int]
  <2>1. [s.r EXCEPT ![0] = old] \in [Reg -> Int] /\ [s.r EXCEPT ![in.src] = old] \in [Reg -> Int]
    BY <1>1
  <2> QED
    BY <1>1, <2>1 DEF AtomicRegs
<1> QED
  BY <1>6, <1>7

\* and an atomic are accesses of that kind.
LEMMA ExecAtomicResolved ==
  ASSUME NEW s, NEW in, Ready(s, in), in.cls = "stx"
  PROVE  Resolved(s, ExecAtomic(s, in), Address(s, in.dst, in.off), in.w)
<1>1. Valued(s) /\ s.status = "running" /\ in.dst \in Reg /\ in.src \in Reg /\ in.w \in Widths
  BY DEF Ready, Running, AnyInsn, Widths
<1>2. PICK addr : addr = Address(s, in.dst, in.off) /\ addr \in Word
  BY <1>1, AddressIsWord
<1>3. CASE in.w \notin {4, 8}
  <2>1. ExecAtomic(s, in) = Stop(s, "unsupported")
    BY <1>3 DEF ExecAtomic
  <2> QED
    BY <1>1, <1>2, <2>1, StopResolved
<1>4. CASE in.w \in {4, 8} /\ Inside(addr, in.w) = {}
  <2>1. ExecAtomic(s, in) = Stop(s, "oob")
    BY <1>2, <1>4 DEF ExecAtomic, Access
  <2> QED
    BY <1>1, <1>2, <1>4, <2>1, StopResolved
<1>5. CASE in.w \in {4, 8} /\ Inside(addr, in.w) # {}
  <2>1. PICK r : r = CHOOSE q \in Inside(addr, in.w) : TRUE
    OBVIOUS
  <2>2. r \in Inside(addr, in.w)
    BY <1>5, <2>1
  <2>3. CASE ~Within(r, addr, in.w)
    <3>1. ExecAtomic(s, in) = Stop(s, "wild")
      BY <1>2, <1>5, <2>1, <2>3 DEF ExecAtomic, Access
    <3>2. \E q \in Inside(addr, in.w) : ~Within(q, addr, in.w)
      BY <2>2, <2>3
    <3> QED
      BY <1>1, <1>2, <3>1, <3>2, StopResolved
  <2>4. CASE Within(r, addr, in.w) /\ in.op \notin AtomicOps
    <3>1. ExecAtomic(s, in) = Stop(s, "unsupported")
      BY <1>2, <1>5, <2>1, <2>4 DEF ExecAtomic, Access
    <3> QED
      BY <1>1, <1>2, <3>1, StopResolved
  <2>5. CASE Within(r, addr, in.w) /\ in.op \in AtomicOps
    <3>1. Holds(s, r, addr, in.w)
      BY <1>1, <1>2, <2>2, <2>5 DEF Holds
    <3>2. PICK old : old = Read(s.mem, r, addr, in.w) /\ old \in Int
      BY <3>1, HoldsIsGranted, ReadIsInt
    <3>3. PICK res, R : res = AtomicResult(s, in, old) /\ R = AtomicRegs(s, in, old)
      OBVIOUS
    <3>4. res \in Int /\ R \in [Reg -> Int]
      BY <1>5, <2>5, <3>2, <3>3, AtomicIsInt
    <3>5. PICK M : M = Write(s.mem, r, addr, in.w, res)
      OBVIOUS
    <3>6. ExecAtomic(s, in) = Step([s EXCEPT !.mem = M, !.r = R])
      BY <1>2, <1>5, <2>1, <2>5, <3>2, <3>3, <3>5 DEF ExecAtomic, Access, AtomicResult
    <3>7. Resolved(s, Step([s EXCEPT !.mem = M, !.r = R]), addr, in.w)
      BY <3>1, <3>4, <3>5, StoreResolved
    <3> QED
      BY <1>2, <3>6, <3>7
  <2> QED
    BY <2>3, <2>4, <2>5
<1> QED
  BY <1>3, <1>4, <1>5

\* An access that AccessIsChecked allows.
Allowed(s, s1, addr, w) ==
  /\ s1.status = "running" <=> {r \in Region : Covers(r, addr, w)} # {}
  /\ s1.status = "wild" => addr + w >= Mod(8)
  /\ s1.status \in {"oob", "wild"} => s1.mem = s.mem
  /\ \A r \in Region : \A j \in DOMAIN s.mem[r.name] :
       s1.mem[r.name][j] # s.mem[r.name][j] => r.from + j \in addr .. addr + w - 1

\* They all are.
LEMMA ResolvedIsAllowed ==
  ASSUME NEW s, NEW s1, NEW addr \in Word, NEW w \in Widths, Resolved(s, s1, addr, w),
         s1.status # "unsupported"
  PROVE  Allowed(s, s1, addr, w)
<1>1. Resolves(addr, w)
  BY InsideIsCovered
<1>2. Inside(addr, w) \subseteq Region
  BY DEF Inside
<1>3. CASE s1.status = "oob" /\ s1.mem = s.mem /\ Inside(addr, w) = {}
  BY <1>1, <1>3 DEF Resolves, Allowed
<1>4. CASE s1.status = "wild" /\ s1.mem = s.mem /\ \E q \in Inside(addr, w) : ~Within(q, addr, w)
  <2>1. addr + w >= Mod(8)
    BY <1>1, <1>4 DEF Resolves
  <2>2. ASSUME NEW r \in Region, Covers(r, addr, w) PROVE FALSE
    <3>1. addr + w <= r.to
      BY <1>1, <2>2 DEF Resolves, Within
    <3>2. PICK m, y : m = Mod(8) /\ y = r.to /\ m \in Int /\ y \in Int /\ y < m
      BY RegionsAre
    <3>3. addr \in Int /\ w \in Int
      BY RegionsAre DEF Word, Widths
    <3> QED
      BY <2>1, <3>1, <3>2, <3>3
  <2> QED
    BY <1>4, <2>1, <2>2 DEF Allowed
<1>5. CASE /\ s1.status = "running" /\ Written(s.mem, s1.mem, addr, w)
           /\ \E q \in Inside(addr, w) : Within(q, addr, w)
  <2>1. PICK q \in Region : Covers(q, addr, w)
    BY <1>1, <1>2, <1>5 DEF Resolves
  <2> QED
    BY <1>5, <2>1 DEF Allowed, Written
<1> QED
  BY <1>3, <1>4, <1>5 DEF Resolved

\* One turn of a run leaves it with numbers, and its accesses are allowed.
Executes(s, s1) ==
  /\ Valued(s1)
  /\ Accesses(s) /\ s1.status # "unsupported" => Allowed(s, s1, AccessAt(s), text[s.pc].w)

\* The budget is paid first.
LEMMA PaidValued ==
  ASSUME NEW s, Valued(s), NEW s0, s0 = [s EXCEPT !.left = @ - 1]
  PROVE  /\ Valued(s0) /\ s0.pc = s.pc /\ s0.r = s.r /\ s0.mem = s.mem
         /\ s0.status = s.status
<1>1. PICK p, r, m, l, x0 :
        /\ p \in Int /\ r \in [Reg -> Int] /\ MemTyped(m)
        /\ s = [pc |-> p, r |-> r, mem |-> m, left |-> l, status |-> x0]
  BY DEF Valued
<1>2. s0 = [pc |-> p, r |-> r, mem |-> m, left |-> l - 1, status |-> x0]
  BY <1>1
<1> QED
  BY <1>1, <1>2 DEF Valued

\* Any instruction.
LEMMA ExecutedIs ==
  ASSUME NEW p, NEW s, NEW in, Ready(s, in), \A a \in DOMAIN p : p[a] \in AnyInsn
  PROVE  /\ Valued(Executed(p, s, in))
         /\ in.cls \in {"ldx", "st", "stx"} =>
              Resolved(s, Executed(p, s, in),
                       Address(s, IF in.cls = "ldx" THEN in.src ELSE in.dst, in.off), in.w)
<1>1. in.cls \in {"alu", "alu64", "ld", "ldx", "st", "stx", "jmp", "jmp32"}
  BY DEF Ready, AnyInsn
<1>2. CASE in.cls \in {"alu", "alu64"}
  <2>1. Executed(p, s, in) = ExecAlu(s, in)
    BY <1>2 DEF Executed
  <2> QED
    BY <1>2, <2>1, AluBecomes
<1>3. CASE in.cls = "ld"
  <2>1. Executed(p, s, in) = ExecLoadImm(p, s, in)
    BY <1>3 DEF Executed
  <2> QED
    BY <1>3, <2>1, LoadImmBecomes
<1>4. CASE in.cls = "ldx"
  <2>1. Executed(p, s, in) = ExecLoad(s, in)
    BY <1>4 DEF Executed
  <2>2. Resolved(s, ExecLoad(s, in), Address(s, in.src, in.off), in.w)
    BY <1>4, ExecLoadResolved
  <2> QED
    BY <1>4, <2>1, <2>2 DEF Resolved
<1>5. CASE in.cls = "stx" /\ in.op # "mem"
  <2>1. Executed(p, s, in) = ExecAtomic(s, in)
    BY <1>5 DEF Executed
  <2>2. Resolved(s, ExecAtomic(s, in), Address(s, in.dst, in.off), in.w)
    BY <1>5, ExecAtomicResolved
  <2> QED
    BY <1>5, <2>1, <2>2 DEF Resolved
<1>6. CASE in.cls = "st" \/ (in.cls = "stx" /\ in.op = "mem")
  <2>1. Executed(p, s, in) = ExecStore(s, in)
    BY <1>6 DEF Executed
  <2>2. Resolved(s, ExecStore(s, in), Address(s, in.dst, in.off), in.w)
    BY <1>6, ExecStoreResolved
  <2> QED
    BY <1>6, <2>1, <2>2 DEF Resolved
<1>7. CASE in.cls \in {"jmp", "jmp32"}
  <2>1. Executed(p, s, in) = ExecJump(s, in)
    BY <1>7 DEF Executed
  <2> QED
    BY <1>7, <2>1, JumpBecomes
<1> QED
  BY <1>1, <1>2, <1>3, <1>4, <1>5, <1>6, <1>7

\* Every turn does, of the program the analysis was made of.
LEMMA ExecTurns ==
  ASSUME SameProgram, NEW s, Valued(s), Running(s)
  PROVE  Executes(s, Exec(text, s))
<1>1. DOMAIN text = Addr /\ \A a \in Addr : text[a] \in AnyInsn
  BY TextIs
<1>2. CASE s.pc \notin Addr
  <2>1. Exec(text, s) = Stop(s, "badpc")
    BY <1>1, <1>2 DEF Exec
  <2> QED
    BY <1>2, <2>1, StopBecomes DEF Becomes, Executes, Accesses
<1>3. CASE s.pc \in Addr /\ s.left = 0
  <2>1. Exec(text, s) = Stop(s, "loop")
    BY <1>1, <1>3 DEF Exec
  <2>2. ~Accesses(s)
    BY <1>3 DEF Accesses
  <2> QED
    BY <2>1, <2>2, StopBecomes DEF Becomes, Executes
<1>4. CASE s.pc \in Addr /\ s.left # 0
  <2>1. PICK s0, in : s0 = [s EXCEPT !.left = @ - 1] /\ in = text[s.pc]
    OBVIOUS
  <2>2. /\ Valued(s0) /\ s0.pc = s.pc /\ s0.r = s.r /\ s0.mem = s.mem
        /\ s0.status = s.status
    BY <2>1, PaidValued
  <2>3. in \in AnyInsn
    BY <1>1, <1>4, <2>1
  <2>4. CASE ~({in.dst, in.src} \subseteq Reg)
    <3>1. Exec(text, s) = Stop(s0, "unsupported")
      BY <1>1, <1>4, <2>1, <2>4 DEF Exec
    <3>2. Becomes(Stop(s0, "unsupported"), s0.mem, "unsupported")
      BY <2>2, StopBecomes
    <3> QED
      BY <3>1, <3>2 DEF Becomes, Executes
  <2>5. CASE {in.dst, in.src} \subseteq Reg
    <3>1. Exec(text, s) = Executed(text, s0, in)
      BY <1>1, <1>4, <2>1, <2>5 DEF Exec, Executed
    <3>2. Ready(s0, in)
      <4>1. text \in Texts /\ s.pc \in DOMAIN text
        BY <1>1, <1>4 DEF SameProgram
      <4>2. in.cls \in {"alu", "alu64"} /\ in.op \in {"lsh", "rsh", "arsh"} /\ ~in.x =>
              in.imm \in 0 .. Bits(WidthOf(in)) - 1
        BY <2>1, <4>1, ShiftAssumption
      <4> QED
        BY <2>2, <2>3, <2>5, <4>2 DEF Ready, Running
    <3>3. \A a \in DOMAIN text : text[a] \in AnyInsn
      BY <1>1
    <3>4. PICK s1 : s1 = Executed(text, s0, in)
      OBVIOUS
    <3>5. PICK j : j = IF in.cls = "ldx" THEN in.src ELSE in.dst
      OBVIOUS
    <3>6. /\ Valued(s1)
          /\ in.cls \in {"ldx", "st", "stx"} => Resolved(s0, s1, Address(s0, j, in.off), in.w)
      BY <3>2, <3>3, <3>4, <3>5, ExecutedIs
    <3>7. ASSUME Accesses(s), s1.status # "unsupported"
          PROVE  Allowed(s, s1, AccessAt(s), text[s.pc].w)
      <4>1. PICK addr : addr = Address(s0, j, in.off)
        OBVIOUS
      <4>2. addr \in Word /\ in.w \in Widths
        <5>1. j \in Reg
          BY <2>5, <3>5
        <5> QED
          BY <2>3, <3>2, <4>1, <5>1, AddressIsWord DEF AnyInsn, Widths
      <4>3. Resolved(s0, s1, addr, in.w)
        BY <2>1, <3>6, <3>7, <4>1 DEF Accesses
      <4>4. Allowed(s0, s1, addr, in.w)
        BY <3>7, <4>2, <4>3, ResolvedIsAllowed
      <4>5. AccessAt(s) = addr
        BY <2>1, <2>2, <3>5, <4>1 DEF AccessAt, Address
      <4> QED
        BY <2>1, <2>2, <4>4, <4>5 DEF Allowed
    <3> QED
      BY <3>1, <3>4, <3>6, <3>7 DEF Executes
  <2> QED
    BY <2>4, <2>5
<1> QED
  BY <1>2, <1>3, <1>4

\* How a run begins.
LEMMA FreshIsTyped == MemTyped(Fresh)
<1>1. /\ StackBase \in Nat /\ MapBase \in Nat /\ PktBase \in Nat
      /\ StackSize \in Nat /\ MapSize \in Nat /\ PktSize \in Nat
  BY BpfRefAssumption
<1>2. \A j \in 0 .. PktSize - 1 : PktUnit(j) \in Int
  <2> TAKE j \in 0 .. PktSize - 1
  <2>1. PICK m : m = Mod(1)
    OBVIOUS
  <2>2. m \in Int /\ m > 0
    BY <2>1, ModIsPositive
  <2>3. (j * 7 + 13) % m \in Int
    BY <2>2
  <2> QED
    BY <2>1, <2>3 DEF PktUnit
<1>3. /\ Fresh.stack \in [0 .. StackSize - 1 -> Int]
      /\ Fresh.map \in [0 .. MapSize - 1 -> Int]
      /\ Fresh.pkt \in [0 .. PktSize - 1 -> Int]
      /\ DOMAIN Fresh = {"stack", "map", "pkt"}
  BY <1>2 DEF Fresh
<1>4. ASSUME NEW q \in Region PROVE Fresh[q.name] \in [0 .. q.to - q.from - 1 -> Int]
  <2>1. CASE q = [name |-> "stack", from |-> StackBase - StackSize, to |-> StackBase]
    <3>1. q.name = "stack" /\ q.to - q.from = StackSize
      BY <1>1, <2>1
    <3> QED
      BY <1>3, <3>1
  <2>2. CASE q = [name |-> "map", from |-> MapBase, to |-> MapBase + MapSize]
    <3>1. q.name = "map" /\ q.to - q.from = MapSize
      BY <1>1, <2>2
    <3> QED
      BY <1>3, <3>1
  <2>3. CASE q = [name |-> "pkt", from |-> PktBase, to |-> PktBase + PktSize]
    <3>1. q.name = "pkt" /\ q.to - q.from = PktSize
      BY <1>1, <2>3
    <3> QED
      BY <1>3, <3>1
  <2> QED
    BY <2>1, <2>2, <2>3 DEF Region
<1> QED
  BY <1>3, <1>4 DEF MemTyped

\* The registers before a run,
LEMMA ZeroIsTyped == Zero \in [Reg -> Int]
<1>1. StackBase \in Int
  BY BpfRefAssumption
<1>2. \A j \in Reg : Zero[j] \in Int
  BY <1>1 DEF Zero, Seeded
<1>3. Zero = [j \in Reg |-> Zero[j]]
  BY DEF Zero, Seeded
<1> QED
  BY <1>2, <1>3

\* and its first state.
LEMMA BeginValued ==
  ASSUME NEW r \in [Reg -> Int]
  PROVE  Valued(Begin(0, r, Fresh)) /\ Valued(Stop(Begin(0, r, Fresh), "waiting"))
<1>1. PICK s : s = Begin(0, r, Fresh)
  OBVIOUS
<1>2. s = [pc |-> 0, r |-> r, mem |-> Fresh, left |-> Budget, status |-> "running"]
  BY <1>1 DEF Begin
<1>3. Valued(s)
  BY <1>2, FreshIsTyped DEF Valued
<1> QED
  BY <1>1, <1>3, StopBecomes DEF Becomes

\* At the start.
LEMMA InitValued == RunInit => Valued(one)
  BY ZeroIsTyped, BeginValued DEF RunInit, NotBegun

\* A step of the run.
LEMMA NextValued ==
  RInv /\ Valued(one) /\ [RunNext]_<<vars, runs>> =>
    Valued(one') /\ (UNCHANGED <<vars, runs>> \/ ~Running(one) \/ Executes(one, one'))
<1> SUFFICES ASSUME RInv, Valued(one), [RunNext]_<<vars, runs>>
             PROVE  /\ Valued(one')
                    /\ UNCHANGED <<vars, runs>> \/ ~Running(one) \/ Executes(one, one')
  OBVIOUS
<1>0. NotBegun.status = "waiting"
  BY DEF NotBegun, Begin, Stop
<1>1. CASE Analysing
  <2>1. one' = one /\ pc # "done"
    BY <1>1 DEF Analysing, Analyse, Scan, Visit, EndPass, runs
  <2> QED
    BY <1>0, <2>1 DEF RInv, Running
<1>2. CASE Begins
  <2>1. PICK seeds \in [Varied -> Words(text)], other \in Others :
          one' = Begin(0, Seeds(seeds, {}, other), Fresh)
    BY <1>2 DEF Begins
  <2>2. text \in Texts
    BY DEF RInv, SameProgram
  <2>3. \A j \in Varied : seeds[j] \in Int
    <3>1. Words(text) \subseteq Word /\ Word \subseteq Int
      BY <2>2, LiveRefAssumption, RegionsAre DEF Word
    <3> QED
      BY <3>1
  <2>4. Seeds(seeds, {}, other) \in [Reg -> Int]
    BY <2>3, ZeroIsTyped DEF Seeds
  <2>5. one.status = "waiting"
    BY <1>0, <1>2 DEF Begins
  <2> QED
    BY <2>1, <2>4, <2>5, BeginValued DEF Running
<1>3. CASE Turns
  <2>1. Running(one) /\ one' = Exec(text, one)
    BY <1>3 DEF Turns
  <2>2. Executes(one, one')
    BY <2>1, ExecTurns DEF RInv
  <2> QED
    BY <2>2 DEF Executes
<1>4. CASE UNCHANGED <<vars, runs>>
  <2>1. one' = one
    BY <1>4 DEF runs
  <2> QED
    BY <1>4, <2>1
<1> QED
  BY <1>1, <1>2, <1>3, <1>4 DEF RunNext

\* So no access of it is anything but allowed.
LEMMA NextIsChecked ==
  RInv /\ Valued(one) /\ [RunNext]_<<vars, runs>> => [Checked]_<<vars, runs>>
<1> SUFFICES ASSUME RInv, Valued(one), [RunNext]_<<vars, runs>>, Accesses(one),
                    one'.status # "unsupported", ~UNCHANGED <<vars, runs>>
             PROVE  Checked
  BY DEF Checked
<1>1. Executes(one, one')
  BY NextValued DEF Accesses
<1>2. Allowed(one, one', AccessAt(one), text[one.pc].w)
  BY <1>1 DEF Executes
<1> QED
  BY <1>2 DEF Allowed, Checked

\* For every program, whatever its addresses and offsets, the memory's regions and
\* the words the registers begin with: a load, a store or an atomic of the run goes
\* through exactly when one region has all of its units, changes no other, and if
\* it is let through to a pointer outside the array its end has wrapped around.
THEOREM AccessesAreChecked == RunSpec => AccessIsChecked
<1> DEFINE VInv == Valued(one)
<1>1. RunInit => VInv
  BY InitValued
<1>2. RInv /\ VInv /\ [RunNext]_<<vars, runs>> => VInv'
  BY NextValued
<1>3. RInv /\ VInv /\ [RunNext]_<<vars, runs>> => [Checked]_<<vars, runs>>
  BY NextIsChecked
<1> HIDE DEF VInv
<1> QED
  BY <1>1, <1>2, <1>3, InitRInv, NextRInv, RunsAnalyse, Invariance, GuardCutsNothing, PTL
    DEF RunSpec, AccessIsChecked

-----------------------------------------------------------------------------
(* Arithmetic, one turn at a time.                                         *)

\* Register d of s holds v.
Leaves(s, d, v) == s.r[d] = v

\* A register that is written holds what was written.
LEMMA WriteIsRead ==
  ASSUME NEW s, Valued(s), NEW d \in Reg, NEW v
  PROVE  Leaves(Step([s EXCEPT !.r[d] = v]), d, v)
<1>1. PICK p, r, m, l, x0 :
        /\ r \in [Reg -> Int]
        /\ s = [pc |-> p, r |-> r, mem |-> m, left |-> l, status |-> x0]
  BY DEF Valued
<1>2. PICK r1 : r1 = [r EXCEPT ![d] = v]
  OBVIOUS
<1>3. PICK s1 : s1 = Step([s EXCEPT !.r[d] = v])
  OBVIOUS
<1>4. s1 = [pc |-> p + 1, r |-> r1, mem |-> m, left |-> l, status |-> x0]
  BY <1>1, <1>2, <1>3 DEF Step
<1> QED
  BY <1>1, <1>2, <1>3, <1>4 DEF Leaves

\* What the instruction leaves in its register is right for what the run held.
ComputedRight(s, s1, in) ==
  Right(in, WidthOf(in), s.r[in.dst], Operand(s, in), s1.r[in.dst])

\* An arithmetic instruction that is known leaves what is right,
LEMMA AluComputes ==
  ASSUME NEW s, NEW in, Ready(s, in), in.cls \in {"alu", "alu64"},
         ExecAlu(s, in).status # "unsupported"
  PROVE  ComputedRight(s, ExecAlu(s, in), in)
<1>1. Valued(s) /\ in.dst \in Reg
  BY DEF Ready
<1>2. AluKnown(in)
  <2> SUFFICES ASSUME ~AluKnown(in) PROVE FALSE
    OBVIOUS
  <2>1. ExecAlu(s, in) = Stop(s, "unsupported")
    BY DEF ExecAlu
  <2>2. Becomes(Stop(s, "unsupported"), s.mem, "unsupported")
    BY <1>1, StopBecomes
  <2> QED
    BY <2>1, <2>2 DEF Becomes
<1>3. PICK k, v, dw : k = WidthOf(in) /\ v = Operand(s, in) /\ dw = s.r[in.dst]
  OBVIOUS
<1>4. PICK u, s1 : u = AluValue(in, k, dw, v) /\ s1 = ExecAlu(s, in)
  OBVIOUS
<1>5. s1 = Step([s EXCEPT !.r[in.dst] = u])
  <2>1. ExecAlu(s, in) = Step([s EXCEPT !.r[in.dst] = AluValue(in, WidthOf(in), @, Operand(s, in))])
    BY <1>2 DEF ExecAlu
  <2> QED
    BY <1>1, <1>3, <1>4, <2>1 DEF Valued
<1>6. s1.r[in.dst] = u
  <2>1. Leaves(Step([s EXCEPT !.r[in.dst] = u]), in.dst, u)
    BY <1>1, WriteIsRead
  <2> QED
    BY <1>5, <2>1 DEF Leaves
<1>7. dw \in Int /\ Arithmetic(in, k, v)
  BY <1>2, <1>3, OperandsAre
<1>8. Right(in, k, dw, v, u)
  BY <1>4, <1>7, AluIsRight
<1> QED
  BY <1>3, <1>4, <1>6, <1>8 DEF ComputedRight

\* and so does a turn that executes one.
LEMMA TurnComputes ==
  ASSUME SameProgram, NEW s, Valued(s), Computes(s), NEW s1, s1 = Exec(text, s),
         s1.status # "unsupported"
  PROVE  ComputedRight(s, s1, text[s.pc])
<1>1. DOMAIN text = Addr /\ \A a \in Addr : text[a] \in AnyInsn
  BY TextIs
<1>2. Running(s) /\ s.left # 0 /\ s.pc \in Addr /\ text[s.pc].cls \in {"alu", "alu64"}
  BY DEF Computes
<1>3. PICK s0, in : s0 = [s EXCEPT !.left = @ - 1] /\ in = text[s.pc]
  OBVIOUS
<1>4. /\ Valued(s0) /\ s0.r = s.r /\ s0.status = s.status
  BY <1>3, PaidValued
<1>5. in \in AnyInsn
  BY <1>1, <1>2, <1>3
<1>6. {in.dst, in.src} \subseteq Reg
  <2> SUFFICES ASSUME ~({in.dst, in.src} \subseteq Reg) PROVE FALSE
    OBVIOUS
  <2>1. s1 = Stop(s0, "unsupported")
    BY <1>1, <1>2, <1>3 DEF Exec
  <2>2. Becomes(Stop(s0, "unsupported"), s0.mem, "unsupported")
    BY <1>4, StopBecomes
  <2> QED
    BY <2>1, <2>2 DEF Becomes
<1>7. s1 = ExecAlu(s0, in)
  BY <1>1, <1>2, <1>3, <1>6 DEF Exec
<1>8. Ready(s0, in)
  <2>1. text \in Texts /\ s.pc \in DOMAIN text
    BY <1>1, <1>2 DEF SameProgram
  <2>2. in.op \in {"lsh", "rsh", "arsh"} /\ ~in.x => in.imm \in 0 .. Bits(WidthOf(in)) - 1
    BY <1>2, <1>3, <2>1, ShiftAssumption
  <2> QED
    BY <1>2, <1>4, <1>5, <1>6, <2>2 DEF Ready, Running
<1>9. ComputedRight(s0, s1, in)
  BY <1>2, <1>3, <1>7, <1>8, AluComputes
<1> QED
  BY <1>3, <1>4, <1>9 DEF ComputedRight, Operand

\* A step of the run.
LEMMA NextIsComputed ==
  RInv /\ Valued(one) /\ [RunNext]_<<vars, runs>> => [Computed]_<<vars, runs>>
<1> SUFFICES ASSUME RInv, Valued(one), [RunNext]_<<vars, runs>>, Computes(one),
                    one'.status # "unsupported", ~UNCHANGED <<vars, runs>>
             PROVE  Computed
  BY DEF Computed
<1>1. Running(one)
  BY DEF Computes
<1>2. one' = Exec(text, one)
  <2>1. one # NotBegun
    BY <1>1 DEF NotBegun, Begin, Stop, Running
  <2>2. ~Analysing
    <3> SUFFICES ASSUME Analysing PROVE FALSE
      OBVIOUS
    <3>1. pc # "done"
      BY DEF Analysing, Analyse, Scan, Visit, EndPass
    <3> QED
      BY <2>1, <3>1 DEF RInv
  <2>3. ~Begins
    BY <2>1 DEF Begins
  <2> QED
    BY <2>2, <2>3 DEF RunNext, Turns
<1>3. ComputedRight(one, one', text[one.pc])
  BY <1>2, TurnComputes DEF RInv
<1> QED
  BY <1>3 DEF Computed, ComputedRight, Right

\* For every program and words of any width: what an arithmetic instruction of the
\* run leaves in its register is what the instruction set says of its operation, bit
\* by bit for the logic, the shifts and the moves, and as integers for the rest:
\* sums, differences, products and negatives but for a multiple of the modulus,
\* quotients and remainders that divide, rounded toward zero when they have a sign.
THEOREM ArithmeticIsExact == RunSpec => AluIsExact
<1> DEFINE VInv == Valued(one)
<1>1. RunInit => VInv
  BY InitValued
<1>2. RInv /\ VInv /\ [RunNext]_<<vars, runs>> => VInv'
  BY NextValued
<1>3. RInv /\ VInv /\ [RunNext]_<<vars, runs>> => [Computed]_<<vars, runs>>
  BY NextIsComputed
<1> HIDE DEF VInv
<1> QED
  BY <1>1, <1>2, <1>3, InitRInv, NextRInv, RunsAnalyse, Invariance, GuardCutsNothing, PTL
    DEF RunSpec, AluIsExact

=============================================================================
