----------------------------- MODULE MCSubsume ------------------------------
(***************************************************************************)
(* Prunes for Subsume: registers of two-bit words, one prune with every    *)
(* pair of small states, and two or three prunes of one or two programs.   *)
(***************************************************************************)
EXTENDS Subsume

Plain(base) == [base |-> base, add |-> "none"]
Flagged(base) == [base |-> base, add |-> "add32"]

\* A scalar of which nothing is known, and a constant.
Unknown ==
  [type |-> "scalar", prec |-> TRUE, delta |-> 0, r64 |-> <<0, 3>>, r32 |-> <<0, 3>>,
   val |-> {}, mask |-> {0, 1}, id |-> NoId, pid |-> NoId, fno |-> 0,
   pfx |-> [range |-> 0, head |-> 0, tail |-> 0]]
One == [Unknown EXCEPT !.r64 = <<1, 0>>, !.r32 = <<1, 0>>, !.val = {0}, !.mask = {}]

Scalars ==
  {Unknown, One, [Unknown EXCEPT !.prec = FALSE],
   [Unknown EXCEPT !.r64 = <<3, 2>>],            \* 3, 0 and 1: it wraps
   [Unknown EXCEPT !.r64 = <<1, 2>>, !.id = Plain(1)],
   [Unknown EXCEPT !.r32 = <<3, 3>>],            \* an empty arc
   [Unknown EXCEPT !.val = {0}, !.mask = {1}, !.id = Plain(2)],
   [Unknown EXCEPT !.id = Plain(1)],
   [Unknown EXCEPT !.id = Flagged(1)],
   [Unknown EXCEPT !.id = Flagged(2)],
   [Unknown EXCEPT !.id = Flagged(2), !.delta = 1]}

Ptr(type) == [Unknown EXCEPT !.type = type, !.id = Plain(1), !.pid = Plain(2)]
Pointers ==
  {Ptr("map_value"), [Ptr("map_value") EXCEPT !.pfx.head = 1],
   [Ptr("map_value") EXCEPT !.pfx.tail = 1, !.r64 = <<1, 1>>],
   [Ptr("map_value") EXCEPT !.pid = NoId],
   Ptr("insn"), Ptr("arena"), [Ptr("arena") EXCEPT !.r64 = <<1, 0>>],
   Ptr("packet"), [Ptr("packet") EXCEPT !.pfx.range = 2],
   [Ptr("packet") EXCEPT !.pfx.range = -1], [Ptr("packet") EXCEPT !.pfx.range = -2],
   Ptr("stack"), [Ptr("stack") EXCEPT !.fno = 1], [Ptr("stack") EXCEPT !.pfx.tail = 1],
   [Ptr("other") EXCEPT !.id = Plain(2), !.pid = Plain(1)]}

\* Every non-empty state over some keys and registers.
States(keys, regs) == UNION {[K -> regs] : K \in SUBSET keys \ {{}}}
PruneOf(states, exact) == [prog : {1}, old : states, cur : states, exact : exact]

\* One register of each kind against each other.
OneRegister == PruneOf([{6} -> Scalars \cup Pointers], BOOLEAN)

\* Two registers, whose ids have to fit together.
Linked ==
  {Unknown, [Unknown EXCEPT !.id = Plain(1)], [One EXCEPT !.id = Plain(2)],
   [Unknown EXCEPT !.id = Flagged(1)], [Unknown EXCEPT !.id = Flagged(2)],
   [One EXCEPT !.prec = FALSE], Ptr("map_value")}
TwoRegisters == PruneOf(States({1, 16}, Linked), {FALSE})

\* More registers than the reader keeps.
ThreeRegisters ==
  PruneOf(States({0, 1, 2}, {[Unknown EXCEPT !.id = Plain(1)], One}), {FALSE})

\* Two prunes of one program or of two, and three of three.
Few == {[Unknown EXCEPT !.id = Plain(1)], [One EXCEPT !.id = Plain(2)]}
First == PruneOf(States({0, 3}, Few), {FALSE})
Second ==
  [prog : {1, 2}, old : [{3} -> Few \cup {Ptr("map_value")}],
   cur : [{3} -> Few \cup {Ptr("map_value")}], exact : {TRUE}]
Third == PruneOf([{3} -> Few], {TRUE})

MCCaptures ==
  {<<p>> : p \in First \cup OneRegister \cup TwoRegisters \cup ThreeRegisters}
  \cup (First \X Second)
  \cup {<<[p EXCEPT !.prog = 1], [q EXCEPT !.prog = 2], [r EXCEPT !.prog = 3]>> :
          p \in Third, q \in Third, r \in Third}
  \cup {<<>>}
=============================================================================
