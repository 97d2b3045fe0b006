----------------------------- MODULE RegDomains -----------------------------
(***************************************************************************)
(* The three abstract domains a register is compared in when the verifier  *)
(* prunes, as harness/bpfsubs.h and scripts/subsume-check.py recompute     *)
(* them: arcs of machine words (`cnum`), bits that are known (`tnum`) and  *)
(* the renaming of ids between an old and a current state.                 *)
(***************************************************************************)
EXTENDS Integers, Sequences

(* Arcs: base and size, modulo m.                                          *)

Word(m) == 0 .. m - 1

\* Addition and subtraction in a word, which wrap.
PlusW(m, x, y)  == IF x + y >= m THEN x + y - m ELSE x + y
MinusW(m, x, y) == IF x >= y THEN x - y ELSE x - y + m

\* subs_is_empty64, subs_is_empty32.
IsEmptyArc(m, base, size) == base = m - 1 /\ size = m - 1

\* (wrong on purpose) the sum as an unbounded integer, which does not wrap.
SubsetUnwrapped(m, bb, bs, sb, ss) ==
  IsEmptyArc(m, sb, ss)
  \/ /\ ~IsEmptyArc(m, bb, bs)
     /\ ~(ss > m - 1 - MinusW(m, sb, bb) /\ bs < m - 1)
     /\ MinusW(m, sb, bb) + ss <= bs

\* subs_subset64, subs_subset32: the arc (bb, bs) contains the arc (sb, ss).
Subset(m, bb, bs, sb, ss) ==
  IsEmptyArc(m, sb, ss)
  \/ /\ ~IsEmptyArc(m, bb, bs)
     /\ ~(ss > m - 1 - MinusW(m, sb, bb) /\ bs < m - 1)
     /\ PlusW(m, MinusW(m, sb, bb), ss) <= bs

\* What an arc stands for: the words reached from its base in size steps.
ArcWords(m, base, size) ==
  IF IsEmptyArc(m, base, size) THEN {}
  ELSE {x \in Word(m) : MinusW(m, x, base) <= size}

-----------------------------------------------------------------------------
(* Tnums: a value and a mask of unknown bits, as sets of bits.             *)

\* subs_tnum_in: the tnum (av, am) contains the tnum (bv, bm).
TnumIn(av, am, bv, bm) == bm \ am = {} /\ av = bv \ am

WellFormed(value, mask) == value \cap mask = {}

\* What a tnum stands for: the words that agree with it on its known bits.
TnumWords(Bit, value, mask) == {x \in SUBSET Bit : x \ mask = value}

-----------------------------------------------------------------------------
(* The id map.  An id is a base and the ADD_CONST flags it carries.        *)

NoId == [base |-> 0, add |-> "none"]

BaseOf(id) == [id EXCEPT !.add = "none"]

Mapped(old, cur) == [old |-> old, cur |-> cur]

\* Entries that have either id; the scan stops at the first of them.
Hits(map, old, cur) == {i \in DOMAIN map : map[i].old = old \/ map[i].cur = cur}

\* subs_check_ids: whether old and cur may be the same id, and the map after.
\* A map that is full takes no new entry.
CheckIds(slots, map, old, cur) ==
  IF (old = NoId) # (cur = NoId) THEN [ok |-> FALSE, map |-> map]
  ELSE IF old = NoId THEN [ok |-> TRUE, map |-> map]
  ELSE IF Hits(map, old, cur) # {} THEN
    [ok |-> \E i \in Hits(map, old, cur) :
              /\ \A j \in Hits(map, old, cur) : i <= j
              /\ map[i] = Mapped(old, cur),
     map |-> map]
  ELSE IF Len(map) >= slots THEN [ok |-> FALSE, map |-> map]
  ELSE [ok |-> TRUE, map |-> Append(map, Mapped(old, cur))]

\* (wrong on purpose) checks the compound id only, not the base under it.
CompoundOnly(slots, map, old, cur) ==
  IF old = NoId THEN [ok |-> TRUE, map |-> map]
  ELSE CheckIds(slots, map, old, cur)

\* subs_check_scalar_ids, for a cur that is an id: the compound id, then, if
\* it is one, the base under it.
CheckScalarIds(slots, map, old, cur) ==
  IF old = NoId THEN [ok |-> TRUE, map |-> map]
  ELSE LET compound == CheckIds(slots, map, old, cur)
       IN  IF ~compound.ok \/ old.add = "none" THEN compound
           ELSE CheckIds(slots, compound.map, BaseOf(old), BaseOf(cur))

\* No old id has two current ones, nor the other way round.
OneToOne(pairs) ==
  \A p, q \in pairs : p.old = q.old <=> p.cur = q.cur
=============================================================================
