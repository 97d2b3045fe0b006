--------------------------- MODULE SubsumeProofs ---------------------------
(***************************************************************************)
(* Proofs about the readers of prune pairs, for words of any width, any    *)
(* registers and any part of a prune: first what the tests on one register *)
(* and the id map decide, then what the verdict on a pair says, then that  *)
(* the size of the id map makes no difference.                             *)
(***************************************************************************)
EXTENDS Subsume, FiniteSetTheorems, FunctionTheorems, WellFoundedInduction, TLAPS

(* Numbers, and functions defined by recursion along 0 .. n.               *)

\* The smallest of a set of numbers is one of them, and is smallest.
LEMMA MinOfNats ==
  ASSUME NEW I \in SUBSET Nat, I # {}
  PROVE  Min(I) \in I /\ \A i \in I : Min(I) <= i
<1> DEFINE Below == {1 .. i : i \in I}
<1>1. Below \subseteq FiniteSubsetsOf(Nat) /\ Below # {}
  <2>1. \A i \in I : 1 .. i \subseteq Nat /\ IsFiniteSet(1 .. i)
    BY FS_Interval
  <2> QED
    BY <2>1 DEF FiniteSubsetsOf
<1>2. PICK B \in Below : \A C \in Below : <<C, B>> \notin StrictSubsetOrdering(Nat)
  <2> HIDE DEF Below
  <2>1. IsWellFoundedOn(StrictSubsetOrdering(Nat), FiniteSubsetsOf(Nat))
    BY FS_StrictSubsetOrderingWellFounded
  <2> QED
    BY <1>1, <2>1, WFMin
<1>3. PICK m \in I : B = 1 .. m
  OBVIOUS
<1>4. \A i \in I : m <= i
  <2> SUFFICES ASSUME NEW i \in I, i < m
               PROVE  FALSE
    OBVIOUS
  <2>1. 1 .. i \subseteq B /\ m \in B /\ m \notin 1 .. i
    BY <1>3
  <2>2. 1 .. i \in SUBSET Nat /\ B \in SUBSET Nat
    BY <1>3
  <2> QED
    BY <1>2, <2>1, <2>2 DEF StrictSubsetOrdering
<1> QED
  BY <1>4 DEF Min

\* Induction along 0 .. n, for a property given as the set that has it.
LEMMA UpTo ==
  ASSUME NEW n \in Nat, NEW P, 0 \in P,
         \A i \in 1 .. n : i - 1 \in P => i \in P
  PROVE  \A i \in 0 .. n : i \in P
<1> DEFINE Bad == {i \in 0 .. n : i \notin P}
<1> SUFFICES ASSUME Bad # {}
             PROVE  FALSE
  OBVIOUS
<1>1. Bad \in SUBSET Nat
  OBVIOUS
<1>2. PICK m \in Bad : \A i \in Bad : m <= i
  BY <1>1, MinOfNats
<1>3. m \in 1 .. n
  BY <1>2
<1>4. m - 1 \in 0 .. n /\ m - 1 \notin Bad
  BY <1>2, <1>3
<1> QED
  BY <1>2, <1>3, <1>4

\* The functions that take a value and a place to the next value, and the
\* sequence of values a recursion along 0 .. n takes from base.
Steps(T, n) == [T \X (1 .. n) -> T]
Goes(f, T, n, base, step) ==
  /\ f \in [0 .. n -> T] /\ f[0] = base
  /\ \A i \in 1 .. n : f[i] = step[<<f[i - 1], i>>]

\* A recursion along 0 .. n has a solution.
LEMMA Recursion ==
  ASSUME NEW T, NEW n \in Nat, NEW base \in T, NEW step \in Steps(T, n)
  PROVE  \E f : Goes(f, T, n, base, step)
<1> DEFINE Solves(f, k) == f[0] = base /\ \A i \in 1 .. k : f[i] = step[<<f[i - 1], i>>]
           P == {k \in 0 .. n : \E f \in [0 .. k -> T] : Solves(f, k)}
<1>1. 0 \in P
  <2> DEFINE only == [i \in 0 .. 0 |-> base]
  <2>1. only \in [0 .. 0 -> T]
    OBVIOUS
  <2>2. Solves(only, 0)
    OBVIOUS
  <2> HIDE DEF only, Solves
  <2> QED
    BY <2>1, <2>2
<1>2. ASSUME NEW k \in 1 .. n, k - 1 \in P
      PROVE  k \in P
  <2>1. PICK f \in [0 .. k - 1 -> T] : Solves(f, k - 1)
    BY <1>2
  <2> DEFINE g == [i \in 0 .. k |-> IF i = k THEN step[<<f[k - 1], k>>] ELSE f[i]]
  <2>2. f[k - 1] \in T /\ step[<<f[k - 1], k>>] \in T
    BY <1>2 DEF Steps
  <2>3. g \in [0 .. k -> T]
    <3>1. \A i \in 0 .. k : i # k => f[i] \in T
      OBVIOUS
    <3> QED
      BY <2>2, <3>1
  <2>4. \A i \in 0 .. k - 1 : g[i] = f[i]
    OBVIOUS
  <2>5. g[k] = step[<<g[k - 1], k>>]
    <3>1. g[k] = step[<<f[k - 1], k>>]
      OBVIOUS
    <3>2. g[k - 1] = f[k - 1]
      BY <2>4
    <3> HIDE DEF g
    <3> QED
      BY <3>1, <3>2
  <2>6. ASSUME NEW i \in 1 .. k
        PROVE  g[i] = step[<<g[i - 1], i>>]
    <3>1. CASE i = k
      BY <2>5, <3>1
    <3>2. CASE i # k
      <4>1. i \in 1 .. k - 1 /\ i - 1 \in 0 .. k - 1 /\ i \in 0 .. k - 1
        BY <3>2
      <4> HIDE DEF g
      <4> QED
        BY <2>1, <2>4, <4>1
    <3> QED
      BY <3>1, <3>2
  <2>7. g[0] = base
    BY <2>1, <2>4
  <2> HIDE DEF g
  <2> QED
    BY <2>3, <2>6, <2>7
<1>3. n \in P
  <2> HIDE DEF P
  <2>1. \A k \in 1 .. n : k - 1 \in P => k \in P
    BY <1>2
  <2> QED
    BY <1>1, <2>1, UpTo
<1> QED
  BY <1>3 DEF Goes

-----------------------------------------------------------------------------
(* The three domains.                                                      *)

\* Subtraction undoes addition, and stays in the word.
LEMMA WordArithmetic ==
  ASSUME NEW m \in Nat \ {0}, NEW x \in Word(m), NEW y \in Word(m)
  PROVE  /\ MinusW(m, x, y) \in Word(m) /\ PlusW(m, x, y) \in Word(m)
         /\ MinusW(m, PlusW(m, x, y), y) = x
         /\ PlusW(m, y, MinusW(m, x, y)) = x
  BY DEF Word, MinusW, PlusW

\* bpfsubs.h:81-96: the containment test on two arcs, with its wrapping sum
\* and its overflow test, is inclusion of the sets of words they stand for.
THEOREM SubsetIsInclusion ==
  ASSUME NEW m \in Nat \ {0},
         NEW bb \in Word(m), NEW bs \in Word(m),
         NEW sb \in Word(m), NEW ss \in Word(m)
  PROVE  Subset(m, bb, bs, sb, ss)
           <=> ArcWords(m, sb, ss) \subseteq ArcWords(m, bb, bs)
<1> DEFINE off == MinusW(m, sb, bb)
           Big == ArcWords(m, bb, bs)
           Small == ArcWords(m, sb, ss)
<1>0. off \in Word(m)
  BY WordArithmetic
<1>1. CASE IsEmptyArc(m, sb, ss)
  BY <1>1 DEF Subset, ArcWords
<1>2. CASE ~IsEmptyArc(m, sb, ss) /\ IsEmptyArc(m, bb, bs)
  <2>1. sb \in Small
    BY <1>2 DEF ArcWords, MinusW, Word
  <2> QED
    BY <1>2, <2>1 DEF Subset, ArcWords
<1>3. CASE ~IsEmptyArc(m, sb, ss) /\ ~IsEmptyArc(m, bb, bs)
  <2>1. ASSUME Subset(m, bb, bs, sb, ss), NEW x \in Small PROVE x \in Big
    <3>1. x \in Word(m) /\ MinusW(m, x, sb) <= ss
      BY <1>3, <2>1 DEF ArcWords
    <3>2. ~(ss > m - 1 - off /\ bs < m - 1) /\ PlusW(m, off, ss) <= bs
      BY <1>3, <2>1 DEF Subset
    <3>3. CASE bs = m - 1
      <4>1. MinusW(m, x, bb) \in Word(m)
        BY <3>1, WordArithmetic
      <4> QED
        BY <1>3, <3>1, <3>3, <4>1 DEF ArcWords, Word
    <3>4. CASE bs # m - 1
      <4>1. off + ss <= bs
        BY <1>0, <3>2, <3>4 DEF PlusW, Word
      <4>2. /\ off = IF sb >= bb THEN sb - bb ELSE sb - bb + m
            /\ MinusW(m, x, sb) = IF x >= sb THEN x - sb ELSE x - sb + m
            /\ MinusW(m, x, bb) = IF x >= bb THEN x - bb ELSE x - bb + m
        BY DEF MinusW
      <4>3. MinusW(m, x, bb) <= bs
        <5> DEFINE d == MinusW(m, x, sb)
                   e == MinusW(m, x, bb)
        <5>1. /\ m \in Nat /\ x \in 0 .. m - 1 /\ bb \in 0 .. m - 1
              /\ sb \in 0 .. m - 1 /\ bs \in 0 .. m - 1 /\ ss \in 0 .. m - 1
          BY <3>1 DEF Word
        <5>2. d <= ss /\ off + ss <= bs
          BY <3>1, <4>1
        <5> HIDE DEF d, e, off
        <5>3. /\ off = IF sb >= bb THEN sb - bb ELSE sb - bb + m
              /\ d = IF x >= sb THEN x - sb ELSE x - sb + m
              /\ e = IF x >= bb THEN x - bb ELSE x - bb + m
          BY <4>2 DEF d, e, off
        <5>4. e <= bs
          BY <5>1, <5>2, <5>3
        <5> QED
          BY <5>4 DEF e
      <4> QED
        BY <1>3, <3>1, <4>3 DEF ArcWords
    <3> QED
      BY <3>3, <3>4
  <2>2. ASSUME Small \subseteq Big PROVE Subset(m, bb, bs, sb, ss)
    <3>1. ASSUME NEW x \in Word(m), MinusW(m, x, sb) <= ss
          PROVE  MinusW(m, x, bb) <= bs
      BY <1>3, <2>2, <3>1 DEF ArcWords
    <3>2. CASE bs = m - 1
      <4>1. PlusW(m, off, ss) \in Word(m)
        BY <1>0, WordArithmetic
      <4>2. PlusW(m, off, ss) <= bs /\ ~(bs < m - 1)
        BY <3>2, <4>1 DEF Word
      <4> QED
        BY <1>3, <4>2 DEF Subset
    <3>3. CASE bs < m - 1
      <4>1. off <= bs
        <5>1. MinusW(m, sb, sb) <= ss
          BY DEF MinusW, Word
        <5> QED
          BY <3>1, <5>1
      \* The word just behind the big arc is not in the small one.
      <4>2. off + ss <= bs
        <5> DEFINE y == PlusW(m, bb, bs + 1)
        <5>1. y \in Word(m) /\ MinusW(m, y, bb) = bs + 1
          BY <3>3 DEF PlusW, MinusW, Word
        <5>2. ~(MinusW(m, y, sb) <= ss)
          BY <3>1, <5>1 DEF Word
        <5>3. MinusW(m, y, sb) = bs + 1 - off
          <6> HIDE DEF y
          <6>1. y = IF bb + (bs + 1) >= m THEN bb + (bs + 1) - m ELSE bb + (bs + 1)
            BY DEF y, PlusW
          <6> QED
            BY <3>3, <4>1, <6>1 DEF MinusW, Word
        <5> HIDE DEF y
        <5> QED
          BY <1>0, <5>2, <5>3 DEF Word
      <4> QED
        BY <1>0, <1>3, <3>3, <4>2 DEF Subset, PlusW, Word
    <3> QED
      BY <3>2, <3>3 DEF Word
  <2> QED
    BY <2>1, <2>2
<1> QED
  BY <1>1, <1>2, <1>3

\* bpfsubs.h:98-101: the test on two tnums is inclusion of the sets of words
\* they stand for, when their values have no unknown bit.
THEOREM TnumInIsInclusion ==
  ASSUME NEW Bits,
         NEW av \in SUBSET Bits, NEW am \in SUBSET Bits, WellFormed(av, am),
         NEW bv \in SUBSET Bits, NEW bm \in SUBSET Bits, WellFormed(bv, bm)
  PROVE  TnumIn(av, am, bv, bm)
           <=> TnumWords(Bits, bv, bm) \subseteq TnumWords(Bits, av, am)
<1>1. ASSUME TnumIn(av, am, bv, bm), NEW x \in TnumWords(Bits, bv, bm)
      PROVE  x \in TnumWords(Bits, av, am)
  <2>1. x \in SUBSET Bits /\ x \ bm = bv /\ bm \subseteq am /\ av = bv \ am
    BY <1>1 DEF TnumIn, TnumWords
  <2>2. x \ am = av
    BY <2>1
  <2> QED
    BY <2>1, <2>2 DEF TnumWords
<1>2. ASSUME TnumWords(Bits, bv, bm) \subseteq TnumWords(Bits, av, am)
      PROVE  TnumIn(av, am, bv, bm)
  <2>1. bv \in TnumWords(Bits, bv, bm) /\ bv \cup bm \in TnumWords(Bits, bv, bm)
    BY DEF TnumWords, WellFormed
  <2>2. bv \ am = av /\ (bv \cup bm) \ am = av
    BY <1>2, <2>1 DEF TnumWords
  <2>3. bm \ am = {}
    <3> SUFFICES ASSUME NEW b \in bm, b \notin am PROVE FALSE
      OBVIOUS
    <3>1. b \in av
      BY <2>2
    <3>2. b \in bv
      BY <2>2, <3>1
    <3> QED
      BY <3>2 DEF WellFormed
  <2> QED
    BY <2>2, <2>3 DEF TnumIn
<1> QED
  BY <1>1, <1>2

-----------------------------------------------------------------------------
\* Each pair is in the map once.
Distinct(map) == \A i, j \in DOMAIN map : map[i] = map[j] => i = j

Entries(map) == {map[i] : i \in DOMAIN map}

\* Any id, of the verifier's or made by a reader.
AnyId == [base : Nat, add : {"none", "add32", "add64"}]

Entry == [old : AnyId, cur : AnyId]

\* bpfsubs.h:55-66: with a one-to-one map and a slot left, a pair of ids is
\* accepted exactly when adding it keeps the map one-to-one, and is in the map
\* afterwards; so the order of the registers does not matter to the verdict.
THEOREM CheckIdsIsOneToOne ==
  ASSUME NEW slots \in Nat, NEW map \in Seq(Entry), OneToOne(Entries(map)), Distinct(map),
         NEW old \in AnyId, NEW cur \in AnyId,
         old # NoId, cur # NoId, Len(map) < slots
  PROVE  LET r == CheckIds(slots, map, old, cur)
             more == Entries(map) \cup {Mapped(old, cur)}
         IN  /\ r.ok <=> OneToOne(more)
             /\ r.ok => Entries(r.map) = more /\ Distinct(r.map)
             /\ ~r.ok => r.map = map
<1> DEFINE r == CheckIds(slots, map, old, cur)
           new == Mapped(old, cur)
           more == Entries(map) \cup {new}
           hits == Hits(map, old, cur)
<1>0. new.old = old /\ new.cur = cur
  BY DEF Mapped
<1>1. CASE hits = {}
  <2>1. r = [ok |-> TRUE, map |-> Append(map, new)]
    BY <1>1 DEF CheckIds
  <2>2. Entries(Append(map, new)) = more
    <3>1. new \in Entry
      BY DEF Mapped, Entry
    <3>2. /\ DOMAIN Append(map, new) = DOMAIN map \cup {Len(map) + 1}
          /\ \A i \in DOMAIN map : Append(map, new)[i] = map[i]
          /\ Append(map, new)[Len(map) + 1] = new
      BY <3>1
    <3> QED
      BY <3>2 DEF Entries
  <2>3. OneToOne(more)
    <3>1. \A p \in Entries(map) : p.old # old /\ p.cur # cur
      BY <1>1 DEF Entries, Hits
    <3> QED
      BY <1>0, <3>1 DEF OneToOne
  <2>4. Distinct(Append(map, new))
    <3>1. \A i \in DOMAIN map : map[i] # new
      BY <1>0, <1>1 DEF Hits
    <3>2. /\ DOMAIN Append(map, new) = DOMAIN map \cup {Len(map) + 1}
          /\ \A i \in DOMAIN map : Append(map, new)[i] = map[i]
          /\ Append(map, new)[Len(map) + 1] = new
      OBVIOUS
    <3> QED
      BY <3>1, <3>2 DEF Distinct
  <2> QED
    BY <2>1, <2>2, <2>3, <2>4
<1>2. CASE hits # {}
  <2>1. /\ r.map = map
        /\ r.ok = \E i \in hits : (\A j \in hits : i <= j) /\ map[i] = new
    BY <1>2 DEF CheckIds
  <2>2. hits \subseteq DOMAIN map /\ DOMAIN map \subseteq Nat
    BY DEF Hits
  <2>3. ASSUME r.ok PROVE OneToOne(more) /\ Entries(map) = more
    <3>1. new \in Entries(map)
      BY <2>1, <2>2, <2>3 DEF Entries
    <3> QED
      BY <3>1
  <2>4. ASSUME OneToOne(more) PROVE r.ok
    <3>1. \A i \in hits : map[i] = new
      <4> TAKE i \in hits
      <4>1. map[i] \in more /\ (map[i].old = old \/ map[i].cur = cur)
        BY <2>2 DEF Entries, Hits
      <4>2. map[i].old = old /\ map[i].cur = cur
        BY <1>0, <2>4, <4>1 DEF OneToOne
      <4>3. map[i] \in Entry
        BY <2>2
      <4> QED
        BY <4>2, <4>3 DEF Entry, Mapped
    <3>2. \A i, j \in hits : i = j
      BY <2>2, <3>1 DEF Distinct
    <3> QED
      BY <1>2, <2>1, <2>2, <3>1, <3>2
  <2> QED
    BY <2>1, <2>3, <2>4
<1> QED
  BY <1>1, <1>2

-----------------------------------------------------------------------------
(* The id map, over the ids of one register.                               *)

NoPair == Mapped(NoId, NoId)

\* What a map says: no id goes with no id, and its entries.
Pairs(map) == Entries(map) \cup {NoPair}

GoodMap(map) ==
  /\ map \in Seq(Entry) /\ Distinct(map) /\ NoPair \notin Entries(map)
  /\ OneToOne(Pairs(map))

\* A part of a one-to-one renaming is one.
LEMMA PartIsOneToOne ==
  ASSUME NEW A, NEW B, A \subseteq B, OneToOne(B)
  PROVE  OneToOne(A)
  BY DEF OneToOne

\* A check of ids, of which `more` are the pairs of ids with those it was asked
\* about: it accepts if they are one renaming, keeps them, and takes n slots.
Decides(res, map, more, n) ==
  /\ res.ok <=> OneToOne(more)
  /\ res.ok => GoodMap(res.map) /\ Pairs(res.map) = more
  /\ res.map \in Seq(Entry) /\ Len(res.map) <= Len(map) + n

\* One check, with or without ids.
LEMMA CheckStep ==
  ASSUME NEW slots \in Nat, NEW map, GoodMap(map), Len(map) < slots,
         NEW old \in AnyId, NEW cur \in AnyId,
         NEW r, r = CheckIds(slots, map, old, cur),
         NEW more, more = Pairs(map) \cup {Mapped(old, cur)}
  PROVE  Decides(r, map, more, 1)
<1> DEFINE x == Mapped(old, cur)
<1>0. /\ map \in Seq(Entry) /\ Len(map) \in Nat /\ OneToOne(Pairs(map))
      /\ x.old = old /\ x.cur = cur /\ NoPair.old = NoId /\ NoPair.cur = NoId
  BY DEF GoodMap, Mapped, NoPair
<1>1. CASE (old = NoId) # (cur = NoId)
  <2>1. r = [ok |-> FALSE, map |-> map]
    BY <1>1 DEF CheckIds
  <2>2. ~OneToOne(more)
    BY <1>0, <1>1 DEF OneToOne, Pairs
  <2>3. Len(r.map) <= Len(map) + 1 /\ r.map \in Seq(Entry) /\ ~r.ok
    BY <1>0, <2>1
  <2> QED
    BY <2>2, <2>3 DEF Decides
<1>2. CASE old = NoId /\ cur = NoId
  <2>1. r.ok /\ r.map = map
    BY <1>2 DEF CheckIds
  <2>2. more = Pairs(map)
    BY <1>2 DEF Pairs, NoPair
  <2>3. Len(r.map) <= Len(map) + 1 /\ r.map \in Seq(Entry)
    BY <1>0, <2>1
  <2>4. GoodMap(r.map) /\ Pairs(r.map) = more /\ OneToOne(more)
    BY <1>0, <2>1, <2>2
  <2> QED
    BY <2>1, <2>3, <2>4 DEF Decides
<1>3. CASE old # NoId /\ cur # NoId
  <2>1. OneToOne(Entries(map)) /\ Distinct(map)
    BY PartIsOneToOne DEF GoodMap, Pairs
  <2> DEFINE bare == Entries(map) \cup {x}
  <2>2. /\ r.ok <=> OneToOne(bare)
        /\ r.ok => Entries(r.map) = bare /\ Distinct(r.map)
        /\ ~r.ok => r.map = map
    <3>1. /\ CheckIds(slots, map, old, cur).ok <=> OneToOne(bare)
          /\ CheckIds(slots, map, old, cur).ok =>
               /\ Entries(CheckIds(slots, map, old, cur).map) = bare
               /\ Distinct(CheckIds(slots, map, old, cur).map)
          /\ ~CheckIds(slots, map, old, cur).ok => CheckIds(slots, map, old, cur).map = map
      BY <1>0, <1>3, <2>1, CheckIdsIsOneToOne
    <3> HIDE DEF bare
    <3> QED
      BY <3>1
  <2>3. OneToOne(more) <=> OneToOne(bare)
    <3>1. ASSUME OneToOne(bare), NEW p \in more, NEW q \in more
          PROVE  p.old = q.old <=> p.cur = q.cur
      <4>1. CASE p \in Pairs(map) /\ q \in Pairs(map)
        BY <1>0, <4>1 DEF OneToOne
      <4>2. CASE p = x /\ q = NoPair
        BY <1>0, <1>3, <4>2
      <4>3. CASE q = x /\ p = NoPair
        BY <1>0, <1>3, <4>3
      <4>4. CASE p \in bare /\ q \in bare
        BY <3>1, <4>4 DEF OneToOne
      <4> QED
        BY <4>1, <4>2, <4>3, <4>4 DEF Pairs
    <3>2. bare \subseteq more
      BY DEF Pairs
    <3> QED
      BY <3>1, <3>2, PartIsOneToOne DEF OneToOne
  <2>4. x # NoPair
    BY <1>0, <1>3
  <2>5. r.map = map \/ r.map = Append(map, x)
    BY <1>3 DEF CheckIds
  <2>6. x \in Entry
    BY DEF Mapped, Entry
  <2>7. r.map \in Seq(Entry) /\ Len(r.map) <= Len(map) + 1
    <3>1. PICK y \in Entry : y = x
      BY <2>6
    <3>2. Append(map, y) \in Seq(Entry) /\ Len(Append(map, y)) = Len(map) + 1
      BY <1>0
    <3>3. Len(map) <= Len(map) + 1
      BY <1>0
    <3> QED
      BY <1>0, <2>5, <3>1, <3>2, <3>3
  <2>8. ASSUME r.ok
        PROVE  GoodMap(r.map) /\ Pairs(r.map) = more
    <3>1. Pairs(r.map) = more /\ OneToOne(more) /\ Distinct(r.map)
      BY <2>2, <2>3, <2>8 DEF Pairs
    <3>2. NoPair \notin Entries(r.map)
      BY <2>2, <2>4, <2>8 DEF GoodMap
    <3> QED
      BY <2>7, <3>1, <3>2 DEF GoodMap
  <2> QED
    BY <2>2, <2>3, <2>7, <2>8 DEF Decides
<1> QED
  BY <1>1, <1>2, <1>3

LEMMA BaseOfType ==
  ASSUME NEW id \in AnyId
  PROVE  BaseOf(id) \in AnyId /\ BaseOf(id).base = id.base /\ BaseOf(id).add = "none"
  BY DEF BaseOf, AnyId

\* The checks of a scalar's id, and of the base under it.
LEMMA CheckScalarStep ==
  ASSUME NEW slots \in Nat, NEW map, GoodMap(map), Len(map) + 1 < slots,
         NEW old \in AnyId, NEW cur \in AnyId, old # NoId, old.add = cur.add,
         NEW r, r = CheckScalarIds(slots, map, old, cur),
         NEW more,
         more = Pairs(map) \cup {Mapped(old, cur), Mapped(BaseOf(old), BaseOf(cur))}
  PROVE  Decides(r, map, more, 2)
<1>0. map \in Seq(Entry) /\ Len(map) \in Nat
  BY DEF GoodMap
<1>a. PICK a : a = CheckIds(slots, map, old, cur)
  OBVIOUS
<1>x. PICK x, y : x = Mapped(old, cur) /\ y = Mapped(BaseOf(old), BaseOf(cur))
  OBVIOUS
<1>1. Decides(a, map, Pairs(map) \cup {x}, 1)
  <2>1. Len(map) < slots
    BY <1>0
  <2> QED
    BY <1>a, <1>x, <2>1, CheckStep
<1>2. Len(a.map) \in Nat
  BY <1>1 DEF Decides
<1>3. ~OneToOne(Pairs(map) \cup {x}) => ~OneToOne(more)
  BY <1>x, PartIsOneToOne
<1>7. Len(a.map) <= Len(map) + 2
  BY <1>0, <1>1, <1>2 DEF Decides
<1>4. CASE ~a.ok
  <2>1. r = a
    BY <1>4, <1>a DEF CheckScalarIds
  <2> QED
    BY <1>1, <1>3, <1>4, <1>7, <2>1 DEF Decides
<1>5. CASE a.ok /\ old.add = "none"
  <2>1. r = a
    BY <1>5, <1>a DEF CheckScalarIds
  <2>2. BaseOf(old) = old /\ BaseOf(cur) = cur
    BY <1>5 DEF BaseOf, AnyId
  <2>3. more = Pairs(map) \cup {x}
    BY <1>x, <2>2
  <2> QED
    BY <1>1, <1>5, <1>7, <2>1, <2>3 DEF Decides
<1>6. CASE a.ok /\ old.add # "none"
  <2>1. r = CheckIds(slots, a.map, BaseOf(old), BaseOf(cur))
    BY <1>6, <1>a DEF CheckScalarIds
  <2>2. BaseOf(old) \in AnyId /\ BaseOf(cur) \in AnyId
    BY BaseOfType
  <2>3. Len(a.map) < slots /\ GoodMap(a.map)
    BY <1>0, <1>1, <1>2, <1>6 DEF Decides
  <2>5. Pairs(a.map) \cup {y} = more
    BY <1>1, <1>6, <1>x DEF Decides
  <2>4. Decides(r, a.map, more, 1)
    <3>1. PICK m : m = a.map
      OBVIOUS
    <3>2. PICK u, v \in AnyId : u = BaseOf(old) /\ v = BaseOf(cur)
      BY <2>2
    <3>3. GoodMap(m) /\ Len(m) < slots /\ r = CheckIds(slots, m, u, v)
          /\ more = Pairs(m) \cup {Mapped(u, v)}
      BY <1>x, <2>1, <2>3, <2>5, <3>1, <3>2
    <3>4. Decides(r, m, more, 1)
      BY <3>3, CheckStep
    <3> QED
      BY <3>1, <3>4
  <2>6. Len(r.map) \in Nat
    BY <2>4 DEF Decides
  <2>7. Len(r.map) <= Len(map) + 2
    BY <1>0, <1>1, <1>2, <2>4, <2>6 DEF Decides
  <2> QED
    BY <2>4, <2>7 DEF Decides
<1> QED
  BY <1>4, <1>5, <1>6

-----------------------------------------------------------------------------
(* One register.                                                           *)

Known(r) == r \in Register /\ WellFormed(r.val, r.mask)

LEMMA RegisterFacts ==
  ASSUME NEW r, Known(r)
  PROVE  /\ r.type \in {"scalar", "map_value", "insn", "packet", "arena", "stack", "other"}
         /\ r.id \in Id /\ r.pid \in Id /\ r.pfx \in Prefix /\ r.prec \in BOOLEAN
         /\ r.r64[1] \in Word(M64) /\ r.r64[2] \in Word(M64)
         /\ r.r32[1] \in Word(M32) /\ r.r32[2] \in Word(M32)
         /\ r.val \in SUBSET Bit /\ r.mask \in SUBSET Bit /\ WellFormed(r.val, r.mask)
  BY DEF Known, Register

\* The three tests are inclusion of what the parts may be.
LEMMA WithinIsInclusion ==
  ASSUME NEW o, NEW r, Known(o), Known(r)
  PROVE  Within(o, r) <=> ValuesWithin(o, r)
<1>1. /\ M64 \in Nat \ {0} /\ M32 \in Nat \ {0}
  BY SubsumeAssumption
<1>2. Subset(M64, o.r64[1], o.r64[2], r.r64[1], r.r64[2])
        <=> ArcWords(M64, r.r64[1], r.r64[2]) \subseteq ArcWords(M64, o.r64[1], o.r64[2])
  BY <1>1, RegisterFacts, SubsetIsInclusion
<1>3. Subset(M32, o.r32[1], o.r32[2], r.r32[1], r.r32[2])
        <=> ArcWords(M32, r.r32[1], r.r32[2]) \subseteq ArcWords(M32, o.r32[1], o.r32[2])
  BY <1>1, RegisterFacts, SubsetIsInclusion
<1>4. TnumIn(o.val, o.mask, r.val, r.mask)
        <=> TnumWords(Bit, r.val, r.mask) \subseteq TnumWords(Bit, o.val, o.mask)
  BY RegisterFacts, TnumInIsInclusion
<1> QED
  BY <1>2, <1>3, <1>4 DEF Within, RangeWithin, ValuesWithin

\* The arm of a pointer's type covers it.
LEMMA PtrFitsIsCovered ==
  ASSUME NEW o, NEW r, Known(o), Known(r), o.type = r.type, o.type # "scalar"
  PROVE  PtrFits(o, r) <=> RegCovered(o, r)
<1>1. Within(o, r) <=> ValuesWithin(o, r)
  BY WithinIsInclusion
<1>2. CASE o.type = "arena"
  BY <1>2 DEF PtrFits, RegCovered
<1>3. CASE o.type \in {"map_value", "insn"}
  BY <1>1, <1>3 DEF PtrFits, RegCovered
<1>4. CASE o.type = "packet"
  BY <1>1, <1>4 DEF PtrFits, RegCovered
<1>5. CASE o.type \in {"stack", "other"}
  BY <1>5 DEF PtrFits, RegCovered
<1> QED
  BY <1>2, <1>3, <1>4, <1>5, RegisterFacts

LEMMA IdIsAny == NoId \in AnyId /\ Id \subseteq AnyId
<1>1. FirstTmp \in Nat \ {0}
  BY SubsumeAssumption
<1> QED
  BY <1>1 DEF Id, AnyId, NoId

\* The pairs of ids of one register, when t is the id that nobody has.
PairsWith(t, o, r) ==
  LET id == IF r.id = NoId THEN [base |-> t, add |-> "none"] ELSE r.id
  IN  CASE o.type = "scalar" -> IF o.id = NoId THEN {}
                                ELSE {Mapped(o.id, id), Mapped(BaseOf(o.id), BaseOf(id))}
        [] o.type = "packet" -> {Mapped(o.id, r.id)}
        [] o.type \in {"map_value", "stack", "other"} ->
             {Mapped(o.id, r.id), Mapped(o.pid, r.pid)}
        [] OTHER -> {}

\* A pointer's ids are accepted if they fit.
LEMMA PtrIdsStep ==
  ASSUME NEW slots \in Nat, NEW map, GoodMap(map), Len(map) + 1 < slots,
         NEW o, NEW r, Known(o), Known(r), o.type # "scalar", NEW t,
         NEW ids, ids = PtrIds(slots, map, o, r),
         NEW more, more = Pairs(map) \cup PairsWith(t, o, r)
  PROVE  Decides(ids, map, more, 2)
<1>0. /\ map \in Seq(Entry) /\ Len(map) \in Nat /\ OneToOne(Pairs(map))
      /\ o.id \in AnyId /\ r.id \in AnyId /\ o.pid \in AnyId /\ r.pid \in AnyId
  BY RegisterFacts, IdIsAny DEF GoodMap
<1>1. CASE o.type \in {"arena", "insn"}
  <2>1. ids.ok /\ ids.map = map
    BY <1>1 DEF PtrIds
  <2>2. more = Pairs(map)
    BY <1>1 DEF PairsWith
  <2>3. Len(ids.map) <= Len(map) + 2
    BY <1>0, <2>1
  <2> QED
    BY <1>0, <2>1, <2>2, <2>3 DEF Decides
<1>2. PICK a : a = CheckIds(slots, map, o.id, r.id)
  OBVIOUS
<1>3. PICK x, y : x = Mapped(o.id, r.id) /\ y = Mapped(o.pid, r.pid)
  OBVIOUS
<1>4. Decides(a, map, Pairs(map) \cup {x}, 1)
  <2>1. Len(map) < slots
    BY <1>0
  <2>2. PICK u, v \in AnyId : u = o.id /\ v = r.id
    BY <1>0
  <2>3. a = CheckIds(slots, map, u, v) /\ x = Mapped(u, v)
    BY <1>2, <1>3, <2>2
  <2> QED
    BY <2>1, <2>3, CheckStep
<1>5. Len(a.map) <= Len(map) + 2 /\ Len(a.map) \in Nat
  BY <1>0, <1>4 DEF Decides
<1>6. CASE o.type = "packet"
  <2>1. ids = a
    BY <1>2, <1>6 DEF PtrIds
  <2>2. more = Pairs(map) \cup {x}
    BY <1>3, <1>6 DEF PairsWith
  <2> QED
    BY <1>4, <1>5, <2>1, <2>2 DEF Decides
<1>7. CASE o.type \in {"map_value", "stack", "other"}
  <2>1. more = Pairs(map) \cup {x, y}
    BY <1>3, <1>7 DEF PairsWith
  <2>2. CASE ~a.ok
    <3>1. ids = a
      BY <1>2, <1>7, <2>2 DEF PtrIds
    <3>2. ~OneToOne(more)
      BY <1>4, <2>1, <2>2, PartIsOneToOne DEF Decides
    <3> QED
      BY <1>4, <1>5, <2>2, <3>1, <3>2 DEF Decides
  <2>3. CASE a.ok
    <3>1. ids = CheckIds(slots, a.map, o.pid, r.pid)
      BY <1>2, <1>7, <2>3 DEF PtrIds
    <3>2. PICK u, v \in AnyId : u = o.pid /\ v = r.pid
      BY <1>0
    <3>3. PICK m : m = a.map
      OBVIOUS
    <3>4. /\ GoodMap(m) /\ Len(m) < slots /\ ids = CheckIds(slots, m, u, v)
          /\ more = Pairs(m) \cup {Mapped(u, v)}
      BY <1>0, <1>3, <1>4, <1>5, <2>1, <2>3, <3>1, <3>2, <3>3 DEF Decides
    <3>5. Decides(ids, m, more, 1)
      BY <3>4, CheckStep
    <3>6. Len(ids.map) <= Len(map) + 2
      BY <1>0, <1>4, <1>5, <3>3, <3>5 DEF Decides
    <3> QED
      BY <3>5, <3>6 DEF Decides
  <2> QED
    BY <2>2, <2>3
<1> QED
  BY <1>1, <1>6, <1>7, RegisterFacts

Verdict == {"agree", "break", "unmodelled"}
Acc == [verdict : Verdict, map : Seq(Entry), tmp : Nat, ran : BOOLEAN,
        scalar : Nat, ptr : Nat, shortcircuit : Nat]

LEMMA AccFacts ==
  ASSUME NEW acc \in Acc
  PROVE  /\ acc.verdict \in Verdict /\ acc.map \in Seq(Entry) /\ acc.tmp \in Nat
         /\ acc.ran \in BOOLEAN /\ acc.scalar \in Nat /\ acc.ptr \in Nat
         /\ acc.shortcircuit \in Nat
  BY DEF Acc

\* A pair that agrees so far, with two slots left.
Ready(slots, acc) ==
  /\ slots \in Nat /\ acc \in Acc /\ acc.verdict = "agree" /\ acc.tmp # 0
  /\ GoodMap(acc.map) /\ Len(acc.map) + 1 < slots

\* The pairs of ids with those of one more register.
More(acc, t, o, r) == Pairs(acc.map) \cup PairsWith(t, o, r)

\* After a comparison of o and r: it agrees exactly if r is covered and the pairs
\* of ids with theirs are one renaming.
Compared(acc, res, o, r, t) ==
  /\ res \in Acc /\ Len(res.map) <= Len(acc.map) + 2
  /\ res.verdict = "agree" =>
       /\ RegCovered(o, r) /\ OneToOne(More(acc, t, o, r))
       /\ GoodMap(res.map) /\ Pairs(res.map) = More(acc, t, o, r)
  /\ res.verdict # "agree" =>
       /\ res.verdict = "break"
       /\ RegCovered(o, r) => ~OneToOne(More(acc, t, o, r))

LEMMA BreakType ==
  ASSUME NEW acc \in Acc
  PROVE  /\ Break(acc) \in Acc /\ Break(acc).verdict = "break"
         /\ Break(acc).map = acc.map /\ Break(acc).tmp = acc.tmp
  BY DEF Acc, Break, Verdict

\* The rows of a pointer, whose bytes are known.
PtrRows(old, cur) ==
  /\ Known(old.reg) /\ Known(cur.reg)
  /\ old.reg.type = cur.reg.type /\ old.reg.type # "scalar"
  /\ old.pfx = old.reg.pfx /\ cur.pfx = cur.reg.pfx

\* A pointer whose bytes are known on both sides agrees exactly if it is
\* covered and its ids fit.
LEMMA OnPointerStep ==
  ASSUME NEW slots, NEW acc, Ready(slots, acc), NEW old, NEW cur, PtrRows(old, cur),
         NEW t
  PROVE  /\ Compared(acc, OnPointer(slots, acc, old, cur), old.reg, cur.reg, t)
         /\ OnPointer(slots, acc, old, cur).tmp = acc.tmp
<1>a. PICK res, more : /\ res = OnPointer(slots, acc, old, cur)
                      /\ more = More(acc, t, old.reg, cur.reg)
  OBVIOUS
<1>b. more = Pairs(acc.map) \cup PairsWith(t, old.reg, cur.reg)
  BY <1>a DEF More
<1>c. /\ slots \in Nat /\ acc \in Acc /\ acc.verdict = "agree"
      /\ GoodMap(acc.map) /\ Len(acc.map) + 1 < slots
  BY DEF Ready
<1>1. PICK o, r : o = old.reg /\ r = cur.reg
  OBVIOUS
<1>2. Known(o) /\ Known(r) /\ o.type = r.type /\ o.type # "scalar"
  BY <1>1 DEF PtrRows
<1>3. [old.reg EXCEPT !.pfx = old.pfx] = o /\ [cur.reg EXCEPT !.pfx = cur.pfx] = r
  <2>1. old.pfx = o.pfx /\ cur.pfx = r.pfx
    BY <1>1 DEF PtrRows
  <2> QED
    BY <1>1, <1>2, <2>1 DEF Known, Register
<1>4. old.pfx # None /\ cur.pfx # None
  BY <1>1, <1>2, RegisterFacts, SubsumeAssumption DEF PtrRows
<1>5. PICK ids : ids = PtrIds(slots, acc.map, o, r)
  OBVIOUS
<1>6. Decides(ids, acc.map, more, 2)
  <2>1. PICK map : map = acc.map
    OBVIOUS
  <2>2. GoodMap(map) /\ Len(map) + 1 < slots /\ ids = PtrIds(slots, map, o, r)
        /\ more = Pairs(map) \cup PairsWith(t, o, r)
    BY <1>1, <1>5, <1>b, <1>c, <2>1
  <2>3. Decides(ids, map, more, 2)
    BY <1>2, <1>c, <2>2, PtrIdsStep
  <2> QED
    BY <2>1, <2>3
<1>7. PICK looked : looked = [acc EXCEPT !.ptr = @ + 1]
  OBVIOUS
<1>8. /\ looked \in Acc /\ looked.verdict = "agree" /\ looked.map = acc.map
      /\ looked.tmp = acc.tmp
  BY <1>7, <1>c DEF Acc
<1>9. PtrFits(o, r) <=> RegCovered(o, r)
  BY <1>2, PtrFitsIsCovered
<1>10. res = IF PtrFits(o, r) /\ ids.ok THEN [looked EXCEPT !.map = ids.map]
             ELSE Break(looked)
  BY <1>3, <1>4, <1>5, <1>7, <1>a DEF OnPointer
<1>11. Len(acc.map) \in Nat
  BY <1>c, AccFacts
<1>12. CASE PtrFits(o, r) /\ ids.ok
  <2>1. res = [looked EXCEPT !.map = ids.map]
    BY <1>10, <1>12
  <2>2. /\ res \in Acc /\ res.verdict = "agree" /\ res.map = ids.map
        /\ res.tmp = acc.tmp
    BY <1>6, <1>8, <1>12, <2>1 DEF Acc, Decides
  <2> QED
    BY <1>1, <1>6, <1>9, <1>12, <1>a, <2>2 DEF Compared, Decides
<1>13. CASE ~(PtrFits(o, r) /\ ids.ok)
  <2>1. res = Break(looked)
    BY <1>10, <1>13
  <2>2. /\ res \in Acc /\ res.verdict = "break" /\ res.map = acc.map
        /\ res.tmp = acc.tmp
    BY <1>8, <2>1, BreakType
  <2>3. Len(res.map) <= Len(acc.map) + 2
    BY <1>11, <2>2
  <2> QED
    BY <1>1, <1>6, <1>9, <1>13, <1>a, <2>2, <2>3 DEF Compared, Decides
<1> QED
  BY <1>12, <1>13

\* The id that a scalar's is compared with.
CurId(t, r) == IF r.id = NoId THEN [base |-> t, add |-> "none"] ELSE r.id

Unused(o, r) == o.id # NoId /\ r.id = NoId

\* The scalars of which the values are compared.
Scalars(o, r, exact) ==
  /\ Known(o) /\ Known(r) /\ o.type = "scalar" /\ r.type = "scalar"
  /\ exact \in BOOLEAN /\ Matters(o, exact)

\* A new id has been used up.
Renewed(acc, res, o, r) ==
  res.verdict = "agree" => res.tmp = IF Unused(o, r) THEN acc.tmp + 1 ELSE acc.tmp

\* A scalar that matters agrees exactly if it is covered and its id fits, with
\* the next new id for one that has none.
LEMMA OnScalarStep ==
  ASSUME NEW slots, NEW acc, Ready(slots, acc), NEW o, NEW r, NEW exact,
         Scalars(o, r, exact)
  PROVE  /\ Compared(acc, OnScalar(slots, acc, o, r, exact), o, r, acc.tmp)
         /\ Renewed(acc, OnScalar(slots, acc, o, r, exact), o, r)
<1>a. PICK res, more : res = OnScalar(slots, acc, o, r, exact) /\ more = More(acc, acc.tmp, o, r)
  OBVIOUS
<1>c. /\ more = Pairs(acc.map) \cup PairsWith(acc.tmp, o, r)
      /\ slots \in Nat /\ acc \in Acc /\ acc.verdict = "agree"
      /\ GoodMap(acc.map) /\ Len(acc.map) + 1 < slots /\ acc.tmp # 0
      /\ Known(o) /\ Known(r) /\ o.type = "scalar" /\ r.type = "scalar"
      /\ exact \in BOOLEAN /\ Matters(o, exact)
  BY <1>a DEF Ready, More, Scalars
<1>0. /\ acc.map \in Seq(Entry) /\ Len(acc.map) \in Nat /\ OneToOne(Pairs(acc.map))
      /\ acc.tmp \in Nat /\ o.id \in AnyId /\ r.id \in AnyId
  BY <1>c, AccFacts, RegisterFacts, IdIsAny DEF GoodMap
<1>1. PICK id : id = IF Unused(o, r) THEN [base |-> acc.tmp, add |-> "none"] ELSE r.id
  OBVIOUS
<1>2. PICK ids : ids = CheckScalarIds(slots, acc.map, o.id, id)
  OBVIOUS
<1>3. PICK looked : looked = [acc EXCEPT !.map = ids.map,
                                !.tmp = IF Unused(o, r) THEN @ + 1 ELSE @,
                                !.ran = TRUE, !.scalar = @ + 1]
  OBVIOUS
<1>4. res = IF ~SameFlags(o, r) \/ ~ids.ok THEN Break(acc)
            ELSE IF Within(o, r) THEN looked ELSE Break(looked)
  BY <1>1, <1>2, <1>3, <1>a, <1>c DEF OnScalar, Unused, Matters
<1>5. Within(o, r) <=> ValuesWithin(o, r)
  BY <1>c, WithinIsInclusion
<1>6. RegCovered(o, r) <=> SameFlags(o, r) /\ Within(o, r)
  BY <1>5, <1>c DEF RegCovered
<1>b. /\ Break(acc) \in Acc /\ Break(acc).verdict = "break"
      /\ Len(Break(acc).map) <= Len(acc.map) + 2
  <2>1. Break(acc).map = acc.map /\ Break(acc) \in Acc /\ Break(acc).verdict = "break"
    BY <1>c, BreakType
  <2> QED
    BY <1>0, <2>1
<1>7. CASE ~SameFlags(o, r)
  BY <1>4, <1>6, <1>7, <1>a, <1>b DEF Compared, Renewed
<1>8. CASE SameFlags(o, r)
  <2>1. Decides(ids, acc.map, more, 2)
    <3>1. CASE o.id = NoId
      <4>1. ids.ok /\ ids.map = acc.map
        BY <1>2, <3>1 DEF CheckScalarIds
      <4>2. more = Pairs(acc.map)
        BY <1>c, <3>1 DEF PairsWith
      <4>3. Len(ids.map) <= Len(acc.map) + 2
        BY <1>0, <4>1
      <4> QED
        BY <1>0, <1>c, <4>1, <4>2, <4>3 DEF Decides
    <3>2. CASE o.id # NoId
      <4>1. id = CurId(acc.tmp, r)
        BY <1>1, <3>2 DEF CurId, Unused
      <4>2. id \in AnyId
        BY <1>0, <4>1 DEF CurId, AnyId
      <4>3. o.id.add = id.add
        BY <1>8, <3>2, <4>1 DEF SameFlags, CurId, NoId
      <4>4. PairsWith(acc.tmp, o, r) = {Mapped(o.id, id), Mapped(BaseOf(o.id), BaseOf(id))}
        BY <1>c, <3>2, <4>1 DEF PairsWith, CurId
      <4>5. PICK map, u : map = acc.map /\ u = o.id
        OBVIOUS
      <4>6. /\ GoodMap(map) /\ Len(map) + 1 < slots /\ u \in AnyId /\ u # NoId
            /\ u.add = id.add /\ ids = CheckScalarIds(slots, map, u, id)
            /\ more = Pairs(map) \cup {Mapped(u, id), Mapped(BaseOf(u), BaseOf(id))}
        BY <1>0, <1>2, <1>c, <3>2, <4>3, <4>4, <4>5
      <4>7. Decides(ids, map, more, 2)
        BY <1>c, <4>2, <4>6, CheckScalarStep
      <4> QED
        BY <4>5, <4>7
    <3> QED
      BY <3>1, <3>2
  <2>2. /\ looked \in Acc /\ looked.verdict = "agree" /\ looked.map = ids.map
        /\ looked.tmp = IF Unused(o, r) THEN acc.tmp + 1 ELSE acc.tmp
    <3>1. ids.map \in Seq(Entry) /\ acc.tmp + 1 \in Nat /\ acc.scalar + 1 \in Nat
      BY <1>0, <1>c, <2>1, AccFacts DEF Decides
    <3>2. PICK tmp : tmp = IF Unused(o, r) THEN acc.tmp + 1 ELSE acc.tmp
      OBVIOUS
    <3>3. tmp \in Nat
      BY <1>0, <3>1, <3>2
    <3>4. looked = [acc EXCEPT !.map = ids.map, !.tmp = tmp, !.ran = TRUE,
                               !.scalar = acc.scalar + 1]
      BY <1>3, <1>c, <3>2 DEF Acc
    <3> QED
      BY <1>c, <3>1, <3>2, <3>3, <3>4 DEF Acc
  <2>3. /\ Break(looked) \in Acc /\ Break(looked).verdict = "break"
        /\ Break(looked).map = ids.map
    BY <2>2, BreakType
  <2>4. CASE ~ids.ok
    BY <1>4, <1>a, <1>b, <2>1, <2>4 DEF Compared, Decides, Renewed
  <2>5. CASE ids.ok /\ Within(o, r)
    <3>1. res = looked
      BY <1>4, <1>8, <2>5
    <3> QED
      BY <1>6, <1>8, <1>a, <2>1, <2>2, <2>5, <3>1 DEF Compared, Decides, Renewed
  <2>6. CASE ids.ok /\ ~Within(o, r)
    <3>1. res = Break(looked)
      BY <1>4, <1>8, <2>6
    <3> QED
      BY <1>6, <1>a, <2>1, <2>3, <2>6, <3>1 DEF Compared, Decides, Renewed
  <2> QED
    BY <2>4, <2>5, <2>6
<1> QED
  BY <1>7, <1>8

\* Whether regsafe looks at a register's values: the C reader's row has to have
\* the pointer's bytes.
Looks(old, cur, exact) ==
  IF old.reg.type = "scalar" THEN Matters(old.reg, exact)
  ELSE old.pfx # None /\ cur.pfx # None

\* A row of a register: the bytes are the register's, or were lost.
IsRow(row) == Known(row.reg) /\ row.pfx \in {None, row.reg.pfx}

\* The rows of a register on both sides.
Rows(old, curs, cur, exact) ==
  /\ IsRow(old) /\ IsRow(cur) /\ exact \in BOOLEAN
  /\ old.key \in DOMAIN curs /\ cur = curs[old.key]

\* After one register of a pair.
Stepped(acc, res, old, cur, exact) ==
  /\ res \in Acc /\ Len(res.map) <= Len(acc.map) + 2
  /\ res.verdict \in {"agree", "break"}
  /\ res.verdict = "agree" => old.reg.type = cur.reg.type
  /\ res.verdict = "agree" /\ ~Looks(old, cur, exact) =>
       res.map = acc.map /\ res.tmp = acc.tmp
  /\ res.verdict = "agree" /\ Looks(old, cur, exact) =>
       /\ RegCovered(old.reg, cur.reg)
       /\ GoodMap(res.map) /\ Pairs(res.map) = More(acc, acc.tmp, old.reg, cur.reg)
       /\ res.tmp \in {acc.tmp, acc.tmp + 1}
       /\ old.reg.type = "scalar" /\ Unused(old.reg, cur.reg) => res.tmp = acc.tmp + 1
  /\ res.verdict = "break" /\ old.reg.type = cur.reg.type =>
       /\ Looks(old, cur, exact)
       /\ RegCovered(old.reg, cur.reg) => ~OneToOne(More(acc, acc.tmp, old.reg, cur.reg))

LEMMA OnRegisterStep ==
  ASSUME NEW slots, NEW acc, Ready(slots, acc), NEW old, NEW curs, NEW cur, NEW exact,
         Rows(old, curs, cur, exact)
  PROVE  Stepped(acc, OnRegister(slots, acc, old, curs, exact), old, cur, exact)
<1>a. PICK res : res = OnRegister(slots, acc, old, curs, exact)
  OBVIOUS
<1>0. /\ Known(old.reg) /\ Known(cur.reg) /\ acc \in Acc /\ acc.verdict = "agree"
      /\ acc.tmp \in Nat /\ Len(acc.map) \in Nat /\ exact \in BOOLEAN
      /\ old.key \in DOMAIN curs /\ cur = curs[old.key]
  BY AccFacts DEF Ready, Rows, IsRow
<1>1. CASE old.reg.type # cur.reg.type
  <2>1. res = Break(acc)
    BY <1>0, <1>1, <1>a DEF OnRegister
  <2>2. res \in Acc /\ res.verdict = "break" /\ res.map = acc.map
    BY <1>0, <2>1, BreakType
  <2>3. Len(res.map) <= Len(acc.map) + 2
    BY <1>0, <2>2
  <2> QED
    BY <1>1, <1>a, <2>2, <2>3 DEF Stepped
<1>2. CASE old.reg.type = cur.reg.type /\ old.reg.type = "scalar"
  <2>1. res = OnScalar(slots, acc, old.reg, cur.reg, exact)
    BY <1>0, <1>2, <1>a DEF OnRegister
  <2>2. CASE ~Matters(old.reg, exact)
    <3>1. res = [acc EXCEPT !.shortcircuit = @ + 1]
      BY <1>2, <2>1, <2>2 DEF OnScalar, Matters
    <3>2. res \in Acc /\ res.verdict = "agree" /\ res.map = acc.map /\ res.tmp = acc.tmp
      BY <1>0, <3>1 DEF Acc
    <3>3. Len(res.map) <= Len(acc.map) + 2
      BY <1>0, <3>2
    <3>4. ~Looks(old, cur, exact)
      BY <1>2, <2>2 DEF Looks
    <3> QED
      BY <1>2, <1>a, <3>2, <3>3, <3>4 DEF Stepped
  <2>3. CASE Matters(old.reg, exact)
    <3>1. Scalars(old.reg, cur.reg, exact)
      BY <1>0, <1>2, <2>3 DEF Scalars
    <3>2. /\ Compared(acc, res, old.reg, cur.reg, acc.tmp)
          /\ Renewed(acc, res, old.reg, cur.reg)
      BY <2>1, <3>1, OnScalarStep
    <3>3. Looks(old, cur, exact)
      BY <1>2, <2>3 DEF Looks
    <3>4. res.verdict \in {"agree", "break"}
      BY <3>2 DEF Compared
    <3> QED
      BY <1>2, <1>a, <3>2, <3>3, <3>4 DEF Stepped, Compared, Renewed
  <2> QED
    BY <2>2, <2>3
<1>3. CASE old.reg.type = cur.reg.type /\ old.reg.type # "scalar"
  <2>1. res = OnPointer(slots, acc, old, cur)
    BY <1>0, <1>3, <1>a DEF OnRegister
  <2>2. CASE old.pfx = None \/ cur.pfx = None
    <3>1. res = acc
      BY <2>1, <2>2 DEF OnPointer
    <3>2. Len(res.map) <= Len(acc.map) + 2 /\ res \in Acc /\ res.verdict = "agree"
      BY <1>0, <3>1
    <3>3. ~Looks(old, cur, exact)
      BY <1>3, <2>2 DEF Looks
    <3> QED
      BY <1>3, <1>a, <3>1, <3>2, <3>3 DEF Stepped
  <2>3. CASE old.pfx # None /\ cur.pfx # None
    <3>1. PtrRows(old, cur)
      BY <1>0, <1>3, <2>3 DEF PtrRows, IsRow, Rows
    <3>2. Compared(acc, res, old.reg, cur.reg, acc.tmp) /\ res.tmp = acc.tmp
      BY <2>1, <3>1, OnPointerStep
    <3>3. Looks(old, cur, exact)
      BY <1>3, <2>3 DEF Looks
    <3>4. res.verdict \in {"agree", "break"}
      BY <3>2 DEF Compared
    <3> QED
      BY <1>3, <1>a, <3>2, <3>3, <3>4 DEF Stepped, Compared
  <2> QED
    BY <2>2, <2>3
<1> QED
  BY <1>1, <1>2, <1>3

-----------------------------------------------------------------------------
(* The renaming as a whole: which new ids stand for the missing ones makes *)
(* no difference.                                                          *)

NeedsNew(o, r) == o.type = "scalar" /\ Unused(o, r)

\* The pairs of ids of the registers in N, with t for those that need one.
Renaming(N, t, o, r) == {NoPair} \cup UNION {PairsWith(t[j], o[j], r[j]) : j \in N}

\* New ids are nobody else's.
NewIds(N, t, o, r) ==
  /\ \A j \in N : t[j] \in Nat /\ t[j] >= FirstTmp
  /\ \A i, j \in N : NeedsNew(o[i], r[i]) /\ NeedsNew(o[j], r[j]) /\ t[i] = t[j] => i = j

NewId(t) == [base |-> t, add |-> "none"]

\* A pair of ids and the one in its place, when t is changed for u.
Twins(N, t, u, o, r, p, q) ==
  /\ q.old = p.old
  /\ \/ q.cur = p.cur /\ p.cur \in Id
     \/ \E j \in N : NeedsNew(o[j], r[j]) /\ p.cur = NewId(u[j]) /\ q.cur = NewId(t[j])

LEMMA IdFacts ==
  ASSUME NEW id \in Id
  PROVE  BaseOf(id) \in Id /\ id.base \in Nat /\ id.base < FirstTmp
<1>1. FirstTmp \in Nat \ {0}
  BY SubsumeAssumption
<1> QED
  BY <1>1 DEF Id, NoId, BaseOf

\* Every pair has a twin.
LEMMA TwinExists ==
  ASSUME NEW N, NEW t, NEW u, NEW o, NEW r, NEW j \in N, Known(o[j]), Known(r[j]),
         NEW p \in PairsWith(u[j], o[j], r[j])
  PROVE  \E q \in PairsWith(t[j], o[j], r[j]) : Twins(N, t, u, o, r, p, q)
<1>1. PICK a, b, x, y : a = o[j] /\ b = r[j] /\ x = u[j] /\ y = t[j]
  OBVIOUS
<1>2. a.id \in Id /\ b.id \in Id /\ b.pid \in Id /\ BaseOf(b.id) \in Id
  BY <1>1, RegisterFacts, IdFacts
<1>3. \A e, d : Mapped(e, d).old = e /\ Mapped(e, d).cur = d
  BY DEF Mapped
<1>4. CASE NeedsNew(a, b)
  <2>1. \A v : PairsWith(v, a, b)
                 = {Mapped(a.id, NewId(v)), Mapped(BaseOf(a.id), BaseOf(NewId(v)))}
    BY <1>4 DEF PairsWith, NeedsNew, Unused, NewId
  <2>2. \A v : BaseOf(NewId(v)) = NewId(v)
    BY DEF BaseOf, NewId
  <2>3. PICK e : p = Mapped(e, NewId(x)) /\ Mapped(e, NewId(y)) \in PairsWith(y, a, b)
    BY <1>1, <2>1, <2>2
  <2> QED
    BY <1>1, <1>3, <1>4, <2>3 DEF Twins
<1>5. CASE ~NeedsNew(a, b)
  <2>1. PairsWith(x, a, b) = PairsWith(y, a, b)
    BY <1>5 DEF PairsWith, NeedsNew, Unused
  <2>2. p.cur \in Id
    <3>1. p \in PairsWith(x, a, b)
      BY <1>1
    <3>2. PairsWith(x, a, b) \subseteq
            {Mapped(a.id, b.id), Mapped(BaseOf(a.id), BaseOf(b.id)), Mapped(a.pid, b.pid)}
      BY <1>5, <1>1, RegisterFacts DEF PairsWith, NeedsNew, Unused
    <3> QED
      BY <1>2, <1>3, <3>1, <3>2
  <2> QED
    BY <1>1, <2>1, <2>2 DEF Twins
<1> QED
  BY <1>4, <1>5

LEMMA TwinsAgree ==
  ASSUME NEW N, NEW t, NEW u, NEW o, NEW r, NewIds(N, t, o, r), NewIds(N, u, o, r),
         NEW p1, NEW q1, Twins(N, t, u, o, r, p1, q1),
         NEW p2, NEW q2, Twins(N, t, u, o, r, p2, q2)
  PROVE  p1.cur = p2.cur <=> q1.cur = q2.cur
<1>0. FirstTmp \in Nat
  BY SubsumeAssumption
<1>1. \A v \in Nat : v >= FirstTmp => NewId(v) \notin Id
  BY <1>0, IdFacts DEF NewId
<1>2. \A v, w : NewId(v) = NewId(w) => v = w
  BY DEF NewId
<1>3. \A j \in N : NewId(t[j]) \notin Id /\ NewId(u[j]) \notin Id
  BY <1>1 DEF NewIds
<1>4. CASE p1.cur \in Id /\ p2.cur \in Id
  BY <1>3, <1>4 DEF Twins
<1>5. CASE p1.cur \in Id /\ p2.cur \notin Id
  BY <1>3, <1>5 DEF Twins
<1>6. CASE p1.cur \notin Id /\ p2.cur \in Id
  BY <1>3, <1>6 DEF Twins
<1>7. CASE p1.cur \notin Id /\ p2.cur \notin Id
  <2>1. PICK i \in N : NeedsNew(o[i], r[i]) /\ p1.cur = NewId(u[i]) /\ q1.cur = NewId(t[i])
    BY <1>7 DEF Twins
  <2>2. PICK j \in N : NeedsNew(o[j], r[j]) /\ p2.cur = NewId(u[j]) /\ q2.cur = NewId(t[j])
    BY <1>7 DEF Twins
  <2>3. u[i] = u[j] => i = j
    BY <2>1, <2>2 DEF NewIds
  <2>4. t[i] = t[j] => i = j
    BY <2>1, <2>2 DEF NewIds
  <2> QED
    BY <1>2, <2>1, <2>2, <2>3, <2>4
<1> QED
  BY <1>4, <1>5, <1>6, <1>7

\* So any new ids do.
LEMMA AnyNewIdsDo ==
  ASSUME NEW N, NEW t, NEW u, NEW o, NEW r, \A j \in N : Known(o[j]) /\ Known(r[j]),
         NewIds(N, t, o, r), NewIds(N, u, o, r), OneToOne(Renaming(N, t, o, r))
  PROVE  OneToOne(Renaming(N, u, o, r))
<1>1. ASSUME NEW p \in Renaming(N, u, o, r)
      PROVE  \E q \in Renaming(N, t, o, r) : Twins(N, t, u, o, r, p, q)
  <2>1. CASE p = NoPair
    <3>1. NoPair.cur \in Id
      BY DEF NoPair, Mapped, Id
    <3>2. Twins(N, t, u, o, r, p, NoPair)
      BY <2>1, <3>1 DEF Twins
    <3> QED
      BY <3>2 DEF Renaming
  <2>2. CASE p # NoPair
    <3>1. PICK j \in N : p \in PairsWith(u[j], o[j], r[j])
      BY <1>1, <2>2 DEF Renaming
    <3>2. PICK q \in PairsWith(t[j], o[j], r[j]) : Twins(N, t, u, o, r, p, q)
      BY <3>1, TwinExists
    <3>3. q \in Renaming(N, t, o, r)
      BY <3>1, <3>2 DEF Renaming
    <3> QED
      BY <3>2, <3>3
  <2> QED
    BY <2>1, <2>2
<1>2. ASSUME NEW p1 \in Renaming(N, u, o, r), NEW p2 \in Renaming(N, u, o, r)
      PROVE  p1.old = p2.old <=> p1.cur = p2.cur
  <2>1. PICK q1 \in Renaming(N, t, o, r) : Twins(N, t, u, o, r, p1, q1)
    BY <1>1
  <2>2. PICK q2 \in Renaming(N, t, o, r) : Twins(N, t, u, o, r, p2, q2)
    BY <1>1
  <2>3. q1.old = q2.old <=> q1.cur = q2.cur
    BY DEF OneToOne
  <2>4. q1.old = p1.old /\ q2.old = p2.old
    BY <2>1, <2>2 DEF Twins
  <2>5. p1.cur = p2.cur <=> q1.cur = q2.cur
    BY <2>1, <2>2, TwinsAgree
  <2> QED
    BY <2>3, <2>4, <2>5
<1> QED
  BY <1>2 DEF OneToOne

-----------------------------------------------------------------------------
(* A pair: the registers in order, in one id map.                          *)

\* The registers of the rows, and those the current state has for them.
OldRegs(olds) == [j \in 1 .. Len(olds) |-> olds[j].reg]
CurRegs(olds, curs) == [j \in 1 .. Len(olds) |-> curs[olds[j].key].reg]

RealRows(olds, curs) ==
  /\ Len(olds) \in Nat /\ \A j \in 1 .. Len(olds) : IsRow(olds[j])
  /\ \A k \in DOMAIN curs : IsRow(curs[k])

\* The rows up to i of which the values were compared.
LookedAt(olds, curs, exact, i) ==
  {j \in 1 .. i : Looks(olds[j], curs[olds[j].key], exact)}

Matched(olds, curs, j) ==
  olds[j].key \in DOMAIN curs /\ olds[j].reg.type = curs[olds[j].key].reg.type

\* What each register found as its new id.
Tmps(f, olds) == [j \in 1 .. Len(olds) |-> f[j - 1].tmp]

\* What is known while rows up to i agree.
Agreed(f, olds, curs, exact, i) ==
  LET N == LookedAt(olds, curs, exact, i)
  IN  /\ GoodMap(f[i].map) /\ Len(f[i].map) <= 2 * i /\ f[i].tmp >= FirstTmp
      /\ \A j \in 1 .. i : Matched(olds, curs, j)
      /\ \A j \in N : RegCovered(olds[j].reg, curs[olds[j].key].reg)
      /\ Pairs(f[i].map) = Renaming(N, Tmps(f, olds), OldRegs(olds), CurRegs(olds, curs))
      /\ NewIds(N, Tmps(f, olds), OldRegs(olds), CurRegs(olds, curs))
      /\ \A j \in N : NeedsNew(olds[j].reg, curs[olds[j].key].reg) => f[j - 1].tmp < f[i].tmp

\* Registers that are not covered, whatever new ids are taken.
Clash(olds, curs, exact, N, t) ==
  /\ \A j \in N : j \in 1 .. Len(olds) /\ Matched(olds, curs, j)
                  /\ Looks(olds[j], curs[olds[j].key], exact)
  /\ NewIds(N, t, OldRegs(olds), CurRegs(olds, curs))
  /\ (\A j \in N : RegCovered(olds[j].reg, curs[olds[j].key].reg)) =>
       ~OneToOne(Renaming(N, t, OldRegs(olds), CurRegs(olds, curs)))

Refuted(olds, curs, exact) ==
  \/ \E j \in 1 .. Len(olds) : olds[j].key \in DOMAIN curs /\ ~Matched(olds, curs, j)
  \/ \E N, t : Clash(olds, curs, exact, N, t)

Sound(f, olds, curs, exact, i) ==
  /\ f[i] \in Acc
  /\ f[i].verdict = "agree" => Agreed(f, olds, curs, exact, i)
  /\ f[i].verdict = "break" => Refuted(olds, curs, exact)

\* One more row, with an id that is newer than all so far.
Below(N, t, o, r, v) == \A j \in N : NeedsNew(o[j], r[j]) => t[j] < v

LEMMA NewIdsGrow ==
  ASSUME NEW N, NEW i \in Nat, NEW t, NEW o, NEW r, NewIds(N, t, o, r),
         t[i] \in Nat, t[i] >= FirstTmp, Below(N, t, o, r, t[i])
  PROVE  NewIds(N \cup {i}, t, o, r)
<1>1. \A j \in N : t[j] \in Nat /\ t[j] >= FirstTmp
  BY DEF NewIds
<1>2. ASSUME NEW j \in N \cup {i}, NEW k \in N \cup {i},
             NeedsNew(o[j], r[j]), NeedsNew(o[k], r[k]), t[j] = t[k]
      PROVE  j = k
  <2>1. CASE j \in N /\ k \in N
    BY <1>2, <2>1 DEF NewIds
  <2>2. CASE j \in N /\ k = i
    BY <1>1, <1>2, <2>2 DEF Below
  <2>3. CASE j = i /\ k \in N
    BY <1>1, <1>2, <2>3 DEF Below
  <2> QED
    BY <2>1, <2>2, <2>3
<1> QED
  BY <1>1, <1>2 DEF NewIds

\* The rows that are compared next, after an agreement.
LEMMA RowIsReady ==
  ASSUME NEW slots \in Nat, NEW olds, NEW curs, RealRows(olds, curs), NEW exact \in BOOLEAN,
         2 * Len(olds) <= slots, NEW i \in 1 .. Len(olds),
         NEW f, Sound(f, olds, curs, exact, i - 1), f[i - 1].verdict = "agree",
         olds[i].key \in DOMAIN curs
  PROVE  /\ Ready(slots, f[i - 1])
         /\ Rows(olds[i], curs, curs[olds[i].key], exact)
<1>1. PICK acc : acc = f[i - 1]
  OBVIOUS
<1>2. /\ acc \in Acc /\ acc.verdict = "agree" /\ GoodMap(acc.map)
      /\ Len(acc.map) <= 2 * (i - 1) /\ acc.tmp >= FirstTmp
  BY <1>1 DEF Sound, Agreed
<1>3. Len(olds) \in Nat /\ Len(acc.map) \in Nat /\ acc.tmp \in Nat
  BY <1>2, AccFacts DEF RealRows
<1>4. Len(acc.map) + 1 < slots
  BY <1>2, <1>3
<1>5. acc.tmp # 0
  BY <1>2, <1>3, SubsumeAssumption
<1>6. Ready(slots, acc)
  BY <1>2, <1>4, <1>5 DEF Ready
<1>7. IsRow(olds[i]) /\ IsRow(curs[olds[i].key])
  BY DEF RealRows
<1> QED
  BY <1>1, <1>6, <1>7 DEF Rows

LEMMA RowType ==
  ASSUME NEW slots \in Nat, NEW olds, NEW curs, RealRows(olds, curs), NEW exact \in BOOLEAN,
         2 * Len(olds) <= slots, NEW i \in 1 .. Len(olds),
         NEW f, Sound(f, olds, curs, exact, i - 1)
  PROVE  OnRegister(slots, f[i - 1], olds[i], curs, exact) \in Acc
<1>1. PICK acc, res : acc = f[i - 1] /\ res = OnRegister(slots, acc, olds[i], curs, exact)
  OBVIOUS
<1>2. acc \in Acc
  BY <1>1 DEF Sound
<1>3. CASE acc.verdict # "agree"
  BY <1>1, <1>2, <1>3 DEF OnRegister
<1>4. CASE acc.verdict = "agree" /\ olds[i].key \notin DOMAIN curs
  <2>1. res = [acc EXCEPT !.verdict = "unmodelled"]
    BY <1>1, <1>4 DEF OnRegister
  <2> QED
    BY <1>1, <1>2, <2>1 DEF Acc, Verdict
<1>5. CASE acc.verdict = "agree" /\ olds[i].key \in DOMAIN curs
  <2>1. PICK cur : cur = curs[olds[i].key]
    OBVIOUS
  <2>2. Ready(slots, acc) /\ Rows(olds[i], curs, cur, exact)
    BY <1>1, <1>5, <2>1, RowIsReady
  <2>3. Stepped(acc, res, olds[i], cur, exact)
    BY <1>1, <2>2, OnRegisterStep
  <2> QED
    BY <1>1, <2>3 DEF Stepped
<1> QED
  BY <1>3, <1>4, <1>5

\* One more row that agrees.
LEMMA RowAgrees ==
  ASSUME NEW slots \in Nat, NEW olds, NEW curs, RealRows(olds, curs), NEW exact \in BOOLEAN,
         2 * Len(olds) <= slots, NEW i \in 1 .. Len(olds),
         NEW f, Sound(f, olds, curs, exact, i - 1), f[i - 1].verdict = "agree",
         olds[i].key \in DOMAIN curs,
         Stepped(f[i - 1], f[i], olds[i], curs[olds[i].key], exact)
  PROVE  Sound(f, olds, curs, exact, i)
<1>1. PICK acc, res, old, cur : /\ acc = f[i - 1] /\ res = f[i] /\ old = olds[i]
                                /\ cur = curs[olds[i].key]
  OBVIOUS
<1>2. PICK N, M, t, o, r : /\ N = LookedAt(olds, curs, exact, i - 1)
                           /\ M = LookedAt(olds, curs, exact, i)
                           /\ t = Tmps(f, olds) /\ o = OldRegs(olds)
                           /\ r = CurRegs(olds, curs)
  OBVIOUS
<1>0. /\ i \in Nat /\ i - 1 \in Nat /\ FirstTmp \in Nat /\ Len(olds) \in Nat
      /\ 1 .. i = 1 .. i - 1 \cup {i}
  BY SubsumeAssumption DEF RealRows
<1>3. /\ acc \in Acc /\ Stepped(acc, res, old, cur, exact)
      /\ GoodMap(acc.map) /\ Len(acc.map) <= 2 * (i - 1) /\ acc.tmp >= FirstTmp
      /\ \A j \in 1 .. i - 1 : Matched(olds, curs, j)
      /\ \A j \in N : RegCovered(olds[j].reg, curs[olds[j].key].reg)
      /\ Pairs(acc.map) = Renaming(N, t, o, r)
      /\ NewIds(N, t, o, r)
      /\ \A j \in N : NeedsNew(olds[j].reg, curs[olds[j].key].reg) => f[j - 1].tmp < acc.tmp
  BY <1>1, <1>2 DEF Sound, Agreed
<1>4. /\ res \in Acc /\ Len(res.map) <= Len(acc.map) + 2
      /\ acc.tmp \in Nat /\ res.tmp \in Nat /\ Len(acc.map) \in Nat /\ Len(res.map) \in Nat
      /\ res.verdict \in {"agree", "break"}
  <2>1. res \in Acc /\ Len(res.map) <= Len(acc.map) + 2 /\ res.verdict \in {"agree", "break"}
    BY <1>3 DEF Stepped
  <2>2. acc.map \in Seq(Entry) /\ res.map \in Seq(Entry) /\ acc.tmp \in Nat /\ res.tmp \in Nat
    BY <1>3, <2>1, AccFacts
  <2> QED
    BY <2>1, <2>2
<1>5. Len(res.map) <= 2 * i
  BY <1>0, <1>3, <1>4
<1>6. /\ \A j \in 1 .. i : t[j] = f[j - 1].tmp /\ o[j] = olds[j].reg
                           /\ r[j] = curs[olds[j].key].reg
      /\ t[i] = acc.tmp /\ o[i] = old.reg /\ r[i] = cur.reg
  BY <1>0, <1>1, <1>2 DEF Tmps, OldRegs, CurRegs
<1>7. N \subseteq 1 .. i - 1 /\ \A j \in N : j \in 1 .. i
  BY <1>0, <1>2 DEF LookedAt
<1>8. Matched(olds, curs, i) <=> old.reg.type = cur.reg.type
  BY <1>1 DEF Matched
<1>9. CASE res.verdict = "agree" /\ ~Looks(old, cur, exact)
  <2>1. /\ res.map = acc.map /\ res.tmp = acc.tmp /\ old.reg.type = cur.reg.type
    BY <1>3, <1>9 DEF Stepped
  <2>2. M = N
    BY <1>0, <1>1, <1>2, <1>9 DEF LookedAt
  <2>3. \A j \in 1 .. i : Matched(olds, curs, j)
    BY <1>0, <1>3, <1>8, <2>1
  <2>4. Agreed(f, olds, curs, exact, i)
    BY <1>1, <1>2, <1>3, <1>5, <2>1, <2>2, <2>3 DEF Agreed
  <2> QED
    BY <1>1, <1>4, <1>9, <2>4 DEF Sound
<1>10. ASSUME Looks(old, cur, exact)
       PROVE  /\ M = N \cup {i} /\ NewIds(M, t, o, r)
              /\ Renaming(M, t, o, r) = More(acc, acc.tmp, old.reg, cur.reg)
  <2>1. M = N \cup {i}
    BY <1>0, <1>1, <1>2, <1>10 DEF LookedAt
  <2>2. Below(N, t, o, r, t[i])
    BY <1>3, <1>6, <1>7 DEF Below
  <2>3. t[i] \in Nat /\ t[i] >= FirstTmp
    BY <1>3, <1>4, <1>6
  <2>4. NewIds(N \cup {i}, t, o, r)
    BY <1>0, <1>3, <2>2, <2>3, NewIdsGrow
  <2>5. Renaming(N \cup {i}, t, o, r) = Renaming(N, t, o, r) \cup PairsWith(t[i], o[i], r[i])
    BY DEF Renaming
  <2> QED
    BY <1>3, <1>6, <2>1, <2>4, <2>5 DEF More
<1>11. CASE res.verdict = "agree" /\ Looks(old, cur, exact)
  <2>1. /\ old.reg.type = cur.reg.type /\ RegCovered(old.reg, cur.reg)
        /\ GoodMap(res.map) /\ Pairs(res.map) = More(acc, acc.tmp, old.reg, cur.reg)
        /\ res.tmp \in {acc.tmp, acc.tmp + 1}
        /\ NeedsNew(old.reg, cur.reg) => res.tmp = acc.tmp + 1
    BY <1>3, <1>11 DEF Stepped, NeedsNew
  <2>2. res.tmp >= FirstTmp
    <3>1. acc.tmp >= FirstTmp /\ FirstTmp \in Nat /\ acc.tmp \in Nat
      BY <1>0, <1>3, <1>4
    <3>2. acc.tmp + 1 >= FirstTmp
      BY <3>1
    <3> QED
      BY <2>1, <3>1, <3>2
  <2>3. \A j \in 1 .. i : Matched(olds, curs, j)
    BY <1>0, <1>3, <1>8, <2>1
  <2>4. \A j \in M : RegCovered(olds[j].reg, curs[olds[j].key].reg)
    BY <1>1, <1>3, <1>10, <1>11, <2>1
  <2>5. \A j \in M : NeedsNew(olds[j].reg, curs[olds[j].key].reg) => f[j - 1].tmp < res.tmp
    <3>1. ASSUME NEW j \in N, NeedsNew(olds[j].reg, curs[olds[j].key].reg)
          PROVE  f[j - 1].tmp < res.tmp
      <4>1. f[j - 1].tmp < acc.tmp /\ f[j - 1].tmp \in Nat
        BY <1>3, <1>6, <1>7, <3>1 DEF NewIds
      <4> QED
        BY <1>4, <2>1, <4>1
    <3>2. NeedsNew(old.reg, cur.reg) => f[i - 1].tmp < res.tmp
      BY <1>1, <1>4, <2>1
    <3> QED
      BY <1>1, <1>10, <1>11, <3>1, <3>2
  <2>6. Pairs(res.map) = Renaming(M, t, o, r) /\ NewIds(M, t, o, r)
    BY <1>10, <1>11, <2>1
  <2>7. Agreed(f, olds, curs, exact, i)
    BY <1>1, <1>2, <1>5, <2>1, <2>2, <2>3, <2>4, <2>5, <2>6 DEF Agreed
  <2> QED
    BY <1>1, <1>4, <1>11, <2>7 DEF Sound
<1>12. CASE res.verdict = "break" /\ old.reg.type # cur.reg.type
  <2>1. Refuted(olds, curs, exact)
    BY <1>8, <1>12 DEF Refuted
  <2> QED
    BY <1>1, <1>4, <1>12, <2>1 DEF Sound
<1>13. CASE res.verdict = "break" /\ old.reg.type = cur.reg.type
  <2>1. /\ Looks(old, cur, exact)
        /\ RegCovered(old.reg, cur.reg) => ~OneToOne(More(acc, acc.tmp, old.reg, cur.reg))
    BY <1>3, <1>13 DEF Stepped
  <2>2. M = N \cup {i} /\ NewIds(M, t, o, r)
        /\ Renaming(M, t, o, r) = More(acc, acc.tmp, old.reg, cur.reg)
    BY <1>10, <2>1
  <2>3. \A j \in M : j \in 1 .. Len(olds) /\ Matched(olds, curs, j)
                     /\ Looks(olds[j], curs[olds[j].key], exact)
    <3>1. \A j \in M : j \in 1 .. i /\ Looks(olds[j], curs[olds[j].key], exact)
      BY <1>2 DEF LookedAt
    <3>2. \A j \in 1 .. i : Matched(olds, curs, j) /\ j \in 1 .. Len(olds)
      BY <1>0, <1>3, <1>8, <1>13
    <3> QED
      BY <3>1, <3>2
  <2>4. (\A j \in M : RegCovered(olds[j].reg, curs[olds[j].key].reg)) =>
          ~OneToOne(Renaming(M, t, o, r))
    BY <1>1, <2>1, <2>2
  <2>5. Clash(olds, curs, exact, M, t)
    BY <1>2, <2>2, <2>3, <2>4 DEF Clash
  <2> QED
    BY <1>1, <1>4, <1>13, <2>5 DEF Sound, Refuted
<1> QED
  BY <1>4, <1>9, <1>11, <1>12, <1>13

LEMMA RowStep ==
  ASSUME NEW slots \in Nat, NEW olds, NEW curs, RealRows(olds, curs), NEW exact \in BOOLEAN,
         2 * Len(olds) <= slots, NEW i \in 1 .. Len(olds),
         NEW f, Sound(f, olds, curs, exact, i - 1),
         f[i] = OnRegister(slots, f[i - 1], olds[i], curs, exact)
  PROVE  Sound(f, olds, curs, exact, i)
<1>1. f[i] \in Acc
  BY RowType
<1>2. CASE f[i - 1].verdict # "agree"
  <2>1. f[i] = f[i - 1]
    BY <1>2 DEF OnRegister
  <2> QED
    BY <1>1, <1>2, <2>1 DEF Sound
<1>3. CASE f[i - 1].verdict = "agree" /\ olds[i].key \notin DOMAIN curs
  <2>1. f[i] = [f[i - 1] EXCEPT !.verdict = "unmodelled"]
    BY <1>3 DEF OnRegister
  <2>2. f[i].verdict = "unmodelled"
    <3>1. f[i - 1] \in Acc
      BY DEF Sound
    <3> QED
      BY <2>1, <3>1 DEF Acc
  <2> QED
    BY <1>1, <2>2 DEF Sound
<1>4. CASE f[i - 1].verdict = "agree" /\ olds[i].key \in DOMAIN curs
  <2>1. Ready(slots, f[i - 1]) /\ Rows(olds[i], curs, curs[olds[i].key], exact)
    BY <1>4, RowIsReady
  <2>2. Stepped(f[i - 1], f[i], olds[i], curs[olds[i].key], exact)
    BY <2>1, OnRegisterStep
  <2> QED
    BY <1>4, <2>2, RowAgrees
<1> QED
  BY <1>2, <1>3, <1>4

\* The values that Eval goes through.
Walks(f, slots, olds, curs, exact) ==
  /\ f \in [0 .. Len(olds) -> Acc] /\ f[0] = Fresh
  /\ \A i \in 1 .. Len(olds) : f[i] = OnRegister(slots, f[i - 1], olds[i], curs, exact)

\* The equation that Eval's recursive function is given by.
Evals(acc, slots, olds, curs, exact) ==
  acc = [i \in 0 .. Len(olds) |->
           IF i = 0 THEN Fresh ELSE OnRegister(slots, acc[i - 1], olds[i], curs, exact)]

LEMMA FreshIsSound ==
  ASSUME NEW olds, NEW curs, RealRows(olds, curs), NEW exact \in BOOLEAN,
         NEW f, f[0] = Fresh
  PROVE  Sound(f, olds, curs, exact, 0) /\ Fresh \in Acc
<1>0. FirstTmp \in Nat
  BY SubsumeAssumption
<1>1. Fresh \in Acc
  BY <1>0 DEF Fresh, Acc, Verdict
<1>2. Fresh.map = <<>> /\ Fresh.tmp = FirstTmp /\ Fresh.verdict = "agree"
  BY DEF Fresh
<1>3. LookedAt(olds, curs, exact, 0) = {} /\ 1 .. 0 = {}
  BY DEF LookedAt
<1>4. Entries(<<>>) = {}
  BY DEF Entries
<1>5. GoodMap(<<>>) /\ Pairs(<<>>) = {NoPair}
  BY <1>4 DEF GoodMap, Pairs, Distinct, OneToOne
<1>6. \A t, o, r : Renaming({}, t, o, r) = {NoPair} /\ NewIds({}, t, o, r)
  BY DEF Renaming, NewIds
<1>7. Len(<<>>) <= 2 * 0 /\ FirstTmp >= FirstTmp
  BY <1>0
<1>8. Agreed(f, olds, curs, exact, 0)
  BY <1>2, <1>3, <1>5, <1>6, <1>7 DEF Agreed
<1> QED
  BY <1>1, <1>2, <1>8 DEF Sound

LEMMA WalkExists ==
  ASSUME NEW slots \in Nat, NEW olds, NEW curs, RealRows(olds, curs), NEW exact \in BOOLEAN,
         2 * Len(olds) <= slots
  PROVE  \E f : /\ Walks(f, slots, olds, curs, exact)
                /\ \A i \in 0 .. Len(olds) : Sound(f, olds, curs, exact, i)
<1> DEFINE n == Len(olds)
           next(acc, i) == OnRegister(slots, acc, olds[i], curs, exact)
           step == [q \in Acc \X (1 .. n) |->
                      IF next(q[1], q[2]) \in Acc THEN next(q[1], q[2]) ELSE Fresh]
<1>0. n \in Nat
  BY DEF RealRows
<1>1. Fresh \in Acc
  <2>1. PICK f : f = [i \in {0} |-> Fresh]
    OBVIOUS
  <2>2. f[0] = Fresh
    BY <2>1
  <2> QED
    BY <2>2, FreshIsSound
<1>2. step \in Steps(Acc, n)
  <2> HIDE DEF next
  <2>1. \A q \in Acc \X (1 .. n) :
          (IF next(q[1], q[2]) \in Acc THEN next(q[1], q[2]) ELSE Fresh) \in Acc
    BY <1>1
  <2> QED
    BY <2>1 DEF Steps
<1>3. PICK f : Goes(f, Acc, n, Fresh, step)
  <2> HIDE DEF n, step
  <2> QED
    BY <1>0, <1>1, <1>2, Recursion
<1>4. f \in [0 .. n -> Acc] /\ f[0] = Fresh
  BY <1>3 DEF Goes
<1>5. \A i \in 1 .. n : next(f[i - 1], i) \in Acc => f[i] = next(f[i - 1], i)
  <2> SUFFICES ASSUME NEW i \in 1 .. n, next(f[i - 1], i) \in Acc
               PROVE  f[i] = next(f[i - 1], i)
    OBVIOUS
  <2> HIDE DEF next
  <2>1. i - 1 \in 0 .. n /\ f[i - 1] \in Acc
    BY <1>0, <1>4
  <2>2. step[<<f[i - 1], i>>] = next(f[i - 1], i)
    BY <2>1
  <2> QED
    BY <1>3, <2>2 DEF Goes
<1>6. ASSUME NEW i \in 1 .. n, Sound(f, olds, curs, exact, i - 1)
      PROVE  f[i] = next(f[i - 1], i) /\ Sound(f, olds, curs, exact, i)
  <2>1. next(f[i - 1], i) \in Acc
    BY <1>6, RowType
  <2>2. f[i] = next(f[i - 1], i)
    <3> HIDE DEF next
    <3> QED
      BY <1>5, <2>1
  <2> QED
    BY <1>6, <2>2, RowStep
<1>7. \A i \in 0 .. n : Sound(f, olds, curs, exact, i)
  <2> DEFINE P == {i \in 0 .. n : Sound(f, olds, curs, exact, i)}
  <2>1. 0 \in P
    BY <1>0, <1>4, FreshIsSound
  <2>2. ASSUME NEW i \in 1 .. n, i - 1 \in P
        PROVE  i \in P
    BY <1>0, <1>6, <2>2
  <2>3. \A i \in 1 .. n : i - 1 \in P => i \in P
    BY <2>2
  <2>4. \A i \in 0 .. n : i \in P
    <3> HIDE DEF P, n
    <3> QED
      BY <1>0, <2>1, <2>3, UpTo
  <2> QED
    BY <2>4
<1>8. \A i \in 1 .. n : f[i] = next(f[i - 1], i)
  <2> SUFFICES ASSUME NEW i \in 1 .. n
               PROVE  f[i] = next(f[i - 1], i)
    OBVIOUS
  <2>1. i - 1 \in 0 .. n
    BY <1>0
  <2>2. Sound(f, olds, curs, exact, i - 1)
    BY <1>7, <2>1
  <2> QED
    BY <1>6, <2>2
<1> QED
  BY <1>4, <1>7, <1>8 DEF Walks

\* The equation has one solution.
LEMMA WalkIsUnique ==
  ASSUME NEW slots, NEW olds, NEW curs, NEW exact, Len(olds) \in Nat,
         NEW f, Walks(f, slots, olds, curs, exact),
         NEW g, Evals(g, slots, olds, curs, exact)
  PROVE  \A i \in 0 .. Len(olds) : g[i] = f[i]
<1> DEFINE P == {i \in 0 .. Len(olds) : g[i] = f[i]}
<1>1. 0 \in P
  BY DEF Evals, Walks
<1>2. ASSUME NEW i \in 1 .. Len(olds), i - 1 \in P
      PROVE  i \in P
  <2>1. i \in 0 .. Len(olds) /\ i # 0
    OBVIOUS
  <2>2. g[i] = OnRegister(slots, g[i - 1], olds[i], curs, exact)
    BY <2>1 DEF Evals
  <2> QED
    BY <1>2, <2>1, <2>2 DEF Walks
<1>3. \A i \in 1 .. Len(olds) : i - 1 \in P => i \in P
  BY <1>2
<1>4. \A i \in 0 .. Len(olds) : i \in P
  <2> HIDE DEF P
  <2> QED
    BY <1>1, <1>3, UpTo
<1> QED
  BY <1>4

LEMMA EvalIsWalk ==
  ASSUME NEW slots \in Nat, NEW olds, NEW curs, RealRows(olds, curs), NEW exact \in BOOLEAN,
         2 * Len(olds) <= slots, olds # <<>>, DOMAIN curs # {}
  PROVE  \E f : /\ Walks(f, slots, olds, curs, exact)
                /\ \A i \in 0 .. Len(olds) : Sound(f, olds, curs, exact, i)
                /\ Eval(slots, olds, curs, exact) = f[Len(olds)]
<1>0. Len(olds) \in Nat
  BY DEF RealRows
<1>1. PICK f : /\ Walks(f, slots, olds, curs, exact)
               /\ \A i \in 0 .. Len(olds) : Sound(f, olds, curs, exact, i)
  BY WalkExists
<1> DEFINE acc == CHOOSE g : Evals(g, slots, olds, curs, exact)
<1>2. Eval(slots, olds, curs, exact) = acc[Len(olds)]
  BY DEF Eval, Evals
<1>3. Evals(f, slots, olds, curs, exact)
  <2>1. \A i \in 0 .. Len(olds) :
          f[i] = IF i = 0 THEN Fresh ELSE OnRegister(slots, f[i - 1], olds[i], curs, exact)
    <3>1. \A i \in 0 .. Len(olds) : i # 0 => i \in 1 .. Len(olds)
      BY <1>0
    <3> QED
      BY <1>1, <3>1 DEF Walks
  <2> QED
    BY <1>1, <2>1 DEF Walks, Evals
<1>4. Evals(acc, slots, olds, curs, exact)
  BY <1>3
<1>5. \A i \in 0 .. Len(olds) : acc[i] = f[i]
  <2> HIDE DEF acc
  <2> QED
    BY <1>0, <1>1, <1>4, WalkIsUnique
<1> QED
  BY <1>0, <1>1, <1>2, <1>5

-----------------------------------------------------------------------------
(* What a verdict says of the two states.                                  *)

IsPrune(p) == IsState(p.old) /\ IsState(p.cur) /\ p.exact \in BOOLEAN

\* A row with register k of a state: its bytes may be lost.
RowOf(row, s, k) ==
  k \in DOMAIN s /\ row.key = k /\ row.reg = s[k] /\ row.pfx \in {None, s[k].pfx}

\* Rows of a prune, each old register at most once: a part of it.
PartOf(p, olds, curs) ==
  /\ Len(olds) \in Nat
  /\ \A j \in 1 .. Len(olds) : RowOf(olds[j], p.old, olds[j].key)
  /\ \A i, j \in 1 .. Len(olds) : olds[i].key = olds[j].key => i = j
  /\ \A k \in DOMAIN curs : RowOf(curs[k], p.cur, k)

\* All old registers, and bytes with every row.
AllOf(p, olds, curs) ==
  /\ PartOf(p, olds, curs)
  /\ \A k \in DOMAIN p.old : \E j \in 1 .. Len(olds) : olds[j].key = k
  /\ \A j \in 1 .. Len(olds) : olds[j].pfx # None
  /\ \A k \in DOMAIN curs : curs[k].pfx # None

LEMMA PartIsReal ==
  ASSUME NEW p, IsPrune(p), NEW olds, NEW curs, PartOf(p, olds, curs)
  PROVE  RealRows(olds, curs)
<1>1. \A k \in DOMAIN p.old : Known(p.old[k])
  BY DEF IsPrune, IsState, Known
<1>2. \A k \in DOMAIN p.cur : Known(p.cur[k])
  BY DEF IsPrune, IsState, Known
<1>3. \A j \in 1 .. Len(olds) : IsRow(olds[j])
  BY <1>1 DEF PartOf, RowOf, IsRow
<1>4. \A k \in DOMAIN curs : IsRow(curs[k])
  BY <1>2 DEF PartOf, RowOf, IsRow
<1> QED
  BY <1>3, <1>4 DEF RealRows, PartOf

\* The new ids that Covered speaks of.
Uniques(olds) == [j \in 1 .. Len(olds) |-> FirstTmp + olds[j].key]

LEMMA IdPairsIsPairsWith ==
  ASSUME NEW k, NEW o, NEW r
  PROVE  IdPairs(k, o, r) = PairsWith(FirstTmp + k, o, r)
  BY DEF IdPairs, PairsWith

LEMMA UniquesAreNew ==
  ASSUME NEW p, IsPrune(p), NEW olds, NEW curs, PartOf(p, olds, curs),
         NEW N \in SUBSET (1 .. Len(olds))
  PROVE  NewIds(N, Uniques(olds), OldRegs(olds), CurRegs(olds, curs))
<1>1. \A j \in N : olds[j].key \in Nat /\ Uniques(olds)[j] = FirstTmp + olds[j].key
  BY DEF PartOf, RowOf, IsPrune, IsState, Uniques
<1>2. FirstTmp \in Nat
  BY SubsumeAssumption
<1>3. \A i, j \in N : Uniques(olds)[i] = Uniques(olds)[j] => i = j
  <2>1. \A i, j \in N : FirstTmp + olds[i].key = FirstTmp + olds[j].key
                          => olds[i].key = olds[j].key
    BY <1>1, <1>2
  <2> QED
    BY <1>1, <2>1 DEF PartOf
<1>4. \A j \in N : Uniques(olds)[j] \in Nat /\ Uniques(olds)[j] >= FirstTmp
  BY <1>1, <1>2
<1> QED
  BY <1>3, <1>4 DEF NewIds

\* The registers of Covered that are compared, and the pairs of their ids.
Values(p) == {k \in DOMAIN p.old : k \in DOMAIN p.cur => Matters(p.old[k], p.exact)}
AllIds(p) == {NoPair} \cup UNION {IdPairs(k, p.old[k], p.cur[k]) : k \in Values(p)}

LEMMA CoveredParts ==
  ASSUME NEW p
  PROVE  Covered(p) <=>
           /\ \A k \in DOMAIN p.old : k \in DOMAIN p.cur /\ p.old[k].type = p.cur[k].type
           /\ \A k \in Values(p) : RegCovered(p.old[k], p.cur[k])
           /\ OneToOne(AllIds(p))
  BY DEF Covered, Values, AllIds, NoPair

\* The pairs of ids of some rows, with those new ids, are among them.
LEMMA RenamingOfKeys ==
  ASSUME NEW p, NEW olds, NEW curs, PartOf(p, olds, curs),
         NEW N \in SUBSET (1 .. Len(olds)), \A j \in N : olds[j].key \in DOMAIN curs
  PROVE  Renaming(N, Uniques(olds), OldRegs(olds), CurRegs(olds, curs))
           = {NoPair} \cup UNION {IdPairs(k, p.old[k], p.cur[k]) : k \in {olds[j].key : j \in N}}
<1>1. ASSUME NEW j \in N
      PROVE  PairsWith(Uniques(olds)[j], OldRegs(olds)[j], CurRegs(olds, curs)[j])
               = IdPairs(olds[j].key, p.old[olds[j].key], p.cur[olds[j].key])
  <2>1. OldRegs(olds)[j] = p.old[olds[j].key] /\ CurRegs(olds, curs)[j] = p.cur[olds[j].key]
    BY <1>1 DEF PartOf, RowOf, OldRegs, CurRegs
  <2>2. Uniques(olds)[j] = FirstTmp + olds[j].key
    BY <1>1 DEF Uniques
  <2> QED
    BY <2>1, <2>2, IdPairsIsPairsWith
<1> QED
  BY <1>1 DEF Renaming

\* Registers that clash are not covered.
LEMMA RefutedIsUncovered ==
  ASSUME NEW p, IsPrune(p), NEW olds, NEW curs, PartOf(p, olds, curs),
         Refuted(olds, curs, p.exact)
  PROVE  ~Covered(p)
<1> SUFFICES ASSUME Covered(p) PROVE FALSE
  OBVIOUS
<1>1. /\ \A k \in DOMAIN p.old : k \in DOMAIN p.cur /\ p.old[k].type = p.cur[k].type
      /\ \A k \in Values(p) : RegCovered(p.old[k], p.cur[k])
      /\ OneToOne(AllIds(p))
  BY CoveredParts
<1>2. ASSUME NEW j \in 1 .. Len(olds), olds[j].key \in DOMAIN curs
      PROVE  /\ olds[j].key \in DOMAIN p.old /\ olds[j].key \in DOMAIN p.cur
             /\ olds[j].reg = p.old[olds[j].key]
             /\ curs[olds[j].key].reg = p.cur[olds[j].key]
  BY <1>2 DEF PartOf, RowOf
<1>3. CASE \E j \in 1 .. Len(olds) : olds[j].key \in DOMAIN curs /\ ~Matched(olds, curs, j)
  BY <1>1, <1>2, <1>3 DEF Matched
<1>4. CASE \E N, t : Clash(olds, curs, p.exact, N, t)
  <2>1. PICK N, t : Clash(olds, curs, p.exact, N, t)
    BY <1>4
  <2>2. \A j \in N : /\ j \in 1 .. Len(olds) /\ olds[j].key \in DOMAIN curs
                     /\ olds[j].key \in Values(p)
    <3> SUFFICES ASSUME NEW j \in N
                 PROVE  /\ j \in 1 .. Len(olds) /\ olds[j].key \in DOMAIN curs
                        /\ olds[j].key \in Values(p)
      OBVIOUS
    <3>1. /\ j \in 1 .. Len(olds) /\ olds[j].key \in DOMAIN curs
          /\ Looks(olds[j], curs[olds[j].key], p.exact)
      BY <2>1 DEF Clash, Matched
    <3>2. Matters(olds[j].reg, p.exact)
      BY <3>1 DEF Looks, Matters
    <3> QED
      BY <1>2, <3>1, <3>2 DEF Values
  <2>3. \A j \in N : RegCovered(olds[j].reg, curs[olds[j].key].reg)
    BY <1>1, <1>2, <2>2
  <2>4. ~OneToOne(Renaming(N, t, OldRegs(olds), CurRegs(olds, curs)))
    BY <2>1, <2>3 DEF Clash
  <2>5. N \in SUBSET (1 .. Len(olds))
    BY <2>2
  <2>6. Renaming(N, Uniques(olds), OldRegs(olds), CurRegs(olds, curs)) \subseteq AllIds(p)
    <3>1. Renaming(N, Uniques(olds), OldRegs(olds), CurRegs(olds, curs))
            = {NoPair} \cup UNION {IdPairs(k, p.old[k], p.cur[k]) : k \in {olds[j].key : j \in N}}
      BY <2>2, <2>5, RenamingOfKeys
    <3> QED
      BY <2>2, <3>1 DEF AllIds
  <2>7. OneToOne(Renaming(N, Uniques(olds), OldRegs(olds), CurRegs(olds, curs)))
    BY <1>1, <2>6, PartIsOneToOne
  <2>8. \A j \in N : Known(OldRegs(olds)[j]) /\ Known(CurRegs(olds, curs)[j])
    <3>1. RealRows(olds, curs)
      BY PartIsReal
    <3> QED
      BY <2>2, <3>1 DEF RealRows, IsRow, OldRegs, CurRegs
  <2>9. /\ NewIds(N, t, OldRegs(olds), CurRegs(olds, curs))
        /\ NewIds(N, Uniques(olds), OldRegs(olds), CurRegs(olds, curs))
    BY <2>1, <2>5, UniquesAreNew DEF Clash
  <2> QED
    BY <2>4, <2>7, <2>8, <2>9, AnyNewIdsDo
<1> QED
  BY <1>3, <1>4 DEF Refuted

\* All registers that agree are covered.
LEMMA AgreedIsCovered ==
  ASSUME NEW p, IsPrune(p), NEW olds, NEW curs, AllOf(p, olds, curs),
         NEW f, Agreed(f, olds, curs, p.exact, Len(olds))
  PROVE  Covered(p)
<1> DEFINE N == LookedAt(olds, curs, p.exact, Len(olds))
           o == OldRegs(olds)
           r == CurRegs(olds, curs)
<1>0. PartOf(p, olds, curs)
  BY DEF AllOf
<1>1. /\ GoodMap(f[Len(olds)].map)
      /\ \A j \in 1 .. Len(olds) : Matched(olds, curs, j)
      /\ \A j \in N : RegCovered(olds[j].reg, curs[olds[j].key].reg)
      /\ Pairs(f[Len(olds)].map) = Renaming(N, Tmps(f, olds), o, r)
      /\ NewIds(N, Tmps(f, olds), o, r)
  BY DEF Agreed
<1>2. ASSUME NEW j \in 1 .. Len(olds)
      PROVE  /\ olds[j].key \in DOMAIN p.old /\ olds[j].key \in DOMAIN p.cur
             /\ olds[j].reg = p.old[olds[j].key]
             /\ olds[j].key \in DOMAIN curs
             /\ curs[olds[j].key].reg = p.cur[olds[j].key]
             /\ olds[j].reg.type = curs[olds[j].key].reg.type
  BY <1>0, <1>1, <1>2 DEF PartOf, RowOf, Matched
<1>3. \A k \in DOMAIN p.old : k \in DOMAIN p.cur /\ p.old[k].type = p.cur[k].type
  <2> SUFFICES ASSUME NEW k \in DOMAIN p.old
               PROVE  k \in DOMAIN p.cur /\ p.old[k].type = p.cur[k].type
    OBVIOUS
  <2>1. PICK j \in 1 .. Len(olds) : olds[j].key = k
    BY DEF AllOf
  <2> QED
    BY <1>2, <2>1
<1>4. \A j \in 1 .. Len(olds) : Matters(olds[j].reg, p.exact) <=> j \in N
  <2> SUFFICES ASSUME NEW j \in 1 .. Len(olds)
               PROVE  Matters(olds[j].reg, p.exact)
                        <=> Looks(olds[j], curs[olds[j].key], p.exact)
    BY DEF LookedAt
  <2>1. olds[j].pfx # None /\ curs[olds[j].key].pfx # None
    BY <1>2 DEF AllOf
  <2> QED
    BY <2>1 DEF Looks, Matters
<1>5. Values(p) = {olds[j].key : j \in N}
  <2>1. N \subseteq 1 .. Len(olds)
    BY DEF LookedAt
  <2>2. ASSUME NEW k \in Values(p)
        PROVE  \E j \in N : olds[j].key = k
    <3>1. k \in DOMAIN p.old /\ Matters(p.old[k], p.exact)
      BY <1>3 DEF Values
    <3>2. PICK j \in 1 .. Len(olds) : olds[j].key = k
      BY <3>1 DEF AllOf
    <3>3. Matters(olds[j].reg, p.exact)
      BY <1>2, <3>1, <3>2
    <3> HIDE DEF N
    <3> QED
      BY <1>4, <3>2, <3>3
  <2>3. ASSUME NEW j \in N
        PROVE  olds[j].key \in Values(p)
    <3> HIDE DEF N
    <3>1. j \in 1 .. Len(olds) /\ Matters(olds[j].reg, p.exact)
      BY <1>4, <2>1
    <3> QED
      BY <1>2, <3>1 DEF Values
  <2> HIDE DEF N
  <2> QED
    BY <2>2, <2>3
<1>6. N \in SUBSET (1 .. Len(olds))
  BY DEF LookedAt
<1> HIDE DEF N
<1>7. \A k \in Values(p) : RegCovered(p.old[k], p.cur[k])
  BY <1>1, <1>2, <1>5, <1>6
<1>8. OneToOne(Renaming(N, Tmps(f, olds), o, r))
  BY <1>1 DEF GoodMap
<1>9. \A j \in N : Known(o[j]) /\ Known(r[j])
  <2>1. RealRows(olds, curs)
    BY <1>0, PartIsReal
  <2> QED
    BY <1>2, <1>6, <2>1 DEF RealRows, IsRow, OldRegs, CurRegs
<1>10. NewIds(N, Uniques(olds), o, r)
  BY <1>0, <1>6, UniquesAreNew
<1>11. OneToOne(Renaming(N, Uniques(olds), o, r))
  <2> HIDE DEF o, r
  <2> QED
    BY <1>1, <1>8, <1>9, <1>10, AnyNewIdsDo
<1>12. Renaming(N, Uniques(olds), o, r) = AllIds(p)
  <2>1. \A j \in N : olds[j].key \in DOMAIN curs
    BY <1>2, <1>6
  <2>2. Renaming(N, Uniques(olds), o, r)
          = {NoPair} \cup UNION {IdPairs(k, p.old[k], p.cur[k]) : k \in {olds[j].key : j \in N}}
    BY <1>0, <1>6, <2>1, RenamingOfKeys
  <2> QED
    BY <1>5, <2>2 DEF AllIds
<1> QED
  BY <1>3, <1>7, <1>11, <1>12, CoveredParts

\* A verdict, from any part of a prune and with slots enough: one that breaks is
\* of states that are not covered, and one that agrees on all of it of states
\* that are.  A register at a time, in whatever order, decides what Covered says
\* of all registers and of one renaming of their ids.
THEOREM VerdictsAreReal ==
  ASSUME NEW p, IsPrune(p), NEW olds, NEW curs, PartOf(p, olds, curs),
         NEW slots \in Nat, 2 * Len(olds) <= slots
  PROVE  /\ Eval(slots, olds, curs, p.exact).verdict = "break" => ~Covered(p)
         /\ Eval(slots, olds, curs, p.exact).verdict = "agree" /\ AllOf(p, olds, curs) =>
              Covered(p)
<1>1. CASE olds = <<>> \/ DOMAIN curs = {}
  <2>1. Eval(slots, olds, curs, p.exact) = [Fresh EXCEPT !.verdict = "unmodelled"]
    BY <1>1 DEF Eval
  <2>2. Eval(slots, olds, curs, p.exact).verdict = "unmodelled"
    BY <2>1 DEF Fresh
  <2> QED
    BY <2>2
<1>2. CASE olds # <<>> /\ DOMAIN curs # {}
  <2>1. RealRows(olds, curs) /\ p.exact \in BOOLEAN /\ Len(olds) \in Nat
    BY PartIsReal DEF IsPrune, PartOf
  <2>2. PICK f : /\ Walks(f, slots, olds, curs, p.exact)
                 /\ \A i \in 0 .. Len(olds) : Sound(f, olds, curs, p.exact, i)
                 /\ Eval(slots, olds, curs, p.exact) = f[Len(olds)]
    BY <1>2, <2>1, EvalIsWalk
  <2>3. Sound(f, olds, curs, p.exact, Len(olds))
    BY <2>1, <2>2
  <2>4. Eval(slots, olds, curs, p.exact).verdict = "break" => ~Covered(p)
    BY <2>2, <2>3, RefutedIsUncovered DEF Sound
  <2>5. Eval(slots, olds, curs, p.exact).verdict = "agree" /\ AllOf(p, olds, curs) => Covered(p)
    BY <2>2, <2>3, AgreedIsCovered DEF Sound
  <2> QED
    BY <2>4, <2>5
<1> QED
  BY <1>1, <1>2

-----------------------------------------------------------------------------
(* How many slots there are makes no difference, if there are enough.      *)

LEMMA SameCheck ==
  ASSUME NEW s1 \in Nat, NEW s2 \in Nat, NEW map, Len(map) \in Nat,
         Len(map) < s1, Len(map) < s2, NEW old, NEW cur
  PROVE  CheckIds(s1, map, old, cur) = CheckIds(s2, map, old, cur)
<1>1. ~(Len(map) >= s1) /\ ~(Len(map) >= s2)
  OBVIOUS
<1> QED
  BY <1>1 DEF CheckIds

LEMMA CheckGrows ==
  ASSUME NEW s \in Nat, NEW map \in Seq(Entry), NEW old \in AnyId, NEW cur \in AnyId
  PROVE  /\ CheckIds(s, map, old, cur).map \in Seq(Entry)
         /\ Len(CheckIds(s, map, old, cur).map) <= Len(map) + 1
<1>1. PICK r : r = CheckIds(s, map, old, cur)
  OBVIOUS
<1>2. r.map = map \/ r.map = Append(map, Mapped(old, cur))
  BY <1>1 DEF CheckIds
<1>3. Mapped(old, cur) \in Entry
  BY DEF Mapped, Entry
<1>4. r.map \in Seq(Entry) /\ Len(r.map) <= Len(map) + 1
  BY <1>2, <1>3
<1> QED
  BY <1>1, <1>4

LEMMA SameScalarCheck ==
  ASSUME NEW s1 \in Nat, NEW s2 \in Nat, NEW map \in Seq(Entry),
         Len(map) + 1 < s1, Len(map) + 1 < s2, NEW old \in AnyId, NEW cur \in AnyId
  PROVE  CheckScalarIds(s1, map, old, cur) = CheckScalarIds(s2, map, old, cur)
<1>1. PICK a : a = CheckIds(s1, map, old, cur)
  OBVIOUS
<1>2. Len(map) \in Nat /\ Len(map) < s1 /\ Len(map) < s2
  OBVIOUS
<1>3. a = CheckIds(s2, map, old, cur)
  BY <1>1, <1>2, SameCheck
<1>4. Len(a.map) \in Nat /\ Len(a.map) < s1 /\ Len(a.map) < s2
  <2>1. a.map \in Seq(Entry) /\ Len(a.map) <= Len(map) + 1
    BY <1>1, CheckGrows
  <2> QED
    BY <1>2, <2>1
<1>5. CheckIds(s1, a.map, BaseOf(old), BaseOf(cur)) = CheckIds(s2, a.map, BaseOf(old), BaseOf(cur))
  BY <1>4, SameCheck
<1> QED
  BY <1>1, <1>3, <1>5 DEF CheckScalarIds

LEMMA SamePtrCheck ==
  ASSUME NEW s1 \in Nat, NEW s2 \in Nat, NEW map \in Seq(Entry),
         Len(map) + 1 < s1, Len(map) + 1 < s2, NEW o, NEW r, Known(o), Known(r)
  PROVE  PtrIds(s1, map, o, r) = PtrIds(s2, map, o, r)
<1>0. o.id \in AnyId /\ r.id \in AnyId
  BY RegisterFacts, IdIsAny
<1>1. PICK a : a = CheckIds(s1, map, o.id, r.id)
  OBVIOUS
<1>2. Len(map) \in Nat /\ Len(map) < s1 /\ Len(map) < s2
  OBVIOUS
<1>3. a = CheckIds(s2, map, o.id, r.id)
  BY <1>1, <1>2, SameCheck
<1>4. Len(a.map) \in Nat /\ Len(a.map) < s1 /\ Len(a.map) < s2
  <2>1. PICK u, v \in AnyId : u = o.id /\ v = r.id
    BY <1>0
  <2>2. a.map \in Seq(Entry) /\ Len(a.map) <= Len(map) + 1
    BY <1>1, <2>1, CheckGrows
  <2> QED
    BY <1>2, <2>2
<1>5. CheckIds(s1, a.map, o.pid, r.pid) = CheckIds(s2, a.map, o.pid, r.pid)
  BY <1>4, SameCheck
<1> QED
  BY <1>1, <1>3, <1>5 DEF PtrIds

LEMMA SameRegister ==
  ASSUME NEW s1, NEW s2, NEW acc, Ready(s1, acc), Ready(s2, acc),
         NEW old, NEW curs, NEW cur, NEW exact, Rows(old, curs, cur, exact)
  PROVE  OnRegister(s1, acc, old, curs, exact) = OnRegister(s2, acc, old, curs, exact)
<1>0. /\ s1 \in Nat /\ s2 \in Nat /\ acc.map \in Seq(Entry) /\ acc.tmp \in Nat
      /\ Len(acc.map) + 1 < s1 /\ Len(acc.map) + 1 < s2
      /\ Known(old.reg) /\ Known(cur.reg) /\ cur = curs[old.key]
  BY AccFacts DEF Ready, Rows, IsRow
<1>1. PICK map : map = acc.map
  OBVIOUS
<1>2. OnScalar(s1, acc, old.reg, cur.reg, exact) = OnScalar(s2, acc, old.reg, cur.reg, exact)
  <2>1. PICK o, r : o = old.reg /\ r = cur.reg
    OBVIOUS
  <2>2. PICK id : id = IF o.id # NoId /\ r.id = NoId THEN [base |-> acc.tmp, add |-> "none"]
                       ELSE r.id
    OBVIOUS
  <2>3. o.id \in AnyId /\ id \in AnyId
    <3>1. o.id \in AnyId /\ r.id \in AnyId
      BY <1>0, <2>1, RegisterFacts, IdIsAny
    <3>2. [base |-> acc.tmp, add |-> "none"] \in AnyId
      BY <1>0 DEF AnyId
    <3> QED
      BY <2>2, <3>1, <3>2
  <2>4. CheckScalarIds(s1, map, o.id, id) = CheckScalarIds(s2, map, o.id, id)
    <3>1. PICK u \in AnyId : u = o.id
      BY <2>3
    <3>2. map \in Seq(Entry) /\ Len(map) + 1 < s1 /\ Len(map) + 1 < s2
      BY <1>0, <1>1
    <3>3. CheckScalarIds(s1, map, u, id) = CheckScalarIds(s2, map, u, id)
      BY <1>0, <2>3, <3>2, SameScalarCheck
    <3> QED
      BY <3>1, <3>3
  <2> QED
    BY <1>1, <2>1, <2>2, <2>4 DEF OnScalar
<1>3. OnPointer(s1, acc, old, cur) = OnPointer(s2, acc, old, cur)
  <2>1. CASE old.pfx = None \/ cur.pfx = None
    BY <2>1 DEF OnPointer
  <2>2. CASE old.pfx # None /\ cur.pfx # None
    <3>1. old.pfx = old.reg.pfx /\ cur.pfx = cur.reg.pfx
      BY <2>2 DEF Rows, IsRow
    <3>2. PICK o, r : /\ o = [old.reg EXCEPT !.pfx = old.pfx]
                      /\ r = [cur.reg EXCEPT !.pfx = cur.pfx]
      OBVIOUS
    <3>3. o = old.reg /\ r = cur.reg
      BY <1>0, <3>1, <3>2 DEF Known, Register
    <3>4. PtrIds(s1, map, o, r) = PtrIds(s2, map, o, r)
      <4>1. map \in Seq(Entry) /\ Len(map) + 1 < s1 /\ Len(map) + 1 < s2
        BY <1>0, <1>1
      <4>2. Known(o) /\ Known(r)
        BY <1>0, <3>3
      <4> QED
        BY <1>0, <4>1, <4>2, SamePtrCheck
    <3> QED
      BY <1>1, <3>2, <3>4 DEF OnPointer
  <2> QED
    BY <2>1, <2>2
<1> QED
  BY <1>0, <1>2, <1>3 DEF OnRegister

LEMMA SameEval ==
  ASSUME NEW s1 \in Nat, NEW s2 \in Nat, NEW olds, NEW curs, RealRows(olds, curs),
         NEW exact \in BOOLEAN, 2 * Len(olds) <= s1, 2 * Len(olds) <= s2
  PROVE  Eval(s1, olds, curs, exact) = Eval(s2, olds, curs, exact)
<1>1. CASE olds = <<>> \/ DOMAIN curs = {}
  BY <1>1 DEF Eval
<1>2. CASE olds # <<>> /\ DOMAIN curs # {}
  <2>0. Len(olds) \in Nat
    BY DEF RealRows
  <2>1. PICK f : /\ Walks(f, s1, olds, curs, exact)
                 /\ \A i \in 0 .. Len(olds) : Sound(f, olds, curs, exact, i)
                 /\ Eval(s1, olds, curs, exact) = f[Len(olds)]
    BY <1>2, EvalIsWalk
  <2>2. ASSUME NEW i \in 1 .. Len(olds)
        PROVE  f[i] = OnRegister(s2, f[i - 1], olds[i], curs, exact)
    <3>1. Sound(f, olds, curs, exact, i - 1)
      BY <2>0, <2>1
    <3>2. f[i] = OnRegister(s1, f[i - 1], olds[i], curs, exact)
      BY <2>1 DEF Walks
    <3>3. CASE f[i - 1].verdict # "agree" \/ olds[i].key \notin DOMAIN curs
      BY <3>2, <3>3 DEF OnRegister
    <3>4. CASE f[i - 1].verdict = "agree" /\ olds[i].key \in DOMAIN curs
      <4>1. /\ Ready(s1, f[i - 1]) /\ Ready(s2, f[i - 1])
            /\ Rows(olds[i], curs, curs[olds[i].key], exact)
        BY <3>1, <3>4, RowIsReady
      <4>2. OnRegister(s1, f[i - 1], olds[i], curs, exact)
              = OnRegister(s2, f[i - 1], olds[i], curs, exact)
        BY <4>1, SameRegister
      <4> QED
        BY <3>2, <4>2
    <3> QED
      BY <3>3, <3>4
  <2>3. Walks(f, s2, olds, curs, exact)
    BY <2>1, <2>2 DEF Walks
  <2>4. PICK g : /\ Walks(g, s2, olds, curs, exact)
                 /\ Eval(s2, olds, curs, exact) = g[Len(olds)]
    BY <1>2, EvalIsWalk
  <2>5. \A i \in 0 .. Len(olds) : g[i] = f[i]
    <3> DEFINE P == {i \in 0 .. Len(olds) : g[i] = f[i]}
    <3>1. 0 \in P
      BY <2>0, <2>3, <2>4 DEF Walks
    <3>2. ASSUME NEW i \in 1 .. Len(olds), i - 1 \in P
          PROVE  i \in P
      <4>1. i \in 0 .. Len(olds) /\ g[i - 1] = f[i - 1]
        BY <2>0, <3>2
      <4> QED
        BY <2>3, <2>4, <4>1 DEF Walks
    <3>3. \A i \in 1 .. Len(olds) : i - 1 \in P => i \in P
      BY <3>2
    <3>4. \A i \in 0 .. Len(olds) : i \in P
      <4> HIDE DEF P
      <4> QED
        BY <2>0, <3>1, <3>3, UpTo
    <3> QED
      BY <3>4
  <2> QED
    BY <2>0, <2>1, <2>4, <2>5
<1> QED
  BY <1>1, <1>2

\* What Eval returns.
LEMMA EvalType ==
  ASSUME NEW slots \in Nat, NEW olds, NEW curs, RealRows(olds, curs),
         NEW exact \in BOOLEAN, 2 * Len(olds) <= slots
  PROVE  Eval(slots, olds, curs, exact) \in Acc
<1>1. CASE olds = <<>> \/ DOMAIN curs = {}
  <2>1. Eval(slots, olds, curs, exact) = [Fresh EXCEPT !.verdict = "unmodelled"]
    BY <1>1 DEF Eval
  <2>2. Fresh \in Acc
    <3>1. PICK f : f = [i \in {0} |-> Fresh]
      OBVIOUS
    <3>2. f[0] = Fresh
      BY <3>1
    <3> QED
      BY <3>2, FreshIsSound
  <2> QED
    BY <2>1, <2>2 DEF Acc, Verdict
<1>2. CASE olds # <<>> /\ DOMAIN curs # {}
  <2>1. Len(olds) \in Nat
    BY DEF RealRows
  <2>2. PICK f : /\ \A i \in 0 .. Len(olds) : Sound(f, olds, curs, exact, i)
                 /\ Eval(slots, olds, curs, exact) = f[Len(olds)]
    BY <1>2, EvalIsWalk
  <2> QED
    BY <2>1, <2>2 DEF Sound
<1> QED
  BY <1>1, <1>2
=============================================================================
