--------------------------- MODULE FuzzLoopProofs ---------------------------
(***************************************************************************)
(* Proofs about FuzzLoop: that what one program leaves behind (the log     *)
(* buffer, the output map, the store sites, the table of addresses, the    *)
(* counters) is never taken for another's, for every set of programs,      *)
(* every table and window, and however long the loop runs.                 *)
(*                                                                         *)
(* Two functions of the model are recursive: the insertion of a trace, and *)
(* the sum over the corpus.  Induction along a sequence is lemma UpTo,     *)
(* from the smallest counterexample.                                       *)
(***************************************************************************)
EXTENDS FuzzLoop, FiniteSetTheorems, SequenceTheorems, TLAPS

(***************************************************************************)
(* Numbers, and functions defined by recursion along 0 .. n.               *)
(***************************************************************************)

\* The smallest of a set of numbers is one of them, and is smallest.
LEMMA MinOfNats ==
  ASSUME NEW I \in SUBSET Nat, I # {}
  PROVE  Min(I) \in I /\ \A i \in I : Min(I) <= i
<1> DEFINE Below == {1 .. i : i \in I}
<1>1. Below \subseteq FiniteSubsetsOf(Nat) /\ Below # {}
  <2>1. \A i \in I : 1 .. i \subseteq Nat /\ IsFiniteSet(1 .. i)
    BY FS_Interval
  <2> QED
    BY <2>1 DEF FiniteSubsetsOf
<1>2. PICK B \in Below : \A C \in Below : <<C, B>> \notin StrictSubsetOrdering(Nat)
  <2> HIDE DEF Below
  <2>1. IsWellFoundedOn(StrictSubsetOrdering(Nat), FiniteSubsetsOf(Nat))
    BY FS_StrictSubsetOrderingWellFounded
  <2> QED
    BY <1>1, <2>1, WFMin
<1>3. PICK m \in I : B = 1 .. m
  OBVIOUS
<1>4. \A i \in I : m <= i
  <2> SUFFICES ASSUME NEW i \in I, i < m
               PROVE  FALSE
    OBVIOUS
  <2>1. 1 .. i \subseteq B /\ m \in B /\ m \notin 1 .. i
    BY <1>3
  <2>2. 1 .. i \in SUBSET Nat /\ B \in SUBSET Nat
    BY <1>3
  <2> QED
    BY <1>2, <2>1, <2>2 DEF StrictSubsetOrdering
<1> QED
  BY <1>4 DEF Min

\* Induction along 0 .. n, for a property given as the set that has it.
LEMMA UpTo ==
  ASSUME NEW n \in Nat, NEW P, 0 \in P,
         \A i \in 1 .. n : i - 1 \in P => i \in P
  PROVE  \A i \in 0 .. n : i \in P
<1> DEFINE Bad == {i \in 0 .. n : i \notin P}
<1> SUFFICES ASSUME Bad # {}
             PROVE  FALSE
  OBVIOUS
<1>1. Bad \in SUBSET Nat
  OBVIOUS
<1>2. PICK m \in Bad : \A i \in Bad : m <= i
  BY <1>1, MinOfNats
<1>3. m \in 1 .. n
  BY <1>2
<1>4. m - 1 \in 0 .. n /\ m - 1 \notin Bad
  BY <1>2, <1>3
<1> QED
  BY <1>2, <1>3, <1>4

\* The functions that take a value and a place to the next value, and the
\* sequence of values a recursion along 0 .. n takes from base.
Steps(T, n) == [T \X (1 .. n) -> T]
Goes(f, T, n, base, step) ==
  /\ f \in [0 .. n -> T] /\ f[0] = base
  /\ \A i \in 1 .. n : f[i] = step[<<f[i - 1], i>>]

\* A recursion along 0 .. n has a solution.
LEMMA Recursion ==
  ASSUME NEW T, NEW n \in Nat, NEW base \in T, NEW step \in Steps(T, n)
  PROVE  \E f : Goes(f, T, n, base, step)
<1> DEFINE Solves(f, k) == f[0] = base /\ \A i \in 1 .. k : f[i] = step[<<f[i - 1], i>>]
           P == {k \in 0 .. n : \E f \in [0 .. k -> T] : Solves(f, k)}
<1>1. 0 \in P
  <2> DEFINE only == [i \in 0 .. 0 |-> base]
  <2>1. only \in [0 .. 0 -> T]
    OBVIOUS
  <2>2. Solves(only, 0)
    OBVIOUS
  <2> HIDE DEF only, Solves
  <2> QED
    BY <2>1, <2>2
<1>2. ASSUME NEW k \in 1 .. n, k - 1 \in P
      PROVE  k \in P
  <2>1. PICK f \in [0 .. k - 1 -> T] : Solves(f, k - 1)
    BY <1>2
  <2> DEFINE g == [i \in 0 .. k |-> IF i = k THEN step[<<f[k - 1], k>>] ELSE f[i]]
  <2>2. f[k - 1] \in T /\ step[<<f[k - 1], k>>] \in T
    BY <1>2 DEF Steps
  <2>3. g \in [0 .. k -> T]
    <3>1. \A i \in 0 .. k : i # k => f[i] \in T
      OBVIOUS
    <3> QED
      BY <2>2, <3>1
  <2>4. \A i \in 0 .. k - 1 : g[i] = f[i]
    OBVIOUS
  <2>5. g[k] = step[<<g[k - 1], k>>]
    <3>1. g[k] = step[<<f[k - 1], k>>]
      OBVIOUS
    <3>2. g[k - 1] = f[k - 1]
      BY <2>4
    <3> HIDE DEF g
    <3> QED
      BY <3>1, <3>2
  <2>6. ASSUME NEW i \in 1 .. k
        PROVE  g[i] = step[<<g[i - 1], i>>]
    <3>1. CASE i = k
      BY <2>5, <3>1
    <3>2. CASE i # k
      <4>1. i \in 1 .. k - 1 /\ i - 1 \in 0 .. k - 1 /\ i \in 0 .. k - 1
        BY <3>2
      <4> HIDE DEF g
      <4> QED
        BY <2>1, <2>4, <4>1
    <3> QED
      BY <3>1, <3>2
  <2>7. g[0] = base
    BY <2>1, <2>4
  <2> HIDE DEF g
  <2> QED
    BY <2>3, <2>6, <2>7
<1>3. n \in P
  <2> HIDE DEF P
  <2>1. \A k \in 1 .. n : k - 1 \in P => k \in P
    BY <1>2
  <2> QED
    BY <1>1, <2>1, UpTo
<1> QED
  BY <1>3 DEF Goes

\* A sampled store more than SampleEvery times fits, when the count it is
\* sampled from reaches a multiple.
LEMMA OneMore ==
  ASSUME NEW s \in Nat, NEW u \in Nat, NEW S \in Nat \ {0},
         s * S <= u, (u + 1) % S = 0
  PROVE  (s + 1) * S <= u + 1
<1> DEFINE q == (u + 1) \div S
<1>1. q \in Nat /\ u + 1 = S * q
  OBVIOUS
<1> HIDE DEF q
<1>2. s < q
  <2> SUFFICES ASSUME q <= s
               PROVE  FALSE
    BY <1>1
  <2>1. S * q <= S * s
    BY <1>1
  <2> QED
    BY <1>1, <2>1
<1>3. s + 1 <= q
  BY <1>1, <1>2
<1>4. S * (s + 1) <= S * q
  BY <1>1, <1>3
<1> QED
  BY <1>1, <1>4

(***************************************************************************)
(* The table of seen addresses.                                            *)
(***************************************************************************)

Table == [Slot -> Address \cup {None}]

Taken(table) == {s \in Slot : table[s] # None}

\* An address of a slot is there once, and behind slots of its window that were
\* taken when it came: a later search for it finds it.
Found(table) ==
  /\ \A s, t \in Slot : table[s] = table[t] /\ table[s] # None => s = t
  /\ \A t \in Slot : table[t] # None =>
       \E j \in 1 .. Window :
         /\ Probe(table[t])[j] = t
         /\ \A i \in 1 .. j - 1 : table[Probe(table[t])[i]] # None

\* An address that needs no slot any more, or finds none.
Settled(table, a) ==
  \/ \E s \in Slot : table[s] = a
  \/ \A i \in 1 .. Window : table[Probe(a)[i]] # None

\* A probed slot is a slot.
LEMMA ProbeType ==
  ASSUME NEW a \in Address
  PROVE  Probe(a) \in [1 .. Window -> Slot]
<1>1. Home(a) \in Nat /\ Slots \in Nat \ {0} /\ Window \in Nat
  BY FuzzAssumption DEF Slot
<1>2. \A i \in 1 .. Window : (Home(a) + i - 1) % Slots \in Slot
  BY <1>1 DEF Slot
<1> QED
  BY <1>2 DEF Probe

\* kseen_add finds the first slot that fits, and nothing only when none does.
LEMMA SlotForFirst ==
  ASSUME NEW table \in Table, NEW a \in Address
  PROVE  \/ /\ SlotFor(table, a) = None
            /\ \A i \in 1 .. Window : table[Probe(a)[i]] \notin {None, a}
         \/ \E m \in 1 .. Window :
              /\ SlotFor(table, a) = Probe(a)[m]
              /\ table[Probe(a)[m]] \in {None, a}
              /\ \A i \in 1 .. m - 1 : table[Probe(a)[i]] \notin {None, a}
<1> DEFINE fit == {i \in 1 .. Window : table[Probe(a)[i]] \in {None, a}}
<1>1. SlotFor(table, a) = IF fit = {} THEN None ELSE Probe(a)[Min(fit)]
  BY DEF SlotFor
<1>2. CASE fit = {}
  BY <1>1, <1>2
<1>3. CASE fit # {}
  <2>1. Window \in Nat
    BY FuzzAssumption
  <2>2. fit \in SUBSET Nat
    BY <2>1
  <2>3. PICK m : m = Min(fit)
    OBVIOUS
  <2>4. m \in fit /\ \A i \in fit : m <= i
    BY <1>3, <2>2, <2>3, MinOfNats
  <2>5. \A i \in 1 .. m - 1 : i \in 1 .. Window /\ i \notin fit
    BY <2>1, <2>4
  <2>6. SlotFor(table, a) = Probe(a)[m]
    BY <1>1, <1>3, <2>3
  <2> QED
    BY <2>4, <2>5, <2>6
<1> QED
  BY <1>2, <1>3

Acc == [table : Table, new : Nat]

\* What kseen_add does with one address: the table gains it in a free slot and
\* the count goes up by one, or both stay; then the address is settled.
LEMMA AddOne ==
  ASSUME NEW acc \in Acc, NEW a \in Address
  PROVE  \/ /\ Add(acc, a) = acc
            /\ Settled(acc.table, a)
         \/ \E m \in 1 .. Window :
              LET s == Probe(a)[m]
              IN  /\ s \in Slot /\ acc.table[s] = None
                  /\ \A i \in 1 .. m - 1 : acc.table[Probe(a)[i]] \notin {None, a}
                  /\ Add(acc, a) = [table |-> [acc.table EXCEPT ![s] = a],
                                    new   |-> acc.new + 1]
<1> DEFINE table == acc.table
           s     == SlotFor(table, a)
<1>1. table \in Table
  BY DEF Acc
<1>2. Add(acc, a) = IF s # None /\ table[s] = None
                    THEN [table |-> [table EXCEPT ![s] = a], new |-> acc.new + 1]
                    ELSE acc
  BY DEF Add
<1>3. CASE s = None /\ \A i \in 1 .. Window : table[Probe(a)[i]] \notin {None, a}
  <2>1. Add(acc, a) = acc
    BY <1>2, <1>3
  <2>2. Settled(table, a)
    BY <1>3 DEF Settled
  <2> QED
    BY <2>1, <2>2
<1>4. ASSUME NEW m \in 1 .. Window, s = Probe(a)[m],
             table[Probe(a)[m]] \in {None, a},
             \A i \in 1 .. m - 1 : table[Probe(a)[i]] \notin {None, a}
      PROVE  \/ Add(acc, a) = acc /\ Settled(table, a)
             \/ /\ Probe(a)[m] \in Slot /\ table[Probe(a)[m]] = None
                /\ Add(acc, a) = [table |-> [table EXCEPT ![Probe(a)[m]] = a],
                                  new   |-> acc.new + 1]
  <2>1. Probe(a)[m] \in Slot
    BY ProbeType
  <2>2. s # None
    BY <1>4, <2>1, FuzzAssumption
  <2>3. CASE table[s] = None
    <3>1. Add(acc, a) = [table |-> [table EXCEPT ![s] = a], new |-> acc.new + 1]
      BY <1>2, <2>2, <2>3
    <3> HIDE DEF s, table
    <3> QED
      BY <1>4, <2>1, <2>3, <3>1
  <2>4. CASE table[s] # None
    <3>1. Add(acc, a) = acc
      BY <1>2, <2>4
    <3>2. table[Probe(a)[m]] = a
      BY <1>4, <2>4
    <3> QED
      BY <2>1, <3>1, <3>2 DEF Settled
  <2> QED
    BY <2>3, <2>4
<1> HIDE DEF s
<1>5. \/ s = None /\ \A i \in 1 .. Window : table[Probe(a)[i]] \notin {None, a}
      \/ \E m \in 1 .. Window :
           /\ s = Probe(a)[m]
           /\ table[Probe(a)[m]] \in {None, a}
           /\ \A i \in 1 .. m - 1 : table[Probe(a)[i]] \notin {None, a}
  BY <1>1, SlotForFirst DEF s
<1>6. CASE s = None /\ \A i \in 1 .. Window : table[Probe(a)[i]] \notin {None, a}
  BY <1>3, <1>6
<1>7. CASE \E m \in 1 .. Window :
             /\ s = Probe(a)[m]
             /\ table[Probe(a)[m]] \in {None, a}
             /\ \A i \in 1 .. m - 1 : table[Probe(a)[i]] \notin {None, a}
  <2>1. PICK m \in 1 .. Window :
             /\ s = Probe(a)[m]
             /\ table[Probe(a)[m]] \in {None, a}
             /\ \A i \in 1 .. m - 1 : table[Probe(a)[i]] \notin {None, a}
    BY <1>7
  <2> QED
    BY <1>4, <2>1
<1> QED
  BY <1>5, <1>6, <1>7

\* The table after some addresses, and what was counted since table from.
Grown(from, acc) ==
  /\ acc \in Acc
  /\ Found(acc.table)
  /\ Cardinality(Taken(acc.table)) = Cardinality(Taken(from)) + acc.new
  /\ \A s \in Slot : from[s] # None => acc.table[s] = from[s]

\* There are as many slots as Slots says.
LEMMA TakenIsFinite ==
  ASSUME NEW table
  PROVE  IsFiniteSet(Taken(table)) /\ Cardinality(Taken(table)) \in 0 .. Slots
<1>1. IsFiniteSet(Slot) /\ Cardinality(Slot) = Slots
  <2>1. Slots \in Nat
    BY FuzzAssumption
  <2> QED
    BY <2>1, FS_Interval DEF Slot
<1>2. Taken(table) \subseteq Slot
  BY DEF Taken
<1>3. IsFiniteSet(Taken(table)) /\ Cardinality(Taken(table)) <= Cardinality(Slot)
  BY <1>1, <1>2, FS_Subset
<1>4. Cardinality(Taken(table)) \in Nat
  BY <1>3, FS_CardinalityType
<1> QED
  BY <1>1, <1>3, <1>4

\* An address put in a free slot, the first of its window: every address is
\* still found, and stays settled.
LEMMA PutInFreeSlot ==
  ASSUME NEW table \in Table, Found(table), NEW a \in Address,
         NEW m \in 1 .. Window, NEW s \in Slot, s = Probe(a)[m],
         table[s] = None,
         \A i \in 1 .. m - 1 : table[Probe(a)[i]] \notin {None, a},
         NEW after, after = [table EXCEPT ![s] = a]
  PROVE  /\ after \in Table
         /\ Found(after)
         /\ Taken(after) = Taken(table) \cup {s}
         /\ \A b \in Address : Settled(table, b) => Settled(after, b)
         /\ Settled(after, a)
<1>1. /\ after \in Table /\ after[s] = a
      /\ \A t \in Slot : t # s => after[t] = table[t]
  BY DEF Table
<1>2. a # None
  BY FuzzAssumption
<1>3. \A t \in Slot : table[t] # None => after[t] = table[t]
  BY <1>1
<1>4. \A t \in Slot : after[t] # None => table[t] # None \/ t = s
  BY <1>1
<1>5. Taken(after) = Taken(table) \cup {s}
  BY <1>1, <1>2, <1>3, <1>4 DEF Taken
<1>6. \A t \in Slot : table[t] # a
  <2> SUFFICES ASSUME NEW t \in Slot, table[t] = a
               PROVE  FALSE
    OBVIOUS
  <2>1. PICK j \in 1 .. Window :
          Probe(a)[j] = t /\ \A i \in 1 .. j - 1 : table[Probe(a)[i]] # None
    BY <1>2 DEF Found
  <2>2. j # m
    BY <1>2, <2>1
  <2>3. Window \in Nat
    BY FuzzAssumption
  <2>4. CASE j < m
    <3>1. j \in 1 .. m - 1
      BY <2>3, <2>4
    <3> QED
      BY <2>1, <3>1
  <2>5. CASE m < j
    <3>1. m \in 1 .. j - 1
      BY <2>3, <2>5
    <3> QED
      BY <2>1, <3>1
  <2> QED
    BY <2>2, <2>3, <2>4, <2>5
<1>7. Found(after)
  <2>1. ASSUME NEW t \in Slot, NEW u \in Slot, after[t] = after[u], after[t] # None
        PROVE  t = u
    BY <1>1, <1>6, <2>1 DEF Found
  <2>2. ASSUME NEW t \in Slot, after[t] # None
        PROVE  \E j \in 1 .. Window :
                 /\ Probe(after[t])[j] = t
                 /\ \A i \in 1 .. j - 1 : after[Probe(after[t])[i]] # None
    <3>1. Window \in Nat
      BY FuzzAssumption
    <3>2. CASE t = s
      <4>1. \A i \in 1 .. m - 1 : i \in 1 .. Window
        BY <3>1
      <4>2. \A i \in 1 .. m - 1 : after[Probe(a)[i]] # None
        BY <1>3, <4>1, ProbeType
      <4> QED
        BY <1>1, <3>2, <4>2
    <3>3. CASE t # s
      <4>1. after[t] = table[t] /\ table[t] \in Address
        BY <1>1, <2>2, <3>3 DEF Table
      <4>2. PICK j \in 1 .. Window :
              /\ Probe(table[t])[j] = t
              /\ \A i \in 1 .. j - 1 : table[Probe(table[t])[i]] # None
        BY <2>2, <4>1 DEF Found
      <4>3. \A i \in 1 .. j - 1 : Probe(table[t])[i] \in Slot
        <5>1. \A i \in 1 .. j - 1 : i \in 1 .. Window
          BY <3>1
        <5> QED
          BY <4>1, <5>1, ProbeType
      <4> QED
        BY <1>3, <4>1, <4>2, <4>3
    <3> QED
      BY <3>2, <3>3
  <2> QED
    BY <2>1, <2>2 DEF Found
<1>8. \A b \in Address : Settled(table, b) => Settled(after, b)
  <2> SUFFICES ASSUME NEW b \in Address, Settled(table, b)
               PROVE  Settled(after, b)
    OBVIOUS
  <2>1. CASE \E t \in Slot : table[t] = b
    <3>1. b # None
      BY FuzzAssumption
    <3> QED
      BY <1>3, <2>1, <3>1 DEF Settled
  <2>2. CASE \A i \in 1 .. Window : table[Probe(b)[i]] # None
    <3>1. \A i \in 1 .. Window : Probe(b)[i] \in Slot
      BY ProbeType
    <3> QED
      BY <1>3, <2>2, <3>1 DEF Settled
  <2> QED
    BY <2>1, <2>2 DEF Settled
<1>9. Settled(after, a)
  BY <1>1 DEF Settled
<1> QED
  BY <1>1, <1>5, <1>7, <1>8, <1>9

\* One address more.
LEMMA AddGrows ==
  ASSUME NEW from \in Table, NEW acc, Grown(from, acc), NEW a \in Address
  PROVE  /\ Grown(from, Add(acc, a))
         /\ Settled(Add(acc, a).table, a)
         /\ \A b \in Address : Settled(acc.table, b) => Settled(Add(acc, a).table, b)
<1>1. acc \in Acc /\ acc.table \in Table /\ acc.new \in Nat /\ Found(acc.table)
  BY DEF Grown, Acc
<1>2. CASE Add(acc, a) = acc /\ Settled(acc.table, a)
  BY <1>2
<1>3. ASSUME NEW m \in 1 .. Window, NEW s \in Slot, s = Probe(a)[m],
             acc.table[s] = None,
             \A i \in 1 .. m - 1 : acc.table[Probe(a)[i]] \notin {None, a},
             Add(acc, a) = [table |-> [acc.table EXCEPT ![s] = a],
                            new   |-> acc.new + 1]
      PROVE  /\ Grown(from, Add(acc, a))
             /\ Settled(Add(acc, a).table, a)
             /\ \A b \in Address :
                  Settled(acc.table, b) => Settled(Add(acc, a).table, b)
  <2>1. PICK after : after = [acc.table EXCEPT ![s] = a]
    OBVIOUS
  <2>2. Add(acc, a).table = after /\ Add(acc, a).new = acc.new + 1
    BY <1>3, <2>1
  <2>3. /\ after \in Table /\ Found(after)
        /\ Taken(after) = Taken(acc.table) \cup {s}
        /\ \A b \in Address : Settled(acc.table, b) => Settled(after, b)
        /\ Settled(after, a)
    BY <1>1, <1>3, <2>1, PutInFreeSlot
  <2>4. Add(acc, a) \in Acc
    BY <1>1, <1>3, <2>1, <2>3 DEF Acc
  <2>5. s \notin Taken(acc.table)
    BY <1>3 DEF Taken
  <2>6. Cardinality(Taken(after)) = Cardinality(Taken(acc.table)) + 1
    BY <2>3, <2>5, TakenIsFinite, FS_AddElement
  <2>7. Cardinality(Taken(after)) = Cardinality(Taken(from)) + (acc.new + 1)
    <3>1. Cardinality(Taken(acc.table)) = Cardinality(Taken(from)) + acc.new
      BY DEF Grown
    <3>2. Cardinality(Taken(from)) \in Nat
      BY TakenIsFinite
    <3> QED
      BY <1>1, <2>6, <3>1, <3>2
  <2>8. \A t \in Slot : from[t] # None => after[t] = from[t]
    BY <1>1, <1>3, <2>1 DEF Grown, Table
  <2>9. Grown(from, Add(acc, a))
    BY <2>2, <2>3, <2>4, <2>7, <2>8 DEF Grown
  <2> QED
    BY <2>2, <2>3, <2>9
<1>4. \/ Add(acc, a) = acc /\ Settled(acc.table, a)
      \/ \E m \in 1 .. Window : \E s \in Slot :
           /\ s = Probe(a)[m] /\ acc.table[s] = None
           /\ \A i \in 1 .. m - 1 : acc.table[Probe(a)[i]] \notin {None, a}
           /\ Add(acc, a) = [table |-> [acc.table EXCEPT ![s] = a],
                             new   |-> acc.new + 1]
  BY <1>1, AddOne
<1> QED
  BY <1>2, <1>3, <1>4

\* The insertion of a trace: what was there stays, every address of the trace
\* is settled, and as many are counted as slots were taken.
LEMMA AddAllGrows ==
  ASSUME NEW from \in Table, Found(from), NEW trace \in Seq(Address)
  PROVE  /\ Grown(from, AddAll(from, trace))
         /\ \A k \in 1 .. Len(trace) : Settled(AddAll(from, trace).table, trace[k])
         /\ \A b \in Address :
              Settled(from, b) => Settled(AddAll(from, trace).table, b)
<1> DEFINE n    == Len(trace)
           base == [table |-> from, new |-> 0]
           step == [q \in Acc \X (1 .. n) |-> Add(q[1], trace[q[2]])]
           eqn(f) == f = [i \in 0 .. n |-> IF i = 0 THEN base
                                           ELSE Add(f[i - 1], trace[i])]
<1>1. n \in Nat /\ \A i \in 1 .. n : trace[i] \in Address
  OBVIOUS
<1>2. base \in Acc
  BY DEF Acc
<1>3. \A acc \in Acc, a \in Address : Add(acc, a) \in Acc
  <2> SUFFICES ASSUME NEW acc \in Acc, NEW a \in Address
               PROVE  Add(acc, a) \in Acc
    OBVIOUS
  <2>1. acc.table \in Table /\ acc.new \in Nat
    BY DEF Acc
  <2>2. ASSUME NEW s \in Slot
        PROVE  [table |-> [acc.table EXCEPT ![s] = a], new |-> acc.new + 1] \in Acc
    BY <2>1 DEF Acc, Table
  <2> QED
    BY <2>2, AddOne
<1>4. step \in [Acc \X (1 .. n) -> Acc]
  <2>1. \A q \in Acc \X (1 .. n) : q[1] \in Acc /\ trace[q[2]] \in Address
    BY <1>1
  <2> QED
    BY <1>3, <2>1
<1>5. \E f : Goes(f, Acc, n, base, step)
  <2>1. step \in Steps(Acc, n)
    BY <1>4 DEF Steps
  <2> HIDE DEF step, base, n, eqn
  <2> QED
    BY <1>1, <1>2, <2>1, Recursion
<1>6. \E f : eqn(f)
  <2>1. PICK f : Goes(f, Acc, n, base, step)
    BY <1>5
  <2>2. f \in [0 .. n -> Acc] /\ f[0] = base
    BY <2>1 DEF Goes
  <2>3. \A i \in 1 .. n : f[i] = Add(f[i - 1], trace[i])
    <3> SUFFICES ASSUME NEW i \in 1 .. n
                 PROVE  f[i] = Add(f[i - 1], trace[i])
      OBVIOUS
    <3>1. i - 1 \in 0 .. n /\ f[i - 1] \in Acc
      BY <1>1, <2>2
    <3>2. step[<<f[i - 1], i>>] = Add(f[i - 1], trace[i])
      BY <3>1
    <3> QED
      BY <2>1, <3>2 DEF Goes
  <2>4. \A i \in 0 .. n : f[i] = IF i = 0 THEN base ELSE Add(f[i - 1], trace[i])
    <3>1. \A i \in 0 .. n : i # 0 => i \in 1 .. n
      BY <1>1
    <3> QED
      BY <2>2, <2>3, <3>1
  <2> HIDE DEF base, step
  <2> QED
    BY <2>2, <2>4
<1>7. PICK f : eqn(f) /\ AddAll(from, trace) = f[n]
  <2> DEFINE acc == CHOOSE g : eqn(g)
  <2>1. AddAll(from, trace) = acc[n]
    BY DEF AddAll
  <2>2. eqn(acc)
    <3> HIDE DEF eqn
    <3> QED
      BY <1>6
  <2> HIDE DEF acc, eqn
  <2> QED
    BY <2>1, <2>2
<1>8. f[0] = base
  BY <1>7
<1>9. ASSUME NEW i \in 1 .. n
      PROVE  f[i] = Add(f[i - 1], trace[i])
  <2>1. i \in 0 .. n /\ i # 0
    BY <1>1
  <2> QED
    BY <1>7, <2>1
<1> DEFINE So(i) == /\ Grown(from, f[i])
                    /\ \A k \in 1 .. i : Settled(f[i].table, trace[k])
                    /\ \A b \in Address : Settled(from, b) => Settled(f[i].table, b)
           P == {i \in 0 .. n : So(i)}
<1>10. 0 \in P
  <2>1. f[0].table = from /\ f[0].new = 0
    BY <1>8
  <2>2. Cardinality(Taken(from)) \in Nat
    BY TakenIsFinite
  <2>3. Grown(from, f[0])
    <3>1. f[0] \in Acc
      BY <1>2, <1>8
    <3> HIDE DEF n, base, eqn
    <3> QED
      BY <2>1, <2>2, <3>1 DEF Grown
  <2> HIDE DEF eqn
  <2> QED
    BY <1>1, <2>1, <2>3
<1>11. ASSUME NEW i \in 1 .. n, i - 1 \in P
       PROVE  i \in P
  <2>1. trace[i] \in Address /\ So(i - 1) /\ f[i] = Add(f[i - 1], trace[i])
    BY <1>1, <1>9, <1>11
  <2>2. /\ Grown(from, f[i])
        /\ Settled(f[i].table, trace[i])
        /\ \A b \in Address : Settled(f[i - 1].table, b) => Settled(f[i].table, b)
    <3>1. PICK acc : acc = f[i - 1]
      OBVIOUS
    <3>2. Grown(from, acc)
      BY <2>1, <3>1
    <3> HIDE DEF eqn, n, So, P
    <3>3. /\ Grown(from, Add(acc, trace[i]))
          /\ Settled(Add(acc, trace[i]).table, trace[i])
          /\ \A b \in Address :
               Settled(acc.table, b) => Settled(Add(acc, trace[i]).table, b)
      BY <2>1, <3>2, AddGrows
    <3> QED
      BY <2>1, <3>1, <3>3
  <2>3. \A k \in 1 .. i : Settled(f[i].table, trace[k])
    <3>1. \A k \in 1 .. i : trace[k] \in Address /\ (k = i \/ k \in 1 .. i - 1)
      BY <1>1
    <3> HIDE DEF eqn, n
    <3> QED
      BY <2>1, <2>2, <3>1
  <2> HIDE DEF eqn
  <2> QED
    BY <2>1, <2>2, <2>3
<1>12. n \in P
  <2>1. \A i \in 1 .. n : i - 1 \in P => i \in P
    BY <1>11
  <2> HIDE DEF P, n, eqn
  <2>2. \A i \in 0 .. n : i \in P
    BY <1>1, <1>10, <2>1, UpTo
  <2> QED
    BY <1>1, <2>2
<1> HIDE DEF eqn
<1> QED
  BY <1>7, <1>12

-----------------------------------------------------------------------------
(* The corpus.                                                             *)

\* The recursion that Brought takes its value from.
Sums(sum, c) ==
  sum = [i \in 0 .. Len(c) |-> IF i = 0 THEN 0 ELSE sum[i - 1] + c[i].new_pcs]

\* What the corpus brought is the last value of that recursion.
LEMMA BroughtIsSum ==
  ASSUME NEW c, Len(c) \in Nat, \A i \in 1 .. Len(c) : c[i].new_pcs \in Nat
  PROVE  \E sum \in [0 .. Len(c) -> Nat] : Sums(sum, c) /\ Brought(c) = sum[Len(c)]
<1> DEFINE n    == Len(c)
           step == [q \in Nat \X (1 .. n) |-> q[1] + c[q[2]].new_pcs]
<1>1. step \in Steps(Nat, n)
  <2>1. \A q \in Nat \X (1 .. n) : q[1] + c[q[2]].new_pcs \in Nat
    OBVIOUS
  <2> QED
    BY <2>1 DEF Steps
<1>2. PICK f : Goes(f, Nat, n, 0, step)
  <2> HIDE DEF step
  <2> QED
    BY <1>1, Recursion
<1>3. f \in [0 .. n -> Nat] /\ f[0] = 0
  BY <1>2 DEF Goes
<1>4. \A i \in 1 .. n : f[i] = f[i - 1] + c[i].new_pcs
  <2> SUFFICES ASSUME NEW i \in 1 .. n
               PROVE  f[i] = f[i - 1] + c[i].new_pcs
    OBVIOUS
  <2>1. i - 1 \in 0 .. n /\ f[i - 1] \in Nat
    BY <1>3
  <2>2. step[<<f[i - 1], i>>] = f[i - 1] + c[i].new_pcs
    BY <2>1
  <2> QED
    BY <1>2, <2>2 DEF Goes
<1>5. Sums(f, c)
  <2>1. \A i \in 0 .. n : i # 0 => i \in 1 .. n
    OBVIOUS
  <2> HIDE DEF step
  <2> QED
    BY <1>3, <1>4, <2>1 DEF Sums
<1>6. \A g : Sums(g, c) => \A i \in 0 .. n : g[i] = f[i]
  <2> SUFFICES ASSUME NEW g, Sums(g, c)
               PROVE  \A i \in 0 .. n : g[i] = f[i]
    OBVIOUS
  <2> DEFINE P == {i \in 0 .. n : g[i] = f[i]}
  <2>1. 0 \in P
    BY <1>3 DEF Sums
  <2>2. ASSUME NEW i \in 1 .. n, i - 1 \in P
        PROVE  i \in P
    <3>1. i \in 0 .. n /\ i # 0
      OBVIOUS
    <3>2. g[i] = g[i - 1] + c[i].new_pcs
      BY <3>1 DEF Sums
    <3> QED
      BY <1>4, <2>2, <3>1, <3>2
  <2>3. \A i \in 1 .. n : i - 1 \in P => i \in P
    BY <2>2
  <2>4. \A i \in 0 .. n : i \in P
    <3> HIDE DEF P
    <3> QED
      BY <2>1, <2>3, UpTo
  <2> QED
    BY <2>4
<1>7. Brought(c) = f[n]
  <2> DEFINE sum == CHOOSE g : Sums(g, c)
  <2>1. Brought(c) = sum[n]
    BY DEF Brought, Sums
  <2>2. Sums(sum, c)
    <3> HIDE DEF step
    <3> QED
      BY <1>5
  <2> HIDE DEF sum, step
  <2> QED
    BY <1>6, <2>1, <2>2
<1> HIDE DEF step
<1> QED
  BY <1>3, <1>5, <1>7

\* A program more brings what it brought.
LEMMA BroughtAppend ==
  ASSUME NEW T, \A x \in T : x.new_pcs \in Nat, NEW c \in Seq(T), NEW e \in T
  PROVE  Brought(Append(c, e)) = Brought(c) + e.new_pcs
<1> DEFINE n == Len(c)
<1>1. PICK d : d = Append(c, e)
  OBVIOUS
<1>2. /\ n \in Nat /\ Len(d) = n + 1 /\ d[n + 1] = e
      /\ \A i \in 1 .. n : d[i] = c[i]
  BY <1>1
<1>3. /\ \A i \in 1 .. n : c[i].new_pcs \in Nat
      /\ \A i \in 1 .. n + 1 : d[i].new_pcs \in Nat
  <2>1. \A i \in 1 .. n : c[i] \in T
    OBVIOUS
  <2>2. \A i \in 1 .. n + 1 : i = n + 1 \/ i \in 1 .. n
    BY <1>2
  <2> QED
    BY <1>2, <2>1, <2>2
<1>4. PICK f \in [0 .. n -> Nat] : Sums(f, c) /\ Brought(c) = f[n]
  BY <1>2, <1>3, BroughtIsSum
<1>5. PICK g \in [0 .. n + 1 -> Nat] : Sums(g, d) /\ Brought(d) = g[n + 1]
  BY <1>2, <1>3, BroughtIsSum
<1> DEFINE P == {i \in 0 .. n : g[i] = f[i]}
<1>6. 0 \in P
  BY <1>2, <1>4, <1>5 DEF Sums
<1>7. \A i \in 1 .. n + 1 : g[i] = g[i - 1] + d[i].new_pcs
  <2>1. \A i \in 1 .. n + 1 : i \in 0 .. n + 1 /\ i # 0
    BY <1>2
  <2> QED
    BY <1>2, <1>5, <2>1 DEF Sums
<1>8. \A i \in 1 .. n : f[i] = f[i - 1] + c[i].new_pcs
  <2>1. \A i \in 1 .. n : i \in 0 .. n /\ i # 0
    BY <1>2
  <2> QED
    BY <1>4, <2>1 DEF Sums
<1>9. \A i \in 1 .. n : i - 1 \in P => i \in P
  <2>1. \A i \in 1 .. n : i \in 0 .. n /\ i \in 1 .. n + 1
    BY <1>2
  <2> QED
    BY <1>2, <1>7, <1>8, <2>1
<1>10. \A i \in 0 .. n : i \in P
  <2> HIDE DEF P
  <2> QED
    BY <1>2, <1>6, <1>9, UpTo
<1>11. g[n] = f[n] /\ g[n + 1] = g[n] + e.new_pcs
  <2>1. n \in 0 .. n /\ n + 1 \in 1 .. n + 1
    BY <1>2
  <2>2. g[n] = f[n]
    BY <1>10, <2>1
  <2>3. g[n + 1] = g[n] + d[n + 1].new_pcs
    BY <1>2, <1>7, <2>1
  <2> QED
    BY <1>2, <2>2, <2>3
<1> QED
  BY <1>1, <1>4, <1>5, <1>11

\* An empty corpus brought nothing.
LEMMA BroughtNothing == Brought(<<>>) = 0
<1>1. PICK f \in [0 .. 0 -> Nat] : Sums(f, <<>>) /\ Brought(<<>>) = f[0]
  BY BroughtIsSum
<1> QED
  BY <1>1 DEF Sums

-----------------------------------------------------------------------------
(* The inductive invariant.                                                *)

\* Past the load there is a program, and everything is of its type.
Typed == TypeOK /\ (pc \in {"gate", "run", "ready"} => prog \in Program)

\* Between the clearing of the output map and the run that uses it there is an
\* input, and nothing writes into the map.
Clean == pc = "ready" => todo # {} /\ dirty = {}

\* What belongs to the program in hand: the log, when it went through the gate,
\* and the registered store sites.
Own ==
  /\ pc \in {"run", "ready"} /\ LogIsCurrent => log = prog
  /\ \A i \in DOMAIN sites : sites[i].of = prog

\* What the findings and blocks on the output say.
Said == BlocksAreOwn /\ ResultsAreReal

\* The table of addresses, and the corpus that fills it.
Cover ==
  /\ Found(seen)
  /\ count = Cardinality(Taken(seen))
  /\ Len(corpus) < CorpusMax => count = Brought(corpus)
  /\ \A a \in traced : Settled(seen, a)

IInv == Typed /\ Clean /\ Own /\ Said /\ CountsAddUp /\ Cover

\* What is used of a program's type.
LEMMA ProgramFacts ==
  ASSUME NEW p \in Program
  PROVE  /\ p.trace \in Seq(Address) /\ p.sites \in Seq({"variable", "fixed"})
         /\ p.out \in Outcome /\ p.freq \in Outcome /\ p.fits \in BOOLEAN
         /\ \A a \in Input : DOMAIN p.hits[a] \subseteq Byte
<1>1. p \in ProgramType
  BY FuzzAssumption
<1>2. p.hits \in [Input -> UNION {[B -> {"variable", "fixed"}] : B \in SUBSET Byte}]
  BY <1>1 DEF ProgramType
<1>3. \A a \in Input : DOMAIN p.hits[a] \subseteq Byte
  BY <1>2
<1> QED
  BY <1>1, <1>3 DEF ProgramType

\* The trace buffer holds addresses of the trace.
LEMMA TraceType ==
  ASSUME NEW p \in Program
  PROVE  Trace(p) \in Seq(Address)
<1>1. p.trace \in Seq(Address) /\ Area \in Nat
  BY ProgramFacts, FuzzAssumption
<1> DEFINE n == IF Len(p.trace) < Area THEN Len(p.trace) ELSE Area
<1>2. n \in Int /\ \A i \in 1 .. n : p.trace[i] \in Address
  BY <1>1
<1> HIDE DEF n
<1>3. SubSeq(p.trace, 1, n) \in Seq(Address)
  BY <1>2, SubSeqProperties
<1> QED
  BY <1>3 DEF Trace, n

\* A function on 1 .. k is a sequence.
LEMMA SeqOfFunction ==
  ASSUME NEW T, NEW k \in Nat, NEW f \in [1 .. k -> T]
  PROVE  f \in Seq(T) /\ Len(f) = k
  OBVIOUS

\* The sites the emitter registers are those of the program it emits.
LEMMA SitesOfProgram ==
  ASSUME NEW p \in Program
  PROVE  /\ EmitSites(p) \in Seq([of : Program, kind : {"variable", "fixed"}])
         /\ Len(EmitSites(p)) <= MaxStores
         /\ \A i \in DOMAIN EmitSites(p) : EmitSites(p)[i].of = p
<1>1. p.sites \in Seq({"variable", "fixed"}) /\ MaxStores \in Nat
  BY ProgramFacts, FuzzAssumption
<1> DEFINE n  == IF Len(p.sites) < MaxStores THEN Len(p.sites) ELSE MaxStores
           es == [i \in 1 .. n |-> [of |-> p, kind |-> p.sites[i]]]
<1>2. n \in Nat /\ n <= MaxStores /\ \A i \in 1 .. n : p.sites[i] \in {"variable", "fixed"}
  BY <1>1
<1> HIDE DEF n
<1>3. es \in [1 .. n -> [of : Program, kind : {"variable", "fixed"}]]
  BY <1>2
<1>5. \A i \in DOMAIN es : es[i].of = p
  OBVIOUS
<1>6. EmitSites(p) = es
  BY DEF EmitSites, n
<1> HIDE DEF es
<1>4. es \in Seq([of : Program, kind : {"variable", "fixed"}]) /\ Len(es) = n
  BY <1>2, <1>3, SeqOfFunction
<1> QED
  BY <1>2, <1>4, <1>5, <1>6

\* The input a run takes next is one that is left.
LEMMA NextInputLeft ==
  ASSUME TypeOK, todo # {}
  PROVE  NextInput \in todo /\ NextInput \in Input
<1>1. todo \in SUBSET Nat /\ todo \subseteq Input
  BY FuzzAssumption DEF TypeOK
<1>2. NextInput = Min(todo)
  BY DEF NextInput, Min
<1> QED
  BY <1>1, <1>2, MinOfNats

\* What one bump does to each counter.
LEMMA BumpCounts ==
  ASSUME stat \in [Counter -> Nat], NEW cs, NEW after, after = Bump(cs)
  PROVE  /\ after \in [Counter -> Nat]
         /\ \A c \in Counter : after[c] = IF c \in cs THEN stat[c] + 1 ELSE stat[c]
<1>1. after = [c \in Counter |-> stat[c] + IF c \in cs THEN 1 ELSE 0]
  BY DEF Bump
<1>2. \A c \in Counter : stat[c] \in Nat
  OBVIOUS
<1>3. \A c \in Counter : stat[c] + (IF c \in cs THEN 1 ELSE 0)
                         = IF c \in cs THEN stat[c] + 1 ELSE stat[c]
  BY <1>2
<1>4. \A c \in Counter : after[c] = IF c \in cs THEN stat[c] + 1 ELSE stat[c]
  BY <1>1, <1>3
<1>5. after \in [Counter -> Nat]
  BY <1>1, <1>2
<1> QED
  BY <1>4, <1>5

\* The load of a program: the table grows by as many addresses as are counted.
LEMMA LoadGrows ==
  ASSUME Typed, Cover, NEW p \in Program, Load(p)
  PROVE  \E table \in Table, new \in Nat :
           /\ seen' = table /\ count' = count + new /\ fresh' = new
           /\ corpus' = Keep(p, new)
           /\ Found(table)
           /\ count + new = Cardinality(Taken(table))
           /\ count + new \in 0 .. Slots
           /\ traced' \subseteq Address
           /\ \A a \in traced' : Settled(table, a)
<1> DEFINE trace == Trace(p)
           added == AddAll(seen, trace)
<1>1. seen \in Table /\ Found(seen) /\ count = Cardinality(Taken(seen)) /\ count \in Nat
  BY DEF Typed, TypeOK, Cover, Table
<1>2. trace \in Seq(Address)
  BY TraceType
<1> HIDE DEF trace
<1>3. /\ Grown(seen, added)
      /\ \A k \in 1 .. Len(trace) : Settled(added.table, trace[k])
      /\ \A b \in Address : Settled(seen, b) => Settled(added.table, b)
  BY <1>1, <1>2, AddAllGrows
<1>4. /\ added.table \in Table /\ added.new \in Nat /\ Found(added.table)
      /\ Cardinality(Taken(added.table)) = count + added.new
  BY <1>1, <1>3 DEF Grown, Acc
<1>5. count + added.new \in 0 .. Slots
  BY <1>4, TakenIsFinite
<1>6. /\ seen' = added.table /\ count' = count + added.new /\ fresh' = added.new
      /\ corpus' = Keep(p, added.new)
      /\ traced' = traced \cup ToSet(trace)
  BY DEF Load, trace
<1>7. ToSet(trace) = {trace[k] : k \in 1 .. Len(trace)}
  BY <1>2 DEF ToSet
<1>8. traced \subseteq Address /\ \A a \in traced : Settled(seen, a)
  BY DEF Typed, TypeOK, Cover
<1>9. traced' \subseteq Address
  BY <1>2, <1>6, <1>7, <1>8
<1>10. \A a \in traced' : Settled(added.table, a)
  BY <1>3, <1>6, <1>7, <1>8
<1> HIDE DEF added
<1> QED
  BY <1>4, <1>5, <1>6, <1>9, <1>10

\* What the corpus holds after a load, and what it brought.
LEMMA KeepBrought ==
  ASSUME Typed, NEW p \in Program, NEW new \in Nat, new <= Slots
  PROVE  /\ Keep(p, new) \in Seq([prog : Program, new_pcs : 1 .. Slots])
         /\ Len(Keep(p, new)) <= CorpusMax
         /\ Len(Keep(p, new)) < CorpusMax =>
              /\ Len(corpus) < CorpusMax
              /\ Brought(Keep(p, new)) = Brought(corpus) + new
         /\ Len(corpus) < CorpusMax => Brought(corpus) \in Nat
<1> DEFINE T == [prog : Program, new_pcs : 1 .. Slots]
           e == [prog |-> p, new_pcs |-> new]
<1>1. /\ corpus \in Seq(T) /\ Len(corpus) <= CorpusMax
      /\ CorpusMax \in Nat /\ Slots \in Nat
  BY FuzzAssumption DEF Typed, TypeOK
<1>2. \A x \in T : x.new_pcs \in Nat
  BY <1>1
<1>3. Brought(corpus) \in Nat
  <2>1. Len(corpus) \in Nat /\ \A i \in 1 .. Len(corpus) : corpus[i].new_pcs \in Nat
    <3> HIDE DEF T
    <3>1. \A i \in 1 .. Len(corpus) : corpus[i] \in T
      BY <1>1, ElementOfSeq
    <3> QED
      BY <1>1, <1>2, <3>1
  <2>2. PICK sum \in [0 .. Len(corpus) -> Nat] : Brought(corpus) = sum[Len(corpus)]
    BY <2>1, BroughtIsSum
  <2> QED
    BY <2>1, <2>2
<1>4. CASE new > 0 /\ Len(corpus) < CorpusMax
  <2>1. e \in T
    BY <1>1, <1>4
  <2>2. Keep(p, new) = Append(corpus, e)
    BY <1>4 DEF Keep
  <2>3. e.new_pcs = new
    OBVIOUS
  <2> HIDE DEF T, e
  <2>4. Brought(Append(corpus, e)) = Brought(corpus) + new
    BY <1>1, <1>2, <2>1, <2>3, BroughtAppend
  <2>5. Append(corpus, e) \in Seq(T) /\ Len(Append(corpus, e)) = Len(corpus) + 1
    BY <1>1, <2>1, AppendProperties
  <2>6. Len(corpus) \in Nat
    BY <1>1
  <2> QED
    BY <1>1, <1>3, <1>4, <2>2, <2>4, <2>5, <2>6 DEF T
<1>5. CASE ~(new > 0 /\ Len(corpus) < CorpusMax)
  <2>1. Keep(p, new) = corpus
    BY <1>5 DEF Keep
  <2>2. Len(corpus) < CorpusMax => new = 0
    BY <1>5
  <2> QED
    BY <1>1, <1>3, <2>1, <2>2
<1> QED
  BY <1>4, <1>5

\* A start: nothing is counted, nothing is kept.
LEMMA InitInv == Init => IInv
<1> SUFFICES ASSUME Init
             PROVE  IInv
  OBVIOUS
<1>1. /\ Slots \in Nat \ {0} /\ {CorpusMax, MaxStores, MaxIters} \subseteq Nat
  BY FuzzAssumption
<1>2. Typed
  <2>1. stat \in [Counter -> Nat]
    BY DEF Init
  <2>2. seen \in [Slot -> Address \cup {None}]
    BY DEF Init
  <2>3. /\ corpus \in Seq([prog : Program, new_pcs : 1 .. Slots])
        /\ sites \in Seq([of : Program, kind : {"variable", "fixed"}])
        /\ Len(corpus) = 0 /\ Len(sites) = 0
    BY DEF Init
  <2>4. /\ pc = "start" /\ iters = 0 /\ prog = None /\ fd = FALSE /\ fresh = 0
        /\ count = 0 /\ log = None /\ todo = {} /\ dirty = {}
        /\ findings = {} /\ blocks = {} /\ traced = {}
    BY DEF Init
  <2>5. pc \in {"start", "aborted", "loop", "gate", "run", "ready", "done"}
        /\ pc \notin {"gate", "run", "ready"}
    BY <2>4
  <2>6. /\ iters \in 0 .. MaxIters /\ count \in 0 .. Slots /\ fresh \in Nat
        /\ Len(corpus) <= CorpusMax /\ Len(sites) <= MaxStores
    BY <1>1, <2>3, <2>4
  <2>7. /\ prog \in Program \cup {None} /\ log \in Program \cup {None}
        /\ fd \in BOOLEAN /\ todo \subseteq Input /\ dirty \subseteq Byte
        /\ traced \subseteq Address /\ findings = {} /\ blocks = {}
    BY <2>4
  <2> QED
    BY <2>1, <2>2, <2>3, <2>5, <2>6, <2>7 DEF Typed, TypeOK
<1>3. Own
  BY DEF Init, Own
<1>4. Said
  BY DEF Init, Said, BlocksAreOwn, ResultsAreReal
<1>5. CountsAddUp
  <2>1. \A c \in Counter : stat[c] = 0
    BY DEF Init
  <2>2. iters = 0
    BY DEF Init
  <2> QED
    BY <1>1, <2>1, <2>2, FuzzAssumption DEF CountsAddUp, Counter
<1>6. Cover
  <2>1. \A s \in Slot : seen[s] = None
    BY DEF Init
  <2>2. Taken(seen) = {} /\ Found(seen)
    BY <2>1 DEF Taken, Found
  <2>3. Cardinality(Taken(seen)) = 0
    BY <2>2, FS_EmptySet
  <2> QED
    BY <2>2, <2>3, BroughtNothing DEF Cover, Init
<1>7. Clean
  BY DEF Init, Clean
<1> QED
  BY <1>2, <1>3, <1>4, <1>5, <1>6, <1>7 DEF IInv

\* The types, one action after the other.
LEMMA TypedStep == IInv /\ [Next]_vars => Typed'
<1> SUFFICES ASSUME IInv, [Next]_vars
             PROVE  Typed'
  OBVIOUS
<1>t. Typed /\ Clean /\ Cover /\ TypeOK /\ stat \in [Counter -> Nat]
  BY DEF IInv, Typed, TypeOK
<1>1. CASE Start \/ NextProgram \/ Stop
  <2>1. /\ pc' \in {"aborted", "loop", "done"} /\ fd' \in BOOLEAN
        /\ UNCHANGED <<iters, prog, fresh, todo, seen, count, corpus, sites, log,
                       dirty, stat, findings, blocks, traced>>
    BY <1>t, <1>1 DEF Start, NextProgram, Stop, TypeOK, printed
  <2> QED
    BY <1>t, <2>1 DEF Typed, TypeOK
<1>2. ASSUME NEW p \in Program, Load(p)
      PROVE  Typed'
  <2>1. PICK table \in Table, new \in Nat :
          /\ seen' = table /\ count' = count + new /\ fresh' = new
          /\ corpus' = Keep(p, new)
          /\ count + new \in 0 .. Slots
          /\ traced' \subseteq Address
    BY <1>t, <1>2, LoadGrows
  <2>2. count \in Nat /\ Slots \in Nat /\ MaxIters \in Nat /\ iters \in Nat
    BY <1>t, FuzzAssumption DEF TypeOK
  <2>3. /\ corpus' \in Seq([prog : Program, new_pcs : 1 .. Slots])
        /\ Len(corpus') <= CorpusMax
    <3>1. new <= Slots
      BY <2>1, <2>2
    <3> QED
      BY <1>t, <2>1, <3>1, KeepBrought
  <2>4. /\ sites' \in Seq([of : Program, kind : {"variable", "fixed"}])
        /\ Len(sites') <= MaxStores
    BY <1>2, SitesOfProgram DEF Load
  <2>5. stat' \in [Counter -> Nat]
    BY <1>t, <1>2, BumpCounts DEF Load
  <2>6. seen' \in [Slot -> Address \cup {None}] /\ count' \in 0 .. Slots /\ fresh' \in Nat
    BY <2>1 DEF Table
  <2>7. iters' \in 0 .. MaxIters
    BY <1>2, <2>2 DEF Load
  <2>8. pc' = "gate" /\ prog' = p /\ fd' \in BOOLEAN
    BY <1>2 DEF Load
  <2>9. UNCHANGED <<log, todo, dirty, findings, blocks>>
    BY <1>2 DEF Load, printed
  <2> QED
    BY <1>t, <2>1, <2>3, <2>4, <2>5, <2>6, <2>7, <2>8, <2>9 DEF Typed, TypeOK
<1>3. CASE Gate
  <2>1. prog \in Program
    BY <1>t, <1>3 DEF Typed, Gate
  <2>2. stat' \in [Counter -> Nat]
    BY <1>t, <1>3, BumpCounts DEF Gate
  <2>3. findings' \subseteq
          [kind : {"prune_soundness_desync", "prune_verdict_disagreement",
                   "reg_invariants_violation", "result"}, prog : Program]
    BY <1>t, <1>3, <2>1 DEF Gate, PruneFinding, TypeOK
  <2>4. todo' \subseteq Input /\ pc' = "run" /\ log' = prog
    BY <1>3 DEF Gate
  <2>5. UNCHANGED <<iters, prog, fd, fresh, seen, count, corpus, sites, dirty,
                    blocks, traced>>
    BY <1>3 DEF Gate
  <2> QED
    BY <1>t, <2>1, <2>2, <2>3, <2>4, <2>5 DEF Typed, TypeOK
<1>4. CASE SkipGate
  <2>1. prog \in Program
    BY <1>t, <1>4 DEF Typed, SkipGate
  <2>2. todo' \subseteq Input /\ pc' = "run"
    BY <1>4 DEF SkipGate
  <2>3. UNCHANGED <<iters, prog, fd, fresh, seen, count, corpus, sites, log,
                    dirty, stat, findings, blocks, traced>>
    BY <1>4 DEF SkipGate, printed
  <2> QED
    BY <1>t, <2>1, <2>2, <2>3 DEF Typed, TypeOK
<1>5. CASE SkipInput \/ Prepare
  <2>1. todo' \subseteq Input /\ dirty' \subseteq Byte /\ pc' \in {"run", "ready"}
    BY <1>t, <1>5 DEF SkipInput, Prepare, TypeOK
  <2>2. UNCHANGED <<iters, prog, fd, fresh, seen, count, corpus, sites, log,
                    stat, findings, blocks, traced>> /\ pc = "run"
    BY <1>5 DEF SkipInput, Prepare, printed
  <2> QED
    BY <1>t, <2>1, <2>2 DEF Typed, TypeOK
<1>8. CASE GiveUp
  <2>1. prog \in Program /\ NextInput \in Input
    BY <1>t, <1>8, NextInputLeft DEF Typed, Clean, GiveUp
  <2>2. DOMAIN prog.hits[NextInput] \subseteq Byte
    BY <2>1, ProgramFacts
  <2>3. todo' \subseteq Input /\ dirty' \subseteq Byte /\ pc' = "run"
    BY <1>t, <1>8, <2>2 DEF GiveUp, Left, TypeOK
  <2>4. UNCHANGED <<iters, prog, fd, fresh, seen, count, corpus, sites, log,
                    stat, findings, blocks, traced>>
    BY <1>8 DEF GiveUp, printed
  <2> QED
    BY <1>t, <2>1, <2>3, <2>4 DEF Typed, TypeOK
<1>6. ASSUME NEW readback \in BOOLEAN, Run(readback)
      PROVE  Typed'
  <2>1. prog \in Program /\ NextInput \in Input
    BY <1>t, <1>6, NextInputLeft DEF Typed, Clean, Run
  <2>2. DOMAIN prog.hits[NextInput] \subseteq Byte
    BY <2>1, ProgramFacts
  <2>3. stat' \in [Counter -> Nat]
    BY <1>t, <1>6, BumpCounts DEF Run
  <2>4. /\ dirty' \subseteq Byte /\ todo' \subseteq todo /\ log' \in {prog, log}
        /\ pc' = "run"
    BY <1>t, <1>6, <2>2 DEF Run, Left, TypeOK
  <2>5. findings' \subseteq findings \cup {[kind |-> "result", prog |-> prog]}
    BY <1>6 DEF Run
  <2>6. blocks' \subseteq blocks \cup
          {[prog |-> prog, log |-> log, input |-> NextInput, byte |-> b] : b \in Byte}
    BY <1>t, <1>6, <2>2 DEF Run, Left, TypeOK
  <2>7. UNCHANGED <<iters, prog, fd, fresh, seen, count, corpus, sites, traced>>
    BY <1>6 DEF Run
  <2>8. findings' \subseteq
          [kind : {"prune_soundness_desync", "prune_verdict_disagreement",
                   "reg_invariants_violation", "result"}, prog : Program]
    BY <1>t, <2>1, <2>5 DEF TypeOK
  <2>9. blocks' \subseteq [prog : Program, log : Program \cup {None},
                           input : Input, byte : Byte]
    BY <1>t, <2>1, <2>6 DEF TypeOK
  <2> QED
    BY <1>t, <2>1, <2>3, <2>4, <2>7, <2>8, <2>9 DEF Typed, TypeOK
<1>7. CASE UNCHANGED vars
  BY <1>t, <1>7 DEF vars, loop, printed, Typed, TypeOK
<1> QED
  BY <1>1, <1>2, <1>3, <1>4, <1>5, <1>6, <1>7, <1>8 DEF Next

\* The output map: only Prepare enters "ready", with the map cleared, and every
\* step that writes into the map leaves "ready".
LEMMA CleanStep == IInv /\ [Next]_vars => Clean'
<1> SUFFICES ASSUME IInv, [Next]_vars
             PROVE  Clean'
  OBVIOUS
<1>1. CASE Prepare
  BY <1>1 DEF Prepare, Clean
<1>2. CASE \/ Start \/ Gate \/ SkipGate \/ NextProgram \/ Stop \/ SkipInput \/ GiveUp
           \/ \E p \in Program : Load(p)
           \/ \E readback \in BOOLEAN : Run(readback)
  <2>1. pc' # "ready"
    BY <1>2 DEF Start, Gate, SkipGate, NextProgram, Stop, SkipInput, GiveUp, Load, Run
  <2> QED
    BY <2>1 DEF Clean
<1>3. CASE UNCHANGED vars
  BY <1>3 DEF vars, loop, IInv, Clean
<1> QED
  BY <1>1, <1>2, <1>3 DEF Next

\* The log and the sites: a load registers its own sites and leaves for the
\* gate, and past the gate the log is the program's, if it went through.
LEMMA OwnStep == IInv /\ [Next]_vars => Own'
<1> SUFFICES ASSUME IInv, [Next]_vars
             PROVE  Own'
  OBVIOUS
<1>t. Own
  BY DEF IInv
<1>1. CASE Start \/ NextProgram \/ Stop
  <2>1. pc' \notin {"run", "ready"} /\ UNCHANGED <<sites, prog>>
    BY <1>1 DEF Start, NextProgram, Stop
  <2> QED
    BY <1>t, <2>1 DEF Own
<1>2. ASSUME NEW p \in Program, Load(p)
      PROVE  Own'
  <2>1. pc' = "gate" /\ sites' = EmitSites(p) /\ prog' = p
    BY <1>2 DEF Load
  <2> QED
    BY <2>1, SitesOfProgram DEF Own
<1>3. CASE Gate
  BY <1>t, <1>3 DEF Gate, Own
<1>4. CASE SkipGate
  <2>1. ~LogIsCurrent /\ UNCHANGED <<fresh, iters, sites, prog>>
    BY <1>4 DEF SkipGate
  <2> QED
    BY <1>t, <2>1 DEF Own, LogIsCurrent
<1>5. CASE SkipInput \/ Prepare \/ GiveUp
  BY <1>t, <1>5 DEF SkipInput, Prepare, GiveUp, Own, LogIsCurrent
<1>6. ASSUME NEW readback \in BOOLEAN, Run(readback)
      PROVE  Own'
  <2>1. /\ UNCHANGED <<iters, prog, fresh, sites>>
        /\ pc = "ready" /\ log' \in {prog, log}
    BY <1>6 DEF Run
  <2> QED
    BY <1>t, <2>1 DEF Own, LogIsCurrent
<1>7. CASE UNCHANGED vars
  BY <1>t, <1>7 DEF vars, loop, Own, LogIsCurrent
<1> QED
  BY <1>1, <1>2, <1>3, <1>4, <1>5, <1>6, <1>7 DEF Next

\* With the program's own sites, none is stale.
LEMMA NoneStale == ASSUME Own PROVE ~Stale
  BY DEF Own, Stale, Variable

\* A desync the differential prints has the direction its name says.
LEMMA PrintedIsFlip ==
  ASSUME NEW p \in Program, NEW f \in PruneFinding(p)
  PROVE  /\ f.prog = p
         /\ f.kind \in {"prune_soundness_desync", "prune_verdict_disagreement"}
         /\ f.kind = "prune_soundness_desync" => p.freq = "accept" /\ Base(p) # "accept"
         /\ p.deep
<1>1. p.deep /\ Flipped(p) /\ ~Resource(p)
  BY DEF PruneFinding
<1>2. f = [kind |-> IF p.freq = "accept" /\ Base(p) # "accept"
                    THEN "prune_soundness_desync" ELSE "prune_verdict_disagreement",
           prog |-> p]
  BY DEF PruneFinding
<1>3. CASE p.freq = "accept" /\ Base(p) # "accept"
  BY <1>1, <1>2, <1>3
<1>4. CASE ~(p.freq = "accept" /\ Base(p) # "accept")
  <2>1. f.kind = "prune_verdict_disagreement" /\ f.prog = p
    BY <1>2, <1>4
  <2> QED
    BY <1>1, <2>1
<1> QED
  BY <1>3, <1>4

\* What is printed, action by action: only the gate and a run print.
LEMMA SaidStep == IInv /\ [Next]_vars => Said'
<1> SUFFICES ASSUME IInv, [Next]_vars
             PROVE  Said'
  OBVIOUS
<1>t. Typed /\ TypeOK /\ Own /\ Clean /\ BlocksAreOwn /\ ResultsAreReal
  BY DEF IInv, Typed, Said
<1>1. CASE \/ Start \/ SkipGate \/ NextProgram \/ Stop
           \/ SkipInput \/ Prepare \/ GiveUp
           \/ \E p \in Program : Load(p)
           \/ UNCHANGED vars
  <2>1. UNCHANGED printed
    BY <1>1 DEF Start, SkipGate, SkipInput, Prepare, GiveUp, NextProgram, Stop, Load, vars
  <2> QED
    BY <1>t, <2>1 DEF printed, Said, BlocksAreOwn, ResultsAreReal
<1>2. CASE Gate
  <2>1. prog \in Program
    BY <1>t, <1>2 DEF Typed, Gate
  <2>2. /\ UNCHANGED blocks
        /\ findings' \subseteq findings \cup PruneFinding(prog)
             \cup {[kind |-> "reg_invariants_violation", prog |-> prog]}
    BY <1>2 DEF Gate
  <2>3. \A f \in PruneFinding(prog) :
          f.kind # "result" /\ f.prog = prog
    BY <2>1, PrintedIsFlip
  <2>4. \A f \in findings' : f.kind = "result" => f \in findings
    BY <2>2, <2>3
  <2>5. ResultsAreReal' /\ BlocksAreOwn'
    BY <1>t, <2>2, <2>4 DEF ResultsAreReal, BlocksAreOwn
  <2> QED
    BY <2>5 DEF Said
<1>3. ASSUME NEW readback \in BOOLEAN, Run(readback)
      PROVE  Said'
  <2> DEFINE hit   == Left
             store == IF readback THEN StoreCounts(hit) ELSE {"store_readfail"}
             bad   == prog.wrong \/ (prog.reads /\ dirty # {})
  <2>1. /\ findings' = findings \cup (IF bad THEN {[kind |-> "result", prog |-> prog]}
                                      ELSE {})
        /\ blocks' = blocks \cup
             (IF "store_sampled" \in store
              THEN {[prog |-> prog, log |-> log, input |-> NextInput, byte |-> b]
                      : b \in hit}
              ELSE {})
        /\ pc = "ready"
    BY <1>3 DEF Run
  <2>2. hit = DOMAIN prog.hits[NextInput] /\ (bad => prog.wrong)
    BY <1>t, <2>1 DEF Left, Clean
  <2>3. "store_sampled" \in store => LogIsCurrent
    BY DEF StoreCounts, Unambiguous
  <2>4. "store_sampled" \in store => log = prog
    BY <1>t, <2>1, <2>3 DEF Own
  <2> HIDE DEF hit, store, bad
  <2>5. BlocksAreOwn'
    <3> SUFFICES ASSUME NEW b \in blocks'
                 PROVE  b.log = b.prog /\ b.byte \in Ran(b.prog, b.input)
      BY DEF BlocksAreOwn
    <3>1. CASE b \in blocks
      BY <1>t, <3>1 DEF BlocksAreOwn
    <3>2. CASE b \notin blocks
      <4>1. "store_sampled" \in store
        BY <2>1, <3>2
      <4>2. PICK x \in hit :
              b = [prog |-> prog, log |-> log, input |-> NextInput, byte |-> x]
        BY <2>1, <3>2, <4>1
      <4> QED
        BY <2>2, <2>4, <4>1, <4>2 DEF Ran
    <3> QED
      BY <3>1, <3>2
  <2>6. ResultsAreReal'
    BY <1>t, <2>1, <2>2 DEF ResultsAreReal
  <2> QED
    BY <2>5, <2>6 DEF Said
<1> QED
  BY <1>1, <1>2, <1>3 DEF Next

\* The table and the corpus: only a load touches them.
LEMMA CoverStep == IInv /\ [Next]_vars => Cover'
<1> SUFFICES ASSUME IInv, [Next]_vars
             PROVE  Cover'
  OBVIOUS
<1>t. Typed /\ Cover
  BY DEF IInv
<1>1. CASE ~\E p \in Program : Load(p)
  <2>1. UNCHANGED <<seen, count, corpus, traced>>
    BY <1>1 DEF Next, Start, Gate, SkipGate, SkipInput, Prepare, GiveUp, NextProgram,
                Stop, Run, vars
  <2> QED
    BY <1>t, <2>1 DEF Cover
<1>2. ASSUME NEW p \in Program, Load(p)
      PROVE  Cover'
  <2>1. PICK table \in Table, new \in Nat :
          /\ seen' = table /\ count' = count + new /\ fresh' = new
          /\ corpus' = Keep(p, new)
          /\ Found(table)
          /\ count + new = Cardinality(Taken(table))
          /\ count + new \in 0 .. Slots
          /\ \A a \in traced' : Settled(table, a)
    BY <1>t, <1>2, LoadGrows
  <2>2. new <= Slots /\ count \in Nat
    BY <1>t, <2>1, FuzzAssumption DEF Typed, TypeOK
  <2>3. Len(corpus') < CorpusMax => count' = Brought(corpus')
    BY <1>t, <2>1, <2>2, KeepBrought DEF Cover
  <2> QED
    BY <2>1, <2>3 DEF Cover
<1> QED
  BY <1>1, <1>2

\* What the store channel counts of one run.
LEMMA StoreCountsOnce ==
  ASSUME NEW hit, ~Stale,
         NEW store \in {StoreCounts(hit), {"store_readfail"}}
  PROVE  /\ store \subseteq {"store_progs", "store_none", "store_readfail",
                             "store_unamb", "store_sampled"}
         /\ \/ "store_progs" \in store /\ "store_none" \notin store
               /\ "store_readfail" \notin store
            \/ "store_progs" \notin store /\ "store_none" \in store
               /\ "store_readfail" \notin store
            \/ "store_progs" \notin store /\ "store_none" \notin store
               /\ "store_readfail" \in store
         /\ "store_unamb" \in store => "store_progs" \in store
         /\ "store_sampled" \in store =>
              "store_unamb" \in store /\ (stat["store_unamb"] + 1) % SampleEvery = 0
<1>1. CASE store = {"store_readfail"}
  BY <1>1
<1>2. CASE store = StoreCounts(hit) /\ hit = {}
  BY <1>2 DEF StoreCounts
<1>3. CASE store = StoreCounts(hit) /\ hit # {} /\ ~Unambiguous(hit)
  <2>1. store = {"store_progs"}
    BY <1>3 DEF StoreCounts
  <2> QED
    BY <2>1
<1>4. CASE store = StoreCounts(hit) /\ hit # {} /\ Unambiguous(hit)
  <2>1. store = {"store_progs", "store_unamb"} \cup
                  (IF (stat["store_unamb"] + 1) % SampleEvery = 0
                   THEN {"store_sampled"} ELSE {})
    BY <1>4 DEF StoreCounts
  <2> QED
    BY <2>1
<1> QED
  BY <1>1, <1>2, <1>3, <1>4

\* The counters: each sum and each bound survives the counters of one action.
LEMMA CountsStep == IInv /\ [Next]_vars => CountsAddUp'
<1> SUFFICES ASSUME IInv, [Next]_vars
             PROVE  CountsAddUp'
  OBVIOUS
<1>t. CountsAddUp /\ Own /\ stat \in [Counter -> Nat] /\ iters \in Nat
  BY FuzzAssumption DEF IInv, Typed, TypeOK
<1>n. \A c \in Counter : stat[c] \in Nat
  BY <1>t
<1>s. SampleEvery \in Nat \ {0}
  BY FuzzAssumption
<1>1. CASE \/ Start \/ SkipGate \/ NextProgram \/ Stop
           \/ SkipInput \/ Prepare \/ GiveUp \/ UNCHANGED vars
  <2>1. UNCHANGED <<stat, iters>>
    BY <1>1 DEF Start, SkipGate, SkipInput, Prepare, GiveUp, NextProgram, Stop, vars, loop
  <2> QED
    BY <1>t, <2>1 DEF CountsAddUp
<1>2. ASSUME NEW p \in Program, Load(p)
      PROVE  CountsAddUp'
  <2> DEFINE c0 == IF p.out = "accept" THEN "accepted" ELSE "rejected"
  <2>1. iters' = iters + 1 /\ stat' = Bump({c0})
    BY <1>2 DEF Load
  <2>2. c0 \in {"accepted", "rejected"}
    OBVIOUS
  <2> HIDE DEF c0
  <2>3. \A c \in Counter : stat'[c] = IF c = c0 THEN stat[c] + 1 ELSE stat[c]
    BY <1>t, <2>1, BumpCounts
  <2>4. \A c \in Counter \ {"accepted", "rejected"} : stat'[c] = stat[c]
    BY <2>2, <2>3
  <2>5. stat'["accepted"] + stat'["rejected"] = iters'
    <3>1. stat["accepted"] + stat["rejected"] = iters
      BY <1>t DEF CountsAddUp
    <3> QED
      BY <1>n, <1>t, <2>1, <2>2, <2>3, <3>1 DEF Counter
  <2> QED
    BY <1>t, <2>4, <2>5 DEF CountsAddUp, Counter
<1>3. CASE Gate
  <2> DEFINE cs == (IF prog.deep THEN {"prune_pairs"} ELSE {})
                   \cup (IF Resource(prog) THEN {"prune_artifacts"} ELSE {})
                   \cup (IF PruneFinding(prog) # {} THEN {"prune_flips"} ELSE {})
                   \cup InvariantCounts(prog)
  <2>1. iters' = iters /\ stat' = Bump(cs)
    BY <1>3 DEF Gate
  <2>2. InvariantCounts(prog) \subseteq {"inv_checked", "inv_faults"}
        /\ ("inv_faults" \in InvariantCounts(prog) =>
              "inv_checked" \in InvariantCounts(prog))
    BY DEF InvariantCounts
  <2>3. "prune_flips" \in cs => "prune_pairs" \in cs
    <3>1. PruneFinding(prog) # {} => prog.deep
      BY DEF PruneFinding
    <3> QED
      BY <2>2, <3>1
  <2>4. "inv_faults" \in cs => "inv_checked" \in cs
    BY <2>2
  <2>5. cs \subseteq {"prune_pairs", "prune_artifacts", "prune_flips",
                      "inv_checked", "inv_faults"}
    BY <2>2
  <2> HIDE DEF cs
  <2>6. \A c \in Counter : stat'[c] = IF c \in cs THEN stat[c] + 1 ELSE stat[c]
    BY <1>t, <2>1, BumpCounts
  <2>7. \A c \in Counter : c \notin cs => stat'[c] = stat[c]
    BY <2>6
  <2>8. stat'["prune_flips"] <= stat'["prune_pairs"]
    <3>1. stat["prune_flips"] <= stat["prune_pairs"]
      BY <1>t DEF CountsAddUp
    <3> QED
      BY <1>n, <2>3, <2>6, <3>1 DEF Counter
  <2>9. stat'["inv_faults"] <= stat'["inv_checked"]
    <3>1. stat["inv_faults"] <= stat["inv_checked"]
      BY <1>t DEF CountsAddUp
    <3> QED
      BY <1>n, <2>4, <2>6, <3>1 DEF Counter
  <2>10. \A c \in {"accepted", "rejected", "compared", "findings", "store_progs",
                   "store_none", "store_readfail", "store_unamb", "store_sampled",
                   "store_stale"} : stat'[c] = stat[c]
    BY <2>5, <2>7 DEF Counter
  <2> QED
    BY <1>t, <2>1, <2>8, <2>9, <2>10 DEF CountsAddUp
<1>4. ASSUME NEW readback \in BOOLEAN, Run(readback)
      PROVE  CountsAddUp'
  <2> DEFINE hit   == Left
             store == IF readback THEN StoreCounts(hit) ELSE {"store_readfail"}
             bad   == prog.wrong \/ (prog.reads /\ dirty # {})
             cs    == store \cup {"compared"} \cup (IF bad THEN {"findings"} ELSE {})
  <2>1. iters' = iters /\ stat' = Bump(cs)
    BY <1>4 DEF Run
  <2>2. PICK h : h = hit
    OBVIOUS
  <2>3. store \in {StoreCounts(h), {"store_readfail"}}
    BY <2>2
  <2> HIDE DEF store, bad
  <2>4. /\ store \subseteq {"store_progs", "store_none", "store_readfail",
                            "store_unamb", "store_sampled"}
        /\ \/ "store_progs" \in store /\ "store_none" \notin store
              /\ "store_readfail" \notin store
           \/ "store_progs" \notin store /\ "store_none" \in store
              /\ "store_readfail" \notin store
           \/ "store_progs" \notin store /\ "store_none" \notin store
              /\ "store_readfail" \in store
        /\ "store_unamb" \in store => "store_progs" \in store
        /\ "store_sampled" \in store =>
             "store_unamb" \in store /\ (stat["store_unamb"] + 1) % SampleEvery = 0
    BY <1>t, <2>3, NoneStale, StoreCountsOnce
  <2>5. /\ cs \subseteq store \cup {"compared", "findings"} /\ store \subseteq cs
        /\ "compared" \in cs
    OBVIOUS
  <2> HIDE DEF cs
  <2>6. \A c \in Counter : stat'[c] = IF c \in cs THEN stat[c] + 1 ELSE stat[c]
    BY <1>t, <2>1, BumpCounts
  <2>7. \A c \in {"accepted", "rejected", "prune_flips", "prune_pairs", "inv_faults",
                  "inv_checked", "store_stale"} : stat'[c] = stat[c]
    BY <2>4, <2>5, <2>6 DEF Counter
  <2>8. stat'["compared"] = stat["compared"] + 1
    BY <2>5, <2>6 DEF Counter
  <2>9. stat'["findings"] <= stat'["compared"]
    <3>1. stat["findings"] <= stat["compared"]
      BY <1>t DEF CountsAddUp
    <3> QED
      BY <1>n, <2>6, <2>8, <3>1 DEF Counter
  <2>10. \A c \in {"store_progs", "store_none", "store_readfail", "store_unamb",
                   "store_sampled"} :
           stat'[c] = IF c \in store THEN stat[c] + 1 ELSE stat[c]
    BY <2>5, <2>6 DEF Counter
  <2>11. stat'["store_progs"] + stat'["store_none"] + stat'["store_readfail"]
           = stat'["compared"]
    <3>1. stat["store_progs"] + stat["store_none"] + stat["store_readfail"]
            = stat["compared"]
      BY <1>t DEF CountsAddUp
    <3> QED
      BY <1>n, <2>4, <2>8, <2>10, <3>1 DEF Counter
  <2>12. stat'["store_unamb"] <= stat'["store_progs"]
    <3>1. stat["store_unamb"] <= stat["store_progs"]
      BY <1>t DEF CountsAddUp
    <3> QED
      BY <1>n, <2>4, <2>10, <3>1 DEF Counter
  <2>13. stat'["store_sampled"] * SampleEvery <= stat'["store_unamb"]
    <3>1. PICK s \in Nat, u \in Nat : s = stat["store_sampled"] /\ u = stat["store_unamb"]
      BY <1>n DEF Counter
    <3>2. s * SampleEvery <= u
      BY <1>t, <3>1 DEF CountsAddUp
    <3>3. CASE "store_sampled" \in store
      <4>1. stat'["store_sampled"] = s + 1 /\ stat'["store_unamb"] = u + 1
            /\ (u + 1) % SampleEvery = 0
        BY <2>4, <2>10, <3>1, <3>3
      <4>2. (s + 1) * SampleEvery <= u + 1
        BY <1>s, <3>2, <4>1, OneMore
      <4> QED
        BY <4>1, <4>2
    <3>4. CASE "store_sampled" \notin store
      <4>1. stat'["store_sampled"] = s /\ stat'["store_unamb"] \in {u, u + 1}
        BY <2>10, <3>1, <3>4
      <4>2. PICK k \in Int : k = s * SampleEvery
        BY <1>s
      <4>3. k <= u
        BY <3>2, <4>2
      <4> QED
        BY <4>1, <4>2, <4>3
    <3> QED
      BY <3>3, <3>4
  <2>14. stat'["store_stale"] = 0
    BY <1>t, <2>7 DEF CountsAddUp
  <2> QED
    BY <1>t, <2>1, <2>7, <2>9, <2>11, <2>12, <2>13, <2>14 DEF CountsAddUp
<1> QED
  BY <1>1, <1>2, <1>3, <1>4 DEF Next

-----------------------------------------------------------------------------
(* The theorems.                                                           *)

THEOREM Invariant == Spec => []IInv
<1>1. IInv /\ [Next]_vars => IInv'
  BY TypedStep, CleanStep, OwnStep, SaidStep, CountsStep, CoverStep DEF IInv
<1> QED
  BY <1>1, InitInv, PTL DEF Spec

\* Everything is of its type: the table never holds more addresses than it has
\* slots, the corpus and the store sites stay within their arrays, and every
\* finding names a program that was loaded.
THEOREM TypeCorrect == Spec => []TypeOK
<1>1. IInv => TypeOK
  BY DEF IInv, Typed
<1> QED
  BY <1>1, Invariant, PTL

\* Whatever was loaded before, however often and with whatever log, a sampled
\* block of a store pairs a program with its own log and with a byte that it
\* leaves on that input: the sampled site never describes another program.
THEOREM SampledBlocksAreOwn == Spec => []BlocksAreOwn
<1>1. IInv => BlocksAreOwn
  BY DEF IInv, Said
<1> QED
  BY <1>1, Invariant, PTL

\* A wrong result is reported of a program the kernel computes wrongly.  The map
\* keeps what every run left, also a run that was given up after the program ran;
\* yet a program that reads the map never meets it, because a run is reached only
\* through a clearing that worked, and nothing writes into the map in between.
THEOREM ResultFindingsAreReal == Spec => []ResultsAreReal
<1>1. IInv => ResultsAreReal
  BY DEF IInv, Said
<1> QED
  BY <1>1, Invariant, PTL

\* The STATUS line adds up after any number of programs: each program is
\* counted as accepted or rejected, nothing is found that was not looked at, each
\* compared run has one store result, and one in SampleEvery is sampled at most.
THEOREM StatusAddsUp == Spec => []CountsAddUp
<1>1. IInv => CountsAddUp
  BY DEF IInv
<1> QED
  BY <1>1, Invariant, PTL

\* The coverage count is the number of addresses in the table, each there once,
\* and it is what the corpus brought while the corpus has room; an address once
\* reported is in the table or its window is full.  For every hash, table and
\* window: an address is put only behind taken slots, and no slot is ever freed.
THEOREM CoverageIsAccounted == Spec => []CoverageAccounted
<1>1. IInv => CoverageAccounted
  BY DEF IInv, Cover, Found, Taken, Settled, CoverageAccounted
<1> QED
  BY <1>1, Invariant, PTL

\* What a desync says without a further assumption: the frequent load accepted
\* what the default load, with its full log, did not.
DesyncIsFlip ==
  \A f \in findings : f.kind = "prune_soundness_desync" =>
    f.prog \in Program /\ f.prog.freq = "accept" /\ Base(f.prog) # "accept"

\* A program whose full log does not fit its buffer, or whose default load stops
\* at a limit, is all that stands between a desync and unsound pruning (run
\* FuzzLoopDesync shows a log that does not fit): where every log fits and every
\* default load is decided, a desync is a rejection the frequent load missed.
THEOREM DesyncIsPruningWhereLogsFit ==
  ASSUME \A p \in Program : p.fits /\ p.out \in Decision
  PROVE  Spec => []DesyncIsPruning
<1>1. Init => DesyncIsFlip
  BY DEF Init, DesyncIsFlip
<1>2. IInv /\ DesyncIsFlip /\ [Next]_vars => DesyncIsFlip'
  <2> SUFFICES ASSUME IInv, DesyncIsFlip, [Next]_vars
               PROVE  DesyncIsFlip'
    OBVIOUS
  <2>1. CASE Gate
    <3>1. prog \in Program
      BY <2>1 DEF IInv, Typed, Gate
    <3>2. findings' \subseteq findings \cup PruneFinding(prog)
            \cup {[kind |-> "reg_invariants_violation", prog |-> prog]}
      BY <2>1 DEF Gate
    <3>3. \A f \in PruneFinding(prog) :
            f.prog = prog /\ (f.kind = "prune_soundness_desync" =>
                                prog.freq = "accept" /\ Base(prog) # "accept")
      BY <3>1, PrintedIsFlip
    <3>4. \A f \in findings' : f.kind = "prune_soundness_desync" =>
            f \in findings \/ f \in PruneFinding(prog)
      BY <3>2
    <3> QED
      BY <3>1, <3>3, <3>4 DEF DesyncIsFlip
  <2>2. CASE ~Gate
    <3>1. \A f \in findings' : f.kind = "prune_soundness_desync" => f \in findings
      <4>1. CASE \E readback \in BOOLEAN : Run(readback)
        <5>1. findings' \subseteq findings \cup {[kind |-> "result", prog |-> prog]}
          BY <4>1 DEF Run
        <5> QED
          BY <5>1
      <4>2. CASE \/ Start \/ SkipGate \/ NextProgram \/ Stop
                 \/ SkipInput \/ Prepare \/ GiveUp
                 \/ \E p \in Program : Load(p)
                 \/ UNCHANGED vars
        <5>1. findings' = findings
          BY <4>2 DEF Start, SkipGate, SkipInput, Prepare, GiveUp, NextProgram, Stop,
                      Load, vars, printed
        <5> QED
          BY <5>1
      <4> QED
        BY <2>2, <4>1, <4>2 DEF Next
    <3> QED
      BY <3>1 DEF DesyncIsFlip
  <2> QED
    BY <2>1, <2>2
<1>3. DesyncIsFlip => DesyncIsPruning
  <2> SUFFICES ASSUME DesyncIsFlip, NEW f \in findings, f.kind = "prune_soundness_desync"
               PROVE  f.prog.out = "verdict" /\ f.prog.freq = "accept"
    BY DEF DesyncIsPruning
  <2>1. f.prog \in Program /\ f.prog.freq = "accept" /\ Base(f.prog) # "accept"
    BY DEF DesyncIsFlip
  <2> QED
    BY <2>1 DEF Base, Decision
<1> QED
  BY <1>1, <1>2, <1>3, Invariant, PTL DEF Spec

=============================================================================
