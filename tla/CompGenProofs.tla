---------------------------- MODULE CompGenProofs ----------------------------
(***************************************************************************)
(* Proofs about the composition generator, for recipes of any length it    *)
(* allows, any draws, any number of programs and registers of any width:   *)
(* the arrays it fills are long enough, what it notes as proved is true of *)
(* every run of the program, and the store it calls safe is inside.        *)
(***************************************************************************)
EXTENDS CompGen, TLAPS

\* What a piece that comes at most once has beyond 7 instructions.
Extra == (IF "iter" \in used THEN 7 ELSE 0) + (IF "dynskb" \in used THEN 7 ELSE 0)
         + (IF "ringbuf" \in used THEN 13 ELSE 0) + (IF "skref" \in used THEN 7 ELSE 0)
         + (IF slice THEN 8 ELSE 0)

Recipe ==
  /\ step <= steps
  /\ prev2 # "none" => prev # "none"
  /\ pc = "emit" => step < steps /\ prev \in Pieces /\ Can(prev)

Room ==
  /\ stack > -440
  /\ pc \in {"walk", "emit"} => n <= 19 + 7 * step + Extra /\ parked <= 2 + 2 * step

Bounded ==
  /\ bound >= 0 => on \in Scalars
  /\ by = "link" => bound <= 14
  /\ BoundIsProven

IInv == TypeOK /\ Recipe /\ Room /\ ArraysFit /\ Bounded /\ StoreIsInside

-----------------------------------------------------------------------------
(* Types.                                                                  *)

\* The run's registers stay words, whichever way it goes.
LEMMA RunStaysWords ==
  ASSUME TypeOK
  PROVE  /\ r \in [Scalars -> Word] /\ NoRegs \in [Scalars -> Word]
         /\ \A x \in Scalars, v \in Word : [r EXCEPT ![x] = v] \in [Scalars -> Word]
         /\ \A x \in Scalars : /\ r[x] % 8 \in Word
                               /\ (IF r[x] <= 15 THEN r[x] ELSE 0) \in Word
         /\ \A x \in Scalars, d \in {0, LinkDelta} : (r[x] + d) % Top \in Word
<1>1. r \in [Scalars -> Word] /\ Top \in Nat /\ Top > 128
  BY CompGenAssumption DEF TypeOK
<1>2. NoRegs \in [Scalars -> Word]
  BY <1>1 DEF NoRegs, Word
<1>3. \A x \in Scalars : r[x] \in Nat /\ r[x] <= Top - 1
  BY <1>1 DEF Word
<1>4. \A x \in Scalars : r[x] % 8 \in Word
  <2> TAKE x \in Scalars
  <2>1. r[x] \in Nat /\ r[x] % 8 \in Nat /\ r[x] % 8 < 8
    BY <1>3
  <2> QED BY <2>1, <1>1 DEF Word
<1>5. \A x \in Scalars, d \in {0, LinkDelta} : (r[x] + d) % Top \in Word
  <2> TAKE x \in Scalars, d \in {0, LinkDelta}
  <2>1. r[x] + d \in Nat
    BY <1>3 DEF LinkDelta
  <2>2. \A v \in Nat : v % Top \in 0 .. Top - 1
    BY <1>1
  <2> QED BY <2>1, <2>2 DEF Word
<1> QED BY <1>1, <1>2, <1>3, <1>4, <1>5 DEF Word
\* A run that goes on has words in its registers.
LEMMA RunTyped ==
  ASSUME TypeOK, Piece
  PROVE  r' \in [Scalars -> Word] /\ alive' \in BOOLEAN
<1> USE RunStaysWords
<1>1. \A regs \in [Scalars -> Word] :
        Goes(regs) => r' \in [Scalars -> Word] /\ alive' \in BOOLEAN
  BY DEF Goes, TypeOK
<1>2. Leaves => r' \in [Scalars -> Word] /\ alive' \in BOOLEAN
  BY DEF Leaves
<1>3. \A regs \in [Scalars -> Word], stays \in BOOLEAN :
        GoesIf(stays, regs) => r' \in [Scalars -> Word] /\ alive' \in BOOLEAN
  BY <1>1, <1>2 DEF GoesIf
<1>4. \A x \in Scalars : GetsAny(x) => r' \in [Scalars -> Word] /\ alive' \in BOOLEAN
  BY <1>1, CompGenAssumption DEF GetsAny
<1>5. CASE Shape \/ Alu32
  BY <1>5, <1>4 DEF Shape, Alu32
<1>6. CASE Link
  <2> PICK a \in Scalars, b \in Scalars, d \in {0, LinkDelta} :
             Goes([r EXCEPT ![b] = (r[a] + d) % Top])
    BY <1>6 DEF Link
  <2>1. [r EXCEPT ![b] = (r[a] + d) % Top] \in [Scalars -> Word]
    OBVIOUS
  <2> QED BY <2>1, <1>1
<1>7. CASE Narrow
  <2> PICK x \in Scalars, b \in Bounds : GoesIf(r[x] <= b, r)
    BY <1>7 DEF Narrow
  <2>1. (r[x] <= b) \in BOOLEAN
    OBVIOUS
  <2> QED BY <2>1, <1>1, <1>2 DEF GoesIf, TypeOK
<1>8. CASE Spill
  BY <1>8, <1>1 DEF Spill, TypeOK
<1>9. CASE Loop
  <2> PICK x \in Scalars : Goes(r) \/ Goes([r EXCEPT ![x] = r[x] % 8])
    BY <1>9 DEF Loop
  <2>1. [r EXCEPT ![x] = r[x] % 8] \in [Scalars -> Word]
    OBVIOUS
  <2> QED BY <2>1, <1>1 DEF TypeOK
<1>10. CASE Iter
  <2>1. Goes([r EXCEPT ![6] = r[6] % 8]) /\ 6 \in Scalars
    BY <1>10 DEF Iter, Scalars
  <2>2. [r EXCEPT ![6] = r[6] % 8] \in [Scalars -> Word]
    BY <2>1
  <2> QED BY <2>1, <2>2, <1>1
<1>11. CASE Dynptr
  BY <1>11, <1>1, <1>2 DEF Dynptr
<1>12. CASE SkRef \/ Ringbuf \/ DynSkb \/ Pkt
  BY <1>12, <1>1, <1>2, <1>4 DEF SkRef, Ringbuf, DynSkb, Pkt
<1>13. CASE Call
  <2> PICK x \in Scalars : Goes([r EXCEPT ![x] = IF r[x] <= 15 THEN r[x] ELSE 0])
    BY <1>13 DEF Call
  <2>1. [r EXCEPT ![x] = IF r[x] <= 15 THEN r[x] ELSE 0] \in [Scalars -> Word]
    OBVIOUS
  <2> QED BY <2>1, <1>1
<1>14. CASE Relink
  <2> PICK b \in Scalars, off \in Scalars, dst \in Scalars, k2 \in Bounds :
             GoesIf((r[b] + LinkDelta) % Top <= k2 + LinkDelta,
                    [r EXCEPT ![off] = (r[b] + LinkDelta) % Top, ![dst] = r[b]])
    BY <1>14 DEF Relink
  <2>1. [r EXCEPT ![off] = (r[b] + LinkDelta) % Top, ![dst] = r[b]] \in [Scalars -> Word]
    OBVIOUS
  <2> QED BY <2>1, <1>1, <1>2 DEF GoesIf
<1> QED BY <1>5, <1>6, <1>7, <1>8, <1>9, <1>10, <1>11, <1>12, <1>13, <1>14 DEF Piece

\* What a piece does to the generator's own variables.
LEMMA PieceTyped ==
  ASSUME TypeOK, Recipe, Piece
  PROVE  /\ pc = "emit" /\ pc' = "walk" /\ step' = step + 1
         /\ UNCHANGED <<prog, steps, prev, prev2, pairs, triples, store>>
         /\ n' \in Nat /\ parked' \in Nat /\ stack' \in Int
         /\ slice' \in BOOLEAN /\ base' \in {0, 8, 16}
         /\ bound' \in {-1} \cup 1 .. 15 /\ on' \in {-1} \cup Scalars
         /\ by' \in {"none", "branch", "callee", "link"} /\ used' \subseteq Pieces
<1> USE CompGenAssumption DEF TypeOK, Pieces, Emits, Proves, Forgets, Holds, Plain, Once
<1>1. CASE Shape
  BY <1>1 DEF Shape
<1>2. CASE Alu32
  BY <1>2 DEF Alu32
<1>3. CASE Spill
  BY <1>3 DEF Spill
<1>4. CASE Loop
  BY <1>4 DEF Loop
<1>5. CASE Pkt
  BY <1>5 DEF Pkt
<1>6. CASE Iter
  BY <1>6 DEF Iter
<1>7. CASE SkRef
  BY <1>7 DEF SkRef
<1>8. CASE Ringbuf
  BY <1>8 DEF Ringbuf
<1>9. CASE DynSkb
  BY <1>9 DEF DynSkb
<1>10. CASE Link
  BY <1>10 DEF Link
<1>11. CASE Narrow
  BY <1>11 DEF Narrow
<1>12. CASE Dynptr
  BY <1>12 DEF Dynptr
<1>13. CASE Call
  BY <1>13 DEF Call
<1>14. CASE Relink
  BY <1>14 DEF Relink
<1> QED BY <1>1, <1>2, <1>3, <1>4, <1>5, <1>6, <1>7, <1>8, <1>9, <1>10, <1>11, <1>12, <1>13, <1>14 DEF Piece

-----------------------------------------------------------------------------
(* Room, and what is proved of a register.                                 *)

\* A piece takes at most 7 instructions and two jumps, or is one of those that
\* come once; below a stack that deep no piece takes any more of it.
LEMMA PieceRoom ==
  ASSUME TypeOK, Recipe, Room, Piece
  PROVE  Room'
<1> USE DEF Pieces, TypeOK, Recipe, Room, Extra, Can, Emits, Plain, Once
<1>0. pc = "emit" /\ pc' = "walk" /\ step' = step + 1
  BY PieceTyped
<1>1. CASE Shape
  BY <1>0, <1>1 DEF Shape
<1>2. CASE Alu32
  BY <1>0, <1>2 DEF Alu32
<1>3. CASE Spill
  BY <1>0, <1>3 DEF Spill
<1>4. CASE Loop
  BY <1>0, <1>4 DEF Loop
<1>5. CASE Pkt
  BY <1>0, <1>5 DEF Pkt
<1>6. CASE Call
  BY <1>0, <1>6 DEF Call
<1>7. CASE Iter
  BY <1>0, <1>7 DEF Iter
<1>8. CASE SkRef
  BY <1>0, <1>8 DEF SkRef
<1>9. CASE Ringbuf
  BY <1>0, <1>9 DEF Ringbuf
<1>10. CASE DynSkb
  BY <1>0, <1>10 DEF DynSkb
<1>11. CASE Link
  BY <1>0, <1>11 DEF Link
<1>12. CASE Narrow
  BY <1>0, <1>12 DEF Narrow
<1>13. CASE Dynptr
  BY <1>0, <1>13 DEF Dynptr
<1>14. CASE Relink
  BY <1>0, <1>14 DEF Relink
<1> QED BY <1>1, <1>2, <1>3, <1>4, <1>5, <1>6, <1>7, <1>8, <1>9, <1>10, <1>11, <1>12, <1>13, <1>14 DEF Piece

\* However long the recipe, 12 more instructions and one more jump fit.
LEMMA WalkFits ==
  ASSUME NEW k \in Nat, NEW m \in Nat, k <= 8, k <= m, NEW e \in 0 .. 42,
         NEW size \in Nat, size <= 19 + 7 * k + e,
         NEW jumps \in Nat, jumps <= 2 + 2 * k
  PROVE  /\ size <= 160 /\ size + 12 <= 160
         /\ jumps <= 2 * m + 4 /\ jumps + 1 <= 2 * m + 4
OBVIOUS

\* A run that has left stays away; one that is there now was there before.
LEMMA PieceBounded ==
  ASSUME TypeOK, Recipe, Bounded, Piece
  PROVE  Bounded'
<1> USE CompGenAssumption DEF TypeOK, Bounded, BoundIsProven
<1>1. CASE bound' = -1 /\ by' = "none"
  BY <1>1
<1>2. CASE Shape \/ Alu32 \/ Loop \/ Pkt \/ Link \/ Iter \/ SkRef \/ Ringbuf \/ DynSkb
  <2>1. bound' = -1 /\ by' = "none"
    BY <1>2 DEF Shape, Alu32, Loop, Pkt, Link, Iter, SkRef, Ringbuf, DynSkb, Forgets
  <2> QED BY <2>1, <1>1
<1>3. CASE Spill \/ Dynptr
  <2>1. UNCHANGED <<bound, on, by>> /\ (alive' => alive /\ r' = r)
    BY <1>3 DEF Spill, Dynptr, Holds, Goes, Leaves
  <2> QED BY <2>1
<1>4. CASE Narrow
  <2> PICK x \in Scalars, b \in Bounds : GoesIf(r[x] <= b, r) /\ Proves(x, b, "branch")
    BY <1>4 DEF Narrow
  <2>1. bound' = b /\ on' = x /\ by' = "branch" /\ (alive' => r[x] <= b /\ r' = r)
    BY DEF Proves, GoesIf, Goes, Leaves
  <2> QED BY <2>1
<1>5. CASE Call
  <2> PICK x \in Scalars :
             /\ Goes([r EXCEPT ![x] = IF r[x] <= 15 THEN r[x] ELSE 0])
             /\ Proves(x, 15, "callee")
    BY <1>5 DEF Call
  <2>1. bound' = 15 /\ on' = x /\ by' = "callee"
    BY DEF Proves
  <2>2. alive' => r' = [r EXCEPT ![x] = IF r[x] <= 15 THEN r[x] ELSE 0]
    BY DEF Goes
  <2>3. alive' => r'[x] <= 15
    BY <2>2
  <2> QED BY <2>1, <2>3
<1>6. CASE Relink
  <2> PICK b \in Scalars, off \in Scalars, dst \in Scalars, k2 \in Bounds \ {15} :
             /\ b # off /\ dst \notin {b, off}
             /\ GoesIf((r[b] + LinkDelta) % Top <= k2 + LinkDelta,
                       [r EXCEPT ![off] = (r[b] + LinkDelta) % Top, ![dst] = r[b]])
             /\ Proves(b, k2, "link")
    BY <1>6 DEF Relink
  <2>1. bound' = k2 /\ on' = b /\ by' = "link" /\ k2 \in 1 .. 14
    BY DEF Proves
  <2>2. alive' => /\ (r[b] + LinkDelta) % Top <= k2 + LinkDelta
                  /\ r' = [r EXCEPT ![off] = (r[b] + LinkDelta) % Top, ![dst] = r[b]]
    BY DEF GoesIf, Goes, Leaves
  <2>3. alive' => r'[b] = r[b]
    BY <2>2
  <2>4. r[b] \in Nat /\ r[b] < Top /\ Top \in Nat
    BY DEF Word
  <2>5. r[b] + 4 < Top => (r[b] + 4) % Top = r[b] + 4
    BY <2>4
  <2>6. alive' => r[b] <= k2 \/ r[b] >= Top - LinkDelta
    BY <2>1, <2>2, <2>4, <2>5 DEF LinkDelta
  <2> QED BY <2>1, <2>3, <2>6
<1> QED BY <1>2, <1>3, <1>4, <1>5, <1>6 DEF Piece

-----------------------------------------------------------------------------
(* The other steps.                                                        *)

LEMMA InitHolds == Init => IInv
<1> USE CompGenAssumption DEF Init
<1>1. Init => TypeOK
  <2>1. NoRegs \in [Scalars -> Word]
    BY DEF NoRegs, Word
  <2>2. NoStore.off \in Nat /\ NoStore.safe \in BOOLEAN /\ NoStore.unit \in Nat
    BY DEF NoStore
  <2>3. ASSUME Init PROVE store.off \in Nat /\ store.safe \in BOOLEAN /\ store.unit \in Nat
    BY <2>2, <2>3
  <2>4. ASSUME Init PROVE r \in [Scalars -> Word] /\ n \in Nat /\ parked \in Nat /\ stack \in Int
    BY <2>1, <2>4
  <2>5. ASSUME Init PROVE /\ prog \in 0 .. MaxProg
                          /\ step \in 0 .. MaxSteps /\ steps \in 0 .. MaxSteps
                          /\ bound \in {-1} \cup 1 .. 15 /\ on \in {-1} \cup Scalars
                          /\ base \in {0, 8, 16}
    BY <2>5
  <2> QED BY <2>3, <2>4, <2>5 DEF TypeOK
<1>2. Init => Recipe /\ Room /\ ArraysFit
  BY DEF Recipe, Room, ArraysFit, InsnRoom, ParkRoom
<1>3. Init => Bounded /\ StoreIsInside
  BY DEF Bounded, BoundIsProven, StoreIsInside
<1> QED BY <1>1, <1>2, <1>3 DEF IInv

LEMMA PieceStep ==
  ASSUME IInv, Piece
  PROVE  IInv'
<1> USE DEF IInv
<1>1. TypeOK'
  <2>1. step' \in 0 .. MaxSteps
    BY PieceTyped, CompGenAssumption DEF TypeOK, Recipe
  <2> QED BY <2>1, RunTyped, PieceTyped DEF TypeOK
<1>2. Recipe'
  BY PieceTyped, CompGenAssumption DEF TypeOK, Recipe
<1>3. Room'
  BY PieceRoom
<1>4. ArraysFit'
  <2>1. pc' = "walk" /\ step' \in Nat /\ step' <= 8 /\ step' <= MaxSteps
    BY PieceTyped, CompGenAssumption DEF Recipe, TypeOK
  <2>2. Extra' \in 0 .. 42
    BY DEF Extra
  <2>3. /\ n' \in Nat /\ n' <= 19 + 7 * step' + Extra'
        /\ parked' \in Nat /\ parked' <= 2 + 2 * step'
        /\ stack' \in Int /\ stack' > -440
    BY <1>1, <1>3, <2>1 DEF Room, TypeOK
  <2>4. MaxSteps \in Nat
    BY CompGenAssumption
  <2>5. n' <= 160 /\ parked' <= 2 * MaxSteps + 4
    BY <2>1, <2>2, <2>3, <2>4, WalkFits
  <2> QED BY <2>3, <2>5 DEF ArraysFit, InsnRoom, ParkRoom
<1>5. Bounded'
  BY PieceBounded
<1>6. StoreIsInside'
  BY PieceTyped DEF StoreIsInside
<1> QED BY <1>1, <1>2, <1>3, <1>4, <1>5, <1>6

LEMMA BeginStep ==
  ASSUME IInv, Begin
  PROVE  IInv'
<1> USE CompGenAssumption DEF IInv, Begin
<1>1. TypeOK'
  <2>1. NoStore.off \in Nat /\ NoStore.safe \in BOOLEAN /\ NoStore.unit \in Nat
    BY DEF NoStore
  <2>2. r' \in [Scalars -> Word]
    OBVIOUS
  <2>3. prog' \in 0 .. MaxProg /\ step' \in 0 .. MaxSteps /\ steps' \in 0 .. MaxSteps
    BY DEF TypeOK
  <2>4. /\ n' \in Nat /\ parked' \in Nat /\ stack' \in Int /\ base' \in {0, 8, 16}
        /\ bound' \in {-1} \cup 1 .. 15 /\ on' \in {-1} \cup Scalars
    OBVIOUS
  <2>5. pairs' \subseteq Pieces \X Pieces /\ triples' \subseteq Pieces \X Pieces \X Pieces
    BY DEF TypeOK
  <2>6. store'.off \in Nat /\ store'.safe \in BOOLEAN /\ store'.unit \in Nat
    BY <2>1
  <2> QED BY <2>2, <2>3, <2>4, <2>5, <2>6 DEF TypeOK
<1>2. Recipe' /\ Room' /\ ArraysFit'
  BY DEF Recipe, Room, Extra, ArraysFit, InsnRoom, ParkRoom
<1>3. Bounded' /\ StoreIsInside'
  BY DEF Bounded, BoundIsProven, StoreIsInside
<1> QED BY <1>1, <1>2, <1>3

LEMMA ChooseStep ==
  ASSUME IInv, Choose
  PROVE  IInv'
<1> USE DEF IInv
<1> PICK p \in Best :
           /\ prev' = p /\ prev2' = prev
           /\ pairs' = IF prev = "none" THEN pairs ELSE pairs \cup {<<prev, p>>}
           /\ triples' = IF prev2 = "none" THEN triples ELSE triples \cup {<<prev2, prev, p>>}
  BY DEF Choose
<1>1. /\ pc = "walk" /\ pc' = "emit" /\ step < steps
      /\ UNCHANGED <<prog, step, steps, room, said, r, alive, store>>
  BY DEF Choose, GoesOn
<1>2. p \in Pieces /\ Can(p)
  BY PoolAssumption DEF Best, Available
<1>3. pairs' \subseteq Pieces \X Pieces
  BY <1>2 DEF TypeOK
<1>4. triples' \subseteq Pieces \X Pieces \X Pieces
  <2>1. CASE prev2 = "none"
    BY <2>1 DEF TypeOK
  <2>2. CASE prev2 # "none" /\ prev # "none"
    BY <1>2, <2>2 DEF TypeOK
  <2> QED BY <2>1, <2>2 DEF Recipe
<1>5. TypeOK'
  BY <1>1, <1>2, <1>3, <1>4 DEF TypeOK, room, said
<1>6. Recipe'
  BY <1>1, <1>2 DEF Pieces, Recipe, Can, room, said
<1>7. Room' /\ ArraysFit'
  BY <1>1 DEF Room, Extra, ArraysFit, room, said
<1>8. Bounded' /\ StoreIsInside'
  BY <1>1 DEF Bounded, BoundIsProven, StoreIsInside, room, said
<1> QED BY <1>5, <1>6, <1>7, <1>8

\* Where the walk ends there is room for the epilogue and the callee.
LEMMA RoomAtTheEnd ==
  ASSUME IInv, pc = "walk"
  PROVE  n + 12 <= InsnRoom /\ parked + 1 <= ParkRoom
<1>1. step \in Nat /\ step <= 8 /\ step <= MaxSteps /\ MaxSteps \in Nat
  BY CompGenAssumption DEF IInv, TypeOK
<1>2. Extra \in 0 .. 42
  BY DEF Extra
<1>3. n \in Nat /\ parked \in Nat /\ n <= 19 + 7 * step + Extra /\ parked <= 2 + 2 * step
  BY DEF IInv, TypeOK, Room
<1> QED BY <1>1, <1>2, <1>3, WalkFits DEF InsnRoom, ParkRoom

\* A run that comes to a safe store has a register at most the bound, or one
\* that wraps, and either way the sum with the printed offset is in the value:
\* at the offset or beyond it, or up to the link's constant before it.
LEMMA SafeStoreInside ==
  ASSUME NEW v \in Word, NEW b \in 1 .. 15,
         v <= b \/ (b <= 14 /\ v >= Top - LinkDelta)
  PROVE  /\ (v + StoreOff(b)) % Top \in 0 .. Value - 1
         /\ \/ (v + StoreOff(b)) % Top \in StoreOff(b) .. StoreOff(b) + b
            \/ /\ ~(v <= b) /\ v >= Top - LinkDelta
               /\ (v + StoreOff(b)) % Top \in StoreOff(b) - LinkDelta .. StoreOff(b) - 1
<1> DEFINE s == v + (63 - b)
<1>1. Top \in Nat /\ Top > 128 /\ v \in Nat /\ v < Top /\ StoreOff(b) = 63 - b
  BY CompGenAssumption DEF Word, StoreOff, Value
<1>2. CASE v <= b
  <2>1. s \in Nat /\ s <= 63 /\ s < Top
    BY <1>1, <1>2
  <2>2. s % Top = s
    BY <1>1, <2>1
  <2>3. s \in 63 - b .. 63 - b + b
    BY <1>1, <1>2
  <2> QED BY <1>1, <2>1, <2>2, <2>3 DEF Value
<1>3. CASE ~(v <= b) /\ b <= 14 /\ v >= Top - LinkDelta
  <2>1. s - Top \in 0 .. 63 /\ s - Top \in 63 - b - LinkDelta .. 63 - b - 1
    BY <1>1, <1>3 DEF LinkDelta
  <2>2. s % Top = s - Top
    <3>1. \A q \in Nat : q < Top => (q + Top) % Top = q
      BY <1>1
    <3>2. s = (s - Top) + Top
      BY <1>1
    <3> QED BY <3>1, <3>2, <2>1, <1>1
  <2> QED BY <1>1, <1>3, <2>1, <2>2 DEF Value
<1> QED BY <1>2, <1>3

\* Every epilogue but for what is stored.
LEMMA EndsKeeps ==
  ASSUME IInv, NEW size \in 0 .. 2, NEW jumps \in 0 .. 1, Ends(size, jumps)
  PROVE  /\ pc = "walk" /\ pc' = "done"
         /\ n' \in Nat /\ parked' \in Nat /\ stack' = stack
         /\ Recipe' /\ Room' /\ ArraysFit'
<1> USE DEF IInv, TypeOK, Ends
<1>1. pc = "walk" /\ pc' = "done" /\ stack' = stack /\ n \in Nat /\ parked \in Nat
  OBVIOUS
<1>2. n' \in Nat /\ n' <= n + 12 /\ parked' \in Nat /\ parked' <= parked + 1
  OBVIOUS
<1>3. n' <= InsnRoom /\ parked' <= ParkRoom
  <2>1. InsnRoom \in Nat /\ ParkRoom \in Nat
    BY CompGenAssumption DEF InsnRoom, ParkRoom
  <2> QED BY <1>1, <1>2, <2>1, RoomAtTheEnd
<1>4. Recipe'
  BY <1>1 DEF Recipe, walk
<1>5. Room' /\ ArraysFit'
  BY <1>1, <1>3 DEF Room, ArraysFit
<1> QED BY <1>1, <1>2, <1>4, <1>5

LEMMA StoreThroughSliceStep ==
  ASSUME IInv, StoreThroughSlice
  PROVE  IInv'
<1> PICK off \in 0 .. 7 : store' = [off |-> base + off, safe |-> TRUE, unit |-> base + off]
  BY DEF StoreThroughSlice
<1>1. Ends(0, 0) /\ slice /\ UNCHANGED <<bound, on, by, r, alive>>
  BY DEF StoreThroughSlice
<1>2. /\ pc' = "done" /\ n' \in Nat /\ parked' \in Nat /\ stack' = stack
      /\ Recipe' /\ Room' /\ ArraysFit'
  BY <1>1, EndsKeeps
<1>3. store'.off = base + off /\ store'.unit = base + off /\ store'.safe = TRUE
  OBVIOUS
<1>4. base + off \in Nat /\ base + off <= 23
  BY DEF IInv, TypeOK
<1>5. TypeOK'
  BY <1>1, <1>2, <1>3, <1>4 DEF IInv, TypeOK, Ends, walk
<1>6. Bounded'
  BY <1>1 DEF IInv, Bounded, BoundIsProven
<1>7. StoreIsInside'
  BY <1>1, <1>3, <1>4 DEF StoreIsInside, Value, Ends
<1> QED BY <1>2, <1>5, <1>6, <1>7 DEF IInv

LEMMA StoreThroughValueStep ==
  ASSUME IInv, StoreThroughValue
  PROVE  IInv'
<1> PICK x \in Scalars : StoreVia(x, bound, bound >= 0 /\ on = x)
  BY DEF StoreThroughValue
<1>1. Ends(1, 0) /\ ~slice /\ slice' = slice /\ UNCHANGED <<bound, on, by, r, alive>>
  BY DEF StoreThroughValue, Ends
<1>2. /\ pc' = "done" /\ n' \in Nat /\ parked' \in Nat /\ stack' = stack
      /\ Recipe' /\ Room' /\ ArraysFit'
  BY <1>1, EndsKeeps
<1>3. r[x] \in Word /\ Top \in Nat /\ Top > 128 /\ r[x] \in Nat /\ bound \in {-1} \cup 1 .. 15
  BY CompGenAssumption DEF IInv, TypeOK, Word
<1> DEFINE safe == bound >= 0 /\ on = x
           at == IF safe THEN StoreOff(bound) ELSE 0
<1>4. at \in Nat
  BY <1>3 DEF StoreOff, Value
<1>5. store' = [off |-> at, safe |-> safe, unit |-> (r[x] + at) % Top]
  BY DEF StoreVia
<1>6. store'.off = at /\ store'.safe = safe /\ store'.unit = (r[x] + at) % Top
  BY <1>5
<1>7. (r[x] + at) % Top \in Nat
  BY <1>3, <1>4
<1>8. TypeOK'
  BY <1>1, <1>2, <1>4, <1>6, <1>7 DEF IInv, TypeOK, Ends, walk
<1>9. Bounded'
  BY <1>1 DEF IInv, Bounded, BoundIsProven
<1>10. StoreIsInside'
  <2> SUFFICES ASSUME alive, safe
               PROVE  /\ store'.unit \in 0 .. Value - 1
                      /\ \/ store'.unit \in at .. at + bound
                         \/ /\ by = "link" /\ r[x] >= Top - LinkDelta
                            /\ store'.unit \in at - LinkDelta .. at - 1
    BY <1>1, <1>6 DEF StoreIsInside
  <2>1. bound \in 1 .. 15 /\ at = StoreOff(bound)
    BY <1>3
  <2>2. r[x] <= bound \/ (by = "link" /\ bound <= 14 /\ r[x] >= Top - LinkDelta)
    BY <2>1 DEF IInv, Bounded, BoundIsProven
  <2>3. /\ (r[x] + StoreOff(bound)) % Top \in 0 .. Value - 1
        /\ \/ (r[x] + StoreOff(bound)) % Top \in StoreOff(bound) .. StoreOff(bound) + bound
           \/ /\ ~(r[x] <= bound) /\ r[x] >= Top - LinkDelta
              /\ (r[x] + StoreOff(bound)) % Top
                   \in StoreOff(bound) - LinkDelta .. StoreOff(bound) - 1
    BY <1>3, <2>1, <2>2, SafeStoreInside
  <2> HIDE DEF at
  <2> QED BY <1>6, <2>1, <2>2, <2>3
<1> QED BY <1>2, <1>8, <1>9, <1>10 DEF IInv

LEMMA NarrowAndStoreStep ==
  ASSUME IInv, NarrowAndStore
  PROVE  IInv'
<1> PICK x \in Scalars, b \in Bounds :
          Proves(x, b, "branch") /\ GoesIf(r[x] <= b, r) /\ StoreVia(x, b, TRUE)
  BY DEF NarrowAndStore
<1>1. Ends(2, 1) /\ ~slice /\ slice' = slice
  BY DEF NarrowAndStore, Ends
<1>2. /\ pc' = "done" /\ n' \in Nat /\ parked' \in Nat /\ stack' = stack
      /\ Recipe' /\ Room' /\ ArraysFit'
  BY <1>1, EndsKeeps
<1>3. r[x] \in Word /\ Top \in Nat /\ Top > 128 /\ r[x] \in Nat /\ b \in 1 .. 15
  BY CompGenAssumption DEF IInv, TypeOK, Word
<1>4. bound' = b /\ on' = x /\ by' = "branch" /\ alive' \in BOOLEAN
      /\ (alive' => r[x] <= b /\ r' = r) /\ r' \in [Scalars -> Word]
  BY RunStaysWords DEF IInv, TypeOK, Proves, GoesIf, Goes, Leaves
<1>5. store'.off = StoreOff(b) /\ store'.safe = TRUE /\ store'.unit = (r[x] + StoreOff(b)) % Top
  BY DEF StoreVia
<1>6. StoreOff(b) \in Nat /\ (r[x] + StoreOff(b)) % Top \in Nat
  BY <1>3 DEF StoreOff, Value
<1>7. TypeOK'
  BY <1>1, <1>2, <1>3, <1>4, <1>5, <1>6 DEF IInv, TypeOK, Ends, walk
<1>8. Bounded'
  BY <1>3, <1>4 DEF Bounded, BoundIsProven
<1>9. StoreIsInside'
  <2> SUFFICES ASSUME alive'
               PROVE  /\ store'.unit \in 0 .. Value - 1
                      /\ store'.unit \in store'.off .. store'.off + b
    BY <1>1, <1>4 DEF StoreIsInside
  <2>1. r[x] <= b
    BY <1>4
  <2>2. /\ (r[x] + StoreOff(b)) % Top \in 0 .. Value - 1
        /\ (r[x] + StoreOff(b)) % Top \in StoreOff(b) .. StoreOff(b) + b
    BY <1>3, <2>1, SafeStoreInside
  <2> QED BY <1>5, <2>2
<1> QED BY <1>2, <1>7, <1>8, <1>9 DEF IInv

-----------------------------------------------------------------------------
(* The theorems.                                                           *)

LEMMA Inductive == IInv /\ [Next]_vars => IInv'
<1> SUFFICES ASSUME IInv, [Next]_vars PROVE IInv'
  OBVIOUS
<1>1. CASE UNCHANGED vars
  BY <1>1 DEF IInv, TypeOK, Recipe, Room, Extra, Can, ArraysFit, Bounded, BoundIsProven,
              StoreIsInside, vars, walk, room, said
<1> QED BY <1>1, PieceStep, BeginStep, ChooseStep, StoreThroughSliceStep,
           StoreThroughValueStep, NarrowAndStoreStep DEF Next

LEMMA Invariant == Spec => []IInv
BY InitHolds, Inductive, PTL DEF Spec

\* Types of the generator's context and of the run beside it.
THEOREM TypeCorrect == Spec => []TypeOK
<1>1. IInv => TypeOK
  BY DEF IInv
<1> QED BY <1>1, Invariant, PTL

\* Neither the guard n < 130 nor an empty list of pieces ends a walk early.
THEOREM RecipesAreWhole == Spec => []RecipeIsWhole
<1>1. Init => RecipeIsWhole
  BY DEF Init, RecipeIsWhole
<1>2. IInv /\ RecipeIsWhole /\ [Next]_vars => RecipeIsWhole'
  <2> SUFFICES ASSUME IInv, RecipeIsWhole, [Next]_vars PROVE RecipeIsWhole'
    OBVIOUS
  <2>1. CASE UNCHANGED vars
    BY <2>1 DEF RecipeIsWhole, vars, walk
  <2>2. CASE Begin \/ Choose
    BY <2>2 DEF Begin, Choose, RecipeIsWhole
  <2>3. CASE Piece
    BY <2>3, PieceTyped DEF IInv, RecipeIsWhole
  <2>4. CASE StoreThroughSlice \/ StoreThroughValue \/ NarrowAndStore
    <3>1. pc = "walk" /\ ~GoesOn /\ UNCHANGED <<step, steps>>
      BY <2>4 DEF StoreThroughSlice, StoreThroughValue, NarrowAndStore, Ends, walk
    <3>2. n < WalkStops
      <4>1. step \in Nat /\ step <= 8 /\ n \in Nat /\ n <= 19 + 7 * step + Extra
        BY <3>1, CompGenAssumption DEF IInv, TypeOK, Room
      <4>2. Extra \in 0 .. 42
        BY DEF Extra
      <4>3. \A k, e \in Nat : k <= 8 /\ e <= 42 => 19 + 7 * k + e < 130
        OBVIOUS
      <4> QED BY <4>1, <4>2, <4>3 DEF WalkStops
    <3>3. Available # {}
      BY PoolAssumption DEF Available, Can
    <3>4. step \in Nat /\ steps \in Nat /\ step <= steps
      BY DEF IInv, TypeOK, Recipe
    <3> QED BY <3>1, <3>2, <3>3, <3>4 DEF GoesOn, RecipeIsWhole
  <2> QED BY <2>1, <2>2, <2>3, <2>4 DEF Next
<1> QED BY <1>1, <1>2, Invariant, PTL DEF Spec

\* run_comp_prog fills insns[], jexit[] and the stack without looking at an
\* index: whatever recipe of up to 8 pieces is drawn, it stays inside.
THEOREM RecipesFit == Spec => []ArraysFit
<1>1. IInv => ArraysFit
  BY DEF IInv
<1> QED BY <1>1, Invariant, PTL

\* What narrowed_max says of a register is true of every run of the program so
\* far, with the one exception of a base that wraps when the link adds to it.
THEOREM BoundsAreProven == Spec => []BoundIsProven
<1>1. IInv => BoundIsProven
  BY DEF IInv, Bounded
<1> QED BY <1>1, Invariant, PTL

\* A store that the epilogue takes for safe lands in the map value, in every run:
\* from the printed offset to the proved bound beyond it, or, of a base that
\* wraps in a link, up to 4 units before the offset.
THEOREM SafeStoresAreInside == Spec => []StoreIsInside
<1>1. IInv => StoreIsInside
  BY DEF IInv
<1> QED BY <1>1, Invariant, PTL

=============================================================================
