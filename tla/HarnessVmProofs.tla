-------------------------- MODULE HarnessVmProofs ---------------------------
(***************************************************************************)
(* Proofs about run-harness-vm.sh, for any invocations, OUT files, ports   *)
(* and numbers of program blocks.  The types hold however the runs         *)
(* overlap; what a run's files tell of it holds when they do not.          *)
(***************************************************************************)
EXTENDS HarnessVm, FiniteSetTheorems, SequenceTheorems, TLAPS

\* At most one run has a script or a VM.
Alone == \A q, r \in Run : q = r \/ Idle(q) \/ Idle(r)

\* A run of which no VM was started yet.
Unstarted ==
  \A r \in Run : pc[r] \in {"idle", "boot"} =>
    /\ code[r] = None /\ ~vm[r] /\ guest[r] = None
    /\ printed[r] = 0 /\ fate[r] = "unbooted"

\* The image holds the arguments of the run that is on.
ImageIsOwn == \A r \in Run : ~Idle(r) => rootfs = r

Logging(r) == pc[r] \in {"wait", "capture"} \/ vm[r]

\* A line of r's own VM, under the arguments its harness has.
Own(r, kind, n) == [vm |-> r, args |-> guest[r], kind |-> kind, n |-> n]

\* What the VM of run r printed after it came to nothing: the launch failed,
\* or the kernel died before the init script.
EarlyLog(r) ==
  /\ guest[r] = None /\ printed[r] = 0
  /\ serial = CASE fate[r] = "booted"   -> <<>>
                [] fate[r] = "unbooted" -> <<Own(r, "error", 0)>>
                [] OTHER                -> <<Own(r, "oops", 0)>>

Ended(r) == fate[r] \in {"ended", "late"}

\* Lines beside the program blocks.
Marks(r) == CASE fate[r] = "begun" -> 1 [] fate[r] = "late" -> 3 [] OTHER -> 2

\* ... and after its harness began.
HarnessLog(r) ==
  /\ guest[r] = r
  /\ Len(serial) = printed[r] + Marks(r)
  /\ serial[1] = Own(r, "begin", 0)
  /\ \A i \in 1 .. printed[r] : serial[i + 1] = Own(r, "prog", i)
  /\ Ended(r) => serial[printed[r] + 2] = Own(r, "end", 0)
  /\ fate[r] = "oopsed" => serial[printed[r] + 2] = Own(r, "oops", 0)
  /\ fate[r] = "late" => serial[printed[r] + 3] = Own(r, "oops", 0)

LogIsOf(r) ==
  /\ serial \in Seq(Line) /\ pos[r] = Len(serial)
  /\ vm[r] => fate[r] \in {"booted", "begun", "ended"}
  /\ \/ fate[r] \in {"unbooted", "booted", "oopsed"} /\ EarlyLog(r)
     \/ fate[r] \in {"begun", "ended", "oopsed", "late"} /\ HarnessLog(r)

\* The log is that of the run that is on, from its first line to its last.
LogIsOwn == \A r \in Run : Logging(r) => LogIsOf(r)

\* The script ends after its VM, unless it is killed.
ScriptOutlivesVm ==
  \A r \in Run :
    /\ pc[r] = "exited" <=> code[r] # None
    /\ pc[r] = "capture" => Ended(r)
    /\ pc[r] = "capture" \/ code[r] \in 0 .. 2 => ~vm[r]

\* OUT, when it is whole, is of a run that is over.
OutIsSettled ==
  \A f \in File : out[f] # None /\ out[f].whole => code[out[f].by] = 0

IInv == /\ TypeOK
        /\ Alone /\ Unstarted /\ ImageIsOwn /\ LogIsOwn /\ ScriptOutlivesVm
        /\ OutIsSettled /\ CaptureIsOwn /\ StatusTellsFate

-----------------------------------------------------------------------------
(* The log.                                                                *)

LEMMA NoneIsNothing == /\ None \notin Run /\ None \notin Line
                       /\ None \notin 0 .. 137 /\ None \notin Copy
  BY HarnessVmAssumption

\* A line at the end of a log is appended to it ...
LEMMA PutAtEnd ==
  ASSUME NEW S, NEW log \in Seq(S), NEW x
  PROVE  Put(log, Len(log) + 1, x) = Append(log, x)
<1>1. Len(log) \in Nat /\ log \in [1 .. Len(log) -> S]
  OBVIOUS
<1>2. Put(log, Len(log) + 1, x) =
        [j \in 1 .. Len(log) + 1 |-> IF j = Len(log) + 1 THEN x ELSE log[j]]
  BY <1>1 DEF Put
<1>3. Put(log, Len(log) + 1, x) \in Seq(S \cup {x})
  BY <1>1, <1>2
<1>4. /\ Append(log, x) \in Seq(S \cup {x}) /\ Len(Append(log, x)) = Len(log) + 1
      /\ \A j \in 1 .. Len(log) + 1 :
           Append(log, x)[j] = IF j = Len(log) + 1 THEN x ELSE log[j]
  BY <1>1
<1> QED
  BY <1>1, <1>2, <1>3, <1>4, SeqEqual

\* ... and a line anywhere leaves lines and holes.
LEMMA PutType ==
  ASSUME NEW log \in Seq(Line \cup {Hole}), NEW i \in Nat \ {0}, NEW x \in Line
  PROVE  Put(log, i, x) \in Seq(Line \cup {Hole})
<1> DEFINE n == IF i > Len(log) THEN i ELSE Len(log)
           e(j) == IF j = i THEN x ELSE IF j <= Len(log) THEN log[j] ELSE Hole
<1>1. n \in Nat /\ \A j \in 1 .. n : e(j) \in Line \cup {Hole}
  OBVIOUS
<1>2. Put(log, i, x) = [j \in 1 .. n |-> e(j)]
  BY DEF Put
<1> HIDE DEF n, e
<1> QED
  BY <1>1, <1>2

LEMMA MinOfNats ==
  ASSUME NEW I \in SUBSET Nat, I # {}
  PROVE  Min(I) \in I /\ \A i \in I : Min(I) <= i
<1> DEFINE Below == {1 .. i : i \in I}
<1>1. Below \subseteq FiniteSubsetsOf(Nat) /\ Below # {}
  <2>1. \A i \in I : 1 .. i \subseteq Nat /\ IsFiniteSet(1 .. i)
    BY FS_Interval
  <2> QED
    BY <2>1 DEF FiniteSubsetsOf
<1>2. PICK B \in Below : \A C \in Below : <<C, B>> \notin StrictSubsetOrdering(Nat)
  <2> HIDE DEF Below
  <2>1. IsWellFoundedOn(StrictSubsetOrdering(Nat), FiniteSubsetsOf(Nat))
    BY FS_StrictSubsetOrderingWellFounded
  <2> QED
    BY <1>1, <2>1, WFMin
<1>3. PICK m \in I : B = 1 .. m
  OBVIOUS
<1>4. \A i \in I : m <= i
  <2> SUFFICES ASSUME NEW i \in I, i < m
               PROVE  FALSE
    OBVIOUS
  <2>1. 1 .. i \subseteq B /\ m \in B /\ m \notin 1 .. i
    BY <1>3
  <2>2. 1 .. i \in SUBSET Nat /\ B \in SUBSET Nat
    BY <1>3
  <2> QED
    BY <1>2, <2>1, <2>2 DEF StrictSubsetOrdering
<1> QED
  BY <1>4 DEF Min

\* What sed takes from a log are lines of it.
LEMMA BlocksType ==
  ASSUME NEW log \in Seq(Line \cup {Hole})
  PROVE  Blocks(log) \in Seq(Line \cup {Hole})
<1> DEFINE Is(i, kind) == log[i] # Hole /\ log[i].kind = kind
           first == SelectInSeq(log, LAMBDA x : x # Hole /\ x.kind = "begin")
           ends  == {i \in first + 1 .. Len(log) : Is(i, "end")}
           last  == IF ends = {} THEN Len(log)
                    ELSE CHOOSE i \in ends : \A j \in ends : i <= j
<1>1. first \in Nat
  <2> DEFINE I == {i \in 1 .. Len(log) : log[i] # Hole /\ log[i].kind = "begin"}
  <2>1. first = IF I # {} THEN Min(I) ELSE 0
    BY DEF SelectInSeq
  <2>2. I \subseteq Nat
    OBVIOUS
  <2>3. I # {} => Min(I) \in I
    BY <2>2, MinOfNats DEF Min
  <2> QED
    BY <2>1, <2>2, <2>3
<1>2. last \in Int /\ last <= Len(log)
  <2> HIDE DEF first
  <2>1. ends \subseteq Nat
    BY <1>1
  <2>2. ends # {} => last = Min(ends)
    BY DEF Min
  <2>3. ends # {} => last \in ends
    BY <2>1, <2>2, MinOfNats
  <2>4. ends \subseteq 1 .. Len(log)
    BY <1>1
  <2>5. ends = {} => last = Len(log)
    OBVIOUS
  <2> HIDE DEF last
  <2> QED
    BY <2>3, <2>4, <2>5
<1>3. Blocks(log) = SubSeq(log, first + 1, last - 1)
  BY DEF Blocks
<1> HIDE DEF first, last
<1> QED
  BY <1>1, <1>2, <1>3, SubSeqProperties

-----------------------------------------------------------------------------
(* The types, however the runs overlap.                                    *)

LEMMA InitType == Init => TypeOK
  BY HarnessVmAssumption DEF Init, TypeOK, File

\* A line that is printed leaves the log and the offset of the right type.
LEMMA PrintsType ==
  ASSUME TypeOK, NEW r \in Run, guest' \in [Run -> Run \cup {None}],
         NEW kind \in Kind, NEW n \in 0 .. MaxProg, Prints(r, kind, n)
  PROVE  serial' \in Seq(Line \cup {Hole}) /\ pos' \in [Run -> Nat]
<1>1. [vm |-> r, args |-> guest'[r], kind |-> kind, n |-> n] \in Line
  BY DEF Line
<1>2. pos[r] + 1 \in Nat \ {0}
  BY DEF TypeOK
<1> QED
  BY <1>1, <1>2, PutType DEF Prints, TypeOK

LEMMA Kinds == {"error", "begin", "prog", "end", "oops"} \subseteq Kind
               /\ MaxProg \in Nat /\ 0 \in 0 .. MaxProg
  BY HarnessVmAssumption DEF Kind

LEMMA NextType == TypeOK /\ [Next]_vars => TypeOK'
<1> SUFFICES ASSUME TypeOK, [Next]_vars PROVE TypeOK'
  OBVIOUS
<1>0. CASE UNCHANGED vars
  BY <1>0 DEF vars, script, machine, files, TypeOK
<1>a. ASSUME NEW r \in Run PROVE OutOf[r] \in File
  BY DEF File
<1>1. ASSUME NEW r \in Run, Inject(r) PROVE TypeOK'
  BY <1>1 DEF Inject, machine, TypeOK
<1>2. ASSUME NEW r \in Run, Boot(r) PROVE TypeOK'
  <2>1. [vm |-> r, args |-> None, kind |-> "error", n |-> 0] \in Line
    BY HarnessVmAssumption DEF Line, Kind
  <2>2. serial' \in Seq(Line \cup {Hole}) /\ pos' \in [Run -> Nat]
    <3>1. /\ <<>> \in Seq(Line \cup {Hole})
          /\ Len(Truncated(serial)) = 0 /\ Len(Truncated(serial)) + 1 = 1
      BY DEF Truncated
    <3>2. Append(<<>>, [vm |-> r, args |-> None, kind |-> "error", n |-> 0])
            \in Seq(Line \cup {Hole})
      BY <2>1
    <3>3. serial' \in {<<>>, Append(<<>>, [vm |-> r, args |-> None,
                                           kind |-> "error", n |-> 0])}
      BY <1>2 DEF Boot, Truncated
    <3>4. \/ pos' = [pos EXCEPT ![r] = Len(Truncated(serial))]
          \/ pos' = [pos EXCEPT ![r] = Len(Truncated(serial)) + 1]
      BY <1>2 DEF Boot
    <3>5. pos' \in [Run -> Nat]
      <4>1. pos \in [Run -> Nat]
        BY DEF TypeOK
      <4>2. \/ pos' = [pos EXCEPT ![r] = 0]
            \/ pos' = [pos EXCEPT ![r] = 1]
        BY <3>1, <3>4
      <4> QED
        BY <4>1, <4>2
    <3> QED
      BY <3>1, <3>2, <3>3, <3>5
  <2> QED
    BY <1>2, <2>2 DEF Boot, TypeOK
<1>3. ASSUME NEW r \in Run, Begin(r) PROVE TypeOK'
  <2>1. guest' \in [Run -> Run \cup {None}]
    BY <1>3 DEF Begin, TypeOK
  <2>2. serial' \in Seq(Line \cup {Hole}) /\ pos' \in [Run -> Nat]
    BY <1>3, <2>1, PrintsType, Kinds DEF Begin
  <2> QED
    BY <1>3, <2>1, <2>2 DEF Begin, script, TypeOK
<1>4. ASSUME NEW r \in Run, Program(r) PROVE TypeOK'
  <2>0. guest' \in [Run -> Run \cup {None}]
    BY <1>4 DEF Program, TypeOK
  <2>1. printed[r] + 1 \in 0 .. MaxProg
    <3>1. printed[r] < MaxProg /\ printed[r] \in 0 .. MaxProg
      BY <1>4 DEF Program, TypeOK
    <3> QED
      BY <3>1, Kinds
  <2>2. serial' \in Seq(Line \cup {Hole}) /\ pos' \in [Run -> Nat]
    BY <1>4, <2>0, <2>1, PrintsType, Kinds DEF Program
  <2> QED
    BY <1>4, <2>1, <2>2 DEF Program, script, TypeOK
<1>5. ASSUME NEW r \in Run, End(r) PROVE TypeOK'
  <2>0. guest' \in [Run -> Run \cup {None}]
    BY <1>5 DEF End, TypeOK
  <2>2. serial' \in Seq(Line \cup {Hole}) /\ pos' \in [Run -> Nat]
    BY <1>5, <2>0, PrintsType, Kinds DEF End
  <2> QED
    BY <1>5, <2>2 DEF End, script, TypeOK
<1>6. ASSUME NEW r \in Run, Oops(r) PROVE TypeOK'
  <2>0. guest' \in [Run -> Run \cup {None}]
    BY <1>6 DEF Oops, TypeOK
  <2>2. serial' \in Seq(Line \cup {Hole}) /\ pos' \in [Run -> Nat]
    BY <1>6, <2>0, PrintsType, Kinds DEF Oops
  <2> QED
    BY <1>6, <2>2 DEF Oops, script, TypeOK
<1>7. ASSUME NEW r \in Run, PowerOff(r) \/ Timeout(r) PROVE TypeOK'
  <2>1. vm' = [vm EXCEPT ![r] = FALSE]
        /\ UNCHANGED <<script, guest, pos, printed, fate, files>>
    BY <1>7 DEF PowerOff, Timeout
  <2> QED
    BY <2>1 DEF script, files, TypeOK
<1>8. ASSUME NEW r \in Run, Found(r) \/ NoMarkers(r) PROVE TypeOK'
  <2>1. pc' \in [Run -> {"idle", "boot", "wait", "capture", "exited"}]
    BY <1>8 DEF Found, NoMarkers, Exit, TypeOK
  <2>2. code' \in [Run -> {None, 0, 1, 2, 137}]
    BY <1>8 DEF Found, NoMarkers, Exit, TypeOK
  <2>3. UNCHANGED <<machine, files>>
    BY <1>8 DEF Found, NoMarkers
  <2> QED
    BY <2>1, <2>2, <2>3 DEF machine, files, TypeOK
<1>b. ASSUME NEW r \in Run PROVE Partial(r) \in Copy
  BY DEF Partial, Copy
<1>9. ASSUME NEW r \in Run, Capture(r) PROVE TypeOK'
  <2>1. [by |-> r, lines |-> Blocks(serial), whole |-> TRUE] \in Copy
    BY BlocksType DEF TypeOK, Copy
  <2> QED
    BY <1>9, <1>a, <2>1 DEF Capture, Exit, machine, TypeOK
<1>10. ASSUME NEW r \in Run, CaptureFails(r) \/ Killed(r) PROVE TypeOK'
  <2>1. pc' \in [Run -> {"idle", "boot", "wait", "capture", "exited"}]
        /\ code' \in [Run -> {None, 0, 1, 2, 137}]
    BY <1>10 DEF CaptureFails, Killed, Exit, TypeOK
  <2>2. out' = out \/ out' = [out EXCEPT ![OutOf[r]] = Partial(r)]
    BY <1>10 DEF CaptureFails, Killed
  <2>3. crash' = crash \/ crash' = [crash EXCEPT ![OutOf[r]] = Partial(r)]
    BY <1>10 DEF CaptureFails, Killed
  <2>4. UNCHANGED <<machine, rootfs, serial, lost>>
    BY <1>10 DEF CaptureFails, Killed
  <2>5. /\ out' \in [File -> {None} \cup Copy] /\ crash' \in [File -> {None} \cup Copy]
    <3>1. OutOf[r] \in File /\ Partial(r) \in Copy
      BY <1>a, <1>b, <1>10
    <3>2. out \in [File -> {None} \cup Copy] /\ crash \in [File -> {None} \cup Copy]
      BY DEF TypeOK
    <3>3. out' \in [File -> {None} \cup Copy]
      BY <2>2, <3>1, <3>2
    <3>4. crash' \in [File -> {None} \cup Copy]
      BY <2>3, <3>1, <3>2
    <3> QED
      BY <3>3, <3>4
  <2> QED
    BY <2>1, <2>4, <2>5 DEF machine, TypeOK
<1>11. ASSUME NEW r \in Run, Crashed(r) PROVE TypeOK'
  <2>1. pc' \in [Run -> {"idle", "boot", "wait", "capture", "exited"}]
        /\ code' \in [Run -> {None, 0, 1, 2, 137}]
    <3>1. Exit(r, 1) \/ Exit(r, 2)
      BY <1>11 DEF Crashed
    <3>2. CASE Exit(r, 1)
      BY <3>2 DEF Exit, TypeOK
    <3>3. CASE Exit(r, 2)
      BY <3>3 DEF Exit, TypeOK
    <3> QED
      BY <3>1, <3>2, <3>3
  <2>2. [by |-> r, lines |-> serial, whole |-> TRUE] \in Copy
    BY DEF TypeOK, Copy
  <2>3. crash' \in [File -> {None} \cup Copy]
    BY <1>11, <1>a, <1>b, <2>2 DEF Crashed, TypeOK
  <2>4. lost' \in SUBSET Run /\ UNCHANGED <<machine, rootfs, serial, out>>
    BY <1>11 DEF Crashed, TypeOK
  <2> QED
    BY <2>1, <2>3, <2>4 DEF machine, TypeOK
<1> QED
  BY <1>0, <1>1, <1>2, <1>3, <1>4, <1>5, <1>6, <1>7, <1>8, <1>9, <1>10, <1>11
     DEF Next, Script, Guest

\* Every variable of the runs and of their files keeps its type, whether or not
\* runs overlap: a log with holes is still a log.
THEOREM TypeCorrect == Spec => []TypeOK
  BY InitType, NextType, PTL DEF Spec

-----------------------------------------------------------------------------
(* What the log of a run tells.                                            *)

\* Between the markers of a log that has them are its program blocks, whatever
\* follows the end marker.
LEMMA BlocksOfHarness ==
  ASSUME NEW log \in Seq(Line), NEW n \in Nat, Len(log) >= n + 2,
         log[1].kind = "begin", \A i \in 1 .. n : log[i + 1].kind = "prog",
         log[n + 2].kind = "end"
  PROVE  Blocks(log) = [i \in 1 .. n |-> log[i + 1]]
<1> DEFINE Is(i, kind) == log[i] # Hole /\ log[i].kind = kind
           first == SelectInSeq(log, LAMBDA x : x # Hole /\ x.kind = "begin")
           ends  == {i \in first + 1 .. Len(log) : Is(i, "end")}
           last  == IF ends = {} THEN Len(log)
                    ELSE CHOOSE i \in ends : \A j \in ends : i <= j
<1>0. \A i \in 1 .. Len(log) : log[i] # Hole
  <2>1. \A i \in 1 .. Len(log) : log[i] \in Line
    OBVIOUS
  <2> QED
    BY <2>1, NoneIsNothing DEF Hole
<1>1. first = 1
  <2> DEFINE I == {i \in 1 .. Len(log) : log[i] # Hole /\ log[i].kind = "begin"}
  <2>1. first = IF I # {} THEN Min(I) ELSE 0
    BY DEF SelectInSeq
  <2>2. 1 \in I /\ I \in SUBSET Nat
    BY <1>0
  <2>3. Min(I) \in I /\ Min(I) <= 1
    <3> HIDE DEF I
    <3> QED
      BY <2>2, MinOfNats
  <2> QED
    BY <2>1, <2>2, <2>3
<1>2. n + 2 \in ends /\ ends \subseteq Nat /\ \A i \in ends : n + 2 <= i
  <2>1. \A i \in 2 .. n + 1 : ~Is(i, "end")
    <3> SUFFICES ASSUME NEW i \in 2 .. n + 1
                 PROVE  log[i].kind # "end"
      OBVIOUS
    <3>1. i - 1 \in 1 .. n /\ i = (i - 1) + 1
      OBVIOUS
    <3> QED
      BY <3>1
  <2>2. Is(n + 2, "end")
    BY <1>0
  <2> HIDE DEF first, Is
  <2> QED
    BY <1>1, <2>1, <2>2
<1>3. last = n + 2
  <2> HIDE DEF ends
  <2>1. last \in ends /\ \A j \in ends : last <= j
    BY <1>2
  <2> HIDE DEF last
  <2> QED
    BY <1>2, <2>1
<1>4. Blocks(log) = SubSeq(log, 2, n + 1)
  <2>1. Blocks(log) = SubSeq(log, first + 1, last - 1)
    BY DEF Blocks
  <2> HIDE DEF first, last
  <2> QED
    BY <1>1, <1>3, <2>1
<1>5. /\ Blocks(log) \in Seq(Line) /\ Len(Blocks(log)) = n
      /\ \A i \in 1 .. n : Blocks(log)[i] = log[i + 1]
  <2>1. \A i \in 2 .. n + 1 : log[i] \in Line
    OBVIOUS
  <2> HIDE DEF first, ends, last
  <2> QED
    BY <1>4, <2>1, SubSeqProperties
<1> DEFINE blocks == [i \in 1 .. n |-> log[i + 1]]
<1>6. blocks \in Seq(Line) /\ Len(blocks) = n
  OBVIOUS
<1> HIDE DEF first, ends, last
<1> QED
  BY <1>5, <1>6, SeqEqual

LEMMA OnlyOne ==
  ASSUME Alone, NEW r \in Run, ~Idle(r), NEW q \in Run, q # r
  PROVE  Idle(q) /\ ~Logging(q)
  BY DEF Alone, Idle, Logging

\* Each greps true of a run exactly when the guest came to what it looks for.
LEMMA LogTells ==
  ASSUME TypeOK, LogIsOwn, NEW r \in Run, Logging(r)
  PROVE  /\ \A i \in DOMAIN serial : serial[i] # Hole /\ serial[i].vm = r
         /\ HasMarkers(serial) <=> Ended(r)
         /\ Has(serial, "oops") <=> fate[r] \in {"oopsed", "late"}
<1> DEFINE n == printed[r]
<1>1. n \in Nat /\ serial \in Seq(Line)
  BY NoneIsNothing, Kinds DEF TypeOK, LogIsOwn, LogIsOf
<1>2. \A i \in DOMAIN serial : serial[i] # Hole
  <2>1. \A i \in DOMAIN serial : serial[i] \in Line
    BY <1>1
  <2> QED
    BY <2>1, NoneIsNothing DEF Hole
<1>3. CASE EarlyLog(r) /\ fate[r] = "booted"
  <2>1. serial = <<>>
    BY <1>3 DEF EarlyLog
  <2> QED
    BY <1>3, <2>1 DEF HasMarkers, Has, Ended
<1>4. CASE EarlyLog(r) /\ fate[r] \in {"unbooted", "oopsed"}
  <2>1. /\ DOMAIN serial = {1} /\ serial[1].vm = r
        /\ serial[1].kind = IF fate[r] = "unbooted" THEN "error" ELSE "oops"
    BY <1>4 DEF EarlyLog, Own
  <2> QED
    BY <1>2, <1>4, <2>1 DEF HasMarkers, Has, Ended
<1>5. CASE HarnessLog(r) /\ fate[r] \in {"begun", "ended", "oopsed", "late"}
  <2>1. /\ DOMAIN serial = 1 .. Len(serial) /\ Len(serial) = n + Marks(r)
        /\ serial[1].vm = r /\ serial[1].kind = "begin"
    BY <1>1, <1>5 DEF HarnessLog, Own
  <2>2. \A i \in 2 .. n + 1 : serial[i].vm = r /\ serial[i].kind = "prog"
    <3> SUFFICES ASSUME NEW i \in 2 .. n + 1
                 PROVE  serial[i].vm = r /\ serial[i].kind = "prog"
      OBVIOUS
    <3>1. i - 1 \in 1 .. printed[r] /\ (i - 1) + 1 = i
      BY <1>1
    <3>2. serial[i] = Own(r, "prog", i - 1)
      BY <1>5, <3>1 DEF HarnessLog
    <3> QED
      BY <3>2 DEF Own
  <2>3. /\ Ended(r) =>
             serial[n + 2].vm = r /\ serial[n + 2].kind = "end"
        /\ fate[r] = "oopsed" =>
             serial[n + 2].vm = r /\ serial[n + 2].kind = "oops"
        /\ fate[r] = "late" =>
             serial[n + 3].vm = r /\ serial[n + 3].kind = "oops"
    BY <1>5 DEF HarnessLog, Own
  <2>4. \A i \in DOMAIN serial :
          \/ i = 1 \/ i \in 2 .. n + 1
          \/ i = n + 2 /\ fate[r] # "begun"
          \/ i = n + 3 /\ fate[r] = "late"
    BY <1>1, <1>5, <2>1 DEF Marks
  <2>5. /\ 1 \in DOMAIN serial /\ (fate[r] # "begun" => n + 2 \in DOMAIN serial)
        /\ fate[r] = "late" => n + 3 \in DOMAIN serial
    BY <1>1, <1>5, <2>1 DEF Marks
  <2> HIDE DEF n
  <2> QED
    BY <1>2, <1>5, <2>1, <2>2, <2>3, <2>4, <2>5 DEF HasMarkers, Has, Ended
<1> QED
  BY <1>3, <1>4, <1>5 DEF LogIsOwn, LogIsOf

-----------------------------------------------------------------------------
(* The invariant, when no run starts before another is over.               *)

LEMMA InitIInv == Init => IInv
<1> SUFFICES ASSUME Init PROVE IInv
  OBVIOUS
<1>1. TypeOK
  BY InitType
<1>2. Alone /\ Unstarted /\ ImageIsOwn /\ LogIsOwn
  BY DEF Init, Alone, Unstarted, ImageIsOwn, LogIsOwn, Idle, Logging
<1>3. ScriptOutlivesVm /\ StatusTellsFate
  BY NoneIsNothing DEF Init, ScriptOutlivesVm, StatusTellsFate
<1>4. OutIsSettled /\ CaptureIsOwn
  BY DEF Init, OutIsSettled, CaptureIsOwn
<1> QED
  BY <1>1, <1>2, <1>3, <1>4 DEF IInv

\* What was written of the runs that are over stays true when one that is not
\* takes a step and writes no file.
LEMMA FilesStay ==
  ASSUME IInv, UNCHANGED <<code, out, crash, lost>>,
         NEW r \in Run, vm[r] \/ code[r] = None,
         \A q \in Run \ {r} : fate'[q] = fate[q] /\ printed'[q] = printed[q]
  PROVE  OutIsSettled' /\ CaptureIsOwn' /\ StatusTellsFate'
<1>1. code[r] \in {None, 137} /\ None \notin 0 .. 137
  <2>1. code[r] \in {None, 0, 1, 2, 137}
    BY DEF IInv, TypeOK
  <2>2. code[r] \in 0 .. 2 => ~vm[r]
    BY DEF IInv, ScriptOutlivesVm
  <2> QED
    BY <2>1, <2>2, NoneIsNothing
<1>2. OutIsSettled'
  BY DEF IInv, OutIsSettled
<1>3. CaptureIsOwn'
  <2> SUFFICES ASSUME NEW f \in File, out[f] # None, out[f].whole
               PROVE  printed'[out[f].by] = printed[out[f].by]
    BY DEF IInv, CaptureIsOwn
  <2>1. code[out[f].by] = 0 /\ out[f].by \in Run
    BY DEF IInv, OutIsSettled, TypeOK, Copy
  <2> QED
    BY <1>1, <2>1
<1>4. StatusTellsFate'
  <2> SUFFICES ASSUME NEW q \in Run
               PROVE  /\ code[q] = 0 => fate'[q] \in {"ended", "late"}
                      /\ code[q] = 2 => fate'[q] = "oopsed"
                      /\ fate'[q] = "oopsed" /\ code[q] = 1 => q \in lost
    BY DEF IInv, StatusTellsFate
  <2>1. CASE q = r
    BY <1>1, <2>1
  <2>2. CASE q # r
    BY <2>2 DEF IInv, StatusTellsFate
  <2> QED
    BY <2>1, <2>2
<1> QED
  BY <1>2, <1>3, <1>4

LEMMA InjectStep ==
  ASSUME Exclusive, IInv, NEW r \in Run, Inject(r), TypeOK'
  PROVE  IInv'
<1>1. \A q \in Run : Idle(q)
  BY DEF Inject
<1>2. /\ pc[r] = "idle" /\ pc' = [pc EXCEPT ![r] = "boot"] /\ rootfs' = r
      /\ UNCHANGED <<code, vm, guest, pos, printed, fate, serial, out, crash, lost>>
  BY DEF Inject, machine
<1>3. \A q \in Run \ {r} : Idle(q)' /\ pc'[q] = pc[q]
  BY <1>1, <1>2 DEF Idle, IInv, TypeOK
<1>4. pc'[r] = "boot" /\ ~vm[r] /\ code[r] = None
  BY <1>1, <1>2 DEF Idle, IInv, TypeOK, Unstarted
<1>5. Alone' /\ ImageIsOwn'
  BY <1>2, <1>3 DEF Alone, ImageIsOwn
<1>6. Unstarted'
  BY <1>2, <1>3, <1>4 DEF IInv, Unstarted
<1>7. LogIsOwn'
  BY <1>2, <1>3, <1>4 DEF LogIsOwn, Logging, Idle
<1>8. ScriptOutlivesVm'
  BY <1>2, <1>3, <1>4, NoneIsNothing DEF IInv, ScriptOutlivesVm, Ended
<1>9. OutIsSettled' /\ CaptureIsOwn' /\ StatusTellsFate'
  BY <1>2, <1>4, FilesStay
<1> QED
  BY <1>5, <1>6, <1>7, <1>8, <1>9 DEF IInv

LEMMA BootStep ==
  ASSUME IInv, NEW r \in Run, Boot(r), TypeOK'
  PROVE  IInv'
<1> DEFINE error == [vm |-> r, args |-> None, kind |-> "error", n |-> 0]
<1>1. /\ pc[r] = "boot" /\ pc' = [pc EXCEPT ![r] = "wait"]
      /\ UNCHANGED <<code, guest, printed, rootfs, out, crash, lost>>
  BY DEF Boot
<1>2. \/ /\ vm' = [vm EXCEPT ![r] = TRUE] /\ fate' = [fate EXCEPT ![r] = "booted"]
         /\ serial' = <<>> /\ pos' = [pos EXCEPT ![r] = 0]
      \/ /\ UNCHANGED <<vm, fate>>
         /\ serial' = <<error>> /\ pos' = [pos EXCEPT ![r] = 1]
  BY DEF Boot, Truncated
<1>3. /\ code[r] = None /\ ~vm[r] /\ guest[r] = None /\ printed[r] = 0
      /\ fate[r] = "unbooted" /\ ~Idle(r)
  BY <1>1 DEF IInv, Unstarted, Idle
<1>4. \A q \in Run \ {r} : /\ Idle(q)' /\ pc'[q] = pc[q] /\ vm'[q] = vm[q]
                           /\ fate'[q] = fate[q]
  <2>1. \A q \in Run \ {r} : Idle(q)
    BY <1>3, OnlyOne DEF IInv
  <2> QED
    BY <1>1, <1>2, <2>1 DEF Idle, IInv, TypeOK
<1>5. Alone' /\ ImageIsOwn'
  BY <1>1, <1>3, <1>4 DEF Alone, ImageIsOwn, IInv
<1>6. Unstarted'
  BY <1>1, <1>4 DEF IInv, Unstarted, TypeOK
<1>7. LogIsOwn'
  <2>1. error \in Line
    BY HarnessVmAssumption DEF Line, Kind
  <2>2. \A q \in Run \ {r} : ~Logging(q)'
    BY <1>4 DEF Idle, Logging
  <2>3. CASE /\ vm' = [vm EXCEPT ![r] = TRUE] /\ fate' = [fate EXCEPT ![r] = "booted"]
             /\ serial' = <<>> /\ pos' = [pos EXCEPT ![r] = 0]
    <3>1. fate'[r] = "booted" /\ pos'[r] = 0 /\ serial' \in Seq(Line) /\ Len(serial') = 0
      BY <2>3 DEF IInv, TypeOK
    <3>2. EarlyLog(r)'
      BY <1>1, <1>3, <2>3, <3>1 DEF EarlyLog
    <3> QED
      BY <2>2, <3>1, <3>2 DEF LogIsOwn, LogIsOf
  <2>4. CASE /\ UNCHANGED <<vm, fate>>
             /\ serial' = <<error>> /\ pos' = [pos EXCEPT ![r] = 1]
    <3>1. /\ fate'[r] = "unbooted" /\ pos'[r] = 1 /\ serial' \in Seq(Line)
          /\ Len(serial') = 1 /\ ~vm'[r]
      BY <1>3, <2>1, <2>4 DEF IInv, TypeOK
    <3>2. EarlyLog(r)'
      BY <1>1, <1>3, <2>4, <3>1 DEF EarlyLog, Own
    <3> QED
      BY <2>2, <3>1, <3>2 DEF LogIsOwn, LogIsOf
  <2> QED
    BY <1>2, <2>3, <2>4
<1>8. ScriptOutlivesVm'
  <2>1. pc'[r] = "wait" /\ code'[r] = None /\ None \notin 0 .. 2
    BY <1>1, <1>3, NoneIsNothing DEF IInv, TypeOK
  <2>2. \A q \in Run \ {r} : pc'[q] = pc[q] /\ vm'[q] = vm[q] /\ fate'[q] = fate[q]
                           /\ code'[q] = code[q]
    BY <1>1, <1>4
  <2> QED
    BY <2>1, <2>2 DEF IInv, ScriptOutlivesVm, Ended
<1>9. OutIsSettled' /\ CaptureIsOwn' /\ StatusTellsFate'
  BY <1>1, <1>3, <1>4, FilesStay
<1> QED
  BY <1>5, <1>6, <1>7, <1>8, <1>9 DEF IInv

\* A step of the VM of run r disturbs nothing but what its log says of it.
LEMMA GuestStep ==
  ASSUME IInv, TypeOK', NEW r \in Run, vm[r], UNCHANGED <<script, rootfs, out, crash, lost>>,
         \A q \in Run \ {r} : /\ vm'[q] = vm[q] /\ guest'[q] = guest[q]
                              /\ printed'[q] = printed[q] /\ fate'[q] = fate[q],
         LogIsOf(r)'
  PROVE  IInv'
<1>1. UNCHANGED <<pc, code>> /\ ~Idle(r) /\ pc[r] \notin {"idle", "boot", "capture"}
  BY DEF script, Idle, IInv, Unstarted, ScriptOutlivesVm
<1>2. \A q \in Run \ {r} : Idle(q) /\ Idle(q)' /\ ~Logging(q)'
  <2>1. \A q \in Run \ {r} : Idle(q)
    BY <1>1, OnlyOne DEF IInv
  <2> QED
    BY <1>1, <2>1 DEF Idle, Logging
<1>3. Alone' /\ ImageIsOwn' /\ LogIsOwn'
  BY <1>1, <1>2 DEF IInv, Alone, ImageIsOwn, LogIsOwn
<1>4. Unstarted'
  BY <1>1 DEF IInv, Unstarted
<1>5. ScriptOutlivesVm'
  <2>1. pc[r] # "capture" /\ (code[r] \in 0 .. 2 => ~vm[r])
    BY <1>1 DEF IInv, ScriptOutlivesVm
  <2> QED
    BY <1>1, <2>1 DEF IInv, ScriptOutlivesVm, Ended
<1>6. OutIsSettled' /\ CaptureIsOwn' /\ StatusTellsFate'
  BY <1>1, FilesStay
<1> QED
  BY <1>3, <1>4, <1>5, <1>6 DEF IInv

\* What the VM of the run that is on prints comes next in the log.
LEMMA PrintsNext ==
  ASSUME IInv, NEW r \in Run, vm[r], guest'[r] \in Run \cup {None},
         NEW kind \in Kind, NEW n \in 0 .. MaxProg, Prints(r, kind, n)
  PROVE  /\ serial \in Seq(Line) /\ serial' = Append(serial, Own(r, kind, n)')
         /\ serial' \in Seq(Line) /\ Len(serial') = Len(serial) + 1
         /\ \A i \in 1 .. Len(serial) : serial'[i] = serial[i]
         /\ serial'[Len(serial) + 1] = Own(r, kind, n)'
         /\ pos'[r] = Len(serial') 
<1>1. serial \in Seq(Line) /\ pos[r] = Len(serial)
  BY DEF IInv, LogIsOwn, Logging, LogIsOf
<1>2. Own(r, kind, n)' \in Line
  BY DEF Own, Line
<1>3. serial' = Put(serial, Len(serial) + 1, Own(r, kind, n)')
  BY <1>1 DEF Prints, Own
<1>4. serial' = Append(serial, Own(r, kind, n)')
  BY <1>1, <1>3, PutAtEnd
<1>5. pos'[r] = Len(serial) + 1
  BY <1>1 DEF Prints, IInv, TypeOK
<1> QED
  BY <1>1, <1>2, <1>4, <1>5

LEMMA BeginStep ==
  ASSUME IInv, TypeOK', NEW r \in Run, Begin(r)
  PROVE  IInv'
<1>1. /\ vm[r] /\ fate[r] = "booted" /\ Prints(r, "begin", 0)
      /\ guest' = [guest EXCEPT ![r] = rootfs] /\ fate' = [fate EXCEPT ![r] = "begun"]
      /\ UNCHANGED <<script, vm, printed, rootfs, out, crash, lost>>
  BY DEF Begin
<1>2. rootfs = r /\ guest'[r] = r /\ fate'[r] = "begun"
  BY <1>1 DEF IInv, ImageIsOwn, Idle, TypeOK
<1>3. serial = <<>> /\ printed[r] = 0
  BY <1>1 DEF IInv, LogIsOwn, LogIsOf, Logging, EarlyLog, HarnessLog
<1>4. /\ serial' \in Seq(Line) /\ Len(serial') = 1 /\ pos'[r] = 1
      /\ serial'[1] = Own(r, "begin", 0)'
  <2>1. /\ serial' \in Seq(Line) /\ Len(serial') = Len(serial) + 1
        /\ serial'[Len(serial) + 1] = Own(r, "begin", 0)' /\ pos'[r] = Len(serial')
    BY <1>1, <1>2, PrintsNext, Kinds
  <2>2. Len(serial) = 0
    BY <1>3
  <2> QED
    BY <2>1, <2>2
<1>5. LogIsOf(r)'
  <2>1. HarnessLog(r)'
    BY <1>1, <1>2, <1>3, <1>4 DEF HarnessLog, Ended, Marks
  <2> QED
    BY <1>1, <1>2, <1>4, <2>1 DEF LogIsOf
<1> QED
  BY <1>1, <1>5, GuestStep

LEMMA ProgramStep ==
  ASSUME IInv, TypeOK', NEW r \in Run, Program(r)
  PROVE  IInv'
<1>0. PICK n : n = printed[r]
  OBVIOUS
<1>1. /\ vm[r] /\ fate[r] = "begun" /\ Prints(r, "prog", n + 1)
      /\ n < MaxProg /\ printed' = [printed EXCEPT ![r] = n + 1]
      /\ UNCHANGED <<script, vm, guest, fate, rootfs, out, crash, lost>>
  BY <1>0 DEF Program
<1>2. n \in 0 .. MaxProg /\ guest'[r] \in Run \cup {None} /\ printed'[r] = n + 1
  BY <1>0, <1>1 DEF IInv, TypeOK
<1>3. n \in Nat /\ n + 1 \in 0 .. MaxProg
  BY <1>1, <1>2, Kinds
<1>4. HarnessLog(r) /\ Len(serial) = n + 1
  BY <1>0, <1>1 DEF IInv, LogIsOwn, LogIsOf, Logging, HarnessLog, Ended, Marks
<1>5. \A kind, i : Own(r, kind, i)' = Own(r, kind, i)
  BY <1>1 DEF Own
<1>6. /\ serial' \in Seq(Line) /\ Len(serial') = n + 2 /\ pos'[r] = Len(serial')
      /\ \A i \in 1 .. n + 1 : serial'[i] = serial[i]
      /\ serial'[n + 2] = Own(r, "prog", n + 1)
  <2>1. /\ serial' \in Seq(Line) /\ Len(serial') = Len(serial) + 1
        /\ \A i \in 1 .. Len(serial) : serial'[i] = serial[i]
        /\ serial'[Len(serial) + 1] = Own(r, "prog", n + 1)' /\ pos'[r] = Len(serial')
    BY <1>1, <1>2, <1>3, PrintsNext, Kinds
  <2> QED
    BY <1>3, <1>4, <1>5, <2>1
<1>7. HarnessLog(r)'
  <2>1. serial'[1] = Own(r, "begin", 0) /\ guest'[r] = r
    BY <1>1, <1>3, <1>4, <1>6 DEF HarnessLog
  <2>2. \A i \in 1 .. n + 1 : serial'[i + 1] = Own(r, "prog", i)
    <3> SUFFICES ASSUME NEW i \in 1 .. n + 1
                 PROVE  serial'[i + 1] = Own(r, "prog", i)
      OBVIOUS
    <3>1. CASE i = n + 1
      BY <1>3, <1>6, <3>1
    <3>2. CASE i \in 1 .. n
      <4>1. i + 1 \in 1 .. n + 1 /\ i \in 1 .. printed[r]
        BY <1>0, <1>3, <3>2
      <4>2. serial[i + 1] = Own(r, "prog", i)
        BY <1>4, <4>1 DEF HarnessLog
      <4> QED
        BY <1>6, <4>1, <4>2
    <3> QED
      BY <1>3, <3>1, <3>2
  <2> QED
    BY <1>1, <1>2, <1>3, <1>5, <1>6, <2>1, <2>2 DEF HarnessLog, Ended, Marks
<1>8. LogIsOf(r)'
  BY <1>1, <1>6, <1>7 DEF LogIsOf
<1> QED
  BY <1>1, <1>8, GuestStep

\* The last line of a harness: the end marker, or an oops.
LEMMA LastLine ==
  ASSUME IInv, NEW r \in Run, vm[r], fate[r] = "begun", UNCHANGED <<guest, printed>>,
         NEW kind \in Kind, Prints(r, kind, 0),
         \/ fate'[r] = "ended" /\ kind = "end"
         \/ fate'[r] = "oopsed" /\ kind = "oops"
  PROVE  /\ HarnessLog(r)' /\ serial' \in Seq(Line) /\ pos'[r] = Len(serial')
<1>0. PICK n : n = printed[r]
  OBVIOUS
<1>1. n \in 0 .. MaxProg /\ guest'[r] \in Run \cup {None}
  BY <1>0 DEF IInv, TypeOK
<1>2. n \in Nat
  BY <1>1, Kinds
<1>3. HarnessLog(r) /\ Len(serial) = n + 1
  BY <1>0 DEF IInv, LogIsOwn, LogIsOf, Logging, HarnessLog, Ended, Marks
<1>4. \A k, i : Own(r, k, i)' = Own(r, k, i)
  BY DEF Own
<1>5. /\ serial' \in Seq(Line) /\ Len(serial') = n + 2 /\ pos'[r] = Len(serial')
      /\ \A i \in 1 .. n + 1 : serial'[i] = serial[i]
      /\ serial'[n + 2] = Own(r, kind, 0)
  <2>1. /\ serial' \in Seq(Line) /\ Len(serial') = Len(serial) + 1
        /\ \A i \in 1 .. Len(serial) : serial'[i] = serial[i]
        /\ serial'[Len(serial) + 1] = Own(r, kind, 0)' /\ pos'[r] = Len(serial')
    BY <1>1, PrintsNext, Kinds
  <2> QED
    BY <1>2, <1>3, <1>4, <2>1
<1>6. serial'[1] = Own(r, "begin", 0) /\ guest'[r] = r
  BY <1>2, <1>3, <1>5 DEF HarnessLog
<1>7. ASSUME NEW i \in 1 .. n PROVE serial'[i + 1] = Own(r, "prog", i)
  <2>1. i + 1 \in 1 .. n + 1 /\ i \in 1 .. printed[r]
    BY <1>0, <1>2
  <2>2. serial[i + 1] = Own(r, "prog", i)
    BY <1>3, <2>1 DEF HarnessLog
  <2> QED
    BY <1>5, <2>1, <2>2
<1>8. HarnessLog(r)'
  <2>1. printed'[r] = n
    BY <1>0
  <2> QED
    BY <1>2, <1>4, <1>5, <1>6, <1>7, <2>1 DEF HarnessLog, Ended, Marks
<1> QED
  BY <1>5, <1>8

LEMMA EndStep ==
  ASSUME IInv, TypeOK', NEW r \in Run, End(r)
  PROVE  IInv'
<1>1. /\ vm[r] /\ fate[r] = "begun" /\ Prints(r, "end", 0)
      /\ fate' = [fate EXCEPT ![r] = "ended"]
      /\ UNCHANGED <<script, vm, guest, printed, rootfs, out, crash, lost>>
  BY DEF End
<1>2. fate'[r] = "ended"
  BY <1>1 DEF IInv, TypeOK
<1>3. HarnessLog(r)' /\ serial' \in Seq(Line) /\ pos'[r] = Len(serial')
  BY <1>1, <1>2, LastLine, Kinds
<1>4. LogIsOf(r)'
  BY <1>2, <1>3 DEF LogIsOf
<1> QED
  BY <1>1, <1>4, GuestStep

LEMMA OopsStep ==
  ASSUME IInv, TypeOK', NEW r \in Run, Oops(r)
  PROVE  IInv'
<1>1. /\ vm[r] /\ fate[r] \in {"booted", "begun", "ended"} /\ Prints(r, "oops", 0)
      /\ fate' = [fate EXCEPT ![r] = IF @ = "ended" THEN "late" ELSE "oopsed"]
      /\ vm' = [vm EXCEPT ![r] = FALSE]
      /\ UNCHANGED <<script, guest, printed, rootfs, out, crash, lost>>
  BY DEF Oops
<1>2. /\ fate'[r] = IF fate[r] = "ended" THEN "late" ELSE "oopsed"
      /\ ~vm'[r] /\ guest'[r] \in Run \cup {None}
  BY <1>1 DEF IInv, TypeOK
<1>f. \A q \in Run \ {r} : /\ vm'[q] = vm[q] /\ guest'[q] = guest[q]
                           /\ printed'[q] = printed[q] /\ fate'[q] = fate[q]
  BY <1>1 DEF IInv, TypeOK
<1>3. CASE fate[r] = "begun"
  <2>1. HarnessLog(r)' /\ serial' \in Seq(Line) /\ pos'[r] = Len(serial')
    BY <1>1, <1>2, <1>3, LastLine, Kinds
  <2>2. LogIsOf(r)'
    BY <1>2, <1>3, <2>1 DEF LogIsOf
  <2> QED
    BY <1>1, <1>f, <2>2, GuestStep
<1>4. CASE fate[r] = "booted"
  <2>1. EarlyLog(r) /\ serial = <<>>
    BY <1>1, <1>4 DEF IInv, LogIsOwn, LogIsOf, Logging, EarlyLog, HarnessLog
  <2>2. /\ serial' = Append(serial, Own(r, "oops", 0)')
        /\ serial' \in Seq(Line) /\ pos'[r] = Len(serial')
    BY <1>1, <1>2, PrintsNext, Kinds
  <2>3. serial' = <<Own(r, "oops", 0)'>>
    BY <2>1, <2>2
  <2>4. EarlyLog(r)' /\ fate'[r] = "oopsed"
    BY <1>1, <1>2, <1>4, <2>1, <2>3 DEF EarlyLog
  <2>5. LogIsOf(r)'
    BY <1>2, <2>2, <2>4 DEF LogIsOf
  <2> QED
    BY <1>1, <1>f, <2>5, GuestStep
<1>5. CASE fate[r] = "ended"
  <2>0. PICK n : n = printed[r]
    OBVIOUS
  <2>1. n \in Nat
    BY <2>0, Kinds DEF IInv, TypeOK
  <2>2. HarnessLog(r) /\ Len(serial) = n + 2
    BY <1>1, <1>5, <2>0 DEF IInv, LogIsOwn, LogIsOf, Logging, HarnessLog, Marks
  <2>3. \A k, i : Own(r, k, i)' = Own(r, k, i)
    BY <1>1 DEF Own
  <2>4. /\ serial' \in Seq(Line) /\ Len(serial') = n + 3 /\ pos'[r] = Len(serial')
        /\ \A i \in 1 .. n + 2 : serial'[i] = serial[i]
        /\ serial'[n + 3] = Own(r, "oops", 0)
    <3>1. /\ serial' \in Seq(Line) /\ Len(serial') = Len(serial) + 1
          /\ \A i \in 1 .. Len(serial) : serial'[i] = serial[i]
          /\ serial'[Len(serial) + 1] = Own(r, "oops", 0)' /\ pos'[r] = Len(serial')
      BY <1>1, <1>2, PrintsNext, Kinds
    <3> QED
      BY <2>1, <2>2, <2>3, <3>1
  <2>5. /\ serial'[1] = Own(r, "begin", 0) /\ guest'[r] = r
        /\ serial'[n + 2] = Own(r, "end", 0)
    <3>1. /\ serial[1] = Own(r, "begin", 0) /\ guest[r] = r
          /\ serial[n + 2] = Own(r, "end", 0)
      BY <1>5, <2>0, <2>2 DEF HarnessLog, Ended
    <3>2. 1 \in 1 .. n + 2 /\ n + 2 \in 1 .. n + 2
      BY <2>1
    <3> QED
      BY <1>1, <2>4, <3>1, <3>2
  <2>6. ASSUME NEW i \in 1 .. n PROVE serial'[i + 1] = Own(r, "prog", i)
    <3>1. i + 1 \in 1 .. n + 2 /\ i \in 1 .. printed[r]
      BY <2>0, <2>1
    <3>2. serial[i + 1] = Own(r, "prog", i)
      BY <2>2, <3>1 DEF HarnessLog
    <3> QED
      BY <2>4, <3>1, <3>2
  <2>7. fate'[r] = "late" /\ printed'[r] = n
    BY <1>1, <1>2, <1>5, <2>0
  <2>8. HarnessLog(r)'
    BY <2>1, <2>3, <2>4, <2>5, <2>6, <2>7 DEF HarnessLog, Ended, Marks
  <2>9. LogIsOf(r)'
    BY <1>2, <2>4, <2>7, <2>8 DEF LogIsOf
  <2> QED
    BY <1>1, <1>f, <2>9, GuestStep
<1> QED
  BY <1>1, <1>3, <1>4, <1>5

\* PowerOff, and `timeout`.
LEMMA VmGoneStep ==
  ASSUME IInv, TypeOK', NEW r \in Run, vm[r], vm' = [vm EXCEPT ![r] = FALSE],
         UNCHANGED <<script, guest, pos, printed, fate, files>>
  PROVE  IInv'
<1>1. ~vm'[r]
  BY DEF IInv, TypeOK
<1>2. LogIsOf(r)
  BY DEF IInv, LogIsOwn, Logging
<1>3. UNCHANGED <<serial, rootfs, out, crash, lost>> /\ EarlyLog(r)' = EarlyLog(r)
      /\ HarnessLog(r)' = HarnessLog(r)
  BY DEF files, EarlyLog, HarnessLog, Own, Ended, Marks
<1>4. LogIsOf(r)'
  BY <1>1, <1>2, <1>3 DEF LogIsOf
<1>f. \A q \in Run \ {r} : /\ vm'[q] = vm[q] /\ guest'[q] = guest[q]
                           /\ printed'[q] = printed[q] /\ fate'[q] = fate[q]
  BY DEF IInv, TypeOK
<1> QED
  BY <1>3, <1>4, <1>f, GuestStep

\* A step of the script after the boot leaves the machine and its log alone.
LEMMA ScriptStep ==
  ASSUME IInv, NEW r \in Run, UNCHANGED <<machine, rootfs, serial>>,
         NEW at \in {"capture", "exited"}, pc' = [pc EXCEPT ![r] = at],
         pc[r] \in {"boot", "wait", "capture"}, at = "capture" => pc[r] = "wait",
         \A q \in Run \ {r} : code'[q] = code[q]
  PROVE  /\ Alone' /\ Unstarted' /\ ImageIsOwn' /\ LogIsOwn'
         /\ code[r] = None /\ pc'[r] = at
         /\ \A q \in Run \ {r} : pc'[q] = pc[q]
<1>1. UNCHANGED <<vm, guest, pos, printed, fate>> /\ pc[r] \notin {"idle", "exited"}
  BY DEF machine
<1>2. pc'[r] = at /\ \A q \in Run \ {r} : pc'[q] = pc[q]
  BY DEF IInv, TypeOK
<1>3. ~Idle(r) /\ code[r] = None
  BY <1>1 DEF Idle, IInv, ScriptOutlivesVm
<1>4. \A q \in Run \ {r} : Idle(q) /\ Idle(q)' /\ ~Logging(q)'
  <2>1. \A q \in Run \ {r} : Idle(q)
    BY <1>3, OnlyOne DEF IInv
  <2> QED
    BY <1>1, <1>2, <2>1 DEF Idle, Logging
<1>5. Alone' /\ ImageIsOwn'
  BY <1>1, <1>3, <1>4 DEF IInv, Alone, ImageIsOwn
<1>6. Unstarted'
  BY <1>1, <1>2 DEF IInv, Unstarted
<1>7. LogIsOwn'
  <2> SUFFICES ASSUME Logging(r)' PROVE LogIsOf(r)'
    BY <1>4 DEF LogIsOwn
  <2>1. LogIsOf(r)
    BY <1>1, <1>2 DEF Logging, IInv, LogIsOwn
  <2>2. EarlyLog(r)' = EarlyLog(r) /\ HarnessLog(r)' = HarnessLog(r)
    BY <1>1 DEF EarlyLog, HarnessLog, Own, Ended, Marks
  <2> QED
    BY <1>1, <2>1, <2>2 DEF LogIsOf
<1> QED
  BY <1>2, <1>3, <1>5, <1>6, <1>7

LEMMA FoundStep ==
  ASSUME IInv, TypeOK', NEW r \in Run, Found(r)
  PROVE  IInv'
<1>1. /\ pc[r] = "wait" /\ ~vm[r] /\ HasMarkers(serial)
      /\ pc' = [pc EXCEPT ![r] = "capture"] /\ UNCHANGED <<code, machine, files>>
  BY DEF Found
<1>2. UNCHANGED <<code, vm, printed, fate, rootfs, serial, out, crash, lost>>
  BY <1>1 DEF machine, files
<1>3. /\ Alone' /\ Unstarted' /\ ImageIsOwn' /\ LogIsOwn' /\ code[r] = None
      /\ pc'[r] = "capture" /\ \A q \in Run \ {r} : pc'[q] = pc[q]
  BY <1>1, <1>2, ScriptStep
<1>4. Ended(r)
  BY <1>1, LogTells DEF IInv, Logging
<1>5. ScriptOutlivesVm'
  BY <1>1, <1>2, <1>3, <1>4 DEF IInv, ScriptOutlivesVm, Ended
<1>6. OutIsSettled' /\ CaptureIsOwn' /\ StatusTellsFate'
  BY <1>2, <1>3, FilesStay
<1> QED
  BY <1>3, <1>5, <1>6 DEF IInv

WritesNothing(r) == \E x : out' = [out EXCEPT ![OutOf[r]] = x] /\ ~x.whole
WritesOwn(r) ==
  CaptureIsOwn' /\ \E x : out' = [out EXCEPT ![OutOf[r]] = x] /\ x.by = r

\* The script of run r exits with a status that its guest and its files bear out.
ExitOf(r, status) ==
  /\ pc[r] \in {"boot", "wait", "capture"} /\ Exit(r, status)
  /\ UNCHANGED <<machine, rootfs, serial>>
  /\ status # 137 => ~vm[r]
  /\ status = 0 => Ended(r)
  /\ lost \subseteq lost'
  /\ fate[r] = "oopsed" /\ status = 1 => r \in lost'
  /\ IF status = 2
     THEN /\ pc[r] = "wait" /\ fate[r] = "oopsed"
          /\ crash' = [crash EXCEPT ![OutOf[r]] =
                         [by |-> r, lines |-> serial, whole |-> TRUE]]
     ELSE UNCHANGED crash \/ crash' = [crash EXCEPT ![OutOf[r]] = Partial(r)]
  /\ \/ UNCHANGED out
     \/ status # 0 /\ WritesNothing(r)
     \/ status = 0 /\ WritesOwn(r)

LEMMA ExitStep ==
  ASSUME IInv, TypeOK', NEW r \in Run, NEW status \in {0, 1, 2, 137}, ExitOf(r, status)
  PROVE  IInv'
<1> DEFINE Log == [by |-> r, lines |-> serial, whole |-> TRUE]
<1>1. /\ pc' = [pc EXCEPT ![r] = "exited"] /\ code' = [code EXCEPT ![r] = status]
      /\ UNCHANGED <<vm, printed, fate>>
  BY DEF Exit, ExitOf, machine
<1>2. code'[r] = status /\ \A q \in Run \ {r} : code'[q] = code[q]
  BY <1>1 DEF IInv, TypeOK
<1>3. /\ Alone' /\ Unstarted' /\ ImageIsOwn' /\ LogIsOwn' /\ code[r] = None
      /\ pc'[r] = "exited" /\ \A q \in Run \ {r} : pc'[q] = pc[q]
  BY <1>1, <1>2, ScriptStep DEF ExitOf
<1>4. status # None /\ None \notin 0 .. 137
  BY NoneIsNothing
<1>5. ScriptOutlivesVm'
  BY <1>1, <1>2, <1>3, <1>4 DEF ExitOf, IInv, ScriptOutlivesVm, Ended
<1>6. OutIsSettled'
  <2> SUFFICES ASSUME NEW f \in File, out'[f] # None, out'[f].whole
               PROVE  code'[out'[f].by] = 0
    BY DEF OutIsSettled
  <2>1. CASE out'[f] = out[f]
    <3>1. code[out[f].by] = 0 /\ out[f].by \in Run
      BY <2>1 DEF IInv, OutIsSettled, TypeOK, Copy
    <3> QED
      BY <1>2, <1>3, <1>4, <2>1, <3>1
  <2>2. CASE out'[f] # out[f]
    <3>1. status = 0 /\ out'[f].by = r
      BY <2>2 DEF ExitOf, WritesNothing, WritesOwn, IInv, TypeOK
    <3> QED
      BY <1>2, <3>1
  <2> QED
    BY <2>1, <2>2
<1>7. CaptureIsOwn'
  <2> SUFFICES ASSUME status # 0 \/ UNCHANGED out,
                      NEW f \in File, out'[f] # None, out'[f].whole
               PROVE  out'[f].lines =
                        [i \in 1 .. printed[out'[f].by] |->
                           [vm |-> out'[f].by, args |-> out'[f].by, kind |-> "prog", n |-> i]]
    BY <1>1 DEF ExitOf, WritesOwn, CaptureIsOwn
  <2>1. out'[f] = out[f]
    BY DEF ExitOf, WritesNothing, WritesOwn, IInv, TypeOK
  <2> QED
    BY <2>1 DEF IInv, CaptureIsOwn
<1>8. ASSUME NEW f \in File
      PROVE  \/ crash'[f] = crash[f]
             \/ crash'[f] = Partial(r)
             \/ /\ status = 2 /\ f = OutOf[r]
                /\ crash'[f] = Log
  <2>1. TypeOK
    BY DEF IInv
  <2>2. crash \in [File -> {None} \cup Copy]
    BY <2>1 DEF TypeOK
  <2>3. \/ UNCHANGED crash
        \/ crash' = [crash EXCEPT ![OutOf[r]] = Partial(r)]
        \/ status = 2 /\ crash' = [crash EXCEPT ![OutOf[r]] = Log]
    BY DEF ExitOf
  <2> HIDE DEF Log
  <2> QED
    BY <2>2, <2>3
<1>9. Partial(r) # None /\ ~Partial(r).whole /\ Log # None
  <2>1. Partial(r) \in Copy /\ Log \in Copy
    BY DEF Partial, Copy, IInv, TypeOK
  <2> HIDE DEF Log
  <2>2. Partial(r) # None /\ Log # None
    BY <2>1, NoneIsNothing
  <2> QED
    BY <2>2 DEF Partial
<1>10. ASSUME NEW q \in Run
       PROVE  /\ code'[q] = 0 => fate[q] \in {"ended", "late"}
              /\ code'[q] = 2 => fate[q] = "oopsed" /\ crash'[OutOf[q]] # None
              /\ fate[q] = "oopsed" /\ code'[q] = 1 => q \in lost'
  <2>0. OutOf[q] \in File /\ OutOf[r] \in File
    BY DEF File
  <2>1. CASE q # r
    <3>1. /\ code[q] = 0 => fate[q] \in {"ended", "late"}
          /\ code[q] = 2 => fate[q] = "oopsed" /\ crash[OutOf[q]] # None
          /\ fate[q] = "oopsed" /\ code[q] = 1 => q \in lost
      BY DEF IInv, StatusTellsFate
    <3>2. lost \subseteq lost' /\ code'[q] = code[q]
      BY <1>2, <2>1 DEF ExitOf
    <3> HIDE DEF Log
    <3>3. crash[OutOf[q]] # None => crash'[OutOf[q]] # None
      BY <1>8, <1>9, <2>0
    <3> QED
      BY <3>1, <3>2, <3>3
  <2>2. CASE q = r
    <3>1. status = 2 => crash'[OutOf[r]] = Log /\ fate[r] = "oopsed"
      BY <2>0 DEF ExitOf, IInv, TypeOK
    <3> HIDE DEF Log
    <3>2. /\ status = 0 => fate[r] \in {"ended", "late"}
          /\ fate[r] = "oopsed" /\ status = 1 => r \in lost'
      BY DEF ExitOf, Ended
    <3> QED
      BY <1>2, <1>9, <2>2, <3>1, <3>2
  <2> QED
    BY <2>1, <2>2
<1>11. ASSUME NEW f \in File, crash'[f] # None, crash'[f].whole
       PROVE  /\ code'[crash'[f].by] = 2 /\ OutOf[crash'[f].by] = f
              /\ \E i \in DOMAIN crash'[f].lines :
                   LET x == crash'[f].lines[i]
                   IN  x # Hole /\ x.kind = "oops" /\ x.vm = crash'[f].by
  <2>1. CASE crash'[f] = crash[f]
    <3>1. /\ code[crash[f].by] = 2 /\ OutOf[crash[f].by] = f
          /\ \E i \in DOMAIN crash[f].lines :
               LET x == crash[f].lines[i]
               IN  x # Hole /\ x.kind = "oops" /\ x.vm = crash[f].by
      BY <1>11, <2>1 DEF IInv, StatusTellsFate
    <3>2. crash[f].by \in Run
      BY <1>11, <2>1 DEF IInv, TypeOK, Copy
    <3>3. crash[f].by # r
      BY <1>3, <1>4, <3>1
    <3> QED
      BY <1>2, <2>1, <3>1, <3>2, <3>3
  <2>2. CASE crash'[f] = Partial(r)
    BY <1>9, <1>11, <2>2
  <2>3. CASE /\ status = 2 /\ f = OutOf[r]
             /\ crash'[f] = Log
    <3>1. Logging(r) /\ TypeOK /\ LogIsOwn /\ fate[r] = "oopsed"
      BY <2>3 DEF ExitOf, Logging, IInv
    <3>2. PICK i \in DOMAIN serial : serial[i] # Hole /\ serial[i].kind = "oops"
      BY <3>1, LogTells DEF Has
    <3>3. serial[i].vm = r
      BY <3>1, LogTells
    <3> QED
      BY <1>2, <2>3, <3>2, <3>3
  <2> QED
    BY <1>8, <2>1, <2>2, <2>3
<1>12. StatusTellsFate'
  BY <1>1, <1>10, <1>11 DEF StatusTellsFate
<1> QED
  BY <1>3, <1>5, <1>6, <1>7, <1>12 DEF IInv

LEMMA CaptureStep ==
  ASSUME IInv, TypeOK', NEW r \in Run, Capture(r)
  PROVE  IInv'
<1> DEFINE x == [by |-> r, lines |-> Blocks(serial), whole |-> TRUE]
<1>1. /\ pc[r] = "capture" /\ out' = [out EXCEPT ![OutOf[r]] = x] /\ Exit(r, 0)
      /\ UNCHANGED <<machine, rootfs, serial, crash, lost>>
  BY DEF Capture
<1>2. Ended(r) /\ ~vm[r] /\ Logging(r)
  BY <1>1 DEF IInv, ScriptOutlivesVm, Logging
<1>3. /\ serial \in Seq(Line) /\ HarnessLog(r) /\ printed[r] \in Nat
  <2>1. LogIsOf(r) /\ printed[r] \in 0 .. MaxProg
    BY <1>2 DEF IInv, LogIsOwn, TypeOK
  <2> QED
    BY <1>2, <2>1, Kinds DEF LogIsOf, Ended
<1>4. Blocks(serial) =
        [i \in 1 .. printed[r] |-> [vm |-> r, args |-> r, kind |-> "prog", n |-> i]]
  <2>1. /\ guest[r] = r /\ Len(serial) >= printed[r] + 2
        /\ serial[1] = Own(r, "begin", 0)
        /\ \A i \in 1 .. printed[r] : serial[i + 1] = Own(r, "prog", i)
        /\ serial[printed[r] + 2] = Own(r, "end", 0)
    BY <1>2, <1>3 DEF HarnessLog, Ended, Marks
  <2>2. /\ serial[1].kind = "begin" /\ serial[printed[r] + 2].kind = "end"
        /\ \A i \in 1 .. printed[r] : serial[i + 1].kind = "prog"
    <3>1. \A kind, i : Own(r, kind, i).kind = kind
      BY DEF Own
    <3> QED
      BY <2>1, <3>1
  <2>3. Blocks(serial) = [i \in 1 .. printed[r] |-> serial[i + 1]]
    BY <1>3, <2>1, <2>2, BlocksOfHarness
  <2> QED
    BY <2>1, <2>3 DEF Own
<1>5. CaptureIsOwn'
  <2>1. UNCHANGED printed
    BY <1>1 DEF machine
  <2> SUFFICES ASSUME NEW f \in File, out'[f] # None, out'[f].whole
               PROVE  out'[f].lines =
                        [i \in 1 .. printed[out'[f].by] |->
                           [vm |-> out'[f].by, args |-> out'[f].by, kind |-> "prog", n |-> i]]
    BY <2>1 DEF CaptureIsOwn
  <2>2. CASE f = OutOf[r]
    <3>1. out'[f] = x
      BY <1>1, <2>2 DEF IInv, TypeOK
    <3> QED
      BY <1>4, <3>1
  <2>3. CASE f # OutOf[r]
    <3>1. out'[f] = out[f]
      BY <1>1, <2>3 DEF IInv, TypeOK
    <3> QED
      BY <3>1 DEF IInv, CaptureIsOwn
  <2> QED
    BY <2>2, <2>3
<1>6. x.by = r
  OBVIOUS
<1> HIDE DEF x
<1>7. WritesOwn(r)
  BY <1>1, <1>5, <1>6 DEF WritesOwn
<1>8. ExitOf(r, 0)
  BY <1>1, <1>2, <1>7 DEF ExitOf
<1> QED
  BY <1>8, ExitStep

LEMMA PartialIsNothing == ASSUME NEW r PROVE ~Partial(r).whole
  BY DEF Partial

LEMMA CaptureFailsStep ==
  ASSUME IInv, TypeOK', NEW r \in Run, CaptureFails(r)
  PROVE  IInv'
<1>1. /\ pc[r] = "capture" /\ Exit(r, 1)
      /\ UNCHANGED out \/ out' = [out EXCEPT ![OutOf[r]] = Partial(r)]
      /\ UNCHANGED <<machine, rootfs, serial, crash, lost>>
  BY DEF CaptureFails
<1>2. Ended(r) /\ ~vm[r]
  BY <1>1 DEF IInv, ScriptOutlivesVm
<1>3. UNCHANGED out \/ WritesNothing(r)
  BY <1>1, PartialIsNothing DEF WritesNothing
<1>4. ExitOf(r, 1)
  BY <1>1, <1>2, <1>3 DEF ExitOf, Ended
<1> QED
  BY <1>4, ExitStep

LEMMA CrashedStep ==
  ASSUME IInv, TypeOK', NEW r \in Run, Crashed(r)
  PROVE  IInv'
<1>1. /\ pc[r] = "wait" /\ ~vm[r] /\ ~HasMarkers(serial) /\ Has(serial, "oops")
      /\ UNCHANGED <<machine, rootfs, serial, out>>
  BY DEF Crashed, SeesCrash
<1>2. fate[r] = "oopsed"
  BY <1>1, LogTells DEF IInv, Logging, Ended
<1>3. ExitOf(r, 2) \/ ExitOf(r, 1)
  BY <1>1, <1>2 DEF Crashed, ExitOf
<1> QED
  BY <1>3, ExitStep

LEMMA NoMarkersStep ==
  ASSUME IInv, TypeOK', NEW r \in Run, NoMarkers(r)
  PROVE  IInv'
<1>1. /\ pc[r] = "wait" /\ ~vm[r] /\ ~Has(serial, "oops") /\ Exit(r, 1)
      /\ UNCHANGED <<machine, rootfs, serial, out, crash, lost>>
  BY DEF NoMarkers, files
<1>2. fate[r] # "oopsed"
  BY <1>1, LogTells DEF IInv, Logging
<1>3. ExitOf(r, 1)
  BY <1>1, <1>2 DEF ExitOf
<1> QED
  BY <1>3, ExitStep

LEMMA KilledStep ==
  ASSUME IInv, TypeOK', NEW r \in Run, Killed(r)
  PROVE  IInv'
<1>1. /\ pc[r] \in {"boot", "wait", "capture"} /\ Exit(r, 137)
      /\ UNCHANGED out \/ out' = [out EXCEPT ![OutOf[r]] = Partial(r)]
      /\ UNCHANGED crash \/ crash' = [crash EXCEPT ![OutOf[r]] = Partial(r)]
      /\ UNCHANGED <<machine, rootfs, serial, lost>>
  BY DEF Killed
<1>2. UNCHANGED out \/ WritesNothing(r)
  BY <1>1, PartialIsNothing DEF WritesNothing
<1>3. ExitOf(r, 137)
  BY <1>1, <1>2 DEF ExitOf
<1> QED
  BY <1>3, ExitStep

-----------------------------------------------------------------------------
LEMMA NextIInv == ASSUME Exclusive PROVE IInv /\ [Next]_vars => IInv'
<1> SUFFICES ASSUME IInv, [Next]_vars PROVE IInv'
  OBVIOUS
<1>1. TypeOK'
  BY NextType DEF IInv
<1>2. CASE UNCHANGED vars
  BY <1>2 DEF vars, script, machine, files, IInv, TypeOK, Alone, Unstarted, ImageIsOwn,
              LogIsOwn, LogIsOf, EarlyLog, HarnessLog, Own, Ended, Marks, Logging, Idle,
              ScriptOutlivesVm, OutIsSettled, CaptureIsOwn, StatusTellsFate
<1>3. ASSUME NEW r \in Run, Inject(r) \/ Script(r) \/ Killed(r)
      PROVE  IInv'
  BY <1>1, <1>3, InjectStep, BootStep, FoundStep, CaptureStep, CaptureFailsStep,
     CrashedStep, NoMarkersStep, KilledStep DEF Script
<1>4. ASSUME NEW r \in Run, Guest(r) \/ Timeout(r)
      PROVE  IInv'
  <2>1. CASE Begin(r) \/ Program(r) \/ End(r) \/ Oops(r)
    BY <1>1, <2>1, BeginStep, ProgramStep, EndStep, OopsStep
  <2>2. CASE PowerOff(r) \/ Timeout(r)
    BY <1>1, <2>2, VmGoneStep DEF PowerOff, Timeout
  <2> QED
    BY <1>4, <2>1, <2>2 DEF Guest
<1> QED
  BY <1>2, <1>3, <1>4 DEF Next

LEMMA Invariant == ASSUME Exclusive PROVE Spec => []IInv
  BY InitIInv, NextIInv, PTL DEF Spec

\* The OUT file a run wrote holds the program blocks that run's own VM printed,
\* all of them, in order, and nothing else: for any number of runs and blocks,
\* whichever runs share an OUT file or a port, as long as none starts before the
\* script and the VM of every other one are gone.
THEOREM CaptureOfOneRun == ASSUME Exclusive PROVE Spec => []CaptureIsOwn
<1>1. IInv => CaptureIsOwn
  BY DEF IInv
<1> QED
  BY <1>1, Invariant, PTL

\* The exit status of a run that ran alone names what happened to its guest
\* before the end marker, unless the log of a crash could not be copied, and a
\* whole crash log tells of the crash of the run that wrote it.
THEOREM StatusOfOneRun == ASSUME Exclusive PROVE Spec => []StatusTellsFate
<1>1. IInv => StatusTellsFate
  BY DEF IInv
<1> QED
  BY <1>1, Invariant, PTL

\* A run that ran alone and whose guest did not reach the end marker leaves OUT
\* as an earlier run left it.
THEOREM FailedRunKeepsOut == ASSUME Exclusive PROVE Spec => FailureKeepsOut
<1>1. IInv /\ [Next]_vars =>
        [\A r \in Run : code'[r] # code[r] /\ fate[r] \notin {"ended", "late"}
                        => UNCHANGED out]_vars
  <2> SUFFICES ASSUME IInv, NEW q \in Run,
                      Inject(q) \/ Script(q) \/ Guest(q) \/ Timeout(q) \/ Killed(q),
                      NEW r \in Run, code'[r] # code[r],
                      fate[r] \notin {"ended", "late"}
               PROVE  UNCHANGED out
    BY DEF Next
  <2>1. CASE Inject(q) \/ Boot(q) \/ Found(q) \/ Guest(q) \/ Timeout(q)
    BY <2>1 DEF Inject, Boot, Found, Guest, Begin, Program, End, Oops, PowerOff,
                Timeout, script, files
  <2>2. CASE Crashed(q) \/ NoMarkers(q)
    BY <2>2 DEF Crashed, NoMarkers, files
  <2>3. CASE Capture(q) \/ CaptureFails(q) \/ Killed(q)
    <3>1. r = q
      BY <2>3 DEF Capture, CaptureFails, Killed, Exit, IInv, TypeOK
    <3>2. pc[q] # "capture"
      BY <3>1 DEF IInv, ScriptOutlivesVm, Ended
    <3> QED
      BY <2>3, <3>2 DEF Capture, CaptureFails, Killed
  <2> QED
    BY <2>1, <2>2, <2>3 DEF Script
<1> QED
  BY <1>1, Invariant, PTL DEF Spec, FailureKeepsOut
=============================================================================
