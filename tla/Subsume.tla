------------------------------ MODULE Subsume -------------------------------
(***************************************************************************)
(* The two readers of prune pairs: harness/bpfsubs.h, which judges them in *)
(* the VM, and scripts/subsume-check.py, its reference.  Both read the log *)
(* the instrumented kernel wrote at its prunes, line by line, put the rows *)
(* together again into pairs of states, and decide each pair.  A capture   *)
(* holds the logs of several programs, and each may have lost its          *)
(* beginning.  Here the two read the same capture side by side.            *)
(***************************************************************************)
EXTENDS RegDomains, FiniteSets, FiniteSetsExt, Sequences

CONSTANTS Captures,   \* what a kernel may come to: the prunes of its loads, in order
          Cuts,       \* lines that may be missing at the beginning of a log
          M64, M32,   \* how many words a register and its lower half can be
          Bit,        \* bits of a tnum
          MaxReg,     \* SUBS_MAXREG, rows the C reader keeps of one side
          IdSlots,    \* slots of the C reader's id map
          FirstTmp,   \* the first id the verifier does not give out
          None

Prefix == [range : Int, head : Int, tail : Int]
Id == {NoId} \cup [base : 1 .. FirstTmp - 1, add : {"none", "add32", "add64"}]

\* A register: its type ("map_value" is all pointers of that family); its arcs
\* r64 and r32 as base and size; its tnum as sets of bits val and mask; ids as a
\* base with what is added to it; and pfx, what the kernel prints of its bytes:
\* the range, what precedes var_off, the rest.
Register ==
  [type : {"scalar", "map_value", "insn", "packet", "arena", "stack", "other"},
   prec : BOOLEAN, delta : Int, fno : Nat,
   r64 : Word(M64) \X Word(M64), r32 : Word(M32) \X Word(M32),
   val : SUBSET Bit, mask : SUBSET Bit, id : Id, pid : Id, pfx : Prefix]

\* Some registers by key: the frame pointer, at least, is always initialised.
IsState(s) ==
  /\ DOMAIN s # {} /\ DOMAIN s \subseteq Nat /\ IsFiniteSet(DOMAIN s)
  /\ \A k \in DOMAIN s : s[k] \in Register /\ WellFormed(s[k].val, s[k].mask)

ASSUME SubsumeAssumption ==
  /\ Cuts \subseteq Nat /\ 0 \in Cuts
  /\ M64 \in Nat \ {0} /\ M32 \in Nat \ {0}
  /\ MaxReg \in Nat \ {0} /\ IdSlots \in Nat /\ IdSlots >= 2 * MaxReg
  /\ FirstTmp \in Nat \ {0} /\ None \notin Prefix
  /\ \A prs \in Captures :
       /\ prs \in Seq([prog : Nat \ {0}, old : {p.old : p \in Range(prs)},
                       cur : {p.cur : p \in Range(prs)}, exact : BOOLEAN])
       /\ \A p \in Range(prs) : IsState(p.old) /\ IsState(p.cur)
       /\ \A m, n \in DOMAIN prs : m < n => prs[m].prog <= prs[n].prog

VARIABLES prunes,  \* the kernel's: its program, and two states, registers by key
          format,  \* "tip", or "era" for an older kernel's rows
          log,     \* the lines it printed, all programs'
          now,     \* of which state of which prune it prints, and what is left
          lost,    \* which lines the capture has lost
          calls,   \* what the C reader is called with: each "log", or the "capture"
          prog,    \* whose log is read
          at,      \* lines that are lost or read
          pc,
          c,       \* bpfsubs_compare_log's locals and its result
          py       \* parse_lines's locals; its pairs, and then Stats

kernelVars == <<prunes, format, log, now, lost, calls>>
vars == <<kernelVars, prog, at, pc, c, py>>

-----------------------------------------------------------------------------
(* The kernel: at each prune it prints the old state's registers, then the *)
(* current one's, each after a line with its bytes.                        *)

\* It comes to one side of prune n.
Turn(n, side) ==
  [of |-> n, side |-> side,
   left |-> IF n \in DOMAIN prunes THEN DOMAIN prunes[n][side] ELSE {}]

\* What is left after register k.
Onward(k) ==
  IF now.left # {k} THEN [now EXCEPT !.left = @ \ {k}]
  ELSE IF now.side = "old" THEN Turn(now.of, "cur") ELSE Turn(now.of + 1, "old")

\* An older kernel prints no bytes.
Lines(k) ==
  LET p   == prunes[now.of]
      reg == p[now.side][k]
      pfx == [kind |-> "pfx", of |-> now.of, side |-> now.side, key |-> k, pfx |-> reg.pfx]
      row == [kind |-> "row", of |-> now.of, side |-> now.side, key |-> k,
              exact |-> p.exact, reg |-> reg]
  IN  IF format = "tip" THEN <<pfx, row>> ELSE <<row>>

-----------------------------------------------------------------------------
(* regsafe, as both readers have it.                                       *)

RangeWithin(o, r) ==
  /\ Subset(M64, o.r64[1], o.r64[2], r.r64[1], r.r64[2])
  /\ Subset(M32, o.r32[1], o.r32[2], r.r32[1], r.r32[2])

Within(o, r) == RangeWithin(o, r) /\ TnumIn(o.val, o.mask, r.val, r.mask)

SameHead(o, r) == o.pfx.range = r.pfx.range /\ o.pfx.head = r.pfx.head

\* A negative range is a marker, and must be the same one.
PacketRange(o, r) ==
  IF o.pfx.range < 0 \/ r.pfx.range < 0 THEN o.pfx.range = r.pfx.range
  ELSE o.pfx.range <= r.pfx.range

\* A pointer's bytes and bounds, by the type both have.
PtrFits(o, r) ==
  CASE o.type = "arena" -> TRUE
    [] o.type \in {"map_value", "insn"} -> SameHead(o, r) /\ Within(o, r)
    [] o.type = "packet" -> PacketRange(o, r) /\ Within(o, r)
    [] OTHER -> o.pfx = r.pfx /\ (o.type = "stack" => o.fno = r.fno)

\* A pointer's ids: both, the first, or none.
PtrIds(slots, map, o, r) ==
  IF o.type \in {"arena", "insn"} THEN [ok |-> TRUE, map |-> map]
  ELSE LET first == CheckIds(slots, map, o.id, r.id)
       IN  IF first.ok /\ o.type # "packet"
           THEN CheckIds(slots, first.map, o.pid, r.pid) ELSE first

\* The flags of a scalar's id, and the delta behind them.
SameFlags(o, r) ==
  /\ o.id # NoId => o.id.add = r.id.add
  /\ o.id.add # "none" => o.delta = r.delta

\* What is known of a pair so far: the verdict, the id map and its next new
\* id, whether a range was compared, and the registers that were looked at.
Fresh == [verdict |-> "agree", map |-> <<>>, tmp |-> FirstTmp, ran |-> FALSE,
          scalar |-> 0, ptr |-> 0, shortcircuit |-> 0]

Break(acc) == [acc EXCEPT !.verdict = "break"]

OnPointer(slots, acc, old, cur) ==
  LET o == [old.reg EXCEPT !.pfx = old.pfx]
      r == [cur.reg EXCEPT !.pfx = cur.pfx]
      ids == PtrIds(slots, acc.map, o, r)
      looked == [acc EXCEPT !.ptr = @ + 1]
  IN  IF old.pfx = None \/ cur.pfx = None THEN acc
      ELSE IF PtrFits(o, r) /\ ids.ok THEN [looked EXCEPT !.map = ids.map]
      ELSE Break(looked)

OnScalar(slots, acc, o, r, exact) ==
  LET new == o.id # NoId /\ r.id = NoId
      id  == IF new THEN [base |-> acc.tmp, add |-> "none"] ELSE r.id
      ids == CheckScalarIds(slots, acc.map, o.id, id)
      looked == [acc EXCEPT !.map = ids.map, !.tmp = IF new THEN @ + 1 ELSE @,
                            !.ran = TRUE, !.scalar = @ + 1]
  IN  IF ~o.prec /\ ~exact THEN [acc EXCEPT !.shortcircuit = @ + 1]
      ELSE IF ~SameFlags(o, r) \/ ~ids.ok THEN Break(acc)
      ELSE IF Within(o, r) THEN looked ELSE Break(looked)

\* One register of the old state; the pair is decided at the first that fails.
OnRegister(slots, acc, old, curs, exact) ==
  IF acc.verdict # "agree" THEN acc
  ELSE IF old.key \notin DOMAIN curs THEN [acc EXCEPT !.verdict = "unmodelled"]
  ELSE LET cur == curs[old.key]
       IN  IF old.reg.type # cur.reg.type THEN Break(acc)
           ELSE IF old.reg.type = "scalar"
           THEN OnScalar(slots, acc, old.reg, cur.reg, exact)
           ELSE OnPointer(slots, acc, old, cur)

\* subs_eval and evaluate: the old registers in order, in one id map.
Eval(slots, olds, curs, exact) ==
  IF olds = <<>> \/ DOMAIN curs = {} THEN [Fresh EXCEPT !.verdict = "unmodelled"]
  ELSE LET acc[i \in 0 .. Len(olds)] ==
             IF i = 0 THEN Fresh ELSE OnRegister(slots, acc[i - 1], olds[i], curs, exact)
       IN  acc[Len(olds)]

NoCount == [pairs |-> 0, agree |-> 0, break |-> 0, unmodelled |-> 0,
            nontrivial |-> 0, scalar |-> 0, ptr |-> 0, shortcircuit |-> 0]

\* The counters after a pair has been judged.
Count(out, e, nontrivial) ==
  [[out EXCEPT !.pairs = @ + 1,
               !.nontrivial = IF nontrivial THEN @ + 1 ELSE @,
               !.scalar = @ + e.scalar, !.ptr = @ + e.ptr,
               !.shortcircuit = @ + e.shortcircuit]
     EXCEPT ![e.verdict] = @ + 1]

-----------------------------------------------------------------------------
(* The C reader: one pair at a time, judged when the next one opens, or at *)
(* the end of what it was called with.                                     *)

\* The rows that come before row j by their key, those of one key as they came.
Ahead(rows, j) ==
  {i \in DOMAIN rows : \/ rows[i].key < rows[j].key
                       \/ rows[i].key = rows[j].key /\ i < j}

ByKey(rows) ==
  [n \in DOMAIN rows |->
     rows[CHOOSE j \in DOMAIN rows : Cardinality(Ahead(rows, j)) = n - 1]]

\* subs_find: the first row with the key.
Found(rows) ==
  [k \in {rows[i].key : i \in DOMAIN rows} |->
     rows[Min({i \in DOMAIN rows : rows[i].key = k})]]

\* The pair is complete: it is judged and counted.
Closed(s) ==
  LET e == Eval(IdSlots, ByKey(s.old), Found(s.cur), s.exact)
  IN  [s EXCEPT !.out = Count(@, e, e.ran /\ e.verdict = "agree"),
                !.judged = @ \cup {[of |-> s.of, verdict |-> e.verdict]}]

AtEnd(s) == IF s.open THEN Closed(s) ELSE s

\* The locals of the next call.
Called(s) ==
  [s EXCEPT !.old = <<>>, !.cur = <<>>, !.exact = FALSE, !.of = 0, !.open = FALSE,
            !.prevOld = FALSE, !.pend = None]

\* (wrong on purpose) every run of old rows of another register opens a pair.
OpensAtEveryOld(s, line) == line.side = "old"

\* The first old row of all, and one after a current one, opens a pair.
Opens(s, line) == line.side = "old" /\ (~s.open \/ ~s.prevOld)

\* A row for which the array has no room is dropped.
AddRow(rows, row) == IF Len(rows) < MaxReg THEN Append(rows, row) ELSE rows

CRow(line) ==
  LET row  == [key |-> line.key, reg |-> line.reg, pfx |-> c.pend, of |-> line.of]
      done == IF Opens(c, line) /\ c.open THEN Closed(c) ELSE c
      s    == IF Opens(c, line)
              THEN [done EXCEPT !.old = <<>>, !.cur = <<>>, !.open = TRUE,
                                !.exact = line.exact, !.of = line.of]
              ELSE done
  IN  [s EXCEPT !.old = IF line.side = "old" THEN AddRow(@, row) ELSE @,
                !.cur = IF line.side = "cur" THEN AddRow(@, row) ELSE @,
                !.prevOld = (line.side = "old"),
                !.pend = None,
                !.rows = @ + 1]

-----------------------------------------------------------------------------
(* The Python reader: all pairs first, judged at the end.                  *)

\* A dictionary with one more entry, or a new one for its key.
With(rows, row) ==
  [k \in DOMAIN rows \cup {row.key} |-> IF k = row.key THEN row ELSE rows[k]]

\* parse_lines on a row: a pair is a run of old rows and the current ones
\* behind it, whosever they are; rows before the first pair are skipped.
PyRow(line) ==
  LET starts == line.side = "old" /\ (py.pairs = <<>> \/ py.pairs[Len(py.pairs)].done)
      row    == [key |-> line.key, reg |-> line.reg, pfx |-> py.pend, of |-> line.of]
      pair   == IF starts THEN [old |-> <<>>, cur |-> <<>>, done |-> FALSE,
                                exact |-> line.exact, of |-> line.of]
                ELSE py.pairs[Len(py.pairs)]
      filled == IF line.side = "old" THEN [pair EXCEPT !.old = With(@, row)]
                ELSE [pair EXCEPT !.cur = With(@, row), !.done = TRUE]
  IN  IF py.pairs = <<>> /\ ~starts THEN py
      ELSE [py EXCEPT
              !.pend = None,
              !.pairs = IF starts THEN Append(@, filled) ELSE [@ EXCEPT ![Len(@)] = filled]]

\* The n-th of the keys in S is the one with n - 1 below it.
Ascending(S) ==
  [n \in 1 .. Cardinality(S) |->
     CHOOSE k \in S : Cardinality({x \in S : x < k}) = n - 1]

\* run: each pair is judged in an id map of its own, which has no limit.
PyEval(p) ==
  LET keys == Ascending(DOMAIN p.old)
  IN  Eval(2 * Cardinality(DOMAIN p.old) + 1, [i \in DOMAIN keys |-> p.old[keys[i]]],
           p.cur, p.exact)

\* A range compared counts even if a later register breaks the pair.
PyCount(out, p) ==
  LET e == PyEval(p)
  IN  Count(out, e, e.ran /\ e.verdict # "unmodelled")

PyTotal(pairs) ==
  LET out[n \in 0 .. Len(pairs)] ==
        IF n = 0 THEN NoCount ELSE PyCount(out[n - 1], pairs[n])
  IN  out[Len(pairs)]

PyJudged ==
  [py EXCEPT
     !.out = PyTotal(py.pairs),
     !.judged = {[of |-> py.pairs[i].of, verdict |-> PyEval(py.pairs[i]).verdict]
                   : i \in DOMAIN py.pairs}]

-----------------------------------------------------------------------------
Init ==
  /\ prunes \in Captures /\ format \in {"tip", "era"} /\ calls \in {"log", "capture"}
  /\ log = <<>> /\ now = Turn(1, "old") /\ lost = {} /\ prog = 0 /\ at = 0 /\ pc = "kernel"
  /\ c = [old |-> <<>>, cur |-> <<>>, exact |-> FALSE, of |-> 0, open |-> FALSE,
          prevOld |-> FALSE, pend |-> None, out |-> NoCount, rows |-> 0,
          unsupported |-> 0, judged |-> {}]
  /\ py = [pairs |-> <<>>, pend |-> None, out |-> NoCount, judged |-> {}]

\* The kernel prints the next register, in the order of frames and registers.
KernelPrints ==
  /\ pc = "kernel" /\ now.left # {}
  /\ log' = log \o Lines(Min(now.left))
  /\ now' = Onward(Min(now.left))
  /\ UNCHANGED <<prunes, format, lost, calls, prog, at, pc, c, py>>

\* The program of a line.
ProgOf(i) == prunes[log[i].of].prog
Progs == {p.prog : p \in Range(prunes)}

\* The loads are over and their logs are read.  Each keeps its end: one that was
\* too long has lost lines.
LogsAreRead(cut) ==
  /\ pc = "kernel" /\ now.left = {}
  /\ lost' = {i \in DOMAIN log :
                Cardinality({j \in 1 .. i : ProgOf(j) = ProgOf(i)}) <= cut[ProgOf(i)]}
  /\ pc' = "read"
  /\ UNCHANGED <<prunes, format, log, now, calls, prog, at, c, py>>

\* The next line is another program's.  The Python reader passes over the header
\* between two logs and keeps its pair and the bytes; the C reader, if it is
\* called with each log, begins anew.
NewLog ==
  /\ pc = "read" /\ at < Len(log) /\ prog # ProgOf(at + 1)
  /\ prog' = ProgOf(at + 1)
  /\ c' = IF calls = "log" THEN Called(AtEnd(c)) ELSE c
  /\ UNCHANGED <<kernelVars, at, pc, py>>

\* The next line of the log is passed.
Advance ==
  /\ pc = "read" /\ at < Len(log) /\ prog = ProgOf(at + 1)
  /\ at' = at + 1
  /\ UNCHANGED <<kernelVars, prog, pc>>

\* A line that nobody reads.
LostLine == at + 1 \in lost /\ Advance /\ UNCHANGED <<c, py>>

\* The next line is read.
NextLine(kind) == at + 1 \notin lost /\ Advance /\ log[at + 1].kind = kind

\* A register's bytes are kept for the row behind them.
ReadPfx ==
  /\ NextLine("pfx")
  /\ c' = [c EXCEPT !.pend = log[at + 1].pfx]
  /\ py' = [py EXCEPT !.pend = log[at + 1].pfx]

ReadRow ==
  /\ format = "tip" /\ NextLine("row")
  /\ c' = CRow(log[at + 1])
  /\ py' = PyRow(log[at + 1])

\* (wrong on purpose) a row that cannot be read is only counted as seen.
Unreadable == [c EXCEPT !.rows = @ + 1]

\* A row that the C reader cannot parse: it says so.
Refused == [c EXCEPT !.rows = @ + 1, !.unsupported = @ + 1]

\* A row of an older kernel's format, which only the Python reader knows.
ReadEraRow ==
  /\ format = "era" /\ NextLine("row")
  /\ c' = Refused
  /\ py' = PyRow(log[at + 1])

\* The end of the capture.  How the Python reader judges an older format, by
\* the predicate of its time, is left out: its pairs are only counted.
Finish ==
  /\ pc = "read" /\ at = Len(log)
  /\ pc' = "done"
  /\ c' = AtEnd(c)
  /\ py' = IF format = "tip" THEN PyJudged
           ELSE [py EXCEPT !.out.pairs = Len(py.pairs)]
  /\ UNCHANGED <<kernelVars, prog, at>>

Next ==
  \/ KernelPrints
  \/ \E cut \in [Progs -> Cuts] : LogsAreRead(cut)
  \/ NewLog \/ LostLine
  \/ ReadPfx \/ ReadRow \/ ReadEraRow
  \/ Finish

Spec == Init /\ [][Next]_vars

-----------------------------------------------------------------------------
(* What the kernel's decision means: the current state is covered by the   *)
(* old one, as sets of values and up to one renaming of ids.               *)

\* What the parts of register r may be.
ValuesWithin(o, r) ==
  /\ ArcWords(M64, r.r64[1], r.r64[2]) \subseteq ArcWords(M64, o.r64[1], o.r64[2])
  /\ ArcWords(M32, r.r32[1], r.r32[2]) \subseteq ArcWords(M32, o.r32[1], o.r32[2])
  /\ TnumWords(Bit, r.val, r.mask) \subseteq TnumWords(Bit, o.val, o.mask)

\* Nothing is asked of a scalar that the program's safety did not depend on.
Matters(o, exact) == o.type # "scalar" \/ o.prec \/ exact

RegCovered(o, r) ==
  /\ o.type = r.type
  /\ o.type = "scalar" => SameFlags(o, r)
  /\ o.type \in {"scalar", "map_value", "insn", "packet"} => ValuesWithin(o, r)
  /\ o.type \in {"map_value", "insn"} => SameHead(o, r)
  /\ o.type = "packet" => PacketRange(o, r)
  /\ o.type \in {"stack", "other"} => o.pfx = r.pfx
  /\ o.type = "stack" => o.fno = r.fno

\* The pairs of ids of one register that have to be the same: an id that the
\* current scalar lacks is one nobody else has.
IdPairs(key, o, r) ==
  LET unique == [base |-> FirstTmp + key, add |-> "none"]
      id == IF r.id = NoId THEN unique ELSE r.id
  IN  CASE o.type = "scalar" -> IF o.id = NoId THEN {}
                                ELSE {Mapped(o.id, id), Mapped(BaseOf(o.id), BaseOf(id))}
        [] o.type = "packet" -> {Mapped(o.id, r.id)}
        [] o.type \in {"map_value", "stack", "other"} ->
             {Mapped(o.id, r.id), Mapped(o.pid, r.pid)}
        [] OTHER -> {}

Covered(p) ==
  LET compared == {k \in DOMAIN p.old : k \in DOMAIN p.cur => Matters(p.old[k], p.exact)}
  IN  /\ \A k \in DOMAIN p.old :
           k \in DOMAIN p.cur /\ p.old[k].type = p.cur[k].type
      /\ \A k \in compared : RegCovered(p.old[k], p.cur[k])
      /\ OneToOne({Mapped(NoId, NoId)}
                  \cup UNION {IdPairs(k, p.old[k], p.cur[k]) : k \in compared})

-----------------------------------------------------------------------------
(* Properties.                                                             *)

Prune == DOMAIN prunes
Captured == DOMAIN log \ lost

\* The rows of a side of prune n that are in the capture.
RowsOf(n, side) ==
  {i \in Captured : log[i].kind = "row" /\ log[i].of = n /\ log[i].side = side}

\* The capture has all lines of prune n; some old row of it; some row, but no old one.
Whole(n) == \A i \in DOMAIN log : log[i].of = n => i \in Captured
Opened(n) == RowsOf(n, "old") # {}
Headless(n) == ~Opened(n) /\ RowsOf(n, "cur") # {}

\* Behind prune n comes a log without its beginning, whose first rows go into
\* n's pair.
Overrun(n) ==
  /\ Opened(n)
  /\ \E m \in Prune : n < m /\ Headless(m) /\ \A k \in n + 1 .. m - 1 : ~Opened(k)

\* Prune n is the first that is opened and lacks a row's bytes, and those of an
\* earlier row, which belongs to no pair, are still kept.
Borrows(n) ==
  /\ \A m \in 1 .. n - 1 : ~Opened(m)
  /\ \E i \in Captured : log[i].kind = "pfx" /\ log[i].of < n
  /\ \E i \in lost : log[i].kind = "pfx" /\ log[i].of = n /\ i + 1 \in Captured

\* The pairs for which a reader mixes the lines of two programs.
PyMixes(n) == Overrun(n) \/ Borrows(n)
CMixes(n) == calls = "capture" /\ Overrun(n)

\* More registers on one side than the C reader keeps.
Crowded(n) == \E side \in {"old", "cur"} : Cardinality(DOMAIN prunes[n][side]) > MaxReg

Judged(reader, verdict) == {j.of : j \in {x \in reader.judged : x.verdict = verdict}}

\* Rows are prune n's, with their own bytes or none.
AreOf(n, rows) ==
  \A k \in DOMAIN rows : rows[k].of = n /\ rows[k].pfx \in {None, rows[k].reg.pfx}

\* Pairs are put together as the kernel printed them: each prune with an old row
\* in the capture is one pair of either reader, however much of its log is
\* missing, and no row or bytes of another prune are in it, unless a log without
\* its beginning comes behind it (both readers, if they read through the whole
\* capture), or before it (the Python reader).
PairsAreKernels ==
  /\ c.open /\ ~CMixes(c.of) => AreOf(c.of, c.old) /\ AreOf(c.of, c.cur)
  /\ \A i \in DOMAIN py.pairs : ~PyMixes(py.pairs[i].of) =>
       AreOf(py.pairs[i].of, py.pairs[i].old) /\ AreOf(py.pairs[i].of, py.pairs[i].cur)
  /\ pc = "done" /\ format = "tip" =>
       \A reader \in {c, py} :
         /\ reader.out.pairs = Cardinality({n \in Prune : Opened(n)})
         /\ {j.of : j \in reader.judged} = {n \in Prune : Opened(n)}

Counters == DOMAIN NoCount \ {"nontrivial"}

\* The two readers count the same, counter for counter, nontrivial apart, unless
\* the C reader had to drop rows or the Python one mixes two programs; and if the
\* C reader could not read the rows it says so instead of counting fewer pairs.
ReadersAgree ==
  pc = "done" =>
    /\ c.out.pairs # py.out.pairs => c.unsupported > 0
    /\ format = "tip" /\ (\A n \in Prune : ~Crowded(n) /\ ~PyMixes(n)) =>
         \A k \in Counters : c.out[k] = py.out[k]

\* A candidate is never an accident of the reading: if a pair is said to break,
\* the kernel's two states were not covered, even if the capture has only a
\* part of the pair or the C reader kept only a part of it; but not if the reader
\* mixed two programs.
CandidatesAreReal ==
  /\ \A n \in Judged(c, "break") : ~CMixes(n) => ~Covered(prunes[n])
  /\ \A n \in Judged(py, "break") : ~PyMixes(n) => ~Covered(prunes[n])

\* An agreement is about the whole state: the current state's values are among
\* the old one's in every register that matters, and one renaming of ids fits
\* all; with the same exception.
AgreementsAreCovered ==
  \A n \in {m \in Prune : Whole(m)} :
    /\ n \in Judged(py, "agree") /\ ~PyMixes(n) => Covered(prunes[n])
    /\ n \in Judged(c, "agree") /\ ~CMixes(n) /\ ~Crowded(n) => Covered(prunes[n])
=============================================================================
