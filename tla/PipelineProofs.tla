--------------------------- MODULE PipelineProofs ---------------------------
(***************************************************************************)
(* Proofs about Pipeline: that a report is what one process observed and   *)
(* drops and repeats nothing of it, however often the period is tried and  *)
(* wherever a process dies, for every set of harvests.                     *)
(*                                                                         *)
(* What the stages compute (Scored, Diffed, Joined) stays closed in the    *)
(* proofs about the processes; the lemmas about Joined open it once.       *)
(***************************************************************************)
EXTENDS Pipeline, FiniteSetTheorems, SequenceTheorems, TLAPS

-----------------------------------------------------------------------------
(* The inductive invariant.                                                *)

\* A process past the normalize stage holds what it harvested, and that is what
\* the period's NORMALIZED holds.
Held ==
  pc \in {"spawn", "scoring", "diff", "report", "done"} =>
    norm = harvests[run] /\ norm \in Observation /\ normalized = norm

\* An analyzer that is alive belongs to the process that waits for it, unless
\* one was orphaned; it works on what that process harvested, and what it leaves
\* is the score of that.
OwnScores ==
  ~orphaned =>
    /\ \A r \in Runs : analyzer[r].at \in {"started", "read"} => pc = "scoring" /\ r = run
    /\ pc = "scoring" /\ analyzer[run].at = "read" => analyzer[run].in = norm
    /\ pc = "scoring" /\ analyzer[run].at = "exited" => scores = Scored(norm)
    /\ pc \in {"diff", "report", "done"} => scores = Scored(norm)

\* An analyzer that finished left the score of some observation, and a process
\* goes on only over a finished one.
Left == \E o \in Observation : scores = Scored(o)
Finished ==
  /\ \A r \in Runs : analyzer[r].at = "exited" => Left
  /\ pc \in {"diff", "report", "done"} => Left

\* The findings a process reports are of its own harvest, and its report joins
\* them with some scores and with a health read from NORMALIZED.
OwnFindings ==
  /\ pc \in {"report", "done"} => findings = Diffed(norm)
  /\ pc = "done" =>
       \E o \in Observation : \E health \in {HealthOf(norm), NoHealth} :
         report = Joined(Scored(o), Diffed(norm), health) /\ (~orphaned => o = norm)

\* Any report, of whichever process, joins two judgments of observations.
Judged ==
  report # None =>
    \E o, p \in Observation : \E health : report = Joined(Scored(o), Diffed(p), health)

InRun == pc # "off" => run \in Runs

IInv == TypeOK /\ InRun /\ Held /\ OwnScores /\ Finished /\ OwnFindings /\ Judged

-----------------------------------------------------------------------------
(* The processes.                                                          *)

\* The harvests of a period are observations, one for each process.
LEMMA HarvestFacts ==
  ASSUME TypeOK
  PROVE  /\ Runs = 1 .. Len(harvests) /\ Len(harvests) \in Nat
         /\ \A r \in Runs : harvests[r] \in Observation
<1>1. harvests \in Seq(Observation)
  BY PipelineAssumption DEF TypeOK
<1> QED
  BY <1>1 DEF Runs

LEMMA InitInv == Init => IInv
<1> SUFFICES ASSUME Init
             PROVE  IInv
  OBVIOUS
<1>1. harvests \in Seq(Observation)
  BY PipelineAssumption DEF Init
<1>2. \A r \in Runs : analyzer[r] = [at |-> "none", in |-> None]
  BY DEF Init
<1>3. TypeOK
  <2>1. analyzer \in [Runs -> [at : {"none", "started", "read", "exited", "crashed"},
                               in : Observation \cup {None}]]
    BY DEF Init
  <2>2. \A r \in Runs : analyzer[r].at # "read"
    BY <1>2
  <2>3. run = 0 /\ run \in 0 .. Len(harvests) /\ harvests \in Histories
    BY <1>1 DEF Init
  <2>4. /\ pc = "off" /\ norm = None /\ normalized = None /\ scores = None
        /\ findings = None /\ orphaned = FALSE
    BY DEF Init
  <2> QED
    BY <2>1, <2>2, <2>3, <2>4 DEF TypeOK
<1>4. InRun /\ Held /\ Judged
  BY DEF Init, InRun, Held, Judged
<1>5. OwnScores /\ Finished /\ OwnFindings
  BY <1>2 DEF Init, OwnScores, Finished, OwnFindings
<1> QED
  BY <1>3, <1>4, <1>5 DEF IInv

\* The types.
LEMMA TypeStep == IInv /\ [Next]_vars => TypeOK'
<1> SUFFICES ASSUME IInv, [Next]_vars
             PROVE  TypeOK'
  OBVIOUS
<1>t. TypeOK /\ Runs = 1 .. Len(harvests) /\ Len(harvests) \in Nat
      /\ \A r \in Runs : harvests[r] \in Observation
  BY HarvestFacts DEF IInv
<1>1. CASE Launch
  BY <1>t, <1>1 DEF Launch, TypeOK, Runs, artifacts
<1>2. CASE StageFails \/ Die \/ ScoreFails
  <2>1. /\ pc' = "failed" /\ norm' = None /\ orphaned' \in BOOLEAN
        /\ UNCHANGED <<harvests, run, analyzer, artifacts>>
    BY <1>t, <1>2 DEF StageFails, Die, ScoreFails, Fail, TypeOK
  <2> QED
    BY <1>t, <2>1 DEF TypeOK, Runs, artifacts
<1>3. CASE Normalize
  <2>1. harvests[run] \in Observation
    BY <1>t, <1>3 DEF Normalize, IInv, InRun
  <2> QED
    BY <1>t, <1>3, <2>1 DEF Normalize, TypeOK, Runs
<1>4. CASE Spawn
  <2>1. analyzer' \in [Runs -> [at : {"none", "started", "read", "exited", "crashed"},
                                in : Observation \cup {None}]]
    <3>1. run \in Runs /\ analyzer' = [analyzer EXCEPT ![run].at = "started"]
      BY <1>4 DEF Spawn, IInv, InRun
    <3>2. analyzer[run] \in [at : {"none", "started", "read", "exited", "crashed"},
                             in : Observation \cup {None}]
      BY <1>t, <3>1 DEF TypeOK
    <3> QED
      BY <1>t, <3>1, <3>2 DEF TypeOK
  <2>2. \A r \in Runs : analyzer'[r].at = "read" => analyzer'[r].in \in Observation
    BY <1>t, <1>4 DEF Spawn, TypeOK
  <2> QED
    BY <1>t, <1>4, <2>1, <2>2 DEF Spawn, TypeOK, Runs, artifacts
<1>5. CASE ScoreReturns
  BY <1>t, <1>5 DEF ScoreReturns, TypeOK, Runs, artifacts
<1>6. CASE Diff
  <2>1. findings' = Diffed(norm) /\ norm \in Observation
    BY <1>6 DEF Diff, IInv, Held
  <2> QED
    BY <1>t, <1>6, <2>1 DEF Diff, TypeOK, Runs
<1>7. CASE Report
  BY <1>t, <1>7 DEF Report, TypeOK, Runs
<1>8. ASSUME NEW r \in Runs, AnalyzerReads(r)
      PROVE  TypeOK'
  <2>1. normalized \in Observation
    BY <1>t, <1>8 DEF AnalyzerReads, TypeOK
  <2>2. analyzer' \in [Runs -> [at : {"none", "started", "read", "exited", "crashed"},
                                in : Observation \cup {None}]]
    BY <1>t, <1>8, <2>1 DEF AnalyzerReads, TypeOK
  <2>3. \A q \in Runs : analyzer'[q].at = "read" => analyzer'[q].in \in Observation
    BY <1>t, <1>8, <2>1 DEF AnalyzerReads, TypeOK
  <2> QED
    BY <1>t, <1>8, <2>2, <2>3 DEF AnalyzerReads, TypeOK, Runs, artifacts
<1>9. ASSUME NEW r \in Runs, AnalyzerWrites(r) \/ AnalyzerFails(r)
      PROVE  TypeOK'
  <2>1. /\ UNCHANGED <<harvests, run, pc, norm, normalized, findings, orphaned>>
        /\ analyzer' \in {[analyzer EXCEPT ![r].at = "exited"],
                          [analyzer EXCEPT ![r].at = "crashed"]}
        /\ \/ scores' = scores
           \/ analyzer[r].at = "read" /\ scores' = Scored(analyzer[r].in)
    BY <1>9 DEF AnalyzerWrites, AnalyzerFails, artifacts
  <2>2. analyzer' \in [Runs -> [at : {"none", "started", "read", "exited", "crashed"},
                                in : Observation \cup {None}]]
    BY <1>t, <2>1 DEF TypeOK
  <2>3. \A q \in Runs : analyzer'[q].at = "read" => analyzer'[q].in \in Observation
    BY <1>t, <2>1 DEF TypeOK
  <2>4. scores' # None => \E o \in Observation : scores' = Scored(o)
    BY <1>t, <2>1 DEF TypeOK
  <2> QED
    BY <1>t, <2>1, <2>2, <2>3, <2>4 DEF TypeOK, Runs
<1>10. CASE UNCHANGED vars
  BY <1>t, <1>10 DEF vars, artifacts, TypeOK, Runs
<1> QED
  BY <1>1, <1>2, <1>3, <1>4, <1>5, <1>6, <1>7, <1>8, <1>9, <1>10 DEF Next

\* A process that has started has a harvest.
LEMMA InRunStep == IInv /\ [Next]_vars => InRun'
<1> SUFFICES ASSUME IInv, [Next]_vars
             PROVE  InRun'
  OBVIOUS
<1>t. Runs = 1 .. Len(harvests) /\ Len(harvests) \in Nat /\ run \in 0 .. Len(harvests)
  BY HarvestFacts DEF IInv, TypeOK
<1>1. CASE Launch
  <2>1. run + 1 \in 1 .. Len(harvests)
    BY <1>t, <1>1 DEF Launch
  <2> QED
    BY <1>t, <1>1, <2>1 DEF Launch, InRun, Runs
<1>2. CASE UNCHANGED vars
  BY <1>2 DEF vars, IInv, InRun, Runs
<1>3. CASE Next /\ ~Launch
  <2>1. pc # "off" \/ pc' = pc
    BY <1>3 DEF Next, StageFails, Die, Working, Normalize, Spawn, ScoreReturns, ScoreFails,
                Diff, Report, AnalyzerReads, AnalyzerWrites, AnalyzerFails
  <2>2. UNCHANGED <<harvests, run>>
    BY <1>3 DEF Next, StageFails, Die, Fail, Normalize, Spawn, ScoreReturns, ScoreFails,
                Diff, Report, AnalyzerReads, AnalyzerWrites, AnalyzerFails
  <2> QED
    BY <2>1, <2>2 DEF IInv, InRun, Runs
<1> QED
  BY <1>1, <1>2, <1>3

\* What a process holds: only normalize takes a harvest and writes NORMALIZED.
LEMMA HeldStep == IInv /\ [Next]_vars => Held'
<1> SUFFICES ASSUME IInv, [Next]_vars
             PROVE  Held'
  OBVIOUS
<1>1. CASE Launch \/ StageFails \/ Die \/ ScoreFails
  <2>1. pc' \in {"normalize", "failed"}
    BY <1>1 DEF Launch, StageFails, Die, ScoreFails, Fail
  <2> QED
    BY <2>1 DEF Held
<1>2. CASE Normalize
  <2>1. harvests[run] \in Observation
    BY <1>2, HarvestFacts DEF Normalize, IInv, InRun
  <2> QED
    BY <1>2, <2>1 DEF Normalize, Held
<1>3. CASE \/ Spawn \/ ScoreReturns \/ Diff \/ Report \/ UNCHANGED vars
           \/ \E r \in Runs : AnalyzerReads(r) \/ AnalyzerWrites(r) \/ AnalyzerFails(r)
  <2>1. UNCHANGED <<harvests, run, norm, normalized>>
    BY <1>3 DEF Spawn, ScoreReturns, Diff, Report, vars, artifacts,
                AnalyzerReads, AnalyzerWrites, AnalyzerFails
  <2>2. pc \in {"spawn", "scoring", "diff", "report"} \/ pc' = pc
    BY <1>3 DEF Spawn, ScoreReturns, Diff, Report, vars,
                AnalyzerReads, AnalyzerWrites, AnalyzerFails
  <2> QED
    BY <2>1, <2>2 DEF IInv, Held
<1> QED
  BY <1>1, <1>2, <1>3 DEF Next

\* The scores: the only analyzer alive is the one that is waited for.
LEMMA OwnScoresStep == IInv /\ [Next]_vars => OwnScores'
<1> SUFFICES ASSUME IInv, [Next]_vars, ~orphaned'
             PROVE  /\ \A r \in Runs' : analyzer'[r].at \in {"started", "read"} =>
                         pc' = "scoring" /\ r = run'
                    /\ pc' = "scoring" /\ analyzer'[run'].at = "read" =>
                         analyzer'[run'].in = norm'
                    /\ pc' = "scoring" /\ analyzer'[run'].at = "exited" =>
                         scores' = Scored(norm')
                    /\ pc' \in {"diff", "report", "done"} => scores' = Scored(norm')
  BY DEF OwnScores, Scored, Runs
<1>t. /\ TypeOK /\ Held
      /\ analyzer \in [Runs -> [at : {"none", "started", "read", "exited", "crashed"},
                                in : Observation \cup {None}]]
      /\ pc # "off" => run \in Runs
  BY DEF IInv, TypeOK, InRun
<1>h. UNCHANGED harvests /\ Runs' = Runs /\ ~orphaned
  <2>1. UNCHANGED harvests
    BY DEF Next, Launch, StageFails, Die, Fail, Normalize, Spawn, ScoreReturns, ScoreFails, Diff,
           Report, AnalyzerReads, AnalyzerWrites, AnalyzerFails, vars
  <2>2. Die \/ orphaned' = orphaned
    BY DEF Next, Launch, StageFails, Fail, Normalize, Spawn, ScoreReturns, ScoreFails, Diff,
           Report, AnalyzerReads, AnalyzerWrites, AnalyzerFails, vars
  <2>3. Die => ~orphaned
    BY DEF Die
  <2> QED
    BY <2>1, <2>2, <2>3 DEF Runs
<1>s. /\ \A r \in Runs : analyzer[r].at \in {"started", "read"} => pc = "scoring" /\ r = run
      /\ pc = "scoring" /\ analyzer[run].at = "read" => analyzer[run].in = norm
      /\ pc = "scoring" /\ analyzer[run].at = "exited" => scores = Scored(norm)
      /\ pc \in {"diff", "report", "done"} => scores = Scored(norm)
  BY <1>h DEF IInv, OwnScores
<1>1. CASE Launch
  BY <1>h, <1>s, <1>1 DEF Launch, Working, artifacts
<1>2. CASE StageFails
  BY <1>h, <1>s, <1>2 DEF StageFails, Fail, artifacts
<1>3. CASE Die
  BY <1>h, <1>s, <1>3 DEF Die, Fail, artifacts
<1>4. CASE Normalize
  BY <1>h, <1>s, <1>4 DEF Normalize
<1>5. CASE Spawn
  BY <1>t, <1>h, <1>s, <1>5 DEF Spawn, artifacts
<1>6. CASE ScoreReturns
  BY <1>h, <1>s, <1>6 DEF ScoreReturns, artifacts
<1>7. CASE ScoreFails
  BY <1>h, <1>s, <1>7 DEF ScoreFails, Fail, artifacts
<1>8. CASE Diff \/ Report
  BY <1>h, <1>s, <1>8 DEF Diff, Report
<1>9. ASSUME NEW r \in Runs, AnalyzerReads(r) \/ AnalyzerWrites(r) \/ AnalyzerFails(r)
      PROVE  /\ \A q \in Runs' : analyzer'[q].at \in {"started", "read"} =>
                  pc' = "scoring" /\ q = run'
             /\ pc' = "scoring" /\ analyzer'[run'].at = "read" => analyzer'[run'].in = norm'
             /\ pc' = "scoring" /\ analyzer'[run'].at = "exited" => scores' = Scored(norm')
             /\ pc' \in {"diff", "report", "done"} => scores' = Scored(norm')
  <2>1. analyzer[r].at \in {"started", "read"}
    BY <1>9 DEF AnalyzerReads, AnalyzerWrites, AnalyzerFails
  <2>2. r = run /\ pc = "scoring"
    BY <1>s, <2>1
  <2>3. UNCHANGED <<run, pc, norm>>
    BY <1>9 DEF AnalyzerReads, AnalyzerWrites, AnalyzerFails
  <2>4. \A q \in Runs : q # r => analyzer'[q] = analyzer[q]
    BY <1>t, <1>9 DEF AnalyzerReads, AnalyzerWrites, AnalyzerFails
  <2>5. \A q \in Runs : analyzer'[q].at \in {"started", "read"} => q = run
    BY <1>s, <2>2, <2>4
  <2>6. CASE AnalyzerReads(r)
    <3>1. analyzer'[run] = [at |-> "read", in |-> norm]
      BY <1>t, <2>2, <2>6 DEF AnalyzerReads, Held
    <3> QED
      BY <1>h, <2>2, <2>3, <2>5, <3>1
  <2>7. CASE AnalyzerWrites(r)
    <3>1. analyzer'[run].at = "exited" /\ scores' = Scored(norm)
      BY <1>t, <1>s, <2>2, <2>7 DEF AnalyzerWrites
    <3> QED
      BY <1>h, <2>2, <2>3, <2>5, <3>1
  <2>8. CASE AnalyzerFails(r)
    <3>1. analyzer'[run].at = "crashed"
      BY <1>t, <2>2, <2>8 DEF AnalyzerFails
    <3> QED
      BY <1>h, <2>2, <2>3, <2>5, <3>1
  <2> QED
    BY <1>9, <2>6, <2>7, <2>8
<1>10. CASE UNCHANGED vars
  BY <1>h, <1>s, <1>10 DEF vars, artifacts
<1> QED
  BY <1>1, <1>2, <1>3, <1>4, <1>5, <1>6, <1>7, <1>8, <1>9, <1>10 DEF Next

\* Scores that a finished analyzer left stay, or another's take their place.
LEMMA FinishedStep == IInv /\ [Next]_vars => Finished'
<1> SUFFICES ASSUME IInv, [Next]_vars
             PROVE  Finished'
  OBVIOUS
<1>t. /\ TypeOK /\ Finished
      /\ analyzer \in [Runs -> [at : {"none", "started", "read", "exited", "crashed"},
                                in : Observation \cup {None}]]
      /\ pc # "off" => run \in Runs
  BY DEF IInv, TypeOK, InRun
<1>1. Left => Left'
  <2> SUFFICES ASSUME Left, scores' # scores
               PROVE  Left'
    BY DEF Left
  <2>1. PICK r \in Runs : AnalyzerWrites(r)
    BY DEF Next, Launch, StageFails, Die, Normalize, Spawn, ScoreReturns, ScoreFails, Diff,
           Report, AnalyzerReads, AnalyzerFails, vars, artifacts
  <2> QED
    BY <1>t, <2>1 DEF AnalyzerWrites, TypeOK, Left
<1>2. \A r \in Runs : AnalyzerWrites(r) => Left'
  BY <1>t DEF AnalyzerWrites, TypeOK, Left
<1>h. Runs' = Runs
  BY DEF Next, Launch, StageFails, Die, Fail, Normalize, Spawn, ScoreReturns, ScoreFails, Diff,
         Report, AnalyzerReads, AnalyzerWrites, AnalyzerFails, vars, Runs
<1>3. ASSUME NEW r \in Runs', analyzer'[r].at = "exited"
      PROVE  Left'
  <2>1. CASE analyzer[r].at = "exited"
    BY <1>t, <1>1, <1>h, <2>1 DEF Finished
  <2>2. CASE analyzer[r].at # "exited"
    <3>1. \E q \in Runs : AnalyzerWrites(q)
      <4>1. CASE UNCHANGED analyzer
        BY <1>3, <2>2, <4>1
      <4>2. CASE Spawn
        BY <1>t, <1>3, <1>h, <2>2, <4>2 DEF Spawn
      <4>3. ASSUME NEW q \in Runs, AnalyzerReads(q) \/ AnalyzerFails(q)
            PROVE  FALSE
        BY <1>t, <1>3, <1>h, <2>2, <4>3 DEF AnalyzerReads, AnalyzerFails
      <4> QED
        BY <4>1, <4>2, <4>3 DEF Next, Launch, StageFails, Die, Normalize, ScoreReturns,
                                ScoreFails, Diff, Report, vars
    <3> QED
      BY <1>2, <3>1
  <2> QED
    BY <2>1, <2>2
<1>4. ASSUME pc' \in {"diff", "report", "done"}
      PROVE  Left'
  <2>1. CASE pc \in {"diff", "report", "done"}
    BY <1>t, <1>1, <2>1 DEF Finished
  <2>2. CASE pc \notin {"diff", "report", "done"}
    <3>1. ScoreReturns
      BY <1>4, <2>2 DEF Next, Launch, StageFails, Die, Fail, Normalize, Spawn, ScoreFails, Diff,
                        Report, AnalyzerReads, AnalyzerWrites, AnalyzerFails, vars
    <3> QED
      BY <1>t, <1>1, <3>1 DEF ScoreReturns, Finished
  <2> QED
    BY <2>1, <2>2
<1> QED
  BY <1>3, <1>4 DEF Finished

\* The findings: diff takes them from the harvest in memory, and report joins
\* them with the scores on disk.
LEMMA OwnFindingsStep == IInv /\ [Next]_vars => OwnFindings'
<1> SUFFICES ASSUME IInv, [Next]_vars
             PROVE  OwnFindings'
  OBVIOUS
<1>t. Held /\ OwnFindings /\ OwnScores /\ Finished
  BY DEF IInv
<1>1. CASE Launch \/ StageFails \/ Die \/ ScoreFails \/ Normalize \/ Spawn \/ ScoreReturns
  <2>1. pc' \notin {"report", "done"}
    BY <1>1 DEF Launch, StageFails, Die, ScoreFails, Fail, Normalize, Spawn, ScoreReturns
  <2> QED
    BY <2>1 DEF OwnFindings
<1>2. CASE Diff
  BY <1>2 DEF Diff, OwnFindings
<1>3. CASE Report
  <2>1. pc = "report" /\ normalized = norm /\ norm \in Observation /\ findings = Diffed(norm)
        /\ UNCHANGED <<norm, findings, orphaned>>
    BY <1>t, <1>3 DEF Report, Held, OwnFindings
  <2>2. PICK o \in Observation : scores = Scored(o) /\ (~orphaned => o = norm)
    BY <1>t, <2>1 DEF OwnScores, Finished, Left
  <2>3. PICK health \in {HealthOf(norm), NoHealth} :
          report' = Joined(Scored(o), Diffed(norm), health)
    BY <1>3, <2>1, <2>2 DEF Report
  <2> QED
    BY <2>1, <2>2, <2>3 DEF OwnFindings
<1>4. CASE \/ \E r \in Runs : AnalyzerReads(r) \/ AnalyzerWrites(r) \/ AnalyzerFails(r)
           \/ UNCHANGED vars
  <2>1. UNCHANGED <<pc, norm, findings, report, orphaned>>
    BY <1>4 DEF AnalyzerReads, AnalyzerWrites, AnalyzerFails, vars, artifacts
  <2> QED
    BY <1>t, <2>1 DEF OwnFindings
<1> QED
  BY <1>1, <1>2, <1>3, <1>4 DEF Next

\* A report is replaced by another one only.
LEMMA JudgedStep == IInv /\ [Next]_vars => Judged'
<1> SUFFICES ASSUME IInv, [Next]_vars
             PROVE  Judged'
  OBVIOUS
<1>1. CASE Report
  <2>1. /\ norm \in Observation /\ findings = Diffed(norm)
        /\ \E o \in Observation : scores = Scored(o)
    BY <1>1 DEF Report, IInv, Held, OwnFindings, Finished, Left
  <2> QED
    BY <1>1, <2>1 DEF Report, Judged
<1>2. CASE ~Report
  <2>1. report' = report
    BY <1>2 DEF Next, Launch, StageFails, Die, Normalize, Spawn, ScoreReturns, ScoreFails, Diff,
                AnalyzerReads, AnalyzerWrites, AnalyzerFails, vars, artifacts
  <2> QED
    BY <2>1 DEF IInv, Judged
<1> QED
  BY <1>1, <1>2

THEOREM Invariant == Spec => []IInv
<1>1. IInv /\ [Next]_vars => IInv'
  BY TypeStep, InRunStep, HeldStep, OwnScoresStep, FinishedStep, OwnFindingsStep, JudgedStep
     DEF IInv
<1> QED
  BY <1>1, InitInv, PTL DEF Spec

\* Every artifact of a period is of its type: scores and findings are the
\* judgment of an observation some process made of this period.
THEOREM TypeCorrect == Spec => []TypeOK
<1>1. IInv => TypeOK
  BY DEF IInv
<1> QED
  BY <1>1, Invariant, PTL

\* A process that ends with a report reports its own observation, all of it and
\* nothing else, unless an analyzer had been left behind by a killed process:
\* for every number of tries, whatever they harvested and wherever they ended.
THEOREM ReportOfOneRun == Spec => []ReportIsOfItsRun
<1>1. IInv => ReportIsOfItsRun
  BY DEF IInv, OwnFindings, ReportIsOfItsRun
<1> QED
  BY <1>1, Invariant, PTL

-----------------------------------------------------------------------------
(* What diff finds: finitely many findings, each a kind and a place.       *)

Findings(S) == IsFiniteSet(S) /\ \A x \in S : x = Finding(x.kind, x.at)

\* The image of a finite set under a function.
LEMMA ImageIsFinite ==
  ASSUME NEW S, IsFiniteSet(S), NEW f
  PROVE  IsFiniteSet({f[x] : x \in S})
<1> DEFINE T == {f[x] : x \in S}
           g == [x \in S |-> f[x]]
<1>1. g \in Surjection(S, T)
  BY DEF Surjection
<1> HIDE DEF g, T
<1>2. IsFiniteSet(T)
  BY <1>1, FS_Surjection
<1> QED
  BY <1>2 DEF T

LEMMA FindingShape ==
  ASSUME NEW kind, NEW at
  PROVE  LET x == Finding(kind, at) IN x = Finding(x.kind, x.at)
  BY DEF Finding

LEMMA NoFindings == Findings({})
  BY FS_EmptySet DEF Findings

LEMMA OneFinding ==
  ASSUME NEW holds, NEW kind, NEW at
  PROVE  Findings(When(holds, Finding(kind, at)))
<1>1. IsFiniteSet({Finding(kind, at)}) /\ IsFiniteSet({})
  BY FS_Singleton, FS_EmptySet
<1> QED
  BY <1>1, FindingShape DEF When, Findings

LEMMA BothFindings ==
  ASSUME NEW S, NEW T, Findings(S), Findings(T)
  PROVE  Findings(S \cup T)
  BY FS_Union DEF Findings

LEMMA FindingsAt ==
  ASSUME NEW kind, NEW places, IsFiniteSet(places)
  PROVE  Findings(At(kind, places))
<1> DEFINE f == [p \in places |-> Finding(kind, <<p>>)]
<1>1. At(kind, places) = {f[p] : p \in places}
  BY DEF At
<1>2. IsFiniteSet({f[p] : p \in places})
  <2> HIDE DEF f
  <2> QED
    BY ImageIsFinite
<1>3. \A x \in At(kind, places) : x = Finding(x.kind, x.at)
  BY DEF At, Finding
<1> QED
  BY <1>1, <1>2, <1>3 DEF Findings

\* A finding of each of some cells, or of each of some names.
LEMMA FindingsOf ==
  ASSUME NEW kind, NEW places, IsFiniteSet(places)
  PROVE  Findings({Finding(kind, p) : p \in places})
<1> DEFINE f == [p \in places |-> Finding(kind, p)]
<1>1. {Finding(kind, p) : p \in places} = {f[p] : p \in places}
  OBVIOUS
<1>2. IsFiniteSet({f[p] : p \in places})
  <2> HIDE DEF f
  <2> QED
    BY ImageIsFinite
<1>3. \A x \in {Finding(kind, p) : p \in places} : x = Finding(x.kind, x.at)
  BY FindingShape
<1> QED
  BY <1>1, <1>2, <1>3 DEF Findings

LEMMA FindingsNamed ==
  ASSUME NEW kind, NEW i, NEW names, IsFiniteSet(names)
  PROVE  Findings({Finding(kind, <<i, name>>) : name \in names})
<1> DEFINE f == [name \in names |-> <<i, name>>]
           places == {f[name] : name \in names}
<1>1. IsFiniteSet(places)
  <2> HIDE DEF f
  <2> QED
    BY ImageIsFinite
<1>2. Findings({Finding(kind, p) : p \in places})
  <2> HIDE DEF places
  <2> QED
    BY <1>1, FindingsOf
<1>3. {Finding(kind, p) : p \in places} = {Finding(kind, <<i, name>>) : name \in names}
  OBVIOUS
<1> QED
  BY <1>2, <1>3

LEMMA PairIsFinite ==
  ASSUME NEW x, NEW y
  PROVE  IsFiniteSet({x, y})
<1>1. IsFiniteSet({x})
  BY FS_Singleton
<1>2. IsFiniteSet({x} \cup {y})
  BY <1>1, FS_AddElement
<1>3. {x, y} = {x} \cup {y}
  OBVIOUS
<1> QED
  BY <1>2, <1>3

LEMMA RegisterFindings ==
  ASSUME NEW s, NEW i
  PROVE  Findings(RegisterFound(s, i))
<1>1. IsFiniteSet({name \in {"unsigned", "signed"} : Ranges(s)[name].lo > Ranges(s)[name].hi})
      /\ IsFiniteSet({name \in {"u32", "s32"} : Ranges(s)[name].lo > Ranges(s)[name].hi})
  <2>1. IsFiniteSet({"unsigned", "signed"}) /\ IsFiniteSet({"u32", "s32"})
    BY PairIsFinite
  <2> QED
    BY <2>1, FS_Subset
<1>2. Findings(LogicalFound(s, i))
  <2> DEFINE A == When(\E b \in Places : BitOf(s.value, b) = 1 /\ BitOf(s.mask, b) = 1,
                       Finding("tnum_malformed", <<i>>))
             B == {Finding("bounds_inverted", <<i, name>>) :
                     name \in {name \in {"unsigned", "signed"} :
                                 Ranges(s)[name].lo > Ranges(s)[name].hi}}
             C == When(/\ ConstCheckable(s) /\ s.smin # MinSigned /\ s.smax # MaxSigned
                       /\ ~Pinned(s.smin, s.smax, AsSigned(s.value)),
                       Finding("const_tnum_range_mismatch", <<i, "signed">>))
             D == When(ConstCheckable(s) /\ ~Pinned(s.umin, s.umax, s.value),
                       Finding("const_tnum_range_mismatch", <<i, "unsigned">>))
             E == When(s.umin <= s.umax /\ (SpanEnd(s) < s.umin \/ s.value > s.umax),
                       Finding("tnum_bounds_inconsistent", <<i>>))
  <2>1. Findings(A) /\ Findings(C) /\ Findings(D) /\ Findings(E)
    BY OneFinding
  <2>2. Findings(B)
    BY <1>1, FindingsNamed
  <2>3. LogicalFound(s, i) = A \cup B \cup C \cup D \cup E
    BY DEF LogicalFound
  <2> HIDE DEF A, B, C, D, E
  <2> QED
    BY <2>1, <2>2, <2>3, BothFindings
<1>3. Findings(SubregisterFound(s, i))
  <2> DEFINE A == {Finding("bounds32_inverted", <<i, name>>) :
                     name \in {name \in {"u32", "s32"} :
                                 Ranges(s)[name].lo > Ranges(s)[name].hi}}
             B == When(/\ Reg32Checkable(s)
                       /\ Disjoint(LowHalf(s.value), LowHalf(SpanEnd(s)), Ranges(s).u32),
                       Finding("tnum32_bounds_inconsistent", <<i>>))
             C == When(/\ Reg32Checkable(s) /\ s.umin \div Block = s.umax \div Block
                       /\ Disjoint(LowHalf(s.umin), LowHalf(s.umax), Ranges(s).u32),
                       Finding("reg32_reg64_inconsistent", <<i>>))
  <2>1. Findings(A)
    BY <1>1, FindingsNamed
  <2>2. Findings(B) /\ Findings(C)
    BY OneFinding
  <2>3. SubregisterFound(s, i) = IF ~s.scalar THEN {} ELSE A \cup B \cup C
    BY DEF SubregisterFound
  <2> HIDE DEF A, B, C
  <2> QED
    BY <2>1, <2>2, <2>3, BothFindings, NoFindings
<1> QED
  BY <1>2, <1>3, BothFindings DEF RegisterFound

\* All of a record's.
LEMMA RecordFindings ==
  ASSUME NEW rec, IsRecord(rec)
  PROVE  Findings(Found(rec))
<1>1. /\ IsFiniteSet(DOMAIN rec.regs) /\ IsFiniteSet(DOMAIN rec.runs)
      /\ IsFiniteSet(DOMAIN rec.args) /\ IsFiniteSet(DOMAIN rec.violations)
  <2>1. ASSUME NEW S, NEW seq \in Seq(S)
        PROVE  IsFiniteSet(DOMAIN seq)
    <3>1. DOMAIN seq = 1 .. Len(seq) /\ Len(seq) \in Int /\ 1 \in Int
      OBVIOUS
    <3> QED
      BY <3>1, FS_Interval
  <2>2. \A S : \A seq \in Seq(S) : IsFiniteSet(DOMAIN seq)
    BY <2>1
  <2>3. rec.args \in Seq({"silent", "agrees", "differs"})
        /\ rec.violations \in Seq({"silent", "agrees", "differs"})
    BY DEF IsRecord
  <2> QED
    BY <2>2, <2>3 DEF IsRecord
<1>2. Findings(StatesFound(rec))
  <2> DEFINE f == [i \in DOMAIN rec.regs |-> RegisterFound(rec.regs[i], i)]
             S == {f[i] : i \in DOMAIN rec.regs}
  <2>1. IsFiniteSet(S)
    <3> HIDE DEF f
    <3> QED
      BY <1>1, ImageIsFinite
  <2>2. \A T \in S : Findings(T)
    BY RegisterFindings
  <2>3. StatesFound(rec) = UNION S
    BY DEF StatesFound
  <2> HIDE DEF S
  <2>4. IsFiniteSet(UNION S)
    BY <2>1, <2>2, FS_UNION DEF Findings
  <2> QED
    BY <2>2, <2>3, <2>4 DEF Findings
<1>3. /\ Findings(When(rec.jit = "differs", Finding("jit_interp_divergence", << >>)))
      /\ Findings(When(Contradicts(rec), Finding("documented_behavior_mismatch", << >>)))
  BY OneFinding
<1>4. /\ Findings(At("runtime_bound_violation", ReturnsFound(rec)))
      /\ Findings(At("runtime_intent_violation", IntentFound(rec)))
      /\ Findings(At("runtime_oob_write", WritesFound(rec)))
      /\ Findings(At("store_location_desync", LocationsFound(rec)))
  <2>1. /\ ReturnsFound(rec) \subseteq DOMAIN rec.runs
        /\ IntentFound(rec) \subseteq DOMAIN rec.runs
        /\ WritesFound(rec) \subseteq DOMAIN rec.runs
        /\ LocationsFound(rec) \subseteq DOMAIN rec.runs
    BY DEF ReturnsFound, ReturnsChecked, IntentFound, IntentChecked, WritesFound, WritesChecked,
           LocationsFound, LocationsChecked
  <2>2. /\ IsFiniteSet(ReturnsFound(rec)) /\ IsFiniteSet(IntentFound(rec))
        /\ IsFiniteSet(WritesFound(rec)) /\ IsFiniteSet(LocationsFound(rec))
    BY <1>1, <2>1, FS_Subset
  <2> QED
    BY <2>2, FindingsAt
<1>5. Findings(PruningFound(rec))
  <2>1. Findings(ProbeFound(rec.probe))
    BY OneFinding, BothFindings DEF ProbeFound
  <2> QED
    BY <2>1, NoFindings DEF PruningFound
<1>6. Findings(LivenessFound(rec))
  <2>1. CASE rec.gate = None
    BY <2>1, NoFindings DEF LivenessFound
  <2>2. CASE rec.gate # None
    <3>1. IsFiniteSet(DOMAIN rec.gate.kernel) /\ IsFiniteSet(0 .. 9)
      <4>1. 0 \in Int /\ 9 \in Int
        OBVIOUS
      <4>2. IsFiniteSet(0 .. 9)
        BY <4>1, FS_Interval
      <4> QED
        BY <2>2, <4>2 DEF IsRecord
    <3>2. IsFiniteSet((DOMAIN rec.gate.kernel) \X (0 .. 9))
      BY <3>1, FS_Product
    <3>3. GateFound(rec.gate) \subseteq (DOMAIN rec.gate.kernel) \X (0 .. 9)
      BY DEF GateFound, GateCells
    <3>4. IsFiniteSet(GateFound(rec.gate))
      BY <3>2, <3>3, FS_Subset
    <3>5. LivenessFound(rec)
            = {Finding("liveness_gate_overreach", c) : c \in GateFound(rec.gate)}
      BY <2>2 DEF LivenessFound
    <3> QED
      BY <3>4, <3>5, FindingsOf
  <2> QED
    BY <2>1, <2>2
<1>7. Findings(HelpersFound(rec))
  <2>1. {a \in ArgsChecked(rec) : rec.args[a] = "differs"} \subseteq DOMAIN rec.args
    BY DEF ArgsChecked
  <2>2. /\ IsFiniteSet({v \in DOMAIN rec.violations : rec.violations[v] = "differs"})
        /\ IsFiniteSet({a \in ArgsChecked(rec) : rec.args[a] = "differs"})
    BY <1>1, <2>1, FS_Subset
  <2> QED
    BY <2>2, FindingsAt, BothFindings DEF HelpersFound
<1> DEFINE states  == StatesFound(rec)
                      \cup When(rec.jit = "differs", Finding("jit_interp_divergence", << >>))
           samples == states \cup At("runtime_bound_violation", ReturnsFound(rec))
                      \cup At("runtime_intent_violation", IntentFound(rec))
           stores  == samples \cup At("runtime_oob_write", WritesFound(rec))
                      \cup At("store_location_desync", LocationsFound(rec))
           others  == stores \cup PruningFound(rec) \cup LivenessFound(rec)
                      \cup HelpersFound(rec)
<1>8. Found(rec) = others \cup When(Contradicts(rec),
                                   Finding("documented_behavior_mismatch", << >>))
  BY Zenon DEF Found
<1>9. Findings(states)
  BY <1>2, <1>3, BothFindings
<1>10. Findings(samples)
  <2> HIDE DEF states
  <2> QED
    BY <1>4, <1>9, BothFindings
<1>11. Findings(stores)
  <2> HIDE DEF samples
  <2> QED
    BY <1>4, <1>10, BothFindings
<1>12. Findings(others)
  <2> HIDE DEF stores
  <2> QED
    BY <1>5, <1>6, <1>7, <1>11, BothFindings
<1> HIDE DEF others
<1> QED
  BY <1>3, <1>8, <1>12, BothFindings

-----------------------------------------------------------------------------
(* The order of a report: each index has a place of its own.               *)

\* The places of a finite set of records are 1, 2, ... up to its size, no two
\* the same, and the first is of a record with the highest score.
LEMMA PlacesOfAll ==
  ASSUME NEW I \in SUBSET Nat, IsFiniteSet(I), NEW score \in [I -> Int]
  PROVE  /\ \A i \in I : Place(i, score) \in 1 .. Cardinality(I)
         /\ \A i, j \in I : Place(i, score) = Place(j, score) => i = j
         /\ \A p \in 1 .. Cardinality(I) : \E i \in I : Place(i, score) = p
         /\ \A i, j \in I : Place(i, score) = 1 => score[i] >= score[j]
<1> DEFINE Before(i) == {j \in I : score[j] > score[i] \/ (score[j] = score[i] /\ j <= i)}
           n == Cardinality(I)
<1>1. \A i \in I : Place(i, score) = Cardinality(Before(i))
  <2>1. DOMAIN score = I
    OBVIOUS
  <2> QED
    BY <2>1 DEF Place
<1>2. \A i \in I : Before(i) \in SUBSET I /\ i \in Before(i)
  OBVIOUS
<1>3. \A i, j \in I : i # j =>
        (i \notin Before(j) /\ Before(j) \subseteq Before(i))
        \/ (j \notin Before(i) /\ Before(i) \subseteq Before(j))
  <2>1. ASSUME NEW i \in I, NEW j \in I, i # j,
               score[i] > score[j] \/ (score[i] = score[j] /\ i <= j)
        PROVE  j \notin Before(i) /\ Before(i) \subseteq Before(j)
    <3>1. \A k \in I : score[k] \in Int /\ k \in Int
      OBVIOUS
    <3>2. ASSUME NEW k \in I, score[k] > score[i] \/ (score[k] = score[i] /\ k <= i)
          PROVE  score[k] > score[j] \/ (score[k] = score[j] /\ k <= j)
      BY <2>1, <3>1, <3>2
    <3>3. ~(score[j] > score[i] \/ (score[j] = score[i] /\ j <= i))
      BY <2>1, <3>1
    <3> QED
      BY <3>2, <3>3
  <2>2. \A i, j \in I : \/ score[i] > score[j] \/ (score[i] = score[j] /\ i <= j)
                       \/ score[j] > score[i] \/ (score[j] = score[i] /\ j <= i)
    OBVIOUS
  <2> HIDE DEF Before
  <2> QED
    BY <2>1, <2>2
<1>4. \A i, j \in I : j \notin Before(i) => score[i] >= score[j]
  <2>1. \A k \in I : score[k] \in Int
    OBVIOUS
  <2> QED
    BY <2>1
<1> HIDE DEF Before
<1>5. n \in Nat
  BY FS_CardinalityType
<1>6. \A i \in I : IsFiniteSet(Before(i)) /\ Cardinality(Before(i)) \in 1 .. n
  <2> TAKE i \in I
  <2>1. IsFiniteSet(Before(i)) /\ Cardinality(Before(i)) <= n
    BY <1>2, FS_Subset
  <2>2. IsFiniteSet({i}) /\ Cardinality({i}) = 1
    BY FS_Singleton
  <2>3. {i} \in SUBSET Before(i)
    BY <1>2
  <2>4. 1 <= Cardinality(Before(i))
    BY <2>1, <2>2, <2>3, FS_Subset
  <2>5. Cardinality(Before(i)) \in Nat
    BY <2>1, FS_CardinalityType
  <2> QED
    BY <1>5, <2>1, <2>4, <2>5
<1>7. \A i, j \in I : Place(i, score) = Place(j, score) => i = j
  <2> SUFFICES ASSUME NEW i \in I, NEW j \in I, i # j,
                      Cardinality(Before(i)) = Cardinality(Before(j))
               PROVE  FALSE
    BY <1>1
  <2>1. CASE i \notin Before(j) /\ Before(j) \subseteq Before(i)
    <3>1. Before(j) = Before(i)
      BY <1>6, <2>1, FS_Subset
    <3> QED
      BY <1>2, <2>1, <3>1
  <2>2. CASE j \notin Before(i) /\ Before(i) \subseteq Before(j)
    <3>1. Before(j) = Before(i)
      BY <1>6, <2>2, FS_Subset
    <3> QED
      BY <1>2, <2>2, <3>1
  <2> QED
    BY <1>3, <2>1, <2>2
<1>8. \A p \in 1 .. n : \E i \in I : Place(i, score) = p
  <2> DEFINE f == [i \in I |-> Cardinality(Before(i))]
             T == 1 .. n
  <2>1. f \in Injection(I, T)
    BY <1>1, <1>6, <1>7 DEF Injection, IsInjective
  <2>2. IsFiniteSet(T) /\ Cardinality(T) = n
    BY <1>5, FS_Interval
  <2>3. \A i \in I : f[i] = Place(i, score)
    BY <1>1
  <2> HIDE DEF f, T
  <2>4. f \in Surjection(I, T)
    BY <2>1, <2>2, FS_Injection
  <2>5. \A p \in T : \E i \in I : f[i] = p
    BY <2>4 DEF Surjection
  <2> QED
    BY <2>3, <2>5 DEF T
<1>9. \A i, j \in I : Place(i, score) = 1 => score[i] >= score[j]
  <2> SUFFICES ASSUME NEW i \in I, NEW j \in I, Cardinality(Before(i)) = 1
               PROVE  score[i] >= score[j]
    BY <1>1
  <2>1. Before(i) = {i}
    <3>1. \E x : Before(i) = {x}
      BY <1>6, FS_Singleton
    <3> QED
      BY <1>2, <3>1
  <2>2. CASE j = i
    BY <2>2
  <2>3. CASE j # i
    BY <1>4, <2>1, <2>3
  <2> QED
    BY <2>2, <2>3
<1> QED
  BY <1>1, <1>6, <1>7, <1>8, <1>9

-----------------------------------------------------------------------------
(* What a report joins.                                                    *)

\* The records of an observation, and what is found in them.
LEMMA RecordFacts ==
  ASSUME NEW o \in Observation
  PROVE  /\ o.recs \in Seq(Range(o.recs)) /\ Len(o.recs) \in Nat
         /\ DOMAIN o.recs = 1 .. Len(o.recs) /\ IsFiniteSet(DOMAIN o.recs)
         /\ \A i \in DOMAIN o.recs : Findings(Found(o.recs[i]))
<1>1. o.recs \in Seq(Range(o.recs)) /\ \A rec \in Range(o.recs) : IsRecord(rec)
  BY PipelineAssumption
<1>2. Len(o.recs) \in Nat /\ DOMAIN o.recs = 1 .. Len(o.recs)
  <2> DEFINE S == Range(o.recs)
  <2> HIDE DEF S
  <2> QED
    BY <1>1 DEF S
<1>3. IsFiniteSet(1 .. Len(o.recs))
  <2>1. 1 \in Int /\ Len(o.recs) \in Int
    BY <1>2
  <2> QED
    BY <2>1, FS_Interval
<1>4. ASSUME NEW i \in DOMAIN o.recs
      PROVE  Findings(Found(o.recs[i]))
  <2>1. o.recs[i] \in Range(o.recs)
    BY DEF Range
  <2> QED
    BY <1>1, <2>1, RecordFindings
<1> QED
  BY <1>1, <1>2, <1>3, <1>4

\* What is listed under index i.
Under(i, d) == {Finding(f.kind, f.at) : f \in {g \in d.found : g.index = i}}

\* The findings of an observation are those of its records, each under its own.
LEMMA DiffedFacts ==
  ASSUME NEW o \in Observation
  PROVE  /\ IsFiniteSet(Diffed(o).found)
         /\ \A f \in Diffed(o).found : f.index \in DOMAIN o.recs
         /\ \A f, g \in Diffed(o).found :
              f.index = g.index /\ Finding(f.kind, f.at) = Finding(g.kind, g.at) => f = g
         /\ \A i : Under(i, Diffed(o)) =
                     IF i \in DOMAIN o.recs THEN Found(o.recs[i]) ELSE {}
<1> DEFINE of(i) == {[index |-> i, kind |-> f.kind, at |-> f.at] : f \in Found(o.recs[i])}
           d == Diffed(o)
<1>1. d.found = UNION {of(i) : i \in DOMAIN o.recs}
  BY DEF Diffed
<1>2. \A i \in DOMAIN o.recs : \A f \in of(i) :
        /\ f = [index |-> i, kind |-> f.kind, at |-> f.at] /\ f.index = i
        /\ Finding(f.kind, f.at) \in Found(o.recs[i])
  <2> SUFFICES ASSUME NEW i \in DOMAIN o.recs, NEW f \in of(i)
               PROVE  /\ f = [index |-> i, kind |-> f.kind, at |-> f.at] /\ f.index = i
                      /\ Finding(f.kind, f.at) \in Found(o.recs[i])
    OBVIOUS
  <2>1. PICK x \in Found(o.recs[i]) : f = [index |-> i, kind |-> x.kind, at |-> x.at]
    OBVIOUS
  <2>2. x = Finding(x.kind, x.at)
    BY RecordFacts DEF Findings
  <2>3. f.index = i /\ f.kind = x.kind /\ f.at = x.at
    BY <2>1
  <2> QED
    BY <2>1, <2>2, <2>3
<1>3. \A i \in DOMAIN o.recs : \A x \in Found(o.recs[i]) :
        \E f \in of(i) : Finding(f.kind, f.at) = x
  <2> SUFFICES ASSUME NEW i \in DOMAIN o.recs, NEW x \in Found(o.recs[i])
               PROVE  \E f \in of(i) : Finding(f.kind, f.at) = x
    OBVIOUS
  <2>1. x = Finding(x.kind, x.at)
    BY RecordFacts DEF Findings
  <2> WITNESS [index |-> i, kind |-> x.kind, at |-> x.at] \in of(i)
  <2> QED
    BY <2>1
<1>4. \A i \in DOMAIN o.recs : IsFiniteSet(of(i))
  <2> TAKE i \in DOMAIN o.recs
  <2> DEFINE S == Found(o.recs[i])
             h == [f \in S |-> [index |-> i, kind |-> f.kind, at |-> f.at]]
  <2>1. IsFiniteSet(S)
    BY RecordFacts DEF Findings
  <2>2. of(i) = {h[f] : f \in S}
    OBVIOUS
  <2> HIDE DEF h, S
  <2>3. IsFiniteSet({h[f] : f \in S})
    BY <2>1, ImageIsFinite
  <2> QED
    BY <2>2, <2>3
<1> HIDE DEF of
<1>5. IsFiniteSet(d.found)
  <2> DEFINE S == DOMAIN o.recs
             h == [i \in S |-> of(i)]
             T == {h[i] : i \in S}
  <2>1. IsFiniteSet(S)
    BY RecordFacts
  <2>2. \A t \in T : IsFiniteSet(t)
    BY <1>4
  <2>3. d.found = UNION T
    BY <1>1
  <2>4. IsFiniteSet(T)
    <3> HIDE DEF h, S
    <3> QED
      BY <2>1, ImageIsFinite
  <2> HIDE DEF T, d
  <2> QED
    BY <2>2, <2>3, <2>4, FS_UNION
<1>6. \A f \in d.found : /\ f.index \in DOMAIN o.recs /\ f \in of(f.index)
                         /\ f = [index |-> f.index, kind |-> f.kind, at |-> f.at]
                         /\ Finding(f.kind, f.at) \in Found(o.recs[f.index])
  <2> SUFFICES ASSUME NEW f \in d.found
               PROVE  /\ f.index \in DOMAIN o.recs /\ f \in of(f.index)
                      /\ f = [index |-> f.index, kind |-> f.kind, at |-> f.at]
                      /\ Finding(f.kind, f.at) \in Found(o.recs[f.index])
    OBVIOUS
  <2>1. PICK i \in DOMAIN o.recs : f \in of(i)
    BY <1>1
  <2> QED
    BY <1>2, <2>1
<1>7. \A i \in DOMAIN o.recs : \A f \in of(i) : f \in d.found
  BY <1>1
<1> HIDE DEF d
<1>8. \A f, g \in d.found :
        f.index = g.index /\ Finding(f.kind, f.at) = Finding(g.kind, g.at) => f = g
  <2> SUFFICES ASSUME NEW f \in d.found, NEW g \in d.found, f.index = g.index,
                      Finding(f.kind, f.at) = Finding(g.kind, g.at)
               PROVE  f = g
    OBVIOUS
  <2>1. f.kind = g.kind /\ f.at = g.at
    BY DEF Finding
  <2> QED
    BY <1>6, <2>1
<1>9. ASSUME NEW i
      PROVE  Under(i, d) = IF i \in DOMAIN o.recs THEN Found(o.recs[i]) ELSE {}
  <2>1. CASE i \notin DOMAIN o.recs
    BY <1>6, <2>1 DEF Under
  <2>2. CASE i \in DOMAIN o.recs
    <3>1. \A x \in Under(i, d) : x \in Found(o.recs[i])
      BY <1>6 DEF Under
    <3>2. ASSUME NEW x \in Found(o.recs[i])
          PROVE  x \in Under(i, d)
      <4>1. PICK f \in of(i) : Finding(f.kind, f.at) = x
        BY <1>3, <2>2
      <4>2. f \in d.found /\ f.index = i
        BY <1>2, <1>7, <2>2
      <4> QED
        BY <4>1, <4>2 DEF Under
    <3> QED
      BY <2>2, <3>1, <3>2
  <2> QED
    BY <2>1, <2>2
<1> QED
  BY <1>5, <1>6, <1>8, <1>9 DEF d

\* The scores of an observation: one for each record.
LEMMA ScoredFacts ==
  ASSUME NEW o \in Observation
  PROVE  /\ DOMAIN Scored(o).scored = DOMAIN o.recs
         /\ \A i \in DOMAIN o.recs : Scored(o).scored[i] \in {0, 85, 95}
         /\ Len(Scored(o).scored) = Len(o.recs)
<1> DEFINE f == [i \in DOMAIN o.recs |-> ScoreOf(o.recs[i])]
<1>1. Scored(o).scored = f
  BY DEF Scored
<1>2. f \in Seq({0, 85, 95}) /\ Len(f) = Len(o.recs)
  <2>1. \A rec : ScoreOf(rec) \in {0, 85, 95}
    BY DEF ScoreOf
  <2>2. DOMAIN o.recs = 1 .. Len(o.recs) /\ Len(o.recs) \in Nat
    BY RecordFacts
  <2>3. f \in [1 .. Len(o.recs) -> {0, 85, 95}]
    BY <2>1, <2>2
  <2> HIDE DEF f
  <2> QED
    BY <2>2, <2>3
<1>3. \A i \in DOMAIN o.recs : f[i] \in {0, 85, 95}
  BY DEF ScoreOf
<1> QED
  BY <1>1, <1>2, <1>3

\* The indices of a report of two observations, and their scores.
LEMMA IndexFacts ==
  ASSUME NEW o \in Observation, NEW p \in Observation
  PROVE  LET s == Scored(o)
             d == Diffed(p)
         IN  /\ Indices(s, d) \in SUBSET Nat /\ IsFiniteSet(Indices(s, d))
             /\ Ranked(s, d) \in [Indices(s, d) -> Int]
             /\ DOMAIN o.recs \subseteq Indices(s, d)
             /\ \A f \in d.found : f.index \in Indices(s, d)
             /\ \A i \in Indices(s, d) :
                  IF i \in DOMAIN o.recs
                  THEN Ranked(s, d)[i] = s.scored[i] ELSE Ranked(s, d)[i] = 0
<1> DEFINE s == Scored(o)
           d == Diffed(p)
           I == Indices(s, d)
<1>1. DOMAIN s.scored = DOMAIN o.recs /\ \A i \in DOMAIN o.recs : s.scored[i] \in {0, 85, 95}
  BY ScoredFacts
<1>2. \A f \in d.found : f.index \in DOMAIN p.recs
  BY DiffedFacts
<1>3. /\ DOMAIN o.recs \subseteq Nat /\ IsFiniteSet(DOMAIN o.recs)
      /\ DOMAIN p.recs \subseteq Nat /\ IsFiniteSet(DOMAIN p.recs)
  BY RecordFacts
<1> HIDE DEF s, d
<1>4. I = DOMAIN o.recs \cup {f.index : f \in d.found}
  BY <1>1 DEF Indices
<1>5. I \in SUBSET (DOMAIN o.recs \cup DOMAIN p.recs)
  BY <1>2, <1>4
<1>6. IsFiniteSet(I)
  BY <1>3, <1>5, FS_Union, FS_Subset
<1>7. \A i \in I : IF i \in DOMAIN o.recs
                   THEN Ranked(s, d)[i] = s.scored[i] ELSE Ranked(s, d)[i] = 0
  BY <1>1 DEF Ranked
<1>8. Ranked(s, d) \in [I -> Int]
  BY <1>1 DEF Ranked
<1> QED
  BY <1>3, <1>4, <1>5, <1>6, <1>7, <1>8 DEF s, d

\* A report has one item for each index, and no other; the first is one with the
\* highest score.
LEMMA JoinedFacts ==
  ASSUME NEW o \in Observation, NEW p \in Observation, NEW health
  PROVE  LET s == Scored(o)
             d == Diffed(p)
             I == Indices(s, d)
             items == Joined(s, d, health).items
         IN  /\ DOMAIN items = 1 .. Cardinality(I) /\ Len(items) = Cardinality(I)
             /\ \A n \in DOMAIN items : \E i \in I : items[n] = Item(i, s, d)
             /\ \A i \in I : \E n \in DOMAIN items : items[n] = Item(i, s, d)
             /\ \A n \in DOMAIN items : n = 1 =>
                  \A i \in I : items[n].score >= Ranked(s, d)[i]
<1> DEFINE s == Scored(o)
           d == Diffed(p)
           I == Indices(s, d)
           score == Ranked(s, d)
           c == Cardinality(I)
           at(n) == CHOOSE i \in I : Place(i, score) = n
           items == [n \in 1 .. c |-> Item(at(n), s, d)]
<1>1. Joined(s, d, health).items = items
  BY DEF Joined
<1>2. I \in SUBSET Nat /\ IsFiniteSet(I) /\ score \in [I -> Int]
  BY IndexFacts
<1>3. \A i, d1, s1 : Item(i, s1, d1).score = Ranked(s1, d1)[i]
  BY DEF Item
<1> HIDE DEF s, d, I, score
<1>4. c \in Nat
  BY <1>2, FS_CardinalityType
<1>5. /\ \A i \in I : Place(i, score) \in 1 .. c
      /\ \A i, j \in I : Place(i, score) = Place(j, score) => i = j
      /\ \A n \in 1 .. c : \E i \in I : Place(i, score) = n
      /\ \A i, j \in I : Place(i, score) = 1 => score[i] >= score[j]
  BY <1>2, PlacesOfAll
<1>6. \A n \in 1 .. c : at(n) \in I /\ Place(at(n), score) = n
  BY <1>5
<1> HIDE DEF at
<1>7. \A i \in I : at(Place(i, score)) = i
  BY <1>5, <1>6
<1>8. DOMAIN items = 1 .. c /\ Len(items) = c
  <2>1. DOMAIN items = 1 .. c
    OBVIOUS
  <2> HIDE DEF items, c
  <2> QED
    BY <1>4, <2>1
<1>9. \A n \in DOMAIN items : \E i \in I : items[n] = Item(i, s, d)
  BY <1>6
<1>10. \A i \in I : \E n \in DOMAIN items : items[n] = Item(i, s, d)
  <2> TAKE i \in I
  <2>1. Place(i, score) \in DOMAIN items /\ items[Place(i, score)] = Item(i, s, d)
    BY <1>5, <1>7
  <2> QED
    BY <2>1
<1>11. \A n \in DOMAIN items : n = 1 => \A i \in I : items[n].score >= score[i]
  <2> SUFFICES ASSUME 1 \in DOMAIN items, NEW i \in I
               PROVE  items[1].score >= score[i]
    OBVIOUS
  <2>1. items[1].score = score[at(1)] /\ 1 \in 1 .. c
    BY <1>3 DEF score
  <2> QED
    BY <1>5, <1>6, <2>1
<1> HIDE DEF items
<1> QED
  BY <1>1, <1>8, <1>9, <1>10, <1>11 DEF s, d, I, score

\* The two judgments are both in it, whole and once.
LEMMA JoinedAddsUp ==
  ASSUME NEW o \in Observation, NEW p \in Observation, NEW health, NEW r,
         r = Joined(Scored(o), Diffed(p), health)
  PROVE  AddsUp(r)
<1> DEFINE s == Scored(o)
           d == Diffed(p)
           I == Indices(s, d)
           all == Range(r.items)
<1>1. /\ DOMAIN r.items = 1 .. Cardinality(I) /\ Len(r.items) = Cardinality(I)
      /\ \A n \in DOMAIN r.items : \E i \in I : r.items[n] = Item(i, s, d)
      /\ \A i \in I : \E n \in DOMAIN r.items : r.items[n] = Item(i, s, d)
      /\ \A n \in DOMAIN r.items : n = 1 =>
           \A i \in I : r.items[n].score >= Ranked(s, d)[i]
  BY JoinedFacts
<1>2. /\ I \in SUBSET Nat /\ IsFiniteSet(I) /\ Ranked(s, d) \in [I -> Int]
      /\ DOMAIN o.recs \subseteq I /\ \A f \in d.found : f.index \in I
      /\ \A i \in I : IF i \in DOMAIN o.recs
                     THEN Ranked(s, d)[i] = s.scored[i] ELSE Ranked(s, d)[i] = 0
  BY IndexFacts
<1>3. /\ DOMAIN s.scored = DOMAIN o.recs /\ Len(s.scored) = Len(o.recs)
      /\ \A i \in DOMAIN o.recs : s.scored[i] \in {0, 85, 95}
  BY ScoredFacts
<1>4. /\ IsFiniteSet(d.found)
      /\ \A f, g \in d.found :
           f.index = g.index /\ Finding(f.kind, f.at) = Finding(g.kind, g.at) => f = g
  BY DiffedFacts
<1>5. /\ r.records = Len(s.scored) /\ r.flagged = s.flagged /\ r.top = s.top
      /\ r.divergences = Cardinality(d.found)
      /\ r.items = [n \in DOMAIN r.items |-> r.items[n]]
  BY DEF Joined
<1>6. /\ s.flagged = Cardinality({i \in DOMAIN s.scored : s.scored[i] >= FlagThreshold})
      /\ s.top = Max({0} \cup {s.scored[i] : i \in DOMAIN s.scored})
  BY DEF Scored
<1>7. DOMAIN o.recs = 1 .. Len(o.recs) /\ Len(o.recs) \in Nat
  BY RecordFacts
<1>8. \A i : /\ Item(i, s, d).index = i /\ Item(i, s, d).score = Ranked(s, d)[i]
            /\ Item(i, s, d).divergences = Under(i, d)
  BY DEF Item, Under
<1> HIDE DEF s, d, I
<1>9. all = {Item(i, s, d) : i \in I}
  BY <1>1 DEF Range
<1> HIDE DEF all
<1>10. Cardinality({i.index : i \in all}) = Len(r.items)
  <2>1. \A x \in {i.index : i \in all} : x \in I
    BY <1>8, <1>9
  <2>2. \A x \in I : x \in {i.index : i \in all}
    BY <1>8, <1>9
  <2>3. {i.index : i \in all} = I
    BY <2>1, <2>2
  <2> QED
    BY <1>1, <2>3
<1>11. Cardinality(UNION {{<<i.index, f>> : f \in i.divergences} : i \in all})
         = r.divergences
  <2> DEFINE pairs(i) == {<<i.index, f>> : f \in i.divergences}
             U == UNION {pairs(i) : i \in all}
             F == d.found
             h == [f \in F |-> <<f.index, Finding(f.kind, f.at)>>]
  <2>1. \A f \in F : h[f] \in U
    <3> TAKE f \in F
    <3>1. Item(f.index, s, d) \in all /\ Finding(f.kind, f.at) \in Under(f.index, d)
      BY <1>2, <1>9 DEF Under
    <3>2. h[f] \in pairs(Item(f.index, s, d))
      BY <1>8, <3>1
    <3> HIDE DEF pairs, h
    <3> QED
      BY <3>1, <3>2
  <2>2. \A u \in U : \E f \in F : h[f] = u
    <3> TAKE u \in U
    <3>1. PICK i \in I : u \in pairs(Item(i, s, d))
      BY <1>9
    <3>2. PICK x \in Under(i, d) : u = <<i, x>>
      BY <1>8, <3>1
    <3>3. PICK f \in F : f.index = i /\ x = Finding(f.kind, f.at)
      BY DEF Under
    <3> QED
      BY <3>2, <3>3
  <2>3. \A f, g \in F : h[f] = h[g] => f = g
    BY <1>4
  <2>4. DOMAIN h = F /\ h \in [F -> U]
    BY <2>1
  <2> HIDE DEF h, U, F
  <2>5. h \in Bijection(F, U)
    BY <2>2, <2>3, <2>4 DEF Bijection, Injection, Surjection, IsInjective
  <2>6. Cardinality(U) = Cardinality(F)
    BY <1>4, <2>5, FS_Bijection DEF ExistsBijection, F
  <2> QED
    BY <1>5, <2>6 DEF U, F
<1>12. Cardinality({i \in all : i.score >= FlagThreshold}) = r.flagged
  <2> DEFINE S == {i \in DOMAIN s.scored : s.scored[i] >= FlagThreshold}
             T == {i \in all : i.score >= FlagThreshold}
             h == [i \in S |-> Item(i, s, d)]
  <2>1. \A i \in S : h[i] \in T
    <3> TAKE i \in S
    <3>1. i \in I /\ Ranked(s, d)[i] = s.scored[i] /\ s.scored[i] >= FlagThreshold
      BY <1>2, <1>3
    <3> QED
      BY <1>8, <1>9, <3>1
  <2>2. \A t \in T : \E i \in S : h[i] = t
    <3> TAKE t \in T
    <3>1. PICK i \in I : t = Item(i, s, d)
      BY <1>9
    <3>2. Ranked(s, d)[i] >= FlagThreshold
      BY <1>8, <3>1
    <3>3. i \in DOMAIN s.scored /\ s.scored[i] >= FlagThreshold
      BY <1>2, <1>3, <3>2 DEF FlagThreshold
    <3> QED
      BY <3>1, <3>3
  <2>3. \A i, j \in S : h[i] = h[j] => i = j
    BY <1>8
  <2>4. DOMAIN h = S /\ h \in [S -> T]
    BY <2>1
  <2>5. IsFiniteSet(S)
    BY <1>2, <1>3, FS_Subset
  <2> HIDE DEF h, S, T
  <2>6. h \in Bijection(S, T)
    BY <2>2, <2>3, <2>4 DEF Bijection, Injection, Surjection, IsInjective
  <2>7. Cardinality(T) = Cardinality(S)
    BY <2>5, <2>6, FS_Bijection DEF ExistsBijection
  <2> QED
    BY <1>5, <1>6, <2>7 DEF S, T
<1>13. r.items # << >> => r.items[1].score = r.top
  <2> SUFFICES ASSUME r.items # << >>
               PROVE  r.items[1].score = r.top
    OBVIOUS
  <2> DEFINE S == {0} \cup {s.scored[i] : i \in DOMAIN s.scored}
             x == r.items[1].score
  <2>1. Cardinality(I) \in Nat
    BY <1>2, FS_CardinalityType
  <2>2. 1 \in DOMAIN r.items
    BY <1>1, <1>5, <2>1
  <2>3. PICK i \in I : r.items[1] = Item(i, s, d)
    BY <1>1, <2>2
  <2>4. x = Ranked(s, d)[i] /\ \A j \in I : x >= Ranked(s, d)[j]
    BY <1>1, <1>8, <2>2, <2>3
  <2>5. S \subseteq {0, 85, 95}
    BY <1>3
  <2>6. x \in S
    BY <1>2, <1>3, <2>4
  <2>7. \A y \in S : x >= y
    <3>1. \A j \in DOMAIN s.scored : x >= s.scored[j]
      BY <1>2, <1>3, <2>4
    <3>2. x >= 0
      <4> HIDE DEF S, x
      <4> QED
        BY <2>5, <2>6
    <3> QED
      BY <3>1, <3>2
  <2> HIDE DEF S, x
  <2>8. \A y \in S : (\A z \in S : y >= z) => y = x
    BY <2>5, <2>6, <2>7
  <2>9. Max(S) = x
    BY <2>6, <2>7, <2>8 DEF Max
  <2> QED
    BY <1>5, <1>6, <2>9 DEF S, x
<1>14. Len(r.items) >= r.records
  <2> DEFINE S == 1 .. Len(o.recs)
  <2>1. Cardinality(S) = Len(o.recs)
    BY <1>7, FS_Interval
  <2>2. S \in SUBSET I
    BY <1>2, <1>7
  <2> HIDE DEF S
  <2>3. Cardinality(S) <= Cardinality(I)
    BY <1>2, <2>2, FS_Subset
  <2>4. Cardinality(I) \in Nat
    BY <1>2, FS_CardinalityType
  <2> QED
    BY <1>1, <1>3, <1>5, <1>7, <2>1, <2>3, <2>4
<1> QED
  BY <1>10, <1>11, <1>12, <1>13, <1>14 DEF all, AddsUp

\* The divergences of a report are those of the findings, record by record.
LEMMA JoinedIsOwn ==
  ASSUME NEW o \in Observation, NEW p \in Observation, NEW health, NEW r,
         r = Joined(Scored(o), Diffed(p), health),
         NEW all, all = Range(r.items)
  PROVE  /\ \A i \in DOMAIN p.recs : Found(p.recs[i]) # {} =>
                  \E item \in all : item.index = i
         /\ \A item \in all : item.divergences =
                  IF item.index \in DOMAIN p.recs THEN Found(p.recs[item.index]) ELSE {}
<1> DEFINE s == Scored(o)
           d == Diffed(p)
           I == Indices(s, d)
<1>1. /\ \A n \in DOMAIN r.items : \E i \in I : r.items[n] = Item(i, s, d)
      /\ \A i \in I : \E n \in DOMAIN r.items : r.items[n] = Item(i, s, d)
  BY JoinedFacts
<1>r. all = {r.items[n] : n \in DOMAIN r.items}
  BY DEF Range
<1>2. \A f \in d.found : f.index \in I
  BY IndexFacts
<1>3. \A i : Under(i, d) = IF i \in DOMAIN p.recs THEN Found(p.recs[i]) ELSE {}
  BY DiffedFacts
<1>4. \A i : Item(i, s, d).index = i /\ Item(i, s, d).divergences = Under(i, d)
  BY DEF Item, Under
<1> HIDE DEF s, d, I
<1>5. ASSUME NEW i \in DOMAIN p.recs, Found(p.recs[i]) # {}
      PROVE  \E item \in all : item.index = i
  <2>1. Under(i, d) # {}
    BY <1>3, <1>5
  <2>2. \E f \in d.found : f.index = i
    BY <2>1 DEF Under
  <2> QED
    BY <1>1, <1>2, <1>4, <1>r, <2>2
<1>6. ASSUME NEW item \in all
      PROVE  item.divergences =
               IF item.index \in DOMAIN p.recs THEN Found(p.recs[item.index]) ELSE {}
  <2>1. PICK i \in I : item = Item(i, s, d)
    BY <1>1, <1>r
  <2>2. item.index = i /\ item.divergences = Under(i, d)
    BY <1>4, <2>1
  <2> QED
    BY <1>3, <2>2
<1> QED
  BY <1>5, <1>6

\* Whatever two judgments a report joins, of the same process or not, it lists
\* each record once and each finding once, under its record; its counts are of
\* what it lists, and the record with the highest score comes first.
THEOREM ReportDropsNothing == Spec => []ReportAddsUp
<1>1. IInv => ReportAddsUp
  <2> SUFFICES ASSUME IInv, report # None
               PROVE  AddsUp(report)
    BY DEF ReportAddsUp
  <2>0. PICK r : report = r
    OBVIOUS
  <2>1. PICK o \in Observation, p \in Observation :
          \E health : r = Joined(Scored(o), Diffed(p), health)
    BY <2>0 DEF IInv, Judged
  <2>2. AddsUp(r)
    BY <2>1, JoinedAddsUp
  <2> QED
    BY <2>0, <2>2
<1> QED
  BY <1>1, Invariant, PTL

\* The divergences of a report are the ones of the process that wrote it, each
\* under the record it was found in, even if an analyzer left behind by a killed
\* process replaced its scores.
THEOREM DivergencesOfOneRun == Spec => []DivergencesAreOwn
<1>1. IInv => DivergencesAreOwn
  <2> SUFFICES ASSUME IInv, pc = "done"
               PROVE  /\ \A i \in DOMAIN norm.recs : Found(norm.recs[i]) # {} =>
                           \E item \in Items : item.index = i
                      /\ \A item \in Items : item.divergences =
                           IF item.index \in DOMAIN norm.recs
                           THEN Found(norm.recs[item.index]) ELSE {}
    BY DEF DivergencesAreOwn
  <2>1. PICK p, r : p = norm /\ r = report
    OBVIOUS
  <2>2. PICK all : all = Items /\ all = Range(r.items)
    BY <2>1 DEF Items
  <2>3. /\ p \in Observation
        /\ \E o \in Observation : \E health : r = Joined(Scored(o), Diffed(p), health)
    BY <2>1 DEF IInv, OwnFindings, Held
  <2>4. /\ \A i \in DOMAIN p.recs : Found(p.recs[i]) # {} =>
             \E item \in all : item.index = i
        /\ \A item \in all : item.divergences =
             IF item.index \in DOMAIN p.recs THEN Found(p.recs[item.index]) ELSE {}
    BY <2>2, <2>3, JoinedIsOwn
  <2> QED
    BY <2>1, <2>2, <2>4
<1> QED
  BY <1>1, Invariant, PTL

-----------------------------------------------------------------------------
(* Numbers, and functions defined by recursion along 0 .. n.               *)

\* The smallest of a set of numbers is one of them, and is smallest.
LEMMA MinOfNats ==
  ASSUME NEW I \in SUBSET Nat, I # {}
  PROVE  Min(I) \in I /\ \A i \in I : Min(I) <= i
<1> DEFINE Below == {1 .. i : i \in I}
<1>1. Below \subseteq FiniteSubsetsOf(Nat) /\ Below # {}
  <2>1. \A i \in I : 1 .. i \subseteq Nat /\ IsFiniteSet(1 .. i)
    BY FS_Interval
  <2> QED
    BY <2>1 DEF FiniteSubsetsOf
<1>2. PICK B \in Below : \A C \in Below : <<C, B>> \notin StrictSubsetOrdering(Nat)
  <2> HIDE DEF Below
  <2>1. IsWellFoundedOn(StrictSubsetOrdering(Nat), FiniteSubsetsOf(Nat))
    BY FS_StrictSubsetOrderingWellFounded
  <2> QED
    BY <1>1, <2>1, WFMin
<1>3. PICK m \in I : B = 1 .. m
  OBVIOUS
<1>4. \A i \in I : m <= i
  <2> SUFFICES ASSUME NEW i \in I, i < m
               PROVE  FALSE
    OBVIOUS
  <2>1. 1 .. i \subseteq B /\ m \in B /\ m \notin 1 .. i
    BY <1>3
  <2>2. 1 .. i \in SUBSET Nat /\ B \in SUBSET Nat
    BY <1>3
  <2> QED
    BY <1>2, <2>1, <2>2 DEF StrictSubsetOrdering
<1> QED
  BY <1>4 DEF Min

\* Induction along 0 .. n, for a property given as the set that has it.
LEMMA UpTo ==
  ASSUME NEW n \in Nat, NEW P, 0 \in P,
         \A i \in 1 .. n : i - 1 \in P => i \in P
  PROVE  \A i \in 0 .. n : i \in P
<1> DEFINE Bad == {i \in 0 .. n : i \notin P}
<1> SUFFICES ASSUME Bad # {}
             PROVE  FALSE
  OBVIOUS
<1>1. Bad \in SUBSET Nat
  OBVIOUS
<1>2. PICK m \in Bad : \A i \in Bad : m <= i
  BY <1>1, MinOfNats
<1>3. m \in 1 .. n
  BY <1>2
<1>4. m - 1 \in 0 .. n /\ m - 1 \notin Bad
  BY <1>2, <1>3
<1> QED
  BY <1>2, <1>3, <1>4

\* The functions that take a value and a place to the next value, and the
\* sequence of values a recursion along 0 .. n takes from base.
Steps(T, n) == [T \X (1 .. n) -> T]
Goes(f, T, n, base, step) ==
  /\ f \in [0 .. n -> T] /\ f[0] = base
  /\ \A i \in 1 .. n : f[i] = step[<<f[i - 1], i>>]

\* A recursion along 0 .. n has a solution.
LEMMA Recursion ==
  ASSUME NEW T, NEW n \in Nat, NEW base \in T, NEW step \in Steps(T, n)
  PROVE  \E f : Goes(f, T, n, base, step)
<1> DEFINE Solves(f, k) == f[0] = base /\ \A i \in 1 .. k : f[i] = step[<<f[i - 1], i>>]
           P == {k \in 0 .. n : \E f \in [0 .. k -> T] : Solves(f, k)}
<1>1. 0 \in P
  <2> DEFINE only == [i \in 0 .. 0 |-> base]
  <2>1. only \in [0 .. 0 -> T]
    OBVIOUS
  <2>2. Solves(only, 0)
    OBVIOUS
  <2> HIDE DEF only, Solves
  <2> QED
    BY <2>1, <2>2
<1>2. ASSUME NEW k \in 1 .. n, k - 1 \in P
      PROVE  k \in P
  <2>1. PICK f \in [0 .. k - 1 -> T] : Solves(f, k - 1)
    BY <1>2
  <2> DEFINE g == [i \in 0 .. k |-> IF i = k THEN step[<<f[k - 1], k>>] ELSE f[i]]
  <2>2. f[k - 1] \in T /\ step[<<f[k - 1], k>>] \in T
    BY <1>2 DEF Steps
  <2>3. g \in [0 .. k -> T]
    <3>1. \A i \in 0 .. k : i # k => f[i] \in T
      OBVIOUS
    <3> QED
      BY <2>2, <3>1
  <2>4. \A i \in 0 .. k - 1 : g[i] = f[i]
    OBVIOUS
  <2>5. g[k] = step[<<g[k - 1], k>>]
    <3>1. g[k] = step[<<f[k - 1], k>>]
      OBVIOUS
    <3>2. g[k - 1] = f[k - 1]
      BY <2>4
    <3> HIDE DEF g
    <3> QED
      BY <3>1, <3>2
  <2>6. ASSUME NEW i \in 1 .. k
        PROVE  g[i] = step[<<g[i - 1], i>>]
    <3>1. CASE i = k
      BY <2>5, <3>1
    <3>2. CASE i # k
      <4>1. i \in 1 .. k - 1 /\ i - 1 \in 0 .. k - 1 /\ i \in 0 .. k - 1
        BY <3>2
      <4> HIDE DEF g
      <4> QED
        BY <2>1, <2>4, <4>1
    <3> QED
      BY <3>1, <3>2
  <2>7. g[0] = base
    BY <2>1, <2>4
  <2> HIDE DEF g
  <2> QED
    BY <2>3, <2>6, <2>7
<1>3. n \in P
  <2> HIDE DEF P
  <2>1. \A k \in 1 .. n : k - 1 \in P => k \in P
    BY <1>2
  <2> QED
    BY <1>1, <2>1, UpTo
<1> QED
  BY <1>3 DEF Goes

\* Quotient and remainder, and that nothing else is.
LEMMA DivMod ==
  ASSUME NEW v \in Nat, NEW d \in Nat \ {0}
  PROVE  v \div d \in Nat /\ v % d \in 0 .. d - 1 /\ v = d * (v \div d) + (v % d)
  OBVIOUS

LEMMA DivModParts ==
  ASSUME NEW v \in Nat, NEW d \in Nat \ {0}
  PROVE  \E q \in Nat : \E r \in 0 .. d - 1 : q = v \div d /\ r = v % d /\ v = d * q + r
<1>1. PICK q, r : q = v \div d /\ r = v % d
  OBVIOUS
<1>2. q \in Nat /\ r \in 0 .. d - 1 /\ v = d * q + r
  BY <1>1, DivMod
<1> QED
  BY <1>1, <1>2

LEMMA DivModUnique ==
  ASSUME NEW v \in Nat, NEW d \in Nat \ {0}, NEW q \in Nat, NEW r \in 0 .. d - 1,
         v = d * q + r
  PROVE  v \div d = q /\ v % d = r
  OBVIOUS

LEMMA SmallMod ==
  ASSUME NEW d \in Nat \ {0}, NEW v \in Nat, v < d
  PROVE  v % d = v
<1>1. v = d * 0 + v
  OBVIOUS
<1> QED
  BY <1>1, DivModUnique

\* The remainder by twice a number has one bit more.
LEMMA BitMore ==
  ASSUME NEW v \in Nat, NEW d \in Nat \ {0}
  PROVE  /\ (v \div d) % 2 \in {0, 1}
         /\ v % (2 * d) = (v % d) + d * ((v \div d) % 2)
<1>1. PICK q \in Nat, r \in 0 .. d - 1 : q = v \div d /\ r = v % d /\ v = d * q + r
  BY DivMod
<1>2. PICK p \in Nat, e \in {0, 1} : e = q % 2 /\ q = 2 * p + e
  BY DivMod
<1>3. PICK m \in Nat : m = r + d * e
  BY <1>1, <1>2
<1>4. m \in 0 .. 2 * d - 1
  <2>1. CASE e = 0
    BY <1>3, <2>1
  <2>2. CASE e = 1
    BY <1>3, <2>2
  <2> QED
    BY <1>2, <2>1, <2>2
<1>5. v = (2 * d) * p + m
  <2>1. d * (2 * p + e) = (2 * d) * p + d * e
    OBVIOUS
  <2>2. v = ((2 * d) * p + d * e) + r
    BY <1>1, <1>2, <2>1
  <2> QED
    BY <1>3, <2>2
<1>6. 2 * d \in Nat \ {0}
  OBVIOUS
<1>7. v % (2 * d) = m
  BY <1>4, <1>5, <1>6, DivModUnique
<1> QED
  BY <1>1, <1>2, <1>3, <1>7

\* A multiple more leaves the remainder.
LEMMA ModPlus ==
  ASSUME NEW v \in Nat, NEW d \in Nat \ {0}, NEW k \in Nat
  PROVE  (v + d * k) % d = v % d
<1>1. PICK q \in Nat, r \in 0 .. d - 1 : r = v % d /\ v = d * q + r
  BY DivMod
<1>2. PICK w \in Nat, p \in Nat : w = v + d * k /\ p = q + k
  OBVIOUS
<1>3. w = d * p + r
  BY <1>1, <1>2
<1>4. w % d = r
  BY <1>3, DivModUnique
<1> QED
  BY <1>1, <1>2, <1>4

\* Between two words with the same upper half, the lower halves are in order.
LEMMA ModOrder ==
  ASSUME NEW u \in Nat, NEW v \in Nat, NEW w \in Nat, NEW d \in Nat \ {0},
         u <= v, v <= w, u \div d = w \div d
  PROVE  u % d <= v % d /\ v % d <= w % d
<1>0. PICK q \in Nat : \E r \in 0 .. d - 1 : q = u \div d /\ r = u % d /\ u = d * q + r
  BY DivModParts
<1>1. PICK r \in 0 .. d - 1, t \in 0 .. d - 1 :
        r = u % d /\ u = d * q + r /\ t = w % d /\ w = d * q + t
  <2>1. PICK r \in 0 .. d - 1 : q = u \div d /\ r = u % d /\ u = d * q + r
    BY <1>0
  <2>2. PICK o \in Nat : \E t \in 0 .. d - 1 : o = w \div d /\ t = w % d /\ w = d * o + t
    BY DivModParts
  <2>3. o = q
    BY <2>1, <2>2
  <2> QED
    BY <2>1, <2>2, <2>3
<1>2. PICK p \in Nat, e \in 0 .. d - 1 : e = v % d /\ v = d * p + e
  <2>1. PICK o \in Nat : \E f \in 0 .. d - 1 : o = v \div d /\ f = v % d /\ v = d * o + f
    BY DivModParts
  <2>2. PICK f \in 0 .. d - 1 : o = v \div d /\ f = v % d /\ v = d * o + f
    BY <2>1
  <2> QED
    BY <2>2
<1>3. p = q
  <2>1. CASE p < q
    <3>1. d * p + d <= d * q
      <4>1. PICK k \in Nat : q = p + 1 + k
        BY <2>1
      <4>2. d * q = d * p + d + d * k /\ d * k >= 0
        BY <4>1
      <4> QED
        BY <4>2
    <3> QED
      BY <1>1, <1>2, <3>1
  <2>2. CASE p > q
    <3>1. d * q + d <= d * p
      <4>1. PICK k \in Nat : p = q + 1 + k
        BY <2>2
      <4>2. d * p = d * q + d + d * k /\ d * k >= 0
        BY <4>1
      <4> QED
        BY <4>2
    <3> QED
      BY <1>1, <1>2, <3>1
  <2> QED
    BY <2>1, <2>2
<1> QED
  BY <1>1, <1>2, <1>3

-----------------------------------------------------------------------------
(* The bits of a word.                                                     *)

\* The recursion that Power is.
Doubles(f) == f = [b \in 0 .. 2 * Half |-> IF b = 0 THEN 1 ELSE 2 * f[b - 1]]

LEMMA PowerFacts ==
  /\ Power \in [0 .. 2 * Half -> Nat \ {0}] /\ Power[0] = 1
  /\ \A b \in 1 .. 2 * Half : Power[b] = 2 * Power[b - 1]
<1> DEFINE n    == 2 * Half
           T    == Nat \ {0}
           step == [q \in T \X (1 .. n) |-> 2 * q[1]]
<1>h. n \in Nat /\ Half \in Nat \ {0}
  BY DiffAssumption
<1>1. step \in Steps(T, n)
  <2>1. \A q \in T \X (1 .. n) : 2 * q[1] \in T
    OBVIOUS
  <2> QED
    BY <2>1 DEF Steps
<1>2. PICK f : Goes(f, T, n, 1, step)
  <2>1. 1 \in T
    OBVIOUS
  <2> HIDE DEF step, T, n
  <2> QED
    BY <1>h, <1>1, <2>1, Recursion
<1>3. f \in [0 .. n -> T] /\ f[0] = 1
  BY <1>2 DEF Goes
<1>4. \A b \in 1 .. n : f[b] = 2 * f[b - 1]
  <2> SUFFICES ASSUME NEW b \in 1 .. n
               PROVE  f[b] = 2 * f[b - 1]
    OBVIOUS
  <2>1. b - 1 \in 0 .. n
    BY <1>h
  <2>2. f[b - 1] \in T
    BY <1>3, <2>1
  <2>3. step[<<f[b - 1], b>>] = 2 * f[b - 1]
    BY <2>2
  <2> QED
    BY <1>2, <2>3 DEF Goes
<1>5. Doubles(f)
  <2>1. \A b \in 0 .. n : b # 0 => b \in 1 .. n
    OBVIOUS
  <2> HIDE DEF step
  <2> QED
    BY <1>3, <1>4, <2>1 DEF Doubles
<1>6. Power = CHOOSE g : Doubles(g)
  BY DEF Power, Doubles
<1>7. Doubles(Power)
  <2> HIDE DEF step
  <2> QED
    BY <1>5, <1>6
<1>8. DOMAIN Power = 0 .. n /\ Power[0] = 1 /\ \A b \in 1 .. n : Power[b] = 2 * Power[b - 1]
  BY <1>h, <1>7 DEF Doubles
<1>9. \A b \in 0 .. n : Power[b] \in T
  <2> DEFINE P == {b \in 0 .. n : Power[b] \in T}
  <2>1. 0 \in P /\ \A b \in 1 .. n : b - 1 \in P => b \in P
    BY <1>h, <1>8
  <2>2. \A b \in 0 .. n : b \in P
    <3> HIDE DEF P, n
    <3> QED
      BY <1>h, <2>1, UpTo
  <2> QED
    BY <2>2
<1>10. Power = [b \in 0 .. n |-> Power[b]]
  BY <1>7 DEF Doubles
<1> HIDE DEF T
<1>11. Power \in [0 .. n -> T]
  BY <1>9, <1>10
<1> QED
  BY <1>8, <1>11 DEF T

\* The words of two halves.
LEMMA WidthFacts ==
  /\ Half \in Nat \ {0} /\ Block \in Nat \ {0} /\ Power[2 * Half] = Block * Block
  /\ \A b \in 0 .. Half : Power[Half + b] = Power[b] * Block
  /\ MaxWord \in Nat /\ MaxWord + 1 = Block * Block /\ Block <= MaxWord + 1
  /\ \E k \in Nat \ {0} : Block = 2 * k
  /\ \E k \in Nat \ {0} : MaxWord = 2 * k - 1
<1>1. Half \in Nat \ {0}
  BY DiffAssumption
<1>2. Block \in Nat \ {0} /\ Power[0] = 1 /\ \A b \in 0 .. 2 * Half : Power[b] \in Nat \ {0}
  <2>1. Half \in 0 .. 2 * Half
    BY <1>1
  <2> QED
    BY <2>1, PowerFacts DEF Block
<1>3. \A b \in 0 .. Half : Power[Half + b] = Power[b] * Block
  <2> DEFINE P == {b \in 0 .. Half : Power[Half + b] = Power[b] * Block}
  <2>1. 0 \in P
    BY <1>1, <1>2 DEF Block
  <2>2. ASSUME NEW b \in 1 .. Half, b - 1 \in P
        PROVE  b \in P
    <3>1. Power[Half + (b - 1)] = Power[b - 1] * Block
      BY <2>2
    <3>2. Half + b \in 1 .. 2 * Half /\ b \in 1 .. 2 * Half /\ (Half + b) - 1 = Half + (b - 1)
          /\ b - 1 \in 0 .. 2 * Half
      BY <1>1
    <3>3. Power[Half + b] = 2 * Power[Half + (b - 1)] /\ Power[b] = 2 * Power[b - 1]
      BY <3>2, PowerFacts
    <3>4. PICK x \in Nat : x = Power[b - 1]
      BY <1>2, <3>2
    <3>5. 2 * (x * Block) = (2 * x) * Block
      BY <1>2
    <3> QED
      BY <1>2, <3>1, <3>3, <3>4, <3>5
  <2>3. \A b \in 0 .. Half : b \in P
    <3> HIDE DEF P
    <3>1. \A b \in 1 .. Half : b - 1 \in P => b \in P
      BY <2>2
    <3> QED
      BY <1>1, <2>1, <3>1, UpTo
  <2> QED
    BY <2>3
<1>4. Power[2 * Half] = Block * Block
  <2>1. Half \in 0 .. Half /\ Half + Half = 2 * Half
    BY <1>1
  <2> QED
    BY <1>3, <2>1 DEF Block
<1>5. PICK k \in Nat \ {0} : Block = 2 * k
  <2>1. Half \in 1 .. 2 * Half /\ Half - 1 \in 0 .. 2 * Half
    BY <1>1
  <2> QED
    BY <1>2, <2>1, PowerFacts DEF Block
<1>6. Block * Block = 2 * (k * Block) /\ k * Block \in Nat \ {0} /\ Block <= Block * Block
  <2>1. PICK m \in Nat : Block = m + 1 /\ Block * Block = m * Block + Block /\ m * Block >= 0
    <3>1. Block - 1 \in Nat /\ Block = (Block - 1) + 1
      BY <1>2
    <3>2. \A m \in Nat : (m + 1) * Block = m * Block + Block /\ m * Block >= 0
      BY <1>2
    <3> QED
      BY <3>1, <3>2
  <2>2. (2 * k) * Block = 2 * (k * Block)
    BY <1>2
  <2>3. PICK j \in Nat : k = j + 1
    <3>1. k - 1 \in Nat /\ k = (k - 1) + 1
      OBVIOUS
    <3> QED
      BY <3>1
  <2>4. k * Block = j * Block + Block /\ j * Block \in Nat
    BY <1>2, <2>3
  <2> QED
    BY <1>2, <1>5, <2>1, <2>2, <2>4
<1>7. PICK w \in Nat \ {0} : Block * Block = 2 * w
  BY <1>6
<1>8. MaxWord = 2 * w - 1 /\ MaxWord \in Nat /\ MaxWord + 1 = Block * Block
  BY <1>7 DEF MaxWord
<1> QED
  BY <1>1, <1>2, <1>3, <1>4, <1>5, <1>6, <1>8

\* The remainder by the next power has one bit more.
LEMMA BitStep ==
  ASSUME NEW v \in Nat, NEW b \in 1 .. 2 * Half
  PROVE  /\ BitOf(v, b - 1) \in {0, 1} /\ Power[b - 1] \in Nat \ {0}
         /\ v % Power[b] = (v % Power[b - 1]) + Power[b - 1] * BitOf(v, b - 1)
         /\ v % Power[b - 1] \in Nat /\ v % Power[b] \in Nat
<1>1. b - 1 \in 0 .. 2 * Half /\ b \in 0 .. 2 * Half /\ 2 * Half \in Nat
  BY DiffAssumption
<1>2. PICK d \in Nat \ {0} : d = Power[b - 1] /\ Power[b] = 2 * d
  BY <1>1, PowerFacts
<1>3. (v \div d) % 2 \in {0, 1} /\ v % (2 * d) = (v % d) + d * ((v \div d) % 2)
  BY BitMore
<1>4. v % d \in Nat /\ v % (2 * d) \in Nat
  <2>1. 2 * d \in Nat \ {0}
    OBVIOUS
  <2> QED
    BY <2>1, DivMod
<1> QED
  BY <1>2, <1>3, <1>4 DEF BitOf

\* What bit b - 1 adds to the upper end of a register's span, and the recursion
\* that adds them up.
Top(s, b) ==
  IF BitOf(s.value, b - 1) = 1 \/ BitOf(s.mask, b - 1) = 1 THEN Power[b - 1] ELSE 0
Adds(f, s) == f = [b \in 0 .. 2 * Half |-> IF b = 0 THEN 0 ELSE f[b - 1] + Top(s, b)]

LEMMA SpanEnds ==
  ASSUME NEW s
  PROVE  \E end \in [0 .. 2 * Half -> Nat] :
           /\ end[0] = 0 /\ \A b \in 1 .. 2 * Half : end[b] = end[b - 1] + Top(s, b)
           /\ SpanEnd(s) = end[2 * Half]
<1> DEFINE n    == 2 * Half
           step == [q \in Nat \X (1 .. n) |-> q[1] + Top(s, q[2])]
<1>h. n \in Nat
  BY DiffAssumption
<1>t. \A b \in 1 .. n : Top(s, b) \in Nat
  <2> SUFFICES ASSUME NEW b \in 1 .. n
               PROVE  Top(s, b) \in Nat
    OBVIOUS
  <2>1. b - 1 \in 0 .. 2 * Half
    BY <1>h
  <2>2. Power[b - 1] \in Nat
    BY <2>1, PowerFacts
  <2> QED
    BY <2>2 DEF Top
<1>1. step \in Steps(Nat, n)
  <2>1. \A q \in Nat \X (1 .. n) : q[1] + Top(s, q[2]) \in Nat
    BY <1>t
  <2> QED
    BY <2>1 DEF Steps
<1>2. PICK f : Goes(f, Nat, n, 0, step)
  <2> HIDE DEF step, n
  <2> QED
    BY <1>h, <1>1, Recursion
<1>3. f \in [0 .. n -> Nat] /\ f[0] = 0
  BY <1>2 DEF Goes
<1>4. \A b \in 1 .. n : f[b] = f[b - 1] + Top(s, b)
  <2> SUFFICES ASSUME NEW b \in 1 .. n
               PROVE  f[b] = f[b - 1] + Top(s, b)
    OBVIOUS
  <2>1. b - 1 \in 0 .. n
    BY <1>h
  <2>2. f[b - 1] \in Nat
    BY <1>3, <2>1
  <2>3. step[<<f[b - 1], b>>] = f[b - 1] + Top(s, b)
    BY <2>2
  <2> QED
    BY <1>2, <2>3 DEF Goes
<1>5. Adds(f, s)
  <2>1. \A b \in 0 .. n : b # 0 => b \in 1 .. n
    OBVIOUS
  <2> HIDE DEF step
  <2> QED
    BY <1>3, <1>4, <2>1 DEF Adds
<1> DEFINE end == CHOOSE g : Adds(g, s)
<1>6. SpanEnd(s) = end[n]
  BY DEF SpanEnd, Adds, Top
<1>7. Adds(end, s)
  <2> HIDE DEF step
  <2> QED
    BY <1>5
<1> HIDE DEF end, step
<1>8. DOMAIN end = 0 .. n /\ end[0] = 0 /\ \A b \in 1 .. n : end[b] = end[b - 1] + Top(s, b)
  BY <1>h, <1>7 DEF Adds
<1>9. \A b \in 0 .. n : end[b] \in Nat
  <2> DEFINE P == {b \in 0 .. n : end[b] \in Nat}
  <2>1. 0 \in P /\ \A b \in 1 .. n : b - 1 \in P => b \in P
    BY <1>h, <1>t, <1>8
  <2>2. \A b \in 0 .. n : b \in P
    <3> HIDE DEF P, n
    <3> QED
      BY <1>h, <2>1, UpTo
  <2> QED
    BY <2>2
<1>10. end = [b \in 0 .. n |-> end[b]]
  BY <1>7 DEF Adds
<1>11. end \in [0 .. n -> Nat]
  BY <1>9, <1>10
<1> QED
  BY <1>6, <1>8, <1>11

\* The bits of v are ones that the tnum of s allows.
Allows(s, v) ==
  \A b \in Places : /\ BitOf(s.mask, b) = 0 => BitOf(v, b) = BitOf(s.value, b)
                    /\ BitOf(s.mask, b) = 1 => BitOf(s.value, b) = 0

\* A word that a tnum allows is in its span, and so is its lower half in the
\* lower half of the span.
LEMMA SpanHolds ==
  ASSUME NEW s \in RegType, NEW v \in Words, Allows(s, v)
  PROVE  /\ s.value <= v /\ v <= SpanEnd(s) /\ SpanEnd(s) \in Nat
         /\ LowHalf(s.value) <= LowHalf(v) /\ LowHalf(v) <= LowHalf(SpanEnd(s))
<1>t. s.value \in Words /\ s.mask \in Words
  BY DEF RegType
<1>w. s.value \in Nat /\ s.mask \in Nat /\ v \in Nat /\ v < Block * Block /\ s.value < Block * Block
  BY <1>t, WidthFacts DEF Words
<1> DEFINE n == 2 * Half
<1>h. n \in Nat /\ Half \in Nat /\ Half \in 0 .. n
  BY DiffAssumption
<1>1. PICK end \in [0 .. n -> Nat] :
        /\ end[0] = 0 /\ \A b \in 1 .. n : end[b] = end[b - 1] + Top(s, b)
        /\ SpanEnd(s) = end[n]
  BY SpanEnds
<1> DEFINE In(b) == s.value % Power[b] <= v % Power[b] /\ v % Power[b] <= end[b]
                    /\ end[b] < Power[b]
<1>2. \A b \in 0 .. n : In(b)
  <2> DEFINE P == {b \in 0 .. n : In(b)}
  <2>1. 0 \in P
    <3>1. \A x \in Nat : x % 1 = 0
      OBVIOUS
    <3> QED
      BY <1>h, <1>w, <1>1, <3>1, PowerFacts
  <2>2. ASSUME NEW b \in 1 .. n, b - 1 \in P
        PROVE  b \in P
    <3>1. b - 1 \in 0 .. n /\ b \in 0 .. n /\ b - 1 \in Places
      BY <1>h DEF Places
    <3>2. PICK d \in Nat \ {0} : d = Power[b - 1] /\ Power[b] = 2 * d
      BY <3>1, PowerFacts
    <3>3. /\ BitOf(s.value, b - 1) \in {0, 1} /\ BitOf(s.mask, b - 1) \in {0, 1}
          /\ BitOf(v, b - 1) \in {0, 1}
          /\ s.value % Power[b] = (s.value % d) + d * BitOf(s.value, b - 1)
          /\ v % Power[b] = (v % d) + d * BitOf(v, b - 1)
          /\ s.value % d \in Nat /\ v % d \in Nat
      BY <1>w, <3>2, BitStep
    <3>4. end[b - 1] \in Nat /\ end[b] = end[b - 1] + Top(s, b)
      BY <1>1, <3>1
    <3>5. s.value % d <= v % d /\ v % d <= end[b - 1] /\ end[b - 1] < d
      BY <2>2, <3>2
    <3>6. /\ BitOf(s.mask, b - 1) = 0 => BitOf(v, b - 1) = BitOf(s.value, b - 1)
          /\ BitOf(s.mask, b - 1) = 1 => BitOf(s.value, b - 1) = 0
      BY <3>1 DEF Allows
    <3>7. Top(s, b) = IF BitOf(s.value, b - 1) = 1 \/ BitOf(s.mask, b - 1) = 1 THEN d ELSE 0
      BY <3>2 DEF Top
    <3>8. PICK x \in {0, 1}, y \in {0, 1}, m \in {0, 1} :
            x = BitOf(s.value, b - 1) /\ y = BitOf(v, b - 1) /\ m = BitOf(s.mask, b - 1)
      BY <3>3
    <3>9. s.value % Power[b] <= v % Power[b]
      BY <3>3, <3>5, <3>6, <3>8
    <3>10. v % Power[b] <= end[b] /\ end[b] < Power[b]
      <4>1. PICK c \in Nat, e \in Nat, t \in {0, d} :
              /\ c = v % d /\ e = end[b - 1] /\ t = Top(s, b)
              /\ end[b] = e + t /\ v % Power[b] = c + d * y /\ c <= e /\ e < d
        BY <3>3, <3>4, <3>5, <3>7, <3>8
      <4>2. y = 1 => t = d
        BY <3>6, <3>7, <3>8, <4>1
      <4>3. c + d * y <= e + t
        <5>1. CASE y = 0
          BY <4>1, <5>1
        <5>2. CASE y = 1
          BY <4>1, <4>2, <5>2
        <5> QED
          BY <3>8, <5>1, <5>2
      <4> QED
        BY <3>2, <4>1, <4>3
    <3> QED
      BY <3>1, <3>9, <3>10
  <2>3. \A b \in 0 .. n : b \in P
    <3> HIDE DEF P, n
    <3>1. \A b \in 1 .. n : b - 1 \in P => b \in P
      BY <2>2
    <3> QED
      BY <1>h, <2>1, <3>1, UpTo
  <2> QED
    BY <2>3
<1>3. s.value % Power[n] = s.value /\ v % Power[n] = v
  <2>1. \A x \in Nat : x < Block * Block => x % (Block * Block) = x
    <3>1. Block * Block \in Nat \ {0}
      BY WidthFacts
    <3> QED
      BY <3>1, SmallMod
  <2> QED
    BY <1>w, <2>1, WidthFacts
<1>4. SpanEnd(s) % Block = end[Half]
  <2> DEFINE P == {b \in 0 .. Half : end[Half + b] % Block = end[Half]}
  <2>1. 0 \in P
    <3>1. end[Half] \in Nat /\ end[Half] < Block
      BY <1>h, <1>1, <1>2 DEF Block
    <3>2. \A x \in Nat : x < Block => x % Block = x
      BY WidthFacts, SmallMod
    <3> QED
      BY <1>h, <3>1, <3>2
  <2>2. ASSUME NEW b \in 1 .. Half, b - 1 \in P
        PROVE  b \in P
    <3>1. /\ Half + b \in 1 .. n /\ (Half + b) - 1 = Half + (b - 1) /\ Half + (b - 1) \in 0 .. n
          /\ b - 1 \in 0 .. Half /\ b - 1 \in 0 .. n
      BY <1>h
    <3>2. end[Half + (b - 1)] % Block = end[Half]
      BY <2>2
    <3>3. end[Half + b] = end[Half + (b - 1)] + Top(s, Half + b)
      BY <1>1, <3>1
    <3>4. PICK k \in Nat : Top(s, Half + b) = Block * k
      <4>1. Power[Half + (b - 1)] = Power[b - 1] * Block /\ Power[b - 1] \in Nat
        BY <3>1, WidthFacts, PowerFacts
      <4>2. \A x \in Nat : x * Block = Block * x /\ Block * 0 = 0
        BY WidthFacts
      <4> QED
        BY <3>1, <4>1, <4>2 DEF Top
    <3>5. PICK x \in Nat : x = end[Half + (b - 1)]
      BY <1>1, <3>1
    <3>6. (x + Block * k) % Block = x % Block
      BY WidthFacts, ModPlus
    <3> QED
      BY <3>2, <3>3, <3>4, <3>5, <3>6
  <2>3. \A b \in 0 .. Half : b \in P
    <3> HIDE DEF P
    <3>1. \A b \in 1 .. Half : b - 1 \in P => b \in P
      BY <2>2
    <3> QED
      BY <1>h, <2>1, <3>1, UpTo
  <2>4. end[Half + Half] % Block = end[Half] /\ Half + Half = n
    <3>1. Half \in 0 .. Half /\ Half + Half = n
      BY <1>h
    <3> QED
      BY <2>3, <3>1
  <2> QED
    BY <1>1, <2>4
<1>5. s.value <= v /\ v <= end[n] /\ end[n] \in Nat
  BY <1>h, <1>1, <1>2, <1>3
<1>6. LowHalf(s.value) <= LowHalf(v) /\ LowHalf(v) <= end[Half]
  BY <1>h, <1>2 DEF LowHalf, Block
<1> QED
  BY <1>1, <1>4, <1>5, <1>6 DEF LowHalf

-----------------------------------------------------------------------------
(* No finding of a register that a word fits.                              *)

\* What a word that a register's state describes is known for.
LEMMA DescribedFacts ==
  ASSUME NEW s \in RegType, NEW v \in Described(s)
  PROVE  /\ v \in Words /\ Allows(s, v) /\ s.umin <= v /\ v <= s.umax
         /\ Ranges(s).signed.lo <= AsSigned(v) /\ AsSigned(v) <= Ranges(s).signed.hi
         /\ Ranges(s).u32.lo <= LowHalf(v) /\ LowHalf(v) <= Ranges(s).u32.hi
         /\ Ranges(s).s32.lo <= Signed(LowHalf(v), Block)
         /\ Signed(LowHalf(v), Block) <= Ranges(s).s32.hi
<1>1. /\ v \in Words /\ Within(Ranges(s).unsigned, v)
      /\ Within(Ranges(s).signed, AsSigned(v)) /\ Within(Ranges(s).u32, LowHalf(v))
      /\ Within(Ranges(s).s32, Signed(LowHalf(v), Block))
  BY DEF Described
<1>2. Allows(s, v)
  BY DEF Described, Allows
<1>3. Ranges(s).unsigned.lo = s.umin /\ Ranges(s).unsigned.hi = s.umax
  BY DEF Ranges
<1> QED
  BY <1>1, <1>2, <1>3 DEF Within

\* The numbers of a register's state.
LEMMA RegTypeFacts ==
  ASSUME NEW s \in RegType
  PROVE  /\ s.value \in Words /\ s.mask \in Words /\ s.umin \in Words /\ s.umax \in Words
         /\ s.smin \in MinSigned .. MaxSigned /\ s.smax \in MinSigned .. MaxSigned
         /\ Ranges(s).unsigned.lo = s.umin /\ Ranges(s).unsigned.hi = s.umax
         /\ Ranges(s).signed.lo = s.smin /\ Ranges(s).signed.hi = s.smax
         /\ Ranges(s).u32.lo = Resolved(s.u32min, 0) /\ Ranges(s).u32.hi = Resolved(s.u32max, Block - 1)
         /\ Ranges(s).u32.lo \in Int /\ Ranges(s).u32.hi \in Int
         /\ Ranges(s).s32.lo \in Int /\ Ranges(s).s32.hi \in Int
         /\ Words \subseteq Nat /\ SubWords \subseteq Nat /\ \A v \in Words : LowHalf(v) \in SubWords
<1>1. Block \in Nat \ {0} /\ MaxWord \in Nat /\ Block \div 2 \in Int
  BY WidthFacts
<1>2. \A v \in Words : v % Block \in 0 .. Block - 1
  BY <1>1, DivMod DEF Words
<1>3. /\ s.value \in Words /\ s.mask \in Words /\ s.umin \in Words /\ s.umax \in Words
      /\ s.smin \in MinSigned .. MaxSigned /\ s.smax \in MinSigned .. MaxSigned
      /\ s.u32min \in SubWords \cup {None} /\ s.u32max \in SubWords \cup {None}
      /\ s.s32min \in (-(Block \div 2) .. Block \div 2 - 1) \cup {None}
      /\ s.s32max \in (-(Block \div 2) .. Block \div 2 - 1) \cup {None}
  BY DEF RegType
<1>4. /\ Ranges(s).u32.lo = Resolved(s.u32min, 0)
      /\ Ranges(s).u32.hi = Resolved(s.u32max, Block - 1)
      /\ Ranges(s).s32.lo = Resolved(s.s32min, -(Block \div 2))
      /\ Ranges(s).s32.hi = Resolved(s.s32max, Block \div 2 - 1)
      /\ Ranges(s).unsigned.lo = s.umin /\ Ranges(s).unsigned.hi = s.umax
      /\ Ranges(s).signed.lo = s.smin /\ Ranges(s).signed.hi = s.smax
  BY DEF Ranges
<1>5. Resolved(s.u32min, 0) \in Int /\ Resolved(s.u32max, Block - 1) \in Int
  BY <1>1, <1>3 DEF Resolved, SubWords
<1>6. Resolved(s.s32min, -(Block \div 2)) \in Int /\ Resolved(s.s32max, Block \div 2 - 1) \in Int
  BY <1>1, <1>3 DEF Resolved
<1> QED
  BY <1>1, <1>2, <1>3, <1>4, <1>5, <1>6 DEF Words, SubWords, LowHalf

\* The numbers of a word.
LEMMA WordNumbers ==
  ASSUME NEW v \in Words
  PROVE  /\ v \in Nat /\ LowHalf(v) \in SubWords /\ LowHalf(v) \in Nat
         /\ AsSigned(v) \in Int /\ Signed(LowHalf(v), Block) \in Int
<1>1. Block \in Nat \ {0} /\ MaxWord \in Nat
  BY WidthFacts
<1>2. v \in Nat /\ v % Block \in 0 .. Block - 1
  BY <1>1, DivMod DEF Words
<1>3. \A x, w \in Nat : Signed(x, w) \in Int
  BY DEF Signed
<1>4. LowHalf(v) \in Nat /\ LowHalf(v) \in SubWords
  BY <1>1, <1>2 DEF LowHalf, SubWords
<1> QED
  BY <1>1, <1>2, <1>3, <1>4 DEF AsSigned

\* What a finding of a register says.
LEMMA RegisterShape ==
  ASSUME NEW s, NEW i, NEW f \in RegisterFound(s, i)
  PROVE  \/ /\ f = Finding("tnum_malformed", <<i>>)
            /\ \E b \in Places : BitOf(s.value, b) = 1 /\ BitOf(s.mask, b) = 1
         \/ \E name \in {"unsigned", "signed"} :
              f = Finding("bounds_inverted", <<i, name>>) /\ Ranges(s)[name].lo > Ranges(s)[name].hi
         \/ /\ f = Finding("const_tnum_range_mismatch", <<i, "signed">>)
            /\ ConstCheckable(s) /\ s.smin # MinSigned /\ s.smax # MaxSigned
            /\ ~Pinned(s.smin, s.smax, AsSigned(s.value))
         \/ /\ f = Finding("const_tnum_range_mismatch", <<i, "unsigned">>)
            /\ ConstCheckable(s) /\ ~Pinned(s.umin, s.umax, s.value)
         \/ /\ f = Finding("tnum_bounds_inconsistent", <<i>>)
            /\ SpanEnd(s) < s.umin \/ s.value > s.umax
         \/ \E name \in {"u32", "s32"} :
              f = Finding("bounds32_inverted", <<i, name>>) /\ Ranges(s)[name].lo > Ranges(s)[name].hi
         \/ /\ f = Finding("tnum32_bounds_inconsistent", <<i>>)
            /\ Disjoint(LowHalf(s.value), LowHalf(SpanEnd(s)), Ranges(s).u32)
         \/ /\ f = Finding("reg32_reg64_inconsistent", <<i>>)
            /\ s.umin \div Block = s.umax \div Block
            /\ Disjoint(LowHalf(s.umin), LowHalf(s.umax), Ranges(s).u32)
<1>1. CASE f \in LogicalFound(s, i)
  BY <1>1 DEF LogicalFound, When
<1>2. CASE f \in SubregisterFound(s, i)
  BY <1>2 DEF SubregisterFound, When
<1> QED
  BY <1>1, <1>2 DEF RegisterFound

\* The findings that contradict every word.
Contradictions == {"tnum_malformed", "bounds_inverted", "bounds32_inverted",
                   "tnum_bounds_inconsistent", "tnum32_bounds_inconsistent",
                   "reg32_reg64_inconsistent"}

\* A finding of a register is of a register no word fits, unless it is of a
\* constant.
LEMMA RegisterIsWrong ==
  ASSUME NEW s \in RegType, NEW i, NEW f \in RegisterFound(s, i),
         f.kind # "const_tnum_range_mismatch"
  PROVE  f.kind \in Contradictions /\ f.at[1] = i /\ Described(s) = {}
<1> SUFFICES ASSUME NEW v \in Words
             PROVE  f.kind \in Contradictions /\ f.at[1] = i /\ v \notin Described(s)
  <2>1. 0 \in Words /\ Described(s) \subseteq Words
    BY WidthFacts DEF Words, Described
  <2> QED
    BY <2>1
<1>n. /\ v \in Nat /\ LowHalf(v) \in Nat /\ AsSigned(v) \in Int
      /\ Signed(LowHalf(v), Block) \in Int
  BY WordNumbers
<1>r. /\ s.umin \in Nat /\ s.umax \in Nat /\ s.value \in Nat
      /\ s.smin \in Int /\ s.smax \in Int
      /\ Ranges(s).unsigned.lo = s.umin /\ Ranges(s).unsigned.hi = s.umax
      /\ Ranges(s).signed.lo = s.smin /\ Ranges(s).signed.hi = s.smax
      /\ Ranges(s).u32.lo \in Int /\ Ranges(s).u32.hi \in Int
      /\ Ranges(s).s32.lo \in Int /\ Ranges(s).s32.hi \in Int
  BY RegTypeFacts
<1>d. v \in Described(s) =>
        /\ s.umin <= v /\ v <= s.umax
        /\ s.smin <= AsSigned(v) /\ AsSigned(v) <= s.smax
        /\ Ranges(s).u32.lo <= LowHalf(v) /\ LowHalf(v) <= Ranges(s).u32.hi
        /\ Ranges(s).s32.lo <= Signed(LowHalf(v), Block)
        /\ Signed(LowHalf(v), Block) <= Ranges(s).s32.hi
  BY <1>r, DescribedFacts
<1>s. v \in Described(s) =>
        /\ s.value <= v /\ v <= SpanEnd(s) /\ SpanEnd(s) \in Nat
        /\ LowHalf(s.value) <= LowHalf(v) /\ LowHalf(v) <= LowHalf(SpanEnd(s))
  BY DescribedFacts, SpanHolds
<1>l. Block \in Nat \ {0} /\ \A x \in Nat : LowHalf(x) \in Nat
  BY WidthFacts, DivMod DEF LowHalf
<1>f. \A kind, at : Finding(kind, at).kind = kind /\ Finding(kind, at).at = at
  BY DEF Finding
<1>1. CASE /\ f = Finding("tnum_malformed", <<i>>)
           /\ \E b \in Places : BitOf(s.value, b) = 1 /\ BitOf(s.mask, b) = 1
  <2>1. v \notin Described(s)
    BY <1>1, DescribedFacts DEF Allows
  <2> QED
    BY <1>1, <1>f, <2>1 DEF Contradictions
<1>2. ASSUME NEW name \in {"unsigned", "signed"}, f = Finding("bounds_inverted", <<i, name>>),
             Ranges(s)[name].lo > Ranges(s)[name].hi
      PROVE  f.kind \in Contradictions /\ f.at[1] = i /\ v \notin Described(s)
  <2>1. v \notin Described(s)
    <3>1. CASE name = "unsigned"
      BY <1>2, <1>d, <1>r, <1>n, <3>1
    <3>2. CASE name = "signed"
      BY <1>2, <1>d, <1>r, <1>n, <3>2
    <3> QED
      BY <3>1, <3>2
  <2> QED
    BY <1>2, <1>f, <2>1 DEF Contradictions
<1>3. CASE /\ f = Finding("tnum_bounds_inconsistent", <<i>>)
           /\ SpanEnd(s) < s.umin \/ s.value > s.umax
  <2>1. v \notin Described(s)
    BY <1>3, <1>d, <1>r, <1>n, <1>s
  <2> QED
    BY <1>3, <1>f, <2>1 DEF Contradictions
<1>4. ASSUME NEW name \in {"u32", "s32"}, f = Finding("bounds32_inverted", <<i, name>>),
             Ranges(s)[name].lo > Ranges(s)[name].hi
      PROVE  f.kind \in Contradictions /\ f.at[1] = i /\ v \notin Described(s)
  <2>1. v \notin Described(s)
    <3>1. CASE name = "u32"
      BY <1>4, <1>d, <1>r, <1>n, <3>1
    <3>2. CASE name = "s32"
      BY <1>4, <1>d, <1>r, <1>n, <3>2
    <3> QED
      BY <3>1, <3>2
  <2> QED
    BY <1>4, <1>f, <2>1 DEF Contradictions
<1>5. CASE /\ f = Finding("tnum32_bounds_inconsistent", <<i>>)
           /\ Disjoint(LowHalf(s.value), LowHalf(SpanEnd(s)), Ranges(s).u32)
  <2>1. v \notin Described(s)
    BY <1>5, <1>d, <1>r, <1>n, <1>s, <1>l DEF Disjoint
  <2> QED
    BY <1>5, <1>f, <2>1 DEF Contradictions
<1>6. CASE /\ f = Finding("reg32_reg64_inconsistent", <<i>>)
           /\ s.umin \div Block = s.umax \div Block
           /\ Disjoint(LowHalf(s.umin), LowHalf(s.umax), Ranges(s).u32)
  <2>1. v \in Described(s) => LowHalf(s.umin) <= LowHalf(v) /\ LowHalf(v) <= LowHalf(s.umax)
    BY <1>6, <1>d, <1>r, <1>n, <1>l, ModOrder DEF LowHalf
  <2>2. v \notin Described(s)
    BY <1>6, <1>d, <1>r, <1>n, <1>l, <2>1 DEF Disjoint
  <2> QED
    BY <1>6, <1>f, <2>2 DEF Contradictions
<1> HIDE DEF Contradictions
<1> QED
  BY <1>1, <1>2, <1>3, <1>4, <1>5, <1>6, <1>f, RegisterShape

\* Each number of a word, signed or not, is of one word.
LEMMA SignedIsOnto ==
  ASSUME NEW x \in MinSigned .. MaxSigned
  PROVE  \E v \in Words : AsSigned(v) = x
<1>1. PICK k \in Nat \ {0} : MaxWord = 2 * k - 1
  BY WidthFacts
<1>2. MaxSigned = k - 1 /\ MinSigned = -k /\ (MaxWord + 1) \div 2 = k
  BY <1>1 DEF MaxSigned, MinSigned
<1>3. CASE x >= 0
  <2>1. x \in Words /\ AsSigned(x) = x
    BY <1>1, <1>2, <1>3 DEF Words, AsSigned, Signed
  <2> QED
    BY <2>1
<1>4. CASE x < 0
  <2>1. x + (MaxWord + 1) \in Words /\ AsSigned(x + (MaxWord + 1)) = x
    BY <1>1, <1>2, <1>4 DEF Words, AsSigned, Signed
  <2> QED
    BY <2>1
<1> QED
  BY <1>3, <1>4

\* A mismatch of a constant is no finding if its bounds leave the constant only.
LEMMA ConstantIsWrong ==
  ASSUME NEW s \in RegType,
         NEW side \in {"unsigned", "signed"},
         IF side = "signed" THEN ~Pinned(s.smin, s.smax, AsSigned(s.value))
                            ELSE ~Pinned(s.umin, s.umax, s.value)
  PROVE  {v \in Words : Within(Ranges(s)[side], IF side = "signed" THEN AsSigned(v) ELSE v)}
           # {s.value}
<1>r. /\ s.value \in Words /\ s.umin \in Words /\ s.umax \in Words /\ Words \subseteq Nat
      /\ s.smin \in MinSigned .. MaxSigned /\ s.smax \in MinSigned .. MaxSigned
      /\ Ranges(s).unsigned.lo = s.umin /\ Ranges(s).unsigned.hi = s.umax
      /\ Ranges(s).signed.lo = s.smin /\ Ranges(s).signed.hi = s.smax
  BY RegTypeFacts
<1>1. CASE side = "signed"
  <2> SUFFICES ASSUME \A v \in Words : s.smin <= AsSigned(v) /\ AsSigned(v) <= s.smax <=> v = s.value
               PROVE  FALSE
    BY <1>r, <1>1 DEF Within
  <2>1. AsSigned(s.value) \in Int /\ s.smin \in Int /\ s.smax \in Int
    <3>1. MinSigned \in Int /\ MaxSigned \in Int
      BY WidthFacts DEF MinSigned, MaxSigned
    <3> QED
      BY <1>r, <3>1, WordNumbers
  <2>2. s.smin <= AsSigned(s.value) /\ AsSigned(s.value) <= s.smax
    BY <1>r
  <2>3. PICK lo \in Words, hi \in Words : AsSigned(lo) = s.smin /\ AsSigned(hi) = s.smax
    BY <1>r, SignedIsOnto
  <2>4. lo = s.value /\ hi = s.value
    BY <2>1, <2>2, <2>3
  <2> QED
    BY <1>1, <2>3, <2>4 DEF Pinned
<1>2. CASE side = "unsigned"
  <2> SUFFICES ASSUME \A v \in Words : s.umin <= v /\ v <= s.umax <=> v = s.value
               PROVE  FALSE
    BY <1>r, <1>2 DEF Within
  <2>1. s.umin = s.value /\ s.umax = s.value
    <3>1. s.umin \in Nat /\ s.umax \in Nat /\ s.value \in Nat
      BY <1>r
    <3>2. s.umin <= s.value /\ s.value <= s.umax
      BY <1>r
    <3>3. s.umin <= s.umin /\ s.umin <= s.umax /\ s.umax <= s.umax
      BY <3>1, <3>2
    <3> QED
      BY <1>r, <3>3
  <2> QED
    BY <1>2, <2>1 DEF Pinned
<1> QED
  BY <1>1, <1>2

\* No finding of a register is a false alarm.
LEMMA RegisterIsNoAlarm ==
  ASSUME NEW rec, NEW i, rec.regs[i] \in RegType, NEW f \in RegisterFound(rec.regs[i], i)
  PROVE  ~FalseAlarm(rec, f)
<1> DEFINE s == rec.regs[i]
<1>1. CASE f.kind # "const_tnum_range_mismatch"
  <2>1. f.kind \in Contradictions /\ f.at[1] = i /\ Described(s) = {}
    BY <1>1, RegisterIsWrong
  <2> QED
    BY <2>1 DEF FalseAlarm, Contradictions
<1>2. CASE f.kind = "const_tnum_range_mismatch"
  <2>1. PICK side \in {"unsigned", "signed"} :
          /\ f = Finding("const_tnum_range_mismatch", <<i, side>>)
          /\ IF side = "signed" THEN ~Pinned(s.smin, s.smax, AsSigned(s.value))
                                ELSE ~Pinned(s.umin, s.umax, s.value)
          /\ side = "signed" => s.smin # MinSigned /\ s.smax # MaxSigned
    BY <1>2, RegisterShape DEF Finding
  <2>2. f.at[1] = i /\ f.at[2] = side
    BY <2>1 DEF Finding
  <2>3. {v \in Words : Within(Ranges(s)[side], IF side = "signed" THEN AsSigned(v) ELSE v)}
          # {s.value}
    BY <2>1, ConstantIsWrong
  <2> QED
    BY <1>2, <2>1, <2>2, <2>3 DEF FalseAlarm
<1> QED
  BY <1>1, <1>2

-----------------------------------------------------------------------------
(* No finding of a run that did what some printed state allows, nor of a   *)
(* register that is dead.                                                  *)

\* The largest of a set of words is one of them, and is largest.
LEMMA MaxOfWords ==
  ASSUME NEW I \in SUBSET Words, I # {}
  PROVE  Max(I) \in I /\ \A x \in I : x <= Max(I)
<1> DEFINE J == {MaxWord - x : x \in I}
<1>1. MaxWord \in Nat
  BY WidthFacts
<1>2. J \in SUBSET Nat /\ J # {}
  BY <1>1 DEF Words
<1>3. PICK m \in J : \A j \in J : m <= j
  <2> HIDE DEF J
  <2> QED
    BY <1>2, MinOfNats
<1>4. PICK x \in I : m = MaxWord - x
  OBVIOUS
<1>5. \A y \in I : y <= x
  <2> TAKE y \in I
  <2>1. MaxWord - y \in J
    OBVIOUS
  <2>2. MaxWord - x <= MaxWord - y
    BY <1>3, <1>4, <2>1
  <2> QED
    BY <1>1, <2>2 DEF Words
<1> QED
  BY <1>5 DEF Max, Words

\* The union of the ranges of r0 has every range in it.
LEMMA UnionHolds ==
  ASSUME NEW states \in SUBSET RegType, NEW s \in states
  PROVE  LET r == ReturnRanges(states)
         IN  /\ r.u64.lo <= s.umin /\ s.umax <= r.u64.hi /\ r.u64.lo \in Nat /\ r.u64.hi \in Nat
             /\ r.u32.lo \in Nat /\ r.u32.hi \in Nat
             /\ \A v \in SubWords : Ranges(s).u32.lo <= v /\ v <= Ranges(s).u32.hi =>
                  r.u32.lo <= v /\ v <= r.u32.hi
<1> DEFINE umins == {t.umin : t \in states}
           umaxs == {t.umax : t \in states}
           lows  == {t.u32min : t \in states}
           highs == {t.u32max : t \in states}
           all   == \E t \in states : t.u32min = None \/ t.u32max = None
           r     == ReturnRanges(states)
<1>1. /\ r.u64.lo = Min(umins) /\ r.u64.hi = Max(umaxs)
      /\ r.u32.lo = IF all THEN 0 ELSE Min(lows)
      /\ r.u32.hi = IF all THEN Block - 1 ELSE Max(highs)
  BY DEF ReturnRanges
<1>2. Block \in Nat \ {0} /\ Words \subseteq Nat /\ SubWords \subseteq Nat /\ SubWords \subseteq Words
  BY WidthFacts DEF Words, SubWords
<1>3. umins \in SUBSET Words /\ s.umin \in umins /\ umaxs \in SUBSET Words /\ s.umax \in umaxs
  BY DEF RegType
<1>4. Min(umins) \in umins /\ Min(umins) <= s.umin /\ Max(umaxs) \in umaxs /\ s.umax <= Max(umaxs)
  <2> HIDE DEF umins, umaxs
  <2>1. umins \in SUBSET Nat /\ umins # {} /\ umaxs # {}
    BY <1>2, <1>3
  <2> QED
    BY <1>3, <2>1, MinOfNats, MaxOfWords
<1>5. r.u64.lo <= s.umin /\ s.umax <= r.u64.hi /\ r.u64.lo \in Nat /\ r.u64.hi \in Nat
  BY <1>1, <1>2, <1>3, <1>4
<1>6. CASE all
  <2>1. r.u32.lo = 0 /\ r.u32.hi = Block - 1
    BY <1>1, <1>6
  <2> QED
    BY <1>2, <1>5, <2>1 DEF SubWords
<1>7. CASE ~all
  <2>1. /\ lows \in SUBSET SubWords /\ s.u32min \in lows
        /\ highs \in SUBSET SubWords /\ s.u32max \in highs
        /\ s.u32min \in SubWords /\ s.u32max \in SubWords
    BY <1>7 DEF RegType
  <2>2. Ranges(s).u32.lo = s.u32min /\ Ranges(s).u32.hi = s.u32max
    BY <1>7, RegTypeFacts DEF Resolved
  <2>3. Min(lows) \in lows /\ Min(lows) <= s.u32min /\ Max(highs) \in highs /\ s.u32max <= Max(highs)
    <3> HIDE DEF lows, highs
    <3>1. lows \in SUBSET Nat /\ lows # {} /\ highs # {} /\ highs \in SUBSET Words
      BY <1>2, <2>1
    <3> QED
      BY <2>1, <3>1, MinOfNats, MaxOfWords
  <2>4. PICK lo \in Nat, hi \in Nat, a \in Nat, b \in Nat :
          /\ lo = r.u32.lo /\ hi = r.u32.hi /\ a = s.u32min /\ b = s.u32max
          /\ lo <= a /\ b <= hi
    <3> HIDE DEF lows, highs, all, r
    <3> QED
      BY <1>1, <1>2, <1>7, <2>1, <2>3
  <2>5. \A v \in SubWords : Ranges(s).u32.lo <= v /\ v <= Ranges(s).u32.hi =>
          r.u32.lo <= v /\ v <= r.u32.hi
    <3> HIDE DEF r
    <3> QED
      BY <1>2, <2>2, <2>4
  <2> HIDE DEF r
  <2> QED
    BY <1>5, <2>4, <2>5 DEF r
<1> QED
  BY <1>6, <1>7

\* A value outside of that union no state describes.
LEMMA ReturnIsNoAlarm ==
  ASSUME NEW rec, IsRecord(rec), NEW j \in ReturnsFound(rec)
  PROVE  ~ \E s \in ReturnStates(rec) : \E v \in Described(s) : LowHalf(v) = rec.runs[j].retval
<1> SUFFICES ASSUME NEW s \in ReturnStates(rec), NEW v \in Described(s),
                    LowHalf(v) = rec.runs[j].retval
             PROVE  FALSE
  OBVIOUS
<1> DEFINE states == ReturnStates(rec)
           r == ReturnRanges(states)
<1>1. states \in SUBSET RegType
  <2>1. rec.regs \in Seq(RegType)
    BY DEF IsRecord
  <2>2. \A i \in DOMAIN rec.regs : rec.regs[i] \in RegType
    <3> HIDE DEF RegType
    <3> QED
      BY <2>1
  <2> QED
    BY <2>2 DEF ReturnStates
<1>2. \/ r.u64.hi < Block /\ LowHalf(v) \notin r.u64.lo .. r.u64.hi
      \/ LowHalf(v) \notin r.u32.lo .. r.u32.hi
  BY DEF ReturnsFound
<1>3. s \in RegType
  BY <1>1
<1>4. /\ s.umin \in Nat /\ s.umax \in Nat /\ v \in Nat /\ LowHalf(v) \in Nat /\ LowHalf(v) \in SubWords
      /\ s.umin <= v /\ v <= s.umax
      /\ Ranges(s).u32.lo <= LowHalf(v) /\ LowHalf(v) <= Ranges(s).u32.hi
  BY <1>3, RegTypeFacts, DescribedFacts, WordNumbers
<1> HIDE DEF states
<1>5. /\ r.u64.lo <= s.umin /\ s.umax <= r.u64.hi /\ r.u64.lo \in Nat /\ r.u64.hi \in Nat
      /\ r.u32.lo \in Nat /\ r.u32.hi \in Nat
      /\ r.u32.lo <= LowHalf(v) /\ LowHalf(v) <= r.u32.hi
  <2>1. s \in states
    BY DEF states
  <2> QED
    BY <1>1, <1>4, <2>1, UnionHolds
<1> HIDE DEF r
<1>6. r.u64.hi < Block => LowHalf(v) = v
  <2>1. r.u64.hi < Block => v < Block
    BY <1>4, <1>5, WidthFacts
  <2> QED
    BY <1>4, <2>1, WidthFacts, SmallMod DEF LowHalf
<1> QED
  BY <1>2, <1>4, <1>5, <1>6

\* A store outside of every claim no state of its base describes, where all of
\* them are claims and no offset varies below zero.
LEMMA StoreIsNoAlarm ==
  ASSUME NEW rec, IsRecord(rec), NEW j \in LocationsFound(rec), Forward(rec), Bounded(rec)
  PROVE  ~ \E s \in SiteStates(rec) : \E v \in Described(s) :
             rec.runs[j].off = Resolved(s.off, 0) + rec.site.off + AsSigned(v)
<1> DEFINE off == rec.runs[j].off
<1> SUFFICES ASSUME NEW s \in SiteStates(rec), NEW v \in Described(s),
                    off = Resolved(s.off, 0) + rec.site.off + AsSigned(v)
             PROVE  FALSE
  OBVIOUS
<1>1. s \in RegType
  <2>1. rec.regs \in Seq(RegType)
    BY DEF IsRecord
  <2>2. \A i \in DOMAIN rec.regs : rec.regs[i] \in RegType
    <3> HIDE DEF RegType
    <3> QED
      BY <2>1
  <2> QED
    BY <2>2 DEF SiteStates
<1>2. Resolved(s.off, 0) \in Int /\ rec.site.off \in Int
  <2>1. s.off \in Int \cup {None}
    BY <1>1 DEF RegType
  <2>2. rec.site \in [at : Nat, reg : Nat, off : Int]
    BY DEF SiteStates, IsRecord
  <2> QED
    BY <2>1, <2>2 DEF Resolved
<1>3. /\ v \in Nat /\ v \in Words /\ Allows(s, v) /\ s.umin <= v /\ v <= s.umax
      /\ s.umin \in Nat /\ s.umax \in Nat
  BY <1>1, RegTypeFacts, DescribedFacts, WordNumbers
<1>4. AsSigned(v) = v
  <2>1. PICK k \in Nat \ {0} : MaxWord = 2 * k - 1
    BY WidthFacts
  <2>2. MaxSigned = k - 1 /\ (MaxWord + 1) \div 2 = k
    BY <2>1 DEF MaxSigned
  <2>3. v <= MaxSigned
    BY DEF Forward
  <2> QED
    BY <1>3, <2>2, <2>3 DEF AsSigned, Signed
<1>5. s \in Claims(rec)
  <2>1. s.mask = 0 \/ s.umax # MaxWord
    BY DEF Bounded
  <2> QED
    BY <1>3, <2>1 DEF Claims
<1>6. off - Resolved(s.off, 0) - rec.site.off = v
  BY <1>2, <1>3, <1>4
<1>7. \A b \in Places : IF BitOf(s.mask, b) = 1 THEN BitOf(s.value, b) = 0
                        ELSE BitOf(v, b) = BitOf(s.value, b)
  <2> TAKE b \in Places
  <2>1. BitOf(s.mask, b) \in {0, 1}
    <3>1. s.mask \in Nat /\ b + 1 \in 1 .. 2 * Half /\ (b + 1) - 1 = b
      BY <1>1, RegTypeFacts, WidthFacts DEF Places
    <3> QED
      BY <3>1, BitStep
  <2> QED
    BY <1>3, <2>1 DEF Allows
<1>8. Admits(s, rec.site, off)
  BY <1>3, <1>6, <1>7 DEF Admits
<1> QED
  BY <1>5, <1>8 DEF LocationsFound

\* Nothing that diff finds in a record is a false alarm.
LEMMA NoFalseAlarm ==
  ASSUME NEW rec, IsRecord(rec), NEW f \in Found(rec)
  PROVE  ~FalseAlarm(rec, f)
<1>f. \A kind, at : Finding(kind, at).kind = kind /\ Finding(kind, at).at = at
  BY DEF Finding
<1>1. CASE f \in StatesFound(rec)
  <2>1. PICK i \in DOMAIN rec.regs : f \in RegisterFound(rec.regs[i], i)
    BY <1>1 DEF StatesFound
  <2>2. rec.regs \in Seq(RegType)
    BY DEF IsRecord
  <2>3. rec.regs[i] \in RegType
    <3> HIDE DEF RegType
    <3> QED
      BY <2>2
  <2> QED
    BY <2>1, <2>3, RegisterIsNoAlarm
<1>2. CASE f \in At("runtime_bound_violation", ReturnsFound(rec))
  <2>1. PICK j \in ReturnsFound(rec) : f = Finding("runtime_bound_violation", <<j>>)
    BY <1>2 DEF At
  <2>2. f.kind = "runtime_bound_violation" /\ f.at[1] = j
    BY <1>f, <2>1
  <2> QED
    BY <2>2, ReturnIsNoAlarm DEF FalseAlarm
<1>3. CASE f \in At("store_location_desync", LocationsFound(rec))
  <2>1. PICK j \in LocationsFound(rec) : f = Finding("store_location_desync", <<j>>)
    BY <1>3 DEF At
  <2>2. f.kind = "store_location_desync" /\ f.at[1] = j
    BY <1>f, <2>1
  <2> QED
    BY <2>2, StoreIsNoAlarm DEF FalseAlarm
<1>4. CASE f \in LivenessFound(rec)
  <2>1. PICK c \in GateFound(rec.gate) : f = Finding("liveness_gate_overreach", c)
    BY <1>4 DEF LivenessFound
  <2>2. c[2] \in rec.gate.claim[c[1]]
    BY <2>1 DEF GateFound, GateCells
  <2> QED
    BY <1>f, <2>1, <2>2 DEF FalseAlarm
<1>5. CASE \/ f \in At("runtime_intent_violation", IntentFound(rec))
           \/ f \in At("runtime_oob_write", WritesFound(rec))
           \/ f \in When(rec.jit = "differs", Finding("jit_interp_divergence", << >>))
           \/ f \in When(Contradicts(rec), Finding("documented_behavior_mismatch", << >>))
           \/ f \in PruningFound(rec) \/ f \in HelpersFound(rec)
  <2>1. f.kind \in {"runtime_intent_violation", "runtime_oob_write", "jit_interp_divergence",
                    "documented_behavior_mismatch", "reg_invariants_violation",
                    "prune_soundness_desync", "prune_verdict_disagreement",
                    "helper_proto", "helper_arg"}
    <3>1. \A kind, places : f \in At(kind, places) => f.kind = kind
      BY <1>f DEF At
    <3>2. f \in PruningFound(rec) =>
            f.kind \in {"reg_invariants_violation", "prune_soundness_desync",
                       "prune_verdict_disagreement"}
      BY <1>f DEF When, PruningFound, ProbeFound
    <3>3. f \in HelpersFound(rec) => f.kind \in {"helper_proto", "helper_arg"}
      BY <3>1 DEF HelpersFound
    <3>4. f \in When(rec.jit = "differs", Finding("jit_interp_divergence", << >>)) =>
            f.kind = "jit_interp_divergence"
      BY <1>f DEF When
    <3>5. f \in When(Contradicts(rec), Finding("documented_behavior_mismatch", << >>)) =>
            f.kind = "documented_behavior_mismatch"
      BY <1>f DEF When
    <3> QED
      BY <1>5, <3>1, <3>2, <3>3, <3>4, <3>5
  <2> QED
    BY <2>1 DEF FalseAlarm
<1> QED
  BY <1>1, <1>2, <1>3, <1>4, <1>5 DEF Found

\* A verifier without a bug is never reported, at any width of a word: neither
\* of a register that a word fits, nor of a constant whose bounds leave it alone,
\* nor of a run that did what a printed state allows, whichever path it took.
THEOREM FindingsAreNoFalseAlarms == Spec => []NoFalseFinding
<1>1. IInv => NoFalseFinding
  <2> SUFFICES ASSUME IInv, pc = "report", NEW i \in DOMAIN norm.recs,
                      NEW f \in Found(norm.recs[i])
               PROVE  ~FalseAlarm(norm.recs[i], f)
    BY DEF NoFalseFinding
  <2>1. norm \in Observation
    BY DEF IInv, Held
  <2>2. norm.recs[i] \in Range(norm.recs)
    BY DEF Range
  <2>3. IsRecord(norm.recs[i])
    BY <2>1, <2>2, PipelineAssumption
  <2>4. PICK rec, g : rec = norm.recs[i] /\ g = f
    OBVIOUS
  <2>5. ~FalseAlarm(rec, g)
    BY <2>3, <2>4, NoFalseAlarm
  <2> QED
    BY <2>4, <2>5
<1> QED
  BY <1>1, Invariant, PTL

-----------------------------------------------------------------------------
(* A comparison that is counted could have failed.                         *)

\* A word other than 0 has a bit.
LEMMA SomeBit ==
  ASSUME NEW v \in Words, v # 0
  PROVE  \E b \in Places : BitOf(v, b) = 1
<1> SUFFICES ASSUME \A b \in Places : BitOf(v, b) # 1
             PROVE  FALSE
  OBVIOUS
<1> DEFINE n == 2 * Half
           P == {b \in 0 .. n : v % Power[b] = 0}
<1>h. n \in Nat /\ v \in Nat /\ v < Block * Block /\ n \in 0 .. n
  BY DiffAssumption, WidthFacts DEF Words
<1>1. 0 \in P
  <2>1. \A x \in Nat : x % 1 = 0
    OBVIOUS
  <2> QED
    BY <1>h, <2>1, PowerFacts
<1>2. ASSUME NEW b \in 1 .. n, b - 1 \in P
      PROVE  b \in P
  <2>1. b - 1 \in Places /\ b \in 0 .. n
    BY <1>h DEF Places
  <2>2. BitOf(v, b - 1) = 0
    BY <1>h, <2>1, BitStep
  <2>3. v % Power[b] = (v % Power[b - 1]) + Power[b - 1] * BitOf(v, b - 1)
        /\ Power[b - 1] \in Nat
    BY <1>h, BitStep
  <2> QED
    BY <1>2, <2>1, <2>2, <2>3
<1>3. n \in P
  <2> HIDE DEF P
  <2>1. \A b \in 1 .. n : b - 1 \in P => b \in P
    BY <1>2
  <2> HIDE DEF n
  <2> QED
    BY <1>h, <1>1, <2>1, UpTo
<1>4. v % (Block * Block) = v
  <2>1. Block * Block \in Nat \ {0}
    BY WidthFacts
  <2> QED
    BY <1>h, <2>1, SmallMod
<1> QED
  BY <1>3, <1>4, WidthFacts

\* The span of a tnum of value 0 ends at its mask.
LEMMA SpanOfZero ==
  ASSUME NEW s, s.mask \in Words, s.value = 0
  PROVE  SpanEnd(s) = s.mask
<1> DEFINE n == 2 * Half
<1>h. n \in Nat /\ s.mask \in Nat /\ s.mask < Block * Block /\ n \in 0 .. n
  BY DiffAssumption, WidthFacts DEF Words
<1>1. PICK end \in [0 .. n -> Nat] :
        /\ end[0] = 0 /\ \A b \in 1 .. n : end[b] = end[b - 1] + Top(s, b)
        /\ SpanEnd(s) = end[n]
  BY SpanEnds
<1> DEFINE P == {b \in 0 .. n : end[b] = s.mask % Power[b]}
<1>2. 0 \in P
  <2>1. \A x \in Nat : x % 1 = 0
    OBVIOUS
  <2> QED
    BY <1>h, <1>1, <2>1, PowerFacts
<1>3. ASSUME NEW b \in 1 .. n, b - 1 \in P
      PROVE  b \in P
  <2>1. b - 1 \in 0 .. n /\ b \in 0 .. n
    BY <1>h
  <2>2. PICK d \in Nat \ {0} : d = Power[b - 1]
    BY <2>1, PowerFacts
  <2>3. PICK m \in {0, 1} : m = BitOf(s.mask, b - 1)
    BY <1>h, BitStep
  <2>9. /\ s.mask % Power[b] = (s.mask % Power[b - 1]) + Power[b - 1] * BitOf(s.mask, b - 1)
        /\ s.mask % Power[b - 1] \in Nat
    <3>1. PICK v \in Nat : v = s.mask
      BY <1>h
    <3>2. b \in 1 .. 2 * Half
      OBVIOUS
    <3>3. /\ v % Power[b] = (v % Power[b - 1]) + Power[b - 1] * BitOf(v, b - 1)
          /\ v % Power[b - 1] \in Nat
      BY <3>2, BitStep, ZenonT(30)
    <3> QED
      BY <3>1, <3>3
  <2>4. s.mask % Power[b] = (s.mask % d) + d * m /\ s.mask % d \in Nat
    BY <2>2, <2>3, <2>9
  <2>5. BitOf(s.value, b - 1) = 0
    <3>1. \A x \in Nat \ {0} : (0 \div x) % 2 = 0
      OBVIOUS
    <3> QED
      BY <2>2, <3>1 DEF BitOf
  <2>6. Top(s, b) = IF m = 1 THEN d ELSE 0
    BY <2>2, <2>3, <2>5 DEF Top
  <2>7. d * m = IF m = 1 THEN d ELSE 0
    BY <2>3
  <2>8. end[b] = end[b - 1] + Top(s, b) /\ end[b - 1] = s.mask % d
    BY <1>1, <1>3, <2>2
  <2> QED
    BY <2>1, <2>4, <2>6, <2>7, <2>8
<1>4. n \in P
  <2> HIDE DEF P
  <2>1. \A b \in 1 .. n : b - 1 \in P => b \in P
    BY <1>3
  <2> HIDE DEF n
  <2> QED
    BY <1>h, <1>2, <2>1, UpTo
<1>5. s.mask % (Block * Block) = s.mask
  <2>1. Block * Block \in Nat \ {0}
    BY WidthFacts
  <2> QED
    BY <1>h, <2>1, SmallMod
<1> QED
  BY <1>1, <1>4, <1>5, WidthFacts

\* The counters of INVARIANT_DENOMINATORS.
LEMMA Denominators ==
  /\ {Denominator[kind] : kind \in DOMAIN Denominator} =
       {"bounds_order_checked", "tnum_wellformed_checked", "tnum_bounds_checked", "reg32_checked"}
  /\ Denominator["bounds_inverted"] = "bounds_order_checked"
  /\ Denominator["bounds32_inverted"] = "bounds_order_checked"
  /\ Denominator["tnum_malformed"] = "tnum_wellformed_checked"
  /\ Denominator["tnum_bounds_inconsistent"] = "tnum_bounds_checked"
  /\ Denominator["const_tnum_range_mismatch"] = "tnum_bounds_checked"
  /\ Denominator["reg32_reg64_inconsistent"] = "reg32_checked"
<1> DEFINE kinds == {"bounds_inverted", "bounds32_inverted", "tnum_malformed",
                     "tnum_bounds_inconsistent", "const_tnum_range_mismatch",
                     "tnum32_bounds_inconsistent", "reg32_reg64_inconsistent"}
<1>1. DOMAIN Denominator = kinds
  BY DEF Denominator
<1>2. /\ Denominator["bounds_inverted"] = "bounds_order_checked"
      /\ Denominator["bounds32_inverted"] = "bounds_order_checked"
      /\ Denominator["tnum_malformed"] = "tnum_wellformed_checked"
      /\ Denominator["tnum_bounds_inconsistent"] = "tnum_bounds_checked"
      /\ Denominator["const_tnum_range_mismatch"] = "tnum_bounds_checked"
      /\ Denominator["tnum32_bounds_inconsistent"] = "reg32_checked"
      /\ Denominator["reg32_reg64_inconsistent"] = "reg32_checked"
  BY DEF Denominator
<1> QED
  BY <1>1, <1>2

\* The finding f is one that a comparison counted at a place could have been.
Fails(s, i, c) ==
  \E f \in RegisterFound(s, i) : Denominator[f.kind] = c.counter /\ (Len(c.at) = 2 => f.at = c.at)

\* An inverted range is found, under its own place.
LEMMA InvertedFails ==
  ASSUME NEW s, NEW i, NEW name, NEW c, c = Count("bounds_order_checked", <<i, name>>),
         Ranges(s)[name].lo > Ranges(s)[name].hi,
         name \in {"unsigned", "signed"} \/ (s.scalar /\ name \in {"u32", "s32"})
  PROVE  Fails(s, i, c)
<1>1. c.counter = "bounds_order_checked" /\ c.at = <<i, name>>
  BY DEF Count
<1>2. CASE name \in {"unsigned", "signed"}
  <2>1. Finding("bounds_inverted", <<i, name>>) \in RegisterFound(s, i)
    BY <1>2 DEF RegisterFound, LogicalFound
  <2> QED
    BY <1>1, <2>1, Denominators DEF Fails, Finding
<1>3. CASE s.scalar /\ name \in {"u32", "s32"}
  <2>1. Finding("bounds32_inverted", <<i, name>>) \in RegisterFound(s, i)
    BY <1>3 DEF RegisterFound, SubregisterFound
  <2> QED
    BY <1>1, <2>1, Denominators DEF Fails, Finding
<1> QED
  BY <1>2, <1>3

\* A range between its extremes is inverted by the other extreme at either end.
LEMMA OrderCouldFail ==
  ASSUME NEW s \in RegType, NEW i, NEW name, NEW c, c = Count("bounds_order_checked", <<i, name>>),
         OrderCheckable(Ranges(s)[name]),
         name \in {"unsigned", "signed"} \/ (s.scalar /\ name \in {"u32", "s32"})
  PROVE  \A side \in Sides(s, c) : \E other \in side : Fails(other, i, c)
<1> DEFINE r == Ranges(s)[name]
           low == LowEnd(s, name, r.max)
           high == HighEnd(s, name, r.min)
<1>1. c.counter = "bounds_order_checked" /\ c.at = <<i, name>> /\ c.at[2] = name
  BY DEF Count
<1>2. Sides(s, c) = {{LowEnd(s, name, x) : x \in r.min .. r.max},
                     {HighEnd(s, name, x) : x \in r.min .. r.max}}
  BY <1>1 DEF Sides
<1>w. Block \in Nat \ {0} /\ MaxWord \in Nat /\ MinSigned \in Int /\ MaxSigned \in Int
      /\ Block \div 2 \in Int
  BY WidthFacts DEF MinSigned, MaxSigned
<1>3. r.lo \in Int /\ r.hi \in Int /\ r.min \in Int /\ r.max \in Int /\ r.min < r.lo /\ r.hi < r.max
      /\ r.min <= r.max
  <2>1. r.lo \in Int /\ r.hi \in Int
    BY <1>w, RegTypeFacts DEF Words
  <2>2. r.min \in Int /\ r.max \in Int
    BY <1>w DEF Ranges
  <2>3. r.min < r.lo /\ r.hi < r.max
    BY DEF OrderCheckable
  <2>4. r.min <= r.max
    <3>1. PICK k \in Nat \ {0} : Block = 2 * k
      BY WidthFacts
    <3>2. Block \div 2 = k
      BY <3>1
    <3>3. PICK j \in Nat \ {0} : MaxWord = 2 * j - 1
      BY WidthFacts
    <3>4. MaxSigned = j - 1
      BY <3>3 DEF MaxSigned
    <3> QED
      BY <1>w, <3>1, <3>2, <3>3, <3>4 DEF Ranges, MinSigned
  <2> QED
    BY <2>1, <2>2, <2>3, <2>4
<1>n. None \notin Int
  BY DiffAssumption
<1>4. \A x \in Int : /\ Ranges(LowEnd(s, name, x))[name].lo = x
                     /\ Ranges(LowEnd(s, name, x))[name].hi = r.hi
                     /\ LowEnd(s, name, x).scalar = s.scalar
  <2> SUFFICES ASSUME NEW x \in Int
               PROVE  /\ Ranges(LowEnd(s, name, x))[name].lo = x
                      /\ Ranges(LowEnd(s, name, x))[name].hi = r.hi
                      /\ LowEnd(s, name, x).scalar = s.scalar
    OBVIOUS
  <2>0. x # None
    BY <1>n
  <2>1. CASE name = "unsigned"
    <3>1. LowEnd(s, name, x) = [s EXCEPT !.umin = x]
      BY <2>1 DEF LowEnd
    <3> QED
      BY <2>1, <3>1 DEF Ranges, RegType
  <2>2. CASE name = "signed"
    <3>1. LowEnd(s, name, x) = [s EXCEPT !.smin = x]
      BY <2>2 DEF LowEnd
    <3> QED
      BY <2>2, <3>1 DEF Ranges, RegType
  <2>3. CASE name = "u32"
    <3>1. LowEnd(s, name, x) = [s EXCEPT !.u32min = x]
      BY <2>3 DEF LowEnd
    <3> QED
      BY <2>0, <2>3, <3>1 DEF Ranges, RegType, Resolved
  <2>4. CASE name = "s32"
    <3>1. LowEnd(s, name, x) = [s EXCEPT !.s32min = x]
      BY <2>4 DEF LowEnd
    <3> QED
      BY <2>0, <2>4, <3>1 DEF Ranges, RegType, Resolved
  <2> QED
    BY <2>1, <2>2, <2>3, <2>4
<1>5. \A x \in Int : /\ Ranges(HighEnd(s, name, x))[name].hi = x
                     /\ Ranges(HighEnd(s, name, x))[name].lo = r.lo
                     /\ HighEnd(s, name, x).scalar = s.scalar
  <2> SUFFICES ASSUME NEW x \in Int
               PROVE  /\ Ranges(HighEnd(s, name, x))[name].hi = x
                      /\ Ranges(HighEnd(s, name, x))[name].lo = r.lo
                      /\ HighEnd(s, name, x).scalar = s.scalar
    OBVIOUS
  <2>0. x # None
    BY <1>n
  <2>1. CASE name = "unsigned"
    <3>1. HighEnd(s, name, x) = [s EXCEPT !.umax = x]
      BY <2>1 DEF HighEnd
    <3> QED
      BY <2>1, <3>1 DEF Ranges, RegType
  <2>2. CASE name = "signed"
    <3>1. HighEnd(s, name, x) = [s EXCEPT !.smax = x]
      BY <2>2 DEF HighEnd
    <3> QED
      BY <2>2, <3>1 DEF Ranges, RegType
  <2>3. CASE name = "u32"
    <3>1. HighEnd(s, name, x) = [s EXCEPT !.u32max = x]
      BY <2>3 DEF HighEnd
    <3> QED
      BY <2>0, <2>3, <3>1 DEF Ranges, RegType, Resolved
  <2>4. CASE name = "s32"
    <3>1. HighEnd(s, name, x) = [s EXCEPT !.s32max = x]
      BY <2>4 DEF HighEnd
    <3> QED
      BY <2>0, <2>4, <3>1 DEF Ranges, RegType, Resolved
  <2> QED
    BY <2>1, <2>2, <2>3, <2>4
<1>6. Fails(low, i, c) /\ Fails(high, i, c)
  <2>1. Ranges(low)[name].lo > Ranges(low)[name].hi /\ low.scalar = s.scalar
    BY <1>3, <1>4
  <2>2. Ranges(high)[name].lo > Ranges(high)[name].hi /\ high.scalar = s.scalar
    BY <1>3, <1>5
  <2> HIDE DEF low, high, r
  <2> QED
    BY <2>1, <2>2, InvertedFails
<1>7. r.max \in r.min .. r.max /\ r.min \in r.min .. r.max
  <2> HIDE DEF r
  <2> QED
    BY <1>3
<1> QED
  BY <1>2, <1>6, <1>7

\* A value and a mask that share a bit are found malformed, and each word has a
\* bit to share.
LEMMA WellformedCouldFail ==
  ASSUME NEW s \in RegType, NEW i, NEW c, c = Count("tnum_wellformed_checked", <<i>>),
         s.value # 0, s.mask # 0
  PROVE  \A side \in Sides(s, c) : \E other \in side : Fails(other, i, c)
<1> DEFINE valued == [s EXCEPT !.value = s.mask]
           masked == [s EXCEPT !.mask = s.value]
<1>1. c.counter = "tnum_wellformed_checked" /\ c.at = <<i>> /\ Len(c.at) = 1
  BY DEF Count
<1>2. Sides(s, c) = {{[s EXCEPT !.value = v] : v \in Words}, {[s EXCEPT !.mask = m] : m \in Words}}
  BY <1>1 DEF Sides
<1>3. s.value \in Words /\ s.mask \in Words
  BY RegTypeFacts
<1>4. \A t : (\E b \in Places : BitOf(t.value, b) = 1 /\ BitOf(t.mask, b) = 1) => Fails(t, i, c)
  <2> SUFFICES ASSUME NEW t, \E b \in Places : BitOf(t.value, b) = 1 /\ BitOf(t.mask, b) = 1
               PROVE  Fails(t, i, c)
    OBVIOUS
  <2>1. Finding("tnum_malformed", <<i>>) \in RegisterFound(t, i)
    BY DEF RegisterFound, LogicalFound, When
  <2> QED
    BY <1>1, <2>1, Denominators DEF Fails, Finding
<1>5. /\ valued.value = s.mask /\ valued.mask = s.mask
      /\ masked.value = s.value /\ masked.mask = s.value
  BY DEF RegType
<1>6. Fails(valued, i, c) /\ Fails(masked, i, c)
  <2>1. PICK b \in Places : BitOf(s.mask, b) = 1
    BY <1>3, SomeBit
  <2>2. PICK d \in Places : BitOf(s.value, d) = 1
    BY <1>3, SomeBit
  <2> HIDE DEF valued, masked
  <2> QED
    BY <1>4, <1>5, <2>1, <2>2
<1> QED
  BY <1>2, <1>3, <1>6

\* A span that misses the range is found.
LEMMA MissFails ==
  ASSUME NEW s, NEW i, NEW c, c = Count("tnum_bounds_checked", <<i>>),
         s.umin <= s.umax, SpanEnd(s) < s.umin \/ s.value > s.umax
  PROVE  Fails(s, i, c)
<1>1. c.counter = "tnum_bounds_checked" /\ c.at = <<i>> /\ Len(c.at) = 1
  BY DEF Count
<1>2. Finding("tnum_bounds_inconsistent", <<i>>) \in RegisterFound(s, i)
  BY DEF RegisterFound, LogicalFound, When
<1> QED
  BY <1>1, <1>2, Denominators DEF Fails, Finding

\* A constant other than its printed bounds is found.
LEMMA MismatchFails ==
  ASSUME NEW s, NEW i, NEW c, c = Count("tnum_bounds_checked", <<i>>),
         ConstCheckable(s), ~Pinned(s.umin, s.umax, s.value)
  PROVE  Fails(s, i, c)
<1>1. c.counter = "tnum_bounds_checked" /\ c.at = <<i>> /\ Len(c.at) = 1
  BY DEF Count
<1>2. Finding("const_tnum_range_mismatch", <<i, "unsigned">>) \in RegisterFound(s, i)
  BY DEF RegisterFound, LogicalFound, When
<1> QED
  BY <1>1, <1>2, Denominators DEF Fails, Finding

\* Bounds that leave something out miss some tnum, and a tnum that leaves a word
\* out misses some bounds.
LEMMA BoundsCouldFail ==
  ASSUME NEW s \in RegType, NEW i, NEW c, c = Count("tnum_bounds_checked", <<i>>),
         TnumBoundsCheckable(s) \/ ConstCheckable(s), BoundsArePrinted(s)
  PROVE  \A side \in Sides(s, c) : \E other \in side : Fails(other, i, c)
<1>1. c.counter = "tnum_bounds_checked"
  BY DEF Count
<1>w. /\ MaxWord \in Nat \ {0} /\ 0 \in Words /\ MaxWord \in Words /\ Words \subseteq Nat
      /\ s.value \in Words /\ s.mask \in Words /\ s.umin \in Words /\ s.umax \in Words
      /\ s.value \in Nat /\ s.mask \in Nat /\ s.umin \in Nat /\ s.umax \in Nat
      /\ s.mask <= MaxWord /\ s.umin <= MaxWord /\ s.umax <= MaxWord
  <2>1. MaxWord \in Nat \ {0}
    BY WidthFacts
  <2> QED
    BY <2>1, RegTypeFacts DEF Words
<1>2. Sides(s, c) = {OtherTnums(s), OtherRanges(s)}
  <2>1. s.mask # 0 \/ s.logged
    BY DEF TnumBoundsCheckable, ConstCheckable
  <2> QED
    BY <1>1, <2>1 DEF Sides
<1>3. s.umin > 0 \/ s.umax < MaxWord
  BY <1>w DEF TnumBoundsCheckable, ConstCheckable
<1>4. s.mask # MaxWord
  BY <1>w DEF TnumBoundsCheckable, ConstCheckable
<1>5. \E other \in OtherTnums(s) : Fails(other, i, c)
  <2> DEFINE other(v) == [s EXCEPT !.value = v, !.mask = 0]
             tnum(v, m) == [s EXCEPT !.value = v, !.mask = m]
  <2>a. \A v \in Words : other(v) \in OtherTnums(s)
    <3>1. OtherTnums(s) = {tnum(v, m) : v, m \in Words}
      BY DEF OtherTnums
    <3>2. \A v : other(v) = tnum(v, 0)
      OBVIOUS
    <3> HIDE DEF tnum, other
    <3> QED
      BY <1>w, <3>1, <3>2
  <2>b. \A v \in Words : /\ other(v).value = v /\ other(v).mask = 0 /\ other(v).umin = s.umin
                         /\ other(v).umax = s.umax /\ other(v).logged = s.logged
    BY DEF RegType
  <2> HIDE DEF other
  <2>1. CASE s.umin <= s.umax /\ s.umin > 0
    <3>1. SpanEnd(other(0)) = 0
      BY <1>w, <2>b, SpanOfZero
    <3>2. Fails(other(0), i, c)
      BY <1>w, <2>1, <2>b, <3>1, MissFails
    <3> QED
      BY <1>w, <2>a, <3>2 DEF other
  <2>2. CASE s.umin <= s.umax /\ s.umax < MaxWord
    <3>1. Fails(other(MaxWord), i, c)
      BY <1>w, <2>2, <2>b, MissFails
    <3> QED
      BY <1>w, <2>a, <3>1 DEF other
  <2>3. CASE s.umin > s.umax
    <3>1. s.umax # MaxWord /\ s.umin # s.umax
      BY <1>w, <2>3
    <3>2. s.logged
      BY <1>w, <2>3, <3>1 DEF TnumBoundsCheckable, ConstCheckable, BoundsArePrinted
    <3>3. ConstCheckable(other(0)) /\ ~Pinned(other(0).umin, other(0).umax, other(0).value)
      BY <1>w, <2>b, <3>1, <3>2 DEF ConstCheckable, Pinned
    <3>4. Fails(other(0), i, c)
      BY <3>3, MismatchFails
    <3> QED
      BY <1>w, <2>a, <3>4 DEF other
  <2> QED
    BY <1>w, <1>3, <2>1, <2>2, <2>3
<1>6. \E other \in OtherRanges(s) : Fails(other, i, c)
  <2> DEFINE other(x) == [s EXCEPT !.umin = x, !.umax = x]
  <2>a. \A x \in Words : other(x) \in OtherRanges(s)
    <3> DEFINE range(lo, hi) == [s EXCEPT !.umin = lo, !.umax = hi]
    <3>1. OtherRanges(s) = {range(lo, hi) : lo, hi \in Words}
      BY DEF OtherRanges
    <3>2. \A x : other(x) = range(x, x)
      OBVIOUS
    <3> HIDE DEF range, other
    <3> QED
      BY <3>1, <3>2
  <2>b. \A x \in Words : /\ other(x).value = s.value /\ other(x).mask = s.mask
                         /\ other(x).umin = x /\ other(x).umax = x
    BY DEF RegType
  <2> HIDE DEF other
  <2>1. CASE s.value # 0
    <3>1. Fails(other(0), i, c)
      BY <1>w, <2>1, <2>b, MissFails
    <3> QED
      BY <1>w, <2>a, <3>1
  <2>2. CASE s.value = 0
    <3>1. SpanEnd(other(MaxWord)) = s.mask
      BY <1>w, <2>2, <2>b, SpanOfZero
    <3>2. s.mask < MaxWord
      BY <1>w, <1>4
    <3>3. Fails(other(MaxWord), i, c)
      BY <1>w, <2>b, <3>1, <3>2, MissFails
    <3> QED
      BY <1>w, <2>a, <3>3
  <2> QED
    BY <2>1, <2>2
<1> QED
  BY <1>2, <1>5, <1>6

\* A 32-bit view that leaves something out misses some word.
LEMMA Reg32CouldFail ==
  ASSUME NEW s \in RegType, NEW i, NEW c, c = Count("reg32_checked", <<i>>), Reg32Checkable(s)
  PROVE  \A side \in Sides(s, c) : \E other \in side : Fails(other, i, c)
<1>1. c.counter = "reg32_checked" /\ c.at = <<i>> /\ Len(c.at) = 1
  BY DEF Count
<1>2. Sides(s, c) = {OtherRanges(s)}
  BY <1>1 DEF Sides
<1> DEFINE r == Ranges(s).u32
           other(x) == [s EXCEPT !.umin = x, !.umax = x]
<1>w. /\ Block \in Nat \ {0} /\ 0 \in Words /\ Block - 1 \in Words
      /\ LowHalf(0) = 0 /\ LowHalf(Block - 1) = Block - 1
      /\ r.lo \in SubWords /\ r.hi \in SubWords /\ None \notin Int
  <2>1. Block \in Nat \ {0} /\ MaxWord \in Nat /\ Block <= MaxWord + 1
    BY WidthFacts
  <2>2. LowHalf(0) = 0 /\ LowHalf(Block - 1) = Block - 1
    <3>1. Block - 1 \in Nat /\ Block - 1 < Block /\ 0 < Block
      BY <2>1
    <3> QED
      BY <2>1, <3>1, SmallMod DEF LowHalf
  <2>3. s.u32min \in SubWords \cup {None} /\ s.u32max \in SubWords \cup {None}
    BY DEF RegType
  <2>4. r.lo = Resolved(s.u32min, 0) /\ r.hi = Resolved(s.u32max, Block - 1)
    BY DEF Ranges
  <2>5. 0 \in SubWords /\ Block - 1 \in SubWords
    BY <2>1 DEF SubWords
  <2>6. r.lo \in SubWords /\ r.hi \in SubWords
    BY <2>3, <2>4, <2>5 DEF Resolved
  <2> QED
    BY <2>1, <2>2, <2>6, DiffAssumption DEF Words
<1>3. s.scalar /\ (r.lo # 0 \/ r.hi # Block - 1)
  BY DEF Reg32Checkable, Ranges
<1>4. PICK x \in {0, Block - 1} : LowHalf(x) = x /\ (x < r.lo \/ x > r.hi)
  <2> HIDE DEF r
  <2> QED
    BY <1>w, <1>3 DEF SubWords
<1>5. x \in Words
  BY <1>w, <1>4
<1>6. /\ other(x).umin = x /\ other(x).umax = x /\ other(x).scalar = s.scalar
      /\ Ranges(other(x)).u32 = r
  BY DEF RegType, Ranges
<1>7. other(x) \in OtherRanges(s)
  <2> DEFINE range(lo, hi) == [s EXCEPT !.umin = lo, !.umax = hi]
  <2>1. OtherRanges(s) = {range(lo, hi) : lo, hi \in Words}
    BY DEF OtherRanges
  <2>2. other(x) = range(x, x)
    OBVIOUS
  <2> HIDE DEF range, other
  <2> QED
    BY <1>5, <2>1, <2>2
<1>8. r.min = 0 /\ r.max = Block - 1
  BY DEF Ranges
<1>9. Fails(other(x), i, c)
  <2> HIDE DEF other, r
  <2>1. r.lo # LowHalf(x) \/ r.hi # LowHalf(x)
    BY <1>w, <1>4 DEF SubWords
  <2>2. Reg32Checkable(other(x))
    BY <1>3, <1>6, <1>8, <2>1 DEF Reg32Checkable
  <2>3. Disjoint(LowHalf(x), LowHalf(x), r)
    BY <1>4 DEF Disjoint
  <2>4. Finding("reg32_reg64_inconsistent", <<i>>) \in RegisterFound(other(x), i)
    BY <1>3, <1>6, <2>2, <2>3 DEF RegisterFound, SubregisterFound, When
  <2> QED
    BY <1>1, <2>4, Denominators DEF Fails, Finding
<1> QED
  BY <1>2, <1>7, <1>9

\* What a comparison of a register that is counted is.
LEMMA RegisterCounts ==
  ASSUME NEW s, NEW i, NEW c \in RegisterCounted(s, i)
  PROVE  \/ c = Count("tnum_bounds_checked", <<i>>) /\ (TnumBoundsCheckable(s) \/ ConstCheckable(s))
         \/ c = Count("tnum_wellformed_checked", <<i>>) /\ s.value # 0 /\ s.mask # 0
         \/ c = Count("reg32_checked", <<i>>) /\ Reg32Checkable(s)
         \/ \E name : /\ c = Count("bounds_order_checked", <<i, name>>)
                      /\ OrderCheckable(Ranges(s)[name])
                      /\ name \in {"unsigned", "signed"} \/ (s.scalar /\ name \in {"u32", "s32"})
<1>1. CASE c \in LogicalCounted(s, i)
  BY <1>1 DEF LogicalCounted, When
<1>2. CASE c \in SubregisterCounted(s, i)
  BY <1>2 DEF SubregisterCounted, When
<1> QED
  BY <1>1, <1>2 DEF RegisterCounted

LEMMA RegisterCouldFail ==
  ASSUME NEW s \in RegType, BoundsArePrinted(s), NEW i, NEW c \in RegisterCounted(s, i)
  PROVE  /\ c.counter \in {"bounds_order_checked", "tnum_wellformed_checked",
                           "tnum_bounds_checked", "reg32_checked"}
         /\ c.at[1] = i /\ \A side \in Sides(s, c) : \E other \in side : Fails(other, i, c)
<1>c. \A counter, at : Count(counter, at).counter = counter /\ Count(counter, at).at = at
  BY DEF Count
<1>1. CASE c = Count("tnum_bounds_checked", <<i>>) /\ (TnumBoundsCheckable(s) \/ ConstCheckable(s))
  BY <1>c, <1>1, BoundsCouldFail
<1>2. CASE c = Count("tnum_wellformed_checked", <<i>>) /\ s.value # 0 /\ s.mask # 0
  BY <1>c, <1>2, WellformedCouldFail
<1>3. CASE c = Count("reg32_checked", <<i>>) /\ Reg32Checkable(s)
  BY <1>c, <1>3, Reg32CouldFail
<1>4. CASE \E name : /\ c = Count("bounds_order_checked", <<i, name>>)
                     /\ OrderCheckable(Ranges(s)[name])
                     /\ name \in {"unsigned", "signed"} \/ (s.scalar /\ name \in {"u32", "s32"})
  <2>1. PICK name : /\ c = Count("bounds_order_checked", <<i, name>>)
                    /\ OrderCheckable(Ranges(s)[name])
                    /\ name \in {"unsigned", "signed"} \/ (s.scalar /\ name \in {"u32", "s32"})
    BY <1>4
  <2>2. \A side \in Sides(s, c) : \E other \in side : Fails(other, i, c)
    BY <2>1, OrderCouldFail
  <2>3. c.counter = "bounds_order_checked" /\ c.at[1] = i
    BY <1>c, <2>1
  <2> QED
    BY <2>2, <2>3
<1> QED
  BY <1>1, <1>2, <1>3, <1>4, RegisterCounts

\* A counted comparison of a record could have failed.
LEMMA CountedCouldFail ==
  ASSUME NEW rec, IsRecord(rec), NEW c \in Counted(rec)
  PROVE  CouldFail(rec, c)
<1> DEFINE states == {"bounds_order_checked", "tnum_wellformed_checked", "tnum_bounds_checked",
                      "reg32_checked"}
<1>c. \A counter, at : Count(counter, at).counter = counter /\ Count(counter, at).at = at
  BY DEF Count
<1>d. {Denominator[kind] : kind \in DOMAIN Denominator} = states
  BY Denominators
<1>1. CASE c \in StatesCounted(rec)
  <2>1. PICK i \in DOMAIN rec.regs : c \in RegisterCounted(rec.regs[i], i)
    BY <1>1 DEF StatesCounted
  <2>2. rec.regs \in Seq(RegType) /\ BoundsArePrinted(rec.regs[i])
    BY DEF IsRecord
  <2>3. rec.regs[i] \in RegType
    <3> HIDE DEF RegType
    <3> QED
      BY <2>2
  <2>4. PICK s \in RegType : s = rec.regs[i]
    BY <2>3
  <2>5. c.counter \in states /\ c.at[1] = i
    BY <2>1, <2>2, <2>4, RegisterCouldFail
  <2>6. \A side \in Sides(s, c) : \E other \in side : Fails(other, i, c)
    BY <2>1, <2>2, <2>4, RegisterCouldFail
  <2> QED
    BY <1>d, <2>4, <2>5, <2>6 DEF CouldFail, Fails
<1>2. CASE rec.gate # None /\ \E cell \in GateCells(rec.gate) : c = Count("liveness_gate_checked", cell)
  <2>1. PICK cell \in GateCells(rec.gate) : c = Count("liveness_gate_checked", cell)
    BY <1>2
  <2>2. c.counter = "liveness_gate_checked" /\ c.at = cell
    BY <1>c, <2>1
  <2> DEFINE g == rec.gate
             blank == [rec.gate EXCEPT !.kernel[cell[1]] = {}]
  <2>3. /\ g.kernel \in [DOMAIN g.kernel -> SUBSET (0 .. 9)]
        /\ g \in [kernel : [DOMAIN g.kernel -> SUBSET (0 .. 9)], claim : {g.claim}]
    BY <1>2 DEF IsRecord
  <2>4. /\ blank.claim = g.claim /\ DOMAIN blank.kernel = DOMAIN g.kernel
        /\ cell[1] \in DOMAIN g.kernel => blank.kernel[cell[1]] = {}
    BY <2>3
  <2>5. GateCells(blank) = GateCells(g)
    <3> HIDE DEF blank, g
    <3> QED
      BY <2>4 DEF GateCells
  <2>6. cell \in GateFound(blank)
    <3>1. cell[1] \in DOMAIN g.kernel
      BY <2>1 DEF GateCells
    <3> HIDE DEF blank
    <3> QED
      BY <2>1, <2>4, <2>5, <3>1 DEF GateFound
  <2>7. c.counter \notin states
    BY <2>2
  <2> QED
    BY <1>d, <2>2, <2>6, <2>7 DEF CouldFail
<1>3. CASE c.counter \notin states \cup {"liveness_gate_checked"}
  BY <1>d, <1>3 DEF CouldFail
<1>4. \/ c \in StatesCounted(rec)
      \/ rec.gate # None /\ \E cell \in GateCells(rec.gate) : c = Count("liveness_gate_checked", cell)
      \/ c.counter \notin states \cup {"liveness_gate_checked"}
  <2>1. \A counter, places : c \in Counts(counter, places) => c.counter = counter
    BY <1>c DEF Counts
  <2>2. \A holds, counter, at : c \in When(holds, Count(counter, at)) => c.counter = counter
    BY <1>c DEF When
  <2>3. rec.probe # None /\ c \in ProbeCounted(rec.probe) =>
          c.counter \in {"reg_invariants_checked", "prune_pairs_checked", "prune_resource_artifacts"}
    BY <2>2 DEF ProbeCounted
  <2> QED
    BY <2>1, <2>2, <2>3 DEF Counted
<1> QED
  BY <1>1, <1>2, <1>3, <1>4

\* Of what the report calls checked nothing was bound to pass: whichever side of
\* a comparison of a register or of a live register is kept, at any width of a
\* word, the kernel could have printed another one that is a finding.
THEOREM ChecksCanFail == Spec => []CountsCouldFail
<1>1. IInv => CountsCouldFail
  <2> SUFFICES ASSUME IInv, pc = "report", NEW i \in DOMAIN norm.recs,
                      NEW c \in Counted(norm.recs[i])
               PROVE  CouldFail(norm.recs[i], c)
    BY DEF CountsCouldFail
  <2>1. norm \in Observation
    BY DEF IInv, Held
  <2>2. norm.recs[i] \in Range(norm.recs)
    BY DEF Range
  <2>3. IsRecord(norm.recs[i])
    BY <2>1, <2>2, PipelineAssumption
  <2>4. PICK rec, d : rec = norm.recs[i] /\ d = c
    OBVIOUS
  <2>5. CouldFail(rec, d)
    BY <2>3, <2>4, CountedCouldFail
  <2> QED
    BY <2>4, <2>5
<1> QED
  BY <1>1, Invariant, PTL

=============================================================================
