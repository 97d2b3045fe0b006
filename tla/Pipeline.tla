------------------------------ MODULE Pipeline ------------------------------
(***************************************************************************)
(* The stages after the harvest, as the drivers under                      *)
(* crates/orchestrator/examples run them on one period directory:          *)
(* normalize::run, score::run (which spawns the Python analyzer and waits  *)
(* for it), diff::run and report::run, joined by the artifacts they        *)
(* publish.  A process may fail in any stage or be killed between two      *)
(* steps, and the next one harvests the same period id again; an analyzer  *)
(* whose parent was killed runs on.  Each artifact is published and read   *)
(* whole (module ArtifactStore).                                           *)
(*                                                                         *)
(* What diff finds in a record, module DiffChecks says; its other parts    *)
(* are left out.  Scores are in hundredths.                                *)
(***************************************************************************)
EXTENDS DiffChecks, SequencesExt

CONSTANT Histories  \* bound: what the processes of a period harvest, one after the
                    \* other; a harvest parses to [exec, recs, gaps]

VARIABLES harvests,   \* the one of them that happens
          run,        \* number of processes started so far
          pc,         \* the stage the current process is in
          norm,       \* the NormalizedMetrics it holds in memory
          analyzer,   \* analyzer[r]: the Python process of run r
          normalized, scores, findings, report,  \* the period's artifacts
          orphaned    \* history: a process was killed over a live analyzer

artifacts == <<normalized, scores, findings, report>>
vars == <<harvests, run, pc, norm, analyzer, artifacts, orphaned>>

Observation == UNION {Range(h) : h \in Histories}
Runs == DOMAIN harvests

ASSUME PipelineAssumption ==
  /\ Histories \subseteq Seq(Observation)
  /\ \A o \in Observation :
       /\ o \in [exec : Nat, recs : Seq(Range(o.recs)), gaps : Nat]
       /\ \A rec \in Range(o.recs) : IsRecord(rec)

\* The stages a process works in; it is idle in the others.
Working == pc \in {"normalize", "spawn", "scoring", "diff", "report"}

-----------------------------------------------------------------------------
(* What the stages compute.                                                *)

\* score_normalized: the largest hard signal of a record.
ScoreOf(rec) == IF rec.jit = "differs" THEN 95
                ELSE IF rec.violations # << >> THEN 85 ELSE 0
FlagThreshold == 50

\* score_normalized: one score per record, and the summary.
Scored(n) ==
  LET s == [i \in DOMAIN n.recs |-> ScoreOf(n.recs[i])]
  IN  [exec |-> n.exec, scored |-> s,
       flagged |-> Cardinality({i \in DOMAIN s : s[i] >= FlagThreshold}),
       top |-> Max({0} \cup {s[i] : i \in DOMAIN s})]

\* diff::run: the findings, the counted comparisons and the notes of all
\* records, each with the record's index.
Diffed(n) ==
  [exec    |-> n.exec,
   found   |-> UNION {{[index |-> i, kind |-> f.kind, at |-> f.at] : f \in Found(n.recs[i])} :
                        i \in DOMAIN n.recs},
   checked |-> UNION {{<<i, c>> : c \in Counted(n.recs[i])} : i \in DOMAIN n.recs},
   notes   |-> {i \in DOMAIN n.recs : Notes(n.recs[i]) # {}}]

NoHealth == [records |-> 0, gaps |-> 0]
HealthOf(n) == [records |-> Len(n.recs), gaps |-> n.gaps]

\* (wrong on purpose) the report lists the scored records only.
ScoredIndices(s, d) == DOMAIN s.scored

\* report::run: the union of the indices in either judgment.
Indices(s, d) == DOMAIN s.scored \cup {f.index : f \in d.found}

\* The score of each of them, 0 for a record that was not scored.
Ranked(s, d) ==
  [i \in Indices(s, d) |-> IF i \in DOMAIN s.scored THEN s.scored[i] ELSE 0]

\* The place of i in the order of descending score, ties by index.
Place(i, score) ==
  Cardinality({j \in DOMAIN score : \/ score[j] > score[i]
                                    \/ score[j] = score[i] /\ j <= i})

Item(i, s, d) ==
  [index |-> i, score |-> Ranked(s, d)[i],
   divergences |-> {Finding(f.kind, f.at) : f \in {g \in d.found : g.index = i}}]

\* report::run: the two judgments joined by record index and ordered by score;
\* counts and exec count are carried through.
Joined(s, d, health) ==
  [exec |-> s.exec,
   items |-> [p \in 1 .. Cardinality(Indices(s, d)) |->
                Item(CHOOSE i \in Indices(s, d) : Place(i, Ranked(s, d)) = p, s, d)],
   records |-> Len(s.scored), flagged |-> s.flagged, top |-> s.top,
   divergences |-> Cardinality(d.found),
   health |-> health]

-----------------------------------------------------------------------------
Init ==
  /\ harvests \in Histories
  /\ run = 0 /\ pc = "off" /\ norm = None
  /\ analyzer = [r \in Runs |-> [at |-> "none", in |-> None]]
  /\ normalized = None /\ scores = None /\ findings = None /\ report = None
  /\ orphaned = FALSE

Launch ==
  /\ ~Working /\ run < Len(harvests)
  /\ run' = run + 1 /\ pc' = "normalize" /\ norm' = None
  /\ UNCHANGED <<harvests, analyzer, artifacts, orphaned>>

\* A stage returns an error and the driver's expect() ends the process.
Fail == pc' = "failed" /\ norm' = None /\ UNCHANGED <<harvests, run>>

StageFails == Working /\ pc # "scoring" /\ Fail /\ UNCHANGED <<analyzer, artifacts, orphaned>>

\* The process is killed; std::process does not kill its child.
Die ==
  /\ Working /\ Fail
  /\ orphaned' = (orphaned \/ (pc = "scoring" /\ analyzer[run].at \in {"started", "read"}))
  /\ UNCHANGED <<analyzer, artifacts>>

\* normalize::run on what this run harvested.
Normalize ==
  /\ pc = "normalize"
  /\ norm' = harvests[run] /\ normalized' = harvests[run]
  /\ pc' = "spawn"
  /\ UNCHANGED <<harvests, run, analyzer, scores, findings, report, orphaned>>

\* PythonAnalyzer::analyze spawns the analyzer and waits for it.
Spawn ==
  /\ pc = "spawn"
  /\ analyzer' = [analyzer EXCEPT ![run].at = "started"]
  /\ pc' = "scoring"
  /\ UNCHANGED <<harvests, run, norm, artifacts, orphaned>>

\* The analyzer of run r reads NORMALIZED ...
AnalyzerReads(r) ==
  /\ analyzer[r].at = "started" /\ normalized # None
  /\ analyzer' = [analyzer EXCEPT ![r] = [at |-> "read", in |-> normalized]]
  /\ UNCHANGED <<harvests, run, pc, norm, artifacts, orphaned>>

\* ... and publishes ANOMALY_SCORES.
AnalyzerWrites(r) ==
  /\ analyzer[r].at = "read"
  /\ scores' = Scored(analyzer[r].in)
  /\ analyzer' = [analyzer EXCEPT ![r].at = "exited"]
  /\ UNCHANGED <<harvests, run, pc, norm, normalized, findings, report, orphaned>>

\* It may also exit with an error, at either point.
AnalyzerFails(r) ==
  /\ analyzer[r].at \in {"started", "read"}
  /\ analyzer' = [analyzer EXCEPT ![r].at = "crashed"]
  /\ UNCHANGED <<harvests, run, pc, norm, artifacts, orphaned>>

\* (wrong on purpose) ignores the analyzer's exit status.
ScoreReturnsAnyway ==
  /\ pc = "scoring" /\ analyzer[run].at \in {"exited", "crashed"}
  /\ scores # None
  /\ pc' = "diff"
  /\ UNCHANGED <<harvests, run, norm, analyzer, artifacts, orphaned>>

\* score::run returns: the analyzer succeeded and its artifact reads back.
ScoreReturns ==
  /\ pc = "scoring" /\ analyzer[run].at = "exited"
  /\ pc' = "diff"
  /\ UNCHANGED <<harvests, run, norm, analyzer, artifacts, orphaned>>

\* The analyzer exited non-zero, or its artifact could not be read.
ScoreFails ==
  /\ pc = "scoring" /\ analyzer[run].at \in {"exited", "crashed"}
  /\ Fail
  /\ UNCHANGED <<analyzer, artifacts, orphaned>>

\* (wrong on purpose) adds to the findings of an earlier attempt.
DiffAccumulates ==
  /\ pc = "diff"
  /\ findings' = [Diffed(norm) EXCEPT
       !.found = @ \cup (IF findings = None THEN {} ELSE findings.found)]
  /\ pc' = "report"
  /\ UNCHANGED <<harvests, run, norm, analyzer, normalized, scores, report, orphaned>>

\* diff::run on the metrics in memory.
Diff ==
  /\ pc = "diff"
  /\ findings' = Diffed(norm)
  /\ pc' = "report"
  /\ UNCHANGED <<harvests, run, norm, analyzer, normalized, scores, report, orphaned>>

\* report::run reads the two judgments from disk, and NORMALIZED for the parse
\* health, a failure to read which counts as no health at all.
Report ==
  /\ pc = "report"
  /\ \E health \in {HealthOf(normalized), NoHealth} :
       report' = Joined(scores, findings, health)
  /\ pc' = "done"
  /\ UNCHANGED <<harvests, run, norm, analyzer, normalized, scores, findings, orphaned>>

Next ==
  \/ Launch \/ StageFails \/ Die \/ Normalize \/ Spawn
  \/ ScoreReturns \/ ScoreFails \/ Diff \/ Report
  \/ \E r \in Runs : AnalyzerReads(r) \/ AnalyzerWrites(r) \/ AnalyzerFails(r)

Spec == Init /\ [][Next]_vars

-----------------------------------------------------------------------------
Items == Range(report.items)

TypeOK ==
  /\ harvests \in Histories /\ run \in 0 .. Len(harvests)
  /\ pc \in {"off", "normalize", "spawn", "scoring", "diff", "report", "done", "failed"}
  /\ norm \in Observation \cup {None} /\ normalized \in Observation \cup {None}
  /\ analyzer \in [Runs -> [at : {"none", "started", "read", "exited", "crashed"},
                            in : Observation \cup {None}]]
  /\ \A r \in Runs : analyzer[r].at = "read" => analyzer[r].in \in Observation
  /\ scores # None => \E o \in Observation : scores = Scored(o)
  /\ findings # None => \E o \in Observation : findings = Diffed(o)
  /\ orphaned \in BOOLEAN

\* No record is listed twice in r, the divergences listed under the records are
\* as many as the summary counts, so are the flagged records, and the first item
\* is the one with the highest score.
AddsUp(r) ==
  LET all == Range(r.items)
  IN  /\ Cardinality({i.index : i \in all}) = Len(r.items)
      /\ Cardinality(UNION {{<<i.index, f>> : f \in i.divergences} : i \in all})
           = r.divergences
      /\ Cardinality({i \in all : i.score >= FlagThreshold}) = r.flagged
      /\ r.items # << >> => r.items[1].score = r.top
      /\ Len(r.items) >= r.records

\* Whatever the two judgments are of, the report drops and repeats nothing of
\* them, and its summary counts what it lists.
ReportAddsUp == report # None => AddsUp(report)

\* Unless a process was killed while its analyzer ran, a process that ends with
\* a report has in it its own observation only: its exec count, a score and the
\* divergences of each of its records, and no record of an earlier attempt.
ReportIsOfItsRun ==
  pc = "done" /\ ~orphaned =>
    \E health \in {HealthOf(norm), NoHealth} :
      report = Joined(Scored(norm), Diffed(norm), health)

\* Even over an orphaned analyzer, which may replace the scores under a later
\* process, the divergences of a report are the process's own: each is listed,
\* under the record it was found in.
DivergencesAreOwn ==
  pc = "done" =>
    /\ \A i \in DOMAIN norm.recs : Found(norm.recs[i]) # {} =>
         \E item \in Items : item.index = i
    /\ \A item \in Items : item.divergences =
         IF item.index \in DOMAIN norm.recs THEN Found(norm.recs[item.index]) ELSE {}

\* A verifier without a bug is never reported: no finding of a register that
\* some word fits in every way it is printed, nor of a run that did what a
\* printed state allows, on whatever path.  Of two stores this is not claimed.
\* An offset that varies below zero `admits` takes for none; and a path that
\* leaves the offset without a bound is dropped from the union of the claims,
\* which is then no superset of what the program may do.
NoFalseFinding ==
  pc = "report" =>
    \A i \in DOMAIN norm.recs : \A f \in Found(norm.recs[i]) : ~FalseAlarm(norm.recs[i], f)

\* A zero is evidence against its denominator, so a check that cannot fail is not
\* in it: of each comparison of a register or of a live register that is counted
\* there is, whichever side is kept, another one that is a finding.
CountsCouldFail ==
  pc = "report" =>
    \A i \in DOMAIN norm.recs : \A c \in Counted(norm.recs[i]) : CouldFail(norm.recs[i], c)

=============================================================================
