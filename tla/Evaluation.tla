----------------------------- MODULE Evaluation -----------------------------
(***************************************************************************)
(* pkg/eval: the worker pool that runs a dataset against a subject, the    *)
(* scorers, the report and the exit code of RunAndExit; and how the two    *)
(* LLM judges, the scorer's and pkg/guardrail's, read the reply of their   *)
(* model (internal/judgecall).                                             *)
(*                                                                         *)
(* Cases are numbered in the order of the dataset; ID gives their ids.     *)
(***************************************************************************)
EXTENDS Integers, Sequences, SequencesExt, FiniteSets, FiniteSetsExt

CONSTANTS ID,          \* case -> its id, here a number
          Worker,      \* the goroutines of the pool, Parallel of them
          Scorers,     \* scorer -> the kinds of score it gives
          Thresholds,  \* MinPass values in percent, Unset for nil
          Unset,
          Reply,       \* what a judge's model may answer
          PassThreshold

ASSUME EvalAssumption ==
  /\ ID \in Seq(Int) /\ Scorers \in Seq(STRING) /\ Thresholds \subseteq Int \cup {Unset}
  /\ Reply \subseteq Seq([form : STRING, n : Nat]) /\ PassThreshold \in Nat

Case == DOMAIN ID
NotRun == [state |-> "not run"]

(***************************************************************************)
(* How the judges' replies are read. A reply is a sequence of tokens.      *)
(* [form, n]: "outof" is a number given as n/100 or n%, "number" a bare    *)
(* one, "word" anything else; "ALLOW", "BLOCK" and "NOT" stand for the     *)
(* words that start or read so.                                            *)
(***************************************************************************)
Clamped(n) == IF n > 100 THEN 100 ELSE n

Numbers(reply, form) == {reply[i].n : i \in {j \in DOMAIN reply : reply[j].form = form}}

NoScore == -1

(* parseJudgeScore: a reply that is a number; else the numbers out of 100, *)
(* else the bare numbers, if they agree.                                   *)
ParseScore(reply) ==
  IF Len(reply) = 1 /\ reply[1].form = "number" THEN Clamped(reply[1].n)
  ELSE LET out  == Numbers(reply, "outof")
           bare == Numbers(reply, "number")
           said == IF out # {} THEN out ELSE bare
       IN IF Cardinality(said) = 1 THEN Clamped(CHOOSE n \in said : TRUE) ELSE NoScore

(* A score in percent passes from PassThreshold on; no score is a fail.    *)
JudgeScore(reply) ==
  LET n == ParseScore(reply) IN
  IF n = NoScore THEN [value |-> 0, pass |-> FALSE]
  ELSE [value |-> n, pass |-> n >= PassThreshold]

JudgeScores == {JudgeScore(reply) : reply \in Reply}

Words(reply) == {reply[i].form : i \in DOMAIN reply}

(* Slip: a negation is not looked for. *)
ClassifyWithoutNegations(reply) ==
  IF "BLOCK" \in Words(reply) /\ "ALLOW" \notin Words(reply) THEN "BLOCK"
  ELSE IF "ALLOW" \in Words(reply) /\ "BLOCK" \notin Words(reply) THEN "ALLOW" ELSE "unclear"

(* classifyJudgeReply. *)
Classify(reply) ==
  IF "BLOCK" \in Words(reply) /\ "ALLOW" \notin Words(reply) THEN "BLOCK"
  ELSE IF "ALLOW" \in Words(reply) /\ Words(reply) \cap {"BLOCK", "NOT"} = {} THEN "ALLOW"
  ELSE "unclear"

-----------------------------------------------------------------------------
VARIABLES
  minPass,     \* of this Config
  done,        \* the context of Run is done
  queued,      \* the cases handed to workers
  does,        \* worker -> [case, at, actual, scores]: what it works on
  results,     \* the report's slots, by position
  report,      \* NotRun, or the tallied report and exit code
  late         \* ghost: the cases taken up after the context was done

evalVars == <<minPass, done, queued, does, results, report, late>>

Free == [at |-> "idle"]

(* MinPass outside [0, 1], or a Config without cases or scorers or with    *)
(* two scorers of one name, is a setup error: exit code 2 before anything. *)
SetupError(m) == (m # Unset /\ m \notin 0 .. 100) \/ Case = {} \/ DOMAIN Scorers = {}

EvalInit ==
  /\ minPass \in Thresholds /\ done = FALSE
  /\ queued = 0 /\ does = [w \in Worker |-> Free]
  /\ results = [c \in Case |-> NotRun]
  /\ report = IF SetupError(minPass) THEN [state |-> "reported", exit |-> 2] ELSE NotRun
  /\ late = {}

Cancel ==
  /\ report = NotRun /\ ~done /\ done' = TRUE
  /\ UNCHANGED <<minPass, queued, does, results, report, late>>

(* The producer hands the next case to a worker that waits, cancelled or   *)
(* not.                                                                    *)
HandOut(w) ==
  /\ report = NotRun /\ queued < Cardinality(Case) /\ does[w] = Free
  /\ queued' = queued + 1
  /\ does' = [does EXCEPT ![w] = [at |-> "begin", case |-> queued']]
  /\ late' = IF done THEN late \cup {queued'} ELSE late
  /\ UNCHANGED <<minPass, done, results, report>>

Reports(w, result) ==
  /\ results' = [results EXCEPT ![does[w].case] = result]
  /\ does' = [does EXCEPT ![w] = Free]

Errored(why) == [state |-> "errored", scores |-> << >>, err |-> why]

(* evalOne looks at its context, which TimeoutPerCase may end, first.      *)
EvalOne(w) ==
  /\ does[w].at = "begin"
  /\ IF done THEN Reports(w, Errored("context"))
     ELSE /\ does' = [does EXCEPT ![w].at = "subject"] /\ UNCHANGED results
  /\ UNCHANGED <<minPass, done, queued, report, late>>

(* The subject answers, fails or panics; a panic is an error.              *)
CallSubject(w) ==
  /\ does[w].at = "subject"
  /\ \/ \E right \in BOOLEAN :
          /\ does' = [does EXCEPT ![w] = [at |-> "scoring", case |-> @.case, scores |-> << >>,
                                          actual |-> [input |-> @.case, right |-> right]]]
          /\ UNCHANGED results
     \/ Reports(w, Errored("subject"))
  /\ UNCHANGED <<minPass, done, queued, report, late>>

(* ExactMatch, Contains, Regex: values are percents. *)
Compared(actual) == IF actual.right THEN [value |-> 100, pass |-> TRUE] ELSE [value |-> 0, pass |-> FALSE]

(* What a scorer may say of actual: a comparison is sure, a judge gives a  *)
(* score of its own, and an error or a panic of either is a fail.          *)
ScoresOf(kind, actual) ==
  {[value |-> 0, pass |-> FALSE]} \cup
    IF kind = "compare" THEN {Compared(actual)}
    ELSE JudgeScores

CallScorer(w) ==
  /\ does[w].at = "scoring" /\ Len(does[w].scores) < Len(Scorers)
  /\ \E sc \in ScoresOf(Scorers[Len(does[w].scores) + 1], does[w].actual) :
       does' = [does EXCEPT ![w].scores = Append(@, sc)]
  /\ UNCHANGED <<minPass, done, queued, results, report, late>>

(* Slip: the first scorer decides. *)
JudgedByFirst(scores) == IF scores[1].pass THEN "passed" ELSE "failed"

Judged(scores) == IF \A i \in DOMAIN scores : scores[i].pass THEN "passed" ELSE "failed"

EndCase(w) ==
  /\ does[w].at = "scoring" /\ Len(does[w].scores) = Len(Scorers)
  /\ Reports(w, [state |-> Judged(does[w].scores), actual |-> does[w].actual,
                 scores |-> does[w].scores, err |-> ""])
  /\ UNCHANGED <<minPass, done, queued, report, late>>

-----------------------------------------------------------------------------
(* tallyReport: counters, aggregates per scorer, cases stably sorted by id.*)
Count(rs, state) == Cardinality({c \in DOMAIN rs : rs[c].state = state})

Scored(rs, i) == {c \in DOMAIN rs : rs[c].scores # << >>}

Aggregate(rs, i) ==
  [pass |-> Cardinality({c \in Scored(rs, i) : rs[c].scores[i].pass}),
   fail |-> Cardinality({c \in Scored(rs, i) : ~rs[c].scores[i].pass}),
   sum  |-> MapThenSumSet(LAMBDA c : rs[c].scores[i].value, Scored(rs, i))]

(* The order of the report: by id, and stable.                             *)
Precedes(c, d) == ID[c] < ID[d] \/ (ID[c] = ID[d] /\ c <= d)

ById(rs) ==
  LET at(k) == CHOOSE c \in DOMAIN rs : Cardinality({d \in DOMAIN rs : Precedes(d, c)}) = k
  IN [k \in DOMAIN rs |-> [id |-> ID[at(k)], case |-> at(k), result |-> rs[at(k)]]]

(* RunAndExit, PassRate, Meets: no MinPass asks for all. *)
ExitCode(passed, total) ==
  IF passed * 100 >= total * (IF minPass = Unset THEN 100 ELSE minPass) THEN 0 ELSE 1

Tally ==
  /\ report = NotRun /\ queued = Cardinality(Case) /\ \A w \in Worker : does[w] = Free
  /\ report' = [state      |-> "reported",
                cases      |-> ById(results),
                passed     |-> Count(results, "passed"),
                failed     |-> Count(results, "failed"),
                errored    |-> Count(results, "errored"),
                aggregates |-> [i \in DOMAIN Scorers |-> Aggregate(results, i)],
                exit       |-> ExitCode(Count(results, "passed"), Cardinality(Case))]
  /\ UNCHANGED <<minPass, done, queued, does, results, late>>

EvalNext ==
  \/ Cancel \/ Tally
  \/ \E w \in Worker :
       HandOut(w) \/ EvalOne(w) \/ CallSubject(w) \/ CallScorer(w) \/ EndCase(w)

EvalSpec == EvalInit /\ [][EvalNext]_evalVars

-----------------------------------------------------------------------------
(***************************************************************************)
(* Every run comes to its report, whatever fails, panics or is cancelled,  *)
(* and the report is the work: each case once, by id, with the answer to   *)
(* its own input; passed only if every scorer passed it, never when it was *)
(* taken up after the context was done; counters and aggregates that add   *)
(* up; and exit code 0 only if enough of ALL the cases passed.             *)
(***************************************************************************)
Told ==
  LET Cases == report.cases
      Total == Cardinality(Case)
  IN report.exit # 2 =>
       /\ {Cases[i].case : i \in DOMAIN Cases} = Case /\ Len(Cases) = Total
       /\ \A i \in 2 .. Total : Cases[i - 1].id <= Cases[i].id
       /\ report.passed + report.failed + report.errored = Total
       /\ \A i \in DOMAIN Cases :
            LET r == Cases[i].result IN
            /\ r.state # "errored" => r.actual.input = Cases[i].case
            /\ r.state = "passed" =>
                 /\ Len(r.scores) = Len(Scorers) /\ \A j \in DOMAIN r.scores : r.scores[j].pass
                 /\ Cases[i].case \notin late
       /\ \A j \in DOMAIN Scorers :
            report.aggregates[j].pass + report.aggregates[j].fail = report.passed + report.failed
       /\ report.exit = 0 =>
            IF minPass = Unset THEN report.passed = Total ELSE report.passed * 100 >= minPass * Total

(***************************************************************************)
(* A judge that hedges does not wave anything through: a verdict once      *)
(* negated or blocked is no ALLOW whatever else the reply says, and two    *)
(* bare numbers that disagree are no score unless one is named as out of   *)
(* 100; the order of the words does not matter.                            *)
(***************************************************************************)
ReadSafely(reply) ==
  /\ \A more \in Reply :
       LET longer == reply \o more IN
       /\ Classify(longer) = "ALLOW" => "NOT" \notin Words(reply) /\ Classify(reply) # "BLOCK"
       /\ Cardinality(Numbers(reply, "number")) > 1 /\ ParseScore(longer) # NoScore =>
            Numbers(longer, "outof") # {}
  /\ Classify(Reverse(reply)) = Classify(reply) /\ ParseScore(Reverse(reply)) = ParseScore(reply)

=============================================================================
