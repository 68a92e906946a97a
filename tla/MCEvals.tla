------------------------------ MODULE MCEvals ------------------------------
(***************************************************************************)
(* Recording and Evaluation for TLC. part tells which of the two, or which *)
(* reply of a judge, a behaviour is about.                                 *)
(***************************************************************************)
EXTENDS Recording, Evaluation

VARIABLES part, reply

evalsVars == <<part, reply, recordingVars, evalVars>>

-----------------------------------------------------------------------------
(* Two agents, alone or together, with the same first prompt or not, that  *)
(* call tools, fail and try again, give up, or reason.                     *)
Says(x) == Answer(x, FALSE)
Ends == <<Says("final")>>
CallsATool == <<Says("tool")>> \o Ends
TriesAgain == <<Failed("down"), Says("tool"), Failed("down")>> \o Ends
GivesUp == <<Says("tool"), Failed("down")>>
Reasons == <<Answer("tool", TRUE), Answer("final", TRUE)>>

Work(asks, answers, with, mode) ==
  [asks |-> asks, answers |-> answers, with |-> with, mode |-> mode, streams |-> FALSE]
Both(x, y) == [t |-> x, u |-> y]

(* Streams that end well, break before or after some text, and call tools  *)
(* with or without a word.                                                 *)
Delivers(answer, text) == [answer EXCEPT !.text = text]
Breaks == <<Failed("down")>> \o Ends
BreaksLate == <<Delivers(Failed("cut"), "part")>> \o Ends
NamesATool(text) == <<Delivers(Says("tool"), text)>> \o Ends
Streamed(w) == [w EXCEPT !.streams = TRUE]

MCWorks ==
  {Work(Both("a", asks), Both(x, y), "recorded", mode) :
     asks \in {"a", "b"}, x \in {CallsATool, TriesAgain, GivesUp}, y \in {Ends, CallsATool}, mode \in {"strict", "lenient"}}
  \cup {Work(Both("a", "b"), Both(CallsATool, CallsATool), "other", mode) : mode \in {"strict", "lenient"}}
  \cup {Work(Both("a", "final"), Both(x, << >>), "recorded", mode) :
          x \in {CallsATool, TriesAgain, Reasons}, mode \in {"strict", "lenient"}}
  \cup {Streamed(Work(Both("a", asks), Both(x, Ends), "recorded", mode)) :
          asks \in {"a", "final"}, x \in {Breaks, BreaksLate, NamesATool("said"), NamesATool("")}, mode \in {"strict", "lenient"}}

Asked(messages) == [with |-> "recorded", messages |-> messages]

MCFixtures ==
  {[version |-> v, calls |-> <<[request |-> Asked(<<Says("a")>>), response |-> r],
                              [request |-> Asked(<<Says("a")>>), response |-> Says("final")]>>] :
     v \in {0, 1}, r \in {Failed("nil response")}}

-----------------------------------------------------------------------------
(* Three cases whose ids are not in the order of the dataset, and replies  *)
(* of up to three tokens.                                                  *)
MCID == <<2, 3, 1>>
MCScorers == <<"compare", "judge">>
MCThresholds == {Unset, 60, 101}

Token ==
  [form : {"outof", "number"}, n : {60, 300}] \cup [form : {"word", "ALLOW", "BLOCK", "NOT"}, n : {0}]

MCReply == SeqOf(Token, 2)

MCInit ==
  /\ part \in {"recording", "evaluation", "judges"}
  /\ reply \in IF part = "judges" THEN Reply ELSE {<< >>}
  /\ RecordingInit /\ (part = "recording" \/ work = CHOOSE w \in Works : TRUE)
  /\ EvalInit /\ (part = "evaluation" \/ minPass = Unset)

Records == part = "recording" /\ RecordingNext /\ UNCHANGED <<part, reply, evalVars>>
Evaluates(A) == part = "evaluation" /\ A /\ UNCHANGED <<part, reply, recordingVars>>

MCNext == Records \/ Evaluates(EvalNext)

(* The producer and every worker run on; subjects and scorers return.      *)
WorkerRuns(w) == HandOut(w) \/ EvalOne(w) \/ CallSubject(w) \/ CallScorer(w) \/ EndCase(w)

MCSpec ==
  /\ MCInit /\ [][MCNext]_evalsVars
  /\ WF_evalsVars(Evaluates(Tally))
  /\ \A w \in Worker : WF_evalsVars(Evaluates(WorkerRuns(w)))

-----------------------------------------------------------------------------
(* See Told, ReadSafely of Evaluation. *)
EvaluationReports == part = "evaluation" ~> (report # NotRun /\ Told)
JudgesAreReadSafely == ReadSafely(reply)

=============================================================================
