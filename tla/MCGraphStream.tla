--------------------------- MODULE MCGraphStream ---------------------------
(***************************************************************************)
(* GraphStream for TLC: a plan node whose router ends, goes on, loops or   *)
(* fails, an act node that leads to a gated review node. A buffer of two   *)
(* events fills up while the consumer is slow.                             *)
(***************************************************************************)
EXTENDS GraphStream

CONSTANTS plan, act, review

MCGraph ==
  Runnable([nodes   |-> {plan, act, review},
            static  |-> [n \in {START, review} |-> IF n = START THEN plan ELSE END],
            routers |-> {plan, act},
            branch  |-> NoMap,
            gated   |-> {review},
            errs    |-> FALSE])

MCRouterOut ==
  [n \in {plan, act} |->
     IF n = plan THEN {plan, act, END, Empty} ELSE {plan, review, RouterPanics}]

Option(v, ck, t) == [valid |-> v, checkpointer |-> ck, timeout |-> t, maxSteps |-> 3]

MCOptions ==
  {Option(TRUE, TRUE, TRUE), Option(TRUE, TRUE, FALSE), Option(TRUE, FALSE, FALSE),
   Option(FALSE, TRUE, FALSE)}

=============================================================================
