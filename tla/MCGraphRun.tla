----------------------------- MODULE MCGraphRun -----------------------------
(***************************************************************************)
(* GraphRun for TLC, on the shape the examples of the repository use: a    *)
(* plan node, a gated act node and a review node whose branch map loops    *)
(* back to act or ends. plan's router returns names, so it can also return *)
(* "", an unknown name, or panic.                                          *)
(***************************************************************************)
EXTENDS GraphRun

CONSTANTS plan, act, review, again, done, old, lost

MCName == {plan, act, review, old, lost}
MCLabel == {again, done}

MCGraph ==
  Runnable([nodes   |-> {plan, act, review},
            static  |-> [n \in {START, act} |-> IF n = START THEN plan ELSE review],
            routers |-> {plan, review},
            branch  |-> [n \in {review} |->
                          [l \in {again, done} |-> IF l = again THEN act ELSE END]],
            gated   |-> {act},
            errs    |-> FALSE])

MCRouterOut ==
  [n \in {plan, review} |->
     IF n = plan THEN {act, END, lost, Empty, RouterPanics}
                 ELSE {again, done, plan}]

Option(ck, id, t, m) ==
  [checkpointer |-> ck, runID |-> id, timeout |-> t, maxSteps |-> m]

MCOptions ==
  {Option(TRUE, TRUE, TRUE, 0), Option(TRUE, TRUE, FALSE, 3),
   Option(TRUE, FALSE, FALSE, 0), Option(FALSE, FALSE, TRUE, 0)}

=============================================================================
