-------------------------- MODULE MCExecutionEngine --------------------------
(***************************************************************************)
(* Instances of ExecutionEngine: two programs, one of which makes two      *)
(* calls (one needs approval, one does not), and one that makes a gated    *)
(* call.                                                                   *)
(***************************************************************************)
EXTENDS ExecutionEngine, TLC

CONSTANTS e1, e2, c1, c2, c3

MCExecOf == (c1 :> e1) @@ (c2 :> e1) @@ (c3 :> e2)

(* A DynamicWorker may do what QuickJs may: that it does not drain allows  *)
(* it to Complete earlier, with the outcome that TimeOut has as well.      *)
OneAtATimeOrAtOnce == {DenoSubprocess, QuickJs}
OnlyQuickJs        == {QuickJs}
OnlyHosted         == {DynamicWorker}

(* Nothing tells one request from another, so it is enough to look at the  *)
(* behaviours in which those that execute e1, those that execute e2 and    *)
(* those that resume each pause have names in this order.                  *)
Rank(r) == IF joined[r] # NoExecution /\ resumes[r] = NoPause
           THEN IF joined[r] = e1 THEN 0 ELSE 1
           ELSE 2 + resumes[r]

Sorted ==
  \A q, r \in Request :
    q < r /\ request[q] # "idle" /\ request[r] # "idle" => Rank(q) <= Rank(r)
================================================================================
