----------------------------- MODULE MCQueryLog -----------------------------
(* TLC instances of QueryLog.                                              *)
EXTENDS QueryLog, TLC

CONSTANTS n1, n2

Id(text, number) == [text |-> text, number |-> number]

(* Both paths carry one log_id: the queries differ, the second and the     *)
(* short_id do not.                                                        *)
SameId == n1 :> Id("1", FALSE) @@ n2 :> Id("1", FALSE)

=============================================================================
