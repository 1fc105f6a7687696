-------------------------- MODULE MCSubagentPipeline --------------------------
(* TLC instances of SubagentPipeline.                                      *)
EXTENDS SubagentPipeline, TLC

CONSTANTS p1, p2

OwnName == p1 :> "one" @@ p2 :> "two"

(* Two attachments named Full Text.pdf, or drafts that recommend one name. *)
SameName == p1 :> "one" @@ p2 :> "one"

=============================================================================
