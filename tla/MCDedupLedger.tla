----------------------------- MODULE MCDedupLedger -----------------------------
(* TLC instances of DedupLedger.                                            *)
EXTENDS DedupLedger

CONSTANTS p1, p2

(* The digests of p1 are in another order than its paths, so its stable and *)
(* legacy hashes differ; p2 is one PDF with a parent item.                  *)
TwoGroups == p1 :> <<1, 2>> @@ p2 :> <<3>>
Digests == 1 :> 20 @@ 2 :> 10 @@ 3 :> 30

(* One of them has an old note, p1's perhaps with its lines, p2's known by   *)
(* its parent only.                                                         *)
MCInit ==
    /\ Init
    /\ note[p1] = NoNote => ledger = {}
    /\ Contents(p2) \notin ledger
    /\ note[p2] # NoNote => note[p1] = NoNote /\ note[p2].hash = NoHash

MCSpec == MCInit /\ [][Next]_vars

================================================================================
