------------------------- MODULE MCGenerationStore -------------------------
(* TLC instances of GenerationStore.                                       *)
EXTENDS GenerationStore, TLC

Library(s, ok) == [sources |-> s, complete |-> ok, embedding |-> "e"]

TwoCopies == "a" :> "x" @@ "b" :> "x"

(* One of two copies is withdrawn while the other one is renamed.          *)
RenameAndWithdraw == <<Library(TwoCopies, TRUE), Library("c" :> "x", TRUE)>>

Unchanging == <<Library("a" :> "x", TRUE)>>

(* A source is withdrawn for another one, and the configuration changes    *)
(* the embedding model.                                                    *)
ModelChange ==
    <<Library("a" :> "x", TRUE), [Library("c" :> "y", TRUE) EXCEPT !.embedding = "f"]>>

Symmetry == Permutations(Gens)

=============================================================================
