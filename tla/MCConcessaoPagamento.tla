------------------------ MODULE MCConcessaoPagamento ------------------------
(* Instances of ConcessaoPagamento for TLC. *)
EXTENDS ConcessaoPagamento, TLC

\* The requests are interchangeable.
Simetria == Permutations(Reqs)

=============================================================================
