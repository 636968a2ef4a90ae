--------------------------- MODULE MCAprovacaoAcao ---------------------------
(* Instances of AprovacaoAcao for TLC. *)
EXTENDS AprovacaoAcao, TLC

\* The requests, the rows and the approvers are interchangeable.
Simetria == Permutations(Reqs) \cup Permutations(Sols)
              \cup Permutations(Configurados)

=============================================================================
