----------------------- MODULE MCWorkflowSolicitacao -----------------------
(***************************************************************************)
(* Model values and symmetry for the runs of WorkflowSolicitacao.          *)
(***************************************************************************)
EXTENDS WorkflowSolicitacao, TLC

Simetria == Permutations(Reqs) \cup Permutations(Pendencias)

Linha0(status, versao, prazo) ==
    [status |-> status, versao |-> versao, prazo |-> prazo,
     aprovador |-> FALSE, removida |-> FALSE]

\* A solicitacao that was submitted.
Submetida == {Linha0("ABERTA", 2, FALSE)}

\* A draft that was edited, and a solicitacao that was submitted and sent to
\* analysis, whose deadline is set.
RascunhoOuAnalise ==
    {Linha0("RASCUNHO", 5, FALSE), Linha0("EM_ANALISE", 4, TRUE)}

=============================================================================
