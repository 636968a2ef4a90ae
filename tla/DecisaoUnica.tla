---------------------------- MODULE DecisaoUnica ----------------------------
(***************************************************************************)
(* What the approval of critical actions promises for every solicitacao:   *)
(* it is opened once and decided once; only an approved one has its action *)
(* run, at most once by the service and as often as clients ask for it by  *)
(* naming the approved solicitacao in a call of their own; and an approved *)
(* one is eventually closed. How the votes are cast and counted, and by    *)
(* how many concurrent requests, is the business of AprovacaoAcao.         *)
(***************************************************************************)
EXTENDS Naturals

CONSTANT Sols   \* the solicitacoes

VARIABLES
    decisao,    \* what was decided for each
    vezes,      \* how many times the service ran its action
    repetidas   \* those whose action clients' own calls are running now

abstratas == <<decisao, vezes, repetidas>>

Decisoes == {"inexistente", "aberta", "aprovada", "rejeitada", "cancelada",
             "encerrada"}

DecisaoInit ==
    /\ decisao = [s \in Sols |-> "inexistente"]
    /\ vezes = [s \in Sols |-> 0]
    /\ repetidas = {}

Passa(s, de, para) ==
    /\ decisao[s] = de
    /\ decisao' = [decisao EXCEPT ![s] = para]
    /\ UNCHANGED <<vezes, repetidas>>

Abrir(s) == Passa(s, "inexistente", "aberta")

Decidir(s) ==
    \E d \in {"aprovada", "rejeitada", "cancelada"} : Passa(s, "aberta", d)

Executar(s) ==
    /\ decisao[s] = "aprovada"
    /\ vezes[s] = 0
    /\ vezes' = [vezes EXCEPT ![s] = 1]
    /\ UNCHANGED <<decisao, repetidas>>

\* A client's call is let through; it may end after the solicitacao is closed.
Repetir(s) ==
    /\ decisao[s] = "aprovada"
    /\ repetidas' = repetidas \cup {s}
    /\ UNCHANGED <<decisao, vezes>>

\* Calls of clients end, one by one or all of them when the process stops.
Terminar ==
    /\ repetidas' \in SUBSET repetidas
    /\ UNCHANGED <<decisao, vezes>>

\* The action may also have failed: what closes the solicitacao is the end of
\* the attempt.
Encerrar(s) == Passa(s, "aprovada", "encerrada")

DecisaoNext ==
    \/ \E s \in Sols :
         Abrir(s) \/ Decidir(s) \/ Executar(s) \/ Repetir(s) \/ Encerrar(s)
    \/ Terminar

DecisaoSpec ==
    /\ DecisaoInit
    /\ [][DecisaoNext]_abstratas
    /\ \A s \in Sols : WF_abstratas(Encerrar(s))

\* What follows from it: the service runs no action twice, and an action that
\* anybody runs belongs to a solicitacao that was approved, and neither rejected
\* nor cancelled since.
ExecutadaAprovada ==
    \A s \in Sols :
      /\ vezes[s] \in {0, 1}
      /\ (vezes[s] = 1 \/ s \in repetidas)
           => decisao[s] \in {"aprovada", "encerrada"}

=============================================================================
