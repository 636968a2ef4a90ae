---------------------------- MODULE FilaLimitada ----------------------------
(***************************************************************************)
(* What a queue of jobs in the memory of a process promises: an item that  *)
(* is accepted stays until a job for it ends, whatever fails in between,   *)
(* unless the process stops; no more than Limite items are in progress,    *)
(* each by one job; and each is tried at most MaxTentativas times. In      *)
(* which order they start, and what a job does, is the business of         *)
(* FilaMiniaturas.                                                         *)
(***************************************************************************)
EXTENDS Naturals, FiniteSets

CONSTANTS
    Itens,          \* what may be queued
    Limite,         \* how many may be in progress at once
    MaxTentativas   \* how many times one is tried

VARIABLES
    aceitos,     \* accepted, and not finished
    andamento,   \* those of them in progress
    tentativas   \* the failed tries of each

filaVars == <<aceitos, andamento, tentativas>>

FilaInit ==
    /\ aceitos = {}
    /\ andamento = {}
    /\ tentativas = [d \in Itens |-> 0]

Aceitar(d) ==
    /\ d \notin aceitos
    /\ aceitos' = aceitos \cup {d}
    /\ UNCHANGED <<andamento, tentativas>>

Iniciar(E) ==
    /\ E \subseteq aceitos \ andamento
    /\ Cardinality(andamento \cup E) <= Limite
    /\ andamento' = andamento \cup E
    /\ UNCHANGED <<aceitos, tentativas>>

\* The job ended: well, or for the last time.
Concluir(d) ==
    /\ d \in andamento
    /\ aceitos' = aceitos \ {d}
    /\ andamento' = andamento \ {d}
    /\ tentativas' = [tentativas EXCEPT ![d] = 0]

\* The try failed and there will be another.
Adiar(d) ==
    /\ d \in andamento
    /\ tentativas[d] + 1 < MaxTentativas
    /\ tentativas' = [tentativas EXCEPT ![d] = @ + 1]
    /\ andamento' = andamento \ {d}
    /\ UNCHANGED aceitos

\* The process stops.
Cair ==
    /\ aceitos' = {}
    /\ andamento' = {}
    /\ tentativas' = [d \in Itens |-> 0]

FilaNext ==
    \/ \E d \in Itens : Aceitar(d) \/ Concluir(d) \/ Adiar(d)
    \/ \E E \in SUBSET Itens : Iniciar(E)
    \/ Cair

FilaSpec == FilaInit /\ [][FilaNext]_filaVars

=============================================================================
