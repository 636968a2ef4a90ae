------------------------ MODULE WorkflowSolicitacao ------------------------
(***************************************************************************)
(* Life cycle of one solicitacao as the HTTP requests that touch it and    *)
(* the event listeners they set off interleave: WorkflowSolicitacaoService,*)
(* the older SolicitacaoService endpoints, PrazoSolicitacaoService,        *)
(* PendenciaService and SolicitacaoEventListener of modules/solicitacao.   *)
(*                                                                         *)
(* A request is a sequence of awaits; each await that touches the database *)
(* is one action here, and any other request may run between two of them.  *)
(* A database transaction is one action, except resolverPendencia, whose   *)
(* count and commit are apart: under READ COMMITTED others commit between. *)
(*                                                                         *)
(* The history rows are written and never read back by these services, so  *)
(* they are left out, with the awaits that write them and nothing else.    *)
(***************************************************************************)
EXTENDS Integers, FiniteSets

CONSTANTS
    Reqs,        \* requests and listeners running at once (slots, reused)
    Pendencias,  \* identifiers of the pendencias that can be created
    Operacoes,   \* the endpoints the clients call
    Inicio,      \* rows the solicitacao may be when we begin to look
    MaxVersao,   \* bound: no request starts once the row has this version
    MaxEventos,  \* bound: events waiting for their listener, others are lost
    Nada         \* no pendencia

-----------------------------------------------------------------------------
(* Data                                                                    *)

Status == {"RASCUNHO", "ABERTA", "PENDENTE", "EM_ANALISE",
           "APROVADA", "INDEFERIDA", "CANCELADA"}

Finais == {"APROVADA", "INDEFERIDA", "CANCELADA"}

TRANSICOES_PERMITIDAS ==
    {<<"RASCUNHO", "ABERTA">>, <<"RASCUNHO", "CANCELADA">>,
     <<"ABERTA", "PENDENTE">>, <<"ABERTA", "EM_ANALISE">>,
     <<"ABERTA", "CANCELADA">>,
     <<"PENDENTE", "EM_ANALISE">>, <<"PENDENTE", "CANCELADA">>,
     <<"EM_ANALISE", "APROVADA">>, <<"EM_ANALISE", "INDEFERIDA">>,
     <<"EM_ANALISE", "PENDENTE">>, <<"EM_ANALISE", "CANCELADA">>}

isTransicaoValida(de, para) == <<de, para>> \in TRANSICOES_PERMITIDAS

\* The columns of the row the properties tell apart: prazo says whether
\* prazo_analise is set, aprovador whether aprovador_id is.
Linha == [status: Status, versao: Nat, prazo: BOOLEAN,
          aprovador: BOOLEAN, removida: BOOLEAN]

\* Endpoints of SolicitacaoService that check a status, then write another
\* one with no condition on the row: from which statuses, and to which.
Diretos == [submeter        |-> [de |-> {"RASCUNHO"}, para |-> "ABERTA"],
            avaliarAprova   |-> [de |-> {"ABERTA", "EM_ANALISE", "PENDENTE"},
                                 para |-> "APROVADA"],
            avaliarRejeita  |-> [de |-> {"ABERTA", "EM_ANALISE", "PENDENTE"},
                                 para |-> "PENDENTE"],
            cancelarDireto  |-> [de |-> {"RASCUNHO", "ABERTA", "EM_ANALISE",
                                         "PENDENTE"}, para |-> "CANCELADA"]]

Pcs == {"livre", "rt_gravar", "prazo_ler", "prazo_gravar",
        "apr_gravar", "apr_ler", "conc_ler", "conc_criar",
        "as_gravar", "dir_gravar", "rem_gravar",
        "cp_gravar", "rp_contar", "rp_commit",
        "kp_gravar", "kp_contar", "kp_ler", "kp_gravar_sol"}

\* Where a request holds a copy of the row it read at an earlier await.
ComCopia == {"rt_gravar", "prazo_gravar", "cp_gravar", "kp_gravar_sol"}

CopiaVazia == [status |-> "RASCUNHO", versao |-> 0, prazo |-> FALSE,
               aprovador |-> FALSE, removida |-> FALSE]

\* concede: the request is an aprovarSolicitacao, which ends by creating the
\* concessao. avisa: it is a rejeitarSolicitacao or cancelarSolicitacao, which
\* ends by emitting STATUS_CHANGED once more. sanadas: resolverPendencia
\* counted no other open pendencia.
Ocioso == [pc |-> "livre", alvo |-> "RASCUNHO", concede |-> FALSE,
           avisa |-> FALSE, pend |-> Nada, copia |-> CopiaVazia,
           sanadas |-> FALSE]

Requisicao == [pc: Pcs, alvo: Status, concede: BOOLEAN, avisa: BOOLEAN,
               pend: Pendencias \cup {Nada}, copia: Linha, sanadas: BOOLEAN]

\* Events emitted whose listener has not begun: CREATED and STATUS_CHANGED.
Eventos == [criada: 0..1, mudou: 0..MaxEventos]

ASSUME InicioAssumption ==
    \A l \in Inicio : /\ l \in Linha
                      /\ l.status \notin Finais
                      /\ l.versao > 0
                      /\ ~l.removida
ASSUME MaxVersaoAssumption == MaxVersao \in Nat
ASSUME MaxEventosAssumption == MaxEventos \in Nat
ASSUME NadaAssumption == Nada \notin Pendencias

VARIABLES
    sol,         \* the row of the solicitacao
    pend,        \* its pendencias: resolved and cancelled ones are "encerrada"
    concessoes,  \* how many concessoes were created for it
    req,         \* what each request is doing, and the copy it holds
    eventos,     \* how many events of each kind wait for their listener
    regrediu,    \* observer: the version column went back at some write
    deixouFinal, \* observer: the status left a final one at some write
    cruzadas     \* observer: resolutions that counted a pendencia since closed

vars == <<sol, pend, concessoes, req, eventos, regrediu, deixouFinal, cruzadas>>

Init ==
    /\ sol \in Inicio
    /\ pend = [p \in Pendencias |-> "inexistente"]
    /\ concessoes = 0
    /\ req = [r \in Reqs |-> Ocioso]
    /\ \E n \in 0..1 : /\ n = 1 => sol.status = "RASCUNHO"
                      /\ eventos = [criada |-> n, mudou |-> 0]
    /\ regrediu = FALSE
    /\ deixouFinal = FALSE
    /\ cruzadas = {}

-----------------------------------------------------------------------------
(* Steps of a request                                                      *)

\* A request comes in and finds the row (a removed one is not found).
Chega(r, op) ==
    /\ req[r].pc = "livre"
    /\ op \in Operacoes
    /\ sol.versao < MaxVersao
    /\ ~sol.removida

Em(r, pc) == req[r].pc = pc

Passa(r, pc) == req' = [req EXCEPT ![r].pc = pc]

Termina(r) == req' = [req EXCEPT ![r] = Ocioso]

\* Mutant of Atualiza: an update that goes round the version column.
AtualizaSemVersao(linha) == sol' = linha

\* repository.update(id, columns): no condition on the row, version + 1.
Atualiza(linha) == sol' = [linha EXCEPT !.versao = @ + 1]

\* Mutant of Salva: the version is incremented in the database, as update does.
SalvaIncrementando(copia, nova, muda) ==
    sol' = IF nova = sol /\ ~muda
           THEN sol
           ELSE [nova EXCEPT !.versao = sol.versao + 1]

\* repository.save(entity) of an entity loaded as copia and changed to nova:
\* every column that differs from the row is written, the version column
\* too; it is incremented only when the copy still has the row's version.
\* With muda the new value differs from the row whatever the row holds.
Salva(copia, nova, muda) ==
    sol' = IF nova = sol /\ ~muda
           THEN sol
           ELSE [nova EXCEPT !.versao = IF copia.versao = sol.versao
                                        THEN copia.versao + 1
                                        ELSE copia.versao]

\* eventEmitter.emit(STATUS_CHANGED): the listener runs on its own. One whose
\* first query fails does nothing, as one beyond the bound.
Emitir == eventos' = [eventos EXCEPT !.mudou = IF @ < MaxEventos THEN @ + 1
                                                               ELSE @]

\* Mutant of Encerra: the approval goes on with the entity of the deadlines.
EncerraComCopia(r) ==
    \/ /\ req[r].concede
       /\ req' = [req EXCEPT ![r].pc = "conc_ler"]
       /\ UNCHANGED eventos
    \/ /\ ~req[r].concede
       /\ Termina(r)
       /\ IF req[r].avisa THEN Emitir ELSE UNCHANGED eventos

\* What follows the update of the deadlines.
Encerra(r) ==
    \/ /\ req[r].concede
       /\ req' = [req EXCEPT ![r].pc = "conc_ler", ![r].copia = CopiaVazia]
       /\ UNCHANGED eventos
    \/ /\ ~req[r].concede
       /\ Termina(r)
       /\ IF req[r].avisa THEN Emitir ELSE UNCHANGED eventos

-----------------------------------------------------------------------------
(* realizarTransicao, and the endpoints that end in it                     *)

\* enviarParaAnalise, iniciarAnalise, rejeitarSolicitacao, cancelarSolicitacao
\* and the generic endpoint: findOne, then the check of the transition.
IniciarTransicao(r) ==
    /\ Chega(r, "transicao")
    /\ \E alvo \in Status, avisa \in BOOLEAN :
         /\ isTransicaoValida(sol.status, alvo)
         /\ avisa => alvo \in {"INDEFERIDA", "CANCELADA"}
         /\ req' = [req EXCEPT ![r] =
                      [Ocioso EXCEPT !.pc = "rt_gravar", !.alvo = alvo,
                                     !.avisa = avisa, !.copia = sol]]
    /\ UNCHANGED <<sol, pend, concessoes, eventos>>

\* Mutant of IniciarAprovacao: the opinion is not written first.
IniciarAprovacaoSemParecer(r) ==
    /\ Chega(r, "aprovar")
    /\ req' = [req EXCEPT ![r] = [Ocioso EXCEPT !.pc = "apr_ler",
                                                !.concede = TRUE,
                                                !.alvo = "APROVADA"]]
    /\ UNCHANGED <<sol, pend, concessoes, eventos>>

\* aprovarSolicitacao: finds the solicitacao whatever its status.
IniciarAprovacao(r) ==
    /\ Chega(r, "aprovar")
    /\ req' = [req EXCEPT ![r] = [Ocioso EXCEPT !.pc = "apr_gravar",
                                                !.concede = TRUE,
                                                !.alvo = "APROVADA"]]
    /\ UNCHANGED <<sol, pend, concessoes, eventos>>

\* The opinion, the date and the approver are written before the transition.
GravarParecer(r) ==
    /\ Em(r, "apr_gravar")
    /\ Atualiza([sol EXCEPT !.aprovador = TRUE])
    /\ Passa(r, "apr_ler")
    /\ UNCHANGED <<pend, concessoes, eventos>>

\* Mutant of LerAprovacao: the transition is not checked.
LerAprovacaoSemVerificar(r) ==
    /\ Em(r, "apr_ler")
    /\ IF ~sol.removida
       THEN req' = [req EXCEPT ![r].pc = "rt_gravar", ![r].copia = sol]
       ELSE Termina(r)
    /\ UNCHANGED <<sol, pend, concessoes, eventos>>

\* realizarTransicao(APROVADA) reads the row again and checks it.
LerAprovacao(r) ==
    /\ Em(r, "apr_ler")
    /\ IF ~sol.removida /\ isTransicaoValida(sol.status, "APROVADA")
       THEN req' = [req EXCEPT ![r].pc = "rt_gravar", ![r].copia = sol]
       ELSE Termina(r)
    /\ UNCHANGED <<sol, pend, concessoes, eventos>>

ComPrazo == {"EM_ANALISE"} \cup Finais

\* Mutant of GravarTransicao: UPDATE ... WHERE id = :id.
GravarTransicaoSemVersao(r) ==
    /\ Em(r, "rt_gravar")
    /\ ~sol.removida
    /\ Atualiza([sol EXCEPT !.status = req[r].alvo])
    /\ IF req[r].alvo \in ComPrazo
       THEN req' = [req EXCEPT ![r].pc = "prazo_ler",
                               ![r].copia = CopiaVazia]
       ELSE Termina(r)
    /\ Emitir
    /\ UNCHANGED <<pend, concessoes>>

\* UPDATE ... WHERE version = :version, the history row, the re-read, COMMIT,
\* then the event.
GravarTransicao(r) ==
    /\ Em(r, "rt_gravar")
    /\ req[r].copia.versao = sol.versao
    /\ ~sol.removida
    /\ Atualiza([sol EXCEPT !.status = req[r].alvo])
    /\ IF req[r].alvo \in ComPrazo
       THEN req' = [req EXCEPT ![r].pc = "prazo_ler",
                               ![r].copia = CopiaVazia]
       ELSE Termina(r)
    /\ Emitir
    /\ UNCHANGED <<pend, concessoes>>

\* No row was affected, or the re-read fails: the transaction rolls back.
PerderTransicao(r) ==
    /\ Em(r, "rt_gravar")
    /\ req[r].copia.versao # sol.versao \/ sol.removida
    /\ Termina(r)
    /\ UNCHANGED <<sol, pend, concessoes, eventos>>

-----------------------------------------------------------------------------
(* atualizarPrazosTransicao                                                *)

\* definirPrazoAnalise or limparPrazos loads the whole entity.
LerPrazo(r) ==
    /\ Em(r, "prazo_ler")
    /\ \/ sol.removida /\ Encerra(r)
       \/ /\ ~sol.removida
          /\ req' = [req EXCEPT ![r].pc = "prazo_gravar", ![r].copia = sol]
          /\ UNCHANGED eventos
    /\ UNCHANGED <<sol, pend, concessoes>>

\* ... and saves it with prazo_analise set to a new date, or to null.
GravarPrazo(r) ==
    LET define == req[r].alvo = "EM_ANALISE"
        copia  == req[r].copia
    IN  /\ Em(r, "prazo_gravar")
        /\ Salva(copia, [copia EXCEPT !.prazo = define], define)
        /\ Encerra(r)
        /\ UNCHANGED <<pend, concessoes>>

\* An error there is logged and the request goes on.
FalharPrazo(r) ==
    /\ req[r].pc \in {"prazo_ler", "prazo_gravar"}
    /\ Encerra(r)
    /\ UNCHANGED <<sol, pend, concessoes>>

-----------------------------------------------------------------------------
(* criarSeNaoExistir, called by aprovarSolicitacao                         *)

LerConcessao(r) ==
    /\ Em(r, "conc_ler")
    /\ \/ concessoes > 0 /\ Termina(r) /\ Emitir
       \/ concessoes = 0 /\ Passa(r, "conc_criar") /\ UNCHANGED eventos
    /\ UNCHANGED <<sol, pend, concessoes>>

\* The migrations create no unique index on concessao.solicitacao_id.
CriarConcessao(r) ==
    /\ Em(r, "conc_criar")
    /\ concessoes' = concessoes + 1
    /\ Termina(r)
    /\ Emitir
    /\ UNCHANGED <<sol, pend>>

\* An error there is logged, and the approval succeeds.
FalharConcessao(r) ==
    /\ req[r].pc \in {"conc_ler", "conc_criar"}
    /\ Termina(r)
    /\ Emitir
    /\ UNCHANGED <<sol, pend, concessoes>>

-----------------------------------------------------------------------------
(* atualizarStatus: no version, no transaction, deadlines in a finally     *)

\* The deadlines are updated, after a success or after an error.
Finalmente(r, alvo) ==
    req' = [req EXCEPT ![r] =
              IF alvo \in ComPrazo
              THEN [Ocioso EXCEPT !.pc = "prazo_ler", !.alvo = alvo]
              ELSE Ocioso]

IniciarAtualizarStatus(r) ==
    /\ Chega(r, "atualizarStatus")
    /\ \E alvo \in Status :
         IF isTransicaoValida(sol.status, alvo)
         THEN req' = [req EXCEPT ![r] = [Ocioso EXCEPT !.pc = "as_gravar",
                                                       !.alvo = alvo]]
         ELSE Finalmente(r, alvo)
    /\ UNCHANGED <<sol, pend, concessoes, eventos>>

GravarStatus(r) ==
    /\ Em(r, "as_gravar")
    /\ Atualiza([sol EXCEPT !.status = req[r].alvo])
    /\ Finalmente(r, req[r].alvo)
    /\ UNCHANGED <<pend, concessoes, eventos>>

ErroAtualizarStatus(r) ==
    /\ Em(r, "as_gravar")
    /\ Finalmente(r, req[r].alvo)
    /\ UNCHANGED <<sol, pend, concessoes, eventos>>

-----------------------------------------------------------------------------
(* SolicitacaoEventListener                                                *)

\* handleSolicitacaoCreatedEvent: definirPrazoAnalise whatever the status.
OuvirCriacao(r) ==
    /\ Em(r, "livre")
    /\ eventos.criada > 0
    /\ eventos' = [eventos EXCEPT !.criada = @ - 1]
    /\ Finalmente(r, "EM_ANALISE") \/ Termina(r)
    /\ UNCHANGED <<sol, pend, concessoes>>

\* handleStatusChangedEvent: atualizarPrazosTransicao of the status it finds,
\* which may be later than the event's.
OuvirMudanca(r) ==
    /\ Em(r, "livre")
    /\ eventos.mudou > 0
    /\ eventos' = [eventos EXCEPT !.mudou = @ - 1]
    /\ Finalmente(r, sol.status) \/ Termina(r)
    /\ UNCHANGED <<sol, pend, concessoes>>

-----------------------------------------------------------------------------
(* submeterSolicitacao, avaliarSolicitacao, cancelarSolicitacao, update and *)
(* removerSolicitacao of SolicitacaoService                                 *)

IniciarDireto(r) ==
    /\ \E op \in DOMAIN Diretos :
         /\ Chega(r, op)
         /\ sol.status \in Diretos[op].de
         /\ req' = [req EXCEPT ![r] =
                      [Ocioso EXCEPT !.pc = "dir_gravar",
                                     !.alvo = Diretos[op].para]]
    /\ UNCHANGED <<sol, pend, concessoes, eventos>>

\* One transaction: the update by id, whatever the status is by then.
GravarDireto(r) ==
    /\ Em(r, "dir_gravar")
    /\ Atualiza([sol EXCEPT !.status = req[r].alvo])
    /\ Termina(r)
    /\ UNCHANGED <<pend, concessoes, eventos>>

\* update() and the vincular/desvincular endpoints write other columns.
Editar(r) ==
    /\ Chega(r, "editar")
    /\ Atualiza(sol)
    /\ UNCHANGED <<pend, concessoes, eventos, req>>

IniciarRemocao(r) ==
    /\ Chega(r, "remover")
    /\ sol.status \in {"RASCUNHO", "ABERTA"}
    /\ req' = [req EXCEPT ![r] = [Ocioso EXCEPT !.pc = "rem_gravar"]]
    /\ UNCHANGED <<sol, pend, concessoes, eventos>>

GravarRemocao(r) ==
    /\ Em(r, "rem_gravar")
    /\ Atualiza([sol EXCEPT !.removida = TRUE])
    /\ Termina(r)
    /\ UNCHANGED <<pend, concessoes, eventos>>

-----------------------------------------------------------------------------
(* PendenciaService                                                        *)

Abertas == {p \in Pendencias : pend[p] = "aberta"}

\* resolverPendencia holds the lock of the pendencia's row until it commits.
Travada(p) == \E r \in Reqs : Em(r, "rp_commit") /\ req[r].pend = p

IniciarPendencia(r) ==
    /\ Chega(r, "criarPendencia")
    /\ sol.status \in {"EM_ANALISE", "PENDENTE"}
    /\ \E p \in Pendencias :
         /\ pend[p] = "inexistente"
         /\ \A q \in Reqs : req[q].pend # p
         /\ req' = [req EXCEPT ![r] =
                      [Ocioso EXCEPT !.pc = "cp_gravar", !.pend = p,
                                     !.copia = sol]]
    /\ UNCHANGED <<sol, pend, concessoes, eventos>>

\* COMMIT of criarPendencia: the pendencia, and the save of the row unless the
\* copy was PENDENTE already.
GravarPendencia(r) ==
    LET copia == req[r].copia
    IN  /\ Em(r, "cp_gravar")
        /\ pend' = [pend EXCEPT ![req[r].pend] = "aberta"]
        /\ IF copia.status = "PENDENTE"
           THEN sol' = sol
           ELSE Salva(copia, [copia EXCEPT !.status = "PENDENTE"], FALSE)
        /\ Termina(r)
        /\ UNCHANGED <<concessoes, eventos>>

\* resolverPendencia and cancelarPendencia load an open pendencia.
IniciarBaixa(r) ==
    /\ \E op \in {"resolverPendencia", "cancelarPendencia"} :
         /\ req[r].pc = "livre"
         /\ op \in Operacoes
         /\ sol.versao < MaxVersao
         /\ \E p \in Abertas :
              req' = [req EXCEPT ![r] =
                        [Ocioso EXCEPT !.pc = IF op = "resolverPendencia"
                                              THEN "rp_contar"
                                              ELSE "kp_gravar",
                                       !.pend = p]]
    /\ UNCHANGED <<sol, pend, concessoes, eventos>>

\* Mutant of ContarResolucao: the count does not see the save before it.
ContarResolucaoComPropria(r) ==
    /\ Em(r, "rp_contar")
    /\ ~Travada(req[r].pend)
    /\ req' = [req EXCEPT ![r].pc = "rp_commit", ![r].sanadas = Abertas = {}]
    /\ UNCHANGED <<sol, pend, concessoes, eventos>>

\* Inside the transaction: save of the pendencia (not yet visible to others)
\* and count of the open ones, as committed so far.
ContarResolucao(r) ==
    /\ Em(r, "rp_contar")
    /\ ~Travada(req[r].pend)
    /\ req' = [req EXCEPT ![r].pc = "rp_commit",
                          ![r].sanadas = Abertas \subseteq {req[r].pend}]
    /\ UNCHANGED <<sol, pend, concessoes, eventos>>

\* SELECT ... FOR UPDATE of the solicitacao when none is left, the save under
\* that lock, COMMIT.
ConcluirResolucao(r) ==
    LET reabre == req[r].sanadas /\ ~sol.removida /\ sol.status = "PENDENTE"
    IN  /\ Em(r, "rp_commit")
        /\ pend' = [pend EXCEPT ![req[r].pend] = "encerrada"]
        /\ IF reabre
           THEN Atualiza([sol EXCEPT !.status = "EM_ANALISE"])
           ELSE sol' = sol
        /\ Termina(r)
        /\ UNCHANGED <<concessoes, eventos>>

\* cancelarPendencia runs in no transaction.
CancelarPendencia(r) ==
    /\ Em(r, "kp_gravar")
    /\ ~Travada(req[r].pend)
    /\ pend' = [pend EXCEPT ![req[r].pend] = "encerrada"]
    /\ Passa(r, "kp_contar")
    /\ UNCHANGED <<sol, concessoes, eventos>>

ContarCancelamento(r) ==
    /\ Em(r, "kp_contar")
    /\ IF Abertas = {} THEN Passa(r, "kp_ler") ELSE Termina(r)
    /\ UNCHANGED <<sol, pend, concessoes, eventos>>

LerCancelamento(r) ==
    /\ Em(r, "kp_ler")
    /\ IF sol.removida
       THEN Termina(r)
       ELSE req' = [req EXCEPT ![r].pc = "kp_gravar_sol", ![r].copia = sol]
    /\ UNCHANGED <<sol, pend, concessoes, eventos>>

\* Whatever the status was, it becomes EM_ANALISE.
ReabrirCancelamento(r) ==
    LET copia == req[r].copia
    IN  /\ Em(r, "kp_gravar_sol")
        /\ Salva(copia, [copia EXCEPT !.status = "EM_ANALISE"], FALSE)
        /\ Termina(r)
        /\ UNCHANGED <<pend, concessoes, eventos>>

-----------------------------------------------------------------------------
(* The whole                                                               *)

\* The process stops, or a call of the request throws: what it committed
\* stays, what it did not is rolled back, and nothing more is done.
Falhar(r) ==
    /\ req[r].pc # "livre"
    /\ Termina(r)
    /\ UNCHANGED <<sol, pend, concessoes, eventos>>

Iniciar(r) ==
    \/ IniciarTransicao(r)
    \/ IniciarAprovacao(r)
    \/ IniciarAtualizarStatus(r)
    \/ IniciarDireto(r)
    \/ Editar(r)
    \/ IniciarRemocao(r)
    \/ IniciarPendencia(r)
    \/ IniciarBaixa(r)
    \/ OuvirCriacao(r)
    \/ OuvirMudanca(r)

Continuar(r) ==
    \/ GravarParecer(r)
    \/ LerAprovacao(r)
    \/ GravarTransicao(r)
    \/ PerderTransicao(r)
    \/ LerPrazo(r)
    \/ GravarPrazo(r)
    \/ LerConcessao(r)
    \/ CriarConcessao(r)
    \/ GravarStatus(r)
    \/ GravarDireto(r)
    \/ GravarRemocao(r)
    \/ GravarPendencia(r)
    \/ ContarResolucao(r)
    \/ ConcluirResolucao(r)
    \/ CancelarPendencia(r)
    \/ ContarCancelamento(r)
    \/ LerCancelamento(r)
    \/ ReabrirCancelamento(r)

Errar(r) ==
    \/ FalharPrazo(r)
    \/ FalharConcessao(r)
    \/ ErroAtualizarStatus(r)
    \/ Falhar(r)

\* r has counted, and another pendencia is closed in this step.
Cruza(r) ==
    /\ Em(r, "rp_commit")
    /\ \E p \in Abertas \ {req[r].pend} : pend'[p] # "aberta"

\* The observers follow every write of the row and of the pendencias.
Observar ==
    /\ regrediu' = (regrediu \/ sol'.versao < sol.versao)
    /\ deixouFinal' = (deixouFinal \/ (/\ sol.status \in Finais
                                       /\ sol'.status # sol.status))
    /\ cruzadas' = {r \in Reqs : /\ req'[r].pc = "rp_commit"
                                 /\ r \in cruzadas \/ Cruza(r)}

Next == \E r \in Reqs : (Iniciar(r) \/ Continuar(r) \/ Errar(r)) /\ Observar

Spec == Init /\ [][Next]_vars

-----------------------------------------------------------------------------
(* Properties                                                              *)

\* A copy is held only between the read and the write it is for, a transition
\* was checked on the copy, a pendencia is held by its own operations, and only
\* an approval goes on to the concessao.
ReqCoerente(q) ==
    /\ q.copia # CopiaVazia => q.pc \in ComCopia
    /\ q.pc = "rt_gravar" => isTransicaoValida(q.copia.status, q.alvo)
    /\ q.pc \in {"cp_gravar", "rp_contar", "rp_commit", "kp_gravar"}
         => q.pend \in Pendencias
    /\ q.pc \in {"apr_gravar", "apr_ler", "conc_ler", "conc_criar"}
         => q.concede
    /\ q.concede => q.alvo = "APROVADA"

\* Every value is one the code can store, and every request is coherent: none
\* carries to a later await a copy it should have dropped.
TypeOK ==
    /\ sol \in Linha
    /\ pend \in [Pendencias -> {"inexistente", "aberta", "encerrada"}]
    /\ concessoes \in Nat
    /\ req \in [Reqs -> Requisicao]
    /\ \A r \in Reqs : ReqCoerente(req[r])
    /\ eventos \in Eventos
    /\ regrediu \in BOOLEAN
    /\ deixouFinal \in BOOLEAN
    /\ cruzadas \in SUBSET Reqs

\* What the optimistic check of realizarTransicao relies on: as long as the
\* version column never went back, it identifies the contents of the row, so
\* that a copy with the row's version is the row.
VersaoIdentificaCopia ==
    ~regrediu =>
      \A r \in Reqs :
        /\ req[r].copia.versao <= sol.versao
        /\ req[r].copia.versao = sol.versao => req[r].copia = sol

\* Approvals that are committed and have not yet reached the concessao.
Aprovadas ==
    {r \in Reqs : /\ req[r].concede
                  /\ req[r].pc \in {"prazo_ler", "prazo_gravar",
                                    "conc_ler", "conc_criar"}}

\* One approval, one concessao: although criarSeNaoExistir checks and inserts
\* in two steps, a second concessao, or one of a solicitacao that is not
\* approved, needs a version that went back or a final status that was left.
ConcessaoCoerente ==
    ~regrediu /\ ~deixouFinal =>
      /\ concessoes <= 1
      /\ concessoes = 1 => sol.status = "APROVADA"
      /\ Aprovadas # {} => sol.status = "APROVADA"
      /\ \A r \in Aprovadas : req[r].pc = "conc_criar" => concessoes = 0
      /\ \A r, q \in Aprovadas : r = q

\* A transition that realizarTransicao commits is one of the table from the
\* status the row had at the commit, not only from the one it read, and never
\* leaves a final status: however the requests interleave, unless the version
\* column had gone back.
TransicaoVersionada ==
    [][\A r \in Reqs :
         Em(r, "rt_gravar") /\ req'[r] # req[r] /\ sol' # sol /\ ~regrediu
           => /\ isTransicaoValida(sol.status, sol'.status)
              /\ sol.status \notin Finais]_vars

\* aprovarSolicitacao commits an approval only of a row that has an approver,
\* although the opinion and the status are written by two separate updates.
AprovacaoComParecer ==
    [][\A r \in Reqs :
         (/\ Em(r, "rt_gravar") /\ req[r].concede /\ req'[r] # req[r]
          /\ sol' # sol /\ ~regrediu)
           => sol'.status = "APROVADA" /\ sol'.aprovador]_vars

\* The saves of whole entities (deadlines, creation and cancellation of a
\* pendencia) overwrite the columns another request changed only when they
\* also take the version back.
PerdaSoComRegressao ==
    [][\A r \in Reqs :
         req'[r] # req[r] /\ ~regrediu' =>
           /\ Em(r, "prazo_gravar") =>
                sol' = [sol EXCEPT !.prazo = sol'.prazo,
                                   !.versao = sol'.versao]
           /\ req[r].pc \in {"cp_gravar", "kp_gravar_sol"} =>
                sol' = [sol EXCEPT !.status = sol'.status,
                                   !.versao = sol'.versao]]_vars

\* The comment of the version column: it detects and prevents concurrent
\* updates, being incremented at every update.
VersaoNuncaRegride == ~regrediu

\* A resolution that leaves no pendencia open takes the solicitacao out of
\* PENDENTE (the comment of resolverPendencia: back to EM_ANALISE once all are
\* resolved), whatever the requests around it save, remove or open, unless
\* another pendencia it had counted was closed before it committed.
UltimaResolucaoReabre ==
    [][\A r \in Reqs \ cruzadas :
         (/\ Em(r, "rp_commit") /\ req'[r] # req[r]
          /\ pend' # pend /\ \A p \in Pendencias : pend'[p] # "aberta")
           => sol'.removida \/ sol'.status # "PENDENTE"]_vars

=============================================================================
