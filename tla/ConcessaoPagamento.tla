------------------------- MODULE ConcessaoPagamento -------------------------
(***************************************************************************)
(* One concessao and its installments (parcelas), as the requests of the   *)
(* payment and benefit modules, the daily scheduler and the listener of    *)
(* PAGAMENTO_STATUS_CHANGED change them concurrently: PagamentoService,    *)
(* PagamentoWorkflowService, PagamentoBatchService, ComprovanteService,    *)
(* ConfirmacaoService, ConcessaoAutoUpdateService and ConcessaoService.    *)
(*                                                                         *)
(* Each await on the database is one action and anything may run between   *)
(* two of them; there is no transaction except in the batch update. The    *)
(* read and the save inside PagamentoRepository.update are one action: the *)
(* columns the callers give are what it writes. History rows, dates,       *)
(* notifications and cache invalidation are left out.                      *)
(***************************************************************************)
EXTENDS Integers, FiniteSets

CONSTANTS
    Reqs,         \* requests, queue jobs and scheduler runs at once (slots)
    NParcelas,    \* installments generated for the concessao
    Operacoes,    \* the operations the clients and the scheduler call
    Alvos,        \* statuses a client asks updateStatus for
    AlvosLote,    \* statuses a client asks updateStatusInBatch for
    MaxEventos,   \* bound: CONFIRMADO events being handled, emitters wait
    Falhas        \* whether queries may fail and the process may stop

ASSUME NParcelasAssumption == NParcelas \in Nat \ {0}
ASSUME MaxEventosAssumption == MaxEventos \in Nat

-----------------------------------------------------------------------------
(* Data                                                                    *)

Parcelas == 1..NParcelas

StatusPagamento == {"PENDENTE", "AGENDADO", "LIBERADO", "PAGO", "CONFIRMADO",
                    "RECEBIDO", "CANCELADO", "SUSPENSO", "VENCIDO",
                    "REGULARIZADO", "INVALIDO"}

StatusConcessao == {"APTO", "ATIVO", "SUSPENSO", "BLOQUEADO", "CESSADO",
                    "CANCELADO"}

ASSUME AlvosAssumption ==
    Alvos \subseteq StatusPagamento /\ AlvosLote \subseteq StatusPagamento

\* The table of PagamentoValidationUtil.
transicoesPermitidas ==
    [PENDENTE     |-> {"LIBERADO", "AGENDADO", "CANCELADO", "VENCIDO"},
     AGENDADO     |-> {"LIBERADO", "CANCELADO"},
     LIBERADO     |-> {"PAGO", "CONFIRMADO", "CANCELADO", "INVALIDO"},
     PAGO         |-> {"CONFIRMADO", "RECEBIDO", "VENCIDO", "INVALIDO"},
     RECEBIDO     |-> {"CONFIRMADO", "INVALIDO"},
     CONFIRMADO   |-> {},
     CANCELADO    |-> {},
     VENCIDO      |-> {"LIBERADO", "CANCELADO", "REGULARIZADO"},
     REGULARIZADO |-> {"PENDENTE", "LIBERADO"},
     SUSPENSO     |-> {"PENDENTE", "CANCELADO"},
     INVALIDO     |-> {"PENDENTE", "LIBERADO", "CANCELADO"}]

\* The table of ConcessaoService.
isValidStatusTransition(de, para) ==
    \/ de = "APTO" /\ para \in {"ATIVO", "CANCELADO", "SUSPENSO", "BLOQUEADO"}
    \/ de = "ATIVO" /\ para \in {"SUSPENSO", "BLOQUEADO", "CESSADO", "CANCELADO"}
    \/ de = "SUSPENSO" /\ para \in {"ATIVO", "BLOQUEADO", "CANCELADO"}
    \/ de = "BLOQUEADO" /\ para \in {"ATIVO", "CANCELADO"}
    \/ de = "CESSADO" /\ para = "ATIVO"

\* What each endpoint that only changes the concessao checks, and writes.
PodeMudar(op, de, para) ==
    \/ op = "mudarConcessao" /\ isValidStatusTransition(de, para)
    \/ op = "suspender" /\ de = "ATIVO" /\ para = "SUSPENSO"
    \/ op = "bloquear" /\ para = "BLOQUEADO"
    \/ op = "reativar" /\ de \in {"SUSPENSO", "CESSADO"} /\ para = "ATIVO"
    \/ op = "desbloquear" /\ de = "BLOQUEADO" /\ para = "ATIVO"

\* Mutant of Poupadas: installments already released are left as they are.
PoupadasComLiberadas == {"CANCELADO", "CONFIRMADO", "PAGO", "LIBERADO"}

\* The statuses cessarConcessao does not cancel.
Poupadas == {"CANCELADO", "CONFIRMADO", "PAGO"}

Parcela == [status: StatusPagamento, comprovante: BOOLEAN]

Pcs == {"livre", "gravar", "ativar", "salvar_ativo", "conferir", "ler_cessar",
        "salvar_cessado", "emitir", "gravar_conc", "listar", "proxima",
        "cancelar_ler", "gravar_comp", "gravar_receb", "gravar_rem",
        "gravar_conf", "regravar_conf", "conferir_todas", "cessar_todas",
        "commit"}

\* The scheduler's sweeps: what each looks for, and what it writes.
Varreduras == [agendados   |-> [de |-> "AGENDADO", para |-> "LIBERADO"],
               vencimentos |-> [de |-> "VENCIDO", para |-> "VENCIDO"]]

Ops == {"nenhuma", "atualizarStatus", "cancelar", "liberar", "agendados",
        "vencimentos", "lote", "comprovante", "remover", "confirmar", "mudarConcessao",
        "suspender", "bloquear", "reativar", "desbloquear", "cessar"}

\* alvo: the status the request will write in parcela p (for an upload, the
\* one it read). calvo: the status it will write in the concessao. fila: the
\* parcelas a loop has still to visit. aceita: the checks that
\* ConfirmacaoService makes after its first write will pass.
Requisicao == [pc: Pcs, op: Ops, p: Parcelas, alvo: StatusPagamento,
               calvo: StatusConcessao, fila: SUBSET Parcelas, aceita: BOOLEAN]

Ocioso == [pc |-> "livre", op |-> "nenhuma", p |-> 1, alvo |-> "PENDENTE",
           calvo |-> "ATIVO", fila |-> {}, aceita |-> FALSE]

VARIABLES
    concessao,   \* status of the concessao
    parcelas,    \* the rows of its installments
    req,         \* what each request is doing
    eventos,     \* CONFIRMADO events whose listener has not read yet
    cessando,    \* listeners that found every parcela confirmed
    confirmadas, \* observer: the parcelas that were ever CONFIRMADO
    semAtivar,   \* observer: parcela 1 was released, its activation skipped
    semCessar    \* observer: a cessation was skipped, cut short or undone

vars == <<concessao, parcelas, req, eventos, cessando, confirmadas, semAtivar,
          semCessar>>

\* criarSeNaoExistir and gerarPagamentosParaConcessao.
Init ==
    /\ concessao = "APTO"
    /\ parcelas = [p \in Parcelas |->
                     [status |-> "PENDENTE", comprovante |-> FALSE]]
    /\ req = [r \in Reqs |-> Ocioso]
    /\ eventos = 0
    /\ cessando = 0
    /\ confirmadas = {}
    /\ semAtivar = FALSE
    /\ semCessar = FALSE

-----------------------------------------------------------------------------
(* Steps of a request                                                      *)

Em(r, pc) == req[r].pc = pc

Chega(r, op) == Em(r, "livre") /\ op \in Operacoes

Passa(r, pc) == req' = [req EXCEPT ![r].pc = pc]

Termina(r) == req' = [req EXCEPT ![r] = Ocioso]

Comeca(r, q) == req' = [req EXCEPT ![r] = q]

Confirmada(p) == parcelas[p].status = "CONFIRMADO"

TodasConfirmadas == \A p \in Parcelas : Confirmada(p)

\* A batch holds the row locks of its parcelas until it commits.
Travada(p) == \E r \in Reqs : Em(r, "commit") /\ p \in req[r].fila

\* A write of the row of parcela p.
Grava(p, linha) ==
    /\ ~Travada(p)
    /\ parcelas' = [parcelas EXCEPT ![p] = linha]
    /\ confirmadas' = IF linha.status = "CONFIRMADO"
                      THEN confirmadas \cup {p} ELSE confirmadas

MudaStatus(p, s) == Grava(p, [parcelas[p] EXCEPT !.status = s])

SoReq == UNCHANGED <<concessao, parcelas, eventos, cessando, confirmadas,
                     semAtivar, semCessar>>

\* The operations that visit several installments, one after the other.
EmLaco == {"cessar", "agendados", "vencimentos"}

\* What follows the write of a parcela and, if any, the activation.
Apos(q) ==
    IF q.op = "atualizarStatus" /\ q.alvo = "CONFIRMADO"
    THEN [q EXCEPT !.pc = "conferir"]
    ELSE IF q.op \in EmLaco
         THEN [q EXCEPT !.pc = "proxima"]
         ELSE Ocioso

Prossegue(r) == req' = [req EXCEPT ![r] = Apos(req[r])]

\* Mutant of Ativa: the scheduler releases without activating.
AtivaSemAgendados(q) ==
    /\ q.p = 1
    /\ \/ q.op = "atualizarStatus" /\ q.alvo \in {"LIBERADO", "CONFIRMADO"}
       \/ q.op = "liberar" /\ q.alvo = "LIBERADO"

\* Mutant of Ativa: whatever the number of the installment.
AtivaQualquerParcela(q) ==
    \/ q.op = "atualizarStatus" /\ q.alvo \in {"LIBERADO", "CONFIRMADO"}
    \/ q.op \in {"liberar", "agendados"} /\ q.alvo = "LIBERADO"

\* The first installment, released or confirmed, activates the concessao.
Ativa(q) ==
    /\ q.p = 1
    /\ \/ q.op = "atualizarStatus" /\ q.alvo \in {"LIBERADO", "CONFIRMADO"}
       \/ q.op \in {"liberar", "agendados"} /\ q.alvo = "LIBERADO"

-----------------------------------------------------------------------------
(* Requests on one installment                                             *)

\* updateStatus: findPagamentoComRelacoes and validarTransicaoStatus.
IniciarStatus(r) ==
    /\ Chega(r, "atualizarStatus")
    /\ \E p \in Parcelas :
         \E s \in transicoesPermitidas[parcelas[p].status] \cap Alvos :
           Comeca(r, [Ocioso EXCEPT !.pc = "gravar", !.op = "atualizarStatus",
                                    !.p = p, !.alvo = s])
    /\ SoReq

\* cancelar, with its own test instead of the table.
IniciarCancelamento(r) ==
    /\ Chega(r, "cancelar")
    /\ \E p \in Parcelas :
         /\ parcelas[p].status \notin {"CANCELADO", "CONFIRMADO"}
         /\ Comeca(r, [Ocioso EXCEPT !.pc = "gravar", !.op = "cancelar",
                                     !.p = p, !.alvo = "CANCELADO"])
    /\ SoReq

\* liberarPagamento: verificarElegibilidadeLiberacao; a date in the future
\* schedules instead of releasing.
IniciarLiberacao(r) ==
    /\ Chega(r, "liberar")
    /\ \E p \in Parcelas, s \in {"LIBERADO", "AGENDADO"} :
         /\ parcelas[p].status \in {"PENDENTE", "AGENDADO"}
         /\ \/ concessao = "ATIVO"
            \/ concessao = "APTO" /\ p = 1
         /\ Comeca(r, [Ocioso EXCEPT !.pc = "gravar", !.op = "liberar",
                                     !.p = p, !.alvo = s])
    /\ SoReq

\* PagamentoRepository.update, then processarAtualizacaoConcessao. A client
\* that confirms with updateStatus may give the receipt.
Gravar(r) ==
    LET q == req[r] IN
    /\ Em(r, "gravar")
    /\ \E c \in BOOLEAN :
         /\ \/ c = parcelas[q.p].comprovante
            \/ q.op = "atualizarStatus" /\ q.alvo = "CONFIRMADO"
         /\ parcelas[q.p].comprovante => c
         /\ Grava(q.p, [status |-> q.alvo, comprovante |-> c])
    /\ IF Ativa(req[r]) THEN Passa(r, "ativar") ELSE Prossegue(r)
    /\ UNCHANGED <<concessao, eventos, cessando, semAtivar, semCessar>>

\* atualizarStatus(ATIVO) reads the concessao; a transition that is not
\* allowed is an error, and the caller swallows it.
LerAtivar(r) ==
    /\ Em(r, "ativar")
    /\ IF isValidStatusTransition(concessao, "ATIVO")
       THEN Passa(r, "salvar_ativo")
       ELSE Prossegue(r)
    /\ SoReq

SalvarAtivo(r) ==
    /\ Em(r, "salvar_ativo")
    /\ concessao' = "ATIVO"
    /\ semCessar' = (semCessar \/ concessao = "CESSADO")
    /\ Prossegue(r)
    /\ UNCHANGED <<parcelas, eventos, cessando, confirmadas, semAtivar>>

\* Mutant of Conferir: the last installment is enough.
ConferirSoUltima(r) ==
    /\ Em(r, "conferir")
    /\ Passa(r, IF req[r].p = NParcelas THEN "ler_cessar" ELSE "emitir")
    /\ SoReq

\* verificarFinalizacaoConcessao.
Conferir(r) ==
    LET p == req[r].p IN
    /\ Em(r, "conferir")
    /\ Passa(r, IF p = NParcelas /\ \A q \in Parcelas \ {p} : Confirmada(q)
                THEN "ler_cessar" ELSE "emitir")
    /\ SoReq

LerCessar(r) ==
    /\ Em(r, "ler_cessar")
    /\ Passa(r, IF isValidStatusTransition(concessao, "CESSADO")
                THEN "salvar_cessado" ELSE "emitir")
    /\ SoReq

SalvarCessado(r) ==
    /\ Em(r, "salvar_cessado")
    /\ concessao' = "CESSADO"
    /\ Passa(r, "emitir")
    /\ UNCHANGED <<parcelas, eventos, cessando, confirmadas,
                   semAtivar, semCessar>>

\* Mutant of Emitir: only the confirmation of the last installment is heard.
EmitirUltima(r) ==
    /\ Em(r, "emitir")
    /\ eventos + cessando < MaxEventos
    /\ eventos' = IF req[r].p = NParcelas THEN eventos + 1 ELSE eventos
    /\ Termina(r)
    /\ UNCHANGED <<concessao, parcelas, cessando, confirmadas,
                   semAtivar, semCessar>>

\* emitirEventoStatusAtualizado; the listener acts only on CONFIRMADO.
Emitir(r) ==
    /\ Em(r, "emitir")
    /\ eventos + cessando < MaxEventos
    /\ eventos' = eventos + 1
    /\ Termina(r)
    /\ UNCHANGED <<concessao, parcelas, cessando, confirmadas,
                   semAtivar, semCessar>>

-----------------------------------------------------------------------------
(* Receipts and confirmations of receipt                                   *)

\* ComprovanteService.upload reads the payment, then stores the file.
IniciarComprovante(r) ==
    /\ Chega(r, "comprovante")
    /\ \E p \in Parcelas :
         /\ parcelas[p].status # "INVALIDO"
         /\ Comeca(r, [Ocioso EXCEPT !.pc = "gravar_comp", !.p = p,
                                     !.op = "comprovante",
                                     !.alvo = parcelas[p].status])
    /\ SoReq

\* save(pagamento) of the payment as it was read: the status goes with it.
GravarComprovante(r) ==
    /\ Em(r, "gravar_comp")
    /\ Grava(req[r].p, [status |-> req[r].alvo, comprovante |-> TRUE])
    /\ IF req[r].alvo = "PAGO" THEN Passa(r, "gravar_receb") ELSE Termina(r)
    /\ semCessar' = (semCessar \/ (/\ req[r].alvo = "CONFIRMADO"
                                   /\ ~Confirmada(req[r].p)))
    /\ UNCHANGED <<concessao, eventos, cessando, semAtivar>>

GravarRecebido(r) ==
    /\ Em(r, "gravar_receb")
    /\ Grava(req[r].p, [status |-> "RECEBIDO", comprovante |-> TRUE])
    /\ Termina(r)
    /\ UNCHANGED <<concessao, eventos, cessando, semAtivar, semCessar>>

\* ComprovanteService.remove: whatever the status of the payment.
IniciarRemocao(r) ==
    /\ Chega(r, "remover")
    /\ \E p \in Parcelas :
         /\ parcelas[p].comprovante
         /\ Comeca(r, [Ocioso EXCEPT !.pc = "gravar_rem", !.op = "remover",
                                     !.p = p])
    /\ SoReq

GravarRemocao(r) ==
    /\ Em(r, "gravar_rem")
    /\ Grava(req[r].p, [status |-> "PAGO", comprovante |-> FALSE])
    /\ Termina(r)
    /\ UNCHANGED <<concessao, eventos, cessando, semAtivar, semCessar>>

\* ConfirmacaoService.create: the payment is read once, and the checks that
\* come after the first write look at this copy.
IniciarConfirmacao(r) ==
    /\ Chega(r, "confirmar")
    /\ \E p \in Parcelas :
         /\ parcelas[p].status # "INVALIDO"
         /\ Comeca(r, [Ocioso EXCEPT
              !.pc = "gravar_conf", !.op = "confirmar", !.p = p,
              !.aceita = /\ parcelas[p].comprovante
                         /\ parcelas[p].status \in
                              {"LIBERADO", "PAGO", "RECEBIDO"}])
    /\ SoReq

\* The first write; then validarParaConfirmacao may throw, and it stays.
GravarConfirmacao(r) ==
    /\ Em(r, "gravar_conf")
    /\ MudaStatus(req[r].p, "CONFIRMADO")
    /\ IF req[r].aceita THEN Passa(r, "regravar_conf") ELSE Termina(r)
    /\ semCessar' = (semCessar \/ ~req[r].aceita)
    /\ UNCHANGED <<concessao, eventos, cessando, semAtivar>>

RegravarConfirmacao(r) ==
    /\ Em(r, "regravar_conf")
    /\ MudaStatus(req[r].p, "CONFIRMADO")
    /\ Passa(r, "conferir_todas")
    /\ UNCHANGED <<concessao, eventos, cessando, semAtivar, semCessar>>

\* verificarEAtualizarConcessao ...
ConferirTodas(r) ==
    /\ Em(r, "conferir_todas")
    /\ IF TodasConfirmadas THEN Passa(r, "cessar_todas") ELSE Termina(r)
    /\ SoReq

\* ... and cessarConcessao of ConcessaoAutoUpdateService: no condition.
CessarTodas(r) ==
    /\ Em(r, "cessar_todas")
    /\ concessao' = "CESSADO"
    /\ Termina(r)
    /\ UNCHANGED <<parcelas, eventos, cessando, confirmadas,
                   semAtivar, semCessar>>

-----------------------------------------------------------------------------
(* The listener of PAGAMENTO_STATUS_CHANGED                                *)

\* verificarEAtualizarConcessao: the number of the installment is logged only.
OuvirConfirmado ==
    /\ eventos > 0
    /\ eventos' = eventos - 1
    /\ cessando' = IF TodasConfirmadas THEN cessando + 1 ELSE cessando
    /\ UNCHANGED <<concessao, parcelas, req, confirmadas, semAtivar, semCessar>>

CessarOuvinte ==
    /\ cessando > 0
    /\ cessando' = cessando - 1
    /\ concessao' = "CESSADO"
    /\ UNCHANGED <<parcelas, req, eventos, confirmadas, semAtivar, semCessar>>

-----------------------------------------------------------------------------
(* Requests on the concessao                                               *)

\* atualizarStatus, suspender, bloquear, reativar, desbloquear: findOne ...
IniciarConcessao(r) ==
    /\ \E op \in Operacoes, s \in StatusConcessao :
         /\ Chega(r, op)
         /\ PodeMudar(op, concessao, s)
         /\ Comeca(r, [Ocioso EXCEPT !.pc = "gravar_conc", !.op = op,
                                     !.calvo = s])
    /\ SoReq

\* ... then update or save, with no condition on the row.
GravarConcessao(r) ==
    /\ Em(r, "gravar_conc")
    /\ concessao' = req[r].calvo
    /\ semCessar' = (semCessar \/ (/\ concessao = "CESSADO"
                                   /\ req[r].calvo # "CESSADO"))
    /\ Termina(r)
    /\ UNCHANGED <<parcelas, eventos, cessando, confirmadas, semAtivar>>

\* cessarConcessao of ConcessaoService.
IniciarCessacao(r) ==
    /\ Chega(r, "cessar")
    /\ concessao # "CESSADO"
    /\ Comeca(r, [Ocioso EXCEPT !.pc = "listar", !.op = "cessar",
                                !.alvo = "CANCELADO", !.calvo = "CESSADO"])
    /\ SoReq

\* findByConcessao: the statuses the loop decides on are those read here.
Listar(r) ==
    /\ Em(r, "listar")
    /\ req' = [req EXCEPT ![r].pc = "proxima",
                          ![r].fila = {p \in Parcelas :
                                         parcelas[p].status \notin Poupadas}]
    /\ SoReq

\* The loops of cessarConcessao and of the sweeps, by number of installment.
Proxima(r) ==
    LET q == req[r] IN
    /\ Em(r, "proxima")
    /\ \/ /\ q.fila = {}
          /\ IF q.op = "cessar" THEN Passa(r, "gravar_conc") ELSE Termina(r)
       \/ \E p \in q.fila :
            /\ \A outra \in q.fila : p <= outra
            /\ Comeca(r, [q EXCEPT !.pc = IF q.op = "cessar"
                                          THEN "cancelar_ler" ELSE "gravar",
                                   !.p = p, !.fila = @ \ {p}])
    /\ SoReq

\* PagamentoService.cancelar reads the payment again; its refusal is logged.
LerCancelar(r) ==
    /\ Em(r, "cancelar_ler")
    /\ Passa(r, IF parcelas[req[r].p].status \in {"CANCELADO", "CONFIRMADO"}
                THEN "proxima" ELSE "gravar")
    /\ SoReq

-----------------------------------------------------------------------------
(* The scheduler and the batch update                                      *)

\* processarPagamentosAgendados, those whose date of release is today, and
\* processarVencimentosAutomaticos: the rows are selected once, then written
\* one by one whatever they have become.
IniciarVarredura(r) ==
    /\ \E op \in DOMAIN Varreduras :
         LET v == Varreduras[op] IN
         /\ Chega(r, op)
         /\ \E S \in SUBSET {p \in Parcelas : parcelas[p].status = v.de} :
              /\ S # {}
              /\ op = "agendados" \/ \A p \in Parcelas \ S :
                                        parcelas[p].status # v.de
              /\ Comeca(r, [Ocioso EXCEPT !.pc = "proxima", !.op = op,
                                          !.alvo = v.para, !.fila = S])
    /\ SoReq

\* processStatusUpdateBatch: no table, no activation, and the events are
\* emitted before the transaction commits. A deadlock of two batches, which
\* the database breaks by rolling one back, is not modelled.
IniciarLote(r) ==
    /\ Chega(r, "lote")
    /\ \E S \in SUBSET Parcelas, s \in AlvosLote :
         /\ S # {}
         /\ \A p \in S : ~Travada(p)
         /\ eventos' = IF s = "CONFIRMADO"
                       THEN eventos + Cardinality({p \in S : ~Confirmada(p)})
                       ELSE eventos
         /\ eventos' + cessando <= MaxEventos
         /\ Comeca(r, [Ocioso EXCEPT !.pc = "commit", !.op = "lote",
                                     !.alvo = s, !.fila = S])
    /\ UNCHANGED <<concessao, parcelas, cessando, confirmadas,
                   semAtivar, semCessar>>

CommitLote(r) ==
    LET q == req[r] IN
    /\ Em(r, "commit")
    /\ parcelas' = [p \in Parcelas |->
                      IF p \in q.fila THEN [parcelas[p] EXCEPT !.status = q.alvo]
                                      ELSE parcelas[p]]
    /\ confirmadas' = IF q.alvo = "CONFIRMADO"
                      THEN confirmadas \cup q.fila ELSE confirmadas
    /\ semAtivar' = (semAtivar \/ (q.alvo = "LIBERADO" /\ 1 \in q.fila))
    /\ semCessar' = (semCessar \/ q.alvo = "CONFIRMADO")
    /\ Termina(r)
    /\ UNCHANGED <<concessao, eventos, cessando>>

-----------------------------------------------------------------------------
(* Failures                                                                *)

Ativando == {r \in Reqs : req[r].pc \in {"ativar", "salvar_ativo"}}

\* q is past the write of a confirmation, and has still to check the others or
\* to tell the listener; once ConfirmacaoService has written, an error ends it.
SoConfere(q) == q.pc \in {"regravar_conf", "conferir_todas", "cessar_todas"}
Verifica(q) ==
    \/ q.pc \in {"conferir", "ler_cessar", "salvar_cessado", "emitir"}
    \/ q.pc \in {"ativar", "salvar_ativo"} /\ q.alvo = "CONFIRMADO"
    \/ SoConfere(q)

\* A confirmation is still to be followed by its check, or by its cessation.
Verificando == eventos + cessando > 0 \/ \E r \in Reqs : Verifica(req[r])

\* Inside the body of a loop that goes on after an error.
NoLaco(r) ==
    \/ Em(r, "cancelar_ler")
    \/ Em(r, "gravar") /\ req[r].op \in EmLaco

\* A query fails. processarAtualizacaoConcessao, verificarFinalizacaoConcessao
\* and the loops log the error and go on; anything else ends the request, or
\* rolls the batch back.
Errar(r) ==
    /\ Falhas
    /\ \/ r \in Ativando /\ Prossegue(r)
       \/ /\ req[r].pc \in {"conferir", "ler_cessar", "salvar_cessado"}
          /\ Passa(r, "emitir")
       \/ NoLaco(r) /\ Passa(r, "proxima")
       \/ /\ r \notin Ativando /\ ~NoLaco(r)
          /\ req[r].pc \notin {"livre", "emitir", "conferir", "ler_cessar",
                               "salvar_cessado"}
          /\ Termina(r)
    /\ semAtivar' = (semAtivar \/ r \in Ativando)
    /\ semCessar' = (semCessar \/ SoConfere(req[r]))
    /\ UNCHANGED <<concessao, parcelas, eventos, cessando, confirmadas>>

\* The listener fails: the event is not delivered again.
ErrarOuvinte ==
    /\ Falhas
    /\ \/ eventos > 0 /\ eventos' = eventos - 1 /\ UNCHANGED cessando
       \/ cessando > 0 /\ cessando' = cessando - 1 /\ UNCHANGED eventos
    /\ semCessar' = TRUE
    /\ UNCHANGED <<concessao, parcelas, req, confirmadas, semAtivar>>

\* The Node process stops: requests and events are in its memory.
Parar ==
    /\ Falhas
    /\ req' = [r \in Reqs |-> Ocioso]
    /\ eventos' = 0
    /\ cessando' = 0
    /\ semAtivar' = (semAtivar \/ Ativando # {})
    /\ semCessar' = (semCessar \/ Verificando)
    /\ UNCHANGED <<concessao, parcelas, confirmadas>>

-----------------------------------------------------------------------------

Pagamento(r) ==
    \/ IniciarStatus(r)
    \/ IniciarCancelamento(r)
    \/ IniciarLiberacao(r)
    \/ Gravar(r)
    \/ LerAtivar(r)
    \/ SalvarAtivo(r)
    \/ Conferir(r)
    \/ LerCessar(r)
    \/ SalvarCessado(r)
    \/ Emitir(r)

Comprovante(r) ==
    \/ IniciarComprovante(r)
    \/ GravarComprovante(r)
    \/ GravarRecebido(r)
    \/ IniciarRemocao(r)
    \/ GravarRemocao(r)
    \/ IniciarConfirmacao(r)
    \/ GravarConfirmacao(r)
    \/ RegravarConfirmacao(r)
    \/ ConferirTodas(r)
    \/ CessarTodas(r)

Concessao(r) ==
    \/ IniciarConcessao(r)
    \/ GravarConcessao(r)
    \/ IniciarCessacao(r)
    \/ Listar(r)
    \/ Proxima(r)
    \/ LerCancelar(r)

Sistema(r) ==
    \/ IniciarVarredura(r)
    \/ IniciarLote(r)
    \/ CommitLote(r)
    \/ Errar(r)

Next ==
    \/ \E r \in Reqs : \/ Pagamento(r)
                       \/ Comprovante(r)
                       \/ Concessao(r)
                       \/ Sistema(r)
    \/ OuvirConfirmado
    \/ CessarOuvinte
    \/ ErrarOuvinte
    \/ Parar

Spec == Init /\ [][Next]_vars

-----------------------------------------------------------------------------
(* Properties                                                              *)

\* What a request is about to do was decided for it: only the release or
\* confirmation of the first installment activates, only a confirmation by
\* updateStatus verifies the others, the loops belong to cessarConcessao and to the
\* scheduler, and nothing writes APTO back in the concessao.
ReqCoerente(q) ==
    /\ q.pc \in {"ativar", "salvar_ativo"} =>
         /\ q.p = 1
         /\ q.alvo \in {"LIBERADO", "CONFIRMADO"}
    /\ q.pc \in {"conferir", "ler_cessar", "salvar_cessado", "emitir"} =>
         q.op = "atualizarStatus" /\ q.alvo = "CONFIRMADO"
    /\ q.pc \in {"listar", "cancelar_ler"} => q.op = "cessar"
    /\ q.pc = "proxima" => q.op \in EmLaco
    /\ q.pc \in {"gravar", "ativar", "salvar_ativo"} =>
         q.op \in {"atualizarStatus", "cancelar", "liberar"} \cup EmLaco
    /\ q.op \in {"cessar", "cancelar"} => q.alvo = "CANCELADO"
    /\ q.op = "agendados" => q.alvo = "LIBERADO"
    /\ q.op = "liberar" => q.alvo \in {"LIBERADO", "AGENDADO"}
    /\ q.op = "vencimentos" => q.alvo = "VENCIDO"
    /\ q.calvo # "APTO"

\* Every value is one the code can store, and every request is coherent.
TypeOK ==
    /\ concessao \in StatusConcessao
    /\ parcelas \in [Parcelas -> Parcela]
    /\ req \in [Reqs -> Requisicao]
    /\ \A r \in Reqs : ReqCoerente(req[r])
    /\ eventos \in Nat
    /\ cessando \in Nat
    /\ confirmadas \in SUBSET Parcelas
    /\ semAtivar \in BOOLEAN
    /\ semCessar \in BOOLEAN

\* A released first installment never leaves the concessao APTO: whoever
\* released it (a request, a queue job, the scheduler), and whatever stale
\* copy an upload of a receipt saves over it, the concessao has been activated
\* or somebody is activating it, unless an activation failed or a batch
\* skipped it.
PrimeiraParcelaAtiva ==
    (/\ parcelas[1].status = "LIBERADO"
     /\ concessao = "APTO"
     /\ ~semAtivar) => Ativando # {}

\* The automatic cessation (of the listener, of a confirmation of receipt, of
\* the confirmation of the last installment) happens only after every
\* installment has been confirmed, however long after its check it comes.
CessacaoJustificada ==
    [][(concessao' = "CESSADO" /\ concessao # "CESSADO")
         => \/ confirmadas = Parcelas
            \/ \E r \in Reqs : Em(r, "gravar_conc")]_vars

\* Nothing is being processed.
Quieto == eventos = 0 /\ cessando = 0 /\ \A r \in Reqs : Em(r, "livre")

\* The automatic cessation is not missed, whichever requests confirm the
\* installments and however they overlap: once everything has settled, a
\* concessao with every installment confirmed is CESSADO, unless it was made
\* to leave that status, or a confirmation came with no check after it: of a
\* batch, of a request refused after its first write, of an old copy saved by
\* an upload, or of one whose check failed or was stopped.
EncerramentoCompleto ==
    (Quieto /\ TodasConfirmadas /\ ~semCessar) => concessao = "CESSADO"

\* cessarConcessao leaves no installment that can still be paid: whatever
\* was scheduled, released or received before it is cancelled when the
\* concessao becomes CESSADO, although the loop decides on statuses it read
\* once and although cancelar refuses some of them.
CessacaoManualLimpa ==
    [][\A r \in Reqs :
         (Em(r, "gravar_conc") /\ req[r].op = "cessar" /\ req'[r] # req[r])
           => \A p \in Parcelas :
                parcelas'[p].status \in {"CANCELADO", "CONFIRMADO", "PAGO"}]_vars

\* ConfirmacaoService.create, "E necessario um comprovante para confirmar o
\* pagamento": with this operation alone, no installment becomes CONFIRMADO
\* without a receipt.
ConfirmacaoExigeComprovante ==
    [][\A p \in Parcelas :
         (parcelas'[p].status = "CONFIRMADO" /\ ~Confirmada(p))
           => parcelas[p].comprovante]_vars

=============================================================================
