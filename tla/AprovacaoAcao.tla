---------------------------- MODULE AprovacaoAcao ----------------------------
(***************************************************************************)
(* The approval of critical actions: AprovacaoInterceptor stops a call of  *)
(* a critical action and opens a solicitacao, its approvers vote, and the  *)
(* vote that completes the decision runs the action by calling the API     *)
(* again (AprovacaoService, ExecucaoAcaoService). All solicitacoes here    *)
(* are about one action on one item.                                       *)
(*                                                                         *)
(* There is no transaction and no version column: each await on the        *)
(* database is one action and anything may run between two of them. The    *)
(* execution goes on after the answer to the vote, in the memory of the    *)
(* process; here it stays in the slot of the vote that started it. The     *)
(* configuration does not change while the solicitacoes are open. Events,  *)
(* notifications, audit rows and dates are left out.                       *)
(***************************************************************************)
EXTENDS Integers, FiniteSets

CONSTANTS
    Sols,           \* rows of solicitacoes that may be created (bound)
    Usuarios,       \* users
    Solicitantes,   \* users who ask for the action
    Configurados,   \* active approvers of the configuration of the action
    Elegiveis,      \* users of the sector with the permission to approve
    Autoaprovaveis, \* users the interceptor lets run the action themselves
    Estrategias,    \* strategies the action may be configured with
    MinAprovadores, \* acao_aprovacao.min_aprovadores
    Reqs,           \* requests being processed at once (slots)
    Nada,           \* no user and no row
    Sobrepoe,       \* whether two decisions about one row may overlap
    Falhas          \* whether queries may fail and the process may stop

ASSUME UsuariosAssumption ==
    /\ IsFiniteSet(Usuarios)
    /\ Nada \notin Usuarios \cup Sols
    /\ Solicitantes \subseteq Usuarios
    /\ Configurados \subseteq Usuarios
    /\ Elegiveis \subseteq Usuarios
    /\ Autoaprovaveis \subseteq Usuarios

ASSUME EstrategiasAssumption ==
    /\ Estrategias \subseteq {"simples", "maioria", "escalonamento_setor",
                              "autoaprovacao_perfil"}
    /\ MinAprovadores \in Nat \ {0}
    /\ Sobrepoe \in BOOLEAN
    /\ Falhas \in BOOLEAN

-----------------------------------------------------------------------------
(* Data                                                                    *)

StatusSolicitacao == {"INEXISTENTE", "PENDENTE", "APROVADA", "REJEITADA",
                      "CANCELADA", "EXECUTADA", "ERRO_EXECUCAO"}

\* The row of solicitacao_aprovador of a user, or that it has none.
Decisoes == {"ausente", "nenhuma", "sim", "nao"}

Solicitacao == [status: StatusSolicitacao, solicitante: Usuarios \cup {Nada},
                decisao: [Usuarios -> Decisoes]]

Pcs == {"livre", "inserir", "aprovadores", "ler_aprovador", "gravar_decisao",
        "recarregar", "gravar_status", "reler", "cancelar", "chamar",
        "validar", "agir", "concluir", "gravar_erro", "direta"}

\* s: the solicitacao a vote, a cancellation or an execution is about. nova:
\* the one being created. executa: it is created by the call of an execution.
Requisicao == [pc: Pcs, u: Usuarios \cup {Nada}, s: Sols \cup {Nada},
               nova: Sols \cup {Nada}, sim: BOOLEAN,
               novo: StatusSolicitacao, executa: BOOLEAN]

VARIABLES
    estrategia, \* strategy of the configuration
    sol,        \* the solicitacoes
    req,        \* what each request is doing
    execucoes,  \* observer: runs of the action by the service, up to 2 each
    respaldada, \* observer: solicitacoes that once had the votes they need
    sobreposta, \* observer: those about which two decisions overlapped
    corrida,    \* observer: users who were creating two at once
    perdida     \* observer: those for which a request stopped half way

vars == <<estrategia, sol, req, execucoes, respaldada, sobreposta, corrida,
          perdida>>

observadores == <<execucoes, respaldada, sobreposta, corrida, perdida>>

Livre == [pc |-> "livre", u |-> Nada, s |-> Nada, nova |-> Nada, sim |-> FALSE,
          novo |-> "PENDENTE", executa |-> FALSE]

Init ==
    /\ estrategia \in Estrategias
    /\ sol = [s \in Sols |-> [status |-> "INEXISTENTE",
                              solicitante |-> Nada,
                              decisao |-> [u \in Usuarios |-> "ausente"]]]
    /\ req = [r \in Reqs |-> Livre]
    /\ execucoes = [s \in Sols |-> 0]
    /\ respaldada = {}
    /\ sobreposta = {}
    /\ corrida = {}
    /\ perdida = {}

-----------------------------------------------------------------------------
(* The entities                                                            *)

Aprovadores(d) == {u \in Usuarios : d[u] # "ausente"}
Favoraveis(d) == {u \in Usuarios : d[u] = "sim"}

\* Mutant of calcularAprovacoesNecessarias: every approver.
NecessariasTodas(d) == Cardinality(Aprovadores(d))

\* Math.ceil(n / 2) is (n + 1) \div 2.
calcularAprovacoesNecessarias(d) ==
    CASE estrategia = "simples" -> 1
      [] estrategia = "maioria" -> (Cardinality(Aprovadores(d)) + 1) \div 2
      [] OTHER -> MinAprovadores

podeSerAprovada(d) ==
    Cardinality(Favoraveis(d)) >= calcularAprovacoesNecessarias(d)

\* Mutant of foiRejeitada: only when every approver has rejected.
foiRejeitadaPorTodos(d) == \A u \in Aprovadores(d) : d[u] = "nao"

foiRejeitada(d) == \E u \in Usuarios : d[u] = "nao"

\* The status atualizarStatusSolicitacao decides on, with votes d.
Decide(d) == IF foiRejeitada(d) THEN "REJEITADA"
             ELSE IF podeSerAprovada(d) THEN "APROVADA"
             ELSE "PENDENTE"

-----------------------------------------------------------------------------
(* Helpers                                                                 *)

Em(r, pc) == req[r].pc = pc
Comeca(r, q) == Em(r, "livre") /\ req' = [req EXCEPT ![r] = q]
Passa(r, pc) == req' = [req EXCEPT ![r].pc = pc]
Termina(r) == req' = [req EXCEPT ![r] = Livre]
Status(s, v) == sol' = [sol EXCEPT ![s].status = v]

\* r has read that s is PENDENTE, and will write what follows from that.
Decidindo(r) == req[r].pc \in {"ler_aprovador", "gravar_decisao",
                               "recarregar", "gravar_status", "cancelar"}

DecidindoSobre(s) == \E q \in Reqs : Decidindo(q) /\ req[q].s = s

\* Mutant of PodeDecidir: the status is not looked at.
PodeDecidirSempre(s) ==
    /\ sol[s].status # "INEXISTENTE"
    /\ sobreposta' = IF DecidindoSobre(s) THEN sobreposta \cup {s}
                                          ELSE sobreposta
    /\ UNCHANGED <<estrategia, sol, execucoes, respaldada, corrida, perdida>>

\* A decision about s may start: the observer notes the overlap.
PodeDecidir(s) ==
    /\ sol[s].status = "PENDENTE"
    /\ Sobrepoe \/ ~DecidindoSobre(s)
    /\ sobreposta' = IF DecidindoSobre(s) THEN sobreposta \cup {s}
                                          ELSE sobreposta
    /\ UNCHANGED <<estrategia, sol, execucoes, respaldada, corrida, perdida>>

\* Mutant of buscarSolicitacaoPendente: an approved one does not count.
buscarSoPendente(u) ==
    \E s \in Sols : sol[s].status = "PENDENTE" /\ sol[s].solicitante = u

buscarSolicitacaoPendente(u) ==
    \E s \in Sols : /\ sol[s].status \in {"PENDENTE", "APROVADA"}
                    /\ sol[s].solicitante = u

\* u has passed the check of duplicates and not inserted its row yet.
Criando(u) == \E q \in Reqs : Em(q, "inserir") /\ req[q].u = u

CriacaoConcorrente(u) ==
    corrida' = IF Criando(u) THEN corrida \cup {u} ELSE corrida

\* The sets of approvers a solicitacao of u may be given: every strategy falls
\* back to the configured ones.
ConjuntosDeAprovadores(u) ==
    {Configurados}
      \cup IF estrategia = "escalonamento_setor" THEN {Elegiveis} \ {{}}
           ELSE IF estrategia = "autoaprovacao_perfil" THEN {{u}} ELSE {}

\* What the votes must be for the action to be run, as the README of the
\* module states the strategies (with the halves of the code).
Respaldo(d) ==
    /\ Favoraveis(d) # {}
    /\ \A u \in Usuarios : d[u] # "nao"
    /\ estrategia = "maioria" =>
         2 * Cardinality(Favoraveis(d)) >= Cardinality(Aprovadores(d))
    /\ estrategia \in {"escalonamento_setor", "autoaprovacao_perfil"} =>
         Cardinality(Favoraveis(d)) >= MinAprovadores

-----------------------------------------------------------------------------
(* Creation: criarSolicitacao and criarSolicitacaoComEstrategia            *)

\* The call of the action, or POST /aprovacao; a duplicate is refused. A call
\* that names a row which is not APROVADA, or whose query fails, comes here too.
CriarSolicitacao(r) ==
    /\ \E u \in Solicitantes :
         /\ ~buscarSolicitacaoPendente(u)
         /\ Comeca(r, [Livre EXCEPT !.pc = "inserir", !.u = u])
         /\ CriacaoConcorrente(u)
    /\ UNCHANGED <<estrategia, sol, execucoes, respaldada, sobreposta, perdida>>

\* Mutant of Inserir: the approvers are created without the id of the row.
InserirSemId(r) ==
    /\ Em(r, "inserir")
    /\ \E n \in Sols :
         /\ sol[n].status = "INEXISTENTE"
         /\ sol' = [sol EXCEPT ![n].status = "PENDENTE",
                               ![n].solicitante = req[r].u]
         /\ req' = [req EXCEPT ![r].pc = "aprovadores"]
    /\ UNCHANGED <<estrategia, observadores>>

Inserir(r) ==
    /\ Em(r, "inserir")
    /\ \E n \in Sols :
         /\ sol[n].status = "INEXISTENTE"
         /\ sol' = [sol EXCEPT ![n].status = "PENDENTE",
                               ![n].solicitante = req[r].u]
         /\ req' = [req EXCEPT ![r].pc = "aprovadores", ![r].nova = n]
    /\ UNCHANGED <<estrategia, observadores>>

\* The end of a creation: of the call, or back in the execution that made it.
Devolve(r) ==
    IF req[r].executa
    THEN req' = [req EXCEPT ![r].pc = "concluir", ![r].nova = Nada,
                            ![r].executa = FALSE]
    ELSE Termina(r)

\* Bound: no row is left, and the creation fails.
SemLinhas(r) ==
    /\ Em(r, "inserir")
    /\ \A n \in Sols : sol[n].status # "INEXISTENTE"
    /\ Devolve(r)
    /\ UNCHANGED <<estrategia, sol, observadores>>

CriarAprovadores(r) ==
    /\ Em(r, "aprovadores")
    /\ \E c \in ConjuntosDeAprovadores(req[r].u) :
         sol' = [sol EXCEPT ![req[r].nova].decisao =
                   [u \in Usuarios |-> IF u \in c THEN "nenhuma" ELSE "ausente"]]
    /\ Devolve(r)
    /\ UNCHANGED <<estrategia, observadores>>

-----------------------------------------------------------------------------
(* Decision: processarAprovacao and cancelarSolicitacao                    *)

\* Anyone without a row of approver is refused; nobody but with
\* autoaprovacao_perfil votes on what he asked for.
IniciarVoto(r) ==
    \E s \in Sols : \E u \in Aprovadores(sol[s].decisao) : \E v \in BOOLEAN :
      /\ u = sol[s].solicitante => estrategia = "autoaprovacao_perfil"
      /\ Comeca(r, [Livre EXCEPT !.pc = "ler_aprovador", !.u = u, !.s = s,
                                 !.sim = v])
      /\ PodeDecidir(s)

LerAprovador(r) ==
    /\ Em(r, "ler_aprovador")
    /\ \/ /\ sol[req[r].s].decisao[req[r].u] = "nenhuma"
          /\ Passa(r, "gravar_decisao")
       \/ /\ sol[req[r].s].decisao[req[r].u] # "nenhuma"
          /\ Termina(r)
    /\ UNCHANGED <<estrategia, sol, observadores>>

GravarDecisao(r) ==
    LET q == req[r]
        d == [sol[q.s].decisao EXCEPT ![q.u] = IF q.sim THEN "sim" ELSE "nao"]
    IN
    /\ Em(r, "gravar_decisao")
    /\ sol' = [sol EXCEPT ![q.s].decisao = d]
    /\ req' = [req EXCEPT ![r].pc = "recarregar", ![r].sim = FALSE]
    /\ respaldada' = IF Respaldo(d) THEN respaldada \cup {q.s} ELSE respaldada
    /\ UNCHANGED <<estrategia, execucoes, sobreposta, corrida, perdida>>

\* atualizarStatusSolicitacao compares what it decides with the copy read
\* before the vote, which was PENDENTE.
Recarregar(r) ==
    LET s == req[r].s
        novo == Decide(sol[s].decisao)
    IN
    /\ Em(r, "recarregar")
    /\ \/ /\ novo # "PENDENTE"
          /\ req' = [req EXCEPT ![r].pc = "gravar_status", ![r].novo = novo]
       \/ novo = "PENDENTE" /\ sol[s].status = "APROVADA" /\ Passa(r, "chamar")
       \/ novo = "PENDENTE" /\ sol[s].status # "APROVADA" /\ Termina(r)
    /\ UNCHANGED <<estrategia, sol, observadores>>

GravarStatus(r) ==
    /\ Em(r, "gravar_status")
    /\ Status(req[r].s, req[r].novo)
    /\ req' = [req EXCEPT ![r].pc = "reler", ![r].novo = "PENDENTE"]
    /\ UNCHANGED <<estrategia, observadores>>

\* Mutant of Reler: only the writer of APROVADA knows that it is to be run.
RelerSemExecutar(r) ==
    /\ Em(r, "reler")
    /\ Termina(r)
    /\ UNCHANGED <<estrategia, sol, observadores>>

Reler(r) ==
    /\ Em(r, "reler")
    /\ \/ sol[req[r].s].status = "APROVADA" /\ Passa(r, "chamar")
       \/ sol[req[r].s].status # "APROVADA" /\ Termina(r)
    /\ UNCHANGED <<estrategia, sol, observadores>>

IniciarCancelamento(r) ==
    \E s \in Sols : \E u \in Usuarios :
      /\ u = sol[s].solicitante
      /\ Comeca(r, [Livre EXCEPT !.pc = "cancelar", !.u = u, !.s = s])
      /\ PodeDecidir(s)

GravarCancelamento(r) ==
    /\ Em(r, "cancelar")
    /\ Status(req[r].s, "CANCELADA")
    /\ Termina(r)
    /\ UNCHANGED <<estrategia, observadores>>

-----------------------------------------------------------------------------
(* Execution: executarAcaoAprovada, and the interceptor on its call        *)

\* The call has the token of the voter and the code of the solicitacao. The
\* interceptor takes a failed query for a row it did not find.
Chamar(r) ==
    /\ Em(r, "chamar")
    /\ \/ /\ \/ req[r].u \in Autoaprovaveis
             \/ sol[req[r].s].status = "APROVADA"
          /\ Passa(r, "agir")
       \/ /\ \/ Falhas
             \/ /\ req[r].u \notin Autoaprovaveis
                /\ sol[req[r].s].status # "APROVADA"
          /\ Passa(r, "validar")
    /\ UNCHANGED <<estrategia, sol, observadores>>

\* The interceptor did not find it APROVADA: it opens one for the voter.
Validar(r) ==
    /\ Em(r, "validar")
    /\ \/ /\ buscarSolicitacaoPendente(req[r].u)
          /\ Passa(r, "concluir")
          /\ UNCHANGED corrida
       \/ /\ ~buscarSolicitacaoPendente(req[r].u)
          /\ req' = [req EXCEPT ![r].pc = "inserir", ![r].executa = TRUE]
          /\ CriacaoConcorrente(req[r].u)
    /\ UNCHANGED <<estrategia, sol, execucoes, respaldada, sobreposta, perdida>>

\* Mutant of Agir: the call is sent again when its answer is lost.
AgirDeNovo(r) ==
    /\ Em(r, "agir")
    /\ execucoes' = [execucoes EXCEPT ![req[r].s] = IF @ = 2 THEN 2 ELSE @ + 1]
    /\ Passa(r, "concluir") \/ UNCHANGED req
    /\ UNCHANGED <<estrategia, sol, respaldada, sobreposta, corrida, perdida>>

\* The handler of the action runs, or refuses it: executarAcao answers either
\* with a result nobody looks at.
Agir(r) ==
    /\ Em(r, "agir")
    /\ \/ execucoes' = [execucoes EXCEPT ![req[r].s] = IF @ = 2 THEN 2 ELSE @ + 1]
       \/ UNCHANGED execucoes
    /\ Passa(r, "concluir")
    /\ UNCHANGED <<estrategia, sol, respaldada, sobreposta, corrida, perdida>>

Concluir(r) ==
    /\ Em(r, "concluir")
    /\ Status(req[r].s, "EXECUTADA")
    /\ Termina(r)
    /\ UNCHANGED <<estrategia, observadores>>

GravarErro(r) ==
    /\ Em(r, "gravar_erro")
    /\ Status(req[r].s, "ERRO_EXECUCAO")
    /\ Termina(r)
    /\ UNCHANGED <<estrategia, observadores>>

-----------------------------------------------------------------------------
(* The call of a client that names a solicitacao                           *)

\* Mutant of Repetir: the status of the row is not looked at.
RepetirSempre(r) ==
    /\ \E u \in Solicitantes : \E s \in Sols :
         /\ sol[s].status # "INEXISTENTE"
         /\ Comeca(r, [Livre EXCEPT !.pc = "direta", !.u = u, !.s = s])
    /\ UNCHANGED <<estrategia, sol, observadores>>

\* A client calls the action itself and names an APROVADA row, in the header
\* or in the query: the interceptor lets the call through to the handler,
\* whoever asked for the row and as often as it is called.
Repetir(r) ==
    /\ \E u \in Solicitantes : \E s \in Sols :
         /\ sol[s].status = "APROVADA"
         /\ Comeca(r, [Livre EXCEPT !.pc = "direta", !.u = u, !.s = s])
    /\ UNCHANGED <<estrategia, sol, observadores>>

\* The handler runs the action, or refuses it; the row stays as it is.
AgirDireto(r) ==
    /\ Em(r, "direta")
    /\ Termina(r)
    /\ UNCHANGED <<estrategia, sol, observadores>>

-----------------------------------------------------------------------------
(* Failures                                                                *)

\* What stopping q now leaves half way.
Perde(q) ==
    {s \in Sols :
       /\ sol[s].status \in {"PENDENTE", "APROVADA"}
       /\ s = q.s
       /\ q.executa \/ q.pc \in {"recarregar", "gravar_status", "reler",
                                 "chamar", "validar", "agir", "concluir",
                                 "gravar_erro"}}

\* executarAcao turns an error of its call into a result.
NaChamada(q) == q.executa \/ q.pc \in {"chamar", "validar", "agir"}

\* A query fails. In executarAcaoAprovada, before or after its write, that
\* leads to the write of the error; elsewhere it ends the request. What fails
\* in the handler of a client's call is part of AgirDireto.
Errar(r) ==
    /\ Falhas
    /\ req[r].pc \notin {"livre", "direta"}
    /\ \/ /\ Em(r, "concluir")
          /\ Passa(r, "gravar_erro")
          /\ UNCHANGED sol \/ Status(req[r].s, "EXECUTADA")
          /\ UNCHANGED perdida
       \/ /\ ~Em(r, "concluir")
          /\ NaChamada(req[r])
          /\ req' = [req EXCEPT ![r].pc = "concluir", ![r].nova = Nada,
                                ![r].executa = FALSE]
          /\ UNCHANGED <<sol, perdida>>
       \/ /\ ~Em(r, "concluir")
          /\ ~NaChamada(req[r])
          /\ Termina(r)
          /\ perdida' = perdida \cup Perde(req[r])
          /\ UNCHANGED sol
    /\ UNCHANGED <<estrategia, execucoes, respaldada, sobreposta, corrida>>

\* The Node process stops, and its executions with it: nothing resumes them.
Parar ==
    /\ Falhas
    /\ req' = [r \in Reqs |-> Livre]
    /\ perdida' = perdida \cup UNION {Perde(req[r]) : r \in Reqs}
    /\ UNCHANGED <<estrategia, sol, execucoes, respaldada, sobreposta, corrida>>

-----------------------------------------------------------------------------

Inicia(r) ==
    \/ CriarSolicitacao(r)
    \/ IniciarVoto(r)
    \/ IniciarCancelamento(r)
    \/ Repetir(r)

\* What a request in progress does next.
Continua(r) ==
    \/ Inserir(r)
    \/ SemLinhas(r)
    \/ CriarAprovadores(r)
    \/ LerAprovador(r)
    \/ GravarDecisao(r)
    \/ Recarregar(r)
    \/ GravarStatus(r)
    \/ Reler(r)
    \/ GravarCancelamento(r)
    \/ Chamar(r)
    \/ Validar(r)
    \/ Agir(r)
    \/ Concluir(r)
    \/ GravarErro(r)
    \/ AgirDireto(r)

Next ==
    \/ \E r \in Reqs : Inicia(r) \/ Continua(r) \/ Errar(r)
    \/ Parar

\* A request in progress goes on: the event loop runs every callback, and
\* every query is answered. Clients owe nothing.
Spec == Init /\ [][Next]_vars /\ \A r \in Reqs : WF_vars(Continua(r))

-----------------------------------------------------------------------------
(* Properties                                                              *)

\* An execution knows which solicitacao it is for, and only the call of an
\* execution creates one inside it.
ReqCoerente(q) ==
    /\ q.pc # "livre" => q.u \in Usuarios
    /\ q.executa => q.pc \in {"inserir", "aprovadores"}
    /\ (q.executa \/ q.pc \notin {"livre", "inserir", "aprovadores"})
         => q.s \in Sols
    /\ q.pc = "aprovadores" => q.nova \in Sols
    /\ q.pc = "gravar_status" => q.novo \in {"APROVADA", "REJEITADA"}

TypeOK ==
    /\ estrategia \in Estrategias
    /\ sol \in [Sols -> Solicitacao]
    /\ req \in [Reqs -> Requisicao]
    /\ \A r \in Reqs : ReqCoerente(req[r])
    /\ execucoes \in [Sols -> 0..2]
    /\ respaldada \in SUBSET Sols
    /\ sobreposta \in SUBSET Sols
    /\ corrida \in SUBSET Usuarios
    /\ perdida \in SUBSET Sols

\* What is being done about s.
EmAndamento(s, pcs) == \E r \in Reqs : req[r].s = s /\ req[r].pc \in pcs

\* The action of a solicitacao is only run, by the service or by the call of a
\* client that names it, if at some moment nobody had rejected it and enough
\* approvers had approved it, whatever votes and cancellations overlap and
\* whatever fails.
ExecucaoRespaldada ==
    \A s \in Sols :
      (execucoes[s] > 0 \/ EmAndamento(s, {"direta"})) => s \in respaldada

\* The service runs the action of a solicitacao twice only if two decisions
\* about it overlapped: a request that fails or a process that stops never
\* makes it run the action again. The calls of clients that name an APROVADA
\* row run it besides, with no such limit.
ServicoExecutaUmaVez ==
    \A s \in Sols : execucoes[s] = 2 => s \in sobreposta

\* A decided solicitacao changes only to record its execution, unless two
\* decisions about it overlapped.
DecididaFica ==
    [][\A s \in Sols :
         (/\ sol[s].status \notin {"INEXISTENTE", "PENDENTE"}
          /\ s \notin sobreposta)
         => \/ sol'[s].status = sol[s].status
            \/ /\ sol[s].status \in {"APROVADA", "EXECUTADA"}
               /\ sol'[s].status \in {"EXECUTADA", "ERRO_EXECUCAO"}]_vars

\* The rule of validarCriacaoSolicitacao: a user has one open solicitacao for
\* an item, unless he created two at once or a decision was overwritten.
AbertaUnica ==
    \A s, t \in Sols :
      (/\ s # t
       /\ sol[s].status \in {"PENDENTE", "APROVADA"}
       /\ sol[t].status \in {"PENDENTE", "APROVADA"}
       /\ sol[s].solicitante = sol[t].solicitante)
      => \/ sol[s].solicitante \in corrida
         \/ s \in sobreposta
         \/ t \in sobreposta

\* No vote is lost between voters that count at the same time: a solicitacao
\* whose votes decide it is not left PENDENTE, and one left APROVADA is being
\* run, unless the request that had to do it stopped half way.
DecisaoNaoSePerde ==
    \A s \in Sols \ perdida :
      /\ (/\ sol[s].status = "PENDENTE"
          /\ \/ Respaldo(sol[s].decisao)
             \/ \E u \in Usuarios : sol[s].decisao[u] = "nao")
         => EmAndamento(s, {"recarregar", "gravar_status"})
      /\ sol[s].status = "APROVADA"
         => EmAndamento(s, {"reler", "chamar", "validar", "inserir",
                            "aprovadores", "agir", "concluir", "gravar_erro"})

\* A solicitacao whose votes decide it is eventually decided.
VotosDecidem ==
    \A s \in Sols :
      (sol[s].status = "PENDENTE" /\ Respaldo(sol[s].decisao))
        ~> sol[s].status # "PENDENTE"

-----------------------------------------------------------------------------
(* Refinement                                                              *)

Abstrata == [INEXISTENTE |-> "inexistente", PENDENTE |-> "aberta",
             APROVADA |-> "aprovada", REJEITADA |-> "rejeitada",
             CANCELADA |-> "cancelada", EXECUTADA |-> "encerrada",
             ERRO_EXECUCAO |-> "encerrada"]

DU == INSTANCE DecisaoUnica WITH
        decisao <- [s \in Sols |-> Abstrata[sol[s].status]],
        vezes <- execucoes,
        repetidas <- {s \in Sols : EmAndamento(s, {"direta"})}

\* When decisions about one solicitacao do not overlap and nothing fails, each
\* is decided once, run at most once by the service, and run by anybody only
\* once it was approved.
ImplementaDecisaoUnica == DU!DecisaoSpec

=============================================================================
