------------------------- MODULE PagamentoCalendario -------------------------
(***************************************************************************)
(* The dates of the installments of an active concessao: clients release,  *)
(* schedule and cancel installments, and every day at 08:00 two sweeps of  *)
(* PagamentoLiberacaoScheduler start together, one for the installments    *)
(* scheduled for that day and one for those overdue. A sweep lists its     *)
(* rows once and then writes them one by one.                              *)
(*                                                                         *)
(* update() reads the row, and save() writes every column in which that    *)
(* copy differs from the row by then. data_prevista_liberacao is never set *)
(* here, so its test passes. What a release does to the concessao, and the *)
(* statuses after LIBERADO, are in ConcessaoPagamento.                     *)
(***************************************************************************)
EXTENDS Integers, FiniteSets, FiniteSetsExt

CONSTANTS
    NParcelas,   \* installments generated for the concessao
    Intervalo,   \* days from one installment to the next
    Prazo,       \* days from the release date to the due date
    MaxDia,      \* bound: the last day, and the last date a client gives
    Reqs,        \* requests at once (slots)
    Alvos,       \* statuses a client asks updateStatus for
    MaxFalhas    \* bound: stops of the process and failed queries

ASSUME CalendarioAssumption ==
    /\ NParcelas \in Nat \ {0}
    /\ Intervalo \in Nat
    /\ Prazo \in Nat
    /\ MaxDia \in Nat
    /\ MaxFalhas \in Nat

Parcelas == 1 .. NParcelas

Dias == 0 .. MaxDia

Status == {"PENDENTE", "AGENDADO", "LIBERADO", "CANCELADO", "VENCIDO",
           "REGULARIZADO"}

ASSUME AlvosDoCalendario == Alvos \subseteq Status

\* The table of PagamentoValidationUtil, between these statuses.
transicoesPermitidas ==
    [PENDENTE     |-> {"LIBERADO", "AGENDADO", "CANCELADO", "VENCIDO"},
     AGENDADO     |-> {"LIBERADO", "CANCELADO"},
     LIBERADO     |-> {"CANCELADO"},
     CANCELADO    |-> {},
     VENCIDO      |-> {"LIBERADO", "CANCELADO", "REGULARIZADO"},
     REGULARIZADO |-> {"PENDENTE", "LIBERADO"}]

\* Dates given when the installments are generated may lie past MaxDia.
Datas == Nat

Linha == [status: Status, liberacao: Datas, vencimento: Datas]

Sweeps == {"agendados", "vencimentos"}

\* linha: the copy update() read, with what it will save. desde: the day
\* the request began.
Requisicao == [pc: {"livre", "ler", "salvar"}, p: Parcelas, para: Status,
               datar: BOOLEAN, data: Dias, linha: Linha, desde: Dias]

Varredura == [pc: {"livre", "listar", "laco", "salvar"},
              fila: SUBSET Parcelas, linha: Linha]

VARIABLES
    dia,        \* today
    madrugada,  \* whether it is before 08:00
    noAr,       \* whether the process is running
    parcelas,   \* the rows
    req,        \* what each request is doing
    varre,      \* what each sweep is doing
    falhas,     \* faults so far
    perdidas,   \* observer: those whose day, or new date, was lost
    mexidas,    \* observer: those written while a sweep had them listed
    foraDeHora  \* observer: those a sweep released on a date not theirs

vars == <<dia, madrugada, noAr, parcelas, req, varre, falhas, perdidas,
          mexidas, foraDeHora>>

relogio == <<dia, madrugada, noAr>>

LinhaInicial(p) ==
    [status |-> "PENDENTE", liberacao |-> (p - 1) * Intervalo,
     vencimento |-> (p - 1) * Intervalo + Prazo]

ReqLivre == [pc |-> "livre", p |-> 1, para |-> "PENDENTE", datar |-> FALSE,
             data |-> 0, linha |-> LinhaInicial(1), desde |-> 0]

VarreLivre == [pc |-> "livre", fila |-> {}, linha |-> LinhaInicial(1)]

Init ==
    /\ dia = 0
    /\ madrugada = TRUE
    /\ noAr = TRUE
    /\ parcelas = [p \in Parcelas |-> LinhaInicial(p)]
    /\ req = [r \in Reqs |-> ReqLivre]
    /\ varre = [v \in Sweeps |-> VarreLivre]
    /\ falhas = 0
    /\ perdidas = {}
    /\ mexidas = {}
    /\ foraDeHora = {}

-----------------------------------------------------------------------------
(* The days                                                                *)

AgendadasHoje == {p \in Parcelas : /\ parcelas[p].status = "AGENDADO"
                                   /\ parcelas[p].liberacao = dia}

\* What a sweep has still to do today.
AFazer ==
    IF varre["agendados"].pc = "listar" THEN AgendadasHoje
    ELSE varre["agendados"].fila

VarreduraParada == \A v \in Sweeps : varre[v].pc = "livre"

\* A sweep that began at 08:00 is over by midnight.
Anoitecer ==
    /\ ~madrugada
    /\ VarreduraParada
    /\ dia < MaxDia
    /\ dia' = dia + 1
    /\ madrugada' = TRUE
    /\ UNCHANGED <<noAr, parcelas, req, varre, falhas, perdidas, mexidas,
                   foraDeHora>>

\* @Cron('0 0 8 * * *'), twice. A process that is down at 08:00 does not
\* make up for it. A request of the day before is over by then.
OitoHoras ==
    /\ madrugada
    /\ \A r \in Reqs : req[r].pc = "livre" \/ req[r].desde = dia
    /\ madrugada' = FALSE
    /\ varre' = IF noAr
                THEN [v \in Sweeps |-> [VarreLivre EXCEPT !.pc = "listar"]]
                ELSE varre
    /\ perdidas' = IF noAr THEN perdidas ELSE perdidas \cup AgendadasHoje
    /\ UNCHANGED <<dia, noAr, parcelas, req, falhas, mexidas, foraDeHora>>

Cai(ps) ==
    /\ falhas < MaxFalhas
    /\ falhas' = falhas + 1
    /\ perdidas' = perdidas \cup ps

Parar ==
    /\ noAr
    /\ noAr' = FALSE
    /\ Cai(AFazer)
    /\ req' = [r \in Reqs |-> ReqLivre]
    /\ varre' = [v \in Sweeps |-> VarreLivre]
    /\ UNCHANGED <<dia, madrugada, parcelas, mexidas, foraDeHora>>

Subir ==
    /\ ~noAr
    /\ noAr' = TRUE
    /\ UNCHANGED <<dia, madrugada, parcelas, req, varre, falhas, perdidas,
                   mexidas, foraDeHora>>

-----------------------------------------------------------------------------
(* Requests                                                                *)

SoReq == UNCHANGED <<relogio, parcelas, varre, falhas, perdidas, mexidas,
                     foraDeHora>>

Comeca(r, p, para, datar, data) ==
    req' = [req EXCEPT ![r] =
              [ReqLivre EXCEPT !.pc = "ler", !.p = p, !.para = para,
                               !.datar = datar, !.data = data, !.desde = dia]]

StatusDaData(d) == IF d > dia THEN "AGENDADO" ELSE "LIBERADO"

\* liberarPagamento, with the date the client gives.
IniciarLiberacao(r) ==
    /\ noAr /\ req[r].pc = "livre"
    /\ \E p \in Parcelas, d \in Dias :
         /\ parcelas[p].status \in {"PENDENTE", "AGENDADO"}
         /\ Comeca(r, p, StatusDaData(d), TRUE, d)
    /\ SoReq

\* PagamentoService.cancelar.
IniciarCancelamento(r) ==
    /\ noAr /\ req[r].pc = "livre"
    /\ \E p \in Parcelas :
         /\ parcelas[p].status # "CANCELADO"
         /\ Comeca(r, p, "CANCELADO", FALSE, dia)
    /\ SoReq

\* updateStatus: the release date moves only with LIBERADO. AGENDADO keeps
\* the old one, which the sweep may never look for again.
IniciarStatus(r) ==
    /\ noAr /\ req[r].pc = "livre"
    /\ \E p \in Parcelas :
         \E s \in transicoesPermitidas[parcelas[p].status] \cap Alvos :
           Comeca(r, p, s, s = "LIBERADO", dia)
    /\ SoReq

\* PagamentoRepository.update: findById and Object.assign, ...
Ler(r) ==
    LET q == req[r] IN
    /\ q.pc = "ler"
    /\ req' = [req EXCEPT ![r].pc = "salvar",
                 ![r].linha = [parcelas[q.p] EXCEPT
                     !.status = q.para,
                     !.liberacao = IF q.datar THEN q.data ELSE @]]
    /\ SoReq

\* ... then save. A date given by another request in between is put back.
Salvar(r) ==
    LET q == req[r] IN
    /\ q.pc = "salvar"
    /\ parcelas' = [parcelas EXCEPT ![q.p] = q.linha]
    /\ req' = [req EXCEPT ![r] = ReqLivre]
    /\ perdidas' = IF q.datar \/ q.linha.liberacao = parcelas[q.p].liberacao
                   THEN perdidas ELSE perdidas \cup {q.p}
    /\ mexidas' = IF \E v \in Sweeps : q.p \in varre[v].fila
                  THEN mexidas \cup {q.p} ELSE mexidas
    /\ UNCHANGED <<relogio, varre, falhas, foraDeHora>>

\* A query fails, and with it the request.
Errar(r) ==
    /\ req[r].pc # "livre"
    /\ Cai({})
    /\ req' = [req EXCEPT ![r] = ReqLivre]
    /\ UNCHANGED <<relogio, parcelas, varre, mexidas, foraDeHora>>

-----------------------------------------------------------------------------
(* The sweeps                                                              *)

\* Mutant of Encontra: scheduled for today or for later.
EncontraSemFim(v) ==
    {p \in Parcelas :
       IF v = "agendados"
       THEN parcelas[p].status = "AGENDADO" /\ parcelas[p].liberacao >= dia
       ELSE parcelas[p].status = "VENCIDO"}

\* Mutant of Encontra: scheduled for a day before today.
EncontraAtrasadas(v) ==
    {p \in Parcelas :
       IF v = "agendados"
       THEN parcelas[p].status = "AGENDADO" /\ parcelas[p].liberacao < dia
       ELSE parcelas[p].status = "VENCIDO"}

\* findAgendadosParaLiberacao, and findVencidos, which looks for VENCIDO.
Encontra(v) ==
    IF v = "agendados" THEN AgendadasHoje
    ELSE {p \in Parcelas : parcelas[p].status = "VENCIDO"}

\* Mutant of Continua: a sweep that has no row left does not end.
ContinuaSemFim(v, fila) ==
    varre' = [varre EXCEPT ![v] =
                [VarreLivre EXCEPT !.pc = "laco", !.fila = fila]]

Continua(v, fila) ==
    varre' = [varre EXCEPT ![v] =
                IF fila = {} THEN VarreLivre
                ELSE [VarreLivre EXCEPT !.pc = "laco", !.fila = fila]]

Listar(v) ==
    /\ varre[v].pc = "listar"
    /\ Continua(v, Encontra(v))
    /\ UNCHANGED <<relogio, parcelas, req, falhas, perdidas, mexidas,
                   foraDeHora>>

Proxima(v) == Min(varre[v].fila)

\* PagamentoSystemRepository.update: findByIdGlobal and Object.assign.
LerDaVarredura(v) ==
    LET linha == parcelas[Proxima(v)] IN
    /\ varre[v].pc = "laco"
    /\ varre' = [varre EXCEPT ![v].pc = "salvar",
                   ![v].linha =
                     IF v = "agendados"
                     THEN [linha EXCEPT !.status = "LIBERADO"]
                     ELSE [linha EXCEPT !.status = "VENCIDO",
                                        !.vencimento = dia]]
    /\ UNCHANGED <<relogio, parcelas, req, falhas, perdidas, mexidas,
                   foraDeHora>>

\* Its save: neither the status nor the date is looked at again.
SalvarDaVarredura(v) ==
    LET p == Proxima(v) IN
    /\ varre[v].pc = "salvar"
    /\ parcelas' = [parcelas EXCEPT ![p] = varre[v].linha]
    /\ foraDeHora' =
         IF v = "agendados" /\ p \notin AgendadasHoje
         THEN foraDeHora \cup {p} ELSE foraDeHora
    /\ mexidas' = IF \E w \in Sweeps \ {v} : p \in varre[w].fila
                  THEN mexidas \cup {p} ELSE mexidas
    /\ Continua(v, varre[v].fila \ {p})
    /\ UNCHANGED <<relogio, req, falhas, perdidas>>

\* The query of the list fails, and the sweep ends; or that of a row, and
\* the sweep goes on with the next.
ErrarVarredura(v) ==
    /\ \/ /\ varre[v].pc = "listar"
          /\ Cai(IF v = "agendados" THEN AFazer ELSE {})
          /\ Continua(v, {})
       \/ /\ varre[v].pc \in {"laco", "salvar"}
          /\ Cai(IF v = "agendados" THEN {Proxima(v)} ELSE {})
          /\ Continua(v, varre[v].fila \ {Proxima(v)})
    /\ UNCHANGED <<relogio, parcelas, req, mexidas, foraDeHora>>

-----------------------------------------------------------------------------

PassoReq(r) == Ler(r) \/ Salvar(r)

PassoVarredura(v) == Listar(v) \/ LerDaVarredura(v) \/ SalvarDaVarredura(v)

Next ==
    \/ Anoitecer \/ OitoHoras \/ Parar \/ Subir
    \/ \E r \in Reqs : \/ IniciarLiberacao(r) \/ IniciarCancelamento(r)
                       \/ IniciarStatus(r) \/ PassoReq(r) \/ Errar(r)
    \/ \E v \in Sweeps : PassoVarredura(v) \/ ErrarVarredura(v)

Spec == Init /\ [][Next]_vars

\* Days pass, the database answers, and the process is started again.
Justica ==
    /\ WF_vars(Anoitecer) /\ WF_vars(OitoHoras) /\ WF_vars(Subir)
    /\ \A r \in Reqs : WF_vars(PassoReq(r))
    /\ \A v \in Sweeps : WF_vars(PassoVarredura(v))

SpecJusta == Spec /\ Justica

-----------------------------------------------------------------------------
(* Properties                                                              *)

\* Type invariant of the variables above.
TypeOK ==
    /\ dia \in Dias
    /\ madrugada \in BOOLEAN
    /\ noAr \in BOOLEAN
    /\ parcelas \in [Parcelas -> Linha]
    /\ req \in [Reqs -> Requisicao]
    /\ varre \in [Sweeps -> Varredura]
    /\ \A v \in Sweeps : varre[v].pc \in {"laco", "salvar"}
                           <=> varre[v].fila # {}
    /\ falhas \in 0 .. MaxFalhas
    /\ perdidas \in SUBSET Parcelas
    /\ mexidas \in SUBSET Parcelas
    /\ foraDeHora \in SUBSET Parcelas

\* The sweep releases an installment only on the day it is scheduled for,
\* unless somebody wrote it between the list of the sweep and its turn: the
\* sweep is the only writer that releases without looking at the status.
LiberacaoNaHora == foraDeHora \subseteq mexidas

\* Whether the 08:00 of day d is still to come, or being served.
AindaVarre(p) ==
    \/ parcelas[p].liberacao > dia
    \/ parcelas[p].liberacao = dia /\ madrugada

\* An installment scheduled for an 08:00 still to come leaves AGENDADO,
\* unless the process was down at that hour, its query failed, or a request
\* put back a date it had read before. There is one chance: no later sweep
\* looks for the days that went by.
AgendadoSeLibera ==
    \A p \in Parcelas :
      parcelas[p].status = "AGENDADO" /\ AindaVarre(p)
        ~> parcelas[p].status # "AGENDADO" \/ p \in perdidas

\* The comment of processarVencimentoAutomatico: an installment that is
\* PENDENTE becomes VENCIDO once its due date has passed.
PendenteVence ==
    \A p \in Parcelas :
      parcelas[p].status = "PENDENTE" /\ parcelas[p].vencimento < dia
        ~> parcelas[p].status # "PENDENTE"
=============================================================================
