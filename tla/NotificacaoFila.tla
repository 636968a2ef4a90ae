--------------------------- MODULE NotificacaoFila ---------------------------
(***************************************************************************)
(* The sending of notifications (NotificationManagerService) and their     *)
(* reading (NotificacaoService). One column says both how far the sending  *)
(* went and whether the user has read the notification. What is to be sent *)
(* waits in timers of the process; a sweep every 5 minutes, and the start  *)
(* of the process, queue the rows that are PENDENTE.                       *)
(*                                                                         *)
(* save() writes the columns in which the copy in memory differs from the  *)
(* row, so a copy read before an await overwrites what came in between.    *)
(* tentativas counts up to 3: the code only asks whether it is less.       *)
(* Templates, contents and which channel answered are left out, and so are *)
(* the 50 rows a sweep takes at most and the deletion after 90 days.       *)
(***************************************************************************)
EXTENDS Integers, FiniteSets

CONSTANTS
    Notifs,     \* rows that may be created (bound)
    Procs,      \* calls of processarNotificacao under way at once (slots)
    Leitores,   \* requests that mark one notification (slots)
    Nada,       \* no notification
    MaxFila,    \* timers of one notification that are told apart (bound)
    MaxFalhas   \* stops of the process and failed queries (bound)

ASSUME NotificacaoAssumption ==
    /\ Nada \notin Notifs
    /\ MaxFila \in Nat \ {0}
    /\ MaxFalhas \in Nat

\* The values of StatusNotificacaoProcessamento this code writes.
Status == {"PENDENTE", "EM_PROCESSAMENTO", "ENVIADA", "FALHA", "NAO_LIDA",
           "LIDA", "ARQUIVADA"}

Marcas == {"LIDA", "ARQUIVADA"}

\* data_agendamento: none, 2^31 milliseconds away or more, sooner, past.
Datas == {"sem", "distante", "proxima", "vencida"}

Tentativas == 0 .. 3

Linha == [status: Status \cup {"INEXISTENTE"}, tentativas: Tentativas,
          agenda: Datas]

\* tentativas is that of the copy; novo, the status it is saved with.
Processamento == [pc: {"livre", "marcar", "enviar", "salvar"},
                  n: Notifs \cup {Nada}, tentativas: Tentativas,
                  novo: {"PENDENTE", "ENVIADA", "FALHA"}]

Leitura == [n: Notifs \cup {Nada}, para: Marcas, tentativas: Tentativas]

VARIABLES
    notif,       \* the rows
    fila,        \* timers, or calls not begun, that will process each one
    agendadas,   \* notifications with a timer of scheduleOnce
    proc,        \* the calls of processarNotificacao
    leit,        \* the requests that mark a notification
    ligado,      \* "iniciando", "ligado", or "sem_varredura" if that failed
    falhas,      \* faults so far
    entregas,    \* observer: deliveries of each notification, up to 2
    sobrepostas, \* observer: those two calls processed at the same time
    semRegistro, \* observer: those one of whose calls did not save its end
    agitadas,    \* observer: those marked while the process had them to send
    quietas      \* observer: those marked when it had not

vars == <<notif, fila, agendadas, proc, leit, ligado, falhas, entregas,
          sobrepostas, semRegistro, agitadas, quietas>>

observadores == <<entregas, sobrepostas, semRegistro, agitadas, quietas>>

ProcLivre == [pc |-> "livre", n |-> Nada, tentativas |-> 0, novo |-> "PENDENTE"]
LeitLivre == [n |-> Nada, para |-> "LIDA", tentativas |-> 0]

Init ==
    /\ notif = [n \in Notifs |-> [status |-> "INEXISTENTE", tentativas |-> 0,
                                  agenda |-> "sem"]]
    /\ fila = [n \in Notifs |-> 0]
    /\ agendadas = {}
    /\ proc = [p \in Procs |-> ProcLivre]
    /\ leit = [l \in Leitores |-> LeitLivre]
    /\ ligado = "iniciando"
    /\ falhas = 0
    /\ entregas = [n \in Notifs |-> 0]
    /\ sobrepostas = {}
    /\ semRegistro = {}
    /\ agitadas = {}
    /\ quietas = {}

-----------------------------------------------------------------------------
(* Helpers                                                                 *)

\* Bound: more timers than MaxFila are not told apart.
Mais(k) == IF k < MaxFila THEN k + 1 ELSE MaxFila

Enfileira(ns) == fila' = [n \in Notifs |-> IF n \in ns THEN Mais(fila[n])
                                                       ELSE fila[n]]

Pendentes == {n \in Notifs : notif[n].status = "PENDENTE"}

EmVoo(n) == \E p \in Procs : proc[p].n = n

\* The process has nothing that will process n.
EmRepouso(n) == fila[n] = 0 /\ n \notin agendadas /\ ~EmVoo(n)

Salva(n, status, tentativas) ==
    notif' = [notif EXCEPT ![n].status = status, ![n].tentativas = tentativas]

Proxima(t) == IF t < 3 THEN t + 1 ELSE 3

-----------------------------------------------------------------------------
(* Start, and the sweep                                                    *)

\* Mutant of Recuperaveis: everything that was not sent.
RecuperaveisNaoEnviadas ==
    {n \in Notifs : notif[n].status \notin {"INEXISTENTE", "ENVIADA"}}

Recuperaveis == Pendentes

\* iniciarProcessamentoFila. Those of a date to come get a timer of
\* scheduleOnce, but setTimeout fires at once when the date is distant.
IniciarFila ==
    /\ ligado = "iniciando"
    /\ ligado' = "ligado"
    /\ agendadas' = {n \in Recuperaveis : notif[n].agenda = "proxima"}
    /\ Enfileira(Recuperaveis \ agendadas')
    /\ UNCHANGED <<notif, proc, leit, falhas, observadores>>

\* Mutant of Vencidas: only those with a date.
VencidasComData == {n \in Pendentes : notif[n].agenda = "vencida"}

Vencidas == {n \in Pendentes : notif[n].agenda \in {"sem", "vencida"}}

verificarNotificacoesPendentes ==
    /\ ligado = "ligado"
    /\ Vencidas # {}
    /\ Enfileira(Vencidas)
    /\ UNCHANGED <<notif, agendadas, proc, leit, ligado, falhas, observadores>>

\* A distant date comes nearer, a near one is reached and its timer fires.
PassarTempo(n) ==
    /\ \/ /\ notif[n].agenda = "distante"
          /\ notif' = [notif EXCEPT ![n].agenda = "proxima"]
          /\ UNCHANGED <<fila, agendadas>>
       \/ /\ notif[n].agenda = "proxima"
          /\ notif' = [notif EXCEPT ![n].agenda = "vencida"]
          /\ Enfileira({n} \cap agendadas)
          /\ agendadas' = agendadas \ {n}
    /\ UNCHANGED <<proc, leit, ligado, falhas, observadores>>

-----------------------------------------------------------------------------
(* Creation                                                                *)

\* With a date or without one the processing begins at once: the date is a
\* text here, on which agendarNotificacao fails and falls back to processing.
criarNotificacao(n) ==
    /\ notif[n].status = "INEXISTENTE"
    /\ \E a \in Datas :
         notif' = [notif EXCEPT ![n].status = "PENDENTE", ![n].agenda = a]
    /\ Enfileira({n})
    /\ UNCHANGED <<agendadas, proc, leit, ligado, falhas, observadores>>

\* NotificacaoService: for the screen only.
criar(n) ==
    /\ notif[n].status = "INEXISTENTE"
    /\ notif' = [notif EXCEPT ![n].status = "NAO_LIDA"]
    /\ UNCHANGED <<fila, agendadas, proc, leit, ligado, falhas, observadores>>

-----------------------------------------------------------------------------
(* processarNotificacao                                                    *)

\* Mutant of DeveProcessar: one whose sending ended is not looked at again.
DeveProcessarSempre(n) == TRUE

\* Everything but a row that is ENVIADA at the moment of the read.
DeveProcessar(n) == notif[n].status # "ENVIADA"

Ler(p, n) ==
    /\ proc[p].pc = "livre"
    /\ fila[n] > 0
    /\ fila' = [fila EXCEPT ![n] = @ - 1]
    /\ \/ /\ DeveProcessar(n)
          /\ proc' = [proc EXCEPT ![p] = [pc |-> "marcar", n |-> n,
                        tentativas |-> Proxima(notif[n].tentativas),
                        novo |-> "PENDENTE"]]
          /\ sobrepostas' = IF EmVoo(n) THEN sobrepostas \cup {n}
                                        ELSE sobrepostas
       \/ ~DeveProcessar(n) /\ UNCHANGED <<proc, sobrepostas>>
    /\ UNCHANGED <<notif, agendadas, leit, ligado, falhas, entregas,
                   semRegistro, agitadas, quietas>>

MarcarEmProcessamento(p) ==
    /\ proc[p].pc = "marcar"
    /\ Salva(proc[p].n, "EM_PROCESSAMENTO", proc[p].tentativas)
    /\ proc' = [proc EXCEPT ![p].pc = "enviar"]
    /\ UNCHANGED <<fila, agendadas, leit, ligado, falhas, observadores>>

\* The status of a call that did not send.
Desistir(p) == IF proc[p].tentativas < 3 THEN "PENDENTE" ELSE "FALHA"

\* Some channel accepts it; or none does, and a timer of 5 minutes is set
\* before the row is saved; or something else fails, and none is set.
Enviar(p) ==
    LET n == proc[p].n IN
    /\ proc[p].pc = "enviar"
    /\ \/ /\ proc' = [proc EXCEPT ![p].pc = "salvar", ![p].novo = "ENVIADA"]
          /\ entregas' = [entregas EXCEPT ![n] = IF @ < 2 THEN @ + 1 ELSE 2]
          /\ UNCHANGED fila
       \/ /\ proc' = [proc EXCEPT ![p].pc = "salvar", ![p].novo = Desistir(p)]
          /\ UNCHANGED entregas
          /\ \/ Desistir(p) = "PENDENTE" /\ Enfileira({n})
             \/ UNCHANGED fila
    /\ UNCHANGED <<notif, agendadas, leit, ligado, falhas, sobrepostas,
                   semRegistro, agitadas, quietas>>

\* Mutant of SalvarFim: the call keeps its notification.
SalvarFimSemLiberar(p) ==
    /\ proc[p].pc = "salvar"
    /\ Salva(proc[p].n, proc[p].novo, proc[p].tentativas)
    /\ proc' = [proc EXCEPT ![p].pc = "livre"]
    /\ UNCHANGED <<fila, agendadas, leit, ligado, falhas, observadores>>

SalvarFim(p) ==
    /\ proc[p].pc = "salvar"
    /\ Salva(proc[p].n, proc[p].novo, proc[p].tentativas)
    /\ proc' = [proc EXCEPT ![p] = ProcLivre]
    /\ UNCHANGED <<fila, agendadas, leit, ligado, falhas, observadores>>

-----------------------------------------------------------------------------
(* Reading                                                                 *)

\* marcarComoLida and arquivar read the row, whatever its status.
LerParaMarcar(l, n) ==
    /\ leit[l].n = Nada
    /\ \E m \in Marcas :
         /\ notif[n].status \notin {"INEXISTENTE", m}
         /\ leit' = [leit EXCEPT ![l] = [n |-> n, para |-> m,
                                         tentativas |-> notif[n].tentativas]]
    /\ UNCHANGED <<notif, fila, agendadas, proc, ligado, falhas, observadores>>

Marcar(l) ==
    LET n == leit[l].n IN
    /\ n # Nada
    /\ Salva(n, leit[l].para, leit[l].tentativas)
    /\ IF EmRepouso(n)
       THEN quietas' = quietas \cup {n} /\ UNCHANGED agitadas
       ELSE agitadas' = agitadas \cup {n} /\ UNCHANGED quietas
    /\ leit' = [leit EXCEPT ![l] = LeitLivre]
    /\ UNCHANGED <<fila, agendadas, proc, ligado, falhas, entregas,
                   sobrepostas, semRegistro>>

\* marcarTodasComoLidas, one UPDATE; what was sent is ENVIADA, not NAO_LIDA.
marcarTodasComoLidas ==
    /\ \E n \in Notifs : notif[n].status = "NAO_LIDA"
    /\ notif' = [n \in Notifs |-> IF notif[n].status = "NAO_LIDA"
                                  THEN [notif[n] EXCEPT !.status = "LIDA"]
                                  ELSE notif[n]]
    /\ UNCHANGED <<fila, agendadas, proc, leit, ligado, falhas, observadores>>

\* limpezaNotificacoesAntigas: those read 30 days ago.
ArquivarAntigas ==
    /\ \E ns \in SUBSET {n \in Notifs : notif[n].status = "LIDA"} :
         /\ ns # {}
         /\ notif' = [n \in Notifs |-> IF n \in ns
                                       THEN [notif[n] EXCEPT !.status = "ARQUIVADA"]
                                       ELSE notif[n]]
    /\ UNCHANGED <<fila, agendadas, proc, leit, ligado, falhas, observadores>>

-----------------------------------------------------------------------------
(* Faults                                                                  *)

Falha == falhas < MaxFalhas /\ falhas' = falhas + 1

\* A save of the processing fails: the call ends, and the error is logged.
FalharSalvar(p) ==
    /\ Falha
    /\ proc[p].pc \in {"marcar", "salvar"}
    /\ semRegistro' = IF proc[p].pc = "salvar"
                      THEN semRegistro \cup {proc[p].n} ELSE semRegistro
    /\ proc' = [proc EXCEPT ![p] = ProcLivre]
    /\ UNCHANGED <<notif, fila, agendadas, leit, ligado, entregas, sobrepostas,
                   agitadas, quietas>>

\* The query of the start fails: the sweep is never set up.
FalharInicio ==
    /\ Falha
    /\ ligado = "iniciando"
    /\ ligado' = "sem_varredura"
    /\ UNCHANGED <<notif, fila, agendadas, proc, leit, observadores>>

\* The process stops and starts again, without its timers.
Reiniciar ==
    /\ Falha
    /\ ligado' = "iniciando"
    /\ fila' = [n \in Notifs |-> 0]
    /\ agendadas' = {}
    /\ proc' = [p \in Procs |-> ProcLivre]
    /\ leit' = [l \in Leitores |-> LeitLivre]
    /\ semRegistro' = semRegistro \cup
         {proc[p].n : p \in {q \in Procs : proc[q].pc \in {"enviar", "salvar"}}}
    /\ UNCHANGED <<notif, entregas, sobrepostas, agitadas, quietas>>

-----------------------------------------------------------------------------
Processar(p) ==
    \/ \E n \in Notifs : Ler(p, n)
    \/ MarcarEmProcessamento(p) \/ Enviar(p) \/ SalvarFim(p)

Next ==
    \/ IniciarFila
    \/ verificarNotificacoesPendentes
    \/ \E n \in Notifs : PassarTempo(n) \/ criarNotificacao(n) \/ criar(n)
    \/ \E p \in Procs : Processar(p) \/ FalharSalvar(p)
    \/ \E l \in Leitores : (\E n \in Notifs : LerParaMarcar(l, n)) \/ Marcar(l)
    \/ marcarTodasComoLidas
    \/ ArquivarAntigas
    \/ FalharInicio
    \/ Reiniciar

Spec == Init /\ [][Next]_vars

\* Timers fire, awaits are answered and time passes; readers owe nothing.
Justica ==
    /\ WF_vars(IniciarFila)
    /\ WF_vars(verificarNotificacoesPendentes)
    /\ \A n \in Notifs : WF_vars(PassarTempo(n))
    /\ \A p \in Procs : WF_vars(Processar(p))

SpecJusta == Spec /\ Justica

-----------------------------------------------------------------------------
(* Properties                                                              *)

TypeOK ==
    /\ notif \in [Notifs -> Linha]
    /\ fila \in [Notifs -> 0 .. MaxFila]
    /\ agendadas \subseteq Notifs
    /\ proc \in [Procs -> Processamento]
    /\ \A p \in Procs : proc[p].pc = "livre" <=> proc[p].n = Nada
    /\ leit \in [Leitores -> Leitura]
    /\ ligado \in {"iniciando", "ligado", "sem_varredura"}
    /\ falhas \in 0 .. MaxFalhas
    /\ entregas \in [Notifs -> 0 .. 2]
    /\ sobrepostas \subseteq Notifs
    /\ semRegistro \subseteq Notifs
    /\ agitadas \subseteq Notifs
    /\ quietas \subseteq Notifs

\* However many timers, sweeps, retries and starts queue a notification, it is
\* delivered once, unless two calls processed it at the same time, the end of
\* a delivery was not saved, or a mark of the user took the place of ENVIADA
\* while the process still had it to send.
EntregueUmaVez ==
    \A n \in Notifs : entregas[n] = 2 =>
                        n \in sobrepostas \cup semRegistro \cup agitadas

\* What a user marks when the process has nothing to do about it stays marked:
\* no sweep, start or scheduled timer takes the column back for the sending.
MarcaQuietaFica ==
    \A n \in quietas \ agitadas : notif[n].status \in Marcas

\* Every notification to send is in the end sent, given up after 3 attempts, or
\* marked by its user, unless a call lost it in EM_PROCESSAMENTO or the sweep
\* was never set up.
PendenteSeResolve ==
    \A n \in Notifs :
      notif[n].status = "PENDENTE" ~>
        \/ notif[n].status \in {"ENVIADA", "FALHA"} \cup Marcas
        \/ notif[n].status = "EM_PROCESSAMENTO" /\ n \in semRegistro
        \/ ligado = "sem_varredura"

=============================================================================
