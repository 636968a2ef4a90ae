------------------------ MODULE NotificacaoFila_proofs ------------------------
(***************************************************************************)
(* Proofs about NotificacaoFila. The argument goes notification by         *)
(* notification.                                                           *)
(***************************************************************************)
EXTENDS NotificacaoFila, TLAPS

-----------------------------------------------------------------------------
(* The inductive invariants                                                *)

\* What was marked with nothing to do about it is marked, and still rests.
QuietaInv(n) ==
    n \in quietas \ agitadas => notif[n].status \in Marcas /\ EmRepouso(n)

\* Calls that never overlapped are one at most.
UmaInv(n) ==
    n \notin sobrepostas =>
      \A p, q \in Procs : proc[p].n = n /\ proc[q].n = n => p = q

\* Where the one delivery of a notification is known: in the call that is
\* going to save it, in the row, or in the mark that took its place.
Excecao(n) == n \in sobrepostas \cup semRegistro \cup agitadas

RegistradaInv(n) ==
    \/ \E p \in Procs : /\ proc[p].n = n
                        /\ proc[p].pc = "salvar" /\ proc[p].novo = "ENVIADA"
    \/ ~EmVoo(n) /\ notif[n].status = "ENVIADA"
    \/ n \in quietas

EntregaInv(n) ==
    ~Excecao(n) => /\ entregas[n] \in {0, 1}
                   /\ entregas[n] = 1 => RegistradaInv(n)

NotifInv(n) == QuietaInv(n) /\ UmaInv(n) /\ EntregaInv(n)

IInv == TypeOK /\ \A n \in Notifs : NotifInv(n)

-----------------------------------------------------------------------------
(* Type correctness                                                        *)

LEMMA ProximaTipo ==
  ASSUME NEW t \in Tentativas
  PROVE  Proxima(t) \in Tentativas
  BY DEF Proxima, Tentativas

LEMMA EnfileiraTipo ==
  ASSUME fila \in [Notifs -> 0 .. MaxFila], NEW ns, Enfileira(ns)
  PROVE  fila' \in [Notifs -> 0 .. MaxFila]
  BY NotificacaoAssumption DEF Enfileira, Mais

LEMMA AgendaTipo ==
  ASSUME notif \in [Notifs -> Linha], NEW n \in Notifs, NEW a \in Datas,
         notif' = [notif EXCEPT ![n].agenda = a]
  PROVE  notif' \in [Notifs -> Linha]
<1>1. [notif[n] EXCEPT !.agenda = a] \in Linha
  BY DEF Linha
<1> QED
  BY <1>1

LEMMA CriacaoTipo ==
  ASSUME notif \in [Notifs -> Linha], NEW n \in Notifs, NEW a \in Datas,
         notif' = [notif EXCEPT ![n].status = "PENDENTE", ![n].agenda = a]
  PROVE  notif' \in [Notifs -> Linha]
<1>1. [notif[n] EXCEPT !.status = "PENDENTE", !.agenda = a] \in Linha
  BY DEF Linha, Status
<1> QED
  BY <1>1

LEMMA SalvaTipo ==
  ASSUME notif \in [Notifs -> Linha], NEW n \in Notifs, NEW s \in Status,
         NEW t \in Tentativas, Salva(n, s, t)
  PROVE  notif' \in [Notifs -> Linha]
  BY DEF Salva, Linha

LEMMA TypeInit == Init => TypeOK
  BY NotificacaoAssumption
  DEF Init, TypeOK, Linha, Status, Tentativas, Datas, Processamento, ProcLivre,
      Leitura, LeitLivre, Marcas

LEMMA TypeStep ==
  ASSUME TypeOK, [Next]_vars
  PROVE  TypeOK'
<1> USE NotificacaoAssumption DEF TypeOK, observadores
<1>1. CASE IniciarFila
  BY <1>1, EnfileiraTipo DEF IniciarFila, Recuperaveis, Pendentes
<1>2. CASE verificarNotificacoesPendentes
  BY <1>2, EnfileiraTipo DEF verificarNotificacoesPendentes
<1>3. ASSUME NEW n \in Notifs, PassarTempo(n)
      PROVE  TypeOK'
  <2>1. notif' \in [Notifs -> Linha]
    <3>1. PICK a \in Datas : notif' = [notif EXCEPT ![n].agenda = a]
      BY <1>3 DEF PassarTempo, Datas
    <3> QED
      BY <3>1, AgendaTipo, Zenon
  <2>2. fila' \in [Notifs -> 0 .. MaxFila] /\ agendadas' \subseteq Notifs
    BY <1>3, EnfileiraTipo DEF PassarTempo
  <2> QED
    BY <1>3, <2>1, <2>2 DEF PassarTempo
<1>4. ASSUME NEW n \in Notifs, criarNotificacao(n)
      PROVE  TypeOK'
  <2>1. PICK a \in Datas :
          notif' = [notif EXCEPT ![n].status = "PENDENTE", ![n].agenda = a]
    BY <1>4 DEF criarNotificacao
  <2>2. notif' \in [Notifs -> Linha]
    BY <2>1, CriacaoTipo, Zenon
  <2> QED
    BY <1>4, <2>2, EnfileiraTipo DEF criarNotificacao
<1>5. ASSUME NEW n \in Notifs, criar(n)
      PROVE  TypeOK'
  BY <1>5 DEF criar, Linha, Status
<1>6. ASSUME NEW p \in Procs, NEW n \in Notifs, Ler(p, n)
      PROVE  TypeOK'
  <2>1. fila' \in [Notifs -> 0 .. MaxFila]
    BY <1>6 DEF Ler
  <2>2. /\ proc' \in [Procs -> Processamento]
        /\ \A q \in Procs : proc'[q].pc = "livre" <=> proc'[q].n = Nada
    <3> DEFINE c == [pc |-> "marcar", n |-> n,
                     tentativas |-> Proxima(notif[n].tentativas),
                     novo |-> "PENDENTE"]
    <3>1. c \in Processamento /\ c.pc = "marcar" /\ c.n = n
      BY ProximaTipo DEF Processamento, Linha
    <3>2. proc' = [proc EXCEPT ![p] = c] \/ proc' = proc
      BY <1>6 DEF Ler
    <3> HIDE DEF c
    <3> QED
      BY <3>1, <3>2
  <2>3. sobrepostas' \subseteq Notifs
    BY <1>6 DEF Ler
  <2> QED
    BY <1>6, <2>1, <2>2, <2>3 DEF Ler
<1>7. ASSUME NEW p \in Procs, MarcarEmProcessamento(p)
      PROVE  TypeOK'
  <2>1. proc[p].n \in Notifs /\ proc[p].tentativas \in Tentativas
    BY <1>7 DEF MarcarEmProcessamento, Processamento
  <2>2. notif' \in [Notifs -> Linha]
    BY <1>7, <2>1, SalvaTipo DEF MarcarEmProcessamento, Status
  <2> QED
    BY <1>7, <2>2 DEF MarcarEmProcessamento, Processamento
<1>8. ASSUME NEW p \in Procs, Enviar(p)
      PROVE  TypeOK'
  <2>1. proc[p].n \in Notifs /\ Desistir(p) \in {"PENDENTE", "FALHA"}
    BY <1>8 DEF Enviar, Processamento, Desistir
  <2>2. /\ proc' \in [Procs -> Processamento]
        /\ \A q \in Procs : proc'[q].pc = "livre" <=> proc'[q].n = Nada
    BY <1>8, <2>1 DEF Enviar, Processamento
  <2>3. entregas' \in [Notifs -> 0 .. 2]
    BY <1>8, <2>1 DEF Enviar
  <2>4. fila' \in [Notifs -> 0 .. MaxFila]
    BY <1>8, EnfileiraTipo DEF Enviar
  <2> QED
    BY <1>8, <2>2, <2>3, <2>4 DEF Enviar
<1>9. ASSUME NEW p \in Procs, SalvarFim(p)
      PROVE  TypeOK'
  <2>1. /\ proc[p].n \in Notifs /\ proc[p].tentativas \in Tentativas
        /\ proc[p].novo \in Status
    BY <1>9 DEF SalvarFim, Processamento, Status
  <2>2. notif' \in [Notifs -> Linha]
    BY <1>9, <2>1, SalvaTipo DEF SalvarFim
  <2> QED
    BY <1>9, <2>2 DEF SalvarFim, Processamento, ProcLivre, Tentativas
<1>10. ASSUME NEW p \in Procs, FalharSalvar(p)
       PROVE  TypeOK'
  BY <1>10 DEF FalharSalvar, Falha, Processamento, ProcLivre, Tentativas
<1>11. ASSUME NEW l \in Leitores, NEW n \in Notifs, LerParaMarcar(l, n)
       PROVE  TypeOK'
  BY <1>11 DEF LerParaMarcar, Leitura, Linha
<1>12. ASSUME NEW l \in Leitores, Marcar(l)
       PROVE  TypeOK'
  <2>1. /\ leit[l].n \in Notifs /\ leit[l].para \in Status
        /\ leit[l].tentativas \in Tentativas
    BY <1>12 DEF Marcar, Leitura, Marcas, Status
  <2>2. notif' \in [Notifs -> Linha]
    BY <1>12, <2>1, SalvaTipo DEF Marcar
  <2>3. leit' \in [Leitores -> Leitura]
    BY <1>12 DEF Marcar, Leitura, LeitLivre, Marcas, Tentativas
  <2>4. quietas' \subseteq Notifs /\ agitadas' \subseteq Notifs
    BY <1>12, <2>1 DEF Marcar
  <2> QED
    BY <1>12, <2>2, <2>3, <2>4 DEF Marcar
<1>13. CASE marcarTodasComoLidas \/ ArquivarAntigas
  BY <1>13 DEF marcarTodasComoLidas, ArquivarAntigas, Linha, Status
<1>14. CASE FalharInicio
  BY <1>14 DEF FalharInicio, Falha
<1>15. CASE Reiniciar
  <2>1. semRegistro' \subseteq Notifs
    BY <1>15 DEF Reiniciar, Processamento
  <2> QED
    BY <1>15, <2>1
    DEF Reiniciar, Falha, Processamento, ProcLivre, Leitura, LeitLivre, Marcas,
        Tentativas
<1>16. CASE UNCHANGED vars
  BY <1>16 DEF vars
<1> QED
  BY <1>1, <1>2, <1>3, <1>4, <1>5, <1>6, <1>7, <1>8, <1>9, <1>10, <1>11, <1>12,
     <1>13, <1>14, <1>15, <1>16
  DEF Next, Processar

\* The types hold whatever the calls, readers, timers and faults are.
THEOREM TypeCorrect == Spec => []TypeOK
  BY TypeInit, TypeStep, PTL DEF Spec
-----------------------------------------------------------------------------
(* The invariant                                                           *)

LEMMA InvInit == Init => IInv
  BY TypeInit, NotificacaoAssumption
  DEF Init, IInv, NotifInv, QuietaInv, UmaInv, EntregaInv, Excecao, ProcLivre

\* A step that leaves the calls as they are, and gives the process nothing to
\* do about a notification that rests.
Calmo(i) ==
    /\ UNCHANGED <<proc, entregas, sobrepostas, semRegistro>>
    /\ EmRepouso(i) /\ notif[i].status \in Marcas => fila'[i] = 0 /\ i \notin agendadas'
    /\ notif[i].status \in Marcas => notif'[i].status \in Marcas

LEMMA CalmoInv ==
  ASSUME NEW i \in Notifs, NotifInv(i), Calmo(i),
         UNCHANGED <<quietas, agitadas>>,
         notif[i].status = "ENVIADA" => notif'[i].status = "ENVIADA"
  PROVE  NotifInv(i)'
  BY DEF Calmo, NotifInv, QuietaInv, UmaInv, EntregaInv, RegistradaInv, Excecao,
         EmRepouso, EmVoo

LEMMA AgendaStatus ==
  ASSUME notif \in [Notifs -> Linha], NEW n \in Notifs, NEW a,
         notif' = [notif EXCEPT ![n].agenda = a], NEW i \in Notifs
  PROVE  notif'[i].status = notif[i].status
  BY DEF Linha

LEMMA EnfileiraOutra ==
  ASSUME NEW ns, NEW i \in Notifs, Enfileira(ns), i \notin ns
  PROVE  fila'[i] = fila[i]
  BY DEF Enfileira

LEMMA InvStep ==
  ASSUME IInv, [Next]_vars
  PROVE  IInv'
<1> USE DEF IInv, observadores
<1>0. TypeOK'
  BY TypeStep
<1> SUFFICES ASSUME NEW i \in Notifs PROVE NotifInv(i)'
  BY <1>0
<1>a. NotifInv(i)
  OBVIOUS
<1>b. /\ notif \in [Notifs -> Linha]
      /\ fila \in [Notifs -> 0 .. MaxFila]
      /\ proc \in [Procs -> Processamento]
      /\ \A p \in Procs : proc[p].pc = "livre" <=> proc[p].n = Nada
      /\ entregas \in [Notifs -> 0 .. 2]
      /\ i # Nada
  BY NotificacaoAssumption DEF TypeOK
<1>1. CASE IniciarFila
  <2>1. Calmo(i)
    BY <1>1, <1>b
    DEF IniciarFila, Calmo, Recuperaveis, Pendentes, Enfileira, EmRepouso,
        Marcas
  <2> QED
    BY <1>1, <1>a, <2>1, CalmoInv DEF IniciarFila
<1>2. CASE verificarNotificacoesPendentes
  <2>1. Calmo(i)
    BY <1>2, <1>b
    DEF verificarNotificacoesPendentes, Calmo, Vencidas, Pendentes, Enfileira,
        EmRepouso, Marcas
  <2> QED
    BY <1>2, <1>a, <2>1, CalmoInv DEF verificarNotificacoesPendentes
<1>3. ASSUME NEW n \in Notifs, PassarTempo(n)
      PROVE  NotifInv(i)'
  <2>1. notif'[i].status = notif[i].status
    <3>1. PICK a \in Datas : notif' = [notif EXCEPT ![n].agenda = a]
      BY <1>3 DEF PassarTempo, Datas
    <3>2. notif \in [Notifs -> Linha]
      BY <1>b
    <3> QED
      BY <3>1, <3>2, AgendaStatus, Zenon
  <2>2. i \notin agendadas => i \notin agendadas' /\ fila'[i] = fila[i]
    BY <1>3, EnfileiraOutra DEF PassarTempo
  <2> QED
    BY <1>3, <1>a, <2>1, <2>2, CalmoInv DEF PassarTempo, Calmo, EmRepouso
<1>4. ASSUME NEW n \in Notifs, criarNotificacao(n)
      PROVE  NotifInv(i)'
  <2>1. PICK a \in Datas :
          notif' = [notif EXCEPT ![n].status = "PENDENTE", ![n].agenda = a]
    BY <1>4 DEF criarNotificacao
  <2>2. notif[i].status \in Marcas \cup {"ENVIADA"} =>
          i # n /\ notif'[i] = notif[i] /\ fila'[i] = fila[i]
    BY <1>4, <2>1, <1>b, EnfileiraOutra DEF criarNotificacao, Marcas
  <2> QED
    BY <1>4, <1>a, <2>2, CalmoInv DEF criarNotificacao, Calmo, EmRepouso
<1>5. ASSUME NEW n \in Notifs, criar(n)
      PROVE  NotifInv(i)'
  <2>1. notif[i].status \in Marcas \cup {"ENVIADA"} => notif'[i] = notif[i]
    BY <1>5, <1>b DEF criar, Marcas
  <2> QED
    BY <1>5, <1>a, <2>1, CalmoInv DEF criar, Calmo, EmRepouso
<1>6. ASSUME NEW p \in Procs, NEW n \in Notifs, Ler(p, n)
      PROVE  NotifInv(i)'
  <2>1. CASE i # n
    BY <1>6, <2>1, <1>a, <1>b
    DEF Ler, NotifInv, QuietaInv, UmaInv, EntregaInv, RegistradaInv, Excecao,
        EmRepouso, EmVoo
  <2>2. CASE i = n /\ ~DeveProcessar(n)
    <3>1. proc' = proc /\ sobrepostas' = sobrepostas
      BY <1>6, <2>2 DEF Ler
    <3>2. i \notin quietas \ agitadas
      BY <2>2, <1>a DEF DeveProcessar, NotifInv, QuietaInv, Marcas
    <3> QED
      BY <1>6, <2>2, <3>1, <3>2, <1>a
      DEF Ler, NotifInv, QuietaInv, UmaInv, EntregaInv, RegistradaInv, Excecao,
          EmVoo
  <2>3. CASE i = n /\ DeveProcessar(n)
    <3>1. i \notin quietas \ agitadas
      BY <1>6, <2>3, <1>a, <1>b DEF Ler, NotifInv, QuietaInv, EmRepouso
    <3>2. i \notin sobrepostas' => ~EmVoo(i)
      BY <1>6, <2>3 DEF Ler
    <3>3. UmaInv(i)'
      BY <1>6, <2>3, <3>2, <1>b DEF Ler, UmaInv, EmVoo
    <3>4. ~Excecao(i)' => entregas[i] = 0
      <4>1. ~Excecao(i)' => ~Excecao(i) /\ ~EmVoo(i)
        BY <1>6, <3>2 DEF Ler, Excecao
      <4>2. ~Excecao(i) /\ ~EmVoo(i) /\ entregas[i] = 1 =>
              notif[i].status = "ENVIADA" \/ i \in quietas \ agitadas
        BY <1>a DEF NotifInv, EntregaInv, RegistradaInv, EmVoo, Excecao
      <4> QED
        BY <2>3, <3>1, <4>1, <4>2, <1>a DEF DeveProcessar, NotifInv, EntregaInv
    <3> QED
      BY <1>6, <3>1, <3>3, <3>4 DEF Ler, NotifInv, QuietaInv, EntregaInv
  <2> QED
    BY <2>1, <2>2, <2>3
<1>7. ASSUME NEW p \in Procs, MarcarEmProcessamento(p)
      PROVE  NotifInv(i)'
  <2>1. \A q \in Procs : proc'[q].n = proc[q].n
    BY <1>7, <1>b DEF MarcarEmProcessamento, Processamento
  <2>2. CASE proc[p].n # i
    <3>1. notif'[i] = notif[i]
      BY <1>7, <2>2, <1>b DEF MarcarEmProcessamento, Salva
    <3>2. \A q \in Procs : proc[q].n = i => proc'[q] = proc[q]
      BY <1>7, <2>2, <1>b DEF MarcarEmProcessamento
    <3> QED
      BY <1>7, <2>1, <3>1, <3>2, <1>a
      DEF MarcarEmProcessamento, NotifInv, QuietaInv, UmaInv, EntregaInv,
          RegistradaInv, Excecao, EmRepouso, EmVoo
  <2>3. CASE proc[p].n = i
    <3>1. i \notin quietas \ agitadas
      BY <2>3, <1>a DEF NotifInv, QuietaInv, EmRepouso, EmVoo
    <3>2. ~Excecao(i) => entregas[i] = 0
      BY <1>7, <2>3, <3>1, <1>a
      DEF MarcarEmProcessamento, NotifInv, EntregaInv, RegistradaInv, UmaInv,
          EmVoo, Excecao
    <3> QED
      BY <1>7, <2>1, <3>1, <3>2, <1>a
      DEF MarcarEmProcessamento, NotifInv, QuietaInv, UmaInv, EntregaInv,
          Excecao
  <2> QED
    BY <2>2, <2>3
<1>8. ASSUME NEW p \in Procs, Enviar(p)
      PROVE  NotifInv(i)'
  <2>1. \A q \in Procs : proc'[q].n = proc[q].n
    BY <1>8, <1>b DEF Enviar, Processamento
  <2>2. CASE proc[p].n # i
    <3>1. entregas'[i] = entregas[i] /\ fila'[i] = fila[i]
      BY <1>8, <2>2, <1>b, EnfileiraOutra DEF Enviar
    <3>2. \A q \in Procs : proc[q].n = i => proc'[q] = proc[q]
      BY <1>8, <2>2, <1>b DEF Enviar
    <3> QED
      BY <1>8, <2>1, <3>1, <3>2, <1>a
      DEF Enviar, NotifInv, QuietaInv, UmaInv, EntregaInv, RegistradaInv,
          Excecao, EmRepouso, EmVoo
  <2>3. CASE proc[p].n = i
    <3>1. i \notin quietas \ agitadas
      BY <2>3, <1>a DEF NotifInv, QuietaInv, EmRepouso, EmVoo
    <3>2. ~Excecao(i) => entregas[i] = 0
      BY <1>8, <2>3, <3>1, <1>a
      DEF Enviar, NotifInv, EntregaInv, RegistradaInv, UmaInv, EmVoo, Excecao
    <3>3. \/ entregas'[i] = entregas[i]
          \/ /\ proc'[p].n = i /\ proc'[p].pc = "salvar"
             /\ proc'[p].novo = "ENVIADA"
             /\ entregas[i] = 0 => entregas'[i] = 1
      BY <1>8, <2>3, <1>b DEF Enviar, Processamento
    <3>4. ~Excecao(i) =>
            entregas'[i] \in {0, 1} /\ (entregas'[i] = 1 => RegistradaInv(i)')
      BY <3>2, <3>3 DEF RegistradaInv
    <3> QED
      BY <1>8, <2>1, <3>1, <3>4, <1>a
      DEF Enviar, NotifInv, QuietaInv, UmaInv, EntregaInv, Excecao
  <2> QED
    BY <2>2, <2>3
<1>9. ASSUME NEW p \in Procs, SalvarFim(p)
      PROVE  NotifInv(i)'
  <2>1. \A q \in Procs \ {p} : proc'[q] = proc[q]
    BY <1>9, <1>b DEF SalvarFim
  <2>2. proc'[p].n = Nada
    BY <1>9, <1>b DEF SalvarFim, ProcLivre
  <2>3. CASE proc[p].n # i
    <3>1. notif'[i] = notif[i]
      BY <1>9, <2>3, <1>b DEF SalvarFim, Salva
    <3> QED
      BY <1>9, <2>1, <2>2, <2>3, <3>1, <1>a, <1>b
      DEF SalvarFim, NotifInv, QuietaInv, UmaInv, EntregaInv, RegistradaInv,
          Excecao, EmRepouso, EmVoo
  <2>4. CASE proc[p].n = i
    <3>1. i \notin quietas \ agitadas
      BY <2>4, <1>a DEF NotifInv, QuietaInv, EmRepouso, EmVoo
    <3>2. notif'[i].status = proc[p].novo
      BY <1>9, <2>4, <1>b DEF SalvarFim, Salva, Linha
    <3>3. i \notin sobrepostas => ~EmVoo(i)'
      BY <2>1, <2>2, <2>4, <1>a, <1>b DEF NotifInv, UmaInv, EmVoo
    <3>4. ~Excecao(i) /\ entregas[i] = 1 => proc[p].novo = "ENVIADA"
      BY <2>4, <3>1, <1>a
      DEF NotifInv, EntregaInv, RegistradaInv, UmaInv, EmVoo, Excecao
    <3> QED
      BY <1>9, <3>1, <3>2, <3>3, <3>4, <1>a
      DEF SalvarFim, NotifInv, QuietaInv, UmaInv, EntregaInv, RegistradaInv,
          Excecao, EmVoo
  <2> QED
    BY <2>3, <2>4
<1>10. ASSUME NEW p \in Procs, FalharSalvar(p)
       PROVE  NotifInv(i)'
  <2>1. \A q \in Procs \ {p} : proc'[q] = proc[q]
    BY <1>10, <1>b DEF FalharSalvar
  <2>2. proc'[p].n = Nada
    BY <1>10, <1>b DEF FalharSalvar, ProcLivre
  <2>3. CASE i \in semRegistro' \/ proc[p].pc = "marcar" \/ proc[p].n # i
    <3>1. \A q \in Procs : proc[q].n = i /\ proc[q].pc = "salvar" =>
            i \in semRegistro' \/ proc'[q] = proc[q]
      BY <1>10, <2>1, <2>3 DEF FalharSalvar
    <3>2. semRegistro \subseteq semRegistro'
      BY <1>10 DEF FalharSalvar
    <3> QED
      BY <1>10, <2>1, <2>2, <3>1, <3>2, <1>a, <1>b
      DEF FalharSalvar, NotifInv, QuietaInv, UmaInv, EntregaInv, RegistradaInv,
          Excecao, EmRepouso, EmVoo
  <2> QED
    BY <1>10, <2>3, <1>b DEF FalharSalvar, Processamento
<1>11. ASSUME NEW l \in Leitores, NEW n \in Notifs, LerParaMarcar(l, n)
       PROVE  NotifInv(i)'
  BY <1>11, <1>a, CalmoInv DEF LerParaMarcar, Calmo, EmRepouso
<1>12. ASSUME NEW l \in Leitores, Marcar(l)
       PROVE  NotifInv(i)'
  <2>1. leit[l].n \in Notifs /\ leit[l].para \in Marcas
    BY <1>12 DEF Marcar, TypeOK, Leitura
  <2>2. CASE leit[l].n # i
    <3>1. notif'[i] = notif[i]
      BY <1>12, <2>1, <2>2, <1>b DEF Marcar, Salva
    <3>2. (i \in quietas' <=> i \in quietas) /\ (i \in agitadas' <=> i \in agitadas)
      BY <1>12, <2>2 DEF Marcar
    <3> QED
      BY <1>12, <3>1, <3>2, <1>a
      DEF Marcar, NotifInv, QuietaInv, UmaInv, EntregaInv, RegistradaInv,
          Excecao, EmRepouso, EmVoo
  <2>3. CASE leit[l].n = i
    <3>1. notif'[i].status \in Marcas
      BY <1>12, <2>1, <2>3, <1>b DEF Marcar, Salva, Linha
    <3>2. \/ EmRepouso(i) /\ i \in quietas' /\ agitadas' = agitadas
          \/ i \in agitadas'
      BY <1>12, <2>3 DEF Marcar
    <3>3. EmRepouso(i)' = EmRepouso(i)
      BY <1>12 DEF Marcar, EmRepouso, EmVoo
    <3> QED
      BY <1>12, <3>1, <3>2, <3>3, <1>a
      DEF Marcar, NotifInv, QuietaInv, UmaInv, EntregaInv, RegistradaInv,
          Excecao
  <2> QED
    BY <2>2, <2>3
<1>13. CASE marcarTodasComoLidas \/ ArquivarAntigas
  <2>1. /\ notif[i].status \in Marcas => notif'[i].status \in Marcas
        /\ notif[i].status = "ENVIADA" => notif'[i].status = "ENVIADA"
    BY <1>13, <1>b DEF marcarTodasComoLidas, ArquivarAntigas, Marcas, Linha
  <2> QED
    BY <1>13, <1>a, <2>1, CalmoInv
    DEF marcarTodasComoLidas, ArquivarAntigas, Calmo, EmRepouso
<1>14. CASE FalharInicio
  BY <1>14, <1>a, CalmoInv DEF FalharInicio, Calmo, EmRepouso
<1>15. CASE Reiniciar
  <2>1. \A q \in Procs : proc'[q].n = Nada
    BY <1>15 DEF Reiniciar, ProcLivre
  <2>2. \A q \in Procs : proc[q].n = i /\ proc[q].pc = "salvar" =>
          i \in semRegistro'
    BY <1>15 DEF Reiniciar
  <2>3. fila'[i] = 0 /\ agendadas' = {} /\ semRegistro \subseteq semRegistro'
    BY <1>15 DEF Reiniciar
  <2> QED
    BY <1>15, <2>1, <2>2, <2>3, <1>a, <1>b
    DEF Reiniciar, NotifInv, QuietaInv, UmaInv, EntregaInv, RegistradaInv,
        Excecao, EmRepouso, EmVoo
<1>16. CASE UNCHANGED vars
  BY <1>16, <1>a, CalmoInv DEF vars, Calmo, EmRepouso
<1> QED
  BY <1>1, <1>2, <1>3, <1>4, <1>5, <1>6, <1>7, <1>8, <1>9, <1>10, <1>11, <1>12,
     <1>13, <1>14, <1>15, <1>16
  DEF Next, Processar

LEMMA InvSempre == Spec => []IInv
  BY InvInit, InvStep, PTL DEF Spec

\* A notification is delivered once, with the exceptions named.
THEOREM EntregueSempreUmaVez == Spec => []EntregueUmaVez
<1>1. IInv => EntregueUmaVez
  BY DEF IInv, NotifInv, EntregaInv, Excecao, EntregueUmaVez
<1> QED
  BY <1>1, InvSempre, PTL

\* What is marked with nothing to do about it stays marked.
THEOREM MarcaSempreFica == Spec => []MarcaQuietaFica
<1>1. IInv => MarcaQuietaFica
  BY DEF IInv, TypeOK, NotifInv, QuietaInv, MarcaQuietaFica
<1> QED
  BY <1>1, InvSempre, PTL

=============================================================================
