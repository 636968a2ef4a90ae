------------------------- MODULE DownloadLote_proofs -------------------------
(***************************************************************************)
(* Proofs about DownloadLote. The argument goes job by job: JobInv relates *)
(* the row, the worker, the directory and the lists of the sweeps.         *)
(***************************************************************************)
EXTENDS DownloadLote, FiniteSetTheorems, TLAPS

-----------------------------------------------------------------------------
(* The inductive invariant                                                 *)

\* A row that was not inserted yet has nothing.
NaoCriadoInv(j) ==
    job[j].status = "inexistente" =>
      /\ ~job[j].caminho /\ ~job[j].expirado
      /\ trab[j] = "nenhum"
      /\ \A v \in Varreduras : lista[v][j] = "fora"

\* A worker goes on only while its job has not ended by its hand, and it
\* concludes with the ZIP closed.
TrabalhoInv(j) ==
    /\ trab[j] # "nenhum" => ~job[j].caminho /\ job[j].status # "erro"
    /\ trab[j] = "concluir" => dir[j] = "completo"

\* caminho_arquivo is written with CONCLUDED, and until the time of the row is
\* over the directory is the one it points to.
RegistroInv(j) ==
    /\ job[j].status = "concluido" => job[j].caminho
    /\ job[j].caminho /\ ~job[j].expirado => dir[j] = "completo"
    /\ job[j].expirado /\ ~job[j].caminho => j \in incompletos
    /\ dir[j] = "vazio" => j \in incompletos

\* What a sweep read of a row, and what it has done about it.
ListaInv(j) ==
    \A v \in Varreduras :
      /\ lista[v][j] # "fora" => job[j].expirado
      /\ lista[v][j] \in {"com", "removendo"} => job[j].caminho
      /\ lista[v][j] = "removendo" => dir[j] = "nada" \/ j \in incompletos
      /\ lista[v][j] = "sem" => j \in incompletos

\* A row removed with its file went after its directory.
RemovidoInv(j) ==
    job[j].status = "removido" /\ j \notin incompletos =>
      job[j].caminho /\ dir[j] = "nada"

JobInv(j) ==
    /\ NaoCriadoInv(j)
    /\ TrabalhoInv(j)
    /\ RegistroInv(j)
    /\ ListaInv(j)
    /\ RemovidoInv(j)

IInv == TypeOK /\ \A j \in Jobs : JobInv(j)
-----------------------------------------------------------------------------
(* Type correctness                                                        *)

LEMMA TypeInit == Init => TypeOK
  BY DownloadAssumption
  DEF Init, TypeOK, Job, Existe, StatusDownloadLote, Passos, Vazia

LinhasOK ==
    job \in [Jobs -> Job] /\ \A i \in Jobs : Existe(i) => job[i].dono \in Usuarios

\* A step that gives job j the row l.
LEMMA LinhaTipo ==
  ASSUME LinhasOK, NEW j \in Jobs, NEW l \in Job,
         l.status \in StatusDownloadLote => l.dono \in Usuarios,
         job' = [job EXCEPT ![j] = l]
  PROVE  LinhasOK'
<1>1. job' \in [Jobs -> Job]
  BY DEF LinhasOK
<1>2. ASSUME NEW i \in Jobs, Existe(i)'
      PROVE  job'[i].dono \in Usuarios
  BY <1>2 DEF LinhasOK, Existe
<1> QED
  BY <1>1, <1>2 DEF LinhasOK

\* The rows that the updates make of a row.
LEMMA LinhaStatus ==
  ASSUME NEW x \in Job, NEW s \in StatusDownloadLote \cup {"removido"}
  PROVE  [x EXCEPT !.status = s] \in Job /\ [x EXCEPT !.status = s].dono = x.dono
  BY DEF Job

LEMMA LinhaCriada ==
  ASSUME NEW x \in Job, NEW u \in Usuarios
  PROVE  /\ [x EXCEPT !.status = "pendente", !.dono = u] \in Job
         /\ [x EXCEPT !.status = "pendente", !.dono = u].dono = u
  BY DEF Job, StatusDownloadLote

LEMMA LinhaConcluida ==
  ASSUME NEW x \in Job
  PROVE  LET l == [x EXCEPT !.status = "concluido", !.caminho = TRUE]
         IN  l \in Job /\ l.dono = x.dono
  BY DEF Job, StatusDownloadLote

LEMMA LinhaExpirada ==
  ASSUME NEW x \in Job
  PROVE  /\ [x EXCEPT !.expirado = TRUE] \in Job
         /\ [x EXCEPT !.expirado = TRUE].dono = x.dono
  BY DEF Job

LEMMA AtualizaTipo ==
  ASSUME LinhasOK, NEW j \in Jobs, NEW s \in StatusDownloadLote, Atualiza(j, s)
  PROVE  LinhasOK'
<1> DEFINE l == [job[j] EXCEPT !.status = s]
<1>1. CASE Existe(j)
  <2>0. job[j] \in Job
    BY DEF LinhasOK
  <2>1. l \in Job /\ l.dono = job[j].dono
    BY <2>0, LinhaStatus
  <2>2. job' = [job EXCEPT ![j] = l]
    BY <1>1 DEF Atualiza
  <2> QED
    BY <1>1, <2>1, <2>2, LinhaTipo DEF LinhasOK
<1>2. CASE ~Existe(j)
  BY <1>2 DEF Atualiza, LinhasOK, Existe
<1> QED
  BY <1>1, <1>2

LEMMA TypeStep ==
  ASSUME TypeOK, [Next]_vars
  PROVE  TypeOK'
<1> USE DownloadAssumption DEF TypeOK, observadores
<1>0. LinhasOK
  BY DEF LinhasOK
<1>1. ASSUME NEW r \in Reqs, PodeIniciarJob(r)
      PROVE  TypeOK'
  BY <1>1 DEF PodeIniciarJob, Existe
<1>2. ASSUME NEW r \in Reqs, RecusarFiltros(r)
      PROVE  TypeOK'
  BY <1>2 DEF RecusarFiltros, Existe
<1>3. ASSUME NEW r \in Reqs, CriarJob(r)
      PROVE  TypeOK'
  <2>1. PICK j \in Jobs :
          /\ job' = [job EXCEPT ![j].status = "pendente", ![j].dono = ini[r]]
          /\ Vai(j, "nenhum", "ler")
    BY <1>3 DEF CriarJob
  <2> DEFINE l == [job[j] EXCEPT !.status = "pendente", !.dono = ini[r]]
  <2>2. ini[r] \in Usuarios
    BY <1>3 DEF CriarJob
  <2>3. l \in Job /\ l.dono = ini[r]
    <3>1. job[j] \in Job
      BY <1>0 DEF LinhasOK
    <3> QED
      BY <2>2, <3>1, LinhaCriada, Zenon
  <2>4. job' = [job EXCEPT ![j] = l]
    BY <2>1
  <2>5. LinhasOK'
    BY <1>0, <2>2, <2>3, <2>4, LinhaTipo
  <2> QED
    BY <1>3, <2>1, <2>5 DEF CriarJob, Vai, Passos, LinhasOK
<1>4. ASSUME NEW j \in Jobs, LerJob(j)
      PROVE  TypeOK'
  BY <1>4 DEF LerJob, Vai, Existe, Passos
<1>5. ASSUME NEW j \in Jobs, MarcarProcessando(j)
      PROVE  TypeOK'
  <2>1. LinhasOK'
    BY <1>0, <1>5, AtualizaTipo DEF MarcarProcessando, StatusDownloadLote
  <2>2. ressuscitado' \subseteq Usuarios
    BY <1>5 DEF MarcarProcessando, Existe, StatusDownloadLote
  <2> QED
    BY <1>5, <2>1, <2>2 DEF MarcarProcessando, Vai, Passos, LinhasOK
<1>6. ASSUME NEW j \in Jobs, Consultar(j)
      PROVE  TypeOK'
  BY <1>6 DEF Consultar, Vai, Existe, Passos
<1>7. ASSUME NEW j \in Jobs, Zipar(j)
      PROVE  TypeOK'
  BY <1>7 DEF Zipar, Vai, Existe, Passos
<1>8. ASSUME NEW j \in Jobs, Concluir(j)
      PROVE  TypeOK'
  <2> DEFINE l == [job[j] EXCEPT !.status = "concluido", !.caminho = TRUE]
  <2>1. ASSUME Existe(j)
        PROVE  LinhasOK'
    <3>1. l \in Job /\ l.dono = job[j].dono
      <4>1. job[j] \in Job
        BY <1>0 DEF LinhasOK
      <4> QED
        BY <4>1, LinhaConcluida, Zenon
    <3>2. job' = [job EXCEPT ![j] = l]
      BY <1>8, <2>1 DEF Concluir
    <3> QED
      BY <1>0, <2>1, <3>1, <3>2, LinhaTipo
  <2>2. ASSUME ~Existe(j)
        PROVE  LinhasOK'
    BY <1>0, <1>8, <2>2 DEF Concluir, LinhasOK, Existe
  <2>3. LinhasOK'
    BY <2>1, <2>2
  <2> QED
    BY <1>8, <2>3 DEF Concluir, Vai, Passos, LinhasOK
<1>9. ASSUME NEW j \in Jobs, markJobAsFailedInDB(j)
      PROVE  TypeOK'
  <2>1. LinhasOK'
    BY <1>0, <1>9, AtualizaTipo DEF markJobAsFailedInDB, StatusDownloadLote
  <2> QED
    BY <1>9, <2>1 DEF markJobAsFailedInDB, Vai, Passos, LinhasOK
<1>10. ASSUME NEW j \in Jobs, LerCancelamento(j)
       PROVE  TypeOK'
  BY <1>10 DEF LerCancelamento, Existe
<1>11. ASSUME NEW j \in Jobs, GravarCancelamento(j)
       PROVE  TypeOK'
  <2>1. LinhasOK'
    BY <1>0, <1>11, AtualizaTipo DEF GravarCancelamento, StatusDownloadLote
  <2> QED
    BY <1>11, <2>1 DEF GravarCancelamento, LinhasOK
<1>12. ASSUME NEW j \in Jobs, Expirar(j)
       PROVE  TypeOK'
  <2> DEFINE l == [job[j] EXCEPT !.expirado = TRUE]
  <2>0. job[j] \in Job
    BY <1>0 DEF LinhasOK
  <2>1. l \in Job /\ l.dono = job[j].dono
    BY <2>0, LinhaExpirada, Zenon
  <2>2. job' = [job EXCEPT ![j] = l]
    BY <1>12 DEF Expirar
  <2>3. LinhasOK'
    BY <1>0, <1>12, <2>1, <2>2, LinhaTipo DEF Expirar
  <2> QED
    BY <1>12, <2>3 DEF Expirar, LinhasOK
<1>13. ASSUME NEW v \in Varreduras, Listar(v)
       PROVE  TypeOK'
  BY <1>13 DEF Listar, Existe
<1>14. ASSUME NEW v \in Varreduras, NEW j \in Jobs, ApagarDiretorio(v, j)
       PROVE  TypeOK'
  BY <1>14 DEF ApagarDiretorio, Existe
<1>15. ASSUME NEW v \in Varreduras, NEW j \in Jobs, RemoverLinha(v, j)
       PROVE  TypeOK'
  <2> DEFINE l == [job[j] EXCEPT !.status = "removido"]
  <2>1. l \in Job /\ l.status \notin StatusDownloadLote
    <3>1. job[j] \in Job
      BY <1>0 DEF LinhasOK
    <3>2. l \in Job
      BY <3>1, LinhaStatus
    <3>3. l.status = "removido"
      BY <3>1 DEF Job
    <3> QED
      BY <3>2, <3>3 DEF StatusDownloadLote
  <2>2. job' = [job EXCEPT ![j] = l]
    BY <1>15 DEF RemoverLinha
  <2>3. LinhasOK'
    BY <1>0, <2>1, <2>2, LinhaTipo
  <2> QED
    BY <1>15, <2>3 DEF RemoverLinha, LinhasOK
<1>16. ASSUME NEW j \in Jobs, FalharTrabalho(j)
       PROVE  TypeOK'
  BY <1>16 DEF FalharTrabalho, Falha, Vai, Existe, Passos
<1>17. ASSUME NEW v \in Varreduras, NEW j \in Jobs, FalharRemocao(v, j)
       PROVE  TypeOK'
  BY <1>17 DEF FalharRemocao, Falha, Existe
<1>18. CASE Reiniciar
  BY <1>18 DEF Reiniciar, Falha, Existe, Passos, Vazia
<1>19. CASE UNCHANGED vars
  BY <1>19 DEF vars, Existe
<1> QED
  BY <1>1, <1>2, <1>3, <1>4, <1>5, <1>6, <1>7, <1>8, <1>9, <1>10, <1>11, <1>12,
     <1>13, <1>14, <1>15, <1>16, <1>17, <1>18, <1>19
  DEF Next, Trabalhar, Limpar

\* The types hold whatever the users, timers, faults and limits are.
THEOREM TypeCorrect == Spec => []TypeOK
  BY TypeInit, TypeStep, PTL DEF Spec

-----------------------------------------------------------------------------
(* The invariant                                                           *)

LEMMA InvInit == Init => IInv
  BY TypeInit
  DEF Init, IInv, JobInv, NaoCriadoInv, TrabalhoInv, RegistroInv, ListaInv,
      RemovidoInv, Vazia

\* Nothing of job i changes, but for the observers and the lists.
Parado(i) ==
    /\ job'[i] = job[i] /\ dir'[i] = dir[i] /\ trab'[i] = trab[i]
    /\ incompletos \subseteq incompletos'

LEMMA ParadoInv ==
  ASSUME NEW i \in Jobs, JobInv(i), Parado(i),
         \A v \in Varreduras : lista'[v][i] \in {"fora", lista[v][i]}
  PROVE  JobInv(i)'
  BY DEF Parado, JobInv, NaoCriadoInv, TrabalhoInv, RegistroInv, ListaInv,
         RemovidoInv

LEMMA InvStep ==
  ASSUME IInv, [Next]_vars
  PROVE  IInv'
<1> USE DEF IInv, observadores
<1>0. TypeOK'
  BY TypeStep
<1> SUFFICES ASSUME NEW i \in Jobs PROVE JobInv(i)'
  BY <1>0
<1>a. JobInv(i)
  OBVIOUS
<1>b. /\ job \in [Jobs -> Job]
      /\ dir \in [Jobs -> {"nada", "parcial", "completo", "vazio"}]
      /\ trab \in [Jobs -> Passos]
      /\ lista \in [Varreduras -> [Jobs -> {"fora", "sem", "com", "removendo"}]]
  BY DEF TypeOK
<1>1. ASSUME NEW r \in Reqs, PodeIniciarJob(r) \/ RecusarFiltros(r)
      PROVE  JobInv(i)'
  BY <1>1, <1>a, ParadoInv DEF PodeIniciarJob, RecusarFiltros, Parado
<1>2. ASSUME NEW r \in Reqs, CriarJob(r)
      PROVE  JobInv(i)'
  <2>1. PICK j \in Jobs :
          /\ job[j].status = "inexistente"
          /\ job' = [job EXCEPT ![j].status = "pendente", ![j].dono = ini[r]]
          /\ Vai(j, "nenhum", "ler")
    BY <1>2 DEF CriarJob
  <2>2. CASE i # j
    BY <1>2, <2>1, <2>2, <1>a, <1>b, ParadoInv DEF CriarJob, Parado, Vai
  <2>3. CASE i = j
    BY <1>2, <2>1, <2>3, <1>a, <1>b
    DEF CriarJob, Vai, Job, JobInv, NaoCriadoInv, TrabalhoInv, RegistroInv,
        ListaInv, RemovidoInv
  <2> QED
    BY <2>2, <2>3
<1>3. ASSUME NEW j \in Jobs, LerJob(j)
      PROVE  JobInv(i)'
  BY <1>3, <1>a, <1>b
  DEF LerJob, Vai, JobInv, NaoCriadoInv, TrabalhoInv, RegistroInv, ListaInv,
      RemovidoInv
<1>4. ASSUME NEW j \in Jobs, MarcarProcessando(j)
      PROVE  JobInv(i)'
  <2>1. CASE i # j
    BY <1>4, <2>1, <1>a, <1>b, ParadoInv
    DEF MarcarProcessando, Parado, Vai, Atualiza
  <2>2. CASE i = j
    BY <1>4, <2>2, <1>a, <1>b
    DEF MarcarProcessando, Vai, Atualiza, Job, JobInv, NaoCriadoInv,
        TrabalhoInv, RegistroInv, ListaInv, RemovidoInv, Existe,
        StatusDownloadLote
  <2> QED
    BY <2>1, <2>2
<1>5. ASSUME NEW j \in Jobs, Consultar(j) \/ Zipar(j)
      PROVE  JobInv(i)'
  <2>1. CASE i # j
    BY <1>5, <2>1, <1>a, <1>b, ParadoInv DEF Consultar, Zipar, Parado, Vai
  <2>2. CASE i = j
    BY <1>5, <2>2, <1>a, <1>b
    DEF Consultar, Zipar, Vai, JobInv, NaoCriadoInv, TrabalhoInv, RegistroInv,
        ListaInv, RemovidoInv
  <2> QED
    BY <2>1, <2>2
<1>6. ASSUME NEW j \in Jobs, Concluir(j)
      PROVE  JobInv(i)'
  <2>1. CASE i # j
    BY <1>6, <2>1, <1>a, <1>b, ParadoInv DEF Concluir, Parado, Vai
  <2>2. CASE i = j /\ Existe(j)
    BY <1>6, <2>2, <1>a, <1>b
    DEF Concluir, Vai, Job, JobInv, NaoCriadoInv, TrabalhoInv, RegistroInv,
        ListaInv, RemovidoInv, Existe, StatusDownloadLote
  <2>3. CASE i = j /\ ~Existe(j)
    BY <1>6, <2>3, <1>a, <1>b
    DEF Concluir, Vai, JobInv, NaoCriadoInv, TrabalhoInv, RegistroInv,
        ListaInv, RemovidoInv
  <2> QED
    BY <2>1, <2>2, <2>3
<1>7. ASSUME NEW j \in Jobs, markJobAsFailedInDB(j)
      PROVE  JobInv(i)'
  <2>1. CASE i # j
    BY <1>7, <2>1, <1>a, <1>b, ParadoInv
    DEF markJobAsFailedInDB, Parado, Vai, Atualiza
  <2>2. CASE i = j
    BY <1>7, <2>2, <1>a, <1>b
    DEF markJobAsFailedInDB, Vai, Atualiza, Job, JobInv, NaoCriadoInv,
        TrabalhoInv, RegistroInv, ListaInv, RemovidoInv, Existe,
        StatusDownloadLote
  <2> QED
    BY <2>1, <2>2
<1>8. ASSUME NEW j \in Jobs, LerCancelamento(j)
      PROVE  JobInv(i)'
  BY <1>8, <1>a, ParadoInv DEF LerCancelamento, Parado
<1>9. ASSUME NEW j \in Jobs, GravarCancelamento(j)
      PROVE  JobInv(i)'
  <2>1. CASE i # j
    BY <1>9, <2>1, <1>a, <1>b, ParadoInv
    DEF GravarCancelamento, Parado, Atualiza
  <2>2. CASE i = j
    BY <1>9, <2>2, <1>a, <1>b
    DEF GravarCancelamento, Atualiza, Job, JobInv, NaoCriadoInv, TrabalhoInv,
        RegistroInv, ListaInv, RemovidoInv, Existe, StatusDownloadLote
  <2> QED
    BY <2>1, <2>2
<1>10. ASSUME NEW j \in Jobs, Expirar(j)
       PROVE  JobInv(i)'
  <2>1. CASE i # j
    BY <1>10, <2>1, <1>a, <1>b, ParadoInv DEF Expirar, Parado
  <2>2. CASE i = j
    BY <1>10, <2>2, <1>a, <1>b
    DEF Expirar, Job, JobInv, NaoCriadoInv, TrabalhoInv, RegistroInv, ListaInv,
        RemovidoInv, Existe, StatusDownloadLote
  <2> QED
    BY <2>1, <2>2
<1>11. ASSUME NEW v \in Varreduras, Listar(v)
       PROVE  JobInv(i)'
  <2>1. ASSUME NEW w \in Varreduras
        PROVE  \/ lista'[w][i] \in {"fora", lista[w][i]}
               \/ /\ i \in Expirados
                  /\ \/ lista'[w][i] = "com" /\ job[i].caminho
                     \/ lista'[w][i] = "sem" /\ ~job[i].caminho
    BY <1>11, <1>b DEF Listar
  <2> QED
    BY <1>11, <2>1, <1>a, <1>b
    DEF Listar, Expirados, Existe, StatusDownloadLote, Job, JobInv,
        NaoCriadoInv, TrabalhoInv, RegistroInv, ListaInv, RemovidoInv
<1>12. ASSUME NEW v \in Varreduras, NEW j \in Jobs, ApagarDiretorio(v, j)
       PROVE  JobInv(i)'
  <2>1. CASE i # j
    BY <1>12, <2>1, <1>a, <1>b, ParadoInv DEF ApagarDiretorio, Parado
  <2>2. CASE i = j
    BY <1>12, <2>2, <1>a, <1>b
    DEF ApagarDiretorio, JobInv, NaoCriadoInv, TrabalhoInv, RegistroInv,
        ListaInv, RemovidoInv
  <2> QED
    BY <2>1, <2>2
<1>13. ASSUME NEW v \in Varreduras, NEW j \in Jobs, RemoverLinha(v, j)
       PROVE  JobInv(i)'
  <2>1. CASE i # j
    BY <1>13, <2>1, <1>a, <1>b, ParadoInv DEF RemoverLinha, Parado
  <2>2. CASE i = j
    BY <1>13, <2>2, <1>a, <1>b
    DEF RemoverLinha, Job, JobInv, NaoCriadoInv, TrabalhoInv, RegistroInv,
        ListaInv, RemovidoInv
  <2> QED
    BY <2>1, <2>2
<1>14. ASSUME NEW j \in Jobs, FalharTrabalho(j)
       PROVE  JobInv(i)'
  BY <1>14, <1>a, <1>b
  DEF FalharTrabalho, Vai, JobInv, NaoCriadoInv, TrabalhoInv, RegistroInv,
      ListaInv, RemovidoInv
<1>15. ASSUME NEW v \in Varreduras, NEW j \in Jobs, FalharRemocao(v, j)
       PROVE  JobInv(i)'
  <2>1. CASE i # j
    BY <1>15, <2>1, <1>a, <1>b, ParadoInv DEF FalharRemocao, Parado
  <2>2. CASE i = j
    BY <1>15, <2>2, <1>a, <1>b
    DEF FalharRemocao, JobInv, NaoCriadoInv, TrabalhoInv, RegistroInv,
        ListaInv, RemovidoInv
  <2> QED
    BY <2>1, <2>2
<1>16. CASE Reiniciar
  BY <1>16, <1>a, <1>b
  DEF Reiniciar, Vazia, JobInv, NaoCriadoInv, TrabalhoInv, RegistroInv,
      ListaInv, RemovidoInv
<1>17. CASE UNCHANGED vars
  BY <1>17, <1>a, ParadoInv DEF vars, Parado
<1> QED
  BY <1>1, <1>2, <1>3, <1>4, <1>5, <1>6, <1>7, <1>8, <1>9, <1>10, <1>11,
     <1>12, <1>13, <1>14, <1>15, <1>16, <1>17
  DEF Next, Trabalhar, Limpar

LEMMA InvSempre == Spec => []IInv
  BY InvInit, InvStep, PTL DEF Spec

\* While its time is not over, a job shown as concluded has its whole ZIP.
THEOREM ArquivoSempre == Spec => []ArquivoPronto
<1>1. IInv => ArquivoPronto
  BY DEF IInv, JobInv, RegistroInv, ArquivoPronto
<1> QED
  BY <1>1, InvSempre, PTL

\* The sweeps leave no directory behind of a job that had its file in time.
THEOREM SobraSempre == Spec => []SobraSoDeIncompleto
<1>1. IInv => SobraSoDeIncompleto
  BY DEF IInv, JobInv, RemovidoInv, SobraSoDeIncompleto
<1> QED
  BY <1>1, InvSempre, PTL

-----------------------------------------------------------------------------
(* The action property                                                     *)

Encerrado(j) == job[j].status \in {"concluido", "erro", "cancelado"}

\* What the property allows to an ended job.
MudancaPermitida(j) ==
    \/ job'[j].status = job[j].status
    \/ job'[j].status = "removido" /\ job[j].expirado
    \/ job'[j].status = "cancelado" /\ j \in cancelando
    \/ job[j].status = "cancelado" /\ trab[j] # "nenhum"

LEMMA EncerradoStep ==
  ASSUME IInv, [Next]_vars, NEW i \in Jobs, Encerrado(i)
  PROVE  MudancaPermitida(i)
<1> USE DEF IInv, observadores
<1>a. JobInv(i)
  OBVIOUS
<1>b. job \in [Jobs -> Job]
  BY DEF TypeOK
<1>c. trab[i] = "nenhum" \/ job[i].status = "cancelado"
  BY <1>a DEF JobInv, TrabalhoInv, RegistroInv, Encerrado
<1>1. ASSUME NEW r \in Reqs, CriarJob(r)
      PROVE  MudancaPermitida(i)
  BY <1>1, <1>b DEF CriarJob, Job, Encerrado, MudancaPermitida
<1>2. ASSUME NEW j \in Jobs, MarcarProcessando(j) \/ markJobAsFailedInDB(j)
      PROVE  MudancaPermitida(i)
  BY <1>2, <1>b, <1>c
  DEF MarcarProcessando, markJobAsFailedInDB, Vai, Atualiza, Job,
      MudancaPermitida
<1>3. ASSUME NEW j \in Jobs, Concluir(j)
      PROVE  MudancaPermitida(i)
  BY <1>3, <1>b, <1>c DEF Concluir, Vai, Job, MudancaPermitida
<1>4. ASSUME NEW j \in Jobs, GravarCancelamento(j)
      PROVE  MudancaPermitida(i)
  BY <1>4, <1>b DEF GravarCancelamento, Atualiza, Job, MudancaPermitida
<1>5. ASSUME NEW j \in Jobs, Expirar(j)
      PROVE  MudancaPermitida(i)
  BY <1>5, <1>b DEF Expirar, Job, MudancaPermitida
<1>6. ASSUME NEW v \in Varreduras, NEW j \in Jobs, RemoverLinha(v, j)
      PROVE  MudancaPermitida(i)
  BY <1>6, <1>a, <1>b
  DEF RemoverLinha, Job, JobInv, ListaInv, MudancaPermitida
<1>7. ASSUME UNCHANGED job
      PROVE  MudancaPermitida(i)
  BY <1>7 DEF MudancaPermitida
<1> QED
  BY <1>1, <1>2, <1>3, <1>4, <1>5, <1>6, <1>7
  DEF Next, vars, Trabalhar, Limpar, PodeIniciarJob, RecusarFiltros, LerJob,
      Consultar, Zipar, LerCancelamento, Listar, ApagarDiretorio,
      FalharTrabalho, FalharRemocao, Reiniciar

\* An ended job changes only by the sweep, by a cancellation that had read it
\* active, or, if it was cancelled, by its own worker.
THEOREM EncerradoSempreFica == Spec => EncerradoFica
<1>1. IInv /\ [Next]_vars =>
        [\A j \in Jobs :
           /\ job[j].status \in {"concluido", "erro", "cancelado"}
           /\ job'[j].status # job[j].status
           => \/ job'[j].status = "removido" /\ job[j].expirado
              \/ job'[j].status = "cancelado" /\ j \in cancelando
              \/ job[j].status = "cancelado" /\ trab[j] # "nenhum"]_vars
  BY EncerradoStep DEF Encerrado, MudancaPermitida
<1> QED
  BY <1>1, InvSempre, PTL DEF Spec, EncerradoFica

-----------------------------------------------------------------------------
(* The limit of active jobs                                                *)

\* The calls of a user that never overlapped are one at most, and it found the
\* place that its job will take.
VagaInv(u) ==
    u \notin corrida \cup ressuscitado =>
      \/ Iniciando(u) = {} /\ Cardinality(jobsAtivos(u)) <= MaxJobs
      \/ /\ \E r \in Reqs : Iniciando(u) = {r}
         /\ Cardinality(jobsAtivos(u)) < MaxJobs

LInv == IInv /\ \A u \in Usuarios : VagaInv(u)

LEMMA AtivosFinitos ==
  ASSUME NEW u
  PROVE  /\ IsFiniteSet(jobsAtivos(u))
         /\ Cardinality(jobsAtivos(u)) \in Nat
<1>1. IsFiniteSet(jobsAtivos(u))
  BY DownloadAssumption, FS_Subset, jobsAtivos(u) \subseteq Jobs DEF jobsAtivos
<1> QED
  BY <1>1, FS_CardinalityType

LEMMA LInit == Init => LInv
<1> SUFFICES ASSUME Init, NEW u \in Usuarios PROVE VagaInv(u)
  BY InvInit DEF LInv
<1>1. jobsAtivos(u) = {} /\ Iniciando(u) = {}
  BY DownloadAssumption DEF Init, jobsAtivos, Ativo, Iniciando
<1>2. Cardinality(jobsAtivos(u)) = 0
  BY <1>1, FS_EmptySet
<1> QED
  BY <1>1, <1>2, DownloadAssumption DEF VagaInv

\* A step that starts nothing for u and activates none of its jobs.
LEMMA VagaMantida ==
  ASSUME NEW u \in Usuarios, VagaInv(u),
         corrida \subseteq corrida', ressuscitado \subseteq ressuscitado',
         \/ Iniciando(u)' = Iniciando(u)
         \/ Iniciando(u)' = {},
         u \notin ressuscitado' => jobsAtivos(u)' \subseteq jobsAtivos(u)
  PROVE  VagaInv(u)'
<1> SUFFICES ASSUME u \notin corrida' \cup ressuscitado'
             PROVE  VagaInv(u)'
  BY DEF VagaInv
<1>1. /\ Cardinality(jobsAtivos(u)') <= Cardinality(jobsAtivos(u))
      /\ Cardinality(jobsAtivos(u)') \in Nat
      /\ Cardinality(jobsAtivos(u)) \in Nat
  <2>1. jobsAtivos(u)' \subseteq jobsAtivos(u)
    OBVIOUS
  <2>2. IsFiniteSet(jobsAtivos(u)) /\ Cardinality(jobsAtivos(u)) \in Nat
    BY AtivosFinitos
  <2> HIDE DEF jobsAtivos
  <2> QED
    BY <2>1, <2>2, FS_Subset, FS_CardinalityType
<1>2. MaxJobs \in Nat
  BY DownloadAssumption
<1>3. \/ Iniciando(u) = {} /\ Cardinality(jobsAtivos(u)) <= MaxJobs
      \/ /\ \E r \in Reqs : Iniciando(u) = {r}
         /\ Cardinality(jobsAtivos(u)) < MaxJobs
  BY DEF VagaInv
<1>4. \/ Iniciando(u)' = {} /\ Cardinality(jobsAtivos(u)') <= MaxJobs
      \/ /\ \E r \in Reqs : Iniciando(u)' = {r}
         /\ Cardinality(jobsAtivos(u)') < MaxJobs
  BY <1>1, <1>2, <1>3
<1> QED
  BY <1>4 DEF VagaInv

LEMMA LStep ==
  ASSUME LInv, [Next]_vars
  PROVE  LInv'
<1> USE DEF LInv, observadores
<1>0. IInv'
  BY InvStep
<1> SUFFICES ASSUME NEW u \in Usuarios PROVE VagaInv(u)'
  BY <1>0
<1>a. VagaInv(u)
  OBVIOUS
<1>b. /\ job \in [Jobs -> Job]
      /\ ini \in [Reqs -> Usuarios \cup {Ninguem}]
      /\ \A i \in Jobs : JobInv(i)
  BY DEF IInv, TypeOK
<1>c. ASSUME UNCHANGED <<ini, corrida>>, ressuscitado \subseteq ressuscitado',
             u \notin ressuscitado' => jobsAtivos(u)' \subseteq jobsAtivos(u)
      PROVE  VagaInv(u)'
  BY <1>a, <1>c, VagaMantida DEF Iniciando
<1>1. ASSUME NEW r \in Reqs, PodeIniciarJob(r)
      PROVE  VagaInv(u)'
  <2>1. PICK w \in Usuarios :
          /\ ini[r] = Ninguem
          /\ Cardinality(jobsAtivos(w)) < MaxJobs
          /\ ini' = [ini EXCEPT ![r] = w]
          /\ corrida' = IF Iniciando(w) = {} THEN corrida ELSE corrida \cup {w}
    BY <1>1 DEF PodeIniciarJob
  <2>2. jobsAtivos(u)' = jobsAtivos(u)
    BY <1>1 DEF PodeIniciarJob, jobsAtivos, Ativo
  <2>3. CASE u # w
    <3>1. Iniciando(u)' = Iniciando(u)
      BY <2>1, <2>3, <1>b, DownloadAssumption DEF Iniciando
    <3> QED
      BY <1>1, <1>a, <2>1, <2>2, <3>1, VagaMantida DEF PodeIniciarJob
  <2>4. CASE u = w
    <3>1. CASE Iniciando(w) = {}
      <4>1. Iniciando(u)' = {r}
        BY <2>1, <2>4, <3>1, <1>b DEF Iniciando
      <4>2. Cardinality(jobsAtivos(u)') < MaxJobs
        BY <2>1, <2>2, <2>4
      <4> QED
        BY <4>1, <4>2 DEF VagaInv
    <3>2. CASE Iniciando(w) # {}
      BY <2>1, <2>4, <3>2 DEF VagaInv
    <3> QED
      BY <3>1, <3>2
  <2> QED
    BY <2>3, <2>4
<1>2. ASSUME NEW r \in Reqs, RecusarFiltros(r)
      PROVE  VagaInv(u)'
  <2>1. jobsAtivos(u)' = jobsAtivos(u)
    BY <1>2 DEF RecusarFiltros, jobsAtivos, Ativo
  <2>2. Iniciando(u)' = IF ini[r] = u THEN Iniciando(u) \ {r} ELSE Iniciando(u)
    BY <1>2, <1>b, DownloadAssumption DEF RecusarFiltros, Iniciando
  <2>3. u \notin corrida \cup ressuscitado =>
          Iniciando(u)' = Iniciando(u) \/ Iniciando(u)' = {}
    BY <1>a, <2>2 DEF VagaInv, Iniciando
  <2>4. UNCHANGED <<corrida, ressuscitado>>
    BY <1>2 DEF RecusarFiltros
  <2>5. CASE u \in corrida \cup ressuscitado
    BY <2>4, <2>5 DEF VagaInv
  <2>6. CASE u \notin corrida \cup ressuscitado
    BY <1>a, <2>1, <2>3, <2>4, <2>6, VagaMantida
  <2> QED
    BY <2>5, <2>6
<1>3. ASSUME NEW r \in Reqs, CriarJob(r)
      PROVE  VagaInv(u)'
  <2>1. PICK j \in Jobs :
          /\ job[j].status = "inexistente"
          /\ job' = [job EXCEPT ![j].status = "pendente", ![j].dono = ini[r]]
    BY <1>3 DEF CriarJob
  <2>2. /\ ini[r] # Ninguem
        /\ ini' = [ini EXCEPT ![r] = Ninguem]
        /\ UNCHANGED <<corrida, ressuscitado>>
    BY <1>3 DEF CriarJob
  <2>3. CASE ini[r] # u
    <3>1. Iniciando(u)' = Iniciando(u)
      BY <2>2, <2>3, <1>b, DownloadAssumption DEF Iniciando
    <3>2. jobsAtivos(u)' \subseteq jobsAtivos(u)
      BY <2>1, <2>3, <1>b DEF jobsAtivos, Ativo, Job
    <3> QED
      BY <1>a, <2>2, <3>1, <3>2, VagaMantida
  <2>4. CASE ini[r] = u /\ u \notin corrida \cup ressuscitado
    <3>1. Iniciando(u) = {r} /\ Cardinality(jobsAtivos(u)) < MaxJobs
      BY <1>a, <2>4 DEF VagaInv, Iniciando
    <3>2. Iniciando(u)' = {}
      BY <2>2, <3>1, <1>b, DownloadAssumption DEF Iniciando
    <3>3. jobsAtivos(u)' = jobsAtivos(u) \cup {j} /\ j \notin jobsAtivos(u)
      BY <2>1, <2>4, <1>b DEF jobsAtivos, Ativo, Job
    <3>4. Cardinality(jobsAtivos(u)') = Cardinality(jobsAtivos(u)) + 1
      BY <3>3, AtivosFinitos, FS_AddElement
    <3>5. Cardinality(jobsAtivos(u)') <= MaxJobs
      BY <3>1, <3>4, AtivosFinitos, DownloadAssumption
    <3> QED
      BY <3>2, <3>5 DEF VagaInv
  <2>5. CASE u \in corrida \cup ressuscitado
    BY <2>2, <2>5 DEF VagaInv
  <2> QED
    BY <2>3, <2>4, <2>5
<1>4. ASSUME NEW j \in Jobs, MarcarProcessando(j)
      PROVE  VagaInv(u)'
  <2>1. u \notin ressuscitado' => jobsAtivos(u)' \subseteq jobsAtivos(u)
    BY <1>4, <1>b
    DEF MarcarProcessando, Vai, Atualiza, jobsAtivos, Ativo, Job, Existe,
        StatusDownloadLote, JobInv, TrabalhoInv, RegistroInv
  <2> QED
    BY <1>4, <1>c, <2>1 DEF MarcarProcessando
<1>5. ASSUME NEW j \in Jobs, Concluir(j) \/ markJobAsFailedInDB(j)
      PROVE  VagaInv(u)'
  <2>1. jobsAtivos(u)' \subseteq jobsAtivos(u)
    BY <1>5, <1>b
    DEF Concluir, markJobAsFailedInDB, Atualiza, jobsAtivos, Ativo, Job
  <2> QED
    BY <1>5, <1>c, <2>1 DEF Concluir, markJobAsFailedInDB
<1>6. ASSUME NEW j \in Jobs, GravarCancelamento(j) \/ Expirar(j)
      PROVE  VagaInv(u)'
  <2>1. jobsAtivos(u)' \subseteq jobsAtivos(u)
    BY <1>6, <1>b
    DEF GravarCancelamento, Expirar, Atualiza, jobsAtivos, Ativo, Job
  <2> QED
    BY <1>6, <1>c, <2>1 DEF GravarCancelamento, Expirar
<1>7. ASSUME NEW v \in Varreduras, NEW j \in Jobs, RemoverLinha(v, j)
      PROVE  VagaInv(u)'
  <2>1. jobsAtivos(u)' \subseteq jobsAtivos(u)
    BY <1>7, <1>b DEF RemoverLinha, jobsAtivos, Ativo, Job
  <2> QED
    BY <1>7, <1>c, <2>1 DEF RemoverLinha
<1>8. CASE Reiniciar
  <2>1. Iniciando(u)' = {} /\ jobsAtivos(u)' = jobsAtivos(u)
    BY <1>8, DownloadAssumption DEF Reiniciar, Iniciando, jobsAtivos, Ativo
  <2> QED
    BY <1>8, <1>a, <2>1, VagaMantida DEF Reiniciar
<1>9. ASSUME UNCHANGED <<job, ini, corrida, ressuscitado>>
      PROVE  VagaInv(u)'
  BY <1>9, <1>c DEF jobsAtivos, Ativo
<1> QED
  BY <1>1, <1>2, <1>3, <1>4, <1>5, <1>6, <1>7, <1>8, <1>9
  DEF Next, vars, Trabalhar, Limpar, LerJob, Consultar, Zipar,
      LerCancelamento, Listar, ApagarDiretorio, FalharTrabalho, FalharRemocao

\* A user has no more active jobs than the limit, with the exceptions named.
THEOREM LimiteSempre == Spec => []LimiteDeJobs
<1>1. ASSUME LInv
      PROVE  LimiteDeJobs
  <2> SUFFICES ASSUME NEW u \in Usuarios, u \notin corrida \cup ressuscitado
               PROVE  Cardinality(jobsAtivos(u)) + Cardinality(Iniciando(u))
                        <= MaxJobs
    BY DEF LimiteDeJobs
  <2>1. VagaInv(u)
    BY <1>1 DEF LInv
  <2>2. CASE Iniciando(u) = {} /\ Cardinality(jobsAtivos(u)) <= MaxJobs
    BY <2>2, FS_EmptySet, AtivosFinitos, DownloadAssumption
  <2>3. CASE /\ \E r \in Reqs : Iniciando(u) = {r}
             /\ Cardinality(jobsAtivos(u)) < MaxJobs
    <3>1. Cardinality(Iniciando(u)) = 1
      BY <2>3, FS_Singleton
    <3> QED
      BY <2>3, <3>1, AtivosFinitos, DownloadAssumption
  <2> QED
    BY <2>1, <2>2, <2>3 DEF VagaInv
<1> QED
  BY <1>1, LInit, LStep, PTL DEF Spec

=============================================================================
