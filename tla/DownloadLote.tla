----------------------------- MODULE DownloadLote -----------------------------
(***************************************************************************)
(* Batch downloads of documents: iniciarJob counts the active jobs of the  *)
(* user, inserts a row and leaves a worker running in the memory of the    *)
(* process (processJobWithEntity), which writes a ZIP to a directory of    *)
(* its own. cancelarJob writes the row and never tells the worker. Two     *)
(* timers remove the rows whose time is over, with their directories.      *)
(*                                                                         *)
(* There is no transaction and no lock: each await on the database is one  *)
(* action. One process runs everything; when it stops, workers, requests   *)
(* and sweeps are gone and rows and directories stay. The documents, the   *)
(* progress column and the audit events are left out.                      *)
(***************************************************************************)
EXTENDS Integers, FiniteSets

CONSTANTS
    Jobs,        \* rows that may be created (bound)
    Usuarios,    \* users
    Ninguem,     \* no user
    Reqs,        \* calls of iniciarJob being processed at once (slots)
    Varreduras,  \* timers that run limparJobsExpirados
    MaxJobs,     \* MAX_JOBS_PER_USER
    Sobrepoe,    \* whether two calls of iniciarJob of one user may overlap
    MaxFalhas    \* stops of the process and failed calls (bound)

ASSUME DownloadAssumption ==
    /\ IsFiniteSet(Jobs)
    /\ Ninguem \notin Usuarios
    /\ MaxJobs \in Nat \ {0}
    /\ MaxFalhas \in Nat
    /\ Sobrepoe \in BOOLEAN

\* EXPIRED is in the enumeration and is never written.
StatusDownloadLote == {"pendente", "processando", "concluido", "erro",
                       "cancelado"}

\* dono: usuario_id. caminho: whether caminho_arquivo is set. expirado: whether
\* data_expiracao is past.
Job == [status: StatusDownloadLote \cup {"inexistente", "removido"},
        dono: Usuarios \cup {Ninguem}, caminho: BOOLEAN, expirado: BOOLEAN]

\* Where a worker is: the await it is about to make.
Passos == {"nenhum", "ler", "marcar", "consultar", "zipar", "concluir",
           "falhar"}

VARIABLES
    job,         \* the rows
    dir,         \* the directory of each job, and the state of its ZIP
    trab,        \* the worker of each job
    ini,         \* user whose call has passed the limit, per slot
    cancelando,  \* jobs cancelarJob has read and not yet written
    lista,       \* jobs each sweep still has to remove, as it read them
    falhas,      \* faults so far
    corrida,     \* observer: users whose calls of iniciarJob overlapped
    ressuscitado,\* observer: users one of whose cancelled jobs was set going
    incompletos  \* observer: jobs whose time ended before they had a file, or
                 \* whose ZIP went in a removal that failed on the directory

vars == <<job, dir, trab, ini, cancelando, lista, falhas, corrida,
          ressuscitado, incompletos>>

observadores == <<corrida, ressuscitado, incompletos>>

Vazia == [j \in Jobs |-> "fora"]

Init ==
    /\ job = [j \in Jobs |-> [status |-> "inexistente", dono |-> Ninguem,
                              caminho |-> FALSE, expirado |-> FALSE]]
    /\ dir = [j \in Jobs |-> "nada"]
    /\ trab = [j \in Jobs |-> "nenhum"]
    /\ ini = [r \in Reqs |-> Ninguem]
    /\ cancelando = {}
    /\ lista = [v \in Varreduras |-> Vazia]
    /\ falhas = 0
    /\ corrida = {}
    /\ ressuscitado = {}
    /\ incompletos = {}

-----------------------------------------------------------------------------
(* Helpers                                                                 *)

\* The rows: a removed one is gone.
Existe(j) == job[j].status \in StatusDownloadLote

Ativo(j) == job[j].status \in {"pendente", "processando"}

\* Mutant of jobsAtivos: a job that waits for its worker is not counted.
jobsProcessando(u) == {j \in Jobs : job[j].status = "processando"
                                    /\ job[j].dono = u}

jobsAtivos(u) == {j \in Jobs : Ativo(j) /\ job[j].dono = u}

Iniciando(u) == {r \in Reqs : ini[r] = u}

\* UPDATE ... WHERE id = j: it changes nothing when the row is gone.
Atualiza(j, status) ==
    job' = IF Existe(j) THEN [job EXCEPT ![j].status = status] ELSE job

Vai(j, de, para) == trab[j] = de /\ trab' = [trab EXCEPT ![j] = para]

-----------------------------------------------------------------------------
(* iniciarJob                                                              *)

\* podeIniciarJob counts; the validation of the filters comes after it.
PodeIniciarJob(r) ==
    \E u \in Usuarios :
      /\ ini[r] = Ninguem
      /\ Cardinality(jobsAtivos(u)) < MaxJobs
      /\ Sobrepoe \/ Iniciando(u) = {}
      /\ ini' = [ini EXCEPT ![r] = u]
      /\ corrida' = IF Iniciando(u) = {} THEN corrida ELSE corrida \cup {u}
      /\ UNCHANGED <<job, dir, trab, cancelando, lista, falhas, ressuscitado,
                     incompletos>>

\* The filters are refused.
RecusarFiltros(r) ==
    /\ ini[r] # Ninguem
    /\ ini' = [ini EXCEPT ![r] = Ninguem]
    /\ UNCHANGED <<job, dir, trab, cancelando, lista, falhas, observadores>>

\* Mutant of CriarJob: the row is inserted without its user.
CriarJobSemDono(r) ==
    /\ ini[r] # Ninguem
    /\ \E j \in Jobs :
         /\ job[j].status = "inexistente"
         /\ job' = [job EXCEPT ![j].status = "pendente"]
         /\ Vai(j, "nenhum", "ler")
    /\ ini' = [ini EXCEPT ![r] = Ninguem]
    /\ UNCHANGED <<dir, cancelando, lista, falhas, observadores>>

CriarJob(r) ==
    /\ ini[r] # Ninguem
    /\ \E j \in Jobs :
         /\ job[j].status = "inexistente"
         /\ job' = [job EXCEPT ![j].status = "pendente", ![j].dono = ini[r]]
         /\ Vai(j, "nenhum", "ler")
    /\ ini' = [ini EXCEPT ![r] = Ninguem]
    /\ UNCHANGED <<dir, cancelando, lista, falhas, observadores>>

-----------------------------------------------------------------------------
(* processJobWithEntity, the worker of one job                             *)

LerJob(j) ==
    /\ Vai(j, "ler", IF Existe(j) THEN "marcar" ELSE "nenhum")
    /\ UNCHANGED <<job, dir, ini, cancelando, lista, falhas, observadores>>

\* PROCESSING is written over whatever the row holds by now.
MarcarProcessando(j) ==
    /\ Vai(j, "marcar", "consultar")
    /\ Atualiza(j, "processando")
    /\ ressuscitado' = IF job[j].status = "cancelado"
                       THEN ressuscitado \cup {job[j].dono}
                       ELSE ressuscitado
    /\ UNCHANGED <<dir, ini, cancelando, lista, falhas, corrida, incompletos>>

\* aplicarFiltros, and the directory with its open ZIP; or no document is left.
Consultar(j) ==
    /\ \/ Vai(j, "consultar", "zipar") /\ dir' = [dir EXCEPT ![j] = "parcial"]
       \/ Vai(j, "consultar", "falhar") /\ UNCHANGED dir
    /\ UNCHANGED <<job, ini, cancelando, lista, falhas, observadores>>

\* Mutant of Zipar: the ZIP is not awaited.
ZiparSemEsperar(j) ==
    /\ Vai(j, "zipar", "concluir")
    /\ UNCHANGED <<job, dir, ini, cancelando, lista, falhas, observadores>>

\* createZipFile ends when the stream is closed; a document that cannot be
\* read becomes a text inside the ZIP.
Zipar(j) ==
    /\ Vai(j, "zipar", "concluir")
    /\ dir' = [dir EXCEPT ![j] = "completo"]
    /\ UNCHANGED <<job, ini, cancelando, lista, falhas, observadores>>

Concluir(j) ==
    /\ Vai(j, "concluir", "nenhum")
    /\ job' = IF Existe(j)
              THEN [job EXCEPT ![j].status = "concluido", ![j].caminho = TRUE]
              ELSE job
    /\ UNCHANGED <<dir, ini, cancelando, lista, falhas, observadores>>

markJobAsFailedInDB(j) ==
    /\ Vai(j, "falhar", "nenhum")
    /\ Atualiza(j, "erro")
    /\ UNCHANGED <<dir, ini, cancelando, lista, falhas, observadores>>

-----------------------------------------------------------------------------
(* cancelarJob                                                             *)

LerCancelamento(j) ==
    /\ Ativo(j)
    /\ j \notin cancelando
    /\ cancelando' = cancelando \cup {j}
    /\ UNCHANGED <<job, dir, trab, ini, lista, falhas, observadores>>

GravarCancelamento(j) ==
    /\ j \in cancelando
    /\ cancelando' = cancelando \ {j}
    /\ Atualiza(j, "cancelado")
    /\ UNCHANGED <<dir, trab, ini, lista, falhas, observadores>>

-----------------------------------------------------------------------------
(* limparJobsExpirados                                                     *)

\* The time of the row is over (DOWNLOAD_LOTE_TTL_HORAS after its creation).
Expirar(j) ==
    /\ Existe(j) /\ ~job[j].expirado
    /\ job' = [job EXCEPT ![j].expirado = TRUE]
    /\ incompletos' = IF job[j].caminho THEN incompletos
                                        ELSE incompletos \cup {j}
    /\ UNCHANGED <<dir, trab, ini, cancelando, lista, falhas, corrida,
                   ressuscitado>>

\* Mutant of Expirados: jobs that are still active are left alone.
ExpiradosEncerrados == {j \in Jobs : Existe(j) /\ job[j].expirado /\ ~Ativo(j)}

Expirados == {j \in Jobs : Existe(j) /\ job[j].expirado}

\* Mutant of Listar: every row that has its file.
ListarProntos(v) ==
    /\ lista[v] = Vazia
    /\ lista' = [lista EXCEPT ![v] = [j \in Jobs |->
                   IF Existe(j) /\ job[j].caminho THEN "com" ELSE "fora"]]
    /\ lista' # lista
    /\ UNCHANGED <<job, dir, trab, ini, cancelando, falhas, observadores>>

Listar(v) ==
    /\ lista[v] = Vazia
    /\ Expirados # {}
    /\ lista' = [lista EXCEPT ![v] = [j \in Jobs |->
                   IF j \notin Expirados THEN "fora"
                   ELSE IF job[j].caminho THEN "com" ELSE "sem"]]
    /\ UNCHANGED <<job, dir, trab, ini, cancelando, falhas, observadores>>

\* The rows are taken one at a time.
Ocupada(v, j) == \E k \in Jobs \ {j} : lista[v][k] = "removendo"

\* existsSync looks for the ZIP: without it the directory is not touched.
ApagarDiretorio(v, j) ==
    /\ lista[v][j] = "com" /\ ~Ocupada(v, j)
    /\ dir' = [dir EXCEPT ![j] = IF @ = "vazio" THEN @ ELSE "nada"]
    /\ lista' = [lista EXCEPT ![v][j] = "removendo"]
    /\ UNCHANGED <<job, trab, ini, cancelando, falhas, observadores>>

\* Mutant of RemoverLinha: it does not wait for the directory.
RemoverSemEsperar(v, j) ==
    /\ lista[v][j] # "fora" /\ ~Ocupada(v, j)
    /\ job' = [job EXCEPT ![j].status = "removido"]
    /\ lista' = [lista EXCEPT ![v][j] = "fora"]
    /\ UNCHANGED <<dir, trab, ini, cancelando, falhas, observadores>>

RemoverLinha(v, j) ==
    /\ lista[v][j] \in {"sem", "removendo"} /\ ~Ocupada(v, j)
    /\ job' = [job EXCEPT ![j].status = "removido"]
    /\ lista' = [lista EXCEPT ![v][j] = "fora"]
    /\ UNCHANGED <<dir, trab, ini, cancelando, falhas, observadores>>

\* limparArquivosTemporarios unlinks what is in the directory of the jobs: a
\* directory is there for each job, which unlink refuses; nothing changes.

-----------------------------------------------------------------------------
(* Faults                                                                  *)

Falha == falhas < MaxFalhas /\ falhas' = falhas + 1

\* A call of the worker fails, or the ZIP takes 30 minutes.
FalharTrabalho(j) ==
    /\ Falha
    /\ \/ /\ trab[j] \in {"ler", "marcar", "consultar", "zipar", "concluir"}
          /\ trab' = [trab EXCEPT ![j] = "falhar"]
       \/ Vai(j, "falhar", "nenhum")   \* markJobAsFailedInDB fails: logged
    /\ UNCHANGED <<job, dir, ini, cancelando, lista, observadores>>

\* The removal of the directory or of the row fails, and the next row is
\* taken; rmSync may have deleted the ZIP by then and not its directory.
FalharRemocao(v, j) ==
    /\ Falha
    /\ lista[v][j] # "fora" /\ ~Ocupada(v, j)
    /\ lista' = [lista EXCEPT ![v][j] = "fora"]
    /\ \/ UNCHANGED <<dir, incompletos>>
       \/ /\ lista[v][j] = "com" /\ dir[j] = "completo"
          /\ dir' = [dir EXCEPT ![j] = "vazio"]
          /\ incompletos' = incompletos \cup {j}
    /\ UNCHANGED <<job, trab, ini, cancelando, corrida, ressuscitado>>

\* The process stops and starts again.
Reiniciar ==
    /\ Falha
    /\ trab' = [j \in Jobs |-> "nenhum"]
    /\ ini' = [r \in Reqs |-> Ninguem]
    /\ cancelando' = {}
    /\ lista' = [v \in Varreduras |-> Vazia]
    /\ UNCHANGED <<job, dir, observadores>>

-----------------------------------------------------------------------------
Trabalhar(j) ==
    \/ LerJob(j) \/ MarcarProcessando(j) \/ Consultar(j) \/ Zipar(j)
    \/ Concluir(j) \/ markJobAsFailedInDB(j)

Limpar(v) ==
    \/ Listar(v)
    \/ \E j \in Jobs : ApagarDiretorio(v, j) \/ RemoverLinha(v, j)

Next ==
    \/ \E r \in Reqs : PodeIniciarJob(r) \/ RecusarFiltros(r) \/ CriarJob(r)
    \/ \E j \in Jobs : Trabalhar(j) \/ LerCancelamento(j)
                         \/ GravarCancelamento(j) \/ Expirar(j)
                         \/ FalharTrabalho(j)
    \/ \E v \in Varreduras : Limpar(v) \/ \E j \in Jobs : FalharRemocao(v, j)
    \/ Reiniciar

Spec == Init /\ [][Next]_vars

\* What was called goes on, time passes and the timers tick: the event loop
\* resumes a worker or a sweep whose await is answered, and setInterval runs
\* the sweep again every hour. Nothing is fair about the users.
Justica ==
    /\ \A j \in Jobs : WF_vars(Trabalhar(j)) /\ WF_vars(Expirar(j))
    /\ \A v \in Varreduras : WF_vars(Limpar(v))

SpecJusta == Spec /\ Justica

-----------------------------------------------------------------------------
(* Properties                                                              *)

TypeOK ==
    /\ job \in [Jobs -> Job]
    /\ \A j \in Jobs : Existe(j) => job[j].dono \in Usuarios
    /\ dir \in [Jobs -> {"nada", "parcial", "completo", "vazio"}]
    /\ trab \in [Jobs -> Passos]
    /\ ini \in [Reqs -> Usuarios \cup {Ninguem}]
    /\ cancelando \subseteq Jobs
    /\ lista \in [Varreduras -> [Jobs -> {"fora", "sem", "com", "removendo"}]]
    /\ falhas \in 0 .. MaxFalhas
    /\ corrida \subseteq Usuarios
    /\ ressuscitado \subseteq Usuarios
    /\ incompletos \subseteq Jobs

\* A user has no more active jobs than the limit, counting the calls that have
\* passed the check, except one whose calls overlapped or one of whose jobs
\* was cancelled before its worker wrote PROCESSING over it.
LimiteDeJobs ==
    \A u \in Usuarios \ (corrida \cup ressuscitado) :
      Cardinality(jobsAtivos(u)) + Cardinality(Iniciando(u)) <= MaxJobs

\* While its time is not over, a job shown as concluded has its whole ZIP on
\* the disk: no other job, cancellation, stop or sweep takes it away.
ArquivoPronto ==
    \A j \in Jobs : job[j].status = "concluido" /\ ~job[j].expirado =>
                      job[j].caminho /\ dir[j] = "completo"

\* The sweeps leave no directory behind of a job that had its file when its
\* time ended, whatever fails or stops half way. Of the others they do, the
\* directory being found through caminho_arquivo, and of those whose removal
\* deleted the ZIP and then failed, existsSync looking for the ZIP.
SobraSoDeIncompleto ==
    \A j \in Jobs : job[j].status = "removido" /\ dir[j] # "nada" =>
                      j \in incompletos

\* An ended job changes only by the sweep, by a cancellation that had read it
\* active, or, if it was cancelled, by its own worker, which nobody stops.
EncerradoFica ==
    [][\A j \in Jobs :
         /\ job[j].status \in {"concluido", "erro", "cancelado"}
         /\ job'[j].status # job[j].status
         => \/ job'[j].status = "removido" /\ job[j].expirado
            \/ job'[j].status = "cancelado" /\ j \in cancelando
            \/ job[j].status = "cancelado" /\ trab[j] # "nenhum"]_vars

\* A job is not active for ever, even when its worker is lost: at the latest
\* the sweep gives back its place in the limit of the user.
JobTermina == \A j \in Jobs : Ativo(j) ~> ~Ativo(j)

=============================================================================
