---------------------------- MODULE FilaMiniaturas ----------------------------
(***************************************************************************)
(* The miniatures of documents: ThumbnailQueueService keeps a queue in the *)
(* memory of the process; every 5 seconds it starts as many jobs as there  *)
(* is room for. A job writes a file to the storage and then the column     *)
(* thumbnail of the document. The endpoints that show or regenerate a      *)
(* miniature write the same file, and those that verify or remove a        *)
(* document save the whole row, with the column they read.                 *)
(*                                                                         *)
(* Both callers of addToQueue give the priority normal and no delay, so    *)
(* the queue is in order of arrival. The cache on the disk and the         *)
(* counters are left out: they only say where an image is taken from.      *)
(***************************************************************************)
EXTENDS Integers, Sequences, FiniteSets, Functions, SequencesExt

CONSTANTS
    Docs,               \* documents that may be uploaded (bound)
    Nada,               \* no document
    Trabalhos,          \* calls of processJob under way at once (slots)
    Reqs,               \* requests at once (slots)
    maxConcurrentJobs,  \* the limit of the service
    maxRetries          \* attempts of a job

ASSUME MiniaturasAssumption ==
    /\ IsFiniteSet(Docs)
    /\ IsFiniteSet(Trabalhos)
    /\ Nada \notin Docs
    /\ maxConcurrentJobs \in Nat \ {0}
    /\ maxRetries \in Nat \ {0}

\* situacao: verificado and removed_at. coluna: thumbnail is set.
Documento == [situacao: {"inexistente", "novo", "verificado", "removido"},
              coluna: BOOLEAN]

\* espera: scheduledFor is still to come.
Job == [retryCount: 0 .. maxRetries - 1, espera: BOOLEAN]

Trabalho == [pc: {"livre", "buscar", "obter", "gerar", "gravar"},
             d: Docs \cup {Nada}]

\* copia: the column, as the request read it.
Requisicao == [pc: {"livre", "verificar", "enfileirar", "ver", "regerar",
                    "coluna", "salvar"},
               d: Docs \cup {Nada}, remove: BOOLEAN, copia: BOOLEAN]

VARIABLES
    doc,        \* the rows of documento
    arquivo,    \* documents that have a file thumbnails/<id>.jpg
    fila,       \* queue: the documents, in order of arrival
    job,        \* the job of each queued document
    processing, \* documents the service holds to be in process
    trab,       \* the calls of processJob
    req,        \* the requests
    soltas      \* observer: those whose column was lost, until it is set again

vars == <<doc, arquivo, fila, job, processing, trab, req, soltas>>

servico == <<fila, job, processing, trab>>

JobNovo == [retryCount |-> 0, espera |-> FALSE]
Parado == [pc |-> "livre", d |-> Nada]
ReqLivre == [pc |-> "livre", d |-> Nada, remove |-> FALSE, copia |-> FALSE]

Init ==
    /\ doc = [d \in Docs |-> [situacao |-> "inexistente", coluna |-> FALSE]]
    /\ arquivo = {}
    /\ fila = <<>>
    /\ job = [d \in Docs |-> JobNovo]
    /\ processing = {}
    /\ trab = [w \in Trabalhos |-> Parado]
    /\ req = [r \in Reqs |-> ReqLivre]
    /\ soltas = {}

-----------------------------------------------------------------------------
(* Helpers                                                                 *)

\* findById and findOne leave the removed ones out.
Encontrado(d) == doc[d].situacao \in {"novo", "verificado"}

NaFila(d) == \E i \in 1 .. Len(fila) : fila[i] = d
Posicao(d) == CHOOSE i \in 1 .. Len(fila) : fila[i] = d

Ocupado(w) == trab[w].pc # "livre"

\* update({ id }, { thumbnail }): whether the row is removed or not.
GravaColuna(d) ==
    /\ doc' = [doc EXCEPT ![d].coluna = TRUE]
    /\ soltas' = soltas \ {d}

\* Nobody is going to write the column of those of D after all.
Solta(D) == soltas' = soltas \cup {d \in D : ~doc[d].coluna}

Comeca(r, pc, d) ==
    /\ req[r].pc = "livre"
    /\ req' = [req EXCEPT ![r] = [ReqLivre EXCEPT !.pc = pc, !.d = d]]

Termina(r) == req' = [req EXCEPT ![r] = ReqLivre]

-----------------------------------------------------------------------------
(* addToQueue, called after an upload and by POST :id/thumbnail/processar  *)

Upload(r) ==
    /\ \E d \in Docs : /\ doc[d].situacao = "inexistente"
                       /\ doc' = [doc EXCEPT ![d].situacao = "novo"]
                       /\ Comeca(r, "verificar", d)
    /\ UNCHANGED <<servico, arquivo, soltas>>

PedirProcessamento(r) ==
    /\ \E d \in Docs : Encontrado(d) /\ Comeca(r, "verificar", d)
    /\ UNCHANGED <<servico, doc, arquivo, soltas>>

\* thumbnailExists: an error of the storage means that there is none.
VerificarMiniatura(r) ==
    /\ req[r].pc = "verificar"
    /\ \/ req' = [req EXCEPT ![r].pc = "enfileirar"]
       \/ req[r].d \in arquivo /\ Termina(r)
    /\ UNCHANGED <<servico, doc, arquivo, soltas>>

\* Mutant of Enfileirar: the queue was looked at before the await.
EnfileirarSempre(r) ==
    LET d == req[r].d IN
    /\ req[r].pc = "enfileirar"
    /\ fila' = Append(fila, d)
    /\ job' = [job EXCEPT ![d] = JobNovo]
    /\ Termina(r)
    /\ UNCHANGED <<doc, arquivo, processing, trab, soltas>>

Enfileirar(r) ==
    LET d == req[r].d IN
    /\ req[r].pc = "enfileirar"
    /\ \/ NaFila(d) /\ UNCHANGED <<fila, job>>
       \/ /\ ~NaFila(d)
          /\ fila' = Append(fila, d)
          /\ job' = [job EXCEPT ![d] = JobNovo]
    /\ Termina(r)
    /\ UNCHANGED <<doc, arquivo, processing, trab, soltas>>

-----------------------------------------------------------------------------
(* The other endpoints that write a miniature or its row                   *)

\* GET :id/thumbnail and POST :id/thumbnail/regenerar.
Pedir(r) ==
    /\ \E d \in Docs, pc \in {"ver", "regerar"} : /\ Encontrado(d)
                                                  /\ Comeca(r, pc, d)
    /\ UNCHANGED <<servico, doc, arquivo, soltas>>

\* getThumbnail answers with an image even when it could not generate one.
\* Only the second endpoint goes on to write the column.
Gerar(r) ==
    LET d == req[r].d IN
    /\ req[r].pc \in {"ver", "regerar"}
    /\ arquivo' \in {arquivo, arquivo \cup {d}}
    /\ \/ /\ req[r].pc = "ver"
          /\ Termina(r)
          /\ Solta(arquivo' \ arquivo)
       \/ /\ req[r].pc = "regerar"
          /\ req' = [req EXCEPT ![r].pc = "coluna"]
          /\ UNCHANGED soltas
    /\ UNCHANGED <<servico, doc>>

\* An error of the update is logged and the request succeeds.
GravarColuna(r) ==
    LET d == req[r].d IN
    /\ req[r].pc = "coluna"
    /\ GravaColuna(d) \/ (Solta({d}) /\ UNCHANGED doc)
    /\ Termina(r)
    /\ UNCHANGED <<servico, arquivo>>

\* verificar and remover read the whole row ...
LerDocumento(r) ==
    /\ \E d \in Docs, remove \in BOOLEAN :
         /\ Encontrado(d)
         /\ ~remove => doc[d].situacao = "novo"
         /\ req[r].pc = "livre"
         /\ req' = [req EXCEPT ![r] = [pc |-> "salvar", d |-> d,
                                       remove |-> remove,
                                       copia |-> doc[d].coluna]]
    /\ UNCHANGED <<servico, doc, arquivo, soltas>>

\* ... and save it: what was written in between, the column and the removal
\* included, is written over.
SalvarDocumento(r) ==
    LET q == req[r] IN
    /\ q.pc = "salvar"
    /\ doc' = [doc EXCEPT ![q.d] =
                 [situacao |-> IF q.remove THEN "removido" ELSE "verificado",
                  coluna |-> q.copia]]
    /\ soltas' = IF q.copia THEN soltas \ {q.d}
                  ELSE IF doc[q.d].coluna THEN soltas \cup {q.d}
                  ELSE soltas
    /\ Termina(r)
    /\ UNCHANGED <<servico, arquivo>>

\* The request fails while it waits for the storage or the database.
Falhar(r) ==
    /\ req[r].pc \in {"ver", "regerar", "salvar"}
    /\ Termina(r)
    /\ UNCHANGED <<servico, doc, arquivo, soltas>>

-----------------------------------------------------------------------------
(* processQueue                                                            *)

Prontos == {d \in Docs : NaFila(d) /\ ~job[d].espera /\ d \notin processing}

availableSlots == maxConcurrentJobs - Cardinality(processing)

\* Mutant of Proximos: as many as the limit, whatever is in process.
ProximosDoLimite(E) ==
    /\ Cardinality(E) <= maxConcurrentJobs
    /\ Cardinality(E) = maxConcurrentJobs \/ E = Prontos
    /\ \A d \in E, p \in Prontos \ E : Posicao(d) < Posicao(p)

\* getNextJobs(availableSlots): the first ones that are ready.
Proximos(E) ==
    /\ Cardinality(E) <= availableSlots
    /\ Cardinality(E) = availableSlots \/ E = Prontos
    /\ \A d \in E, p \in Prontos \ E : Posicao(d) < Posicao(p)

\* processJob adds to processing before its first await.
processQueue ==
    \E E \in (SUBSET Prontos) \ {{}} :
      /\ Proximos(E)
      /\ \E f \in Injection(E, {w \in Trabalhos : ~Ocupado(w)}) :
           trab' = [w \in Trabalhos |->
                      IF \E d \in E : f[d] = w
                      THEN [pc |-> "buscar", d |-> CHOOSE d \in E : f[d] = w]
                      ELSE trab[w]]
      /\ processing' = processing \cup E
      /\ UNCHANGED <<doc, arquivo, fila, job, req, soltas>>

-----------------------------------------------------------------------------
(* processJob                                                              *)

Passa(w, de, para) ==
    trab[w].pc = de /\ trab' = [trab EXCEPT ![w].pc = para]

\* removeFromQueue, and the finally.
Retira(w) ==
    /\ fila' = IF NaFila(trab[w].d) THEN RemoveAt(fila, Posicao(trab[w].d))
                                    ELSE fila
    /\ job' = [job EXCEPT ![trab[w].d] = JobNovo]
    /\ processing' = processing \ {trab[w].d}
    /\ trab' = [trab EXCEPT ![w] = Parado]

\* Mutant of Reagenda: the attempts are not counted.
ReagendaSemContar(w) ==
    /\ job' = [job EXCEPT ![trab[w].d].espera = TRUE]
    /\ processing' = processing \ {trab[w].d}
    /\ trab' = [trab EXCEPT ![w] = Parado]
    /\ UNCHANGED fila

\* Mutant of Reagenda: one attempt too many.
ReagendaUmaAMais(w) ==
    LET d == trab[w].d IN
    \/ job[d].retryCount >= maxRetries /\ Retira(w)
    \/ /\ job[d].retryCount < maxRetries
       /\ job' = [job EXCEPT ![d] = [retryCount |-> @.retryCount + 1,
                                     espera |-> TRUE]]
       /\ processing' = processing \ {d}
       /\ trab' = [trab EXCEPT ![w] = Parado]
       /\ UNCHANGED fila

\* The catch: another attempt after a delay, or none.
Reagenda(w) ==
    LET d == trab[w].d IN
    \/ job[d].retryCount + 1 >= maxRetries /\ Retira(w)
    \/ /\ job[d].retryCount + 1 < maxRetries
       /\ job' = [job EXCEPT ![d] = [retryCount |-> @.retryCount + 1,
                                     espera |-> TRUE]]
       /\ processing' = processing \ {d}
       /\ trab' = [trab EXCEPT ![w] = Parado]
       /\ UNCHANGED fila

\* A document that was removed leaves the queue.
Buscar(w) ==
    /\ trab[w].pc = "buscar"
    /\ \/ /\ Encontrado(trab[w].d)
          /\ Passa(w, "buscar", "obter")
          /\ UNCHANGED <<fila, job, processing>>
       \/ ~Encontrado(trab[w].d) /\ Retira(w)
       \/ Reagenda(w)
    /\ UNCHANGED <<doc, arquivo, req, soltas>>

Obter(w) ==
    /\ trab[w].pc = "obter"
    /\ \/ Passa(w, "obter", "gerar") /\ UNCHANGED <<fila, job, processing>>
       \/ Reagenda(w)
    /\ UNCHANGED <<doc, arquivo, req, soltas>>

\* generateThumbnail answers null for every error: the job ends at once.
GerarMiniatura(w) ==
    /\ trab[w].pc = "gerar"
    /\ \/ /\ Passa(w, "gerar", "gravar")
          /\ arquivo' = arquivo \cup {trab[w].d}
          /\ UNCHANGED <<fila, job, processing>>
       \/ Retira(w) /\ UNCHANGED arquivo
    /\ UNCHANGED <<doc, req, soltas>>

\* Mutant of Gravar: the miniature is only in the storage.
GravarNada(w) ==
    /\ trab[w].pc = "gravar"
    /\ Retira(w)
    /\ UNCHANGED <<doc, arquivo, req, soltas>>

\* An error of the update does not fail the job.
Gravar(w) ==
    /\ trab[w].pc = "gravar"
    /\ GravaColuna(trab[w].d) \/ (Solta({trab[w].d}) /\ UNCHANGED doc)
    /\ Retira(w)
    /\ UNCHANGED <<arquivo, req>>

FimDaEspera(d) ==
    /\ job[d].espera
    /\ job' = [job EXCEPT ![d].espera = FALSE]
    /\ UNCHANGED <<doc, arquivo, fila, processing, trab, req, soltas>>

\* The process stops, and the queue with it.
Parar ==
    /\ fila' = <<>>
    /\ job' = [d \in Docs |-> JobNovo]
    /\ processing' = {}
    /\ trab' = [w \in Trabalhos |-> Parado]
    /\ req' = [r \in Reqs |-> ReqLivre]
    /\ Solta({d \in Docs :
                \/ \E w \in Trabalhos : trab[w].pc = "gravar" /\ trab[w].d = d
                \/ \E r \in Reqs : req[r].pc = "coluna" /\ req[r].d = d})
    /\ UNCHANGED <<doc, arquivo>>

-----------------------------------------------------------------------------

PassoReq(r) ==
    \/ VerificarMiniatura(r) \/ Enfileirar(r) \/ Gerar(r) \/ GravarColuna(r)
    \/ SalvarDocumento(r)

processJob(w) == Buscar(w) \/ Obter(w) \/ GerarMiniatura(w) \/ Gravar(w)

Next ==
    \/ \E r \in Reqs : \/ Upload(r) \/ PedirProcessamento(r) \/ Pedir(r)
                       \/ LerDocumento(r) \/ PassoReq(r) \/ Falhar(r)
    \/ processQueue
    \/ \E w \in Trabalhos : processJob(w)
    \/ \E d \in Docs : FimDaEspera(d)
    \/ Parar

Spec == Init /\ [][Next]_vars

\* The timer ticks, delays end, and every await of a job is answered, well or
\* badly. Nothing is fair about the requests.
Justica ==
    /\ WF_vars(processQueue)
    /\ \A w \in Trabalhos : WF_vars(processJob(w))
    /\ \A d \in Docs : WF_vars(FimDaEspera(d))

SpecJusta == Spec /\ Justica

-----------------------------------------------------------------------------
(* Properties                                                              *)

\* Type invariant: idle slots are about no document.
TypeOK ==
    /\ doc \in [Docs -> Documento]
    /\ arquivo \subseteq Docs
    /\ fila \in Seq(Docs)
    /\ Len(fila) <= Cardinality(Docs)
    /\ job \in [Docs -> Job]
    /\ processing \subseteq Docs
    /\ trab \in [Trabalhos -> Trabalho]
    /\ \A w \in Trabalhos : Ocupado(w) <=> trab[w].d # Nada
    /\ req \in [Reqs -> Requisicao]
    /\ \A r \in Reqs : req[r].pc # "livre" => req[r].d # Nada
    /\ soltas \subseteq Docs

\* However often a document is queued again while it is in process, it is in
\* process once, and no more than maxConcurrentJobs documents are: removals,
\* retries and stops give back each place once.
LimiteDeTrabalhos ==
    /\ Cardinality({w \in Trabalhos : Ocupado(w)}) <= maxConcurrentJobs
    /\ \A v, w \in Trabalhos :
         Ocupado(v) /\ Ocupado(w) /\ trab[v].d = trab[w].d => v = w

\* A miniature in the storage is in the column of its document too, or about
\* to be, unless since then an update failed, the process stopped, the file
\* was made to be shown only, or somebody saved a row read before. addToQueue
\* refuses a document that has its file, so the queue would not repair it.
ColunaAcompanha ==
    \A d \in arquivo \ soltas :
      \/ doc[d].coluna
      \/ \E w \in Trabalhos : trab[w].pc = "gravar" /\ trab[w].d = d
      \/ \E r \in Reqs : req[r].pc = "coluna" /\ req[r].d = d

\* No document stays in the queue for ever: neither the failures of its job
\* nor the documents that keep being queued hold it there.
FilaAnda == \A d \in Docs : NaFila(d) ~> ~NaFila(d)

-----------------------------------------------------------------------------
(* Refinement                                                              *)

FL == INSTANCE FilaLimitada WITH
        Itens <- Docs,
        Limite <- maxConcurrentJobs,
        MaxTentativas <- maxRetries,
        aceitos <- {d \in Docs : NaFila(d)},
        andamento <- processing,
        tentativas <- [d \in Docs |-> job[d].retryCount]

\* The service is such a queue: however requests, ticks, jobs, delays and stops
\* interleave, a document leaves the queue only when its job ends or the
\* process stops, and the places and the tries are counted right.
ImplementaFilaLimitada == FL!FilaSpec

=============================================================================
