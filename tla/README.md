# PGBEN: formal models of the benefits backend

PGBEN is a NestJS backend over PostgreSQL (TypeORM), Redis (Bull queues, cache)
and MinIO. A citizen's request for an eventual benefit (a *solicitacao*) goes
through analysis, pending items (*pendencias*) and a decision; an approval
creates a *concessao* and its installments (*pagamentos*, here *parcelas*), which
are scheduled, released, paid, receipted and confirmed until the concessao ends.

These modules describe the parts that carry that core (the life of a solicitacao,
the life of a concessao with its installments, the calendar of those installments)
and the services around it that keep work in memory over persisted rows: the
approval of critical actions, the notification queue, batch downloads and the queue
of miniatures. Each `await` on the database is one action, because that is where
Node lets another request run.

- [Components](#components)
- [Modules and the code they model](#modules-and-the-code-they-model)
- [Runs](#runs)
- [Proofs](#proofs)
- [Disagreements between code and documents](#disagreements-between-code-and-documents)
- [What is not modelled](#what-is-not-modelled)
- [Plan](#plan)

## Components

| Component | State it keeps | Operations | What is hard | What makes it correct |
|---|---|---|---|---|
| Workflow of the solicitacao (`modules/solicitacao`: workflow, transicao-estado, prazo, pendencia services, event listener) | the row (status, `version`, deadlines, approver), pendencias | transitions, approve, reject, cancel, atualizarStatus, deadlines, create / resolve / cancel pendencia | the request and the listener of its own event write the same row; whole-entity saves of stale copies; counts under READ COMMITTED; swallowed errors | transitions are those of the table from the committed status; final statuses stay; one approval, one concessao; the last resolution reopens |
| SolicitacaoService (older endpoints) | the same row | create, submeter, avaliar, cancelar, update, remover | checks a status, then updates by id with no condition | the same |
| Pagamento (`modules/pagamento`) | rows of the installments, receipts, confirmations | updateStatus, cancelar, liberar, upload / remove of receipt, confirmar, batch update, daily sweeps, listener | no transaction, no version column; stale saves; events before commit; swallowed errors | the first release activates the concessao; cessation only after every confirmation, and not missed; a ceased concessao has nothing payable |
| Concessao (`modules/beneficio/concessao.service`) | status of the concessao | criarSeNaoExistir, atualizarStatus, suspender, bloquear, reativar, desbloquear, cessar, prorrogar | checks outside the transaction or absent; a loop that logs its errors | statuses follow the table; CANCELADO is final |
| Calendar of the installments (schedulers and repositories of `modules/pagamento`) | release and due dates, lists of the two daily sweeps | liberar with a date, cancel, updateStatus, two sweeps at 08:00 | a list read once and written row by row; `save` of a copy; one chance a day | released on its day only; a scheduled one is released |
| Aprovacao de acoes criticas (`modules/aprovacao`) | request, votes of the approvers, execution result | open, vote, decide, execute, cancel; the interceptor | votes race with each other and with cancellation; execution is started in memory and calls the API back | run only with enough votes, once, and not lost; one open request per item |
| Notificacao (`modules/notificacao`) | notification rows, timers | create, send, retry, sweep every five minutes, mark as read, archive | a timer and the sweep may take the same row; sending and reading share one status column; a stop while sending | delivered once; a mark stays; what is pending is resolved |
| Auditoria | queue jobs, log rows | register | volume | each event is inserted |
| Batch download (`modules/documento`) | job rows, directories, workers in memory | start, cancel, finish, expire, clean | workers nobody tells of a cancellation; a limit counted before an insert; a restart | the limit holds; a concluded job has its file; the sweep leaves nothing; a job ends |
| Miniatures (`modules/documento`) | queue in memory, files, a column of the document | queue, process, retry, show, regenerate, verify, remove | file and column are two writes; whole-row saves; places given back on every path | the limit holds; file and column agree; the queue moves |
| Renovacao, Recurso | links between solicitacoes; appeals | start a renewal; grant an appeal | two commits for one operation; stale save of the solicitacao | a renewal is linked; a granted appeal has its concessao |
| Monitoramento | appointments, visits | confirm, reschedule, cancel, register a visit | read-then-save | an ended appointment does not come back |
| Easy upload | tokens, sessions | start, progress, complete, expire | expiry sweep against a running upload | an expired session stays so |
| Cache (two levels) | in-memory map, Redis | get, set, del, getOrSet | an invalidation during a pending computation | nothing older than an invalidation is served |
| Cidadao, usuario, unidade, integrador, judicial, feedback, configuracao, autenticacao | registration rows, tokens | CRUD | uniqueness | constraints of the database |
| Metricas, relatorios, logs, monitoring, whatsapp-flows, common | none of their own | queries, rendering | volume | not a matter of protocol |

Interactions. `aprovarSolicitacao` calls `ConcessaoService.criarSeNaoExistir` and
the generation of installments. Services emit events on the in-process
EventEmitter; listeners run concurrently with the request that emitted, and are
lost with the process. The queue processor, the controllers and the scheduler call
the same payment services. `ConcessaoAutoUpdateService` is the one bridge from
installments to the concessao.

## Modules and the code they model

| Module | Contents |
|---|---|
| `WorkflowSolicitacao` | one solicitacao, its pendencias, the requests and listeners that touch it |
| `ConcessaoPagamento` | one concessao, its installments, requests, scheduler, batches, listener |
| `PagamentoCalendario` | days, release and due dates, the two sweeps of 08:00, requests that release, schedule and cancel |
| `AprovacaoAcao` | the requests of approval for one action on one item, votes, cancellation, execution, interceptor |
| `DecisaoUnica` | what the approval promises, as an abstract specification: opened once, decided once, run at most once by the service and by clients only while approved, closed in the end |
| `NotificacaoFila` | notifications, timers, sweep, attempts, marks of the reader |
| `DownloadLote` | jobs, their workers and directories, cancellation, the cleaning sweeps |
| `FilaMiniaturas` | the thumbnail queue, its jobs, the endpoints over the same file and row |
| `FilaLimitada` | what a queue in memory promises, as an abstract specification: an accepted item stays until its job ends, with a limit of places and of tries |
| `MC*` | one per component: the module TLC runs, with the symmetry where it is sound |
| `*_proofs` | one per component (none for `DecisaoUnica` and `FilaLimitada`): its theorems |

All models have the same shape. `Reqs` is a set of slots; a slot runs one
request, queue job, scheduler run or listener at a time and is used again
afterwards. `req[r].pc` says which await comes next, the other fields hold the
local variables the code keeps across awaits: in the workflow, the entity it read
(`copia`); in the payments, the status it will write (`alvo`), the installments
left in a loop (`fila`), the outcome of checks made on a stale copy (`aceita`). An
attempt repeated by the Bull queue is one more request.

**WorkflowSolicitacao.** `sol` is the row. `Atualiza` is `repository.update(id,
...)`, which increments the version in SQL; `Salva` is `repository.save(entity)`,
which writes every column that differs from the row, the version included, so that
a stale copy takes it back. `realizarTransicao` is `IniciarTransicao` (find and
check), `GravarTransicao` (`UPDATE ... WHERE version`, history, commit, event) or
`PerderTransicao`, then `LerPrazo` and `GravarPrazo`. `aprovarSolicitacao` adds
`GravarParecer` before and `LerConcessao`, `CriarConcessao` after. The listener
(`OuvirCriacao`, `OuvirMudanca`) updates the deadlines again. `resolverPendencia`
is a transaction, but its count (`ContarResolucao`) and commit
(`ConcluirResolucao`) are apart, since other transactions commit between them.
`regrediu`, `deixouFinal` and `cruzadas` are observers: the version once went back, a
final status was once left, a pendencia that a resolution had counted as open was closed
before it committed. `Inicio` is the set of rows a run starts from. Seven of the fourteen statuses are kept; no service here
writes the others.

**ConcessaoPagamento.** `parcelas[p]` has the status of an installment and whether
it has a receipt. `PagamentoRepository.update` (read, assign, save) is one action.
`updateStatus` is `IniciarStatus`, `Gravar`, then for the first installment
`LerAtivar` and `SalvarAtivo`, and for CONFIRMADO `Conferir`, `LerCessar`,
`SalvarCessado`, `Emitir`. Upload of a receipt saves the payment it read long before
(`IniciarComprovante`, `GravarComprovante`). `ConfirmacaoService.create` writes
CONFIRMADO before its checks (`GravarConfirmacao`), and again after them
(`RegravarConfirmacao`). `cessarConcessao` of the benefit module lists once
(`Listar`) and cancels one by one (`Proxima`, `LerCancelar`, `Gravar`), going on
after errors. The sweeps are the same loop. The batch update holds its row locks
until `CommitLote` and emits its events before (`IniciarLote`); its locks are taken
at once. `confirmadas` (installments ever confirmed), `semAtivar` (a release whose activation
failed or was skipped) and `semCessar` (a confirmation with no check after it, or a
cessation that was undone) are observers; `Verificando` says that somebody has still to
check.

Failures: with `Falhas`, any query may fail, with the error handling of the code
(`Errar`, `ErrarOuvinte`), and the process may stop (`Parar`): rows stay, requests
and events vanish. In the workflow model this is `Falhar` and its neighbours.

**PagamentoCalendario.** `dia` and `madrugada` are the clock: `OitoHoras` is the cron
expression, twice, and does nothing when the process is down. A request computes
what it will write from the day and the client's date (`StatusDaData`), then
`PagamentoRepository.update` reads the row (`Ler`) and saves the copy (`Salvar`). A
sweep lists (`Listar`) and then reads and saves each row (`LerDaVarredura`,
`SalvarDaVarredura`) without another look at status or date. This module keeps the
dates that `ConcessaoPagamento` leaves out, and leaves to it what a release does to
the concessao; the statuses after LIBERADO are not here. `perdidas`, `mexidas` and
`foraDeHora` are observers.

**AprovacaoAcao.** `sol[s]` has the status of a request of approval, who asked, and the
vote of each user who has a row of approver. A slot of `req` is first a vote
(`IniciarVoto` to `Reler`) and then, when it read APROVADA, the execution that
`executarAcaoAprovada` starts without `await`: `Chamar` is the interceptor on the call of
the execution, `Validar` and `Inserir` what it does when the row is no longer
APROVADA, `Agir` the handler, `Concluir` and `GravarErro` the two final writes. The interceptor
lets any call through that names an APROVADA row, in the header
`x-solicitacao-aprovacao` or in the query: `Repetir` is such a call of a client, as
often as clients like, and `AgirDireto` the handler it reaches.
`execucoes` (the runs of the service), `respaldada`, `sobreposta`, `corrida` and `perdida` are observers. With
`Sobrepoe = FALSE` two decisions about one row do not overlap.

**NotificacaoFila.** `fila[n]` counts the timers and calls that will process `n`;
`agendadas` those with a timer of `scheduleOnce`. `processarNotificacao` is `Ler`,
`MarcarEmProcessamento`, `Enviar`, `SalvarFim`. The reader's requests read the row
(`LerParaMarcar`) and save it (`Marcar`). A start is `IniciarFila`, a stop `Reiniciar`.

**DownloadLote.** `job` are the rows, `dir` the directories, `trab` the workers in
memory. `PodeIniciarJob` counts, `CriarJob` inserts and starts the worker (`LerJob`,
`MarcarProcessando`, `Consultar`, `Zipar`, `Concluir` or `markJobAsFailedInDB`).
`cancelarJob` and `limparJobsExpirados` are split at their awaits. A sweep looks for the
ZIP before it removes the directory, so the empty directory (`"vazio"`) that a removal
failing half way leaves behind is never looked for again.

**FilaMiniaturas.** `fila` and `job` are the `Map` of the service, `processing` its
set, `trab` the calls of `processJob`. `doc` and `arquivo` are what a miniature is
written to, the column and the file. `verificar` and `remover` of a document are
`LerDocumento` and `SalvarDocumento`, a save of the row they read.

## Runs

| Run | Expect | What it shows | Bounds |
|---|---|---|---|
| `Workflow_concorrente` | pass | the optimistic check is sound while no stale save took the version back: `VersaoIdentificaCopia`, `TransicaoVersionada`, `AprovacaoComParecer`, `PerdaSoComRegressao`; one approval makes at most one concessao: `ConcessaoCoerente`; the last resolution reopens unless two closures crossed: `UltimaResolucaoReabre` | 2 activities, 2 pendencias, every endpoint, from a draft or a row in analysis, new requests up to version 6 |
| `Workflow_versao` | violation | see below | 2 activities, transitions only, from a submitted row |
| `Concessao_concorrente` | pass | `PrimeiraParcelaAtiva`, `CessacaoJustificada`, and `EncerramentoCompleto`: the cessation is not missed; under overlap, failures and stops | 2 requests, 2 installments, 1 pending event |
| `Concessao_sequencial` | pass | `CessacaoManualLimpa`: nothing payable is left | 1 request, 3 installments, 1 pending event |
| `Concessao_confirmacao` | violation | see below | 1 request, 1 installment |
| `Calendario_agenda` | pass | `LiberacaoNaHora`: a sweep releases on the day only, unless the row was written after its list; `AgendadoSeLibera`: a scheduled installment is released, unless its day was lost | 2 installments a day apart, 3 days, 1 request beside the two sweeps, 1 fault |
| `Calendario_vencimento` | violation | see below | 1 installment, 4 days, no fault |
| `Aprovacao_concorrente` | pass | `ExecucaoRespaldada`, `ServicoExecutaUmaVez`, `DecididaFica`, `AbertaUnica`, `DecisaoNaoSePerde` under overlap, failures and stops | 2 requests, 2 rows, 1 solicitante, 2 approvers, strategy simples |
| `Aprovacao_sequencial` | pass | the service implements `DecisaoUnica` (`ImplementaDecisaoUnica`, its fairness included); votes that suffice decide (`VotosDecidem`) | 2 requests, 2 rows, 3 users, all four strategies |
| `Download_lote` | pass | `LimiteDeJobs`, `ArquivoPronto`, `SobraSoDeIncompleto`, `EncerradoFica`, and `JobTermina`: no job is active for ever, a restart included | 2 jobs of a user, limit 1, 2 overlapping calls, 1 sweep, 1 fault |
| `Notificacao_fila` | pass | `EntregueUmaVez`, `MarcaQuietaFica`, and `PendenteSeResolve`: what is pending is sent, given up or marked | 1 notification, 2 calls at once, 2 timers, 1 reader, 2 faults |
| `Miniaturas_fila` | pass | `LimiteDeTrabalhos`, `ColunaAcompanha`, `ImplementaFilaLimitada`: the service is a `FilaLimitada`, and `FilaAnda`: no document stays in the queue for ever | 2 documents, limit 1, 2 slots of jobs, 2 attempts, 1 request |

Why the bounds are enough. Every race found or excluded is between two
activities: one that read and one that writes in between; a third adds only more
of the same, and the theorems cover any number. Two installments are the first
case where "the last" and "all the others" differ, three the first where a loop
has a middle. Two jobs with a limit of one, and two documents with a place for one,
are the first where one waits for the other; one notification is enough because
no action of its module relates two rows except `marcarTodasComoLidas`, which treats
each alone; three days hold a sweep that is missed, one that is in time and a day
after. `MaxVersao` stops new requests, never one that has begun; `MaxEventos` bounds
the events waiting (in the workflow an event beyond it is lost, a thing the code
allows; in the payments emitters wait); `MaxFila` and the observers that count up to 2
do not tell larger counts apart; `MaxDia` is the last day; `MaxFalhas` counts stops and
failed calls. `CHECK_DEADLOCK FALSE` everywhere: with a bound reached, every row in a
final status or the last day over, nothing is left to do.

`CessacaoManualLimpa` is checked for one request at a time and without failures, because
the code does not give it otherwise: `cessarConcessao` decides on a list it read once and
logs the errors of its loop, and `liberarPagamento` checks the concessao long before it
writes. It says what the sequential logic guarantees, although `cancelar` refuses some of
the statuses the loop gives it; its theorem has the same hypotheses, for any number of
installments. Each was dropped in turn in a run of TLC, which then finds a
counterexample.

Everything else is checked with requests that overlap; where an interleaving or a failure
breaks a property in the code, the exception is part of the property, as an observer:
`regrediu`, `deixouFinal` and `cruzadas` (above), `semAtivar` and `semCessar` (above),
`sobreposta` (two decisions about one row overlapped), `corrida` (two calls of one user
overlapped), `ressuscitado` (a cancelled job was set to PROCESSING), `incompletos` (a job
without a file, or a removal that failed half way), `sobrepostas` (two deliveries of one
notification at once), `semRegistro` (the end of a delivery was not saved), `agitadas` (a
mark made while the process had the notification), `perdidas` and `mexidas` (a day that
was lost, a row written after the list), `soltas` (the column of a file was lost). Such a
property does not catch the race it excepts: it says that nothing else has the same
effect, and the notes of the hazards in PROJECT.json say which race that is. Each one
names an interleaving or a failure that does break the property in the code.

### Fairness

Only what the program itself goes on doing is fair, always weakly; no client ever owes
anything, and faults are never fair.

- `AprovacaoAcao`: a request in progress goes on (`Continua`): Node resumes a callback
  whose query is answered. A failure is a step of its own and ends the request or turns
  it to another path.
- `DownloadLote`: workers (`Trabalhar`), the hourly sweep (`Limpar`, from `setInterval` and
  the scheduler) and the passing of time (`Expirar`).
- `NotificacaoFila`: the start, the five-minute sweep, timers and time, calls under way.
- `PagamentoCalendario`: days and hours, the daily sweeps, requests in progress, and
  the restart of a process that is down (`Subir`).
- `FilaMiniaturas`: the five-second tick, the calls of `processJob`, delays.

The two older modules state no liveness: their code has no retry that would make one
true after a failure, and `EncerramentoCompleto` states at quiescence what would
otherwise be an eventuality.

### Refinement

`AprovacaoAcao` implements `DecisaoUnica` under the mapping `Abstrata` of the status
column (EXECUTADA and ERRO_EXECUCAO are both "encerrada") and `vezes <- execucoes`, with `repetidas` the rows that calls of clients are running: one
statement, checked by TLC as a PROPERTY, of safety (opened once, decided once, run at
most once by the service, and begun by anybody only while approved) and liveness
(approved leads to closed). That clients may run the action again by naming the row is a
step of `DecisaoUnica` (`Repetir`), since the interceptor allows it without a limit. It
holds when decisions about one row do not overlap and nothing fails; with overlap the
code gives only the weaker invariants of `Aprovacao_concorrente`. The safety part,
`ImplementaSeguranca`, is proved step by step (`DecisaoUnicaSegura`) and needs less:
failures and stops are allowed, only overlap is not. What a reader of the abstract
specification may then conclude is proved of the service too (`ExecutadaFoiAprovada`).

`FilaMiniaturas` implements `FilaLimitada`: a document is accepted while it is in
`fila`, in progress while it is in `processing`, and its tries are `retryCount`. The
five-second tick maps to one step that starts several items, the exits of `processJob`
to `Concluir` or `Adiar`, a stop of the process to `Cair`, and everything about
requests, files and columns to a stutter. TLC checks it and `FilaRefinada` proves all
of it; `FilaLimitada` states safety only, what must move on is `FilaAnda`.

Each property of a passing run has a mutant in its module, a plausible bug
(a dropped version test, a rejection that needs everybody, a sweep that leaves active
rows alone, an attempt that is not counted), that makes TLC find it violated.

## Proofs

`tlapm` checks every theorem for all values of the constants, from the assumptions
declared in the modules: `InicioAssumption`, `MaxVersaoAssumption`,
`MaxEventosAssumption`, `NadaAssumption` (workflow); `NParcelasAssumption`,
`MaxEventosAssumption`, `AlvosAssumption` (payments); `CalendarioAssumption`,
`AlvosDoCalendario`; `UsuariosAssumption`, `EstrategiasAssumption`;
`NotificacaoAssumption`; `DownloadAssumption`; `MiniaturasAssumption`. They say that
bounds are naturals, that the "nobody" values are not members, and that the sets whose
cardinality the code counts are finite.

The proof modules of the two older models argue the same way. `Troca(r, q)` sums up what one step does to
the request that takes it: the new state `q` is well formed, coherent, and came
from an allowed one. One lemma per action shows it; `TrocaNext` collects them. Then the
effect of a step on the rows is shown once, and each invariant uses these facts
rather than the actions.

*WorkflowSolicitacao_proofs*
- `TipoCorreto`: `TypeOK`, with the coherence of each request.
- `VersaoIdentifica`: `VersaoInv` is inductive: while the version has not gone back,
  every write increases it, so a copy of the same version is the row.
- `TransicaoEhVersionada`: from it, the `WHERE version` makes the check made on the
  copy a check on the row.
- `UmaConcessao`: `ConcessaoInv` adds that at most one approval is between its
  commit and its concessao; APROVADA has no successor, so no second one commits.
- `PerdaExigeRegressao`: a save that does not take the version back had a current copy.
- `AprovacaoTemParecer`: `ParecerInv` says the row keeps its approver while an
  approval is under way.
- `ResolucaoReabre`: the last resolution takes the solicitacao out of PENDENTE, for any
  number of requests. `ResolucaoInv` is what holds until it commits: one that did not find
  itself the last still has another pendencia open beside it, or the crossing was noted
  (`cruzadas`).

*ConcessaoPagamento_proofs*
- `Tipagem`, `TypeCorrect`: types with `ConfirmadasInv`: the installments now
  CONFIRMADO are in `confirmadas`, and whoever is about to cessate has seen all of
  them there (a fact that stays true because `confirmadas` only grows).
- `Cessacao`: `CessacaoJustificada` from it, at each of the steps that write CESSADO.
- `PrimeiraParcela`: `AtivacaoInv` adds that nothing brings the concessao back to
  APTO, and that a stale LIBERADO an upload is about to write back was released before:
  by then the activation was made, is pending, or was skipped (`semAtivar`).
- `CessacaoSequencial`, of one request at a time without failures: `CessarInv` is the
  invariant of the loop of `cessarConcessao`; the installments no longer in its list are
  spared or cancelled, but the one it is visiting.
- `EncerramentoNaoSePerde`, without hypotheses: `EncerramentoInv` says that with every
  installment CONFIRMADO and the concessao not CESSADO somebody has still to check
  (`Verificando`), or the observer `semCessar` has noted why not. A confirmation is
  written by a request that is about to check it; a check is handed on to the listener or
  repeated by it, and the last one to read sees every row confirmed. `Segue` is what one
  step may do to a request in this chain; one lemma per action shows it.

The other five are laid out as one invariant after the other, each by a lemma with one
step per action, and a theorem that combines them.

*AprovacaoAcao_proofs*
- `TypeCorrect`: `TypeOK`, with the coherence of each request.
- `ExecucaoSempreRespaldada`: a request that is going to write APROVADA, a row that is
  APROVADA and a request that executes are all of `respaldada`: votes only grow and never
  change, so what was counted stays true of some past moment.
- `ServicoSempreUmaVez`, `DecididaSempreFica`: `CadeiaInv`. Unless decisions overlapped, a
  row has one request in the chain from decision to execution, and what its status may
  be follows from where that request is.
- `AbertaSempreUnica`: `AbertaInv` counts with the open rows of a user the insert under way.
- `DecisaoNuncaSePerde`: no vote is lost between voters that count at once, for every
  strategy and any number of approvers. `VotosInv` says a request at a later await has
  its vote in the row; `DecisaoInv` that, when the votes of an open row decide, some
  request is still going to read them. `DecisivaDecide` is the lemma on the operators:
  votes that decide are counted as a decision by whoever reads them.
- `DecisaoUnicaSegura`: one lemma per action of the service says which step of
  `DecisaoUnica` it is; `ExecutadaFoiAprovada` follows from the abstract specification.

*DownloadLote_proofs*
- `TypeCorrect`; `LimiteSempre`: the cardinality of active jobs plus calls past the
  check, step by step; `ArquivoSempre`: a worker past `Zipar` has its directory, and a sweep
  lists only rows whose time is over; `SobraSempre`; `EncerradoSempreFica`: a worker goes
  on only while its job has no file and is not in error. All from one invariant per job
  (`JobInv`), that relates row, worker, directory and what the sweeps have read.

*NotificacaoFila_proofs*
- `TypeCorrect`; `EntregueSempreUmaVez`: a notification delivered once is ENVIADA, or some
  call is about to save it so, unless it is one of the exceptions; `MarcaSempreFica`: while
  quiet and marked, nothing in the process has the notification to send.

*PagamentoCalendario_proofs*
- `TypeCorrect`; `LiberacaoSempreNaHora`: what a sweep has listed and not yet written is
  scheduled for today or `mexida`, as is the copy it is about to save.

*FilaMiniaturas_proofs*
- `TypeCorrect` with the queue free of repetitions; `LimiteSempre`: each busy slot has a
  document of its own in `processing`, which has no more than the limit;
  `ColunaSempreAcompanha`.
- `FilaRefinada`: `EsperaInv` says what is in process is still in the queue and what is
  not in the queue has no try counted; with it and the invariants above each action maps
  to a step of `FilaLimitada` or a stutter.

Every safety property of a passing run is stated by a theorem. Only model-checked are the
liveness properties, out of the prover's reach: `VotosDecidem`, `JobTermina`,
`PendenteSeResolve`, `AgendadoSeLibera`, `FilaAnda`, and the fairness in
`ImplementaDecisaoUnica`; and the three violations (`ConfirmacaoExigeComprovante`,
`PendenteVence`, `VersaoNuncaRegride`), which TLC shows by a behaviour. No module uses a recursive operator.

## Disagreements between code and documents

Shown by a run:

- `Concessao_confirmacao`: a receipt is required to confirm; the status is written
  before the test, so the refused confirmation stays.
- `Calendario_vencimento`: the scheduler says it turns `pendente` into `vencido` after
  the due date; its query selects the rows that are VENCIDO already, and rewrites their
  due date every day.
- `Workflow_versao`: the `version` column "detects and prevents concurrent updates" and "is
  incremented at every update" (`solicitacao.entity.ts:248-249`); a transition and the
  listener of its own event both save the deadlines
  (`prazo-solicitacao.service.ts:88`), and the second save takes it back.

Met while modelling, and stated here only:

- By the save of `Workflow_versao` APROVADA, final in the README of the module, may become
  EM_ANALISE.
- "Mecanismos de Prevencao de Duplicatas" of `docs/modulo-aprovacao-v2.md` lets a call that
  names an approved solicitacao run directly; nothing there or in the code relates that
  call to the run of the service, so the same action may be run by both, and again while the
  row stays APROVADA.
- `cancelarPendencia` writes EM_ANALISE without a look at the status
  (`pendencia.service.ts:514`): a solicitacao the older `avaliarSolicitacao` approved while
  it was PENDENTE is reopened, even with one request at a time.
- "When all are resolved" the solicitacao returns to EM_ANALISE
  (`pendencia.service.ts:357-359`); two closures of the last two pendencias each count the
  other's uncommitted row (line 347), and it stays PENDENTE.
- APROVADA "gera concessao e pagamentos automaticamente"
  (`status-solicitacao.enum.ts:10`), but the generic transition endpoint creates none, and
  an error of the creation is swallowed.
- CANCELADO is final in the table of `ConcessaoService`; `bloquearConcessao` tests nothing,
  and `desbloquearConcessao` makes it ATIVO.
- EXECUTADA means "Acao executada com sucesso" (`docs/modulo-aprovacao-v2.md`); it is
  written also when the call failed, since `executarAcao` answers errors with a result.
- The strategy of majority "requires more than 50%"
  (`docs/modules/aprovacao-v2/estrategias-aprovacao.md:68`); the code asks for half.
- A notification scheduled "para uma data futura" (`notification-manager.service.ts:448`) is
  sent at once: the date arrives as a text, on which the comparison and the timer fail.
- "Marca todas as notificacoes do usuario como lidas" updates those that are NAO_LIDA; what
  was sent is ENVIADA.
- A cancelled download may end COMPLETED, since nobody tells its worker; the directories of
  jobs that never had a file, or lost it to a removal that failed half way, are not removed,
  since the hourly cleaning unlinks them as files.
- Registering a visit always fails (`visita.service.ts:305-309` asks for relations the entity
  lacks), and `checkSchedulingConflicts` compares the id of a payment with technicians
  (`agendamento.service.ts:709-757`).

## What is not modelled

In the modelled components: history rows (written, never read back), dates and values,
notifications, search and listing, the document checks before
`enviarParaAnalise`, the transfer of a citizen, `prorrogarConcessao`, failures
while installments are generated, deadlocks of two batches. Methods without callers
are left out: `processPaymentFlow`, `processarLiberacaoAutomatica`,
`liberarPagamentosLote`, `verificarEncerramentoAutomatico`,
`marcarComoVencidoPorDocumentacao`, `regularizarPagamentoVencido`,
`ConfirmacaoService.remove`, `definirPrazoDocumentos`, `definirPrazoProcessamento`,
and the listener of judicial events, which nobody emits.

TypeORM and PostgreSQL are external: `Atualiza`, `Salva`, `Grava`, `Travada`,
`Falhar`, `Parar` and `Reiniciar` are modelled from how the code uses them, as are the clock
(`Expirar`, `Anoitecer`, `FimDaEspera`) and the timers of Node.

In the newer modules: registration of approvers and of configurations, contents and
templates of notifications, the channels (Ably, SSE, mail), filters and contents of a
ZIP, image formats and the cache on the disk. `cancelarJobsExpirados`,
`liberarPagamentosLote` and the resilient audit service have no caller.

Hazards of the code that are outside these models: `HybridCacheService.del` does not cancel a
pending factory (`hybrid-cache.service.ts:309`); a renewal is linked to its original after the
commit (`renovacao.service.ts:102`); the semaphore of the payment batches limits
nothing (`pagamento-batch.service.ts:703`); `generateThumbnail` answers null for every error, so
the queue never tries those again (`thumbnail.service.ts:228`).

The other components are listed in PROJECT.json with the reason; most are
registration data, queries or rendering.

## Plan

1. `Concessao` as an abstract life cycle (statuses of a concessao and the moves
   between them), with `ConcessaoPagamento` shown to implement the part the code
   keeps, first with TLC, then step by step with the prover.
2. `CicloBeneficio`: `WorkflowSolicitacao` and `ConcessaoPagamento` composed at
   `criarSeNaoExistir` and at the generation of installments; renewal and appeal as
   further operations of the workflow.
3. `PagamentoCalendario` and `ConcessaoPagamento` share the status of an installment: a
   mapping of the first onto the second, restricted to its operations.
4. `CacheHibrido`; calculation of deadlines and of installments as functions against a
   reference definition.
5. Theorems: the life cycle of item 1 step by step; what `FilaLimitada` implies, as `ExecutadaFoiAprovada` does for `DecisaoUnica`.
