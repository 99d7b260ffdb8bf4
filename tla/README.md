# Plataforma fiscal: a verification project

This directory holds TLA+ models of the state-changing core of the backend under
`src/`, the TLC runs that check them on small instances, and TLAPS proofs of the
properties that matter most. Every definition is a translation of code: the
correspondence, definition by definition and line by line, is the `map` of
`PROJECT.json`, which also lists the components, the hazards, the runs, the mutants
that show each property can fail, the findings and the theorems.

To run it: `tlc -workers 2 -config X.cfg M` for a run of the tables below,
`tlapm M.tla` for a proof module.

## 1. The system

A multi-tenant platform that loads Brazilian fiscal data from public sources, keeps
every version of it, and derives indicators, alerts, quality cases and reports.
FastAPI replicas (four uvicorn workers in `docker-compose.prod.yml`), a pool of
ingestion workers over Redis/RQ, one clock process, and PostgreSQL, which holds all
durable state.

| Component | State it keeps | Operations that change it | Hard behaviour | Module |
|---|---|---|---|---|
| Durable ingestion queue (`workers/ingest_jobs.py`, `modules/ingestion/jobs_repository.py`) | row of `ingest_job` (status, attempts, checkpoint of units, stage of a failure); RQ list, hashes and registries in Redis | create, deliver, claim, checkpoint, conclude, fail, failure callback, requeue of abandoned jobs, recovery of undelivered ones | at-least-once delivery, two systems with no common transaction, leases, crashes of worker and work horse | `IngestQueue` |
| Worker process and maintenance (`workers/ingest_worker.py`) | none of its own | a maintenance round at start-up and every 60 s | rounds of several workers at once, on lists read earlier | `IngestQueue` |
| Job API (`modules/ingestion/jobs_service.py`) | none of its own | create, cancel, retry, fan-out, pre-flight | commit before the Redis call; requests racing with workers; a fan-out that stops half way | `IngestQueue`, `Leque` |
| Medallion sink (`shared/ingestion/base.py`, `modules/ingestion/repository.py`, `service.py`) | `bronze.raw_payload`, `gold.dim_entrega`, silver rows | load of a unit, scan for retifications, replay; `as_of` reads | which delivery is in force under concurrent retifications; partial failure of a unit; lock order | `Entrega` |
| Clients of the sources (`shared/ingestion/client.py`) | the page being read | three pagination protocols over five attempts | a page tried again, a source that ends a page early, a page out of shape, a `next` that never empties | `Fontes` |
| Reports and schedules (`workers/report_tasks.py`, `modules/reports`) | row of `relatorio`, artifact on disk, pool in memory, `relatorio_agendamento` | request, claim, generate, publish, fail, recover at start-up, emit due schedules | file and row with no common transaction; every process recovers everybody's rows; days of months that differ | `Relatorios`, `Agenda` |
| Portfolio refresh (`workers/carteira_tasks.py`, `modules/dashboard/carteira_service.py`) | `carteira_lote_job`, `gold.mart_carteira`, pages cached in memory | enqueue, execute pending, materialise at the end of a load, read a page | a database queue without a claim; two writers of one row; a cache key that a commit may not change | `Carteira`, `Grade` |
| Quality cases (`modules/quality/resolucao.py`) | resolution case, the loads it asked for | open, diagnose, rematerialise, check at the source, reload, accept, resolve | the case and the job it creates are committed apart; lost updates between two requests | `Resolucao` |
| Alerts (`modules/alerts`) | alert rows with a status the manager sets, memory of evaluations | evaluate on read, upsert, close orphans, treat | old evaluations that commit late; a condition that comes back | `Alertas` |
| Backfill and materialisation (`workers/backfill.py`, `materialize.py`) | checkpoint file, gold rows | unit by unit | a file rewritten in place after the commits it records | `Backfill`, `Carteira` |
| Scope and licences (`shared/scope.py`, `modules/tenancy`, `modules/platform`) | memory of a session, licences, portfolio | read, invalidate, grant, change, monitor | gate and aggregate computed apart; a request that crosses midnight or a suspension | `Escopo` |
| Roles and users (`modules/tenancy/service.py`) | roles, capabilities, memberships | provision, create, replace capabilities | two requests that each count on the other's administrator | `Organizacao` |
| Sessions and row level security (`core/db.py`, `core/deps.py`) | parameters of pooled connections, `session.info` | open, apply a context, commit, continue, close | a connection carries what its last transaction was told; a request that needs two connections | `Contexto` |
| Login brake (`shared/seguranca.py`) | sliding windows in memory | ask, count a failure, clear | attempts in flight when the limit is reached | `JanelaLogin` |
| Fiscal calendar (`shared/periodo.py`, `alerts/rules.py`, `quality/checks.py`, `ingestion/cobertura.py`, `forecast/periodos.py`) | none | order, neighbours, deadlines, lags, names of periods | six parts of the system do the same arithmetic, each its own way | `Datas`, `Calendario` |
| Assistant (`modules/assistant`) | conversations, audit of tool calls | take up a conversation, loop of tools, audit, evidence, commit | what a resumed conversation brings back; two transactions that fail apart | `Assistente` |
| Field parsing of connectors, fiscal calculations, dashboards, forecast, evaluation, MCP, renderers, migrations | none beyond the above | parsing, arithmetic, reads, text | section 7 | |

How they interact. The API commits the row of a job and then delivers it through
Redis; a worker claims the row in PostgreSQL and executes its units, each a transaction
of the medallion sink plus a checkpoint in the row; maintenance compares the rows with
Redis and repairs the difference. A concluded load materialises its entity, which is
the second writer of the snapshots that the portfolio clock refreshes. Alerts are
evaluated when they are read, over the deliveries in force and the calendar. The
resolution of a quality case creates loads. Reports read the versions in force, run in
pools of threads inside the API and clock processes, and are recovered from their rows
at start-up. Every request passes through a session that applies its organisation, and
through the scope of the user.

What makes each modelled component correct:

* queue: a job is executed by one worker at a time; each attempt executes exactly the
  units nobody decided; a concluded job loaded everything; a loaded unit is never lost;
  every job ends;
* fan-out: wherever it stops, the jobs it left are closed under dependencies;
* sink: each key has one delivery in force, the one homologated last; a delivery always
  has its payload, and its silver step has run, whether or not it gave rows; the history
  is never rewritten; transactions end;
* sources: what was read is the first rows, in order, without repetition; a reading that
  ends without an exception has them all, unless a page out of shape or the ceiling of
  pages ended it, which the clients do not report;
* reports: a published report keeps its row and its file; a schedule emits once per
  execution, one per month; every committed report ends;
* portfolio: a snapshot shows a delivery whose indicators are committed; clocks do not
  deadlock; every refresh job ends; a page served is recent;
* quality cases: a case moves on facts; one load per case, but for the crossings the
  code does not exclude;
* alerts: what a manager signed stays; a lasting condition is in the queue until a
  manager signs, unless the rule had already closed its alert, which nothing reopens; a
  cause that is gone leaves the queue;
* backfill: what is skipped is loaded; run again, it completes;
* scope: what was shown was covered; gate and aggregate agree;
* roles: an organisation keeps an administrator;
* sessions: every statement runs as who its session says; requests end;
* login: failures in a window stay within the limit and the attempts in flight;
* calendar: the six parts agree about every period on every day;
* assistant: a conversation carries a subject, not a permission nor a number; the trail
  of calls survives the rollback of the request.

## 2. Modules

| Module | Models | Depends on |
|---|---|---|
| `JobDuravel` | what the queue promises of each job: an abstract life of eight operations | |
| `IngestQueue` | rows, Redis/RQ, workers, API requests and maintenance, one action per committed transaction or RQ step | instances `JobDuravel` |
| `IngestQueueProofs` | typing, the inductive invariant, its theorems; the proof that the queue implements `JobDuravel` | `IngestQueue`, TLAPS |
| `Historico` | what the medallion promises of each key: an append-only history and the version in force | |
| `Entrega` | transactions of ingestion on bronze, deliveries and silver, with PostgreSQL's locks and READ COMMITTED reads | instances `Historico` |
| `EntregaProofs` | typing, safety, and the proof that the sink implements `Historico` | `Entrega`, TLAPS |
| `Relatorios` | rows, files, pools, processes and schedules of reports | |
| `RelatoriosProofs` | types, integrity of artifacts, one report per execution, published rows left alone | `Relatorios`, TLAPS |
| `OrganizacaoProofs` | types, and that an administrator remains | `Organizacao`, TLAPS |
| `TransacoesProofs` | proofs about six of the small components, and about all eleven of `MCTransacoes` together | `MCTransacoes`, `CargasProofs`, `CalendarioProofs`, `OrganizacaoProofs`, TLAPS |
| `CalendarioProofs` | the arithmetic of dates and periods: `Agenda` and `Calendario` | these, TLAPS |
| `CargasProofs` | proofs about jobs that come in an order: `Leque` and `Carteira` | these, TLAPS |
| `Carteira` | refresh jobs, the clocks, the materialisation at the end of a load, snapshot rows and their locks | |
| `Alertas` | one alert under evaluations, decisions and changes of the data | |
| `Backfill` | the historical load, its checkpoint file and its deaths | |
| `CiclosProofs` | proofs about `Backfill`, `Alertas` and `Contexto`, and about the four of `MCCiclos` together | `MCCiclos`, `CargasProofs`, TLAPS |
| `Contexto` | sessions, pooled connections and the context of each transaction | |
| `Grade` | the cached pages of the portfolio grid | |
| `Escopo` | gate, aggregated scope, licences and portfolio | |
| `Organizacao` | roles and users under the lock of the organisation | |
| `JanelaLogin` | the sliding window around a login | |
| `Fontes` | three paginated clients over an external source | |
| `Resolucao` | one quality case and the requests on it | |
| `Assistente` | a question, its tools, its conversation and its audit | |
| `Leque` | the fan-out over a graph of dependencies | |
| `Datas` | the civil calendar and the day it is | |
| `Agenda` | the days of a recurring report | `Datas` |
| `Calendario` | fiscal periods, deadlines, lags, deliveries of one entity | `Datas` |
| `MCIngestQueue`, `MCEntrega`, `MCRelatorios` | the runs of the first three components | |
| `MCTransacoes`, `MCCiclos` | the runs of the small components, one at a time | |

### 2.1 IngestQueue

`job[j]` is the committed row: status, `tentativas`, the outcome of each unit as
`_retry_plan` reads it back (`itens`), and the stage of `erro_sistema` (`fase`: none,
after the units, or another). A delivery is the pair of a job and the attempt its RQ id
names (`ingest-{id}-tentativa-{n}`). Redis is four sets of deliveries: the list, hashes
that say queued, hashes that say started, and the started ones whose worker died. They
are deliberately independent: a hash outlives its place in the list, which is what
`_enqueue_unique` has to cope with. `exec[w]` is the local state of `_processar`
between its transactions; `api[q]` is what a request still has to do in Redis after its
commit; `manut` is what one round of `recover_pending` read and has not handed over.

An action is one transaction with everything it writes, or one step of RQ. What a unit
loads, counters, progress, log lines and audit rows are abstracted away: the outcome of
a unit is a choice.

Three behaviours the code does not rule out are named by the constant `Riscos`, so that
a run says whether it assumes them away: an execution longer than the lease
(`alem_do_lease`), a failure callback that reaches a job another delivery executes
(`encerramento_alheio`; the callback knows the job, not the attempt) and an exception
between the claim and its commit (`claim_desfeito`; the handler then writes to a row it
does not own). With `Riscos = {}` every other fault stays: death of a worker or work
horse, lost callbacks, Redis refusing a delivery or accepting it and losing the answer,
duplicate deliveries, concurrent cancellation, retries and maintenance.

### 2.2 Entrega

A transaction `tx[t]` is a unit of a job, a retification scan or a replay. It holds the
rows only it can see; `Sobre` gives what a READ COMMITTED statement of it reads.
`ToBronze` is the INSERT .. ON CONFLICT DO NOTHING, which waits for another transaction
that inserted the same row; `Registrar` is `register_entrega` under
`pg_advisory_xact_lock` followed by the silver step, decided by an `is_new` read
before the lock; `Replay` registers and rewrites each version found in bronze. `Commit`
publishes and releases; `Rollback` is an exception or the death of the process;
`Impasse` is PostgreSQL's deadlock detector. The version a connector gives and the
content it received are choices, restricted by no assumption that equal versions have
equal contents. `ComLinhas` are the contents from which `to_silver` derives some row:
one that is neither empty nor there leaves a delivery in force without rows. Homologation instants are any instant up to now.

Seen from a key this is `Historico`: what its history is (`Historia`: each registered
version with its payload and the instant of its homologation) and which version is in
force (`Vigor`). A transaction that registered several keys is one step of it.

### 2.3 Relatorios and Agenda

`relatorio[r]` keeps status, recorded hash and the schedule execution a row is from;
`arquivo` and `tmp` are the file of a report and the `.tmp` beside it, one name per
report. `thr[p][t]` walks through `processar_relatorio`: claim (first transaction),
read of the row, write of `.tmp`, replace, `mark_success` and commit (second
transaction), or removal of the file and `mark_failure` (third). The ORM writes only
the columns that differ from what was read, and the model does the same (`Desfecho`,
`RecoverGravar`). `proc[p]` walks through start-up (read pending rows, put them back,
emit due schedules) and the rounds of the clock. A process may die anywhere: its pool,
threads and open transactions go. Recovery reads rows with no lock and in the same
way concerns reports that a living process generates: the history variable `retomados`
records those, and `abortados` the reports of a batch dropped by a database error.

With `resposta_perdida` in `Riscos`, a COMMIT may be applied and its answer lost. When it
is the one of `mark_success`, the handler takes a published report for failed, removes
its file and then writes `falhou` over its row (`PublicarSemResposta`, `RemoverArquivo`,
`MarkFailure`); `semResposta` holds the report from the first of these steps to the last.
When it is the one of a request or of the clock, the rows are there and no pool has them
(`Entregar`).

`Agenda` is the arithmetic of `_next_execution` on real dates (`Datas`, which knows leap
years): the clock finds a schedule due on any day since, and counts the next one from
the day it emitted.

### 2.4 Carteira, Alertas, Backfill

`Carteira`: `lotes` is the table in order of `criado_em`. No committed row is in
execution, because `EXECUTANDO` is only flushed in the transaction that ends it, so
nothing stops two clocks from executing one job; each writes the snapshot rows in the
order of the job's entities and holds them to the end. A load that committed a new
delivery computes its indicators and writes the same row. Failures and deaths are
bounded by `MaxFalhas`.

`Alertas`: an evaluation reads what the data says (`viu`), decides an effect on the
row it finds, writes it under the row's lock and commits; the memory of the process
(`_TTL_AVALIACAO_S`) is set whether it commits or not. The manager's PATCH is a
transaction of its own. `categoria` tells the rules of limits, whose orphans are
closed, from the others.

`Backfill`: the checkpoint is in memory (`corrida.done`) and in a file, saved every
`SalvarACada` units and at the end by a write in place, which a death truncates; a
truncated file makes every later run fail at its first read.

### 2.5 Contexto and Escopo

`Contexto`: a connection has parameters of its own and parameters local to its
transaction; `SET LOCAL` sets the second, and `after_begin` repeats it for each
transaction after a commit, from `session.info`. A flow (request or job) has a session
and, while it runs, perhaps a second one, with its own connection of the same pool; a
wait for a connection ends in an error when none is free (`pool_timeout`).

`Escopo`: what a session memorises (coverage of licences with the date, portfolio,
prefixes of states) beside the transactions of other sessions that change them; `Portao`
is the gate of one entity and `Agregado` the set of the aggregated views, each the
translation of its own function. `coberto` is history: what the licences covered at
some instant of the day since the request began.

### 2.6 The other components

`Grade`: rows are stamped with the start of their transaction, so a commit may leave
the key of the cache the same; `geracao` numbers the commits and a page carries the one
it shows. `JanelaLogin`: the question before `call_next` and the count after it are
atomic on the event loop, and everything between is in flight. `Fontes`: the source is
a sequence of numbered rows that may grow; each client follows its own protocol and
each request its attempts; any page may come without its rows or without the mark that
more follow (`LerPaginaRuim`), and `cortada` records that such a page ended the
reading. `Resolucao`: `aplicar_acao` reads the case without a lock
and writes the columns it changed at its commit, whatever they are by then; the load is
committed apart; a rematerialisation is judged by the newest row of the check, which
need not be of the period of the case. `Organizacao`: requests authorised at their first statement act later;
`lock_org` and the foreign key of the inserts decide who waits. `Assistente`: the
language model is external and asks for whatever it likes; the audit of a call commits
by itself. `Leque`: `_ordem_topologica` with its passes, its `avancou` and its way out
of a cycle; the sources that a manager turns on and off meanwhile.

`Calendario` keeps only the deliveries of one entity; its operators are the six
arithmetics of periods, each translated from its own file, and its invariant is that
they agree.

### 2.7 MCTransacoes and MCCiclos

These two modules check components that share no state with each other. A variable
`foco`, chosen at the start and never changed, names the one that runs, so a run is the
sum of the state spaces and not their product: interleaving components that share no
variable reaches no new state of any of them. `MCTransacoes` holds the eleven whose
properties are invariants; `MCCiclos` the four with liveness, with the fairness of each
guarded by its focus where its steps would otherwise stay enabled.

## 3. Runs

| Run | Instance | Shows |
|---|---|---|
| `fila_nominal` | 1 job, 2 units, 2 workers, 1 request, 2 attempts, 1 fault, `Riscos = {}` | exclusive execution; exact plans; concluded means complete; checkpoints durable; refinement of `JobDuravel` |
| `fila_riscos` | 1 unit, every hazard, fairness | two living executions never share an attempt number; every job ends |
| `fila_encerramento` (violation) | `encerramento_alheio` | a duplicate delivery's failure closes another worker's job, and a retry starts a second execution |
| `fila_lease` (violation) | `alem_do_lease`, 2 units | a late checkpoint erases the stage maintenance recorded, and the next attempt concludes without a unit |
| `entrega_nominal` | 1 key, 2 versions, 2 contents and the empty one, 2 transactions at a time, 3 in all, 2 units each, 3 instants, one of the two contents gives no rows, fairness | one delivery in force; deliveries have their payload and their silver step; the history preserved; refinement of `Historico` (histories only grow, the version homologated last is in force); transactions end |
| `entrega_asof` (violation) | 1 transaction at a time | `as_of` about a past instant changes when a retification homologated earlier is captured |
| `entrega_hash` (violation) | 1 version | silver skipped although the payload differs from the stored one |
| `relatorios_nominal` | 3 reports (1 asked for), 1 schedule, 1 API replica and 1 clock process of 1 thread, 1 death or lost answer, fairness | file matches hash; one report per schedule execution; published stays published; every report ends |
| `relatorios_recuperacao` (violation) | 1 report, 2 API replicas, 1 death | a published row whose hash is not its file's, after a recovery beside a living generation |
| `transacoes_isoladas` | the eleven components of `MCTransacoes`, below | their types and fourteen invariants |
| `ciclos_isolados` | the four components of `MCCiclos`, below, fairness | skipped units are loaded; snapshots computed; own context; decisions stay; a condition reaches the queue, a gone one leaves it; jobs, loads and requests end |
| `alertas_retorno` (violation) | 1 request, 1 process, 2 changes of the data, fairness | a condition that comes back and lasts, its alert closed by the rule and by nobody, for ever |

The instances of the two isolated runs, and why they suffice:

* escopo: 1 municipality, its state, 2 requests of different restrictions, 1 licence,
  2 days, 2 changes. Two days give a midnight and an end of licence in the middle of a
  request; the second request is the other transaction.
* grade: 2 organisations, 1 reader, 2 writers of one row, a cache of 1 entry that
  lives 1 instant, requests of 1 instant, 2 commits. Two writers let a later commit carry
  an older stamp.
* login: 3 attempts, limit 2, window of 2 instants, 5 instants: more attempts in flight
  than the limit, and a window that slides past its first failure.
* fontes: pages of 2, 5 rows, 2 attempts, a ceiling of 4 pages: a full, a short and an
  empty last page, a row that arrives in the middle, a retry, a page out of shape at any
  place.
* resolucao: 3 requests at once, 6 in all, 4 loads, 1 that fails between job and record.
* assistente: 1 question asked again, 2 entities, 2 versions, an explicit cut or none,
  2 turns of context, 1 step of tools, 1 change of scope.
* carteira: 2 clocks, 2 jobs that share 2 entities, for the circular wait;
  1 entity, 2 jobs per cycle and 2 versions, with failures, for the rest.
* organizacao: 2 roles, 2 users, 2 requests at once.
* leque: 3 sources with every graph of dependencies in which no source names itself
  (cycles included), 2 requests, 1 source turned on or off.
* calendario and agenda: 16 months from January 2023, which contain a leap February;
  days 1 and 30, since every deadline counts 30 days from the end of a month or falls on
  30 April; an entity that fails to publish one period at most; schedules that start on
  days 1, 30 and 31.
* alertas: 2 requests in 1 process, 2 changes of the data, 1 decision, 1 rollback.
* backfill: 4 units, saved every 2, 2 refusals, 2 deaths: a death before, during and
  after a save, and a run after each.
* contexto: 2 flows of 2 sessions over 2 connections, so that both may hold one and
  wait for another; 2 transactions in a flow, so that one follows a commit.

In the first three components: jobs do not interact except through the workers, so one
job with two workers shows every race for a row; two units tell "all", "some" and
"none" apart, which is what the plans distinguish. One fault suffices for each
violation found, and `MaxTentativas` lets an attempt follow a failure and a recovery. In
the sink a race needs two transactions on one key; two versions order against each
other, and the third transaction acts on what the first two left. Two units of a
transaction let it take two locks in either order. For reports the races are between
two processes for one row; a recovery lists several rows in one batch; one death or
lost answer is what separates a row from the pool that held it (`MaxQuedas` counts both). The proofs remove these bounds for the
theorems of section 5, among them the types of every component they concern.

Where a run does not check deadlock, the system may really stop: bounds used up, every
job, transaction, request or report at its end.

Each property of a passing run has a mutant in `PROJECT.json`: a plausible bug in a
mapped definition (a dropped guard, a status set too wide, a missing reset) under which
the same run finds the property violated.

## 4. Fairness

* Queue (`Fairness` of `IngestQueue`): a worker that has a delivery goes on (weak
  fairness of `Start` and `Avanca`: each worker is a process in a loop under
  `restart: always`). RQ pops its list in order, so a delivery that is in the list
  again and again is popped (strong fairness of `DequeueDe`). `_manutencao_duravel`
  runs every 60 s, so requeue and recovery are weakly fair, and Redis does not refuse the
  same job's delivery at every round (strong fairness of `RecoverDeliver`). Nothing is
  assumed of API requests, nor of any fault.
* Sink: a transaction goes on unless it waits, and PostgreSQL breaks a cycle of waits.
* Reports: threads and processes go on and a process that died is started again. Nobody
  has to ask for a report. Nothing has to fail, and nothing has to succeed: a thread may
  take the failing branch every time.
* Portfolio: the periodic task calls the cycle again and a cycle that began goes on;
  a load that committed its delivery materialises it.
* Alerts: time passes and a request that began goes on. That somebody reads the queue
  again and again is a hypothesis of the three properties that need it
  (`LeiturasContinuam`), not an assumption: alerts are evaluated on read.
* Backfill: a run that began goes on, and an operator starts it again
  (the module's docstring says it is resumed by running it again). Failures and deaths
  are finite.
* Sessions: a flow that began goes on, to its end or to an error.

## 5. Proofs

Every theorem holds for arbitrary constants under the `...Assumption` of the modules it
is about, which TLC evaluates in their runs. Bounds on counters stay in the guards as
constants, so a theorem says "for every bound".

**Queue.** `TypeCorrect` and `TiposPreservados` hold with every hazard. Exclusion is not
inductive by itself: that nobody else executes a job follows from the row saying
`executando` only while its executor is alive to finish it, and the checkpoint written
by an executor agrees with the row only if nobody else wrote it. The invariant is

    IInv == Tipos /\ LinhasBoas /\ ExecucaoExclusiva /\ ExecutaSoSeAssumido
            /\ PlanoCobreTudo /\ CopiaFiel /\ ExcecaoComFase

where `LinhasBoas` says which rows can be at rest (what `_retry_plan` partitions
correctly), `CopiaFiel` that the executor's copy of the items is the row's, and
`ExcecaoComFase` that a worker on its way to record an exception knows the stage.
`IInvNext` goes action by action, assuming `Riscos = {}`; `Exclusao`, `PlanoCompleto` and
`FimCorreto` are read off it, and all three state `ASSUME Riscos = {}`. The
violation runs show the assumption is needed. It cannot be weakened to fewer hazards:
with any one of the three alone, one job and two workers are enough for TLC to violate
`ExecucaoExclusiva`, `ExecutaSoSeAssumido`, `PlanoCobreTudo`, `ConcluidoCompleto`,
`FalhouReexecutavel`, `UnidadeOkPreservada` and `ImplementaJobDuravel`.
`TentativaUnica` needs no assumption: its
invariant `TInv` adds to the types that a living attempt's number was given out by its
row. `Refinamento` maps the status and the loaded units of each job and shows that every
step is a `JobDuravel` step or a stutter; `CheckpointDuravel` is an action property that
follows from the same step lemma.

**Sink.** Two invariants on top of the types. `EInv`: what is committed is well formed;
a transaction's own deliveries, over the committed ones, are well formed; only the
holder of a key's lock has unpublished deliveries of it; rows of a transaction that
overlay committed ones carry the same homologation; unpublished bronze is new. It gives
`UmaVigente` and `VigenteEhAUltima`, and with `SoCommitPublica` the action property
`HistoricoDuravel`. `CInv` says that bronze never holds the empty payload, that a delivery
has its bronze and what `to_silver` made of some payload in the committed state and in
what its transaction will publish, and that a payload said to be already stored is; it
gives `EntregaMaterializadaSempre`, whose difficulty is that `is_new` is read before the
lock and used after it. `EntregaComLinhas` adds the hypothesis under which the sink never
leaves a delivery without rows: `ComLinhas` holds every content but the empty one.

`SinkImplementaHistorico` is the refinement of `Historico`, step by step: every step but
a commit stutters (`SoCommitPublica`), and what a commit publishes of a key is an
`Acrescenta`. That the version in force changes only for one just published needs an
invariant of its own, `FInv`: laid over the committed deliveries of a key, what a
transaction has not published leaves the force where it is or passes it to a version
that only this transaction has (`Passa`). The lock of the key keeps it so from the read
of the maximum to the commit. The refinement says more than
`VigenteEhAUltima`, which is why the run checks it and leaves that invariant to its
theorem.

**Reports.** `IInvRelatorios` is the types, `TodosIntegros` and `AgendaBoa`. A report
that no recovery took from a living generation is *integral*: at most one thread, of one
process, is between the claim and the last transaction; meanwhile the row says
`processando` and what the thread wrote is where it left it; a row that says `gerado`
describes the file. When its generation was not told that it is published, the row says
`gerado` and all that thread may still do is to undo it. `AgendaBoa` says that the executions a process is about to emit are
of schedules whose rows it has locked, as they were when it listed them, and that an
execution that was emitted lies before the next one of its schedule. The theorems read
off are the integrity of artifacts, one report per execution, and the action property
`GeradoFica`.

**Portfolio** (`CargasProofs`), **alerts, backfill** (`CiclosProofs`). For the backfill the invariant is that
the checkpoint, in memory and in the file, never runs ahead of the commits. For alerts,
that what two requests hold of the row they hold one after the other, since the first
write takes the row's lock. For the portfolio: the entities of a job are in order; a
cycle holds entities left to write, in order, after those it wrote (so rows are locked in
one order and no circle of waits closes); and what was read, written or published is a
delivery with committed indicators.

**Roles** (`OrganizacaoProofs`). That an administrator remains is not inductive. The
invariant adds that only the update of a role takes the lock of the organisation and is
alone there, that a role or a user being created is new and nobody else creates it, and
`AlteracaoSegura`: what was counted under the lock still holds when the update commits.

**Sessions** (`CiclosProofs`). A connection serves one session, and one that is free,
or whose session is between transactions, carries no context.

**Fan-out** (`CargasProofs`). The sources of a request are lists that keep the order of
the registry, so they are sets with `PrimeiraDe` choosing the next one. The invariant
follows a round: what was put out are distinct sources of those chosen, each after the
chosen ones it depends on unless the graph has a circle; what is left of the round is
still pending; and if no source advanced, each one the round has passed waits for one
that is pending. From the last fact and an acyclic graph it follows that a round always
advances (a set of sources each of which waits for another of the set holds a circle:
`SemCiclo`), so that the way out of `_ordem_topologica` that gives up the order is taken
only on a circle. The jobs already committed keep what was said of them when the
request goes on, stops in the middle or is made again with other sources turned on.

**Calendar** (`CalendarioProofs`). No induction: days, months and years are compared by
arithmetic on their ordinals, periods by the formula of each of the six parts, for every
year. The invariant says only that deliveries are of the periods the entity publishes
and that the day lies in the years of the instance. Two of the five parts of `CalendarioCoerente` hold for any entity
(`PeriodosSempre`); `CalendarioCoerenteSempre` has the hypothesis `porte # "pequeno"`,
which cannot go: an entity that publishes by semester is shown as owing both (section 6).

**The small components** (`TransacoesProofs`), one section each:

* scope: for each session, what it showed today and what it memorised was covered at
  some time of today since it began, and, while nobody else commits, what it memorised
  is what it would read;
* quality case: each status has the fact it needs among the facts found out, and each
  request is on its way to a status whose fact it has. The number of loads is bounded by
  counting: loads plus the requests about to create one do not exceed one plus the
  crossings and the failures, and when they are as many no request is left that could ask
  for one more: each open one is counted, or read a row with a load on record, and the
  next one will find that row, or a counted one open;
* assistant: the calls of open requests are disjoint, each has its row without an
  answer, and rows and answers name each other; what was brought back is within what the
  request was allowed;
* schedules (`CalendarioProofs`): the arithmetic of the Gregorian calendar, for every
  year (years follow one another by 365 or 366 days, months by their lengths), from
  which a later month is a later day;
* login: the failures of the current window are exactly a suffix of the queue, the one
  that `popleft` would leave; with the attempts in flight they never exceed the limit by
  more than there are attempts less one;
* grid: a generation carried by a cached page was in force when the page was stored,
  less the duration of one request; the rest is arithmetic on the life of an entry;
* sources: the rows read are the first ones, in order, and as many as the cursor says
  (for the envelope, every page before the last is full); a page out of shape adds the
  next rows or none, and if it ends the reading the record says so.

The invariants of the assistant, the login, the grid and the sources do not mention
every field. `TipoAssistenteSempre`, `TipoLoginSempre`, `TipoGradeSempre` and
`TipoFontesSempre` type the rest. Going back over a conversation is the recursive
function `Subida`, over the turns a question looks at; that the function exists follows
from the first place where no partial iteration would, since a first one always exists
(`NatLessThanWellFounded`).

**The runs as wholes.** The components of `MCTransacoes` and of `MCCiclos` are proved
apart, and the runs explore them beside each other. `TransacoesCompoem` proves that a
behaviour of the run is a behaviour of each of the eleven (the two that read the calendar
share its day: a day that passes for one is a step of both), and `CiclosCompoem` the same
of the four; of `Contexto` it says the initial states and the steps, since the fairness
of its own specification is guarded by the focus in the run. So each of
`TiposTransacoesSempre`, `TransacoesSeguras` and `CiclosSeguros` is about the
specification TLC checks, with all its safety properties, for every value of the
constants.

**Only model-checked.** All liveness (`JobTermina`, `CargaTermina`, `RelatorioTermina`,
`LoteTermina`, `CondicaoNovaViraAlerta`, `OrfaoEncerra`, `BackfillCompleta`, `FluxoTermina`),
which is out of the prover's reach, and the violations. Every invariant and every
safety action property of the passing runs has a theorem; `CalendarioCoerente` has one
for the entities that do not publish by semester, which are those of its run. The
theorems of the queue other than typing and `TentativaUnica` state `Riscos = {}`.

## 6. What the runs found

The six violation runs are disagreements between the code and its own documentation,
quoted in `findings`: a failure callback closes another attempt's job; a late checkpoint
erases the stage that protects the plan of the next attempt; `as_of` does not reproduce
a past answer after a late capture; the hash of a payload is stored and never compared;
recovery of reports is not restricted to interrupted ones; and an alert that the rule
closed is not opened again when its condition comes back, so that the queue does not
agree with the data.

Other differences met while reading. Where the code they are in is modelled, the model
follows it; no run is about them:

* Sink (`shared/ingestion/base.py:156-157` against `179-183`): the docstring of `run` says
  that an empty payload is no delivery, since one in force without any row would hide the
  gap of the source as zero data. What is tested is the payload; a payload that is not
  empty may give no row, and is in force by then: a population or a GDP whose value is
  missing (`connectors/ibge.py:168-180`, `362-372`, which write `rows=[]`), items without
  the key a row needs (`siconfi.py:341`, `466`, `siops.py:118`). The mesh of IBGE writes no
  silver row, only a projection of the version in force (`ibge.py:269-270`).
* Sources (`shared/ingestion/client.py`): a page that is not an object, whose list is
  missing, is empty although more is announced, or does not announce it ends ORDS
  (157-159) and the envelope (220-224) as a last page would; OData does the same with a
  list that is no list or a page that is not an object (258-260), follows the link of an
  empty page, and goes on by `$skip` after a full page without a link. `MAX_PAGINAS` cuts
  a reading in the same silence. `LeituraCompleta` says of such a reading only that what
  it has is a prefix, in order.
* Calendar (`modules/alerts/rules.py:147`): `obrigacoes_do_ano` names the two semesters of
  a municipality of less than fifty thousand inhabitants `Q2` and `Q3`; its deliveries are
  stored as `S1` and `S2` (`tests/test_sprint21_backfill.py:135-139`), so `_calendario`
  (`engine.py:162`) finds neither: both are owed for ever, the first with the deadline of
  the second quadrimester. `PontualNaoDeve` is false once both are delivered.
* Quality (`modules/quality/resolucao.py:321-331`): the verdict that closes a case after a
  rematerialisation is the newest row of the check for the entity, of whatever period.
* Alerts (`modules/alerts/service.py:3-5` against `engine.py:254-307`, `396-468`,
  `474-530`): the rules these lines evaluate never close an alert whose condition went
  away. The key of an alert includes its anchor, so a new period opens another one.
* Reports (`workers/report_tasks.py:86-92`): a commit of a success whose answer is lost is
  handled as a failure, so the file of a published row is removed; when recording the
  failure fails as well, the row says `gerado`, without its file, until somebody asks for
  the report again. `ArtefatoIntegro` leaves such a report out and shows that no other
  one is touched.
* Portfolio (`workers/carteira_tasks.py:63,77`): jobs are executed without a claim, so
  the failure of a second clock overwrites `concluido`.
* Scope (`shared/scope.py:158-171` and `223`): gate and aggregate read the portfolio
  in statements of their own; between two commits of somebody else they may disagree.
* Backfill (`workers/backfill.py:66-71`): `Checkpoint.save` is not atomic. A death in the
  middle leaves a file that cannot be parsed, and `load` raises on it at every later run
  until somebody removes it (the exception `BackfillCompleta` states).
* Quality: a case closed is never opened again by an action, and a case with a reload
  on record answers 409 to another one; two requests on one row overwrite each other's
  note; the row of freshness of a period that is no longer the last is not updated; the
  sweep (`workers/quality_tasks.py:72-99`) is one transaction for all entities.
* Login (`shared/seguranca.py:124-130`): `Retry-After` is the life of the oldest failure,
  which is too short when the queue holds more than the limit.
* Assistant (`modules/assistant/llm.py:726-742` against `856-894`): the docstring says that
  a model that is unavailable falls back to the next one; the loop of tools takes only
  the first.
* Roles: a request whose author is demoted meanwhile still completes: authorisation is
  read at its start.
* Periods: `parse_periodo` (`modules/forecast/periodos.py`) knows no semester, so the
  freshness of a semester RGF is never late (`modules/quality/checks.py:648-651`);
  `RgfConnector.discover` (`siconfi.py:229-230`) names both semesters itself, so that the
  cut of periods that have not ended (`periodos_do_ano`, 103-120) does not apply to them; `_proximo_periodo_esperado` names a third period after the second
  semester; the DCA's 120 days end on 29 April in a leap year (`checks.py:580` says the
  30th of April); `ordenar_chave` puts a year before its parts while `mes_final` ends it in
  December; `Periodo.codigo` writes a month as `M7` where the rest writes `M07`.
* Schedules (`workers/report_tasks.py:164-182`): a monthly schedule that starts on the
  31st is moved to the 28th by the first February and stays there.
* `emitir_fatura` always says BRL; `FONTE_TODAS` is defined twice in `jobs_service.py`
  (lines 46 and 646) with different values.

## 7. Not modelled, and why

* Field parsing of connectors, decimal arithmetic of indicators, forecasts, statements
  and benchmarks, dashboards and other read models, glossaries, layout of documents and
  texts, the protocols of language models: data and I/O with no state of their own. They
  are most of the repository, which is why the modules stand for a small share of its
  lines.
* Row level security policies and database roles: enforced by PostgreSQL. What is
  modelled is what the code tells PostgreSQL about who is asking.
* In the queue: the read-only pre-flight, signals and start-up retry, and exceptions
  swallowed by the verification stage (nothing the model keeps would differ).
* In the sink: the ingestion log and how a source answers. Silver rows of one version
  are a single value: the rows of a unit are deleted and inserted in one transaction.
* In reports: gerado and parcial are one status; a schedule emits one row instead of one
  per entity; edition of schedules; the storage is one directory that every process sees
  (`docker-compose.prod.yml` declares no volume for it, so the containers of the API and
  of the clock each have their own).
* Calendar: the decisions on periods are evaluated for the day it is, as operators of the
  deliveries of one entity; the monthly balance (MSC) and the rewriting of rows of other
  years are left out.
* Fan-out: `Alternar` turns one source on or off where the code turns a family.
* Alerts: one alert of one rule; thresholds are arithmetic.
* Sessions and portfolios: tokens and passwords, invoices, legal entities and the rows
  of audit other than the assistant's.

`PROJECT.json` says the same component by component.

## 8. What could come next

1. Versions of forecast scenarios, credentials of the MCP server and the issue of
   invoices: three small state machines beside those of `MCTransacoes`.
2. `Resolucao` composed with `JobDuravel`: the case closed by the job it asked for.
3. A lost answer to COMMIT as a hazard constant of `IngestQueue` too.
