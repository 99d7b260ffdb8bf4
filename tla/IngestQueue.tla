---------------------------- MODULE IngestQueue ----------------------------
(***************************************************************************)
(* The durable ingestion queue: the SQL row of each job, the Redis/RQ      *)
(* transport that delivers it, the workers that execute it, the API        *)
(* requests that create, cancel and retry it and the periodic maintenance  *)
(* that recovers it (workers/ingest_jobs.py, workers/ingest_worker.py,     *)
(* modules/ingestion/jobs_service.py and jobs_repository.py).              *)
(*                                                                         *)
(* An action is one committed SQL transaction or one step of RQ.  What a   *)
(* unit of work loads, counters, logs and audit rows are left out; the     *)
(* outcome of a unit, which _retry_plan reads back, is kept.               *)
(***************************************************************************)
EXTENDS Integers, FiniteSets

CONSTANTS
    Jobs,           \* ids of ingest_job
    Units,          \* the (ente, chave) pairs of _all_units
    Workers,        \* RQ workers
    Requests,       \* API requests in flight
    Nada,           \* no delivery
    Riscos,         \* which hazards of the environment may happen, see below
    MaxTentativas,  \* bound: no retry is asked for beyond this many attempts
    MaxFalhas       \* bound: crashes, lost callbacks and hazards in a behaviour

(***************************************************************************)
(* The code does not rule these three out; a behaviour shows them only     *)
(* when Riscos names them.                                                 *)
(*   alem_do_lease       an execution outlives JOB_TIMEOUT plus grace, so  *)
(*                       reconcile_abandoned requeues a live one           *)
(*   encerramento_alheio a failure callback, which names the job and not   *)
(*                       the attempt, lands while another execution owns   *)
(*                       the job                                           *)
(*   claim_desfeito      an exception between the claim and its commit:    *)
(*                       the handler writes to a job it does not own       *)
(***************************************************************************)
TodosOsRiscos == {"alem_do_lease", "encerramento_alheio", "claim_desfeito"}

ASSUME ConstantsAssumption ==
    /\ Nada \notin Jobs \X Nat
    /\ Riscos \subseteq TodosOsRiscos
    /\ MaxTentativas \in Nat
    /\ MaxFalhas \in Nat

VARIABLES
    job,      \* the committed row of each job
    lista,    \* deliveries in the Redis list
    queued,   \* deliveries whose RQ hash says "queued"
    started,  \* deliveries whose RQ hash says "started"
    orfas,    \* started deliveries whose worker process died
    exec,     \* what each worker is doing
    api,      \* what each API request still has to do
    manut,    \* deliveries recover_pending has read and not yet handed over
    falhas    \* faults so far

vars == <<job, lista, queued, started, orfas, exec, api, manut, falhas>>
rqVars == <<lista, queued, started, orfas>>

Status == {"inexistente", "na_fila", "executando", "concluido", "falhou",
           "cancelado"}
Terminal == {"concluido", "falhou", "cancelado"}
Fases == {"nenhuma", "pos_job", "outra"}
Desfechos == {"ausente", "ok", "erro"}
Entregas == Jobs \X Nat

JobRow == [status: Status, tentativas: Nat, itens: [Units -> Desfechos],
           fase: Fases]
ExecState == [pc: {"livre", "retirada", "iniciada", "executando", "excecao",
                   "callback"},
              entrega: Entregas \cup {Nada}, tentativa: Nat,
              pend: SUBSET Units, itens: [Units -> Desfechos], fase: Fases]
ApiState == [pc: {"livre", "entregar", "queue_failure", "cancel_rq"},
             entrega: Entregas \cup {Nada}]

NenhumItem == [u \in Units |-> "ausente"]
Livre == [pc |-> "livre", entrega |-> Nada, tentativa |-> 0, pend |-> {},
          itens |-> NenhumItem, fase |-> "nenhuma"]
SemPedido == [pc |-> "livre", entrega |-> Nada]

Init ==
    /\ job = [j \in Jobs |-> [status |-> "inexistente", tentativas |-> 0,
                              itens |-> NenhumItem, fase |-> "nenhuma"]]
    /\ lista = {} /\ queued = {} /\ started = {} /\ orfas = {}
    /\ exec = [w \in Workers |-> Livre]
    /\ api = [q \in Requests |-> SemPedido]
    /\ manut = {}
    /\ falhas = 0

-----------------------------------------------------------------------------
(* Readings of the state. *)

\* The job a worker or a request works for.
JobDe(w) == exec[w].entrega[1]

\* w holds a job between the commit of its claim and its last write to it.
Executa(w, j) == exec[w].pc \in {"executando", "excecao"} /\ JobDe(w) = j

EmExecucao(j) == \E w \in Workers : Executa(w, j)

Com(r, desfecho) == {u \in Units : r.itens[u] = desfecho}

\* Mutants: the checkpoints of earlier attempts dropped; everything executed
\* again; only the recorded failures executed again.
PlanoBaseVazia(r) == {}
PlanoTudoDeNovo(r) == Units
PlanoSoFalhos(r) == IF Com(r, "erro") # {} THEN Com(r, "erro") ELSE Units

\* _retry_plan: the successes a new attempt keeps and the units it executes.
PlanoBase(r) ==
    IF r.fase # "nenhuma" \/ Com(r, "erro") # {} THEN Com(r, "ok") ELSE {}

PlanoPendentes(r) ==
    IF r.fase \in {"nenhuma", "pos_job"}
    THEN IF r.fase = "pos_job" \/ Com(r, "erro") # {}
         THEN Com(r, "erro")
         ELSE Units
    ELSE Units \ Com(r, "ok")

\* The id of the next delivery of a job: ingest-{id}-tentativa-{tentativas+1}.
RqJobId(j) == <<j, job[j].tentativas + 1>>

\* What an exception leaves in the row: status and erro_sistema, items kept.
ComFalha(r, fase) == [r EXCEPT !.status = "falhou", !.fase = fase]

Falha == falhas < MaxFalhas /\ falhas' = falhas + 1

-----------------------------------------------------------------------------
(* Transport: _enqueue_unique and what RQ does with a delivery. *)

\* Mutant: the hash is believed, list and worker are not looked at.
EntregaVivaPeloHash(d) == d \in queued \cup started

\* _esta_na_lista and _worker_vivo: a hash alone is no proof of life.
EntregaViva(d) ==
    \/ d \in queued /\ d \in lista
    \/ d \in started /\ \E w \in Workers : exec[w].entrega = d

\* Reuses a live delivery; replaces a terminal, lost or dead one, and one whose
\* worker gives no heartbeat in time, which _worker_vivo takes for dead.
EnqueueUnique(d) ==
    \/ EntregaViva(d) /\ UNCHANGED rqVars
    \/ /\ ~(d \in queued /\ d \in lista)
       /\ lista' = lista \cup {d}
       /\ queued' = queued \cup {d}
       /\ started' = started \ {d}
       /\ orfas' = orfas \ {d}

\* The worker pops the delivery; its hash still says "queued".
Dequeue(w, d) ==
    /\ exec[w].pc = "livre"
    /\ d \in lista
    /\ lista' = lista \ {d}
    /\ exec' = [exec EXCEPT ![w] = [Livre EXCEPT !.pc = "retirada",
                                                 !.entrega = d]]
    /\ UNCHANGED <<job, queued, started, orfas, api, manut, falhas>>

Start(w) ==
    /\ exec[w].pc = "retirada"
    /\ queued' = queued \ {exec[w].entrega}
    /\ started' = started \cup {exec[w].entrega}
    /\ exec' = [exec EXCEPT ![w].pc = "iniciada"]
    /\ UNCHANGED <<job, lista, orfas, api, manut, falhas>>

\* The delivery ends: RQ writes a terminal hash and the worker is free again.
FimDaEntrega(w) ==
    /\ queued' = queued \ {exec[w].entrega}
    /\ started' = started \ {exec[w].entrega}
    /\ exec' = [exec EXCEPT ![w] = Livre]
    /\ UNCHANGED <<lista, orfas>>

\* The execution is over and its outcome is not recorded yet.
Fechando(w, pc, fase) ==
    exec' = [exec EXCEPT ![w] = [Livre EXCEPT !.pc = pc, !.entrega = exec[w].entrega,
                                              !.fase = fase]]

-----------------------------------------------------------------------------
(* Execution: _processar under run_job_async. *)

\* claim_job, _retry_plan and the commit that publishes both.
ClaimJob(w) ==
    LET j == JobDe(w)
        base == PlanoBase(job[j])
        itens == [u \in Units |-> IF u \in base THEN "ok" ELSE "ausente"]
    IN /\ exec[w].pc = "iniciada"
       /\ job[j].status = "na_fila"
       /\ job' = [job EXCEPT ![j] =
                    [status |-> "executando", tentativas |-> @.tentativas + 1,
                     itens |-> itens, fase |-> "nenhuma"]]
       /\ exec' = [exec EXCEPT ![w] =
                    [pc |-> "executando", entrega |-> @.entrega,
                     tentativa |-> job[j].tentativas + 1,
                     pend |-> PlanoPendentes(job[j]), itens |-> itens,
                     fase |-> "nenhuma"]]
       /\ UNCHANGED <<rqVars, api, manut, falhas>>

\* The conditional UPDATE finds no job in the queue: the delivery is dropped.
ClaimRecusado(w) ==
    /\ exec[w].pc = "iniciada"
    /\ job[JobDe(w)].status # "na_fila"
    /\ FimDaEntrega(w)
    /\ UNCHANGED <<job, api, manut, falhas>>

\* The claim is rolled back by an exception before its commit.
ClaimDesfeito(w) ==
    /\ "claim_desfeito" \in Riscos
    /\ Falha
    /\ exec[w].pc = "iniciada"
    /\ job[JobDe(w)].status = "na_fila"
    /\ Fechando(w, "excecao", "outra")
    /\ UNCHANGED <<job, rqVars, api, manut>>

\* One unit and its checkpoint, which overwrites the whole "resultado".
ProcessarUnidade(w, u) ==
    /\ exec[w].pc = "executando"
    /\ u \in exec[w].pend
    /\ \E desfecho \in {"ok", "erro"} :
         LET itens == [exec[w].itens EXCEPT ![u] = desfecho]
         IN /\ exec' = [exec EXCEPT ![w].pend = @ \ {u}, ![w].itens = itens]
            /\ job' = [job EXCEPT ![JobDe(w)].itens = itens,
                                  ![JobDe(w)].fase = "nenhuma"]
    /\ UNCHANGED <<rqVars, api, manut, falhas>>

\* A timeout, or anything raised outside a unit: the open transaction is lost.
ExcecaoNaExecucao(w) ==
    /\ exec[w].pc = "executando"
    /\ Fechando(w, "excecao", IF exec[w].pend = {} THEN "pos_job" ELSE "outra")
    /\ UNCHANGED <<job, rqVars, api, manut, falhas>>

\* The handler of _processar: it does not look at the status it overwrites.
RegistrarExcecao(w) ==
    /\ exec[w].pc = "excecao"
    /\ job' = [job EXCEPT ![JobDe(w)] = ComFalha(@, exec[w].fase)]
    /\ Fechando(w, "callback", "nenhuma")
    /\ UNCHANGED <<rqVars, api, manut, falhas>>

\* The post-job stage and the final commit, also without looking.
Concluir(w) ==
    /\ exec[w].pc = "executando"
    /\ exec[w].pend = {}
    /\ job' = [job EXCEPT ![JobDe(w)] =
                 [status |-> IF Com(exec[w], "erro") = {} THEN "concluido"
                                                          ELSE "falhou",
                  tentativas |-> @.tentativas, itens |-> exec[w].itens,
                  fase |-> "nenhuma"]]
    /\ FimDaEntrega(w)
    /\ UNCHANGED <<api, manut, falhas>>

-----------------------------------------------------------------------------
(* Failure callbacks and crashes. *)

\* Mutant: the callback closes whatever it finds.
MarkFailureSempre(j) == job' = [job EXCEPT ![j] = ComFalha(@, "outra")]

\* lock_active_job and what _mark_active_failure writes.
MarkActiveFailure(j) ==
    job' = IF job[j].status \in {"na_fila", "executando"}
           THEN [job EXCEPT ![j] = ComFalha(@, "outra")]
           ELSE job

\* The hazard the callbacks are exposed to, when Riscos leaves it out.
PodeEncerrar(j) == "encerramento_alheio" \in Riscos \/ ~EmExecucao(j)

\* rq_failure_callback, or rq_work_horse_killed.
Callback(w) ==
    /\ exec[w].pc = "callback"
    /\ PodeEncerrar(JobDe(w))
    /\ MarkActiveFailure(JobDe(w))
    /\ FimDaEntrega(w)
    /\ UNCHANGED <<api, manut, falhas>>

\* The callback itself fails: the row keeps its status until the lease ends.
CallbackPerdido(w) ==
    /\ Falha
    /\ exec[w].pc = "callback"
    /\ FimDaEntrega(w)
    /\ UNCHANGED <<job, api, manut>>

\* The work horse dies; its parent reports it.
HorseMorto(w) ==
    /\ Falha
    /\ exec[w].pc \in {"iniciada", "executando", "excecao"}
    /\ Fechando(w, "callback", "nenhuma")
    /\ UNCHANGED <<job, rqVars, api, manut>>

\* The whole worker process dies and is restarted with nothing to do.
WorkerMorto(w) ==
    /\ Falha
    /\ exec[w].pc # "livre"
    /\ orfas' = IF exec[w].pc = "retirada" THEN orfas
                ELSE orfas \cup ({exec[w].entrega} \cap started)
    /\ exec' = [exec EXCEPT ![w] = Livre]
    /\ UNCHANGED <<job, lista, queued, started, api, manut>>

\* RQ's registry clean-up finds a started delivery nobody runs any more and
\* executes its on_failure.
EntregaAbandonada(d) ==
    /\ d \in orfas
    /\ PodeEncerrar(d[1])
    /\ MarkActiveFailure(d[1])
    /\ started' = started \ {d}
    /\ orfas' = orfas \ {d}
    /\ UNCHANGED <<lista, queued, exec, api, manut, falhas>>

-----------------------------------------------------------------------------
(* API requests. *)

Pedido(q, pc, d) == api' = [api EXCEPT ![q] = [pc |-> pc, entrega |-> d]]

\* _criar up to the commit in enqueue.
Criar(q, j) ==
    /\ api[q].pc = "livre"
    /\ job[j].status = "inexistente"
    /\ job' = [job EXCEPT ![j].status = "na_fila"]
    /\ Pedido(q, "entregar", RqJobId(j))
    /\ UNCHANGED <<rqVars, exec, manut, falhas>>

Reexecutavel(r) == Com(r, "erro") # {} \/ r.fase # "nenhuma"

\* retry up to the commit in enqueue; retry_job keeps resultado and tentativas.
RetryJob(q, j) ==
    /\ api[q].pc = "livre"
    /\ job[j].status = "falhou"
    /\ Reexecutavel(job[j])
    /\ job[j].tentativas < MaxTentativas
    /\ job' = [job EXCEPT ![j].status = "na_fila"]
    /\ Pedido(q, "entregar", RqJobId(j))
    /\ UNCHANGED <<rqVars, exec, manut, falhas>>

Enqueue(q) ==
    /\ api[q].pc = "entregar"
    /\ EnqueueUnique(api[q].entrega)
    /\ api' = [api EXCEPT ![q] = SemPedido]
    /\ UNCHANGED <<job, exec, manut, falhas>>

\* Redis refuses the delivery, or accepts it and the answer is lost.
EnqueueErro(q) ==
    /\ api[q].pc = "entregar"
    /\ UNCHANGED rqVars \/ EnqueueUnique(api[q].entrega)
    /\ api' = [api EXCEPT ![q].pc = "queue_failure"]
    /\ UNCHANGED <<job, exec, manut, falhas>>

\* _queue_failure: closes the job only if it is still in the queue.
QueueFailure(q) ==
    LET j == api[q].entrega[1]
    IN /\ api[q].pc = "queue_failure"
       /\ job' = IF job[j].status = "na_fila"
                 THEN [job EXCEPT ![j] = ComFalha(@, "outra")]
                 ELSE job
       /\ api' = [api EXCEPT ![q] = SemPedido]
       /\ UNCHANGED <<rqVars, exec, manut, falhas>>

Cancelavel(j) == job[j].status = "na_fila"

CancelJob(q, j) ==
    /\ api[q].pc = "livre"
    /\ Cancelavel(j)
    /\ job' = [job EXCEPT ![j].status = "cancelado"]
    /\ Pedido(q, "cancel_rq", RqJobId(j))
    /\ UNCHANGED <<rqVars, exec, manut, falhas>>

\* cancel_rq: best effort, after the commit of the cancellation.
CancelRq(q) ==
    /\ api[q].pc = "cancel_rq"
    /\ \/ /\ lista' = lista \ {api[q].entrega}
          /\ queued' = queued \ {api[q].entrega}
       \/ UNCHANGED <<lista, queued>>
    /\ api' = [api EXCEPT ![q] = SemPedido]
    /\ UNCHANGED <<job, started, orfas, exec, manut, falhas>>

\* The API process dies after a commit and before the Redis call.
PedidoMorto(q) ==
    /\ Falha
    /\ api[q].pc # "livre"
    /\ api' = [api EXCEPT ![q] = SemPedido]
    /\ UNCHANGED <<job, rqVars, exec, manut>>

-----------------------------------------------------------------------------
(* Maintenance: reconcile_abandoned and recover_pending, by any worker. *)

\* Mutant: a cutoff that does not cover the time a job may take.
LeaseSemFolga(j) == job[j].status = "executando"

\* A lease in the past: nobody executes the job, or somebody outlives it.
LeaseVencido(j) == job[j].status = "executando" /\ ~EmExecucao(j)
LeaseUltrapassado(j) ==
    /\ "alem_do_lease" \in Riscos
    /\ job[j].status = "executando" /\ EmExecucao(j)

\* Mutant: the attempt counter starts again with the requeue.
RequeueZerando(S) ==
    job' = [j \in Jobs |-> IF j \in S
                           THEN [job[j] EXCEPT !.status = "na_fila",
                                               !.tentativas = 0]
                           ELSE job[j]]

\* requeue_abandoned_jobs and the erro_sistema reconcile_abandoned adds.
Requeue(S) ==
    job' = [j \in Jobs |-> IF j \in S
                           THEN [job[j] EXCEPT !.status = "na_fila",
                                               !.fase = "outra"]
                           ELSE job[j]]

ReconcileAbandoned ==
    /\ \E S \in SUBSET {j \in Jobs : LeaseVencido(j)} : S # {} /\ Requeue(S)
    /\ UNCHANGED <<rqVars, exec, api, manut, falhas>>

ReconcileVivo(j) ==
    /\ LeaseUltrapassado(j)
    /\ Falha
    /\ Requeue({j})
    /\ UNCHANGED <<rqVars, exec, api, manut>>

\* recover_pending reads the queue once and then talks to Redis job by job.
NaFilaSemEntrega == {RqJobId(j) : j \in {k \in Jobs : job[k].status = "na_fila"}}

RecoverPending ==
    /\ manut = {} /\ NaFilaSemEntrega # {}
    /\ manut' = NaFilaSemEntrega
    /\ UNCHANGED <<job, rqVars, exec, api, falhas>>

RecoverDeliver(d) ==
    /\ d \in manut
    /\ EnqueueUnique(d)
    /\ manut' = manut \ {d}
    /\ UNCHANGED <<job, exec, api, falhas>>

RecoverErro(d) ==
    /\ d \in manut
    /\ manut' = manut \ {d}
    /\ UNCHANGED <<job, rqVars, exec, api, falhas>>

-----------------------------------------------------------------------------
WorkerStep(w) ==
    \/ \E d \in lista : Dequeue(w, d)
    \/ Start(w) \/ ClaimJob(w) \/ ClaimRecusado(w) \/ ClaimDesfeito(w)
    \/ \E u \in Units : ProcessarUnidade(w, u)
    \/ ExcecaoNaExecucao(w) \/ RegistrarExcecao(w) \/ Concluir(w)
    \/ Callback(w) \/ CallbackPerdido(w) \/ HorseMorto(w) \/ WorkerMorto(w)

ApiStep(q) ==
    \/ \E j \in Jobs : Criar(q, j) \/ RetryJob(q, j) \/ CancelJob(q, j)
    \/ Enqueue(q) \/ EnqueueErro(q) \/ QueueFailure(q) \/ CancelRq(q)
    \/ PedidoMorto(q)

MaintenanceStep ==
    \/ ReconcileAbandoned
    \/ \E j \in Jobs : ReconcileVivo(j)
    \/ RecoverPending
    \/ \E d \in manut : RecoverDeliver(d) \/ RecoverErro(d)
    \/ \E d \in orfas : EntregaAbandonada(d)

Next ==
    \/ \E w \in Workers : WorkerStep(w)
    \/ \E q \in Requests : ApiStep(q)
    \/ MaintenanceStep

Spec == Init /\ [][Next]_vars

(***************************************************************************)
(* A worker that is up goes on; RQ pops its list in order, so a delivery   *)
(* in it is reached; maintenance runs every MAINTENANCE_INTERVAL_SECONDS,  *)
(* and Redis is not down at every one of its rounds.  Nobody has to create,*)
(* cancel or retry a job, and a request may never get to its Redis call.   *)
(***************************************************************************)
DequeueDe(j) ==
    \E w \in Workers, d \in lista : d[1] = j /\ Dequeue(w, d)

Avanca(w) ==
    \/ ClaimJob(w) \/ ClaimRecusado(w)
    \/ \E u \in Units : ProcessarUnidade(w, u)
    \/ Concluir(w)
    \/ RegistrarExcecao(w) \/ Callback(w)

Fairness ==
    /\ \A j \in Jobs : SF_vars(DequeueDe(j))
    /\ \A w \in Workers : WF_vars(Start(w)) /\ WF_vars(Avanca(w))
    /\ WF_vars(ReconcileAbandoned)
    /\ WF_vars(RecoverPending)
    /\ \A j \in Jobs : SF_vars(\E d \in manut : d[1] = j /\ RecoverDeliver(d))

FairSpec == Spec /\ Fairness

-----------------------------------------------------------------------------
TypeOK ==
    /\ job \in [Jobs -> JobRow]
    /\ lista \subseteq Entregas /\ queued \subseteq Entregas
    /\ started \subseteq Entregas /\ orfas \subseteq Entregas
    /\ manut \subseteq Entregas
    /\ exec \in [Workers -> ExecState]
    /\ api \in [Requests -> ApiState]
    /\ falhas \in Nat

(***************************************************************************)
(* While Riscos = {}.                                                      *)
(***************************************************************************)

\* A job is executed by at most one worker, whatever RQ delivers twice and
\* whoever cancels, retries or recovers it (ingest_jobs.py, 3-6).
ExecucaoExclusiva ==
    \A j \in Jobs, w, v \in Workers :
        Executa(w, j) /\ Executa(v, j) => w = v

\* What is being executed is what SQL says is executing: no worker works for
\* a job that was cancelled, closed or given back to the queue.
ExecutaSoSeAssumido ==
    \A j \in Jobs, w \in Workers :
        Executa(w, j) => job[j].status = "executando"

\* An execution has a plan for every unit of the job: done in an earlier
\* attempt, done in this one, or still to do, and never done twice.
PlanoCobreTudo ==
    \A w \in Workers : exec[w].pc = "executando" =>
        \A u \in Units :
            u \in exec[w].pend <=> job[JobDe(w)].itens[u] = "ausente"

\* A concluded job loaded every unit, over however many attempts.
ConcluidoCompleto ==
    \A j \in Jobs : job[j].status = "concluido" => Com(job[j], "ok") = Units

\* A failed job can be asked for again: retry finds something to do in it.
FalhouReexecutavel ==
    \A j \in Jobs : job[j].status = "falhou" => Reexecutavel(job[j])

\* A unit loaded once is a checkpoint of the job for ever.
UnidadeOkPreservada ==
    [][\A j \in Jobs, u \in Units :
         job[j].itens[u] = "ok" => job'[j].itens[u] = "ok"]_job

\* The queue implements what it promises of each job.
Duravel == INSTANCE JobDuravel
             WITH estado <- [j \in Jobs |-> job[j].status],
                  feitas <- [j \in Jobs |-> Com(job[j], "ok")]
ImplementaJobDuravel == Duravel!Spec

(***************************************************************************)
(* With every hazard.                                                      *)
(***************************************************************************)

\* The attempt number tells executions of one job apart, even when two of
\* them are alive: it is never given out twice.
TentativaExclusiva ==
    \A w, v \in Workers :
        /\ exec[w].pc = "executando"
        /\ exec[v].pc = "executando"
        /\ w # v /\ JobDe(w) = JobDe(v)
        => exec[w].tentativa # exec[v].tentativa

\* A job in the queue or in execution ends, whatever crash, lost delivery or
\* Redis outage it meets: none stays "na fila" with nobody to execute it.
JobTermina ==
    \A j \in Jobs :
        job[j].status \in {"na_fila", "executando"} ~> job[j].status \in Terminal
=============================================================================
