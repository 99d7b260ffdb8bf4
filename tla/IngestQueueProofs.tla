------------------------- MODULE IngestQueueProofs -------------------------
(***************************************************************************)
(* Proofs about IngestQueue, for every set of jobs, units, workers and     *)
(* requests and every bound, and that it implements JobDuravel.            *)
(***************************************************************************)
EXTENDS IngestQueue, TLAPS

\* Who works on a delivery names one.
EntregaDefinida ==
    /\ \A w \in Workers : exec[w].pc # "livre" => exec[w].entrega \in Entregas
    /\ \A q \in Requests : api[q].pc # "livre" => api[q].entrega \in Entregas

Tipos == TypeOK /\ EntregaDefinida

LEMMA EntregaTemJob ==
    ASSUME NEW d \in Entregas
    PROVE  d[1] \in Jobs /\ d[2] \in Nat
  BY DEF Entregas

\* EnqueueUnique only adds the delivery it is given.
LEMMA EnqueueUniqueTipos ==
    ASSUME TypeOK, NEW d \in Entregas, EnqueueUnique(d)
    PROVE  /\ lista' \subseteq Entregas /\ queued' \subseteq Entregas
           /\ started' \subseteq Entregas /\ orfas' \subseteq Entregas
  BY DEF TypeOK, EnqueueUnique, rqVars

\* A failure leaves a row.
LEMMA ComFalhaTipos ==
    ASSUME NEW r \in JobRow, NEW fase \in Fases
    PROVE  ComFalha(r, fase) \in JobRow
  BY DEF ComFalha, JobRow, Status

\* One row replaced by another.
LEMMA LinhaTipos ==
    ASSUME job \in [Jobs -> JobRow], NEW j \in Jobs, NEW r \in JobRow,
           job' = [job EXCEPT ![j] = r]
    PROVE  job' \in [Jobs -> JobRow]
  OBVIOUS

\* One worker's state replaced by another.
LEMMA ExecTipos ==
    ASSUME Tipos, NEW w \in Workers, NEW e \in ExecState,
           e.pc # "livre" => e.entrega \in Entregas,
           exec' = [exec EXCEPT ![w] = e]
    PROVE  /\ exec' \in [Workers -> ExecState]
           /\ \A v \in Workers :
                exec'[v].pc # "livre" => exec'[v].entrega \in Entregas
  BY DEF Tipos, TypeOK, EntregaDefinida

\* A worker whose execution is over keeps its delivery.
LEMMA FechandoTipos ==
    ASSUME Tipos, NEW w \in Workers, exec[w].pc # "livre",
           NEW pc \in {"excecao", "callback"}, NEW fase \in Fases,
           Fechando(w, pc, fase)
    PROVE  /\ exec' \in [Workers -> ExecState]
           /\ \A v \in Workers :
                exec'[v].pc # "livre" => exec'[v].entrega \in Entregas
<1> DEFINE e == [Livre EXCEPT !.pc = pc, !.entrega = exec[w].entrega,
                              !.fase = fase]
<1>1. exec[w].entrega \in Entregas
  BY DEF Tipos, EntregaDefinida
<1>2. e \in ExecState /\ e.entrega \in Entregas
  BY <1>1 DEF Livre, ExecState, NenhumItem, Desfechos
<1>3. exec' = [exec EXCEPT ![w] = e]
  BY DEF Fechando
<1> QED
  BY <1>2, <1>3, ExecTipos

\* The failure callbacks write a row or nothing.
LEMMA MarkActiveFailureTipos ==
    ASSUME job \in [Jobs -> JobRow], NEW j \in Jobs, MarkActiveFailure(j)
    PROVE  job' \in [Jobs -> JobRow]
<1>1. ComFalha(job[j], "outra") \in JobRow
  BY ComFalhaTipos DEF Fases
<1> QED
  BY <1>1 DEF MarkActiveFailure

\* A requeue writes rows.
LEMMA RequeueTipos ==
    ASSUME job \in [Jobs -> JobRow], NEW S, Requeue(S)
    PROVE  job' \in [Jobs -> JobRow]
<1>1. ASSUME NEW j \in Jobs
      PROVE  [job[j] EXCEPT !.status = "na_fila", !.fase = "outra"] \in JobRow
  BY DEF JobRow, Status, Fases
<1> QED
  BY <1>1 DEF Requeue

\* The initial state is typed.
LEMMA TiposInit == Init => Tipos
  BY ConstantsAssumption
     DEF Init, Tipos, TypeOK, EntregaDefinida, JobRow, ExecState, ApiState,
         Livre, SemPedido, NenhumItem, Status, Fases, Desfechos

\* Every step keeps the types.
LEMMA TiposNext == Tipos /\ [Next]_vars => Tipos'
<1> SUFFICES ASSUME Tipos, [Next]_vars PROVE Tipos'
  OBVIOUS
<1> USE DEF Tipos, TypeOK, EntregaDefinida, rqVars
<1>1. CASE UNCHANGED vars
  BY <1>1 DEF vars
<1>2. ASSUME NEW w \in Workers, NEW d \in lista, Dequeue(w, d) PROVE Tipos'
  BY <1>2 DEF Dequeue, Livre, ExecState, NenhumItem, Desfechos, Fases
<1>3. ASSUME NEW w \in Workers, Start(w) PROVE Tipos'
  BY <1>3, ZenonT(30) DEF Start, ExecState
<1>4. ASSUME NEW w \in Workers, ClaimJob(w) PROVE Tipos'
  <2> DEFINE j == JobDe(w)
             base == PlanoBase(job[j])
             itens == [u \in Units |-> IF u \in base THEN "ok" ELSE "ausente"]
  <2>1. j \in Jobs /\ job[j] \in JobRow /\ exec[w].entrega \in Entregas
    BY <1>4, EntregaTemJob DEF ClaimJob, JobDe
  <2>2. itens \in [Units -> Desfechos]
    BY DEF Desfechos
  <2>3. [status |-> "executando", tentativas |-> job[j].tentativas + 1,
         itens |-> itens, fase |-> "nenhuma"] \in JobRow
    BY <2>1, <2>2 DEF JobRow, Status, Fases
  <2>4. PlanoPendentes(job[j]) \subseteq Units
    BY DEF PlanoPendentes, Com
  <2>5. [pc |-> "executando", entrega |-> exec[w].entrega,
         tentativa |-> job[j].tentativas + 1, pend |-> PlanoPendentes(job[j]),
         itens |-> itens, fase |-> "nenhuma"] \in ExecState
    BY <2>1, <2>2, <2>4 DEF ExecState, JobRow, Fases
  <2>6. job' \in [Jobs -> JobRow]
    BY <1>4, <2>1, <2>3, LinhaTipos DEF ClaimJob
  <2>7. /\ exec' \in [Workers -> ExecState]
        /\ \A v \in Workers :
             exec'[v].pc # "livre" => exec'[v].entrega \in Entregas
    BY <1>4, <2>1, <2>5, ExecTipos DEF ClaimJob
  <2> QED
    BY <1>4, <2>6, <2>7 DEF ClaimJob
<1>5. ASSUME NEW w \in Workers, ClaimRecusado(w) PROVE Tipos'
  BY <1>5, EntregaTemJob
     DEF ClaimRecusado, FimDaEntrega, Livre, ExecState, NenhumItem, Desfechos, Fases
<1>6. ASSUME NEW w \in Workers, ClaimDesfeito(w) PROVE Tipos'
  BY <1>6, FechandoTipos DEF ClaimDesfeito, Falha, Fases
<1>7. ASSUME NEW w \in Workers, ExcecaoNaExecucao(w) PROVE Tipos'
  BY <1>7, FechandoTipos DEF ExcecaoNaExecucao, Fases
<1>8. ASSUME NEW w \in Workers, RegistrarExcecao(w) PROVE Tipos'
  <2>1. JobDe(w) \in Jobs /\ exec[w].fase \in Fases
    BY <1>8, EntregaTemJob DEF RegistrarExcecao, JobDe, ExecState
  <2>2. job' \in [Jobs -> JobRow]
    BY <1>8, <2>1, ComFalhaTipos, LinhaTipos DEF RegistrarExcecao
  <2> QED
    BY <1>8, <2>2, FechandoTipos DEF RegistrarExcecao, Fases
<1>9. ASSUME NEW w \in Workers, Concluir(w) PROVE Tipos'
  BY <1>9, EntregaTemJob
     DEF Concluir, FimDaEntrega, Livre, ExecState, NenhumItem, Desfechos, Fases, JobDe, JobRow, Status
<1>10. ASSUME NEW w \in Workers, Callback(w) PROVE Tipos'
  <2>1. job' \in [Jobs -> JobRow]
    BY <1>10, EntregaTemJob, MarkActiveFailureTipos DEF Callback, JobDe
  <2> QED
    BY <1>10, <2>1
       DEF Callback, FimDaEntrega, Livre, ExecState, NenhumItem, Desfechos, Fases
<1>11. ASSUME NEW w \in Workers, CallbackPerdido(w) PROVE Tipos'
  BY <1>11, EntregaTemJob
     DEF CallbackPerdido, Falha, FimDaEntrega, Livre, ExecState, NenhumItem, Desfechos, Fases
<1>12. ASSUME NEW w \in Workers, HorseMorto(w) PROVE Tipos'
  BY <1>12, FechandoTipos DEF HorseMorto, Falha, Fases
<1>13. ASSUME NEW w \in Workers, WorkerMorto(w) PROVE Tipos'
  BY <1>13, EntregaTemJob
     DEF WorkerMorto, Falha, Livre, ExecState, NenhumItem, Desfechos, Fases
<1>14. ASSUME NEW w \in Workers, NEW u \in Units, ProcessarUnidade(w, u)
      PROVE  Tipos'
  <2>1. JobDe(w) \in Jobs
    BY <1>14, EntregaTemJob DEF ProcessarUnidade, JobDe
  <2>2. PICK desfecho \in {"ok", "erro"} :
          LET itens == [exec[w].itens EXCEPT ![u] = desfecho]
          IN /\ exec' = [exec EXCEPT ![w].pend = @ \ {u}, ![w].itens = itens]
             /\ job' = [job EXCEPT ![JobDe(w)].itens = itens,
                                   ![JobDe(w)].fase = "nenhuma"]
    BY <1>14 DEF ProcessarUnidade
  <2> DEFINE itens == [exec[w].itens EXCEPT ![u] = desfecho]
  <2>3. itens \in [Units -> Desfechos]
    BY DEF ExecState, Desfechos
  <2>4. [exec[w] EXCEPT !.pend = @ \ {u}, !.itens = itens] \in ExecState
    BY <2>3 DEF ExecState
  <2>5. [job[JobDe(w)] EXCEPT !.itens = itens, !.fase = "nenhuma"] \in JobRow
    BY <2>1, <2>3 DEF JobRow, Fases
  <2>6. exec' = [exec EXCEPT ![w] = [exec[w] EXCEPT !.pend = @ \ {u}, !.itens = itens]]
    BY <2>2
  <2>7. job' = [job EXCEPT ![JobDe(w)] =
                   [job[JobDe(w)] EXCEPT !.itens = itens, !.fase = "nenhuma"]]
    BY <2>1, <2>2
  <2>8. [exec[w] EXCEPT !.pend = @ \ {u}, !.itens = itens].entrega \in Entregas
    BY <1>14 DEF ProcessarUnidade, ExecState
  <2>9. /\ exec' \in [Workers -> ExecState]
        /\ \A v \in Workers :
             exec'[v].pc # "livre" => exec'[v].entrega \in Entregas
    BY <2>4, <2>6, <2>8, ExecTipos
  <2>10. job' \in [Jobs -> JobRow]
    BY <2>1, <2>5, <2>7, LinhaTipos
  <2> QED
    BY <1>14, <2>9, <2>10 DEF ProcessarUnidade
<1>15. ASSUME NEW q \in Requests, NEW j \in Jobs, Criar(q, j) PROVE Tipos'
  BY <1>15, SMTT(20) DEF Criar, Pedido, RqJobId, ApiState, Entregas, JobRow, Status
<1>16. ASSUME NEW q \in Requests, NEW j \in Jobs, RetryJob(q, j) PROVE Tipos'
  BY <1>16, SMTT(20) DEF RetryJob, Pedido, RqJobId, ApiState, Entregas, JobRow, Status
<1>17. ASSUME NEW q \in Requests, NEW j \in Jobs, CancelJob(q, j) PROVE Tipos'
  BY <1>17, SMTT(20) DEF CancelJob, Cancelavel, Pedido, RqJobId, ApiState, Entregas,
               JobRow, Status
<1>18. ASSUME NEW q \in Requests, Enqueue(q) PROVE Tipos'
  BY <1>18, EnqueueUniqueTipos DEF Enqueue, SemPedido, ApiState
<1>19. ASSUME NEW q \in Requests, EnqueueErro(q) PROVE Tipos'
  BY <1>19, EnqueueUniqueTipos DEF EnqueueErro, ApiState
<1>20. ASSUME NEW q \in Requests, QueueFailure(q) PROVE Tipos'
  <2> DEFINE j == api[q].entrega[1]
  <2>1. j \in Jobs
    BY <1>20, EntregaTemJob DEF QueueFailure
  <2>2. ComFalha(job[j], "outra") \in JobRow
    BY <2>1, ComFalhaTipos DEF Fases
  <2>3. job' \in [Jobs -> JobRow]
    BY <1>20, <2>1, <2>2 DEF QueueFailure
  <2> QED
    BY <1>20, <2>3 DEF QueueFailure, SemPedido, ApiState
<1>21. ASSUME NEW q \in Requests, CancelRq(q) PROVE Tipos'
  BY <1>21 DEF CancelRq, SemPedido, ApiState
<1>22. ASSUME NEW q \in Requests, PedidoMorto(q) PROVE Tipos'
  BY <1>22 DEF PedidoMorto, Falha, SemPedido, ApiState
<1>23. ASSUME ReconcileAbandoned PROVE Tipos'
  BY <1>23, RequeueTipos DEF ReconcileAbandoned
<1>24. ASSUME NEW j \in Jobs, ReconcileVivo(j) PROVE Tipos'
  BY <1>24, RequeueTipos DEF ReconcileVivo, Falha
<1>25. ASSUME RecoverPending PROVE Tipos'
  BY <1>25 DEF RecoverPending, NaFilaSemEntrega, RqJobId, Entregas, JobRow
<1>26. ASSUME NEW d \in manut, RecoverDeliver(d) PROVE Tipos'
  BY <1>26, EnqueueUniqueTipos DEF RecoverDeliver
<1>27. ASSUME NEW d \in manut, RecoverErro(d) PROVE Tipos'
  BY <1>27 DEF RecoverErro
<1>28. ASSUME NEW d \in orfas, EntregaAbandonada(d) PROVE Tipos'
  BY <1>28, EntregaTemJob, MarkActiveFailureTipos DEF EntregaAbandonada
<1> QED
  BY <1>1, <1>2, <1>3, <1>4, <1>5, <1>6, <1>7, <1>8, <1>9, <1>10, <1>11, <1>12, <1>13, <1>14, <1>15, <1>16, <1>17, <1>18, <1>19, <1>20, <1>21, <1>22, <1>23, <1>24, <1>25, <1>26, <1>27, <1>28
     DEF Next, WorkerStep, ApiStep, MaintenanceStep

\* The type invariant of the queue, with who works on what.
THEOREM TiposPreservados == Spec => []Tipos
  BY TiposInit, TiposNext, PTL DEF Spec

\* TypeOK, the part of Tipos the runs check.
THEOREM TypeCorrect == Spec => []TypeOK
<1>1. Tipos => TypeOK
  BY DEF Tipos
<1> QED
  BY <1>1, TiposPreservados, PTL

-----------------------------------------------------------------------------
(***************************************************************************)
(* Safety while no hazard happens.  What the runs check is not inductive:  *)
(* the plan of an attempt is read from the row an earlier one left, so the *)
(* invariant says what such a row looks like (LinhaBoa), that an execution *)
(* and its row agree (CopiaFiel), and what an exception in flight will     *)
(* record (ExcecaoComFase).                                                *)
(***************************************************************************)

\* A row _retry_plan partitions: nothing was ever recorded in it, or every
\* unit was, or its stage makes the plan look at the successes only.
Retomavel(r) ==
    \/ r.fase = "outra"
    \/ r.itens = NenhumItem /\ r.fase = "nenhuma"
    \/ Com(r, "ausente") = {} /\ Reexecutavel(r)

LinhaBoa(r) ==
    /\ r.status = "inexistente" => r.itens = NenhumItem /\ r.fase = "nenhuma"
    /\ r.status \in {"na_fila", "falhou"} => Retomavel(r)
    /\ r.status = "falhou" => Reexecutavel(r)
    /\ r.status = "concluido" => Com(r, "ok") = Units

LinhasBoas == \A j \in Jobs : LinhaBoa(job[j])

CopiaFiel ==
    \A w \in Workers : exec[w].pc = "executando" =>
        exec[w].itens = job[JobDe(w)].itens

ExcecaoComFase ==
    \A w \in Workers : exec[w].pc = "excecao" =>
        /\ exec[w].fase \in {"pos_job", "outra"}
        /\ exec[w].fase = "pos_job" => Com(job[JobDe(w)], "ausente") = {}

IInv ==
    /\ Tipos
    /\ LinhasBoas
    /\ ExecucaoExclusiva
    /\ ExecutaSoSeAssumido
    /\ PlanoCobreTudo
    /\ CopiaFiel
    /\ ExcecaoComFase

-----------------------------------------------------------------------------
\* Who executes a job names it.
LEMMA ExecutorTemJob ==
    ASSUME Tipos, NEW w \in Workers, exec[w].pc \in {"executando", "excecao"}
    PROVE  JobDe(w) \in Jobs
  BY EntregaTemJob DEF Tipos, EntregaDefinida, JobDe

\* A step that only writes good rows of jobs nobody executes afterwards, and
\* in which no execution begins or changes, preserves the invariant.
LEMMA LinhaDeNinguem ==
    ASSUME IInv, Tipos',
           \A j \in Jobs :
             \/ job'[j] = job[j]
             \/ /\ LinhaBoa(job'[j])
                /\ \A w \in Workers : ~Executa(w, j)',
           \A w \in Workers :
             \/ exec'[w] = exec[w]
             \/ exec'[w].pc \notin {"executando", "excecao"}
    PROVE  IInv'
<1>1. ASSUME NEW w \in Workers, exec'[w].pc \in {"executando", "excecao"}
      PROVE  /\ exec'[w] = exec[w]
             /\ JobDe(w) \in Jobs
             /\ JobDe(w)' = JobDe(w)
             /\ job'[JobDe(w)] = job[JobDe(w)]
  <2>1. exec'[w] = exec[w]
    BY <1>1
  <2>2. JobDe(w) \in Jobs /\ JobDe(w)' = JobDe(w)
    BY <1>1, <2>1, ExecutorTemJob DEF IInv, JobDe
  <2>3. Executa(w, JobDe(w))'
    BY <1>1, <2>2 DEF Executa
  <2> QED
    BY <2>1, <2>2, <2>3
<1>2. LinhasBoas'
  BY DEF IInv, LinhasBoas
<1>3. ExecucaoExclusiva' /\ ExecutaSoSeAssumido'
  <2>1. ASSUME NEW j \in Jobs, NEW w \in Workers, Executa(w, j)'
        PROVE  Executa(w, j) /\ job'[j] = job[j]
    BY <1>1, <2>1 DEF Executa
  <2> QED
    BY <2>1 DEF IInv, ExecucaoExclusiva, ExecutaSoSeAssumido
<1>4. PlanoCobreTudo'
  BY <1>1 DEF IInv, PlanoCobreTudo
<1>5. CopiaFiel'
  BY <1>1 DEF IInv, CopiaFiel
<1>6. ExcecaoComFase'
  BY <1>1 DEF IInv, ExcecaoComFase, Com
<1> QED
  BY <1>2, <1>3, <1>4, <1>5, <1>6 DEF IInv

\* A step that leaves the rows alone and begins no execution preserves it.
LEMMA SemLinha ==
    ASSUME IInv, Tipos', UNCHANGED job,
           \A w \in Workers :
             \/ exec'[w] = exec[w]
             \/ exec'[w].pc \notin {"executando", "excecao"}
    PROVE  IInv'
  BY LinhaDeNinguem

\* A job that is not executing in SQL is executed by nobody.
LEMMA NinguemExecuta ==
    ASSUME IInv, NEW j \in Jobs, job[j].status # "executando"
    PROVE  \A w \in Workers : ~Executa(w, j)
  BY DEF IInv, ExecutaSoSeAssumido

\* What a failure leaves outside the post-job stage is a good row.
LEMMA ComFalhaBoa ==
    ASSUME NEW r \in JobRow, NEW fase \in {"outra", "pos_job"},
           fase = "pos_job" => Com(r, "ausente") = {}
    PROVE  LinhaBoa(ComFalha(r, fase))
<1>1. /\ ComFalha(r, fase).status = "falhou"
      /\ ComFalha(r, fase).fase = fase
      /\ ComFalha(r, fase).itens = r.itens
  BY DEF ComFalha, JobRow
<1> QED
  BY <1>1 DEF LinhaBoa, Retomavel, Reexecutavel, Com

\* The failure callbacks preserve the invariant while the job is nobody's.
LEMMA MarkActiveFailureSegura ==
    ASSUME IInv, Tipos', NEW j \in Jobs, MarkActiveFailure(j), ~EmExecucao(j),
           \A w \in Workers :
             \/ exec'[w] = exec[w]
             \/ exec'[w].pc \notin {"executando", "excecao"}
    PROVE  IInv'
<1>1. \A w \in Workers : ~Executa(w, j)'
  BY DEF EmExecucao, Executa, JobDe
<1>2. job[j] \in JobRow /\ job \in [Jobs -> JobRow]
  BY DEF IInv, Tipos, TypeOK
<1>3. LinhaBoa(ComFalha(job[j], "outra"))
  BY <1>2, ComFalhaBoa
<1>4. ASSUME NEW k \in Jobs
      PROVE  \/ job'[k] = job[k]
             \/ k = j /\ job'[k] = ComFalha(job[j], "outra")
  BY <1>2 DEF MarkActiveFailure
<1> QED
  BY <1>1, <1>3, <1>4, LinhaDeNinguem

-----------------------------------------------------------------------------
\* The successes and the plan of an attempt partition the units of a row that
\* can be taken up again.
LEMMA PlanoParticiona ==
    ASSUME NEW r \in JobRow, Retomavel(r)
    PROVE  /\ PlanoBase(r) \subseteq Com(r, "ok")
           /\ Com(r, "ok") \subseteq PlanoBase(r)
           /\ PlanoPendentes(r) = Units \ PlanoBase(r)
<1>1. \A u \in Units : r.itens[u] \in {"ausente", "ok", "erro"}
  BY DEF JobRow, Desfechos
<1>2. CASE r.fase = "outra"
  BY <1>2 DEF PlanoBase, PlanoPendentes, Com
<1>3. CASE r.itens = NenhumItem /\ r.fase = "nenhuma"
  <2>1. Com(r, "erro") = {} /\ Com(r, "ok") = {}
    BY <1>3 DEF NenhumItem, Com
  <2> QED
    BY <1>3, <2>1 DEF PlanoBase, PlanoPendentes
<1>4. CASE Com(r, "ausente") = {} /\ Reexecutavel(r)
  <2>1. Com(r, "erro") = Units \ Com(r, "ok")
    BY <1>1, <1>4 DEF Com
  <2>2. r.fase \in {"nenhuma", "pos_job", "outra"}
    BY DEF JobRow, Fases
  <2>3. PlanoBase(r) = Com(r, "ok")
    BY <1>4, <2>2 DEF PlanoBase, Reexecutavel
  <2>4. PlanoPendentes(r) = Units \ Com(r, "ok")
    BY <1>4, <2>1, <2>2 DEF PlanoPendentes, Reexecutavel
  <2> QED
    BY <2>3, <2>4
<1> QED
  BY <1>2, <1>3, <1>4 DEF Retomavel

\* What a claim writes and what it starts.
LEMMA ClaimSeguro ==
    ASSUME IInv, Tipos', NEW w \in Workers, ClaimJob(w)
    PROVE  IInv'
<1> DEFINE j == JobDe(w)
<1>0. /\ job \in [Jobs -> JobRow] /\ exec \in [Workers -> ExecState]
      /\ j \in Jobs /\ exec[w].pc = "iniciada" /\ job[j].status = "na_fila"
  BY EntregaTemJob DEF IInv, Tipos, TypeOK, EntregaDefinida, ClaimJob, JobDe
<1>1. Retomavel(job[j])
  BY <1>0 DEF IInv, LinhasBoas, LinhaBoa
<1>2. PlanoPendentes(job[j]) = Units \ PlanoBase(job[j])
  BY <1>0, <1>1, PlanoParticiona
<1>3. /\ job'[j].status = "executando"
      /\ job'[j].itens = [u \in Units |-> IF u \in PlanoBase(job[j])
                                          THEN "ok" ELSE "ausente"]
      /\ \A k \in Jobs : k # j => job'[k] = job[k]
  BY <1>0 DEF ClaimJob
<1>4. /\ exec'[w].pc = "executando"
      /\ exec'[w].entrega = exec[w].entrega
      /\ exec'[w].pend = PlanoPendentes(job[j])
      /\ exec'[w].itens = job'[j].itens
      /\ \A v \in Workers : v # w => exec'[v] = exec[v]
  BY <1>0, <1>3 DEF ClaimJob
<1>5. \A v \in Workers : ~Executa(v, j)
  BY <1>0, NinguemExecuta
<1>6. ASSUME NEW v \in Workers, v # w, exec'[v].pc \in {"executando", "excecao"}
      PROVE  /\ exec'[v] = exec[v] /\ JobDe(v)' = JobDe(v)
             /\ JobDe(v) \in Jobs /\ job'[JobDe(v)] = job[JobDe(v)]
  <2>1. exec'[v] = exec[v] /\ JobDe(v)' = JobDe(v) /\ JobDe(v) \in Jobs
    BY <1>4, <1>6, ExecutorTemJob DEF IInv, JobDe
  <2>2. JobDe(v) # j
    BY <1>5, <1>6, <2>1 DEF Executa
  <2> QED
    BY <1>3, <2>1, <2>2
<1>7. JobDe(w)' = j
  BY <1>4 DEF JobDe
<1>8. LinhasBoas'
  BY <1>3 DEF IInv, LinhasBoas, LinhaBoa
<1>9. ASSUME NEW k \in Jobs, NEW v \in Workers, Executa(v, k)'
      PROVE  \/ v = w /\ k = j
             \/ v # w /\ k # j /\ Executa(v, k) /\ job'[k] = job[k]
  BY <1>5, <1>6, <1>7, <1>9 DEF Executa
<1>10. ExecucaoExclusiva' /\ ExecutaSoSeAssumido'
  BY <1>3, <1>9 DEF IInv, ExecucaoExclusiva, ExecutaSoSeAssumido
<1>11. PlanoCobreTudo'
  <2>1. ASSUME NEW u \in Units
        PROVE  u \in exec'[w].pend <=> job'[j].itens[u] = "ausente"
    BY <1>2, <1>3, <1>4
  <2> QED
    BY <1>6, <1>7, <2>1 DEF IInv, PlanoCobreTudo
<1>12. CopiaFiel'
  BY <1>4, <1>6, <1>7 DEF IInv, CopiaFiel
<1>13. ExcecaoComFase'
  BY <1>4, <1>6 DEF IInv, ExcecaoComFase, Com
<1> QED
  BY <1>8, <1>10, <1>11, <1>12, <1>13 DEF IInv

\* The checkpoint of a unit lands in the row and in the plan alike.
LEMMA ProcessarUnidadeSegura ==
    ASSUME IInv, Tipos', NEW w \in Workers, NEW u \in Units,
           ProcessarUnidade(w, u)
    PROVE  IInv'
<1> DEFINE j == JobDe(w)
<1>0. /\ job \in [Jobs -> JobRow] /\ exec \in [Workers -> ExecState]
      /\ j \in Jobs /\ exec[w].pc = "executando" /\ u \in exec[w].pend
  BY ExecutorTemJob DEF IInv, Tipos, TypeOK, ProcessarUnidade
<1>1. PICK desfecho \in {"ok", "erro"} :
        LET itens == [exec[w].itens EXCEPT ![u] = desfecho]
        IN /\ exec' = [exec EXCEPT ![w].pend = @ \ {u}, ![w].itens = itens]
           /\ job' = [job EXCEPT ![JobDe(w)].itens = itens,
                                 ![JobDe(w)].fase = "nenhuma"]
  BY DEF ProcessarUnidade
<1>2. Executa(w, j) /\ job[j].status = "executando"
  BY <1>0 DEF Executa, IInv, ExecutaSoSeAssumido
<1>3. exec[w].itens = job[j].itens /\ exec[w].itens \in [Units -> Desfechos]
  BY <1>0 DEF IInv, CopiaFiel, ExecState
<1>4. /\ job'[j].status = "executando"
      /\ job'[j].itens = [job[j].itens EXCEPT ![u] = desfecho]
      /\ \A k \in Jobs : k # j => job'[k] = job[k]
  BY <1>0, <1>1, <1>2, <1>3 DEF JobRow
<1>5. /\ exec'[w].pc = "executando"
      /\ exec'[w].entrega = exec[w].entrega
      /\ exec'[w].pend = exec[w].pend \ {u}
      /\ exec'[w].itens = job'[j].itens
      /\ \A v \in Workers : v # w => exec'[v] = exec[v]
  BY <1>0, <1>1, <1>3, <1>4 DEF ExecState
<1>6. ASSUME NEW v \in Workers, v # w, exec'[v].pc \in {"executando", "excecao"}
      PROVE  /\ exec'[v] = exec[v] /\ JobDe(v)' = JobDe(v)
             /\ JobDe(v) \in Jobs /\ job'[JobDe(v)] = job[JobDe(v)]
  <2>1. exec'[v] = exec[v] /\ JobDe(v)' = JobDe(v) /\ JobDe(v) \in Jobs
    BY <1>5, <1>6, ExecutorTemJob DEF IInv, JobDe
  <2>2. JobDe(v) # j
    BY <1>0, <1>2, <1>6, <2>1 DEF Executa, IInv, ExecucaoExclusiva
  <2> QED
    BY <1>4, <2>1, <2>2
<1>7. JobDe(w)' = j
  BY <1>5 DEF JobDe
<1>8. LinhasBoas'
  BY <1>4 DEF IInv, LinhasBoas, LinhaBoa
<1>9. ASSUME NEW k \in Jobs, NEW v \in Workers, Executa(v, k)'
      PROVE  /\ Executa(v, k)
             /\ \/ v = w /\ k = j
                \/ v # w /\ job'[k] = job[k]
  BY <1>0, <1>2, <1>6, <1>7, <1>9 DEF Executa
<1>10. ExecucaoExclusiva' /\ ExecutaSoSeAssumido'
  BY <1>4, <1>9 DEF IInv, ExecucaoExclusiva, ExecutaSoSeAssumido
<1>11. PlanoCobreTudo'
  <2>1. ASSUME NEW x \in Units
        PROVE  x \in exec'[w].pend <=> job'[j].itens[x] = "ausente"
    <3>1. x \in exec[w].pend <=> job[j].itens[x] = "ausente"
      BY <1>0 DEF IInv, PlanoCobreTudo
    <3>2. job'[j].itens[x] = IF x = u THEN desfecho ELSE job[j].itens[x]
      BY <1>3, <1>4
    <3>3. desfecho # "ausente"
      OBVIOUS
    <3> QED
      BY <1>5, <3>1, <3>2, <3>3
  <2> QED
    BY <1>6, <1>7, <2>1 DEF IInv, PlanoCobreTudo
<1>12. CopiaFiel'
  BY <1>5, <1>6, <1>7 DEF IInv, CopiaFiel
<1>13. ExcecaoComFase'
  BY <1>5, <1>6 DEF IInv, ExcecaoComFase, Com
<1> QED
  BY <1>8, <1>10, <1>11, <1>12, <1>13 DEF IInv

\* An exception ends the units, not the ownership of the job.
LEMMA ExcecaoSegura ==
    ASSUME IInv, Tipos', NEW w \in Workers, ExcecaoNaExecucao(w)
    PROVE  IInv'
<1> DEFINE j == JobDe(w)
<1>0. /\ exec \in [Workers -> ExecState] /\ j \in Jobs
      /\ exec[w].pc = "executando" /\ job' = job
  BY ExecutorTemJob DEF IInv, Tipos, TypeOK, ExcecaoNaExecucao
<1>1. /\ exec'[w].pc = "excecao"
      /\ exec'[w].entrega = exec[w].entrega
      /\ exec'[w].fase = IF exec[w].pend = {} THEN "pos_job" ELSE "outra"
      /\ \A v \in Workers : v # w => exec'[v] = exec[v]
  BY <1>0 DEF ExcecaoNaExecucao, Fechando, Livre
<1>2. \A v \in Workers : JobDe(v)' = JobDe(v)
  BY <1>1 DEF JobDe
<1>3. \A k \in Jobs, v \in Workers : Executa(v, k)' => Executa(v, k)
  BY <1>0, <1>1, <1>2 DEF Executa
<1>4. LinhasBoas'
  BY <1>0 DEF IInv, LinhasBoas
<1>5. ExecucaoExclusiva' /\ ExecutaSoSeAssumido'
  BY <1>0, <1>3 DEF IInv, ExecucaoExclusiva, ExecutaSoSeAssumido
<1>6. PlanoCobreTudo' /\ CopiaFiel'
  BY <1>0, <1>1, <1>2 DEF IInv, PlanoCobreTudo, CopiaFiel
<1>7. exec[w].pend = {} => Com(job[j], "ausente") = {}
  BY <1>0 DEF IInv, PlanoCobreTudo, Com
<1>8. ExcecaoComFase'
  BY <1>0, <1>1, <1>2, <1>7 DEF IInv, ExcecaoComFase, Com
<1> QED
  BY <1>4, <1>5, <1>6, <1>8 DEF IInv

\* When the only executor of a job stops executing it, nobody executes it.
LEMMA UltimoExecutor ==
    ASSUME IInv, NEW w \in Workers, exec[w].pc \in {"executando", "excecao"},
           exec'[w].pc \notin {"executando", "excecao"},
           \A v \in Workers : v # w => exec'[v] = exec[v],
           NEW j \in Jobs, j = JobDe(w)
    PROVE  \A v \in Workers : ~Executa(v, j)'
<1>1. Executa(w, j)
  BY DEF Executa
<1>2. ASSUME NEW v \in Workers, exec'[v].pc \in {"executando", "excecao"},
             exec'[v].entrega[1] = j
      PROVE  FALSE
  <2>1. v # w /\ exec'[v] = exec[v]
    BY <1>2
  <2>2. Executa(v, j)
    BY <1>2, <2>1 DEF Executa, JobDe
  <2> QED
    BY <1>1, <2>1, <2>2 DEF IInv, ExecucaoExclusiva
<1> QED
  BY <1>2 DEF Executa, JobDe

\* The handler of _processar closes a job that only this worker executes.
LEMMA RegistrarExcecaoSegura ==
    ASSUME IInv, Tipos', NEW w \in Workers, RegistrarExcecao(w)
    PROVE  IInv'
<1>j. PICK j \in Jobs : j = JobDe(w)
  BY ExecutorTemJob DEF IInv, RegistrarExcecao
<1>0. /\ job \in [Jobs -> JobRow] /\ exec \in [Workers -> ExecState]
      /\ j \in Jobs /\ exec[w].pc = "excecao" /\ job[j] \in JobRow
  BY <1>j DEF IInv, Tipos, TypeOK, RegistrarExcecao
<1>1. LinhaBoa(ComFalha(job[j], exec[w].fase))
  BY <1>0, <1>j, ComFalhaBoa DEF IInv, ExcecaoComFase
<1>2. /\ job'[j] = ComFalha(job[j], exec[w].fase)
      /\ \A k \in Jobs : k # j => job'[k] = job[k]
  BY <1>0, <1>j DEF RegistrarExcecao
<1>3. /\ exec'[w].pc = "callback"
      /\ \A v \in Workers : v # w => exec'[v] = exec[v]
  BY <1>0 DEF RegistrarExcecao, Fechando, Livre
<1>4. \A v \in Workers : ~Executa(v, j)'
  BY <1>0, <1>3, <1>j, UltimoExecutor
<1> QED
  BY <1>1, <1>2, <1>3, <1>4, LinhaDeNinguem

\* The final commit finds every unit decided.
LEMMA ConcluirSeguro ==
    ASSUME IInv, Tipos', NEW w \in Workers, Concluir(w)
    PROVE  IInv'
<1>j. PICK j \in Jobs : j = JobDe(w)
  BY ExecutorTemJob DEF IInv, Concluir
<1>0. /\ job \in [Jobs -> JobRow] /\ exec \in [Workers -> ExecState]
      /\ j \in Jobs /\ exec[w].pc = "executando" /\ exec[w].pend = {}
  BY <1>j DEF IInv, Tipos, TypeOK, Concluir
<1>1. \A u \in Units : exec[w].itens[u] \in {"ok", "erro"}
  BY <1>0, <1>j DEF IInv, PlanoCobreTudo, CopiaFiel, ExecState, Desfechos
<1>2. /\ job'[j].status = IF Com(exec[w], "erro") = {} THEN "concluido" ELSE "falhou"
      /\ job'[j].itens = exec[w].itens
      /\ job'[j].fase = "nenhuma"
      /\ \A k \in Jobs : k # j => job'[k] = job[k]
  BY <1>0, <1>j DEF Concluir
<1>3. LinhaBoa(job'[j])
  <2>1. Com(job'[j], "ausente") = {}
    BY <1>1, <1>2 DEF Com
  <2>2. Com(job'[j], "erro") = Com(exec[w], "erro")
    BY <1>2 DEF Com
  <2>3. CASE Com(exec[w], "erro") = {}
    BY <1>1, <1>2, <2>3 DEF LinhaBoa, Com
  <2>4. CASE Com(exec[w], "erro") # {}
    BY <1>2, <2>1, <2>2, <2>4 DEF LinhaBoa, Retomavel, Reexecutavel
  <2> QED
    BY <2>3, <2>4
<1>4. /\ exec'[w].pc = "livre"
      /\ \A v \in Workers : v # w => exec'[v] = exec[v]
  BY <1>0 DEF Concluir, FimDaEntrega, Livre
<1>5. \A v \in Workers : ~Executa(v, j)'
  BY <1>0, <1>4, <1>j, UltimoExecutor
<1> QED
  BY <1>2, <1>3, <1>4, <1>5, LinhaDeNinguem

\* An API request that moves a job nobody executes leaves it a good row.
LEMMA MudaStatusSegura ==
    ASSUME IInv, Tipos', UNCHANGED exec, NEW j \in Jobs, NEW st \in Status,
           job' = [job EXCEPT ![j].status = st],
           job[j].status # "executando",
           LinhaBoa([job[j] EXCEPT !.status = st])
    PROVE  IInv'
<1>1. \A w \in Workers : ~Executa(w, j)'
  BY NinguemExecuta DEF Executa, JobDe
<1>2. \A k \in Jobs : \/ job'[k] = job[k]
                      \/ k = j /\ job'[k] = [job[j] EXCEPT !.status = st]
  BY DEF IInv, Tipos, TypeOK
<1> QED
  BY <1>1, <1>2, LinhaDeNinguem

-----------------------------------------------------------------------------
\* The initial state is safe.
LEMMA IInvInit == Init => IInv
  BY TiposInit
     DEF Init, IInv, LinhasBoas, LinhaBoa, NenhumItem, ExecucaoExclusiva,
         ExecutaSoSeAssumido, PlanoCobreTudo, CopiaFiel, ExcecaoComFase,
         Executa, Livre

\* Every step is safe while no hazard happens.
LEMMA IInvNext ==
    ASSUME Riscos = {}
    PROVE  IInv /\ [Next]_vars => IInv'
<1> SUFFICES ASSUME IInv, [Next]_vars PROVE IInv'
  OBVIOUS
<1>t. Tipos'
  BY TiposNext DEF IInv
<1>e. /\ job \in [Jobs -> JobRow] /\ exec \in [Workers -> ExecState]
      /\ Tipos
  BY DEF IInv, Tipos, TypeOK
<1> USE <1>t
<1>1. CASE UNCHANGED vars
  BY <1>1, SemLinha DEF vars
<1>2. ASSUME NEW w \in Workers, NEW d \in lista, Dequeue(w, d) PROVE IInv'
  BY <1>2, <1>e, SemLinha DEF Dequeue, Livre
<1>3. ASSUME NEW w \in Workers, Start(w) PROVE IInv'
  <2>1. \A v \in Workers : exec'[v] = exec[v] \/ exec'[v].pc = "iniciada"
    BY <1>3, <1>e DEF Start, ExecState
  <2> QED
    BY <1>3, <2>1, SemLinha DEF Start
<1>4. ASSUME NEW w \in Workers, ClaimJob(w) PROVE IInv'
  BY <1>4, ClaimSeguro
<1>5. ASSUME NEW w \in Workers, ClaimRecusado(w) PROVE IInv'
  BY <1>5, <1>e, SemLinha DEF ClaimRecusado, FimDaEntrega, Livre
<1>6. ASSUME NEW w \in Workers, ClaimDesfeito(w) PROVE IInv'
  BY <1>6 DEF ClaimDesfeito
<1>7. ASSUME NEW w \in Workers, NEW u \in Units, ProcessarUnidade(w, u)
      PROVE  IInv'
  BY <1>7, ProcessarUnidadeSegura
<1>8. ASSUME NEW w \in Workers, ExcecaoNaExecucao(w) PROVE IInv'
  BY <1>8, ExcecaoSegura
<1>9. ASSUME NEW w \in Workers, RegistrarExcecao(w) PROVE IInv'
  BY <1>9, RegistrarExcecaoSegura
<1>10. ASSUME NEW w \in Workers, Concluir(w) PROVE IInv'
  BY <1>10, ConcluirSeguro
<1>11. ASSUME NEW w \in Workers, Callback(w) PROVE IInv'
  <2>1. JobDe(w) \in Jobs
    BY <1>11, <1>e, EntregaTemJob DEF Callback, JobDe, Tipos, EntregaDefinida
  <2>2. ~EmExecucao(JobDe(w))
    BY <1>11 DEF Callback, PodeEncerrar
  <2>3. \A v \in Workers : exec'[v] = exec[v] \/ exec'[v].pc = "livre"
    BY <1>11, <1>e DEF Callback, FimDaEntrega, Livre
  <2>4. MarkActiveFailure(JobDe(w))
    BY <1>11 DEF Callback
  <2> QED
    BY <2>1, <2>2, <2>3, <2>4, MarkActiveFailureSegura
<1>12. ASSUME NEW w \in Workers, CallbackPerdido(w) PROVE IInv'
  BY <1>12, <1>e, SemLinha DEF CallbackPerdido, FimDaEntrega, Livre
<1>13. ASSUME NEW w \in Workers, HorseMorto(w) PROVE IInv'
  <2>1. \A v \in Workers : exec'[v] = exec[v] \/ exec'[v].pc = "callback"
    BY <1>13, <1>e DEF HorseMorto, Fechando, Livre
  <2> QED
    BY <1>13, <2>1, SemLinha DEF HorseMorto
<1>14. ASSUME NEW w \in Workers, WorkerMorto(w) PROVE IInv'
  BY <1>14, <1>e, SemLinha DEF WorkerMorto, Livre
<1>15. ASSUME NEW q \in Requests, NEW j \in Jobs, Criar(q, j) PROVE IInv'
  <2>1. LinhaBoa([job[j] EXCEPT !.status = "na_fila"])
    BY <1>15, <1>e
       DEF Criar, IInv, LinhasBoas, LinhaBoa, Retomavel, JobRow
  <2> QED
    BY <1>15, <2>1, MudaStatusSegura DEF Criar, Status
<1>16. ASSUME NEW q \in Requests, NEW j \in Jobs, RetryJob(q, j) PROVE IInv'
  <2> DEFINE r == [job[j] EXCEPT !.status = "na_fila"]
  <2>1. /\ r.status = "na_fila" /\ r.itens = job[j].itens
        /\ r.fase = job[j].fase /\ job[j].status = "falhou"
    BY <1>16, <1>e DEF RetryJob, JobRow
  <2>2. LinhaBoa(r)
    BY <2>1 DEF IInv, LinhasBoas, LinhaBoa, Retomavel, Reexecutavel, Com
  <2> QED
    BY <1>16, <2>1, <2>2, MudaStatusSegura DEF RetryJob, Status
<1>17. ASSUME NEW q \in Requests, NEW j \in Jobs, CancelJob(q, j) PROVE IInv'
  <2>1. LinhaBoa([job[j] EXCEPT !.status = "cancelado"])
    BY <1>e DEF LinhaBoa, JobRow
  <2> QED
    BY <1>17, <2>1, MudaStatusSegura DEF CancelJob, Cancelavel, Status
<1>18. ASSUME NEW q \in Requests, Enqueue(q) PROVE IInv'
  BY <1>18, SemLinha DEF Enqueue
<1>19. ASSUME NEW q \in Requests, EnqueueErro(q) PROVE IInv'
  BY <1>19, SemLinha DEF EnqueueErro
<1>20. ASSUME NEW q \in Requests, QueueFailure(q) PROVE IInv'
  <2>1. PICK j \in Jobs : j = api[q].entrega[1]
    BY <1>20, <1>e, EntregaTemJob DEF QueueFailure, Tipos, EntregaDefinida
  <2>2. CASE job[j].status = "na_fila"
    <3>1. LinhaBoa(ComFalha(job[j], "outra"))
      BY <1>e, ComFalhaBoa
    <3>2. \A w \in Workers : ~Executa(w, j)'
      BY <1>20, <2>2, NinguemExecuta DEF QueueFailure, Executa, JobDe
    <3>3. \A k \in Jobs : \/ job'[k] = job[k]
                          \/ k = j /\ job'[k] = ComFalha(job[j], "outra")
      BY <1>20, <1>e, <2>1, <2>2 DEF QueueFailure
    <3> QED
      BY <1>20, <3>1, <3>2, <3>3, LinhaDeNinguem DEF QueueFailure
  <2>3. CASE job[j].status # "na_fila"
    BY <1>20, <2>1, <2>3, SemLinha DEF QueueFailure
  <2> QED
    BY <2>2, <2>3
<1>21. ASSUME NEW q \in Requests, CancelRq(q) PROVE IInv'
  BY <1>21, SemLinha DEF CancelRq
<1>22. ASSUME NEW q \in Requests, PedidoMorto(q) PROVE IInv'
  BY <1>22, SemLinha DEF PedidoMorto
<1>23. ASSUME ReconcileAbandoned PROVE IInv'
  <2>1. PICK S \in SUBSET {j \in Jobs : LeaseVencido(j)} : Requeue(S)
    BY <1>23 DEF ReconcileAbandoned
  <2>2. ASSUME NEW j \in S
        PROVE  LinhaBoa(job'[j]) /\ \A w \in Workers : ~Executa(w, j)'
    <3>1. j \in Jobs /\ ~EmExecucao(j) /\ job[j] \in JobRow
      BY <1>e DEF LeaseVencido
    <3>2. job'[j] = [job[j] EXCEPT !.status = "na_fila", !.fase = "outra"]
      BY <2>1, <3>1 DEF Requeue
    <3>3. job'[j].status = "na_fila" /\ job'[j].fase = "outra"
      BY <3>1, <3>2 DEF JobRow
    <3> QED
      BY <1>23, <3>1, <3>3
         DEF ReconcileAbandoned, LinhaBoa, Retomavel, EmExecucao, Executa, JobDe
  <2>3. \A j \in Jobs \ S : job'[j] = job[j]
    BY <2>1 DEF Requeue
  <2> QED
    BY <1>23, <2>2, <2>3, LinhaDeNinguem DEF ReconcileAbandoned
<1>24. ASSUME NEW j \in Jobs, ReconcileVivo(j) PROVE IInv'
  BY <1>24 DEF ReconcileVivo, LeaseUltrapassado
<1>25. ASSUME RecoverPending PROVE IInv'
  BY <1>25, SemLinha DEF RecoverPending
<1>26. ASSUME NEW d \in manut, RecoverDeliver(d) PROVE IInv'
  BY <1>26, SemLinha DEF RecoverDeliver
<1>27. ASSUME NEW d \in manut, RecoverErro(d) PROVE IInv'
  BY <1>27, SemLinha DEF RecoverErro
<1>28. ASSUME NEW d \in orfas, EntregaAbandonada(d) PROVE IInv'
  <2>1. d[1] \in Jobs
    BY <1>e, EntregaTemJob DEF Tipos, TypeOK
  <2>2. ~EmExecucao(d[1]) /\ MarkActiveFailure(d[1]) /\ exec' = exec
    BY <1>28 DEF EntregaAbandonada, PodeEncerrar
  <2> QED
    BY <2>1, <2>2, MarkActiveFailureSegura
<1> QED
  BY <1>1, <1>2, <1>3, <1>4, <1>5, <1>6, <1>7, <1>8, <1>9, <1>10, <1>11, <1>12,
     <1>13, <1>14, <1>15, <1>16, <1>17, <1>18, <1>19, <1>20, <1>21, <1>22,
     <1>23, <1>24, <1>25, <1>26, <1>27, <1>28
     DEF Next, WorkerStep, ApiStep, MaintenanceStep

\* The inductive invariant holds while no hazard happens.
LEMMA Segura ==
    ASSUME Riscos = {}
    PROVE  Spec => []IInv
<1>1. Init => IInv
  BY IInvInit
<1>2. IInv /\ [Next]_vars => IInv'
  BY IInvNext
<1> QED
  BY <1>1, <1>2, PTL DEF Spec

\* No job is executed by two workers, whatever is delivered twice, cancelled,
\* retried or recovered, as long as a lease and a failure callback never
\* concern an execution that is alive.
THEOREM Exclusao ==
    ASSUME Riscos = {}
    PROVE  Spec => [](ExecucaoExclusiva /\ ExecutaSoSeAssumido)
<1>1. IInv => ExecucaoExclusiva /\ ExecutaSoSeAssumido
  BY DEF IInv
<1> QED
  BY <1>1, Segura, PTL

\* Every attempt plans exactly the units no earlier attempt decided.
THEOREM PlanoCompleto ==
    ASSUME Riscos = {}
    PROVE  Spec => []PlanoCobreTudo
<1>1. IInv => PlanoCobreTudo
  BY DEF IInv
<1> QED
  BY <1>1, Segura, PTL

\* A concluded job loaded all of its units, over however many attempts; a
\* failed one gives retry something to do.
THEOREM FimCorreto ==
    ASSUME Riscos = {}
    PROVE  Spec => [](ConcluidoCompleto /\ FalhouReexecutavel)
<1>1. IInv => ConcluidoCompleto /\ FalhouReexecutavel
  BY DEF IInv, LinhasBoas, LinhaBoa, ConcluidoCompleto, FalhouReexecutavel
<1> QED
  BY <1>1, Segura, PTL

-----------------------------------------------------------------------------
(***************************************************************************)
(* The attempt number, whatever hazard happens.  It never goes back, and   *)
(* the number of a living execution was given out by its row.              *)
(***************************************************************************)
TentativaEmitida ==
    \A w \in Workers : exec[w].pc = "executando" =>
        exec[w].tentativa <= job[JobDe(w)].tentativas

TInv == Tipos /\ TentativaEmitida /\ TentativaExclusiva

\* A step that begins no execution and takes no attempt back.
NaoAssume ==
    /\ \A w \in Workers : exec'[w].pc = "executando" =>
         /\ exec[w].pc = "executando"
         /\ exec'[w].entrega = exec[w].entrega
         /\ exec'[w].tentativa = exec[w].tentativa
    /\ \A j \in Jobs : job'[j].tentativas >= job[j].tentativas

\* Writing status, items or stage keeps the attempt number of a row.
LEMMA TentativasMantidas ==
    ASSUME Tipos
    PROVE  /\ UNCHANGED job => \A j \in Jobs : job'[j].tentativas >= job[j].tentativas
           /\ \A k \in Jobs, fase \in Fases : job' = [job EXCEPT ![k] = ComFalha(@, fase)] =>
                \A j \in Jobs : job'[j].tentativas >= job[j].tentativas
           /\ \A k \in Jobs : MarkActiveFailure(k) =>
                \A j \in Jobs : job'[j].tentativas >= job[j].tentativas
           /\ \A k \in Jobs, st \in Status : job' = [job EXCEPT ![k].status = st] =>
                \A j \in Jobs : job'[j].tentativas >= job[j].tentativas
           /\ \A S : Requeue(S) =>
                \A j \in Jobs : job'[j].tentativas >= job[j].tentativas
<1>0. job \in [Jobs -> JobRow] /\ \A j \in Jobs : job[j].tentativas \in Nat
  BY DEF Tipos, TypeOK, JobRow
<1>1. \A j \in Jobs : \A fase : ComFalha(job[j], fase).tentativas = job[j].tentativas
  BY <1>0 DEF ComFalha, JobRow
<1>2. \A j \in Jobs : \A st : [job[j] EXCEPT !.status = st].tentativas = job[j].tentativas
  BY <1>0 DEF JobRow
<1>3. \A j \in Jobs :
        [job[j] EXCEPT !.status = "na_fila", !.fase = "outra"].tentativas
          = job[j].tentativas
  BY <1>0 DEF JobRow
<1>4. ASSUME NEW k \in Jobs, NEW r, r.tentativas = job[k].tentativas,
             job' = [job EXCEPT ![k] = r]
      PROVE  \A j \in Jobs : job'[j].tentativas >= job[j].tentativas
  <2>1. \A j \in Jobs : job'[j].tentativas = job[j].tentativas
    BY <1>0, <1>4
  <2> QED
    BY <1>0, <2>1
<1>5. UNCHANGED job => \A j \in Jobs : job'[j].tentativas >= job[j].tentativas
  BY <1>0
<1>6. ASSUME NEW S, Requeue(S)
      PROVE  \A j \in Jobs : job'[j].tentativas >= job[j].tentativas
  <2>1. \A j \in Jobs : job'[j].tentativas = job[j].tentativas
    BY <1>3, <1>6 DEF Requeue
  <2> QED
    BY <1>0, <2>1
<1> QED
  BY <1>1, <1>2, <1>4, <1>5, <1>6 DEF MarkActiveFailure

\* A worker that stops, or never began, begins no execution.
LEMMA SemInicio ==
    ASSUME Tipos,
           \A w \in Workers : exec'[w] = exec[w] \/ exec'[w].pc # "executando",
           \A j \in Jobs : job'[j].tentativas >= job[j].tentativas
    PROVE  NaoAssume
  BY DEF NaoAssume

\* Every action but the claim begins no execution.
LEMMA SoClaimAssume ==
    ASSUME Tipos, Tipos', [Next]_vars, ~ \E w \in Workers : ClaimJob(w)
    PROVE  NaoAssume
<1>e. exec \in [Workers -> ExecState]
  BY DEF Tipos, TypeOK
<1>1. CASE UNCHANGED vars
  BY <1>1, SemInicio, TentativasMantidas DEF vars
<1>2. ASSUME NEW w \in Workers, WorkerStep(w) PROVE NaoAssume
  <2>1. CASE /\ UNCHANGED job
             /\ \A v \in Workers : exec'[v] = exec[v] \/ exec'[v].pc # "executando"
    BY <2>1, SemInicio, TentativasMantidas
  <2>2. ASSUME NEW d \in lista, Dequeue(w, d) PROVE NaoAssume
    BY <1>e, <2>1, <2>2 DEF Dequeue, Livre
  <2>3. CASE Start(w)
    BY <1>e, <2>1, <2>3 DEF Start, ExecState
  <2>4. CASE ClaimRecusado(w) \/ CallbackPerdido(w)
    BY <1>e, <2>1, <2>4 DEF ClaimRecusado, CallbackPerdido, FimDaEntrega, Livre
  <2>5. ASSUME NEW pc \in {"excecao", "callback"}, NEW fase, Fechando(w, pc, fase)
        PROVE  \A v \in Workers : exec'[v] = exec[v] \/ exec'[v].pc # "executando"
    BY <1>e, <2>5 DEF Fechando, Livre
  <2>6. CASE ClaimDesfeito(w) \/ ExcecaoNaExecucao(w) \/ HorseMorto(w)
    BY <2>1, <2>5, <2>6 DEF ClaimDesfeito, ExcecaoNaExecucao, HorseMorto
  <2>7. CASE WorkerMorto(w)
    BY <1>e, <2>1, <2>7 DEF WorkerMorto, Livre
  <2>8. CASE RegistrarExcecao(w)
    <3>1. PICK j \in Jobs : j = JobDe(w)
      BY <2>8, ExecutorTemJob DEF RegistrarExcecao
    <3>2. exec[w].fase \in Fases
      BY <1>e DEF ExecState
    <3> QED
      BY <2>5, <2>8, <3>1, <3>2, SemInicio, TentativasMantidas DEF RegistrarExcecao
  <2>9. CASE Concluir(w)
    <3>1. PICK j \in Jobs : j = JobDe(w)
      BY <2>9, ExecutorTemJob DEF Concluir
    <3>2. \A k \in Jobs : job'[k].tentativas >= job[k].tentativas
      BY <2>9, <3>1 DEF Concluir, Tipos, TypeOK, JobRow
    <3>3. \A v \in Workers : exec'[v] = exec[v] \/ exec'[v].pc # "executando"
      BY <1>e, <2>9 DEF Concluir, FimDaEntrega, Livre
    <3> QED
      BY <3>2, <3>3, SemInicio
  <2>10. CASE Callback(w)
    <3>1. PICK j \in Jobs : j = JobDe(w)
      BY <2>10, EntregaTemJob DEF Callback, JobDe, Tipos, EntregaDefinida
    <3>2. \A v \in Workers : exec'[v] = exec[v] \/ exec'[v].pc # "executando"
      BY <1>e, <2>10 DEF Callback, FimDaEntrega, Livre
    <3> QED
      BY <2>10, <3>1, <3>2, SemInicio, TentativasMantidas DEF Callback
  <2>11. ASSUME NEW u \in Units, ProcessarUnidade(w, u) PROVE NaoAssume
    <3>1. PICK j \in Jobs : j = JobDe(w)
      BY <2>11, ExecutorTemJob DEF ProcessarUnidade
    <3>2. job \in [Jobs -> JobRow]
      BY DEF Tipos, TypeOK
    <3>3. \A k \in Jobs : job'[k].tentativas >= job[k].tentativas
      BY <2>11, <3>1, <3>2 DEF ProcessarUnidade, JobRow
    <3>4. \A v \in Workers : /\ exec'[v].pc = exec[v].pc
                             /\ exec'[v].entrega = exec[v].entrega
                             /\ exec'[v].tentativa = exec[v].tentativa
      BY <1>e, <2>11 DEF ProcessarUnidade, ExecState
    <3> QED
      BY <3>3, <3>4 DEF NaoAssume
  <2> QED
    BY <1>2, <2>2, <2>3, <2>4, <2>6, <2>7, <2>8, <2>9, <2>10, <2>11
       DEF WorkerStep
<1>3. ASSUME NEW q \in Requests, ApiStep(q) PROVE NaoAssume
  <2>1. UNCHANGED exec
    BY <1>3 DEF ApiStep, Criar, RetryJob, CancelJob, Enqueue, EnqueueErro,
                QueueFailure, CancelRq, PedidoMorto
  <2>2. CASE QueueFailure(q)
    <3>1. PICK j \in Jobs : j = api[q].entrega[1]
      BY <2>2, EntregaTemJob DEF QueueFailure, Tipos, EntregaDefinida
    <3> QED
      BY <2>1, <2>2, <3>1, SemInicio, TentativasMantidas DEF QueueFailure, Fases
  <2>3. CASE ~QueueFailure(q)
    <3>1. UNCHANGED job
          \/ \E j \in Jobs, st \in Status : job' = [job EXCEPT ![j].status = st]
      BY <1>3, <2>3 DEF ApiStep, Criar, RetryJob, CancelJob, Enqueue,
                        EnqueueErro, CancelRq, PedidoMorto, Status
    <3> QED
      BY <2>1, <3>1, SemInicio, TentativasMantidas
  <2> QED
    BY <2>2, <2>3
<1>4. CASE MaintenanceStep
  <2>1. UNCHANGED exec
    BY <1>4 DEF MaintenanceStep, ReconcileAbandoned, ReconcileVivo,
                RecoverPending, RecoverDeliver, RecoverErro, EntregaAbandonada
  <2>2. UNCHANGED job \/ (\E S : Requeue(S)) \/ (\E j \in Jobs : MarkActiveFailure(j))
    <3>1. \A d \in orfas : d[1] \in Jobs
      BY EntregaTemJob DEF Tipos, TypeOK
    <3> QED
      BY <1>4, <3>1 DEF MaintenanceStep, ReconcileAbandoned, ReconcileVivo,
                        RecoverPending, RecoverDeliver, RecoverErro, EntregaAbandonada
  <2> QED
    BY <2>1, <2>2, SemInicio, TentativasMantidas
<1> QED
  BY <1>1, <1>2, <1>3, <1>4 DEF Next

\* The attempt number tells living executions of a job apart: also when a
\* lease or a callback concerned the wrong one.
THEOREM TentativaUnica == Spec => []TentativaExclusiva
<1>1. Init => TInv
  BY TiposInit DEF Init, TInv, TentativaEmitida, TentativaExclusiva, Livre
<1>2. ASSUME TInv, [Next]_vars PROVE TInv'
  <2>t. /\ Tipos /\ Tipos'
        /\ job \in [Jobs -> JobRow] /\ job' \in [Jobs -> JobRow]
        /\ exec \in [Workers -> ExecState] /\ exec' \in [Workers -> ExecState]
    BY <1>2, TiposNext DEF TInv, Tipos, TypeOK
  <2>n. /\ \A w \in Workers : exec[w].tentativa \in Nat /\ exec'[w].tentativa \in Nat
        /\ \A j \in Jobs : job[j].tentativas \in Nat /\ job'[j].tentativas \in Nat
    BY <2>t DEF ExecState, JobRow
  <2>1. CASE NaoAssume
    <3>1. ASSUME NEW w \in Workers, exec'[w].pc = "executando"
          PROVE  /\ exec[w].pc = "executando"
                 /\ JobDe(w)' = JobDe(w) /\ JobDe(w) \in Jobs
                 /\ exec'[w].tentativa = exec[w].tentativa
                 /\ job'[JobDe(w)].tentativas >= job[JobDe(w)].tentativas
      BY <2>1, <2>t, <3>1, ExecutorTemJob DEF NaoAssume, JobDe
    <3>2. TentativaEmitida'
      BY <1>2, <2>n, <3>1 DEF TInv, TentativaEmitida
    <3>3. TentativaExclusiva'
      BY <1>2, <3>1 DEF TInv, TentativaExclusiva
    <3> QED
      BY <2>t, <3>2, <3>3 DEF TInv
  <2>2. ASSUME NEW w \in Workers, ClaimJob(w) PROVE TInv'
    <3>1. PICK j \in Jobs : j = JobDe(w)
      BY <2>2, <2>t, EntregaTemJob DEF ClaimJob, JobDe, Tipos, EntregaDefinida
    <3>2. /\ exec'[w].entrega = exec[w].entrega
          /\ exec'[w].tentativa = job[j].tentativas + 1
          /\ \A v \in Workers : v # w => exec'[v] = exec[v]
          /\ job'[j].tentativas = job[j].tentativas + 1
          /\ \A k \in Jobs : k # j => job'[k] = job[k]
      BY <2>2, <2>t, <3>1 DEF ClaimJob
    <3>3. JobDe(w)' = j
      BY <3>1, <3>2 DEF JobDe
    <3>4. ASSUME NEW v \in Workers, v # w, exec'[v].pc = "executando"
          PROVE  /\ exec[v].pc = "executando" /\ exec'[v].tentativa = exec[v].tentativa
                 /\ JobDe(v)' = JobDe(v) /\ JobDe(v) \in Jobs
                 /\ exec[v].tentativa <= job[JobDe(v)].tentativas
      BY <1>2, <2>t, <3>2, <3>4, ExecutorTemJob DEF TInv, TentativaEmitida, JobDe
    <3>5. TentativaEmitida'
      <4> SUFFICES ASSUME NEW v \in Workers, exec'[v].pc = "executando"
                   PROVE  exec'[v].tentativa <= job'[JobDe(v)'].tentativas
        BY DEF TentativaEmitida
      <4>1. CASE v = w
        BY <2>n, <3>2, <3>3, <4>1
      <4>2. CASE v # w
        BY <2>n, <3>2, <3>4, <4>2
      <4> QED
        BY <4>1, <4>2
    <3>6. ASSUME NEW v \in Workers, v # w, exec'[v].pc = "executando", JobDe(v)' = j
          PROVE  exec'[v].tentativa # exec'[w].tentativa
      BY <2>n, <3>2, <3>4, <3>6
    <3>7. ASSUME NEW v \in Workers, NEW x \in Workers, v # x, v # w, x # w,
                 exec'[v].pc = "executando", exec'[x].pc = "executando",
                 JobDe(v)' = JobDe(x)'
          PROVE  exec'[v].tentativa # exec'[x].tentativa
      BY <1>2, <3>4, <3>7 DEF TInv, TentativaExclusiva
    <3>8. TentativaExclusiva'
      BY <3>3, <3>6, <3>7 DEF TentativaExclusiva
    <3> QED
      BY <2>t, <3>5, <3>8 DEF TInv
  <2> QED
    BY <1>2, <2>1, <2>2, <2>t, SoClaimAssume
<1>3. TInv => TentativaExclusiva
  BY DEF TInv
<1> QED
  BY <1>1, <1>2, <1>3, PTL DEF Spec

-----------------------------------------------------------------------------
(* While no hazard happens the queue implements JobDuravel: every step of  *)
(* it is a step of the job's abstract life or leaves that life alone.      *)

Passo == [Duravel!Next]_<<[j \in Jobs |-> job[j].status],
                          [j \in Jobs |-> Com(job[j], "ok")]>>

\* A step that leaves the rows alone is a stutter.
LEMMA SemLinhaRefina ==
    ASSUME UNCHANGED job PROVE Passo
  BY DEF Passo, Com

\* A step that moves one job and keeps its successes.
LEMMA MudaRefina ==
    ASSUME job \in [Jobs -> JobRow], job' \in [Jobs -> JobRow], NEW j \in Jobs,
           NEW de, job[j].status \in de, NEW para, job'[j].status = para,
           Com(job'[j], "ok") = Com(job[j], "ok"),
           \A k \in Jobs : k # j => job'[k] = job[k]
    PROVE  Duravel!Muda(j, de, para)
  BY DEF Duravel!Muda, Com

\* A failure recorded in a live row.
LEMMA FalhaRefina ==
    ASSUME job \in [Jobs -> JobRow], job' \in [Jobs -> JobRow], NEW j \in Jobs,
           job[j].status \in {"na_fila", "executando"}, NEW fase,
           job' = [job EXCEPT ![j] = ComFalha(job[j], fase)]
    PROVE  Passo
<1>1. job'[j].status = "falhou" /\ job'[j].itens = job[j].itens
  BY DEF ComFalha, JobRow
<1>2. \A k \in Jobs : k # j => job'[k] = job[k]
  OBVIOUS
<1>3. Com(job'[j], "ok") = Com(job[j], "ok")
  BY <1>1 DEF Com
<1>4. Duravel!Falhar(j)
  BY <1>1, <1>2, <1>3, MudaRefina DEF Duravel!Falhar
<1> QED
  BY <1>4 DEF Passo, Duravel!Next

\* The failure callbacks.
LEMMA MarkActiveFailureRefina ==
    ASSUME job \in [Jobs -> JobRow], job' \in [Jobs -> JobRow], NEW j \in Jobs,
           MarkActiveFailure(j)
    PROVE  Passo
  BY FalhaRefina, SemLinhaRefina DEF MarkActiveFailure

\* A claim keeps the successes the row has.
LEMMA ClaimRefina ==
    ASSUME IInv, Tipos', NEW w \in Workers, ClaimJob(w)
    PROVE  Passo
<1>1. PICK j \in Jobs : j = JobDe(w)
  BY EntregaTemJob DEF IInv, Tipos, EntregaDefinida, ClaimJob, JobDe
<1>2. /\ job \in [Jobs -> JobRow] /\ job' \in [Jobs -> JobRow]
      /\ job[j].status = "na_fila"
  BY <1>1 DEF IInv, Tipos, TypeOK, ClaimJob
<1>3. PlanoBase(job[j]) = Com(job[j], "ok")
  <2>1. Retomavel(job[j])
    BY <1>2 DEF IInv, LinhasBoas, LinhaBoa
  <2>2. /\ PlanoBase(job[j]) \subseteq Com(job[j], "ok")
        /\ Com(job[j], "ok") \subseteq PlanoBase(job[j])
    BY <1>2, <2>1, PlanoParticiona
  <2> QED
    BY <2>2
<1>4. /\ job'[j].status = "executando"
      /\ job'[j].itens = [u \in Units |-> IF u \in PlanoBase(job[j])
                                          THEN "ok" ELSE "ausente"]
      /\ \A k \in Jobs : k # j => job'[k] = job[k]
  BY <1>1, <1>2 DEF ClaimJob
<1>5. Com(job'[j], "ok") = Com(job[j], "ok")
  BY <1>3, <1>4 DEF Com
<1>6. Duravel!Assumir(j)
  BY <1>2, <1>4, <1>5, MudaRefina DEF Duravel!Assumir
<1> QED
  BY <1>6 DEF Passo, Duravel!Next

\* A unit loaded is loaded once; a unit that fails leaves no trace.
LEMMA ProcessarUnidadeRefina ==
    ASSUME IInv, Tipos', NEW w \in Workers, NEW u \in Units,
           ProcessarUnidade(w, u)
    PROVE  Passo
<1>1. PICK j \in Jobs : j = JobDe(w)
  BY ExecutorTemJob DEF IInv, ProcessarUnidade
<1>2. /\ job \in [Jobs -> JobRow] /\ job' \in [Jobs -> JobRow]
      /\ exec \in [Workers -> ExecState]
      /\ exec[w].pc = "executando" /\ u \in exec[w].pend
  BY DEF IInv, Tipos, TypeOK, ProcessarUnidade
<1>3. /\ job[j].status = "executando"
      /\ exec[w].itens = job[j].itens
      /\ job[j].itens[u] = "ausente"
  BY <1>1, <1>2
     DEF IInv, ExecutaSoSeAssumido, Executa, CopiaFiel, PlanoCobreTudo
<1>4. PICK desfecho \in {"ok", "erro"} :
        job' = [job EXCEPT ![JobDe(w)].itens = [exec[w].itens EXCEPT ![u] = desfecho],
                           ![JobDe(w)].fase = "nenhuma"]
  BY DEF ProcessarUnidade
<1>5. /\ job'[j].status = "executando"
      /\ job'[j].itens = [job[j].itens EXCEPT ![u] = desfecho]
      /\ \A k \in Jobs : k # j => job'[k] = job[k]
  BY <1>1, <1>2, <1>3, <1>4 DEF JobRow
<1>6. job[j].itens \in [Units -> Desfechos]
  BY <1>2 DEF JobRow
<1>7. CASE desfecho = "ok"
  <2>1. Com(job'[j], "ok") = Com(job[j], "ok") \cup {u}
    BY <1>5, <1>6, <1>7 DEF Com
  <2>2. u \in Units \ Com(job[j], "ok")
    BY <1>3 DEF Com
  <2>3. [k \in Jobs |-> Com(job[k], "ok")]'
          = [[k \in Jobs |-> Com(job[k], "ok")] EXCEPT ![j] = @ \cup {u}]
    <3>1. \A k \in Jobs : Com(job'[k], "ok") =
                           IF k = j THEN Com(job[k], "ok") \cup {u}
                                    ELSE Com(job[k], "ok")
      BY <1>5, <2>1
    <3> DEFINE antes == [k \in Jobs |-> Com(job[k], "ok")]
    <3>2. antes' = [k \in Jobs |-> Com(job'[k], "ok")]
      BY DEF Com
    <3>3. antes' = [k \in Jobs |-> IF k = j THEN antes[k] \cup {u} ELSE antes[k]]
      BY <3>1, <3>2, Zenon
    <3> HIDE DEF antes
    <3>4. antes' = [antes EXCEPT ![j] = antes[j] \cup {u}]
      <4>1. antes = [k \in Jobs |-> antes[k]]
        BY DEF antes
      <4> QED
        BY <3>3, <4>1
    <3> QED
      BY <3>4 DEF antes
  <2>4. [k \in Jobs |-> job[k].status]' = [k \in Jobs |-> job[k].status]
    BY <1>3, <1>5
  <2>5. Duravel!Carregar(j, u)
    BY <1>3, <2>2, <2>3, <2>4 DEF Duravel!Carregar
  <2> QED
    BY <2>5 DEF Passo, Duravel!Next
<1>8. CASE desfecho = "erro"
  <2>1. \A k \in Jobs : /\ job'[k].status = job[k].status
                        /\ Com(job'[k], "ok") = Com(job[k], "ok")
    BY <1>3, <1>5, <1>6, <1>8 DEF Com
  <2> QED
    BY <2>1 DEF Passo, Com
<1> QED
  BY <1>7, <1>8

\* The final commit.
LEMMA ConcluirRefina ==
    ASSUME IInv, IInv', NEW w \in Workers, Concluir(w)
    PROVE  Passo
<1>1. PICK j \in Jobs : j = JobDe(w)
  BY ExecutorTemJob DEF IInv, Concluir
<1>2. /\ job \in [Jobs -> JobRow] /\ job' \in [Jobs -> JobRow]
      /\ job[j].status = "executando" /\ exec[w].itens = job[j].itens
  BY <1>1 DEF IInv, Tipos, TypeOK, Concluir, ExecutaSoSeAssumido, Executa, CopiaFiel
<1>3. /\ job'[j].status \in {"concluido", "falhou"}
      /\ job'[j].itens = job[j].itens
      /\ \A k \in Jobs : k # j => job'[k] = job[k]
  BY <1>1, <1>2 DEF Concluir
<1>4. Com(job'[j], "ok") = Com(job[j], "ok")
  BY <1>3 DEF Com
<1>5. CASE job'[j].status = "falhou"
  <2>1. Duravel!Falhar(j)
    BY <1>2, <1>3, <1>4, <1>5, MudaRefina DEF Duravel!Falhar
  <2> QED
    BY <2>1 DEF Passo, Duravel!Next
<1>6. CASE job'[j].status = "concluido"
  <2>1. Com(job[j], "ok") = Units
    BY <1>4, <1>6 DEF IInv, LinhasBoas, LinhaBoa
  <2>2. Duravel!Concluir(j)
    BY <1>2, <1>3, <1>4, <1>6, <2>1, MudaRefina DEF Duravel!Concluir
  <2> QED
    BY <2>2 DEF Passo, Duravel!Next
<1> QED
  BY <1>3, <1>5, <1>6

\* An API request that moves a job and keeps its row.
LEMMA PedidoRefina ==
    ASSUME IInv, Tipos', NEW j \in Jobs, NEW de, job[j].status \in de, NEW para,
           job' = [job EXCEPT ![j].status = para]
    PROVE  Duravel!Muda(j, de, para)
<1>1. job \in [Jobs -> JobRow] /\ job' \in [Jobs -> JobRow]
  BY DEF IInv, Tipos, TypeOK
<1>2. job'[j].status = para /\ job'[j].itens = job[j].itens
  BY <1>1 DEF JobRow
<1>3. Com(job'[j], "ok") = Com(job[j], "ok")
  BY <1>2 DEF Com
<1> QED
  BY <1>1, <1>2, <1>3, MudaRefina

\* Maintenance gives back the jobs whose lease is over.
LEMMA ReconcileRefina ==
    ASSUME IInv, Tipos', ReconcileAbandoned
    PROVE  Passo
<1>1. PICK S \in SUBSET {j \in Jobs : LeaseVencido(j)} : Requeue(S)
  BY DEF ReconcileAbandoned
<1>2. job \in [Jobs -> JobRow]
  BY DEF IInv, Tipos, TypeOK
<1>3. S \in SUBSET {j \in Jobs : [k \in Jobs |-> job[k].status][j] = "executando"}
  BY DEF LeaseVencido
<1>4. \A j \in Jobs : /\ job'[j].status = IF j \in S THEN "na_fila" ELSE job[j].status
                      /\ job'[j].itens = job[j].itens
  BY <1>1, <1>2 DEF Requeue, JobRow
<1>5. [j \in Jobs |-> job[j].status]'
        = [j \in Jobs |-> IF j \in S THEN "na_fila"
                                     ELSE [k \in Jobs |-> job[k].status][j]]
  BY <1>4
<1>6. [j \in Jobs |-> Com(job[j], "ok")]' = [j \in Jobs |-> Com(job[j], "ok")]
  BY <1>4 DEF Com
<1>7. Duravel!Devolver
  BY <1>3, <1>5, <1>6 DEF Duravel!Devolver
<1> QED
  BY <1>7 DEF Passo, Duravel!Next

-----------------------------------------------------------------------------
\* Every step of the queue refines a step of the job's life.
LEMMA PassoRefina ==
    ASSUME Riscos = {}
    PROVE  IInv /\ IInv' /\ [Next]_vars => Passo
<1> SUFFICES ASSUME IInv, IInv', [Next]_vars PROVE Passo
  OBVIOUS
<1>t. /\ Tipos /\ Tipos'
      /\ job \in [Jobs -> JobRow] /\ job' \in [Jobs -> JobRow]
  BY DEF IInv, Tipos, TypeOK
<1>1. CASE UNCHANGED vars
  BY <1>1, SemLinhaRefina DEF vars
<1>2. ASSUME NEW w \in Workers, WorkerStep(w) PROVE Passo
  <2>1. CASE ClaimJob(w)
    BY <1>t, <2>1, ClaimRefina
  <2>2. ASSUME NEW u \in Units, ProcessarUnidade(w, u) PROVE Passo
    BY <1>t, <2>2, ProcessarUnidadeRefina
  <2>3. CASE RegistrarExcecao(w)
    <3>1. PICK j \in Jobs : j = JobDe(w)
      BY <1>t, <2>3, ExecutorTemJob DEF RegistrarExcecao
    <3>2. job[j].status = "executando"
      BY <2>3, <3>1 DEF RegistrarExcecao, IInv, ExecutaSoSeAssumido, Executa
    <3> QED
      BY <1>t, <2>3, <3>1, <3>2, FalhaRefina DEF RegistrarExcecao
  <2>4. CASE Concluir(w)
    BY <2>4, ConcluirRefina
  <2>5. CASE Callback(w)
    <3>1. PICK j \in Jobs : j = JobDe(w)
      BY <1>t, <2>5, EntregaTemJob DEF Callback, JobDe, Tipos, EntregaDefinida
    <3> QED
      BY <1>t, <2>5, <3>1, MarkActiveFailureRefina DEF Callback
  <2>6. CASE job' = job
    BY <2>6, SemLinhaRefina
  <2> QED
    BY <1>2, <2>1, <2>2, <2>3, <2>4, <2>5, <2>6
       DEF WorkerStep, Dequeue, Start, ClaimRecusado, ClaimDesfeito,
           ExcecaoNaExecucao, CallbackPerdido, HorseMorto, WorkerMorto
<1>3. ASSUME NEW q \in Requests, ApiStep(q) PROVE Passo
  <2>1. ASSUME NEW j \in Jobs, Criar(q, j) PROVE Passo
    <3>1. Duravel!Criar(j)
      BY <1>t, <2>1, PedidoRefina DEF Criar, Duravel!Criar
    <3> QED
      BY <3>1 DEF Passo, Duravel!Next
  <2>2. ASSUME NEW j \in Jobs, RetryJob(q, j) PROVE Passo
    <3>1. Duravel!Retentar(j)
      BY <1>t, <2>2, PedidoRefina DEF RetryJob, Duravel!Retentar
    <3> QED
      BY <3>1 DEF Passo, Duravel!Next
  <2>3. ASSUME NEW j \in Jobs, CancelJob(q, j) PROVE Passo
    <3>1. Duravel!Cancelar(j)
      BY <1>t, <2>3, PedidoRefina DEF CancelJob, Cancelavel, Duravel!Cancelar
    <3> QED
      BY <3>1 DEF Passo, Duravel!Next
  <2>4. CASE QueueFailure(q)
    <3>1. PICK j \in Jobs : j = api[q].entrega[1]
      BY <1>t, <2>4, EntregaTemJob DEF QueueFailure, Tipos, EntregaDefinida
    <3> QED
      BY <1>t, <2>4, <3>1, FalhaRefina, SemLinhaRefina DEF QueueFailure
  <2>5. CASE job' = job
    BY <2>5, SemLinhaRefina
  <2> QED
    BY <1>3, <2>1, <2>2, <2>3, <2>4, <2>5
       DEF ApiStep, Enqueue, EnqueueErro, CancelRq, PedidoMorto
<1>4. CASE MaintenanceStep
  <2>1. CASE ReconcileAbandoned
    BY <1>t, <2>1, ReconcileRefina
  <2>2. ASSUME NEW j \in Jobs, ReconcileVivo(j) PROVE Passo
    BY <2>2 DEF ReconcileVivo, LeaseUltrapassado
  <2>3. ASSUME NEW d \in orfas, EntregaAbandonada(d) PROVE Passo
    <3>1. d[1] \in Jobs
      BY <1>t, EntregaTemJob DEF Tipos, TypeOK
    <3> QED
      BY <1>t, <2>3, <3>1, MarkActiveFailureRefina DEF EntregaAbandonada
  <2>4. CASE job' = job
    BY <2>4, SemLinhaRefina
  <2> QED
    BY <1>4, <2>1, <2>2, <2>3, <2>4
       DEF MaintenanceStep, RecoverPending, RecoverDeliver, RecoverErro
<1> QED
  BY <1>1, <1>2, <1>3, <1>4 DEF Next

\* While no hazard happens the queue keeps what it promises of each job:
\* one owner moves it at a time, a unit loaded stays loaded, a job is concluded
\* when everything is loaded, and a concluded or cancelled job never moves.
THEOREM Refinamento ==
    ASSUME Riscos = {}
    PROVE  Spec => ImplementaJobDuravel
<1>1. Init => Duravel!Init
  BY DEF Init, Duravel!Init, Com, NenhumItem
<1>2. IInv /\ IInv' /\ [Next]_vars => Passo
  BY PassoRefina
<1>3. Spec => []IInv
  BY Segura
<1> QED
  BY <1>1, <1>2, <1>3, PTL DEF Spec, ImplementaJobDuravel, Duravel!Spec, Passo

\* A unit loaded is a checkpoint for ever, over retries, crashes and recovery.
THEOREM CheckpointDuravel ==
    ASSUME Riscos = {}
    PROVE  Spec => UnidadeOkPreservada
<1>1. ASSUME IInv, IInv', Passo
      PROVE  \A j \in Jobs, u \in Units :
               job[j].itens[u] = "ok" => job'[j].itens[u] = "ok"
  <2>1. ASSUME NEW j \in Jobs PROVE Com(job[j], "ok") \subseteq Com(job'[j], "ok")
    <3> DEFINE feitas == [k \in Jobs |-> Com(job[k], "ok")]
    <3>1. feitas' = feitas
          \/ \E k \in Jobs, u \in Units : feitas' = [feitas EXCEPT ![k] = @ \cup {u}]
      BY <1>1 DEF Passo, Duravel!Next, Duravel!Criar, Duravel!Assumir,
                  Duravel!Cancelar, Duravel!Retentar, Duravel!Falhar,
                  Duravel!Concluir, Duravel!Devolver, Duravel!Carregar, Duravel!Muda
    <3>2. feitas[j] \subseteq feitas'[j]
      BY <3>1
    <3>3. feitas'[j] = Com(job'[j], "ok")
      BY DEF Com
    <3> QED
      BY <3>2, <3>3
  <2> QED
    BY <2>1 DEF Com
<1>2. IInv /\ IInv' /\ [Next]_vars => Passo
  BY PassoRefina
<1>3. Spec => []IInv
  BY Segura
<1>4. ASSUME IInv, IInv', [Next]_vars
      PROVE  [\A j \in Jobs, u \in Units :
                job[j].itens[u] = "ok" => job'[j].itens[u] = "ok"]_job
  BY <1>1, <1>2, <1>4
<1> QED
  BY <1>3, <1>4, PTL DEF Spec, UnidadeOkPreservada

=============================================================================
