----------------------------- MODULE Relatorios -----------------------------
(***************************************************************************)
(* Reports: the row of a report, the artifact it publishes, the in-memory  *)
(* pool of every process that generates them, recovery at start-up and     *)
(* schedules (workers/report_tasks.py, modules/reports).                   *)
(*                                                                         *)
(* A row is committed before its batch enters the pool of the process that *)
(* committed it: the two are one step here, because a process that dies    *)
(* between them leaves what it leaves when it dies right after them.  A    *)
(* generation writes a content of its own; whether the report comes out    *)
(* gerado or parcial is not told apart.                                    *)
(***************************************************************************)
EXTENDS Integers, Sequences, FiniteSets

CONSTANTS
    Relatorios,    \* rows of reports
    Avulsos,       \* those a user asks for; the others come from a schedule
    Agendamentos,  \* active schedules
    Processos,     \* replicas of the API and the clock process
    Apis,          \* those that serve requests
    Relogios,      \* those that run start_scheduler
    Threads,       \* max_workers of the pool of a process
    Conteudos,     \* contents of documents
    Nada,          \* no schedule, nobody, no file
    Riscos,        \* {"resposta_perdida"} when an answer to COMMIT may be lost
    MaxRelogio,    \* bound: instants of the clock
    MaxQuedas      \* bound: processes that die and answers that are lost

ASSUME ConstantsAssumption ==
    /\ Avulsos \subseteq Relatorios
    /\ Apis \subseteq Processos
    /\ Relogios \subseteq Processos
    /\ Nada \notin Processos /\ Nada \notin Conteudos /\ Nada \notin Agendamentos \X Nat
    /\ IsFiniteSet(Relatorios)
    /\ Riscos \subseteq {"resposta_perdida"}
    /\ MaxRelogio \in Nat /\ MaxQuedas \in Nat

VARIABLES
    relatorio,   \* op.relatorio: status, conteudo_hash and the schedule it is from
    arquivo,     \* the published file of a report, Nada when there is none
    tmp,         \* the .tmp beside it
    agenda,      \* op.relatorio_agendamento: proxima_execucao and who locks the row
    proc,        \* what each process is doing, besides its pool
    fila,        \* batches in the pool of each process
    thr,         \* the threads of the pools
    relogio,     \* datetime.now
    quedas,      \* processes that died, and answers to COMMIT lost, so far
    abortados,   \* history: reports of a batch a database error interrupted
    retomados,   \* history: reports a recovery took from a living generation
    semResposta  \* history: published reports that their generation takes for
                 \* failed, as the answer to its COMMIT was lost

vars == <<relatorio, arquivo, tmp, agenda, proc, fila, thr, relogio,
          quedas, abortados, retomados, semResposta>>

arquivos == <<arquivo, tmp>>
processos == <<agenda, proc, fila>>
ambiente == <<relogio, quedas>>
historia == <<abortados, retomados, semResposta>>

Status == {"ausente", "enfileirado", "processando", "gerado", "falhou"}
Linha == [status: Status, hash: Conteudos \cup {Nada},
          origem: {Nada} \cup (Agendamentos \X Nat)]

Trabalho ==
    [fase: {"livre", "lote", "gerar", "carregado", "escrito", "salvo",
            "desfazer", "falhou"},
     lote: Seq(Relatorios), lido: Status,
     conteudo: Conteudos \cup {Nada}]
Ocioso == [fase |-> "livre", lote |-> <<>>, lido |-> "ausente",
           conteudo |-> Nada]

Processo ==
    [fase: {"morto", "subindo", "recuperando", "pronto", "emitindo_ao_subir",
            "servindo", "emitindo"},
     lista: SUBSET Relatorios, presos: SUBSET Relatorios,
     vencidos: SUBSET (Agendamentos \X Nat), agora: Nat]
EmFase(f) ==
    [fase |-> f, lista |-> {}, presos |-> {}, vencidos |-> {}, agora |-> 0]

Init ==
    /\ relatorio = [r \in Relatorios |->
                      [status |-> "ausente", hash |-> Nada, origem |-> Nada]]
    /\ arquivo = [r \in Relatorios |-> Nada]
    /\ tmp = [r \in Relatorios |-> Nada]
    /\ agenda = [s \in Agendamentos |-> [proxima |-> 1, trava |-> Nada]]
    /\ proc = [p \in Processos |-> EmFase("servindo")]
    /\ fila = [p \in Processos |-> <<>>]
    /\ thr = [p \in Processos |-> [t \in Threads |-> Ocioso]]
    /\ relogio = 0
    /\ quedas = 0
    /\ abortados = {}
    /\ retomados = {}
    /\ semResposta = {}

-----------------------------------------------------------------------------
(* The pool of a process: one batch per thread, its reports in order. *)

Atual(x) == Head(x.lote)
Itens(x) == {x.lote[i] : i \in DOMAIN x.lote}
Seguinte(x) ==
    IF Tail(x.lote) = <<>> THEN Ocioso
    ELSE [Ocioso EXCEPT !.fase = "lote", !.lote = Tail(x.lote)]

Gerando(x, r) == x.fase \notin {"livre", "lote"} /\ Atual(x) = r

\* Some living thread is between the claim of r and its last transaction.
EmGeracao(r) == \E p \in Processos, t \in Threads : Gerando(thr[p][t], r)

\* The batch that holds the reports ids, in an order; none when there is none.
Lotes(ids) ==
    IF ids = {} THEN {<<>>}
    ELSE {l \in [1 .. Cardinality(ids) -> ids] : \A r \in ids : \E i \in DOMAIN l : l[i] = r}
Enfileirado(p, l) ==
    IF l = <<>> THEN fila ELSE [fila EXCEPT ![p] = Append(@, l)]

Passa(p, t, x) == thr' = [thr EXCEPT ![p][t] = x]
Avancando(p, t, f) == Passa(p, t, [thr[p][t] EXCEPT !.fase = f])

\* Mutant: any report can be claimed, the published ones too.
ReivindicavelSempre(s) == TRUE

\* Mutant: a report in generation can be claimed again.
ReivindicavelProcessando(s) == s \in {"enfileirado", "falhou", "processando"}

\* The statuses claim_relatorio takes a report from.
Reivindicavel(s) == s \in {"enfileirado", "falhou"}

\* An idle thread takes the first batch of its process.
Pegar(p, t) ==
    /\ thr[p][t].fase = "livre" /\ fila[p] # <<>>
    /\ Passa(p, t, [Ocioso EXCEPT !.fase = "lote", !.lote = Head(fila[p])])
    /\ fila' = [fila EXCEPT ![p] = Tail(@)]
    /\ UNCHANGED <<relatorio, arquivos, agenda, proc, ambiente, historia>>

\* First transaction: the claim, under FOR UPDATE, or the next of the batch.
ClaimRelatorio(p, t) ==
    /\ thr[p][t].fase = "lote"
    /\ LET r == Atual(thr[p][t]) IN
         IF Reivindicavel(relatorio[r].status)
         THEN /\ relatorio' = [relatorio EXCEPT ![r].status = "processando"]
              /\ Avancando(p, t, "gerar")
         ELSE /\ Passa(p, t, Seguinte(thr[p][t]))
              /\ UNCHANGED relatorio
    /\ UNCHANGED <<arquivos, processos, ambiente, historia>>

\* Second transaction: the row is read, with no lock, before the document is
\* built; what is written at the end is what differs from this read.
Carregar(p, t) ==
    /\ thr[p][t].fase = "gerar"
    /\ Passa(p, t, [thr[p][t] EXCEPT
                      !.fase = "carregado",
                      !.lido = relatorio[Atual(thr[p][t])].status])
    /\ UNCHANGED <<relatorio, arquivos, processos, ambiente, historia>>

\* A content no file, row or generation of r has: a document carries the
\* instant it is generated at.
EmUso(r) ==
    {arquivo[r], tmp[r], relatorio[r].hash} \cup
    {thr[p][t].conteudo : p \in Processos, t \in Threads}
NovoConteudo(r) == CHOOSE c \in Conteudos : c \notin EmUso(r)

\* persist_artifact writes the content beside the file of the report (bound: there
\* are contents enough) ...
EscreverTmp(p, t) ==
    /\ thr[p][t].fase = "carregado"
    /\ \E c \in Conteudos : c \notin EmUso(Atual(thr[p][t]))
    /\ LET r == Atual(thr[p][t])
           c == NovoConteudo(r)
       IN /\ tmp' = [tmp EXCEPT ![r] = c]
          /\ Passa(p, t, [thr[p][t] EXCEPT !.fase = "escrito", !.conteudo = c])
    /\ UNCHANGED <<relatorio, arquivo, processos, ambiente, historia>>

\* ... and replaces the file, which has one name per report; the replace of a
\* .tmp another generation has moved raises.
Substituir(p, t) ==
    /\ thr[p][t].fase = "escrito"
    /\ LET r == Atual(thr[p][t]) IN
         IF tmp[r] # Nada
         THEN /\ arquivo' = [arquivo EXCEPT ![r] = tmp[r]]
              /\ tmp' = [tmp EXCEPT ![r] = Nada]
              /\ Avancando(p, t, "salvo")
         ELSE /\ Avancando(p, t, "falhou")
              /\ UNCHANGED <<arquivos>>
    /\ UNCHANGED <<relatorio, processos, ambiente, historia>>

\* The UPDATE of mark_success carries the columns that differ from what was
\* read: a row read as gerado keeps the status it has by now.
Desfecho(lido, atual) == IF lido = "gerado" THEN atual ELSE "gerado"

\* mark_success, the audit row and the commit.
MarkSuccess(p, t) ==
    LET r == Atual(thr[p][t]) IN
    relatorio' = [relatorio EXCEPT
                    ![r].hash = thr[p][t].conteudo,
                    ![r].status = Desfecho(thr[p][t].lido, relatorio[r].status)]

Publicar(p, t) ==
    /\ thr[p][t].fase = "salvo"
    /\ MarkSuccess(p, t)
    /\ Passa(p, t, Seguinte(thr[p][t]))
    /\ UNCHANGED <<arquivos, processos, ambiente, historia>>

\* A COMMIT that is applied and whose answer never comes: what it wrote is there,
\* and whoever asked for it takes it for failed.
RespostaPerdida ==
    "resposta_perdida" \in Riscos /\ quedas < MaxQuedas /\ quedas' = quedas + 1

\* So the handler undoes a report that is published.  (An answer lost to the first
\* or the third transaction drops the batch, as AbortarLote does of such rows.)
PublicarSemResposta(p, t) ==
    /\ thr[p][t].fase = "salvo"
    /\ RespostaPerdida
    /\ MarkSuccess(p, t)
    /\ Avancando(p, t, "desfazer")
    /\ semResposta' = semResposta \cup {Atual(thr[p][t])}
    /\ UNCHANGED <<arquivos, processos, relogio, abortados, retomados>>

\* Anything in the second transaction raises and it rolls back.
FalharGeracao(p, t) ==
    /\ thr[p][t].fase \in {"gerar", "carregado", "escrito", "salvo"}
    /\ Avancando(p, t, IF thr[p][t].fase = "salvo" THEN "desfazer" ELSE "falhou")
    /\ UNCHANGED <<relatorio, arquivos, processos, ambiente, historia>>

\* The artifact of the failed generation is removed, by its name.
RemoverArquivo(p, t) ==
    /\ thr[p][t].fase = "desfazer"
    /\ arquivo' = [arquivo EXCEPT ![Atual(thr[p][t])] = Nada]
    /\ Avancando(p, t, "falhou")
    /\ UNCHANGED <<relatorio, tmp, processos, ambiente, historia>>

\* Third transaction: mark_failure, whatever the row says by now.
MarkFailure(p, t) ==
    /\ thr[p][t].fase = "falhou"
    /\ relatorio' = [relatorio EXCEPT ![Atual(thr[p][t])].status = "falhou"]
    /\ Passa(p, t, Seguinte(thr[p][t]))
    /\ semResposta' = semResposta \ {Atual(thr[p][t])}
    /\ UNCHANGED <<arquivos, processos, ambiente, abortados, retomados>>

\* The first or the third transaction fails: nobody catches it and the rest of
\* the batch is dropped.
AbortarLote(p, t) ==
    /\ thr[p][t].fase \in {"lote", "falhou"}
    /\ abortados' = abortados \cup Itens(thr[p][t])
    /\ Passa(p, t, Ocioso)
    /\ UNCHANGED <<relatorio, arquivos, processos, ambiente, retomados, semResposta>>

-----------------------------------------------------------------------------
(* Requests, start-up and schedules. *)

\* The reports ids of a commit: in the pool of p, or, when its answer is lost, in
\* nobody's until a process starts.
Entregar(p, ids) ==
    \/ /\ \E l \in Lotes(ids) : fila' = Enfileirado(p, l)
       /\ UNCHANGED <<quedas, abortados>>
    \/ /\ RespostaPerdida /\ proc[p].fase # "emitindo_ao_subir"
       /\ abortados' = abortados \cup ids
       /\ UNCHANGED fila

\* POST /relatorios: the rows of a batch are committed and enqueued.
Solicitar(p) ==
    /\ p \in Apis /\ proc[p].fase = "servindo"
    /\ \E ids \in SUBSET {r \in Avulsos : relatorio[r].status = "ausente"} :
         /\ ids # {}
         /\ relatorio' = [r \in Relatorios |->
              IF r \in ids THEN [relatorio[r] EXCEPT !.status = "enfileirado"]
              ELSE relatorio[r]]
         /\ Entregar(p, ids)
    /\ UNCHANGED <<arquivos, agenda, proc, thr, relogio, retomados, semResposta>>

\* Mutant: only what was in generation is pending.
PendenteInterrompido(s) == s = "processando"

\* The statuses list_pending_ids puts back.
Pendente(s) == s \in {"enfileirado", "processando"}

\* recover_pending at start-up: the pending rows are read with no lock ...
RecoverLer(p) ==
    /\ proc[p].fase = "subindo"
    /\ LET ids == {r \in Relatorios : Pendente(relatorio[r].status)} IN
         proc' = [proc EXCEPT ![p] =
                    [EmFase("recuperando") EXCEPT
                       !.lista = ids,
                       !.presos = {r \in ids : relatorio[r].status = "processando"}]]
    /\ UNCHANGED <<relatorio, arquivos, agenda, fila, thr, ambiente, historia>>

\* ... and those read as processando go back to enfileirado, whatever they are
\* by now; all of them form one batch.
RecoverGravar(p) ==
    /\ proc[p].fase = "recuperando"
    /\ LET presos == proc[p].presos IN
         /\ relatorio' = [r \in Relatorios |->
                            IF r \in presos
                            THEN [relatorio[r] EXCEPT !.status = "enfileirado"]
                            ELSE relatorio[r]]
         /\ retomados' = retomados \cup
              {r \in presos : EmGeracao(r) \/ relatorio[r].status = "gerado"}
    /\ \E l \in Lotes(proc[p].lista) : fila' = Enfileirado(p, l)
    /\ abortados' = {r \in abortados :
                       r \notin proc[p].lista \/ relatorio'[r].status # "enfileirado"}
    /\ proc' = [proc EXCEPT ![p] = EmFase("pronto")]
    /\ UNCHANGED <<arquivos, agenda, thr, ambiente, semResposta>>

\* Mutant: a due schedule is listed whoever holds its row.
LivreSempre(s) == TRUE

\* SKIP LOCKED leaves out a schedule another process holds.
Livre(s) == agenda[s].trava = Nada

Vencidos == {s \in Agendamentos : agenda[s].proxima <= relogio /\ Livre(s)}

\* executar_agendamentos lists and locks the schedules that are due, at
\* start-up and then every 30 s on a process of the clock.
ListarVencidos(p) ==
    /\ \/ proc[p].fase = "pronto"
       \/ proc[p].fase = "servindo" /\ p \in Relogios /\ Vencidos # {}
    /\ LET f == IF proc[p].fase = "pronto" THEN "emitindo_ao_subir" ELSE "emitindo" IN
         proc' = [proc EXCEPT ![p] =
                    [EmFase(f) EXCEPT
                       !.vencidos = {<<s, agenda[s].proxima>> : s \in Vencidos},
                       !.agora = relogio]]
    /\ agenda' = [s \in Agendamentos |->
                    IF s \in Vencidos THEN [agenda[s] EXCEPT !.trava = p]
                    ELSE agenda[s]]
    /\ UNCHANGED <<relatorio, arquivos, fila, thr, ambiente, historia>>

Solta(p) ==
    [s \in Agendamentos |->
       IF agenda[s].trava = p THEN [agenda[s] EXCEPT !.trava = Nada] ELSE agenda[s]]

\* New rows for the executions V of schedules: one each.
NovasLinhas(V) ==
    {f \in [V -> {r \in Relatorios \ Avulsos : relatorio[r].status = "ausente"}] :
       \A v, w \in V : v # w => f[v] # f[w]}

\* The transaction of the schedules commits: one report for each, its next
\* execution counted from the instant of the listing, and the batch enqueued (an
\* answer lost at start-up ends the process: Queda).
Emitir(p) ==
    /\ proc[p].fase \in {"emitindo", "emitindo_ao_subir"}
    /\ NovasLinhas(proc[p].vencidos) # {}
    /\ LET V == proc[p].vencidos
           f == CHOOSE g \in NovasLinhas(V) : TRUE
       IN /\ relatorio' = [r \in Relatorios |->
               IF \E v \in V : f[v] = r
               THEN [status |-> "enfileirado", hash |-> Nada,
                     origem |-> CHOOSE v \in V : f[v] = r]
               ELSE relatorio[r]]
          /\ Entregar(p, {f[v] : v \in V})
          /\ agenda' = [s \in Agendamentos |->
               IF s \in {v[1] : v \in V}
               THEN [proxima |-> proc[p].agora + 1, trava |-> Nada]
               ELSE agenda[s]]
    /\ proc' = [proc EXCEPT ![p] = EmFase("servindo")]
    /\ UNCHANGED <<arquivos, thr, relogio, retomados, semResposta>>

\* It fails: the loop of the clock logs it and tries again at the next round.
EmissaoDesfeita(p) ==
    /\ proc[p].fase = "emitindo"
    /\ agenda' = Solta(p)
    /\ proc' = [proc EXCEPT ![p] = EmFase("servindo")]
    /\ UNCHANGED <<relatorio, arquivos, fila, thr, ambiente, historia>>

-----------------------------------------------------------------------------
(* A process dies, with its pool and its open transactions, and is started *)
(* again (restart: always).                                                *)
Queda(p) ==
    /\ proc[p].fase # "morto" /\ quedas < MaxQuedas
    /\ quedas' = quedas + 1
    /\ proc' = [proc EXCEPT ![p] = EmFase("morto")]
    /\ fila' = [fila EXCEPT ![p] = <<>>]
    /\ thr' = [thr EXCEPT ![p] = [t \in Threads |-> Ocioso]]
    /\ agenda' = Solta(p)
    /\ UNCHANGED <<relatorio, arquivos, relogio, historia>>

Subir(p) ==
    /\ proc[p].fase = "morto"
    /\ proc' = [proc EXCEPT ![p] = EmFase("subindo")]
    /\ UNCHANGED <<relatorio, arquivos, agenda, fila, thr, ambiente, historia>>

Tempo ==
    /\ relogio < MaxRelogio
    /\ relogio' = relogio + 1
    /\ UNCHANGED <<relatorio, arquivos, processos, thr, quedas, historia>>

ThreadStep(p, t) ==
    \/ Pegar(p, t)
    \/ ClaimRelatorio(p, t)
    \/ Carregar(p, t)
    \/ EscreverTmp(p, t)
    \/ Substituir(p, t)
    \/ Publicar(p, t)
    \/ PublicarSemResposta(p, t)
    \/ FalharGeracao(p, t)
    \/ RemoverArquivo(p, t)
    \/ MarkFailure(p, t)
    \/ AbortarLote(p, t)

ProcessStep(p) ==
    \/ RecoverLer(p)
    \/ RecoverGravar(p)
    \/ ListarVencidos(p)
    \/ Emitir(p)
    \/ Subir(p)

Next ==
    \/ \E p \in Processos, t \in Threads : ThreadStep(p, t)
    \/ \E p \in Processos :
         ProcessStep(p) \/ Solicitar(p) \/ EmissaoDesfeita(p) \/ Queda(p)
    \/ Tempo

Spec == Init /\ [][Next]_vars

\* Threads go on and a process that died is started again; nobody has to ask
\* for a report, and nothing has to fail.
FairSpec ==
    /\ Spec
    /\ \A p \in Processos : WF_vars(ProcessStep(p))
    /\ \A p \in Processos, t \in Threads : WF_vars(ThreadStep(p, t))

-----------------------------------------------------------------------------
TypeOK ==
    /\ relatorio \in [Relatorios -> Linha]
    /\ arquivo \in [Relatorios -> Conteudos \cup {Nada}]
    /\ tmp \in [Relatorios -> Conteudos \cup {Nada}]
    /\ agenda \in [Agendamentos -> [proxima: Nat, trava: Processos \cup {Nada}]]
    /\ proc \in [Processos -> Processo]
    /\ fila \in [Processos -> Seq(Seq(Relatorios))]
    /\ thr \in [Processos -> [Threads -> Trabalho]]
    /\ relogio \in Nat /\ quedas \in Nat
    /\ abortados \subseteq Relatorios /\ retomados \subseteq Relatorios
    /\ semResposta \subseteq Relatorios

\* A published report has its file, with the content its hash records: the
\* generations that failed, died or were refused left nothing of theirs in it
\* (report_tasks.py, 52), unless a recovery took it from a living generation or
\* its generation takes it for failed and has not recorded so.
ArtefatoIntegro ==
    \A r \in Relatorios \ (retomados \cup semResposta) :
        relatorio[r].status = "gerado" => /\ relatorio[r].hash # Nada
                                          /\ arquivo[r] = relatorio[r].hash

\* The artifact and its hash go together (report_tasks.py, 52), with no
\* exception: when nobody is at work on a published report, its file is the one
\* its row describes.
ArtefatoDoHash ==
    \A r \in Relatorios :
        relatorio[r].status = "gerado" /\ ~EmGeracao(r) =>
            arquivo[r] = relatorio[r].hash

\* A published report is never generated again, however many batches name it
\* (repository.py, 120), with the same exceptions.
GeradoFica ==
    [][\A r \in Relatorios \ (retomados' \cup semResposta) :
         relatorio[r].status = "gerado" => relatorio'[r] = relatorio[r]]_vars

\* One execution of a schedule emits one report, however many processes look
\* at their clocks (report_tasks.py, 119-120; repository.py, 377).
AgendamentoUmaVez ==
    \A r, q \in Relatorios :
        r # q /\ relatorio[r].origem # Nada =>
            relatorio[r].origem # relatorio[q].origem

\* A report that was committed is generated or fails, whatever process dies
\* with it (repository.py, 103), unless a database error drops its batch: then
\* it waits for the next process to start.
RelatorioTermina ==
    \A r \in Relatorios :
        relatorio[r].status \in {"enfileirado", "processando"} ~>
            \/ relatorio[r].status \in {"gerado", "falhou"}
            \/ r \in abortados
=============================================================================
