------------------------------ MODULE Carteira ------------------------------
(***************************************************************************)
(* Portfolio refresh: durable jobs of op.carteira_lote_job, the clocks     *)
(* that execute them, and the other writer of gold.mart_carteira, the      *)
(* materialisation a load ends with (workers/carteira_tasks.py,            *)
(* dashboard/carteira_service.py, workers/materialize.py).                 *)
(*                                                                         *)
(* Transactions are READ COMMITTED: a read sees what others committed, a   *)
(* write takes the lock of its row until the transaction ends, and a       *)
(* rollback leaves nothing.  A delivery is identified by its number, and   *)
(* one period stands for all.                                              *)
(***************************************************************************)
EXTENDS Integers, Sequences, FiniteSets

CONSTANTS
    Relogios,     \* threads that run executar_pendentes
    Lotes,        \* refresh jobs
    Entes,        \* entities, numbered in the order of their codes
    LotePorCiclo, \* LOTE_POR_CICLO
    MaxVersoes,   \* bound: deliveries of an entity
    MaxFalhas     \* bound: executions that fail and processes that die

ASSUME CarteiraAssumption ==
    /\ Entes \subseteq Nat /\ IsFiniteSet(Entes)
    /\ LotePorCiclo \in Nat \ {0}
    /\ MaxVersoes \in Nat /\ MaxFalhas \in Nat

VARIABLES
    lotes,     \* committed rows of op.carteira_lote_job, in order of criado_em
    vigente,   \* delivery in force of each entity, 0 when there is none
    apurado,   \* deliveries whose indicators are committed
    carteira,  \* delivery the committed snapshot of each entity shows, 0 for none
    ciclo,     \* what each clock is doing
    carga,     \* what the materialisation of each entity is doing
    falhas     \* failures so far

carteiraVars == <<lotes, vigente, apurado, carteira, ciclo, carga, falhas>>

Versoes == 0..MaxVersoes
Terminal == {"concluido", "falhou"}

\* A job row; a clock with its list of jobs, and in an execution the entities
\* left, the delivery read for the first of them and the rows it has written.
Lote == [id: Lotes, entes: Seq(Entes), status: {"enfileirado"} \cup Terminal]
Ciclo == [fase: {"parado", "ciclo", "executando", "falhou"},
          pendentes: Seq(Lotes), resta: Seq(Entes), lida: Versoes,
          escrito: [Entes -> Versoes]]
Carga == [fase: {"parada", "apurando", "gravada"}, versao: Versoes]

NadaEscrito == [e \in Entes |-> 0]
Parado == [fase |-> "parado", pendentes |-> <<>>, resta |-> <<>>,
           lida |-> 0, escrito |-> NadaEscrito]
CargaParada == [fase |-> "parada", versao |-> 0]

\* Type invariant of the jobs, the snapshots and the transactions that write
\* them: in no committed row a job is in the middle of its execution, since
\* EXECUTANDO is only flushed in the transaction that concludes it.
TypeOKCarteira ==
    /\ lotes \in Seq(Lote)
    /\ vigente \in [Entes -> Versoes]
    /\ apurado \in [Entes -> SUBSET Versoes]
    /\ carteira \in [Entes -> Versoes]
    /\ ciclo \in [Relogios -> Ciclo]
    /\ carga \in [Entes -> Carga]
    /\ falhas \in 0..MaxFalhas

InitCarteira ==
    /\ lotes = <<>>
    /\ vigente = [e \in Entes |-> 0]
    /\ apurado = [e \in Entes |-> {}]
    /\ carteira = [e \in Entes |-> 0]
    /\ ciclo = [r \in Relogios |-> Parado]
    /\ carga = [e \in Entes |-> CargaParada]
    /\ falhas = 0

-----------------------------------------------------------------------------
(* Rows and their locks *)

Linha(l) == CHOOSE i \in DOMAIN lotes : lotes[i].id = l
Existe(l) == \E i \in DOMAIN lotes : lotes[i].id = l
ComStatus(l, s) == [lotes EXCEPT ![Linha(l)].status = s]

Executa(r, l) == ciclo[r].fase = "executando" /\ Head(ciclo[r].pendentes) = l
LoteTravado(l) == \E r \in Relogios : Executa(r, l)
TravaDe(r, e) == ciclo[r].escrito[e] # 0
SnapshotTravado(e) == carga[e].fase = "gravada" \/ \E r \in Relogios : TravaDe(r, e)

-----------------------------------------------------------------------------
(* Requests and deliveries *)

\* POST /carteira/refresh: sorted(scope), never empty (422).
Listas == UNION {[1..n -> Entes] : n \in 1..Cardinality(Entes)}

\* Mutant: the entities in the order of the set.
EscoposSemOrdem ==
    {s \in Listas : \A i, j \in DOMAIN s : i < j => s[i] # s[j]}

EscoposOrdenados ==
    {s \in Listas : \A i, j \in DOMAIN s : i < j => s[i] < s[j]}

EnfileirarRefresh(l, s) ==
    /\ ~Existe(l)
    /\ lotes' = Append(lotes, [id |-> l, entes |-> s, status |-> "enfileirado"])
    /\ UNCHANGED <<vigente, apurado, carteira, ciclo, carga, falhas>>

\* A load commits a delivery, and materialize_ente follows in a transaction of
\* its own: the indicators of the delivery in force, then the snapshot.
NovaEntrega(e) ==
    /\ carga[e].fase = "parada"
    /\ vigente[e] < MaxVersoes
    /\ vigente' = [vigente EXCEPT ![e] = @ + 1]
    /\ carga' = [carga EXCEPT ![e] = [fase |-> "apurando", versao |-> vigente[e] + 1]]
    /\ UNCHANGED <<lotes, apurado, carteira, ciclo, falhas>>

GravarSnapshot(e) ==
    /\ carga[e].fase = "apurando"
    /\ ~SnapshotTravado(e)
    /\ carga' = [carga EXCEPT ![e].fase = "gravada"]
    /\ UNCHANGED <<lotes, vigente, apurado, carteira, ciclo, falhas>>

ConfirmarCarga(e) ==
    /\ carga[e].fase = "gravada"
    /\ apurado' = [apurado EXCEPT ![e] = @ \cup {carga[e].versao}]
    /\ carteira' = [carteira EXCEPT ![e] = carga[e].versao]
    /\ carga' = [carga EXCEPT ![e] = CargaParada]
    /\ UNCHANGED <<lotes, vigente, ciclo, falhas>>

-----------------------------------------------------------------------------
(* executar_pendentes, one thread *)

\* list_lote_jobs: the oldest jobs enqueued, in order, at most LotePorCiclo.
Enfileirado(l) == Existe(l) /\ lotes[Linha(l)].status = "enfileirado"
MaisAntigos(s) ==
    /\ \A i \in DOMAIN s : Enfileirado(s[i])
    /\ \A i, j \in DOMAIN s : i < j => Linha(s[i]) < Linha(s[j])
    /\ \A l \in Lotes : Enfileirado(l) =>
         \/ \E i \in DOMAIN s : s[i] = l
         \/ Len(s) = LotePorCiclo /\ \A i \in DOMAIN s : Linha(s[i]) < Linha(l)

ListarPendentes(r) ==
    /\ ciclo[r].fase = "parado"
    /\ \E s \in UNION {[1..n -> Lotes] : n \in 1..LotePorCiclo} :
         /\ MaisAntigos(s)
         /\ ciclo' = [ciclo EXCEPT ![r] =
                [Parado EXCEPT !.fase = "ciclo", !.pendentes = s]]
    /\ UNCHANGED <<lotes, vigente, apurado, carteira, carga, falhas>>

\* executar_refresh_job: nothing asks whether the job is still enqueued; the
\* flush of EXECUTANDO waits for whoever is writing the same row.
Comecar(r) ==
    /\ ciclo[r].fase = "ciclo"
    /\ ~LoteTravado(Head(ciclo[r].pendentes))
    /\ ciclo' = [ciclo EXCEPT
           ![r].fase = "executando",
           ![r].resta = lotes[Linha(Head(ciclo[r].pendentes))].entes]
    /\ UNCHANGED <<lotes, vigente, apurado, carteira, carga, falhas>>

\* Mutant: the delivery in force, whether or not it has indicators.
TemApuracaoSempre(e) == TRUE

TemApuracao(e) == vigente[e] \in apurado[e]

\* refresh_mart_carteira: the delivery in force, then its indicators.
ResolverVersao(r) ==
    /\ ciclo[r].fase = "executando"
    /\ ciclo[r].resta # <<>>
    /\ ciclo[r].lida = 0
    /\ LET e == Head(ciclo[r].resta) IN
         IF TemApuracao(e)
         THEN ciclo' = [ciclo EXCEPT ![r].lida = vigente[e]]
         ELSE ciclo' = [ciclo EXCEPT ![r].resta = Tail(@)]
    /\ UNCHANGED <<lotes, vigente, apurado, carteira, carga, falhas>>

EsperaSnapshot(r) ==
    ciclo[r].fase = "executando" /\ ciclo[r].resta # <<>> /\ ciclo[r].lida # 0

Upsert(r) ==
    /\ EsperaSnapshot(r)
    /\ ~SnapshotTravado(Head(ciclo[r].resta))
    /\ ciclo' = [ciclo EXCEPT
           ![r].escrito[Head(ciclo[r].resta)] = ciclo[r].lida,
           ![r].lida = 0,
           ![r].resta = Tail(@)]
    /\ UNCHANGED <<lotes, vigente, apurado, carteira, carga, falhas>>

\* Mutant: the cycle does not go past the job it has just ended.
ProximoMesmo(r) == [Parado EXCEPT !.fase = "ciclo", !.pendentes = ciclo[r].pendentes]

\* The end of a job: the next one of the list, or the end of the cycle.
Proximo(r) ==
    IF Len(ciclo[r].pendentes) = 1 THEN Parado
    ELSE [Parado EXCEPT !.fase = "ciclo", !.pendentes = Tail(ciclo[r].pendentes)]

Concluir(r) ==
    /\ ciclo[r].fase = "executando"
    /\ ciclo[r].resta = <<>>
    /\ lotes' = ComStatus(Head(ciclo[r].pendentes), "concluido")
    /\ carteira' = [e \in Entes |-> IF TravaDe(r, e) THEN ciclo[r].escrito[e]
                                                      ELSE carteira[e]]
    /\ ciclo' = [ciclo EXCEPT ![r] = Proximo(r)]
    /\ UNCHANGED <<vigente, apurado, carga, falhas>>

\* Any exception: the transaction is rolled back and _marcar_falha closes the
\* job in a session of its own, whatever the row says by then.
Falhar(r) ==
    /\ falhas < MaxFalhas
    /\ ciclo[r].fase = "executando"
    /\ falhas' = falhas + 1
    /\ ciclo' = [ciclo EXCEPT ![r] = [Parado EXCEPT
           !.fase = "falhou", !.pendentes = ciclo[r].pendentes]]
    /\ UNCHANGED <<lotes, vigente, apurado, carteira, carga>>

MarcarFalha(r) ==
    /\ ciclo[r].fase = "falhou"
    /\ ~LoteTravado(Head(ciclo[r].pendentes))
    /\ lotes' = ComStatus(Head(ciclo[r].pendentes), "falhou")
    /\ ciclo' = [ciclo EXCEPT ![r] = Proximo(r)]
    /\ UNCHANGED <<vigente, apurado, carteira, carga, falhas>>

\* The process dies, or _marcar_falha raises and the exception ends the cycle.
Interromper(r) ==
    /\ falhas < MaxFalhas
    /\ ciclo[r].fase # "parado"
    /\ falhas' = falhas + 1
    /\ ciclo' = [ciclo EXCEPT ![r] = Parado]
    /\ UNCHANGED <<lotes, vigente, apurado, carteira, carga>>

CicloStep(r) ==
    \/ ListarPendentes(r)
    \/ Comecar(r)
    \/ ResolverVersao(r)
    \/ Upsert(r)
    \/ Concluir(r)
    \/ MarcarFalha(r)

CargaStep(e) == GravarSnapshot(e) \/ ConfirmarCarga(e)

NextCarteira ==
    \/ \E l \in Lotes, s \in EscoposOrdenados : EnfileirarRefresh(l, s)
    \/ \E e \in Entes : NovaEntrega(e) \/ CargaStep(e)
    \/ \E r \in Relogios : CicloStep(r) \/ Falhar(r) \/ Interromper(r)

SpecCarteira == InitCarteira /\ [][NextCarteira]_carteiraVars

\* The periodic task calls the cycle again, and a load that committed its
\* delivery materialises it.
FairnessCarteira ==
    /\ \A r \in Relogios : WF_carteiraVars(CicloStep(r))
    /\ \A e \in Entes : WF_carteiraVars(CargaStep(e))

-----------------------------------------------------------------------------
(* Properties *)

\* No two clocks wait for each other: each holds the rows it wrote and waits
\* for one the other wrote.  Two jobs share entities and are executed at once;
\* what avoids the deadlock is that enfileirar_refresh sorts the entities.
EsperaPor(r, q) ==
    /\ r # q
    /\ EsperaSnapshot(r)
    /\ TravaDe(q, Head(ciclo[r].resta))
SemEsperaCircular ==
    \A r, q \in Relogios : ~(EsperaPor(r, q) /\ EsperaPor(q, r))

\* A snapshot shows a delivery whose indicators are committed, never one whose
\* materialisation was rolled back or is still under way, though the refresh
\* of a portfolio and the end of a load write the same rows.
SnapshotApurado ==
    \A e \in Entes : carteira[e] \in apurado[e] \cup {0}

\* A job that was accepted is executed or marked as failed: no failure, no
\* death of a clock and no other clock leaves it in the queue for good.
LoteTermina ==
    \A l \in Lotes :
        Existe(l) ~> (Existe(l) /\ lotes[Linha(l)].status \in Terminal)

=============================================================================
