------------------------------ MODULE Entrega ------------------------------
(***************************************************************************)
(* The medallion sink: what one transaction of ingestion writes in bronze, *)
(* gold.dim_entrega and silver for each key, which delivery of a key is in *)
(* force and what as_of answers (shared/ingestion/base.py,                 *)
(* modules/ingestion/repository.py and service.py).                        *)
(*                                                                         *)
(* A transaction is one unit of a job, a scan for retifications or a       *)
(* replay.  It is READ COMMITTED: a statement sees the committed rows and  *)
(* the transaction's own.  Which version a connector gives a payload (a    *)
(* fixed one, a checksum, a date) and what a payload says are choices.     *)
(***************************************************************************)
EXTENDS Integers, FiniteSets

CONSTANTS
    Chaves,        \* the (cod_ibge, relatorio, periodo) of one source
    Versoes,       \* versao_entrega
    Conteudos,     \* payloads
    Vazio,         \* the payload of a source that has published nothing
    ComLinhas,     \* payloads from which the connector derives rows
    Cargas,        \* transactions in flight
    Nada,          \* no row
    MaxInstante,   \* bound: instants of the clock
    MaxCargas,     \* bound: transactions in a behaviour
    MaxUnidades    \* bound: (key, version) pairs a transaction goes through

ASSUME ConstantsAssumption ==
    /\ Vazio \in Conteudos
    /\ ComLinhas \in SUBSET (Conteudos \ {Vazio})
    /\ Nada \notin Conteudos
    /\ Nada \notin Versoes /\ Nada \notin Chaves /\ Nada \notin Cargas
    /\ Nada \notin [homologada: Nat \ {0}, vigente: BOOLEAN]
    /\ MaxInstante \in Nat
    /\ MaxCargas \in Nat
    /\ MaxUnidades \in Nat

VARIABLES
    bronze,    \* committed bronze.raw_payload
    entregas,  \* committed gold.dim_entrega
    silver,    \* committed silver rows of a version, as the payload they come from;
               \* Vazio when to_silver has run and gave none
    tx,        \* what each transaction is doing and what only it can see
    trava,     \* who holds pg_advisory_xact_lock of each key
    relogio,   \* datetime.now
    cargas     \* transactions so far

vars == <<bronze, entregas, silver, tx, trava, relogio, cargas>>

Linha == [homologada: Nat \ {0}, vigente: BOOLEAN]
SemLinhas == [k \in Chaves |-> [v \in Versoes |-> Nada]]
Tabela(S) == [Chaves -> [Versoes -> S \cup {Nada}]]

Transacao ==
    [pc: {"livre", "aberta", "extraida", "bronze", "replay"},
     chave: Chaves \cup {Nada}, versao: Versoes \cup {Nada},
     conteudo: Conteudos \cup {Nada}, novo: BOOLEAN, pend: SUBSET Versoes,
     feitas: SUBSET (Chaves \X Versoes),
     bronze: Tabela(Conteudos), entregas: Tabela(Linha),
     silver: Tabela(Conteudos)]

Repouso ==
    [pc |-> "livre", chave |-> Nada, versao |-> Nada, conteudo |-> Nada,
     novo |-> FALSE, pend |-> {}, feitas |-> {}, bronze |-> SemLinhas,
     entregas |-> SemLinhas, silver |-> SemLinhas]

Init ==
    /\ bronze = SemLinhas /\ entregas = SemLinhas /\ silver = SemLinhas
    /\ tx = [t \in Cargas |-> Repouso]
    /\ trava = [k \in Chaves |-> Nada]
    /\ relogio = 1
    /\ cargas = 0

-----------------------------------------------------------------------------
(* What a statement of t reads: its own rows over the committed ones. *)
Sobre(proprias, publicas) ==
    [v \in Versoes |-> IF proprias[v] # Nada THEN proprias[v] ELSE publicas[v]]

BronzeDe(t, k) == Sobre(tx[t].bronze[k], bronze[k])
EntregasDe(t, k) == Sobre(tx[t].entregas[k], entregas[k])

Registradas(r) == {v \in Versoes : r[v] # Nada}
Vigentes(r) == {v \in Registradas(r) : r[v].vigente}

\* Mutant: the delivery registered last is always the one in force.
TornaVigenteSempre(r, h) == TRUE

\* A delivery takes force unless one homologated later is registered.
TornaVigente(r, h) == \A v \in Registradas(r) : h >= r[v].homologada

\* register_entrega on the rows r of a key: a known version changes nothing.
ComEntrega(r, v, h) ==
    IF r[v] # Nada THEN r
    ELSE [u \in Versoes |->
            IF u = v THEN [homologada |-> h, vigente |-> TornaVigente(r, h)]
            ELSE IF r[u] # Nada /\ TornaVigente(r, h)
                 THEN [homologada |-> r[u].homologada, vigente |-> FALSE]
                 ELSE r[u]]

\* The rows t has written once it takes r from a read of q.
Escritas(t, k, q, r) ==
    [v \in Versoes |-> IF r[v] # q[v] THEN r[v] ELSE tx[t].entregas[k][v]]

\* t is between two keys, with what it has written.
EntreChaves(x) ==
    [Repouso EXCEPT !.pc = "aberta", !.feitas = x.feitas, !.bronze = x.bronze,
                    !.entregas = x.entregas, !.silver = x.silver]

-----------------------------------------------------------------------------
(* Locks. *)

\* Another transaction inserted the same bronze row and has not ended: the
\* ON CONFLICT of t waits for it.
EsperaBronze(t) ==
    {u \in Cargas \ {t} : tx[u].bronze[tx[t].chave][tx[t].versao] # Nada}

\* Mutant: the decision is taken without the advisory lock.
SemTrava(t, k) == TRUE

\* The advisory lock of k is free, or t's already.
TravaLivre(t, k) == trava[k] \in {Nada, t}

EsperaTrava(t) ==
    IF TravaLivre(t, tx[t].chave) THEN {} ELSE {trava[tx[t].chave]}

\* Mutant: a lock of the session, which the end of the transaction leaves.
SoltarDaSessao(t) == trava

\* A lock of the transaction.
Soltar(t) == [k \in Chaves |-> IF trava[k] = t THEN Nada ELSE trava[k]]

\* Who t waits for at the step it is at.
Espera(t) ==
    CASE tx[t].pc = "extraida" -> EsperaBronze(t)
      [] tx[t].pc \in {"bronze", "replay"} -> EsperaTrava(t)
      [] OTHER -> {}

\* t waits for itself through the others.
EmImpasse(t) ==
    \E S \in SUBSET Cargas :
        t \in S /\ \A u \in S : tx[u].pc # "livre" /\ Espera(u) \cap S # {}

-----------------------------------------------------------------------------
(* A transaction, key by key. *)

Iniciar(t) ==
    /\ tx[t].pc = "livre"
    /\ cargas < MaxCargas
    /\ cargas' = cargas + 1
    /\ tx' = [tx EXCEPT ![t] = [Repouso EXCEPT !.pc = "aberta"]]
    /\ UNCHANGED <<bronze, entregas, silver, trava, relogio>>

\* Mutant: an empty payload is taken for a delivery.
PayloadVazioNunca(c) == FALSE

PayloadVazio(c) == c = Vazio

\* run: prepare and the guard of the empty payload.
Extrair(t, k, v, c) ==
    /\ tx[t].pc = "aberta"
    /\ <<k, v>> \notin tx[t].feitas
    /\ Cardinality(tx[t].feitas) < MaxUnidades
    /\ ~PayloadVazio(c)
    /\ tx' = [tx EXCEPT ![t] =
                [tx[t] EXCEPT !.pc = "extraida", !.chave = k, !.versao = v,
                              !.conteudo = c,
                              !.feitas = tx[t].feitas \cup {<<k, v>>}]]
    /\ UNCHANGED <<bronze, entregas, silver, trava, relogio, cargas>>

\* varrer_retificacoes: an event of the extract with no delivery yet.
ExtrairRetificacao(t, k, v, c) ==
    /\ EntregasDe(t, k)[v] = Nada
    /\ Extrair(t, k, v, c)

\* Mutant: the payload is written over the one of the same key.
BronzeAtualizado(t) == [tx[t].bronze EXCEPT ![tx[t].chave][tx[t].versao] = tx[t].conteudo]

\* upsert_bronze: the insert does nothing when the row is there.
BronzeInserido(t) ==
    IF BronzeDe(t, tx[t].chave)[tx[t].versao] = Nada
    THEN [tx[t].bronze EXCEPT ![tx[t].chave][tx[t].versao] = tx[t].conteudo]
    ELSE tx[t].bronze

ToBronze(t) ==
    /\ tx[t].pc = "extraida"
    /\ EsperaBronze(t) = {}
    /\ tx' = [tx EXCEPT ![t] =
                [tx[t] EXCEPT !.pc = "bronze",
                              !.novo = BronzeDe(t, tx[t].chave)[tx[t].versao] = Nada,
                              !.bronze = BronzeInserido(t)]]
    /\ UNCHANGED <<bronze, entregas, silver, trava, relogio, cargas>>

\* The silver of a payload already stored is not written again, unless the
\* caller forces it.
RefazSilver(x, force) == x.novo \/ force

\* homologada_em of the delivery: the one of the job, or now when it has none.
Carimbo(h) == IF h = 0 THEN relogio ELSE h

\* to_silver: a payload that is not empty may give no row, when what its items
\* say is missing, unknown or not of that version.
ToSilver(c) == IF c \in ComLinhas THEN c ELSE Vazio

\* What t keeps once it registered v of k, homologated at h, and its silver
\* rows are s.
ComRegistro(t, x, k, v, h, s) ==
    LET q == EntregasDe(t, k)
    IN [x EXCEPT !.entregas[k] = Escritas(t, k, q, ComEntrega(q, v, h)),
                 !.silver[k][v] = s]

\* register_entrega, under the lock, and to_silver.
RegisterEntrega(t, x, k, v, h, s) ==
    /\ TravaLivre(t, k)
    /\ trava' = [trava EXCEPT ![k] = t]
    /\ tx' = [tx EXCEPT ![t] = ComRegistro(t, x, k, v, h, s)]
    /\ UNCHANGED <<bronze, entregas, silver, relogio, cargas>>

\* run: the delivery of the payload t extracted, in force before anybody knows
\* whether the payload has rows.
Registrar(t, h, force) ==
    LET k == tx[t].chave
        v == tx[t].versao
    IN /\ tx[t].pc = "bronze"
       /\ RegisterEntrega(t, EntreChaves(tx[t]), k, v, Carimbo(h),
                          IF RefazSilver(tx[t], force) THEN ToSilver(tx[t].conteudo)
                          ELSE tx[t].silver[k][v])

\* replay: the versions in bronze are listed once...
ListarBronze(t, k) ==
    /\ tx[t].pc = "aberta"
    /\ \A v \in Versoes : <<k, v>> \notin tx[t].feitas
    /\ Registradas(BronzeDe(t, k)) # {}
    /\ Cardinality(tx[t].feitas) < MaxUnidades
    /\ tx' = [tx EXCEPT ![t] =
                [tx[t] EXCEPT !.pc = "replay", !.chave = k,
                              !.pend = Registradas(BronzeDe(t, k)),
                              !.feitas = tx[t].feitas \cup ({k} \X Versoes)]]
    /\ UNCHANGED <<bronze, entregas, silver, trava, relogio, cargas>>

\* A replay done with a version, and with the key after the last one.
SemPendente(x, v) ==
    IF x.pend = {v} THEN EntreChaves(x) ELSE [x EXCEPT !.pend = x.pend \ {v}]

\* ... and each is registered and written to silver again.
Replay(t, v) ==
    LET k == tx[t].chave
    IN /\ tx[t].pc = "replay"
       /\ v \in tx[t].pend
       /\ RegisterEntrega(t, SemPendente(tx[t], v), k, v, Carimbo(0),
                          ToSilver(BronzeDe(t, k)[v]))

Publicadas(proprias, publicas) ==
    [k \in Chaves |-> Sobre(proprias[k], publicas[k])]

Commit(t) ==
    /\ tx[t].pc = "aberta"
    /\ bronze' = Publicadas(tx[t].bronze, bronze)
    /\ entregas' = Publicadas(tx[t].entregas, entregas)
    /\ silver' = Publicadas(tx[t].silver, silver)
    /\ trava' = Soltar(t)
    /\ tx' = [tx EXCEPT ![t] = Repouso]
    /\ UNCHANGED <<relogio, cargas>>

\* An exception in a unit, or the death of its process.
Rollback(t) ==
    /\ tx[t].pc # "livre"
    /\ trava' = Soltar(t)
    /\ tx' = [tx EXCEPT ![t] = Repouso]
    /\ UNCHANGED <<bronze, entregas, silver, relogio, cargas>>

\* PostgreSQL rolls back one transaction of a cycle of waits.
Impasse(t) == EmImpasse(t) /\ Rollback(t)

Tempo ==
    /\ relogio < MaxInstante
    /\ relogio' = relogio + 1
    /\ UNCHANGED <<bronze, entregas, silver, tx, trava, cargas>>

-----------------------------------------------------------------------------
Extracao(t) ==
    \E k \in Chaves, v \in Versoes, c \in Conteudos :
        Extrair(t, k, v, c) \/ ExtrairRetificacao(t, k, v, c)

Avanca(t) ==
    \/ Extracao(t)
    \/ \E k \in Chaves : ListarBronze(t, k)
    \/ ToBronze(t)
    \/ \E h \in 0 .. relogio, force \in BOOLEAN : Registrar(t, h, force)
    \/ \E v \in Versoes : Replay(t, v)
    \/ Commit(t)

Next ==
    \/ \E t \in Cargas : Iniciar(t) \/ Avanca(t) \/ Rollback(t) \/ Impasse(t)
    \/ Tempo

Spec == Init /\ [][Next]_vars

\* A unit runs to its end unless it waits, and a cycle of waits is broken.
Fairness == \A t \in Cargas : WF_vars(Avanca(t)) /\ WF_vars(Impasse(t))

FairSpec == Spec /\ Fairness

-----------------------------------------------------------------------------
TypeOK ==
    /\ bronze \in Tabela(Conteudos)
    /\ entregas \in Tabela(Linha)
    /\ silver \in Tabela(Conteudos)
    /\ tx \in [Cargas -> Transacao]
    /\ trava \in [Chaves -> Cargas \cup {Nada}]
    /\ relogio \in Nat /\ cargas \in Nat

\* A key with deliveries has exactly one in force, whoever registers others at
\* the same time (repository.py, 53-55).
VigenteUnica ==
    \A k \in Chaves : Registradas(entregas[k]) # {} =>
        \E v \in Versoes : Vigentes(entregas[k]) = {v}

\* The delivery in force is the one homologated last, in whatever order the
\* versions arrive (repository.py, 79).
VigenteMaisRecente ==
    \A k \in Chaves : \A v \in Vigentes(entregas[k]), u \in Registradas(entregas[k]) :
        entregas[k][v].homologada >= entregas[k][u].homologada

\* A delivery has its payload and to_silver has run over one: none is registered
\* for a payload that says nothing, nor left by a unit that stopped between the
\* two layers, whoever inserted the payload (base.py, 156-157, 178-183).  Whether
\* the rows are any is what ToSilver says.
EntregaMaterializada ==
    \A k \in Chaves : \A v \in Registradas(entregas[k]) :
        /\ bronze[k][v] \notin {Nada, Vazio}
        /\ silver[k][v] \in {ToSilver(c) : c \in Conteudos \ {Vazio}}

\* What the history kept is never lost: a payload stays the one received and a
\* delivery keeps its homologation (docs/arquitetura-dados-e-ingestao.md, 79-81).
\* Silver rows are derived, and a forced run writes them again.
HistoricoPreservado ==
    [][\A k \in Chaves, v \in Versoes :
         /\ bronze[k][v] # Nada => bronze'[k][v] = bronze[k][v]
         /\ entregas[k][v] # Nada =>
              /\ entregas'[k][v] # Nada
              /\ entregas'[k][v].homologada = entregas[k][v].homologada]_vars

\* What is committed of a key: each version as it was received, and the ones in
\* force.
Historia ==
    [k \in Chaves |->
        {[versao |-> v, conteudo |-> bronze[k][v], homologada |-> entregas[k][v].homologada] :
            v \in Registradas(entregas[k])}]
Vigor == [k \in Chaves |-> Vigentes(entregas[k])]

Hist == INSTANCE Historico WITH
    Conteudos <- Conteudos \ {Vazio}, historia <- Historia, vigor <- Vigor

\* Seen from a key the sink only appends to its history, and the version in force
\* is the one homologated last: it changes only for one that was just published
\* (docs/arquitetura-dados-e-ingestao.md, 79-81; repository.py, 77-94).
ImplementaHistorico == Hist!Spec

\* A transaction ends, in whatever order it takes the locks of its keys.
CargaTermina == \A t \in Cargas : tx[t].pc # "livre" ~> tx[t].pc = "livre"

-----------------------------------------------------------------------------
(* What the documentation says of the sink and the code does not do. *)

\* resolve_versao with as_of: the versions the query may answer with.
Resolve(r, i) ==
    {v \in Registradas(r) :
        /\ r[v].homologada =< i
        /\ \A u \in Registradas(r) :
             r[u].homologada =< i => r[u].homologada =< r[v].homologada}

\* What as_of answers about a past instant it goes on answering: the version
\* that was in force then (docs/arquitetura-dados-e-ingestao.md, 312-314).
AsOfReproduz ==
    [][\A k \in Chaves, i \in 1 .. relogio - 1 :
         Resolve(entregas[k], i) \subseteq Resolve(entregas'[k], i)]_vars

\* The silver step is skipped only for the payload already stored
\* (docs/arquitetura-dados-e-ingestao.md, 109-113).
PulaSoConteudoIgual ==
    \A t \in Cargas :
        tx[t].pc = "bronze" /\ ~RefazSilver(tx[t], FALSE) =>
            BronzeDe(t, tx[t].chave)[tx[t].versao] = tx[t].conteudo
=============================================================================
