------------------------------- MODULE Grade --------------------------------
(***************************************************************************)
(* The cached pages of the portfolio grid (dashboard/carteira_service.py,  *)
(* list_entes).  A page is kept in the memory of the process under a key   *)
(* made of who asks and of what the data looked like: how many snapshots   *)
(* there are and the newest atualizado_em.  PostgreSQL stamps a row with   *)
(* the start of the transaction that wrote it, so a commit may leave the   *)
(* newest stamp where it was and the key the same.                         *)
(*                                                                         *)
(* What a page shows is the state of the snapshots, which each commit      *)
(* renews: generations are numbered in order.  Every organisation follows  *)
(* the same entities, so that only the key tells their pages apart.        *)
(***************************************************************************)
EXTENDS Integers, FiniteSets, Sequences

CONSTANTS
    Orgs,          \* organisations that read the grid
    Leitores,      \* requests to the grid
    Escritores,    \* transactions that write snapshots
    Linhas,        \* rows of gold.mart_carteira
    Ttl,           \* _ENTES_CACHE_TTL_SECONDS
    MaxEntradas,   \* _ENTES_CACHE_MAX_ENTRIES
    DuracaoMax,    \* bound: instants a request takes, from start to answer
    MaxGeracoes,   \* bound: commits
    MaxInstantes   \* bound: instants of the clock

ASSUME GradeAssumption ==
    /\ Ttl \in Nat /\ DuracaoMax \in Nat /\ MaxInstantes \in Nat
    /\ MaxEntradas \in Nat \ {0} /\ MaxGeracoes \in Nat
    /\ Orgs # {} /\ Linhas # {} /\ IsFiniteSet(Linhas)

VARIABLES
    instante,  \* time.monotonic and now()
    marcas,    \* atualizado_em of each committed row, -1 when there is none
    geracao,   \* generation in force
    fim,       \* history: instant at which each earlier generation ended
    escrita,   \* the writing transactions
    leitura,   \* what each request is doing
    paginas    \* _entes_cache, least recently used first

gradeVars == <<instante, marcas, geracao, fim, escrita, leitura, paginas>>

Instantes == 0..MaxInstantes
Geracoes == 0..MaxGeracoes
Marca == Instantes \cup {-1}

Chave == [org: Orgs, linhas: 0..Cardinality(Linhas), ultima: Marca]
Entrada == [chave: Chave, geracao: Geracoes, guardada: Instantes]
Leitura == [fase: {"livre", "identificada", "sem_cache", "lida", "servida"},
            inicio: Instantes, chave: Chave, geracao: Geracoes]
Escrita == [fase: {"livre", "aberta"}, inicio: Instantes, linha: Linhas]

UmaOrg == CHOOSE o \in Orgs : TRUE
Fechada == [fase |-> "livre", inicio |-> 0, linha |-> CHOOSE l \in Linhas : TRUE]
Livre == [fase |-> "livre", inicio |-> 0, geracao |-> 0,
          chave |-> [org |-> UmaOrg, linhas |-> 0, ultima |-> -1]]

\* Type invariant of the grid and its cache, which never holds more than
\* _ENTES_CACHE_MAX_ENTRIES pages.
TypeOKGrade ==
    /\ instante \in Instantes
    /\ marcas \in [Linhas -> Marca]
    /\ geracao \in Geracoes
    /\ fim \in [Geracoes -> Instantes]
    /\ escrita \in [Escritores -> Escrita]
    /\ leitura \in [Leitores -> Leitura]
    /\ paginas \in Seq(Entrada)
    /\ Len(paginas) <= MaxEntradas

InitGrade ==
    /\ instante = 0
    /\ marcas = [l \in Linhas |-> -1]
    /\ geracao = 0
    /\ fim = [g \in Geracoes |-> 0]
    /\ escrita = [w \in Escritores |-> Fechada]
    /\ leitura = [t \in Leitores |-> Livre]
    /\ paginas = <<>>

-----------------------------------------------------------------------------
(* Writers: the refresh of a portfolio, the end of a load *)

AbrirEscrita(w, l) ==
    /\ escrita[w].fase = "livre"
    /\ escrita' = [escrita EXCEPT ![w] = [fase |-> "aberta", inicio |-> instante,
                                          linha |-> l]]
    /\ UNCHANGED <<instante, marcas, geracao, fim, leitura, paginas>>

\* upsert_mart_carteira and the commit: func.now() is the start of the
\* transaction, not the instant of the commit.
ConfirmarEscrita(w) ==
    /\ escrita[w].fase = "aberta"
    /\ geracao < MaxGeracoes
    /\ marcas' = [marcas EXCEPT ![escrita[w].linha] = escrita[w].inicio]
    /\ geracao' = geracao + 1
    /\ fim' = [fim EXCEPT ![geracao] = instante]
    /\ escrita' = [escrita EXCEPT ![w] = Fechada]
    /\ UNCHANGED <<instante, leitura, paginas>>

-----------------------------------------------------------------------------
(* list_entes *)

\* mart_scope_identity: count(*) and max(atualizado_em).
Gravadas == {l \in Linhas : marcas[l] # -1}
Ultima == IF Gravadas = {} THEN -1
          ELSE marcas[CHOOSE l \in Gravadas : \A k \in Gravadas : marcas[k] <= marcas[l]]
ChaveDe(o) == [org |-> o, linhas |-> Cardinality(Gravadas), ultima |-> Ultima]

Identificar(t, o) ==
    /\ leitura[t].fase = "livre"
    /\ leitura' = [leitura EXCEPT ![t] =
           [fase |-> "identificada", inicio |-> instante, chave |-> ChaveDe(o),
            geracao |-> 0]]
    /\ UNCHANGED <<instante, marcas, geracao, fim, escrita, paginas>>

Posicao(c) == {i \in DOMAIN paginas : paginas[i].chave = c}

\* del: a key is there at most once.
Sem(c) ==
    IF Posicao(c) = {} THEN paginas
    ELSE LET i == CHOOSE i \in Posicao(c) : TRUE
         IN [k \in 1..(Len(paginas) - 1) |-> paginas[IF k < i THEN k ELSE k + 1]]

\* Mutant: an entry is served as long as its key is asked for.
VencidaNunca(p) == FALSE

\* An entry lives _ENTES_CACHE_TTL_SECONDS.
Vencida(p) == instante - p.guardada > Ttl

\* _entes_cache_get, under the lock of the cache.
Acertar(t) ==
    /\ leitura[t].fase = "identificada"
    /\ \E i \in Posicao(leitura[t].chave) :
         /\ ~Vencida(paginas[i])
         /\ paginas' = Append(Sem(leitura[t].chave), paginas[i])
         /\ leitura' = [leitura EXCEPT ![t] =
                [fase |-> "servida", inicio |-> leitura[t].inicio,
                 chave |-> leitura[t].chave, geracao |-> paginas[i].geracao]]
    /\ UNCHANGED <<instante, marcas, geracao, fim, escrita>>

Errar(t) ==
    /\ leitura[t].fase = "identificada"
    /\ \A i \in Posicao(leitura[t].chave) : Vencida(paginas[i])
    /\ paginas' = Sem(leitura[t].chave)
    /\ leitura' = [leitura EXCEPT ![t].fase = "sem_cache"]
    /\ UNCHANGED <<instante, marcas, geracao, fim, escrita>>

LerPagina(t) ==
    /\ leitura[t].fase = "sem_cache"
    /\ leitura' = [leitura EXCEPT ![t].fase = "lida", ![t].geracao = geracao]
    /\ UNCHANGED <<instante, marcas, geracao, fim, escrita, paginas>>

\* Mutant: the cache is pruned before the new page is in it.
ExcedeAntes(fila) == Len(fila) - 1 > MaxEntradas

Excede(fila) == Len(fila) > MaxEntradas

\* _entes_cache_put: the page goes last and the least recently used leaves.
Guardar(t) ==
    /\ leitura[t].fase = "lida"
    /\ LET nova == [chave |-> leitura[t].chave, geracao |-> leitura[t].geracao,
                    guardada |-> instante]
           todas == Append(Sem(leitura[t].chave), nova)
       IN  paginas' = IF Excede(todas) THEN Tail(todas) ELSE todas
    /\ leitura' = [leitura EXCEPT ![t].fase = "servida"]
    /\ UNCHANGED <<instante, marcas, geracao, fim, escrita>>

Responder(t) ==
    /\ leitura[t].fase = "servida"
    /\ leitura' = [leitura EXCEPT ![t] = Livre]
    /\ UNCHANGED <<instante, marcas, geracao, fim, escrita, paginas>>

\* Time passes; a page is judged at the instant it is served, and a request is
\* answered within DuracaoMax.
Instante ==
    /\ instante < MaxInstantes
    /\ \A t \in Leitores :
         /\ leitura[t].fase # "servida"
         /\ leitura[t].fase = "livre" \/ instante - leitura[t].inicio < DuracaoMax
    /\ instante' = instante + 1
    /\ UNCHANGED <<marcas, geracao, fim, escrita, leitura, paginas>>

NextGrade ==
    \/ \E w \in Escritores : ConfirmarEscrita(w) \/ \E l \in Linhas : AbrirEscrita(w, l)
    \/ \E t \in Leitores, o \in Orgs : Identificar(t, o)
    \/ \E t \in Leitores : \/ Acertar(t) \/ Errar(t) \/ LerPagina(t)
                           \/ Guardar(t) \/ Responder(t)
    \/ Instante

SpecGrade == InitGrade /\ [][NextGrade]_gradeVars

-----------------------------------------------------------------------------
(* Properties *)

RecenteEm(g, i) == g = geracao \/ fim[g] >= i

\* A page served was true less than the life of an entry and of one request
\* ago, although commits may leave its key the same, a slow request may store
\* under an old key what it read later, and a page is stored after it is read.
PaginaRecente ==
    \A t \in Leitores :
        leitura[t].fase = "servida" =>
            RecenteEm(leitura[t].geracao, instante - (Ttl + DuracaoMax))

=============================================================================
