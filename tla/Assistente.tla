----------------------------- MODULE Assistente -----------------------------
(***************************************************************************)
(* A question to the assistant (assistant/service.py, agente.py,           *)
(* repository.py, shared/tooling/envelope.py): the conversation taken up,  *)
(* the facts of the entity, the loop of tools the model may ask for, what  *)
(* grounds the answer, and the rows that are left: the conversation in the *)
(* transaction of the request, the audit of each call in one of its own.   *)
(*                                                                         *)
(* The model is external: it asks for tools or answers as it likes.  A     *)
(* fact is the version of the delivery it comes from; versions of an       *)
(* entity are numbered, and an explicit as_of is the version it shows.     *)
(***************************************************************************)
EXTENDS Integers, Sequences, FiniteSets

CONSTANTS
    Perguntas,     \* requests, each of which may come again
    EntesIA,       \* entities
    Cortes,        \* explicit cuts that are asked for, and 0 for none
    NenhumEnte,    \* a question that names no entity
    MaxTurnos,     \* MAX_TURNOS_CONTEXTO
    MaxPassos,     \* max_passos
    MaxVersaoIA,   \* bound: versions of a delivery
    MaxConversas,  \* bound: conversations committed
    MaxAuditorias, \* bound: audit rows
    MaxEscopoIA    \* bound: changes of scope

ASSUME AssistenteAssumption ==
    /\ NenhumEnte \notin EntesIA
    /\ Cortes \subseteq Nat /\ 0 \in Cortes
    /\ MaxTurnos \in Nat \ {0} /\ MaxPassos \in Nat \ {0} /\ MaxVersaoIA \in Nat \ {0}
    /\ MaxConversas \in Nat /\ MaxAuditorias \in Nat /\ MaxEscopoIA \in Nat

VARIABLES
    versaoIA,  \* version in force of each entity
    escopoIA,  \* entities the user may see
    conversas, \* committed rows of op.conversa
    auditoria, \* committed rows of op.ia_tool_call: the conversation, 0 for none
    pergunta,  \* what each request is doing
    mexeu      \* changes of scope so far

assistenteVars == <<versaoIA, escopoIA, conversas, auditoria, pergunta, mexeu>>

VersoesIA == 1..MaxVersaoIA
Fatos == [ente: EntesIA, versao: VersoesIA]

\* contexto: entities of the turns the model is given; lastro: facts of earlier
\* turns that ground the answer; inicio, permitido: history, the version in force
\* and the scope when the request began.
Conversa == [ente: EntesIA \cup {NenhumEnte}, pai: 0..MaxConversas, fatos: SUBSET Fatos, corte: Cortes,
             chamadas: SUBSET (1..MaxAuditorias)]
Pergunta == [fase: {"livre", "aceita", "modelo", "executou", "redigiu", "verificada"},
             passo: 0..MaxPassos, conversa: Conversa, contexto: SUBSET EntesIA,
             anteriores: SUBSET Fatos, lastro: SUBSET Fatos,
             inicio: VersoesIA, permitido: SUBSET EntesIA]

Vazia == [ente |-> NenhumEnte, pai |-> 0, fatos |-> {}, corte |-> 0,
          chamadas |-> {}]
PerguntaLivre == [fase |-> "livre", passo |-> 0, conversa |-> Vazia, contexto |-> {},
                  anteriores |-> {}, lastro |-> {}, inicio |-> 1, permitido |-> {}]

\* Type invariant of the rows and the requests.
TypeOKAssistente ==
    /\ versaoIA \in [EntesIA -> VersoesIA]
    /\ escopoIA \subseteq EntesIA
    /\ conversas \in Seq(Conversa) /\ Len(conversas) <= MaxConversas
    /\ auditoria \in Seq(0..MaxConversas) /\ Len(auditoria) <= MaxAuditorias
    /\ pergunta \in [Perguntas -> Pergunta]
    /\ mexeu \in 0..MaxEscopoIA

InitAssistente ==
    /\ versaoIA = [e \in EntesIA |-> 1]
    /\ escopoIA = EntesIA
    /\ conversas = <<>> /\ auditoria = <<>>
    /\ pergunta = [q \in Perguntas |-> PerguntaLivre]
    /\ mexeu = 0

-----------------------------------------------------------------------------
(* The environment *)

Retificar(e) ==
    /\ versaoIA[e] < MaxVersaoIA
    /\ versaoIA' = [versaoIA EXCEPT ![e] = @ + 1]
    /\ UNCHANGED <<escopoIA, conversas, auditoria, pergunta, mexeu>>

MudarEscopo(e) ==
    /\ mexeu < MaxEscopoIA
    /\ mexeu' = mexeu + 1
    /\ escopoIA' = IF e \in escopoIA THEN escopoIA \ {e} ELSE escopoIA \cup {e}
    /\ UNCHANGED <<versaoIA, conversas, auditoria, pergunta>>

-----------------------------------------------------------------------------
(* _retomar and the gate *)

\* list_ancestrais_da_conversa: from the anchor up, at most MaxTurnos of them;
\* a branch opened from an earlier turn does not see its siblings.
Subida[n \in 0..MaxTurnos] ==
    [c \in 0..Len(conversas) |->
        IF c = 0 \/ n = 0 THEN {} ELSE {c} \cup Subida[n - 1][conversas[c].pai]]
Ancestrais(c) == Subida[MaxTurnos][c]

\* Each turn is judged by the scope of now, not by that of its time.
TurnoEmEscopo(c) == conversas[c].ente \in escopoIA
Turnos(c) == {a \in Ancestrais(c) : TurnoEmEscopo(a)}

\* The entity of the question, or the one of the anchor when it is in scope.
EntePedido(c, e) ==
    IF e # NenhumEnte THEN e
    ELSE IF c # 0 /\ c \in Turnos(c) THEN conversas[c].ente ELSE NenhumEnte
CortePedido(c, corte) ==
    IF corte # 0 \/ c = 0 \/ c \notin Turnos(c) THEN corte ELSE conversas[c].corte

Perguntar(q, c, e, corte) ==
    /\ pergunta[q].fase = "livre"
    /\ EntePedido(c, e) \in escopoIA
    /\ pergunta' = [pergunta EXCEPT ![q] =
           [PerguntaLivre EXCEPT
               !.fase = "aceita",
               !.anteriores = UNION {conversas[a].fatos : a \in Turnos(c)},
               !.contexto = {conversas[a].ente : a \in Turnos(c)},
               !.inicio = versaoIA[EntePedido(c, e)], !.permitido = escopoIA,
               !.conversa = [Vazia EXCEPT !.ente = EntePedido(c, e), !.pai = c,
                                          !.corte = CortePedido(c, corte)]]]
    /\ UNCHANGED <<versaoIA, escopoIA, conversas, auditoria, mexeu>>

\* What a query shows: at an explicit cut the version of then, and otherwise
\* one in force since the request began, for a delivery stamped before the
\* instant of the question may be committed after it.
Mostra(x, v) ==
    LET agora == versaoIA[x.conversa.ente] corte == x.conversa.corte IN
    IF corte # 0 THEN v = (IF corte < agora THEN corte ELSE agora)
    ELSE x.inicio <= v /\ v <= agora
Fato(x, v) == [ente |-> x.conversa.ente, versao |-> v]

\* build_context, which reads the report and may call a tool through the
\* envelope before the model does; with nothing to stand on the answer is a
\* refusal and the model is not called.
Fundamentar(q, v, porFerramenta) ==
    /\ pergunta[q].fase = "aceita"
    /\ Mostra(pergunta[q], v)
    /\ pergunta' = [pergunta EXCEPT
           ![q].fase = IF porFerramenta THEN "executou" ELSE "modelo",
           ![q].passo = IF porFerramenta THEN 0 ELSE 1,
           ![q].conversa.fatos = {Fato(pergunta[q], v)}]
    /\ UNCHANGED <<versaoIA, escopoIA, conversas, auditoria, mexeu>>

RecusarPergunta(q) ==
    /\ pergunta[q].fase = "aceita"
    /\ pergunta' = [pergunta EXCEPT ![q].fase = "redigiu"]
    /\ UNCHANGED <<versaoIA, escopoIA, conversas, auditoria, mexeu>>

-----------------------------------------------------------------------------
(* executar_laco and the envelope *)

\* The entity and the cut of a call are those of the answer, whatever the model
\* asked for.  The envelope judges the scope again, through what the session
\* may have memorised; a refusal is told to the model and grounds nothing.
ChamarFerramenta(q, v) ==
    /\ pergunta[q].fase = "modelo"
    /\ pergunta[q].conversa.ente \in escopoIA \cup pergunta[q].permitido
    /\ Mostra(pergunta[q], v)
    /\ pergunta' = [pergunta EXCEPT
           ![q].fase = "executou",
           ![q].conversa.fatos = @ \cup {Fato(pergunta[q], v)}]
    /\ UNCHANGED <<versaoIA, escopoIA, conversas, auditoria, mexeu>>

\* A call leaves its row and its id in the answer, and the model goes on.
ProximoPasso(x) == IF x.passo = MaxPassos THEN [x EXCEPT !.fase = "redigiu"]
                   ELSE [x EXCEPT !.fase = "modelo", !.passo = @ + 1]
ComRastro(x) == [x EXCEPT !.conversa.chamadas = @ \cup {Len(auditoria) + 1}]

\* A call that the envelope refuses is audited as well, as far as the database
\* allows: here a failure of the audit is tolerated.
FerramentaRecusada(q) ==
    /\ pergunta[q].fase = "modelo"
    /\ \/ /\ Len(auditoria) < MaxAuditorias
          /\ auditoria' = Append(auditoria, 0)
          /\ pergunta' = [pergunta EXCEPT ![q] = ComRastro(ProximoPasso(pergunta[q]))]
       \/ /\ UNCHANGED auditoria
          /\ pergunta' = [pergunta EXCEPT ![q] = ProximoPasso(pergunta[q])]
    /\ UNCHANGED <<versaoIA, escopoIA, conversas, mexeu>>

\* _auditar, in a session of its own, before the payload reaches the model;
\* with the ceiling of steps or of tokens the answer is put together from the
\* payloads.
Auditar(q) ==
    /\ pergunta[q].fase = "executou"
    /\ Len(auditoria) < MaxAuditorias
    /\ auditoria' = Append(auditoria, 0)
    /\ \/ pergunta' = [pergunta EXCEPT ![q] = ComRastro(ProximoPasso(pergunta[q]))]
       \/ /\ pergunta[q].passo > 0
          /\ pergunta' = [pergunta EXCEPT ![q] =
                 ComRastro([pergunta[q] EXCEPT !.fase = "redigiu"])]
    /\ UNCHANGED <<versaoIA, escopoIA, conversas, mexeu>>

Redigir(q) ==
    /\ pergunta[q].fase = "modelo"
    /\ pergunta' = [pergunta EXCEPT ![q].fase = "redigiu"]
    /\ UNCHANGED <<versaoIA, escopoIA, conversas, auditoria, mexeu>>

\* The provider, the audit of a success or the database fails: a rollback.
CairPergunta(q) ==
    /\ pergunta[q].fase # "livre"
    /\ pergunta' = [pergunta EXCEPT ![q] = PerguntaLivre]
    /\ UNCHANGED <<versaoIA, escopoIA, conversas, auditoria, mexeu>>

-----------------------------------------------------------------------------
(* _run, after the model *)

\* Mutant: the source of an earlier fact is not compared.
RederivadoPorEnte(anteriores, x) == {f \in anteriores : f.ente = x.ente}

\* _lastro_historico_rederivado: the same entity, and a source this request
\* has read again.
Rederivado(anteriores, x) ==
    {f \in anteriores : f.ente = x.ente /\ f.versao \in {g.versao : g \in x.fatos}}

Verificar(q) ==
    /\ pergunta[q].fase = "redigiu"
    /\ pergunta' = [pergunta EXCEPT
           ![q].fase = "verificada",
           ![q].lastro = Rederivado(pergunta[q].anteriores, pergunta[q].conversa)]
    /\ UNCHANGED <<versaoIA, escopoIA, conversas, auditoria, mexeu>>

\* Mutant: every call without a conversation is linked.
AssociaTodas(ids) ==
    [i \in DOMAIN auditoria |-> IF auditoria[i] = 0 THEN Len(conversas) + 1 ELSE auditoria[i]]

\* The row, the link of its calls and the commit of the request.
Associa(ids) ==
    [i \in DOMAIN auditoria |-> IF i \in ids THEN Len(conversas) + 1 ELSE auditoria[i]]

Persistir(q) ==
    /\ pergunta[q].fase = "verificada"
    /\ Len(conversas) < MaxConversas
    /\ conversas' = Append(conversas, pergunta[q].conversa)
    /\ auditoria' = Associa(pergunta[q].conversa.chamadas)
    /\ pergunta' = [pergunta EXCEPT ![q] = PerguntaLivre]
    /\ UNCHANGED <<versaoIA, escopoIA, mexeu>>

NextAssistente ==
    \/ \E e \in EntesIA : Retificar(e) \/ MudarEscopo(e)
    \/ \E q \in Perguntas :
         \/ \E c \in 0..Len(conversas), e \in EntesIA \cup {NenhumEnte}, k \in Cortes :
              Perguntar(q, c, e, k)
         \/ \E v \in VersoesIA :
              \/ \E porFerramenta \in BOOLEAN : Fundamentar(q, v, porFerramenta)
              \/ ChamarFerramenta(q, v)
         \/ RecusarPergunta(q) \/ FerramentaRecusada(q) \/ Auditar(q)
         \/ Redigir(q) \/ Verificar(q) \/ Persistir(q) \/ CairPergunta(q)

SpecAssistente == InitAssistente /\ [][NextAssistente]_assistenteVars

-----------------------------------------------------------------------------
(* Properties *)

\* A conversation carries a subject, not a permission nor a number: what it
\* brings back from earlier turns is of entities the user may see now, and what
\* it brings back as evidence is of the entity of the answer and of a version
\* that was not superseded when the question came, unless the cut asks for it.
RetomadaSegura ==
    \A q \in Perguntas :
        LET p == pergunta[q] IN
        p.fase = "verificada" =>
            /\ {p.conversa.ente} \cup p.contexto \subseteq p.permitido
            /\ \A f \in p.lastro :
                 /\ f.ente = p.conversa.ente
                 /\ p.conversa.corte = 0 => f.versao >= p.inicio

\* The trail of the calls: what the model received has its row, whether the
\* request is committed or not; the rows of an answer name it, and those of a
\* request that was rolled back name none.
RastroCompleto ==
    /\ \A q \in Perguntas : \A k \in pergunta[q].conversa.chamadas :
         k <= Len(auditoria) /\ auditoria[k] = 0
    /\ \A k \in DOMAIN auditoria : \A i \in DOMAIN conversas :
         auditoria[k] = i <=> k \in conversas[i].chamadas

=============================================================================
