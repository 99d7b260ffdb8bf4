------------------------------ MODULE Contexto ------------------------------
(***************************************************************************)
(* Who a transaction runs as (core/db.py, core/deps.py): the context that  *)
(* the policies of PostgreSQL filter by is a parameter of the connection,  *)
(* set for one transaction, and connections are shared through a pool.  A  *)
(* request, or a job of a worker, has a session of its own and opens a     *)
(* second one while the first still holds its connection: the audit of a   *)
(* call, the credential of a client, a change of password.                 *)
(***************************************************************************)
EXTENDS Integers, FiniteSets

CONSTANTS
    Fluxos,      \* requests and jobs, each a thread of the process
    Conexoes,    \* pool_size + max_overflow
    Inquilinos,  \* organisations
    MaxTransacoes \* bound: transactions that a flow begins

ASSUME ContextoAssumption ==
    /\ Conexoes # {} /\ IsFiniteSet(Conexoes)
    /\ MaxTransacoes \in Nat
    /\ Inquilinos \cap {"nega", "admin", "nenhum"} = {}

VARIABLES
    guc,      \* the parameters of each connection: base, and local to its transaction
    sessao,   \* the two sessions of each flow
    usadas    \* transactions that each open flow began

contextoVars == <<guc, sessao, usadas>>

\* "nega": no organisation and not an administrator, what a connection that was
\* told nothing has as well.
Contextos == {"nega", "admin"} \cup Inquilinos
Lugares == {"propria", "auxiliar"}

\* info: what session.info holds, "nenhum" in a session nobody applied one to.
\* abrindo and espera: it waits for the connection of its first transaction, of
\* another one.
Sessao == [estado: {"fechada", "abrindo", "espera", "transacao", "ociosa"},
           info: Contextos \cup {"nenhum"}, con: Conexoes, requisicao: BOOLEAN]
AlgumaConexao == CHOOSE c \in Conexoes : TRUE
Fechada == [estado |-> "fechada", info |-> "nenhum", con |-> AlgumaConexao,
            requisicao |-> FALSE]

\* Type invariant: a connection serves one transaction at a time.
TypeOKContexto ==
    /\ guc \in [Conexoes -> [base: Contextos, local: Contextos \cup {"nenhum"}]]
    /\ sessao \in [Fluxos -> [Lugares -> Sessao]]
    /\ usadas \in [Fluxos -> 0..MaxTransacoes]
    /\ \A f, g \in Fluxos, l, k \in Lugares :
         /\ sessao[f][l].estado = "transacao" /\ sessao[g][k].estado = "transacao"
         /\ sessao[f][l].con = sessao[g][k].con
         => f = g /\ l = k

InitContexto ==
    /\ guc = [c \in Conexoes |-> [base |-> "nega", local |-> "nenhum"]]
    /\ sessao = [f \in Fluxos |-> [l \in Lugares |-> Fechada]]
    /\ usadas = [f \in Fluxos |-> 0]

-----------------------------------------------------------------------------

Estado(f, l) == sessao[f][l].estado
EmUso ==
    {c \in Conexoes : \E f \in Fluxos, l \in Lugares :
        Estado(f, l) = "transacao" /\ sessao[f][l].con = c}
Livres == Conexoes \ EmUso

\* The session whose code is running: the auxiliary one, while it is open.
Corre(f, l) ==
    /\ Estado(f, l) # "fechada"
    /\ l = "propria" => Estado(f, "auxiliar") = "fechada"

Muda(f, l, x) == sessao' = [sessao EXCEPT ![f][l] = x]

\* The first statement of a transaction needs a connection.
Pede(f, l, x, e) ==
    /\ usadas[f] < MaxTransacoes
    /\ usadas' = [usadas EXCEPT ![f] = usadas[f] + 1]
    /\ Muda(f, l, [x EXCEPT !.estado = e])

\* get_db applies a context that denies; admin_session and tenant_session apply
\* theirs; SessionLocal() alone, in the loads, applies none.
Abrir(f) ==
    /\ Estado(f, "propria") = "fechada"
    /\ \E x \in {[Fechada EXCEPT !.info = "nega", !.requisicao = TRUE], Fechada} \cup
              {[Fechada EXCEPT !.info = i] : i \in {"admin"} \cup Inquilinos} :
         Pede(f, "propria", x, "abrindo")
    /\ UNCHANGED guc

\* A session of its own for what must be committed by itself, or read as
\* somebody else.
AbrirAuxiliar(f, x) ==
    /\ Estado(f, "propria") \in {"transacao", "ociosa"}
    /\ Estado(f, "auxiliar") = "fechada"
    /\ x \in {"admin"} \cup Inquilinos
    /\ Pede(f, "auxiliar", [Fechada EXCEPT !.info = x], "abrindo")
    /\ UNCHANGED guc

\* A statement after a commit begins another transaction.
Continuar(f, l) ==
    /\ Corre(f, l) /\ Estado(f, l) = "ociosa"
    /\ Pede(f, l, sessao[f][l], "espera")
    /\ UNCHANGED guc

\* Mutant: nothing is told to the transactions that follow a commit.
ReaplicaNada(info) == "nenhum"

\* after_begin: what a new transaction is told, from session.info.
Reaplica(info) == info

\* A connection is free: the transaction begins and after_begin runs; the first
\* one is also told by apply_context.
Tomar(f, l, c) ==
    /\ Estado(f, l) \in {"abrindo", "espera"}
    /\ c \in Livres
    /\ LET i == sessao[f][l].info IN
         guc' = [guc EXCEPT ![c].local = IF Estado(f, l) = "abrindo" THEN i ELSE Reaplica(i)]
    /\ Muda(f, l, [sessao[f][l] EXCEPT !.estado = "transacao", !.con = c])
    /\ UNCHANGED usadas

\* apply_context in a transaction that is open.
Aplicar(f, x) ==
    /\ guc' = [guc EXCEPT ![sessao[f]["propria"].con].local = x]
    /\ Muda(f, "propria", [sessao[f]["propria"] EXCEPT !.info = x])
    /\ UNCHANGED usadas

\* get_current_principal: the organisation of the token.
FixarPrincipal(f, o) ==
    /\ Corre(f, "propria") /\ Estado(f, "propria") = "transacao"
    /\ sessao[f]["propria"].requisicao /\ sessao[f]["propria"].info = "nega"
    /\ Aplicar(f, o)

\* superuser_session, after require_superuser.
Superusuario(f) ==
    /\ Corre(f, "propria") /\ Estado(f, "propria") = "transacao"
    /\ sessao[f]["propria"].requisicao /\ sessao[f]["propria"].info \in Inquilinos
    /\ Aplicar(f, "admin")

\* Mutant: the parameters are set for the session of the connection.
AoTerminarDaSessao(g) == [base |-> IF g.local = "nenhum" THEN g.base ELSE g.local,
                          local |-> "nenhum"]

\* Parameters local to a transaction end with it.
AoTerminar(g) == [g EXCEPT !.local = "nenhum"]

\* The connections that sessions of a set give back.
Devolve(ss) ==
    guc' = [c \in Conexoes |->
              IF \E s \in ss : s.estado = "transacao" /\ s.con = c
              THEN AoTerminar(guc[c]) ELSE guc[c]]

\* Commit or rollback in the middle of the work: the session stays.
Confirmar(f, l) ==
    /\ Corre(f, l) /\ Estado(f, l) = "transacao"
    /\ Devolve({sessao[f][l]})
    /\ Muda(f, l, [sessao[f][l] EXCEPT !.estado = "ociosa", !.con = AlgumaConexao])
    /\ UNCHANGED usadas

\* The end of the session, by commit or by rollback.
Fechar(f, l) ==
    /\ Corre(f, l) /\ Estado(f, l) \in {"transacao", "ociosa"}
    /\ Devolve({sessao[f][l]})
    /\ Muda(f, l, Fechada)
    /\ usadas' = IF l = "propria" THEN [usadas EXCEPT ![f] = 0] ELSE usadas

\* Mutant: a session waits for a connection as long as it takes.
EsgotaNunca == FALSE

\* pool_timeout: with every connection in use, the wait ends in an error.
Esgota == Livres = {}

\* The error ends its session, and the flow it is the auxiliary of when the
\* flow does not catch it.
Esgotar(f, l) ==
    /\ Estado(f, l) \in {"abrindo", "espera"} /\ Esgota
    /\ \/ /\ l = "auxiliar"
          /\ Muda(f, l, Fechada)
          /\ UNCHANGED <<guc, usadas>>
       \/ /\ Devolve({sessao[f][k] : k \in Lugares})
          /\ sessao' = [sessao EXCEPT ![f] = [k \in Lugares |-> Fechada]]
          /\ usadas' = [usadas EXCEPT ![f] = 0]

FluxoStep(f) ==
    \E l \in Lugares :
        \/ Continuar(f, l)
        \/ \E c \in Conexoes : Tomar(f, l, c)
        \/ Confirmar(f, l)
        \/ Fechar(f, l)
        \/ Esgotar(f, l)

NextContexto ==
    \E f \in Fluxos :
        \/ FluxoStep(f)
        \/ Abrir(f)
        \/ \E x \in {"admin"} \cup Inquilinos : AbrirAuxiliar(f, x)
        \/ \E o \in Inquilinos : FixarPrincipal(f, o)
        \/ Superusuario(f)

\* A flow that began goes on.
FairnessContexto == \A f \in Fluxos : WF_contextoVars(FluxoStep(f))

SpecContexto == InitContexto /\ [][NextContexto]_contextoVars /\ FairnessContexto

-----------------------------------------------------------------------------

Vale(c) == IF guc[c].local = "nenhum" THEN guc[c].base ELSE guc[c].local
Declarado(s) == IF s.info = "nenhum" THEN "nega" ELSE s.info

\* Every statement runs as who its session says, after any number of commits
\* and whatever transactions its connection served before (core/db.py, 8-15).
ContextoProprio ==
    \A f \in Fluxos, l \in Lugares :
        Estado(f, l) = "transacao" =>
            Vale(sessao[f][l].con) = Declarado(sessao[f][l])

\* A flow that holds a connection and waits for a second one ends, also when
\* every other does the same (core/db.py, 64-65: the pool fails, it does not
\* hang).
FluxoTermina ==
    \A f \in Fluxos : Estado(f, "propria") # "fechada" ~> Estado(f, "propria") = "fechada"
=============================================================================
