------------------------------- MODULE Escopo -------------------------------
(***************************************************************************)
(* What an organisation may see (shared/scope.py): its portfolio, widened  *)
(* to the municipalities of a state for an account of that kind, cut by    *)
(* the membership of the user and by the licences in force on the day.     *)
(* The gate of one entity and the set of the aggregated views compute it   *)
(* apart; what they read is memorised in the session, which is the         *)
(* request.  Requests run at once, in READ COMMITTED transactions.         *)
(***************************************************************************)
EXTENDS Integers, FiniteSets

CONSTANTS
    Municipios,  \* entities with a code of seven digits
    Estados,     \* entities with a code of two digits, the prefix of a state
    UfDe,        \* prefix of the code of each municipality
    Sessoes,     \* requests
    RestricaoDe, \* escopo_ibges of the membership of each, all the codes for None
    Licencas,    \* rows of op.licenca
    MaxDias,     \* bound: days
    MaxMudancasEscopo \* bound: changes of licences and commits of the portfolio

ASSUME EscopoAssumption ==
    /\ Municipios \cap Estados = {}
    /\ UfDe \in [Municipios -> Estados]
    /\ RestricaoDe \in [Sessoes -> SUBSET (Municipios \cup Estados)]
    /\ MaxDias \in Nat /\ MaxMudancasEscopo \in Nat

VARIABLES
    hoje,      \* date.today()
    licenca,   \* rows of op.licenca of the organisation
    estadual,  \* tipo_conta = "estado"
    monitora,  \* committed rows of op.carteira_ente
    sessao,    \* open requests: what they memorised and did
    mexidas    \* changes so far

escopoVars == <<hoje, licenca, estadual, monitora, sessao, mexidas>>

Codigos == Municipios \cup Estados
Dias == 0..MaxDias
SemPrazo == MaxDias + 1
Nenhum == [lido |-> FALSE, entes |-> {}]

\* A licence covers a set of codes: one, those of a state, or all.
Prefixo(e) == IF e \in Estados THEN e ELSE UfDe[e]
CodigosDaUf(u) == {e \in Codigos : Prefixo(e) = u}
Alvos == {{e} : e \in Codigos} \cup {CodigosDaUf(u) : u \in Estados} \cup {Codigos}

Licenca == [status: {"ausente", "ativa", "suspensa"}, alvo: SUBSET Codigos,
            inicio: Dias, fim: Dias \cup {SemPrazo}]
Memoria == [lido: BOOLEAN, entes: SUBSET Codigos]
Sessao == [aberta: BOOLEAN,
           cobertura: Memoria, dia: Dias, carteira: Memoria, prefixos: Memoria,
           entra: SUBSET Codigos, sai: SUBSET Codigos,
           mostrou: SUBSET Codigos, coberto: SUBSET Codigos, sozinha: BOOLEAN]

SemLicenca == [status |-> "ausente", alvo |-> {}, inicio |-> 0, fim |-> SemPrazo]
SessaoFechada ==
    [aberta |-> FALSE, cobertura |-> Nenhum, dia |-> 0,
     carteira |-> Nenhum, prefixos |-> Nenhum, entra |-> {}, sai |-> {},
     mostrou |-> {}, coberto |-> {}, sozinha |-> TRUE]

\* Type invariant of the licences, the portfolio and the open requests.
TypeOKEscopo ==
    /\ hoje \in Dias
    /\ licenca \in [Licencas -> Licenca]
    /\ estadual \in BOOLEAN
    /\ monitora \in SUBSET Codigos
    /\ sessao \in [Sessoes -> Sessao]
    /\ mexidas \in 0..MaxMudancasEscopo

InitEscopo ==
    /\ hoje = 0
    /\ licenca = [l \in Licencas |-> SemLicenca]
    /\ estadual \in BOOLEAN
    /\ monitora = {}
    /\ sessao = [s \in Sessoes |-> SessaoFechada]
    /\ mexidas = 0

-----------------------------------------------------------------------------
(* Licences *)

VigenteEm(l, dia) == l.status = "ativa" /\ l.inicio <= dia /\ dia <= l.fim
CobertosPor(ls, dia) ==
    UNION {ls[l].alvo : l \in {k \in Licencas : VigenteEm(ls[k], dia)}}

\* History: another transaction changed what an open request would read, and
\* what has been covered today since the request began.
Perturba(ss, ls) ==
    [s \in Sessoes |->
        IF ss[s].aberta
        THEN [ss[s] EXCEPT !.sozinha = FALSE,
                           !.coberto = @ \cup CobertosPor(ls, hoje)]
        ELSE ss[s]]

\* One transaction of the platform plane.  invalidar_cobertura clears the
\* memory of the session of the operator, which reads no scope.
MudarLicenca(l, nova) ==
    /\ mexidas < MaxMudancasEscopo
    /\ mexidas' = mexidas + 1
    /\ licenca' = [licenca EXCEPT ![l] = nova]
    /\ sessao' = Perturba(sessao, licenca')
    /\ UNCHANGED <<hoje, estadual, monitora>>

ConcederLicenca(l, alvo, inicio, fim) ==
    /\ licenca[l].status = "ausente"
    /\ inicio <= fim
    /\ MudarLicenca(l, [status |-> "ativa", alvo |-> alvo, inicio |-> inicio, fim |-> fim])

\* alterar_licenca: a status, or a new end that is not before the start.
AlterarStatus(l, status) ==
    /\ licenca[l].status # "ausente"
    /\ MudarLicenca(l, [licenca[l] EXCEPT !.status = status])

AlterarPrazo(l, fim) ==
    /\ licenca[l].status # "ausente"
    /\ licenca[l].inicio <= fim
    /\ MudarLicenca(l, [licenca[l] EXCEPT !.fim = fim])

VirarDia ==
    /\ hoje < MaxDias
    /\ hoje' = hoje + 1
    /\ sessao' = [s \in Sessoes |->
           IF sessao[s].aberta
           THEN [sessao[s] EXCEPT !.sozinha = FALSE, !.mostrou = {},
                                  !.coberto = CobertosPor(licenca, hoje + 1)]
           ELSE sessao[s]]
    /\ UNCHANGED <<licenca, estadual, monitora, mexidas>>

-----------------------------------------------------------------------------
(* What a session reads, memorised or not *)

Visao(s) == (monitora \cup sessao[s].entra) \ sessao[s].sai

\* Mutant: the day is no part of the key of the memory.
LembraCoberturaSempre(x, dia) == x.cobertura.lido

\* cobertura_licenca: the day is part of the key.
LembraCobertura(x, dia) == x.cobertura.lido /\ x.dia = dia
Cobertura(s) == IF LembraCobertura(sessao[s], hoje) THEN sessao[s].cobertura.entes
                ELSE CobertosPor(licenca, hoje)

CarteiraIbges(s) ==
    IF sessao[s].carteira.lido THEN sessao[s].carteira.entes ELSE Visao(s)
EstadoPrefixes(s) ==
    IF sessao[s].prefixos.lido THEN sessao[s].prefixos.entes
    ELSE CarteiraIbges(s) \cap Estados

\* assert_ente_in_scope reads the row of the entity, not the memorised set.
NoEscopo(s, e) ==
    \/ e \in Visao(s)
    \/ estadual /\ e \in Municipios /\ UfDe[e] \in EstadoPrefixes(s)
Portao(s, e) == e \in RestricaoDe[s] /\ NoEscopo(s, e) /\ e \in Cobertura(s)

\* carteira_scope_ibges
Agregado(s) ==
    LET ampliada == {m \in Municipios : estadual /\ UfDe[m] \in EstadoPrefixes(s)}
    IN  (CarteiraIbges(s) \cup ampliada) \cap RestricaoDe[s] \cap Cobertura(s)

Lido(v) == [lido |-> TRUE, entes |-> v]
MemorizaCobertura(s, x) == [x EXCEPT !.cobertura = Lido(Cobertura(s)), !.dia = hoje]
MemorizaCarteira(s, x) == [x EXCEPT !.carteira = Lido(CarteiraIbges(s))]
MemorizaPrefixos(s, x) ==
    IF estadual THEN [MemorizaCarteira(s, x) EXCEPT !.prefixos = Lido(EstadoPrefixes(s))]
    ELSE x

-----------------------------------------------------------------------------
(* Requests *)

AbrirSessao(s) ==
    /\ ~sessao[s].aberta
    /\ sessao' = [sessao EXCEPT ![s] =
           [SessaoFechada EXCEPT !.aberta = TRUE,
                                 !.coberto = CobertosPor(licenca, hoje)]]
    /\ UNCHANGED <<hoje, licenca, estadual, monitora, mexidas>>

\* The gate: a refusal ends the request and rolls it back.  The prefixes are
\* read only when the row of the portfolio is not there.
PassarPortao(s, e) ==
    /\ sessao[s].aberta
    /\ LET lidos == IF e \in Visao(s) \/ e \notin Municipios THEN sessao[s]
                    ELSE MemorizaPrefixos(s, sessao[s])
       IN  sessao' = [sessao EXCEPT ![s] =
               IF Portao(s, e)
               THEN [MemorizaCobertura(s, lidos) EXCEPT !.mostrou = @ \cup {e}]
               ELSE SessaoFechada]
    /\ UNCHANGED <<hoje, licenca, estadual, monitora, mexidas>>

Agregar(s) ==
    /\ sessao[s].aberta
    /\ LET lidos == MemorizaCobertura(s, MemorizaPrefixos(s, MemorizaCarteira(s, sessao[s])))
       IN  sessao' = [sessao EXCEPT ![s] =
               [lidos EXCEPT !.mostrou = @ \cup Agregado(s)]]
    /\ UNCHANGED <<hoje, licenca, estadual, monitora, mexidas>>

\* Mutant: a change of the portfolio leaves what was memorised.
InvalidaNada(x) == x

\* add_carteira_ente and carteira_lote: only what the licence covers, then
\* invalidar_escopo_carteira.  Two requests that write one row wait.
Invalida(x) == [x EXCEPT !.carteira = Nenhum, !.prefixos = Nenhum]
OutraEscreve(s, e) ==
    \E t \in Sessoes \ {s} : e \in sessao[t].entra \cup sessao[t].sai

Adicionar(s, e) ==
    /\ sessao[s].aberta
    /\ ~OutraEscreve(s, e)
    /\ e \notin Visao(s) /\ e \in Cobertura(s)
    /\ sessao' = [sessao EXCEPT ![s] =
           [Invalida(MemorizaCobertura(s, sessao[s])) EXCEPT
               !.entra = @ \cup {e}, !.sai = @ \ {e}]]
    /\ UNCHANGED <<hoje, licenca, estadual, monitora, mexidas>>

Remover(s, e) ==
    /\ sessao[s].aberta
    /\ ~OutraEscreve(s, e)
    /\ e \in Visao(s)
    /\ sessao' = [sessao EXCEPT ![s] =
           [Invalida(MemorizaCobertura(s, sessao[s])) EXCEPT
               !.sai = @ \cup {e}, !.entra = @ \ {e}]]
    /\ UNCHANGED <<hoje, licenca, estadual, monitora, mexidas>>

\* The commit of get_db; the memory dies with the session.
FecharSessao(s) ==
    /\ sessao[s].aberta
    /\ LET muda == Visao(s) # monitora IN
         /\ muda => mexidas < MaxMudancasEscopo
         /\ mexidas' = IF muda THEN mexidas + 1 ELSE mexidas
         /\ monitora' = Visao(s)
         /\ sessao' = LET outras == IF muda THEN Perturba(sessao, licenca) ELSE sessao
                      IN  [outras EXCEPT ![s] = SessaoFechada]
    /\ UNCHANGED <<hoje, licenca, estadual>>

NextEscopo ==
    \/ \E l \in Licencas :
         \/ \E a \in Alvos, i \in hoje..MaxDias, f \in Dias \cup {SemPrazo} :
              ConcederLicenca(l, a, i, f)
         \/ \E st \in {"ativa", "suspensa"} : AlterarStatus(l, st)
         \/ \E f \in Dias : AlterarPrazo(l, f)
    \/ VirarDia
    \/ \E s \in Sessoes :
         \/ AbrirSessao(s) \/ Agregar(s)
         \/ \E e \in Codigos : PassarPortao(s, e) \/ Adicionar(s, e) \/ Remover(s, e)
         \/ FecharSessao(s)

SpecEscopo == InitEscopo /\ [][NextEscopo]_escopoVars

-----------------------------------------------------------------------------
(* Properties *)

\* A suspension, or the end of a licence, holds at once: what a request showed
\* today was covered, by the licences and the date, at some time of today
\* since the request began.  A request memorises what it reads, and one that
\* crosses midnight reads it again.
SuspensaoNaHora ==
    \A s \in Sessoes : sessao[s].aberta => sessao[s].mostrou \subseteq sessao[s].coberto

\* Drill and aggregate agree: while no other transaction commits a change, the
\* gate lets through exactly the entities of the aggregated views, whatever
\* the request memorised before, and after each change of its own.
DrillCoerente ==
    \A s \in Sessoes :
        sessao[s].aberta /\ sessao[s].sozinha =>
            \A e \in Codigos : Portao(s, e) <=> e \in Agregado(s)

=============================================================================
