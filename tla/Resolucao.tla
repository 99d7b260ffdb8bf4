------------------------------ MODULE Resolucao -----------------------------
(***************************************************************************)
(* What a manager does with a failed quality check (quality/resolucao.py): *)
(* one case of one organisation, the row of op.qualidade_tratativa, and    *)
(* the requests that act on it.  aplicar_acao reads the row without a      *)
(* lock, works for as long as the source or the materialisation takes, and *)
(* writes at its commit the columns it changed, whatever they are by then  *)
(* (the session does not flush by itself).  The source is external.        *)
(***************************************************************************)
EXTENDS Integers, FiniteSets

CONSTANTS
    Cliques,           \* requests, each of which may come again
    MaxCargas,         \* bound: jobs created for the case
    MaxCliques,        \* bound: requests that begin
    MaxQuedasResolucao \* bound: requests that fail after they committed a job

ASSUME ResolucaoAssumption ==
    /\ IsFiniteSet(Cliques)
    /\ MaxCargas \in Nat /\ MaxCliques \in Nat /\ MaxQuedasResolucao \in Nat

VARIABLES
    classe,    \* class of the check
    veredito,  \* committed verdict of the check for the case's own period
    caso,      \* committed row of the case
    clique,    \* what each request is doing
    cargas,    \* jobs created for the case
    apurou,    \* history: facts the source and the check really gave
    cliques,   \* requests begun so far
    cruzados,  \* history: requests begun while another was open
    quedasResolucao

resolucaoVars ==
    <<classe, veredito, caso, clique, cargas, apurou, cliques, cruzados, quedasResolucao>>

Classes == {"plataforma", "misto", "fonte", "cobertura"}
Acoes == {"rematerializar", "verificar_na_fonte", "reingerir", "aceitar_como_fato"}
Encerrados == {"resolvida", "aceita_como_fato"}
StatusCaso == {"ausente", "aberta", "diagnosticada", "acao_aplicada"} \cup Encerrados
Resultados == {"fonte_tem", "fonte_nao_tem", "indeterminado", "nada"}

\* resultado: what the diagnosis says of the source; tentativas: whether they
\* hold a load asked for and a rematerialisation that did not help.
Caso == [status: StatusCaso, resultado: Resultados,
         tentativas: SUBSET {"carga", "remat_falhou"}]
SemCaso == [status |-> "ausente", resultado |-> "nada", tentativas |-> {}]

Clique == [fase: {"livre", "lido", "carregando", "pronto"}, acao: Acoes,
           viu: Caso, grava: Caso, insere: BOOLEAN]
CliqueLivre == [fase |-> "livre", acao |-> "reingerir", viu |-> SemCaso,
                grava |-> SemCaso, insere |-> FALSE]

\* Type invariant of the case and the requests on it.
TypeOKResolucao ==
    /\ classe \in Classes
    /\ veredito \in {"falha", "ok"}
    /\ caso \in Caso
    /\ clique \in [Cliques -> Clique]
    /\ cargas \in 0..MaxCargas
    /\ apurou \subseteq Resultados \cup {"reexecucao_ok"}
    /\ cliques \in 0..MaxCliques /\ cruzados \in 0..cliques
    /\ quedasResolucao \in 0..MaxQuedasResolucao

InitResolucao ==
    /\ classe \in Classes
    /\ veredito = "falha"
    /\ caso = SemCaso
    /\ clique = [q \in Cliques |-> CliqueLivre]
    /\ cargas = 0 /\ apurou = {}
    /\ cliques = 0 /\ cruzados = 0 /\ quedasResolucao = 0

-----------------------------------------------------------------------------

\* The checks run again at the end of a load.  The row of a late source is of
\* the period that was the last: no later delivery writes it again.
Reavaliar(v) ==
    /\ classe # "cobertura"
    /\ veredito # v
    /\ veredito' = v
    /\ UNCHANGED <<classe, caso, clique, cargas, apurou, cliques, cruzados, quedasResolucao>>

AcoesPorClasse(c) ==
    CASE c = "plataforma" -> {"rematerializar"}
      [] c = "misto" -> {"rematerializar", "aceitar_como_fato"}
      [] c = "fonte" -> {"aceitar_como_fato"}
      [] OTHER -> {}

\* Mutant: a failure of the network authorises a load.
AcoesDaCoberturaOtimista(resultado) ==
    CASE resultado = "fonte_nao_tem" -> {"aceitar_como_fato"}
      [] resultado \in {"fonte_tem", "indeterminado"} -> {"reingerir"}
      [] OTHER -> {"verificar_na_fonte"}

\* What the diagnosis of a late source authorises.
AcoesDaCobertura(resultado) ==
    CASE resultado = "fonte_tem" -> {"reingerir"}
      [] resultado = "fonte_nao_tem" -> {"aceitar_como_fato"}
      [] OTHER -> {"verificar_na_fonte"}

\* montar_ocorrencia: the actions offered.
Cabiveis(x) ==
    IF x.status \in Encerrados \/ "remat_falhou" \in x.tentativas THEN {}
    ELSE IF classe = "cobertura" THEN AcoesDaCobertura(x.resultado)
    ELSE AcoesPorClasse(classe)

\* Mutant: nothing says that a load was asked for.
ReingestaoEsquecida(x) == FALSE

\* _reingestao_ja_pedida
ReingestaoPedida(x) == "carga" \in x.tentativas /\ veredito # "ok"

\* _obter_ou_criar: a row inserted and not committed makes a second insert
\* wait, and fail when the first commits.
Insercao == \E q \in Cliques : clique[q].fase # "livre" /\ clique[q].insere
Lida == IF caso = SemCaso THEN [SemCaso EXCEPT !.status = "aberta"] ELSE caso

\* What the request found: refused (404, 422, 409) it leaves nothing, for the
\* row it inserted is rolled back.
Ler(q, a) ==
    /\ clique[q].fase = "livre"
    /\ cliques < MaxCliques
    /\ caso = SemCaso => ~Insercao
    /\ a \in Cabiveis(Lida)
    /\ a = "reingerir" => ~ReingestaoPedida(Lida)
    /\ clique' = [clique EXCEPT ![q] =
           [fase |-> "lido", acao |-> a, viu |-> Lida, grava |-> Lida,
            insere |-> caso = SemCaso]]
    /\ cliques' = cliques + 1
    /\ cruzados' = IF \E p \in Cliques \ {q} : clique[p].fase # "livre"
                   THEN cruzados + 1 ELSE cruzados
    /\ UNCHANGED <<classe, veredito, caso, cargas, apurou, quedasResolucao>>

Pronto(q, grava) ==
    clique' = [clique EXCEPT ![q].fase = "pronto", ![q].grava = grava]

Aceitar(q) ==
    /\ clique[q].fase = "lido" /\ clique[q].acao = "aceitar_como_fato"
    /\ Pronto(q, [clique[q].viu EXCEPT !.status = "aceita_como_fato"])
    /\ UNCHANGED <<classe, veredito, caso, cargas, apurou, cliques, cruzados, quedasResolucao>>

\* The source answers, or the request to it fails, or there is no next period
\* to ask for: all of them are results.
VerificarNaFonte(q, r) ==
    /\ clique[q].fase = "lido" /\ clique[q].acao = "verificar_na_fonte"
    /\ apurou' = apurou \cup {r}
    /\ Pronto(q, [clique[q].viu EXCEPT !.status = "diagnosticada", !.resultado = r])
    /\ UNCHANGED <<classe, veredito, caso, cargas, cliques, cruzados, quedasResolucao>>

\* materialize_ente and the checks again.  What closes the case is the newest row
\* of the check for the entity, of whatever period: v is what that row says.
StatusDoVeredito(v) == IF v = "ok" THEN "resolvida" ELSE "acao_aplicada"
Rematerializar(q, v) ==
    /\ clique[q].fase = "lido" /\ clique[q].acao = "rematerializar"
    /\ apurou' = IF v = "ok" THEN apurou \cup {"reexecucao_ok"} ELSE apurou
    /\ Pronto(q, [clique[q].viu EXCEPT
           !.status = StatusDoVeredito(v),
           !.tentativas = IF v = "ok" THEN @ ELSE @ \cup {"remat_falhou"}])
    /\ UNCHANGED <<classe, veredito, caso, cargas, cliques, cruzados, quedasResolucao>>

\* _reingerir: criar_job commits the session, and with it what the case has so
\* far; the attempt is recorded in the transaction that follows.
Reingerir(q) ==
    /\ clique[q].fase = "lido" /\ clique[q].acao = "reingerir"
    /\ cargas < MaxCargas
    /\ cargas' = cargas + 1
    /\ clique' = [clique EXCEPT ![q].fase = "carregando"]
    /\ UNCHANGED <<classe, veredito, caso, apurou, cliques, cruzados, quedasResolucao>>

RegistrarCarga(q) ==
    /\ clique[q].fase = "carregando"
    /\ Pronto(q, [clique[q].viu EXCEPT !.status = "acao_aplicada",
                                       !.tentativas = @ \cup {"carga"}])
    /\ UNCHANGED <<classe, veredito, caso, cargas, apurou, cliques, cruzados, quedasResolucao>>

ComCarga(q) ==
    clique[q].fase \in {"carregando", "pronto"} /\ clique[q].acao = "reingerir"

\* The request fails: what it committed stays, the rest is rolled back.
CairClique(q) ==
    /\ clique[q].fase # "livre"
    /\ ComCarga(q) => quedasResolucao < MaxQuedasResolucao
    /\ quedasResolucao' = IF ComCarga(q) THEN quedasResolucao + 1 ELSE quedasResolucao
    /\ clique' = [clique EXCEPT ![q] = CliqueLivre]
    /\ UNCHANGED <<classe, veredito, caso, cargas, apurou, cliques, cruzados>>

\* The UPDATE sets the columns whose value changed since they were read.
Mudada(novo, lido, atual) == IF novo = lido THEN atual ELSE novo
Gravado(q) ==
    LET c == clique[q] IN
    IF c.insere THEN c.grava
    ELSE [status |-> Mudada(c.grava.status, c.viu.status, caso.status),
          resultado |-> Mudada(c.grava.resultado, c.viu.resultado, caso.resultado),
          tentativas |-> c.grava.tentativas]

\* The checks that ran again are committed with the case, and what they say of
\* its own period need not be what the newest row says.
ConfirmarClique(q) ==
    /\ clique[q].fase = "pronto"
    /\ caso' = Gravado(q)
    /\ veredito' \in IF clique[q].acao = "rematerializar" THEN {"falha", "ok"}
                     ELSE {veredito}
    /\ clique' = [clique EXCEPT ![q] = CliqueLivre]
    /\ UNCHANGED <<classe, cargas, apurou, cliques, cruzados, quedasResolucao>>

NextResolucao ==
    \/ \E v \in {"falha", "ok"} : Reavaliar(v)
    \/ \E q \in Cliques :
         \/ \E a \in Acoes : Ler(q, a)
         \/ Aceitar(q)
         \/ \E r \in Resultados : VerificarNaFonte(q, r)
         \/ \E v \in {"falha", "ok"} : Rematerializar(q, v)
         \/ Reingerir(q) \/ RegistrarCarga(q)
         \/ CairClique(q) \/ ConfirmarClique(q)

SpecResolucao == InitResolucao /\ [][NextResolucao]_resolucaoVars

-----------------------------------------------------------------------------
(* Properties *)

\* A case moves only on facts, however the requests on it cross: a load is
\* asked for only after the source said that it has the period, a late source
\* is accepted as a fact only after it said that it has not (a failure of the
\* network says neither), and a case is resolved only by a check that passed, of
\* its entity, though not always of its period.
SoComFato ==
    /\ cargas > 0 => "fonte_tem" \in apurou
    /\ classe = "cobertura" /\ caso.status = "aceita_como_fato"
           => "fonte_nao_tem" \in apurou
    /\ caso.status = "resolvida" => "reexecucao_ok" \in apurou

\* One load per case, but for the requests that crossed another one and those
\* that failed between the job and its record: each costs at most one more.
CargasContidas == cargas <= 1 + cruzados + quedasResolucao

=============================================================================
