------------------------------ MODULE Alertas -------------------------------
(***************************************************************************)
(* Alerts evaluated on read (alerts/service.py, engine.py, repository.py). *)
(* A read of the queue evaluates the entity unless this process did so     *)
(* less than _TTL_AVALIACAO_S ago; a read of the portfolio or of the       *)
(* calendar always does.  An evaluation writes the row of each alert, and  *)
(* the manager writes its status.                                          *)
(*                                                                         *)
(* One alert stands for all.  Its category is that of the rules of limits, *)
(* whose alert is closed when the data no longer asks for it, or that of   *)
(* the other rules (late source, projected minimum, forecast), which have  *)
(* no such step.  Transactions are READ COMMITTED and hold the lock of the *)
(* row they wrote.                                                         *)
(***************************************************************************)
EXTENDS Integers

CONSTANTS
    Pedidos,      \* requests
    Processos,    \* web processes, each with its memory of evaluations
    TtlAvaliacao, \* _TTL_AVALIACAO_S, in ticks
    MaxMudancas,  \* bound: rectifications that change what the data says
    MaxDecisoes,  \* bound: statuses set by the manager
    MaxQuedas     \* bound: requests that fail and roll back

ASSUME AlertasAssumption ==
    /\ TtlAvaliacao \in Nat \ {0}
    /\ MaxMudancas \in Nat /\ MaxDecisoes \in Nat /\ MaxQuedas \in Nat

VARIABLES
    categoria, \* rule the alert comes from
    condicao,  \* what the data in force says of the entity
    alerta,    \* committed row of op.alerta
    memoria,   \* ticks during which each process does not evaluate again
    pedido,    \* what each request is doing
    mudancas, decisoes, quedas

alertasVars ==
    <<categoria, condicao, alerta, memoria, pedido, mudancas, decisoes, quedas>>

Categorias == {"limite", "defasagem"}
\* sem_dado: nothing to judge, or a period that is no longer the anchor of the
\* rule, whose key is then not visited again.
Condicoes == {"pede", "normal", "sem_dado"}
Ativos == {"nova", "reconhecida"}
Tratados == {"resolvida", "descartada"}

\* assinado: resolvido_por is not null.
Alerta == [status: {"ausente"} \cup Ativos \cup Tratados, assinado: BOOLEAN]
Pedido == [fase: {"livre", "avaliando", "apurado", "gravado", "lendo", "servido"},
           viu: Condicoes, efeito: {"nenhum", "insere", "fecha"}]

Ausente == [status |-> "ausente", assinado |-> FALSE]
PedidoLivre == [fase |-> "livre", viu |-> "sem_dado", efeito |-> "nenhum"]

\* Type invariant: an alert carries a signature only when it was treated.
TypeOKAlertas ==
    /\ categoria \in Categorias
    /\ condicao \in Condicoes
    /\ alerta \in Alerta
    /\ alerta.assinado => alerta.status \in Tratados
    /\ memoria \in [Processos -> 0..TtlAvaliacao]
    /\ pedido \in [Pedidos -> Pedido]
    /\ mudancas \in 0..MaxMudancas
    /\ decisoes \in 0..MaxDecisoes
    /\ quedas \in 0..MaxQuedas

InitAlertas ==
    /\ categoria \in Categorias
    /\ condicao \in Condicoes
    /\ alerta = Ausente
    /\ memoria = [p \in Processos |-> 0]
    /\ pedido = [q \in Pedidos |-> PedidoLivre]
    /\ mudancas = 0 /\ decisoes = 0 /\ quedas = 0

-----------------------------------------------------------------------------
(* The environment: rectifications and the clock *)

MudarDado(c) ==
    /\ mudancas < MaxMudancas
    /\ c # condicao
    /\ condicao' = c
    /\ mudancas' = mudancas + 1
    /\ UNCHANGED <<categoria, alerta, memoria, pedido, decisoes, quedas>>

Tique ==
    /\ \E p \in Processos : memoria[p] > 0
    /\ memoria' = [p \in Processos |-> IF memoria[p] > 0 THEN memoria[p] - 1 ELSE 0]
    /\ UNCHANGED <<categoria, condicao, alerta, pedido, mudancas, decisoes, quedas>>

-----------------------------------------------------------------------------
(* Reads *)

\* _deve_avaliar: the memory is set before the evaluation, and no failure of
\* the evaluation takes it back.
DeveAvaliar(p) == memoria[p] = 0

\* Mutant: every read prolongs what is remembered.
MemoriaDeslizante(p) == TtlAvaliacao

MemoriaAoLer(p) == IF DeveAvaliar(p) THEN TtlAvaliacao ELSE memoria[p]

LerFila(q, p) ==
    /\ pedido[q].fase = "livre"
    /\ memoria' = [memoria EXCEPT ![p] = MemoriaAoLer(p)]
    /\ pedido' = [pedido EXCEPT ![q].fase = IF DeveAvaliar(p) THEN "avaliando" ELSE "lendo"]
    /\ UNCHANGED <<categoria, condicao, alerta, mudancas, decisoes, quedas>>

\* _avaliar_carteira and calendario ask no memory.
LerCarteira(q) ==
    /\ pedido[q].fase = "livre"
    /\ pedido' = [pedido EXCEPT ![q].fase = "avaliando"]
    /\ UNCHANGED <<categoria, condicao, alerta, memoria, mudancas, decisoes, quedas>>

Apurar(q) ==
    /\ pedido[q].fase = "avaliando"
    /\ pedido' = [pedido EXCEPT ![q].fase = "apurado", ![q].viu = condicao]
    /\ UNCHANGED <<categoria, condicao, alerta, memoria, mudancas, decisoes, quedas>>

Travado == \E q \in Pedidos : pedido[q].fase = "gravado" /\ pedido[q].efeito # "nenhum"

\* Mutants: an alert that a manager treated is closed again; one that was
\* acknowledged is not closed.
FechaTratado == alerta.status # "ausente"
FechaSoNova == alerta.status = "nova"

\* What the rule does with what it read: the upsert, or in the rule of limits
\* and with data the UPDATE of fechar_alerta_orfao, whose WHERE looks at the
\* committed row.
FechaOrfao == alerta.status \in Ativos
Efeito(q) ==
    CASE pedido[q].viu = "pede" -> "insere"
      [] pedido[q].viu = "normal" /\ categoria = "limite" /\ FechaOrfao -> "fecha"
      [] OTHER -> "nenhum"

Gravar(q) ==
    /\ pedido[q].fase = "apurado"
    /\ Efeito(q) # "nenhum" => ~Travado
    /\ pedido' = [pedido EXCEPT ![q].fase = "gravado", ![q].efeito = Efeito(q)]
    /\ UNCHANGED <<categoria, condicao, alerta, memoria, mudancas, decisoes, quedas>>

\* The row after the write: the upsert leaves the status alone.
Escrita(a, efeito) ==
    CASE efeito = "insere" /\ a = Ausente -> [status |-> "nova", assinado |-> FALSE]
      [] efeito = "fecha" -> [status |-> "resolvida", assinado |-> FALSE]
      [] OTHER -> a

\* list_alertas in the transaction that evaluated, then its commit.
Servir(q) ==
    /\ pedido[q].fase \in {"gravado", "lendo"}
    /\ alerta' = Escrita(alerta, pedido[q].efeito)
    /\ pedido' = [pedido EXCEPT ![q].fase = "servido", ![q].efeito = "nenhum"]
    /\ UNCHANGED <<categoria, condicao, memoria, mudancas, decisoes, quedas>>

Encerrar(q) ==
    /\ pedido[q].fase = "servido"
    /\ pedido' = [pedido EXCEPT ![q] = PedidoLivre]
    /\ UNCHANGED <<categoria, condicao, alerta, memoria, mudancas, decisoes, quedas>>

\* The request fails in the middle: a rollback.
Cair(q) ==
    /\ quedas < MaxQuedas
    /\ pedido[q].fase \in {"avaliando", "apurado", "gravado"}
    /\ quedas' = quedas + 1
    /\ pedido' = [pedido EXCEPT ![q] = PedidoLivre]
    /\ UNCHANGED <<categoria, condicao, alerta, memoria, mudancas, decisoes>>

-----------------------------------------------------------------------------
(* PATCH: atualizar_status, any of the four statuses from any of them *)

Assina(s) == s \in Tratados

Decidir(s) ==
    /\ decisoes < MaxDecisoes
    /\ alerta # Ausente
    /\ ~Travado
    /\ decisoes' = decisoes + 1
    /\ alerta' = [status |-> s, assinado |-> Assina(s)]
    /\ UNCHANGED <<categoria, condicao, memoria, pedido, mudancas, quedas>>

PedidoStep(q) == Apurar(q) \/ Gravar(q) \/ Servir(q) \/ Encerrar(q)

NextAlertas ==
    \/ \E c \in Condicoes : MudarDado(c)
    \/ Tique
    \/ \E q \in Pedidos :
         \/ \E p \in Processos : LerFila(q, p)
         \/ LerCarteira(q)
         \/ PedidoStep(q)
         \/ Cair(q)
    \/ \E s \in Ativos \cup Tratados : Decidir(s)

SpecAlertas == InitAlertas /\ [][NextAlertas]_alertasVars

\* A request that began is carried on and the clock runs; that somebody reads
\* is a hypothesis of the properties.
FairnessAlertas ==
    /\ WF_alertasVars(Tique)
    /\ \A q \in Pedidos : WF_alertasVars(PedidoStep(q))

FairSpecAlertas == SpecAlertas /\ FairnessAlertas

-----------------------------------------------------------------------------
(* Properties *)

LeiturasContinuam == []<>(\E q \in Pedidos : pedido[q].fase = "servido")

\* What a manager decided and signed stays until a manager decides again: no
\* evaluation, however old what it read, reopens the alert or takes the
\* signature away.
DecisaoDoGestorFica ==
    [][alerta.assinado => alerta' = alerta \/ decisoes' = decisoes + 1]_alertasVars

\* Open in the queue, or closed by the signature of a manager.
NaFilaOuAssinado == alerta.status \in Ativos \/ alerta.assinado

\* The promise of service.py, that what is read agrees with the data: a condition
\* that stays and is read is open in the queue, unless a manager closed it.  The
\* code does not keep it: an alert that the rule closed by itself is never opened
\* again.
CondicaoViraAlerta ==
    LeiturasContinuam /\ <>[](condicao = "pede") ~> NaFilaOuAssinado

\* What the code keeps of it.  Unless the rule already closed the alert, or an
\* evaluation of older data is still to do so, a condition that stays and is read
\* comes to the queue and stays there until a manager signs, although the memory
\* of the process may remember an evaluation that was rolled back, or one made
\* before the data changed.
FechadoPelaRegra == alerta.status = "resolvida" /\ ~alerta.assinado
SemAvaliacaoVelha ==
    \A q \in Pedidos : pedido[q].fase \in {"apurado", "gravado"} => pedido[q].viu = "pede"
CondicaoNovaViraAlerta ==
    LeiturasContinuam /\ [](condicao = "pede") /\ ~FechadoPelaRegra /\ SemAvaliacaoVelha
        ~> []NaFilaOuAssinado

\* An alert of limits whose cause is gone for good leaves the queue for good,
\* acknowledged or not, whatever older evaluations were under way.
OrfaoEncerra ==
    LeiturasContinuam /\ categoria = "limite" /\ <>[](condicao = "normal")
        ~> [](alerta.status \notin Ativos)

=============================================================================
