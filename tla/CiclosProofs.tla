---------------------------- MODULE CiclosProofs ----------------------------
(***************************************************************************)
(* Proofs about the components that MCCiclos runs: the historical load     *)
(* (Backfill), the alerts (Alertas) and the context of organisation each   *)
(* connection carries (Contexto), the refresh of portfolios being in       *)
(* CargasProofs; and that what is proved of each holds of the run.         *)
(***************************************************************************)
EXTENDS MCCiclos, CargasProofs, FiniteSetTheorems, TLAPS

-----------------------------------------------------------------------------
(* Backfill *)

\* The checkpoint, in memory and in the file, never runs ahead of the commits,
\* and a run skips only what its checkpoint holds.
CheckpointAtrasado ==
    /\ corrida.done \subseteq gravadas
    /\ arquivo # Truncado => arquivo \subseteq gravadas
    /\ corrida.pulou \subseteq gravadas
    /\ corrida.executados < corrida.i

IInvBackfill == TypeOKBackfill /\ CheckpointAtrasado

\* The initial state of the load satisfies the invariant.
LEMMA BackfillInicial == InitBackfill => IInvBackfill
  BY BackfillAssumption
     DEF InitBackfill, IInvBackfill, TypeOKBackfill, CheckpointAtrasado,
         SemCorrida, Corrida, Unidades, Truncado

\* A unit of the loop, and where the loop goes after it.
LEMMA BackfillDaVez ==
    ASSUME IInvBackfill, NoLaco
    PROVE  /\ corrida.i \in Unidades /\ corrida.i + 1 \in 1..NumUnidades + 1
           /\ corrida.executados + 1 \in 0..NumUnidades
  BY BackfillAssumption
     DEF IInvBackfill, TypeOKBackfill, CheckpointAtrasado, Corrida, Unidades, NoLaco

\* A new run begins with nothing skipped and the checkpoint of the file.
LEMMA BackfillIniciar == IInvBackfill /\ Iniciar => IInvBackfill'
  <1> SUFFICES ASSUME IInvBackfill, Iniciar
               PROVE  IInvBackfill'
    OBVIOUS
  <1>1. arquivo \in SUBSET Unidades /\ 1 \in 1..NumUnidades + 1 /\ 0 \in 0..NumUnidades
    BY BackfillAssumption DEF IInvBackfill, TypeOKBackfill, Iniciar
  <1>2. corrida' \in Corrida
    BY <1>1 DEF Iniciar, SemCorrida, Corrida
  <1>3. TypeOKBackfill'
    BY <1>2 DEF IInvBackfill, TypeOKBackfill, Iniciar, Unidades
  <1>4. CheckpointAtrasado'
    BY DEF IInvBackfill, CheckpointAtrasado, TypeOKBackfill, Iniciar, SemCorrida
  <1>5. QED
    BY <1>3, <1>4 DEF IInvBackfill

\* A unit of the plan leaves the loop one way or another.
LEMMA BackfillUnidade ==
    IInvBackfill /\ (Pular \/ Executar \/ Recusar) => IInvBackfill'
  <1> SUFFICES ASSUME IInvBackfill, Pular \/ Executar \/ Recusar
               PROVE  IInvBackfill'
    OBVIOUS
  <1> USE DEF IInvBackfill
  <1>0. /\ corrida.i \in Unidades /\ corrida.i + 1 \in 1..NumUnidades + 1
        /\ corrida.executados + 1 \in 0..NumUnidades
    BY BackfillDaVez DEF Pular, Executar, Recusar
  <1>c. corrida \in Corrida
    BY DEF TypeOKBackfill
  <1>n. /\ corrida.i \in Int /\ corrida.executados \in Int
        /\ corrida.executados < corrida.i
    BY <1>0, <1>c DEF Corrida, CheckpointAtrasado, Unidades
  <1>1. CASE Pular
    <2>1. corrida' = [corrida EXCEPT !.i = corrida.i + 1,
                                     !.pulou = corrida.pulou \cup {corrida.i}]
      BY <1>1 DEF Pular
    <2>2. corrida' \in Corrida
      BY <1>0, <1>c, <2>1 DEF Corrida
    <2>3. /\ corrida'.i = corrida.i + 1 /\ corrida'.executados = corrida.executados
          /\ corrida'.done = corrida.done
          /\ corrida'.pulou = corrida.pulou \cup {corrida.i}
      BY <1>c, <2>1 DEF Corrida
    <2>4. CheckpointAtrasado'
      BY <1>1, <1>n, <2>3 DEF CheckpointAtrasado, Pular
    <2>5. QED
      BY <1>1, <2>2, <2>4 DEF TypeOKBackfill, Pular, Unidades, Truncado
  <1>2. CASE Executar
    <2>1. PICK f \in {"salva", "laco"} :
            corrida' = [corrida EXCEPT !.fase = f,
                                       !.done = corrida.done \cup {corrida.i},
                                       !.executados = corrida.executados + 1,
                                       !.i = corrida.i + 1]
      BY <1>2 DEF Executar, Feitas
    <2>2. corrida' \in Corrida
      BY <1>0, <1>c, <2>1 DEF Corrida
    <2>3. /\ corrida'.i = corrida.i + 1 /\ corrida'.executados = corrida.executados + 1
          /\ corrida'.done = corrida.done \cup {corrida.i}
          /\ corrida'.pulou = corrida.pulou
      BY <1>c, <2>1 DEF Corrida
    <2>4. CheckpointAtrasado'
      BY <1>2, <1>n, <2>3 DEF CheckpointAtrasado, Executar
    <2>5. QED
      BY <1>0, <1>2, <2>2, <2>4 DEF TypeOKBackfill, Executar, Unidades, Truncado
  <1>3. CASE Recusar
    <2>1. corrida' = [corrida EXCEPT !.i = corrida.i + 1, !.done = corrida.done]
      BY <1>3 DEF Recusar, FeitasNaFalha
    <2>2. corrida' \in Corrida
      BY <1>0, <1>c, <2>1 DEF Corrida
    <2>3. /\ corrida'.i = corrida.i + 1 /\ corrida'.executados = corrida.executados
          /\ corrida'.done = corrida.done /\ corrida'.pulou = corrida.pulou
      BY <1>c, <2>1 DEF Corrida
    <2>4. CheckpointAtrasado'
      BY <1>3, <1>n, <2>3 DEF CheckpointAtrasado, Recusar
    <2>5. recusas' \in 0..MaxRecusas
      BY <1>3, BackfillAssumption DEF TypeOKBackfill, Recusar
    <2>6. QED
      BY <1>3, <2>2, <2>4, <2>5 DEF TypeOKBackfill, Recusar, Unidades, Truncado
  <1>4. QED
    BY <1>1, <1>2, <1>3

\* The end of a run, the two halves of a save, and the death of the process.
LEMMA BackfillResto ==
    IInvBackfill /\ (TerminarLaco \/ DiscoCheio \/ AbrirArquivo
                     \/ EscreverArquivo \/ Morrer) => IInvBackfill'
  <1> SUFFICES ASSUME IInvBackfill,
                      TerminarLaco \/ DiscoCheio \/ AbrirArquivo
                      \/ EscreverArquivo \/ Morrer
               PROVE  IInvBackfill'
    OBVIOUS
  <1> USE BackfillAssumption DEF IInvBackfill, TypeOKBackfill, CheckpointAtrasado,
                                 Corrida, Unidades, Truncado, NoLaco, SemCorrida
  <1>1. CASE TerminarLaco
    BY <1>1 DEF TerminarLaco
  <1>2. CASE DiscoCheio
    BY <1>2 DEF DiscoCheio
  <1>3. CASE AbrirArquivo
    BY <1>3 DEF AbrirArquivo
  <1>4. CASE EscreverArquivo
    BY <1>4 DEF EscreverArquivo
  <1>5. CASE Morrer
    BY <1>5 DEF Morrer
  <1>6. QED
    BY <1>1, <1>2, <1>3, <1>4, <1>5

\* The invariant of the historical load, for any plan, any save_every and any
\* number of failures, deaths and stops of the disk guard.
THEOREM BackfillInvariante == SpecBackfill => []IInvBackfill
  <1>1. IInvBackfill /\ UNCHANGED backfillVars => IInvBackfill'
    BY DEF IInvBackfill, TypeOKBackfill, CheckpointAtrasado, backfillVars
  <1>2. IInvBackfill /\ [NextBackfill]_backfillVars => IInvBackfill'
    BY <1>1, BackfillIniciar, BackfillUnidade, BackfillResto
       DEF NextBackfill, CorridaStep
  <1>3. QED
    BY <1>2, BackfillInicial, PTL DEF SpecBackfill

\* No run skips a unit that is not loaded, for any plan and any interruption.
THEOREM PulaSoGravadaSempre == SpecBackfill => []PulaSoGravada
  <1>1. IInvBackfill => PulaSoGravada
    BY DEF IInvBackfill, CheckpointAtrasado, PulaSoGravada
  <1>2. QED
    BY <1>1, BackfillInvariante, PTL

-----------------------------------------------------------------------------
(* Alertas *)

\* A request holds the row of the alert from its write to its commit, alone,
\* and one that is to close the alert found it active.
Trava(q) == pedido[q].fase = "gravado" /\ pedido[q].efeito # "nenhum"
LinhaPresa ==
    /\ \A q \in Pedidos : pedido[q].fase # "gravado" => pedido[q].efeito = "nenhum"
    /\ \A q, p \in Pedidos : Trava(q) /\ Trava(p) => q = p
    /\ \A q \in Pedidos :
         Trava(q) /\ pedido[q].efeito = "fecha" => alerta.status \in Ativos

IInvAlertas == TypeOKAlertas /\ LinhaPresa

\* The initial state of the alerts satisfies the invariant.
LEMMA AlertasInicial == InitAlertas => IInvAlertas
  BY AlertasAssumption
     DEF InitAlertas, IInvAlertas, TypeOKAlertas, LinhaPresa, Trava, Ausente,
         Alerta, Ativos, Tratados, PedidoLivre, Pedido, Condicoes

\* The clock, the rectifications and the requests that write nothing yet.
LEMMA AlertasSemEscrita ==
    ASSUME IInvAlertas,
           \/ \E c \in Condicoes : MudarDado(c)
           \/ Tique
           \/ \E q \in Pedidos : \/ \E p \in Processos : LerFila(q, p)
                                 \/ LerCarteira(q) \/ Apurar(q)
                                 \/ Encerrar(q) \/ Cair(q)
    PROVE  IInvAlertas' /\ alerta' = alerta
  <1> USE DEF IInvAlertas
  <1>1. ASSUME NEW c \in Condicoes, MudarDado(c)
        PROVE  IInvAlertas' /\ alerta' = alerta
    BY <1>1, AlertasAssumption DEF MudarDado, TypeOKAlertas, LinhaPresa, Trava
  <1>2. CASE Tique
    <2>1. memoria' \in [Processos -> 0..TtlAvaliacao]
      BY <1>2, AlertasAssumption DEF Tique, TypeOKAlertas
    <2>2. QED
      BY <1>2, <2>1 DEF Tique, TypeOKAlertas, LinhaPresa, Trava
  <1>3. ASSUME NEW q \in Pedidos, NEW p \in Processos, LerFila(q, p)
        PROVE  IInvAlertas' /\ alerta' = alerta
    <2>1. memoria' \in [Processos -> 0..TtlAvaliacao]
      BY <1>3, AlertasAssumption DEF LerFila, MemoriaAoLer, TypeOKAlertas
    <2>2. pedido' \in [Pedidos -> Pedido]
      BY <1>3 DEF LerFila, TypeOKAlertas, Pedido
    <2>3. LinhaPresa'
      BY <1>3 DEF LerFila, TypeOKAlertas, Pedido, LinhaPresa, Trava
    <2>4. QED
      BY <1>3, <2>1, <2>2, <2>3 DEF LerFila, TypeOKAlertas
  <1>4. ASSUME NEW q \in Pedidos, LerCarteira(q)
        PROVE  IInvAlertas' /\ alerta' = alerta
    <2>1. pedido' \in [Pedidos -> Pedido]
      BY <1>4 DEF LerCarteira, TypeOKAlertas, Pedido
    <2>2. /\ pedido'[q].fase # "gravado" /\ pedido'[q].efeito = "nenhum"
          /\ \A p \in Pedidos \ {q} : pedido'[p] = pedido[p]
      BY <1>4 DEF LerCarteira, TypeOKAlertas, Pedido, LinhaPresa
    <2>3. LinhaPresa'
      BY <1>4, <2>2 DEF LerCarteira, LinhaPresa, Trava
    <2>4. QED
      BY <1>4, <2>1, <2>3 DEF LerCarteira, TypeOKAlertas
  <1>5. ASSUME NEW q \in Pedidos, Apurar(q)
        PROVE  IInvAlertas' /\ alerta' = alerta
    <2>1. pedido' \in [Pedidos -> Pedido]
      <3>1. [pedido[q] EXCEPT !.fase = "apurado", !.viu = condicao] \in Pedido
        BY DEF TypeOKAlertas, Pedido
      <3>2. QED
        BY <1>5, <3>1 DEF Apurar, TypeOKAlertas
    <2>2. /\ pedido'[q].fase # "gravado" /\ pedido'[q].efeito = "nenhum"
          /\ \A p \in Pedidos \ {q} : pedido'[p] = pedido[p]
      BY <1>5 DEF Apurar, TypeOKAlertas, Pedido, LinhaPresa
    <2>3. LinhaPresa'
      BY <1>5, <2>2, ZenonT(30) DEF Apurar, LinhaPresa, Trava
    <2>4. QED
      BY <1>5, <2>1, <2>3 DEF Apurar, TypeOKAlertas
  <1>6. ASSUME NEW q \in Pedidos, Encerrar(q)
        PROVE  IInvAlertas' /\ alerta' = alerta
    <2>1. pedido' \in [Pedidos -> Pedido]
      BY <1>6 DEF Encerrar, TypeOKAlertas, Pedido, PedidoLivre, Condicoes
    <2>2. /\ pedido'[q].fase # "gravado" /\ pedido'[q].efeito = "nenhum"
          /\ \A p \in Pedidos \ {q} : pedido'[p] = pedido[p]
      BY <1>6 DEF Encerrar, TypeOKAlertas, Pedido, LinhaPresa, PedidoLivre, Condicoes
    <2>3. LinhaPresa'
      BY <1>6, <2>2 DEF Encerrar, LinhaPresa, Trava
    <2>4. QED
      BY <1>6, <2>1, <2>3 DEF Encerrar, TypeOKAlertas
  <1>7. ASSUME NEW q \in Pedidos, Cair(q)
        PROVE  IInvAlertas' /\ alerta' = alerta
    <2>1. pedido' \in [Pedidos -> Pedido]
      BY <1>7 DEF Cair, TypeOKAlertas, Pedido, PedidoLivre, Condicoes
    <2>2. /\ pedido'[q].fase # "gravado" /\ pedido'[q].efeito = "nenhum"
          /\ \A p \in Pedidos \ {q} : pedido'[p] = pedido[p]
      BY <1>7 DEF Cair, TypeOKAlertas, Pedido, LinhaPresa, PedidoLivre, Condicoes
    <2>3. LinhaPresa'
      BY <1>7, <2>2 DEF Cair, LinhaPresa, Trava
    <2>4. quedas' \in 0..MaxQuedas
      BY <1>7, AlertasAssumption DEF Cair, TypeOKAlertas
    <2>5. QED
      BY <1>7, <2>1, <2>3, <2>4 DEF Cair, TypeOKAlertas
  <1>8. QED
    BY <1>1, <1>2, <1>3, <1>4, <1>5, <1>6, <1>7

\* What the commit of an evaluation leaves is an alert.
LEMMA EscritaTipo ==
    ASSUME NEW a \in Alerta, a.assinado => a.status \in Tratados, NEW efeito
    PROVE  /\ Escrita(a, efeito) \in Alerta
           /\ Escrita(a, efeito).assinado => Escrita(a, efeito).status \in Tratados
  <1>1. CASE efeito = "insere" /\ a = Ausente
    BY <1>1 DEF Escrita, Alerta, Ativos
  <1>2. CASE efeito = "fecha"
    BY <1>2 DEF Escrita, Alerta, Tratados
  <1>3. CASE ~(efeito = "insere" /\ a = Ausente) /\ efeito # "fecha"
    BY <1>3 DEF Escrita
  <1>4. QED
    BY <1>1, <1>2, <1>3

\* The write of an evaluation takes the row, when it takes it, alone.
LEMMA AlertasGravar ==
    ASSUME IInvAlertas, NEW q \in Pedidos, Gravar(q)
    PROVE  IInvAlertas' /\ alerta' = alerta
  <1> USE DEF IInvAlertas
  <1>1. Efeito(q) \in {"nenhum", "insere", "fecha"}
    BY DEF Efeito
  <1>2. Efeito(q) = "fecha" => alerta.status \in Ativos
    BY DEF Efeito, FechaOrfao
  <1>3. pedido' \in [Pedidos -> Pedido]
    BY <1>1 DEF Gravar, TypeOKAlertas, Pedido
  <1>4. /\ pedido'[q].fase = "gravado" /\ pedido'[q].efeito = Efeito(q)
        /\ \A p \in Pedidos \ {q} : pedido'[p] = pedido[p]
    BY DEF Gravar, TypeOKAlertas, Pedido
  <1>5. UNCHANGED <<categoria, condicao, alerta, memoria, mudancas, decisoes, quedas>>
    BY DEF Gravar
  <1>6. Efeito(q) # "nenhum" => \A p \in Pedidos : ~Trava(p)
    BY DEF Gravar, Travado, Trava
  <1>7. LinhaPresa'
    BY <1>2, <1>4, <1>5, <1>6 DEF LinhaPresa, Trava
  <1>8. QED
    BY <1>3, <1>5, <1>7 DEF TypeOKAlertas

\* The commit of a read changes the alert only when its request held the row,
\* and then the alert carried no signature.
LEMMA AlertasServir ==
    ASSUME IInvAlertas, NEW q \in Pedidos, Servir(q)
    PROVE  IInvAlertas' /\ (alerta.assinado => alerta' = alerta)
  <1> USE DEF IInvAlertas
  <1>1. alerta' \in Alerta /\ (alerta'.assinado => alerta'.status \in Tratados)
    BY EscritaTipo DEF Servir, TypeOKAlertas
  <1>2. pedido' \in [Pedidos -> Pedido]
    <2>1. pedido' = [pedido EXCEPT ![q] =
              [pedido[q] EXCEPT !.fase = "servido", !.efeito = "nenhum"]]
      BY DEF Servir
    <2>2. [pedido[q] EXCEPT !.fase = "servido", !.efeito = "nenhum"] \in Pedido
      BY DEF TypeOKAlertas, Pedido
    <2>3. QED
      BY <2>1, <2>2 DEF TypeOKAlertas
  <1>3. /\ pedido'[q].fase = "servido" /\ pedido'[q].efeito = "nenhum"
        /\ \A p \in Pedidos \ {q} : pedido'[p] = pedido[p]
    BY DEF Servir, TypeOKAlertas, Pedido
  <1>4. alerta' # alerta => Trava(q)
    BY DEF Servir, Escrita, LinhaPresa, Trava, TypeOKAlertas, Pedido
  <1>5. LinhaPresa'
    <2>1. ASSUME NEW p \in Pedidos, Trava(p)', pedido'[p].efeito = "fecha"
          PROVE  alerta'.status \in Ativos
      <3>1. p # q /\ Trava(p) /\ pedido[p].efeito = "fecha"
        BY <1>3, <2>1 DEF Trava
      <3>2. alerta' = alerta
        BY <1>4, <3>1 DEF LinhaPresa
      <3>3. QED
        BY <3>1, <3>2 DEF LinhaPresa
    <2>2. QED
      BY <1>3, <2>1 DEF LinhaPresa, Trava
  <1>6. alerta.assinado => alerta' = alerta
    BY <1>4 DEF LinhaPresa, Trava, TypeOKAlertas, Servir, Escrita, Ausente,
                Ativos, Tratados, Pedido
  <1>7. TypeOKAlertas'
    BY <1>1, <1>2 DEF Servir, TypeOKAlertas
  <1>8. QED
    BY <1>5, <1>6, <1>7

\* The manager decides while no evaluation holds the row.
LEMMA AlertasDecidir ==
    ASSUME IInvAlertas, NEW s \in Ativos \cup Tratados, Decidir(s)
    PROVE  IInvAlertas'
  <1> USE DEF IInvAlertas
  <1>1. alerta' \in Alerta /\ (alerta'.assinado => alerta'.status \in Tratados)
    <2> DEFINE b == Assina(s)
    <2>1. alerta' = [status |-> s, assinado |-> b]
      BY DEF Decidir
    <2>2. b \in BOOLEAN /\ (b => s \in Tratados)
      BY SMT DEF Assina
    <2> HIDE DEF b
    <2>3. QED
      BY <2>1, <2>2 DEF Alerta
  <1>2. decisoes' \in 0..MaxDecisoes
    BY AlertasAssumption DEF Decidir, TypeOKAlertas
  <1>3. LinhaPresa'
    BY DEF Decidir, Travado, LinhaPresa, Trava
  <1>4. QED
    BY <1>1, <1>2, <1>3 DEF Decidir, TypeOKAlertas

\* One step of the alerts.
LEMMA AlertasPasso ==
    ASSUME IInvAlertas, [NextAlertas]_alertasVars
    PROVE  /\ IInvAlertas'
           /\ alerta.assinado => alerta' = alerta \/ decisoes' = decisoes + 1
  <1>1. CASE UNCHANGED alertasVars
    BY <1>1 DEF alertasVars, IInvAlertas, TypeOKAlertas, LinhaPresa, Trava
  <1>2. ASSUME NEW s \in Ativos \cup Tratados, Decidir(s)
        PROVE  decisoes' = decisoes + 1
    BY <1>2 DEF Decidir
  <1>3. CASE NextAlertas
    BY <1>2, <1>3, AlertasSemEscrita, AlertasGravar, AlertasServir, AlertasDecidir
       DEF NextAlertas, PedidoStep
  <1>4. QED
    BY <1>1, <1>3

\* The types of the alerts, and the row held by one request at a time, for any
\* requests and processes.
THEOREM AlertasInvariante == SpecAlertas => [](TypeOKAlertas /\ LinhaPresa)
  <1>1. IInvAlertas /\ [NextAlertas]_alertasVars => IInvAlertas'
    BY AlertasPasso
  <1>2. QED
    BY <1>1, AlertasInicial, PTL DEF SpecAlertas, IInvAlertas

\* What a manager decided and signed stays until a manager decides again.
THEOREM DecisaoDoGestorFicaSempre == SpecAlertas => DecisaoDoGestorFica
  <1>1. IInvAlertas /\ [NextAlertas]_alertasVars => IInvAlertas'
    BY AlertasPasso
  <1>2. IInvAlertas /\ [NextAlertas]_alertasVars
          => [alerta.assinado => alerta' = alerta \/ decisoes' = decisoes + 1]_alertasVars
    BY AlertasPasso
  <1>3. QED
    BY <1>1, <1>2, AlertasInicial, PTL DEF SpecAlertas, DecisaoDoGestorFica

-----------------------------------------------------------------------------
(* Contexto: every statement runs as who its session says, for any number  *)
(* of flows, connections, organisations and transactions.  What makes it   *)
(* hold is about connections nobody is using: they were told nothing that  *)
(* stays.                                                                  *)


\* The types, without what they say of shared connections.
TiposContexto ==
    /\ guc \in [Conexoes -> [base: Contextos, local: Contextos \cup {"nenhum"}]]
    /\ sessao \in [Fluxos -> [Lugares -> Sessao]]
    /\ usadas \in [Fluxos -> 0..MaxTransacoes]

\* A connection serves one transaction at a time.
ConexaoDeUma ==
    \A f, g \in Fluxos, l, k \in Lugares :
        /\ sessao[f][l].estado = "transacao" /\ sessao[g][k].estado = "transacao"
        /\ sessao[f][l].con = sessao[g][k].con
        => f = g /\ l = k

\* A connection holds nothing of the transactions it served before, and the one
\* it serves was told what its session says.
ConexaoLimpa ==
    /\ \A c \in Conexoes : guc[c].base = "nega"
    /\ \A c \in Conexoes : c \notin EmUso => guc[c].local = "nenhum"
    /\ \A f \in Fluxos, l \in Lugares :
         Estado(f, l) = "transacao" => guc[sessao[f][l].con].local = sessao[f][l].info

\* The inductive invariant.
IInvContexto == TiposContexto /\ ConexaoDeUma /\ ConexaoLimpa

\* A closed session is a session.
LEMMA FechadaEhSessao ==
    /\ AlgumaConexao \in Conexoes
    /\ Fechada \in Sessao /\ Fechada.estado = "fechada"
  <1>1. AlgumaConexao \in Conexoes
    BY ContextoAssumption DEF AlgumaConexao
  <1>2. QED
    BY <1>1 DEF Fechada, Sessao, Contextos

\* Initially every session is closed and no connection was told anything.
LEMMA ContextoInicial == InitContexto => IInvContexto
  <1> SUFFICES ASSUME InitContexto
               PROVE  IInvContexto
    OBVIOUS
  <1> USE FechadaEhSessao DEF InitContexto
  <1>1. TiposContexto
    BY ContextoAssumption DEF TiposContexto, Contextos
  <1>2. \A f \in Fluxos, l \in Lugares : Estado(f, l) # "transacao"
    BY DEF Estado
  <1>3. ConexaoDeUma
    BY <1>2 DEF ConexaoDeUma, Estado
  <1>4. ConexaoLimpa
    BY <1>2 DEF ConexaoLimpa
  <1>5. QED
    BY <1>1, <1>3, <1>4 DEF IInvContexto

\* A change of one session.
LEMMA MudaUma ==
    ASSUME TiposContexto, NEW f \in Fluxos, NEW l \in Lugares, NEW x \in Sessao,
           Muda(f, l, x)
    PROVE  /\ sessao' \in [Fluxos -> [Lugares -> Sessao]]
           /\ sessao'[f][l] = x
           /\ \A g \in Fluxos, k \in Lugares :
                g # f \/ k # l => sessao'[g][k] = sessao[g][k]
  BY DEF TiposContexto, Muda

\* A session without a transaction changes and still has none.
LEMMA SemTransacaoPreserva ==
    ASSUME IInvContexto, NEW f \in Fluxos, NEW l \in Lugares, NEW x \in Sessao,
           Muda(f, l, x),
           Estado(f, l) # "transacao", x.estado # "transacao",
           usadas' \in [Fluxos -> 0..MaxTransacoes],
           guc' = guc
    PROVE  IInvContexto'
  <1> USE DEF IInvContexto
  <1>1. /\ sessao' \in [Fluxos -> [Lugares -> Sessao]]
        /\ sessao'[f][l] = x
        /\ \A g \in Fluxos, k \in Lugares :
             g # f \/ k # l => sessao'[g][k] = sessao[g][k]
    BY MudaUma
  <1>2. \A g \in Fluxos, k \in Lugares :
          /\ Estado(g, k)' = "transacao" <=> Estado(g, k) = "transacao"
          /\ Estado(g, k) = "transacao" => sessao'[g][k] = sessao[g][k]
    BY <1>1 DEF Estado
  <1>3. TiposContexto'
    BY <1>1 DEF TiposContexto
  <1>4. ConexaoDeUma'
    BY <1>2 DEF ConexaoDeUma, Estado
  <1>5. EmUso' = EmUso
    BY <1>2 DEF EmUso
  <1>6. ConexaoLimpa'
    BY <1>2, <1>5 DEF ConexaoLimpa
  <1>7. QED
    BY <1>3, <1>4, <1>6

\* A transaction begins on a connection nobody uses, and is told what its
\* session says.
LEMMA TomarPreserva ==
    ASSUME IInvContexto, NEW f \in Fluxos, NEW l \in Lugares, NEW c \in Conexoes,
           Tomar(f, l, c)
    PROVE  IInvContexto'
  <1> USE DEF IInvContexto
  <1> DEFINE x == [sessao[f][l] EXCEPT !.estado = "transacao", !.con = c]
             i == sessao[f][l].info
  <1>1. /\ x \in Sessao /\ x.estado = "transacao" /\ x.con = c /\ x.info = i
        /\ i \in Contextos \cup {"nenhum"}
    <2>1. sessao[f][l] \in Sessao
      BY DEF TiposContexto
    <2>2. QED
      BY <2>1 DEF Sessao
  <1>2. guc' = [guc EXCEPT ![c].local = i]
    BY DEF Tomar, Reaplica
  <1>3. Muda(f, l, x) /\ c \notin EmUso /\ usadas' = usadas
    BY DEF Tomar, Livres
  <1> HIDE DEF x, i
  <1>4. /\ sessao' \in [Fluxos -> [Lugares -> Sessao]]
        /\ sessao'[f][l] = x
        /\ \A g \in Fluxos, k \in Lugares :
             g # f \/ k # l => sessao'[g][k] = sessao[g][k]
    BY <1>1, <1>3, MudaUma
  <1>5. /\ guc' \in [Conexoes -> [base: Contextos, local: Contextos \cup {"nenhum"}]]
        /\ guc'[c].local = i /\ guc'[c].base = guc[c].base
        /\ \A d \in Conexoes : d # c => guc'[d] = guc[d]
    BY <1>1, <1>2 DEF TiposContexto
  <1>6. TiposContexto'
    BY <1>3, <1>4, <1>5 DEF TiposContexto
  <1>7. \A g \in Fluxos, k \in Lugares :
          Estado(g, k) = "transacao" => sessao[g][k].con # c /\ sessao[g][k].con \in Conexoes
    BY <1>3 DEF EmUso, TiposContexto, Sessao
  <1>8. ConexaoDeUma'
    BY <1>1, <1>4, <1>7 DEF ConexaoDeUma, Estado
  <1>9. \A d \in Conexoes : d \notin EmUso' => d \notin EmUso /\ d # c
    <2> SUFFICES ASSUME NEW d \in Conexoes, d \notin EmUso'
                 PROVE  d \notin EmUso /\ d # c
      OBVIOUS
    <2>1. d # c
      BY <1>1, <1>4 DEF EmUso, Estado
    <2>2. Estado(f, l) # "transacao"
      BY DEF Tomar
    <2>3. ASSUME NEW g \in Fluxos, NEW k \in Lugares,
                 Estado(g, k) = "transacao", sessao[g][k].con = d
          PROVE  FALSE
      BY <1>4, <2>2, <2>3 DEF EmUso, Estado
    <2>4. QED
      BY <2>1, <2>3 DEF EmUso
  <1>10. ConexaoLimpa'
    <2>1. \A d \in Conexoes : guc'[d].base = "nega"
      BY <1>5 DEF ConexaoLimpa
    <2>2. \A d \in Conexoes : d \notin EmUso' => guc'[d].local = "nenhum"
      BY <1>5, <1>9 DEF ConexaoLimpa
    <2>3. \A g \in Fluxos, k \in Lugares :
            Estado(g, k)' = "transacao" => guc'[sessao'[g][k].con].local = sessao'[g][k].info
      BY <1>1, <1>4, <1>5, <1>7 DEF ConexaoLimpa, Estado
    <2>4. QED
      BY <2>1, <2>2, <2>3 DEF ConexaoLimpa
  <1>11. QED
    BY <1>6, <1>8, <1>10

\* apply_context in an open transaction tells its own connection.
LEMMA AplicarPreserva ==
    ASSUME IInvContexto, NEW f \in Fluxos, NEW y \in Contextos,
           Estado(f, "propria") = "transacao", Aplicar(f, y)
    PROVE  IInvContexto'
  <1> USE DEF IInvContexto
  <1> DEFINE s == sessao[f]["propria"]
             c == s.con
             x == [s EXCEPT !.info = y]
  <1>1. /\ s \in Sessao /\ c \in Conexoes /\ s.estado = "transacao"
        /\ x \in Sessao /\ x.estado = "transacao" /\ x.con = c /\ x.info = y
        /\ "propria" \in Lugares
    BY DEF TiposContexto, Sessao, Lugares, Estado
  <1>2. guc' = [guc EXCEPT ![c].local = y] /\ Muda(f, "propria", x) /\ usadas' = usadas
    BY DEF Aplicar
  <1>3. c = sessao[f]["propria"].con
    OBVIOUS
  <1> HIDE DEF x, c, s
  <1>4. /\ sessao' \in [Fluxos -> [Lugares -> Sessao]]
        /\ sessao'[f]["propria"] = x
        /\ \A g \in Fluxos, k \in Lugares :
             g # f \/ k # "propria" => sessao'[g][k] = sessao[g][k]
    BY <1>1, <1>2, MudaUma
  <1>5. /\ guc' \in [Conexoes -> [base: Contextos, local: Contextos \cup {"nenhum"}]]
        /\ guc'[c].local = y /\ guc'[c].base = guc[c].base
        /\ \A d \in Conexoes : d # c => guc'[d] = guc[d]
    BY <1>1, <1>2 DEF TiposContexto
  <1>6. TiposContexto'
    BY <1>2, <1>4, <1>5 DEF TiposContexto
  <1>7. \A g \in Fluxos, k \in Lugares :
          /\ sessao'[g][k].con = sessao[g][k].con
          /\ Estado(g, k)' = Estado(g, k)
    BY <1>1, <1>3, <1>4 DEF Estado
  <1>8. ConexaoDeUma'
    BY <1>7 DEF ConexaoDeUma, Estado
  <1>9. EmUso' = EmUso
    BY <1>7 DEF EmUso
  <1>10. c \in EmUso
    BY <1>1, <1>3 DEF EmUso
  <1>11. ConexaoLimpa'
    <2>1. \A d \in Conexoes : guc'[d].base = "nega"
      BY <1>5 DEF ConexaoLimpa
    <2>2. \A d \in Conexoes : d \notin EmUso' => guc'[d].local = "nenhum"
      BY <1>5, <1>9, <1>10 DEF ConexaoLimpa
    <2>3. ASSUME NEW g \in Fluxos, NEW k \in Lugares, Estado(g, k)' = "transacao"
          PROVE  guc'[sessao'[g][k].con].local = sessao'[g][k].info
      <3>1. CASE g = f /\ k = "propria"
        BY <1>1, <1>4, <1>5, <3>1
      <3>2. CASE ~(g = f /\ k = "propria")
        <4>1. Estado(g, k) = "transacao" /\ sessao'[g][k] = sessao[g][k]
          BY <1>4, <1>7, <2>3, <3>2
        <4>2. sessao[g][k].con # c /\ sessao[g][k].con \in Conexoes
          BY <1>1, <1>3, <3>2, <4>1 DEF ConexaoDeUma, Estado, TiposContexto, Sessao
        <4>3. QED
          BY <1>5, <4>1, <4>2 DEF ConexaoLimpa
      <3>3. QED
        BY <3>1, <3>2
    <2>4. QED
      BY <2>1, <2>2, <2>3 DEF ConexaoLimpa
  <1>12. QED
    BY <1>6, <1>8, <1>11

\* Transactions that end take what they told their connections with them.
LEMMA DevolvePreserva ==
    ASSUME IInvContexto, NEW f \in Fluxos, NEW K \in SUBSET Lugares,
           Devolve({sessao[f][k] : k \in K}),
           sessao' \in [Fluxos -> [Lugares -> Sessao]],
           \A k \in K : sessao'[f][k].estado # "transacao",
           \A g \in Fluxos, k \in Lugares :
               g # f \/ k \notin K => sessao'[g][k] = sessao[g][k],
           usadas' \in [Fluxos -> 0..MaxTransacoes]
    PROVE  IInvContexto'
  <1> USE DEF IInvContexto
  <1> DEFINE Larga(c) ==
               \E k \in K : sessao[f][k].estado = "transacao" /\ sessao[f][k].con = c
  <1>1. guc' = [c \in Conexoes |-> IF Larga(c) THEN [guc[c] EXCEPT !.local = "nenhum"]
                                   ELSE guc[c]]
    BY DEF Devolve, AoTerminar
  <1>2. \A g \in Fluxos, k \in Lugares :
          Estado(g, k)' = "transacao" =>
              /\ Estado(g, k) = "transacao" /\ sessao'[g][k] = sessao[g][k]
              /\ sessao[g][k].con \in Conexoes /\ ~Larga(sessao[g][k].con)
    BY DEF Estado, ConexaoDeUma, TiposContexto, Sessao
  <1>3. \A c \in Conexoes : c \in EmUso => Larga(c) \/ c \in EmUso'
    <2> SUFFICES ASSUME NEW c \in Conexoes, c \in EmUso, ~Larga(c)
                 PROVE  c \in EmUso'
      OBVIOUS
    <2>1. PICK g \in Fluxos, k \in Lugares : Estado(g, k) = "transacao" /\ sessao[g][k].con = c
      BY DEF EmUso
    <2>2. sessao'[g][k] = sessao[g][k]
      BY <2>1 DEF Estado
    <2>3. QED
      BY <2>1, <2>2 DEF EmUso, Estado
  <1> HIDE DEF Larga
  <1>4. /\ guc' \in [Conexoes -> [base: Contextos, local: Contextos \cup {"nenhum"}]]
        /\ \A c \in Conexoes : /\ guc'[c].base = guc[c].base
                               /\ Larga(c) => guc'[c].local = "nenhum"
                               /\ ~Larga(c) => guc'[c] = guc[c]
    BY <1>1, ZenonT(30) DEF TiposContexto
  <1>5. TiposContexto'
    BY <1>4 DEF TiposContexto
  <1>6. ConexaoDeUma'
    BY <1>2 DEF ConexaoDeUma, Estado
  <1>7. ConexaoLimpa'
    <2>1. \A c \in Conexoes : guc'[c].base = "nega"
      BY <1>4 DEF ConexaoLimpa
    <2>2. \A c \in Conexoes : c \notin EmUso' => guc'[c].local = "nenhum"
      BY <1>3, <1>4 DEF ConexaoLimpa
    <2>3. \A g \in Fluxos, k \in Lugares :
            Estado(g, k)' = "transacao" => guc'[sessao'[g][k].con].local = sessao'[g][k].info
      BY <1>2, <1>4 DEF ConexaoLimpa
    <2>4. QED
      BY <2>1, <2>2, <2>3 DEF ConexaoLimpa
  <1>8. QED
    BY <1>5, <1>6, <1>7

\* What a session waits with, or asks for, counts in the bound.
LEMMA PedePreserva ==
    ASSUME IInvContexto, NEW f \in Fluxos, NEW l \in Lugares, NEW x \in Sessao,
           NEW e \in {"abrindo", "espera"},
           Estado(f, l) # "transacao", Pede(f, l, x, e), guc' = guc
    PROVE  IInvContexto'
  <1> DEFINE y == [x EXCEPT !.estado = e]
  <1>1. y \in Sessao /\ y.estado # "transacao"
    BY DEF Sessao
  <1>2. Muda(f, l, y)
    BY DEF Pede
  <1>3. usadas' \in [Fluxos -> 0..MaxTransacoes]
    BY ContextoAssumption DEF Pede, IInvContexto, TiposContexto
  <1> HIDE DEF y
  <1>4. QED
    BY <1>1, <1>2, <1>3, SemTransacaoPreserva

\* A flow that goes on keeps the invariant.
LEMMA FluxoPreserva ==
    ASSUME IInvContexto, NEW f \in Fluxos, FluxoStep(f)
    PROVE  IInvContexto'
  <1>0. PICK l \in Lugares :
          \/ Continuar(f, l)
          \/ \E c \in Conexoes : Tomar(f, l, c)
          \/ Confirmar(f, l)
          \/ Fechar(f, l)
          \/ Esgotar(f, l)
    BY DEF FluxoStep
  <1>1. CASE Continuar(f, l)
    <2>1. sessao[f][l] \in Sessao /\ Estado(f, l) # "transacao"
      BY <1>1 DEF Continuar, IInvContexto, TiposContexto
    <2>2. Pede(f, l, sessao[f][l], "espera") /\ guc' = guc
      BY <1>1 DEF Continuar
    <2>3. QED
      BY <2>1, <2>2, PedePreserva
  <1>2. ASSUME NEW c \in Conexoes, Tomar(f, l, c)
        PROVE  IInvContexto'
    BY <1>2, TomarPreserva
  <1>3. CASE Confirmar(f, l)
    <2> DEFINE x == [sessao[f][l] EXCEPT !.estado = "ociosa", !.con = AlgumaConexao]
    <2>1. x \in Sessao /\ x.estado # "transacao"
      <3>1. sessao[f][l] \in Sessao
        BY DEF IInvContexto, TiposContexto
      <3>2. QED
        BY <3>1, FechadaEhSessao DEF Sessao
    <2>2. Devolve({sessao[f][k] : k \in {l}}) /\ Muda(f, l, x) /\ usadas' = usadas
      BY <1>3 DEF Confirmar, Devolve
    <2> HIDE DEF x
    <2>3. /\ sessao' \in [Fluxos -> [Lugares -> Sessao]]
          /\ sessao'[f][l] = x
          /\ \A g \in Fluxos, k \in Lugares :
               g # f \/ k # l => sessao'[g][k] = sessao[g][k]
      BY <2>1, <2>2, MudaUma DEF IInvContexto
    <2>4. usadas' \in [Fluxos -> 0..MaxTransacoes]
      BY <2>2 DEF IInvContexto, TiposContexto
    <2>5. {l} \in SUBSET Lugares /\ \A k \in {l} : sessao'[f][k].estado # "transacao"
      BY <2>1, <2>3
    <2>6. \A g \in Fluxos, k \in Lugares :
            g # f \/ k \notin {l} => sessao'[g][k] = sessao[g][k]
      BY <2>3
    <2>7. QED
      BY <2>2, <2>3, <2>4, <2>5, <2>6, DevolvePreserva
  <1>4. CASE Fechar(f, l)
    <2>2. Devolve({sessao[f][k] : k \in {l}}) /\ Muda(f, l, Fechada)
      BY <1>4 DEF Fechar, Devolve
    <2>3. /\ sessao' \in [Fluxos -> [Lugares -> Sessao]]
          /\ sessao'[f][l] = Fechada
          /\ \A g \in Fluxos, k \in Lugares :
               g # f \/ k # l => sessao'[g][k] = sessao[g][k]
      BY <2>2, FechadaEhSessao, MudaUma DEF IInvContexto
    <2>4. usadas' \in [Fluxos -> 0..MaxTransacoes]
      BY <1>4, ContextoAssumption DEF Fechar, IInvContexto, TiposContexto
    <2>5. {l} \in SUBSET Lugares /\ \A k \in {l} : sessao'[f][k].estado # "transacao"
      BY <2>3, FechadaEhSessao
    <2>6. \A g \in Fluxos, k \in Lugares :
            g # f \/ k \notin {l} => sessao'[g][k] = sessao[g][k]
      BY <2>3
    <2>7. QED
      BY <2>2, <2>3, <2>4, <2>5, <2>6, DevolvePreserva
  <1>5. CASE Esgotar(f, l)
    <2>1. CASE Muda(f, l, Fechada) /\ UNCHANGED <<guc, usadas>>
      <3>1. Estado(f, l) # "transacao"
        BY <1>5 DEF Esgotar
      <3>2. usadas' \in [Fluxos -> 0..MaxTransacoes]
        BY <2>1 DEF IInvContexto, TiposContexto
      <3>3. QED
        BY <2>1, <3>1, <3>2, FechadaEhSessao, SemTransacaoPreserva
    <2>2. CASE /\ Devolve({sessao[f][k] : k \in Lugares})
               /\ sessao' = [sessao EXCEPT ![f] = [k \in Lugares |-> Fechada]]
               /\ usadas' = [usadas EXCEPT ![f] = 0]
      <3>1. sessao' \in [Fluxos -> [Lugares -> Sessao]]
        BY <2>2, FechadaEhSessao DEF IInvContexto, TiposContexto
      <3>2. usadas' \in [Fluxos -> 0..MaxTransacoes]
        BY <2>2, ContextoAssumption DEF IInvContexto, TiposContexto
      <3>3. \A k \in Lugares : sessao'[f][k].estado # "transacao"
        BY <2>2, FechadaEhSessao DEF IInvContexto, TiposContexto
      <3>4. \A g \in Fluxos, k \in Lugares :
              g # f \/ k \notin Lugares => sessao'[g][k] = sessao[g][k]
        BY <2>2 DEF IInvContexto, TiposContexto
      <3>5. QED
        BY <2>2, <3>1, <3>2, <3>3, <3>4, DevolvePreserva
    <2>3. QED
      BY <1>5, <2>1, <2>2 DEF Esgotar
  <1>6. QED
    BY <1>0, <1>1, <1>2, <1>3, <1>4, <1>5

\* Every step keeps the invariant.
LEMMA ContextoPasso ==
    IInvContexto /\ [NextContexto]_contextoVars => IInvContexto'
  <1> SUFFICES ASSUME IInvContexto, [NextContexto]_contextoVars
               PROVE  IInvContexto'
    OBVIOUS
  <1>0. "propria" \in Lugares /\ "auxiliar" \in Lugares
    BY DEF Lugares
  <1>1. ASSUME NEW f \in Fluxos, Abrir(f)
        PROVE  IInvContexto'
    <2> DEFINE X == {[Fechada EXCEPT !.info = "nega", !.requisicao = TRUE], Fechada} \cup
                      {[Fechada EXCEPT !.info = i] : i \in {"admin"} \cup Inquilinos}
    <2>1. PICK x \in X : Pede(f, "propria", x, "abrindo")
      BY <1>1 DEF Abrir
    <2>2. x \in Sessao
      BY FechadaEhSessao DEF Sessao, Contextos
    <2>3. Estado(f, "propria") # "transacao" /\ guc' = guc
      BY <1>1 DEF Abrir
    <2>4. QED
      BY <1>0, <2>1, <2>2, <2>3, PedePreserva
  <1>2. ASSUME NEW f \in Fluxos, NEW y \in {"admin"} \cup Inquilinos, AbrirAuxiliar(f, y)
        PROVE  IInvContexto'
    <2> DEFINE x == [Fechada EXCEPT !.info = y]
    <2>1. x \in Sessao
      BY FechadaEhSessao DEF Sessao, Contextos
    <2>2. /\ Pede(f, "auxiliar", x, "abrindo")
          /\ Estado(f, "auxiliar") # "transacao" /\ guc' = guc
      BY <1>2 DEF AbrirAuxiliar
    <2> HIDE DEF x
    <2>3. QED
      BY <1>0, <2>1, <2>2, PedePreserva
  <1>3. ASSUME NEW f \in Fluxos, NEW o \in Inquilinos, FixarPrincipal(f, o)
        PROVE  IInvContexto'
    BY <1>3, AplicarPreserva DEF FixarPrincipal, Contextos
  <1>4. ASSUME NEW f \in Fluxos, Superusuario(f)
        PROVE  IInvContexto'
    BY <1>4, AplicarPreserva DEF Superusuario, Contextos
  <1>5. ASSUME NEW f \in Fluxos, FluxoStep(f)
        PROVE  IInvContexto'
    BY <1>5, FluxoPreserva
  <1>6. CASE UNCHANGED contextoVars
    BY <1>6 DEF contextoVars, IInvContexto, TiposContexto, ConexaoDeUma, ConexaoLimpa,
                EmUso, Estado
  <1>7. QED
    BY <1>1, <1>2, <1>3, <1>4, <1>5, <1>6 DEF NextContexto

-----------------------------------------------------------------------------

\* Type correctness of sessions and connections, and what connections hold
\* between transactions.
THEOREM ContextoInvariante == SpecContexto => []IInvContexto
  BY ContextoInicial, ContextoPasso, PTL DEF SpecContexto

\* The invariant gives each statement the organisation its session declares.
LEMMA ContextoDeQuemDiz == IInvContexto => ContextoProprio
  <1> SUFFICES ASSUME IInvContexto, NEW f \in Fluxos, NEW l \in Lugares,
                      Estado(f, l) = "transacao"
               PROVE  Vale(sessao[f][l].con) = Declarado(sessao[f][l])
    BY DEF ContextoProprio
  <1>1. sessao[f][l].con \in Conexoes
    BY DEF IInvContexto, TiposContexto, Sessao
  <1>2. /\ guc[sessao[f][l].con].base = "nega"
        /\ guc[sessao[f][l].con].local = sessao[f][l].info
    BY <1>1 DEF IInvContexto, ConexaoLimpa
  <1>3. QED
    BY <1>2 DEF Vale, Declarado

\* Every statement runs as who its session says, whatever transactions its
\* connection served before and however many commits its session made.
THEOREM ContextoProprioSempre == SpecContexto => []ContextoProprio
  BY ContextoDeQuemDiz, ContextoInvariante, PTL

-----------------------------------------------------------------------------
(* All of them, one at a time                                             *)

\* A step of the composition is a step of one component, and the others stand
\* still.
LEMMA CicloDeCada ==
    ASSUME [NextCiclos]_ciclosVars
    PROVE  /\ [NextCarteira]_carteiraVars /\ [NextAlertas]_alertasVars
           /\ [NextBackfill]_backfillVars /\ [NextContexto]_contextoVars
  BY DEF NextCiclos, ciclosVars

LEMMA InitDeCadaCiclo ==
    ASSUME InitCiclos
    PROVE  InitCarteira /\ InitAlertas /\ InitBackfill /\ InitContexto
  BY DEF InitCiclos

\* What the run explores one component at a time are behaviours of each of them.
\* Of Contexto, whose specification states a fairness it has only while it runs,
\* this says the steps.
THEOREM CiclosCompoem ==
    SpecCiclos =>
        /\ SpecCarteira /\ SpecAlertas /\ SpecBackfill
        /\ InitContexto /\ [][NextContexto]_contextoVars
  <1>1. InitCiclos => InitCarteira /\ InitAlertas /\ InitBackfill /\ InitContexto
    BY InitDeCadaCiclo
  <1>2. [NextCiclos]_ciclosVars =>
          /\ [NextCarteira]_carteiraVars /\ [NextAlertas]_alertasVars
          /\ [NextBackfill]_backfillVars /\ [NextContexto]_contextoVars
    BY CicloDeCada
  <1>3. QED
    BY <1>1, <1>2, PTL DEF SpecCiclos, SpecCarteira, SpecAlertas, SpecBackfill

\* All the safety that the run checks, of any instance.
THEOREM CiclosSeguros ==
    SpecCiclos => [](PulaSoGravada /\ SnapshotApurado /\ ContextoProprio) /\ DecisaoDoGestorFica
  <1>1. InitContexto => IInvContexto
    BY ContextoInicial
  <1>2. IInvContexto => ContextoProprio
    BY ContextoDeQuemDiz
  <1>3. QED
    BY <1>1, <1>2, ContextoPasso, CiclosCompoem, PulaSoGravadaSempre, SnapshotApuradoSempre,
       DecisaoDoGestorFicaSempre, PTL

=============================================================================
