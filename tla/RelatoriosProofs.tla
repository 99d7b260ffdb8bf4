-------------------------- MODULE RelatoriosProofs ---------------------------
(***************************************************************************)
(* Proofs about reports, for any number of them, of schedules, processes   *)
(* and threads, with deaths, recoveries and lost answers to COMMIT: types; *)
(* a published report that no recovery took from a living generation, and  *)
(* that its generation does not take for failed, has its file and keeps    *)
(* its row; one report for each execution of a schedule.                   *)
(***************************************************************************)
EXTENDS Relatorios, FiniteSetTheorems, SequenceTheorems, TLAPS

LotesCheios == Seq(Relatorios) \ {<<>>}

\* Whoever works on a batch has one with something in it, and so does the pool.
TrabalhoBom(x) == x \in Trabalho /\ (x.fase # "livre" => x.lote # <<>>)
Tipos ==
    /\ TypeOK
    /\ fila \in [Processos -> Seq(LotesCheios)]
    /\ \A p \in Processos, t \in Threads : TrabalhoBom(thr[p][t])

\* Only the claimant of a report generates it, its row says so, and what it
\* wrote so far is where it left it; when it takes a published report for failed,
\* all it has left to do is to undo it.
PassoFeito(x, arq, ao_lado) ==
    /\ x.fase \in {"carregado", "escrito", "salvo"} => x.lido = "processando"
    /\ x.fase = "escrito" => ao_lado = x.conteudo /\ x.conteudo # Nada
    /\ x.fase = "salvo" => arq = x.conteudo /\ x.conteudo # Nada
Integro(r) ==
    /\ \A p, q \in Processos, t, u \in Threads :
         Gerando(thr[p][t], r) /\ Gerando(thr[q][u], r) => p = q /\ t = u
    /\ \A p \in Processos, t \in Threads :
         Gerando(thr[p][t], r) =>
             IF r \in semResposta THEN thr[p][t].fase \in {"desfazer", "falhou"}
             ELSE /\ relatorio[r].status = "processando"
                  /\ PassoFeito(thr[p][t], arquivo[r], tmp[r])
    /\ r \in semResposta => relatorio[r].status = "gerado"
    /\ relatorio[r].status = "gerado" /\ r \notin semResposta =>
         relatorio[r].hash # Nada /\ arquivo[r] = relatorio[r].hash
TodosIntegros == \A r \in Relatorios \ retomados : Integro(r)

\* The executions a process is about to emit are of schedules it has locked, as
\* they were when it listed them.
VencidosTravados ==
    \A p \in Processos : \A v \in proc[p].vencidos :
        /\ agenda[v[1]].trava = p
        /\ v[2] = agenda[v[1]].proxima /\ v[2] <= proc[p].agora

\* What was emitted is behind the next execution of its schedule.
OrigemPassada ==
    \A r \in Relatorios : relatorio[r].origem # Nada =>
        relatorio[r].origem[2] < agenda[relatorio[r].origem[1]].proxima

AgendaBoa == VencidosTravados /\ OrigemPassada /\ AgendamentoUmaVez

-----------------------------------------------------------------------------
(* Types *)

LEMMA OciosoBom == TrabalhoBom(Ocioso) /\ Ocioso.fase = "livre"
  BY DEF TrabalhoBom, Ocioso, Trabalho, Status

\* A full batch has a first report, and a rest.
LEMMA LoteCheio ==
    ASSUME NEW l \in LotesCheios
    PROVE  Head(l) \in Relatorios /\ Tail(l) \in Seq(Relatorios)
  <1>1. l \in Seq(Relatorios) /\ l # <<>>
    BY DEF LotesCheios
  <1>2. QED
    BY <1>1, HeadTailProperties

\* A batch as a thread takes it.
LEMMA LoteBom ==
    ASSUME NEW l \in LotesCheios
    PROVE  LET x == [Ocioso EXCEPT !.fase = "lote", !.lote = l] IN
           TrabalhoBom(x) /\ x.fase = "lote" /\ x.lote = l
  BY DEF LotesCheios, TrabalhoBom, Ocioso, Trabalho, Status

\* What a working thread may be sure of.
LEMMA TrabalhoTem ==
    ASSUME NEW x, TrabalhoBom(x), x.fase # "livre"
    PROVE  /\ Atual(x) \in Relatorios
           /\ TrabalhoBom(Seguinte(x)) /\ Seguinte(x).fase \in {"livre", "lote"}
  <1>1. x.lote \in LotesCheios
    BY DEF TrabalhoBom, Trabalho, LotesCheios
  <1>2. Head(x.lote) \in Relatorios /\ Tail(x.lote) \in Seq(Relatorios)
    BY <1>1, LoteCheio
  <1>3. CASE Tail(x.lote) = <<>>
    BY <1>2, <1>3, OciosoBom DEF Atual, Seguinte
  <1>4. CASE Tail(x.lote) # <<>>
    <2>1. Tail(x.lote) \in LotesCheios
      BY <1>2, <1>4 DEF LotesCheios
    <2>2. QED
      BY <1>2, <1>4, <2>1, LoteBom DEF Atual, Seguinte
  <1>5. QED
    BY <1>3, <1>4

\* A thread that changes leaves the others as they were.
LEMMA PassaUma ==
    ASSUME Tipos, NEW p \in Processos, NEW t \in Threads, NEW x, TrabalhoBom(x),
           Passa(p, t, x)
    PROVE  /\ thr' \in [Processos -> [Threads -> Trabalho]]
           /\ thr'[p][t] = x
           /\ \A q \in Processos, u \in Threads :
                q # p \/ u # t => thr'[q][u] = thr[q][u]
           /\ \A q \in Processos, u \in Threads : TrabalhoBom(thr'[q][u])
  <1>1. thr \in [Processos -> [Threads -> Trabalho]] /\ x \in Trabalho
    BY DEF Tipos, TypeOK, TrabalhoBom
  <1>2. /\ thr' \in [Processos -> [Threads -> Trabalho]]
        /\ thr'[p][t] = x
        /\ \A q \in Processos, u \in Threads :
             q # p \/ u # t => thr'[q][u] = thr[q][u]
    BY <1>1 DEF Passa
  <1>3. \A q \in Processos, u \in Threads : TrabalhoBom(thr[q][u])
    BY DEF Tipos
  <1>4. QED
    BY <1>2, <1>3

\* A batch of reports is a full one, or none.
LEMMA LotesSao ==
    ASSUME NEW ids \in SUBSET Relatorios, NEW l \in Lotes(ids)
    PROVE  l = <<>> \/ l \in LotesCheios
  <1>1. CASE ids = {}
    BY <1>1 DEF Lotes
  <1>2. CASE ids # {}
    <2>1. Cardinality(ids) \in Nat
      BY ConstantsAssumption, FS_Subset, FS_CardinalityType
    <2>2. l \in [1 .. Cardinality(ids) -> Relatorios]
      BY <1>2 DEF Lotes
    <2>3. l \in Seq(Relatorios)
      BY <2>1, <2>2, SeqDef
    <2>4. QED
      BY <2>3 DEF LotesCheios
  <1>3. QED
    BY <1>1, <1>2

\* The pool with one batch more.
LEMMA FilaBoa ==
    ASSUME Tipos, NEW p \in Processos, NEW l, l = <<>> \/ l \in LotesCheios
    PROVE  Enfileirado(p, l) \in [Processos -> Seq(LotesCheios)]
  <1>1. fila \in [Processos -> Seq(LotesCheios)]
    BY DEF Tipos
  <1>2. CASE l = <<>>
    BY <1>1, <1>2 DEF Enfileirado
  <1>3. CASE l # <<>>
    <2>1. Append(fila[p], l) \in Seq(LotesCheios)
      BY <1>1, <1>3, AppendProperties
    <2>2. QED
      BY <1>1, <1>3, <2>1 DEF Enfileirado
  <1>4. QED
    BY <1>2, <1>3

\* Full batches are batches.
LEMMA FilaEhFila ==
    ASSUME NEW f \in [Processos -> Seq(LotesCheios)]
    PROVE  f \in [Processos -> Seq(Seq(Relatorios))]
  <1>1. Seq(LotesCheios) \subseteq Seq(Seq(Relatorios))
    BY DEF LotesCheios
  <1>2. QED
    BY <1>1

\* The type of what thread steps leave alone is kept.
LEMMA TiposFicam ==
    ASSUME Tipos,
           relatorio' \in [Relatorios -> Linha],
           arquivo' \in [Relatorios -> Conteudos \cup {Nada}],
           tmp' \in [Relatorios -> Conteudos \cup {Nada}],
           fila' \in [Processos -> Seq(LotesCheios)],
           thr' \in [Processos -> [Threads -> Trabalho]],
           \A p \in Processos, t \in Threads : TrabalhoBom(thr'[p][t]),
           abortados' \in SUBSET Relatorios, semResposta' \in SUBSET Relatorios,
           quedas' \in Nat,
           UNCHANGED <<agenda, proc, relogio, retomados>>
    PROVE  Tipos'
  <1>1. fila' \in [Processos -> Seq(Seq(Relatorios))]
    BY FilaEhFila
  <1>2. (\A p \in Processos, t \in Threads : TrabalhoBom(thr[p][t]))'
    BY DEF TrabalhoBom
  <1>3. QED
    BY <1>1, <1>2 DEF Tipos, TypeOK, LotesCheios

-----------------------------------------------------------------------------
(* One report through a step *)

\* A row with another status.
LEMMA LinhaComStatus ==
    ASSUME NEW R \in [Relatorios -> Linha], NEW r \in Relatorios, NEW s \in Status
    PROVE  [R EXCEPT ![r].status = s] \in [Relatorios -> Linha]
  <1>1. R[r] \in Linha
    OBVIOUS
  <1>2. [R[r] EXCEPT !.status = s] \in Linha
    BY <1>1 DEF Linha
  <1>3. QED
    BY <1>2

\* Nothing of the report changes, and who generates it did so before.
LEMMA MesmoRelatorio ==
    ASSUME NEW r \in Relatorios, Integro(r),
           \A q \in Processos, u \in Threads :
               Gerando(thr'[q][u], r) => thr'[q][u] = thr[q][u],
           r \in semResposta' <=> r \in semResposta,
           relatorio'[r] = relatorio[r], arquivo'[r] = arquivo[r], tmp'[r] = tmp[r]
    PROVE  Integro(r)'
  <1>1. \A q \in Processos, u \in Threads :
          Gerando(thr[q][u], r)' =>
              thr'[q][u] = thr[q][u] /\ Gerando(thr[q][u], r)
    BY DEF Gerando, Atual
  <1>2. QED
    BY <1>1 DEF Integro, PassoFeito

\* Nobody generates the report, and it is not published.
LEMMA RelatorioSolto ==
    ASSUME NEW r \in Relatorios,
           \A q \in Processos, u \in Threads : ~Gerando(thr'[q][u], r),
           relatorio'[r].status # "gerado", r \notin semResposta'
    PROVE  Integro(r)'
  <1>1. \A q \in Processos, u \in Threads : ~Gerando(thr[q][u], r)'
    BY DEF Gerando, Atual
  <1>2. QED
    BY <1>1 DEF Integro

\* One thread generates the report.
LEMMA RelatorioDe ==
    ASSUME NEW r \in Relatorios, NEW p \in Processos, NEW t \in Threads,
           \A q \in Processos, u \in Threads :
               q # p \/ u # t => ~Gerando(thr'[q][u], r),
           relatorio'[r].status = "processando", r \notin semResposta',
           PassoFeito(thr'[p][t], arquivo'[r], tmp'[r])
    PROVE  Integro(r)'
  <1>1. \A q \in Processos, u \in Threads : Gerando(thr[q][u], r)' => q = p /\ u = t
    BY DEF Gerando, Atual
  <1>2. QED
    BY <1>1 DEF Integro

\* One thread takes the published report for failed.
LEMMA RelatorioTidoPorFalho ==
    ASSUME NEW r \in Relatorios, NEW p \in Processos, NEW t \in Threads,
           \A q \in Processos, u \in Threads :
               q # p \/ u # t => ~Gerando(thr'[q][u], r),
           relatorio'[r].status = "gerado", r \in semResposta',
           thr'[p][t].fase \in {"desfazer", "falhou"}
    PROVE  Integro(r)'
  <1>1. \A q \in Processos, u \in Threads : Gerando(thr[q][u], r)' => q = p /\ u = t
    BY DEF Gerando, Atual
  <1>2. QED
    BY <1>1 DEF Integro

\* A step of a thread does not concern a report it neither changes nor leaves
\* the thread generating.
LEMMA RelatorioAlheio ==
    ASSUME Tipos, NEW r \in Relatorios, Integro(r),
           NEW p \in Processos, NEW t \in Threads, NEW y, TrabalhoBom(y),
           Passa(p, t, y), ~Gerando(y, r),
           r \in semResposta' <=> r \in semResposta,
           relatorio'[r] = relatorio[r], arquivo'[r] = arquivo[r], tmp'[r] = tmp[r]
    PROVE  Integro(r)'
  <1>1. \A q \in Processos, u \in Threads :
          Gerando(thr'[q][u], r) => thr'[q][u] = thr[q][u]
    BY PassaUma
  <1>2. QED
    BY <1>1, MesmoRelatorio

\* Who generates a report is alone with it, also after a step of its own.
LEMMA DonoSo ==
    ASSUME Tipos, NEW r \in Relatorios, Integro(r),
           NEW p \in Processos, NEW t \in Threads, NEW y, TrabalhoBom(y),
           Passa(p, t, y), Gerando(thr[p][t], r)
    PROVE  /\ thr'[p][t] = y
           /\ \A q \in Processos, u \in Threads :
                q # p \/ u # t => ~Gerando(thr'[q][u], r)
  BY PassaUma DEF Integro

\* The schedules of a step that leaves them alone.
LEMMA AgendaFica ==
    ASSUME AgendaBoa, UNCHANGED <<agenda, proc>>,
           \A r \in Relatorios : relatorio'[r].origem = relatorio[r].origem
    PROVE  AgendaBoa'
  <1>1. VencidosTravados'
    BY DEF AgendaBoa, VencidosTravados
  <1>2. OrigemPassada'
    BY DEF AgendaBoa, OrigemPassada
  <1>3. AgendamentoUmaVez'
    BY DEF AgendaBoa, AgendamentoUmaVez
  <1>4. QED
    BY <1>1, <1>2, <1>3 DEF AgendaBoa

\* The inductive invariant.
IInvRelatorios == Tipos /\ TodosIntegros /\ AgendaBoa

-----------------------------------------------------------------------------
(* Steps of a thread *)

\* A thread that takes a batch, leaves a report it could not claim, or drops
\* its batch.
LEMMA ParadoPreserva ==
    ASSUME IInvRelatorios, NEW p \in Processos, NEW t \in Threads, NEW y,
           TrabalhoBom(y), y.fase \in {"livre", "lote"}, Passa(p, t, y),
           fila' \in [Processos -> Seq(LotesCheios)],
           abortados' \in SUBSET Relatorios,
           UNCHANGED <<relatorio, arquivo, tmp, agenda, proc,
                       relogio, quedas, retomados, semResposta>>
    PROVE  IInvRelatorios'
  <1> USE DEF IInvRelatorios
  <1>1. Tipos'
    BY PassaUma, TiposFicam DEF Tipos, TypeOK
  <1>2. ASSUME NEW r \in Relatorios, r \notin retomados
        PROVE  Integro(r)'
    <2>1. ~Gerando(y, r) /\ Integro(r)
      BY <1>2 DEF Gerando, TodosIntegros
    <2>2. QED
      BY <2>1, RelatorioAlheio
  <1>3. TodosIntegros'
    BY <1>2 DEF TodosIntegros
  <1>4. AgendaBoa'
    BY AgendaFica
  <1>5. QED
    BY <1>1, <1>3, <1>4

\* A step of a generation writes no row.
LEMMA AvancaPreserva ==
    ASSUME IInvRelatorios, NEW p \in Processos, NEW t \in Threads, NEW y,
           TrabalhoBom(y), y.lote = thr[p][t].lote, Passa(p, t, y),
           thr[p][t].fase \notin {"livre", "lote"}, y.fase \notin {"livre", "lote"},
           arquivo' \in [Relatorios -> Conteudos \cup {Nada}],
           tmp' \in [Relatorios -> Conteudos \cup {Nada}],
           NEW c \in Relatorios, c = Atual(thr[p][t]),
           \A r \in Relatorios : r # c => arquivo'[r] = arquivo[r] /\ tmp'[r] = tmp[r],
           c \notin retomados => PassoFeito(y, arquivo'[c], tmp'[c]),
           c \notin retomados => c \notin semResposta \/ y.fase = "falhou",
           UNCHANGED <<relatorio, agenda, proc, fila, relogio, quedas, abortados,
                retomados, semResposta>>
    PROVE  IInvRelatorios'
  <1> USE DEF IInvRelatorios
  <1>1. Tipos'
    BY PassaUma, TiposFicam DEF Tipos, TypeOK
  <1>2. Atual(y) = c /\ thr'[p][t] = y
    BY PassaUma DEF Atual
  <1>3. ASSUME NEW r \in Relatorios, r \notin retomados
        PROVE  Integro(r)'
    <2>1. Integro(r)
      BY <1>3 DEF TodosIntegros
    <2>2. CASE r # c
      <3>1. ~Gerando(y, r)
        BY <1>2, <2>2 DEF Gerando
      <3>2. QED
        BY <2>1, <2>2, <3>1, RelatorioAlheio
    <2>3. CASE r = c
      <3>1. Gerando(thr[p][t], r)
        BY <2>3 DEF Gerando
      <3>2. \A q \in Processos, u \in Threads :
              q # p \/ u # t => ~Gerando(thr'[q][u], r)
        BY <2>1, <3>1, DonoSo
      <3>3. CASE r \notin semResposta
        <4>1. relatorio'[r].status = "processando"
          BY <2>1, <3>1, <3>3 DEF Integro
        <4>2. PassoFeito(thr'[p][t], arquivo'[r], tmp'[r])
          BY <1>2, <1>3, <2>3
        <4>3. QED
          BY <3>2, <3>3, <4>1, <4>2, RelatorioDe
      <3>4. CASE r \in semResposta
        <4>1. relatorio'[r].status = "gerado"
          BY <2>1, <3>4 DEF Integro
        <4>2. thr'[p][t].fase = "falhou"
          BY <1>2, <1>3, <2>3, <3>4
        <4>3. QED
          BY <3>2, <3>4, <4>1, <4>2, RelatorioTidoPorFalho
      <3>5. QED
        BY <3>3, <3>4
    <2>4. QED
      BY <2>2, <2>3
  <1>4. TodosIntegros'
    BY <1>3 DEF TodosIntegros
  <1>5. AgendaBoa'
    BY AgendaFica
  <1>6. QED
    BY <1>1, <1>4, <1>5

LEMMA PegarPreserva ==
    ASSUME IInvRelatorios, NEW p \in Processos, NEW t \in Threads, Pegar(p, t)
    PROVE  IInvRelatorios'
  <1> DEFINE y == [Ocioso EXCEPT !.fase = "lote", !.lote = Head(fila[p])]
  <1>1. fila \in [Processos -> Seq(LotesCheios)] /\ fila[p] # <<>>
    BY DEF IInvRelatorios, Tipos, Pegar
  <1>2. Head(fila[p]) \in LotesCheios /\ Tail(fila[p]) \in Seq(LotesCheios)
    BY <1>1, HeadTailProperties
  <1>3. TrabalhoBom(y) /\ y.fase = "lote"
    BY <1>2, LoteBom
  <1>4. fila' \in [Processos -> Seq(LotesCheios)]
    BY <1>1, <1>2 DEF Pegar
  <1>5. Passa(p, t, y)
    BY DEF Pegar
  <1> HIDE DEF y
  <1>6. abortados' \in SUBSET Relatorios
    BY DEF IInvRelatorios, Tipos, TypeOK, Pegar, historia
  <1>7. UNCHANGED <<relatorio, arquivo, tmp, agenda, proc,
                    relogio, quedas, retomados, semResposta>>
    BY DEF Pegar, arquivos, ambiente, historia
  <1>8. QED
    BY <1>3, <1>4, <1>5, <1>6, <1>7, ParadoPreserva

LEMMA AbortarPreserva ==
    ASSUME IInvRelatorios, NEW p \in Processos, NEW t \in Threads, AbortarLote(p, t)
    PROVE  IInvRelatorios'
  <1>1. /\ Passa(p, t, Ocioso)
        /\ UNCHANGED <<relatorio, arquivo, tmp, agenda, proc, fila,
                       relogio, quedas, retomados, semResposta>>
    BY DEF AbortarLote, arquivos, ambiente, processos
  <1>2. Itens(thr[p][t]) \subseteq Relatorios
    <2>1. thr[p][t].lote \in Seq(Relatorios)
      BY DEF IInvRelatorios, Tipos, TrabalhoBom, Trabalho
    <2>2. QED
      BY <2>1 DEF Itens
  <1>3. abortados' \in SUBSET Relatorios
    BY <1>2 DEF IInvRelatorios, Tipos, TypeOK, AbortarLote
  <1>4. fila' \in [Processos -> Seq(LotesCheios)]
    BY <1>1 DEF IInvRelatorios, Tipos
  <1>5. QED
    BY <1>1, <1>3, <1>4, OciosoBom, ParadoPreserva

\* A claim takes a report nobody generates: the row would say so.
LEMMA ClaimPreserva ==
    ASSUME IInvRelatorios, NEW p \in Processos, NEW t \in Threads, ClaimRelatorio(p, t)
    PROVE  IInvRelatorios'
  <1> DEFINE x == thr[p][t]
             c == Atual(thr[p][t])
             y == [thr[p][t] EXCEPT !.fase = "gerar"]
  <1> USE DEF IInvRelatorios
  <1>1. /\ TrabalhoBom(x) /\ x.fase = "lote" /\ c \in Relatorios
        /\ TrabalhoBom(Seguinte(x)) /\ Seguinte(x).fase \in {"livre", "lote"}
    BY TrabalhoTem DEF Tipos, ClaimRelatorio
  <1>2. UNCHANGED <<arquivo, tmp, agenda, proc, fila, relogio,
                    quedas, abortados, retomados, semResposta>>
    BY DEF ClaimRelatorio, arquivos, processos, ambiente, historia
  <1>3. fila' \in [Processos -> Seq(LotesCheios)] /\ abortados' \in SUBSET Relatorios
    BY <1>2 DEF Tipos, TypeOK
  <1>4. CASE ~Reivindicavel(relatorio[c].status)
    <2>1. Passa(p, t, Seguinte(x)) /\ UNCHANGED relatorio
      BY <1>4 DEF ClaimRelatorio
    <2>2. QED
      BY <1>1, <1>2, <1>3, <2>1, ParadoPreserva
  <1>5. CASE Reivindicavel(relatorio[c].status)
    <2>1. /\ relatorio' = [relatorio EXCEPT ![c].status = "processando"]
          /\ Passa(p, t, y)
      BY <1>5 DEF ClaimRelatorio, Avancando
    <2>2. TrabalhoBom(y) /\ y.fase = "gerar" /\ y.lote = x.lote
      BY <1>1 DEF TrabalhoBom, Trabalho
    <2> HIDE DEF y
    <2>3. relatorio' \in [Relatorios -> Linha]
      BY <1>1, <2>1, LinhaComStatus DEF Tipos, TypeOK, Status
    <2>4. Tipos'
      BY <1>2, <1>3, <2>1, <2>2, <2>3, PassaUma, TiposFicam DEF Tipos, TypeOK
    <2>5. Atual(y) = c
      BY <2>2 DEF Atual
    <2>6. ASSUME NEW r \in Relatorios, r \notin retomados
          PROVE  Integro(r)'
      <3>1. Integro(r)
        BY <2>6 DEF TodosIntegros
      <3>2. CASE r # c
        <4>1. ~Gerando(y, r) /\ relatorio'[r] = relatorio[r]
          BY <2>1, <2>5, <3>2 DEF Gerando, Tipos, TypeOK
        <4>2. QED
          BY <1>2, <2>1, <2>2, <3>1, <4>1, RelatorioAlheio
      <3>3. CASE r = c
        <4>1. \A q \in Processos, u \in Threads : ~Gerando(thr[q][u], r)
          BY <1>5, <3>1, <3>3 DEF Integro, Reivindicavel
        <4>2. /\ thr'[p][t] = y
              /\ \A q \in Processos, u \in Threads :
                   q # p \/ u # t => ~Gerando(thr'[q][u], r)
          BY <2>1, <2>2, <4>1, PassaUma
        <4>3. relatorio'[r].status = "processando"
          BY <2>1, <3>3 DEF Tipos, TypeOK, Linha
        <4>4. PassoFeito(thr'[p][t], arquivo'[r], tmp'[r])
          BY <2>2, <4>2 DEF PassoFeito
        <4>5. r \notin semResposta'
          BY <1>2, <1>5, <3>1, <3>3 DEF Integro, Reivindicavel
        <4>6. QED
          BY <4>2, <4>3, <4>4, <4>5, RelatorioDe
      <3>4. QED
        BY <3>2, <3>3
    <2>7. TodosIntegros'
      BY <1>2, <2>6 DEF TodosIntegros
    <2>8. \A r \in Relatorios : relatorio'[r].origem = relatorio[r].origem
      BY <2>1 DEF Tipos, TypeOK, Linha
    <2>9. QED
      BY <1>2, <2>4, <2>7, <2>8, AgendaFica
  <1>6. QED
    BY <1>4, <1>5

\* A generation with its transaction still open has not published its report.
LEMMA GeraSemTerPublicado ==
    ASSUME TodosIntegros, NEW p \in Processos, NEW t \in Threads,
           thr[p][t].fase \in {"gerar", "carregado", "escrito", "salvo"},
           NEW c \in Relatorios, c = Atual(thr[p][t])
    PROVE  c \notin retomados => c \notin semResposta
  BY DEF TodosIntegros, Integro, Gerando

\* The row read in the second transaction is still being generated.
LEMMA CarregarPreserva ==
    ASSUME IInvRelatorios, NEW p \in Processos, NEW t \in Threads, Carregar(p, t)
    PROVE  IInvRelatorios'
  <1> DEFINE x == thr[p][t]
             c == Atual(thr[p][t])
             y == [thr[p][t] EXCEPT !.fase = "carregado", !.lido = relatorio[c].status]
  <1>1. TrabalhoBom(x) /\ x.fase = "gerar" /\ c \in Relatorios
    BY TrabalhoTem DEF IInvRelatorios, Tipos, Carregar
  <1>2. relatorio[c].status \in Status
    BY <1>1 DEF IInvRelatorios, Tipos, TypeOK, Linha
  <1>3. /\ TrabalhoBom(y) /\ y.fase = "carregado" /\ y.lote = x.lote
        /\ y.lido = relatorio[c].status
    BY <1>1, <1>2 DEF TrabalhoBom, Trabalho
  <1>4. Passa(p, t, y)
    BY DEF Carregar
  <1> HIDE DEF y
  <1>6. UNCHANGED <<relatorio, arquivo, tmp, agenda, proc, fila, relogio, quedas,
                    abortados, retomados, semResposta>>
    BY DEF Carregar, arquivos, processos, ambiente, historia
  <1>7. c \notin retomados => c \notin semResposta
    BY <1>1, GeraSemTerPublicado DEF IInvRelatorios
  <1>8. c \notin retomados => PassoFeito(y, arquivo'[c], tmp'[c])
    <2>1. c \notin retomados => relatorio[c].status = "processando"
      BY <1>1, <1>7 DEF IInvRelatorios, TodosIntegros, Integro, Gerando
    <2>2. QED
      BY <1>3, <2>1 DEF PassoFeito
  <1>9. /\ arquivo' \in [Relatorios -> Conteudos \cup {Nada}]
        /\ tmp' \in [Relatorios -> Conteudos \cup {Nada}]
    BY <1>6 DEF IInvRelatorios, Tipos, TypeOK
  <1>10. QED
    BY <1>1, <1>3, <1>4, <1>6, <1>7, <1>8, <1>9, AvancaPreserva

\* The content is written beside the file of the report alone.
LEMMA EscreverPreserva ==
    ASSUME IInvRelatorios, NEW p \in Processos, NEW t \in Threads, EscreverTmp(p, t)
    PROVE  IInvRelatorios'
  <1> DEFINE x == thr[p][t]
             r == Atual(thr[p][t])
             c == NovoConteudo(r)
             y == [thr[p][t] EXCEPT !.fase = "escrito", !.conteudo = c]
  <1>1. TrabalhoBom(x) /\ x.fase = "carregado" /\ r \in Relatorios
    BY TrabalhoTem DEF IInvRelatorios, Tipos, EscreverTmp
  <1>2. c \in Conteudos /\ c # Nada
    BY ConstantsAssumption DEF EscreverTmp, NovoConteudo
  <1>3. tmp' = [tmp EXCEPT ![r] = c] /\ Passa(p, t, y)
    BY DEF EscreverTmp
  <1> HIDE DEF c
  <1>4. /\ TrabalhoBom(y) /\ y.fase = "escrito" /\ y.lote = x.lote
        /\ y.conteudo = c /\ y.lido = x.lido
    BY <1>1, <1>2 DEF TrabalhoBom, Trabalho
  <1> HIDE DEF y
  <1>6. UNCHANGED <<relatorio, arquivo, agenda, proc, fila, relogio, quedas,
                    abortados, retomados, semResposta>>
    BY DEF EscreverTmp, processos, ambiente, historia
  <1>7. /\ arquivo' \in [Relatorios -> Conteudos \cup {Nada}]
        /\ tmp' \in [Relatorios -> Conteudos \cup {Nada}]
        /\ tmp'[r] = c
        /\ \A k \in Relatorios : k # r => arquivo'[k] = arquivo[k] /\ tmp'[k] = tmp[k]
    BY <1>1, <1>2, <1>3, <1>6 DEF IInvRelatorios, Tipos, TypeOK
  <1>8. r \notin retomados => r \notin semResposta
    BY <1>1, GeraSemTerPublicado DEF IInvRelatorios
  <1>9. r \notin retomados => PassoFeito(y, arquivo'[r], tmp'[r])
    <2>1. r \notin retomados => x.lido = "processando"
      BY <1>1, <1>8 DEF IInvRelatorios, TodosIntegros, Integro, Gerando, PassoFeito
    <2>2. QED
      BY <1>2, <1>4, <1>7, <2>1 DEF PassoFeito
  <1>10. QED
    BY <1>1, <1>3, <1>4, <1>6, <1>7, <1>8, <1>9, AvancaPreserva

\* The replace publishes what this generation wrote, unless another one moved it.
LEMMA SubstituirPreserva ==
    ASSUME IInvRelatorios, NEW p \in Processos, NEW t \in Threads, Substituir(p, t)
    PROVE  IInvRelatorios'
  <1> DEFINE x == thr[p][t]
             r == Atual(thr[p][t])
  <1>1. TrabalhoBom(x) /\ x.fase = "escrito" /\ r \in Relatorios
    BY TrabalhoTem DEF IInvRelatorios, Tipos, Substituir
  <1>2. UNCHANGED <<relatorio, agenda, proc, fila, relogio,
                    quedas, abortados, retomados, semResposta>>
    BY DEF Substituir, processos, ambiente, historia
  <1>3. CASE tmp[r] # Nada
    <2> DEFINE y == [thr[p][t] EXCEPT !.fase = "salvo"]
    <2>1. /\ arquivo' = [arquivo EXCEPT ![r] = tmp[r]]
          /\ tmp' = [tmp EXCEPT ![r] = Nada]
          /\ Passa(p, t, y)
      BY <1>3 DEF Substituir, Avancando
    <2>2. /\ TrabalhoBom(y) /\ y.fase = "salvo" /\ y.lote = x.lote
          /\ y.conteudo = x.conteudo /\ y.lido = x.lido
      BY <1>1 DEF TrabalhoBom, Trabalho
    <2> HIDE DEF y
    <2>3. /\ arquivo' \in [Relatorios -> Conteudos \cup {Nada}]
          /\ tmp' \in [Relatorios -> Conteudos \cup {Nada}]
          /\ arquivo'[r] = tmp[r]
          /\ \A k \in Relatorios : k # r => arquivo'[k] = arquivo[k] /\ tmp'[k] = tmp[k]
      BY <1>1, <2>1 DEF IInvRelatorios, Tipos, TypeOK
    <2>4. r \notin retomados => r \notin semResposta
      BY <1>1, GeraSemTerPublicado DEF IInvRelatorios
    <2>5. r \notin retomados => PassoFeito(y, arquivo'[r], tmp'[r])
      <3>1. r \notin retomados => x.lido = "processando" /\ tmp[r] = x.conteudo
        BY <1>1, <2>4 DEF IInvRelatorios, TodosIntegros, Integro, Gerando, PassoFeito
      <3>2. QED
        BY <1>3, <2>2, <2>3, <3>1 DEF PassoFeito
    <2>6. QED
      BY <1>1, <1>2, <2>1, <2>2, <2>3, <2>4, <2>5, AvancaPreserva
  <1>4. CASE tmp[r] = Nada
    <2> DEFINE y == [thr[p][t] EXCEPT !.fase = "falhou"]
    <2>1. UNCHANGED <<arquivo, tmp>> /\ Passa(p, t, y)
      BY <1>4 DEF Substituir, Avancando, arquivos
    <2>2. TrabalhoBom(y) /\ y.fase = "falhou" /\ y.lote = x.lote
      BY <1>1 DEF TrabalhoBom, Trabalho
    <2> HIDE DEF y
    <2>3. /\ arquivo' \in [Relatorios -> Conteudos \cup {Nada}]
          /\ tmp' \in [Relatorios -> Conteudos \cup {Nada}]
      BY <2>1 DEF IInvRelatorios, Tipos, TypeOK
    <2>4. PassoFeito(y, arquivo'[r], tmp'[r])
      BY <2>2 DEF PassoFeito
    <2>5. QED
      BY <1>1, <1>2, <2>1, <2>2, <2>3, <2>4, AvancaPreserva
  <1>5. QED
    BY <1>3, <1>4

LEMMA FalharPreserva ==
    ASSUME IInvRelatorios, NEW p \in Processos, NEW t \in Threads, FalharGeracao(p, t)
    PROVE  IInvRelatorios'
  <1> DEFINE x == thr[p][t]
             r == Atual(thr[p][t])
             f == IF thr[p][t].fase = "salvo" THEN "desfazer" ELSE "falhou"
             y == [thr[p][t] EXCEPT !.fase = f]
  <1>1. /\ TrabalhoBom(x) /\ r \in Relatorios
        /\ x.fase \in {"gerar", "carregado", "escrito", "salvo"}
    BY TrabalhoTem DEF IInvRelatorios, Tipos, FalharGeracao
  <1>2. Passa(p, t, y) /\ f \in {"desfazer", "falhou"}
    BY DEF FalharGeracao, Avancando
  <1> HIDE DEF f
  <1>3. TrabalhoBom(y) /\ y.fase = f /\ y.lote = x.lote
    BY <1>1, <1>2 DEF TrabalhoBom, Trabalho
  <1> HIDE DEF y
  <1>4. UNCHANGED <<relatorio, arquivo, tmp, agenda, proc, fila, relogio, quedas,
                    abortados, retomados, semResposta>>
    BY DEF FalharGeracao, arquivos, processos, ambiente, historia
  <1>5. /\ arquivo' \in [Relatorios -> Conteudos \cup {Nada}]
        /\ tmp' \in [Relatorios -> Conteudos \cup {Nada}]
    BY <1>4 DEF IInvRelatorios, Tipos, TypeOK
  <1>6. PassoFeito(y, arquivo'[r], tmp'[r])
    BY <1>2, <1>3 DEF PassoFeito
  <1>7. r \notin retomados => r \notin semResposta
    BY <1>1, GeraSemTerPublicado DEF IInvRelatorios
  <1>8. QED
    BY <1>1, <1>2, <1>3, <1>4, <1>5, <1>6, <1>7, AvancaPreserva

LEMMA RemoverPreserva ==
    ASSUME IInvRelatorios, NEW p \in Processos, NEW t \in Threads, RemoverArquivo(p, t)
    PROVE  IInvRelatorios'
  <1> DEFINE x == thr[p][t]
             r == Atual(thr[p][t])
             y == [thr[p][t] EXCEPT !.fase = "falhou"]
  <1>1. TrabalhoBom(x) /\ r \in Relatorios /\ x.fase = "desfazer"
    BY TrabalhoTem DEF IInvRelatorios, Tipos, RemoverArquivo
  <1>2. Passa(p, t, y) /\ arquivo' = [arquivo EXCEPT ![r] = Nada]
    BY DEF RemoverArquivo, Avancando
  <1>3. TrabalhoBom(y) /\ y.fase = "falhou" /\ y.lote = x.lote
    BY <1>1 DEF TrabalhoBom, Trabalho
  <1> HIDE DEF y
  <1>4. UNCHANGED <<relatorio, tmp, agenda, proc, fila, relogio, quedas,
                    abortados, retomados, semResposta>>
    BY DEF RemoverArquivo, processos, ambiente, historia
  <1>5. /\ arquivo' \in [Relatorios -> Conteudos \cup {Nada}]
        /\ tmp' \in [Relatorios -> Conteudos \cup {Nada}]
        /\ \A k \in Relatorios : k # r => arquivo'[k] = arquivo[k] /\ tmp'[k] = tmp[k]
    BY <1>1, <1>2, <1>4 DEF IInvRelatorios, Tipos, TypeOK
  <1>6. PassoFeito(y, arquivo'[r], tmp'[r])
    BY <1>3 DEF PassoFeito
  <1>7. QED
    BY <1>1, <1>2, <1>3, <1>4, <1>5, <1>6, AvancaPreserva

\* The last transaction of a generation writes the row of its report, which
\* nobody generates afterwards.
LEMMA FimPreserva ==
    ASSUME IInvRelatorios, NEW p \in Processos, NEW t \in Threads,
           thr[p][t].fase \notin {"livre", "lote"}, Passa(p, t, Seguinte(thr[p][t])),
           NEW c \in Relatorios, c = Atual(thr[p][t]),
           relatorio' \in [Relatorios -> Linha],
           \A r \in Relatorios : relatorio'[r].origem = relatorio[r].origem,
           \A r \in Relatorios : r # c => relatorio'[r] = relatorio[r],
           c \notin retomados /\ relatorio'[c].status = "gerado" =>
               relatorio'[c].hash # Nada /\ arquivo[c] = relatorio'[c].hash,
           semResposta' \in SUBSET Relatorios, c \notin retomados => c \notin semResposta',
           \A r \in Relatorios : r # c => (r \in semResposta' <=> r \in semResposta),
           UNCHANGED <<arquivo, tmp, agenda, proc, fila, relogio, quedas,
                       abortados, retomados>>
    PROVE  IInvRelatorios'
  <1> DEFINE y == Seguinte(thr[p][t])
  <1> USE DEF IInvRelatorios
  <1>1. TrabalhoBom(y) /\ y.fase \in {"livre", "lote"}
    BY TrabalhoTem DEF Tipos
  <1>2. Passa(p, t, y)
    OBVIOUS
  <1> HIDE DEF y
  <1>3. Tipos'
    BY <1>1, <1>2, PassaUma, TiposFicam DEF Tipos, TypeOK
  <1>4. ASSUME NEW r \in Relatorios, r \notin retomados
        PROVE  Integro(r)'
    <2>1. Integro(r) /\ ~Gerando(y, r)
      BY <1>1, <1>4 DEF TodosIntegros, Gerando
    <2>2. CASE r # c
      BY <1>1, <1>2, <2>1, <2>2, RelatorioAlheio
    <2>3. CASE r = c
      <3>1. Gerando(thr[p][t], r)
        BY <2>3 DEF Gerando
      <3>2. \A q \in Processos, u \in Threads : ~Gerando(thr'[q][u], r)
        BY <1>1, <1>2, <2>1, <3>1, DonoSo
      <3>3. \A q \in Processos, u \in Threads : ~Gerando(thr[q][u], r)'
        BY <3>2 DEF Gerando, Atual
      <3>4. QED
        BY <1>4, <2>3, <3>3 DEF Integro
    <2>4. QED
      BY <2>2, <2>3
  <1>5. TodosIntegros'
    BY <1>4 DEF TodosIntegros
  <1>6. AgendaBoa'
    BY AgendaFica
  <1>7. QED
    BY <1>3, <1>5, <1>6

\* What mark_success writes: the content that this generation published.
LEMMA MarkSuccessGrava ==
    ASSUME IInvRelatorios, NEW p \in Processos, NEW t \in Threads,
           thr[p][t].fase = "salvo", MarkSuccess(p, t),
           NEW c \in Relatorios, c = Atual(thr[p][t])
    PROVE  /\ relatorio' \in [Relatorios -> Linha]
           /\ \A r \in Relatorios : relatorio'[r].origem = relatorio[r].origem
           /\ \A r \in Relatorios : r # c => relatorio'[r] = relatorio[r]
           /\ c \notin retomados =>
                /\ c \notin semResposta /\ relatorio'[c].status = "gerado"
                /\ relatorio'[c].hash # Nada /\ arquivo[c] = relatorio'[c].hash
  <1> DEFINE x == thr[p][t]
             s == Desfecho(thr[p][t].lido, relatorio[c].status)
  <1>1. TrabalhoBom(x) /\ x.conteudo \in Conteudos \cup {Nada}
    BY DEF IInvRelatorios, Tipos, TrabalhoBom, Trabalho
  <1>2. relatorio \in [Relatorios -> Linha] /\ s \in Status
    BY <1>1 DEF IInvRelatorios, Tipos, TypeOK, Linha, Status, Desfecho
  <1>3. relatorio' = [relatorio EXCEPT ![c].hash = x.conteudo, ![c].status = s]
    BY DEF MarkSuccess
  <1>4. c \notin retomados => c \notin semResposta
    BY GeraSemTerPublicado DEF IInvRelatorios
  <1>5. c \notin retomados =>
          s = "gerado" /\ arquivo[c] = x.conteudo /\ x.conteudo # Nada
    BY <1>4 DEF IInvRelatorios, TodosIntegros, Integro, Gerando, PassoFeito, Desfecho
  <1> HIDE DEF s
  <1> DEFINE l == [relatorio[c] EXCEPT !.hash = x.conteudo, !.status = s]
  <1>6. relatorio[c] \in Linha
    BY <1>2
  <1>7. /\ l \in Linha /\ l.hash = x.conteudo /\ l.status = s
        /\ l.origem = relatorio[c].origem
    BY <1>1, <1>2, <1>6 DEF Linha
  <1>8. relatorio' = [relatorio EXCEPT ![c] = l]
    BY <1>3
  <1> HIDE DEF l
  <1>9. /\ relatorio' \in [Relatorios -> Linha]
        /\ relatorio'[c].hash = x.conteudo /\ relatorio'[c].status = s
        /\ \A r \in Relatorios : relatorio'[r].origem = relatorio[r].origem
        /\ \A r \in Relatorios : r # c => relatorio'[r] = relatorio[r]
    BY <1>2, <1>7, <1>8
  <1>10. QED
    BY <1>4, <1>5, <1>9

LEMMA PublicarPreserva ==
    ASSUME IInvRelatorios, NEW p \in Processos, NEW t \in Threads, Publicar(p, t)
    PROVE  IInvRelatorios'
  <1>1. PICK c \in Relatorios : c = Atual(thr[p][t])
    BY TrabalhoTem DEF IInvRelatorios, Tipos, Publicar
  <1>2. /\ thr[p][t].fase = "salvo" /\ MarkSuccess(p, t)
        /\ Passa(p, t, Seguinte(thr[p][t]))
        /\ UNCHANGED <<arquivo, tmp, agenda, proc, fila, relogio, quedas,
                       abortados, retomados, semResposta>>
    BY DEF Publicar, arquivos, processos, ambiente, historia
  <1>3. /\ relatorio' \in [Relatorios -> Linha]
        /\ \A r \in Relatorios : relatorio'[r].origem = relatorio[r].origem
        /\ \A r \in Relatorios : r # c => relatorio'[r] = relatorio[r]
        /\ c \notin retomados =>
             /\ c \notin semResposta /\ relatorio'[c].status = "gerado"
             /\ relatorio'[c].hash # Nada /\ arquivo[c] = relatorio'[c].hash
    BY <1>1, <1>2, MarkSuccessGrava
  <1>4. semResposta' \in SUBSET Relatorios
    BY <1>2 DEF IInvRelatorios, Tipos, TypeOK
  <1>5. QED
    BY <1>1, <1>2, <1>3, <1>4, FimPreserva

\* A lost answer leaves the report published, and its generation undoing it.
LEMMA PublicarSemRespostaPreserva ==
    ASSUME IInvRelatorios, NEW p \in Processos, NEW t \in Threads,
           PublicarSemResposta(p, t)
    PROVE  IInvRelatorios'
  <1> DEFINE x == thr[p][t]
             y == [thr[p][t] EXCEPT !.fase = "desfazer"]
  <1> USE DEF IInvRelatorios
  <1>1. PICK c \in Relatorios : c = Atual(thr[p][t])
    BY TrabalhoTem DEF Tipos, PublicarSemResposta
  <1>2. /\ x.fase = "salvo" /\ MarkSuccess(p, t) /\ Passa(p, t, y)
        /\ quedas' = quedas + 1 /\ semResposta' = semResposta \cup {c}
        /\ UNCHANGED <<arquivo, tmp, agenda, proc, fila, relogio, abortados, retomados>>
    BY <1>1 DEF PublicarSemResposta, RespostaPerdida, Avancando, arquivos, processos
  <1>3. /\ relatorio' \in [Relatorios -> Linha]
        /\ \A r \in Relatorios : relatorio'[r].origem = relatorio[r].origem
        /\ \A r \in Relatorios : r # c => relatorio'[r] = relatorio[r]
        /\ c \notin retomados =>
             /\ c \notin semResposta /\ relatorio'[c].status = "gerado"
             /\ relatorio'[c].hash # Nada /\ arquivo[c] = relatorio'[c].hash
    BY <1>1, <1>2, MarkSuccessGrava
  <1>4. TrabalhoBom(y) /\ y.fase = "desfazer" /\ y.lote = x.lote
    <2>1. TrabalhoBom(x)
      BY DEF Tipos
    <2>2. QED
      BY <1>2, <2>1 DEF TrabalhoBom, Trabalho
  <1> HIDE DEF y
  <1>5. Tipos'
    <2>1. /\ fila' \in [Processos -> Seq(LotesCheios)]
          /\ arquivo' \in [Relatorios -> Conteudos \cup {Nada}]
          /\ tmp' \in [Relatorios -> Conteudos \cup {Nada}]
          /\ abortados' \in SUBSET Relatorios /\ semResposta' \in SUBSET Relatorios
          /\ quedas' \in Nat
      BY <1>2 DEF Tipos, TypeOK
    <2>2. /\ thr' \in [Processos -> [Threads -> Trabalho]]
          /\ \A q \in Processos, u \in Threads : TrabalhoBom(thr'[q][u])
      BY <1>2, <1>4, PassaUma
    <2>3. QED
      BY <1>2, <1>3, <2>1, <2>2, TiposFicam
  <1>6. ASSUME NEW r \in Relatorios, r \notin retomados
        PROVE  Integro(r)'
    <2>1. Integro(r)
      BY <1>6 DEF TodosIntegros
    <2>2. CASE r # c
      <3>1. ~Gerando(y, r)
        BY <1>1, <1>4, <2>2 DEF Gerando, Atual
      <3>2. /\ relatorio'[r] = relatorio[r]
            /\ r \in semResposta' <=> r \in semResposta
        BY <1>2, <1>3, <2>2
      <3>3. QED
        BY <1>2, <1>4, <2>1, <3>1, <3>2, RelatorioAlheio
    <2>3. CASE r = c
      <3>1. Gerando(thr[p][t], r)
        BY <1>1, <1>2, <2>3 DEF Gerando
      <3>2. /\ thr'[p][t] = y
            /\ \A q \in Processos, u \in Threads :
                 q # p \/ u # t => ~Gerando(thr'[q][u], r)
        BY <1>2, <1>4, <2>1, <3>1, DonoSo
      <3>3. /\ relatorio'[r].status = "gerado" /\ r \in semResposta'
            /\ thr'[p][t].fase \in {"desfazer", "falhou"}
        BY <1>2, <1>3, <1>4, <1>6, <2>3, <3>2
      <3>4. QED
        BY <3>2, <3>3, RelatorioTidoPorFalho
    <2>4. QED
      BY <2>2, <2>3
  <1>7. TodosIntegros'
    BY <1>2, <1>6 DEF TodosIntegros
  <1>8. AgendaBoa'
    BY <1>2, <1>3, AgendaFica
  <1>9. QED
    BY <1>5, <1>7, <1>8

LEMMA MarkFailurePreserva ==
    ASSUME IInvRelatorios, NEW p \in Processos, NEW t \in Threads, MarkFailure(p, t)
    PROVE  IInvRelatorios'
  <1> DEFINE x == thr[p][t]
             c == Atual(thr[p][t])
  <1>1. TrabalhoBom(x) /\ c \in Relatorios /\ x.fase = "falhou"
    BY TrabalhoTem DEF IInvRelatorios, Tipos, MarkFailure
  <1>2. /\ relatorio' = [relatorio EXCEPT ![c].status = "falhou"]
        /\ Passa(p, t, Seguinte(x))
        /\ semResposta' = semResposta \ {c}
        /\ UNCHANGED <<arquivo, tmp, agenda, proc, fila, relogio, quedas,
                       abortados, retomados>>
    BY DEF MarkFailure, arquivos, processos, ambiente, historia
  <1>3. relatorio' \in [Relatorios -> Linha]
    BY <1>1, <1>2, LinhaComStatus DEF IInvRelatorios, Tipos, TypeOK, Status
  <1>4. /\ relatorio'[c].status = "falhou"
        /\ \A r \in Relatorios : relatorio'[r].origem = relatorio[r].origem
        /\ \A r \in Relatorios : r # c => relatorio'[r] = relatorio[r]
    BY <1>1, <1>2 DEF IInvRelatorios, Tipos, TypeOK, Linha
  <1>5. /\ semResposta' \in SUBSET Relatorios /\ c \notin semResposta'
        /\ \A r \in Relatorios : r # c => (r \in semResposta' <=> r \in semResposta)
    BY <1>2 DEF IInvRelatorios, Tipos, TypeOK
  <1>6. QED
    BY <1>1, <1>2, <1>3, <1>4, <1>5, FimPreserva

\* Every step of a thread keeps the invariant.
LEMMA ThreadPreserva ==
    ASSUME IInvRelatorios, NEW p \in Processos, NEW t \in Threads, ThreadStep(p, t)
    PROVE  IInvRelatorios'
  BY PegarPreserva, ClaimPreserva, CarregarPreserva, EscreverPreserva,
     SubstituirPreserva, PublicarPreserva, PublicarSemRespostaPreserva,
     FalharPreserva, RemoverPreserva, MarkFailurePreserva, AbortarPreserva
     DEF ThreadStep

-----------------------------------------------------------------------------
(* Steps of a process *)

\* A process steps, and its pool goes on or is gone with it.
LEMMA ProcessoPreserva ==
    ASSUME IInvRelatorios,
           relatorio' \in [Relatorios -> Linha],
           agenda' \in [Agendamentos -> [proxima: Nat, trava: Processos \cup {Nada}]],
           proc' \in [Processos -> Processo],
           fila' \in [Processos -> Seq(LotesCheios)],
           thr' \in [Processos -> [Threads -> Trabalho]],
           \A q \in Processos, u \in Threads :
               thr'[q][u] = thr[q][u] \/ thr'[q][u] = Ocioso,
           relogio' \in Nat, quedas' \in Nat,
           abortados' \in SUBSET Relatorios, retomados' \in SUBSET Relatorios,
           retomados \subseteq retomados',
           UNCHANGED <<arquivo, tmp, semResposta>>,
           \A r \in Relatorios \ retomados' :
               \/ relatorio'[r] = relatorio[r]
               \/ /\ relatorio[r].status # "gerado" /\ ~EmGeracao(r)
                  /\ relatorio'[r].status # "gerado",
           AgendaBoa'
    PROVE  IInvRelatorios'
  <1> USE DEF IInvRelatorios
  <1>1. \A q \in Processos, u \in Threads : TrabalhoBom(thr'[q][u])
    BY OciosoBom DEF Tipos
  <1>2. (\A q \in Processos, u \in Threads : TrabalhoBom(thr[q][u]))'
    BY <1>1 DEF TrabalhoBom
  <1>3. Tipos'
    BY <1>2, FilaEhFila DEF Tipos, TypeOK, LotesCheios
  <1>4. ASSUME NEW r \in Relatorios, r \notin retomados'
        PROVE  Integro(r)'
    <2>1. Integro(r)
      BY <1>4 DEF TodosIntegros
    <2>2. \A q \in Processos, u \in Threads :
            Gerando(thr'[q][u], r) => thr'[q][u] = thr[q][u]
      BY OciosoBom DEF Gerando
    <2>3. CASE relatorio'[r] = relatorio[r]
      BY <2>1, <2>2, <2>3, MesmoRelatorio
    <2>4. CASE /\ relatorio[r].status # "gerado" /\ ~EmGeracao(r)
               /\ relatorio'[r].status # "gerado"
      <3>1. \A q \in Processos, u \in Threads : ~Gerando(thr'[q][u], r)
        BY <2>2, <2>4 DEF EmGeracao
      <3>2. r \notin semResposta'
        BY <2>1, <2>4 DEF Integro
      <3>3. QED
        BY <2>4, <3>1, <3>2, RelatorioSolto
    <2>5. QED
      BY <1>4, <2>3, <2>4
  <1>5. TodosIntegros'
    BY <1>4 DEF TodosIntegros
  <1>6. QED
    BY <1>3, <1>5

\* A process in a phase, with nothing listed.
LEMMA EmFaseEhProcesso ==
    ASSUME NEW f \in {"morto", "subindo", "recuperando", "pronto", "emitindo_ao_subir",
                      "servindo", "emitindo"}
    PROVE  EmFase(f) \in Processo /\ EmFase(f).vencidos = {}
  BY DEF EmFase, Processo

\* The schedules of a process that forgets what it listed, and unlocks it or not.
LEMMA AgendaEsquece ==
    ASSUME Tipos, AgendaBoa, NEW p \in Processos, NEW x, x.vencidos = {},
           proc' = [proc EXCEPT ![p] = x],
           agenda' = agenda \/ agenda' = Solta(p),
           \A r \in Relatorios : relatorio'[r].origem = relatorio[r].origem
    PROVE  /\ agenda' \in [Agendamentos -> [proxima: Nat, trava: Processos \cup {Nada}]]
           /\ AgendaBoa'
  <1>1. /\ agenda \in [Agendamentos -> [proxima: Nat, trava: Processos \cup {Nada}]]
        /\ relatorio \in [Relatorios -> Linha]
        /\ proc \in [Processos -> Processo]
    BY DEF Tipos, TypeOK
  <1>2. /\ agenda' \in [Agendamentos -> [proxima: Nat, trava: Processos \cup {Nada}]]
        /\ \A s \in Agendamentos :
             /\ agenda'[s].proxima = agenda[s].proxima
             /\ agenda[s].trava # p => agenda'[s].trava = agenda[s].trava
    <2>1. CASE agenda' = agenda
      BY <1>1, <2>1
    <2>2. CASE agenda' = Solta(p)
      BY <1>1, <2>2 DEF Solta
    <2>3. QED
      BY <2>1, <2>2
  <1>3. VencidosTravados'
    <2> SUFFICES ASSUME NEW q \in Processos, NEW v \in proc'[q].vencidos
                 PROVE  /\ agenda'[v[1]].trava = q
                        /\ v[2] = agenda'[v[1]].proxima /\ v[2] <= proc'[q].agora
      BY DEF VencidosTravados
    <2>1. q # p /\ proc'[q] = proc[q]
      BY <1>1
    <2>2. /\ agenda[v[1]].trava = q
          /\ v[2] = agenda[v[1]].proxima /\ v[2] <= proc[q].agora
      BY <2>1 DEF AgendaBoa, VencidosTravados
    <2>3. v[1] \in Agendamentos
      BY <1>1, <2>1 DEF Processo
    <2>4. QED
      BY <1>2, <2>1, <2>2, <2>3
  <1>4. OrigemPassada'
    <2> SUFFICES ASSUME NEW r \in Relatorios, relatorio'[r].origem # Nada
                 PROVE  relatorio'[r].origem[2] < agenda'[relatorio'[r].origem[1]].proxima
      BY DEF OrigemPassada
    <2>1. relatorio[r].origem \in Agendamentos \X Nat
      BY <1>1 DEF Linha
    <2>2. QED
      BY <1>2, <2>1 DEF AgendaBoa, OrigemPassada
  <1>5. AgendamentoUmaVez'
    BY DEF AgendaBoa, AgendamentoUmaVez
  <1>6. QED
    BY <1>2, <1>3, <1>4, <1>5 DEF AgendaBoa

\* A row put in the queue.
NaFila(l) == [l EXCEPT !.status = "enfileirado"]

\* Rows put in the queue, and the others.
LEMMA LinhasNaFila ==
    ASSUME NEW R \in [Relatorios -> Linha], NEW I, NEW S,
           S = [r \in Relatorios |-> S[r]],
           \A r \in Relatorios : r \in I => S[r] = NaFila(R[r]),
           \A r \in Relatorios : r \notin I => S[r] = R[r]
    PROVE  /\ S \in [Relatorios -> Linha]
           /\ \A r \in Relatorios : S[r].origem = R[r].origem
           /\ \A r \in Relatorios : S[r] = R[r] \/ (r \in I /\ S[r].status = "enfileirado")
  <1>1. ASSUME NEW r \in Relatorios
        PROVE  /\ S[r] \in Linha /\ S[r].origem = R[r].origem
               /\ S[r] = R[r] \/ (r \in I /\ S[r].status = "enfileirado")
    <2>1. R[r] \in Linha
      OBVIOUS
    <2>2. CASE r \notin I
      BY <2>1, <2>2
    <2>3. CASE r \in I
      <3>1. S[r] = [R[r] EXCEPT !.status = "enfileirado"]
        BY <2>3 DEF NaFila
      <3>2. QED
        BY <2>1, <2>3, <3>1 DEF Linha, Status
    <2>4. QED
      BY <2>2, <2>3
  <1>2. S \in [Relatorios -> Linha]
    BY <1>1
  <1>3. QED
    BY <1>1, <1>2

\* What is delivered goes to the pool, or waits for a process to start.
LEMMA EntregarBom ==
    ASSUME Tipos, NEW p \in Processos, NEW ids \in SUBSET Relatorios, Entregar(p, ids)
    PROVE  /\ fila' \in [Processos -> Seq(LotesCheios)]
           /\ quedas' \in Nat /\ abortados' \in SUBSET Relatorios
  <1>1. /\ fila \in [Processos -> Seq(LotesCheios)]
        /\ quedas \in Nat /\ abortados \in SUBSET Relatorios
    BY DEF Tipos, TypeOK
  <1>2. CASE /\ \E l \in Lotes(ids) : fila' = Enfileirado(p, l)
             /\ UNCHANGED <<quedas, abortados>>
    BY <1>1, <1>2, LotesSao, FilaBoa
  <1>3. CASE /\ RespostaPerdida /\ abortados' = abortados \cup ids
             /\ UNCHANGED fila
    BY <1>1, <1>3 DEF RespostaPerdida
  <1>4. QED
    BY <1>2, <1>3 DEF Entregar

\* New rows were absent, so nobody generates them.
LEMMA SolicitarPreserva ==
    ASSUME IInvRelatorios, NEW p \in Processos, Solicitar(p)
    PROVE  IInvRelatorios'
  <1>1. PICK ids \in SUBSET {r \in Avulsos : relatorio[r].status = "ausente"} :
          /\ relatorio' = [r \in Relatorios |->
               IF r \in ids THEN [relatorio[r] EXCEPT !.status = "enfileirado"]
               ELSE relatorio[r]]
          /\ Entregar(p, ids)
    BY DEF Solicitar
  <1>2. ids \in SUBSET Relatorios
    BY ConstantsAssumption
  <1>3. relatorio \in [Relatorios -> Linha]
    BY DEF IInvRelatorios, Tipos, TypeOK
  <1>5. /\ relatorio' \in [Relatorios -> Linha]
        /\ \A r \in Relatorios : relatorio'[r].origem = relatorio[r].origem
        /\ \A r \in Relatorios :
             \/ relatorio'[r] = relatorio[r]
             \/ r \in ids /\ relatorio'[r].status = "enfileirado"
    <2>1. /\ relatorio' = [r \in Relatorios |-> relatorio'[r]]
          /\ \A r \in Relatorios : r \in ids => relatorio'[r] = NaFila(relatorio[r])
          /\ \A r \in Relatorios : r \notin ids => relatorio'[r] = relatorio[r]
      BY <1>1 DEF NaFila
    <2>2. QED
      BY <1>3, <2>1, LinhasNaFila
  <1>6. /\ fila' \in [Processos -> Seq(LotesCheios)]
        /\ quedas' \in Nat /\ abortados' \in SUBSET Relatorios
    BY <1>1, <1>2, EntregarBom DEF IInvRelatorios
  <1>7. \A r \in Relatorios \ retomados :
          \/ relatorio'[r] = relatorio[r]
          \/ /\ relatorio[r].status # "gerado" /\ ~EmGeracao(r)
             /\ relatorio'[r].status # "gerado"
    BY <1>1, <1>5 DEF IInvRelatorios, TodosIntegros, Integro, EmGeracao
  <1>8. UNCHANGED <<arquivo, tmp, agenda, proc, thr, relogio, retomados, semResposta>>
    BY DEF Solicitar, arquivos
  <1>9. AgendaBoa'
    BY <1>5, <1>8, AgendaFica DEF IInvRelatorios
  <1>10. QED
    BY <1>5, <1>6, <1>7, <1>8, <1>9, ProcessoPreserva DEF IInvRelatorios, Tipos, TypeOK

LEMMA RecoverLerPreserva ==
    ASSUME IInvRelatorios, NEW p \in Processos, RecoverLer(p)
    PROVE  IInvRelatorios'
  <1> DEFINE ids == {r \in Relatorios : Pendente(relatorio[r].status)}
             presos == {r \in ids : relatorio[r].status = "processando"}
             x == [EmFase("recuperando") EXCEPT !.lista = ids, !.presos = presos]
  <1>1. proc' = [proc EXCEPT ![p] = x]
    BY DEF RecoverLer
  <1>2. ids \in SUBSET Relatorios /\ presos \in SUBSET Relatorios
    OBVIOUS
  <1> HIDE DEF ids, presos
  <1>3. x \in Processo /\ x.vencidos = {}
    BY <1>2, EmFaseEhProcesso DEF Processo
  <1> HIDE DEF x
  <1>4. UNCHANGED <<relatorio, arquivo, tmp, agenda, fila, thr, relogio, quedas,
                    abortados, retomados, semResposta>>
    BY DEF RecoverLer, arquivos, ambiente, historia
  <1>5. proc' \in [Processos -> Processo]
    BY <1>1, <1>3 DEF IInvRelatorios, Tipos, TypeOK
  <1>6. AgendaBoa'
    BY <1>1, <1>3, <1>4, AgendaEsquece DEF IInvRelatorios
  <1>7. QED
    BY <1>4, <1>5, <1>6, ProcessoPreserva DEF IInvRelatorios, Tipos, TypeOK

\* A recovery puts back reports nobody generates, or is recorded as taking them.
LEMMA RecoverGravarPreserva ==
    ASSUME IInvRelatorios, NEW p \in Processos, RecoverGravar(p)
    PROVE  IInvRelatorios'
  <1> DEFINE x == EmFase("pronto")
  <1>0. PICK presos \in SUBSET Relatorios : presos = proc[p].presos
    BY DEF IInvRelatorios, Tipos, TypeOK, Processo
  <1>1. /\ relatorio' = [r \in Relatorios |->
                           IF r \in presos
                           THEN [relatorio[r] EXCEPT !.status = "enfileirado"]
                           ELSE relatorio[r]]
        /\ retomados' = retomados \cup
             {r \in presos : EmGeracao(r) \/ relatorio[r].status = "gerado"}
        /\ \E l \in Lotes(proc[p].lista) : fila' = Enfileirado(p, l)
        /\ proc' = [proc EXCEPT ![p] = x]
    BY <1>0 DEF RecoverGravar
  <1>2. abortados' \in SUBSET Relatorios
    BY DEF RecoverGravar, IInvRelatorios, Tipos, TypeOK
  <1>3. /\ UNCHANGED <<arquivo, tmp, agenda, thr, relogio, quedas, semResposta>>
    BY DEF RecoverGravar, arquivos, ambiente
  <1>4. /\ relatorio \in [Relatorios -> Linha]
        /\ proc[p].lista \in SUBSET Relatorios
    BY DEF IInvRelatorios, Tipos, TypeOK, Processo
  <1>6. /\ relatorio' \in [Relatorios -> Linha]
        /\ \A r \in Relatorios : relatorio'[r].origem = relatorio[r].origem
        /\ \A r \in Relatorios :
             \/ relatorio'[r] = relatorio[r]
             \/ r \in presos /\ relatorio'[r].status = "enfileirado"
    <2>1. relatorio' = [r \in Relatorios |->
                          IF r \in presos
                          THEN [relatorio[r] EXCEPT !.status = "enfileirado"]
                          ELSE relatorio[r]]
      BY <1>1
    <2>2. relatorio \in [Relatorios -> Linha]
      BY <1>4
    <2>3. /\ relatorio' = [r \in Relatorios |-> relatorio'[r]]
          /\ \A r \in Relatorios : r \in presos => relatorio'[r] = NaFila(relatorio[r])
          /\ \A r \in Relatorios : r \notin presos => relatorio'[r] = relatorio[r]
      BY <2>1 DEF NaFila
    <2>4. QED
      BY <2>2, <2>3, LinhasNaFila
  <1>7. fila' \in [Processos -> Seq(LotesCheios)]
    BY <1>1, <1>4, LotesSao, FilaBoa DEF IInvRelatorios
  <1>8. x \in Processo /\ x.vencidos = {}
    BY EmFaseEhProcesso
  <1> HIDE DEF x
  <1>9. proc' \in [Processos -> Processo]
    BY <1>1, <1>8 DEF IInvRelatorios, Tipos, TypeOK
  <1>10. AgendaBoa'
    BY <1>1, <1>3, <1>6, <1>8, AgendaEsquece DEF IInvRelatorios
  <1>11. retomados' \in SUBSET Relatorios /\ retomados \subseteq retomados'
    BY <1>1, <1>4 DEF IInvRelatorios, Tipos, TypeOK
  <1>12. \A r \in Relatorios \ retomados' :
           \/ relatorio'[r] = relatorio[r]
           \/ /\ relatorio[r].status # "gerado" /\ ~EmGeracao(r)
             /\ relatorio'[r].status # "gerado"
    BY <1>1, <1>6
  <1>13. QED
    BY <1>2, <1>3, <1>6, <1>7, <1>9, <1>10, <1>11, <1>12, ProcessoPreserva
       DEF IInvRelatorios, Tipos, TypeOK

\* What is listed was locked by nobody, so no other process has listed it.
LEMMA ListarPreserva ==
    ASSUME IInvRelatorios, NEW p \in Processos, ListarVencidos(p)
    PROVE  IInvRelatorios'
  <1>1. PICK D \in SUBSET Agendamentos : D = Vencidos
    BY DEF Vencidos
  <1>2. /\ agenda \in [Agendamentos -> [proxima: Nat, trava: Processos \cup {Nada}]]
        /\ relatorio \in [Relatorios -> Linha]
        /\ proc \in [Processos -> Processo] /\ relogio \in Nat
    BY DEF IInvRelatorios, Tipos, TypeOK
  <1>3. \A s \in D : agenda[s].proxima <= relogio /\ agenda[s].trava = Nada
    BY <1>1 DEF Vencidos, Livre
  <1>4. /\ agenda' = [s \in Agendamentos |->
                        IF s \in D THEN [agenda[s] EXCEPT !.trava = p] ELSE agenda[s]]
        /\ UNCHANGED <<relatorio, arquivo, tmp, fila, thr, relogio, quedas,
                       abortados, retomados, semResposta>>
    BY <1>1 DEF ListarVencidos, arquivos, ambiente, historia
  <1>5. PICK x \in Processo :
          /\ proc' = [proc EXCEPT ![p] = x]
          /\ x.vencidos = {<<s, agenda[s].proxima>> : s \in D}
          /\ x.agora = relogio
    <2>1. PICK f \in {"emitindo_ao_subir", "emitindo"} :
            proc' = [proc EXCEPT ![p] =
                       [EmFase(f) EXCEPT
                          !.vencidos = {<<s, agenda[s].proxima>> : s \in D},
                          !.agora = relogio]]
      BY <1>1 DEF ListarVencidos
    <2> DEFINE L == {<<s, agenda[s].proxima>> : s \in D}
    <2>2. L \in SUBSET (Agendamentos \X Nat)
      BY <1>2
    <2> HIDE DEF L
    <2>3. [EmFase(f) EXCEPT !.vencidos = L, !.agora = relogio] \in Processo
      BY <1>2, <2>2, EmFaseEhProcesso DEF Processo
    <2>4. /\ [EmFase(f) EXCEPT !.vencidos = L, !.agora = relogio].vencidos = L
          /\ [EmFase(f) EXCEPT !.vencidos = L, !.agora = relogio].agora = relogio
      BY DEF EmFase
    <2>5. QED
      BY <2>1, <2>3, <2>4 DEF L
  <1>6. /\ agenda' \in [Agendamentos -> [proxima: Nat, trava: Processos \cup {Nada}]]
        /\ \A s \in Agendamentos :
             /\ agenda'[s].proxima = agenda[s].proxima
             /\ agenda'[s].trava = IF s \in D THEN p ELSE agenda[s].trava
    <2>1. ASSUME NEW s \in Agendamentos
          PROVE  /\ agenda'[s] \in [proxima: Nat, trava: Processos \cup {Nada}]
                 /\ agenda'[s].proxima = agenda[s].proxima
                 /\ agenda'[s].trava = IF s \in D THEN p ELSE agenda[s].trava
      <3>1. agenda[s] \in [proxima: Nat, trava: Processos \cup {Nada}]
        BY <1>2
      <3>2. CASE s \in D
        BY <1>4, <3>1, <3>2
      <3>3. CASE s \notin D
        BY <1>4, <3>1, <3>3
      <3>4. QED
        BY <3>2, <3>3
    <2>2. agenda' = [s \in Agendamentos |-> agenda'[s]]
      BY <1>4
    <2>3. QED
      BY <2>1, <2>2
  <1>7. VencidosTravados'
    <2> SUFFICES ASSUME NEW q \in Processos, NEW v \in proc'[q].vencidos
                 PROVE  /\ agenda'[v[1]].trava = q
                        /\ v[2] = agenda'[v[1]].proxima /\ v[2] <= proc'[q].agora
      BY DEF VencidosTravados
    <2>1. CASE q = p
      <3>1. proc'[q] = x
        BY <1>2, <1>5, <2>1
      <3>2. PICK s \in D : v = <<s, agenda[s].proxima>>
        BY <1>5, <3>1
      <3>3. v[1] = s /\ v[2] = agenda[s].proxima
        BY <3>2
      <3>4. QED
        BY <1>3, <1>5, <1>6, <2>1, <3>1, <3>2, <3>3
    <2>2. CASE q # p
      <3>1. proc'[q] = proc[q]
        BY <1>2, <1>5, <2>2
      <3>2. /\ agenda[v[1]].trava = q
            /\ v[2] = agenda[v[1]].proxima /\ v[2] <= proc[q].agora
        BY <3>1 DEF IInvRelatorios, AgendaBoa, VencidosTravados
      <3>3. v[1] \in Agendamentos
        BY <1>2, <3>1 DEF Processo
      <3>4. v[1] \notin D
        BY <1>3, <3>2, ConstantsAssumption
      <3>5. QED
        BY <1>6, <3>1, <3>2, <3>3, <3>4
    <2>3. QED
      BY <2>1, <2>2
  <1>8. OrigemPassada'
    <2> SUFFICES ASSUME NEW r \in Relatorios, relatorio'[r].origem # Nada
                 PROVE  relatorio'[r].origem[2] < agenda'[relatorio'[r].origem[1]].proxima
      BY DEF OrigemPassada
    <2>1. relatorio[r].origem \in Agendamentos \X Nat
      BY <1>2, <1>4 DEF Linha
    <2>2. QED
      BY <1>4, <1>6, <2>1 DEF IInvRelatorios, AgendaBoa, OrigemPassada
  <1>9. AgendamentoUmaVez'
    BY <1>4 DEF IInvRelatorios, AgendaBoa, AgendamentoUmaVez
  <1>10. AgendaBoa'
    BY <1>7, <1>8, <1>9 DEF AgendaBoa
  <1>11. proc' \in [Processos -> Processo]
    BY <1>2, <1>5
  <1>12. QED
    BY <1>4, <1>6, <1>10, <1>11, ProcessoPreserva DEF IInvRelatorios, Tipos, TypeOK

\* The emission of what was listed, which is still as it was listed.
LEMMA EmitirPreserva ==
    ASSUME IInvRelatorios, NEW p \in Processos, Emitir(p)
    PROVE  IInvRelatorios'
  <1>1. /\ agenda \in [Agendamentos -> [proxima: Nat, trava: Processos \cup {Nada}]]
        /\ relatorio \in [Relatorios -> Linha]
        /\ proc \in [Processos -> Processo]
    BY DEF IInvRelatorios, Tipos, TypeOK
  <1>2. PICK V \in SUBSET (Agendamentos \X Nat) : V = proc[p].vencidos
    BY <1>1 DEF Processo
  <1>3. PICK f \in NovasLinhas(V) : f = CHOOSE g \in NovasLinhas(V) : TRUE
    BY <1>2 DEF Emitir
  <1>4. /\ f \in [V -> Relatorios]
        /\ \A v \in V : relatorio[f[v]].status = "ausente"
        /\ \A v, w \in V : v # w => f[v] # f[w]
    BY <1>3 DEF NovasLinhas
  <1>5. PICK ids \in SUBSET Relatorios : ids = {f[v] : v \in V}
    BY <1>4
  <1>6. /\ relatorio' = [r \in Relatorios |->
             IF \E v \in V : f[v] = r
             THEN [status |-> "enfileirado", hash |-> Nada,
                   origem |-> CHOOSE v \in V : f[v] = r]
             ELSE relatorio[r]]
        /\ Entregar(p, ids)
        /\ agenda' = [s \in Agendamentos |->
             IF s \in {v[1] : v \in V}
             THEN [proxima |-> proc[p].agora + 1, trava |-> Nada]
             ELSE agenda[s]]
    BY <1>2, <1>3, <1>5 DEF Emitir
  <1>7. /\ proc' = [proc EXCEPT ![p] = EmFase("servindo")]
        /\ UNCHANGED <<arquivo, tmp, thr, relogio, retomados, semResposta>>
    BY DEF Emitir, arquivos
  <1>8. \A v \in V : /\ v[1] \in Agendamentos /\ v[2] \in Nat
                     /\ agenda[v[1]].trava = p
                     /\ v[2] = agenda[v[1]].proxima /\ v[2] <= proc[p].agora
    BY <1>2 DEF IInvRelatorios, AgendaBoa, VencidosTravados
  <1>9. ASSUME NEW v \in V
        PROVE  /\ relatorio'[f[v]].status = "enfileirado"
               /\ relatorio'[f[v]].hash = Nada
               /\ relatorio'[f[v]].origem = v
    <2>1. f[v] \in Relatorios /\ \E w \in V : f[w] = f[v]
      BY <1>4
    <2>2. (CHOOSE w \in V : f[w] = f[v]) = v
      BY <1>4
    <2>3. QED
      BY <1>6, <2>1, <2>2
  <1>10. \A r \in Relatorios : r \notin ids => relatorio'[r] = relatorio[r]
    BY <1>5, <1>6
  <1>11. relatorio' \in [Relatorios -> Linha]
    <2>1. ASSUME NEW r \in Relatorios
          PROVE  relatorio'[r] \in Linha
      <3>1. CASE r \notin ids
        BY <1>1, <1>10, <3>1
      <3>2. CASE r \in ids
        <4>1. PICK v \in V : f[v] = r
          BY <1>5, <3>2
        <4>2. relatorio'[r] = [status |-> "enfileirado", hash |-> Nada,
                               origem |-> CHOOSE w \in V : f[w] = r]
          BY <1>6, <4>1
        <4>3. relatorio'[r].origem = v
          BY <1>9, <4>1
        <4>4. (CHOOSE w \in V : f[w] = r) \in V
          BY <4>1
        <4>5. QED
          BY <4>2, <4>4 DEF Linha, Status
      <3>3. QED
        BY <3>1, <3>2
    <2>2. relatorio' = [r \in Relatorios |-> relatorio'[r]]
      BY <1>6
    <2>3. QED
      BY <2>1, <2>2
  <1>12. /\ agenda' \in [Agendamentos -> [proxima: Nat, trava: Processos \cup {Nada}]]
         /\ \A s \in Agendamentos :
              s \notin {v[1] : v \in V} => agenda'[s] = agenda[s]
         /\ \A v \in V : agenda'[v[1]].proxima = proc[p].agora + 1
    <2>1. proc[p].agora \in Nat
      BY <1>1 DEF Processo
    <2>2. ASSUME NEW s \in Agendamentos
          PROVE  agenda'[s] \in [proxima: Nat, trava: Processos \cup {Nada}]
      BY <1>1, <1>6, <2>1
    <2>3. agenda' = [s \in Agendamentos |-> agenda'[s]]
      BY <1>6
    <2>4. QED
      BY <1>6, <1>8, <2>2, <2>3
  <1>13. EmFase("servindo") \in Processo /\ EmFase("servindo").vencidos = {}
    BY EmFaseEhProcesso
  <1>14. proc' \in [Processos -> Processo]
    BY <1>1, <1>7, <1>13
  <1>15. /\ fila' \in [Processos -> Seq(LotesCheios)]
         /\ quedas' \in Nat /\ abortados' \in SUBSET Relatorios
    BY <1>6, EntregarBom DEF IInvRelatorios
  <1>16. VencidosTravados'
    <2> SUFFICES ASSUME NEW q \in Processos, NEW v \in proc'[q].vencidos
                 PROVE  /\ agenda'[v[1]].trava = q
                        /\ v[2] = agenda'[v[1]].proxima /\ v[2] <= proc'[q].agora
      BY DEF VencidosTravados
    <2>1. q # p /\ proc'[q] = proc[q]
      BY <1>1, <1>7, <1>13
    <2>2. /\ agenda[v[1]].trava = q
          /\ v[2] = agenda[v[1]].proxima /\ v[2] <= proc[q].agora
      BY <2>1 DEF IInvRelatorios, AgendaBoa, VencidosTravados
    <2>3. v[1] \in Agendamentos
      BY <1>1, <2>1 DEF Processo
    <2>4. v[1] \notin {w[1] : w \in V}
      BY <1>8, <2>1, <2>2
    <2>5. QED
      BY <1>12, <2>1, <2>2, <2>3, <2>4
  <1>17. ASSUME NEW r \in Relatorios, relatorio[r].origem # Nada
         PROVE  /\ relatorio[r].origem \in Agendamentos \X Nat
                /\ relatorio[r].origem[2] < agenda[relatorio[r].origem[1]].proxima
    BY <1>1, <1>17 DEF IInvRelatorios, AgendaBoa, OrigemPassada, Linha
  <1>18. OrigemPassada'
    <2> SUFFICES ASSUME NEW r \in Relatorios, relatorio'[r].origem # Nada
                 PROVE  relatorio'[r].origem[2] < agenda'[relatorio'[r].origem[1]].proxima
      BY DEF OrigemPassada
    <2>0. proc[p].agora \in Nat
      BY <1>1 DEF Processo
    <2>1. CASE r \in ids
      <3>1. PICK v \in V : f[v] = r
        BY <1>5, <2>1
      <3>2. relatorio'[r].origem = v
        BY <1>9, <3>1
      <3>3. v[2] <= proc[p].agora /\ v[2] \in Nat
        BY <1>8
      <3>4. agenda'[v[1]].proxima = proc[p].agora + 1
        BY <1>12
      <3>5. QED
        BY <2>0, <3>2, <3>3, <3>4
    <2>2. CASE r \notin ids
      <3>1. relatorio'[r] = relatorio[r]
        BY <1>10, <2>2
      <3>2. PICK s \in Agendamentos, n \in Nat : relatorio[r].origem = <<s, n>>
        BY <1>17, <3>1
      <3>3. n < agenda[s].proxima
        <4>1. relatorio[r].origem[2] < agenda[relatorio[r].origem[1]].proxima
          BY <1>17, <3>1
        <4>2. relatorio[r].origem[1] = s /\ relatorio[r].origem[2] = n
          BY <3>2
        <4>3. QED
          BY <4>1, <4>2
      <3>4. CASE s \notin {v[1] : v \in V}
        BY <1>12, <3>1, <3>2, <3>3, <3>4
      <3>5. CASE s \in {v[1] : v \in V}
        <4>1. PICK v \in V : v[1] = s
          BY <3>5
        <4>2. agenda[s].proxima = v[2] /\ v[2] <= proc[p].agora /\ v[2] \in Nat
          BY <1>8, <4>1
        <4>3. agenda'[s].proxima = proc[p].agora + 1
          BY <1>12, <4>1
        <4>4. n < agenda'[s].proxima
          BY <2>0, <3>3, <4>2, <4>3
        <4>5. QED
          BY <3>1, <3>2, <4>4
      <3>6. QED
        BY <3>4, <3>5
    <2>3. QED
      BY <2>1, <2>2
  <1>19. AgendamentoUmaVez'
    <2>1. ASSUME NEW r \in ids, NEW q \in Relatorios, q \notin ids
          PROVE  relatorio'[r].origem # relatorio'[q].origem
      <3>1. PICK v \in V : f[v] = r
        BY <1>5, <2>1
      <3>2. relatorio'[r].origem = v
        BY <1>9, <3>1
      <3>3. relatorio'[q] = relatorio[q]
        BY <1>10, <2>1
      <3>4. v \in Agendamentos \X Nat
        BY <1>2
      <3>5. CASE relatorio[q].origem = Nada
        BY <3>2, <3>3, <3>4, <3>5, ConstantsAssumption
      <3>6. CASE relatorio[q].origem # Nada
        <4>1. relatorio[q].origem[2] < agenda[relatorio[q].origem[1]].proxima
          BY <1>17, <3>6
        <4>2. v[2] = agenda[v[1]].proxima /\ v[2] \in Nat
          BY <1>8
        <4>3. relatorio[q].origem # v
          BY <4>1, <4>2
        <4>4. QED
          BY <3>2, <3>3, <4>3
      <3>7. QED
        BY <3>5, <3>6
    <2>2. ASSUME NEW r \in ids, NEW q \in ids, r # q
          PROVE  relatorio'[r].origem # relatorio'[q].origem
      <3>1. PICK v \in V : f[v] = r
        BY <1>5, <2>2
      <3>2. PICK w \in V : f[w] = q
        BY <1>5, <2>2
      <3>3. QED
        BY <1>9, <2>2, <3>1, <3>2
    <2>3. ASSUME NEW r \in Relatorios, NEW q \in Relatorios, r # q,
                 relatorio'[r].origem # Nada
          PROVE  relatorio'[r].origem # relatorio'[q].origem
      <3>1. CASE r \in ids /\ q \in ids
        BY <2>2, <2>3, <3>1
      <3>2. CASE r \in ids /\ q \notin ids
        BY <2>1, <3>2
      <3>3. CASE r \notin ids /\ q \in ids
        BY <2>1, <3>3
      <3>4. CASE r \notin ids /\ q \notin ids
        <4>1. relatorio'[r] = relatorio[r] /\ relatorio'[q] = relatorio[q]
          BY <1>10, <3>4
        <4>2. QED
          BY <2>3, <4>1 DEF IInvRelatorios, AgendaBoa, AgendamentoUmaVez
      <3>5. QED
        BY <3>1, <3>2, <3>3, <3>4
    <2>4. QED
      BY <2>3 DEF AgendamentoUmaVez
  <1>20. AgendaBoa'
    BY <1>16, <1>18, <1>19 DEF AgendaBoa
  <1>21. \A r \in Relatorios \ retomados :
           \/ relatorio'[r] = relatorio[r]
           \/ /\ relatorio[r].status # "gerado" /\ ~EmGeracao(r)
             /\ relatorio'[r].status # "gerado"
    <2>1. ASSUME NEW r \in Relatorios, r \notin retomados, r \in ids
          PROVE  /\ relatorio[r].status # "gerado" /\ ~EmGeracao(r)
                 /\ relatorio'[r].status # "gerado"
      <3>1. PICK v \in V : f[v] = r
        BY <1>5, <2>1
      <3>2. relatorio[r].status = "ausente" /\ relatorio'[r].status = "enfileirado"
        BY <1>4, <1>9, <3>1
      <3>3. QED
        BY <2>1, <3>2 DEF IInvRelatorios, TodosIntegros, Integro, EmGeracao
    <2>2. QED
      BY <1>10, <2>1
  <1>22. QED
    BY <1>7, <1>11, <1>12, <1>14, <1>15, <1>20, <1>21, ProcessoPreserva
       DEF IInvRelatorios, Tipos, TypeOK

LEMMA EmissaoDesfeitaPreserva ==
    ASSUME IInvRelatorios, NEW p \in Processos, EmissaoDesfeita(p)
    PROVE  IInvRelatorios'
  <1>1. PICK x \in Processo : x = EmFase("servindo") /\ x.vencidos = {}
    BY EmFaseEhProcesso
  <1>2. /\ proc' = [proc EXCEPT ![p] = x] /\ agenda' = Solta(p)
        /\ UNCHANGED <<relatorio, arquivo, tmp, fila, thr, relogio, quedas,
                       abortados, retomados, semResposta>>
    BY <1>1 DEF EmissaoDesfeita, arquivos, ambiente, historia
  <1>3. proc' \in [Processos -> Processo]
    BY <1>2 DEF IInvRelatorios, Tipos, TypeOK
  <1>4. /\ agenda' \in [Agendamentos -> [proxima: Nat, trava: Processos \cup {Nada}]]
        /\ AgendaBoa'
    BY <1>1, <1>2, AgendaEsquece DEF IInvRelatorios
  <1>5. QED
    BY <1>2, <1>3, <1>4, ProcessoPreserva DEF IInvRelatorios, Tipos, TypeOK

\* A process that dies generates nothing more, and unlocks what it had listed.
LEMMA QuedaPreserva ==
    ASSUME IInvRelatorios, NEW p \in Processos, Queda(p)
    PROVE  IInvRelatorios'
  <1>1. PICK x \in Processo : x = EmFase("morto") /\ x.vencidos = {}
    BY EmFaseEhProcesso
  <1>2. /\ proc' = [proc EXCEPT ![p] = x] /\ agenda' = Solta(p)
        /\ fila' = [fila EXCEPT ![p] = <<>>]
        /\ thr' = [thr EXCEPT ![p] = [t \in Threads |-> Ocioso]]
        /\ quedas' = quedas + 1
        /\ UNCHANGED <<relatorio, arquivo, tmp, relogio,
                       abortados, retomados, semResposta>>
    BY <1>1 DEF Queda, arquivos, historia
  <1>3. proc' \in [Processos -> Processo] /\ quedas' \in Nat
    BY <1>2 DEF IInvRelatorios, Tipos, TypeOK
  <1>4. fila' \in [Processos -> Seq(LotesCheios)]
    <2>1. <<>> \in Seq(LotesCheios)
      OBVIOUS
    <2>2. QED
      BY <1>2, <2>1 DEF IInvRelatorios, Tipos
  <1>5. /\ thr' \in [Processos -> [Threads -> Trabalho]]
        /\ \A q \in Processos, u \in Threads :
             thr'[q][u] = thr[q][u] \/ thr'[q][u] = Ocioso
    <2>1. Ocioso \in Trabalho
      BY OciosoBom DEF TrabalhoBom
    <2>2. thr \in [Processos -> [Threads -> Trabalho]]
      BY DEF IInvRelatorios, Tipos, TypeOK
    <2>3. [t \in Threads |-> Ocioso] \in [Threads -> Trabalho]
      BY <2>1
    <2>4. thr' \in [Processos -> [Threads -> Trabalho]]
      BY <1>2, <2>2, <2>3
    <2>5. ASSUME NEW q \in Processos, NEW u \in Threads
          PROVE  thr'[q][u] = thr[q][u] \/ thr'[q][u] = Ocioso
      BY <1>2, <2>2
    <2>6. QED
      BY <2>4, <2>5
  <1>6. /\ agenda' \in [Agendamentos -> [proxima: Nat, trava: Processos \cup {Nada}]]
        /\ AgendaBoa'
    BY <1>1, <1>2, AgendaEsquece DEF IInvRelatorios
  <1>7. QED
    BY <1>2, <1>3, <1>4, <1>5, <1>6, ProcessoPreserva
       DEF IInvRelatorios, Tipos, TypeOK

LEMMA SubirPreserva ==
    ASSUME IInvRelatorios, NEW p \in Processos, Subir(p)
    PROVE  IInvRelatorios'
  <1>1. PICK x \in Processo : x = EmFase("subindo") /\ x.vencidos = {}
    BY EmFaseEhProcesso
  <1>2. /\ proc' = [proc EXCEPT ![p] = x]
        /\ UNCHANGED <<relatorio, arquivo, tmp, agenda, fila, thr, relogio, quedas,
                       abortados, retomados, semResposta>>
    BY <1>1 DEF Subir, arquivos, ambiente, historia
  <1>3. proc' \in [Processos -> Processo]
    BY <1>2 DEF IInvRelatorios, Tipos, TypeOK
  <1>4. AgendaBoa'
    BY <1>1, <1>2, AgendaEsquece DEF IInvRelatorios
  <1>5. QED
    BY <1>2, <1>3, <1>4, ProcessoPreserva DEF IInvRelatorios, Tipos, TypeOK

LEMMA TempoPreserva ==
    ASSUME IInvRelatorios, Tempo
    PROVE  IInvRelatorios'
  <1>1. /\ relogio' = relogio + 1
        /\ UNCHANGED <<relatorio, arquivo, tmp, agenda, proc, fila, thr, quedas,
                       abortados, retomados, semResposta>>
    BY DEF Tempo, arquivos, processos, historia
  <1>2. AgendaBoa'
    BY <1>1, AgendaFica DEF IInvRelatorios
  <1>3. QED
    BY <1>1, <1>2, ProcessoPreserva DEF IInvRelatorios, Tipos, TypeOK

-----------------------------------------------------------------------------
(* The invariant *)

LEMMA InicioRelatorios ==
    ASSUME Init
    PROVE  IInvRelatorios
  <1>1. \A p \in Processos, t \in Threads : thr[p][t] = Ocioso
    BY DEF Init
  <1>2. \A p \in Processos : proc[p] = EmFase("servindo")
    BY DEF Init
  <1>3. Tipos
    <2>1. thr \in [Processos -> [Threads -> Trabalho]]
      <3>1. Ocioso \in Trabalho
        BY OciosoBom DEF TrabalhoBom
      <3>2. QED
        BY <3>1 DEF Init
    <2>2. \A p \in Processos, t \in Threads : TrabalhoBom(thr[p][t])
      BY <1>1, OciosoBom
    <2>3. fila \in [Processos -> Seq(LotesCheios)]
      <3>1. <<>> \in Seq(LotesCheios)
        OBVIOUS
      <3>2. QED
        BY <3>1 DEF Init
    <2>4. fila \in [Processos -> Seq(Seq(Relatorios))]
      BY <2>3, FilaEhFila
    <2>5. proc \in [Processos -> Processo]
      BY EmFaseEhProcesso DEF Init
    <2>6. relatorio \in [Relatorios -> Linha]
      BY DEF Init, Linha, Status
    <2>7. /\ arquivo \in [Relatorios -> Conteudos \cup {Nada}]
          /\ tmp \in [Relatorios -> Conteudos \cup {Nada}]
          /\ agenda \in [Agendamentos -> [proxima: Nat, trava: Processos \cup {Nada}]]
          /\ relogio \in Nat /\ quedas \in Nat
          /\ abortados \subseteq Relatorios /\ retomados \subseteq Relatorios
          /\ semResposta \subseteq Relatorios
      BY DEF Init
    <2>8. TypeOK
      BY <2>1, <2>4, <2>5, <2>6, <2>7 DEF TypeOK
    <2>9. QED
      BY <2>2, <2>3, <2>8 DEF Tipos
  <1>4. TodosIntegros
    <2>1. \A r \in Relatorios, p \in Processos, t \in Threads : ~Gerando(thr[p][t], r)
      BY <1>1, OciosoBom DEF Gerando
    <2>2. \A r \in Relatorios : relatorio[r].status = "ausente" /\ r \notin semResposta
      BY DEF Init
    <2>3. QED
      BY <2>1, <2>2 DEF TodosIntegros, Integro
  <1>5. AgendaBoa
    <2>1. \A p \in Processos : proc[p].vencidos = {}
      BY <1>2, EmFaseEhProcesso
    <2>2. \A r \in Relatorios : relatorio[r].origem = Nada
      BY DEF Init
    <2>3. QED
      BY <2>1, <2>2 DEF AgendaBoa, VencidosTravados, OrigemPassada, AgendamentoUmaVez
  <1>6. QED
    BY <1>3, <1>4, <1>5 DEF IInvRelatorios

\* Every step keeps the invariant.
LEMMA RelatoriosPasso ==
    ASSUME IInvRelatorios, [Next]_vars
    PROVE  IInvRelatorios'
  <1>1. CASE UNCHANGED vars
    <2>1. UNCHANGED <<relatorio, arquivo, tmp, agenda, proc, fila, thr, relogio, quedas,
                      abortados, retomados, semResposta>>
      BY <1>1 DEF vars
    <2>2. AgendaBoa'
      BY <2>1, AgendaFica DEF IInvRelatorios
    <2>3. QED
      BY <2>1, <2>2, ProcessoPreserva DEF IInvRelatorios, Tipos, TypeOK
  <1>2. ASSUME NEW p \in Processos, NEW t \in Threads, ThreadStep(p, t)
        PROVE  IInvRelatorios'
    BY <1>2, ThreadPreserva
  <1>3. ASSUME NEW p \in Processos,
               ProcessStep(p) \/ Solicitar(p) \/ EmissaoDesfeita(p) \/ Queda(p)
        PROVE  IInvRelatorios'
    BY <1>3, RecoverLerPreserva, RecoverGravarPreserva, ListarPreserva, EmitirPreserva,
       SubirPreserva, SolicitarPreserva, EmissaoDesfeitaPreserva, QuedaPreserva
       DEF ProcessStep
  <1>4. CASE Tempo
    BY <1>4, TempoPreserva
  <1>5. QED
    BY <1>1, <1>2, <1>3, <1>4 DEF Next

\* The inductive invariant holds in every reachable state of the reports: the
\* types, the integrity of each report and the bookkeeping of the schedules.
THEOREM RelatoriosInvariante == Spec => []IInvRelatorios
  <1>1. Init => IInvRelatorios
    BY InicioRelatorios
  <1>2. IInvRelatorios /\ [Next]_vars => IInvRelatorios'
    BY RelatoriosPasso
  <1>3. QED
    BY <1>1, <1>2, PTL DEF Spec

\* A published report has the file its hash describes, whoever died, failed or
\* generated beside it (report_tasks.py, 52), unless a recovery took it alive or
\* the answer to its commit was lost and no failure is recorded yet.
THEOREM ArtefatoIntegroSempre == Spec => []ArtefatoIntegro
  <1>1. IInvRelatorios => ArtefatoIntegro
    BY DEF IInvRelatorios, TodosIntegros, Integro, ArtefatoIntegro
  <1>2. QED
    BY <1>1, RelatoriosInvariante, PTL

\* However many clocks look at a schedule, one execution of it emits one report
\* (report_tasks.py, 119-120; repository.py, 377).
THEOREM AgendamentoUmaVezSempre == Spec => []AgendamentoUmaVez
  <1>1. IInvRelatorios => AgendamentoUmaVez
    BY DEF IInvRelatorios, AgendaBoa
  <1>2. QED
    BY <1>1, RelatoriosInvariante, PTL

-----------------------------------------------------------------------------
(* A published report is left alone *)

\* A thread writes the row of a report it may generate, which is not published.
LEMMA ThreadDeixaGerado ==
    ASSUME IInvRelatorios, NEW p \in Processos, NEW t \in Threads, ThreadStep(p, t),
           NEW r \in Relatorios, r \notin retomados', r \notin semResposta,
           relatorio[r].status = "gerado"
    PROVE  relatorio'[r] = relatorio[r]
  <1> DEFINE x == thr[p][t]
             c == Atual(thr[p][t])
  <1>1. relatorio \in [Relatorios -> Linha] /\ TrabalhoBom(x)
    BY DEF IInvRelatorios, Tipos, TypeOK
  <1>2. \/ UNCHANGED relatorio
        \/ ClaimRelatorio(p, t) \/ Publicar(p, t) \/ PublicarSemResposta(p, t)
        \/ MarkFailure(p, t)
    BY DEF ThreadStep, Pegar, Carregar, EscreverTmp, Substituir, FalharGeracao,
           RemoverArquivo, AbortarLote
  <1>3. CASE ClaimRelatorio(p, t)
    <2>1. CASE Reivindicavel(relatorio[c].status)
      <3>1. c # r
        BY <2>1 DEF Reivindicavel
      <3>2. relatorio' = [relatorio EXCEPT ![c].status = "processando"]
        BY <1>3, <2>1 DEF ClaimRelatorio
      <3>3. QED
        BY <1>1, <3>1, <3>2
    <2>2. CASE ~Reivindicavel(relatorio[c].status)
      BY <1>3, <2>2 DEF ClaimRelatorio
    <2>3. QED
      BY <2>1, <2>2
  <1>4. CASE Publicar(p, t) \/ PublicarSemResposta(p, t) \/ MarkFailure(p, t)
    <2>1. /\ x.fase \in {"salvo", "falhou"} /\ retomados' = retomados
          /\ \/ MarkSuccess(p, t)
             \/ relatorio' = [relatorio EXCEPT ![c].status = "falhou"]
      BY <1>4 DEF Publicar, PublicarSemResposta, MarkFailure, historia
    <2>2. Integro(r)
      BY <2>1 DEF IInvRelatorios, TodosIntegros
    <2>3. c # r
      BY <2>1, <2>2 DEF Integro, Gerando
    <2>4. CASE MarkSuccess(p, t)
      BY <1>1, <2>3, <2>4 DEF MarkSuccess
    <2>5. CASE relatorio' = [relatorio EXCEPT ![c].status = "falhou"]
      BY <1>1, <2>3, <2>5
    <2>6. QED
      BY <2>1, <2>4, <2>5
  <1>5. QED
    BY <1>2, <1>3, <1>4

\* A process writes rows that were absent, or that its recovery is recorded as
\* having taken.
LEMMA ProcessoDeixaGerado ==
    ASSUME IInvRelatorios, NEW p \in Processos,
           ProcessStep(p) \/ Solicitar(p) \/ EmissaoDesfeita(p) \/ Queda(p),
           NEW r \in Relatorios, r \notin retomados', r \notin semResposta,
           relatorio[r].status = "gerado"
    PROVE  relatorio'[r] = relatorio[r]
  <1>1. \/ UNCHANGED relatorio
        \/ Solicitar(p) \/ RecoverGravar(p) \/ Emitir(p)
    BY DEF ProcessStep, RecoverLer, ListarVencidos, Subir, EmissaoDesfeita, Queda
  <1>2. CASE Solicitar(p)
    BY <1>2 DEF Solicitar
  <1>3. CASE RecoverGravar(p)
    BY <1>3 DEF RecoverGravar
  <1>4. CASE Emitir(p)
    <2>1. PICK f \in NovasLinhas(proc[p].vencidos) :
            f = CHOOSE g \in NovasLinhas(proc[p].vencidos) : TRUE
      BY <1>4 DEF Emitir
    <2>2. ~ \E v \in proc[p].vencidos : f[v] = r
      BY <2>1 DEF NovasLinhas
    <2>3. QED
      BY <1>4, <2>1, <2>2 DEF Emitir
  <1>5. QED
    BY <1>1, <1>2, <1>3, <1>4

\* No step writes the row of a published report (repository.py, 120), but a
\* recovery that read it while it was being generated, or the failure recorded
\* by the generation that was never told it was published.
THEOREM GeradoFicaSempre == Spec => GeradoFica
  <1>1. IInvRelatorios /\ [Next]_vars =>
          [\A r \in Relatorios \ (retomados' \cup semResposta) :
             relatorio[r].status = "gerado" => relatorio'[r] = relatorio[r]]_vars
    <2> SUFFICES ASSUME IInvRelatorios, Next,
                        NEW r \in Relatorios,
                        r \notin retomados', r \notin semResposta,
                        relatorio[r].status = "gerado"
                 PROVE  relatorio'[r] = relatorio[r]
      BY DEF vars
    <2>1. ASSUME NEW p \in Processos, NEW t \in Threads, ThreadStep(p, t)
          PROVE  relatorio'[r] = relatorio[r]
      BY <2>1, ThreadDeixaGerado
    <2>2. ASSUME NEW p \in Processos,
                 ProcessStep(p) \/ Solicitar(p) \/ EmissaoDesfeita(p) \/ Queda(p)
          PROVE  relatorio'[r] = relatorio[r]
      BY <2>2, ProcessoDeixaGerado
    <2>3. CASE Tempo
      BY <2>3 DEF Tempo
    <2>4. QED
      BY <2>1, <2>2, <2>3 DEF Next
  <1>2. QED
    BY <1>1, RelatoriosInvariante, PTL DEF Spec, GeradoFica
=============================================================================
