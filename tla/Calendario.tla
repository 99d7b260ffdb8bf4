----------------------------- MODULE Calendario ------------------------------
(***************************************************************************)
(* Fiscal periods.  Each part of the system does its own arithmetic on     *)
(* them: which ones a connector asks for (shared/periodo.py, siconfi.py),  *)
(* which ones the law expects and when (alerts/rules.py), how late the     *)
(* newest one is (quality/checks.py, cobertura.py), which one comes next   *)
(* (resolucao.py, forecast/periodos.py) and which RREO closes with an RGF  *)
(* (materialize.py).  Here they meet the deliveries of one entity.         *)
(***************************************************************************)
EXTENDS Datas, FiniteSets

CONSTANTS
    Portes,       \* "grande", "pequeno": less than 50 thousand inhabitants
    NaoPublicadas \* periods that the entity may fail to publish

VARIABLES
    porte,     \* size of the entity
    faltas,    \* periods it does not publish
    entregas   \* periods of each report in gold.dim_entrega, vigente

calendarioVars == <<referencia, porte, faltas, entregas>>

PorAno == [A |-> 1, B |-> 6, Q |-> 3, S |-> 2, M |-> 12]
Relatorios == {"RREO", "RGF", "DCA"}
Anos == (AnoInicial - 1)..(AnoInicial + MesesVistos \div 12)

\* 2024-B6: an annual period has no number, which is 0 here.
Periodo(a, t, n) == [ano |-> a, tipo |-> t, num |-> n]
PeriodosDoAno(a, t) ==
    IF t = "A" THEN {Periodo(a, t, 0)} ELSE {Periodo(a, t, n) : n \in 1..PorAno[t]}

Periodos == UNION {PeriodosDoAno(a, t) : a \in Anos, t \in DOMAIN PorAno}

\* What an entity of a size publishes each report by.
TipoPublicado(r, q) ==
    CASE r = "RREO" -> "B"
      [] r = "RGF" -> IF q = "pequeno" THEN "S" ELSE "Q"
      [] r = "DCA" -> "A"

\* Type invariant: every delivery is a period the entity publishes, of the past.
TypeOKCalendario ==
    /\ referencia \in Data
    /\ porte \in Portes
    /\ faltas \in SUBSET NaoPublicadas
    /\ entregas \in [Relatorios -> SUBSET Periodos]

InitCalendario ==
    /\ referencia = PrimeiroDia
    /\ porte \in Portes
    /\ faltas \in {{}} \cup {{p} : p \in NaoPublicadas}
    /\ entregas = [r \in Relatorios |-> {}]

-----------------------------------------------------------------------------

\* mes_final, ordenar_chave
MesFinal(p) == IF p.tipo = "A" THEN 12 ELSE (12 * p.num) \div PorAno[p.tipo]
OrdenarChave(p) == 12 * p.ano + (IF p.tipo = "A" THEN 0 ELSE MesFinal(p))

\* valid_time of a delivery, and _fim_periodo: the last day.
FimAbs(p) ==
    DiaAbs([ano |-> p.ano, mes |-> MesFinal(p), dia |-> DiasDoMes(p.ano, MesFinal(p))])

Fim == [p \in Periodos |-> FimAbs(p)]
Passou(dia) == DiaAbs(referencia) > dia

\* anterior
Anterior(p) ==
    CASE p.tipo = "A" -> Periodo(p.ano - 1, "A", 0)
      [] p.tipo # "A" /\ p.num > 1 -> [p EXCEPT !.num = p.num - 1]
      [] OTHER -> Periodo(p.ano - 1, p.tipo, PorAno[p.tipo])

SemPeriodo == Periodo(0, "A", 0)

\* em_bimestre
EmBimestre(p) ==
    CASE p.tipo = "B" -> p
      [] p.tipo = "Q" -> Periodo(p.ano, "B", 2 * p.num)
      [] p.tipo = "S" -> Periodo(p.ano, "B", 3 * p.num)
      [] OTHER -> SemPeriodo

\* em_periodo_rgf, of the cycle the period closes, or of the one it falls in.
EmPeriodoRgf(p, alvo, quando) ==
    LET fator == PorAno["B"] \div PorAno[alvo] IN
    CASE p.tipo = alvo -> p
      [] p.tipo = "B" /\ quando = "ciclo_corrente" ->
            Periodo(p.ano, alvo, (p.num + fator - 1) \div fator)
      [] p.tipo = "B" /\ quando = "ciclo_fechado" /\ p.num % fator = 0 ->
            Periodo(p.ano, alvo, p.num \div fator)
      [] OTHER -> SemPeriodo

\* _rreo_de_rgf of the materialisation
RreoDeRgf(p) ==
    CASE p.tipo = "Q" -> Periodo(p.ano, "B", 2 * p.num)
      [] p.tipo = "S" -> Periodo(p.ano, "B", 3 * p.num)
      [] OTHER -> SemPeriodo

\* Mutant: a period is possible in its last month.
PossiveisNoMes(a, t) ==
    {n \in 1..PorAno[t] : \/ a < referencia.ano
                          \/ a = referencia.ano /\ n * (12 \div PorAno[t]) <= referencia.mes}

\* periodos_possiveis
Possiveis(a, t) ==
    {n \in 1..PorAno[t] : \/ a < referencia.ano
                          \/ a = referencia.ano /\ n * (12 \div PorAno[t]) < referencia.mes}

-----------------------------------------------------------------------------

\* The source has what the entity published.
NaFonte(r) ==
    {p \in UNION {PeriodosDoAno(a, TipoPublicado(r, porte)) : a \in Anos} :
        p \notin faltas /\ Passou(Fim[p])}

\* periodos_do_ano: the periods of a year that have ended; those of the DCA and
\* of an RGF asked by semester are asked whatever the day.
Pedidos(a, t) ==
    IF t \in {"A", "S"} THEN PeriodosDoAno(a, t)
    ELSE {Periodo(a, t, n) : n \in Possiveis(a, t)}

\* discover, of an RGF by quadrimester unless told otherwise, and the load of
\* what the source answers.
Carregar(r, a) ==
    /\ \E q \in {"grande", "pequeno"} :
         entregas' = [entregas EXCEPT
            ![r] = entregas[r] \cup (Pedidos(a, TipoPublicado(r, q)) \cap NaFonte(r))]
    /\ UNCHANGED <<referencia, porte, faltas>>

\* varrer_retificacoes: what the extract of the entity names, by its own period.
Varrer(r) ==
    /\ entregas' = [entregas EXCEPT ![r] = entregas[r] \cup NaFonte(r)]
    /\ UNCHANGED <<referencia, porte, faltas>>

NextCalendario ==
    \/ PassarTempo /\ UNCHANGED <<porte, faltas, entregas>>
    \/ \E r \in Relatorios, a \in Anos : Carregar(r, a)
    \/ \E r \in Relatorios : Varrer(r)

SpecCalendario == InitCalendario /\ [][NextCalendario]_calendarioVars

-----------------------------------------------------------------------------

\* parse_periodo of forecast, which alerts and quality use, knows no semester.
Conhecido(p) == p.tipo \in {"A", "B", "Q", "M"}
Indice(p) == IF p.tipo = "A" THEN 1 ELSE p.num
Ordinal(p) == p.ano * PorAno[p.tipo] + Indice(p) - 1

\* proximo
Seguinte(p) ==
    LET ano == p.ano + Indice(p) \div PorAno[p.tipo] IN
    IF p.tipo = "A" THEN Periodo(ano, "A", 0)
    ELSE Periodo(ano, p.tipo, (p.num % PorAno[p.tipo]) + 1)

\* mais_recente, of the deliveries of a report.
MaisRecente(r) ==
    CHOOSE p \in entregas[r] : \A q \in entregas[r] : OrdenarChave(q) <= OrdenarChave(p)

\* prazo_obrigacao
Prazo(r, p) ==
    IF r = "DCA" THEN DiaAbs([ano |-> p.ano + 1, mes |-> 4, dia |-> 30]) ELSE FimAbs(p) + 30

\* obrigacoes_do_ano, with cadencia_rgf
QuadrimestresDe(q) == IF q = "pequeno" THEN {2, 3} ELSE 1..3
ObrigacoesDoAno(a, q) ==
    {<<"RREO", Periodo(a, "B", b)>> : b \in 1..6}
        \cup {<<"RGF", Periodo(a, "Q", n)>> : n \in QuadrimestresDe(q)}
        \cup {<<"DCA", Periodo(a, "A", 0)>>}

\* _calendario: the status an evaluation gives to a period of a report.
Status(r, p) ==
    CASE p \in entregas[r] -> "entregue"
      [] p \notin entregas[r]
            /\ \E q \in entregas[r] : Conhecido(q) /\ Ordinal(p) < Ordinal(q) -> "atrasado"
      [] OTHER -> "pendente"

\* SLAS: periods in a year, and days after the period.
PeriodosPorAno(r) == CASE r = "RREO" -> 6 [] r = "RGF" -> 3 [] r = "DCA" -> 1
DiasAposPeriodo(r) == IF r = "DCA" THEN 120 ELSE 30

\* _dias_de_atraso
DiasDeAtraso(r, p) ==
    LET indice == IF Indice(p) = PeriodosPorAno(r) THEN 1 ELSE Indice(p) + 1
        ano == IF Indice(p) = PeriodosPorAno(r) THEN p.ano + 1 ELSE p.ano
        mes == indice * (12 \div PeriodosPorAno(r))
        prazo == DiaAbs([ano |-> ano, mes |-> mes, dia |-> DiasDoMes(ano, mes)])
                    + DiasAposPeriodo(r)
    IN IF Conhecido(p) /\ Passou(prazo) THEN DiaAbs(referencia) - prazo ELSE 0

\* _proximo_periodo_esperado
ProximoEsperado(r, p) ==
    IF PeriodosPorAno(r) = 1 \/ p.num >= PeriodosPorAno(r) THEN <<p.ano + 1, 1>>
    ELSE <<p.ano, p.num + 1>>

\* defasagem_periodos
Defasagem(p) ==
    LET meses == 12 \div PorAno[p.tipo]
        atual == referencia.ano * PorAno[p.tipo] + (referencia.mes - 1) \div meses
    IN IF atual - 1 > Ordinal(p) THEN atual - 1 - Ordinal(p) ELSE 0

-----------------------------------------------------------------------------

\* What the entity owes of a year, by the names its deliveries have.
Devidos(r, a) ==
    {p \in PeriodosDoAno(a, TipoPublicado(r, porte)) : Passou(Fim[p])}

\* An entity whose periods are all delivered owes none whose deadline passed, and
\* what it delivered is what the calendar shows as delivered (alerts/rules.py,
\* 92-93, 145-149, alerts/engine.py, 159-165).
PontualNaoDeve ==
    entregas["RREO"] # {} =>
        LET ano == MaisRecente("RREO").ano IN
        \A r \in Relatorios :
            /\ Devidos(r, ano) \subseteq entregas[r] =>
                \A ob \in ObrigacoesDoAno(ano, porte) :
                    ob[1] = r /\ Passou(Prazo(r, ob[2])) => Status(r, ob[2]) = "entregue"
            /\ {p \in entregas[r] : p.ano = ano} =
                {ob[2] : ob \in {o \in ObrigacoesDoAno(ano, porte) :
                                    o[1] = r /\ Status(r, o[2]) = "entregue"}}

\* The check of freshness calls an entity late once the deadline of the period
\* after its newest one has passed, and not before; except that it counts 120
\* days to 30 April, which in a leap year is 29 (quality/checks.py, 571-581).
FrescorConcorda ==
    \A r \in Relatorios :
        entregas[r] # {} =>
            LET p == MaisRecente(r)
                bissexto == r = "DCA" /\ Bissexto(p.ano + 2)
            IN DiasDeAtraso(r, p) > 0
                 <=> Passou(Prazo(r, Seguinte(p)) - (IF bissexto THEN 1 ELSE 0))

\* A connector asks for the periods that have ended, all of them; the last one
\* is not late, and no other has no delay (periodo.py, 207-223, cobertura.py, 76-93).
PedidoPossivel ==
    \A t \in {"B", "Q", "S", "M"} :
        LET possiveis == Possiveis(referencia.ano, t)
            agora == DiaAbs(referencia)
        IN
        /\ possiveis = {n \in 1..PorAno[t] : Fim[Periodo(referencia.ano, t, n)] < agora}
        /\ t # "S" => \A n \in possiveis :
                Defasagem(Periodo(referencia.ano, t, n)) = Cardinality(possiveis) - n

\* The RREO an RGF is computed with closes in the same month, has ended when the
\* RGF has, and leads back to it (materialize.py, 61-72, periodo.py, 61-160).
RclDoMesmoMes ==
    \A p \in entregas["RGF"] :
        LET b == RreoDeRgf(p) IN
        /\ b \in PeriodosDoAno(p.ano, "B") /\ b = EmBimestre(p)
        /\ Fim[b] = Fim[p]
        /\ \A quando \in {"ciclo_fechado", "ciclo_corrente"} :
                EmPeriodoRgf(b, p.tipo, quando) = p

\* The period asked of the source after the newest one is the one that follows it.
SeguinteConcorda ==
    \A r \in Relatorios :
        entregas[r] # {} =>
            LET p == MaisRecente(r)  s == Seguinte(p) IN
            ProximoEsperado(r, p) = <<s.ano, Indice(s)>> /\ Anterior(s) = p

\* For an entity that publishes by quadrimester the parts of the system agree
\* about its periods on every day.
CalendarioCoerente ==
    /\ PontualNaoDeve
    /\ FrescorConcorda
    /\ PedidoPossivel
    /\ RclDoMesmoMes
    /\ SeguinteConcorda
=============================================================================
