-------------------------- MODULE CalendarioProofs --------------------------
(***************************************************************************)
(* Proofs about time: the schedules of reports (Agenda) and the fiscal     *)
(* calendar with its algebra of periods (Calendario), for every year and   *)
(* any days the clock skips.                                               *)
(***************************************************************************)
EXTENDS Calendario, Agenda, FiniteSetTheorems, WellFoundedInduction, TLAPS

-----------------------------------------------------------------------------
(* The schedules of reports                                                *)

\* A set of numbers that is not empty has a first one.
LEMMA PrimeiroDeles ==
    ASSUME NEW S, S \subseteq Nat, S # {}
    PROVE  \E n \in S : \A k \in S : n <= k
  <1>1. PICK R : IsWellFoundedOn(R, Nat) /\ \A x, y \in Nat : <<x, y>> \in R <=> x < y
    <2>1. \A x, y \in Nat : <<x, y>> \in OpToRel(<, Nat) <=> x < y
      BY DEF OpToRel
    <2>2. IsWellFoundedOn(OpToRel(<, Nat), Nat)
      BY NatLessThanWellFounded
    <2>3. QED
      BY <2>1, <2>2
  <1>2. IsWellFoundedOn(R, Nat)
    BY <1>1
  <1>3. \E n \in S : \A k \in S : ~(<<k, n>> \in R)
    BY ONLY <1>2, WFMin, S \subseteq Nat, S # {}
  <1>4. PICK n \in S : \A k \in S : ~(<<k, n>> \in R)
    BY <1>3
  <1>5. \A k \in S : ~(k < n)
    BY <1>1, <1>4
  <1>6. QED
    BY <1>4, <1>5

DiasDoAno(a) == IF Bissexto(a) THEN 366 ELSE 365

LEMMA MesesSeguidos ==
    ASSUME NEW a \in Nat, NEW m \in 1..12
    PROVE  /\ DiasDoMes(a, m) \in 28..31 /\ DiasAntes(a, m) \in 0..335
           /\ DiasDoAno(a) \in 365..366
           /\ m < 12 => DiasAntes(a, m + 1) = DiasAntes(a, m) + DiasDoMes(a, m)
           /\ m = 12 => DiasAntes(a, m) + DiasDoMes(a, m) = DiasDoAno(a)
  <1>1. PICK b \in BOOLEAN : b = Bissexto(a)
    BY DEF Bissexto
  <1>2. m = 1 \/ m = 2 \/ m = 3 \/ m = 4 \/ m = 5 \/ m = 6 \/ m = 7 \/ m = 8
        \/ m = 9 \/ m = 10 \/ m = 11 \/ m = 12
    OBVIOUS
  <1>3. QED
    BY <1>1, <1>2 DEF DiasDoMes, DiasAntes, DiasDoAno

AteOAno(a) == 365 * (a - 1) + (a - 1) \div 4 - (a - 1) \div 100 + (a - 1) \div 400

\* Years follow one another, leap or not.
LEMMA AnosSeguidos ==
    ASSUME NEW a \in Nat
    PROVE  /\ AteOAno(a) \in Int
           /\ AteOAno(a + 1) = AteOAno(a) + DiasDoAno(a)
  <1>1. PICK x \in Nat, r \in 0..3 : a = 4 * x + r /\ x = a \div 4 /\ r = a % 4
    BY Z3
  <1>2. PICK y \in Nat, s \in 0..99 : a = 100 * y + s /\ y = a \div 100 /\ s = a % 100
    BY Z3
  <1>3. PICK z \in Nat, t \in 0..399 : a = 400 * z + t /\ z = a \div 400 /\ t = a % 400
    BY Z3
  <1>4. (a - 1) \div 4 = IF r = 0 THEN x - 1 ELSE x
    BY <1>1
  <1>5. (a - 1) \div 100 = IF s = 0 THEN y - 1 ELSE y
    BY <1>2
  <1>6. (a - 1) \div 400 = IF t = 0 THEN z - 1 ELSE z
    BY <1>3
  <1>7. t = 0 => s = 0 /\ (s = 0 => r = 0)
    BY <1>1, <1>2, <1>3
  <1>8. s = 0 => r = 0
    BY <1>1, <1>2
  <1>9. Bissexto(a) <=> r = 0 /\ (s # 0 \/ t = 0)
    BY <1>1, <1>2, <1>3 DEF Bissexto
  <1>10. /\ AteOAno(a + 1) = 365 * a + x - y + z
         /\ AteOAno(a) = 365 * (a - 1) + (a - 1) \div 4 - (a - 1) \div 100 + (a - 1) \div 400
    BY <1>1, <1>2, <1>3 DEF AteOAno
  <1>11. QED
    BY <1>4, <1>5, <1>6, <1>7, <1>8, <1>9, <1>10 DEF DiasDoAno

\* Two days in the order of their months, one or two apart, are in that order.
LEMMA MesesDepois ==
    ASSUME NEW d \in Data, NEW e \in Data,
           MesAbs(e) = MesAbs(d) + 1 \/ MesAbs(e) = MesAbs(d) + 2
    PROVE  DiaAbs(e) > DiaAbs(d)
  <1>1. PICK a \in Nat \ {0}, m \in 1..12, x \in 1..31 :
          /\ a = d.ano /\ m = d.mes /\ x = d.dia /\ x <= DiasDoMes(a, m)
    BY DEF Data
  <1>2. PICK b \in Nat \ {0}, n \in 1..12, y \in 1..31 :
          /\ b = e.ano /\ n = e.mes /\ y = e.dia
    BY DEF Data
  <1>3. /\ DiaAbs(d) = AteOAno(a) + DiasAntes(a, m) + x
        /\ DiaAbs(e) = AteOAno(b) + DiasAntes(b, n) + y
    BY <1>1, <1>2 DEF DiaAbs, AteOAno
  <1>4. 12 * b + n = 12 * a + m + 1 \/ 12 * b + n = 12 * a + m + 2
    BY <1>1, <1>2 DEF MesAbs
  <1>5. \/ b = a /\ n \in {m + 1, m + 2}
        \/ b = a + 1 /\ m = 12
        \/ b = a + 1 /\ m = 11 /\ n = 1
    BY <1>4
  <1>6. AteOAno(a) \in Int /\ AteOAno(a + 1) = AteOAno(a) + DiasDoAno(a)
    BY AnosSeguidos
  <1>7. /\ DiasDoMes(a, m) \in 28..31 /\ DiasAntes(a, m) \in 0..335
        /\ DiasDoAno(a) \in 365..366
        /\ m < 12 => DiasAntes(a, m + 1) = DiasAntes(a, m) + DiasDoMes(a, m)
        /\ m = 12 => DiasAntes(a, m) + DiasDoMes(a, m) = DiasDoAno(a)
    BY MesesSeguidos
  <1>12. DiasAntes(b, n) \in 0..335
    BY MesesSeguidos
  <1>8. CASE b = a /\ n \in {m + 1, m + 2}
    <2>1. m + 1 \in 1..12
      BY <1>8
    <2>2. /\ DiasDoMes(a, m + 1) \in 28..31
          /\ m + 1 < 12 => DiasAntes(a, (m + 1) + 1) = DiasAntes(a, m + 1) + DiasDoMes(a, m + 1)
      BY <2>1, MesesSeguidos
    <2>3. DiasAntes(b, n) >= DiasAntes(a, m) + DiasDoMes(a, m)
      <3>1. CASE n = m + 1
        BY <1>7, <1>8, <3>1
      <3>2. CASE n = m + 2
        BY <1>7, <1>8, <2>2, <3>2
      <3>3. QED
        BY <1>8, <3>1, <3>2
    <2>4. DiaAbs(e) = AteOAno(a) + DiasAntes(b, n) + y
      BY <1>3, <1>8
    <2>9. /\ AteOAno(a) \in Int /\ DiasAntes(b, n) \in Int
          /\ DiasAntes(a, m) \in Int /\ DiasDoMes(a, m) \in Int
      BY <1>6, <1>7, <1>12
    <2>5. PICK u, v, w, z \in Int : /\ u = AteOAno(a) /\ v = DiasAntes(b, n)
                                    /\ w = DiasAntes(a, m) /\ z = DiasDoMes(a, m)
      BY <2>9
    <2>6. v >= w + z /\ x <= z
      BY <1>1, <2>3, <2>5
    <2>7. DiaAbs(d) = u + w + x /\ DiaAbs(e) = u + v + y
      BY <1>3, <2>4, <2>5
    <2>8. QED
      BY <2>6, <2>7
  <1>9. CASE b = a + 1 /\ m = 12
    BY <1>1, <1>3, <1>6, <1>7, <1>9, <1>12, SMTT(20)
  <1>10. CASE b = a + 1 /\ m = 11 /\ n = 1
    <2>1. PICK q \in 1..12 : q = 12
      OBVIOUS
    <2>2. /\ DiasAntes(a, q) + DiasDoMes(a, q) = DiasDoAno(a)
          /\ DiasDoMes(a, q) \in 28..31 /\ DiasAntes(a, q) \in 0..335
      BY <2>1, MesesSeguidos, SMTT(20)
    <2>3. DiasAntes(a, q) = DiasAntes(a, m) + DiasDoMes(a, m)
      BY <1>7, <1>10, <2>1
    <2>4. DiaAbs(e) = AteOAno(a) + DiasDoAno(a) + DiasAntes(b, n) + y
      BY <1>3, <1>6, <1>10
    <2>9. /\ AteOAno(a) \in Int /\ DiasAntes(b, n) \in Int /\ DiasDoAno(a) \in Int
          /\ DiasAntes(a, m) \in Int /\ DiasDoMes(a, m) \in Int
      BY <1>6, <1>7, <1>12
    <2>5. PICK t, u, v, w, z \in Int :
            /\ t = DiasDoAno(a) /\ u = AteOAno(a) /\ v = DiasAntes(b, n)
            /\ w = DiasAntes(a, m) /\ z = DiasDoMes(a, m)
      BY <2>9
    <2>6. w + z + 28 <= t /\ v >= 0 /\ x <= z
      BY <1>1, <1>12, <2>2, <2>3, <2>5
    <2>7. DiaAbs(d) = u + w + x /\ DiaAbs(e) = u + t + v + y
      BY <1>3, <2>4, <2>5
    <2>8. QED
      BY <2>6, <2>7
  <1>11. QED
    BY <1>5, <1>8, <1>9, <1>10

\* The month k months after, at a day every month has or at the day it is.
LEMMA NoMesBom ==
    ASSUME NEW d \in Data, NEW k \in 1..2, NEW x \in 1..31,
           NEW e, e = NoMes(d, k, x), x <= DiasDoMes(e.ano, e.mes)
    PROVE  e \in Data /\ MesAbs(e) = MesAbs(d) + k
  <1>1. PICK a \in Nat \ {0}, m \in 1..12 : a = d.ano /\ m = d.mes
    BY DEF Data
  <1>2. PICK b, n : b = a + (m - 1 + k) \div 12 /\ n = ((m - 1 + k) % 12) + 1
    OBVIOUS
  <1>3. b \in Nat \ {0} /\ n \in 1..12 /\ 12 * b + n = 12 * a + m + k
    BY <1>2
  <1>4. e = [ano |-> b, mes |-> n, dia |-> x]
    BY <1>1, <1>2 DEF NoMes
  <1>5. e \in Data
    BY <1>3, <1>4 DEF Data
  <1>6. QED
    BY <1>1, <1>3, <1>4, <1>5 DEF MesAbs

LEMMA MaisMesesBom ==
    ASSUME NEW d \in Data, NEW k \in 1..2
    PROVE  MaisMeses(d, k) \in Data /\ MesAbs(MaisMeses(d, k)) = MesAbs(d) + k
  <1>1. PICK t : t = NoMes(d, k, 1)
    OBVIOUS
  <1>2. PICK a \in Nat \ {0}, m \in 1..12 : a = t.ano /\ m = t.mes
    <2>1. DiasDoMes(t.ano, t.mes) >= 1
      BY DEF DiasDoMes
    <2>2. t \in Data
      BY <1>1, <2>1, NoMesBom
    <2>3. QED
      BY <2>2 DEF Data
  <1>3. DiasDoMes(a, m) \in 28..31
    BY MesesSeguidos
  <1>4. PICK x \in 1..31 : x = Minimo(d.dia, DiasDoMes(a, m)) /\ x <= DiasDoMes(a, m)
    <2>1. d.dia \in 1..31
      BY DEF Data
    <2>2. QED
      BY <1>3, <2>1 DEF Minimo
  <1>5. PICK e : e = NoMes(d, k, x)
    OBVIOUS
  <1>6. e = [t EXCEPT !.dia = x] /\ e.ano = a /\ e.mes = m
    BY <1>1, <1>2, <1>5 DEF NoMes
  <1>7. MaisMeses(d, k) = e
    BY <1>1, <1>2, <1>4, <1>6 DEF MaisMeses
  <1>8. QED
    BY <1>4, <1>5, <1>6, <1>7, NoMesBom

LEMMA MaisDiasBom ==
    ASSUME NEW d \in Data, NEW n \in {1, 7}
    PROVE  MaisDias(d, n) \in Data /\ DiaAbs(MaisDias(d, n)) > DiaAbs(d)
  <1>1. PICK a \in Nat \ {0}, m \in 1..12, x \in 1..31 :
          /\ a = d.ano /\ m = d.mes /\ x = d.dia /\ x <= DiasDoMes(a, m)
          /\ d = [ano |-> a, mes |-> m, dia |-> x]
    BY DEF Data
  <1>6. DiasDoMes(a, m) \in 28..31 /\ DiasAntes(a, m) \in 0..335
    BY MesesSeguidos
  <1>7. AteOAno(a) \in Int
    BY AnosSeguidos
  <1>2. DiasDoMes(a, m) \in 28..31 /\ DiasAntes(a, m) \in 0..335 /\ AteOAno(a) \in Int
    BY <1>6, <1>7
  <1>3. CASE x + n <= DiasDoMes(a, m)
    <2>1. PICK y \in 1..31 : y = x + n /\ y <= DiasDoMes(a, m)
      BY <1>2, <1>3
    <2>2. MaisDias(d, n) = [ano |-> a, mes |-> m, dia |-> y]
      BY <1>1, <1>3, <2>1 DEF MaisDias
    <2>3. PICK e : e = [ano |-> a, mes |-> m, dia |-> y]
      OBVIOUS
    <2>4. e \in Data
      BY <2>1, <2>3 DEF Data
    <2>5. /\ DiaAbs(d) = AteOAno(a) + DiasAntes(a, m) + x
          /\ DiaAbs(e) = AteOAno(a) + DiasAntes(a, m) + y
      BY <1>1, <2>3 DEF DiaAbs, AteOAno
    <2>6. DiaAbs(e) > DiaAbs(d)
      BY <1>2, <2>1, <2>5
    <2>7. QED
      BY <2>2, <2>3, <2>4, <2>6
  <1>4. CASE ~(x + n <= DiasDoMes(a, m))
    <2>1. PICK y \in 1..7 : y = x + n - DiasDoMes(a, m)
      BY <1>1, <1>2, <1>4
    <2>2. PICK e : e = NoMes(d, 1, y)
      OBVIOUS
    <2>3. MaisDias(d, n) = e
      BY <1>1, <1>4, <2>1, <2>2 DEF MaisDias
    <2>4. DiasDoMes(e.ano, e.mes) >= 28
      BY DEF DiasDoMes
    <2>5. e \in Data /\ MesAbs(e) = MesAbs(d) + 1
      <3>1. y \in 1..31 /\ 1 \in 1..2
        OBVIOUS
      <3>2. y <= DiasDoMes(e.ano, e.mes)
        BY <2>4 DEF DiasDoMes
      <3>3. QED
        BY <2>2, <3>1, <3>2, NoMesBom
    <2>6. QED
      BY <2>3, <2>5, MesesDepois
  <1>5. QED
    BY <1>3, <1>4

LEMMA ProximaBoa ==
    ASSUME NEW d \in Data, NEW p \in Periodicidades
    PROVE  /\ NextExecution(d, p) \in Data
           /\ DiaAbs(NextExecution(d, p)) > DiaAbs(d)
           /\ p = "mensal" => MesAbs(NextExecution(d, p)) = MesAbs(d) + 1
           /\ p = "bimestral" => MesAbs(NextExecution(d, p)) = MesAbs(d) + 2
  <1>1. CASE p = "diario"
    BY <1>1, MaisDiasBom DEF NextExecution
  <1>2. CASE p = "semanal"
    BY <1>2, MaisDiasBom DEF NextExecution
  <1>3. CASE p = "mensal"
    <2>1. NextExecution(d, p) = MaisMeses(d, 1)
      BY <1>3 DEF NextExecution
    <2>2. QED
      BY <1>3, <2>1, MaisMesesBom, MesesDepois
  <1>4. CASE p = "bimestral"
    <2>1. NextExecution(d, p) = MaisMeses(d, 2)
      BY <1>4 DEF NextExecution
    <2>2. QED
      BY <1>4, <2>1, MaisMesesBom, MesesDepois
  <1>5. QED
    BY <1>1, <1>2, <1>3, <1>4 DEF Periodicidades

LEMMA PassarTempoBom ==
    ASSUME referencia \in Data, PassarTempo
    PROVE  referencia' \in Data
  <1>1. PICK a \in Nat \ {0}, m \in 1..12, x \in 1..31 :
          referencia = [ano |-> a, mes |-> m, dia |-> x]
    BY DEF Data
  <1>2. PICK S : S = {n \in DiasVistos : n > x /\ n <= DiasDoMes(a, m)}
    OBVIOUS
  <1>3. S \subseteq Nat /\ \A n \in S : n \in 1..31 /\ n <= DiasDoMes(a, m)
    <2>1. DiasVistos \subseteq 1..31
      BY DatasAssumption
    <2>2. S \subseteq 1..31 /\ \A n \in S : n <= DiasDoMes(a, m)
      BY <1>2, <2>1
    <2>3. QED
      BY <2>2
  <1>4. referencia' = IF S = {} THEN NoMes(referencia, 1, 1)
                      ELSE [referencia EXCEPT !.dia = CHOOSE n \in S : \A k \in S : n <= k]
    BY <1>1, <1>2 DEF PassarTempo
  <1>5. CASE S = {}
    <2>1. PICK e : e = NoMes(referencia, 1, 1)
      OBVIOUS
    <2>2. DiasDoMes(e.ano, e.mes) >= 1
      BY DEF DiasDoMes
    <2>3. e \in Data
      BY <2>1, <2>2, NoMesBom
    <2>4. QED
      BY <1>4, <1>5, <2>1, <2>3
  <1>6. CASE S # {}
    <2>1. PICK n \in S : n = CHOOSE j \in S : \A k \in S : j <= k
      BY <1>3, <1>6, PrimeiroDeles
    <2>2. referencia' = [ano |-> a, mes |-> m, dia |-> n]
      BY <1>1, <1>4, <1>6, <2>1
    <2>3. QED
      BY <1>3, <2>2 DEF Data
  <1>7. QED
    BY <1>5, <1>6

IInvAgenda == TypeOKAgenda /\ UmaPorMes

LEMMA NuncaNaoEData == Nunca \notin Data
  BY DEF Nunca, Data

LEMMA AgendaInit == InitAgenda => IInvAgenda
  <1> SUFFICES ASSUME InitAgenda PROVE IInvAgenda
    OBVIOUS
  <1>1. PrimeiroDia \in Data
    BY DatasAssumption DEF PrimeiroDia, Data, DiasDoMes
  <1>2. QED
    BY <1>1, AgendaAssumption DEF InitAgenda, IInvAgenda, TypeOKAgenda, UmaPorMes

LEMMA EmitirPreserva ==
    ASSUME IInvAgenda, EmitirVencidas
    PROVE  IInvAgenda'
  <1>1. referencia \in Data /\ referencia' = referencia
    BY DEF IInvAgenda, TypeOKAgenda, EmitirVencidas
  <1>2. \A a \in Agendas : a.periodicidade \in Periodicidades
    BY AgendaAssumption
  <1>3. /\ proxima \in [Agendas -> Data] /\ ultima \in [Agendas -> Data \cup {Nunca}]
    BY DEF IInvAgenda, TypeOKAgenda
  <1>4. \A a \in Agendas : NextExecution(referencia, a.periodicidade) \in Data
    BY <1>1, <1>2, ProximaBoa
  <1>5. /\ proxima' \in [Agendas -> Data] /\ ultima' \in [Agendas -> Data \cup {Nunca}]
        /\ \A a \in Agendas :
             \/ proxima'[a] = proxima[a] /\ ultima'[a] = ultima[a]
             \/ /\ proxima'[a] = NextExecution(referencia, a.periodicidade)
                /\ ultima'[a] = referencia
    BY <1>1, <1>3, <1>4 DEF EmitirVencidas
  <1>6. TypeOKAgenda'
    BY <1>1, <1>5 DEF TypeOKAgenda
  <1>7. UmaPorMes'
    <2>1. SUFFICES ASSUME NEW a \in Agendas, ultima'[a] # Nunca
                   PROVE  /\ proxima'[a] \in Data
                          /\ a.periodicidade = "mensal" =>
                                MesAbs(proxima'[a]) = MesAbs(ultima'[a]) + 1
                          /\ a.periodicidade = "bimestral" =>
                                MesAbs(proxima'[a]) = MesAbs(ultima'[a]) + 2
                          /\ DiaAbs(proxima'[a]) > DiaAbs(ultima'[a])
      BY DEF UmaPorMes
    <2>2. CASE proxima'[a] = proxima[a] /\ ultima'[a] = ultima[a]
      BY <2>1, <2>2 DEF IInvAgenda, UmaPorMes
    <2>3. CASE /\ proxima'[a] = NextExecution(referencia, a.periodicidade)
               /\ ultima'[a] = referencia
      BY <1>1, <1>2, <2>3, ProximaBoa
    <2>4. QED
      BY <1>5, <2>2, <2>3
  <1>8. QED
    BY <1>6, <1>7 DEF IInvAgenda

LEMMA AgendaPasso == IInvAgenda /\ [NextAgenda]_agendaVars => IInvAgenda'
  <1> SUFFICES ASSUME IInvAgenda, [NextAgenda]_agendaVars PROVE IInvAgenda'
    OBVIOUS
  <1>1. CASE UNCHANGED agendaVars
    BY <1>1 DEF agendaVars, IInvAgenda, TypeOKAgenda, UmaPorMes
  <1>2. CASE PassarTempo /\ UNCHANGED <<proxima, ultima>>
    BY <1>2, PassarTempoBom DEF IInvAgenda, TypeOKAgenda, UmaPorMes
  <1>3. CASE EmitirVencidas
    BY <1>3, EmitirPreserva
  <1>4. QED
    BY <1>1, <1>2, <1>3 DEF NextAgenda

\* For every set of schedules, every year and any delay of the clock.
THEOREM UmaPorMesSempre == SpecAgenda => []UmaPorMes
  <1>1. IInvAgenda => UmaPorMes
    BY DEF IInvAgenda
  <1>2. QED
    BY <1>1, AgendaInit, AgendaPasso, PTL DEF SpecAgenda

-----------------------------------------------------------------------------
(* Fiscal periods                                                          *)

Forma(p, t) ==
    \E a \in Anos : \/ t = "A" /\ p = [ano |-> a, tipo |-> "A", num |-> 0]
                    \/ t # "A" /\ \E n \in 1..PorAno[t] : p = [ano |-> a, tipo |-> t, num |-> n]

\* Time stays within the years of the model, and an entity has delivered only
\* periods of the kind it publishes.
IInvCalendario ==
    /\ TypeOKCalendario
    /\ AnoInicial <= referencia.ano
    /\ MesAbs(referencia) <= MesAbs(PrimeiroDia) + MesesVistos
    /\ \A r \in Relatorios : \A p \in entregas[r] : Forma(p, TipoPublicado(r, porte))

LEMMA AnosNaturais == \A a \in Anos : a \in Nat /\ a <= AnoInicial + MesesVistos
  <1>1. MesesVistos \div 12 \in Nat /\ MesesVistos \div 12 <= MesesVistos
    BY DatasAssumption
  <1>2. QED
    BY <1>1, DatasAssumption DEF Anos

LEMMA PorAnoTem ==
    /\ DOMAIN PorAno = {"A", "B", "Q", "S", "M"}
    /\ PorAno["A"] = 1 /\ PorAno["B"] = 6 /\ PorAno["Q"] = 3 /\ PorAno["S"] = 2
    /\ PorAno["M"] = 12
  BY DEF PorAno

LEMMA FormaEhPeriodo ==
    ASSUME NEW t \in DOMAIN PorAno, NEW p
    PROVE  Forma(p, t) <=> \E a \in Anos : p \in PeriodosDoAno(a, t)
  BY DEF Forma, PeriodosDoAno, Periodo

LEMMA TiposPublicados ==
    ASSUME NEW r \in Relatorios, NEW q
    PROVE  TipoPublicado(r, q) \in DOMAIN PorAno
  BY PorAnoTem DEF Relatorios, TipoPublicado

LEMMA NaFonteForma ==
    ASSUME NEW r \in Relatorios, NEW p \in NaFonte(r)
    PROVE  p \in Periodos /\ Forma(p, TipoPublicado(r, porte))
  <1>1. PICK a \in Anos : p \in PeriodosDoAno(a, TipoPublicado(r, porte))
    BY DEF NaFonte
  <1>2. TipoPublicado(r, porte) \in DOMAIN PorAno
    BY TiposPublicados
  <1>3. p \in Periodos
    BY <1>1, <1>2 DEF Periodos
  <1>4. Forma(p, TipoPublicado(r, porte))
    BY <1>1, <1>2, FormaEhPeriodo
  <1>5. QED
    BY <1>3, <1>4

\* A load or a sweep adds to a report what the source has of it.
LEMMA EntregarMantem ==
    ASSUME IInvCalendario, NEW r \in Relatorios, NEW novas \in SUBSET NaFonte(r),
           entregas' = [entregas EXCEPT ![r] = entregas[r] \cup novas],
           UNCHANGED <<referencia, porte, faltas>>
    PROVE  IInvCalendario'
  <1>1. entregas \in [Relatorios -> SUBSET Periodos]
    BY DEF IInvCalendario, TypeOKCalendario
  <1>2. \A p \in novas : p \in Periodos /\ Forma(p, TipoPublicado(r, porte))
    BY NaFonteForma
  <1>3. entregas[r] \cup novas \in SUBSET Periodos
    BY <1>1, <1>2
  <1>4. entregas' \in [Relatorios -> SUBSET Periodos]
    BY <1>1, <1>3
  <1>5. ASSUME NEW x \in Relatorios, NEW p \in entregas'[x]
        PROVE  Forma(p, TipoPublicado(x, porte))
    <2>1. p \in entregas[x] \/ (x = r /\ p \in novas)
      BY <1>1, <1>5
    <2>2. QED
      BY <1>2, <2>1 DEF IInvCalendario
  <1>6. QED
    BY <1>4, <1>5 DEF IInvCalendario, TypeOKCalendario

LEMMA PassarTempoNoPrazo ==
    ASSUME referencia \in Data, PassarTempo, AnoInicial <= referencia.ano
    PROVE  /\ AnoInicial <= referencia'.ano
           /\ MesAbs(referencia') <= MesAbs(PrimeiroDia) + MesesVistos
  <1>1. PICK a \in Nat \ {0}, m \in 1..12, x \in 1..31 :
          referencia = [ano |-> a, mes |-> m, dia |-> x]
    BY DEF Data
  <1>2. PICK fim \in Int : fim = MesAbs(PrimeiroDia) + MesesVistos
    BY DatasAssumption DEF MesAbs, PrimeiroDia
  <1>3. 12 * a + m - 1 < fim /\ AnoInicial <= a /\ AnoInicial \in Nat
    BY <1>1, <1>2, DatasAssumption DEF PassarTempo, MesAbs
  <1>4. \/ referencia' = NoMes(referencia, 1, 1)
        \/ \E n : referencia' = [referencia EXCEPT !.dia = n]
    BY DEF PassarTempo
  <1>5. CASE referencia' = NoMes(referencia, 1, 1)
    <2>1. PICK e : e = NoMes(referencia, 1, 1)
      OBVIOUS
    <2>2. e.ano = a + m \div 12 /\ e.mes = (m % 12) + 1
      BY <1>1, <2>1 DEF NoMes
    <2>3. (m = 12 => m \div 12 = 1 /\ m % 12 = 0) /\ (m < 12 => m \div 12 = 0 /\ m % 12 = m)
      OBVIOUS
    <2>4. 12 * e.ano + e.mes - 1 = 12 * a + m /\ a <= e.ano
      BY <2>2, <2>3
    <2>5. QED
      BY <1>2, <1>3, <1>5, <2>1, <2>2, <2>3, <2>4 DEF MesAbs
  <1>6. CASE \E n : referencia' = [referencia EXCEPT !.dia = n]
    <2>1. referencia'.ano = a /\ referencia'.mes = m
      BY <1>1, <1>6
    <2>2. QED
      BY <1>2, <1>3, <2>1 DEF MesAbs
  <1>7. QED
    BY <1>4, <1>5, <1>6

LEMMA CalendarioInit == InitCalendario => IInvCalendario
  <1> SUFFICES ASSUME InitCalendario PROVE IInvCalendario
    OBVIOUS
  <1>1. PrimeiroDia \in Data
    BY DatasAssumption DEF PrimeiroDia, Data, DiasDoMes
  <1>2. PrimeiroDia.ano = AnoInicial /\ MesAbs(PrimeiroDia) \in Int
    BY DatasAssumption DEF PrimeiroDia, MesAbs
  <1>3. faltas \in SUBSET NaoPublicadas
    BY DEF InitCalendario
  <1>4. TypeOKCalendario
    BY <1>1, <1>3 DEF InitCalendario, TypeOKCalendario
  <1>5. \A r \in Relatorios : entregas[r] = {}
    BY DEF InitCalendario
  <1>6. QED
    BY <1>2, <1>4, <1>5, DatasAssumption DEF InitCalendario, IInvCalendario

LEMMA CalendarioPasso == IInvCalendario /\ [NextCalendario]_calendarioVars => IInvCalendario'
  <1> SUFFICES ASSUME IInvCalendario, [NextCalendario]_calendarioVars PROVE IInvCalendario'
    OBVIOUS
  <1>1. CASE UNCHANGED calendarioVars
    BY <1>1 DEF calendarioVars, IInvCalendario, TypeOKCalendario
  <1>2. CASE PassarTempo /\ UNCHANGED <<porte, faltas, entregas>>
    <2>1. referencia \in Data /\ AnoInicial <= referencia.ano
      BY DEF IInvCalendario, TypeOKCalendario
    <2>2. referencia' \in Data
      BY <1>2, <2>1, PassarTempoBom
    <2>3. /\ AnoInicial <= referencia'.ano
          /\ MesAbs(referencia') <= MesAbs(PrimeiroDia) + MesesVistos
      BY <1>2, <2>1, PassarTempoNoPrazo
    <2>4. QED
      BY <1>2, <2>2, <2>3 DEF IInvCalendario, TypeOKCalendario
  <1>3. ASSUME NEW r \in Relatorios, NEW a \in Anos, Carregar(r, a)
        PROVE  IInvCalendario'
    <2>1. PICK q : entregas' = [entregas EXCEPT
                      ![r] = entregas[r] \cup (Pedidos(a, TipoPublicado(r, q)) \cap NaFonte(r))]
      BY <1>3 DEF Carregar
    <2>2. PICK novas : novas = Pedidos(a, TipoPublicado(r, q)) \cap NaFonte(r)
      OBVIOUS
    <2>3. novas \in SUBSET NaFonte(r) /\ UNCHANGED <<referencia, porte, faltas>>
      BY <1>3, <2>2 DEF Carregar
    <2>4. entregas' = [entregas EXCEPT ![r] = entregas[r] \cup novas]
      BY <2>1, <2>2
    <2>5. QED
      BY <2>3, <2>4, EntregarMantem
  <1>4. ASSUME NEW r \in Relatorios, Varrer(r)
        PROVE  IInvCalendario'
    <2>1. NaFonte(r) \in SUBSET NaFonte(r)
      OBVIOUS
    <2>2. QED
      BY <1>4, <2>1, EntregarMantem DEF Varrer
  <1>5. QED
    BY <1>1, <1>2, <1>3, <1>4 DEF NextCalendario

\* Type correctness of the calendar, time within the years of the model, and only
\* periods of the kind its publisher publishes delivered.
THEOREM CalendarioInvariante == SpecCalendario => []IInvCalendario
  BY CalendarioInit, CalendarioPasso, PTL DEF SpecCalendario

\* A delivered period and what its kind has.
LEMMA FormaTem ==
    ASSUME NEW t \in DOMAIN PorAno, NEW p, Forma(p, t)
    PROVE  /\ p \in Periodos /\ p.ano \in Anos /\ p.ano \in Nat /\ p.tipo = t
           /\ t # "A" => p.num \in 1..PorAno[t]
           /\ t = "A" => p.num = 0
           /\ p = [ano |-> p.ano, tipo |-> t, num |-> p.num]
           /\ Fim[p] = FimAbs(p)
  <1>1. \E a \in Anos : p \in PeriodosDoAno(a, t)
    BY FormaEhPeriodo
  <1>2. p \in Periodos
    BY <1>1 DEF Periodos
  <1>3. PICK a, n : /\ a \in Anos /\ p = [ano |-> a, tipo |-> t, num |-> n]
                    /\ t # "A" => n \in 1..PorAno[t]
                    /\ t = "A" => n = 0
    BY DEF Forma
  <1>4. a \in Nat
    BY <1>3, AnosNaturais
  <1>5. Fim[p] = FimAbs(p)
    BY <1>2 DEF Fim
  <1>6. QED
    BY <1>2, <1>3, <1>4, <1>5

LEMMA PeriodoTem ==
    ASSUME NEW t \in DOMAIN PorAno, NEW a \in Anos, NEW n, n \in 1..PorAno[t], t # "A"
    PROVE  /\ Forma(Periodo(a, t, n), t) /\ Fim[Periodo(a, t, n)] = FimAbs(Periodo(a, t, n))
           /\ Periodo(a, t, n) \in PeriodosDoAno(a, t)
  <1>1. Forma(Periodo(a, t, n), t)
    BY DEF Forma, Periodo
  <1>2. Fim[Periodo(a, t, n)] = FimAbs(Periodo(a, t, n))
    BY <1>1, FormaTem
  <1>3. QED
    BY <1>1, <1>2 DEF PeriodosDoAno

\* Of deliveries, one is the newest.
LEMMA MaisRecenteHa ==
    ASSUME IInvCalendario, NEW r \in Relatorios, entregas[r] # {}
    PROVE  MaisRecente(r) \in entregas[r]
  <1>1. PICK t \in DOMAIN PorAno : t = TipoPublicado(r, porte)
    BY TiposPublicados
  <1>2. PICK M \in Nat : M = 12 * (AnoInicial + MesesVistos) + 12
    BY DatasAssumption
  <1>3. ASSUME NEW p \in entregas[r]
        PROVE  OrdenarChave(p) \in Nat /\ OrdenarChave(p) <= M
    <2>1. Forma(p, t)
      BY <1>1 DEF IInvCalendario
    <2>2. p.ano \in Nat /\ p.ano <= AnoInicial + MesesVistos
      BY <2>1, FormaTem, AnosNaturais
    <2>3. p.tipo = t /\ (t # "A" => p.num \in 1..PorAno[t])
      BY <2>1, FormaTem
    <2>4. p.tipo # "A" => MesFinal(p) \in 1..12
      <3>1. CASE t = "B"
        BY <2>3, <3>1, PorAnoTem DEF MesFinal
      <3>2. CASE t = "Q"
        BY <2>3, <3>2, PorAnoTem DEF MesFinal
      <3>3. CASE t = "S"
        BY <2>3, <3>3, PorAnoTem DEF MesFinal
      <3>4. CASE t = "M"
        BY <2>3, <3>4, PorAnoTem DEF MesFinal
      <3>5. QED
        BY <2>3, <3>1, <3>2, <3>3, <3>4, PorAnoTem
    <2>5. QED
      BY <1>2, <2>2, <2>4, DatasAssumption DEF OrdenarChave
  <1>4. PICK S : S = {M - OrdenarChave(p) : p \in entregas[r]}
    OBVIOUS
  <1>5. S # {} /\ S \subseteq Nat
    BY <1>3, <1>4
  <1>6. PICK n \in S : \A k \in S : n <= k
    BY <1>5, PrimeiroDeles
  <1>7. PICK p \in entregas[r] : n = M - OrdenarChave(p)
    BY <1>4
  <1>8. \A q \in entregas[r] : OrdenarChave(q) <= OrdenarChave(p)
    BY <1>3, <1>4, <1>6, <1>7
  <1>9. QED
    BY <1>8 DEF MaisRecente

\* The newest delivery of a report of an entity that is not small.
LEMMA MaisRecenteTem ==
    ASSUME IInvCalendario, porte # "pequeno", NEW r \in Relatorios, entregas[r] # {}
    PROVE  /\ r = "RREO" => Forma(MaisRecente(r), "B")
           /\ r = "RGF" => Forma(MaisRecente(r), "Q")
           /\ r = "DCA" => Forma(MaisRecente(r), "A")
  <1>1. MaisRecente(r) \in entregas[r]
    BY MaisRecenteHa
  <1>2. Forma(MaisRecente(r), TipoPublicado(r, porte))
    BY <1>1 DEF IInvCalendario
  <1>3. QED
    BY <1>2 DEF TipoPublicado

LEMMA SeguinteConcordaSempre ==
    ASSUME IInvCalendario, porte # "pequeno"
    PROVE  SeguinteConcorda
  <1>1. SUFFICES ASSUME NEW r \in Relatorios, entregas[r] # {}, NEW p, p = MaisRecente(r),
                        NEW s, s = Seguinte(p)
                 PROVE  ProximoEsperado(r, p) = <<s.ano, Indice(s)>> /\ Anterior(s) = p
    BY DEF SeguinteConcorda
  <1>2. CASE r = "DCA"
    <2>1. Forma(p, "A")
      BY <1>1, <1>2, MaisRecenteTem
    <2>2. PICK a \in Nat : p = [ano |-> a, tipo |-> "A", num |-> 0]
      BY <2>1, FormaTem, PorAnoTem
    <2>3. s = [ano |-> a + 1, tipo |-> "A", num |-> 0]
      BY <1>1, <2>2, PorAnoTem DEF Seguinte, Indice, Periodo
    <2>4. QED
      BY <1>2, <2>2, <2>3 DEF ProximoEsperado, PeriodosPorAno, Indice, Anterior, Periodo
  <1>3. CASE r # "DCA"
    <2>1. PICK t : t = TipoPublicado(r, porte) /\ t \in {"B", "Q"} /\ t # "A"
                   /\ PorAno[t] = PeriodosPorAno(r) /\ PorAno[t] \in 2..6
      BY <1>3, PorAnoTem DEF Relatorios, TipoPublicado, PeriodosPorAno
    <2>7. PICK k \in 2..6 : k = PorAno[t] /\ k = PeriodosPorAno(r)
      BY <2>1
    <2>2. Forma(p, t)
      BY <1>1, <2>1, MaisRecenteHa DEF IInvCalendario
    <2>3. PICK a \in Nat, n \in 1..k : p = [ano |-> a, tipo |-> t, num |-> n]
      BY <2>1, <2>2, <2>7, FormaTem, PorAnoTem
    <2>4. CASE n = k
      <3>1. n \div k = 1 /\ n % k = 0
        BY <2>7, <2>4
      <3>2. s = [ano |-> a + 1, tipo |-> t, num |-> 1]
        BY <1>1, <2>1, <2>7, <2>3, <3>1 DEF Seguinte, Indice, Periodo
      <3>3. QED
        BY <2>1, <2>7, <2>3, <2>4, <3>2 DEF ProximoEsperado, Indice, Anterior, Periodo
    <2>5. CASE n < k
      <3>1. n \div k = 0 /\ n % k = n
        BY <2>7, <2>5
      <3>2. s = [ano |-> a, tipo |-> t, num |-> n + 1]
        BY <1>1, <2>1, <2>7, <2>3, <3>1 DEF Seguinte, Indice, Periodo
      <3>3. Anterior(s) = p
        BY <2>1, <2>7, <2>3, <3>2 DEF Anterior, Periodo
      <3>4. QED
        BY <2>1, <2>7, <2>3, <2>5, <3>2, <3>3 DEF ProximoEsperado, Indice
    <2>6. QED
      BY <2>4, <2>5
  <1>4. QED
    BY <1>2, <1>3

\* The RREO of a period of the RGF, which is by quadrimester or by semester.
LEMMA RclDoMesmoMesSempre ==
    ASSUME IInvCalendario
    PROVE  RclDoMesmoMes
  <1>1. SUFFICES ASSUME NEW p \in entregas["RGF"], NEW b, b = RreoDeRgf(p)
                 PROVE  /\ b \in PeriodosDoAno(p.ano, "B") /\ b = EmBimestre(p)
                        /\ Fim[b] = Fim[p]
                        /\ \A quando \in {"ciclo_fechado", "ciclo_corrente"} :
                                EmPeriodoRgf(b, p.tipo, quando) = p
    BY DEF RclDoMesmoMes
  <1>2. "RGF" \in Relatorios
    BY DEF Relatorios
  <1>16. PICK t : t = TipoPublicado("RGF", porte) /\ t \in {"Q", "S"}
    BY DEF TipoPublicado
  <1>3. PICK k \in Nat, f \in Nat :
             /\ t = TipoPublicado("RGF", porte) /\ t \in DOMAIN PorAno
             /\ k = PorAno[t] /\ f = PorAno["B"] \div k
             /\ (t = "Q" /\ k = 3 /\ f = 2) \/ (t = "S" /\ k = 2 /\ f = 3)
    <2>1. 6 \div 3 = 2 /\ 6 \div 2 = 3
      OBVIOUS
    <2>2. CASE t = "Q"
      BY <1>16, <2>1, <2>2, PorAnoTem
    <2>3. CASE t = "S"
      BY <1>16, <2>1, <2>3, PorAnoTem
    <2>4. QED
      BY <1>16, <2>2, <2>3
  <1>4. Forma(p, t)
    BY <1>1, <1>2, <1>3 DEF IInvCalendario
  <1>5. PICK a \in Anos, n \in 1..k : p = [ano |-> a, tipo |-> t, num |-> n]
    BY <1>3, <1>4, FormaTem
  <1>6. a \in Nat
    BY AnosNaturais
  <1>7. b = Periodo(a, "B", f * n) /\ b = EmBimestre(p)
    BY <1>1, <1>3, <1>5 DEF RreoDeRgf, EmBimestre
  <1>8. f * n \in 1..6
    BY <1>3
  <1>9. b \in PeriodosDoAno(a, "B") /\ Fim[b] = FimAbs(b)
    BY <1>5, <1>7, <1>8, PorAnoTem, PeriodoTem
  <1>10. Fim[p] = FimAbs(p)
    BY <1>3, <1>4, FormaTem
  <1>11. MesFinal(b) = MesFinal(p)
    BY <1>3, <1>5, <1>7, PorAnoTem DEF MesFinal, Periodo
  <1>12. FimAbs(b) = FimAbs(p)
    BY <1>5, <1>7, <1>11 DEF FimAbs, Periodo
  <1>13. /\ (f * n + f - 1) \div f = n /\ (f * n) % f = 0 /\ (f * n) \div f = n
    BY <1>3
  <1>14. \A quando \in {"ciclo_fechado", "ciclo_corrente"} : EmPeriodoRgf(b, t, quando) = p
    BY <1>3, <1>5, <1>7, <1>13 DEF EmPeriodoRgf, Periodo
  <1>15. QED
    BY <1>5, <1>7, <1>9, <1>10, <1>12, <1>14

\* Months of a year do not overlap.
LEMMA MesesEmOrdem ==
    ASSUME NEW a \in Nat, NEW m \in 1..12, NEW k \in 1..12, m < k
    PROVE  DiasAntes(a, m) + DiasDoMes(a, m) <= DiasAntes(a, k)
  <1>1. PICK b \in 0..1 : b = IF Bissexto(a) THEN 1 ELSE 0
    OBVIOUS
  <1>2. /\ DiasAntes(a, 1) = 0 /\ DiasAntes(a, 2) = 31 /\ DiasAntes(a, 3) = 59 + b
        /\ DiasAntes(a, 4) = 90 + b /\ DiasAntes(a, 5) = 120 + b
        /\ DiasAntes(a, 6) = 151 + b /\ DiasAntes(a, 7) = 181 + b
        /\ DiasAntes(a, 8) = 212 + b /\ DiasAntes(a, 9) = 243 + b
        /\ DiasAntes(a, 10) = 273 + b /\ DiasAntes(a, 11) = 304 + b
        /\ DiasAntes(a, 12) = 334 + b
    BY <1>1 DEF DiasAntes
  <1>3. m + 1 \in 1..12 /\ DiasAntes(a, m + 1) = DiasAntes(a, m) + DiasDoMes(a, m)
    BY MesesSeguidos
  <1>4. PICK n \in 1..12 : n = m + 1 /\ n <= k
    BY <1>3
  <1>5. DiasAntes(a, n) <= DiasAntes(a, k)
    <2>1. n = 1 \/ n = 2 \/ n = 3 \/ n = 4 \/ n = 5 \/ n = 6 \/ n = 7 \/ n = 8 \/ n = 9
            \/ n = 10 \/ n = 11 \/ n = 12
      OBVIOUS
    <2>2. k = 1 \/ k = 2 \/ k = 3 \/ k = 4 \/ k = 5 \/ k = 6 \/ k = 7 \/ k = 8 \/ k = 9
            \/ k = 10 \/ k = 11 \/ k = 12
      OBVIOUS
    <2>3. QED
      BY <1>2, <1>4, <2>1, <2>2
  <1>6. QED
    BY <1>3, <1>4, <1>5

\* A month has ended when the day is of a later one of the year.
LEMMA MesPassou ==
    ASSUME NEW d \in Data, NEW m \in 1..12
    PROVE  DiaAbs([ano |-> d.ano, mes |-> m, dia |-> DiasDoMes(d.ano, m)]) < DiaAbs(d)
             <=> m < d.mes
  <1>1. PICK a \in Nat, k \in 1..12, x \in 1..31 :
          a = d.ano /\ k = d.mes /\ x = d.dia /\ x <= DiasDoMes(a, k)
    BY DEF Data
  <1>2. PICK z \in Int : z = AteOAno(a)
    BY AnosSeguidos
  <1>3. /\ DiaAbs([ano |-> d.ano, mes |-> m, dia |-> DiasDoMes(d.ano, m)])
             = z + DiasAntes(a, m) + DiasDoMes(a, m)
        /\ DiaAbs(d) = z + DiasAntes(a, k) + x
    BY <1>1, <1>2 DEF DiaAbs, AteOAno
  <1>9. /\ DiasAntes(a, m) \in 0..335 /\ DiasDoMes(a, m) \in 28..31
        /\ DiasAntes(a, k) \in 0..335 /\ DiasDoMes(a, k) \in 28..31
    BY MesesSeguidos, ZenonT(30)
  <1>4. /\ DiasAntes(a, m) \in Nat /\ DiasDoMes(a, m) \in Nat /\ DiasAntes(a, k) \in Nat
        /\ DiasDoMes(a, k) \in Nat
    BY <1>9
  <1>5. m < k => DiasAntes(a, m) + DiasDoMes(a, m) <= DiasAntes(a, k)
    BY MesesEmOrdem
  <1>6. k < m => DiasAntes(a, k) + DiasDoMes(a, k) <= DiasAntes(a, m)
    BY MesesEmOrdem
  <1>7. k = m => DiasAntes(a, k) = DiasAntes(a, m) /\ DiasDoMes(a, k) = DiasDoMes(a, m)
    OBVIOUS
  <1>8. QED
    BY <1>1, <1>3, <1>4, <1>5, <1>6, <1>7

\* The months of each kind of period.
LEMMA MesFinalDe ==
    ASSUME NEW t \in {"B", "Q", "S", "M"}, NEW a, NEW n \in 1..PorAno[t]
    PROVE  /\ MesFinal(Periodo(a, t, n)) = n * (12 \div PorAno[t])
           /\ MesFinal(Periodo(a, t, n)) \in 1..12
           /\ PorAno[t] \in 1..12 /\ 12 \div PorAno[t] \in 1..12
           /\ \/ PorAno[t] = 6 /\ 12 \div PorAno[t] = 2
              \/ PorAno[t] = 3 /\ 12 \div PorAno[t] = 4
              \/ PorAno[t] = 2 /\ 12 \div PorAno[t] = 6
              \/ PorAno[t] = 12 /\ 12 \div PorAno[t] = 1
  <1>1. MesFinal(Periodo(a, t, n)) = (12 * n) \div PorAno[t]
    BY DEF MesFinal, Periodo
  <1>2. CASE t = "B"
    <2>1. 12 \div 6 = 2 /\ n \in 1..6 /\ PorAno[t] = 6
      BY <1>2, PorAnoTem
    <2>2. (12 * n) \div 6 = n * 2
      BY <2>1
    <2>3. QED
      BY <1>1, <2>1, <2>2
  <1>3. CASE t = "Q"
    <2>1. 12 \div 3 = 4 /\ n \in 1..3 /\ PorAno[t] = 3
      BY <1>3, PorAnoTem
    <2>2. (12 * n) \div 3 = n * 4
      BY <2>1
    <2>3. QED
      BY <1>1, <2>1, <2>2
  <1>4. CASE t = "S"
    <2>1. 12 \div 2 = 6 /\ n \in 1..2 /\ PorAno[t] = 2
      BY <1>4, PorAnoTem
    <2>2. (12 * n) \div 2 = n * 6
      BY <2>1
    <2>3. QED
      BY <1>1, <2>1, <2>2
  <1>5. CASE t = "M"
    <2>1. 12 \div 12 = 1 /\ n \in 1..12 /\ PorAno[t] = 12
      BY <1>5, PorAnoTem
    <2>2. (12 * n) \div 12 = n
      BY <2>1
    <2>3. QED
      BY <1>1, <2>1, <2>2
  <1>6. QED
    BY <1>2, <1>3, <1>4, <1>5

LEMMA AnoNosAnos ==
    ASSUME IInvCalendario
    PROVE  referencia \in Data /\ referencia.ano \in Anos
  <1>1. PICK a \in Nat \ {0}, m \in 1..12, x \in 1..31 :
          referencia = [ano |-> a, mes |-> m, dia |-> x]
    BY DEF IInvCalendario, TypeOKCalendario, Data
  <1>2. /\ AnoInicial <= a /\ 12 * a + m - 1 <= 12 * AnoInicial + MesesVistos
        /\ AnoInicial \in Nat /\ MesesVistos \in Nat
    BY <1>1, DatasAssumption DEF IInvCalendario, MesAbs, PrimeiroDia
  <1>3. PICK q \in Nat : q = MesesVistos \div 12 /\ MesesVistos < 12 * q + 12
    BY <1>2
  <1>4. a <= AnoInicial + q
    BY <1>2, <1>3
  <1>5. QED
    BY <1>1, <1>2, <1>3, <1>4 DEF Anos, IInvCalendario, TypeOKCalendario

\* A year of k periods of w months each, and those that come before month m.
Divide(k, w) ==
    \/ k = 6 /\ w = 2
    \/ k = 3 /\ w = 4
    \/ k = 2 /\ w = 6
    \/ k = 12 /\ w = 1

Cabem(j, m, k, w) ==
    /\ j = (m - 1) \div w /\ j <= k
    /\ \A n \in 1..k : n * w < m <=> n <= j

LEMMA Completos ==
    ASSUME NEW m \in 1..12, NEW k \in 1..12, NEW w \in 1..12,
           Divide(k, w)
    PROVE  \E j \in Nat : Cabem(j, m, k, w)
  <1>1. CASE k = 6 /\ w = 2
    <2>1. PICK j \in Nat : j = (m - 1) \div 2 /\ 2 * j <= m - 1 /\ m - 1 < 2 * j + 2
      BY Z3
    <2>2. QED
      BY <1>1, <2>1 DEF Cabem
  <1>2. CASE k = 3 /\ w = 4
    <2>1. PICK j \in Nat : j = (m - 1) \div 4 /\ 4 * j <= m - 1 /\ m - 1 < 4 * j + 4
      BY Z3
    <2>2. QED
      BY <1>2, <2>1 DEF Cabem
  <1>3. CASE k = 2 /\ w = 6
    <2>1. PICK j \in Nat : j = (m - 1) \div 6 /\ 6 * j <= m - 1 /\ m - 1 < 6 * j + 6
      BY Z3
    <2>2. QED
      BY <1>3, <2>1 DEF Cabem
  <1>4. CASE k = 12 /\ w = 1
    <2>1. (m - 1) \div 1 = m - 1 /\ m - 1 \in Nat
      OBVIOUS
    <2>2. QED
      BY <1>4, <2>1 DEF Cabem
  <1>5. QED
    BY <1>1, <1>2, <1>3, <1>4 DEF Divide

\* On every day of every year the periods asked for are those that have ended.
LEMMA PedidoPossivelSempre ==
    ASSUME IInvCalendario
    PROVE  PedidoPossivel
  <1>1. PICK a \in Nat, m \in 1..12 : a = referencia.ano /\ m = referencia.mes
    BY AnoNosAnos DEF Data
  <1>2. ASSUME NEW t \in {"B", "Q", "S", "M"}, NEW K, K = Possiveis(referencia.ano, t)
        PROVE  /\ K = {n \in 1..PorAno[t] :
                         Fim[Periodo(referencia.ano, t, n)] < DiaAbs(referencia)}
               /\ t # "S" => \A n \in K :
                    Defasagem(Periodo(referencia.ano, t, n)) = Cardinality(K) - n
    <2>1. PICK k \in 1..12, w \in 1..12 :
            /\ k = PorAno[t] /\ w = 12 \div k
            /\ Divide(k, w)
      <3>1. 1 \in 1..PorAno[t]
        BY PorAnoTem
      <3>2. QED
        BY <3>1, MesFinalDe DEF Divide
    <2>2. K = {n \in 1..k : n * w < m}
      <3>1. \A n \in 1..k : ~(a < a) /\ (a = a /\ n * w < m <=> n * w < m)
        OBVIOUS
      <3>2. K = {n \in 1..k : a < a \/ (a = a /\ n * w < m)}
        BY <1>1, <1>2, <2>1 DEF Possiveis
      <3>3. QED
        BY <3>1, <3>2
    <2>3. ASSUME NEW n \in 1..k
          PROVE  Fim[Periodo(a, t, n)] < DiaAbs(referencia) <=> n * w < m
      <3>1. MesFinal(Periodo(a, t, n)) = n * w /\ n * w \in 1..12
        BY <2>1, <2>3, MesFinalDe
      <3>2. a \in Anos /\ t # "A" /\ t \in DOMAIN PorAno
        BY <1>1, AnoNosAnos, PorAnoTem
      <3>3. Fim[Periodo(a, t, n)] = FimAbs(Periodo(a, t, n))
        BY <2>1, <2>3, <3>2, PeriodoTem
      <3>4. FimAbs(Periodo(a, t, n))
              = DiaAbs([ano |-> a, mes |-> n * w, dia |-> DiasDoMes(a, n * w)])
        BY <3>1 DEF FimAbs, Periodo
      <3>5. QED
        BY <1>1, <3>1, <3>3, <3>4, AnoNosAnos, MesPassou
    <2>4. PICK j \in Nat : Cabem(j, m, k, w)
      BY <2>1, Completos
    <2>5. /\ j = (m - 1) \div w /\ j <= k
          /\ \A n \in 1..k : n * w < m <=> n <= j
      BY <2>4 DEF Cabem
    <2>7. K = 1..j
      BY <2>2, <2>5
    <2>8. Cardinality(K) = j
      BY <2>7, FS_Interval
    <2>9. ASSUME t # "S", NEW n \in K
          PROVE  Defasagem(Periodo(a, t, n)) = j - n
      <3>1. n \in Nat /\ n <= j
        BY <2>7, <2>9
      <3>2. Ordinal(Periodo(a, t, n)) = a * k + n - 1
        BY <2>1 DEF Ordinal, Indice, Periodo
      <3>3. Periodo(a, t, n).tipo = t
        BY DEF Periodo
      <3>4. PICK o \in Int : o = a * k
        OBVIOUS
      <3>5. Defasagem(Periodo(a, t, n)) =
              IF o + j - 1 > o + n - 1 THEN o + j - 1 - (o + n - 1) ELSE 0
        <4>1. PICK p : p = Periodo(a, t, n)
          OBVIOUS
        <4>2. PorAno[p.tipo] = k /\ 12 \div k = w /\ Ordinal(p) = o + n - 1
          BY <2>1, <3>2, <3>3, <3>4, <4>1
        <4>3. referencia.ano * k = o /\ (referencia.mes - 1) \div w = j
          BY <1>1, <2>5, <3>4
        <4>4. PICK x, y : /\ Defasagem(p) = IF x - 1 > y THEN x - 1 - y ELSE 0
                          /\ x = referencia.ano * PorAno[p.tipo]
                                    + (referencia.mes - 1) \div (12 \div PorAno[p.tipo])
                          /\ y = Ordinal(p)
          BY DEF Defasagem
        <4>5. x = o + j /\ y = o + n - 1
          BY <4>2, <4>3, <4>4
        <4>6. QED
          BY <3>1, <4>1, <4>4, <4>5
      <3>6. QED
        BY <3>1, <3>5
    <2>10. QED
      BY <1>1, <2>1, <2>2, <2>3, <2>8, <2>9
  <1>3. QED
    BY <1>2 DEF PedidoPossivel

\* A day more than another is after it.
LEMMA DiasEmInt ==
    ASSUME NEW a \in Nat, NEW m \in 1..12, NEW x \in Int
    PROVE  /\ DiaAbs([ano |-> a, mes |-> m, dia |-> x]) \in Int
           /\ DiaAbs([ano |-> a, mes |-> m, dia |-> x]) = AteOAno(a) + DiasAntes(a, m) + x
  <1>1. AteOAno(a) \in Int /\ DiasAntes(a, m) \in 0..335
    BY AnosSeguidos, MesesSeguidos
  <1>2. PICK z \in Int, y \in Int : z = AteOAno(a) /\ y = DiasAntes(a, m)
    BY <1>1
  <1>3. DiaAbs([ano |-> a, mes |-> m, dia |-> x]) = z + y + x
    BY <1>2 DEF DiaAbs, AteOAno
  <1>4. QED
    BY <1>2, <1>3

\* 31 December, and 30 April of the year after: 120 days, 121 in a leap year.
LEMMA AnoEAbril ==
    ASSUME NEW a \in Nat
    PROVE  /\ DiaAbs([ano |-> a, mes |-> 12, dia |-> DiasDoMes(a, 12)]) \in Int
           /\ DiaAbs([ano |-> a + 1, mes |-> 4, dia |-> 30])
                = DiaAbs([ano |-> a, mes |-> 12, dia |-> DiasDoMes(a, 12)])
                    + 120 + (IF Bissexto(a + 1) THEN 1 ELSE 0)
  <1>1. PICK z \in Int, y \in Int, k \in Int :
          z = AteOAno(a) /\ y = DiasAntes(a, 12) /\ k = DiasDoMes(a, 12)
    <2>1. DiasAntes(a, 12) \in 0..335 /\ DiasDoMes(a, 12) \in 28..31 /\ AteOAno(a) \in Int
      BY AnosSeguidos, MesesSeguidos
    <2>2. DiasAntes(a, 12) \in Int /\ DiasDoMes(a, 12) \in Int
      BY <2>1
    <2>3. QED
      BY <2>1, <2>2
  <1>2. PICK d \in Int : d = DiasDoAno(a) /\ AteOAno(a + 1) = z + d /\ y + k = d
    <2>1. DiasDoAno(a) \in 365..366
      BY MesesSeguidos
    <2>2. QED
      BY <1>1, <2>1, AnosSeguidos, MesesSeguidos
  <1>3. DiaAbs([ano |-> a, mes |-> 12, dia |-> k]) = z + y + k
    BY <1>1, DiasEmInt
  <1>4. a + 1 \in Nat /\ 4 \in 1..12 /\ 30 \in Int
    OBVIOUS
  <1>5. DiaAbs([ano |-> a + 1, mes |-> 4, dia |-> 30]) = AteOAno(a + 1) + DiasAntes(a + 1, 4) + 30
    BY <1>4, DiasEmInt
  <1>6. DiasAntes(a + 1, 4) = 90 + (IF Bissexto(a + 1) THEN 1 ELSE 0)
    BY DEF DiasAntes
  <1>7. QED
    BY <1>1, <1>2, <1>3, <1>5, <1>6

LEMMA HojeEInt ==
    ASSUME IInvCalendario
    PROVE  DiaAbs(referencia) \in Int
  <1>1. PICK a \in Nat \ {0}, m \in 1..12, x \in 1..31 :
          referencia = [ano |-> a, mes |-> m, dia |-> x]
    BY DEF IInvCalendario, TypeOKCalendario, Data
  <1>2. QED
    BY <1>1, DiasEmInt

\* The last day of a period.
LEMMA FimTem ==
    ASSUME NEW t \in {"B", "Q", "S", "M"}, NEW a \in Nat, NEW n \in 1..PorAno[t]
    PROVE  /\ FimAbs(Periodo(a, t, n)) \in Int
           /\ FimAbs(Periodo(a, t, n)) =
                DiaAbs([ano |-> a, mes |-> n * (12 \div PorAno[t]),
                        dia |-> DiasDoMes(a, n * (12 \div PorAno[t]))])
  <1>1. PICK m \in 1..12 : m = n * (12 \div PorAno[t]) /\ MesFinal(Periodo(a, t, n)) = m
    BY MesFinalDe
  <1>2. FimAbs(Periodo(a, t, n)) = DiaAbs([ano |-> a, mes |-> m, dia |-> DiasDoMes(a, m)])
    BY <1>1 DEF FimAbs, Periodo
  <1>3. DiasDoMes(a, m) \in 28..31
    BY MesesSeguidos
  <1>4. QED
    BY <1>1, <1>2, <1>3, DiasEmInt

LEMMA FrescorConcordaSempre ==
    ASSUME IInvCalendario, porte # "pequeno"
    PROVE  FrescorConcorda
  <1>1. SUFFICES ASSUME NEW r \in Relatorios, entregas[r] # {}, NEW p, p = MaisRecente(r),
                        NEW b,
                        b = IF r = "DCA" /\ Bissexto(p.ano + 2) THEN 1 ELSE 0
                 PROVE  DiasDeAtraso(r, p) > 0 <=> Passou(Prazo(r, Seguinte(p)) - b)
    BY DEF FrescorConcorda
  <1>2. PICK h \in Int : h = DiaAbs(referencia)
    BY HojeEInt
  <1>3. CASE r = "DCA"
    <2>1. Forma(p, "A")
      BY <1>1, <1>3, MaisRecenteTem
    <2>2. PICK a \in Nat : p = [ano |-> a, tipo |-> "A", num |-> 0]
      BY <2>1, FormaTem, PorAnoTem
    <2>3. Seguinte(p) = [ano |-> a + 1, tipo |-> "A", num |-> 0]
      BY <2>2, PorAnoTem DEF Seguinte, Indice, Periodo
    <2>6. (a + 1) + 1 = a + 2 /\ a + 1 \in Nat
      OBVIOUS
    <2>4. PICK e \in Int : e = DiaAbs([ano |-> a + 1, mes |-> 12, dia |-> DiasDoMes(a + 1, 12)])
      BY <2>6, AnoEAbril
    <2>5. b \in 0..1 /\ b = IF Bissexto(a + 2) THEN 1 ELSE 0
      BY <1>1, <1>3, <2>2
    <2>7. DiaAbs([ano |-> a + 2, mes |-> 4, dia |-> 30]) = e + 120 + b
      BY <2>4, <2>5, <2>6, AnoEAbril
    <2>8. Prazo(r, Seguinte(p)) = e + 120 + b
      BY <1>3, <2>3, <2>6, <2>7 DEF Prazo
    <2>9. DiasDeAtraso(r, p) = IF h > e + 120 THEN h - (e + 120) ELSE 0
      <3>1. Indice(p) = 1 /\ PeriodosPorAno(r) = 1 /\ DiasAposPeriodo(r) = 120 /\ Conhecido(p)
        BY <1>3, <2>2 DEF Indice, PeriodosPorAno, DiasAposPeriodo, Conhecido
      <3>2. 1 * (12 \div 1) = 12
        OBVIOUS
      <3>3. QED
        BY <1>2, <2>2, <2>4, <3>1, <3>2 DEF DiasDeAtraso, Passou
    <2>10. QED
      BY <1>2, <2>5, <2>8, <2>9 DEF Passou
  <1>4. CASE r # "DCA"
    <2>1. PICK t : /\ t = TipoPublicado(r, porte) /\ t \in {"B", "Q"} /\ t \in DOMAIN PorAno
                   /\ PorAno[t] = PeriodosPorAno(r) /\ PorAno[t] \in 2..6
                   /\ DiasAposPeriodo(r) = 30
      BY <1>4, PorAnoTem DEF Relatorios, TipoPublicado, PeriodosPorAno, DiasAposPeriodo
    <2>2. Forma(p, t)
      BY <1>1, <2>1, MaisRecenteHa DEF IInvCalendario
    <2>3. PICK k \in 2..6 : k = PorAno[t] /\ k = PeriodosPorAno(r)
      BY <2>1
    <2>4. PICK a \in Nat, n \in 1..k : p = [ano |-> a, tipo |-> t, num |-> n]
      BY <2>1, <2>2, <2>3, FormaTem
    <2>5. PICK c \in Nat, j \in 1..k : /\ j = (IF n = k THEN 1 ELSE n + 1)
                                       /\ c = (IF n = k THEN a + 1 ELSE a)
      BY <2>4
    <2>6. Seguinte(p) = Periodo(c, t, j)
      <3>1. n = k => n \div k = 1 /\ n % k = 0
        BY <2>3
      <3>2. n # k => n \div k = 0 /\ n % k = n
        BY <2>3
      <3>3. Indice(p) = n /\ p.tipo = t /\ p.ano = a /\ p.num = n /\ t # "A"
        BY <2>1, <2>4 DEF Indice
      <3>4. Seguinte(p) = Periodo(a + n \div k, t, (n % k) + 1)
        BY <2>3, <3>3 DEF Seguinte
      <3>5. QED
        BY <2>5, <3>1, <3>2, <3>4
    <2>7. PICK f \in Int :
            /\ f = FimAbs(Periodo(c, t, j))
            /\ f = DiaAbs([ano |-> c, mes |-> j * (12 \div k),
                           dia |-> DiasDoMes(c, j * (12 \div k))])
      BY <2>1, <2>3, FimTem
    <2>8. Prazo(r, Seguinte(p)) = f + 30
      BY <1>4, <2>6, <2>7 DEF Prazo
    <2>9. DiasDeAtraso(r, p) = IF h > f + 30 THEN h - (f + 30) ELSE 0
      <3>1. /\ Indice(p) = n /\ PeriodosPorAno(r) = k /\ DiasAposPeriodo(r) = 30 /\ Conhecido(p)
            /\ p.ano = a
        BY <2>1, <2>3, <2>4 DEF Indice, Conhecido
      <3>2. QED
        BY <1>2, <2>5, <2>7, <3>1 DEF DiasDeAtraso, Passou
    <2>10. b = 0
      BY <1>1, <1>4
    <2>11. QED
      BY <1>2, <2>8, <2>9, <2>10 DEF Passou
  <1>5. QED
    BY <1>3, <1>4

\* The deadline of a period is after its end.
LEMMA PrazoDepoisDoFim ==
    ASSUME IInvCalendario, NEW r \in Relatorios, NEW t, t \in {"B", "Q", "A"},
           (t = "A") <=> (r = "DCA"), NEW p, Forma(p, t), Passou(Prazo(r, p))
    PROVE  Passou(Fim[p])
  <1>1. t \in DOMAIN PorAno
    BY PorAnoTem
  <1>2. Fim[p] = FimAbs(p) /\ p.ano \in Nat
    BY <1>1, FormaTem
  <1>3. PICK h \in Int : h = DiaAbs(referencia)
    BY HojeEInt
  <1>4. CASE t = "A"
    <2>1. PICK a \in Nat : p = [ano |-> a, tipo |-> "A", num |-> 0]
      BY <1>1, <1>4, FormaTem
    <2>2. FimAbs(p) = DiaAbs([ano |-> a, mes |-> 12, dia |-> DiasDoMes(a, 12)])
      BY <2>1 DEF FimAbs, MesFinal
    <2>3. PICK e \in Int : e = DiaAbs([ano |-> a, mes |-> 12, dia |-> DiasDoMes(a, 12)])
      BY AnoEAbril
    <2>4. PICK b \in 0..1 : b = IF Bissexto(a + 1) THEN 1 ELSE 0
      OBVIOUS
    <2>5. Prazo(r, p) = e + 120 + b
      BY <1>4, <2>1, <2>3, <2>4, AnoEAbril DEF Prazo
    <2>6. QED
      BY <1>2, <1>3, <2>2, <2>3, <2>5 DEF Passou
  <1>5. CASE t # "A"
    <2>1. PICK a \in Nat, n \in 1..PorAno[t] : p = Periodo(a, t, n)
      BY <1>1, <1>5, FormaTem DEF Periodo
    <2>2. t \in {"B", "Q", "S", "M"}
      BY <1>5
    <2>3. PICK f \in Int : f = FimAbs(p)
      BY <2>1, <2>2, FimTem
    <2>4. Prazo(r, p) = f + 30
      BY <1>5, <2>3 DEF Prazo
    <2>5. QED
      BY <1>2, <1>3, <2>3, <2>4 DEF Passou
  <1>6. QED
    BY <1>4, <1>5

LEMMA PontualNaoDeveSempre ==
    ASSUME IInvCalendario, porte # "pequeno"
    PROVE  PontualNaoDeve
  <1>1. SUFFICES ASSUME entregas["RREO"] # {}, NEW ano, ano = MaisRecente("RREO").ano,
                        NEW r \in Relatorios
                 PROVE  /\ Devidos(r, ano) \subseteq entregas[r] =>
                            \A ob \in ObrigacoesDoAno(ano, porte) :
                                ob[1] = r /\ Passou(Prazo(r, ob[2])) => Status(r, ob[2]) = "entregue"
                        /\ {p \in entregas[r] : p.ano = ano} =
                            {ob[2] : ob \in {o \in ObrigacoesDoAno(ano, porte) :
                                                o[1] = r /\ Status(r, o[2]) = "entregue"}}
    BY DEF PontualNaoDeve
  <1>2. ano \in Anos
    <2>1. "RREO" \in Relatorios
      BY DEF Relatorios
    <2>2. Forma(MaisRecente("RREO"), "B")
      BY <1>1, <2>1, MaisRecenteTem
    <2>3. QED
      BY <1>1, <2>2, FormaTem, PorAnoTem
  <1>3. PICK t : /\ t = TipoPublicado(r, porte) /\ t \in {"B", "Q", "A"} /\ t \in DOMAIN PorAno
                 /\ (t = "A") <=> (r = "DCA")
                 /\ (r = "RREO" => t = "B") /\ (r = "RGF" => t = "Q")
    BY PorAnoTem DEF Relatorios, TipoPublicado
  <1>4. \A p : Status(r, p) = "entregue" <=> p \in entregas[r]
    BY DEF Status
  <1>5. \A ob \in ObrigacoesDoAno(ano, porte) : ob[1] = r => ob[2] \in PeriodosDoAno(ano, t)
    BY <1>3, PorAnoTem DEF ObrigacoesDoAno, QuadrimestresDe, PeriodosDoAno, Relatorios
  <1>6. \A p \in PeriodosDoAno(ano, t) : <<r, p>> \in ObrigacoesDoAno(ano, porte)
    <2>1. CASE r = "RREO"
      BY <1>3, <2>1, PorAnoTem DEF ObrigacoesDoAno, PeriodosDoAno
    <2>2. CASE r = "RGF"
      BY <1>3, <2>2, PorAnoTem DEF ObrigacoesDoAno, PeriodosDoAno, QuadrimestresDe
    <2>3. CASE r = "DCA"
      BY <1>3, <2>3, PorAnoTem DEF ObrigacoesDoAno, PeriodosDoAno
    <2>4. QED
      BY <2>1, <2>2, <2>3 DEF Relatorios
  <1>7. \A p \in PeriodosDoAno(ano, t) : Forma(p, t) /\ p.ano = ano
    <2>1. \A p \in PeriodosDoAno(ano, t) : Forma(p, t)
      BY <1>2, <1>3, FormaEhPeriodo
    <2>2. \A p \in PeriodosDoAno(ano, t) : p.ano = ano
      BY DEF PeriodosDoAno, Periodo
    <2>3. QED
      BY <2>1, <2>2
  <1>8. \A p \in entregas[r] : p.ano = ano => p \in PeriodosDoAno(ano, t)
    <2>1. SUFFICES ASSUME NEW p \in entregas[r], p.ano = ano PROVE p \in PeriodosDoAno(ano, t)
      OBVIOUS
    <2>2. Forma(p, t)
      BY <1>3 DEF IInvCalendario
    <2>3. PICK a \in Anos : p \in PeriodosDoAno(a, t)
      BY <1>3, <2>2, FormaEhPeriodo
    <2>4. p.ano = a
      BY <2>3 DEF PeriodosDoAno, Periodo
    <2>5. QED
      BY <2>1, <2>3, <2>4
  <1>9. ASSUME Devidos(r, ano) \subseteq entregas[r], NEW ob \in ObrigacoesDoAno(ano, porte),
               ob[1] = r, Passou(Prazo(r, ob[2]))
        PROVE  Status(r, ob[2]) = "entregue"
    <2>1. PICK p \in PeriodosDoAno(ano, t) : p = ob[2]
      BY <1>5, <1>9
    <2>2. Forma(p, t) /\ Passou(Prazo(r, p))
      BY <1>7, <1>9, <2>1
    <2>3. Passou(Fim[p])
      BY <1>3, <2>2, PrazoDepoisDoFim
    <2>4. p \in Devidos(r, ano)
      BY <1>3, <2>1, <2>3 DEF Devidos
    <2>5. QED
      BY <1>4, <1>9, <2>1, <2>4
  <1>10. {p \in entregas[r] : p.ano = ano} =
            {ob[2] : ob \in {o \in ObrigacoesDoAno(ano, porte) :
                                o[1] = r /\ Status(r, o[2]) = "entregue"}}
    <2>1. ASSUME NEW p \in entregas[r], p.ano = ano
          PROVE  \E ob \in ObrigacoesDoAno(ano, porte) :
                    ob[1] = r /\ Status(r, ob[2]) = "entregue" /\ p = ob[2]
      <3>1. <<r, p>> \in ObrigacoesDoAno(ano, porte)
        BY <1>6, <1>8, <2>1
      <3>2. <<r, p>>[1] = r /\ <<r, p>>[2] = p
        OBVIOUS
      <3>3. QED
        BY <1>4, <2>1, <3>1, <3>2
    <2>2. ASSUME NEW ob \in ObrigacoesDoAno(ano, porte), ob[1] = r, Status(r, ob[2]) = "entregue"
          PROVE  ob[2] \in entregas[r] /\ ob[2].ano = ano
      BY <1>4, <1>5, <1>7, <2>2
    <2>3. QED
      BY <2>1, <2>2
  <1>11. QED
    BY <1>9, <1>10

\* Of an entity of any size the periods asked for are those that have ended and
\* each RGF has the RREO of its month.
THEOREM PeriodosSempre == SpecCalendario => [](PedidoPossivel /\ RclDoMesmoMes)
  <1>1. IInvCalendario => PedidoPossivel /\ RclDoMesmoMes
    BY PedidoPossivelSempre, RclDoMesmoMesSempre
  <1>2. QED
    BY <1>1, CalendarioInvariante, PTL

\* In every year, on every set of days, whatever periods an entity fails to
\* publish: the parts of the system agree, unless it publishes by semester, for
\* which PontualNaoDeve may be false (README, section 6).
THEOREM CalendarioCoerenteSempre ==
    SpecCalendario => [](porte # "pequeno" => CalendarioCoerente)
  <1>1. IInvCalendario => (porte # "pequeno" => CalendarioCoerente)
    BY PontualNaoDeveSempre, FrescorConcordaSempre, PedidoPossivelSempre, RclDoMesmoMesSempre,
       SeguinteConcordaSempre DEF CalendarioCoerente
  <1>2. QED
    BY <1>1, CalendarioInvariante, PTL

=============================================================================
