-------------------------------- MODULE Datas --------------------------------
(***************************************************************************)
(* The civil calendar (datetime, calendar) and the day it is.              *)
(***************************************************************************)
EXTENDS Integers

CONSTANTS
    DiasVistos, \* days of a month on which anything happens
    AnoInicial, \* the first year
    MesesVistos \* bound: months that pass

ASSUME DatasAssumption ==
    /\ DiasVistos \in SUBSET (1..31) /\ 1 \in DiasVistos
    /\ AnoInicial \in Nat \ {0}
    /\ MesesVistos \in Nat

VARIABLE referencia \* the day it is

Bissexto(a) == a % 4 = 0 /\ (a % 100 # 0 \/ a % 400 = 0)

\* monthrange
DiasDoMes(a, m) ==
    IF m = 2 THEN IF Bissexto(a) THEN 29 ELSE 28
    ELSE IF m \in {4, 6, 9, 11} THEN 30 ELSE 31

\* date
Data == {d \in [ano: Nat \ {0}, mes: 1..12, dia: 1..31] : d.dia <= DiasDoMes(d.ano, d.mes)}

\* Months since year 0, and days since 31 December of it.
MesAbs(d) == 12 * d.ano + d.mes - 1
DiasAntes(a, m) ==
    <<0, 31, 59, 90, 120, 151, 181, 212, 243, 273, 304, 334>>[m]
        + (IF m > 2 /\ Bissexto(a) THEN 1 ELSE 0)
DiaAbs(d) ==
    365 * (d.ano - 1) + (d.ano - 1) \div 4 - (d.ano - 1) \div 100 + (d.ano - 1) \div 400
        + DiasAntes(d.ano, d.mes) + d.dia

\* The month k months after, at a day of it.
NoMes(d, k, dia) ==
    LET i == d.mes - 1 + k IN [ano |-> d.ano + i \div 12, mes |-> (i % 12) + 1, dia |-> dia]

\* timedelta, of less than a month
MaisDias(d, n) ==
    LET fim == DiasDoMes(d.ano, d.mes) IN
    IF d.dia + n <= fim THEN [d EXCEPT !.dia = d.dia + n] ELSE NoMes(d, 1, d.dia + n - fim)

PrimeiroDia == [ano |-> AnoInicial, mes |-> 1, dia |-> 1]

\* The next day on which anything happens.
PassarTempo ==
    /\ MesAbs(referencia) < MesAbs(PrimeiroDia) + MesesVistos
    /\ LET fim == DiasDoMes(referencia.ano, referencia.mes)
           depois == {n \in DiasVistos : n > referencia.dia /\ n <= fim}
           dia == CHOOSE n \in depois : \A k \in depois : n <= k
       IN referencia' = IF depois = {} THEN NoMes(referencia, 1, 1)
                        ELSE [referencia EXCEPT !.dia = dia]
=============================================================================
