------------------------------- MODULE Agenda -------------------------------
(***************************************************************************)
(* The days of a recurring report (workers/report_tasks.py): an emission   *)
(* happens when the clock finds the schedule due, some time after it was,  *)
(* and the next one is counted from the day it happened.                   *)
(***************************************************************************)
EXTENDS Datas

CONSTANT Agendas \* schedules: the day of the first execution, and how often

Periodicidades == {"diario", "semanal", "mensal", "bimestral"}

ASSUME AgendaAssumption ==
    Agendas \in SUBSET [inicio: Data, periodicidade: Periodicidades]

VARIABLES
    proxima, \* proxima_execucao of each schedule
    ultima   \* ultima_execucao

\* Before the first execution: the day of no year.
Nunca == [ano |-> 0, mes |-> 1, dia |-> 1]

agendaVars == <<referencia, proxima, ultima>>

TypeOKAgenda ==
    /\ referencia \in Data
    /\ proxima \in [Agendas -> Data]
    /\ ultima \in [Agendas -> Data \cup {Nunca}]

InitAgenda ==
    /\ referencia = PrimeiroDia
    /\ proxima = [a \in Agendas |-> a.inicio]
    /\ ultima = [a \in Agendas |-> Nunca]

-----------------------------------------------------------------------------

Minimo(x, y) == IF x <= y THEN x ELSE y

\* The same day, or the last one of a shorter month.
MaisMeses(d, k) ==
    LET alvo == NoMes(d, k, 1) IN
    [alvo EXCEPT !.dia = Minimo(d.dia, DiasDoMes(alvo.ano, alvo.mes))]

\* Mutant: a month is thirty days.
ProximaEmDias(d, periodicidade) ==
    CASE periodicidade = "diario" -> MaisDias(d, 1)
      [] periodicidade = "semanal" -> MaisDias(d, 7)
      [] OTHER -> MaisDias(d, 30)

\* _next_execution
NextExecution(d, periodicidade) ==
    CASE periodicidade = "diario" -> MaisDias(d, 1)
      [] periodicidade = "semanal" -> MaisDias(d, 7)
      [] periodicidade = "mensal" -> MaisMeses(d, 1)
      [] periodicidade = "bimestral" -> MaisMeses(d, 2)

\* executar_agendamentos: all that are due, in one transaction.
Vencidas == {a \in Agendas : DiaAbs(proxima[a]) <= DiaAbs(referencia)}
EmitirVencidas ==
    /\ Vencidas # {}
    /\ proxima' = [a \in Agendas |->
                     IF a \in Vencidas THEN NextExecution(referencia, a.periodicidade)
                     ELSE proxima[a]]
    /\ ultima' = [a \in Agendas |-> IF a \in Vencidas THEN referencia ELSE ultima[a]]
    /\ UNCHANGED referencia

NextAgenda ==
    \/ PassarTempo /\ UNCHANGED <<proxima, ultima>>
    \/ EmitirVencidas

SpecAgenda == InitAgenda /\ [][NextAgenda]_agendaVars

-----------------------------------------------------------------------------

\* A monthly schedule has one execution in a month, and the clock, however late
\* it comes and whatever the length of the months, plans the next one for the
\* next month, on a day it has; a bimonthly one skips one month
\* (report_tasks.py, 177-182).
UmaPorMes ==
    \A a \in Agendas :
        ultima[a] # Nunca =>
            /\ proxima[a] \in Data
            /\ a.periodicidade = "mensal" => MesAbs(proxima[a]) = MesAbs(ultima[a]) + 1
            /\ a.periodicidade = "bimestral" => MesAbs(proxima[a]) = MesAbs(ultima[a]) + 2
            /\ DiaAbs(proxima[a]) > DiaAbs(ultima[a])
=============================================================================
