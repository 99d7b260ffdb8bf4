------------------------------ MODULE Backfill ------------------------------
(***************************************************************************)
(* The resumable historical load (workers/backfill.py, run_backfill and    *)
(* Checkpoint).  Each unit commits by itself; the checkpoint is a file     *)
(* rewritten in place, which a process that dies while writing leaves      *)
(* truncated.  An operator runs the load again until it is done.           *)
(***************************************************************************)
EXTENDS Integers, FiniteSets

CONSTANTS
    NumUnidades,  \* units of the plan, in order
    SalvarACada,  \* save_every
    MaxRecusas,   \* bound: executions of a unit that fail
    MaxMortes     \* bound: deaths of the process and stops of the disk guard

ASSUME BackfillAssumption ==
    /\ NumUnidades \in Nat /\ SalvarACada \in Nat \ {0}
    /\ MaxRecusas \in Nat /\ MaxMortes \in Nat

VARIABLES
    gravadas,  \* units whose delivery is committed
    arquivo,   \* the checkpoint file
    corrida,   \* the run, if one is under way
    recusas,
    mortes

backfillVars == <<gravadas, arquivo, corrida, recusas, mortes>>

Unidades == 1..NumUnidades

\* What a write cut short leaves is not JSON: no set of units.
Truncado == {0}

Corrida == [fase: {"parada", "laco", "salva", "finaliza", "escreve", "encerra"},
            i: 1..NumUnidades + 1, done: SUBSET Unidades,
            executados: 0..NumUnidades, pulou: SUBSET Unidades]

SemCorrida == [fase |-> "parada", i |-> 1, done |-> {}, executados |-> 0, pulou |-> {}]

\* Type invariant of the load.
TypeOKBackfill ==
    /\ gravadas \in SUBSET Unidades
    /\ arquivo \in (SUBSET Unidades) \cup {Truncado}
    /\ corrida \in Corrida
    /\ recusas \in 0..MaxRecusas
    /\ mortes \in 0..MaxMortes

InitBackfill ==
    /\ gravadas = {}
    /\ arquivo = {}
    /\ corrida = SemCorrida
    /\ recusas = 0 /\ mortes = 0

-----------------------------------------------------------------------------

\* Checkpoint.load raises on a file that is not JSON.
Iniciar ==
    /\ corrida.fase = "parada"
    /\ arquivo # Truncado
    /\ corrida' = [SemCorrida EXCEPT !.fase = "laco", !.done = arquivo]
    /\ UNCHANGED <<gravadas, arquivo, recusas, mortes>>

NoLaco == corrida.fase = "laco" /\ corrida.i <= NumUnidades

Pular ==
    /\ NoLaco
    /\ corrida.i \in corrida.done
    /\ corrida' = [corrida EXCEPT !.i = @ + 1, !.pulou = @ \cup {corrida.i}]
    /\ UNCHANGED <<gravadas, arquivo, recusas, mortes>>

HoraDeSalvar(n) == n % SalvarACada = 0
Feitas(done, u) == done \cup {u}

\* service.run, the commit of the unit, and only then the checkpoint.
Executar ==
    /\ NoLaco
    /\ corrida.i \notin corrida.done
    /\ gravadas' = gravadas \cup {corrida.i}
    /\ corrida' = [corrida EXCEPT
           !.fase = IF HoraDeSalvar(corrida.executados + 1) THEN "salva" ELSE "laco",
           !.done = Feitas(@, corrida.i), !.executados = @ + 1, !.i = @ + 1]
    /\ UNCHANGED <<arquivo, recusas, mortes>>

\* Mutant: a unit that fails is not tried again.
FeitasComFalha(done, u) == done \cup {u}

\* A unit that fails is logged and does not enter the checkpoint.
FeitasNaFalha(done, u) == done
Recusar ==
    /\ NoLaco
    /\ recusas < MaxRecusas
    /\ corrida.i \notin corrida.done
    /\ recusas' = recusas + 1
    /\ corrida' = [corrida EXCEPT !.i = @ + 1, !.done = FeitasNaFalha(@, corrida.i)]
    /\ UNCHANGED <<gravadas, arquivo, mortes>>

\* The end of the loop, or the disk guard: the finally saves what was done.
TerminarLaco ==
    /\ corrida.fase = "laco"
    /\ corrida.i = NumUnidades + 1
    /\ corrida' = [corrida EXCEPT !.fase = "finaliza"]
    /\ UNCHANGED <<gravadas, arquivo, recusas, mortes>>

DiscoCheio ==
    /\ NoLaco
    /\ mortes < MaxMortes
    /\ corrida.i \notin corrida.done
    /\ mortes' = mortes + 1
    /\ corrida' = [corrida EXCEPT !.fase = "finaliza"]
    /\ UNCHANGED <<gravadas, arquivo, recusas>>

\* Checkpoint.save: write_text opens the file, which empties it, and writes.
AbrirArquivo ==
    /\ corrida.fase \in {"salva", "finaliza"}
    /\ arquivo' = Truncado
    /\ corrida' = [corrida EXCEPT
           !.fase = IF corrida.fase = "salva" THEN "escreve" ELSE "encerra"]
    /\ UNCHANGED <<gravadas, recusas, mortes>>

EscreverArquivo ==
    /\ corrida.fase \in {"escreve", "encerra"}
    /\ arquivo' = corrida.done
    /\ corrida' = IF corrida.fase = "escreve" THEN [corrida EXCEPT !.fase = "laco"]
                  ELSE SemCorrida
    /\ UNCHANGED <<gravadas, recusas, mortes>>

Morrer ==
    /\ mortes < MaxMortes
    /\ corrida.fase # "parada"
    /\ mortes' = mortes + 1
    /\ corrida' = SemCorrida
    /\ UNCHANGED <<gravadas, arquivo, recusas>>

CorridaStep ==
    Iniciar \/ Pular \/ Executar \/ TerminarLaco \/ AbrirArquivo \/ EscreverArquivo
NextBackfill == CorridaStep \/ Recusar \/ DiscoCheio \/ Morrer

SpecBackfill == InitBackfill /\ [][NextBackfill]_backfillVars
FairnessBackfill == WF_backfillVars(CorridaStep)

-----------------------------------------------------------------------------
(* Properties *)

\* No run skips a unit that is not loaded: the checkpoint never runs ahead of
\* the commits, whenever the process dies.
PulaSoGravada == corrida.pulou \subseteq gravadas

\* Once begun, and run again and again, the load ends with every unit in, unless
\* a death in the middle of a save left a file no run can open.
BackfillCompleta ==
    corrida.fase # "parada" ~> gravadas = Unidades \/ [](arquivo = Truncado)

=============================================================================
