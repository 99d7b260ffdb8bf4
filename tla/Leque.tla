------------------------------- MODULE Leque --------------------------------
(***************************************************************************)
(* The fan-out "update everything" (ingestion/jobs_service.py): the active *)
(* sources are put in the order of their dependencies and one job is       *)
(* created for each, committed and delivered by itself.  The manager may   *)
(* ask again after an error, and turn sources on and off meanwhile.        *)
(***************************************************************************)
EXTENDS Integers, Sequences, SequencesExt, FiniteSets

CONSTANTS
    Registro,      \* FONTE_META: the sources, in order
    SemConfig,     \* sources that ask for a configuration nobody gave
    MaxLeques,     \* bound: requests
    MaxAlternancias \* bound: sources turned on or off

FontesLeque == ToSet(Registro)

ASSUME LequeAssumption ==
    /\ Registro \in Seq(FontesLeque) /\ IsInjective(Registro)
    /\ SemConfig \subseteq FontesLeque
    /\ MaxLeques \in Nat /\ MaxAlternancias \in Nat

VARIABLES
    dependencias, \* meta.dependencias of each source
    ligadas,      \* integracao_ativa
    leque,        \* locals of the request
    criados,      \* jobs of each request so far, in order of commit
    leques,       \* requests begun
    alternancias  \* sources turned on or off so far

lequeVars == <<dependencias, ligadas, leque, criados, leques, alternancias>>

\* disparar: what fontes_do_leque chose; pendentes, saida, avancou: the locals of
\* _ordem_topologica; volta: what is left of its for.  The lists but saida keep
\* the order of the registry, from which only removals leave: they are sets.
LequeLocal ==
    [fase: {"livre", "ordenando", "criando"}, disparar: SUBSET FontesLeque,
     pendentes: SUBSET FontesLeque, saida: Seq(FontesLeque),
     volta: SUBSET FontesLeque, avancou: BOOLEAN]
LequeLivre ==
    [fase |-> "livre", disparar |-> {}, pendentes |-> {}, saida |-> <<>>,
     volta |-> {}, avancou |-> FALSE]

\* The first of a list in the order of the registry.
PrimeiraDe(S) ==
    CHOOSE f \in S :
        \E i \in DOMAIN Registro : Registro[i] = f /\ \A j \in 1..(i - 1) : Registro[j] \notin S

\* Type invariant of the request and of the jobs it created.
TypeOKLeque ==
    /\ dependencias \in [FontesLeque -> SUBSET FontesLeque]
    /\ ligadas \in SUBSET FontesLeque
    /\ leque \in LequeLocal
    /\ criados \in Seq([leque: 1..MaxLeques, fonte: FontesLeque, entregue: BOOLEAN,
                        disparar: SUBSET FontesLeque])
    /\ leques \in 0..MaxLeques /\ alternancias \in 0..MaxAlternancias

\* The registry is fixed by the code; every graph is a registry it could have.
InitLeque ==
    /\ dependencias \in [FontesLeque -> SUBSET FontesLeque]
    /\ ligadas = FontesLeque
    /\ leque = LequeLivre
    /\ criados = <<>>
    /\ leques = 0 /\ alternancias = 0

-----------------------------------------------------------------------------

\* PATCH of an integration.
Alternar(f) ==
    /\ alternancias < MaxAlternancias
    /\ alternancias' = alternancias + 1
    /\ ligadas' = IF f \in ligadas THEN ligadas \ {f} ELSE ligadas \cup {f}
    /\ UNCHANGED <<dependencias, leque, criados, leques>>

FontesDoLeque == ligadas \ SemConfig

PedirLeque ==
    /\ leque.fase = "livre" /\ leques < MaxLeques
    /\ leques' = leques + 1
    /\ leque' = [LequeLivre EXCEPT !.fase = "ordenando", !.disparar = FontesDoLeque,
                                   !.pendentes = FontesDoLeque, !.volta = FontesDoLeque]
    /\ UNCHANGED <<dependencias, ligadas, criados, alternancias>>

\* Mutant: a dependency the round has already looked at does not hold a source
\* back.
DisponivelNaVolta(f, l) ==
    \/ dependencias[f] \subseteq ToSet(l.saida)
    \/ dependencias[f] \cap l.volta = {}

\* deps <= visto or not (deps & set(pendentes))
Disponivel(f, l) ==
    \/ dependencias[f] \subseteq ToSet(l.saida)
    \/ dependencias[f] \cap l.pendentes = {}

\* One turn of the for of _ordem_topologica.
Examinar ==
    /\ leque.fase = "ordenando" /\ leque.volta # {}
    /\ LET f == PrimeiraDe(leque.volta) IN
         leque' = IF Disponivel(f, leque)
                  THEN [leque EXCEPT !.volta = leque.volta \ {f},
                                     !.saida = Append(leque.saida, f),
                                     !.pendentes = leque.pendentes \ {f},
                                     !.avancou = TRUE]
                  ELSE [leque EXCEPT !.volta = leque.volta \ {f}]
    /\ UNCHANGED <<dependencias, ligadas, criados, leques, alternancias>>

\* The end of a round of the while; what a cycle leaves pending goes after saida,
\* in the order it came.
FecharVolta ==
    /\ leque.fase = "ordenando" /\ leque.volta = {}
    /\ leque' = IF leque.pendentes # {} /\ leque.avancou
                THEN [leque EXCEPT !.volta = leque.pendentes, !.avancou = FALSE]
                ELSE [leque EXCEPT !.fase = "criando"]
    /\ UNCHANGED <<dependencias, ligadas, criados, leques, alternancias>>

\* A job of source f is in the table; resto: the request without it.
Criou(f, ok, resto) ==
    /\ criados' = Append(criados, [leque |-> leques, fonte |-> f,
                                   entregue |-> ok, disparar |-> leque.disparar])
    /\ leque' = IF ok THEN resto ELSE LequeLivre

\* _criar of the next source: its job is committed, and delivered or, when Redis
\* does not answer, closed as failed; then the error ends the request.
CriarJob(ok) ==
    /\ leque.fase = "criando"
    /\ \/ /\ leque.saida # <<>>
          /\ Criou(Head(leque.saida), ok, [leque EXCEPT !.saida = Tail(leque.saida)])
       \/ /\ leque.saida = <<>> /\ leque.pendentes # {}
          /\ LET f == PrimeiraDe(leque.pendentes) IN
               Criou(f, ok, [leque EXCEPT !.pendentes = leque.pendentes \ {f}])
    /\ UNCHANGED <<dependencias, ligadas, leques, alternancias>>

\* The request ends: every source has its job, or _criar refuses one (404, 403,
\* 422) or fails before its commit.
TerminarLeque ==
    /\ leque.fase = "criando"
    /\ leque' = LequeLivre
    /\ UNCHANGED <<dependencias, ligadas, criados, leques, alternancias>>

NextLeque ==
    \/ \E f \in FontesLeque : Alternar(f)
    \/ PedirLeque
    \/ Examinar
    \/ FecharVolta
    \/ \E ok \in BOOLEAN : CriarJob(ok)
    \/ TerminarLeque

SpecLeque == InitLeque /\ [][NextLeque]_lequeVars

-----------------------------------------------------------------------------

\* No source depends on itself through others.
Aciclico ==
    \A S \in (SUBSET FontesLeque) \ {{}} : \E f \in S : dependencias[f] \cap S = {}

\* Wherever the fan-out stops, what it left is closed under dependencies: the
\* job of a source comes after the jobs of the chosen sources it depends on, and
\* each source has one (jobs_service.py, 650-657, 705-711); also with a cycle,
\* which must not hang or repeat, no source has two.
LequeEmOrdem ==
    \A i \in DOMAIN criados :
        LET x == criados[i]
            antes == {criados[j].fonte : j \in {k \in 1..(i - 1) : criados[k].leque = x.leque}}
        IN /\ x.fonte \notin antes
           /\ x.fonte \in x.disparar
           /\ Aciclico => dependencias[x.fonte] \cap x.disparar \subseteq antes
=============================================================================
