---------------------------- MODULE CargasProofs ----------------------------
(***************************************************************************)
(* Proofs about the jobs that come in an order: the fan-out of a request   *)
(* over the sources it chose (Leque) and the refresh of a portfolio in     *)
(* batches (Carteira), for any registry, portfolio and number of clocks.   *)
(***************************************************************************)
EXTENDS Leque, Carteira, FiniteSetTheorems, SequenceTheorems, WellFoundedInduction, TLAPS

\* A set of numbers that is not empty has a first one.
LEMMA MenorDeles ==
    ASSUME NEW S, S \subseteq Nat, S # {}
    PROVE  \E n \in S : \A k \in S : n <= k
  <1>1. PICK R : IsWellFoundedOn(R, Nat) /\ \A x, y \in Nat : <<x, y>> \in R <=> x < y
    <2>1. \A x, y \in Nat : <<x, y>> \in OpToRel(<, Nat) <=> x < y
      BY DEF OpToRel
    <2>2. IsWellFoundedOn(OpToRel(<, Nat), Nat)
      BY NatLessThanWellFounded
    <2>3. QED
      BY <2>1, <2>2
  <1>2. IsWellFoundedOn(R, Nat)
    BY <1>1
  <1>3. \E n \in S : \A k \in S : ~(<<k, n>> \in R)
    BY ONLY <1>2, WFMin, S \subseteq Nat, S # {}
  <1>4. PICK n \in S : \A k \in S : ~(<<k, n>> \in R)
    BY <1>3
  <1>5. \A k \in S : ~(k < n)
    BY <1>1, <1>4
  <1>6. QED
    BY <1>4, <1>5

-----------------------------------------------------------------------------
(* The fan-out                                                             *)

\* The sources of the jobs of request n, and of those of its request before job i.
Criadas(c, n) == {c[j].fonte : j \in {k \in DOMAIN c : c[k].leque = n}}
Antes(c, i) == {c[j].fonte : j \in {k \in 1..(i - 1) : c[k].leque = c[i].leque}}

SemCiclo(dep) == \A S \in (SUBSET FontesLeque) \ {{}} : \E f \in S : dep[f] \cap S = {}
JobEmOrdem(x, antes, dep) ==
    /\ x.fonte \notin antes /\ x.fonte \in x.disparar
    /\ SemCiclo(dep) => dep[x.fonte] \cap x.disparar \subseteq antes
JobsEmOrdem(c, dep) == \A i \in DOMAIN c : JobEmOrdem(c[i], Antes(c, i), dep)
DePedidos(c, n) == \A i \in DOMAIN c : c[i].leque <= n

\* saida, after the sources that have a job: each once, after its dependencies.
NaSaida(s, f) == \E i \in DOMAIN s : s[i] = f
Atras(s, i, f) == \E j \in 1..(i - 1) : s[j] = f
NaVez(s, i, feitas, escolhidas, dep) ==
    /\ s[i] \in escolhidas /\ s[i] \notin feitas /\ ~Atras(s, i, s[i])
    /\ \A f \in dep[s[i]] : f \in escolhidas => f \in feitas \/ Atras(s, i, f)
SaidaEmOrdem(s, feitas, escolhidas, dep) ==
    \A i \in DOMAIN s : NaVez(s, i, feitas, escolhidas, dep)

\* The chosen sources have a job, wait in saida or are pending; a round that has
\* advanced nothing found each source it looked at held back by a pending one.
Reparte(s, pendentes, feitas, escolhidas) ==
    /\ feitas \subseteq escolhidas /\ pendentes \subseteq escolhidas
    /\ \A f \in pendentes : f \notin feitas /\ ~NaSaida(s, f)
    /\ \A f \in escolhidas : f \in feitas \/ f \in pendentes \/ NaSaida(s, f)
Presas(vistas, pendentes, dep) == \A f \in vistas : dep[f] \cap pendentes # {}
PedidoEmOrdem(l, feitas, dep) ==
    /\ SaidaEmOrdem(l.saida, feitas, l.disparar, dep)
    /\ Reparte(l.saida, l.pendentes, feitas, l.disparar)
    /\ l.fase = "ordenando" =>
         /\ feitas = {} /\ l.volta \subseteq l.pendentes
         /\ l.avancou \/ Presas(l.pendentes \ l.volta, l.pendentes, dep)
    /\ l.fase = "criando" /\ SemCiclo(dep) => l.pendentes = {}

\* The jobs are in order, and so will be those the request has still to create.
IInvLeque ==
    /\ TypeOKLeque
    /\ JobsEmOrdem(criados, dependencias) /\ DePedidos(criados, leques)
    /\ leque.fase # "livre" =>
         leques > 0 /\ PedidoEmOrdem(leque, Criadas(criados, leques), dependencias)

LEMMA PrimeiraEhDela ==
    ASSUME NEW S, S \subseteq FontesLeque, S # {}
    PROVE  PrimeiraDe(S) \in S
  <1>1. PICK I : I = {i \in DOMAIN Registro : Registro[i] \in S}
    OBVIOUS
  <1>2. DOMAIN Registro = 1..Len(Registro) /\ Len(Registro) \in Nat
    BY LequeAssumption, LenProperties
  <1>3. FontesLeque = {Registro[i] : i \in DOMAIN Registro}
    BY DEF FontesLeque, ToSet
  <1>4. I # {}
    BY <1>1, <1>3
  <1>5. I \subseteq Nat
    BY <1>1, <1>2
  <1>6. PICK i \in I : \A k \in I : i <= k
    BY <1>4, <1>5, MenorDeles
  <1>7. /\ i \in DOMAIN Registro /\ Registro[i] \in S
        /\ \A j \in 1..(i - 1) : Registro[j] \notin S
    BY <1>1, <1>2, <1>6
  <1>8. QED
    BY <1>7 DEF PrimeiraDe

Extensao(d, c, x) ==
    /\ DOMAIN c \subseteq DOMAIN d /\ \A i \in DOMAIN c : d[i] = c[i]
    /\ \E n \in Nat : DOMAIN c = 1..n /\ DOMAIN d = 1..(n + 1) /\ d[n + 1] = x

LEMMA Estende ==
    ASSUME NEW R, NEW c \in Seq(R), NEW x \in R, NEW d, d = Append(c, x)
    PROVE  Extensao(d, c, x) /\ d \in Seq(R)
  <1>1. /\ d \in Seq(R) /\ Len(d) = Len(c) + 1 /\ \A i \in 1..Len(c) : d[i] = c[i]
        /\ d[Len(c) + 1] = x
    BY AppendProperties
  <1>2. PICK n \in Nat : n = Len(c)
    BY LenProperties
  <1>3. DOMAIN d = 1..(n + 1) /\ DOMAIN c = 1..n
    BY <1>1, <1>2, LenProperties
  <1>4. \A i \in 1..n : d[i] = c[i]
    BY <1>1, <1>2
  <1>5. d[n + 1] = x /\ 1..n \subseteq 1..(n + 1)
    BY <1>1, <1>2
  <1>6. QED
    BY <1>1, <1>3, <1>4, <1>5 DEF Extensao

LEMMA CriouUm ==
    ASSUME NEW c, NEW x, NEW d, NEW dep, NEW n \in Nat, Extensao(d, c, x),
           x.leque = n, DePedidos(c, n), JobsEmOrdem(c, dep),
           JobEmOrdem(x, Criadas(c, n), dep)
    PROVE  /\ JobsEmOrdem(d, dep) /\ DePedidos(d, n)
           /\ Criadas(d, n) = Criadas(c, n) \cup {x.fonte}
  <1>1. PICK k \in Nat : DOMAIN c = 1..k /\ DOMAIN d = 1..(k + 1) /\ d[k + 1] = x
    BY DEF Extensao
  <1>2. \A i \in 1..k : d[i] = c[i]
    BY <1>1 DEF Extensao
  <1>3. DePedidos(d, n)
    BY <1>1, <1>2 DEF DePedidos
  <1>4. \A i \in 1..k : Antes(d, i) = Antes(c, i)
    BY <1>2 DEF Antes
  <1>5. Antes(d, k + 1) = Criadas(c, n)
    <2>1. (k + 1) - 1 = k
      OBVIOUS
    <2>2. {j \in 1..((k + 1) - 1) : d[j].leque = d[k + 1].leque}
            = {j \in DOMAIN c : c[j].leque = n}
      BY <1>1, <1>2, <2>1
    <2>3. QED
      BY <1>1, <1>2, <2>2 DEF Antes, Criadas
  <1>6. JobsEmOrdem(d, dep)
    <2>1. SUFFICES ASSUME NEW i \in 1..(k + 1) PROVE JobEmOrdem(d[i], Antes(d, i), dep)
      BY <1>1 DEF JobsEmOrdem
    <2>2. CASE i \in 1..k
      BY <1>1, <1>2, <1>4, <2>2 DEF JobsEmOrdem
    <2>3. CASE i = k + 1
      BY <1>1, <1>5, <2>3
    <2>4. QED
      BY <2>2, <2>3
  <1>7. Criadas(d, n) = Criadas(c, n) \cup {x.fonte}
    BY <1>1, <1>2 DEF Criadas
  <1>8. QED
    BY <1>3, <1>6, <1>7

\* A request is a record of its type; its parts.
LEMMA LequeTipos ==
    ASSUME NEW l \in LequeLocal
    PROVE  /\ l.fase \in {"livre", "ordenando", "criando"} /\ l.disparar \subseteq FontesLeque
           /\ l.pendentes \subseteq FontesLeque /\ l.saida \in Seq(FontesLeque)
           /\ l.volta \subseteq FontesLeque /\ l.avancou \in BOOLEAN
  BY DEF LequeLocal

LEMMA LivreEhLocal == LequeLivre \in LequeLocal /\ LequeLivre.fase = "livre"
  BY EmptySeq DEF LequeLocal, LequeLivre

LEMMA PedirLequeMantem ==
    ASSUME IInvLeque, PedirLeque
    PROVE  IInvLeque'
  <1>1. PICK D : D = FontesDoLeque
    OBVIOUS
  <1>2. D \subseteq FontesLeque
    BY <1>1 DEF FontesDoLeque, IInvLeque, TypeOKLeque
  <1>3. leque' = [fase |-> "ordenando", disparar |-> D, pendentes |-> D, saida |-> <<>>,
                  volta |-> D, avancou |-> FALSE]
    BY <1>1 DEF PedirLeque, LequeLivre
  <1>4. leque' \in LequeLocal
    BY <1>2, <1>3, EmptySeq DEF LequeLocal
  <1>5. /\ leques' = leques + 1 /\ leques \in Nat /\ leques' \in 0..MaxLeques
        /\ UNCHANGED <<dependencias, ligadas, criados, alternancias>>
    BY LequeAssumption DEF PedirLeque, IInvLeque, TypeOKLeque
  <1>6. TypeOKLeque'
    BY <1>4, <1>5 DEF IInvLeque, TypeOKLeque
  <1>7. \A i \in DOMAIN criados : criados[i].leque \in Nat
    <2>1. PICK R : criados \in Seq(R) /\ \A x \in R : x.leque \in Nat
      <3>1. PICK R : R = [leque: 1..MaxLeques, fonte: FontesLeque, entregue: BOOLEAN,
                          disparar: SUBSET FontesLeque]
        OBVIOUS
      <3>2. criados \in Seq(R)
        BY <3>1 DEF IInvLeque, TypeOKLeque
      <3>3. \A x \in R : x.leque \in Nat
        BY <3>1
      <3>4. QED
        BY <3>2, <3>3
    <2>2. \A i \in DOMAIN criados : criados[i] \in R
      BY <2>1, ElementOfSeq, LenProperties
    <2>3. QED
      BY <2>1, <2>2
  <1>8. DePedidos(criados, leques) /\ JobsEmOrdem(criados, dependencias)
    BY DEF IInvLeque
  <1>9. DePedidos(criados, leques + 1) /\ Criadas(criados, leques + 1) = {}
    BY <1>5, <1>7, <1>8 DEF DePedidos, Criadas
  <1>10. PedidoEmOrdem(leque', {}, dependencias)
    <2>1. DOMAIN <<>> = {}
      OBVIOUS
    <2>2. QED
      BY <1>3, <2>1 DEF PedidoEmOrdem, SaidaEmOrdem, Reparte, NaSaida, Presas
  <1>11. leques' > 0
    BY <1>5
  <1>12. QED
    BY <1>5, <1>6, <1>8, <1>9, <1>10, <1>11 DEF IInvLeque

\* A source with its dependencies done, or none of them pending, goes to saida.
Solta(f, s, P, dep) == (\A g \in dep[f] : NaSaida(s, g)) \/ dep[f] \cap P = {}

LEMMA SaiUma ==
    ASSUME NEW s \in Seq(FontesLeque), NEW P, NEW D, NEW dep, NEW f \in P, NEW t,
           P \in SUBSET FontesLeque, SaidaEmOrdem(s, {}, D, dep), Reparte(s, P, {}, D),
           Solta(f, s, P, dep), t = Append(s, f)
    PROVE  /\ t \in Seq(FontesLeque) /\ SaidaEmOrdem(t, {}, D, dep)
           /\ Reparte(t, P \ {f}, {}, D)
  <1>1. Extensao(t, s, f) /\ t \in Seq(FontesLeque)
    BY Estende
  <1>2. PICK k \in Nat : DOMAIN s = 1..k /\ DOMAIN t = 1..(k + 1) /\ t[k + 1] = f
    BY <1>1 DEF Extensao
  <1>3. \A i \in 1..k : t[i] = s[i]
    BY <1>1, <1>2 DEF Extensao
  <1>4. \A g : NaSaida(t, g) <=> NaSaida(s, g) \/ g = f
    BY <1>2, <1>3 DEF NaSaida
  <1>5. Reparte(t, P \ {f}, {}, D)
    BY <1>4 DEF Reparte
  <1>6. \A g \in dep[f] \cap D : NaSaida(s, g)
    BY DEF Reparte, Solta
  <1>7. f \in D /\ ~NaSaida(s, f)
    BY DEF Reparte
  <1>8. SaidaEmOrdem(t, {}, D, dep)
    <2>1. SUFFICES ASSUME NEW i \in 1..(k + 1) PROVE NaVez(t, i, {}, D, dep)
      BY <1>2 DEF SaidaEmOrdem
    <2>2. CASE i \in 1..k
      <3>1. NaVez(s, i, {}, D, dep)
        BY <1>2, <2>2 DEF SaidaEmOrdem
      <3>2. t[i] = s[i] /\ \A j \in 1..(i - 1) : t[j] = s[j]
        BY <1>2, <1>3, <2>2
      <3>3. \A g : Atras(t, i, g) <=> Atras(s, i, g)
        BY <3>2 DEF Atras
      <3>4. QED
        BY <3>1, <3>2, <3>3 DEF NaVez
    <2>3. CASE i = k + 1
      <3>1. (k + 1) - 1 = k
        OBVIOUS
      <3>2. t[i] = f /\ i - 1 = k
        BY <1>2, <2>3, <3>1
      <3>3. \A g : NaSaida(s, g) <=> Atras(t, i, g)
        BY <1>2, <1>3, <3>2 DEF NaSaida, Atras
      <3>4. QED
        BY <1>6, <1>7, <3>2, <3>3 DEF NaVez
    <2>4. QED
      BY <2>2, <2>3
  <1>9. QED
    BY <1>1, <1>5, <1>8

LEMMA ExaminarMantem ==
    ASSUME IInvLeque, Examinar
    PROVE  IInvLeque'
  <1>1. PICK f : f = PrimeiraDe(leque.volta)
    OBVIOUS
  <1>2. leque \in LequeLocal /\ leque.fase = "ordenando" /\ leque.volta # {}
    BY DEF IInvLeque, TypeOKLeque, Examinar
  <1>3. f \in leque.volta
    BY <1>1, <1>2, LequeTipos, PrimeiraEhDela
  <1>4. /\ leques > 0 /\ Criadas(criados, leques) = {} /\ leque.volta \subseteq leque.pendentes
        /\ leque.avancou \/ Presas(leque.pendentes \ leque.volta, leque.pendentes, dependencias)
        /\ SaidaEmOrdem(leque.saida, {}, leque.disparar, dependencias)
        /\ Reparte(leque.saida, leque.pendentes, {}, leque.disparar)
    BY <1>2 DEF IInvLeque, PedidoEmOrdem
  <1>5. UNCHANGED <<dependencias, ligadas, criados, leques, alternancias>>
    BY DEF Examinar
  <1>6. SUFFICES leque' \in LequeLocal /\ PedidoEmOrdem(leque', {}, dependencias)
    BY <1>4, <1>5 DEF IInvLeque, TypeOKLeque
  <1>7. CASE Disponivel(f, leque)
    <2>1. PICK t : t = Append(leque.saida, f)
      OBVIOUS
    <2>2. leque' = [leque EXCEPT !.volta = leque.volta \ {f}, !.saida = t,
                                 !.pendentes = leque.pendentes \ {f}, !.avancou = TRUE]
      BY <1>1, <1>7, <2>1 DEF Examinar
    <2>3. Solta(f, leque.saida, leque.pendentes, dependencias)
      BY <1>7 DEF Disponivel, ToSet, NaSaida, Solta
    <2>4. f \in leque.pendentes
      BY <1>3, <1>4
    <2>5. leque.pendentes \in SUBSET FontesLeque /\ leque.saida \in Seq(FontesLeque)
      BY <1>2, LequeTipos
    <2>6. /\ t \in Seq(FontesLeque) /\ SaidaEmOrdem(t, {}, leque.disparar, dependencias)
          /\ Reparte(t, leque.pendentes \ {f}, {}, leque.disparar)
      <3>1. PICK s, P, D, dep :
              s \in Seq(FontesLeque) /\ P \in SUBSET FontesLeque
              /\ s = leque.saida /\ P = leque.pendentes /\ D = leque.disparar /\ dep = dependencias
        BY <2>5
      <3>2. f \in P /\ t = Append(s, f) /\ Solta(f, s, P, dep)
        BY <2>1, <2>3, <2>4, <3>1
      <3>3. SaidaEmOrdem(s, {}, D, dep) /\ Reparte(s, P, {}, D)
        BY <1>4, <3>1
      <3>4. t \in Seq(FontesLeque) /\ SaidaEmOrdem(t, {}, D, dep) /\ Reparte(t, P \ {f}, {}, D)
        BY <3>1, <3>2, <3>3, SaiUma
      <3>5. QED
        BY <3>1, <3>4
    <2>7. leque' \in LequeLocal
      BY <1>2, <2>2, <2>6 DEF LequeLocal
    <2>8. /\ leque'.fase = "ordenando" /\ leque'.saida = t /\ leque'.avancou
          /\ leque'.pendentes = leque.pendentes \ {f} /\ leque'.volta = leque.volta \ {f}
          /\ leque'.disparar = leque.disparar
      BY <1>2, <2>2 DEF LequeLocal
    <2>9. QED
      BY <1>4, <2>6, <2>7, <2>8 DEF PedidoEmOrdem
  <1>8. CASE ~Disponivel(f, leque)
    <2>1. leque' = [leque EXCEPT !.volta = leque.volta \ {f}]
      BY <1>1, <1>8 DEF Examinar
    <2>2. leque' \in LequeLocal
      BY <1>2, <2>1 DEF LequeLocal
    <2>3. /\ leque'.fase = "ordenando" /\ leque'.saida = leque.saida
          /\ leque'.avancou = leque.avancou /\ leque'.disparar = leque.disparar
          /\ leque'.pendentes = leque.pendentes /\ leque'.volta = leque.volta \ {f}
      BY <1>2, <2>1 DEF LequeLocal
    <2>4. dependencias[f] \cap leque.pendentes # {}
      BY <1>8 DEF Disponivel
    <2>5. leque'.avancou \/ Presas(leque'.pendentes \ leque'.volta, leque'.pendentes, dependencias)
      BY <1>4, <2>3, <2>4 DEF Presas
    <2>6. QED
      BY <1>4, <2>2, <2>3, <2>5 DEF PedidoEmOrdem
  <1>9. QED
    BY <1>7, <1>8

LEMMA FecharVoltaMantem ==
    ASSUME IInvLeque, FecharVolta
    PROVE  IInvLeque'
  <1>1. leque \in LequeLocal /\ leque.fase = "ordenando" /\ leque.volta = {}
    BY DEF IInvLeque, TypeOKLeque, FecharVolta
  <1>2. /\ leques > 0 /\ Criadas(criados, leques) = {}
        /\ leque.avancou \/ Presas(leque.pendentes \ leque.volta, leque.pendentes, dependencias)
        /\ SaidaEmOrdem(leque.saida, {}, leque.disparar, dependencias)
        /\ Reparte(leque.saida, leque.pendentes, {}, leque.disparar)
    BY <1>1 DEF IInvLeque, PedidoEmOrdem
  <1>3. UNCHANGED <<dependencias, ligadas, criados, leques, alternancias>>
    BY DEF FecharVolta
  <1>4. SUFFICES leque' \in LequeLocal /\ PedidoEmOrdem(leque', {}, dependencias)
    BY <1>2, <1>3 DEF IInvLeque, TypeOKLeque
  <1>5. CASE leque.pendentes # {} /\ leque.avancou
    <2>1. leque' = [leque EXCEPT !.volta = leque.pendentes, !.avancou = FALSE]
      BY <1>5 DEF FecharVolta
    <2>2. leque' \in LequeLocal
      BY <1>1, <2>1 DEF LequeLocal
    <2>3. /\ leque'.fase = "ordenando" /\ leque'.saida = leque.saida
          /\ leque'.disparar = leque.disparar
          /\ leque'.pendentes = leque.pendentes /\ leque'.volta = leque.pendentes
      BY <1>1, <2>1 DEF LequeLocal
    <2>4. QED
      BY <1>2, <2>2, <2>3 DEF PedidoEmOrdem, Presas
  <1>6. CASE ~(leque.pendentes # {} /\ leque.avancou)
    <2>1. leque' = [leque EXCEPT !.fase = "criando"]
      BY <1>6 DEF FecharVolta
    <2>2. leque' \in LequeLocal
      BY <1>1, <2>1 DEF LequeLocal
    <2>3. /\ leque'.fase = "criando" /\ leque'.saida = leque.saida
          /\ leque'.disparar = leque.disparar /\ leque'.pendentes = leque.pendentes
      BY <1>1, <2>1 DEF LequeLocal
    <2>4. ASSUME SemCiclo(dependencias), leque.pendentes # {}
          PROVE  FALSE
      <3>1. Presas(leque.pendentes, leque.pendentes, dependencias)
        BY <1>1, <1>2, <1>6, <2>4
      <3>2. leque.pendentes \in SUBSET FontesLeque
        BY <1>1, LequeTipos
      <3>3. leque.pendentes \in (SUBSET FontesLeque) \ {{}}
        BY <2>4, <3>2
      <3>4. QED
        BY <2>4, <3>1, <3>3 DEF SemCiclo, Presas
    <2>5. QED
      BY <1>2, <2>2, <2>3, <2>4 DEF PedidoEmOrdem
  <1>7. QED
    BY <1>5, <1>6

\* The next source of saida has its job.
Prontas(f, feitas, escolhidas, dep) == \A g \in dep[f] : g \in escolhidas => g \in feitas

LEMMA SaiDaFrente ==
    ASSUME NEW s \in Seq(FontesLeque), s # <<>>, NEW P, NEW D, NEW F, NEW dep,
           SaidaEmOrdem(s, F, D, dep), Reparte(s, P, F, D), NEW t, t = Tail(s),
           NEW f, f = Head(s)
    PROVE  /\ t \in Seq(FontesLeque) /\ SaidaEmOrdem(t, F \cup {f}, D, dep)
           /\ Reparte(t, P, F \cup {f}, D)
           /\ f \notin F /\ f \in D /\ f \in FontesLeque
           /\ Prontas(f, F, D, dep)
  <1>1. /\ t \in Seq(FontesLeque) /\ Len(t) = Len(s) - 1 /\ f \in FontesLeque
        /\ \A i \in 1..Len(t) : t[i] = s[i + 1]
    BY HeadTailProperties
  <1>2. PICK k \in Nat : k = Len(t)
    BY <1>1, LenProperties
  <1>3. Len(s) \in Nat /\ DOMAIN s = 1..(k + 1) /\ DOMAIN t = 1..k
    BY <1>1, <1>2, LenProperties
  <1>4. f = s[1] /\ 1 \in DOMAIN s
    BY <1>3
  <1>5. f \in D /\ f \notin F /\ Prontas(f, F, D, dep)
    <2>1. \A g : ~Atras(s, 1, g)
      BY DEF Atras
    <2>2. NaVez(s, 1, F, D, dep)
      BY <1>4 DEF SaidaEmOrdem
    <2>3. QED
      BY <1>4, <2>1, <2>2 DEF NaVez, Prontas
  <1>6. \A g : NaSaida(s, g) <=> g = f \/ NaSaida(t, g)
    <2>1. ASSUME NEW g, NaSaida(s, g) PROVE g = f \/ NaSaida(t, g)
      <3>1. PICK i \in 1..(k + 1) : s[i] = g
        BY <1>3, <2>1 DEF NaSaida
      <3>2. CASE i = 1
        BY <1>4, <3>1, <3>2
      <3>3. CASE i # 1
        <4>1. i - 1 \in 1..k /\ (i - 1) + 1 = i
          BY <3>1, <3>3
        <4>2. t[i - 1] = g
          BY <1>1, <1>2, <3>1, <4>1
        <4>3. QED
          BY <1>3, <4>1, <4>2 DEF NaSaida
      <3>4. QED
        BY <3>2, <3>3
    <2>2. ASSUME NEW g, NaSaida(t, g) PROVE NaSaida(s, g)
      <3>1. PICK i \in 1..k : t[i] = g
        BY <1>3, <2>2 DEF NaSaida
      <3>2. i + 1 \in 1..(k + 1) /\ s[i + 1] = g
        BY <1>1, <1>2, <3>1
      <3>3. QED
        BY <1>3, <3>2 DEF NaSaida
    <2>3. NaSaida(s, f)
      BY <1>4 DEF NaSaida
    <2>4. QED
      BY <2>1, <2>2, <2>3
  <1>7. Reparte(t, P, F \cup {f}, D)
    BY <1>5, <1>6 DEF Reparte
  <1>8. SaidaEmOrdem(t, F \cup {f}, D, dep)
    <2>1. SUFFICES ASSUME NEW i \in 1..k PROVE NaVez(t, i, F \cup {f}, D, dep)
      BY <1>3 DEF SaidaEmOrdem
    <2>2. PICK h : h = i + 1
      OBVIOUS
    <2>3. /\ h \in DOMAIN s /\ t[i] = s[h] /\ h - 1 = i
          /\ \A j \in 1..(i - 1) : t[j] = s[j + 1] /\ j + 1 \in 1..i
      BY <1>1, <1>2, <1>3, <2>2
    <2>4. NaVez(s, h, F, D, dep)
      BY <2>3 DEF SaidaEmOrdem
    <2>5. \A g : Atras(s, h, g) <=> g = f \/ Atras(t, i, g)
      <3>1. ASSUME NEW g, NEW j \in 1..i, s[j] = g, j # 1
            PROVE  Atras(t, i, g)
        <4>1. j - 1 \in 1..(i - 1) /\ (j - 1) + 1 = j
          BY <3>1
        <4>2. t[j - 1] = g
          BY <2>3, <3>1, <4>1
        <4>3. QED
          BY <4>1, <4>2 DEF Atras
      <3>2. ASSUME NEW g, Atras(t, i, g)
            PROVE  Atras(s, h, g)
        BY <2>3, <3>2 DEF Atras
      <3>3. 1 \in 1..i
        OBVIOUS
      <3>4. Atras(s, h, f)
        BY <1>4, <2>3, <3>3 DEF Atras
      <3>5. \A g : Atras(s, h, g) => g = f \/ Atras(t, i, g)
        BY <1>4, <2>3, <3>1 DEF Atras
      <3>6. QED
        BY <3>2, <3>4, <3>5
    <2>6. QED
      BY <2>3, <2>4, <2>5 DEF NaVez
  <1>9. QED
    BY <1>1, <1>5, <1>7, <1>8

\* What Criou does, once its source is in order and the rest of the request too.
LEMMA CriouMantem ==
    ASSUME IInvLeque, NEW f \in FontesLeque, NEW ok \in BOOLEAN, NEW resto \in LequeLocal,
           leque.fase # "livre", Criou(f, ok, resto),
           UNCHANGED <<dependencias, ligadas, leques, alternancias>>,
           f \in leque.disparar, f \notin Criadas(criados, leques),
           SemCiclo(dependencias) =>
                dependencias[f] \cap leque.disparar \subseteq Criadas(criados, leques),
           leques > 0,
           PedidoEmOrdem(resto, Criadas(criados, leques) \cup {f}, dependencias)
    PROVE  IInvLeque'
  <1>1. PICK x : x = [leque |-> leques, fonte |-> f, entregue |-> ok,
                      disparar |-> leque.disparar]
    OBVIOUS
  <1>2. criados' = Append(criados, x)
    BY <1>1 DEF Criou
  <1>3. PICK R : R = [leque: 1..MaxLeques, fonte: FontesLeque, entregue: BOOLEAN,
                      disparar: SUBSET FontesLeque]
    OBVIOUS
  <1>4. criados \in Seq(R) /\ leque \in LequeLocal /\ leques \in 0..MaxLeques
    BY <1>3 DEF IInvLeque, TypeOKLeque
  <1>5. MaxLeques \in Nat
    BY LequeAssumption
  <1>6. leques \in Nat /\ leques \in 1..MaxLeques
    BY <1>4, <1>5
  <1>7. x \in R
    BY <1>1, <1>3, <1>4, <1>6, LequeTipos
  <1>8. PICK d : d = criados'
    OBVIOUS
  <1>9. Extensao(d, criados, x) /\ d \in Seq(R)
    BY <1>2, <1>4, <1>7, <1>8, Estende
  <1>10. DePedidos(criados, leques) /\ JobsEmOrdem(criados, dependencias)
    BY DEF IInvLeque
  <1>11. JobEmOrdem(x, Criadas(criados, leques), dependencias) /\ x.leque = leques /\ x.fonte = f
    BY <1>1 DEF JobEmOrdem
  <1>12. /\ JobsEmOrdem(d, dependencias) /\ DePedidos(d, leques)
         /\ Criadas(d, leques) = Criadas(criados, leques) \cup {f}
    BY <1>6, <1>9, <1>10, <1>11, CriouUm
  <1>13. leque' = resto \/ leque' = LequeLivre
    BY DEF Criou
  <1>14. leque' \in LequeLocal
    BY <1>13, LivreEhLocal
  <1>15. TypeOKLeque'
    BY <1>3, <1>8, <1>9, <1>14 DEF IInvLeque, TypeOKLeque
  <1>16. leque'.fase # "livre" =>
            PedidoEmOrdem(leque', Criadas(d, leques), dependencias)
    BY <1>12, <1>13, LivreEhLocal
  <1>17. QED
    BY <1>8, <1>12, <1>15, <1>16 DEF IInvLeque

LEMMA CriarJobMantem ==
    ASSUME IInvLeque, NEW ok \in BOOLEAN, CriarJob(ok)
    PROVE  IInvLeque'
  <1>1. PICK F : F = Criadas(criados, leques)
    OBVIOUS
  <1>2. /\ leque \in LequeLocal /\ leque.fase = "criando"
        /\ UNCHANGED <<dependencias, ligadas, leques, alternancias>>
    BY DEF CriarJob, IInvLeque, TypeOKLeque
  <1>3. /\ leques > 0 /\ SaidaEmOrdem(leque.saida, F, leque.disparar, dependencias)
        /\ Reparte(leque.saida, leque.pendentes, F, leque.disparar)
        /\ SemCiclo(dependencias) => leque.pendentes = {}
    BY <1>1, <1>2 DEF IInvLeque, PedidoEmOrdem
  <1>4. CASE /\ leque.saida # <<>>
             /\ Criou(Head(leque.saida), ok, [leque EXCEPT !.saida = Tail(leque.saida)])
    <2>1. PICK f, t, resto : /\ f = Head(leque.saida) /\ t = Tail(leque.saida)
                             /\ resto = [leque EXCEPT !.saida = t]
      OBVIOUS
    <2>2. leque.saida \in Seq(FontesLeque) /\ leque.saida # <<>>
      BY <1>2, <1>4, LequeTipos
    <2>3. /\ t \in Seq(FontesLeque) /\ SaidaEmOrdem(t, F \cup {f}, leque.disparar, dependencias)
          /\ Reparte(t, leque.pendentes, F \cup {f}, leque.disparar)
          /\ f \notin F /\ f \in leque.disparar /\ f \in FontesLeque
          /\ Prontas(f, F, leque.disparar, dependencias)
      <3>1. f = Head(leque.saida) /\ t = Tail(leque.saida)
        BY <2>1
      <3>2. PICK s, P, D, dep :
              s \in Seq(FontesLeque) /\ s = leque.saida /\ P = leque.pendentes
              /\ D = leque.disparar /\ dep = dependencias
        BY <2>2
      <3>3. /\ s # <<>> /\ t = Tail(s) /\ f = Head(s)
            /\ SaidaEmOrdem(s, F, D, dep) /\ Reparte(s, P, F, D)
        BY <1>3, <2>2, <3>1, <3>2
      <3>4. s \in Seq(FontesLeque)
        BY <3>2
      <3>5. /\ t \in Seq(FontesLeque) /\ SaidaEmOrdem(t, F \cup {f}, D, dep)
            /\ Reparte(t, P, F \cup {f}, D) /\ f \notin F /\ f \in D /\ f \in FontesLeque
            /\ Prontas(f, F, D, dep)
        BY <3>3, <3>4, SaiDaFrente, ZenonT(30)
      <3>6. QED
        BY <3>2, <3>5
    <2>4. /\ resto \in LequeLocal /\ resto.fase = "criando" /\ resto.saida = t
          /\ resto.pendentes = leque.pendentes /\ resto.disparar = leque.disparar
      BY <1>2, <2>1, <2>3 DEF LequeLocal
    <2>5. PedidoEmOrdem(resto, F \cup {f}, dependencias)
      BY <1>3, <2>3, <2>4 DEF PedidoEmOrdem
    <2>6. Criou(f, ok, resto)
      BY <1>4, <2>1
    <2>7. QED
      BY <1>1, <1>2, <1>3, <2>3, <2>4, <2>5, <2>6, CriouMantem DEF Prontas
  <1>5. CASE /\ leque.saida = <<>> /\ leque.pendentes # {}
             /\ Criou(PrimeiraDe(leque.pendentes), ok,
                      [leque EXCEPT !.pendentes = leque.pendentes \ {PrimeiraDe(leque.pendentes)}])
    <2>1. PICK f, resto : /\ f = PrimeiraDe(leque.pendentes)
                          /\ resto = [leque EXCEPT !.pendentes = leque.pendentes \ {f}]
      OBVIOUS
    <2>2. f \in leque.pendentes /\ f \in FontesLeque
      BY <1>2, <1>5, <2>1, LequeTipos, PrimeiraEhDela
    <2>3. f \notin F /\ f \in leque.disparar /\ ~SemCiclo(dependencias)
      BY <1>3, <2>2 DEF Reparte
    <2>4. /\ resto \in LequeLocal /\ resto.fase = "criando" /\ resto.saida = <<>>
          /\ resto.pendentes = leque.pendentes \ {f} /\ resto.disparar = leque.disparar
      BY <1>2, <1>5, <2>1 DEF LequeLocal
    <2>5. DOMAIN <<>> = {}
      OBVIOUS
    <2>6. Reparte(resto.saida, resto.pendentes, F \cup {f}, resto.disparar)
      BY <1>3, <1>5, <2>2, <2>3, <2>4, <2>5 DEF Reparte, NaSaida
    <2>7. SaidaEmOrdem(resto.saida, F \cup {f}, resto.disparar, dependencias)
      BY <2>4, <2>5 DEF SaidaEmOrdem
    <2>8. PedidoEmOrdem(resto, F \cup {f}, dependencias)
      BY <2>3, <2>4, <2>6, <2>7 DEF PedidoEmOrdem
    <2>9. Criou(f, ok, resto)
      BY <1>5, <2>1
    <2>10. QED
      BY <1>1, <1>2, <1>3, <2>2, <2>3, <2>4, <2>8, <2>9, CriouMantem
  <1>6. QED
    BY <1>4, <1>5 DEF CriarJob

LEMMA LequeInit == InitLeque => IInvLeque
  <1> SUFFICES ASSUME InitLeque PROVE IInvLeque
    OBVIOUS
  <1>1. DOMAIN <<>> = {}
    OBVIOUS
  <1>2. TypeOKLeque
    BY LivreEhLocal, LequeAssumption, EmptySeq DEF InitLeque, TypeOKLeque
  <1>3. QED
    BY <1>1, <1>2, LivreEhLocal DEF InitLeque, IInvLeque, JobsEmOrdem, DePedidos

LEMMA LequePasso == IInvLeque /\ [NextLeque]_lequeVars => IInvLeque'
  <1> SUFFICES ASSUME IInvLeque, [NextLeque]_lequeVars PROVE IInvLeque'
    OBVIOUS
  <1>1. CASE UNCHANGED lequeVars
    BY <1>1 DEF lequeVars, IInvLeque, TypeOKLeque
  <1>2. ASSUME NEW f \in FontesLeque, Alternar(f)
        PROVE  IInvLeque'
    <2>1. ligadas' \in SUBSET FontesLeque /\ alternancias' \in 0..MaxAlternancias
      BY <1>2, LequeAssumption DEF Alternar, IInvLeque, TypeOKLeque
    <2>2. QED
      BY <1>2, <2>1 DEF Alternar, IInvLeque, TypeOKLeque
  <1>3. CASE PedirLeque
    BY <1>3, PedirLequeMantem
  <1>4. CASE Examinar
    BY <1>4, ExaminarMantem
  <1>5. CASE FecharVolta
    BY <1>5, FecharVoltaMantem
  <1>6. ASSUME NEW ok \in BOOLEAN, CriarJob(ok)
        PROVE  IInvLeque'
    BY <1>6, CriarJobMantem
  <1>7. CASE TerminarLeque
    BY <1>7, LivreEhLocal DEF TerminarLeque, IInvLeque, TypeOKLeque
  <1>8. QED
    BY <1>1, <1>2, <1>3, <1>4, <1>5, <1>6, <1>7 DEF NextLeque

\* In every registry, of whatever size, and wherever an error stops the request.
THEOREM LequeInvariante == SpecLeque => []IInvLeque
  BY LequeInit, LequePasso, PTL DEF SpecLeque

\* Every job comes after those of the sources it depends on, each chosen source
\* at most once, whatever the registry, the request and the error that stops it.
THEOREM LequeEmOrdemSempre == SpecLeque => []LequeEmOrdem
  <1>1. IInvLeque => LequeEmOrdem
    <2>1. SUFFICES ASSUME IInvLeque, NEW i \in DOMAIN criados
                   PROVE  LET x == criados[i]
                              antes == {criados[j].fonte :
                                          j \in {k \in 1..(i - 1) : criados[k].leque = x.leque}}
                          IN /\ x.fonte \notin antes /\ x.fonte \in x.disparar
                             /\ Aciclico => dependencias[x.fonte] \cap x.disparar \subseteq antes
      BY DEF LequeEmOrdem
    <2>2. JobEmOrdem(criados[i], Antes(criados, i), dependencias)
      BY <2>1 DEF IInvLeque, JobsEmOrdem
    <2>3. Aciclico <=> SemCiclo(dependencias)
      BY DEF Aciclico, SemCiclo
    <2>4. QED
      BY <2>2, <2>3 DEF JobEmOrdem, Antes
  <1>2. QED
    BY <1>1, LequeInvariante, PTL

-----------------------------------------------------------------------------
(* The refresh of a portfolio                                              *)

Ordenada(s) == \A i, j \in DOMAIN s : i < j => s[i] < s[j]

\* A job lists its entities in order.
LotesOrdenados == \A i \in DOMAIN lotes : Ordenada(lotes[i].entes)

\* What a clock in the middle of a cycle holds: jobs that exist, and in an
\* execution the entities left, in order, after those whose rows it wrote; what
\* it wrote and what it read are deliveries with committed indicators.
Coerente(c, A) ==
    /\ c.fase # "parado" => c.pendentes # <<>>
    /\ c.fase # "executando" => c.lida = 0 /\ \A e \in Entes : c.escrito[e] = 0
    /\ Ordenada(c.resta)
    /\ \A e \in Entes : c.escrito[e] # 0 =>
         c.escrito[e] \in A[e] /\ \A i \in DOMAIN c.resta : e < c.resta[i]
    /\ c.lida # 0 => c.resta # <<>> /\ c.lida \in A[c.resta[1]]
ComLotes(c) == \A i \in DOMAIN c.pendentes : Existe(c.pendentes[i])
CicloCoerente(r) == Coerente(ciclo[r], apurado) /\ ComLotes(ciclo[r])

IInvCarteira ==
    /\ TypeOKCarteira
    /\ LotesOrdenados
    /\ \A r \in Relogios : CicloCoerente(r)
    /\ SnapshotApurado

\* The entities of a request are a sequence in order.
LEMMA EscopoOrdenado ==
    ASSUME NEW s \in EscoposOrdenados
    PROVE  s \in Seq(Entes) /\ Ordenada(s)
  <1>1. PICK n \in 1..Cardinality(Entes) : s \in [1..n -> Entes]
    BY DEF EscoposOrdenados, Listas
  <1>2. Cardinality(Entes) \in Nat
    BY CarteiraAssumption, FS_CardinalityType
  <1>3. s \in Seq(Entes)
    BY <1>1, <1>2
  <1>4. QED
    BY <1>3 DEF EscoposOrdenados, Ordenada

\* What is left after the first of a sequence in order.
LEMMA RestoOrdenado ==
    ASSUME NEW s \in Seq(Entes), s # <<>>, Ordenada(s)
    PROVE  /\ Head(s) = s[1] /\ Head(s) \in Entes /\ 1 \in DOMAIN s
           /\ Tail(s) \in Seq(Entes) /\ Ordenada(Tail(s))
           /\ \A i \in DOMAIN Tail(s) : i + 1 \in DOMAIN s /\ Tail(s)[i] = s[i + 1]
           /\ \A i \in DOMAIN Tail(s) : Head(s) < Tail(s)[i]
  <1>1. Head(s) = s[1] /\ Head(s) \in Entes /\ 1 \in DOMAIN s /\ Tail(s) \in Seq(Entes)
    OBVIOUS
  <1>2. \A i \in DOMAIN Tail(s) : i \in Nat \ {0} /\ i + 1 \in DOMAIN s /\ Tail(s)[i] = s[i + 1]
    OBVIOUS
  <1>3. \A i \in DOMAIN Tail(s) : Head(s) < Tail(s)[i]
    BY <1>1, <1>2 DEF Ordenada
  <1>4. Ordenada(Tail(s))
    BY <1>2 DEF Ordenada
  <1>5. QED
    BY <1>1, <1>2, <1>3, <1>4

\* Jobs keep their place: only the status of one of them changes.
LEMMA ComStatusTipo ==
    ASSUME TypeOKCarteira, LotesOrdenados, NEW l, NEW st \in Terminal,
           lotes' = ComStatus(l, st)
    PROVE  /\ lotes' \in Seq(Lote) /\ LotesOrdenados'
           /\ \A k : Existe(k) => Existe(k)'
  <1> DEFINE n == Linha(l)
  <1>1. lotes' = [lotes EXCEPT ![n] = [lotes[n] EXCEPT !.status = st]]
    BY DEF ComStatus
  <1> HIDE DEF n
  <1>2. lotes \in Seq(Lote)
    BY DEF TypeOKCarteira
  <1>3. DOMAIN lotes' = DOMAIN lotes
    BY <1>1, <1>2
  <1>4. \A i \in DOMAIN lotes :
          /\ lotes'[i] \in Lote
          /\ lotes'[i].id = lotes[i].id /\ lotes'[i].entes = lotes[i].entes
    <2> SUFFICES ASSUME NEW i \in DOMAIN lotes
                 PROVE  /\ lotes'[i] \in Lote
                        /\ lotes'[i].id = lotes[i].id /\ lotes'[i].entes = lotes[i].entes
      OBVIOUS
    <2>1. lotes[i] \in Lote
      BY <1>2
    <2>2. lotes'[i] = lotes[i] \/ lotes'[i] = [lotes[i] EXCEPT !.status = st]
      BY <1>1, <1>2
    <2>3. QED
      BY <2>1, <2>2 DEF Lote, Terminal
  <1>5. lotes' \in Seq(Lote)
    <2>1. DOMAIN lotes' = 1..Len(lotes) /\ Len(lotes) \in Nat
      BY <1>2, <1>3
    <2>2. lotes' = [i \in DOMAIN lotes' |-> lotes'[i]]
      BY <1>1, <1>2
    <2>3. lotes' \in [1..Len(lotes) -> Lote]
      BY <1>3, <1>4, <2>1, <2>2
    <2>4. QED
      BY <2>1, <2>3
  <1>6. LotesOrdenados'
    BY <1>3, <1>4 DEF LotesOrdenados
  <1>7. \A k : Existe(k) => Existe(k)'
    BY <1>3, <1>4 DEF Existe
  <1>8. QED
    BY <1>5, <1>6, <1>7

\* The row of a job that exists.
LEMMA LinhaDoLote ==
    ASSUME TypeOKCarteira, LotesOrdenados, NEW l, Existe(l)
    PROVE  lotes[Linha(l)].entes \in Seq(Entes) /\ Ordenada(lotes[Linha(l)].entes)
  <1>1. Linha(l) \in DOMAIN lotes
    BY DEF Existe, Linha
  <1>2. lotes[Linha(l)] \in Lote
    BY <1>1 DEF TypeOKCarteira
  <1>3. QED
    BY <1>1, <1>2 DEF LotesOrdenados, Lote

\* The initial state of the portfolios satisfies the invariant.
LEMMA CarteiraInicial == InitCarteira => IInvCarteira
  <1> SUFFICES ASSUME InitCarteira
               PROVE  IInvCarteira
    OBVIOUS
  <1>1. Parado \in Ciclo
    BY CarteiraAssumption DEF Parado, Ciclo, NadaEscrito, Versoes
  <1>2. CargaParada \in Carga
    BY CarteiraAssumption DEF CargaParada, Carga, Versoes
  <1>3. TypeOKCarteira
    BY <1>1, <1>2, CarteiraAssumption DEF InitCarteira, TypeOKCarteira, Versoes
  <1>4. ASSUME NEW r \in Relogios
        PROVE  CicloCoerente(r)
    BY DEF InitCarteira, CicloCoerente, Coerente, ComLotes, Parado, NadaEscrito, Ordenada
  <1>5. QED
    BY <1>3, <1>4 DEF InitCarteira, IInvCarteira, LotesOrdenados, SnapshotApurado

\* A step that leaves the cycles alone keeps what they hold, as long as jobs
\* and committed indicators stay.
LEMMA CiclosParados ==
    ASSUME IInvCarteira, UNCHANGED ciclo,
           \A k : Existe(k) => Existe(k)',
           \A e \in Entes : apurado[e] \subseteq apurado'[e]
    PROVE  \A r \in Relogios : CicloCoerente(r)'
  <1>1. ASSUME NEW r \in Relogios
        PROVE  CicloCoerente(r)'
    <2>1. CicloCoerente(r) /\ ciclo[r] \in Ciclo
      BY DEF IInvCarteira, TypeOKCarteira
    <2>2. ciclo[r].resta # <<>> => ciclo[r].resta[1] \in Entes
      BY <2>1 DEF Ciclo
    <2>3. QED
      BY <2>1, <2>2 DEF CicloCoerente, Coerente, ComLotes
  <1>2. QED
    BY <1>1

\* Requests, deliveries and the end of a load.
LEMMA CarteiraCarga ==
    ASSUME IInvCarteira,
           \/ \E l \in Lotes, s \in EscoposOrdenados : EnfileirarRefresh(l, s)
           \/ \E e \in Entes : NovaEntrega(e) \/ CargaStep(e)
    PROVE  IInvCarteira'
  <1>t. TypeOKCarteira /\ LotesOrdenados /\ SnapshotApurado
    BY DEF IInvCarteira
  <1>1. ASSUME NEW l \in Lotes, NEW s \in EscoposOrdenados, EnfileirarRefresh(l, s)
        PROVE  IInvCarteira'
    <2> DEFINE x == [id |-> l, entes |-> s, status |-> "enfileirado"]
    <2>1. x \in Lote /\ Ordenada(x.entes)
      BY EscopoOrdenado DEF Lote
    <2>2. lotes' = Append(lotes, x) /\ lotes \in Seq(Lote)
      BY <1>1, <1>t DEF EnfileirarRefresh, TypeOKCarteira
    <2> HIDE DEF x
    <2>3. lotes' \in Seq(Lote)
      BY <2>1, <2>2
    <2>4. \A i \in DOMAIN lotes' : (i \in DOMAIN lotes /\ lotes'[i] = lotes[i]) \/ lotes'[i] = x
      BY <2>2
    <2>5. \A i \in DOMAIN lotes : i \in DOMAIN lotes' /\ lotes'[i] = lotes[i]
      BY <2>2
    <2>6. LotesOrdenados'
      BY <1>t, <2>1, <2>4 DEF LotesOrdenados
    <2>7. \A k : Existe(k) => Existe(k)'
      BY <2>5 DEF Existe
    <2>8. UNCHANGED <<vigente, apurado, carteira, ciclo, carga, falhas>>
      BY <1>1 DEF EnfileirarRefresh
    <2>9. \A r \in Relogios : CicloCoerente(r)'
      BY <2>7, <2>8, CiclosParados
    <2>10. QED
      BY <1>t, <2>3, <2>6, <2>8, <2>9 DEF IInvCarteira, TypeOKCarteira, SnapshotApurado
  <1>2. ASSUME NEW e \in Entes, NovaEntrega(e) \/ GravarSnapshot(e)
        PROVE  IInvCarteira'
    <2>1. ASSUME NovaEntrega(e)
          PROVE  vigente' \in [Entes -> Versoes] /\ carga' \in [Entes -> Carga]
      <3>1. vigente[e] + 1 \in Versoes
        BY <1>t, <2>1, CarteiraAssumption DEF NovaEntrega, TypeOKCarteira, Versoes
      <3>2. [fase |-> "apurando", versao |-> vigente[e] + 1] \in Carga
        BY <3>1 DEF Carga
      <3>3. QED
        BY <1>t, <2>1, <3>1, <3>2 DEF NovaEntrega, TypeOKCarteira
    <2>2. ASSUME GravarSnapshot(e)
          PROVE  vigente' \in [Entes -> Versoes] /\ carga' \in [Entes -> Carga]
      <3>1. [carga[e] EXCEPT !.fase = "gravada"] \in Carga
        BY <1>t DEF TypeOKCarteira, Carga
      <3>2. QED
        BY <1>t, <2>2, <3>1 DEF GravarSnapshot, TypeOKCarteira
    <2>3. UNCHANGED <<lotes, apurado, carteira, ciclo, falhas>>
      BY <1>2 DEF NovaEntrega, GravarSnapshot
    <2>4. \A r \in Relogios : CicloCoerente(r)'
      BY <2>3, CiclosParados DEF Existe
    <2>5. QED
      BY <1>2, <1>t, <2>1, <2>2, <2>3, <2>4
         DEF IInvCarteira, TypeOKCarteira, SnapshotApurado, LotesOrdenados
  <1>3. ASSUME NEW e \in Entes, ConfirmarCarga(e)
        PROVE  IInvCarteira'
    <2>1. carga[e].versao \in Versoes
      BY <1>t DEF TypeOKCarteira, Carga
    <2>2. apurado' \in [Entes -> SUBSET Versoes] /\ carteira' \in [Entes -> Versoes]
      BY <1>3, <1>t, <2>1 DEF ConfirmarCarga, TypeOKCarteira
    <2>3. carga' \in [Entes -> Carga]
      BY <1>3, <1>t, CarteiraAssumption
         DEF ConfirmarCarga, TypeOKCarteira, CargaParada, Carga, Versoes
    <2>4. UNCHANGED <<lotes, vigente, ciclo, falhas>>
      BY <1>3 DEF ConfirmarCarga
    <2>5. \A f \in Entes : apurado[f] \subseteq apurado'[f]
      BY <1>3, <1>t DEF ConfirmarCarga, TypeOKCarteira
    <2>6. SnapshotApurado'
      BY <1>3, <1>t, <2>1 DEF ConfirmarCarga, TypeOKCarteira, SnapshotApurado
    <2>7. \A r \in Relogios : CicloCoerente(r)'
      BY <2>4, <2>5, CiclosParados DEF Existe
    <2>8. QED
      BY <1>t, <2>2, <2>3, <2>4, <2>6, <2>7
         DEF IInvCarteira, TypeOKCarteira, LotesOrdenados
  <1>4. QED
    BY <1>1, <1>2, <1>3 DEF CargaStep

\* A clock moves: the others hold what they held.
LEMMA UmCiclo ==
    ASSUME IInvCarteira, NEW r \in Relogios, NEW c \in Ciclo, Coerente(c, apurado),
           \A i \in DOMAIN c.pendentes : Existe(c.pendentes[i]),
           ciclo' = [ciclo EXCEPT ![r] = c],
           \A k : Existe(k) => Existe(k)', UNCHANGED apurado
    PROVE  ciclo' \in [Relogios -> Ciclo] /\ \A q \in Relogios : CicloCoerente(q)'
  <1>1. ciclo' \in [Relogios -> Ciclo] /\ ciclo'[r] = c
    BY DEF IInvCarteira, TypeOKCarteira
  <1>2. \A q \in Relogios \ {r} : ciclo'[q] = ciclo[q]
    BY DEF IInvCarteira, TypeOKCarteira
  <1>3. ASSUME NEW q \in Relogios
        PROVE  CicloCoerente(q)'
    <2>1. CicloCoerente(q)
      BY DEF IInvCarteira
    <2>2. CASE q = r
      BY <1>1, <2>2 DEF CicloCoerente, ComLotes
    <2>3. CASE q # r
      BY <1>2, <2>1, <2>3 DEF CicloCoerente, ComLotes
    <2>4. QED
      BY <2>2, <2>3
  <1>4. QED
    BY <1>1, <1>3

\* The cycle a clock starts, goes on with or leaves holds nothing yet.
LEMMA CicloNovo ==
    ASSUME NEW f \in {"ciclo", "falhou"}, NEW s \in Seq(Lotes), s # <<>>, NEW A
    PROVE  /\ [Parado EXCEPT !.fase = f, !.pendentes = s] \in Ciclo
           /\ Coerente([Parado EXCEPT !.fase = f, !.pendentes = s], A)
           /\ [Parado EXCEPT !.fase = f, !.pendentes = s].pendentes = s
           /\ Parado \in Ciclo /\ Coerente(Parado, A) /\ Parado.pendentes = <<>>
  <1>1. 0 \in Versoes
    BY CarteiraAssumption DEF Versoes
  <1>2. NadaEscrito \in [Entes -> Versoes] /\ \A e \in Entes : NadaEscrito[e] = 0
    BY <1>1 DEF NadaEscrito
  <1>3. Parado \in Ciclo
    BY <1>1, <1>2 DEF Parado, Ciclo
  <1>4. [Parado EXCEPT !.fase = f, !.pendentes = s] \in Ciclo
    BY <1>3 DEF Ciclo
  <1>5. QED
    BY <1>2, <1>3, <1>4 DEF Coerente, Parado, Ordenada

\* Where a cycle goes after a job: the next one that exists, or nowhere.
LEMMA ProximoCiclo ==
    ASSUME IInvCarteira, NEW r \in Relogios, ciclo[r].fase # "parado", NEW A
    PROVE  /\ Proximo(r) \in Ciclo /\ Coerente(Proximo(r), A)
           /\ \A i \in DOMAIN Proximo(r).pendentes : Existe(Proximo(r).pendentes[i])
  <1> DEFINE s == ciclo[r].pendentes
  <1>1. s \in Seq(Lotes) /\ s # <<>>
    BY DEF IInvCarteira, TypeOKCarteira, CicloCoerente, Coerente, Ciclo
  <1>2. \A i \in DOMAIN s : Existe(s[i])
    BY DEF IInvCarteira, CicloCoerente, ComLotes
  <1>3. Proximo(r) = IF Len(s) = 1 THEN Parado
                     ELSE [Parado EXCEPT !.fase = "ciclo", !.pendentes = Tail(s)]
    BY DEF Proximo
  <1> HIDE DEF s
  <1>4. CASE Len(s) = 1
    <2>1. Parado \in Ciclo /\ Coerente(Parado, A) /\ Parado.pendentes = <<>>
      BY <1>1, CicloNovo
    <2>2. QED
      BY <1>3, <1>4, <2>1
  <1>5. CASE Len(s) # 1
    <2> DEFINE t == Tail(s)
    <2>0. Len(s) \in Nat /\ Len(s) > 1 /\ DOMAIN s = 1..Len(s)
      <3>1. Len(s) \in Nat /\ DOMAIN s = 1..Len(s)
        BY <1>1
      <3>2. Len(s) # 0
        BY <1>1
      <3>3. QED
        BY <1>5, <3>1, <3>2
    <2>1. t \in Seq(Lotes) /\ Len(t) = Len(s) - 1
      BY <1>1, <2>0
    <2>2. t # <<>>
      <3>1. Len(t) # 0
        BY <2>0, <2>1, SMTT(20)
      <3>2. Len(<<>>) = 0
        OBVIOUS
      <3>3. QED
        BY <3>1, <3>2
    <2>3. \A i \in DOMAIN t : i + 1 \in DOMAIN s /\ t[i] = s[i + 1]
      BY <1>1, <2>0
    <2>4. Proximo(r) = [Parado EXCEPT !.fase = "ciclo", !.pendentes = t]
      BY <1>3, <1>5
    <2> HIDE DEF t
    <2>5. /\ [Parado EXCEPT !.fase = "ciclo", !.pendentes = t] \in Ciclo
          /\ Coerente([Parado EXCEPT !.fase = "ciclo", !.pendentes = t], A)
          /\ [Parado EXCEPT !.fase = "ciclo", !.pendentes = t].pendentes = t
      BY <2>1, <2>2, CicloNovo
    <2>6. \A i \in DOMAIN t : Existe(t[i])
      BY <1>2, <2>3
    <2>7. QED
      BY <2>4, <2>5, <2>6
  <1>6. QED
    BY <1>4, <1>5

\* A clock starts a cycle, with the jobs it listed.
LEMMA CarteiraListar ==
    ASSUME IInvCarteira, NEW r \in Relogios, ListarPendentes(r)
    PROVE  IInvCarteira'
  <1>0. PICK s \in UNION {[1..n -> Lotes] : n \in 1..LotePorCiclo} :
          /\ MaisAntigos(s)
          /\ ciclo' = [ciclo EXCEPT ![r] = [Parado EXCEPT !.fase = "ciclo", !.pendentes = s]]
    BY DEF ListarPendentes
  <1>1. /\ MaisAntigos(s)
        /\ ciclo' = [ciclo EXCEPT ![r] = [Parado EXCEPT !.fase = "ciclo", !.pendentes = s]]
    BY <1>0
  <1>2. s \in Seq(Lotes) /\ s # <<>>
    <2>1. PICK n \in 1..LotePorCiclo : s \in [1..n -> Lotes]
      BY <1>0
    <2>2. n \in Nat /\ n > 0
      BY CarteiraAssumption
    <2>3. s \in Seq(Lotes) /\ Len(s) = n
      BY <2>1, <2>2
    <2>4. QED
      BY <2>2, <2>3
  <1>3. \A i \in DOMAIN s : Existe(s[i])
    BY <1>1 DEF MaisAntigos, Enfileirado
  <1>4. UNCHANGED <<lotes, vigente, apurado, carteira, carga, falhas>>
    BY DEF ListarPendentes
  <1> DEFINE c == [Parado EXCEPT !.fase = "ciclo", !.pendentes = s]
  <1>5. c \in Ciclo /\ Coerente(c, apurado) /\ c.pendentes = s
    BY <1>2, CicloNovo
  <1>6. ciclo' = [ciclo EXCEPT ![r] = c]
    BY <1>1
  <1> HIDE DEF c
  <1>7. \A k : Existe(k) => Existe(k)'
    BY <1>4 DEF Existe
  <1>8. ciclo' \in [Relogios -> Ciclo] /\ \A q \in Relogios : CicloCoerente(q)'
    BY <1>3, <1>4, <1>5, <1>6, <1>7, UmCiclo
  <1>9. QED
    BY <1>4, <1>8 DEF IInvCarteira, TypeOKCarteira, LotesOrdenados, SnapshotApurado

\* What a clock in an execution holds.
LEMMA EmExecucao ==
    ASSUME IInvCarteira, NEW r \in Relogios
    PROVE  /\ ciclo[r] \in Ciclo /\ Coerente(ciclo[r], apurado)
           /\ \A i \in DOMAIN ciclo[r].pendentes : Existe(ciclo[r].pendentes[i])
           /\ ciclo[r].pendentes \in Seq(Lotes) /\ ciclo[r].resta \in Seq(Entes)
           /\ ciclo[r].lida \in Versoes /\ ciclo[r].escrito \in [Entes -> Versoes]
           /\ Ordenada(ciclo[r].resta)
  <1>1. ciclo[r] \in Ciclo /\ CicloCoerente(r)
    BY DEF IInvCarteira, TypeOKCarteira
  <1>2. QED
    BY <1>1 DEF CicloCoerente, Coerente, ComLotes, Ciclo

\* A clock starts a job: its entities are the ones of the row.
LEMMA CarteiraComecar ==
    ASSUME IInvCarteira, NEW r \in Relogios, Comecar(r)
    PROVE  IInvCarteira'
  <1> DEFINE s == lotes[Linha(Head(ciclo[r].pendentes))].entes
             d == ciclo[r]
             c == [d EXCEPT !.fase = "executando", !.resta = s]
  <1>1. /\ d \in Ciclo /\ Coerente(d, apurado) /\ d.pendentes \in Seq(Lotes)
        /\ \A i \in DOMAIN d.pendentes : Existe(d.pendentes[i])
    BY EmExecucao
  <1>2. d.fase = "ciclo" /\ UNCHANGED <<lotes, vigente, apurado, carteira, carga, falhas>>
    BY DEF Comecar
  <1>3. Existe(Head(d.pendentes))
    BY <1>1, <1>2 DEF Coerente
  <1>4. s \in Seq(Entes) /\ Ordenada(s)
    BY <1>3, LinhaDoLote DEF IInvCarteira
  <1>5. ciclo' = [ciclo EXCEPT ![r] = c]
    BY DEF Comecar, IInvCarteira, TypeOKCarteira
  <1> HIDE DEF s, d
  <1>6. c \in Ciclo
    BY <1>1, <1>4 DEF Ciclo
  <1>7. /\ c.fase = "executando" /\ c.resta = s /\ c.pendentes = d.pendentes
        /\ c.lida = d.lida /\ c.escrito = d.escrito
    BY <1>1 DEF Ciclo
  <1> HIDE DEF c
  <1>8. Coerente(c, apurado)
    BY <1>1, <1>2, <1>4, <1>7 DEF Coerente
  <1>9. \A i \in DOMAIN c.pendentes : Existe(c.pendentes[i])
    BY <1>1, <1>7
  <1>10. \A k : Existe(k) => Existe(k)'
    BY <1>2 DEF Existe
  <1>11. ciclo' \in [Relogios -> Ciclo] /\ \A q \in Relogios : CicloCoerente(q)'
    BY <1>2, <1>5, <1>6, <1>8, <1>9, <1>10, UmCiclo
  <1>12. QED
    BY <1>2, <1>11 DEF IInvCarteira, TypeOKCarteira, LotesOrdenados, SnapshotApurado

\* A clock reads the delivery in force, or skips an entity with no indicators.
LEMMA CarteiraResolver ==
    ASSUME IInvCarteira, NEW r \in Relogios, ResolverVersao(r)
    PROVE  IInvCarteira'
  <1> DEFINE d == ciclo[r]
             e == Head(d.resta)
             c == IF TemApuracao(e) THEN [d EXCEPT !.lida = vigente[e]]
                                    ELSE [d EXCEPT !.resta = Tail(d.resta)]
  <1>1. /\ d \in Ciclo /\ Coerente(d, apurado) /\ d.resta \in Seq(Entes)
        /\ \A i \in DOMAIN d.pendentes : Existe(d.pendentes[i])
        /\ Ordenada(d.resta)
    BY EmExecucao
  <1>2. /\ d.fase = "executando" /\ d.resta # <<>> /\ d.lida = 0
        /\ UNCHANGED <<lotes, vigente, apurado, carteira, carga, falhas>>
    BY DEF ResolverVersao
  <1>3. ciclo' = [ciclo EXCEPT ![r] = c]
    BY DEF ResolverVersao, IInvCarteira, TypeOKCarteira
  <1>4. /\ e = d.resta[1] /\ e \in Entes
        /\ Tail(d.resta) \in Seq(Entes) /\ Ordenada(Tail(d.resta))
        /\ \A i \in DOMAIN Tail(d.resta) :
             i + 1 \in DOMAIN d.resta /\ Tail(d.resta)[i] = d.resta[i + 1]
    BY <1>1, <1>2, RestoOrdenado
  <1>5. vigente[e] \in Versoes
    BY <1>4 DEF IInvCarteira, TypeOKCarteira
  <1> DEFINE t == Tail(d.resta)
             v == vigente[e]
  <1>6. TemApuracao(e) <=> v \in apurado[e]
    BY DEF TemApuracao
  <1> HIDE DEF d, e, t, v
  <1>7. c \in Ciclo /\ Coerente(c, apurado) /\ c.pendentes = d.pendentes
    <2>1. CASE TemApuracao(e)
      <3>1. c = [d EXCEPT !.lida = v]
        BY <2>1 DEF v
      <3>2. c \in Ciclo
        BY <1>1, <1>5, <3>1 DEF Ciclo, v
      <3>3. /\ c.fase = d.fase /\ c.resta = d.resta /\ c.pendentes = d.pendentes
            /\ c.lida = v /\ c.escrito = d.escrito
        BY <1>1, <3>1 DEF Ciclo
      <3>4. v \in apurado[d.resta[1]]
        BY <1>4, <1>6, <2>1
      <3> HIDE DEF c
      <3>5. Coerente(c, apurado)
        BY <1>1, <1>2, <3>3, <3>4 DEF Coerente
      <3>6. QED
        BY <3>2, <3>3, <3>5
    <2>2. CASE ~TemApuracao(e)
      <3>1. c = [d EXCEPT !.resta = t]
        BY <2>2 DEF t
      <3>2. c \in Ciclo
        BY <1>1, <1>4, <3>1 DEF Ciclo, t
      <3>3. /\ c.fase = d.fase /\ c.resta = t /\ c.pendentes = d.pendentes
            /\ c.lida = d.lida /\ c.escrito = d.escrito
        BY <1>1, <3>1 DEF Ciclo
      <3> HIDE DEF c
      <3>4. \A i \in DOMAIN t : i + 1 \in DOMAIN d.resta /\ t[i] = d.resta[i + 1]
        BY <1>4 DEF t
      <3>5. Ordenada(t)
        BY <1>4 DEF t
      <3>6. Coerente(c, apurado)
        BY <1>1, <1>2, <3>3, <3>4, <3>5 DEF Coerente
      <3>7. QED
        BY <3>2, <3>3, <3>6
    <2>3. QED
      BY <2>1, <2>2
  <1>8. \A k : Existe(k) => Existe(k)'
    BY <1>2 DEF Existe
  <1> HIDE DEF c
  <1>9. \A i \in DOMAIN c.pendentes : Existe(c.pendentes[i])
    BY <1>1, <1>7
  <1>10. ciclo' \in [Relogios -> Ciclo] /\ \A q \in Relogios : CicloCoerente(q)'
    BY <1>2, <1>3, <1>7, <1>8, <1>9, UmCiclo
  <1>11. QED
    BY <1>2, <1>10 DEF IInvCarteira, TypeOKCarteira, LotesOrdenados, SnapshotApurado

\* A clock writes the row of the first entity left: all the others left come
\* after it.
LEMMA CarteiraUpsert ==
    ASSUME IInvCarteira, NEW r \in Relogios, Upsert(r)
    PROVE  IInvCarteira'
  <1> DEFINE d == ciclo[r]
             e == Head(d.resta)
             t == Tail(d.resta)
             w == [d.escrito EXCEPT ![e] = d.lida]
             c == [d EXCEPT !.escrito = w, !.lida = 0, !.resta = t]
  <1>1. /\ d \in Ciclo /\ Coerente(d, apurado) /\ d.resta \in Seq(Entes)
        /\ \A i \in DOMAIN d.pendentes : Existe(d.pendentes[i])
        /\ Ordenada(d.resta) /\ d.lida \in Versoes /\ d.escrito \in [Entes -> Versoes]
    BY EmExecucao
  <1>2. /\ d.fase = "executando" /\ d.resta # <<>> /\ d.lida # 0
        /\ UNCHANGED <<lotes, vigente, apurado, carteira, carga, falhas>>
    BY DEF Upsert, EsperaSnapshot
  <1>3. ciclo' = [ciclo EXCEPT ![r] = c]
    BY DEF Upsert, IInvCarteira, TypeOKCarteira, EsperaSnapshot
  <1>4. /\ e = d.resta[1] /\ e \in Entes /\ t \in Seq(Entes) /\ Ordenada(t)
        /\ \A i \in DOMAIN t : i + 1 \in DOMAIN d.resta /\ t[i] = d.resta[i + 1]
        /\ \A i \in DOMAIN t : e < t[i]
    BY <1>1, <1>2, RestoOrdenado
  <1> HIDE DEF d, e, t
  <1>5. w \in [Entes -> Versoes] /\ w[e] = d.lida
        /\ \A f \in Entes \ {e} : w[f] = d.escrito[f]
    BY <1>1, <1>4
  <1>6. 0 \in Versoes
    BY CarteiraAssumption DEF Versoes
  <1>7. c \in Ciclo
    BY <1>1, <1>4, <1>5, <1>6 DEF Ciclo
  <1>8. /\ c.fase = "executando" /\ c.resta = t /\ c.pendentes = d.pendentes
        /\ c.lida = 0 /\ c.escrito = w
    BY <1>1, <1>2 DEF Ciclo
  <1> HIDE DEF c, w
  <1>9. \A f \in Entes : w[f] # 0 => w[f] \in apurado[f] /\ \A i \in DOMAIN t : f < t[i]
    <2> SUFFICES ASSUME NEW f \in Entes, w[f] # 0
                 PROVE  w[f] \in apurado[f] /\ \A i \in DOMAIN t : f < t[i]
      OBVIOUS
    <2>1. CASE f = e
      BY <1>1, <1>2, <1>4, <1>5, <2>1 DEF Coerente
    <2>2. CASE f # e
      <3>1. w[f] = d.escrito[f]
        BY <1>5, <2>2
      <3>2. w[f] \in apurado[f] /\ \A i \in DOMAIN d.resta : f < d.resta[i]
        BY <1>1, <3>1 DEF Coerente
      <3>3. QED
        BY <1>4, <3>2
    <2>3. QED
      BY <2>1, <2>2
  <1>10. c.pendentes # <<>>
    BY <1>1, <1>2, <1>8 DEF Coerente
  <1>11. Coerente(c, apurado)
    BY <1>4, <1>8, <1>9, <1>10 DEF Coerente
  <1>12. \A i \in DOMAIN c.pendentes : Existe(c.pendentes[i])
    BY <1>1, <1>8
  <1>13. \A k : Existe(k) => Existe(k)'
    BY <1>2 DEF Existe
  <1>14. ciclo' \in [Relogios -> Ciclo] /\ \A q \in Relogios : CicloCoerente(q)'
    BY <1>2, <1>3, <1>7, <1>11, <1>12, <1>13, UmCiclo
  <1>15. QED
    BY <1>2, <1>14 DEF IInvCarteira, TypeOKCarteira, LotesOrdenados, SnapshotApurado

\* A job ends, concluded or marked as failed.
LEMMA CarteiraFimDoLote ==
    ASSUME IInvCarteira, NEW r \in Relogios, Concluir(r) \/ MarcarFalha(r)
    PROVE  IInvCarteira'
  <1> DEFINE l == Head(ciclo[r].pendentes)
             c == Proximo(r)
  <1>1. PICK st \in Terminal : lotes' = ComStatus(l, st)
    BY DEF Concluir, MarcarFalha, Terminal
  <1>2. /\ ciclo[r].fase # "parado" /\ ciclo' = [ciclo EXCEPT ![r] = c]
        /\ UNCHANGED <<vigente, apurado, carga, falhas>>
    BY DEF Concluir, MarcarFalha
  <1>3. /\ lotes' \in Seq(Lote) /\ LotesOrdenados'
        /\ \A k : Existe(k) => Existe(k)'
    BY <1>1, ComStatusTipo DEF IInvCarteira
  <1>4. /\ c \in Ciclo /\ Coerente(c, apurado)
        /\ \A i \in DOMAIN c.pendentes : Existe(c.pendentes[i])
    BY <1>2, ProximoCiclo
  <1> HIDE DEF l, c
  <1>5. ciclo' \in [Relogios -> Ciclo] /\ \A q \in Relogios : CicloCoerente(q)'
    BY <1>2, <1>3, <1>4, UmCiclo
  <1>6. carteira' \in [Entes -> Versoes]
        /\ \A e \in Entes : carteira'[e] \in apurado[e] \cup {0}
    <2>1. CASE MarcarFalha(r)
      BY <2>1 DEF MarcarFalha, IInvCarteira, TypeOKCarteira, SnapshotApurado
    <2>2. CASE Concluir(r)
      <3>1. carteira' = [e \in Entes |-> IF TravaDe(r, e) THEN ciclo[r].escrito[e]
                                                           ELSE carteira[e]]
        BY <2>2 DEF Concluir
      <3>2. \A e \in Entes : ciclo[r].escrito[e] \in Versoes
                /\ (ciclo[r].escrito[e] # 0 => ciclo[r].escrito[e] \in apurado[e])
        BY EmExecucao DEF Coerente
      <3>3. \A e \in Entes : carteira[e] \in Versoes /\ carteira[e] \in apurado[e] \cup {0}
        BY DEF IInvCarteira, TypeOKCarteira, SnapshotApurado
      <3>4. QED
        BY <3>1, <3>2, <3>3 DEF TravaDe
    <2>3. QED
      BY <2>1, <2>2
  <1>7. SnapshotApurado'
    BY <1>2, <1>6 DEF SnapshotApurado
  <1>8. QED
    BY <1>2, <1>3, <1>5, <1>6, <1>7 DEF IInvCarteira, TypeOKCarteira

\* An execution is rolled back, or the process dies.
LEMMA CarteiraFalha ==
    ASSUME IInvCarteira, NEW r \in Relogios, Falhar(r) \/ Interromper(r)
    PROVE  IInvCarteira'
  <1> DEFINE s == ciclo[r].pendentes
  <1>1. /\ s \in Seq(Lotes) /\ (ciclo[r].fase # "parado" => s # <<>>)
        /\ \A i \in DOMAIN s : Existe(s[i])
    BY EmExecucao DEF Coerente
  <1>2. /\ UNCHANGED <<lotes, vigente, apurado, carteira, carga>>
        /\ falhas < MaxFalhas /\ falhas' = falhas + 1
        /\ ciclo[r].fase # "parado"
    BY DEF Falhar, Interromper
  <1>3. PICK c : /\ ciclo' = [ciclo EXCEPT ![r] = c]
                 /\ c = Parado \/ c = [Parado EXCEPT !.fase = "falhou", !.pendentes = s]
    BY DEF Falhar, Interromper
  <1> HIDE DEF s
  <1>4. c \in Ciclo /\ Coerente(c, apurado) /\ (c.pendentes = <<>> \/ c.pendentes = s)
    <2>1. s \in Seq(Lotes) /\ s # <<>>
      BY <1>1, <1>2
    <2>2. Parado \in Ciclo /\ Coerente(Parado, apurado) /\ Parado.pendentes = <<>>
      BY <2>1, CicloNovo
    <2>3. /\ [Parado EXCEPT !.fase = "falhou", !.pendentes = s] \in Ciclo
          /\ Coerente([Parado EXCEPT !.fase = "falhou", !.pendentes = s], apurado)
          /\ [Parado EXCEPT !.fase = "falhou", !.pendentes = s].pendentes = s
      BY <2>1, CicloNovo
    <2>4. QED
      BY <1>3, <2>2, <2>3
  <1>5. \A i \in DOMAIN c.pendentes : Existe(c.pendentes[i])
    BY <1>1, <1>4
  <1>6. \A k : Existe(k) => Existe(k)'
    BY <1>2 DEF Existe
  <1>7. ciclo' \in [Relogios -> Ciclo] /\ \A q \in Relogios : CicloCoerente(q)'
    BY <1>2, <1>3, <1>4, <1>5, <1>6, UmCiclo
  <1>8. falhas' \in 0..MaxFalhas
    BY <1>2, CarteiraAssumption DEF IInvCarteira, TypeOKCarteira
  <1>9. QED
    BY <1>2, <1>7, <1>8 DEF IInvCarteira, TypeOKCarteira, LotesOrdenados, SnapshotApurado

\* Every step preserves the invariant.
LEMMA CarteiraPasso == IInvCarteira /\ [NextCarteira]_carteiraVars => IInvCarteira'
  <1> SUFFICES ASSUME IInvCarteira, [NextCarteira]_carteiraVars
               PROVE  IInvCarteira'
    OBVIOUS
  <1>1. CASE \/ \E l \in Lotes, s \in EscoposOrdenados : EnfileirarRefresh(l, s)
             \/ \E e \in Entes : NovaEntrega(e) \/ CargaStep(e)
    BY <1>1, CarteiraCarga
  <1>2. CASE \E r \in Relogios : CicloStep(r) \/ Falhar(r) \/ Interromper(r)
    BY <1>2, CarteiraListar, CarteiraComecar, CarteiraResolver, CarteiraUpsert,
       CarteiraFimDoLote, CarteiraFalha DEF CicloStep
  <1>3. CASE UNCHANGED carteiraVars
    <2>1. UNCHANGED <<lotes, vigente, apurado, carteira, ciclo, carga, falhas>>
      BY <1>3 DEF carteiraVars
    <2>2. \A r \in Relogios : CicloCoerente(r)'
      BY <2>1, CiclosParados DEF Existe
    <2>3. QED
      BY <2>1, <2>2 DEF IInvCarteira, TypeOKCarteira, LotesOrdenados, SnapshotApurado
  <1>4. QED
    BY <1>1, <1>2, <1>3 DEF NextCarteira

\* The jobs, the snapshots and the clocks are well formed in every state, and
\* what each clock holds is in order.
THEOREM CarteiraInvariante == SpecCarteira => []IInvCarteira
  <1>1. InitCarteira => IInvCarteira
    BY CarteiraInicial
  <1>2. QED
    BY <1>1, CarteiraPasso, PTL DEF SpecCarteira

\* A portfolio never shows a delivery whose indicators are not committed.
THEOREM SnapshotApuradoSempre == SpecCarteira => []SnapshotApurado
  <1>1. IInvCarteira => SnapshotApurado
    BY DEF IInvCarteira
  <1>2. QED
    BY <1>1, CarteiraInvariante, PTL

\* Who waits for a row another clock wrote waits for an entity that comes
\* before every one that clock still has to write.
LEMMA EsperaEmOrdem ==
    ASSUME IInvCarteira, NEW r \in Relogios, NEW q \in Relogios,
           EsperaPor(r, q), EsperaSnapshot(q)
    PROVE  /\ Head(ciclo[r].resta) \in Entes /\ Head(ciclo[q].resta) \in Entes
           /\ Head(ciclo[r].resta) < Head(ciclo[q].resta)
  <1>1. /\ ciclo[r].resta \in Seq(Entes) /\ ciclo[r].resta # <<>> /\ Ordenada(ciclo[r].resta)
        /\ ciclo[q].resta \in Seq(Entes) /\ ciclo[q].resta # <<>> /\ Ordenada(ciclo[q].resta)
    BY EmExecucao DEF EsperaPor, EsperaSnapshot
  <1>2. /\ Head(ciclo[r].resta) \in Entes
        /\ Head(ciclo[q].resta) \in Entes
        /\ Head(ciclo[q].resta) = ciclo[q].resta[1] /\ 1 \in DOMAIN ciclo[q].resta
    BY <1>1, RestoOrdenado
  <1>3. ciclo[q].escrito[Head(ciclo[r].resta)] # 0
    BY DEF EsperaPor, TravaDe
  <1>4. \A i \in DOMAIN ciclo[q].resta : Head(ciclo[r].resta) < ciclo[q].resta[i]
    BY <1>2, <1>3, EmExecucao DEF Coerente
  <1>5. QED
    BY <1>2, <1>4

\* No two clocks wait for each other, whatever the portfolios they refresh.
THEOREM SemEsperaCircularSempre == SpecCarteira => []SemEsperaCircular
  <1>1. IInvCarteira => SemEsperaCircular
    <2> SUFFICES ASSUME IInvCarteira, NEW r \in Relogios, NEW q \in Relogios,
                        EsperaPor(r, q), EsperaPor(q, r)
                 PROVE  FALSE
      BY DEF SemEsperaCircular
    <2> DEFINE a == Head(ciclo[r].resta)
               b == Head(ciclo[q].resta)
    <2>1. EsperaSnapshot(r) /\ EsperaSnapshot(q)
      BY DEF EsperaPor
    <2>2. a \in Entes /\ b \in Entes /\ a < b
      BY <2>1, EsperaEmOrdem
    <2>3. b < a
      BY <2>1, EsperaEmOrdem
    <2>4. a \in Nat /\ b \in Nat
      BY <2>2, CarteiraAssumption
    <2> HIDE DEF a, b
    <2>5. QED
      BY <2>2, <2>3, <2>4
  <1>2. QED
    BY <1>1, CarteiraInvariante, PTL

=============================================================================
