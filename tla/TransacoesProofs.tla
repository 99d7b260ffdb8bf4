-------------------------- MODULE TransacoesProofs --------------------------
(***************************************************************************)
(* Proofs about the components that MCTransacoes runs.  First each alone,  *)
(* for they share no variable but the day: the scope and the licences a    *)
(* session memorises (Escopo), the case of a failed check and the requests *)
(* that act on it (Resolucao), a question to the assistant (Assistente),   *)
(* the brake on failed logins (JanelaLogin), the cached pages of the grid  *)
(* (Grade) and the reading of a paginated source (Fontes); the others are  *)
(* proved about in the modules it extends.  Then their composition, which  *)
(* behaves as each of them: TransacoesCompoem.                             *)
(***************************************************************************)
EXTENDS MCTransacoes, CargasProofs, OrganizacaoProofs, CalendarioProofs,
        FiniteSetTheorems, SequenceTheorems, TLAPS

-----------------------------------------------------------------------------
(* The scope a session memorises                                           *)

\* The rows of the portfolio a request sees, and what the licences cover now.
VisaoDe(m, x) == (m \cup x.entra) \ x.sai
CobertoHoje == CobertosPor(licenca, hoje)

\* What a request memorised is what it would read, while nobody else commits.
Fiel(x, m, c, h) ==
    /\ x.carteira.lido => x.carteira.entes = VisaoDe(m, x)
    /\ x.prefixos.lido => x.prefixos.entes = VisaoDe(m, x) \cap Estados
    /\ x.cobertura.lido /\ x.dia = h => x.cobertura.entes = c

\* What it showed today was covered today, and so is what it memorised.
MostrouCoberto(x, c, h) ==
    /\ c \subseteq x.coberto /\ x.mostrou \subseteq x.coberto
    /\ x.cobertura.lido /\ x.dia = h => x.cobertura.entes \subseteq x.coberto

SessaoBoa(x, m, c, h) ==
    /\ x \in Sessao /\ x.dia <= h
    /\ x.aberta => MostrouCoberto(x, c, h)
    /\ x.aberta /\ x.sozinha => Fiel(x, m, c, h)

TiposEscopo ==
    /\ hoje \in Dias
    /\ licenca \in [Licencas -> Licenca]
    /\ estadual \in BOOLEAN
    /\ monitora \in SUBSET Codigos
    /\ sessao \in [Sessoes -> Sessao]
    /\ mexidas \in 0..MaxMudancasEscopo
IInvEscopo ==
    /\ TiposEscopo
    /\ \A s \in Sessoes : SessaoBoa(sessao[s], monitora, CobertoHoje, hoje)

LEMMA CobertosSao ==
    ASSUME NEW ls \in [Licencas -> Licenca], NEW d
    PROVE  CobertosPor(ls, d) \in SUBSET Codigos
  BY DEF CobertosPor, Licenca

LEMMA FechadaBoa ==
    ASSUME NEW m, NEW c, NEW h \in Nat
    PROVE  SessaoBoa(SessaoFechada, m, c, h)
  <1>1. SessaoFechada \in Sessao
    BY EscopoAssumption DEF SessaoFechada, Sessao, Memoria, Nenhum, Dias
  <1>2. SessaoFechada.dia = 0 /\ ~SessaoFechada.aberta
    BY DEF SessaoFechada
  <1>3. QED
    BY <1>1, <1>2 DEF SessaoBoa

\* v, u and k are what a request reads of its portfolio, of its states and of the
\* licences.
LeituraDaSessao(x, v, u, k, m, c, h) ==
    /\ v = IF x.carteira.lido THEN x.carteira.entes ELSE VisaoDe(m, x)
    /\ u = IF x.prefixos.lido THEN x.prefixos.entes ELSE v \cap Estados
    /\ k = IF LembraCobertura(x, h) THEN x.cobertura.entes ELSE c

\* y is what x becomes when it memorises some of it and shows some of k.
Segue(x, y, v, u, k, h) ==
    /\ y.aberta = x.aberta /\ y.sozinha = x.sozinha /\ y.coberto = x.coberto
    /\ y.entra = x.entra /\ y.sai = x.sai
    /\ y.carteira = x.carteira \/ y.carteira = Lido(v)
    /\ y.prefixos = x.prefixos \/ y.prefixos = Lido(u)
    /\ y.cobertura = Lido(k) /\ y.dia = h
    /\ y.mostrou \subseteq x.mostrou \cup k

\* A request that memorises what it reads, keeps what it changed and shows
\* what is covered.
LEMMA LembraBoa ==
    ASSUME NEW m, NEW c, NEW h, NEW x, SessaoBoa(x, m, c, h), NEW y \in Sessao,
           NEW v, NEW u, NEW k, LeituraDaSessao(x, v, u, k, m, c, h),
           Segue(x, y, v, u, k, h), h \in Nat
    PROVE  SessaoBoa(y, m, c, h)
  <1>1. /\ \A z : Lido(z).lido /\ Lido(z).entes = z
        /\ VisaoDe(m, y) = VisaoDe(m, x)
    BY DEF Lido, VisaoDe, Segue
  <1>2. ASSUME y.aberta
        PROVE  MostrouCoberto(y, c, h)
    BY <1>1, <1>2 DEF SessaoBoa, MostrouCoberto, LembraCobertura, LeituraDaSessao, Segue
  <1>3. ASSUME y.aberta, y.sozinha
        PROVE  Fiel(y, m, c, h)
    <2>1. Fiel(x, m, c, h)
      BY <1>3 DEF SessaoBoa, Segue
    <2>2. v = VisaoDe(m, x) /\ u = VisaoDe(m, x) \cap Estados /\ k = c
      BY <2>1 DEF Fiel, LembraCobertura, LeituraDaSessao
    <2>3. y.carteira.lido => y.carteira.entes = VisaoDe(m, x)
      BY <1>1, <2>1, <2>2 DEF Fiel, Segue
    <2>4. y.prefixos.lido => y.prefixos.entes = VisaoDe(m, x) \cap Estados
      BY <1>1, <2>1, <2>2 DEF Fiel, Segue
    <2>5. QED
      BY <1>1, <2>2, <2>3, <2>4 DEF Fiel, Segue
  <1>4. QED
    BY <1>2, <1>3 DEF SessaoBoa, Segue

\* One request changes, and no row is committed.
Troca(s, y) ==
    /\ sessao' = [sessao EXCEPT ![s] = y]
    /\ UNCHANGED <<hoje, licenca, estadual, monitora, mexidas>>
ComMostrou(w, n) == [w EXCEPT !.mostrou = n]
ComMudanca(w, a, b) == [w EXCEPT !.entra = a, !.sai = b]

LEMMA UmaSessao ==
    ASSUME IInvEscopo, NEW s \in Sessoes, NEW y,
           SessaoBoa(y, monitora, CobertoHoje, hoje),
           Troca(s, y)
    PROVE  IInvEscopo'
  <1>1. CobertoHoje' = CobertoHoje
    BY DEF CobertoHoje, CobertosPor, VigenteEm, Troca
  <1>2. /\ sessao \in [Sessoes -> Sessao] /\ y \in Sessao
        /\ \A t \in Sessoes : SessaoBoa(sessao[t], monitora, CobertoHoje, hoje)
    BY DEF IInvEscopo, TiposEscopo, SessaoBoa
  <1>3. /\ sessao' \in [Sessoes -> Sessao]
        /\ \A t \in Sessoes : sessao'[t] = sessao[t] \/ sessao'[t] = y
    BY <1>2 DEF Troca
  <1>4. TiposEscopo'
    BY <1>3 DEF IInvEscopo, TiposEscopo, Troca
  <1>5. \A t \in Sessoes : SessaoBoa(sessao'[t], monitora', CobertoHoje', hoje')
    BY <1>1, <1>2, <1>3 DEF Troca
  <1>6. QED
    BY <1>4, <1>5 DEF IInvEscopo

\* Another transaction commits a change of what every request reads.
LEMMA PerturbaBoa ==
    ASSUME NEW x, NEW m, NEW c, NEW h, SessaoBoa(x, m, c, h), h \in Nat,
           NEW n, NEW d \in SUBSET Codigos,
           NEW y, y = IF x.aberta
                      THEN [x EXCEPT !.sozinha = FALSE, !.coberto = x.coberto \cup d]
                      ELSE x
    PROVE  SessaoBoa(y, n, d, h)
  <1>1. CASE ~x.aberta
    BY <1>1 DEF SessaoBoa
  <1>2. CASE x.aberta
    <2>1. x \in Sessao /\ x.coberto \cup d \in SUBSET Codigos
      BY DEF SessaoBoa, Sessao
    <2>2. /\ y \in Sessao /\ ~y.sozinha /\ y.coberto = x.coberto \cup d
          /\ y.dia = x.dia /\ y.mostrou = x.mostrou /\ y.cobertura = x.cobertura
      BY <1>2, <2>1 DEF Sessao
    <2>3. QED
      BY <1>2, <2>2 DEF SessaoBoa, MostrouCoberto
  <1>3. QED
    BY <1>1, <1>2

\* Every open request meets a commit of another one.
LEMMA TodasPerturbadas ==
    ASSUME IInvEscopo, NEW ls, NEW n, NEW d \in SUBSET Codigos, d = CobertosPor(ls, hoje)
    PROVE  /\ Perturba(sessao, ls) \in [Sessoes -> Sessao]
           /\ \A s \in Sessoes : SessaoBoa(Perturba(sessao, ls)[s], n, d, hoje)
  <1>1. ASSUME NEW s \in Sessoes
        PROVE  SessaoBoa(Perturba(sessao, ls)[s], n, d, hoje)
    <2>1. SessaoBoa(sessao[s], monitora, CobertoHoje, hoje) /\ hoje \in Nat
      BY DEF IInvEscopo, TiposEscopo, Dias
    <2>2. Perturba(sessao, ls)[s] =
            IF sessao[s].aberta
            THEN [sessao[s] EXCEPT !.sozinha = FALSE, !.coberto = sessao[s].coberto \cup d]
            ELSE sessao[s]
      BY DEF Perturba
    <2>3. QED
      BY <2>1, <2>2, PerturbaBoa
  <1>2. Perturba(sessao, ls) = [s \in Sessoes |-> Perturba(sessao, ls)[s]]
    BY DEF Perturba
  <1>3. \A s \in Sessoes : Perturba(sessao, ls)[s] \in Sessao
    BY <1>1 DEF SessaoBoa
  <1>4. QED
    BY <1>1, <1>2, <1>3

LEMMA MudarLicencaPreserva ==
    ASSUME IInvEscopo, NEW l \in Licencas, NEW nova \in Licenca, MudarLicenca(l, nova)
    PROVE  IInvEscopo'
  <1>1. /\ mexidas' \in 0..MaxMudancasEscopo
        /\ licenca' \in [Licencas -> Licenca]
        /\ UNCHANGED <<hoje, estadual, monitora>>
        /\ sessao' = Perturba(sessao, licenca')
    BY EscopoAssumption DEF IInvEscopo, TiposEscopo, MudarLicenca
  <1>2. PICK d \in SUBSET Codigos : d = CobertosPor(licenca', hoje)
    BY <1>1, CobertosSao
  <1>3. /\ sessao' \in [Sessoes -> Sessao]
        /\ \A s \in Sessoes : SessaoBoa(sessao'[s], monitora, d, hoje)
    BY <1>1, <1>2, TodasPerturbadas
  <1>4. CobertoHoje' = d
    BY <1>1, <1>2 DEF CobertoHoje
  <1>5. TiposEscopo'
    BY <1>1, <1>3 DEF IInvEscopo, TiposEscopo
  <1>6. QED
    BY <1>1, <1>3, <1>4, <1>5 DEF IInvEscopo

LEMMA LicencasPreservam ==
    ASSUME IInvEscopo, NEW l \in Licencas,
           \/ \E a \in Alvos, i \in hoje..MaxDias, f \in Dias \cup {SemPrazo} :
                ConcederLicenca(l, a, i, f)
           \/ \E st \in {"ativa", "suspensa"} : AlterarStatus(l, st)
           \/ \E f \in Dias : AlterarPrazo(l, f)
    PROVE  IInvEscopo'
  <1>1. licenca[l] \in Licenca /\ hoje \in Dias
    BY DEF IInvEscopo, TiposEscopo
  <1>2. ASSUME NEW a \in Alvos, NEW i \in hoje..MaxDias, NEW f \in Dias \cup {SemPrazo},
               ConcederLicenca(l, a, i, f)
        PROVE  IInvEscopo'
    <2>1. a \in SUBSET Codigos /\ i \in Dias
      BY <1>1, EscopoAssumption DEF Alvos, CodigosDaUf, Dias
    <2>2. [status |-> "ativa", alvo |-> a, inicio |-> i, fim |-> f] \in Licenca
      BY <2>1 DEF Licenca
    <2>3. QED
      BY <1>2, <2>2, MudarLicencaPreserva DEF ConcederLicenca
  <1>3. ASSUME NEW st \in {"ativa", "suspensa"}, AlterarStatus(l, st)
        PROVE  IInvEscopo'
    <2>1. [licenca[l] EXCEPT !.status = st] \in Licenca
      BY <1>1 DEF Licenca
    <2>2. QED
      BY <1>3, <2>1, MudarLicencaPreserva DEF AlterarStatus
  <1>4. ASSUME NEW f \in Dias, AlterarPrazo(l, f)
        PROVE  IInvEscopo'
    <2>1. [licenca[l] EXCEPT !.fim = f] \in Licenca
      BY <1>1 DEF Licenca
    <2>2. QED
      BY <1>4, <2>1, MudarLicencaPreserva DEF AlterarPrazo
  <1>5. QED
    BY <1>2, <1>3, <1>4

\* At midnight nothing was shown yet, and what was memorised is of yesterday.
LEMMA VirarDiaPreserva ==
    ASSUME IInvEscopo, VirarDia
    PROVE  IInvEscopo'
  <1>0. /\ hoje \in Dias /\ hoje < MaxDias /\ hoje' = hoje + 1
        /\ licenca \in [Licencas -> Licenca] /\ sessao \in [Sessoes -> Sessao]
        /\ UNCHANGED <<licenca, estadual, monitora, mexidas>>
    BY DEF IInvEscopo, TiposEscopo, VirarDia
  <1>1. hoje \in Nat /\ hoje' \in Dias
    BY <1>0, EscopoAssumption DEF Dias
  <1>2. PICK d \in SUBSET Codigos : d = CobertosPor(licenca, hoje + 1)
    BY <1>0, CobertosSao
  <1>3. ASSUME NEW s \in Sessoes
        PROVE  SessaoBoa(sessao'[s], monitora, d, hoje + 1)
    <2>1. /\ SessaoBoa(sessao[s], monitora, CobertoHoje, hoje)
          /\ sessao[s] \in Sessao /\ sessao[s].dia <= hoje /\ sessao[s].dia \in Nat
      BY <1>0 DEF IInvEscopo, SessaoBoa, Sessao, Dias
    <2>2. CASE ~sessao[s].aberta
      <3>1. sessao'[s] = sessao[s]
        BY <2>2 DEF VirarDia
      <3>2. QED
        BY <1>1, <2>1, <2>2, <3>1 DEF SessaoBoa
    <2>3. CASE sessao[s].aberta
      <3>1. sessao'[s] = [sessao[s] EXCEPT !.sozinha = FALSE, !.mostrou = {}, !.coberto = d]
        BY <1>2, <2>3 DEF VirarDia
      <3>2. /\ sessao'[s] \in Sessao /\ sessao'[s].dia = sessao[s].dia
            /\ ~sessao'[s].sozinha /\ sessao'[s].mostrou = {} /\ sessao'[s].coberto = d
        BY <2>1, <3>1 DEF Sessao
      <3>3. QED
        BY <1>1, <2>1, <3>2 DEF SessaoBoa, MostrouCoberto
    <2>4. QED
      BY <2>2, <2>3
  <1>4. CobertoHoje' = d
    BY <1>0, <1>2 DEF CobertoHoje
  <1>5. sessao' \in [Sessoes -> Sessao]
    <2>1. sessao' = [s \in Sessoes |-> sessao'[s]]
      BY DEF VirarDia
    <2>2. \A s \in Sessoes : sessao'[s] \in Sessao
      BY <1>3 DEF SessaoBoa
    <2>3. QED
      BY <2>1, <2>2
  <1>6. TiposEscopo'
    BY <1>0, <1>1, <1>5 DEF IInvEscopo, TiposEscopo
  <1>7. QED
    BY <1>0, <1>3, <1>4, <1>6 DEF IInvEscopo

LEMMA AbrirSessaoPreserva ==
    ASSUME IInvEscopo, NEW s \in Sessoes, AbrirSessao(s)
    PROVE  IInvEscopo'
  <1>1. PICK d \in SUBSET Codigos : d = CobertoHoje
    BY CobertosSao DEF IInvEscopo, TiposEscopo, CobertoHoje
  <1> DEFINE y == [SessaoFechada EXCEPT !.aberta = TRUE, !.coberto = d]
  <1>2. hoje \in Nat
    BY DEF IInvEscopo, TiposEscopo, Dias
  <1>3. SessaoBoa(SessaoFechada, monitora, d, hoje)
    BY <1>2, FechadaBoa
  <1>4. y \in Sessao
    BY <1>3 DEF SessaoBoa, Sessao
  <1>5. /\ y.dia = 0 /\ y.mostrou = {} /\ y.coberto = d
        /\ ~y.cobertura.lido /\ ~y.carteira.lido /\ ~y.prefixos.lido
    BY DEF SessaoFechada, Nenhum
  <1>6. sessao' = [sessao EXCEPT ![s] = y]
    BY <1>1 DEF AbrirSessao, CobertoHoje
  <1>7. UNCHANGED <<hoje, licenca, estadual, monitora, mexidas>>
    BY DEF AbrirSessao
  <1> HIDE DEF y
  <1>8. SessaoBoa(y, monitora, CobertoHoje, hoje)
    BY <1>1, <1>2, <1>4, <1>5 DEF SessaoBoa, MostrouCoberto, Fiel
  <1>9. QED
    BY <1>6, <1>7, <1>8, UmaSessao DEF Troca

\* What a request reads, memorised or not.
LEMMA Leituras ==
    ASSUME IInvEscopo, NEW s \in Sessoes
    PROVE  /\ CarteiraIbges(s) \in SUBSET Codigos
           /\ EstadoPrefixes(s) \in SUBSET Codigos
           /\ Cobertura(s) \in SUBSET Codigos
           /\ LeituraDaSessao(sessao[s], CarteiraIbges(s), EstadoPrefixes(s), Cobertura(s),
                      monitora, CobertoHoje, hoje)
  <1>1. /\ sessao[s] \in Sessao /\ monitora \in SUBSET Codigos
        /\ CobertoHoje \in SUBSET Codigos
    BY CobertosSao DEF IInvEscopo, TiposEscopo, CobertoHoje
  <1>2. Visao(s) = VisaoDe(monitora, sessao[s]) /\ Visao(s) \in SUBSET Codigos
    BY <1>1 DEF Visao, VisaoDe, Sessao
  <1>3. CarteiraIbges(s) \in SUBSET Codigos
    BY <1>1, <1>2 DEF CarteiraIbges, Sessao, Memoria
  <1>4. EstadoPrefixes(s) \in SUBSET Codigos
    BY <1>1, <1>3 DEF EstadoPrefixes, Sessao, Memoria
  <1>5. Cobertura(s) \in SUBSET Codigos
    BY <1>1 DEF Cobertura, CobertoHoje, Sessao, Memoria
  <1>6. QED
    BY <1>2, <1>3, <1>4, <1>5 DEF CarteiraIbges, EstadoPrefixes, Cobertura, CobertoHoje, LeituraDaSessao

LEMMA LidoEhMemoria ==
    ASSUME NEW v \in SUBSET Codigos
    PROVE  Lido(v) \in Memoria
  BY DEF Lido, Memoria

\* A request that memorises, in the order the code does.
LEMMA Memorizadas ==
    ASSUME IInvEscopo, NEW s \in Sessoes, NEW x \in Sessao
    PROVE  /\ MemorizaCarteira(s, x) \in Sessao
           /\ MemorizaCarteira(s, x).carteira = Lido(CarteiraIbges(s))
           /\ \A f \in {"aberta", "cobertura", "dia", "prefixos", "entra", "sai", "mostrou",
                        "coberto", "sozinha"} : MemorizaCarteira(s, x)[f] = x[f]
           /\ MemorizaPrefixos(s, x) \in Sessao
           /\ MemorizaPrefixos(s, x).carteira \in {x.carteira, Lido(CarteiraIbges(s))}
           /\ MemorizaPrefixos(s, x).prefixos \in {x.prefixos, Lido(EstadoPrefixes(s))}
           /\ \A f \in {"aberta", "cobertura", "dia", "entra", "sai", "mostrou",
                        "coberto", "sozinha"} : MemorizaPrefixos(s, x)[f] = x[f]
           /\ MemorizaCobertura(s, x) \in Sessao
           /\ MemorizaCobertura(s, x).cobertura = Lido(Cobertura(s))
           /\ MemorizaCobertura(s, x).dia = hoje
           /\ \A f \in {"aberta", "carteira", "prefixos", "entra", "sai", "mostrou",
                        "coberto", "sozinha"} : MemorizaCobertura(s, x)[f] = x[f]
  <1>1. PICK v \in Memoria : v = Lido(CarteiraIbges(s))
    BY Leituras, LidoEhMemoria
  <1>2. PICK u \in Memoria : u = Lido(EstadoPrefixes(s))
    BY Leituras, LidoEhMemoria
  <1>3. PICK k \in Memoria : k = Lido(Cobertura(s))
    BY Leituras, LidoEhMemoria
  <1>4. hoje \in Dias
    BY DEF IInvEscopo, TiposEscopo
  <1>5. /\ MemorizaCarteira(s, x) = [x EXCEPT !.carteira = v]
        /\ MemorizaCarteira(s, x) \in Sessao
    BY <1>1 DEF MemorizaCarteira, Sessao
  <1>6. MemorizaPrefixos(s, x) = IF estadual THEN [[x EXCEPT !.carteira = v] EXCEPT !.prefixos = u]
                                 ELSE x
    BY <1>2, <1>5 DEF MemorizaPrefixos
  <1>7. MemorizaPrefixos(s, x) \in Sessao
    BY <1>6 DEF Sessao
  <1>8. MemorizaCobertura(s, x) = [x EXCEPT !.cobertura = k, !.dia = hoje]
    BY <1>3 DEF MemorizaCobertura
  <1>9. MemorizaCobertura(s, x) \in Sessao
    BY <1>4, <1>8 DEF Sessao
  <1>10. /\ MemorizaCarteira(s, x).carteira = v
         /\ \A f \in {"aberta", "cobertura", "dia", "prefixos", "entra", "sai", "mostrou",
                      "coberto", "sozinha"} : MemorizaCarteira(s, x)[f] = x[f]
    BY <1>5 DEF Sessao
  <1>11. /\ MemorizaPrefixos(s, x).carteira \in {x.carteira, v}
         /\ MemorizaPrefixos(s, x).prefixos \in {x.prefixos, u}
         /\ \A f \in {"aberta", "cobertura", "dia", "entra", "sai", "mostrou",
                      "coberto", "sozinha"} : MemorizaPrefixos(s, x)[f] = x[f]
    BY <1>6 DEF Sessao
  <1>12. /\ MemorizaCobertura(s, x).cobertura = k /\ MemorizaCobertura(s, x).dia = hoje
         /\ \A f \in {"aberta", "carteira", "prefixos", "entra", "sai", "mostrou",
                      "coberto", "sozinha"} : MemorizaCobertura(s, x)[f] = x[f]
    BY <1>8 DEF Sessao
  <1>13. QED
    BY <1>1, <1>2, <1>3, <1>5, <1>7, <1>9, <1>10, <1>11, <1>12

\* A request shows some of what its memory covers.
LEMMA MostraPreserva ==
    ASSUME IInvEscopo, NEW s \in Sessoes,
           NEW x \in {sessao[s], MemorizaPrefixos(s, sessao[s]),
                      MemorizaPrefixos(s, MemorizaCarteira(s, sessao[s]))},
           NEW E \in SUBSET Codigos, E \subseteq Cobertura(s),
           NEW n, n = sessao[s].mostrou \cup E,
           NEW y, y = ComMostrou(MemorizaCobertura(s, x), n),
           Troca(s, y)
    PROVE  IInvEscopo'
  <1>1. /\ sessao[s] \in Sessao /\ hoje \in Nat
        /\ SessaoBoa(sessao[s], monitora, CobertoHoje, hoje)
    BY DEF IInvEscopo, TiposEscopo, Dias
  <1>2. MemorizaCarteira(s, sessao[s]) \in Sessao
    BY <1>1, Memorizadas
  <1>3. /\ x \in Sessao
        /\ x.carteira \in {sessao[s].carteira, Lido(CarteiraIbges(s))}
        /\ x.prefixos \in {sessao[s].prefixos, Lido(EstadoPrefixes(s))}
        /\ x.aberta = sessao[s].aberta /\ x.sozinha = sessao[s].sozinha
        /\ x.coberto = sessao[s].coberto /\ x.entra = sessao[s].entra
        /\ x.sai = sessao[s].sai
    <2>1. CASE x = sessao[s]
      BY <1>1, <2>1
    <2>2. CASE x = MemorizaPrefixos(s, sessao[s])
      BY <1>1, <2>2, Memorizadas
    <2>3. CASE x = MemorizaPrefixos(s, MemorizaCarteira(s, sessao[s]))
      BY <1>1, <1>2, <2>3, Memorizadas
    <2>4. QED
      BY <2>1, <2>2, <2>3
  <1>4. PICK z \in Sessao : z = MemorizaCobertura(s, x)
    BY <1>3, Memorizadas
  <1>5. /\ z.cobertura = Lido(Cobertura(s)) /\ z.dia = hoje
        /\ z.aberta = x.aberta /\ z.sozinha = x.sozinha /\ z.coberto = x.coberto
        /\ z.entra = x.entra /\ z.sai = x.sai
        /\ z.carteira = x.carteira /\ z.prefixos = x.prefixos
    BY <1>3, <1>4, Memorizadas
  <1>6. n \in SUBSET Codigos
    BY <1>1 DEF Sessao
  <1>7. /\ y \in Sessao /\ y.mostrou = n
        /\ y.cobertura = z.cobertura /\ y.dia = z.dia
        /\ y.aberta = z.aberta /\ y.sozinha = z.sozinha /\ y.coberto = z.coberto
        /\ y.entra = z.entra /\ y.sai = z.sai
        /\ y.carteira = z.carteira /\ y.prefixos = z.prefixos
    BY <1>4, <1>6 DEF Sessao, ComMostrou
  <1>8. PICK v, u, k :
          /\ v = CarteiraIbges(s) /\ u = EstadoPrefixes(s) /\ k = Cobertura(s)
          /\ LeituraDaSessao(sessao[s], v, u, k, monitora, CobertoHoje, hoje)
    BY Leituras
  <1>9. SessaoBoa(y, monitora, CobertoHoje, hoje)
    <2>1. Segue(sessao[s], y, v, u, k, hoje)
      BY <1>3, <1>5, <1>7, <1>8 DEF Segue
    <2>2. QED
      BY <1>1, <1>7, <1>8, <2>1, LembraBoa
  <1>10. QED
    BY <1>9, UmaSessao

LEMMA PassarPortaoPreserva ==
    ASSUME IInvEscopo, NEW s \in Sessoes, NEW e \in Codigos, PassarPortao(s, e)
    PROVE  IInvEscopo'
  <1>1. PICK x \in {sessao[s], MemorizaPrefixos(s, sessao[s])} :
          x = IF e \in Visao(s) \/ e \notin Municipios THEN sessao[s]
              ELSE MemorizaPrefixos(s, sessao[s])
    OBVIOUS
  <1>2. /\ sessao' = [sessao EXCEPT ![s] =
             IF Portao(s, e)
             THEN [MemorizaCobertura(s, x) EXCEPT !.mostrou = @ \cup {e}]
             ELSE SessaoFechada]
        /\ UNCHANGED <<hoje, licenca, estadual, monitora, mexidas>>
    BY <1>1 DEF PassarPortao
  <1>3. CASE ~Portao(s, e)
    <2>1. SessaoBoa(SessaoFechada, monitora, CobertoHoje, hoje)
      BY FechadaBoa DEF IInvEscopo, TiposEscopo, Dias
    <2>2. QED
      BY <1>2, <1>3, <2>1, UmaSessao DEF Troca
  <1>4. CASE Portao(s, e)
    <2>1. sessao[s] \in Sessao
      BY DEF IInvEscopo, TiposEscopo
    <2>2. x \in Sessao /\ x.mostrou = sessao[s].mostrou
      BY <1>1, <2>1, Memorizadas
    <2>3. MemorizaCobertura(s, x).mostrou = sessao[s].mostrou
      BY <2>2, Memorizadas
    <2>4. PICK n, y :
            /\ n = sessao[s].mostrou \cup {e}
            /\ y = ComMostrou(MemorizaCobertura(s, x), n)
            /\ Troca(s, y)
      BY <1>2, <1>4, <2>3 DEF ComMostrou, Troca
    <2>5. {e} \in SUBSET Codigos /\ {e} \subseteq Cobertura(s)
      BY <1>4 DEF Portao
    <2>6. QED
      BY <1>1, <1>2, <2>4, <2>5, MostraPreserva
  <1>5. QED
    BY <1>3, <1>4

LEMMA AgregarPreserva ==
    ASSUME IInvEscopo, NEW s \in Sessoes, Agregar(s)
    PROVE  IInvEscopo'
  <1>1. PICK x : x = MemorizaPrefixos(s, MemorizaCarteira(s, sessao[s]))
    OBVIOUS
  <1>2. /\ sessao' = [sessao EXCEPT ![s] =
             [MemorizaCobertura(s, x) EXCEPT !.mostrou = @ \cup Agregado(s)]]
        /\ UNCHANGED <<hoje, licenca, estadual, monitora, mexidas>>
    BY <1>1 DEF Agregar
  <1>3. sessao[s] \in Sessao
    BY DEF IInvEscopo, TiposEscopo
  <1>4. x \in Sessao /\ x.mostrou = sessao[s].mostrou
    BY <1>1, <1>3, Memorizadas
  <1>5. MemorizaCobertura(s, x).mostrou = sessao[s].mostrou
    BY <1>4, Memorizadas
  <1>6. PICK n, y :
          /\ n = sessao[s].mostrou \cup Agregado(s)
          /\ y = ComMostrou(MemorizaCobertura(s, x), n)
          /\ Troca(s, y)
    BY <1>2, <1>5 DEF ComMostrou, Troca
  <1>7. Agregado(s) \in SUBSET Codigos /\ Agregado(s) \subseteq Cobertura(s)
    BY Leituras DEF Agregado
  <1>8. QED
    BY <1>1, <1>2, <1>6, <1>7, MostraPreserva

\* A request that changes the portfolio forgets what it memorised of it.
LEMMA MudaCarteiraPreserva ==
    ASSUME IInvEscopo, NEW s \in Sessoes, NEW entra \in SUBSET Codigos,
           NEW sai \in SUBSET Codigos, NEW y,
           NEW w, w = Invalida(MemorizaCobertura(s, sessao[s])),
           y = ComMudanca(w, entra, sai),
           Troca(s, y)
    PROVE  IInvEscopo'
  <1>1. /\ sessao[s] \in Sessao /\ hoje \in Nat
        /\ SessaoBoa(sessao[s], monitora, CobertoHoje, hoje)
    BY DEF IInvEscopo, TiposEscopo, Dias
  <1>2. PICK z \in Sessao : z = MemorizaCobertura(s, sessao[s])
    BY <1>1, Memorizadas
  <1>3. /\ z.cobertura = Lido(Cobertura(s)) /\ z.dia = hoje
        /\ z.aberta = sessao[s].aberta /\ z.sozinha = sessao[s].sozinha
        /\ z.coberto = sessao[s].coberto /\ z.mostrou = sessao[s].mostrou
    BY <1>1, <1>2, Memorizadas
  <1>4. Nenhum \in Memoria /\ ~Nenhum.lido
    BY DEF Nenhum, Memoria
  <1>5. y = [z EXCEPT !.carteira = Nenhum, !.prefixos = Nenhum, !.entra = entra, !.sai = sai]
    BY <1>2 DEF Invalida, Sessao, ComMudanca
  <1>6. /\ y \in Sessao
        /\ ~y.carteira.lido /\ ~y.prefixos.lido
        /\ y.cobertura = z.cobertura /\ y.dia = z.dia
        /\ y.aberta = z.aberta /\ y.sozinha = z.sozinha
        /\ y.coberto = z.coberto /\ y.mostrou = z.mostrou
    BY <1>4, <1>5 DEF Sessao
  <1>7. /\ y.cobertura.entes = Cobertura(s)
        /\ Cobertura(s) = IF LembraCobertura(sessao[s], hoje)
                          THEN sessao[s].cobertura.entes ELSE CobertoHoje
    BY <1>3, <1>6, Leituras DEF Lido, LeituraDaSessao
  <1>8. SessaoBoa(y, monitora, CobertoHoje, hoje)
    BY <1>1, <1>3, <1>6, <1>7 DEF SessaoBoa, MostrouCoberto, Fiel, LembraCobertura
  <1>9. QED
    BY <1>8, UmaSessao

LEMMA CarteiraPreserva ==
    ASSUME IInvEscopo, NEW s \in Sessoes, NEW e \in Codigos,
           Adicionar(s, e) \/ Remover(s, e)
    PROVE  IInvEscopo'
  <1>1. /\ sessao[s] \in Sessao
        /\ sessao[s].entra \in SUBSET Codigos /\ sessao[s].sai \in SUBSET Codigos
    BY DEF IInvEscopo, TiposEscopo, Sessao
  <1>2. PICK z : z = Invalida(MemorizaCobertura(s, sessao[s]))
    OBVIOUS
  <1>3. z.entra = sessao[s].entra /\ z.sai = sessao[s].sai
    <2>1. PICK w \in Sessao : w = MemorizaCobertura(s, sessao[s])
      BY <1>1, Memorizadas
    <2>2. w.entra = sessao[s].entra /\ w.sai = sessao[s].sai
      BY <1>1, <2>1, Memorizadas
    <2>3. QED
      BY <1>2, <2>1, <2>2 DEF Invalida, Sessao
  <1>4. CASE Adicionar(s, e)
    <2>1. /\ sessao' = [sessao EXCEPT ![s] =
                 [z EXCEPT !.entra = @ \cup {e}, !.sai = @ \ {e}]]
          /\ UNCHANGED <<hoje, licenca, estadual, monitora, mexidas>>
      BY <1>2, <1>4 DEF Adicionar
    <2>2. PICK entra, sai \in SUBSET Codigos :
            entra = sessao[s].entra \cup {e} /\ sai = sessao[s].sai \ {e}
      BY <1>1
    <2>3. PICK y : y = ComMudanca(z, entra, sai) /\ Troca(s, y)
      BY <1>3, <2>1, <2>2 DEF ComMudanca, Troca
    <2>4. QED
      BY <1>2, <2>1, <2>3, MudaCarteiraPreserva
  <1>5. CASE Remover(s, e)
    <2>1. /\ sessao' = [sessao EXCEPT ![s] =
                 [z EXCEPT !.sai = @ \cup {e}, !.entra = @ \ {e}]]
          /\ UNCHANGED <<hoje, licenca, estadual, monitora, mexidas>>
      BY <1>2, <1>5 DEF Remover
    <2>2. PICK entra, sai \in SUBSET Codigos :
            entra = sessao[s].entra \ {e} /\ sai = sessao[s].sai \cup {e}
      BY <1>1
    <2>3. PICK y : /\ y = [z EXCEPT !.sai = sai, !.entra = entra]
                   /\ Troca(s, y)
      BY <1>3, <2>1, <2>2 DEF Troca
    <2>4. y = ComMudanca(z, entra, sai)
      BY <2>3 DEF ComMudanca
    <2>5. QED
      BY <1>2, <2>1, <2>3, <2>4, MudaCarteiraPreserva
  <1>6. QED
    BY <1>4, <1>5

\* A commit that changes the portfolio meets every other request.
LEMMA FecharSessaoPreserva ==
    ASSUME IInvEscopo, NEW s \in Sessoes, FecharSessao(s)
    PROVE  IInvEscopo'
  <1>1. /\ monitora' = Visao(s) /\ UNCHANGED <<hoje, licenca, estadual>>
        /\ hoje \in Nat
    BY DEF FecharSessao, IInvEscopo, TiposEscopo, Dias
  <1>2. mexidas' \in 0..MaxMudancasEscopo
    BY EscopoAssumption DEF FecharSessao, IInvEscopo, TiposEscopo
  <1>3. monitora' \in SUBSET Codigos
    BY <1>1 DEF IInvEscopo, TiposEscopo, Sessao, Visao
  <1>4. PICK d \in SUBSET Codigos : d = CobertoHoje /\ d = CobertosPor(licenca, hoje)
    BY CobertosSao DEF IInvEscopo, TiposEscopo, CobertoHoje
  <1>5. CobertoHoje' = d
    BY <1>1, <1>4 DEF CobertoHoje
  <1>6. PICK outras \in [Sessoes -> Sessao] :
          /\ sessao' = [outras EXCEPT ![s] = SessaoFechada]
          /\ \A t \in Sessoes : SessaoBoa(outras[t], monitora', d, hoje)
    <2>1. CASE Visao(s) # monitora
      <3>1. sessao' = [Perturba(sessao, licenca) EXCEPT ![s] = SessaoFechada]
        BY <2>1 DEF FecharSessao
      <3>2. /\ Perturba(sessao, licenca) \in [Sessoes -> Sessao]
            /\ \A t \in Sessoes : SessaoBoa(Perturba(sessao, licenca)[t], monitora', d, hoje)
        BY <1>4, TodasPerturbadas
      <3>3. QED
        BY <3>1, <3>2
    <2>2. CASE Visao(s) = monitora
      <3>1. sessao' = [sessao EXCEPT ![s] = SessaoFechada]
        BY <2>2 DEF FecharSessao
      <3>2. sessao \in [Sessoes -> Sessao]
        BY DEF IInvEscopo, TiposEscopo
      <3>3. \A t \in Sessoes : SessaoBoa(sessao[t], monitora', d, hoje)
        BY <1>1, <1>4, <2>2 DEF IInvEscopo
      <3>4. QED
        BY <3>1, <3>2, <3>3
    <2>3. QED
      BY <2>1, <2>2
  <1>7. SessaoBoa(SessaoFechada, monitora', d, hoje) /\ SessaoFechada \in Sessao
    BY <1>1, FechadaBoa DEF SessaoBoa
  <1>8. /\ sessao' \in [Sessoes -> Sessao]
        /\ \A t \in Sessoes : SessaoBoa(sessao'[t], monitora', d, hoje)
    BY <1>6, <1>7
  <1>9. TiposEscopo'
    BY <1>1, <1>2, <1>3, <1>8 DEF IInvEscopo, TiposEscopo
  <1>10. QED
    BY <1>1, <1>5, <1>8, <1>9 DEF IInvEscopo

LEMMA InicioEscopo ==
    ASSUME InitEscopo
    PROVE  IInvEscopo
  <1>1. hoje = 0 /\ hoje \in Nat /\ hoje \in Dias
    BY EscopoAssumption DEF InitEscopo, Dias
  <1>2. SemLicenca \in Licenca
    BY EscopoAssumption DEF SemLicenca, Licenca, Dias
  <1>3. /\ SessaoBoa(SessaoFechada, monitora, CobertoHoje, hoje)
        /\ SessaoFechada \in Sessao
    BY <1>1, FechadaBoa DEF SessaoBoa
  <1>4. TiposEscopo
    BY <1>1, <1>2, <1>3, EscopoAssumption DEF TiposEscopo, InitEscopo
  <1>5. QED
    BY <1>3, <1>4 DEF IInvEscopo, InitEscopo

LEMMA EscopoPasso ==
    ASSUME IInvEscopo, [NextEscopo]_escopoVars
    PROVE  IInvEscopo'
  <1>1. CASE UNCHANGED escopoVars
    <2>1. CobertoHoje' = CobertoHoje
      BY <1>1 DEF escopoVars, CobertoHoje, CobertosPor, VigenteEm
    <2>2. QED
      BY <1>1, <2>1 DEF escopoVars, IInvEscopo, TiposEscopo
  <1>2. ASSUME NEW l \in Licencas,
               \/ \E a \in Alvos, i \in hoje..MaxDias, f \in Dias \cup {SemPrazo} :
                    ConcederLicenca(l, a, i, f)
               \/ \E st \in {"ativa", "suspensa"} : AlterarStatus(l, st)
               \/ \E f \in Dias : AlterarPrazo(l, f)
        PROVE  IInvEscopo'
    BY <1>2, LicencasPreservam
  <1>3. CASE VirarDia
    BY <1>3, VirarDiaPreserva
  <1>4. ASSUME NEW s \in Sessoes, AbrirSessao(s) \/ Agregar(s) \/ FecharSessao(s)
        PROVE  IInvEscopo'
    BY <1>4, AbrirSessaoPreserva, AgregarPreserva, FecharSessaoPreserva
  <1>5. ASSUME NEW s \in Sessoes, NEW e \in Codigos,
               PassarPortao(s, e) \/ Adicionar(s, e) \/ Remover(s, e)
        PROVE  IInvEscopo'
    BY <1>5, PassarPortaoPreserva, CarteiraPreserva
  <1>6. QED
    BY <1>1, <1>2, <1>3, <1>4, <1>5 DEF NextEscopo

\* The inductive invariant holds in every reachable state of the scope: types,
\* what requests memorised and what they showed (shared/scope.py).
THEOREM EscopoInvariante == SpecEscopo => []IInvEscopo
  <1>1. InitEscopo => IInvEscopo
    BY InicioEscopo
  <1>2. IInvEscopo /\ [NextEscopo]_escopoVars => IInvEscopo'
    BY EscopoPasso
  <1>3. QED
    BY <1>1, <1>2, PTL DEF SpecEscopo

\* A suspension holds at once: what a request shows was covered today, whatever
\* it memorised and whatever midnight it crossed (shared/scope.py, 85-115).
THEOREM SuspensaoNaHoraSempre == SpecEscopo => []SuspensaoNaHora
  <1>1. IInvEscopo => SuspensaoNaHora
    BY DEF IInvEscopo, SuspensaoNaHora, SessaoBoa, MostrouCoberto
  <1>2. QED
    BY <1>1, EscopoInvariante, PTL

\* The gate of one entity and the set of the aggregated views agree, for any
\* portfolio, licences and memory (shared/scope.py).
THEOREM DrillCoerenteSempre == SpecEscopo => []DrillCoerente
  <1>1. IInvEscopo => DrillCoerente
    <2> SUFFICES ASSUME IInvEscopo, NEW s \in Sessoes,
                        sessao[s].aberta, sessao[s].sozinha, NEW e \in Codigos
                 PROVE  Portao(s, e) <=> e \in Agregado(s)
      BY DEF DrillCoerente
    <2>1. Fiel(sessao[s], monitora, CobertoHoje, hoje)
      BY DEF IInvEscopo, SessaoBoa
    <2>2. CarteiraIbges(s) = Visao(s)
      BY <2>1 DEF CarteiraIbges, Visao, Fiel, VisaoDe
    <2>3. \A u \in Estados : u \in EstadoPrefixes(s) <=> u \in Visao(s)
      BY <2>1, <2>2 DEF EstadoPrefixes, Visao, Fiel, VisaoDe
    <2>4. QED
      BY <2>2 DEF Portao, NoEscopo, Agregado
  <1>2. QED
    BY <1>1, EscopoInvariante, PTL

-----------------------------------------------------------------------------
(* The case of a failed check                                              *)

\* What the facts gathered so far say of a row.
FatosDe(x, f, c) ==
    /\ x.resultado = "fonte_tem" => "fonte_tem" \in f
    /\ x.resultado = "fonte_nao_tem" => "fonte_nao_tem" \in f
    /\ c = "cobertura" /\ x.status = "aceita_como_fato" => "fonte_nao_tem" \in f
    /\ x.status = "resolvida" => "reexecucao_ok" \in f

\* A request read a row that the facts bear out and writes another; it asks for a
\* load only when the source said that it has the period, and what it writes
\* keeps the attempts it read.
CliqueBom(x, f, c) ==
    /\ FatosDe(x.viu, f, c) /\ FatosDe(x.grava, f, c)
    /\ x.fase # "livre" => x.viu.status \notin Encerrados
    /\ x.viu.tentativas \subseteq x.grava.tentativas
    /\ x.fase \in {"lido", "carregando"} => x.grava = x.viu
    /\ x.fase = "pronto" /\ x.acao = "reingerir" => "carga" \in x.grava.tentativas
    /\ x.fase = "pronto" /\ x.acao = "rematerializar" => x.grava.status \in {"resolvida", "acao_aplicada"}
    /\ x.fase # "livre" /\ x.acao = "aceitar_como_fato" /\ c = "cobertura" => "fonte_nao_tem" \in f
    /\ x.fase # "livre" /\ x.acao = "reingerir" => c = "cobertura" /\ "fonte_tem" \in f
    /\ x.fase # "livre" /\ x.acao = "rematerializar" => c # "cobertura"
    /\ x.fase = "carregando" => x.acao = "reingerir"

FatosBons ==
    /\ FatosDe(caso, apurou, classe)
    /\ cargas > 0 => "fonte_tem" \in apurou
    /\ \A q \in Cliques : CliqueBom(clique[q], apurou, classe)
    /\ classe = "cobertura" => veredito = "falha"

IInvFatos == TypeOKResolucao /\ FatosBons

LEMMA SemCasoBom ==
    ASSUME NEW f, NEW c
    PROVE  SemCaso \in Caso /\ FatosDe(SemCaso, f, c)
  BY DEF SemCaso, Caso, FatosDe, StatusCaso, Resultados

LEMMA LivreBom ==
    ASSUME NEW f, NEW c
    PROVE  CliqueLivre \in Clique /\ CliqueBom(CliqueLivre, f, c)
  BY SemCasoBom DEF CliqueLivre, Clique, CliqueBom, Acoes

\* Facts are gathered, never lost.
LEMMA FatosFicam ==
    ASSUME NEW f, NEW g, f \subseteq g, NEW c, NEW x, FatosDe(x, f, c)
    PROVE  FatosDe(x, g, c)
  BY DEF FatosDe

LEMMA CliqueFica ==
    ASSUME NEW f, NEW g, f \subseteq g, NEW c, NEW x, CliqueBom(x, f, c)
    PROVE  CliqueBom(x, g, c)
  BY FatosFicam DEF CliqueBom

\* One request changes, with what it learnt.
Muda(q, y) == clique' = [clique EXCEPT ![q] = y]

LEMMA UmClique ==
    ASSUME IInvFatos, NEW q \in Cliques, NEW y \in Clique, Muda(q, y),
           apurou \subseteq apurou', apurou' \subseteq Resultados \cup {"reexecucao_ok"},
           CliqueBom(y, apurou', classe),
           cargas' \in 0..MaxCargas, cliques' \in 0..MaxCliques, cruzados' \in 0..cliques',
           quedasResolucao' \in 0..MaxQuedasResolucao,
           cargas' > 0 => "fonte_tem" \in apurou',
           UNCHANGED <<classe, veredito, caso>>
    PROVE  IInvFatos'
  <1>1. /\ clique \in [Cliques -> Clique]
        /\ \A p \in Cliques : CliqueBom(clique[p], apurou, classe)
    BY DEF IInvFatos, TypeOKResolucao, FatosBons
  <1>2. /\ clique' \in [Cliques -> Clique]
        /\ \A p \in Cliques : clique'[p] = clique[p] \/ clique'[p] = y
    BY <1>1 DEF Muda
  <1>3. \A p \in Cliques : CliqueBom(clique'[p], apurou', classe)
    BY <1>1, <1>2, CliqueFica
  <1>4. FatosDe(caso, apurou', classe)
    BY FatosFicam DEF IInvFatos, FatosBons
  <1>5. TypeOKResolucao'
    BY <1>2 DEF IInvFatos, TypeOKResolucao
  <1>6. FatosBons'
    BY <1>3, <1>4 DEF IInvFatos, FatosBons
  <1>7. QED
    BY <1>5, <1>6 DEF IInvFatos

LEMMA LidaBoa ==
    ASSUME IInvFatos
    PROVE  Lida \in Caso /\ FatosDe(Lida, apurou, classe)
  <1>1. caso \in Caso /\ FatosDe(caso, apurou, classe)
    BY DEF IInvFatos, TypeOKResolucao, FatosBons
  <1>2. [SemCaso EXCEPT !.status = "aberta"] \in Caso
    BY SemCasoBom DEF Caso, StatusCaso
  <1>3. FatosDe([SemCaso EXCEPT !.status = "aberta"], apurou, classe)
    BY DEF SemCaso, FatosDe
  <1>4. QED
    BY <1>1, <1>2, <1>3 DEF Lida

LEMMA LerPreserva ==
    ASSUME IInvFatos, NEW q \in Cliques, NEW a \in Acoes, Ler(q, a)
    PROVE  IInvFatos'
  <1>1. PICK x \in Caso : x = Lida /\ FatosDe(x, apurou, classe)
    BY LidaBoa
  <1>2. a \in Cabiveis(x)
    BY <1>1 DEF Ler
  <1>3. classe \in Classes /\ x.status \notin Encerrados
    BY <1>2 DEF IInvFatos, TypeOKResolucao, Cabiveis
  <1>4. /\ a = "reingerir" => classe = "cobertura" /\ "fonte_tem" \in apurou
        /\ a = "rematerializar" => classe # "cobertura"
        /\ a = "aceitar_como_fato" /\ classe = "cobertura" => "fonte_nao_tem" \in apurou
    BY <1>1, <1>2, <1>3 DEF Cabiveis, AcoesPorClasse, AcoesDaCobertura, FatosDe, Classes
  <1>5. PICK ins \in BOOLEAN : ins = (caso = SemCaso)
    OBVIOUS
  <1>6. PICK y \in Clique :
          y = [fase |-> "lido", acao |-> a, viu |-> x, grava |-> x, insere |-> ins]
    BY <1>1, <1>5 DEF Clique
  <1>7. CliqueBom(y, apurou, classe)
    BY <1>1, <1>3, <1>4, <1>6 DEF CliqueBom
  <1>8. Muda(q, y)
    BY <1>1, <1>5, <1>6 DEF Ler, Muda
  <1>9. cliques' \in 0..MaxCliques /\ cruzados' \in 0..cliques'
    BY ResolucaoAssumption DEF Ler, IInvFatos, TypeOKResolucao
  <1>10. UNCHANGED <<classe, veredito, caso, cargas, apurou, quedasResolucao>>
    BY DEF Ler
  <1>11. QED
    BY <1>7, <1>8, <1>9, <1>10, UmClique DEF IInvFatos, TypeOKResolucao, FatosBons

\* A request that has what it will write.
LEMMA ProntoPreserva ==
    ASSUME IInvFatos, NEW q \in Cliques, NEW g \in Caso,
           NEW y, y = [clique[q] EXCEPT !.fase = "pronto", !.grava = g], Muda(q, y),
           clique[q].fase # "livre",
           clique[q].viu.tentativas \subseteq g.tentativas,
           clique[q].acao = "reingerir" => "carga" \in g.tentativas,
           clique[q].acao = "rematerializar" => g.status \in {"resolvida", "acao_aplicada"},
           apurou \subseteq apurou', apurou' \subseteq Resultados \cup {"reexecucao_ok"},
           FatosDe(g, apurou', classe),
           UNCHANGED <<classe, veredito, caso, cargas, cliques, cruzados, quedasResolucao>>
    PROVE  IInvFatos'
  <1>1. clique[q] \in Clique /\ CliqueBom(clique[q], apurou, classe)
    BY DEF IInvFatos, TypeOKResolucao, FatosBons
  <1>2. /\ y \in Clique /\ y.fase = "pronto" /\ y.grava = g
        /\ y.acao = clique[q].acao /\ y.viu = clique[q].viu
    BY <1>1 DEF Clique
  <1>3. CliqueBom(clique[q], apurou', classe)
    BY <1>1, CliqueFica
  <1>4. CliqueBom(y, apurou', classe)
    BY <1>2, <1>3 DEF CliqueBom
  <1>5. QED
    BY <1>2, <1>4, UmClique DEF IInvFatos, TypeOKResolucao, FatosBons

LEMMA AceitarPreserva ==
    ASSUME IInvFatos, NEW q \in Cliques, Aceitar(q)
    PROVE  IInvFatos'
  <1>1. PICK x \in Caso : x = clique[q].viu /\ FatosDe(x, apurou, classe)
    BY DEF IInvFatos, TypeOKResolucao, FatosBons, CliqueBom, Clique
  <1>2. PICK g \in Caso : g = [x EXCEPT !.status = "aceita_como_fato"]
    BY DEF Caso, StatusCaso, Encerrados
  <1>3. /\ g.tentativas = x.tentativas /\ g.resultado = x.resultado
        /\ g.status = "aceita_como_fato"
    BY <1>2 DEF Caso
  <1>4. classe = "cobertura" => "fonte_nao_tem" \in apurou
    BY DEF IInvFatos, FatosBons, CliqueBom, Aceitar
  <1>5. FatosDe(g, apurou, classe)
    BY <1>1, <1>3, <1>4 DEF FatosDe
  <1>6. PICK y : y = [clique[q] EXCEPT !.fase = "pronto", !.grava = g] /\ Muda(q, y)
    <2>1. clique' = [clique EXCEPT ![q].fase = "pronto", ![q].grava = g]
      BY <1>1, <1>2 DEF Aceitar, Pronto
    <2>2. QED
      BY <2>1 DEF Muda
  <1>7. /\ clique[q].fase = "lido" /\ clique[q].acao = "aceitar_como_fato"
        /\ UNCHANGED <<classe, veredito, caso, cargas, apurou, cliques, cruzados,
                       quedasResolucao>>
    BY DEF Aceitar
  <1>8. QED
    BY <1>1, <1>3, <1>5, <1>6, <1>7, ProntoPreserva DEF IInvFatos, TypeOKResolucao

LEMMA VerificarPreserva ==
    ASSUME IInvFatos, NEW q \in Cliques, NEW r \in Resultados, VerificarNaFonte(q, r)
    PROVE  IInvFatos'
  <1>1. PICK x \in Caso : /\ x = clique[q].viu /\ FatosDe(x, apurou, classe)
                          /\ x.status \notin Encerrados
    BY DEF IInvFatos, TypeOKResolucao, FatosBons, CliqueBom, Clique, VerificarNaFonte
  <1>2. PICK g \in Caso : g = [x EXCEPT !.status = "diagnosticada", !.resultado = r]
    BY DEF Caso, StatusCaso
  <1>3. /\ g.tentativas = x.tentativas /\ g.resultado = r /\ g.status = "diagnosticada"
    BY <1>2 DEF Caso
  <1>4. apurou' = apurou \cup {r}
    BY DEF VerificarNaFonte
  <1>5. FatosDe(g, apurou', classe)
    BY <1>3, <1>4 DEF FatosDe
  <1>6. PICK y : y = [clique[q] EXCEPT !.fase = "pronto", !.grava = g] /\ Muda(q, y)
    <2>1. clique' = [clique EXCEPT ![q].fase = "pronto", ![q].grava = g]
      BY <1>1, <1>2 DEF VerificarNaFonte, Pronto
    <2>2. QED
      BY <2>1 DEF Muda
  <1>7. /\ clique[q].fase = "lido" /\ clique[q].acao = "verificar_na_fonte"
        /\ UNCHANGED <<classe, veredito, caso, cargas, cliques, cruzados, quedasResolucao>>
    BY DEF VerificarNaFonte
  <1>8. apurou \subseteq apurou' /\ apurou' \subseteq Resultados \cup {"reexecucao_ok"}
    BY <1>4 DEF IInvFatos, TypeOKResolucao
  <1>9. QED
    BY <1>1, <1>3, <1>5, <1>6, <1>7, <1>8, ProntoPreserva

LEMMA RematerializarPreserva ==
    ASSUME IInvFatos, NEW q \in Cliques, NEW v \in {"falha", "ok"}, Rematerializar(q, v)
    PROVE  IInvFatos'
  <1>1. PICK x \in Caso : x = clique[q].viu /\ FatosDe(x, apurou, classe)
    BY DEF IInvFatos, TypeOKResolucao, FatosBons, CliqueBom, Clique
  <1>2. PICK t \in SUBSET {"carga", "remat_falhou"} :
          /\ t = IF v = "ok" THEN x.tentativas ELSE x.tentativas \cup {"remat_falhou"}
          /\ x.tentativas \subseteq t
    <2>1. x.tentativas \in SUBSET {"carga", "remat_falhou"}
      BY DEF Caso
    <2>2. x.tentativas \cup {"remat_falhou"} \in SUBSET {"carga", "remat_falhou"}
      BY <2>1
    <2>3. CASE v = "ok"
      BY <2>1, <2>3
    <2>4. CASE v # "ok"
      BY <2>2, <2>4
    <2>5. QED
      BY <2>3, <2>4
  <1>3. PICK g \in Caso : g = [x EXCEPT !.status = StatusDoVeredito(v), !.tentativas = t]
    BY DEF Caso, StatusCaso, Encerrados, StatusDoVeredito
  <1>4. /\ g.tentativas = t /\ g.resultado = x.resultado
        /\ g.status = IF v = "ok" THEN "resolvida" ELSE "acao_aplicada"
    BY <1>3 DEF Caso, StatusDoVeredito
  <1>5. apurou' = IF v = "ok" THEN apurou \cup {"reexecucao_ok"} ELSE apurou
    BY DEF Rematerializar
  <1>6. FatosDe(g, apurou', classe)
    BY <1>1, <1>4, <1>5 DEF FatosDe
  <1>7. PICK y : y = [clique[q] EXCEPT !.fase = "pronto", !.grava = g] /\ Muda(q, y)
    <2>1. clique' = [clique EXCEPT ![q].fase = "pronto", ![q].grava =
            [x EXCEPT !.status = StatusDoVeredito(v),
                      !.tentativas = IF v = "ok" THEN @ ELSE @ \cup {"remat_falhou"}]]
      BY <1>1 DEF Rematerializar, Pronto
    <2>2. clique' = [clique EXCEPT ![q].fase = "pronto", ![q].grava = g]
      BY <1>2, <1>3, <2>1
    <2>3. QED
      BY <2>2 DEF Muda
  <1>8. /\ clique[q].fase = "lido" /\ clique[q].acao = "rematerializar"
        /\ UNCHANGED <<classe, veredito, caso, cargas, cliques, cruzados, quedasResolucao>>
    BY DEF Rematerializar
  <1>9. apurou \subseteq apurou' /\ apurou' \subseteq Resultados \cup {"reexecucao_ok"}
    BY <1>5 DEF IInvFatos, TypeOKResolucao
  <1>10. QED
    BY <1>1, <1>2, <1>4, <1>6, <1>7, <1>8, <1>9, ProntoPreserva

LEMMA ReingerirPreserva ==
    ASSUME IInvFatos, NEW q \in Cliques, Reingerir(q)
    PROVE  IInvFatos'
  <1>1. clique[q] \in Clique /\ CliqueBom(clique[q], apurou, classe)
    BY DEF IInvFatos, TypeOKResolucao, FatosBons
  <1>2. PICK y \in Clique : /\ y = [clique[q] EXCEPT !.fase = "carregando"]
                            /\ y.fase = "carregando" /\ y.acao = clique[q].acao
                            /\ y.viu = clique[q].viu /\ y.grava = clique[q].grava
    <2>1. PICK y \in Clique : y = [clique[q] EXCEPT !.fase = "carregando"]
      BY <1>1 DEF Clique
    <2>2. /\ y.fase = "carregando" /\ y.acao = clique[q].acao
          /\ y.viu = clique[q].viu /\ y.grava = clique[q].grava
      BY <1>1, <2>1 DEF Clique
    <2>3. QED
      BY <2>1, <2>2
  <1>3. clique[q].fase = "lido" /\ clique[q].acao = "reingerir"
    BY DEF Reingerir
  <1>4. CliqueBom(y, apurou, classe) /\ "fonte_tem" \in apurou
    BY <1>1, <1>2, <1>3 DEF CliqueBom
  <1>5. Muda(q, y)
    BY <1>2 DEF Reingerir, Muda
  <1>6. cargas' \in 0..MaxCargas
    BY ResolucaoAssumption DEF Reingerir, IInvFatos, TypeOKResolucao
  <1>7. UNCHANGED <<classe, veredito, caso, apurou, cliques, cruzados, quedasResolucao>>
    BY DEF Reingerir
  <1>8. QED
    BY <1>4, <1>5, <1>6, <1>7, UmClique DEF IInvFatos, TypeOKResolucao

LEMMA RegistrarCargaPreserva ==
    ASSUME IInvFatos, NEW q \in Cliques, RegistrarCarga(q)
    PROVE  IInvFatos'
  <1>1. PICK x \in Caso : /\ x = clique[q].viu /\ FatosDe(x, apurou, classe)
                          /\ x.status \notin Encerrados
    BY DEF IInvFatos, TypeOKResolucao, FatosBons, CliqueBom, Clique, RegistrarCarga
  <1>2. PICK t \in SUBSET {"carga", "remat_falhou"} : t = x.tentativas \cup {"carga"}
    BY DEF Caso
  <1>3. PICK g \in Caso : g = [x EXCEPT !.status = "acao_aplicada", !.tentativas = t]
    BY DEF Caso, StatusCaso
  <1>4. g.tentativas = t /\ g.resultado = x.resultado /\ g.status = "acao_aplicada"
    BY <1>3 DEF Caso
  <1>5. FatosDe(g, apurou, classe)
    BY <1>1, <1>4 DEF FatosDe
  <1>6. PICK y : y = [clique[q] EXCEPT !.fase = "pronto", !.grava = g] /\ Muda(q, y)
    <2>1. clique' = [clique EXCEPT ![q].fase = "pronto", ![q].grava =
            [x EXCEPT !.status = "acao_aplicada", !.tentativas = @ \cup {"carga"}]]
      BY <1>1 DEF RegistrarCarga, Pronto
    <2>2. clique' = [clique EXCEPT ![q].fase = "pronto", ![q].grava = g]
      BY <1>2, <1>3, <2>1
    <2>3. QED
      BY <2>2 DEF Muda
  <1>7. /\ clique[q].fase = "carregando" /\ clique[q].acao = "reingerir"
        /\ UNCHANGED <<classe, veredito, caso, cargas, apurou, cliques, cruzados,
                       quedasResolucao>>
    BY DEF RegistrarCarga, IInvFatos, FatosBons, CliqueBom
  <1>8. QED
    BY <1>1, <1>2, <1>4, <1>5, <1>6, <1>7, ProntoPreserva DEF IInvFatos, TypeOKResolucao

LEMMA CairPreserva ==
    ASSUME IInvFatos, NEW q \in Cliques, CairClique(q)
    PROVE  IInvFatos'
  <1>1. PICK y \in Clique : y = CliqueLivre /\ CliqueBom(y, apurou, classe)
    BY LivreBom
  <1>2. Muda(q, y)
    BY <1>1 DEF CairClique, Muda
  <1>3. quedasResolucao' \in 0..MaxQuedasResolucao
    BY ResolucaoAssumption DEF CairClique, IInvFatos, TypeOKResolucao
  <1>4. UNCHANGED <<classe, veredito, caso, cargas, apurou, cliques, cruzados>>
    BY DEF CairClique
  <1>5. QED
    BY <1>1, <1>2, <1>3, <1>4, UmClique DEF IInvFatos, TypeOKResolucao, FatosBons

\* What is committed takes each column from rows that the facts bear out.
LEMMA ConfirmarPreserva ==
    ASSUME IInvFatos, NEW q \in Cliques, ConfirmarClique(q)
    PROVE  IInvFatos'
  <1>1. PICK x, g \in Caso :
          /\ x = clique[q].viu /\ g = clique[q].grava
          /\ FatosDe(x, apurou, classe) /\ FatosDe(g, apurou, classe)
    BY DEF IInvFatos, TypeOKResolucao, FatosBons, CliqueBom, Clique
  <1>2. caso \in Caso /\ FatosDe(caso, apurou, classe)
    BY DEF IInvFatos, TypeOKResolucao, FatosBons
  <1>3. caso' \in Caso /\ FatosDe(caso', apurou, classe)
    <2>1. caso' = IF clique[q].insere THEN g
                  ELSE [status |-> Mudada(g.status, x.status, caso.status),
                        resultado |-> Mudada(g.resultado, x.resultado, caso.resultado),
                        tentativas |-> g.tentativas]
      BY <1>1 DEF ConfirmarClique, Gravado
    <2>2. CASE clique[q].insere
      BY <1>1, <2>1, <2>2
    <2>3. CASE ~clique[q].insere
      <3>1. PICK st \in StatusCaso : /\ st = Mudada(g.status, x.status, caso.status)
                                     /\ st \in {g.status, caso.status}
        BY <1>1, <1>2 DEF Mudada, Caso
      <3>2. PICK r \in Resultados : /\ r = Mudada(g.resultado, x.resultado, caso.resultado)
                                    /\ r \in {g.resultado, caso.resultado}
        BY <1>1, <1>2 DEF Mudada, Caso
      <3>3. caso' = [status |-> st, resultado |-> r, tentativas |-> g.tentativas]
        BY <2>1, <2>3, <3>1, <3>2
      <3>4. caso' \in Caso
        BY <1>1, <3>3 DEF Caso
      <3>5. FatosDe(caso', apurou, classe)
        BY <1>1, <1>2, <3>1, <3>2, <3>3 DEF FatosDe
      <3>6. QED
        BY <3>4, <3>5
    <2>4. QED
      BY <2>2, <2>3
  <1>4. /\ veredito' \in {"falha", "ok"}
        /\ classe = "cobertura" => veredito' = "falha"
    BY DEF ConfirmarClique, IInvFatos, TypeOKResolucao, FatosBons, CliqueBom
  <1>5. /\ clique' \in [Cliques -> Clique]
        /\ \A p \in Cliques : clique'[p] = clique[p] \/ clique'[p] = CliqueLivre
    BY LivreBom DEF ConfirmarClique, IInvFatos, TypeOKResolucao
  <1>6. \A p \in Cliques : CliqueBom(clique'[p], apurou, classe)
    BY <1>5, LivreBom DEF IInvFatos, FatosBons
  <1>7. UNCHANGED <<classe, cargas, apurou, cliques, cruzados, quedasResolucao>>
    BY DEF ConfirmarClique
  <1>8. TypeOKResolucao'
    BY <1>3, <1>4, <1>5, <1>7 DEF IInvFatos, TypeOKResolucao
  <1>9. FatosBons'
    BY <1>3, <1>4, <1>6, <1>7 DEF IInvFatos, FatosBons
  <1>10. QED
    BY <1>8, <1>9 DEF IInvFatos

LEMMA ReavaliarPreserva ==
    ASSUME IInvFatos, NEW v \in {"falha", "ok"}, Reavaliar(v)
    PROVE  IInvFatos'
  <1>1. TypeOKResolucao'
    BY DEF IInvFatos, TypeOKResolucao, Reavaliar
  <1>2. FatosBons'
    BY DEF IInvFatos, FatosBons, Reavaliar
  <1>3. QED
    BY <1>1, <1>2 DEF IInvFatos

LEMMA FatosInit == InitResolucao => IInvFatos
  <1>1. ASSUME InitResolucao PROVE IInvFatos
    <2>1. TypeOKResolucao
      BY <1>1, SemCasoBom, LivreBom, ResolucaoAssumption DEF InitResolucao, TypeOKResolucao
    <2>2. FatosBons
      BY <1>1, SemCasoBom, LivreBom DEF InitResolucao, FatosBons
    <2>3. QED
      BY <2>1, <2>2 DEF IInvFatos
  <1>2. QED
    BY <1>1

LEMMA FatosPasso == IInvFatos /\ [NextResolucao]_resolucaoVars => IInvFatos'
  <1> SUFFICES ASSUME IInvFatos, [NextResolucao]_resolucaoVars PROVE IInvFatos'
    OBVIOUS
  <1>1. CASE UNCHANGED resolucaoVars
    BY <1>1 DEF resolucaoVars, IInvFatos, TypeOKResolucao, FatosBons
  <1>2. CASE \E v \in {"falha", "ok"} : Reavaliar(v)
    BY <1>2, ReavaliarPreserva
  <1>3. ASSUME NEW q \in Cliques,
               \/ \E a \in Acoes : Ler(q, a)
               \/ Aceitar(q)
               \/ \E r \in Resultados : VerificarNaFonte(q, r)
               \/ \E v \in {"falha", "ok"} : Rematerializar(q, v)
               \/ Reingerir(q) \/ RegistrarCarga(q)
               \/ CairClique(q) \/ ConfirmarClique(q)
        PROVE  IInvFatos'
    BY <1>3, LerPreserva, AceitarPreserva, VerificarPreserva, RematerializarPreserva,
       ReingerirPreserva, RegistrarCargaPreserva, CairPreserva, ConfirmarPreserva
  <1>4. QED
    BY <1>1, <1>2, <1>3 DEF NextResolucao

\* The facts behind every row and every request of a case.
THEOREM ResolucaoInvariante == SpecResolucao => []IInvFatos
  BY FatosInit, FatosPasso, PTL DEF SpecResolucao

\* A load, an acceptance and a resolution each rest on the fact they need.
THEOREM SoComFatoSempre == SpecResolucao => []SoComFato
  <1>1. IInvFatos => SoComFato
    BY DEF IInvFatos, FatosBons, FatosDe, SoComFato
  <1>2. QED
    BY <1>1, ResolucaoInvariante, PTL

-----------------------------------------------------------------------------
(* How many loads one case can cost                                         *)

PedeCarga(x) == x.fase = "lido" /\ x.acao = "reingerir"
PedidosDeCarga(c) == {q \in Cliques : PedeCarga(c[q])}
Aberta(x) == x.fase # "livre"
Trata(x) == x.acao = "reingerir" \/ "carga" \in x.viu.tentativas

\* No request is left that could ask for one more load: each open one is already
\* counted or read a row that records a load, and so will the next one, or find
\* a counted one open.
Esgotado(c, t) ==
    /\ \A q \in Cliques : Aberta(c[q]) => Trata(c[q])
    /\ "carga" \in t \/ \E q \in Cliques : Aberta(c[q]) /\ c[q].acao = "reingerir"

Contas(n, limite, c, t) ==
    /\ n + Cardinality(PedidosDeCarga(c)) <= limite
    /\ n + Cardinality(PedidosDeCarga(c)) = limite => Esgotado(c, t)

LimiteCargas == 1 + cruzados + quedasResolucao
IInvCargas == IInvFatos /\ Contas(cargas, LimiteCargas, clique, caso.tentativas)

LEMMA PedidosFinitos ==
    ASSUME NEW c
    PROVE  IsFiniteSet(PedidosDeCarga(c)) /\ Cardinality(PedidosDeCarga(c)) \in Nat
  <1>1. PedidosDeCarga(c) \subseteq Cliques
    BY DEF PedidosDeCarga
  <1>2. QED
    BY <1>1, FS_Subset, FS_CardinalityType, ResolucaoAssumption

Vira(c, d, q, y) == d = [c EXCEPT ![q] = y]

\* One request changed: the set of those about to ask for a load follows.
LEMMA PedidosMudam ==
    ASSUME NEW c \in [Cliques -> Clique], NEW q \in Cliques, NEW y, NEW d, Vira(c, d, q, y)
    PROVE  /\ (PedeCarga(y) <=> PedeCarga(c[q])) =>
                 Cardinality(PedidosDeCarga(d)) = Cardinality(PedidosDeCarga(c))
           /\ PedeCarga(y) /\ ~PedeCarga(c[q]) =>
                 Cardinality(PedidosDeCarga(d)) = Cardinality(PedidosDeCarga(c)) + 1
           /\ ~PedeCarga(y) /\ PedeCarga(c[q]) =>
                 Cardinality(PedidosDeCarga(d)) = Cardinality(PedidosDeCarga(c)) - 1
  <1>1. d[q] = y /\ \A p \in Cliques \ {q} : d[p] = c[p]
    BY DEF Vira
  <1>2. (PedeCarga(y) <=> PedeCarga(c[q])) => PedidosDeCarga(d) = PedidosDeCarga(c)
    BY <1>1 DEF PedidosDeCarga
  <1>3. ASSUME PedeCarga(y), ~PedeCarga(c[q])
        PROVE  Cardinality(PedidosDeCarga(d)) = Cardinality(PedidosDeCarga(c)) + 1
    <2>1. PedidosDeCarga(d) = PedidosDeCarga(c) \cup {q} /\ q \notin PedidosDeCarga(c)
      BY <1>1, <1>3 DEF PedidosDeCarga
    <2>2. QED
      BY <2>1, PedidosFinitos, FS_AddElement
  <1>4. ASSUME ~PedeCarga(y), PedeCarga(c[q])
        PROVE  Cardinality(PedidosDeCarga(d)) = Cardinality(PedidosDeCarga(c)) - 1
    <2>1. PedidosDeCarga(d) = PedidosDeCarga(c) \ {q} /\ q \in PedidosDeCarga(c)
      BY <1>1, <1>4 DEF PedidosDeCarga
    <2>2. QED
      BY <2>1, PedidosFinitos, FS_RemoveElement
  <1>5. QED
    BY <1>2, <1>3, <1>4

\* A request that goes on keeps its action and what it read.
LEMMA EsgotadoSegue ==
    ASSUME NEW c \in [Cliques -> Clique], NEW q \in Cliques, NEW y, NEW d, NEW t,
           d = [c EXCEPT ![q] = y], Aberta(c[q]), Aberta(y),
           y.acao = c[q].acao, y.viu = c[q].viu, Esgotado(c, t)
    PROVE  Esgotado(d, t)
  <1>1. \A p \in Cliques : /\ Aberta(d[p]) <=> Aberta(c[p])
                           /\ d[p].acao = c[p].acao /\ d[p].viu = c[p].viu
    OBVIOUS
  <1>2. QED
    BY <1>1 DEF Esgotado, Trata

\* A request that ends leaves the others, and the row if it was not counted.
LEMMA EsgotadoEncerra ==
    ASSUME NEW c \in [Cliques -> Clique], NEW q \in Cliques, NEW d, NEW t, NEW u,
           d = [c EXCEPT ![q] = CliqueLivre], Aberta(c[q]), Esgotado(c, t),
           \/ "carga" \in u
           \/ u = t /\ c[q].acao # "reingerir"
    PROVE  Esgotado(d, u)
  <1>1. d[q] = CliqueLivre /\ \A p \in Cliques \ {q} : d[p] = c[p]
    OBVIOUS
  <1>2. ~Aberta(CliqueLivre)
    BY DEF Aberta, CliqueLivre
  <1>3. \A p \in Cliques : Aberta(d[p]) => p # q /\ d[p] = c[p]
    BY <1>1, <1>2
  <1>4. \A p \in Cliques : Aberta(d[p]) => Trata(d[p])
    BY <1>3 DEF Esgotado
  <1>5. "carga" \in u \/ \E p \in Cliques : Aberta(d[p]) /\ d[p].acao = "reingerir"
    BY <1>1 DEF Esgotado
  <1>6. QED
    BY <1>4, <1>5 DEF Esgotado

Numeros ==
    /\ clique \in [Cliques -> Clique]
    /\ cargas \in Nat /\ cruzados \in Nat /\ quedasResolucao \in Nat
    /\ LimiteCargas \in Nat /\ Cardinality(PedidosDeCarga(clique)) \in Nat

LEMMA NumerosTipos == IInvFatos => Numeros
  BY PedidosFinitos, ResolucaoAssumption DEF IInvFatos, TypeOKResolucao, Numeros, LimiteCargas

\* Every step on a request that stays open and is not Ler or Reingerir.
LEMMA SeguirConta ==
    ASSUME IInvCargas, NEW q \in Cliques, NEW y, Muda(q, y),
           Aberta(clique[q]), Aberta(y), y.acao = clique[q].acao, y.viu = clique[q].viu,
           PedeCarga(y) <=> PedeCarga(clique[q]),
           UNCHANGED <<caso, cargas, cruzados, quedasResolucao>>
    PROVE  Contas(cargas, LimiteCargas, clique, caso.tentativas)'
  <1>1. Numeros /\ Contas(cargas, LimiteCargas, clique, caso.tentativas)
    BY NumerosTipos DEF IInvCargas
  <1>2. PICK d : /\ d = clique' /\ d = [clique EXCEPT ![q] = y]
                 /\ Vira(clique, d, q, y)
    BY DEF Muda, Vira
  <1>3. Cardinality(PedidosDeCarga(d)) = Cardinality(PedidosDeCarga(clique))
    BY <1>1, <1>2, PedidosMudam DEF Numeros
  <1>4. Esgotado(clique, caso.tentativas) => Esgotado(d, caso.tentativas)
    BY <1>1, <1>2, EsgotadoSegue DEF Numeros
  <1>5. QED
    BY <1>1, <1>2, <1>3, <1>4 DEF Contas, LimiteCargas

LEMMA LerConta ==
    ASSUME IInvCargas, NEW q \in Cliques, NEW a \in Acoes, Ler(q, a)
    PROVE  Contas(cargas, LimiteCargas, clique, caso.tentativas)'
  <1>1. Numeros /\ Contas(cargas, LimiteCargas, clique, caso.tentativas) /\ IInvFatos
    BY NumerosTipos DEF IInvCargas
  <1>2. PICK x : x = Lida
    OBVIOUS
  <1>3. PICK y : /\ clique' = [clique EXCEPT ![q] = y]
                 /\ y = [fase |-> "lido", acao |-> a, viu |-> x, grava |-> x,
                         insere |-> caso = SemCaso]
    BY <1>2 DEF Ler
  <1>4. /\ Aberta(y) /\ y.acao = a /\ y.viu = x
        /\ PedeCarga(y) <=> a = "reingerir"
    BY <1>3 DEF Aberta, PedeCarga
  <1>5. ~Aberta(clique[q]) /\ ~PedeCarga(clique[q])
    BY DEF Ler, Aberta, PedeCarga
  <1>6. PICK d : /\ d = clique' /\ d = [clique EXCEPT ![q] = y]
                 /\ Vira(clique, d, q, y)
    BY <1>3 DEF Vira
  <1>7. d[q] = y /\ \A p \in Cliques \ {q} : d[p] = clique[p]
    BY <1>1, <1>6 DEF Numeros
  <1>8. /\ a = "reingerir" => Cardinality(PedidosDeCarga(d)) = Cardinality(PedidosDeCarga(clique)) + 1
        /\ a # "reingerir" => Cardinality(PedidosDeCarga(d)) = Cardinality(PedidosDeCarga(clique))
    BY <1>1, <1>4, <1>5, <1>6, PedidosMudam DEF Numeros
  <1>9. "carga" \in x.tentativas <=> "carga" \in caso.tentativas
    BY <1>2 DEF Lida, SemCaso
  <1>10. a = "reingerir" => "carga" \notin caso.tentativas
    <2>1. a \in Cabiveis(x) /\ (a = "reingerir" => ~ReingestaoPedida(x))
      BY <1>2 DEF Ler
    <2>2. a = "reingerir" => veredito = "falha"
      BY <1>1, <2>1 DEF Cabiveis, AcoesPorClasse, IInvFatos, TypeOKResolucao,
                        FatosBons, Classes
    <2>3. QED
      BY <1>9, <2>1, <2>2 DEF ReingestaoPedida
  <1>11. Esgotado(clique, caso.tentativas) /\ (a = "reingerir" \/ "carga" \in caso.tentativas)
           => Esgotado(d, caso.tentativas)
    BY <1>4, <1>5, <1>7, <1>9 DEF Esgotado, Trata
  <1>12. UNCHANGED <<caso, cargas, quedasResolucao>>
    BY DEF Ler
  <1>13. CASE \E p \in Cliques \ {q} : clique[p].fase # "livre"
    <2>1. LimiteCargas' = LimiteCargas + 1
      BY <1>1, <1>12, <1>13 DEF Ler, LimiteCargas, Numeros
    <2>2. CASE a = "reingerir"
      BY <1>1, <1>6, <1>8, <1>11, <1>12, <2>1, <2>2 DEF Contas, Numeros
    <2>3. CASE a # "reingerir"
      BY <1>1, <1>6, <1>8, <1>12, <2>1, <2>3 DEF Contas, Numeros
    <2>4. QED
      BY <2>2, <2>3
  <1>14. CASE ~ \E p \in Cliques \ {q} : clique[p].fase # "livre"
    <2>1. LimiteCargas' = LimiteCargas
      BY <1>1, <1>12, <1>14 DEF Ler, LimiteCargas, Numeros
    <2>2. \A p \in Cliques : ~Aberta(clique[p])
      BY <1>5, <1>14 DEF Aberta
    <2>3. Esgotado(clique, caso.tentativas) => "carga" \in caso.tentativas
      BY <2>2 DEF Esgotado
    <2>4. CASE a = "reingerir"
      <3>1. cargas + Cardinality(PedidosDeCarga(clique)) < LimiteCargas
        BY <1>1, <1>10, <2>3, <2>4 DEF Contas, Numeros
      <3>2. Esgotado(d, caso.tentativas)
        BY <1>4, <1>7, <2>2, <2>4 DEF Esgotado, Trata
      <3>3. QED
        BY <1>1, <1>6, <1>8, <1>12, <2>1, <2>4, <3>1, <3>2 DEF Contas, Numeros
    <2>5. CASE a # "reingerir"
      BY <1>1, <1>6, <1>8, <1>11, <1>12, <2>1, <2>3, <2>5 DEF Contas, Numeros
    <2>6. QED
      BY <2>4, <2>5
  <1>15. QED
    BY <1>13, <1>14

LEMMA ProntoConta ==
    ASSUME IInvCargas, NEW q \in Cliques, NEW g, Pronto(q, g),
           Aberta(clique[q]), ~PedeCarga(clique[q]),
           UNCHANGED <<caso, cargas, cruzados, quedasResolucao>>
    PROVE  Contas(cargas, LimiteCargas, clique, caso.tentativas)'
  <1>1. clique[q] \in Clique
    BY NumerosTipos DEF IInvCargas, Numeros
  <1>2. PICK y : y = [clique[q] EXCEPT !.fase = "pronto", !.grava = g]
    OBVIOUS
  <1>3. /\ y.fase = "pronto" /\ y.acao = clique[q].acao /\ y.viu = clique[q].viu
    BY <1>1, <1>2 DEF Clique
  <1>4. Aberta(y) /\ ~PedeCarga(y)
    BY <1>3 DEF Aberta, PedeCarga
  <1>5. Muda(q, y)
    BY <1>2 DEF Pronto, Muda
  <1>6. QED
    BY <1>3, <1>4, <1>5, SeguirConta

LEMMA ReingerirConta ==
    ASSUME IInvCargas, NEW q \in Cliques, Reingerir(q)
    PROVE  Contas(cargas, LimiteCargas, clique, caso.tentativas)'
  <1>1. Numeros /\ Contas(cargas, LimiteCargas, clique, caso.tentativas)
    BY NumerosTipos DEF IInvCargas
  <1>2. clique[q] \in Clique
    BY <1>1 DEF Numeros
  <1>3. PICK y : y = [clique[q] EXCEPT !.fase = "carregando"]
    OBVIOUS
  <1>4. y.fase = "carregando" /\ y.acao = clique[q].acao /\ y.viu = clique[q].viu
    BY <1>2, <1>3 DEF Clique
  <1>5. Aberta(y) /\ ~PedeCarga(y) /\ Aberta(clique[q]) /\ PedeCarga(clique[q])
    BY <1>4 DEF Aberta, PedeCarga, Reingerir
  <1>6. PICK d : /\ d = clique' /\ d = [clique EXCEPT ![q] = y]
                 /\ Vira(clique, d, q, y)
    BY <1>3 DEF Reingerir, Vira
  <1>7. Cardinality(PedidosDeCarga(d)) = Cardinality(PedidosDeCarga(clique)) - 1
    BY <1>1, <1>5, <1>6, PedidosMudam DEF Numeros
  <1>8. Esgotado(clique, caso.tentativas) => Esgotado(d, caso.tentativas)
    BY <1>1, <1>4, <1>5, <1>6, EsgotadoSegue DEF Numeros
  <1>9. cargas' = cargas + 1 /\ UNCHANGED <<caso, cruzados, quedasResolucao>>
    BY DEF Reingerir
  <1>10. QED
    BY <1>1, <1>6, <1>7, <1>8, <1>9 DEF Contas, LimiteCargas, Numeros

LEMMA CairConta ==
    ASSUME IInvCargas, NEW q \in Cliques, CairClique(q)
    PROVE  Contas(cargas, LimiteCargas, clique, caso.tentativas)'
  <1>1. Numeros /\ Contas(cargas, LimiteCargas, clique, caso.tentativas)
    BY NumerosTipos DEF IInvCargas
  <1>2. PICK d : /\ d = clique' /\ d = [clique EXCEPT ![q] = CliqueLivre]
                 /\ Vira(clique, d, q, CliqueLivre)
    BY DEF CairClique, Vira
  <1>3. Aberta(clique[q]) /\ ~PedeCarga(CliqueLivre)
    BY DEF Aberta, PedeCarga, CliqueLivre, CairClique
  <1>4. /\ PedeCarga(clique[q]) =>
              Cardinality(PedidosDeCarga(d)) = Cardinality(PedidosDeCarga(clique)) - 1
        /\ ~PedeCarga(clique[q]) =>
              Cardinality(PedidosDeCarga(d)) = Cardinality(PedidosDeCarga(clique))
    BY <1>1, <1>2, <1>3, PedidosMudam DEF Numeros
  <1>5. UNCHANGED <<caso, cargas, cruzados>>
    BY DEF CairClique
  <1>6. CASE ComCarga(q)
    <2>1. LimiteCargas' = LimiteCargas + 1 /\ ~PedeCarga(clique[q])
      BY <1>1, <1>5, <1>6 DEF CairClique, LimiteCargas, Numeros, ComCarga, PedeCarga
    <2>2. QED
      BY <1>1, <1>2, <1>4, <1>5, <2>1 DEF Contas, Numeros
  <1>7. CASE ~ComCarga(q)
    <2>1. LimiteCargas' = LimiteCargas
      BY <1>1, <1>5, <1>7 DEF CairClique, LimiteCargas, Numeros
    <2>2. CASE PedeCarga(clique[q])
      BY <1>1, <1>2, <1>4, <1>5, <2>1, <2>2 DEF Contas, Numeros
    <2>3. CASE ~PedeCarga(clique[q])
      <3>1. clique[q].acao # "reingerir"
        BY <1>1, <1>3, <1>7, <2>3 DEF ComCarga, PedeCarga, Aberta, Numeros, Clique
      <3>2. Esgotado(clique, caso.tentativas) => Esgotado(d, caso.tentativas)
        BY <1>1, <1>2, <1>3, <3>1, EsgotadoEncerra DEF Numeros
      <3>3. QED
        BY <1>1, <1>2, <1>4, <1>5, <2>1, <2>3, <3>2 DEF Contas, Numeros
    <2>4. QED
      BY <2>2, <2>3
  <1>8. QED
    BY <1>6, <1>7

LEMMA ConfirmarConta ==
    ASSUME IInvCargas, NEW q \in Cliques, ConfirmarClique(q)
    PROVE  Contas(cargas, LimiteCargas, clique, caso.tentativas)'
  <1>1. /\ Numeros /\ Contas(cargas, LimiteCargas, clique, caso.tentativas)
        /\ clique[q] \in Clique /\ CliqueBom(clique[q], apurou, classe)
    BY NumerosTipos DEF IInvCargas, Numeros, IInvFatos, FatosBons
  <1>2. PICK d : /\ d = clique' /\ d = [clique EXCEPT ![q] = CliqueLivre]
                 /\ Vira(clique, d, q, CliqueLivre)
    BY DEF ConfirmarClique, Vira
  <1>3. /\ Aberta(clique[q]) /\ ~PedeCarga(CliqueLivre) /\ ~PedeCarga(clique[q])
    BY DEF Aberta, PedeCarga, CliqueLivre, ConfirmarClique
  <1>4. Cardinality(PedidosDeCarga(d)) = Cardinality(PedidosDeCarga(clique))
    BY <1>1, <1>2, <1>3, PedidosMudam DEF Numeros
  <1>5. caso'.tentativas = clique[q].grava.tentativas
    BY DEF ConfirmarClique, Gravado
  <1>6. ASSUME Esgotado(clique, caso.tentativas)
        PROVE  Esgotado(d, caso'.tentativas)
    <2>1. clique[q].acao = "reingerir" \/ "carga" \in clique[q].viu.tentativas
      BY <1>3, <1>6 DEF Esgotado, Trata
    <2>2. "carga" \in caso'.tentativas
      BY <1>1, <1>5, <2>1 DEF CliqueBom, ConfirmarClique
    <2>3. QED
      BY <1>1, <1>2, <1>3, <1>6, <2>2, EsgotadoEncerra DEF Numeros
  <1>7. UNCHANGED <<cargas, cruzados, quedasResolucao>>
    BY DEF ConfirmarClique
  <1>8. QED
    BY <1>1, <1>2, <1>4, <1>6, <1>7 DEF Contas, LimiteCargas

LEMMA ContasInit == InitResolucao => IInvCargas
  <1> SUFFICES ASSUME InitResolucao PROVE IInvCargas
    OBVIOUS
  <1>1. \A q \in Cliques : clique[q] = CliqueLivre
    BY DEF InitResolucao
  <1>2. PedidosDeCarga(clique) = {}
    BY <1>1 DEF PedidosDeCarga, PedeCarga, CliqueLivre
  <1>3. Cardinality(PedidosDeCarga(clique)) = 0
    BY <1>2, FS_EmptySet
  <1>4. Contas(cargas, LimiteCargas, clique, caso.tentativas)
    BY <1>3 DEF Contas, LimiteCargas, InitResolucao
  <1>5. QED
    BY <1>4, FatosInit DEF IInvCargas

LEMMA ContasPasso == IInvCargas /\ [NextResolucao]_resolucaoVars => IInvCargas'
  <1> SUFFICES ASSUME IInvCargas, [NextResolucao]_resolucaoVars PROVE IInvCargas'
    OBVIOUS
  <1>1. IInvFatos'
    BY FatosPasso DEF IInvCargas
  <1>2. CASE UNCHANGED resolucaoVars
    BY <1>1, <1>2 DEF IInvCargas, resolucaoVars, LimiteCargas
  <1>3. ASSUME NEW v \in {"falha", "ok"}, Reavaliar(v) PROVE IInvCargas'
    BY <1>1, <1>3 DEF IInvCargas, Reavaliar, LimiteCargas
  <1>4. ASSUME NEW q \in Cliques, NEW a \in Acoes, Ler(q, a) PROVE IInvCargas'
    BY <1>1, <1>4, LerConta DEF IInvCargas
  <1>5. ASSUME NEW q \in Cliques, NEW g, Pronto(q, g),
               clique[q].fase # "livre", ~PedeCarga(clique[q]),
               UNCHANGED <<caso, cargas, cruzados, quedasResolucao>>
        PROVE  IInvCargas'
    BY <1>1, <1>5, ProntoConta DEF IInvCargas, Aberta
  <1>6. ASSUME NEW q \in Cliques, Aceitar(q) PROVE IInvCargas'
    BY <1>5, <1>6 DEF Aceitar, PedeCarga
  <1>7. ASSUME NEW q \in Cliques, NEW r \in Resultados, VerificarNaFonte(q, r)
        PROVE  IInvCargas'
    BY <1>5, <1>7 DEF VerificarNaFonte, PedeCarga
  <1>8. ASSUME NEW q \in Cliques, NEW v \in {"falha", "ok"}, Rematerializar(q, v)
        PROVE  IInvCargas'
    <2>1. PICK g : g = [clique[q].viu EXCEPT
                     !.status = StatusDoVeredito(v),
                     !.tentativas = IF v = "ok" THEN @ ELSE @ \cup {"remat_falhou"}]
      OBVIOUS
    <2>2. Pronto(q, g)
      BY <1>8, <2>1 DEF Rematerializar
    <2>3. QED
      BY <1>5, <1>8, <2>2 DEF Rematerializar, PedeCarga
  <1>9. ASSUME NEW q \in Cliques, Reingerir(q) PROVE IInvCargas'
    BY <1>1, <1>9, ReingerirConta DEF IInvCargas
  <1>10. ASSUME NEW q \in Cliques, RegistrarCarga(q) PROVE IInvCargas'
    <2>1. PICK g : g = [clique[q].viu EXCEPT !.status = "acao_aplicada",
                                             !.tentativas = @ \cup {"carga"}]
      OBVIOUS
    <2>2. Pronto(q, g)
      BY <1>10, <2>1 DEF RegistrarCarga
    <2>3. QED
      BY <1>5, <1>10, <2>2 DEF RegistrarCarga, PedeCarga
  <1>11. ASSUME NEW q \in Cliques, CairClique(q) PROVE IInvCargas'
    BY <1>1, <1>11, CairConta DEF IInvCargas
  <1>12. ASSUME NEW q \in Cliques, ConfirmarClique(q) PROVE IInvCargas'
    BY <1>1, <1>12, ConfirmarConta DEF IInvCargas
  <1>13. QED
    BY <1>2, <1>3, <1>4, <1>6, <1>7, <1>8, <1>9, <1>10, <1>11, <1>12 DEF NextResolucao

\* One load per case, plus one for each request that crossed another and one for
\* each that failed between the job and its record.
THEOREM CargasContidasSempre == SpecResolucao => []CargasContidas
  <1>1. IInvCargas => CargasContidas
    BY NumerosTipos DEF IInvCargas, Contas, LimiteCargas, Numeros, CargasContidas
  <1>2. QED
    BY <1>1, ContasInit, ContasPasso, PTL DEF SpecResolucao

-----------------------------------------------------------------------------
(* A question to the assistant                                             *)

\* The facts of earlier turns come up a recursive chain: a set F holds them,
\* whatever they are.
PerguntaEm(F) ==
    [fase: {"livre", "aceita", "modelo", "executou", "redigiu", "verificada"},
     passo: 0..MaxPassos, conversa: Conversa, contexto: SUBSET EntesIA,
     anteriores: SUBSET F, lastro: SUBSET F,
     inicio: VersoesIA, permitido: SUBSET EntesIA]

TiposIA ==
    /\ versaoIA \in [EntesIA -> VersoesIA]
    /\ escopoIA \in SUBSET EntesIA
    /\ conversas \in Seq(Conversa) /\ Len(conversas) <= MaxConversas
    /\ auditoria \in Seq(0..MaxConversas) /\ Len(auditoria) <= MaxAuditorias
    /\ \E F : pergunta \in [Perguntas -> PerguntaEm(F)]

Chamadas(p) == p.conversa.chamadas

\* What a request brought back is of its scope, and what it read is of a version
\* in force since it began.
RetomadaDe(p) ==
    p.fase # "livre" =>
        /\ p.conversa.ente \in p.permitido /\ p.contexto \subseteq p.permitido
        /\ p.conversa.corte = 0 => \A f \in p.conversa.fatos : f.versao >= p.inicio
        /\ p.fase = "verificada" => \A f \in p.lastro :
             /\ f.ente = p.conversa.ente
             /\ p.conversa.corte = 0 => f.versao >= p.inicio

\* A call has one row and, while its request is open, no conversation.
RastroDe(p, a) == \A k \in Chamadas(p) : k \in DOMAIN a /\ a[k] = 0
Separadas(ps) ==
    \A q, r \in Perguntas : q # r => Chamadas(ps[q]) \cap Chamadas(ps[r]) = {}

\* The rows of the audit and of the conversations name each other.
Elos(a, cs) ==
    /\ \A k \in DOMAIN a : a[k] \in 0..Len(cs)
    /\ \A i \in DOMAIN cs : cs[i].chamadas \subseteq DOMAIN a
    /\ \A k \in DOMAIN a : \A i \in DOMAIN cs : a[k] = i <=> k \in cs[i].chamadas

IInvIA ==
    /\ TiposIA
    /\ \A q \in Perguntas : RetomadaDe(pergunta[q]) /\ RastroDe(pergunta[q], auditoria)
    /\ Separadas(pergunta)
    /\ Elos(auditoria, conversas)

LEMMA LivreIA ==
    ASSUME NEW F, NEW a
    PROVE  /\ PerguntaLivre \in PerguntaEm(F) /\ Vazia \in Conversa
           /\ RetomadaDe(PerguntaLivre) /\ RastroDe(PerguntaLivre, a)
           /\ Chamadas(PerguntaLivre) = {}
  <1>1. Vazia \in Conversa /\ Vazia.chamadas = {}
    BY AssistenteAssumption DEF Vazia, Conversa
  <1>2. PerguntaLivre \in PerguntaEm(F)
    BY <1>1, AssistenteAssumption DEF PerguntaLivre, PerguntaEm, VersoesIA
  <1>3. QED
    BY <1>1, <1>2 DEF PerguntaLivre, RetomadaDe, RastroDe, Chamadas

LEMMA MaiorF ==
    ASSUME NEW F, NEW G, F \subseteq G, NEW x \in PerguntaEm(F)
    PROVE  x \in PerguntaEm(G)
  BY DEF PerguntaEm

TrocaIA(q, y) == pergunta' = [pergunta EXCEPT ![q] = y]

\* The audit is as it was, or has one row more, of no conversation.
Registra(q, y, a, b) ==
    \/ b = a /\ Chamadas(y) \subseteq Chamadas(pergunta[q])
    \/ /\ b = Append(a, 0) /\ Len(a) < MaxAuditorias
       /\ Chamadas(y) \subseteq Chamadas(pergunta[q]) \cup {Len(a) + 1}

\* A step of one request that commits no conversation.
LEMMA UmaPergunta ==
    ASSUME IInvIA, NEW q \in Perguntas, NEW G, NEW y \in PerguntaEm(G), TrocaIA(q, y),
           RetomadaDe(y), Registra(q, y, auditoria, auditoria'),
           UNCHANGED <<versaoIA, escopoIA, conversas>>
    PROVE  IInvIA'
  <1>1. PICK F : pergunta \in [Perguntas -> PerguntaEm(F)]
    BY DEF IInvIA, TiposIA
  <1>2. PICK H : H = F \cup G
    OBVIOUS
  <1>3. y \in PerguntaEm(H)
    BY <1>2, MaiorF
  <1>4. \A r \in Perguntas : pergunta[r] \in PerguntaEm(H)
    BY <1>1, <1>2, MaiorF
  <1>5. /\ pergunta' \in [Perguntas -> PerguntaEm(H)]
        /\ pergunta'[q] = y
        /\ \A r \in Perguntas : r # q => pergunta'[r] = pergunta[r]
    BY <1>1, <1>3, <1>4 DEF TrocaIA
  <1>6. auditoria \in Seq(0..MaxConversas) /\ Len(auditoria) <= MaxAuditorias
    BY DEF IInvIA, TiposIA
  <1>7. PICK n : n = Len(auditoria) /\ n \in Nat /\ DOMAIN auditoria = 1..n
    BY <1>6
  <1>8. /\ auditoria' \in Seq(0..MaxConversas) /\ Len(auditoria') <= MaxAuditorias
        /\ \/ auditoria' = auditoria /\ Chamadas(y) \subseteq Chamadas(pergunta[q])
           \/ /\ DOMAIN auditoria' = 1..(n + 1) /\ auditoria'[n + 1] = 0
              /\ \A k \in 1..n : auditoria'[k] = auditoria[k]
              /\ Chamadas(y) \subseteq Chamadas(pergunta[q]) \cup {n + 1}
    <2>1. CASE auditoria' = auditoria /\ Chamadas(y) \subseteq Chamadas(pergunta[q])
      BY <1>6, <2>1
    <2>2. CASE /\ auditoria' = Append(auditoria, 0) /\ Len(auditoria) < MaxAuditorias
               /\ Chamadas(y) \subseteq Chamadas(pergunta[q]) \cup {Len(auditoria) + 1}
      <3>1. 0 \in 0..MaxConversas
        BY AssistenteAssumption
      <3>2. /\ auditoria' \in Seq(0..MaxConversas) /\ Len(auditoria') = n + 1
            /\ \A k \in 1..n : auditoria'[k] = auditoria[k]
            /\ auditoria'[n + 1] = 0
        BY <1>6, <1>7, <2>2, <3>1, AppendProperties
      <3>3. DOMAIN auditoria' = 1..(n + 1)
        BY <3>2
      <3>4. n + 1 <= MaxAuditorias
        BY <1>7, <2>2, AssistenteAssumption
      <3>5. QED
        BY <1>7, <2>2, <3>2, <3>3, <3>4
    <2>3. QED
      BY <2>1, <2>2 DEF Registra
  <1>9. TiposIA'
    BY <1>5, <1>8 DEF IInvIA, TiposIA
  <1>10. \A r \in Perguntas : RastroDe(pergunta[r], auditoria) /\ RetomadaDe(pergunta[r])
    BY DEF IInvIA
  <1>11. \A k \in 1..n : k \in DOMAIN auditoria' /\ auditoria'[k] = auditoria[k]
    BY <1>7, <1>8
  <1>12. \A r \in Perguntas : RastroDe(pergunta[r], auditoria')
    BY <1>7, <1>10, <1>11 DEF RastroDe
  <1>13. RastroDe(y, auditoria')
    BY <1>7, <1>8, <1>12 DEF RastroDe
  <1>14. \A r \in Perguntas : RetomadaDe(pergunta'[r]) /\ RastroDe(pergunta'[r], auditoria')
    BY <1>5, <1>10, <1>12, <1>13
  <1>15. \A r \in Perguntas : Chamadas(pergunta[r]) \subseteq 1..n
    BY <1>7, <1>10 DEF RastroDe
  <1>16. \A r \in Perguntas : r # q => Chamadas(y) \cap Chamadas(pergunta[r]) = {}
    BY <1>7, <1>8, <1>15 DEF IInvIA, Separadas
  <1>17. Separadas(pergunta')
    BY <1>5, <1>16 DEF IInvIA, Separadas
  <1>18. Elos(auditoria', conversas)
    <2>1. Elos(auditoria, conversas)
      BY DEF IInvIA
    <2>2. conversas \in Seq(Conversa) /\ DOMAIN conversas = 1..Len(conversas) /\ Len(conversas) \in Nat
      BY DEF IInvIA, TiposIA
    <2>3. \/ auditoria' = auditoria
          \/ /\ DOMAIN auditoria' = 1..(n + 1) /\ auditoria'[n + 1] = 0
             /\ \A k \in 1..n : auditoria'[k] = auditoria[k]
      BY <1>8
    <2>4. CASE auditoria' = auditoria
      BY <2>1, <2>4
    <2>5. CASE /\ DOMAIN auditoria' = 1..(n + 1) /\ auditoria'[n + 1] = 0
               /\ \A k \in 1..n : auditoria'[k] = auditoria[k]
      <3>1. \A k \in 1..(n + 1) : k \in 1..n \/ k = n + 1
        BY <1>7
      <3>2. \A k \in DOMAIN auditoria' : auditoria'[k] \in 0..Len(conversas)
        BY <1>7, <2>1, <2>2, <2>5, <3>1 DEF Elos
      <3>3. \A i \in DOMAIN conversas : conversas[i].chamadas \subseteq 1..n
        BY <1>7, <2>1 DEF Elos
      <3>4. \A i \in DOMAIN conversas : conversas[i].chamadas \subseteq DOMAIN auditoria'
        BY <1>7, <2>5, <3>3
      <3>5. ASSUME NEW k \in DOMAIN auditoria', NEW i \in DOMAIN conversas
            PROVE  auditoria'[k] = i <=> k \in conversas[i].chamadas
        <4>1. CASE k \in 1..n
          BY <1>7, <2>1, <2>5, <4>1 DEF Elos
        <4>2. CASE k = n + 1
          BY <1>7, <2>2, <2>5, <3>3, <4>2
        <4>3. QED
          BY <2>5, <3>1, <4>1, <4>2
      <3>6. QED
        BY <3>2, <3>4, <3>5 DEF Elos
    <2>6. QED
      BY <2>3, <2>4, <2>5
  <1>19. QED
    BY <1>9, <1>14, <1>17, <1>18 DEF IInvIA

LEMMA TrocaForma ==
    ASSUME IInvIA, NEW q \in Perguntas
    PROVE  /\ \E F : pergunta[q] \in PerguntaEm(F)
           /\ RetomadaDe(pergunta[q])
           /\ versaoIA \in [EntesIA -> VersoesIA] /\ escopoIA \in SUBSET EntesIA
           /\ Len(auditoria) \in Nat
  BY DEF IInvIA, TiposIA

LEMMA PerguntarIA ==
    ASSUME IInvIA, NEW q \in Perguntas, NEW c \in 0..Len(conversas),
           NEW e \in EntesIA \cup {NenhumEnte}, NEW k \in Cortes, Perguntar(q, c, e, k)
    PROVE  IInvIA'
  <1>1. PICK G : G = UNION {conversas[a].fatos : a \in Turnos(c)}
    OBVIOUS
  <1>2. PICK X : X = {conversas[a].ente : a \in Turnos(c)}
    OBVIOUS
  <1>3. X \subseteq escopoIA
    BY <1>2 DEF Turnos, TurnoEmEscopo
  <1>4. PICK n : n = EntePedido(c, e)
    OBVIOUS
  <1>5. n \in escopoIA /\ n \in EntesIA /\ versaoIA[n] \in VersoesIA /\ escopoIA \in SUBSET EntesIA
    BY <1>4, TrocaForma DEF Perguntar
  <1>6. PICK z : z = CortePedido(c, k)
    OBVIOUS
  <1>7. z \in Cortes
    <2>1. c = 0 \/ conversas[c].corte \in Cortes
      <3>1. conversas \in Seq(Conversa) /\ (c = 0 \/ c \in DOMAIN conversas)
        BY DEF IInvIA, TiposIA
      <3>2. c = 0 \/ conversas[c] \in Conversa
        BY <3>1
      <3>3. QED
        BY <3>2 DEF Conversa
    <2>2. QED
      BY <1>6, <2>1 DEF CortePedido
  <1>8. c \in 0..MaxConversas
    BY AssistenteAssumption DEF IInvIA, TiposIA
  <1>9. PICK w : w = [Vazia EXCEPT !.ente = n, !.pai = c, !.corte = z]
    OBVIOUS
  <1>10. w = [ente |-> n, pai |-> c, fatos |-> {}, corte |-> z, chamadas |-> {}]
    BY <1>9 DEF Vazia
  <1>11. w \in Conversa
    BY <1>5, <1>7, <1>8, <1>10 DEF Conversa
  <1>12. PICK y : y = [PerguntaLivre EXCEPT
               !.fase = "aceita", !.anteriores = G, !.contexto = X,
               !.inicio = versaoIA[n], !.permitido = escopoIA, !.conversa = w]
    OBVIOUS
  <1>13. y = [fase |-> "aceita", passo |-> 0, conversa |-> w, contexto |-> X,
              anteriores |-> G, lastro |-> {}, inicio |-> versaoIA[n], permitido |-> escopoIA]
    BY <1>12 DEF PerguntaLivre
  <1>14. y \in PerguntaEm(G)
    BY <1>3, <1>5, <1>11, <1>13, AssistenteAssumption DEF PerguntaEm
  <1>15. RetomadaDe(y) /\ Chamadas(y) = {}
    BY <1>3, <1>5, <1>10, <1>13 DEF RetomadaDe, Chamadas
  <1>16. TrocaIA(q, y)
    BY <1>1, <1>2, <1>4, <1>6, <1>9, <1>12 DEF Perguntar, TrocaIA
  <1>17. UNCHANGED <<versaoIA, escopoIA, conversas, auditoria>>
    BY DEF Perguntar
  <1>18. Registra(q, y, auditoria, auditoria')
    BY <1>15, <1>17 DEF Registra
  <1>19. QED
    BY <1>14, <1>15, <1>16, <1>17, <1>18, UmaPergunta

\* A request that reads: the facts it has and one more, or that one alone.
EmVigor(x, ver) == x.conversa.corte = 0 => x.inicio <= ver
Leu(x, ver, fs, f, p, y) ==
    /\ fs = x.conversa.fatos \/ fs = {}
    /\ y = [x EXCEPT !.fase = f, !.passo = p,
               !.conversa = [x.conversa EXCEPT !.fatos = fs \cup {Fato(x, ver)}]]

LEMMA LeFato ==
    ASSUME NEW F, NEW x \in PerguntaEm(F), RetomadaDe(x), x.fase # "livre",
           NEW ver \in VersoesIA, EmVigor(x, ver), NEW fs,
           NEW f \in {"executou", "modelo"}, NEW p \in 0..MaxPassos,
           NEW y, Leu(x, ver, fs, f, p, y)
    PROVE  y \in PerguntaEm(F) /\ RetomadaDe(y) /\ Chamadas(y) = Chamadas(x)
  <1> DEFINE w == [x.conversa EXCEPT !.fatos = fs \cup {Fato(x, ver)}]
  <1>14. /\ fs = x.conversa.fatos \/ fs = {}
         /\ y = [x EXCEPT !.fase = f, !.passo = p, !.conversa = w]
         /\ x.conversa.corte = 0 => x.inicio <= ver
    BY DEF Leu, EmVigor
  <1>1. x.conversa \in Conversa /\ x.inicio \in Nat
    BY DEF PerguntaEm, VersoesIA
  <1>2. PICK g : g = fs \cup {Fato(x, ver)}
    OBVIOUS
  <1>3. x.conversa.ente \in EntesIA
    BY DEF PerguntaEm, RetomadaDe
  <1>4. Fato(x, ver) \in Fatos /\ Fato(x, ver).versao = ver
    BY <1>3 DEF Fato, Fatos
  <1>5. g \in SUBSET Fatos
    BY <1>1, <1>2, <1>4, <1>14 DEF Conversa
  <1>6. w = [x.conversa EXCEPT !.fatos = g]
    BY <1>2
  <1>7. /\ w \in Conversa /\ w.fatos = g /\ w.ente = x.conversa.ente
        /\ w.corte = x.conversa.corte /\ w.chamadas = x.conversa.chamadas
    BY <1>1, <1>5, <1>6 DEF Conversa
  <1> HIDE DEF w
  <1>8. /\ y.fase = f /\ y.passo = p /\ y.conversa = w /\ y.contexto = x.contexto
        /\ y.inicio = x.inicio /\ y.permitido = x.permitido
    BY <1>14 DEF PerguntaEm
  <1>9. y \in PerguntaEm(F)
    BY <1>7, <1>14 DEF PerguntaEm
  <1>10. x.conversa.corte = 0 => \A h \in g : h.versao >= x.inicio
    <2>1. x.conversa.corte = 0 => \A h \in fs : h.versao >= x.inicio
      BY <1>14 DEF RetomadaDe
    <2>2. x.conversa.corte = 0 => ver >= x.inicio
      BY <1>1, <1>14 DEF VersoesIA
    <2>3. QED
      BY <1>2, <1>4, <2>1, <2>2
  <1>11. x.conversa.ente \in x.permitido /\ x.contexto \subseteq x.permitido
    BY DEF RetomadaDe
  <1>12. RetomadaDe(y)
    BY <1>7, <1>8, <1>10, <1>11 DEF RetomadaDe
  <1>13. QED
    BY <1>7, <1>8, <1>9, <1>12 DEF Chamadas

LEMMA FundamentarIA ==
    ASSUME IInvIA, NEW q \in Perguntas, NEW v \in VersoesIA, NEW t \in BOOLEAN,
           Fundamentar(q, v, t)
    PROVE  IInvIA'
  <1>1. PICK F : pergunta[q] \in PerguntaEm(F)
    BY TrocaForma
  <1>2. PICK x \in PerguntaEm(F) : x = pergunta[q] /\ RetomadaDe(x) /\ x.fase # "livre"
    BY <1>1, TrocaForma DEF Fundamentar
  <1>3. x.conversa.corte = 0 => x.inicio <= v
    BY <1>2 DEF Fundamentar, Mostra
  <1>4. PICK f \in {"executou", "modelo"} : f = IF t THEN "executou" ELSE "modelo"
    OBVIOUS
  <1>5. PICK p \in 0..MaxPassos : p = IF t THEN 0 ELSE 1
    BY AssistenteAssumption
  <1>6. PICK w : w = [x.conversa EXCEPT !.fatos = {} \cup {Fato(x, v)}]
    OBVIOUS
  <1>7. PICK y : y = [x EXCEPT !.fase = f, !.passo = p, !.conversa = w]
    OBVIOUS
  <1>8. y \in PerguntaEm(F) /\ RetomadaDe(y) /\ Chamadas(y) = Chamadas(x)
    <2>1. EmVigor(x, v) /\ Leu(x, v, {}, f, p, y)
      BY <1>3, <1>6, <1>7 DEF EmVigor, Leu
    <2>2. QED
      BY <1>2, <2>1, LeFato
  <1>9. TrocaIA(q, y)
    <2>1. w = [x.conversa EXCEPT !.fatos = {Fato(x, v)}]
      BY <1>6
    <2>2. QED
      BY <1>2, <1>4, <1>5, <1>7, <2>1, ZenonT(30) DEF Fundamentar, TrocaIA
  <1>10. UNCHANGED <<versaoIA, escopoIA, conversas, auditoria>>
    BY DEF Fundamentar
  <1>11. Registra(q, y, auditoria, auditoria')
    BY <1>2, <1>8, <1>10 DEF Registra
  <1>12. QED
    BY <1>8, <1>9, <1>10, <1>11, UmaPergunta

LEMMA ChamarIA ==
    ASSUME IInvIA, NEW q \in Perguntas, NEW v \in VersoesIA, ChamarFerramenta(q, v)
    PROVE  IInvIA'
  <1>1. PICK F : pergunta[q] \in PerguntaEm(F)
    BY TrocaForma
  <1>2. PICK x \in PerguntaEm(F) : x = pergunta[q] /\ RetomadaDe(x) /\ x.fase # "livre"
    BY <1>1, TrocaForma DEF ChamarFerramenta
  <1>3. x.conversa.corte = 0 => x.inicio <= v
    BY <1>2 DEF ChamarFerramenta, Mostra
  <1>4. PICK p \in 0..MaxPassos : p = x.passo
    BY DEF PerguntaEm
  <1>5. PICK fs : fs = x.conversa.fatos
    OBVIOUS
  <1>6. PICK w : w = [x.conversa EXCEPT !.fatos = fs \cup {Fato(x, v)}]
    OBVIOUS
  <1>7. PICK y : y = [x EXCEPT !.fase = "executou", !.passo = p, !.conversa = w]
    OBVIOUS
  <1>8. y \in PerguntaEm(F) /\ RetomadaDe(y) /\ Chamadas(y) = Chamadas(x)
    <2>1. EmVigor(x, v) /\ Leu(x, v, fs, "executou", p, y)
      BY <1>3, <1>5, <1>6, <1>7 DEF EmVigor, Leu
    <2>2. QED
      BY <1>2, <2>1, LeFato
  <1>9. TrocaIA(q, y)
    <2>1. y = [x EXCEPT !.fase = "executou", !.conversa = w]
      BY <1>4, <1>7 DEF PerguntaEm
    <2>2. QED
      BY <1>2, <1>5, <1>6, <2>1 DEF ChamarFerramenta, TrocaIA
  <1>10. UNCHANGED <<versaoIA, escopoIA, conversas, auditoria>>
    BY DEF ChamarFerramenta
  <1>11. Registra(q, y, auditoria, auditoria')
    BY <1>2, <1>8, <1>10 DEF Registra
  <1>12. QED
    BY <1>8, <1>9, <1>10, <1>11, UmaPergunta

Andou(x, y, F) ==
    /\ y \in PerguntaEm(F) /\ RetomadaDe(y) /\ y.fase \in {"modelo", "redigiu"}
    /\ Chamadas(y) = Chamadas(x)

LEMMA RedigiuBom ==
    ASSUME NEW F, NEW x \in PerguntaEm(F), RetomadaDe(x), x.fase # "livre"
    PROVE  Andou(x, [x EXCEPT !.fase = "redigiu"], F)
  BY DEF PerguntaEm, RetomadaDe, Chamadas, Andou

LEMMA PassoBom ==
    ASSUME NEW F, NEW x \in PerguntaEm(F), RetomadaDe(x), x.fase # "livre"
    PROVE  Andou(x, ProximoPasso(x), F)
  <1>1. CASE x.passo = MaxPassos
    BY <1>1, RedigiuBom DEF ProximoPasso
  <1>2. CASE x.passo # MaxPassos
    <2>1. PICK p \in 0..MaxPassos : p = x.passo + 1
      BY <1>2, AssistenteAssumption DEF PerguntaEm
    <2>2. PICK y : y = [x EXCEPT !.fase = "modelo", !.passo = p]
      OBVIOUS
    <2>3. y = ProximoPasso(x)
      BY <1>2, <2>1, <2>2 DEF ProximoPasso
    <2>4. Andou(x, y, F)
      BY <2>2 DEF PerguntaEm, RetomadaDe, Chamadas, Andou
    <2>5. QED
      BY <2>3, <2>4
  <1>3. QED
    BY <1>1, <1>2

LEMMA RastroBom ==
    ASSUME NEW F, NEW x \in PerguntaEm(F), RetomadaDe(x), Len(auditoria) \in Nat,
           Len(auditoria) < MaxAuditorias
    PROVE  /\ ComRastro(x) \in PerguntaEm(F) /\ RetomadaDe(ComRastro(x))
           /\ Chamadas(ComRastro(x)) = Chamadas(x) \cup {Len(auditoria) + 1}
  <1>1. PICK n : n = Len(auditoria) + 1 /\ n \in 1..MaxAuditorias
    BY AssistenteAssumption
  <1>2. x.conversa \in Conversa
    BY DEF PerguntaEm
  <1>3. PICK g : g = x.conversa.chamadas \cup {n} /\ g \in SUBSET (1..MaxAuditorias)
    <2>1. x.conversa.chamadas \in SUBSET (1..MaxAuditorias)
      BY <1>2 DEF Conversa
    <2>2. x.conversa.chamadas \cup {n} \in SUBSET (1..MaxAuditorias)
      BY <1>1, <2>1
    <2>3. QED
      BY <2>2
  <1>4. PICK w : w = [x.conversa EXCEPT !.chamadas = g]
    OBVIOUS
  <1>5. /\ w \in Conversa /\ w.chamadas = g /\ w.ente = x.conversa.ente
        /\ w.corte = x.conversa.corte /\ w.fatos = x.conversa.fatos
    BY <1>2, <1>3, <1>4 DEF Conversa
  <1>6. PICK y : y = [x EXCEPT !.conversa = w]
    OBVIOUS
  <1>7. ComRastro(x) = y
    BY <1>1, <1>3, <1>4, <1>6 DEF ComRastro
  <1>8. y \in PerguntaEm(F) /\ y.conversa = w
    BY <1>5, <1>6 DEF PerguntaEm
  <1>9. /\ y.fase = x.fase /\ y.contexto = x.contexto /\ y.lastro = x.lastro
        /\ y.inicio = x.inicio /\ y.permitido = x.permitido
    BY <1>6 DEF PerguntaEm
  <1>10. RetomadaDe(y)
    BY <1>5, <1>8, <1>9 DEF RetomadaDe
  <1>11. QED
    BY <1>1, <1>3, <1>5, <1>7, <1>8, <1>10 DEF Chamadas

LEMMA RecusadaIA ==
    ASSUME IInvIA, NEW q \in Perguntas, FerramentaRecusada(q)
    PROVE  IInvIA'
  <1>1. PICK F : pergunta[q] \in PerguntaEm(F)
    BY TrocaForma
  <1>2. pergunta[q].fase # "livre" /\ UNCHANGED <<versaoIA, escopoIA, conversas>>
    BY DEF FerramentaRecusada
  <1>3. PICK y : y = ProximoPasso(pergunta[q])
    OBVIOUS
  <1>4. /\ y \in PerguntaEm(F) /\ RetomadaDe(y)
        /\ Chamadas(y) = Chamadas(pergunta[q])
    BY <1>1, <1>2, <1>3, TrocaForma, PassoBom DEF Andou
  <1>5. CASE /\ Len(auditoria) < MaxAuditorias /\ auditoria' = Append(auditoria, 0)
             /\ pergunta' = [pergunta EXCEPT ![q] = ComRastro(ProximoPasso(pergunta[q]))]
    <2>1. PICK z : z = ComRastro(y)
      OBVIOUS
    <2>2. /\ z \in PerguntaEm(F) /\ RetomadaDe(z)
          /\ Chamadas(z) = Chamadas(y) \cup {Len(auditoria) + 1}
      BY <1>4, <1>5, <2>1, TrocaForma, RastroBom
    <2>3. TrocaIA(q, z)
      BY <1>3, <1>5, <2>1 DEF TrocaIA
    <2>4. Registra(q, z, auditoria, auditoria')
      BY <1>4, <1>5, <2>2 DEF Registra
    <2>5. QED
      BY <1>2, <2>2, <2>3, <2>4, UmaPergunta
  <1>6. CASE /\ UNCHANGED auditoria
             /\ pergunta' = [pergunta EXCEPT ![q] = ProximoPasso(pergunta[q])]
    <2>1. TrocaIA(q, y) /\ Registra(q, y, auditoria, auditoria')
      BY <1>3, <1>4, <1>6 DEF TrocaIA, Registra
    <2>2. QED
      BY <1>2, <1>4, <2>1, UmaPergunta
  <1>7. QED
    BY <1>5, <1>6 DEF FerramentaRecusada

LEMMA AuditarIA ==
    ASSUME IInvIA, NEW q \in Perguntas, Auditar(q)
    PROVE  IInvIA'
  <1>1. PICK F : pergunta[q] \in PerguntaEm(F)
    BY TrocaForma
  <1>2. /\ pergunta[q].fase # "livre" /\ UNCHANGED <<versaoIA, escopoIA, conversas>>
        /\ Len(auditoria) < MaxAuditorias /\ auditoria' = Append(auditoria, 0)
    BY DEF Auditar
  <1>3. PICK y : /\ y \in {ProximoPasso(pergunta[q]), [pergunta[q] EXCEPT !.fase = "redigiu"]}
                 /\ pergunta' = [pergunta EXCEPT ![q] = ComRastro(y)]
    BY DEF Auditar
  <1>4. Andou(pergunta[q], y, F)
    BY <1>1, <1>2, <1>3, TrocaForma, PassoBom, RedigiuBom
  <1>5. PICK z : z = ComRastro(y)
    OBVIOUS
  <1>6. /\ z \in PerguntaEm(F) /\ RetomadaDe(z)
        /\ Chamadas(z) = Chamadas(y) \cup {Len(auditoria) + 1}
    BY <1>2, <1>4, <1>5, TrocaForma, RastroBom DEF Andou
  <1>7. TrocaIA(q, z)
    BY <1>3, <1>5 DEF TrocaIA
  <1>8. Registra(q, z, auditoria, auditoria')
    BY <1>2, <1>4, <1>6 DEF Registra, Andou
  <1>9. QED
    BY <1>2, <1>6, <1>7, <1>8, UmaPergunta

LEMMA RedigirIA ==
    ASSUME IInvIA, NEW q \in Perguntas, Redigir(q) \/ RecusarPergunta(q)
    PROVE  IInvIA'
  <1>1. PICK F : pergunta[q] \in PerguntaEm(F)
    BY TrocaForma
  <1>2. /\ pergunta[q].fase # "livre"
        /\ UNCHANGED <<versaoIA, escopoIA, conversas, auditoria>>
    BY DEF Redigir, RecusarPergunta
  <1>3. PICK y : y = [pergunta[q] EXCEPT !.fase = "redigiu"]
    OBVIOUS
  <1>4. Andou(pergunta[q], y, F)
    BY <1>1, <1>2, <1>3, TrocaForma, RedigiuBom
  <1>5. TrocaIA(q, y)
    BY <1>3 DEF Redigir, RecusarPergunta, TrocaIA
  <1>6. Registra(q, y, auditoria, auditoria')
    BY <1>2, <1>4 DEF Registra, Andou
  <1>7. QED
    BY <1>2, <1>4, <1>5, <1>6, UmaPergunta DEF Andou

LEMMA CairIA ==
    ASSUME IInvIA, NEW q \in Perguntas, CairPergunta(q)
    PROVE  IInvIA'
  <1>1. PICK y : y = PerguntaLivre
    OBVIOUS
  <1>2. PICK F : y \in PerguntaEm(F) /\ RetomadaDe(y) /\ Chamadas(y) = {}
    BY <1>1, LivreIA
  <1>3. TrocaIA(q, y) /\ UNCHANGED <<versaoIA, escopoIA, conversas, auditoria>>
    BY <1>1 DEF CairPergunta, TrocaIA
  <1>4. Registra(q, y, auditoria, auditoria')
    BY <1>2, <1>3 DEF Registra
  <1>5. QED
    BY <1>2, <1>3, <1>4, UmaPergunta

\* What is rederived is of the entity of the answer and of a version it read.
LEMMA VerificarIA ==
    ASSUME IInvIA, NEW q \in Perguntas, Verificar(q)
    PROVE  IInvIA'
  <1>1. PICK F : pergunta[q] \in PerguntaEm(F)
    BY TrocaForma
  <1>2. PICK x \in PerguntaEm(F) : x = pergunta[q] /\ RetomadaDe(x) /\ x.fase = "redigiu"
    BY <1>1, TrocaForma DEF Verificar
  <1>3. PICK l : l = Rederivado(x.anteriores, x.conversa)
    OBVIOUS
  <1>4. /\ l \subseteq x.anteriores
        /\ \A f \in l : f.ente = x.conversa.ente
        /\ \A f \in l : \E g \in x.conversa.fatos : f.versao = g.versao
    BY <1>3 DEF Rederivado
  <1>5. l \in SUBSET F
    BY <1>4 DEF PerguntaEm
  <1>6. PICK y : y = [x EXCEPT !.fase = "verificada", !.lastro = l]
    OBVIOUS
  <1>7. /\ y \in PerguntaEm(F) /\ y.lastro = l /\ y.conversa = x.conversa
        /\ y.contexto = x.contexto /\ y.inicio = x.inicio /\ y.permitido = x.permitido
    BY <1>5, <1>6 DEF PerguntaEm
  <1>8. RetomadaDe(y)
    BY <1>2, <1>4, <1>7 DEF RetomadaDe
  <1>9. TrocaIA(q, y)
    BY <1>2, <1>3, <1>6 DEF Verificar, TrocaIA
  <1>10. UNCHANGED <<versaoIA, escopoIA, conversas, auditoria>>
    BY DEF Verificar
  <1>11. Registra(q, y, auditoria, auditoria')
    BY <1>2, <1>7, <1>10 DEF Registra, Chamadas
  <1>12. QED
    BY <1>7, <1>8, <1>9, <1>10, <1>11, UmaPergunta

LEMMA PersistirIA ==
    ASSUME IInvIA, NEW q \in Perguntas, Persistir(q)
    PROVE  IInvIA'
  <1>1. PICK F : pergunta \in [Perguntas -> PerguntaEm(F)]
    BY DEF IInvIA, TiposIA
  <1>2. PICK x : x = pergunta[q].conversa /\ x \in Conversa
    BY <1>1 DEF PerguntaEm
  <1>3. PICK s : s = Chamadas(pergunta[q]) /\ s = x.chamadas
    BY <1>2 DEF Chamadas
  <1>4. PICK n : n = Len(conversas) /\ n \in Nat /\ DOMAIN conversas = 1..n /\ n < MaxConversas
    BY DEF IInvIA, TiposIA, Persistir
  <1>5. conversas \in Seq(Conversa) /\ auditoria \in Seq(0..MaxConversas)
    BY DEF IInvIA, TiposIA
  <1>6. /\ conversas' \in Seq(Conversa) /\ Len(conversas') = n + 1
        /\ DOMAIN conversas' = 1..(n + 1)
        /\ \A i \in 1..n : conversas'[i] = conversas[i]
        /\ conversas'[n + 1] = x
    <2>1. conversas' = Append(conversas, x)
      BY <1>2 DEF Persistir
    <2>2. /\ conversas' \in Seq(Conversa) /\ Len(conversas') = n + 1
          /\ \A i \in 1..n : conversas'[i] = conversas[i]
          /\ conversas'[n + 1] = x
      BY <1>2, <1>4, <1>5, <2>1, AppendProperties
    <2>3. QED
      BY <1>4, <2>2
  <1>7. auditoria' = [i \in DOMAIN auditoria |-> IF i \in s THEN n + 1 ELSE auditoria[i]]
    BY <1>2, <1>3, <1>4 DEF Persistir, Associa
  <1>8. PICK m : m = Len(auditoria) /\ m \in Nat /\ DOMAIN auditoria = 1..m
    BY <1>5
  <1>9. n + 1 \in 0..MaxConversas /\ n + 1 <= MaxConversas
    BY <1>4, AssistenteAssumption
  <1>10. \A k \in 1..m : auditoria[k] \in 0..MaxConversas
    BY <1>5, <1>8, ElementOfSeq
  <1>11. /\ auditoria' \in [1..m -> 0..MaxConversas]
         /\ \A k \in 1..m : auditoria'[k] = IF k \in s THEN n + 1 ELSE auditoria[k]
    BY <1>7, <1>8, <1>9, <1>10
  <1>12. /\ auditoria' \in Seq(0..MaxConversas) /\ Len(auditoria') = m
         /\ DOMAIN auditoria' = 1..m
    <2>1. PICK T : T = 0..MaxConversas
      OBVIOUS
    <2>2. auditoria' \in [1..m -> T]
      BY <1>11, <2>1
    <2>3. auditoria' \in Seq(T)
      BY <1>8, <2>2
    <2>4. Len(auditoria') = m
      BY <1>8, <2>2, <2>3, LenProperties
    <2>5. QED
      BY <2>1, <2>2, <2>3, <2>4
  <1>13. /\ pergunta' \in [Perguntas -> PerguntaEm(F)]
         /\ pergunta'[q] = PerguntaLivre
         /\ \A r \in Perguntas : r # q => pergunta'[r] = pergunta[r]
    BY <1>1, LivreIA DEF Persistir
  <1>14. TiposIA'
    <2>1. UNCHANGED <<versaoIA, escopoIA>>
      BY DEF Persistir
    <2>2. QED
      BY <1>6, <1>8, <1>9, <1>12, <1>13, <2>1 DEF IInvIA, TiposIA
  <1>15. \A r \in Perguntas : RetomadaDe(pergunta[r]) /\ RastroDe(pergunta[r], auditoria)
    BY DEF IInvIA
  <1>16. \A r \in Perguntas : r # q => Chamadas(pergunta[r]) \cap s = {}
    BY <1>3 DEF IInvIA, Separadas
  <1>17. \A r \in Perguntas : r # q => RastroDe(pergunta[r], auditoria')
    BY <1>8, <1>11, <1>12, <1>15, <1>16 DEF RastroDe
  <1>18. \A r \in Perguntas : RetomadaDe(pergunta'[r]) /\ RastroDe(pergunta'[r], auditoria')
    BY <1>13, <1>15, <1>17, LivreIA
  <1>19. Separadas(pergunta')
    BY <1>13, LivreIA DEF IInvIA, Separadas
  <1>20. Elos(auditoria', conversas')
    <2>1. /\ \A k \in 1..m : auditoria[k] \in 0..n
          /\ \A i \in 1..n : conversas[i].chamadas \subseteq 1..m
          /\ \A k \in 1..m : \A i \in 1..n : auditoria[k] = i <=> k \in conversas[i].chamadas
      BY <1>4, <1>8 DEF IInvIA, Elos
    <2>2. /\ s \subseteq 1..m /\ \A k \in s : auditoria[k] = 0
      BY <1>3, <1>8, <1>15 DEF RastroDe
    <2>3. \A i \in 1..(n + 1) : i \in 1..n \/ i = n + 1
      BY <1>4
    <2>4. \A k \in 1..m : auditoria'[k] \in 0..(n + 1)
      BY <1>4, <1>11, <2>1
    <2>5. \A i \in 1..(n + 1) : conversas'[i].chamadas \subseteq 1..m
      BY <1>3, <1>6, <2>1, <2>2, <2>3
    <2>6. ASSUME NEW k \in 1..m, NEW i \in 1..(n + 1)
          PROVE  auditoria'[k] = i <=> k \in conversas'[i].chamadas
      <3>1. CASE i \in 1..n
        <4>1. k \in s => k \notin conversas[i].chamadas
          BY <2>1, <2>2, <3>1
        <4>2. CASE k \in s
          BY <1>4, <1>6, <1>11, <3>1, <4>1, <4>2
        <4>3. CASE k \notin s
          BY <1>6, <1>11, <2>1, <3>1, <4>3
        <4>4. QED
          BY <4>2, <4>3
      <3>2. CASE i = n + 1
        <4>1. auditoria[k] # n + 1
          BY <1>4, <2>1
        <4>2. QED
          BY <1>3, <1>6, <1>11, <3>2, <4>1
      <3>3. QED
        BY <2>3, <3>1, <3>2
    <2>7. QED
      BY <1>6, <1>12, <2>4, <2>5, <2>6 DEF Elos
  <1>21. QED
    BY <1>14, <1>18, <1>19, <1>20 DEF IInvIA

LEMMA AmbienteIA ==
    ASSUME IInvIA, NEW e \in EntesIA, Retificar(e) \/ MudarEscopo(e)
    PROVE  IInvIA'
  <1>1. /\ versaoIA' \in [EntesIA -> VersoesIA] /\ escopoIA' \in SUBSET EntesIA
    <2>1. versaoIA \in [EntesIA -> VersoesIA] /\ escopoIA \in SUBSET EntesIA
      BY DEF IInvIA, TiposIA
    <2>2. CASE Retificar(e)
      BY <2>1, <2>2, AssistenteAssumption DEF Retificar, VersoesIA
    <2>3. CASE MudarEscopo(e)
      BY <2>1, <2>3 DEF MudarEscopo
    <2>4. QED
      BY <2>2, <2>3
  <1>2. UNCHANGED <<conversas, auditoria, pergunta>>
    BY DEF Retificar, MudarEscopo
  <1>3. QED
    BY <1>1, <1>2 DEF IInvIA, TiposIA

LEMMA InitIA == InitAssistente => IInvIA
  <1> SUFFICES ASSUME InitAssistente PROVE IInvIA
    OBVIOUS
  <1>1. \A q \in Perguntas : pergunta[q] = PerguntaLivre
    BY DEF InitAssistente
  <1>2. pergunta \in [Perguntas -> PerguntaEm({})]
    BY LivreIA DEF InitAssistente
  <1>3. TiposIA
    BY <1>2, AssistenteAssumption, EmptySeq DEF InitAssistente, TiposIA, VersoesIA
  <1>4. Separadas(pergunta)
    BY <1>1, LivreIA DEF Separadas
  <1>5. Elos(auditoria, conversas)
    BY DEF InitAssistente, Elos
  <1>6. QED
    BY <1>1, <1>3, <1>4, <1>5, LivreIA DEF IInvIA

LEMMA PassoIA == IInvIA /\ [NextAssistente]_assistenteVars => IInvIA'
  <1> SUFFICES ASSUME IInvIA, [NextAssistente]_assistenteVars PROVE IInvIA'
    OBVIOUS
  <1>1. CASE UNCHANGED assistenteVars
    BY <1>1 DEF assistenteVars, IInvIA, TiposIA
  <1>2. CASE \E e \in EntesIA : Retificar(e) \/ MudarEscopo(e)
    BY <1>2, AmbienteIA
  <1>3. ASSUME NEW q \in Perguntas, NEW c \in 0..Len(conversas),
               NEW e \in EntesIA \cup {NenhumEnte}, NEW k \in Cortes, Perguntar(q, c, e, k)
        PROVE  IInvIA'
    BY <1>3, PerguntarIA
  <1>4. ASSUME NEW q \in Perguntas, NEW v \in VersoesIA,
               \/ \E t \in BOOLEAN : Fundamentar(q, v, t)
               \/ ChamarFerramenta(q, v)
        PROVE  IInvIA'
    BY <1>4, FundamentarIA, ChamarIA
  <1>5. ASSUME NEW q \in Perguntas,
               \/ RecusarPergunta(q) \/ FerramentaRecusada(q) \/ Auditar(q)
               \/ Redigir(q) \/ Verificar(q) \/ Persistir(q) \/ CairPergunta(q)
        PROVE  IInvIA'
    BY <1>5, RedigirIA, RecusadaIA, AuditarIA, VerificarIA, PersistirIA, CairIA
  <1>6. QED
    BY <1>1, <1>2, <1>3, <1>4, <1>5 DEF NextAssistente

\* The requests, the conversations and the audit, for any number of requests.
THEOREM AssistenteInvariante == SpecAssistente => []IInvIA
  BY InitIA, PassoIA, PTL DEF SpecAssistente

\* What an earlier turn brings back is of the scope and of the version of now.
THEOREM RetomadaSeguraSempre == SpecAssistente => []RetomadaSegura
  <1>1. IInvIA => RetomadaSegura
    BY DEF IInvIA, RetomadaDe, RetomadaSegura
  <1>2. QED
    BY <1>1, AssistenteInvariante, PTL

\* Every call has its row, and the rows and the conversations name each other.
THEOREM RastroCompletoSempre == SpecAssistente => []RastroCompleto
  <1>1. ASSUME IInvIA PROVE RastroCompleto
    <2>1. /\ \A q \in Perguntas : RastroDe(pergunta[q], auditoria)
          /\ auditoria \in Seq(0..MaxConversas)
      BY <1>1 DEF IInvIA, TiposIA
    <2>2. \A k \in DOMAIN auditoria : k <= Len(auditoria)
      BY <2>1
    <2>3. \A q \in Perguntas : \A k \in pergunta[q].conversa.chamadas :
            k <= Len(auditoria) /\ auditoria[k] = 0
      BY <2>1, <2>2 DEF RastroDe, Chamadas
    <2>4. QED
      BY <1>1, <2>3 DEF IInvIA, Elos, RastroCompleto
  <1>2. QED
    BY <1>1, AssistenteInvariante, PTL

\* A function repeated from a value: what it gives after each number of times.
Repetida(f, n, z, s) == f[0] = z /\ \A k \in 1..n : f[k] = s[f[k - 1]]

LEMMA RepeteSe ==
    ASSUME NEW N \in Nat, NEW X, NEW z \in X, NEW s \in [X -> X]
    PROVE  \E f \in [0..N -> X] : Repetida(f, N, z, s)
  <1> DEFINE Tem(n) == \E f \in [0..n -> X] : Repetida(f, n, z, s)
             B == {n \in 0..N : ~Tem(n)}
  <1>1. SUFFICES ASSUME B # {} PROVE FALSE
    <2>1. N \in 0..N
      OBVIOUS
    <2>2. B = {} => Tem(N)
      BY <2>1
    <2>3. QED
      BY <2>2
  <1>2. PICK n \in B : \A k \in B : n <= k
    <2>1. B \subseteq Nat
      OBVIOUS
    <2>2. QED
      BY <1>1, <2>1, PrimeiroDeles
  <1>3. n \in 0..N /\ ~Tem(n)
    BY <1>2
  <1>4. n # 0
    <2>1. [k \in 0..0 |-> z] \in [0..0 -> X]
      OBVIOUS
    <2>2. Repetida([k \in 0..0 |-> z], 0, z, s)
      BY DEF Repetida
    <2>3. Tem(0)
      BY <2>1, <2>2
    <2>4. QED
      BY <1>3, <2>3
  <1>5. n - 1 \in 0..N /\ ~(n <= n - 1) /\ n \in Nat /\ n - 1 \in Nat
    BY <1>3, <1>4
  <1>6. Tem(n - 1)
    BY <1>2, <1>5
  <1>7. PICK f \in [0..(n - 1) -> X] : Repetida(f, n - 1, z, s)
    BY <1>6
  <1>8. PICK x \in X : x = s[f[n - 1]]
    BY <1>5
  <1>9. PICK g : g = [k \in 0..n |-> IF k = n THEN x ELSE f[k]]
    OBVIOUS
  <1>10. \A k \in 0..n : k = n \/ k \in 0..(n - 1)
    BY <1>5
  <1>11. g \in [0..n -> X] /\ g[n] = x /\ \A k \in 0..(n - 1) : g[k] = f[k]
    BY <1>5, <1>9, <1>10
  <1>12. Repetida(g, n, z, s)
    <2>1. g[0] = z
      BY <1>5, <1>7, <1>11 DEF Repetida
    <2>2. ASSUME NEW k \in 1..n PROVE g[k] = s[g[k - 1]]
      <3>1. k - 1 \in 0..(n - 1) /\ k - 1 \in 0..n /\ (k = n \/ k \in 1..(n - 1))
        BY <1>5
      <3>2. g[k - 1] = f[k - 1]
        BY <1>11, <3>1
      <3>3. CASE k = n
        BY <1>8, <1>11, <3>2, <3>3
      <3>4. CASE k \in 1..(n - 1)
        BY <1>5, <1>7, <1>11, <3>2, <3>4 DEF Repetida
      <3>5. QED
        BY <3>1, <3>3, <3>4
    <2>3. QED
      BY <2>1, <2>2 DEF Repetida
  <1>13. QED
    BY <1>3, <1>11, <1>12

\* The parent of a conversation was committed before it.
PaisAntes(cs) == \A i \in DOMAIN cs : cs[i].pai \in 0..(i - 1)

\* What one more step up brings to the turns that were found.
Acima(A, cs, g) == [c \in A |-> IF c = 0 THEN {} ELSE {c} \cup g[cs[c].pai]]

\* The equation of the walk, and the value that satisfies it.
ESubida(f) ==
    f = [n \in 0..MaxTurnos |-> [c \in 0..Len(conversas) |->
            IF c = 0 \/ n = 0 THEN {} ELSE {c} \cup f[n - 1][conversas[c].pai]]]

LEMMA SubidaEscolhe ==
    ASSUME NEW f, ESubida(f)
    PROVE  ESubida(Subida)
  BY DEF ESubida, Subida

\* The walk from a conversation up to its ancestors finds conversations.
LEMMA SubidaAcha ==
    ASSUME conversas \in Seq(Conversa), PaisAntes(conversas)
    PROVE  \A c \in 0..Len(conversas) : Ancestrais(c) \subseteq DOMAIN conversas
  <1>1. PICK l \in Nat : l = Len(conversas) /\ DOMAIN conversas = 1..l
    BY LenProperties
  <1>a. PICK A : A = 0..l
    OBVIOUS
  <1>2. PICK X : X = [A -> SUBSET (1..l)]
    OBVIOUS
  <1>3. PICK z : z = [c \in A |-> {}]
    OBVIOUS
  <1>4. PICK s : s = [g \in X |-> Acima(A, conversas, g)]
    OBVIOUS
  <1>5. \A c \in A : c # 0 => c \in 1..l /\ conversas[c].pai \in A
    BY <1>1, <1>a DEF PaisAntes
  <1>6. ASSUME NEW g \in X PROVE Acima(A, conversas, g) \in X
    <2>1. \A c \in A : (IF c = 0 THEN {} ELSE {c} \cup g[conversas[c].pai]) \in SUBSET (1..l)
      BY <1>2, <1>5
    <2>2. QED
      BY <1>2, <2>1 DEF Acima
  <1>7. z \in X /\ s \in [X -> X]
    BY <1>2, <1>3, <1>4, <1>6
  <1>8. PICK N \in Nat : N = MaxTurnos
    BY AssistenteAssumption
  <1>9. PICK f \in [0..N -> X] : Repetida(f, N, z, s)
    BY <1>7, RepeteSe
  <1>10. f = [n \in 0..N |-> [c \in A |->
               IF c = 0 \/ n = 0 THEN {} ELSE {c} \cup f[n - 1][conversas[c].pai]]]
    <2>1. ASSUME NEW n \in 0..N
          PROVE  f[n] = [c \in A |->
                   IF c = 0 \/ n = 0 THEN {} ELSE {c} \cup f[n - 1][conversas[c].pai]]
      <3>1. CASE n = 0
        BY <1>3, <1>9, <3>1 DEF Repetida
      <3>2. CASE n # 0
        <4>1. n \in 1..N /\ n - 1 \in 0..N
          BY <3>2
        <4>2. f[n] = Acima(A, conversas, f[n - 1])
          BY <1>4, <1>9, <4>1 DEF Repetida
        <4>3. QED
          BY <3>2, <4>2 DEF Acima
      <3>3. QED
        BY <3>1, <3>2
    <2>2. QED
      BY <2>1
  <1>11. Subida = [n \in 0..N |-> [c \in A |->
               IF c = 0 \/ n = 0 THEN {} ELSE {c} \cup Subida[n - 1][conversas[c].pai]]]
    <2>1. ESubida(f)
      BY <1>1, <1>a, <1>8, <1>10 DEF ESubida
    <2>2. ESubida(Subida)
      BY <2>1, SubidaEscolhe
    <2>3. QED
      BY <1>1, <1>a, <1>8, <2>2 DEF ESubida
  <1>12. PICK u : u = Subida
    OBVIOUS
  <1>13. \A n \in 0..N : u[n] = [c \in A |->
               IF c = 0 \/ n = 0 THEN {} ELSE {c} \cup u[n - 1][conversas[c].pai]]
    BY <1>11, <1>12
  <1>14. u[0] = z
    <2>1. 0 \in 0..N
      OBVIOUS
    <2>2. u[0] = [c \in A |-> IF c = 0 \/ 0 = 0 THEN {} ELSE {c} \cup u[0 - 1][conversas[c].pai]]
      BY <1>13, <2>1
    <2>3. QED
      BY <1>3, <2>2
  <1>15. ASSUME NEW n \in 1..N, u[n - 1] \in X PROVE u[n] \in X
    <2>1. n \in 0..N /\ n # 0
      OBVIOUS
    <2>2. u[n] = Acima(A, conversas, u[n - 1])
      BY <1>13, <2>1 DEF Acima
    <2>3. QED
      BY <1>6, <1>15, <2>2
  <1>16. u[N] \in X
    <2>1. PICK B : B = {n \in 0..N : u[n] \notin X}
      OBVIOUS
    <2>2. SUFFICES ASSUME B # {} PROVE FALSE
      BY <2>1
    <2>3. PICK n \in B : \A k \in B : n <= k
      <3>1. B \subseteq Nat
        BY <2>1
      <3>2. QED
        BY <2>2, <3>1, PrimeiroDeles
    <2>4. n \in 1..N
      BY <1>7, <1>14, <2>1
    <2>5. n - 1 \in 0..N /\ n - 1 \notin B
      BY <2>3, <2>4
    <2>6. QED
      BY <1>15, <2>1, <2>4, <2>5
  <1>17. QED
    BY <1>1, <1>a, <1>2, <1>8, <1>12, <1>16 DEF Ancestrais

\* What a request carries of earlier turns: facts, and an anchor that is there.
LastroDe(p, cs) ==
    /\ p.anteriores \in SUBSET Fatos /\ p.lastro \in SUBSET Fatos
    /\ p.conversa.pai \in 0..Len(cs)
HerdadoBem ==
    /\ mexeu \in 0..MaxEscopoIA
    /\ PaisAntes(conversas)
    /\ \A q \in Perguntas : LastroDe(pergunta[q], conversas)
IInvTurnos == IInvIA /\ HerdadoBem

\* A step that leaves what a request carries as it was.
MesmoLastro(x, y) ==
    /\ y.anteriores = x.anteriores /\ y.lastro = x.lastro
    /\ y.conversa.pai = x.conversa.pai

LEMMA TrocaLastro ==
    ASSUME IInvTurnos, NEW q \in Perguntas, NEW y, TrocaIA(q, y), LastroDe(y, conversas),
           UNCHANGED <<conversas, mexeu>>
    PROVE  HerdadoBem'
  <1>1. PICK F : pergunta \in [Perguntas -> PerguntaEm(F)]
    BY DEF IInvTurnos, IInvIA, TiposIA
  <1>2. pergunta'[q] = y /\ \A r \in Perguntas : r # q => pergunta'[r] = pergunta[r]
    BY <1>1 DEF TrocaIA
  <1>3. QED
    BY <1>2 DEF IInvTurnos, HerdadoBem

LEMMA TrocaMesmo ==
    ASSUME IInvTurnos, NEW q \in Perguntas, NEW y, TrocaIA(q, y),
           MesmoLastro(pergunta[q], y), UNCHANGED <<conversas, mexeu>>
    PROVE  HerdadoBem'
  <1>1. LastroDe(pergunta[q], conversas)
    BY DEF IInvTurnos, HerdadoBem
  <1>2. LastroDe(y, conversas)
    BY <1>1 DEF LastroDe, MesmoLastro
  <1>3. QED
    BY <1>2, TrocaLastro

LEMMA LeuMesmo ==
    ASSUME NEW F, NEW x \in PerguntaEm(F), NEW fs, NEW f, NEW p, NEW y,
           y = [x EXCEPT !.fase = f, !.passo = p,
                   !.conversa = [x.conversa EXCEPT !.fatos = fs]]
    PROVE  MesmoLastro(x, y)
  <1>1. x.conversa \in Conversa
    BY DEF PerguntaEm
  <1>2. PICK w : w = [x.conversa EXCEPT !.fatos = fs]
    OBVIOUS
  <1>3. w.pai = x.conversa.pai
    BY <1>1, <1>2 DEF Conversa
  <1>4. y = [x EXCEPT !.fase = f, !.passo = p, !.conversa = w]
    BY <1>2
  <1>5. y.conversa = w /\ y.anteriores = x.anteriores /\ y.lastro = x.lastro
    BY <1>4 DEF PerguntaEm
  <1>6. QED
    BY <1>3, <1>5 DEF MesmoLastro

LEMMA RedigiuMesmo ==
    ASSUME NEW F, NEW x \in PerguntaEm(F)
    PROVE  MesmoLastro(x, [x EXCEPT !.fase = "redigiu"])
  BY DEF PerguntaEm, MesmoLastro

LEMMA PassoMesmo ==
    ASSUME NEW F, NEW x \in PerguntaEm(F)
    PROVE  MesmoLastro(x, ProximoPasso(x))
  <1>1. CASE x.passo = MaxPassos
    BY <1>1, RedigiuMesmo DEF ProximoPasso
  <1>2. CASE x.passo # MaxPassos
    <2>1. PICK p : p = x.passo + 1
      OBVIOUS
    <2>2. PICK y : y = [x EXCEPT !.fase = "modelo", !.passo = p]
      OBVIOUS
    <2>3. y = ProximoPasso(x)
      BY <1>2, <2>1, <2>2 DEF ProximoPasso
    <2>4. MesmoLastro(x, y)
      BY <2>2 DEF PerguntaEm, MesmoLastro
    <2>5. QED
      BY <2>3, <2>4
  <1>3. QED
    BY <1>1, <1>2

LEMMA RastroMesmo ==
    ASSUME NEW F, NEW x \in PerguntaEm(F)
    PROVE  MesmoLastro(x, ComRastro(x))
  <1>1. x.conversa \in Conversa
    BY DEF PerguntaEm
  <1>2. PICK g : g = x.conversa.chamadas \cup {Len(auditoria) + 1}
    OBVIOUS
  <1>3. PICK w : w = [x.conversa EXCEPT !.chamadas = g]
    OBVIOUS
  <1>4. w.pai = x.conversa.pai
    BY <1>1, <1>3 DEF Conversa
  <1>5. PICK y : y = [x EXCEPT !.conversa = w]
    OBVIOUS
  <1>6. ComRastro(x) = y
    BY <1>2, <1>3, <1>5 DEF ComRastro
  <1>7. y.conversa = w /\ y.anteriores = x.anteriores /\ y.lastro = x.lastro
    BY <1>5 DEF PerguntaEm
  <1>8. QED
    BY <1>4, <1>6, <1>7 DEF MesmoLastro

\* The turns a question takes up are conversations, whose facts are facts.
LEMMA TurnosSao ==
    ASSUME conversas \in Seq(Conversa), PaisAntes(conversas), NEW c \in 0..Len(conversas)
    PROVE  UNION {conversas[a].fatos : a \in Turnos(c)} \in SUBSET Fatos
  <1>1. \A a \in Turnos(c) : a \in DOMAIN conversas
    BY SubidaAcha DEF Turnos
  <1>2. \A a \in DOMAIN conversas : conversas[a] \in Conversa
    BY ElementOfSeq
  <1>3. \A a \in Turnos(c) : conversas[a].fatos \in SUBSET Fatos
    BY <1>1, <1>2 DEF Conversa
  <1>4. QED
    BY <1>3

LEMMA PerguntarTurnos ==
    ASSUME IInvTurnos, NEW q \in Perguntas, NEW c \in 0..Len(conversas),
           NEW e \in EntesIA \cup {NenhumEnte}, NEW k \in Cortes, Perguntar(q, c, e, k)
    PROVE  HerdadoBem'
  <1>1. PICK G : G = UNION {conversas[a].fatos : a \in Turnos(c)}
    OBVIOUS
  <1>2. G \in SUBSET Fatos
    BY <1>1, TurnosSao DEF IInvTurnos, IInvIA, TiposIA, HerdadoBem
  <1>3. PICK X : X = {conversas[a].ente : a \in Turnos(c)}
    OBVIOUS
  <1>4. PICK n, z : n = EntePedido(c, e) /\ z = CortePedido(c, k)
    OBVIOUS
  <1>5. PICK w : w = [Vazia EXCEPT !.ente = n, !.pai = c, !.corte = z]
    OBVIOUS
  <1>6. w.pai = c
    BY <1>5 DEF Vazia
  <1>7. PICK y : y = [PerguntaLivre EXCEPT
               !.fase = "aceita", !.anteriores = G, !.contexto = X,
               !.inicio = versaoIA[n], !.permitido = escopoIA, !.conversa = w]
    OBVIOUS
  <1>8. y.anteriores = G /\ y.lastro = {} /\ y.conversa = w
    BY <1>7 DEF PerguntaLivre
  <1>9. LastroDe(y, conversas)
    BY <1>2, <1>6, <1>8 DEF LastroDe
  <1>10. TrocaIA(q, y)
    BY <1>1, <1>3, <1>4, <1>5, <1>7 DEF Perguntar, TrocaIA
  <1>11. UNCHANGED <<conversas, mexeu>>
    BY DEF Perguntar
  <1>12. QED
    BY <1>9, <1>10, <1>11, TrocaLastro

LEMMA LerTurnos ==
    ASSUME IInvTurnos, NEW q \in Perguntas, NEW v \in VersoesIA,
           \/ \E t \in BOOLEAN : Fundamentar(q, v, t)
           \/ ChamarFerramenta(q, v)
    PROVE  HerdadoBem'
  <1>1. PICK F : pergunta[q] \in PerguntaEm(F)
    BY TrocaForma DEF IInvTurnos
  <1>2. PICK x \in PerguntaEm(F) : x = pergunta[q]
    BY <1>1
  <1>3. UNCHANGED <<conversas, mexeu>>
    BY DEF Fundamentar, ChamarFerramenta
  <1>4. ASSUME NEW t \in BOOLEAN, Fundamentar(q, v, t) PROVE HerdadoBem'
    <2>1. PICK f : f = IF t THEN "executou" ELSE "modelo"
      OBVIOUS
    <2>2. PICK p : p = IF t THEN 0 ELSE 1
      OBVIOUS
    <2>3. PICK fs : fs = {Fato(x, v)}
      OBVIOUS
    <2>4. PICK y : y = [x EXCEPT !.fase = f, !.passo = p,
                          !.conversa = [x.conversa EXCEPT !.fatos = fs]]
      OBVIOUS
    <2>5. MesmoLastro(x, y)
      BY <2>4, LeuMesmo
    <2>6. TrocaIA(q, y)
      BY <1>2, <1>4, <2>1, <2>2, <2>3, <2>4, ZenonT(30) DEF Fundamentar, TrocaIA
    <2>7. QED
      BY <1>2, <1>3, <2>5, <2>6, TrocaMesmo
  <1>5. CASE ChamarFerramenta(q, v)
    <2>1. PICK p : p = x.passo
      OBVIOUS
    <2>2. PICK fs : fs = x.conversa.fatos \cup {Fato(x, v)}
      OBVIOUS
    <2>3. PICK y : y = [x EXCEPT !.fase = "executou", !.passo = p,
                          !.conversa = [x.conversa EXCEPT !.fatos = fs]]
      OBVIOUS
    <2>4. MesmoLastro(x, y)
      BY <2>3, LeuMesmo
    <2>5. TrocaIA(q, y)
      <3>1. PICK w : w = [x.conversa EXCEPT !.fatos = fs]
        OBVIOUS
      <3>2. y = [x EXCEPT !.fase = "executou", !.conversa = w]
        BY <2>1, <2>3, <3>1 DEF PerguntaEm
      <3>3. QED
        BY <1>2, <1>5, <2>2, <3>1, <3>2 DEF ChamarFerramenta, TrocaIA
    <2>6. QED
      BY <1>2, <1>3, <2>4, <2>5, TrocaMesmo
  <1>6. QED
    BY <1>4, <1>5

LEMMA AndarTurnos ==
    ASSUME IInvTurnos, NEW q \in Perguntas,
           \/ RecusarPergunta(q) \/ FerramentaRecusada(q) \/ Auditar(q) \/ Redigir(q)
    PROVE  HerdadoBem'
  <1>1. PICK F : pergunta[q] \in PerguntaEm(F)
    BY TrocaForma DEF IInvTurnos
  <1>2. UNCHANGED <<conversas, mexeu>>
    BY DEF RecusarPergunta, FerramentaRecusada, Auditar, Redigir
  <1>3. PICK x : x = pergunta[q] /\ x \in PerguntaEm(F) /\ RetomadaDe(x)
    BY <1>1, TrocaForma DEF IInvTurnos
  <1>4. PICK y, z : y = ProximoPasso(x) /\ z = [x EXCEPT !.fase = "redigiu"]
    OBVIOUS
  <1>5. CASE RecusarPergunta(q) \/ Redigir(q)
    <2>1. TrocaIA(q, z)
      BY <1>3, <1>4, <1>5 DEF RecusarPergunta, Redigir, TrocaIA
    <2>2. QED
      BY <1>2, <1>3, <1>4, <2>1, RedigiuMesmo, TrocaMesmo
  <1>6. CASE FerramentaRecusada(q) \/ Auditar(q)
    <2>1. x.fase # "livre"
      BY <1>3, <1>6 DEF FerramentaRecusada, Auditar
    <2>2. y \in PerguntaEm(F) /\ z \in PerguntaEm(F)
      <3>1. Andou(x, ProximoPasso(x), F)
        BY <1>3, <2>1, PassoBom
      <3>2. Andou(x, [x EXCEPT !.fase = "redigiu"], F)
        BY <1>3, <2>1, RedigiuBom
      <3>3. QED
        BY <1>4, <3>1, <3>2 DEF Andou
    <2>3. PICK u : u \in {y, z, ComRastro(y), ComRastro(z)} /\ TrocaIA(q, u)
      BY <1>3, <1>4, <1>6 DEF FerramentaRecusada, Auditar, TrocaIA
    <2>4. MesmoLastro(x, y)
      BY <1>3, <1>4, PassoMesmo
    <2>5. MesmoLastro(x, z)
      BY <1>3, <1>4, RedigiuMesmo
    <2>6. MesmoLastro(y, ComRastro(y))
      BY <2>2, RastroMesmo
    <2>7. MesmoLastro(z, ComRastro(z))
      BY <2>2, RastroMesmo
    <2>8. MesmoLastro(x, u)
      BY <2>3, <2>4, <2>5, <2>6, <2>7 DEF MesmoLastro
    <2>9. QED
      BY <1>2, <1>3, <2>3, <2>8, TrocaMesmo
  <1>7. QED
    BY <1>5, <1>6

LEMMA LivreLastro ==
    ASSUME NEW cs, Len(cs) \in Nat
    PROVE  LastroDe(PerguntaLivre, cs)
  BY DEF LastroDe, PerguntaLivre, Vazia

LEMMA VerificarTurnos ==
    ASSUME IInvTurnos, NEW q \in Perguntas, Verificar(q) \/ CairPergunta(q)
    PROVE  HerdadoBem'
  <1>1. PICK F : pergunta[q] \in PerguntaEm(F)
    BY TrocaForma DEF IInvTurnos
  <1>2. UNCHANGED <<conversas, mexeu>>
    BY DEF Verificar, CairPergunta
  <1>3. LastroDe(pergunta[q], conversas)
    BY DEF IInvTurnos, HerdadoBem
  <1>4. CASE Verificar(q)
    <2>1. PICK x \in PerguntaEm(F) : x = pergunta[q]
      BY <1>1
    <2>2. PICK l : l = Rederivado(x.anteriores, x.conversa)
      OBVIOUS
    <2>3. l \in SUBSET Fatos
      BY <1>3, <2>1, <2>2 DEF LastroDe, Rederivado
    <2>4. PICK y : y = [x EXCEPT !.fase = "verificada", !.lastro = l]
      OBVIOUS
    <2>5. y.lastro = l /\ y.anteriores = x.anteriores /\ y.conversa = x.conversa
      BY <2>4 DEF PerguntaEm
    <2>6. LastroDe(y, conversas)
      BY <1>3, <2>1, <2>3, <2>5 DEF LastroDe
    <2>7. TrocaIA(q, y)
      BY <1>4, <2>1, <2>2, <2>4 DEF Verificar, TrocaIA
    <2>8. QED
      BY <1>2, <2>6, <2>7, TrocaLastro
  <1>5. CASE CairPergunta(q)
    <2>1. PICK y : y = PerguntaLivre
      OBVIOUS
    <2>2. LastroDe(y, conversas)
      BY <2>1, LivreLastro DEF IInvTurnos, IInvIA, TiposIA
    <2>3. TrocaIA(q, y)
      BY <1>5, <2>1 DEF CairPergunta, TrocaIA
    <2>4. QED
      BY <1>2, <2>2, <2>3, TrocaLastro
  <1>6. QED
    BY <1>4, <1>5

LEMMA PersistirTurnos ==
    ASSUME IInvTurnos, NEW q \in Perguntas, Persistir(q)
    PROVE  HerdadoBem'
  <1>1. PICK F : pergunta \in [Perguntas -> PerguntaEm(F)]
    BY DEF IInvTurnos, IInvIA, TiposIA
  <1>2. PICK x : x = pergunta[q].conversa /\ x \in Conversa
    BY <1>1 DEF PerguntaEm
  <1>3. PICK n : n = Len(conversas)
    OBVIOUS
  <1>4. n \in Nat /\ DOMAIN conversas = 1..n /\ conversas \in Seq(Conversa)
    BY <1>3 DEF IInvTurnos, IInvIA, TiposIA
  <1>5. \A r \in Perguntas : LastroDe(pergunta[r], conversas)
    BY DEF IInvTurnos, HerdadoBem
  <1>6. x.pai \in 0..n
    BY <1>2, <1>3, <1>5 DEF LastroDe
  <1>7. /\ Len(conversas') = n + 1
        /\ \A i \in 1..n : conversas'[i] = conversas[i]
        /\ conversas'[n + 1] = x
        /\ conversas' \in Seq(Conversa)
    <2>1. conversas' = Append(conversas, x)
      BY <1>2 DEF Persistir
    <2>2. QED
      BY <1>2, <1>3, <1>4, <2>1, AppendProperties
  <1>8. DOMAIN conversas' = 1..(n + 1)
    BY <1>7
  <1>9. PaisAntes(conversas')
    <2>1. \A i \in 1..n : conversas[i].pai \in 0..(i - 1)
      BY <1>4 DEF IInvTurnos, HerdadoBem, PaisAntes
    <2>2. ASSUME NEW i \in 1..(n + 1) PROVE conversas'[i].pai \in 0..(i - 1)
      <3>1. CASE i \in 1..n
        BY <1>7, <2>1, <3>1
      <3>2. CASE i = n + 1
        BY <1>4, <1>6, <1>7, <3>2
      <3>3. QED
        BY <1>4, <3>1, <3>2
    <2>3. QED
      BY <1>8, <2>2 DEF PaisAntes
  <1>10. /\ pergunta'[q] = PerguntaLivre
         /\ \A r \in Perguntas : r # q => pergunta'[r] = pergunta[r]
    BY <1>1 DEF Persistir
  <1>11. Len(conversas') \in Nat /\ \A k \in 0..n : k \in 0..(n + 1)
    BY <1>4, <1>7
  <1>12. LastroDe(PerguntaLivre, conversas')
    BY <1>11, LivreLastro
  <1>13. \A r \in Perguntas : LastroDe(pergunta[r], conversas')
    BY <1>3, <1>5, <1>7, <1>11 DEF LastroDe
  <1>14. \A r \in Perguntas : LastroDe(pergunta'[r], conversas')
    BY <1>10, <1>12, <1>13
  <1>15. mexeu' \in 0..MaxEscopoIA
    BY DEF Persistir, IInvTurnos, HerdadoBem
  <1>16. QED
    BY <1>9, <1>14, <1>15 DEF HerdadoBem

LEMMA AmbienteTurnos ==
    ASSUME IInvTurnos, NEW e \in EntesIA, Retificar(e) \/ MudarEscopo(e)
    PROVE  HerdadoBem'
  <1>1. UNCHANGED <<conversas, pergunta>>
    BY DEF Retificar, MudarEscopo
  <1>2. mexeu' \in 0..MaxEscopoIA
    BY AssistenteAssumption DEF Retificar, MudarEscopo, IInvTurnos, HerdadoBem
  <1>3. QED
    BY <1>1, <1>2 DEF IInvTurnos, HerdadoBem

LEMMA TurnosInit == InitAssistente => IInvTurnos
  <1> SUFFICES ASSUME InitAssistente PROVE IInvTurnos
    OBVIOUS
  <1>1. IInvIA
    BY InitIA
  <1>2. conversas = <<>> /\ mexeu = 0 /\ \A q \in Perguntas : pergunta[q] = PerguntaLivre
    BY DEF InitAssistente
  <1>3. Len(conversas) = 0 /\ DOMAIN conversas = {}
    BY <1>2
  <1>4. PaisAntes(conversas)
    BY <1>3 DEF PaisAntes
  <1>5. LastroDe(PerguntaLivre, conversas)
    BY <1>3, LivreLastro
  <1>6. mexeu \in 0..MaxEscopoIA
    BY <1>2, AssistenteAssumption
  <1>7. QED
    BY <1>1, <1>2, <1>4, <1>5, <1>6 DEF IInvTurnos, HerdadoBem

LEMMA TurnosPasso == IInvTurnos /\ [NextAssistente]_assistenteVars => IInvTurnos'
  <1> SUFFICES ASSUME IInvTurnos, [NextAssistente]_assistenteVars PROVE IInvTurnos'
    OBVIOUS
  <1>1. IInvIA'
    BY PassoIA DEF IInvTurnos
  <1>2. HerdadoBem'
    <2>1. CASE UNCHANGED assistenteVars
      BY <2>1 DEF assistenteVars, IInvTurnos, HerdadoBem
    <2>2. CASE \E e \in EntesIA : Retificar(e) \/ MudarEscopo(e)
      BY <2>2, AmbienteTurnos
    <2>3. ASSUME NEW q \in Perguntas, NEW c \in 0..Len(conversas),
                 NEW e \in EntesIA \cup {NenhumEnte}, NEW k \in Cortes, Perguntar(q, c, e, k)
          PROVE  HerdadoBem'
      BY <2>3, PerguntarTurnos
    <2>4. ASSUME NEW q \in Perguntas, NEW v \in VersoesIA,
                 \/ \E t \in BOOLEAN : Fundamentar(q, v, t)
                 \/ ChamarFerramenta(q, v)
          PROVE  HerdadoBem'
      BY <2>4, LerTurnos
    <2>5. ASSUME NEW q \in Perguntas,
                 \/ RecusarPergunta(q) \/ FerramentaRecusada(q) \/ Auditar(q)
                 \/ Redigir(q) \/ Verificar(q) \/ Persistir(q) \/ CairPergunta(q)
          PROVE  HerdadoBem'
      BY <2>5, AndarTurnos, VerificarTurnos, PersistirTurnos
    <2>6. QED
      BY <2>1, <2>2, <2>3, <2>4, <2>5 DEF NextAssistente
  <1>3. QED
    BY <1>1, <1>2 DEF IInvTurnos

LEMMA TurnosTipos == IInvTurnos => TypeOKAssistente
  <1> SUFFICES ASSUME IInvTurnos PROVE TypeOKAssistente
    OBVIOUS
  <1>1. PICK F : pergunta \in [Perguntas -> PerguntaEm(F)]
    BY DEF IInvTurnos, IInvIA, TiposIA
  <1>2. ASSUME NEW q \in Perguntas PROVE pergunta[q] \in Pergunta
    <2>1. pergunta[q] \in PerguntaEm(F)
      BY <1>1
    <2>2. pergunta[q].anteriores \in SUBSET Fatos /\ pergunta[q].lastro \in SUBSET Fatos
      BY DEF IInvTurnos, HerdadoBem, LastroDe
    <2>3. QED
      BY <2>1, <2>2 DEF PerguntaEm, Pergunta
  <1>3. pergunta \in [Perguntas -> Pergunta]
    BY <1>1, <1>2
  <1>4. QED
    BY <1>3 DEF IInvTurnos, IInvIA, TiposIA, HerdadoBem, TypeOKAssistente

\* The types of the rows and the requests, for any number of conversations.
THEOREM TipoAssistenteSempre == SpecAssistente => []TypeOKAssistente
  BY TurnosInit, TurnosPasso, TurnosTipos, PTL DEF SpecAssistente

-----------------------------------------------------------------------------
(* The brake on failed logins                                              *)

LEMMA SeqMaior ==
    ASSUME NEW X, NEW Y, X \subseteq Y, NEW q \in Seq(X)
    PROVE  q \in Seq(Y)
  <1>1. \A i \in 1..Len(q) : q[i] \in X
    BY ElementOfSeq
  <1>2. q = [i \in 1..Len(q) |-> q[i]] /\ Len(q) \in Nat
    BY LenProperties
  <1>3. QED
    BY <1>1, <1>2, IsASeq

\* The first n of a queue are older than the window, and the next one is not.
Caem(fila, agora, n) ==
    /\ n \in 0..Len(fila)
    /\ \A i \in 1..n : ~NaJanela(fila[i], agora)
    /\ n < Len(fila) => NaJanela(fila[n + 1], agora)

\* There is one such number, and the queue without them is the rest of it.
LEMMA CaiUm ==
    ASSUME NEW fila \in Seq(Nat), NEW agora \in Int
    PROVE  /\ Caem(fila, agora, Vencidos(fila, agora))
           /\ \A n : Caem(fila, agora, n) => n = Vencidos(fila, agora)
  <1>1. PICK l \in Nat : l = Len(fila)
    OBVIOUS
  <1>2. PICK S : S = {n \in 0..l : n < l => NaJanela(fila[n + 1], agora)}
    OBVIOUS
  <1>3. l \in S /\ S \subseteq Nat
    BY <1>2
  <1>4. PICK n \in S : \A k \in S : n <= k
    BY <1>3, PrimeiroDeles
  <1>5. ASSUME NEW i \in 1..n PROVE ~NaJanela(fila[i], agora)
    <2>1. i - 1 \in 0..l /\ ~(n <= i - 1) /\ i - 1 < l
      BY <1>2, <1>4
    <2>2. i - 1 \notin S
      BY <1>4, <2>1
    <2>3. (i - 1) + 1 = i
      OBVIOUS
    <2>4. QED
      BY <1>2, <2>1, <2>2, <2>3
  <1>6. Caem(fila, agora, n)
    BY <1>1, <1>2, <1>4, <1>5 DEF Caem
  <1>7. ASSUME NEW a, NEW b, Caem(fila, agora, a), Caem(fila, agora, b)
        PROVE  ~(a < b)
    <2>1. SUFFICES ASSUME a < b PROVE FALSE
      OBVIOUS
    <2>2. a \in Nat /\ b \in Nat /\ b <= l
      BY <1>1, <1>7 DEF Caem
    <2>3. a + 1 \in 1..b /\ a < l
      BY <2>1, <2>2
    <2>4. QED
      BY <1>1, <1>7, <2>3 DEF Caem
  <1>8. \A a, b : Caem(fila, agora, a) /\ Caem(fila, agora, b) => a = b
    <2>1. SUFFICES ASSUME NEW a, NEW b, Caem(fila, agora, a), Caem(fila, agora, b)
                   PROVE  a = b
      OBVIOUS
    <2>2. ~(a < b) /\ ~(b < a)
      BY <1>7, <2>1
    <2>3. a \in Nat /\ b \in Nat
      BY <1>1, <2>1 DEF Caem
    <2>4. QED
      BY <2>2, <2>3
  <1>9. Vencidos(fila, agora) = CHOOSE k \in 0..Len(fila) : Caem(fila, agora, k)
    BY DEF Vencidos, Caem
  <1>10. \E k \in 0..Len(fila) : Caem(fila, agora, k)
    BY <1>6 DEF Caem
  <1>11. Caem(fila, agora, Vencidos(fila, agora))
    BY <1>9, <1>10
  <1>12. QED
    BY <1>8, <1>11

LEMMA Resto ==
    ASSUME NEW fila \in Seq(Nat), NEW agora \in Int, NEW n, Caem(fila, agora, n)
    PROVE  /\ SemVencidos(fila, agora) \in Seq(Nat)
           /\ Len(SemVencidos(fila, agora)) = Len(fila) - n
           /\ \A i \in 1..(Len(fila) - n) : SemVencidos(fila, agora)[i] = fila[n + i]
  <1>1. n = Vencidos(fila, agora) /\ n \in 0..Len(fila) /\ Len(fila) \in Nat
    <2>1. n = Vencidos(fila, agora)
      BY CaiUm
    <2>2. n \in 0..Len(fila)
      BY DEF Caem
    <2>3. QED
      BY <2>1, <2>2, LenProperties
  <1>2. PICK r : r = SubSeq(fila, n + 1, Len(fila)) /\ r = SemVencidos(fila, agora)
    BY <1>1 DEF SemVencidos
  <1>3. \A i \in (n + 1)..Len(fila) : fila[i] \in Nat
    BY <1>1, ElementOfSeq
  <1>4. /\ r \in Seq(Nat)
        /\ Len(r) = IF n + 1 <= Len(fila) THEN Len(fila) - (n + 1) + 1 ELSE 0
        /\ \A i \in 1..(Len(fila) - (n + 1) + 1) : r[i] = fila[(n + 1) + i - 1]
    <2>1. PICK a \in Int, z \in Int : a = n + 1 /\ z = Len(fila)
      BY <1>1
    <2>2. \A i \in a..z : fila[i] \in Nat
      BY <1>3, <2>1
    <2>3. /\ SubSeq(fila, a, z) \in Seq(Nat)
          /\ Len(SubSeq(fila, a, z)) = IF a <= z THEN z - a + 1 ELSE 0
          /\ \A i \in 1..(z - a + 1) : SubSeq(fila, a, z)[i] = fila[a + i - 1]
      BY <2>2, SubSeqProperties
    <2>4. QED
      BY <1>2, <2>1, <2>3
  <1>5. Len(r) = Len(fila) - n
    <2>1. PICK l \in Nat : l = Len(fila) /\ n \in 0..l
      BY <1>1
    <2>2. Len(r) = IF n + 1 <= l THEN l - (n + 1) + 1 ELSE 0
      BY <1>4, <2>1
    <2>3. Len(r) = l - n
      BY <2>1, <2>2
    <2>4. QED
      BY <2>1, <2>3
  <1>6. \A i \in 1..(Len(fila) - n) : r[i] = fila[n + i]
    <2>1. PICK l \in Nat : l = Len(fila)
      BY <1>1
    <2>2. SUFFICES ASSUME NEW i \in 1..(l - n) PROVE r[i] = fila[n + i]
      BY <2>1
    <2>3. i \in 1..(l - (n + 1) + 1) /\ (n + 1) + i - 1 = n + i
      BY <1>1, <2>1, <2>2
    <2>4. r[i] = fila[(n + 1) + i - 1]
      BY <1>4, <2>1, <2>3
    <2>5. QED
      BY <2>3, <2>4
  <1>7. QED
    BY <1>2, <1>4, <1>5, <1>6

\* The failures of the history are the last of the queue, from the first one that
\* is not older than the window.
Sufixo(f, e, d) ==
    /\ d \in 0..Len(e) /\ Len(f) = Len(e) - d
    /\ \A i \in 1..Len(f) : f[i] = e[d + i]

EmVoo == {t \in Tentativas : tentativa[t] = "em_voo"}

IInvLogin ==
    /\ relogioLogin \in InstantesLogin
    /\ eventos \in Seq(Nat) /\ falhou \in Seq(Nat)
    /\ tentativa \in [Tentativas -> {"livre", "em_voo", "recusada"}]
    /\ \E d : Caem(eventos, relogioLogin, d) /\ Sufixo(falhou, eventos, d)
    /\ Len(falhou) + Cardinality(EmVoo) <= Limite + Cardinality(Tentativas) - 1

LEMMA EmVooContado ==
    ASSUME NEW s
    PROVE  LET v == {t \in Tentativas : s[t] = "em_voo"} IN
           /\ IsFiniteSet(v) /\ Cardinality(v) \in Nat
           /\ Cardinality(v) <= Cardinality(Tentativas) /\ Cardinality(Tentativas) \in Nat
  <1> DEFINE v == {t \in Tentativas : s[t] = "em_voo"}
  <1>1. v \subseteq Tentativas
    OBVIOUS
  <1> HIDE DEF v
  <1>2. IsFiniteSet(v) /\ Cardinality(v) <= Cardinality(Tentativas)
    BY <1>1, JanelaAssumption, FS_Subset
  <1>3. Cardinality(v) \in Nat /\ Cardinality(Tentativas) \in Nat
    BY <1>2, JanelaAssumption, FS_CardinalityType
  <1>4. QED
    BY <1>2, <1>3 DEF v

\* What the code drops at an instant is what the history no longer counts.
LEMMA ExpirarDeixa ==
    ASSUME IInvLogin
    PROVE  /\ Expirar(eventos) \in Seq(Nat)
           /\ Len(Expirar(eventos)) = Len(falhou)
           /\ \A i \in 1..Len(falhou) : Expirar(eventos)[i] = falhou[i]
           /\ Len(falhou) \in Nat
           /\ Len(falhou) > 0 => NaJanela(falhou[1], relogioLogin)
  <1>1. PICK d : Caem(eventos, relogioLogin, d) /\ Sufixo(falhou, eventos, d)
    BY DEF IInvLogin
  <1>2. /\ eventos \in Seq(Nat) /\ falhou \in Seq(Nat) /\ relogioLogin \in Int
        /\ Len(eventos) \in Nat /\ Len(falhou) \in Nat
    BY DEF IInvLogin, InstantesLogin
  <1>3. PICK r : r = Expirar(eventos) /\ r = SemVencidos(eventos, relogioLogin)
    BY DEF Expirar
  <1>4. /\ r \in Seq(Nat) /\ Len(r) = Len(eventos) - d
        /\ \A i \in 1..(Len(eventos) - d) : r[i] = eventos[d + i]
    BY <1>1, <1>2, <1>3, Resto
  <1>5. d \in Nat /\ Len(falhou) = Len(eventos) - d
    BY <1>1 DEF Sufixo
  <1>6. \A i \in 1..Len(falhou) : r[i] = falhou[i]
    BY <1>1, <1>4, <1>5 DEF Sufixo
  <1>7. Len(falhou) > 0 => NaJanela(falhou[1], relogioLogin)
    <2>1. SUFFICES ASSUME Len(falhou) > 0 PROVE NaJanela(falhou[1], relogioLogin)
      OBVIOUS
    <2>2. 1 \in 1..Len(falhou) /\ d < Len(eventos)
      BY <1>2, <1>5, <2>1
    <2>3. QED
      BY <1>1, <2>2 DEF Caem, Sufixo
  <1>8. QED
    BY <1>2, <1>3, <1>4, <1>5, <1>6, <1>7

\* Two queues that are the same, with nothing to drop.
LEMMA NadaCai ==
    ASSUME NEW e \in Seq(Nat), NEW f \in Seq(Nat), NEW agora \in Int,
           Len(e) = Len(f), \A i \in 1..Len(f) : e[i] = f[i],
           Len(e) > 0 => NaJanela(e[1], agora)
    PROVE  Caem(e, agora, 0) /\ Sufixo(f, e, 0)
  <1>1. Len(e) \in Nat
    OBVIOUS
  <1>2. Caem(e, agora, 0)
    BY <1>1 DEF Caem
  <1>3. Sufixo(f, e, 0)
    BY <1>1 DEF Sufixo
  <1>4. QED
    BY <1>2, <1>3

LEMMA PerguntaLogin ==
    ASSUME IInvLogin, NEW t \in Tentativas, Passar(t) \/ Bloquear(t)
    PROVE  IInvLogin'
  <1>1. /\ eventos' = Expirar(eventos) /\ UNCHANGED <<relogioLogin, falhou>>
        /\ relogioLogin \in Int /\ falhou \in Seq(Nat)
    BY DEF Passar, Bloquear, IInvLogin, InstantesLogin
  <1>2. /\ eventos' \in Seq(Nat) /\ Len(eventos') = Len(falhou)
        /\ \A i \in 1..Len(falhou) : eventos'[i] = falhou[i]
        /\ Len(falhou) \in Nat
        /\ Len(falhou) > 0 => NaJanela(falhou[1], relogioLogin)
    BY <1>1, ExpirarDeixa
  <1>3. Len(eventos') > 0 => NaJanela(eventos'[1], relogioLogin)
    BY <1>2
  <1>4. Caem(eventos', relogioLogin, 0) /\ Sufixo(falhou, eventos', 0)
    BY <1>1, <1>2, <1>3, NadaCai
  <1>5. tentativa' \in [Tentativas -> {"livre", "em_voo", "recusada"}]
    BY DEF Passar, Bloquear, IInvLogin
  <1>6. Len(falhou) + Cardinality(EmVoo') <= Limite + Cardinality(Tentativas) - 1
    <2>1. CASE Passar(t)
      <3>1. Len(falhou) < Limite
        BY <1>1, <1>2, <2>1, JanelaAssumption DEF Passar, Cheia
      <3>2. Cardinality(EmVoo') <= Cardinality(Tentativas) /\ Cardinality(EmVoo') \in Nat
            /\ Cardinality(Tentativas) \in Nat
        BY EmVooContado DEF EmVoo
      <3>3. QED
        BY <1>2, <3>1, <3>2, JanelaAssumption
    <2>2. CASE Bloquear(t)
      <3>1. EmVoo' = EmVoo
        BY <2>2 DEF Bloquear, EmVoo, IInvLogin
      <3>2. QED
        BY <3>1 DEF IInvLogin
    <2>3. QED
      BY <2>1, <2>2
  <1>7. QED
    BY <1>1, <1>2, <1>4, <1>5, <1>6 DEF IInvLogin

LEMMA SaiDoVoo ==
    ASSUME IInvLogin, NEW t \in Tentativas, tentativa[t] = "em_voo",
           tentativa' = [tentativa EXCEPT ![t] = "livre"]
    PROVE  /\ Cardinality(EmVoo') = Cardinality(EmVoo) - 1
           /\ Cardinality(EmVoo') \in Nat
           /\ Cardinality(EmVoo) <= Cardinality(Tentativas) /\ Cardinality(Tentativas) \in Nat
           /\ tentativa' \in [Tentativas -> {"livre", "em_voo", "recusada"}]
  <1>1. EmVoo' = EmVoo \ {t} /\ t \in EmVoo
    BY DEF IInvLogin, EmVoo
  <1>2. IsFiniteSet(EmVoo) /\ Cardinality(EmVoo) \in Nat
    BY EmVooContado DEF EmVoo
  <1>3. Cardinality(EmVoo) <= Cardinality(Tentativas) /\ Cardinality(Tentativas) \in Nat
    BY EmVooContado DEF EmVoo
  <1>4. Cardinality(EmVoo') \in Nat
    BY EmVooContado DEF EmVoo
  <1>5. QED
    BY <1>1, <1>2, <1>3, <1>4, FS_RemoveElement DEF IInvLogin

LEMMA RegistrarLogin ==
    ASSUME IInvLogin, NEW t \in Tentativas, Registrar(t)
    PROVE  IInvLogin'
  <1>1. PICK a \in Nat : a = relogioLogin /\ relogioLogin' = a /\ a \in InstantesLogin
    BY DEF Registrar, IInvLogin, InstantesLogin
  <1>2. PICK r : r = Expirar(eventos)
    OBVIOUS
  <1>3. /\ r \in Seq(Nat) /\ Len(r) = Len(falhou) /\ Len(falhou) \in Nat
        /\ \A i \in 1..Len(falhou) : r[i] = falhou[i]
        /\ Len(falhou) > 0 => NaJanela(falhou[1], a)
    BY <1>1, <1>2, ExpirarDeixa
  <1>4. eventos' = Append(r, a) /\ falhou' = Append(falhou, a) /\ falhou \in Seq(Nat)
    BY <1>1, <1>2 DEF Registrar, IInvLogin
  <1>5. /\ eventos' \in Seq(Nat) /\ Len(eventos') = Len(falhou) + 1
        /\ eventos'[Len(falhou) + 1] = a
        /\ \A i \in 1..Len(falhou) : eventos'[i] = r[i]
    BY <1>3, <1>4, AppendProperties
  <1>6. /\ falhou' \in Seq(Nat) /\ Len(falhou') = Len(falhou) + 1
        /\ falhou'[Len(falhou) + 1] = a
        /\ \A i \in 1..Len(falhou) : falhou'[i] = falhou[i]
    BY <1>4, AppendProperties
  <1>7. \A i \in 1..Len(falhou') : eventos'[i] = falhou'[i]
    <2>1. \A i \in 1..Len(falhou') : i \in 1..Len(falhou) \/ i = Len(falhou) + 1
      BY <1>3, <1>6
    <2>2. QED
      BY <1>3, <1>5, <1>6, <2>1
  <1>8. NaJanela(eventos'[1], a)
    <2>1. CASE Len(falhou) > 0
      BY <1>3, <1>5, <2>1
    <2>2. CASE Len(falhou) = 0
      BY <1>5, <2>2, JanelaAssumption DEF NaJanela
    <2>3. QED
      BY <1>3, <2>1, <2>2
  <1>9. Caem(eventos', relogioLogin', 0) /\ Sufixo(falhou', eventos', 0)
    BY <1>1, <1>5, <1>6, <1>7, <1>8, NadaCai
  <1>10. /\ Cardinality(EmVoo') = Cardinality(EmVoo) - 1 /\ Cardinality(EmVoo') \in Nat
         /\ tentativa' \in [Tentativas -> {"livre", "em_voo", "recusada"}]
    BY SaiDoVoo DEF Registrar
  <1>11. Len(falhou') + Cardinality(EmVoo') <= Limite + Cardinality(Tentativas) - 1
    <2>1. Len(falhou) + Cardinality(EmVoo) <= Limite + Cardinality(Tentativas) - 1
      BY DEF IInvLogin
    <2>2. Cardinality(EmVoo) \in Nat
      BY EmVooContado DEF EmVoo
    <2>3. Len(falhou') + Cardinality(EmVoo') = Len(falhou) + Cardinality(EmVoo)
      <3>1. PICK k \in Nat : k = Cardinality(EmVoo)
        BY <2>2
      <3>2. Cardinality(EmVoo') = k - 1
        BY <1>10, <3>1
      <3>3. Len(falhou) \in Nat /\ Len(falhou') = Len(falhou) + 1
        BY <1>3, <1>6, LenProperties DEF IInvLogin
      <3>4. QED
        BY <3>1, <3>2, <3>3
    <2>4. QED
      BY <2>1, <2>3
  <1>12. QED
    BY <1>1, <1>5, <1>6, <1>9, <1>10, <1>11 DEF IInvLogin

LEMMA AcertarLogin ==
    ASSUME IInvLogin, NEW t \in Tentativas, Acertar200(t)
    PROVE  IInvLogin'
  <1>1. /\ eventos' = <<>> /\ falhou' = <<>> /\ relogioLogin' = relogioLogin
        /\ relogioLogin \in InstantesLogin /\ relogioLogin \in Int
    BY DEF Acertar200, IInvLogin, InstantesLogin
  <1>2. Caem(eventos', relogioLogin', 0) /\ Sufixo(falhou', eventos', 0)
    BY <1>1, EmptySeq DEF Caem, Sufixo
  <1>3. /\ Cardinality(EmVoo') = Cardinality(EmVoo) - 1 /\ Cardinality(EmVoo') \in Nat
        /\ Cardinality(EmVoo) <= Cardinality(Tentativas) /\ Cardinality(Tentativas) \in Nat
        /\ tentativa' \in [Tentativas -> {"livre", "em_voo", "recusada"}]
    BY SaiDoVoo DEF Acertar200
  <1>4. Cardinality(EmVoo) \in Nat
    BY EmVooContado DEF EmVoo
  <1>5. Len(falhou') + Cardinality(EmVoo') <= Limite + Cardinality(Tentativas) - 1
    BY <1>1, <1>3, <1>4, JanelaAssumption
  <1>6. QED
    BY <1>1, <1>2, <1>3, <1>5 DEF IInvLogin

LEMMA OutraLogin ==
    ASSUME IInvLogin, NEW t \in Tentativas, OutraResposta(t)
    PROVE  IInvLogin'
  <1>1. UNCHANGED <<relogioLogin, eventos, falhou>>
    BY DEF OutraResposta
  <1>2. tentativa' \in [Tentativas -> {"livre", "em_voo", "recusada"}]
    BY DEF OutraResposta, IInvLogin
  <1>3. EmVoo' \subseteq EmVoo
    BY DEF OutraResposta, IInvLogin, EmVoo
  <1>4. IsFiniteSet(EmVoo)
    BY EmVooContado DEF EmVoo
  <1>5. Cardinality(EmVoo') <= Cardinality(EmVoo)
    BY <1>3, <1>4, FS_Subset
  <1>6. /\ Cardinality(EmVoo') \in Nat /\ Cardinality(EmVoo) \in Nat
    <2>1. Cardinality(EmVoo) \in Nat
      BY EmVooContado DEF EmVoo
    <2>2. Cardinality(EmVoo') \in Nat
      BY EmVooContado DEF EmVoo
    <2>3. QED
      BY <2>1, <2>2
  <1>7. Len(falhou) \in Nat /\ Cardinality(Tentativas) \in Nat
    BY JanelaAssumption, FS_CardinalityType, LenProperties DEF IInvLogin
  <1>8. Len(falhou) + Cardinality(EmVoo') <= Limite + Cardinality(Tentativas) - 1
    BY <1>5, <1>6, <1>7, JanelaAssumption DEF IInvLogin
  <1>9. QED
    BY <1>1, <1>2, <1>8 DEF IInvLogin

\* As time passes the history drops from its front what the queue will drop.
LEMMA InstanteLogin ==
    ASSUME IInvLogin, PassarInstante
    PROVE  IInvLogin'
  <1>1. PICK a \in Nat : a = relogioLogin /\ relogioLogin' = a + 1 /\ a + 1 \in InstantesLogin
    BY JanelaAssumption DEF PassarInstante, IInvLogin, InstantesLogin
  <1>2. PICK e \in Seq(Nat) : e = eventos /\ eventos' = e
    BY DEF PassarInstante, IInvLogin
  <1>3. PICK f \in Seq(Nat) : f = falhou
    BY DEF IInvLogin
  <1>4. PICK d : Caem(e, a, d) /\ Sufixo(f, e, d)
    BY <1>1, <1>2, <1>3 DEF IInvLogin
  <1>5. PICK n : n = Vencidos(f, a + 1)
    OBVIOUS
  <1>6. Caem(f, a + 1, n)
    BY <1>5, CaiUm
  <1>7. /\ falhou' \in Seq(Nat) /\ Len(falhou') = Len(f) - n
        /\ \A i \in 1..(Len(f) - n) : falhou'[i] = f[n + i]
    <2>1. falhou' = SemVencidos(f, a + 1)
      BY <1>1, <1>3 DEF PassarInstante
    <2>2. QED
      BY <1>6, <2>1, Resto
  <1>8. /\ d \in Nat /\ n \in Nat /\ Len(e) \in Nat /\ Len(f) = Len(e) - d
        /\ d <= Len(e) /\ n <= Len(f)
    BY <1>4, <1>6 DEF Sufixo, Caem
  <1>9. PICK m : m = d + n
    OBVIOUS
  <1>10. Sufixo(falhou', e, m)
    <2>1. m \in 0..Len(e) /\ Len(falhou') = Len(e) - m
      BY <1>7, <1>8, <1>9
    <2>2. \A i \in 1..Len(falhou') : n + i \in 1..Len(f) /\ falhou'[i] = f[n + i]
      BY <1>7, <1>8
    <2>3. \A i \in 1..Len(falhou') : f[n + i] = e[d + (n + i)]
      BY <1>4, <2>2 DEF Sufixo
    <2>4. \A i \in 1..Len(falhou') : falhou'[i] = e[m + i]
      <3>1. \A i \in 1..Len(falhou') : d + (n + i) = m + i
        BY <1>8, <1>9
      <3>2. QED
        BY <2>2, <2>3, <3>1
    <2>5. QED
      BY <2>1, <2>4 DEF Sufixo
  <1>11. Caem(e, a + 1, m)
    <2>1. m \in 0..Len(e)
      BY <1>8, <1>9
    <2>2. ASSUME NEW i \in 1..m PROVE ~NaJanela(e[i], a + 1)
      <3>1. CASE i <= d
        <4>1. i \in 1..d /\ e[i] \in Nat
          BY <1>8, <2>1, <3>1, ElementOfSeq
        <4>2. ~NaJanela(e[i], a)
          BY <1>4, <4>1 DEF Caem
        <4>3. QED
          BY <4>1, <4>2, JanelaAssumption DEF NaJanela
      <3>2. CASE ~(i <= d)
        <4>1. i - d \in 1..n /\ i - d \in 1..Len(f) /\ d + (i - d) = i
          BY <1>8, <1>9, <3>2
        <4>2. ~NaJanela(f[i - d], a + 1) /\ f[i - d] = e[d + (i - d)]
          BY <1>4, <1>6, <4>1 DEF Caem, Sufixo
        <4>3. QED
          BY <4>1, <4>2
      <3>3. QED
        BY <3>1, <3>2
    <2>3. ASSUME m < Len(e) PROVE NaJanela(e[m + 1], a + 1)
      <3>1. n < Len(f) /\ n + 1 \in 1..Len(f) /\ d + (n + 1) = m + 1
        BY <1>8, <1>9, <2>3
      <3>2. NaJanela(f[n + 1], a + 1) /\ f[n + 1] = e[d + (n + 1)]
        BY <1>4, <1>6, <3>1 DEF Caem, Sufixo
      <3>3. QED
        BY <3>1, <3>2
    <2>4. QED
      BY <2>1, <2>2, <2>3 DEF Caem
  <1>12. UNCHANGED <<tentativa, EmVoo>>
    BY DEF PassarInstante, EmVoo
  <1>13. Len(falhou') + Cardinality(EmVoo') <= Limite + Cardinality(Tentativas) - 1
    <2>1. Cardinality(EmVoo) \in Nat /\ Cardinality(Tentativas) \in Nat
      BY EmVooContado DEF EmVoo
    <2>2. Len(f) + Cardinality(EmVoo) <= Limite + Cardinality(Tentativas) - 1
      BY <1>3 DEF IInvLogin
    <2>3. QED
      BY <1>7, <1>8, <1>12, <2>1, <2>2, JanelaAssumption, SMTT(20)
  <1>14. QED
    BY <1>1, <1>2, <1>7, <1>10, <1>11, <1>12, <1>13 DEF IInvLogin

LEMMA LoginInit == InitLogin => IInvLogin
  <1> SUFFICES ASSUME InitLogin PROVE IInvLogin
    OBVIOUS
  <1>1. EmVoo = {}
    BY DEF InitLogin, EmVoo
  <1>2. Cardinality(EmVoo) = 0
    BY <1>1, FS_EmptySet
  <1>3. Cardinality(Tentativas) \in Nat /\ Cardinality(Tentativas) # 0
    BY JanelaAssumption, FS_CardinalityType, FS_EmptySet
  <1>4. relogioLogin \in InstantesLogin /\ relogioLogin \in Int
    BY JanelaAssumption DEF InitLogin, InstantesLogin
  <1>5. /\ eventos = <<>> /\ falhou = <<>>
    BY DEF InitLogin
  <1>6. Caem(eventos, relogioLogin, 0) /\ Sufixo(falhou, eventos, 0)
    BY <1>4, <1>5, EmptySeq DEF Caem, Sufixo
  <1>7. Len(falhou) + Cardinality(EmVoo) <= Limite + Cardinality(Tentativas) - 1
    BY <1>2, <1>3, <1>5, JanelaAssumption
  <1>8. QED
    BY <1>4, <1>5, <1>6, <1>7 DEF IInvLogin, InitLogin

LEMMA LoginPasso == IInvLogin /\ [NextLogin]_loginVars => IInvLogin'
  <1> SUFFICES ASSUME IInvLogin, [NextLogin]_loginVars PROVE IInvLogin'
    OBVIOUS
  <1>1. CASE UNCHANGED loginVars
    BY <1>1 DEF loginVars, IInvLogin, EmVoo
  <1>2. ASSUME NEW t \in Tentativas,
               \/ Passar(t) \/ Bloquear(t) \/ Registrar(t)
               \/ Acertar200(t) \/ OutraResposta(t)
        PROVE  IInvLogin'
    BY <1>2, PerguntaLogin, RegistrarLogin, AcertarLogin, OutraLogin
  <1>3. CASE PassarInstante
    BY <1>3, InstanteLogin
  <1>4. QED
    BY <1>1, <1>2, <1>3 DEF NextLogin

\* For any limit, window and number of attempts in flight.
THEOREM FreioConcorrenteSempre == SpecLogin => []FreioConcorrente
  <1>1. IInvLogin => FreioConcorrente
    <2>1. Cardinality(EmVoo) \in Nat /\ Cardinality(Tentativas) \in Nat
      BY EmVooContado DEF EmVoo
    <2>2. QED
      BY <2>1, JanelaAssumption DEF IInvLogin, FreioConcorrente
  <1>2. QED
    BY <1>1, LoginInit, LoginPasso, PTL DEF SpecLogin

\* A queue in order of time, whose last failure is not in the future.
EmDia(s, agora) ==
    /\ s \in Seq(InstantesLogin)
    /\ \A i \in DOMAIN s : s[i] <= agora
    /\ \A i, j \in DOMAIN s : i < j => s[i] <= s[j]

\* What is left of a queue when the old failures are dropped.
LEMMA SobraDaFila ==
    ASSUME NEW s \in Seq(InstantesLogin), NEW agora \in Nat
    PROVE  /\ SemVencidos(s, agora) \in Seq(InstantesLogin)
           /\ \A x : EmDia(s, x) => EmDia(SemVencidos(s, agora), x)
  <1>1. s \in Seq(Nat)
    BY SeqMaior, JanelaAssumption DEF InstantesLogin
  <1>2. PICK n : n = Vencidos(s, agora) /\ Caem(s, agora, n)
    BY <1>1, CaiUm
  <1>3. PICK l \in Nat : l = Len(s) /\ DOMAIN s = 1..l /\ n \in 0..l
    BY <1>2, LenProperties DEF Caem
  <1>4. PICK r : r = SemVencidos(s, agora)
    OBVIOUS
  <1>5. /\ r \in Seq(Nat) /\ Len(r) = l - n
        /\ \A i \in 1..(l - n) : r[i] = s[n + i]
    <2>1. agora \in Int /\ Caem(s, agora, n)
      BY <1>2
    <2>2. /\ SemVencidos(s, agora) \in Seq(Nat)
          /\ Len(SemVencidos(s, agora)) = Len(s) - n
          /\ \A i \in 1..(Len(s) - n) : SemVencidos(s, agora)[i] = s[n + i]
      BY <1>1, <2>1, Resto
    <2>3. QED
      BY <1>3, <1>4, <2>2
  <1>6. PICK k \in Nat : k = l - n /\ DOMAIN r = 1..k /\ r = [i \in 1..k |-> r[i]]
    BY <1>3, <1>5, LenProperties
  <1>7. \A i \in 1..k : n + i \in 1..l /\ r[i] = s[n + i]
    BY <1>3, <1>5, <1>6
  <1>8. \A i \in 1..k : r[i] \in InstantesLogin
    BY <1>3, <1>7, ElementOfSeq
  <1>9. r \in Seq(InstantesLogin)
    BY <1>6, <1>8, IsASeq
  <1>10. ASSUME NEW x, EmDia(s, x) PROVE EmDia(r, x)
    <2>1. \A i \in 1..k : r[i] <= x
      BY <1>3, <1>7, <1>10 DEF EmDia
    <2>2. ASSUME NEW i \in 1..k, NEW j \in 1..k, i < j PROVE r[i] <= r[j]
      <3>1. n + i \in 1..l /\ n + j \in 1..l /\ n + i < n + j
        BY <1>3, <1>7, <2>2
      <3>2. s[n + i] <= s[n + j]
        BY <1>3, <1>10, <3>1 DEF EmDia
      <3>3. QED
        BY <1>7, <3>2
    <2>3. QED
      BY <1>6, <1>9, <2>1, <2>2 DEF EmDia
  <1>11. QED
    BY <1>4, <1>9, <1>10

LEMMA MaisUmNaFila ==
    ASSUME NEW agora \in InstantesLogin, NEW s, EmDia(s, agora)
    PROVE  EmDia(Append(s, agora), agora)
  <1>1. s \in Seq(InstantesLogin)
    BY DEF EmDia
  <1>2. PICK l \in Nat : l = Len(s) /\ DOMAIN s = 1..l
    BY <1>1, LenProperties
  <1>3. PICK r : r = Append(s, agora)
    OBVIOUS
  <1>4. /\ r \in Seq(InstantesLogin) /\ DOMAIN r = 1..(l + 1) /\ r[l + 1] = agora
        /\ \A i \in 1..l : r[i] = s[i]
    BY <1>1, <1>2, <1>3, AppendProperties, LenProperties
  <1>5. agora \in Nat
    BY JanelaAssumption DEF InstantesLogin
  <1>6. \A i \in 1..(l + 1) : i \in 1..l \/ i = l + 1
    OBVIOUS
  <1>7. \A i \in 1..(l + 1) : r[i] <= agora
    BY <1>2, <1>4, <1>5, <1>6 DEF EmDia
  <1>8. ASSUME NEW i \in 1..(l + 1), NEW j \in 1..(l + 1), i < j PROVE r[i] <= r[j]
    <2>1. CASE j \in 1..l
      <3>1. i \in 1..l
        BY <1>8, <2>1
      <3>2. s[i] <= s[j]
        BY <1>2, <1>8, <2>1, <3>1 DEF EmDia
      <3>3. QED
        BY <1>4, <2>1, <3>1, <3>2
    <2>2. CASE j = l + 1
      BY <1>4, <1>7, <2>2
    <2>3. QED
      BY <1>6, <2>1, <2>2
  <1>9. QED
    BY <1>3, <1>4, <1>7, <1>8 DEF EmDia

IInvFila ==
    /\ relogioLogin \in InstantesLogin
    /\ EmDia(eventos, relogioLogin)
    /\ tentativa \in [Tentativas -> {"livre", "em_voo", "recusada"}]
    /\ falhou \in Seq(InstantesLogin)

LEMMA FilaInit == InitLogin => IInvFila
  <1> SUFFICES ASSUME InitLogin PROVE IInvFila
    OBVIOUS
  <1>1. DOMAIN <<>> = {}
    OBVIOUS
  <1>2. EmDia(<<>>, relogioLogin)
    BY <1>1, EmptySeq DEF EmDia
  <1>3. QED
    BY <1>2, EmptySeq, JanelaAssumption DEF InitLogin, IInvFila, InstantesLogin

LEMMA FilaPasso == IInvFila /\ [NextLogin]_loginVars => IInvFila'
  <1> SUFFICES ASSUME IInvFila, [NextLogin]_loginVars PROVE IInvFila'
    OBVIOUS
  <1>1. CASE UNCHANGED loginVars
    BY <1>1 DEF loginVars, IInvFila
  <1>2. PICK a \in InstantesLogin : a = relogioLogin /\ a \in Nat
    BY JanelaAssumption DEF IInvFila, InstantesLogin
  <1>3. PICK e \in Seq(InstantesLogin), f \in Seq(InstantesLogin) : e = eventos /\ f = falhou
    BY DEF IInvFila, EmDia
  <1>4. EmDia(e, a)
    BY <1>2, <1>3 DEF IInvFila
  <1>5. PICK r : r = SemVencidos(e, a)
    OBVIOUS
  <1>6. Expirar(eventos) = r /\ EmDia(r, a)
    BY <1>2, <1>3, <1>4, <1>5, SobraDaFila DEF Expirar
  <1>7. ASSUME NEW t \in Tentativas, Passar(t) \/ Bloquear(t) PROVE IInvFila'
    BY <1>2, <1>6, <1>7 DEF Passar, Bloquear, IInvFila
  <1>8. ASSUME NEW t \in Tentativas, Registrar(t) PROVE IInvFila'
    <2>1. EmDia(Append(r, a), a)
      BY <1>6, MaisUmNaFila
    <2>2. Append(f, a) \in Seq(InstantesLogin)
      BY AppendProperties
    <2>3. /\ eventos' = Append(r, a) /\ falhou' = Append(f, a) /\ relogioLogin' = a
          /\ tentativa' \in [Tentativas -> {"livre", "em_voo", "recusada"}]
      BY <1>2, <1>3, <1>6, <1>8 DEF Registrar, IInvFila
    <2>4. QED
      BY <2>1, <2>2, <2>3 DEF IInvFila
  <1>9. ASSUME NEW t \in Tentativas, Acertar200(t) PROVE IInvFila'
    <2>1. DOMAIN <<>> = {}
      OBVIOUS
    <2>2. EmDia(<<>>, a)
      BY <2>1, EmptySeq DEF EmDia
    <2>3. QED
      BY <1>2, <1>9, <2>2, EmptySeq DEF Acertar200, IInvFila
  <1>10. ASSUME NEW t \in Tentativas, OutraResposta(t) PROVE IInvFila'
    BY <1>10 DEF OutraResposta, IInvFila
  <1>11. CASE PassarInstante
    <2>1. a + 1 \in InstantesLogin /\ a + 1 \in Nat /\ relogioLogin' = a + 1
      BY <1>2, <1>11, JanelaAssumption DEF PassarInstante, InstantesLogin
    <2>2. falhou' = SemVencidos(f, a + 1) /\ eventos' = e /\ UNCHANGED tentativa
      BY <1>2, <1>3, <1>11 DEF PassarInstante
    <2>3. falhou' \in Seq(InstantesLogin)
      BY <2>1, <2>2, SobraDaFila
    <2>4. \A i \in DOMAIN e : e[i] \in Nat /\ e[i] <= a
      <3>1. \A i \in 1..Len(e) : e[i] \in InstantesLogin
        BY ElementOfSeq
      <3>2. DOMAIN e = 1..Len(e)
        BY LenProperties
      <3>3. \A x \in InstantesLogin : x \in Nat
        BY JanelaAssumption DEF InstantesLogin
      <3>4. QED
        BY <1>4, <3>1, <3>2, <3>3 DEF EmDia
    <2>5. \A i \in DOMAIN e : e[i] <= a + 1
      <3>1. SUFFICES ASSUME NEW i \in DOMAIN e PROVE e[i] <= a + 1
        OBVIOUS
      <3>2. PICK x \in Nat : x = e[i] /\ x <= a
        BY <2>4
      <3>3. QED
        BY <1>2, <3>2
    <2>6. EmDia(e, a + 1)
      BY <1>4, <2>5 DEF EmDia
    <2>7. QED
      BY <2>1, <2>2, <2>3, <2>6 DEF IInvFila
  <1>12. QED
    BY <1>1, <1>7, <1>8, <1>9, <1>10, <1>11 DEF NextLogin

\* The queue of a key stays in order of time, however its attempts interleave.
THEOREM TipoLoginSempre == SpecLogin => []TypeOKLogin
  <1>1. IInvFila => TypeOKLogin
    BY DEF IInvFila, EmDia, TypeOKLogin
  <1>2. QED
    BY <1>1, FilaInit, FilaPasso, PTL DEF SpecLogin

-----------------------------------------------------------------------------
(* The cached pages of the grid                                            *)

LeituraEm(K) ==
    [fase: {"livre", "identificada", "sem_cache", "lida", "servida"},
     inicio: Instantes, chave: K, geracao: Geracoes]

\* Generation x was in force at i or later, when g is in force and f says when
\* each earlier one ended.
Vigia(x, i, g, f) == x = g \/ f[x] >= i

LeituraBoa(r, i, g, f) ==
    /\ r.fase # "livre" => r.inicio <= i /\ i - r.inicio <= DuracaoMax
    /\ r.fase = "lida" => Vigia(r.geracao, r.inicio, g, f)
    /\ r.fase = "servida" => Vigia(r.geracao, i - (Ttl + DuracaoMax), g, f)

EntradaBoa(p, i, g, f) ==
    /\ p.geracao \in Geracoes /\ p.guardada \in Instantes /\ p.guardada <= i
    /\ Vigia(p.geracao, p.guardada - DuracaoMax, g, f)

\* A queue of pages all of which are good.
PaginasBoas(q, i, g, f) ==
    \E X : q \in Seq(X) /\ \A x \in X : EntradaBoa(x, i, g, f)

LeiturasBoas(s, i, g, f) ==
    /\ \E K : s \in [Leitores -> LeituraEm(K)]
    /\ \A t \in Leitores : LeituraBoa(s[t], i, g, f)

IInvGrade ==
    /\ instante \in Instantes /\ geracao \in Geracoes
    /\ fim \in [Geracoes -> Instantes]
    /\ escrita \in [Escritores -> Escrita]
    /\ LeiturasBoas(leitura, instante, geracao, fim)
    /\ PaginasBoas(paginas, instante, geracao, fim)

LEMMA InstantesInt ==
    /\ \A x \in Instantes : x \in Nat /\ x \in Int
    /\ \A x \in Geracoes : x \in Nat /\ x \in Int
  BY GradeAssumption DEF Instantes, Geracoes

LEMMA AcrescentaBoa ==
    ASSUME NEW q, NEW p, NEW i, NEW g, NEW f, PaginasBoas(q, i, g, f), EntradaBoa(p, i, g, f)
    PROVE  PaginasBoas(Append(q, p), i, g, f)
  <1>1. PICK X : q \in Seq(X) /\ \A x \in X : EntradaBoa(x, i, g, f)
    BY DEF PaginasBoas
  <1>2. PICK Y : Y = X \cup {p}
    OBVIOUS
  <1>3. q \in Seq(Y) /\ p \in Y
    BY <1>1, <1>2, SeqMaior
  <1>4. Append(q, p) \in Seq(Y)
    BY <1>3, AppendProperties
  <1>5. \A x \in Y : EntradaBoa(x, i, g, f)
    BY <1>1, <1>2
  <1>6. QED
    BY <1>4, <1>5 DEF PaginasBoas

\* Taking a page out leaves pages that were there.
LEMMA SemBoa ==
    ASSUME NEW X, paginas \in Seq(X), NEW c
    PROVE  Sem(c) \in Seq(X)
  <1>1. CASE Posicao(c) = {}
    BY <1>1 DEF Sem
  <1>2. CASE Posicao(c) # {}
    <2>1. PICK i : i = (CHOOSE j \in Posicao(c) : TRUE)
      OBVIOUS
    <2>2. i \in Posicao(c)
      BY <1>2, <2>1
    <2>3. PICK l \in Nat : l = Len(paginas) /\ DOMAIN paginas = 1..l
      BY LenProperties
    <2>4. i \in 1..l
      BY <2>2, <2>3 DEF Posicao
    <2>5. l - 1 \in Nat
      BY <2>4
    <2>6. \A k \in 1..(l - 1) : (IF k < i THEN k ELSE k + 1) \in 1..l
      BY <2>4
    <2>7. \A k \in 1..(l - 1) : paginas[IF k < i THEN k ELSE k + 1] \in X
      BY <2>3, <2>6, ElementOfSeq
    <2>8. PICK r : r = [k \in 1..(l - 1) |-> paginas[IF k < i THEN k ELSE k + 1]]
      OBVIOUS
    <2>9. r \in Seq(X)
      BY <2>5, <2>7, <2>8, IsASeq
    <2>10. Sem(c) = r
      BY <1>2, <2>1, <2>3, <2>8 DEF Sem
    <2>11. QED
      BY <2>9, <2>10
  <1>3. QED
    BY <1>1, <1>2

LEMMA SemBoas ==
    ASSUME NEW c, PaginasBoas(paginas, instante, geracao, fim)
    PROVE  PaginasBoas(Sem(c), instante, geracao, fim)
  <1>1. PICK X : paginas \in Seq(X) /\ \A x \in X : EntradaBoa(x, instante, geracao, fim)
    BY DEF PaginasBoas
  <1>2. Sem(c) \in Seq(X)
    BY <1>1, SemBoa
  <1>3. QED
    BY <1>1, <1>2 DEF PaginasBoas

LEMMA PaginaBoa ==
    ASSUME NEW j \in DOMAIN paginas, PaginasBoas(paginas, instante, geracao, fim)
    PROVE  EntradaBoa(paginas[j], instante, geracao, fim)
  <1>1. PICK X : paginas \in Seq(X) /\ \A x \in X : EntradaBoa(x, instante, geracao, fim)
    BY DEF PaginasBoas
  <1>2. j \in 1..Len(paginas)
    BY <1>1, LenProperties
  <1>3. paginas[j] \in X
    BY <1>1, <1>2, ElementOfSeq
  <1>4. QED
    BY <1>1, <1>3

\* The request t is the only one that changes.
TrocaLeitura(s, n, t, r) == n = [s EXCEPT ![t] = r]

LEMMA LeituraTroca ==
    ASSUME NEW s, NEW n, NEW K, NEW t \in Leitores, NEW r, NEW i, NEW g, NEW f,
           s \in [Leitores -> LeituraEm(K)],
           LeiturasBoas(s, i, g, f), TrocaLeitura(s, n, t, r), r \in LeituraEm(K),
           LeituraBoa(r, i, g, f)
    PROVE  LeiturasBoas(n, i, g, f)
  <1>1. n \in [Leitores -> LeituraEm(K)]
    BY DEF TrocaLeitura
  <1>2. \A u \in Leitores : n[u] = r \/ n[u] = s[u]
    BY DEF TrocaLeitura
  <1>3. \A u \in Leitores : LeituraBoa(n[u], i, g, f)
    BY <1>2 DEF LeiturasBoas
  <1>4. QED
    BY <1>1, <1>3 DEF LeiturasBoas

\* Every other action of a request: what it does to itself and to the pages.
LEMMA PassoDeLeitura ==
    ASSUME IInvGrade, UNCHANGED <<instante, geracao, fim, escrita>>,
           LeiturasBoas(leitura', instante, geracao, fim),
           PaginasBoas(paginas', instante, geracao, fim)
    PROVE  IInvGrade'
  BY DEF IInvGrade

\* A queue wider than its keys: any key may be taken in.
LEMMA MaisChaves ==
    ASSUME NEW s, NEW K, s \in [Leitores -> LeituraEm(K)], NEW c
    PROVE  s \in [Leitores -> LeituraEm(K \cup {c})]
  BY DEF LeituraEm

LEMMA IdentificarMantem ==
    ASSUME IInvGrade, NEW t \in Leitores, NEW o \in Orgs, Identificar(t, o)
    PROVE  IInvGrade'
  <1>1. PICK K : leitura \in [Leitores -> LeituraEm(K)]
    BY DEF IInvGrade, LeiturasBoas
  <1>2. PICK c : c = ChaveDe(o)
    OBVIOUS
  <1>3. PICK r : r = [fase |-> "identificada", inicio |-> instante, chave |-> c,
                      geracao |-> 0]
    OBVIOUS
  <1>4. r \in LeituraEm(K \cup {c})
    BY <1>3, GradeAssumption DEF IInvGrade, LeituraEm, Geracoes
  <1>5. LeituraBoa(r, instante, geracao, fim)
    BY <1>3, GradeAssumption, InstantesInt DEF IInvGrade, LeituraBoa
  <1>6. TrocaLeitura(leitura, leitura', t, r)
    BY <1>2, <1>3 DEF Identificar, TrocaLeitura
  <1>7. leitura \in [Leitores -> LeituraEm(K \cup {c})]
    BY <1>1, MaisChaves
  <1>8. LeiturasBoas(leitura, instante, geracao, fim)
    BY DEF IInvGrade
  <1>9. LeiturasBoas(leitura', instante, geracao, fim)
    BY <1>4, <1>5, <1>6, <1>7, <1>8, LeituraTroca
  <1>10. PaginasBoas(paginas', instante, geracao, fim)
    BY DEF Identificar, IInvGrade
  <1>11. UNCHANGED <<instante, geracao, fim, escrita>>
    BY DEF Identificar
  <1>12. QED
    BY <1>9, <1>10, <1>11, PassoDeLeitura

LEMMA AcertarMantem ==
    ASSUME IInvGrade, NEW t \in Leitores, Acertar(t)
    PROVE  IInvGrade'
  <1>1. PICK K : leitura \in [Leitores -> LeituraEm(K)]
    BY DEF IInvGrade, LeiturasBoas
  <1>2. PICK a \in LeituraEm(K) : a = leitura[t] /\ a.fase = "identificada"
    BY <1>1 DEF Acertar
  <1>3. PICK j \in Posicao(a.chave) :
          /\ ~Vencida(paginas[j])
          /\ paginas' = Append(Sem(a.chave), paginas[j])
          /\ leitura' = [leitura EXCEPT ![t] =
                [fase |-> "servida", inicio |-> a.inicio,
                 chave |-> a.chave, geracao |-> paginas[j].geracao]]
    BY <1>2 DEF Acertar
  <1>4. j \in DOMAIN paginas
    BY <1>3 DEF Posicao
  <1>5. PICK p : p = paginas[j]
    OBVIOUS
  <1>6. EntradaBoa(p, instante, geracao, fim)
    BY <1>4, <1>5, PaginaBoa DEF IInvGrade
  <1>7. PICK r : r = [fase |-> "servida", inicio |-> a.inicio,
                      chave |-> a.chave, geracao |-> p.geracao]
    OBVIOUS
  <1>8. r \in LeituraEm(K)
    BY <1>2, <1>6, <1>7 DEF LeituraEm, EntradaBoa
  <1>9. LeituraBoa(r, instante, geracao, fim)
    <2>1. LeituraBoa(a, instante, geracao, fim)
      BY <1>2 DEF IInvGrade, LeiturasBoas
    <2>2. a.inicio <= instante /\ instante - a.inicio <= DuracaoMax
      BY <1>2, <2>1 DEF LeituraBoa
    <2>3. PICK i \in Nat, k \in Nat : i = instante /\ k = p.guardada
      BY <1>6, InstantesInt DEF EntradaBoa, IInvGrade
    <2>3a. i - k <= Ttl
      <3>1. ~(i - k > Ttl)
        BY <1>3, <1>5, <2>3 DEF Vencida
      <3>2. QED
        BY <3>1, GradeAssumption
    <2>4. PICK h \in Int : h = fim[p.geracao]
      <3>1. fim[p.geracao] \in Instantes
        BY <1>6 DEF IInvGrade, EntradaBoa
      <3>2. QED
        BY <3>1, InstantesInt
    <2>5. p.geracao = geracao \/ h >= k - DuracaoMax
      BY <1>6, <2>3, <2>4 DEF EntradaBoa, Vigia
    <2>6. p.geracao = geracao \/ h >= i - (Ttl + DuracaoMax)
      BY <2>5, <2>3a, GradeAssumption
    <2>7. Vigia(p.geracao, instante - (Ttl + DuracaoMax), geracao, fim)
      BY <2>3, <2>4, <2>6 DEF Vigia
    <2>8. QED
      BY <1>7, <2>2, <2>7 DEF LeituraBoa
  <1>10. TrocaLeitura(leitura, leitura', t, r)
    BY <1>3, <1>5, <1>7 DEF TrocaLeitura
  <1>11. LeiturasBoas(leitura, instante, geracao, fim)
    BY DEF IInvGrade
  <1>12. LeiturasBoas(leitura', instante, geracao, fim)
    BY <1>1, <1>8, <1>9, <1>10, <1>11, LeituraTroca
  <1>13. PaginasBoas(Sem(a.chave), instante, geracao, fim)
    BY SemBoas DEF IInvGrade
  <1>14. PaginasBoas(paginas', instante, geracao, fim)
    BY <1>3, <1>5, <1>6, <1>13, AcrescentaBoa
  <1>15. UNCHANGED <<instante, geracao, fim, escrita>>
    BY DEF Acertar
  <1>16. QED
    BY <1>12, <1>14, <1>15, PassoDeLeitura

LEMMA ErrarMantem ==
    ASSUME IInvGrade, NEW t \in Leitores, Errar(t)
    PROVE  IInvGrade'
  <1>1. PICK K : leitura \in [Leitores -> LeituraEm(K)]
    BY DEF IInvGrade, LeiturasBoas
  <1>2. PICK a \in LeituraEm(K) : a = leitura[t] /\ a.fase = "identificada"
    BY <1>1 DEF Errar
  <1>3. PICK r : r = [a EXCEPT !.fase = "sem_cache"]
    OBVIOUS
  <1>4. /\ r \in LeituraEm(K) /\ r.fase = "sem_cache" /\ r.inicio = a.inicio
    BY <1>2, <1>3 DEF LeituraEm
  <1>5. LeituraBoa(a, instante, geracao, fim)
    BY <1>2 DEF IInvGrade, LeiturasBoas
  <1>6. LeituraBoa(r, instante, geracao, fim)
    BY <1>2, <1>4, <1>5 DEF LeituraBoa
  <1>7. TrocaLeitura(leitura, leitura', t, r)
    BY <1>1, <1>2, <1>3 DEF Errar, TrocaLeitura
  <1>8. LeiturasBoas(leitura, instante, geracao, fim)
    BY DEF IInvGrade
  <1>9. LeiturasBoas(leitura', instante, geracao, fim)
    BY <1>1, <1>4, <1>6, <1>7, <1>8, LeituraTroca
  <1>10. PaginasBoas(paginas', instante, geracao, fim)
    BY SemBoas DEF IInvGrade, Errar
  <1>11. UNCHANGED <<instante, geracao, fim, escrita>>
    BY DEF Errar
  <1>12. QED
    BY <1>9, <1>10, <1>11, PassoDeLeitura

LEMMA LerPaginaMantem ==
    ASSUME IInvGrade, NEW t \in Leitores, LerPagina(t)
    PROVE  IInvGrade'
  <1>1. PICK K : leitura \in [Leitores -> LeituraEm(K)]
    BY DEF IInvGrade, LeiturasBoas
  <1>2. PICK a \in LeituraEm(K) : a = leitura[t] /\ a.fase = "sem_cache"
    BY <1>1 DEF LerPagina
  <1>3. PICK r : r = [a EXCEPT !.fase = "lida", !.geracao = geracao]
    OBVIOUS
  <1>4. /\ r \in LeituraEm(K) /\ r.fase = "lida" /\ r.inicio = a.inicio
        /\ r.geracao = geracao
    BY <1>2, <1>3 DEF LeituraEm, IInvGrade
  <1>5. LeituraBoa(a, instante, geracao, fim)
    BY <1>2 DEF IInvGrade, LeiturasBoas
  <1>6. LeituraBoa(r, instante, geracao, fim)
    BY <1>2, <1>4, <1>5 DEF LeituraBoa, Vigia
  <1>7. TrocaLeitura(leitura, leitura', t, r)
    BY <1>1, <1>2, <1>3 DEF LerPagina, TrocaLeitura
  <1>8. LeiturasBoas(leitura, instante, geracao, fim)
    BY DEF IInvGrade
  <1>9. LeiturasBoas(leitura', instante, geracao, fim)
    BY <1>1, <1>4, <1>6, <1>7, <1>8, LeituraTroca
  <1>10. PaginasBoas(paginas', instante, geracao, fim)
    BY DEF LerPagina, IInvGrade
  <1>11. UNCHANGED <<instante, geracao, fim, escrita>>
    BY DEF LerPagina
  <1>12. QED
    BY <1>9, <1>10, <1>11, PassoDeLeitura

\* The page stored was read no earlier than the request began.
LEMMA GuardarMantem ==
    ASSUME IInvGrade, NEW t \in Leitores, Guardar(t)
    PROVE  IInvGrade'
  <1>1. PICK K : leitura \in [Leitores -> LeituraEm(K)]
    BY DEF IInvGrade, LeiturasBoas
  <1>2. PICK a \in LeituraEm(K) : a = leitura[t] /\ a.fase = "lida"
    BY <1>1 DEF Guardar
  <1>3. PICK p : p = [chave |-> a.chave, geracao |-> a.geracao, guardada |-> instante]
    OBVIOUS
  <1>4. PICK r : r = [a EXCEPT !.fase = "servida"]
    OBVIOUS
  <1>5. /\ r \in LeituraEm(K) /\ r.fase = "servida" /\ r.inicio = a.inicio
        /\ r.geracao = a.geracao
    BY <1>2, <1>4 DEF LeituraEm
  <1>6. LeituraBoa(a, instante, geracao, fim)
    BY <1>2 DEF IInvGrade, LeiturasBoas
  <1>7. a.geracao \in Geracoes /\ a.inicio \in Instantes /\ instante \in Instantes
    BY <1>2 DEF LeituraEm, IInvGrade
  <1>8. PICK h \in Int : h = fim[a.geracao]
    <2>1. fim[a.geracao] \in Instantes
      BY <1>7 DEF IInvGrade
    <2>2. QED
      BY <2>1, InstantesInt
  <1>9. /\ a.inicio <= instante /\ instante - a.inicio <= DuracaoMax
        /\ a.geracao = geracao \/ h >= a.inicio
    BY <1>2, <1>6, <1>8 DEF LeituraBoa, Vigia
  <1>10. /\ a.geracao = geracao \/ h >= instante - DuracaoMax
         /\ a.geracao = geracao \/ h >= instante - (Ttl + DuracaoMax)
    <2>1. PICK i \in Nat, k \in Nat : i = instante /\ k = a.inicio
      BY <1>7, InstantesInt
    <2>2. i - k <= DuracaoMax /\ k <= i /\ (a.geracao = geracao \/ h >= k)
      BY <1>9, <2>1
    <2>3. h >= k => h >= i - DuracaoMax /\ h >= i - (Ttl + DuracaoMax)
      BY <2>2, GradeAssumption
    <2>4. QED
      BY <2>1, <2>2, <2>3
  <1>11. EntradaBoa(p, instante, geracao, fim)
    BY <1>3, <1>7, <1>8, <1>10, InstantesInt DEF EntradaBoa, Vigia
  <1>12. LeituraBoa(r, instante, geracao, fim)
    BY <1>5, <1>8, <1>9, <1>10 DEF LeituraBoa, Vigia
  <1>13. TrocaLeitura(leitura, leitura', t, r)
    BY <1>1, <1>2, <1>4 DEF Guardar, TrocaLeitura
  <1>14. LeiturasBoas(leitura, instante, geracao, fim)
    BY DEF IInvGrade
  <1>15. LeiturasBoas(leitura', instante, geracao, fim)
    BY <1>1, <1>5, <1>12, <1>13, <1>14, LeituraTroca
  <1>16. PICK q : q = Append(Sem(a.chave), p)
    OBVIOUS
  <1>17. PaginasBoas(q, instante, geracao, fim)
    <2>1. PaginasBoas(Sem(a.chave), instante, geracao, fim)
      BY SemBoas DEF IInvGrade
    <2>2. QED
      BY <1>11, <1>16, <2>1, AcrescentaBoa
  <1>18. q # <<>>
    <2>1. PICK X : paginas \in Seq(X)
      BY DEF IInvGrade, PaginasBoas
    <2>2. Sem(a.chave) \in Seq(X \cup {p})
      BY <2>1, SemBoa, SeqMaior
    <2>3. QED
      BY <1>16, <2>2, AppendProperties
  <1>19. PaginasBoas(Tail(q), instante, geracao, fim)
    <2>1. PICK X : q \in Seq(X) /\ \A x \in X : EntradaBoa(x, instante, geracao, fim)
      BY <1>17 DEF PaginasBoas
    <2>2. Tail(q) \in Seq(X)
      BY <1>18, <2>1, HeadTailProperties
    <2>3. QED
      BY <2>1, <2>2 DEF PaginasBoas
  <1>20. paginas' = Tail(q) \/ paginas' = q
    BY <1>2, <1>3, <1>16 DEF Guardar
  <1>21. PaginasBoas(paginas', instante, geracao, fim)
    BY <1>17, <1>19, <1>20
  <1>22. UNCHANGED <<instante, geracao, fim, escrita>>
    BY DEF Guardar
  <1>23. QED
    BY <1>15, <1>21, <1>22, PassoDeLeitura

LEMMA ResponderMantem ==
    ASSUME IInvGrade, NEW t \in Leitores, Responder(t)
    PROVE  IInvGrade'
  <1>1. PICK K : leitura \in [Leitores -> LeituraEm(K)]
    BY DEF IInvGrade, LeiturasBoas
  <1>2. PICK c : c = Livre.chave
    OBVIOUS
  <1>3. Livre \in LeituraEm(K \cup {c}) /\ Livre.fase = "livre"
    BY <1>2, GradeAssumption DEF Livre, LeituraEm, Instantes, Geracoes
  <1>4. LeituraBoa(Livre, instante, geracao, fim)
    BY <1>3 DEF LeituraBoa
  <1>5. TrocaLeitura(leitura, leitura', t, Livre)
    BY DEF Responder, TrocaLeitura
  <1>6. leitura \in [Leitores -> LeituraEm(K \cup {c})]
    BY <1>1, MaisChaves
  <1>7. LeiturasBoas(leitura, instante, geracao, fim)
    BY DEF IInvGrade
  <1>8. LeiturasBoas(leitura', instante, geracao, fim)
    BY <1>3, <1>4, <1>5, <1>6, <1>7, LeituraTroca
  <1>9. PaginasBoas(paginas', instante, geracao, fim)
    BY DEF Responder, IInvGrade
  <1>10. UNCHANGED <<instante, geracao, fim, escrita>>
    BY DEF Responder
  <1>11. QED
    BY <1>8, <1>9, <1>10, PassoDeLeitura

\* A commit ends the generation in force now, later than whatever was asked of it.
LEMMA VigiaDepois ==
    ASSUME NEW x \in Geracoes, NEW g \in Geracoes, NEW i, NEW agora \in Instantes,
           NEW f \in [Geracoes -> Instantes], i <= agora, Vigia(x, i, g, f)
    PROVE  Vigia(x, i, g + 1, [f EXCEPT ![g] = agora])
  <1>1. CASE x = g
    <2>1. [f EXCEPT ![g] = agora][x] = agora
      BY <1>1
    <2>2. QED
      BY <2>1 DEF Vigia
  <1>2. CASE x # g
    BY <1>2 DEF Vigia
  <1>3. QED
    BY <1>1, <1>2

LEMMA ConfirmarMantem ==
    ASSUME IInvGrade, NEW w \in Escritores, ConfirmarEscrita(w)
    PROVE  IInvGrade'
  <1>1. PICK n : n = [fim EXCEPT ![geracao] = instante]
    OBVIOUS
  <1>2. PICK f \in [Geracoes -> Instantes], g \in Geracoes, i \in Instantes :
          f = fim /\ g = geracao /\ i = instante
    BY DEF IInvGrade
  <1>3. fim' = n /\ geracao' = g + 1 /\ instante' = i /\ UNCHANGED <<leitura, paginas>>
    BY <1>1, <1>2 DEF ConfirmarEscrita
  <1>4. n \in [Geracoes -> Instantes] /\ n = [f EXCEPT ![g] = i]
    BY <1>1, <1>2
  <1>5. g + 1 \in Geracoes
    BY <1>2, GradeAssumption DEF ConfirmarEscrita, Geracoes
  <1>6. escrita' \in [Escritores -> Escrita]
    <2>1. Fechada \in Escrita
      BY GradeAssumption DEF Fechada, Escrita, Instantes
    <2>2. QED
      BY <2>1 DEF ConfirmarEscrita, IInvGrade
  <1>7. \A x \in Geracoes, k \in Int : k <= i /\ Vigia(x, k, g, f) => Vigia(x, k, g + 1, n)
    BY <1>2, <1>4, VigiaDepois
  <1>8. LeiturasBoas(leitura, i, g + 1, n)
    <2>1. PICK K : leitura \in [Leitores -> LeituraEm(K)]
      BY DEF IInvGrade, LeiturasBoas
    <2>2. SUFFICES ASSUME NEW t \in Leitores PROVE LeituraBoa(leitura[t], i, g + 1, n)
      BY <2>1 DEF LeiturasBoas
    <2>3. PICK a \in LeituraEm(K) : a = leitura[t]
      BY <2>1
    <2>4. LeituraBoa(a, i, g, f)
      BY <1>2, <2>3 DEF IInvGrade, LeiturasBoas
    <2>5. a.inicio \in Int /\ a.geracao \in Geracoes /\ i \in Nat
      BY <2>3, <1>2, InstantesInt DEF LeituraEm
    <2>6. a.fase = "lida" => a.inicio <= i
      BY <2>4 DEF LeituraBoa
    <2>7. PICK k \in Int : k = i - (Ttl + DuracaoMax) /\ k <= i
      BY <2>5, GradeAssumption
    <2>8. a.fase = "lida" => Vigia(a.geracao, a.inicio, g + 1, n)
      BY <1>7, <2>4, <2>5, <2>6 DEF LeituraBoa
    <2>9. a.fase = "servida" => Vigia(a.geracao, k, g + 1, n)
      BY <1>7, <2>4, <2>5, <2>7 DEF LeituraBoa
    <2>10. QED
      BY <2>3, <2>4, <2>7, <2>8, <2>9 DEF LeituraBoa
  <1>9. PaginasBoas(paginas, i, g + 1, n)
    <2>1. PICK X : paginas \in Seq(X) /\ \A x \in X : EntradaBoa(x, i, g, f)
      BY <1>2 DEF IInvGrade, PaginasBoas
    <2>2. ASSUME NEW x \in X PROVE EntradaBoa(x, i, g + 1, n)
      <3>1. EntradaBoa(x, i, g, f)
        BY <2>1
      <3>2. /\ x.geracao \in Geracoes /\ x.guardada \in Instantes /\ x.guardada <= i
            /\ Vigia(x.geracao, x.guardada - DuracaoMax, g, f)
        BY <3>1 DEF EntradaBoa
      <3>2a. PICK y \in Nat : y = x.guardada /\ y <= i
        BY <3>2, InstantesInt
      <3>2b. i \in Nat
        BY <1>2, InstantesInt
      <3>3. PICK k \in Int : k = x.guardada - DuracaoMax /\ k <= i
        BY <3>2a, <3>2b, GradeAssumption
      <3>4. Vigia(x.geracao, k, g + 1, n)
        BY <1>7, <3>2, <3>3
      <3>5. QED
        BY <3>2, <3>3, <3>4 DEF EntradaBoa
    <2>3. QED
      BY <2>1, <2>2 DEF PaginasBoas
  <1>10. QED
    BY <1>2, <1>3, <1>4, <1>5, <1>6, <1>8, <1>9 DEF IInvGrade

LEMMA AbrirMantem ==
    ASSUME IInvGrade, NEW w \in Escritores, NEW l \in Linhas, AbrirEscrita(w, l)
    PROVE  IInvGrade'
  <1>1. escrita' \in [Escritores -> Escrita]
    BY DEF AbrirEscrita, IInvGrade, Escrita
  <1>2. UNCHANGED <<instante, geracao, fim, leitura, paginas>>
    BY DEF AbrirEscrita
  <1>3. QED
    BY <1>1, <1>2 DEF IInvGrade

\* Time passes: no page is being served, and a request that is read still has
\* an instant left.
LEMMA InstanteMantem ==
    ASSUME IInvGrade, Instante
    PROVE  IInvGrade'
  <1>1. PICK i \in Nat : i = instante /\ instante' = i + 1 /\ i + 1 \in Instantes
    BY GradeAssumption DEF Instante, IInvGrade, Instantes
  <1>2. UNCHANGED <<geracao, fim, escrita, leitura, paginas>>
    BY DEF Instante
  <1>3. LeiturasBoas(leitura, i + 1, geracao, fim)
    <2>1. PICK K : leitura \in [Leitores -> LeituraEm(K)]
      BY DEF IInvGrade, LeiturasBoas
    <2>2. SUFFICES ASSUME NEW t \in Leitores
                   PROVE  LeituraBoa(leitura[t], i + 1, geracao, fim)
      BY <2>1 DEF LeiturasBoas
    <2>3. PICK a \in LeituraEm(K) : a = leitura[t]
      BY <2>1
    <2>4. LeituraBoa(a, i, geracao, fim)
      BY <1>1, <2>3 DEF IInvGrade, LeiturasBoas
    <2>5. a.fase # "servida" /\ (a.fase = "livre" \/ i - a.inicio < DuracaoMax)
      BY <1>1, <2>3 DEF Instante
    <2>6. a.inicio \in Int
      <3>1. a.inicio \in Instantes
        BY <2>3 DEF LeituraEm
      <3>2. QED
        BY <3>1, InstantesInt
    <2>7. a.fase # "livre" => a.inicio <= i + 1 /\ (i + 1) - a.inicio <= DuracaoMax
      BY <2>4, <2>5, <2>6, GradeAssumption DEF LeituraBoa
    <2>8. QED
      BY <2>3, <2>4, <2>5, <2>7 DEF LeituraBoa
  <1>4. PaginasBoas(paginas, i + 1, geracao, fim)
    <2>1. PICK X : paginas \in Seq(X) /\ \A x \in X : EntradaBoa(x, i, geracao, fim)
      BY <1>1 DEF IInvGrade, PaginasBoas
    <2>2. ASSUME NEW x \in X PROVE EntradaBoa(x, i + 1, geracao, fim)
      <3>1. EntradaBoa(x, i, geracao, fim)
        BY <2>1
      <3>2. x.guardada \in Nat /\ x.guardada <= i
        BY <3>1, InstantesInt DEF EntradaBoa
      <3>3. x.guardada <= i + 1
        BY <3>2
      <3>4. QED
        BY <3>1, <3>3 DEF EntradaBoa
    <2>3. QED
      BY <2>1, <2>2 DEF PaginasBoas
  <1>5. QED
    BY <1>1, <1>2, <1>3, <1>4 DEF IInvGrade

LEMMA GradeInit == InitGrade => IInvGrade
  <1> SUFFICES ASSUME InitGrade PROVE IInvGrade
    OBVIOUS
  <1>1. instante \in Instantes /\ geracao \in Geracoes /\ fim \in [Geracoes -> Instantes]
    BY GradeAssumption DEF InitGrade, Instantes, Geracoes
  <1>2. escrita \in [Escritores -> Escrita]
    BY GradeAssumption DEF InitGrade, Fechada, Escrita, Instantes
  <1>3. PICK K : K = {Livre.chave}
    OBVIOUS
  <1>4. Livre \in LeituraEm(K) /\ Livre.fase = "livre"
    BY <1>3, GradeAssumption DEF Livre, LeituraEm, Instantes, Geracoes
  <1>5. LeiturasBoas(leitura, instante, geracao, fim)
    BY <1>4 DEF InitGrade, LeiturasBoas, LeituraBoa
  <1>6. PaginasBoas(paginas, instante, geracao, fim)
    <2>1. paginas \in Seq({})
      BY EmptySeq DEF InitGrade
    <2>2. QED
      BY <2>1 DEF PaginasBoas
  <1>7. QED
    BY <1>1, <1>2, <1>5, <1>6 DEF IInvGrade

LEMMA GradePasso == IInvGrade /\ [NextGrade]_gradeVars => IInvGrade'
  <1> SUFFICES ASSUME IInvGrade, [NextGrade]_gradeVars PROVE IInvGrade'
    OBVIOUS
  <1>1. CASE UNCHANGED gradeVars
    BY <1>1 DEF gradeVars, IInvGrade
  <1>2. ASSUME NEW w \in Escritores, ConfirmarEscrita(w) \/ \E l \in Linhas : AbrirEscrita(w, l)
        PROVE  IInvGrade'
    BY <1>2, ConfirmarMantem, AbrirMantem
  <1>3. ASSUME NEW t \in Leitores, NEW o \in Orgs, Identificar(t, o)
        PROVE  IInvGrade'
    BY <1>3, IdentificarMantem
  <1>4. ASSUME NEW t \in Leitores,
               Acertar(t) \/ Errar(t) \/ LerPagina(t) \/ Guardar(t) \/ Responder(t)
        PROVE  IInvGrade'
    BY <1>4, AcertarMantem, ErrarMantem, LerPaginaMantem, GuardarMantem, ResponderMantem
  <1>5. CASE Instante
    BY <1>5, InstanteMantem
  <1>6. QED
    BY <1>1, <1>2, <1>3, <1>4, <1>5 DEF NextGrade

\* The invariant of the grid, for any number of organisations, requests, rows and
\* commits and any life of an entry.
THEOREM GradeInvariante == SpecGrade => []IInvGrade
  BY GradeInit, GradePasso, PTL DEF SpecGrade

\* A page served was true less than the life of an entry and of one request ago.
THEOREM PaginaRecenteSempre == SpecGrade => []PaginaRecente
  <1>1. IInvGrade => PaginaRecente
    BY DEF IInvGrade, LeiturasBoas, LeituraBoa, Vigia, PaginaRecente, RecenteEm
  <1>2. QED
    BY <1>1, GradeInvariante, PTL

\* The last instant a committed row was written is that of one of them.
LEMMA UltimaEhMarca ==
    ASSUME marcas \in [Linhas -> Marca]
    PROVE  Ultima \in Marca
  <1>1. CASE Gravadas = {}
    BY <1>1 DEF Ultima, Marca
  <1>2. CASE Gravadas # {}
    <2>1. PICK S : S = {MaxInstantes - marcas[l] : l \in Gravadas}
      OBVIOUS
    <2>2. \A l \in Gravadas : l \in Linhas /\ marcas[l] \in Instantes /\ marcas[l] \in Nat
                              /\ marcas[l] <= MaxInstantes
      BY GradeAssumption DEF Gravadas, Marca, Instantes
    <2>3. S \subseteq Nat /\ S # {}
      BY <1>2, <2>1, <2>2, GradeAssumption
    <2>4. PICK n \in S : \A k \in S : n <= k
      BY <2>3, PrimeiroDeles
    <2>5. PICK l \in Gravadas : n = MaxInstantes - marcas[l]
      BY <2>1, <2>4
    <2>6. ASSUME NEW k \in Gravadas PROVE marcas[k] <= marcas[l]
      <3>1. MaxInstantes - marcas[l] <= MaxInstantes - marcas[k]
        BY <2>1, <2>4, <2>5
      <3>2. PICK x \in Nat, y \in Nat : x = marcas[l] /\ y = marcas[k]
        BY <2>2
      <3>3. QED
        BY <3>1, <3>2, GradeAssumption
    <2>7. PICK m : m = (CHOOSE j \in Gravadas : \A k \in Gravadas : marcas[k] <= marcas[j])
      OBVIOUS
    <2>8. m \in Gravadas
      BY <2>6, <2>7
    <2>9. Ultima = marcas[m]
      BY <1>2, <2>7 DEF Ultima
    <2>10. QED
      BY <2>2, <2>8, <2>9 DEF Marca
  <1>3. QED
    BY <1>1, <1>2

LEMMA ChaveDeEhChave ==
    ASSUME marcas \in [Linhas -> Marca], NEW o \in Orgs
    PROVE  ChaveDe(o) \in Chave
  <1>1. Gravadas \in SUBSET Linhas
    BY DEF Gravadas
  <1>2. Cardinality(Gravadas) <= Cardinality(Linhas)
    BY <1>1, GradeAssumption, FS_Subset
  <1>3. Cardinality(Gravadas) \in Nat /\ Cardinality(Linhas) \in Nat
    BY <1>1, GradeAssumption, FS_Subset, FS_CardinalityType
  <1>4. Cardinality(Gravadas) \in 0..Cardinality(Linhas)
    BY <1>2, <1>3
  <1>5. QED
    BY <1>4, UltimaEhMarca DEF ChaveDe, Chave

\* A key taken out leaves no more pages, and one less when it was there.
LEMMA SemEncurta ==
    ASSUME paginas \in Seq(Entrada), NEW c
    PROVE  /\ Sem(c) \in Seq(Entrada) /\ Len(Sem(c)) \in Nat
           /\ Len(Sem(c)) <= Len(paginas)
           /\ Posicao(c) # {} => Len(Sem(c)) = Len(paginas) - 1
  <1>1. Sem(c) \in Seq(Entrada)
    BY SemBoa
  <1>2. Len(Sem(c)) \in Nat /\ Len(paginas) \in Nat
    BY <1>1, LenProperties
  <1>3. CASE Posicao(c) = {}
    BY <1>1, <1>2, <1>3 DEF Sem
  <1>4. CASE Posicao(c) # {}
    <2>1. PICK i : i = (CHOOSE j \in Posicao(c) : TRUE)
      OBVIOUS
    <2>2. PICK l \in Nat : l = Len(paginas) /\ DOMAIN paginas = 1..l
      BY LenProperties
    <2>3. l - 1 \in Nat
      BY <1>4, <2>2 DEF Posicao
    <2>4. PICK r : r = [k \in 1..(l - 1) |-> paginas[IF k < i THEN k ELSE k + 1]]
      OBVIOUS
    <2>5. Sem(c) = r
      BY <1>4, <2>1, <2>2, <2>4 DEF Sem
    <2>6. DOMAIN r = 1..(l - 1)
      BY <2>4
    <2>7. Len(r) = l - 1
      BY <1>1, <2>3, <2>5, <2>6, LenProperties
    <2>8. QED
      BY <1>1, <1>2, <2>2, <2>5, <2>7
  <1>5. QED
    BY <1>3, <1>4

\* What the requests do to themselves and to the pages.
TiposLeitores(s, q) ==
    s \in [Leitores -> Leitura] /\ q \in Seq(Entrada) /\ Len(q) <= MaxEntradas

LEMMA GradeTiposLeitor ==
    ASSUME TypeOKGrade, NEW t \in Leitores,
           \/ \E o \in Orgs : Identificar(t, o)
           \/ Acertar(t) \/ Errar(t) \/ LerPagina(t) \/ Guardar(t) \/ Responder(t)
    PROVE  TypeOKGrade'
  <1> USE GradeAssumption
  <1>1. UNCHANGED <<instante, marcas, geracao, fim, escrita>>
    BY DEF Identificar, Acertar, Errar, LerPagina, Guardar, Responder
  <1>2. PICK a \in Leitura : a = leitura[t]
    BY DEF TypeOKGrade
  <1>3. /\ a.chave \in Chave /\ a.inicio \in Instantes /\ a.geracao \in Geracoes
        /\ paginas \in Seq(Entrada) /\ instante \in Instantes /\ geracao \in Geracoes
        /\ leitura \in [Leitores -> Leitura] /\ marcas \in [Linhas -> Marca]
    BY <1>2 DEF TypeOKGrade, Leitura
  <1>4. PICK n \in Nat : n = Len(paginas) /\ n <= MaxEntradas /\ DOMAIN paginas = 1..n
    BY <1>3, LenProperties DEF TypeOKGrade
  <1>5. PICK s : s = Sem(a.chave) /\ s \in Seq(Entrada)
    BY <1>3, SemEncurta
  <1>6. PICK m \in Nat : m = Len(s) /\ m <= n /\ (Posicao(a.chave) # {} => m = n - 1)
    BY <1>3, <1>4, <1>5, SemEncurta
  <1>7. TiposLeitores(leitura', paginas')
    <2>1. ASSUME NEW o \in Orgs, Identificar(t, o) PROVE TiposLeitores(leitura', paginas')
      <3>1. PICK c \in Chave : c = ChaveDe(o)
        BY <1>3, ChaveDeEhChave
      <3>2. PICK r : r = [fase |-> "identificada", inicio |-> instante, chave |-> c,
                          geracao |-> 0]
        OBVIOUS
      <3>3. r \in Leitura
        BY <1>3, <3>2 DEF Leitura, Geracoes
      <3>4. leitura' = [leitura EXCEPT ![t] = r] /\ paginas' = paginas
        BY <2>1, <3>1, <3>2 DEF Identificar
      <3>5. QED
        BY <1>3, <1>4, <3>3, <3>4 DEF TiposLeitores
    <2>2. CASE Acertar(t)
      <3>1. PICK i \in Posicao(a.chave) :
              /\ paginas' = Append(Sem(a.chave), paginas[i])
              /\ leitura' = [leitura EXCEPT ![t] =
                     [fase |-> "servida", inicio |-> a.inicio,
                      chave |-> a.chave, geracao |-> paginas[i].geracao]]
        BY <1>2, <2>2 DEF Acertar
      <3>2. i \in 1..n
        BY <1>4, <3>1 DEF Posicao
      <3>3. PICK p \in Entrada : p = paginas[i]
        BY <1>3, <1>4, <3>2, ElementOfSeq
      <3>4. PICK r : r = [fase |-> "servida", inicio |-> a.inicio,
                          chave |-> a.chave, geracao |-> p.geracao]
        OBVIOUS
      <3>5. r \in Leitura
        BY <1>3, <3>3, <3>4 DEF Leitura, Entrada
      <3>6. leitura' = [leitura EXCEPT ![t] = r] /\ paginas' = Append(s, p)
        BY <1>5, <3>1, <3>3, <3>4
      <3>7. Append(s, p) \in Seq(Entrada) /\ Len(Append(s, p)) = m + 1
        BY <1>5, <1>6, <3>3, AppendProperties
      <3>8. m + 1 <= MaxEntradas
        BY <1>4, <1>6, <3>1
      <3>9. QED
        BY <1>3, <3>5, <3>6, <3>7, <3>8 DEF TiposLeitores
    <2>3. CASE Errar(t)
      <3>1. PICK r : r = [a EXCEPT !.fase = "sem_cache"]
        OBVIOUS
      <3>2. r \in Leitura
        BY <3>1 DEF Leitura
      <3>3. leitura' = [leitura EXCEPT ![t] = r] /\ paginas' = s
        BY <1>2, <1>3, <1>5, <2>3, <3>1 DEF Errar
      <3>4. QED
        BY <1>3, <1>4, <1>5, <1>6, <3>2, <3>3 DEF TiposLeitores
    <2>4. CASE LerPagina(t)
      <3>1. PICK r : r = [a EXCEPT !.fase = "lida", !.geracao = geracao]
        OBVIOUS
      <3>2. r \in Leitura
        BY <1>3, <3>1 DEF Leitura
      <3>3. leitura' = [leitura EXCEPT ![t] = r] /\ paginas' = paginas
        BY <1>2, <1>3, <2>4, <3>1 DEF LerPagina
      <3>4. QED
        BY <1>3, <1>4, <3>2, <3>3 DEF TiposLeitores
    <2>5. CASE Guardar(t)
      <3>1. PICK r : r = [a EXCEPT !.fase = "servida"]
        OBVIOUS
      <3>2. r \in Leitura
        BY <3>1 DEF Leitura
      <3>3. PICK p : p = [chave |-> a.chave, geracao |-> a.geracao, guardada |-> instante]
        OBVIOUS
      <3>4. p \in Entrada
        BY <1>3, <3>3 DEF Entrada
      <3>5. PICK q : q = Append(s, p)
        OBVIOUS
      <3>6. q \in Seq(Entrada) /\ Len(q) = m + 1 /\ q # <<>>
        BY <1>5, <1>6, <3>4, <3>5, AppendProperties
      <3>7. leitura' = [leitura EXCEPT ![t] = r]
        BY <1>2, <1>3, <2>5, <3>1 DEF Guardar
      <3>8. paginas' = IF Excede(q) THEN Tail(q) ELSE q
        BY <1>2, <1>5, <2>5, <3>3, <3>5 DEF Guardar
      <3>9. CASE Excede(q)
        <4>1. Tail(q) \in Seq(Entrada) /\ Len(Tail(q)) = m
          BY <3>6, HeadTailProperties
        <4>2. m <= MaxEntradas
          BY <1>4, <1>6
        <4>3. QED
          BY <1>3, <3>2, <3>7, <3>8, <3>9, <4>1, <4>2 DEF TiposLeitores
      <3>10. CASE ~Excede(q)
        <4>1. Len(q) <= MaxEntradas
          BY <3>6, <3>10 DEF Excede
        <4>2. QED
          BY <1>3, <3>2, <3>6, <3>7, <3>8, <3>10, <4>1 DEF TiposLeitores
      <3>11. QED
        BY <3>9, <3>10
    <2>6. CASE Responder(t)
      <3>1. Livre \in Leitura
        <4>1. UmaOrg \in Orgs
          BY DEF UmaOrg
        <4>2. 0 \in 0..Cardinality(Linhas)
          BY FS_CardinalityType
        <4>3. QED
          BY <4>1, <4>2 DEF Livre, Leitura, Instantes, Geracoes, Chave, Marca
      <3>2. leitura' = [leitura EXCEPT ![t] = Livre] /\ paginas' = paginas
        BY <2>6 DEF Responder
      <3>3. QED
        BY <1>3, <1>4, <3>1, <3>2 DEF TiposLeitores
    <2>7. QED
      BY <2>1, <2>2, <2>3, <2>4, <2>5, <2>6
  <1>8. QED
    BY <1>1, <1>7 DEF TypeOKGrade, TiposLeitores

LEMMA GradeTiposInit == InitGrade => TypeOKGrade
  <1> SUFFICES ASSUME InitGrade PROVE TypeOKGrade
    OBVIOUS
  <1>1. /\ instante \in Instantes /\ geracao \in Geracoes /\ fim \in [Geracoes -> Instantes]
        /\ marcas \in [Linhas -> Marca] /\ escrita \in [Escritores -> Escrita]
    BY GradeAssumption DEF InitGrade, Instantes, Geracoes, Marca, Fechada, Escrita
  <1>2. leitura \in [Leitores -> Leitura]
    <2>1. UmaOrg \in Orgs /\ 0 \in 0..Cardinality(Linhas)
      BY GradeAssumption, FS_CardinalityType DEF UmaOrg
    <2>2. Livre \in Leitura
      BY <2>1, GradeAssumption DEF Livre, Leitura, Instantes, Geracoes, Chave, Marca
    <2>3. QED
      BY <2>2 DEF InitGrade
  <1>3. paginas \in Seq(Entrada) /\ Len(paginas) <= MaxEntradas
    BY EmptySeq, GradeAssumption DEF InitGrade
  <1>4. QED
    BY <1>1, <1>2, <1>3 DEF TypeOKGrade

LEMMA GradeTiposPasso == TypeOKGrade /\ [NextGrade]_gradeVars => TypeOKGrade'
  <1> SUFFICES ASSUME TypeOKGrade, [NextGrade]_gradeVars PROVE TypeOKGrade'
    OBVIOUS
  <1>1. CASE UNCHANGED gradeVars
    BY <1>1 DEF gradeVars, TypeOKGrade
  <1>2. ASSUME NEW w \in Escritores, ConfirmarEscrita(w) PROVE TypeOKGrade'
    <2>1. PICK e \in Escrita : e = escrita[w]
      BY DEF TypeOKGrade
    <2>2. geracao + 1 \in Geracoes /\ Fechada \in Escrita
      BY <1>2, GradeAssumption
         DEF ConfirmarEscrita, TypeOKGrade, Geracoes, Fechada, Escrita, Instantes
    <2>3. e.linha \in Linhas /\ e.inicio \in Marca
      BY DEF Escrita, Marca
    <2>4. marcas' \in [Linhas -> Marca] /\ escrita' \in [Escritores -> Escrita]
          /\ fim' \in [Geracoes -> Instantes]
      BY <1>2, <2>1, <2>2, <2>3 DEF ConfirmarEscrita, TypeOKGrade
    <2>5. geracao' \in Geracoes /\ UNCHANGED <<instante, leitura, paginas>>
      BY <1>2, <2>2 DEF ConfirmarEscrita
    <2>6. QED
      BY <2>4, <2>5 DEF TypeOKGrade
  <1>3. ASSUME NEW w \in Escritores, NEW l \in Linhas, AbrirEscrita(w, l) PROVE TypeOKGrade'
    <2>1. escrita' \in [Escritores -> Escrita]
      BY <1>3 DEF AbrirEscrita, TypeOKGrade, Escrita
    <2>2. UNCHANGED <<instante, marcas, geracao, fim, leitura, paginas>>
      BY <1>3 DEF AbrirEscrita
    <2>3. QED
      BY <2>1, <2>2 DEF TypeOKGrade
  <1>4. ASSUME NEW t \in Leitores,
               \/ \E o \in Orgs : Identificar(t, o)
               \/ Acertar(t) \/ Errar(t) \/ LerPagina(t) \/ Guardar(t) \/ Responder(t)
        PROVE  TypeOKGrade'
    BY <1>4, GradeTiposLeitor
  <1>5. CASE Instante
    <2>1. instante' \in Instantes
      BY <1>5, GradeAssumption DEF Instante, TypeOKGrade, Instantes
    <2>2. UNCHANGED <<marcas, geracao, fim, escrita, leitura, paginas>>
      BY <1>5 DEF Instante
    <2>3. QED
      BY <2>1, <2>2 DEF TypeOKGrade
  <1>6. QED
    BY <1>1, <1>2, <1>3, <1>4, <1>5 DEF NextGrade

\* The cache never holds more than _ENTES_CACHE_MAX_ENTRIES pages, and what a key
\* says is what the rows said.
THEOREM TipoGradeSempre == SpecGrade => []TypeOKGrade
  BY GradeTiposInit, GradeTiposPasso, PTL DEF SpecGrade

-----------------------------------------------------------------------------
(* The reading of a paginated source                                       *)

LeituraDe(R) ==
    [fase: {"lendo", "completa", "erro"}, cursor: Nat, seguindo: BOOLEAN,
     tentativas: Nat, cortada: BOOLEAN, registros: R]

\* What holds of a reading l of protocol p whose source gives te rows in a page
\* and had ini rows when it began: rows in order and as many as the cursor says.
LeituraBoaDe(l, p, te, rep, ini) ==
    /\ p = "envelope" => /\ l.cursor <= MaxPaginas
                         /\ l.fase = "lendo" => l.cursor < MaxPaginas
    /\ rep = FALSE =>
         /\ l.registros \in Seq(Nat)
         /\ \A i \in 1..Len(l.registros) : l.registros[i] = i
         /\ p # "envelope" => Len(l.registros) = l.cursor
         /\ p = "envelope" /\ l.fase = "lendo" => Len(l.registros) = l.cursor * te
         /\ l.fase = "completa" /\ ~l.cortada /\ (p = "envelope" => ini <= MaxPaginas * te)
              => Len(l.registros) >= ini

IInvFontes ==
    /\ protocolo \in {"ords", "envelope", "odata"}
    /\ teto \in Nat /\ teto > 0
    /\ repete \in BOOLEAN /\ (repete => protocolo = "envelope")
    /\ total \in Nat /\ totalInicial \in Nat /\ totalInicial <= total
    /\ \E R : leituraFonte \in LeituraDe(R)
    /\ LeituraBoaDe(leituraFonte, protocolo, teto, repete, totalInicial)

\* Rows that a request of w rows after the first k finds among tot.
Achadas(k, w, tot) == IF k >= tot THEN 0 ELSE Menor(w, tot - k)

LEMMA AchadasNat ==
    ASSUME NEW k \in Nat, NEW w \in Nat, NEW tot \in Nat
    PROVE  Achadas(k, w, tot) \in Nat
  BY DEF Achadas, Menor

\* The next n rows of the source, after the first ones.
Seguintes(k, n) == [i \in 1..n |-> k + i]

LEMMA LinhasDeSao ==
    ASSUME NEW k \in Nat, NEW w \in Nat, total \in Nat
    PROVE  /\ LinhasDe(k, w) = Seguintes(k, Achadas(k, w, total))
           /\ Len(LinhasDe(k, w)) = Achadas(k, w, total)
  <1>1. PICK n \in Nat : n = Achadas(k, w, total)
    BY AchadasNat
  <1>2. LinhasDe(k, w) = [i \in 1..n |-> k + i]
    BY <1>1 DEF LinhasDe, Achadas
  <1>3. PICK q : q = [i \in 1..n |-> k + i]
    OBVIOUS
  <1>4. q \in Seq(Nat)
    BY <1>3, IsASeq
  <1>5. Len(q) = n
    BY <1>3, <1>4, LenProperties
  <1>6. QED
    BY <1>1, <1>2, <1>3, <1>5 DEF Seguintes

LEMMA Junta ==
    ASSUME NEW r \in Seq(Nat), NEW k \in Nat, NEW n \in Nat,
           Len(r) = k, \A i \in 1..Len(r) : r[i] = i
    PROVE  /\ r \o Seguintes(k, n) \in Seq(Nat)
           /\ Len(r \o Seguintes(k, n)) = k + n
           /\ \A i \in 1..Len(r \o Seguintes(k, n)) : (r \o Seguintes(k, n))[i] = i
  <1>1. PICK q : q = Seguintes(k, n)
    OBVIOUS
  <1>2. q \in Seq(Nat)
    BY <1>1, IsASeq DEF Seguintes
  <1>3. Len(q) = n
    BY <1>1, <1>2, LenProperties DEF Seguintes
  <1>4. PICK s : s = r \o q
    OBVIOUS
  <1>5. /\ s \in Seq(Nat) /\ Len(s) = k + n
        /\ \A i \in 1..(k + n) : s[i] = IF i <= k THEN r[i] ELSE q[i - k]
    BY <1>2, <1>3, <1>4, ConcatProperties
  <1>6. ASSUME NEW i \in 1..(k + n) PROVE s[i] = i
    <2>1. CASE i <= k
      BY <1>5, <2>1
    <2>2. CASE ~(i <= k)
      <3>1. i - k \in 1..n
        BY <2>2
      <3>2. q[i - k] = k + (i - k)
        BY <1>1, <3>1 DEF Seguintes
      <3>3. k + (i - k) = i
        OBVIOUS
      <3>4. QED
        BY <1>5, <2>2, <3>2, <3>3
    <2>3. QED
      BY <2>1, <2>2
  <1>7. QED
    BY <1>1, <1>4, <1>5, <1>6

\* A page of a client whose cursor is the number of rows read.
LEMMA PaginaPorCursor ==
    ASSUME IInvFontes, protocolo # "envelope", LerPaginaFonte
    PROVE  LeituraBoaDe(leituraFonte', protocolo, teto, repete, totalInicial)
  <1>1. PICK R : leituraFonte \in LeituraDe(R)
    BY DEF IInvFontes
  <1>2. PICK l \in LeituraDe(R) : l = leituraFonte /\ l.fase = "lendo"
    BY <1>1 DEF LerPaginaFonte, Recebe
  <1>3. repete = FALSE
    BY DEF IInvFontes
  <1>4. PICK r \in Seq(Nat), k \in Nat :
          /\ r = l.registros /\ k = l.cursor /\ Len(r) = k
          /\ \A i \in 1..Len(r) : r[i] = i
    BY <1>2, <1>3 DEF IInvFontes, LeituraBoaDe, LeituraDe
  <1>5. PICK w \in Nat : /\ w > 0 /\ Itens = LinhasDe(k, w)
                         /\ w = teto \/ w = PageSize
                         /\ w = PageSize => teto >= PageSize
                         /\ protocolo = "odata" /\ ~l.seguindo /\ w # PageSize => teto < PageSize
    <2>1. teto \in Nat /\ teto > 0 /\ PageSize \in Nat /\ PageSize > 0
      BY FontesAssumption DEF IInvFontes
    <2>2. CASE protocolo = "odata" /\ l.seguindo
      <3>1. Itens = LinhasDe(k, teto)
        BY <1>2, <1>4, <2>2 DEF Itens
      <3>2. QED
        BY <2>1, <2>2, <3>1
    <2>3. CASE ~(protocolo = "odata" /\ l.seguindo)
      <3>1. Itens = LinhasDe(k, Menor(PageSize, teto))
        BY <1>2, <1>4, <2>3 DEF Itens
      <3>2. QED
        BY <2>1, <3>1 DEF Menor
    <2>4. QED
      BY <2>2, <2>3
  <1>6. PICK n \in Nat : n = Achadas(k, w, total)
    BY AchadasNat DEF IInvFontes
  <1>7. Itens = Seguintes(k, n) /\ Len(Itens) = n
    BY <1>5, <1>6, LinhasDeSao DEF IInvFontes
  <1>8. PICK s : s = r \o Seguintes(k, n)
    OBVIOUS
  <1>9. s \in Seq(Nat) /\ Len(s) = k + n /\ \A i \in 1..Len(s) : s[i] = i
    BY <1>4, <1>8, Junta
  <1>10. /\ leituraFonte'.registros = s /\ leituraFonte'.cursor = k + n
         /\ leituraFonte'.fase = (IF Acabou(n, TemMais) THEN "completa" ELSE "lendo")
    BY <1>2, <1>4, <1>7, <1>8 DEF LerPaginaFonte, Recebe, Avanco
  <1>11. leituraFonte'.fase = "completa" => k + n >= totalInicial
    <2>1. SUFFICES ASSUME Acabou(n, TemMais) PROVE k + n >= totalInicial
      BY <1>10
    <2>2. PICK m \in Nat : m = total /\ totalInicial <= m
      BY DEF IInvFontes
    <2>3. n = 0 => k >= m
      BY <1>5, <1>6, <2>2 DEF Achadas, Menor
    <2>4. k + n >= m
      <3>1. CASE protocolo = "ords"
        <4>1. ~TemMais \/ n = 0
          BY <2>1, <3>1 DEF Acabou
        <4>2. TemMais <=> (k + n < m)
          BY <1>2, <1>4, <1>7, <2>2, <3>1 DEF TemMais
        <4>3. QED
          BY <2>3, <4>1, <4>2
      <3>2. CASE protocolo = "odata"
        <4>1. ~TemMais /\ (l.seguindo \/ n < PageSize)
          BY <1>2, <2>1, <3>2 DEF Acabou
        <4>2. TemMais <=> ((l.seguindo \/ teto < PageSize) /\ k + n < m)
          BY <1>2, <1>4, <1>7, <2>2, <3>2 DEF TemMais
        <4>3. CASE l.seguindo \/ teto < PageSize
          BY <4>1, <4>2, <4>3
        <4>4. CASE ~l.seguindo /\ ~(teto < PageSize)
          <5>1. w = PageSize /\ n < w
            BY <1>5, <3>2, <4>1, <4>4
          <5>2. QED
            BY <1>6, <2>2, <5>1 DEF Achadas, Menor
        <4>5. QED
          BY <4>3, <4>4
      <3>3. QED
        BY <3>1, <3>2 DEF IInvFontes
    <2>5. totalInicial \in Nat
      BY DEF IInvFontes
    <2>6. QED
      BY <2>2, <2>4, <2>5
  <1>12. QED
    BY <1>3, <1>9, <1>10, <1>11 DEF LeituraBoaDe

\* A page of the envelope: every page before it was full.
LEMMA PaginaDoEnvelope ==
    ASSUME IInvFontes, protocolo = "envelope", LerPaginaFonte
    PROVE  LeituraBoaDe(leituraFonte', protocolo, teto, repete, totalInicial)
  <1>1. PICK R : leituraFonte \in LeituraDe(R)
    BY DEF IInvFontes
  <1>2. PICK l \in LeituraDe(R) : l = leituraFonte /\ l.fase = "lendo"
    BY <1>1 DEF LerPaginaFonte, Recebe
  <1>3. PICK c \in Nat : c = l.cursor /\ c < MaxPaginas
    BY <1>2 DEF IInvFontes, LeituraBoaDe, LeituraDe
  <1>4. /\ leituraFonte'.cursor = c + 1
        /\ leituraFonte'.registros = l.registros \o Itens
        /\ leituraFonte'.fase = (IF Acabou(Len(Itens), TemMais) THEN "completa" ELSE "lendo")
    BY <1>2, <1>3 DEF LerPaginaFonte, Recebe, Avanco
  <1>5. Acabou(Len(Itens), TemMais) <=> ~TemMais \/ Len(Itens) = 0 \/ c + 1 = MaxPaginas
    BY <1>2, <1>3 DEF Acabou
  <1>6. /\ leituraFonte'.cursor <= MaxPaginas
        /\ leituraFonte'.fase = "lendo" => leituraFonte'.cursor < MaxPaginas
    BY <1>3, <1>4, <1>5, FontesAssumption
  <1>7. ASSUME repete = FALSE
        PROVE  /\ leituraFonte'.registros \in Seq(Nat)
               /\ \A i \in 1..Len(leituraFonte'.registros) : leituraFonte'.registros[i] = i
               /\ leituraFonte'.fase = "lendo"
                    => Len(leituraFonte'.registros) = leituraFonte'.cursor * teto
               /\ leituraFonte'.fase = "completa" /\ totalInicial <= MaxPaginas * teto
                    => Len(leituraFonte'.registros) >= totalInicial
    <2>1. PICK r \in Seq(Nat) : /\ r = l.registros /\ Len(r) = c * teto
                                /\ \A i \in 1..Len(r) : r[i] = i
      BY <1>2, <1>3, <1>7 DEF IInvFontes, LeituraBoaDe
    <2>2. PICK e \in Nat : e = teto /\ e > 0
      BY DEF IInvFontes
    <2>3. PICK k \in Nat : k = Len(r) /\ k = c * e /\ (c + 1) * e = k + e
      BY <2>1, <2>2
    <2>4. PICK m \in Nat : m = total /\ totalInicial \in Nat /\ totalInicial <= m
      BY DEF IInvFontes
    <2>5. PaginaPedida = c
      BY <1>2, <1>3, <1>7 DEF PaginaPedida
    <2>6. Itens = LinhasDe(k, e)
      BY <2>2, <2>3, <2>5 DEF Itens
    <2>7. TemMais <=> k + e < m
      BY <1>7, <2>2, <2>3, <2>4, <2>5 DEF TemMais
    <2>8. PICK n \in Nat : n = Achadas(k, e, m)
      BY AchadasNat
    <2>9. Itens = Seguintes(k, n) /\ Len(Itens) = n
      BY <2>4, <2>6, <2>8, LinhasDeSao
    <2>10. PICK s : s = r \o Seguintes(k, n)
      OBVIOUS
    <2>11. s \in Seq(Nat) /\ Len(s) = k + n /\ \A i \in 1..Len(s) : s[i] = i
      BY <2>1, <2>3, <2>10, Junta, ZenonT(30)
    <2>12. leituraFonte'.registros = s
      BY <1>4, <2>1, <2>9, <2>10
    <2>13. /\ k + e < m => n = e
           /\ ~(k + e < m) => k + n >= m
      BY <2>2, <2>8 DEF Achadas, Menor
    <2>14. leituraFonte'.fase = "lendo" => Len(s) = (c + 1) * e
      BY <1>4, <1>5, <2>3, <2>7, <2>11, <2>13
    <2>15. ASSUME leituraFonte'.fase = "completa", totalInicial <= MaxPaginas * teto
           PROVE  Len(s) >= totalInicial
      <3>1. ~(k + e < m) \/ n = 0 \/ c + 1 = MaxPaginas
        BY <1>4, <1>5, <2>7, <2>9, <2>15
      <3>2. CASE ~(k + e < m)
        BY <2>4, <2>11, <2>13, <3>2
      <3>3. CASE k + e < m
        <4>1. n = e /\ c + 1 = MaxPaginas
          BY <2>2, <2>13, <3>1, <3>3
        <4>2. k + n = (c + 1) * e
          BY <2>3, <4>1
        <4>3. k + n = MaxPaginas * teto
          BY <2>2, <4>1, <4>2
        <4>4. QED
          BY <2>11, <2>15, <4>3
      <3>4. QED
        BY <3>2, <3>3
    <2>16. QED
      BY <1>4, <2>2, <2>11, <2>12, <2>14, <2>15
  <1>8. QED
    BY <1>6, <1>7 DEF LeituraBoaDe

\* The rows a page of a sound source gives follow those read before it.
LEMMA ItensSeguem ==
    ASSUME IInvFontes, leituraFonte.fase = "lendo", repete = FALSE
    PROVE  \E k, n \in Nat : /\ k = Len(leituraFonte.registros) /\ Itens = Seguintes(k, n)
                             /\ Len(Itens) = n
  <1>1. PICK R : leituraFonte \in LeituraDe(R)
    BY DEF IInvFontes
  <1>2. PICK l \in LeituraDe(R) : l = leituraFonte /\ l.fase = "lendo"
    BY <1>1
  <1>3. PICK e \in Nat, c \in Nat, m \in Nat, r \in Seq(Nat) :
          /\ e = teto /\ c = l.cursor /\ m = total /\ r = l.registros
          /\ protocolo # "envelope" => Len(r) = c
          /\ protocolo = "envelope" => Len(r) = c * e
    BY <1>2 DEF IInvFontes, LeituraBoaDe, LeituraDe
  <1>4. PICK k \in Nat, w \in Nat : k = Len(r) /\ Itens = LinhasDe(k, w)
    <2>1. PICK k \in Nat : k = Len(r)
      BY <1>3
    <2>2. CASE protocolo = "envelope"
      <3>1. PaginaPedida = c
        BY <1>2, <1>3 DEF PaginaPedida
      <3>2. Itens = LinhasDe(k, e)
        BY <1>3, <2>1, <2>2, <3>1 DEF Itens
      <3>3. QED
        BY <2>1, <3>2
    <2>3. CASE protocolo # "envelope"
      <3>1. Itens = LinhasDe(k, e) \/ Itens = LinhasDe(k, Menor(PageSize, e))
        BY <1>2, <1>3, <2>1, <2>3 DEF Itens
      <3>2. Menor(PageSize, e) \in Nat
        BY FontesAssumption DEF Menor
      <3>3. QED
        BY <2>1, <3>1, <3>2
    <2>4. QED
      BY <2>2, <2>3
  <1>5. PICK n \in Nat : n = Achadas(k, w, m)
    BY AchadasNat
  <1>6. Itens = Seguintes(k, n) /\ Len(Itens) = n
    BY <1>3, <1>4, <1>5, LinhasDeSao
  <1>7. QED
    BY <1>2, <1>3, <1>4, <1>6

\* A page out of shape that ends the reading is on the record as having cut it.
LEMMA PaginaForaDeForma ==
    ASSUME IInvFontes, LerPaginaRuim
    PROVE  LeituraBoaDe(leituraFonte', protocolo, teto, repete, totalInicial)
  <1>1. PICK R : leituraFonte \in LeituraDe(R)
    BY DEF IInvFontes
  <1>2. PICK it \in {Itens, <<>>}, mais \in {TemMais, FALSE} :
          (it # Itens \/ mais # TemMais) /\ Recebe(it, mais, TRUE)
    BY DEF LerPaginaRuim
  <1>3. PICK l \in LeituraDe(R) : l = leituraFonte /\ l.fase = "lendo"
    BY <1>1, <1>2 DEF Recebe
  <1>4. (Len(<<>>) = 0 /\ it = <<>>) \/ mais = FALSE
    <2>1. Len(<<>>) = 0
      BY EmptySeq
    <2>2. QED
      BY <1>2, <2>1
  <1>5. PICK z : z = leituraFonte'
    OBVIOUS
  <1>6. /\ z.cursor = l.cursor + Avanco(Len(it)) /\ z.registros = l.registros \o it
        /\ z.fase = (IF Acabou(Len(it), mais) THEN "completa" ELSE "lendo")
        /\ z.cortada <=> Acabou(Len(it), mais)
    BY <1>2, <1>3, <1>5 DEF Recebe
  <1>7. protocolo = "envelope" => /\ z.cursor <= MaxPaginas /\ z.fase = "completa"
    <2>1. SUFFICES ASSUME protocolo = "envelope"
                   PROVE  z.cursor <= MaxPaginas /\ z.fase = "completa"
      OBVIOUS
    <2>2. Acabou(Len(it), mais)
      BY <1>4, <2>1 DEF Acabou
    <2>3. Avanco(Len(it)) = 1
      BY <2>1 DEF Avanco
    <2>4. l.cursor \in Nat /\ l.cursor < MaxPaginas
      BY <1>3, <2>1 DEF IInvFontes, LeituraBoaDe, LeituraDe
    <2>5. QED
      BY <1>6, <2>2, <2>3, <2>4, FontesAssumption
  <1>8. ASSUME repete = FALSE
        PROVE  /\ z.registros \in Seq(Nat)
               /\ \A i \in 1..Len(z.registros) : z.registros[i] = i
               /\ protocolo # "envelope" => Len(z.registros) = z.cursor
    <2>1. PICK r \in Seq(Nat) : /\ r = l.registros /\ \A i \in 1..Len(r) : r[i] = i
                                /\ protocolo # "envelope" => Len(r) = l.cursor
      BY <1>3, <1>8 DEF IInvFontes, LeituraBoaDe
    <2>2. PICK k \in Nat, n \in Nat : k = Len(r) /\ it = Seguintes(k, n) /\ Len(it) = n
      <3>1. CASE it = Itens
        BY <1>3, <1>8, <2>1, <3>1, ItensSeguem
      <3>2. CASE it = <<>>
        <4>1. PICK k \in Nat : k = Len(r)
          BY <2>1
        <4>2. Seguintes(k, 0) = <<>>
          BY DEF Seguintes
        <4>3. Len(<<>>) = 0
          BY EmptySeq
        <4>4. QED
          BY <3>2, <4>1, <4>2, <4>3
      <3>3. QED
        BY <3>1, <3>2
    <2>3. PICK s : s = r \o Seguintes(k, n)
      OBVIOUS
    <2>4. s \in Seq(Nat) /\ Len(s) = k + n /\ \A i \in 1..Len(s) : s[i] = i
      BY <2>1, <2>2, <2>3, Junta
    <2>5. z.registros = s
      BY <1>6, <2>1, <2>2, <2>3
    <2>6. protocolo # "envelope" => z.cursor = k + n
      BY <1>6, <2>1, <2>2 DEF Avanco
    <2>7. QED
      BY <2>4, <2>5, <2>6
  <1>9. z.fase = "completa" => z.cortada
    BY <1>6
  <1>10. LeituraBoaDe(z, protocolo, teto, repete, totalInicial)
    BY <1>7, <1>8, <1>9 DEF LeituraBoaDe
  <1>11. QED
    BY <1>5, <1>10

\* One page received, of whatever shape, leaves a reading of the same kind.
LEMMA RecebeMantem ==
    ASSUME IInvFontes, NEW it, NEW mais, NEW ruim,
           Recebe(it, mais, ruim),
           LeituraBoaDe(leituraFonte', protocolo, teto, repete, totalInicial)
    PROVE  IInvFontes'
  <1>1. UNCHANGED <<protocolo, teto, repete, total, totalInicial>>
    BY DEF Recebe
  <1>2. PICK R : leituraFonte \in LeituraDe(R)
    BY DEF IInvFontes
  <1>3. PICK f, c, s, x, r :
          /\ leituraFonte' = [fase |-> f, cursor |-> c, seguindo |-> s, tentativas |-> 0,
                              cortada |-> x, registros |-> r]
          /\ f = (IF Acabou(Len(it), mais) THEN "completa" ELSE "lendo")
          /\ c = leituraFonte.cursor + Avanco(Len(it))
          /\ s = (protocolo = "odata" /\ (leituraFonte.seguindo \/ mais))
          /\ x = (ruim /\ Acabou(Len(it), mais))
    BY DEF Recebe
  <1>4. leituraFonte'.cursor \in Nat
    <2>1. CASE protocolo = "envelope"
      <3>1. Avanco(Len(it)) = 1
        BY <2>1 DEF Avanco
      <3>2. leituraFonte.cursor \in Nat
        BY <1>2 DEF LeituraDe
      <3>3. QED
        BY <1>3, <3>1, <3>2
    <2>2. CASE protocolo # "envelope"
      <3>1. repete = FALSE
        BY <2>2 DEF IInvFontes
      <3>2. /\ leituraFonte'.registros \in Seq(Nat)
            /\ leituraFonte'.cursor = Len(leituraFonte'.registros)
        BY <2>2, <3>1 DEF LeituraBoaDe
      <3>3. QED
        BY <3>2, LenProperties
    <2>3. QED
      BY <2>1, <2>2
  <1>5. f \in {"lendo", "completa", "erro"} /\ s \in BOOLEAN /\ x \in BOOLEAN
    BY <1>3
  <1>6. leituraFonte' \in LeituraDe({r})
    BY <1>3, <1>4, <1>5 DEF LeituraDe
  <1>7. QED
    BY <1>1, <1>6 DEF IInvFontes

LEMMA LerPaginaFonteMantem ==
    ASSUME IInvFontes, LerPaginaFonte
    PROVE  IInvFontes'
  <1>1. LeituraBoaDe(leituraFonte', protocolo, teto, repete, totalInicial)
    BY PaginaPorCursor, PaginaDoEnvelope
  <1>2. PICK it, mais, ruim : Recebe(it, mais, ruim)
    BY DEF LerPaginaFonte
  <1>3. QED
    BY <1>1, <1>2, RecebeMantem

LEMMA LerPaginaRuimMantem ==
    ASSUME IInvFontes, LerPaginaRuim
    PROVE  IInvFontes'
  <1>1. LeituraBoaDe(leituraFonte', protocolo, teto, repete, totalInicial)
    BY PaginaForaDeForma
  <1>2. PICK it, mais, ruim : Recebe(it, mais, ruim)
    BY DEF LerPaginaRuim
  <1>3. QED
    BY <1>1, <1>2, RecebeMantem

\* A failed request leaves what was read and where it was.
LEMMA FalhaMantem ==
    ASSUME IInvFontes, FalharTransitoria \/ RecusarFonte
    PROVE  IInvFontes'
  <1>1. UNCHANGED <<protocolo, teto, repete, total, totalInicial>>
    BY DEF FalharTransitoria, RecusarFonte
  <1>2. PICK R : leituraFonte \in LeituraDe(R)
    BY DEF IInvFontes
  <1>3. PICK l \in LeituraDe(R) : l = leituraFonte /\ l.fase = "lendo"
    BY <1>2 DEF FalharTransitoria, RecusarFonte
  <1>4. PICK f \in {"lendo", "erro"}, n \in Nat :
          leituraFonte' = [l EXCEPT !.tentativas = n, !.fase = f]
    <2>1. CASE FalharTransitoria
      <3>1. PICK f : f = (IF l.tentativas + 1 = MaxTentativas THEN "erro" ELSE "lendo")
        OBVIOUS
      <3>2. l.tentativas + 1 \in Nat /\ f \in {"lendo", "erro"}
        BY <3>1 DEF LeituraDe
      <3>3. leituraFonte' = [l EXCEPT !.tentativas = l.tentativas + 1, !.fase = f]
        BY <1>3, <2>1, <3>1 DEF FalharTransitoria
      <3>4. QED
        BY <3>2, <3>3
    <2>2. CASE RecusarFonte
      <3>1. leituraFonte' = [l EXCEPT !.fase = "erro"]
        BY <1>3, <2>2 DEF RecusarFonte
      <3>2. [l EXCEPT !.fase = "erro"] = [l EXCEPT !.tentativas = l.tentativas, !.fase = "erro"]
        BY DEF LeituraDe
      <3>3. l.tentativas \in Nat
        BY DEF LeituraDe
      <3>4. QED
        BY <3>1, <3>2, <3>3
    <2>3. QED
      BY <2>1, <2>2
  <1>5. /\ leituraFonte' \in LeituraDe(R) /\ leituraFonte'.fase = f
        /\ leituraFonte'.cursor = l.cursor /\ leituraFonte'.registros = l.registros
        /\ leituraFonte'.cortada = l.cortada
    BY <1>4 DEF LeituraDe
  <1>6. LeituraBoaDe(l, protocolo, teto, repete, totalInicial)
    BY <1>3 DEF IInvFontes
  <1>7. LeituraBoaDe(leituraFonte', protocolo, teto, repete, totalInicial)
    BY <1>3, <1>4, <1>5, <1>6 DEF LeituraBoaDe
  <1>8. QED
    BY <1>1, <1>5, <1>7 DEF IInvFontes

LEMMA PublicarMantem ==
    ASSUME IInvFontes, Publicar
    PROVE  IInvFontes'
  BY DEF IInvFontes, Publicar

LEMMA FontesInit == InitFontes => IInvFontes
  <1> SUFFICES ASSUME InitFontes PROVE IInvFontes
    OBVIOUS
  <1>1. /\ protocolo \in {"ords", "envelope", "odata"} /\ teto \in Nat /\ teto > 0
        /\ repete \in BOOLEAN /\ (repete => protocolo = "envelope")
        /\ total \in Nat /\ totalInicial \in Nat /\ totalInicial <= total
    BY FontesAssumption DEF InitFontes, Totais
  <1>2. leituraFonte = [fase |-> "lendo", cursor |-> 0, seguindo |-> FALSE,
                        tentativas |-> 0, cortada |-> FALSE, registros |-> <<>>]
    BY DEF InitFontes
  <1>3. leituraFonte \in LeituraDe({<<>>})
    BY <1>2 DEF LeituraDe
  <1>4. <<>> \in Seq(Nat) /\ Len(<<>>) = 0
    BY EmptySeq
  <1>5. 0 * teto = 0
    BY <1>1
  <1>6. LeituraBoaDe(leituraFonte, protocolo, teto, repete, totalInicial)
    BY <1>2, <1>4, <1>5, FontesAssumption DEF LeituraBoaDe
  <1>7. QED
    BY <1>1, <1>3, <1>6 DEF IInvFontes

LEMMA FontesPasso == IInvFontes /\ [NextFontes]_fontesVars => IInvFontes'
  <1> SUFFICES ASSUME IInvFontes, [NextFontes]_fontesVars PROVE IInvFontes'
    OBVIOUS
  <1>1. CASE UNCHANGED fontesVars
    BY <1>1 DEF fontesVars, IInvFontes
  <1>2. CASE LerPaginaFonte
    BY <1>2, LerPaginaFonteMantem
  <1>6. CASE LerPaginaRuim
    BY <1>6, LerPaginaRuimMantem
  <1>3. CASE FalharTransitoria \/ RecusarFonte
    BY <1>3, FalhaMantem
  <1>4. CASE Publicar
    BY <1>4, PublicarMantem
  <1>5. QED
    BY <1>1, <1>2, <1>3, <1>4, <1>6 DEF NextFontes

\* The invariant of a reading, for any page size, any ceiling and any source.
THEOREM FontesInvariante == SpecFontes => []IInvFontes
  BY FontesInit, FontesPasso, PTL DEF SpecFontes

\* A reading holds the first rows of the source, in order, at every moment, and
\* all those of its beginning when it ends with no exception, no page out of shape
\* and no ceiling reached.
THEOREM LeituraCompletaSempre == SpecFontes => []LeituraCompleta
  <1>1. IInvFontes => LeituraCompleta
    <2> SUFFICES ASSUME IInvFontes PROVE LeituraCompleta
      OBVIOUS
    <2>1. protocolo = "envelope" => leituraFonte.cursor <= MaxPaginas
      BY DEF IInvFontes, LeituraBoaDe
    <2>2. ASSUME ~repete
          PROVE  \A i \in DOMAIN leituraFonte.registros : leituraFonte.registros[i] = i
      <3>1. repete = FALSE
        BY <2>2 DEF IInvFontes
      <3>2. /\ leituraFonte.registros \in Seq(Nat)
            /\ \A i \in 1..Len(leituraFonte.registros) : leituraFonte.registros[i] = i
        BY <3>1 DEF IInvFontes, LeituraBoaDe
      <3>3. DOMAIN leituraFonte.registros = 1..Len(leituraFonte.registros)
        BY <3>2, LenProperties
      <3>4. QED
        BY <3>2, <3>3
    <2>3. ASSUME leituraFonte.fase = "completa", ~repete, ~leituraFonte.cortada,
                 protocolo = "envelope" => totalInicial <= MaxPaginas * teto
          PROVE  Len(leituraFonte.registros) >= totalInicial
      <3>1. repete = FALSE
        BY <2>3 DEF IInvFontes
      <3>2. QED
        BY <2>3, <3>1 DEF IInvFontes, LeituraBoaDe
    <2>4. QED
      BY <2>1, <2>2, <2>3 DEF LeituraCompleta
  <1>2. QED
    BY <1>1, FontesInvariante, PTL

\* The reading, with what its counter of attempts and its rows may be.
LeituraTipada(l, tot) ==
    /\ l \in [fase: {"lendo", "completa", "erro"}, cursor: Nat, seguindo: BOOLEAN,
              tentativas: 0..MaxTentativas, cortada: BOOLEAN, registros: Seq(1..tot)]
    /\ l.fase = "lendo" => l.tentativas < MaxTentativas

IInvLinhas ==
    /\ protocolo \in {"ords", "envelope", "odata"}
    /\ teto \in 1..MaxLinhasFonte + 1
    /\ repete \in BOOLEAN
    /\ total \in Totais /\ totalInicial \in Totais /\ totalInicial <= total
    /\ LeituraTipada(leituraFonte, total)

\* A request finds rows of the source, wherever it starts.
LEMMA LinhasDaFonte ==
    ASSUME NEW k \in Nat, NEW w \in Nat, total \in Nat
    PROVE  LinhasDe(k, w) \in Seq(1..total) /\ Len(LinhasDe(k, w)) \in Nat
  <1>1. PICK n \in Nat : n = Achadas(k, w, total)
    BY AchadasNat
  <1>2. LinhasDe(k, w) = [i \in 1..n |-> k + i]
    BY <1>1 DEF LinhasDe, Achadas
  <1>3. \A i \in 1..n : k + i \in 1..total
    BY <1>1 DEF Achadas, Menor
  <1>4. [i \in 1..n |-> k + i] \in Seq(1..total)
    BY <1>3, IsASeq
  <1>5. QED
    BY <1>2, <1>4, LenProperties

LEMMA ItensDaFonte ==
    ASSUME IInvLinhas
    PROVE  Itens \in Seq(1..total) /\ Len(Itens) \in Nat
  <1>1. PICK e \in Nat, c \in Nat, m \in Nat, p \in Nat :
          e = teto /\ e > 0 /\ c = leituraFonte.cursor /\ m = total /\ p = PageSize
    BY FontesAssumption DEF IInvLinhas, LeituraTipada, Totais
  <1>2. UltimaPagina \in Nat
    <2>1. CASE m = 0
      BY <1>1, <2>1 DEF UltimaPagina
    <2>2. CASE m # 0
      <3>1. (m - 1) \div e \in Nat
        BY <1>1, <2>2
      <3>2. QED
        BY <1>1, <2>2, <3>1 DEF UltimaPagina
    <2>3. QED
      BY <2>1, <2>2
  <1>3. PICK q \in Nat : q = PaginaPedida
    BY <1>1, <1>2 DEF PaginaPedida
  <1>4. q * e \in Nat /\ Menor(p, e) \in Nat
    BY DEF Menor
  <1>5. \/ Itens = LinhasDe(q * e, e) \/ Itens = LinhasDe(c, e)
        \/ Itens = LinhasDe(c, Menor(p, e))
    BY <1>1, <1>3 DEF Itens
  <1>6. QED
    <2>1. PICK x \in Nat, z \in Nat : x = q * e /\ z = Menor(p, e)
      BY <1>4
    <2>2. total \in Nat
      BY <1>1
    <2>3. /\ LinhasDe(x, e) \in Seq(1..total) /\ Len(LinhasDe(x, e)) \in Nat
          /\ LinhasDe(c, e) \in Seq(1..total) /\ Len(LinhasDe(c, e)) \in Nat
          /\ LinhasDe(c, z) \in Seq(1..total) /\ Len(LinhasDe(c, z)) \in Nat
      BY <2>2, LinhasDaFonte
    <2>4. Itens = LinhasDe(x, e) \/ Itens = LinhasDe(c, e) \/ Itens = LinhasDe(c, z)
      BY <1>5, <2>1
    <2>5. QED
      BY <2>3, <2>4

LEMMA LinhasInit == InitFontes => IInvLinhas
  <1> SUFFICES ASSUME InitFontes PROVE IInvLinhas
    OBVIOUS
  <1>1. PICK l : /\ l = leituraFonte
                 /\ l = [fase |-> "lendo", cursor |-> 0, seguindo |-> FALSE,
                         tentativas |-> 0, cortada |-> FALSE, registros |-> <<>>]
    BY DEF InitFontes
  <1>2. <<>> \in Seq(1..total)
    BY EmptySeq
  <1>3. LeituraTipada(l, total)
    BY <1>1, <1>2, FontesAssumption DEF LeituraTipada
  <1>4. /\ protocolo \in {"ords", "envelope", "odata"} /\ teto \in 1..MaxLinhasFonte + 1
        /\ repete \in BOOLEAN
        /\ total \in Totais /\ totalInicial \in Totais /\ totalInicial <= total
    BY FontesAssumption DEF InitFontes, Totais
  <1>5. QED
    BY <1>1, <1>3, <1>4 DEF IInvLinhas

LEMMA LinhasPasso == IInvLinhas /\ [NextFontes]_fontesVars => IInvLinhas'
  <1> SUFFICES ASSUME IInvLinhas, [NextFontes]_fontesVars PROVE IInvLinhas'
    OBVIOUS
  <1>1. CASE UNCHANGED fontesVars
    BY <1>1 DEF fontesVars, IInvLinhas
  <1>2. PICK l, m : l = leituraFonte /\ m = total
    OBVIOUS
  <1>3. LeituraTipada(l, m) /\ m \in Nat
    BY <1>2, FontesAssumption DEF IInvLinhas, Totais
  <1>4. CASE LerPaginaFonte \/ LerPaginaRuim
    <2>1. PICK q, mais, ruim : q \in Seq(1..m) /\ Recebe(q, mais, ruim) /\ Len(q) \in Nat
      <3>1. Itens \in Seq(1..m)
        BY <1>2, ItensDaFonte
      <3>2. <<>> \in Seq(1..m)
        BY EmptySeq
      <3>3. PICK q, mais, ruim : q \in Seq(1..m) /\ Recebe(q, mais, ruim)
        BY <1>4, <3>1, <3>2 DEF LerPaginaFonte, LerPaginaRuim
      <3>4. Len(q) \in Nat
        BY <3>3, LenProperties
      <3>5. QED
        BY <3>3, <3>4
    <2>2. PICK f, c, s, x, r :
            /\ leituraFonte' = [fase |-> f, cursor |-> c, seguindo |-> s, tentativas |-> 0,
                                cortada |-> x, registros |-> r]
            /\ f \in {"lendo", "completa", "erro"} /\ s \in BOOLEAN /\ x \in BOOLEAN
            /\ c = l.cursor + Avanco(Len(q)) /\ r = l.registros \o q
      BY <1>2, <2>1 DEF Recebe
    <2>3. c \in Nat
      BY <1>3, <2>1, <2>2 DEF LeituraTipada, Avanco
    <2>4. r \in Seq(1..m)
      <3>1. l.registros \in Seq(1..m)
        BY <1>3 DEF LeituraTipada
      <3>2. q \in Seq(1..m)
        BY <2>1
      <3>3. QED
        BY <2>2, <3>1, <3>2, ConcatProperties
    <2>5. PICK n : n = leituraFonte'
      OBVIOUS
    <2>6. LeituraTipada(n, m)
      <3>1. n = [fase |-> f, cursor |-> c, seguindo |-> s, tentativas |-> 0,
                 cortada |-> x, registros |-> r]
        BY <2>2, <2>5
      <3>2. f \in {"lendo", "completa", "erro"} /\ s \in BOOLEAN /\ x \in BOOLEAN
        BY <2>2
      <3>3. QED
        BY <2>3, <2>4, <3>1, <3>2, FontesAssumption DEF LeituraTipada
    <2>7. UNCHANGED <<protocolo, teto, repete, total, totalInicial>>
      BY <2>1 DEF Recebe
    <2>8. QED
      BY <1>2, <2>5, <2>6, <2>7 DEF IInvLinhas
  <1>5. CASE FalharTransitoria
    <2>1. PICK f : f = IF l.tentativas + 1 = MaxTentativas THEN "erro" ELSE "lendo"
      OBVIOUS
    <2>2. PICK t \in 0..MaxTentativas : t = l.tentativas + 1
      BY <1>2, <1>3, <1>5, FontesAssumption DEF FalharTransitoria, LeituraTipada
    <2>3. PICK n : n = [l EXCEPT !.tentativas = t, !.fase = f]
      OBVIOUS
    <2>4. n = leituraFonte'
      BY <1>2, <1>5, <2>1, <2>2, <2>3 DEF FalharTransitoria
    <2>5. LeituraTipada(n, m)
      <3>1. f \in {"lendo", "erro"} /\ (f = "lendo" => t < MaxTentativas)
        BY <2>1, <2>2, FontesAssumption
      <3>2. QED
        BY <1>3, <2>3, <3>1 DEF LeituraTipada
    <2>6. UNCHANGED <<protocolo, teto, repete, total, totalInicial>>
      BY <1>5 DEF FalharTransitoria
    <2>7. QED
      BY <1>2, <2>4, <2>5, <2>6 DEF IInvLinhas
  <1>6. CASE RecusarFonte
    <2>1. PICK n : n = [l EXCEPT !.fase = "erro"]
      OBVIOUS
    <2>2. n = leituraFonte' /\ LeituraTipada(n, m)
      BY <1>2, <1>3, <1>6, <2>1 DEF RecusarFonte, LeituraTipada
    <2>3. UNCHANGED <<protocolo, teto, repete, total, totalInicial>>
      BY <1>6 DEF RecusarFonte
    <2>4. QED
      BY <1>2, <2>2, <2>3 DEF IInvLinhas
  <1>7. CASE Publicar
    <2>1. total' = m + 1 /\ m + 1 \in Totais /\ totalInicial' = totalInicial
          /\ totalInicial \in Totais /\ totalInicial <= m + 1
      BY <1>2, <1>7, FontesAssumption DEF Publicar, IInvLinhas, Totais
    <2>2. l.registros \in Seq(1..(m + 1))
      <3>1. l.registros \in Seq(1..m) /\ 1..m \subseteq 1..(m + 1)
        BY <1>2, <1>3 DEF LeituraTipada
      <3>2. QED
        BY <3>1, SeqMaior
    <2>3. LeituraTipada(l, m + 1)
      BY <1>3, <2>2 DEF LeituraTipada
    <2>4. leituraFonte' = l /\ UNCHANGED <<protocolo, teto, repete>>
      BY <1>2, <1>7 DEF Publicar
    <2>5. QED
      BY <2>1, <2>3, <2>4 DEF IInvLinhas
  <1>8. QED
    BY <1>1, <1>4, <1>5, <1>6, <1>7 DEF NextFontes

\* A reading holds rows of the source and tries no request more than
\* stop_after_attempt times.
THEOREM TipoFontesSempre == SpecFontes => []TypeOKFontes
  <1>1. IInvLinhas => TypeOKFontes
    <2> SUFFICES ASSUME IInvLinhas PROVE TypeOKFontes
      OBVIOUS
    <2>1. PICK l, m : l = leituraFonte /\ m = total
      OBVIOUS
    <2>2. LeituraTipada(l, m) /\ m \in Nat /\ m <= MaxLinhasFonte
      BY <2>1, FontesAssumption DEF IInvLinhas, Totais
    <2>3. PICK r \in Seq(1..m) : r = l.registros
      BY <2>2 DEF LeituraTipada
    <2>4. r \in Seq(Totais)
      <3>1. 1..m \subseteq Totais
        BY <2>1, <2>2, FontesAssumption DEF Totais
      <3>2. QED
        BY <3>1, SeqMaior
    <2>5. \A i \in DOMAIN r : r[i] \in 1..m
      BY ElementOfSeq, LenProperties
    <2>6. l \in LeituraFonte
      BY <2>2, <2>3, <2>4 DEF LeituraTipada, LeituraFonte
    <2>7. QED
      BY <2>1, <2>3, <2>5, <2>6 DEF IInvLinhas, TypeOKFontes
  <1>2. QED
    BY <1>1, LinhasInit, LinhasPasso, PTL DEF SpecFontes

-----------------------------------------------------------------------------
(* All of them, one at a time                                             *)

\* A step of the composition is a step of one component, and the others stand
\* still.
LEMMA UmDeCada ==
    ASSUME [NextTransacoes]_transacoesVars
    PROVE  /\ [NextEscopo]_escopoVars /\ [NextGrade]_gradeVars
           /\ [NextLogin]_loginVars /\ [NextFontes]_fontesVars
           /\ [NextResolucao]_resolucaoVars /\ [NextAssistente]_assistenteVars
           /\ [NextCarteira]_carteiraVars /\ [NextOrganizacao]_organizacaoVars
           /\ [NextLeque]_lequeVars
  <1>1. CASE UNCHANGED transacoesVars
    BY <1>1 DEF transacoesVars, escopoGrade, loginFontes, resolucaoAssistente, carteiraOrg, lequeDatas
  <1>2. CASE NextTransacoes
    BY <1>2 DEF NextTransacoes, escopoGrade, loginFontes, resolucaoAssistente, carteiraOrg, lequeDatas
  <1>3. QED
    BY <1>1, <1>2

\* The two that read the calendar share its day.
LEMMA DatasDeCada ==
    ASSUME [NextTransacoes]_transacoesVars
    PROVE  [NextCalendario]_calendarioVars /\ [NextAgenda]_agendaVars
  <1>1. CASE UNCHANGED <<calendarioVars, agendaVars>>
    BY <1>1
  <1>2. CASE NextCalendario /\ UNCHANGED <<proxima, ultima>>
    <2>1. CASE PassarTempo
      BY <1>2, <2>1 DEF NextAgenda
    <2>2. CASE ~PassarTempo
      BY <1>2, <2>2 DEF NextCalendario, Carregar, Varrer, agendaVars
    <2>3. QED
      BY <2>1, <2>2
  <1>3. CASE NextAgenda /\ UNCHANGED <<porte, faltas, entregas>>
    <2>1. CASE PassarTempo
      BY <1>3, <2>1 DEF NextCalendario
    <2>2. CASE EmitirVencidas
      BY <1>3, <2>2 DEF EmitirVencidas, calendarioVars
    <2>3. QED
      BY <1>3, <2>1, <2>2 DEF NextAgenda
  <1>4. QED
    BY <1>1, <1>2, <1>3 DEF NextTransacoes, transacoesVars, lequeDatas

LEMMA InitDeCada ==
    ASSUME InitTransacoes
    PROVE  /\ InitEscopo /\ InitGrade /\ InitLogin /\ InitFontes
           /\ InitResolucao /\ InitAssistente /\ InitCarteira /\ InitOrganizacao
           /\ InitLeque /\ InitCalendario /\ InitAgenda
  BY DEF InitTransacoes

\* What the run explores one component at a time are behaviours of each of them:
\* what is proved of a component holds of the composition.
THEOREM TransacoesCompoem ==
    SpecTransacoes =>
        /\ SpecEscopo /\ SpecGrade /\ SpecLogin /\ SpecFontes
        /\ SpecResolucao /\ SpecAssistente /\ SpecCarteira /\ SpecOrganizacao
        /\ SpecLeque /\ SpecCalendario /\ SpecAgenda
  <1>1. InitTransacoes =>
          /\ InitEscopo /\ InitGrade /\ InitLogin /\ InitFontes
          /\ InitResolucao /\ InitAssistente /\ InitCarteira /\ InitOrganizacao
          /\ InitLeque /\ InitCalendario /\ InitAgenda
    BY InitDeCada
  <1>2. [NextTransacoes]_transacoesVars =>
          /\ [NextEscopo]_escopoVars /\ [NextGrade]_gradeVars
          /\ [NextLogin]_loginVars /\ [NextFontes]_fontesVars
          /\ [NextResolucao]_resolucaoVars /\ [NextAssistente]_assistenteVars
          /\ [NextCarteira]_carteiraVars /\ [NextOrganizacao]_organizacaoVars
          /\ [NextLeque]_lequeVars /\ [NextCalendario]_calendarioVars
          /\ [NextAgenda]_agendaVars
    BY UmDeCada, DatasDeCada
  <1>3. QED
    BY <1>1, <1>2, PTL
       DEF SpecTransacoes, SpecEscopo, SpecGrade, SpecLogin, SpecFontes, SpecResolucao,
           SpecAssistente, SpecCarteira, SpecOrganizacao, SpecLeque, SpecCalendario, SpecAgenda

\* The types of every component.
THEOREM TiposTransacoesSempre == SpecTransacoes => []TypeOKTransacoes
  <1>1. IInvEscopo => TypeOKEscopo
    BY DEF IInvEscopo, TiposEscopo, TypeOKEscopo
  <1>2. IInvFatos => TypeOKResolucao
    BY DEF IInvFatos
  <1>3. IInvCarteira => TypeOKCarteira
    BY DEF IInvCarteira
  <1>4. IInvOrganizacao => TypeOKOrganizacao
    BY DEF IInvOrganizacao
  <1>5. IInvLeque => TypeOKLeque
    BY DEF IInvLeque
  <1>6. IInvCalendario => TypeOKCalendario
    BY DEF IInvCalendario
  <1>7. SpecAgenda => []TypeOKAgenda
    <2>1. IInvAgenda => TypeOKAgenda
      BY DEF IInvAgenda
    <2>2. QED
      BY <2>1, AgendaInit, AgendaPasso, PTL DEF SpecAgenda
  <1>8. ASSUME
        /\ TypeOKEscopo /\ TypeOKGrade /\ TypeOKLogin
        /\ TypeOKFontes /\ TypeOKResolucao /\ TypeOKAssistente
        /\ TypeOKCarteira /\ TypeOKOrganizacao /\ TypeOKLeque
        /\ TypeOKCalendario /\ TypeOKAgenda
        PROVE TypeOKTransacoes
    BY <1>8 DEF TypeOKTransacoes
  <1>9. QED
    BY <1>1, <1>2, <1>3, <1>4, <1>5, <1>6, <1>7, <1>8, TransacoesCompoem, EscopoInvariante,
       ResolucaoInvariante, CarteiraInvariante, OrganizacaoInvariante, LequeInvariante,
       CalendarioInvariante, TipoGradeSempre, TipoLoginSempre, TipoFontesSempre,
       TipoAssistenteSempre, PTL

\* All that the run checks, of any instance.
THEOREM TransacoesSeguras ==
    SpecTransacoes =>
        [](/\ SuspensaoNaHora /\ DrillCoerente /\ PaginaRecente /\ FreioConcorrente
           /\ LeituraCompleta /\ SoComFato /\ CargasContidas /\ RetomadaSegura
           /\ RastroCompleto /\ SemEsperaCircular /\ SempreHaAdministrador /\ LequeEmOrdem
           /\ (porte # "pequeno" => CalendarioCoerente) /\ UmaPorMes)
  BY TransacoesCompoem, SuspensaoNaHoraSempre, DrillCoerenteSempre, PaginaRecenteSempre,
     FreioConcorrenteSempre, LeituraCompletaSempre, SoComFatoSempre, CargasContidasSempre,
     RetomadaSeguraSempre, RastroCompletoSempre, SemEsperaCircularSempre,
     SempreHaAdministradorSempre, LequeEmOrdemSempre, CalendarioCoerenteSempre,
     UmaPorMesSempre, PTL

=============================================================================
