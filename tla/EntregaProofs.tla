---------------------------- MODULE EntregaProofs ----------------------------
(***************************************************************************)
(* Proofs about Entrega, for every set of keys, versions, payloads and     *)
(* transactions and every bound.                                           *)
(***************************************************************************)
EXTENDS Entrega, TLAPS

\* A transaction that works on a key names it, with what it received.
PosicaoDefinida ==
    \A t \in Cargas :
        /\ tx[t].pc \in {"extraida", "bronze", "replay"} => tx[t].chave \in Chaves
        /\ tx[t].pc \in {"extraida", "bronze"} =>
             tx[t].versao \in Versoes /\ tx[t].conteudo \in Conteudos \ {Vazio}

Tipos == TypeOK /\ PosicaoDefinida /\ relogio # 0

Linhas == [Versoes -> Linha \cup {Nada}]

-----------------------------------------------------------------------------
(* Operators. *)

\* One reading over another is a reading.
LEMMA SobreTipo ==
    ASSUME NEW S, NEW p \in [Versoes -> S \cup {Nada}], NEW q \in [Versoes -> S \cup {Nada}]
    PROVE  Sobre(p, q) \in [Versoes -> S \cup {Nada}]
  BY DEF Sobre

\* A table with one row of keys replaced.
LEMMA TabelaTroca ==
    ASSUME NEW S, NEW T \in Tabela(S), NEW k \in Chaves,
           NEW r \in [Versoes -> S \cup {Nada}]
    PROVE  [T EXCEPT ![k] = r] \in Tabela(S)
  BY DEF Tabela

\* No rows at all.
LEMMA SemLinhasTipo ==
    ASSUME NEW S
    PROVE  SemLinhas \in Tabela(S)
  BY DEF SemLinhas, Tabela

\* What a commit publishes.
LEMMA PublicadasTipo ==
    ASSUME NEW S, NEW P \in Tabela(S), NEW Q \in Tabela(S)
    PROVE  Publicadas(P, Q) \in Tabela(S)
<1>1. ASSUME NEW k \in Chaves
      PROVE  Sobre(P[k], Q[k]) \in [Versoes -> S \cup {Nada}]
  BY SobreTipo DEF Tabela
<1> QED
  BY <1>1 DEF Publicadas, Tabela

\* What register_entrega makes of the rows of a key.
LEMMA ComEntregaTipo ==
    ASSUME NEW r \in Linhas, NEW v \in Versoes, NEW h \in Nat \ {0}
    PROVE  /\ ComEntrega(r, v, h) \in Linhas
           /\ Registradas(ComEntrega(r, v, h)) = Registradas(r) \cup {v}
           /\ \A u \in Registradas(r) :
                ComEntrega(r, v, h)[u].homologada = r[u].homologada
<1>1. TornaVigente(r, h) \in BOOLEAN
  BY DEF TornaVigente
<1>2. [homologada |-> h, vigente |-> TornaVigente(r, h)] \in Linha
  BY <1>1 DEF Linha
<1>3. ASSUME NEW u \in Versoes, r[u] # Nada
      PROVE  /\ r[u] \in Linha
             /\ [homologada |-> r[u].homologada, vigente |-> FALSE] \in Linha
  BY <1>3 DEF Linhas, Linha
<1>4. Nada \notin Linha
  BY ConstantsAssumption DEF Linha
<1>5. ComEntrega(r, v, h) \in Linhas
  BY <1>2, <1>3 DEF ComEntrega, Linhas
<1>6. ASSUME NEW u \in Versoes
      PROVE  ComEntrega(r, v, h)[u] # Nada <=> r[u] # Nada \/ u = v
  BY <1>2, <1>3, <1>4 DEF ComEntrega
<1>7. ASSUME NEW u \in Registradas(r)
      PROVE  ComEntrega(r, v, h)[u].homologada = r[u].homologada
  BY DEF ComEntrega, Registradas
<1> QED
  BY <1>5, <1>6, <1>7 DEF Registradas

\* The rows a transaction keeps as its own.
LEMMA EscritasTipo ==
    ASSUME NEW t \in Cargas, NEW k \in Chaves, tx[t].entregas \in Tabela(Linha),
           NEW q \in Linhas, NEW r \in Linhas
    PROVE  Escritas(t, k, q, r) \in Linhas
  BY DEF Escritas, Linhas, Tabela

\* ... and what it reads of them afterwards is what it wrote.
LEMMA EscritasLidas ==
    ASSUME NEW t \in Cargas, NEW k \in Chaves, NEW r \in Linhas,
           \A v \in Versoes : EntregasDe(t, k)[v] # Nada => r[v] # Nada
    PROVE  Sobre(Escritas(t, k, EntregasDe(t, k), r), entregas[k]) = r
<1> DEFINE q == EntregasDe(t, k)
           e == Escritas(t, k, q, r)
<1>1. ASSUME NEW v \in Versoes
      PROVE  (IF e[v] # Nada THEN e[v] ELSE entregas[k][v]) = r[v]
  <2>1. q[v] = IF tx[t].entregas[k][v] # Nada THEN tx[t].entregas[k][v]
               ELSE entregas[k][v]
    BY DEF EntregasDe, Sobre
  <2>2. CASE r[v] # q[v]
    BY <2>1, <2>2 DEF Escritas
  <2>3. CASE r[v] = q[v]
    BY <2>1, <2>3 DEF Escritas
  <2> QED
    BY <2>2, <2>3
<1> QED
  BY <1>1 DEF Sobre, Linhas

-----------------------------------------------------------------------------
(* Types. *)

\* One transaction's state replaced by another.
LEMMA TxTipos ==
    ASSUME Tipos, NEW t \in Cargas, NEW y \in Transacao,
           y.pc \in {"extraida", "bronze", "replay"} => y.chave \in Chaves,
           y.pc \in {"extraida", "bronze"} =>
             y.versao \in Versoes /\ y.conteudo \in Conteudos \ {Vazio},
           tx' = [tx EXCEPT ![t] = y]
    PROVE  tx' \in [Cargas -> Transacao] /\ PosicaoDefinida'
  BY DEF Tipos, TypeOK, PosicaoDefinida

\* A transaction at rest, or between two keys.
LEMMA RepousoTipo == Repouso \in Transacao /\ Repouso.pc = "livre"
<1>1. SemLinhas \in Tabela(Conteudos) /\ SemLinhas \in Tabela(Linha)
  BY SemLinhasTipo
<1> QED
  BY <1>1 DEF Repouso, Transacao

LEMMA EntreChavesTipo ==
    ASSUME NEW x \in Transacao
    PROVE  /\ EntreChaves(x) \in Transacao
           /\ EntreChaves(x).pc = "aberta"
           /\ EntreChaves(x).bronze = x.bronze
           /\ EntreChaves(x).entregas = x.entregas
           /\ EntreChaves(x).silver = x.silver
  BY RepousoTipo DEF EntreChaves, Repouso, Transacao

\* A transaction lets go of its locks.
LEMMA SoltarTipo ==
    ASSUME Tipos, NEW t \in Cargas
    PROVE  Soltar(t) \in [Chaves -> Cargas \cup {Nada}]
  BY DEF Soltar, Tipos, TypeOK

\* Two tables of a transaction replaced.
LEMMA TabelasTrocadas ==
    ASSUME NEW b \in Transacao, NEW E \in Tabela(Linha), NEW S \in Tabela(Conteudos),
           NEW y, y = [b EXCEPT !.entregas = E, !.silver = S]
    PROVE  /\ y \in Transacao
           /\ y.pc = b.pc /\ y.chave = b.chave
           /\ y.versao = b.versao /\ y.conteudo = b.conteudo /\ y.pend = b.pend
           /\ y.bronze = b.bronze /\ y.entregas = E /\ y.silver = S
           /\ [b EXCEPT !.entregas = E].silver = b.silver
  BY DEF Transacao

\* The rows of a registration.
LEMMA RegistroLinhas ==
    ASSUME Tipos, NEW t \in Cargas, NEW k \in Chaves, NEW v \in Versoes,
           NEW h \in Nat \ {0}
    PROVE  LET q == EntregasDe(t, k)
           IN /\ q \in Linhas
              /\ ComEntrega(q, v, h) \in Linhas
              /\ Escritas(t, k, q, ComEntrega(q, v, h)) \in Linhas
<1>1. tx[t].entregas \in Tabela(Linha) /\ entregas \in Tabela(Linha)
  BY DEF Tipos, TypeOK, Transacao
<1>2. EntregasDe(t, k) \in Linhas
  BY <1>1, SobreTipo DEF EntregasDe, Linhas, Tabela
<1> QED
  BY <1>1, <1>2, ComEntregaTipo, EscritasTipo

\* A transaction registers a delivery and may write its silver.
LEMMA ComRegistroTipo ==
    ASSUME Tipos, NEW t \in Cargas, NEW x \in Transacao, NEW k \in Chaves,
           NEW v \in Versoes, NEW h \in Nat \ {0}, NEW c \in Conteudos \cup {Nada},
           x.entregas = tx[t].entregas,
           NEW y, y = ComRegistro(t, x, k, v, h, c)
    PROVE  /\ y \in Transacao
           /\ y.pc = x.pc /\ y.chave = x.chave
           /\ y.versao = x.versao /\ y.conteudo = x.conteudo /\ y.pend = x.pend
           /\ y.bronze = x.bronze
           /\ y.entregas[k]
              = Escritas(t, k, EntregasDe(t, k), ComEntrega(EntregasDe(t, k), v, h))
           /\ \A j \in Chaves \ {k} : y.entregas[j] = tx[t].entregas[j]
           /\ y.silver[k][v] = c
           /\ \A j \in Chaves : \A u \in Versoes :
                j # k \/ u # v => y.silver[j][u] = x.silver[j][u]
<1> DEFINE e == Escritas(t, k, EntregasDe(t, k), ComEntrega(EntregasDe(t, k), v, h))
           E == [x.entregas EXCEPT ![k] = e]
           S == [x.silver EXCEPT ![k][v] = c]
           z == [x EXCEPT !.entregas = E, !.silver = S]
<1>1. E \in Tabela(Linha)
  <2>1. e \in Linhas
    BY RegistroLinhas
  <2> HIDE DEF e
  <2> QED
    BY <2>1, TabelaTroca DEF Linhas, Transacao
<1>2. S \in Tabela(Conteudos)
  BY DEF Transacao, Tabela
<1>3. /\ z \in Transacao
      /\ z.pc = x.pc /\ z.chave = x.chave
      /\ z.versao = x.versao /\ z.conteudo = x.conteudo /\ z.pend = x.pend
      /\ z.bronze = x.bronze /\ z.entregas = E /\ z.silver = S
      /\ [x EXCEPT !.entregas = E].silver = x.silver
  <2> HIDE DEF E, S
  <2> QED
    BY <1>1, <1>2, TabelasTrocadas
<1>4. ComRegistro(t, x, k, v, h, c) = z
  BY <1>3, Zenon DEF ComRegistro
<1>5. /\ E[k] = e
      /\ \A j \in Chaves \ {k} : E[j] = tx[t].entregas[j]
      /\ S[k][v] = c
      /\ \A j \in Chaves : \A u \in Versoes :
           j # k \/ u # v => S[j][u] = x.silver[j][u]
  BY DEF Transacao, Tabela
<1> HIDE DEF z, E, S
<1> QED
  BY <1>3, <1>4, <1>5

\* The rows that payloads give.
Derivadas == {ToSilver(c) : c \in Conteudos \ {Vazio}}

LEMMA ToSilverTipo ==
    /\ \A c : ToSilver(c) \in Conteudos
    /\ \A c \in Conteudos \ {Vazio} : ToSilver(c) \in Derivadas
    /\ Nada \notin Derivadas
  BY ConstantsAssumption DEF ToSilver, Derivadas

\* What a transaction reads of bronze.
LEMMA BronzeLido ==
    ASSUME Tipos, NEW t \in Cargas, NEW k \in Chaves
    PROVE  /\ BronzeDe(t, k) \in [Versoes -> Conteudos \cup {Nada}]
           /\ Registradas(BronzeDe(t, k)) \subseteq Versoes
<1>1. /\ tx[t].bronze[k] \in [Versoes -> Conteudos \cup {Nada}]
      /\ bronze[k] \in [Versoes -> Conteudos \cup {Nada}]
  BY DEF Tipos, TypeOK, Transacao, Tabela
<1> QED
  BY <1>1, SobreTipo DEF BronzeDe, Registradas

\* A replay that is done with a version.
LEMMA SemPendenteTipo ==
    ASSUME NEW x \in Transacao, NEW v \in Versoes
    PROVE  LET y == SemPendente(x, v)
           IN /\ y \in Transacao
              /\ \/ y.pc = "aberta"
                 \/ y.pc = x.pc /\ y.chave = x.chave /\ y.pend \subseteq x.pend
              /\ y.bronze = x.bronze /\ y.entregas = x.entregas
              /\ y.silver = x.silver
<1>1. LET y == [x EXCEPT !.pend = x.pend \ {v}]
      IN /\ y \in Transacao /\ y.pc = x.pc /\ y.chave = x.chave
         /\ y.pend \subseteq x.pend
         /\ y.bronze = x.bronze /\ y.entregas = x.entregas /\ y.silver = x.silver
  BY DEF Transacao
<1> QED
  BY <1>1, EntreChavesTipo DEF SemPendente

\* What register_entrega stamps is an instant.
LEMMA CarimboTipo ==
    ASSUME Tipos, NEW h \in 0 .. relogio
    PROVE  Carimbo(h) \in Nat \ {0}
  BY DEF Carimbo, Tipos, TypeOK

\* register_entrega keeps the types.
LEMMA RegisterEntregaTipos ==
    ASSUME Tipos, NEW t \in Cargas, NEW x \in Transacao, NEW k \in Chaves,
           NEW v \in Versoes, NEW h \in Nat \ {0}, NEW c \in Conteudos \cup {Nada},
           x.entregas = tx[t].entregas,
           x.pc \in {"aberta", "replay"}, x.pc = "replay" => x.chave \in Chaves,
           RegisterEntrega(t, x, k, v, h, c)
    PROVE  Tipos'
<1> DEFINE y == ComRegistro(t, x, k, v, h, c)
<1>1. y \in Transacao /\ y.pc = x.pc /\ y.chave = x.chave
  <2>1. y = ComRegistro(t, x, k, v, h, c)
    OBVIOUS
  <2> HIDE DEF y
  <2> QED
    BY <2>1, ComRegistroTipo
<1>2. tx' = [tx EXCEPT ![t] = y]
  BY DEF RegisterEntrega
<1>3. tx' \in [Cargas -> Transacao] /\ PosicaoDefinida'
  <2> HIDE DEF y
  <2> QED
    BY <1>1, <1>2, TxTipos
<1>4. trava' \in [Chaves -> Cargas \cup {Nada}]
  BY DEF RegisterEntrega, Tipos, TypeOK
<1> QED
  BY <1>3, <1>4 DEF RegisterEntrega, Tipos, TypeOK

\* The initial state is typed.
LEMMA TiposInit == Init => Tipos
<1>1. SemLinhas \in Tabela(Conteudos) /\ SemLinhas \in Tabela(Linha)
  BY SemLinhasTipo
<1> QED
  BY <1>1, RepousoTipo DEF Init, Tipos, TypeOK, PosicaoDefinida

\* t registers v of k, stamped s, with silver c, and goes on as x.
Registro(t, x, k, v, s, c) ==
    /\ x \in Transacao
    /\ x.entregas = tx[t].entregas /\ x.bronze = tx[t].bronze /\ x.silver = tx[t].silver
    /\ x.pc \in {"aberta", "replay"} /\ (x.pc = "replay" => x.chave \in Chaves)
    /\ x.pc = "replay" => /\ tx[t].pc = "replay" /\ x.chave = tx[t].chave
                          /\ x.pend \subseteq tx[t].pend
    /\ k \in Chaves /\ v \in Versoes /\ s \in Nat \ {0} /\ c \in Conteudos \cup {Nada}
    /\ k = tx[t].chave
    /\ \/ tx[t].pc = "replay" /\ v \in tx[t].pend /\ c = ToSilver(BronzeDe(t, k)[v])
       \/ /\ tx[t].pc = "bronze" /\ v = tx[t].versao
          /\ \/ c = ToSilver(tx[t].conteudo)
             \/ ~tx[t].novo /\ c = tx[t].silver[k][v]
    /\ RegisterEntrega(t, x, k, v, s, c)

\* A unit registers the payload it extracted.
LEMMA RegistrarForma ==
    ASSUME Tipos, NEW t \in Cargas, NEW h \in 0 .. relogio, NEW force \in BOOLEAN,
           Registrar(t, h, force)
    PROVE  \E x, k, v, s, c : Registro(t, x, k, v, s, c)
<1> DEFINE k == tx[t].chave
           v == tx[t].versao
           x == EntreChaves(tx[t])
           c == IF RefazSilver(tx[t], force) THEN ToSilver(tx[t].conteudo)
                ELSE tx[t].silver[k][v]
<1>1. /\ k \in Chaves /\ v \in Versoes /\ tx[t].conteudo \in Conteudos
      /\ tx[t] \in Transacao
  BY DEF Registrar, Tipos, TypeOK, PosicaoDefinida
<1>2. c \in Conteudos \cup {Nada}
  BY <1>1, ToSilverTipo DEF Transacao, Tabela
<1>3. /\ x \in Transacao /\ x.pc = "aberta" /\ x.silver = tx[t].silver
      /\ x.entregas = tx[t].entregas /\ x.bronze = tx[t].bronze
  BY <1>1, EntreChavesTipo
<1>4. Carimbo(h) \in Nat \ {0}
  BY CarimboTipo
<1>5. RegisterEntrega(t, x, k, v, Carimbo(h), c)
  BY DEF Registrar
<1>6. /\ k = tx[t].chave /\ v = tx[t].versao /\ tx[t].pc = "bronze"
      /\ c = ToSilver(tx[t].conteudo) \/ (~tx[t].novo /\ c = tx[t].silver[k][v])
  BY DEF Registrar, RefazSilver
<1> HIDE DEF k, v, x, c
<1> QED
  BY <1>1, <1>2, <1>3, <1>4, <1>5, <1>6 DEF Registro

\* A replay registers a payload of bronze.
LEMMA ReplayForma ==
    ASSUME Tipos, NEW t \in Cargas, NEW v \in Versoes, Replay(t, v)
    PROVE  \E x, k, w, s, c : Registro(t, x, k, w, s, c)
<1> DEFINE k == tx[t].chave
           x == SemPendente(tx[t], v)
           c == ToSilver(BronzeDe(t, k)[v])
<1>1. k \in Chaves /\ tx[t] \in Transacao /\ tx[t].pc = "replay"
  BY DEF Replay, Tipos, TypeOK, PosicaoDefinida
<1>2. c \in Conteudos \cup {Nada}
  BY <1>1, ToSilverTipo
<1>3. /\ x \in Transacao /\ x.pc \in {"aberta", "replay"}
      /\ x.entregas = tx[t].entregas /\ x.bronze = tx[t].bronze
      /\ x.silver = tx[t].silver
      /\ x.pc = "replay" => x.chave = k /\ x.pend \subseteq tx[t].pend
  BY <1>1, SemPendenteTipo
<1>4. Carimbo(0) \in Nat \ {0}
  BY CarimboTipo DEF Tipos, TypeOK
<1>5. /\ RegisterEntrega(t, x, k, v, Carimbo(0), c)
      /\ v \in tx[t].pend /\ c = ToSilver(BronzeDe(t, k)[v]) /\ k = tx[t].chave
  BY DEF Replay
<1> HIDE DEF k, x, c
<1> QED
  BY <1>1, <1>2, <1>3, <1>4, <1>5 DEF Registro

\* Every step keeps the types.
LEMMA TiposNext == Tipos /\ [Next]_vars => Tipos'
<1> SUFFICES ASSUME Tipos, [Next]_vars PROVE Tipos'
  OBVIOUS
<1>1. CASE UNCHANGED vars
  BY <1>1 DEF vars, Tipos, TypeOK, PosicaoDefinida
<1>2. ASSUME NEW t \in Cargas, Iniciar(t) PROVE Tipos'
  <2>1. [Repouso EXCEPT !.pc = "aberta"] \in Transacao
    BY RepousoTipo DEF Transacao
  <2>2. tx' \in [Cargas -> Transacao] /\ PosicaoDefinida'
    BY <1>2, <2>1, RepousoTipo, TxTipos DEF Iniciar, Transacao
  <2> QED
    BY <1>2, <2>2 DEF Iniciar, Tipos, TypeOK
<1>3. ASSUME NEW t \in Cargas, NEW k \in Chaves, NEW v \in Versoes,
             NEW c \in Conteudos, Extrair(t, k, v, c)
      PROVE  Tipos'
  <2> DEFINE F == tx[t].feitas \cup {<<k, v>>}
             y == [tx[t] EXCEPT !.pc = "extraida", !.chave = k, !.versao = v,
                                !.conteudo = c, !.feitas = F]
  <2>1. y \in Transacao /\ y.chave = k /\ y.versao = v /\ y.conteudo = c
    <3>1. F \in SUBSET (Chaves \X Versoes) /\ tx[t] \in Transacao
      BY DEF Tipos, TypeOK, Transacao
    <3> HIDE DEF F
    <3> QED
      BY <3>1 DEF Transacao
  <2>2. tx' = [tx EXCEPT ![t] = y] /\ c # Vazio
    BY <1>3 DEF Extrair, PayloadVazio
  <2>3. tx' \in [Cargas -> Transacao] /\ PosicaoDefinida'
    <3> HIDE DEF y
    <3> QED
      BY <2>1, <2>2, TxTipos
  <2> QED
    BY <1>3, <2>3 DEF Extrair, Tipos, TypeOK
<1>4. ASSUME NEW t \in Cargas, ToBronze(t) PROVE Tipos'
  <2> DEFINE n == BronzeDe(t, tx[t].chave)[tx[t].versao] = Nada
             y == [tx[t] EXCEPT !.pc = "bronze", !.novo = n, !.bronze = BronzeInserido(t)]
  <2>1. /\ tx[t].chave \in Chaves /\ tx[t].versao \in Versoes
        /\ tx[t].conteudo \in Conteudos \ {Vazio}
    BY <1>4 DEF ToBronze, Tipos, PosicaoDefinida
  <2>2. BronzeInserido(t) \in Tabela(Conteudos)
    BY <2>1 DEF BronzeInserido, Tipos, TypeOK, Transacao, Tabela
  <2>3. n \in BOOLEAN
    OBVIOUS
  <2>4. /\ y \in Transacao /\ y.chave = tx[t].chave
        /\ y.versao = tx[t].versao /\ y.conteudo = tx[t].conteudo
    <3> HIDE DEF n
    <3> QED
      BY <2>2, <2>3, ZenonT(30) DEF Tipos, TypeOK, Transacao
  <2>5. tx' = [tx EXCEPT ![t] = y]
    BY <1>4 DEF ToBronze
  <2>6. tx' \in [Cargas -> Transacao] /\ PosicaoDefinida'
    <3> HIDE DEF y
    <3> QED
      BY <2>1, <2>4, <2>5, TxTipos
  <2> QED
    BY <1>4, <2>6 DEF ToBronze, Tipos, TypeOK
<1>5. ASSUME NEW t \in Cargas, NEW h \in 0 .. relogio, NEW force \in BOOLEAN,
             Registrar(t, h, force)
      PROVE  Tipos'
  <2>1. PICK x, k, v, s, c : Registro(t, x, k, v, s, c)
    BY <1>5, RegistrarForma
  <2> QED
    BY <2>1, RegisterEntregaTipos DEF Registro
<1>6. ASSUME NEW t \in Cargas, NEW k \in Chaves, ListarBronze(t, k) PROVE Tipos'
  <2> DEFINE P == Registradas(BronzeDe(t, k))
             F == tx[t].feitas \cup ({k} \X Versoes)
             y == [tx[t] EXCEPT !.pc = "replay", !.chave = k, !.pend = P, !.feitas = F]
  <2>1. P \in SUBSET Versoes
    BY BronzeLido
  <2>2. F \in SUBSET (Chaves \X Versoes) /\ tx[t] \in Transacao
    BY DEF Tipos, TypeOK, Transacao
  <2>3. y \in Transacao /\ y.pc = "replay" /\ y.chave = k
    <3> HIDE DEF P, F
    <3> QED
      BY <2>1, <2>2 DEF Transacao
  <2>4. tx' = [tx EXCEPT ![t] = y]
    BY <1>6 DEF ListarBronze
  <2>5. tx' \in [Cargas -> Transacao] /\ PosicaoDefinida'
    <3> HIDE DEF y
    <3> QED
      BY <2>3, <2>4, TxTipos
  <2> QED
    BY <1>6, <2>5 DEF ListarBronze, Tipos, TypeOK
<1>7. ASSUME NEW t \in Cargas, NEW v \in Versoes, Replay(t, v) PROVE Tipos'
  <2>1. PICK x, k, w, s, c : Registro(t, x, k, w, s, c)
    BY <1>7, ReplayForma
  <2> QED
    BY <2>1, RegisterEntregaTipos DEF Registro
<1>8. ASSUME NEW t \in Cargas, Commit(t) PROVE Tipos'
  <2>1. /\ bronze' \in Tabela(Conteudos) /\ entregas' \in Tabela(Linha)
        /\ silver' \in Tabela(Conteudos)
    BY <1>8, PublicadasTipo DEF Commit, Tipos, TypeOK, Transacao
  <2>2. tx' \in [Cargas -> Transacao] /\ PosicaoDefinida'
    BY <1>8, RepousoTipo, TxTipos DEF Commit
  <2>3. trava' \in [Chaves -> Cargas \cup {Nada}]
    BY <1>8, SoltarTipo DEF Commit
  <2> QED
    BY <1>8, <2>1, <2>2, <2>3 DEF Commit, Tipos, TypeOK
<1>9. ASSUME NEW t \in Cargas, Rollback(t) PROVE Tipos'
  <2>1. tx' \in [Cargas -> Transacao] /\ PosicaoDefinida'
    BY <1>9, RepousoTipo, TxTipos DEF Rollback
  <2>2. trava' \in [Chaves -> Cargas \cup {Nada}]
    BY <1>9, SoltarTipo DEF Rollback
  <2> QED
    BY <1>9, <2>1, <2>2 DEF Rollback, Tipos, TypeOK
<1>10. CASE Tempo
  BY <1>10 DEF Tempo, Tipos, TypeOK, PosicaoDefinida
<1> QED
  BY <1>1, <1>2, <1>3, <1>4, <1>5, <1>6, <1>7, <1>8, <1>9, <1>10
     DEF Next, Avanca, Extracao, ExtrairRetificacao, Impasse

LEMMA TiposInvariante == Spec => []Tipos
  BY TiposInit, TiposNext, PTL DEF Spec

\* Every variable keeps its type, whatever the transactions do.
THEOREM TypeCorrect == Spec => []TypeOK
<1>1. Tipos => TypeOK
  BY DEF Tipos
<1> QED
  BY <1>1, TiposInvariante, PTL

-----------------------------------------------------------------------------
(* Which delivery is in force. *)

\* v is in force, alone, and homologated last.
Manda(r, v) ==
    /\ r[v].vigente
    /\ \A u \in Registradas(r) :
         (u # v => ~r[u].vigente) /\ r[v].homologada >= r[u].homologada

Bem(r) == Registradas(r) # {} => \E v \in Registradas(r) : Manda(r, v)

LinhasBem == \A k \in Chaves : Bem(entregas[k])

\* Who holds the lock of a key sees a key that is well.
ProprioBem == \A t \in Cargas, k \in Chaves : trava[k] = t => Bem(EntregasDe(t, k))

\* Only who holds the lock of a key has written deliveries of it.
SoComTrava ==
    \A t \in Cargas, k \in Chaves :
        trava[k] # t => \A v \in Versoes : tx[t].entregas[k][v] = Nada

\* A delivery written again keeps its homologation.
MesmoCarimbo ==
    \A t \in Cargas, k \in Chaves, v \in Versoes :
        tx[t].entregas[k][v] # Nada /\ entregas[k][v] # Nada =>
            tx[t].entregas[k][v].homologada = entregas[k][v].homologada

\* A payload inserted and not committed is nobody else's.
BronzeNovo ==
    \A t \in Cargas, k \in Chaves, v \in Versoes :
        tx[t].bronze[k][v] # Nada =>
            /\ bronze[k][v] = Nada
            /\ \A u \in Cargas : tx[u].bronze[k][v] # Nada => u = t

EInv == LinhasBem /\ ProprioBem /\ SoComTrava /\ MesmoCarimbo /\ BronzeNovo

\* A registration leaves a key well.
LEMMA ComEntregaBem ==
    ASSUME NEW r \in Linhas, NEW v \in Versoes, NEW h \in Nat \ {0}, Bem(r)
    PROVE  Bem(ComEntrega(r, v, h))
<1> DEFINE s == ComEntrega(r, v, h)
<1>1. ASSUME NEW u \in Registradas(r)
      PROVE  u \in Versoes /\ r[u] \in Linha /\ r[u].homologada \in Nat
  BY DEF Registradas, Linhas, Linha
<1>2. Registradas(s) = Registradas(r) \cup {v} /\ v \in Registradas(s)
  BY ComEntregaTipo
<1>3. CASE r[v] # Nada
  BY <1>3 DEF ComEntrega
<1>4. CASE r[v] = Nada /\ TornaVigente(r, h)
  <2>1. s[v] = [homologada |-> h, vigente |-> TRUE]
    BY <1>4 DEF ComEntrega
  <2>2. ASSUME NEW u \in Registradas(r)
        PROVE  s[u].vigente = FALSE /\ s[u].homologada = r[u].homologada
    BY <1>1, <1>4 DEF ComEntrega, Registradas
  <2>3. ASSUME NEW u \in Registradas(r) PROVE h >= r[u].homologada
    BY <1>4 DEF TornaVigente
  <2>4. Manda(s, v)
    <3> HIDE DEF s
    <3>1. s[v].vigente /\ s[v].homologada = h
      BY <2>1
    <3>2. \A u \in Registradas(s) : u # v => ~s[u].vigente
      BY <1>2, <2>2
    <3>3. ASSUME NEW u \in Registradas(s) PROVE h >= s[u].homologada
      <4>1. CASE u = v
        <5>1. h >= h
          OBVIOUS
        <5> QED
          BY <3>1, <4>1, <5>1
      <4>2. CASE u # v
        <5>1. u \in Registradas(r)
          BY <1>2, <4>2
        <5> QED
          BY <2>2, <2>3, <5>1
      <4> QED
        BY <4>1, <4>2
    <3> QED
      BY <3>1, <3>2, <3>3 DEF Manda
  <2> QED
    BY <1>2, <2>4 DEF Bem
<1>5. CASE r[v] = Nada /\ ~TornaVigente(r, h)
  <2>1. PICK w \in Registradas(r) : h < r[w].homologada
    BY <1>1, <1>5 DEF TornaVigente
  <2>2. PICK m \in Registradas(r) : Manda(r, m)
    BY <2>1 DEF Bem
  <2>3. h < r[m].homologada
    BY <1>1, <2>1, <2>2 DEF Manda
  <2>4. s[v] = [homologada |-> h, vigente |-> FALSE]
    <3>1. TornaVigente(r, h) = FALSE
      BY <1>5 DEF TornaVigente
    <3> QED
      BY <1>5, <3>1 DEF ComEntrega
  <2>5. ASSUME NEW u \in Registradas(r) PROVE s[u] = r[u]
    BY <1>1, <1>5 DEF ComEntrega, Registradas
  <2>6. Manda(s, m)
    <3> HIDE DEF s
    <3> QED
      BY <1>1, <1>2, <2>2, <2>3, <2>4, <2>5 DEF Manda
  <2> QED
    BY <1>2, <2>2, <2>6 DEF Bem
<1> QED
  BY <1>3, <1>4, <1>5

\* Nothing read is well.
LEMMA SobreNada ==
    ASSUME NEW q \in Linhas, NEW p, \A v \in Versoes : p[v] = Nada
    PROVE  Sobre(p, q) = q
  BY DEF Sobre, Linhas

\* Who may take the lock of a key sees a key that is well.
LEMMA TravaLivreBem ==
    ASSUME Tipos, EInv, NEW t \in Cargas, NEW k \in Chaves, TravaLivre(t, k)
    PROVE  Bem(EntregasDe(t, k))
<1>1. CASE trava[k] = t
  BY <1>1 DEF EInv, ProprioBem
<1>2. CASE trava[k] = Nada
  <2>1. entregas[k] \in Linhas
    BY DEF Tipos, TypeOK, Tabela, Linhas
  <2>2. Nada # t
    BY ConstantsAssumption
  <2>3. EntregasDe(t, k) = entregas[k]
    BY <1>2, <2>1, <2>2, SobreNada DEF EInv, SoComTrava, EntregasDe
  <2> QED
    BY <2>3 DEF EInv, LinhasBem
<1> QED
  BY <1>1, <1>2 DEF TravaLivre

\* Steps that write no delivery and no payload.
LEMMA EInvMesma ==
    ASSUME EInv, entregas' = entregas, bronze' = bronze, trava' = trava,
           \A u \in Cargas : /\ tx'[u].entregas = tx[u].entregas
                             /\ tx'[u].bronze = tx[u].bronze
    PROVE  EInv'
<1>1. \A u \in Cargas, k \in Chaves : EntregasDe(u, k)' = EntregasDe(u, k)
  BY DEF EntregasDe
<1>2. LinhasBem' /\ ProprioBem'
  BY <1>1 DEF EInv, LinhasBem, ProprioBem, Bem, Manda, Registradas
<1>3. SoComTrava' /\ MesmoCarimbo'
  BY DEF EInv, SoComTrava, MesmoCarimbo
<1>4. BronzeNovo'
  BY DEF EInv, BronzeNovo
<1> QED
  BY <1>2, <1>3, <1>4 DEF EInv

\* A transaction starts, or is rolled back.
LEMMA EInvLimpa ==
    ASSUME Tipos, EInv, NEW t \in Cargas, entregas' = entregas, bronze' = bronze,
           \A k \in Chaves : trava'[k] = trava[k] \/ (trava[k] = t /\ trava'[k] = Nada),
           \A u \in Cargas \ {t} : tx'[u] = tx[u],
           tx'[t].entregas = SemLinhas, tx'[t].bronze = SemLinhas
    PROVE  EInv'
<1>1. \A k \in Chaves : entregas[k] \in Linhas
  BY DEF Tipos, TypeOK, Tabela, Linhas
<1>2. LinhasBem'
  BY DEF EInv, LinhasBem, Bem, Manda, Registradas
<1>3. ASSUME NEW u \in Cargas, NEW k \in Chaves, trava'[k] = u
      PROVE  Bem(EntregasDe(u, k))'
  <2>1. CASE u = t
    <3>1. Sobre(tx'[t].entregas[k], entregas[k]) = entregas[k]
      BY <1>1, SobreNada DEF SemLinhas
    <3> QED
      BY <2>1, <3>1, <1>2 DEF LinhasBem, EntregasDe
  <2>2. CASE u # t
    <3>1. trava[k] = u
      BY <1>3, <2>2, ConstantsAssumption
    <3>2. EntregasDe(u, k)' = EntregasDe(u, k)
      BY <2>2 DEF EntregasDe
    <3> QED
      BY <3>1, <3>2 DEF EInv, ProprioBem, Bem, Manda, Registradas
  <2> QED
    BY <2>1, <2>2
<1>4. SoComTrava'
  BY DEF EInv, SoComTrava, SemLinhas
<1>5. MesmoCarimbo' /\ BronzeNovo'
  BY DEF EInv, MesmoCarimbo, BronzeNovo, SemLinhas
<1> QED
  BY <1>2, <1>3, <1>4, <1>5 DEF EInv, ProprioBem

\* A registration under the lock.
LEMMA EInvRegistra ==
    ASSUME Tipos, EInv, NEW t \in Cargas, NEW x \in Transacao, NEW k \in Chaves,
           NEW v \in Versoes, NEW h \in Nat \ {0}, NEW c \in Conteudos \cup {Nada},
           x.entregas = tx[t].entregas, x.bronze = tx[t].bronze,
           RegisterEntrega(t, x, k, v, h, c)
    PROVE  EInv'
<1> DEFINE q == EntregasDe(t, k)
           r == ComEntrega(q, v, h)
           y == ComRegistro(t, x, k, v, h, c)
<1>1. /\ y.entregas[k] = Escritas(t, k, q, r)
      /\ \A j \in Chaves \ {k} : y.entregas[j] = tx[t].entregas[j]
      /\ y.bronze = tx[t].bronze
  <2>1. y = ComRegistro(t, x, k, v, h, c)
    OBVIOUS
  <2> HIDE DEF y
  <2> QED
    BY <2>1, ComRegistroTipo, SMTT(30)
<1>2. /\ tx'[t] = y
      /\ \A u \in Cargas \ {t} : tx'[u] = tx[u]
      /\ trava'[k] = t
      /\ \A j \in Chaves \ {k} : trava'[j] = trava[j]
      /\ entregas' = entregas /\ bronze' = bronze
  BY DEF RegisterEntrega, Tipos, TypeOK
<1>3. TravaLivre(t, k)
  BY DEF RegisterEntrega
<1>4. q \in Linhas /\ r \in Linhas /\ Bem(q)
  BY <1>3, RegistroLinhas, TravaLivreBem
<1>5. /\ Bem(r)
      /\ Registradas(r) = Registradas(q) \cup {v}
      /\ \A u \in Registradas(q) : r[u].homologada = q[u].homologada
  BY <1>4, ComEntregaBem, ComEntregaTipo
<1>6. EntregasDe(t, k)' = r
  <2>1. EntregasDe(t, k)' = Sobre(tx'[t].entregas[k], entregas'[k])
    BY DEF EntregasDe
  <2>2. \A u \in Versoes : q[u] # Nada => r[u] # Nada
    BY <1>5 DEF Registradas
  <2>3. Sobre(Escritas(t, k, q, r), entregas[k]) = r
    <3> HIDE DEF r
    <3> QED
      BY <1>4, <2>2, EscritasLidas
  <2> QED
    BY <1>1, <1>2, <2>1, <2>3
<1>7. \A u \in Cargas, j \in Chaves :
        u # t \/ j # k => tx'[u].entregas[j] = tx[u].entregas[j]
  BY <1>1, <1>2
<1>8. \A u \in Cargas : tx'[u].bronze = tx[u].bronze
  BY <1>1, <1>2
<1> HIDE DEF q, r, y
<1>9. LinhasBem'
  BY <1>2 DEF EInv, LinhasBem, Bem, Manda, Registradas
<1>10. ASSUME NEW u \in Cargas, NEW j \in Chaves, trava'[j] = u
       PROVE  Bem(EntregasDe(u, j))'
  <2>1. CASE j = k
    <3>1. u = t
      BY <1>2, <1>10, <2>1
    <3>2. Bem(r) = Bem(EntregasDe(u, j)')
      BY <1>6, <2>1, <3>1
    <3> QED
      BY <1>5, <3>2 DEF Bem, Manda, Registradas
  <2>2. CASE j # k
    <3>1. trava[j] = u
      BY <1>2, <1>10, <2>2
    <3>2. EntregasDe(u, j)' = EntregasDe(u, j)
      BY <1>2, <1>7, <2>2 DEF EntregasDe
    <3> QED
      BY <3>1, <3>2 DEF EInv, ProprioBem, Bem, Manda, Registradas
  <2> QED
    BY <2>1, <2>2
<1>11. ASSUME NEW u \in Cargas, NEW j \in Chaves, trava'[j] # u, NEW w \in Versoes
       PROVE  tx'[u].entregas[j][w] = Nada
  <2>1. CASE j = k
    <3>1. u # t /\ trava[k] # u
      BY <1>2, <1>3, <1>11, <2>1, ConstantsAssumption DEF TravaLivre
    <3> QED
      BY <1>7, <2>1, <3>1 DEF EInv, SoComTrava
  <2>2. CASE j # k
    BY <1>2, <1>7, <1>11, <2>2 DEF EInv, SoComTrava
  <2> QED
    BY <2>1, <2>2
<1>12. ASSUME NEW u \in Cargas, NEW j \in Chaves, NEW w \in Versoes,
              tx'[u].entregas[j][w] # Nada, entregas[j][w] # Nada
       PROVE  tx'[u].entregas[j][w].homologada = entregas[j][w].homologada
  <2>1. CASE u # t \/ j # k
    BY <1>7, <1>12, <2>1 DEF EInv, MesmoCarimbo
  <2>2. CASE u = t /\ j = k
    <3>1. q[w] = IF tx[t].entregas[k][w] # Nada THEN tx[t].entregas[k][w]
                 ELSE entregas[k][w]
      BY DEF q, EntregasDe, Sobre
    <3>2. q[w] # Nada /\ q[w].homologada = entregas[k][w].homologada
      BY <1>12, <2>2, <3>1 DEF EInv, MesmoCarimbo
    <3>3. r[w].homologada = q[w].homologada
      BY <1>5, <3>2 DEF Registradas
    <3>4. tx'[t].entregas[k][w] = IF r[w] # q[w] THEN r[w] ELSE tx[t].entregas[k][w]
      BY <1>1, <1>2 DEF Escritas
    <3> QED
      BY <1>12, <2>2, <3>2, <3>3, <3>4 DEF EInv, MesmoCarimbo
  <2> QED
    BY <2>1, <2>2
<1>13. BronzeNovo'
  BY <1>2, <1>8 DEF EInv, BronzeNovo
<1> QED
  BY <1>2, <1>9, <1>10, <1>11, <1>12, <1>13
     DEF EInv, ProprioBem, SoComTrava, MesmoCarimbo

\* A payload inserted in bronze.
LEMMA EInvBronze ==
    ASSUME Tipos, EInv, NEW t \in Cargas, ToBronze(t)
    PROVE  EInv'
<1> DEFINE k == tx[t].chave
           v == tx[t].versao
           n == BronzeDe(t, k)[v] = Nada
           y == [tx[t] EXCEPT !.pc = "bronze", !.novo = n, !.bronze = BronzeInserido(t)]
<1>1. k \in Chaves /\ v \in Versoes /\ tx[t] \in Transacao
  BY DEF ToBronze, Tipos, TypeOK, PosicaoDefinida
<1>2. y.entregas = tx[t].entregas /\ y.bronze = BronzeInserido(t)
  BY <1>1 DEF Transacao
<1>3. /\ tx'[t] = y
      /\ \A u \in Cargas \ {t} : tx'[u] = tx[u]
      /\ entregas' = entregas /\ bronze' = bronze /\ trava' = trava
  BY DEF ToBronze, Tipos, TypeOK
<1> HIDE DEF y
<1>4. \A u \in Cargas : tx'[u].entregas = tx[u].entregas
  BY <1>2, <1>3
<1>5. \A u \in Cargas, j \in Chaves : EntregasDe(u, j)' = EntregasDe(u, j)
  BY <1>3, <1>4 DEF EntregasDe
<1>6. LinhasBem' /\ ProprioBem'
  BY <1>3, <1>5 DEF EInv, LinhasBem, ProprioBem, Bem, Manda, Registradas
<1>7. SoComTrava' /\ MesmoCarimbo'
  BY <1>3, <1>4 DEF EInv, SoComTrava, MesmoCarimbo
<1>8. BronzeNovo'
  <2>1. CASE ~n
    <3>1. \A u \in Cargas : tx'[u].bronze = tx[u].bronze
      BY <1>2, <1>3, <2>1 DEF BronzeInserido
    <3> QED
      BY <1>3, <3>1 DEF EInv, BronzeNovo
  <2>2. CASE n
    <3>1. tx'[t].bronze = [tx[t].bronze EXCEPT ![k][v] = tx[t].conteudo]
      BY <1>2, <1>3, <2>2 DEF BronzeInserido
    <3>2. tx[t].bronze[k][v] = Nada /\ bronze[k][v] = Nada
      BY <1>1, <2>2 DEF BronzeDe, Sobre
    <3>3. \A u \in Cargas \ {t} : tx[u].bronze[k][v] = Nada
      BY DEF ToBronze, EsperaBronze
    <3>4. \A j \in Chaves : \A w \in Versoes :
            j # k \/ w # v => tx'[t].bronze[j][w] = tx[t].bronze[j][w]
      BY <1>1, <3>1 DEF Transacao, Tabela
    <3> HIDE DEF k, v, n
    <3> QED
      BY <1>1, <1>3, <3>2, <3>3, <3>4 DEF EInv, BronzeNovo
  <2> QED
    BY <2>1, <2>2
<1> QED
  BY <1>6, <1>7, <1>8 DEF EInv

\* What a transaction wrote is published.
LEMMA EInvCommit ==
    ASSUME Tipos, EInv, NEW t \in Cargas, Commit(t)
    PROVE  EInv'
<1>1. /\ tx'[t] = Repouso
      /\ \A u \in Cargas \ {t} : tx'[u] = tx[u]
      /\ \A k \in Chaves : entregas'[k] = EntregasDe(t, k)
      /\ \A k \in Chaves : bronze'[k] = Sobre(tx[t].bronze[k], bronze[k])
      /\ \A k \in Chaves : trava'[k] = IF trava[k] = t THEN Nada ELSE trava[k]
  BY DEF Commit, Publicadas, EntregasDe, Soltar, Tipos, TypeOK
<1>2. \A k \in Chaves : entregas[k] \in Linhas
  BY DEF Tipos, TypeOK, Tabela, Linhas
<1>3. ASSUME NEW k \in Chaves, trava[k] # t
      PROVE  entregas'[k] = entregas[k]
  BY <1>1, <1>2, <1>3, SobreNada DEF EInv, SoComTrava, EntregasDe
<1>4. /\ Repouso.entregas = SemLinhas /\ Repouso.bronze = SemLinhas
  BY DEF Repouso
<1>5. LinhasBem'
  <2>1. ASSUME NEW k \in Chaves PROVE Bem(entregas'[k])
    <3>1. CASE trava[k] = t
      BY <1>1, <3>1 DEF EInv, ProprioBem
    <3>2. CASE trava[k] # t
      BY <1>3, <3>2 DEF EInv, LinhasBem
    <3> QED
      BY <3>1, <3>2
  <2> QED
    BY <2>1 DEF LinhasBem, Bem, Manda, Registradas
<1>6. ASSUME NEW u \in Cargas, NEW k \in Chaves, trava'[k] = u
      PROVE  Bem(EntregasDe(u, k))'
  <2>1. trava[k] = u /\ u # t
    BY <1>1, <1>6, ConstantsAssumption
  <2>2. EntregasDe(u, k)' = EntregasDe(u, k)
    BY <1>1, <1>3, <2>1 DEF EntregasDe
  <2> QED
    BY <2>1, <2>2 DEF EInv, ProprioBem, Bem, Manda, Registradas
<1>7. SoComTrava'
  BY <1>1, <1>4, ConstantsAssumption DEF EInv, SoComTrava, SemLinhas
<1>8. ASSUME NEW u \in Cargas, NEW k \in Chaves, NEW v \in Versoes,
             tx'[u].entregas[k][v] # Nada, entregas'[k][v] # Nada
      PROVE  tx'[u].entregas[k][v].homologada = entregas'[k][v].homologada
  <2>1. u # t
    BY <1>1, <1>4, <1>8 DEF SemLinhas
  <2>2. trava[k] = u
    BY <1>1, <1>8, <2>1 DEF EInv, SoComTrava
  <2> QED
    BY <1>1, <1>3, <1>8, <2>1, <2>2 DEF EInv, MesmoCarimbo
<1>9. BronzeNovo'
  <2>1. ASSUME NEW k \in Chaves, NEW v \in Versoes
        PROVE  bronze'[k][v] = IF tx[t].bronze[k][v] # Nada THEN tx[t].bronze[k][v]
                               ELSE bronze[k][v]
    <3>1. bronze'[k] = Sobre(tx[t].bronze[k], bronze[k])
      BY <1>1
    <3> QED
      BY <3>1 DEF Sobre
  <2> QED
    BY <1>1, <1>4, <2>1 DEF EInv, BronzeNovo, SemLinhas
<1> QED
  BY <1>5, <1>6, <1>7, <1>8, <1>9 DEF EInv, ProprioBem, MesmoCarimbo

LEMMA EInvInit == Init => EInv
<1> SUFFICES ASSUME Init PROVE EInv
  OBVIOUS
<1>1. /\ \A t \in Cargas : tx[t].entregas = SemLinhas /\ tx[t].bronze = SemLinhas
      /\ entregas = SemLinhas
  BY DEF Init, Repouso
<1>2. ASSUME NEW k \in Chaves, NEW t \in Cargas
      PROVE  Registradas(entregas[k]) = {} /\ Registradas(EntregasDe(t, k)) = {}
  BY <1>1 DEF SemLinhas, Registradas, EntregasDe, Sobre
<1>3. \A k \in Chaves : Registradas(entregas[k]) = {}
  BY <1>1 DEF SemLinhas, Registradas
<1> QED
  BY <1>1, <1>2, <1>3
     DEF EInv, LinhasBem, ProprioBem, Bem, SoComTrava, MesmoCarimbo, BronzeNovo, SemLinhas

LEMMA EInvNext == Tipos /\ EInv /\ [Next]_vars => EInv'
<1> SUFFICES ASSUME Tipos, EInv, [Next]_vars PROVE EInv'
  OBVIOUS
<1>1. CASE UNCHANGED vars
  BY <1>1, EInvMesma DEF vars
<1>2. CASE Tempo
  BY <1>2, EInvMesma DEF Tempo
<1>3. ASSUME NEW t \in Cargas, Iniciar(t) PROVE EInv'
  <2>1. LET y == [Repouso EXCEPT !.pc = "aberta"]
        IN y.entregas = SemLinhas /\ y.bronze = SemLinhas
    BY DEF Repouso
  <2>2. /\ tx'[t].entregas = SemLinhas /\ tx'[t].bronze = SemLinhas
        /\ \A u \in Cargas \ {t} : tx'[u] = tx[u]
    BY <1>3, <2>1 DEF Iniciar, Tipos, TypeOK
  <2> QED
    BY <1>3, <2>2, EInvLimpa DEF Iniciar
<1>4. ASSUME NEW t \in Cargas, NEW k \in Chaves, NEW v \in Versoes,
             NEW c \in Conteudos, Extrair(t, k, v, c)
      PROVE  EInv'
  <2>1. \A u \in Cargas : /\ tx'[u].entregas = tx[u].entregas
                          /\ tx'[u].bronze = tx[u].bronze
    BY <1>4 DEF Extrair, Tipos, TypeOK, Transacao
  <2> QED
    BY <1>4, <2>1, EInvMesma DEF Extrair
<1>5. ASSUME NEW t \in Cargas, NEW k \in Chaves, ListarBronze(t, k) PROVE EInv'
  <2>1. \A u \in Cargas : /\ tx'[u].entregas = tx[u].entregas
                          /\ tx'[u].bronze = tx[u].bronze
    BY <1>5 DEF ListarBronze, Tipos, TypeOK, Transacao
  <2> QED
    BY <1>5, <2>1, EInvMesma DEF ListarBronze
<1>6. ASSUME NEW t \in Cargas, NEW h \in 0 .. relogio, NEW force \in BOOLEAN,
             Registrar(t, h, force)
      PROVE  EInv'
  <2>1. PICK x, k, v, s, c : Registro(t, x, k, v, s, c)
    BY <1>6, RegistrarForma
  <2> QED
    BY <2>1, EInvRegistra DEF Registro
<1>7. ASSUME NEW t \in Cargas, NEW w \in Versoes, Replay(t, w) PROVE EInv'
  <2>1. PICK x, k, v, s, c : Registro(t, x, k, v, s, c)
    BY <1>7, ReplayForma
  <2> QED
    BY <2>1, EInvRegistra DEF Registro
<1>8. ASSUME NEW t \in Cargas, ToBronze(t) PROVE EInv'
  BY <1>8, EInvBronze
<1>9. ASSUME NEW t \in Cargas, Commit(t) PROVE EInv'
  BY <1>9, EInvCommit
<1>10. ASSUME NEW t \in Cargas, Rollback(t) PROVE EInv'
  <2>1. /\ tx'[t].entregas = SemLinhas /\ tx'[t].bronze = SemLinhas
        /\ \A u \in Cargas \ {t} : tx'[u] = tx[u]
    BY <1>10 DEF Rollback, Repouso, Tipos, TypeOK
  <2>2. \A k \in Chaves : trava'[k] = trava[k] \/ (trava[k] = t /\ trava'[k] = Nada)
    BY <1>10 DEF Rollback, Soltar
  <2> QED
    BY <1>10, <2>1, <2>2, EInvLimpa DEF Rollback
<1> QED
  BY <1>1, <1>2, <1>3, <1>4, <1>5, <1>6, <1>7, <1>8, <1>9, <1>10
     DEF Next, Avanca, Extracao, ExtrairRetificacao, Impasse

LEMMA EInvInvariante == Spec => [](Tipos /\ EInv)
  BY TiposInit, TiposNext, EInvInit, EInvNext, PTL DEF Spec

\* A key with deliveries has exactly one in force, however many transactions
\* register deliveries of it at the same time.
THEOREM UmaVigente == Spec => []VigenteUnica
<1>1. ASSUME LinhasBem, NEW k \in Chaves, Registradas(entregas[k]) # {}
      PROVE  \E v \in Versoes : Vigentes(entregas[k]) = {v}
  <2>1. PICK v \in Registradas(entregas[k]) : Manda(entregas[k], v)
    BY <1>1 DEF LinhasBem, Bem
  <2>2. v \in Versoes
    BY DEF Registradas
  <2>3. Vigentes(entregas[k]) = {v}
    BY <2>1, Zenon DEF Manda, Vigentes
  <2> QED
    BY <2>2, <2>3
<1>2. LinhasBem => VigenteUnica
  BY <1>1 DEF VigenteUnica
<1> QED
  BY <1>2, EInvInvariante, PTL DEF EInv

\* The delivery in force is the one homologated last, in whatever order the
\* versions arrive.
THEOREM VigenteEhAUltima == Spec => []VigenteMaisRecente
<1>1. LinhasBem => VigenteMaisRecente
  BY DEF LinhasBem, Bem, Manda, VigenteMaisRecente, Vigentes
<1> QED
  BY <1>1, EInvInvariante, PTL DEF EInv

\* Only a commit is seen by the others.
LEMMA SoCommitPublica ==
    ASSUME [Next]_vars, \A t \in Cargas : ~Commit(t)
    PROVE  bronze' = bronze /\ silver' = silver /\ entregas' = entregas
<1>1. CASE UNCHANGED vars
  BY <1>1 DEF vars
<1>2. CASE Tempo
  BY <1>2 DEF Tempo
<1>3. ASSUME NEW t \in Cargas, Iniciar(t) \/ Rollback(t) \/ Impasse(t)
      PROVE  bronze' = bronze /\ silver' = silver /\ entregas' = entregas
  BY <1>3 DEF Iniciar, Rollback, Impasse
<1>4. ASSUME NEW t \in Cargas, Extracao(t) \/ ToBronze(t)
      PROVE  bronze' = bronze /\ silver' = silver /\ entregas' = entregas
  BY <1>4 DEF Extracao, Extrair, ExtrairRetificacao, ToBronze
<1>5. ASSUME NEW t \in Cargas, NEW k \in Chaves, ListarBronze(t, k)
      PROVE  bronze' = bronze /\ silver' = silver /\ entregas' = entregas
  BY <1>5 DEF ListarBronze
<1>6. ASSUME NEW t \in Cargas, NEW h, NEW force, Registrar(t, h, force)
      PROVE  bronze' = bronze /\ silver' = silver /\ entregas' = entregas
  BY <1>6 DEF Registrar, RegisterEntrega
<1>7. ASSUME NEW t \in Cargas, NEW v, Replay(t, v)
      PROVE  bronze' = bronze /\ silver' = silver /\ entregas' = entregas
  BY <1>7 DEF Replay, RegisterEntrega
<1> QED
  BY <1>1, <1>2, <1>3, <1>4, <1>5, <1>6, <1>7 DEF Next, Avanca

\* What a step leaves of what the history kept.
LEMMA HistoricoPasso ==
    ASSUME EInv, [Next]_vars, NEW k \in Chaves, NEW v \in Versoes
    PROVE  /\ bronze[k][v] # Nada => bronze'[k][v] = bronze[k][v]
           /\ entregas[k][v] # Nada =>
                /\ entregas'[k][v] # Nada
                /\ entregas'[k][v].homologada = entregas[k][v].homologada
<1>1. ASSUME NEW t \in Cargas, Commit(t)
      PROVE  /\ bronze[k][v] # Nada => bronze'[k][v] = bronze[k][v]
             /\ entregas[k][v] # Nada =>
                  /\ entregas'[k][v] # Nada
                  /\ entregas'[k][v].homologada = entregas[k][v].homologada
  <2>1. /\ bronze'[k] = Sobre(tx[t].bronze[k], bronze[k])
        /\ entregas'[k] = Sobre(tx[t].entregas[k], entregas[k])
    BY <1>1 DEF Commit, Publicadas
  <2>2. bronze'[k][v] = IF tx[t].bronze[k][v] # Nada THEN tx[t].bronze[k][v]
                        ELSE bronze[k][v]
    BY <2>1 DEF Sobre
  <2>4. entregas'[k][v] = IF tx[t].entregas[k][v] # Nada
                          THEN tx[t].entregas[k][v] ELSE entregas[k][v]
    BY <2>1 DEF Sobre
  <2>5. tx[t].bronze[k][v] # Nada => bronze[k][v] = Nada
    BY DEF EInv, BronzeNovo
  <2>6. tx[t].entregas[k][v] # Nada /\ entregas[k][v] # Nada =>
          tx[t].entregas[k][v].homologada = entregas[k][v].homologada
    BY DEF EInv, MesmoCarimbo
  <2> QED
    BY <2>2, <2>4, <2>5, <2>6
<1>2. CASE \A t \in Cargas : ~Commit(t)
  BY <1>2, SoCommitPublica
<1> QED
  BY <1>1, <1>2

\* No step loses a payload or the homologation of a delivery.
THEOREM HistoricoDuravel == Spec => HistoricoPreservado
<1>1. ASSUME Tipos /\ EInv, [Next]_vars
      PROVE  [\A k \in Chaves, v \in Versoes :
                /\ bronze[k][v] # Nada => bronze'[k][v] = bronze[k][v]
                /\ entregas[k][v] # Nada =>
                     /\ entregas'[k][v] # Nada
                     /\ entregas'[k][v].homologada = entregas[k][v].homologada]_vars
  BY <1>1, HistoricoPasso
<1> QED
  BY <1>1, EInvInvariante, PTL DEF HistoricoPreservado, Spec
-----------------------------------------------------------------------------
(* A delivery and its rows. *)

\* What a statement of t finds.
VeBronze(t, k, v) == tx[t].bronze[k][v] # Nada \/ bronze[k][v] # Nada
VeSilver(t, k, v) == tx[t].silver[k][v] # Nada \/ silver[k][v] # Nada
VeEntrega(t, k, v) == tx[t].entregas[k][v] # Nada \/ entregas[k][v] # Nada

\* No empty payload is kept, and silver is what to_silver made of one that is not.
SemVazio ==
    /\ \A k \in Chaves, v \in Versoes :
         bronze[k][v] # Vazio /\ silver[k][v] \in Derivadas \cup {Nada}
    /\ \A t \in Cargas, k \in Chaves, v \in Versoes :
         tx[t].bronze[k][v] # Vazio /\ tx[t].silver[k][v] \in Derivadas \cup {Nada}

\* A committed payload is a delivery that to_silver has run for, and the reverse.
CamadasJuntas ==
    \A k \in Chaves, v \in Versoes :
        /\ entregas[k][v] # Nada => bronze[k][v] # Nada /\ silver[k][v] # Nada
        /\ bronze[k][v] # Nada => entregas[k][v] # Nada

\* t inserted the payload and has not registered it yet.
Inserindo(t, k, v) ==
    tx[t].pc = "bronze" /\ tx[t].chave = k /\ tx[t].versao = v /\ tx[t].novo

\* So are the ones of a transaction, but for the payload it is at.
CamadasProprias ==
    \A t \in Cargas, k \in Chaves, v \in Versoes :
        /\ tx[t].entregas[k][v] # Nada => VeBronze(t, k, v) /\ VeSilver(t, k, v)
        /\ tx[t].bronze[k][v] # Nada =>
             \/ Inserindo(t, k, v)
             \/ VeEntrega(t, k, v) /\ VeSilver(t, k, v)

\* What t is to register is in bronze.
LidoEmBronze ==
    \A t \in Cargas :
        /\ tx[t].pc = "bronze" =>
             /\ VeBronze(t, tx[t].chave, tx[t].versao)
             /\ ~tx[t].novo => VeSilver(t, tx[t].chave, tx[t].versao)
        /\ tx[t].pc = "replay" =>
             \A v \in tx[t].pend : VeBronze(t, tx[t].chave, v)

CInv == SemVazio /\ CamadasJuntas /\ CamadasProprias /\ LidoEmBronze

\* Steps that write in no layer.
LEMMA CInvMesma ==
    ASSUME CInv, bronze' = bronze, silver' = silver, entregas' = entregas,
           \A u \in Cargas : /\ tx'[u].bronze = tx[u].bronze
                             /\ tx'[u].silver = tx[u].silver
                             /\ tx'[u].entregas = tx[u].entregas,
           \A u \in Cargas, k \in Chaves, v \in Versoes :
               Inserindo(u, k, v) => Inserindo(u, k, v)',
           LidoEmBronze'
    PROVE  CInv'
<1>1. SemVazio' /\ CamadasJuntas'
  BY DEF CInv, SemVazio, CamadasJuntas
<1>2. \A u \in Cargas, k \in Chaves, v \in Versoes :
        /\ VeBronze(u, k, v)' = VeBronze(u, k, v)
        /\ VeSilver(u, k, v)' = VeSilver(u, k, v)
        /\ VeEntrega(u, k, v)' = VeEntrega(u, k, v)
  BY DEF VeBronze, VeSilver, VeEntrega
<1> HIDE DEF VeBronze, VeSilver, VeEntrega, Inserindo
<1>3. CamadasProprias'
  BY <1>2 DEF CInv, CamadasProprias
<1> QED
  BY <1>1, <1>3 DEF CInv

\* What the others read is still there when a transaction only moves on.
LEMMA CInvLidoOutros ==
    ASSUME CInv, NEW t \in Cargas, bronze' = bronze, silver' = silver,
           \A u \in Cargas \ {t} : tx'[u] = tx[u],
           tx'[t].pc # "bronze",
           tx'[t].pc = "replay" =>
               \A v \in tx'[t].pend : VeBronze(t, tx[t].chave, v)'
    PROVE  LidoEmBronze'
<1>1. ASSUME NEW u \in Cargas
      PROVE  /\ tx'[u].pc = "bronze" =>
                  /\ VeBronze(u, tx[u].chave, tx[u].versao)'
                  /\ ~tx'[u].novo => VeSilver(u, tx[u].chave, tx[u].versao)'
             /\ tx'[u].pc = "replay" =>
                  \A v \in tx'[u].pend : VeBronze(u, tx[u].chave, v)'
  <2>1. CASE u = t
    BY <2>1
  <2>2. CASE u # t
    BY <2>2 DEF CInv, LidoEmBronze, VeBronze, VeSilver
  <2> QED
    BY <2>1, <2>2
<1> QED
  BY <1>1 DEF LidoEmBronze

\* A transaction at rest or just started has written nothing.
LEMMA CInvLimpa ==
    ASSUME CInv, NEW t \in Cargas,
           bronze' = bronze, silver' = silver, entregas' = entregas,
           \A u \in Cargas \ {t} : tx'[u] = tx[u],
           tx'[t].pc \notin {"bronze", "replay"}, tx'[t].bronze = SemLinhas,
           tx'[t].silver = SemLinhas, tx'[t].entregas = SemLinhas
    PROVE  CInv'
<1>1. Vazio # Nada
  BY ConstantsAssumption
<1>2. SemVazio' /\ CamadasJuntas'
  BY <1>1 DEF CInv, SemVazio, CamadasJuntas, SemLinhas
<1>3. \A u \in Cargas \ {t}, k \in Chaves, v \in Versoes :
        /\ VeBronze(u, k, v)' = VeBronze(u, k, v)
        /\ VeSilver(u, k, v)' = VeSilver(u, k, v)
        /\ VeEntrega(u, k, v)' = VeEntrega(u, k, v)
        /\ Inserindo(u, k, v)' = Inserindo(u, k, v)
  BY DEF VeBronze, VeSilver, VeEntrega, Inserindo
<1>4. \A k \in Chaves, v \in Versoes :
        tx'[t].bronze[k][v] = Nada /\ tx'[t].entregas[k][v] = Nada
  BY DEF SemLinhas
<1>5. CamadasProprias'
  <2>1. ASSUME NEW u \in Cargas, NEW k \in Chaves, NEW v \in Versoes
        PROVE  /\ tx'[u].entregas[k][v] # Nada => VeBronze(u, k, v)' /\ VeSilver(u, k, v)'
               /\ tx'[u].bronze[k][v] # Nada =>
                    \/ Inserindo(u, k, v)'
                    \/ VeEntrega(u, k, v)' /\ VeSilver(u, k, v)'
    <3>1. CASE u = t
      BY <1>4, <3>1
    <3>2. CASE u # t
      BY <1>3, <3>2 DEF CInv, CamadasProprias
    <3> QED
      BY <3>1, <3>2
  <2> QED
    BY <2>1 DEF CamadasProprias
<1>6. LidoEmBronze'
  BY CInvLidoOutros
<1> QED
  BY <1>2, <1>5, <1>6 DEF CInv

\* A payload inserted in bronze.
LEMMA CInvBronze ==
    ASSUME Tipos, CInv, NEW t \in Cargas, ToBronze(t)
    PROVE  CInv'
<1> DEFINE k == tx[t].chave
           v == tx[t].versao
           n == BronzeDe(t, k)[v] = Nada
           y == [tx[t] EXCEPT !.pc = "bronze", !.novo = n, !.bronze = BronzeInserido(t)]
<1>1. /\ k \in Chaves /\ v \in Versoes /\ tx[t] \in Transacao
      /\ tx[t].conteudo \in Conteudos \ {Vazio} /\ tx[t].pc = "extraida"
  BY DEF ToBronze, Tipos, TypeOK, PosicaoDefinida
<1>2. /\ y.entregas = tx[t].entregas /\ y.silver = tx[t].silver
      /\ y.bronze = BronzeInserido(t) /\ y.chave = k /\ y.versao = v
      /\ y.pc = "bronze" /\ y.novo = n
  BY <1>1 DEF Transacao
<1>3. /\ tx'[t] = y
      /\ \A u \in Cargas \ {t} : tx'[u] = tx[u]
      /\ bronze' = bronze /\ silver' = silver /\ entregas' = entregas
  BY DEF ToBronze, Tipos, TypeOK
<1>4. n <=> tx[t].bronze[k][v] = Nada /\ bronze[k][v] = Nada
  BY <1>1 DEF BronzeDe, Sobre
<1>5. \A j \in Chaves, w \in Versoes :
        tx'[t].bronze[j][w] = IF n /\ j = k /\ w = v THEN tx[t].conteudo
                              ELSE tx[t].bronze[j][w]
  <2>1. CASE n
    <3>1. tx'[t].bronze = [tx[t].bronze EXCEPT ![k][v] = tx[t].conteudo]
      BY <1>2, <1>3, <2>1 DEF BronzeInserido
    <3> QED
      BY <1>1, <2>1, <3>1 DEF Transacao, Tabela
  <2>2. CASE ~n
    BY <1>2, <1>3, <2>2 DEF BronzeInserido
  <2> QED
    BY <2>1, <2>2
<1>6. tx[t].conteudo # Nada
  BY <1>1, ConstantsAssumption
<1> HIDE DEF k, v, n, y
<1>7. SemVazio'
  BY <1>1, <1>2, <1>3, <1>5 DEF CInv, SemVazio
<1>8. CamadasJuntas'
  BY <1>3 DEF CInv, CamadasJuntas
<1>9. CamadasProprias'
  <2>1. ASSUME NEW u \in Cargas, NEW j \in Chaves, NEW w \in Versoes
        PROVE  /\ VeSilver(u, j, w)' = VeSilver(u, j, w)
               /\ VeEntrega(u, j, w)' = VeEntrega(u, j, w)
               /\ VeBronze(u, j, w) => VeBronze(u, j, w)'
    BY <1>2, <1>3, <1>4, <1>5, <1>6 DEF VeBronze, VeSilver, VeEntrega
  <2>2. ASSUME NEW u \in Cargas, NEW j \in Chaves, NEW w \in Versoes,
               tx'[u].entregas[j][w] # Nada
        PROVE  VeBronze(u, j, w)' /\ VeSilver(u, j, w)'
    BY <1>2, <1>3, <2>1, <2>2 DEF CInv, CamadasProprias
  <2>3. ASSUME NEW u \in Cargas, NEW j \in Chaves, NEW w \in Versoes,
               tx'[u].bronze[j][w] # Nada
        PROVE  \/ Inserindo(u, j, w)'
               \/ VeEntrega(u, j, w)' /\ VeSilver(u, j, w)'
    <3>1. CASE u # t
      BY <1>3, <2>1, <2>3, <3>1 DEF CInv, CamadasProprias, Inserindo
    <3>2. CASE u = t /\ n /\ j = k /\ w = v
      BY <1>2, <1>3, <3>2 DEF Inserindo
    <3>3. CASE u = t /\ ~(n /\ j = k /\ w = v)
      <4>1. tx[t].bronze[j][w] # Nada
        BY <1>5, <2>3, <3>3
      <4>2. ~Inserindo(t, j, w)
        BY <1>1 DEF Inserindo
      <4> QED
        BY <2>1, <3>3, <4>1, <4>2 DEF CInv, CamadasProprias
    <3> QED
      BY <3>1, <3>2, <3>3
  <2> QED
    BY <2>2, <2>3 DEF CamadasProprias
<1>10. LidoEmBronze'
  <2>1. ASSUME NEW u \in Cargas, u # t
        PROVE  /\ tx'[u].pc = "bronze" =>
                    /\ VeBronze(u, tx[u].chave, tx[u].versao)'
                    /\ ~tx'[u].novo => VeSilver(u, tx[u].chave, tx[u].versao)'
               /\ tx'[u].pc = "replay" =>
                    \A w \in tx'[u].pend : VeBronze(u, tx[u].chave, w)'
    BY <1>3, <2>1 DEF CInv, LidoEmBronze, VeBronze, VeSilver
  <2>2. tx'[t].bronze[k][v] # Nada \/ bronze'[k][v] # Nada
    BY <1>1, <1>3, <1>4, <1>5, <1>6
  <2>3. ASSUME ~n PROVE tx'[t].silver[k][v] # Nada \/ silver'[k][v] # Nada
    <3>1. VeSilver(t, k, v)
      <4>1. CASE tx[t].bronze[k][v] # Nada
        <5>1. ~Inserindo(t, k, v)
          BY <1>1 DEF Inserindo
        <5> QED
          BY <1>1, <4>1, <5>1 DEF CInv, CamadasProprias
      <4>2. CASE bronze[k][v] # Nada
        BY <1>1, <4>2 DEF CInv, CamadasJuntas, VeSilver
      <4> QED
        BY <1>4, <2>3, <4>1, <4>2
    <3> QED
      BY <1>2, <1>3, <3>1 DEF VeSilver
  <2>4. tx'[t].chave = k /\ tx'[t].versao = v /\ tx'[t].pc = "bronze" /\ tx'[t].novo = n
    BY <1>2, <1>3
  <2>5. ASSUME NEW u \in Cargas
        PROVE  /\ tx'[u].pc = "bronze" =>
                    /\ VeBronze(u, tx[u].chave, tx[u].versao)'
                    /\ ~tx'[u].novo => VeSilver(u, tx[u].chave, tx[u].versao)'
               /\ tx'[u].pc = "replay" =>
                    \A w \in tx'[u].pend : VeBronze(u, tx[u].chave, w)'
    <3>1. CASE u = t
      BY <2>2, <2>3, <2>4, <3>1 DEF VeBronze, VeSilver
    <3>2. CASE u # t
      BY <2>1, <3>2
    <3> QED
      BY <3>1, <3>2
  <2> QED
    BY <2>5 DEF LidoEmBronze
<1> QED
  BY <1>7, <1>8, <1>9, <1>10 DEF CInv

\* A registration runs to_silver too, or finds that it has run.
LEMMA CInvRegistro ==
    ASSUME Tipos, CInv, NEW t \in Cargas, NEW x, NEW k, NEW v, NEW s, NEW c,
           Registro(t, x, k, v, s, c)
    PROVE  CInv'
<1> DEFINE q == EntregasDe(t, k)
           y == ComRegistro(t, x, k, v, s, c)
<1>1. /\ x \in Transacao /\ k \in Chaves /\ v \in Versoes /\ s \in Nat \ {0}
      /\ c \in Conteudos \cup {Nada} /\ x.entregas = tx[t].entregas
      /\ RegisterEntrega(t, x, k, v, s, c)
      /\ x.pc \in {"aberta", "replay"}
      /\ x.pc = "replay" => /\ tx[t].pc = "replay" /\ x.chave = tx[t].chave
                            /\ x.pend \subseteq tx[t].pend
      /\ k = tx[t].chave /\ x.bronze = tx[t].bronze /\ x.silver = tx[t].silver
  BY DEF Registro
<1>2. /\ y.entregas[k] = Escritas(t, k, q, ComEntrega(q, v, s))
      /\ \A j \in Chaves \ {k} : y.entregas[j] = tx[t].entregas[j]
      /\ y.bronze = tx[t].bronze
      /\ y.silver[k][v] = c
      /\ \A j \in Chaves : \A u \in Versoes :
           j # k \/ u # v => y.silver[j][u] = tx[t].silver[j][u]
      /\ y.pc = x.pc /\ y.chave = x.chave /\ y.pend = x.pend
  <2>1. y = ComRegistro(t, x, k, v, s, c)
    OBVIOUS
  <2> HIDE DEF y
  <2> QED
    BY <1>1, <2>1, ComRegistroTipo, SMTT(30)
<1>3. /\ tx'[t] = y
      /\ \A u \in Cargas \ {t} : tx'[u] = tx[u]
      /\ bronze' = bronze /\ silver' = silver /\ entregas' = entregas
  BY <1>1 DEF RegisterEntrega, Tipos, TypeOK
<1>4. /\ q \in Linhas
      /\ Registradas(ComEntrega(q, v, s)) = Registradas(q) \cup {v}
  BY <1>1, RegistroLinhas, ComEntregaTipo
\* What t finds in silver and in bronze for the version it registers.
<1>5. /\ VeBronze(t, k, v)
      /\ c \in Derivadas \cup {Nada}
      /\ c # Nada \/ (silver[k][v] # Nada /\ ~Inserindo(t, k, v))
  <2>1. CASE tx[t].pc = "replay" /\ v \in tx[t].pend /\ c = ToSilver(BronzeDe(t, k)[v])
    <3>1. VeBronze(t, k, v)
      BY <1>1, <2>1 DEF CInv, LidoEmBronze
    <3>2. BronzeDe(t, k)[v]
          = IF tx[t].bronze[k][v] # Nada THEN tx[t].bronze[k][v] ELSE bronze[k][v]
      BY <1>1 DEF BronzeDe, Sobre
    <3>3. tx[t].bronze[k][v] # Vazio /\ bronze[k][v] # Vazio
      BY <1>1 DEF CInv, SemVazio
    <3>4. BronzeDe(t, k)[v] \in Conteudos \ {Vazio}
      BY <1>1, <3>1, <3>2, <3>3, BronzeLido DEF VeBronze
    <3> QED
      BY <2>1, <3>1, <3>4, ToSilverTipo
  <2>2. CASE tx[t].pc = "bronze" /\ v = tx[t].versao /\ c = ToSilver(tx[t].conteudo)
    <3>1. tx[t].conteudo \in Conteudos \ {Vazio}
      BY <2>2 DEF Tipos, PosicaoDefinida
    <3>2. VeBronze(t, k, v)
      BY <1>1, <2>2 DEF CInv, LidoEmBronze
    <3> QED
      BY <2>2, <3>1, <3>2, ToSilverTipo
  <2>3. CASE /\ tx[t].pc = "bronze" /\ v = tx[t].versao
             /\ ~tx[t].novo /\ c = tx[t].silver[k][v]
    <3>1. VeBronze(t, k, v) /\ VeSilver(t, k, v)
      BY <1>1, <2>3 DEF CInv, LidoEmBronze
    <3>2. ~Inserindo(t, k, v)
      BY <2>3 DEF Inserindo
    <3>3. c \in Derivadas \cup {Nada}
      BY <1>1, <2>3 DEF CInv, SemVazio
    <3> QED
      BY <2>3, <3>1, <3>2, <3>3 DEF VeSilver
  <2> QED
    BY <2>1, <2>2, <2>3 DEF Registro
<1> HIDE DEF y
<1>6. SemVazio'
  <2>1. ASSUME NEW u \in Cargas, NEW j \in Chaves, NEW w \in Versoes
        PROVE  /\ tx'[u].bronze[j][w] # Vazio
               /\ tx'[u].silver[j][w] \in Derivadas \cup {Nada}
    <3>1. tx[u].bronze[j][w] # Vazio /\ tx[u].silver[j][w] \in Derivadas \cup {Nada}
      BY DEF CInv, SemVazio
    <3>2. CASE u # t
      BY <1>3, <3>1, <3>2
    <3>3. CASE u = t
      BY <1>2, <1>3, <1>5, <3>1, <3>3
    <3> QED
      BY <3>2, <3>3
  <2> QED
    BY <1>3, <2>1 DEF CInv, SemVazio
<1>7. CamadasJuntas'
  BY <1>3 DEF CInv, CamadasJuntas
\* What t found it still finds, and the delivery of v with its silver.
<1>8. VeEntrega(t, k, v)' /\ VeSilver(t, k, v)'
  <2>1. ComEntrega(q, v, s)[v] # Nada
    BY <1>1, <1>4 DEF Registradas
  <2>2. q[v] = IF tx[t].entregas[k][v] # Nada THEN tx[t].entregas[k][v]
               ELSE entregas[k][v]
    BY <1>1 DEF EntregasDe, Sobre
  <2>3. tx'[t].entregas[k][v]
        = IF ComEntrega(q, v, s)[v] # q[v] THEN ComEntrega(q, v, s)[v]
          ELSE tx[t].entregas[k][v]
    BY <1>1, <1>2, <1>3 DEF Escritas
  <2>4. tx'[t].entregas[k][v] # Nada \/ entregas[k][v] # Nada
    <3> HIDE DEF q
    <3> QED
      BY <2>1, <2>2, <2>3
  <2>5. tx'[t].silver[k][v] # Nada \/ silver[k][v] # Nada
    BY <1>2, <1>3, <1>5
  <2> QED
    BY <1>3, <2>4, <2>5 DEF VeEntrega, VeSilver
<1>9. ASSUME NEW w \in Versoes, w # v, tx'[t].entregas[k][w] # Nada
      PROVE  tx[t].entregas[k][w] # Nada \/ entregas[k][w] # Nada
  <2>1. tx'[t].entregas[k][w]
        = IF ComEntrega(q, v, s)[w] # q[w] THEN ComEntrega(q, v, s)[w]
          ELSE tx[t].entregas[k][w]
    BY <1>2, <1>3 DEF Escritas
  <2>2. ComEntrega(q, v, s)[w] # Nada => q[w] # Nada
    BY <1>4, <1>9 DEF Registradas
  <2>3. q[w] = IF tx[t].entregas[k][w] # Nada THEN tx[t].entregas[k][w]
               ELSE entregas[k][w]
    BY DEF EntregasDe, Sobre
  <2> HIDE DEF q
  <2> QED
    BY <1>9, <2>1, <2>2, <2>3
<1>10. ASSUME NEW j \in Chaves, NEW w \in Versoes, j # k \/ w # v
       PROVE  /\ VeSilver(t, j, w) => VeSilver(t, j, w)'
              /\ VeEntrega(t, j, w) => VeEntrega(t, j, w)'
  <2>1. VeSilver(t, j, w) => VeSilver(t, j, w)'
    BY <1>2, <1>3, <1>10 DEF VeSilver
  <2>2. CASE j # k
    BY <1>2, <1>3, <2>1, <2>2 DEF VeEntrega
  <2>3. CASE j = k
    <3>1. tx'[t].entregas[k][w]
          = IF ComEntrega(q, v, s)[w] # q[w] THEN ComEntrega(q, v, s)[w]
            ELSE tx[t].entregas[k][w]
      BY <1>2, <1>3 DEF Escritas
    <3>2. q[w] # Nada => ComEntrega(q, v, s)[w] # Nada
      BY <1>4 DEF Registradas
    <3>3. q[w] = IF tx[t].entregas[k][w] # Nada THEN tx[t].entregas[k][w]
                 ELSE entregas[k][w]
      BY DEF EntregasDe, Sobre
    <3>4. tx[t].entregas[k][w] # Nada \/ entregas[k][w] # Nada
          => tx'[t].entregas[k][w] # Nada \/ entregas[k][w] # Nada
      <4> HIDE DEF q
      <4> QED
        BY <3>1, <3>2, <3>3
    <3> QED
      BY <1>3, <2>1, <2>3, <3>4 DEF VeEntrega
  <2> QED
    BY <2>2, <2>3
<1>11. \A j \in Chaves, w \in Versoes : VeBronze(t, j, w) <=> VeBronze(t, j, w)'
  BY <1>2, <1>3 DEF VeBronze
<1>12. ASSUME NEW j \in Chaves, NEW w \in Versoes, tx'[t].entregas[j][w] # Nada
       PROVE  VeBronze(t, j, w)' /\ VeSilver(t, j, w)'
  <2>1. CASE j = k /\ w = v
    BY <1>1, <1>5, <1>8, <1>11, <2>1
  <2>2. CASE j # k \/ w # v
    <3>1. tx[t].entregas[j][w] # Nada \/ entregas[j][w] # Nada
      BY <1>2, <1>3, <1>9, <1>12, <2>2
    <3>2. VeBronze(t, j, w) /\ VeSilver(t, j, w)
      BY <3>1 DEF CInv, CamadasProprias, CamadasJuntas, VeBronze, VeSilver
    <3> QED
      BY <1>10, <1>11, <2>2, <3>2
  <2> QED
    BY <2>1, <2>2
<1>13. ASSUME NEW j \in Chaves, NEW w \in Versoes, tx'[t].bronze[j][w] # Nada
       PROVE  VeEntrega(t, j, w)' /\ VeSilver(t, j, w)'
  <2>1. CASE j = k /\ w = v
    BY <1>8, <2>1
  <2>2. CASE j # k \/ w # v
    <3>1. tx[t].bronze[j][w] # Nada
      BY <1>2, <1>3, <1>13
    <3>2. ~Inserindo(t, j, w)
      BY <2>2 DEF Inserindo, Registro
    <3> QED
      BY <1>10, <2>2, <3>1, <3>2 DEF CInv, CamadasProprias
  <2> QED
    BY <2>1, <2>2
<1>14. \A u \in Cargas \ {t}, j \in Chaves, w \in Versoes :
         /\ VeBronze(u, j, w)' = VeBronze(u, j, w)
         /\ VeSilver(u, j, w)' = VeSilver(u, j, w)
         /\ VeEntrega(u, j, w)' = VeEntrega(u, j, w)
         /\ Inserindo(u, j, w)' = Inserindo(u, j, w)
  BY <1>3 DEF VeBronze, VeSilver, VeEntrega, Inserindo
<1>15. CamadasProprias'
  <2>1. ASSUME NEW u \in Cargas, NEW j \in Chaves, NEW w \in Versoes
        PROVE  /\ tx'[u].entregas[j][w] # Nada => VeBronze(u, j, w)' /\ VeSilver(u, j, w)'
               /\ tx'[u].bronze[j][w] # Nada =>
                    \/ Inserindo(u, j, w)'
                    \/ VeEntrega(u, j, w)' /\ VeSilver(u, j, w)'
    <3>1. CASE u = t
      BY <1>12, <1>13, <3>1
    <3>2. CASE u # t
      BY <1>3, <1>14, <3>2 DEF CInv, CamadasProprias
    <3> QED
      BY <3>1, <3>2
  <2> QED
    BY <2>1 DEF CamadasProprias
<1>16. LidoEmBronze'
  <2>1. ASSUME NEW u \in Cargas
        PROVE  /\ tx'[u].pc = "bronze" =>
                    /\ VeBronze(u, tx[u].chave, tx[u].versao)'
                    /\ ~tx'[u].novo => VeSilver(u, tx[u].chave, tx[u].versao)'
               /\ tx'[u].pc = "replay" =>
                    \A w \in tx'[u].pend : VeBronze(u, tx[u].chave, w)'
    <3>1. CASE u # t
      BY <1>3, <3>1 DEF CInv, LidoEmBronze, VeBronze, VeSilver
    <3>2. CASE u = t
      <4>1. tx'[t].pc \in {"aberta", "replay"}
        BY <1>1, <1>2, <1>3
      <4>2. tx'[t].pc = "replay" =>
              /\ tx[t].pc = "replay" /\ tx'[t].chave = k /\ tx'[t].pend \subseteq tx[t].pend
        BY <1>1, <1>2, <1>3
      <4>3. tx[t].pc = "replay" => \A w \in tx[t].pend : VeBronze(t, k, w)
        BY <1>1 DEF CInv, LidoEmBronze
      <4>4. tx'[t].bronze = tx[t].bronze
        BY <1>2, <1>3
      <4> QED
        BY <1>3, <3>2, <4>1, <4>2, <4>3, <4>4 DEF VeBronze
    <3> QED
      BY <3>1, <3>2
  <2> QED
    BY <2>1 DEF LidoEmBronze
<1> QED
  BY <1>6, <1>7, <1>15, <1>16 DEF CInv

\* A commit publishes deliveries with their rows.
LEMMA CInvCommit ==
    ASSUME Tipos, EInv, CInv, NEW t \in Cargas, Commit(t)
    PROVE  CInv'
<1>1. /\ tx'[t] = Repouso /\ tx[t].pc = "aberta"
      /\ \A u \in Cargas \ {t} : tx'[u] = tx[u]
  BY DEF Commit, Tipos, TypeOK
<1>2. /\ Repouso.entregas = SemLinhas /\ Repouso.bronze = SemLinhas
      /\ Repouso.silver = SemLinhas /\ Repouso.pc = "livre"
  BY DEF Repouso
<1>3. ASSUME NEW k \in Chaves, NEW v \in Versoes
      PROVE  /\ bronze'[k][v] = IF tx[t].bronze[k][v] # Nada THEN tx[t].bronze[k][v]
                                ELSE bronze[k][v]
             /\ silver'[k][v] = IF tx[t].silver[k][v] # Nada THEN tx[t].silver[k][v]
                                ELSE silver[k][v]
             /\ entregas'[k][v] = IF tx[t].entregas[k][v] # Nada
                                  THEN tx[t].entregas[k][v] ELSE entregas[k][v]
  <2>1. /\ bronze'[k] = Sobre(tx[t].bronze[k], bronze[k])
        /\ silver'[k] = Sobre(tx[t].silver[k], silver[k])
        /\ entregas'[k] = Sobre(tx[t].entregas[k], entregas[k])
    BY DEF Commit, Publicadas
  <2> QED
    BY <2>1 DEF Sobre
<1>4. SemVazio'
  <2>1. ASSUME NEW k \in Chaves, NEW v \in Versoes
        PROVE  bronze'[k][v] # Vazio /\ silver'[k][v] \in Derivadas \cup {Nada}
    BY <1>3 DEF CInv, SemVazio
  <2>2. ASSUME NEW u \in Cargas, NEW k \in Chaves, NEW v \in Versoes
        PROVE  /\ tx'[u].bronze[k][v] # Vazio
               /\ tx'[u].silver[k][v] \in Derivadas \cup {Nada}
    <3>1. CASE u = t
      BY <1>1, <1>2, <3>1, ConstantsAssumption DEF SemLinhas
    <3>2. CASE u # t
      BY <1>1, <3>2 DEF CInv, SemVazio
    <3> QED
      BY <3>1, <3>2
  <2> QED
    BY <2>1, <2>2 DEF SemVazio
<1>5. CamadasJuntas'
  <2>1. ASSUME NEW k \in Chaves, NEW v \in Versoes
        PROVE  /\ entregas'[k][v] # Nada => bronze'[k][v] # Nada /\ silver'[k][v] # Nada
               /\ bronze'[k][v] # Nada => entregas'[k][v] # Nada
    <3>1. ~Inserindo(t, k, v)
      BY <1>1 DEF Inserindo
    <3>2. entregas'[k][v] # Nada => VeBronze(t, k, v) /\ VeSilver(t, k, v)
      BY <1>3 DEF CInv, CamadasProprias, CamadasJuntas, VeBronze, VeSilver
    <3>3. bronze'[k][v] # Nada => VeEntrega(t, k, v)
      BY <1>3, <3>1 DEF CInv, CamadasProprias, CamadasJuntas, VeEntrega
    <3> QED
      BY <1>3, <3>2, <3>3 DEF VeBronze, VeSilver, VeEntrega
  <2> QED
    BY <2>1 DEF CamadasJuntas
<1>6. ASSUME NEW u \in Cargas \ {t}, NEW k \in Chaves, NEW v \in Versoes
      PROVE  /\ VeBronze(u, k, v) => VeBronze(u, k, v)'
             /\ VeSilver(u, k, v) => VeSilver(u, k, v)'
             /\ VeEntrega(u, k, v) => VeEntrega(u, k, v)'
             /\ Inserindo(u, k, v) => Inserindo(u, k, v)'
  BY <1>1, <1>3 DEF VeBronze, VeSilver, VeEntrega, Inserindo
<1>7. CamadasProprias'
  <2>1. ASSUME NEW u \in Cargas, NEW j \in Chaves, NEW w \in Versoes
        PROVE  /\ tx'[u].entregas[j][w] # Nada => VeBronze(u, j, w)' /\ VeSilver(u, j, w)'
               /\ tx'[u].bronze[j][w] # Nada =>
                    \/ Inserindo(u, j, w)'
                    \/ VeEntrega(u, j, w)' /\ VeSilver(u, j, w)'
    <3>1. CASE u = t
      BY <1>1, <1>2, <3>1 DEF SemLinhas
    <3>2. CASE u # t
      BY <1>1, <1>6, <3>2 DEF CInv, CamadasProprias
    <3> QED
      BY <3>1, <3>2
  <2> QED
    BY <2>1 DEF CamadasProprias
<1>8. LidoEmBronze'
  <2>1. ASSUME NEW u \in Cargas
        PROVE  /\ tx'[u].pc = "bronze" =>
                    /\ VeBronze(u, tx[u].chave, tx[u].versao)'
                    /\ ~tx'[u].novo => VeSilver(u, tx[u].chave, tx[u].versao)'
               /\ tx'[u].pc = "replay" =>
                    \A v \in tx'[u].pend : VeBronze(u, tx[u].chave, v)'
    <3>1. CASE u = t
      BY <1>1, <1>2, <3>1
    <3>2. CASE u # t
      <4>1. tx'[u] = tx[u]
        BY <1>1, <3>2
      <4>2. ASSUME tx[u].pc = "bronze"
            PROVE  /\ tx[u].chave \in Chaves /\ tx[u].versao \in Versoes
                   /\ VeBronze(u, tx[u].chave, tx[u].versao)
                   /\ ~tx[u].novo => VeSilver(u, tx[u].chave, tx[u].versao)
        BY <4>2 DEF Tipos, PosicaoDefinida, CInv, LidoEmBronze
      <4>3. ASSUME tx[u].pc = "replay", NEW v \in tx[u].pend
            PROVE  /\ tx[u].chave \in Chaves /\ v \in Versoes
                   /\ VeBronze(u, tx[u].chave, v)
        BY <4>3 DEF Tipos, TypeOK, Transacao, PosicaoDefinida, CInv, LidoEmBronze
      <4> QED
        BY <1>3, <4>1, <4>2, <4>3, SMTT(20) DEF VeBronze, VeSilver
    <3> QED
      BY <3>1, <3>2
  <2> QED
    BY <2>1 DEF LidoEmBronze
<1> QED
  BY <1>4, <1>5, <1>7, <1>8 DEF CInv

LEMMA CInvInit == Init => CInv
<1> SUFFICES ASSUME Init PROVE CInv
  OBVIOUS
<1>1. Vazio # Nada
  BY ConstantsAssumption
<1>2. \A t \in Cargas : /\ tx[t].bronze = SemLinhas /\ tx[t].silver = SemLinhas
                        /\ tx[t].entregas = SemLinhas /\ tx[t].pc = "livre"
  BY DEF Init, Repouso
<1> QED
  BY <1>1, <1>2
     DEF Init, CInv, SemVazio, CamadasJuntas, CamadasProprias, LidoEmBronze, SemLinhas

LEMMA CInvNext == Tipos /\ EInv /\ CInv /\ [Next]_vars => CInv'
<1> SUFFICES ASSUME Tipos, EInv, CInv, [Next]_vars PROVE CInv'
  OBVIOUS
<1>1. ASSUME UNCHANGED <<bronze, silver, entregas, tx>> PROVE CInv'
  <2>1. LidoEmBronze'
    BY <1>1 DEF CInv, LidoEmBronze, VeBronze, VeSilver
  <2> QED
    BY <1>1, <2>1, CInvMesma DEF Inserindo
<1>2. CASE UNCHANGED vars \/ Tempo
  BY <1>1, <1>2 DEF vars, Tempo
<1>3. ASSUME NEW t \in Cargas, Iniciar(t) PROVE CInv'
  <2>1. LET y == [Repouso EXCEPT !.pc = "aberta"]
        IN /\ y.entregas = SemLinhas /\ y.bronze = SemLinhas
           /\ y.silver = SemLinhas /\ y.pc = "aberta"
    BY DEF Repouso
  <2>2. /\ tx'[t].entregas = SemLinhas /\ tx'[t].bronze = SemLinhas
        /\ tx'[t].silver = SemLinhas /\ tx'[t].pc = "aberta"
        /\ \A u \in Cargas \ {t} : tx'[u] = tx[u]
    BY <1>3, <2>1 DEF Iniciar, Tipos, TypeOK
  <2> QED
    BY <1>3, <2>2, CInvLimpa DEF Iniciar
<1>4. ASSUME NEW t \in Cargas, NEW k \in Chaves, NEW v \in Versoes,
             NEW c \in Conteudos, Extrair(t, k, v, c)
      PROVE  CInv'
  <2>1. /\ tx[t].pc = "aberta" /\ tx'[t].pc = "extraida"
        /\ tx'[t].bronze = tx[t].bronze /\ tx'[t].silver = tx[t].silver
        /\ tx'[t].entregas = tx[t].entregas
        /\ \A u \in Cargas \ {t} : tx'[u] = tx[u]
        /\ bronze' = bronze /\ silver' = silver /\ entregas' = entregas
    BY <1>4 DEF Extrair, Tipos, TypeOK, Transacao
  <2>2. LidoEmBronze'
    BY <2>1, CInvLidoOutros
  <2> QED
    BY <2>1, <2>2, CInvMesma DEF Inserindo
<1>5. ASSUME NEW t \in Cargas, NEW k \in Chaves, ListarBronze(t, k) PROVE CInv'
  <2>1. /\ tx[t].pc = "aberta" /\ tx'[t].pc = "replay"
        /\ tx'[t].chave = k /\ tx'[t].pend = Registradas(BronzeDe(t, k))
        /\ tx'[t].bronze = tx[t].bronze /\ tx'[t].silver = tx[t].silver
        /\ tx'[t].entregas = tx[t].entregas
        /\ \A u \in Cargas \ {t} : tx'[u] = tx[u]
        /\ bronze' = bronze /\ silver' = silver /\ entregas' = entregas
    BY <1>5 DEF ListarBronze, Tipos, TypeOK, Transacao
  <2>2. ASSUME NEW v \in tx'[t].pend PROVE VeBronze(t, tx[t].chave, v)'
    BY <2>1 DEF Registradas, BronzeDe, Sobre, VeBronze
  <2>3. LidoEmBronze'
    BY <2>1, <2>2, CInvLidoOutros
  <2> QED
    BY <2>1, <2>3, CInvMesma DEF Inserindo
<1>6. ASSUME NEW t \in Cargas, NEW h \in 0 .. relogio, NEW force \in BOOLEAN,
             Registrar(t, h, force)
      PROVE  CInv'
  BY <1>6, RegistrarForma, CInvRegistro
<1>7. ASSUME NEW t \in Cargas, NEW v \in Versoes, Replay(t, v) PROVE CInv'
  BY <1>7, ReplayForma, CInvRegistro
<1>8. ASSUME NEW t \in Cargas, ToBronze(t) PROVE CInv'
  BY <1>8, CInvBronze
<1>9. ASSUME NEW t \in Cargas, Commit(t) PROVE CInv'
  BY <1>9, CInvCommit
<1>10. ASSUME NEW t \in Cargas, Rollback(t) PROVE CInv'
  <2>1. /\ tx'[t].entregas = SemLinhas /\ tx'[t].bronze = SemLinhas
        /\ tx'[t].silver = SemLinhas /\ tx'[t].pc = "livre"
        /\ \A u \in Cargas \ {t} : tx'[u] = tx[u]
    BY <1>10 DEF Rollback, Repouso, Tipos, TypeOK
  <2> QED
    BY <1>10, <2>1, CInvLimpa DEF Rollback
<1> QED
  BY <1>2, <1>3, <1>4, <1>5, <1>6, <1>7, <1>8, <1>9, <1>10
     DEF Next, Avanca, Extracao, ExtrairRetificacao, Impasse

LEMMA CInvInvariante == Spec => []CInv
  BY CInvInit, CInvNext, EInvInvariante, PTL DEF Spec

\* A delivery has its payload and to_silver has run for it, whatever fails between
\* the layers.
THEOREM EntregaMaterializadaSempre == Spec => []EntregaMaterializada
<1>1. ASSUME CInv, NEW k \in Chaves, NEW v \in Registradas(entregas[k])
      PROVE  bronze[k][v] \notin {Nada, Vazio} /\ silver[k][v] \in Derivadas
  BY <1>1 DEF CInv, SemVazio, CamadasJuntas, Registradas
<1>2. CInv => EntregaMaterializada
  BY <1>1 DEF EntregaMaterializada, Derivadas
<1> QED
  BY <1>2, CInvInvariante, PTL

\* When every payload that says something has rows, no delivery is without them.
THEOREM EntregaComLinhas ==
    ComLinhas = Conteudos \ {Vazio} =>
        (Spec => [](\A k \in Chaves : \A v \in Registradas(entregas[k]) :
                       silver[k][v] \notin {Nada, Vazio}))
<1> SUFFICES ASSUME ComLinhas = Conteudos \ {Vazio}
             PROVE  Spec => [](\A k \in Chaves : \A v \in Registradas(entregas[k]) :
                                  silver[k][v] \notin {Nada, Vazio})
  OBVIOUS
<1>1. Derivadas \cap {Nada, Vazio} = {}
  BY ConstantsAssumption DEF Derivadas, ToSilver
<1>2. EntregaMaterializada => \A k \in Chaves : \A v \in Registradas(entregas[k]) :
                                 silver[k][v] \notin {Nada, Vazio}
  BY <1>1 DEF EntregaMaterializada, Derivadas
<1> QED
  BY <1>2, EntregaMaterializadaSempre, PTL
-----------------------------------------------------------------------------
(* The history of a key. *)

\* Force stays where it is, or passes to a version that t registers.
Passa(p, e) ==
    \/ Vigentes(Sobre(p, e)) = Vigentes(e)
    \/ \E v \in Versoes : p[v] # Nada /\ e[v] = Nada /\ Vigentes(Sobre(p, e)) = {v}
FInv == \A t \in Cargas, k \in Chaves : Passa(tx[t].entregas[k], entregas[k])

LEMMA PassaNada ==
    ASSUME NEW e \in Linhas, NEW p, \A v \in Versoes : p[v] = Nada
    PROVE  Passa(p, e)
  BY SobreNada DEF Passa

\* A registration leaves the force of a key, or gives it to the new version.
LEMMA ComEntregaVigor ==
    ASSUME NEW r \in Linhas, NEW v \in Versoes, NEW h \in Nat \ {0}
    PROVE  LET s == ComEntrega(r, v, h)
           IN Vigentes(s) = Vigentes(r) \/ (r[v] = Nada /\ Vigentes(s) = {v})
<1> DEFINE s == ComEntrega(r, v, h)
<1>1. \A u \in Registradas(r) : u \in Versoes /\ r[u] # Nada
  BY DEF Registradas
<1>2. Registradas(s) = Registradas(r) \cup {v}
  BY ComEntregaTipo
<1>3. CASE r[v] # Nada
  BY <1>3 DEF ComEntrega
<1>4. CASE r[v] = Nada /\ TornaVigente(r, h)
  <2>1. s[v].vigente
    BY <1>4 DEF ComEntrega
  <2>2. \A u \in Registradas(r) : u # v /\ ~s[u].vigente
    BY <1>1, <1>4 DEF ComEntrega
  <2> HIDE DEF s
  <2>3. Vigentes(s) = {v}
    BY <1>2, <2>1, <2>2 DEF Vigentes
  <2> QED
    BY <1>4, <2>3 DEF s
<1>5. CASE r[v] = Nada /\ ~TornaVigente(r, h)
  <2>1. TornaVigente(r, h) = FALSE
    BY <1>5 DEF TornaVigente
  <2>2. ~s[v].vigente
    BY <1>5, <2>1 DEF ComEntrega
  <2>3. \A u \in Registradas(r) : u # v /\ s[u] = r[u]
    BY <1>1, <1>5 DEF ComEntrega
  <2> HIDE DEF s
  <2>4. Vigentes(s) = Vigentes(r)
    BY <1>2, <2>2, <2>3 DEF Vigentes
  <2> QED
    BY <2>4 DEF s
<1> QED
  BY <1>3, <1>4, <1>5

\* Steps that write no delivery, of t at most.
LEMMA FInvMesma ==
    ASSUME FInv, entregas' = entregas,
           \A u \in Cargas : tx'[u].entregas = tx[u].entregas
    PROVE  FInv'
<1> SUFFICES ASSUME NEW t \in Cargas, NEW k \in Chaves
             PROVE  Passa(tx'[t].entregas[k], entregas'[k])
  BY DEF FInv, Passa, Vigentes, Registradas, Sobre
<1>1. Passa(tx[t].entregas[k], entregas[k])
  BY DEF FInv
<1>2. tx'[t].entregas[k] = tx[t].entregas[k] /\ entregas'[k] = entregas[k]
  OBVIOUS
<1> QED
  BY <1>1, <1>2

\* A transaction starts, or is rolled back.
LEMMA FInvLimpa ==
    ASSUME Tipos, FInv, NEW t \in Cargas, entregas' = entregas,
           \A u \in Cargas \ {t} : tx'[u] = tx[u],
           tx'[t].entregas = SemLinhas
    PROVE  FInv'
<1> SUFFICES ASSUME NEW u \in Cargas, NEW k \in Chaves
             PROVE  Passa(tx'[u].entregas[k], entregas'[k])
  BY DEF FInv, Passa, Vigentes, Registradas, Sobre
<1>1. CASE u = t
  <2>1. entregas[k] \in Linhas
    BY DEF Tipos, TypeOK, Tabela, Linhas
  <2>2. \A v \in Versoes : tx'[t].entregas[k][v] = Nada
    BY DEF SemLinhas
  <2> QED
    BY <1>1, <2>1, <2>2, PassaNada
<1>2. CASE u # t
  <2>1. Passa(tx[u].entregas[k], entregas[k])
    BY DEF FInv
  <2> QED
    BY <1>2, <2>1
<1> QED
  BY <1>1, <1>2

\* A registration under the lock.
LEMMA FInvRegistra ==
    ASSUME Tipos, EInv, FInv, NEW t \in Cargas, NEW x \in Transacao, NEW k \in Chaves,
           NEW v \in Versoes, NEW h \in Nat \ {0}, NEW c \in Conteudos \cup {Nada},
           x.entregas = tx[t].entregas, x.bronze = tx[t].bronze,
           RegisterEntrega(t, x, k, v, h, c)
    PROVE  FInv'
<1> DEFINE q == EntregasDe(t, k)
           r == ComEntrega(q, v, h)
           y == ComRegistro(t, x, k, v, h, c)
<1>1. /\ y.entregas[k] = Escritas(t, k, q, r)
      /\ \A j \in Chaves \ {k} : y.entregas[j] = tx[t].entregas[j]
  <2>1. y = ComRegistro(t, x, k, v, h, c)
    OBVIOUS
  <2> HIDE DEF y
  <2> QED
    BY <2>1, ComRegistroTipo
<1>2. /\ tx'[t] = y
      /\ \A u \in Cargas \ {t} : tx'[u] = tx[u]
      /\ entregas' = entregas
  BY DEF RegisterEntrega, Tipos, TypeOK
<1>3. q \in Linhas /\ r \in Linhas
  BY RegistroLinhas
<1>4. Registradas(r) = Registradas(q) \cup {v}
  BY <1>3, ComEntregaTipo
<1>5. Vigentes(r) = Vigentes(q) \/ (q[v] = Nada /\ Vigentes(r) = {v})
  BY <1>3, ComEntregaVigor
<1>6. \A u \in Versoes : q[u] = IF tx[t].entregas[k][u] # Nada THEN tx[t].entregas[k][u]
                                ELSE entregas[k][u]
  BY DEF EntregasDe, Sobre
<1>7. Sobre(Escritas(t, k, q, r), entregas[k]) = r
  <2>1. \A u \in Versoes : q[u] # Nada => r[u] # Nada
    BY <1>4 DEF Registradas
  <2> HIDE DEF r
  <2> QED
    BY <1>3, <2>1, EscritasLidas
<1>8. \A u \in Versoes : Escritas(t, k, q, r)[u]
                           = IF r[u] # q[u] THEN r[u] ELSE tx[t].entregas[k][u]
  BY DEF Escritas
<1>9. Passa(tx[t].entregas[k], entregas[k]) /\ Sobre(tx[t].entregas[k], entregas[k]) = q
  BY DEF FInv, EntregasDe
<1> HIDE DEF q, r, y
<1>10. PICK p : p = Escritas(t, k, q, r)
  OBVIOUS
<1>11. Passa(p, entregas[k])
  <2>1. CASE q[v] = Nada /\ Vigentes(r) = {v}
    <3>1. r[v] # Nada
      BY <1>4 DEF Registradas
    <3>2. entregas[k][v] = Nada /\ p[v] # Nada
      BY <1>6, <1>8, <1>10, <2>1, <3>1
    <3> QED
      BY <1>7, <1>10, <2>1, <3>2 DEF Passa
  <2>2. CASE Vigentes(r) = Vigentes(q)
    <3>1. CASE Vigentes(q) = Vigentes(entregas[k])
      BY <1>7, <1>10, <2>2, <3>1 DEF Passa
    <3>2. ASSUME NEW w \in Versoes, tx[t].entregas[k][w] # Nada, entregas[k][w] = Nada,
                 Vigentes(q) = {w}
          PROVE  Passa(p, entregas[k])
      <4>1. q[w] # Nada
        BY <1>6, <3>2
      <4>2. r[w] # Nada
        BY <1>4, <4>1 DEF Registradas
      <4>3. p[w] # Nada
        BY <1>8, <1>10, <3>2, <4>2
      <4> QED
        BY <1>7, <1>10, <2>2, <3>2, <4>3 DEF Passa
    <3> QED
      BY <1>9, <3>1, <3>2 DEF Passa
  <2> QED
    BY <1>5, <2>1, <2>2
<1> SUFFICES ASSUME NEW u \in Cargas, NEW j \in Chaves
             PROVE  Passa(tx'[u].entregas[j], entregas'[j])
  BY DEF FInv, Passa, Vigentes, Registradas, Sobre
<1>12. CASE u = t /\ j = k
  BY <1>1, <1>2, <1>10, <1>11, <1>12
<1>13. CASE u # t \/ j # k
  <2>1. tx'[u].entregas[j] = tx[u].entregas[j] /\ entregas'[j] = entregas[j]
    BY <1>1, <1>2, <1>13
  <2>2. Passa(tx[u].entregas[j], entregas[j])
    BY DEF FInv
  <2> QED
    BY <2>1, <2>2
<1> QED
  BY <1>12, <1>13

\* What a transaction wrote is published.
LEMMA FInvCommit ==
    ASSUME Tipos, Tipos', EInv, FInv, NEW t \in Cargas, Commit(t)
    PROVE  FInv'
<1>1. /\ tx'[t] = Repouso
      /\ \A u \in Cargas \ {t} : tx'[u] = tx[u]
      /\ \A k \in Chaves : entregas'[k] = EntregasDe(t, k)
  BY DEF Commit, Publicadas, EntregasDe, Tipos, TypeOK
<1>2. \A k \in Chaves : entregas[k] \in Linhas /\ entregas'[k] \in Linhas
  BY DEF Tipos, TypeOK, Tabela, Linhas
<1> SUFFICES ASSUME NEW u \in Cargas, NEW k \in Chaves
             PROVE  Passa(tx'[u].entregas[k], entregas'[k])
  BY DEF FInv, Passa, Vigentes, Registradas, Sobre
<1>3. CASE u = t
  <2>1. \A v \in Versoes : tx'[t].entregas[k][v] = Nada
    BY <1>1 DEF Repouso, SemLinhas
  <2> QED
    BY <1>2, <1>3, <2>1, PassaNada
<1>4. CASE u # t /\ trava[k] # t
  <2>1. \A v \in Versoes : tx[t].entregas[k][v] = Nada
    BY <1>4 DEF EInv, SoComTrava
  <2>2. Sobre(tx[t].entregas[k], entregas[k]) = entregas[k]
    BY <1>2, <2>1, SobreNada
  <2>3. entregas'[k] = entregas[k] /\ tx'[u].entregas[k] = tx[u].entregas[k]
    BY <1>1, <1>4, <2>2 DEF EntregasDe
  <2>4. Passa(tx[u].entregas[k], entregas[k])
    BY DEF FInv
  <2> QED
    BY <2>3, <2>4
<1>5. CASE u # t /\ trava[k] = t
  <2>1. \A v \in Versoes : tx'[u].entregas[k][v] = Nada
    BY <1>1, <1>5 DEF EInv, SoComTrava
  <2> QED
    BY <1>2, <2>1, PassaNada
<1> QED
  BY <1>3, <1>4, <1>5

LEMMA FInvInit == Init => FInv
<1> SUFFICES ASSUME Init, NEW t \in Cargas, NEW k \in Chaves
             PROVE  Passa(tx[t].entregas[k], entregas[k])
  BY DEF FInv
<1>1. tx[t].entregas = SemLinhas /\ entregas = SemLinhas
  BY DEF Init, Repouso
<1>2. entregas[k] \in Linhas /\ \A v \in Versoes : tx[t].entregas[k][v] = Nada
  BY <1>1 DEF SemLinhas, Linhas
<1> QED
  BY <1>2, PassaNada

LEMMA FInvNext == Tipos /\ Tipos' /\ EInv /\ FInv /\ [Next]_vars => FInv'
<1> SUFFICES ASSUME Tipos, Tipos', EInv, FInv, [Next]_vars PROVE FInv'
  OBVIOUS
<1>1. CASE UNCHANGED vars
  BY <1>1, FInvMesma DEF vars
<1>2. CASE Tempo
  BY <1>2, FInvMesma DEF Tempo
<1>3. ASSUME NEW t \in Cargas, Iniciar(t) PROVE FInv'
  <2>1. LET y == [Repouso EXCEPT !.pc = "aberta"]
        IN y.entregas = SemLinhas
    BY DEF Repouso
  <2>2. /\ tx'[t].entregas = SemLinhas
        /\ \A u \in Cargas \ {t} : tx'[u] = tx[u]
    BY <1>3, <2>1 DEF Iniciar, Tipos, TypeOK
  <2> QED
    BY <1>3, <2>2, FInvLimpa DEF Iniciar
<1>4. ASSUME NEW t \in Cargas, NEW k \in Chaves, NEW v \in Versoes,
             NEW c \in Conteudos, Extrair(t, k, v, c)
      PROVE  FInv'
  <2>1. \A u \in Cargas : tx'[u].entregas = tx[u].entregas
    BY <1>4 DEF Extrair, Tipos, TypeOK, Transacao
  <2> QED
    BY <1>4, <2>1, FInvMesma DEF Extrair
<1>5. ASSUME NEW t \in Cargas, NEW k \in Chaves, ListarBronze(t, k) PROVE FInv'
  <2>1. \A u \in Cargas : tx'[u].entregas = tx[u].entregas
    BY <1>5 DEF ListarBronze, Tipos, TypeOK, Transacao
  <2> QED
    BY <1>5, <2>1, FInvMesma DEF ListarBronze
<1>6. ASSUME NEW t \in Cargas, NEW h \in 0 .. relogio, NEW force \in BOOLEAN,
             Registrar(t, h, force)
      PROVE  FInv'
  <2>1. PICK x, k, v, s, c : Registro(t, x, k, v, s, c)
    BY <1>6, RegistrarForma
  <2> QED
    BY <2>1, FInvRegistra DEF Registro
<1>7. ASSUME NEW t \in Cargas, NEW w \in Versoes, Replay(t, w) PROVE FInv'
  <2>1. PICK x, k, v, s, c : Registro(t, x, k, v, s, c)
    BY <1>7, ReplayForma
  <2> QED
    BY <2>1, FInvRegistra DEF Registro
<1>8. ASSUME NEW t \in Cargas, ToBronze(t) PROVE FInv'
  <2>1. tx[t] \in Transacao
    BY DEF Tipos, TypeOK
  <2>2. \A u \in Cargas : tx'[u].entregas = tx[u].entregas
    BY <1>8, <2>1 DEF ToBronze, Tipos, TypeOK, Transacao
  <2> QED
    BY <1>8, <2>2, FInvMesma DEF ToBronze
<1>9. ASSUME NEW t \in Cargas, Commit(t) PROVE FInv'
  BY <1>9, FInvCommit
<1>10. ASSUME NEW t \in Cargas, Rollback(t) PROVE FInv'
  <2>1. /\ tx'[t].entregas = SemLinhas
        /\ \A u \in Cargas \ {t} : tx'[u] = tx[u]
    BY <1>10 DEF Rollback, Repouso, Tipos, TypeOK
  <2> QED
    BY <1>10, <2>1, FInvLimpa DEF Rollback
<1> QED
  BY <1>1, <1>2, <1>3, <1>4, <1>5, <1>6, <1>7, <1>8, <1>9, <1>10
     DEF Next, Avanca, Extracao, ExtrairRetificacao, Impasse

LEMMA FInvInvariante == Spec => []FInv
  BY FInvInit, FInvNext, EInvInvariante, PTL DEF Spec

\* The published versions of a key with rows e and payloads b.
DeLinhas(e, b) ==
    {[versao |-> v, conteudo |-> b[v], homologada |-> e[v].homologada] : v \in Registradas(e)}

\* Rows that keep what was registered and pass force to a new version, the one
\* homologated last, are a history with something more.
LEMMA LinhasAcrescentam ==
    ASSUME NEW e, NEW f, NEW b, NEW c,
           \A v \in Registradas(e) : /\ v \in Registradas(f) /\ c[v] = b[v]
                                     /\ f[v].homologada = e[v].homologada,
           \/ Vigentes(f) = Vigentes(e)
           \/ \E v \in Registradas(f) \ Registradas(e) : Vigentes(f) = {v},
           Bem(f)
    PROVE  Hist!Acrescenta(DeLinhas(e, b), DeLinhas(f, c), Vigentes(e), Vigentes(f))
<1> DEFINE F(v) == [versao |-> v, conteudo |-> c[v], homologada |-> f[v].homologada]
<1>1. DeLinhas(e, b) = {F(v) : v \in Registradas(e)}
  BY DEF DeLinhas
<1>2. DeLinhas(f, c) = {F(v) : v \in Registradas(f)}
  BY DEF DeLinhas
<1>3. \A v : F(v).versao = v /\ F(v).homologada = f[v].homologada
  OBVIOUS
<1> HIDE DEF F
<1>4. DeLinhas(e, b) \subseteq DeLinhas(f, c)
  BY <1>1, <1>2
<1>5. \A x, y \in DeLinhas(f, c) : x.versao = y.versao => x = y
  BY <1>2, <1>3
<1>6. ASSUME NEW v \in Registradas(f) \ Registradas(e)
      PROVE  F(v) \in DeLinhas(f, c) \ DeLinhas(e, b)
  BY <1>1, <1>2, <1>3
<1>7. \/ Vigentes(f) = Vigentes(e)
      \/ \E x \in DeLinhas(f, c) \ DeLinhas(e, b) : Vigentes(f) = {x.versao}
  BY <1>3, <1>6
<1>8. ASSUME DeLinhas(f, c) # {}
      PROVE  \E x \in DeLinhas(f, c) : Hist!Ultima(x, DeLinhas(f, c)) /\ Vigentes(f) = {x.versao}
  <2>1. PICK v \in Registradas(f) : Manda(f, v)
    BY <1>2, <1>8 DEF Bem
  <2>2. Vigentes(f) = {v}
    BY <2>1 DEF Manda, Vigentes
  <2>3. \A u \in Registradas(f) : f[v].homologada >= f[u].homologada
    BY <2>1 DEF Manda
  <2>4. Hist!Ultima(F(v), DeLinhas(f, c))
    BY <1>2, <1>3, <2>3 DEF Hist!Ultima
  <2> QED
    BY <1>2, <1>3, <2>2, <2>4
<1> QED
  BY <1>4, <1>5, <1>7, <1>8 DEF Hist!Acrescenta

\* A commit appends to the history of each key.
LEMMA CommitPublica ==
    ASSUME Tipos, Tipos', EInv, EInv', CInv, CInv', FInv, NEW t \in Cargas, Commit(t),
           [Next]_vars
    PROVE  Hist!Publicar
<1>1. /\ \A k \in Chaves : Historia[k] = DeLinhas(entregas[k], bronze[k])
      /\ \A k \in Chaves : Historia'[k] = DeLinhas(entregas'[k], bronze'[k])
      /\ \A k \in Chaves : Vigor[k] = Vigentes(entregas[k])
      /\ \A k \in Chaves : Vigor'[k] = Vigentes(entregas'[k])
  BY DEF Historia, Vigor, DeLinhas, Registradas, Vigentes
<1>2. ASSUME NEW k \in Chaves
      PROVE  Hist!Acrescenta(Historia[k], Historia'[k], Vigor[k], Vigor'[k])
  <2>1. \A v \in Registradas(entregas[k]) :
            /\ v \in Registradas(entregas'[k]) /\ bronze'[k][v] = bronze[k][v]
            /\ entregas'[k][v].homologada = entregas[k][v].homologada
    BY HistoricoPasso DEF Registradas, CInv, CamadasJuntas
  <2>2. entregas'[k] = Sobre(tx[t].entregas[k], entregas[k])
    BY DEF Commit, Publicadas
  <2>3. \/ Vigentes(entregas'[k]) = Vigentes(entregas[k])
        \/ \E v \in Registradas(entregas'[k]) \ Registradas(entregas[k]) :
             Vigentes(entregas'[k]) = {v}
    <3>1. Passa(tx[t].entregas[k], entregas[k])
      BY DEF FInv
    <3>2. \A v \in Versoes : tx[t].entregas[k][v] # Nada => entregas'[k][v] # Nada
      BY <2>2 DEF Sobre
    <3> QED
      BY <2>2, <3>1, <3>2 DEF Passa, Registradas
  <2>4. Bem(entregas'[k])
    BY DEF EInv, LinhasBem, Bem, Manda, Registradas
  <2>5. Hist!Acrescenta(DeLinhas(entregas[k], bronze[k]), DeLinhas(entregas'[k], bronze'[k]),
                        Vigentes(entregas[k]), Vigentes(entregas'[k]))
    BY <2>1, <2>3, <2>4, LinhasAcrescentam
  <2> QED
    BY <1>1, <2>5
<1>3. ASSUME NEW k \in Chaves, NEW v \in Registradas(entregas'[k])
      PROVE  /\ v \in Versoes
             /\ bronze'[k][v] \in Conteudos \ {Vazio}
             /\ entregas'[k][v].homologada \in Nat \ {0}
  <2>1. v \in Versoes /\ entregas'[k][v] # Nada
    BY DEF Registradas
  <2>2. bronze'[k][v] \in Conteudos \cup {Nada} /\ entregas'[k][v] \in Linha
    BY <2>1 DEF Tipos, TypeOK, Tabela
  <2>3. bronze'[k][v] # Nada /\ bronze'[k][v] # Vazio
    BY <2>1 DEF CInv, CamadasJuntas, SemVazio
  <2> QED
    BY <2>1, <2>2, <2>3 DEF Linha
<1>4. Historia' \in [Chaves -> SUBSET Hist!Publicacao]
  BY <1>3 DEF Historia, Hist!Publicacao
<1>5. Vigor' \in [Chaves -> SUBSET Versoes]
  BY DEF Vigor, Vigentes, Registradas
<1> QED
  BY <1>2, <1>4, <1>5 DEF Hist!Publicar

\* The medallion is a history of each key to which transactions append: force is
\* of the version homologated last and passes only to one just published.
THEOREM SinkImplementaHistorico == Spec => ImplementaHistorico
<1>1. Init => Hist!Init
  BY DEF Init, SemLinhas, Hist!Init, Historia, Vigor, Vigentes, Registradas
<1>2. ASSUME Tipos, Tipos', EInv, EInv', CInv, CInv', FInv, [Next]_vars
      PROVE  [Hist!Publicar]_<<Historia, Vigor>>
  <2>1. CASE \E t \in Cargas : Commit(t)
    BY <1>2, <2>1, CommitPublica
  <2>2. CASE \A t \in Cargas : ~Commit(t)
    BY <1>2, <2>2, SoCommitPublica DEF Historia, Vigor, Registradas, Vigentes
  <2> QED
    BY <2>1, <2>2
<1> QED
  BY <1>1, <1>2, EInvInvariante, CInvInvariante, FInvInvariante, PTL
     DEF Spec, ImplementaHistorico, Hist!Spec
=============================================================================
