SPECIFICATION SpecTransacoes
CONSTANTS
    m1 = m1
    u1 = u1
    s1 = s1
    s2 = s2
    Municipios = {m1}
    Estados = {u1}
    UfDe <- UfDeMC
    Sessoes = {s1, s2}
    RestricaoDe <- RestricaoDeMC
    Licencas = {l1}
    MaxDias = 1
    MaxMudancasEscopo = 2
    Orgs = {o1, o2}
    Leitores = {t1}
    Escritores = {w1, w2}
    Linhas = {k1}
    Ttl = 1
    MaxEntradas = 1
    DuracaoMax = 1
    MaxGeracoes = 2
    MaxInstantes = 3
    Tentativas = {a1, a2, a3}
    Limite = 2
    Janela = 2
    MaxInstanteLogin = 5
    PageSize = 2
    MaxTentativas = 2
    MaxPaginas = 4
    MaxLinhasFonte = 5
    Cliques = {q1, q2, q3}
    MaxCargas = 4
    MaxCliques = 6
    MaxQuedasResolucao = 1
    Perguntas = {p1}
    EntesIA = {e1, e2}
    Cortes = {0, 1}
    NenhumEnte = NenhumEnte
    MaxTurnos = 2
    MaxPassos = 1
    MaxVersaoIA = 2
    MaxConversas = 1
    MaxAuditorias = 2
    MaxEscopoIA = 1
    Relogios = {r1, r2}
    Lotes = {b1, b2}
    Entes = {1, 2}
    LotePorCiclo = 1
    MaxVersoes = 1
    MaxFalhas = 0
    Papeis = {pa, pb}
    Usuarios = {ua, ub}
    Capacidades = {"administrar", "ver"}
    PedidosOrg = {d1, d2}
    SemPapel = SemPapel
    g1 = g1
    g2 = g2
    g3 = g3
    Registro <- RegistroMC
    SemConfig = {}
    MaxLeques = 2
    MaxAlternancias = 1
    DiasVistos = {1, 30}
    AnoInicial = 2023
    MesesVistos = 16
    Portes = {"grande"}
    NaoPublicadas <- NaoPublicadasMC
    Agendas <- AgendasMC
SYMMETRY Simetria
CHECK_DEADLOCK FALSE
INVARIANTS
    TypeOKTransacoes SuspensaoNaHora DrillCoerente PaginaRecente
    FreioConcorrente LeituraCompleta SoComFato CargasContidas
    RetomadaSegura RastroCompleto SemEsperaCircular
    SempreHaAdministrador LequeEmOrdem CalendarioCoerente UmaPorMes
