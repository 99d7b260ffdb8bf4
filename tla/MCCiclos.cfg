SPECIFICATION SpecCiclos
CONSTANTS
    Relogios = {r1, r2}
    Lotes = {l1, l2}
    Entes = {1}
    LotePorCiclo = 2
    MaxVersoes = 2
    MaxFalhas = 1
    Pedidos = {q1, q2}
    Processos = {p1}
    TtlAvaliacao = 2
    MaxMudancas = 2
    MaxDecisoes = 1
    MaxQuedas = 1
    NumUnidades = 4
    SalvarACada = 2
    MaxRecusas = 2
    MaxMortes = 2
    Fluxos = {f1, f2}
    Conexoes = {c1, c2}
    Inquilinos = {t1}
    MaxTransacoes = 2
CHECK_DEADLOCK FALSE
INVARIANTS
    PulaSoGravada SnapshotApurado ContextoProprio
PROPERTIES
    LoteTermina DecisaoDoGestorFica CondicaoNovaViraAlerta OrfaoEncerra
    BackfillCompleta FluxoTermina
