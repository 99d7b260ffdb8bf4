SPECIFICATION FairSpecAlertas
CONSTANTS
    Pedidos = {q1}
    Processos = {p1}
    TtlAvaliacao = 1
    MaxMudancas = 2
    MaxDecisoes = 0
    MaxQuedas = 0
CHECK_DEADLOCK FALSE
PROPERTY CondicaoViraAlerta
