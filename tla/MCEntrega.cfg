SPECIFICATION FairSpec
CONSTANTS
    Chaves = {k1}
    Versoes = {v1, v2}
    Conteudos = {c1, c2, Vazio}
    Vazio = Vazio
    ComLinhas = {c1}
    Cargas = {t1, t2}
    Nada = Nada
    MaxInstante = 3
    MaxCargas = 3
    MaxUnidades = 2
CHECK_DEADLOCK FALSE
INVARIANTS
    VigenteUnica EntregaMaterializada
PROPERTIES
    HistoricoPreservado CargaTermina ImplementaHistorico
