SPECIFICATION Spec
CONSTANTS
    Chaves = {k1}
    Versoes = {v1}
    Conteudos = {c1, c2, Vazio}
    Vazio = Vazio
    ComLinhas = {c1}
    Cargas = {t1}
    Nada = Nada
    MaxInstante = 1
    MaxCargas = 2
    MaxUnidades = 1
CHECK_DEADLOCK FALSE
INVARIANT PulaSoConteudoIgual
