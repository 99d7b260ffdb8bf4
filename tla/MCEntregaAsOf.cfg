SPECIFICATION FairSpec
CONSTANTS
    Chaves = {k1}
    Versoes = {v1, v2}
    Conteudos = {c1, Vazio}
    Vazio = Vazio
    ComLinhas = {c1}
    Cargas = {t1}
    Nada = Nada
    MaxInstante = 3
    MaxCargas = 2
    MaxUnidades = 1
CHECK_DEADLOCK FALSE
PROPERTY AsOfReproduz
