SPECIFICATION Spec
CONSTANTS
    Relatorios = {r1}
    Avulsos = {r1}
    Agendamentos = {}
    Processos = {p1, p2}
    Apis = {p1, p2}
    Relogios = {}
    Threads = {t1}
    Conteudos = {c1, c2, c3, c4, c5}
    Nada = Nada
    Riscos = {}
    MaxRelogio = 0
    MaxQuedas = 1
CHECK_DEADLOCK FALSE
INVARIANTS
    ArtefatoDoHash
