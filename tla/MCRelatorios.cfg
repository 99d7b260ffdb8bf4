SPECIFICATION FairSpec
CONSTANTS
    Relatorios = {r1, r2, r3}
    Avulsos = {r1}
    Agendamentos = {s1}
    Processos = {p1, p2}
    Apis = {p1}
    Relogios = {p2}
    Threads = {t1}
    Conteudos = {c1, c2, c3, c4, c5}
    Nada = Nada
    Riscos = {"resposta_perdida"}
    MaxRelogio = 1
    MaxQuedas = 1
CHECK_DEADLOCK FALSE
INVARIANTS
    ArtefatoIntegro AgendamentoUmaVez
PROPERTIES
    GeradoFica RelatorioTermina
