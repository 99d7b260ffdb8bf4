CONSTANTS
  Jobs = {j1}
  Units = {u1}
  Workers = {w1, w2}
  Requests = {q1}
  Nada = Nada
  Riscos = {"encerramento_alheio"}
  MaxTentativas = 3
  MaxFalhas = 1
SPECIFICATION Spec
INVARIANT ExecucaoExclusiva
CHECK_DEADLOCK FALSE
