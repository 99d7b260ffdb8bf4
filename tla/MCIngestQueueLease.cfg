CONSTANTS
  Jobs = {j1}
  Units = {u1,u2}
  Workers = {w1, w2}
  Requests = {q1}
  Nada = Nada
  Riscos = {"alem_do_lease"}
  MaxTentativas = 3
  MaxFalhas = 1
SPECIFICATION Spec
INVARIANT ConcluidoCompleto
CHECK_DEADLOCK FALSE
