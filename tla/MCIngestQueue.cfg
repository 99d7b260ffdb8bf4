CONSTANTS
  Jobs = {j1}
  Units = {u1, u2}
  Workers = {w1, w2}
  Requests = {q1}
  Nada = Nada
  Riscos = {}
  MaxTentativas = 2
  MaxFalhas = 1
SYMMETRY Symmetry
SPECIFICATION Spec
INVARIANT ExecucaoExclusiva
CHECK_DEADLOCK FALSE
INVARIANT PlanoCobreTudo
INVARIANT ConcluidoCompleto
PROPERTY UnidadeOkPreservada
PROPERTY ImplementaJobDuravel
