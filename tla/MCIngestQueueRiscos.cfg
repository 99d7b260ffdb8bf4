CONSTANTS
  Jobs = {j1}
  Units = {u1}
  Workers = {w1, w2}
  Requests = {q1}
  Nada = Nada
  Riscos = {"alem_do_lease", "encerramento_alheio", "claim_desfeito"}
  MaxTentativas = 1
  MaxFalhas = 1
SPECIFICATION FairSpec
INVARIANT TentativaExclusiva
PROPERTY JobTermina
CHECK_DEADLOCK FALSE
