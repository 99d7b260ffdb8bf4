----------------------------- MODULE JobDuravel -----------------------------
(***************************************************************************)
(* What the ingestion queue promises of each job, without saying how: one  *)
(* owner at a time moves it forward, a unit once loaded stays loaded over  *)
(* every retry and recovery, a job is concluded when all of its units are  *)
(* loaded, and a concluded or cancelled job never moves again.             *)
(* IngestQueue implements it while none of its hazards happen.             *)
(***************************************************************************)
CONSTANTS Jobs, Units

VARIABLES
    estado,  \* the status of each job
    feitas   \* the units of each job that are loaded for good

Estados == {"inexistente", "na_fila", "executando", "concluido", "falhou",
            "cancelado"}

Init ==
    /\ estado = [j \in Jobs |-> "inexistente"]
    /\ feitas = [j \in Jobs |-> {}]

Muda(j, de, para) ==
    /\ estado[j] \in de
    /\ estado' = [estado EXCEPT ![j] = para]
    /\ UNCHANGED feitas

Criar(j) == Muda(j, {"inexistente"}, "na_fila")
Assumir(j) == Muda(j, {"na_fila"}, "executando")
Cancelar(j) == Muda(j, {"na_fila"}, "cancelado")
Retentar(j) == Muda(j, {"falhou"}, "na_fila")
Falhar(j) == Muda(j, {"na_fila", "executando"}, "falhou")
Concluir(j) == feitas[j] = Units /\ Muda(j, {"executando"}, "concluido")

\* Every job whose owner is gone goes back to the queue at once.
Devolver ==
    /\ \E S \in SUBSET {j \in Jobs : estado[j] = "executando"} :
         estado' = [j \in Jobs |-> IF j \in S THEN "na_fila" ELSE estado[j]]
    /\ UNCHANGED feitas

Carregar(j, u) ==
    /\ estado[j] = "executando"
    /\ u \in Units \ feitas[j]
    /\ feitas' = [feitas EXCEPT ![j] = @ \cup {u}]
    /\ UNCHANGED estado

Next ==
    \/ \E j \in Jobs :
         \/ Criar(j) \/ Assumir(j) \/ Cancelar(j) \/ Retentar(j)
         \/ Falhar(j) \/ Concluir(j)
         \/ \E u \in Units : Carregar(j, u)
    \/ Devolver

Spec == Init /\ [][Next]_<<estado, feitas>>
=============================================================================
