------------------------------ MODULE MCCiclos ------------------------------
(* Work that comes round, and what must end: the refresh of portfolios, the   *)
(* evaluation of alerts, the historical load and the transactions of requests *)
(* that share connections.  They share no state here, and run one at a time:  *)
(* foco names the one that runs.                                              *)
EXTENDS Carteira, Alertas, Backfill, Contexto

VARIABLE foco

ciclosVars == <<carteiraVars, alertasVars, backfillVars, contextoVars, foco>>

InitCiclos ==
    /\ foco \in {"carteira", "alertas", "backfill", "contexto"}
    /\ InitCarteira /\ InitAlertas /\ InitBackfill /\ InitContexto
    /\ foco # "alertas" => categoria = "limite" /\ condicao = "normal"

NextCiclos ==
    /\ UNCHANGED foco
    /\ \/ /\ foco = "carteira" /\ NextCarteira
          /\ UNCHANGED <<alertasVars, backfillVars, contextoVars>>
       \/ /\ foco = "alertas" /\ NextAlertas
          /\ UNCHANGED <<carteiraVars, backfillVars, contextoVars>>
       \/ /\ foco = "backfill" /\ NextBackfill
          /\ UNCHANGED <<carteiraVars, alertasVars, contextoVars>>
       \/ /\ foco = "contexto" /\ NextContexto
          /\ UNCHANGED <<carteiraVars, alertasVars, backfillVars>>

\* The fairness of each, while it runs.
FairnessCiclos ==
    /\ FairnessCarteira
    /\ FairnessAlertas
    /\ WF_backfillVars(foco = "backfill" /\ CorridaStep)
    /\ \A f \in Fluxos : WF_contextoVars(foco = "contexto" /\ FluxoStep(f))

SpecCiclos == InitCiclos /\ [][NextCiclos]_ciclosVars /\ FairnessCiclos

=============================================================================
