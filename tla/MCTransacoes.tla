---------------------------- MODULE MCTransacoes ----------------------------
(* Components that share no state, one at a time: foco names the one that    *)
(* runs.                                                                     *)
EXTENDS Escopo, Grade, JanelaLogin, Fontes, Resolucao, Assistente, Carteira,
        Organizacao, Leque, Calendario, Agenda, TLC

CONSTANTS m1, u1, s1, s2, g1, g2, g3

VARIABLE foco

UfDeMC == m1 :> u1
RestricaoDeMC == s1 :> {m1, u1} @@ s2 :> {m1}
RegistroMC == <<g1, g2, g3>>
NaoPublicadasMC == {Periodo(2023, "B", 2), Periodo(2023, "Q", 2)}

\* The schedules start in the first month.
DiaDeJaneiro(n) == [ano |-> 2023, mes |-> 1, dia |-> n]
AgendasMC ==
    {[inicio |-> DiaDeJaneiro(1), periodicidade |-> "mensal"],
     [inicio |-> DiaDeJaneiro(31), periodicidade |-> "mensal"],
     [inicio |-> DiaDeJaneiro(30), periodicidade |-> "bimestral"],
     [inicio |-> DiaDeJaneiro(30), periodicidade |-> "semanal"]}

escopoGrade == <<escopoVars, gradeVars>>
loginFontes == <<loginVars, fontesVars>>
resolucaoAssistente == <<resolucaoVars, assistenteVars>>
carteiraOrg == <<carteiraVars, organizacaoVars>>
lequeDatas == <<lequeVars, calendarioVars, agendaVars>>
transacoesVars ==
    <<escopoGrade, loginFontes, resolucaoAssistente, carteiraOrg, lequeDatas, foco>>

\* The registries of the instance: no source names itself.
RegistrosMC ==
    {d \in [FontesLeque -> SUBSET FontesLeque] : \A f \in FontesLeque : f \notin d[f]}

InitTransacoes ==
    /\ foco \in {"escopo", "grade", "login", "fontes", "resolucao", "assistente",
                "carteira", "organizacao", "leque", "calendario", "agenda"}
    /\ IF foco = "leque" THEN dependencias \in RegistrosMC
       ELSE dependencias = [f \in FontesLeque |-> {}]
    /\ IF foco = "resolucao" THEN InitResolucao ELSE InitResolucao /\ classe = "fonte"
    /\ IF foco = "calendario" THEN InitCalendario ELSE InitCalendario /\ faltas = {}
    /\ InitEscopo /\ InitGrade /\ InitLogin /\ InitFontes
    /\ InitAssistente /\ InitCarteira /\ InitOrganizacao /\ InitLeque /\ InitAgenda
    /\ foco # "escopo" => ~estadual
    /\ foco # "fontes" => protocolo = "ords" /\ teto = 1 /\ total = 0

NextTransacoes ==
    /\ UNCHANGED foco
    /\ \/ /\ foco \in {"escopo", "grade"}
          /\ \/ foco = "escopo" /\ NextEscopo /\ UNCHANGED gradeVars
             \/ foco = "grade" /\ NextGrade /\ UNCHANGED escopoVars
          /\ UNCHANGED <<loginFontes, resolucaoAssistente, carteiraOrg, lequeDatas>>
       \/ /\ foco \in {"login", "fontes"}
          /\ \/ foco = "login" /\ NextLogin /\ UNCHANGED fontesVars
             \/ foco = "fontes" /\ NextFontes /\ UNCHANGED loginVars
          /\ UNCHANGED <<escopoGrade, resolucaoAssistente, carteiraOrg, lequeDatas>>
       \/ /\ foco \in {"resolucao", "assistente"}
          /\ \/ foco = "resolucao" /\ NextResolucao /\ UNCHANGED assistenteVars
             \/ foco = "assistente" /\ NextAssistente /\ UNCHANGED resolucaoVars
          /\ UNCHANGED <<escopoGrade, loginFontes, carteiraOrg, lequeDatas>>
       \/ /\ foco \in {"carteira", "organizacao"}
          /\ \/ foco = "carteira" /\ NextCarteira /\ UNCHANGED organizacaoVars
             \/ foco = "organizacao" /\ NextOrganizacao /\ UNCHANGED carteiraVars
          /\ UNCHANGED <<escopoGrade, loginFontes, resolucaoAssistente, lequeDatas>>
       \/ /\ foco \in {"leque", "calendario", "agenda"}
          /\ \/ foco = "leque" /\ NextLeque /\ UNCHANGED <<calendarioVars, agendaVars>>
             \/ /\ foco = "calendario" /\ NextCalendario
                /\ UNCHANGED <<lequeVars, proxima, ultima>>
             \/ /\ foco = "agenda" /\ NextAgenda
                /\ UNCHANGED <<lequeVars, porte, faltas, entregas>>
          /\ UNCHANGED <<escopoGrade, loginFontes, resolucaoAssistente, carteiraOrg>>

SpecTransacoes == InitTransacoes /\ [][NextTransacoes]_transacoesVars

\* Type invariant of all of them.
TypeOKTransacoes ==
    /\ TypeOKEscopo /\ TypeOKGrade /\ TypeOKLogin
    /\ TypeOKFontes /\ TypeOKResolucao /\ TypeOKAssistente
    /\ TypeOKCarteira /\ TypeOKOrganizacao /\ TypeOKLeque
    /\ TypeOKCalendario /\ TypeOKAgenda

\* The entities of the assistant are interchangeable.
Simetria == Permutations(EntesIA)

=============================================================================
