---------------------------- MODULE Organizacao -----------------------------
(***************************************************************************)
(* Roles and users of one organisation (tenancy/service.py, repository.py  *)
(* and platform/service.py, provisionar_org).  A request reads what its    *)
(* author may do when it begins, and does it later, at READ COMMITTED:     *)
(* what another request changed in between is seen by the statements that  *)
(* run after it.  A rolled back request leaves nothing.                    *)
(***************************************************************************)
EXTENDS FiniteSets

CONSTANTS
    Papeis,      \* ids of roles
    Usuarios,    \* e-mails
    Capacidades, \* capabilities of RBAC
    PedidosOrg,  \* requests, each of which may come again
    SemPapel     \* the role of an e-mail that has no membership

ASSUME OrganizacaoAssumption ==
    /\ Papeis # {} /\ Usuarios # {}
    /\ "administrar" \in Capacidades
    /\ SemPapel \notin Papeis

VARIABLES
    papeis,      \* op.papel of the organisation, committed
    capacidades, \* op.papel_permissao: capabilities of each role, committed
    vinculo,     \* op.membership: role of each user, committed
    pedidoOrg    \* what each request is doing

organizacaoVars == <<papeis, capacidades, vinculo, pedidoOrg>>

PedidoOrg ==
    [fase: {"livre", "autorizado", "travado", "escrito"},
     acao: {"criar_papel", "criar_usuario", "alterar_papel"},
     ator: Usuarios, papel: Papeis, usuario: Usuarios, caps: SUBSET Capacidades]

\* Type invariant: a membership names a role of the organisation.
TypeOKOrganizacao ==
    /\ papeis \in SUBSET Papeis
    /\ capacidades \in [Papeis -> SUBSET Capacidades]
    /\ vinculo \in [Usuarios -> papeis \cup {SemPapel}]
    /\ pedidoOrg \in [PedidosOrg -> PedidoOrg]

PedidoLivre ==
    [fase |-> "livre", acao |-> "criar_papel", ator |-> CHOOSE u \in Usuarios : TRUE,
     papel |-> CHOOSE p \in Papeis : TRUE, usuario |-> CHOOSE u \in Usuarios : TRUE,
     caps |-> {}]

InitOrganizacao ==
    /\ papeis = {}
    /\ capacidades = [p \in Papeis |-> {}]
    /\ vinculo = [u \in Usuarios |-> SemPapel]
    /\ pedidoOrg = [r \in PedidosOrg |-> PedidoLivre]

-----------------------------------------------------------------------------

\* provisionar_org: the organisation, a role with every capability and its
\* first user, in one transaction.
ProvisionarOrg(p, u) ==
    /\ papeis = {}
    /\ papeis' = {p}
    /\ capacidades' = [capacidades EXCEPT ![p] = Capacidades]
    /\ vinculo' = [vinculo EXCEPT ![u] = p]
    /\ UNCHANGED pedidoOrg

Administra(u) == vinculo[u] # SemPapel /\ "administrar" \in capacidades[vinculo[u]]

\* require_capability("administrar"): read by the request's first statements.
Autorizar(r, u) ==
    /\ pedidoOrg[r].fase = "livre"
    /\ Administra(u)
    /\ pedidoOrg' = [pedidoOrg EXCEPT ![r].fase = "autorizado", ![r].ator = u]
    /\ UNCHANGED <<papeis, capacidades, vinculo>>

Insere(r) == pedidoOrg[r].fase = "escrito" /\ pedidoOrg[r].acao # "alterar_papel"
Altera(r) ==
    \/ pedidoOrg[r].fase = "travado"
    \/ pedidoOrg[r].fase = "escrito" /\ pedidoOrg[r].acao = "alterar_papel"

\* An insert references the organisation, whose row FOR UPDATE keeps from it.
OrgReferenciavel == \A q \in PedidosOrg : ~Altera(q)

\* Mutant: the row of the organisation is not locked.
OrgSemTrava == TRUE

\* lock_org: FOR UPDATE waits for who has the row and who references it.
OrgTravavel == \A q \in PedidosOrg : ~Altera(q) /\ ~Insere(q)

\* The name of a role is unique: a second insert of it waits, and then fails.
CriarPapel(r, p, cs) ==
    /\ pedidoOrg[r].fase = "autorizado"
    /\ OrgReferenciavel
    /\ p \notin papeis
    /\ \A q \in PedidosOrg :
         ~(Insere(q) /\ pedidoOrg[q].acao = "criar_papel" /\ pedidoOrg[q].papel = p)
    /\ pedidoOrg' = [pedidoOrg EXCEPT ![r].fase = "escrito", ![r].acao = "criar_papel",
                                      ![r].papel = p, ![r].caps = cs]
    /\ UNCHANGED <<papeis, capacidades, vinculo>>

\* The role asked for, or the one _papel_novo_usuario picks, which is some role
\* of the organisation; the e-mail is unique.
CriarUsuario(r, u, p) ==
    /\ pedidoOrg[r].fase = "autorizado"
    /\ OrgReferenciavel
    /\ vinculo[u] = SemPapel /\ p \in papeis
    /\ \A q \in PedidosOrg :
         ~(Insere(q) /\ pedidoOrg[q].acao = "criar_usuario" /\ pedidoOrg[q].usuario = u)
    /\ pedidoOrg' = [pedidoOrg EXCEPT ![r].fase = "escrito", ![r].acao = "criar_usuario",
                                      ![r].papel = p, ![r].usuario = u]
    /\ UNCHANGED <<papeis, capacidades, vinculo>>

\* update_papel_capacidades takes the lock before it reads anything.
TravarOrg(r, p, cs) ==
    /\ pedidoOrg[r].fase = "autorizado"
    /\ OrgTravavel
    /\ pedidoOrg' = [pedidoOrg EXCEPT ![r].fase = "travado", ![r].acao = "alterar_papel",
                                      ![r].papel = p, ![r].caps = cs]
    /\ UNCHANGED <<papeis, capacidades, vinculo>>

RemoveAdmin(x) ==
    "administrar" \in capacidades[x.papel] /\ "administrar" \notin x.caps

\* count_admin_members_excluding_papel
AdministradoresFora(p) == {u \in Usuarios : vinculo[u] # p /\ Administra(u)}

\* The role of who asks, or the last one with an administrator, is refused.
AdminProtegido(x) ==
    RemoveAdmin(x) /\ (vinculo[x.ator] = x.papel \/ AdministradoresFora(x.papel) = {})

Substituir(r) ==
    /\ pedidoOrg[r].fase = "travado"
    /\ pedidoOrg[r].papel \in papeis
    /\ ~AdminProtegido(pedidoOrg[r])
    /\ pedidoOrg' = [pedidoOrg EXCEPT ![r].fase = "escrito"]
    /\ UNCHANGED <<papeis, capacidades, vinculo>>

\* Refused (404, 409), or anything raises: the request rolls back.
DesfazerPedido(r) ==
    /\ pedidoOrg[r].fase # "livre"
    /\ pedidoOrg' = [pedidoOrg EXCEPT ![r] = PedidoLivre]
    /\ UNCHANGED <<papeis, capacidades, vinculo>>

ConfirmarPedido(r) ==
    /\ pedidoOrg[r].fase = "escrito"
    /\ LET x == pedidoOrg[r] IN
         \/ /\ x.acao = "criar_usuario"
            /\ vinculo' = [vinculo EXCEPT ![x.usuario] = x.papel]
            /\ UNCHANGED <<papeis, capacidades>>
         \/ /\ x.acao # "criar_usuario"
            /\ papeis' = papeis \cup {x.papel}
            /\ capacidades' = [capacidades EXCEPT ![x.papel] = x.caps]
            /\ UNCHANGED vinculo
    /\ pedidoOrg' = [pedidoOrg EXCEPT ![r] = PedidoLivre]

NextOrganizacao ==
    \/ \E p \in Papeis, u \in Usuarios : ProvisionarOrg(p, u)
    \/ \E r \in PedidosOrg :
         \/ \E u \in Usuarios : Autorizar(r, u)
         \/ \E p \in Papeis, cs \in SUBSET Capacidades :
              CriarPapel(r, p, cs) \/ TravarOrg(r, p, cs)
         \/ \E u \in Usuarios, p \in Papeis : CriarUsuario(r, u, p)
         \/ Substituir(r)
         \/ DesfazerPedido(r)
         \/ ConfirmarPedido(r)

SpecOrganizacao == InitOrganizacao /\ [][NextOrganizacao]_organizacaoVars

-----------------------------------------------------------------------------

\* An organisation that was provisioned always has a user who administers it:
\* two requests cannot each count on the administrators the other removes
\* (tenancy/service.py, 283-285).
SempreHaAdministrador == papeis # {} => \E u \in Usuarios : Administra(u)
=============================================================================
