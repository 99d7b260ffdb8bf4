-------------------------- MODULE OrganizacaoProofs --------------------------
(***************************************************************************)
(* An organisation keeps an administrator, for any number of roles, users, *)
(* capabilities and requests.  The property is not inductive by itself: an *)
(* update of a role was checked against administrators that another        *)
(* request could remove before it commits, and an insert against rows that *)
(* another could have changed.  What the lock of the organisation and the  *)
(* unique keys exclude is stated first.                                    *)
(***************************************************************************)
EXTENDS Organizacao, TLAPS

\* Nothing is asked of an organisation that was not provisioned.
SoProvisionada == \A r \in PedidosOrg : pedidoOrg[r].fase # "livre" => papeis # {}

\* lock_org: an update is alone, with no insert under way.
UmaAlteracao ==
    \A q, r \in PedidosOrg : Altera(q) /\ (Altera(r) \/ Insere(r)) => q = r

\* Only the update of a role takes the lock.
SoAlteraTrava ==
    \A r \in PedidosOrg : pedidoOrg[r].fase = "travado" => pedidoOrg[r].acao = "alterar_papel"

Cria(r) == pedidoOrg[r].fase = "escrito" /\ pedidoOrg[r].acao = "criar_papel"
Vincula(r) == pedidoOrg[r].fase = "escrito" /\ pedidoOrg[r].acao = "criar_usuario"

\* A role that is being created is new, and nobody else creates it.
PapelNovo ==
    \A r \in PedidosOrg : Cria(r) =>
        /\ pedidoOrg[r].papel \notin papeis
        /\ \A q \in PedidosOrg : Cria(q) /\ pedidoOrg[q].papel = pedidoOrg[r].papel => q = r

\* A user that is being created has no role yet, and nobody else creates it.
UsuarioNovo ==
    \A r \in PedidosOrg : Vincula(r) =>
        /\ vinculo[pedidoOrg[r].usuario] = SemPapel
        /\ pedidoOrg[r].papel \in papeis
        /\ \A q \in PedidosOrg :
             Vincula(q) /\ pedidoOrg[q].usuario = pedidoOrg[r].usuario => q = r

\* What was checked under the lock still holds when the update commits.
AlteracaoSegura ==
    \A r \in PedidosOrg :
        pedidoOrg[r].fase = "escrito" /\ pedidoOrg[r].acao = "alterar_papel" =>
            /\ pedidoOrg[r].papel \in papeis
            /\ RemoveAdmin(pedidoOrg[r]) => AdministradoresFora(pedidoOrg[r].papel) # {}

\* The inductive invariant.
IInvOrganizacao ==
    /\ TypeOKOrganizacao
    /\ SempreHaAdministrador
    /\ SoProvisionada
    /\ SoAlteraTrava
    /\ UmaAlteracao
    /\ PapelNovo
    /\ UsuarioNovo
    /\ AlteracaoSegura

-----------------------------------------------------------------------------

\* A request that is free is a request.
LEMMA LivreEhPedido == PedidoLivre \in PedidoOrg /\ PedidoLivre.fase = "livre"
  BY OrganizacaoAssumption DEF PedidoLivre, PedidoOrg

\* Initially nothing was provisioned and nobody asks for anything.
LEMMA OrganizacaoInicial == InitOrganizacao => IInvOrganizacao
  BY LivreEhPedido
     DEF InitOrganizacao, IInvOrganizacao, TypeOKOrganizacao, SempreHaAdministrador,
         SoProvisionada, SoAlteraTrava, UmaAlteracao, PapelNovo, UsuarioNovo,
         AlteracaoSegura, Altera, Insere, Cria, Vincula

\* The first user of an organisation administers it.
LEMMA ProvisionarPreserva ==
    ASSUME IInvOrganizacao, NEW p \in Papeis, NEW u \in Usuarios, ProvisionarOrg(p, u)
    PROVE  IInvOrganizacao'
  <1> USE OrganizacaoAssumption
          DEF IInvOrganizacao, TypeOKOrganizacao, ProvisionarOrg
  <1>1. \A r \in PedidosOrg : pedidoOrg'[r].fase = "livre"
    BY DEF SoProvisionada
  <1>2. TypeOKOrganizacao'
    OBVIOUS
  <1>3. SempreHaAdministrador'
    BY DEF SempreHaAdministrador, Administra
  <1>4. QED
    BY <1>1, <1>2, <1>3
       DEF SoProvisionada, SoAlteraTrava, UmaAlteracao, PapelNovo, UsuarioNovo,
           AlteracaoSegura, Altera, Insere, Cria, Vincula

\* A step that only changes what a request is doing, and leaves it without a
\* write or a lock, disturbs nothing.
LEMMA SoPedidoPreserva ==
    ASSUME IInvOrganizacao, NEW r \in PedidosOrg, NEW x \in PedidoOrg,
           pedidoOrg' = [pedidoOrg EXCEPT ![r] = x],
           x.fase \in {"livre", "autorizado"},
           x.fase # "livre" => papeis # {},
           UNCHANGED <<papeis, capacidades, vinculo>>
    PROVE  IInvOrganizacao'
  <1> USE DEF IInvOrganizacao
  <1>1. TypeOKOrganizacao'
    BY DEF TypeOKOrganizacao
  <1>2. SempreHaAdministrador'
    BY DEF SempreHaAdministrador, Administra
  <1>3. \A q \in PedidosOrg :
          pedidoOrg'[q] = pedidoOrg[q] \/ pedidoOrg'[q].fase \in {"livre", "autorizado"}
    BY DEF TypeOKOrganizacao
  <1>4. \A q \in PedidosOrg : pedidoOrg'[q].fase # "livre" => papeis # {}
    BY DEF TypeOKOrganizacao, SoProvisionada
  <1>5. \A q \in PedidosOrg :
          pedidoOrg'[q].fase \in {"travado", "escrito"} => pedidoOrg'[q] = pedidoOrg[q]
    BY <1>3
  <1>6. SoProvisionada' /\ SoAlteraTrava' /\ UmaAlteracao' /\ PapelNovo' /\ UsuarioNovo'
    BY <1>4, <1>5
       DEF SoProvisionada, SoAlteraTrava, UmaAlteracao, PapelNovo, UsuarioNovo, Altera, Insere,
           Cria, Vincula
  <1>7. AlteracaoSegura'
    BY <1>5 DEF AlteracaoSegura, RemoveAdmin, AdministradoresFora, Administra
  <1>8. QED
    BY <1>1, <1>2, <1>6, <1>7

\* An insert waits for the update of a role, and for the insert of its key.
LEMMA InserePreserva ==
    ASSUME IInvOrganizacao, NEW r \in PedidosOrg, NEW x \in PedidoOrg,
           pedidoOrg' = [pedidoOrg EXCEPT ![r] = x],
           pedidoOrg[r].fase = "autorizado",
           OrgReferenciavel,
           x.fase = "escrito",
           \/ /\ x.acao = "criar_papel" /\ x.papel \notin papeis
              /\ \A q \in PedidosOrg : ~(Cria(q) /\ pedidoOrg[q].papel = x.papel)
           \/ /\ x.acao = "criar_usuario"
              /\ vinculo[x.usuario] = SemPapel /\ x.papel \in papeis
              /\ \A q \in PedidosOrg : ~(Vincula(q) /\ pedidoOrg[q].usuario = x.usuario),
           UNCHANGED <<papeis, capacidades, vinculo>>
    PROVE  IInvOrganizacao'
  <1> USE DEF IInvOrganizacao
  <1>1. TypeOKOrganizacao'
    BY DEF TypeOKOrganizacao
  <1>2. SempreHaAdministrador'
    BY DEF SempreHaAdministrador, Administra
  <1>3. /\ pedidoOrg'[r] = x
        /\ \A q \in PedidosOrg : q # r => pedidoOrg'[q] = pedidoOrg[q]
    BY DEF TypeOKOrganizacao
  <1>4. \A q \in PedidosOrg : ~Altera(q)'
    BY <1>3 DEF OrgReferenciavel, Altera
  <1>5. SoProvisionada' /\ SoAlteraTrava' /\ UmaAlteracao'
    BY <1>3, <1>4 DEF SoProvisionada, SoAlteraTrava, UmaAlteracao, Altera
  <1>6. PapelNovo'
    BY <1>3 DEF PapelNovo, Cria
  <1>7. UsuarioNovo'
    BY <1>3 DEF UsuarioNovo, Vincula
  <1>8. AlteracaoSegura'
    BY <1>4 DEF AlteracaoSegura, Altera
  <1>9. QED
    BY <1>1, <1>2, <1>5, <1>6, <1>7, <1>8

\* The lock of the organisation is taken when nobody writes under it.
LEMMA TravarPreserva ==
    ASSUME IInvOrganizacao, NEW r \in PedidosOrg, NEW p \in Papeis,
           NEW cs \in SUBSET Capacidades, TravarOrg(r, p, cs)
    PROVE  IInvOrganizacao'
  <1> USE DEF IInvOrganizacao
  <1> DEFINE x == [pedidoOrg[r] EXCEPT !.fase = "travado", !.acao = "alterar_papel",
                                       !.papel = p, !.caps = cs]
  <1>1. pedidoOrg' = [pedidoOrg EXCEPT ![r] = x]
    BY DEF TravarOrg
  <1>2. x \in PedidoOrg /\ x.fase = "travado" /\ x.acao = "alterar_papel"
    BY DEF TypeOKOrganizacao, PedidoOrg
  <1> HIDE DEF x
  <1>3. /\ pedidoOrg'[r] = x
        /\ \A q \in PedidosOrg : q # r => pedidoOrg'[q] = pedidoOrg[q]
    BY <1>1 DEF TypeOKOrganizacao
  <1>4. TypeOKOrganizacao'
    <2>1. pedidoOrg' \in [PedidosOrg -> PedidoOrg]
      BY <1>1, <1>2 DEF TypeOKOrganizacao
    <2>2. UNCHANGED <<papeis, capacidades, vinculo>>
      BY DEF TravarOrg
    <2>3. QED
      BY <2>1, <2>2 DEF TypeOKOrganizacao
  <1>5. SempreHaAdministrador'
    BY DEF SempreHaAdministrador, Administra, TravarOrg
  <1>6. \A q \in PedidosOrg : pedidoOrg'[q].fase # "escrito"
    BY <1>2, <1>3 DEF TravarOrg, OrgTravavel, Altera, Insere
  <1>7. \A q \in PedidosOrg : Altera(q)' => q = r
    BY <1>3, <1>6 DEF TravarOrg, OrgTravavel, Altera
  <1>8. SoProvisionada' /\ SoAlteraTrava' /\ UmaAlteracao'
    BY <1>2, <1>3, <1>6, <1>7
       DEF SoProvisionada, SoAlteraTrava, UmaAlteracao, TravarOrg, Insere
  <1>9. PapelNovo' /\ UsuarioNovo' /\ AlteracaoSegura'
    BY <1>6 DEF PapelNovo, UsuarioNovo, AlteracaoSegura, Cria, Vincula
  <1>10. QED
    BY <1>4, <1>5, <1>8, <1>9

\* The update is written after its check, under the lock.
LEMMA SubstituirPreserva ==
    ASSUME IInvOrganizacao, NEW r \in PedidosOrg, Substituir(r)
    PROVE  IInvOrganizacao'
  <1> USE DEF IInvOrganizacao
  <1> DEFINE x == [pedidoOrg[r] EXCEPT !.fase = "escrito"]
  <1>1. pedidoOrg' = [pedidoOrg EXCEPT ![r] = x]
    BY DEF Substituir
  <1>2. /\ x \in PedidoOrg /\ x.fase = "escrito" /\ x.acao = pedidoOrg[r].acao
        /\ x.papel = pedidoOrg[r].papel /\ x.caps = pedidoOrg[r].caps
        /\ x.ator = pedidoOrg[r].ator
    BY DEF TypeOKOrganizacao, PedidoOrg
  <1> HIDE DEF x
  <1>3. /\ pedidoOrg'[r] = x
        /\ \A q \in PedidosOrg : q # r => pedidoOrg'[q] = pedidoOrg[q]
    BY <1>1 DEF TypeOKOrganizacao
  <1>4. TypeOKOrganizacao'
    BY <1>1, <1>2 DEF TypeOKOrganizacao, Substituir
  <1>5. SempreHaAdministrador'
    BY DEF SempreHaAdministrador, Administra, Substituir
  <1>6. \A q \in PedidosOrg : q # r => ~Altera(q) /\ ~Insere(q)
    BY DEF UmaAlteracao, Substituir, Altera
  <1>7. pedidoOrg[r].acao = "alterar_papel"
    BY DEF SoAlteraTrava, Substituir
  <1>8. \A q \in PedidosOrg : q # r => ~Altera(q)' /\ ~Insere(q)'
    BY <1>3, <1>6 DEF Altera, Insere
  <1>9. SoProvisionada' /\ SoAlteraTrava' /\ UmaAlteracao'
    BY <1>2, <1>3, <1>7, <1>8
       DEF SoProvisionada, SoAlteraTrava, UmaAlteracao, Substituir, Altera
  <1>10. PapelNovo' /\ UsuarioNovo'
    BY <1>2, <1>3, <1>7, <1>8 DEF PapelNovo, UsuarioNovo, Cria, Vincula, Insere
  <1>11. AlteracaoSegura'
    BY <1>2, <1>3, <1>8
       DEF AlteracaoSegura, Altera, Substituir, AdminProtegido, RemoveAdmin,
           AdministradoresFora, Administra
  <1>12. QED
    BY <1>4, <1>5, <1>9, <1>10, <1>11

\* What a request that ends leaves of the others.
LEMMA ConfirmarOutros ==
    ASSUME IInvOrganizacao, NEW r \in PedidosOrg, ConfirmarPedido(r)
    PROVE  /\ pedidoOrg'[r] = PedidoLivre
           /\ pedidoOrg' \in [PedidosOrg -> PedidoOrg]
           /\ \A q \in PedidosOrg : q # r => pedidoOrg'[q] = pedidoOrg[q]
           /\ ~Altera(r)' /\ ~Insere(r)' /\ ~Cria(r)' /\ ~Vincula(r)'
           /\ \A q \in PedidosOrg : q # r => ~Altera(q) /\ ~Altera(q)'
  <1>1. /\ pedidoOrg'[r] = PedidoLivre
        /\ pedidoOrg' \in [PedidosOrg -> PedidoOrg]
        /\ \A q \in PedidosOrg : q # r => pedidoOrg'[q] = pedidoOrg[q]
    BY LivreEhPedido DEF IInvOrganizacao, TypeOKOrganizacao, ConfirmarPedido
  <1>2. ~Altera(r)' /\ ~Insere(r)' /\ ~Cria(r)' /\ ~Vincula(r)'
    BY <1>1, LivreEhPedido DEF Altera, Insere, Cria, Vincula
  <1>3. Altera(r) \/ Insere(r)
    BY DEF ConfirmarPedido, Altera, Insere
  <1>4. \A q \in PedidosOrg : q # r => ~Altera(q)
    BY <1>3 DEF IInvOrganizacao, UmaAlteracao
  <1>5. \A q \in PedidosOrg : q # r => ~Altera(q)'
    BY <1>1, <1>4 DEF Altera
  <1>6. QED
    BY <1>1, <1>2, <1>4, <1>5

\* A new user takes no administrator away, and no update is under way.
LEMMA ConfirmarUsuario ==
    ASSUME IInvOrganizacao, NEW r \in PedidosOrg, ConfirmarPedido(r), Vincula(r)
    PROVE  IInvOrganizacao'
  <1> DEFINE u == pedidoOrg[r].usuario
             p == pedidoOrg[r].papel
  <1> USE ConfirmarOutros DEF IInvOrganizacao
  <1>1. /\ u \in Usuarios /\ p \in papeis /\ vinculo[u] = SemPapel
        /\ vinculo' = [vinculo EXCEPT ![u] = p]
        /\ UNCHANGED <<papeis, capacidades>>
    BY DEF TypeOKOrganizacao, PedidoOrg, UsuarioNovo, Vincula, ConfirmarPedido
  <1>2. \A q \in PedidosOrg : Vincula(q) /\ pedidoOrg[q].usuario = u => q = r
    BY DEF UsuarioNovo
  <1> HIDE DEF u, p
  <1>3. TypeOKOrganizacao'
    BY <1>1 DEF TypeOKOrganizacao
  <1>4. SempreHaAdministrador'
    BY <1>1 DEF TypeOKOrganizacao, SempreHaAdministrador, Administra
  <1>5. SoProvisionada' /\ SoAlteraTrava' /\ UmaAlteracao'
    BY <1>1, LivreEhPedido DEF SoProvisionada, SoAlteraTrava, UmaAlteracao, Altera
  <1>6. PapelNovo'
    BY <1>1 DEF PapelNovo, Cria
  <1>7. UsuarioNovo'
    <2> SUFFICES ASSUME NEW q \in PedidosOrg, Vincula(q)'
                 PROVE  /\ vinculo'[pedidoOrg'[q].usuario] = SemPapel
                        /\ pedidoOrg'[q].papel \in papeis'
                        /\ \A k \in PedidosOrg :
                             Vincula(k)' /\ pedidoOrg'[k].usuario = pedidoOrg'[q].usuario => k = q
      BY DEF UsuarioNovo, Vincula
    <2>1. q # r /\ pedidoOrg'[q] = pedidoOrg[q] /\ Vincula(q)
      BY DEF Vincula
    <2>2. pedidoOrg[q].usuario # u /\ pedidoOrg[q].usuario \in Usuarios
      BY <1>2, <2>1 DEF TypeOKOrganizacao, PedidoOrg
    <2>3. vinculo'[pedidoOrg[q].usuario] = SemPapel /\ pedidoOrg[q].papel \in papeis
      BY <1>1, <2>1, <2>2 DEF UsuarioNovo, TypeOKOrganizacao
    <2>4. ASSUME NEW k \in PedidosOrg, Vincula(k)', pedidoOrg'[k].usuario = pedidoOrg'[q].usuario
          PROVE  k = q
      <3>1. k # r /\ pedidoOrg'[k] = pedidoOrg[k] /\ Vincula(k)
        BY <2>4 DEF Vincula
      <3>2. QED
        BY <2>1, <2>4, <3>1 DEF UsuarioNovo
    <2>5. QED
      BY <1>1, <2>1, <2>3, <2>4
  <1>8. AlteracaoSegura'
    BY LivreEhPedido DEF AlteracaoSegura, Altera
  <1>9. QED
    BY <1>3, <1>4, <1>5, <1>6, <1>7, <1>8

\* A new role is nobody's, and no update is under way.
LEMMA ConfirmarPapelNovo ==
    ASSUME IInvOrganizacao, NEW r \in PedidosOrg, ConfirmarPedido(r), Cria(r)
    PROVE  IInvOrganizacao'
  <1> DEFINE p == pedidoOrg[r].papel
             cs == pedidoOrg[r].caps
  <1> USE ConfirmarOutros DEF IInvOrganizacao
  <1>1. /\ p \in Papeis /\ p \notin papeis /\ cs \in SUBSET Capacidades
        /\ papeis' = papeis \cup {p}
        /\ capacidades' = [capacidades EXCEPT ![p] = cs]
        /\ vinculo' = vinculo
    BY DEF TypeOKOrganizacao, PedidoOrg, PapelNovo, Cria, ConfirmarPedido
  <1>2. \A q \in PedidosOrg : Cria(q) /\ pedidoOrg[q].papel = p => q = r
    BY DEF PapelNovo
  <1>3. papeis # {}
    BY DEF SoProvisionada, Cria
  <1> HIDE DEF p, cs
  <1>4. TypeOKOrganizacao'
    BY <1>1 DEF TypeOKOrganizacao
  <1>5. \A u \in Usuarios : Administra(u) => Administra(u)'
    BY <1>1, OrganizacaoAssumption DEF TypeOKOrganizacao, Administra
  <1>6. SempreHaAdministrador'
    BY <1>3, <1>5 DEF SempreHaAdministrador
  <1>7. SoProvisionada' /\ SoAlteraTrava' /\ UmaAlteracao'
    BY <1>1, LivreEhPedido DEF SoProvisionada, SoAlteraTrava, UmaAlteracao, Altera
  <1>8. PapelNovo'
    <2> SUFFICES ASSUME NEW q \in PedidosOrg, Cria(q)'
                 PROVE  /\ pedidoOrg'[q].papel \notin papeis'
                        /\ \A k \in PedidosOrg :
                             Cria(k)' /\ pedidoOrg'[k].papel = pedidoOrg'[q].papel => k = q
      BY DEF PapelNovo, Cria
    <2>1. q # r /\ pedidoOrg'[q] = pedidoOrg[q] /\ Cria(q)
      BY DEF Cria
    <2>2. pedidoOrg[q].papel \notin papeis'
      BY <1>1, <1>2, <2>1 DEF PapelNovo
    <2>3. ASSUME NEW k \in PedidosOrg, Cria(k)', pedidoOrg'[k].papel = pedidoOrg'[q].papel
          PROVE  k = q
      <3>1. k # r /\ pedidoOrg'[k] = pedidoOrg[k] /\ Cria(k)
        BY <2>3 DEF Cria
      <3>2. QED
        BY <2>1, <2>3, <3>1 DEF PapelNovo
    <2>4. QED
      BY <2>1, <2>2, <2>3
  <1>9. UsuarioNovo'
    BY <1>1 DEF UsuarioNovo, Vincula
  <1>10. AlteracaoSegura'
    BY LivreEhPedido DEF AlteracaoSegura, Altera
  <1>11. QED
    BY <1>4, <1>6, <1>7, <1>8, <1>9, <1>10

\* An update that takes the administration from a role was checked against an
\* administrator of another one, who is still there.
LEMMA ConfirmarAlteracao ==
    ASSUME IInvOrganizacao, NEW r \in PedidosOrg, ConfirmarPedido(r),
           pedidoOrg[r].acao = "alterar_papel"
    PROVE  IInvOrganizacao'
  <1> DEFINE p == pedidoOrg[r].papel
             cs == pedidoOrg[r].caps
  <1> USE ConfirmarOutros DEF IInvOrganizacao
  <1>1. /\ p \in papeis /\ cs \in SUBSET Capacidades
        /\ papeis' = papeis
        /\ capacidades' = [capacidades EXCEPT ![p] = cs]
        /\ vinculo' = vinculo
    <2>1. p \in papeis /\ cs \in SUBSET Capacidades
      BY DEF TypeOKOrganizacao, PedidoOrg, AlteracaoSegura, ConfirmarPedido
    <2>2. /\ papeis' = papeis \cup {p}
          /\ capacidades' = [capacidades EXCEPT ![p] = cs]
          /\ vinculo' = vinculo
      BY DEF ConfirmarPedido
    <2>3. QED
      BY <2>1, <2>2
  <1>2. "administrar" \in capacidades[p] /\ "administrar" \notin cs
            => \E u \in Usuarios : vinculo[u] # p /\ Administra(u)
    BY DEF AlteracaoSegura, RemoveAdmin, AdministradoresFora, ConfirmarPedido
  <1>3. \A q \in PedidosOrg : ~Altera(q)' /\ ~Insere(q)'
    <2>1. Altera(r)
      BY DEF Altera, ConfirmarPedido
    <2>2. \A q \in PedidosOrg : q # r => ~Insere(q)
      BY <2>1 DEF UmaAlteracao
    <2>3. QED
      BY <2>2 DEF Insere
  <1> HIDE DEF p, cs
  <1>4. TypeOKOrganizacao'
    BY <1>1 DEF TypeOKOrganizacao
  <1>5. SempreHaAdministrador'
    <2>1. CASE "administrar" \in capacidades[p] /\ "administrar" \notin cs
      <3>1. PICK u \in Usuarios : vinculo[u] # p /\ Administra(u)
        BY <1>2, <2>1
      <3>2. Administra(u)'
        BY <1>1, <3>1 DEF TypeOKOrganizacao, Administra
      <3>3. QED
        BY <3>2 DEF SempreHaAdministrador
    <2>2. CASE ~("administrar" \in capacidades[p] /\ "administrar" \notin cs)
      <3>1. \A u \in Usuarios : Administra(u) => Administra(u)'
        BY <1>1, <2>2 DEF TypeOKOrganizacao, Administra
      <3>2. QED
        BY <1>1, <3>1 DEF SempreHaAdministrador
    <2>3. QED
      BY <2>1, <2>2
  <1>6. SoProvisionada' /\ SoAlteraTrava' /\ UmaAlteracao'
    BY <1>1, <1>3, LivreEhPedido DEF SoProvisionada, SoAlteraTrava, UmaAlteracao, Altera
  <1>7. PapelNovo' /\ UsuarioNovo' /\ AlteracaoSegura'
    BY <1>3 DEF PapelNovo, UsuarioNovo, AlteracaoSegura, Cria, Vincula, Altera, Insere
  <1>8. QED
    BY <1>4, <1>5, <1>6, <1>7

\* Every step keeps the invariant.
LEMMA OrganizacaoPasso ==
    IInvOrganizacao /\ [NextOrganizacao]_organizacaoVars => IInvOrganizacao'
  <1> SUFFICES ASSUME IInvOrganizacao, [NextOrganizacao]_organizacaoVars
               PROVE  IInvOrganizacao'
    OBVIOUS
  <1>1. ASSUME NEW p \in Papeis, NEW u \in Usuarios, ProvisionarOrg(p, u)
        PROVE  IInvOrganizacao'
    BY <1>1, ProvisionarPreserva
  <1>2. ASSUME NEW r \in PedidosOrg, NEW u \in Usuarios, Autorizar(r, u)
        PROVE  IInvOrganizacao'
    <2> DEFINE x == [pedidoOrg[r] EXCEPT !.fase = "autorizado", !.ator = u]
    <2>1. pedidoOrg' = [pedidoOrg EXCEPT ![r] = x]
      BY <1>2 DEF Autorizar
    <2>2. x \in PedidoOrg /\ x.fase = "autorizado"
      BY DEF IInvOrganizacao, TypeOKOrganizacao, PedidoOrg
    <2>3. papeis # {}
      BY <1>2 DEF IInvOrganizacao, TypeOKOrganizacao, Autorizar, Administra
    <2>4. UNCHANGED <<papeis, capacidades, vinculo>>
      BY <1>2 DEF Autorizar
    <2> HIDE DEF x
    <2>5. QED
      BY <2>1, <2>2, <2>3, <2>4, SoPedidoPreserva
  <1>3. ASSUME NEW r \in PedidosOrg, NEW p \in Papeis, NEW cs \in SUBSET Capacidades,
               CriarPapel(r, p, cs)
        PROVE  IInvOrganizacao'
    <2> DEFINE x == [pedidoOrg[r] EXCEPT !.fase = "escrito", !.acao = "criar_papel",
                                         !.papel = p, !.caps = cs]
    <2>1. pedidoOrg' = [pedidoOrg EXCEPT ![r] = x]
      BY <1>3 DEF CriarPapel
    <2>2. x \in PedidoOrg /\ x.fase = "escrito" /\ x.acao = "criar_papel" /\ x.papel = p
      BY DEF IInvOrganizacao, TypeOKOrganizacao, PedidoOrg
    <2>3. \A q \in PedidosOrg : ~(Cria(q) /\ pedidoOrg[q].papel = p)
      BY <1>3 DEF CriarPapel, Cria, Insere
    <2>4. /\ pedidoOrg[r].fase = "autorizado" /\ OrgReferenciavel /\ p \notin papeis
          /\ UNCHANGED <<papeis, capacidades, vinculo>>
      BY <1>3 DEF CriarPapel
    <2> HIDE DEF x
    <2>5. QED
      BY <2>1, <2>2, <2>3, <2>4, InserePreserva
  <1>4. ASSUME NEW r \in PedidosOrg, NEW u \in Usuarios, NEW p \in Papeis,
               CriarUsuario(r, u, p)
        PROVE  IInvOrganizacao'
    <2> DEFINE x == [pedidoOrg[r] EXCEPT !.fase = "escrito", !.acao = "criar_usuario",
                                         !.papel = p, !.usuario = u]
    <2>1. pedidoOrg' = [pedidoOrg EXCEPT ![r] = x]
      BY <1>4 DEF CriarUsuario
    <2>2. /\ x \in PedidoOrg /\ x.fase = "escrito" /\ x.acao = "criar_usuario"
          /\ x.papel = p /\ x.usuario = u
      BY DEF IInvOrganizacao, TypeOKOrganizacao, PedidoOrg
    <2>3. \A q \in PedidosOrg : ~(Vincula(q) /\ pedidoOrg[q].usuario = u)
      BY <1>4 DEF CriarUsuario, Vincula, Insere
    <2>4. /\ pedidoOrg[r].fase = "autorizado" /\ OrgReferenciavel
          /\ vinculo[u] = SemPapel /\ p \in papeis
          /\ UNCHANGED <<papeis, capacidades, vinculo>>
      BY <1>4 DEF CriarUsuario
    <2> HIDE DEF x
    <2>5. QED
      BY <2>1, <2>2, <2>3, <2>4, InserePreserva
  <1>5. ASSUME NEW r \in PedidosOrg, NEW p \in Papeis, NEW cs \in SUBSET Capacidades,
               TravarOrg(r, p, cs)
        PROVE  IInvOrganizacao'
    BY <1>5, TravarPreserva
  <1>6. ASSUME NEW r \in PedidosOrg, Substituir(r)
        PROVE  IInvOrganizacao'
    BY <1>6, SubstituirPreserva
  <1>7. ASSUME NEW r \in PedidosOrg, DesfazerPedido(r)
        PROVE  IInvOrganizacao'
    <2>1. /\ pedidoOrg' = [pedidoOrg EXCEPT ![r] = PedidoLivre]
          /\ UNCHANGED <<papeis, capacidades, vinculo>>
      BY <1>7 DEF DesfazerPedido
    <2>2. QED
      BY <2>1, LivreEhPedido, SoPedidoPreserva
  <1>8. ASSUME NEW r \in PedidosOrg, ConfirmarPedido(r)
        PROVE  IInvOrganizacao'
    <2>1. Vincula(r) \/ Cria(r) \/ pedidoOrg[r].acao = "alterar_papel"
      BY <1>8 DEF ConfirmarPedido, IInvOrganizacao, TypeOKOrganizacao, PedidoOrg, Vincula, Cria
    <2>2. QED
      BY <1>8, <2>1, ConfirmarUsuario, ConfirmarPapelNovo, ConfirmarAlteracao
  <1>9. CASE UNCHANGED organizacaoVars
    BY <1>9
       DEF organizacaoVars, IInvOrganizacao, TypeOKOrganizacao, SempreHaAdministrador,
           SoProvisionada, SoAlteraTrava, UmaAlteracao, PapelNovo, UsuarioNovo,
           AlteracaoSegura, Altera, Insere, Cria, Vincula, RemoveAdmin,
           AdministradoresFora, Administra
  <1>10. QED
    BY <1>1, <1>2, <1>3, <1>4, <1>5, <1>6, <1>7, <1>8, <1>9 DEF NextOrganizacao

-----------------------------------------------------------------------------

\* Type correctness of the roles and users, with what the lock of the
\* organisation and the unique keys exclude.
THEOREM OrganizacaoInvariante == SpecOrganizacao => []IInvOrganizacao
  BY OrganizacaoInicial, OrganizacaoPasso, PTL DEF SpecOrganizacao

\* However many requests create users and roles and replace capabilities at
\* once, an organisation that was provisioned has who administers it.
THEOREM SempreHaAdministradorSempre == SpecOrganizacao => []SempreHaAdministrador
  <1>1. IInvOrganizacao => SempreHaAdministrador
    BY DEF IInvOrganizacao
  <1>2. QED
    BY <1>1, OrganizacaoInvariante, PTL
=============================================================================
