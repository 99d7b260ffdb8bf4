----------------------------- MODULE Historico -----------------------------
(***************************************************************************)
(* What the medallion promises of each key, without saying how: a history  *)
(* that only grows, in which a version keeps the payload it was received   *)
(* with and the instant it was homologated at, and one version in force,   *)
(* the one homologated last, which gives way only to one that has just     *)
(* been published (docs/arquitetura-dados-e-ingestao.md, 79-81).           *)
(* Entrega implements it: all that a transaction did is one step.          *)
(***************************************************************************)
EXTENDS Integers

CONSTANTS Chaves, Versoes, Conteudos

VARIABLES
    historia, \* the versions of each key
    vigor     \* the versions of each key that are in force

Publicacao == [versao: Versoes, conteudo: Conteudos, homologada: Nat \ {0}]

Init ==
    /\ historia = [k \in Chaves |-> {}]
    /\ vigor = [k \in Chaves |-> {}]

Ultima(x, h) == \A y \in h : y.homologada <= x.homologada

\* A history h grows to g, and its force passes from f to w.
Acrescenta(h, g, f, w) ==
    /\ h \subseteq g
    /\ \A x, y \in g : x.versao = y.versao => x = y
    /\ w = f \/ \E x \in g \ h : w = {x.versao}
    /\ g # {} => \E x \in g : Ultima(x, g) /\ w = {x.versao}

Publicar ==
    /\ historia' \in [Chaves -> SUBSET Publicacao]
    /\ vigor' \in [Chaves -> SUBSET Versoes]
    /\ \A k \in Chaves : Acrescenta(historia[k], historia'[k], vigor[k], vigor'[k])

Spec == Init /\ [][Publicar]_<<historia, vigor>>
=============================================================================
