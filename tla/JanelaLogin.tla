---------------------------- MODULE JanelaLogin -----------------------------
(***************************************************************************)
(* The brake on failed logins (shared/seguranca.py, JanelaDeslizante and   *)
(* AuthRateLimitMiddleware), for one origin and identity in one process.   *)
(* The middleware runs on the event loop: what it does before and after    *)
(* call_next is atomic, and every attempt that passed the question is in   *)
(* flight at the same time, its failure not yet counted.                   *)
(***************************************************************************)
EXTENDS Integers, Sequences, FiniteSets

CONSTANTS
    Tentativas,     \* attempts, each of which may come again
    Limite,         \* limite
    Janela,         \* janela_segundos, in instants
    MaxInstanteLogin \* bound: instants of the clock

ASSUME JanelaAssumption ==
    /\ IsFiniteSet(Tentativas) /\ Tentativas # {}
    /\ Limite \in Nat \ {0}
    /\ Janela \in Nat /\ MaxInstanteLogin \in Nat

VARIABLES
    relogioLogin,  \* time.monotonic
    eventos,       \* self._eventos[chave]
    tentativa,     \* what each attempt is doing
    falhou         \* history: instants of the failures since the last success

loginVars == <<relogioLogin, eventos, tentativa, falhou>>

InstantesLogin == 0..MaxInstanteLogin

\* Type invariant: the queue of the key is in order of time.
TypeOKLogin ==
    /\ relogioLogin \in InstantesLogin
    /\ eventos \in Seq(InstantesLogin)
    /\ \A i, j \in DOMAIN eventos : i < j => eventos[i] <= eventos[j]
    /\ tentativa \in [Tentativas -> {"livre", "em_voo", "recusada"}]
    /\ falhou \in Seq(InstantesLogin)

InitLogin ==
    /\ relogioLogin = 0
    /\ eventos = <<>>
    /\ tentativa = [t \in Tentativas |-> "livre"]
    /\ falhou = <<>>

-----------------------------------------------------------------------------

\* Within the window that ends at an instant: the bound is strict in the code,
\* so a failure exactly one window old still counts.
NaJanela(i, agora) == i >= agora - Janela

\* _expirar: popleft while the first is older than the window.
Vencidos(fila, agora) ==
    CHOOSE n \in 0..Len(fila) :
        /\ \A i \in 1..n : ~NaJanela(fila[i], agora)
        /\ n < Len(fila) => NaJanela(fila[n + 1], agora)
SemVencidos(fila, agora) == SubSeq(fila, Vencidos(fila, agora) + 1, Len(fila))
Expirar(fila) == SemVencidos(fila, relogioLogin)

\* Mutant: the attempt that fills the window is not stopped.
CheiaDepois(n) == n > Limite

Cheia(n) == n >= Limite

\* bloqueado prunes the queue; a blocked attempt is answered 429.
Passar(t) ==
    /\ tentativa[t] = "livre"
    /\ ~Cheia(Len(Expirar(eventos)))
    /\ eventos' = Expirar(eventos)
    /\ tentativa' = [tentativa EXCEPT ![t] = "em_voo"]
    /\ UNCHANGED <<relogioLogin, falhou>>

Bloquear(t) ==
    /\ tentativa[t] = "livre"
    /\ Cheia(Len(Expirar(eventos)))
    /\ eventos' = Expirar(eventos)
    /\ tentativa' = [tentativa EXCEPT ![t] = "recusada"]
    /\ UNCHANGED <<relogioLogin, falhou>>

\* 400, 401, 403 or 422: registrar.
Registrar(t) ==
    /\ tentativa[t] = "em_voo"
    /\ eventos' = Append(Expirar(eventos), relogioLogin)
    /\ falhou' = Append(falhou, relogioLogin)
    /\ tentativa' = [tentativa EXCEPT ![t] = "livre"]
    /\ UNCHANGED relogioLogin

\* 200: limpar.  Any other status counts nothing.
Acertar200(t) ==
    /\ tentativa[t] = "em_voo"
    /\ eventos' = <<>>
    /\ falhou' = <<>>
    /\ tentativa' = [tentativa EXCEPT ![t] = "livre"]
    /\ UNCHANGED relogioLogin

OutraResposta(t) ==
    /\ tentativa[t] \in {"em_voo", "recusada"}
    /\ tentativa' = [tentativa EXCEPT ![t] = "livre"]
    /\ UNCHANGED <<relogioLogin, eventos, falhou>>

\* The history forgets what is older than the window that ends now.
PassarInstante ==
    /\ relogioLogin < MaxInstanteLogin
    /\ relogioLogin' = relogioLogin + 1
    /\ falhou' = SemVencidos(falhou, relogioLogin + 1)
    /\ UNCHANGED <<eventos, tentativa>>

NextLogin ==
    \/ \E t \in Tentativas : \/ Passar(t) \/ Bloquear(t) \/ Registrar(t)
                             \/ Acertar200(t) \/ OutraResposta(t)
    \/ PassarInstante

SpecLogin == InitLogin /\ [][NextLogin]_loginVars

-----------------------------------------------------------------------------
(* Properties *)

\* However many attempts are in flight when the limit is reached, no window of
\* janela_segundos without a success holds more failures than the limit and
\* the attempts that were already past the question.
FreioConcorrente == Len(falhou) <= Limite + Cardinality(Tentativas) - 1

=============================================================================
