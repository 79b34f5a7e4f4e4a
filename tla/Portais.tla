------------------------------- MODULE Portais -------------------------------
(***************************************************************************)
(* What the portal and the dashboard share: the check of the API they     *)
(* start with (useApiHealth), the token kept in sessionStorage and the     *)
(* form that gets one.                                                     *)
(***************************************************************************)
EXTENDS Naturals, FiniteSets

CONSTANT Cenarios      \* bounds: the application of an instance, and how much is done

\* The clicks on "Tentar novamente", the logins, the sessions that expire, the pages of
\* the portal mounted that load, the writes of each application, the screens opened (the
\* public page, those of the dashboard's menu) and the units of the producer.
ASSUME PortaisAssumption ==
    \A c \in Cenarios : /\ c.app \in {"portal", "painel"}
                        /\ c.tentativas \in Nat /\ c.logins \in Nat /\ c.vencem \subseteq Nat
                        /\ c.montagens \in Nat /\ c.envios \in Nat
                        /\ c.telas \subseteq {"produto", "inicio", "usuarios", "novo", "whatsapp"}

VARIABLES
    cenario,      \* the bounds of this behaviour
    saude,        \* "checking", "ok", "unavailable"
    conferindo,   \* a request of the check is in flight
    tentativas,   \* retries so far
    token,        \* the session whose token is stored, 0 for none
    logins,       \* sessions opened so far
    vencidas,     \* sessions whose token the server no longer takes
    entrando      \* the login form waits for its answer

contaVars == <<token, logins, vencidas, entrando>>
saudeVars == <<saude, conferindo, tentativas>>
portaisVars == <<cenario, saudeVars, contaVars>>

InitPortais ==
    /\ cenario \in Cenarios
    /\ saude = "checking" /\ conferindo = TRUE /\ tentativas = 0
    /\ token = 0 /\ logins = 0 /\ vencidas = {} /\ entrando = FALSE

\* The effect of the hook: the status goes back to "checking" and the API is asked.
Conferir == saude' = "checking" /\ conferindo' = TRUE

\* Mutant: the retry changes the status and asks nothing.
TentarSemConferir ==
    /\ saude = "unavailable" /\ tentativas < cenario.tentativas
    /\ tentativas' = tentativas + 1
    /\ saude' = "checking" /\ UNCHANGED conferindo

\* retry changes "tick", and the effect runs again.
TentarNovamente ==
    /\ saude = "unavailable" /\ tentativas < cenario.tentativas
    /\ tentativas' = tentativas + 1
    /\ Conferir

\* The API answers well or not, or the five seconds pass.
RespostaSaude(r) ==
    /\ conferindo
    /\ saude' = r /\ conferindo' = FALSE
    /\ UNCHANGED tentativas

\* The login forms.
Entrar ==
    /\ ~entrando /\ logins < cenario.logins
    /\ entrando' = TRUE
    /\ UNCHANGED <<token, logins, vencidas>>

Entrou ==
    /\ entrando
    /\ entrando' = FALSE
    /\ logins' = logins + 1 /\ token' = logins + 1
    /\ UNCHANGED vencidas

NaoEntrou == entrando /\ entrando' = FALSE /\ UNCHANGED <<token, logins, vencidas>>

\* The server stops taking the token.
Vencer ==
    /\ token \in cenario.vencem \ (vencidas \cup {0})
    /\ vencidas' = vencidas \cup {token}
    /\ UNCHANGED <<token, logins, entrando>>

\* The stored token is taken away: "Sair", or a 401.
Esquecer == token' = 0 /\ UNCHANGED <<logins, vencidas, entrando>>

Autorizado(cred) == cred # 0 /\ cred \notin vencidas
=============================================================================
