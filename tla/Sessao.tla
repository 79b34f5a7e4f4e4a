------------------------------- MODULE Sessao -------------------------------
(***************************************************************************)
(* The session of one browser tab of apps/oficinas: the token kept in      *)
(* sessionStorage, the screens under /app and /login, the HTTP client that *)
(* sends the token and announces a 401, and the home screen that asks for  *)
(* its figures every minute.                                               *)
(***************************************************************************)
EXTENDS Naturals, FiniteSets

CONSTANTS Roteiros,    \* bounds: what the user of an instance visits, and how much
          Formas       \* what GET /produtos may answer: "lista", "pagina"

\* The screens of the menu that are clicked, the sessions opened in the tab, how many
\* writes the screens send, which kinds, the cache entries whose reads may fail or be
\* repeated, the forms opened, and what the lines of the note may be at first.
ASSUME RoteirosAssumption ==
    \A r \in Roteiros : /\ r.telas \subseteq {"inicio", "os", "revisao", "entradas", "estoque"}
                        /\ r.logins \in Nat /\ r.envios \in Nat /\ r.fichas \in Nat
                        /\ r.linhas \subseteq {"PENDENTE", "AUTO_VINCULADO"}

VARIABLES
    roteiro,    \* the bounds of this behaviour
    tela,       \* the route on the screen
    destino,    \* the route asked for by navigate, shown by the next transition
    token,      \* the session whose token is stored, 0 for none
    logins,     \* sessions opened so far
    vencidas,   \* sessions whose token the server no longer takes
    entrando,   \* the login form waits for its answer
    resumo,     \* the figures of the home screen: [viva, cred] of the request
    envios      \* writes sent so far, which number the requests

sessaoVars == <<roteiro, tela, destino, token, logins, vencidas, entrando, resumo, envios>>

SemPedido == [viva |-> FALSE, cred |-> 0]

InitSessao ==
    /\ roteiro \in Roteiros
    /\ tela = "login" /\ destino = "login"
    /\ token = 0 /\ logins = 0 /\ vencidas = {}
    /\ entrando = FALSE
    /\ resumo = SemPedido
    /\ envios = 0

\* What the server makes of a request sent with the token of a session.
Autorizado(cred) == cred # 0 /\ cred \notin vencidas

\* Mutant: a 401 is thrown to the caller only.
NaoAutorizadoCalado == UNCHANGED <<token, destino>>

\* A 401 reached the tab: request fires "auth:unauthorized", and the layout of
\* /app, when it is mounted, forgets the session, whichever it is by now.
NaoAutorizado ==
    IF tela = "login" THEN UNCHANGED <<token, destino>>
                      ELSE token' = 0 /\ destino' = "login"

\* handleSubmit of the login form, and its three ends.
Entrar ==
    /\ tela = "login" /\ destino = "login" /\ ~entrando /\ logins < roteiro.logins
    /\ entrando' = TRUE
    /\ UNCHANGED <<roteiro, tela, destino, token, logins, vencidas, resumo, envios>>

Entrou ==
    /\ entrando
    /\ entrando' = FALSE
    /\ logins' = logins + 1 /\ token' = logins + 1
    /\ destino' = "inicio"
    /\ UNCHANGED <<roteiro, tela, vencidas, resumo, envios>>

NaoEntrou ==
    /\ entrando
    /\ entrando' = FALSE
    /\ UNCHANGED <<roteiro, tela, destino, token, logins, vencidas, resumo, envios>>

\* The menu of the layout, and its "Sair".
Clicar(t) ==
    /\ tela # "login" /\ t # tela
    /\ destino' = t
    /\ UNCHANGED <<roteiro, tela, token, logins, vencidas, entrando, resumo, envios>>

Sair ==
    /\ "sair" \in roteiro.ops /\ tela # "login" /\ token # 0
    /\ token' = 0 /\ destino' = "login"
    /\ UNCHANGED <<roteiro, tela, logins, vencidas, entrando, resumo, envios>>

\* The server stops taking the token.
Vencer ==
    /\ "vencer" \in roteiro.ops /\ token \notin vencidas \cup {0}
    /\ vencidas' = vencidas \cup {token}
    /\ UNCHANGED <<roteiro, tela, destino, token, logins, entrando, resumo, envios>>

\* beforeLoad of /app: without a token the route is /login.
Rota(t) == IF t # "login" /\ token = 0 THEN "login" ELSE t

\* The router shows the route asked for.  The home screen asks for its figures.
Transicao ==
    /\ destino # tela
    /\ tela' = Rota(destino) /\ destino' = Rota(destino)
    /\ resumo' = IF tela' = "inicio" /\ ~resumo.viva THEN [viva |-> TRUE, cred |-> token] ELSE resumo
    /\ UNCHANGED <<roteiro, token, logins, vencidas, entrando, envios>>

\* refetchInterval of the home screen; the answer; a failure of the network.
Intervalo ==
    /\ tela = "inicio" /\ ~resumo.viva
    /\ resumo' = [viva |-> TRUE, cred |-> token]
    /\ UNCHANGED <<roteiro, tela, destino, token, logins, vencidas, entrando, envios>>

RespostaResumo ==
    /\ resumo.viva
    /\ resumo' = SemPedido
    /\ IF Autorizado(resumo.cred) THEN UNCHANGED <<token, destino>> ELSE NaoAutorizado
    /\ UNCHANGED <<roteiro, tela, logins, vencidas, entrando, envios>>

FalhaResumo ==
    /\ resumo.viva
    /\ resumo' = SemPedido
    /\ UNCHANGED <<roteiro, tela, destino, token, logins, vencidas, entrando, envios>>

NextSessao ==
    \/ Entrar \/ Entrou \/ NaoEntrou \/ Sair \/ Vencer
    \/ Intervalo \/ RespostaResumo \/ FalhaResumo
    \/ \E t \in roteiro.telas : Clicar(t)

\* The n-th write of the screens leaves the tab; the HTTP client gives it the token
\* stored at that moment.
Pedido(op, arg) == [n |-> envios + 1, cred |-> token, op |-> op, arg |-> arg]

Contar == envios < roteiro.envios /\ envios' = envios + 1

Usa(op) == op \in roteiro.ops
=============================================================================
