------------------------------- MODULE Painel -------------------------------
(***************************************************************************)
(* The dashboard: its layout with the session, the list of users, which is *)
(* asked for again every thirty seconds, the conversations, whose requests *)
(* alone announce a 401, and the form in steps that registers a user.      *)
(* Nothing is on the screen until the API was found to answer.             *)
(***************************************************************************)
EXTENDS Portais, Consultas

VARIABLES
    rota,         \* "login", "inicio", "usuarios", "novo", "whatsapp"
    listas,       \* the cache entries of the users and of the conversations
    opcoes,       \* the cached sectors: "sem", "pedidas", "lidas", "nenhuma"
    credOpcoes,   \* the token their request was sent with
    passo, form,  \* the step of the form, and whether each part of it is filled in
    cadastros,    \* the server: users registered here
    vooPainel,    \* registrations in flight
    meu,          \* the registration this form waits for, 0 for none
    enviados      \* registrations sent

formVars == <<passo, form, meu>>
painelVars == <<rota, listas, opcoes, credOpcoes, formVars, cadastros, vooPainel, enviados>>

FormVazio == [dados |-> FALSE, role |-> "", setor |-> FALSE, conta |-> FALSE]

InitPainel ==
    /\ rota = "login"
    /\ listas = [k \in {"usuarios", "whatsapp"} |-> Vazia]
    /\ opcoes = "sem" /\ credOpcoes = 0
    /\ passo = 0 /\ form = FormVazio /\ meu = 0
    /\ cadastros = {} /\ vooPainel = {} /\ enviados = 0

NaTela(r) == saude = "ok" /\ rota = r

-----------------------------------------------------------------------------
(***************************************************************************)
(* The screens.                                                            *)
(***************************************************************************)

\* beforeLoad of /dashboard.
Rota(r, t) == IF t = 0 THEN "login" ELSE r

\* A screen is mounted: a list, unless it is fresh, is asked for, and so are the
\* sectors if there are none; the form of the users starts empty.
Ir(r, t, L) ==
    /\ rota' = Rota(r, t)
    /\ IF rota' \in DOMAIN L
       THEN \E velha \in BOOLEAN : listas' = [L EXCEPT ![rota'] = Montar(@, t, velha)]
       ELSE listas' = L
    /\ IF rota' = "novo" /\ opcoes = "sem"
       THEN opcoes' = "pedidas" /\ credOpcoes' = t
       ELSE UNCHANGED <<opcoes, credOpcoes>>
    /\ passo' = 0 /\ form' = FormVazio /\ meu' = 0

Clicar(r) ==
    /\ saude = "ok" /\ rota \notin {"login", r} /\ r \in cenario.telas
    /\ Ir(r, token, listas)
    /\ UNCHANGED <<portaisVars, cadastros, vooPainel, enviados>>

SairDoPainel ==
    /\ saude = "ok" /\ rota # "login"
    /\ Esquecer /\ Ir("login", 0, listas)
    /\ UNCHANGED <<cenario, saudeVars, cadastros, vooPainel, enviados>>

LoginPainel ==
    \/ NaTela("login") /\ Entrar /\ UNCHANGED <<cenario, saudeVars, painelVars>>
    \/ Entrou /\ Ir("inicio", logins', listas) /\ UNCHANGED <<cenario, saudeVars, cadastros, vooPainel, enviados>>
    \/ (NaoEntrou \/ Vencer) /\ UNCHANGED <<cenario, saudeVars, painelVars>>

SaudePainel ==
    /\ TentarNovamente \/ \E r \in {"ok", "unavailable"} : RespostaSaude(r)
    /\ UNCHANGED <<cenario, contaVars, painelVars>>

-----------------------------------------------------------------------------
(***************************************************************************)
(* The registration of a user.                                             *)
(***************************************************************************)
TotalSteps(f) == IF f.role = "PRODUTOR" THEN 3 ELSE 2

UltimoPasso == passo = TotalSteps(form) - 1

\* validate: what step s asks for.
Valido(s, f) ==
    CASE s = 0 -> f.dados
      [] s = 1 -> f.role # "" /\ (f.role = "PRODUTOR" => f.setor)
      [] OTHER -> f.conta

\* The fields of the step on the screen are filled in, or emptied; the sector can be
\* chosen when there are sectors to choose from, and is kept by another profile.
Editar(f) ==
    /\ NaTela("novo") /\ form' = f
    /\ UNCHANGED <<portaisVars, rota, listas, opcoes, credOpcoes, passo, meu, cadastros, vooPainel, enviados>>

EditarDados == passo = 0 /\ Editar([form EXCEPT !.dados = ~@])

EscolherPerfil(r) == passo = 1 /\ Editar([form EXCEPT !.role = r])

EscolherSetor ==
    /\ passo = 1 /\ form.role = "PRODUTOR" /\ (form.setor \/ opcoes = "lidas")
    /\ Editar([form EXCEPT !.setor = ~@])

EditarConta == passo = 2 /\ Editar([form EXCEPT !.conta = ~@])

Passar(s) ==
    /\ NaTela("novo") /\ passo' = s
    /\ UNCHANGED <<portaisVars, rota, listas, opcoes, credOpcoes, form, meu, cadastros, vooPainel, enviados>>

\* Mutant: "Próximo" goes on whatever the step says.
ProximoSemValidar == ~UltimoPasso /\ Passar(passo + 1)

Proximo == ~UltimoPasso /\ Valido(passo, form) /\ Passar(passo + 1)

Anterior == passo # 0 /\ Passar(passo - 1)

\* submit: the last step alone is looked at; what the profile does not ask for is left
\* out of the payload.
Cadastrar ==
    /\ NaTela("novo") /\ UltimoPasso /\ Valido(passo, form) /\ meu = 0
    /\ enviados < cenario.envios /\ enviados' = enviados + 1
    /\ meu' = enviados + 1
    /\ vooPainel' = vooPainel \cup {[n |-> enviados + 1, cred |-> token, form |-> form]}
    /\ UNCHANGED <<portaisVars, rota, listas, opcoes, credOpcoes, passo, form, cadastros>>

-----------------------------------------------------------------------------
(***************************************************************************)
(* The answers.                                                            *)
(***************************************************************************)

\* onSuccess, whatever became of the form: the users are marked, and listed.
Cadastrado(p) ==
    /\ Autorizado(p.cred)
    /\ cadastros' = cadastros \cup {p.n}
    /\ vooPainel' = vooPainel \ {p}
    /\ LET L == [listas EXCEPT !["usuarios"] = Invalidar(@, rota = "usuarios", token)]
       IN  IF rota = "usuarios" THEN listas' = L /\ UNCHANGED <<rota, opcoes, credOpcoes, formVars>>
                                ELSE Ir("usuarios", token, L)
    /\ UNCHANGED <<portaisVars, enviados>>

\* Refused, also for want of a session: this screen announces no 401; or lost on the
\* way, or on the way back.
NaoCadastrado(p) ==
    /\ (Autorizado(p.cred) /\ cadastros' = cadastros \cup {p.n}) \/ UNCHANGED cadastros
    /\ vooPainel' = vooPainel \ {p}
    /\ meu' = IF meu = p.n THEN 0 ELSE meu
    /\ UNCHANGED <<portaisVars, rota, listas, opcoes, credOpcoes, passo, form, enviados>>

\* The sectors: any answer but a good one is kept as no sector at all; a failure of
\* the network is not kept.
RespostaOpcoes ==
    /\ opcoes = "pedidas"
    /\ \/ Autorizado(credOpcoes) /\ opcoes' = "lidas"
       \/ opcoes' \in {"nenhuma", "sem"}
    /\ UNCHANGED <<portaisVars, rota, listas, credOpcoes, formVars, cadastros, vooPainel, enviados>>

NoServidor(k) == IF k = "usuarios" THEN cadastros ELSE {}

NaLista(k, c) ==
    /\ listas' = [listas EXCEPT ![k] = c]
    /\ UNCHANGED <<cenario, saudeVars, opcoes, credOpcoes, cadastros, vooPainel, enviados>>

LerLista(k) ==
    /\ Buscando(listas[k]) /\ ~Lida(listas[k]) /\ Autorizado(listas[k].busca.cred)
    /\ NaLista(k, Ler(listas[k], NoServidor(k)))
    /\ UNCHANGED <<contaVars, rota, formVars>>

ReceberLista(k) ==
    /\ Lida(listas[k])
    /\ NaLista(k, Receber(listas[k]))
    /\ UNCHANGED <<contaVars, rota, formVars>>

DesistirLista(k) ==
    /\ Buscando(listas[k])
    /\ NaLista(k, Desistir(listas[k]))
    /\ UNCHANGED <<contaVars, rota, formVars>>

\* The client of the conversations fires "auth:unauthorized"; the layout, when it is
\* mounted, forgets the session.
SemSessaoLista ==
    LET c == listas["whatsapp"] IN
    /\ Buscando(c) /\ ~Lida(c) /\ ~Autorizado(c.busca.cred)
    /\ IF rota = "login" THEN NaLista("whatsapp", Desistir(c)) /\ UNCHANGED <<contaVars, rota, formVars>>
       ELSE /\ Esquecer /\ Ir("login", 0, [listas EXCEPT !["whatsapp"] = Desistir(c)])
            /\ UNCHANGED <<cenario, saudeVars, cadastros, vooPainel, enviados>>

\* Mutant: the list is not asked for again while it is shown.
SemIntervalo == FALSE

\* refetchInterval of the list on the screen.
Intervalo ==
    /\ saude = "ok" /\ rota \in DOMAIN listas /\ ~Buscando(listas[rota])
    /\ NaLista(rota, Refazer(listas[rota], token))
    /\ UNCHANGED <<contaVars, rota, formVars>>

CliquePainel ==
    \/ SaudePainel \/ LoginPainel \/ SairDoPainel
    \/ \E r \in {"inicio", "usuarios", "novo", "whatsapp"} : Clicar(r)
    \/ EditarDados \/ EscolherSetor \/ EditarConta \/ Proximo \/ Anterior \/ Cadastrar
    \/ \E r \in {"PRODUTOR", "OPERADOR"} : EscolherPerfil(r)

RedePainel ==
    \/ \E p \in vooPainel : Cadastrado(p) \/ NaoCadastrado(p)
    \/ RespostaOpcoes \/ SemSessaoLista \/ Intervalo
    \/ \E k \in DOMAIN listas : LerLista(k) \/ ReceberLista(k) \/ DesistirLista(k)

NextPainel == CliquePainel \/ RedePainel
=============================================================================
