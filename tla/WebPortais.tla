----------------------------- MODULE WebPortais -----------------------------
(***************************************************************************)
(* One tab with one of the two applications that share the session and the *)
(* check of the API: the producer's portal or the dashboard.               *)
(***************************************************************************)
EXTENDS Portal, Painel

vars == <<portaisVars, portalVars, painelVars>>

Init == InitPortais /\ InitPortal /\ InitPainel

NoPortal(A) == cenario.app = "portal" /\ A /\ UNCHANGED painelVars

NoPainel(A) == cenario.app = "painel" /\ A /\ UNCHANGED portalVars

Next == NoPortal(NextPortal) \/ NoPainel(NextPainel)

\* Every request is answered or fails, the timer of a list on the screen runs, and
\* the network lets a list asked for again and again through.
Fairness ==
    /\ WF_vars(NoPortal(RedePortal))
    /\ WF_vars(NoPainel(SaudePainel /\ conferindo))
    /\ WF_vars(NoPainel(Intervalo))
    /\ SF_vars(NoPainel(LerLista("usuarios")))
    /\ SF_vars(NoPainel(ReceberLista("usuarios")))

Spec == Init /\ [][Next]_vars /\ Fairness

-----------------------------------------------------------------------------
Registro == [n : 1 .. posts, unidade : Unidades, conta : 1 .. logins]

TypeConta ==
    /\ saude \in {"checking", "ok", "unavailable"} /\ conferindo = (saude = "checking")
    /\ tentativas \in 0 .. cenario.tentativas
    /\ logins \in 0 .. cenario.logins /\ token \in 0 .. logins /\ vencidas \subseteq 1 .. logins
    /\ entrando \in BOOLEAN

\* A card that is not on the screen has no state, and no two wait for one write.
TypePortal ==
    /\ pagina \in {"inicio", "area", "produto"} /\ recarga \in {"", "inicio", "produto"}
    /\ montagens \in 0 .. cenario.montagens /\ posts \in 0 .. cenario.envios
    /\ area.n \in 0 .. montagens /\ area.sessao \in 0 .. logins /\ produto.n \in 0 .. montagens
    /\ area.n # 0 => produto.n = 0 /\ pagina = "area"
    /\ area.form.enviado \in 0 .. posts
    /\ \A u \in Unidades : u \notin Ativas(area) => area.cartoes[u] = CartaoVazio
    /\ \A u \in Unidades : area.cartoes[u].gerando # 0 =>
           \E p \in vooPortal : p.montagem = area.n /\ p.n = area.cartoes[u].gerando
    /\ acervo.atividades \subseteq Registro /\ acervo.lotes \subseteq Registro
    /\ acervo.abertas \subseteq {<<a.conta, a.unidade>> : a \in acervo.atividades}

\* The third step is the producer's; the list shows what the server has.
TypePainel ==
    /\ rota \in {"login", "inicio", "usuarios", "novo", "whatsapp"} /\ (rota # "login" => token # 0)
    /\ passo \in 0 .. 2 /\ (passo = 2 => form.role = "PRODUTOR")
    /\ form \in [dados : BOOLEAN, role : {"", "PRODUTOR", "OPERADOR"}, setor : BOOLEAN, conta : BOOLEAN]
    /\ opcoes \in {"sem", "pedidas", "lidas", "nenhuma"} /\ credOpcoes \in 0 .. logins
    /\ enviados \in 0 .. cenario.envios /\ cadastros \subseteq 1 .. enviados
    /\ meu # 0 => \E p \in vooPainel : p.n = meu
    /\ listas["usuarios"].dado = SemDado \/ listas["usuarios"].dado \subseteq cadastros

TypeOk == TypeConta /\ TypePortal /\ TypePainel

-----------------------------------------------------------------------------
\* Requests of an account are not cancelled when it leaves and another one logs in in
\* the same tab: the area shows nothing of a session that was over when it was mounted,
\* and only what is of the open session, when that is the one it was mounted with (a
\* login answered while the area is on the screen leaves it there with what it has).
DadosDaSessao ==
    area.n # 0 /\ area.dados["lotes"] # SemDados =>
        \A r \in area.dados["atividades"] \cup area.dados["lotes"] :
            /\ r.conta >= area.sessao
            /\ token # 0 /\ token = area.sessao => r.conta = token

\* Every wait of the portal ends, whichever of the requests behind it fails: the
\* skeletons of the area and of the public page, and the button that closes a harvest.
EsperasTerminam ==
    /\ (area.n # 0 /\ Carregando) ~> ~(area.n # 0 /\ Carregando)
    /\ (produto.n # 0 /\ produto.estado = "carregando") ~> (produto.n = 0 \/ produto.estado # "carregando")
    /\ (\E u \in Unidades : area.cartoes[u].gerando # 0) ~> (\A u \in Unidades : area.cartoes[u].gerando = 0)

\* "Tentar novamente" asks again: the skeleton of the start is never the last thing
\* the dashboard or the portal shows.
TentarVolta == (saude = "checking") ~> (saude # "checking")

\* The steps of the form are looked at one by one, when they are left, and can be gone
\* back to: what is sent would pass every step the profile has.
EnviadoValido ==
    \A p \in vooPainel : \A s \in 0 .. TotalSteps(p.form) - 1 : Valido(s, p.form)

ListaEmDia == listas["usuarios"].dado # SemDado /\ cadastros \subseteq listas["usuarios"].dado

\* A list asked for before a registration may land after it and take its mark away:
\* while the list is shown, the user registered still gets into it.
CadastroAparece ==
    (NaTela("usuarios") /\ token \notin vencidas /\ ~ListaEmDia)
        ~> (ListaEmDia \/ ~NaTela("usuarios") \/ token \in vencidas)
=============================================================================
