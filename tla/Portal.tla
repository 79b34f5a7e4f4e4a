------------------------------- MODULE Portal -------------------------------
(***************************************************************************)
(* The producer's portal: the home page with its login, the producer's    *)
(* area, which keeps in local state what it loads, registers activities    *)
(* and closes harvests into lots with a QR code, and the public page of a  *)
(* lot.  No request is cancelled: its answer lands in the page that sent   *)
(* it, if it is still mounted, and the code after the await runs anyway.   *)
(***************************************************************************)
EXTENDS Portais

CONSTANTS
    Unidades, SemUnidade,
    SemDados                  \* nothing loaded; also: not yet read by the server

ASSUME PortalAssumption ==
    SemUnidade \notin Unidades /\ \A c \in Cenarios : c.unidades \subseteq Unidades

VARIABLES
    pagina,      \* "inicio", "area", "produto"
    recarga,     \* the full load asked for by location or by a link, "" for none
    montagens,   \* pages mounted so far that load something
    area,        \* the local state of the producer's area
    produto,     \* the local state of the public page
    acervo,      \* the server: activities and lots, and the open cycles
    vooPortal,   \* requests in flight
    posts        \* writes sent

portalVars == <<pagina, recarga, montagens, area, produto, acervo, vooPortal, posts>>

Partes == {"resumo", "atividades", "lotes"}

NadaLido == [k \in Partes |-> SemDados]

FormFechado == [aberto |-> FALSE, unidade |-> SemUnidade, enviado |-> 0]

CartaoVazio == [declarado |-> FALSE, gerando |-> 0, novo |-> 0]

\* The area of mount n, with the session of then: the account with its units, the
\* loads, what they brought, the activity form and the card of each unit, with the
\* write each waits for, 0 for none.
AreaNova(n, t) == [n |-> n, sessao |-> t, conta |-> "pedida", carga |-> "pedida", dados |-> NadaLido,
                   form |-> FormFechado, cartoes |-> [u \in Unidades |-> CartaoVazio]]

SemArea == AreaNova(0, 0)

ProdutoNovo(n) == [n |-> n, estado |-> "carregando"]

\* A request of the page of a mount; n is the write it is, or follows, 0 for none.
Pedido(op, montagem, n, u, t) == [op |-> op, montagem |-> montagem, n |-> n, unidade |-> u,
                                  cred |-> t, lidos |-> NadaLido]

\* loadAtividades: three reads awaited together, at the mount or after a write.
Carga(montagem, n, u, t) == Pedido("carga", montagem, n, u, t)

InitPortal ==
    /\ pagina = "inicio" /\ recarga = "" /\ montagens = 0
    /\ area = SemArea /\ produto = ProdutoNovo(0)
    /\ acervo = [atividades |-> {}, lotes |-> {}, abertas |-> {}]
    /\ vooPortal = {} /\ posts = 0

-----------------------------------------------------------------------------
(***************************************************************************)
(* The pages.                                                              *)
(***************************************************************************)
Visivel(pg) == pagina = pg /\ saude # "unavailable"

\* A page takes the place of the one on the screen, whose requests go on; voo are
\* those still in flight.  t is the token its requests are sent with.
Mostrar(pg, voo, t) ==
    LET n == montagens + 1 IN
    /\ pagina' = pg
    /\ IF pg = "inicio"
       THEN /\ vooPortal' = voo
            /\ UNCHANGED montagens
       ELSE /\ montagens < cenario.montagens /\ montagens' = n
            /\ vooPortal' = voo \cup
                    (IF pg = "produto" THEN {Pedido("produto", n, 0, SemUnidade, t)}
                     ELSE {Pedido("conta", n, 0, SemUnidade, t), Carga(n, 0, SemUnidade, t)})
    /\ area' = IF pg = "area" THEN AreaNova(n, t) ELSE SemArea
    /\ produto' = ProdutoNovo(IF pg = "produto" THEN n ELSE 0)

IrPara(pg, t) == Mostrar(pg, vooPortal, t) /\ UNCHANGED <<recarga, acervo, posts>>

\* A page that is not there: the outlet shows the notice instead.
Desmontar ==
    /\ area' = SemArea /\ produto' = ProdutoNovo(0)
    /\ UNCHANGED <<pagina, recarga, montagens, acervo, vooPortal, posts>>

Disponivel ==
    /\ \/ RespostaSaude("ok") /\ UNCHANGED portalVars
       \/ RespostaSaude("unavailable") /\ Desmontar
    /\ UNCHANGED <<cenario, contaVars>>

TentarPortal == TentarNovamente /\ IrPara(pagina, token) /\ UNCHANGED <<cenario, contaVars>>

\* The code typed in, on the home page or in the area, leads to the lot's page.
Rastrear ==
    /\ "produto" \in cenario.telas /\ (Visivel("inicio") \/ Visivel("area"))
    /\ IrPara("produto", token) /\ UNCHANGED portaisVars

\* The browser goes back or forward: to the area only with a token.
Voltar ==
    /\ \/ (Visivel("produto") \/ Visivel("area")) /\ IrPara("inicio", token)
       \/ (Visivel("produto") \/ Visivel("inicio")) /\ token # 0 /\ IrPara("area", token)
    /\ UNCHANGED portaisVars

\* The account and the load are awaited together, the first failure ends the wait.
Carregada == area.conta = "lida" /\ area.carga = "lida"

Carregando == ~Carregada /\ area.conta # "falhou" /\ area.carga # "falhou"

UnidadesLidas == IF Carregada THEN cenario.unidades ELSE {}

\* The units with a card: those with activities or lots in the last load.
Ativas(a) ==
    IF a.conta = "lida" /\ a.carga = "lida"
    THEN a.dados["resumo"] \cup {l.unidade : l \in a.dados["lotes"]} ELSE {}

\* Mutant: the cards are kept by index, whatever the load brings.
CartoesMantidos(a) == a

\* A card whose unit is not there is unmounted, and its state with it.
ComCartoes(a) ==
    [a EXCEPT !.cartoes = [u \in Unidades |-> IF u \in Ativas(a) THEN @[u] ELSE CartaoVazio]]

\* The link to a lot's report loads the whole application anew.
VerRelatorio(u) ==
    /\ Visivel("area") /\ recarga = "" /\ u \in Ativas(area)
    /\ area.cartoes[u].novo # 0 \/ \E l \in area.dados["lotes"] : l.unidade = u
    /\ recarga' = "produto"
    /\ UNCHANGED <<portaisVars, pagina, montagens, area, produto, acervo, vooPortal, posts>>

Recarregar ==
    /\ recarga # ""
    /\ Mostrar(recarga, {}, token)
    /\ recarga' = "" /\ entrando' = FALSE
    /\ Conferir
    /\ UNCHANGED <<cenario, tentativas, token, logins, vencidas, acervo, posts>>

\* Where the answer of a login leads.  The form sent it from the home page and waits
\* for it wherever the browser is by then: an area on the screen is the route asked
\* for and stays as it is, and behind the notice nothing is mounted.
ParaArea ==
    IF Visivel("area") THEN UNCHANGED portalVars
    ELSE IF saude = "unavailable"
    THEN /\ pagina' = "area"
         /\ UNCHANGED <<recarga, montagens, area, produto, acervo, vooPortal, posts>>
    ELSE IrPara("area", token')

LoginPortal ==
    \/ Visivel("inicio") /\ Entrar /\ UNCHANGED <<cenario, saudeVars, portalVars>>
    \/ Entrou /\ ParaArea /\ UNCHANGED <<cenario, saudeVars>>
    \/ (NaoEntrou \/ Vencer) /\ UNCHANGED <<cenario, saudeVars, portalVars>>

SairDoPortal == Visivel("area") /\ Esquecer /\ IrPara("inicio", 0) /\ UNCHANGED <<cenario, saudeVars>>

-----------------------------------------------------------------------------
(***************************************************************************)
(* The producer's area.                                                    *)
(***************************************************************************)
NaArea(a) == area' = a /\ UNCHANGED <<portaisVars, pagina, recarga, montagens, produto, acervo>>

\* "+ Nova atividade": the form starts at the first unit, when there is one already.
AbrirForm ==
    /\ Visivel("area") /\ ~area.form.aberto
    /\ \E u \in UnidadesLidas \cup {SemUnidade} :
          /\ u = SemUnidade <=> UnidadesLidas = {}
          /\ NaArea([area EXCEPT !.form = [aberto |-> TRUE, unidade |-> u, enviado |-> 0]])
    /\ UNCHANGED <<vooPortal, posts>>

EscolherUnidade(u) ==
    /\ Visivel("area") /\ area.form.aberto /\ u \in UnidadesLidas
    /\ NaArea([area EXCEPT !.form.unidade = u])
    /\ UNCHANGED <<vooPortal, posts>>

CancelarForm ==
    /\ Visivel("area") /\ area.form.aberto
    /\ NaArea([area EXCEPT !.form = FormFechado])
    /\ UNCHANGED <<vooPortal, posts>>

Mandar(op, u) ==
    /\ posts < cenario.envios /\ posts' = posts + 1
    /\ vooPortal' = vooPortal \cup {Pedido(op, area.n, posts + 1, u, token)}

\* handleSubmit.
Registrar ==
    /\ Visivel("area") /\ area.form.unidade # SemUnidade /\ area.form.enviado = 0
    /\ Mandar("atividade", area.form.unidade)
    /\ NaArea([area EXCEPT !.form.enviado = posts + 1])

\* The declaration of the engineer, and handleGenerate.
Declarar(u) ==
    /\ Visivel("area") /\ u \in Ativas(area)
    /\ NaArea([area EXCEPT !.cartoes[u].declarado = ~@])
    /\ UNCHANGED <<vooPortal, posts>>

Gerar(u) ==
    /\ Visivel("area") /\ area.cartoes[u].declarado /\ area.cartoes[u].gerando = 0
    /\ Mandar("lote", u)
    /\ NaArea([area EXCEPT !.cartoes[u].gerando = posts + 1])

-----------------------------------------------------------------------------
(***************************************************************************)
(* The answers.                                                            *)
(***************************************************************************)

\* Mutant: what a load brings is kept outside the page.
DeQualquerArea(p) == area.n # 0

\* The page that sent the request is still mounted.
DaArea(p) == p.montagem = area.n

\* The form, or the card, stops waiting for the write it sent.
Soltar(p, a) ==
    IF p.n = 0 THEN a
    ELSE [a EXCEPT !.form.enviado = IF @ = p.n THEN 0 ELSE @,
                   !.cartoes = [u \in Unidades |-> IF @[u].gerando = p.n
                                                  THEN [@[u] EXCEPT !.gerando = 0] ELSE @[u]]]

\* Mutant: handleGenerate frees its button only when all went well.
AposErroSemFinally(p) ==
    IF ~DaArea(p) THEN area
    ELSE CASE p.op = "conta"            -> [area EXCEPT !.conta = "falhou"]
           [] p.op = "carga" /\ p.n = 0 -> [area EXCEPT !.carga = "falhou"]
           [] OTHER                     -> area

\* What a failure does to the page: the wait of the mount ends, or the one of the form
\* or of the card.
AposErro(p) ==
    IF ~DaArea(p) THEN area
    ELSE CASE p.op = "conta"            -> [area EXCEPT !.conta = "falhou"]
           [] p.op = "carga" /\ p.n = 0 -> [area EXCEPT !.carga = "falhou"]
           [] OTHER                     -> Soltar(p, area)

ContaLida(p) ==
    /\ p.op = "conta" /\ Autorizado(p.cred)
    /\ area' = IF DaArea(p) THEN ComCartoes([area EXCEPT !.conta = "lida"]) ELSE area
    /\ vooPortal' = vooPortal \ {p}
    /\ UNCHANGED <<portaisVars, pagina, recarga, montagens, produto, acervo, posts>>

\* What the three reads of an account return.
LidoPor(k, conta) ==
    LET minhas == {a \in acervo.atividades : a.conta = conta} IN
    CASE k = "resumo"     -> {a.unidade : a \in minhas}
      [] k = "atividades" -> minhas
      [] OTHER            -> {l \in acervo.lotes : l.conta = conta}

LerParte(p, k) ==
    /\ p.op = "carga" /\ p.lidos[k] = SemDados /\ Autorizado(p.cred)
    /\ vooPortal' = (vooPortal \ {p}) \cup {[p EXCEPT !.lidos[k] = LidoPor(k, p.cred)]}
    /\ UNCHANGED <<portaisVars, pagina, recarga, montagens, area, produto, acervo, posts>>

Chegou(p) ==
    /\ p.op = "carga" /\ \A k \in Partes : p.lidos[k] # SemDados
    /\ LET a == [area EXCEPT !.dados = p.lidos, !.carga = IF p.n = 0 THEN "lida" ELSE @]
       IN  area' = IF DaArea(p) THEN Soltar(p, ComCartoes(a)) ELSE area
    /\ vooPortal' = vooPortal \ {p}
    /\ UNCHANGED <<portaisVars, pagina, recarga, montagens, produto, acervo, posts>>

\* The server takes a write: an activity goes to the open cycle of its unit; the open
\* cycles of a unit become a lot.
Feito(p) ==
    LET registro == {[n |-> p.n, unidade |-> p.unidade, conta |-> p.cred]}
        ciclo == {<<p.cred, p.unidade>>}
    IN  /\ p.op \in {"atividade", "lote"} /\ Autorizado(p.cred)
        /\ IF p.op = "atividade"
           THEN acervo' = [acervo EXCEPT !.atividades = @ \cup registro, !.abertas = @ \cup ciclo]
           ELSE /\ ciclo \subseteq acervo.abertas
                /\ acervo' = [acervo EXCEPT !.lotes = @ \cup registro, !.abertas = @ \ ciclo]

\* onCreated closes the form, whichever is open by now; the card shows its lot.  Then
\* the lists are loaded anew, also for a page that is gone.
ComNovo(p) ==
    IF p.op = "atividade" THEN [area EXCEPT !.form = FormFechado]
    ELSE IF area.cartoes[p.unidade].gerando # p.n THEN area
    ELSE [area EXCEPT !.cartoes[p.unidade] = [@ EXCEPT !.novo = p.n, !.declarado = FALSE]]

Gravado(p) ==
    /\ Feito(p)
    /\ area' = IF DaArea(p) THEN ComNovo(p) ELSE area
    /\ vooPortal' = (vooPortal \ {p}) \cup {Carga(p.montagem, p.n, p.unidade, token)}
    /\ UNCHANGED <<portaisVars, pagina, recarga, montagens, produto, posts>>

\* The effect of the page is mounted for one lot, so no other answer is its own.
ProdutoLido(p) ==
    /\ p.op = "produto"
    /\ \E e \in {"mostra", "erro"} :
          produto' = IF p.montagem = produto.n THEN [produto EXCEPT !.estado = e] ELSE produto
    /\ vooPortal' = vooPortal \ {p}
    /\ UNCHANGED <<portaisVars, pagina, recarga, montagens, area, acervo, posts>>

\* Refused, or lost on the way, or on the way back.
Falhou(p) ==
    /\ p.op # "produto"
    /\ Feito(p) \/ UNCHANGED acervo
    /\ area' = AposErro(p)
    /\ vooPortal' = vooPortal \ {p}
    /\ UNCHANGED <<portaisVars, pagina, recarga, montagens, produto, posts>>

\* A 401: the token is taken away, whichever it is by now, and "/" is loaded.
SemSessao(p) ==
    /\ p.op # "produto" /\ ~Autorizado(p.cred)
    /\ Esquecer
    /\ recarga' = "inicio"
    /\ area' = AposErro(p)
    /\ vooPortal' = vooPortal \ {p}
    /\ UNCHANGED <<cenario, saudeVars, pagina, montagens, produto, acervo, posts>>

CliquePortal ==
    \/ TentarPortal \/ Rastrear \/ Voltar \/ LoginPortal \/ SairDoPortal
    \/ AbrirForm \/ CancelarForm \/ Registrar
    \/ \E u \in Unidades : EscolherUnidade(u) \/ Declarar(u) \/ Gerar(u) \/ VerRelatorio(u)

RedePortal ==
    \/ Disponivel
    \/ \E p \in vooPortal : \/ ContaLida(p) \/ Chegou(p) \/ Gravado(p)
                            \/ ProdutoLido(p) \/ Falhou(p) \/ SemSessao(p)
                            \/ \E k \in Partes : LerParte(p, k)

NextPortal == CliquePortal \/ RedePortal \/ Recarregar
=============================================================================
