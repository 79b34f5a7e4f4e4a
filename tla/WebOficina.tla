----------------------------- MODULE WebOficina -----------------------------
(***************************************************************************)
(* The workshop's application in one tab: the session, the page of an      *)
(* order, the review of a note with its forms and the list of products.    *)
(* One screen is mounted at a time; what it sent is answered wherever the  *)
(* user is.                                                                *)
(***************************************************************************)
EXTENDS TelaOS, FichasRevisao, Produtos

telasVars == <<osVars, revVars, ficVars, prodVars>>

vars == <<sessaoVars, telasVars>>

Init == InitSessao /\ InitOS /\ InitRev /\ InitFichas /\ InitProdutos

\* The router shows another screen: the old one is unmounted with its local state.
Trocar ==
    Transicao /\ MontarOS(tela') /\ MontarRev(tela') /\ MontarProd(tela') /\ Acompanhar

\* Of the session, a click moves the counter of writes and the route, an answer the
\* token and the route.
Resto == <<roteiro, tela, logins, vencidas, entrando, resumo>>

Next ==
    \/ NextSessao /\ UNCHANGED telasVars
    \/ Trocar
    \/ CliqueOS /\ UNCHANGED <<Resto, token, destino, revVars, ficVars, prodVars>>
    \/ RedeOS /\ UNCHANGED <<Resto, envios, revVars, ficVars, prodVars>>
    \/ CliqueRev /\ UNCHANGED <<Resto, token, osVars, prodVars>> /\ Acompanhar
    \/ RedeRev /\ UNCHANGED <<Resto, osVars, prodVars>> /\ Acompanhar
    \/ CliqueFic /\ UNCHANGED <<Resto, token, destino, osVars, revVars, prodVars>>
    \/ RedeFic /\ UNCHANGED <<Resto, envios, osVars, revVars, prodVars>>
    \/ CliqueProd /\ UNCHANGED <<Resto, token, destino, osVars, revVars, ficVars>>
    \/ RedeProd /\ UNCHANGED <<Resto, osVars, revVars, ficVars>>

\* The router and the timer run; the network answers the home screen again and again.
Fairness == /\ WF_vars(Trocar)
            /\ WF_vars(Intervalo /\ UNCHANGED telasVars)
            /\ SF_vars(RespostaResumo /\ UNCHANGED telasVars)

Spec == Init /\ [][Next]_vars /\ Fairness

-----------------------------------------------------------------------------
Rotas == {"login", "inicio", "os", "revisao", "entradas", "estoque"}

Creds == 0 .. logins

Consulta(V) == [dado : V \cup {SemDado}, invalida : BOOLEAN,
                busca : [cred : Creds, lido : V \cup {SemDado}, viva : BOOLEAN]]

Status == EDITAVEIS \cup {"FECHADA", "CANCELADA"}

PedidosDe(ops, args) == [n : 1 .. envios, cred : Creds, op : ops, arg : args]

TypeSessao ==
    /\ tela \in Rotas /\ destino \in Rotas
    /\ logins \in 0 .. roteiro.logins /\ token \in 0 .. logins /\ vencidas \subseteq 1 .. logins
    /\ entrando \in BOOLEAN
    /\ resumo \in [viva : BOOLEAN, cred : Creds]
    /\ envios \in 0 .. roteiro.envios

\* An item or a time sheet is known by the write that made it; of the writes of the
\* page in flight, those of the closing dialog are closings.
TypeTelaOS ==
    /\ ordem \in [status : Status, itens : SUBSET (1 .. envios), apts : SUBSET (1 .. envios)]
    /\ consultasOS["os"] \in Consulta(Status)
    /\ \A k \in {"itens", "apts"} : consultasOS[k] \in Consulta(SUBSET (1 .. envios))
    /\ formOS \in [tipo : {"PECA", "SERVICO"}, item : {"vazio", "pronto"}, dialogo : BOOLEAN,
                   caixa : SUBSET formOS.suas, aba : {"realizados", "lancar"},
                   suas : SUBSET {p.n : p \in vooOS}]
    /\ \A p \in vooOS : p.n \in 1 .. envios /\ (p.n \in formOS.caixa => p.op = "fechar")
    /\ vistos \subseteq ordem.itens \cup ordem.apts \cup 1 .. envios

Rascunho == [status : {"PENDENTE", "CONFIRMADA", "CANCELADA"},
             linha : [Linhas -> {"PENDENTE", "AUTO_VINCULADO", "VINCULADO", "NOVO"}]]

\* The step waits only for a loop of its own page, one of whose writes is in flight.
TypeRev ==
    /\ rasc \in Rascunho
    /\ consultaRev \in Consulta(Rascunho)
    /\ formRev \in [passo : {"fornecedor", "produtos", "erro"}, laco : 0 .. envios,
                    suas : SUBSET (1 .. envios)]
    /\ formRev.laco # 0 => /\ formRev.laco \in formRev.suas
                           /\ \E p \in vooRev : p.op = "criar" /\ p.arg.laco = formRev.laco
    /\ \A p \in vooRev : p.n \in 1 .. envios

\* A form holds something of its record only while it is mounted.
TypeFichas ==
    /\ fornecedor \in {"inteiro", "apagado"}
    /\ painel.linha \in Fichas /\ painel.suas \subseteq {p.n : p \in vooFic}
    /\ painel # PainelFechado => NoPassoProdutos
    /\ ficha.campos \in {"vazio", "inteiro", "apagado"} /\ ficha.espera \in 0 .. envios
    /\ ficha # FichaVazia => Montada # {}
    /\ \A f \in Fichas : consultasFic[f] \in Consulta({"inteiro", "apagado"})
    /\ \A p \in vooFic : p.n \in 1 .. envios /\ p.arg.ficha \in Fichas

Valores == (0 .. Iniciais + envios) \X (0 .. aberturas)

\* A form is open on its screen only, and waits for a write in flight.
TypeProdutos ==
    /\ ativos \subseteq 1 .. Iniciais + envios
    /\ \A k \in Paginas : consultasProd[k] \in
           Consulta([itens : SUBSET (1 .. Iniciais + envios), paginas : 1 .. 1 + Iniciais + envios])
    /\ telaProd.page \in Paginas /\ telaProd.suas \subseteq 1 .. envios
    /\ \A q \in DOMAIN fichas :
           /\ fichas[q].n \in 0 .. aberturas /\ fichas[q].texto \in Valores /\ fichas[q].marca \in Valores
           /\ fichas[q].n # 0 => tela = "estoque"
           /\ fichas[q].espera # 0 => \E p \in vooProd : p.n = fichas[q].espera
    /\ \A p \in vooProd : p.n \in 1 .. envios

TypeOk == TypeSessao /\ TypeTelaOS /\ TypeRev /\ TypeFichas /\ TypeProdutos

-----------------------------------------------------------------------------
\* "Concluir" loops over the lines pending in a cached, possibly old draft, and may
\* run twice at once, beside a colleague, or after its page is gone: when the
\* confirmation is sent, no line of the draft is pending at the server.
ConfirmaSemPendente ==
    \A p \in vooRev : p.op = "confirmar" => Pendentes(rasc) = {}

\* An item or a time sheet whose addition was answered to a page that had its list
\* is in the list that page shows, or the list is still marked to be read anew: no
\* answer that left the server before the addition takes its place.
LeituraPropria ==
    \A k \in {"itens", "apts"} : \A n \in vistos \cap NoServidor(k) :
        consultasOS[k].invalida \/ n \in consultasOS[k].dado

\* A brand registered in the form of one product is chosen when the brands were read
\* anew, by when that form may be closed and another one open: no form shows, and no
\* write sends, for a product what was typed, chosen or registered for another.
FichaDoProduto ==
    LET proprios(f) == {<<f.produto, 0>>, <<f.produto, f.n>>}
        abertas == {fichas[q] : q \in DOMAIN fichas}
        enviadas == {p.arg : p \in {v \in vooProd : v.op \in {"novo", "salvar"}}}
    IN  \A f \in abertas \cup enviadas : f.texto \in proprios(f) /\ f.marca \in proprios(f)

\* The first step of the review is shown without its supplier when the supplier could
\* not be read, and an update sends its empty fields; the server then erases what they
\* named.  Nothing else erases: while the network answers, neither a form filled in
\* late, nor one reopened, nor an expired session sends an empty form, and the form of
\* a product never does.
CadastroPreservado ==
    /\ \A p \in vooFic : p.arg.ficha # 0 => p.arg.campos = "inteiro"
    /\ "ficha" \notin roteiro.chaves => fornecedor = "inteiro"

\* On the home screen a token the server no longer takes is noticed: the figures are
\* asked for again and again, and a 401 leads to the login.
VencidaSai ==
    (tela = "inicio" /\ token \in vencidas) ~> (tela # "inicio" \/ token \notin vencidas)
=============================================================================
