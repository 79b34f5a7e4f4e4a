------------------------------- MODULE TelaOS -------------------------------
(***************************************************************************)
(* The page of an order (/app/os/$osId): the order, its items and its time *)
(* sheets read through the query cache, and the buttons and forms that     *)
(* change them at the server.  Requests outlive the page that sent them.   *)
(***************************************************************************)
EXTENDS Sessao, Consultas

VARIABLES
    ordem,          \* the server's order: status, items, time sheets
    consultasOS,    \* the cache entries the page reads
    formOS,         \* the local state of the page and of its forms
    vooOS,          \* writes sent and not answered
    vistos          \* history: additions answered to a page that had its list

osVars == <<ordem, consultasOS, formOS, vooOS, vistos>>

ChavesOS == {"os", "itens", "apts"}

EDITAVEIS == {"ABERTA", "EM_EXECUCAO", "AGUARDANDO_PECA"}

TRANSICOES(st) ==
    CASE st = "ABERTA"          -> {"EM_EXECUCAO", "AGUARDANDO_PECA"}
      [] st = "EM_EXECUCAO"     -> {"AGUARDANDO_PECA"}
      [] st = "AGUARDANDO_PECA" -> {"EM_EXECUCAO"}
      [] OTHER                  -> {}

\* The page as it is mounted: an empty item form, no dialog, no mutation of its own
\* in flight ("suas"; "caixa" are those of the open dialog).
FormInicial == [tipo |-> "PECA", item |-> "vazio", dialogo |-> FALSE, caixa |-> {},
                aba |-> "realizados", suas |-> {}]

InitOS ==
    /\ ordem = [status |-> "ABERTA", itens |-> {}, apts |-> {}]
    /\ consultasOS = [k \in ChavesOS |-> Vazia]
    /\ formOS = FormInicial
    /\ vooOS = {} /\ vistos = {}

NoServidor(k) == CASE k = "os" -> ordem.status [] k = "itens" -> ordem.itens [] OTHER -> ordem.apts

-----------------------------------------------------------------------------
(***************************************************************************)
(* What the page shows and lets the user do.                               *)
(***************************************************************************)
StatusLido == consultasOS["os"].dado

PaginaAberta == tela = "os" /\ StatusLido # SemDado

Editavel == PaginaAberta /\ StatusLido \in EDITAVEIS

\* isPending of a mutation of the page.
Pendente(op) == \E p \in vooOS : p.op = op /\ p.n \in formOS.suas

ItensLidos == IF consultasOS["itens"].dado = SemDado THEN {} ELSE consultasOS["itens"].dado

AptsLidos == IF consultasOS["apts"].dado = SemDado THEN {} ELSE consultasOS["apts"].dado

PodeSalvar == Editavel /\ formOS.item = "pronto" /\ ~Pendente("item")

\* The item form: a click on the kind empties it; a part is picked from the
\* products found, which the form can list only when the answer is a plain list;
\* a service is described; "Trocar" gives the part back.
EscolherTipo(t) ==
    /\ Editavel /\ Usa("item")
    /\ formOS' = [formOS EXCEPT !.tipo = t, !.item = "vazio"]
    /\ UNCHANGED <<ordem, consultasOS, vooOS, vistos, envios>>

EscolherProduto ==
    /\ Editavel /\ Usa("item") /\ formOS.tipo = "PECA" /\ formOS.item = "vazio"
    /\ "lista" \in Formas
    /\ formOS' = [formOS EXCEPT !.item = "pronto"]
    /\ UNCHANGED <<ordem, consultasOS, vooOS, vistos, envios>>

DescreverServico ==
    /\ Editavel /\ formOS.tipo = "SERVICO" /\ formOS.item = "vazio"
    /\ formOS' = [formOS EXCEPT !.item = "pronto"]
    /\ UNCHANGED <<ordem, consultasOS, vooOS, vistos, envios>>

TrocarProduto ==
    /\ Editavel /\ formOS.tipo = "PECA" /\ formOS.item = "pronto"
    /\ formOS' = [formOS EXCEPT !.item = "vazio"]
    /\ UNCHANGED <<ordem, consultasOS, vooOS, vistos, envios>>

\* A button sends a write.
Mandar(op, arg) ==
    /\ Usa(op) /\ Contar
    /\ vooOS' = vooOS \cup {Pedido(op, arg)}
    /\ formOS' = [formOS EXCEPT !.suas = @ \cup {envios + 1},
                               !.caixa = IF op = "fechar" THEN @ \cup {envios + 1} ELSE @]
    /\ UNCHANGED <<ordem, consultasOS, vistos>>

Adicionar == PodeSalvar /\ Mandar("item", 0)

RemoverItem(i) == Editavel /\ i \in ItensLidos /\ Mandar("remover", i)

MudarStatus(st) ==
    Editavel /\ st \in TRANSICOES(StatusLido) /\ ~Pendente("status") /\ Mandar("status", st)

CancelarOS == Editavel /\ ~Pendente("cancelar") /\ Mandar("cancelar", 0)

\* The closing dialog: a fresh one every time it is opened, with a mutation of its own.
AbrirDialogo ==
    /\ Editavel /\ Usa("fechar") /\ ~formOS.dialogo /\ ~Pendente("status") /\ ~Pendente("cancelar")
    /\ formOS' = [formOS EXCEPT !.dialogo = TRUE]
    /\ UNCHANGED <<ordem, consultasOS, vooOS, vistos, envios>>

FecharDialogo ==
    /\ PaginaAberta /\ formOS.dialogo
    /\ formOS' = [formOS EXCEPT !.dialogo = FALSE, !.caixa = {}]
    /\ UNCHANGED <<ordem, consultasOS, vooOS, vistos, envios>>

ConfirmarFechamento ==
    /\ PaginaAberta /\ formOS.dialogo
    /\ \A p \in vooOS : p.n \notin formOS.caixa
    /\ Mandar("fechar", 0)

\* The time sheets: two tabs, whatever the status of the order.
TrocarAba(a) ==
    /\ PaginaAberta /\ Usa("apt") /\ formOS.aba # a
    /\ formOS' = [formOS EXCEPT !.aba = a]
    /\ UNCHANGED <<ordem, consultasOS, vooOS, vistos, envios>>

Lancar == PaginaAberta /\ formOS.aba = "lancar" /\ ~Pendente("apt") /\ Mandar("apt", 0)

RemoverApt(a) ==
    /\ PaginaAberta /\ formOS.aba = "realizados" /\ a \in AptsLidos
    /\ ~Pendente("removerApt")
    /\ Mandar("removerApt", a)

-----------------------------------------------------------------------------
(***************************************************************************)
(* The server, as one step of each write: the rules of the orders module.  *)
(***************************************************************************)
Aceita(p) ==
    CASE p.op = "status"                            -> p.arg \in TRANSICOES(ordem.status)
      [] p.op \in {"item", "fechar", "cancelar"}    -> ordem.status \in EDITAVEIS
      [] p.op = "remover"                           -> ordem.status \in EDITAVEIS /\ p.arg \in ordem.itens
      [] p.op = "removerApt"                        -> p.arg \in ordem.apts
      [] OTHER                                      -> TRUE

\* The row of a removed item stays: its delete is never awaited.
Efeito(p) ==
    CASE p.op = "status"     -> [ordem EXCEPT !.status = p.arg]
      [] p.op = "fechar"     -> [ordem EXCEPT !.status = "FECHADA"]
      [] p.op = "cancelar"   -> [ordem EXCEPT !.status = "CANCELADA"]
      [] p.op = "item"       -> [ordem EXCEPT !.itens = @ \cup {p.n}]
      [] p.op = "apt"        -> [ordem EXCEPT !.apts = @ \cup {p.n}]
      [] p.op = "removerApt" -> [ordem EXCEPT !.apts = @ \ {p.arg}]
      [] OTHER               -> ordem

ListaDe(p) == IF p.op \in {"apt", "removerApt"} THEN "apts" ELSE "itens"

\* Mutant: only the order is read anew.
SoAOrdem(p) == IF p.op \in {"apt", "removerApt"} THEN {"apts"} ELSE {"os"}

\* The entries onSuccess invalidates: "invalidar" of the page, or the time sheets.
Invalidadas(p) == IF p.op \in {"apt", "removerApt"} THEN {"apts"} ELSE {"os", "itens"}

InvalidarOS(K) ==
    [k \in ChavesOS |-> IF k \in K THEN Invalidar(consultasOS[k], tela = "os", token)
                                   ELSE consultasOS[k]]

\* An answer frees the button that sent it.
Soltar(p) == [formOS EXCEPT !.suas = @ \ {p.n}, !.caixa = @ \ {p.n}]

\* onSuccess on the page that sent it: the item form is emptied, the dialog closed
\* (also one opened since), the time sheets go back to the list.
FormApos(p) ==
    LET f == Soltar(p) IN
    IF p.n \notin formOS.suas THEN f
    ELSE CASE p.op = "item"   -> [f EXCEPT !.item = "vazio"]
           [] p.op = "fechar" -> [f EXCEPT !.dialogo = FALSE, !.caixa = {}]
           [] p.op = "apt"    -> [f EXCEPT !.aba = "realizados"]
           [] OTHER           -> f

RespostaOS(p) ==
    /\ Autorizado(p.cred) /\ Aceita(p)
    /\ ordem' = Efeito(p)
    /\ vooOS' = vooOS \ {p}
    /\ consultasOS' = InvalidarOS(Invalidadas(p))
    /\ formOS' = FormApos(p)
    /\ vistos' = IF /\ p.op \in {"item", "apt"} /\ tela = "os"
                    /\ consultasOS[ListaDe(p)].dado # SemDado
                 THEN vistos \cup {p.n} ELSE vistos
    /\ UNCHANGED <<token, destino>>

\* Refused, also for want of stock; done, but the answer is lost; the session is over.
RecusaOS(p) ==
    /\ vooOS' = vooOS \ {p}
    /\ formOS' = Soltar(p)
    /\ UNCHANGED <<ordem, consultasOS, vistos, token, destino>>

PerdidaOS(p) ==
    /\ Autorizado(p.cred) /\ Aceita(p)
    /\ ordem' = Efeito(p)
    /\ vooOS' = vooOS \ {p}
    /\ formOS' = Soltar(p)
    /\ UNCHANGED <<consultasOS, vistos, token, destino>>

SemSessaoOS(p) ==
    /\ ~Autorizado(p.cred)
    /\ vooOS' = vooOS \ {p}
    /\ formOS' = Soltar(p)
    /\ NaoAutorizado
    /\ UNCHANGED <<ordem, consultasOS, vistos>>

\* The reads: the server answers with what it holds, the answer lands, or the
\* query fails; the window regains focus and an old entry is read anew.
LerOS(k) ==
    /\ Buscando(consultasOS[k]) /\ ~Lida(consultasOS[k])
    /\ IF Autorizado(consultasOS[k].busca.cred)
       THEN /\ consultasOS' = [consultasOS EXCEPT ![k] = Ler(@, NoServidor(k))]
            /\ UNCHANGED <<token, destino>>
       ELSE /\ consultasOS' = [consultasOS EXCEPT ![k] = Desistir(@)]
            /\ NaoAutorizado
    /\ UNCHANGED <<ordem, formOS, vooOS, vistos>>

ReceberOS(k) ==
    /\ Lida(consultasOS[k])
    /\ consultasOS' = [consultasOS EXCEPT ![k] = Receber(@)]
    /\ UNCHANGED <<ordem, formOS, vooOS, vistos, token, destino>>

DesistirOS(k) ==
    /\ k \in roteiro.chaves /\ Buscando(consultasOS[k])
    /\ consultasOS' = [consultasOS EXCEPT ![k] = Desistir(@)]
    /\ UNCHANGED <<ordem, formOS, vooOS, vistos, token, destino>>

FocarOS(k) ==
    /\ k \in roteiro.chaves /\ tela = "os" /\ ~Buscando(consultasOS[k])
    /\ consultasOS' = [consultasOS EXCEPT ![k] = Refazer(@, token)]
    /\ UNCHANGED <<ordem, formOS, vooOS, vistos, token, destino>>

\* The page is mounted anew, or left: its requests go on without it.
MontarOS(t) ==
    /\ formOS' = FormInicial
    /\ IF t = "os"
       THEN \E velha \in BOOLEAN :
                consultasOS' = [k \in ChavesOS |-> Montar(consultasOS[k], token, velha)]
       ELSE UNCHANGED consultasOS
    /\ UNCHANGED <<ordem, vooOS, vistos>>

CliqueOS ==
    \/ \E t \in {"PECA", "SERVICO"} : EscolherTipo(t)
    \/ EscolherProduto \/ DescreverServico \/ TrocarProduto \/ Adicionar
    \/ \E i \in ItensLidos : RemoverItem(i)
    \/ \E st \in EDITAVEIS : MudarStatus(st)
    \/ CancelarOS \/ AbrirDialogo \/ FecharDialogo \/ ConfirmarFechamento
    \/ \E a \in {"realizados", "lancar"} : TrocarAba(a)
    \/ Lancar
    \/ \E a \in AptsLidos : RemoverApt(a)

RedeOS ==
    \/ \E p \in vooOS : RespostaOS(p) \/ RecusaOS(p) \/ PerdidaOS(p) \/ SemSessaoOS(p)
    \/ \E k \in ChavesOS : LerOS(k) \/ ReceberOS(k) \/ DesistirOS(k) \/ FocarOS(k)
=============================================================================
