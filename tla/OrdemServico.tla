---------------------------- MODULE OrdemServico ----------------------------
(***************************************************************************)
(* Service orders (OS): the handlers of OrdensServicoService, each split   *)
(* at the statements it sends to the database.                             *)
(*                                                                         *)
(*   SELECT ordem_servico ; [SELECT item_os] ; registrar_movimentacao* ;   *)
(*   COMMIT                                                                *)
(*                                                                         *)
(* Status and totals are written at the commit from what the first SELECT  *)
(* returned.  All unit prices are 1: a subtotal is a quantity.             *)
(***************************************************************************)
EXTENDS Estoque, Functions

CONSTANTS
    OSs,        \* service order ids
    Operacoes   \* the endpoints that receive requests in this instance

VARIABLES
    os,         \* ordem_servico.status, Livre before the row exists
    itens,      \* item_os rows, Livre when the id is unused
    total,      \* total_pecas, total_servicos and total_final of each OS
    historico   \* rows of historico_veiculo written for each OS

osVars == <<os, itens, total, historico>>
varsOS == <<estoqueVars, osVars>>

StatusOS == {"ABERTA", "EM_EXECUCAO", "AGUARDANDO_PECA", "FECHADA", "CANCELADA"}
Editaveis == {"ABERTA", "EM_EXECUCAO", "AGUARDANDO_PECA"}
TipoItem == {"PECA", "SERVICO"}
Colunas == TipoItem \cup {"FINAL"}

ASSUME OrdemServicoAssumption == OSs \subseteq Refs /\ Livre \notin StatusOS

Transicoes(st) ==
    CASE st = "ABERTA" -> {"EM_EXECUCAO", "AGUARDANDO_PECA"}
      [] st = "EM_EXECUCAO" -> {"AGUARDANDO_PECA"}
      [] st = "AGUARDANDO_PECA" -> {"EM_EXECUCAO"}
      [] OTHER -> {}

ItemOS == [os : OSs, tipo : TipoItem, prod : Produtos, qtd : Quantidades]
Totais == [Colunas -> Int]

\* What a handler keeps of its request and of the OS row it read.
PedidoItem == [op : {"adicionar", "remover"}, os : OSs, item : Itens,
               linha : ItemOS, lidos : Totais]
PedidoStatus == [op : {"status"}, os : OSs, novo : Editaveis]
PedidoFim == [op : {"fechar", "cancelar"}, os : OSs]
PedidoOS == PedidoItem \cup PedidoStatus \cup PedidoFim

ASSUME PedidoOSAssumption == Livre \notin ItemOS \cup PedidoOS

InitOS ==
    /\ os = [o \in OSs |-> Livre]
    /\ itens = [i \in Itens |-> Livre]
    /\ total = [o \in OSs |-> [c \in Colunas |-> 0]]
    /\ historico = [o \in OSs |-> 0]

Mov(i, prod, tipo, qtd) == [item |-> i, prod |-> prod, tipos |-> {tipo}, qtd |-> qtd]

\* total_<tipo> moves by d and total_final is recomputed, from the values read.
GravarTotais(o, lidos, tipo, d) ==
    [total EXCEPT ![o] =
        [c \in Colunas |->
            GravarColuna(@[c], lidos[c],
                CASE c = tipo -> lidos[c] + d
                  [] c = "FINAL" -> lidos["PECA"] + lidos["SERVICO"] + d
                  [] OTHER -> lidos[c])]]

(***************************************************************************)
(* Requests.  Each guard is the first check of the handler; a request that *)
(* fails it is answered with an error and changes nothing.                 *)
(***************************************************************************)

\* abrir: one INSERT, no earlier read.
Abrir(o) ==
    /\ "abrir" \in Operacoes
    /\ os[o] = Livre
    /\ iniciados < MaxPedidos
    /\ iniciados' = iniciados + 1
    /\ os' = [os EXCEPT ![o] = "ABERTA"]
    /\ UNCHANGED <<banco, memoria, pedido, fase, fila, itens, total, historico>>

\* An id no row has and no open session is about to use (uuid4).
IdNovo(i) == /\ itens[i] = Livre
             /\ \A t \in Sessoes : pedido[t] # Livre /\ pedido[t].op = "adicionar"
                                      => pedido[t].item # i

AdicionarItem(s, o, i, linha) ==
    /\ "adicionar" \in Operacoes
    /\ os[o] \in Editaveis
    /\ IdNovo(i)
    /\ linha.os = o
    /\ Iniciar(s,
         [op |-> "adicionar", os |-> o, item |-> i, linha |-> linha, lidos |-> total[o]],
         "movendo",
         IF linha.tipo = "PECA" THEN {Mov(i, linha.prod, "RESERVA", linha.qtd)} ELSE {})
    /\ UNCHANGED osVars

\* The item row is immutable, so reading it with the OS row loses nothing.
RemoverItem(s, o, i) ==
    /\ "remover" \in Operacoes
    /\ os[o] \in Editaveis
    /\ itens[i] # Livre
    /\ itens[i].os = o
    /\ Iniciar(s,
         [op |-> "remover", os |-> o, item |-> i, linha |-> itens[i], lidos |-> total[o]],
         "movendo",
         IF itens[i].tipo = "PECA"
         THEN {Mov(i, itens[i].prod, "LIBERACAO", itens[i].qtd)} ELSE {})
    /\ UNCHANGED osVars

AtualizarStatus(s, o, novo) ==
    /\ "status" \in Operacoes
    /\ novo \in Transicoes(os[o])
    /\ Iniciar(s, [op |-> "status", os |-> o, novo |-> novo], "movendo", {})
    /\ UNCHANGED osVars

Fechar(s, o) ==
    /\ "fechar" \in Operacoes
    /\ os[o] \in Editaveis
    /\ Iniciar(s, [op |-> "fechar", os |-> o], "itens", {})
    /\ UNCHANGED osVars

\* Mutant: cancelar refuses only orders that are already cancelled.
CancelarFechada(s, o) ==
    /\ "cancelar" \in Operacoes
    /\ os[o] \notin {Livre, "CANCELADA"}
    /\ Iniciar(s, [op |-> "cancelar", os |-> o], "itens", {})
    /\ UNCHANGED osVars

\* Mutant: the order is cancelled and its parts stay reserved.
CancelarSemLiberar(s, o) ==
    /\ "cancelar" \in Operacoes
    /\ os[o] \in Editaveis
    /\ Iniciar(s, [op |-> "cancelar", os |-> o], "movendo", {})
    /\ UNCHANGED osVars

Cancelar(s, o) ==
    /\ "cancelar" \in Operacoes
    /\ os[o] \in Editaveis
    /\ Iniciar(s, [op |-> "cancelar", os |-> o], "itens", {})
    /\ UNCHANGED osVars

\* _carregar_itens: the second SELECT of fechar and cancelar, which sees what
\* has been committed since the first one.
CarregarItens(s) ==
    LET p == pedido[s]
        tipo == IF p.op = "fechar" THEN "SAIDA" ELSE "LIBERACAO"
        pecas == {i \in Itens : itens[i] # Livre /\ itens[i].os = p.os
                                                 /\ itens[i].tipo = "PECA"}
    IN  /\ fase[s] = "itens"
        /\ p # Livre /\ p.op \in {"fechar", "cancelar"}
        /\ fila' = [fila EXCEPT ![s] =
                       {Mov(i, itens[i].prod, tipo, itens[i].qtd) : i \in pecas}]
        /\ fase' = [fase EXCEPT ![s] = "movendo"]
        /\ UNCHANGED <<banco, memoria, pedido, iniciados, osVars>>

(***************************************************************************)
(* Commits.                                                                *)
(***************************************************************************)
ConcluirAdicionar(s) ==
    LET p == pedido[s] IN
    /\ p # Livre /\ p.op = "adicionar"
    /\ Gravar(s, p.os)
    /\ itens' = [itens EXCEPT ![p.item] = p.linha]
    /\ total' = GravarTotais(p.os, p.lidos, p.linha.tipo, p.linha.qtd)
    /\ UNCHANGED <<os, historico>>

\* The item_os row stays: AsyncSession.delete is a coroutine, and the handler
\* never awaits it.
ConcluirRemover(s) ==
    LET p == pedido[s] IN
    /\ p # Livre /\ p.op = "remover"
    /\ Gravar(s, p.os)
    /\ total' = GravarTotais(p.os, p.lidos, p.linha.tipo, -p.linha.qtd)
    /\ UNCHANGED <<os, itens, historico>>

ConcluirStatus(s) ==
    LET p == pedido[s] IN
    /\ p # Livre /\ p.op = "status"
    /\ Gravar(s, p.os)
    /\ os' = [os EXCEPT ![p.os] = p.novo]
    /\ UNCHANGED <<itens, total, historico>>

\* Mutant: the order is closed without a record for the vehicle.
FecharSemHistorico(s) ==
    LET p == pedido[s] IN
    /\ p # Livre /\ p.op = "fechar"
    /\ Gravar(s, p.os)
    /\ os' = [os EXCEPT ![p.os] = "FECHADA"]
    /\ UNCHANGED <<itens, total, historico>>

ConcluirFechar(s) ==
    LET p == pedido[s] IN
    /\ p # Livre /\ p.op = "fechar"
    /\ Gravar(s, p.os)
    /\ os' = [os EXCEPT ![p.os] = "FECHADA"]
    /\ historico' = [historico EXCEPT ![p.os] = @ + 1]
    /\ UNCHANGED <<itens, total>>

ConcluirCancelar(s) ==
    LET p == pedido[s] IN
    /\ p # Livre /\ p.op = "cancelar"
    /\ Gravar(s, p.os)
    /\ os' = [os EXCEPT ![p.os] = "CANCELADA"]
    /\ UNCHANGED <<itens, total, historico>>

(***************************************************************************)
(* Specification.                                                          *)
(***************************************************************************)
InitOrdem == InitEstoque /\ InitOS

Pedir(s) == \E o \in OSs :
    \/ \E i \in Itens, linha \in ItemOS : AdicionarItem(s, o, i, linha)
    \/ \E i \in Itens : RemoverItem(s, o, i)
    \/ \E novo \in StatusOS : AtualizarStatus(s, o, novo)
    \/ Fechar(s, o)
    \/ Cancelar(s, o)

Movimentar(s) == /\ \E m \in fila[s] : RegistrarMovimentacao(s, m)
                 /\ UNCHANGED osVars

\* Mutant: EstoqueInsuficiente is caught and the handler goes on without the part.
IgnorarFalta(s) ==
    /\ \E m \in fila[s] :
          /\ fase[s] = "movendo" /\ "RESERVA" \in m.tipos
          /\ BuscarProduto(s, m.prod) + Efeito(m) < 0
          /\ fila' = [fila EXCEPT ![s] = @ \ {m}]
    /\ UNCHANGED <<banco, memoria, pedido, fase, iniciados, osVars>>

Recusar(s) == /\ \E m \in fila[s] : EstoqueInsuficiente(s, m)
              /\ UNCHANGED osVars

Concluir(s) == \/ ConcluirAdicionar(s) \/ ConcluirRemover(s) \/ ConcluirStatus(s)
               \/ ConcluirFechar(s) \/ ConcluirCancelar(s)

\* What the handler of s does next, once its request has arrived.
Atender(s) == CarregarItens(s) \/ Movimentar(s) \/ Recusar(s) \/ Concluir(s)

DetectarDeadlock(s) == VitimaDeadlock(s, Esperas) /\ UNCHANGED osVars

Cair(s) == Abortar(s) /\ UNCHANGED osVars

NextOS ==
    \/ \E o \in OSs : Abrir(o)
    \/ \E s \in Sessoes : Pedir(s) \/ Atender(s) \/ DetectarDeadlock(s) \/ Cair(s)

SpecOS == InitOrdem /\ [][NextOS]_varsOS

-----------------------------------------------------------------------------
(***************************************************************************)
(* Properties.                                                             *)
(***************************************************************************)

\* The types of the OS tables.
TypeOS ==
    /\ os \in [OSs -> StatusOS \cup {Livre}]
    /\ itens \in [Itens -> ItemOS \cup {Livre}]
    /\ total \in [OSs -> Totais]
    /\ historico \in [OSs -> Nat]

\* Every variable has its type, and a session holds a request for an OS endpoint.
TypeOkOS ==
    /\ TypeEstoque
    /\ TypeOS
    /\ pedido \in [Sessoes -> PedidoOS \cup {Livre}]
    /\ fase \in [Sessoes -> {"livre", "itens", "movendo"}]

\* The lines of an order for a part.
PecasNaOS(o, p) == {i \in Itens : /\ itens[i] # Livre
                                  /\ itens[i].os = o
                                  /\ itens[i].tipo = "PECA"
                                  /\ itens[i].prod = p}

QuantidadeNaOS(o, p) ==
    SumFunctionOnSet([i \in PecasNaOS(o, p) |-> itens[i].qtd], PecasNaOS(o, p))

\* No part is on an OS without having been reserved for it: the item row and
\* its RESERVA row are committed together or not at all.
ItemTemReserva ==
    \A o \in OSs, p \in Produtos :
        QuantidadeNaOS(o, p) <= porRef[o][p]["RESERVA"]

\* An OS shown as FECHADA has left its record in the history of the vehicle.
FechadaTemHistorico == \A o \in OSs : os[o] = "FECHADA" => historico[o] > 0

\* FECHADA and CANCELADA are final (life cycle of REQUIREMENTS.md, section 5).
StatusTerminal ==
    [][\A o \in OSs : os[o] \in {"FECHADA", "CANCELADA"} => os'[o] = os[o]]_varsOS

\* A closed OS has turned into SAIDA exactly what it still had reserved
\* (REQUIREMENTS.md, section 5: "SAIDA - converte RESERVA em saida definitiva").
FechadaConverteReserva ==
    \A o \in OSs : os[o] = "FECHADA" =>
        \A p \in Produtos : LET r == porRef[o][p] IN
            r["SAIDA"] = r["RESERVA"] - r["LIBERACAO"]

\* A cancelled OS holds no part ("LIBERACAO - libera todas as reservas"): it gave
\* back what it reserved, and more where remover_item released a line it did not
\* delete.  Lines of negative quantity, which the payload allows, give and take
\* the other way round: the products of such lines are left out.
CanceladaLiberaTudo ==
    \A o \in OSs : os[o] = "CANCELADA" =>
        \A p \in Produtos : (\A i \in PecasNaOS(o, p) : itens[i].qtd >= 0)
            => porRef[o][p]["LIBERACAO"] >= porRef[o][p]["RESERVA"]
=============================================================================
