------------------------------- MODULE Vendas -------------------------------
(***************************************************************************)
(* Counter sales: VendasService.criar.  One request reserves and takes out *)
(* every line of the payload and commits once, or commits nothing.         *)
(***************************************************************************)
EXTENDS Estoque, Functions

CONSTANT Balcao   \* referencia_id of sales, which are never changed again

ASSUME VendasAssumption == Balcao \in Refs

VARIABLE itemVenda   \* item_venda: quantity sold of each product

\* Mutant: the payload may sell zero units.
LinhaSemMinimo == [prod : Produtos, qtd : Quantidades \cup {0}]

LinhaVenda == [prod : Produtos, qtd : {q \in Quantidades : q > 0}]

\* A payload: at least one line, each of a product and a positive quantity.
Carrinhos == UNION {[L -> LinhaVenda] : L \in (SUBSET Itens) \ {{}}}

PedidoVenda == [op : {"venda"}, carrinho : Carrinhos]

ASSUME PedidoVendaAssumption == Livre \notin PedidoVenda

InitVendas == itemVenda = [p \in Produtos |-> 0]

\* Mutant: the sale only reserves.
VenderSemSaida(s, carrinho) ==
    /\ Iniciar(s, [op |-> "venda", carrinho |-> carrinho], "movendo",
         {[item |-> i, prod |-> carrinho[i].prod, tipos |-> {"RESERVA"},
           qtd |-> carrinho[i].qtd] : i \in DOMAIN carrinho})
    /\ UNCHANGED itemVenda

CriarVenda(s, carrinho) ==
    /\ Iniciar(s, [op |-> "venda", carrinho |-> carrinho], "movendo",
         {[item |-> i, prod |-> carrinho[i].prod, tipos |-> {"RESERVA", "SAIDA"},
           qtd |-> carrinho[i].qtd] : i \in DOMAIN carrinho})
    /\ UNCHANGED itemVenda

ConcluirVenda(s) ==
    LET p == pedido[s] IN
    /\ p # Livre /\ p.op = "venda"
    /\ Gravar(s, Balcao)
    /\ itemVenda' = [q \in Produtos |-> itemVenda[q] +
           SumFunctionOnSet([i \in DOMAIN p.carrinho |-> p.carrinho[i].qtd],
                            {i \in DOMAIN p.carrinho : p.carrinho[i].prod = q})]

-----------------------------------------------------------------------------
\* The types of the sales tables.
TypeVendas == itemVenda \in [Produtos -> Int]

\* A sale is recorded whole: what the lines of the committed sales add up to is
\* what they reserved and what they took out, product by product.  A sale whose
\* later line lacks stock leaves no line and no movement.
VendaInteira ==
    \A p \in Produtos :
        /\ porRef[Balcao][p]["RESERVA"] = itemVenda[p]
        /\ porRef[Balcao][p]["SAIDA"] = itemVenda[p]
=============================================================================
