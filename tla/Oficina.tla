------------------------------ MODULE Oficina ------------------------------
(***************************************************************************)
(* The garage: service orders, counter sales and purchase notes compete    *)
(* for the same product rows.                                              *)
(***************************************************************************)
EXTENDS OrdemServico, Vendas, RascunhoNfe

\* Orders, drafts and sales have ids of their own (uuid4).
ASSUME OficinaAssumption == OSs \cap Rascunhos = {} /\ Balcao \notin OSs \cup Rascunhos

vars == <<estoqueVars, osVars, itemVenda, nfeVars>>

Init == InitEstoque /\ InitOS /\ InitVendas /\ InitNfe

Vender(s) == \/ \E carrinho \in Carrinhos : CriarVenda(s, carrinho)
             \/ ConcluirVenda(s)

\* A request that names a product that does not exist is answered 404 and
\* changes nothing (NaoEncontrado in buscar_produto).
ProdutosExistem == \A s \in Sessoes : \A m \in fila[s] : m.prod \in catalogo

\* The loop of a confirmation makes the movements of its note, a mapping after
\* each (MovimentarNfe); Movimentar makes those of orders and sales.
NotasAParte == \A s \in Sessoes :
    pedido[s] # Livre /\ pedido[s].op = "confirmar" => fila'[s] = fila[s]

Next ==
    \/ NextOS /\ UNCHANGED <<itemVenda, nfeVars>> /\ ProdutosExistem' /\ NotasAParte
    \/ (\E s \in Sessoes : Vender(s)) /\ UNCHANGED <<osVars, nfeVars>> /\ ProdutosExistem'
    \/ NextNfe /\ UNCHANGED <<osVars, itemVenda>>

Spec == Init /\ [][Next]_vars

\* What the handler of s does next, once its request has arrived.
AtenderPedido(s) ==
    \/ Atender(s) /\ UNCHANGED <<itemVenda, nfeVars>> /\ NotasAParte
    \/ ConcluirVenda(s) /\ UNCHANGED <<osVars, nfeVars>>
    \/ AtenderNfe(s) /\ UNCHANGED <<osVars, itemVenda>>

EncerrarCiclo(s) == DetectarDeadlockNfe(s) /\ UNCHANGED <<osVars, itemVenda>>

\* Handlers run to their end on the event loop, and PostgreSQL looks for cycles
\* of waits after deadlock_timeout; nobody has to send a request or to crash.
Justica == \A s \in Sessoes : WF_vars(AtenderPedido(s)) /\ WF_vars(EncerrarCiclo(s))

FairSpec == Spec /\ Justica

-----------------------------------------------------------------------------
\* Every variable but the sales total has its type, each session holds a request
\* for one endpoint, and what it keeps fits the rows the request is about.
TypeOk ==
    /\ TypeEstoque
    /\ TypeOS
    /\ TypeNfe
    /\ pedido \in [Sessoes -> PedidoOS \cup PedidoVenda \cup PedidoNfe \cup {Livre}]
    /\ fase \in [Sessoes -> {"livre", "itens", "casando", "lendo", "entrada", "movendo"}]
    /\ NfeConsistente

Livro == INSTANCE LivroEstoque

\* The garage implements the ledger of LivroEstoque: whatever the requests and
\* however they interleave, fail or deadlock, what becomes visible in produto and
\* movimentacao_estoque is a sequence of whole requests.
LivroSpec == Livro!SpecLivro
=============================================================================
