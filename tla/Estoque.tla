------------------------------- MODULE Estoque -------------------------------
(***************************************************************************)
(* The stock tables of apps/oficinas and the database transactions that    *)
(* change them.                                                            *)
(*                                                                         *)
(* Every HTTP request runs in one SQLAlchemy session and one PostgreSQL    *)
(* transaction at READ COMMITTED.  A product row is SELECTed without a     *)
(* lock, changed in memory and written back with its absolute value, so    *)
(* two requests that read the same row overwrite each other.  What makes   *)
(* that observable is kept here:                                           *)
(*   - a row the session has changed is found again as the session left    *)
(*     it, any other row as it is committed at that moment;                *)
(*   - autoflush: pending UPDATEs are sent before the next SELECT, and     *)
(*     from then on the session holds the locks of these rows until it     *)
(*     ends; an UPDATE of a locked row waits;                              *)
(*   - PostgreSQL aborts one of the sessions of a cycle of waits;          *)
(*   - a session that ends without commit leaves nothing.                  *)
(*                                                                         *)
(* movimentacao_estoque is represented by what its rows add up to: per     *)
(* product (trilha) and per product and reference document (porRef), the   *)
(* quantities of each type and how many rows of two kinds there are.       *)
(***************************************************************************)
EXTENDS Integers, FiniteSets

CONSTANTS
    Produtos,        \* products of one tenant
    Refs,            \* documents a movement may refer to (referencia_id)
    Sessoes,         \* requests the server handles at the same time
    Itens,           \* row ids for the lines of a document
    Quantidades,     \* the quantities a payload may carry
    EstoqueInicial,  \* stock the product sheet brought in
    MaxPedidos,      \* bound: requests started in a behaviour
    Livre            \* no request / no row

ASSUME EstoqueAssumption ==
    /\ EstoqueInicial \in [Produtos -> Nat]
    /\ Quantidades \subseteq Int
    /\ MaxPedidos \in Nat

\* A tenant has finitely many products, and row ids are UUIDs.
ASSUME FinitosAssumption == IsFiniteSet(Produtos) /\ IsFiniteSet(Itens)

VARIABLES
    estoque,    \* produto.estoque_atual, as committed
    trilha,     \* movimentacao_estoque: what its rows add up to, per product
    porRef,     \* the same, separated by referencia_id
    pedido,     \* what each session was asked to do, Livre when it is idle
    fase,       \* how far the handler of the session has come
    fila,       \* calls of registrar_movimentacao the handler still has to make
    lido,       \* estoque_atual of a changed product as the session SELECTed it
    atual,      \* estoque_atual as the session has left it
    sujos,      \* products the session has changed
    travas,     \* products whose row the session has locked
    linhas,     \* movement rows the session has added, added up as in trilha
    iniciados   \* requests started so far

banco == <<estoque, trilha, porRef>>
memoria == <<lido, atual, sujos, travas, linhas>>
estoqueVars == <<banco, memoria, pedido, fase, fila, iniciados>>

(***************************************************************************)
(* Movements.                                                              *)
(***************************************************************************)
Tipos == {"ENTRADA", "SAIDA", "RESERVA", "LIBERACAO"}

\* What is kept of the rows: the sum of quantidade of each type, how many of them
\* change the stock, and how many of those give with a negative quantity.
Contas == Tipos \cup {"movimentos", "negativas"}

\* Mutants: LIBERACAO forgotten among the types that add; SAIDA taken for one that
\* lowers the stock.
AumentaSoEntrada == {"ENTRADA"}
NadaSemEfeito == {}

Aumentam == {"ENTRADA", "LIBERACAO"}
SemEfeito == {"SAIDA"}

\* A queued movement: one call of registrar_movimentacao, or the RESERVA and
\* SAIDA pair a counter sale makes for the same line.
Movimento == [item : Itens, prod : Produtos, qtd : Quantidades,
              tipos : {{t} : t \in Tipos} \cup {{"RESERVA", "SAIDA"}}]

Efeito(m) == IF m.tipos \cap Aumentam # {} THEN m.qtd
             ELSE IF m.tipos \subseteq SemEfeito THEN 0
             ELSE -m.qtd

\* What the rows of m add to each of these.
Parcela(m, c) == CASE c \in m.tipos -> m.qtd
                   [] c = "movimentos" /\ ~ m.tipos \subseteq SemEfeito -> 1
                   [] c = "negativas" /\ m.tipos \cap Aumentam # {} /\ m.qtd < 0 -> 1
                   [] OTHER -> 0

SemLinhas == [p \in Produtos |-> [c \in Contas |-> 0]]

SomarLinhas(a, b) == [p \in Produtos |-> [c \in Contas |-> a[p][c] + b[p][c]]]

\* What the rows say the stock should have gained.
Saldo(l) == l["ENTRADA"] + l["LIBERACAO"] - l["RESERVA"]

\* A flushed column: the ORM sends it only when its value differs from the one
\* it read, so the row keeps what others wrote there otherwise.
GravarColuna(gravado, lidoAntes, novo) == IF novo = lidoAntes THEN gravado ELSE novo

(***************************************************************************)
(* Sessions.                                                               *)
(***************************************************************************)
SessaoLimpa(s) ==
    /\ pedido' = [pedido EXCEPT ![s] = Livre]
    /\ fase'   = [fase   EXCEPT ![s] = "livre"]
    /\ fila'   = [fila   EXCEPT ![s] = {}]
    /\ lido'   = [lido   EXCEPT ![s] = [p \in Produtos |-> 0]]
    /\ atual'  = [atual  EXCEPT ![s] = [p \in Produtos |-> 0]]
    /\ sujos'  = [sujos  EXCEPT ![s] = {}]
    /\ travas' = [travas EXCEPT ![s] = {}]
    /\ linhas' = [linhas EXCEPT ![s] = SemLinhas]

\* No request has arrived yet.
InitSessoes ==
    /\ pedido = [s \in Sessoes |-> Livre]
    /\ fase   = [s \in Sessoes |-> "livre"]
    /\ fila   = [s \in Sessoes |-> {}]
    /\ lido   = [s \in Sessoes |-> [p \in Produtos |-> 0]]
    /\ atual  = [s \in Sessoes |-> [p \in Produtos |-> 0]]
    /\ sujos  = [s \in Sessoes |-> {}]
    /\ travas = [s \in Sessoes |-> {}]
    /\ linhas = [s \in Sessoes |-> SemLinhas]
    /\ iniciados = 0

InitEstoque ==
    /\ estoque = EstoqueInicial
    /\ trilha = SemLinhas
    /\ porRef = [r \in Refs |-> SemLinhas]
    /\ InitSessoes

\* A request arrives: ped is what it asks, f where its handler stands after
\* the first SELECT, ms the movements it will make.
Iniciar(s, ped, f, ms) ==
    /\ pedido[s] = Livre
    /\ iniciados < MaxPedidos
    /\ iniciados' = iniciados + 1
    /\ pedido' = [pedido EXCEPT ![s] = ped]
    /\ fase' = [fase EXCEPT ![s] = f]
    /\ fila' = [fila EXCEPT ![s] = ms]
    /\ UNCHANGED <<banco, memoria>>

\* t holds the lock of a row s has to UPDATE.
Bloqueia(t, s) == t # s /\ travas[t] \cap sujos[s] # {}

PodeGravar(s) == \A t \in Sessoes : ~Bloqueia(t, s)

\* Mutant: no autoflush, a second movement of a product starts from the old row.
BuscarComitado(s, p) == estoque[p]

\* The stock buscar_produto returns: what the session made of a row it has
\* changed (the UPDATE went out with the autoflush), the committed row otherwise.
\* Unchanged objects are not kept: the identity map refers to them weakly.
BuscarProduto(s, p) == IF p \in sujos[s] THEN atual[s][p] ELSE estoque[p]

\* registrar_movimentacao: autoflush, SELECT, change in memory, add the row.
RegistrarMovimentacao(s, m) ==
    LET anterior == BuscarProduto(s, m.prod)
        novo == anterior + Efeito(m)
    IN  /\ fase[s] = "movendo"
        /\ PodeGravar(s)
        /\ "RESERVA" \in m.tipos => novo >= 0
        /\ fila' = [fila EXCEPT ![s] = @ \ {m}]
        /\ travas' = [travas EXCEPT ![s] = sujos[s]]
        /\ lido' = [lido EXCEPT ![s][m.prod] =
                        IF m.prod \in sujos[s] THEN @ ELSE estoque[m.prod]]
        /\ atual' = [atual EXCEPT ![s][m.prod] = novo]
        /\ sujos' = [sujos EXCEPT ![s] =
                        IF novo # anterior THEN @ \cup {m.prod} ELSE @]
        /\ linhas' = [linhas EXCEPT ![s][m.prod] =
                        [c \in Contas |-> @[c] + Parcela(m, c)]]
        /\ UNCHANGED <<banco, pedido, fase, iniciados>>

\* EstoqueInsuficiente leaves the handler; the session is closed uncommitted.
EstoqueInsuficiente(s, m) ==
    /\ fase[s] = "movendo"
    /\ PodeGravar(s)
    /\ "RESERVA" \in m.tipos
    /\ BuscarProduto(s, m.prod) + Efeito(m) < 0
    /\ SessaoLimpa(s)
    /\ UNCHANGED <<banco, iniciados>>

\* The commit: the last flush writes every changed product row with the value
\* the session has in memory and inserts the movement rows.
Gravar(s, ref) ==
    /\ fase[s] = "movendo"
    /\ fila[s] = {}
    /\ PodeGravar(s)
    /\ estoque' = [p \in Produtos |->
                      IF p \in sujos[s] THEN atual[s][p] ELSE estoque[p]]
    /\ trilha' = SomarLinhas(trilha, linhas[s])
    /\ porRef' = [porRef EXCEPT ![ref] = SomarLinhas(@, linhas[s])]
    /\ SessaoLimpa(s)
    /\ UNCHANGED iniciados

\* x waits for the row lock of y.
Espera(x, y) == fase[x] = "movendo" /\ Bloqueia(y, x)

Esperas == {par \in Sessoes \X Sessoes : Espera(par[1], par[2])}

\* s is in a cycle of the waits of espera; deadlock detection ends one of them.
EmCiclo(s, espera) == \E C \in SUBSET Sessoes :
    /\ s \in C
    /\ \A x \in C : \E y \in C : <<x, y>> \in espera

VitimaDeadlock(s, espera) ==
    /\ EmCiclo(s, espera)
    /\ SessaoLimpa(s)
    /\ UNCHANGED <<banco, iniciados>>

\* Mutant: what was flushed before the failure stays (autocommit).
AbortarComitado(s) ==
    /\ pedido[s] # Livre
    /\ estoque' = [p \in Produtos |-> IF p \in sujos[s] THEN atual[s][p] ELSE estoque[p]]
    /\ SessaoLimpa(s)
    /\ UNCHANGED <<trilha, porRef, iniciados>>

\* The request is cancelled, its connection or the server dies, or a later
\* statement raises: nothing of the session is committed.
Abortar(s) ==
    /\ pedido[s] # Livre
    /\ SessaoLimpa(s)
    /\ UNCHANGED <<banco, iniciados>>

(***************************************************************************)
(* Properties of every instance.                                           *)
(***************************************************************************)

\* The types of the stock tables and of the sessions; what pedido holds is left
\* to the modules that define the requests.
TypeEstoque ==
    /\ estoque \in [Produtos -> Int]
    /\ trilha \in [Produtos -> [Contas -> Int]]
    /\ porRef \in [Refs -> [Produtos -> [Contas -> Int]]]
    /\ fila \in [Sessoes -> SUBSET Movimento]
    /\ lido \in [Sessoes -> [Produtos -> Int]]
    /\ atual \in [Sessoes -> [Produtos -> Int]]
    /\ sujos \in [Sessoes -> SUBSET Produtos]
    /\ travas \in [Sessoes -> SUBSET Produtos]
    /\ linhas \in [Sessoes -> [Produtos -> [Contas -> Int]]]
    /\ iniciados \in Nat

\* Only a row of ENTRADA or LIBERACAO with a negative quantity ever takes
\* estoque_atual below zero: registrar_movimentacao checks a RESERVA against the
\* value the session read, stale or not, and does not check what gives parts back
\* (a line of -1 on an order makes one unit too many; once that is reserved, the
\* removal of the line leaves -1).
NegativoExplicado ==
    \A p \in Produtos : estoque[p] < 0 => trilha[p]["negativas"] > 0

\* The session would overwrite a value of the product row it has not seen.
LeituraVelha(s, p) == p \in sujos[s] /\ lido[s][p] # estoque[p]

\* The stock moved by what the rows say, or somebody who ends here read it before
\* another commit.
SaldoAcompanha(p) ==
    \/ estoque'[p] - estoque[p] = Saldo(trilha'[p]) - Saldo(trilha[p])
    \/ \E s \in Sessoes : /\ pedido[s] # Livre /\ pedido'[s] = Livre
                          /\ LeituraVelha(s, p)

\* A commit moves estoque_atual of a product by exactly what its movement rows
\* say, except when the session read the row before another commit changed it.
\* Stale reads are thus the only way stock and trail can come apart.
SaldoAcompanhaTrilha == [][\A p \in Produtos : SaldoAcompanha(p)]_estoqueVars

\* "A trilha e a fonte da verdade" (migrations/002_tenant_schema.sql): the stock
\* of a product is what the sheet brought in plus the rows of the trail.
TrilhaFecha ==
    \A p \in Produtos : estoque[p] = EstoqueInicial[p] + Saldo(trilha[p])

\* Every request is eventually answered: a wait for a row lock ends with the
\* transaction that holds it, and a cycle of waits ends with a victim.
TodoPedidoTermina == \A s \in Sessoes : pedido[s] # Livre ~> pedido[s] = Livre
=============================================================================
