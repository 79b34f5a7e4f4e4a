----------------------------- MODULE MCOficina -----------------------------
(* Small instances of Oficina for TLC: one OS, one draft, one sale counter. *)
EXTENDS Oficina, TLC

CONSTANTS a, b, i1, i2, n1, n2, c1, c2, k1, o1, r1, r2

UmDeCada == [p \in Produtos |-> 1]

CodigoProduto == [c \in Codigos |-> IF c = c1 THEN a ELSE b]

\* A note with one line for each product, both registered.
NotaDeDois ==
    n1 :> [chave |-> SemChave,
           linhas |-> i1 :> [cod |-> c1, ref |-> TRUE, qtd |-> 1] @@
                      i2 :> [cod |-> c2, ref |-> TRUE, qtd |-> 1]]

Zerado == [p \in Produtos |-> 0]

\* One known line with a key; the same line and an unknown one without a key.
NotasComESemChave ==
    n1 :> [chave |-> k1, linhas |-> i1 :> [cod |-> c1, ref |-> TRUE, qtd |-> 1]] @@
    n2 :> [chave |-> SemChave,
           linhas |-> i1 :> [cod |-> c1, ref |-> TRUE, qtd |-> 1] @@
                      i2 :> [cod |-> c2, ref |-> FALSE, qtd |-> 1]]

\* The same two lines with a key and without.
ComESemChave ==
    [n \in Notas |-> [chave |-> IF n = n1 THEN k1 ELSE SemChave,
                      linhas |-> NotaDeDois[n1].linhas]]

DoisDeCada == [p \in Produtos |-> 2]

\* A payload of add_item may carry any quantity, counter sales only positive ones.
ComNegativa == {-1, 1}

\* States six requests lead to: an order with a unit of each product reserved, one
\* note uploaded twice, and the first line of its second draft linked to the
\* product of the other line.  The requests of MaxPedidos come after these.
InitDisputa ==
    LET reservado == [p \in Produtos |-> [c \in Contas |->
                         IF c \in {"RESERVA", "movimentos"} THEN 1 ELSE 0]]
        ligado(p, st) == [prod |-> p, status |-> st]
        rascunhoDe(n, ligada) ==
            [nota |-> n, status |-> "PENDENTE",
             itens |-> i1 :> ligada @@ i2 :> ligado(b, "AUTO_VINCULADO")]
    IN  /\ InitSessoes
        /\ InitVendas
        /\ estoque = [p \in Produtos |-> EstoqueInicial[p] - 1]
        /\ trilha = reservado
        /\ porRef = [ref \in Refs |-> IF ref = o1 THEN reservado ELSE SemLinhas]
        /\ os = o1 :> "ABERTA"
        /\ itens = i1 :> [os |-> o1, tipo |-> "PECA", prod |-> a, qtd |-> 1] @@
                   i2 :> [os |-> o1, tipo |-> "PECA", prod |-> b, qtd |-> 1]
        /\ total = o1 :> [c \in Colunas |-> IF c = "SERVICO" THEN 0 ELSE 2]
        /\ historico = o1 :> 0
        /\ entradas = {}
        /\ mapeamento = [c \in Codigos |-> Livre]
        /\ catalogo = CatalogoInicial
        /\ \E n \in Notas :
              rascunho = r1 :> rascunhoDe(n, ligado(a, "AUTO_VINCULADO")) @@
                         r2 :> rascunhoDe(n, ligado(b, "VINCULADO"))

\* What follows, with every request served.
DisputaSpec == InitDisputa /\ [][Next]_vars /\ Justica

\* NotaDeDois and CodigoProduto stay what they are when products, codes and lines
\* all change places.
Troca == a :> b @@ b :> a @@ c1 :> c2 @@ c2 :> c1 @@ i1 :> i2 @@ i2 :> i1

Simetria == Permutations(Sessoes) \cup {Troca}
=============================================================================
