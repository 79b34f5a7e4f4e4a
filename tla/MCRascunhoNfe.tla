--------------------------- MODULE MCRascunhoNfe ---------------------------
(* Small instances of RascunhoNfe for TLC. *)
EXTENDS RascunhoNfe, TLC

CONSTANTS a, b, i1, i2, n1, n2, c1, c2, k1

Zerado == [p \in Produtos |-> 0]

CodigoProduto == [c \in Codigos |-> IF c = c1 THEN a ELSE b]

Linha(cod, ref, qtd) == [cod |-> cod, ref |-> ref, qtd |-> qtd]

\* A note with a key, one line with a reference code and one without, and a
\* note whose XML carries no key.
DuasNotas ==
    n1 :> [chave |-> k1,
           linhas |-> i1 :> Linha(c1, TRUE, 1) @@ i2 :> Linha(c2, FALSE, 2)] @@
    n2 :> [chave |-> SemChave,
           linhas |-> i1 :> Linha(c1, TRUE, 1) @@ i2 :> Linha(c2, TRUE, 1)]

Simetria == Permutations(Rascunhos)
SimetriaCompleta == Permutations(Rascunhos) \cup Permutations(Sessoes)
=============================================================================
