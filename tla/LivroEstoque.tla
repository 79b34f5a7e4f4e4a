---------------------------- MODULE LivroEstoque ----------------------------
(***************************************************************************)
(* What the stock service promises to whoever reads produto and            *)
(* movimentacao_estoque, with no sessions, locks or requests in sight: a   *)
(* ledger.  A request appends rows that refer to one document, all at      *)
(* once, and rows are never taken back; the stock of a product changes     *)
(* only together with rows for it that are not mere SAIDA records; a step  *)
(* that reserves, and gives nothing negative, leaves a stock that is not   *)
(* negative; and a stock below zero has a negative ENTRADA or LIBERACAO    *)
(* among its rows.  It does not promise that the stock is the sum of the   *)
(* rows: concurrent requests break that (run os_trilha_corrida).           *)
(***************************************************************************)
EXTENDS Integers

CONSTANTS Produtos, Refs, EstoqueInicial

VARIABLES estoque, trilha, porRef

livro == <<estoque, trilha, porRef>>

Contagens == {"movimentos", "negativas"}
Contas == {"ENTRADA", "SAIDA", "RESERVA", "LIBERACAO"} \cup Contagens

InitLivro ==
    /\ estoque = EstoqueInicial
    /\ trilha = [p \in Produtos |-> [c \in Contas |-> 0]]
    /\ porRef = [r \in Refs |-> [p \in Produtos |-> [c \in Contas |-> 0]]]

\* What the rows of this step add up to.
Novas(p, c) == trilha'[p][c] - trilha[p][c]

Lancar(r) ==
    /\ \A p \in Produtos, c \in Contagens : Novas(p, c) >= 0
    /\ porRef' = [porRef EXCEPT ![r] =
                     [p \in Produtos |-> [c \in Contas |-> @[p][c] + Novas(p, c)]]]
    /\ \A p \in Produtos :
          /\ estoque'[p] # estoque[p] => Novas(p, "movimentos") > 0
          /\ Novas(p, "RESERVA") # 0 /\ Novas(p, "negativas") = 0 => estoque'[p] >= 0
          /\ estoque'[p] < 0 => trilha'[p]["negativas"] > 0

NextLivro == \E r \in Refs : Lancar(r)

SpecLivro == InitLivro /\ [][NextLivro]_livro
=============================================================================
