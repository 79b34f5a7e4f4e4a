--------------------------- MODULE MCOrdemServico ---------------------------
(* Small instances of OrdemServico for TLC. *)
EXTENDS OrdemServico, TLC

CONSTANTS a, b

\* Two units of each product let two requests take one each.
DoisDeCada == [p \in Produtos |-> 2]
=============================================================================
