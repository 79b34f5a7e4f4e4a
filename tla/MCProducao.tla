----------------------------- MODULE MCProducao -----------------------------
(* Small instances of Producao. *)
EXTENDS Producao, TLC

CONSTANTS u1, u2, p1, e1, e2

MesmaChave == [u \in Unidades |-> "CAF"]
UmaEtapa == [p \in Protocolos |-> {e1}]
Simetria == Permutations(Threads)
=============================================================================
