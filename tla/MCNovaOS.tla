------------------------------ MODULE MCNovaOS ------------------------------
(* Small instances of NovaOS. *)
EXTENDS NovaOS

CONSTANTS p1, p2, p3, c1, c2

\* p1 and p2 have owners; p3 is known to the national register only.
DonoMC == [pl \in Placas |-> IF pl = p1 THEN c1 ELSE IF pl = p2 THEN c2 ELSE SemCliente]
=============================================================================
