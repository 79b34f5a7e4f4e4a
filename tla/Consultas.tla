----------------------------- MODULE Consultas -----------------------------
(***************************************************************************)
(* One entry of the query cache the web applications read the API through *)
(* (a library: modelled from the options src/web uses).  An entry has the *)
(* last value received, the mark invalidateQueries leaves, and at most one *)
(* request in flight, of which the server reads a value and which lands    *)
(* later.                                                                  *)
(***************************************************************************)
EXTENDS Naturals

CONSTANT SemDado     \* no value yet; also: not yet read by the server

SemBusca == [cred |-> 0, lido |-> SemDado, viva |-> FALSE]

\* A request sent with the token cred.
Busca(cred) == [cred |-> cred, lido |-> SemDado, viva |-> TRUE]

Vazia == [dado |-> SemDado, invalida |-> FALSE, busca |-> SemBusca]

Buscando(c) == c.busca.viva

\* An entry that is not being fetched starts to be; a second fetch of one that is
\* joins the first.
Refazer(c, cred) == IF Buscando(c) THEN c ELSE [c EXCEPT !.busca = Busca(cred)]

\* A component that reads the entry is mounted.  "velha": it is older than staleTime.
Montar(c, cred, velha) ==
    IF c.dado = SemDado \/ c.invalida \/ velha THEN Refazer(c, cred) ELSE c

\* invalidateQueries: an entry nobody shows is only marked; one on the screen is
\* fetched anew, and the answer under way is dropped, unless it is the first.
Invalidar(c, ativa, cred) ==
    LET m == [c EXCEPT !.invalida = TRUE]
    IN  IF ~ativa THEN m
        ELSE IF c.dado = SemDado THEN Refazer(m, cred)
        ELSE [m EXCEPT !.busca = Busca(cred)]

\* The server reads v for the request; its answer lands; it fails for good (after
\* the retry), and the old value and the mark stay.
Ler(c, v) == [c EXCEPT !.busca.lido = v]
Receber(c) == [dado |-> c.busca.lido, invalida |-> FALSE, busca |-> SemBusca]
Desistir(c) == [c EXCEPT !.busca = SemBusca]

Lida(c) == Buscando(c) /\ c.busca.lido # SemDado
=============================================================================
