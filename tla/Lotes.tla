-------------------------------- MODULE Lotes --------------------------------
(***************************************************************************)
(* Traceable lots in apps/producao: LotService, and the portal endpoint    *)
(* that closes the open cycles of a unit and publishes their lots.         *)
(*                                                                         *)
(* A lot keeps its snapshot, the events that may be shown to the public,   *)
(* and here also the events its generation checked against the protocol    *)
(* (a history variable: the code does not store them).  Images, hashes and *)
(* dates are left out.                                                     *)
(***************************************************************************)
EXTENDS Ciclos

VARIABLES
    lotes,      \* store.lots
    acessos,    \* store.qr_accesses: the lots whose page was opened
    fila,       \* open cycles the portal request has listed and not yet handled
    lote,       \* the lot the handler has in hand (0: none)
    coletados   \* the events of the cycle as the handler listed them

vars == <<loja, pilha, lotes, acessos, fila, lote, coletados>>

StatusLote == {"GERADO", "PUBLICADO"}

InitLotes ==
    /\ lotes = <<>>
    /\ acessos = {}
    /\ fila = [t \in Threads |-> {}]
    /\ lote = [t \in Threads |-> 0]
    /\ coletados = [t \in Threads |-> {}]

\* The request ends, with an answer or an HTTPException half way.
Encerrar(t) ==
    /\ Responder(t)
    /\ fila' = [fila EXCEPT ![t] = {}]
    /\ lote' = [lote EXCEPT ![t] = 0]
    /\ coletados' = [coletados EXCEPT ![t] = {}]

Seguir(t, p) == IrPara(t, p) /\ UNCHANGED <<alvo, lido>>

-----------------------------------------------------------------------------
(***************************************************************************)
(* LotService.generate, shared by POST /cycles/{id}/lots and the portal.   *)
(***************************************************************************)
\* A cycle that is not VALIDANDO is refused and nothing changes.
PedirLote(t, c) ==
    /\ c \in Ids(ciclos)
    /\ ciclos[c].status = "VALIDANDO"
    /\ Iniciar(t, [op |-> "lote"], "conferirLote", c)
    /\ UNCHANGED <<lotes, acessos, fila, lote, coletados>>

\* The same check when the portal calls generate.
ConferirStatus(t) ==
    /\ passo[t] = "conferirStatus"
    /\ \/ /\ ciclos[alvo[t]].status = "VALIDANDO"
          /\ Seguir(t, "conferirLote")
          /\ UNCHANGED <<fila, lote, coletados>>
       \/ ciclos[alvo[t]].status # "VALIDANDO" /\ Encerrar(t)
    /\ UNCHANGED <<loja, lotes, acessos>>

TemLote(c) == \E l \in Ids(lotes) : lotes[l].ciclo = c

ConferirLote(t) ==
    /\ passo[t] = "conferirLote"
    /\ \/ /\ ~TemLote(alvo[t])
          /\ Seguir(t, "listarEventos")
          /\ UNCHANGED <<fila, lote, coletados>>
       \/ TemLote(alvo[t]) /\ Encerrar(t)
    /\ UNCHANGED <<loja, lotes, acessos>>

\* Mutant: the events are taken as they are, complete or not.
ListarSemConferir(t) ==
    /\ passo[t] = "listarEventos"
    /\ coletados' = [coletados EXCEPT ![t] = EventosDe(alvo[t])]
    /\ Seguir(t, "salvarLote")
    /\ UNCHANGED <<loja, lotes, acessos, fila, lote>>

\* The events are listed once, checked against the protocol and kept for the
\* snapshot.
ListarEventos(t) ==
    /\ passo[t] = "listarEventos"
    /\ \/ /\ EtapasFaltando(alvo[t]) = {}
          /\ coletados' = [coletados EXCEPT ![t] = EventosDe(alvo[t])]
          /\ Seguir(t, "salvarLote")
          /\ UNCHANGED <<fila, lote>>
       \/ EtapasFaltando(alvo[t]) # {} /\ Encerrar(t)
    /\ UNCHANGED <<loja, lotes, acessos>>

\* _build_snapshot: the events that are visible to the public.
InstantaneoDe(es) == {e \in es : eventos[e].visivel}

NovoLote(t) == [ciclo |-> alvo[t], codigo |-> ciclos[alvo[t]].codigo,
                eventos |-> coletados[t], snapshot |-> InstantaneoDe(coletados[t]),
                status |-> "GERADO", publico |-> FALSE]

\* Mutant: the handler goes on with the lot before the one it has saved.
SalvarLoteErrado(t) ==
    /\ passo[t] = "salvarLote"
    /\ lotes' = Append(lotes, NovoLote(t))
    /\ lote' = [lote EXCEPT ![t] = Len(lotes)]
    /\ Seguir(t, "marcarCiclo")
    /\ UNCHANGED <<loja, acessos, fila, coletados>>

SalvarLote(t) ==
    /\ passo[t] = "salvarLote"
    /\ lotes' = Append(lotes, NovoLote(t))
    /\ lote' = [lote EXCEPT ![t] = Len(lotes) + 1]
    /\ Seguir(t, "marcarCiclo")
    /\ UNCHANGED <<loja, acessos, fila, coletados>>

\* Mutant: the portal forgets that the cycle has its lot.
NaoMarcarCiclo(t) ==
    /\ passo[t] = "marcarCiclo"
    /\ \/ pedido[t].op = "lote" /\ Encerrar(t)
       \/ pedido[t].op = "portal" /\ Seguir(t, "publicar") /\ UNCHANGED <<fila, lote, coletados>>
    /\ UNCHANGED <<loja, lotes, acessos>>

\* The cycle is marked and the generation logged; the portal goes on to publish.
MarcarCiclo(t) ==
    /\ passo[t] = "marcarCiclo"
    /\ ciclos' = [ciclos EXCEPT ![alvo[t]].status = "LOTE_GERADO"]
    /\ auditoria' = auditoria \cup {<<"GERAR_LOTE", lote[t]>>}
    /\ \/ pedido[t].op = "lote" /\ Encerrar(t)
       \/ pedido[t].op = "portal" /\ Seguir(t, "publicar") /\ UNCHANGED <<fila, lote, coletados>>
    /\ UNCHANGED <<seq, eventos, lotes, acessos>>

-----------------------------------------------------------------------------
(***************************************************************************)
(* LotService.publish and the public page.                                 *)
(***************************************************************************)
\* Mutant: publishing again takes the page down.
Alternar(l) ==
    /\ lotes' = [lotes EXCEPT ![l].status = "PUBLICADO", ![l].publico = ~@]
    /\ auditoria' = auditoria \cup {<<"PUBLICAR_LOTE", l>>}

Expor(l) ==
    /\ lotes[l].status = "GERADO"
    /\ lotes' = [lotes EXCEPT ![l].status = "PUBLICADO", ![l].publico = TRUE]
    /\ auditoria' = auditoria \cup {<<"PUBLICAR_LOTE", l>>}

\* POST /cycles/lots/{id}/publish.  Check and writes are one step: two requests
\* that pass the check together write the same values.
Publicar(l) ==
    /\ l \in Ids(lotes)
    /\ iniciados < MaxPedidos
    /\ iniciados' = iniciados + 1
    /\ Expor(l)
    /\ UNCHANGED <<seq, ciclos, eventos, pedido, passo, alvo, lido,
                   acessos, fila, lote, coletados>>

\* GET /p/{qr_hash}: the page of a public lot, and a record of the visit.
AbrirPagina(l) ==
    /\ l \in Ids(lotes)
    /\ lotes[l].publico
    /\ acessos' = acessos \cup {l}
    /\ UNCHANGED <<loja, pilha, lotes, fila, lote, coletados>>

-----------------------------------------------------------------------------
(***************************************************************************)
(* gerar_lote_portal.                                                      *)
(***************************************************************************)
PedirPortal(t, u) ==
    /\ CiclosAbertos(u) # {}
    /\ Iniciar(t, [op |-> "portal"], "proximoCiclo", 0)
    /\ fila' = [fila EXCEPT ![t] = CiclosAbertos(u)]
    /\ UNCHANGED <<lotes, acessos, lote, coletados>>

\* The next listed cycle; one without events is skipped.
ProximoCiclo(t) ==
    /\ passo[t] = "proximoCiclo"
    /\ \/ \E c \in fila[t] :
              /\ MaisAntigo(c, fila[t])
              /\ fila' = [fila EXCEPT ![t] = @ \ {c}]
              /\ IF EventosDe(c) = {} THEN UNCHANGED <<pilha>>
                 ELSE /\ alvo' = [alvo EXCEPT ![t] = c]
                      /\ IrPara(t, "EM_PRODUCAO")
                      /\ UNCHANGED lido
              /\ UNCHANGED <<lote, coletados>>
       \/ fila[t] = {} /\ Encerrar(t)
    /\ UNCHANGED <<loja, lotes, acessos>>

\* The statuses the portal writes, whatever the cycle's own status has become,
\* and what the handler does after each.
DepoisDe(st) ==
    CASE st = "EM_PRODUCAO" -> "ENCERRADO"
      [] st = "ENCERRADO"   -> "VALIDANDO"
      [] st = "VALIDANDO"   -> "conferirStatus"

\* Mutant: straight to VALIDANDO.
PularPara(t) ==
    /\ passo[t] \in {"EM_PRODUCAO", "ENCERRADO", "VALIDANDO"}
    /\ ciclos' = [ciclos EXCEPT ![alvo[t]].status = "VALIDANDO"]
    /\ Seguir(t, "conferirStatus")
    /\ UNCHANGED <<seq, eventos, auditoria, lotes, acessos, fila, lote, coletados>>

AvancarStatus(t) ==
    /\ passo[t] \in {"EM_PRODUCAO", "ENCERRADO", "VALIDANDO"}
    /\ ciclos' = [ciclos EXCEPT ![alvo[t]].status = passo[t]]
    /\ Seguir(t, DepoisDe(passo[t]))
    /\ UNCHANGED <<seq, eventos, auditoria, lotes, acessos, fila, lote, coletados>>

\* publish raises when somebody else has published the lot meanwhile, and the
\* cycles left in the list are not handled.
PublicarPortal(t) ==
    /\ passo[t] = "publicar"
    /\ \/ /\ Expor(lote[t])
          /\ Seguir(t, "proximoCiclo")
          /\ UNCHANGED <<fila, lote, coletados>>
       \/ /\ lotes[lote[t]].status # "GERADO"
          /\ Encerrar(t)
          /\ UNCHANGED <<lotes, auditoria>>
    /\ UNCHANGED <<seq, ciclos, eventos, acessos>>

=============================================================================
