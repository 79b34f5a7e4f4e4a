------------------------------ MODULE Producao ------------------------------
(***************************************************************************)
(* The traceability API of apps/producao: cycle, lot and portal endpoints  *)
(* served by several threads over one Store.                               *)
(***************************************************************************)
EXTENDS Lotes

Init == InitCiclos /\ InitLotes

Next ==
    \/ \E t \in Threads :
           \/ NextCiclos(t) /\ UNCHANGED <<lotes, acessos, fila, lote, coletados>>
           \/ \E u \in Unidades : PedirPortal(t, u)
           \/ \E c \in Ids(ciclos) : PedirLote(t, c)
           \/ ConferirStatus(t) \/ ConferirLote(t) \/ ListarEventos(t)
           \/ SalvarLote(t) \/ MarcarCiclo(t)
           \/ ProximoCiclo(t) \/ AvancarStatus(t) \/ PublicarPortal(t)
    \/ \E l \in Ids(lotes) : Publicar(l) \/ AbrirPagina(l)

Spec == Init /\ [][Next]_vars

-----------------------------------------------------------------------------
Ciclo == [unidade : Unidades, protocolo : Protocolos \cup {SemProtocolo},
          codigo : Chaves \X Nat, status : StatusCiclo]

Evento == [ciclo : Nat, etapa : Etapas \cup {SemEtapa}, validacao : StatusValidacao,
           adita : Nat, visivel : BOOLEAN]

Lote == [ciclo : Nat, codigo : Chaves \X Nat, eventos : SUBSET Nat,
         snapshot : SUBSET Nat, status : StatusLote, publico : BOOLEAN]

\* The store holds entities of its models and every reference between them leads
\* to a saved entity; an amendment refers to an older event.
TypeLoja ==
    /\ seq \in [Chaves -> Nat]
    /\ ciclos \in Seq(Ciclo)
    /\ eventos \in Seq(Evento)
    /\ lotes \in Seq(Lote)
    /\ \A e \in Ids(eventos) : eventos[e].ciclo \in Ids(ciclos) /\ eventos[e].adita < e
    /\ \A l \in Ids(lotes) : /\ lotes[l].ciclo \in Ids(ciclos)
                             /\ lotes[l].eventos \subseteq Ids(eventos)
    /\ acessos \subseteq Ids(lotes)

PedidoCiclo == [op : {"ciclo"}, unidade : Unidades, protocolo : Protocolos]

PedidoAtividade == [op : {"atividade"}, unidade : Unidades, protocolo : {SemProtocolo},
                    etapa : {SemEtapa}, adita : {0}, visivel : {TRUE}]

PedidoStatus == [op : {"status"}, status : StatusCiclo]

PedidoEvento == [op : {"evento"}, etapa : Etapas, adita : Nat, visivel : BOOLEAN]

PedidosLote == [op : {"lote", "portal"}]

ASSUME LivreAssumption ==
    Livre \notin PedidoCiclo \cup PedidoAtividade \cup PedidoStatus \cup PedidoEvento
                \cup PedidosLote

PassosCiclo == {"numerar", "gravarSeq", "relerSeq", "salvarCiclo"}

PassosStatus == {"conferirEtapas", "gravarStatus"}

PassosLote == {"EM_PRODUCAO", "ENCERRADO", "VALIDANDO", "conferirStatus", "conferirLote",
               "listarEventos", "salvarLote", "marcarCiclo", "publicar"}

Passos == {"livre", "marcarAditado", "salvarEvento", "proximoCiclo"}
              \cup PassosCiclo \cup PassosStatus \cup PassosLote

\* What a handler has in hand are saved entities: the cycle from its first step
\* on, the original before it is marked, the lot once it is saved.
ThreadOk(t) ==
    /\ alvo[t] \in {0} \cup Ids(ciclos)
    /\ lote[t] \in {0} \cup Ids(lotes)
    /\ fila[t] \subseteq Ids(ciclos)
    /\ coletados[t] \subseteq Ids(eventos)
    /\ passo[t] \in PassosCiclo => pedido[t] \in PedidoCiclo \cup PedidoAtividade
    /\ passo[t] \in PassosStatus => pedido[t] \in PedidoStatus /\ alvo[t] # 0
    /\ passo[t] = "marcarAditado" =>
           pedido[t] \in PedidoEvento /\ pedido[t].adita \in Ids(eventos) /\ alvo[t] # 0
    /\ passo[t] = "salvarEvento" =>
           /\ pedido[t] \in PedidoEvento \cup PedidoAtividade
           /\ pedido[t].adita \in {0} \cup Ids(eventos)
           /\ alvo[t] # 0
    /\ passo[t] \in PassosLote \cup {"proximoCiclo"} => pedido[t] \in PedidosLote
    /\ passo[t] \in PassosLote => alvo[t] # 0
    /\ passo[t] \in {"marcarCiclo", "publicar"} => lote[t] # 0

TypeThreads ==
    /\ passo \in [Threads -> Passos]
    /\ DOMAIN pedido = Threads
    /\ alvo \in [Threads -> Nat] /\ lote \in [Threads -> Nat] /\ lido \in [Threads -> Nat]
    /\ fila \in [Threads -> SUBSET Nat] /\ coletados \in [Threads -> SUBSET Nat]
    /\ \A t \in Threads : ThreadOk(t)

TypeOk == TypeLoja /\ TypeThreads

-----------------------------------------------------------------------------
(***************************************************************************)
(* Safety, however the threads interleave.                                 *)
(***************************************************************************)

\* "Lote so e gerado com protocolo 100% completo" (docs/dimata-requisitos.md,
\* RN-01): the events a lot was made of cover every obligatory step of its
\* cycle's protocol, and a cycle that reached LOTE_GERADO, with a lot or by a
\* transition, has them all.
LoteCompleto ==
    /\ \A l \in Ids(lotes) :
           ObrigatoriasDe(lotes[l].ciclo) \subseteq {eventos[e].etapa : e \in lotes[l].eventos}
    /\ \A c \in Ids(ciclos) :
           ciclos[c].status \in {"LOTE_GERADO", "ARQUIVADO"} => EtapasFaltando(c) = {}

\* "Correcoes geram novo registro de aditamento vinculado ao original" (RN-03):
\* the original of an amendment is an older event of the same cycle, marked
\* ADITADO, and an event is marked only when its amendment is saved or about to be.
AditamentoLigado ==
    /\ \A e \in Ids(eventos) : eventos[e].adita # 0 =>
           LET o == eventos[e].adita
           IN  o < e /\ eventos[o].ciclo = eventos[e].ciclo /\ eventos[o].validacao = "ADITADO"
    /\ \A o \in Ids(eventos) : eventos[o].validacao = "ADITADO" =>
           \/ \E e \in Ids(eventos) : eventos[e].adita = o
           \/ \E t \in Threads : passo[t] = "salvarEvento" /\ pedido[t].adita = o

\* The page of a lot is its snapshot; with it, for Vitrine, the steps of all the
\* events the lot was generated from, those the page does not show included.
Pagina(l) == [codigo    |-> lotes[l].codigo,
              protocolo |-> ciclos[lotes[l].ciclo].protocolo,
              eventos   |-> lotes[l].snapshot,
              etapas    |-> {eventos[e].etapa : e \in lotes[l].eventos}]

Publicos == {l \in Ids(lotes) : lotes[l].publico}

V == INSTANCE Vitrine WITH paginas <- [l \in Publicos |-> Pagina(l)]

\* The public pages behave as Vitrine promises: a shown page stays, unchanged,
\* and belongs to a complete cycle, whatever is written to the store later.  The
\* page itself may not show every obligatory step: a hidden event counts for it.
VitrineSpec == V!SpecVitrine

-----------------------------------------------------------------------------
(***************************************************************************)
(* One request at a time (Threads has one element).                        *)
(***************************************************************************)
Ordem(st) == CHOOSE n \in 1 .. 6 :
    st = <<"ABERTO", "EM_PRODUCAO", "ENCERRADO", "VALIDANDO", "LOTE_GERADO", "ARQUIVADO">>[n]

\* "Codigo do lote e unico [...] Nunca reutilizado" (RN-02): no two lots bear the
\* same code, though units may share a sequence.
CodigoUnico ==
    \A k, l \in Ids(lotes) : lotes[k].codigo = lotes[l].codigo => k = l

\* A lot of a request that has ended belongs to a cycle that says so: the cycle
\* accepts no further event and no second lot.
LoteNoCiclo ==
    \A l \in Ids(lotes) :
        \/ ciclos[lotes[l].ciclo].status \in {"LOTE_GERADO", "ARQUIVADO"}
        \/ \E t \in Threads : passo[t] = "marcarCiclo" /\ lote[t] = l

\* The snapshot of a lot holds every event of its cycle that may be shown, none
\* registered later is missing from it, and no hidden event is in it.
SnapshotCompleto ==
    \A l \in Ids(lotes) :
        lotes[l].snapshot = {e \in EventosDe(lotes[l].ciclo) : eventos[e].visivel}

\* "Retorna o ciclo aberto da unidade ou cria um novo ciclo livre"
\* (routers/bff.py): activities of a unit share one free cycle at a time.
UmCicloLivre ==
    \A c, d \in Ids(ciclos) :
        /\ ciclos[c].unidade = ciclos[d].unidade
        /\ \A x \in {c, d} : ciclos[x].protocolo = SemProtocolo /\ ciclos[x].status \in StatusAbertos
        => c = d

\* The machine of RF-04: whichever endpoint writes it, the status of a cycle
\* moves to the next state of the line and never skips or returns.
MaquinaDeEstados ==
    [][\A c \in Ids(ciclos) : Ordem(ciclos'[c].status) - Ordem(ciclos[c].status) \in {0, 1}]_vars
=============================================================================
