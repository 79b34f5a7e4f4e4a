------------------------------- MODULE Ciclos -------------------------------
(***************************************************************************)
(* Production cycles and their events in apps/producao.                    *)
(*                                                                         *)
(* The state is one Store of in-memory dictionaries shared by the threads  *)
(* that FastAPI runs the (synchronous) endpoints in.  Entities are shared  *)
(* by reference and no lock is taken: every read and every write of the    *)
(* store is a step of its own, and the threads interleave between them.    *)
(* A dictionary keeps its insertion order; cycles and events are never     *)
(* deleted, so each repository is a sequence and an id a position in it.   *)
(***************************************************************************)
EXTENDS Naturals, Sequences

CONSTANTS
    Unidades,     \* production units of one account
    Chave,        \* seq_key of a unit: sector, first letters of its name, year
    Etapas,       \* steps a protocol or an event may name
    Protocolos,   \* active protocols
    Obrigatorias, \* etapas_obrig_ids of a protocol
    SemProtocolo, \* a cycle opened without a protocol
    SemEtapa,     \* an activity of the portal names no step
    Threads,      \* requests served at the same time
    MaxPedidos,   \* bound: requests started in a behaviour
    Livre         \* the thread serves no request

ASSUME ProducaoAssumption ==
    /\ Obrigatorias \in [Protocolos -> SUBSET Etapas]
    /\ SemProtocolo \notin Protocolos
    /\ SemEtapa \notin Etapas
    /\ MaxPedidos \in Nat

VARIABLES
    seq,        \* store._lot_seq
    ciclos,     \* store.cycles
    eventos,    \* store.events
    auditoria,  \* store.audit_logs: which action was logged for which entity
    pedido,     \* what each thread was asked to do
    passo,      \* how far its handler has come
    alvo,       \* the cycle the handler has in hand (0: none yet)
    lido,       \* the sequence number the handler has read
    iniciados   \* requests started so far

loja == <<seq, ciclos, eventos, auditoria>>
pilha == <<pedido, passo, alvo, lido, iniciados>>

Chaves == {Chave[u] : u \in Unidades}

-----------------------------------------------------------------------------
(***************************************************************************)
(* The life cycle of a cycle.                                              *)
(***************************************************************************)
StatusCiclo == {"ABERTO", "EM_PRODUCAO", "ENCERRADO", "VALIDANDO",
                "LOTE_GERADO", "ARQUIVADO"}

StatusValidacao == {"PENDENTE", "ADITADO"}

Transicoes(st) ==
    CASE st = "ABERTO"      -> {"EM_PRODUCAO"}
      [] st = "EM_PRODUCAO" -> {"ENCERRADO"}
      [] st = "ENCERRADO"   -> {"VALIDANDO"}
      [] st = "VALIDANDO"   -> {"LOTE_GERADO"}
      [] st = "LOTE_GERADO" -> {"ARQUIVADO"}
      [] OTHER              -> {}

StatusAbertos == {"ABERTO", "EM_PRODUCAO"}

Ids(s) == 1 .. Len(s)

\* Mutant: a cycle in production does not count as open.
CiclosSoAbertos(u) ==
    {c \in Ids(ciclos) : ciclos[c].unidade = u /\ ciclos[c].status = "ABERTO"}

\* The open cycles of a unit.  list_by returns them in insertion order, which
\* is the order of their ids.
CiclosAbertos(u) ==
    {c \in Ids(ciclos) : ciclos[c].unidade = u /\ ciclos[c].status \in StatusAbertos}

MaisAntigo(c, cs) == c \in cs /\ \A d \in cs : c <= d

EventosDe(c) == {e \in Ids(eventos) : eventos[e].ciclo = c}

ObrigatoriasDe(c) ==
    IF ciclos[c].protocolo = SemProtocolo THEN {} ELSE Obrigatorias[ciclos[c].protocolo]

\* Steps still missing; nothing ever sets INVALIDO, so every event counts.
EtapasFaltando(c) == ObrigatoriasDe(c) \ {eventos[e].etapa : e \in EventosDe(c)}

-----------------------------------------------------------------------------
(***************************************************************************)
(* Threads.                                                                *)
(***************************************************************************)
InitCiclos ==
    /\ seq = [k \in Chaves |-> 0]
    /\ ciclos = <<>>
    /\ eventos = <<>>
    /\ auditoria = {}
    /\ pedido = [t \in Threads |-> Livre]
    /\ passo = [t \in Threads |-> "livre"]
    /\ alvo = [t \in Threads |-> 0]
    /\ lido = [t \in Threads |-> 0]
    /\ iniciados = 0

Iniciar(t, ped, p, c) ==
    /\ pedido[t] = Livre
    /\ iniciados < MaxPedidos
    /\ iniciados' = iniciados + 1
    /\ pedido' = [pedido EXCEPT ![t] = ped]
    /\ passo' = [passo EXCEPT ![t] = p]
    /\ alvo' = [alvo EXCEPT ![t] = c]
    /\ UNCHANGED <<lido, loja>>

\* The handler returns or raises; what it has written stays.
Responder(t) ==
    /\ pedido' = [pedido EXCEPT ![t] = Livre]
    /\ passo' = [passo EXCEPT ![t] = "livre"]
    /\ alvo' = [alvo EXCEPT ![t] = 0]
    /\ lido' = [lido EXCEPT ![t] = 0]
    /\ UNCHANGED iniciados

IrPara(t, p) ==
    /\ passo' = [passo EXCEPT ![t] = p]
    /\ UNCHANGED <<pedido, iniciados>>

-----------------------------------------------------------------------------
(***************************************************************************)
(* CycleService.create and criar_atividade.                                *)
(***************************************************************************)
PedirCiclo(t, u, p) ==
    Iniciar(t, [op |-> "ciclo", unidade |-> u, protocolo |-> p], "numerar", 0)

\* criar_atividade takes the first open cycle of the unit, or opens one.
PedirAtividade(t, u) ==
    LET ped == [op |-> "atividade", unidade |-> u, protocolo |-> SemProtocolo,
                etapa |-> SemEtapa, adita |-> 0, visivel |-> TRUE]
    IN  \/ \E c \in CiclosAbertos(u) : /\ MaisAntigo(c, CiclosAbertos(u))
                                       /\ Iniciar(t, ped, "salvarEvento", c)
        \/ CiclosAbertos(u) = {} /\ Iniciar(t, ped, "numerar", 0)

\* next_lot_seq reads the counter, writes it back and reads it again.
LerSeq(t) ==
    /\ passo[t] = "numerar"
    /\ lido' = [lido EXCEPT ![t] = seq[Chave[pedido[t].unidade]]]
    /\ IrPara(t, "gravarSeq")
    /\ UNCHANGED <<alvo, loja>>

\* Mutant: the counter is not advanced.
Repetir(n) == n

Seguinte(n) == n + 1

GravarSeq(t) ==
    /\ passo[t] = "gravarSeq"
    /\ seq' = [seq EXCEPT ![Chave[pedido[t].unidade]] = Seguinte(lido[t])]
    /\ IrPara(t, "relerSeq")
    /\ UNCHANGED <<alvo, lido, ciclos, eventos, auditoria>>

RelerSeq(t) ==
    /\ passo[t] = "relerSeq"
    /\ lido' = [lido EXCEPT ![t] = seq[Chave[pedido[t].unidade]]]
    /\ IrPara(t, "salvarCiclo")
    /\ UNCHANGED <<alvo, loja>>

\* Only create logs the new cycle; criar_atividade goes on to its event.
SalvarCiclo(t) ==
    LET ped == pedido[t]
        novo == Len(ciclos) + 1
    IN  /\ passo[t] = "salvarCiclo"
        /\ ciclos' = Append(ciclos,
                [unidade |-> ped.unidade, protocolo |-> ped.protocolo,
                 codigo |-> <<Chave[ped.unidade], lido[t]>>, status |-> "ABERTO"])
        /\ \/ /\ ped.op = "ciclo"
              /\ auditoria' = auditoria \cup {<<"CREATE", novo>>}
              /\ Responder(t)
           \/ /\ ped.op = "atividade"
              /\ alvo' = [alvo EXCEPT ![t] = novo]
              /\ IrPara(t, "salvarEvento")
              /\ UNCHANGED <<lido, auditoria>>
        /\ UNCHANGED <<seq, eventos>>

-----------------------------------------------------------------------------
(***************************************************************************)
(* CycleService.transition.                                                *)
(***************************************************************************)
\* A transition that is not allowed changes nothing.
PedirStatus(t, c, st) ==
    /\ c \in Ids(ciclos)
    /\ st \in Transicoes(ciclos[c].status)
    /\ Iniciar(t, [op |-> "status", status |-> st],
               IF st = "LOTE_GERADO" THEN "conferirEtapas" ELSE "gravarStatus", c)

ConferirEtapas(t) ==
    /\ passo[t] = "conferirEtapas"
    /\ \/ EtapasFaltando(alvo[t]) = {} /\ IrPara(t, "gravarStatus") /\ UNCHANGED <<alvo, lido>>
       \/ EtapasFaltando(alvo[t]) # {} /\ Responder(t)
    /\ UNCHANGED loja

GravarStatus(t) ==
    /\ passo[t] = "gravarStatus"
    /\ ciclos' = [ciclos EXCEPT ![alvo[t]].status = pedido[t].status]
    /\ auditoria' = auditoria \cup {<<"STATUS_CHANGE", alvo[t]>>}
    /\ Responder(t)
    /\ UNCHANGED <<seq, eventos>>

-----------------------------------------------------------------------------
(***************************************************************************)
(* CycleService.add_event, and the end of criar_atividade.                 *)
(***************************************************************************)
\* Mutant: the status of the cycle is not looked at.
PedirEventoSempre(t, c, etapa, a, visivel) ==
    /\ c \in Ids(ciclos)
    /\ a = 0 \/ a \in EventosDe(c)
    /\ Iniciar(t, [op |-> "evento", etapa |-> etapa, adita |-> a, visivel |-> visivel],
               IF a = 0 THEN "salvarEvento" ELSE "marcarAditado", c)

\* a is the event the new one amends, of the same cycle, or 0.
PedirEvento(t, c, etapa, a, visivel) ==
    /\ c \in Ids(ciclos)
    /\ ciclos[c].status \in StatusAbertos
    /\ a = 0 \/ a \in EventosDe(c)
    /\ Iniciar(t, [op |-> "evento", etapa |-> etapa, adita |-> a, visivel |-> visivel],
               IF a = 0 THEN "salvarEvento" ELSE "marcarAditado", c)

\* Mutant: the original keeps its state.
NaoMarcarAditado(t) ==
    /\ passo[t] = "marcarAditado"
    /\ IrPara(t, "salvarEvento")
    /\ UNCHANGED <<alvo, lido, loja>>

MarcarAditado(t) ==
    /\ passo[t] = "marcarAditado"
    /\ eventos' = [eventos EXCEPT ![pedido[t].adita].validacao = "ADITADO"]
    /\ IrPara(t, "salvarEvento")
    /\ UNCHANGED <<alvo, lido, seq, ciclos, auditoria>>

SalvarEvento(t) ==
    /\ passo[t] = "salvarEvento"
    /\ eventos' = Append(eventos,
            [ciclo |-> alvo[t], etapa |-> pedido[t].etapa, validacao |-> "PENDENTE",
             adita |-> pedido[t].adita, visivel |-> pedido[t].visivel])
    /\ Responder(t)
    /\ UNCHANGED <<seq, ciclos, auditoria>>

-----------------------------------------------------------------------------
PedirAoCiclo(t) ==
    \/ \E u \in Unidades : PedirAtividade(t, u) \/ \E p \in Protocolos : PedirCiclo(t, u, p)
    \/ \E c \in Ids(ciclos) :
           \/ \E st \in StatusCiclo : PedirStatus(t, c, st)
           \/ \E etapa \in Etapas, a \in {0} \cup EventosDe(c), v \in BOOLEAN :
                  PedirEvento(t, c, etapa, a, v)

NextCiclos(t) ==
    \/ PedirAoCiclo(t)
    \/ LerSeq(t) \/ GravarSeq(t) \/ RelerSeq(t) \/ SalvarCiclo(t)
    \/ ConferirEtapas(t) \/ GravarStatus(t)
    \/ MarcarAditado(t) \/ SalvarEvento(t)
=============================================================================
