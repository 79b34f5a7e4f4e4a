--------------------------- MODULE ProducaoProofs ---------------------------
(***************************************************************************)
(* For any units, protocols and number of threads: lots are complete, what *)
(* handlers have in hand is saved, amendments are linked, and the public   *)
(* pages implement Vitrine.                                                *)
(*                                                                         *)
(* The store only grows (Cresce), so what one thread has found out about   *)
(* complete cycles and saved entities stays true while others work.        *)
(* Statuses and codes do change: what is said of them is proved for one    *)
(* request at a time.                                                      *)
(***************************************************************************)
EXTENDS Producao, TLAPS

Completos == {"LOTE_GERADO", "ARQUIVADO"}

\* What a thread has checked and will rely on.
Preparado(t) ==
    /\ passo[t] \in {"salvarLote", "marcarCiclo"} => EtapasFaltando(alvo[t]) = {}
    /\ passo[t] = "salvarLote" =>
           ObrigatoriasDe(alvo[t]) \subseteq {eventos[e].etapa : e \in coletados[t]}
    /\ passo[t] = "gravarStatus" /\ pedido[t].status \in Completos =>
           EtapasFaltando(alvo[t]) = {}
    /\ passo[t] \in {"marcarAditado", "salvarEvento"} /\ pedido[t].adita # 0 =>
           eventos[pedido[t].adita].ciclo = alvo[t]
    /\ passo[t] = "salvarEvento" /\ pedido[t].adita # 0 =>
           eventos[pedido[t].adita].validacao = "ADITADO"

IInv == TypeOk /\ LoteCompleto /\ \A t \in Threads : Preparado(t)

\* Entities are never removed; only the status of a cycle, the validation of an
\* event and the publication of a lot change.
CiclosCrescem ==
    /\ Len(ciclos) <= Len(ciclos')
    /\ \A c \in Ids(ciclos) : /\ ciclos'[c].protocolo = ciclos[c].protocolo
                              /\ ciclos'[c].unidade = ciclos[c].unidade
                              /\ ciclos'[c].codigo = ciclos[c].codigo

EventosCrescem ==
    /\ Len(eventos) <= Len(eventos')
    /\ \A e \in Ids(eventos) :
           /\ eventos'[e].ciclo = eventos[e].ciclo
           /\ eventos'[e].etapa = eventos[e].etapa
           /\ eventos'[e].adita = eventos[e].adita
           /\ eventos'[e].visivel = eventos[e].visivel
           /\ eventos[e].validacao = "ADITADO" => eventos'[e].validacao = "ADITADO"

LotesCrescem ==
    /\ Len(lotes) <= Len(lotes')
    /\ \A l \in Ids(lotes) :
           /\ lotes'[l].ciclo = lotes[l].ciclo
           /\ lotes'[l].codigo = lotes[l].codigo
           /\ lotes'[l].eventos = lotes[l].eventos
           /\ lotes'[l].snapshot = lotes[l].snapshot
           /\ lotes[l].publico => lotes'[l].publico

Cresce == CiclosCrescem /\ EventosCrescem /\ LotesCrescem

\* A lot made in this step is complete, and only a complete cycle is marked.
LotesNovos ==
    \A l \in Ids(lotes') : l \in Ids(lotes) \/
        /\ lotes'[l].ciclo \in Ids(ciclos)
        /\ lotes'[l].eventos \subseteq Ids(eventos)
        /\ ObrigatoriasDe(lotes'[l].ciclo) \subseteq {eventos[e].etapa : e \in lotes'[l].eventos}

CiclosNovos ==
    \A c \in Ids(ciclos') : ciclos'[c].status \in Completos =>
        /\ c \in Ids(ciclos)
        /\ ciclos'[c].status = ciclos[c].status \/ EtapasFaltando(c) = {}

\* What a step may do to the store.
PassoLoja == TypeLoja' /\ Cresce /\ LotesNovos /\ CiclosNovos

MesmaPilha(u) ==
    /\ pedido'[u] = pedido[u] /\ passo'[u] = passo[u] /\ alvo'[u] = alvo[u]
    /\ lote'[u] = lote[u] /\ fila'[u] = fila[u] /\ coletados'[u] = coletados[u]

TipoPilha ==
    /\ passo \in [Threads -> Passos]
    /\ DOMAIN pedido = Threads
    /\ alvo \in [Threads -> Nat] /\ lote \in [Threads -> Nat] /\ lido \in [Threads -> Nat]
    /\ fila \in [Threads -> SUBSET Nat] /\ coletados \in [Threads -> SUBSET Nat]

\* What a step may do to the handlers: one of them advances.
PassoPilha(t) ==
    /\ TipoPilha'
    /\ \A u \in Threads \ {t} : MesmaPilha(u)
    /\ ThreadOk(t)' /\ Preparado(t)'

-----------------------------------------------------------------------------
(***************************************************************************)
(* Sequences of entities.                                                  *)
(***************************************************************************)

LEMMA AppendSeq ==
    ASSUME NEW S, NEW s \in Seq(S), NEW x \in S
    PROVE  /\ Append(s, x) \in Seq(S)
           /\ Len(Append(s, x)) = Len(s) + 1
           /\ \A i \in 1 .. Len(s) : Append(s, x)[i] = s[i]
           /\ Append(s, x)[Len(s) + 1] = x
           /\ Len(s) \in Nat
OBVIOUS

LEMMA TrocarSeq ==
    ASSUME NEW S, NEW s \in Seq(S), NEW i \in 1 .. Len(s), NEW x \in S
    PROVE  /\ [s EXCEPT ![i] = x] \in Seq(S)
           /\ Len([s EXCEPT ![i] = x]) = Len(s)
           /\ [s EXCEPT ![i] = x][i] = x
           /\ \A j \in 1 .. Len(s) : j # i => [s EXCEPT ![i] = x][j] = s[j]
OBVIOUS

-----------------------------------------------------------------------------
(***************************************************************************)
(* What grows stays complete.                                              *)
(***************************************************************************)

LEMMA Tamanhos ==
    ASSUME TypeLoja
    PROVE  Len(ciclos) \in Nat /\ Len(eventos) \in Nat /\ Len(lotes) \in Nat
BY DEF TypeLoja

LEMMA IdsCrescem ==
    ASSUME TypeLoja, TypeLoja', Cresce
    PROVE  /\ Ids(ciclos) \subseteq Ids(ciclos)'
           /\ Ids(eventos) \subseteq Ids(eventos)'
           /\ Ids(lotes) \subseteq Ids(lotes)'
<1>1. /\ Len(ciclos) \in Nat /\ Len(eventos) \in Nat /\ Len(lotes) \in Nat
      /\ Len(ciclos') \in Nat /\ Len(eventos') \in Nat /\ Len(lotes') \in Nat
  BY DEF TypeLoja
<1> QED
  BY <1>1 DEF Ids, Cresce, CiclosCrescem, EventosCrescem, LotesCrescem

\* The steps a cycle lacks only become fewer.
LEMMA FaltandoDiminui ==
    ASSUME TypeLoja, TypeLoja', Cresce, NEW c \in Ids(ciclos)
    PROVE  /\ ObrigatoriasDe(c)' = ObrigatoriasDe(c)
           /\ EtapasFaltando(c) = {} => EtapasFaltando(c)' = {}
<1>1. ObrigatoriasDe(c)' = ObrigatoriasDe(c)
  BY DEF ObrigatoriasDe, Cresce, CiclosCrescem
<1>2. ASSUME NEW e \in EventosDe(c)
      PROVE  e \in EventosDe(c)' /\ eventos'[e].etapa = eventos[e].etapa
  BY <1>2, IdsCrescem DEF EventosDe, Cresce, EventosCrescem
<1> QED
  BY <1>1, <1>2 DEF EtapasFaltando

-----------------------------------------------------------------------------
(***************************************************************************)
(* The writes to the store.                                                *)
(***************************************************************************)

LEMMA LojaIgual ==
    ASSUME TypeLoja, UNCHANGED <<ciclos, eventos, lotes>>,
           seq' \in [Chaves -> Nat], acessos' \subseteq Ids(lotes)
    PROVE  PassoLoja
<1>1. TypeLoja'
  BY DEF TypeLoja, Ids, Ciclo, Evento, Lote, Chaves
<1>2. Len(ciclos) \in Nat /\ Len(eventos) \in Nat /\ Len(lotes) \in Nat
  BY DEF TypeLoja
<1>3. Cresce
  BY <1>2 DEF Cresce, CiclosCrescem, EventosCrescem, LotesCrescem
<1> QED
  BY <1>1, <1>3 DEF PassoLoja, LotesNovos, CiclosNovos, Ids

LEMMA CicloNovo ==
    ASSUME TypeLoja, NEW x \in Ciclo, x.status = "ABERTO", ciclos' = Append(ciclos, x),
           UNCHANGED <<seq, eventos, lotes, acessos>>
    PROVE  PassoLoja /\ Len(ciclos) + 1 \in Ids(ciclos)'
<1>1. /\ ciclos' \in Seq(Ciclo)
      /\ Len(ciclos') = Len(ciclos) + 1
      /\ \A c \in 1 .. Len(ciclos) : ciclos'[c] = ciclos[c]
      /\ ciclos'[Len(ciclos) + 1] = x
      /\ Len(ciclos) \in Nat
  BY AppendSeq DEF TypeLoja
<1>2. Ids(ciclos) \subseteq Ids(ciclos)' /\ Len(ciclos) + 1 \in Ids(ciclos)'
  BY <1>1 DEF Ids
<1>3. TypeLoja'
  BY <1>1, <1>2 DEF TypeLoja, Ids, Ciclo, Evento, Lote, Chaves
<1>4. Len(eventos) \in Nat /\ Len(lotes) \in Nat
  BY DEF TypeLoja
<1>5. Cresce
  BY <1>1, <1>4 DEF Cresce, CiclosCrescem, EventosCrescem, LotesCrescem, Ids
<1>6. \A c \in Ids(ciclos') : c \in Ids(ciclos) \/ c = Len(ciclos) + 1
  BY <1>1 DEF Ids
<1>7. CiclosNovos
  BY <1>1, <1>6 DEF CiclosNovos, Ids, Completos
<1> QED
  BY <1>2, <1>3, <1>5, <1>7 DEF PassoLoja, LotesNovos, Ids

LEMMA StatusNovo ==
    ASSUME TypeLoja, NEW c \in Ids(ciclos), NEW st \in StatusCiclo,
           ciclos' = [ciclos EXCEPT ![c].status = st],
           st \in Completos => EtapasFaltando(c) = {},
           UNCHANGED <<seq, eventos, lotes, acessos>>
    PROVE  PassoLoja
<1> DEFINE x == [ciclos[c] EXCEPT !.status = st]
<1>1. ciclos[c] \in Ciclo /\ Len(ciclos) \in Nat
  BY DEF TypeLoja, Ids
<1>a. ciclos \in Seq(Ciclo) /\ c \in 1 .. Len(ciclos)
  BY DEF TypeLoja, Ids
<1>2. x \in Ciclo /\ x.status = st /\ x.protocolo = ciclos[c].protocolo
          /\ x.unidade = ciclos[c].unidade /\ x.codigo = ciclos[c].codigo
  BY <1>1 DEF Ciclo
<1>3. ciclos' = [ciclos EXCEPT ![c] = x]
  OBVIOUS
<1> HIDE DEF x
<1>4. /\ ciclos' \in Seq(Ciclo)
      /\ Len(ciclos') = Len(ciclos)
      /\ ciclos'[c] = x
      /\ \A d \in 1 .. Len(ciclos) : d # c => ciclos'[d] = ciclos[d]
  BY <1>a, <1>2, <1>3, TrocarSeq
<1>5. TypeLoja'
  BY <1>4 DEF TypeLoja, Ids, Ciclo, Evento, Lote, Chaves
<1>6. Len(eventos) \in Nat /\ Len(lotes) \in Nat
  BY DEF TypeLoja
<1>7. \A d \in Ids(ciclos) : /\ ciclos'[d].protocolo = ciclos[d].protocolo
                             /\ ciclos'[d].unidade = ciclos[d].unidade
                             /\ ciclos'[d].codigo = ciclos[d].codigo
                             /\ d # c => ciclos'[d].status = ciclos[d].status
  BY <1>2, <1>4 DEF Ids
<1>8. Cresce
  BY <1>1, <1>4, <1>6, <1>7 DEF Cresce, CiclosCrescem, EventosCrescem, LotesCrescem, Ids
<1>9. CiclosNovos
  BY <1>2, <1>4, <1>7 DEF CiclosNovos, Ids
<1> QED
  BY <1>5, <1>8, <1>9 DEF PassoLoja, LotesNovos, Ids

LEMMA EventoMarcado ==
    ASSUME TypeLoja, NEW o \in Ids(eventos),
           eventos' = [eventos EXCEPT ![o].validacao = "ADITADO"],
           UNCHANGED <<seq, ciclos, lotes, acessos>>
    PROVE  PassoLoja /\ eventos'[o].validacao = "ADITADO"
<1> DEFINE x == [eventos[o] EXCEPT !.validacao = "ADITADO"]
<1>1. eventos[o] \in Evento /\ Len(eventos) \in Nat
  BY DEF TypeLoja, Ids
<1>a. eventos \in Seq(Evento) /\ o \in 1 .. Len(eventos)
  BY DEF TypeLoja, Ids
<1>2. /\ x \in Evento /\ x.validacao = "ADITADO" /\ x.ciclo = eventos[o].ciclo
      /\ x.etapa = eventos[o].etapa /\ x.adita = eventos[o].adita
      /\ x.visivel = eventos[o].visivel
  BY <1>1 DEF Evento, StatusValidacao
<1>3. eventos' = [eventos EXCEPT ![o] = x]
  OBVIOUS
<1> HIDE DEF x
<1>4. /\ eventos' \in Seq(Evento)
      /\ Len(eventos') = Len(eventos)
      /\ eventos'[o] = x
      /\ \A e \in 1 .. Len(eventos) : e # o => eventos'[e] = eventos[e]
  BY <1>a, <1>2, <1>3, TrocarSeq
<1>5. TypeLoja'
  BY <1>2, <1>4 DEF TypeLoja, Ids, Ciclo, Evento, Lote, Chaves
<1>6. Len(ciclos) \in Nat /\ Len(lotes) \in Nat
  BY DEF TypeLoja
<1>7. Cresce
  BY <1>1, <1>2, <1>4, <1>6 DEF Cresce, CiclosCrescem, EventosCrescem, LotesCrescem, Ids
<1> QED
  BY <1>2, <1>4, <1>5, <1>7 DEF PassoLoja, LotesNovos, CiclosNovos, Ids

LEMMA EventoNovo ==
    ASSUME TypeLoja, NEW x \in Evento, x.ciclo \in Ids(ciclos), x.adita <= Len(eventos),
           eventos' = Append(eventos, x), UNCHANGED <<seq, ciclos, lotes, acessos>>
    PROVE  PassoLoja
<1>1. /\ eventos' \in Seq(Evento)
      /\ Len(eventos') = Len(eventos) + 1
      /\ \A e \in 1 .. Len(eventos) : eventos'[e] = eventos[e]
      /\ eventos'[Len(eventos) + 1] = x
      /\ Len(eventos) \in Nat
  BY AppendSeq DEF TypeLoja
<1>2. x.adita \in Nat /\ x.adita < Len(eventos) + 1
  BY <1>1 DEF Evento
<1>3. \A e \in Ids(eventos') : e \in 1 .. Len(eventos) \/ e = Len(eventos) + 1
  BY <1>1 DEF Ids
<1>4. Ids(eventos) \subseteq Ids(eventos)'
  BY <1>1 DEF Ids
<1>5. \A e \in Ids(eventos') : eventos'[e].ciclo \in Ids(ciclos) /\ eventos'[e].adita < e
  BY <1>1, <1>2, <1>3 DEF TypeLoja, Ids
<1>6. TypeLoja'
  BY <1>1, <1>4, <1>5 DEF TypeLoja, Ids, Ciclo, Evento, Lote, Chaves
<1>7. Len(ciclos) \in Nat /\ Len(lotes) \in Nat
  BY DEF TypeLoja
<1>8. Cresce
  BY <1>1, <1>7 DEF Cresce, CiclosCrescem, EventosCrescem, LotesCrescem, Ids
<1> QED
  BY <1>6, <1>8 DEF PassoLoja, LotesNovos, CiclosNovos, Ids

LEMMA LoteNovo ==
    ASSUME TypeLoja, NEW x \in Lote, x.ciclo \in Ids(ciclos), x.eventos \subseteq Ids(eventos),
           ObrigatoriasDe(x.ciclo) \subseteq {eventos[e].etapa : e \in x.eventos},
           lotes' = Append(lotes, x), UNCHANGED <<seq, ciclos, eventos, acessos>>
    PROVE  PassoLoja /\ Len(lotes) + 1 \in Ids(lotes)'
<1>1. /\ lotes' \in Seq(Lote)
      /\ Len(lotes') = Len(lotes) + 1
      /\ \A l \in 1 .. Len(lotes) : lotes'[l] = lotes[l]
      /\ lotes'[Len(lotes) + 1] = x
      /\ Len(lotes) \in Nat
  BY AppendSeq DEF TypeLoja
<1>2. \A l \in Ids(lotes') : l \in 1 .. Len(lotes) \/ l = Len(lotes) + 1
  BY <1>1 DEF Ids
<1>3. Ids(lotes) \subseteq Ids(lotes)' /\ Len(lotes) + 1 \in Ids(lotes)'
  BY <1>1 DEF Ids
<1>4. \A l \in Ids(lotes') : /\ lotes'[l].ciclo \in Ids(ciclos)
                             /\ lotes'[l].eventos \subseteq Ids(eventos)
  BY <1>1, <1>2 DEF TypeLoja, Ids
<1>5. TypeLoja'
  BY <1>1, <1>3, <1>4 DEF TypeLoja, Ids, Ciclo, Evento, Lote, Chaves
<1>6. Len(ciclos) \in Nat /\ Len(eventos) \in Nat
  BY DEF TypeLoja
<1>7. Cresce
  BY <1>1, <1>6 DEF Cresce, CiclosCrescem, EventosCrescem, LotesCrescem, Ids
<1>8. LotesNovos
  BY <1>1, <1>2 DEF LotesNovos, Ids
<1> QED
  BY <1>3, <1>5, <1>7, <1>8 DEF PassoLoja, CiclosNovos, Ids

LEMMA LoteExposto ==
    ASSUME TypeLoja, NEW l \in Ids(lotes), Expor(l),
           UNCHANGED <<seq, ciclos, eventos, acessos>>
    PROVE  PassoLoja
<1> DEFINE x == [lotes[l] EXCEPT !.status = "PUBLICADO", !.publico = TRUE]
<1>1. lotes[l] \in Lote /\ Len(lotes) \in Nat
  BY DEF TypeLoja, Ids
<1>a. lotes \in Seq(Lote) /\ l \in 1 .. Len(lotes)
  BY DEF TypeLoja, Ids
<1>2. /\ x \in Lote /\ x.publico /\ x.ciclo = lotes[l].ciclo
      /\ x.codigo = lotes[l].codigo /\ x.eventos = lotes[l].eventos
      /\ x.snapshot = lotes[l].snapshot
  BY <1>1 DEF Lote, StatusLote
<1>3. lotes' = [lotes EXCEPT ![l] = x]
  BY DEF Expor
<1> HIDE DEF x
<1>4. /\ lotes' \in Seq(Lote)
      /\ Len(lotes') = Len(lotes)
      /\ lotes'[l] = x
      /\ \A k \in 1 .. Len(lotes) : k # l => lotes'[k] = lotes[k]
  BY <1>a, <1>2, <1>3, TrocarSeq
<1>5. TypeLoja'
  BY <1>2, <1>4 DEF TypeLoja, Ids, Ciclo, Evento, Lote, Chaves
<1>6. Len(ciclos) \in Nat /\ Len(eventos) \in Nat
  BY DEF TypeLoja
<1>7. Cresce
  BY <1>1, <1>2, <1>4, <1>6 DEF Cresce, CiclosCrescem, EventosCrescem, LotesCrescem, Ids
<1> QED
  BY <1>4, <1>5, <1>7 DEF PassoLoja, LotesNovos, CiclosNovos, Ids

-----------------------------------------------------------------------------
(***************************************************************************)
(* Handlers.                                                               *)
(***************************************************************************)

\* What the other threads have found out stays true.
LEMMA OutraPilha ==
    ASSUME TypeOk, PassoLoja, NEW u \in Threads, MesmaPilha(u), Preparado(u)
    PROVE  ThreadOk(u)' /\ Preparado(u)'
<1>1. ThreadOk(u) /\ TypeLoja /\ TypeLoja' /\ Cresce
  BY DEF TypeOk, TypeThreads, PassoLoja
<1>2. /\ Ids(ciclos) \subseteq Ids(ciclos)' /\ Ids(eventos) \subseteq Ids(eventos)'
      /\ Ids(lotes) \subseteq Ids(lotes)'
  BY <1>1, IdsCrescem
<1>3. ThreadOk(u)'
  BY <1>1, <1>2 DEF ThreadOk, MesmaPilha
<1>4. alvo[u] # 0 => /\ ObrigatoriasDe(alvo[u])' = ObrigatoriasDe(alvo[u])
                     /\ EtapasFaltando(alvo[u]) = {} => EtapasFaltando(alvo[u])' = {}
  BY <1>1, FaltandoDiminui DEF ThreadOk, MesmaPilha
<1>5. \A e \in coletados[u] : eventos'[e].etapa = eventos[e].etapa
  BY <1>1 DEF ThreadOk, Cresce, EventosCrescem
<1>6. passo[u] \in {"salvarLote", "marcarCiclo", "gravarStatus"} => alvo[u] # 0
  BY <1>1 DEF ThreadOk, PassosLote, PassosStatus
<1>7. passo[u] \in {"marcarAditado", "salvarEvento"} /\ pedido[u].adita # 0 =>
          /\ eventos'[pedido[u].adita].ciclo = eventos[pedido[u].adita].ciclo
          /\ eventos[pedido[u].adita].validacao = "ADITADO" =>
                 eventos'[pedido[u].adita].validacao = "ADITADO"
  BY <1>1 DEF ThreadOk, Cresce, EventosCrescem
<1>8. Preparado(u)'
  BY <1>4, <1>5, <1>6, <1>7 DEF Preparado, MesmaPilha
<1> QED
  BY <1>3, <1>8

\* A request arrives.
LEMMA IniciarPasso ==
    ASSUME TypeOk, NEW t \in Threads, NEW ped, NEW p \in Passos,
           NEW c \in {0} \cup Ids(ciclos), Iniciar(t, ped, p, c),
           UNCHANGED <<lotes, acessos, lote, coletados>>,
           fila' \in [Threads -> SUBSET Nat], fila'[t] \subseteq Ids(ciclos),
           \A u \in Threads \ {t} : fila'[u] = fila[u],
           p \notin {"livre", "salvarLote", "marcarCiclo", "publicar"},
           p \in PassosCiclo => ped \in PedidoCiclo \cup PedidoAtividade,
           p \in PassosStatus => ped \in PedidoStatus /\ c # 0,
           p = "gravarStatus" /\ ped.status \in Completos => EtapasFaltando(c) = {},
           p = "marcarAditado" => ped \in PedidoEvento /\ ped.adita \in EventosDe(c) /\ c # 0,
           p = "salvarEvento" => /\ ped \in PedidoEvento \cup PedidoAtividade
                                 /\ ped.adita = 0 /\ c # 0,
           p = "proximoCiclo" => ped \in PedidosLote,
           p \in PassosLote => ped \in PedidosLote /\ c # 0
    PROVE  PassoLoja /\ PassoPilha(t)
<1>1. UNCHANGED <<seq, ciclos, eventos>>
  BY DEF Iniciar, loja
<1>2. PassoLoja
  BY <1>1, LojaIgual DEF TypeOk, TypeLoja
<1>3. Ids(ciclos) \subseteq Nat
  BY DEF TypeOk, TypeLoja, Ids
<1>4. TipoPilha'
  <2>1. TipoPilha /\ c \in Nat
    BY <1>3 DEF TipoPilha, TypeOk, TypeThreads
  <2>2. passo' \in [Threads -> Passos] /\ DOMAIN pedido' = Threads
    BY <2>1 DEF TipoPilha, Iniciar
  <2>3. alvo' \in [Threads -> Nat] /\ lido' \in [Threads -> Nat]
    BY <2>1 DEF TipoPilha, Iniciar, loja
  <2> QED
    BY <2>1, <2>2, <2>3 DEF TipoPilha
<1>5. \A u \in Threads \ {t} : MesmaPilha(u)
  BY DEF MesmaPilha, TypeOk, TypeThreads, Iniciar
<1>6. passo'[t] = p /\ pedido'[t] = ped /\ alvo'[t] = c /\ ThreadOk(t)
  BY DEF TypeOk, TypeThreads, Iniciar
<1>7. ThreadOk(t)'
  BY <1>1, <1>6 DEF ThreadOk, EventosDe
<1>8. Preparado(t)'
  BY <1>1, <1>6 DEF Preparado, EventosDe, EtapasFaltando, ObrigatoriasDe
<1> QED
  BY <1>2, <1>4, <1>5, <1>7, <1>8 DEF PassoPilha

\* A request ends.
LEMMA EncerrarPasso ==
    ASSUME TypeOk, PassoLoja, NEW t \in Threads, Responder(t),
           fila' \in [Threads -> SUBSET Nat], fila'[t] \subseteq Ids(ciclos),
           lote' \in [Threads -> Nat], lote'[t] \in {0} \cup Ids(lotes),
           coletados' \in [Threads -> SUBSET Nat], coletados'[t] \subseteq Ids(eventos),
           \A u \in Threads \ {t} : /\ fila'[u] = fila[u] /\ lote'[u] = lote[u]
                                   /\ coletados'[u] = coletados[u]
    PROVE  PassoPilha(t)
<1>1. TipoPilha'
  BY DEF TipoPilha, TypeOk, TypeThreads, Responder, Passos
<1>2. \A u \in Threads \ {t} : MesmaPilha(u)
  BY DEF MesmaPilha, TypeOk, TypeThreads, Responder
<1>3. passo'[t] = "livre" /\ alvo'[t] = 0
  BY DEF TypeOk, TypeThreads, Responder
<1>4. /\ Ids(ciclos) \subseteq Ids(ciclos)' /\ Ids(eventos) \subseteq Ids(eventos)'
      /\ Ids(lotes) \subseteq Ids(lotes)'
  BY IdsCrescem DEF TypeOk, PassoLoja
<1>5. ThreadOk(t)'
  BY <1>3, <1>4 DEF ThreadOk, PassosCiclo, PassosStatus, PassosLote
<1>6. Preparado(t)'
  BY <1>3 DEF Preparado
<1> QED
  BY <1>1, <1>2, <1>5, <1>6 DEF PassoPilha

\* The handler goes on to its next step with what it has in hand.
LEMMA SeguirPasso ==
    ASSUME TypeOk, PassoLoja, NEW t \in Threads, NEW p \in Passos, IrPara(t, p),
           NEW c \in Ids(ciclos)', alvo' = [alvo EXCEPT ![t] = c], lido' \in [Threads -> Nat],
           fila' \in [Threads -> SUBSET Nat], fila'[t] \subseteq Ids(ciclos),
           lote' \in [Threads -> Nat], lote'[t] \in {0} \cup Ids(lotes)',
           coletados' \in [Threads -> SUBSET Nat], coletados'[t] \subseteq Ids(eventos),
           \A u \in Threads \ {t} : /\ fila'[u] = fila[u] /\ lote'[u] = lote[u]
                                   /\ coletados'[u] = coletados[u],
           p \notin PassosCiclo \cup {"proximoCiclo", "livre"},
           p \in PassosStatus => pedido[t] \in PedidoStatus,
           p = "marcarAditado" => pedido[t] \in PedidoEvento /\ pedido[t].adita \in Ids(eventos),
           p = "salvarEvento" => /\ pedido[t] \in PedidoEvento \cup PedidoAtividade
                                 /\ pedido[t].adita \in {0} \cup Ids(eventos),
           p \in PassosLote => pedido[t] \in PedidosLote,
           p \in {"marcarCiclo", "publicar"} => lote'[t] # 0,
           p \in {"salvarLote", "marcarCiclo"} => EtapasFaltando(c)' = {},
           p = "salvarLote" =>
               ObrigatoriasDe(c)' \subseteq {eventos'[e].etapa : e \in coletados'[t]},
           p = "gravarStatus" => EtapasFaltando(c)' = {},
           p \in {"marcarAditado", "salvarEvento"} /\ pedido[t].adita # 0 =>
               eventos'[pedido[t].adita].ciclo = c,
           p = "salvarEvento" /\ pedido[t].adita # 0 =>
               eventos'[pedido[t].adita].validacao = "ADITADO"
    PROVE  PassoPilha(t)
<1>1. Ids(ciclos)' \subseteq Nat /\ 0 \notin Ids(ciclos)'
  BY DEF PassoLoja, TypeLoja, Ids
<1>2. TipoPilha'
  BY <1>1 DEF TipoPilha, TypeOk, TypeThreads, IrPara
<1>3. \A u \in Threads \ {t} : MesmaPilha(u)
  BY DEF MesmaPilha, TypeOk, TypeThreads, IrPara
<1>4. passo'[t] = p /\ alvo'[t] = c /\ pedido'[t] = pedido[t]
  BY DEF TypeOk, TypeThreads, IrPara
<1>5. /\ Ids(ciclos) \subseteq Ids(ciclos)' /\ Ids(eventos) \subseteq Ids(eventos)'
      /\ Ids(lotes) \subseteq Ids(lotes)'
  BY IdsCrescem DEF TypeOk, PassoLoja
<1>6. ThreadOk(t)'
  BY <1>1, <1>4, <1>5 DEF ThreadOk
<1>7. Preparado(t)'
  BY <1>4 DEF Preparado
<1> QED
  BY <1>2, <1>3, <1>6, <1>7 DEF PassoPilha

\* The same when nothing else of the handler changes.
LEMMA ResponderPasso ==
    ASSUME TypeOk, PassoLoja, NEW t \in Threads, Responder(t), UNCHANGED <<fila, lote, coletados>>
    PROVE  PassoPilha(t)
<1>1. /\ fila \in [Threads -> SUBSET Nat] /\ lote \in [Threads -> Nat]
      /\ coletados \in [Threads -> SUBSET Nat] /\ ThreadOk(t)
  BY DEF TypeOk, TypeThreads
<1>2. /\ fila[t] \subseteq Ids(ciclos) /\ lote[t] \in {0} \cup Ids(lotes)
      /\ coletados[t] \subseteq Ids(eventos)
  BY <1>1 DEF ThreadOk
<1> QED
  BY <1>1, <1>2, EncerrarPasso

LEMMA EncerrarLote ==
    ASSUME TypeOk, PassoLoja, NEW t \in Threads, Encerrar(t)
    PROVE  PassoPilha(t)
<1>1. /\ fila \in [Threads -> SUBSET Nat] /\ lote \in [Threads -> Nat]
      /\ coletados \in [Threads -> SUBSET Nat]
  BY DEF TypeOk, TypeThreads
<1>2. /\ fila' = [fila EXCEPT ![t] = {}] /\ lote' = [lote EXCEPT ![t] = 0]
      /\ coletados' = [coletados EXCEPT ![t] = {}] /\ Responder(t)
  BY DEF Encerrar
<1>3. /\ fila' \in [Threads -> SUBSET Nat] /\ fila'[t] = {}
      /\ lote' \in [Threads -> Nat] /\ lote'[t] = 0
      /\ coletados' \in [Threads -> SUBSET Nat] /\ coletados'[t] = {}
      /\ \A u \in Threads \ {t} : /\ fila'[u] = fila[u] /\ lote'[u] = lote[u]
                                  /\ coletados'[u] = coletados[u]
  BY <1>1, <1>2
<1> QED
  BY <1>2, <1>3, EncerrarPasso

LEMMA SeguirLote ==
    ASSUME TypeOk, PassoLoja, NEW t \in Threads, passo[t] \in PassosLote,
           NEW p \in PassosLote \ {"salvarLote", "marcarCiclo"}, Seguir(t, p),
           UNCHANGED <<fila, lote, coletados>>, p = "publicar" => lote[t] # 0
    PROVE  PassoPilha(t)
<1>1. /\ fila \in [Threads -> SUBSET Nat] /\ lote \in [Threads -> Nat]
      /\ coletados \in [Threads -> SUBSET Nat] /\ lido \in [Threads -> Nat]
      /\ alvo \in [Threads -> Nat] /\ ThreadOk(t)
  BY DEF TypeOk, TypeThreads
<1>2. /\ fila[t] \subseteq Ids(ciclos) /\ lote[t] \in {0} \cup Ids(lotes)
      /\ coletados[t] \subseteq Ids(eventos) /\ alvo[t] \in Ids(ciclos)
      /\ pedido[t] \in PedidosLote
  BY <1>1 DEF ThreadOk
<1>3. alvo' = [alvo EXCEPT ![t] = alvo[t]] /\ lido' = lido /\ IrPara(t, p)
  BY <1>1 DEF Seguir
<1>4. Ids(ciclos) \subseteq Ids(ciclos)' /\ Ids(lotes) \subseteq Ids(lotes)'
  BY IdsCrescem DEF TypeOk, PassoLoja
<1>5. /\ p \in Passos
      /\ p \notin PassosCiclo \cup PassosStatus \cup {"proximoCiclo", "livre", "marcarAditado",
                                                     "salvarEvento", "gravarStatus"}
  BY DEF Passos, PassosLote, PassosCiclo, PassosStatus
<1> QED
  BY <1>1, <1>2, <1>3, <1>4, <1>5, SeguirPasso

\* next_lot_seq.
LEMMA NumerarPasso ==
    ASSUME TypeOk, NEW t \in Threads, passo[t] \in PassosCiclo, NEW p \in PassosCiclo,
           IrPara(t, p), seq' \in [Chaves -> Nat], lido' \in [Threads -> Nat],
           UNCHANGED <<alvo, fila, lote, coletados, ciclos, eventos, lotes, acessos>>
    PROVE  PassoLoja /\ PassoPilha(t)
<1>1. PassoLoja
  BY LojaIgual DEF TypeOk, TypeLoja
<1>2. TipoPilha'
  BY DEF TipoPilha, TypeOk, TypeThreads, IrPara, Passos
<1>3. \A u \in Threads \ {t} : MesmaPilha(u)
  BY DEF MesmaPilha, TypeOk, TypeThreads, IrPara
<1>4. passo'[t] = p /\ pedido' = pedido /\ ThreadOk(t)
  BY DEF TypeOk, TypeThreads, IrPara
<1>5. p \notin PassosStatus \cup PassosLote \cup {"proximoCiclo", "marcarAditado",
                                                  "salvarEvento", "gravarStatus"}
  BY DEF PassosLote, PassosCiclo, PassosStatus
<1>6. ThreadOk(t)'
  BY <1>4, <1>5 DEF ThreadOk, PassosLote
<1>7. Preparado(t)'
  BY <1>4, <1>5 DEF Preparado, PassosLote
<1> QED
  BY <1>1, <1>2, <1>3, <1>6, <1>7 DEF PassoPilha

-----------------------------------------------------------------------------
(***************************************************************************)
(* Cycles and events: every action respects the store and the handlers.    *)
(***************************************************************************)

LEMMA Pedidos ==
    ASSUME IInv, NEW t \in Threads, PedirAoCiclo(t),
           UNCHANGED <<lotes, acessos, fila, lote, coletados>>
    PROVE  PassoLoja /\ PassoPilha(t)
<1>1. TypeOk /\ ThreadOk(t) /\ fila \in [Threads -> SUBSET Nat]
  BY DEF IInv, TypeOk, TypeThreads
<1>2. fila[t] \subseteq Ids(ciclos)
  BY <1>1 DEF ThreadOk
<1>3. ASSUME NEW u \in Unidades, NEW p \in Protocolos, PedirCiclo(t, u, p)
      PROVE  PassoLoja /\ PassoPilha(t)
  <2> DEFINE ped == [op |-> "ciclo", unidade |-> u, protocolo |-> p]
  <2>1. Iniciar(t, ped, "numerar", 0) /\ ped \in PedidoCiclo
    BY <1>3 DEF PedirCiclo, PedidoCiclo
  <2> HIDE DEF ped
  <2>2. "numerar" \in Passos /\ "numerar" \notin PassosStatus \cup PassosLote
    BY DEF Passos, PassosCiclo, PassosStatus, PassosLote
  <2> QED
    BY <1>1, <1>2, <2>1, <2>2, IniciarPasso
<1>4. ASSUME NEW u \in Unidades, PedirAtividade(t, u)
      PROVE  PassoLoja /\ PassoPilha(t)
  <2> DEFINE ped == [op |-> "atividade", unidade |-> u, protocolo |-> SemProtocolo,
                     etapa |-> SemEtapa, adita |-> 0, visivel |-> TRUE]
  <2>1. ped \in PedidoAtividade /\ ped.adita = 0
    BY DEF PedidoAtividade
  <2>2. \/ \E c \in CiclosAbertos(u) : Iniciar(t, ped, "salvarEvento", c)
        \/ Iniciar(t, ped, "numerar", 0)
    BY <1>4 DEF PedirAtividade
  <2> HIDE DEF ped
  <2>3. ASSUME NEW c \in CiclosAbertos(u), Iniciar(t, ped, "salvarEvento", c)
        PROVE  PassoLoja /\ PassoPilha(t)
    <3>1. c \in Ids(ciclos) /\ c # 0
      BY DEF CiclosAbertos, Ids
    <3>2. /\ "salvarEvento" \in Passos
          /\ "salvarEvento" \notin PassosStatus \cup PassosLote \cup PassosCiclo
      BY DEF Passos, PassosCiclo, PassosStatus, PassosLote
    <3> QED
      BY <1>1, <1>2, <2>1, <2>3, <3>1, <3>2, IniciarPasso
  <2>4. ASSUME Iniciar(t, ped, "numerar", 0)
        PROVE  PassoLoja /\ PassoPilha(t)
    <3>1. "numerar" \in Passos /\ "numerar" \notin PassosStatus \cup PassosLote
      BY DEF Passos, PassosCiclo, PassosStatus, PassosLote
    <3> QED
      BY <1>1, <1>2, <2>1, <2>4, <3>1, IniciarPasso
  <2> QED
    BY <2>2, <2>3, <2>4
<1>5. ASSUME NEW c \in Ids(ciclos), NEW st \in StatusCiclo, PedirStatus(t, c, st)
      PROVE  PassoLoja /\ PassoPilha(t)
  <2> DEFINE ped == [op |-> "status", status |-> st]
  <2>1. ped \in PedidoStatus /\ ped.status = st /\ c # 0
    BY DEF PedidoStatus, Ids
  <2>2. /\ st \in Transicoes(ciclos[c].status)
        /\ Iniciar(t, ped, IF st = "LOTE_GERADO" THEN "conferirEtapas" ELSE "gravarStatus", c)
    BY <1>5 DEF PedirStatus
  <2> HIDE DEF ped
  <2>3. /\ "conferirEtapas" \in Passos /\ "gravarStatus" \in Passos
        /\ {"conferirEtapas", "gravarStatus"} \cap (PassosCiclo \cup PassosLote) = {}
    BY DEF Passos, PassosCiclo, PassosStatus, PassosLote
  <2>4. CASE st = "LOTE_GERADO"
    BY <1>1, <1>2, <2>1, <2>2, <2>3, <2>4, IniciarPasso
  <2>5. CASE st # "LOTE_GERADO"
    <3>1. st \in Completos => ciclos[c].status = "LOTE_GERADO"
      <4>a. ciclos[c] \in Ciclo
        BY <1>1 DEF TypeOk, TypeLoja, Ids
      <4>1. ciclos[c].status \in StatusCiclo
        BY <4>a DEF Ciclo
      <4> QED
        BY <2>2, <2>5, <4>1 DEF Completos, Transicoes, StatusCiclo
    <3>2. st \in Completos => EtapasFaltando(c) = {}
      BY <3>1 DEF IInv, LoteCompleto
    <3> QED
      BY <1>1, <1>2, <2>1, <2>2, <2>3, <2>5, <3>2, IniciarPasso
  <2> QED
    BY <2>4, <2>5
<1>6. ASSUME NEW c \in Ids(ciclos), NEW etapa \in Etapas, NEW a \in {0} \cup EventosDe(c),
             NEW v \in BOOLEAN, PedirEvento(t, c, etapa, a, v)
      PROVE  PassoLoja /\ PassoPilha(t)
  <2> DEFINE ped == [op |-> "evento", etapa |-> etapa, adita |-> a, visivel |-> v]
  <2>1. ped \in PedidoEvento /\ ped.adita = a /\ c # 0
    BY DEF PedidoEvento, Ids, EventosDe
  <2>2. Iniciar(t, ped, IF a = 0 THEN "salvarEvento" ELSE "marcarAditado", c)
    BY <1>6 DEF PedirEvento
  <2> HIDE DEF ped
  <2>3. /\ "salvarEvento" \in Passos /\ "marcarAditado" \in Passos
        /\ {"salvarEvento", "marcarAditado"} \cap (PassosCiclo \cup PassosLote \cup PassosStatus) = {}
    BY DEF Passos, PassosCiclo, PassosStatus, PassosLote
  <2>4. CASE a = 0
    BY <1>1, <1>2, <2>1, <2>2, <2>3, <2>4, IniciarPasso
  <2>5. CASE a # 0
    BY <1>1, <1>2, <2>1, <2>2, <2>3, <2>5, IniciarPasso
  <2> QED
    BY <2>4, <2>5
<1> QED
  BY <1>3, <1>4, <1>5, <1>6 DEF PedirAoCiclo

LEMMA Sequencias ==
    ASSUME IInv, NEW t \in Threads, LerSeq(t) \/ GravarSeq(t) \/ RelerSeq(t),
           UNCHANGED <<lotes, acessos, fila, lote, coletados>>
    PROVE  PassoLoja /\ PassoPilha(t)
<1>1. /\ TypeOk /\ ThreadOk(t) /\ lido \in [Threads -> Nat] /\ seq \in [Chaves -> Nat]
  BY DEF IInv, TypeOk, TypeThreads, TypeLoja
<1>2. {"numerar", "gravarSeq", "relerSeq", "salvarCiclo"} \subseteq PassosCiclo
  BY DEF PassosCiclo
<1>3. passo[t] \in PassosCiclo
  BY <1>2 DEF LerSeq, GravarSeq, RelerSeq
<1>4. Chave[pedido[t].unidade] \in Chaves
  <2>1. pedido[t].unidade \in Unidades
    BY <1>1, <1>3 DEF ThreadOk, PedidoCiclo, PedidoAtividade
  <2> QED
    BY <2>1 DEF Chaves
<1>5. seq[Chave[pedido[t].unidade]] \in Nat /\ lido[t] + 1 \in Nat
  BY <1>1, <1>4
<1>6. CASE LerSeq(t) \/ RelerSeq(t)
  <2>1. PICK p \in PassosCiclo :
           /\ IrPara(t, p) /\ UNCHANGED <<alvo, seq, ciclos, eventos>>
           /\ lido' = [lido EXCEPT ![t] = seq[Chave[pedido[t].unidade]]]
    BY <1>2, <1>6 DEF LerSeq, RelerSeq, loja
  <2>2. lido' \in [Threads -> Nat]
    BY <1>1, <1>5, <2>1
  <2> QED
    BY <1>1, <1>3, <2>1, <2>2, NumerarPasso
<1>7. CASE GravarSeq(t)
  <2>1. /\ IrPara(t, "relerSeq") /\ UNCHANGED <<alvo, lido, ciclos, eventos>>
        /\ seq' = [seq EXCEPT ![Chave[pedido[t].unidade]] = lido[t] + 1]
    BY <1>7 DEF GravarSeq, Seguinte
  <2>2. seq' \in [Chaves -> Nat]
    BY <1>1, <1>5, <2>1
  <2> QED
    BY <1>1, <1>2, <1>3, <2>1, <2>2, NumerarPasso
<1> QED
  BY <1>6, <1>7

LEMMA CicloSalvo ==
    ASSUME IInv, NEW t \in Threads, SalvarCiclo(t),
           UNCHANGED <<lotes, acessos, fila, lote, coletados>>
    PROVE  PassoLoja /\ PassoPilha(t)
<1>1. /\ TypeOk /\ TypeLoja /\ ThreadOk(t) /\ lido \in [Threads -> Nat]
      /\ alvo \in [Threads -> Nat] /\ fila \in [Threads -> SUBSET Nat]
      /\ lote \in [Threads -> Nat] /\ coletados \in [Threads -> SUBSET Nat]
  BY DEF IInv, TypeOk, TypeThreads
<1> DEFINE x == [unidade |-> pedido[t].unidade, protocolo |-> pedido[t].protocolo,
                 codigo |-> <<Chave[pedido[t].unidade], lido[t]>>, status |-> "ABERTO"]
           novo == Len(ciclos) + 1
<1>2. pedido[t] \in PedidoCiclo \cup PedidoAtividade
  BY <1>1 DEF SalvarCiclo, ThreadOk, PassosCiclo
<1>3. x \in Ciclo /\ x.status = "ABERTO"
  <2>1. pedido[t].unidade \in Unidades /\ pedido[t].protocolo \in Protocolos \cup {SemProtocolo}
    BY <1>2 DEF PedidoCiclo, PedidoAtividade
  <2> QED
    BY <1>1, <2>1 DEF Ciclo, Chaves, StatusCiclo
<1>4. /\ ciclos' = Append(ciclos, x) /\ UNCHANGED <<seq, eventos>>
      /\ \/ Responder(t)
         \/ /\ pedido[t].op = "atividade" /\ alvo' = [alvo EXCEPT ![t] = novo]
            /\ IrPara(t, "salvarEvento") /\ lido' = lido
  BY DEF SalvarCiclo
<1> HIDE DEF x
<1>5. PassoLoja /\ novo \in Ids(ciclos)'
  BY <1>1, <1>3, <1>4, CicloNovo
<1> HIDE DEF novo
<1>6. CASE Responder(t)
  BY <1>1, <1>5, <1>6, ResponderPasso
<1>7. CASE /\ pedido[t].op = "atividade" /\ alvo' = [alvo EXCEPT ![t] = novo]
           /\ IrPara(t, "salvarEvento") /\ lido' = lido
  <2>1. pedido[t] \in PedidoAtividade /\ pedido[t].adita = 0
    BY <1>2, <1>7 DEF PedidoCiclo, PedidoAtividade
  <2>2. /\ "salvarEvento" \in Passos
        /\ "salvarEvento" \notin PassosStatus \cup PassosLote \cup PassosCiclo
    BY DEF Passos, PassosCiclo, PassosStatus, PassosLote
  <2>3. /\ fila[t] \subseteq Ids(ciclos) /\ lote[t] \in {0} \cup Ids(lotes)
        /\ coletados[t] \subseteq Ids(eventos)
    BY <1>1 DEF ThreadOk
  <2> QED
    BY <1>1, <1>5, <1>7, <2>1, <2>2, <2>3, SeguirPasso
<1> QED
  BY <1>4, <1>6, <1>7

LEMMA Transicao ==
    ASSUME IInv, NEW t \in Threads, ConferirEtapas(t) \/ GravarStatus(t),
           UNCHANGED <<lotes, acessos, fila, lote, coletados>>
    PROVE  PassoLoja /\ PassoPilha(t)
<1>1. /\ TypeOk /\ TypeLoja /\ ThreadOk(t) /\ lido \in [Threads -> Nat]
      /\ alvo \in [Threads -> Nat] /\ fila \in [Threads -> SUBSET Nat]
      /\ lote \in [Threads -> Nat] /\ coletados \in [Threads -> SUBSET Nat]
  BY DEF IInv, TypeOk, TypeThreads
<1>2. pedido[t] \in PedidoStatus /\ alvo[t] \in Ids(ciclos)
  BY <1>1 DEF ConferirEtapas, GravarStatus, ThreadOk, PassosStatus
<1>3. CASE ConferirEtapas(t)
  <2>1. PassoLoja
    BY <1>1, <1>3, LojaIgual DEF ConferirEtapas, loja, TypeLoja
  <2>2. CASE Responder(t)
    BY <1>1, <2>1, <2>2, ResponderPasso
  <2>3. CASE EtapasFaltando(alvo[t]) = {} /\ IrPara(t, "gravarStatus") /\ UNCHANGED <<alvo, lido>>
    <3>1. /\ "gravarStatus" \in Passos
          /\ "gravarStatus" \notin PassosLote \cup PassosCiclo
      BY DEF Passos, PassosCiclo, PassosStatus, PassosLote
    <3>2. EtapasFaltando(alvo[t])' = {} /\ alvo[t] \in Ids(ciclos)'
      BY <1>2, <1>3, <2>3 DEF ConferirEtapas, loja, EtapasFaltando, ObrigatoriasDe, EventosDe
    <3>3. /\ fila[t] \subseteq Ids(ciclos) /\ lote[t] \in {0} \cup Ids(lotes)
          /\ coletados[t] \subseteq Ids(eventos)
      BY <1>1 DEF ThreadOk
    <3>4. alvo' = [alvo EXCEPT ![t] = alvo[t]] /\ lido' = lido
      BY <1>1, <2>3
    <3> QED
      BY <1>1, <1>2, <2>1, <2>3, <3>1, <3>2, <3>3, <3>4, SeguirPasso
  <2> QED
    BY <1>3, <2>2, <2>3 DEF ConferirEtapas
<1>4. CASE GravarStatus(t)
  <2> DEFINE st == pedido[t].status
  <2>1. st \in StatusCiclo
    BY <1>2 DEF PedidoStatus
  <2>2. /\ ciclos' = [ciclos EXCEPT ![alvo[t]].status = st] /\ UNCHANGED <<seq, eventos>>
        /\ Responder(t)
    BY <1>4 DEF GravarStatus
  <2>3. st \in Completos => EtapasFaltando(alvo[t]) = {}
    BY <1>4 DEF IInv, Preparado, GravarStatus
  <2> HIDE DEF st
  <2>4. PassoLoja
    BY <1>1, <1>2, <2>1, <2>2, <2>3, StatusNovo
  <2> QED
    BY <1>1, <2>2, <2>4, ResponderPasso
<1> QED
  BY <1>3, <1>4

LEMMA EventoPasso ==
    ASSUME IInv, NEW t \in Threads, MarcarAditado(t) \/ SalvarEvento(t),
           UNCHANGED <<lotes, acessos, fila, lote, coletados>>
    PROVE  PassoLoja /\ PassoPilha(t)
<1>1. /\ TypeOk /\ TypeLoja /\ ThreadOk(t) /\ lido \in [Threads -> Nat]
      /\ alvo \in [Threads -> Nat] /\ fila \in [Threads -> SUBSET Nat]
      /\ lote \in [Threads -> Nat] /\ coletados \in [Threads -> SUBSET Nat]
      /\ Preparado(t)
  BY DEF IInv, TypeOk, TypeThreads
<1>2. alvo[t] \in Ids(ciclos)
  BY <1>1 DEF MarcarAditado, SalvarEvento, ThreadOk
<1>3. CASE MarcarAditado(t)
  <2> DEFINE a == pedido[t].adita
  <2>1. /\ pedido[t] \in PedidoEvento /\ a \in Ids(eventos)
        /\ eventos[a].ciclo = alvo[t]
    <3>1. passo[t] = "marcarAditado" /\ 0 \notin Ids(eventos)
      BY <1>3 DEF MarcarAditado, Ids
    <3> QED
      BY <1>1, <3>1 DEF ThreadOk, Preparado
  <2>2. /\ eventos' = [eventos EXCEPT ![a].validacao = "ADITADO"]
        /\ IrPara(t, "salvarEvento") /\ UNCHANGED <<alvo, lido, seq, ciclos>>
    BY <1>3 DEF MarcarAditado
  <2> HIDE DEF a
  <2>3. PassoLoja /\ eventos'[a].validacao = "ADITADO"
    BY <1>1, <2>1, <2>2, EventoMarcado
  <2>4. eventos'[a].ciclo = alvo[t]
    BY <2>1, <2>3 DEF PassoLoja, Cresce, EventosCrescem
  <2>5. /\ "salvarEvento" \in Passos
        /\ "salvarEvento" \notin PassosLote \cup PassosCiclo \cup PassosStatus
    BY DEF Passos, PassosCiclo, PassosStatus, PassosLote
  <2>6. /\ fila[t] \subseteq Ids(ciclos) /\ lote[t] \in {0} \cup Ids(lotes)
        /\ coletados[t] \subseteq Ids(eventos)
    BY <1>1 DEF ThreadOk
  <2>7. alvo' = [alvo EXCEPT ![t] = alvo[t]] /\ alvo[t] \in Ids(ciclos)'
    BY <1>1, <1>2, <2>2
  <2> QED
    BY <1>1, <2>1, <2>2, <2>3, <2>4, <2>5, <2>6, <2>7, SeguirPasso DEF a
<1>4. CASE SalvarEvento(t)
  <2> DEFINE x == [ciclo |-> alvo[t], etapa |-> pedido[t].etapa, validacao |-> "PENDENTE",
                   adita |-> pedido[t].adita, visivel |-> pedido[t].visivel]
  <2>1. /\ pedido[t].adita \in {0} \cup Ids(eventos)
        /\ pedido[t] \in PedidoEvento \cup PedidoAtividade
    BY <1>1, <1>4 DEF SalvarEvento, ThreadOk
  <2>2. /\ pedido[t].etapa \in Etapas \cup {SemEtapa} /\ pedido[t].visivel \in BOOLEAN
        /\ pedido[t].adita \in Nat
    <3>1. CASE pedido[t] \in PedidoEvento
      <4>1. /\ pedido[t].etapa \in Etapas /\ pedido[t].visivel \in BOOLEAN
            /\ pedido[t].adita \in Nat
        BY <3>1 DEF PedidoEvento
      <4> QED
        BY <4>1
    <3>2. CASE pedido[t] \in PedidoAtividade
      <4>1. /\ pedido[t].etapa \in {SemEtapa} /\ pedido[t].visivel \in {TRUE}
            /\ pedido[t].adita \in {0}
        BY <3>2 DEF PedidoAtividade
      <4>2. pedido[t].visivel \in BOOLEAN
        BY <4>1, Zenon
      <4> QED
        BY <4>1, <4>2
    <3> QED
      BY <2>1, <3>1, <3>2
  <2>3. Len(eventos) \in Nat
    BY <1>1, Tamanhos
  <2>4. x \in Evento /\ x.ciclo \in Ids(ciclos) /\ x.adita <= Len(eventos)
    BY <1>1, <1>2, <2>1, <2>2, <2>3 DEF Evento, StatusValidacao, Ids
  <2>5. eventos' = Append(eventos, x) /\ UNCHANGED <<seq, ciclos>> /\ Responder(t)
    BY <1>4 DEF SalvarEvento
  <2> HIDE DEF x
  <2>6. PassoLoja
    BY <1>1, <2>4, <2>5, EventoNovo
  <2> QED
    BY <1>1, <2>5, <2>6, ResponderPasso
<1> QED
  BY <1>3, <1>4

-----------------------------------------------------------------------------
(***************************************************************************)
(* Lots and the portal.                                                    *)
(***************************************************************************)

LEMMA ProximoPasso ==
    ASSUME TypeOk, PassoLoja, NEW t \in Threads, pedido[t] \in PedidosLote,
           IrPara(t, "proximoCiclo"), UNCHANGED <<alvo, lido, lote, coletados>>,
           fila' \in [Threads -> SUBSET Nat], fila'[t] \subseteq Ids(ciclos),
           \A u \in Threads \ {t} : fila'[u] = fila[u]
    PROVE  PassoPilha(t)
<1>1. TipoPilha'
  BY DEF TipoPilha, TypeOk, TypeThreads, IrPara, Passos
<1>2. \A u \in Threads \ {t} : MesmaPilha(u)
  BY DEF MesmaPilha, TypeOk, TypeThreads, IrPara
<1>3. passo'[t] = "proximoCiclo" /\ pedido' = pedido /\ ThreadOk(t)
  BY DEF TypeOk, TypeThreads, IrPara
<1>4. /\ Ids(ciclos) \subseteq Ids(ciclos)' /\ Ids(eventos) \subseteq Ids(eventos)'
      /\ Ids(lotes) \subseteq Ids(lotes)'
  BY IdsCrescem DEF TypeOk, PassoLoja
<1>5. "proximoCiclo" \notin PassosStatus \cup PassosLote \cup PassosCiclo
  BY DEF PassosLote, PassosCiclo, PassosStatus
<1>6. ThreadOk(t)'
  BY <1>3, <1>4, <1>5 DEF ThreadOk
<1>7. Preparado(t)'
  BY <1>3 DEF Preparado
<1> QED
  BY <1>1, <1>2, <1>6, <1>7 DEF PassoPilha

LEMMA PedidosDeLote ==
    ASSUME IInv, NEW t \in Threads,
           \/ \E u \in Unidades : PedirPortal(t, u)
           \/ \E c \in Ids(ciclos) : PedirLote(t, c)
    PROVE  PassoLoja /\ PassoPilha(t)
<1>1. TypeOk /\ ThreadOk(t) /\ fila \in [Threads -> SUBSET Nat]
  BY DEF IInv, TypeOk, TypeThreads
<1>2. fila[t] \subseteq Ids(ciclos)
  BY <1>1 DEF ThreadOk
<1>3. ASSUME NEW u \in Unidades, PedirPortal(t, u)
      PROVE  PassoLoja /\ PassoPilha(t)
  <2> DEFINE ped == [op |-> "portal"]
  <2>1. /\ Iniciar(t, ped, "proximoCiclo", 0) /\ fila' = [fila EXCEPT ![t] = CiclosAbertos(u)]
        /\ UNCHANGED <<lotes, acessos, lote, coletados>> /\ ped \in PedidosLote
    BY <1>3 DEF PedirPortal, PedidosLote
  <2>2. CiclosAbertos(u) \subseteq Ids(ciclos) /\ Ids(ciclos) \subseteq Nat
    BY DEF CiclosAbertos, Ids
  <2> HIDE DEF ped
  <2>3. /\ fila' \in [Threads -> SUBSET Nat] /\ fila'[t] \subseteq Ids(ciclos)
        /\ \A v \in Threads \ {t} : fila'[v] = fila[v]
    BY <1>1, <2>1, <2>2
  <2>4. /\ "proximoCiclo" \in Passos
        /\ "proximoCiclo" \notin PassosStatus \cup PassosLote \cup PassosCiclo
    BY DEF Passos, PassosCiclo, PassosStatus, PassosLote
  <2> QED
    BY <1>1, <2>1, <2>3, <2>4, IniciarPasso
<1>4. ASSUME NEW c \in Ids(ciclos), PedirLote(t, c)
      PROVE  PassoLoja /\ PassoPilha(t)
  <2> DEFINE ped == [op |-> "lote"]
  <2>1. /\ Iniciar(t, ped, "conferirLote", c) /\ ped \in PedidosLote
        /\ UNCHANGED <<lotes, acessos, fila, lote, coletados>> /\ c # 0
    BY <1>4 DEF PedirLote, PedidosLote, Ids
  <2> HIDE DEF ped
  <2>2. /\ "conferirLote" \in Passos
        /\ "conferirLote" \notin PassosStatus \cup PassosCiclo
    BY DEF Passos, PassosCiclo, PassosStatus, PassosLote
  <2> QED
    BY <1>1, <1>2, <2>1, <2>2, IniciarPasso
<1> QED
  BY <1>3, <1>4

\* The checks of generate change nothing in the store.
LEMMA Conferencias ==
    ASSUME IInv, NEW t \in Threads, ConferirStatus(t) \/ ConferirLote(t)
    PROVE  PassoLoja /\ PassoPilha(t)
<1>1. TypeOk /\ TypeLoja
  BY DEF IInv, TypeOk
<1>2. UNCHANGED <<seq, ciclos, eventos, lotes, acessos>>
  BY DEF ConferirStatus, ConferirLote, loja
<1>3. PassoLoja
  BY <1>1, <1>2, LojaIgual DEF TypeLoja
<1>4. /\ passo[t] \in PassosLote
      /\ {"conferirLote", "listarEventos"} \subseteq PassosLote \ {"salvarLote", "marcarCiclo"}
  BY DEF ConferirStatus, ConferirLote, PassosLote
<1>5. \/ Encerrar(t)
      \/ \E p \in {"conferirLote", "listarEventos"} :
             Seguir(t, p) /\ UNCHANGED <<fila, lote, coletados>>
  BY DEF ConferirStatus, ConferirLote
<1> QED
  BY <1>1, <1>3, <1>4, <1>5, EncerrarLote, SeguirLote

LEMMA Listagem ==
    ASSUME IInv, NEW t \in Threads, ListarEventos(t)
    PROVE  PassoLoja /\ PassoPilha(t)
<1>1. /\ TypeOk /\ TypeLoja /\ ThreadOk(t) /\ lido \in [Threads -> Nat]
      /\ alvo \in [Threads -> Nat] /\ fila \in [Threads -> SUBSET Nat]
      /\ lote \in [Threads -> Nat] /\ coletados \in [Threads -> SUBSET Nat]
  BY DEF IInv, TypeOk, TypeThreads
<1>2. UNCHANGED <<seq, ciclos, eventos, lotes, acessos>>
  BY DEF ListarEventos, loja
<1>3. PassoLoja
  BY <1>1, <1>2, LojaIgual DEF TypeLoja
<1>4. CASE Encerrar(t)
  BY <1>1, <1>3, <1>4, EncerrarLote
<1>5. CASE /\ EtapasFaltando(alvo[t]) = {} /\ Seguir(t, "salvarLote") /\ UNCHANGED <<fila, lote>>
           /\ coletados' = [coletados EXCEPT ![t] = EventosDe(alvo[t])]
  <2>1. /\ pedido[t] \in PedidosLote /\ alvo[t] \in Ids(ciclos)
        /\ fila[t] \subseteq Ids(ciclos) /\ lote[t] \in {0} \cup Ids(lotes)
    BY <1>1 DEF ListarEventos, ThreadOk, PassosLote
  <2>2. EventosDe(alvo[t]) \subseteq Ids(eventos) /\ Ids(eventos) \subseteq Nat
    BY DEF EventosDe, Ids
  <2>3. /\ coletados' \in [Threads -> SUBSET Nat] /\ coletados'[t] = EventosDe(alvo[t])
        /\ \A u \in Threads \ {t} : coletados'[u] = coletados[u]
    BY <1>1, <1>5, <2>2
  <2>4. alvo' = [alvo EXCEPT ![t] = alvo[t]] /\ lido' = lido /\ IrPara(t, "salvarLote")
    BY <1>1, <1>5 DEF Seguir
  <2>5. EtapasFaltando(alvo[t])' = {} /\ alvo[t] \in Ids(ciclos)'
    BY <1>2, <1>5, <2>1 DEF Seguir, EtapasFaltando, ObrigatoriasDe, EventosDe
  <2>6. ObrigatoriasDe(alvo[t])' \subseteq {eventos'[e].etapa : e \in coletados'[t]}
    BY <1>2, <1>5, <2>3 DEF Seguir, EtapasFaltando, ObrigatoriasDe, EventosDe
  <2>7. /\ "salvarLote" \in Passos
        /\ "salvarLote" \notin PassosStatus \cup PassosCiclo
    BY DEF Passos, PassosCiclo, PassosStatus, PassosLote
  <2> QED
    BY <1>1, <1>2, <1>3, <1>5, <2>1, <2>2, <2>3, <2>4, <2>5, <2>6, <2>7, SeguirPasso
<1> QED
  BY <1>4, <1>5 DEF ListarEventos

LEMMA LoteSalvo ==
    ASSUME IInv, NEW t \in Threads, SalvarLote(t)
    PROVE  PassoLoja /\ PassoPilha(t)
<1>1. /\ TypeOk /\ TypeLoja /\ ThreadOk(t) /\ lido \in [Threads -> Nat]
      /\ alvo \in [Threads -> Nat] /\ fila \in [Threads -> SUBSET Nat]
      /\ lote \in [Threads -> Nat] /\ coletados \in [Threads -> SUBSET Nat]
      /\ Preparado(t)
  BY DEF IInv, TypeOk, TypeThreads
<1> DEFINE x == NovoLote(t)
           novo == Len(lotes) + 1
<1>2. /\ pedido[t] \in PedidosLote /\ alvo[t] \in Ids(ciclos) /\ coletados[t] \subseteq Ids(eventos)
      /\ EtapasFaltando(alvo[t]) = {} /\ fila[t] \subseteq Ids(ciclos)
      /\ ObrigatoriasDe(alvo[t]) \subseteq {eventos[e].etapa : e \in coletados[t]}
  BY <1>1 DEF SalvarLote, ThreadOk, PassosLote, Preparado
<1>3. ciclos[alvo[t]] \in Ciclo
  BY <1>1, <1>2 DEF TypeLoja, Ids
<1>4. ciclos[alvo[t]].codigo \in Chaves \X Nat
  BY <1>3 DEF Ciclo
<1>5. x \in Lote /\ x.ciclo = alvo[t] /\ x.eventos = coletados[t]
  BY <1>1, <1>4 DEF NovoLote, InstantaneoDe, Lote, StatusLote
<1>6. /\ lotes' = Append(lotes, x) /\ lote' = [lote EXCEPT ![t] = novo]
      /\ IrPara(t, "marcarCiclo") /\ UNCHANGED <<alvo, lido, fila, coletados>>
      /\ UNCHANGED <<seq, ciclos, eventos, acessos>>
  BY DEF SalvarLote, Seguir, loja
<1> HIDE DEF x
<1>7. PassoLoja /\ novo \in Ids(lotes)'
  BY <1>1, <1>2, <1>5, <1>6, LoteNovo
<1>8. novo \in Nat \ {0}
  BY <1>1, Tamanhos
<1> HIDE DEF novo
<1>9. /\ lote' \in [Threads -> Nat] /\ lote'[t] = novo
      /\ \A u \in Threads \ {t} : lote'[u] = lote[u]
  BY <1>1, <1>6, <1>8
<1>10. EtapasFaltando(alvo[t])' = {} /\ alvo[t] \in Ids(ciclos)'
  BY <1>2, <1>6 DEF EtapasFaltando, ObrigatoriasDe, EventosDe
<1>11. /\ "marcarCiclo" \in Passos /\ "marcarCiclo" \notin PassosStatus \cup PassosCiclo
  BY DEF Passos, PassosCiclo, PassosStatus, PassosLote
<1>12. alvo' = [alvo EXCEPT ![t] = alvo[t]]
  BY <1>1, <1>6
<1> QED
  BY <1>1, <1>2, <1>6, <1>7, <1>8, <1>9, <1>10, <1>11, <1>12, SeguirPasso

LEMMA CicloMarcado ==
    ASSUME IInv, NEW t \in Threads, MarcarCiclo(t)
    PROVE  PassoLoja /\ PassoPilha(t)
<1>1. TypeOk /\ TypeLoja /\ ThreadOk(t) /\ Preparado(t)
  BY DEF IInv, TypeOk, TypeThreads
<1>2. /\ passo[t] \in PassosLote /\ alvo[t] \in Ids(ciclos) /\ lote[t] # 0
      /\ EtapasFaltando(alvo[t]) = {}
  BY <1>1 DEF MarcarCiclo, ThreadOk, PassosLote, Preparado
<1>3. /\ ciclos' = [ciclos EXCEPT ![alvo[t]].status = "LOTE_GERADO"]
      /\ UNCHANGED <<seq, eventos, lotes, acessos>>
      /\ \/ Encerrar(t)
         \/ Seguir(t, "publicar") /\ UNCHANGED <<fila, lote, coletados>>
  BY DEF MarcarCiclo
<1>4. "LOTE_GERADO" \in StatusCiclo
  BY DEF StatusCiclo
<1>5. PassoLoja
  BY <1>1, <1>2, <1>3, <1>4, StatusNovo
<1>6. "publicar" \in PassosLote \ {"salvarLote", "marcarCiclo"}
  BY DEF PassosLote
<1> QED
  BY <1>1, <1>2, <1>3, <1>5, <1>6, EncerrarLote, SeguirLote

LEMMA ProximoDaFila ==
    ASSUME IInv, NEW t \in Threads, ProximoCiclo(t)
    PROVE  PassoLoja /\ PassoPilha(t)
<1>1. /\ TypeOk /\ TypeLoja /\ ThreadOk(t) /\ lido \in [Threads -> Nat]
      /\ alvo \in [Threads -> Nat] /\ fila \in [Threads -> SUBSET Nat]
      /\ lote \in [Threads -> Nat] /\ coletados \in [Threads -> SUBSET Nat]
      /\ passo \in [Threads -> Passos]
  BY DEF IInv, TypeOk, TypeThreads
<1>2. UNCHANGED <<seq, ciclos, eventos, lotes, acessos>>
  BY DEF ProximoCiclo, loja
<1>3. PassoLoja
  BY <1>1, <1>2, LojaIgual DEF TypeLoja
<1>4. /\ pedido[t] \in PedidosLote /\ fila[t] \subseteq Ids(ciclos)
      /\ lote[t] \in {0} \cup Ids(lotes) /\ coletados[t] \subseteq Ids(eventos)
  BY <1>1 DEF ProximoCiclo, ThreadOk
<1>5. CASE Encerrar(t)
  BY <1>1, <1>3, <1>5, EncerrarLote
<1>6. ASSUME NEW c \in fila[t], fila' = [fila EXCEPT ![t] = @ \ {c}],
             UNCHANGED <<lote, coletados>>,
             \/ UNCHANGED <<pilha>>
             \/ alvo' = [alvo EXCEPT ![t] = c] /\ IrPara(t, "EM_PRODUCAO") /\ lido' = lido
      PROVE  PassoPilha(t)
  <2>1. /\ fila' \in [Threads -> SUBSET Nat] /\ fila'[t] \subseteq Ids(ciclos)
        /\ \A u \in Threads \ {t} : fila'[u] = fila[u]
    BY <1>1, <1>4, <1>6
  <2>2. CASE UNCHANGED <<pilha>>
    <3>1. UNCHANGED <<pedido, passo, alvo, lido, iniciados>>
      BY <2>2 DEF pilha
    <3>2. IrPara(t, "proximoCiclo")
      BY <1>1, <3>1 DEF IrPara, ProximoCiclo
    <3> QED
      BY <1>1, <1>3, <1>4, <1>6, <2>1, <3>1, <3>2, ProximoPasso
  <2>3. CASE alvo' = [alvo EXCEPT ![t] = c] /\ IrPara(t, "EM_PRODUCAO") /\ lido' = lido
    <3>1. /\ "EM_PRODUCAO" \in Passos
          /\ "EM_PRODUCAO" \notin PassosStatus \cup PassosCiclo
      BY DEF Passos, PassosCiclo, PassosStatus, PassosLote
    <3>2. c \in Ids(ciclos)'
      BY <1>2, <1>4, <1>6
    <3> QED
      BY <1>1, <1>2, <1>3, <1>4, <1>6, <2>1, <2>3, <3>1, <3>2, SeguirPasso
  <2> QED
    BY <1>6, <2>2, <2>3
<1> QED
  BY <1>3, <1>5, <1>6 DEF ProximoCiclo

LEMMA StatusAvancado ==
    ASSUME IInv, NEW t \in Threads, AvancarStatus(t)
    PROVE  PassoLoja /\ PassoPilha(t)
<1>1. TypeOk /\ TypeLoja /\ ThreadOk(t)
  BY DEF IInv, TypeOk, TypeThreads
<1>2. /\ passo[t] \in {"EM_PRODUCAO", "ENCERRADO", "VALIDANDO"}
      /\ ciclos' = [ciclos EXCEPT ![alvo[t]].status = passo[t]]
      /\ Seguir(t, DepoisDe(passo[t])) /\ UNCHANGED <<fila, lote, coletados>>
      /\ UNCHANGED <<seq, eventos, lotes, acessos>>
  BY DEF AvancarStatus
<1>3. /\ passo[t] \in PassosLote /\ passo[t] \in StatusCiclo /\ passo[t] \notin Completos
      /\ DepoisDe(passo[t]) \in {"ENCERRADO", "VALIDANDO", "conferirStatus"}
  BY <1>2 DEF PassosLote, StatusCiclo, Completos, DepoisDe
<1>4. alvo[t] \in Ids(ciclos)
  BY <1>1, <1>3 DEF ThreadOk
<1>5. PassoLoja
  BY <1>1, <1>2, <1>3, <1>4, StatusNovo
<1>6. DepoisDe(passo[t]) \in PassosLote \ {"salvarLote", "marcarCiclo"}
          /\ DepoisDe(passo[t]) # "publicar"
  BY <1>3 DEF PassosLote
<1> QED
  BY <1>1, <1>2, <1>3, <1>5, <1>6, SeguirLote

LEMMA LotePublicado ==
    ASSUME IInv, NEW t \in Threads, PublicarPortal(t)
    PROVE  PassoLoja /\ PassoPilha(t)
<1>1. TypeOk /\ TypeLoja /\ ThreadOk(t) /\ fila \in [Threads -> SUBSET Nat]
  BY DEF IInv, TypeOk, TypeThreads
<1>2. /\ pedido[t] \in PedidosLote /\ lote[t] \in Ids(lotes) /\ fila[t] \subseteq Ids(ciclos)
  BY <1>1 DEF PublicarPortal, ThreadOk, PassosLote
<1>3. UNCHANGED <<seq, ciclos, eventos, acessos>>
  BY DEF PublicarPortal
<1>4. CASE Expor(lote[t]) /\ Seguir(t, "proximoCiclo") /\ UNCHANGED <<fila, lote, coletados>>
  <2>1. PassoLoja
    BY <1>1, <1>2, <1>3, <1>4, LoteExposto
  <2> QED
    BY <1>1, <1>2, <1>4, <2>1, ProximoPasso DEF Seguir
<1>5. CASE Encerrar(t) /\ lotes' = lotes
  <2>1. PassoLoja
    BY <1>1, <1>3, <1>5, LojaIgual DEF TypeLoja
  <2> QED
    BY <1>1, <1>5, <2>1, EncerrarLote
<1> QED
  BY <1>4, <1>5 DEF PublicarPortal

-----------------------------------------------------------------------------
(***************************************************************************)
(* The invariant.                                                          *)
(***************************************************************************)

PilhaIgual == UNCHANGED <<pedido, passo, alvo, lido, fila, lote, coletados>>

\* A step of the store that no handler takes: POST publish, GET /p, a stutter.
Publicacao == UNCHANGED vars \/ \E l \in Ids(lotes) : Publicar(l) \/ AbrirPagina(l)

LEMMA SemHandler ==
    ASSUME IInv, Publicacao
    PROVE  PassoLoja /\ PilhaIgual
<1>1. TypeOk /\ TypeLoja
  BY DEF IInv, TypeOk
<1>2. CASE UNCHANGED vars
  <2>1. UNCHANGED <<loja, pilha, lotes, acessos, fila, lote, coletados>>
    BY <1>2 DEF vars
  <2>2. UNCHANGED <<seq, ciclos, eventos, lotes, acessos>> /\ PilhaIgual
    BY <2>1 DEF loja, pilha, PilhaIgual
  <2> QED
    BY <1>1, <2>2, LojaIgual DEF TypeLoja
<1>3. ASSUME NEW l \in Ids(lotes), Publicar(l)
      PROVE  PassoLoja /\ PilhaIgual
  <2>1. PilhaIgual /\ Expor(l) /\ UNCHANGED <<seq, ciclos, eventos, acessos>>
    BY <1>3 DEF Publicar, PilhaIgual
  <2> QED
    BY <1>1, <2>1, LoteExposto
<1>4. ASSUME NEW l \in Ids(lotes), AbrirPagina(l)
      PROVE  PassoLoja /\ PilhaIgual
  <2>1. UNCHANGED <<loja, pilha, lotes, fila, lote, coletados>> /\ acessos' = acessos \cup {l}
    BY <1>4 DEF AbrirPagina
  <2>2. UNCHANGED <<seq, ciclos, eventos, lotes>> /\ PilhaIgual
    BY <2>1 DEF loja, pilha, PilhaIgual
  <2> QED
    BY <1>1, <2>1, <2>2, LojaIgual DEF TypeLoja
<1> QED
  BY <1>2, <1>3, <1>4 DEF Publicacao

\* A step of the handler of t, or the arrival of its request.
Agir(t) ==
    \/ NextCiclos(t) /\ UNCHANGED <<lotes, acessos, fila, lote, coletados>>
    \/ \E u \in Unidades : PedirPortal(t, u)
    \/ \E c \in Ids(ciclos) : PedirLote(t, c)
    \/ ConferirStatus(t) \/ ConferirLote(t) \/ ListarEventos(t)
    \/ SalvarLote(t) \/ MarcarCiclo(t)
    \/ ProximoCiclo(t) \/ AvancarStatus(t) \/ PublicarPortal(t)

\* One action, one lemma.
LEMMA Handlers ==
    ASSUME IInv, NEW t \in Threads, Agir(t)
    PROVE  PassoLoja /\ PassoPilha(t)
<1>1. CASE NextCiclos(t) /\ UNCHANGED <<lotes, acessos, fila, lote, coletados>>
  BY <1>1, Pedidos, Sequencias, CicloSalvo, Transicao, EventoPasso DEF NextCiclos
<1> QED
  BY <1>1, PedidosDeLote, Conferencias, Listagem, LoteSalvo, CicloMarcado,
     ProximoDaFila, StatusAvancado, LotePublicado DEF Agir

LEMMA PassosDe == [Next]_vars => Publicacao \/ \E t \in Threads : Agir(t)
BY DEF Next, Agir, Publicacao

LEMMA PassoDaLoja ==
    ASSUME IInv, [Next]_vars
    PROVE  PassoLoja
BY SemHandler, Handlers, PassosDe

LEMMA LoteCompletoPasso ==
    ASSUME IInv, PassoLoja
    PROVE  LoteCompleto'
<1>1. TypeLoja /\ TypeLoja' /\ Cresce /\ LotesNovos /\ CiclosNovos /\ LoteCompleto
  BY DEF IInv, TypeOk, PassoLoja
<1>2. ASSUME NEW l \in Ids(lotes)'
      PROVE  ObrigatoriasDe(lotes[l].ciclo)' \subseteq {eventos'[e].etapa : e \in lotes'[l].eventos}
  <2>1. /\ lotes'[l].ciclo \in Ids(ciclos) /\ lotes'[l].eventos \subseteq Ids(eventos)
        /\ ObrigatoriasDe(lotes'[l].ciclo) \subseteq {eventos[e].etapa : e \in lotes'[l].eventos}
    <3>1. CASE l \in Ids(lotes)
      BY <1>1, <3>1 DEF TypeLoja, Cresce, LotesCrescem, LoteCompleto
    <3>2. CASE l \notin Ids(lotes)
      BY <1>1, <1>2, <3>2 DEF LotesNovos, Ids
    <3> QED
      BY <3>1, <3>2
  <2>2. \A e \in lotes'[l].eventos : eventos'[e].etapa = eventos[e].etapa
    BY <1>1, <2>1 DEF Cresce, EventosCrescem
  <2>3. ObrigatoriasDe(lotes[l].ciclo)' = ObrigatoriasDe(lotes'[l].ciclo)
    BY <1>1, <2>1 DEF ObrigatoriasDe, Cresce, CiclosCrescem
  <2> QED
    BY <2>1, <2>2, <2>3
<1>3. ASSUME NEW c \in Ids(ciclos)', ciclos'[c].status \in Completos
      PROVE  EtapasFaltando(c)' = {}
  <2>1. c \in Ids(ciclos) /\ (ciclos'[c].status = ciclos[c].status \/ EtapasFaltando(c) = {})
    BY <1>1, <1>3 DEF CiclosNovos, Ids
  <2>2. EtapasFaltando(c) = {}
    BY <1>1, <1>3, <2>1 DEF LoteCompleto, Completos
  <2> QED
    BY <1>1, <2>1, <2>2, FaltandoDiminui
<1> QED
  BY <1>2, <1>3 DEF LoteCompleto, Completos

LEMMA Pilhas ==
    ASSUME IInv, PassoLoja, PilhaIgual \/ \E t \in Threads : PassoPilha(t)
    PROVE  TypeThreads' /\ \A u \in Threads : Preparado(u)'
<1>1. TypeOk /\ TypeThreads /\ \A u \in Threads : Preparado(u)
  BY DEF IInv, TypeOk
<1>2. CASE PilhaIgual
  <2>1. TipoPilha'
    BY <1>1, <1>2 DEF TypeThreads, TipoPilha, PilhaIgual
  <2>2. ASSUME NEW u \in Threads PROVE ThreadOk(u)' /\ Preparado(u)'
    <3>1. MesmaPilha(u)
      BY <1>2 DEF PilhaIgual, MesmaPilha
    <3> QED
      BY <1>1, <3>1, OutraPilha
  <2> QED
    BY <2>1, <2>2 DEF TypeThreads, TipoPilha
<1>3. ASSUME NEW t \in Threads, PassoPilha(t)
      PROVE  TypeThreads' /\ \A u \in Threads : Preparado(u)'
  <2>1. ASSUME NEW u \in Threads PROVE ThreadOk(u)' /\ Preparado(u)'
    BY <1>1, <1>3, OutraPilha DEF PassoPilha
  <2> QED
    BY <1>3, <2>1 DEF PassoPilha, TypeThreads, TipoPilha
<1> QED
  BY <1>2, <1>3

LEMMA InvInicial == Init => IInv
<1> SUFFICES ASSUME Init PROVE IInv
  OBVIOUS
<1>1. /\ ciclos = <<>> /\ eventos = <<>> /\ lotes = <<>> /\ acessos = {}
      /\ seq = [k \in Chaves |-> 0]
  BY DEF Init, InitCiclos, InitLotes
<1>2. Ids(ciclos) = {} /\ Ids(eventos) = {} /\ Ids(lotes) = {}
  BY <1>1 DEF Ids
<1>3. TypeLoja
  BY <1>1, <1>2 DEF TypeLoja
<1>4. TipoPilha
  BY DEF Init, InitCiclos, InitLotes, TipoPilha, Passos
<1>5. ASSUME NEW t \in Threads PROVE ThreadOk(t) /\ Preparado(t)
  <2>1. /\ passo[t] = "livre" /\ alvo[t] = 0 /\ lote[t] = 0
        /\ fila[t] = {} /\ coletados[t] = {}
    BY DEF Init, InitCiclos, InitLotes
  <2> QED
    BY <2>1 DEF ThreadOk, Preparado, PassosCiclo, PassosStatus, PassosLote
<1> QED
  BY <1>2, <1>3, <1>4, <1>5 DEF IInv, TypeOk, TypeThreads, TipoPilha, LoteCompleto

LEMMA InvIndutivo == IInv /\ [Next]_vars => IInv'
<1> SUFFICES ASSUME IInv, [Next]_vars PROVE IInv'
  OBVIOUS
<1>1. PassoLoja
  BY PassoDaLoja
<1>2. PilhaIgual \/ \E t \in Threads : PassoPilha(t)
  BY SemHandler, Handlers, PassosDe
<1> QED
  BY <1>1, <1>2, LoteCompletoPasso, Pilhas DEF IInv, TypeOk, PassoLoja

LEMMA InvSempre == Spec => []IInv
BY InvInicial, InvIndutivo, PTL DEF Spec

\* Every entity and every reference in the store, and all that the handlers of
\* any number of concurrent requests have in hand, is well formed.
THEOREM TipoCorreto == Spec => []TypeOk
<1>1. IInv => TypeOk
  BY DEF IInv
<1> QED
  BY <1>1, InvSempre, PTL

\* RN-01 for any protocols and any number of threads: a lot covers every
\* obligatory step of its cycle, although its checks and its writes are
\* separate steps of a handler that holds no lock.
THEOREM LotesCompletos == Spec => []LoteCompleto
<1>1. IInv => LoteCompleto
  BY DEF IInv
<1> QED
  BY <1>1, InvSempre, PTL

-----------------------------------------------------------------------------
(***************************************************************************)
(* Amendments and the audit log.                                           *)
(***************************************************************************)

\* A thread that serves nothing is nowhere in a handler.
LEMMA LivreParado ==
    ASSUME IInv, NEW t \in Threads, pedido[t] = Livre
    PROVE  passo[t] = "livre"
<1>1. ThreadOk(t) /\ passo[t] \in Passos
  BY DEF IInv, TypeOk, TypeThreads
<1> QED
  BY <1>1, LivreAssumption DEF ThreadOk, Passos

\* Only the two actions on events write them, and only the second leaves salvarEvento.
LEMMA EventosIguais ==
    ASSUME IInv, NEW t \in Threads, Agir(t), ~MarcarAditado(t), ~SalvarEvento(t)
    PROVE  eventos' = eventos /\ passo[t] # "salvarEvento"
<1>1. CASE NextCiclos(t)
  <2>1. CASE PedirAoCiclo(t)
    BY <2>1, LivreParado DEF PedirAoCiclo, PedirAtividade, PedirCiclo, PedirStatus, PedirEvento,
       Iniciar, loja
  <2> QED
    BY <1>1, <2>1 DEF NextCiclos, LerSeq, GravarSeq, RelerSeq, SalvarCiclo, ConferirEtapas,
       GravarStatus, loja
<1>2. CASE (\E u \in Unidades : PedirPortal(t, u)) \/ \E c \in Ids(ciclos) : PedirLote(t, c)
  BY <1>2, LivreParado DEF PedirPortal, PedirLote, Iniciar, loja
<1> QED
  BY <1>1, <1>2 DEF Agir, ConferirStatus, ConferirLote, ListarEventos, SalvarLote, MarcarCiclo,
     ProximoCiclo, AvancarStatus, PublicarPortal, loja, Seguir

\* A marked event has its amendment, or somebody is about to save it.
Aditado(o) ==
    \/ \E e \in Ids(eventos) : eventos[e].adita = o
    \/ \E t \in Threads : passo[t] = "salvarEvento" /\ pedido[t].adita = o

LEMMA AditadoFica ==
    ASSUME IInv, [Next]_vars, NEW o, Aditado(o)
    PROVE  Aditado(o)'
<1>1. TypeLoja /\ PassoLoja
  BY PassoDaLoja DEF IInv, TypeOk
<1>2. Ids(eventos) \subseteq Ids(eventos)'
  BY <1>1, IdsCrescem DEF PassoLoja
<1>3. CASE \E e \in Ids(eventos) : eventos[e].adita = o
  BY <1>1, <1>2, <1>3 DEF Aditado, PassoLoja, Cresce, EventosCrescem
<1>4. ASSUME NEW u \in Threads, passo[u] = "salvarEvento", pedido[u].adita = o
      PROVE  Aditado(o)'
  <2>1. CASE MesmaPilha(u)
    BY <1>4, <2>1 DEF MesmaPilha, Aditado
  <2>2. CASE SalvarEvento(u)
    <3> DEFINE x == [ciclo |-> alvo[u], etapa |-> pedido[u].etapa, validacao |-> "PENDENTE",
                     adita |-> pedido[u].adita, visivel |-> pedido[u].visivel]
    <3>1. eventos' = Append(eventos, x) /\ x.adita = o
      BY <1>4, <2>2 DEF SalvarEvento
    <3> HIDE DEF x
    <3>2. Len(eventos) + 1 \in Ids(eventos)' /\ eventos'[Len(eventos) + 1] = x
      BY <1>1, <3>1 DEF TypeLoja, Ids
    <3> QED
      BY <3>1, <3>2 DEF Aditado
  <2>3. MesmaPilha(u) \/ SalvarEvento(u)
    <3>1. CASE Publicacao
      BY <3>1, SemHandler DEF PilhaIgual, MesmaPilha
    <3>2. ASSUME NEW t \in Threads, Agir(t) PROVE MesmaPilha(u) \/ SalvarEvento(u)
      <4>1. CASE u = t
        BY <1>4, <3>2, <4>1, EventosIguais DEF MarcarAditado
      <4> QED
        BY <3>2, <4>1, Handlers DEF PassoPilha
    <3> QED
      BY <3>1, <3>2, PassosDe
  <2> QED
    BY <2>1, <2>2, <2>3
<1> QED
  BY <1>3, <1>4 DEF Aditado

\* What a step registers: an event amends a marked one of its cycle, and is marked
\* by a handler that goes on to save the amendment.
LEMMA EventosNovos ==
    ASSUME IInv, [Next]_vars, NEW e \in Ids(eventos)'
    PROVE  /\ e \in Ids(eventos) \/ eventos'[e].adita = 0 \/
                  LET o == eventos'[e].adita
                  IN  /\ o \in Ids(eventos) /\ eventos[o].ciclo = eventos'[e].ciclo
                      /\ eventos[o].validacao = "ADITADO"
           /\ eventos'[e].validacao = "ADITADO" =>
                  e \in Ids(eventos) /\ (eventos[e].validacao = "ADITADO" \/ Aditado(e)')
<1>1. TypeLoja
  BY DEF IInv, TypeOk
<1>2. CASE eventos' = eventos
  BY <1>2 DEF Ids
<1>3. ASSUME NEW t \in Threads, Agir(t), MarcarAditado(t) \/ SalvarEvento(t)
      PROVE  /\ e \in Ids(eventos) \/ eventos'[e].adita = 0 \/
                    LET o == eventos'[e].adita
                    IN  /\ o \in Ids(eventos) /\ eventos[o].ciclo = eventos'[e].ciclo
                        /\ eventos[o].validacao = "ADITADO"
             /\ eventos'[e].validacao = "ADITADO" =>
                    e \in Ids(eventos) /\ (eventos[e].validacao = "ADITADO" \/ Aditado(e)')
  <2>1. ThreadOk(t) /\ Preparado(t) /\ passo \in [Threads -> Passos]
    BY DEF IInv, TypeOk, TypeThreads
  <2>2. CASE MarcarAditado(t)
    <3> DEFINE a == pedido[t].adita
    <3>1. a \in Ids(eventos)
      BY <2>1, <2>2 DEF MarcarAditado, ThreadOk
    <3>2. eventos' = [eventos EXCEPT ![a].validacao = "ADITADO"]
      BY <2>2 DEF MarcarAditado
    <3>3. passo'[t] = "salvarEvento" /\ pedido'[t].adita = a
      BY <2>1, <2>2 DEF MarcarAditado, IrPara
    <3>4. e = a => Aditado(e)'
      BY <3>3 DEF Aditado
    <3> HIDE DEF a
    <3>5. Ids(eventos)' = Ids(eventos) /\ \A d \in Ids(eventos) : d # a => eventos'[d] = eventos[d]
      BY <1>1, <3>1, <3>2 DEF TypeLoja, Ids
    <3> QED
      BY <3>4, <3>5
  <2>3. CASE SalvarEvento(t)
    <3> DEFINE x == [ciclo |-> alvo[t], etapa |-> pedido[t].etapa, validacao |-> "PENDENTE",
                     adita |-> pedido[t].adita, visivel |-> pedido[t].visivel]
    <3>1. eventos' = Append(eventos, x) /\ passo[t] = "salvarEvento"
      BY <2>3 DEF SalvarEvento
    <3>2. pedido[t].adita # 0 => /\ x.adita \in Ids(eventos) /\ eventos[x.adita].ciclo = x.ciclo
                                 /\ eventos[x.adita].validacao = "ADITADO"
      BY <2>1, <3>1 DEF ThreadOk, Preparado
    <3>3. x.validacao = "PENDENTE" /\ x.adita = pedido[t].adita
      OBVIOUS
    <3> HIDE DEF x
    <3>4. /\ e \in Ids(eventos) => eventos'[e] = eventos[e]
          /\ e \notin Ids(eventos) => eventos'[e] = x
      BY <1>1, <3>1 DEF TypeLoja, Ids
    <3> QED
      BY <3>2, <3>3, <3>4
  <2> QED
    BY <1>3, <2>2, <2>3
<1>4. ASSUME Publicacao PROVE eventos' = eventos
  BY <1>4 DEF Publicacao, Publicar, AbrirPagina, vars, loja
<1> QED
  BY <1>2, <1>3, <1>4, EventosIguais, PassosDe

LEMMA AditamentoPasso ==
    ASSUME IInv, AditamentoLigado, [Next]_vars
    PROVE  AditamentoLigado'
<1>1. TypeLoja /\ TypeLoja' /\ Cresce
  BY PassoDaLoja DEF IInv, TypeOk, PassoLoja
<1>2. Ids(eventos) \subseteq Ids(eventos)'
  BY <1>1, IdsCrescem
<1>3. ASSUME NEW e \in Ids(eventos)', eventos'[e].adita # 0
      PROVE  LET o == eventos'[e].adita
             IN  o < e /\ eventos'[o].ciclo = eventos'[e].ciclo /\ eventos'[o].validacao = "ADITADO"
  <2> DEFINE o == eventos'[e].adita
  <2>1. /\ o \in Ids(eventos) /\ eventos[o].ciclo = eventos'[e].ciclo
        /\ eventos[o].validacao = "ADITADO"
    <3>1. CASE e \in Ids(eventos)
      <4>1. eventos[e].adita = o /\ eventos[e].ciclo = eventos'[e].ciclo
        BY <1>1, <3>1 DEF Cresce, EventosCrescem
      <4>2. eventos[e] \in Evento /\ eventos[e].adita < e /\ Len(eventos) \in Nat
        BY <1>1, <3>1 DEF TypeLoja, Ids
      <4>3. o \in Ids(eventos)
        BY <1>3, <3>1, <4>1, <4>2 DEF Evento, Ids
      <4> QED
        BY <1>3, <3>1, <4>1, <4>3 DEF AditamentoLigado
    <3> QED
      BY <1>3, <3>1, EventosNovos
  <2>2. o < e
    BY <1>1 DEF TypeLoja
  <2> QED
    BY <1>1, <2>1, <2>2 DEF Cresce, EventosCrescem
<1>4. ASSUME NEW o \in Ids(eventos)', eventos'[o].validacao = "ADITADO"
      PROVE  Aditado(o)'
  BY <1>4, EventosNovos, AditadoFica DEF AditamentoLigado, Aditado
<1> QED
  BY <1>3, <1>4 DEF AditamentoLigado, Aditado

\* RN-03 for any number of threads: an amendment leads to a marked original of the
\* same cycle, and no event is marked without an amendment saved or under way.
THEOREM AditamentosLigados == Spec => []AditamentoLigado
<1>1. Init => AditamentoLigado
  <2>1. Init => Ids(eventos) = {}
    BY DEF Init, InitCiclos, Ids
  <2> QED
    BY <2>1 DEF AditamentoLigado
<1> QED
  BY <1>1, InvSempre, AditamentoPasso, PTL DEF Spec

\* Lots are made by SalvarLote, and marcarCiclo is left by MarcarCiclo only.
LEMMA LotesIguais ==
    ASSUME IInv, NEW t \in Threads, Agir(t), ~SalvarLote(t), ~MarcarCiclo(t)
    PROVE  Len(lotes') = Len(lotes) /\ passo[t] # "marcarCiclo"
<1>1. CASE NextCiclos(t) /\ lotes' = lotes
  <2>1. CASE PedirAoCiclo(t)
    BY <1>1, <2>1, LivreParado DEF PedirAoCiclo, PedirAtividade, PedirCiclo, PedirStatus,
       PedirEvento, Iniciar
  <2> QED
    BY <1>1, <2>1 DEF NextCiclos, LerSeq, GravarSeq, RelerSeq, SalvarCiclo, ConferirEtapas,
       GravarStatus, MarcarAditado, SalvarEvento
<1>2. CASE (\E u \in Unidades : PedirPortal(t, u)) \/ \E c \in Ids(ciclos) : PedirLote(t, c)
  BY <1>2, LivreParado DEF PedirPortal, PedirLote, Iniciar
<1>3. CASE PublicarPortal(t)
  <2>1. ASSUME Expor(lote[t]) PROVE Len(lotes') = Len(lotes)
    BY <2>1 DEF Expor, IInv, TypeOk, TypeLoja
  <2> QED
    BY <1>3, <2>1 DEF PublicarPortal
<1> QED
  BY <1>1, <1>2, <1>3 DEF Agir, ConferirStatus, ConferirLote, ListarEventos, ProximoCiclo,
     AvancarStatus

-----------------------------------------------------------------------------
(***************************************************************************)
(* One request at a time.                                                  *)
(***************************************************************************)
UmaThread == \A t, u \in Threads : t = u

\* Codes of cycles: never above the counter of their key, and all different.
CodigosDosCiclos ==
    /\ \A c \in Ids(ciclos) : ciclos[c].codigo[2] <= seq[ciclos[c].codigo[1]]
    /\ \A c, d \in Ids(ciclos) : ciclos[c].codigo = ciclos[d].codigo => c = d

\* A lot bears the code of its cycle, which has no other lot.
UmLotePorCiclo ==
    /\ \A l \in Ids(lotes) : lotes[l].codigo = ciclos[lotes[l].ciclo].codigo
    /\ \A k, l \in Ids(lotes) : lotes[k].ciclo = lotes[l].ciclo => k = l

ChaveDe(t) == Chave[pedido[t].unidade]

\* Numbering: the counter has not moved since it was read, and once it is advanced
\* no cycle has its number.
VezNumerar(t) ==
    /\ passo[t] \in {"gravarSeq", "salvarCiclo"} => lido[t] = seq[ChaveDe(t)]
    /\ passo[t] \in {"relerSeq", "salvarCiclo"} =>
           \A c \in Ids(ciclos) :
               ciclos[c].codigo[1] = ChaveDe(t) => ciclos[c].codigo[2] < seq[ChaveDe(t)]
    /\ passo[t] \in PassosCiclo /\ pedido[t].op = "atividade" =>
           CiclosAbertos(pedido[t].unidade) = {}

\* The status of the cycle in hand is what the handler has left it in or checked.
VezStatus(t) ==
    LET st == ciclos[alvo[t]].status
    IN  /\ passo[t] = "conferirEtapas" => pedido[t].status = "LOTE_GERADO"
        /\ passo[t] \in PassosStatus => pedido[t].status \in Transicoes(st)
        /\ passo[t] \in {"marcarAditado", "salvarEvento", "EM_PRODUCAO"} => st \in StatusAbertos
        /\ passo[t] = "ENCERRADO" => st = "EM_PRODUCAO"
        /\ passo[t] = "VALIDANDO" => st = "ENCERRADO"
        /\ passo[t] \in PassosLote \ {"EM_PRODUCAO", "ENCERRADO", "VALIDANDO", "publicar"} =>
               st = "VALIDANDO"

\* The cycles still listed are open; the events listed are those there are; the lot
\* in hand is of the cycle in hand.
VezLote(t) ==
    /\ passo[t] \notin PassosLote \cup {"proximoCiclo"} => fila[t] = {}
    /\ \A c \in fila[t] : ciclos[c].status \in StatusAbertos /\ c # alvo[t]
    /\ passo[t] = "salvarLote" => coletados[t] = EventosDe(alvo[t])
    /\ passo[t] = "marcarCiclo" => lotes[lote[t]].ciclo = alvo[t]

Vez(t) == VezNumerar(t) /\ VezStatus(t) /\ VezLote(t)

InvUm ==
    /\ CodigosDosCiclos /\ UmLotePorCiclo
    /\ SnapshotCompleto /\ LoteNoCiclo /\ UmCicloLivre
    /\ \A t \in Threads : Vez(t)

\* The other facts about the store alone.
InvLoja == CodigosDosCiclos /\ UmLotePorCiclo /\ SnapshotCompleto /\ UmCicloLivre

\* The place of each status in the line.
LEMMA Ordens ==
    /\ Ordem("ABERTO") = 1 /\ Ordem("EM_PRODUCAO") = 2 /\ Ordem("ENCERRADO") = 3
    /\ Ordem("VALIDANDO") = 4 /\ Ordem("LOTE_GERADO") = 5 /\ Ordem("ARQUIVADO") = 6
<1> DEFINE linha == <<"ABERTO", "EM_PRODUCAO", "ENCERRADO", "VALIDANDO", "LOTE_GERADO", "ARQUIVADO">>
<1>1. \A n \in 1 .. 6 : /\ linha[n] = "ABERTO" <=> n = 1
                        /\ linha[n] = "EM_PRODUCAO" <=> n = 2
                        /\ linha[n] = "ENCERRADO" <=> n = 3
                        /\ linha[n] = "VALIDANDO" <=> n = 4
                        /\ linha[n] = "LOTE_GERADO" <=> n = 5
                        /\ linha[n] = "ARQUIVADO" <=> n = 6
  OBVIOUS
<1> QED
  BY <1>1 DEF Ordem

LEMMA Transitar ==
    ASSUME NEW st, NEW su \in Transicoes(st)
    PROVE  /\ su \in StatusAbertos => st \in StatusAbertos
           /\ st \in Completos => su \in Completos
           /\ Ordem(su) - Ordem(st) = 1
<1>1. \/ st = "ABERTO" /\ su = "EM_PRODUCAO"
      \/ st = "EM_PRODUCAO" /\ su = "ENCERRADO"
      \/ st = "ENCERRADO" /\ su = "VALIDANDO"
      \/ st = "VALIDANDO" /\ su = "LOTE_GERADO"
      \/ st = "LOTE_GERADO" /\ su = "ARQUIVADO"
  BY DEF Transicoes
<1> QED
  BY <1>1, Ordens DEF StatusAbertos, Completos

\* With one thread, whoever waits is t.
LEMMA SoEle ==
    ASSUME UmaThread, NEW t \in Threads
    PROVE  /\ LoteNoCiclo <=> \A l \in Ids(lotes) :
                  ciclos[lotes[l].ciclo].status \in Completos \/ (passo[t] = "marcarCiclo" /\ lote[t] = l)
           /\ InvUm <=> InvLoja /\ LoteNoCiclo /\ Vez(t)
           /\ InvUm' <=> InvLoja' /\ LoteNoCiclo' /\ Vez(t)'
BY DEF UmaThread, LoteNoCiclo, Completos, InvUm, InvLoja

\* The cycle in hand has no lot before it is marked.
LEMMA AlvoSemLote ==
    ASSUME UmaThread, InvUm, NEW t \in Threads, passo[t] # "marcarCiclo",
           ciclos[alvo[t]].status \notin Completos
    PROVE  ~TemLote(alvo[t])
BY SoEle DEF TemLote

\* Whichever action writes it, a status moves on by one.
StatusAvanca(t, c) ==
    \/ ciclos'[c].status = ciclos[c].status
    \/ c = alvo[t] /\ ciclos'[c].status \in Transicoes(ciclos[c].status)

LEMMA Avanca ==
    ASSUME IInv, NEW t \in Threads, Vez(t), Agir(t), NEW c \in Ids(ciclos)
    PROVE  StatusAvanca(t, c)
<1>1. TypeLoja /\ ThreadOk(t)
  BY DEF IInv, TypeOk, TypeThreads
<1>2. CASE ciclos' = ciclos
  BY <1>2 DEF StatusAvanca
<1>3. ASSUME NEW st, ciclos' = [ciclos EXCEPT ![alvo[t]].status = st],
             st = ciclos[alvo[t]].status \/ st \in Transicoes(ciclos[alvo[t]].status)
      PROVE  StatusAvanca(t, c)
  <2>1. ciclos \in Seq(Ciclo) /\ ciclos[c] \in Ciclo
    BY <1>1 DEF TypeLoja, Ids
  <2>2. CASE c = alvo[t]
    <3>1. ciclos'[c] = [ciclos[c] EXCEPT !.status = st]
      BY <1>3, <2>1, <2>2 DEF Ids
    <3>2. ciclos'[c].status = st
      BY <2>1, <3>1 DEF Ciclo
    <3> QED
      BY <1>3, <2>2, <3>2 DEF StatusAvanca
  <2>3. CASE c # alvo[t]
    BY <1>3, <2>1, <2>3 DEF StatusAvanca, Ids
  <2> QED
    BY <2>2, <2>3
<1>4. CASE NextCiclos(t)
  <2>1. CASE PedirAoCiclo(t)
    BY <1>2, <2>1 DEF PedirAoCiclo, PedirAtividade, PedirCiclo, PedirStatus, PedirEvento,
       Iniciar, loja
  <2>2. CASE SalvarCiclo(t)
    BY <1>1, <2>2 DEF SalvarCiclo, StatusAvanca, TypeLoja, Ids
  <2>3. CASE GravarStatus(t)
    BY <1>3, <2>3 DEF GravarStatus, Vez, VezStatus, PassosStatus
  <2> QED
    BY <1>2, <1>4, <2>1, <2>2, <2>3 DEF NextCiclos, LerSeq, GravarSeq, RelerSeq,
       ConferirEtapas, MarcarAditado, SalvarEvento, loja
<1>5. CASE MarcarCiclo(t)
  <2>1. ciclos[alvo[t]].status = "VALIDANDO"
    BY <1>5 DEF MarcarCiclo, Vez, VezStatus, PassosLote
  <2> QED
    BY <1>3, <1>5, <2>1 DEF MarcarCiclo, Transicoes
<1>6. CASE AvancarStatus(t)
  BY <1>3, <1>6 DEF AvancarStatus, Vez, VezStatus, StatusAbertos, Transicoes
<1> QED
  BY <1>2, <1>4, <1>5, <1>6 DEF Agir, PedirPortal, PedirLote, Iniciar, ConferirStatus,
     ConferirLote, ListarEventos, SalvarLote, ProximoCiclo, PublicarPortal, loja

\* A step that makes no entity and advances no counter out of turn.
LojaSegue ==
    /\ Len(ciclos') = Len(ciclos) /\ Len(eventos') = Len(eventos) /\ Len(lotes') = Len(lotes)
    /\ \A k \in Chaves : seq[k] <= seq'[k]

\* Whether an event is hidden is decided when it is saved.
LEMMA VisiveisFicam ==
    ASSUME TypeLoja, Cresce, NEW c, EventosDe(c)' = EventosDe(c)
    PROVE  InstantaneoDe(EventosDe(c))' = InstantaneoDe(EventosDe(c))
BY DEF InstantaneoDe, EventosDe, Cresce, EventosCrescem

LEMMA SegueInvLoja ==
    ASSUME IInv, InvLoja, NEW t \in Threads, Vez(t), Agir(t), LojaSegue
    PROVE  InvLoja'
<1>1. TypeLoja /\ TypeLoja' /\ Cresce
  BY Handlers DEF IInv, TypeOk, PassoLoja
<1>2. /\ Ids(ciclos)' = Ids(ciclos) /\ Ids(eventos)' = Ids(eventos) /\ Ids(lotes)' = Ids(lotes)
  BY DEF LojaSegue, Ids
<1>3. /\ \A c \in Ids(ciclos) : /\ ciclos'[c].protocolo = ciclos[c].protocolo
                                /\ ciclos'[c].unidade = ciclos[c].unidade
                                /\ ciclos'[c].codigo = ciclos[c].codigo
      /\ \A e \in Ids(eventos) : eventos'[e].ciclo = eventos[e].ciclo
      /\ \A l \in Ids(lotes) : /\ lotes'[l].ciclo = lotes[l].ciclo
                               /\ lotes'[l].codigo = lotes[l].codigo
                               /\ lotes'[l].snapshot = lotes[l].snapshot
      /\ \A l \in Ids(lotes) : lotes[l].ciclo \in Ids(ciclos)
  BY <1>1 DEF Cresce, CiclosCrescem, EventosCrescem, LotesCrescem, TypeLoja
<1>4. \A c \in Ids(ciclos) : ciclos'[c].status \in StatusAbertos => ciclos[c].status \in StatusAbertos
  BY Avanca, Transitar DEF StatusAvanca
<1>5. \A c \in Ids(ciclos) : ciclos[c].codigo[1] \in Chaves /\ ciclos[c].codigo[2] \in Nat
  <2> TAKE c \in Ids(ciclos)
  <2>1. ciclos[c] \in Ciclo
    BY <1>1 DEF TypeLoja, Ids
  <2> QED
    BY <2>1 DEF Ciclo
<1>6. CodigosDosCiclos'
  <2>1. ASSUME NEW c \in Ids(ciclos) PROVE ciclos[c].codigo[2] <= seq'[ciclos[c].codigo[1]]
    <3> DEFINE k == ciclos[c].codigo[1]
    <3>1. seq[k] \in Nat /\ seq'[k] \in Nat /\ seq[k] <= seq'[k] /\ ciclos[c].codigo[2] <= seq[k]
      BY <1>1, <1>5 DEF TypeLoja, LojaSegue, InvLoja, CodigosDosCiclos
    <3> QED
      BY <1>5, <3>1
  <2> QED
    BY <1>2, <1>3, <2>1 DEF InvLoja, CodigosDosCiclos
<1>7. UmLotePorCiclo'
  BY <1>2, <1>3 DEF InvLoja, UmLotePorCiclo
<1>8. SnapshotCompleto'
  <2>1. \A c : EventosDe(c)' = EventosDe(c)
    BY <1>2, <1>3 DEF EventosDe
  <2>2. \A c : InstantaneoDe(EventosDe(c))' = InstantaneoDe(EventosDe(c))
    BY <1>1, <2>1, VisiveisFicam
  <2> QED
    BY <1>2, <1>3, <2>2 DEF InvLoja, SnapshotCompleto, InstantaneoDe
<1>9. UmCicloLivre'
  BY <1>2, <1>3, <1>4 DEF InvLoja, UmCicloLivre
<1> QED
  BY <1>6, <1>7, <1>8, <1>9 DEF InvLoja

LEMMA SegueNoCiclo ==
    ASSUME IInv, InvUm, UmaThread, NEW t \in Threads, Agir(t), Len(lotes') = Len(lotes),
           passo[t] # "marcarCiclo"
    PROVE  LoteNoCiclo'
<1>1. TypeLoja /\ Cresce /\ Vez(t)
  BY Handlers DEF IInv, TypeOk, PassoLoja, InvUm
<1>2. \A l \in Ids(lotes) : /\ lotes[l].ciclo \in Ids(ciclos) /\ lotes'[l].ciclo = lotes[l].ciclo
                            /\ ciclos[lotes[l].ciclo].status \in Completos
  BY <1>1, SoEle DEF TypeLoja, Cresce, LotesCrescem
<1>3. \A c \in Ids(ciclos) : ciclos[c].status \in Completos => ciclos'[c].status \in Completos
  BY <1>1, Avanca, Transitar DEF StatusAvanca
<1> QED
  BY <1>2, <1>3 DEF LoteNoCiclo, Ids, Completos

\* A handler that has ended relies on nothing.
LEMMA VezParada ==
    ASSUME NEW t \in Threads, passo'[t] = "livre", fila'[t] = {}
    PROVE  Vez(t)'
BY DEF Vez, VezNumerar, VezStatus, VezLote, PassosCiclo, PassosStatus, PassosLote

\* What a request has found when it arrives.
LEMMA VezPedido ==
    ASSUME IInv, NEW t \in Threads, Vez(t), PedirAoCiclo(t), fila' = fila
    PROVE  Vez(t)'
<1>1. /\ passo[t] = "livre" /\ passo \in [Threads -> Passos] /\ alvo \in [Threads -> Nat]
      /\ DOMAIN pedido = Threads /\ ciclos' = ciclos
  BY LivreParado DEF PedirAoCiclo, PedirAtividade, PedirCiclo, PedirStatus, PedirEvento,
     Iniciar, loja, IInv, TypeOk, TypeThreads
<1>2. fila'[t] = {}
  BY <1>1 DEF Vez, VezLote, PassosLote
<1>3. VezLote(t)'
  <2>1. passo'[t] \in {"numerar", "salvarEvento", "marcarAditado", "conferirEtapas", "gravarStatus"}
    BY <1>1 DEF PedirAoCiclo, PedirAtividade, PedirCiclo, PedirStatus, PedirEvento, Iniciar
  <2> QED
    BY <1>2, <2>1 DEF VezLote, PassosLote
<1>4. CASE \E u \in Unidades : PedirAtividade(t, u)
  <2>1. PICK u \in Unidades : PedirAtividade(t, u)
    BY <1>4
  <2>2. \/ passo'[t] = "salvarEvento" /\ ciclos[alvo'[t]].status \in StatusAbertos
        \/ passo'[t] = "numerar" /\ CiclosAbertos(u) = {} /\ pedido'[t].unidade = u
    <3>1. CASE \E c \in CiclosAbertos(u) : \E r : Iniciar(t, r, "salvarEvento", c)
      <4>1. PICK c \in CiclosAbertos(u) : passo'[t] = "salvarEvento" /\ alvo'[t] = c
        BY <1>1, <3>1 DEF Iniciar
      <4> QED
        BY <4>1 DEF CiclosAbertos
    <3>2. CASE CiclosAbertos(u) = {} /\ \E r : r.unidade = u /\ Iniciar(t, r, "numerar", 0)
      BY <1>1, <3>2 DEF Iniciar
    <3> QED
      BY <2>1, <3>1, <3>2 DEF PedirAtividade
  <2>3. CiclosAbertos(u)' = CiclosAbertos(u)
    BY <1>1 DEF CiclosAbertos, Ids
  <2> QED
    BY <1>1, <1>3, <2>2, <2>3 DEF Vez, VezNumerar, VezStatus, PassosCiclo, PassosStatus, PassosLote
<1>5. CASE \E u \in Unidades, p \in Protocolos : PedirCiclo(t, u, p)
  <2>1. passo'[t] = "numerar" /\ pedido'[t].op = "ciclo"
    BY <1>1, <1>5 DEF PedirCiclo, Iniciar
  <2> QED
    BY <1>3, <2>1 DEF Vez, VezNumerar, VezStatus, PassosStatus, PassosLote
<1>6. CASE \E c \in Ids(ciclos), st \in StatusCiclo : PedirStatus(t, c, st)
  <2>1. /\ pedido'[t].status \in Transicoes(ciclos[alvo'[t]].status)
        /\ \/ passo'[t] = "conferirEtapas" /\ pedido'[t].status = "LOTE_GERADO"
           \/ passo'[t] = "gravarStatus"
    BY <1>1, <1>6 DEF PedirStatus, Iniciar
  <2> QED
    BY <1>1, <1>3, <2>1 DEF Vez, VezNumerar, VezStatus, PassosCiclo, PassosStatus, PassosLote
<1>7. CASE \E c \in Ids(ciclos) : \E etapa \in Etapas, a \in {0} \cup EventosDe(c), v \in BOOLEAN :
               PedirEvento(t, c, etapa, a, v)
  <2>1. /\ passo'[t] \in {"salvarEvento", "marcarAditado"}
        /\ ciclos[alvo'[t]].status \in StatusAbertos
    BY <1>1, <1>7 DEF PedirEvento, Iniciar
  <2> QED
    BY <1>1, <1>3, <2>1 DEF Vez, VezNumerar, VezStatus, PassosCiclo, PassosStatus, PassosLote
<1> QED
  BY <1>4, <1>5, <1>6, <1>7 DEF PedirAoCiclo

\* Numbering alone: nobody moves the counter between the three steps.
LEMMA VezNumera ==
    ASSUME IInv, InvLoja, NEW t \in Threads, Vez(t), LerSeq(t) \/ GravarSeq(t) \/ RelerSeq(t),
           fila' = fila
    PROVE  Vez(t)' /\ \A k \in Chaves : seq[k] <= seq'[k]
<1>1. /\ ThreadOk(t) /\ lido \in [Threads -> Nat] /\ passo \in [Threads -> Passos]
      /\ seq \in [Chaves -> Nat]
      /\ passo[t] \in {"numerar", "gravarSeq", "relerSeq"} /\ ciclos' = ciclos
      /\ pedido' = pedido
  BY DEF IInv, TypeOk, TypeThreads, TypeLoja, LerSeq, GravarSeq, RelerSeq, IrPara, loja
<1>2. ChaveDe(t) \in Chaves /\ ChaveDe(t)' = ChaveDe(t)
  <2>1. pedido[t].unidade \in Unidades
    BY <1>1 DEF ThreadOk, PassosCiclo, PedidoCiclo, PedidoAtividade
  <2> QED
    BY <1>1, <2>1 DEF Chaves, ChaveDe
<1>3. passo'[t] \in {"gravarSeq", "relerSeq", "salvarCiclo"}
  BY <1>1 DEF LerSeq, GravarSeq, RelerSeq, IrPara
<1>4. VezLote(t)' /\ VezStatus(t)'
  BY <1>1, <1>3 DEF Vez, VezLote, VezStatus, PassosLote, PassosStatus
<1>5. passo'[t] \in PassosCiclo /\ pedido'[t].op = "atividade" =>
          CiclosAbertos(pedido[t].unidade)' = {}
  BY <1>1 DEF Vez, VezNumerar, PassosCiclo, CiclosAbertos, Ids
<1>6. CASE LerSeq(t) \/ RelerSeq(t)
  <2>1. lido'[t] = seq[ChaveDe(t)] /\ seq' = seq /\ passo'[t] # "relerSeq"
    BY <1>1, <1>6 DEF LerSeq, RelerSeq, IrPara, loja, ChaveDe
  <2>2. \A k \in Chaves : seq[k] <= seq'[k]
    BY <1>1, <2>1
  <2>3. passo'[t] = "salvarCiclo" => passo[t] = "relerSeq"
    BY <1>1, <1>6 DEF LerSeq, RelerSeq, IrPara
  <2>4. VezNumerar(t)'
    BY <1>1, <1>2, <1>5, <2>1, <2>3 DEF Vez, VezNumerar, PassosCiclo
  <2> QED
    BY <1>4, <2>2, <2>4 DEF Vez
<1>7. CASE GravarSeq(t)
  <2>1. lido[t] = seq[ChaveDe(t)] /\ seq[ChaveDe(t)] \in Nat
    BY <1>1, <1>2, <1>7 DEF Vez, VezNumerar, GravarSeq
  <2>2. seq' = [seq EXCEPT ![ChaveDe(t)] = seq[ChaveDe(t)] + 1] /\ passo'[t] = "relerSeq"
    BY <1>1, <1>7, <2>1 DEF GravarSeq, IrPara, Seguinte, ChaveDe
  <2>3. \A k \in Chaves : seq[k] <= seq'[k]
    BY <1>1, <1>2, <2>2
  <2>4. ASSUME NEW c \in Ids(ciclos), ciclos[c].codigo[1] = ChaveDe(t)
        PROVE  ciclos[c].codigo[2] < seq'[ChaveDe(t)]
    <3>1. ciclos[c] \in Ciclo
      BY DEF IInv, TypeOk, TypeLoja, Ids
    <3>2. ciclos[c].codigo[2] \in Nat /\ ciclos[c].codigo[2] <= seq[ChaveDe(t)]
      BY <2>4, <3>1 DEF Ciclo, InvLoja, CodigosDosCiclos
    <3>3. seq'[ChaveDe(t)] = seq[ChaveDe(t)] + 1
      BY <1>1, <1>2, <2>2
    <3> QED
      BY <2>1, <3>2, <3>3
  <2>5. VezNumerar(t)'
    BY <1>1, <1>2, <1>5, <2>2, <2>4 DEF VezNumerar
  <2> QED
    BY <1>4, <2>3, <2>5 DEF Vez
<1> QED
  BY <1>6, <1>7

LEMMA VezDoEvento ==
    ASSUME IInv, NEW t \in Threads, Vez(t), fila' = fila,
           ConferirEtapas(t) \/ GravarStatus(t) \/ MarcarAditado(t) \/ SalvarEvento(t)
    PROVE  Vez(t)'
<1>1. /\ passo[t] \in {"conferirEtapas", "gravarStatus", "marcarAditado", "salvarEvento"}
      /\ passo \in [Threads -> Passos]
  BY DEF ConferirEtapas, GravarStatus, MarcarAditado, SalvarEvento, IInv, TypeOk, TypeThreads
<1>2. fila'[t] = {}
  BY <1>1 DEF Vez, VezLote, PassosLote
<1>3. CASE Responder(t)
  <2>1. passo'[t] = "livre"
    BY <1>1, <1>3 DEF Responder
  <2> QED
    BY <1>2, <2>1, VezParada
<1>4. CASE /\ ConferirEtapas(t) \/ MarcarAditado(t)
           /\ IrPara(t, "gravarStatus") \/ IrPara(t, "salvarEvento")
           /\ UNCHANGED <<alvo, ciclos>>
  <2>1. \/ passo[t] = "conferirEtapas" /\ passo'[t] = "gravarStatus"
        \/ passo[t] = "marcarAditado" /\ passo'[t] = "salvarEvento"
    BY <1>1, <1>4 DEF ConferirEtapas, MarcarAditado, IrPara, Responder
  <2>2. pedido' = pedido /\ alvo' = alvo /\ ciclos' = ciclos
    BY <1>4 DEF IrPara
  <2> QED
    BY <1>2, <2>1, <2>2
    DEF Vez, VezNumerar, VezStatus, VezLote, PassosCiclo, PassosStatus, PassosLote
<1> QED
  BY <1>3, <1>4 DEF ConferirEtapas, GravarStatus, MarcarAditado, SalvarEvento, loja

LEMMA VezDoPortal ==
    ASSUME IInv, NEW t \in Threads, Vez(t),
           (\E u \in Unidades : PedirPortal(t, u)) \/ ProximoCiclo(t) \/ PublicarPortal(t)
    PROVE  Vez(t)'
<1>1. /\ ciclos' = ciclos /\ ThreadOk(t) /\ fila[t] \subseteq Ids(ciclos) /\ 0 \notin Ids(ciclos)
      /\ passo \in [Threads -> Passos] /\ alvo \in [Threads -> Nat]
      /\ fila \in [Threads -> SUBSET Nat]
  <2>1. Len(ciclos) \in Nat
    BY DEF IInv, TypeOk, TypeLoja
  <2> QED
    BY <2>1 DEF IInv, TypeOk, TypeThreads, ThreadOk, Ids, PedirPortal, Iniciar, ProximoCiclo,
       PublicarPortal, loja
<1>2. CASE Encerrar(t)
  <2>1. passo'[t] = "livre" /\ fila'[t] = {}
    BY <1>1, <1>2 DEF Encerrar, Responder
  <2> QED
    BY <2>1, VezParada
<1>3. ASSUME NEW p \in {"proximoCiclo", "EM_PRODUCAO"}, passo'[t] = p,
             p = "EM_PRODUCAO" => ciclos[alvo'[t]].status \in StatusAbertos,
             \A c \in fila'[t] : ciclos[c].status \in StatusAbertos /\ c # alvo'[t]
      PROVE  Vez(t)'
  BY <1>1, <1>3 DEF Vez, VezNumerar, VezStatus, VezLote, PassosCiclo, PassosStatus, PassosLote
<1>4. CASE \E u \in Unidades : PedirPortal(t, u)
  <2>1. PICK u \in Unidades : PedirPortal(t, u)
    BY <1>4
  <2>2. passo'[t] = "proximoCiclo" /\ alvo'[t] = 0 /\ fila'[t] = CiclosAbertos(u)
    BY <1>1, <2>1 DEF PedirPortal, Iniciar
  <2>3. \A c \in CiclosAbertos(u) : ciclos[c].status \in StatusAbertos /\ c # 0
    BY <1>1 DEF CiclosAbertos
  <2> QED
    BY <1>3, <2>2, <2>3
<1>5. CASE ProximoCiclo(t) /\ ~Encerrar(t)
  <2>1. PICK c \in fila[t] :
           /\ passo[t] = "proximoCiclo" /\ fila' = [fila EXCEPT ![t] = @ \ {c}]
           /\ \/ UNCHANGED pilha
              \/ alvo' = [alvo EXCEPT ![t] = c] /\ IrPara(t, "EM_PRODUCAO")
    BY <1>5 DEF ProximoCiclo
  <2>2. /\ fila'[t] = fila[t] \ {c}
        /\ \A d \in fila[t] : ciclos[d].status \in StatusAbertos /\ d # alvo[t]
    BY <1>1, <2>1 DEF Vez, VezLote
  <2>3. CASE UNCHANGED pilha
    BY <1>3, <2>1, <2>2, <2>3 DEF pilha
  <2>4. CASE alvo' = [alvo EXCEPT ![t] = c] /\ IrPara(t, "EM_PRODUCAO")
    <3>1. alvo'[t] = c /\ passo'[t] = "EM_PRODUCAO"
      BY <1>1, <2>4 DEF IrPara
    <3> QED
      BY <1>3, <2>2, <3>1
  <2> QED
    BY <2>1, <2>3, <2>4
<1>6. CASE PublicarPortal(t) /\ ~Encerrar(t)
  <2>1. passo'[t] = "proximoCiclo" /\ alvo' = alvo /\ fila' = fila
    BY <1>1, <1>6 DEF PublicarPortal, Seguir, IrPara
  <2> QED
    BY <1>3, <2>1 DEF Vez, VezLote
<1> QED
  BY <1>2, <1>4, <1>5, <1>6

\* generate, from the request to the mark on the cycle.
LEMMA VezDoLote ==
    ASSUME IInv, NEW t \in Threads, Vez(t),
           \/ \E c \in Ids(ciclos) : PedirLote(t, c)
           \/ ConferirStatus(t) \/ ConferirLote(t) \/ ListarEventos(t)
           \/ SalvarLote(t) \/ MarcarCiclo(t) \/ AvancarStatus(t)
    PROVE  Vez(t)'
<1>1. /\ TypeLoja /\ ThreadOk(t) /\ passo \in [Threads -> Passos] /\ alvo \in [Threads -> Nat]
      /\ fila \in [Threads -> SUBSET Nat] /\ coletados \in [Threads -> SUBSET Nat]
      /\ lote \in [Threads -> Nat] /\ fila[t] \subseteq Ids(ciclos)
  BY DEF IInv, TypeOk, TypeThreads, ThreadOk
<1>2. CASE Encerrar(t)
  <2>1. passo'[t] = "livre" /\ fila'[t] = {}
    BY <1>1, <1>2 DEF Encerrar, Responder
  <2> QED
    BY <2>1, VezParada
<1>3. ASSUME NEW p \in PassosLote \ {"EM_PRODUCAO"}, passo'[t] = p,
             p = "ENCERRADO" => ciclos'[alvo'[t]].status = "EM_PRODUCAO",
             p = "VALIDANDO" => ciclos'[alvo'[t]].status = "ENCERRADO",
             p \notin {"ENCERRADO", "VALIDANDO", "publicar"} =>
                 ciclos'[alvo'[t]].status = "VALIDANDO",
             p = "salvarLote" => coletados'[t] = EventosDe(alvo[t])',
             p = "marcarCiclo" => lotes'[lote'[t]].ciclo = alvo'[t],
             \A c \in fila'[t] : ciclos'[c].status \in StatusAbertos /\ c # alvo'[t]
      PROVE  Vez(t)'
  <2>1. VezNumerar(t)' /\ VezStatus(t)'
    BY <1>3 DEF VezNumerar, VezStatus, PassosCiclo, PassosStatus, PassosLote
  <2>2. VezLote(t)'
    BY <1>3 DEF VezLote
  <2> QED
    BY <2>1, <2>2 DEF Vez
<1>4. CASE \E c \in Ids(ciclos) : PedirLote(t, c)
  <2>1. /\ passo'[t] = "conferirLote" /\ ciclos[alvo'[t]].status = "VALIDANDO" /\ ciclos' = ciclos
        /\ fila' = fila /\ passo[t] = "livre"
    BY <1>1, <1>4, LivreParado DEF PedirLote, Iniciar, loja
  <2>2. fila[t] = {}
    BY <2>1 DEF Vez, VezLote, PassosLote
  <2> QED
    BY <1>3, <2>1, <2>2 DEF PassosLote
<1>5. CASE /\ ConferirStatus(t) \/ ConferirLote(t) \/ ListarEventos(t) \/ SalvarLote(t)
           /\ ~Encerrar(t)
  <2>1. /\ ciclos' = ciclos /\ eventos' = eventos /\ alvo' = alvo /\ fila' = fila
        /\ passo[t] \in PassosLote \ {"EM_PRODUCAO", "ENCERRADO", "VALIDANDO", "publicar"}
        /\ passo'[t] \in {"conferirLote", "listarEventos", "salvarLote", "marcarCiclo"}
    BY <1>1, <1>5 DEF ConferirStatus, ConferirLote, ListarEventos, SalvarLote, Seguir, IrPara,
       loja, PassosLote
  <2>2. /\ ciclos[alvo[t]].status = "VALIDANDO"
        /\ \A c \in fila[t] : ciclos[c].status \in StatusAbertos /\ c # alvo[t]
    BY <2>1 DEF Vez, VezStatus, VezLote
  <2>3. passo'[t] = "salvarLote" => coletados'[t] = EventosDe(alvo[t])'
    <3>1. EventosDe(alvo[t])' = EventosDe(alvo[t])
      BY <2>1 DEF EventosDe, Ids
    <3> QED
      BY <1>1, <1>5, <2>1, <3>1 DEF ConferirStatus, ConferirLote, ListarEventos, SalvarLote,
         Seguir, IrPara
  <2>4. passo'[t] = "marcarCiclo" => lotes'[lote'[t]].ciclo = alvo[t]
    <3>1. SUFFICES ASSUME SalvarLote(t) PROVE lotes'[lote'[t]].ciclo = alvo[t]
      BY <1>1, <1>5 DEF ConferirStatus, ConferirLote, ListarEventos, Seguir, IrPara
    <3>2. lote'[t] = Len(lotes) + 1 /\ lotes'[Len(lotes) + 1].ciclo = alvo[t]
      BY <1>1, <3>1 DEF SalvarLote, NovoLote, TypeLoja
    <3> QED
      BY <3>2
  <2> QED
    BY <1>3, <2>1, <2>2, <2>3, <2>4 DEF PassosLote
<1>6. CASE MarcarCiclo(t) /\ ~Encerrar(t)
  <2>1. /\ passo'[t] = "publicar" /\ alvo' = alvo /\ fila' = fila
        /\ ciclos' = [ciclos EXCEPT ![alvo[t]].status = "LOTE_GERADO"]
    BY <1>1, <1>6 DEF MarcarCiclo, Seguir, IrPara
  <2>2. \A c \in fila[t] : c # alvo[t] /\ ciclos'[c].status \in StatusAbertos
    BY <1>1, <2>1 DEF Vez, VezLote, TypeLoja, Ids
  <2> QED
    BY <1>3, <2>1, <2>2 DEF PassosLote
<1>7. CASE AvancarStatus(t)
  <2>1. /\ passo[t] \in {"EM_PRODUCAO", "ENCERRADO", "VALIDANDO"}
        /\ ciclos' = [ciclos EXCEPT ![alvo[t]].status = passo[t]]
        /\ passo'[t] = DepoisDe(passo[t]) /\ alvo' = alvo /\ fila' = fila
    BY <1>1, <1>7 DEF AvancarStatus, Seguir, IrPara
  <2>2. alvo[t] \in Ids(ciclos) /\ ciclos[alvo[t]] \in Ciclo
    BY <1>1, <2>1 DEF ThreadOk, PassosLote, TypeLoja, Ids
  <2>3. ciclos'[alvo[t]].status = passo[t]
    BY <1>1, <2>1, <2>2 DEF TypeLoja, Ids, Ciclo
  <2>4. \A c \in fila[t] : c # alvo[t] /\ ciclos'[c].status \in StatusAbertos
    BY <1>1, <2>1 DEF Vez, VezLote, TypeLoja, Ids
  <2>5. \/ passo[t] = "EM_PRODUCAO" /\ passo'[t] = "ENCERRADO"
        \/ passo[t] = "ENCERRADO" /\ passo'[t] = "VALIDANDO"
        \/ passo[t] = "VALIDANDO" /\ passo'[t] = "conferirStatus"
    BY <2>1 DEF DepoisDe
  <2> QED
    BY <1>3, <2>1, <2>3, <2>4, <2>5 DEF PassosLote
<1> QED
  BY <1>2, <1>4, <1>5, <1>6, <1>7

\* A cycle takes the number just drawn, and a free cycle is the only one of its unit.
LEMMA CicloNumerado ==
    ASSUME IInv, InvLoja, NEW t \in Threads, Vez(t), SalvarCiclo(t),
           UNCHANGED <<lotes, acessos, fila, lote, coletados>>
    PROVE  InvLoja' /\ Vez(t)'
<1> DEFINE novo == Len(ciclos) + 1
<1>1. /\ TypeLoja /\ ThreadOk(t) /\ passo \in [Threads -> Passos] /\ alvo \in [Threads -> Nat]
      /\ passo[t] = "salvarCiclo" /\ seq' = seq /\ eventos' = eventos
  BY DEF IInv, TypeOk, TypeThreads, SalvarCiclo
<1>2. /\ pedido[t] \in PedidoCiclo \cup PedidoAtividade
      /\ pedido[t].unidade \in Unidades /\ ChaveDe(t) \in Chaves
  BY <1>1 DEF ThreadOk, PassosCiclo, PedidoCiclo, PedidoAtividade, ChaveDe, Chaves
<1>3. /\ lido[t] = seq[ChaveDe(t)] /\ seq[ChaveDe(t)] \in Nat
      /\ \A c \in Ids(ciclos) :
             ciclos[c].codigo[1] = ChaveDe(t) => ciclos[c].codigo[2] < seq[ChaveDe(t)]
      /\ pedido[t].op = "atividade" => CiclosAbertos(pedido[t].unidade) = {}
  BY <1>1, <1>2 DEF Vez, VezNumerar, PassosCiclo, TypeLoja
<1>4. /\ Len(ciclos) \in Nat /\ Len(ciclos') = novo
      /\ \A c \in Ids(ciclos) : ciclos'[c] = ciclos[c] /\ c # novo
      /\ ciclos'[novo] = [unidade |-> pedido[t].unidade, protocolo |-> pedido[t].protocolo,
                          codigo |-> <<ChaveDe(t), lido[t]>>, status |-> "ABERTO"]
  BY <1>1, AppendSeq DEF SalvarCiclo, TypeLoja, Ids, ChaveDe
<1>5. /\ ciclos'[novo].unidade = pedido[t].unidade /\ ciclos'[novo].status = "ABERTO"
      /\ ciclos'[novo].codigo[1] = ChaveDe(t) /\ ciclos'[novo].codigo[2] = seq[ChaveDe(t)]
      /\ ciclos'[novo].protocolo = pedido[t].protocolo
  BY <1>3, <1>4
<1>6. \A c \in Ids(ciclos') : c \in Ids(ciclos) \/ c = novo
  BY <1>4 DEF Ids
<1> HIDE DEF novo
<1>7. CodigosDosCiclos'
  <2>1. ASSUME NEW c \in Ids(ciclos') PROVE ciclos'[c].codigo[2] <= seq'[ciclos'[c].codigo[1]]
    <3>1. CASE c \in Ids(ciclos)
      BY <1>1, <1>4, <3>1 DEF InvLoja, CodigosDosCiclos
    <3>2. CASE c = novo
      BY <1>1, <1>3, <1>5, <3>2
    <3> QED
      BY <1>6, <3>1, <3>2
  <2>2. ASSUME NEW c \in Ids(ciclos) PROVE ciclos'[c].codigo # ciclos'[novo].codigo
    <3>1. ciclos[c] \in Ciclo
      BY <1>1 DEF TypeLoja, Ids
    <3>2. ciclos[c].codigo[2] \in Nat
      BY <3>1 DEF Ciclo
    <3> QED
      BY <1>3, <1>4, <1>5, <3>2
  <2>3. ASSUME NEW c \in Ids(ciclos'), NEW d \in Ids(ciclos'), ciclos'[c].codigo = ciclos'[d].codigo
        PROVE  c = d
    BY <1>4, <1>6, <2>2, <2>3 DEF InvLoja, CodigosDosCiclos
  <2> QED
    BY <2>1, <2>3 DEF CodigosDosCiclos
<1>8. \A l \in Ids(lotes) : ciclos'[lotes[l].ciclo] = ciclos[lotes[l].ciclo]
  BY <1>1, <1>4 DEF TypeLoja
<1>9. UmLotePorCiclo' /\ SnapshotCompleto'
  BY <1>1, <1>8 DEF InvLoja, UmLotePorCiclo, SnapshotCompleto, EventosDe, Ids
<1>10. UmCicloLivre'
  <2> DEFINE Livres(u, c) == ciclos[c].unidade = u /\ ciclos[c].protocolo = SemProtocolo
                                 /\ ciclos[c].status \in StatusAbertos
  <2>1. ASSUME NEW c \in Ids(ciclos), Livres(pedido[t].unidade, c), pedido[t].protocolo = SemProtocolo
        PROVE  FALSE
    <3>1. pedido[t].op = "atividade"
      BY <1>2, <2>1, ProducaoAssumption DEF PedidoCiclo, PedidoAtividade
    <3> QED
      BY <1>3, <2>1, <3>1 DEF CiclosAbertos
  <2>2. ASSUME NEW c \in Ids(ciclos'), NEW d \in Ids(ciclos'),
               ciclos'[c].unidade = ciclos'[d].unidade,
               \A x \in {c, d} : /\ ciclos'[x].protocolo = SemProtocolo
                                 /\ ciclos'[x].status \in StatusAbertos
        PROVE  c = d
    <3>1. CASE c \in Ids(ciclos) /\ d \in Ids(ciclos)
      BY <1>4, <2>2, <3>1 DEF InvLoja, UmCicloLivre
    <3>2. CASE c = novo \/ d = novo
      BY <1>4, <1>5, <1>6, <2>1, <2>2, <3>2
    <3> QED
      BY <1>6, <3>1, <3>2
  <2> QED
    BY <2>2 DEF UmCicloLivre
<1>11. fila'[t] = {}
  BY <1>1 DEF Vez, VezLote, PassosLote
<1>12. Vez(t)'
  <2>1. CASE passo'[t] = "livre"
    BY <1>11, <2>1, VezParada
  <2>2. CASE passo'[t] = "salvarEvento" /\ alvo'[t] = novo
    BY <1>5, <1>11, <2>2
    DEF Vez, VezNumerar, VezStatus, VezLote, PassosCiclo, PassosStatus, PassosLote, StatusAbertos
  <2> QED
    BY <1>1, <2>1, <2>2 DEF SalvarCiclo, Responder, IrPara, novo
<1> QED
  BY <1>7, <1>9, <1>10, <1>12 DEF InvLoja

\* An event enters an open cycle, of which there is no snapshot.
LEMMA EventoSemLote ==
    ASSUME IInv, InvUm, UmaThread, NEW t \in Threads, SalvarEvento(t), lotes' = lotes
    PROVE  InvLoja'
<1>1. /\ TypeLoja /\ Vez(t) /\ InvLoja /\ passo[t] = "salvarEvento"
      /\ ciclos' = ciclos /\ seq' = seq
  BY SoEle DEF IInv, TypeOk, SalvarEvento
<1>2. ~TemLote(alvo[t])
  <2>1. ciclos[alvo[t]].status \notin Completos
    BY <1>1 DEF Vez, VezStatus, StatusAbertos, Completos
  <2> QED
    BY <1>1, <2>1, AlvoSemLote
<1>3. /\ Len(eventos) \in Nat /\ Len(eventos') = Len(eventos) + 1
      /\ \A e \in Ids(eventos) : eventos'[e] = eventos[e]
      /\ eventos'[Len(eventos) + 1].ciclo = alvo[t]
  BY <1>1, AppendSeq DEF SalvarEvento, TypeLoja, Ids
<1>4. ASSUME NEW c, c # alvo[t] PROVE EventosDe(c)' = EventosDe(c)
  BY <1>3, <1>4 DEF EventosDe, Ids
<1>5. SnapshotCompleto'
  <2> SUFFICES ASSUME NEW l \in Ids(lotes)
               PROVE  lotes[l].snapshot = InstantaneoDe(EventosDe(lotes[l].ciclo))'
    BY <1>1 DEF SnapshotCompleto, InstantaneoDe, Ids
  <2> DEFINE c == lotes[l].ciclo
  <2>1. EventosDe(c)' = EventosDe(c)
    BY <1>1, <1>2, <1>4 DEF TemLote
  <2>2. \A e \in EventosDe(c) : eventos'[e] = eventos[e]
    BY <1>3 DEF EventosDe
  <2>3. InstantaneoDe(EventosDe(c))' = InstantaneoDe(EventosDe(c))
    BY <2>1, <2>2 DEF InstantaneoDe
  <2> QED
    BY <1>1, <2>3 DEF InvLoja, SnapshotCompleto, InstantaneoDe
<1> QED
  BY <1>1, <1>5 DEF InvLoja, CodigosDosCiclos, UmLotePorCiclo, UmCicloLivre, Ids

\* A lot bears its cycle's code and holds all its events, and the cycle had none.
LEMMA LoteUnico ==
    ASSUME IInv, InvUm, UmaThread, NEW t \in Threads, SalvarLote(t)
    PROVE  InvLoja' /\ LoteNoCiclo'
<1> DEFINE novo == Len(lotes) + 1
<1>1. /\ TypeLoja /\ Vez(t) /\ InvLoja /\ passo[t] = "salvarLote"
      /\ passo \in [Threads -> Passos] /\ lote \in [Threads -> Nat]
      /\ UNCHANGED <<seq, ciclos, eventos>>
  BY SoEle DEF IInv, TypeOk, TypeThreads, SalvarLote, loja
<1>2. ciclos[alvo[t]].status = "VALIDANDO" /\ coletados[t] = EventosDe(alvo[t])
  BY <1>1 DEF Vez, VezStatus, VezLote, PassosLote
<1>3. ~TemLote(alvo[t])
  BY <1>1, <1>2, AlvoSemLote DEF Completos
<1>4. /\ Len(lotes) \in Nat /\ Len(lotes') = novo
      /\ \A l \in Ids(lotes) : lotes'[l] = lotes[l]
      /\ lotes'[novo].ciclo = alvo[t] /\ lotes'[novo].codigo = ciclos[alvo[t]].codigo
      /\ lotes'[novo].snapshot = InstantaneoDe(EventosDe(alvo[t]))
  BY <1>1, <1>2, AppendSeq DEF SalvarLote, NovoLote, TypeLoja, Ids
<1>5. \A l \in Ids(lotes') : l \in Ids(lotes) \/ l = novo
  BY <1>4 DEF Ids
<1>6. passo'[t] = "marcarCiclo" /\ lote'[t] = novo
  BY <1>1 DEF SalvarLote, Seguir, IrPara
<1> HIDE DEF novo
<1>7. CodigosDosCiclos' /\ UmCicloLivre'
  BY <1>1 DEF InvLoja, CodigosDosCiclos, UmCicloLivre, Ids
<1>8. UmLotePorCiclo'
  BY <1>1, <1>3, <1>4, <1>5 DEF InvLoja, UmLotePorCiclo, TemLote
<1>9. SnapshotCompleto'
  <2>1. \A c : EventosDe(c)' = EventosDe(c)
    BY <1>1 DEF EventosDe, Ids
  <2> QED
    BY <1>1, <1>4, <1>5, <2>1 DEF InvLoja, SnapshotCompleto, InstantaneoDe
<1>10. LoteNoCiclo'
  <2>1. \A l \in Ids(lotes) : ciclos[lotes[l].ciclo].status \in Completos
    BY <1>1, SoEle
  <2> QED
    BY <1>1, <1>4, <1>5, <1>6, <2>1 DEF LoteNoCiclo, Completos
<1> QED
  BY <1>7, <1>8, <1>9, <1>10 DEF InvLoja

\* The mark a lot waits for.
LEMMA LoteMarcado ==
    ASSUME IInv, InvUm, UmaThread, NEW t \in Threads, MarcarCiclo(t)
    PROVE  LoteNoCiclo'
<1>1. /\ TypeLoja /\ ThreadOk(t) /\ Vez(t) /\ passo[t] = "marcarCiclo" /\ lotes' = lotes
      /\ ciclos' = [ciclos EXCEPT ![alvo[t]].status = "LOTE_GERADO"]
  BY SoEle DEF IInv, TypeOk, TypeThreads, MarcarCiclo
<1>2. /\ alvo[t] \in Ids(ciclos) /\ lotes[lote[t]].ciclo = alvo[t]
      /\ \A c \in Ids(ciclos) : ciclos[c] \in Ciclo
  BY <1>1 DEF ThreadOk, PassosLote, Vez, VezLote, TypeLoja, Ids
<1>3. /\ ciclos'[alvo[t]].status = "LOTE_GERADO"
      /\ \A c \in Ids(ciclos) : c # alvo[t] => ciclos'[c] = ciclos[c]
  BY <1>1, <1>2 DEF TypeLoja, Ids, Ciclo
<1>4. \A l \in Ids(lotes) : /\ lotes[l].ciclo \in Ids(ciclos)
                            /\ ciclos[lotes[l].ciclo].status \in Completos \/ lote[t] = l
  BY <1>1, SoEle DEF TypeLoja
<1>5. \A l \in Ids(lotes) : ciclos'[lotes[l].ciclo].status \in Completos
  BY <1>2, <1>3, <1>4 DEF Completos
<1> QED
  BY <1>1, <1>5 DEF LoteNoCiclo, Completos, Ids

\* The actions that make nothing.
LEMMA SegueSempre ==
    ASSUME IInv, InvLoja, NEW t \in Threads, Vez(t), Agir(t),
           ~SalvarCiclo(t), ~SalvarEvento(t), ~SalvarLote(t)
    PROVE  LojaSegue
<1>1. /\ ciclos \in Seq(Ciclo) /\ eventos \in Seq(Evento) /\ lotes \in Seq(Lote)
      /\ \A k \in Chaves : seq[k] \in Nat
  BY DEF IInv, TypeOk, TypeLoja
<1>2. \A k \in Chaves : seq[k] <= seq[k]
  BY <1>1
<1>3. CASE NextCiclos(t) /\ UNCHANGED <<lotes, fila>>
  <2>1. CASE LerSeq(t) \/ GravarSeq(t) \/ RelerSeq(t)
    <3>1. \A k \in Chaves : seq[k] <= seq'[k]
      BY <1>3, <2>1, VezNumera
    <3> QED
      BY <1>3, <2>1, <3>1 DEF LojaSegue, LerSeq, GravarSeq, RelerSeq, loja
  <2>2. CASE PedirAoCiclo(t) \/ ConferirEtapas(t)
    <3>1. UNCHANGED loja
      BY <2>2 DEF PedirAoCiclo, PedirAtividade, PedirCiclo, PedirStatus, PedirEvento, Iniciar,
         ConferirEtapas
    <3> QED
      BY <1>2, <1>3, <3>1 DEF LojaSegue, loja
  <2>3. CASE GravarStatus(t) \/ MarcarAditado(t)
    <3>1. Len(ciclos') = Len(ciclos) /\ Len(eventos') = Len(eventos) /\ seq' = seq
      BY <1>1, <2>3 DEF GravarStatus, MarcarAditado
    <3> QED
      BY <1>2, <1>3, <3>1 DEF LojaSegue
  <2> QED
    BY <1>3, <2>1, <2>2, <2>3 DEF NextCiclos
<1>4. CASE /\ ConferirStatus(t) \/ ConferirLote(t) \/ ListarEventos(t) \/ ProximoCiclo(t)
              \/ (\E u \in Unidades : PedirPortal(t, u)) \/ \E c \in Ids(ciclos) : PedirLote(t, c)
  <2>1. UNCHANGED <<loja, lotes>>
    BY <1>4 DEF ConferirStatus, ConferirLote, ListarEventos, ProximoCiclo, PedirPortal, PedirLote,
       Iniciar
  <2> QED
    BY <1>2, <2>1 DEF LojaSegue, loja
<1>5. CASE MarcarCiclo(t) \/ AvancarStatus(t) \/ PublicarPortal(t)
  <2>1. /\ Len(ciclos') = Len(ciclos) /\ Len(lotes') = Len(lotes)
        /\ eventos' = eventos /\ seq' = seq
    BY <1>1, <1>5 DEF MarcarCiclo, AvancarStatus, PublicarPortal, Expor
  <2> QED
    BY <1>2, <2>1 DEF LojaSegue
<1> QED
  BY <1>3, <1>4, <1>5 DEF Agir

\* One action of the only handler.
LEMMA SozinhoPasso ==
    ASSUME IInv, InvUm, UmaThread, NEW t \in Threads, Agir(t)
    PROVE  InvUm'
<1>1. InvLoja /\ Vez(t)
  BY SoEle
<1>2. Vez(t)'
  <2>1. CASE NextCiclos(t) /\ UNCHANGED <<lotes, acessos, fila, lote, coletados>>
    BY <1>1, <2>1, VezPedido, VezNumera, VezDoEvento, CicloNumerado DEF NextCiclos
  <2> QED
    BY <1>1, <2>1, VezDoPortal, VezDoLote DEF Agir
<1>3. CASE SalvarCiclo(t)
  <2>1. UNCHANGED <<lotes, acessos, fila, lote, coletados>> /\ passo[t] # "marcarCiclo"
    BY <1>3 DEF Agir, SalvarCiclo, PedirPortal, PedirLote, Iniciar, loja,
       ConferirStatus, ConferirLote, ListarEventos, SalvarLote, MarcarCiclo, ProximoCiclo,
       AvancarStatus, PublicarPortal
  <2> QED
    BY <1>1, <1>2, <1>3, <2>1, CicloNumerado, SegueNoCiclo, SoEle
<1>4. CASE SalvarEvento(t)
  <2>1. lotes' = lotes /\ passo[t] # "marcarCiclo"
    BY <1>4 DEF Agir, SalvarEvento, PedirPortal, PedirLote, Iniciar, loja,
       ConferirStatus, ConferirLote, ListarEventos, SalvarLote, MarcarCiclo, ProximoCiclo,
       AvancarStatus, PublicarPortal
  <2> QED
    BY <1>1, <1>2, <1>4, <2>1, EventoSemLote, SegueNoCiclo, SoEle
<1>5. CASE SalvarLote(t)
  BY <1>1, <1>2, <1>5, LoteUnico, SoEle
<1>6. CASE ~SalvarCiclo(t) /\ ~SalvarEvento(t) /\ ~SalvarLote(t)
  <2>1. LojaSegue /\ InvLoja'
    BY <1>1, <1>6, SegueSempre, SegueInvLoja
  <2>2. CASE MarcarCiclo(t)
    BY <1>2, <2>1, <2>2, LoteMarcado, SoEle
  <2>3. CASE ~MarcarCiclo(t)
    <3>1. passo[t] # "marcarCiclo"
      BY <1>6, <2>3, LotesIguais
    <3> QED
      BY <1>2, <2>1, <3>1, SegueNoCiclo, SoEle DEF LojaSegue
  <2> QED
    BY <2>2, <2>3
<1> QED
  BY <1>3, <1>4, <1>5, <1>6

\* POST publish and GET /p change neither cycles nor what a lot is made of.
LEMMA PublicacaoUm ==
    ASSUME IInv, InvUm, Publicacao
    PROVE  InvUm' /\ ciclos' = ciclos
<1>1. /\ TypeLoja /\ PilhaIgual /\ Cresce
  BY SemHandler DEF IInv, TypeOk, PassoLoja
<1>2. UNCHANGED <<seq, ciclos, eventos>>
  BY DEF Publicacao, Publicar, AbrirPagina, vars, loja
<1>3. Len(lotes') = Len(lotes)
  <2>1. ASSUME NEW l \in Ids(lotes), Publicar(l) PROVE Len(lotes') = Len(lotes)
    BY <1>1, <2>1 DEF Publicar, Expor, TypeLoja
  <2> QED
    BY <2>1 DEF Publicacao, AbrirPagina, vars
<1>4. /\ Ids(lotes)' = Ids(lotes) /\ Ids(ciclos)' = Ids(ciclos)
      /\ \A l \in Ids(lotes) : /\ lotes'[l].ciclo = lotes[l].ciclo
                               /\ lotes'[l].codigo = lotes[l].codigo
                               /\ lotes'[l].snapshot = lotes[l].snapshot
  BY <1>1, <1>2, <1>3 DEF Cresce, LotesCrescem, Ids
<1>5. \A c : EventosDe(c)' = EventosDe(c)
  BY <1>2 DEF EventosDe, Ids
<1>6. CodigosDosCiclos' /\ UmLotePorCiclo' /\ SnapshotCompleto' /\ UmCicloLivre'
  BY <1>2, <1>4, <1>5 DEF InvUm, CodigosDosCiclos, UmLotePorCiclo, SnapshotCompleto, UmCicloLivre
<1>7. LoteNoCiclo'
  BY <1>1, <1>2, <1>4 DEF InvUm, LoteNoCiclo, PilhaIgual
<1>8. ASSUME NEW t \in Threads PROVE Vez(t)'
  <2>1. Vez(t) /\ ThreadOk(t)
    BY DEF InvUm, IInv, TypeOk, TypeThreads
  <2>2. VezNumerar(t)'
    BY <1>1, <1>2, <1>4, <2>1 DEF Vez, VezNumerar, PilhaIgual, ChaveDe, CiclosAbertos
  <2>3. VezStatus(t)'
    BY <1>1, <1>2, <2>1 DEF Vez, VezStatus, PilhaIgual
  <2>4. passo[t] = "marcarCiclo" => lote[t] \in Ids(lotes)
    BY <2>1 DEF ThreadOk
  <2>5. VezLote(t)'
    BY <1>1, <1>2, <1>4, <1>5, <2>1, <2>4 DEF Vez, VezLote, PilhaIgual
  <2> QED
    BY <2>2, <2>3, <2>5 DEF Vez
<1> QED
  BY <1>2, <1>6, <1>7, <1>8 DEF InvUm

LEMMA UmInicial == Init => InvUm
<1> SUFFICES ASSUME Init PROVE InvUm
  OBVIOUS
<1>1. Ids(ciclos) = {} /\ Ids(lotes) = {}
  BY DEF Init, InitCiclos, InitLotes, Ids
<1>2. ASSUME NEW t \in Threads PROVE Vez(t)
  <2>1. passo[t] = "livre" /\ fila[t] = {}
    BY DEF Init, InitCiclos, InitLotes
  <2> QED
    BY <2>1 DEF Vez, VezNumerar, VezStatus, VezLote, PassosCiclo, PassosStatus, PassosLote
<1> QED
  BY <1>1, <1>2 DEF InvUm, CodigosDosCiclos, UmLotePorCiclo, SnapshotCompleto, LoteNoCiclo, UmCicloLivre

LEMMA UmSempre ==
    ASSUME UmaThread
    PROVE  Spec => [](IInv /\ InvUm)
<1>1. IInv /\ InvUm /\ [Next]_vars => InvUm'
  BY SozinhoPasso, PublicacaoUm, PassosDe
<1> QED
  BY <1>1, InvInicial, InvIndutivo, UmInicial, PTL DEF Spec

\* RN-02 while requests are served one at a time, for any units, shared sequences
\* and protocols: no code is used for a second lot.
THEOREM CodigosUnicos ==
    ASSUME UmaThread
    PROVE  Spec => []CodigoUnico
<1>1. IInv /\ InvUm => CodigoUnico
  <2> SUFFICES ASSUME IInv, InvUm, NEW k \in Ids(lotes), NEW l \in Ids(lotes),
                      lotes[k].codigo = lotes[l].codigo
               PROVE  k = l
    BY DEF CodigoUnico
  <2>1. lotes[k].ciclo \in Ids(ciclos) /\ lotes[l].ciclo \in Ids(ciclos)
    BY DEF IInv, TypeOk, TypeLoja
  <2> QED
    BY <2>1 DEF InvUm, UmLotePorCiclo, CodigosDosCiclos
<1> QED
  BY <1>1, UmSempre, PTL

\* One at a time, a lot whose request has ended is of a cycle that is marked, and
\* so accepts neither event nor lot.
THEOREM LotesNosCiclos ==
    ASSUME UmaThread
    PROVE  Spec => []LoteNoCiclo
<1>1. InvUm => LoteNoCiclo
  BY DEF InvUm
<1> QED
  BY <1>1, UmSempre, PTL

\* One at a time, the snapshot of a lot holds every event its cycle will ever
\* have, those hidden from the public excepted, and none of these.
THEOREM SnapshotsCompletos ==
    ASSUME UmaThread
    PROVE  Spec => []SnapshotCompleto
<1>1. InvUm => SnapshotCompleto
  BY DEF InvUm
<1> QED
  BY <1>1, UmSempre, PTL

\* One at a time, the activities of a unit meet in one free cycle.
THEOREM CiclosLivresUnicos ==
    ASSUME UmaThread
    PROVE  Spec => []UmCicloLivre
<1>1. InvUm => UmCicloLivre
  BY DEF InvUm
<1> QED
  BY <1>1, UmSempre, PTL

\* RF-04, one at a time: neither PATCH status, generate nor the portal makes a
\* cycle skip a state or return to one.
THEOREM MaquinaRespeitada ==
    ASSUME UmaThread
    PROVE  Spec => MaquinaDeEstados
<1> DEFINE Anda == \A c \in Ids(ciclos) :
                       Ordem(ciclos'[c].status) - Ordem(ciclos[c].status) \in {0, 1}
<1>1. IInv /\ InvUm /\ [Next]_vars => [Anda]_vars
  <2> SUFFICES ASSUME IInv, InvUm, [Next]_vars, NEW c \in Ids(ciclos)
               PROVE  Ordem(ciclos'[c].status) - Ordem(ciclos[c].status) \in {0, 1}
    OBVIOUS
  <2>1. ciclos[c].status \in StatusCiclo
    <3>1. ciclos[c] \in Ciclo
      BY DEF IInv, TypeOk, TypeLoja, Ids
    <3> QED
      BY <3>1 DEF Ciclo
  <2>2. Ordem(ciclos[c].status) \in Nat
    BY <2>1, Ordens DEF StatusCiclo
  <2>3. CASE Publicacao
    BY <2>2, <2>3, PublicacaoUm
  <2>4. ASSUME NEW t \in Threads, Agir(t)
        PROVE  Ordem(ciclos'[c].status) - Ordem(ciclos[c].status) \in {0, 1}
    <3>1. StatusAvanca(t, c)
      BY <2>4, Avanca DEF InvUm
    <3> QED
      BY <2>2, <3>1, Transitar DEF StatusAvanca
  <2> QED
    BY <2>3, <2>4, PassosDe
<1> QED
  BY <1>1, UmSempre, PTL DEF Spec, MaquinaDeEstados

-----------------------------------------------------------------------------
(***************************************************************************)
(* The public pages.                                                       *)
(***************************************************************************)

LEMMA PaginaFica ==
    ASSUME IInv, PassoLoja, NEW l \in Publicos
    PROVE  l \in Publicos' /\ Pagina(l)' = Pagina(l)
<1>1. TypeLoja /\ TypeLoja' /\ Cresce
  BY DEF IInv, TypeOk, PassoLoja
<1>2. l \in Ids(lotes) /\ l \in Ids(lotes)' /\ lotes[l].publico
  BY <1>1, IdsCrescem DEF Publicos
<1>3. /\ lotes'[l].publico /\ lotes'[l].codigo = lotes[l].codigo
      /\ lotes'[l].ciclo = lotes[l].ciclo /\ lotes'[l].eventos = lotes[l].eventos
      /\ lotes'[l].snapshot = lotes[l].snapshot
  BY <1>1, <1>2 DEF Cresce, LotesCrescem
<1>4. lotes[l].ciclo \in Ids(ciclos) /\ lotes[l].eventos \subseteq Ids(eventos)
  BY <1>1, <1>2 DEF TypeLoja
<1>5. ciclos'[lotes[l].ciclo].protocolo = ciclos[lotes[l].ciclo].protocolo
  BY <1>1, <1>4 DEF Cresce, CiclosCrescem
<1>6. \A e \in lotes[l].eventos : eventos'[e].etapa = eventos[e].etapa
  BY <1>1, <1>4 DEF Cresce, EventosCrescem
<1>7. l \in Publicos'
  BY <1>2, <1>3 DEF Publicos
<1>8. Pagina(l)' = Pagina(l)
  BY <1>3, <1>5, <1>6 DEF Pagina
<1> QED
  BY <1>7, <1>8

LEMMA PaginaCompleta ==
    ASSUME LoteCompleto', NEW l \in Publicos'
    PROVE  V!Completa(Pagina(l)')
<1>1. ObrigatoriasDe(lotes[l].ciclo)' \subseteq {eventos'[e].etapa : e \in lotes'[l].eventos}
  BY DEF LoteCompleto, Publicos
<1> QED
  BY <1>1, ProducaoAssumption DEF V!Completa, Pagina, ObrigatoriasDe

\* The pages behind the QR codes implement Vitrine: once shown they stay, word
\* for word, and they are of lots made of a complete cycle.
THEOREM PaginasImplementamVitrine == Spec => VitrineSpec
<1> DEFINE paginas == [l \in Publicos |-> Pagina(l)]
<1>1. Init => V!InitVitrine
  <2>1. Init => Publicos = {}
    BY DEF Init, InitLotes, Publicos, Ids
  <2> QED
    BY <2>1 DEF V!InitVitrine
<1>2. IInv /\ IInv' /\ [Next]_vars => [V!Mostrar]_paginas
  <2> SUFFICES ASSUME IInv, IInv', [Next]_vars PROVE V!Mostrar
    OBVIOUS
  <2>1. PassoLoja
    BY PassoDaLoja
  <2>2. \A l \in Publicos : l \in Publicos' /\ Pagina(l)' = Pagina(l)
    BY <2>1, PaginaFica
  <2>3. \A l \in Publicos' : V!Completa(Pagina(l)')
    BY PaginaCompleta DEF IInv
  <2> QED
    BY <2>2, <2>3 DEF V!Mostrar, V!Permanecem
<1> QED
  BY <1>1, <1>2, InvSempre, PTL DEF Spec, VitrineSpec, V!SpecVitrine
=============================================================================
