------------------------- MODULE RascunhoNfeProofs -------------------------
(***************************************************************************)
(* Every step of a purchase note handler is a step of the stock, keeps the *)
(* types of the NF-e tables, and leaves what the other sessions know of    *)
(* the drafts true: the keys of the notes being confirmed are reserved by  *)
(* the unique index, their lines stay linked, and the movements of an      *)
(* entry are those of the lines its session has read.                      *)
(***************************************************************************)
EXTENDS RascunhoNfe, EstoqueProofs, FiniteSetTheorems

PedidosNfe == PedidoNfe \cup {Livre}
FasesNfe == {"livre", "casando", "lendo", "entrada", "movendo"}

\* The requests of the sessions, those for other endpoints included.
Misturados(Outros) == pedido \in [Sessoes -> PedidosNfe \cup Outros]

\* Sets of requests for endpoints other than those of RascunhoService.
AlheiosNfe(Outros) ==
    \A p \in Outros : p.op \notin {"rascunho", "vincular", "novo", "confirmar",
                                   "descartar", "processar"}

LEMMA PedidoDaNfe ==
    ASSUME NEW Outros, AlheiosNfe(Outros), NEW p \in PedidosNfe \cup Outros, p # Livre
    PROVE  /\ p.op = "rascunho" <=> p \in PedidoCriar
           /\ p.op \in {"vincular", "novo"} <=> p \in PedidoVincular
           /\ p.op = "confirmar" <=> p \in PedidoConfirmar
           /\ p.op = "descartar" <=> p \in PedidoDescartar
           /\ p.op = "processar" <=> p \in PedidoProcessar
<1>1. CASE p \in Outros
  BY <1>1 DEF AlheiosNfe, PedidoCriar, PedidoVincular, PedidoConfirmar, PedidoDescartar,
              PedidoProcessar
<1>2. CASE p \in PedidoCriar
  BY <1>2 DEF PedidoCriar, PedidoVincular, PedidoConfirmar, PedidoDescartar, PedidoProcessar
<1>3. CASE p \in PedidoVincular
  BY <1>3 DEF PedidoCriar, PedidoVincular, PedidoConfirmar, PedidoDescartar, PedidoProcessar
<1>4. CASE p \in PedidoConfirmar
  BY <1>4 DEF PedidoCriar, PedidoVincular, PedidoConfirmar, PedidoDescartar, PedidoProcessar
<1>5. CASE p \in PedidoDescartar
  BY <1>5 DEF PedidoCriar, PedidoVincular, PedidoConfirmar, PedidoDescartar, PedidoProcessar
<1>6. CASE p \in PedidoProcessar
  BY <1>6 DEF PedidoCriar, PedidoVincular, PedidoConfirmar, PedidoDescartar, PedidoProcessar
<1> QED
  BY <1>1, <1>2, <1>3, <1>4, <1>5, <1>6 DEF PedidosNfe, PedidoNfe

-----------------------------------------------------------------------------
(***************************************************************************)
(* Drafts.                                                                 *)
(***************************************************************************)

LEMMA RascunhoCampos ==
    ASSUME NEW x \in Rascunho
    PROVE  /\ x.nota \in Notas /\ x.status \in StatusRascunho /\ x.itens \in ItensDe(x.nota)
           /\ x = [nota |-> x.nota, status |-> x.status, itens |-> x.itens]
<1>1. PICK n \in Notas : x \in [nota : {n}, status : StatusRascunho, itens : ItensDe(n)]
  BY DEF Rascunho
<1> QED
  BY <1>1

LEMMA RascunhoFeito ==
    ASSUME NEW n \in Notas, NEW st \in StatusRascunho, NEW it \in ItensDe(n)
    PROVE  [nota |-> n, status |-> st, itens |-> it] \in Rascunho
<1>1. [nota |-> n, status |-> st, itens |-> it]
         \in [nota : {n}, status : StatusRascunho, itens : ItensDe(n)]
  OBVIOUS
<1> QED
  BY <1>1 DEF Rascunho

LEMMA RascunhoLido ==
    ASSUME TypeNfe, NEW r \in Rascunhos, rascunho[r] # Livre
    PROVE  /\ rascunho[r] \in Rascunho
           /\ rascunho[r].nota \in Notas
           /\ rascunho[r].itens \in [DOMAIN Linhas(r) -> ItemRascunho]
           /\ DOMAIN Linhas(r) \subseteq Itens
           /\ \A i \in DOMAIN Linhas(r) : /\ Linhas(r)[i].cod \in Codigos
                                          /\ Linhas(r)[i].qtd \in Quantidades
<1>1. rascunho[r] \in Rascunho
  BY DEF TypeNfe
<1>2. rascunho[r].nota \in Notas /\ rascunho[r].itens \in ItensDe(rascunho[r].nota)
  BY <1>1, RascunhoCampos
<1> QED
  BY <1>1, <1>2, RascunhoNfeAssumption DEF ItensDe, Linhas

LEMMA MatchTipado ==
    ASSUME TypeNfe, NEW linha, linha.cod \in Codigos
    PROVE  TentarMatch(linha) \in ItemRascunho
<1>1. mapeamento[linha.cod] \in Produtos \cup {Livre} /\ ProdutoDoCodigo[linha.cod] \in Produtos
  BY RascunhoNfeAssumption DEF TypeNfe
<1>2. CASE mapeamento[linha.cod] # Livre
  BY <1>1, <1>2 DEF TentarMatch, ItemRascunho, ItemLigado, StatusItem
<1>3. CASE mapeamento[linha.cod] = Livre
  BY <1>1, <1>3 DEF TentarMatch, ItemRascunho, ItemLigado, StatusItem
<1> QED
  BY <1>2, <1>3

\* A line that is not PENDENTE has its product.
LEMMA LinhaLigada ==
    ASSUME NEW x \in ItemRascunho, x.status # "PENDENTE"
    PROVE  x \in ItemLigado
BY DEF ItemRascunho, ItemLigado

-----------------------------------------------------------------------------
(***************************************************************************)
(* Frames: what a step of one session leaves true of all of them.          *)
(***************************************************************************)

\* A step that leaves the drafts alone only has to answer for its own session.
LEMMA NfeQuadro ==
    ASSUME NfeConsistente, NEW Q, pedido \in [Sessoes -> Q], NEW G, fase \in [Sessoes -> G],
           NEW s \in Sessoes, NEW x, NEW f,
           pedido' = [pedido EXCEPT ![s] = x], fase' = [fase EXCEPT ![s] = f],
           rascunho' = rascunho, SessaoNfe(s)',
           x \in PedidoCriar => \A t \in Sessoes \ {s} :
                                   pedido[t] \in PedidoCriar => pedido[t].rasc # x.rasc
    PROVE  NfeConsistente'
<1>1. pedido'[s] = x /\ \A t \in Sessoes \ {s} : pedido'[t] = pedido[t] /\ fase'[t] = fase[t]
  OBVIOUS
<1>2. \A t \in Sessoes \ {s} : SessaoNfe(t)'
  BY <1>1 DEF NfeConsistente, Coerente, SessaoNfe, Linhas
<1>3. RascunhosDistintos'
  BY <1>1 DEF NfeConsistente, RascunhosDistintos
<1> QED
  BY <1>2, <1>3 DEF NfeConsistente

\* An idle session, or one that serves another endpoint, keeps nothing of drafts.
LEMMA SessaoAlheia ==
    ASSUME NEW s \in Sessoes, pedido'[s] \notin PedidoNfe,
           fase'[s] \notin {"casando", "lendo", "entrada"}
    PROVE  SessaoNfe(s)'
BY DEF Coerente, SessaoNfe, PedidoNfe

\* The drafts only gain: they keep their note, and a line that has a product
\* keeps one.
Evolui ==
    \A r \in Rascunhos : rascunho[r] # Livre =>
        /\ rascunho'[r] # Livre
        /\ rascunho'[r].nota = rascunho[r].nota
        /\ \A i \in DOMAIN Linhas(r) : rascunho[r].itens[i] \in ItemLigado
                                          => rascunho'[r].itens[i] \in ItemLigado

\* The commit of a session that writes drafts.
LEMMA NfeGravado ==
    ASSUME TypeNfe, NfeConsistente, NEW Q, pedido \in [Sessoes -> Q],
           NEW G, fase \in [Sessoes -> G], NEW s \in Sessoes, SessaoLimpa(s),
           Evolui,
           \A r \in Rascunhos : rascunho[r] = Livre /\ rascunho'[r] # Livre =>
                 pedido[s] \in PedidoCriar /\ pedido[s].rasc = r
    PROVE  NfeConsistente'
<1>1. /\ pedido'[s] = Livre /\ fase'[s] = "livre"
      /\ \A t \in Sessoes \ {s} : pedido'[t] = pedido[t] /\ fase'[t] = fase[t]
  BY DEF SessaoLimpa
<1>2. SessaoNfe(s)'
  BY <1>1, SessaoAlheia, PedidoNfeAssumption
<1>3. ASSUME NEW t \in Sessoes \ {s}
      PROVE  SessaoNfe(t)'
  <2> DEFINE p == pedido[t]
             linhasDepois(r) == Nota[rascunho'[r].nota].linhas
  <2>1. pedido'[t] = p /\ fase'[t] = fase[t] /\ SessaoNfe(t)
    BY <1>1 DEF NfeConsistente
  <2>2. p \in PedidoCriar => rascunho'[p.rasc] = Livre
    <3> SUFFICES ASSUME p \in PedidoCriar PROVE rascunho'[p.rasc] = Livre
      OBVIOUS
    <3>1. p.rasc \in Rascunhos /\ rascunho[p.rasc] = Livre
      BY <2>1 DEF Coerente, SessaoNfe, PedidoCriar
    <3>2. pedido[s] \in PedidoCriar => pedido[s].rasc # p.rasc
      BY DEF NfeConsistente, RascunhosDistintos
    <3> QED
      BY <3>1, <3>2
  <2>3. p \in PedidoVincular =>
           /\ rascunho'[p.rasc] # Livre
           /\ p.item \in DOMAIN linhasDepois(p.rasc)
           /\ p.antes \in ItemLigado => rascunho'[p.rasc].itens[p.item] \in ItemLigado
    <3> SUFFICES ASSUME p \in PedidoVincular
                 PROVE  /\ rascunho'[p.rasc] # Livre
                        /\ p.item \in DOMAIN linhasDepois(p.rasc)
                        /\ p.antes \in ItemLigado => rascunho'[p.rasc].itens[p.item] \in ItemLigado
      OBVIOUS
    <3>1. p.rasc \in Rascunhos /\ rascunho[p.rasc] # Livre /\ p.item \in DOMAIN Linhas(p.rasc)
          /\ (p.antes \in ItemLigado => rascunho[p.rasc].itens[p.item] \in ItemLigado)
      BY <2>1 DEF Coerente, SessaoNfe, PedidoVincular
    <3> QED
      BY <3>1 DEF Evolui, Linhas
  <2>4. p \in PedidoConfirmar =>
           /\ rascunho'[p.rasc] # Livre
           /\ fase[t] # "lendo" => p.itens \in [DOMAIN linhasDepois(p.rasc) -> ItemLigado]
    <3> SUFFICES ASSUME p \in PedidoConfirmar
                 PROVE  /\ rascunho'[p.rasc] # Livre
                        /\ fase[t] # "lendo" => p.itens \in [DOMAIN linhasDepois(p.rasc) -> ItemLigado]
      OBVIOUS
    <3>1. p.rasc \in Rascunhos /\ rascunho[p.rasc] # Livre
          /\ (fase[t] # "lendo" => p.itens \in [DOMAIN Linhas(p.rasc) -> ItemLigado])
      BY <2>1 DEF Coerente, SessaoNfe, PedidoConfirmar
    <3>2. linhasDepois(p.rasc) = Linhas(p.rasc)
      BY <3>1 DEF Evolui, Linhas
    <3> QED
      BY <3>1, <3>2 DEF Evolui
  <2>5. p \in PedidoDescartar => rascunho'[p.rasc] # Livre
    BY <2>1 DEF Coerente, SessaoNfe, PedidoDescartar, Evolui
  <2>6. /\ fase[t] = "casando" => p \in PedidoCriar
        /\ fase[t] \in {"lendo", "entrada"} => p \in PedidoConfirmar
        /\ p \in PedidoCriar /\ fase[t] = "movendo" => p.itens \in ItensDe(p.nota)
    BY <2>1 DEF Coerente, SessaoNfe
  <2> HIDE DEF p
  <2> QED
    BY <2>1, <2>2, <2>3, <2>4, <2>5, <2>6 DEF Coerente, SessaoNfe, Linhas
<1>4. RascunhosDistintos'
  BY <1>1, PedidoNfeAssumption DEF NfeConsistente, RascunhosDistintos, PedidoNfe
<1> QED
  BY <1>2, <1>3, <1>4 DEF NfeConsistente

-----------------------------------------------------------------------------
(***************************************************************************)
(* Requests.                                                               *)
(***************************************************************************)

\* What the lemmas on the handlers assume of the state.
ContextoNfe(Outros) ==
    /\ TypeEstoque /\ TypeNfe /\ NfeConsistente
    /\ AlheiosNfe(Outros)
    /\ Misturados(Outros)
    /\ fase \in [Sessoes -> FasesNfe \cup {"itens"}]

\* What they show of a step.
PassoNfe == /\ PassoEstoque /\ PassoPedido(PedidosNfe, FasesNfe)
            /\ TypeNfe' /\ NfeConsistente' /\ Evolui

LEMMA PedirComum ==
    ASSUME NEW Outros, ContextoNfe(Outros), NEW s \in Sessoes, NEW ped \in PedidoNfe,
           NEW f \in FasesNfe, Iniciar(s, ped, f, {}), UNCHANGED nfeVars, Coerente(ped, f),
           ped \in PedidoCriar => \A t \in Sessoes \ {s} :
                                     pedido[t] \in PedidoCriar => pedido[t].rasc # ped.rasc
    PROVE  PassoNfe
<1>1. /\ TypeEstoque /\ NfeConsistente /\ ped \in PedidosNfe /\ {} \in SUBSET Movimento
      /\ pedido \in [Sessoes -> PedidosNfe \cup Outros]
      /\ fase \in [Sessoes -> FasesNfe \cup {"itens"}]
  BY DEF ContextoNfe, PedidosNfe, Misturados
<1>2. PassoEstoque /\ PassoPedido(PedidosNfe, FasesNfe)
  BY <1>1, IniciarPasso
<1>3. TypeNfe'
  BY DEF ContextoNfe, TypeNfe, nfeVars
<1>4. pedido' = [pedido EXCEPT ![s] = ped] /\ fase' = [fase EXCEPT ![s] = f]
      /\ rascunho' = rascunho
  BY DEF Iniciar, nfeVars
<1>5. SessaoNfe(s)'
  BY <1>1, <1>4 DEF SessaoNfe, Coerente, Linhas
<1>6. NfeConsistente'
  BY <1>1, <1>4, <1>5, NfeQuadro
<1>7. Evolui
  BY <1>4 DEF Evolui
<1> QED
  BY <1>2, <1>3, <1>6, <1>7 DEF PassoNfe

LEMMA CriarPasso ==
    ASSUME NEW Outros, ContextoNfe(Outros), NEW s \in Sessoes, NEW r \in Rascunhos,
           NEW n \in Notas, CriarRascunho(s, r, n)
    PROVE  PassoNfe
<1> DEFINE ped == [op |-> "rascunho", rasc |-> r, nota |-> n, itens |-> SemItens]
<1>1. ped \in PedidoCriar /\ ped \notin PedidoVincular /\ ped \notin PedidoConfirmar
      /\ ped \notin PedidoDescartar /\ ped.rasc = r
  BY DEF PedidoCriar, PedidoVincular, PedidoConfirmar, PedidoDescartar
<1>2. Iniciar(s, ped, "casando", {}) /\ UNCHANGED nfeVars /\ rascunho[r] = Livre
  BY DEF CriarRascunho
<1>3. \A t \in Sessoes : pedido[t] # Livre /\ pedido[t].op = "rascunho" => pedido[t].rasc # r
  BY DEF CriarRascunho
<1>4. \A t \in Sessoes : pedido[t] \in PedidoCriar => pedido[t].rasc # r
  BY <1>3, PedidoNfeAssumption DEF PedidoCriar, PedidoNfe
<1> HIDE DEF ped
<1>5. Coerente(ped, "casando")
  BY <1>1, <1>2 DEF Coerente
<1>6. ped \in PedidoNfe /\ "casando" \in FasesNfe
  BY <1>1 DEF PedidoNfe, FasesNfe
<1> QED
  BY <1>1, <1>2, <1>4, <1>5, <1>6, PedirComum

LEMMA VincularPasso ==
    ASSUME NEW Outros, ContextoNfe(Outros), NEW s \in Sessoes, NEW r \in Rascunhos,
           NEW i \in Itens, NEW p \in Produtos, NEW op \in {"vincular", "novo"},
           Pendente(r), i \in DOMAIN Linhas(r), UNCHANGED nfeVars,
           Iniciar(s, [op |-> op, rasc |-> r, item |-> i, prod |-> p,
                       antes |-> rascunho[r].itens[i]], "movendo", {})
    PROVE  PassoNfe
<1> DEFINE ped == [op |-> op, rasc |-> r, item |-> i, prod |-> p,
                   antes |-> rascunho[r].itens[i]]
<1>1. rascunho[r] # Livre
  BY DEF Pendente
<1>2. rascunho[r].itens[i] \in ItemRascunho
  BY <1>1, RascunhoLido DEF ContextoNfe
<1>3. ped \in PedidoVincular /\ ped \notin PedidoCriar /\ ped \notin PedidoConfirmar
      /\ ped \notin PedidoDescartar /\ ped.rasc = r /\ ped.item = i
      /\ ped.antes = rascunho[r].itens[i]
  BY <1>2 DEF PedidoCriar, PedidoVincular, PedidoConfirmar, PedidoDescartar
<1>4. Iniciar(s, ped, "movendo", {})
  OBVIOUS
<1> HIDE DEF ped
<1>5. Coerente(ped, "movendo")
  BY <1>1, <1>3 DEF Coerente
<1>6. ped \in PedidoNfe /\ "movendo" \in FasesNfe
  BY <1>3 DEF PedidoNfe, FasesNfe
<1> QED
  BY <1>3, <1>4, <1>5, <1>6, PedirComum

LEMMA ConfirmarPasso ==
    ASSUME NEW Outros, ContextoNfe(Outros), NEW s \in Sessoes, NEW r \in Rascunhos,
           Confirmar(s, r)
    PROVE  PassoNfe
<1> DEFINE ped == [op |-> "confirmar", rasc |-> r, itens |-> SemItens, feitas |-> {}]
<1>1. rascunho[r] # Livre
  BY DEF Confirmar, Pendente
<1>2. ped \in PedidoConfirmar /\ ped \notin PedidoCriar /\ ped \notin PedidoVincular
      /\ ped \notin PedidoDescartar /\ ped.rasc = r
  BY DEF PedidoCriar, PedidoVincular, PedidoConfirmar, PedidoDescartar
<1>3. Iniciar(s, ped, "lendo", {}) /\ UNCHANGED nfeVars
  BY DEF Confirmar
<1> HIDE DEF ped
<1>4. Coerente(ped, "lendo")
  BY <1>1, <1>2 DEF Coerente
<1>5. ped \in PedidoNfe /\ "lendo" \in FasesNfe
  BY <1>2 DEF PedidoNfe, FasesNfe
<1> QED
  BY <1>2, <1>3, <1>4, <1>5, PedirComum

LEMMA CancelarPasso ==
    ASSUME NEW Outros, ContextoNfe(Outros), NEW s \in Sessoes, NEW r \in Rascunhos,
           CancelarRascunho(s, r)
    PROVE  PassoNfe
<1> DEFINE ped == [op |-> "descartar", rasc |-> r]
<1>1. rascunho[r] # Livre
  BY DEF CancelarRascunho, Pendente
<1>2. ped \in PedidoDescartar /\ ped \notin PedidoCriar /\ ped \notin PedidoVincular
      /\ ped \notin PedidoConfirmar /\ ped.rasc = r
  BY DEF PedidoCriar, PedidoVincular, PedidoConfirmar, PedidoDescartar
<1>3. Iniciar(s, ped, "movendo", {}) /\ UNCHANGED nfeVars
  BY DEF CancelarRascunho
<1> HIDE DEF ped
<1>4. Coerente(ped, "movendo")
  BY <1>1, <1>2 DEF Coerente
<1>5. ped \in PedidoNfe /\ "movendo" \in FasesNfe
  BY <1>2 DEF PedidoNfe, FasesNfe
<1> QED
  BY <1>2, <1>3, <1>4, <1>5, PedirComum

LEMMA ProcessarPasso ==
    ASSUME NEW Outros, ContextoNfe(Outros), NEW s \in Sessoes, NEW e \in entradas,
           ProcessarEntrada(s, e)
    PROVE  PassoNfe
<1> DEFINE ped == [op |-> "processar", rasc |-> e.rasc, num |-> e.num]
<1>1. e.rasc \in Rascunhos /\ e.num \in Nat
  BY DEF ContextoNfe, TypeNfe
<1>2. ped \in PedidoProcessar /\ ped \notin PedidoCriar /\ ped \notin PedidoVincular
      /\ ped \notin PedidoConfirmar /\ ped \notin PedidoDescartar
  BY <1>1 DEF PedidoCriar, PedidoVincular, PedidoConfirmar, PedidoDescartar, PedidoProcessar
<1>3. Iniciar(s, ped, "movendo", {}) /\ UNCHANGED nfeVars
  BY DEF ProcessarEntrada
<1> HIDE DEF ped
<1>4. Coerente(ped, "movendo")
  BY <1>2 DEF Coerente
<1>5. ped \in PedidoNfe /\ "movendo" \in FasesNfe
  BY <1>2 DEF PedidoNfe, FasesNfe
<1> QED
  BY <1>2, <1>3, <1>4, <1>5, PedirComum

LEMMA PedirNfePasso ==
    ASSUME NEW Outros, ContextoNfe(Outros), NEW s \in Sessoes, PedirNfe(s)
    PROVE  PassoNfe
<1>1. CASE \E r \in Rascunhos, n \in Notas : CriarRascunho(s, r, n)
  BY <1>1, CriarPasso
<1>2. CASE \E r \in Rascunhos, i \in Itens, p \in Produtos : VincularItem(s, r, i, p)
  <2>1. PICK r \in Rascunhos, i \in Itens, p \in Produtos : VincularItem(s, r, i, p)
    BY <1>2
  <2> DEFINE ped(op) == [op |-> op, rasc |-> r, item |-> i, prod |-> p,
                         antes |-> rascunho[r].itens[i]]
  <2>2. /\ Pendente(r) /\ i \in DOMAIN Linhas(r) /\ UNCHANGED nfeVars
        /\ Iniciar(s, ped("vincular"), "movendo", {})
    BY <2>1 DEF VincularItem
  <2> QED
    BY <2>2, VincularPasso
<1>3. CASE \E r \in Rascunhos, i \in Itens : CriarNovo(s, r, i)
  <2>1. PICK r \in Rascunhos, i \in Itens : CriarNovo(s, r, i)
    BY <1>3
  <2> DEFINE p == ProdutoDoCodigo[Linhas(r)[i].cod]
             ped(op) == [op |-> op, rasc |-> r, item |-> i, prod |-> p,
                         antes |-> rascunho[r].itens[i]]
  <2>2. /\ Pendente(r) /\ i \in DOMAIN Linhas(r) /\ UNCHANGED nfeVars
        /\ Iniciar(s, ped("novo"), "movendo", {})
    BY <2>1 DEF CriarNovo
  <2>3. Linhas(r)[i].cod \in Codigos
    BY <2>2, RascunhoLido DEF ContextoNfe, Pendente
  <2>4. p \in Produtos
    BY <2>3, RascunhoNfeAssumption
  <2> QED
    BY <2>2, <2>4, VincularPasso
<1>4. CASE \E r \in Rascunhos : Confirmar(s, r)
  BY <1>4, ConfirmarPasso
<1>5. CASE \E r \in Rascunhos : CancelarRascunho(s, r)
  BY <1>5, CancelarPasso
<1>6. CASE \E e \in entradas : ProcessarEntrada(s, e)
  BY <1>6, ProcessarPasso
<1> QED
  BY <1>1, <1>2, <1>3, <1>4, <1>5, <1>6 DEF PedirNfe

-----------------------------------------------------------------------------
(***************************************************************************)
(* Steps inside a handler.                                                 *)
(***************************************************************************)

LEMMA MeioComum ==
    ASSUME NEW Outros, ContextoNfe(Outros), NEW s \in Sessoes, NEW x \in PedidosNfe,
           NEW f \in FasesNfe,
           pedido' = [pedido EXCEPT ![s] = x], fase' = [fase EXCEPT ![s] = f],
           UNCHANGED <<banco, memoria, iniciados, nfeVars>>,
           fila' \in [Sessoes -> SUBSET Movimento], Coerente(x, f),
           x \in PedidoCriar => pedido[s] \in PedidoCriar /\ pedido[s].rasc = x.rasc
    PROVE  PassoNfe
<1>1. /\ TypeEstoque /\ NfeConsistente
      /\ pedido \in [Sessoes -> PedidosNfe \cup Outros]
      /\ fase \in [Sessoes -> FasesNfe \cup {"itens"}]
  BY DEF ContextoNfe, Misturados
<1>2. PassoEstoque
  BY <1>1 DEF PassoEstoque, TypeEstoque
<1>3. PassoPedido(PedidosNfe, FasesNfe)
  BY DEF PassoPedido
<1>4. TypeNfe' /\ rascunho' = rascunho
  BY DEF ContextoNfe, TypeNfe, nfeVars
<1>5. SessaoNfe(s)'
  BY <1>1, <1>4 DEF SessaoNfe, Coerente, Linhas
<1>6. x \in PedidoCriar => \A t \in Sessoes \ {s} :
                              pedido[t] \in PedidoCriar => pedido[t].rasc # x.rasc
  BY <1>1 DEF NfeConsistente, RascunhosDistintos
<1>7. NfeConsistente'
  BY <1>1, <1>4, <1>5, <1>6, NfeQuadro
<1>8. Evolui
  BY <1>4 DEF Evolui
<1> QED
  BY <1>2, <1>3, <1>4, <1>7, <1>8 DEF PassoNfe

\* A request that ends without commit.
LEMMA FimComum ==
    ASSUME NEW Outros, ContextoNfe(Outros), NEW s \in Sessoes, SessaoLimpa(s),
           UNCHANGED <<banco, iniciados, nfeVars>>
    PROVE  PassoNfe
<1>1. /\ TypeEstoque /\ NfeConsistente /\ Livre \in PedidosNfe /\ "livre" \in FasesNfe
      /\ pedido \in [Sessoes -> PedidosNfe \cup Outros]
      /\ fase \in [Sessoes -> FasesNfe \cup {"itens"}]
  BY DEF ContextoNfe, Misturados, PedidosNfe, FasesNfe
<1>2. PassoEstoque /\ PassoPedido(PedidosNfe, FasesNfe)
  BY <1>1, LimpaPasso
<1>3. TypeNfe' /\ rascunho' = rascunho
  BY DEF ContextoNfe, TypeNfe, nfeVars
<1>4. pedido' = [pedido EXCEPT ![s] = Livre] /\ fase' = [fase EXCEPT ![s] = "livre"]
  BY DEF SessaoLimpa
<1>5. SessaoNfe(s)'
  BY <1>1, <1>4, SessaoAlheia, PedidoNfeAssumption
<1>6. Livre \notin PedidoCriar
  BY PedidoNfeAssumption DEF PedidoNfe
<1>7. NfeConsistente'
  BY <1>1, <1>3, <1>4, <1>5, <1>6, NfeQuadro
<1>8. Evolui
  BY <1>3 DEF Evolui
<1> QED
  BY <1>2, <1>3, <1>7, <1>8 DEF PassoNfe

LEMMA MovimentarNfePasso ==
    ASSUME NEW Outros, ContextoNfe(Outros), NEW s \in Sessoes, MovimentarNfe(s)
    PROVE  PassoNfe
<1>1. PICK m \in fila[s] : RegistrarMovimentacao(s, m)
  BY DEF MovimentarNfe
<1>2. PassoEstoque /\ PassoPedido(PedidosNfe, FasesNfe)
  BY <1>1, MovimentarPasso DEF ContextoNfe
<1>3. UNCHANGED <<pedido, fase, nfeVars>>
  BY <1>1 DEF MovimentarNfe, RegistrarMovimentacao
<1>4. TypeNfe'
  BY <1>3 DEF ContextoNfe, TypeNfe, nfeVars
<1>5. NfeConsistente'
  BY <1>3 DEF ContextoNfe, NfeConsistente, SessaoNfe, Coerente, RascunhosDistintos, Linhas,
              nfeVars
<1>6. Evolui
  BY <1>3 DEF Evolui, nfeVars
<1> QED
  BY <1>2, <1>4, <1>5, <1>6 DEF PassoNfe

\* The upsert of a mapping, or the wait for it: the autoflush sends the changed
\* products, and the request goes on with the same draft and lines.
LEMMA MapearForma ==
    ASSUME NEW Outros, ContextoNfe(Outros), NEW s \in Sessoes, MapearNfe(s)
    PROVE  LET x == pedido'[s] IN
           /\ pedido[s] \in PedidoConfirmar /\ x \in PedidoConfirmar
           /\ x.rasc = pedido[s].rasc /\ x.itens = pedido[s].itens
           /\ pedido' = [pedido EXCEPT ![s] = x]
           /\ fase' = fase /\ fase[s] = "movendo"
           /\ Travar(s) /\ UNCHANGED nfeVars
<1> DEFINE p == pedido[s]
<1>1. p # Livre /\ p.op = "confirmar" /\ p \in PedidosNfe \cup Outros
  BY DEF MapearNfe, ContextoNfe, Misturados
<1>2. p \in PedidoConfirmar
  BY <1>1, PedidoDaNfe DEF ContextoNfe
<1>3. PICK i \in Itens : MapearLinha(s, i) \/ EsperarMapeamento(s, i)
  BY DEF MapearNfe
<1>4. pedido \in [Sessoes -> PedidosNfe \cup Outros]
  BY DEF ContextoNfe, Misturados
<1>5. CASE MapearLinha(s, i)
  <2> DEFINE y == [op |-> "confirmar", rasc |-> p.rasc, itens |-> p.itens,
                   feitas |-> p.feitas \cup {i}]
  <2>1. y \in PedidoConfirmar /\ y.rasc = p.rasc /\ y.itens = p.itens
    BY <1>2 DEF PedidoConfirmar
  <2>2. /\ pedido' = [pedido EXCEPT ![s] = y] /\ fase' = fase /\ fase[s] = "movendo"
        /\ Travar(s) /\ UNCHANGED nfeVars
    BY <1>5 DEF MapearLinha, Travar
  <2> HIDE DEF y
  <2>3. pedido'[s] = y
    BY <1>4, <2>2
  <2> QED
    BY <1>2, <2>1, <2>2, <2>3
<1>6. CASE EsperarMapeamento(s, i)
  BY <1>2, <1>4, <1>6 DEF EsperarMapeamento, Travar
<1> QED
  BY <1>3, <1>5, <1>6

LEMMA MapearPasso ==
    ASSUME NEW Outros, ContextoNfe(Outros), NEW s \in Sessoes, MapearNfe(s)
    PROVE  PassoNfe
<1> DEFINE x == pedido'[s]
<1>1. /\ pedido[s] \in PedidoConfirmar /\ x \in PedidoConfirmar
      /\ x.rasc = pedido[s].rasc /\ x.itens = pedido[s].itens
      /\ pedido' = [pedido EXCEPT ![s] = x]
      /\ fase' = fase /\ fase[s] = "movendo"
      /\ Travar(s) /\ UNCHANGED nfeVars
  BY MapearForma
<1>2. fase \in [Sessoes -> FasesNfe \cup {"itens"}] /\ pedido \in [Sessoes -> PedidosNfe \cup Outros]
      /\ NfeConsistente
  BY DEF ContextoNfe, Misturados
<1>3. fase' = [fase EXCEPT ![s] = "movendo"] /\ "movendo" \in FasesNfe /\ x \in PedidosNfe
  BY <1>1, <1>2 DEF FasesNfe, PedidosNfe, PedidoNfe
<1>4. PassoEstoque /\ PassoPedido(PedidosNfe, FasesNfe)
  BY <1>1, <1>3 DEF PassoEstoque, PassoPedido
<1>5. TypeNfe' /\ rascunho' = rascunho
  BY <1>1 DEF ContextoNfe, TypeNfe, nfeVars
<1>6. x \notin PedidoCriar /\ x \notin PedidoVincular /\ x \notin PedidoDescartar
  BY <1>1 DEF PedidoCriar, PedidoVincular, PedidoConfirmar, PedidoDescartar
<1>7. SessaoNfe(s)
  BY <1>2 DEF NfeConsistente
<1>8. SessaoNfe(s)'
  BY <1>1, <1>5, <1>6, <1>7 DEF SessaoNfe, Coerente, Linhas
<1> HIDE DEF x
<1>9. NfeConsistente'
  BY <1>1, <1>2, <1>3, <1>5, <1>6, <1>8, NfeQuadro
<1>10. Evolui
  BY <1>5 DEF Evolui
<1> QED
  BY <1>4, <1>5, <1>9, <1>10 DEF PassoNfe

LEMMA CasarPasso ==
    ASSUME NEW Outros, ContextoNfe(Outros), NEW s \in Sessoes, CasarItens(s)
    PROVE  PassoNfe /\ pedido'[s] \in PedidoCriar
<1> DEFINE p == pedido[s]
           linhasXml == Nota[p.nota].linhas
           casados == [i \in DOMAIN linhasXml |-> TentarMatch(linhasXml[i])]
           x == [op |-> "rascunho", rasc |-> p.rasc, nota |-> p.nota, itens |-> casados]
<1>1. p \in PedidoCriar /\ rascunho[p.rasc] = Livre
  BY DEF ContextoNfe, NfeConsistente, SessaoNfe, Coerente, CasarItens
<1>2. p.rasc \in Rascunhos /\ p.nota \in Notas
  BY <1>1 DEF PedidoCriar
<1>3. ASSUME NEW i \in DOMAIN linhasXml
      PROVE  TentarMatch(linhasXml[i]) \in ItemRascunho
  <2>1. linhasXml[i].cod \in Codigos
    BY <1>2, RascunhoNfeAssumption
  <2> HIDE DEF linhasXml
  <2> QED
    BY <2>1, MatchTipado DEF ContextoNfe
<1>4. casados \in ItensDe(p.nota)
  BY <1>3 DEF ItensDe
<1>5. /\ pedido' = [pedido EXCEPT ![s] = x] /\ fase' = [fase EXCEPT ![s] = "movendo"]
      /\ UNCHANGED <<banco, memoria, iniciados, nfeVars>> /\ fila' = fila
  BY DEF CasarItens
<1>6. fila' \in [Sessoes -> SUBSET Movimento]
  BY <1>5 DEF ContextoNfe, TypeEstoque
<1> HIDE DEF casados
<1>7. x \in PedidoCriar /\ x \notin PedidoVincular /\ x \notin PedidoConfirmar
      /\ x \notin PedidoDescartar /\ x.rasc = p.rasc /\ x.nota = p.nota /\ x.itens = casados
  BY <1>2, <1>4 DEF PedidoCriar, PedidoVincular, PedidoConfirmar, PedidoDescartar
<1> HIDE DEF x
<1>8. Coerente(x, "movendo")
  BY <1>1, <1>4, <1>7 DEF Coerente
<1>9. x \in PedidosNfe /\ "movendo" \in FasesNfe
  BY <1>7 DEF PedidosNfe, PedidoNfe, FasesNfe
<1>10. pedido'[s] = x
  BY <1>5 DEF ContextoNfe, Misturados
<1> QED
  BY <1>1, <1>5, <1>6, <1>7, <1>8, <1>9, <1>10, MeioComum

LEMMA LerPasso ==
    ASSUME NEW Outros, ContextoNfe(Outros), NEW s \in Sessoes, LerLinhas(s)
    PROVE  PassoNfe /\ pedido'[s] \in PedidoConfirmar
<1> DEFINE r == pedido[s].rasc
           x == [op |-> "confirmar", rasc |-> r, itens |-> rascunho[r].itens, feitas |-> {}]
<1>1. pedido[s] \in PedidoConfirmar /\ rascunho[r] # Livre
  BY DEF ContextoNfe, NfeConsistente, SessaoNfe, Coerente, LerLinhas
<1>2. r \in Rascunhos
  BY <1>1 DEF PedidoConfirmar
<1>3. /\ rascunho[r].nota \in Notas
      /\ rascunho[r].itens \in [DOMAIN Linhas(r) -> ItemRascunho]
  BY <1>1, <1>2, RascunhoLido DEF ContextoNfe
<1>4. \A i \in DOMAIN Linhas(r) : rascunho[r].itens[i] \in ItemLigado
  BY <1>3, LinhaLigada DEF LerLinhas, TemPendente
<1>5. rascunho[r].itens \in [DOMAIN Linhas(r) -> ItemLigado]
  BY <1>3, <1>4
<1>6. rascunho[r].itens \in ItensDe(rascunho[r].nota)
  BY <1>3 DEF ItensDe, Linhas
<1>7. /\ pedido' = [pedido EXCEPT ![s] = x] /\ fase' = [fase EXCEPT ![s] = "entrada"]
      /\ UNCHANGED <<banco, memoria, iniciados, nfeVars>> /\ fila' = fila
  BY DEF LerLinhas
<1>8. fila' \in [Sessoes -> SUBSET Movimento]
  BY <1>7 DEF ContextoNfe, TypeEstoque
<1>9. x \in PedidoConfirmar /\ x \notin PedidoCriar /\ x \notin PedidoVincular
      /\ x \notin PedidoDescartar /\ x.rasc = r /\ x.itens = rascunho[r].itens
  BY <1>2, <1>3, <1>6 DEF PedidoCriar, PedidoVincular, PedidoConfirmar, PedidoDescartar
<1> HIDE DEF x, r
<1>10. Coerente(x, "entrada")
  BY <1>1, <1>5, <1>9 DEF Coerente, r
<1>11. x \in PedidosNfe /\ "entrada" \in FasesNfe
  BY <1>9 DEF PedidosNfe, PedidoNfe, FasesNfe
<1>12. pedido'[s] = x
  BY <1>7 DEF ContextoNfe, Misturados
<1> QED
  BY <1>7, <1>8, <1>9, <1>10, <1>11, <1>12, MeioComum

LEMMA InserirPasso ==
    ASSUME NEW Outros, ContextoNfe(Outros), NEW s \in Sessoes, InserirEntrada(s)
    PROVE  PassoNfe
<1> DEFINE x == pedido[s]
           r == x.rasc
           mov(i) == [item |-> i, prod |-> x.itens[i].prod,
                      tipos |-> {"ENTRADA"}, qtd |-> Linhas(r)[i].qtd]
           ms == {mov(i) : i \in DOMAIN x.itens}
<1>1. x \in PedidoConfirmar /\ fase[s] = "entrada" /\ Coerente(x, "entrada")
  BY DEF ContextoNfe, NfeConsistente, SessaoNfe, Coerente, InserirEntrada
<1>2. /\ r \in Rascunhos /\ rascunho[r] # Livre
      /\ x.itens \in [DOMAIN Linhas(r) -> ItemLigado]
  BY <1>1 DEF Coerente, PedidoConfirmar
<1>3. ASSUME NEW i \in DOMAIN Linhas(r)
      PROVE  mov(i) \in Movimento
  <2>1. i \in Itens /\ Linhas(r)[i].qtd \in Quantidades
    BY <1>2, RascunhoLido DEF ContextoNfe
  <2>2. x.itens[i].prod \in Produtos
    BY <1>2 DEF ItemLigado
  <2> QED
    BY <2>1, <2>2 DEF Movimento, Tipos
<1>4. ms \in SUBSET Movimento
  BY <1>2, <1>3
<1>5. /\ fila' = [fila EXCEPT ![s] = ms] /\ fase' = [fase EXCEPT ![s] = "movendo"]
      /\ UNCHANGED <<banco, memoria, pedido, iniciados, nfeVars>>
  BY DEF InserirEntrada
<1> HIDE DEF ms
<1>6. fila' \in [Sessoes -> SUBSET Movimento]
  BY <1>4, <1>5 DEF ContextoNfe, TypeEstoque
<1>7. pedido' = [pedido EXCEPT ![s] = x]
  BY <1>5 DEF ContextoNfe, Misturados
<1>8. x \in PedidosNfe /\ "movendo" \in FasesNfe /\ x \notin PedidoCriar
      /\ x \notin PedidoVincular /\ x \notin PedidoDescartar
  BY <1>1 DEF PedidosNfe, PedidoNfe, FasesNfe, PedidoCriar, PedidoVincular, PedidoConfirmar,
              PedidoDescartar
<1>9. Coerente(x, "movendo")
  BY <1>1, <1>2, <1>8 DEF Coerente
<1> HIDE DEF x
<1> QED
  BY <1>5, <1>6, <1>7, <1>8, <1>9, MeioComum

-----------------------------------------------------------------------------
(***************************************************************************)
(* Commits.                                                                *)
(***************************************************************************)

LEMMA GravarComum ==
    ASSUME NEW Outros, ContextoNfe(Outros), NEW s \in Sessoes, NEW ref \in Rascunhos,
           pedido[s] # Livre, Gravar(s, ref), TypeNfe', Evolui,
           \A r \in Rascunhos : rascunho[r] = Livre /\ rascunho'[r] # Livre =>
                 pedido[s] \in PedidoCriar /\ pedido[s].rasc = r
    PROVE  PassoNfe
<1>1. /\ TypeEstoque /\ TypeNfe /\ NfeConsistente /\ Livre \in PedidosNfe /\ "livre" \in FasesNfe
      /\ pedido \in [Sessoes -> PedidosNfe \cup Outros]
      /\ fase \in [Sessoes -> FasesNfe \cup {"itens"}]
      /\ ref \in Refs
  BY RascunhoNfeAssumption DEF ContextoNfe, Misturados, PedidosNfe, FasesNfe
<1>2. PassoEstoque /\ PassoPedido(PedidosNfe, FasesNfe)
  BY <1>1, GravarPasso
<1>3. SessaoLimpa(s)
  BY DEF Gravar
<1>4. NfeConsistente'
  BY <1>1, <1>3, NfeGravado
<1> QED
  BY <1>2, <1>4 DEF PassoNfe

\* A change of status keeps the rest of the draft.
LEMMA StatusGravado ==
    ASSUME TypeNfe, NEW r \in Rascunhos, rascunho[r] # Livre, NEW st \in StatusRascunho,
           rascunho' = [rascunho EXCEPT ![r].status = st]
    PROVE  /\ rascunho' \in [Rascunhos -> Rascunho \cup {Livre}]
           /\ Evolui
           /\ \A q \in Rascunhos : rascunho[q] = Livre => rascunho'[q] = Livre
           /\ rascunho'[r].status = st /\ rascunho'[r].itens = rascunho[r].itens
           /\ \A q \in Rascunhos \ {r} : rascunho'[q] = rascunho[q]
<1> DEFINE x == rascunho[r]
           y == [x EXCEPT !.status = st]
<1>1. x \in Rascunho
  BY DEF TypeNfe
<1>2. /\ x.nota \in Notas /\ x.itens \in ItensDe(x.nota)
      /\ x = [nota |-> x.nota, status |-> x.status, itens |-> x.itens]
  BY <1>1, RascunhoCampos
<1>3. y = [nota |-> x.nota, status |-> st, itens |-> x.itens]
  BY <1>2
<1>4. y \in Rascunho /\ y.nota = x.nota /\ y.itens = x.itens /\ y.status = st
  BY <1>2, <1>3, RascunhoFeito
<1>5. y # Livre
  BY <1>4, PedidoNfeAssumption
<1>6. rascunho' = [rascunho EXCEPT ![r] = y] /\ rascunho \in [Rascunhos -> Rascunho \cup {Livre}]
  BY DEF TypeNfe
<1> HIDE DEF y
<1>7. rascunho'[r] = y /\ \A q \in Rascunhos \ {r} : rascunho'[q] = rascunho[q]
  BY <1>6
<1> QED
  BY <1>4, <1>5, <1>6, <1>7 DEF Evolui, Linhas

LEMMA ConcluirRascunhoPasso ==
    ASSUME NEW Outros, ContextoNfe(Outros), NEW s \in Sessoes, ConcluirRascunho(s)
    PROVE  PassoNfe
<1> DEFINE p == pedido[s]
           x == [nota |-> p.nota, status |-> "PENDENTE", itens |-> p.itens]
<1>1. p # Livre /\ p.op = "rascunho" /\ p \in PedidosNfe \cup Outros
  BY DEF ConcluirRascunho, ContextoNfe, Misturados
<1>2. p \in PedidoCriar
  BY <1>1, PedidoDaNfe DEF ContextoNfe
<1>3. p.rasc \in Rascunhos /\ p.nota \in Notas
  BY <1>2 DEF PedidoCriar
<1>4. fase[s] = "movendo" /\ Gravar(s, p.rasc)
  BY DEF ConcluirRascunho, Gravar
<1>5. rascunho[p.rasc] = Livre /\ p.itens \in ItensDe(p.nota)
  BY <1>2, <1>4 DEF ContextoNfe, NfeConsistente, SessaoNfe, Coerente
<1>6. x \in Rascunho
  BY <1>3, <1>5, RascunhoFeito DEF StatusRascunho
<1>7. rascunho' = [rascunho EXCEPT ![p.rasc] = x] /\ UNCHANGED <<entradas, mapeamento, catalogo>>
  BY DEF ConcluirRascunho
<1> HIDE DEF x
<1>8. /\ rascunho' \in [Rascunhos -> Rascunho \cup {Livre}]
      /\ \A q \in Rascunhos : q # p.rasc => rascunho'[q] = rascunho[q]
  BY <1>6, <1>7 DEF ContextoNfe, TypeNfe
<1>9. TypeNfe'
  BY <1>7, <1>8 DEF ContextoNfe, TypeNfe
<1>10. Evolui
  BY <1>5, <1>8 DEF Evolui
<1> QED
  BY <1>1, <1>2, <1>3, <1>4, <1>8, <1>9, <1>10, GravarComum

LEMMA ItemGravado ==
    ASSUME TypeNfe, NEW p \in PedidoVincular, Coerente(p, "movendo"),
           NEW st \in {"VINCULADO", "NOVO"}, GravarItem(p, st)
    PROVE  /\ rascunho' \in [Rascunhos -> Rascunho \cup {Livre}]
           /\ Evolui
           /\ \A q \in Rascunhos : rascunho[q] = Livre => rascunho'[q] = Livre
           /\ rascunho'[p.rasc].status = rascunho[p.rasc].status
           /\ \A q \in Rascunhos \ {p.rasc} : rascunho'[q] = rascunho[q]
<1> DEFINE r == p.rasc
           x == rascunho[r]
           de == x.itens[p.item]
           para == [prod |-> GravarColuna(de.prod, p.antes.prod, p.prod),
                    status |-> GravarColuna(de.status, p.antes.status, st)]
           it == [x.itens EXCEPT ![p.item] = para]
           y == [x EXCEPT !.itens = it]
<1>1. /\ r \in Rascunhos /\ x # Livre /\ p.item \in DOMAIN Linhas(r)
      /\ p.antes \in ItemLigado => de \in ItemLigado
      /\ p.antes \in ItemRascunho /\ p.prod \in Produtos
  BY DEF Coerente, PedidoVincular
<1>2. x \in Rascunho /\ x.itens \in [DOMAIN Linhas(r) -> ItemRascunho]
  BY <1>1, RascunhoLido
<1>3. /\ x.nota \in Notas
      /\ x = [nota |-> x.nota, status |-> x.status, itens |-> x.itens]
      /\ x.status \in StatusRascunho
  BY <1>2, RascunhoCampos
<1>4. para \in ItemLigado
  <2>1. CASE p.antes \in ItemLigado
    <3>1. de.prod \in Produtos /\ de.status \in StatusItem \ {"PENDENTE"}
      BY <1>1, <2>1 DEF ItemLigado
    <3> HIDE DEF de
    <3> QED
      BY <1>1, <3>1 DEF GravarColuna, ItemLigado, StatusItem
  <2>2. CASE p.antes \notin ItemLigado
    <3>1. p.antes.prod = Livre /\ p.antes.status = "PENDENTE"
      BY <1>1, <2>2 DEF ItemRascunho
    <3>2. p.prod # p.antes.prod /\ st # p.antes.status
      BY <1>1, <3>1, RascunhoNfeAssumption
    <3> QED
      BY <1>1, <3>2 DEF GravarColuna, ItemLigado, StatusItem
  <2> QED
    BY <2>1, <2>2
<1>5. rascunho' = [rascunho EXCEPT ![r] = y]
  BY DEF GravarItem
<1> HIDE DEF para
<1>6. it \in [DOMAIN Linhas(r) -> ItemRascunho]
  BY <1>1, <1>2, <1>4 DEF ItemRascunho
<1>7. \A i \in DOMAIN Linhas(r) : x.itens[i] \in ItemLigado => it[i] \in ItemLigado
  BY <1>1, <1>2, <1>4
<1> HIDE DEF it
<1>8. y = [nota |-> x.nota, status |-> x.status, itens |-> it]
  BY <1>3
<1>9. y \in Rascunho /\ y.nota = x.nota /\ y.itens = it /\ y.status = x.status
  BY <1>3, <1>6, <1>8, RascunhoFeito DEF ItensDe, Linhas
<1>10. y # Livre
  BY <1>9, PedidoNfeAssumption
<1> HIDE DEF y
<1>11. rascunho' \in [Rascunhos -> Rascunho \cup {Livre}]
       /\ rascunho'[r] = y /\ \A q \in Rascunhos \ {r} : rascunho'[q] = rascunho[q]
  BY <1>1, <1>5, <1>9 DEF TypeNfe
<1> QED
  BY <1>1, <1>7, <1>9, <1>10, <1>11 DEF Evolui

LEMMA ConcluirVincularPasso ==
    ASSUME NEW Outros, ContextoNfe(Outros), NEW s \in Sessoes,
           ConcluirVincular(s) \/ ConcluirNovo(s)
    PROVE  PassoNfe
<1> DEFINE p == pedido[s]
<1>1. p # Livre /\ p.op \in {"vincular", "novo"} /\ p \in PedidosNfe \cup Outros
  BY DEF ConcluirVincular, ConcluirNovo, ContextoNfe, Misturados
<1>2. p \in PedidoVincular
  BY <1>1, PedidoDaNfe DEF ContextoNfe
<1>3. p.rasc \in Rascunhos /\ p.prod \in Produtos
  BY <1>2 DEF PedidoVincular
<1>4. fase[s] = "movendo" /\ Gravar(s, p.rasc)
  BY DEF ConcluirVincular, ConcluirNovo, Gravar
<1>5. Coerente(p, "movendo")
  BY <1>4 DEF ContextoNfe, NfeConsistente, SessaoNfe
<1>6. PICK st \in {"VINCULADO", "NOVO"} : GravarItem(p, st)
  BY DEF ConcluirVincular, ConcluirNovo
<1>7. /\ rascunho' \in [Rascunhos -> Rascunho \cup {Livre}]
      /\ Evolui
      /\ \A q \in Rascunhos : rascunho[q] = Livre => rascunho'[q] = Livre
  BY <1>2, <1>5, <1>6, ItemGravado DEF ContextoNfe
<1>8. UNCHANGED <<entradas, mapeamento>> /\ catalogo' \in {catalogo, catalogo \cup {p.prod}}
  BY DEF ConcluirVincular, ConcluirNovo
<1>9. TypeNfe'
  BY <1>3, <1>7, <1>8 DEF ContextoNfe, TypeNfe
<1> QED
  BY <1>1, <1>3, <1>4, <1>7, <1>9, GravarComum

LEMMA EntradasTipadas ==
    ASSUME TypeNfe, NEW e
    PROVE  /\ IsFiniteSet(entradas \cup {e}) /\ Cardinality(entradas) \in Nat
           /\ \A f \in entradas : IsFiniteSet((entradas \ {f}) \cup {e})
<1>1. IsFiniteSet(entradas)
  BY DEF TypeNfe
<1>2. ASSUME NEW f \in entradas
      PROVE  IsFiniteSet((entradas \ {f}) \cup {e})
  <2>1. IsFiniteSet(entradas \ {f})
    BY <1>1, FS_Subset
  <2> QED
    BY <2>1, FS_AddElement
<1> QED
  BY <1>1, <1>2, FS_AddElement, FS_CardinalityType

LEMMA ConcluirConfirmarPasso ==
    ASSUME NEW Outros, ContextoNfe(Outros), NEW s \in Sessoes, ConcluirConfirmar(s)
    PROVE  PassoNfe
<1> DEFINE p == pedido[s]
           nova == NovaEntrada(p.rasc)
<1>1. p # Livre /\ p.op = "confirmar" /\ p \in PedidosNfe \cup Outros
  BY DEF ConcluirConfirmar, ContextoNfe, Misturados
<1>2. p \in PedidoConfirmar
  BY <1>1, PedidoDaNfe DEF ContextoNfe
<1>3. p.rasc \in Rascunhos
  BY <1>2 DEF PedidoConfirmar
<1>4. Gravar(s, p.rasc)
  BY DEF ConcluirConfirmar
<1>5. rascunho[p.rasc] # Livre
  BY <1>2 DEF ContextoNfe, NfeConsistente, SessaoNfe, Coerente
<1>6. /\ rascunho' \in [Rascunhos -> Rascunho \cup {Livre}]
      /\ Evolui
      /\ \A q \in Rascunhos : rascunho[q] = Livre => rascunho'[q] = Livre
  BY <1>3, <1>5, StatusGravado DEF ContextoNfe, ConcluirConfirmar, StatusRascunho
<1>7. mapeamento' \in [Codigos -> Produtos \cup {Livre}]
  BY DEF ConcluirConfirmar, ContextoNfe, TypeNfe
<1>8. nova \in [rasc : Rascunhos, chave : {ChaveDe(n) : n \in Notas},
                status : {"ABERTA", "PROCESSADA"}, num : Nat]
  <2>1. rascunho[p.rasc].nota \in Notas
    BY <1>3, <1>5, RascunhoLido DEF ContextoNfe
  <2>2. Cardinality({e \in entradas : e.rasc = p.rasc}) \in Nat
    <3>1. IsFiniteSet({e \in entradas : e.rasc = p.rasc})
      BY FS_Subset DEF ContextoNfe, TypeNfe
    <3> QED
      BY <3>1, FS_CardinalityType
  <2> QED
    BY <1>3, <2>1, <2>2 DEF NovaEntrada
<1>9. entradas' = entradas \cup {nova} /\ catalogo' = catalogo
  BY DEF ConcluirConfirmar
<1>10. IsFiniteSet(entradas')
  BY <1>9, EntradasTipadas DEF ContextoNfe
<1>11. TypeNfe'
  BY <1>6, <1>7, <1>8, <1>9, <1>10 DEF ContextoNfe, TypeNfe, ChaveDe
<1> QED
  BY <1>1, <1>3, <1>4, <1>6, <1>11, GravarComum

LEMMA ConcluirDescartarPasso ==
    ASSUME NEW Outros, ContextoNfe(Outros), NEW s \in Sessoes, ConcluirDescartar(s)
    PROVE  PassoNfe
<1> DEFINE p == pedido[s]
<1>1. p # Livre /\ p.op = "descartar" /\ p \in PedidosNfe \cup Outros
  BY DEF ConcluirDescartar, ContextoNfe, Misturados
<1>2. p \in PedidoDescartar
  BY <1>1, PedidoDaNfe DEF ContextoNfe
<1>3. p.rasc \in Rascunhos
  BY <1>2 DEF PedidoDescartar
<1>4. Gravar(s, p.rasc)
  BY DEF ConcluirDescartar
<1>5. rascunho[p.rasc] # Livre
  BY <1>2 DEF ContextoNfe, NfeConsistente, SessaoNfe, Coerente
<1>6. /\ rascunho' \in [Rascunhos -> Rascunho \cup {Livre}]
      /\ Evolui
      /\ \A q \in Rascunhos : rascunho[q] = Livre => rascunho'[q] = Livre
  BY <1>3, <1>5, StatusGravado DEF ContextoNfe, ConcluirDescartar, StatusRascunho
<1>7. TypeNfe'
  BY <1>6 DEF ContextoNfe, TypeNfe, ConcluirDescartar
<1> QED
  BY <1>1, <1>3, <1>4, <1>6, <1>7, GravarComum

LEMMA ConcluirProcessarPasso ==
    ASSUME NEW Outros, ContextoNfe(Outros), NEW s \in Sessoes, ConcluirProcessar(s)
    PROVE  PassoNfe
<1> DEFINE p == pedido[s]
<1>1. p # Livre /\ p.op = "processar" /\ p \in PedidosNfe \cup Outros
  BY DEF ConcluirProcessar, ContextoNfe, Misturados
<1>2. p.rasc \in Rascunhos
  BY <1>1, PedidoDaNfe DEF ContextoNfe, PedidoProcessar
<1>3. Gravar(s, p.rasc) /\ UNCHANGED <<rascunho, mapeamento, catalogo>>
  BY DEF ConcluirProcessar
<1>4. PICK e \in entradas :
         entradas' = (entradas \ {e}) \cup {[e EXCEPT !.status = "PROCESSADA"]}
  BY DEF ConcluirProcessar
<1>5. [e EXCEPT !.status = "PROCESSADA"]
         \in [rasc : Rascunhos, chave : {ChaveDe(n) : n \in Notas},
              status : {"ABERTA", "PROCESSADA"}, num : Nat]
  BY DEF ContextoNfe, TypeNfe
<1>6. IsFiniteSet(entradas')
  BY <1>4, EntradasTipadas DEF ContextoNfe
<1>7. TypeNfe'
  BY <1>3, <1>4, <1>5, <1>6 DEF ContextoNfe, TypeNfe, ChaveDe
<1>8. Evolui
  BY <1>3 DEF Evolui
<1> QED
  BY <1>1, <1>2, <1>3, <1>7, <1>8, GravarComum

\* Every step of the note handlers.
LEMMA ProximoNfe ==
    ASSUME NEW Outros, ContextoNfe(Outros), NextNfe
    PROVE  PassoNfe
<1>1. PICK s \in Sessoes :
         PedirNfe(s) \/ AtenderNfe(s) \/ DetectarDeadlockNfe(s) \/ CairNfe(s)
  BY DEF NextNfe
<1>2. CASE \/ CodigoRepetido(s) \/ RecusarPendente(s) \/ ChaveRepetida(s)
           \/ DetectarDeadlockNfe(s) \/ CairNfe(s)
  <2>1. SessaoLimpa(s) /\ UNCHANGED <<banco, iniciados, nfeVars>>
    BY <1>2 DEF CodigoRepetido, RecusarPendente, ChaveRepetida, DetectarDeadlockNfe,
                VitimaDeadlock, CairNfe, Abortar
  <2> QED
    BY <2>1, FimComum
<1> QED
  BY <1>1, <1>2, PedirNfePasso, CasarPasso, LerPasso, InserirPasso, MovimentarNfePasso, MapearPasso,
     ConcluirRascunhoPasso, ConcluirVincularPasso, ConcluirConfirmarPasso,
     ConcluirDescartarPasso, ConcluirProcessarPasso DEF AtenderNfe

-----------------------------------------------------------------------------
(***************************************************************************)
(* Types.                                                                  *)
(***************************************************************************)

LEMMA ContextoSoNfe ==
    TypeOkNfe => ContextoNfe({})
<1> SUFFICES ASSUME TypeOkNfe PROVE ContextoNfe({})
  OBVIOUS
<1>1. PedidosNfe \cup {} = PedidoNfe \cup {Livre}
  BY DEF PedidosNfe
<1> QED
  BY <1>1 DEF TypeOkNfe, ContextoNfe, AlheiosNfe, Misturados, FasesNfe

LEMMA TipoNfeInicial ==
    InitEntradas => TypeOkNfe
<1> SUFFICES ASSUME InitEntradas PROVE TypeOkNfe
  OBVIOUS
<1>1. TypeEstoque
  BY InitTipado DEF InitEntradas
<1>2. /\ pedido = [s \in Sessoes |-> Livre] /\ fase = [s \in Sessoes |-> "livre"]
      /\ rascunho = [r \in Rascunhos |-> Livre] /\ entradas = {}
      /\ mapeamento = [c \in Codigos |-> Livre] /\ catalogo = CatalogoInicial
  BY DEF InitEntradas, InitEstoque, InitSessoes, InitNfe
<1>3. TypeNfe
  BY <1>2, RascunhoNfeAssumption, FS_EmptySet DEF TypeNfe
<1>4. NfeConsistente
  BY <1>2, PedidoNfeAssumption
  DEF NfeConsistente, SessaoNfe, Coerente, RascunhosDistintos, PedidoNfe
<1> QED
  BY <1>1, <1>2, <1>3, <1>4 DEF TypeOkNfe

LEMMA TipoNfeIndutivo ==
    TypeOkNfe /\ [NextNfe]_varsNfe => TypeOkNfe'
<1> SUFFICES ASSUME TypeOkNfe, [NextNfe]_varsNfe PROVE TypeOkNfe'
  OBVIOUS
<1>1. CASE NextNfe
  <2>1. PassoNfe
    BY <1>1, ContextoSoNfe, ProximoNfe
  <2>2. TypeEstoque'
    BY <2>1, PassoTipado DEF TypeOkNfe, PassoNfe
  <2>3. pedido' \in [Sessoes -> PedidosNfe] /\ fase' \in [Sessoes -> FasesNfe]
    BY <2>1, PassoPedidoTipado DEF TypeOkNfe, PassoNfe, PedidosNfe, FasesNfe
  <2> QED
    BY <2>1, <2>2, <2>3 DEF TypeOkNfe, PassoNfe, PedidosNfe, FasesNfe
<1>2. CASE UNCHANGED varsNfe
  BY <1>2 DEF TypeOkNfe, TypeEstoque, TypeNfe, NfeConsistente, SessaoNfe, Coerente,
              RascunhosDistintos, Linhas, varsNfe, estoqueVars, nfeVars, banco, memoria
<1> QED
  BY <1>1, <1>2

\* The rows of RascunhoService have their types, and what a handler keeps of a
\* draft between its SELECT and its COMMIT still fits the draft when it is used:
\* the lines it will write exist, and those it has read linked are linked.
THEOREM TipoNfe == SpecNfe => []TypeOkNfe
<1>1. InitEntradas => TypeOkNfe
  BY TipoNfeInicial
<1>2. TypeOkNfe /\ [NextNfe]_varsNfe => TypeOkNfe'
  BY TipoNfeIndutivo
<1> QED
  BY <1>1, <1>2, PTL DEF SpecNfe

-----------------------------------------------------------------------------
(***************************************************************************)
(* Confirmations: what a session that confirms a draft holds on to.        *)
(***************************************************************************)

\* The session has read the lines of its draft; it has inserted the entry.
Conferido(s) == pedido[s] \in PedidoConfirmar /\ fase[s] \in {"entrada", "movendo"}
Confirmando(s) == pedido[s] \in PedidoConfirmar /\ fase[s] = "movendo"

ChaveDaSessao(s) == ChaveDe(rascunho[pedido[s].rasc].nota)

ItensLigados(r) == \A i \in DOMAIN Linhas(r) : rascunho[r].itens[i] \in ItemLigado

\* An entry that was inserted and not committed holds its key: nobody has
\* imported it, and no other open confirmation has it.
ChavesReservadas ==
    \A s \in Sessoes : Confirmando(s) /\ ChaveDaSessao(s) # SemChave =>
        /\ \A e \in entradas : e.chave # ChaveDaSessao(s)
        /\ \A t \in Sessoes \ {s} : Confirmando(t) => ChaveDaSessao(t) # ChaveDaSessao(s)

\* The drafts that are confirmed, or will be by a session past its check.
LigadosAteOFim ==
    /\ \A r \in Rascunhos : rascunho[r] # Livre /\ rascunho[r].status = "CONFIRMADA"
                               => ItensLigados(r)
    /\ \A s \in Sessoes : Conferido(s) => ItensLigados(pedido[s].rasc)

InvNfe == ChaveEntraUmaVez /\ ChavesReservadas /\ LigadosAteOFim

\* No session moves on in a confirmation, although one may begin.
ConfirmacoesSeguem ==
    \A t \in Sessoes : pedido'[t] \in PedidoConfirmar /\ fase'[t] # "lendo"
                          => /\ pedido[t] \in PedidoConfirmar
                             /\ pedido'[t].rasc = pedido[t].rasc /\ fase'[t] = fase[t]

\* No draft becomes CONFIRMADA, and no key is imported.
NadaConfirmado ==
    /\ \A r \in Rascunhos : rascunho'[r] # Livre /\ rascunho'[r].status = "CONFIRMADA"
                               => rascunho[r] # Livre /\ rascunho[r].status = "CONFIRMADA"
    /\ \A e \in entradas' : \E d \in entradas : e.chave = d.chave

\* The draft of an open confirmation exists.
LEMMA RascunhoDaSessao ==
    ASSUME NfeConsistente, NEW s \in Sessoes, pedido[s] \in PedidoConfirmar
    PROVE  pedido[s].rasc \in Rascunhos /\ rascunho[pedido[s].rasc] # Livre
BY DEF NfeConsistente, SessaoNfe, Coerente, PedidoConfirmar

\* A draft keeps its note and its linked lines.
LEMMA RascunhoSegue ==
    ASSUME Evolui, NEW r \in Rascunhos, rascunho[r] # Livre
    PROVE  /\ rascunho'[r].nota = rascunho[r].nota
           /\ ItensLigados(r) => ItensLigados(r)'
BY DEF Evolui, ItensLigados, Linhas

\* A step in which no confirmation advances.
LEMMA SemConfirmar ==
    ASSUME NfeConsistente, InvNfe, Evolui, ConfirmacoesSeguem, NadaConfirmado, ChaveEntraUmaVez'
    PROVE  InvNfe'
<1>1. ASSUME NEW t \in Sessoes, Conferido(t)'
      PROVE  /\ Conferido(t) /\ pedido'[t].rasc = pedido[t].rasc
             /\ Confirmando(t)' => Confirmando(t)
             /\ pedido[t].rasc \in Rascunhos /\ rascunho[pedido[t].rasc] # Livre
             /\ ChaveDaSessao(t)' = ChaveDaSessao(t)
  <2>1. pedido'[t].rasc = pedido[t].rasc /\ fase'[t] = fase[t] /\ Conferido(t)
    BY <1>1 DEF Conferido, ConfirmacoesSeguem
  <2>2. pedido[t].rasc \in Rascunhos /\ rascunho[pedido[t].rasc] # Livre
    BY <2>1, RascunhoDaSessao DEF Conferido
  <2>3. rascunho'[pedido[t].rasc].nota = rascunho[pedido[t].rasc].nota
    BY <2>2, RascunhoSegue
  <2>4. ChaveDaSessao(t)' = ChaveDaSessao(t)
    BY <2>1, <2>3 DEF ChaveDaSessao, ChaveDe
  <2>5. Confirmando(t)' => Confirmando(t)
    BY <2>1 DEF Conferido, Confirmando
  <2> QED
    BY <2>1, <2>2, <2>4, <2>5
<1>2. \A t \in Sessoes : Confirmando(t)' => Confirmando(t) /\ ChaveDaSessao(t)' = ChaveDaSessao(t)
  BY <1>1 DEF Confirmando, Conferido
<1>3. ChavesReservadas'
  BY <1>2 DEF InvNfe, ChavesReservadas, NadaConfirmado
<1>4. ASSUME NEW r \in Rascunhos, rascunho'[r] # Livre, rascunho'[r].status = "CONFIRMADA"
      PROVE  ItensLigados(r)'
  <2>1. rascunho[r] # Livre /\ rascunho[r].status = "CONFIRMADA"
    BY <1>4 DEF NadaConfirmado
  <2> QED
    BY <2>1, RascunhoSegue DEF InvNfe, LigadosAteOFim
<1>5. ASSUME NEW t \in Sessoes, Conferido(t)'
      PROVE  ItensLigados(pedido[t].rasc)'
  <2> DEFINE r == pedido[t].rasc
  <2>1. r \in Rascunhos /\ rascunho[r] # Livre /\ ItensLigados(r) /\ pedido'[t].rasc = r
    BY <1>1, <1>5 DEF InvNfe, LigadosAteOFim
  <2> HIDE DEF r
  <2>2. \A i \in DOMAIN Nota[rascunho'[r].nota].linhas : rascunho'[r].itens[i] \in ItemLigado
    BY <2>1, RascunhoSegue DEF ItensLigados, Linhas
  <2> QED
    BY <2>1, <2>2 DEF ItensLigados, Linhas
<1> QED
  BY <1>3, <1>4, <1>5 DEF InvNfe, LigadosAteOFim

LEMMA NadaMudou ==
    ASSUME UNCHANGED nfeVars
    PROVE  NadaConfirmado /\ (ChaveEntraUmaVez => ChaveEntraUmaVez')
BY DEF NadaConfirmado, ChaveEntraUmaVez, nfeVars

\* What a request starts: a confirmation begins with the draft unread, and those
\* that change a draft begin with it pending.
Inicia(s, ped, f) ==
    /\ Iniciar(s, ped, f, {}) /\ UNCHANGED nfeVars
    /\ ped \in PedidoNfe
    /\ ped.op = "confirmar" => f = "lendo"
    /\ ped.op \in {"vincular", "novo", "confirmar", "descartar"} => Pendente(ped.rasc)

LEMMA PedirInicia ==
    ASSUME NEW Outros, ContextoNfe(Outros), NEW s \in Sessoes, PedirNfe(s)
    PROVE  \E ped, f : Inicia(s, ped, f)
<1>1. ASSUME NEW r \in Rascunhos, NEW n \in Notas, CriarRascunho(s, r, n)
      PROVE  \E ped, f : Inicia(s, ped, f)
  <2> DEFINE ped == [op |-> "rascunho", rasc |-> r, nota |-> n, itens |-> SemItens]
  <2>1. ped \in PedidoNfe /\ ped.op = "rascunho"
    BY DEF PedidoNfe, PedidoCriar
  <2>2. Iniciar(s, ped, "casando", {}) /\ UNCHANGED nfeVars
    BY <1>1 DEF CriarRascunho
  <2> HIDE DEF ped
  <2> QED
    BY <2>1, <2>2 DEF Inicia
<1>2. ASSUME NEW r \in Rascunhos, NEW i \in Itens, NEW p \in Produtos,
             NEW op \in {"vincular", "novo"}, Pendente(r), i \in DOMAIN Linhas(r),
             UNCHANGED nfeVars,
             Iniciar(s, [op |-> op, rasc |-> r, item |-> i, prod |-> p,
                         antes |-> rascunho[r].itens[i]], "movendo", {})
      PROVE  \E ped, f : Inicia(s, ped, f)
  <2> DEFINE ped == [op |-> op, rasc |-> r, item |-> i, prod |-> p,
                     antes |-> rascunho[r].itens[i]]
  <2>1. rascunho[r].itens[i] \in ItemRascunho
    BY <1>2, RascunhoLido DEF ContextoNfe, Pendente
  <2>2. ped \in PedidoNfe /\ ped.op \in {"vincular", "novo"} /\ ped.rasc = r
    BY <2>1 DEF PedidoNfe, PedidoVincular
  <2>3. Iniciar(s, ped, "movendo", {}) /\ UNCHANGED nfeVars
    BY <1>2
  <2> HIDE DEF ped
  <2> QED
    BY <1>2, <2>2, <2>3 DEF Inicia
<1>3. ASSUME NEW r \in Rascunhos, NEW i \in Itens, NEW p \in Produtos, VincularItem(s, r, i, p)
      PROVE  \E ped, f : Inicia(s, ped, f)
  BY <1>2, <1>3 DEF VincularItem
<1>4. ASSUME NEW r \in Rascunhos, NEW i \in Itens, CriarNovo(s, r, i)
      PROVE  \E ped, f : Inicia(s, ped, f)
  <2>1. ProdutoDoCodigo[Linhas(r)[i].cod] \in Produtos
    BY <1>4, RascunhoLido, RascunhoNfeAssumption DEF CriarNovo, Pendente, ContextoNfe
  <2> QED
    BY <1>2, <1>4, <2>1 DEF CriarNovo
<1>5. ASSUME NEW r \in Rascunhos, Confirmar(s, r) \/ CancelarRascunho(s, r)
      PROVE  \E ped, f : Inicia(s, ped, f)
  <2> DEFINE conf == [op |-> "confirmar", rasc |-> r, itens |-> SemItens, feitas |-> {}]
             desc == [op |-> "descartar", rasc |-> r]
  <2>1. /\ conf \in PedidoNfe /\ conf.op = "confirmar" /\ conf.rasc = r
        /\ desc \in PedidoNfe /\ desc.op = "descartar" /\ desc.rasc = r
    BY DEF PedidoNfe, PedidoConfirmar, PedidoDescartar
  <2>2. /\ Pendente(r) /\ UNCHANGED nfeVars
        /\ Iniciar(s, conf, "lendo", {}) \/ Iniciar(s, desc, "movendo", {})
    BY <1>5 DEF Confirmar, CancelarRascunho
  <2> HIDE DEF conf, desc
  <2> QED
    BY <2>1, <2>2 DEF Inicia
<1>6. ASSUME NEW e \in entradas, ProcessarEntrada(s, e)
      PROVE  \E ped, f : Inicia(s, ped, f)
  <2> DEFINE ped == [op |-> "processar", rasc |-> e.rasc, num |-> e.num]
  <2>1. ped \in PedidoNfe /\ ped.op = "processar"
    BY DEF PedidoNfe, PedidoProcessar, ContextoNfe, TypeNfe
  <2>2. Iniciar(s, ped, "movendo", {}) /\ UNCHANGED nfeVars
    BY <1>6 DEF ProcessarEntrada
  <2> HIDE DEF ped
  <2> QED
    BY <2>1, <2>2 DEF Inicia
<1> QED
  BY <1>1, <1>3, <1>4, <1>5, <1>6 DEF PedirNfe

LEMMA PedirSegue ==
    ASSUME NEW Outros, ContextoNfe(Outros), NEW s \in Sessoes, PedirNfe(s)
    PROVE  ConfirmacoesSeguem /\ UNCHANGED nfeVars
<1>1. PICK ped, f : Inicia(s, ped, f)
  BY PedirInicia
<1>2. /\ pedido' = [pedido EXCEPT ![s] = ped] /\ fase' = [fase EXCEPT ![s] = f]
      /\ s \in DOMAIN pedido /\ s \in DOMAIN fase
      /\ \A t \in Sessoes \ {s} : pedido'[t] = pedido[t] /\ fase'[t] = fase[t]
  BY <1>1 DEF Inicia, Iniciar, ContextoNfe, Misturados
<1>3. ped \in PedidoConfirmar => f = "lendo"
  BY <1>1 DEF Inicia, PedidoConfirmar
<1> QED
  BY <1>1, <1>2, <1>3 DEF Inicia, ConfirmacoesSeguem

\* A request that ends drops what it held.
LEMMA LimpaSegue ==
    ASSUME NEW Outros, ContextoNfe(Outros), NEW s \in Sessoes, SessaoLimpa(s)
    PROVE  ConfirmacoesSeguem
<1>1. /\ pedido'[s] = Livre
      /\ \A t \in Sessoes \ {s} : pedido'[t] = pedido[t] /\ fase'[t] = fase[t]
  BY DEF SessaoLimpa, ContextoNfe, Misturados
<1> QED
  BY <1>1, PedidoNfeAssumption DEF ConfirmacoesSeguem, PedidoNfe

LEMMA CasarSegue ==
    ASSUME NEW Outros, ContextoNfe(Outros), NEW s \in Sessoes, CasarItens(s)
    PROVE  ConfirmacoesSeguem
<1>1. /\ pedido'[s].op = "rascunho"
      /\ \A t \in Sessoes \ {s} : pedido'[t] = pedido[t] /\ fase'[t] = fase[t]
  BY DEF CasarItens, ContextoNfe, Misturados
<1> QED
  BY <1>1 DEF ConfirmacoesSeguem, PedidoConfirmar

-----------------------------------------------------------------------------
(***************************************************************************)
(* The two steps of a confirmation, and the three commits.                 *)
(***************************************************************************)

\* LerLinhas goes on with the lines of the draft linked.
LEMMA LerInv ==
    ASSUME NEW Outros, ContextoNfe(Outros), InvNfe, NEW s \in Sessoes, LerLinhas(s)
    PROVE  InvNfe'
<1> DEFINE r == pedido[s].rasc
<1>1. /\ pedido[s] \in PedidoConfirmar /\ r \in Rascunhos /\ rascunho[r] # Livre
  BY RascunhoDaSessao DEF ContextoNfe, NfeConsistente, SessaoNfe, Coerente, LerLinhas
<1>2. ItensLigados(r)
  <2>1. rascunho[r].itens \in [DOMAIN Linhas(r) -> ItemRascunho]
    BY <1>1, RascunhoLido DEF ContextoNfe
  <2> QED
    BY <2>1, LinhaLigada DEF LerLinhas, TemPendente, ItensLigados
<1>3. /\ pedido'[s].rasc = r /\ fase'[s] = "entrada"
      /\ \A t \in Sessoes \ {s} : pedido'[t] = pedido[t] /\ fase'[t] = fase[t]
      /\ UNCHANGED nfeVars
  BY DEF LerLinhas, ContextoNfe, Misturados
<1> HIDE DEF r
<1>4. rascunho' = rascunho /\ entradas' = entradas
  BY <1>3 DEF nfeVars
<1>5. \A t \in Sessoes : Confirmando(t)' => t # s /\ Confirmando(t) /\ pedido'[t] = pedido[t]
  BY <1>3 DEF Confirmando
<1>6. ChavesReservadas'
  BY <1>4, <1>5 DEF InvNfe, ChavesReservadas, ChaveDaSessao
<1>7. \A t \in Sessoes : Conferido(t)' => ItensLigados(pedido'[t].rasc)
  BY <1>2, <1>3 DEF InvNfe, LigadosAteOFim, Conferido
<1>8. LigadosAteOFim'
  BY <1>4, <1>7 DEF InvNfe, LigadosAteOFim, ItensLigados, Linhas
<1>9. ChaveEntraUmaVez'
  BY <1>3, NadaMudou DEF InvNfe
<1> QED
  BY <1>6, <1>8, <1>9 DEF InvNfe

\* InserirEntrada takes a key nobody has.
LEMMA InserirInv ==
    ASSUME NEW Outros, ContextoNfe(Outros), InvNfe, NEW s \in Sessoes, InserirEntrada(s)
    PROVE  InvNfe'
<1> DEFINE c == ChaveDaSessao(s)
<1>1. pedido[s] \in PedidoConfirmar /\ fase[s] = "entrada"
  BY DEF ContextoNfe, NfeConsistente, SessaoNfe, Coerente, InserirEntrada
<1>2. /\ pedido' = pedido /\ fase'[s] = "movendo"
      /\ \A t \in Sessoes \ {s} : fase'[t] = fase[t]
      /\ UNCHANGED nfeVars
  BY DEF InserirEntrada, ContextoNfe
<1>3. rascunho' = rascunho /\ entradas' = entradas
  BY <1>2 DEF nfeVars
<1>4. c # SemChave => \A e \in entradas : e.chave # c
  BY DEF InserirEntrada, ChaveImportada, ChaveDaSessao
<1>5. ASSUME NEW t \in Sessoes \ {s}, Confirmando(t), c # SemChave
      PROVE  ChaveDaSessao(t) # c
  <2>1. pedido[t] # Livre /\ pedido[t].op = "confirmar" /\ fase[t] = "movendo"
    BY <1>5, PedidoNfeAssumption DEF Confirmando, PedidoConfirmar, PedidoNfe
  <2> QED
    BY <1>5, <2>1 DEF InserirEntrada, ChaveEmDisputa, ChaveDaSessao
<1>6. \A t \in Sessoes : /\ Confirmando(t)' => t = s \/ Confirmando(t)
                         /\ ChaveDaSessao(t)' = ChaveDaSessao(t)
                         /\ Conferido(t)' => Conferido(t)
  BY <1>1, <1>2, <1>3 DEF Confirmando, Conferido, ChaveDaSessao
<1> HIDE DEF c
<1>7. ChavesReservadas'
  BY <1>3, <1>4, <1>5, <1>6 DEF InvNfe, ChavesReservadas, c
<1>8. LigadosAteOFim'
  BY <1>2, <1>3, <1>6 DEF InvNfe, LigadosAteOFim, ItensLigados, Linhas
<1>9. ChaveEntraUmaVez'
  BY <1>2, NadaMudou DEF InvNfe
<1> QED
  BY <1>7, <1>8, <1>9 DEF InvNfe

\* The commit of a confirmation: its key is the one the session has reserved,
\* and its draft has every line linked.
LEMMA ConfirmarInv ==
    ASSUME NEW Outros, ContextoNfe(Outros), InvNfe, NEW s \in Sessoes, ConcluirConfirmar(s)
    PROVE  InvNfe'
<1> DEFINE r == pedido[s].rasc
           c == ChaveDaSessao(s)
<1>1. pedido[s] # Livre /\ pedido[s].op = "confirmar" /\ pedido[s] \in PedidosNfe \cup Outros
      /\ fase[s] = "movendo" /\ SessaoLimpa(s)
  BY DEF ConcluirConfirmar, Gravar, ContextoNfe, Misturados
<1>2. pedido[s] \in PedidoConfirmar /\ Confirmando(s) /\ Conferido(s)
  BY <1>1, PedidoDaNfe DEF ContextoNfe, Confirmando, Conferido
<1>3. r \in Rascunhos /\ rascunho[r] # Livre /\ ItensLigados(r)
  BY <1>2, RascunhoDaSessao DEF ContextoNfe, InvNfe, LigadosAteOFim
<1>4. /\ entradas' = entradas \cup {NovaEntrada(r)} /\ NovaEntrada(r).chave = c
      /\ rascunho' = [rascunho EXCEPT ![r].status = "CONFIRMADA"]
  BY DEF ConcluirConfirmar, NovaEntrada, ChaveDaSessao
<1>5. Evolui
  BY <1>3, <1>4, StatusGravado DEF ContextoNfe, StatusRascunho
<1>6. /\ ConfirmacoesSeguem /\ pedido'[s] = Livre
      /\ \A t \in Sessoes \ {s} : pedido'[t] = pedido[t] /\ fase'[t] = fase[t]
  BY <1>1, LimpaSegue DEF SessaoLimpa, ContextoNfe, Misturados
<1> HIDE DEF c
<1>7. ASSUME NEW t \in Sessoes, Conferido(t)'
      PROVE  /\ t # s /\ Conferido(t) /\ pedido'[t] = pedido[t]
             /\ Confirmando(t)' => Confirmando(t)
             /\ pedido[t].rasc \in Rascunhos /\ rascunho[pedido[t].rasc] # Livre
             /\ ChaveDaSessao(t)' = ChaveDaSessao(t)
  <2>1. t # s /\ pedido'[t] = pedido[t] /\ fase'[t] = fase[t] /\ Conferido(t)
    BY <1>6, <1>7, PedidoNfeAssumption DEF Conferido, PedidoNfe
  <2>2. pedido[t].rasc \in Rascunhos /\ rascunho[pedido[t].rasc] # Livre
    BY <2>1, RascunhoDaSessao DEF Conferido, ContextoNfe
  <2>3. rascunho'[pedido[t].rasc].nota = rascunho[pedido[t].rasc].nota
    BY <1>5, <2>2, RascunhoSegue
  <2> QED
    BY <2>1, <2>2, <2>3 DEF Confirmando, ChaveDaSessao, ChaveDe
<1>8. \A t \in Sessoes : Confirmando(t)' => /\ t # s /\ Confirmando(t)
                                            /\ ChaveDaSessao(t)' = ChaveDaSessao(t)
  BY <1>7 DEF Confirmando, Conferido
<1>9. ChaveEntraUmaVez'
  BY <1>2, <1>4 DEF InvNfe, ChaveEntraUmaVez, ChavesReservadas, c
<1>10. ChavesReservadas'
  BY <1>2, <1>4, <1>8 DEF InvNfe, ChavesReservadas, c
<1>11. ASSUME NEW q \in Rascunhos, rascunho'[q] # Livre, rascunho'[q].status = "CONFIRMADA"
       PROVE  ItensLigados(q)'
  <2>1. rascunho[q] # Livre /\ ItensLigados(q)
    <3>1. CASE q = r
      BY <1>3, <3>1
    <3>2. CASE q # r
      <4>1. rascunho'[q] = rascunho[q]
        BY <1>4, <3>2 DEF ContextoNfe, TypeNfe
      <4> QED
        BY <4>1, <1>11 DEF InvNfe, LigadosAteOFim
    <3> QED
      BY <3>1, <3>2
  <2> QED
    BY <1>5, <2>1, RascunhoSegue
<1>12. ASSUME NEW t \in Sessoes, Conferido(t)'
       PROVE  ItensLigados(pedido[t].rasc)'
  <2> DEFINE u == pedido[t].rasc
  <2>1. u \in Rascunhos /\ rascunho[u] # Livre /\ ItensLigados(u) /\ pedido'[t].rasc = u
    BY <1>7, <1>12 DEF InvNfe, LigadosAteOFim
  <2> HIDE DEF u
  <2>2. \A i \in DOMAIN Nota[rascunho'[u].nota].linhas : rascunho'[u].itens[i] \in ItemLigado
    BY <1>5, <2>1, RascunhoSegue DEF ItensLigados, Linhas
  <2> QED
    BY <2>1, <2>2 DEF ItensLigados, Linhas
<1> QED
  BY <1>9, <1>10, <1>11, <1>12 DEF InvNfe, LigadosAteOFim

\* The other commits import no key and confirm no draft.
LEMMA CommitSegue ==
    ASSUME NEW Outros, ContextoNfe(Outros), NEW s \in Sessoes,
           \/ ConcluirRascunho(s) \/ ConcluirVincular(s) \/ ConcluirNovo(s)
           \/ ConcluirDescartar(s)
    PROVE  /\ SessaoLimpa(s) /\ entradas' = entradas
           /\ \E r \in Rascunhos :
                 /\ \A q \in Rascunhos \ {r} : rascunho'[q] = rascunho[q]
                 /\ \/ rascunho'[r].status # "CONFIRMADA"
                    \/ /\ rascunho[r] # Livre
                       /\ rascunho'[r].status = rascunho[r].status
<1> DEFINE p == pedido[s]
<1>1. /\ SessaoLimpa(s) /\ entradas' = entradas
      /\ p # Livre /\ p.op \in {"rascunho", "vincular", "novo", "descartar"}
      /\ p \in PedidosNfe \cup Outros
  BY DEF ConcluirRascunho, ConcluirVincular, ConcluirNovo, ConcluirDescartar, Gravar,
         ContextoNfe, Misturados
<1>2. p \in PedidoCriar \cup PedidoVincular \cup PedidoDescartar
  BY <1>1, PedidoDaNfe DEF ContextoNfe
<1>3. p.rasc \in Rascunhos
  BY <1>2 DEF PedidoCriar, PedidoVincular, PedidoDescartar
<1>4. rascunho \in [Rascunhos -> Rascunho \cup {Livre}]
  BY DEF ContextoNfe, TypeNfe
<1>5. \A q \in Rascunhos \ {p.rasc} : rascunho'[q] = rascunho[q]
  BY <1>3, <1>4
  DEF ConcluirRascunho, ConcluirVincular, ConcluirNovo, ConcluirDescartar, GravarItem
<1>6. CASE ConcluirRascunho(s)
  <2>1. rascunho'[p.rasc].status = "PENDENTE"
    BY <1>3, <1>4, <1>6 DEF ConcluirRascunho
  <2> QED
    BY <1>1, <1>3, <1>5, <2>1
<1>7. CASE ConcluirDescartar(s)
  <2>1. rascunho[p.rasc] \in Rascunho
    BY <1>1, <1>3, <1>4, <1>7, PedidoDaNfe
    DEF ConcluirDescartar, ContextoNfe, NfeConsistente, SessaoNfe, Coerente
  <2>2. "status" \in DOMAIN rascunho[p.rasc]
    BY <2>1, RascunhoCampos
  <2>3. rascunho'[p.rasc].status = "CANCELADA"
    BY <1>3, <1>4, <1>7, <2>2 DEF ConcluirDescartar
  <2> QED
    BY <1>1, <1>3, <1>5, <2>3
<1>8. CASE ConcluirVincular(s) \/ ConcluirNovo(s)
  <2>1. p \in PedidoVincular
    BY <1>1, <1>8, PedidoDaNfe DEF ConcluirVincular, ConcluirNovo, ContextoNfe
  <2>2. rascunho[p.rasc] # Livre
    BY <2>1 DEF ContextoNfe, NfeConsistente, SessaoNfe, Coerente
  <2>3. PICK it : rascunho'[p.rasc] = [rascunho[p.rasc] EXCEPT !.itens[p.item] = it]
    BY <1>3, <1>4, <1>8 DEF ConcluirVincular, ConcluirNovo, GravarItem
  <2>4. rascunho'[p.rasc].status = rascunho[p.rasc].status
    <3>1. rascunho[p.rasc] \in Rascunho
      BY <1>3, <1>4, <2>2
    <3>2. rascunho[p.rasc] = [nota |-> rascunho[p.rasc].nota, status |-> rascunho[p.rasc].status,
                              itens |-> rascunho[p.rasc].itens]
      BY <3>1, RascunhoCampos
    <3> QED
      BY <2>3, <3>2
  <2> QED
    BY <1>1, <1>3, <1>5, <2>2, <2>4
<1> QED
  BY <1>6, <1>7, <1>8

\* processar_entrada changes the status of one entry and nothing else.
LEMMA ProcessarInv ==
    ASSUME NEW Outros, ContextoNfe(Outros), InvNfe, NEW s \in Sessoes, ConcluirProcessar(s)
    PROVE  InvNfe'
<1>1. /\ SessaoLimpa(s) /\ rascunho' = rascunho
      /\ \E e \in entradas : entradas' = (entradas \ {e}) \cup {[e EXCEPT !.status = "PROCESSADA"]}
  BY DEF ConcluirProcessar, Gravar
<1>2. PICK e \in entradas : entradas' = (entradas \ {e}) \cup {[e EXCEPT !.status = "PROCESSADA"]}
  BY <1>1
<1> DEFINE f == [e EXCEPT !.status = "PROCESSADA"]
<1>3. f.chave = e.chave
  BY DEF ContextoNfe, TypeNfe
<1> HIDE DEF f
<1>4. \A d \in entradas' : d = f \/ d \in entradas \ {e}
  BY <1>2 DEF f
<1>5. ChaveEntraUmaVez'
  BY <1>3, <1>4 DEF InvNfe, ChaveEntraUmaVez
<1>6. NadaConfirmado
  BY <1>1, <1>3, <1>4 DEF NadaConfirmado
<1>7. Evolui
  BY <1>1 DEF Evolui
<1>8. ConfirmacoesSeguem
  BY <1>1, LimpaSegue
<1> QED
  BY <1>5, <1>6, <1>7, <1>8, SemConfirmar DEF ContextoNfe

\* A step that leaves the NF-e tables alone and advances no confirmation: a step
\* of another service, or one of RascunhoService.
LEMMA NfeParadaInv ==
    ASSUME NfeConsistente, InvNfe, ConfirmacoesSeguem, UNCHANGED nfeVars
    PROVE  InvNfe'
<1>1. Evolui
  BY DEF Evolui, nfeVars
<1> QED
  BY <1>1, NadaMudou, SemConfirmar DEF InvNfe

\* Every step of the note handlers keeps the keys reserved and the lines linked.
LEMMA ProximoInvNfe ==
    ASSUME NEW Outros, ContextoNfe(Outros), InvNfe, NextNfe
    PROVE  InvNfe'
<1>1. PICK s \in Sessoes :
         PedirNfe(s) \/ AtenderNfe(s) \/ DetectarDeadlockNfe(s) \/ CairNfe(s)
  BY DEF NextNfe
<1>2. NfeConsistente /\ Evolui
  BY ProximoNfe DEF ContextoNfe, PassoNfe
<1>3. CASE PedirNfe(s)
  BY <1>2, <1>3, PedirSegue, NfeParadaInv
<1>4. CASE \/ CodigoRepetido(s) \/ RecusarPendente(s) \/ ChaveRepetida(s)
           \/ DetectarDeadlockNfe(s) \/ CairNfe(s)
  <2>1. SessaoLimpa(s) /\ UNCHANGED nfeVars
    BY <1>4 DEF CodigoRepetido, RecusarPendente, ChaveRepetida, DetectarDeadlockNfe,
                VitimaDeadlock, CairNfe, Abortar
  <2> QED
    BY <1>2, <2>1, LimpaSegue, NfeParadaInv
<1>8. CASE MapearNfe(s)
  <2>1. /\ \A t \in Sessoes : pedido'[t] \in PedidoConfirmar
              => pedido[t] \in PedidoConfirmar /\ pedido'[t].rasc = pedido[t].rasc
        /\ fase' = fase /\ UNCHANGED nfeVars
    BY <1>8, MapearForma DEF ContextoNfe, Misturados
  <2>2. ConfirmacoesSeguem
    BY <2>1 DEF ConfirmacoesSeguem
  <2> QED
    BY <1>2, <2>1, <2>2, NfeParadaInv
<1>5. CASE CasarItens(s)
  BY <1>2, <1>5, CasarSegue, NfeParadaInv DEF CasarItens
<1>6. CASE MovimentarNfe(s)
  <2>1. UNCHANGED <<pedido, fase, nfeVars>>
    BY <1>6 DEF MovimentarNfe, RegistrarMovimentacao
  <2> QED
    BY <1>2, <2>1, NfeParadaInv DEF ConfirmacoesSeguem
<1>7. CASE \/ ConcluirRascunho(s) \/ ConcluirVincular(s) \/ ConcluirNovo(s)
           \/ ConcluirDescartar(s)
  <2>1. /\ SessaoLimpa(s) /\ entradas' = entradas
        /\ \E r \in Rascunhos :
              /\ \A q \in Rascunhos \ {r} : rascunho'[q] = rascunho[q]
              /\ \/ rascunho'[r].status # "CONFIRMADA"
                 \/ /\ rascunho[r] # Livre
                    /\ rascunho'[r].status = rascunho[r].status
    BY <1>7, CommitSegue
  <2>2. NadaConfirmado /\ ChaveEntraUmaVez'
    BY <2>1 DEF NadaConfirmado, InvNfe, ChaveEntraUmaVez
  <2>3. ConfirmacoesSeguem
    BY <2>1, LimpaSegue
  <2> QED
    BY <1>2, <2>2, <2>3, SemConfirmar
<1> QED
  BY <1>1, <1>3, <1>4, <1>5, <1>6, <1>7, <1>8, LerInv, InserirInv, ConfirmarInv, ProcessarInv
  DEF AtenderNfe

LEMMA InvNfeInicial ==
    InitEstoque /\ InitNfe => InvNfe
<1> SUFFICES ASSUME InitEstoque, InitNfe PROVE InvNfe
  OBVIOUS
<1>1. /\ \A s \in Sessoes : pedido[s] = Livre
      /\ \A r \in Rascunhos : rascunho[r] = Livre
      /\ entradas = {}
  BY DEF InitEstoque, InitSessoes, InitNfe
<1>2. \A s \in Sessoes : ~Conferido(s) /\ ~Confirmando(s)
  BY <1>1, PedidoNfeAssumption DEF Conferido, Confirmando, PedidoNfe
<1> QED
  BY <1>1, <1>2 DEF InvNfe, ChaveEntraUmaVez, ChavesReservadas, LigadosAteOFim

\* A confirmed draft has no line without a product.
LEMMA LigadosSemPendente ==
    InvNfe => ConfirmadaSemPendente
BY DEF InvNfe, LigadosAteOFim, ItensLigados, ItemLigado, ConfirmadaSemPendente, TemPendente

LEMMA InvNfeSempre ==
    SpecNfe => [](TypeOkNfe /\ InvNfe)
<1>1. InitEntradas => TypeOkNfe /\ InvNfe
  BY TipoNfeInicial, InvNfeInicial DEF InitEntradas
<1>2. TypeOkNfe /\ InvNfe /\ [NextNfe]_varsNfe => (TypeOkNfe /\ InvNfe)'
  <2> SUFFICES ASSUME TypeOkNfe, InvNfe, [NextNfe]_varsNfe PROVE InvNfe'
    BY TipoNfeIndutivo
  <2>1. CASE NextNfe
    BY <2>1, ContextoSoNfe, ProximoInvNfe
  <2>2. CASE UNCHANGED varsNfe
    <3>1. ConfirmacoesSeguem /\ UNCHANGED nfeVars /\ NfeConsistente
      BY <2>2 DEF ConfirmacoesSeguem, varsNfe, estoqueVars, nfeVars, TypeOkNfe
    <3> QED
      BY <3>1, NfeParadaInv
  <2> QED
    BY <2>1, <2>2
<1> QED
  BY <1>1, <1>2, PTL DEF SpecNfe

\* A note enters the stock once, whatever the number of drafts made of its key
\* and of sessions that confirm them at the same time.
THEOREM ChaveUnica == SpecNfe => []ChaveEntraUmaVez
<1>1. InvNfe => ChaveEntraUmaVez
  BY DEF InvNfe
<1> QED
  BY <1>1, InvNfeSempre, PTL

\* No draft is confirmed with a line that has no product, although lines can be
\* linked and the draft confirmed by several sessions at once.
THEOREM ConfirmadaLigada == SpecNfe => []ConfirmadaSemPendente
<1> QED
  BY LigadosSemPendente, InvNfeSempre, PTL

-----------------------------------------------------------------------------
(***************************************************************************)
(* The handlers as steps of the sessions, and the rows a confirmation adds.*)
(***************************************************************************)
PlanoEntrada(p) ==
    {[item |-> i, prod |-> p.itens[i].prod, tipos |-> {"ENTRADA"},
      qtd |-> Linhas(p.rasc)[i].qtd] : i \in DOMAIN p.itens}

\* A session that has inserted an entry moves the lines it has read; no other
\* brings anything into the stock.
SessaoEntrada(s) ==
    /\ Confirmando(s) => Contado(fila[s], linhas[s], PlanoEntrada(pedido[s]))
    /\ pedido[s] \in PedidoNfe /\ ~Confirmando(s) => SemTipo(fila[s], linhas[s], "ENTRADA")

SessoesEntrada == \A s \in Sessoes : SessaoEntrada(s)

\* The movements of a confirmation, one for each line it has read.
LEMMA PlanoEntradaTipado ==
    ASSUME TypeNfe, NfeConsistente, NEW s \in Sessoes,
           pedido[s] \in PedidoConfirmar, fase[s] # "lendo"
    PROVE  LET p == pedido[s]
               I == DOMAIN Linhas(p.rasc)
               mov == [i \in I |-> [item |-> i, prod |-> p.itens[i].prod, tipos |-> {"ENTRADA"},
                                    qtd |-> Linhas(p.rasc)[i].qtd]]
           IN  /\ PlanoEntrada(p) = {mov[i] : i \in I}
               /\ \A i \in I : mov[i] \in Movimento
               /\ p.itens \in [I -> ItemLigado]
               /\ IsFiniteSet(I) /\ PlanoEntrada(p) \in SUBSET Movimento
               /\ IsFiniteSet(PlanoEntrada(p))
<1> DEFINE p == pedido[s]
           r == p.rasc
           I == DOMAIN Linhas(r)
           mov == [i \in I |-> [item |-> i, prod |-> p.itens[i].prod, tipos |-> {"ENTRADA"},
                                qtd |-> Linhas(r)[i].qtd]]
<1>1. /\ r \in Rascunhos /\ rascunho[r] # Livre
      /\ p.itens \in [I -> ItemLigado]
  BY DEF NfeConsistente, SessaoNfe, Coerente, PedidoConfirmar
<1>2. I \subseteq Itens /\ \A i \in I : Linhas(r)[i].qtd \in Quantidades
  BY <1>1, RascunhoLido
<1>3. IsFiniteSet(I)
  BY <1>2, FinitosAssumption, FS_Subset
<1>4. \A i \in I : mov[i] \in Movimento
  <2> SUFFICES ASSUME NEW i \in I PROVE mov[i] \in Movimento
    OBVIOUS
  <2>1. p.itens[i].prod \in Produtos
    BY <1>1 DEF ItemLigado
  <2> QED
    BY <1>2, <2>1 DEF Movimento, Tipos
<1>5. PlanoEntrada(p) = {mov[i] : i \in I}
  BY <1>1 DEF PlanoEntrada
<1> HIDE DEF mov, I
<1>6. {mov[i] : i \in I} \in SUBSET Movimento /\ IsFiniteSet({mov[i] : i \in I})
  BY <1>3, <1>4, ImagemFinita
<1> QED
  BY <1>1, <1>3, <1>4, <1>5, <1>6 DEF mov, I

\* A step that starts or prepares no request of RascunhoService.
LEMMA EntradasSeguem ==
    ASSUME TypeEstoque, TypeNfe, NfeConsistente, Evolui, SessoesEntrada,
           NEW P, P \cap PedidoNfe = {}, PassoSessoes(P)
    PROVE  SessoesEntrada'
<1> SUFFICES ASSUME NEW s \in Sessoes, pedido'[s] \in PedidoNfe
             PROVE  SessaoEntrada(s)'
  BY DEF SessoesEntrada, SessaoEntrada, Confirmando, PedidoNfe
<1>1. Continua(s) /\ pedido'[s] = pedido[s] /\ fase'[s] = fase[s] /\ pedido[s] \in PedidoNfe
  BY SessaoSegue, PedidoNfeAssumption DEF Continua
<1>2. Confirmando(s)' <=> Confirmando(s)
  BY <1>1 DEF Confirmando
<1>3. CASE ~Confirmando(s)
  <2>1. SemTipo(fila[s], linhas[s], "ENTRADA") /\ "ENTRADA" \in Tipos
    BY <1>1, <1>3 DEF SessoesEntrada, SessaoEntrada, Tipos
  <2>2. SemTipo(fila'[s], linhas'[s], "ENTRADA")
    BY <1>1, <2>1, SemTipoContinua
  <2> QED
    BY <1>2, <1>3, <2>2 DEF SessaoEntrada
<1>4. CASE Confirmando(s)
  <2> DEFINE M == PlanoEntrada(pedido[s])
  <2>1. M \in SUBSET Movimento /\ IsFiniteSet(M) /\ Contado(fila[s], linhas[s], M)
    BY <1>4, PlanoEntradaTipado DEF SessoesEntrada, SessaoEntrada, Confirmando
  <2>2. M = PlanoEntrada(pedido[s])'
    <3>1. Linhas(pedido[s].rasc)' = Linhas(pedido[s].rasc)
      BY <1>1, <1>4, RascunhoDaSessao, RascunhoSegue DEF Confirmando, Linhas
    <3> QED
      BY <1>1, <3>1 DEF PlanoEntrada
  <2> HIDE DEF M
  <2>3. Contado(fila'[s], linhas'[s], M)
    BY <1>1, <2>1, ContadoContinua
  <2> QED
    BY <1>2, <1>4, <2>2, <2>3 DEF SessaoEntrada
<1> QED
  BY <1>3, <1>4

\* A step inside one session that leaves the drafts alone.
LEMMA EntradasDeUma ==
    ASSUME SessoesEntrada, NEW s \in Sessoes, rascunho' = rascunho, SessaoEntrada(s)',
           \A u \in Sessoes \ {s} : /\ pedido'[u] = pedido[u] /\ fase'[u] = fase[u]
                                    /\ fila'[u] = fila[u] /\ linhas'[u] = linhas[u]
    PROVE  SessoesEntrada'
<1>1. ASSUME NEW u \in Sessoes \ {s}
      PROVE  SessaoEntrada(u)'
  <2>1. PlanoEntrada(pedido[u])' = PlanoEntrada(pedido[u])
    BY DEF PlanoEntrada, Linhas
  <2> QED
    BY <2>1 DEF SessoesEntrada, SessaoEntrada, Confirmando
<1> QED
  BY <1>1 DEF SessoesEntrada

\* The steps of RascunhoService before its commits.
LEMMA PedirSessoes ==
    ASSUME NEW Outros, ContextoNfe(Outros), Paradas, SessoesEntrada,
           NEW s \in Sessoes, PedirNfe(s)
    PROVE  PassoSessoes(PedidoNfe) /\ SessoesEntrada' /\ UNCHANGED <<porRef, nfeVars>>
<1>1. PICK ped, f : Inicia(s, ped, f)
  BY PedirInicia
<1>2. TypeEstoque /\ Dominios
  BY DEF ContextoNfe, Misturados, Dominios
<1>3. Iniciar(s, ped, f, {}) /\ ped \in PedidoNfe
  BY <1>1 DEF Inicia
<1>4. /\ PassoSessoes(PedidoNfe)
      /\ pedido'[s] = ped /\ fase'[s] = f /\ fila'[s] = {} /\ linhas'[s] = SemLinhas
      /\ \A u \in Sessoes \ {s} : /\ pedido'[u] = pedido[u] /\ fase'[u] = fase[u]
                                  /\ fila'[u] = fila[u] /\ linhas'[u] = linhas[u]
  BY <1>2, <1>3, IniciarSessoes
<1>5. UNCHANGED <<porRef, nfeVars>> /\ rascunho' = rascunho
  BY <1>1, <1>3 DEF Inicia, Iniciar, banco, nfeVars
<1>6. SemTipo({}, SemLinhas, "ENTRADA")
  BY SemTipoInicio DEF Tipos
<1>7. ~Confirmando(s)'
  BY <1>1, <1>4 DEF Inicia, Confirmando, PedidoConfirmar
<1>8. SessaoEntrada(s)'
  BY <1>4, <1>6, <1>7 DEF SessaoEntrada
<1> QED
  BY <1>4, <1>5, <1>8, EntradasDeUma

LEMMA PrepararSessoes ==
    ASSUME NEW Outros, ContextoNfe(Outros), Paradas, SessoesEntrada,
           NEW s \in Sessoes, CasarItens(s) \/ LerLinhas(s)
    PROVE  PassoSessoes(PedidoNfe) /\ SessoesEntrada' /\ UNCHANGED <<porRef, nfeVars>>
<1>1. \/ CasarItens(s) /\ pedido'[s] \in PedidoCriar
      \/ LerLinhas(s) /\ pedido'[s] \in PedidoConfirmar
  BY CasarPasso, LerPasso
<1>2. /\ UNCHANGED <<porRef, linhas, fila, nfeVars>> /\ rascunho' = rascunho
      /\ fase[s] \in {"casando", "lendo"}
      /\ \A u \in Sessoes \ {s} : pedido'[u] = pedido[u] /\ fase'[u] = fase[u]
  BY DEF CasarItens, LerLinhas, banco, memoria, nfeVars, ContextoNfe, Misturados
<1>3. pedido[s] \in PedidoNfe /\ pedido'[s] \in PedidoNfe /\ ~Confirmando(s)'
  <2>1. pedido[s] \in PedidoNfe
    BY <1>2 DEF ContextoNfe, NfeConsistente, SessaoNfe, Coerente, PedidoNfe
  <2>2. pedido'[s] \in PedidoCriar => pedido'[s] \notin PedidoConfirmar
    BY DEF PedidoCriar, PedidoConfirmar
  <2>3. LerLinhas(s) => fase'[s] = "entrada"
    BY DEF LerLinhas, ContextoNfe
  <2> QED
    BY <1>1, <2>1, <2>2, <2>3 DEF PedidoNfe, Confirmando
<1>4. ~Confirmando(s)
  BY <1>2 DEF Confirmando
<1>5. SemTipo(fila[s], linhas[s], "ENTRADA")
  BY <1>3, <1>4 DEF SessoesEntrada, SessaoEntrada
<1>6. SessaoEntrada(s)'
  BY <1>2, <1>3, <1>5 DEF SessaoEntrada
<1>7. PassoSessoes(PedidoNfe)
  BY <1>2, <1>3 DEF PassoSessoes, Continua, Prepara
<1> QED
  BY <1>2, <1>6, <1>7, EntradasDeUma

LEMMA InserirSessoes ==
    ASSUME NEW Outros, ContextoNfe(Outros), Paradas, SessoesEntrada,
           NEW s \in Sessoes, InserirEntrada(s)
    PROVE  PassoSessoes(PedidoNfe) /\ SessoesEntrada' /\ UNCHANGED <<porRef, nfeVars>>
<1> DEFINE M == PlanoEntrada(pedido[s])
<1>1. /\ UNCHANGED <<porRef, linhas, pedido, nfeVars>> /\ rascunho' = rascunho
      /\ fase[s] = "entrada" /\ fase'[s] = "movendo" /\ fila'[s] = M
      /\ \A u \in Sessoes \ {s} : fase'[u] = fase[u] /\ fila'[u] = fila[u]
  BY DEF InserirEntrada, PlanoEntrada, banco, memoria, nfeVars, ContextoNfe, TypeEstoque
<1>2. pedido[s] \in PedidoConfirmar /\ pedido[s] \in PedidoNfe
  BY <1>1 DEF ContextoNfe, NfeConsistente, SessaoNfe, Coerente, PedidoNfe
<1>3. linhas[s] = SemLinhas
  BY <1>1 DEF Paradas, Parada
<1>4. M = PlanoEntrada(pedido[s])'
  BY <1>1 DEF PlanoEntrada, Linhas
<1> HIDE DEF M
<1>5. Contado(fila'[s], linhas'[s], M)
  BY <1>1, <1>3, ContadoInicio
<1>6. SessaoEntrada(s)'
  BY <1>1, <1>2, <1>4, <1>5 DEF SessaoEntrada, Confirmando
<1>7. PassoSessoes(PedidoNfe)
  BY <1>1, <1>2 DEF PassoSessoes, Continua, Prepara
<1> QED
  BY <1>1, <1>6, <1>7, EntradasDeUma

LEMMA MapearSessoes ==
    ASSUME NEW Outros, ContextoNfe(Outros), SessoesEntrada, NEW s \in Sessoes, MapearNfe(s)
    PROVE  PassoSessoes(PedidoNfe) /\ SessoesEntrada' /\ UNCHANGED <<porRef, nfeVars>>
<1> DEFINE x == pedido'[s]
<1>1. /\ pedido[s] \in PedidoConfirmar /\ x \in PedidoConfirmar
      /\ x.rasc = pedido[s].rasc /\ x.itens = pedido[s].itens
      /\ pedido' = [pedido EXCEPT ![s] = x]
      /\ fase' = fase /\ fase[s] = "movendo"
      /\ Travar(s) /\ UNCHANGED nfeVars
  BY MapearForma
<1>2. /\ rascunho' = rascunho /\ fila' = fila /\ linhas' = linhas /\ porRef' = porRef
      /\ \A u \in Sessoes \ {s} : pedido'[u] = pedido[u]
      /\ pedido[s] \in PedidoNfe /\ x \in PedidoNfe
  BY <1>1 DEF Travar, banco, nfeVars, PedidoNfe, ContextoNfe, Misturados
<1>3. PlanoEntrada(pedido[s])' = PlanoEntrada(pedido[s])
  BY <1>1, <1>2 DEF PlanoEntrada, Linhas
<1>4. SessaoEntrada(s)'
  BY <1>1, <1>2, <1>3 DEF SessoesEntrada, SessaoEntrada, Confirmando
<1>5. SessoesEntrada'
  BY <1>1, <1>2, <1>4, EntradasDeUma
<1>6. PassoSessoes(PedidoNfe)
  BY <1>1, <1>2 DEF PassoSessoes, Continua, Anota
<1> QED
  BY <1>1, <1>2, <1>5, <1>6

\* The commits of RascunhoService.
ConcluirNfe(s) ==
    \/ ConcluirRascunho(s) \/ ConcluirVincular(s) \/ ConcluirNovo(s)
    \/ ConcluirConfirmar(s) \/ ConcluirDescartar(s) \/ ConcluirProcessar(s)

LEMMA CommitNfe ==
    ASSUME NEW Outros, ContextoNfe(Outros), NEW s \in Sessoes, ConcluirNfe(s)
    PROVE  /\ pedido[s] \in PedidoNfe /\ pedido[s].rasc \in Rascunhos
           /\ pedido[s].rasc \in Refs /\ Gravar(s, pedido[s].rasc)
           /\ pedido[s] \in PedidoConfirmar <=> ConcluirConfirmar(s)
<1> DEFINE p == pedido[s]
<1>1. /\ p # Livre /\ p \in PedidosNfe \cup Outros /\ Gravar(s, p.rasc)
      /\ p.op \in {"rascunho", "vincular", "novo", "confirmar", "descartar", "processar"}
      /\ p.op = "confirmar" <=> ConcluirConfirmar(s)
  BY DEF ConcluirNfe, ConcluirRascunho, ConcluirVincular, ConcluirNovo, ConcluirConfirmar,
         ConcluirDescartar, ConcluirProcessar, ContextoNfe, Misturados
<1> HIDE DEF p
<1>2. /\ p \in PedidoCriar \cup PedidoVincular \cup PedidoConfirmar \cup PedidoDescartar
                  \cup PedidoProcessar
      /\ p.op = "confirmar" <=> p \in PedidoConfirmar
  BY <1>1, PedidoDaNfe DEF ContextoNfe
<1>3. p \in PedidoNfe /\ p.rasc \in Rascunhos
  BY <1>2 DEF PedidoNfe, PedidoCriar, PedidoVincular, PedidoConfirmar, PedidoDescartar,
              PedidoProcessar
<1> QED
  BY <1>1, <1>2, <1>3, RascunhoNfeAssumption DEF p

LEMMA CommitSessoes ==
    ASSUME NEW Outros, ContextoNfe(Outros), SessoesEntrada, NEW s \in Sessoes, ConcluirNfe(s)
    PROVE  LET ref == pedido[s].rasc
           IN  /\ PassoSessoes({}) /\ PassoRefs({ref}) /\ SessoesEntrada'
               /\ fase[s] = "movendo" /\ fila[s] = {} /\ ref \in Rascunhos
               /\ \A p \in Produtos, t \in Tipos :
                     porRef'[ref][p][t] = porRef[ref][p][t] + linhas[s][p][t]
<1>1. TypeEstoque /\ TypeNfe /\ NfeConsistente /\ Dominios
  BY DEF ContextoNfe, Misturados, Dominios
<1>2. pedido[s].rasc \in Rascunhos /\ pedido[s].rasc \in Refs /\ Gravar(s, pedido[s].rasc)
  BY CommitNfe
<1>3. /\ PassoSessoes({}) /\ PassoRefs({pedido[s].rasc})
      /\ fase[s] = "movendo" /\ fila[s] = {}
      /\ \A p \in Produtos, t \in Tipos :
            porRef'[pedido[s].rasc][p][t] = porRef[pedido[s].rasc][p][t] + linhas[s][p][t]
  BY <1>1, <1>2, GravarSessoes
<1>4. Evolui
  BY ConcluirRascunhoPasso, ConcluirVincularPasso, ConcluirConfirmarPasso,
     ConcluirDescartarPasso, ConcluirProcessarPasso DEF ConcluirNfe, PassoNfe
<1>5. SessoesEntrada'
  BY <1>1, <1>3, <1>4, EntradasSeguem
<1> QED
  BY <1>2, <1>3, <1>5

\* Between commits, the tables of the notes and the rows of the drafts are left
\* alone.
LEMMA AntesDoCommit ==
    ASSUME NEW Outros, ContextoNfe(Outros), Paradas, SessoesEntrada, NextNfe,
           ~\E s \in Sessoes : ConcluirNfe(s)
    PROVE  PassoSessoes(PedidoNfe) /\ SessoesEntrada' /\ UNCHANGED <<porRef, nfeVars>>
<1>1. PICK s \in Sessoes :
         PedirNfe(s) \/ AtenderNfe(s) \/ DetectarDeadlockNfe(s) \/ CairNfe(s)
  BY DEF NextNfe
<1>2. TypeEstoque /\ TypeNfe /\ NfeConsistente /\ Dominios
  BY DEF ContextoNfe, Misturados, Dominios
<1>3. Evolui
  BY ProximoNfe DEF PassoNfe
<1>4. CASE \/ CodigoRepetido(s) \/ RecusarPendente(s) \/ ChaveRepetida(s)
           \/ DetectarDeadlockNfe(s) \/ CairNfe(s)
  <2>1. SessaoLimpa(s) /\ UNCHANGED <<porRef, nfeVars>>
    BY <1>4 DEF CodigoRepetido, RecusarPendente, ChaveRepetida, DetectarDeadlockNfe,
                VitimaDeadlock, CairNfe, Abortar, banco
  <2>2. PassoSessoes({}) /\ PassoSessoes(PedidoNfe)
    BY <1>2, <2>1, LimpaSessoes
  <2> QED
    BY <1>2, <1>3, <2>1, <2>2, EntradasSeguem
<1>5. CASE MovimentarNfe(s)
  <2>1. PICK m \in fila[s] : RegistrarMovimentacao(s, m)
    BY <1>5 DEF MovimentarNfe
  <2>2. PassoSessoes({}) /\ PassoSessoes(PedidoNfe) /\ UNCHANGED <<porRef, nfeVars>>
    BY <1>2, <1>5, <2>1, MovimentarSessoes DEF MovimentarNfe, banco
  <2> QED
    BY <1>2, <1>3, <2>2, EntradasSeguem
<1> QED
  BY <1>1, <1>4, <1>5, PedirSessoes, PrepararSessoes, InserirSessoes, MapearSessoes
  DEF AtenderNfe, ConcluirNfe

LEMMA SessoesNfe ==
    ASSUME NEW Outros, ContextoNfe(Outros), Paradas, SessoesEntrada, NextNfe
    PROVE  PassoSessoes(PedidoNfe) /\ PassoRefs(Rascunhos) /\ SessoesEntrada'
<1>1. CASE \E s \in Sessoes : ConcluirNfe(s)
  <2>1. PICK s \in Sessoes : ConcluirNfe(s)
    BY <1>1
  <2> DEFINE ref == pedido[s].rasc
  <2>2. PassoSessoes({}) /\ PassoRefs({ref}) /\ SessoesEntrada' /\ ref \in Rascunhos
    BY <2>1, CommitSessoes
  <2>3. PassoSessoes(PedidoNfe)
    BY <2>2 DEF PassoSessoes, Prepara, Anota
  <2> QED
    BY <2>2, <2>3 DEF PassoRefs
<1>2. CASE ~\E s \in Sessoes : ConcluirNfe(s)
  BY <1>2, AntesDoCommit DEF PassoRefs
<1> QED
  BY <1>1, <1>2

-----------------------------------------------------------------------------
(***************************************************************************)
(* Every entry moves its whole note.                                       *)
(***************************************************************************)
EntradasDe(r) == {e \in entradas : e.rasc = r}

\* The entries of a draft are numbered as they come.
EntradasNumeradas ==
    /\ \A e \in entradas : e.num \in 1..Cardinality(EntradasDe(e.rasc))
    /\ \A e, f \in entradas : e.rasc = f.rasc /\ e.num = f.num => e = f

\* A draft that does not exist has brought nothing in.
NadaAntes ==
    \A r \in Rascunhos : rascunho[r] = Livre =>
        EntradasDe(r) = {} /\ \A p \in Produtos : porRef[r][p]["ENTRADA"] = 0

\* What a draft brought in, and what its note says.
Movido(r) == SumFunctionOnSet([p \in Produtos |-> porRef[r][p]["ENTRADA"]], Produtos)
QtdLinhas(r) == [i \in DOMAIN Linhas(r) |-> Linhas(r)[i].qtd]
DaNota(r) == SumFunctionOnSet(QtdLinhas(r), DOMAIN Linhas(r))

NotaCerta(r) == rascunho[r] # Livre => Movido(r) = Cardinality(EntradasDe(r)) * DaNota(r)

InvEntradas == EntradasNumeradas /\ NadaAntes /\ \A r \in Rascunhos : NotaCerta(r)

LEMMA NotaPorPartes ==
    NotaEntraInteira <=> \A r \in Rascunhos : NotaCerta(r)
<1>1. \A r \in Rascunhos :
         /\ SumFunction([p \in Produtos |-> porRef[r][p]["ENTRADA"]]) = Movido(r)
         /\ SumFunction([i \in DOMAIN Linhas(r) |-> Linhas(r)[i].qtd]) = DaNota(r)
  BY DEF SumFunction, Movido, DaNota, QtdLinhas
<1> QED
  BY <1>1 DEF NotaEntraInteira, NotaCerta, EntradasDe

LEMMA EntradasFinitas ==
    ASSUME TypeNfe, NEW r
    PROVE  IsFiniteSet(EntradasDe(r)) /\ Cardinality(EntradasDe(r)) \in Nat
<1>1. IsFiniteSet(EntradasDe(r))
  BY FS_Subset DEF TypeNfe, EntradasDe
<1> QED
  BY <1>1, FS_CardinalityType

LEMMA NotaTipada ==
    ASSUME TypeNfe, NEW r \in Rascunhos, rascunho[r] # Livre
    PROVE  /\ IsFiniteSet(DOMAIN Linhas(r))
           /\ \A i \in DOMAIN Linhas(r) : QtdLinhas(r)[i] \in Int
           /\ DaNota(r) \in Int
<1> DEFINE I == DOMAIN Linhas(r)
           f == QtdLinhas(r)
<1>1. I \subseteq Itens /\ \A i \in I : Linhas(r)[i].qtd \in Quantidades
  BY RascunhoLido
<1>2. IsFiniteSet(I)
  BY <1>1, FinitosAssumption, FS_Subset
<1>3. \A i \in I : f[i] \in Int
  BY <1>1, EstoqueAssumption DEF QtdLinhas
<1> HIDE DEF I, f
<1>4. SumFunctionOnSet(f, I) \in Int
  BY <1>2, <1>3, SomaTira
<1> QED
  BY <1>2, <1>3, <1>4 DEF DaNota, I, f

\* A step that makes no entry and brings nothing in, although a draft may begin.
LEMMA EntradasParadas ==
    ASSUME TypeNfe', InvEntradas, Evolui, entradas' = entradas,
           \A r \in Rascunhos, p \in Produtos : porRef'[r][p]["ENTRADA"] = porRef[r][p]["ENTRADA"]
    PROVE  InvEntradas'
<1>1. \A r : EntradasDe(r)' = EntradasDe(r)
  BY DEF EntradasDe
<1>2. EntradasNumeradas'
  BY <1>1 DEF InvEntradas, EntradasNumeradas
<1>3. NadaAntes'
  BY <1>1 DEF InvEntradas, NadaAntes, Evolui
<1>4. ASSUME NEW r \in Rascunhos, rascunho'[r] # Livre
      PROVE  Movido(r)' = Cardinality(EntradasDe(r))' * DaNota(r)'
  <2>1. Movido(r)' = Movido(r)
    BY DEF Movido
  <2>2. CASE rascunho[r] # Livre
    <3>1. Linhas(r)' = Linhas(r)
      BY <2>2, RascunhoSegue DEF Linhas
    <3>2. DaNota(r)' = DaNota(r)
      BY <3>1 DEF DaNota, QtdLinhas
    <3> QED
      BY <1>1, <2>1, <2>2, <3>2 DEF InvEntradas, NotaCerta
  <2>3. CASE rascunho[r] = Livre
    <3>1. Movido(r) = 0
      <4> DEFINE f == [p \in Produtos |-> porRef[r][p]["ENTRADA"]]
      <4>1. \A p \in Produtos : f[p] = 0
        BY <2>3 DEF InvEntradas, NadaAntes
      <4> HIDE DEF f
      <4>2. SumFunctionOnSet(f, Produtos) = 0
        BY <4>1, FinitosAssumption, SomaNula
      <4> QED
        BY <4>2 DEF Movido, f
    <3>2. Cardinality(EntradasDe(r)) = 0
      BY <2>3, FS_EmptySet DEF InvEntradas, NadaAntes
    <3>3. DaNota(r)' \in Int
      <4> DEFINE I == DOMAIN Linhas(r)'
                 f == QtdLinhas(r)'
      <4>1. rascunho'[r] \in Rascunho
        BY <1>4 DEF TypeNfe
      <4>2. rascunho'[r].nota \in Notas
        BY <4>1, RascunhoCampos
      <4>3. I \subseteq Itens /\ \A i \in I : f[i] \in Int
        BY <4>2, RascunhoNfeAssumption, EstoqueAssumption DEF Linhas, QtdLinhas
      <4>4. IsFiniteSet(I)
        BY <4>3, FinitosAssumption, FS_Subset
      <4> HIDE DEF I, f
      <4>5. SumFunctionOnSet(f, I) \in Int
        BY <4>3, <4>4, SomaTira
      <4> QED
        BY <4>5 DEF DaNota, I, f
    <3> QED
      BY <1>1, <2>1, <3>1, <3>2, <3>3
  <2> QED
    BY <2>2, <2>3
<1> QED
  BY <1>2, <1>3, <1>4 DEF InvEntradas, NotaCerta

\* processar_entrada changes an entry and not their number.
LEMMA ProcessarEntradas ==
    ASSUME TypeNfe, InvEntradas, rascunho' = rascunho,
           NEW e \in entradas,
           entradas' = (entradas \ {e}) \cup {[e EXCEPT !.status = "PROCESSADA"]},
           \A r \in Rascunhos, p \in Produtos : porRef'[r][p]["ENTRADA"] = porRef[r][p]["ENTRADA"]
    PROVE  InvEntradas'
<1> DEFINE f == [e EXCEPT !.status = "PROCESSADA"]
<1>1. f.rasc = e.rasc /\ f.num = e.num
  BY DEF TypeNfe
<1> HIDE DEF f
<1>2. entradas' = (entradas \ {e}) \cup {f}
  BY DEF f
<1>3. ASSUME NEW r
      PROVE  Cardinality(EntradasDe(r)') = Cardinality(EntradasDe(r))
  <2> DEFINE E == EntradasDe(r)
             F == E \ {e}
  <2>1. CASE e.rasc # r
    BY <1>1, <1>2, <2>1 DEF EntradasDe
  <2>2. CASE e.rasc = r
    <3>1. EntradasDe(r)' = F \cup {f} /\ e \in E
      BY <1>1, <1>2, <2>2 DEF EntradasDe
    <3>2. f \notin F
      BY <1>1 DEF InvEntradas, EntradasNumeradas, EntradasDe
    <3>3. IsFiniteSet(E) /\ Cardinality(E) \in Nat
      BY EntradasFinitas
    <3> HIDE DEF E
    <3>4. IsFiniteSet(F) /\ Cardinality(F) = Cardinality(E) - 1
      BY <3>1, <3>3, FS_RemoveElement
    <3>5. Cardinality(F \cup {f}) = Cardinality(F) + 1
      BY <3>2, <3>4, FS_AddElement
    <3> QED
      BY <3>1, <3>3, <3>4, <3>5 DEF E
  <2> QED
    BY <2>1, <2>2
<1>4. EntradasNumeradas'
  <2>1. ASSUME NEW x \in entradas'
        PROVE  x.num \in 1..Cardinality(EntradasDe(x.rasc)')
    <3>1. PICK y \in entradas : y.num = x.num /\ y.rasc = x.rasc
      BY <1>1, <1>2, <2>1
    <3>2. x.num \in 1..Cardinality(EntradasDe(x.rasc))
      BY <3>1 DEF InvEntradas, EntradasNumeradas
    <3> QED
      BY <1>3, <3>2
  <2>2. \A x, y \in entradas' : x.rasc = y.rasc /\ x.num = y.num => x = y
    BY <1>1, <1>2 DEF InvEntradas, EntradasNumeradas
  <2> QED
    BY <2>1, <2>2 DEF EntradasNumeradas
<1>5. NadaAntes'
  <2>1. \A r : EntradasDe(r) = {} => EntradasDe(r)' = {}
    BY <1>1, <1>2 DEF EntradasDe
  <2> QED
    BY <2>1 DEF InvEntradas, NadaAntes
<1>6. \A r \in Rascunhos : Movido(r)' = Movido(r) /\ DaNota(r)' = DaNota(r)
  BY DEF Movido, DaNota, QtdLinhas, Linhas
<1> QED
  BY <1>3, <1>4, <1>5, <1>6 DEF InvEntradas, NotaCerta

\* The rows of a confirmation add up to the lines of the note.
LEMMA LinhasSomadas ==
    ASSUME TypeNfe, NfeConsistente, SessoesEntrada, NEW s \in Sessoes, Confirmando(s), fila[s] = {}
    PROVE  LET r == pedido[s].rasc
           IN  /\ \A p \in Produtos : linhas[s][p]["ENTRADA"]
                     = SumFunctionOnSet(QtdLinhas(r),
                                        {i \in DOMAIN Linhas(r) : pedido[s].itens[i].prod = p})
               /\ SumFunctionOnSet([p \in Produtos |-> linhas[s][p]["ENTRADA"]], Produtos) = DaNota(r)
<1> DEFINE x == pedido[s]
           r == x.rasc
           I == DOMAIN Linhas(r)
           f == QtdLinhas(r)
           mov == [i \in I |-> [item |-> i, prod |-> x.itens[i].prod, tipos |-> {"ENTRADA"},
                                qtd |-> Linhas(r)[i].qtd]]
           k == [i \in I |-> x.itens[i].prod]
           De(p) == {i \in I : k[i] = p}
           g == [p \in Produtos |-> linhas[s][p]["ENTRADA"]]
<1>1. x \in PedidoConfirmar /\ fase[s] # "lendo"
  BY DEF Confirmando
<1>2. /\ PlanoEntrada(x) = {mov[i] : i \in I}
      /\ \A i \in I : mov[i] \in Movimento
      /\ x.itens \in [I -> ItemLigado]
  BY <1>1, PlanoEntradaTipado
<1>3. IsFiniteSet(I) /\ \A i \in I : f[i] \in Int
  BY <1>1, RascunhoDaSessao, NotaTipada
<1>4. /\ \A i \in I : mov[i].item = i /\ "ENTRADA" \in mov[i].tipos /\ mov[i].prod = k[i]
                      /\ f[i] = mov[i].qtd
      /\ k \in [I -> Produtos]
  BY <1>2 DEF QtdLinhas, ItemLigado
<1>5. Contado(fila[s], linhas[s], PlanoEntrada(x)) /\ "ENTRADA" \in Tipos
  BY DEF SessoesEntrada, SessaoEntrada, Tipos
<1>6. \A p : De(p) = {i \in I : mov[i].prod = p}
  BY <1>4
<1>7. \A i \in DOMAIN Linhas(r) : k[i] = pedido[s].itens[i].prod
  OBVIOUS
<1> HIDE DEF mov, f, k, I
<1>8. ASSUME NEW p \in Produtos
      PROVE  linhas[s][p]["ENTRADA"] = SumFunctionOnSet(f, De(p))
  <2>1. linhas[s][p]["ENTRADA"] = Total(PlanoEntrada(x), p, "ENTRADA")
    BY <1>5, ContadoInteiro
  <2>2. Total({mov[i] : i \in I}, p, "ENTRADA") = SumFunctionOnSet(f, {i \in I : mov[i].prod = p})
    BY <1>2, <1>3, <1>4, TotalDoPlano
  <2> QED
    BY <1>2, <1>6, <2>1, <2>2
<1>9. SumFunctionOnSet([p \in Produtos |-> SumFunctionOnSet(f, De(p))], Produtos)
         = SumFunctionOnSet(f, I)
  BY <1>3, <1>4, FinitosAssumption, SomaPorClasse
<1>10. g = [p \in Produtos |-> SumFunctionOnSet(f, De(p))]
  BY <1>8
<1>11. SumFunctionOnSet(g, Produtos) = DaNota(r)
  BY <1>9, <1>10 DEF DaNota, f, I
<1>12. \A p \in Produtos : De(p) = {i \in DOMAIN Linhas(r) : pedido[s].itens[i].prod = p}
  BY <1>7 DEF I
<1> QED
  BY <1>8, <1>11, <1>12 DEF f

LEMMA ConfirmarEntradas ==
    ASSUME NEW Outros, ContextoNfe(Outros), SessoesEntrada, InvEntradas,
           NEW s \in Sessoes, ConcluirConfirmar(s)
    PROVE  InvEntradas'
<1>0. pedido[s].rasc \in Rascunhos
  BY CommitNfe DEF ConcluirNfe
<1> PICK r \in Rascunhos : r = pedido[s].rasc
  BY <1>0
<1> PICK nova : nova = NovaEntrada(r)
  OBVIOUS
<1>1. /\ TypeEstoque /\ TypeNfe /\ NfeConsistente
      /\ entradas' = entradas \cup {nova}
      /\ rascunho' = [rascunho EXCEPT ![r].status = "CONFIRMADA"]
  BY DEF ContextoNfe, ConcluirConfirmar
<1>2. /\ PassoRefs({r}) /\ fase[s] = "movendo" /\ fila[s] = {}
      /\ \A p \in Produtos, t \in Tipos :
            porRef'[r][p][t] = porRef[r][p][t] + linhas[s][p][t]
  BY CommitSessoes DEF ConcluirNfe
<1>3. Confirmando(s) /\ r \in Rascunhos /\ rascunho[r] # Livre /\ r \in Refs
  BY <1>1, <1>2, CommitNfe, RascunhoDaSessao DEF ConcluirNfe, Confirmando
<1>4. Evolui
  BY <1>1, <1>3, StatusGravado DEF StatusRascunho
<1>5. \A q \in Rascunhos \ {r} : rascunho'[q] = rascunho[q] /\ porRef'[q] = porRef[q]
  BY <1>1, <1>2, RascunhoNfeAssumption DEF TypeNfe, PassoRefs
<1>6. rascunho'[r] # Livre /\ Linhas(r)' = Linhas(r)
  BY <1>3, <1>4 DEF Evolui, Linhas
<1>7. nova.rasc = r /\ nova.num = Cardinality(EntradasDe(r)) + 1
  BY DEF NovaEntrada, EntradasDe
<1>8. IsFiniteSet(EntradasDe(r)) /\ Cardinality(EntradasDe(r)) \in Nat
  BY <1>1, EntradasFinitas
<1>9. \A e \in entradas : e.rasc = r => e.num # nova.num
  BY <1>7, <1>8 DEF InvEntradas, EntradasNumeradas
<1>10. /\ EntradasDe(r)' = EntradasDe(r) \cup {nova} /\ nova \notin EntradasDe(r)
       /\ \A q : q # r => EntradasDe(q)' = EntradasDe(q)
  BY <1>1, <1>7, <1>9 DEF EntradasDe
<1>11. Cardinality(EntradasDe(r)') = Cardinality(EntradasDe(r)) + 1
  BY <1>8, <1>10, FS_AddElement
<1>12. EntradasNumeradas'
  <2>1. ASSUME NEW x \in entradas'
        PROVE  x.num \in 1..Cardinality(EntradasDe(x.rasc)')
    <3>1. CASE x = nova
      BY <1>7, <1>8, <1>11, <3>1
    <3>2. CASE x \in entradas
      <4>1. x.num \in 1..Cardinality(EntradasDe(x.rasc))
        BY <3>2 DEF InvEntradas, EntradasNumeradas
      <4>2. CASE x.rasc = r
        <5>1. x.num \in 1..Cardinality(EntradasDe(r))
          BY <4>1, <4>2
        <5>2. x.num \in 1..Cardinality(EntradasDe(r)')
          BY <1>8, <1>11, <5>1
        <5> QED
          BY <4>2, <5>2
      <4>3. CASE x.rasc # r
        <5>1. EntradasDe(x.rasc)' = EntradasDe(x.rasc)
          BY <1>10, <4>3
        <5> QED
          BY <4>1, <5>1
      <4> QED
        BY <4>2, <4>3
    <3> QED
      BY <1>1, <2>1, <3>1, <3>2
  <2>2. \A x, y \in entradas' : x.rasc = y.rasc /\ x.num = y.num => x = y
    BY <1>1, <1>7, <1>9 DEF InvEntradas, EntradasNumeradas
  <2> QED
    BY <2>1, <2>2 DEF EntradasNumeradas
<1>13. NadaAntes'
  BY <1>5, <1>6, <1>10 DEF InvEntradas, NadaAntes
<1>14. Movido(r)' = Movido(r) + DaNota(r)
  <2> DEFINE h == [p \in Produtos |-> porRef'[r][p]["ENTRADA"]]
             f == [p \in Produtos |-> porRef[r][p]["ENTRADA"]]
             g == [p \in Produtos |-> linhas[s][p]["ENTRADA"]]
  <2>1. \A p \in Produtos : f[p] \in Int /\ g[p] \in Int /\ h[p] = f[p] + g[p]
    <3>1. porRef[r] \in [Produtos -> [Contas -> Int]] /\ linhas[s] \in [Produtos -> [Contas -> Int]]
      BY <1>1, <1>3 DEF TypeEstoque
    <3> QED
      BY <1>2, <3>1, TiposDeContas DEF Tipos
  <2>2. SumFunctionOnSet(g, Produtos) = DaNota(r)
    BY <1>1, <1>2, <1>3, LinhasSomadas
  <2> HIDE DEF f, g, h
  <2>3. SumFunctionOnSet(h, Produtos) = SumFunctionOnSet(f, Produtos) + SumFunctionOnSet(g, Produtos)
    BY <2>1, FinitosAssumption, SomaMais
  <2>4. SumFunctionOnSet(h, Produtos) = SumFunctionOnSet(f, Produtos) + DaNota(r)
    BY <2>2, <2>3
  <2> QED
    BY <2>4 DEF Movido, f, h
<1>15. NotaCerta(r)'
  <2>1. DaNota(r)' = DaNota(r) /\ DaNota(r) \in Int
    BY <1>1, <1>3, <1>6, NotaTipada DEF DaNota, QtdLinhas
  <2>2. Movido(r) = Cardinality(EntradasDe(r)) * DaNota(r)
    BY <1>3 DEF InvEntradas, NotaCerta
  <2>3. \A n, d \in Int : (n + 1) * d = n * d + d
    OBVIOUS
  <2> QED
    BY <1>8, <1>11, <1>14, <2>1, <2>2, <2>3 DEF NotaCerta
<1>16. ASSUME NEW q \in Rascunhos \ {r}
       PROVE  NotaCerta(q)'
  <2>1. Linhas(q)' = Linhas(q) /\ EntradasDe(q)' = EntradasDe(q)
    BY <1>5, <1>10 DEF Linhas
  <2>2. Movido(q)' = Movido(q) /\ DaNota(q)' = DaNota(q)
    BY <1>5, <2>1 DEF Movido, DaNota, QtdLinhas
  <2> QED
    BY <1>5, <2>1, <2>2 DEF InvEntradas, NotaCerta
<1> QED
  BY <1>12, <1>13, <1>15, <1>16 DEF InvEntradas

\* Only a confirmation brings something in.
LEMMA SemNovaEntrada ==
    ASSUME NEW Outros, ContextoNfe(Outros), SessoesEntrada, NEW s \in Sessoes, ConcluirNfe(s),
           ~ConcluirConfirmar(s)
    PROVE  \A r \in Rascunhos, p \in Produtos :
              porRef'[r][p]["ENTRADA"] = porRef[r][p]["ENTRADA"]
<1>1. PICK r \in Rascunhos : r = pedido[s].rasc
  BY CommitNfe
<1>2. /\ PassoRefs({r}) /\ fase[s] = "movendo"
      /\ \A p \in Produtos, t \in Tipos : porRef'[r][p][t] = porRef[r][p][t] + linhas[s][p][t]
  BY <1>1, CommitSessoes
<1>3. \A p \in Produtos : linhas[s][p]["ENTRADA"] = 0
  BY CommitNfe DEF SessoesEntrada, SessaoEntrada, Confirmando, SemTipo
<1> SUFFICES ASSUME NEW q \in Rascunhos, NEW p \in Produtos
             PROVE  porRef'[q][p]["ENTRADA"] = porRef[q][p]["ENTRADA"]
  OBVIOUS
<1>4. CASE q = r
  <2>1. porRef[q][p]["ENTRADA"] \in Int
    BY RascunhoNfeAssumption, TiposDeContas DEF ContextoNfe, TypeEstoque, Tipos
  <2> QED
    BY <1>2, <1>3, <1>4, <2>1 DEF Tipos
<1>5. CASE q # r
  BY <1>2, <1>5, RascunhoNfeAssumption DEF PassoRefs
<1> QED
  BY <1>4, <1>5

\* Every step of the note handlers.
LEMMA ProximoEntradas ==
    ASSUME NEW Outros, ContextoNfe(Outros), Paradas, SessoesEntrada, InvEntradas, NextNfe
    PROVE  InvEntradas'
<1>1. PassoNfe
  BY ProximoNfe
<1>2. TypeNfe' /\ TypeNfe /\ Evolui
  BY <1>1 DEF PassoNfe, ContextoNfe
<1>3. CASE ~\E s \in Sessoes : ConcluirNfe(s)
  <2>1. UNCHANGED <<porRef, nfeVars>>
    BY <1>3, AntesDoCommit
  <2> QED
    BY <1>2, <2>1, EntradasParadas DEF nfeVars
<1>4. ASSUME NEW s \in Sessoes, ConcluirNfe(s), ~ConcluirConfirmar(s)
      PROVE  InvEntradas'
  <2>4. \A r \in Rascunhos, p \in Produtos : porRef'[r][p]["ENTRADA"] = porRef[r][p]["ENTRADA"]
    BY <1>4, SemNovaEntrada
  <2>5. CASE ConcluirProcessar(s)
    <3>1. PICK e \in entradas :
             entradas' = (entradas \ {e}) \cup {[e EXCEPT !.status = "PROCESSADA"]}
      BY <2>5 DEF ConcluirProcessar
    <3>2. rascunho' = rascunho
      BY <2>5 DEF ConcluirProcessar
    <3> QED
      BY <1>2, <2>4, <3>1, <3>2, ProcessarEntradas
  <2>6. CASE ~ConcluirProcessar(s)
    <3>1. entradas' = entradas
      BY <1>4, <2>6 DEF ConcluirNfe, ConcluirRascunho, ConcluirVincular, ConcluirNovo,
                        ConcluirDescartar
    <3> QED
      BY <1>2, <2>4, <3>1, EntradasParadas
  <2> QED
    BY <2>5, <2>6
<1> QED
  BY <1>3, <1>4, ConfirmarEntradas

LEMMA EntradasInicio ==
    InitEstoque /\ InitNfe => SessoesEntrada /\ InvEntradas
<1> SUFFICES ASSUME InitEstoque, InitNfe PROVE SessoesEntrada /\ InvEntradas
  OBVIOUS
<1>1. /\ \A s \in Sessoes : pedido[s] = Livre
      /\ \A r \in Rascunhos : rascunho[r] = Livre /\ porRef[r] = SemLinhas
      /\ entradas = {}
  BY RascunhoNfeAssumption DEF InitEstoque, InitSessoes, InitNfe
<1>2. SessoesEntrada
  BY <1>1, PedidoNfeAssumption DEF SessoesEntrada, SessaoEntrada, Confirmando, PedidoNfe
<1>3. \A r : EntradasDe(r) = {}
  BY <1>1 DEF EntradasDe
<1>4. \A p \in Produtos : SemLinhas[p]["ENTRADA"] = 0
  BY TiposDeContas DEF SemLinhas, Tipos
<1> QED
  BY <1>1, <1>2, <1>3, <1>4 DEF InvEntradas, EntradasNumeradas, NadaAntes, NotaCerta

\* A note enters the stock whole or not at all: what a draft has brought in is
\* its lines, as many times as it has entries, whichever products they were
\* linked to while the confirmation was under way.
THEOREM NotaInteira == SpecNfe => []NotaEntraInteira
<1> DEFINE I == TypeOkNfe /\ Paradas /\ SessoesEntrada /\ InvEntradas
<1>1. InitEntradas => I
  BY TipoNfeInicial, ParadasInicio, EntradasInicio DEF InitEntradas
<1>2. I /\ [NextNfe]_varsNfe => I'
  <2> SUFFICES ASSUME I, [NextNfe]_varsNfe PROVE I'
    OBVIOUS
  <2>1. TypeOkNfe'
    BY TipoNfeIndutivo
  <2>2. CASE NextNfe
    <3>1. ContextoNfe({})
      BY ContextoSoNfe
    <3>2. PassoSessoes(PedidoNfe) /\ SessoesEntrada' /\ InvEntradas'
      BY <2>2, <3>1, SessoesNfe, ProximoEntradas
    <3>3. Paradas'
      BY <3>2, ParadasSeguem, PedidoNfeAssumption
    <3> QED
      BY <2>1, <3>2, <3>3
  <2>3. CASE UNCHANGED varsNfe
    <3>1. UNCHANGED <<pedido, fase, fila, linhas, porRef, nfeVars>> /\ rascunho' = rascunho
      BY <2>3 DEF varsNfe, estoqueVars, banco, memoria, nfeVars
    <3>2. Paradas'
      BY <3>1 DEF Paradas, Parada
    <3>3. SessoesEntrada'
      <4>1. ASSUME NEW s \in Sessoes
            PROVE  SessaoEntrada(s)'
        <5>1. PlanoEntrada(pedido[s])' = PlanoEntrada(pedido[s])
          BY <3>1 DEF PlanoEntrada, Linhas
        <5> QED
          BY <3>1, <5>1 DEF SessoesEntrada, SessaoEntrada, Confirmando
      <4> QED
        BY <4>1 DEF SessoesEntrada
    <3>4. InvEntradas'
      <4>1. Evolui
        BY <3>1 DEF Evolui
      <4> QED
        BY <2>1, <3>1, <4>1, EntradasParadas DEF TypeOkNfe, nfeVars
    <3> QED
      BY <2>1, <3>2, <3>3, <3>4
  <2> QED
    BY <2>2, <2>3
<1>3. I => NotaEntraInteira
  BY NotaPorPartes DEF InvEntradas
<1> QED
  BY <1>1, <1>2, <1>3, PTL DEF SpecNfe

-----------------------------------------------------------------------------
(***************************************************************************)
(* One request at a time: a draft is still pending when its request        *)
(* commits, and the lines that were moved are the lines it shows.          *)
(***************************************************************************)
Confirmada(r) == rascunho[r] # Livre /\ rascunho[r].status = "CONFIRMADA"

\* What was brought in is what the draft shows; nothing before the confirmation.
EntradaMostrada(r) ==
    /\ ~Confirmada(r) => \A p \in Produtos : porRef[r][p]["ENTRADA"] = 0
    /\ Confirmada(r) => \A p \in Produtos : porRef[r][p]["ENTRADA"]
           = SumFunctionOnSet(QtdLinhas(r),
                              {i \in DOMAIN Linhas(r) : rascunho[r].itens[i].prod = p})

\* A request that changes a draft has it pending, and the lines a confirmation
\* has read are those of the draft.
PedidoVale(s) ==
    /\ pedido[s] \in PedidoVincular \cup PedidoConfirmar \cup PedidoDescartar
          => Pendente(pedido[s].rasc)
    /\ pedido[s] \in PedidoConfirmar /\ fase[s] # "lendo"
          => pedido[s].itens = rascunho[pedido[s].rasc].itens

InvNfeSerial == /\ \A s \in Sessoes : PedidoVale(s)
                /\ \A r \in Rascunhos : EntradaMostrada(r)

\* Drafts that do not change.
LEMMA EntradaFica ==
    ASSUME NEW r \in Rascunhos, EntradaMostrada(r), rascunho'[r] = rascunho[r],
           \A p \in Produtos : porRef'[r][p]["ENTRADA"] = porRef[r][p]["ENTRADA"]
    PROVE  EntradaMostrada(r)'
<1>1. Linhas(r)' = Linhas(r)
  BY DEF Linhas
<1> QED
  BY <1>1 DEF EntradaMostrada, Confirmada, QtdLinhas

\* Sessions that go on or end.
LEMMA ValesSeguem ==
    ASSUME \A s \in Sessoes : PedidoVale(s), rascunho' = rascunho,
           NEW P, P \cap PedidoNfe = {}, PassoSessoes(P)
    PROVE  \A s \in Sessoes : PedidoVale(s)'
<1> SUFFICES ASSUME NEW s \in Sessoes, pedido'[s] \in PedidoNfe
             PROVE  PedidoVale(s)'
  BY DEF PedidoVale, PedidoNfe
<1>1. pedido'[s] = pedido[s] /\ fase'[s] = fase[s]
  BY SessaoSegue, PedidoNfeAssumption DEF Continua
<1> QED
  BY <1>1 DEF PedidoVale, Pendente

\* A step inside one session.
LEMMA ValeDeUma ==
    ASSUME \A u \in Sessoes : PedidoVale(u), NEW s \in Sessoes, rascunho' = rascunho,
           PedidoVale(s)',
           \A u \in Sessoes \ {s} : pedido'[u] = pedido[u] /\ fase'[u] = fase[u]
    PROVE  \A u \in Sessoes : PedidoVale(u)'
BY DEF PedidoVale, Pendente

LEMMA PedirVale ==
    ASSUME NEW Outros, ContextoNfe(Outros), Paradas, \A u \in Sessoes : PedidoVale(u),
           NEW s \in Sessoes, PedirNfe(s)
    PROVE  \A u \in Sessoes : PedidoVale(u)'
<1>1. PICK ped, f : Inicia(s, ped, f)
  BY PedirInicia
<1>2. TypeEstoque /\ Dominios
  BY DEF ContextoNfe, Misturados, Dominios
<1>3. Iniciar(s, ped, f, {}) /\ ped \in PedidoNfe /\ rascunho' = rascunho
  BY <1>1 DEF Inicia, nfeVars
<1>4. /\ pedido'[s] = ped /\ fase'[s] = f
      /\ \A u \in Sessoes \ {s} : pedido'[u] = pedido[u] /\ fase'[u] = fase[u]
  BY <1>2, <1>3, IniciarSessoes
<1>5. PedidoVale(s)'
  BY <1>1, <1>3, <1>4 DEF Inicia, PedidoVale, Pendente, PedidoVincular, PedidoConfirmar,
                          PedidoDescartar
<1> QED
  BY <1>3, <1>4, <1>5, ValeDeUma

LEMMA PrepararVale ==
    ASSUME NEW Outros, ContextoNfe(Outros), \A u \in Sessoes : PedidoVale(u),
           NEW s \in Sessoes, CasarItens(s) \/ LerLinhas(s) \/ InserirEntrada(s)
    PROVE  \A u \in Sessoes : PedidoVale(u)'
<1>1. /\ rascunho' = rascunho
      /\ \A u \in Sessoes \ {s} : pedido'[u] = pedido[u] /\ fase'[u] = fase[u]
  BY DEF CasarItens, LerLinhas, InserirEntrada, nfeVars, ContextoNfe, Misturados
<1>2. CASE CasarItens(s)
  <2>1. pedido'[s] \in PedidoCriar
    BY <1>2, CasarPasso
  <2>2. pedido'[s] \notin PedidoVincular \cup PedidoConfirmar \cup PedidoDescartar
    BY <2>1 DEF PedidoCriar, PedidoVincular, PedidoConfirmar, PedidoDescartar
  <2> QED
    BY <1>1, <2>2, ValeDeUma DEF PedidoVale
<1>3. CASE LerLinhas(s)
  <2>1. /\ pedido'[s] = [op |-> "confirmar", rasc |-> pedido[s].rasc,
                         itens |-> rascunho[pedido[s].rasc].itens, feitas |-> {}]
        /\ fase[s] = "lendo"
    BY <1>3 DEF LerLinhas, ContextoNfe, Misturados
  <2>2. pedido[s] \in PedidoConfirmar
    BY <2>1 DEF ContextoNfe, NfeConsistente, SessaoNfe, Coerente
  <2>3. PedidoVale(s)'
    BY <1>1, <2>1, <2>2 DEF PedidoVale, Pendente
  <2> QED
    BY <1>1, <2>3, ValeDeUma
<1>4. CASE InserirEntrada(s)
  <2>1. pedido' = pedido /\ fase[s] = "entrada"
    BY <1>4 DEF InserirEntrada
  <2>2. PedidoVale(s)'
    BY <1>1, <2>1 DEF PedidoVale, Pendente
  <2> QED
    BY <1>1, <2>2, ValeDeUma
<1> QED
  BY <1>2, <1>3, <1>4

\* Between commits.
LEMMA AntesVale ==
    ASSUME NEW Outros, ContextoNfe(Outros), Paradas, SessoesEntrada, InvNfeSerial, NextNfe,
           ~\E s \in Sessoes : ConcluirNfe(s)
    PROVE  InvNfeSerial'
<1>1. /\ UNCHANGED porRef /\ rascunho' = rascunho
      /\ \A s \in Sessoes : PedidoVale(s)
  BY AntesDoCommit DEF nfeVars, InvNfeSerial
<1>2. TypeEstoque /\ Dominios
  BY DEF ContextoNfe, Misturados, Dominios
<1>3. PICK s \in Sessoes :
         PedirNfe(s) \/ AtenderNfe(s) \/ DetectarDeadlockNfe(s) \/ CairNfe(s)
  BY DEF NextNfe
<1>4. CASE \/ CodigoRepetido(s) \/ RecusarPendente(s) \/ ChaveRepetida(s)
           \/ DetectarDeadlockNfe(s) \/ CairNfe(s)
  <2>1. SessaoLimpa(s)
    BY <1>4 DEF CodigoRepetido, RecusarPendente, ChaveRepetida, DetectarDeadlockNfe,
                VitimaDeadlock, CairNfe, Abortar
  <2>2. PassoSessoes({})
    BY <1>2, <2>1, LimpaSessoes
  <2> QED
    BY <1>1, <2>2, ValesSeguem, EntradaFica DEF InvNfeSerial
<1>5. CASE MovimentarNfe(s)
  <2>1. PICK m \in fila[s] : RegistrarMovimentacao(s, m)
    BY <1>5 DEF MovimentarNfe
  <2>2. PassoSessoes({})
    BY <1>2, <2>1, MovimentarSessoes
  <2> QED
    BY <1>1, <2>2, ValesSeguem, EntradaFica DEF InvNfeSerial
<1>7. CASE MapearNfe(s)
  <2>1. /\ pedido[s] \in PedidoConfirmar /\ pedido'[s] \in PedidoConfirmar
        /\ pedido'[s].rasc = pedido[s].rasc /\ pedido'[s].itens = pedido[s].itens
        /\ \A u \in Sessoes \ {s} : pedido'[u] = pedido[u]
        /\ fase' = fase
    BY <1>7, MapearForma DEF ContextoNfe, Misturados
  <2>2. PedidoVale(s)'
    BY <1>1, <2>1 DEF PedidoVale, Pendente
  <2>3. \A u \in Sessoes : PedidoVale(u)'
    BY <1>1, <2>1, <2>2, ValeDeUma
  <2> QED
    BY <1>1, <2>3, EntradaFica DEF InvNfeSerial
<1>6. CASE PedirNfe(s) \/ CasarItens(s) \/ LerLinhas(s) \/ InserirEntrada(s)
  <2>1. \A u \in Sessoes : PedidoVale(u)'
    BY <1>1, <1>6, PedirVale, PrepararVale
  <2> QED
    BY <1>1, <2>1, EntradaFica DEF InvNfeSerial
<1> QED
  BY <1>3, <1>4, <1>5, <1>6, <1>7 DEF AtenderNfe, ConcluirNfe

\* A commit other than a confirmation confirms nothing, and leaves alone what is
\* confirmed.
LEMMA ConfirmadasFicam ==
    ASSUME NEW Outros, ContextoNfe(Outros), InvNfeSerial, NEW s \in Sessoes, ConcluirNfe(s),
           ~ConcluirConfirmar(s), NEW q \in Rascunhos
    PROVE  rascunho'[q] = rascunho[q] \/ (~Confirmada(q) /\ ~Confirmada(q)')
<1> DEFINE x == pedido[s]
<1>1. /\ x \in PedidoNfe /\ x.rasc \in Rascunhos /\ x # Livre
      /\ x \in PedidosNfe \cup Outros /\ fase[s] = "movendo"
  <2>1. fase[s] = "movendo"
    BY DEF ConcluirNfe, ConcluirRascunho, ConcluirVincular, ConcluirNovo, ConcluirDescartar,
           ConcluirProcessar, Gravar
  <2> QED
    BY <2>1, CommitNfe, PedidoNfeAssumption DEF PedidosNfe
<1>2. TypeNfe /\ PedidoVale(s) /\ Coerente(x, "movendo")
  BY <1>1 DEF ContextoNfe, InvNfeSerial, NfeConsistente, SessaoNfe
<1>3. CASE ConcluirRascunho(s)
  <2>1. x \in PedidoCriar
    BY <1>1, <1>3, PedidoDaNfe DEF ContextoNfe, ConcluirRascunho
  <2>2. rascunho[x.rasc] = Livre
    BY <1>2, <2>1 DEF Coerente
  <2>3. rascunho' = [rascunho EXCEPT ![x.rasc] =
                        [nota |-> x.nota, status |-> "PENDENTE", itens |-> x.itens]]
    BY <1>3 DEF ConcluirRascunho
  <2> QED
    BY <1>1, <1>2, <2>2, <2>3 DEF TypeNfe, Confirmada
<1>4. CASE ConcluirVincular(s) \/ ConcluirNovo(s)
  <2>1. x \in PedidoVincular
    BY <1>1, <1>4, PedidoDaNfe DEF ContextoNfe, ConcluirVincular, ConcluirNovo
  <2>2. PICK st \in {"VINCULADO", "NOVO"} : GravarItem(x, st)
    BY <1>4 DEF ConcluirVincular, ConcluirNovo
  <2>3. Pendente(x.rasc)
    BY <1>2, <2>1 DEF PedidoVale
  <2> HIDE DEF x
  <2>4. /\ rascunho'[x.rasc].status = rascunho[x.rasc].status
        /\ \A r \in Rascunhos \ {x.rasc} : rascunho'[r] = rascunho[r]
    BY <1>2, <2>1, <2>2, ItemGravado
  <2> QED
    BY <2>3, <2>4 DEF Pendente, Confirmada
<1>5. CASE ConcluirDescartar(s)
  <2>1. x \in PedidoDescartar
    BY <1>1, <1>5, PedidoDaNfe DEF ContextoNfe, ConcluirDescartar
  <2>2. Pendente(x.rasc) /\ rascunho' = [rascunho EXCEPT ![x.rasc].status = "CANCELADA"]
    BY <1>2, <1>5, <2>1 DEF PedidoVale, ConcluirDescartar
  <2>3. /\ rascunho'[x.rasc].status = "CANCELADA"
        /\ \A r \in Rascunhos \ {x.rasc} : rascunho'[r] = rascunho[r]
    BY <1>1, <1>2, <2>2, StatusGravado DEF Pendente, StatusRascunho
  <2> QED
    BY <2>2, <2>3 DEF Pendente, Confirmada
<1>6. CASE ConcluirProcessar(s)
  BY <1>6 DEF ConcluirProcessar
<1> QED
  BY <1>3, <1>4, <1>5, <1>6 DEF ConcluirNfe

\* The confirmation.
LEMMA ConfirmarMostra ==
    ASSUME NEW Outros, ContextoNfe(Outros), SessoesEntrada, InvNfeSerial,
           NEW s \in Sessoes, ConcluirConfirmar(s)
    PROVE  \A r \in Rascunhos : EntradaMostrada(r)'
<1>1. PICK r \in Rascunhos : r = pedido[s].rasc
  BY CommitNfe DEF ConcluirNfe
<1>2. /\ TypeNfe /\ NfeConsistente /\ TypeEstoque
      /\ rascunho' = [rascunho EXCEPT ![r].status = "CONFIRMADA"]
  BY <1>1 DEF ContextoNfe, ConcluirConfirmar
<1>3. /\ PassoRefs({r}) /\ fase[s] = "movendo" /\ fila[s] = {}
      /\ \A p \in Produtos, t \in Tipos : porRef'[r][p][t] = porRef[r][p][t] + linhas[s][p][t]
  BY <1>1, CommitSessoes DEF ConcluirNfe
<1>4. Confirmando(s) /\ pedido[s] \in PedidoConfirmar
  BY <1>3, CommitNfe DEF ConcluirNfe, Confirmando
<1>5. /\ Pendente(r) /\ rascunho[r] # Livre /\ pedido[s].itens = rascunho[r].itens
      /\ ~Confirmada(r)
  BY <1>1, <1>3, <1>4 DEF InvNfeSerial, PedidoVale, Pendente, Confirmada
<1>6. /\ rascunho'[r].status = "CONFIRMADA" /\ rascunho'[r].itens = rascunho[r].itens
      /\ Evolui /\ \A q \in Rascunhos \ {r} : rascunho'[q] = rascunho[q]
  BY <1>2, <1>5, StatusGravado DEF StatusRascunho
<1>7. Confirmada(r)' /\ Linhas(r)' = Linhas(r)
  BY <1>5, <1>6 DEF Evolui, Confirmada, Linhas
<1>8. ASSUME NEW p \in Produtos
      PROVE  porRef'[r][p]["ENTRADA"]
                = SumFunctionOnSet(QtdLinhas(r), {i \in DOMAIN Linhas(r) :
                                                     rascunho'[r].itens[i].prod = p})
  <2>1. porRef[r][p]["ENTRADA"] = 0
    BY <1>5 DEF InvNfeSerial, EntradaMostrada
  <2>2. linhas[s][p]["ENTRADA"] \in Int /\ "ENTRADA" \in Tipos
    BY <1>2, TiposDeContas DEF TypeEstoque, Tipos
  <2>3. porRef'[r][p]["ENTRADA"] = linhas[s][p]["ENTRADA"]
    BY <1>3, <2>1, <2>2
  <2>4. linhas[s][p]["ENTRADA"]
           = SumFunctionOnSet(QtdLinhas(r),
                              {i \in DOMAIN Linhas(r) : pedido[s].itens[i].prod = p})
    BY <1>1, <1>2, <1>3, <1>4, LinhasSomadas
  <2> QED
    BY <1>5, <1>6, <2>3, <2>4
<1>9. QtdLinhas(r)' = QtdLinhas(r)
  BY <1>7 DEF QtdLinhas
<1>10. EntradaMostrada(r)'
  BY <1>7, <1>8, <1>9 DEF EntradaMostrada
<1>11. ASSUME NEW q \in Rascunhos \ {r}
       PROVE  EntradaMostrada(q)'
  <2>1. porRef'[q] = porRef[q]
    BY <1>3, RascunhoNfeAssumption DEF PassoRefs
  <2> QED
    BY <1>6, <2>1, EntradaFica DEF InvNfeSerial
<1> QED
  BY <1>10, <1>11

\* Every step of the note handlers.
LEMMA ProximoVale ==
    ASSUME SessaoUnica, NEW Outros, ContextoNfe(Outros), Paradas, SessoesEntrada, InvNfeSerial,
           NextNfe
    PROVE  InvNfeSerial'
<1>1. CASE ~\E s \in Sessoes : ConcluirNfe(s)
  BY <1>1, AntesVale
<1>2. ASSUME NEW s \in Sessoes, ConcluirNfe(s)
      PROVE  InvNfeSerial'
  <2>1. pedido[s].rasc \in Refs /\ Gravar(s, pedido[s].rasc) /\ TypeEstoque /\ Dominios
    BY <1>2, CommitNfe DEF ContextoNfe, Misturados, Dominios
  <2>2. pedido'[s] = Livre
    BY <2>1, GravarSessoes DEF Acaba
  <2>3. \A u \in Sessoes : PedidoVale(u)'
    BY <2>2, PedidoNfeAssumption DEF SessaoUnica, PedidoVale, PedidoNfe
  <2>4. CASE ConcluirConfirmar(s)
    BY <2>3, <2>4, ConfirmarMostra DEF InvNfeSerial
  <2>5. CASE ~ConcluirConfirmar(s)
    <3>1. ASSUME NEW r \in Rascunhos
          PROVE  EntradaMostrada(r)'
      <4>1. \A p \in Produtos : porRef'[r][p]["ENTRADA"] = porRef[r][p]["ENTRADA"]
        BY <1>2, <2>5, SemNovaEntrada
      <4>2. rascunho'[r] = rascunho[r] \/ (~Confirmada(r) /\ ~Confirmada(r)')
        BY <1>2, <2>5, ConfirmadasFicam
      <4>3. EntradaMostrada(r)
        BY DEF InvNfeSerial
      <4>4. CASE rascunho'[r] = rascunho[r]
        BY <4>1, <4>3, <4>4, EntradaFica
      <4>5. CASE ~Confirmada(r) /\ ~Confirmada(r)'
        BY <4>1, <4>3, <4>5 DEF EntradaMostrada
      <4> QED
        BY <4>2, <4>4, <4>5
    <3> QED
      BY <2>3, <3>1 DEF InvNfeSerial
  <2> QED
    BY <2>4, <2>5
<1> QED
  BY <1>1, <1>2

\* The steps of the other services.
LEMMA AlheioVale ==
    ASSUME InvNfeSerial, rascunho' = rascunho, NEW P, P \cap PedidoNfe = {}, PassoSessoes(P),
           NEW R, R \cap Rascunhos = {}, PassoRefs(R)
    PROVE  InvNfeSerial'
<1>1. \A s \in Sessoes : PedidoVale(s)'
  BY ValesSeguem DEF InvNfeSerial
<1>2. \A r \in Rascunhos : porRef'[r] = porRef[r]
  BY RascunhoNfeAssumption DEF PassoRefs
<1> QED
  BY <1>1, <1>2, EntradaFica DEF InvNfeSerial

LEMMA ValeInicio ==
    InitEstoque /\ InitNfe => InvNfeSerial
<1> SUFFICES ASSUME InitEstoque, InitNfe PROVE InvNfeSerial
  OBVIOUS
<1>1. \A s \in Sessoes : PedidoVale(s)
  BY PedidoNfeAssumption DEF InitEstoque, InitSessoes, PedidoVale, PedidoNfe
<1>2. \A r \in Rascunhos : rascunho[r] = Livre /\ porRef[r] = SemLinhas
  BY RascunhoNfeAssumption DEF InitEstoque, InitSessoes, InitNfe
<1>3. \A p \in Produtos : SemLinhas[p]["ENTRADA"] = 0
  BY TiposDeContas DEF SemLinhas, Tipos
<1> QED
  BY <1>1, <1>2, <1>3 DEF InvNfeSerial, EntradaMostrada, Confirmada

LEMMA MostradaInteira ==
    ASSUME TypeNfe, InvNfeSerial
    PROVE  CanceladaSemEntrada /\ ConfirmadaMostraEntrada
<1>1. CanceladaSemEntrada
  BY DEF CanceladaSemEntrada, InvNfeSerial, EntradaMostrada, Confirmada
<1>2. ASSUME NEW r \in Rascunhos, Confirmada(r), NEW p \in Produtos
      PROVE  LET deP == {i \in DOMAIN Linhas(r) : rascunho[r].itens[i].prod = p}
             IN  porRef[r][p]["ENTRADA"] = SumFunctionOnSet([i \in deP |-> Linhas(r)[i].qtd], deP)
  <2> DEFINE deP == {i \in DOMAIN Linhas(r) : rascunho[r].itens[i].prod = p}
             f == [i \in deP |-> Linhas(r)[i].qtd]
             g == QtdLinhas(r)
  <2>1. porRef[r][p]["ENTRADA"] = SumFunctionOnSet(g, deP)
    BY <1>2 DEF InvNfeSerial, EntradaMostrada
  <2>2. IsFiniteSet(deP)
    <3>1. DOMAIN Linhas(r) \subseteq Itens
      BY <1>2, RascunhoLido DEF Confirmada
    <3> QED
      BY <3>1, FinitosAssumption, FS_Subset
  <2>3. \A i \in deP : g[i] = f[i]
    BY DEF QtdLinhas
  <2> HIDE DEF deP, f, g
  <2>4. SumFunctionOnSet(g, deP) = SumFunctionOnSet(f, deP)
    BY <2>2, <2>3, SomaIgual
  <2> QED
    BY <2>1, <2>4 DEF deP, f
<1>3. ConfirmadaMostraEntrada
  BY <1>2 DEF ConfirmadaMostraEntrada, Confirmada
<1> QED
  BY <1>1, <1>3
=============================================================================
