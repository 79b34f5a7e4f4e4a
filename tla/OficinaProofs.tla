--------------------------- MODULE OficinaProofs ---------------------------
(***************************************************************************)
(* The garage as a whole: the three kinds of handlers share the product    *)
(* rows, and what EstoqueProofs shows of a step of the stock holds for     *)
(* every behaviour of Oficina.  Orders, sales and notes are each recorded  *)
(* whole, since a step of one service leaves the documents and the         *)
(* sessions of the others alone; and with one session at a time, what a    *)
(* handler has read of a document still holds when it commits.             *)
(***************************************************************************)
EXTENDS Oficina, OrdemServicoProofs, RascunhoNfeProofs

PedidosVenda == PedidoVenda \cup {Livre}
FasesVenda == {"livre", "movendo"}

Pedidos == PedidoOS \cup PedidoVenda \cup PedidoNfe \cup {Livre}
Fases == {"livre", "itens", "casando", "lendo", "entrada", "movendo"}

-----------------------------------------------------------------------------
(***************************************************************************)
(* The requests of the three services are told apart by op.                *)
(***************************************************************************)

LEMMA PedidosSeparados ==
    /\ DeOutros(PedidoVenda \cup PedidoNfe)
    /\ AlheiosNfe(PedidoOS \cup PedidoVenda)
<1>1. \A p \in PedidoOS : p.op \in {"adicionar", "remover", "status", "fechar", "cancelar"}
  BY DEF PedidoOS, PedidoItem, PedidoStatus, PedidoFim
<1>2. \A p \in PedidoVenda : p.op = "venda"
  BY DEF PedidoVenda
<1>3. \A p \in PedidoNfe : p.op \in {"rascunho", "vincular", "novo", "confirmar",
                                     "descartar", "processar"}
  BY DEF PedidoNfe, PedidoCriar, PedidoVincular, PedidoConfirmar, PedidoDescartar,
         PedidoProcessar
<1> QED
  BY <1>1, <1>2, <1>3 DEF DeOutros, AlheiosNfe

\* A request of another service is none of RascunhoService.
LEMMA PedidoAlheio ==
    ASSUME NEW p \in PedidoOS \cup PedidoVenda
    PROVE  p \notin PedidoNfe
<1>1. p.op \notin {"rascunho", "vincular", "novo", "confirmar", "descartar", "processar"}
  BY PedidosSeparados DEF AlheiosNfe
<1> QED
  BY <1>1 DEF PedidoNfe, PedidoCriar, PedidoVincular, PedidoConfirmar, PedidoDescartar,
              PedidoProcessar

-----------------------------------------------------------------------------
(***************************************************************************)
(* Sales.                                                                  *)
(***************************************************************************)

LEMMA LinhasTipadas ==
    ASSUME NEW carrinho \in Carrinhos
    PROVE  {[item |-> i, prod |-> carrinho[i].prod, tipos |-> {"RESERVA", "SAIDA"},
             qtd |-> carrinho[i].qtd] : i \in DOMAIN carrinho} \subseteq Movimento
<1>1. PICK L \in (SUBSET Itens) \ {{}} : carrinho \in [L -> LinhaVenda]
  BY DEF Carrinhos
<1>2. \A i \in DOMAIN carrinho : /\ i \in Itens
                                 /\ carrinho[i].prod \in Produtos
                                 /\ carrinho[i].qtd \in Quantidades
  BY <1>1 DEF LinhaVenda
<1> QED
  BY <1>2 DEF Movimento

LEMMA VenderPasso ==
    ASSUME TypeEstoque, NEW s \in Sessoes, Vender(s)
    PROVE  PassoEstoque /\ PassoPedido(PedidosVenda, FasesVenda)
<1>1. Livre \in PedidosVenda /\ "livre" \in FasesVenda /\ "movendo" \in FasesVenda
  BY DEF PedidosVenda, FasesVenda
<1>2. ASSUME NEW carrinho \in Carrinhos, CriarVenda(s, carrinho)
      PROVE  PassoEstoque /\ PassoPedido(PedidosVenda, FasesVenda)
  <2> DEFINE ped == [op |-> "venda", carrinho |-> carrinho]
             ms == {[item |-> i, prod |-> carrinho[i].prod, tipos |-> {"RESERVA", "SAIDA"},
                     qtd |-> carrinho[i].qtd] : i \in DOMAIN carrinho}
  <2>1. ped \in PedidosVenda
    BY DEF PedidosVenda, PedidoVenda
  <2>2. ms \in SUBSET Movimento
    BY LinhasTipadas
  <2>3. Iniciar(s, ped, "movendo", ms)
    BY <1>2 DEF CriarVenda
  <2> HIDE DEF ped, ms
  <2> QED
    BY <1>1, <2>1, <2>2, <2>3, IniciarPasso
<1>3. ASSUME ConcluirVenda(s)
      PROVE  PassoEstoque /\ PassoPedido(PedidosVenda, FasesVenda)
  <2>1. pedido[s] # Livre /\ Gravar(s, Balcao) /\ Balcao \in Refs
    BY <1>3, VendasAssumption DEF ConcluirVenda
  <2> QED
    BY <1>1, <2>1, GravarPasso
<1> QED
  BY <1>2, <1>3 DEF Vender

-----------------------------------------------------------------------------
(***************************************************************************)
(* Types.                                                                  *)
(***************************************************************************)

\* A request of another service leaves what the sessions know of the drafts true.
LEMMA NfeConsistenteMantida ==
    ASSUME NfeConsistente, pedido \in [Sessoes -> Pedidos], fase \in [Sessoes -> Fases],
           UNCHANGED nfeVars, NEW P, P \subseteq PedidoOS \cup PedidoVenda \cup {Livre},
           PassoPedido(P, {"livre", "itens", "movendo"})
    PROVE  NfeConsistente'
<1>1. rascunho' = rascunho
  BY DEF nfeVars
<1>2. CASE UNCHANGED <<pedido, fase>>
  BY <1>1, <1>2 DEF NfeConsistente, SessaoNfe, Coerente, RascunhosDistintos, Linhas
<1>3. CASE \E s \in Sessoes, x \in P, f \in {"livre", "itens", "movendo"} :
              /\ pedido' = [pedido EXCEPT ![s] = x]
              /\ fase' = [fase EXCEPT ![s] = f]
  <2>1. PICK s \in Sessoes, x \in P, f \in {"livre", "itens", "movendo"} :
              /\ pedido' = [pedido EXCEPT ![s] = x]
              /\ fase' = [fase EXCEPT ![s] = f]
    BY <1>3
  <2>2. x \notin PedidoNfe
    BY PedidoAlheio, PedidoNfeAssumption
  <2>3. pedido'[s] = x /\ fase'[s] = f
    BY <2>1
  <2>4. SessaoNfe(s)'
    BY <2>2, <2>3, SessaoAlheia
  <2>5. x \notin PedidoCriar
    BY <2>2 DEF PedidoNfe
  <2> QED
    BY <1>1, <2>1, <2>4, <2>5, NfeQuadro
<1> QED
  BY <1>2, <1>3 DEF PassoPedido

LEMMA PassoFasesMaiores ==
    ASSUME NEW P, NEW F, NEW G, F \subseteq G, PassoPedido(P, F)
    PROVE  PassoPedido(P, G)
BY DEF PassoPedido

\* Every step of the garage is a step of the stock and keeps the types.
LEMMA ProximoOficina ==
    ASSUME TypeOk, Next
    PROVE  PassoEstoque /\ TypeOk'
<1>1. /\ TypeEstoque /\ TypeOS /\ TypeNfe /\ NfeConsistente
      /\ pedido \in [Sessoes -> Pedidos] /\ fase \in [Sessoes -> Fases]
  BY DEF TypeOk, Pedidos, Fases
<1>2. ASSUME PassoEstoque, NEW P, NEW F, PassoPedido(P, F), P \subseteq Pedidos, F \subseteq Fases,
             TypeOS', TypeNfe', NfeConsistente'
      PROVE  PassoEstoque /\ TypeOk'
  <2>1. TypeEstoque'
    BY <1>1, <1>2, PassoTipado
  <2>2. pedido' \in [Sessoes -> Pedidos] /\ fase' \in [Sessoes -> Fases]
    BY <1>1, <1>2, PassoPedidoTipado
  <2> QED
    BY <1>2, <2>1, <2>2 DEF TypeOk, Pedidos, Fases
<1>3. CASE NextOS /\ UNCHANGED <<itemVenda, nfeVars>>
  <2> DEFINE Outros == PedidoVenda \cup PedidoNfe
  <2>1. PedidosTipados(Outros)
    BY <1>1 DEF PedidosTipados, PedidosOS, Pedidos
  <2>2. PassoEstoque /\ PassoPedido(PedidosOS, FasesOS) /\ TypeOS'
    BY <1>1, <1>3, <2>1, PedidosSeparados, ProximoOS
  <2>3. UNCHANGED nfeVars /\ TypeNfe'
    BY <1>1, <1>3 DEF TypeNfe, nfeVars
  <2>4. NfeConsistente'
    BY <1>1, <2>2, <2>3, NfeConsistenteMantida DEF PedidosOS, FasesOS
  <2> QED
    BY <1>2, <2>2, <2>3, <2>4 DEF PedidosOS, FasesOS, Pedidos, Fases
<1>4. CASE (\E s \in Sessoes : Vender(s)) /\ UNCHANGED <<osVars, nfeVars>>
  <2>1. PassoEstoque /\ PassoPedido(PedidosVenda, FasesVenda)
    BY <1>1, <1>4, VenderPasso
  <2>2. UNCHANGED nfeVars /\ TypeNfe' /\ TypeOS'
    BY <1>1, <1>4 DEF TypeNfe, nfeVars, TypeOS, osVars
  <2>3. PassoPedido(PedidosVenda, {"livre", "itens", "movendo"})
    BY <2>1, PassoFasesMaiores DEF FasesVenda
  <2>4. NfeConsistente'
    BY <1>1, <2>2, <2>3, NfeConsistenteMantida DEF PedidosVenda
  <2> QED
    BY <1>2, <2>1, <2>2, <2>4 DEF PedidosVenda, FasesVenda, Pedidos, Fases
<1>5. CASE NextNfe /\ UNCHANGED <<osVars, itemVenda>>
  <2> DEFINE Outros == PedidoOS \cup PedidoVenda
  <2>1. ContextoNfe(Outros)
    <3>1. Pedidos = PedidosNfe \cup Outros
      BY DEF Pedidos, PedidosNfe
    <3>2. Fases = FasesNfe \cup {"itens"}
      BY DEF Fases, FasesNfe
    <3> QED
      BY <1>1, <3>1, <3>2, PedidosSeparados DEF ContextoNfe, Misturados
  <2>2. PassoNfe
    BY <1>5, <2>1, ProximoNfe
  <2>3. TypeOS'
    BY <1>1, <1>5 DEF TypeOS, osVars
  <2> QED
    BY <1>2, <2>2, <2>3 DEF PassoNfe, PedidosNfe, FasesNfe, Pedidos, Fases
<1> QED
  BY <1>3, <1>4, <1>5 DEF Next

LEMMA TipoInicial ==
    Init => TypeOk
<1> SUFFICES ASSUME Init PROVE TypeOk
  OBVIOUS
<1>1. TypeEstoque /\ TypeOS
  BY InitTipado, InitOSTipado DEF Init
<1>2. /\ pedido = [s \in Sessoes |-> Livre] /\ fase = [s \in Sessoes |-> "livre"]
      /\ rascunho = [r \in Rascunhos |-> Livre] /\ entradas = {}
      /\ mapeamento = [c \in Codigos |-> Livre] /\ catalogo = CatalogoInicial
  BY DEF Init, InitEstoque, InitSessoes, InitNfe
<1>3. TypeNfe
  BY <1>2, RascunhoNfeAssumption, FS_EmptySet DEF TypeNfe
<1>4. NfeConsistente
  BY <1>2, PedidoNfeAssumption
  DEF NfeConsistente, SessaoNfe, Coerente, RascunhosDistintos, PedidoNfe
<1> QED
  BY <1>1, <1>2, <1>3, <1>4 DEF TypeOk

LEMMA TipoIndutivo ==
    TypeOk /\ [Next]_vars => TypeOk'
<1> SUFFICES ASSUME TypeOk, [Next]_vars PROVE TypeOk'
  OBVIOUS
<1>1. CASE Next
  BY <1>1, ProximoOficina
<1>2. CASE UNCHANGED vars
  BY <1>2 DEF TypeOk, TypeEstoque, TypeOS, TypeNfe, NfeConsistente, SessaoNfe, Coerente,
              RascunhosDistintos, Linhas, vars, estoqueVars, osVars, nfeVars, banco, memoria
<1> QED
  BY <1>1, <1>2

\* Every variable of the garage has its type and every session fits the drafts
\* it works on, whatever the products, documents, sessions and requests.
THEOREM Tipo == Spec => []TypeOk
<1>1. Init => TypeOk
  BY TipoInicial
<1>2. TypeOk /\ [Next]_vars => TypeOk'
  BY TipoIndutivo
<1> QED
  BY <1>1, <1>2, PTL DEF Spec

-----------------------------------------------------------------------------
(***************************************************************************)
(* Safety.                                                                 *)
(***************************************************************************)

\* What holds between the memories of the sessions and the committed rows.
Inv == /\ TypeOk /\ MemoriaConfere /\ TravaExclusiva
       /\ MemoriaExplicada /\ NegativoExplicado

LEMMA PassoOuParado ==
    ASSUME TypeOk, [Next]_vars
    PROVE  PassoEstoque \/ UNCHANGED estoqueVars
BY ProximoOficina DEF vars

LEMMA InvIndutivo ==
    Inv /\ [Next]_vars => Inv'
<1> SUFFICES ASSUME Inv, [Next]_vars PROVE Inv'
  OBVIOUS
<1>1. TypeOk' /\ TypeEstoque
  BY TipoIndutivo DEF Inv, TypeOk
<1>2. CASE PassoEstoque
  BY <1>1, <1>2, PassoMemoria, PassoTrava, PassoExplica DEF Inv
<1>3. CASE UNCHANGED estoqueVars
  BY <1>1, <1>3
  DEF Inv, MemoriaConfere, TravaExclusiva, MemoriaExplicada, ContasCrescem, Explicada,
      NegativoExplicado, estoqueVars, memoria, banco
<1> QED
  BY <1>2, <1>3, PassoOuParado DEF Inv

LEMMA InvInicial ==
    Init => Inv
BY TipoInicial, InitMemoria DEF Init, Inv

LEMMA InvSempre ==
    Spec => []Inv
<1>1. Init => Inv
  BY InvInicial
<1>2. Inv /\ [Next]_vars => Inv'
  BY InvIndutivo
<1> QED
  BY <1>1, <1>2, PTL DEF Spec

\* No two open transactions hold the lock of the same product row.
THEOREM Trava == Spec => []TravaExclusiva
<1>1. Inv => TravaExclusiva
  BY DEF Inv
<1> QED
  BY <1>1, InvSempre, PTL

\* Stock and trail move together, except through a read that another commit has
\* made stale: registrar_movimentacao is right about everything it has seen.
THEOREM SaldoETrilha == Spec => SaldoAcompanhaTrilha
<1>1. Inv /\ [Next]_vars => [\A p \in Produtos : SaldoAcompanha(p)]_estoqueVars
  <2> SUFFICES ASSUME Inv, [Next]_vars
               PROVE  (\A p \in Produtos : SaldoAcompanha(p)) \/ UNCHANGED estoqueVars
    OBVIOUS
  <2>1. TypeEstoque /\ MemoriaConfere /\ Sessoes \subseteq DOMAIN pedido
    BY DEF Inv, TypeOk
  <2>2. CASE PassoEstoque
    BY <2>1, <2>2, PassoSaldo
  <2> QED
    BY <2>2, PassoOuParado DEF Inv
<1> QED
  BY <1>1, InvSempre, PTL DEF Spec, SaldoAcompanhaTrilha

\* Only a negative ENTRADA or LIBERACAO takes a stock below zero, whatever the
\* payloads carry: the check of a reservation against a stale read still bounds
\* what is written.
THEOREM NegativoSoDevolvido == Spec => []NegativoExplicado
<1>1. Inv => NegativoExplicado
  BY DEF Inv
<1> QED
  BY <1>1, InvSempre, PTL

-----------------------------------------------------------------------------
(***************************************************************************)
(* One request at a time: no read is stale, and the trail is the stock.    *)
(***************************************************************************)
InvSerial == Inv /\ LeituraFresca /\ TrilhaFecha

\* With one session, the stock is what the sheet brought in plus the rows of the
\* trail, whatever mix of orders, sales and notes is served.
THEOREM TrilhaSerial ==
    ASSUME SessaoUnica
    PROVE  Spec => []TrilhaFecha
<1>1. Init => InvSerial
  BY InvInicial, InitTrilha DEF Init, InvSerial
<1>2. InvSerial /\ [Next]_vars => InvSerial'
  <2> SUFFICES ASSUME InvSerial, [Next]_vars PROVE InvSerial'
    OBVIOUS
  <2>1. Inv' /\ TypeEstoque /\ MemoriaConfere
    BY InvIndutivo DEF InvSerial, Inv, TypeOk
  <2>2. CASE PassoEstoque
    BY <2>1, <2>2, PassoFresco, PassoTrilha DEF InvSerial
  <2>3. CASE UNCHANGED estoqueVars
    BY <2>1, <2>3
    DEF InvSerial, LeituraFresca, LeituraVelha, TrilhaFecha, estoqueVars, memoria, banco
  <2> QED
    BY <2>2, <2>3, PassoOuParado DEF InvSerial, Inv
<1>3. InvSerial => TrilhaFecha
  BY DEF InvSerial
<1> QED
  BY <1>1, <1>2, <1>3, PTL DEF Spec

-----------------------------------------------------------------------------
(***************************************************************************)
(* Refinement: the garage is a ledger.                                     *)
(***************************************************************************)

\* A commit is one entry of the ledger, about the document it refers to.
LEMMA GravarLanca ==
    ASSUME TypeEstoque, MemoriaExplicada, NegativoExplicado',
           NEW s \in Sessoes, NEW ref \in Refs, Gravar(s, ref)
    PROVE  Livro!Lancar(ref)
<1>1. /\ estoque' = [p \in Produtos |->
                        IF p \in sujos[s] THEN atual[s][p] ELSE estoque[p]]
      /\ trilha' = SomarLinhas(trilha, linhas[s])
      /\ porRef' = [porRef EXCEPT ![ref] = SomarLinhas(@, linhas[s])]
  BY DEF Gravar
<1>2. /\ trilha \in [Produtos -> [Contas -> Int]] /\ linhas[s] \in [Produtos -> [Contas -> Int]]
      /\ porRef \in [Refs -> [Produtos -> [Contas -> Int]]]
      /\ estoque \in [Produtos -> Int]
  BY DEF TypeEstoque
<1>3. ASSUME NEW p \in Produtos, NEW c \in Contas
      PROVE  Livro!Novas(p, c) = linhas[s][p][c]
  <2>1. trilha'[p][c] = trilha[p][c] + linhas[s][p][c]
    BY <1>1, <1>2, SaldoSoma
  <2>2. trilha[p][c] \in Int /\ linhas[s][p][c] \in Int
    BY <1>2
  <2> QED
    BY <2>1, <2>2 DEF Livro!Novas
<1>4. Livro!Contas = Contas
  BY DEF Livro!Contas, Livro!Contagens, Contas, Tipos
<1>5. SomarLinhas(porRef[ref], linhas[s])
         = [p \in Produtos |-> [c \in Livro!Contas |-> porRef[ref][p][c] + Livro!Novas(p, c)]]
  BY <1>3, <1>4 DEF SomarLinhas
<1>6. \A p \in Produtos, c \in Livro!Contagens : Livro!Novas(p, c) >= 0
  BY <1>3 DEF MemoriaExplicada, ContasCrescem, Livro!Contagens, Contas
<1>7. ASSUME NEW p \in Produtos
      PROVE  /\ estoque'[p] # estoque[p] => Livro!Novas(p, "movimentos") > 0
             /\ Livro!Novas(p, "RESERVA") # 0 /\ Livro!Novas(p, "negativas") = 0
                   => estoque'[p] >= 0
             /\ estoque'[p] < 0 => trilha'[p]["negativas"] > 0
  <2>1. /\ Livro!Novas(p, "movimentos") = linhas[s][p]["movimentos"]
        /\ Livro!Novas(p, "RESERVA") = linhas[s][p]["RESERVA"]
        /\ Livro!Novas(p, "negativas") = linhas[s][p]["negativas"]
    BY <1>3 DEF Contas, Tipos
  <2>2. Explicada(s, p)
    BY DEF MemoriaExplicada
  <2>3. estoque'[p] = IF p \in sujos[s] THEN atual[s][p] ELSE estoque[p]
    BY <1>1
  <2>4. estoque'[p] # estoque[p] => Livro!Novas(p, "movimentos") > 0
    BY <2>1, <2>2, <2>3 DEF Explicada
  <2>5. Livro!Novas(p, "RESERVA") # 0 /\ Livro!Novas(p, "negativas") = 0 => estoque'[p] >= 0
    BY <2>1, <2>2, <2>3 DEF Explicada
  <2>6. estoque'[p] < 0 => trilha'[p]["negativas"] > 0
    BY DEF NegativoExplicado
  <2> QED
    BY <2>4, <2>5, <2>6
<1> QED
  BY <1>1, <1>5, <1>6, <1>7 DEF Livro!Lancar

LEMMA PassoLanca ==
    Inv /\ Inv' /\ [Next]_vars => [Livro!NextLivro]_(Livro!livro)
<1> SUFFICES ASSUME Inv, Inv', [Next]_vars, ~UNCHANGED banco
             PROVE  Livro!NextLivro
  BY DEF banco, Livro!livro
<1>1. TypeEstoque /\ MemoriaExplicada /\ NegativoExplicado' /\ TypeOk
  BY DEF Inv, TypeOk
<1>2. PassoEstoque
  BY <1>1, PassoOuParado DEF estoqueVars
<1>3. PICK s \in Sessoes, ref \in Refs : Gravar(s, ref)
  BY <1>2 DEF PassoEstoque, RegistrarMovimentacao, Travar
<1> QED
  BY <1>1, <1>3, GravarLanca DEF Livro!NextLivro

\* The garage implements the ledger: what becomes visible in the stock and the
\* trail is a sequence of whole requests, each about one document, whatever
\* quantities they carry.
THEOREM OficinaImplementaLivro == Spec => LivroSpec
<1>1. Init => Livro!InitLivro
  BY DEF Init, InitEstoque, SemLinhas, Contas, Tipos, Livro!InitLivro, Livro!Contas,
         Livro!Contagens
<1>2. Inv /\ Inv' /\ [Next]_vars => [Livro!NextLivro]_(Livro!livro)
  BY PassoLanca
<1> QED
  BY <1>1, <1>2, InvSempre, PTL DEF Spec, LivroSpec, Livro!SpecLivro

-----------------------------------------------------------------------------
(***************************************************************************)
(* Documents: the rows of orders, sales and notes add up to their lines,   *)
(* whatever the sessions of the other services do in between.              *)
(***************************************************************************)

\* A request is of one of the three services.
LEMMA ServicosSeparados ==
    /\ PedidoOS \cap PedidoVenda = {} /\ PedidoOS \cap PedidoNfe = {}
    /\ PedidoVenda \cap PedidoNfe = {}
    /\ Livre \notin PedidoOS \cup PedidoVenda \cup PedidoNfe
    /\ \A p \in Pedidos : p # Livre /\ p.op = "venda" => p \in PedidoVenda
<1>1. \A p \in PedidoVenda : p.op = "venda"
  BY DEF PedidoVenda
<1>2. \A p \in PedidoOS : p.op \in {"adicionar", "remover", "status", "fechar", "cancelar"}
  BY DEF PedidoOS, PedidoItem, PedidoStatus, PedidoFim
<1>3. \A p \in PedidoNfe : p.op \in {"rascunho", "vincular", "novo", "confirmar",
                                     "descartar", "processar"}
  BY DEF PedidoNfe, PedidoCriar, PedidoVincular, PedidoConfirmar, PedidoDescartar,
         PedidoProcessar
<1>4. \A p \in PedidoOS \cup PedidoVenda : p \notin PedidoNfe
  BY PedidoAlheio
<1> QED
  BY <1>1, <1>2, <1>3, <1>4, PedidoOSAssumption, PedidoVendaAssumption, PedidoNfeAssumption
  DEF Pedidos

LEMMA Contextos ==
    ASSUME TypeOk, Paradas
    PROVE  /\ ContextoOS(PedidoVenda \cup PedidoNfe)
           /\ ContextoNfe(PedidoOS \cup PedidoVenda)
           /\ Dominios
<1>1. PedidosTipados(PedidoVenda \cup PedidoNfe)
  BY DEF TypeOk, PedidosTipados, PedidosOS
<1>3. Misturados(PedidoOS \cup PedidoVenda)
  <2>1. PedidosNfe \cup (PedidoOS \cup PedidoVenda)
           = PedidoOS \cup PedidoVenda \cup PedidoNfe \cup {Livre}
    BY DEF PedidosNfe
  <2> QED
    BY <2>1 DEF TypeOk, Misturados
<1>4. /\ FasesOS \cup {"casando", "lendo", "entrada"} = Fases
      /\ FasesNfe \cup {"itens"} = Fases
  BY DEF Fases, FasesOS, FasesNfe
<1>5. fase \in [Sessoes -> Fases]
  BY DEF TypeOk, Fases
<1> QED
  BY <1>1, <1>3, <1>4, <1>5, PedidosSeparados
  DEF TypeOk, ContextoOS, ContextoNfe, Dominios

\* The movements of a sale.
PlanoVenda(c) ==
    {[item |-> i, prod |-> c[i].prod, tipos |-> {"RESERVA", "SAIDA"}, qtd |-> c[i].qtd]
        : i \in DOMAIN c}

\* What a sale has added so far is the lines it has gone through.
VendaContada(s) ==
    /\ fase[s] = "movendo"
    /\ Contado(fila[s], linhas[s], PlanoVenda(pedido[s].carrinho))

VendasContadas == \A s \in Sessoes : pedido[s] \in PedidoVenda => VendaContada(s)

LEMMA PlanoVendaTipado ==
    ASSUME NEW c \in Carrinhos
    PROVE  LET mov == [i \in DOMAIN c |-> [item |-> i, prod |-> c[i].prod,
                                           tipos |-> {"RESERVA", "SAIDA"}, qtd |-> c[i].qtd]]
           IN  /\ PlanoVenda(c) = {mov[i] : i \in DOMAIN c}
               /\ \A i \in DOMAIN c : mov[i] \in Movimento
               /\ IsFiniteSet(DOMAIN c)
               /\ PlanoVenda(c) \in SUBSET Movimento /\ IsFiniteSet(PlanoVenda(c))
<1> DEFINE I == DOMAIN c
           mov == [i \in I |-> [item |-> i, prod |-> c[i].prod,
                                tipos |-> {"RESERVA", "SAIDA"}, qtd |-> c[i].qtd]]
<1>1. PlanoVenda(c) = {mov[i] : i \in I}
  BY DEF PlanoVenda
<1>2. PlanoVenda(c) \subseteq Movimento
  BY LinhasTipadas DEF PlanoVenda
<1>3. IsFiniteSet(I)
  <2>1. PICK L \in (SUBSET Itens) \ {{}} : c \in [L -> LinhaVenda]
    BY DEF Carrinhos
  <2> QED
    BY <2>1, FinitosAssumption, FS_Subset
<1> HIDE DEF mov, I
<1>4. IsFiniteSet({mov[i] : i \in I})
  BY <1>3, ImagemFinita
<1>5. \A i \in I : mov[i] \in Movimento
  BY <1>1, <1>2
<1> QED
  BY <1>1, <1>2, <1>3, <1>4, <1>5 DEF mov, I

\* A step that starts no sale.
LEMMA VendasSeguem ==
    ASSUME TypeEstoque, VendasContadas, NEW P, P \cap PedidoVenda = {}, PassoSessoes(P)
    PROVE  VendasContadas'
<1> SUFFICES ASSUME NEW s \in Sessoes, pedido'[s] \in PedidoVenda
             PROVE  VendaContada(s)'
  BY DEF VendasContadas
<1>1. Continua(s) /\ pedido'[s] = pedido[s] /\ fase'[s] = fase[s] /\ pedido[s] \in PedidoVenda
  BY SessaoSegue, PedidoVendaAssumption DEF Continua
<1>2. PICK c \in Carrinhos : c = pedido[s].carrinho
  BY <1>1 DEF PedidoVenda
<1>3. fase[s] = "movendo" /\ Contado(fila[s], linhas[s], PlanoVenda(c))
  BY <1>1, <1>2 DEF VendasContadas, VendaContada
<1>4. PlanoVenda(c) \in SUBSET Movimento /\ IsFiniteSet(PlanoVenda(c))
  BY PlanoVendaTipado
<1>5. Contado(fila'[s], linhas'[s], PlanoVenda(c))
  BY <1>1, <1>3, <1>4, ContadoContinua
<1> QED
  BY <1>1, <1>2, <1>3, <1>5 DEF VendaContada

\* The steps of VendasService.
LEMMA CriarVendaSessoes ==
    ASSUME TypeEstoque, Paradas, Dominios, VendasContadas,
           NEW s \in Sessoes, NEW c \in Carrinhos, CriarVenda(s, c)
    PROVE  PassoSessoes(PedidoVenda) /\ VendasContadas' /\ UNCHANGED <<porRef, itemVenda>>
<1> DEFINE ped == [op |-> "venda", carrinho |-> c]
           M == PlanoVenda(c)
<1>1. Iniciar(s, ped, "movendo", M) /\ UNCHANGED <<porRef, itemVenda>>
  BY DEF CriarVenda, PlanoVenda, Iniciar, banco
<1>2. ped \in PedidoVenda /\ ped.carrinho = c
  BY DEF PedidoVenda
<1> HIDE DEF ped, M
<1>3. /\ PassoSessoes(PedidoVenda)
      /\ pedido'[s] = ped /\ fase'[s] = "movendo" /\ fila'[s] = M /\ linhas'[s] = SemLinhas
      /\ \A u \in Sessoes \ {s} : /\ pedido'[u] = pedido[u] /\ fase'[u] = fase[u]
                                  /\ fila'[u] = fila[u] /\ linhas'[u] = linhas[u]
  BY <1>1, <1>2, IniciarSessoes
<1>4. Contado(fila'[s], linhas'[s], M)
  BY <1>3, ContadoInicio
<1>5. VendaContada(s)'
  BY <1>2, <1>3, <1>4 DEF VendaContada, M
<1>6. ASSUME NEW u \in Sessoes \ {s}, pedido'[u] \in PedidoVenda
      PROVE  VendaContada(u)'
  BY <1>3, <1>6 DEF VendasContadas, VendaContada
<1> QED
  BY <1>1, <1>3, <1>5, <1>6 DEF VendasContadas

LEMMA ConcluirVendaSessoes ==
    ASSUME TypeEstoque, TypeVendas, Dominios, VendasContadas, VendaInteira,
           NEW s \in Sessoes, pedido[s] \in PedidoVenda, ConcluirVenda(s)
    PROVE  /\ PassoSessoes({}) /\ PassoRefs({Balcao})
           /\ VendasContadas' /\ VendaInteira' /\ TypeVendas'
<1>1. PICK c \in Carrinhos : c = pedido[s].carrinho
  BY DEF PedidoVenda
<1> DEFINE I == DOMAIN c
           f == [i \in I |-> c[i].qtd]
           mov == [i \in I |-> [item |-> i, prod |-> c[i].prod,
                                tipos |-> {"RESERVA", "SAIDA"}, qtd |-> c[i].qtd]]
           De(p) == {i \in I : mov[i].prod = p}
<1>2. /\ PassoSessoes({}) /\ PassoRefs({Balcao}) /\ fila[s] = {}
      /\ \A p \in Produtos, t \in Tipos :
            porRef'[Balcao][p][t] = porRef[Balcao][p][t] + linhas[s][p][t]
  BY VendasAssumption, GravarSessoes DEF ConcluirVenda
<1>3. /\ PlanoVenda(c) = {mov[i] : i \in I} /\ IsFiniteSet(I)
      /\ \A i \in I : mov[i] \in Movimento
  BY PlanoVendaTipado
<1>4. Contado(fila[s], linhas[s], PlanoVenda(c))
  BY <1>1 DEF VendasContadas, VendaContada
<1>5. \A i \in I : /\ mov[i].item = i /\ mov[i].prod = c[i].prod
                   /\ mov[i].tipos = {"RESERVA", "SAIDA"} /\ f[i] = mov[i].qtd
  OBVIOUS
<1>6. \A q \in Produtos : itemVenda'[q] = itemVenda[q]
         + SumFunctionOnSet(f, {i \in I : c[i].prod = q})
  BY <1>1 DEF ConcluirVenda
<1>7. itemVenda' = [q \in Produtos |-> itemVenda[q]
         + SumFunctionOnSet(f, {i \in I : c[i].prod = q})]
  BY <1>1 DEF ConcluirVenda
<1>8. \A q : {i \in I : c[i].prod = q} = De(q)
  BY <1>5
<1> HIDE DEF I, f, mov
<1>9. ASSUME NEW p \in Produtos, NEW t \in {"RESERVA", "SAIDA"}
      PROVE  linhas[s][p][t] = SumFunctionOnSet(f, De(p))
  <2>1. linhas[s][p][t] = Total({mov[i] : i \in I}, p, t)
    BY <1>2, <1>3, <1>4, ContadoInteiro DEF Tipos
  <2>2. \A i \in I : mov[i] \in Movimento /\ mov[i].item = i /\ t \in mov[i].tipos
    BY <1>3, <1>5
  <2>3. Total({mov[i] : i \in I}, p, t) = SumFunctionOnSet(f, De(p))
    BY <1>3, <1>5, <2>2, TotalDoPlano
  <2> QED
    BY <2>1, <2>3
<1>10. ASSUME NEW p \in Produtos
       PROVE  SumFunctionOnSet(f, De(p)) \in Int
  <2>1. linhas[s][p]["SAIDA"] \in Int
    BY TiposDeContas DEF TypeEstoque, Tipos
  <2> QED
    BY <1>9, <2>1
<1>11. ASSUME NEW p \in Produtos
       PROVE  itemVenda'[p] = itemVenda[p] + SumFunctionOnSet(f, De(p))
  <2>1. {i \in I : c[i].prod = p} = De(p)
    BY <1>8
  <2> QED
    BY <1>6, <2>1
<1>12. ASSUME NEW p \in Produtos, NEW t \in {"RESERVA", "SAIDA"}
       PROVE  porRef'[Balcao][p][t] = itemVenda'[p]
  <2>1. porRef[Balcao][p][t] = itemVenda[p]
    BY DEF VendaInteira
  <2>2. porRef'[Balcao][p][t] = porRef[Balcao][p][t] + linhas[s][p][t]
    BY <1>2 DEF Tipos
  <2> HIDE DEF De
  <2> QED
    BY <1>9, <1>11, <2>1, <2>2
<1>14. VendaInteira'
  BY <1>12 DEF VendaInteira
<1>15. TypeVendas'
  <2>1. ASSUME NEW q \in Produtos
        PROVE  itemVenda'[q] \in Int
    <3>1. itemVenda[q] \in Int
      BY DEF TypeVendas
    <3> HIDE DEF De
    <3> QED
      BY <1>10, <1>11, <3>1
  <2>2. itemVenda' = [q \in Produtos |-> itemVenda'[q]]
    BY <1>7
  <2> QED
    BY <2>1, <2>2 DEF TypeVendas
<1>13. VendasContadas'
  BY <1>2, VendasSeguem
<1> QED
  BY <1>2, <1>13, <1>14, <1>15

\* What the sessions have added so far is part of the document they work on, and
\* the rows of every document are its lines.
InvDocumentos ==
    /\ TypeOk /\ TypeVendas /\ Paradas
    /\ SessoesReserva /\ ReservaConfere
    /\ VendasContadas /\ VendaInteira
    /\ SessoesEntrada /\ InvEntradas

\* A step that leaves the rows of the counter sales alone.
LEMMA VendaParada ==
    ASSUME VendaInteira, TypeVendas, UNCHANGED itemVenda, NEW R, R \subseteq Refs \ {Balcao},
           PassoRefs(R)
    PROVE  VendaInteira' /\ TypeVendas'
<1>1. porRef'[Balcao] = porRef[Balcao]
  BY VendasAssumption DEF PassoRefs
<1> QED
  BY <1>1 DEF VendaInteira, TypeVendas

LEMMA NotasParadas ==
    ASSUME TypeNfe', InvEntradas, UNCHANGED nfeVars, NEW R, R \cap Rascunhos = {}, PassoRefs(R)
    PROVE  Evolui /\ InvEntradas'
<1>1. rascunho' = rascunho /\ entradas' = entradas
  BY DEF nfeVars
<1>2. Evolui
  BY <1>1 DEF Evolui
<1>3. \A r \in Rascunhos : porRef'[r] = porRef[r]
  BY RascunhoNfeAssumption DEF PassoRefs
<1> QED
  BY <1>1, <1>2, <1>3, EntradasParadas

LEMMA DocumentosOS ==
    ASSUME InvDocumentos, TypeOk', NextOS, UNCHANGED <<itemVenda, nfeVars>>
    PROVE  InvDocumentos'
<1>1. /\ TypeOk /\ TypeVendas /\ Paradas /\ SessoesReserva /\ ReservaConfere
      /\ VendasContadas /\ VendaInteira /\ SessoesEntrada /\ InvEntradas
      /\ TypeEstoque /\ TypeNfe /\ TypeNfe' /\ NfeConsistente
  BY DEF InvDocumentos, TypeOk
<1>2. ContextoOS(PedidoVenda \cup PedidoNfe)
  BY <1>1, Contextos
<1>3. PassoSessoes(PedidoOS) /\ PassoRefs(OSs)
  BY <1>2, SessoesOS
<1>4. SessoesReserva' /\ ReservaConfere'
  BY <1>1, <1>2, ProximoReserva
<1>5. Paradas'
  BY <1>1, <1>3, ParadasSeguem, ServicosSeparados
<1>6. VendasContadas'
  BY <1>1, <1>3, VendasSeguem, ServicosSeparados
<1>7. VendaInteira' /\ TypeVendas'
  BY <1>1, <1>3, VendaParada, OficinaAssumption, OrdemServicoAssumption
<1>8. Evolui /\ InvEntradas'
  BY <1>1, <1>3, NotasParadas, OficinaAssumption
<1>9. SessoesEntrada'
  BY <1>1, <1>3, <1>8, EntradasSeguem, ServicosSeparados
<1> QED
  BY <1>4, <1>5, <1>6, <1>7, <1>8, <1>9 DEF InvDocumentos

LEMMA VenderSessoes ==
    ASSUME InvDocumentos, NEW s \in Sessoes, Vender(s)
    PROVE  /\ PassoSessoes(PedidoVenda) /\ PassoRefs({Balcao})
           /\ VendasContadas' /\ VendaInteira' /\ TypeVendas'
<1>1. /\ TypeOk /\ TypeVendas /\ Paradas /\ VendasContadas /\ VendaInteira /\ TypeEstoque
      /\ pedido[s] \in Pedidos
  BY DEF InvDocumentos, TypeOk, Pedidos
<1>2. Dominios
  BY <1>1, Contextos
<1>3. ASSUME NEW carrinho \in Carrinhos, CriarVenda(s, carrinho)
      PROVE  /\ PassoSessoes(PedidoVenda) /\ PassoRefs({Balcao})
             /\ VendasContadas' /\ VendaInteira' /\ TypeVendas'
  <2>1. /\ PassoSessoes(PedidoVenda) /\ VendasContadas'
        /\ UNCHANGED porRef /\ UNCHANGED itemVenda
    BY <1>1, <1>2, <1>3, CriarVendaSessoes
  <2> QED
    BY <1>1, <2>1 DEF PassoRefs, VendaInteira, TypeVendas
<1>4. ASSUME ConcluirVenda(s)
      PROVE  /\ PassoSessoes(PedidoVenda) /\ PassoRefs({Balcao})
             /\ VendasContadas' /\ VendaInteira' /\ TypeVendas'
  <2>1. pedido[s] \in PedidoVenda
    BY <1>1, <1>4, ServicosSeparados DEF ConcluirVenda
  <2>2. /\ PassoSessoes({}) /\ PassoRefs({Balcao})
        /\ VendasContadas' /\ VendaInteira' /\ TypeVendas'
    BY <1>1, <1>2, <1>4, <2>1, ConcluirVendaSessoes
  <2>3. PassoSessoes(PedidoVenda)
    BY <2>2 DEF PassoSessoes, Prepara, Anota
  <2> QED
    BY <2>2, <2>3
<1> QED
  BY <1>3, <1>4 DEF Vender

LEMMA DocumentosVenda ==
    ASSUME InvDocumentos, TypeOk', NEW s \in Sessoes, Vender(s), UNCHANGED <<osVars, nfeVars>>
    PROVE  InvDocumentos'
<1>1. /\ TypeOk /\ Paradas /\ SessoesReserva /\ ReservaConfere /\ SessoesEntrada /\ InvEntradas
      /\ TypeEstoque /\ TypeNfe /\ TypeNfe' /\ NfeConsistente
  BY DEF InvDocumentos, TypeOk
<1>2. /\ PassoSessoes(PedidoVenda) /\ PassoRefs({Balcao})
      /\ VendasContadas' /\ VendaInteira' /\ TypeVendas'
  BY VenderSessoes
<1>3. PassoRefs(Refs \ OSs) /\ {Balcao} \cap Rascunhos = {}
  BY <1>2, OficinaAssumption, OrdemServicoAssumption DEF PassoRefs
<1>4. SessoesReserva' /\ ReservaConfere'
  BY <1>1, <1>2, <1>3, AlheioReserva, ServicosSeparados DEF osVars
<1>5. Paradas'
  BY <1>1, <1>2, ParadasSeguem, ServicosSeparados
<1>6. Evolui /\ InvEntradas'
  BY <1>1, <1>2, <1>3, NotasParadas
<1>7. SessoesEntrada'
  BY <1>1, <1>2, <1>6, EntradasSeguem, ServicosSeparados
<1> QED
  BY <1>2, <1>4, <1>5, <1>6, <1>7 DEF InvDocumentos

LEMMA DocumentosNfe ==
    ASSUME InvDocumentos, TypeOk', NextNfe, UNCHANGED <<osVars, itemVenda>>
    PROVE  InvDocumentos'
<1>1. /\ TypeOk /\ TypeVendas /\ Paradas /\ SessoesReserva /\ ReservaConfere
      /\ VendasContadas /\ VendaInteira /\ SessoesEntrada /\ InvEntradas /\ TypeEstoque
  BY DEF InvDocumentos, TypeOk
<1>2. ContextoNfe(PedidoOS \cup PedidoVenda)
  BY <1>1, Contextos
<1>3. PassoSessoes(PedidoNfe) /\ PassoRefs(Rascunhos) /\ SessoesEntrada' /\ InvEntradas'
  BY <1>1, <1>2, SessoesNfe, ProximoEntradas
<1>4. PassoRefs(Refs \ OSs) /\ Rascunhos \subseteq Refs \ {Balcao}
  BY <1>3, OficinaAssumption, RascunhoNfeAssumption DEF PassoRefs
<1>5. SessoesReserva' /\ ReservaConfere'
  BY <1>1, <1>3, <1>4, AlheioReserva, ServicosSeparados DEF osVars
<1>6. Paradas'
  BY <1>1, <1>3, ParadasSeguem, ServicosSeparados
<1>7. VendasContadas'
  BY <1>1, <1>3, VendasSeguem, ServicosSeparados
<1>8. VendaInteira' /\ TypeVendas'
  BY <1>1, <1>3, <1>4, VendaParada
<1> QED
  BY <1>3, <1>5, <1>6, <1>7, <1>8 DEF InvDocumentos

LEMMA DocumentosParados ==
    ASSUME InvDocumentos, TypeOk', UNCHANGED vars
    PROVE  InvDocumentos'
<1>1. /\ TypeOk /\ TypeVendas /\ Paradas /\ SessoesReserva /\ ReservaConfere
      /\ VendasContadas /\ VendaInteira /\ SessoesEntrada /\ InvEntradas
      /\ TypeEstoque /\ TypeNfe /\ TypeNfe' /\ NfeConsistente
  BY DEF InvDocumentos, TypeOk
<1>2. /\ UNCHANGED <<pedido, fase, fila, linhas, porRef, itens, itemVenda>>
      /\ UNCHANGED itemVenda /\ UNCHANGED nfeVars
  BY DEF vars, estoqueVars, banco, memoria, osVars
<1>3. PassoSessoes({}) /\ PassoRefs({}) /\ PassoRefs(Refs \ OSs)
  BY <1>2, SessoesIguais DEF PassoRefs
<1>4. SessoesReserva' /\ ReservaConfere'
  BY <1>1, <1>2, <1>3, AlheioReserva
<1>5. Paradas' /\ VendasContadas'
  BY <1>1, <1>3, ParadasSeguem, VendasSeguem
<1>6. VendaInteira' /\ TypeVendas'
  BY <1>1, <1>2, <1>3, VendaParada
<1>7. Evolui /\ InvEntradas'
  BY <1>1, <1>2, <1>3, NotasParadas
<1>8. SessoesEntrada'
  BY <1>1, <1>3, <1>7, EntradasSeguem
<1> QED
  BY <1>4, <1>5, <1>6, <1>7, <1>8 DEF InvDocumentos

LEMMA DocumentosInicio ==
    Init => InvDocumentos
<1> SUFFICES ASSUME Init PROVE InvDocumentos
  OBVIOUS
<1>1. TypeOk /\ Paradas /\ SessoesReserva /\ ReservaConfere /\ SessoesEntrada /\ InvEntradas
  BY TipoInicial, ParadasInicio, ReservaInicio, EntradasInicio DEF Init, InitOrdem
<1>2. VendasContadas
  BY ServicosSeparados DEF Init, InitEstoque, InitSessoes, VendasContadas
<1>3. TypeVendas /\ \A p \in Produtos : itemVenda[p] = 0
  BY DEF Init, InitVendas, TypeVendas
<1>4. \A p \in Produtos, t \in Tipos : porRef[Balcao][p][t] = 0
  BY VendasAssumption, TiposDeContas DEF Init, InitEstoque, SemLinhas
<1>5. VendaInteira
  BY <1>3, <1>4 DEF VendaInteira, Tipos
<1> QED
  BY <1>1, <1>2, <1>3, <1>5 DEF InvDocumentos

LEMMA DocumentosIndutivo ==
    InvDocumentos /\ [Next]_vars => InvDocumentos'
<1> SUFFICES ASSUME InvDocumentos, [Next]_vars PROVE InvDocumentos'
  OBVIOUS
<1>1. TypeOk'
  BY TipoIndutivo DEF InvDocumentos
<1>2. CASE NextOS /\ UNCHANGED <<itemVenda, nfeVars>>
  BY <1>1, <1>2, DocumentosOS
<1>3. CASE (\E s \in Sessoes : Vender(s)) /\ UNCHANGED <<osVars, nfeVars>>
  BY <1>1, <1>3, DocumentosVenda
<1>4. CASE NextNfe /\ UNCHANGED <<osVars, itemVenda>>
  BY <1>1, <1>4, DocumentosNfe
<1>5. CASE UNCHANGED vars
  BY <1>1, <1>5, DocumentosParados
<1> QED
  BY <1>2, <1>3, <1>4, <1>5 DEF Next

LEMMA DocumentosSempre ==
    Spec => []InvDocumentos
<1>1. Init => InvDocumentos
  BY DocumentosInicio
<1>2. InvDocumentos /\ [Next]_vars => InvDocumentos'
  BY DocumentosIndutivo
<1> QED
  BY <1>1, <1>2, PTL DEF Spec

\* No part is on an order without its reservation: the lines of an order for a
\* product add up to the RESERVA rows of this order, whatever the races, the
\* refusals and the deadlocks between the insert of a line and its commit.
THEOREM LinhasReservadas == Spec => []ItemTemReserva
<1>1. InvDocumentos => ItemTemReserva
  <2> SUFFICES ASSUME InvDocumentos, NEW o \in OSs, NEW p \in Produtos
               PROVE  QuantidadeNaOS(o, p) <= porRef[o][p]["RESERVA"]
    BY DEF ItemTemReserva
  <2>1. QuantidadeNaOS(o, p) = porRef[o][p]["RESERVA"]
    BY DEF InvDocumentos, ReservaConfere
  <2>2. porRef[o][p]["RESERVA"] \in Int
    BY OrdemServicoAssumption, TiposDeContas DEF InvDocumentos, TypeOk, TypeEstoque, Tipos
  <2> QED
    BY <2>1, <2>2
<1> QED
  BY <1>1, DocumentosSempre, PTL

\* A counter sale is recorded whole or not at all: what the committed sales say
\* was sold of a product is what they reserved of it and what they took out.
THEOREM VendasInteiras == Spec => []VendaInteira
<1>1. InvDocumentos => VendaInteira
  BY DEF InvDocumentos
<1> QED
  BY <1>1, DocumentosSempre, PTL

\* The note also enters whole when orders and sales share its product rows.
THEOREM NotasNaOficina == Spec => []NotaEntraInteira
<1>1. InvDocumentos => NotaEntraInteira
  BY NotaPorPartes DEF InvDocumentos, InvEntradas
<1> QED
  BY <1>1, DocumentosSempre, PTL

\* Closing an order and recording it in the history stay one transaction when
\* sales and notes run beside it.
THEOREM HistoricoDaOficina == Spec => []FechadaTemHistorico
<1>1. Init => FechadaTemHistorico
  BY HistoricoInicial DEF Init
<1>2. InvDocumentos /\ FechadaTemHistorico /\ [Next]_vars => FechadaTemHistorico'
  <2> SUFFICES ASSUME InvDocumentos, FechadaTemHistorico, [Next]_vars
               PROVE  FechadaTemHistorico'
    OBVIOUS
  <2>1. ContextoOS(PedidoVenda \cup PedidoNfe)
    BY Contextos DEF InvDocumentos
  <2>2. CASE NextOS
    BY <2>1, <2>2, HistoricoIndutivo DEF ContextoOS
  <2>3. CASE UNCHANGED osVars
    BY <2>3, HistoricoParado
  <2> QED
    BY <2>2, <2>3 DEF Next, vars
<1> QED
  BY <1>1, <1>2, DocumentosSempre, PTL DEF Spec

-----------------------------------------------------------------------------
(***************************************************************************)
(* The keys and the lines of the notes.                                    *)
(***************************************************************************)
LEMMA ChavesIndutivo ==
    InvDocumentos /\ InvNfe /\ [Next]_vars => InvNfe'
<1> SUFFICES ASSUME InvDocumentos, InvNfe, [Next]_vars PROVE InvNfe'
  OBVIOUS
<1>1. TypeOk /\ Paradas /\ NfeConsistente
  BY DEF InvDocumentos, TypeOk
<1>2. /\ ContextoOS(PedidoVenda \cup PedidoNfe)
      /\ ContextoNfe(PedidoOS \cup PedidoVenda)
  BY <1>1, Contextos
<1>3. ASSUME NEW P, P \cap PedidoNfe = {}, PassoSessoes(P), UNCHANGED nfeVars
      PROVE  InvNfe'
  <2>1. PedidoConfirmar \subseteq PedidoNfe /\ Livre \notin PedidoConfirmar
    BY PedidoNfeAssumption DEF PedidoNfe
  <2>2. ConfirmacoesSeguem
    BY <1>3, <2>1, SessaoSegue DEF ConfirmacoesSeguem, Continua
  <2> QED
    BY <1>1, <1>3, <2>2, NfeParadaInv
<1>4. CASE NextOS /\ UNCHANGED <<itemVenda, nfeVars>>
  BY <1>2, <1>3, <1>4, SessoesOS, ServicosSeparados
<1>5. CASE (\E s \in Sessoes : Vender(s)) /\ UNCHANGED <<osVars, nfeVars>>
  BY <1>1, <1>3, <1>5, VenderSessoes, ServicosSeparados
<1>6. CASE NextNfe /\ UNCHANGED <<osVars, itemVenda>>
  BY <1>2, <1>6, ProximoInvNfe
<1>7. CASE UNCHANGED vars
  <2>1. UNCHANGED <<pedido, fase, fila, linhas>> /\ UNCHANGED nfeVars
    BY <1>7 DEF vars, estoqueVars, banco, memoria
  <2>2. PassoSessoes({}) /\ {} \cap PedidoNfe = {}
    BY <2>1, SessoesIguais
  <2> QED
    BY <1>3, <2>1, <2>2
<1> QED
  BY <1>4, <1>5, <1>6, <1>7 DEF Next

LEMMA ChavesSempre ==
    Spec => []InvNfe
<1>1. Init => InvNfe
  BY InvNfeInicial DEF Init
<1>2. InvDocumentos /\ InvNfe /\ [Next]_vars => InvNfe'
  BY ChavesIndutivo
<1> QED
  BY <1>1, <1>2, DocumentosSempre, PTL DEF Spec

\* No key enters the stock twice in the whole garage.
THEOREM ChaveNaOficina == Spec => []ChaveEntraUmaVez
<1>1. InvNfe => ChaveEntraUmaVez
  BY DEF InvNfe
<1> QED
  BY <1>1, ChavesSempre, PTL

\* In the whole garage no draft is confirmed with a line that has no product.
THEOREM LigadaNaOficina == Spec => []ConfirmadaSemPendente
<1> QED
  BY LigadosSemPendente, ChavesSempre, PTL

-----------------------------------------------------------------------------
(***************************************************************************)
(* Documents, one request at a time: what a handler has read of an order   *)
(* or of a draft still holds when it commits.                              *)
(***************************************************************************)
InvUmPedido == InvDocumentos /\ PedidosAtuais /\ InvNfeSerial

\* What a step of each service does to the sessions and to the documents.
LEMMA UmPedidoOS ==
    ASSUME SessaoUnica, InvDocumentos, PedidosAtuais, InvNfeSerial,
           NextOS, UNCHANGED <<itemVenda, nfeVars>>
    PROVE  PedidosAtuais' /\ InvNfeSerial' /\ FinalFica
<1>1. TypeOk /\ Paradas
  BY DEF InvDocumentos
<1>2. ContextoOS(PedidoVenda \cup PedidoNfe)
  BY <1>1, Contextos
<1>3. PassoSessoes(PedidoOS) /\ PassoRefs(OSs) /\ rascunho' = rascunho
  BY <1>2, SessoesOS DEF nfeVars
<1>4. PedidosAtuais' /\ FinalFica
  BY <1>2, ProximoAtual
<1>5. InvNfeSerial'
  BY <1>3, AlheioVale, ServicosSeparados, OficinaAssumption
<1> QED
  BY <1>4, <1>5

LEMMA UmPedidoVenda ==
    ASSUME InvDocumentos, PedidosAtuais, InvNfeSerial, NEW s \in Sessoes, Vender(s),
           UNCHANGED <<osVars, nfeVars>>
    PROVE  /\ PedidosAtuais' /\ InvNfeSerial' /\ FinalFica
           /\ Liberadas => Liberadas'
<1>1. PassoSessoes(PedidoVenda) /\ PassoRefs({Balcao})
  BY VenderSessoes
<1>2. PassoRefs(Refs \ OSs) /\ {Balcao} \cap Rascunhos = {}
  BY <1>1, OficinaAssumption, OrdemServicoAssumption DEF PassoRefs
<1>3. os' = os /\ itens' = itens /\ rascunho' = rascunho
  BY DEF osVars, nfeVars
<1>4. TypeEstoque /\ TypeOS
  BY DEF InvDocumentos, TypeOk
<1>5. PedidosAtuais' /\ FinalFica /\ (Liberadas => Liberadas')
  BY <1>1, <1>2, <1>3, <1>4, AlheioAtual, ServicosSeparados
<1>6. InvNfeSerial'
  BY <1>1, <1>2, <1>3, AlheioVale, ServicosSeparados
<1> QED
  BY <1>5, <1>6

LEMMA UmPedidoNfe ==
    ASSUME SessaoUnica, InvDocumentos, PedidosAtuais, InvNfeSerial,
           NextNfe, UNCHANGED <<osVars, itemVenda>>
    PROVE  /\ PedidosAtuais' /\ InvNfeSerial' /\ FinalFica
           /\ Liberadas => Liberadas'
<1>1. TypeOk /\ Paradas /\ SessoesEntrada /\ TypeEstoque /\ TypeOS
  BY DEF InvDocumentos, TypeOk
<1>2. ContextoNfe(PedidoOS \cup PedidoVenda)
  BY <1>1, Contextos
<1>3. PassoSessoes(PedidoNfe) /\ PassoRefs(Rascunhos) /\ InvNfeSerial'
  BY <1>1, <1>2, SessoesNfe, ProximoVale
<1>4. PassoRefs(Refs \ OSs) /\ os' = os /\ itens' = itens
  BY <1>3, OficinaAssumption DEF PassoRefs, osVars
<1>5. PedidosAtuais' /\ FinalFica /\ (Liberadas => Liberadas')
  BY <1>1, <1>3, <1>4, AlheioAtual, ServicosSeparados
<1> QED
  BY <1>3, <1>5

LEMMA UmPedidoParado ==
    ASSUME InvDocumentos, PedidosAtuais, InvNfeSerial, UNCHANGED vars
    PROVE  /\ PedidosAtuais' /\ InvNfeSerial' /\ FinalFica
           /\ Liberadas => Liberadas'
<1>1. /\ UNCHANGED <<pedido, fase, fila, linhas, porRef>>
      /\ os' = os /\ itens' = itens /\ rascunho' = rascunho
  BY DEF vars, estoqueVars, banco, memoria, osVars, nfeVars
<1>2. PassoSessoes({}) /\ PassoRefs({}) /\ PassoRefs(Refs \ OSs)
  BY <1>1, SessoesIguais DEF PassoRefs
<1>3. TypeEstoque /\ TypeOS
  BY DEF InvDocumentos, TypeOk
<1>4. PedidosAtuais' /\ FinalFica /\ (Liberadas => Liberadas')
  BY <1>1, <1>2, <1>3, AlheioAtual
<1>5. InvNfeSerial'
  BY <1>1, <1>2, AlheioVale
<1> QED
  BY <1>4, <1>5

LEMMA UmPedidoIndutivo ==
    ASSUME SessaoUnica, InvUmPedido, [Next]_vars
    PROVE  InvUmPedido' /\ FinalFica
<1>1. InvDocumentos'
  BY DocumentosIndutivo DEF InvUmPedido
<1>2. CASE NextOS /\ UNCHANGED <<itemVenda, nfeVars>>
  BY <1>1, <1>2, UmPedidoOS DEF InvUmPedido
<1>3. CASE (\E s \in Sessoes : Vender(s)) /\ UNCHANGED <<osVars, nfeVars>>
  BY <1>1, <1>3, UmPedidoVenda DEF InvUmPedido
<1>4. CASE NextNfe /\ UNCHANGED <<osVars, itemVenda>>
  BY <1>1, <1>4, UmPedidoNfe DEF InvUmPedido
<1>5. CASE UNCHANGED vars
  BY <1>1, <1>5, UmPedidoParado DEF InvUmPedido
<1> QED
  BY <1>2, <1>3, <1>4, <1>5 DEF Next

LEMMA UmPedidoInicio ==
    Init => InvUmPedido /\ Liberadas
BY DocumentosInicio, AtualInicio, ValeInicio DEF Init, InitOrdem, InvUmPedido

LEMMA UmPedidoSempre ==
    ASSUME SessaoUnica
    PROVE  Spec => []InvUmPedido
<1>1. Init => InvUmPedido
  BY UmPedidoInicio
<1>2. InvUmPedido /\ [Next]_vars => InvUmPedido'
  BY UmPedidoIndutivo
<1> QED
  BY <1>1, <1>2, PTL DEF Spec

\* FECHADA and CANCELADA are final when requests do not overlap: every handler
\* checks the status it read, and nobody changes it before the commit.  (With two
\* sessions one may write the status it was asked for over the other's FECHADA.)
THEOREM FinaisFicam ==
    ASSUME SessaoUnica
    PROVE  Spec => StatusTerminal
<1>1. InvUmPedido /\ [Next]_vars
         => [\A o \in OSs : os[o] \in {"FECHADA", "CANCELADA"} => os'[o] = os[o]]_varsOS
  BY UmPedidoIndutivo DEF FinalFica
<1> QED
  BY <1>1, UmPedidoSempre, PTL DEF Spec, StatusTerminal

\* A cancelled draft has brought nothing into the stock.
THEOREM NotaCancelada ==
    ASSUME SessaoUnica
    PROVE  Spec => []CanceladaSemEntrada
<1>1. InvUmPedido => CanceladaSemEntrada
  BY MostradaInteira DEF InvUmPedido, InvDocumentos, TypeOk
<1> QED
  BY <1>1, UmPedidoSempre, PTL

\* A confirmed draft shows, line by line, the products whose stock it moved.
THEOREM NotaMostrada ==
    ASSUME SessaoUnica
    PROVE  Spec => []ConfirmadaMostraEntrada
<1>1. InvUmPedido => ConfirmadaMostraEntrada
  BY MostradaInteira DEF InvUmPedido, InvDocumentos, TypeOk
<1> QED
  BY <1>1, UmPedidoSempre, PTL

LEMMA LiberadasIndutivo ==
    ASSUME SessaoUnica, InvUmPedido, Liberadas, [Next]_vars
    PROVE  Liberadas'
<1>1. InvDocumentos /\ PedidosAtuais /\ InvNfeSerial
  BY DEF InvUmPedido
<1>2. CASE NextOS /\ UNCHANGED <<itemVenda, nfeVars>>
  <2>1. TypeOk /\ Paradas /\ SessoesReserva /\ ReservaConfere
    BY <1>1 DEF InvDocumentos
  <2>2. ContextoOS(PedidoVenda \cup PedidoNfe)
    BY <2>1, Contextos
  <2> QED
    BY <1>1, <1>2, <2>1, <2>2, ProximoLibera
<1>3. CASE (\E s \in Sessoes : Vender(s)) /\ UNCHANGED <<osVars, nfeVars>>
  BY <1>1, <1>3, UmPedidoVenda
<1>4. CASE NextNfe /\ UNCHANGED <<osVars, itemVenda>>
  BY <1>1, <1>4, UmPedidoNfe
<1>5. CASE UNCHANGED vars
  BY <1>1, <1>5, UmPedidoParado
<1> QED
  BY <1>2, <1>3, <1>4, <1>5 DEF Next

\* A cancelled order has given back at least what it reserved of every part whose
\* lines carry no negative quantity.  (A removed line stays, and is released again:
\* for one of -1 this takes more than it gave.)
THEOREM CanceladaLibera ==
    ASSUME SessaoUnica
    PROVE  Spec => []CanceladaLiberaTudo
<1>1. Init => Liberadas
  BY UmPedidoInicio
<1>2. InvUmPedido /\ Liberadas /\ [Next]_vars => Liberadas'
  BY LiberadasIndutivo
<1>3. Liberadas => CanceladaLiberaTudo
  BY DEF Liberadas
<1> QED
  BY <1>1, <1>2, <1>3, UmPedidoSempre, PTL DEF Spec
=============================================================================
