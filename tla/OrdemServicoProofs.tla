------------------------- MODULE OrdemServicoProofs -------------------------
(***************************************************************************)
(* Every step of a service order handler is a step of the stock and keeps  *)
(* the types of the OS tables; the rows a session has added so far are the *)
(* part already made of what its request is about, so a line of an order   *)
(* and its reservation appear together.                                    *)
(***************************************************************************)
EXTENDS OrdemServico, EstoqueProofs

PedidosOS == PedidoOS \cup {Livre}
FasesOS == {"livre", "itens", "movendo"}

\* The requests of the sessions, those for other endpoints included.
PedidosTipados(Outros) == pedido \in [Sessoes -> PedidosOS \cup Outros]

\* Sets of requests for endpoints other than those of OrdensServicoService.
DeOutros(Outros) ==
    \A p \in Outros : p.op \notin {"adicionar", "remover", "status", "fechar", "cancelar"}

LEMMA PedidoDaOS ==
    ASSUME NEW Outros, DeOutros(Outros), PedidosTipados(Outros), NEW s \in Sessoes,
           pedido[s] # Livre
    PROVE  /\ pedido[s].op \in {"adicionar", "remover"} => pedido[s] \in PedidoItem
           /\ pedido[s].op = "status" => pedido[s] \in PedidoStatus
           /\ pedido[s].op \in {"fechar", "cancelar"} => pedido[s] \in PedidoFim
BY DEF DeOutros, PedidosTipados, PedidosOS, PedidoOS, PedidoItem, PedidoStatus, PedidoFim

LEMMA InitOSTipado ==
    InitOS => TypeOS
BY DEF InitOS, TypeOS, Totais

LEMMA GravarTotaisTipado ==
    ASSUME NEW o \in OSs, NEW lidos \in Totais, NEW tipo \in TipoItem, NEW d \in Int, TypeOS
    PROVE  GravarTotais(o, lidos, tipo, d) \in [OSs -> Totais]
<1>1. total \in [OSs -> [Colunas -> Int]]
  BY DEF TypeOS, Totais
<1>2. lidos["PECA"] \in Int /\ lidos["SERVICO"] \in Int /\ \A c \in Colunas : lidos[c] \in Int
  BY DEF Totais, Colunas, TipoItem
<1> DEFINE novo(c) == CASE c = tipo -> lidos[c] + d
                        [] c = "FINAL" -> lidos["PECA"] + lidos["SERVICO"] + d
                        [] OTHER -> lidos[c]
<1>3. \A c \in Colunas : novo(c) \in Int
  BY <1>2
<1>4. \A c \in Colunas : GravarColuna(total[o][c], lidos[c], novo(c)) \in Int
  BY <1>1, <1>3 DEF GravarColuna
<1>5. [c \in Colunas |-> GravarColuna(total[o][c], lidos[c], novo(c))] \in [Colunas -> Int]
  BY <1>4
<1> QED
  BY <1>1, <1>5 DEF GravarTotais, Totais

LEMMA MovTipado ==
    ASSUME NEW i \in Itens, NEW p \in Produtos, NEW tipo \in Tipos, NEW qtd \in Quantidades
    PROVE  Mov(i, p, tipo, qtd) \in Movimento
BY DEF Mov, Movimento

-----------------------------------------------------------------------------
(***************************************************************************)
(* Requests.                                                               *)
(***************************************************************************)

LEMMA AdicionarPasso ==
    ASSUME TypeEstoque, TypeOS, NEW s \in Sessoes, NEW o \in OSs, NEW i \in Itens,
           NEW linha \in ItemOS, AdicionarItem(s, o, i, linha)
    PROVE  PassoEstoque /\ PassoPedido(PedidosOS, FasesOS) /\ UNCHANGED osVars
<1> DEFINE ped == [op |-> "adicionar", os |-> o, item |-> i, linha |-> linha,
                   lidos |-> total[o]]
           ms == IF linha.tipo = "PECA"
                 THEN {Mov(i, linha.prod, "RESERVA", linha.qtd)} ELSE {}
<1>1. ped \in PedidosOS
  BY DEF TypeOS, PedidosOS, PedidoOS, PedidoItem
<1>2. linha.prod \in Produtos /\ linha.qtd \in Quantidades
  BY DEF ItemOS
<1>3. Mov(i, linha.prod, "RESERVA", linha.qtd) \in Movimento
  BY <1>2, MovTipado DEF Tipos
<1>4. ms \in SUBSET Movimento /\ "movendo" \in FasesOS
  BY <1>3 DEF FasesOS
<1>5. Iniciar(s, ped, "movendo", ms) /\ UNCHANGED osVars
  BY DEF AdicionarItem
<1> HIDE DEF ped, ms
<1> QED
  BY <1>1, <1>4, <1>5, IniciarPasso

LEMMA RemoverPasso ==
    ASSUME TypeEstoque, TypeOS, NEW s \in Sessoes, NEW o \in OSs, NEW i \in Itens,
           RemoverItem(s, o, i)
    PROVE  PassoEstoque /\ PassoPedido(PedidosOS, FasesOS) /\ UNCHANGED osVars
<1> DEFINE ped == [op |-> "remover", os |-> o, item |-> i, linha |-> itens[i],
                   lidos |-> total[o]]
           ms == IF itens[i].tipo = "PECA"
                 THEN {Mov(i, itens[i].prod, "LIBERACAO", itens[i].qtd)} ELSE {}
<1>1. itens[i] \in ItemOS
  BY DEF TypeOS, RemoverItem
<1>2. ped \in PedidosOS
  BY <1>1 DEF TypeOS, PedidosOS, PedidoOS, PedidoItem
<1>3. itens[i].prod \in Produtos /\ itens[i].qtd \in Quantidades
  BY <1>1 DEF ItemOS
<1>4. Mov(i, itens[i].prod, "LIBERACAO", itens[i].qtd) \in Movimento
  BY <1>3, MovTipado DEF Tipos
<1>5. ms \in SUBSET Movimento /\ "movendo" \in FasesOS
  BY <1>4 DEF FasesOS
<1>6. Iniciar(s, ped, "movendo", ms) /\ UNCHANGED osVars
  BY DEF RemoverItem
<1> HIDE DEF ped, ms
<1> QED
  BY <1>2, <1>5, <1>6, IniciarPasso

LEMMA TransicaoEditavel ==
    ASSUME NEW st, NEW novo \in Transicoes(st)
    PROVE  novo \in Editaveis /\ st \in Editaveis
<1>1. Transicoes(st) \subseteq Editaveis
  BY DEF Transicoes, Editaveis
<1>2. st \notin Editaveis => Transicoes(st) = {}
  BY DEF Transicoes, Editaveis
<1> QED
  BY <1>1, <1>2

LEMMA PedirPasso ==
    ASSUME TypeEstoque, TypeOS, NEW s \in Sessoes, Pedir(s)
    PROVE  PassoEstoque /\ PassoPedido(PedidosOS, FasesOS) /\ UNCHANGED osVars
<1>1. PICK o \in OSs :
         \/ \E i \in Itens, linha \in ItemOS : AdicionarItem(s, o, i, linha)
         \/ \E i \in Itens : RemoverItem(s, o, i)
         \/ \E novo \in StatusOS : AtualizarStatus(s, o, novo)
         \/ Fechar(s, o)
         \/ Cancelar(s, o)
  BY DEF Pedir
<1>2. {} \in SUBSET Movimento /\ "movendo" \in FasesOS /\ "itens" \in FasesOS
  BY DEF FasesOS
<1>3. CASE \E i \in Itens, linha \in ItemOS : AdicionarItem(s, o, i, linha)
  BY <1>3, AdicionarPasso
<1>4. CASE \E i \in Itens : RemoverItem(s, o, i)
  BY <1>4, RemoverPasso
<1>5. CASE \E novo \in StatusOS : AtualizarStatus(s, o, novo)
  <2>1. PICK novo \in StatusOS : AtualizarStatus(s, o, novo)
    BY <1>5
  <2> DEFINE ped == [op |-> "status", os |-> o, novo |-> novo]
  <2>2. novo \in Editaveis
    BY <2>1, TransicaoEditavel DEF AtualizarStatus
  <2>3. ped \in PedidosOS
    BY <2>2 DEF PedidosOS, PedidoOS, PedidoStatus
  <2>4. Iniciar(s, ped, "movendo", {}) /\ UNCHANGED osVars
    BY <2>1 DEF AtualizarStatus
  <2> HIDE DEF ped
  <2> QED
    BY <1>2, <2>3, <2>4, IniciarPasso
<1>6. CASE Fechar(s, o)
  <2> DEFINE ped == [op |-> "fechar", os |-> o]
  <2>1. ped \in PedidosOS
    BY DEF PedidosOS, PedidoOS, PedidoFim
  <2>2. Iniciar(s, ped, "itens", {}) /\ UNCHANGED osVars
    BY <1>6 DEF Fechar
  <2> HIDE DEF ped
  <2> QED
    BY <1>2, <2>1, <2>2, IniciarPasso
<1>7. CASE Cancelar(s, o)
  <2> DEFINE ped == [op |-> "cancelar", os |-> o]
  <2>1. ped \in PedidosOS
    BY DEF PedidosOS, PedidoOS, PedidoFim
  <2>2. Iniciar(s, ped, "itens", {}) /\ UNCHANGED osVars
    BY <1>7 DEF Cancelar
  <2> HIDE DEF ped
  <2> QED
    BY <1>2, <2>1, <2>2, IniciarPasso
<1> QED
  BY <1>1, <1>3, <1>4, <1>5, <1>6, <1>7

-----------------------------------------------------------------------------
(***************************************************************************)
(* Handlers and commits.                                                   *)
(***************************************************************************)

LEMMA CarregarPasso ==
    ASSUME TypeEstoque, TypeOS, NEW s \in Sessoes, CarregarItens(s)
    PROVE  PassoEstoque /\ UNCHANGED <<pedido, osVars>> /\ fase' = [fase EXCEPT ![s] = "movendo"]
<1> DEFINE tipo == IF pedido[s].op = "fechar" THEN "SAIDA" ELSE "LIBERACAO"
           pecas == {i \in Itens : itens[i] # Livre /\ itens[i].os = pedido[s].os
                                                    /\ itens[i].tipo = "PECA"}
           ms == {Mov(i, itens[i].prod, tipo, itens[i].qtd) : i \in pecas}
<1>1. ASSUME NEW i \in pecas
      PROVE  Mov(i, itens[i].prod, tipo, itens[i].qtd) \in Movimento
  <2>1. itens[i] \in ItemOS
    BY DEF TypeOS
  <2>2. itens[i].prod \in Produtos /\ itens[i].qtd \in Quantidades /\ tipo \in Tipos
    BY <2>1 DEF ItemOS, Tipos
  <2> HIDE DEF tipo
  <2> QED
    BY <2>2, MovTipado
<1>2. ms \in SUBSET Movimento
  BY <1>1
<1>3. fila' = [fila EXCEPT ![s] = ms]
  BY DEF CarregarItens
<1>4. fila' \in [Sessoes -> SUBSET Movimento]
  BY <1>2, <1>3 DEF TypeEstoque
<1> QED
  BY <1>4 DEF CarregarItens, PassoEstoque, TypeEstoque

LEMMA ConcluirPasso ==
    ASSUME TypeEstoque, TypeOS, NEW Outros, DeOutros(Outros), PedidosTipados(Outros),
           NEW s \in Sessoes, Concluir(s)
    PROVE  PassoEstoque /\ PassoPedido(PedidosOS, FasesOS) /\ TypeOS'
<1> DEFINE p == pedido[s]
<1>1. Livre \in PedidosOS /\ "livre" \in FasesOS
  BY DEF PedidosOS, FasesOS
<1>2. p # Livre
  BY DEF Concluir, ConcluirAdicionar, ConcluirRemover, ConcluirStatus, ConcluirFechar,
         ConcluirCancelar
<1>3. CASE ConcluirAdicionar(s)
  <2>1. p \in PedidoItem
    BY <1>2, <1>3, PedidoDaOS DEF ConcluirAdicionar
  <2>2. /\ p.os \in OSs /\ p.item \in Itens /\ p.linha \in ItemOS /\ p.lidos \in Totais
        /\ p.linha.tipo \in TipoItem /\ p.linha.qtd \in Int
    BY <2>1, EstoqueAssumption DEF PedidoItem, ItemOS
  <2>3. GravarTotais(p.os, p.lidos, p.linha.tipo, p.linha.qtd) \in [OSs -> Totais]
    BY <2>2, GravarTotaisTipado
  <2>4. TypeOS'
    BY <1>3, <2>2, <2>3 DEF ConcluirAdicionar, TypeOS
  <2>5. Gravar(s, p.os) /\ p.os \in Refs
    BY <1>3, <2>2, OrdemServicoAssumption DEF ConcluirAdicionar
  <2> QED
    BY <1>1, <1>2, <2>4, <2>5, GravarPasso
<1>4. CASE ConcluirRemover(s)
  <2>1. p \in PedidoItem
    BY <1>2, <1>4, PedidoDaOS DEF ConcluirRemover
  <2>2. /\ p.os \in OSs /\ p.lidos \in Totais
        /\ p.linha.tipo \in TipoItem /\ -p.linha.qtd \in Int
    <3>1. p.os \in OSs /\ p.lidos \in Totais /\ p.linha \in ItemOS
      BY <2>1 DEF PedidoItem
    <3>2. p.linha.tipo \in TipoItem /\ p.linha.qtd \in Int
      BY <3>1, EstoqueAssumption DEF ItemOS
    <3> QED
      BY <3>1, <3>2
  <2>3. GravarTotais(p.os, p.lidos, p.linha.tipo, -p.linha.qtd) \in [OSs -> Totais]
    BY <2>2, GravarTotaisTipado
  <2>4. TypeOS'
    BY <1>4, <2>3 DEF ConcluirRemover, TypeOS
  <2>5. Gravar(s, p.os) /\ p.os \in Refs
    BY <1>4, <2>2, OrdemServicoAssumption DEF ConcluirRemover
  <2> QED
    BY <1>1, <1>2, <2>4, <2>5, GravarPasso
<1>5. CASE ConcluirStatus(s)
  <2>1. p \in PedidoStatus
    BY <1>2, <1>5, PedidoDaOS DEF ConcluirStatus
  <2>2. p.os \in OSs /\ p.novo \in StatusOS
    BY <2>1 DEF PedidoStatus, Editaveis, StatusOS
  <2>3. TypeOS'
    BY <1>5, <2>2 DEF ConcluirStatus, TypeOS
  <2>4. Gravar(s, p.os) /\ p.os \in Refs
    BY <1>5, <2>2, OrdemServicoAssumption DEF ConcluirStatus
  <2> QED
    BY <1>1, <1>2, <2>3, <2>4, GravarPasso
<1>6. CASE ConcluirFechar(s)
  <2>1. p.os \in OSs
    BY <1>2, <1>6, PedidoDaOS DEF ConcluirFechar, PedidoFim
  <2>2. TypeOS'
    BY <1>6, <2>1 DEF ConcluirFechar, TypeOS, StatusOS
  <2>3. Gravar(s, p.os) /\ p.os \in Refs
    BY <1>6, <2>1, OrdemServicoAssumption DEF ConcluirFechar
  <2> QED
    BY <1>1, <1>2, <2>2, <2>3, GravarPasso
<1>7. CASE ConcluirCancelar(s)
  <2>1. p.os \in OSs
    BY <1>2, <1>7, PedidoDaOS DEF ConcluirCancelar, PedidoFim
  <2>2. TypeOS'
    BY <1>7, <2>1 DEF ConcluirCancelar, TypeOS, StatusOS
  <2>3. Gravar(s, p.os) /\ p.os \in Refs
    BY <1>7, <2>1, OrdemServicoAssumption DEF ConcluirCancelar
  <2> QED
    BY <1>1, <1>2, <2>2, <2>3, GravarPasso
<1> QED
  BY <1>3, <1>4, <1>5, <1>6, <1>7 DEF Concluir

LEMMA ProximoOS ==
    ASSUME TypeEstoque, TypeOS, NEW Outros, DeOutros(Outros), PedidosTipados(Outros), NextOS
    PROVE  PassoEstoque /\ PassoPedido(PedidosOS, FasesOS) /\ TypeOS'
<1>1. Livre \in PedidosOS /\ "livre" \in FasesOS
  BY DEF PedidosOS, FasesOS
<1>2. ASSUME UNCHANGED osVars
      PROVE  TypeOS'
  BY <1>2 DEF TypeOS, osVars
<1>3. CASE \E o \in OSs : Abrir(o)
  <2>1. PICK o \in OSs : Abrir(o)
    BY <1>3
  <2>2. TypeOS'
    BY <2>1 DEF Abrir, TypeOS, StatusOS
  <2>3. PassoEstoque
    BY <2>1 DEF Abrir, PassoEstoque, TypeEstoque
  <2>4. PassoPedido(PedidosOS, FasesOS)
    BY <2>1 DEF Abrir, PassoPedido
  <2> QED
    BY <2>2, <2>3, <2>4
<1>4. ASSUME NEW s \in Sessoes, Pedir(s)
      PROVE  PassoEstoque /\ PassoPedido(PedidosOS, FasesOS) /\ TypeOS'
  BY <1>2, <1>4, PedirPasso
<1>5. ASSUME NEW s \in Sessoes, CarregarItens(s)
      PROVE  PassoEstoque /\ PassoPedido(PedidosOS, FasesOS) /\ TypeOS'
  <2>1. /\ PassoEstoque /\ UNCHANGED <<pedido, osVars>>
        /\ fase' = [fase EXCEPT ![s] = "movendo"]
    BY <1>5, CarregarPasso
  <2>2. pedido[s] \in PedidosOS
    BY <1>5, PedidoDaOS DEF CarregarItens, PedidosOS, PedidoOS
  <2>3. pedido' = [pedido EXCEPT ![s] = pedido[s]]
    BY <2>1 DEF PedidosTipados
  <2>4. PassoPedido(PedidosOS, FasesOS)
    BY <2>1, <2>2, <2>3 DEF PassoPedido, FasesOS
  <2> QED
    BY <1>2, <2>1, <2>4
<1>6. ASSUME NEW s \in Sessoes, Movimentar(s)
      PROVE  PassoEstoque /\ PassoPedido(PedidosOS, FasesOS) /\ TypeOS'
  <2>1. PICK m \in fila[s] : RegistrarMovimentacao(s, m)
    BY <1>6 DEF Movimentar
  <2>2. UNCHANGED osVars
    BY <1>6 DEF Movimentar
  <2> QED
    BY <1>2, <2>1, <2>2, MovimentarPasso
<1>7. ASSUME NEW s \in Sessoes, Recusar(s) \/ DetectarDeadlock(s) \/ Cair(s)
      PROVE  PassoEstoque /\ PassoPedido(PedidosOS, FasesOS) /\ TypeOS'
  <2>1. SessaoLimpa(s) /\ UNCHANGED <<banco, iniciados>> /\ UNCHANGED osVars
    BY <1>7 DEF Recusar, EstoqueInsuficiente, DetectarDeadlock, VitimaDeadlock, Cair, Abortar
  <2> QED
    BY <1>1, <1>2, <2>1, LimpaPasso
<1>8. ASSUME NEW s \in Sessoes, Concluir(s)
      PROVE  PassoEstoque /\ PassoPedido(PedidosOS, FasesOS) /\ TypeOS'
  BY <1>8, ConcluirPasso
<1> QED
  BY <1>3, <1>4, <1>5, <1>6, <1>7, <1>8 DEF NextOS, Atender

-----------------------------------------------------------------------------
(***************************************************************************)
(* Theorems of SpecOS.                                                     *)
(***************************************************************************)

LEMMA TipoOSIndutivo ==
    TypeOkOS /\ [NextOS]_varsOS => TypeOkOS'
<1> SUFFICES ASSUME TypeOkOS, [NextOS]_varsOS PROVE TypeOkOS'
  OBVIOUS
<1>1. DeOutros({}) /\ PedidosTipados({})
  BY DEF DeOutros, PedidosTipados, PedidosOS, TypeOkOS
<1>2. CASE NextOS
  <2>1. PassoEstoque /\ PassoPedido(PedidosOS, FasesOS) /\ TypeOS'
    BY <1>1, <1>2, ProximoOS DEF TypeOkOS
  <2>2. TypeEstoque'
    BY <2>1, PassoTipado DEF TypeOkOS
  <2>3. pedido' \in [Sessoes -> PedidosOS] /\ fase' \in [Sessoes -> FasesOS]
    BY <2>1, PassoPedidoTipado DEF TypeOkOS, PedidosOS, FasesOS
  <2> QED
    BY <2>1, <2>2, <2>3 DEF TypeOkOS, PedidosOS, FasesOS
<1>3. CASE UNCHANGED varsOS
  BY <1>3 DEF TypeOkOS, TypeEstoque, TypeOS, varsOS, estoqueVars, osVars, banco, memoria
<1> QED
  BY <1>2, <1>3

LEMMA TipoOSInicial ==
    InitOrdem => TypeOkOS
BY InitTipado, InitOSTipado DEF InitOrdem, InitEstoque, InitSessoes, TypeOkOS

\* Every variable of the service orders has its type, whatever the number of
\* products, orders, sessions and requests.
THEOREM TipoOS == SpecOS => []TypeOkOS
<1>1. InitOrdem => TypeOkOS
  BY TipoOSInicial
<1>2. TypeOkOS /\ [NextOS]_varsOS => TypeOkOS'
  BY TipoOSIndutivo
<1> QED
  BY <1>1, <1>2, PTL DEF SpecOS

\* Only fechar makes an order FECHADA, and it adds the history row in the same
\* transaction; atualizar_status cannot reach FECHADA, not even from a stale read.
LEMMA HistoricoIndutivo ==
    ASSUME NEW Outros, DeOutros(Outros), PedidosTipados(Outros), TypeEstoque, TypeOS,
           FechadaTemHistorico, NextOS
    PROVE  FechadaTemHistorico'
<1> SUFFICES ASSUME NEW o \in OSs, os'[o] = "FECHADA"
             PROVE  historico'[o] > 0
  BY DEF FechadaTemHistorico
<1>1. os \in [OSs -> StatusOS \cup {Livre}] /\ historico \in [OSs -> Nat]
  BY DEF TypeOS
<1>2. CASE UNCHANGED <<os, historico>>
  BY <1>2 DEF FechadaTemHistorico
<1>3. ASSUME NEW n \in OSs, Abrir(n)
      PROVE  historico'[o] > 0
  BY <1>1, <1>3 DEF Abrir, FechadaTemHistorico
<1>4. ASSUME NEW s \in Sessoes, ConcluirStatus(s)
      PROVE  historico'[o] > 0
  <2>1. pedido[s].novo \in Editaveis
    BY <1>1, <1>4, PedidoDaOS DEF ConcluirStatus, PedidoStatus
  <2>2. pedido[s].novo # "FECHADA"
    BY <2>1 DEF Editaveis
  <2> QED
    BY <1>1, <1>4, <2>2 DEF ConcluirStatus, FechadaTemHistorico
<1>5. ASSUME NEW s \in Sessoes, ConcluirFechar(s)
      PROVE  historico'[o] > 0
  <2>1. historico' = [historico EXCEPT ![pedido[s].os] = @ + 1]
        /\ os' = [os EXCEPT ![pedido[s].os] = "FECHADA"]
    BY <1>5 DEF ConcluirFechar
  <2>2. CASE o = pedido[s].os
    BY <1>1, <2>1, <2>2
  <2>3. CASE o # pedido[s].os
    BY <1>1, <2>1, <2>3 DEF FechadaTemHistorico
  <2> QED
    BY <2>2, <2>3
<1>6. ASSUME NEW s \in Sessoes, ConcluirCancelar(s)
      PROVE  historico'[o] > 0
  BY <1>1, <1>6 DEF ConcluirCancelar, FechadaTemHistorico
<1>7. ASSUME NEW s \in Sessoes, Pedir(s)
      PROVE  historico'[o] > 0
  BY <1>2, <1>7, PedirPasso DEF osVars
<1>8. ASSUME NEW s \in Sessoes,
             \/ CarregarItens(s) \/ Movimentar(s) \/ Recusar(s) \/ DetectarDeadlock(s)
             \/ Cair(s) \/ ConcluirAdicionar(s) \/ ConcluirRemover(s)
      PROVE  historico'[o] > 0
  BY <1>2, <1>8 DEF CarregarItens, Movimentar, Recusar, DetectarDeadlock, Cair,
                    ConcluirAdicionar, ConcluirRemover, osVars
<1> QED
  BY <1>3, <1>4, <1>5, <1>6, <1>7, <1>8 DEF NextOS, Atender, Concluir

LEMMA HistoricoInicial ==
    InitOS => FechadaTemHistorico
BY OrdemServicoAssumption DEF InitOS, FechadaTemHistorico, StatusOS

LEMMA HistoricoParado ==
    FechadaTemHistorico /\ UNCHANGED osVars => FechadaTemHistorico'
BY DEF FechadaTemHistorico, osVars

\* An OS that reads FECHADA has its record in the history of the vehicle, however
\* the requests on it race.
THEOREM HistoricoOS == SpecOS => []FechadaTemHistorico
<1>1. InitOrdem => FechadaTemHistorico
  BY HistoricoInicial DEF InitOrdem
<1>2. TypeOkOS /\ FechadaTemHistorico /\ [NextOS]_varsOS => FechadaTemHistorico'
  <2>1. TypeOkOS => TypeEstoque /\ TypeOS /\ DeOutros({}) /\ PedidosTipados({})
    BY DEF TypeOkOS, DeOutros, PedidosTipados, PedidosOS
  <2> QED
    BY <2>1, HistoricoIndutivo, HistoricoParado DEF varsOS
<1> QED
  BY <1>1, <1>2, TipoOS, PTL DEF SpecOS

-----------------------------------------------------------------------------
(***************************************************************************)
(* The handlers as steps of the sessions.                                  *)
(***************************************************************************)

\* What the lemmas below assume of the state.
ContextoOS(Outros) ==
    /\ TypeEstoque /\ TypeOS /\ Paradas
    /\ DeOutros(Outros) /\ PedidosTipados(Outros)
    /\ fase \in [Sessoes -> FasesOS \cup {"casando", "lendo", "entrada"}]

\* Every request starts one session and leaves the others and the tables alone.
Comeca(s) ==
    /\ pedido'[s] \in PedidoOS /\ linhas'[s] = SemLinhas
    /\ \A u \in Sessoes \ {s} : /\ pedido'[u] = pedido[u] /\ fase'[u] = fase[u]
                                /\ fila'[u] = fila[u] /\ linhas'[u] = linhas[u]
    /\ UNCHANGED <<porRef, osVars>>

LEMMA IniciarComeca ==
    ASSUME NEW Outros, ContextoOS(Outros), NEW s \in Sessoes, NEW ped \in PedidoOS, NEW f, NEW ms,
           Iniciar(s, ped, f, ms), UNCHANGED osVars
    PROVE  /\ PassoSessoes(PedidoOS) /\ Comeca(s)
           /\ pedido'[s] = ped /\ fase'[s] = f /\ fila'[s] = ms
<1>1. TypeEstoque /\ Paradas /\ Dominios
  BY DEF ContextoOS, PedidosTipados, Dominios
<1>2. porRef' = porRef
  BY DEF Iniciar, banco
<1>3. /\ PassoSessoes(PedidoOS)
      /\ pedido'[s] = ped /\ fase'[s] = f /\ fila'[s] = ms /\ linhas'[s] = SemLinhas
      /\ \A u \in Sessoes \ {s} : /\ pedido'[u] = pedido[u] /\ fase'[u] = fase[u]
                                  /\ fila'[u] = fila[u] /\ linhas'[u] = linhas[u]
  BY <1>1, IniciarSessoes
<1> QED
  BY <1>2, <1>3 DEF Comeca

\* The five requests.
LEMMA AdicionarComeca ==
    ASSUME NEW Outros, ContextoOS(Outros), NEW s \in Sessoes, NEW o \in OSs, NEW i \in Itens,
           NEW linha \in ItemOS, AdicionarItem(s, o, i, linha)
    PROVE  /\ PassoSessoes(PedidoOS) /\ Comeca(s) /\ fase'[s] = "movendo"
           /\ pedido'[s] \in PedidoItem /\ pedido'[s].op = "adicionar"
           /\ pedido'[s].os = o /\ pedido'[s].item = i /\ pedido'[s].linha = linha
           /\ fila'[s] = IF linha.tipo = "PECA"
                         THEN {Mov(i, linha.prod, "RESERVA", linha.qtd)} ELSE {}
<1> DEFINE ped == [op |-> "adicionar", os |-> o, item |-> i, linha |-> linha,
                   lidos |-> total[o]]
           ms == IF linha.tipo = "PECA"
                 THEN {Mov(i, linha.prod, "RESERVA", linha.qtd)} ELSE {}
<1>1. ped \in PedidoItem /\ ped \in PedidoOS
  <2>1. total[o] \in Totais
    BY DEF ContextoOS, TypeOS
  <2> QED
    BY <2>1 DEF PedidoOS, PedidoItem
<1>2. Iniciar(s, ped, "movendo", ms) /\ UNCHANGED osVars
  BY DEF AdicionarItem
<1>3. ped.op = "adicionar" /\ ped.os = o /\ ped.item = i /\ ped.linha = linha
  OBVIOUS
<1> HIDE DEF ped, ms
<1>4. /\ PassoSessoes(PedidoOS) /\ Comeca(s)
      /\ pedido'[s] = ped /\ fase'[s] = "movendo" /\ fila'[s] = ms
  BY <1>1, <1>2, IniciarComeca
<1> QED
  BY <1>1, <1>3, <1>4 DEF ms

LEMMA RemoverComeca ==
    ASSUME NEW Outros, ContextoOS(Outros), NEW s \in Sessoes, NEW o \in OSs, NEW i \in Itens,
           RemoverItem(s, o, i)
    PROVE  /\ PassoSessoes(PedidoOS) /\ Comeca(s)
           /\ pedido'[s].op = "remover" /\ pedido'[s].os = o
           /\ fila'[s] = IF itens[i].tipo = "PECA"
                         THEN {Mov(i, itens[i].prod, "LIBERACAO", itens[i].qtd)} ELSE {}
<1> DEFINE ped == [op |-> "remover", os |-> o, item |-> i, linha |-> itens[i],
                   lidos |-> total[o]]
           ms == IF itens[i].tipo = "PECA"
                 THEN {Mov(i, itens[i].prod, "LIBERACAO", itens[i].qtd)} ELSE {}
<1>1. itens[i] \in ItemOS
  BY DEF ContextoOS, TypeOS, RemoverItem
<1>2. ped \in PedidoOS /\ ped.op = "remover" /\ ped.os = o
  BY <1>1 DEF ContextoOS, TypeOS, PedidoOS, PedidoItem
<1>3. Iniciar(s, ped, "movendo", ms) /\ UNCHANGED osVars
  BY DEF RemoverItem
<1> HIDE DEF ped, ms
<1>4. /\ PassoSessoes(PedidoOS) /\ Comeca(s)
      /\ pedido'[s] = ped /\ fase'[s] = "movendo" /\ fila'[s] = ms
  BY <1>2, <1>3, IniciarComeca
<1> QED
  BY <1>2, <1>4 DEF ms

LEMMA StatusComeca ==
    ASSUME NEW Outros, ContextoOS(Outros), NEW s \in Sessoes, NEW o \in OSs, NEW novo,
           AtualizarStatus(s, o, novo)
    PROVE  /\ PassoSessoes(PedidoOS) /\ Comeca(s)
           /\ pedido'[s].op = "status" /\ pedido'[s].os = o /\ fila'[s] = {}
<1> DEFINE ped == [op |-> "status", os |-> o, novo |-> novo]
<1>1. novo \in Editaveis
  BY TransicaoEditavel DEF AtualizarStatus
<1>2. ped \in PedidoOS /\ ped.op = "status" /\ ped.os = o
  BY <1>1 DEF PedidoOS, PedidoStatus
<1>3. Iniciar(s, ped, "movendo", {}) /\ UNCHANGED osVars
  BY DEF AtualizarStatus
<1> HIDE DEF ped
<1> QED
  BY <1>2, <1>3, IniciarComeca

LEMMA FimComeca ==
    ASSUME NEW Outros, ContextoOS(Outros), NEW s \in Sessoes, NEW o \in OSs,
           Fechar(s, o) \/ Cancelar(s, o)
    PROVE  /\ PassoSessoes(PedidoOS) /\ Comeca(s) /\ fase'[s] = "itens"
           /\ pedido'[s].op = IF Fechar(s, o) THEN "fechar" ELSE "cancelar"
           /\ pedido'[s].os = o /\ fila'[s] = {}
<1> DEFINE ped(op) == [op |-> op, os |-> o]
<1>1. \A op \in {"fechar", "cancelar"} : ped(op) \in PedidoOS /\ ped(op).op = op
                                                              /\ ped(op).os = o
  BY DEF PedidoOS, PedidoFim
<1>2. CASE Fechar(s, o)
  <2>1. Iniciar(s, ped("fechar"), "itens", {}) /\ UNCHANGED osVars
    BY <1>2 DEF Fechar
  <2> HIDE DEF ped
  <2> QED
    BY <1>1, <1>2, <2>1, IniciarComeca
<1>3. CASE ~Fechar(s, o)
  <2>1. Iniciar(s, ped("cancelar"), "itens", {}) /\ UNCHANGED osVars
    BY <1>3 DEF Cancelar
  <2> HIDE DEF ped
  <2> QED
    BY <1>1, <1>3, <2>1, IniciarComeca
<1> QED
  BY <1>2, <1>3

\* The second SELECT of fechar and cancelar only changes what is left to move.
LEMMA CarregarSessoes ==
    ASSUME NEW Outros, ContextoOS(Outros), NEW s \in Sessoes, CarregarItens(s)
    PROVE  /\ PassoSessoes(PedidoOS)
           /\ pedido[s] \in PedidoFim /\ fase'[s] = "movendo" /\ linhas'[s] = SemLinhas
           /\ fila'[s] = {Mov(i, itens[i].prod,
                              IF pedido[s].op = "fechar" THEN "SAIDA" ELSE "LIBERACAO",
                              itens[i].qtd)
                            : i \in {i \in Itens : /\ itens[i] # Livre
                                                   /\ itens[i].os = pedido[s].os
                                                   /\ itens[i].tipo = "PECA"}}
           /\ \A u \in Sessoes \ {s} : fase'[u] = fase[u] /\ fila'[u] = fila[u]
           /\ UNCHANGED <<pedido, linhas, porRef, osVars>>
<1>1. pedido[s] \in PedidoFim
  BY PedidoDaOS DEF CarregarItens, ContextoOS
<1>2. UNCHANGED <<pedido, linhas, porRef, osVars>> /\ fase[s] = "itens"
      /\ fase' = [fase EXCEPT ![s] = "movendo"]
  BY DEF CarregarItens, memoria, banco
<1>3. fila \in [Sessoes -> SUBSET Movimento] /\ DOMAIN fase = Sessoes
  BY DEF ContextoOS, TypeEstoque
<1>4. linhas[s] = SemLinhas
  BY <1>2 DEF ContextoOS, Paradas, Parada
<1>5. /\ \A u \in Sessoes \ {s} : fase'[u] = fase[u] /\ fila'[u] = fila[u]
      /\ fase'[s] = "movendo"
      /\ fila'[s] = {Mov(i, itens[i].prod,
                         IF pedido[s].op = "fechar" THEN "SAIDA" ELSE "LIBERACAO",
                         itens[i].qtd)
                       : i \in {i \in Itens : /\ itens[i] # Livre
                                              /\ itens[i].os = pedido[s].os
                                              /\ itens[i].tipo = "PECA"}}
  BY <1>2, <1>3 DEF CarregarItens
<1>6. pedido[s] \in PedidoOS
  BY <1>1 DEF PedidoOS
<1>7. PassoSessoes(PedidoOS)
  BY <1>2, <1>5, <1>6 DEF PassoSessoes, Continua, Prepara
<1> QED
  BY <1>1, <1>2, <1>4, <1>5, <1>7

\* A commit is that of the document its request is about.
LEMMA ConcluirGrava ==
    ASSUME NEW Outros, ContextoOS(Outros), NEW s \in Sessoes, Concluir(s)
    PROVE  /\ pedido[s] \in PedidoOS /\ pedido[s].os \in OSs /\ pedido[s].os \in Refs
           /\ Gravar(s, pedido[s].os)
<1>1. pedido[s] # Livre /\ Gravar(s, pedido[s].os)
      /\ pedido[s].op \in {"adicionar", "remover", "status", "fechar", "cancelar"}
  BY DEF Concluir, ConcluirAdicionar, ConcluirRemover, ConcluirStatus, ConcluirFechar,
         ConcluirCancelar
<1>2. pedido[s] \in PedidoOS
  BY <1>1, PedidoDaOS DEF ContextoOS, PedidoOS
<1>3. pedido[s].os \in OSs
  BY <1>2 DEF PedidoOS, PedidoItem, PedidoStatus, PedidoFim
<1> QED
  BY <1>1, <1>2, <1>3, OrdemServicoAssumption

\* The end of a session without commit, in the three ways it may come.
LEMMA DesistirLimpa ==
    ASSUME NEW s \in Sessoes, Recusar(s) \/ DetectarDeadlock(s) \/ Cair(s)
    PROVE  SessaoLimpa(s) /\ UNCHANGED <<banco, iniciados, osVars>>
BY DEF Recusar, EstoqueInsuficiente, DetectarDeadlock, VitimaDeadlock, Cair, Abortar

LEMMA SessoesOS ==
    ASSUME NEW Outros, ContextoOS(Outros), NextOS
    PROVE  PassoSessoes(PedidoOS) /\ PassoRefs(OSs)
<1>1. TypeEstoque /\ Dominios
  BY DEF ContextoOS, PedidosTipados, Dominios
<1>2. porRef' = porRef => PassoRefs(OSs)
  BY DEF PassoRefs
<1>3. CASE \E o \in OSs : Abrir(o)
  <2>1. UNCHANGED <<pedido, fase, fila, linhas, porRef>>
    BY <1>3 DEF Abrir, memoria, banco
  <2> QED
    BY <1>2, <2>1, SessoesIguais
<1>4. ASSUME NEW s \in Sessoes, Pedir(s)
      PROVE  PassoSessoes(PedidoOS) /\ PassoRefs(OSs)
  <2>1. PassoSessoes(PedidoOS) /\ Comeca(s)
    BY <1>4, AdicionarComeca, RemoverComeca, StatusComeca, FimComeca DEF Pedir
  <2> QED
    BY <1>2, <2>1 DEF Comeca
<1>5. ASSUME NEW s \in Sessoes, CarregarItens(s)
      PROVE  PassoSessoes(PedidoOS) /\ PassoRefs(OSs)
  BY <1>2, <1>5, CarregarSessoes
<1>6. ASSUME NEW s \in Sessoes, Movimentar(s)
      PROVE  PassoSessoes(PedidoOS) /\ PassoRefs(OSs)
  <2>1. PICK m \in fila[s] : RegistrarMovimentacao(s, m)
    BY <1>6 DEF Movimentar
  <2> QED
    BY <1>1, <1>2, <2>1, MovimentarSessoes DEF banco
<1>7. ASSUME NEW s \in Sessoes, Recusar(s) \/ DetectarDeadlock(s) \/ Cair(s)
      PROVE  PassoSessoes(PedidoOS) /\ PassoRefs(OSs)
  BY <1>1, <1>2, <1>7, DesistirLimpa, LimpaSessoes DEF banco
<1>8. ASSUME NEW s \in Sessoes, Concluir(s)
      PROVE  PassoSessoes(PedidoOS) /\ PassoRefs(OSs)
  <2>1. Gravar(s, pedido[s].os) /\ pedido[s].os \in OSs /\ pedido[s].os \in Refs
    BY <1>8, ConcluirGrava
  <2>2. PassoSessoes(PedidoOS) /\ PassoRefs({pedido[s].os})
    BY <1>1, <2>1, GravarSessoes
  <2> QED
    BY <2>1, <2>2 DEF PassoRefs
<1> QED
  BY <1>3, <1>4, <1>5, <1>6, <1>7, <1>8 DEF NextOS, Atender

-----------------------------------------------------------------------------
(***************************************************************************)
(* Every line of an order has its reservation.                             *)
(***************************************************************************)
DeAdicionar == {p \in PedidoItem : p.op = "adicionar"}

PlanoAdicionar(p) ==
    IF p.linha.tipo = "PECA" THEN {Mov(p.item, p.linha.prod, "RESERVA", p.linha.qtd)} ELSE {}

\* A session that adds a line has its id for itself, and what it has added so far
\* is the reservation of this line.
AdicaoCerta(s) ==
    /\ fase[s] = "movendo"
    /\ pedido[s].linha.os = pedido[s].os
    /\ itens[pedido[s].item] = Livre
    /\ Contado(fila[s], linhas[s], PlanoAdicionar(pedido[s]))

\* No other OS handler reserves, and no two sessions add the same line.
SessoesReserva ==
    /\ \A s \in Sessoes : pedido[s] \in DeAdicionar => AdicaoCerta(s)
    /\ \A s \in Sessoes : pedido[s] \in PedidoOS \ DeAdicionar
                             => SemTipo(fila[s], linhas[s], "RESERVA")
    /\ \A s, t \in Sessoes : s # t /\ pedido[s] \in DeAdicionar /\ pedido[t] \in DeAdicionar
                                => pedido[s].item # pedido[t].item

\* Lines are never taken off an order, so the sums are equal.
ReservaConfere ==
    \A o \in OSs, p \in Produtos : QuantidadeNaOS(o, p) = porRef[o][p]["RESERVA"]

LEMMA ReservaInicio ==
    InitOrdem => SessoesReserva /\ ReservaConfere
<1> SUFFICES ASSUME InitOrdem PROVE SessoesReserva /\ ReservaConfere
  OBVIOUS
<1>1. SessoesReserva
  BY PedidoOSAssumption DEF InitOrdem, InitEstoque, InitSessoes, SessoesReserva, DeAdicionar, PedidoOS
<1>2. ASSUME NEW o \in OSs, NEW p \in Produtos
      PROVE  QuantidadeNaOS(o, p) = porRef[o][p]["RESERVA"]
  <2>1. PecasNaOS(o, p) = {}
    BY DEF InitOrdem, InitOS, PecasNaOS
  <2>2. QuantidadeNaOS(o, p) = 0
    BY <2>1, SomaVazia DEF QuantidadeNaOS
  <2>3. porRef[o] = SemLinhas
    BY OrdemServicoAssumption DEF InitOrdem, InitEstoque
  <2> QED
    BY <2>2, <2>3, SaldoVazio, TiposDeContas DEF Tipos
<1> QED
  BY <1>1, <1>2 DEF ReservaConfere

LEMMA PlanoAdicionarTipado ==
    ASSUME NEW p \in PedidoItem
    PROVE  PlanoAdicionar(p) \in SUBSET Movimento /\ IsFiniteSet(PlanoAdicionar(p))
<1> DEFINE m == Mov(p.item, p.linha.prod, "RESERVA", p.linha.qtd)
<1>1. p.item \in Itens /\ p.linha.prod \in Produtos /\ p.linha.qtd \in Quantidades
  BY DEF PedidoItem, ItemOS
<1>2. m \in Movimento
  BY <1>1, MovTipado DEF Tipos
<1> HIDE DEF m
<1>3. IsFiniteSet({m}) /\ IsFiniteSet({})
  BY FS_Singleton, FS_EmptySet
<1> QED
  BY <1>2, <1>3 DEF PlanoAdicionar, m

\* A step that starts or prepares no OS request and leaves the ids the sessions
\* are about to use alone.
LEMMA SessoesReservaSeguem ==
    ASSUME TypeEstoque, SessoesReserva, NEW P, P \cap PedidoOS = {}, PassoSessoes(P),
           \A s \in Sessoes : pedido[s] \in DeAdicionar /\ pedido'[s] = pedido[s]
                                 => itens'[pedido[s].item] = itens[pedido[s].item]
    PROVE  SessoesReserva'
<1>1. ASSUME NEW s \in Sessoes, pedido'[s] \in PedidoOS
      PROVE  Continua(s) /\ pedido'[s] = pedido[s] /\ fase'[s] = fase[s]
  BY <1>1, SessaoSegue, PedidoOSAssumption DEF Continua
<1>2. DeAdicionar \subseteq PedidoOS
  BY DEF DeAdicionar, PedidoOS
<1>3. ASSUME NEW s \in Sessoes, pedido'[s] \in DeAdicionar
      PROVE  AdicaoCerta(s)'
  <2> DEFINE p == pedido[s]
             M == PlanoAdicionar(p)
  <2>1. Continua(s) /\ pedido'[s] = p /\ fase'[s] = fase[s] /\ p \in DeAdicionar
    BY <1>1, <1>2, <1>3
  <2>2. AdicaoCerta(s) /\ itens'[p.item] = itens[p.item]
    BY <2>1 DEF SessoesReserva
  <2>3. M \in SUBSET Movimento /\ IsFiniteSet(M)
    BY <2>1, PlanoAdicionarTipado DEF DeAdicionar
  <2>4. Contado(fila[s], linhas[s], M)
    BY <2>2 DEF AdicaoCerta
  <2> HIDE DEF M
  <2>5. Contado(fila'[s], linhas'[s], M)
    BY <2>1, <2>3, <2>4, ContadoContinua
  <2>6. M = PlanoAdicionar(pedido'[s])
    BY <2>1 DEF M
  <2> QED
    BY <2>1, <2>2, <2>5, <2>6 DEF AdicaoCerta
<1>4. ASSUME NEW s \in Sessoes, pedido'[s] \in PedidoOS \ DeAdicionar
      PROVE  SemTipo(fila'[s], linhas'[s], "RESERVA")
  <2>1. Continua(s) /\ pedido'[s] = pedido[s]
    BY <1>1, <1>4
  <2>2. SemTipo(fila[s], linhas[s], "RESERVA") /\ "RESERVA" \in Tipos
    BY <1>4, <2>1 DEF SessoesReserva, Tipos
  <2> QED
    BY <2>1, <2>2, SemTipoContinua
<1>5. ASSUME NEW s \in Sessoes, NEW t \in Sessoes, s # t,
             pedido'[s] \in DeAdicionar, pedido'[t] \in DeAdicionar
      PROVE  pedido'[s].item # pedido'[t].item
  <2>1. pedido'[s] = pedido[s] /\ pedido'[t] = pedido[t]
    BY <1>1, <1>2, <1>5
  <2> QED
    BY <1>5, <2>1 DEF SessoesReserva
<1> QED
  BY <1>3, <1>4, <1>5 DEF SessoesReserva

\* A new request: the other sessions have not changed.
LEMMA ComecaReserva ==
    ASSUME NEW Outros, ContextoOS(Outros), SessoesReserva, NEW s \in Sessoes, Comeca(s),
           \/ /\ pedido'[s] \in DeAdicionar /\ fase'[s] = "movendo"
              /\ pedido'[s].linha.os = pedido'[s].os
              /\ IdNovo(pedido'[s].item)
              /\ fila'[s] = PlanoAdicionar(pedido'[s])
           \/ /\ pedido'[s] \in PedidoOS \ DeAdicionar
              /\ \A m \in fila'[s] : "RESERVA" \notin m.tipos
    PROVE  SessoesReserva'
<1>1. /\ \A u \in Sessoes \ {s} : /\ pedido'[u] = pedido[u] /\ fase'[u] = fase[u]
                                  /\ fila'[u] = fila[u] /\ linhas'[u] = linhas[u]
      /\ itens' = itens /\ linhas'[s] = SemLinhas
  BY DEF Comeca, osVars
<1>2. pedido'[s] \in DeAdicionar => AdicaoCerta(s)'
  <2> SUFFICES ASSUME pedido'[s] \in DeAdicionar PROVE AdicaoCerta(s)'
    OBVIOUS
  <2>1. itens'[pedido'[s].item] = Livre
    BY <1>1 DEF IdNovo
  <2>2. Contado(fila'[s], linhas'[s], PlanoAdicionar(pedido'[s]))
    BY <1>1, ContadoInicio
  <2> QED
    BY <2>1, <2>2 DEF AdicaoCerta
<1>3. \A u \in Sessoes \ {s} : pedido'[u] \in DeAdicionar => AdicaoCerta(u)'
  BY <1>1 DEF SessoesReserva, AdicaoCerta
<1>4. pedido'[s] \in PedidoOS \ DeAdicionar => SemTipo(fila'[s], linhas'[s], "RESERVA")
  BY <1>1, SemTipoInicio DEF Tipos
<1>5. \A u \in Sessoes \ {s} : pedido'[u] \in PedidoOS \ DeAdicionar
                                  => SemTipo(fila'[u], linhas'[u], "RESERVA")
  BY <1>1 DEF SessoesReserva
<1>6. ASSUME pedido'[s] \in DeAdicionar, NEW u \in Sessoes \ {s}, pedido'[u] \in DeAdicionar
      PROVE  pedido'[s].item # pedido'[u].item
  <2>1. pedido[u] \in DeAdicionar /\ pedido'[u] = pedido[u]
    BY <1>1, <1>6
  <2>2. pedido[u] # Livre /\ pedido[u].op = "adicionar"
    BY <2>1, PedidoOSAssumption DEF DeAdicionar, PedidoOS
  <2> QED
    BY <1>6, <2>1, <2>2 DEF IdNovo
<1>7. \A u, v \in Sessoes \ {s} : u # v /\ pedido'[u] \in DeAdicionar
                                        /\ pedido'[v] \in DeAdicionar
                                     => pedido'[u].item # pedido'[v].item
  BY <1>1 DEF SessoesReserva
<1> QED
  BY <1>2, <1>3, <1>4, <1>5, <1>6, <1>7 DEF SessoesReserva

LEMMA PedirReserva ==
    ASSUME NEW Outros, ContextoOS(Outros), SessoesReserva, NEW s \in Sessoes, Pedir(s)
    PROVE  SessoesReserva' /\ UNCHANGED <<porRef, osVars>>
<1>1. PICK o \in OSs :
         \/ \E i \in Itens, linha \in ItemOS : AdicionarItem(s, o, i, linha)
         \/ \E i \in Itens : RemoverItem(s, o, i)
         \/ \E novo \in StatusOS : AtualizarStatus(s, o, novo)
         \/ Fechar(s, o)
         \/ Cancelar(s, o)
  BY DEF Pedir
<1>2. ASSUME Comeca(s), pedido'[s].op # "adicionar", \A m \in fila'[s] : "RESERVA" \notin m.tipos
      PROVE  SessoesReserva' /\ UNCHANGED <<porRef, osVars>>
  <2>1. pedido'[s] \in PedidoOS \ DeAdicionar
    BY <1>2 DEF Comeca, DeAdicionar
  <2> QED
    BY <1>2, <2>1, ComecaReserva DEF Comeca
<1>3. CASE \E i \in Itens, linha \in ItemOS : AdicionarItem(s, o, i, linha)
  <2>1. PICK i \in Itens, linha \in ItemOS : AdicionarItem(s, o, i, linha)
    BY <1>3
  <2>2. linha.os = o /\ IdNovo(i)
    BY <2>1 DEF AdicionarItem
  <2>3. /\ Comeca(s) /\ fase'[s] = "movendo"
        /\ pedido'[s] \in PedidoItem /\ pedido'[s].op = "adicionar"
        /\ pedido'[s].os = o /\ pedido'[s].item = i /\ pedido'[s].linha = linha
        /\ fila'[s] = IF linha.tipo = "PECA"
                      THEN {Mov(i, linha.prod, "RESERVA", linha.qtd)} ELSE {}
    BY <2>1, AdicionarComeca
  <2>4. pedido'[s] \in DeAdicionar /\ fila'[s] = PlanoAdicionar(pedido'[s])
    BY <2>3 DEF DeAdicionar, PlanoAdicionar
  <2> QED
    BY <2>2, <2>3, <2>4, ComecaReserva DEF Comeca
<1>4. CASE \E i \in Itens : RemoverItem(s, o, i)
  <2>1. PICK i \in Itens : RemoverItem(s, o, i)
    BY <1>4
  <2>2. Comeca(s) /\ pedido'[s].op = "remover"
    BY <2>1, RemoverComeca
  <2> DEFINE m0 == Mov(i, itens[i].prod, "LIBERACAO", itens[i].qtd)
  <2>3. m0.tipos = {"LIBERACAO"}
    BY DEF Mov
  <2> HIDE DEF m0
  <2>4. fila'[s] = IF itens[i].tipo = "PECA" THEN {m0} ELSE {}
    BY <2>1, RemoverComeca DEF m0
  <2>5. \A m \in fila'[s] : "RESERVA" \notin m.tipos
    BY <2>3, <2>4
  <2> QED
    BY <1>2, <2>2, <2>5
<1>5. CASE \E novo \in StatusOS : AtualizarStatus(s, o, novo)
  BY <1>2, <1>5, StatusComeca
<1>6. CASE Fechar(s, o) \/ Cancelar(s, o)
  BY <1>2, <1>6, FimComeca
<1> QED
  BY <1>1, <1>3, <1>4, <1>5, <1>6

LEMMA CarregarReserva ==
    ASSUME NEW Outros, ContextoOS(Outros), SessoesReserva, NEW s \in Sessoes, CarregarItens(s)
    PROVE  SessoesReserva' /\ UNCHANGED <<porRef, osVars>>
<1>1. /\ pedido[s] \in PedidoFim /\ linhas'[s] = SemLinhas
      /\ \A u \in Sessoes \ {s} : fase'[u] = fase[u] /\ fila'[u] = fila[u]
      /\ UNCHANGED <<pedido, linhas, porRef, osVars>>
  BY CarregarSessoes
<1>2. \A m \in fila'[s] : m.tipos \in {{"SAIDA"}, {"LIBERACAO"}}
  BY CarregarSessoes DEF Mov
<1>3. SemTipo(fila'[s], linhas'[s], "RESERVA")
  BY <1>1, <1>2, SemTipoInicio DEF Tipos
<1>4. pedido[s] \notin DeAdicionar
  BY <1>1 DEF PedidoFim, DeAdicionar
<1>5. \A u \in Sessoes : pedido'[u] \in DeAdicionar => AdicaoCerta(u)'
  BY <1>1, <1>4 DEF SessoesReserva, AdicaoCerta, osVars
<1> QED
  BY <1>1, <1>3, <1>5 DEF SessoesReserva

\* The sum of the lines of an order depends on its lines only.
LEMMA QuantidadeIgual ==
    ASSUME NEW o \in OSs, NEW p \in Produtos, itens' = itens
    PROVE  QuantidadeNaOS(o, p)' = QuantidadeNaOS(o, p)
BY DEF QuantidadeNaOS, PecasNaOS

LEMMA PecasFinitas ==
    ASSUME TypeOS, NEW o \in OSs, NEW p \in Produtos
    PROVE  /\ IsFiniteSet(PecasNaOS(o, p))
           /\ \A i \in PecasNaOS(o, p) : itens[i].qtd \in Int
           /\ QuantidadeNaOS(o, p) \in Int
<1>1. IsFiniteSet(PecasNaOS(o, p))
  BY FinitosAssumption, FS_Subset DEF PecasNaOS
<1>2. \A i \in PecasNaOS(o, p) : itens[i].qtd \in Int
  BY EstoqueAssumption DEF TypeOS, PecasNaOS, ItemOS
<1> DEFINE S == PecasNaOS(o, p)
           f == [i \in S |-> itens[i].qtd]
<1>3. IsFiniteSet(S) /\ \A i \in S : f[i] \in Int
  BY <1>1, <1>2
<1> HIDE DEF S, f
<1>4. SumFunctionOnSet(f, S) \in Int
  BY <1>3, SomaTira
<1> QED
  BY <1>1, <1>2, <1>4 DEF QuantidadeNaOS, S, f

\* The line a session adds moves the sum of its order by what it reserved.
LEMMA AdicionarReserva ==
    ASSUME NEW Outros, ContextoOS(Outros), SessoesReserva, ReservaConfere,
           NEW s \in Sessoes, ConcluirAdicionar(s)
    PROVE  SessoesReserva' /\ ReservaConfere'
<1> DEFINE x == pedido[s]
           i == x.item
           q == x.linha.qtd
<1>1. /\ TypeEstoque /\ Dominios /\ TypeOS
      /\ Gravar(s, x.os) /\ x.os \in OSs /\ x.os \in Refs
      /\ itens' = [itens EXCEPT ![i] = x.linha]
  <2>1. Concluir(s)
    BY DEF Concluir
  <2>2. TypeEstoque /\ Dominios /\ TypeOS
    BY DEF ContextoOS, PedidosTipados, Dominios
  <2> QED
    BY <2>1, <2>2, ConcluirGrava DEF ConcluirAdicionar
<1>2. x \in PedidoItem /\ x \in DeAdicionar
  BY PedidoDaOS DEF ConcluirAdicionar, ContextoOS, DeAdicionar
<1>3. i \in Itens /\ x.linha \in ItemOS /\ x.linha.prod \in Produtos /\ q \in Int
  BY <1>2, EstoqueAssumption DEF PedidoItem, ItemOS
<1>4. x.linha.os = x.os /\ itens[i] = Livre
      /\ Contado(fila[s], linhas[s], PlanoAdicionar(x))
  BY <1>2 DEF SessoesReserva, AdicaoCerta
<1>5. /\ PassoSessoes({}) /\ Acaba(s) /\ PassoRefs({x.os}) /\ fila[s] = {}
      /\ \A p \in Produtos, t \in Tipos :
            porRef'[x.os][p][t] = porRef[x.os][p][t] + linhas[s][p][t]
  BY <1>1, GravarSessoes
<1>6. SessoesReserva'
  <2>1. ASSUME NEW u \in Sessoes, pedido[u] \in DeAdicionar, pedido'[u] = pedido[u]
        PROVE  itens'[pedido[u].item] = itens[pedido[u].item]
    <3>1. u # s
      BY <1>2, <1>5, <2>1, PedidoOSAssumption DEF Acaba, DeAdicionar, PedidoOS
    <3>2. pedido[u].item # i
      BY <1>2, <2>1, <3>1 DEF SessoesReserva
    <3> QED
      BY <1>1, <3>2 DEF TypeOS
  <2> QED
    BY <1>1, <1>5, <2>1, SessoesReservaSeguem
<1>7. ASSUME NEW o \in OSs, NEW p \in Produtos
      PROVE  QuantidadeNaOS(o, p)' = porRef'[o][p]["RESERVA"]
  <2> DEFINE S == PecasNaOS(o, p)
             f == [j \in S |-> itens[j].qtd]
             Z == PecasNaOS(o, p)'
             g == [j \in Z |-> itens'[j].qtd]
             nova == o = x.os /\ p = x.linha.prod /\ x.linha.tipo = "PECA"
  <2>1. /\ QuantidadeNaOS(o, p) = SumFunctionOnSet(f, S)
        /\ QuantidadeNaOS(o, p)' = SumFunctionOnSet(g, Z)
        /\ QuantidadeNaOS(o, p) = porRef[o][p]["RESERVA"]
        /\ QuantidadeNaOS(o, p) \in Int
        /\ IsFiniteSet(S) /\ \A j \in S : f[j] \in Int
    BY <1>1, PecasFinitas DEF QuantidadeNaOS, ReservaConfere
  <2>2. i \notin S /\ \A j \in Itens \ {i} : itens'[j] = itens[j]
    BY <1>1, <1>4 DEF PecasNaOS, TypeOS
  <2>3. itens'[i] = x.linha /\ x.linha # Livre
    BY <1>1, <1>3, PedidoOSAssumption DEF TypeOS
  <2>4. CASE nova
    <3>1. Z = S \cup {i}
      BY <1>3, <1>4, <2>2, <2>3, <2>4 DEF PecasNaOS
    <3>2. g[i] = q /\ \A j \in S : g[j] = f[j]
      <4>1. \A j \in S : j \in Z /\ j \in Itens \ {i}
        BY <2>2, <3>1 DEF PecasNaOS
      <4>2. i \in Z
        BY <3>1
      <4> HIDE DEF Z, S
      <4> QED
        BY <2>2, <2>3, <4>1, <4>2
    <3>3. SumFunctionOnSet(g, Z) = SumFunctionOnSet(f, S) + q
      <4> HIDE DEF f, g, S, Z
      <4>1. SumFunctionOnSet(g, S) = SumFunctionOnSet(f, S)
        BY <2>1, <3>2, SomaIgual
      <4>2. g[i] \in Int /\ i \notin S /\ IsFiniteSet(S) /\ \A j \in S : g[j] \in Int
        BY <1>3, <2>1, <2>2, <3>2
      <4>3. SumFunctionOnSet(g, S \cup {i}) = SumFunctionOnSet(g, S) + g[i]
        <5> HIDE DEF i
        <5> QED
          BY <4>2, SomaPoe
      <4> QED
        BY <3>1, <3>2, <4>1, <4>3
    <3>4. porRef'[o][p]["RESERVA"] = porRef[o][p]["RESERVA"] + q
      <4> DEFINE m == Mov(i, p, "RESERVA", q)
      <4>1. PlanoAdicionar(x) = {m} /\ m.prod = p /\ m.tipos = {"RESERVA"} /\ m.qtd = q
        BY <2>4 DEF PlanoAdicionar, Mov
      <4>2. m \in Movimento
        BY <1>2, <4>1, PlanoAdicionarTipado
      <4>3. DoTipo({m}, p, "RESERVA") = {m}
        BY <4>1 DEF DoTipo
      <4>4. Qtd[m] = q
        BY <4>1, <4>2 DEF Qtd
      <4>5. IsFiniteSet({}) /\ {} \cup {m} = {m} /\ m \notin {}
        BY FS_EmptySet
      <4>6. linhas[s][p]["RESERVA"] = Total({m}, p, "RESERVA")
        <5>1. Contado(fila[s], linhas[s], {m})
          BY <1>4, <4>1
        <5> HIDE DEF m
        <5> QED
          BY <1>5, <5>1, ContadoInteiro DEF Tipos
      <4> HIDE DEF m
      <4>7. SumFunctionOnSet(Qtd, {} \cup {m}) = SumFunctionOnSet(Qtd, {}) + Qtd[m]
        BY <1>3, <4>4, <4>5, SomaPoe
      <4>8. linhas[s][p]["RESERVA"] = q
        BY <1>3, <4>3, <4>4, <4>5, <4>6, <4>7, SomaVazia DEF Total
      <4> QED
        BY <1>5, <2>4, <4>8 DEF Tipos
    <3> QED
      BY <2>1, <3>3, <3>4
  <2>5. CASE ~nova
    <3>1. Z = S
      BY <1>4, <2>2, <2>3, <2>5 DEF PecasNaOS
    <3>2. g = f
      <4>1. \A j \in S : j \in Itens \ {i}
        BY <2>2 DEF PecasNaOS
      <4> HIDE DEF S, Z
      <4> QED
        BY <2>2, <3>1, <4>1
    <3>3. porRef'[o][p]["RESERVA"] = porRef[o][p]["RESERVA"]
      <4>1. CASE o # x.os
        BY <1>5, <4>1, OrdemServicoAssumption DEF PassoRefs
      <4>2. CASE o = x.os
        <5>1. DoTipo(PlanoAdicionar(x), p, "RESERVA") = {}
          BY <2>5, <4>2 DEF DoTipo, PlanoAdicionar, Mov
        <5>2. linhas[s][p]["RESERVA"] = 0
          BY <1>4, <1>5, <5>1, ContadoInteiro, TotalVazio DEF Tipos
        <5> QED
          BY <1>5, <2>1, <4>2, <5>2 DEF Tipos
      <4> QED
        BY <4>1, <4>2
    <3> QED
      BY <2>1, <3>1, <3>2, <3>3
  <2> QED
    BY <2>4, <2>5
<1> QED
  BY <1>6, <1>7 DEF ReservaConfere

\* The other commits add no reservation.
LEMMA DemaisReserva ==
    ASSUME NEW Outros, ContextoOS(Outros), SessoesReserva, ReservaConfere,
           NEW s \in Sessoes,
           ConcluirRemover(s) \/ ConcluirStatus(s) \/ ConcluirFechar(s) \/ ConcluirCancelar(s)
    PROVE  SessoesReserva' /\ ReservaConfere'
<1> DEFINE x == pedido[s]
<1>1. /\ TypeEstoque /\ Dominios /\ TypeOS
      /\ Gravar(s, x.os) /\ x \in PedidoOS /\ x.os \in OSs /\ x.os \in Refs
  <2>1. Concluir(s)
    BY DEF Concluir
  <2>2. TypeEstoque /\ Dominios /\ TypeOS
    BY DEF ContextoOS, PedidosTipados, Dominios
  <2> QED
    BY <2>1, <2>2, ConcluirGrava
<1>2. itens' = itens /\ x \notin DeAdicionar
  BY DEF ConcluirRemover, ConcluirStatus, ConcluirFechar, ConcluirCancelar, DeAdicionar
<1>3. /\ PassoSessoes({}) /\ PassoRefs({x.os})
      /\ \A p \in Produtos, t \in Tipos :
            porRef'[x.os][p][t] = porRef[x.os][p][t] + linhas[s][p][t]
  BY <1>1, GravarSessoes
<1>4. \A p \in Produtos : linhas[s][p]["RESERVA"] = 0
  BY <1>1, <1>2 DEF SessoesReserva, SemTipo
<1>5. SessoesReserva'
  BY <1>1, <1>2, <1>3, SessoesReservaSeguem
<1>6. ASSUME NEW o \in OSs, NEW p \in Produtos
      PROVE  QuantidadeNaOS(o, p)' = porRef'[o][p]["RESERVA"]
  <2>1. QuantidadeNaOS(o, p)' = porRef[o][p]["RESERVA"] /\ porRef[o][p]["RESERVA"] \in Int
    BY <1>1, <1>2, QuantidadeIgual, PecasFinitas DEF ReservaConfere
  <2>2. CASE o = x.os
    BY <1>3, <1>4, <2>1, <2>2 DEF Tipos
  <2>3. CASE o # x.os
    BY <1>3, <2>1, <2>3, OrdemServicoAssumption DEF PassoRefs
  <2> QED
    BY <2>2, <2>3
<1> QED
  BY <1>5, <1>6 DEF ReservaConfere

\* The steps of the handlers of the OS.
LEMMA ProximoReserva ==
    ASSUME NEW Outros, ContextoOS(Outros), SessoesReserva, ReservaConfere, NextOS
    PROVE  SessoesReserva' /\ ReservaConfere'
<1>1. TypeEstoque /\ Dominios
  BY DEF ContextoOS, PedidosTipados, Dominios
<1>2. ASSUME UNCHANGED <<porRef, osVars>>
      PROVE  ReservaConfere'
  BY <1>2, QuantidadeIgual DEF ReservaConfere, osVars
<1>3. ASSUME NEW o \in OSs, Abrir(o)
      PROVE  SessoesReserva' /\ ReservaConfere'
  <2>1. UNCHANGED <<pedido, fase, fila, linhas, porRef, itens>>
    BY <1>3 DEF Abrir, memoria, banco
  <2> QED
    BY <2>1, QuantidadeIgual DEF SessoesReserva, AdicaoCerta, ReservaConfere
<1>4. ASSUME NEW s \in Sessoes, Pedir(s) \/ CarregarItens(s)
      PROVE  SessoesReserva' /\ ReservaConfere'
  BY <1>2, <1>4, PedirReserva, CarregarReserva
<1>5. ASSUME NEW s \in Sessoes, Movimentar(s)
      PROVE  SessoesReserva' /\ ReservaConfere'
  <2>1. PICK m \in fila[s] : RegistrarMovimentacao(s, m)
    BY <1>5 DEF Movimentar
  <2>2. UNCHANGED osVars /\ itens' = itens
    BY <1>5 DEF Movimentar, osVars
  <2>3. PassoSessoes({}) /\ UNCHANGED porRef
    BY <1>1, <2>1, MovimentarSessoes DEF banco
  <2> QED
    BY <1>1, <1>2, <2>2, <2>3, SessoesReservaSeguem
<1>6. ASSUME NEW s \in Sessoes, Recusar(s) \/ DetectarDeadlock(s) \/ Cair(s)
      PROVE  SessoesReserva' /\ ReservaConfere'
  <2>1. SessaoLimpa(s) /\ UNCHANGED <<porRef, osVars>> /\ itens' = itens
    BY <1>6, DesistirLimpa DEF banco, osVars
  <2>2. PassoSessoes({})
    BY <1>1, <2>1, LimpaSessoes
  <2> QED
    BY <1>1, <1>2, <2>1, <2>2, SessoesReservaSeguem
<1>7. ASSUME NEW s \in Sessoes, Concluir(s)
      PROVE  SessoesReserva' /\ ReservaConfere'
  BY <1>7, AdicionarReserva, DemaisReserva DEF Concluir
<1> QED
  BY <1>3, <1>4, <1>5, <1>6, <1>7 DEF NextOS, Atender

\* The steps of the other handlers.
LEMMA AlheioReserva ==
    ASSUME TypeEstoque, SessoesReserva, ReservaConfere, NEW P, P \cap PedidoOS = {},
           PassoSessoes(P), PassoRefs(Refs \ OSs), itens' = itens
    PROVE  SessoesReserva' /\ ReservaConfere'
<1>1. SessoesReserva'
  BY SessoesReservaSeguem
<1>2. \A o \in OSs : porRef'[o] = porRef[o]
  BY OrdemServicoAssumption DEF PassoRefs
<1> QED
  BY <1>1, <1>2, QuantidadeIgual DEF ReservaConfere

-----------------------------------------------------------------------------
(***************************************************************************)
(* One request at a time: the status a handler has checked still holds     *)
(* when it commits, so a closed or cancelled order is left alone.          *)
(***************************************************************************)
PecasDaOS(o) == {i \in Itens : itens[i] # Livre /\ itens[i].os = o /\ itens[i].tipo = "PECA"}

\* What cancelar releases.
PlanoLiberar(o) == {Mov(i, itens[i].prod, "LIBERACAO", itens[i].qtd) : i \in PecasDaOS(o)}

\* The order of a request is open, and a cancellation that has read the lines
\* releases all of them.
PedidoAtual(s) ==
    /\ pedido[s] \in PedidoOS => os[pedido[s].os] \in Editaveis
    /\ pedido[s] \in PedidoFim /\ pedido[s].op = "cancelar" /\ fase[s] = "movendo"
          => Contado(fila[s], linhas[s], PlanoLiberar(pedido[s].os))

PedidosAtuais == \A s \in Sessoes : PedidoAtual(s)

\* The order has no line of negative quantity for the product.
SoPositivas(o, p) == \A i \in PecasNaOS(o, p) : itens[i].qtd >= 0

\* While that is so, a request on the order releases nothing negative of the product.
LiberaPositivas(s) == \A p \in Produtos : SoPositivas(pedido[s].os, p) =>
    /\ linhas[s][p]["LIBERACAO"] >= 0
    /\ \A m \in fila[s] : m.prod = p /\ "LIBERACAO" \in m.tipos => m.qtd >= 0

LiberamPositivas == \A s \in Sessoes : pedido[s] \in PedidoOS => LiberaPositivas(s)

Liberadas ==
    /\ LiberamPositivas
    /\ \A o \in OSs, p \in Produtos : SoPositivas(o, p) => porRef[o][p]["LIBERACAO"] >= 0
    /\ CanceladaLiberaTudo

\* A line stays as it was added.
LinhasFicam == \A i \in Itens : itens[i] # Livre => itens'[i] = itens[i]

\* A terminal order keeps its status and its rows.
FinalFica == \A o \in OSs : os[o] \in {"FECHADA", "CANCELADA"} =>
                 os'[o] = os[o] /\ porRef'[o] = porRef[o]

LEMMA PlanoLiberarTipado ==
    ASSUME TypeOS, NEW o
    PROVE  PlanoLiberar(o) \in SUBSET Movimento /\ IsFiniteSet(PlanoLiberar(o))
<1> DEFINE I == PecasDaOS(o)
           mov == [i \in I |-> Mov(i, itens[i].prod, "LIBERACAO", itens[i].qtd)]
<1>1. \A i \in I : itens[i] \in ItemOS
  BY DEF TypeOS, PecasDaOS
<1>2. \A i \in I : mov[i] \in Movimento
  BY <1>1, MovTipado DEF ItemOS, Tipos, PecasDaOS
<1>3. IsFiniteSet(I)
  BY FinitosAssumption, FS_Subset DEF PecasDaOS
<1>4. PlanoLiberar(o) = {mov[i] : i \in I}
  BY DEF PlanoLiberar
<1> HIDE DEF mov, I
<1> QED
  BY <1>2, <1>3, <1>4, ImagemFinita

\* A cancellation releases every part the order has, product by product.
LEMMA LiberaAsLinhas ==
    ASSUME TypeOS, NEW o \in OSs, NEW p \in Produtos
    PROVE  Total(PlanoLiberar(o), p, "LIBERACAO") = QuantidadeNaOS(o, p)
<1> DEFINE I == PecasDaOS(o)
           mov == [i \in I |-> Mov(i, itens[i].prod, "LIBERACAO", itens[i].qtd)]
           f == [i \in PecasNaOS(o, p) |-> itens[i].qtd]
<1>1. \A i \in I : itens[i] \in ItemOS
  BY DEF TypeOS, PecasDaOS
<1>2. \A i \in I : mov[i] \in Movimento /\ mov[i].item = i /\ "LIBERACAO" \in mov[i].tipos
  <2> SUFFICES ASSUME NEW i \in I
               PROVE  mov[i] \in Movimento /\ mov[i].item = i /\ "LIBERACAO" \in mov[i].tipos
    OBVIOUS
  <2>1. mov[i] = Mov(i, itens[i].prod, "LIBERACAO", itens[i].qtd)
    OBVIOUS
  <2>2. i \in Itens /\ itens[i].prod \in Produtos /\ itens[i].qtd \in Quantidades
    BY <1>1 DEF ItemOS, PecasDaOS
  <2> HIDE DEF mov
  <2>3. mov[i] \in Movimento
    BY <2>1, <2>2, MovTipado DEF Tipos
  <2> QED
    BY <2>1, <2>3 DEF Mov
<1>3. IsFiniteSet(I)
  BY FinitosAssumption, FS_Subset DEF PecasDaOS
<1>4. PlanoLiberar(o) = {mov[i] : i \in I}
  BY DEF PlanoLiberar
<1>5. PecasNaOS(o, p) = {i \in I : mov[i].prod = p}
  BY DEF PecasNaOS, PecasDaOS, Mov
<1>6. \A i \in I : mov[i].prod = p => f[i] = mov[i].qtd
  BY <1>5 DEF Mov
<1>7. QuantidadeNaOS(o, p) = SumFunctionOnSet(f, PecasNaOS(o, p))
  BY DEF QuantidadeNaOS
<1> HIDE DEF mov, I, f
<1>8. Total({mov[i] : i \in I}, p, "LIBERACAO") = SumFunctionOnSet(f, {i \in I : mov[i].prod = p})
  BY <1>2, <1>3, <1>6, TotalDoPlano
<1> QED
  BY <1>4, <1>5, <1>7, <1>8

\* A step that starts or prepares no OS request and leaves the tables alone.
LEMMA AtuaisSeguem ==
    ASSUME TypeEstoque, TypeOS, PedidosAtuais, itens' = itens,
           \A o \in OSs : os[o] \in Editaveis => os'[o] \in Editaveis,
           NEW P, P \cap PedidoOS = {}, PassoSessoes(P)
    PROVE  PedidosAtuais'
<1> SUFFICES ASSUME NEW s \in Sessoes, pedido'[s] \in PedidoOS
             PROVE  PedidoAtual(s)'
  BY DEF PedidosAtuais, PedidoAtual, PedidoOS
<1>1. Continua(s) /\ pedido'[s] = pedido[s] /\ fase'[s] = fase[s] /\ pedido[s] \in PedidoOS
  BY SessaoSegue, PedidoOSAssumption DEF Continua
<1>2. pedido[s].os \in OSs
  BY <1>1 DEF PedidoOS, PedidoItem, PedidoStatus, PedidoFim
<1> DEFINE M == PlanoLiberar(pedido[s].os)
<1>3. M = PlanoLiberar(pedido[s].os)' /\ M \in SUBSET Movimento /\ IsFiniteSet(M)
  BY <1>1, PlanoLiberarTipado DEF PlanoLiberar, PecasDaOS
<1> HIDE DEF M
<1>4. Contado(fila[s], linhas[s], M) => Contado(fila'[s], linhas'[s], M)
  BY <1>1, <1>3, ContadoContinua
<1>5. PedidoAtual(s)
  BY DEF PedidosAtuais
<1>6. os'[pedido[s].os] \in Editaveis
  BY <1>1, <1>2, <1>5 DEF PedidoAtual
<1>7. pedido[s] \in PedidoFim /\ pedido[s].op = "cancelar" /\ fase[s] = "movendo"
         => Contado(fila[s], linhas[s], M)
  BY <1>5 DEF PedidoAtual, M
<1> QED
  BY <1>1, <1>3, <1>4, <1>6, <1>7 DEF PedidoAtual

\* The handlers, up to their commits.
LEMMA PedirAtual ==
    ASSUME NEW Outros, ContextoOS(Outros), PedidosAtuais, NEW s \in Sessoes, Pedir(s)
    PROVE  PedidosAtuais' /\ UNCHANGED <<porRef, osVars>>
<1>1. PICK o \in OSs :
         \/ \E i \in Itens, linha \in ItemOS : AdicionarItem(s, o, i, linha)
         \/ \E i \in Itens : RemoverItem(s, o, i)
         \/ \E novo \in StatusOS : AtualizarStatus(s, o, novo)
         \/ Fechar(s, o) \/ Cancelar(s, o)
  BY DEF Pedir
<1>2. /\ Comeca(s) /\ pedido'[s].os = o
      /\ pedido'[s].op # "cancelar" \/ fase'[s] = "itens"
  BY <1>1, AdicionarComeca, RemoverComeca, StatusComeca, FimComeca
<1>3. os[o] \in Editaveis
  BY <1>1, TransicaoEditavel DEF AdicionarItem, RemoverItem, AtualizarStatus, Fechar, Cancelar
<1>4. UNCHANGED <<porRef, osVars>> /\ os' = os /\ itens' = itens
      /\ \A u \in Sessoes \ {s} : /\ pedido'[u] = pedido[u] /\ fase'[u] = fase[u]
                                  /\ fila'[u] = fila[u] /\ linhas'[u] = linhas[u]
  BY <1>2 DEF Comeca, osVars
<1>5. PedidoAtual(s)'
  BY <1>2, <1>3, <1>4 DEF PedidoAtual
<1>6. ASSUME NEW u \in Sessoes \ {s}
      PROVE  PedidoAtual(u)'
  <2>1. PlanoLiberar(pedido[u].os)' = PlanoLiberar(pedido[u].os) /\ PedidoAtual(u)
    BY <1>4 DEF PlanoLiberar, PecasDaOS, PedidosAtuais
  <2> QED
    BY <1>4, <2>1 DEF PedidoAtual
<1> QED
  BY <1>4, <1>5, <1>6 DEF PedidosAtuais

LEMMA CarregarAtual ==
    ASSUME NEW Outros, ContextoOS(Outros), PedidosAtuais, NEW s \in Sessoes, CarregarItens(s)
    PROVE  PedidosAtuais' /\ UNCHANGED <<porRef, osVars>>
<1> PICK o : o = pedido[s].os
  OBVIOUS
<1> DEFINE M == PlanoLiberar(o)
<1>1. /\ pedido[s] \in PedidoFim /\ linhas'[s] = SemLinhas
      /\ pedido[s].op = "cancelar" => fila'[s] = M
      /\ \A u \in Sessoes \ {s} : fase'[u] = fase[u] /\ fila'[u] = fila[u]
      /\ UNCHANGED <<pedido, linhas, porRef, osVars>>
  BY CarregarSessoes DEF PlanoLiberar, PecasDaOS
<1>2. os' = os /\ itens' = itens
  BY <1>1 DEF osVars
<1>3. M = PlanoLiberar(o)'
  BY <1>2 DEF PlanoLiberar, PecasDaOS
<1> HIDE DEF M
<1>4. pedido[s].op = "cancelar" => Contado(fila'[s], linhas'[s], M)
  BY <1>1, ContadoInicio
<1>5. PedidoAtual(s)'
  BY <1>1, <1>2, <1>3, <1>4 DEF PedidoAtual, PedidosAtuais
<1>6. ASSUME NEW u \in Sessoes \ {s}
      PROVE  PedidoAtual(u)'
  <2>1. PlanoLiberar(pedido[u].os)' = PlanoLiberar(pedido[u].os) /\ PedidoAtual(u)
    BY <1>1, <1>2 DEF PlanoLiberar, PecasDaOS, PedidosAtuais
  <2> QED
    BY <1>1, <1>2, <2>1 DEF PedidoAtual
<1> QED
  BY <1>1, <1>5, <1>6 DEF PedidosAtuais

\* A commit ends the only session, on an order that is still open.
LEMMA ConcluirAtual ==
    ASSUME SessaoUnica, NEW Outros, ContextoOS(Outros), PedidosAtuais,
           NEW s \in Sessoes, Concluir(s), NEW o \in OSs, o = pedido[s].os
    PROVE  /\ PedidosAtuais' /\ FinalFica
           /\ os[o] \in Editaveis /\ fase[s] = "movendo" /\ fila[s] = {}
           /\ \A p \in Produtos, t \in Tipos : porRef'[o][p][t] = porRef[o][p][t] + linhas[s][p][t]
           /\ \A q \in OSs \ {o} : porRef'[q] = porRef[q] /\ os'[q] = os[q]
<1>1. pedido[s] \in PedidoOS /\ o \in Refs /\ Gravar(s, o)
  BY ConcluirGrava
<1>2. TypeEstoque /\ TypeOS /\ Dominios
  BY DEF ContextoOS, PedidosTipados, Dominios
<1>3. /\ PassoRefs({o}) /\ Acaba(s) /\ fase[s] = "movendo" /\ fila[s] = {}
      /\ \A p \in Produtos, t \in Tipos : porRef'[o][p][t] = porRef[o][p][t] + linhas[s][p][t]
  BY <1>1, <1>2, GravarSessoes
<1>4. PedidosAtuais'
  BY <1>3, PedidoOSAssumption DEF SessaoUnica, Acaba, PedidosAtuais, PedidoAtual, PedidoOS
<1>5. os[o] \in Editaveis
  BY <1>1 DEF PedidosAtuais, PedidoAtual
<1>6. \A q \in OSs \ {o} : os'[q] = os[q]
  BY <1>2 DEF Concluir, ConcluirAdicionar, ConcluirRemover, ConcluirStatus, ConcluirFechar,
              ConcluirCancelar, TypeOS
<1>7. \A q \in OSs \ {o} : porRef'[q] = porRef[q]
  BY <1>3, OrdemServicoAssumption DEF PassoRefs
<1> QED
  BY <1>3, <1>4, <1>5, <1>6, <1>7 DEF FinalFica, Editaveis

\* Between commits, an order is opened or nothing is written.
LEMMA AntesDoFim ==
    ASSUME NEW Outros, ContextoOS(Outros), PedidosAtuais, NextOS,
           ~\E s \in Sessoes : Concluir(s)
    PROVE  /\ PedidosAtuais' /\ porRef' = porRef
           /\ \A o \in OSs : \/ os'[o] = os[o]
                             \/ os[o] \notin StatusOS /\ os'[o] = "ABERTA"
<1>1. TypeEstoque /\ TypeOS /\ Dominios
  BY DEF ContextoOS, PedidosTipados, Dominios
<1>2. CASE \E o \in OSs : Abrir(o)
  <2>1. PICK o \in OSs : Abrir(o)
    BY <1>2
  <2>2. /\ UNCHANGED <<porRef, pedido, fase, fila, linhas>> /\ itens' = itens
        /\ os[o] = Livre /\ os' = [os EXCEPT ![o] = "ABERTA"]
    BY <2>1 DEF Abrir, banco, memoria
  <2>3. PassoSessoes({}) /\ Livre \notin StatusOS
    BY <2>2, SessoesIguais, OrdemServicoAssumption
  <2>4. PedidosAtuais'
    BY <1>1, <2>2, <2>3, AtuaisSeguem DEF TypeOS, Editaveis
  <2> QED
    BY <1>1, <2>2, <2>3, <2>4 DEF TypeOS
<1>3. ASSUME NEW s \in Sessoes, Pedir(s) \/ CarregarItens(s)
      PROVE  PedidosAtuais' /\ porRef' = porRef /\ os' = os
  BY <1>3, PedirAtual, CarregarAtual DEF osVars
<1>4. ASSUME NEW s \in Sessoes, Movimentar(s)
      PROVE  PedidosAtuais' /\ porRef' = porRef /\ os' = os
  <2>1. PICK m \in fila[s] : RegistrarMovimentacao(s, m)
    BY <1>4 DEF Movimentar
  <2>2. PassoSessoes({}) /\ porRef' = porRef /\ os' = os /\ itens' = itens
    BY <1>1, <1>4, <2>1, MovimentarSessoes DEF banco, Movimentar, osVars
  <2> QED
    BY <1>1, <2>2, AtuaisSeguem
<1>5. ASSUME NEW s \in Sessoes, Recusar(s) \/ DetectarDeadlock(s) \/ Cair(s)
      PROVE  PedidosAtuais' /\ porRef' = porRef /\ os' = os
  <2>1. PassoSessoes({}) /\ porRef' = porRef /\ os' = os /\ itens' = itens
    BY <1>1, <1>5, DesistirLimpa, LimpaSessoes DEF banco, osVars
  <2> QED
    BY <1>1, <2>1, AtuaisSeguem
<1> QED
  BY <1>2, <1>3, <1>4, <1>5 DEF NextOS, Atender

LEMMA ProximoAtual ==
    ASSUME SessaoUnica, NEW Outros, ContextoOS(Outros), PedidosAtuais, NextOS
    PROVE  PedidosAtuais' /\ FinalFica
<1>1. ASSUME NEW s \in Sessoes, Concluir(s)
      PROVE  PedidosAtuais' /\ FinalFica
  BY <1>1, ConcluirGrava, ConcluirAtual
<1>2. CASE ~\E s \in Sessoes : Concluir(s)
  BY <1>2, AntesDoFim DEF FinalFica, StatusOS
<1> QED
  BY <1>1, <1>2

\* Lines are only added, so an order without negative lines had none before.
LEMMA PositivasAntes ==
    ASSUME LinhasFicam, NEW o, NEW p, SoPositivas(o, p)'
    PROVE  SoPositivas(o, p)
BY DEF LinhasFicam, SoPositivas, PecasNaOS

\* A step that starts or prepares no OS request.
LEMMA PositivasSeguem ==
    ASSUME TypeEstoque, LiberamPositivas, LinhasFicam,
           NEW P, P \cap PedidoOS = {}, PassoSessoes(P)
    PROVE  LiberamPositivas'
<1> SUFFICES ASSUME NEW s \in Sessoes, pedido'[s] \in PedidoOS,
                    NEW p \in Produtos, SoPositivas(pedido[s].os, p)
             PROVE  /\ linhas'[s][p]["LIBERACAO"] >= 0
                    /\ \A m \in fila'[s] : m.prod = p /\ "LIBERACAO" \in m.tipos => m.qtd >= 0
  <2>1. ASSUME NEW s \in Sessoes, pedido'[s] \in PedidoOS
        PROVE  pedido'[s] = pedido[s]
    BY <2>1, SessaoSegue, PedidoOSAssumption DEF Continua
  <2> QED
    BY <2>1, PositivasAntes DEF LiberamPositivas, LiberaPositivas
<1>1. Continua(s) /\ pedido[s] \in PedidoOS
  BY SessaoSegue, PedidoOSAssumption
<1>2. /\ linhas[s][p]["LIBERACAO"] >= 0
      /\ \A m \in fila[s] : m.prod = p /\ "LIBERACAO" \in m.tipos => m.qtd >= 0
  BY <1>1 DEF LiberamPositivas, LiberaPositivas
<1>3. CASE fila'[s] = fila[s] /\ linhas'[s] = linhas[s]
  BY <1>2, <1>3
<1>4. ASSUME NEW n \in fila[s], RegistrarMovimentacao(s, n)
      PROVE  /\ linhas'[s][p]["LIBERACAO"] >= 0
             /\ \A m \in fila'[s] : m.prod = p /\ "LIBERACAO" \in m.tipos => m.qtd >= 0
  <2>1. fila'[s] \subseteq fila[s]
    BY <1>4 DEF RegistrarMovimentacao, TypeEstoque
  <2>2. n \in Movimento /\ n.qtd \in Int
    BY MovimentoTipado DEF TypeEstoque
  <2>3. "LIBERACAO" \in Contas /\ "LIBERACAO" \in Tipos
    BY DEF Contas, Tipos
  <2>4. linhas[s][p]["LIBERACAO"] \in Int
    BY <2>3 DEF TypeEstoque
  <2>5. CASE p = n.prod
    <3>1. linhas'[s][p]["LIBERACAO"]
             = linhas[s][p]["LIBERACAO"] + (IF "LIBERACAO" \in n.tipos THEN n.qtd ELSE 0)
      <4>1. linhas'[s][n.prod] = [c \in Contas |-> linhas[s][n.prod][c] + Parcela(n, c)]
        BY <1>4, RegistrarPonto
      <4>2. Parcela(n, "LIBERACAO") = IF "LIBERACAO" \in n.tipos THEN n.qtd ELSE 0
        BY <2>2, <2>3, ParcelaCasos
      <4> QED
        BY <2>3, <2>5, <4>1, <4>2
    <3> QED
      BY <1>2, <2>1, <2>2, <2>4, <2>5, <3>1
  <2>6. CASE p # n.prod
    <3>1. linhas'[s][p] = linhas[s][p]
      BY <1>4, <2>6, RegistrarOutros
    <3> QED
      BY <1>2, <2>1, <3>1
  <2> QED
    BY <2>5, <2>6
<1> QED
  BY <1>1, <1>3, <1>4 DEF Continua

\* A line of an order, released.
LEMMA LiberaLinha ==
    ASSUME TypeOS, NEW i \in Itens, itens[i] # Livre, itens[i].tipo = "PECA", NEW m,
           m = Mov(i, itens[i].prod, "LIBERACAO", itens[i].qtd), NEW p,
           m.prod = p, SoPositivas(itens[i].os, p)
    PROVE  m.qtd >= 0
BY DEF Mov, SoPositivas, PecasNaOS

LEMMA ComecaPositivas ==
    ASSUME LiberamPositivas, NEW s \in Sessoes, Comeca(s),
           \A p \in Produtos, m \in fila'[s] :
              SoPositivas(pedido'[s].os, p) /\ m.prod = p /\ "LIBERACAO" \in m.tipos => m.qtd >= 0
    PROVE  LiberamPositivas' /\ itens' = itens
<1>1. /\ \A u \in Sessoes \ {s} : /\ pedido'[u] = pedido[u]
                                  /\ fila'[u] = fila[u] /\ linhas'[u] = linhas[u]
      /\ itens' = itens /\ linhas'[s] = SemLinhas
  BY DEF Comeca, osVars
<1>2. \A o, p : SoPositivas(o, p)' = SoPositivas(o, p)
  BY <1>1 DEF SoPositivas, PecasNaOS
<1>3. \A p \in Produtos : SemLinhas[p]["LIBERACAO"] = 0
  BY SaldoVazio DEF Contas, Tipos
<1>4. LiberaPositivas(s)'
  BY <1>1, <1>2, <1>3 DEF LiberaPositivas
<1>5. \A u \in Sessoes \ {s} : pedido'[u] \in PedidoOS => LiberaPositivas(u)'
  BY <1>1, <1>2 DEF LiberaPositivas, LiberamPositivas
<1> QED
  BY <1>1, <1>4, <1>5 DEF LiberamPositivas

LEMMA PedirPositivas ==
    ASSUME NEW Outros, ContextoOS(Outros), LiberamPositivas, NEW s \in Sessoes, Pedir(s)
    PROVE  LiberamPositivas' /\ itens' = itens
<1>1. PICK o \in OSs :
         \/ \E i \in Itens, linha \in ItemOS : AdicionarItem(s, o, i, linha)
         \/ \E i \in Itens : RemoverItem(s, o, i)
         \/ \E novo \in StatusOS : AtualizarStatus(s, o, novo)
         \/ Fechar(s, o)
         \/ Cancelar(s, o)
  BY DEF Pedir
<1>2. ASSUME NEW i \in Itens, NEW linha \in ItemOS, AdicionarItem(s, o, i, linha)
      PROVE  LiberamPositivas' /\ itens' = itens
  <2> DEFINE m0 == Mov(i, linha.prod, "RESERVA", linha.qtd)
  <2>1. m0.tipos = {"RESERVA"}
    BY DEF Mov
  <2> HIDE DEF m0
  <2>2. Comeca(s) /\ fila'[s] = IF linha.tipo = "PECA" THEN {m0} ELSE {}
    BY <1>2, AdicionarComeca DEF m0
  <2> QED
    BY <2>1, <2>2, ComecaPositivas
<1>3. ASSUME NEW i \in Itens, RemoverItem(s, o, i)
      PROVE  LiberamPositivas' /\ itens' = itens
  <2>1. TypeOS /\ itens[i] # Livre /\ itens[i].os = o
    BY <1>3 DEF RemoverItem, ContextoOS
  <2> DEFINE m0 == Mov(i, itens[i].prod, "LIBERACAO", itens[i].qtd)
  <2>2. /\ Comeca(s) /\ pedido'[s].os = o
        /\ fila'[s] = IF itens[i].tipo = "PECA" THEN {m0} ELSE {}
    BY <1>3, RemoverComeca
  <2> HIDE DEF m0
  <2>3. ASSUME NEW p \in Produtos, SoPositivas(o, p), itens[i].tipo = "PECA", m0.prod = p
        PROVE  m0.qtd >= 0
    BY <2>1, <2>3, LiberaLinha DEF m0
  <2> QED
    BY <2>2, <2>3, ComecaPositivas
<1>4. CASE (\E novo \in StatusOS : AtualizarStatus(s, o, novo)) \/ Fechar(s, o) \/ Cancelar(s, o)
  <2>1. Comeca(s) /\ fila'[s] = {}
    BY <1>4, StatusComeca, FimComeca
  <2> QED
    BY <2>1, ComecaPositivas
<1> QED
  BY <1>1, <1>2, <1>3, <1>4

LEMMA CarregarPositivas ==
    ASSUME NEW Outros, ContextoOS(Outros), LiberamPositivas, NEW s \in Sessoes, CarregarItens(s)
    PROVE  LiberamPositivas' /\ itens' = itens
<1>1. /\ linhas'[s] = SemLinhas /\ UNCHANGED <<pedido, linhas>> /\ itens' = itens
      /\ \A u \in Sessoes \ {s} : fila'[u] = fila[u]
  BY CarregarSessoes DEF osVars
<1>2. \A o, p : SoPositivas(o, p)' = SoPositivas(o, p)
  BY <1>1 DEF SoPositivas, PecasNaOS
<1>3. \A p \in Produtos : SemLinhas[p]["LIBERACAO"] = 0
  BY SaldoVazio DEF Contas, Tipos
<1>4. ASSUME NEW p \in Produtos, SoPositivas(pedido[s].os, p), NEW m \in fila'[s],
             m.prod = p, "LIBERACAO" \in m.tipos
      PROVE  m.qtd >= 0
  <2>1. PICK i \in Itens :
            /\ itens[i] # Livre /\ itens[i].os = pedido[s].os /\ itens[i].tipo = "PECA"
            /\ m = Mov(i, itens[i].prod,
                       IF pedido[s].op = "fechar" THEN "SAIDA" ELSE "LIBERACAO", itens[i].qtd)
    BY CarregarSessoes
  <2>2. m = Mov(i, itens[i].prod, "LIBERACAO", itens[i].qtd)
    BY <1>4, <2>1 DEF Mov
  <2> QED
    BY <1>4, <2>1, <2>2, LiberaLinha DEF ContextoOS
<1>5. LiberaPositivas(s)'
  BY <1>1, <1>2, <1>3, <1>4 DEF LiberaPositivas
<1>6. \A u \in Sessoes \ {s} : pedido'[u] \in PedidoOS => LiberaPositivas(u)'
  BY <1>1, <1>2 DEF LiberaPositivas, LiberamPositivas
<1> QED
  BY <1>1, <1>5, <1>6 DEF LiberamPositivas

\* Only a commit adds a line, under an id no row has.
LEMMA ProximoPositivas ==
    ASSUME NEW Outros, ContextoOS(Outros), SessoesReserva, LiberamPositivas, NextOS
    PROVE  /\ LiberamPositivas' /\ LinhasFicam
           /\ (~\E s \in Sessoes : Concluir(s)) => itens' = itens
<1>1. TypeEstoque /\ TypeOS /\ Dominios
  BY DEF ContextoOS, PedidosTipados, Dominios
<1>2. itens' = itens => LinhasFicam
  BY DEF LinhasFicam
<1>3. CASE \E o \in OSs : Abrir(o)
  <2>1. UNCHANGED <<pedido, fase, fila, linhas>> /\ itens' = itens
    BY <1>3 DEF Abrir, memoria, banco
  <2>2. PassoSessoes({})
    BY <2>1, SessoesIguais
  <2> QED
    BY <1>1, <1>2, <2>1, <2>2, PositivasSeguem
<1>4. ASSUME NEW s \in Sessoes, Pedir(s) \/ CarregarItens(s)
      PROVE  LiberamPositivas' /\ itens' = itens
  BY <1>4, PedirPositivas, CarregarPositivas
<1>5. ASSUME NEW s \in Sessoes, Movimentar(s)
      PROVE  LiberamPositivas' /\ itens' = itens
  <2>1. PICK m \in fila[s] : RegistrarMovimentacao(s, m)
    BY <1>5 DEF Movimentar
  <2>2. PassoSessoes({}) /\ itens' = itens
    BY <1>1, <1>5, <2>1, MovimentarSessoes DEF Movimentar, osVars
  <2> QED
    BY <1>1, <1>2, <2>2, PositivasSeguem
<1>6. ASSUME NEW s \in Sessoes, Recusar(s) \/ DetectarDeadlock(s) \/ Cair(s)
      PROVE  LiberamPositivas' /\ itens' = itens
  <2>1. PassoSessoes({}) /\ itens' = itens
    BY <1>1, <1>6, DesistirLimpa, LimpaSessoes DEF osVars
  <2> QED
    BY <1>1, <1>2, <2>1, PositivasSeguem
<1>7. ASSUME NEW s \in Sessoes, Concluir(s)
      PROVE  LiberamPositivas' /\ LinhasFicam
  <2>1. /\ PassoSessoes({}) /\ pedido[s] \in PedidoOS
        /\ PedidosTipados(Outros) /\ DeOutros(Outros)
    BY <1>1, <1>7, ConcluirGrava, GravarSessoes DEF ContextoOS
  <2>2. ASSUME ConcluirAdicionar(s)
        PROVE  LinhasFicam
    <3>1. pedido[s] \in DeAdicionar
      BY <2>1, <2>2, PedidoDaOS DEF ConcluirAdicionar, DeAdicionar
    <3>2. itens[pedido[s].item] = Livre /\ itens' = [itens EXCEPT ![pedido[s].item] = pedido[s].linha]
      BY <2>2, <3>1 DEF SessoesReserva, AdicaoCerta, ConcluirAdicionar
    <3>3. ASSUME NEW j \in Itens, itens[j] # Livre
          PROVE  itens'[j] = itens[j]
      <4>1. j # pedido[s].item /\ j \in DOMAIN itens
        BY <1>1, <3>2, <3>3 DEF TypeOS
      <4> QED
        BY <3>2, <4>1
    <3> QED
      BY <3>3 DEF LinhasFicam
  <2>3. ASSUME ~ConcluirAdicionar(s)
        PROVE  LinhasFicam
    <3>1. itens' = itens
      BY <1>7, <2>3
      DEF Concluir, ConcluirRemover, ConcluirStatus, ConcluirFechar, ConcluirCancelar
    <3> QED
      BY <1>2, <3>1
  <2>4. LinhasFicam
    BY <2>2, <2>3
  <2> QED
    BY <1>1, <2>1, <2>4, PositivasSeguem
<1> QED
  BY <1>2, <1>3, <1>4, <1>5, <1>6, <1>7 DEF NextOS, Atender

\* A commit that leaves the order CANCELADA is that of a cancellation, which has
\* released whatever the order had reserved.
LEMMA ConcluirLibera ==
    ASSUME SessaoUnica, NEW Outros, ContextoOS(Outros), SessoesReserva, ReservaConfere,
           PedidosAtuais, Liberadas, NextOS, NEW s \in Sessoes, Concluir(s)
    PROVE  Liberadas'
<1>1. pedido[s] \in PedidoOS /\ pedido[s].os \in OSs
  BY ConcluirGrava
<1> PICK o \in OSs : o = pedido[s].os
  BY <1>1
<1>2. TypeEstoque /\ TypeOS
  BY DEF ContextoOS
<1>3. /\ os[o] \in Editaveis /\ fase[s] = "movendo" /\ fila[s] = {}
      /\ \A p \in Produtos, t \in Tipos : porRef'[o][p][t] = porRef[o][p][t] + linhas[s][p][t]
      /\ \A q \in OSs \ {o} : porRef'[q] = porRef[q] /\ os'[q] = os[q]
  BY ConcluirAtual
<1>4. ASSUME NEW p \in Produtos, NEW t \in Tipos
      PROVE  porRef[o][p][t] \in Int /\ linhas[s][p][t] \in Int
  BY <1>2, OrdemServicoAssumption, TiposDeContas DEF TypeEstoque
<1>5. LiberamPositivas' /\ LinhasFicam
  BY ProximoPositivas DEF Liberadas
<1>9. ASSUME NEW p \in Produtos, SoPositivas(o, p)'
      PROVE  porRef'[o][p]["LIBERACAO"] >= 0 /\ porRef[o][p]["LIBERACAO"] >= 0
  <2>1. SoPositivas(o, p)
    BY <1>5, <1>9, PositivasAntes
  <2>2. porRef[o][p]["LIBERACAO"] >= 0 /\ "LIBERACAO" \in Tipos
    BY <2>1 DEF Liberadas, Tipos
  <2>3. linhas[s][p]["LIBERACAO"] >= 0
    BY <1>1, <2>1 DEF Liberadas, LiberamPositivas, LiberaPositivas
  <2> QED
    BY <1>3, <1>4, <2>2, <2>3
<1>6. ASSUME os'[o] = "CANCELADA", NEW p \in Produtos, SoPositivas(o, p)'
      PROVE  porRef'[o][p]["LIBERACAO"] >= porRef'[o][p]["RESERVA"]
  <2>1. ConcluirCancelar(s)
    <3>1. ConcluirStatus(s) => pedido[s] \in PedidoStatus
      BY <1>1, PedidoDaOS DEF ContextoOS, ConcluirStatus
    <3>2. ConcluirStatus(s) => os'[o] \in Editaveis
      BY <1>2, <3>1 DEF ConcluirStatus, TypeOS, PedidoStatus
    <3>3. ConcluirFechar(s) => os'[o] = "FECHADA"
      BY <1>2 DEF ConcluirFechar, TypeOS
    <3> QED
      BY <1>3, <1>6, <3>2, <3>3
      DEF Concluir, ConcluirAdicionar, ConcluirRemover, Editaveis
  <2>2. pedido[s] \in PedidoFim /\ pedido[s].op = "cancelar" /\ pedido[s] \notin DeAdicionar
    BY <1>1, <2>1 DEF ConcluirCancelar, PedidoOS, PedidoItem, PedidoStatus, PedidoFim, DeAdicionar
  <2>3. Contado(fila[s], linhas[s], PlanoLiberar(o))
    BY <1>3, <2>2 DEF PedidosAtuais, PedidoAtual
  <2>4. linhas[s][p]["LIBERACAO"] = QuantidadeNaOS(o, p)
    BY <1>2, <1>3, <2>3, ContadoInteiro, LiberaAsLinhas DEF Tipos
  <2>5. linhas[s][p]["RESERVA"] = 0
    BY <1>1, <2>2 DEF SessoesReserva, SemTipo
  <2>6. QuantidadeNaOS(o, p) = porRef[o][p]["RESERVA"] /\ porRef[o][p]["LIBERACAO"] >= 0
    BY <1>6, <1>9 DEF ReservaConfere
  <2>7. "RESERVA" \in Tipos /\ "LIBERACAO" \in Tipos
    BY DEF Tipos
  <2> QED
    BY <1>3, <1>4, <2>4, <2>5, <2>6, <2>7
<1>10. \A q \in OSs, p \in Produtos : SoPositivas(q, p)' => SoPositivas(q, p)
  BY <1>5, PositivasAntes
<1>7. CanceladaLiberaTudo'
  <2> SUFFICES ASSUME NEW q \in OSs, os'[q] = "CANCELADA", NEW p \in Produtos, SoPositivas(q, p)'
               PROVE  porRef'[q][p]["LIBERACAO"] >= porRef'[q][p]["RESERVA"]
    BY DEF CanceladaLiberaTudo, SoPositivas
  <2>1. CASE q = o
    BY <1>6, <2>1
  <2>2. CASE q # o
    <3>1. os[q] = "CANCELADA" /\ porRef'[q] = porRef[q] /\ SoPositivas(q, p)
      BY <1>3, <1>10, <2>2
    <3> QED
      BY <3>1 DEF Liberadas, CanceladaLiberaTudo, SoPositivas
  <2> QED
    BY <2>1, <2>2
<1>8. \A q \in OSs, p \in Produtos : SoPositivas(q, p)' => porRef'[q][p]["LIBERACAO"] >= 0
  BY <1>3, <1>9, <1>10 DEF Liberadas
<1> QED
  BY <1>5, <1>7, <1>8 DEF Liberadas

LEMMA ProximoLibera ==
    ASSUME SessaoUnica, NEW Outros, ContextoOS(Outros), SessoesReserva, ReservaConfere,
           PedidosAtuais, Liberadas, NextOS
    PROVE  Liberadas'
<1>1. CASE ~\E s \in Sessoes : Concluir(s)
  <2>1. LiberamPositivas' /\ itens' = itens
    BY <1>1, ProximoPositivas DEF Liberadas
  <2>2. porRef' = porRef /\ \A o \in OSs : os'[o] = "CANCELADA" => os[o] = "CANCELADA"
    BY <1>1, AntesDoFim
  <2> QED
    BY <2>1, <2>2 DEF Liberadas, CanceladaLiberaTudo, SoPositivas, PecasNaOS
<1> QED
  BY <1>1, ConcluirLibera

\* The steps of the other services.
LEMMA AlheioAtual ==
    ASSUME TypeEstoque, TypeOS, PedidosAtuais, NEW P, P \cap PedidoOS = {}, PassoSessoes(P),
           PassoRefs(Refs \ OSs), os' = os, itens' = itens
    PROVE  PedidosAtuais' /\ FinalFica /\ (Liberadas => Liberadas')
<1>1. PedidosAtuais'
  BY AtuaisSeguem
<1>2. \A o \in OSs : porRef'[o] = porRef[o]
  BY OrdemServicoAssumption DEF PassoRefs
<1>3. LiberamPositivas => LiberamPositivas'
  BY PositivasSeguem DEF LinhasFicam
<1> QED
  BY <1>1, <1>2, <1>3 DEF Liberadas, CanceladaLiberaTudo, SoPositivas, PecasNaOS, FinalFica

LEMMA AtualInicio ==
    InitOrdem => PedidosAtuais /\ Liberadas
<1> SUFFICES ASSUME InitOrdem PROVE PedidosAtuais /\ Liberadas
  OBVIOUS
<1>1. PedidosAtuais
  BY PedidoOSAssumption DEF InitOrdem, InitEstoque, InitSessoes, PedidosAtuais, PedidoAtual, PedidoOS
<1>2. \A o \in OSs, p \in Produtos : porRef[o][p]["LIBERACAO"] = 0
  BY OrdemServicoAssumption DEF InitOrdem, InitEstoque, SemLinhas, Contas, Tipos
<1>4. LiberamPositivas
  BY PedidoOSAssumption DEF InitOrdem, InitEstoque, InitSessoes, LiberamPositivas
<1>3. \A o \in OSs : os[o] # "CANCELADA"
  BY OrdemServicoAssumption DEF InitOrdem, InitOS, StatusOS
<1> QED
  BY <1>1, <1>2, <1>3, <1>4 DEF Liberadas, CanceladaLiberaTudo
=============================================================================
