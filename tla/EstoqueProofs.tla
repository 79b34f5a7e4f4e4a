--------------------------- MODULE EstoqueProofs ---------------------------
(***************************************************************************)
(* What the session machinery of Estoque preserves, whoever makes the      *)
(* requests.  A module that uses Estoque shows that each of its steps is a *)
(* PassoEstoque and inherits the rest.                                     *)
(***************************************************************************)
EXTENDS Estoque, Somas

\* A statement waits for nothing, and the autoflush before it locks the changed rows.
Travar(s) ==
    /\ PodeGravar(s) /\ travas' = [travas EXCEPT ![s] = sujos[s]]
    /\ UNCHANGED <<banco, lido, atual, sujos, linhas, fila, iniciados>>

\* What a step of any handler does to the stock and to the open sessions.
PassoEstoque ==
    \/ /\ UNCHANGED <<banco, memoria>>
       /\ fila' \in [Sessoes -> SUBSET Movimento]
       /\ iniciados' \in Nat
    \/ \E s \in Sessoes : \E m \in fila[s] : RegistrarMovimentacao(s, m)
    \/ \E s \in Sessoes, ref \in Refs : pedido[s] # Livre /\ Gravar(s, ref)
    \/ \E s \in Sessoes : SessaoLimpa(s) /\ UNCHANGED <<banco, iniciados>>
    \/ \E s \in Sessoes : Travar(s)

\* No two open transactions hold the lock of the same product row.
TravaExclusiva ==
    \A s, t \in Sessoes : s # t => travas[s] \cap travas[t] = {}

\* The memory of a session is consistent: what it has made of a product is what
\* it read plus the rows it has added, and it holds only locks it needs.
MemoriaConfere ==
    \A s \in Sessoes, p \in Produtos :
        /\ p \in sujos[s] => atual[s][p] = lido[s][p] + Saldo(linhas[s][p])
        /\ p \notin sujos[s] => Saldo(linhas[s][p]) = 0

\* A changed product has a row that explains the change.  What a session would write
\* is not negative after a RESERVA, which was checked, unless a row of it gave with a
\* negative quantity; and a negative value has such a row, its own or in the trail.
ContasCrescem ==
    /\ \A p \in Produtos : trilha[p]["negativas"] >= 0
    /\ \A s \in Sessoes, p \in Produtos :
          linhas[s][p]["movimentos"] >= 0 /\ linhas[s][p]["negativas"] >= 0

Explicada(s, p) ==
    /\ p \notin sujos[s] => linhas[s][p]["RESERVA"] = 0
    /\ p \in sujos[s] =>
          /\ linhas[s][p]["movimentos"] > 0
          /\ linhas[s][p]["RESERVA"] # 0 /\ linhas[s][p]["negativas"] = 0 => atual[s][p] >= 0
          /\ atual[s][p] < 0 => trilha[p]["negativas"] + linhas[s][p]["negativas"] > 0

MemoriaExplicada == ContasCrescem /\ \A s \in Sessoes, p \in Produtos : Explicada(s, p)

-----------------------------------------------------------------------------
(***************************************************************************)
(* Lemmas on movements and rows.                                           *)
(***************************************************************************)

LEMMA MovimentoTipado ==
    ASSUME NEW m \in Movimento
    PROVE  m.qtd \in Int /\ m.prod \in Produtos /\ Efeito(m) \in Int
<1>1. m.qtd \in Int /\ m.prod \in Produtos
  BY EstoqueAssumption DEF Movimento
<1>2. Efeito(m) \in {m.qtd, 0, -m.qtd}
  BY Zenon DEF Efeito
<1> QED
  BY <1>1, <1>2

\* The kinds of movement, what each does to the stock and what is kept of its rows.
LEMMA MovimentoCasos ==
    ASSUME NEW m \in Movimento
    PROVE  \/ m.tipos \in {{"ENTRADA"}, {"LIBERACAO"}} /\ Efeito(m) = m.qtd
           \/ m.tipos = {"SAIDA"} /\ Efeito(m) = 0
           \/ m.tipos \in {{"RESERVA"}, {"RESERVA", "SAIDA"}} /\ Efeito(m) = -m.qtd
<1>1. m.tipos \in {{"ENTRADA"}, {"SAIDA"}, {"RESERVA"}, {"LIBERACAO"}, {"RESERVA", "SAIDA"}}
  BY DEF Movimento, Tipos
<1>2. m.tipos \in {{"ENTRADA"}, {"LIBERACAO"}} => Efeito(m) = m.qtd
  BY DEF Efeito, Aumentam
<1>3. m.tipos = {"SAIDA"} => Efeito(m) = 0
  BY DEF Efeito, Aumentam, SemEfeito
<1>4. m.tipos \in {{"RESERVA"}, {"RESERVA", "SAIDA"}} => Efeito(m) = -m.qtd
  BY DEF Efeito, Aumentam, SemEfeito
<1> QED
  BY <1>1, <1>2, <1>3, <1>4

LEMMA ParcelaCasos ==
    ASSUME NEW m \in Movimento
    PROVE  /\ \A t \in Tipos : Parcela(m, t) = IF t \in m.tipos THEN m.qtd ELSE 0
           /\ Parcela(m, "movimentos") = IF m.tipos = {"SAIDA"} THEN 0 ELSE 1
           /\ Parcela(m, "negativas") =
                  IF m.tipos \in {{"ENTRADA"}, {"LIBERACAO"}} /\ m.qtd < 0 THEN 1 ELSE 0
           /\ \A c \in Contas : Parcela(m, c) \in Int
<1>1. m.qtd \in Int
  BY MovimentoTipado
<1>2. m.tipos \in {{"ENTRADA"}, {"SAIDA"}, {"RESERVA"}, {"LIBERACAO"}, {"RESERVA", "SAIDA"}}
  BY DEF Movimento, Tipos
<1>3. \A t \in Tipos : Parcela(m, t) = IF t \in m.tipos THEN m.qtd ELSE 0
  BY DEF Parcela, Tipos
<1>4. Parcela(m, "movimentos") = IF m.tipos = {"SAIDA"} THEN 0 ELSE 1
  BY <1>2 DEF Parcela, SemEfeito
<1>5. Parcela(m, "negativas") =
          IF m.tipos \in {{"ENTRADA"}, {"LIBERACAO"}} /\ m.qtd < 0 THEN 1 ELSE 0
  BY <1>2 DEF Parcela, Aumentam
<1>6. \A c \in Contas : Parcela(m, c) \in Int
  BY <1>1, <1>3, <1>4, <1>5 DEF Contas
<1> QED
  BY <1>3, <1>4, <1>5, <1>6

\* The effect of a movement on the stock is the balance of the row it adds.
LEMMA EfeitoEhSaldo ==
    ASSUME NEW m \in Movimento, NEW l \in [Contas -> Int]
    PROVE  Saldo([c \in Contas |-> l[c] + Parcela(m, c)]) = Saldo(l) + Efeito(m)
<1> DEFINE k == [c \in Contas |-> l[c] + Parcela(m, c)]
<1>1. m.qtd \in Int
  BY MovimentoTipado
<1>2. \A t \in Tipos : l[t] \in Int /\ k[t] = l[t] + (IF t \in m.tipos THEN m.qtd ELSE 0)
  BY ParcelaCasos DEF Contas
<1> HIDE DEF k
<1>3. /\ l["ENTRADA"] \in Int /\ k["ENTRADA"] = l["ENTRADA"] + (IF "ENTRADA" \in m.tipos THEN m.qtd ELSE 0)
      /\ l["LIBERACAO"] \in Int
      /\ k["LIBERACAO"] = l["LIBERACAO"] + (IF "LIBERACAO" \in m.tipos THEN m.qtd ELSE 0)
      /\ l["RESERVA"] \in Int /\ k["RESERVA"] = l["RESERVA"] + (IF "RESERVA" \in m.tipos THEN m.qtd ELSE 0)
  BY <1>2 DEF Tipos
<1>4. Saldo(k) = Saldo(l) + Efeito(m)
  <2>1. /\ Saldo(k) = k["ENTRADA"] + k["LIBERACAO"] - k["RESERVA"]
        /\ Saldo(l) = l["ENTRADA"] + l["LIBERACAO"] - l["RESERVA"]
    BY DEF Saldo
  <2>2. CASE m.tipos = {"ENTRADA"} /\ Efeito(m) = m.qtd
    BY <1>1, <1>3, <2>1, <2>2
  <2>3. CASE m.tipos = {"LIBERACAO"} /\ Efeito(m) = m.qtd
    BY <1>1, <1>3, <2>1, <2>3
  <2>4. CASE m.tipos = {"SAIDA"} /\ Efeito(m) = 0
    BY <1>1, <1>3, <2>1, <2>4
  <2>5. CASE m.tipos \in {{"RESERVA"}, {"RESERVA", "SAIDA"}} /\ Efeito(m) = -m.qtd
    <3>1. "RESERVA" \in m.tipos /\ "ENTRADA" \notin m.tipos /\ "LIBERACAO" \notin m.tipos
      BY <2>5
    <3> QED
      BY <1>1, <1>3, <2>1, <2>5, <3>1
  <2> QED
    BY <2>2, <2>3, <2>4, <2>5, MovimentoCasos
<1> QED
  BY <1>4 DEF k

LEMMA TiposDeContas == \A t \in Tipos : t \in Contas
BY DEF Contas

LEMMA SaldoInteiro ==
    ASSUME NEW l \in [Contas -> Int]
    PROVE  Saldo(l) \in Int
BY DEF Saldo, Contas, Tipos

LEMMA SaldoVazio ==
    ASSUME NEW p \in Produtos
    PROVE  /\ SemLinhas \in [Produtos -> [Contas -> Int]]
           /\ Saldo(SemLinhas[p]) = 0
           /\ \A c \in Contas : SemLinhas[p][c] = 0
BY DEF SemLinhas, Saldo, Contas, Tipos

\* Adding rows adds their balances.
LEMMA SaldoSoma ==
    ASSUME NEW a \in [Produtos -> [Contas -> Int]], NEW b \in [Produtos -> [Contas -> Int]],
           NEW p \in Produtos
    PROVE  /\ SomarLinhas(a, b) \in [Produtos -> [Contas -> Int]]
           /\ Saldo(SomarLinhas(a, b)[p]) = Saldo(a[p]) + Saldo(b[p])
           /\ \A c \in Contas : SomarLinhas(a, b)[p][c] = a[p][c] + b[p][c]
BY DEF SomarLinhas, Saldo, Contas, Tipos

-----------------------------------------------------------------------------
(***************************************************************************)
(* Type correctness.                                                       *)
(***************************************************************************)

LEMMA InitTipado ==
    InitEstoque => TypeEstoque
BY EstoqueAssumption, SaldoVazio
DEF InitEstoque, InitSessoes, TypeEstoque, SemLinhas

LEMMA RegistrarTipado ==
    ASSUME TypeEstoque, NEW s \in Sessoes, NEW m \in fila[s], RegistrarMovimentacao(s, m)
    PROVE  TypeEstoque'
<1> USE DEF TypeEstoque, banco
<1>1. m \in Movimento
  OBVIOUS
<1>2. m.qtd \in Int /\ m.prod \in Produtos /\ Efeito(m) \in Int
  BY <1>1, MovimentoTipado
<1>3. BuscarProduto(s, m.prod) \in Int
  BY <1>2 DEF BuscarProduto
<1>4. atual' \in [Sessoes -> [Produtos -> Int]]
  BY <1>2, <1>3 DEF RegistrarMovimentacao
<1>5. lido' \in [Sessoes -> [Produtos -> Int]]
  BY <1>2 DEF RegistrarMovimentacao
<1>6. linhas' \in [Sessoes -> [Produtos -> [Contas -> Int]]]
  <2> DEFINE nova == [c \in Contas |-> linhas[s][m.prod][c] + Parcela(m, c)]
  <2>1. nova \in [Contas -> Int]
    BY <1>1, <1>2, ParcelaCasos
  <2>2. linhas' = [linhas EXCEPT ![s][m.prod] = nova]
    BY DEF RegistrarMovimentacao
  <2> HIDE DEF nova
  <2> QED
    BY <1>2, <2>1, <2>2
<1>7. fila' \in [Sessoes -> SUBSET Movimento]
  BY DEF RegistrarMovimentacao
<1>8. sujos' \in [Sessoes -> SUBSET Produtos] /\ travas' \in [Sessoes -> SUBSET Produtos]
  BY <1>2 DEF RegistrarMovimentacao
<1> QED
  BY <1>4, <1>5, <1>6, <1>7, <1>8 DEF RegistrarMovimentacao

LEMMA LimpaTipado ==
    ASSUME TypeEstoque, NEW s \in Sessoes, SessaoLimpa(s)
    PROVE  /\ fila' \in [Sessoes -> SUBSET Movimento]
           /\ lido' \in [Sessoes -> [Produtos -> Int]]
           /\ atual' \in [Sessoes -> [Produtos -> Int]]
           /\ sujos' \in [Sessoes -> SUBSET Produtos]
           /\ travas' \in [Sessoes -> SUBSET Produtos]
           /\ linhas' \in [Sessoes -> [Produtos -> [Contas -> Int]]]
BY DEF TypeEstoque, SessaoLimpa, SemLinhas

LEMMA GravarTipado ==
    ASSUME TypeEstoque, NEW s \in Sessoes, NEW ref \in Refs, Gravar(s, ref)
    PROVE  TypeEstoque'
<1>1. SessaoLimpa(s) /\ iniciados' = iniciados
  BY DEF Gravar
<1>2. linhas[s] \in [Produtos -> [Contas -> Int]]
  BY DEF TypeEstoque
<1>3. estoque' \in [Produtos -> Int]
  BY DEF TypeEstoque, Gravar
<1>4. trilha' \in [Produtos -> [Contas -> Int]]
  BY <1>2 DEF TypeEstoque, Gravar, SomarLinhas
<1>5. porRef' \in [Refs -> [Produtos -> [Contas -> Int]]]
  <2>1. porRef[ref] \in [Produtos -> [Contas -> Int]]
    BY DEF TypeEstoque
  <2>2. SomarLinhas(porRef[ref], linhas[s]) \in [Produtos -> [Contas -> Int]]
    BY <1>2, <2>1 DEF SomarLinhas
  <2> QED
    BY <2>2 DEF TypeEstoque, Gravar
<1> QED
  BY <1>1, <1>3, <1>4, <1>5, LimpaTipado DEF TypeEstoque

\* The stock tables and the sessions keep their types.
LEMMA PassoTipado ==
    TypeEstoque /\ PassoEstoque => TypeEstoque'
<1> SUFFICES ASSUME TypeEstoque, PassoEstoque PROVE TypeEstoque'
  OBVIOUS
<1>1. CASE /\ UNCHANGED <<banco, memoria>>
           /\ fila' \in [Sessoes -> SUBSET Movimento]
           /\ iniciados' \in Nat
  BY <1>1 DEF TypeEstoque, banco, memoria
<1>2. CASE \E s \in Sessoes : \E m \in fila[s] : RegistrarMovimentacao(s, m)
  BY <1>2, RegistrarTipado
<1>3. CASE \E s \in Sessoes, ref \in Refs : pedido[s] # Livre /\ Gravar(s, ref)
  BY <1>3, GravarTipado
<1>4. CASE \E s \in Sessoes : SessaoLimpa(s) /\ UNCHANGED <<banco, iniciados>>
  BY <1>4, LimpaTipado DEF TypeEstoque, banco
<1>5. CASE \E s \in Sessoes : Travar(s)
  BY <1>5 DEF Travar, TypeEstoque, banco
<1> QED
  BY <1>1, <1>2, <1>3, <1>4, <1>5 DEF PassoEstoque

-----------------------------------------------------------------------------
(***************************************************************************)
(* Consistency of the memory of the sessions.                              *)
(***************************************************************************)

LEMMA InitMemoria ==
    InitEstoque => MemoriaConfere /\ MemoriaExplicada /\ TravaExclusiva /\ NegativoExplicado
<1> SUFFICES ASSUME InitEstoque
             PROVE  MemoriaConfere /\ MemoriaExplicada /\ TravaExclusiva /\ NegativoExplicado
  OBVIOUS
<1>1. /\ estoque = EstoqueInicial /\ trilha = SemLinhas
      /\ \A s \in Sessoes : sujos[s] = {} /\ travas[s] = {} /\ linhas[s] = SemLinhas
  BY DEF InitEstoque, InitSessoes
<1>2. \A p \in Produtos : /\ Saldo(SemLinhas[p]) = 0 /\ SemLinhas[p]["RESERVA"] = 0
                          /\ SemLinhas[p]["movimentos"] = 0 /\ SemLinhas[p]["negativas"] = 0
  BY SaldoVazio DEF Contas, Tipos
<1>3. MemoriaConfere /\ TravaExclusiva
  BY <1>1, <1>2 DEF MemoriaConfere, TravaExclusiva
<1>4. MemoriaExplicada
  BY <1>1, <1>2 DEF MemoriaExplicada, ContasCrescem, Explicada
<1>5. NegativoExplicado
  BY <1>1, EstoqueAssumption DEF NegativoExplicado
<1> QED
  BY <1>3, <1>4, <1>5

\* RegistrarMovimentacao leaves the other sessions and products alone.
LEMMA RegistrarOutros ==
    ASSUME TypeEstoque, NEW s \in Sessoes, NEW m \in fila[s], RegistrarMovimentacao(s, m),
           NEW u \in Sessoes, NEW p \in Produtos, u # s \/ p # m.prod
    PROVE  /\ atual'[u][p] = atual[u][p]
           /\ lido'[u][p] = lido[u][p]
           /\ linhas'[u][p] = linhas[u][p]
           /\ p \in sujos'[u] <=> p \in sujos[u]
<1>1. m \in Movimento
  BY DEF TypeEstoque
<1>2. m.prod \in Produtos
  BY <1>1, MovimentoTipado
<1> QED
  BY <1>2 DEF TypeEstoque, RegistrarMovimentacao

\* What RegistrarMovimentacao does to the product of the movement.
LEMMA RegistrarPonto ==
    ASSUME TypeEstoque, NEW s \in Sessoes, NEW m \in fila[s], RegistrarMovimentacao(s, m)
    PROVE  /\ m \in Movimento
           /\ atual'[s][m.prod] = BuscarProduto(s, m.prod) + Efeito(m)
           /\ lido'[s][m.prod] = IF m.prod \in sujos[s] THEN lido[s][m.prod]
                                 ELSE estoque[m.prod]
           /\ linhas'[s][m.prod] = [c \in Contas |-> linhas[s][m.prod][c] + Parcela(m, c)]
           /\ m.prod \in sujos'[s] <=> \/ m.prod \in sujos[s]
                                       \/ atual'[s][m.prod] # BuscarProduto(s, m.prod)
<1>1. m \in Movimento
  BY DEF TypeEstoque
<1>2. m.prod \in Produtos
  BY <1>1, MovimentoTipado
<1>3. /\ atual'[s][m.prod] = BuscarProduto(s, m.prod) + Efeito(m)
      /\ lido'[s][m.prod] = IF m.prod \in sujos[s] THEN lido[s][m.prod]
                            ELSE estoque[m.prod]
      /\ linhas'[s][m.prod] = [c \in Contas |-> linhas[s][m.prod][c] + Parcela(m, c)]
  BY <1>2 DEF TypeEstoque, RegistrarMovimentacao
<1>4. m.prod \in sujos'[s] <=> \/ m.prod \in sujos[s]
                               \/ atual'[s][m.prod] # BuscarProduto(s, m.prod)
  BY <1>2, <1>3 DEF TypeEstoque, RegistrarMovimentacao
<1> QED
  BY <1>1, <1>3, <1>4

LEMMA RegistrarMemoria ==
    ASSUME TypeEstoque, MemoriaConfere, NEW s \in Sessoes, NEW m \in fila[s],
           RegistrarMovimentacao(s, m)
    PROVE  MemoriaConfere'
<1> DEFINE q == m.prod
<1>1. m \in Movimento /\ q \in Produtos /\ Efeito(m) \in Int
  BY RegistrarPonto, MovimentoTipado
<1>2. linhas[s][q] \in [Contas -> Int] /\ atual[s][q] \in Int /\ lido[s][q] \in Int
      /\ estoque[q] \in Int
  BY <1>1 DEF TypeEstoque
<1>3. Saldo(linhas'[s][q]) = Saldo(linhas[s][q]) + Efeito(m)
  <2> DEFINE l == linhas[s][q]
             k == [c \in Contas |-> l[c] + Parcela(m, c)]
  <2>1. linhas'[s][q] = k
    BY RegistrarPonto
  <2>2. Saldo(k) = Saldo(l) + Efeito(m)
    BY <1>1, <1>2, EfeitoEhSaldo
  <2> QED
    BY <2>1, <2>2
<1>4. Saldo(linhas[s][q]) \in Int
  BY <1>2, SaldoInteiro
<1>5. ASSUME NEW u \in Sessoes, NEW p \in Produtos
      PROVE  /\ p \in sujos'[u] => atual'[u][p] = lido'[u][p] + Saldo(linhas'[u][p])
             /\ p \notin sujos'[u] => Saldo(linhas'[u][p]) = 0
  <2>1. CASE u # s \/ p # q
    <3>1. /\ atual'[u][p] = atual[u][p] /\ lido'[u][p] = lido[u][p]
          /\ linhas'[u][p] = linhas[u][p] /\ (p \in sujos'[u] <=> p \in sujos[u])
      BY <2>1, RegistrarOutros
    <3>2. /\ p \in sujos[u] => atual[u][p] = lido[u][p] + Saldo(linhas[u][p])
          /\ p \notin sujos[u] => Saldo(linhas[u][p]) = 0
      BY DEF MemoriaConfere
    <3> QED
      BY <3>1, <3>2
  <2>2. CASE u = s /\ p = q
    <3>1. CASE q \in sujos[s]
      <4>1. q \in sujos'[s] /\ lido'[s][q] = lido[s][q]
            /\ atual'[s][q] = atual[s][q] + Efeito(m)
        BY <3>1, RegistrarPonto DEF BuscarProduto
      <4>2. atual[s][q] = lido[s][q] + Saldo(linhas[s][q])
        BY <1>1, <3>1 DEF MemoriaConfere
      <4> QED
        BY <1>1, <1>2, <1>3, <1>4, <2>2, <4>1, <4>2
    <3>2. CASE q \notin sujos[s]
      <4>1. lido'[s][q] = estoque[q] /\ atual'[s][q] = estoque[q] + Efeito(m)
        BY <3>2, RegistrarPonto DEF BuscarProduto
      <4>2. q \in sujos'[s] <=> atual'[s][q] # estoque[q]
        BY <3>2, RegistrarPonto DEF BuscarProduto
      <4>3. Saldo(linhas[s][q]) = 0
        BY <1>1, <3>2 DEF MemoriaConfere
      <4> QED
        BY <1>1, <1>2, <1>3, <2>2, <4>1, <4>2, <4>3
    <3> QED
      BY <3>1, <3>2
  <2> QED
    BY <2>1, <2>2
<1> QED
  BY <1>5 DEF MemoriaConfere

\* The row a call adds, and what it makes of the product.
LEMMA RegistrarExplica ==
    ASSUME TypeEstoque, NegativoExplicado, MemoriaExplicada,
           NEW s \in Sessoes, NEW m \in fila[s], RegistrarMovimentacao(s, m)
    PROVE  MemoriaExplicada'
<1> DEFINE q == m.prod
           l == linhas[s][q]
           k == linhas'[s][q]
           a == BuscarProduto(s, q)
           n == trilha[q]["negativas"]
<1>1. m \in Movimento /\ q \in Produtos /\ Efeito(m) \in Int /\ m.qtd \in Int
  BY RegistrarPonto, MovimentoTipado
<1>2. l \in [Contas -> Int] /\ a \in Int /\ n \in Int /\ trilha' = trilha
  <2>1. l \in [Contas -> Int] /\ trilha[q] \in [Contas -> Int] /\ "negativas" \in Contas
    BY <1>1 DEF TypeEstoque, Contas
  <2>2. a \in Int
    BY <1>1 DEF TypeEstoque, BuscarProduto
  <2> QED
    BY <2>1, <2>2 DEF RegistrarMovimentacao, banco
<1>3. /\ l["RESERVA"] \in Int /\ l["movimentos"] \in Int /\ l["negativas"] \in Int
      /\ k["RESERVA"] = l["RESERVA"] + (IF "RESERVA" \in m.tipos THEN m.qtd ELSE 0)
      /\ k["movimentos"] = l["movimentos"] + (IF m.tipos = {"SAIDA"} THEN 0 ELSE 1)
      /\ k["negativas"] = l["negativas"]
             + (IF m.tipos \in {{"ENTRADA"}, {"LIBERACAO"}} /\ m.qtd < 0 THEN 1 ELSE 0)
  <2>1. k = [c \in Contas |-> l[c] + Parcela(m, c)]
    BY RegistrarPonto
  <2>2. "RESERVA" \in Contas /\ "RESERVA" \in Tipos /\ "movimentos" \in Contas /\ "negativas" \in Contas
    BY DEF Contas, Tipos
  <2> HIDE DEF k, l
  <2> QED
    BY <1>1, <1>2, <2>1, <2>2, ParcelaCasos
<1>4. /\ atual'[s][q] = a + Efeito(m)
      /\ q \in sujos'[s] <=> q \in sujos[s] \/ Efeito(m) # 0
      /\ "RESERVA" \in m.tipos => a + Efeito(m) >= 0
  <2>1. /\ atual'[s][q] = a + Efeito(m)
        /\ q \in sujos'[s] <=> q \in sujos[s] \/ atual'[s][q] # a
    BY RegistrarPonto
  <2>2. "RESERVA" \in m.tipos => a + Efeito(m) >= 0
    BY DEF RegistrarMovimentacao
  <2> HIDE DEF a
  <2> QED
    BY <1>1, <1>2, <2>1, <2>2
<1>5. l["movimentos"] >= 0 /\ l["negativas"] >= 0 /\ n >= 0
  BY <1>1 DEF MemoriaExplicada, ContasCrescem
<1>6. /\ q \in sujos[s] => a = atual[s][q]
      /\ q \notin sujos[s] /\ a < 0 => n > 0
  BY <1>1 DEF BuscarProduto, NegativoExplicado
<1>7. Explicada(s, q)
  BY <1>1 DEF MemoriaExplicada
<1>8. /\ q \notin sujos[s] => l["RESERVA"] = 0
      /\ q \in sujos[s] => /\ l["movimentos"] > 0
                           /\ l["RESERVA"] # 0 /\ l["negativas"] = 0 => a >= 0
                           /\ a < 0 => n + l["negativas"] > 0
  BY <1>6, <1>7 DEF Explicada
<1>9. k["movimentos"] >= 0 /\ k["negativas"] >= 0
  <2> HIDE DEF k, l
  <2> QED
    BY <1>3, <1>5
<1>10. Explicada(s, q)'
  <2> DEFINE d == q \in sujos'[s]
             v == atual'[s][q]
  <2>1. /\ ~d => k["RESERVA"] = 0
        /\ d => /\ k["movimentos"] > 0
                /\ k["RESERVA"] # 0 /\ k["negativas"] = 0 => v >= 0
                /\ v < 0 => n + k["negativas"] > 0
    <3> HIDE DEF d, v, k, l, a, n, q
    <3>1. v = a + Efeito(m) /\ (d <=> q \in sujos[s] \/ Efeito(m) # 0)
      BY <1>4 DEF d, v
    <3>2. CASE m.tipos \in {{"ENTRADA"}, {"LIBERACAO"}} /\ Efeito(m) = m.qtd
      <4>1. /\ k["RESERVA"] = l["RESERVA"] /\ k["movimentos"] = l["movimentos"] + 1
            /\ k["negativas"] = l["negativas"] + (IF m.qtd < 0 THEN 1 ELSE 0)
        BY <1>3, <3>2
      <4> QED
        BY <1>1, <1>2, <1>3, <1>5, <1>6, <1>8, <3>1, <3>2, <4>1
    <3>3. CASE m.tipos = {"SAIDA"} /\ Efeito(m) = 0
      <4>1. /\ k["RESERVA"] = l["RESERVA"] /\ k["movimentos"] = l["movimentos"]
            /\ k["negativas"] = l["negativas"]
        BY <1>3, <3>3
      <4>2. v = a /\ (d <=> q \in sujos[s])
        BY <1>2, <3>1, <3>3
      <4> QED
        BY <1>2, <1>8, <4>1, <4>2
    <3>4. CASE m.tipos \in {{"RESERVA"}, {"RESERVA", "SAIDA"}} /\ Efeito(m) = -m.qtd
      <4>1. /\ k["RESERVA"] = l["RESERVA"] + m.qtd /\ k["movimentos"] = l["movimentos"] + 1
            /\ k["negativas"] = l["negativas"]
        BY <1>3, <3>4
      <4>2. v >= 0
        BY <1>4, <3>1, <3>4
      <4> QED
        BY <1>1, <1>2, <1>3, <1>5, <1>8, <3>1, <3>4, <4>1, <4>2
    <3> QED
      BY <1>1, <3>2, <3>3, <3>4, MovimentoCasos
  <2> QED
    BY <1>2, <2>1 DEF Explicada
<1>11. ASSUME NEW u \in Sessoes, NEW p \in Produtos
       PROVE  Explicada(u, p)' /\ linhas'[u][p]["movimentos"] >= 0 /\ linhas'[u][p]["negativas"] >= 0
  <2>1. CASE u # s \/ p # q
    <3>1. /\ atual'[u][p] = atual[u][p]
          /\ linhas'[u][p] = linhas[u][p] /\ (p \in sujos'[u] <=> p \in sujos[u])
      BY <2>1, RegistrarOutros
    <3>2. Explicada(u, p) /\ linhas[u][p]["movimentos"] >= 0 /\ linhas[u][p]["negativas"] >= 0
      BY DEF MemoriaExplicada, ContasCrescem
    <3> QED
      BY <1>2, <3>1, <3>2 DEF Explicada
  <2>2. CASE u = s /\ p = q
    BY <1>9, <1>10, <2>2
  <2> QED
    BY <2>1, <2>2
<1> QED
  BY <1>2, <1>11 DEF MemoriaExplicada, ContasCrescem

\* A session that ends forgets everything; the others are as they were.
LEMMA LimpaPonto ==
    ASSUME TypeEstoque, NEW s \in Sessoes, SessaoLimpa(s)
    PROVE  /\ sujos'[s] = {} /\ travas'[s] = {}
           /\ \A p \in Produtos : linhas'[s][p] = SemLinhas[p]
           /\ \A u \in Sessoes \ {s} :
                 /\ sujos'[u] = sujos[u] /\ travas'[u] = travas[u]
                 /\ lido'[u] = lido[u] /\ atual'[u] = atual[u] /\ linhas'[u] = linhas[u]
BY DEF TypeEstoque, SessaoLimpa

LEMMA LimpaMemoria ==
    ASSUME TypeEstoque, NEW s \in Sessoes, SessaoLimpa(s)
    PROVE  /\ MemoriaConfere => MemoriaConfere'
           /\ MemoriaExplicada /\ trilha' = trilha => MemoriaExplicada'
           /\ TravaExclusiva => TravaExclusiva'
<1>1. /\ sujos'[s] = {} /\ travas'[s] = {}
      /\ \A p \in Produtos : linhas'[s][p] = SemLinhas[p]
  BY LimpaPonto
<1>2. \A u \in Sessoes \ {s} :
         /\ sujos'[u] = sujos[u] /\ travas'[u] = travas[u]
         /\ lido'[u] = lido[u] /\ atual'[u] = atual[u] /\ linhas'[u] = linhas[u]
  BY LimpaPonto
<1>3. MemoriaConfere => MemoriaConfere'
  <2> SUFFICES ASSUME MemoriaConfere, NEW u \in Sessoes, NEW p \in Produtos
               PROVE  /\ p \in sujos'[u] => atual'[u][p] = lido'[u][p] + Saldo(linhas'[u][p])
                      /\ p \notin sujos'[u] => Saldo(linhas'[u][p]) = 0
    BY DEF MemoriaConfere
  <2>1. CASE u = s
    BY <1>1, <2>1, SaldoVazio
  <2>2. CASE u # s
    BY <1>2, <2>2 DEF MemoriaConfere
  <2> QED
    BY <2>1, <2>2
<1>4. MemoriaExplicada /\ trilha' = trilha => MemoriaExplicada'
  <2> SUFFICES ASSUME MemoriaExplicada, trilha' = trilha, NEW u \in Sessoes, NEW p \in Produtos
               PROVE  Explicada(u, p)' /\ linhas'[u][p]["movimentos"] >= 0 /\ linhas'[u][p]["negativas"] >= 0
    BY DEF MemoriaExplicada, ContasCrescem
  <2>1. CASE u = s
    <3>1. SemLinhas[p]["RESERVA"] = 0 /\ SemLinhas[p]["movimentos"] = 0 /\ SemLinhas[p]["negativas"] = 0
      BY SaldoVazio DEF Contas, Tipos
    <3> QED
      BY <1>1, <2>1, <3>1 DEF Explicada
  <2>2. CASE u # s
    BY <1>2, <2>2 DEF MemoriaExplicada, ContasCrescem, Explicada
  <2> QED
    BY <2>1, <2>2
<1>5. TravaExclusiva => TravaExclusiva'
  BY <1>1, <1>2 DEF TravaExclusiva
<1> QED
  BY <1>3, <1>4, <1>5

\* The memory of the sessions stays consistent.
LEMMA PassoMemoria ==
    TypeEstoque /\ MemoriaConfere /\ PassoEstoque => MemoriaConfere'
<1> SUFFICES ASSUME TypeEstoque, MemoriaConfere, PassoEstoque PROVE MemoriaConfere'
  OBVIOUS
<1>1. CASE UNCHANGED <<banco, memoria>>
  BY <1>1 DEF MemoriaConfere, memoria
<1>2. CASE \E s \in Sessoes : \E m \in fila[s] : RegistrarMovimentacao(s, m)
  BY <1>2, RegistrarMemoria
<1>3. CASE \E s \in Sessoes : SessaoLimpa(s)
  BY <1>3, LimpaMemoria
<1>4. CASE \E s \in Sessoes : Travar(s)
  BY <1>4 DEF Travar, MemoriaConfere
<1> QED
  BY <1>1, <1>2, <1>3, <1>4 DEF PassoEstoque, Gravar

\* A commit adds its rows to the trail, which explains the more.
LEMMA GravarExplica ==
    ASSUME TypeEstoque, NegativoExplicado, MemoriaExplicada, NEW s \in Sessoes, NEW ref \in Refs,
           Gravar(s, ref)
    PROVE  MemoriaExplicada' /\ NegativoExplicado'
<1>1. ASSUME NEW p \in Produtos
      PROVE  /\ trilha[p]["negativas"] \in Int /\ linhas[s][p]["negativas"] \in Int
             /\ trilha'[p]["negativas"] = trilha[p]["negativas"] + linhas[s][p]["negativas"]
             /\ trilha'[p]["negativas"] >= trilha[p]["negativas"] /\ trilha[p]["negativas"] >= 0
  <2>1. trilha \in [Produtos -> [Contas -> Int]] /\ linhas[s] \in [Produtos -> [Contas -> Int]]
        /\ "negativas" \in Contas
    BY DEF TypeEstoque, Contas
  <2>2. trilha'[p]["negativas"] = trilha[p]["negativas"] + linhas[s][p]["negativas"]
    BY <2>1, SaldoSoma DEF Gravar
  <2>3. linhas[s][p]["negativas"] >= 0 /\ trilha[p]["negativas"] >= 0
    BY DEF MemoriaExplicada, ContasCrescem
  <2> QED
    BY <2>1, <2>2, <2>3
<1>2. NegativoExplicado'
  <2> SUFFICES ASSUME NEW p \in Produtos, estoque'[p] < 0
               PROVE  trilha'[p]["negativas"] > 0
    BY DEF NegativoExplicado
  <2>1. estoque'[p] = IF p \in sujos[s] THEN atual[s][p] ELSE estoque[p]
    BY DEF Gravar
  <2>2. CASE p \in sujos[s]
    <3>1. trilha[p]["negativas"] + linhas[s][p]["negativas"] > 0
      BY <2>1, <2>2 DEF MemoriaExplicada, Explicada
    <3> QED
      BY <1>1, <3>1
  <2>3. CASE p \notin sujos[s]
    <3>1. trilha[p]["negativas"] > 0
      BY <2>1, <2>3 DEF NegativoExplicado
    <3> QED
      BY <1>1, <3>1
  <2> QED
    BY <2>2, <2>3
<1>3. SessaoLimpa(s)
  BY DEF Gravar
<1>4. ASSUME NEW u \in Sessoes, NEW p \in Produtos
      PROVE  Explicada(u, p)' /\ linhas'[u][p]["movimentos"] >= 0 /\ linhas'[u][p]["negativas"] >= 0
  <2>1. CASE u = s
    <3>1. sujos'[s] = {} /\ linhas'[s][p] = SemLinhas[p]
      BY <1>3, LimpaPonto
    <3>2. SemLinhas[p]["RESERVA"] = 0 /\ SemLinhas[p]["movimentos"] = 0 /\ SemLinhas[p]["negativas"] = 0
      BY SaldoVazio DEF Contas, Tipos
    <3> QED
      BY <2>1, <3>1, <3>2 DEF Explicada
  <2>2. CASE u # s
    <3>1. sujos'[u] = sujos[u] /\ atual'[u] = atual[u] /\ linhas'[u] = linhas[u]
      BY <1>3, <2>2, LimpaPonto
    <3>2. Explicada(u, p) /\ linhas[u][p]["movimentos"] >= 0 /\ linhas[u][p]["negativas"] >= 0
      BY DEF MemoriaExplicada, ContasCrescem
    <3>3. linhas[u][p]["negativas"] \in Int
      BY DEF TypeEstoque, Contas
    <3>4. atual[u][p] < 0 /\ p \in sujos[u] => trilha'[p]["negativas"] + linhas[u][p]["negativas"] > 0
      BY <1>1, <3>2, <3>3 DEF Explicada
    <3> QED
      BY <3>1, <3>2, <3>4 DEF Explicada
  <2> QED
    BY <2>1, <2>2
<1>5. \A p \in Produtos : trilha'[p]["negativas"] >= 0
  BY <1>1
<1> QED
  BY <1>2, <1>4, <1>5 DEF MemoriaExplicada, ContasCrescem

\* Stock below zero stays explained.
LEMMA PassoExplica ==
    TypeEstoque /\ NegativoExplicado /\ MemoriaExplicada /\ PassoEstoque
        => MemoriaExplicada' /\ NegativoExplicado'
<1> SUFFICES ASSUME TypeEstoque, NegativoExplicado, MemoriaExplicada, PassoEstoque
             PROVE  MemoriaExplicada' /\ NegativoExplicado'
  OBVIOUS
<1> USE DEF NegativoExplicado
<1>1. CASE UNCHANGED <<banco, memoria>>
  BY <1>1 DEF MemoriaExplicada, ContasCrescem, Explicada, banco, memoria
<1>2. CASE \E s \in Sessoes : \E m \in fila[s] : RegistrarMovimentacao(s, m)
  <2>1. MemoriaExplicada'
    BY <1>2, RegistrarExplica
  <2>2. UNCHANGED banco
    BY <1>2 DEF RegistrarMovimentacao
  <2> QED
    BY <2>1, <2>2 DEF banco
<1>3. CASE \E s \in Sessoes, ref \in Refs : pedido[s] # Livre /\ Gravar(s, ref)
  BY <1>3, GravarExplica
<1>4. CASE \E s \in Sessoes : SessaoLimpa(s) /\ UNCHANGED <<banco, iniciados>>
  BY <1>4, LimpaMemoria DEF banco
<1>5. CASE \E s \in Sessoes : Travar(s)
  BY <1>5 DEF Travar, MemoriaExplicada, ContasCrescem, Explicada, banco
<1> QED
  BY <1>1, <1>2, <1>3, <1>4, <1>5 DEF PassoEstoque

\* Row locks stay exclusive: a session takes the lock of a changed row only when
\* no other session holds it.
LEMMA PassoTrava ==
    TypeEstoque /\ TravaExclusiva /\ PassoEstoque => TravaExclusiva'
<1> SUFFICES ASSUME TypeEstoque, TravaExclusiva, PassoEstoque PROVE TravaExclusiva'
  OBVIOUS
<1>1. CASE UNCHANGED <<banco, memoria>>
  BY <1>1 DEF TravaExclusiva, memoria
<1>2. CASE \E s \in Sessoes : \E m \in fila[s] : RegistrarMovimentacao(s, m)
  <2>1. PICK s \in Sessoes : \E m \in fila[s] : RegistrarMovimentacao(s, m)
    BY <1>2
  <2>2. travas' = [travas EXCEPT ![s] = sujos[s]]
    BY <2>1 DEF RegistrarMovimentacao
  <2>3. \A t \in Sessoes \ {s} : travas[t] \cap sujos[s] = {}
    BY <2>1 DEF RegistrarMovimentacao, PodeGravar, Bloqueia
  <2> QED
    BY <2>2, <2>3 DEF TravaExclusiva, TypeEstoque
<1>3. CASE \E s \in Sessoes : SessaoLimpa(s)
  BY <1>3, LimpaMemoria
<1>4. CASE \E s \in Sessoes : Travar(s)
  <2>1. PICK s \in Sessoes : Travar(s)
    BY <1>4
  <2>2. \A t \in Sessoes \ {s} : travas[t] \cap sujos[s] = {}
    BY <2>1 DEF Travar, PodeGravar, Bloqueia
  <2> QED
    BY <2>1, <2>2 DEF Travar, TravaExclusiva, TypeEstoque
<1> QED
  BY <1>1, <1>2, <1>3, <1>4 DEF PassoEstoque, Gravar

-----------------------------------------------------------------------------
(***************************************************************************)
(* Stock and trail.                                                        *)
(***************************************************************************)

LEMMA GravarSaldo ==
    ASSUME TypeEstoque, MemoriaConfere, NEW s \in Sessoes, NEW ref \in Refs, Gravar(s, ref),
           NEW p \in Produtos, ~LeituraVelha(s, p)
    PROVE  /\ Saldo(trilha'[p]) - Saldo(trilha[p]) = Saldo(linhas[s][p])
           /\ estoque'[p] - estoque[p] = Saldo(linhas[s][p])
           /\ Saldo(trilha[p]) \in Int /\ Saldo(linhas[s][p]) \in Int
<1>1. /\ trilha \in [Produtos -> [Contas -> Int]]
      /\ linhas[s] \in [Produtos -> [Contas -> Int]]
      /\ estoque[p] \in Int /\ lido[s][p] \in Int /\ atual[s][p] \in Int
  BY DEF TypeEstoque
<1>2. trilha[p] \in [Contas -> Int] /\ linhas[s][p] \in [Contas -> Int]
  BY <1>1
<1>3. Saldo(trilha[p]) \in Int /\ Saldo(linhas[s][p]) \in Int
  BY <1>2, SaldoInteiro
<1>4. Saldo(trilha'[p]) = Saldo(trilha[p]) + Saldo(linhas[s][p])
  BY <1>1, SaldoSoma DEF Gravar
<1>5. estoque'[p] = IF p \in sujos[s] THEN atual[s][p] ELSE estoque[p]
  BY DEF Gravar
<1>6. CASE p \in sujos[s]
  <2>1. atual[s][p] = lido[s][p] + Saldo(linhas[s][p])
    BY <1>6 DEF MemoriaConfere
  <2>2. lido[s][p] = estoque[p]
    BY <1>6 DEF LeituraVelha
  <2> QED
    BY <1>1, <1>3, <1>4, <1>5, <1>6, <2>1, <2>2
<1>7. CASE p \notin sujos[s]
  <2>1. Saldo(linhas[s][p]) = 0
    BY <1>7 DEF MemoriaConfere
  <2> QED
    BY <1>1, <1>3, <1>4, <1>5, <1>7, <2>1
<1> QED
  BY <1>6, <1>7

LEMMA PassoSaldo ==
    ASSUME TypeEstoque, MemoriaConfere, Sessoes \subseteq DOMAIN pedido, PassoEstoque,
           NEW p \in Produtos
    PROVE  SaldoAcompanha(p)
<1>1. CASE UNCHANGED banco
  <2>1. estoque[p] \in Int /\ trilha[p] \in [Contas -> Int]
    BY DEF TypeEstoque
  <2>2. Saldo(trilha[p]) \in Int
    BY <2>1, SaldoInteiro
  <2> QED
    BY <1>1, <2>1, <2>2 DEF SaldoAcompanha, banco
<1>2. CASE \E s \in Sessoes, ref \in Refs : pedido[s] # Livre /\ Gravar(s, ref)
  <2>1. PICK s \in Sessoes, ref \in Refs : pedido[s] # Livre /\ Gravar(s, ref)
    BY <1>2
  <2>2. pedido'[s] = Livre
    BY <2>1 DEF Gravar, SessaoLimpa
  <2>3. CASE LeituraVelha(s, p)
    BY <2>1, <2>2, <2>3 DEF SaldoAcompanha
  <2>4. CASE ~LeituraVelha(s, p)
    BY <2>1, <2>4, GravarSaldo DEF SaldoAcompanha
  <2> QED
    BY <2>3, <2>4
<1>3. CASE \E s \in Sessoes : \E m \in fila[s] : RegistrarMovimentacao(s, m)
  BY <1>1, <1>3 DEF RegistrarMovimentacao
<1> QED
  BY <1>1, <1>2, <1>3 DEF PassoEstoque, Travar, banco

-----------------------------------------------------------------------------
(***************************************************************************)
(* One request at a time: no read is ever stale, so the trail closes.      *)
(***************************************************************************)
SessaoUnica == \A s, t \in Sessoes : s = t

LeituraFresca == \A s \in Sessoes, p \in Produtos : ~LeituraVelha(s, p)

LEMMA InitTrilha ==
    InitEstoque => LeituraFresca /\ TrilhaFecha
<1> SUFFICES ASSUME InitEstoque PROVE LeituraFresca /\ TrilhaFecha
  OBVIOUS
<1>1. LeituraFresca
  BY DEF InitEstoque, InitSessoes, LeituraFresca, LeituraVelha
<1>2. TrilhaFecha
  <2> SUFFICES ASSUME NEW p \in Produtos
               PROVE  estoque[p] = EstoqueInicial[p] + Saldo(trilha[p])
    BY DEF TrilhaFecha
  <2>1. estoque = EstoqueInicial /\ trilha = SemLinhas
    BY DEF InitEstoque, InitSessoes
  <2>2. Saldo(trilha[p]) = 0
    BY <2>1, SaldoVazio
  <2> QED
    BY <2>1, <2>2, EstoqueAssumption
<1> QED
  BY <1>1, <1>2

LEMMA PassoFresco ==
    SessaoUnica /\ TypeEstoque /\ LeituraFresca /\ PassoEstoque => LeituraFresca'
<1> SUFFICES ASSUME SessaoUnica, TypeEstoque, LeituraFresca, PassoEstoque,
                    NEW u \in Sessoes, NEW p \in Produtos, p \in sujos'[u]
             PROVE  lido'[u][p] = estoque'[p]
  BY DEF LeituraFresca, LeituraVelha
<1>1. CASE UNCHANGED <<banco, memoria>>
  BY <1>1 DEF LeituraFresca, LeituraVelha, banco, memoria
<1>2. CASE \E s \in Sessoes : \E m \in fila[s] : RegistrarMovimentacao(s, m)
  <2>1. PICK s \in Sessoes : \E m \in fila[s] : RegistrarMovimentacao(s, m)
    BY <1>2
  <2>2. PICK m \in fila[s] : RegistrarMovimentacao(s, m)
    BY <2>1
  <2>3. estoque' = estoque
    BY <2>2 DEF RegistrarMovimentacao, banco
  <2>4. CASE u = s /\ p = m.prod
    <3>1. lido'[s][m.prod] = IF m.prod \in sujos[s] THEN lido[s][m.prod]
                             ELSE estoque[m.prod]
      BY <2>2, RegistrarPonto
    <3>2. p \in sujos[s] => lido[s][p] = estoque[p]
      BY DEF LeituraFresca, LeituraVelha
    <3> QED
      BY <2>3, <2>4, <3>1, <3>2
  <2>5. CASE u # s \/ p # m.prod
    <3>1. lido'[u][p] = lido[u][p] /\ p \in sujos[u]
      BY <2>2, <2>5, RegistrarOutros
    <3> QED
      BY <2>3, <3>1 DEF LeituraFresca, LeituraVelha
  <2> QED
    BY <2>4, <2>5
<1>3. CASE \E s \in Sessoes : SessaoLimpa(s)
  BY <1>3, LimpaPonto DEF SessaoUnica
<1>4. CASE \E s \in Sessoes : Travar(s)
  BY <1>4 DEF Travar, LeituraFresca, LeituraVelha, banco
<1> QED
  BY <1>1, <1>2, <1>3, <1>4 DEF PassoEstoque, Gravar

LEMMA PassoTrilha ==
    TypeEstoque /\ MemoriaConfere /\ LeituraFresca /\ TrilhaFecha /\ PassoEstoque
        => TrilhaFecha'
<1> SUFFICES ASSUME TypeEstoque, MemoriaConfere, LeituraFresca, TrilhaFecha, PassoEstoque,
                    NEW p \in Produtos
             PROVE  estoque'[p] = EstoqueInicial[p] + Saldo(trilha'[p])
  BY DEF TrilhaFecha
<1>1. CASE UNCHANGED banco
  BY <1>1 DEF TrilhaFecha, banco
<1>2. CASE \E s \in Sessoes, ref \in Refs : pedido[s] # Livre /\ Gravar(s, ref)
  <2>1. PICK s \in Sessoes, ref \in Refs : Gravar(s, ref)
    BY <1>2
  <2>2. estoque[p] \in Int /\ estoque'[p] \in Int /\ EstoqueInicial[p] \in Int
        /\ trilha'[p] \in [Contas -> Int]
    BY <2>1, GravarTipado, EstoqueAssumption DEF TypeEstoque
  <2>3. Saldo(trilha'[p]) \in Int
    BY <2>2, SaldoInteiro
  <2>4. estoque[p] = EstoqueInicial[p] + Saldo(trilha[p])
    BY DEF TrilhaFecha
  <2>5. ~LeituraVelha(s, p)
    BY DEF LeituraFresca
  <2>6. /\ Saldo(trilha'[p]) - Saldo(trilha[p]) = Saldo(linhas[s][p])
        /\ estoque'[p] - estoque[p] = Saldo(linhas[s][p])
        /\ Saldo(trilha[p]) \in Int /\ Saldo(linhas[s][p]) \in Int
    BY <2>1, <2>5, GravarSaldo
  <2> QED
    BY <2>2, <2>3, <2>4, <2>6
<1>3. CASE \E s \in Sessoes : \E m \in fila[s] : RegistrarMovimentacao(s, m)
  BY <1>1, <1>3 DEF RegistrarMovimentacao
<1> QED
  BY <1>1, <1>2, <1>3 DEF PassoEstoque, Travar, banco

-----------------------------------------------------------------------------
(***************************************************************************)
(* The building blocks of a handler are steps of the stock.                *)
(***************************************************************************)

\* At most one session changes what it was asked and how far it is.
PassoPedido(P, F) ==
    \/ UNCHANGED <<pedido, fase>>
    \/ \E s \in Sessoes, x \in P, f \in F :
          /\ pedido' = [pedido EXCEPT ![s] = x]
          /\ fase' = [fase EXCEPT ![s] = f]

LEMMA IniciarPasso ==
    ASSUME TypeEstoque, NEW s \in Sessoes, NEW P, NEW F, NEW ped \in P, NEW f \in F,
           NEW ms \in SUBSET Movimento, Iniciar(s, ped, f, ms)
    PROVE  PassoEstoque /\ PassoPedido(P, F)
<1>1. fila' \in [Sessoes -> SUBSET Movimento] /\ iniciados' \in Nat
  BY DEF TypeEstoque, Iniciar
<1>2. PassoEstoque
  BY <1>1 DEF Iniciar, PassoEstoque
<1>3. pedido' = [pedido EXCEPT ![s] = ped] /\ fase' = [fase EXCEPT ![s] = f]
  BY DEF Iniciar
<1> QED
  BY <1>2, <1>3 DEF PassoPedido

LEMMA MovimentarPasso ==
    ASSUME TypeEstoque, NEW s \in Sessoes, NEW P, NEW F, NEW m \in fila[s],
           RegistrarMovimentacao(s, m)
    PROVE  PassoEstoque /\ PassoPedido(P, F)
BY DEF RegistrarMovimentacao, PassoEstoque, PassoPedido

LEMMA GravarPasso ==
    ASSUME TypeEstoque, NEW s \in Sessoes, NEW P, NEW F, Livre \in P, "livre" \in F,
           NEW ref \in Refs, pedido[s] # Livre, Gravar(s, ref)
    PROVE  PassoEstoque /\ PassoPedido(P, F)
BY DEF Gravar, SessaoLimpa, PassoEstoque, PassoPedido

LEMMA LimpaPasso ==
    ASSUME TypeEstoque, NEW s \in Sessoes, NEW P, NEW F, Livre \in P, "livre" \in F,
           SessaoLimpa(s), UNCHANGED <<banco, iniciados>>
    PROVE  PassoEstoque /\ PassoPedido(P, F)
BY DEF SessaoLimpa, PassoEstoque, PassoPedido

\* A step of one session keeps the types of requests and phases.
LEMMA PassoPedidoTipado ==
    ASSUME NEW P, NEW F, NEW Q, NEW G, P \subseteq Q, F \subseteq G,
           pedido \in [Sessoes -> Q], fase \in [Sessoes -> G], PassoPedido(P, F)
    PROVE  pedido' \in [Sessoes -> Q] /\ fase' \in [Sessoes -> G]
<1>1. CASE UNCHANGED <<pedido, fase>>
  BY <1>1
<1>2. CASE \E s \in Sessoes, x \in P, f \in F :
              /\ pedido' = [pedido EXCEPT ![s] = x]
              /\ fase' = [fase EXCEPT ![s] = f]
  <2>1. PICK s \in Sessoes, x \in P, f \in F :
              /\ pedido' = [pedido EXCEPT ![s] = x]
              /\ fase' = [fase EXCEPT ![s] = f]
    BY <1>2
  <2>2. x \in Q /\ f \in G
    OBVIOUS
  <2> QED
    BY <2>1, <2>2
<1> QED
  BY <1>1, <1>2 DEF PassoPedido

-----------------------------------------------------------------------------
(***************************************************************************)
(* What a session has added to its document: the movements it was to make  *)
(* less those it still has to make.                                        *)
(***************************************************************************)
Qtd == [m \in Movimento |-> m.qtd]

\* The quantities of the movements of M for a product under a type.
DoTipo(M, p, t) == {m \in M : m.prod = p /\ t \in m.tipos}
Total(M, p, t) == SumFunctionOnSet(Qtd, DoTipo(M, p, t))

\* With f still to be made of the plan M, the rows l are those of the others.
Contado(f, l, M) ==
    /\ f \subseteq M
    /\ \A p \in Produtos, t \in Tipos : l[p][t] = Total(M \ f, p, t)

\* Nothing of type t is to be added or has been added.
SemTipo(f, l, t) ==
    /\ \A m \in f : t \notin m.tipos
    /\ \A p \in Produtos : l[p][t] = 0

\* What a step may do to a session whose request is not among P.
Continua(s) ==
    /\ pedido'[s] = pedido[s] /\ fase'[s] = fase[s]
    /\ \/ fila'[s] = fila[s] /\ linhas'[s] = linhas[s]
       \/ \E m \in fila[s] : RegistrarMovimentacao(s, m)

Acaba(s) ==
    pedido'[s] = Livre /\ fase'[s] = "livre" /\ fila'[s] = {} /\ linhas'[s] = SemLinhas

\* A handler of P starts, or gets ready to make its movements.
Prepara(s, P) ==
    /\ pedido[s] \in P \cup {Livre} /\ pedido'[s] \in P
    /\ fase[s] # "movendo"
    /\ linhas'[s] = linhas[s]

\* A handler of P notes what it has done between two movements.
Anota(s, P) ==
    /\ pedido[s] \in P /\ pedido'[s] \in P
    /\ fase'[s] = fase[s] /\ fila'[s] = fila[s] /\ linhas'[s] = linhas[s]

PassoSessoes(P) == \A s \in Sessoes : Continua(s) \/ Acaba(s) \/ Prepara(s, P) \/ Anota(s, P)

\* Only the rows of the documents R may change.
PassoRefs(R) == \A ref \in Refs \ R : porRef'[ref] = porRef[ref]

\* An idle session is at its start, and no rows are added before "movendo".
Parada(s) == /\ pedido[s] = Livre => fase[s] = "livre"
             /\ fase[s] # "movendo" => linhas[s] = SemLinhas

Paradas == \A s \in Sessoes : Parada(s)

Dominios == Sessoes \subseteq DOMAIN pedido /\ Sessoes \subseteq DOMAIN fase

LEMMA TotalInteiro ==
    ASSUME NEW M \in SUBSET Movimento, IsFiniteSet(M), NEW p, NEW t
    PROVE  IsFiniteSet(DoTipo(M, p, t)) /\ Total(M, p, t) \in Int
<1>1. IsFiniteSet(DoTipo(M, p, t)) /\ DoTipo(M, p, t) \subseteq Movimento
  BY FS_Subset DEF DoTipo
<1>2. \A m \in DoTipo(M, p, t) : Qtd[m] \in Int
  BY <1>1, MovimentoTipado DEF Qtd
<1> QED
  BY <1>1, <1>2, SomaTira DEF Total

LEMMA TotalVazio ==
    ASSUME NEW M, NEW p, NEW t, DoTipo(M, p, t) = {}
    PROVE  Total(M, p, t) = 0
BY SomaVazia DEF Total

LEMMA ContadoInicio ==
    ASSUME NEW M
    PROVE  Contado(M, SemLinhas, M)
<1>1. ASSUME NEW p \in Produtos, NEW t \in Tipos
      PROVE  SemLinhas[p][t] = Total(M \ M, p, t)
  <2>1. DoTipo(M \ M, p, t) = {}
    BY DEF DoTipo
  <2> QED
    BY <2>1, TotalVazio, SaldoVazio DEF Contas
<1> QED
  BY <1>1 DEF Contado

\* A call of registrar_movimentacao adds its row to what is counted.
LEMMA ContarMovimento ==
    ASSUME TypeEstoque, NEW s \in Sessoes, NEW M \in SUBSET Movimento, IsFiniteSet(M),
           Contado(fila[s], linhas[s], M), NEW m \in fila[s], RegistrarMovimentacao(s, m)
    PROVE  Contado(fila'[s], linhas'[s], M)
<1>1. m \in Movimento /\ m \in M /\ m.prod \in Produtos /\ m.qtd \in Int
  BY MovimentoTipado DEF TypeEstoque, Contado
<1>2. fila'[s] = fila[s] \ {m}
  BY DEF RegistrarMovimentacao, TypeEstoque
<1>3. \A t \in Tipos : linhas'[s][m.prod][t] = linhas[s][m.prod][t]
                                                 + (IF t \in m.tipos THEN m.qtd ELSE 0)
  <2>1. linhas'[s][m.prod] = [c \in Contas |-> linhas[s][m.prod][c] + Parcela(m, c)]
    BY RegistrarPonto
  <2> QED
    BY <1>1, <2>1, ParcelaCasos DEF Contas
<1>4. ASSUME NEW p \in Produtos, NEW t \in Tipos
      PROVE  linhas'[s][p][t] = Total(M \ fila'[s], p, t)
  <2> DEFINE A == DoTipo(M \ fila[s], p, t)
             B == DoTipo(M \ fila'[s], p, t)
  <2>1. linhas[s][p][t] = SumFunctionOnSet(Qtd, A)
    BY DEF Contado, Total
  <2>2. CASE m.prod = p /\ t \in m.tipos
    <3>1. B = A \cup {m} /\ m \notin A
      BY <1>1, <1>2, <2>2 DEF DoTipo
    <3>2. IsFiniteSet(A)
      <4>1. M \ fila[s] \in SUBSET Movimento /\ IsFiniteSet(M \ fila[s])
        BY FS_Subset
      <4> QED
        BY <4>1, TotalInteiro
    <3>3. Qtd[m] \in Int /\ Qtd[m] = m.qtd /\ \A k \in A : Qtd[k] \in Int
      <4>1. A \subseteq Movimento
        BY DEF DoTipo
      <4> QED
        BY <1>1, <4>1, MovimentoTipado DEF Qtd
    <3> HIDE DEF A, B
    <3>4. SumFunctionOnSet(Qtd, A \cup {m}) = SumFunctionOnSet(Qtd, A) + Qtd[m]
      BY <3>1, <3>2, <3>3, SomaPoe
    <3>5. linhas'[s][p][t] = linhas[s][p][t] + m.qtd
      BY <1>3, <2>2
    <3> QED
      BY <2>1, <3>1, <3>3, <3>4, <3>5 DEF Total, B
  <2>3. CASE ~(m.prod = p /\ t \in m.tipos)
    <3>1. B = A
      BY <1>1, <1>2, <2>3 DEF DoTipo
    <3>2. linhas'[s][p][t] = linhas[s][p][t]
      <4>1. CASE p = m.prod
        <5>1. linhas[s][p][t] \in Int
          BY DEF TypeEstoque, Contas
        <5> QED
          BY <1>3, <2>3, <4>1, <5>1
      <4>2. CASE p # m.prod
        <5>1. linhas'[s][p] = linhas[s][p]
          BY <4>2, RegistrarOutros
        <5> QED
          BY <5>1
      <4> QED
        BY <4>1, <4>2
    <3> QED
      BY <2>1, <3>1, <3>2 DEF Total
  <2> QED
    BY <2>2, <2>3
<1>5. fila'[s] \subseteq M
  BY <1>2 DEF Contado
<1> QED
  BY <1>4, <1>5 DEF Contado

LEMMA ContadoContinua ==
    ASSUME TypeEstoque, NEW s \in Sessoes, NEW M \in SUBSET Movimento, IsFiniteSet(M),
           Contado(fila[s], linhas[s], M), Continua(s)
    PROVE  Contado(fila'[s], linhas'[s], M)
<1>1. CASE fila'[s] = fila[s] /\ linhas'[s] = linhas[s]
  BY <1>1
<1>2. CASE \E m \in fila[s] : RegistrarMovimentacao(s, m)
  BY <1>2, ContarMovimento
<1> QED
  BY <1>1, <1>2 DEF Continua

\* A session that has made all its movements has added the whole plan.
LEMMA ContadoInteiro ==
    ASSUME NEW f, NEW l, NEW M, Contado(f, l, M), f = {}, NEW p \in Produtos, NEW t \in Tipos
    PROVE  l[p][t] = Total(M, p, t)
<1>1. M \ f = M
  OBVIOUS
<1> QED
  BY <1>1 DEF Contado

\* The plan of a document with one movement per line adds up its lines.
LEMMA TotalDoPlano ==
    ASSUME NEW I, IsFiniteSet(I), NEW k, NEW p, NEW t, NEW f,
           \A i \in I : k[i] \in Movimento /\ k[i].item = i /\ t \in k[i].tipos,
           \A i \in I : k[i].prod = p => f[i] = k[i].qtd
    PROVE  Total({k[i] : i \in I}, p, t) = SumFunctionOnSet(f, {i \in I : k[i].prod = p})
<1> DEFINE J == {i \in I : k[i].prod = p}
<1>1. DoTipo({k[i] : i \in I}, p, t) = {k[i] : i \in J}
  BY DEF DoTipo
<1>2. IsFiniteSet(J) /\ J \subseteq I
  BY FS_Subset
<1>3. \A i, j \in J : k[i] = k[j] => i = j
  OBVIOUS
<1>4. \A i \in J : f[i] \in Int /\ Qtd[k[i]] = f[i]
  BY MovimentoTipado DEF Qtd
<1> HIDE DEF J
<1>5. SumFunctionOnSet(Qtd, {k[i] : i \in J}) = SumFunctionOnSet(f, J)
  BY <1>2, <1>3, <1>4, SomaReindexada
<1> QED
  BY <1>1, <1>5 DEF Total, J

LEMMA SemTipoContinua ==
    ASSUME TypeEstoque, NEW s \in Sessoes, NEW t \in Tipos,
           SemTipo(fila[s], linhas[s], t), Continua(s)
    PROVE  SemTipo(fila'[s], linhas'[s], t)
<1>1. CASE fila'[s] = fila[s] /\ linhas'[s] = linhas[s]
  BY <1>1
<1>2. CASE \E m \in fila[s] : RegistrarMovimentacao(s, m)
  <2>1. PICK m \in fila[s] : RegistrarMovimentacao(s, m)
    BY <1>2
  <2>2. t \notin m.tipos /\ fila'[s] = fila[s] \ {m}
    BY <2>1 DEF RegistrarMovimentacao, TypeEstoque, SemTipo
  <2>3. ASSUME NEW p \in Produtos
        PROVE  linhas'[s][p][t] = 0
    <3>1. linhas[s][p][t] = 0
      BY DEF SemTipo
    <3>2. CASE p = m.prod
      <4>1. linhas'[s][m.prod] = [c \in Contas |-> linhas[s][m.prod][c] + Parcela(m, c)]
            /\ m \in Movimento
        BY <2>1, RegistrarPonto
      <4>2. Parcela(m, t) = 0 /\ t \in Contas
        BY <2>2, <4>1, ParcelaCasos DEF Contas
      <4> QED
        BY <3>1, <3>2, <4>1, <4>2
    <3>3. CASE p # m.prod
      <4>1. linhas'[s][p] = linhas[s][p]
        BY <2>1, <3>3, RegistrarOutros
      <4> QED
        BY <3>1, <4>1
    <3> QED
      BY <3>2, <3>3
  <2> QED
    BY <2>2, <2>3 DEF SemTipo
<1> QED
  BY <1>1, <1>2 DEF Continua

LEMMA SemTipoInicio ==
    ASSUME NEW f, NEW t \in Tipos, \A m \in f : t \notin m.tipos
    PROVE  SemTipo(f, SemLinhas, t)
BY SaldoVazio DEF SemTipo, Contas

\* A session whose request is of another kind than those of P goes on as it was.
LEMMA SessaoSegue ==
    ASSUME NEW P, NEW X, P \cap X = {}, Livre \notin X, PassoSessoes(P), NEW s \in Sessoes,
           pedido'[s] \in X
    PROVE  Continua(s) /\ pedido[s] \in X
BY DEF PassoSessoes, Acaba, Prepara, Anota, Continua

-----------------------------------------------------------------------------
(***************************************************************************)
(* The steps of a handler are steps of the sessions.                       *)
(***************************************************************************)
LEMMA ParadasInicio == InitEstoque => Paradas
BY DEF InitEstoque, InitSessoes, Paradas, Parada

LEMMA ParadasSeguem ==
    ASSUME Paradas, NEW P, Livre \notin P, PassoSessoes(P)
    PROVE  Paradas'
<1> SUFFICES ASSUME NEW s \in Sessoes
             PROVE  /\ pedido'[s] = Livre => fase'[s] = "livre"
                    /\ fase'[s] # "movendo" => linhas'[s] = SemLinhas
  BY DEF Paradas, Parada
<1>1. Parada(s)
  BY DEF Paradas
<1>2. CASE Continua(s)
  BY <1>1, <1>2 DEF Continua, Parada, RegistrarMovimentacao
<1>3. CASE Acaba(s)
  BY <1>3 DEF Acaba
<1>4. CASE Prepara(s, P)
  BY <1>1, <1>4 DEF Prepara, Parada
<1>5. CASE Anota(s, P)
  BY <1>1, <1>5 DEF Anota, Parada
<1> QED
  BY <1>2, <1>3, <1>4, <1>5 DEF PassoSessoes

\* Sessions that do not change.
LEMMA SessoesIguais ==
    ASSUME UNCHANGED <<pedido, fase, fila, linhas>>, NEW P
    PROVE  PassoSessoes(P)
BY DEF PassoSessoes, Continua

LEMMA IniciarSessoes ==
    ASSUME TypeEstoque, Paradas, Dominios,
           NEW s \in Sessoes, NEW P, NEW ped \in P, NEW f, NEW ms, Iniciar(s, ped, f, ms)
    PROVE  /\ PassoSessoes(P) /\ PassoRefs({})
           /\ pedido'[s] = ped /\ fase'[s] = f /\ fila'[s] = ms /\ linhas'[s] = SemLinhas
           /\ \A u \in Sessoes \ {s} : /\ pedido'[u] = pedido[u] /\ fase'[u] = fase[u]
                                       /\ fila'[u] = fila[u] /\ linhas'[u] = linhas[u]
<1>1. /\ pedido[s] = Livre /\ pedido' = [pedido EXCEPT ![s] = ped]
      /\ fase' = [fase EXCEPT ![s] = f] /\ fila' = [fila EXCEPT ![s] = ms]
      /\ linhas' = linhas /\ porRef' = porRef
  BY DEF Iniciar, memoria, banco
<1>2. fase[s] = "livre" /\ linhas[s] = SemLinhas
  BY <1>1 DEF Paradas, Parada
<1>3. fila \in [Sessoes -> SUBSET Movimento]
  BY DEF TypeEstoque
<1>4. Prepara(s, P)
  BY <1>1, <1>2 DEF Prepara, Dominios
<1>5. \A u \in Sessoes \ {s} : /\ pedido'[u] = pedido[u] /\ fase'[u] = fase[u]
                               /\ fila'[u] = fila[u] /\ linhas'[u] = linhas[u]
  BY <1>1, <1>3 DEF Dominios
<1>6. PassoSessoes(P)
  BY <1>4, <1>5 DEF PassoSessoes, Continua
<1> QED
  BY <1>1, <1>2, <1>3, <1>5, <1>6 DEF PassoRefs, Dominios

LEMMA MovimentarSessoes ==
    ASSUME TypeEstoque, Dominios,
           NEW s \in Sessoes, NEW P, NEW m \in fila[s], RegistrarMovimentacao(s, m)
    PROVE  /\ PassoSessoes(P) /\ PassoRefs({}) /\ UNCHANGED <<pedido, fase, banco>>
           /\ \A u \in Sessoes : Continua(u)
<1>1. UNCHANGED <<pedido, fase, banco>> /\ fila' = [fila EXCEPT ![s] = @ \ {m}]
  BY DEF RegistrarMovimentacao
<1>2. \A u \in Sessoes \ {s} : fila'[u] = fila[u] /\ linhas'[u] = linhas[u]
  BY <1>1 DEF RegistrarMovimentacao, TypeEstoque
<1>3. Continua(s)
  BY <1>1 DEF Continua
<1> QED
  BY <1>1, <1>2, <1>3 DEF PassoSessoes, Continua, PassoRefs, banco

LEMMA LimpaSessoes ==
    ASSUME TypeEstoque, Dominios,
           NEW s \in Sessoes, NEW P, SessaoLimpa(s)
    PROVE  /\ PassoSessoes(P) /\ Acaba(s)
           /\ \A u \in Sessoes \ {s} : /\ pedido'[u] = pedido[u] /\ fase'[u] = fase[u]
                                       /\ fila'[u] = fila[u] /\ linhas'[u] = linhas[u]
<1>1. Acaba(s)
  BY DEF SessaoLimpa, TypeEstoque, Acaba, Dominios
<1>2. \A u \in Sessoes \ {s} : /\ pedido'[u] = pedido[u] /\ fase'[u] = fase[u]
                               /\ fila'[u] = fila[u] /\ linhas'[u] = linhas[u]
  BY DEF SessaoLimpa, TypeEstoque, Dominios
<1> QED
  BY <1>1, <1>2 DEF PassoSessoes, Continua

\* A commit ends its session and adds its rows to those of its document.
LEMMA GravarSessoes ==
    ASSUME TypeEstoque, Dominios,
           NEW s \in Sessoes, NEW P, NEW ref \in Refs, Gravar(s, ref)
    PROVE  /\ PassoSessoes(P) /\ Acaba(s) /\ PassoRefs({ref})
           /\ fase[s] = "movendo" /\ fila[s] = {}
           /\ \A p \in Produtos, t \in Tipos :
                 porRef'[ref][p][t] = porRef[ref][p][t] + linhas[s][p][t]
           /\ \A u \in Sessoes \ {s} : /\ pedido'[u] = pedido[u] /\ fase'[u] = fase[u]
                                       /\ fila'[u] = fila[u] /\ linhas'[u] = linhas[u]
<1>1. SessaoLimpa(s) /\ fase[s] = "movendo" /\ fila[s] = {}
      /\ porRef' = [porRef EXCEPT ![ref] = SomarLinhas(@, linhas[s])]
  BY DEF Gravar
<1>2. porRef \in [Refs -> [Produtos -> [Contas -> Int]]]
      /\ linhas[s] \in [Produtos -> [Contas -> Int]]
  BY DEF TypeEstoque
<1>3. PassoRefs({ref})
  BY <1>1, <1>2 DEF PassoRefs
<1>4. porRef'[ref] = SomarLinhas(porRef[ref], linhas[s])
  BY <1>1, <1>2
<1>5. \A p \in Produtos, t \in Tipos :
         porRef'[ref][p][t] = porRef[ref][p][t] + linhas[s][p][t]
  <2>1. porRef[ref] \in [Produtos -> [Contas -> Int]]
    BY <1>2
  <2>2. \A p \in Produtos, t \in Tipos :
           SomarLinhas(porRef[ref], linhas[s])[p][t] = porRef[ref][p][t] + linhas[s][p][t]
    BY <1>2, <2>1, SaldoSoma, TiposDeContas
  <2> QED
    BY <1>4, <2>2
<1> QED
  BY <1>1, <1>3, <1>5, LimpaSessoes
=============================================================================
