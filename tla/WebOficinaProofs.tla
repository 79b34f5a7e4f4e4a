-------------------------- MODULE WebOficinaProofs --------------------------
(***************************************************************************)
(* Theorems about the screens of apps/oficinas, for any lines of the note, *)
(* any number of sessions, writes and forms: each property, then the types *)
(* of what the pages keep.                                                 *)
(***************************************************************************)
EXTENDS WebOficina, FiniteSetTheorems, TLAPS

-----------------------------------------------------------------------------
(***************************************************************************)
(* Entries of the query cache: what an operation leaves in an entry.       *)
(***************************************************************************)
\* An entry has its three fields, and its request too.
Entrada(c) ==
    /\ c = [dado |-> c.dado, invalida |-> c.invalida, busca |-> c.busca]
    /\ c.busca = [cred |-> c.busca.cred, lido |-> c.busca.lido, viva |-> c.busca.viva]

\* The values an entry has, and has been read for it.
Conteudo(c) == {c.dado, c.busca.lido} \ {SemDado}

\* c comes from e: it holds nothing e did not hold.
Derivada(c, e) == Entrada(c) /\ Conteudo(c) \subseteq Conteudo(e)

\* An entry nobody asked for yet is one, and holds nothing.
LEMMA EntradaVazia == Entrada(Vazia) /\ Conteudo(Vazia) = {}
BY DEF Entrada, Conteudo, Vazia, SemBusca

\* The operations of the library on an entry keep its shape and bring in no value but
\* the one the server reads.
LEMMA EntradaSegue ==
    ASSUME NEW c, Entrada(c)
    PROVE  /\ Derivada(c, c)
           /\ \A cred : Derivada(Refazer(c, cred), c)
           /\ \A cred, velha : Derivada(Montar(c, cred, velha), c)
           /\ \A cred, ativa : Derivada(Invalidar(c, ativa, cred), c)
           /\ Derivada(Receber(c), c)
           /\ Derivada(Desistir(c), c)
           /\ \A v : Entrada(Ler(c, v)) /\ Conteudo(Ler(c, v)) \subseteq Conteudo(c) \cup {v}
<1>1. Derivada(c, c)
  BY DEF Derivada
<1>2. ASSUME NEW cred PROVE Derivada(Refazer(c, cred), c)
  BY DEF Derivada, Refazer, Entrada, Conteudo, Busca
<1>3. ASSUME NEW cred, NEW velha PROVE Derivada(Montar(c, cred, velha), c)
  BY <1>1, <1>2 DEF Montar
<1>4. ASSUME NEW cred, NEW ativa PROVE Derivada(Invalidar(c, ativa, cred), c)
  BY DEF Derivada, Invalidar, Refazer, Entrada, Conteudo, Busca
<1>5. Derivada(Receber(c), c)
  BY DEF Derivada, Receber, Entrada, Conteudo, SemBusca
<1>6. Derivada(Desistir(c), c)
  <2>1. Desistir(c) = [dado |-> c.dado, invalida |-> c.invalida, busca |-> SemBusca]
    BY DEF Desistir, Entrada
  <2> QED  BY <2>1 DEF Derivada, Entrada, Conteudo, SemBusca
<1>7. ASSUME NEW v PROVE Entrada(Ler(c, v)) /\ Conteudo(Ler(c, v)) \subseteq Conteudo(c) \cup {v}
  BY DEF Ler, Entrada, Conteudo
<1> QED  BY <1>1, <1>2, <1>3, <1>4, <1>5, <1>6, <1>7

-----------------------------------------------------------------------------
(***************************************************************************)
(* The review of a note.  A line that stopped being pending never is again *)
(* (vincular_item only links), so every draft the page ever showed has at  *)
(* least the lines pending that the server has, and so has a loop begun    *)
(* over it: what it has not created yet.                                   *)
(***************************************************************************)
InvRev ==
    /\ rasc \in Rascunho
    /\ Entrada(consultaRev)
    /\ \A r \in Conteudo(consultaRev) : Pendentes(rasc) \subseteq Pendentes(r)
    /\ \A p \in vooRev : p.op = "criar" => Pendentes(rasc) \subseteq {p.arg.linha} \cup p.arg.resto
    /\ ConfirmaSemPendente

\* What the server does with a write leaves fewer lines pending, and not the created one.
LEMMA LinhasSeguem ==
    ASSUME rasc \in Rascunho, NEW p, Aceito(p)
    PROVE  /\ rasc' \in Rascunho
           /\ Pendentes(rasc') \subseteq Pendentes(rasc)
           /\ p.op = "criar" => p.arg.linha \notin Pendentes(rasc')
<1>1. rasc.linha \in [Linhas -> {"PENDENTE", "AUTO_VINCULADO", "VINCULADO", "NOVO"}]
  BY DEF Rascunho
<1>2. rasc' = EfeitoRev(p)
  BY DEF Aceito
<1>3. CASE p.op = "vincular"
  BY <1>1, <1>2, <1>3 DEF EfeitoRev, Rascunho, Pendentes
<1>4. CASE p.op = "criar"
  <2>1. rasc' = [rasc EXCEPT !.linha[p.arg.linha] = "NOVO"]
    BY <1>2, <1>4 DEF EfeitoRev
  <2> QED  BY <1>1, <1>4, <2>1 DEF Rascunho, Pendentes
<1>5. CASE p.op \notin {"vincular", "criar"}
  <2>1. rasc' = [rasc EXCEPT !.status = "CONFIRMADA"] \/ rasc' = [rasc EXCEPT !.status = "CANCELADA"]
    BY <1>2, <1>5 DEF EfeitoRev
  <2> QED  BY <1>1, <1>5, <2>1 DEF Rascunho, Pendentes
<1> QED  BY <1>3, <1>4, <1>5

\* A step that sends nothing and brings nothing into the cache preserves the invariant.
LEMMA RevSegue ==
    ASSUME InvRev, rasc' \in Rascunho, Pendentes(rasc') \subseteq Pendentes(rasc),
           vooRev' \subseteq vooRev, Derivada(consultaRev', consultaRev)
    PROVE  InvRev'
<1>1. Entrada(consultaRev')
  BY DEF Derivada
<1>2. \A r \in Conteudo(consultaRev') : Pendentes(rasc') \subseteq Pendentes(r)
  BY DEF InvRev, Derivada
<1>3. \A p \in vooRev' : p.op = "criar" => Pendentes(rasc') \subseteq {p.arg.linha} \cup p.arg.resto
  BY DEF InvRev
<1>4. ConfirmaSemPendente'
  BY DEF InvRev, ConfirmaSemPendente
<1> QED  BY <1>1, <1>2, <1>3, <1>4 DEF InvRev

\* The clicks: "Concluir" begins a loop over the lines of the draft on the screen, or
\* confirms it if it has none.
LEMMA RevClique == InvRev /\ CliqueRev => InvRev'
<1> SUFFICES ASSUME InvRev, CliqueRev PROVE InvRev'
  OBVIOUS
<1>0. Derivada(consultaRev, consultaRev)
  BY EntradaSegue DEF InvRev
<1>1. CASE UNCHANGED <<rasc, consultaRev, vooRev>>
  BY <1>0, <1>1, RevSegue DEF InvRev
<1>2. ASSUME NEW op, NEW arg, NEW f, MandarRev(op, arg, f), op \in {"vincular", "cancelar"}
      PROVE  InvRev'
  <2>1. vooRev' = vooRev \cup {Pedido(op, arg)} /\ UNCHANGED <<rasc, consultaRev>>
    BY <1>2 DEF MandarRev
  <2>2. Pedido(op, arg).op = op
    BY DEF Pedido
  <2> QED  BY <1>2, <2>1, <2>2 DEF InvRev, ConfirmaSemPendente
<1>3. ASSUME Concluir PROVE InvRev'
  <2>1. consultaRev.dado \in Conteudo(consultaRev)
    BY <1>3 DEF Concluir, NoPassoProdutos, RevisaoAberta, Lido, Conteudo
  <2>2. Pendentes(rasc) \subseteq Pendentes(Lido)
    BY <2>1 DEF InvRev, Lido
  <2>3. CASE Pendentes(Lido) = {}
    <3>1. \E f : MandarRev("confirmar", 0, f)
      BY <1>3, <2>3 DEF Concluir
    <3>2. vooRev' = vooRev \cup {Pedido("confirmar", 0)} /\ UNCHANGED <<rasc, consultaRev>>
      BY <3>1 DEF MandarRev
    <3>3. Pedido("confirmar", 0).op = "confirmar"
      BY DEF Pedido
    <3> QED  BY <2>2, <2>3, <3>2, <3>3 DEF InvRev, ConfirmaSemPendente
  <2>4. CASE Pendentes(Lido) # {}
    <3> DEFINE arg == Criar(Pendentes(Lido), envios + 1)
    <3>1. \E f : MandarRev("criar", arg, f)
      BY <1>3, <2>4 DEF Concluir
    <3>2. vooRev' = vooRev \cup {Pedido("criar", arg)} /\ UNCHANGED <<rasc, consultaRev>>
      BY <3>1 DEF MandarRev
    <3>3. Pedido("criar", arg).op = "criar" /\ Pedido("criar", arg).arg = arg
      BY DEF Pedido
    <3>4. Pendentes(Lido) \subseteq {arg.linha} \cup arg.resto
      BY DEF Criar
    <3> QED  BY <2>2, <3>2, <3>3, <3>4 DEF InvRev, ConfirmaSemPendente
  <2> QED  BY <2>3, <2>4
<1> QED
  BY <1>1, <1>2, <1>3
  DEF CliqueRev, Avancar, VoltarAoFornecedor, VoltarALista, Vincular, ListarPagina, CancelarImportacao

\* An accepted write of the loop: the next one carries what is left, and the
\* confirmation goes when nothing is.
LEMMA RevCriar ==
    ASSUME InvRev, NEW p \in vooRev, RespostaCriar(p)
    PROVE  InvRev'
<1>1. Aceito(p) /\ p.op = "criar" /\ consultaRev' = consultaRev
  BY DEF RespostaCriar
<1>2. /\ rasc' \in Rascunho
      /\ Pendentes(rasc') \subseteq Pendentes(rasc)
      /\ p.arg.linha \notin Pendentes(rasc')
  BY <1>1, LinhasSeguem DEF InvRev
<1>3. Pendentes(rasc') \subseteq p.arg.resto
  BY <1>1, <1>2 DEF InvRev
<1>4. CASE p.arg.resto # {}
  <2> DEFINE arg == Criar(p.arg.resto, p.arg.laco)
  <2>1. vooRev' = (vooRev \ {p}) \cup {Pedido("criar", arg)}
    BY <1>4 DEF RespostaCriar
  <2>2. Pedido("criar", arg).op = "criar" /\ Pedido("criar", arg).arg = arg
    BY DEF Pedido
  <2>3. Pendentes(rasc') \subseteq {arg.linha} \cup arg.resto
    BY <1>3 DEF Criar
  <2> QED  BY <1>1, <1>2, <2>1, <2>2, <2>3 DEF InvRev, ConfirmaSemPendente
<1>5. CASE p.arg.resto = {}
  <2>1. vooRev' = (vooRev \ {p}) \cup {Pedido("confirmar", 0)}
    BY <1>5 DEF RespostaCriar
  <2>2. Pedido("confirmar", 0).op = "confirmar"
    BY DEF Pedido
  <2>3. Pendentes(rasc') = {}
    BY <1>3, <1>5
  <2> QED  BY <1>1, <1>2, <2>1, <2>2, <2>3 DEF InvRev, ConfirmaSemPendente
<1> QED  BY <1>4, <1>5

\* The answers, the reads of the draft, and the colleague.
LEMMA RevRede == InvRev /\ RedeRev => InvRev'
<1> SUFFICES ASSUME InvRev, RedeRev PROVE InvRev'
  OBVIOUS
<1>1. Entrada(consultaRev) /\ Derivada(consultaRev, consultaRev)
  BY EntradaSegue DEF InvRev
<1>2. ASSUME Colega PROVE InvRev'
  <2>1. rasc' \in Rascunho /\ Pendentes(rasc') \subseteq Pendentes(rasc)
    <3>0. rasc.linha \in [Linhas -> {"PENDENTE", "AUTO_VINCULADO", "VINCULADO", "NOVO"}]
      BY DEF InvRev, Rascunho
    <3>1. CASE rasc' = [rasc EXCEPT !.status = "CANCELADA"]
      BY <3>0, <3>1 DEF InvRev, Rascunho, Pendentes
    <3>2. CASE \E l \in Pendentes(rasc) : rasc' = [rasc EXCEPT !.linha[l] = "VINCULADO"]
      BY <3>0, <3>2 DEF InvRev, Rascunho, Pendentes
    <3> QED  BY <1>2, <3>1, <3>2 DEF Colega
  <2> QED  BY <1>1, <1>2, <2>1, RevSegue DEF Colega
<1>3. ASSUME NEW p \in vooRev, RespostaVincular(p) \/ RespostaPagina(p) \/ PerdidaRev(p)
      PROVE  InvRev'
  <2>1. Aceito(p)
    BY <1>3 DEF RespostaVincular, RespostaPagina, PerdidaRev
  <2>2. rasc' \in Rascunho /\ Pendentes(rasc') \subseteq Pendentes(rasc)
    BY <2>1, LinhasSeguem DEF InvRev
  <2>3. vooRev' \subseteq vooRev /\ Derivada(consultaRev', consultaRev)
    BY <1>1, <1>3, EntradaSegue DEF RespostaVincular, RespostaPagina, PerdidaRev, ComErro
  <2> QED  BY <2>2, <2>3, RevSegue
<1>4. ASSUME NEW p \in vooRev, RecusaRev(p) \/ SemSessaoRev(p) PROVE InvRev'
  BY <1>1, <1>4, RevSegue DEF InvRev, RecusaRev, SemSessaoRev, ComErro
<1>5. ASSUME LerRev PROVE InvRev'
  <2>1. UNCHANGED <<rasc, vooRev>>
    BY <1>5 DEF LerRev
  <2>2. CASE consultaRev' = Ler(consultaRev, rasc)
    <3>1. Entrada(consultaRev') /\ Conteudo(consultaRev') \subseteq Conteudo(consultaRev) \cup {rasc}
      BY <1>1, <2>2, EntradaSegue
    <3> QED  BY <2>1, <3>1 DEF InvRev, ConfirmaSemPendente
  <2>3. CASE consultaRev' = Desistir(consultaRev)
    BY <1>1, <2>1, <2>3, EntradaSegue, RevSegue DEF InvRev
  <2> QED  BY <1>5, <2>2, <2>3 DEF LerRev
<1>6. ASSUME ReceberRev \/ DesistirRev \/ FocarRev PROVE InvRev'
  <2>1. UNCHANGED <<rasc, vooRev>>
    BY <1>6 DEF ReceberRev, DesistirRev, FocarRev
  <2>2. \/ consultaRev' \in {Receber(consultaRev), Desistir(consultaRev)}
        \/ consultaRev' = Refazer(consultaRev, token)
    BY <1>6 DEF ReceberRev, DesistirRev, FocarRev
  <2>3. Derivada(consultaRev', consultaRev)
    BY <1>1, <2>2, EntradaSegue
  <2> QED  BY <2>1, <2>3, RevSegue DEF InvRev
<1> QED
  BY <1>2, <1>3, <1>4, <1>5, <1>6, RevCriar DEF RedeRev

\* The invariant is inductive: nothing else moves the review.
LEMMA RevPasso == InvRev /\ [Next]_vars => InvRev'
<1> SUFFICES ASSUME InvRev, [Next]_vars PROVE InvRev'
  OBVIOUS
<1>1. Entrada(consultaRev) /\ Derivada(consultaRev, consultaRev)
  BY EntradaSegue DEF InvRev
<1>2. CASE UNCHANGED revVars
  BY <1>1, <1>2, RevSegue DEF InvRev, revVars
<1>3. CASE Trocar
  <2>1. UNCHANGED <<rasc, vooRev>>
    BY <1>3 DEF Trocar, MontarRev
  <2>2. consultaRev' = consultaRev \/ \E velha \in BOOLEAN : consultaRev' = Montar(consultaRev, token, velha)
    BY <1>3 DEF Trocar, MontarRev
  <2>3. Derivada(consultaRev', consultaRev)
    BY <1>1, <2>2, EntradaSegue
  <2> QED  BY <2>1, <2>3, RevSegue DEF InvRev
<1>4. CASE CliqueRev \/ RedeRev
  BY <1>4, RevClique, RevRede
<1> QED
  BY <1>2, <1>3, <1>4 DEF Next, vars, telasVars

\* No draft is cached at first, and nothing is sent.
LEMMA RevInicial == Init => InvRev
<1> SUFFICES ASSUME Init PROVE InvRev
  OBVIOUS
<1>1. rasc \in Rascunho
  BY RoteirosAssumption DEF Init, InitSessao, InitRev, Rascunho
<1> QED  BY <1>1, EntradaVazia DEF Init, InitRev, InvRev, ConfirmaSemPendente

\* "Concluir" may run twice at once, over an old draft, beside a colleague, or after
\* its page is gone: whatever the number of lines, writes and sessions, a confirmation
\* is sent only when no line of the draft is pending at the server.
THEOREM ConclusaoInteira == Spec => []ConfirmaSemPendente
<1>1. InvRev => ConfirmaSemPendente
  BY DEF InvRev
<1> QED  BY <1>1, RevInicial, RevPasso, PTL DEF Spec

-----------------------------------------------------------------------------
(***************************************************************************)
(* The session.  Whoever is sent to the login has no token left, and a     *)
(* token comes only while the login form is on the screen.                 *)
(***************************************************************************)
InvSessao ==
    /\ roteiro \in Roteiros
    /\ destino = "login" => token = 0
    /\ entrando => tela = "login" /\ token = 0

\* The token and the route stay, or the route becomes the list of entries.
Segue == token' = token /\ destino' \in {destino, "entradas"}

\* An answer moves the route to the list of entries at most, or ends the session.
LEMMA RedeNaSessao ==
    RedeOS \/ RedeRev \/ RedeFic \/ RedeProd => NaoAutorizado \/ Segue
<1>1. ASSUME RedeOS PROVE NaoAutorizado \/ Segue
  <2>1. ASSUME NEW p \in vooOS, RespostaOS(p) \/ RecusaOS(p) \/ PerdidaOS(p) \/ SemSessaoOS(p)
        PROVE  NaoAutorizado \/ Segue
    BY <2>1 DEF RespostaOS, RecusaOS, PerdidaOS, SemSessaoOS, Segue
  <2>2. ASSUME NEW k \in ChavesOS, LerOS(k) \/ ReceberOS(k) \/ DesistirOS(k) \/ FocarOS(k)
        PROVE  NaoAutorizado \/ Segue
    BY <2>2 DEF LerOS, ReceberOS, DesistirOS, FocarOS, Segue
  <2> QED  BY <1>1, <2>1, <2>2 DEF RedeOS
<1>2. ASSUME RedeRev PROVE NaoAutorizado \/ Segue
  <2>1. ASSUME NEW p \in vooRev,
               \/ RespostaVincular(p) \/ RespostaPagina(p) \/ RespostaCriar(p)
               \/ RecusaRev(p) \/ PerdidaRev(p) \/ SemSessaoRev(p)
        PROVE  NaoAutorizado \/ Segue
    BY <2>1 DEF RespostaVincular, RespostaPagina, RespostaCriar, RecusaRev, PerdidaRev, SemSessaoRev, Segue
  <2>2. ASSUME Colega \/ LerRev \/ ReceberRev \/ DesistirRev \/ FocarRev
        PROVE  NaoAutorizado \/ Segue
    BY <2>2 DEF Colega, LerRev, ReceberRev, DesistirRev, FocarRev, Segue
  <2> QED  BY <1>2, <2>1, <2>2 DEF RedeRev
<1>3. ASSUME RedeFic PROVE NaoAutorizado \/ Segue
  <2>1. ASSUME NEW p \in vooFic, RespostaFic(p) \/ RecusaFic(p) \/ PerdidaFic(p) \/ SemSessaoFic(p)
        PROVE  NaoAutorizado \/ Segue
    BY <2>1 DEF RespostaFic, RecusaFic, PerdidaFic, SemSessaoFic, Segue
  <2>2. ASSUME NEW f \in Fichas, LerFic(f) \/ ReceberFic(f) \/ DesistirFic(f)
        PROVE  NaoAutorizado \/ Segue
    BY <2>2 DEF LerFic, ReceberFic, DesistirFic, Segue
  <2> QED  BY <1>3, <2>1, <2>2 DEF RedeFic
<1>4. ASSUME RedeProd PROVE NaoAutorizado \/ Segue
  <2>1. ASSUME NEW p \in vooProd,
               \/ RespostaFicha(p) \/ RespostaXlsx(p) \/ RespostaMarca(p)
               \/ RecusaProd(p) \/ PerdidaProd(p) \/ SemSessaoProd(p)
        PROVE  NaoAutorizado \/ Segue
    BY <2>1 DEF RespostaFicha, RespostaXlsx, RespostaMarca, RecusaProd, PerdidaProd, SemSessaoProd, Segue
  <2>2. ASSUME NEW m \in relendo, MarcaEscolhida(m) PROVE NaoAutorizado \/ Segue
    BY <2>2 DEF MarcaEscolhida, Segue
  <2>3. ASSUME NEW k \in Paginas, LerProd(k) \/ ReceberProd(k) \/ DesistirProd(k)
        PROVE  NaoAutorizado \/ Segue
    BY <2>3 DEF LerProd, ReceberProd, DesistirProd, Segue
  <2> QED  BY <1>4, <2>1, <2>2, <2>3 DEF RedeProd
<1> QED  BY <1>1, <1>2, <1>3, <1>4

\* A click of the screens keeps the token.
LEMMA CliqueNaSessao ==
    \/ (CliqueOS \/ CliqueProd \/ CliqueFic) /\ UNCHANGED <<token, destino>>
    \/ CliqueRev /\ UNCHANGED token
    => Segue
BY DEF Segue, CliqueRev, Avancar, VoltarAoFornecedor, VoltarALista, Vincular, ListarPagina,
       CancelarImportacao, Concluir, MandarRev

\* What a step does to the session: the bounds stay; only Entrou brings a token.
LEMMA SessaoPasso ==
    ASSUME InvSessao, [Next]_vars
    PROVE  /\ InvSessao'
           /\ roteiro' = roteiro
           /\ \/ token' \in {token, 0}
              \/ tela = "login" /\ UNCHANGED <<tela, telasVars>>
<1>0. "login" \notin roteiro.telas
  BY RoteirosAssumption DEF InvSessao
<1>1. CASE UNCHANGED vars
  BY <1>1 DEF vars, sessaoVars, InvSessao
<1>2. CASE NextSessao /\ UNCHANGED telasVars
  BY <1>0, <1>2 DEF NextSessao, Entrar, Entrou, NaoEntrou, Sair, Vencer, Intervalo, RespostaResumo,
              FalhaResumo, Clicar, NaoAutorizado, InvSessao
<1>3. CASE Trocar
  BY <1>3 DEF Trocar, Transicao, Rota, InvSessao
<1>4. CASE UNCHANGED <<roteiro, tela, entrando>> /\ (NaoAutorizado \/ Segue)
  <2>1. CASE Segue
    BY <1>4, <2>1 DEF Segue, InvSessao
  <2>2. CASE NaoAutorizado
    BY <1>4, <2>2 DEF NaoAutorizado, InvSessao
  <2> QED  BY <1>4, <2>1, <2>2
<1>5. (CliqueOS \/ CliqueRev \/ CliqueFic \/ CliqueProd \/ RedeOS \/ RedeRev \/ RedeFic \/ RedeProd)
          /\ Next /\ ~(NextSessao /\ UNCHANGED telasVars) /\ ~Trocar
      => UNCHANGED <<roteiro, tela, entrando>> /\ (NaoAutorizado \/ Segue)
  BY RedeNaSessao, CliqueNaSessao DEF Next, Resto
<1> QED
  BY <1>1, <1>2, <1>3, <1>4, <1>5 DEF Next

-----------------------------------------------------------------------------
(***************************************************************************)
(* The forms of the review.  While no read fails, a form on the screen has *)
(* been filled in as soon as there is something to fill it with, and the   *)
(* supplier's shows its skeleton until then, or the session is over.       *)
(***************************************************************************)
\* The record of f is one no update may spoil: a product's always, the supplier's when
\* the reads of the forms do not fail.
Firme(f) == f # 0 \/ "ficha" \notin roteiro.chaves

\* The form of f was filled in, or has to wait for its record.
Pronta(f) ==
    IF consultasFic[f].dado # SemDado THEN ficha.campos = "inteiro"
    ELSE f = 0 => Buscando(consultasFic[f]) \/ token = 0

ConsultasFirmes ==
    /\ consultasFic = [f \in Fichas |-> consultasFic[f]]
    /\ \A f \in Fichas : /\ Entrada(consultasFic[f])
                         /\ Firme(f) => Conteudo(consultasFic[f]) \subseteq {"inteiro"}

\* The forms as they are kept, and the updates sent: an empty one has no session.
InvFic ==
    /\ Firme(0) => fornecedor = "inteiro"
    /\ ConsultasFirmes
    /\ ficha = [campos |-> ficha.campos, espera |-> ficha.espera]
    /\ painel = [linha |-> painel.linha, suas |-> painel.suas]
    /\ painel.suas # {} => NoPassoProdutos
    /\ \A f \in Montada : Firme(f) => Pronta(f)
    /\ \A p \in vooFic : Firme(p.arg.ficha) =>
           p.arg.campos = "inteiro" \/ (p.arg.ficha = 0 /\ p.cred = 0)

\* One form is mounted at most, now and after a step; it is on the page of the review.
LEMMA UmaMontada ==
    /\ \A f, g \in Montada : f = g
    /\ \A f, g \in Montada' : f = g
    /\ Montada \subseteq Fichas /\ Montada' \subseteq Fichas
    /\ Montada # {} => tela = "revisao"
    /\ NoPassoProdutos => 0 \notin Montada
    /\ NoPassoProdutos' => 0 \notin Montada'
BY DEF Montada, NoPassoProdutos, RevisaoAberta

\* An operation on the entry of one form keeps all of them firm.
LEMMA UmaConsulta ==
    ASSUME ConsultasFirmes, roteiro' = roteiro, NEW f, NEW c,
           consultasFic' = [consultasFic EXCEPT ![f] = c],
           f \in Fichas => Entrada(c) /\ (Firme(f) => Conteudo(c) \subseteq {"inteiro"})
    PROVE  /\ ConsultasFirmes'
           /\ f \in Fichas => consultasFic'[f] = c
           /\ \A g : g # f => consultasFic'[g] = consultasFic[g]
<1>1. consultasFic' = [g \in Fichas |-> IF g = f THEN c ELSE consultasFic[g]]
  BY DEF ConsultasFirmes
<1>2. ASSUME NEW g \in Fichas PROVE consultasFic'[g] = IF g = f THEN c ELSE consultasFic[g]
  BY <1>1
<1>3. \A g \in Fichas : Firme(g)' = Firme(g)
  BY DEF Firme
<1>4. ConsultasFirmes'
  BY <1>1, <1>2, <1>3 DEF ConsultasFirmes
<1>5. \A g : g # f => consultasFic'[g] = consultasFic[g]
  BY DEF ConsultasFirmes
<1> QED  BY <1>2, <1>4, <1>5

\* A form that is mounted is filled in with what there is, or begins to be read.
LEMMA MontagemPronta ==
    ASSUME ConsultasFirmes, roteiro' = roteiro, NEW S, S \subseteq Fichas, Montagem(S, token'),
           \A f, g \in S : f = g
    PROVE  /\ ConsultasFirmes'
           /\ ficha' = [campos |-> ficha'.campos, espera |-> ficha'.espera]
           /\ \A f \in S : Firme(f) => Pronta(f)'
<1>1. CASE S = {}
  <2>1. UNCHANGED consultasFic /\ ficha' = FichaVazia
    BY <1>1 DEF Montagem
  <2> QED  BY <1>1, <2>1 DEF ConsultasFirmes, Firme, FichaVazia
<1>2. ASSUME S # {} PROVE
           /\ ConsultasFirmes'
           /\ ficha' = [campos |-> ficha'.campos, espera |-> ficha'.espera]
           /\ \A f \in S : Firme(f) => Pronta(f)'
  <2>1. PICK f \in S, velha \in {FALSE, "ficha" \in roteiro.chaves} :
          /\ ficha' = Preenchida(FichaVazia, consultasFic[f])
          /\ consultasFic' = [consultasFic EXCEPT ![f] = Montar(@, token', velha)]
    BY <1>2 DEF Montagem
  <2> DEFINE c == consultasFic[f]
             m == Montar(c, token', velha)
  <2>2. Entrada(c) /\ f \in Fichas
    BY DEF ConsultasFirmes
  <2>3. Derivada(m, c)
    BY <2>2, EntradaSegue
  <2>4. m.dado = c.dado /\ (c.dado = SemDado => Buscando(m))
    BY <2>2 DEF Montar, Refazer, Entrada, Buscando, Busca
  <2>5. consultasFic' = [consultasFic EXCEPT ![f] = m]
    BY <2>1
  <2>6. ConsultasFirmes' /\ consultasFic'[f] = m
    <3>1. Entrada(m) /\ (Firme(f) => Conteudo(m) \subseteq {"inteiro"})
      BY <2>2, <2>3 DEF Derivada, ConsultasFirmes
    <3> HIDE DEF m
    <3> QED  BY <2>2, <2>5, <3>1, UmaConsulta
  <2>7. ficha' = IF c.dado = SemDado THEN FichaVazia ELSE [FichaVazia EXCEPT !.campos = c.dado]
    BY <2>1 DEF Preenchida
  <2>8. Firme(f) /\ c.dado # SemDado => c.dado = "inteiro"
    BY <2>2 DEF ConsultasFirmes, Conteudo
  <2>9. Firme(f) => Pronta(f)'
    <3> HIDE DEF m
    <3> QED  BY <2>4, <2>6, <2>7, <2>8 DEF Pronta, FichaVazia
  <2> QED  BY <2>6, <2>7, <2>9 DEF FichaVazia
<1> QED  BY <1>1, <1>2

\* How a step may leave the token, for the forms.
TokenSegue ==
    /\ roteiro' = roteiro
    /\ token' \in {token, 0} \/ (tela = "login" /\ tela' = tela)

\* Forms that keep their fields and their entries are still ready.
LEMMA SeguePronta ==
    ASSUME InvFic, TokenSegue, UNCHANGED <<ficha, consultasFic>>, Montada' = Montada
    PROVE  \A f \in Montada' : Firme(f)' => Pronta(f)'
<1> SUFFICES ASSUME NEW f \in Montada', Firme(f)' PROVE Pronta(f)'
  OBVIOUS
<1>1. f \in Montada /\ Firme(f) /\ Pronta(f)
  BY DEF InvFic, Firme, TokenSegue
<1>2. token' \in {token, 0}
  BY <1>1, UmaMontada DEF TokenSegue
<1> QED  BY <1>1, <1>2 DEF Pronta

\* The forms follow the page.
LEMMA FicAcompanha ==
    ASSUME InvFic, TokenSegue, Acompanhar
    PROVE  InvFic'
<1>1. roteiro' = roteiro /\ UNCHANGED <<fornecedor, vooFic>>
  BY DEF Acompanhar, TokenSegue
<1>2. /\ painel' = [linha |-> painel'.linha, suas |-> painel'.suas]
      /\ painel'.suas # {} => NoPassoProdutos'
  BY DEF Acompanhar, PainelFechado, InvFic
<1>3. /\ ConsultasFirmes'
      /\ ficha' = [campos |-> ficha'.campos, espera |-> ficha'.espera]
      /\ \A f \in Montada' : Firme(f)' => Pronta(f)'
  <2>1. CASE Montada' = Montada
    <3>1. UNCHANGED <<ficha, consultasFic>>
      BY <2>1 DEF Acompanhar
    <3>2. \A f \in Montada' : Firme(f)' => Pronta(f)'
      BY <2>1, <3>1, SeguePronta
    <3> QED  BY <1>1, <3>1, <3>2 DEF InvFic, ConsultasFirmes, Firme
  <2>2. CASE Montada' # Montada
    <3>1. Montagem(Montada', token')
      BY <2>2 DEF Acompanhar
    <3>2. ConsultasFirmes
      BY DEF InvFic
    <3> DEFINE S == Montada'
    <3>3. S \subseteq Fichas /\ \A f, g \in S : f = g
      BY UmaMontada
    <3>4. /\ ConsultasFirmes'
          /\ ficha' = [campos |-> ficha'.campos, espera |-> ficha'.espera]
          /\ \A f \in S : Firme(f) => Pronta(f)'
      <4>1. Montagem(S, token')
        BY <3>1
      <4> HIDE DEF S
      <4> QED  BY <1>1, <3>2, <3>3, <4>1, MontagemPronta
    <3> QED  BY <1>1, <3>4 DEF Firme
  <2> QED  BY <2>1, <2>2
<1> QED  BY <1>1, <1>2, <1>3 DEF InvFic, Firme

\* A step that leaves the page and the mounted form alone.
LEMMA MesmaMontada ==
    ASSUME UNCHANGED <<roteiro, tela, revVars>>, painel'.linha = painel.linha
    PROVE  Montada' = Montada /\ NoPassoProdutos' = NoPassoProdutos
BY DEF revVars, Montada, NoPassoProdutos, RevisaoAberta, TemFornecedor, Usa, Lido

\* The panel is opened for a line, or closed.
LEMMA FicMostra ==
    ASSUME InvFic, UNCHANGED <<roteiro, tela, token, revVars>>, NEW l \in Fichas,
           NoPassoProdutos, Mostrar(l)
    PROVE  InvFic'
<1>1. painel' = [painel EXCEPT !.linha = l] /\ UNCHANGED <<fornecedor, vooFic>>
  BY DEF Mostrar
<1>2. NoPassoProdutos'
  BY DEF revVars, NoPassoProdutos, RevisaoAberta, Lido
<1> DEFINE S == {l} \ {0}
<1>3. Montada' \subseteq S
  BY <1>1, <1>2, UmaMontada DEF Montada, InvFic
<1>4. /\ ConsultasFirmes'
      /\ ficha' = [campos |-> ficha'.campos, espera |-> ficha'.espera]
      /\ \A f \in S : Firme(f) => Pronta(f)'
  <2>1. Montagem(S, token')
    BY DEF Mostrar
  <2>2. ConsultasFirmes /\ S \subseteq Fichas /\ \A f, g \in S : f = g
    BY DEF InvFic
  <2> HIDE DEF S
  <2> QED  BY <2>1, <2>2, MontagemPronta
<1> QED  BY <1>1, <1>2, <1>3, <1>4 DEF InvFic, Firme

\* An update carries what the form holds, and the token of the moment.
LEMMA FicAtualiza ==
    ASSUME InvFic, UNCHANGED <<roteiro, tela, token, revVars>>, Atualizar
    PROVE  InvFic'
<1>1. PICK f \in Montada :
          /\ Mostra(f)
          /\ vooFic' = vooFic \cup {Pedido("ficha", [ficha |-> f, campos |-> ficha.campos])}
          /\ ficha' = [ficha EXCEPT !.espera = envios + 1]
          /\ painel' = IF f = 0 THEN painel ELSE [painel EXCEPT !.suas = @ \cup {envios + 1}]
          /\ UNCHANGED <<fornecedor, consultasFic>>
  BY DEF Atualizar
<1> DEFINE p == Pedido("ficha", [ficha |-> f, campos |-> ficha.campos])
<1>2. p.arg.ficha = f /\ p.arg.campos = ficha.campos /\ p.cred = token
  BY DEF Pedido
<1>3. Firme(f) => ficha.campos = "inteiro" \/ (f = 0 /\ token = 0)
  BY <1>1 DEF InvFic, Pronta, Mostra
<1>4. ficha'.campos = ficha.campos /\ ficha' = [campos |-> ficha'.campos, espera |-> ficha'.espera]
  BY <1>1 DEF InvFic
<1>5. /\ painel'.linha = painel.linha
      /\ painel' = [linha |-> painel'.linha, suas |-> painel'.suas]
      /\ f = 0 => painel'.suas = painel.suas
  BY <1>1 DEF InvFic
<1>6. Montada' = Montada /\ NoPassoProdutos' = NoPassoProdutos
  BY <1>5, MesmaMontada
<1>7. f # 0 => NoPassoProdutos
  BY <1>1 DEF Montada
<1>8. \A g \in Montada' : Firme(g)' => Pronta(g)'
  BY <1>1, <1>4, <1>6 DEF InvFic, Pronta, Firme
<1>9. \A q \in vooFic' : Firme(q.arg.ficha) =>
          q.arg.campos = "inteiro" \/ (q.arg.ficha = 0 /\ q.cred = 0)
  <2> HIDE DEF p
  <2>1. vooFic' = vooFic \cup {p}
    BY <1>1 DEF p
  <2> QED  BY <1>2, <1>3, <2>1 DEF InvFic
<1>10. ConsultasFirmes'
  BY <1>1 DEF InvFic, ConsultasFirmes, Firme
<1> QED
  BY <1>1, <1>4, <1>5, <1>6, <1>7, <1>8, <1>9, <1>10 DEF InvFic, Firme

\* The buttons of the forms: a line's form is shown or hidden, an update is sent with
\* what the form on the screen was filled in with.
LEMMA FicClique ==
    ASSUME InvFic, UNCHANGED <<roteiro, tela, token, revVars>>, CliqueFic
    PROVE  InvFic'
<1>1. ASSUME NEW l \in Linhas, EditarLinha(l) PROVE InvFic'
  BY <1>1, FicMostra DEF EditarLinha, Fichas
<1>2. ASSUME CancelarFicha PROVE InvFic'
  BY <1>2, FicMostra DEF CancelarFicha, Fichas, Montada
<1> QED  BY <1>1, <1>2, FicAtualiza DEF CliqueFic

\* The server writes what the update of a live session carries: the whole record.
LEMMA FornecedorInteiro ==
    ASSUME InvFic, NEW p \in vooFic, FeitaFic(p)
    PROVE  Firme(0) => fornecedor' = "inteiro"
BY DEF InvFic, FeitaFic, Autorizado, Firme

\* An answer that leaves the panel on its line: the forms keep their fields.
LEMMA FicSolta ==
    ASSUME InvFic, TokenSegue, UNCHANGED <<tela, revVars>>, NEW p \in vooFic, SoltarFic(p),
           ConsultasFirmes', Firme(0) => fornecedor' = "inteiro",
           \A f \in Fichas : /\ consultasFic'[f].dado = consultasFic[f].dado
                             /\ Buscando(consultasFic[f]) => Buscando(consultasFic'[f])
    PROVE  InvFic'
<1>1. /\ ficha'.campos = ficha.campos
      /\ ficha' = [campos |-> ficha'.campos, espera |-> ficha'.espera]
  BY DEF SoltarFic, InvFic
<1>2. /\ painel'.linha = painel.linha
      /\ painel' = [linha |-> painel'.linha, suas |-> painel'.suas]
      /\ painel'.suas \subseteq painel.suas
  BY DEF SoltarFic, InvFic
<1>3. roteiro' = roteiro /\ vooFic' \subseteq vooFic
  BY DEF TokenSegue, SoltarFic
<1>4. Montada' = Montada /\ NoPassoProdutos' = NoPassoProdutos
  BY <1>2, <1>3, MesmaMontada
<1>5. ASSUME NEW f \in Montada', Firme(f)' PROVE Pronta(f)'
  <2>1. f \in Montada /\ f \in Fichas /\ Pronta(f)
    BY <1>3, <1>4, <1>5, UmaMontada DEF InvFic, Firme
  <2>2. token' \in {token, 0}
    BY <2>1, UmaMontada DEF TokenSegue
  <2> QED  BY <1>1, <2>1, <2>2 DEF Pronta
<1> QED  BY <1>1, <1>2, <1>3, <1>4, <1>5 DEF InvFic, Firme

\* The answers to the updates.
LEMMA FicResposta ==
    ASSUME InvFic, TokenSegue, UNCHANGED <<tela, revVars>>, NEW p \in vooFic,
           RespostaFic(p) \/ RecusaFic(p) \/ PerdidaFic(p) \/ SemSessaoFic(p)
    PROVE  InvFic'
<1>0. ConsultasFirmes /\ roteiro' = roteiro
  BY DEF InvFic, TokenSegue
<1>1. ASSUME RecusaFic(p) \/ PerdidaFic(p) \/ SemSessaoFic(p) PROVE InvFic'
  <2>1. SoltarFic(p) /\ UNCHANGED consultasFic
    BY <1>1 DEF RecusaFic, PerdidaFic, SemSessaoFic, FalhaFic
  <2>2. Firme(0) => fornecedor' = "inteiro"
    BY <1>1, FornecedorInteiro DEF RecusaFic, PerdidaFic, SemSessaoFic, InvFic
  <2>3. ConsultasFirmes'
    BY <1>0, <2>1 DEF ConsultasFirmes, Firme
  <2> QED  BY <2>1, <2>2, <2>3, FicSolta
<1>2. ASSUME RespostaFic(p) PROVE InvFic'
  <2> DEFINE f == p.arg.ficha
             c == consultasFic[f]
             m == Invalidar(c, f \in Montada, token)
  <2>1. consultasFic' = [consultasFic EXCEPT ![f] = m]
    BY <1>2 DEF RespostaFic
  <2>2. f \in Fichas => Entrada(m) /\ (Firme(f) => Conteudo(m) \subseteq {"inteiro"})
    BY <1>0, EntradaSegue DEF ConsultasFirmes, Derivada
  <2>3. f \in Fichas => m.dado = c.dado /\ (Buscando(c) => Buscando(m))
    <3>1. f \in Fichas => Entrada(c)
      BY <1>0 DEF ConsultasFirmes
    <3> HIDE DEF c
    <3> QED  BY <3>1 DEF Entrada, Invalidar, Refazer, Buscando, Busca
  <2>4. ConsultasFirmes' /\ \A g \in Fichas : /\ consultasFic'[g].dado = consultasFic[g].dado
                                              /\ Buscando(consultasFic[g]) => Buscando(consultasFic'[g])
    <3> HIDE DEF m, f
    <3>1. /\ ConsultasFirmes'
          /\ f \in Fichas => consultasFic'[f] = m
          /\ \A g : g # f => consultasFic'[g] = consultasFic[g]
      BY <1>0, <2>1, <2>2, UmaConsulta
    <3> QED  BY <2>3, <3>1
  <2>5. Firme(0) => fornecedor' = "inteiro"
    BY <1>2, FornecedorInteiro DEF RespostaFic
  <2>6. CASE p.n \notin painel.suas
    BY <1>2, <2>4, <2>5, <2>6, FicSolta DEF RespostaFic
  <2>7. CASE p.n \in painel.suas
    <3>1. /\ vooFic' = vooFic \ {p} /\ ficha' = FichaVazia
          /\ painel' = [PainelFechado EXCEPT !.suas = painel.suas \ {p.n}]
      BY <1>2, <2>7 DEF RespostaFic
    <3>2. NoPassoProdutos /\ NoPassoProdutos' = NoPassoProdutos
      BY <2>7 DEF InvFic, revVars, NoPassoProdutos, RevisaoAberta, Lido
    <3>3. Montada' = {}
      BY <3>1, <3>2, UmaMontada DEF Montada, PainelFechado
    <3> QED  BY <1>0, <2>4, <2>5, <3>1, <3>2, <3>3 DEF InvFic, Firme, FichaVazia, PainelFechado
  <2> QED  BY <2>6, <2>7
<1> QED  BY <1>1, <1>2

\* What reaches the entry of a form: the value of the server, or nothing new.  The form
\* on the screen takes it when it is another value.
LEMMA FicEntrada ==
    ASSUME InvFic, TokenSegue, UNCHANGED <<tela, revVars>>, NEW f \in Fichas, NEW c,
           NaEntrada(f, c), Entrada(c), Firme(f) => Conteudo(c) \subseteq {"inteiro"},
           \/ c.dado # SemDado
           \/ /\ c.dado = consultasFic[f].dado
              /\ f = 0 /\ Firme(0) /\ tela # "login"
                     => Buscando(c) \/ ~Buscando(consultasFic[f]) \/ token' = 0
    PROVE  InvFic'
<1>1. /\ consultasFic' = [consultasFic EXCEPT ![f] = c]
      /\ ficha' = IF f \in Montada /\ c.dado # consultasFic[f].dado THEN Preenchida(ficha, c) ELSE ficha
      /\ UNCHANGED <<fornecedor, painel, vooFic>>
  BY DEF NaEntrada
<1>2. ConsultasFirmes /\ roteiro' = roteiro
  BY DEF InvFic, TokenSegue
<1>3. /\ ConsultasFirmes'
      /\ consultasFic'[f] = c
      /\ \A g : g # f => consultasFic'[g] = consultasFic[g]
  BY <1>1, <1>2, UmaConsulta
<1>4. Montada' = Montada /\ NoPassoProdutos' = NoPassoProdutos
  BY <1>1, <1>2, MesmaMontada
<1>5. ficha' = [campos |-> ficha'.campos, espera |-> ficha'.espera]
  BY <1>1 DEF Preenchida, InvFic
<1>6. ASSUME NEW g \in Montada', Firme(g)' PROVE Pronta(g)'
  <2>1. g \in Montada /\ Firme(g) /\ Pronta(g) /\ tela = "revisao"
    BY <1>2, <1>4, <1>6, UmaMontada DEF InvFic, Firme
  <2>2. token' \in {token, 0}
    BY <2>1 DEF TokenSegue
  <2>3. CASE g # f
    <3>1. f \notin Montada
      BY <2>1, <2>3, UmaMontada
    <3> QED  BY <1>1, <1>3, <2>1, <2>2, <2>3, <3>1 DEF Pronta
  <2>4. CASE g = f
    <3>1. c.dado # SemDado => c.dado = "inteiro"
      BY <2>1, <2>4 DEF Conteudo
    <3>2. CASE c.dado # consultasFic[f].dado
      <4>1. ficha'.campos = c.dado /\ c.dado # SemDado
        BY <1>1, <2>1, <2>4, <3>2 DEF Preenchida, InvFic
      <4> QED  BY <1>3, <2>4, <3>1, <4>1 DEF Pronta
    <3>3. CASE c.dado = consultasFic[f].dado
      <4>1. ficha' = ficha
        BY <1>1, <3>3
      <4> QED  BY <1>3, <2>1, <2>2, <2>4, <3>3, <4>1 DEF Pronta
    <3> QED  BY <3>2, <3>3
  <2> QED  BY <2>3, <2>4
<1> QED  BY <1>1, <1>2, <1>3, <1>4, <1>5, <1>6 DEF InvFic, Firme

\* The reads of the forms.
LEMMA FicLeitura ==
    ASSUME InvFic, TokenSegue, UNCHANGED <<tela, revVars>>, NEW f \in Fichas,
           LerFic(f) \/ ReceberFic(f) \/ DesistirFic(f)
    PROVE  InvFic'
<1> DEFINE c == consultasFic[f]
<1>1. Entrada(c) /\ (Firme(f) => Conteudo(c) \subseteq {"inteiro"})
  BY DEF InvFic, ConsultasFirmes
<1>2. ASSUME NaEntrada(f, Desistir(c)), f = 0 /\ Firme(0) /\ tela # "login" => token' = 0 PROVE InvFic'
  <2> DEFINE d == Desistir(c)
  <2>1. Entrada(d) /\ (Firme(f) => Conteudo(d) \subseteq {"inteiro"})
    BY <1>1, EntradaSegue DEF Derivada
  <2>2. d.dado = c.dado
    BY <1>1 DEF Desistir, Entrada
  <2>3. NaEntrada(f, d)
    BY <1>2
  <2> HIDE DEF d
  <2> QED  BY <1>2, <2>1, <2>2, <2>3, FicEntrada
<1>3. ASSUME LerFic(f) PROVE InvFic'
  <2>1. CASE Autorizado(c.busca.cred)
    <3> DEFINE v == IF f = 0 THEN fornecedor ELSE "inteiro"
               d == Ler(c, v)
    <3>1. NaEntrada(f, d) /\ Buscando(c)
      BY <1>3, <2>1 DEF LerFic
    <3>2. Firme(f) => v = "inteiro"
      BY DEF InvFic
    <3>3. Entrada(d) /\ Conteudo(d) \subseteq Conteudo(c) \cup {v}
      <4> HIDE DEF v
      <4> QED  BY <1>1, EntradaSegue
    <3>4. Firme(f) => Conteudo(d) \subseteq {"inteiro"}
      <4> HIDE DEF v, d
      <4> QED  BY <1>1, <3>2, <3>3
    <3>5. d.dado = c.dado /\ Buscando(d)
      BY <1>1, <3>1 DEF Ler, Entrada, Buscando
    <3> HIDE DEF d
    <3> QED  BY <3>1, <3>3, <3>4, <3>5, FicEntrada
  <2>2. CASE ~Autorizado(c.busca.cred)
    BY <1>2, <1>3, <2>2 DEF LerFic, NaoAutorizado
  <2> QED  BY <2>1, <2>2
<1>4. ASSUME ReceberFic(f) PROVE InvFic'
  <2> DEFINE d == Receber(c)
  <2>1. NaEntrada(f, d) /\ d.dado # SemDado
    BY <1>4 DEF ReceberFic, Lida, Receber
  <2>2. Entrada(d) /\ (Firme(f) => Conteudo(d) \subseteq {"inteiro"})
    BY <1>1, EntradaSegue DEF Derivada
  <2> HIDE DEF d
  <2> QED  BY <2>1, <2>2, FicEntrada
<1>5. ASSUME DesistirFic(f) PROVE InvFic'
  BY <1>2, <1>5 DEF DesistirFic, Firme
<1> QED  BY <1>3, <1>4, <1>5

\* Session and forms together.
InvCadastro == InvSessao /\ InvFic

\* The forms follow the session: it may end under a form that waits for its record.
LEMMA CadastroPasso == InvCadastro /\ [Next]_vars => InvCadastro'
<1> SUFFICES ASSUME InvCadastro, [Next]_vars PROVE InvFic'
  BY SessaoPasso DEF InvCadastro
<1>1. InvSessao /\ InvFic
  BY DEF InvCadastro
<1>2. TokenSegue
  BY <1>1, SessaoPasso DEF TokenSegue
<1>3. CASE UNCHANGED <<tela, revVars, ficVars>>
  <2>1. UNCHANGED <<fornecedor, painel, ficha, consultasFic, vooFic>>
    BY <1>3 DEF ficVars
  <2>2. Montada' = Montada /\ NoPassoProdutos' = NoPassoProdutos
    BY <1>2, <1>3, <2>1, MesmaMontada DEF TokenSegue
  <2>3. \A f \in Montada' : Firme(f)' => Pronta(f)'
    BY <1>1, <1>2, <2>1, <2>2, SeguePronta
  <2> QED  BY <1>1, <1>2, <2>1, <2>2, <2>3 DEF InvFic, ConsultasFirmes, Firme, TokenSegue
<1>4. CASE Acompanhar
  BY <1>1, <1>2, <1>4, FicAcompanha
<1>5. CASE CliqueFic /\ UNCHANGED <<tela, token, revVars>>
  BY <1>1, <1>2, <1>5, FicClique DEF TokenSegue
<1>6. CASE RedeFic /\ UNCHANGED <<tela, revVars>>
  BY <1>1, <1>2, <1>6, FicResposta, FicLeitura DEF RedeFic
<1>7. NextSessao => tela' = tela
  BY DEF NextSessao, Entrar, Entrou, NaoEntrou, Sair, Vencer, Intervalo, RespostaResumo, FalhaResumo,
         Clicar
<1>8. CASE UNCHANGED vars
  BY <1>3, <1>8 DEF vars, sessaoVars, telasVars
<1> QED
  BY <1>3, <1>4, <1>5, <1>6, <1>7, <1>8 DEF Next, Trocar, Resto, telasVars

\* While the reads of the forms do not fail, no update erases the supplier, and the form
\* of a product is never sent empty, for any lines, sessions and number of updates.
THEOREM CadastroInteiro == Spec => []CadastroPreservado
<1>1. Init => InvCadastro
  <2> SUFFICES ASSUME Init PROVE InvCadastro
    OBVIOUS
  <2>1. InvSessao
    BY DEF Init, InitSessao, InvSessao
  <2>2. Montada = {}
    BY DEF Init, InitSessao, Montada, NoPassoProdutos, RevisaoAberta
  <2>3. ConsultasFirmes
    BY EntradaVazia DEF Init, InitFichas, ConsultasFirmes
  <2> QED  BY <2>1, <2>2, <2>3 DEF Init, InitFichas, InvCadastro, InvFic, FichaVazia, PainelFechado
<1>2. InvCadastro => CadastroPreservado
  BY DEF InvCadastro, InvFic, CadastroPreservado, Firme
<1> QED  BY <1>1, <1>2, CadastroPasso, PTL DEF Spec

-----------------------------------------------------------------------------
(***************************************************************************)
(* Theorems about the page of an order and the list of products, for any   *)
(* number of writes, sessions, forms, products and pages.                  *)
(***************************************************************************)

\* The bounds of the instance, and the numbers the writes of the screens get: they grow
\* by one at most in a step.
InvEnvios == roteiro \in Roteiros /\ envios \in Nat

EnviosSeguem == envios' = envios \/ (envios < roteiro.envios /\ envios' = envios + 1)

\* A click sends one write at most; of the answers, only a loop's sends the next one.
LEMMA EnviosPasso ==
    ASSUME InvEnvios, [Next]_vars
    PROVE  InvEnvios' /\ EnviosSeguem /\ roteiro' = roteiro
<1>1. NextSessao \/ Transicao => UNCHANGED <<roteiro, envios>>
  BY DEF NextSessao, Transicao, Entrar, Entrou, NaoEntrou, Sair, Vencer, Intervalo, RespostaResumo,
         FalhaResumo, Clicar
<1>2. CliqueOS => EnviosSeguem
  BY DEF CliqueOS, EscolherTipo, EscolherProduto, DescreverServico, TrocarProduto, Adicionar, RemoverItem,
         MudarStatus, CancelarOS, AbrirDialogo, FecharDialogo, ConfirmarFechamento, TrocarAba, Lancar,
         RemoverApt, Mandar, Contar, EnviosSeguem
<1>3. CliqueRev => EnviosSeguem
  BY DEF CliqueRev, Avancar, VoltarAoFornecedor, VoltarALista, Vincular, ListarPagina, CancelarImportacao,
         Concluir, MandarRev, Contar, EnviosSeguem
<1>4. RedeRev => EnviosSeguem
  <2>1. ASSUME NEW p \in vooRev,
               \/ RespostaVincular(p) \/ RespostaPagina(p) \/ RespostaCriar(p)
               \/ RecusaRev(p) \/ PerdidaRev(p) \/ SemSessaoRev(p)
        PROVE  EnviosSeguem
    BY <2>1 DEF RespostaVincular, RespostaPagina, RespostaCriar, RecusaRev, PerdidaRev, SemSessaoRev,
                ComErro, Contar, EnviosSeguem
  <2>2. ASSUME Colega \/ LerRev \/ ReceberRev \/ DesistirRev \/ FocarRev PROVE EnviosSeguem
    BY <2>2 DEF Colega, LerRev, ReceberRev, DesistirRev, FocarRev, EnviosSeguem
  <2> QED  BY <2>1, <2>2 DEF RedeRev
<1>5. CliqueFic => EnviosSeguem
  BY DEF CliqueFic, CancelarFicha, Atualizar, EditarLinha, Mostrar, Contar, EnviosSeguem
<1>6. CliqueProd => EnviosSeguem
  BY DEF CliqueProd, Anterior, Proxima, Pesquisar, Paginar, AbrirNovo, Editar, Abrir, NaFicha, FecharFicha,
         Preencher, CadastrarMarca, Salvar, ImportarXlsx, MandarProd, Contar, EnviosSeguem
<1>7. RedeProd => EnviosSeguem
  BY DEF RedeProd, RespostaFicha, RespostaXlsx, RespostaMarca, RecusaProd, PerdidaProd, SemSessaoProd,
         FalhaProd, MarcaEscolhida, LerProd, ReceberProd, DesistirProd, NaConsulta, EnviosSeguem
<1>8. UNCHANGED <<roteiro, envios>> => roteiro' = roteiro /\ EnviosSeguem
  BY DEF EnviosSeguem
<1>9. roteiro' = roteiro /\ EnviosSeguem
  BY <1>1, <1>2, <1>3, <1>4, <1>5, <1>6, <1>7, <1>8
  DEF Next, vars, sessaoVars, Trocar, Resto
<1> QED  BY <1>9 DEF InvEnvios, EnviosSeguem

-----------------------------------------------------------------------------
(***************************************************************************)
(* The page of an order.  An answer that left the server before an         *)
(* addition was answered is dropped by the invalidation if the list is on  *)
(* the screen; what is read afterwards holds the addition.                 *)
(***************************************************************************)
Listas == {"itens", "apts"}

\* An entry shows n, or has a mark that only an answer that holds n takes away.
Mostra1(c, n) ==
    /\ c.invalida \/ n \in c.dado
    /\ c.busca.lido # SemDado => n \in c.busca.lido

\* What is at the server, was seen, or is in flight, is known by its number; a write in
\* flight has not been done.
InvOS ==
    /\ ordem = [status |-> ordem.status, itens |-> ordem.itens, apts |-> ordem.apts]
    /\ ordem.itens \cup ordem.apts \cup vistos \subseteq 1 .. envios
    /\ consultasOS = [k \in ChavesOS |-> consultasOS[k]]
    /\ \A k \in ChavesOS : Entrada(consultasOS[k])
    /\ \A p \in vooOS : p.n \in 1 .. envios /\ p.n \notin ordem.itens \cup ordem.apts \cup vistos
    /\ \A p, q \in vooOS : p.n = q.n => p = q
    /\ \A k \in Listas : \A n \in vistos \cap NoServidor(k) : Mostra1(consultasOS[k], n)

\* The operations of the library on an entry keep what it shows.
LEMMA MostraSegue ==
    ASSUME NEW c, Entrada(c), NEW n, Mostra1(c, n)
    PROVE  /\ \A cred : Mostra1(Refazer(c, cred), n)
           /\ \A cred, velha : Mostra1(Montar(c, cred, velha), n)
           /\ \A cred, ativa : Mostra1(Invalidar(c, ativa, cred), n)
           /\ Lida(c) => Mostra1(Receber(c), n)
           /\ Mostra1(Desistir(c), n)
           /\ \A v : n \in v => Mostra1(Ler(c, v), n)
<1>1. ASSUME NEW cred PROVE Mostra1(Refazer(c, cred), n)
  BY DEF Mostra1, Refazer, Entrada, Busca
<1>2. ASSUME NEW cred, NEW velha PROVE Mostra1(Montar(c, cred, velha), n)
  BY <1>1 DEF Montar
<1>3. ASSUME NEW cred, NEW ativa PROVE Mostra1(Invalidar(c, ativa, cred), n)
  BY DEF Mostra1, Invalidar, Refazer, Entrada, Busca
<1>4. Lida(c) => Mostra1(Receber(c), n)
  BY DEF Mostra1, Receber, Lida, SemBusca
<1>5. Mostra1(Desistir(c), n)
  <2>1. Desistir(c) = [dado |-> c.dado, invalida |-> c.invalida, busca |-> SemBusca]
    BY DEF Desistir, Entrada
  <2> QED  BY <2>1 DEF Mostra1, SemBusca
<1>6. ASSUME NEW v, n \in v PROVE Mostra1(Ler(c, v), n)
  BY <1>6 DEF Mostra1, Ler, Entrada
<1> QED  BY <1>1, <1>2, <1>3, <1>4, <1>5, <1>6

\* Invalidating the list on the screen marks it and drops the answer under way.
LEMMA InvalidarMostra ==
    ASSUME NEW c, Entrada(c), c.dado # SemDado, NEW cred, NEW n
    PROVE  Mostra1(Invalidar(c, TRUE, cred), n)
BY DEF Mostra1, Invalidar, Entrada, Busca

\* A step of the page that adds nothing to what was seen or is at the server, and after
\* which the entries show what they showed.
LEMMA OSSegue ==
    ASSUME InvOS, InvEnvios, EnviosSeguem,
           ordem' = [status |-> ordem'.status, itens |-> ordem'.itens, apts |-> ordem'.apts],
           ordem'.itens \subseteq ordem.itens, ordem'.apts \subseteq ordem.apts,
           vistos' = vistos, vooOS' \subseteq vooOS,
           consultasOS' = [k \in ChavesOS |-> consultasOS'[k]],
           \A k \in ChavesOS : Entrada(consultasOS'[k]),
           \A k \in Listas : \A n \in vistos \cap NoServidor(k) : Mostra1(consultasOS'[k], n)
    PROVE  InvOS'
<1>1. 1 .. envios \subseteq 1 .. envios'
  BY DEF InvEnvios, EnviosSeguem
<1>2. \A k \in Listas : NoServidor(k)' \subseteq NoServidor(k)
  BY DEF Listas, NoServidor
<1> QED  BY <1>1, <1>2 DEF InvOS

\* The buttons send writes with the next number, and change no entry.
LEMMA OSClique ==
    ASSUME InvOS, InvEnvios, CliqueOS
    PROVE  InvOS'
<1>1. \/ UNCHANGED <<ordem, consultasOS, vooOS, vistos, envios>>
      \/ \E op, arg : Mandar(op, arg)
  BY DEF CliqueOS, EscolherTipo, EscolherProduto, DescreverServico, TrocarProduto, Adicionar, RemoverItem,
         MudarStatus, CancelarOS, AbrirDialogo, FecharDialogo, ConfirmarFechamento, TrocarAba, Lancar,
         RemoverApt
<1>2. CASE UNCHANGED <<ordem, consultasOS, vooOS, vistos, envios>>
  BY <1>2 DEF InvOS, NoServidor
<1>3. ASSUME NEW op, NEW arg, Mandar(op, arg) PROVE InvOS'
  <2>1. /\ UNCHANGED <<ordem, consultasOS, vistos>>
        /\ envios' = envios + 1
        /\ vooOS' = vooOS \cup {Pedido(op, arg)}
    BY <1>3 DEF Mandar, Contar
  <2>2. Pedido(op, arg).n = envios + 1
    BY DEF Pedido
  <2>3. 1 .. envios \subseteq 1 .. envios' /\ envios + 1 \in 1 .. envios' /\ envios + 1 \notin 1 .. envios
    BY <2>1 DEF InvEnvios
  <2>4. \A p \in vooOS' : p.n \in 1 .. envios' /\ p.n \notin ordem.itens \cup ordem.apts \cup vistos
    BY <2>1, <2>2, <2>3 DEF InvOS
  <2>5. \A p, q \in vooOS' : p.n = q.n => p = q
    BY <2>1, <2>2, <2>3 DEF InvOS
  <2> QED  BY <2>1, <2>3, <2>4, <2>5 DEF InvOS, NoServidor
<1> QED  BY <1>1, <1>2, <1>3

\* What the server does with a write: a list grows by the write itself, or shrinks.
LEMMA EfeitoNaOrdem ==
    ASSUME InvOS, NEW p
    PROVE  LET o == Efeito(p) IN
           /\ o = [status |-> o.status, itens |-> o.itens, apts |-> o.apts]
           /\ o.itens \subseteq ordem.itens \cup (IF p.op = "item" THEN {p.n} ELSE {})
           /\ o.apts \subseteq ordem.apts \cup (IF p.op = "apt" THEN {p.n} ELSE {})
BY DEF Efeito, InvOS

\* The entries after an invalidation.
LEMMA InvalidadasEntradas ==
    ASSUME InvOS, NEW K
    PROVE  /\ InvalidarOS(K) = [k \in ChavesOS |-> InvalidarOS(K)[k]]
           /\ \A k \in ChavesOS : Entrada(InvalidarOS(K)[k])
           /\ \A k \in Listas : \A n : Mostra1(consultasOS[k], n) => Mostra1(InvalidarOS(K)[k], n)
<1>1. \A k \in ChavesOS : InvalidarOS(K)[k] = IF k \in K THEN Invalidar(consultasOS[k], tela = "os", token)
                                               ELSE consultasOS[k]
  BY DEF InvalidarOS
<1>2. \A k \in ChavesOS : Entrada(consultasOS[k])
  BY DEF InvOS
<1>3. ASSUME NEW k \in ChavesOS PROVE Entrada(InvalidarOS(K)[k])
  BY <1>1, <1>2, EntradaSegue DEF Derivada
<1>4. ASSUME NEW k \in Listas, NEW n, Mostra1(consultasOS[k], n) PROVE Mostra1(InvalidarOS(K)[k], n)
  BY <1>1, <1>2, <1>4, MostraSegue DEF Listas, ChavesOS
<1>5. InvalidarOS(K) = [k \in ChavesOS |-> InvalidarOS(K)[k]]
  BY DEF InvalidarOS
<1> QED  BY <1>3, <1>4, <1>5

\* A write was done: its number is at the server, and in no other write under way.  Its
\* answer, if it is not lost, may be one to be seen.
LEMMA OSFeita ==
    ASSUME InvOS, InvEnvios, envios' = envios, NEW p \in vooOS,
           ordem' = Efeito(p), vooOS' = vooOS \ {p},
           vistos' \in {vistos, vistos \cup {p.n}},
           consultasOS' = [k \in ChavesOS |-> consultasOS'[k]],
           \A k \in ChavesOS : Entrada(consultasOS'[k]),
           \A k \in Listas : \A n : Mostra1(consultasOS[k], n) => Mostra1(consultasOS'[k], n),
           p.n \in vistos' => /\ p.op \in {"item", "apt"}
                              /\ Mostra1(consultasOS'[ListaDe(p)], p.n)
    PROVE  InvOS'
<1>1. /\ ordem' = [status |-> ordem'.status, itens |-> ordem'.itens, apts |-> ordem'.apts]
      /\ ordem'.itens \subseteq ordem.itens \cup (IF p.op = "item" THEN {p.n} ELSE {})
      /\ ordem'.apts \subseteq ordem.apts \cup (IF p.op = "apt" THEN {p.n} ELSE {})
  BY EfeitoNaOrdem
<1>2. p.n \in 1 .. envios /\ p.n \notin ordem.itens \cup ordem.apts \cup vistos
  BY DEF InvOS
<1>3. ordem'.itens \cup ordem'.apts \cup vistos' \subseteq 1 .. envios
  BY <1>1, <1>2 DEF InvOS
<1>4. ASSUME NEW q \in vooOS' PROVE q.n \in 1 .. envios /\ q.n \notin ordem'.itens \cup ordem'.apts \cup vistos'
  <2>1. q \in vooOS /\ q.n # p.n
    BY DEF InvOS
  <2> QED  BY <1>1, <2>1 DEF InvOS
<1>5. \A q, r \in vooOS' : q.n = r.n => q = r
  BY DEF InvOS
<1>6. ASSUME NEW k \in Listas, NEW n \in vistos' \cap NoServidor(k)'
      PROVE  Mostra1(consultasOS'[k], n)
  <2>1. CASE n = p.n
    <3>1. k = ListaDe(p)
      BY <1>1, <1>2, <1>6, <2>1 DEF Listas, NoServidor, ListaDe
    <3> QED  BY <1>6, <2>1, <3>1
  <2>2. CASE n # p.n
    <3>1. n \in vistos \cap NoServidor(k)
      BY <1>1, <1>6, <2>2 DEF Listas, NoServidor
    <3> QED  BY <3>1 DEF InvOS
  <2> QED  BY <2>1, <2>2
<1> QED  BY <1>1, <1>3, <1>4, <1>5, <1>6 DEF InvOS

\* The answers of the writes, whether they arrive or not.
LEMMA OSResposta ==
    ASSUME InvOS, InvEnvios, envios' = envios, NEW p \in vooOS,
           RespostaOS(p) \/ RecusaOS(p) \/ PerdidaOS(p) \/ SemSessaoOS(p)
    PROVE  InvOS'
<1>0. p.n \notin vistos
  BY DEF InvOS
<1>1. ASSUME RespostaOS(p) PROVE InvOS'
  <2> DEFINE K == Invalidadas(p)
  <2>1. consultasOS' = InvalidarOS(K) /\ ordem' = Efeito(p) /\ vooOS' = vooOS \ {p}
    BY <1>1 DEF RespostaOS
  <2>2. \/ vistos' = vistos
        \/ /\ vistos' = vistos \cup {p.n}
           /\ p.op \in {"item", "apt"} /\ tela = "os"
           /\ consultasOS[ListaDe(p)].dado # SemDado
    BY <1>1 DEF RespostaOS
  <2>3. ASSUME vistos' = vistos \cup {p.n}, p.op \in {"item", "apt"}, tela = "os",
               consultasOS[ListaDe(p)].dado # SemDado
        PROVE  Mostra1(consultasOS'[ListaDe(p)], p.n)
    <3>1. ListaDe(p) \in K /\ ListaDe(p) \in ChavesOS
      BY <2>3 DEF ListaDe, Invalidadas, ChavesOS
    <3>2. Entrada(consultasOS[ListaDe(p)])
      BY <3>1 DEF InvOS
    <3>3. consultasOS'[ListaDe(p)] = Invalidar(consultasOS[ListaDe(p)], tela = "os", token)
      BY <2>1, <3>1 DEF InvalidarOS
    <3>4. (tela = "os") = TRUE
      BY <2>3
    <3>5. Mostra1(Invalidar(consultasOS[ListaDe(p)], TRUE, token), p.n)
      BY <2>3, <3>2, InvalidarMostra
    <3> QED  BY <3>3, <3>4, <3>5
  <2> HIDE DEF K
  <2>4. /\ consultasOS' = [k \in ChavesOS |-> consultasOS'[k]]
        /\ \A k \in ChavesOS : Entrada(consultasOS'[k])
        /\ \A k \in Listas : \A n : Mostra1(consultasOS[k], n) => Mostra1(consultasOS'[k], n)
    BY <2>1, InvalidadasEntradas
  <2> QED  BY <1>0, <2>1, <2>2, <2>3, <2>4, OSFeita
<1>2. ASSUME PerdidaOS(p) PROVE InvOS'
  <2>1. ordem' = Efeito(p) /\ vooOS' = vooOS \ {p} /\ vistos' = vistos /\ consultasOS' = consultasOS
    BY <1>2 DEF PerdidaOS
  <2>2. /\ consultasOS' = [k \in ChavesOS |-> consultasOS'[k]]
        /\ \A k \in ChavesOS : Entrada(consultasOS'[k])
    BY <2>1 DEF InvOS
  <2> QED  BY <1>0, <2>1, <2>2, OSFeita
<1>3. ASSUME RecusaOS(p) \/ SemSessaoOS(p) PROVE InvOS'
  <2>1. vooOS' \subseteq vooOS /\ UNCHANGED <<ordem, consultasOS, vistos, envios>>
    BY <1>3 DEF RecusaOS, SemSessaoOS
  <2> QED  BY <2>1 DEF InvOS, NoServidor
<1> QED  BY <1>1, <1>2, <1>3

\* The reads.
LEMMA OSLeitura ==
    ASSUME InvOS, InvEnvios, envios' = envios, NEW k \in ChavesOS,
           LerOS(k) \/ ReceberOS(k) \/ DesistirOS(k) \/ FocarOS(k)
    PROVE  InvOS'
<1> DEFINE c == consultasOS[k]
           d == consultasOS'[k]
<1>1. Entrada(c) /\ UNCHANGED <<ordem, vooOS, vistos>>
  BY DEF InvOS, LerOS, ReceberOS, DesistirOS, FocarOS
<1>2. \/ consultasOS' = [consultasOS EXCEPT ![k] = Ler(c, NoServidor(k))]
      \/ consultasOS' = [consultasOS EXCEPT ![k] = Desistir(c)]
      \/ Lida(c) /\ consultasOS' = [consultasOS EXCEPT ![k] = Receber(c)]
      \/ consultasOS' = [consultasOS EXCEPT ![k] = Refazer(c, token)]
  BY DEF LerOS, ReceberOS, DesistirOS, FocarOS
<1>3. \/ d = Ler(c, NoServidor(k)) \/ d = Desistir(c)
      \/ Lida(c) /\ d = Receber(c)
      \/ d = Refazer(c, token)
  BY <1>2 DEF InvOS
<1>4. /\ consultasOS' = [j \in ChavesOS |-> consultasOS'[j]]
      /\ \A j \in ChavesOS : j # k => consultasOS'[j] = consultasOS[j]
  BY <1>2 DEF InvOS
<1>5. Entrada(d)
  BY <1>1, <1>3, EntradaSegue DEF Derivada
<1>6. ASSUME NEW n \in NoServidor(k), Mostra1(c, n) PROVE Mostra1(d, n)
  BY <1>1, <1>3, <1>6, MostraSegue
<1> HIDE DEF d
<1>7. \A j \in ChavesOS : Entrada(consultasOS'[j])
  BY <1>4, <1>5 DEF InvOS, d
<1>8. \A j \in Listas : \A n \in vistos \cap NoServidor(j) : Mostra1(consultasOS'[j], n)
  BY <1>4, <1>6 DEF InvOS, d, Listas, ChavesOS
<1>9. ordem' = [status |-> ordem'.status, itens |-> ordem'.itens, apts |-> ordem'.apts]
  BY <1>1 DEF InvOS
<1>10. EnviosSeguem
  BY DEF EnviosSeguem
<1> QED  BY <1>1, <1>4, <1>7, <1>8, <1>9, <1>10, OSSegue

\* The page is mounted or left.
LEMMA OSMontar ==
    ASSUME InvOS, InvEnvios, envios' = envios, NEW t, MontarOS(t)
    PROVE  InvOS'
<1>1. UNCHANGED <<ordem, vooOS, vistos>>
  BY DEF MontarOS
<1>2. CASE UNCHANGED consultasOS
  BY <1>1, <1>2 DEF InvOS, NoServidor
<1>3. ASSUME NEW velha \in BOOLEAN,
             consultasOS' = [k \in ChavesOS |-> Montar(consultasOS[k], token, velha)]
      PROVE  InvOS'
  <2>1. consultasOS' = [k \in ChavesOS |-> consultasOS'[k]]
    BY <1>3
  <2>2. \A k \in ChavesOS : consultasOS'[k] = Montar(consultasOS[k], token, velha)
    BY <1>3
  <2>3. \A k \in ChavesOS : Entrada(consultasOS'[k])
    BY <2>2, EntradaSegue DEF InvOS, Derivada
  <2>4. \A k \in Listas : \A n \in vistos \cap NoServidor(k) : Mostra1(consultasOS'[k], n)
    BY <2>2, MostraSegue DEF InvOS, Listas, ChavesOS
  <2>5. ordem' = [status |-> ordem'.status, itens |-> ordem'.itens, apts |-> ordem'.apts]
    BY <1>1 DEF InvOS
  <2> QED  BY <1>1, <2>1, <2>3, <2>4, <2>5, OSSegue DEF EnviosSeguem
<1> QED  BY <1>2, <1>3 DEF MontarOS

\* The other screens only take numbers.
LEMMA OSPasso == InvEnvios /\ InvOS /\ [Next]_vars => InvOS'
<1> SUFFICES ASSUME InvEnvios, InvOS, [Next]_vars PROVE InvOS'
  OBVIOUS
<1>1. EnviosSeguem
  BY EnviosPasso
<1>2. CASE UNCHANGED osVars
  <2>1. 1 .. envios \subseteq 1 .. envios'
    BY <1>1 DEF InvEnvios, EnviosSeguem
  <2> QED  BY <1>2, <2>1 DEF InvOS, osVars, NoServidor
<1>3. CASE CliqueOS
  BY <1>3, OSClique
<1>4. CASE RedeOS /\ UNCHANGED envios
  BY <1>4, OSResposta, OSLeitura DEF RedeOS
<1>5. CASE Trocar
  BY <1>5, OSMontar DEF Trocar, Transicao
<1> QED  BY <1>2, <1>3, <1>4, <1>5 DEF Next, vars, telasVars

\* However many writes, pages opened and answers under way: an addition answered to a
\* page that had its list is in the list, or the list is marked to be read anew.
THEOREM ListaMostraAdicao == Spec => []LeituraPropria
<1>1. Init => InvEnvios /\ InvOS
  BY EntradaVazia DEF Init, InitSessao, InitOS, InvEnvios, InvOS, ChavesOS, Listas, NoServidor
<1>2. InvOS => LeituraPropria
  BY DEF InvOS, LeituraPropria, Listas, Mostra1
<1>3. InvEnvios /\ [Next]_vars => InvEnvios'
  BY EnviosPasso
<1> QED  BY <1>1, <1>2, <1>3, OSPasso, PTL DEF Spec

-----------------------------------------------------------------------------
(***************************************************************************)
(* The forms of the products.  Forms are numbered as they are opened, so a *)
(* brand being registered belongs to one form at most, open or not, and    *)
(* what a form takes from an answer is its own.                            *)
(***************************************************************************)
Quais == {"novo", "editar"}

\* The values of the fields of a form: of its row, or typed, chosen or registered in it.
Proprios(f) == {<<f.produto, 0>>, <<f.produto, f.n>>}

Propria(f) == f.texto \in Proprios(f) /\ f.marca \in Proprios(f)

Campos(f) == f = [n |-> f.n, produto |-> f.produto, espera |-> f.espera, texto |-> f.texto,
                  marca |-> f.marca, ativo |-> f.ativo]

\* The brands sent and those whose form waits for the list.
Marcas == relendo \cup {p.arg : p \in {v \in vooProd : v.op = "marca"}}

InvProd ==
    /\ aberturas \in Nat
    /\ fichas = [q \in Quais |-> fichas[q]]
    /\ \A q \in Quais : Campos(fichas[q]) /\ Propria(fichas[q]) /\ fichas[q].n \in 0 .. aberturas
    /\ \A q, r \in Quais : fichas[q].n = fichas[r].n /\ fichas[q].n # 0 => q = r
    /\ \A m \in Marcas : /\ m.n \in 1 .. aberturas
                         /\ \A q \in Quais : fichas[q].n = m.n => fichas[q].produto = m.produto
    /\ \A p \in vooProd : p.op \in {"novo", "salvar"} => Propria(p.arg)

\* A step that sends no brand and no form, and after which each form is the one it was,
\* with fields of its own, or closed.
LEMMA ProdSegue ==
    ASSUME InvProd, aberturas' = aberturas, Marcas' \subseteq Marcas,
           fichas' = [q \in Quais |-> fichas'[q]],
           \A q \in Quais : /\ Campos(fichas'[q]) /\ Propria(fichas'[q])
                            /\ \/ fichas'[q].n = fichas[q].n /\ fichas'[q].produto = fichas[q].produto
                               \/ fichas'[q].n = 0,
           \A p \in vooProd' : p \in vooProd \/ p.op \notin {"novo", "salvar"} \/ Propria(p.arg)
    PROVE  InvProd'
<1>1. \A q \in Quais : fichas'[q].n \in 0 .. aberturas'
  BY DEF InvProd
<1>2. \A q, r \in Quais : fichas'[q].n = fichas'[r].n /\ fichas'[q].n # 0 => q = r
  BY DEF InvProd
<1>3. ASSUME NEW m \in Marcas'
      PROVE  /\ m.n \in 1 .. aberturas'
             /\ \A q \in Quais : fichas'[q].n = m.n => fichas'[q].produto = m.produto
  <2>1. m.n \in 1 .. aberturas /\ m.n # 0
    BY DEF InvProd
  <2> QED  BY <2>1 DEF InvProd
<1>4. \A p \in vooProd' : p.op \in {"novo", "salvar"} => Propria(p.arg)
  BY DEF InvProd
<1> QED  BY <1>1, <1>2, <1>3, <1>4 DEF InvProd

\* A form with one field changed is one.
LEMMA CampoTrocado ==
    ASSUME NEW g, Campos(g), NEW v
    PROVE  /\ Campos([g EXCEPT !.n = v]) /\ Campos([g EXCEPT !.produto = v])
           /\ Campos([g EXCEPT !.texto = v]) /\ Campos([g EXCEPT !.marca = v])
<1>1. Campos([g EXCEPT !.n = v])
  BY DEF Campos
<1>2. Campos([g EXCEPT !.produto = v])
  BY DEF Campos
<1>3. Campos([g EXCEPT !.texto = v])
  BY DEF Campos
<1>4. Campos([g EXCEPT !.marca = v])
  BY DEF Campos
<1> QED  BY <1>1, <1>2, <1>3, <1>4

\* A closed form is one, and has nothing of another.
LEMMA FichaFechada == Campos(Fechada) /\ Propria(Fechada) /\ Fechada.n = 0
BY DEF Campos, Propria, Proprios, Fechada

\* One of the forms is replaced.
LEMMA ProdFicha ==
    ASSUME InvProd, aberturas' = aberturas, Marcas' \subseteq Marcas, vooProd' \subseteq vooProd,
           NEW q \in Quais, NEW f, fichas' = [fichas EXCEPT ![q] = f], Campos(f), Propria(f),
           f.n = 0 \/ (f.n = fichas[q].n /\ f.produto = fichas[q].produto)
    PROVE  InvProd'
<1>1. fichas' = [r \in Quais |-> IF r = q THEN f ELSE fichas[r]]
  BY DEF InvProd
<1>2. \A r \in Quais : fichas'[r] = IF r = q THEN f ELSE fichas[r]
  BY <1>1
<1>3. fichas' = [r \in Quais |-> fichas'[r]]
  BY <1>1
<1>4. \A r \in Quais : Campos(fichas'[r]) /\ Propria(fichas'[r])
  BY <1>2 DEF InvProd
<1> QED  BY <1>2, <1>3, <1>4, ProdSegue

\* A form is opened, with a number of its own.
LEMMA ProdAbre ==
    ASSUME InvProd, NEW q \in Quais, NEW p, Abrir(q, p)
    PROVE  InvProd'
<1> DEFINE f == FichaNova(p)
<1>1. aberturas' = aberturas + 1 /\ UNCHANGED <<vooProd, relendo>>
  BY DEF Abrir, NaFicha
<1>2. fichas' = [r \in Quais |-> IF r = q THEN f ELSE fichas[r]]
  BY DEF Abrir, NaFicha, InvProd
<1>3. Campos(f) /\ Propria(f) /\ f.n = aberturas + 1
  <2>1. Campos(Fechada)
    BY FichaFechada
  <2> DEFINE a == [Fechada EXCEPT !.n = aberturas + 1]
             b == [a EXCEPT !.produto = p]
             c == [b EXCEPT !.texto = <<p, 0>>]
  <2>2. f = [c EXCEPT !.marca = <<p, 0>>]
    BY DEF FichaNova
  <2>3. Campos(f)
    <3>1. Campos(a)
      BY <2>1, CampoTrocado
    <3>2. Campos(b)
      <4> HIDE DEF a
      <4> QED  BY <3>1, CampoTrocado
    <3>3. Campos(c)
      <4> HIDE DEF b
      <4> QED  BY <3>2, CampoTrocado
    <3> HIDE DEF c, f
    <3> QED  BY <2>2, <3>3, CampoTrocado
  <2>4. f.n = aberturas + 1 /\ f.produto = p /\ f.texto = <<p, 0>> /\ f.marca = <<p, 0>>
    BY <2>1 DEF FichaNova, Campos
  <2> HIDE DEF f
  <2> QED  BY <2>3, <2>4 DEF Propria, Proprios
<1> HIDE DEF f
<1>4. \A r \in Quais : fichas'[r] = IF r = q THEN f ELSE fichas[r]
  BY <1>2
<1>5. \A r \in Quais : fichas[r].n < aberturas + 1 /\ fichas[r].n \in 0 .. aberturas + 1
  BY DEF InvProd
<1>6. aberturas \in Nat /\ f.n \in 0 .. aberturas'
  BY <1>1, <1>3 DEF InvProd
<1>7. \A r \in Quais : Campos(fichas'[r]) /\ Propria(fichas'[r]) /\ fichas'[r].n \in 0 .. aberturas'
  BY <1>1, <1>3, <1>4, <1>5, <1>6 DEF InvProd
<1>8. \A r, s \in Quais : fichas'[r].n = fichas'[s].n /\ fichas'[r].n # 0 => r = s
  BY <1>3, <1>4, <1>5, <1>6 DEF InvProd
<1>9. Marcas' = Marcas
  BY <1>1 DEF Marcas
<1>10. ASSUME NEW m \in Marcas
       PROVE  /\ m.n \in 1 .. aberturas'
              /\ \A r \in Quais : fichas'[r].n = m.n => fichas'[r].produto = m.produto
  <2>1. m.n \in 1 .. aberturas
    BY DEF InvProd
  <2>2. m.n \in 1 .. aberturas' /\ m.n # aberturas + 1
    BY <1>1, <1>6, <2>1
  <2> QED  BY <1>3, <1>4, <2>2 DEF InvProd
<1> QED  BY <1>1, <1>2, <1>6, <1>7, <1>8, <1>9, <1>10 DEF InvProd

\* A brand is sent from an open form: no other form has its number.
LEMMA ProdMarca ==
    ASSUME InvProd, NEW q \in Quais, CadastrarMarca(q)
    PROVE  InvProd'
<1> DEFINE p == Pedido("marca", fichas[q])
<1>1. /\ vooProd' = vooProd \cup {p} /\ fichas[q].n # 0
      /\ UNCHANGED <<fichas, aberturas, relendo>>
  BY DEF CadastrarMarca, MandarProd
<1>2. p.op = "marca" /\ p.arg = fichas[q]
  BY DEF Pedido
<1> HIDE DEF p
<1>3. Marcas' \subseteq Marcas \cup {fichas[q]}
  BY <1>1, <1>2 DEF Marcas
<1>4. fichas[q].n \in 1 .. aberturas
  BY <1>1 DEF InvProd
<1>5. \A r \in Quais : fichas[r].n = fichas[q].n => fichas[r].produto = fichas[q].produto
  BY <1>1 DEF InvProd
<1>6. \A v \in vooProd' : v.op \in {"novo", "salvar"} => Propria(v.arg)
  BY <1>1, <1>2 DEF InvProd
<1> QED  BY <1>1, <1>3, <1>4, <1>5, <1>6 DEF InvProd

\* The clicks.
LEMMA ProdClique == InvProd /\ CliqueProd => InvProd'
<1> SUFFICES ASSUME InvProd, CliqueProd PROVE InvProd'
  OBVIOUS
<1>0. DOMAIN fichas = Quais
  BY DEF InvProd
<1>1. CASE UNCHANGED <<fichas, aberturas, relendo, vooProd>>
  BY <1>1 DEF InvProd, Marcas
<1>2. ASSUME NEW q \in Quais, FecharFicha(q) PROVE InvProd'
  BY <1>2, FichaFechada, ProdFicha DEF FecharFicha, NaFicha, Marcas
<1>3. ASSUME NEW q \in Quais, Preencher(q) PROVE InvProd'
  <2> DEFINE f == fichas[q]
  <2>1. Campos(f) /\ Propria(f)
    BY DEF InvProd
  <2>2. UNCHANGED <<aberturas, relendo, vooProd>> /\ Marcas' \subseteq Marcas
    BY <1>3 DEF Preencher, NaFicha, Marcas
  <2>3. PICK g : /\ fichas' = [fichas EXCEPT ![q] = g]
                 /\ \/ g = [f EXCEPT !.texto = <<f.produto, f.n>>]
                    \/ g = [f EXCEPT !.marca = <<f.produto, f.n>>]
                    \/ g = [f EXCEPT !.ativo = ~@]
    <3>1. CASE fichas' = [fichas EXCEPT ![q].texto = <<f.produto, f.n>>]
      BY <3>1
    <3>2. CASE fichas' = [fichas EXCEPT ![q].marca = <<f.produto, f.n>>]
      BY <3>2
    <3>3. CASE fichas' = [fichas EXCEPT ![q].ativo = ~@]
      BY <3>3
    <3> QED  BY <1>3, <3>1, <3>2, <3>3 DEF Preencher, NaFicha
  <2>4. Campos(g) /\ Propria(g) /\ g.n = f.n /\ g.produto = f.produto
    BY <2>1, <2>3 DEF Campos, Propria, Proprios
  <2> QED  BY <2>2, <2>3, <2>4, ProdFicha
<1>4. ASSUME NEW q \in Quais, Salvar(q) PROVE InvProd'
  <2> DEFINE f == fichas[q]
             p == Pedido(OpDe(q), f)
             g == [f EXCEPT !.espera = envios + 1]
  <2>1. vooProd' = vooProd \cup {p} /\ UNCHANGED <<aberturas, relendo>>
    BY <1>4 DEF Salvar, MandarProd
  <2>2. p.op # "marca" /\ p.arg = f
    BY DEF Pedido, OpDe
  <2>3. Campos(f) /\ Propria(f)
    BY DEF InvProd
  <2>4. fichas' = [r \in Quais |-> IF r = q THEN g ELSE fichas[r]]
    BY <1>4 DEF Salvar, InvProd
  <2>5. Campos(g) /\ Propria(g) /\ g.n = f.n /\ g.produto = f.produto
    BY <2>3 DEF Campos, Propria, Proprios
  <2> HIDE DEF p, g
  <2>6. Marcas' \subseteq Marcas
    BY <2>1, <2>2 DEF Marcas
  <2>7. \A r \in Quais : fichas'[r] = IF r = q THEN g ELSE fichas[r]
    BY <2>4
  <2>8. \A r \in Quais : /\ Campos(fichas'[r]) /\ Propria(fichas'[r])
                         /\ fichas'[r].n = fichas[r].n /\ fichas'[r].produto = fichas[r].produto
    BY <2>5, <2>7 DEF InvProd
  <2>9. \A v \in vooProd' : v \in vooProd \/ Propria(v.arg)
    BY <2>1, <2>2, <2>3
  <2>10. fichas' = [r \in Quais |-> fichas'[r]]
    BY <2>4
  <2> QED  BY <2>1, <2>6, <2>8, <2>9, <2>10, ProdSegue
<1>5. ASSUME ImportarXlsx PROVE InvProd'
  <2> DEFINE p == Pedido("importar", Fechada)
  <2>1. vooProd' = vooProd \cup {p} /\ UNCHANGED <<fichas, aberturas, relendo>>
    BY <1>5 DEF ImportarXlsx, MandarProd
  <2>2. p.op = "importar"
    BY DEF Pedido
  <2> HIDE DEF p
  <2>3. Marcas' \subseteq Marcas
    BY <2>1, <2>2 DEF Marcas
  <2> QED  BY <2>1, <2>2, <2>3, ProdSegue DEF InvProd
<1>6. ASSUME Anterior \/ Proxima \/ Pesquisar PROVE UNCHANGED <<fichas, aberturas, relendo, vooProd>>
  BY <1>6 DEF Anterior, Proxima, Pesquisar, Paginar
<1>7. ASSUME AbrirNovo \/ \E p \in Mostrados : Editar(p) PROVE InvProd'
  BY <1>7, ProdAbre DEF AbrirNovo, Editar, Quais
<1> QED  BY <1>0, <1>1, <1>2, <1>3, <1>4, <1>5, <1>6, <1>7, ProdMarca DEF CliqueProd

\* The answers and the reads.
LEMMA ProdRede == InvProd /\ RedeProd => InvProd'
<1> SUFFICES ASSUME InvProd, RedeProd PROVE InvProd'
  OBVIOUS
<1>0. DOMAIN fichas = Quais /\ "novo" \in Quais /\ "editar" \in Quais
  BY DEF InvProd, Quais
<1>1. ASSUME vooProd' \subseteq vooProd, UNCHANGED <<fichas, aberturas, relendo>> PROVE InvProd'
  <2>1. Marcas' \subseteq Marcas
    BY <1>1 DEF Marcas
  <2> QED  BY <1>1, <2>1, ProdSegue DEF InvProd
<1>2. ASSUME NEW p \in vooProd, RespostaFicha(p) PROVE InvProd'
  <2>1. vooProd' \subseteq vooProd /\ UNCHANGED <<aberturas, relendo>>
    BY <1>2 DEF RespostaFicha, SoltarProd
  <2>2. Marcas' \subseteq Marcas
    BY <2>1 DEF Marcas
  <2>3. fichas' = fichas \/ \E q \in Quais : fichas' = [fichas EXCEPT ![q] = Fechada]
    BY <1>0, <1>2 DEF RespostaFicha
  <2> QED  BY <1>1, <2>1, <2>2, <2>3, FichaFechada, ProdFicha
<1>3. ASSUME NEW p \in vooProd, RespostaXlsx(p) PROVE InvProd'
  BY <1>1, <1>3 DEF RespostaXlsx, SoltarProd
<1>4. ASSUME NEW p \in vooProd, RespostaMarca(p) PROVE InvProd'
  <2>1. /\ vooProd' \subseteq vooProd /\ UNCHANGED <<fichas, aberturas>>
        /\ relendo' = relendo \cup {p.arg} /\ p.op = "marca"
    BY <1>4 DEF RespostaMarca, SoltarProd
  <2>2. Marcas' \subseteq Marcas
    BY <2>1 DEF Marcas
  <2> QED  BY <2>1, <2>2, ProdSegue DEF InvProd
<1>5. ASSUME NEW m \in relendo, MarcaEscolhida(m) PROVE InvProd'
  <2>1. relendo' \subseteq relendo /\ UNCHANGED <<aberturas, vooProd>>
    BY <1>5 DEF MarcaEscolhida
  <2>2. Marcas' \subseteq Marcas /\ m \in Marcas
    BY <2>1 DEF Marcas
  <2>3. fichas' = [q \in Quais |-> IF EscolherNaSua(m, q)
                                   THEN [fichas[q] EXCEPT !.marca = <<m.produto, m.n>>] ELSE fichas[q]]
    BY <1>0, <1>5 DEF MarcaEscolhida
  <2>4. ASSUME NEW q \in Quais
        PROVE  /\ Campos(fichas'[q]) /\ Propria(fichas'[q])
               /\ fichas'[q].n = fichas[q].n /\ fichas'[q].produto = fichas[q].produto
    <3>1. Campos(fichas[q]) /\ Propria(fichas[q])
      BY DEF InvProd
    <3>2. CASE EscolherNaSua(m, q)
      <4>1. fichas'[q] = [fichas[q] EXCEPT !.marca = <<m.produto, m.n>>]
        BY <2>3, <3>2
      <4>2. fichas[q].n = m.n /\ fichas[q].produto = m.produto
        BY <2>2, <3>2 DEF EscolherNaSua, InvProd
      <4> QED  BY <3>1, <4>1, <4>2 DEF Campos, Propria, Proprios
    <3>3. CASE ~EscolherNaSua(m, q)
      BY <2>3, <3>1, <3>3
    <3> QED  BY <3>2, <3>3
  <2>5. fichas' = [q \in Quais |-> fichas'[q]]
    BY <2>3
  <2> QED  BY <2>1, <2>2, <2>4, <2>5, ProdSegue
<1>6. ASSUME NEW p \in vooProd, RecusaProd(p) \/ PerdidaProd(p) \/ SemSessaoProd(p) PROVE InvProd'
  <2>1. FalhaProd(p)
    BY <1>6 DEF RecusaProd, PerdidaProd, SemSessaoProd
  <2>2. vooProd' \subseteq vooProd /\ UNCHANGED <<aberturas, relendo>>
    BY <2>1 DEF FalhaProd, SoltarProd
  <2>3. Marcas' \subseteq Marcas
    BY <2>2 DEF Marcas
  <2>4. fichas' = [q \in Quais |-> [fichas[q] EXCEPT !.espera = IF @ = p.n THEN 0 ELSE @]]
    BY <1>0, <2>1 DEF FalhaProd
  <2>5. \A q \in Quais : /\ Campos(fichas'[q]) /\ Propria(fichas'[q])
                         /\ fichas'[q].n = fichas[q].n /\ fichas'[q].produto = fichas[q].produto
    BY <2>4 DEF InvProd, Campos, Propria, Proprios
  <2>6. fichas' = [q \in Quais |-> fichas'[q]]
    BY <2>4
  <2> QED  BY <2>2, <2>3, <2>5, <2>6, ProdSegue
<1>7. ASSUME NEW k \in Paginas, LerProd(k) \/ ReceberProd(k) \/ DesistirProd(k) PROVE InvProd'
  BY <1>1, <1>7 DEF LerProd, ReceberProd, DesistirProd, NaConsulta
<1> QED  BY <1>2, <1>3, <1>4, <1>5, <1>6, <1>7 DEF RedeProd

\* Leaving the page, or coming to it, closes both forms; no other screen has one.
LEMMA ProdPasso == InvProd /\ [Next]_vars => InvProd'
<1> SUFFICES ASSUME InvProd, [Next]_vars PROVE InvProd'
  OBVIOUS
<1>1. CASE UNCHANGED prodVars
  BY <1>1 DEF prodVars, InvProd, Marcas
<1>2. CASE Trocar
  <2>1. /\ fichas' = [novo |-> Fechada, editar |-> Fechada]
        /\ UNCHANGED <<aberturas, vooProd, relendo>>
    BY <1>2 DEF Trocar, MontarProd
  <2>2. fichas' = [q \in Quais |-> fichas'[q]] /\ \A q \in Quais : fichas'[q] = Fechada
    BY <2>1 DEF Quais
  <2>3. Marcas' \subseteq Marcas
    BY <2>1 DEF Marcas
  <2> QED  BY <2>1, <2>2, <2>3, FichaFechada, ProdSegue
<1> QED  BY <1>1, <1>2, ProdClique, ProdRede DEF Next, vars, telasVars

\* Whatever forms are opened and closed while brands are registered: a form shows, and a
\* write sends, only what is of its own product.
THEOREM FichaPropria == Spec => []FichaDoProduto
<1>1. Init => InvProd
  <2> SUFFICES ASSUME Init PROVE InvProd
    OBVIOUS
  <2>1. /\ fichas = [novo |-> Fechada, editar |-> Fechada]
        /\ aberturas = 0 /\ vooProd = {} /\ relendo = {}
    BY DEF Init, InitProdutos
  <2>2. fichas = [q \in Quais |-> fichas[q]] /\ \A q \in Quais : fichas[q] = Fechada
    BY <2>1 DEF Quais
  <2>3. Marcas = {}
    BY <2>1 DEF Marcas
  <2> QED  BY <2>1, <2>2, <2>3, FichaFechada DEF InvProd
<1>2. InvProd => FichaDoProduto
  <2> SUFFICES ASSUME InvProd PROVE FichaDoProduto
    OBVIOUS
  <2>1. \A f \in {fichas[q] : q \in DOMAIN fichas} : Propria(f)
    BY DEF InvProd
  <2>2. \A f \in {p.arg : p \in {v \in vooProd : v.op \in {"novo", "salvar"}}} : Propria(f)
    BY DEF InvProd
  <2> QED  BY <2>1, <2>2 DEF FichaDoProduto, Propria, Proprios
<1> QED  BY <1>1, <1>2, ProdPasso, PTL DEF Spec

-----------------------------------------------------------------------------
(***************************************************************************)
(* Types.  What the type invariant rests on beyond itself: the login has a *)
(* session left to open, the numbers of the writes of the list of products *)
(* are all different, and what a form or a write of it refers to exists.   *)
(***************************************************************************)

\* Entries with values of V, whose requests have tokens up to N.
Entradas(V, N) == [dado : V \cup {SemDado}, invalida : BOOLEAN,
                   busca : [cred : 0 .. N, lido : V \cup {SemDado}, viva : BOOLEAN]]

TipoSessao ==
    /\ TypeSessao
    /\ roteiro \in Roteiros
    /\ entrando => logins < roteiro.logins

\* The page of an order: what its entries are read for, and its form.
ValoresOS(k) == IF k = "os" THEN Status ELSE SUBSET (1 .. envios)

FormasOS(N) == [tipo : {"PECA", "SERVICO"}, item : {"vazio", "pronto"}, dialogo : BOOLEAN,
                caixa : SUBSET (1 .. N), aba : {"realizados", "lancar"}, suas : SUBSET (1 .. N)]

TipoTelaOS ==
    /\ ordem \in [status : Status, itens : SUBSET (1 .. envios), apts : SUBSET (1 .. envios)]
    /\ consultasOS = [k \in ChavesOS |-> consultasOS[k]]
    /\ \A k \in ChavesOS : consultasOS[k] \in Entradas(ValoresOS(k), logins)
    /\ formOS \in FormasOS(envios)
    /\ formOS.caixa \subseteq formOS.suas /\ formOS.suas \subseteq {p.n : p \in vooOS}
    /\ \A p \in vooOS : p.n \in 1 .. envios /\ (p.n \in formOS.caixa => p.op = "fechar")
    /\ vistos \subseteq 1 .. envios

\* The review: a loop is known by the number of its first write, which no other write has.
FormasRev(N) == [passo : {"fornecedor", "produtos", "erro"}, laco : 0 .. N, suas : SUBSET (1 .. N)]

\* The loop l has a write in flight, among the writes P.
EmVoo(l, P) == \E p \in P : p.op = "criar" /\ p.arg.laco = l

TipoRev ==
    /\ rasc \in Rascunho
    /\ consultaRev \in Entradas(Rascunho, logins)
    /\ formRev \in FormasRev(envios)
    /\ formRev.laco # 0 => formRev.laco \in formRev.suas /\ EmVoo(formRev.laco, vooRev)
    /\ \A p \in vooRev : p.n \in 1 .. envios /\ (p.op # "criar" => p.n # formRev.laco)

\* The forms of the review.
Registros == {"inteiro", "apagado"}

Paineis(N) == [linha : Fichas, suas : SUBSET (1 .. N)]

FichasFic(N) == [campos : {"vazio"} \cup Registros, espera : 0 .. N]

ConsultasFicCertas ==
    /\ consultasFic = [f \in Fichas |-> consultasFic[f]]
    /\ \A f \in Fichas : consultasFic[f] \in Entradas(Registros, logins)

TipoFic ==
    /\ fornecedor \in Registros
    /\ painel \in Paineis(envios) /\ painel.suas \subseteq {p.n : p \in vooFic}
    /\ painel # PainelFechado => NoPassoProdutos
    /\ ficha \in FichasFic(envios)
    /\ ficha # FichaVazia => Montada # {}
    /\ ConsultasFicCertas
    /\ \A p \in vooFic : p.n \in 1 .. envios /\ p.arg.ficha \in Fichas

\* The list of products: what a page of N products may hold, the page when E writes were
\* sent, and a form when A were opened.
PaginasDe(N) == [itens : SUBSET (1 .. N), paginas : 1 .. 1 + N]

TelasDe(N, E) == [page : Paginas, antes : PaginasDe(N) \cup {SemDado}, suas : SUBSET (1 .. E), xlsx : 0 .. E]

Campo(N, A) == (0 .. N) \X (0 .. A)

FormasDe(N, A) == [n : 0 .. A, produto : 0 .. N, espera : Nat, texto : Campo(N, A), marca : Campo(N, A),
                   ativo : BOOLEAN]

\* A write of the edition is about a product, a brand is of a form.
ArgumentoCerto(op, f, N, A) ==
    /\ op = "salvar" => f.produto \in 1 .. N
    /\ op = "marca" => f.produto \in 0 .. N /\ f.n \in 0 .. A

Existentes == Iniciais + envios

ConsultasProdCertas ==
    /\ consultasProd = [k \in Paginas |-> consultasProd[k]]
    /\ \A k \in Paginas : consultasProd[k] \in Entradas(PaginasDe(Existentes), logins)

\* The forms: a form is open on its screen only, and the one that edits has a product.
FichasCertas ==
    /\ fichas \in [Quais -> FormasDe(Existentes, aberturas)]
    /\ \A q \in Quais : fichas[q].n # 0 => tela = "estoque"
    /\ fichas["editar"].n # 0 => fichas["editar"].produto # 0

\* The writes in flight are known by their numbers.
VooCerto ==
    /\ \A p \in vooProd : p.n \in 1 .. envios /\ ArgumentoCerto(p.op, p.arg, Existentes, aberturas)
    /\ \A p, r \in vooProd : p.n = r.n => p = r
    /\ \A m \in relendo : ArgumentoCerto("marca", m, Existentes, aberturas)

\* The write form q waits for was sent by it, from the page on the screen.
Esperada(q) ==
    /\ fichas[q].espera \in telaProd.suas
    /\ \E p \in vooProd : p.n = fichas[q].espera /\ p.op = OpDe(q)

Esperas == \A q \in Quais : fichas[q].espera # 0 => Esperada(q)

TipoProd ==
    /\ ativos \subseteq 1 .. Existentes /\ aberturas \in Nat
    /\ telaProd \in TelasDe(Existentes, envios)
    /\ ConsultasProdCertas
    /\ FichasCertas
    /\ VooCerto
    /\ Esperas

InvTipos == TipoSessao /\ TipoTelaOS /\ TipoRev /\ TipoFic /\ TipoProd

\* The operations of the library keep the type of an entry, and so do more values.
LEMMA EntradaTipada ==
    ASSUME NEW V, NEW N \in Nat, NEW c \in Entradas(V, N)
    PROVE  /\ \A W, M : V \subseteq W /\ M \in Nat /\ N <= M => c \in Entradas(W, M)
           /\ \A cred \in 0 .. N : Refazer(c, cred) \in Entradas(V, N)
           /\ \A cred \in 0 .. N : \A velha : Montar(c, cred, velha) \in Entradas(V, N)
           /\ \A cred \in 0 .. N : \A ativa : Invalidar(c, ativa, cred) \in Entradas(V, N)
           /\ Receber(c) \in Entradas(V, N)
           /\ Desistir(c) \in Entradas(V, N)
           /\ \A v \in V : Ler(c, v) \in Entradas(V, N)
<1>1. 0 \in 0 .. N
  OBVIOUS
<1>2. ASSUME NEW W, NEW M, V \subseteq W, M \in Nat, N <= M PROVE c \in Entradas(W, M)
  <2>1. 0 .. N \subseteq 0 .. M
    BY <1>2
  <2> QED  BY <1>2, <2>1 DEF Entradas
<1>3. ASSUME NEW cred \in 0 .. N PROVE Refazer(c, cred) \in Entradas(V, N)
  BY DEF Refazer, Busca, Entradas
<1>4. ASSUME NEW cred \in 0 .. N, NEW velha PROVE Montar(c, cred, velha) \in Entradas(V, N)
  BY <1>3 DEF Montar
<1>5. ASSUME NEW cred \in 0 .. N, NEW ativa PROVE Invalidar(c, ativa, cred) \in Entradas(V, N)
  BY DEF Invalidar, Refazer, Busca, Entradas
<1>6. Receber(c) \in Entradas(V, N)
  BY <1>1 DEF Receber, SemBusca, Entradas
<1>7. Desistir(c) \in Entradas(V, N)
  BY <1>1 DEF Desistir, SemBusca, Entradas
<1>8. ASSUME NEW v \in V PROVE Ler(c, v) \in Entradas(V, N)
  BY DEF Ler, Entradas
<1> QED  BY <1>2, <1>3, <1>4, <1>5, <1>6, <1>7, <1>8

\* An entry nobody asked for yet has the type.
LEMMA VaziaTipada ==
    ASSUME NEW V, NEW N \in Nat
    PROVE  Vazia \in Entradas(V, N)
<1>1. 0 \in 0 .. N
  OBVIOUS
<1> QED  BY <1>1 DEF Vazia, SemBusca, Entradas

\* What the screens need to know of a step: numbers only grow, and the token is that of
\* a session that was opened.
Avancam ==
    /\ logins \in Nat /\ logins' \in Nat /\ logins <= logins'
    /\ envios \in Nat /\ envios' \in Nat /\ envios <= envios'
    /\ token \in 0 .. logins /\ token' \in 0 .. logins'
    /\ roteiro' = roteiro

\* What is to be shown of the session after a step.
LEMMA SessaoNova ==
    ASSUME roteiro' \in Roteiros, tela' \in Rotas, destino' \in Rotas,
           logins' \in 0 .. roteiro'.logins, token' \in 0 .. logins', vencidas' \subseteq 1 .. logins',
           entrando' \in BOOLEAN, entrando' => logins' < roteiro'.logins,
           resumo' \in [viva : BOOLEAN, cred : 0 .. logins'], envios' \in 0 .. roteiro'.envios
    PROVE  TipoSessao'
BY DEF TipoSessao, TypeSessao, Creds

\* The session's own steps, the router's, and what an answer does to the session.
LEMMA SessaoTipada ==
    ASSUME TipoSessao, [Next]_vars
    PROVE  TipoSessao' /\ Avancam /\ EnviosSeguem
<1>1. /\ roteiro \in Roteiros
      /\ roteiro.telas \subseteq Rotas /\ roteiro.logins \in Nat /\ roteiro.envios \in Nat
      /\ logins \in 0 .. roteiro.logins /\ envios \in 0 .. roteiro.envios
      /\ token \in 0 .. logins /\ tela \in Rotas /\ destino \in Rotas
      /\ vencidas \subseteq 1 .. logins /\ entrando \in BOOLEAN
      /\ entrando => logins < roteiro.logins
      /\ resumo \in [viva : BOOLEAN, cred : 0 .. logins]
  BY RoteirosAssumption DEF TipoSessao, TypeSessao, Creds, Rotas
<1>2. EnviosSeguem /\ roteiro' = roteiro
  BY <1>1, EnviosPasso DEF InvEnvios
<1>3. envios \in Nat /\ envios' \in Nat /\ envios <= envios' /\ envios' \in 0 .. roteiro'.envios
  BY <1>1, <1>2 DEF EnviosSeguem
<1>4. logins \in Nat /\ 0 \in 0 .. logins /\ token \in 0 .. logins
  BY <1>1
<1> DEFINE Resumos == [viva : BOOLEAN, cred : 0 .. logins]
<1>r. resumo \in Resumos /\ [viva |-> TRUE, cred |-> token] \in Resumos /\ [viva |-> FALSE, cred |-> 0] \in Resumos
  BY <1>1, <1>4
<1>5. ASSUME tela' \in Rotas, destino' \in Rotas, logins' = logins, token' \in {token, 0},
             vencidas' = vencidas \/ (vencidas' = vencidas \cup {token} /\ token # 0),
             entrando' \in {entrando, FALSE}, resumo' \in Resumos
      PROVE  TipoSessao' /\ Avancam
  <2>1. token' \in 0 .. logins' /\ logins' \in 0 .. roteiro'.logins
    BY <1>1, <1>2, <1>4, <1>5
  <2>2. vencidas' \subseteq 1 .. logins'
    <3>1. token # 0 => token \in 1 .. logins
      BY <1>1
    <3> QED  BY <1>1, <1>5, <3>1
  <2>3. resumo' \in [viva : BOOLEAN, cred : 0 .. logins']
    BY <1>5
  <2>4. entrando' \in BOOLEAN /\ (entrando' => logins' < roteiro'.logins)
    <3>1. entrando' \in BOOLEAN /\ (entrando' => entrando)
      <4>1. entrando \in BOOLEAN
        BY <1>1
      <4>2. CASE entrando' = entrando
        BY <4>1, <4>2, Zenon
      <4>3. CASE entrando' = FALSE
        BY <4>3, Zenon
      <4> QED  BY <1>5, <4>2, <4>3
    <3>2. logins < roteiro.logins => logins' < roteiro'.logins
      BY <1>2, <1>5
    <3> QED  BY <1>1, <3>1, <3>2, Zenon
  <2>5. Avancam
    <3>1. logins' = logins /\ logins <= logins'
      BY <1>4, <1>5
    <3> QED  BY <1>2, <1>3, <1>4, <2>1, <3>1 DEF Avancam
  <2>6. TipoSessao'
    BY <1>1, <1>2, <1>3, <1>5, <2>1, <2>2, <2>3, <2>4, SessaoNova
  <2> QED  BY <2>5, <2>6
<1> HIDE DEF Resumos
<1>6. CASE UNCHANGED <<tela, logins, vencidas, entrando, resumo>> /\ (NaoAutorizado \/ Segue)
  <2>1. token' \in {token, 0} /\ destino' \in Rotas
    BY <1>1, <1>6 DEF NaoAutorizado, Segue, Rotas
  <2>2. tela' \in Rotas /\ logins' = logins /\ vencidas' = vencidas /\ entrando' = entrando /\ resumo' = resumo
    BY <1>1, <1>6
  <2> QED  BY <1>2, <1>5, <1>r, <2>1, <2>2
<1>7. CASE NextSessao
  <2>1. CASE Entrar
    <3>1. /\ tela' = tela /\ destino' = destino /\ token' = token /\ logins' = logins
          /\ vencidas' = vencidas /\ resumo' = resumo
          /\ logins < roteiro.logins /\ entrando' = TRUE
      BY <2>1 DEF Entrar
    <3>2. TipoSessao'
      BY <1>1, <1>2, <1>3, <3>1, SessaoNova
    <3>3. logins <= logins'
      BY <1>4, <3>1
    <3> QED  BY <1>2, <1>3, <1>4, <3>1, <3>2, <3>3 DEF Avancam
  <2>2. CASE Entrou
    <3>1. /\ logins' = logins + 1 /\ token' = logins + 1
          /\ destino' = "inicio" /\ entrando' = FALSE /\ logins < roteiro.logins
          /\ tela' = tela /\ vencidas' = vencidas /\ resumo' = resumo
      BY <1>1, <2>2 DEF Entrou
    <3>2. /\ logins' \in 0 .. roteiro'.logins /\ token' \in 0 .. logins'
          /\ logins' \in Nat /\ logins <= logins'
      BY <1>1, <1>2, <1>4, <3>1
    <3>3. vencidas' \subseteq 1 .. logins'
      BY <1>1, <1>4, <3>1
    <3>4. resumo' \in [viva : BOOLEAN, cred : 0 .. logins']
      <4>1. 0 .. logins \subseteq 0 .. logins'
        BY <1>4, <3>1
      <4> QED  BY <1>1, <3>1, <4>1
    <3>5. TipoSessao'
      <4>1. tela' \in Rotas /\ destino' \in Rotas
        BY <1>1, <3>1 DEF Rotas
      <4> QED  BY <1>1, <1>2, <1>3, <3>1, <3>2, <3>3, <3>4, <4>1, SessaoNova
    <3>6. Avancam
      BY <1>2, <1>3, <1>4, <3>2 DEF Avancam
    <3> QED  BY <1>2, <3>5, <3>6
  <2>3. CASE NaoEntrou \/ Sair \/ Vencer \/ \E t \in roteiro.telas : Clicar(t)
    <3>1. /\ tela' = tela /\ logins' = logins /\ resumo' = resumo
          /\ token' \in {token, 0} /\ entrando' \in {entrando, FALSE}
      BY <2>3 DEF NaoEntrou, Sair, Vencer, Clicar
    <3>2. destino' \in Rotas
      BY <1>1, <2>3 DEF NaoEntrou, Sair, Vencer, Clicar, Rotas
    <3>3. vencidas' = vencidas \/ (vencidas' = vencidas \cup {token} /\ token # 0)
      BY <2>3 DEF NaoEntrou, Sair, Vencer, Clicar
    <3> QED  BY <1>1, <1>2, <1>5, <1>r, <3>1, <3>2, <3>3
  <2>4. CASE Intervalo \/ RespostaResumo \/ FalhaResumo
    <3>1. resumo' \in {[viva |-> FALSE, cred |-> 0], [viva |-> TRUE, cred |-> token]}
      BY <2>4 DEF Intervalo, RespostaResumo, FalhaResumo, SemPedido
    <3>2. resumo' \in Resumos
      BY <1>r, <3>1
    <3>3. /\ tela' = tela /\ logins' = logins /\ vencidas' = vencidas /\ entrando' = entrando
          /\ NaoAutorizado \/ (token' = token /\ destino' = destino)
      BY <2>4 DEF Intervalo, RespostaResumo, FalhaResumo
    <3>4. token' \in {token, 0} /\ destino' \in Rotas
      BY <1>1, <3>3 DEF NaoAutorizado, Rotas
    <3> QED  BY <1>1, <1>2, <1>5, <3>2, <3>3, <3>4
  <2> QED  BY <1>7, <2>1, <2>2, <2>3, <2>4 DEF NextSessao
<1>8. CASE Transicao
  <2>1. /\ tela' = Rota(destino) /\ destino' = Rota(destino)
        /\ resumo' \in {resumo, [viva |-> TRUE, cred |-> token]}
        /\ token' = token /\ logins' = logins /\ vencidas' = vencidas /\ entrando' = entrando
    BY <1>8 DEF Transicao
  <2>2. Rota(destino) \in Rotas
    BY <1>1 DEF Rota, Rotas
  <2> QED  BY <1>2, <1>5, <1>r, <2>1, <2>2
<1>9. CASE UNCHANGED vars
  BY <1>6, <1>9 DEF vars, sessaoVars, Segue
<1>10. (CliqueOS \/ CliqueRev \/ CliqueFic \/ CliqueProd \/ RedeOS \/ RedeRev \/ RedeFic \/ RedeProd)
           /\ Next /\ ~(NextSessao /\ UNCHANGED telasVars) /\ ~Trocar
       => UNCHANGED <<tela, logins, vencidas, entrando, resumo>> /\ (NaoAutorizado \/ Segue)
  BY RedeNaSessao, CliqueNaSessao DEF Next, Resto
<1> QED  BY <1>2, <1>6, <1>7, <1>8, <1>9, <1>10 DEF Next, Trocar

-----------------------------------------------------------------------------
\* The values of an entry only become more, and so do the tokens of its requests.
LEMMA EntradaOSCresce ==
    ASSUME Avancam, NEW k, NEW c \in Entradas(ValoresOS(k), logins)
    PROVE  c \in Entradas(ValoresOS(k)', logins')
<1>1. ValoresOS(k) \subseteq ValoresOS(k)'
  BY DEF ValoresOS, Avancam, Status, EDITAVEIS
<1> DEFINE V == ValoresOS(k)
           W == ValoresOS(k)'
<1>2. c \in Entradas(V, logins) /\ V \subseteq W
  BY <1>1
<1> HIDE DEF V, W
<1>3. c \in Entradas(W, logins')
  BY <1>2, EntradaTipada DEF Avancam
<1> QED  BY <1>3 DEF W

\* The entries after a step.
ConsultasOSCertas ==
    /\ consultasOS = [k \in ChavesOS |-> consultasOS[k]]
    /\ \A k \in ChavesOS : consultasOS[k] \in Entradas(ValoresOS(k), logins)

LEMMA ConsultasOSSeguem ==
    ASSUME TipoTelaOS, Avancam
    PROVE  /\ UNCHANGED consultasOS => ConsultasOSCertas'
           /\ \A k \in ChavesOS : \A c \in Entradas(ValoresOS(k), logins) :
                  consultasOS' = [consultasOS EXCEPT ![k] = c] => ConsultasOSCertas'
           /\ \A K : consultasOS' = InvalidarOS(K) => ConsultasOSCertas'
           /\ \A velha : consultasOS' = [k \in ChavesOS |-> Montar(consultasOS[k], token, velha)]
                             => ConsultasOSCertas'
<1>1. /\ consultasOS = [k \in ChavesOS |-> consultasOS[k]]
      /\ \A k \in ChavesOS : consultasOS[k] \in Entradas(ValoresOS(k), logins)
      /\ logins \in Nat /\ token \in 0 .. logins
  BY DEF TipoTelaOS, Avancam
<1>2. ASSUME NEW f, \A k \in ChavesOS : f[k] \in Entradas(ValoresOS(k), logins),
             consultasOS' = [k \in ChavesOS |-> f[k]]
      PROVE  ConsultasOSCertas'
  <2>1. \A k \in ChavesOS : f[k] \in Entradas(ValoresOS(k)', logins')
    BY <1>2, EntradaOSCresce
  <2>2. \A k \in ChavesOS : consultasOS'[k] = f[k]
    BY <1>2
  <2>3. consultasOS' = [k \in ChavesOS |-> consultasOS'[k]]
    BY <1>2
  <2> QED  BY <2>1, <2>2, <2>3 DEF ConsultasOSCertas
<1>3. UNCHANGED consultasOS => ConsultasOSCertas'
  BY <1>1, <1>2
<1>4. ASSUME NEW k \in ChavesOS, NEW c \in Entradas(ValoresOS(k), logins),
             consultasOS' = [consultasOS EXCEPT ![k] = c]
      PROVE  ConsultasOSCertas'
  <2> DEFINE f == [j \in ChavesOS |-> IF j = k THEN c ELSE consultasOS[j]]
  <2>1. consultasOS' = f
    BY <1>1, <1>4
  <2>2. \A j \in ChavesOS : f[j] \in Entradas(ValoresOS(j), logins)
    BY <1>1, <1>4
  <2>3. f = [j \in ChavesOS |-> f[j]]
    OBVIOUS
  <2> HIDE DEF f
  <2> QED  BY <1>2, <2>1, <2>2, <2>3
<1>5. ASSUME NEW K, consultasOS' = InvalidarOS(K) PROVE ConsultasOSCertas'
  <2> DEFINE f == InvalidarOS(K)
  <2>1. ASSUME NEW j \in ChavesOS PROVE f[j] \in Entradas(ValoresOS(j), logins)
    <3>1. Invalidar(consultasOS[j], tela = "os", token) \in Entradas(ValoresOS(j), logins)
      BY <1>1, EntradaTipada
    <3> QED  BY <1>1, <3>1 DEF InvalidarOS
  <2>2. f = [j \in ChavesOS |-> f[j]]
    BY DEF InvalidarOS
  <2> HIDE DEF f
  <2> QED  BY <1>2, <1>5, <2>1, <2>2 DEF f
<1>6. ASSUME NEW velha, consultasOS' = [k \in ChavesOS |-> Montar(consultasOS[k], token, velha)]
      PROVE  ConsultasOSCertas'
  <2> DEFINE f == [k \in ChavesOS |-> Montar(consultasOS[k], token, velha)]
  <2>1. ASSUME NEW j \in ChavesOS PROVE f[j] \in Entradas(ValoresOS(j), logins)
    BY <1>1, EntradaTipada
  <2>2. f = [j \in ChavesOS |-> f[j]] /\ consultasOS' = f
    BY <1>6
  <2> HIDE DEF f
  <2> QED  BY <1>2, <2>1, <2>2
<1> QED  BY <1>3, <1>4, <1>5, <1>6

\* What is to be shown of the page after a step.
LEMMA TelaOSNova ==
    ASSUME ConsultasOSCertas',
           ordem' \in [status : Status, itens : SUBSET (1 .. envios'), apts : SUBSET (1 .. envios')],
           formOS' \in FormasOS(envios'), formOS'.caixa \subseteq formOS'.suas,
           formOS'.suas \subseteq {p.n : p \in vooOS'},
           \A p \in vooOS' : p.n \in 1 .. envios' /\ (p.n \in formOS'.caixa => p.op = "fechar"),
           vistos' \subseteq 1 .. envios'
    PROVE  TipoTelaOS'
BY DEF TipoTelaOS, ConsultasOSCertas

\* The types of the page do not shrink.
LEMMA TelaOSCresce ==
    ASSUME TipoTelaOS, Avancam
    PROVE  /\ 1 .. envios \subseteq 1 .. envios' /\ envios + 1 \notin 1 .. envios
           /\ ordem \in [status : Status, itens : SUBSET (1 .. envios'), apts : SUBSET (1 .. envios')]
           /\ \A f \in FormasOS(envios) : f \in FormasOS(envios')
           /\ \A p \in vooOS : p.n \in 1 .. envios'
           /\ vistos \subseteq 1 .. envios'
<1>1. 1 .. envios \subseteq 1 .. envios' /\ envios + 1 \notin 1 .. envios
  BY DEF Avancam
<1>2. ordem \in [status : Status, itens : SUBSET (1 .. envios'), apts : SUBSET (1 .. envios')]
  BY <1>1 DEF TipoTelaOS
<1>3. \A f \in FormasOS(envios) : f \in FormasOS(envios')
  BY <1>1 DEF FormasOS
<1> QED  BY <1>1, <1>2, <1>3 DEF TipoTelaOS

\* Nothing happens on the page.
LEMMA TelaOSParada ==
    ASSUME TipoTelaOS, Avancam, UNCHANGED osVars
    PROVE  TipoTelaOS'
<1>1. UNCHANGED consultasOS /\ UNCHANGED <<ordem, formOS, vooOS, vistos>>
  BY DEF osVars
<1>2. ConsultasOSCertas'
  BY <1>1, ConsultasOSSeguem
<1> QED  BY <1>1, <1>2, TelaOSCresce, TelaOSNova DEF TipoTelaOS

\* Its clicks.
LEMMA TelaOSClique ==
    ASSUME TipoTelaOS, Avancam, CliqueOS
    PROVE  TipoTelaOS'
<1>1. UNCHANGED <<ordem, vistos>> /\ UNCHANGED consultasOS
  BY DEF CliqueOS, EscolherTipo, EscolherProduto, DescreverServico, TrocarProduto, Adicionar, RemoverItem,
         MudarStatus, CancelarOS, AbrirDialogo, FecharDialogo, ConfirmarFechamento, TrocarAba, Lancar,
         RemoverApt, Mandar
<1>2. ConsultasOSCertas'
  BY <1>1, ConsultasOSSeguem
<1>3. formOS \in FormasOS(envios)
  BY DEF TipoTelaOS
<1>4. ASSUME vooOS' = vooOS, formOS' \in FormasOS(envios), formOS'.suas = formOS.suas,
             formOS'.caixa \subseteq formOS.caixa
      PROVE  TipoTelaOS'
  BY <1>1, <1>2, <1>4, TelaOSCresce, TelaOSNova DEF TipoTelaOS
<1>5. ASSUME NEW op, NEW arg, Mandar(op, arg) PROVE TipoTelaOS'
  <2> DEFINE n == envios + 1
             p == Pedido(op, arg)
  <2>1. /\ vooOS' = vooOS \cup {p} /\ envios' = n
        /\ formOS' = [formOS EXCEPT !.suas = @ \cup {n}, !.caixa = IF op = "fechar" THEN @ \cup {n} ELSE @]
    BY <1>5 DEF Mandar, Contar
  <2>2. p.n = n /\ p.op = op
    BY DEF Pedido
  <2>3. /\ formOS'.suas = formOS.suas \cup {n}
        /\ formOS'.caixa = IF op = "fechar" THEN formOS.caixa \cup {n} ELSE formOS.caixa
    BY <1>3, <2>1 DEF FormasOS
  <2>4. n \in 1 .. envios'
    BY <2>1 DEF Avancam
  <2>5. formOS' \in FormasOS(envios')
    <3>1. formOS \in FormasOS(envios')
      BY <1>3, TelaOSCresce
    <3> HIDE DEF n
    <3> QED  BY <2>1, <2>4, <3>1 DEF FormasOS
  <2>6. n \notin formOS.caixa
    BY <1>3, TelaOSCresce DEF FormasOS
  <2>7. formOS'.caixa \subseteq formOS'.suas
    <3> HIDE DEF n
    <3> QED  BY <2>3 DEF TipoTelaOS
  <2>8. formOS'.suas \subseteq {q.n : q \in vooOS'}
    <3> HIDE DEF n, p
    <3> QED  BY <2>1, <2>2, <2>3 DEF TipoTelaOS
  <2>9. ASSUME NEW q \in vooOS' PROVE q.n \in 1 .. envios' /\ (q.n \in formOS'.caixa => q.op = "fechar")
    <3>1. CASE q = p
      <4> HIDE DEF n, p
      <4> QED  BY <2>2, <2>3, <2>4, <2>6, <3>1
    <3>2. CASE q \in vooOS
      <4>1. q.n \in 1 .. envios /\ q.n # n /\ q.n \in 1 .. envios'
        BY <3>2, TelaOSCresce DEF TipoTelaOS
      <4> HIDE DEF n, p
      <4> QED  BY <2>3, <3>2, <4>1 DEF TipoTelaOS
    <3> QED  BY <2>1, <3>1, <3>2
  <2> HIDE DEF n, p
  <2> QED  BY <1>1, <1>2, <2>5, <2>7, <2>8, <2>9, TelaOSCresce, TelaOSNova
<1>6. ASSUME NEW x \in {"PECA", "SERVICO"}, formOS' = [formOS EXCEPT !.tipo = x, !.item = "vazio"]
      PROVE  formOS' \in FormasOS(envios) /\ formOS'.suas = formOS.suas /\ formOS'.caixa \subseteq formOS.caixa
  BY <1>3, <1>6 DEF FormasOS
<1>7. ASSUME \/ formOS' = [formOS EXCEPT !.item = "pronto"] \/ formOS' = [formOS EXCEPT !.item = "vazio"]
             \/ formOS' = [formOS EXCEPT !.dialogo = TRUE]
             \/ formOS' = [formOS EXCEPT !.dialogo = FALSE, !.caixa = {}]
             \/ formOS' = [formOS EXCEPT !.aba = "realizados"] \/ formOS' = [formOS EXCEPT !.aba = "lancar"]
      PROVE  formOS' \in FormasOS(envios) /\ formOS'.suas = formOS.suas /\ formOS'.caixa \subseteq formOS.caixa
  <2>1. CASE formOS' = [formOS EXCEPT !.item = "pronto"] \/ formOS' = [formOS EXCEPT !.item = "vazio"]
    BY <1>3, <2>1 DEF FormasOS
  <2>2. CASE formOS' = [formOS EXCEPT !.dialogo = TRUE]
    BY <1>3, <2>2 DEF FormasOS
  <2>3. CASE formOS' = [formOS EXCEPT !.dialogo = FALSE, !.caixa = {}]
    BY <1>3, <2>3 DEF FormasOS
  <2>4. CASE formOS' = [formOS EXCEPT !.aba = "realizados"] \/ formOS' = [formOS EXCEPT !.aba = "lancar"]
    BY <1>3, <2>4 DEF FormasOS
  <2> QED  BY <1>7, <2>1, <2>2, <2>3, <2>4
<1>8. CASE \E t \in {"PECA", "SERVICO"} : EscolherTipo(t)
  <2>1. PICK x \in {"PECA", "SERVICO"} : EscolherTipo(x)
    BY <1>8
  <2>2. vooOS' = vooOS /\ formOS' = [formOS EXCEPT !.tipo = x, !.item = "vazio"]
    BY <2>1 DEF EscolherTipo
  <2>3. formOS' \in FormasOS(envios) /\ formOS'.suas = formOS.suas /\ formOS'.caixa \subseteq formOS.caixa
    BY <2>2, <1>6
  <2> QED  BY <1>4, <2>2, <2>3
<1>9. CASE \/ EscolherProduto \/ DescreverServico \/ TrocarProduto \/ AbrirDialogo \/ FecharDialogo
           \/ \E a \in {"realizados", "lancar"} : TrocarAba(a)
  <2>1. vooOS' = vooOS
    BY <1>9 DEF EscolherProduto, DescreverServico, TrocarProduto, AbrirDialogo, FecharDialogo, TrocarAba
  <2> QED  BY <1>4, <1>7, <1>9, <2>1
             DEF EscolherProduto, DescreverServico, TrocarProduto, AbrirDialogo, FecharDialogo, TrocarAba
<1> QED
  BY <1>5, <1>8, <1>9
  DEF CliqueOS, Adicionar, RemoverItem, MudarStatus, CancelarOS, ConfirmarFechamento, Lancar, RemoverApt

\* What the server does with a write it takes.
LEMMA OrdemTipada ==
    ASSUME TipoTelaOS, NEW p \in vooOS, Aceita(p)
    PROVE  Efeito(p) \in [status : Status, itens : SUBSET (1 .. envios), apts : SUBSET (1 .. envios)]
<1>1. /\ ordem \in [status : Status, itens : SUBSET (1 .. envios), apts : SUBSET (1 .. envios)]
      /\ p.n \in 1 .. envios
  BY DEF TipoTelaOS
<1> DEFINE I == 1 .. envios
<1>2. ordem \in [status : Status, itens : SUBSET I, apts : SUBSET I] /\ p.n \in I
  BY <1>1
<1> HIDE DEF I
<1>3. Efeito(p) \in [status : Status, itens : SUBSET I, apts : SUBSET I]
  <2>1. CASE p.op = "status"
    <3>1. p.arg \in Status
      BY <2>1 DEF Aceita, TRANSICOES, Status, EDITAVEIS
    <3> QED  BY <1>2, <2>1, <3>1 DEF Efeito
  <2>2. CASE p.op = "fechar" \/ p.op = "cancelar"
    BY <1>2, <2>2 DEF Efeito, Status
  <2>3. CASE p.op = "item" \/ p.op = "apt" \/ p.op = "removerApt"
    BY <1>2, <2>3 DEF Efeito
  <2>4. CASE p.op \notin {"status", "fechar", "cancelar", "item", "apt", "removerApt"}
    BY <1>2, <2>4 DEF Efeito
  <2> QED  BY <2>1, <2>2, <2>3, <2>4
<1> QED  BY <1>3 DEF I

\* The form lets go of an answered write, and may lose more.
LEMMA FormOSSolta ==
    ASSUME TipoTelaOS, NEW p \in vooOS, vooOS' = vooOS \ {p}, UNCHANGED envios,
           formOS' = Soltar(p) \/ formOS' = FormApos(p)
    PROVE  /\ formOS' \in FormasOS(envios') /\ formOS'.caixa \subseteq formOS'.suas
           /\ formOS'.suas \subseteq {q.n : q \in vooOS'}
           /\ \A q \in vooOS' : q.n \in 1 .. envios' /\ (q.n \in formOS'.caixa => q.op = "fechar")
<1>1. formOS \in FormasOS(envios)
  BY DEF TipoTelaOS
<1> DEFINE f == Soltar(p)
<1>2. /\ f \in FormasOS(envios)
      /\ f.suas = formOS.suas \ {p.n} /\ f.caixa = formOS.caixa \ {p.n}
  BY <1>1 DEF Soltar, FormasOS
<1>3. \/ formOS' = f \/ formOS' = [f EXCEPT !.item = "vazio"]
      \/ formOS' = [f EXCEPT !.dialogo = FALSE, !.caixa = {}] \/ formOS' = [f EXCEPT !.aba = "realizados"]
  BY DEF FormApos
<1> HIDE DEF f
<1>4. /\ formOS' \in FormasOS(envios)
      /\ formOS'.suas = f.suas /\ formOS'.caixa \subseteq f.caixa
  <2>1. CASE formOS' = f
    BY <1>2, <2>1
  <2>2. CASE formOS' = [f EXCEPT !.item = "vazio"]
    BY <1>2, <2>2 DEF FormasOS
  <2>3. CASE formOS' = [f EXCEPT !.dialogo = FALSE, !.caixa = {}]
    BY <1>2, <2>3 DEF FormasOS
  <2>4. CASE formOS' = [f EXCEPT !.aba = "realizados"]
    BY <1>2, <2>4 DEF FormasOS
  <2> QED  BY <1>3, <2>1, <2>2, <2>3, <2>4
<1>5. formOS'.caixa \subseteq formOS'.suas
  BY <1>2, <1>4 DEF TipoTelaOS
<1>6. formOS'.suas \subseteq {q.n : q \in vooOS'}
  BY <1>2, <1>4 DEF TipoTelaOS
<1>7. \A q \in vooOS' : q.n \in 1 .. envios /\ (q.n \in formOS'.caixa => q.op = "fechar")
  BY <1>2, <1>4 DEF TipoTelaOS
<1> QED  BY <1>4, <1>5, <1>6, <1>7

\* The answers.
LEMMA TelaOSResposta ==
    ASSUME TipoTelaOS, Avancam, UNCHANGED envios, NEW p \in vooOS,
           RespostaOS(p) \/ RecusaOS(p) \/ PerdidaOS(p) \/ SemSessaoOS(p)
    PROVE  TipoTelaOS'
<1>1. vooOS' = vooOS \ {p} /\ (formOS' = Soltar(p) \/ formOS' = FormApos(p))
  BY DEF RespostaOS, RecusaOS, PerdidaOS, SemSessaoOS
<1>2. /\ formOS' \in FormasOS(envios') /\ formOS'.caixa \subseteq formOS'.suas
      /\ formOS'.suas \subseteq {q.n : q \in vooOS'}
      /\ \A q \in vooOS' : q.n \in 1 .. envios' /\ (q.n \in formOS'.caixa => q.op = "fechar")
  BY <1>1, FormOSSolta
<1>3. ordem' = ordem \/ (Aceita(p) /\ ordem' = Efeito(p))
  BY DEF RespostaOS, RecusaOS, PerdidaOS, SemSessaoOS
<1>4. ordem' \in [status : Status, itens : SUBSET (1 .. envios'), apts : SUBSET (1 .. envios')]
  BY <1>3, OrdemTipada DEF TipoTelaOS
<1>5. UNCHANGED consultasOS \/ consultasOS' = InvalidarOS(Invalidadas(p))
  BY DEF RespostaOS, RecusaOS, PerdidaOS, SemSessaoOS
<1>6. ConsultasOSCertas'
  BY <1>5, ConsultasOSSeguem
<1>7. vistos' = vistos \/ vistos' = vistos \cup {p.n}
  BY DEF RespostaOS, RecusaOS, PerdidaOS, SemSessaoOS
<1>8. vistos' \subseteq 1 .. envios'
  BY <1>7 DEF TipoTelaOS
<1> QED  BY <1>2, <1>4, <1>6, <1>8, TelaOSNova

\* The reads.
LEMMA TelaOSLeitura ==
    ASSUME TipoTelaOS, Avancam, UNCHANGED envios, NEW k \in ChavesOS,
           LerOS(k) \/ ReceberOS(k) \/ DesistirOS(k) \/ FocarOS(k)
    PROVE  TipoTelaOS'
<1>1. UNCHANGED <<ordem, formOS, vooOS, vistos>>
  BY DEF LerOS, ReceberOS, DesistirOS, FocarOS
<1> DEFINE c == consultasOS[k]
<1>2. c \in Entradas(ValoresOS(k), logins) /\ logins \in Nat /\ token \in 0 .. logins
  BY DEF TipoTelaOS, Avancam
<1>3. NoServidor(k) \in ValoresOS(k)
  BY DEF NoServidor, ValoresOS, ChavesOS, TipoTelaOS
<1>4. /\ \A v \in ValoresOS(k) : Ler(c, v) \in Entradas(ValoresOS(k), logins)
      /\ Receber(c) \in Entradas(ValoresOS(k), logins) /\ Desistir(c) \in Entradas(ValoresOS(k), logins)
      /\ Refazer(c, token) \in Entradas(ValoresOS(k), logins)
  BY <1>2, EntradaTipada
<1>5. \E d \in {Ler(c, NoServidor(k)), Receber(c), Desistir(c), Refazer(c, token)} :
          consultasOS' = [consultasOS EXCEPT ![k] = d]
  BY DEF LerOS, ReceberOS, DesistirOS, FocarOS
<1>6. ConsultasOSCertas'
  BY <1>3, <1>4, <1>5, ConsultasOSSeguem
<1> QED  BY <1>1, <1>6, TelaOSNova DEF TipoTelaOS

\* The page is mounted or left.
LEMMA TelaOSMontar ==
    ASSUME TipoTelaOS, Avancam, UNCHANGED envios, NEW t, MontarOS(t)
    PROVE  TipoTelaOS'
<1>1. UNCHANGED <<ordem, vooOS, vistos>> /\ formOS' = FormInicial
  BY DEF MontarOS
<1>2. ConsultasOSCertas'
  BY ConsultasOSSeguem DEF MontarOS
<1>3. formOS' \in FormasOS(envios') /\ formOS'.caixa = {} /\ formOS'.suas = {}
  BY <1>1 DEF FormInicial, FormasOS
<1> QED  BY <1>1, <1>2, <1>3, TelaOSNova DEF TipoTelaOS

\* Every step.
LEMMA TelaOSTipada ==
    ASSUME TipoTelaOS, Avancam, [Next]_vars
    PROVE  TipoTelaOS'
<1>1. CASE UNCHANGED osVars
  BY <1>1, TelaOSParada
<1>2. CASE Trocar
  BY <1>2, TelaOSMontar DEF Trocar, Transicao
<1>3. CASE CliqueOS
  BY <1>3, TelaOSClique
<1>4. CASE RedeOS /\ UNCHANGED envios
  BY <1>4, TelaOSResposta, TelaOSLeitura DEF RedeOS
<1> QED  BY <1>1, <1>2, <1>3, <1>4 DEF Next, vars, telasVars

-----------------------------------------------------------------------------
\* The entry of the draft after a step.
LEMMA ConsultaRevSegue ==
    ASSUME TipoRev, Avancam,
           \/ UNCHANGED consultaRev \/ consultaRev' = Refazer(consultaRev, token)
           \/ \E velha : consultaRev' = Montar(consultaRev, token, velha)
           \/ \E ativa : consultaRev' = Invalidar(consultaRev, ativa, token)
           \/ consultaRev' \in {Receber(consultaRev), Desistir(consultaRev), Ler(consultaRev, rasc)}
    PROVE  consultaRev' \in Entradas(Rascunho, logins')
<1>1. consultaRev \in Entradas(Rascunho, logins) /\ rasc \in Rascunho /\ token \in 0 .. logins
      /\ logins \in Nat /\ logins' \in Nat /\ logins <= logins'
  BY DEF TipoRev, Avancam
<1> DEFINE E == Entradas(Rascunho, logins)
<1>3. /\ Refazer(consultaRev, token) \in E
      /\ \A velha : Montar(consultaRev, token, velha) \in E
      /\ \A ativa : Invalidar(consultaRev, ativa, token) \in E
      /\ {Receber(consultaRev), Desistir(consultaRev), Ler(consultaRev, rasc)} \subseteq E
  BY <1>1, EntradaTipada
<1>2. consultaRev' \in Entradas(Rascunho, logins)
  <2> HIDE DEF E
  <2> QED  BY <1>1, <1>3 DEF E
<1> QED  BY <1>1, <1>2, EntradaTipada

\* The page after a step that sends at most one write, with the next number.
LEMMA FormRevSegue ==
    ASSUME TipoRev, Avancam, NEW P, P \subseteq vooRev, vooRev' \ P \subseteq {r \in vooRev' : r.n = envios'},
           envios' = envios \/ envios' = envios + 1, vooRev' \subseteq P \/ envios' = envios + 1,
           rasc' \in Rascunho, consultaRev' \in Entradas(Rascunho, logins'),
           formRev' \in FormasRev(envios'),
           formRev'.laco # 0 => formRev'.laco \in formRev'.suas /\ EmVoo(formRev'.laco, vooRev'),
           formRev'.laco \in {0, formRev.laco}
    PROVE  TipoRev'
<1>1. ASSUME NEW r \in vooRev' PROVE r.n \in 1 .. envios' /\ (r.op # "criar" => r.n # formRev'.laco)
  <2>1. CASE r \in P
    <3>1. r.n \in 1 .. envios /\ (r.op # "criar" => r.n # formRev.laco)
      BY <2>1 DEF TipoRev
    <3>2. r.n \in 1 .. envios' /\ r.n # 0
      BY <3>1 DEF Avancam
    <3> QED  BY <3>1, <3>2
  <2>2. CASE r \notin P
    <3>1. r.n = envios + 1 /\ envios' = envios + 1
      BY <2>2
    <3>2. formRev.laco \in 0 .. envios
      BY DEF TipoRev, FormasRev
    <3> QED  BY <3>1, <3>2 DEF Avancam
  <2> QED  BY <2>1, <2>2
<1> QED  BY <1>1 DEF TipoRev

\* The forms of the page that an answer leaves.
LEMMA FormRevSolta ==
    ASSUME TipoRev, Avancam, NEW p
    PROVE  /\ formRev \in FormasRev(envios')
           /\ SoltarRev(p) \in FormasRev(envios')
           /\ SoltarRev(p).laco = formRev.laco /\ SoltarRev(p).suas = formRev.suas \ {p.n}
           /\ LacoAcabou(p) \in FormasRev(envios')
           /\ LacoAcabou(p).laco = IF formRev.laco = p.arg.laco THEN 0 ELSE formRev.laco
           /\ LacoAcabou(p).suas = formRev.suas \ {p.arg.laco}
<1>1. 0 .. envios \subseteq 0 .. envios' /\ 1 .. envios \subseteq 1 .. envios' /\ 0 \in 0 .. envios'
  BY DEF Avancam
<1>2. formRev \in FormasRev(envios')
  BY <1>1 DEF TipoRev, FormasRev
<1>3. /\ SoltarRev(p) \in FormasRev(envios')
      /\ SoltarRev(p).laco = formRev.laco /\ SoltarRev(p).suas = formRev.suas \ {p.n}
  BY <1>2 DEF SoltarRev, FormasRev
<1>4. /\ LacoAcabou(p) \in FormasRev(envios')
      /\ LacoAcabou(p).laco = IF formRev.laco = p.arg.laco THEN 0 ELSE formRev.laco
      /\ LacoAcabou(p).suas = formRev.suas \ {p.arg.laco}
  BY <1>1, <1>2 DEF LacoAcabou, FormasRev
<1> QED  BY <1>2, <1>3, <1>4

\* Nothing is sent or answered.
LEMMA RevParada ==
    ASSUME TipoRev, Avancam, rasc' \in Rascunho, vooRev' = vooRev, formRev' = formRev,
           consultaRev' \in Entradas(Rascunho, logins')
    PROVE  TipoRev'
<1>1. 0 .. envios \subseteq 0 .. envios' /\ 1 .. envios \subseteq 1 .. envios'
  BY DEF Avancam
<1>2. formRev' \in FormasRev(envios')
  BY <1>1 DEF TipoRev, FormasRev
<1> QED  BY <1>1, <1>2 DEF TipoRev

\* A write that begins no loop is sent.
LEMMA RevManda ==
    ASSUME TipoRev, Avancam, NEW op, NEW arg, NEW f, MandarRev(op, arg, f), f \in {formRev, DaPagina(formRev)}
    PROVE  TipoRev'
<1> DEFINE n == envios + 1
           p == Pedido(op, arg)
<1>1. vooRev' = vooRev \cup {p} /\ formRev' = f /\ rasc' = rasc /\ consultaRev' = consultaRev /\ envios' = n
  BY DEF MandarRev, Contar
<1>2. p.n = n
  BY DEF Pedido
<1>3. n \in 1 .. envios' /\ formRev \in FormasRev(envios')
  BY <1>1, FormRevSolta DEF Avancam
<1>4. /\ f \in FormasRev(envios') /\ f.laco = formRev.laco /\ formRev.suas \subseteq f.suas
  <2>1. CASE f = formRev
    BY <1>3, <2>1
  <2>2. CASE f = DaPagina(formRev)
    <3>1. f = [formRev EXCEPT !.suas = @ \cup {n}]
      BY <2>2 DEF DaPagina
    <3> HIDE DEF n
    <3> QED  BY <1>3, <3>1 DEF FormasRev
  <2> QED  BY <2>1, <2>2
<1> HIDE DEF p
<1>5. f.laco # 0 => f.laco \in f.suas /\ EmVoo(f.laco, vooRev')
  BY <1>1, <1>4 DEF TipoRev, EmVoo
<1>6. consultaRev' \in Entradas(Rascunho, logins') /\ rasc' \in Rascunho
  BY <1>1, ConsultaRevSegue DEF TipoRev
<1> QED  BY <1>1, <1>2, <1>4, <1>5, <1>6, FormRevSegue DEF TipoRev

\* "Concluir" begins a loop, known by its first write.
LEMMA RevComeca ==
    ASSUME TipoRev, Avancam, NEW S, MandarRev("criar", Criar(S, envios + 1), [DaPagina(formRev) EXCEPT !.laco = envios + 1])
    PROVE  TipoRev'
<1> DEFINE n == envios + 1
           p == Pedido("criar", Criar(S, n))
<1>1. /\ vooRev' = vooRev \cup {p} /\ formRev' = [DaPagina(formRev) EXCEPT !.laco = n]
      /\ rasc' = rasc /\ consultaRev' = consultaRev /\ envios' = n
  BY DEF MandarRev, Contar
<1>2. p.n = n /\ p.op = "criar" /\ p.arg.laco = n
  BY DEF Pedido, Criar
<1>3. formRev \in FormasRev(envios')
  BY FormRevSolta
<1>n. /\ n \in 1 .. envios' /\ n \in 0 .. envios'
      /\ n \notin 1 .. envios /\ 1 .. envios \subseteq 1 .. envios'
  BY <1>1 DEF Avancam
<1>4. formRev' = [formRev EXCEPT !.suas = @ \cup {n}, !.laco = n]
  BY <1>1 DEF DaPagina
<1> HIDE DEF n, p
<1>5. formRev' \in FormasRev(envios') /\ formRev'.laco = n /\ n \in formRev'.suas
  BY <1>3, <1>n, <1>4 DEF FormasRev
<1>6. EmVoo(n, vooRev')
  BY <1>1, <1>2 DEF EmVoo
<1>7. \A r \in vooRev' : r.n \in 1 .. envios' /\ (r.op # "criar" => r.n # n)
  BY <1>1, <1>2, <1>n DEF TipoRev
<1>8. consultaRev' \in Entradas(Rascunho, logins') /\ rasc' \in Rascunho
  BY <1>1, ConsultaRevSegue DEF TipoRev
<1> QED  BY <1>5, <1>6, <1>7, <1>8 DEF TipoRev

\* The clicks.
LEMMA TelaRevClique ==
    ASSUME TipoRev, Avancam, CliqueRev
    PROVE  TipoRev'
<1>1. formRev \in FormasRev(envios') /\ 0 \in 0 .. envios'
  BY FormRevSolta DEF Avancam
<1>2. ASSUME rasc' = rasc, consultaRev' = consultaRev, vooRev' = vooRev, envios' = envios,
             formRev' \in FormasRev(envios'),
             formRev'.laco = 0 \/ (formRev'.laco = formRev.laco /\ formRev'.suas = formRev.suas)
      PROVE  TipoRev'
  <2>1. formRev'.laco # 0 => formRev'.laco \in formRev'.suas /\ EmVoo(formRev'.laco, vooRev')
    BY <1>2 DEF TipoRev
  <2>2. consultaRev' \in Entradas(Rascunho, logins') /\ rasc' \in Rascunho
    BY <1>2, ConsultaRevSegue DEF TipoRev
  <2> QED  BY <1>2, <2>1, <2>2, FormRevSegue
<1>3. CASE Avancar
  <2>1. formRev' = [formRev EXCEPT !.passo = "produtos"]
    BY <1>3 DEF Avancar
  <2>2. formRev' \in FormasRev(envios') /\ formRev'.laco = formRev.laco /\ formRev'.suas = formRev.suas
    BY <1>1, <2>1 DEF FormasRev
  <2> QED  BY <1>2, <1>3, <2>2 DEF Avancar
<1>4. CASE VoltarAoFornecedor
  <2>1. formRev' = [formRev EXCEPT !.passo = "fornecedor", !.laco = 0]
    BY <1>4 DEF VoltarAoFornecedor
  <2>2. formRev' \in FormasRev(envios') /\ formRev'.laco = 0
    BY <1>1, <2>1 DEF FormasRev
  <2> QED  BY <1>2, <1>4, <2>2 DEF VoltarAoFornecedor
<1>5. CASE VoltarALista
  BY <1>1, <1>2, <1>5 DEF VoltarALista
<1>6. CASE ListarPagina
  <2>1. formRev' = [passo |-> "erro", laco |-> 0, suas |-> {}]
    BY <1>6 DEF ListarPagina
  <2>2. formRev' \in FormasRev(envios') /\ formRev'.laco = 0
    BY <1>1, <2>1 DEF FormasRev
  <2> QED  BY <1>2, <1>6, <2>2 DEF ListarPagina
<1>7. CASE (\E l \in Linhas : Vincular(l)) \/ CancelarImportacao
  BY <1>7, RevManda DEF Vincular, CancelarImportacao
<1>8. CASE Concluir
  <2>1. CASE Pendentes(Lido) = {}
    BY <1>8, <2>1, RevManda DEF Concluir
  <2>2. CASE Pendentes(Lido) # {}
    BY <1>8, <2>2, RevComeca DEF Concluir
  <2> QED  BY <2>1, <2>2
<1> QED  BY <1>3, <1>4, <1>5, <1>6, <1>7, <1>8 DEF CliqueRev

\* The loop sends its next write, or the confirmation.
LEMMA RevContinua ==
    ASSUME TipoRev, Avancam, rasc' \in Rascunho, NEW p \in vooRev, RespostaCriar(p)
    PROVE  TipoRev'
<1>1. p.op = "criar" /\ envios' = envios + 1 /\ consultaRev' = consultaRev
  BY DEF RespostaCriar, Contar
<1>2. consultaRev' \in Entradas(Rascunho, logins')
  BY <1>1, ConsultaRevSegue
<1>3. formRev \in FormasRev(envios')
  BY FormRevSolta
<1> DEFINE P == vooRev \ {p}
<1>4. CASE p.arg.resto # {}
  <2> DEFINE q == Pedido("criar", Criar(p.arg.resto, p.arg.laco))
  <2>1. vooRev' = P \cup {q} /\ formRev' = formRev
    BY <1>4 DEF RespostaCriar
  <2>2. q.n = envios + 1 /\ q.op = "criar" /\ q.arg.laco = p.arg.laco
    BY DEF Pedido, Criar
  <2> HIDE DEF q
  <2>3. formRev.laco # 0 => formRev.laco \in formRev.suas /\ EmVoo(formRev.laco, vooRev')
    BY <1>1, <2>1, <2>2 DEF TipoRev, EmVoo
  <2> QED  BY <1>1, <1>2, <1>3, <2>1, <2>2, <2>3, FormRevSegue
<1>5. CASE p.arg.resto = {}
  <2> DEFINE q == Pedido("confirmar", 0)
             l == p.arg.laco
  <2>1. /\ vooRev' = P \cup {q}
        /\ formRev' = IF l \in formRev.suas THEN DaPagina(LacoAcabou(p)) ELSE formRev
    BY <1>5 DEF RespostaCriar
  <2>2. q.n = envios + 1
    BY DEF Pedido
  <2> HIDE DEF q
  <2>3. CASE l \in formRev.suas
    <3> DEFINE f == LacoAcabou(p)
               n == envios + 1
    <3>1. /\ f \in FormasRev(envios') /\ f.laco = (IF formRev.laco = l THEN 0 ELSE formRev.laco)
          /\ f.suas = formRev.suas \ {l}
      BY FormRevSolta
    <3>n. n \in 1 .. envios'
      BY <1>1 DEF Avancam
    <3>2. formRev' = [f EXCEPT !.suas = @ \cup {n}]
      BY <2>1, <2>3 DEF DaPagina
    <3> HIDE DEF f, n
    <3>3. formRev' \in FormasRev(envios') /\ formRev'.laco = f.laco /\ formRev'.suas = f.suas \cup {n}
      BY <3>1, <3>n, <3>2 DEF FormasRev
    <3>4. formRev'.laco # 0 => formRev'.laco \in formRev'.suas /\ EmVoo(formRev'.laco, vooRev')
      BY <2>1, <3>1, <3>3 DEF TipoRev, EmVoo
    <3>5. formRev'.laco \in {0, formRev.laco}
      BY <3>1, <3>3
    <3> QED  BY <1>1, <1>2, <2>1, <2>2, <3>3, <3>4, <3>5, FormRevSegue
  <2>4. CASE l \notin formRev.suas
    <3>1. formRev.laco # 0 => formRev.laco \in formRev.suas /\ EmVoo(formRev.laco, vooRev')
      BY <2>1, <2>4 DEF TipoRev, EmVoo
    <3> QED  BY <1>1, <1>2, <1>3, <2>1, <2>2, <2>4, <3>1, FormRevSegue
  <2> QED  BY <2>3, <2>4
<1> QED  BY <1>4, <1>5

\* The other answers.
LEMMA RevRecebe ==
    ASSUME TipoRev, Avancam, rasc' \in Rascunho, envios' = envios, NEW p \in vooRev,
           \/ RespostaVincular(p) \/ RespostaPagina(p) \/ RecusaRev(p) \/ PerdidaRev(p) \/ SemSessaoRev(p)
    PROVE  TipoRev'
<1>1. vooRev' = vooRev \ {p}
  BY DEF RespostaVincular, RespostaPagina, RecusaRev, PerdidaRev, SemSessaoRev, ComErro
<1>2. consultaRev' \in Entradas(Rascunho, logins')
  BY ConsultaRevSegue DEF RespostaVincular, RespostaPagina, RecusaRev, PerdidaRev, SemSessaoRev, ComErro
<1>3. \/ p.op # "criar" /\ formRev' \in {formRev, SoltarRev(p)}
      \/ p.op = "criar" /\ formRev' = LacoAcabou(p)
  BY DEF RespostaVincular, RespostaPagina, RecusaRev, PerdidaRev, SemSessaoRev, ComErro
<1>4. formRev' \in FormasRev(envios') /\ formRev'.laco \in {0, formRev.laco}
  BY <1>3, FormRevSolta
<1>5. formRev'.laco # 0 => formRev'.laco \in formRev'.suas /\ EmVoo(formRev'.laco, vooRev')
  <2>1. CASE p.op # "criar" /\ formRev' = formRev
    BY <1>1, <2>1 DEF TipoRev, EmVoo
  <2>2. CASE p.op # "criar" /\ formRev' = SoltarRev(p)
    BY <1>1, <2>2, FormRevSolta DEF TipoRev, EmVoo
  <2>3. CASE p.op = "criar" /\ formRev' = LacoAcabou(p)
    BY <1>1, <2>3, FormRevSolta DEF TipoRev, EmVoo
  <2> QED  BY <1>3, <2>1, <2>2, <2>3
<1> QED  BY <1>1, <1>2, <1>4, <1>5, FormRevSegue

\* Every step of the review.
LEMMA TelaRevTipada ==
    ASSUME TipoRev, Avancam, rasc' \in Rascunho, [Next]_vars
    PROVE  TipoRev'
<1>1. CASE UNCHANGED revVars
  BY <1>1, RevParada, ConsultaRevSegue DEF revVars
<1>2. CASE Trocar
  <2>1. vooRev' = vooRev /\ formRev' = FormRevInicial /\ envios' = envios
    BY <1>2 DEF Trocar, MontarRev, Transicao
  <2>2. consultaRev' \in Entradas(Rascunho, logins')
    BY <1>2, ConsultaRevSegue DEF Trocar, MontarRev
  <2>3. formRev' \in FormasRev(envios') /\ formRev'.laco = 0
    BY <2>1 DEF FormasRev, FormRevInicial, Avancam
  <2> QED  BY <2>1, <2>2, <2>3, FormRevSegue
<1>3. CASE CliqueRev
  BY <1>3, TelaRevClique
<1>4. CASE RedeRev
  <2>1. ASSUME Colega \/ LerRev \/ ReceberRev \/ DesistirRev \/ FocarRev PROVE TipoRev'
    <3>1. vooRev' = vooRev /\ formRev' = formRev
      BY <2>1 DEF Colega, LerRev, ReceberRev, DesistirRev, FocarRev
    <3>2. consultaRev' \in Entradas(Rascunho, logins')
      BY <2>1, ConsultaRevSegue DEF Colega, LerRev, ReceberRev, DesistirRev, FocarRev
    <3> QED  BY <3>1, <3>2, RevParada
  <2>2. ASSUME NEW p \in vooRev, RespostaCriar(p) PROVE TipoRev'
    BY <2>2, RevContinua
  <2>3. ASSUME NEW p \in vooRev,
               \/ RespostaVincular(p) \/ RespostaPagina(p) \/ RecusaRev(p) \/ PerdidaRev(p) \/ SemSessaoRev(p)
        PROVE  TipoRev'
    BY <2>3, RevRecebe DEF RespostaVincular, RespostaPagina, RecusaRev, PerdidaRev, SemSessaoRev, ComErro
  <2> QED  BY <1>4, <2>1, <2>2, <2>3 DEF RedeRev
<1> QED  BY <1>1, <1>2, <1>3, <1>4 DEF Next, vars, telasVars

-----------------------------------------------------------------------------
\* The entries of the records after a step.
LEMMA ConsultasFicSeguem ==
    ASSUME TipoFic, Avancam
    PROVE  /\ UNCHANGED consultasFic => ConsultasFicCertas'
           /\ \A f : \A c \in Entradas(Registros, logins) :
                  consultasFic' = [consultasFic EXCEPT ![f] = c] => ConsultasFicCertas'
<1>1. /\ consultasFic = [f \in Fichas |-> consultasFic[f]]
      /\ \A f \in Fichas : consultasFic[f] \in Entradas(Registros, logins)
      /\ logins \in Nat /\ logins' \in Nat /\ logins <= logins'
  BY DEF TipoFic, ConsultasFicCertas, Avancam
<1>2. \A c \in Entradas(Registros, logins) : c \in Entradas(Registros, logins')
  BY <1>1, EntradaTipada
<1>3. UNCHANGED consultasFic => ConsultasFicCertas'
  BY <1>1, <1>2 DEF ConsultasFicCertas
<1>4. ASSUME NEW f, NEW c \in Entradas(Registros, logins),
             consultasFic' = [consultasFic EXCEPT ![f] = c]
      PROVE  ConsultasFicCertas'
  <2>1. consultasFic' = [g \in Fichas |-> IF g = f THEN c ELSE consultasFic[g]]
    BY <1>1, <1>4
  <2>2. \A g \in Fichas : consultasFic'[g] \in Entradas(Registros, logins')
    BY <1>1, <1>2, <2>1
  <2>3. consultasFic' = [g \in Fichas |-> consultasFic'[g]]
    BY <2>1
  <2> QED  BY <2>2, <2>3 DEF ConsultasFicCertas
<1> QED  BY <1>3, <1>4

\* The types of the forms do not shrink.
LEMMA FichasCrescem ==
    ASSUME TipoFic, Avancam
    PROVE  /\ painel \in Paineis(envios') /\ ficha \in FichasFic(envios')
           /\ \A p \in vooFic : p.n \in 1 .. envios' /\ p.n # 0 /\ p.arg.ficha \in Fichas
<1>1. 0 .. envios \subseteq 0 .. envios' /\ 1 .. envios \subseteq 1 .. envios'
  BY DEF Avancam
<1> QED  BY <1>1 DEF TipoFic, Paineis, FichasFic

\* What a form is filled in with.
LEMMA FichaPreenchida ==
    ASSUME TipoFic, Avancam, NEW f \in FichasFic(envios'), NEW N, NEW c \in Entradas(Registros, N)
    PROVE  Preenchida(f, c) \in FichasFic(envios')
<1>1. c.dado \in Registros \cup {SemDado}
  BY DEF Entradas
<1> QED  BY <1>1 DEF Preenchida, FichasFic

\* A form is mounted, or none is.
LEMMA MontagemTipada ==
    ASSUME TipoFic, Avancam, NEW S, S \subseteq Fichas, NEW cred \in 0 .. logins, Montagem(S, cred)
    PROVE  /\ ConsultasFicCertas' /\ ficha' \in FichasFic(envios')
           /\ S = {} => ficha' = FichaVazia
<1>1. FichaVazia \in FichasFic(envios')
  BY DEF FichaVazia, FichasFic, Avancam
<1>2. CASE S = {}
  BY <1>1, <1>2, ConsultasFicSeguem DEF Montagem
<1>3. CASE S # {}
  <2>1. PICK f \in S, velha \in {FALSE, "ficha" \in roteiro.chaves} :
            /\ ficha' = Preenchida(FichaVazia, consultasFic[f])
            /\ consultasFic' = [consultasFic EXCEPT ![f] = Montar(@, cred, velha)]
    BY <1>3 DEF Montagem
  <2>2. consultasFic[f] \in Entradas(Registros, logins) /\ logins \in Nat
    BY DEF TipoFic, ConsultasFicCertas, Avancam
  <2>3. Montar(consultasFic[f], cred, velha) \in Entradas(Registros, logins)
    BY <2>2, EntradaTipada
  <2>4. ConsultasFicCertas'
    BY <2>1, <2>3, ConsultasFicSeguem
  <2>5. ficha' \in FichasFic(envios')
    BY <1>1, <2>1, <2>2, FichaPreenchida
  <2> QED  BY <1>3, <2>4, <2>5
<1> QED  BY <1>2, <1>3

\* The forms follow the page.
LEMMA FicSegue ==
    ASSUME TipoFic, Avancam, UNCHANGED logins, Acompanhar
    PROVE  TipoFic'
<1>1. fornecedor' = fornecedor /\ vooFic' = vooFic
  BY DEF Acompanhar
<1>2. /\ painel' \in Paineis(envios') /\ painel'.suas \subseteq {p.n : p \in vooFic'}
      /\ painel' # PainelFechado => NoPassoProdutos'
  <2>1. CASE NoPassoProdutos'
    <3>1. painel' = painel
      BY <2>1 DEF Acompanhar
    <3> QED  BY <1>1, <2>1, <3>1, FichasCrescem DEF TipoFic
  <2>2. CASE ~NoPassoProdutos'
    <3>1. painel' = PainelFechado
      BY <2>2 DEF Acompanhar
    <3>2. PainelFechado \in Paineis(envios') /\ PainelFechado.suas = {}
      BY DEF PainelFechado, Paineis, Fichas
    <3> QED  BY <3>1, <3>2
  <2> QED  BY <2>1, <2>2
<1>3. ConsultasFicCertas' /\ ficha' \in FichasFic(envios') /\ (ficha' # FichaVazia => Montada' # {})
  <2>1. CASE Montada' = Montada
    <3>1. UNCHANGED consultasFic /\ ficha' = ficha
      BY <2>1 DEF Acompanhar
    <3> QED  BY <2>1, <3>1, ConsultasFicSeguem, FichasCrescem DEF TipoFic
  <2>2. CASE Montada' # Montada
    <3> DEFINE S == Montada'
               cred == token'
    <3>1. Montagem(S, cred)
      BY <2>2 DEF Acompanhar
    <3>2. S \subseteq Fichas /\ cred \in 0 .. logins
      BY UmaMontada DEF Avancam
    <3>3. ConsultasFicCertas' /\ ficha' \in FichasFic(envios') /\ (S = {} => ficha' = FichaVazia)
      <4> HIDE DEF S, cred
      <4> QED  BY <3>1, <3>2, MontagemTipada
    <3> QED  BY <3>3
  <2> QED  BY <2>1, <2>2
<1> QED  BY <1>1, <1>2, <1>3, FichasCrescem DEF TipoFic

\* What is to be shown of the forms after a step.
LEMMA FicNova ==
    ASSUME fornecedor' \in Registros, painel' \in Paineis(envios'),
           painel'.suas \subseteq {p.n : p \in vooFic'}, painel' # PainelFechado => NoPassoProdutos',
           ficha' \in FichasFic(envios'), ficha' # FichaVazia => Montada' # {}, ConsultasFicCertas',
           \A p \in vooFic' : p.n \in 1 .. envios' /\ p.arg.ficha \in Fichas
    PROVE  TipoFic'
BY DEF TipoFic

\* The panel is opened for a line, or closed.
LEMMA FicAbre ==
    ASSUME TipoFic, Avancam, UNCHANGED <<roteiro, tela, logins, revVars>>, NEW l \in Fichas,
           NoPassoProdutos, Mostrar(l), l # 0 => l \notin Pendentes(Lido)
    PROVE  TipoFic'
<1>1. painel' = [painel EXCEPT !.linha = l] /\ fornecedor' = fornecedor /\ vooFic' = vooFic
  BY DEF Mostrar
<1>2. NoPassoProdutos' /\ Pendentes(Lido)' = Pendentes(Lido)
  BY DEF revVars, NoPassoProdutos, RevisaoAberta, Lido, Pendentes
<1>3. painel' \in Paineis(envios') /\ painel'.suas = painel.suas /\ painel'.linha = l
  <2>1. painel \in Paineis(envios')
    BY FichasCrescem
  <2> QED  BY <1>1, <2>1 DEF Paineis
<1> DEFINE S == {l} \ {0}
<1>4. ConsultasFicCertas' /\ ficha' \in FichasFic(envios') /\ (S = {} => ficha' = FichaVazia)
  <2>1. Montagem(S, token) /\ S \subseteq Fichas /\ token \in 0 .. logins
    BY DEF Mostrar, Avancam
  <2> HIDE DEF S
  <2> QED  BY <2>1, MontagemTipada
<1>5. l # 0 => l \in Montada'
  BY <1>2, <1>3 DEF Montada
<1> QED  BY <1>1, <1>2, <1>3, <1>4, <1>5, FichasCrescem, FicNova DEF TipoFic

\* An update is sent.
LEMMA FicEnvia ==
    ASSUME TipoFic, Avancam, UNCHANGED <<roteiro, tela, logins, revVars>>, Atualizar
    PROVE  TipoFic'
<1>1. PICK f \in Montada :
          /\ vooFic' = vooFic \cup {Pedido("ficha", [ficha |-> f, campos |-> ficha.campos])}
          /\ ficha' = [ficha EXCEPT !.espera = envios + 1]
          /\ painel' = IF f = 0 THEN painel ELSE [painel EXCEPT !.suas = @ \cup {envios + 1}]
          /\ fornecedor' = fornecedor /\ UNCHANGED consultasFic /\ envios' = envios + 1
  BY DEF Atualizar, Contar
<1> DEFINE n == envios + 1
           p == Pedido("ficha", [ficha |-> f, campos |-> ficha.campos])
<1>2. p.n = n /\ p.arg.ficha = f
  BY DEF Pedido
<1>3. n \in 1 .. envios' /\ n \in 0 .. envios'
  BY <1>1 DEF Avancam
<1>4. vooFic' = vooFic \cup {p} /\ ficha' = [ficha EXCEPT !.espera = n]
      /\ painel' = IF f = 0 THEN painel ELSE [painel EXCEPT !.suas = @ \cup {n}]
  BY <1>1
<1> HIDE DEF n, p
<1>5. ficha' \in FichasFic(envios')
  BY <1>3, <1>4, FichasCrescem DEF FichasFic
<1>6. painel' \in Paineis(envios') /\ painel'.linha = painel.linha
      /\ painel'.suas \subseteq {q.n : q \in vooFic'}
  <2>1. painel \in Paineis(envios') /\ painel.suas \subseteq {q.n : q \in vooFic}
    BY FichasCrescem DEF TipoFic
  <2>2. CASE f = 0
    BY <1>4, <2>1, <2>2
  <2>3. CASE f # 0
    <3>1. painel' = [painel EXCEPT !.suas = @ \cup {n}]
      BY <1>4, <2>3
    <3>2. painel' \in Paineis(envios') /\ painel'.linha = painel.linha /\ painel'.suas = painel.suas \cup {n}
      BY <1>3, <2>1, <3>1 DEF Paineis
    <3> QED  BY <1>2, <1>4, <2>1, <3>2
  <2> QED  BY <2>2, <2>3
<1>7. Montada' = Montada /\ NoPassoProdutos' = NoPassoProdutos
  BY <1>6, MesmaMontada
<1>8. painel' # PainelFechado => NoPassoProdutos'
  <2>1. CASE f = 0
    BY <1>4, <1>7, <2>1 DEF TipoFic
  <2>2. CASE f # 0
    BY <1>7, <2>2 DEF Montada
  <2> QED  BY <2>1, <2>2
<1>9. \A q \in vooFic' : q.n \in 1 .. envios' /\ q.arg.ficha \in Fichas
  BY <1>2, <1>3, <1>4, FichasCrescem, UmaMontada
<1>10. ConsultasFicCertas'
  BY <1>1, ConsultasFicSeguem
<1> QED  BY <1>1, <1>5, <1>6, <1>7, <1>8, <1>9, <1>10, FicNova DEF TipoFic

\* The clicks.
LEMMA TelaFicClique ==
    ASSUME TipoFic, Avancam, UNCHANGED <<roteiro, tela, logins, revVars>>, CliqueFic
    PROVE  TipoFic'
<1>1. ASSUME CancelarFicha PROVE TipoFic'
  <2>1. NoPassoProdutos /\ Mostrar(0) /\ 0 \in Fichas
    BY <1>1 DEF CancelarFicha, Montada, Fichas
  <2> QED  BY <2>1, FicAbre
<1>2. ASSUME NEW l \in Linhas, EditarLinha(l) PROVE TipoFic'
  <2> DEFINE m == IF painel.linha = l THEN 0 ELSE l
  <2>1. NoPassoProdutos /\ Mostrar(m) /\ m \in Fichas /\ (m # 0 => m \notin Pendentes(Lido))
    BY <1>2 DEF EditarLinha, Fichas
  <2> HIDE DEF m
  <2> QED  BY <2>1, FicAbre
<1> QED  BY <1>1, <1>2, FicEnvia DEF CliqueFic

\* A write is answered: its form lets go of it, or is closed with the panel.
LEMMA FicSolto ==
    ASSUME TipoFic, Avancam, UNCHANGED <<roteiro, tela, logins, envios, revVars>>, NEW p \in vooFic,
           vooFic' = vooFic \ {p}, fornecedor' \in Registros, ConsultasFicCertas',
           \/ SoltarFic(p)
           \/ ficha' = FichaVazia /\ painel' = [PainelFechado EXCEPT !.suas = painel.suas \ {p.n}]
    PROVE  TipoFic'
<1>1. /\ painel \in Paineis(envios) /\ painel.suas \subseteq {q.n : q \in vooFic}
      /\ painel # PainelFechado => NoPassoProdutos
      /\ ficha \in FichasFic(envios) /\ (ficha # FichaVazia => Montada # {}) /\ p.n # 0
  BY FichasCrescem DEF TipoFic
<1>2. NoPassoProdutos' = NoPassoProdutos
  BY DEF revVars, NoPassoProdutos, RevisaoAberta, Lido
<1>3. painel'.suas = painel.suas \ {p.n} /\ painel' \in Paineis(envios)
      /\ (painel = PainelFechado => painel' = PainelFechado)
  <2>1. CASE painel' = [painel EXCEPT !.suas = @ \ {p.n}]
    BY <1>1, <2>1 DEF Paineis, PainelFechado
  <2>2. CASE painel' = [PainelFechado EXCEPT !.suas = painel.suas \ {p.n}]
    BY <1>1, <2>2 DEF Paineis, PainelFechado, Fichas
  <2> QED  BY <2>1, <2>2 DEF SoltarFic
<1>4. painel'.suas \subseteq {q.n : q \in vooFic'}
  BY <1>1, <1>3
<1>5. ficha' \in FichasFic(envios) /\ (ficha' # FichaVazia => Montada' # {})
  <2>1. CASE SoltarFic(p)
    <3>1. /\ ficha' = [ficha EXCEPT !.espera = IF @ = p.n THEN 0 ELSE @]
          /\ painel' = [painel EXCEPT !.suas = @ \ {p.n}]
      BY <2>1 DEF SoltarFic
    <3>2. painel'.linha = painel.linha
      BY <1>1, <3>1 DEF Paineis
    <3>3. ficha' \in FichasFic(envios) /\ (ficha = FichaVazia => ficha' = FichaVazia)
      <4>1. 0 \in 0 .. envios
        BY DEF Avancam
      <4> QED  BY <1>1, <3>1, <4>1 DEF FichasFic, FichaVazia
    <3>4. Montada' = Montada
      BY <3>2, MesmaMontada
    <3> QED  BY <1>1, <3>3, <3>4
  <2>2. CASE ficha' = FichaVazia
    BY <2>2 DEF FichaVazia, FichasFic, Avancam
  <2> QED  BY <2>1, <2>2
<1> QED  BY <1>1, <1>2, <1>3, <1>4, <1>5, FicNova DEF TipoFic

\* The answers.
LEMMA TelaFicResposta ==
    ASSUME TipoFic, Avancam, UNCHANGED <<roteiro, tela, logins, envios, revVars>>, NEW p \in vooFic,
           RespostaFic(p) \/ RecusaFic(p) \/ PerdidaFic(p) \/ SemSessaoFic(p)
    PROVE  TipoFic'
<1>1. vooFic' = vooFic \ {p}
  BY DEF RespostaFic, RecusaFic, PerdidaFic, SemSessaoFic, FalhaFic, SoltarFic
<1>2. fornecedor' \in Registros
  BY DEF RespostaFic, RecusaFic, PerdidaFic, SemSessaoFic, FeitaFic, TipoFic, Registros
<1>3. \/ SoltarFic(p)
      \/ ficha' = FichaVazia /\ painel' = [PainelFechado EXCEPT !.suas = painel.suas \ {p.n}]
  BY DEF RespostaFic, RecusaFic, PerdidaFic, SemSessaoFic, FalhaFic
<1>4. ConsultasFicCertas'
  <2>1. p.arg.ficha \in Fichas /\ consultasFic[p.arg.ficha] \in Entradas(Registros, logins)
    BY DEF TipoFic, ConsultasFicCertas
  <2>2. \A ativa : Invalidar(consultasFic[p.arg.ficha], ativa, token) \in Entradas(Registros, logins)
    BY <2>1, EntradaTipada DEF Avancam
  <2>3. \/ UNCHANGED consultasFic
        \/ consultasFic' = [consultasFic EXCEPT ![p.arg.ficha] =
                                Invalidar(consultasFic[p.arg.ficha], p.arg.ficha \in Montada, token)]
    BY DEF RespostaFic, RecusaFic, PerdidaFic, SemSessaoFic, FalhaFic
  <2> QED  BY <2>2, <2>3, ConsultasFicSeguem
<1> QED  BY <1>1, <1>2, <1>3, <1>4, FicSolto

\* The reads.
LEMMA TelaFicLeitura ==
    ASSUME TipoFic, Avancam, UNCHANGED <<roteiro, tela, logins, envios, revVars>>, NEW f \in Fichas,
           LerFic(f) \/ ReceberFic(f) \/ DesistirFic(f)
    PROVE  TipoFic'
<1> DEFINE d == consultasFic[f]
           v == IF f = 0 THEN fornecedor ELSE "inteiro"
<1>1. d \in Entradas(Registros, logins) /\ v \in Registros /\ logins \in Nat
  BY DEF TipoFic, ConsultasFicCertas, Registros, Avancam
<1>2. Ler(d, v) \in Entradas(Registros, logins) /\ Receber(d) \in Entradas(Registros, logins)
      /\ Desistir(d) \in Entradas(Registros, logins)
  BY <1>1, EntradaTipada
<1>3. PICK c \in {Ler(d, v), Receber(d), Desistir(d)} : NaEntrada(f, c)
  BY DEF LerFic, ReceberFic, DesistirFic
<1> HIDE DEF d, v
<1>4. c \in Entradas(Registros, logins)
  BY <1>2, <1>3
<1>5. fornecedor' = fornecedor /\ painel' = painel /\ vooFic' = vooFic
      /\ ConsultasFicCertas'
  BY <1>3, <1>4, ConsultasFicSeguem DEF NaEntrada
<1>6. ficha' = ficha \/ (f \in Montada /\ ficha' = Preenchida(ficha, c))
  BY <1>3 DEF NaEntrada
<1>7. ficha' \in FichasFic(envios')
  BY <1>4, <1>6, FichasCrescem, FichaPreenchida
<1>8. Montada' = Montada /\ NoPassoProdutos' = NoPassoProdutos
  BY <1>5, MesmaMontada
<1>9. ficha' # FichaVazia => Montada' # {}
  BY <1>6, <1>8 DEF TipoFic
<1> QED  BY <1>5, <1>7, <1>8, <1>9, FichasCrescem, FicNova DEF TipoFic

\* Every step of the forms.
LEMMA TelaFicTipada ==
    ASSUME TipoFic, Avancam, [Next]_vars
    PROVE  TipoFic'
<1>1. CASE UNCHANGED <<tela, revVars, ficVars>>
  <2>1. UNCHANGED <<roteiro, tela, revVars>> /\ painel'.linha = painel.linha
    BY <1>1 DEF ficVars, Avancam
  <2>2. Montada' = Montada /\ NoPassoProdutos' = NoPassoProdutos
    BY <2>1, MesmaMontada
  <2>3. /\ fornecedor' = fornecedor /\ painel' = painel /\ ficha' = ficha /\ vooFic' = vooFic
        /\ UNCHANGED consultasFic
    BY <1>1 DEF ficVars
  <2>4. ConsultasFicCertas'
    BY <2>3, ConsultasFicSeguem
  <2> QED  BY <2>2, <2>3, <2>4, FichasCrescem, FicNova DEF TipoFic
<1>2. CASE Acompanhar /\ UNCHANGED logins
  BY <1>2, FicSegue
<1>3. CASE CliqueFic /\ UNCHANGED <<roteiro, tela, logins, revVars>>
  BY <1>3, TelaFicClique
<1>4. CASE RedeFic /\ UNCHANGED <<roteiro, tela, logins, envios, revVars>>
  BY <1>4, TelaFicResposta, TelaFicLeitura DEF RedeFic
<1>5. CASE NextSessao /\ UNCHANGED telasVars
  <2>1. UNCHANGED tela
    BY <1>5 DEF NextSessao, Entrar, Entrou, NaoEntrou, Sair, Vencer, Intervalo, RespostaResumo,
                FalhaResumo, Clicar
  <2> QED  BY <1>1, <1>5, <2>1 DEF telasVars
<1>6. CASE Trocar
  BY <1>2, <1>6 DEF Trocar, Transicao
<1> QED  BY <1>1, <1>2, <1>3, <1>4, <1>5, <1>6 DEF Next, vars, sessaoVars, telasVars, Resto

-----------------------------------------------------------------------------
\* A page the server answers is one of that many products.
LEMMA PaginaTipada ==
    ASSUME NEW N \in Nat, NEW S, S \subseteq 1 .. N, NEW k
    PROVE  Pagina(S, k) \in PaginasDe(N)
<1>1. IsFiniteSet(1 .. N) /\ Cardinality(1 .. N) = N
  BY FS_Interval
<1>2. IsFiniteSet(S) /\ Cardinality(S) \in Nat /\ Cardinality(S) <= N
  BY <1>1, FS_Subset, FS_CardinalityType
<1>3. S # {} => Cardinality(S) # 0
  BY <1>2, FS_EmptySet
<1> DEFINE x == Cardinality(S)
           n == IF S = {} THEN 1 ELSE (x + PAGE_SIZE - 1) \div PAGE_SIZE
           I == Pagina(S, k).itens
<1>4. Pagina(S, k) = [itens |-> I, paginas |-> n] /\ I \subseteq S
  BY DEF Pagina
<1>5. n \in 1 .. 1 + N
  <2>1. CASE S = {}
    BY <2>1
  <2>2. CASE S # {}
    <3>1. x \in Nat \ {0} /\ x <= N /\ PAGE_SIZE \in Nat \ {0}
      BY <1>2, <1>3, <2>2, ProdutosAssumption
    <3> HIDE DEF x
    <3>2. (x + PAGE_SIZE - 1) \div PAGE_SIZE \in 1 .. x
      BY <3>1
    <3> QED  BY <2>2, <3>1, <3>2
  <2> QED  BY <2>1, <2>2
<1> HIDE DEF n, I
<1> QED  BY <1>4, <1>5 DEF PaginasDe

\* More products, writes and forms: what a page, a form and a write may hold grows.
LEMMA ProdutosCrescem ==
    ASSUME NEW N \in Nat, NEW M \in Nat, N <= M, NEW A \in Nat, NEW B \in Nat, A <= B,
           NEW D \in Nat, NEW E \in Nat, D <= E
    PROVE  /\ PaginasDe(N) \subseteq PaginasDe(M)
           /\ TelasDe(N, D) \subseteq TelasDe(M, E)
           /\ Campo(N, A) \subseteq Campo(M, B)
           /\ FormasDe(N, A) \subseteq FormasDe(M, B)
           /\ \A op, f : ArgumentoCerto(op, f, N, A) => ArgumentoCerto(op, f, M, B)
<1>1. /\ 0 .. N \subseteq 0 .. M /\ 1 .. N \subseteq 1 .. M /\ 1 .. 1 + N \subseteq 1 .. 1 + M
      /\ 0 .. A \subseteq 0 .. B /\ 0 .. D \subseteq 0 .. E /\ 1 .. D \subseteq 1 .. E
  OBVIOUS
<1>2. PaginasDe(N) \subseteq PaginasDe(M)
  BY <1>1 DEF PaginasDe
<1>3. TelasDe(N, D) \subseteq TelasDe(M, E)
  BY <1>1, <1>2 DEF TelasDe
<1>4. Campo(N, A) \subseteq Campo(M, B)
  BY <1>1 DEF Campo
<1>5. FormasDe(N, A) \subseteq FormasDe(M, B)
  BY <1>1, <1>4 DEF FormasDe
<1>6. \A op, f : ArgumentoCerto(op, f, N, A) => ArgumentoCerto(op, f, M, B)
  BY <1>1 DEF ArgumentoCerto
<1> QED  BY <1>2, <1>3, <1>4, <1>5, <1>6

\* The fields of a form change one at a time.
LEMMA FormaMuda ==
    ASSUME NEW N \in Nat, NEW A \in Nat, NEW f \in FormasDe(N, A)
    PROVE  /\ Fechada \in FormasDe(N, A)
           /\ \A e \in Nat : [f EXCEPT !.espera = e] \in FormasDe(N, A)
           /\ \A v \in Campo(N, A) : /\ [f EXCEPT !.texto = v] \in FormasDe(N, A)
                                     /\ [f EXCEPT !.marca = v] \in FormasDe(N, A)
           /\ [f EXCEPT !.ativo = ~@] \in FormasDe(N, A)
           /\ f.n \in 0 .. A /\ f.produto \in 0 .. N /\ f.espera \in Nat
           /\ <<f.produto, f.n>> \in Campo(N, A)
<1>1. 0 \in 0 .. N /\ 0 \in 0 .. A
  OBVIOUS
<1>2. Fechada \in FormasDe(N, A)
  BY <1>1 DEF Fechada, FormasDe, Campo
<1>3. \A e \in Nat : [f EXCEPT !.espera = e] \in FormasDe(N, A)
  BY DEF FormasDe
<1>4. \A v \in Campo(N, A) : [f EXCEPT !.texto = v] \in FormasDe(N, A) /\ [f EXCEPT !.marca = v] \in FormasDe(N, A)
  BY DEF FormasDe
<1>5. [f EXCEPT !.ativo = ~@] \in FormasDe(N, A)
  BY DEF FormasDe
<1>6. f.n \in 0 .. A /\ f.produto \in 0 .. N /\ f.espera \in Nat
  BY DEF FormasDe
<1>7. <<f.produto, f.n>> \in Campo(N, A)
  BY <1>6 DEF Campo
<1> QED  BY <1>2, <1>3, <1>4, <1>5, <1>6, <1>7

\* How the numbers move in a step: forms are opened, none is forgotten.
ProdAvanca == Avancam /\ aberturas' \in Nat /\ aberturas <= aberturas'

\* The numbers are numbers.
LEMMA ExistentesCrescem ==
    ASSUME TipoProd, ProdAvanca
    PROVE  /\ Existentes \in Nat /\ Existentes' \in Nat /\ Existentes <= Existentes'
           /\ aberturas \in Nat /\ aberturas' \in Nat /\ aberturas <= aberturas'
           /\ envios \in Nat /\ envios' \in Nat /\ envios <= envios'
<1>1. /\ aberturas \in Nat /\ aberturas' \in Nat /\ aberturas <= aberturas'
      /\ envios \in Nat /\ envios' \in Nat /\ envios <= envios'
  BY DEF TipoProd, ProdAvanca, Avancam
<1>2. Iniciais \in Nat
  BY ProdutosAssumption
<1>3. Existentes = Iniciais + envios /\ Existentes' = Iniciais + envios'
  BY DEF Existentes
<1>4. Existentes \in Nat /\ Existentes' \in Nat /\ Existentes <= Existentes'
  <2>1. \A x, y, z \in Nat : y <= z => x + y \in Nat /\ x + z \in Nat /\ x + y <= x + z
    OBVIOUS
  <2> QED  BY <1>1, <1>2, <1>3, <2>1
<1> QED  BY <1>1, <1>4

\* The types of the list do not shrink.
LEMMA TiposProdCrescem ==
    ASSUME TipoProd, ProdAvanca
    PROVE  /\ PaginasDe(Existentes) \subseteq PaginasDe(Existentes')
           /\ TelasDe(Existentes, envios) \subseteq TelasDe(Existentes', envios')
           /\ Campo(Existentes, aberturas) \subseteq Campo(Existentes', aberturas')
           /\ FormasDe(Existentes, aberturas) \subseteq FormasDe(Existentes', aberturas')
           /\ \A op, f : ArgumentoCerto(op, f, Existentes, aberturas)
                  => ArgumentoCerto(op, f, Existentes', aberturas')
<1> DEFINE N == Existentes
           M == Existentes'
           A == aberturas
           B == aberturas'
           D == envios
           E == envios'
<1>1. /\ N \in Nat /\ M \in Nat /\ N <= M /\ A \in Nat /\ B \in Nat /\ A <= B
      /\ D \in Nat /\ E \in Nat /\ D <= E
  BY ExistentesCrescem
<1> HIDE DEF N, M, A, B, D, E
<1>2. /\ PaginasDe(N) \subseteq PaginasDe(M)
      /\ TelasDe(N, D) \subseteq TelasDe(M, E)
      /\ Campo(N, A) \subseteq Campo(M, B)
      /\ FormasDe(N, A) \subseteq FormasDe(M, B)
      /\ \A op, f : ArgumentoCerto(op, f, N, A) => ArgumentoCerto(op, f, M, B)
  BY <1>1, ProdutosCrescem
<1> QED  BY <1>2 DEF N, M, A, B, D, E

\* The pages after a step.
LEMMA ConsultasProdSeguem ==
    ASSUME TipoProd, ProdAvanca
    PROVE  /\ UNCHANGED consultasProd => ConsultasProdCertas'
           /\ \A k \in Paginas : \A c \in Entradas(PaginasDe(Existentes), logins) :
                  consultasProd' = [consultasProd EXCEPT ![k] = c] => ConsultasProdCertas'
           /\ consultasProd' = Reler => ConsultasProdCertas'
<1> DEFINE V == PaginasDe(Existentes)
           W == PaginasDe(Existentes')
<1>1. /\ consultasProd = [k \in Paginas |-> consultasProd[k]]
      /\ \A k \in Paginas : consultasProd[k] \in Entradas(V, logins)
      /\ logins \in Nat /\ logins' \in Nat /\ logins <= logins' /\ token \in 0 .. logins
      /\ V \subseteq W
  BY TiposProdCrescem DEF TipoProd, ConsultasProdCertas, ProdAvanca, Avancam
<1>w. ConsultasProdCertas' <=> /\ consultasProd' = [k \in Paginas |-> consultasProd'[k]]
                               /\ \A k \in Paginas : consultasProd'[k] \in Entradas(W, logins')
  BY DEF ConsultasProdCertas
<1> HIDE DEF V, W
<1>2. \A c \in Entradas(V, logins) : c \in Entradas(W, logins')
  BY <1>1, EntradaTipada
<1>3. UNCHANGED consultasProd => ConsultasProdCertas'
  BY <1>1, <1>2, <1>w
<1>4. ASSUME NEW j \in Paginas, NEW c \in Entradas(V, logins),
             consultasProd' = [consultasProd EXCEPT ![j] = c]
      PROVE  ConsultasProdCertas'
  <2>1. consultasProd' = [k \in Paginas |-> IF k = j THEN c ELSE consultasProd[k]]
    BY <1>1, <1>4
  <2>2. \A k \in Paginas : consultasProd'[k] \in Entradas(W, logins')
    BY <1>1, <1>2, <2>1
  <2>3. consultasProd' = [k \in Paginas |-> consultasProd'[k]]
    BY <2>1
  <2> QED  BY <1>w, <2>2, <2>3
<1>5. ASSUME consultasProd' = Reler PROVE ConsultasProdCertas'
  <2>1. ASSUME NEW k \in Paginas PROVE consultasProd'[k] \in Entradas(W, logins')
    <3>1. \A ativa : Invalidar(consultasProd[k], ativa, token) \in Entradas(V, logins)
      BY <1>1, EntradaTipada
    <3>2. consultasProd'[k] = Invalidar(consultasProd[k], NaListagem /\ k = telaProd.page, token)
      BY <1>5 DEF Reler
    <3> QED  BY <1>2, <3>1, <3>2
  <2>2. consultasProd' = [k \in Paginas |-> consultasProd'[k]]
    BY <1>5 DEF Reler
  <2> QED  BY <1>w, <2>1, <2>2
<1> QED  BY <1>3, <1>4, <1>5 DEF V

\* The writes after a step that sends none.
LEMMA VooSegue ==
    ASSUME TipoProd, ProdAvanca, vooProd' \subseteq vooProd,
           \A m \in relendo' : m \in relendo \/ \E p \in vooProd : p.op = "marca" /\ p.arg = m
    PROVE  VooCerto'
<1>1. /\ \A p \in vooProd : p.n \in 1 .. envios /\ ArgumentoCerto(p.op, p.arg, Existentes, aberturas)
      /\ \A p, r \in vooProd : p.n = r.n => p = r
      /\ \A m \in relendo : ArgumentoCerto("marca", m, Existentes, aberturas)
  BY DEF TipoProd, VooCerto
<1>2. ASSUME NEW p \in vooProd' PROVE p.n \in 1 .. envios' /\ ArgumentoCerto(p.op, p.arg, Existentes', aberturas')
  <2>1. p.n \in 1 .. envios'
    BY <1>1, ExistentesCrescem
  <2> QED  BY <1>1, <2>1, TiposProdCrescem
<1>3. \A m \in relendo' : ArgumentoCerto("marca", m, Existentes', aberturas')
  BY <1>1, TiposProdCrescem
<1>4. \A p, r \in vooProd' : p.n = r.n => p = r
  BY <1>1
<1> QED  BY <1>2, <1>3, <1>4 DEF VooCerto

\* And after one that does.
LEMMA VooManda ==
    ASSUME TipoProd, ProdAvanca, NEW op, NEW arg, vooProd' = vooProd \cup {Pedido(op, arg)},
           envios' = envios + 1, relendo' = relendo, ArgumentoCerto(op, arg, Existentes, aberturas)
    PROVE  VooCerto'
<1>1. /\ \A p \in vooProd : p.n \in 1 .. envios /\ ArgumentoCerto(p.op, p.arg, Existentes, aberturas)
      /\ \A p, r \in vooProd : p.n = r.n => p = r
      /\ \A m \in relendo : ArgumentoCerto("marca", m, Existentes, aberturas)
  BY DEF TipoProd, VooCerto
<1> DEFINE q == Pedido(op, arg)
           n == envios + 1
<1>2. q.n = n /\ q.op = op /\ q.arg = arg
  BY DEF Pedido
<1>3. n \in 1 .. envios' /\ \A i \in 1 .. envios : i \in 1 .. envios' /\ i # n
  BY ExistentesCrescem
<1>4. vooProd' = vooProd \cup {q}
  OBVIOUS
<1> HIDE DEF q, n
<1>5. ASSUME NEW p \in vooProd' PROVE p.n \in 1 .. envios' /\ ArgumentoCerto(p.op, p.arg, Existentes', aberturas')
  <2>1. p.n \in 1 .. envios' /\ ArgumentoCerto(p.op, p.arg, Existentes, aberturas)
    BY <1>1, <1>2, <1>3, <1>4
  <2> QED  BY <2>1, TiposProdCrescem
<1>6. \A p, r \in vooProd' : p.n = r.n => p = r
  BY <1>1, <1>2, <1>3, <1>4
<1>7. \A m \in relendo' : ArgumentoCerto("marca", m, Existentes', aberturas')
  BY <1>1, TiposProdCrescem
<1> QED  BY <1>5, <1>6, <1>7 DEF VooCerto

\* The forms when one of them changes, or none does.
LEMMA FichasSeguem ==
    ASSUME TipoProd, ProdAvanca, tela' = tela
    PROVE  /\ fichas' = fichas => FichasCertas'
           /\ \A q \in Quais : \A f \in FormasDe(Existentes', aberturas') :
                  /\ fichas' = [fichas EXCEPT ![q] = f]
                  /\ f.n # 0 => tela = "estoque"
                  /\ q = "editar" /\ f.n # 0 => f.produto # 0
                  => FichasCertas' /\ fichas'[q] = f /\ \A r \in Quais \ {q} : fichas'[r] = fichas[r]
<1>1. /\ fichas \in [Quais -> FormasDe(Existentes', aberturas')]
      /\ \A q \in Quais : fichas[q].n # 0 => tela = "estoque"
      /\ fichas["editar"].n # 0 => fichas["editar"].produto # 0
  <2>1. fichas \in [Quais -> FormasDe(Existentes, aberturas)]
    BY DEF TipoProd, FichasCertas
  <2>2. fichas \in [Quais -> FormasDe(Existentes', aberturas')]
    BY <2>1, TiposProdCrescem
  <2> QED  BY <2>2 DEF TipoProd, FichasCertas
<1>2. fichas' = fichas => FichasCertas'
  BY <1>1 DEF FichasCertas
<1> DEFINE Formas1 == FormasDe(Existentes', aberturas')
<1>3. FichasCertas' <=> /\ fichas' \in [Quais -> Formas1]
                        /\ \A q \in Quais : fichas'[q].n # 0 => tela = "estoque"
                        /\ fichas'["editar"].n # 0 => fichas'["editar"].produto # 0
  BY DEF FichasCertas
<1> HIDE DEF Formas1
<1>4. ASSUME NEW q \in Quais, NEW f \in Formas1, fichas' = [fichas EXCEPT ![q] = f],
             f.n # 0 => tela = "estoque", q = "editar" /\ f.n # 0 => f.produto # 0
      PROVE  FichasCertas' /\ fichas'[q] = f /\ \A r \in Quais \ {q} : fichas'[r] = fichas[r]
  <2>1. fichas \in [Quais -> Formas1]
    BY <1>1 DEF Formas1
  <2>2. fichas'[q] = f /\ \A r \in Quais \ {q} : fichas'[r] = fichas[r]
    BY <1>4, <2>1
  <2>3. fichas' \in [Quais -> Formas1]
    BY <1>4, <2>1
  <2>4. \A r \in Quais : fichas'[r].n # 0 => tela = "estoque"
    BY <1>1, <1>4, <2>2
  <2>5. fichas'["editar"].n # 0 => fichas'["editar"].produto # 0
    BY <1>1, <1>4, <2>2 DEF Quais
  <2> QED  BY <1>3, <2>2, <2>3, <2>4, <2>5
<1> QED  BY <1>2, <1>4 DEF Formas1

\* Forms that wait for no new write keep waiting for theirs, while none is answered.
LEMMA EsperasSeguem ==
    ASSUME TipoProd, \A q \in Quais : fichas'[q].espera \in {0, fichas[q].espera},
           telaProd.suas \subseteq telaProd'.suas, vooProd \subseteq vooProd'
    PROVE  Esperas'
BY DEF TipoProd, Esperas, Esperada

\* A write is answered: the form that waited for it waits no more.
LEMMA EsperasSoltam ==
    ASSUME TipoProd, NEW p \in vooProd, \A q \in Quais : fichas'[q].espera \in {0, fichas[q].espera},
           \A q \in Quais : p.op = OpDe(q) /\ p.n = fichas[q].espera => fichas'[q].espera = 0,
           telaProd'.suas = telaProd.suas \ {p.n}, vooProd' = vooProd \ {p}
    PROVE  Esperas'
<1> SUFFICES ASSUME NEW q \in Quais, fichas'[q].espera # 0 PROVE Esperada(q)'
  BY DEF Esperas
<1>1. fichas'[q].espera = fichas[q].espera /\ Esperada(q)
  BY DEF TipoProd, Esperas
<1>2. PICK r \in vooProd : r.n = fichas[q].espera /\ r.op = OpDe(q)
  BY <1>1 DEF Esperada
<1>3. r # p
  BY <1>1, <1>2
<1>4. r.n # p.n
  BY <1>2, <1>3 DEF TipoProd, VooCerto
<1> QED  BY <1>1, <1>2, <1>3, <1>4 DEF Esperada

\* What is to be shown of the list after a step.
LEMMA ProdNovo ==
    ASSUME ativos' \subseteq 1 .. Existentes', aberturas' \in Nat, telaProd' \in TelasDe(Existentes', envios'),
           ConsultasProdCertas', FichasCertas', VooCerto', Esperas'
    PROVE  TipoProd'
BY DEF TipoProd

\* The products and the page, when a step leaves them alone.
LEMMA TelaProdSegue ==
    ASSUME TipoProd, ProdAvanca
    PROVE  /\ ativos \subseteq 1 .. Existentes' /\ telaProd \in TelasDe(Existentes', envios')
           /\ telaProd \in TelasDe(Existentes, envios') /\ aberturas' \in Nat
<1>1. 1 .. Existentes \subseteq 1 .. Existentes'
  BY ExistentesCrescem
<1>2. telaProd \in TelasDe(Existentes, envios) /\ ativos \subseteq 1 .. Existentes
  BY DEF TipoProd
<1>3. 0 .. envios \subseteq 0 .. envios' /\ 1 .. envios \subseteq 1 .. envios'
  BY ExistentesCrescem
<1>4. telaProd \in TelasDe(Existentes, envios')
  BY <1>2, <1>3 DEF TelasDe
<1> QED  BY <1>1, <1>2, <1>4, TiposProdCrescem DEF ProdAvanca

\* Nothing happens on the list.
LEMMA ProdParado ==
    ASSUME TipoProd, Avancam, UNCHANGED <<tela, prodVars>>
    PROVE  TipoProd'
<1>1. /\ tela' = tela /\ ativos' = ativos /\ telaProd' = telaProd /\ fichas' = fichas
      /\ aberturas' = aberturas /\ vooProd' = vooProd /\ relendo' = relendo
      /\ UNCHANGED consultasProd
  BY DEF prodVars
<1>2. ProdAvanca
  BY <1>1 DEF ProdAvanca, TipoProd
<1>3. ConsultasProdCertas' /\ FichasCertas' /\ VooCerto'
  BY <1>1, <1>2, ConsultasProdSeguem, FichasSeguem, VooSegue
<1>4. Esperas'
  BY <1>1, EsperasSeguem
<1> QED  BY <1>1, <1>2, <1>3, <1>4, TelaProdSegue, ProdNovo

\* What the page shows is one of the products there are.
LEMMA MostradaTipada ==
    ASSUME TipoProd
    PROVE  /\ Mostrada \in PaginasDe(Existentes) \cup {SemDado}
           /\ Mostrados \subseteq 1 .. Existentes
<1>1. telaProd.page \in Paginas /\ telaProd.antes \in PaginasDe(Existentes) \cup {SemDado}
  BY DEF TipoProd, TelasDe
<1>2. consultasProd[telaProd.page] \in Entradas(PaginasDe(Existentes), logins)
  BY <1>1 DEF TipoProd, ConsultasProdCertas
<1>3. consultasProd[telaProd.page].dado \in PaginasDe(Existentes) \cup {SemDado}
  BY <1>2 DEF Entradas
<1>4. Mostrada \in PaginasDe(Existentes) \cup {SemDado}
  BY <1>1, <1>3 DEF Mostrada
<1>5. \A p \in PaginasDe(Existentes) : p.itens \subseteq 1 .. Existentes
  BY DEF PaginasDe
<1> QED  BY <1>4, <1>5 DEF Mostrados

\* Another page is shown.
LEMMA ProdPagina ==
    ASSUME TipoProd, Avancam, UNCHANGED <<tela, logins>>, NEW k, Paginar(k)
    PROVE  TipoProd'
<1>1. /\ k \in Paginas /\ telaProd' = [telaProd EXCEPT !.page = k, !.antes = Mostrada]
      /\ ativos' = ativos /\ fichas' = fichas /\ aberturas' = aberturas /\ vooProd' = vooProd
      /\ relendo' = relendo /\ envios' = envios /\ tela' = tela
  BY DEF Paginar
<1>2. ProdAvanca
  BY <1>1 DEF ProdAvanca, TipoProd
<1>3. telaProd' \in TelasDe(Existentes', envios') /\ telaProd'.suas = telaProd.suas
  <2>1. telaProd \in TelasDe(Existentes, envios)
    BY DEF TipoProd
  <2>2. telaProd' \in TelasDe(Existentes, envios) /\ telaProd'.suas = telaProd.suas
    BY <1>1, <2>1, MostradaTipada DEF TelasDe
  <2> QED  BY <1>2, <2>2, TiposProdCrescem
<1>4. ConsultasProdCertas'
  <2>1. PICK velha \in BOOLEAN :
            consultasProd' = [consultasProd EXCEPT ![k] = Montar(consultasProd[k], token, velha)]
    BY DEF Paginar
  <2>2. consultasProd[k] \in Entradas(PaginasDe(Existentes), logins)
    BY <1>1 DEF TipoProd, ConsultasProdCertas
  <2>3. Montar(consultasProd[k], token, velha) \in Entradas(PaginasDe(Existentes), logins)
    BY <2>2, EntradaTipada DEF Avancam
  <2> QED  BY <1>1, <1>2, <2>1, <2>3, ConsultasProdSeguem
<1>5. FichasCertas' /\ VooCerto'
  BY <1>1, <1>2, FichasSeguem, VooSegue
<1>6. Esperas'
  BY <1>1, <1>3, EsperasSeguem
<1> QED  BY <1>1, <1>2, <1>3, <1>4, <1>5, <1>6, TelaProdSegue, ProdNovo

\* A form is opened, closed or typed in: the rest of the list stays.
LEMMA ProdNaFicha ==
    ASSUME TipoProd, ProdAvanca, UNCHANGED tela, NEW q \in Quais,
           NEW f \in FormasDe(Existentes', aberturas'), NaFicha([fichas EXCEPT ![q] = f]),
           f.espera \in {0, fichas[q].espera}, q = "editar" /\ f.n # 0 => f.produto # 0
    PROVE  TipoProd'
<1>1. /\ ativos' = ativos /\ telaProd' = telaProd /\ vooProd' = vooProd /\ relendo' = relendo
      /\ tela' = tela /\ tela = "estoque" /\ fichas' = [fichas EXCEPT ![q] = f]
      /\ UNCHANGED consultasProd
  BY DEF NaFicha, NaListagem
<1>2. FichasCertas' /\ fichas'[q] = f /\ \A r \in Quais \ {q} : fichas'[r] = fichas[r]
  BY <1>1, FichasSeguem
<1>3. ConsultasProdCertas' /\ VooCerto'
  BY <1>1, ConsultasProdSeguem, VooSegue
<1>4. Esperas'
  BY <1>1, <1>2, EsperasSeguem
<1> QED  BY <1>1, <1>2, <1>3, <1>4, TelaProdSegue, ProdNovo

\* The clicks on the forms, but for the writes.
LEMMA ProdFormas ==
    ASSUME TipoProd, Avancam, UNCHANGED tela,
           \/ AbrirNovo \/ \E p \in Mostrados : Editar(p)
           \/ \E q \in Quais : FecharFicha(q) \/ Preencher(q)
    PROVE  TipoProd'
<1>1. ASSUME NEW q \in Quais, NEW p \in 0 .. Existentes, Abrir(q, p), q = "editar" => p # 0
      PROVE  TipoProd'
  <2> DEFINE f == FichaNova(p)
             n == aberturas + 1
  <2>1. aberturas' = n /\ NaFicha([fichas EXCEPT ![q] = f])
    BY <1>1 DEF Abrir
  <2>2. ProdAvanca
    BY <2>1 DEF ProdAvanca, TipoProd
  <2> DEFINE N == Existentes'
             A == aberturas'
  <2>3. n \in 0 .. A /\ 0 \in 0 .. A /\ p \in 0 .. N /\ N \in Nat /\ A \in Nat
    <3>1. /\ Existentes \in Nat /\ N \in Nat /\ Existentes <= N /\ A \in Nat
          /\ aberturas \in Nat
      BY <2>2, ExistentesCrescem
    <3>2. A = aberturas + 1
      BY <2>1
    <3> HIDE DEF N, A
    <3> QED  BY <3>1, <3>2
  <2> HIDE DEF N, A, n
  <2>4. Fechada \in FormasDe(N, A)
    BY <2>3 DEF Fechada, FormasDe, Campo
  <2>5. f \in FormasDe(N, A)
    <3> DEFINE a == [Fechada EXCEPT !.n = n]
               b == [a EXCEPT !.produto = p]
               c == [b EXCEPT !.texto = <<p, 0>>]
    <3>1. f = [c EXCEPT !.marca = <<p, 0>>]
      BY DEF FichaNova, n
    <3>2. a \in FormasDe(N, A)
      BY <2>3, <2>4 DEF FormasDe
    <3> HIDE DEF a
    <3>3. b \in FormasDe(N, A)
      BY <2>3, <3>2 DEF FormasDe
    <3> HIDE DEF b
    <3>4. <<p, 0>> \in Campo(N, A)
      BY <2>3 DEF Campo
    <3>5. c \in FormasDe(N, A)
      BY <3>3, <3>4, <2>3, FormaMuda
    <3> HIDE DEF c
    <3>6. [c EXCEPT !.marca = <<p, 0>>] \in FormasDe(N, A)
      BY <3>4, <3>5, <2>3, FormaMuda
    <3> QED  BY <3>1, <3>6
  <2>6. f.espera = 0 /\ f.produto = p
    BY DEF FichaNova, Fechada
  <2> HIDE DEF f
  <2> QED  BY <1>1, <2>1, <2>2, <2>5, <2>6, ProdNaFicha DEF N, A
<1>2. CASE AbrirNovo
  <2>1. 0 \in 0 .. Existentes /\ "novo" \in Quais /\ "novo" # "editar"
    BY ProdutosAssumption DEF Existentes, Avancam, Quais
  <2> QED  BY <1>1, <1>2, <2>1 DEF AbrirNovo
<1>3. ASSUME NEW p \in Mostrados, Editar(p) PROVE TipoProd'
  <2>1. p \in 1 .. Existentes
    BY <1>3, MostradaTipada
  <2>2. p \in 0 .. Existentes /\ p # 0 /\ "editar" \in Quais
    BY <2>1 DEF Quais
  <2> QED  BY <1>1, <1>3, <2>2 DEF Editar
<1>4. ASSUME NEW q \in Quais, FecharFicha(q) \/ Preencher(q) PROVE TipoProd'
  <2>1. aberturas' = aberturas
    BY <1>4 DEF FecharFicha, Preencher
  <2>2. ProdAvanca
    BY <2>1 DEF ProdAvanca, TipoProd
  <2> DEFINE N == Existentes'
             A == aberturas'
             f == fichas[q]
  <2>3. f \in FormasDe(N, A) /\ N \in Nat /\ A \in Nat
    <3>1. f \in FormasDe(Existentes, aberturas)
      BY DEF TipoProd, FichasCertas
    <3> QED  BY <2>2, <3>1, TiposProdCrescem, ExistentesCrescem
  <2>4. q = "editar" /\ f.n # 0 => f.produto # 0
    BY DEF TipoProd, FichasCertas
  <2> HIDE DEF N, A
  <2>5. /\ Fechada \in FormasDe(N, A) /\ Fechada.n = 0 /\ Fechada.espera = 0
        /\ [f EXCEPT !.texto = <<f.produto, f.n>>] \in FormasDe(N, A)
        /\ [f EXCEPT !.marca = <<f.produto, f.n>>] \in FormasDe(N, A)
        /\ [f EXCEPT !.ativo = ~@] \in FormasDe(N, A)
    BY <2>3, FormaMuda DEF Fechada
  <2>7. PICK g \in {Fechada, [f EXCEPT !.texto = <<f.produto, f.n>>], [f EXCEPT !.marca = <<f.produto, f.n>>],
                    [f EXCEPT !.ativo = ~@]} : NaFicha([fichas EXCEPT ![q] = g])
    BY <1>4 DEF FecharFicha, Preencher
  <2>8. g \in FormasDe(N, A) /\ g.espera \in {0, f.espera} /\ (q = "editar" /\ g.n # 0 => g.produto # 0)
    <3> DEFINE t == [f EXCEPT !.texto = <<f.produto, f.n>>]
               m == [f EXCEPT !.marca = <<f.produto, f.n>>]
               a == [f EXCEPT !.ativo = ~@]
    <3>1. /\ t.espera = f.espera /\ t.n = f.n /\ t.produto = f.produto
          /\ m.espera = f.espera /\ m.n = f.n /\ m.produto = f.produto
          /\ a.espera = f.espera /\ a.n = f.n /\ a.produto = f.produto
      BY <2>3 DEF FormasDe
    <3>2. g \in {Fechada, t, m, a} /\ {t, m, a} \subseteq FormasDe(N, A)
      BY <2>5, <2>7
    <3> HIDE DEF t, m, a, f
    <3>3. Fechada \in FormasDe(N, A) /\ Fechada.n = 0 /\ Fechada.espera = 0
      BY <2>5
    <3>4. q = "editar" /\ f.n # 0 => f.produto # 0
      BY <2>4 DEF f
    <3> QED  BY <3>1, <3>2, <3>3, <3>4
  <2> QED  BY <2>2, <2>7, <2>8, ProdNaFicha DEF N, A
<1> QED  BY <1>2, <1>3, <1>4

\* The clicks that send a write.
LEMMA ProdEnvia ==
    ASSUME TipoProd, Avancam, UNCHANGED tela,
           ImportarXlsx \/ \E q \in Quais : CadastrarMarca(q) \/ Salvar(q)
    PROVE  TipoProd'
<1> DEFINE n == envios + 1
<1>1. PICK op, arg : MandarProd(op, arg)
  BY DEF ImportarXlsx, CadastrarMarca, Salvar
<1>2. /\ ativos' = ativos /\ aberturas' = aberturas /\ relendo' = relendo /\ envios' = n
      /\ vooProd \subseteq vooProd' /\ tela' = tela /\ UNCHANGED consultasProd
  BY <1>1 DEF MandarProd, Contar
<1>3. ProdAvanca
  BY <1>2 DEF ProdAvanca, TipoProd
<1>4. ConsultasProdCertas'
  BY <1>2, <1>3, ConsultasProdSeguem
<1>5. telaProd \in TelasDe(Existentes', envios')
  BY <1>3, TelaProdSegue, TiposProdCrescem DEF TipoProd
<1>6. n \in 1 .. envios' /\ n \in 0 .. envios' /\ n \in Nat
  BY <1>2, <1>3, ExistentesCrescem
<1>7. \A q \in Quais : /\ fichas[q].n \in 0 .. aberturas /\ fichas[q].produto \in 0 .. Existentes
                       /\ fichas[q] \in FormasDe(Existentes', aberturas')
  BY <1>3, TiposProdCrescem DEF TipoProd, FichasCertas, FormasDe
<1>8. CASE ImportarXlsx
  <2>1. /\ MandarProd("importar", Fechada) /\ fichas' = fichas
        /\ telaProd' = [telaProd EXCEPT !.xlsx = n]
    BY <1>8 DEF ImportarXlsx
  <2>2. ArgumentoCerto("importar", Fechada, Existentes, aberturas)
    BY DEF ArgumentoCerto
  <2>3. VooCerto'
    BY <1>2, <1>3, <2>1, <2>2, VooManda DEF MandarProd
  <2>4. FichasCertas'
    BY <1>2, <1>3, <2>1, FichasSeguem
  <2>5. telaProd' \in TelasDe(Existentes', envios') /\ telaProd'.suas = telaProd.suas
    <3> HIDE DEF n
    <3> QED  BY <1>5, <1>6, <2>1 DEF TelasDe
  <2>6. Esperas'
    BY <1>2, <2>1, <2>5, EsperasSeguem
  <2> QED  BY <1>2, <1>3, <1>4, <2>3, <2>4, <2>5, <2>6, TelaProdSegue, ProdNovo
<1>9. ASSUME NEW q \in Quais, CadastrarMarca(q) PROVE TipoProd'
  <2>1. MandarProd("marca", fichas[q]) /\ fichas' = fichas /\ telaProd' = telaProd
    BY <1>9 DEF CadastrarMarca
  <2>2. ArgumentoCerto("marca", fichas[q], Existentes, aberturas)
    BY <1>7 DEF ArgumentoCerto
  <2>3. VooCerto'
    BY <1>2, <1>3, <2>1, <2>2, VooManda DEF MandarProd
  <2>4. FichasCertas'
    BY <1>2, <1>3, <2>1, FichasSeguem
  <2>5. Esperas'
    BY <1>2, <2>1, EsperasSeguem
  <2> QED  BY <1>2, <1>3, <1>4, <1>5, <2>1, <2>3, <2>4, <2>5, TelaProdSegue, ProdNovo
<1>10. ASSUME NEW q \in Quais, Salvar(q) PROVE TipoProd'
  <2> DEFINE f == [fichas[q] EXCEPT !.espera = n]
             p == Pedido(OpDe(q), fichas[q])
  <2>1. /\ MandarProd(OpDe(q), fichas[q]) /\ fichas' = [fichas EXCEPT ![q] = f]
        /\ telaProd' = [telaProd EXCEPT !.suas = @ \cup {n}]
        /\ fichas[q].n # 0 /\ tela = "estoque"
    BY <1>10 DEF Salvar, MandarProd, NaListagem
  <2>2. ArgumentoCerto(OpDe(q), fichas[q], Existentes, aberturas)
    <3>1. q = "editar" => fichas[q].produto \in 1 .. Existentes
      BY <1>7, <2>1 DEF TipoProd, FichasCertas
    <3> QED  BY <3>1 DEF ArgumentoCerto, OpDe, Quais
  <2>3. VooCerto'
    BY <1>2, <1>3, <2>1, <2>2, VooManda DEF MandarProd
  <2>4. f \in FormasDe(Existentes', aberturas')
    <3>1. fichas[q] \in FormasDe(Existentes', aberturas')
      BY <1>7
    <3> HIDE DEF n
    <3> QED  BY <1>6, <3>1 DEF FormasDe
  <2>5. f.n = fichas[q].n /\ f.produto = fichas[q].produto /\ f.espera = n
    <3>1. fichas[q] \in FormasDe(Existentes', aberturas')
      BY <1>7
    <3> HIDE DEF n
    <3> QED  BY <3>1 DEF FormasDe
  <2> HIDE DEF f
  <2>6. FichasCertas' /\ fichas'[q] = f /\ \A r \in Quais \ {q} : fichas'[r] = fichas[r]
    <3>1. q = "editar" /\ f.n # 0 => f.produto # 0
      BY <2>5 DEF TipoProd, FichasCertas
    <3> QED  BY <1>2, <1>3, <2>1, <2>4, <3>1, FichasSeguem
  <2>7. telaProd' \in TelasDe(Existentes', envios') /\ telaProd'.suas = telaProd.suas \cup {n}
    <3> HIDE DEF n
    <3> QED  BY <1>5, <1>6, <2>1 DEF TelasDe
  <2>8. Esperas'
    <3>1. p \in vooProd' /\ p.n = n /\ p.op = OpDe(q)
      BY <2>1 DEF MandarProd, Pedido
    <3> HIDE DEF n, p
    <3>2. ASSUME NEW r \in Quais, fichas'[r].espera # 0 PROVE Esperada(r)'
      <4>1. CASE r = q
        BY <2>5, <2>6, <2>7, <3>1, <4>1 DEF Esperada
      <4>2. CASE r # q
        <5>1. fichas'[r] = fichas[r] /\ Esperada(r)
          BY <2>6, <3>2, <4>2 DEF TipoProd, Esperas
        <5> QED  BY <1>2, <2>7, <5>1 DEF Esperada
      <4> QED  BY <4>1, <4>2
    <3> QED  BY <3>2 DEF Esperas
  <2> QED  BY <1>2, <1>3, <1>4, <2>3, <2>6, <2>7, <2>8, TelaProdSegue, ProdNovo
<1> QED  BY <1>8, <1>9, <1>10

\* What the server does with a write it takes.
LEMMA AtivosTipados ==
    ASSUME TipoProd, Avancam, NEW p \in vooProd, ativos' \in EfeitosProd(p)
    PROVE  ativos' \subseteq 1 .. Existentes
<1> DEFINE I == 1 .. Existentes
<1>1. ativos \subseteq I /\ Iniciais + p.n \in I /\ 1 .. Iniciais \subseteq I
  <2>1. p.n \in 1 .. envios /\ envios \in Nat /\ Iniciais \in Nat
    BY ProdutosAssumption DEF TipoProd, VooCerto, Avancam
  <2>2. \A x, y \in Nat : \A z \in 1 .. y : x + z \in 1 .. x + y /\ 1 .. x \subseteq 1 .. x + y
    OBVIOUS
  <2>3. ativos \subseteq I
    BY DEF TipoProd
  <2> QED  BY <2>1, <2>2, <2>3 DEF Existentes
<1>2. p.op = "salvar" => p.arg.produto \in I
  BY DEF TipoProd, VooCerto, ArgumentoCerto
<1> HIDE DEF I
<1>3. ativos' \subseteq I
  BY <1>1, <1>2 DEF EfeitosProd
<1> QED  BY <1>3 DEF I

\* The answers.
LEMMA ProdResposta ==
    ASSUME TipoProd, Avancam, UNCHANGED tela, NEW p \in vooProd,
           \/ RespostaFicha(p) \/ RespostaXlsx(p) \/ RespostaMarca(p)
           \/ RecusaProd(p) \/ PerdidaProd(p) \/ SemSessaoProd(p)
    PROVE  TipoProd'
<1>1. /\ SoltarProd(p) /\ envios' = envios /\ aberturas' = aberturas /\ tela' = tela
      /\ vooProd' = vooProd \ {p}
  BY DEF RespostaFicha, RespostaXlsx, RespostaMarca, RecusaProd, PerdidaProd, SemSessaoProd, FalhaProd, SoltarProd
<1>2. ProdAvanca
  BY <1>1 DEF ProdAvanca, TipoProd
<1>3. ativos' = ativos \/ ativos' \in EfeitosProd(p)
  BY DEF RespostaFicha, RespostaXlsx, RespostaMarca, RecusaProd, PerdidaProd, SemSessaoProd, FeitoProd
<1>4. ativos' \subseteq 1 .. Existentes'
  BY <1>1, <1>2, <1>3, AtivosTipados, TelaProdSegue DEF Existentes
<1>5. ConsultasProdCertas'
  <2>1. UNCHANGED consultasProd \/ consultasProd' = Reler
    BY DEF RespostaFicha, RespostaXlsx, RespostaMarca, RecusaProd, PerdidaProd, SemSessaoProd, FalhaProd
  <2> QED  BY <1>2, <2>1, ConsultasProdSeguem
<1>6. VooCerto'
  <2>1. relendo' = relendo \/ (p.op = "marca" /\ relendo' = relendo \cup {p.arg})
    BY DEF RespostaFicha, RespostaXlsx, RespostaMarca, RecusaProd, PerdidaProd, SemSessaoProd, FalhaProd
  <2> QED  BY <1>1, <1>2, <2>1, VooSegue
<1>7. telaProd' \in TelasDe(Existentes', envios') /\ telaProd'.suas = telaProd.suas \ {p.n}
  <2>1. telaProd' = [telaProd EXCEPT !.suas = @ \ {p.n}, !.xlsx = IF @ = p.n THEN 0 ELSE @]
    BY <1>1 DEF SoltarProd
  <2>2. telaProd \in TelasDe(Existentes', envios') /\ 0 \in 0 .. envios'
    BY <1>1, <1>2, TelaProdSegue, TiposProdCrescem, ExistentesCrescem DEF TipoProd
  <2> QED  BY <2>1, <2>2 DEF TelasDe
<1>8. /\ FichasCertas' /\ \A q \in Quais : fichas'[q].espera \in {0, fichas[q].espera}
      /\ \A q \in Quais : p.op = OpDe(q) /\ p.n = fichas[q].espera => fichas'[q].espera = 0
  <2>1. CASE fichas' = fichas /\ ~(\E q \in Quais : p.op = OpDe(q) /\ p.n = fichas[q].espera)
    BY <1>1, <1>2, <2>1, FichasSeguem
  <2>2. CASE RespostaFicha(p) /\ p.n \in telaProd.suas
    <3> DEFINE q == IF p.op = "novo" THEN "novo" ELSE "editar"
    <3>1. fichas' = [fichas EXCEPT ![q] = Fechada] /\ q \in Quais /\ p.op \in {"novo", "salvar"}
      BY <2>2 DEF RespostaFicha, Quais
    <3>2. Fechada \in FormasDe(Existentes', aberturas') /\ Fechada.n = 0 /\ Fechada.espera = 0
      BY <1>2, ExistentesCrescem DEF Fechada, FormasDe, Campo
    <3>3. \A r \in Quais : p.op = OpDe(r) => r = q
      BY <3>1 DEF OpDe, Quais
    <3> HIDE DEF q
    <3>4. FichasCertas' /\ fichas'[q] = Fechada /\ \A r \in Quais \ {q} : fichas'[r] = fichas[r]
      BY <1>1, <1>2, <3>1, <3>2, FichasSeguem
    <3> QED  BY <3>2, <3>3, <3>4
  <2>3. CASE FalhaProd(p)
    <3>1. fichas' = [q \in DOMAIN fichas |-> [fichas[q] EXCEPT !.espera = IF @ = p.n THEN 0 ELSE @]]
      BY <2>3 DEF FalhaProd
    <3>2. /\ fichas \in [Quais -> FormasDe(Existentes', aberturas')]
          /\ \A q \in Quais : fichas[q].n # 0 => tela' = "estoque"
          /\ fichas["editar"].n # 0 => fichas["editar"].produto # 0
      BY <1>1, <1>2, TiposProdCrescem DEF TipoProd, FichasCertas
    <3> DEFINE G == FormasDe(Existentes', aberturas')
    <3>3. ASSUME NEW q \in Quais
          PROVE  /\ fichas'[q] \in G /\ fichas'[q].n = fichas[q].n /\ fichas'[q].produto = fichas[q].produto
                 /\ fichas'[q].espera = IF fichas[q].espera = p.n THEN 0 ELSE fichas[q].espera
      <4>1. fichas[q] \in G /\ fichas[q].espera \in Nat
        BY <3>2 DEF FormasDe
      <4>2. fichas'[q] = [fichas[q] EXCEPT !.espera = IF @ = p.n THEN 0 ELSE @]
        BY <3>1, <3>2
      <4> QED  BY <4>1, <4>2 DEF FormasDe
    <3> HIDE DEF G
    <3>4. fichas' \in [Quais -> G]
      <4>1. DOMAIN fichas = Quais
        BY <3>2
      <4>2. fichas' = [q \in Quais |-> fichas'[q]]
        BY <3>1, <4>1
      <4> QED  BY <3>3, <4>2
    <3>5. FichasCertas'
      BY <3>2, <3>3, <3>4 DEF FichasCertas, G, Quais
    <3> QED  BY <3>3, <3>5
  <2>4. ASSUME RespostaFicha(p) /\ p.n \notin telaProd.suas
        PROVE  fichas' = fichas /\ ~(\E q \in Quais : p.op = OpDe(q) /\ p.n = fichas[q].espera)
    <3>1. fichas' = fichas /\ p.n # 0
      BY <2>4, ExistentesCrescem DEF RespostaFicha, TipoProd, VooCerto
    <3> QED  BY <2>4, <3>1 DEF TipoProd, Esperas, Esperada
  <2>5. ASSUME RespostaXlsx(p) \/ RespostaMarca(p)
        PROVE  fichas' = fichas /\ ~(\E q \in Quais : p.op = OpDe(q) /\ p.n = fichas[q].espera)
    BY <2>5 DEF RespostaXlsx, RespostaMarca, OpDe
  <2> QED  BY <2>1, <2>2, <2>3, <2>4, <2>5 DEF RecusaProd, PerdidaProd, SemSessaoProd
<1>9. Esperas'
  BY <1>1, <1>7, <1>8, EsperasSoltam
<1> QED  BY <1>2, <1>4, <1>5, <1>6, <1>7, <1>8, <1>9, ProdNovo DEF ProdAvanca

\* The brand is chosen in the form that registered it.
LEMMA ProdEscolhe ==
    ASSUME TipoProd, Avancam, UNCHANGED tela, NEW m \in relendo, MarcaEscolhida(m)
    PROVE  TipoProd'
<1>1. /\ ativos' = ativos /\ telaProd' = telaProd /\ aberturas' = aberturas /\ vooProd' = vooProd
      /\ relendo' = relendo \ {m} /\ tela' = tela /\ UNCHANGED consultasProd
      /\ fichas' = [q \in DOMAIN fichas |->
                       IF fichas[q].n = m.n THEN [fichas[q] EXCEPT !.marca = <<m.produto, m.n>>] ELSE fichas[q]]
  BY DEF MarcaEscolhida, EscolherNaSua
<1>2. ProdAvanca
  BY <1>1 DEF ProdAvanca, TipoProd
<1>3. ConsultasProdCertas' /\ VooCerto'
  BY <1>1, <1>2, ConsultasProdSeguem, VooSegue
<1>4. /\ fichas \in [Quais -> FormasDe(Existentes', aberturas')]
      /\ \A q \in Quais : fichas[q].n # 0 => tela' = "estoque"
      /\ fichas["editar"].n # 0 => fichas["editar"].produto # 0
  BY <1>1, <1>2, TiposProdCrescem DEF TipoProd, FichasCertas
<1>5. <<m.produto, m.n>> \in Campo(Existentes', aberturas')
  <2>1. <<m.produto, m.n>> \in Campo(Existentes, aberturas)
    BY DEF TipoProd, VooCerto, ArgumentoCerto, Campo
  <2> QED  BY <1>2, <2>1, TiposProdCrescem
<1> DEFINE G == FormasDe(Existentes', aberturas')
           v == <<m.produto, m.n>>
<1>6. ASSUME NEW q \in Quais
      PROVE  /\ fichas'[q] \in G /\ fichas'[q].n = fichas[q].n /\ fichas'[q].produto = fichas[q].produto
             /\ fichas'[q].espera = fichas[q].espera
  <2>1. fichas[q] \in G
    BY <1>4
  <2>2. fichas'[q] = IF fichas[q].n = m.n THEN [fichas[q] EXCEPT !.marca = v] ELSE fichas[q]
    BY <1>1, <1>4
  <2>3. v \in Campo(Existentes', aberturas')
    BY <1>5
  <2> HIDE DEF v
  <2> QED  BY <2>1, <2>2, <2>3 DEF FormasDe
<1> HIDE DEF G
<1>7. fichas' \in [Quais -> G]
  <2>1. DOMAIN fichas = Quais
    BY <1>4
  <2>2. fichas' = [q \in Quais |-> fichas'[q]]
    BY <1>1, <2>1
  <2> QED  BY <1>6, <2>2
<1>8. FichasCertas'
  BY <1>4, <1>6, <1>7 DEF FichasCertas, G, Quais
<1>9. Esperas'
  BY <1>1, <1>6, EsperasSeguem
<1> QED  BY <1>1, <1>2, <1>3, <1>8, <1>9, TelaProdSegue, ProdNovo

\* The reads.
LEMMA ProdLeitura ==
    ASSUME TipoProd, Avancam, UNCHANGED tela, NEW k \in Paginas, LerProd(k) \/ ReceberProd(k) \/ DesistirProd(k)
    PROVE  TipoProd'
<1> DEFINE d == consultasProd[k]
           v == Pagina(ativos, k)
           V == PaginasDe(Existentes)
<1>1. /\ ativos' = ativos /\ telaProd' = telaProd /\ fichas' = fichas /\ aberturas' = aberturas
      /\ vooProd' = vooProd /\ relendo' = relendo /\ tela' = tela
  BY DEF LerProd, ReceberProd, DesistirProd, NaConsulta
<1>2. ProdAvanca
  BY <1>1 DEF ProdAvanca, TipoProd
<1>3. v \in V
  BY <1>2, PaginaTipada, ExistentesCrescem DEF TipoProd
<1>4. d \in Entradas(V, logins) /\ logins \in Nat
  BY DEF TipoProd, ConsultasProdCertas, Avancam
<1>5. \E c \in {Ler(d, v), Receber(d), Desistir(d)} : consultasProd' = [consultasProd EXCEPT ![k] = c]
  BY DEF LerProd, ReceberProd, DesistirProd, NaConsulta
<1> HIDE DEF d, v, V
<1>6. {Ler(d, v), Receber(d), Desistir(d)} \subseteq Entradas(V, logins)
  BY <1>3, <1>4, EntradaTipada
<1>7. ConsultasProdCertas'
  BY <1>2, <1>5, <1>6, ConsultasProdSeguem DEF V
<1>8. FichasCertas' /\ VooCerto'
  BY <1>1, <1>2, FichasSeguem, VooSegue
<1>9. Esperas'
  BY <1>1, EsperasSeguem
<1> QED  BY <1>1, <1>2, <1>7, <1>8, <1>9, TelaProdSegue, ProdNovo

\* The list is mounted or left: its forms are closed.
LEMMA ProdMonta ==
    ASSUME TipoProd, Avancam, NEW t, MontarProd(t)
    PROVE  TipoProd'
<1>1. /\ telaProd' = TelaInicial /\ fichas' = [novo |-> Fechada, editar |-> Fechada]
      /\ ativos' = ativos /\ aberturas' = aberturas /\ vooProd' = vooProd /\ relendo' = relendo
  BY DEF MontarProd
<1>2. ProdAvanca
  BY <1>1 DEF ProdAvanca, TipoProd
<1>3. 1 \in Paginas
  BY ProdutosAssumption DEF Paginas
<1>4. telaProd' \in TelasDe(Existentes', envios')
  BY <1>1, <1>2, <1>3, ExistentesCrescem DEF TelaInicial, TelasDe
<1>5. ConsultasProdCertas'
  <2>1. consultasProd[1] \in Entradas(PaginasDe(Existentes), logins)
    BY <1>3 DEF TipoProd, ConsultasProdCertas
  <2>2. \A velha : Montar(consultasProd[1], token, velha) \in Entradas(PaginasDe(Existentes), logins)
    BY <2>1, EntradaTipada DEF Avancam
  <2>3. \/ UNCHANGED consultasProd
        \/ \E velha \in BOOLEAN :
               consultasProd' = [consultasProd EXCEPT ![1] = Montar(consultasProd[1], token, velha)]
    BY DEF MontarProd
  <2> QED  BY <1>2, <1>3, <2>2, <2>3, ConsultasProdSeguem
<1>6. /\ Fechada \in FormasDe(Existentes', aberturas') /\ Fechada.n = 0 /\ Fechada.espera = 0
  BY <1>2, ExistentesCrescem DEF Fechada, FormasDe, Campo
<1>7. \A q \in Quais : fichas'[q] = Fechada
  BY <1>1 DEF Quais
<1>8. FichasCertas'
  <2>1. fichas' \in [Quais -> FormasDe(Existentes', aberturas')]
    BY <1>1, <1>6 DEF Quais
  <2> QED  BY <1>6, <1>7, <2>1 DEF FichasCertas, Quais
<1>9. VooCerto' /\ Esperas'
  BY <1>1, <1>2, <1>6, <1>7, VooSegue DEF Esperas
<1> QED  BY <1>1, <1>2, <1>4, <1>5, <1>8, <1>9, TelaProdSegue, ProdNovo

\* Every step of the list.
LEMMA TelaProdTipada ==
    ASSUME TipoProd, Avancam, [Next]_vars
    PROVE  TipoProd'
<1>1. CASE UNCHANGED <<tela, prodVars>>
  BY <1>1, ProdParado
<1>2. CASE CliqueProd /\ UNCHANGED <<tela, logins>>
  <2>1. DOMAIN fichas = Quais
    BY DEF TipoProd, FichasCertas
  <2>2. ASSUME Anterior \/ Proxima \/ Pesquisar PROVE TipoProd'
    BY <1>2, <2>2, ProdPagina DEF Anterior, Proxima, Pesquisar
  <2> QED  BY <1>2, <2>1, <2>2, ProdFormas, ProdEnvia DEF CliqueProd
<1>3. CASE RedeProd /\ UNCHANGED tela
  BY <1>3, ProdResposta, ProdEscolhe, ProdLeitura DEF RedeProd
<1>4. CASE Trocar
  BY <1>4, ProdMonta DEF Trocar
<1>5. CASE NextSessao /\ UNCHANGED telasVars
  <2>1. UNCHANGED tela
    BY <1>5 DEF NextSessao, Entrar, Entrou, NaoEntrou, Sair, Vencer, Intervalo, RespostaResumo,
                FalhaResumo, Clicar
  <2> QED  BY <1>1, <1>5, <2>1 DEF telasVars
<1> QED  BY <1>1, <1>2, <1>3, <1>4, <1>5 DEF Next, vars, sessaoVars, telasVars, Resto

-----------------------------------------------------------------------------
\* What is kept is of the type each screen states.
LEMMA TiposBastam == InvTipos => TypeOk
<1> SUFFICES ASSUME InvTipos PROVE TypeOk
  OBVIOUS
<1>1. TypeSessao
  BY DEF InvTipos, TipoSessao
<1>c. \A V : Entradas(V, logins) = Consulta(V)
  BY DEF Entradas, Consulta, Creds
<1>2. TypeTelaOS
  <2>1. formOS \in FormasOS(envios) /\ formOS.caixa \subseteq formOS.suas /\ formOS.suas \subseteq {p.n : p \in vooOS}
    BY DEF InvTipos, TipoTelaOS
  <2>2. formOS \in [tipo : {"PECA", "SERVICO"}, item : {"vazio", "pronto"}, dialogo : BOOLEAN,
                    caixa : SUBSET formOS.suas, aba : {"realizados", "lancar"},
                    suas : SUBSET {p.n : p \in vooOS}]
    BY <2>1 DEF FormasOS
  <2>3. consultasOS["os"] \in Consulta(Status)
    BY <1>c DEF InvTipos, TipoTelaOS, ValoresOS, ChavesOS
  <2>4. \A k \in {"itens", "apts"} : consultasOS[k] \in Consulta(SUBSET (1 .. envios))
    BY <1>c DEF InvTipos, TipoTelaOS, ValoresOS, ChavesOS
  <2> QED  BY <2>2, <2>3, <2>4 DEF InvTipos, TipoTelaOS, TypeTelaOS
<1>3. TypeRev
  BY <1>c DEF InvTipos, TipoRev, FormasRev, EmVoo, TypeRev
<1>4. TypeFichas
  BY <1>c DEF InvTipos, TipoFic, ConsultasFicCertas, Registros, Paineis, FichasFic, TypeFichas
<1>5. TypeProdutos
  <2> DEFINE N == Existentes
  <2>1. \A k \in Paginas : consultasProd[k] \in
            Consulta([itens : SUBSET (1 .. Iniciais + envios), paginas : 1 .. 1 + Iniciais + envios])
    <3>1. \A k \in Paginas : consultasProd[k] \in Consulta(PaginasDe(N))
      BY <1>c DEF InvTipos, TipoProd, ConsultasProdCertas
    <3>2. N = Iniciais + envios /\ 1 + N = 1 + Iniciais + envios
      BY ProdutosAssumption DEF Existentes, InvTipos, TipoSessao, TypeSessao
    <3>3. PaginasDe(N) = [itens : SUBSET (1 .. Iniciais + envios), paginas : 1 .. 1 + Iniciais + envios]
      <4> HIDE DEF N
      <4> QED  BY <3>2 DEF PaginasDe
    <3> QED  BY <3>1, <3>3
  <2>2. telaProd.page \in Paginas /\ telaProd.suas \subseteq 1 .. envios
    BY DEF InvTipos, TipoProd, TelasDe
  <2>3. DOMAIN fichas = Quais
    BY DEF InvTipos, TipoProd, FichasCertas
  <2>4. ASSUME NEW q \in Quais
        PROVE  /\ fichas[q].n \in 0 .. aberturas /\ fichas[q].texto \in Valores /\ fichas[q].marca \in Valores
               /\ fichas[q].n # 0 => tela = "estoque"
               /\ fichas[q].espera # 0 => \E p \in vooProd : p.n = fichas[q].espera
    <3>1. fichas[q] \in FormasDe(N, aberturas)
      BY DEF InvTipos, TipoProd, FichasCertas
    <3>2. fichas[q].n \in 0 .. aberturas /\ fichas[q].texto \in Valores /\ fichas[q].marca \in Valores
      BY <3>1 DEF FormasDe, Campo, Valores, Existentes
    <3> QED  BY <3>2 DEF InvTipos, TipoProd, FichasCertas, Esperas, Esperada
  <2>5. ativos \subseteq 1 .. Iniciais + envios /\ \A p \in vooProd : p.n \in 1 .. envios
    BY DEF InvTipos, TipoProd, VooCerto, Existentes
  <2> QED  BY <2>1, <2>2, <2>3, <2>4, <2>5 DEF TypeProdutos
<1> QED  BY <1>1, <1>2, <1>3, <1>4, <1>5 DEF TypeOk

\* At first nobody is logged in and nothing is asked for.
LEMMA TiposIniciais == Init => InvTipos
<1> SUFFICES ASSUME Init PROVE InvTipos
  OBVIOUS
<1>1. /\ roteiro \in Roteiros /\ roteiro.linhas \subseteq {"PENDENTE", "AUTO_VINCULADO"}
      /\ roteiro.logins \in Nat /\ roteiro.envios \in Nat
      /\ logins = 0 /\ envios = 0 /\ Iniciais \in Nat
  BY RoteirosAssumption, ProdutosAssumption DEF Init, InitSessao
<1>v. \A V : Vazia \in Entradas(V, logins)
  BY <1>1, VaziaTipada
<1>2. TipoSessao
  <2>1. /\ tela = "login" /\ destino = "login" /\ token = 0 /\ vencidas = {} /\ entrando = FALSE
        /\ resumo = [viva |-> FALSE, cred |-> 0]
    BY DEF Init, InitSessao, SemPedido
  <2>2. /\ logins \in 0 .. roteiro.logins /\ token \in 0 .. logins /\ envios \in 0 .. roteiro.envios
    BY <1>1, <2>1
  <2>3. resumo \in [viva : BOOLEAN, cred : Creds]
    BY <1>1, <2>1 DEF Creds
  <2> QED  BY <1>1, <2>1, <2>2, <2>3 DEF TipoSessao, TypeSessao, Rotas
<1>3. TipoTelaOS
  BY <1>1, <1>v DEF Init, InitOS, TipoTelaOS, FormInicial, FormasOS, Status, EDITAVEIS
<1>4. TipoRev
  BY <1>1, <1>v DEF Init, InitRev, TipoRev, FormRevInicial, FormasRev, Rascunho
<1>5. TipoFic
  <2>1. ConsultasFicCertas
    BY <1>v DEF Init, InitFichas, ConsultasFicCertas
  <2> QED  BY <1>1, <2>1 DEF Init, InitFichas, TipoFic, PainelFechado, Paineis, FichaVazia, FichasFic,
                             Registros, Fichas
<1>6. TipoProd
  <2>1. ConsultasProdCertas
    BY <1>v DEF Init, InitProdutos, ConsultasProdCertas
  <2>2. 1 \in Paginas
    BY ProdutosAssumption DEF Paginas
  <2>3. telaProd \in TelasDe(Existentes, envios)
    <3>1. telaProd = [page |-> 1, antes |-> SemDado, suas |-> {}, xlsx |-> 0] /\ 0 \in 0 .. envios
      BY <1>1 DEF Init, InitProdutos, TelaInicial
    <3> QED  BY <2>2, <3>1 DEF TelasDe
  <2>4. /\ aberturas = 0 /\ fichas = [novo |-> Fechada, editar |-> Fechada]
        /\ Fechada.n = 0 /\ Fechada.espera = 0
    BY DEF Init, InitProdutos, Fechada
  <2>5. Fechada \in FormasDe(Existentes, aberturas)
    BY <1>1, <2>4 DEF Fechada, FormasDe, Campo, Existentes
  <2>6. FichasCertas /\ Esperas
    <3>1. fichas \in [Quais -> FormasDe(Existentes, aberturas)] /\ \A q \in Quais : fichas[q] = Fechada
      BY <2>4, <2>5 DEF Quais
    <3> QED  BY <2>4, <3>1 DEF FichasCertas, Esperas, Quais
  <2> QED  BY <1>1, <2>1, <2>3, <2>4, <2>6 DEF Init, InitProdutos, TipoProd, VooCerto, Existentes
<1> QED  BY <1>2, <1>3, <1>4, <1>5, <1>6 DEF InvTipos

\* The types are inductive, with the draft of the server's invariant beside them.
LEMMA TiposPasso == InvRev /\ InvTipos /\ [Next]_vars => InvTipos'
<1> SUFFICES ASSUME InvRev, InvTipos, [Next]_vars PROVE InvTipos'
  OBVIOUS
<1>1. TipoSessao' /\ Avancam
  BY SessaoTipada DEF InvTipos
<1>2. rasc' \in Rascunho
  BY RevPasso DEF InvRev
<1> QED
  BY <1>1, <1>2, TelaOSTipada, TelaRevTipada, TelaFicTipada, TelaProdTipada DEF InvTipos

\* The application keeps its types: no number is of a session that was not opened or of
\* a write that was not sent, a page and a form wait only for writes in flight, and a
\* form holds something only while it is on its screen.
THEOREM TiposDaOficina == Spec => []TypeOk
<1>1. Init => InvRev /\ InvTipos
  BY TiposIniciais, RevInicial
<1>2. InvRev /\ InvTipos /\ [Next]_vars => (InvRev /\ InvTipos)'
  BY RevPasso, TiposPasso
<1>3. InvRev /\ InvTipos => TypeOk
  BY TiposBastam
<1> QED  BY <1>1, <1>2, <1>3, PTL DEF Spec
=============================================================================
