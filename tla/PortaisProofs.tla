--------------------------- MODULE PortaisProofs ---------------------------
(***************************************************************************)
(* Theorems about the producer's portal and the dashboard, for any number  *)
(* of sessions, pages, writes and units: the form in steps, the producer's *)
(* area, and the types of what the pages keep.                             *)
(***************************************************************************)
EXTENDS WebPortais, TLAPS

-----------------------------------------------------------------------------
(***************************************************************************)
(* The form in steps.  A step is left forwards only when it is filled in,  *)
(* and its fields change only while it is on the screen, which is when the *)
(* later ones are not reached yet.                                         *)
(***************************************************************************)
Formulario == [dados : BOOLEAN, role : {"", "PRODUTOR", "OPERADOR"}, setor : BOOLEAN, conta : BOOLEAN]

\* The steps before the one on the screen are filled in.
InvForm ==
    /\ form \in Formulario
    /\ passo \in 0 .. 2
    /\ passo # 0 => Valido(0, form)
    /\ passo = 2 => form.role = "PRODUTOR" /\ Valido(1, form)
    /\ EnviadoValido

\* A new form is one.
LEMMA FormNovo == FormVazio \in Formulario
BY DEF FormVazio, Formulario

\* The form is as it was, or a new one.
LEMMA FormSegue ==
    ASSUME InvForm, vooPainel' \subseteq vooPainel,
           UNCHANGED <<passo, form>> \/ (passo' = 0 /\ form' = FormVazio)
    PROVE  InvForm'
<1>1. EnviadoValido'
  BY DEF InvForm, EnviadoValido
<1>2. CASE UNCHANGED <<passo, form>>
  BY <1>1, <1>2 DEF InvForm
<1>3. CASE passo' = 0 /\ form' = FormVazio
  <2>1. form' \in Formulario
    BY <1>3, FormNovo
  <2> QED  BY <1>1, <1>3, <2>1 DEF InvForm
<1> QED  BY <1>2, <1>3

\* The fields of the step on the screen.
LEMMA FormEdita ==
    ASSUME InvForm,
           \/ EditarDados \/ EscolherSetor \/ EditarConta
           \/ \E r \in {"PRODUTOR", "OPERADOR"} : EscolherPerfil(r)
    PROVE  InvForm'
<1>1. UNCHANGED <<vooPainel, passo>>
  BY DEF EditarDados, EscolherSetor, EditarConta, EscolherPerfil, Editar
<1>2. EnviadoValido'
  BY <1>1 DEF InvForm, EnviadoValido
<1>3. CASE EditarDados
  <2>1. passo = 0 /\ form' = [form EXCEPT !.dados = ~@]
    BY <1>3 DEF EditarDados, Editar
  <2>2. form' \in Formulario
    BY <2>1 DEF InvForm, Formulario
  <2> QED  BY <1>1, <1>2, <2>1, <2>2 DEF InvForm
<1>4. ASSUME NEW r \in {"PRODUTOR", "OPERADOR"}, EscolherPerfil(r) PROVE InvForm'
  <2>1. passo = 1 /\ form' = [form EXCEPT !.role = r]
    BY <1>4 DEF EscolherPerfil, Editar
  <2>2. form' \in Formulario /\ form'.dados = form.dados
    BY <2>1 DEF InvForm, Formulario
  <2> QED  BY <1>1, <1>2, <2>1, <2>2 DEF InvForm, Valido
<1>5. CASE EscolherSetor
  <2>1. passo = 1 /\ form' = [form EXCEPT !.setor = ~@]
    BY <1>5 DEF EscolherSetor, Editar
  <2>2. form' \in Formulario
    BY <2>1 DEF InvForm, Formulario
  <2>3. form'.dados = form.dados
    BY <2>1 DEF InvForm, Formulario
  <2> QED  BY <1>1, <1>2, <2>1, <2>2, <2>3 DEF InvForm, Valido
<1>6. CASE EditarConta
  <2>1. passo = 2 /\ form' = [form EXCEPT !.conta = ~@]
    BY <1>6 DEF EditarConta, Editar
  <2>2. form' \in Formulario
    BY <2>1 DEF InvForm, Formulario
  <2>3. form'.dados = form.dados /\ form'.role = form.role
    BY <2>1 DEF InvForm, Formulario
  <2>4. form'.setor = form.setor
    BY <2>1 DEF InvForm, Formulario
  <2>5. Valido(0, form) /\ Valido(1, form) /\ form.role = "PRODUTOR"
    BY <2>1 DEF InvForm
  <2>6. Valido(0, form)'
    BY <2>3, <2>5 DEF Valido
  <2>7. Valido(1, form)'
    BY <2>3, <2>4, <2>5 DEF Valido
  <2> QED  BY <1>1, <1>2, <2>1, <2>2, <2>3, <2>5, <2>6, <2>7 DEF InvForm
<1> QED  BY <1>3, <1>4, <1>5, <1>6

\* "Próximo", "Anterior" and "Cadastrar", which looks at the last step alone.
LEMMA FormPassa ==
    ASSUME InvForm, Proximo \/ Anterior \/ Cadastrar
    PROVE  InvForm'
<1>1. ASSUME Proximo PROVE InvForm'
  <2>1. /\ ~UltimoPasso /\ Valido(passo, form) /\ passo' = passo + 1
        /\ UNCHANGED <<form, vooPainel>>
    BY <1>1 DEF Proximo, Passar
  <2>2. passo = 0 \/ (passo = 1 /\ form.role = "PRODUTOR")
    BY <2>1 DEF InvForm, UltimoPasso, TotalSteps
  <2>3. EnviadoValido'
    BY <2>1 DEF InvForm, EnviadoValido
  <2> QED  BY <2>1, <2>2, <2>3 DEF InvForm
<1>2. ASSUME Anterior PROVE InvForm'
  <2>1. passo # 0 /\ passo' = passo - 1 /\ UNCHANGED <<form, vooPainel>>
    BY <1>2 DEF Anterior, Passar
  <2>2. EnviadoValido'
    BY <2>1 DEF InvForm, EnviadoValido
  <2> QED  BY <2>1, <2>2 DEF InvForm
<1>3. ASSUME Cadastrar PROVE InvForm'
  <2> DEFINE p == [n |-> enviados + 1, cred |-> token, form |-> form]
  <2>1. UltimoPasso /\ Valido(passo, form) /\ vooPainel' = vooPainel \cup {p} /\ UNCHANGED <<passo, form>>
    BY <1>3 DEF Cadastrar
  <2>2. ASSUME NEW s \in 0 .. TotalSteps(form) - 1 PROVE Valido(s, form)
    <3>1. CASE passo = 1
      BY <2>1, <2>2, <3>1 DEF InvForm, UltimoPasso, TotalSteps
    <3>2. CASE passo = 2
      BY <2>1, <2>2, <3>2 DEF InvForm, UltimoPasso, TotalSteps
    <3>3. passo # 0
      BY <2>1 DEF UltimoPasso, TotalSteps
    <3> QED  BY <3>1, <3>2, <3>3 DEF InvForm
  <2>3. p.form = form
    OBVIOUS
  <2> HIDE DEF p
  <2>4. EnviadoValido'
    BY <2>1, <2>2, <2>3 DEF InvForm, EnviadoValido
  <2> QED  BY <2>1, <2>4 DEF InvForm
<1> QED  BY <1>1, <1>2, <1>3

\* The other actions keep the form or mount a new one; the portal has none.
LEMMA FormPasso == InvForm /\ [Next]_vars => InvForm'
<1> SUFFICES ASSUME InvForm, [Next]_vars PROVE InvForm'
  OBVIOUS
<1>1. CASE UNCHANGED painelVars
  BY <1>1, FormSegue DEF painelVars, formVars
<1>2. \A r, t, L : Ir(r, t, L) => passo' = 0 /\ form' = FormVazio
  BY DEF Ir
<1>3. CASE SaudePainel \/ LoginPainel \/ SairDoPainel
           \/ \E r \in {"inicio", "usuarios", "novo", "whatsapp"} : Clicar(r)
  <2>1. CASE SaudePainel
    BY <1>1, <2>1 DEF SaudePainel
  <2>2. CASE LoginPainel
    BY <1>1, <1>2, <2>2, FormSegue DEF LoginPainel
  <2>3. CASE SairDoPainel
    BY <1>2, <2>3, FormSegue DEF SairDoPainel
  <2>4. ASSUME NEW r, Clicar(r) PROVE InvForm'
    BY <1>2, <2>4, FormSegue DEF Clicar
  <2> QED  BY <1>3, <2>1, <2>2, <2>3, <2>4
<1>4. CASE RedePainel
  <2>1. ASSUME NEW p \in vooPainel, Cadastrado(p) PROVE InvForm'
    BY <1>2, <2>1, FormSegue DEF Cadastrado, formVars
  <2>2. ASSUME NEW p \in vooPainel, NaoCadastrado(p) PROVE InvForm'
    BY <2>2, FormSegue DEF NaoCadastrado
  <2>3. ASSUME RespostaOpcoes PROVE InvForm'
    BY <2>3, FormSegue DEF RespostaOpcoes, formVars
  <2>4. ASSUME SemSessaoLista PROVE InvForm'
    BY <1>2, <2>4, FormSegue DEF SemSessaoLista, NaLista, formVars
  <2>5. ASSUME Intervalo \/ \E k \in DOMAIN listas : LerLista(k) \/ ReceberLista(k) \/ DesistirLista(k)
        PROVE  InvForm'
    BY <2>5, FormSegue DEF Intervalo, LerLista, ReceberLista, DesistirLista, NaLista, formVars
  <2> QED  BY <1>4, <2>1, <2>2, <2>3, <2>4, <2>5 DEF RedePainel
<1>5. CASE CliquePainel
  BY <1>3, <1>5, FormEdita, FormPassa DEF CliquePainel
<1> QED  BY <1>1, <1>4, <1>5 DEF Next, NoPortal, NoPainel, NextPainel, vars

\* The steps are looked at one by one and can be gone back to, and the registration looks
\* at the last one only: what is sent passes every step its profile has.
THEOREM CadastroValido == Spec => []EnviadoValido
<1>1. Init => InvForm
  BY FormNovo DEF Init, InitPainel, InvForm, EnviadoValido
<1>2. InvForm => EnviadoValido
  BY DEF InvForm
<1> QED  BY <1>1, <1>2, FormPasso, PTL DEF Spec

-----------------------------------------------------------------------------
\* What a step of either application does to the check of the API, and to the session.
PassoSaude ==
    \/ UNCHANGED saudeVars
    \/ TentarNovamente
    \/ \E r \in {"ok", "unavailable"} : RespostaSaude(r)
    \/ Conferir /\ UNCHANGED tentativas

PassoConta ==
    \/ UNCHANGED contaVars
    \/ Entrar \/ Entrou \/ NaoEntrou \/ Vencer \/ Esquecer
    \/ entrando' = FALSE /\ UNCHANGED <<token, logins, vencidas>>

\* No session is opened twice: the token stays, is taken away, or is the new session's.
ContaSegue ==
    \/ logins' = logins /\ token' \in {token, 0}
    \/ logins' = logins + 1 /\ token' = logins'

LEMMA SessaoSegue == PassoConta => ContaSegue
BY DEF PassoConta, ContaSegue, contaVars, Entrar, Entrou, NaoEntrou, Vencer, Esquecer

\* Every step of the portal is one of each.
LEMMA PassosDoPortal == NextPortal => cenario' = cenario /\ PassoSaude /\ PassoConta
<1> USE DEF PassoSaude, PassoConta
<1>1. CASE UNCHANGED portaisVars
  BY <1>1 DEF portaisVars
<1>2. CASE TentarPortal
  BY <1>2 DEF TentarPortal
<1>3. CASE LoginPortal
  BY <1>3 DEF LoginPortal
<1>4. CASE SairDoPortal
  BY <1>4 DEF SairDoPortal
<1>5. CASE Disponivel
  BY <1>5 DEF Disponivel
<1>6. CASE Recarregar
  BY <1>6 DEF Recarregar
<1>7. ASSUME NEW p \in vooPortal, SemSessao(p) PROVE cenario' = cenario /\ PassoSaude /\ PassoConta
  BY <1>7 DEF SemSessao
<1>8. ASSUME Rastrear \/ Voltar \/ AbrirForm \/ CancelarForm \/ Registrar
             \/ \E u \in Unidades : EscolherUnidade(u) \/ Declarar(u) \/ Gerar(u) \/ VerRelatorio(u)
      PROVE  UNCHANGED portaisVars
  BY <1>8 DEF Rastrear, Voltar, AbrirForm, CancelarForm, Registrar, EscolherUnidade, Declarar, Gerar,
              VerRelatorio, NaArea
<1>9. ASSUME NEW p \in vooPortal,
             \/ ContaLida(p) \/ Chegou(p) \/ Gravado(p) \/ ProdutoLido(p) \/ Falhou(p)
             \/ \E k \in Partes : LerParte(p, k)
      PROVE  UNCHANGED portaisVars
  BY <1>9 DEF ContaLida, Chegou, Gravado, ProdutoLido, Falhou, LerParte
<1> QED  BY <1>1, <1>2, <1>3, <1>4, <1>5, <1>6, <1>7, <1>8, <1>9 DEF NextPortal, CliquePortal, RedePortal

\* And every step of the dashboard.
LEMMA PassosDoPainel == NextPainel => cenario' = cenario /\ PassoSaude /\ PassoConta
<1> USE DEF PassoSaude, PassoConta
<1>1. CASE UNCHANGED portaisVars
  BY <1>1 DEF portaisVars
<1>2. CASE SaudePainel
  BY <1>2 DEF SaudePainel
<1>3. CASE LoginPainel
  BY <1>3 DEF LoginPainel
<1>4. CASE SairDoPainel
  BY <1>4 DEF SairDoPainel
<1>5. CASE SemSessaoLista
  BY <1>5 DEF SemSessaoLista, NaLista
<1>6. ASSUME Intervalo \/ \E k \in DOMAIN listas : LerLista(k) \/ ReceberLista(k) \/ DesistirLista(k)
      PROVE  UNCHANGED <<cenario, saudeVars, contaVars>>
  BY <1>6 DEF Intervalo, LerLista, ReceberLista, DesistirLista, NaLista
<1>7. ASSUME \/ RespostaOpcoes \/ EditarDados \/ EscolherSetor \/ EditarConta \/ Proximo \/ Anterior \/ Cadastrar
             \/ \E r \in {"inicio", "usuarios", "novo", "whatsapp"} : Clicar(r)
             \/ \E r \in {"PRODUTOR", "OPERADOR"} : EscolherPerfil(r)
             \/ \E p \in vooPainel : Cadastrado(p) \/ NaoCadastrado(p)
      PROVE  UNCHANGED portaisVars
  BY <1>7 DEF RespostaOpcoes, EditarDados, EscolherSetor, EditarConta, EscolherPerfil, Editar, Proximo,
              Anterior, Passar, Cadastrar, Clicar, Cadastrado, NaoCadastrado
<1> QED  BY <1>1, <1>2, <1>3, <1>4, <1>5, <1>6, <1>7 DEF NextPainel, CliquePainel, RedePainel

-----------------------------------------------------------------------------
(***************************************************************************)
(* The producer's area.  A page keeps the number of the session it was     *)
(* mounted with, and what it asks for is asked for with that session, with *)
(* none, or with one opened later.  So what a session that was over asked  *)
(* for finds another page.                                                 *)
(***************************************************************************)
Area(a) == a = [n |-> a.n, sessao |-> a.sessao, conta |-> a.conta, carga |-> a.carga, dados |-> a.dados,
                form |-> a.form, cartoes |-> a.cartoes]

\* The page b is the page a, with what was loaded in it.
MesmaArea(a, b) == Area(b) /\ b.n = a.n /\ b.sessao = a.sessao /\ b.dados = a.dados

\* A request, with what the server read for it, which is of its own account.
PedidoInteiro(p) ==
    /\ p = [op |-> p.op, montagem |-> p.montagem, n |-> p.n, unidade |-> p.unidade, cred |-> p.cred,
            lidos |-> p.lidos]
    /\ p.lidos = [k \in Partes |-> p.lidos[k]]
    /\ p.montagem \in 0 .. montagens /\ p.cred \in 0 .. logins
    /\ \A k \in Partes : p.lidos[k] # SemDados =>
           p.cred # 0 /\ (k # "resumo" => \A r \in p.lidos[k] : r.conta = p.cred)

DaSessao(p) == p.montagem = area.n /\ area.n # 0 => p.cred = 0 \/ p.cred >= area.sessao

DadosDesde ==
    area.n # 0 /\ area.dados["lotes"] # SemDados =>
        \A r \in area.dados["atividades"] \cup area.dados["lotes"] : r.conta \in area.sessao .. logins

InvArea ==
    /\ montagens \in Nat /\ logins \in Nat /\ token \in {0, logins}
    /\ Area(area) /\ area.n \in 0 .. montagens /\ area.sessao \in 0 .. logins
    /\ cenario.app = "painel" => area.n = 0
    /\ \A p \in vooPortal : PedidoInteiro(p) /\ DaSessao(p)
    /\ DadosDesde

\* A new page has nothing loaded.
LEMMA AreaVazia ==
    \A n, t : /\ Area(AreaNova(n, t)) /\ AreaNova(n, t).n = n /\ AreaNova(n, t).sessao = t
              /\ AreaNova(n, t).dados["lotes"] = SemDados
BY DEF Area, AreaNova, NadaLido, Partes

\* A request that leaves has been read nothing.
LEMMA PedidoNovo ==
    ASSUME NEW op, NEW m \in 0 .. montagens, NEW n, NEW u, NEW t \in 0 .. logins
    PROVE  PedidoInteiro(Pedido(op, m, n, u, t)) /\ Pedido(op, m, n, u, t).cred = t
           /\ Pedido(op, m, n, u, t).montagem = m
BY DEF PedidoInteiro, Pedido, NadaLido

\* The same page, or none, with requests that were there or are of the session.
LEMMA AreaSegue ==
    ASSUME InvArea, cenario' = cenario, montagens' = montagens, ContaSegue,
           MesmaArea(area, area') \/ area' = SemArea,
           \A p \in vooPortal' : p \in vooPortal \/ (PedidoInteiro(p) /\ p.cred \in {0, token})
    PROVE  InvArea'
<1>1. Area(area') /\ (area'.n = 0 \/ (area'.n = area.n /\ area'.dados = area.dados))
      /\ area'.sessao \in {0, area.sessao} /\ (area'.n # 0 => area'.sessao = area.sessao)
  BY AreaVazia DEF MesmaArea, SemArea
<1>0. /\ montagens \in Nat /\ logins \in Nat /\ token \in {0, logins} /\ area.n \in 0 .. montagens
      /\ area.sessao \in 0 .. logins /\ logins' \in Nat /\ logins <= logins' /\ token' \in {0, logins'}
  BY DEF InvArea, ContaSegue
<1>2. area'.n \in 0 .. montagens' /\ area'.sessao \in 0 .. logins'
  BY <1>0, <1>1
<1>3. ASSUME NEW p \in vooPortal' PROVE PedidoInteiro(p)' /\ DaSessao(p)'
  <2>1. PedidoInteiro(p)
    BY DEF InvArea
  <2>2. p.cred \in 0 .. logins'
    BY <1>0, <2>1 DEF PedidoInteiro
  <2> DEFINE c == p.cred
             e == area.sessao
             d == area'.sessao
  <2>0. d \in {0, e} /\ e \in 0 .. logins /\ c \in 0 .. logins
    BY <1>0, <1>1, <2>1 DEF PedidoInteiro
  <2>3. ASSUME p \in vooPortal PROVE DaSessao(p)'
    <3>1. p.montagem = area.n /\ area.n # 0 => c = 0 \/ c >= e
      BY <2>3 DEF InvArea, DaSessao
    <3>2. p.montagem = area'.n /\ area'.n # 0 => c = 0 \/ c >= d
      BY <1>1, <3>1
    <3> QED  BY <3>2 DEF DaSessao
  <2>4. ASSUME p.cred \in {0, token} PROVE DaSessao(p)'
    <3>1. c = 0 \/ c >= d
      <4>1. c \in {0, logins}
        BY <1>0, <2>4
      <4> HIDE DEF c, d, e
      <4> QED  BY <1>0, <2>0, <4>1
    <3> QED  BY <3>1 DEF DaSessao
  <2> QED  BY <2>1, <2>2, <2>3, <2>4 DEF PedidoInteiro
<1>4. DadosDesde'
  <2>1. DadosDesde
    BY DEF InvArea
  <2> QED  BY <1>0, <1>1, <2>1 DEF DadosDesde
<1>5. cenario'.app = "painel" => area'.n = 0
  BY <1>1 DEF InvArea
<1> QED  BY <1>0, <1>1, <1>2, <1>3, <1>4, <1>5 DEF InvArea

\* Another page is mounted: the requests of the others do not know it.
LEMMA AreaMostra ==
    ASSUME InvArea, cenario.app # "painel", cenario' = cenario, NEW pg, NEW voo, voo \subseteq vooPortal,
           ContaSegue, Mostrar(pg, voo, token')
    PROVE  InvArea'
<1>0. /\ montagens \in Nat /\ logins' \in Nat /\ logins <= logins' /\ logins \in Nat
      /\ token' \in {0, logins'} /\ token' \in 0 .. logins'
  BY DEF InvArea, ContaSegue
<1>1. CASE pg = "inicio"
  <2>1. area' = SemArea /\ vooPortal' = voo /\ montagens' = montagens
    BY <1>1 DEF Mostrar
  <2> QED  BY <2>1, AreaSegue
<1>2. CASE pg # "inicio"
  <2> DEFINE n == montagens + 1
             novos == IF pg = "produto" THEN {Pedido("produto", n, 0, SemUnidade, token')}
                      ELSE {Pedido("conta", n, 0, SemUnidade, token'), Carga(n, 0, SemUnidade, token')}
  <2>1. montagens' = n /\ vooPortal' = voo \cup novos
    BY <1>2 DEF Mostrar
  <2>2. area' \in {SemArea, AreaNova(n, token')}
    BY <1>2 DEF Mostrar
  <2>3. 0 \in 0 .. montagens' /\ n \in 0 .. montagens' /\ n # 0 /\ montagens' \in Nat
    BY <1>0, <2>1
  <2>4. /\ Area(area') /\ area'.n \in {0, n} /\ area'.dados["lotes"] = SemDados
        /\ area'.sessao \in {0, token'}
    BY <2>2, AreaVazia DEF SemArea
  <2>5. ASSUME NEW p \in novos PROVE PedidoInteiro(p)' /\ p.cred = token'
    <3>1. PICK op : p = Pedido(op, n, 0, SemUnidade, token')
      BY DEF Carga
    <3>2. p.montagem = n /\ p.cred = token' /\ p.lidos = NadaLido
      BY <3>1 DEF Pedido
    <3>3. p = [op |-> p.op, montagem |-> p.montagem, n |-> p.n, unidade |-> p.unidade, cred |-> p.cred,
               lidos |-> p.lidos]
      BY <3>1 DEF Pedido
    <3>4. p.lidos = [k \in Partes |-> p.lidos[k]] /\ \A k \in Partes : p.lidos[k] = SemDados
      BY <3>2 DEF NadaLido
    <3> QED  BY <1>0, <2>3, <3>2, <3>3, <3>4 DEF PedidoInteiro
  <2>6. ASSUME NEW p \in vooPortal PROVE PedidoInteiro(p)' /\ p.montagem # n
    <3>1. PedidoInteiro(p)
      BY DEF InvArea
    <3> QED  BY <1>0, <2>1, <2>3, <3>1 DEF PedidoInteiro
  <2> HIDE DEF novos, n
  <2>7. ASSUME NEW p \in vooPortal' PROVE PedidoInteiro(p)' /\ DaSessao(p)'
    <3>1. CASE p \in novos
      <4>1. p.cred = token'
        BY <2>5, <3>1
      <4>2. p.cred = 0 \/ p.cred >= area'.sessao
        BY <1>0, <2>4, <4>1
      <4> QED  BY <2>5, <3>1, <4>2 DEF DaSessao
    <3>2. CASE p \in vooPortal
      BY <2>4, <2>6, <3>2 DEF DaSessao
    <3> QED  BY <2>1, <3>1, <3>2
  <2>8. DadosDesde'
    BY <2>4 DEF DadosDesde
  <2>9. area'.n \in 0 .. montagens' /\ montagens' \in Nat /\ area'.sessao \in 0 .. logins'
    BY <1>0, <2>3, <2>4
  <2> QED  BY <1>0, <2>4, <2>7, <2>8, <2>9 DEF InvArea
<1> QED  BY <1>1, <1>2

\* What a step does to a page that is not its load: the fields changed are others.
LEMMA CampoDaArea ==
    ASSUME NEW a, Area(a), NEW v
    PROVE  /\ MesmaArea(a, [a EXCEPT !.conta = v]) /\ MesmaArea(a, [a EXCEPT !.carga = v])
           /\ MesmaArea(a, [a EXCEPT !.form = v]) /\ MesmaArea(a, [a EXCEPT !.cartoes = v])
<1>1. MesmaArea(a, [a EXCEPT !.conta = v])
  BY DEF Area, MesmaArea
<1>2. MesmaArea(a, [a EXCEPT !.carga = v])
  BY DEF Area, MesmaArea
<1>3. MesmaArea(a, [a EXCEPT !.form = v])
  BY DEF Area, MesmaArea
<1>4. MesmaArea(a, [a EXCEPT !.cartoes = v])
  BY DEF Area, MesmaArea
<1> QED  BY <1>1, <1>2, <1>3, <1>4

\* Neither the cards nor the end of a wait change what was loaded.
LEMMA AreaSolta ==
    ASSUME NEW a, Area(a), NEW p
    PROVE  MesmaArea(a, Soltar(p, a)) /\ MesmaArea(a, ComCartoes(a)) /\ MesmaArea(a, a)
<1>1. MesmaArea(a, a)
  BY DEF MesmaArea
<1>2. MesmaArea(a, ComCartoes(a))
  BY CampoDaArea DEF ComCartoes
<1>3. CASE p.n = 0
  BY <1>1, <1>2, <1>3 DEF Soltar
<1>4. CASE p.n # 0
  <2> DEFINE f == IF a.form.enviado = p.n THEN 0 ELSE a.form.enviado
             b == [a EXCEPT !.form.enviado = f]
             c == [u \in Unidades |-> IF a.cartoes[u].gerando = p.n
                                      THEN [a.cartoes[u] EXCEPT !.gerando = 0] ELSE a.cartoes[u]]
  <2>1. MesmaArea(a, b) /\ b.cartoes = a.cartoes
    BY DEF Area, MesmaArea
  <2>2. Soltar(p, a) = [b EXCEPT !.cartoes = c]
    BY <1>4 DEF Soltar
  <2> HIDE DEF b, c
  <2>3. MesmaArea(b, [b EXCEPT !.cartoes = c])
    BY <2>1, CampoDaArea DEF MesmaArea
  <2> QED  BY <1>1, <1>2, <2>1, <2>2, <2>3 DEF MesmaArea
<1> QED  BY <1>3, <1>4

\* A click in the area: its fields, and at most one request, of the session.
LEMMA AreaClique ==
    ASSUME InvArea,
           \/ AbrirForm \/ CancelarForm \/ Registrar
           \/ \E u \in Unidades : EscolherUnidade(u) \/ Declarar(u) \/ Gerar(u)
    PROVE  InvArea'
<1>1. Area(area) /\ area.n \in 0 .. montagens /\ token \in 0 .. logins
  BY DEF InvArea
<1>2. UNCHANGED <<cenario, montagens>> /\ ContaSegue
  BY DEF AbrirForm, CancelarForm, Registrar, EscolherUnidade, Declarar, Gerar, NaArea, portaisVars, contaVars,
         ContaSegue
<1>3. MesmaArea(area, area')
  <2>1. ASSUME AbrirForm \/ CancelarForm PROVE MesmaArea(area, area')
    <3>1. PICK v : area' = [area EXCEPT !.form = v]
      BY <2>1 DEF AbrirForm, CancelarForm, NaArea
    <3> QED  BY <1>1, <3>1, CampoDaArea
  <2>2. ASSUME NEW u \in Unidades, EscolherUnidade(u) PROVE MesmaArea(area, area')
    BY <1>1, <2>2 DEF EscolherUnidade, NaArea, Area, MesmaArea
  <2>3. ASSUME Registrar PROVE MesmaArea(area, area')
    BY <1>1, <2>3 DEF Registrar, NaArea, Area, MesmaArea
  <2>4. ASSUME NEW u \in Unidades, Declarar(u) PROVE MesmaArea(area, area')
    BY <1>1, <2>4 DEF Declarar, NaArea, Area, MesmaArea
  <2>5. ASSUME NEW u \in Unidades, Gerar(u) PROVE MesmaArea(area, area')
    BY <1>1, <2>5 DEF Gerar, NaArea, Area, MesmaArea
  <2> QED  BY <2>1, <2>2, <2>3, <2>4, <2>5
<1>4. ASSUME NEW p \in vooPortal' PROVE p \in vooPortal \/ (PedidoInteiro(p) /\ p.cred = token)
  <2>1. \/ vooPortal' = vooPortal
        \/ \E op, v : vooPortal' = vooPortal \cup {Pedido(op, area.n, posts + 1, v, token)}
    BY DEF AbrirForm, CancelarForm, Registrar, EscolherUnidade, Declarar, Gerar, Mandar
  <2> QED  BY <1>1, <1>4, <2>1, PedidoNovo
<1> QED  BY <1>2, <1>3, <1>4, AreaSegue

\* The answers: only a load brings something into the page that sent it.
LEMMA AreaResposta ==
    ASSUME InvArea, NEW p \in vooPortal,
           \/ ContaLida(p) \/ Chegou(p) \/ Gravado(p) \/ ProdutoLido(p) \/ Falhou(p) \/ SemSessao(p)
           \/ \E k \in Partes : LerParte(p, k)
    PROVE  InvArea'
<1>0. Area(area) /\ MesmaArea(area, area) /\ PedidoInteiro(p) /\ DaSessao(p)
  BY DEF InvArea, MesmaArea
<1>1. UNCHANGED <<cenario, montagens>> /\ ContaSegue
  BY DEF ContaLida, Chegou, Gravado, ProdutoLido, Falhou, SemSessao, LerParte, portaisVars, contaVars, Esquecer,
         ContaSegue
<1>2. MesmaArea(area, AposErro(p))
  BY <1>0, AreaSolta, CampoDaArea DEF AposErro
<1>3. CASE Falhou(p) \/ SemSessao(p)
  <2>1. area' = AposErro(p) /\ vooPortal' = vooPortal \ {p}
    BY <1>3 DEF Falhou, SemSessao
  <2> QED  BY <1>1, <1>2, <2>1, AreaSegue
<1>4. CASE ProdutoLido(p)
  <2>1. area' = area /\ vooPortal' = vooPortal \ {p}
    BY <1>4 DEF ProdutoLido
  <2> QED  BY <1>0, <1>1, <2>1, AreaSegue
<1>5. CASE ContaLida(p)
  <2> DEFINE b == [area EXCEPT !.conta = "lida"]
  <2>1. vooPortal' = vooPortal \ {p} /\ area' \in {area, ComCartoes(b)}
    BY <1>5 DEF ContaLida
  <2>2. MesmaArea(area, b)
    BY <1>0, CampoDaArea
  <2>3. MesmaArea(area, ComCartoes(b))
    <3> HIDE DEF b
    <3> QED  BY <2>2, AreaSolta DEF MesmaArea
  <2> QED  BY <1>0, <1>1, <2>1, <2>3, AreaSegue
<1>6. CASE Gravado(p)
  <2>1. token' = token /\ vooPortal' = (vooPortal \ {p}) \cup {Carga(p.montagem, p.n, p.unidade, token)}
    BY <1>6 DEF Gravado, Feito, portaisVars, contaVars
  <2>2. PedidoInteiro(Carga(p.montagem, p.n, p.unidade, token))
        /\ Carga(p.montagem, p.n, p.unidade, token).cred = token
    <3>1. token \in 0 .. logins
      BY DEF InvArea
    <3>2. p.montagem \in 0 .. montagens
      BY <1>0 DEF PedidoInteiro
    <3> QED  BY <3>1, <3>2, PedidoNovo DEF Carga
  <2>3. area' \in {area, ComNovo(p)}
    BY <1>6 DEF Gravado
  <2>4. MesmaArea(area, ComNovo(p))
    <3>1. \/ ComNovo(p) = area
          \/ ComNovo(p) = [area EXCEPT !.form = FormFechado]
          \/ \E v : ComNovo(p) = [area EXCEPT !.cartoes[p.unidade] = v]
      BY DEF ComNovo
    <3>2. \A v : MesmaArea(area, [area EXCEPT !.cartoes[p.unidade] = v])
      BY <1>0 DEF Area, MesmaArea
    <3>3. MesmaArea(area, [area EXCEPT !.form = FormFechado])
      BY <1>0, CampoDaArea
    <3> QED  BY <1>0, <3>1, <3>2, <3>3
  <2> QED  BY <1>0, <1>1, <2>1, <2>2, <2>3, <2>4, AreaSegue
<1>7. ASSUME NEW k \in Partes, LerParte(p, k) PROVE InvArea'
  <2> DEFINE l == LidoPor(k, p.cred)
             q == [p EXCEPT !.lidos[k] = l]
  <2>1. /\ vooPortal' = (vooPortal \ {p}) \cup {q} /\ p.cred # 0
        /\ UNCHANGED <<cenario, montagens, area, token, logins>>
    BY <1>7 DEF LerParte, Autorizado, portaisVars, contaVars
  <2>2. k # "resumo" => \A r \in l : r.conta = p.cred
    BY DEF LidoPor
  <2> HIDE DEF l
  <2>3. /\ q = [op |-> q.op, montagem |-> q.montagem, n |-> q.n, unidade |-> q.unidade, cred |-> q.cred,
                lidos |-> q.lidos]
        /\ q.cred = p.cred /\ q.montagem = p.montagem
        /\ q.lidos = [j \in Partes |-> IF j = k THEN l ELSE p.lidos[j]]
    BY <1>0 DEF PedidoInteiro
  <2> HIDE DEF q
  <2>4. q.lidos = [j \in Partes |-> q.lidos[j]] /\ \A j \in Partes : q.lidos[j] = IF j = k THEN l ELSE p.lidos[j]
    BY <2>3
  <2>5. PedidoInteiro(q) /\ DaSessao(q)
    BY <1>0, <2>1, <2>2, <2>3, <2>4 DEF PedidoInteiro, DaSessao
  <2>6. \A v \in vooPortal' : PedidoInteiro(v)' /\ DaSessao(v)'
    BY <2>1, <2>5 DEF InvArea, PedidoInteiro, DaSessao
  <2> QED  BY <2>1, <2>6 DEF InvArea, DadosDesde
<1>8. CASE Chegou(p)
  <2> DEFINE b == [area EXCEPT !.dados = p.lidos, !.carga = IF p.n = 0 THEN "lida" ELSE @]
  <2>1. vooPortal' = vooPortal \ {p} /\ token' = token /\ logins' = logins
    BY <1>8 DEF Chegou, portaisVars, contaVars
  <2>2. CASE ~DaArea(p)
    <3>1. area' = area
      BY <1>8, <2>2 DEF Chegou
    <3> QED  BY <1>0, <1>1, <2>1, <3>1, AreaSegue
  <2>3. CASE DaArea(p)
    <3>1. area' = Soltar(p, ComCartoes(b))
      BY <1>8, <2>3 DEF Chegou
    <3>2. Area(b) /\ b.n = area.n /\ b.sessao = area.sessao /\ b.dados = p.lidos
      <4> DEFINE c == [area EXCEPT !.dados = p.lidos]
      <4>1. Area(c) /\ c.n = area.n /\ c.sessao = area.sessao /\ c.dados = p.lidos /\ c.carga = area.carga
        BY <1>0 DEF Area
      <4>2. PICK v : b = [c EXCEPT !.carga = v]
        OBVIOUS
      <4> HIDE DEF b, c
      <4>3. MesmaArea(c, b)
        BY <4>1, <4>2, CampoDaArea
      <4> QED  BY <4>1, <4>3 DEF MesmaArea
    <3> HIDE DEF b
    <3>3. MesmaArea(b, area')
      BY <3>1, <3>2, AreaSolta DEF MesmaArea
    <3>4. \A v \in vooPortal' : PedidoInteiro(v)' /\ DaSessao(v)'
      BY <1>1, <2>1, <3>2, <3>3 DEF InvArea, PedidoInteiro, DaSessao, MesmaArea
    <3>5. DadosDesde'
      <4>1. area'.dados = p.lidos /\ area'.n = area.n /\ area'.sessao = area.sessao
        BY <3>2, <3>3 DEF MesmaArea
      <4>2. /\ p.lidos["atividades"] # SemDados /\ p.lidos["lotes"] # SemDados
            /\ "atividades" \in Partes /\ "lotes" \in Partes
        BY <1>8 DEF Chegou, Partes
      <4>3. p.cred # 0 /\ \A r \in p.lidos["atividades"] \cup p.lidos["lotes"] : r.conta = p.cred
        BY <1>0, <4>2 DEF PedidoInteiro
      <4>4. area.n # 0 => p.cred \in area.sessao .. logins
        <5>1. p.cred \in 0 .. logins /\ area.sessao \in 0 .. logins /\ logins \in Nat
          BY <1>0 DEF InvArea, PedidoInteiro
        <5> QED  BY <1>0, <2>3, <4>3, <5>1 DEF DaSessao, DaArea
      <4> QED  BY <2>1, <4>1, <4>3, <4>4 DEF DadosDesde
    <3> QED  BY <1>1, <2>1, <3>2, <3>3, <3>4, <3>5 DEF InvArea, MesmaArea
  <2> QED  BY <2>2, <2>3
<1> QED  BY <1>3, <1>4, <1>5, <1>6, <1>7, <1>8

\* The portal's steps that show another page, or leave the one there is.
LEMMA AreaPaginas ==
    ASSUME InvArea, cenario.app # "painel",
           \/ TentarPortal \/ Rastrear \/ Voltar \/ LoginPortal \/ SairDoPortal
           \/ \E u \in Unidades : VerRelatorio(u)
           \/ Disponivel \/ Recarregar
    PROVE  InvArea'
<1>1. cenario' = cenario
  BY DEF TentarPortal, Rastrear, Voltar, LoginPortal, SairDoPortal, VerRelatorio, Disponivel, Recarregar,
         portaisVars
<1>0. ContaSegue
  <2>1. ASSUME TentarPortal \/ Rastrear \/ Voltar \/ Disponivel PROVE ContaSegue
    BY <2>1 DEF TentarPortal, Rastrear, Voltar, Disponivel, portaisVars, contaVars, ContaSegue
  <2>2. LoginPortal => PassoConta
    BY DEF LoginPortal, PassoConta
  <2>3. SairDoPortal \/ Recarregar => PassoConta
    BY DEF SairDoPortal, Recarregar, PassoConta
  <2>4. ASSUME NEW u \in Unidades, VerRelatorio(u) PROVE ContaSegue
    BY <2>4 DEF VerRelatorio, portaisVars, contaVars, ContaSegue
  <2> QED  BY <2>1, <2>2, <2>3, <2>4, SessaoSegue
<1>2. CASE UNCHANGED <<montagens, area, vooPortal>>
  <2>1. MesmaArea(area, area')
    BY <1>2 DEF InvArea, MesmaArea
  <2> QED  BY <1>0, <1>1, <1>2, <2>1, AreaSegue
<1>3. ASSUME NEW pg, IrPara(pg, token') PROVE InvArea'
  BY <1>0, <1>1, <1>3, AreaMostra DEF IrPara
<1>4. ASSUME TentarPortal \/ Rastrear \/ Voltar PROVE \E pg : IrPara(pg, token')
  <2>1. token' = token
    BY <1>4 DEF TentarPortal, Rastrear, Voltar, portaisVars, contaVars
  <2> QED  BY <1>4, <2>1 DEF TentarPortal, Rastrear, Voltar
<1>5. ASSUME SairDoPortal PROVE IrPara("inicio", token')
  BY <1>5 DEF SairDoPortal, Esquecer
<1>6. ASSUME LoginPortal PROVE InvArea'
  <2>1. CASE ParaArea
    BY <1>2, <1>3, <2>1 DEF ParaArea, portalVars
  <2>2. CASE UNCHANGED portalVars
    BY <1>2, <2>2 DEF portalVars
  <2> QED  BY <1>6, <2>1, <2>2 DEF LoginPortal
<1>7. ASSUME NEW u \in Unidades, VerRelatorio(u) PROVE InvArea'
  BY <1>2, <1>7 DEF VerRelatorio, portaisVars, contaVars
<1>8. ASSUME Disponivel PROVE InvArea'
  <2>2. CASE UNCHANGED portalVars
    BY <1>2, <2>2 DEF portalVars
  <2>3. CASE Desmontar
    <3>1. area' = SemArea /\ UNCHANGED <<montagens, vooPortal>>
      BY <2>3 DEF Desmontar
    <3> QED  BY <1>0, <1>1, <3>1, AreaSegue
  <2> QED  BY <1>8, <2>2, <2>3 DEF Disponivel
<1>9. ASSUME Recarregar PROVE InvArea'
  <2>1. Mostrar(recarga, {}, token')
    BY <1>9 DEF Recarregar
  <2> QED  BY <1>0, <1>1, <2>1, AreaMostra
<1> QED  BY <1>3, <1>4, <1>5, <1>6, <1>7, <1>8, <1>9

\* The invariant is inductive.
LEMMA AreaPasso == InvArea /\ [Next]_vars => InvArea'
<1> SUFFICES ASSUME InvArea, [Next]_vars PROVE InvArea'
  OBVIOUS
<1>1. CASE NoPortal(NextPortal)
  <2>1. cenario.app # "painel" /\ NextPortal
    BY <1>1 DEF NoPortal
  <2>2. CASE CliquePortal
    BY <2>1, <2>2, AreaPaginas, AreaClique DEF CliquePortal
  <2>3. CASE RedePortal
    BY <2>1, <2>3, AreaPaginas, AreaResposta DEF RedePortal
  <2>4. CASE Recarregar
    BY <2>1, <2>4, AreaPaginas
  <2> QED  BY <2>1, <2>2, <2>3, <2>4 DEF NextPortal
<1>2. CASE NoPainel(NextPainel)
  <2>1. cenario' = cenario /\ ContaSegue /\ UNCHANGED <<area, montagens, vooPortal>>
    BY <1>2, PassosDoPainel, SessaoSegue DEF NoPainel, portalVars
  <2>2. MesmaArea(area, area')
    BY <2>1 DEF InvArea, MesmaArea
  <2> QED  BY <2>1, <2>2, AreaSegue
<1>3. CASE UNCHANGED vars
  <2>1. cenario' = cenario /\ ContaSegue /\ UNCHANGED <<area, montagens, vooPortal>>
    BY <1>3 DEF vars, portaisVars, contaVars, portalVars, ContaSegue
  <2>2. MesmaArea(area, area')
    BY <2>1 DEF InvArea, MesmaArea
  <2> QED  BY <2>1, <2>2, AreaSegue
<1> QED  BY <1>1, <1>2, <1>3 DEF Next

\* However many accounts log in, one after the other, in one tab, and whichever of their
\* requests are late: the area shows nothing of a session that was over when it was
\* mounted, and only what is of the open session when it was mounted with that one.
THEOREM SoDadosDaSessao == Spec => []DadosDaSessao
<1>1. Init => InvArea
  <2> SUFFICES ASSUME Init PROVE InvArea
    OBVIOUS
  <2>1. area = SemArea /\ montagens = 0 /\ vooPortal = {} /\ token = 0 /\ logins = 0
    BY DEF Init, InitPortal, InitPortais
  <2>2. Area(area) /\ area.n = 0 /\ area.sessao = 0
    BY <2>1, AreaVazia DEF SemArea
  <2> QED  BY <2>1, <2>2 DEF InvArea, DadosDesde
<1>2. InvArea => DadosDaSessao
  <2> SUFFICES ASSUME InvArea PROVE DadosDaSessao
    OBVIOUS
  <2>1. logins \in Nat /\ token \in {0, logins} /\ area.sessao \in 0 .. logins /\ DadosDesde
    BY DEF InvArea
  <2> QED  BY <2>1 DEF DadosDesde, DadosDaSessao
<1> QED  BY <1>1, <1>2, AreaPasso, PTL DEF Spec

-----------------------------------------------------------------------------
(***************************************************************************)
(* Types.  What a page keeps is tied to the requests of that page: there   *)
(* is one account and one first load for each, and a button waits for a    *)
(* write of its own page that is still under way.                          *)
(***************************************************************************)

\* What both applications share, with the bounds of the instance: a login under way is
\* one of those there may still be.
TipoConta == cenario \in Cenarios /\ TypeConta /\ (entrando => logins < cenario.logins)

LEMMA ContaTipada ==
    ASSUME TipoConta, [Next]_vars
    PROVE  /\ TipoConta' /\ cenario' = cenario
           /\ logins \in Nat /\ logins' \in Nat /\ logins <= logins'
           /\ token \in 0 .. logins /\ token' \in 0 .. logins'
<1>1. cenario' = cenario /\ PassoSaude /\ PassoConta
  BY PassosDoPortal, PassosDoPainel DEF Next, NoPortal, NoPainel, vars, portaisVars, PassoSaude, PassoConta
<1>2. cenario.tentativas \in Nat /\ cenario.logins \in Nat
  BY PortaisAssumption DEF TipoConta
<1>3. /\ saude' \in {"checking", "ok", "unavailable"} /\ conferindo' = (saude' = "checking")
      /\ tentativas' \in 0 .. cenario.tentativas
  <2>1. /\ saude \in {"checking", "ok", "unavailable"} /\ conferindo = (saude = "checking")
        /\ tentativas \in 0 .. cenario.tentativas
    BY DEF TipoConta, TypeConta
  <2>2. CASE UNCHANGED saudeVars
    BY <2>1, <2>2 DEF saudeVars
  <2>3. CASE TentarNovamente
    <3>1. tentativas' \in 0 .. cenario.tentativas
      BY <1>2, <2>1, <2>3 DEF TentarNovamente
    <3>2. saude' = "checking" /\ conferindo' = TRUE
      BY <2>3 DEF TentarNovamente, Conferir
    <3> QED  BY <3>1, <3>2
  <2>4. ASSUME NEW r \in {"ok", "unavailable"}, RespostaSaude(r)
        PROVE  saude' = r /\ conferindo' = FALSE /\ tentativas' = tentativas
    BY <2>4 DEF RespostaSaude
  <2>5. CASE Conferir /\ UNCHANGED tentativas
    BY <2>1, <2>5 DEF Conferir
  <2> QED  BY <1>1, <2>1, <2>2, <2>3, <2>4, <2>5 DEF PassoSaude
<1>4. /\ logins \in Nat /\ logins' \in Nat /\ logins <= logins' /\ logins' \in 0 .. cenario.logins
      /\ token \in 0 .. logins /\ token' \in 0 .. logins'
      /\ vencidas' \subseteq 1 .. logins' /\ entrando' \in BOOLEAN
      /\ entrando' => logins' < cenario.logins
  <2>1. /\ logins \in Nat /\ logins <= cenario.logins /\ token \in 0 .. logins
        /\ vencidas \subseteq 1 .. logins /\ entrando \in BOOLEAN /\ (entrando => logins < cenario.logins)
    BY <1>2 DEF TipoConta, TypeConta
  <2>2. CASE UNCHANGED <<token, logins, vencidas>> /\ (entrando' = entrando \/ entrando' = FALSE)
    <3>1. entrando' \in BOOLEAN /\ (entrando' => entrando)
      <4>1. entrando \in BOOLEAN
        BY <2>1
      <4>2. CASE entrando' = entrando
        BY <4>1, <4>2
      <4>3. CASE entrando' = FALSE
        BY <4>3
      <4> QED  BY <2>2, <4>2, <4>3
    <3>2. entrando' => logins < cenario.logins
      BY <2>1, <3>1
    <3> QED  BY <1>2, <2>1, <2>2, <3>1, <3>2
  <2>3. CASE Entrar
    BY <1>2, <2>1, <2>3 DEF Entrar
  <2>7. NaoEntrou \/ UNCHANGED contaVars => UNCHANGED <<token, logins, vencidas>> /\ (entrando' = entrando \/ entrando' = FALSE)
    BY DEF NaoEntrou, contaVars
  <2>4. CASE Esquecer
    BY <1>2, <2>1, <2>4 DEF Esquecer
  <2>5. CASE Vencer
    BY <1>2, <2>1, <2>5 DEF Vencer
  <2>6. CASE Entrou
    <3>1. entrando /\ entrando' = FALSE /\ logins' = logins + 1 /\ token' = logins + 1 /\ vencidas' = vencidas
      BY <2>6 DEF Entrou
    <3>2. logins < cenario.logins
      BY <2>1, <3>1
    <3>3. entrando' \in BOOLEAN /\ ~entrando'
      BY <3>1
    <3> QED  BY <1>2, <2>1, <3>1, <3>2, <3>3
  <2> QED  BY <1>1, <2>2, <2>3, <2>4, <2>5, <2>6, <2>7 DEF PassoConta
<1> QED  BY <1>1, <1>3, <1>4 DEF TipoConta, TypeConta

\* Cards and forms that wait for one of the first n writes.
Cartao(n) == [declarado : BOOLEAN, gerando : 0 .. n, novo : 0 .. n]

FormDe(n) == [aberto : BOOLEAN, unidade : Unidades \cup {SemUnidade}, enviado : 0 .. n]

\* A card that is not on the screen has no state.
CamposCertos(a, n) ==
    /\ Area(a)
    /\ a.form \in FormDe(n)
    /\ a.cartoes \in [Unidades -> Cartao(n)]
    /\ \A u \in Unidades : u \notin Ativas(a) => a.cartoes[u] = CartaoVazio

\* The requests a page is mounted with; n is the write of the others.
Inicial(p) == p.op = "conta" \/ (p.op = "carga" /\ p.n = 0)

Pendente(p) == IF p.op = "conta" THEN area.conta = "pedida" ELSE area.carga = "pedida"

PedidoCerto(p) ==
    /\ p.op \in {"conta", "carga", "atividade", "lote", "produto"}
    /\ p.cred \in 0 .. logins /\ p.n \in 0 .. posts
    /\ p.op \in {"conta", "produto"} => p.n = 0
    /\ p.op \in {"atividade", "lote"} => p.n # 0 /\ p.unidade \in Unidades

\* There is one account and one first load for each page, which has not got them yet.
PedidosCertos ==
    /\ \A p \in vooPortal : PedidoCerto(p)
    /\ \A p, q \in vooPortal : Inicial(p) /\ Inicial(q) /\ p.op = q.op /\ p.montagem = q.montagem => p = q
    /\ \A p \in vooPortal : Inicial(p) /\ p.montagem = area.n => Pendente(p)

CartoesEsperam ==
    \A u \in Unidades : area.cartoes[u].gerando # 0 =>
        \E p \in vooPortal : p.montagem = area.n /\ p.n = area.cartoes[u].gerando

AcervoCerto ==
    /\ acervo = [atividades |-> acervo.atividades, lotes |-> acervo.lotes, abertas |-> acervo.abertas]
    /\ acervo.atividades \subseteq Registro /\ acervo.lotes \subseteq Registro
    /\ acervo.abertas \subseteq {<<a.conta, a.unidade>> : a \in acervo.atividades}

Recargas == {"", "inicio", "produto"}

TipoPortal ==
    /\ pagina \in {"inicio", "area", "produto"} /\ recarga \in Recargas
    /\ montagens \in 0 .. cenario.montagens /\ posts \in 0 .. cenario.envios
    /\ produto = [n |-> produto.n, estado |-> produto.estado]
    /\ produto.n \in 0 .. montagens /\ area.n \in 0 .. montagens
    /\ area.n # 0 => produto.n = 0 /\ pagina = "area"
    /\ CamposCertos(area, posts) /\ CartoesEsperam
    /\ PedidosCertos /\ AcervoCerto

\* What a step does to the session and to the number of writes.
Avancam ==
    /\ cenario' = cenario /\ cenario \in Cenarios
    /\ logins \in Nat /\ logins' \in Nat /\ logins <= logins'
    /\ token \in 0 .. logins /\ token' \in 0 .. logins'

\* The bounds of an instance are numbers.
LEMMA LimitesNaturais ==
    ASSUME cenario \in Cenarios
    PROVE  /\ cenario.montagens \in Nat /\ cenario.envios \in Nat
           /\ cenario.unidades \subseteq Unidades
BY PortaisAssumption, PortalAssumption

\* What waits for one of the first writes waits for one of more.
LEMMA CamposCrescem ==
    ASSUME NEW m \in Nat, NEW n \in Nat, m <= n, NEW a, CamposCertos(a, m)
    PROVE  CamposCertos(a, n)
<1>1. 0 .. m \subseteq 0 .. n
  OBVIOUS
<1>2. Cartao(m) \subseteq Cartao(n) /\ FormDe(m) \subseteq FormDe(n)
  BY <1>1 DEF Cartao, FormDe
<1>3. a.cartoes \in [Unidades -> Cartao(n)]
  BY <1>2 DEF CamposCertos
<1> QED  BY <1>2, <1>3 DEF CamposCertos

\* A page as it is mounted.
LEMMA AreaNovaCerta ==
    ASSUME NEW n, NEW t, NEW m \in Nat
    PROVE  /\ CamposCertos(AreaNova(n, t), m) /\ AreaNova(n, t).n = n
           /\ AreaNova(n, t).conta = "pedida" /\ AreaNova(n, t).carga = "pedida"
           /\ \A u \in Unidades : AreaNova(n, t).cartoes[u].gerando = 0
<1>1. CartaoVazio \in Cartao(m) /\ FormFechado \in FormDe(m) /\ CartaoVazio.gerando = 0
  BY DEF CartaoVazio, Cartao, FormFechado, FormDe
<1>2. /\ AreaNova(n, t).cartoes = [u \in Unidades |-> CartaoVazio] /\ AreaNova(n, t).form = FormFechado
      /\ AreaNova(n, t).n = n /\ AreaNova(n, t).conta = "pedida" /\ AreaNova(n, t).carga = "pedida"
  BY DEF AreaNova
<1> QED  BY <1>1, <1>2, AreaVazia DEF CamposCertos

\* The fields of the cards do not say which cards there are.
LEMMA CartoesMudam ==
    ASSUME NEW a, NEW n, Area(a), a.form \in FormDe(n), NEW c \in [Unidades -> Cartao(n)],
           \A u \in Unidades : u \notin Ativas(a) => c[u] = CartaoVazio
    PROVE  LET b == [a EXCEPT !.cartoes = c] IN
           /\ CamposCertos(b, n) /\ b.n = a.n /\ b.conta = a.conta /\ b.carga = a.carga
           /\ b.form = a.form /\ b.cartoes = c
<1> DEFINE b == [a EXCEPT !.cartoes = c]
<1>1. /\ Area(b) /\ b.n = a.n /\ b.conta = a.conta /\ b.carga = a.carga /\ b.dados = a.dados
      /\ b.form = a.form /\ b.cartoes = c
  BY DEF Area
<1> HIDE DEF b
<1>2. Ativas(b) = Ativas(a)
  BY <1>1 DEF Ativas
<1>3. CamposCertos(b, n)
  BY <1>1, <1>2 DEF CamposCertos
<1> QED  BY <1>1, <1>3 DEF b

LEMMA FormMuda ==
    ASSUME NEW a, NEW n, CamposCertos(a, n), NEW f \in FormDe(n)
    PROVE  LET b == [a EXCEPT !.form = f] IN
           /\ CamposCertos(b, n) /\ b.n = a.n /\ b.conta = a.conta /\ b.carga = a.carga
           /\ b.form = f /\ b.cartoes = a.cartoes
<1> DEFINE b == [a EXCEPT !.form = f]
<1>1. /\ Area(b) /\ b.n = a.n /\ b.conta = a.conta /\ b.carga = a.carga /\ b.dados = a.dados
      /\ b.form = f /\ b.cartoes = a.cartoes
  BY DEF Area, CamposCertos
<1> HIDE DEF b
<1>2. Ativas(b) = Ativas(a)
  BY <1>1 DEF Ativas
<1>3. CamposCertos(b, n)
  BY <1>1, <1>2 DEF CamposCertos
<1> QED  BY <1>1, <1>3 DEF b

\* The state of one card.
LEMMA CartaoMuda ==
    ASSUME NEW a, NEW n, CamposCertos(a, n), NEW u \in Unidades, u \in Ativas(a), NEW c \in Cartao(n)
    PROVE  LET b == [a EXCEPT !.cartoes[u] = c] IN
           /\ CamposCertos(b, n) /\ b.n = a.n /\ b.conta = a.conta /\ b.carga = a.carga
           /\ b.cartoes = [a.cartoes EXCEPT ![u] = c]
<1> DEFINE d == [a.cartoes EXCEPT ![u] = c]
<1>1. d \in [Unidades -> Cartao(n)] /\ \A v \in Unidades : v \notin Ativas(a) => d[v] = CartaoVazio
  BY DEF CamposCertos
<1>2. [a EXCEPT !.cartoes[u] = c] = [a EXCEPT !.cartoes = d]
  BY DEF CamposCertos, Area
<1> HIDE DEF d
<1>3. Area(a) /\ a.form \in FormDe(n)
  BY DEF CamposCertos
<1>4. LET b == [a EXCEPT !.cartoes = d] IN
      /\ CamposCertos(b, n) /\ b.n = a.n /\ b.conta = a.conta /\ b.carga = a.carga
      /\ b.form = a.form /\ b.cartoes = d
  BY <1>1, <1>3, CartoesMudam
<1> QED  BY <1>2, <1>4 DEF d

\* The page b is the page a but for the waits of its cards that have ended.
Libera(a, b) ==
    /\ b.n = a.n /\ b.conta = a.conta /\ b.carga = a.carga
    /\ \A u \in Unidades : b.cartoes[u].gerando \in {0, a.cartoes[u].gerando}

\* A load takes the cards of units without activities or lots off the screen.
LEMMA ComCartoesCerta ==
    ASSUME NEW a, NEW n \in Nat, Area(a), a.form \in FormDe(n), a.cartoes \in [Unidades -> Cartao(n)]
    PROVE  CamposCertos(ComCartoes(a), n) /\ Libera(a, ComCartoes(a))
<1> DEFINE c == [u \in Unidades |-> IF u \in Ativas(a) THEN a.cartoes[u] ELSE CartaoVazio]
<1>1. CartaoVazio \in Cartao(n) /\ CartaoVazio.gerando = 0
  BY DEF CartaoVazio, Cartao
<1>2. c \in [Unidades -> Cartao(n)] /\ \A u \in Unidades : u \notin Ativas(a) => c[u] = CartaoVazio
  BY <1>1
<1>3. \A u \in Unidades : c[u].gerando \in {0, a.cartoes[u].gerando}
  BY <1>1
<1>4. ComCartoes(a) = [a EXCEPT !.cartoes = c]
  BY DEF ComCartoes
<1> HIDE DEF c
<1>5. LET b == [a EXCEPT !.cartoes = c] IN
      /\ CamposCertos(b, n) /\ b.n = a.n /\ b.conta = a.conta /\ b.carga = a.carga
      /\ b.form = a.form /\ b.cartoes = c
  BY <1>2, CartoesMudam
<1> QED  BY <1>3, <1>4, <1>5 DEF Libera

\* The end of a wait frees the card that waited for that write, and no other.
LEMMA SoltarCerta ==
    ASSUME NEW a, NEW n \in Nat, CamposCertos(a, n), NEW p
    PROVE  /\ CamposCertos(Soltar(p, a), n) /\ Libera(a, Soltar(p, a))
           /\ \A u \in Unidades : p.n # 0 => Soltar(p, a).cartoes[u].gerando # p.n
<1>1. CASE p.n = 0
  BY <1>1 DEF Soltar, Libera
<1>2. CASE p.n # 0
  <2> DEFINE f == [a.form EXCEPT !.enviado = IF @ = p.n THEN 0 ELSE @]
             b == [a EXCEPT !.form = f]
             c == [u \in Unidades |-> IF a.cartoes[u].gerando = p.n
                                      THEN [a.cartoes[u] EXCEPT !.gerando = 0] ELSE a.cartoes[u]]
  <2>1. f \in FormDe(n)
    BY DEF CamposCertos, FormDe
  <2>2. \A u \in Unidades : /\ c[u] \in Cartao(n) /\ c[u].gerando \in {0, a.cartoes[u].gerando}
                            /\ c[u].gerando # p.n
    <3> SUFFICES ASSUME NEW u \in Unidades
                 PROVE  /\ c[u] \in Cartao(n) /\ c[u].gerando \in {0, a.cartoes[u].gerando}
                        /\ c[u].gerando # p.n
      OBVIOUS
    <3>1. a.cartoes[u] \in Cartao(n)
      BY DEF CamposCertos
    <3> QED  BY <1>2, <3>1 DEF Cartao
  <2>3. \A u \in Unidades : u \notin Ativas(a) => c[u] = CartaoVazio
    <3>1. CartaoVazio.gerando = 0
      BY DEF CartaoVazio
    <3> QED  BY <1>2, <3>1 DEF CamposCertos
  <2>4. c \in [Unidades -> Cartao(n)]
    BY <2>2
  <2>5. Soltar(p, a) = [b EXCEPT !.cartoes = c]
    BY <1>2 DEF Soltar, CamposCertos, Area
  <2> HIDE DEF c
  <2>6. /\ CamposCertos(b, n) /\ b.n = a.n /\ b.conta = a.conta /\ b.carga = a.carga
        /\ b.form = f /\ b.cartoes = a.cartoes
    <3> HIDE DEF f
    <3> QED  BY <2>1, FormMuda
  <2>7. Ativas(b) = Ativas(a)
    <3> HIDE DEF f
    <3> QED  BY DEF Ativas, CamposCertos, Area
  <2> HIDE DEF b
  <2>8. Area(b) /\ b.form \in FormDe(n)
    BY <2>6 DEF CamposCertos
  <2>9. LET d == [b EXCEPT !.cartoes = c] IN
        /\ CamposCertos(d, n) /\ d.n = b.n /\ d.conta = b.conta /\ d.carga = b.carga
        /\ d.form = b.form /\ d.cartoes = c
    BY <2>3, <2>4, <2>7, <2>8, CartoesMudam
  <2> QED  BY <2>2, <2>5, <2>6, <2>9 DEF Libera
<1> QED  BY <1>1, <1>2

\* Requests that are not the first ones of a page, and what is left of those there were.
LEMMA PedidosSeguem ==
    ASSUME TipoPortal, Avancam, posts \in Nat, posts' \in Nat, posts <= posts',
           \A p \in vooPortal' : p \in vooPortal \/ (PedidoCerto(p)' /\ ~Inicial(p)),
           \A p \in vooPortal' \cap vooPortal : Inicial(p) /\ p.montagem = area'.n => Pendente(p)'
    PROVE  PedidosCertos'
<1>1. 0 .. logins \subseteq 0 .. logins' /\ 0 .. posts \subseteq 0 .. posts'
  BY DEF Avancam
<1>2. ASSUME NEW p \in vooPortal PROVE PedidoCerto(p)'
  <2>1. PedidoCerto(p)
    BY DEF TipoPortal, PedidosCertos
  <2> QED  BY <1>1, <2>1 DEF PedidoCerto
<1>3. \A p \in vooPortal' : PedidoCerto(p)'
  BY <1>2
<1>4. \A p \in vooPortal' : Inicial(p) => p \in vooPortal
  OBVIOUS
<1>5. \A p, q \in vooPortal' : Inicial(p) /\ Inicial(q) /\ p.op = q.op /\ p.montagem = q.montagem => p = q
  BY <1>4 DEF TipoPortal, PedidosCertos
<1>6. \A p \in vooPortal' : Inicial(p) /\ p.montagem = area'.n => Pendente(p)'
  BY <1>4
<1> QED  BY <1>3, <1>5, <1>6 DEF PedidosCertos

\* The pages mounted and the writes sent are numbers.
LEMMA LimitesDoPortal ==
    ASSUME TipoPortal, Avancam
    PROVE  /\ montagens \in Nat /\ montagens \in 0 .. cenario'.montagens
           /\ posts \in Nat /\ posts \in 0 .. cenario.envios
           /\ cenario.montagens \in Nat /\ cenario.envios \in Nat
<1>1. cenario' = cenario /\ cenario.montagens \in Nat /\ cenario.envios \in Nat
  BY LimitesNaturais DEF Avancam
<1>2. montagens \in 0 .. cenario.montagens /\ posts \in 0 .. cenario.envios
  BY DEF TipoPortal
<1> HIDE DEF TipoPortal, Avancam
<1> QED  BY <1>1, <1>2

\* The same page, or none.
LEMMA PortalSegue ==
    ASSUME TipoPortal, Avancam, pagina' \in {pagina, "area"}, montagens' = montagens, recarga' \in Recargas,
           produto' = [n |-> produto'.n, estado |-> produto'.estado], produto'.n \in {0, produto.n},
           posts' \in 0 .. cenario.envios, area'.n \in {0, area.n}, CamposCertos(area', posts'),
           CartoesEsperam', PedidosCertos', AcervoCerto'
    PROVE  TipoPortal'
<1>1. montagens \in Nat /\ montagens \in 0 .. cenario'.montagens
  BY LimitesDoPortal
<1>2. produto'.n \in 0 .. montagens' /\ area'.n \in 0 .. montagens'
  BY <1>1 DEF TipoPortal
<1>3. area'.n # 0 => produto'.n = 0 /\ pagina' = "area"
  BY DEF TipoPortal
<1>4. CamposCertos(area, posts)'
  BY DEF CamposCertos, Ativas, Area
<1> QED  BY <1>1, <1>2, <1>3, <1>4 DEF TipoPortal, Avancam

\* The server forgets nothing.
LEMMA AcervoSegue ==
    ASSUME TipoPortal, Avancam, posts \in Nat, posts' \in Nat, posts <= posts', acervo' = acervo
    PROVE  Registro \subseteq Registro' /\ AcervoCerto'
<1>1. 1 .. logins \subseteq 1 .. logins' /\ 1 .. posts \subseteq 1 .. posts'
  BY DEF Avancam
<1>2. Registro \subseteq Registro'
  BY <1>1 DEF Registro
<1>3. acervo'.atividades \subseteq Registro' /\ acervo'.lotes \subseteq Registro'
  BY <1>2 DEF TipoPortal, AcervoCerto
<1> QED  BY <1>2, <1>3 DEF TipoPortal, AcervoCerto

\* Nothing happens in the portal.
LEMMA PortalParado ==
    ASSUME TipoPortal, Avancam, UNCHANGED portalVars
    PROVE  TipoPortal'
<1>1. /\ pagina' = pagina /\ recarga' = recarga /\ montagens' = montagens /\ area' = area
      /\ produto' = produto /\ acervo' = acervo /\ vooPortal' = vooPortal /\ posts' = posts
  BY DEF portalVars
<1>2. posts' \in Nat /\ posts <= posts'
  BY <1>1, LimitesDoPortal
<1>3. AcervoCerto'
  BY <1>1, <1>2, AcervoSegue
<1>4. \A p \in vooPortal : Inicial(p) /\ p.montagem = area'.n => Pendente(p)'
  BY <1>1 DEF TipoPortal, PedidosCertos, Pendente
<1>5. PedidosCertos'
  BY <1>1, <1>2, <1>4, PedidosSeguem
<1>6. CamposCertos(area', posts') /\ CartoesEsperam'
  BY <1>1 DEF TipoPortal, CartoesEsperam
<1> QED  BY <1>1, <1>2, <1>3, <1>5, <1>6, LimitesDoPortal, PortalSegue DEF TipoPortal

\* A page leaves the screen: what it waited for finds no page.
LEMMA PortalSemPagina ==
    ASSUME TipoPortal, Avancam, pagina' = pagina, montagens' = montagens, acervo' = acervo, posts' = posts,
           vooPortal' \subseteq vooPortal,
           recarga' \in Recargas, area' = SemArea, produto' = ProdutoNovo(0)
    PROVE  TipoPortal'
<1>1. posts \in Nat /\ posts' \in Nat /\ posts <= posts' /\ posts' \in 0 .. cenario.envios
  BY LimitesDoPortal
<1>2. /\ CamposCertos(area', posts') /\ area'.n = 0 /\ area'.conta = "pedida" /\ area'.carga = "pedida"
      /\ \A u \in Unidades : area'.cartoes[u].gerando = 0
  BY <1>1, AreaNovaCerta DEF SemArea
<1>3. produto' = [n |-> produto'.n, estado |-> produto'.estado] /\ produto'.n = 0
  BY DEF ProdutoNovo
<1>4. AcervoCerto'
  BY <1>1, AcervoSegue
<1>5. PedidosCertos'
  BY <1>1, <1>2, PedidosSeguem DEF Pendente
<1>6. CartoesEsperam'
  BY <1>2 DEF CartoesEsperam
<1> QED  BY <1>1, <1>2, <1>3, <1>4, <1>5, <1>6, PortalSegue

\* A request is of a page that was mounted.
LEMMA PedidosDePaginas ==
    ASSUME InvArea, NEW p \in vooPortal
    PROVE  p.montagem \in 0 .. montagens /\ montagens \in Nat
BY DEF InvArea, PedidoInteiro

\* Another page: its requests are the only ones of its number.
LEMMA PortalMostra ==
    ASSUME TipoPortal, InvArea, Avancam, NEW pg \in {"inicio", "area", "produto"},
           NEW voo, voo \subseteq vooPortal, Mostrar(pg, voo, token'), acervo' = acervo, posts' = posts,
           recarga' \in Recargas
    PROVE  TipoPortal'
<1>1. posts \in Nat /\ posts' \in Nat /\ posts <= posts' /\ posts' \in 0 .. cenario.envios
  BY LimitesDoPortal
<1>2. montagens \in Nat /\ montagens \in 0 .. cenario.montagens /\ cenario' = cenario
      /\ cenario.montagens \in Nat
  BY LimitesDoPortal DEF Avancam
<1>3. pagina' = pg /\ AcervoCerto'
  BY <1>1, AcervoSegue DEF Mostrar
<1> DEFINE N == montagens + 1
           i == IF pg = "area" THEN N ELSE 0
           j == IF pg = "produto" THEN N ELSE 0
<1>4. (\E t : area' = AreaNova(i, t)) /\ produto' = ProdutoNovo(j)
  BY DEF Mostrar, SemArea
<1>5. /\ CamposCertos(area', posts') /\ area'.n = i /\ area'.conta = "pedida" /\ area'.carga = "pedida"
      /\ \A u \in Unidades : area'.cartoes[u].gerando = 0
  <2> HIDE DEF i
  <2> QED  BY <1>1, <1>4, AreaNovaCerta
<1>6. produto' = [n |-> produto'.n, estado |-> produto'.estado] /\ produto'.n = j
  BY <1>4 DEF ProdutoNovo
<1>7. CartoesEsperam'
  BY <1>5 DEF CartoesEsperam
<1>8. area'.n # 0 => produto'.n = 0 /\ pagina' = "area"
  BY <1>3, <1>5, <1>6
<1>9. /\ montagens' \in 0 .. cenario'.montagens /\ i \in 0 .. montagens' /\ j \in 0 .. montagens'
      /\ PedidosCertos'
  <2>1. CASE pg = "inicio"
    <3>1. vooPortal' = voo /\ montagens' = montagens
      BY <2>1 DEF Mostrar
    <3>2. PedidosCertos'
      BY <1>1, <1>5, <3>1, PedidosSeguem DEF Pendente
    <3>3. i = 0 /\ j = 0
      BY <2>1
    <3>4. montagens' \in 0 .. cenario'.montagens /\ 0 \in 0 .. montagens'
      BY <3>1, LimitesDoPortal
    <3> QED  BY <3>2, <3>3, <3>4
  <2>2. CASE pg # "inicio"
    <3> DEFINE novos == IF pg = "produto" THEN {Pedido("produto", N, 0, SemUnidade, token')}
                        ELSE {Pedido("conta", N, 0, SemUnidade, token'), Carga(N, 0, SemUnidade, token')}
    <3>1. vooPortal' = voo \cup novos /\ montagens' = N /\ montagens < cenario.montagens
      BY <2>2 DEF Mostrar
    <3>2. i \in 0 .. montagens' /\ j \in 0 .. montagens' /\ montagens' \in 0 .. cenario'.montagens
      <4>1. cenario'.montagens = cenario.montagens
        BY <1>2
      <4>2. N \in 0 .. N /\ 0 \in 0 .. N /\ N \in 0 .. cenario.montagens
        BY <1>2, <3>1
      <4> HIDE DEF N
      <4> QED  BY <3>1, <4>1, <4>2
    <3>3. ASSUME NEW p \in voo PROVE p.montagem # N /\ PedidoCerto(p)'
      <4>1. p.montagem \in 0 .. montagens
        BY PedidosDePaginas
      <4>2. PedidoCerto(p)
        BY DEF TipoPortal, PedidosCertos
      <4>3. 0 .. logins \subseteq 0 .. logins'
        BY DEF Avancam
      <4>4. PedidoCerto(p)'
        BY <4>2, <4>3 DEF PedidoCerto
      <4>5. N \notin 0 .. montagens
        BY <1>2
      <4> QED  BY <4>1, <4>4, <4>5
    <3>4. ASSUME NEW op, NEW p, p = Pedido(op, N, 0, SemUnidade, token')
          PROVE  p.op = op /\ p.montagem = N /\ p.n = 0 /\ p.cred = token'
      BY <3>4 DEF Pedido
    <3>5. ASSUME NEW p \in novos PROVE p.montagem = N /\ PedidoCerto(p)'
      <4>1. PICK op \in {"produto", "conta", "carga"} : p = Pedido(op, N, 0, SemUnidade, token')
        BY DEF Carga
      <4>2. p.op = op /\ p.montagem = N /\ p.n = 0 /\ p.cred = token'
        BY <3>4, <4>1
      <4>3. token' \in 0 .. logins'
        BY DEF Avancam
      <4>4. 0 \in 0 .. posts'
        BY <1>1
      <4> HIDE DEF N, novos
      <4> QED  BY <4>2, <4>3, <4>4 DEF PedidoCerto
    <3>6. \A p, q \in novos : p.op = q.op => p = q
      BY <3>4 DEF Carga
    <3> HIDE DEF N, novos, i, j
    <3>7. \A p \in vooPortal' : PedidoCerto(p)'
      BY <3>1, <3>3, <3>5
    <3>8. ASSUME NEW p \in vooPortal', NEW q \in vooPortal', Inicial(p), Inicial(q), p.op = q.op,
                 p.montagem = q.montagem
          PROVE  p = q
      <4>1. CASE p \in novos
        BY <3>1, <3>3, <3>5, <3>6, <3>8, <4>1
      <4>2. CASE p \notin novos
        <5>1. p \in voo /\ q \in voo
          BY <3>1, <3>3, <3>5, <3>8, <4>2
        <5> QED  BY <3>8, <5>1 DEF TipoPortal, PedidosCertos
      <4> QED  BY <4>1, <4>2
    <3>9. PedidosCertos'
      BY <1>5, <3>7, <3>8 DEF PedidosCertos, Pendente
    <3> QED  BY <3>2, <3>9
  <2> QED  BY <2>1, <2>2
<1> HIDE DEF i, j
<1> QED  BY <1>1, <1>2, <1>3, <1>5, <1>6, <1>7, <1>8, <1>9 DEF TipoPortal

\* The steps that show another page, or leave the one there is.
LEMMA PortalPaginas ==
    ASSUME TipoPortal, InvArea, Avancam,
           \/ TentarPortal \/ Rastrear \/ Voltar \/ LoginPortal \/ SairDoPortal
           \/ \E u \in Unidades : VerRelatorio(u)
           \/ Disponivel \/ Recarregar
    PROVE  TipoPortal'
<1>1. pagina \in {"inicio", "area", "produto"} /\ recarga \in Recargas
  BY DEF TipoPortal
<1>2. ASSUME NEW pg \in {"inicio", "area", "produto"}, IrPara(pg, token') PROVE TipoPortal'
  <2>1. /\ Mostrar(pg, vooPortal, token') /\ recarga' = recarga /\ acervo' = acervo /\ posts' = posts
    BY <1>2 DEF IrPara
  <2> QED  BY <1>1, <2>1, PortalMostra
<1>3. CASE TentarPortal \/ Rastrear \/ Voltar
  <2>1. token' = token
    BY <1>3 DEF TentarPortal, Rastrear, Voltar, portaisVars, contaVars
  <2>2. \E pg \in {"inicio", "area", "produto"} : IrPara(pg, token')
    BY <1>1, <1>3, <2>1 DEF TentarPortal, Rastrear, Voltar
  <2> QED  BY <1>2, <2>2
<1>4. CASE SairDoPortal
  BY <1>2, <1>4 DEF SairDoPortal, Esquecer
<1>5. CASE LoginPortal
  <2>1. CASE UNCHANGED portalVars
    BY <2>1, PortalParado
  <2>2. CASE IrPara("area", token')
    BY <1>2, <2>2
  <2>3. CASE pagina' = "area" /\ UNCHANGED <<recarga, montagens, area, produto, acervo, vooPortal, posts>>
    <3>1. posts' \in Nat /\ posts <= posts' /\ posts' \in 0 .. cenario.envios /\ posts \in Nat
      BY <2>3, LimitesDoPortal
    <3>2. AcervoCerto'
      BY <2>3, <3>1, AcervoSegue
    <3>3. \A p \in vooPortal : Inicial(p) /\ p.montagem = area'.n => Pendente(p)'
      BY <2>3 DEF TipoPortal, PedidosCertos, Pendente
    <3>4. PedidosCertos'
      BY <2>3, <3>1, <3>3, PedidosSeguem
    <3>5. CamposCertos(area', posts') /\ CartoesEsperam'
      BY <2>3 DEF TipoPortal, CartoesEsperam
    <3>6. produto' = [n |-> produto'.n, estado |-> produto'.estado]
      BY <2>3 DEF TipoPortal
    <3> QED  BY <1>1, <2>3, <3>1, <3>2, <3>4, <3>5, <3>6, PortalSegue
  <2> QED  BY <1>5, <2>1, <2>2, <2>3 DEF LoginPortal, ParaArea
<1>6. ASSUME NEW u \in Unidades, VerRelatorio(u) PROVE TipoPortal'
  <2>1. /\ recarga' = "produto" /\ pagina' = pagina /\ montagens' = montagens /\ area' = area
        /\ produto' = produto /\ acervo' = acervo /\ vooPortal' = vooPortal /\ posts' = posts
    BY <1>6 DEF VerRelatorio
  <2>2. posts' \in Nat /\ posts <= posts' /\ posts' \in 0 .. cenario.envios /\ posts \in Nat
    BY <2>1, LimitesDoPortal
  <2>3. AcervoCerto'
    BY <2>1, <2>2, AcervoSegue
  <2>4. \A p \in vooPortal : Inicial(p) /\ p.montagem = area'.n => Pendente(p)'
    BY <2>1 DEF TipoPortal, PedidosCertos, Pendente
  <2>5. PedidosCertos'
    BY <2>1, <2>2, <2>4, PedidosSeguem
  <2>6. CamposCertos(area', posts') /\ CartoesEsperam'
    BY <2>1 DEF TipoPortal, CartoesEsperam
  <2>7. recarga' \in Recargas
    BY <2>1 DEF Recargas
  <2>8. produto' = [n |-> produto'.n, estado |-> produto'.estado]
    BY <2>1 DEF TipoPortal
  <2> QED  BY <2>1, <2>2, <2>3, <2>5, <2>6, <2>7, <2>8, PortalSegue
<1>7. CASE Disponivel
  <2>1. CASE UNCHANGED portalVars
    BY <2>1, PortalParado
  <2>2. CASE Desmontar
    <3>1. /\ pagina' = pagina /\ montagens' = montagens /\ acervo' = acervo /\ posts' = posts
          /\ recarga' = recarga /\ vooPortal' = vooPortal /\ area' = SemArea /\ produto' = ProdutoNovo(0)
      BY <2>2 DEF Desmontar
    <3> QED  BY <1>1, <3>1, PortalSemPagina
  <2> QED  BY <1>7, <2>1, <2>2 DEF Disponivel
<1>8. CASE Recarregar
  <2>1. /\ recarga # "" /\ Mostrar(recarga, {}, token) /\ recarga' = "" /\ token' = token
        /\ acervo' = acervo /\ posts' = posts
    BY <1>8 DEF Recarregar
  <2>2. recarga \in {"inicio", "area", "produto"} /\ recarga' \in Recargas
    BY <1>1, <2>1 DEF Recargas
  <2>3. Mostrar(recarga, {}, token') /\ {} \subseteq vooPortal /\ acervo' = acervo /\ posts' = posts
    BY <2>1
  <2> QED  BY <2>2, <2>3, PortalMostra
<1> QED  BY <1>3, <1>4, <1>5, <1>6, <1>7, <1>8

\* A click in the area: the fields of its page, and at most one write.
LEMMA PortalNaArea ==
    ASSUME TipoPortal, Avancam, NEW a, NaArea(a), a.n = area.n, a.conta = area.conta, a.carga = area.carga,
           posts' \in 0 .. cenario.envios, posts <= posts', CamposCertos(a, posts'),
           vooPortal \subseteq vooPortal',
           \A p \in vooPortal' : p \in vooPortal \/ (PedidoCerto(p)' /\ ~Inicial(p)),
           \A u \in Unidades : a.cartoes[u].gerando # 0 =>
               \/ a.cartoes[u].gerando = area.cartoes[u].gerando
               \/ \E p \in vooPortal' : p.montagem = area.n /\ p.n = a.cartoes[u].gerando
    PROVE  TipoPortal'
<1>1. /\ area' = a /\ pagina' = pagina /\ recarga' = recarga /\ montagens' = montagens
      /\ produto' = produto /\ acervo' = acervo
  BY DEF NaArea
<1>2. posts \in Nat /\ posts' \in Nat
  BY LimitesDoPortal
<1>3. AcervoCerto'
  BY <1>1, <1>2, AcervoSegue
<1>4. \A p \in vooPortal : Inicial(p) /\ p.montagem = area'.n => Pendente(p)'
  BY <1>1 DEF TipoPortal, PedidosCertos, Pendente
<1>5. PedidosCertos'
  BY <1>2, <1>4, PedidosSeguem
<1>6. CartoesEsperam'
  <2>1. CartoesEsperam
    BY DEF TipoPortal
  <2> QED  BY <1>1, <2>1 DEF CartoesEsperam
<1>7. recarga' \in Recargas /\ produto' = [n |-> produto'.n, estado |-> produto'.estado]
  BY <1>1 DEF TipoPortal
<1> QED  BY <1>1, <1>3, <1>5, <1>6, <1>7, PortalSegue

LEMMA PortalClique ==
    ASSUME TipoPortal, Avancam,
           \/ AbrirForm \/ CancelarForm \/ Registrar
           \/ \E u \in Unidades : EscolherUnidade(u) \/ Declarar(u) \/ Gerar(u)
    PROVE  TipoPortal'
<1>1. CamposCertos(area, posts) /\ Area(area) /\ area.form \in FormDe(posts)
  BY DEF TipoPortal, CamposCertos
<1>2. posts \in Nat /\ posts \in 0 .. cenario.envios
  BY LimitesDoPortal
<1>3. UnidadesLidas \subseteq Unidades
  BY LimitesNaturais DEF UnidadesLidas, Avancam
<1>4. ASSUME NEW f \in FormDe(posts), NaArea([area EXCEPT !.form = f]), vooPortal' = vooPortal, posts' = posts
      PROVE  TipoPortal'
  <2> DEFINE a == [area EXCEPT !.form = f]
  <2>1. /\ CamposCertos(a, posts) /\ a.n = area.n /\ a.conta = area.conta /\ a.carga = area.carga
        /\ a.cartoes = area.cartoes
    BY <1>1, FormMuda
  <2>2. NaArea(a)
    BY <1>4
  <2> HIDE DEF a
  <2> QED  BY <1>2, <1>4, <2>1, <2>2, PortalNaArea
<1>5. CASE AbrirForm
  <2>1. PICK u \in UnidadesLidas \cup {SemUnidade} :
            NaArea([area EXCEPT !.form = [aberto |-> TRUE, unidade |-> u, enviado |-> 0]])
    BY <1>5 DEF AbrirForm
  <2>2. [aberto |-> TRUE, unidade |-> u, enviado |-> 0] \in FormDe(posts)
    BY <1>2, <1>3 DEF FormDe
  <2>3. vooPortal' = vooPortal /\ posts' = posts
    BY <1>5 DEF AbrirForm
  <2> QED  BY <1>4, <2>1, <2>2, <2>3
<1>6. CASE CancelarForm
  <2>1. FormFechado \in FormDe(posts)
    BY <1>2 DEF FormFechado, FormDe
  <2> QED  BY <1>4, <1>6, <2>1 DEF CancelarForm
<1>7. ASSUME NEW u \in Unidades, EscolherUnidade(u) PROVE TipoPortal'
  <2> DEFINE f == [area.form EXCEPT !.unidade = u]
  <2>1. f \in FormDe(posts)
    BY <1>1 DEF FormDe
  <2>2. NaArea([area EXCEPT !.form = f]) /\ vooPortal' = vooPortal /\ posts' = posts
    BY <1>7 DEF EscolherUnidade
  <2> HIDE DEF f
  <2> QED  BY <1>4, <2>1, <2>2
<1>8. ASSUME NEW u \in Unidades, Declarar(u) PROVE TipoPortal'
  <2> DEFINE c == [area.cartoes[u] EXCEPT !.declarado = ~@]
             a == [area EXCEPT !.cartoes[u] = c]
  <2>1. u \in Ativas(area) /\ vooPortal' = vooPortal /\ posts' = posts
    BY <1>8 DEF Declarar
  <2>2. area.cartoes[u] \in Cartao(posts)
    BY <1>1 DEF CamposCertos
  <2>3. c \in Cartao(posts) /\ c.gerando = area.cartoes[u].gerando
    BY <2>2 DEF Cartao
  <2>4. NaArea(a)
    BY <1>8 DEF Declarar
  <2>5. /\ CamposCertos(a, posts) /\ a.n = area.n /\ a.conta = area.conta /\ a.carga = area.carga
        /\ a.cartoes = [area.cartoes EXCEPT ![u] = c]
    <3> HIDE DEF c
    <3> QED  BY <1>1, <2>1, <2>3, CartaoMuda
  <2> HIDE DEF a, c
  <2>6. \A v \in Unidades : a.cartoes[v].gerando = area.cartoes[v].gerando
    BY <1>1, <2>3, <2>5 DEF CamposCertos
  <2>7. posts' \in 0 .. cenario.envios /\ posts <= posts' /\ CamposCertos(a, posts')
    BY <1>2, <2>1, <2>5
  <2>8. a.n = area.n /\ a.conta = area.conta /\ a.carga = area.carga
    BY <2>5
  <2> QED  BY <2>1, <2>4, <2>6, <2>7, <2>8, PortalNaArea
<1>9. ASSUME NEW op \in {"atividade", "lote"}, NEW u \in Unidades, Mandar(op, u)
      PROVE  /\ posts' = posts + 1 /\ posts' \in 0 .. cenario.envios /\ posts <= posts'
             /\ \E p : /\ vooPortal' = vooPortal \cup {p} /\ PedidoCerto(p)' /\ ~Inicial(p)
                      /\ p.montagem = area.n /\ p.n = posts + 1
  <2>1. PICK p : p = Pedido(op, area.n, posts + 1, u, token)
    OBVIOUS
  <2>2. posts < cenario.envios /\ posts' = posts + 1 /\ vooPortal' = vooPortal \cup {p}
    BY <1>9, <2>1 DEF Mandar
  <2>3. p.op = op /\ p.montagem = area.n /\ p.n = posts + 1 /\ p.unidade = u /\ p.cred = token
    BY <2>1 DEF Pedido
  <2>4. posts' \in 0 .. cenario.envios /\ posts <= posts'
    BY <1>2, <2>2, LimitesDoPortal
  <2>5. p.n # 0 /\ p.n \in 0 .. posts'
    BY <1>2, <2>2, <2>3
  <2>6. p.cred \in 0 .. logins'
    BY <2>3 DEF Avancam
  <2>7. PedidoCerto(p)' /\ ~Inicial(p)
    BY <2>3, <2>5, <2>6 DEF PedidoCerto, Inicial
  <2> QED  BY <2>2, <2>3, <2>4, <2>7
<1>10. CASE Registrar
  <2> DEFINE u == area.form.unidade
             f == [area.form EXCEPT !.enviado = posts + 1]
             a == [area EXCEPT !.form = f]
  <2>1. u # SemUnidade /\ Mandar("atividade", u)
    BY <1>10 DEF Registrar
  <2>2. u \in Unidades
    BY <1>1, <2>1 DEF FormDe
  <2> HIDE DEF u
  <2>3. /\ posts' = posts + 1 /\ posts' \in 0 .. cenario.envios /\ posts <= posts'
        /\ \E p : vooPortal' = vooPortal \cup {p} /\ PedidoCerto(p)' /\ ~Inicial(p)
    BY <1>9, <2>1, <2>2
  <2>4. f \in FormDe(posts')
    <3>1. 0 .. posts \subseteq 0 .. posts + 1 /\ posts + 1 \in 0 .. posts + 1
      BY <1>2
    <3> QED  BY <1>1, <2>3, <3>1 DEF FormDe
  <2>5. CamposCertos(area, posts')
    <3>1. posts' \in Nat /\ posts <= posts'
      BY <1>2, <2>3
    <3> QED  BY <1>1, <1>2, <3>1, CamposCrescem
  <2>6. NaArea(a)
    BY <1>10 DEF Registrar
  <2>7. /\ CamposCertos(a, posts') /\ a.n = area.n /\ a.conta = area.conta /\ a.carga = area.carga
        /\ a.cartoes = area.cartoes
    <3> HIDE DEF f
    <3> QED  BY <2>4, <2>5, FormMuda
  <2> HIDE DEF a
  <2> QED  BY <2>3, <2>6, <2>7, PortalNaArea
<1>11. ASSUME NEW u \in Unidades, Gerar(u) PROVE TipoPortal'
  <2> DEFINE c == [area.cartoes[u] EXCEPT !.gerando = posts + 1]
             a == [area EXCEPT !.cartoes[u] = c]
  <2>1. area.cartoes[u].declarado /\ Mandar("lote", u)
    BY <1>11 DEF Gerar
  <2>2. u \in Ativas(area)
    BY <1>1, <2>1 DEF CamposCertos, CartaoVazio
  <2>3. posts' = posts + 1 /\ posts' \in 0 .. cenario.envios /\ posts <= posts'
    BY <1>9, <2>1
  <2>9. PICK p : /\ vooPortal' = vooPortal \cup {p} /\ PedidoCerto(p)' /\ ~Inicial(p)
                 /\ p.montagem = area.n /\ p.n = posts + 1
    BY <1>9, <2>1
  <2>4. CamposCertos(area, posts')
    <3>1. posts' \in Nat /\ posts <= posts'
      BY <1>2, <2>3
    <3> QED  BY <1>1, <1>2, <3>1, CamposCrescem
  <2>5. c \in Cartao(posts') /\ c.gerando = posts + 1
    <3>1. area.cartoes[u] \in Cartao(posts')
      BY <2>4 DEF CamposCertos
    <3>2. posts + 1 \in 0 .. posts'
      BY <1>2, <2>3
    <3> QED  BY <3>1, <3>2 DEF Cartao
  <2>6. NaArea(a)
    BY <1>11 DEF Gerar
  <2>7. /\ CamposCertos(a, posts') /\ a.n = area.n /\ a.conta = area.conta /\ a.carga = area.carga
        /\ a.cartoes = [area.cartoes EXCEPT ![u] = c]
    <3> HIDE DEF c
    <3> QED  BY <2>2, <2>4, <2>5, CartaoMuda
  <2> HIDE DEF a, c
  <2>8. \A v \in Unidades : \/ a.cartoes[v].gerando = area.cartoes[v].gerando
                            \/ p.montagem = area.n /\ p.n = a.cartoes[v].gerando
    BY <1>1, <2>5, <2>7, <2>9 DEF CamposCertos
  <2> QED  BY <2>3, <2>6, <2>7, <2>8, <2>9, PortalNaArea
<1> QED  BY <1>5, <1>6, <1>7, <1>8, <1>10, <1>11

\* The page b is what the answer to p leaves of the one on the screen.
Respondida(p, b) ==
    /\ CamposCertos(b, posts) /\ b.n = area.n
    /\ \A u \in Unidades : b.cartoes[u].gerando \in {0, area.cartoes[u].gerando}
    /\ b.conta = area.conta \/ (p.op = "conta" /\ DaArea(p))
    /\ b.carga = area.carga \/ (p.op = "carga" /\ p.n = 0 /\ DaArea(p))

\* No card waits for the write any more.
SemEspera(p, b) == DaArea(p) /\ p.n # 0 => \A u \in Unidades : b.cartoes[u].gerando # p.n

\* An answer: the page keeps what it waits for, and the other requests go on.
LEMMA PortalResponde ==
    ASSUME TipoPortal, Avancam, NEW p \in vooPortal, Respondida(p, area'),
           pagina' = pagina, montagens' = montagens, posts' = posts, recarga' \in Recargas,
           produto' = [n |-> produto'.n, estado |-> produto'.estado], produto'.n = produto.n,
           AcervoCerto', vooPortal \ {p} \subseteq vooPortal',
           \A q \in vooPortal' : q \in vooPortal \ {p} \/ (PedidoCerto(q)' /\ ~Inicial(q)),
           SemEspera(p, area') \/ \E q \in vooPortal' : q.montagem = p.montagem /\ q.n = p.n
    PROVE  TipoPortal'
<1>1. posts \in Nat /\ posts' \in Nat /\ posts <= posts' /\ posts' \in 0 .. cenario.envios
  BY LimitesDoPortal
<1>2. ASSUME NEW q \in vooPortal \ {p}, Inicial(q), q.montagem = area.n PROVE Pendente(q)'
  <2>1. Pendente(q) /\ (Inicial(p) /\ p.montagem = area.n => p.op # q.op)
    BY <1>2 DEF TipoPortal, PedidosCertos
  <2> QED  BY <1>2, <2>1 DEF Respondida, Pendente, DaArea, Inicial
<1>3. PedidosCertos'
  <2>1. \A q \in vooPortal' : q \in vooPortal \/ (PedidoCerto(q)' /\ ~Inicial(q))
    OBVIOUS
  <2>2. \A q \in vooPortal' \cap vooPortal : Inicial(q) /\ q.montagem = area'.n => Pendente(q)'
    BY <1>2 DEF Respondida
  <2> QED  BY <1>1, <2>1, <2>2, PedidosSeguem
<1>4. CartoesEsperam'
  <2> SUFFICES ASSUME NEW u \in Unidades, area'.cartoes[u].gerando # 0
               PROVE  \E q \in vooPortal' : q.montagem = area'.n /\ q.n = area'.cartoes[u].gerando
    BY DEF CartoesEsperam
  <2>1. area'.n = area.n /\ area'.cartoes[u].gerando = area.cartoes[u].gerando
    BY DEF Respondida
  <2>2. PICK q \in vooPortal : q.montagem = area.n /\ q.n = area.cartoes[u].gerando
    BY <2>1 DEF TipoPortal, CartoesEsperam
  <2>3. CASE q # p
    BY <2>1, <2>2, <2>3
  <2>4. CASE q = p
    <3>1. ~SemEspera(p, area')
      BY <2>1, <2>2, <2>4 DEF SemEspera, DaArea
    <3> QED  BY <2>1, <2>2, <2>4, <3>1
  <2> QED  BY <2>3, <2>4
<1>5. CamposCertos(area', posts') /\ area'.n = area.n
  BY DEF Respondida
<1> QED  BY <1>1, <1>3, <1>4, <1>5, PortalSegue

\* A page nothing happens to.
LEMMA AreaParada ==
    ASSUME TipoPortal, NEW p
    PROVE  Respondida(p, area) /\ (~DaArea(p) \/ p.n = 0 => SemEspera(p, area))
BY DEF TipoPortal, Respondida, SemEspera

\* The account, or the first load, of a page that had not got it yet: it has no cards.
LEMMA PrimeiraChega ==
    ASSUME TipoPortal, NEW p \in vooPortal, DaArea(p), Inicial(p)
    PROVE  /\ CamposCertos(area, posts) /\ Ativas(area) = {}
           /\ p.op = "conta" => \A v : Respondida(p, [area EXCEPT !.conta = v])
           /\ p.op # "conta" => \A v : Respondida(p, [area EXCEPT !.carga = v])
<1>1. CamposCertos(area, posts) /\ Pendente(p)
  BY DEF TipoPortal, PedidosCertos, DaArea
<1>2. Ativas(area) = {}
  BY <1>1 DEF Pendente, Ativas
<1>3. \A u \in Unidades : area.cartoes[u] = CartaoVazio
  BY <1>1, <1>2 DEF CamposCertos
<1>4. ASSUME NEW b, Area(b), b.n = area.n, b.form = area.form, b.cartoes = area.cartoes,
             b.conta = area.conta \/ p.op = "conta", b.carga = area.carga \/ p.op # "conta"
      PROVE  Respondida(p, b)
  <2>1. CamposCertos(b, posts)
    BY <1>1, <1>3, <1>4 DEF CamposCertos
  <2> QED  BY <1>4, <2>1 DEF Respondida, Inicial
<1>5. ASSUME NEW v, p.op = "conta"
      PROVE  Respondida(p, [area EXCEPT !.conta = v])
  <2> DEFINE b == [area EXCEPT !.conta = v]
  <2>1. Area(b) /\ b.n = area.n /\ b.form = area.form /\ b.cartoes = area.cartoes /\ b.carga = area.carga
    BY <1>1 DEF CamposCertos, Area
  <2> HIDE DEF b
  <2>2. Respondida(p, b)
    BY <1>4, <1>5, <2>1
  <2> QED  BY <2>1, <2>2 DEF b
<1>6. ASSUME NEW v, p.op # "conta"
      PROVE  Respondida(p, [area EXCEPT !.carga = v])
  <2> DEFINE b == [area EXCEPT !.carga = v]
  <2>1. Area(b) /\ b.n = area.n /\ b.form = area.form /\ b.cartoes = area.cartoes /\ b.conta = area.conta
    BY <1>1 DEF CamposCertos, Area
  <2> HIDE DEF b
  <2>2. Respondida(p, b)
    BY <1>4, <1>6, <2>1
  <2> QED  BY <2>1, <2>2 DEF b
<1> QED  BY <1>1, <1>2, <1>5, <1>6

\* A failure ends the wait of the mount, or the one of the form or of the card.
LEMMA ErroTipado ==
    ASSUME TipoPortal, Avancam, NEW p \in vooPortal, p.op # "produto"
    PROVE  Respondida(p, AposErro(p)) /\ SemEspera(p, AposErro(p))
<1>1. PedidoCerto(p) /\ posts \in Nat /\ CamposCertos(area, posts)
  BY LimitesDoPortal DEF TipoPortal, PedidosCertos
<1>2. CASE ~DaArea(p)
  <2>1. AposErro(p) = area
    BY <1>2 DEF AposErro
  <2> QED  BY <1>2, <2>1, AreaParada
<1>3. CASE DaArea(p) /\ p.op = "conta"
  <2>1. AposErro(p) = [area EXCEPT !.conta = "falhou"] /\ p.n = 0
    BY <1>1, <1>3 DEF AposErro, PedidoCerto
  <2>2. Respondida(p, AposErro(p))
    BY <1>3, <2>1, PrimeiraChega DEF Inicial
  <2> QED  BY <2>1, <2>2 DEF SemEspera
<1>4. CASE DaArea(p) /\ p.op = "carga" /\ p.n = 0
  <2>1. AposErro(p) = [area EXCEPT !.carga = "falhou"]
    BY <1>4 DEF AposErro
  <2>2. Respondida(p, AposErro(p))
    BY <1>4, <2>1, PrimeiraChega DEF Inicial
  <2> QED  BY <1>4, <2>2 DEF SemEspera
<1>5. CASE DaArea(p) /\ p.op # "conta" /\ ~(p.op = "carga" /\ p.n = 0)
  <2>1. AposErro(p) = Soltar(p, area)
    BY <1>5 DEF AposErro
  <2> QED  BY <1>1, <2>1, SoltarCerta DEF Respondida, SemEspera, Libera
<1> QED  BY <1>2, <1>3, <1>4, <1>5

\* What the server takes is of a session there was, and the cycles it opens have activities.
LEMMA FeitoTipado ==
    ASSUME TipoPortal, Avancam, NEW p \in vooPortal, Feito(p) \/ acervo' = acervo, posts' = posts
    PROVE  AcervoCerto'
<1>1. posts \in Nat /\ posts' \in Nat /\ posts <= posts' /\ PedidoCerto(p)
  BY LimitesDoPortal DEF TipoPortal, PedidosCertos
<1>2. CASE acervo' = acervo
  BY <1>1, <1>2, AcervoSegue
<1>3. CASE Feito(p)
  <2> DEFINE r == [n |-> p.n, unidade |-> p.unidade, conta |-> p.cred]
             c == <<p.cred, p.unidade>>
  <2>1. p.n \in 1 .. posts' /\ p.cred \in 1 .. logins' /\ p.unidade \in Unidades
    <3>1. p.n \in 0 .. posts /\ p.n # 0 /\ p.cred \in 0 .. logins /\ p.cred # 0 /\ p.unidade \in Unidades
      BY <1>1, <1>3 DEF PedidoCerto, Feito, Autorizado
    <3>2. p.cred \in 1 .. logins'
      BY <3>1 DEF Avancam
    <3> QED  BY <1>1, <3>1, <3>2
  <2>2. r \in Registro' /\ r.conta = p.cred /\ r.unidade = p.unidade
    BY <2>1 DEF Registro
  <2>3. Registro \subseteq Registro'
    <3>1. 1 .. logins \subseteq 1 .. logins' /\ 1 .. posts \subseteq 1 .. posts'
      BY <1>1 DEF Avancam
    <3> QED  BY <3>1 DEF Registro
  <2>4. AcervoCerto
    BY DEF TipoPortal
  <2>5. CASE p.op = "atividade"
    <3>1. acervo' = [acervo EXCEPT !.atividades = @ \cup {r}, !.abertas = @ \cup {c}]
      BY <1>3, <2>5 DEF Feito
    <3>2. /\ acervo'.atividades = acervo.atividades \cup {r} /\ acervo'.lotes = acervo.lotes
          /\ acervo'.abertas = acervo.abertas \cup {c}
          /\ acervo' = [atividades |-> acervo'.atividades, lotes |-> acervo'.lotes, abertas |-> acervo'.abertas]
      <4> HIDE DEF r, c
      <4> QED  BY <2>4, <3>1 DEF AcervoCerto
    <3>3. c \in {<<a.conta, a.unidade>> : a \in acervo'.atividades}
      <4>1. c = <<r.conta, r.unidade>> /\ r \in acervo'.atividades
        BY <2>2, <3>2
      <4> HIDE DEF c, r
      <4> QED  BY <4>1
    <3> HIDE DEF r, c
    <3>4. acervo'.abertas \subseteq {<<a.conta, a.unidade>> : a \in acervo'.atividades}
      BY <2>4, <3>2, <3>3 DEF AcervoCerto
    <3> QED  BY <2>2, <2>3, <2>4, <3>2, <3>4 DEF AcervoCerto
  <2>6. CASE p.op # "atividade"
    <3>1. acervo' = [acervo EXCEPT !.lotes = @ \cup {r}, !.abertas = @ \ {c}]
      BY <1>3, <2>6 DEF Feito
    <3> HIDE DEF r, c
    <3>2. /\ acervo'.atividades = acervo.atividades /\ acervo'.lotes = acervo.lotes \cup {r}
          /\ acervo'.abertas \subseteq acervo.abertas
          /\ acervo' = [atividades |-> acervo'.atividades, lotes |-> acervo'.lotes, abertas |-> acervo'.abertas]
      BY <2>4, <3>1 DEF AcervoCerto
    <3> QED  BY <2>2, <2>3, <2>4, <3>2 DEF AcervoCerto
  <2> QED  BY <2>5, <2>6
<1> QED  BY <1>2, <1>3

\* The answers that bring something into the page.
LEMMA CargaTipada ==
    ASSUME TipoPortal, Avancam, NEW p \in vooPortal, ContaLida(p) \/ Chegou(p)
    PROVE  Respondida(p, area') /\ SemEspera(p, area')
<1>1. PedidoCerto(p) /\ posts \in Nat /\ CamposCertos(area, posts)
  BY LimitesDoPortal DEF TipoPortal, PedidosCertos
<1>2. Area(area) /\ area.form \in FormDe(posts) /\ area.cartoes \in [Unidades -> Cartao(posts)]
  BY <1>1 DEF CamposCertos
<1>3. CASE ~DaArea(p)
  <2>1. area' = area
    BY <1>3 DEF ContaLida, Chegou
  <2> QED  BY <1>3, <2>1, AreaParada
<1>4. CASE ContaLida(p) /\ DaArea(p)
  <2> DEFINE b == [area EXCEPT !.conta = "lida"]
  <2>1. area' = ComCartoes(b) /\ p.op = "conta" /\ p.n = 0
    BY <1>1, <1>4 DEF ContaLida, PedidoCerto
  <2>2. Area(b) /\ b.n = area.n /\ b.carga = area.carga /\ b.form = area.form /\ b.cartoes = area.cartoes
    BY <1>2 DEF Area
  <2> HIDE DEF b
  <2>3. CamposCertos(ComCartoes(b), posts) /\ Libera(b, ComCartoes(b))
    BY <1>1, <1>2, <2>2, ComCartoesCerta
  <2> QED  BY <1>4, <2>1, <2>2, <2>3 DEF Respondida, SemEspera, Libera
<1>5. CASE Chegou(p) /\ DaArea(p)
  <2> DEFINE c == [area EXCEPT !.dados = p.lidos]
             b == [area EXCEPT !.dados = p.lidos, !.carga = IF p.n = 0 THEN "lida" ELSE @]
             d == ComCartoes(b)
  <2>1. area' = Soltar(p, d) /\ p.op = "carga"
    BY <1>5 DEF Chegou
  <2>2. Area(c) /\ c.n = area.n /\ c.conta = area.conta /\ c.carga = area.carga
        /\ c.form = area.form /\ c.cartoes = area.cartoes
    BY <1>2 DEF Area
  <2>3. b = [c EXCEPT !.carga = IF p.n = 0 THEN "lida" ELSE area.carga]
    BY <1>2 DEF Area
  <2> HIDE DEF b, c
  <2>4. /\ Area(b) /\ b.n = area.n /\ b.conta = area.conta /\ b.form = area.form
        /\ b.cartoes = area.cartoes /\ (p.n # 0 => b.carga = area.carga)
    BY <2>2, <2>3 DEF Area
  <2>5. CamposCertos(d, posts) /\ Libera(b, d)
    BY <1>1, <1>2, <2>4, ComCartoesCerta
  <2> HIDE DEF d
  <2>6. /\ CamposCertos(area', posts) /\ Libera(d, area')
        /\ \A u \in Unidades : p.n # 0 => area'.cartoes[u].gerando # p.n
    BY <1>1, <2>1, <2>5, SoltarCerta
  <2> QED  BY <1>5, <2>1, <2>4, <2>5, <2>6 DEF Respondida, SemEspera, Libera
<1> QED  BY <1>3, <1>4, <1>5

\* A write done: the form closes, the card shows its lot.
LEMMA NovoTipado ==
    ASSUME TipoPortal, Avancam, NEW p \in vooPortal, p.op \in {"atividade", "lote"}
    PROVE  Respondida(p, ComNovo(p))
<1>1. /\ PedidoCerto(p) /\ posts \in Nat /\ CamposCertos(area, posts)
      /\ p.n # 0 /\ p.n \in 0 .. posts /\ p.unidade \in Unidades
  BY LimitesDoPortal DEF TipoPortal, PedidosCertos, PedidoCerto
<1>2. CASE ComNovo(p) = area
  BY <1>2, AreaParada
<1>3. CASE p.op = "atividade"
  <2> DEFINE b == [area EXCEPT !.form = FormFechado]
  <2>1. FormFechado \in FormDe(posts)
    BY <1>1 DEF FormFechado, FormDe
  <2>2. /\ CamposCertos(b, posts) /\ b.n = area.n /\ b.conta = area.conta /\ b.carga = area.carga
        /\ b.cartoes = area.cartoes
    BY <1>1, <2>1, FormMuda
  <2>3. ComNovo(p) = b
    BY <1>3 DEF ComNovo
  <2> HIDE DEF b
  <2> QED  BY <2>2, <2>3 DEF Respondida
<1>4. CASE p.op # "atividade" /\ area.cartoes[p.unidade].gerando = p.n
  <2> DEFINE u == p.unidade
             c == [area.cartoes[u] EXCEPT !.novo = p.n, !.declarado = FALSE]
             b == [area EXCEPT !.cartoes[u] = c]
  <2>1. u \in Ativas(area) /\ area.cartoes[u] \in Cartao(posts)
    BY <1>1, <1>4 DEF CamposCertos, CartaoVazio
  <2>2. c \in Cartao(posts) /\ c.gerando = area.cartoes[u].gerando
    BY <1>1, <2>1 DEF Cartao
  <2>3. ComNovo(p) = b
    BY <1>4 DEF ComNovo
  <2> HIDE DEF c
  <2>4. /\ CamposCertos(b, posts) /\ b.n = area.n /\ b.conta = area.conta /\ b.carga = area.carga
        /\ b.cartoes = [area.cartoes EXCEPT ![u] = c]
    BY <1>1, <2>1, <2>2, CartaoMuda
  <2> HIDE DEF b
  <2>5. \A v \in Unidades : b.cartoes[v].gerando = area.cartoes[v].gerando
    BY <1>1, <2>2, <2>4 DEF CamposCertos
  <2> QED  BY <2>3, <2>4, <2>5 DEF Respondida
<1> QED  BY <1>2, <1>3, <1>4 DEF ComNovo

LEMMA PortalResposta ==
    ASSUME TipoPortal, InvArea, Avancam, NEW p \in vooPortal,
           \/ ContaLida(p) \/ Chegou(p) \/ Gravado(p) \/ ProdutoLido(p) \/ Falhou(p) \/ SemSessao(p)
           \/ \E k \in Partes : LerParte(p, k)
    PROVE  TipoPortal'
<1>1. /\ PedidoCerto(p) /\ recarga \in Recargas
      /\ produto = [n |-> produto.n, estado |-> produto.estado]
  BY DEF TipoPortal, PedidosCertos
<1>2. ASSUME acervo' = acervo, posts' = posts PROVE AcervoCerto'
  BY <1>2, FeitoTipado
<1>3. CASE ContaLida(p) \/ Chegou(p)
  <2>1. /\ pagina' = pagina /\ recarga' = recarga /\ montagens' = montagens /\ produto' = produto
        /\ acervo' = acervo /\ posts' = posts /\ vooPortal' = vooPortal \ {p}
    BY <1>3 DEF ContaLida, Chegou
  <2>2. Respondida(p, area') /\ SemEspera(p, area')
    BY <1>3, CargaTipada
  <2>3. AcervoCerto' /\ produto' = [n |-> produto'.n, estado |-> produto'.estado]
    BY <1>1, <1>2, <2>1
  <2> QED  BY <1>1, <2>1, <2>2, <2>3, PortalResponde
<1>4. CASE Gravado(p)
  <2>1. /\ pagina' = pagina /\ recarga' = recarga /\ montagens' = montagens /\ produto' = produto
        /\ posts' = posts /\ Feito(p) /\ area' \in {area, ComNovo(p)}
        /\ vooPortal' = (vooPortal \ {p}) \cup {Carga(p.montagem, p.n, p.unidade, token)}
    BY <1>4 DEF Gravado
  <2>2. AcervoCerto' /\ produto' = [n |-> produto'.n, estado |-> produto'.estado]
    BY <1>1, <2>1, FeitoTipado
  <2>3. p.op \in {"atividade", "lote"}
    BY <2>1 DEF Feito
  <2>4. Respondida(p, area')
    BY <2>1, <2>3, AreaParada, NovoTipado
  <2>5. PICK q : q = Carga(p.montagem, p.n, p.unidade, token)
    OBVIOUS
  <2>6. q.op = "carga" /\ q.montagem = p.montagem /\ q.n = p.n /\ q.cred = token
    BY <2>5 DEF Carga, Pedido
  <2>7. p.n # 0 /\ p.n \in 0 .. posts'
    BY <1>1, <2>1, <2>3 DEF PedidoCerto
  <2>8. token \in 0 .. logins'
    BY DEF Avancam
  <2>9. PedidoCerto(q)' /\ ~Inicial(q)
    BY <2>6, <2>7, <2>8 DEF PedidoCerto, Inicial
  <2>10. /\ vooPortal \ {p} \subseteq vooPortal' /\ q \in vooPortal'
         /\ \A r \in vooPortal' : r \in vooPortal \ {p} \/ (PedidoCerto(r)' /\ ~Inicial(r))
    BY <2>1, <2>5, <2>9
  <2> QED  BY <1>1, <2>1, <2>2, <2>4, <2>6, <2>10, PortalResponde
<1>5. CASE ProdutoLido(p)
  <2>1. /\ pagina' = pagina /\ recarga' = recarga /\ montagens' = montagens /\ area' = area
        /\ acervo' = acervo /\ posts' = posts /\ vooPortal' = vooPortal \ {p} /\ p.n = 0
    BY <1>1, <1>5 DEF ProdutoLido, PedidoCerto
  <2>2. produto' = [n |-> produto'.n, estado |-> produto'.estado] /\ produto'.n = produto.n
    <3>1. \E e : produto' = produto \/ produto' = [produto EXCEPT !.estado = e]
      BY <1>5 DEF ProdutoLido
    <3> QED  BY <1>1, <3>1
  <2>3. Respondida(p, area') /\ SemEspera(p, area')
    BY <2>1, AreaParada
  <2>4. AcervoCerto'
    BY <1>2, <2>1
  <2> QED  BY <1>1, <2>1, <2>2, <2>3, <2>4, PortalResponde
<1>6. CASE Falhou(p) \/ SemSessao(p)
  <2>1. /\ pagina' = pagina /\ montagens' = montagens /\ produto' = produto /\ posts' = posts
        /\ area' = AposErro(p) /\ vooPortal' = vooPortal \ {p} /\ p.op # "produto"
        /\ Feito(p) \/ acervo' = acervo
    BY <1>6 DEF Falhou, SemSessao
  <2>2. recarga' = recarga \/ recarga' = "inicio"
    BY <1>6 DEF Falhou, SemSessao
  <2>3. recarga' \in Recargas
    BY <1>1, <2>2 DEF Recargas
  <2>4. Respondida(p, area') /\ SemEspera(p, area')
    BY <2>1, ErroTipado
  <2>5. AcervoCerto' /\ produto' = [n |-> produto'.n, estado |-> produto'.estado]
    BY <1>1, <2>1, FeitoTipado
  <2> QED  BY <2>1, <2>3, <2>4, <2>5, PortalResponde
<1>7. ASSUME NEW k \in Partes, LerParte(p, k) PROVE TipoPortal'
  <2>1. /\ pagina' = pagina /\ recarga' = recarga /\ montagens' = montagens /\ produto' = produto
        /\ area' = area /\ acervo' = acervo /\ posts' = posts
    BY <1>7 DEF LerParte
  <2>2. PICK q : /\ q = [p EXCEPT !.lidos[k] = LidoPor(k, p.cred)]
                 /\ vooPortal' = (vooPortal \ {p}) \cup {q}
    BY <1>7 DEF LerParte
  <2>3. q.op = p.op /\ q.montagem = p.montagem /\ q.n = p.n /\ q.cred = p.cred /\ q.unidade = p.unidade
    <3>1. PedidoInteiro(p)
      BY DEF InvArea
    <3> QED  BY <2>2, <3>1 DEF PedidoInteiro
  <2>4. posts \in Nat /\ posts' \in Nat /\ posts <= posts' /\ posts' \in 0 .. cenario.envios
    BY <2>1, LimitesDoPortal
  <2>5. AcervoCerto' /\ produto' = [n |-> produto'.n, estado |-> produto'.estado]
    BY <1>1, <1>2, <2>1
  <2>6. PedidosCertos'
    <3>1. ASSUME NEW r \in vooPortal PROVE PedidoCerto(r)'
      <4>1. PedidoCerto(r) /\ 0 .. logins \subseteq 0 .. logins' /\ posts' = posts
        BY <2>1 DEF TipoPortal, PedidosCertos, Avancam
      <4> QED  BY <4>1 DEF PedidoCerto
    <3>2. PedidoCerto(q)'
      BY <2>3, <3>1 DEF PedidoCerto
    <3>3. ASSUME NEW r \in vooPortal', NEW s \in vooPortal', Inicial(r), Inicial(s), r.op = s.op,
                 r.montagem = s.montagem
          PROVE  r = s
      <4> DEFINE Antes(t) == IF t = q THEN p ELSE t
      <4>1. \A t \in vooPortal' : /\ Antes(t) \in vooPortal /\ Antes(t).op = t.op /\ Antes(t).n = t.n
                                  /\ Antes(t).montagem = t.montagem /\ (t # q => t # p)
        BY <2>2, <2>3
      <4>2. Antes(r) = Antes(s)
        BY <3>3, <4>1 DEF TipoPortal, PedidosCertos, Inicial
      <4> QED  BY <4>1, <4>2
    <3>4. ASSUME NEW r \in vooPortal', Inicial(r), r.montagem = area'.n PROVE Pendente(r)'
      <4>1. PICK s \in vooPortal : s.op = r.op /\ s.n = r.n /\ s.montagem = r.montagem
        BY <2>2, <2>3
      <4>2. Pendente(s)
        BY <2>1, <3>4, <4>1 DEF TipoPortal, PedidosCertos, Inicial
      <4> QED  BY <2>1, <4>1, <4>2 DEF Pendente
    <3> QED  BY <2>2, <3>1, <3>2, <3>3, <3>4 DEF PedidosCertos
  <2>7. CamposCertos(area', posts')
    BY <2>1 DEF TipoPortal
  <2>8. CartoesEsperam'
    <3>1. \A r \in vooPortal : \E s \in vooPortal' : s.n = r.n /\ s.montagem = r.montagem
      BY <2>2, <2>3
    <3>2. CartoesEsperam
      BY DEF TipoPortal
    <3> QED  BY <2>1, <3>1, <3>2 DEF CartoesEsperam
  <2> QED  BY <1>1, <2>1, <2>4, <2>5, <2>6, <2>7, <2>8, PortalSegue
<1> QED  BY <1>3, <1>4, <1>5, <1>6, <1>7

\* The portal's part is inductive, with the requests' own beside it.
LEMMA PortalPasso ==
    ASSUME TipoPortal, InvArea, TipoConta, [Next]_vars
    PROVE  TipoPortal'
<1>1. Avancam
  BY ContaTipada DEF Avancam, TipoConta
<1>2. CASE NoPortal(NextPortal)
  <2>1. CASE CliquePortal
    BY <1>1, <2>1, PortalPaginas, PortalClique DEF CliquePortal
  <2>2. CASE RedePortal
    BY <1>1, <2>2, PortalPaginas, PortalResposta DEF RedePortal
  <2>3. CASE Recarregar
    BY <1>1, <2>3, PortalPaginas
  <2> QED  BY <1>2, <2>1, <2>2, <2>3 DEF NoPortal, NextPortal
<1>3. CASE UNCHANGED portalVars
  BY <1>1, <1>3, PortalParado
<1> QED  BY <1>2, <1>3 DEF Next, NoPainel, vars

-----------------------------------------------------------------------------
(***************************************************************************)
(* The dashboard: what a list shows, or a request has read for it, is of   *)
(* the users registered, and only the form waits for a registration.       *)
(***************************************************************************)
Rotas == {"login", "inicio", "usuarios", "novo", "whatsapp"}

Chaves == {"usuarios", "whatsapp"}

Opcoes == {"sem", "pedidas", "lidas", "nenhuma"}

Lido(C) == {SemDado} \cup SUBSET C

Lista(C, n) == [dado : Lido(C), invalida : BOOLEAN,
                busca : [cred : 0 .. n, lido : Lido(C), viva : BOOLEAN]]

TipoPainel ==
    /\ rota \in Rotas /\ (rota # "login" => token # 0)
    /\ cenario.app = "portal" => rota = "login"
    /\ opcoes \in Opcoes /\ credOpcoes \in 0 .. logins
    /\ enviados \in 0 .. cenario.envios /\ cadastros \subseteq 1 .. enviados
    /\ \A p \in vooPainel : p.n \in 1 .. enviados
    /\ meu # 0 => rota = "novo" /\ \E p \in vooPainel : p.n = meu
    /\ listas \in [Chaves -> Lista(cadastros, logins)]

\* What is done to an entry leaves one of the same users.
LEMMA ListaTipada ==
    ASSUME NEW C, NEW n \in Nat, NEW c \in Lista(C, n), NEW t \in 0 .. n
    PROVE  /\ Refazer(c, t) \in Lista(C, n) /\ Desistir(c) \in Lista(C, n)
           /\ \A velha : Montar(c, t, velha) \in Lista(C, n)
           /\ \A ativa : Invalidar(c, ativa, t) \in Lista(C, n)
           /\ \A v \in SUBSET C : Ler(c, v) \in Lista(C, n)
           /\ Receber(c) \in Lista(C, n)
<1>1. Busca(t) \in [cred : 0 .. n, lido : Lido(C), viva : BOOLEAN]
      /\ SemBusca \in [cred : 0 .. n, lido : Lido(C), viva : BOOLEAN]
  BY DEF Busca, SemBusca, Lido
<1>2. \A b \in [cred : 0 .. n, lido : Lido(C), viva : BOOLEAN] : [c EXCEPT !.busca = b] \in Lista(C, n)
  BY DEF Lista
<1>3. Refazer(c, t) \in Lista(C, n) /\ Desistir(c) \in Lista(C, n)
  BY <1>1, <1>2 DEF Refazer, Desistir
<1>4. \A velha : Montar(c, t, velha) \in Lista(C, n)
  BY <1>3 DEF Montar
<1>5. ASSUME NEW ativa PROVE Invalidar(c, ativa, t) \in Lista(C, n)
  <2> DEFINE m == [c EXCEPT !.invalida = TRUE]
  <2>1. m \in Lista(C, n)
    BY DEF Lista
  <2>2. Invalidar(c, ativa, t) \in {m, Refazer(m, t), [m EXCEPT !.busca = Busca(t)]}
    BY DEF Invalidar
  <2> HIDE DEF m
  <2>3. \A b \in [cred : 0 .. n, lido : Lido(C), viva : BOOLEAN] : [m EXCEPT !.busca = b] \in Lista(C, n)
    BY <2>1 DEF Lista
  <2>4. Refazer(m, t) \in Lista(C, n)
    BY <1>1, <2>1, <2>3 DEF Refazer
  <2> QED  BY <1>1, <2>1, <2>2, <2>3, <2>4
<1>6. ASSUME NEW v \in SUBSET C PROVE Ler(c, v) \in Lista(C, n)
  <2>1. v \in Lido(C)
    BY DEF Lido
  <2> QED  BY <2>1 DEF Ler, Lista
<1>7. Receber(c) \in Lista(C, n)
  BY <1>1 DEF Receber, Lista
<1> QED  BY <1>3, <1>4, <1>5, <1>6, <1>7

\* More users, or more sessions.
LEMMA ListasCrescem ==
    ASSUME NEW C, NEW D, C \subseteq D, NEW m \in Nat, NEW n \in Nat, m <= n,
           NEW L \in [Chaves -> Lista(C, m)]
    PROVE  L \in [Chaves -> Lista(D, n)]
<1>1. 0 .. m \subseteq 0 .. n /\ Lido(C) \subseteq Lido(D)
  BY DEF Lido
<1>2. Lista(C, m) \subseteq Lista(D, n)
  BY <1>1 DEF Lista
<1> QED  BY <1>2

\* The screen that is mounted has no registration of its own yet.
LEMMA IrTipado ==
    ASSUME Avancam, NEW r \in Rotas, NEW L, L \in [Chaves -> Lista(cadastros', logins')], Ir(r, token', L),
           opcoes \in Opcoes, credOpcoes \in 0 .. logins
    PROVE  /\ rota' \in Rotas /\ (rota' # "login" => token' # 0) /\ meu' = 0
           /\ opcoes' \in Opcoes /\ credOpcoes' \in 0 .. logins'
           /\ listas' \in [Chaves -> Lista(cadastros', logins')]
<1>1. rota' \in Rotas /\ (rota' # "login" => token' # 0) /\ meu' = 0
  BY DEF Ir, Rota, Rotas
<1>2. logins' \in Nat /\ token' \in 0 .. logins' /\ 0 .. logins \subseteq 0 .. logins'
  BY DEF Avancam
<1>3. opcoes' \in Opcoes /\ credOpcoes' \in 0 .. logins'
  <2>1. (opcoes' = "pedidas" /\ credOpcoes' = token') \/ (opcoes' = opcoes /\ credOpcoes' = credOpcoes)
    BY DEF Ir
  <2> QED  BY <1>2, <2>1 DEF Opcoes
<1>4. listas' \in [Chaves -> Lista(cadastros', logins')]
  <2>1. CASE listas' = L
    BY <2>1
  <2>2. ASSUME NEW velha, rota' \in Chaves, listas' = [L EXCEPT ![rota'] = Montar(L[rota'], token', velha)]
        PROVE  listas' \in [Chaves -> Lista(cadastros', logins')]
    <3>1. Montar(L[rota'], token', velha) \in Lista(cadastros', logins')
      BY <1>2, <2>2, ListaTipada
    <3> QED  BY <2>2, <3>1
  <2>3. listas' = L \/ \E velha : rota' \in Chaves /\ listas' = [L EXCEPT ![rota'] = Montar(L[rota'], token', velha)]
    BY DEF Ir
  <2> QED  BY <2>1, <2>2, <2>3
<1> QED  BY <1>1, <1>3, <1>4

\* The registrations sent are numbers.
LEMMA LimitesDoPainel ==
    ASSUME TipoPainel, Avancam
    PROVE  /\ enviados \in Nat /\ enviados \in 0 .. cenario'.envios /\ enviados <= cenario.envios
           /\ cenario.envios \in Nat
<1>1. cenario' = cenario /\ cenario.envios \in Nat
  BY LimitesNaturais DEF Avancam
<1>2. enviados \in 0 .. cenario.envios
  BY DEF TipoPainel
<1> QED  BY <1>1, <1>2

\* The lists, when a step leaves them alone.
LEMMA ListasSeguem ==
    ASSUME TipoPainel, Avancam, NEW C, cadastros \subseteq C
    PROVE  listas \in [Chaves -> Lista(C, logins')]
BY ListasCrescem DEF TipoPainel, Avancam

\* Nothing happens in the dashboard.
LEMMA PainelParado ==
    ASSUME TipoPainel, Avancam, UNCHANGED painelVars, token' = token \/ rota = "login"
    PROVE  TipoPainel'
<1>1. /\ rota' = rota /\ listas' = listas /\ opcoes' = opcoes /\ credOpcoes' = credOpcoes /\ meu' = meu
      /\ cadastros' = cadastros /\ vooPainel' = vooPainel /\ enviados' = enviados
  BY DEF painelVars, formVars
<1>2. listas' \in [Chaves -> Lista(cadastros', logins')]
  BY <1>1, ListasSeguem
<1>3. credOpcoes' \in 0 .. logins' /\ cenario' = cenario
  BY <1>1 DEF TipoPainel, Avancam
<1>4. enviados' \in 0 .. cenario'.envios
  BY <1>1, LimitesDoPainel
<1> QED  BY <1>1, <1>2, <1>3, <1>4 DEF TipoPainel

\* Another screen is mounted.
LEMMA PainelVai ==
    ASSUME TipoPainel, Avancam, cenario.app = "painel", NEW r \in Rotas, NEW L,
           L \in [Chaves -> Lista(cadastros', logins')], Ir(r, token', L),
           cadastros' \subseteq 1 .. enviados, vooPainel' \subseteq vooPainel, enviados' = enviados
    PROVE  TipoPainel'
<1>1. opcoes \in Opcoes /\ credOpcoes \in 0 .. logins /\ \A p \in vooPainel : p.n \in 1 .. enviados
  BY DEF TipoPainel
<1>2. /\ rota' \in Rotas /\ (rota' # "login" => token' # 0) /\ meu' = 0
      /\ opcoes' \in Opcoes /\ credOpcoes' \in 0 .. logins'
      /\ listas' \in [Chaves -> Lista(cadastros', logins')]
  BY <1>1, IrTipado
<1>3. enviados' \in 0 .. cenario'.envios /\ cenario'.app # "portal"
  <2>1. cenario' = cenario
    BY DEF Avancam
  <2>2. enviados' \in 0 .. cenario'.envios
    BY LimitesDoPainel
  <2> QED  BY <2>1, <2>2
<1> QED  BY <1>1, <1>2, <1>3 DEF TipoPainel

\* The same screen, whose registration is as it was or came to an end.
LEMMA PainelFica ==
    ASSUME TipoPainel, Avancam, cenario.app = "painel", token' = token, rota' = rota,
           opcoes' \in Opcoes, credOpcoes' = credOpcoes,
           enviados' \in 0 .. cenario.envios, enviados <= enviados', cadastros' \subseteq 1 .. enviados',
           \A p \in vooPainel' : p.n \in 1 .. enviados',
           meu' # 0 => rota = "novo" /\ \E p \in vooPainel' : p.n = meu',
           listas' \in [Chaves -> Lista(cadastros', logins')]
    PROVE  TipoPainel'
<1>1. cenario' = cenario /\ credOpcoes' \in 0 .. logins'
  BY DEF TipoPainel, Avancam
<1>2. enviados' \in 0 .. cenario'.envios /\ cenario'.app # "portal"
  BY <1>1
<1>3. rota' \in Rotas /\ (rota' # "login" => token' # 0)
  BY DEF TipoPainel
<1> QED  BY <1>1, <1>2, <1>3 DEF TipoPainel

\* Nothing but what is typed in and the step of the form.
LEMMA PainelNoForm ==
    ASSUME TipoPainel, Avancam, cenario.app = "painel", token' = token, rota' = rota, listas' = listas,
           opcoes' = opcoes, credOpcoes' = credOpcoes, meu' = meu, cadastros' = cadastros,
           vooPainel' = vooPainel, enviados' = enviados
    PROVE  TipoPainel'
<1>1. listas' \in [Chaves -> Lista(cadastros', logins')]
  BY ListasSeguem
<1>2. enviados' \in 0 .. cenario.envios /\ enviados <= enviados'
  BY LimitesDoPainel
<1>3. /\ opcoes' \in Opcoes /\ cadastros' \subseteq 1 .. enviados' /\ \A p \in vooPainel' : p.n \in 1 .. enviados'
      /\ meu' # 0 => rota = "novo" /\ \E p \in vooPainel' : p.n = meu'
  BY DEF TipoPainel
<1> QED  BY <1>1, <1>2, <1>3, PainelFica

LEMMA PainelClique ==
    ASSUME TipoPainel, Avancam, cenario.app = "painel", CliquePainel
    PROVE  TipoPainel'
<1>1. listas \in [Chaves -> Lista(cadastros, logins')] /\ cadastros \subseteq 1 .. enviados
  BY ListasSeguem DEF TipoPainel
<1>2. ASSUME NEW r \in Rotas, Ir(r, token', listas), cadastros' = cadastros, vooPainel' = vooPainel,
             enviados' = enviados
      PROVE  TipoPainel'
  BY <1>1, <1>2, PainelVai
<1>3. CASE SaudePainel
  BY <1>3, PainelParado DEF SaudePainel, contaVars
<1>4. CASE SairDoPainel
  BY <1>2, <1>4 DEF SairDoPainel, Esquecer, Rotas
<1>5. CASE LoginPainel
  <2>1. CASE UNCHANGED painelVars /\ token' = token
    BY <2>1, PainelParado
  <2>2. CASE Entrou /\ Ir("inicio", logins', listas) /\ UNCHANGED <<cadastros, vooPainel, enviados>>
    <3>1. token' = logins' /\ "inicio" \in Rotas
      BY <2>2 DEF Entrou, Rotas
    <3>2. Ir("inicio", token', listas) /\ cadastros' = cadastros /\ vooPainel' = vooPainel /\ enviados' = enviados
      BY <2>2, <3>1
    <3> QED  BY <1>2, <3>1, <3>2
  <2> QED  BY <1>5, <2>1, <2>2 DEF LoginPainel, Entrar, NaoEntrou, Vencer
<1>6. ASSUME NEW r \in {"inicio", "usuarios", "novo", "whatsapp"}, Clicar(r) PROVE TipoPainel'
  <2>1. r \in Rotas /\ Ir(r, token', listas) /\ cadastros' = cadastros /\ vooPainel' = vooPainel
        /\ enviados' = enviados
    BY <1>6 DEF Clicar, Rotas, portaisVars, contaVars
  <2> QED  BY <1>2, <2>1
<1>7. ASSUME \/ EditarDados \/ EscolherSetor \/ EditarConta \/ Proximo \/ Anterior
             \/ \E r \in {"PRODUTOR", "OPERADOR"} : EscolherPerfil(r)
      PROVE  TipoPainel'
  <2>1. (\E f : Editar(f)) \/ (\E s : Passar(s))
    <3>1. (\E r \in {"PRODUTOR", "OPERADOR"} : EscolherPerfil(r)) => \E f : Editar(f)
      BY DEF EscolherPerfil
    <3>2. EditarDados \/ EscolherSetor \/ EditarConta => \E f : Editar(f)
      BY DEF EditarDados, EscolherSetor, EditarConta
    <3>3. Proximo \/ Anterior => \E s : Passar(s)
      BY DEF Proximo, Anterior
    <3> QED  BY <1>7, <3>1, <3>2, <3>3
  <2>2. /\ token' = token /\ rota' = rota /\ listas' = listas /\ opcoes' = opcoes /\ credOpcoes' = credOpcoes
        /\ meu' = meu /\ cadastros' = cadastros /\ vooPainel' = vooPainel /\ enviados' = enviados
    BY <2>1 DEF Editar, Passar, portaisVars, contaVars
  <2> QED  BY <2>2, PainelNoForm
<1>8. CASE Cadastrar
  <2>1. PICK p : p = [n |-> enviados + 1, cred |-> token, form |-> form]
    OBVIOUS
  <2>2. /\ token' = token /\ rota' = rota /\ listas' = listas /\ opcoes' = opcoes /\ credOpcoes' = credOpcoes
        /\ cadastros' = cadastros /\ vooPainel' = vooPainel \cup {p}
    BY <1>8, <2>1 DEF Cadastrar, portaisVars, contaVars
  <2>3. enviados < cenario.envios /\ enviados' = enviados + 1 /\ meu' = enviados + 1 /\ rota = "novo"
    BY <1>8 DEF Cadastrar, NaTela
  <2>4. p.n = enviados + 1
    BY <2>1
  <2>5. /\ enviados' \in 0 .. cenario.envios /\ enviados <= enviados'
        /\ 1 .. enviados \subseteq 1 .. enviados' /\ p.n \in 1 .. enviados'
    <3>1. enviados \in Nat /\ cenario.envios \in Nat
      BY LimitesDoPainel
    <3> QED  BY <2>3, <2>4, <3>1
  <2>6. /\ cadastros' \subseteq 1 .. enviados' /\ \A q \in vooPainel' : q.n \in 1 .. enviados'
        /\ rota = "novo" /\ \E q \in vooPainel' : q.n = meu'
    BY <2>2, <2>3, <2>4, <2>5 DEF TipoPainel
  <2>7. opcoes' \in Opcoes
    BY <2>2 DEF TipoPainel
  <2>8. listas' \in [Chaves -> Lista(cadastros', logins')]
    BY <1>1, <2>2
  <2> QED  BY <2>2, <2>5, <2>6, <2>7, <2>8, PainelFica
<1> QED  BY <1>3, <1>4, <1>5, <1>6, <1>7, <1>8 DEF CliquePainel

\* A list is asked for, read, received or given up.
LEMMA PainelNaLista ==
    ASSUME TipoPainel, Avancam, cenario.app = "painel", NEW k \in Chaves, NEW c \in Lista(cadastros, logins'),
           NaLista(k, c), token' = token, rota' = rota, UNCHANGED formVars
    PROVE  TipoPainel'
<1>1. /\ listas' = [listas EXCEPT ![k] = c] /\ opcoes' = opcoes /\ credOpcoes' = credOpcoes
      /\ cadastros' = cadastros /\ vooPainel' = vooPainel /\ enviados' = enviados /\ meu' = meu
  BY DEF NaLista, formVars
<1>2. listas \in [Chaves -> Lista(cadastros, logins')]
  BY ListasSeguem
<1>3. listas' \in [Chaves -> Lista(cadastros', logins')]
  BY <1>1, <1>2
<1>4. enviados' \in 0 .. cenario.envios /\ enviados <= enviados'
  BY <1>1, LimitesDoPainel
<1>5. /\ opcoes' \in Opcoes /\ cadastros' \subseteq 1 .. enviados' /\ \A p \in vooPainel' : p.n \in 1 .. enviados'
      /\ meu' # 0 => rota = "novo" /\ \E p \in vooPainel' : p.n = meu'
  BY <1>1 DEF TipoPainel
<1> QED  BY <1>1, <1>3, <1>4, <1>5, PainelFica

LEMMA PainelListas ==
    ASSUME TipoPainel, Avancam, cenario.app = "painel",
           Intervalo \/ \E k \in DOMAIN listas : LerLista(k) \/ ReceberLista(k) \/ DesistirLista(k)
    PROVE  TipoPainel'
<1>1. listas \in [Chaves -> Lista(cadastros, logins')] /\ DOMAIN listas = Chaves
  BY ListasSeguem DEF TipoPainel
<1>2. logins' \in Nat /\ token \in 0 .. logins'
  BY DEF Avancam
<1>3. CASE Intervalo
  <2>1. /\ rota \in Chaves /\ NaLista(rota, Refazer(listas[rota], token)) /\ token' = token /\ rota' = rota
        /\ UNCHANGED formVars
    BY <1>1, <1>3 DEF Intervalo, contaVars
  <2>2. Refazer(listas[rota], token) \in Lista(cadastros, logins')
    BY <1>1, <1>2, <2>1, ListaTipada
  <2> QED  BY <2>1, <2>2, PainelNaLista
<1>4. ASSUME NEW k \in Chaves, LerLista(k) \/ ReceberLista(k) \/ DesistirLista(k)
      PROVE  TipoPainel'
  <2>1. token' = token /\ rota' = rota /\ UNCHANGED formVars
    BY <1>4 DEF LerLista, ReceberLista, DesistirLista, contaVars
  <2>2. \E c \in {Ler(listas[k], NoServidor(k)), Receber(listas[k]), Desistir(listas[k])} : NaLista(k, c)
    BY <1>4 DEF LerLista, ReceberLista, DesistirLista
  <2>3. NoServidor(k) \in SUBSET cadastros /\ listas[k] \in Lista(cadastros, logins')
    BY <1>1 DEF NoServidor
  <2>4. {Ler(listas[k], NoServidor(k)), Receber(listas[k]), Desistir(listas[k])} \subseteq Lista(cadastros, logins')
    BY <1>2, <2>3, ListaTipada
  <2> QED  BY <2>1, <2>2, <2>4, PainelNaLista
<1> QED  BY <1>1, <1>3, <1>4

LEMMA PainelResposta ==
    ASSUME TipoPainel, Avancam, cenario.app = "painel",
           RespostaOpcoes \/ SemSessaoLista \/ \E p \in vooPainel : Cadastrado(p) \/ NaoCadastrado(p)
    PROVE  TipoPainel'
<1>1. listas \in [Chaves -> Lista(cadastros, logins')] /\ cadastros \subseteq 1 .. enviados
  BY ListasSeguem DEF TipoPainel
<1>2. logins' \in Nat /\ token' \in 0 .. logins' /\ token \in 0 .. logins'
  BY DEF Avancam
<1>3. \A p \in vooPainel : p.n \in 1 .. enviados
  BY DEF TipoPainel
<1>4. enviados \in 0 .. cenario.envios /\ enviados <= enviados
  BY LimitesDoPainel
<1>5. CASE RespostaOpcoes
  <2>1. /\ token' = token /\ rota' = rota /\ listas' = listas /\ credOpcoes' = credOpcoes /\ meu' = meu
        /\ cadastros' = cadastros /\ vooPainel' = vooPainel /\ enviados' = enviados
        /\ opcoes' \in Opcoes
    BY <1>5 DEF RespostaOpcoes, portaisVars, contaVars, formVars, Opcoes
  <2>2. meu' # 0 => rota = "novo" /\ \E p \in vooPainel' : p.n = meu'
    BY <2>1 DEF TipoPainel
  <2>3. listas' \in [Chaves -> Lista(cadastros', logins')] /\ cadastros' \subseteq 1 .. enviados'
        /\ enviados' \in 0 .. cenario.envios /\ enviados <= enviados' /\ \A p \in vooPainel' : p.n \in 1 .. enviados'
    BY <1>1, <1>3, <1>4, <2>1
  <2> QED  BY <2>1, <2>2, <2>3, PainelFica
<1>6. CASE SemSessaoLista
  <2> DEFINE c == Desistir(listas["whatsapp"])
             L == [listas EXCEPT !["whatsapp"] = c]
  <2>1. c \in Lista(cadastros, logins') /\ "whatsapp" \in Chaves
    BY <1>1, <1>2, ListaTipada DEF Chaves
  <2>2. CASE rota = "login"
    <3>1. NaLista("whatsapp", c) /\ token' = token /\ rota' = rota /\ UNCHANGED formVars
      BY <1>6, <2>2 DEF SemSessaoLista, contaVars
    <3> HIDE DEF c
    <3> QED  BY <2>1, <3>1, PainelNaLista
  <2>3. CASE rota # "login"
    <3>1. token' = 0 /\ Ir("login", token', L) /\ cadastros' = cadastros /\ vooPainel' = vooPainel
          /\ enviados' = enviados
      BY <1>6, <2>3 DEF SemSessaoLista, Esquecer
    <3> HIDE DEF c
    <3>2. L \in [Chaves -> Lista(cadastros', logins')] /\ "login" \in Rotas
      BY <1>1, <2>1, <3>1 DEF Rotas
    <3> HIDE DEF L
    <3> QED  BY <1>1, <3>1, <3>2, PainelVai
  <2> QED  BY <2>2, <2>3
<1>7. ASSUME NEW p \in vooPainel, Cadastrado(p) PROVE TipoPainel'
  <2> DEFINE c == Invalidar(listas["usuarios"], rota = "usuarios", token)
             L == [listas EXCEPT !["usuarios"] = c]
  <2>1. /\ cadastros' = cadastros \cup {p.n} /\ vooPainel' = vooPainel \ {p} /\ enviados' = enviados
        /\ token' = token
    BY <1>7 DEF Cadastrado, portaisVars, contaVars
  <2>2. cadastros' \subseteq 1 .. enviados /\ listas \in [Chaves -> Lista(cadastros', logins')]
    BY <1>1, <1>3, <2>1, ListasSeguem
  <2>3. c \in Lista(cadastros', logins') /\ "usuarios" \in Chaves /\ "usuarios" \in Rotas
    BY <1>2, <2>2, ListaTipada DEF Chaves, Rotas
  <2>4. \/ rota = "usuarios" /\ listas' = L /\ rota' = rota /\ opcoes' = opcoes /\ credOpcoes' = credOpcoes
           /\ UNCHANGED formVars
        \/ Ir("usuarios", token', L)
    BY <1>7, <2>1 DEF Cadastrado
  <2> HIDE DEF c
  <2>5. L \in [Chaves -> Lista(cadastros', logins')]
    BY <2>2, <2>3
  <2> HIDE DEF L
  <2>6. CASE Ir("usuarios", token', L)
    BY <2>1, <2>2, <2>3, <2>5, <2>6, PainelVai
  <2>7. CASE rota = "usuarios" /\ listas' = L /\ rota' = rota /\ opcoes' = opcoes /\ credOpcoes' = credOpcoes
             /\ UNCHANGED formVars
    <3>1. meu' = 0 /\ opcoes' \in Opcoes
      BY <2>7 DEF TipoPainel, formVars
    <3>2. /\ listas' \in [Chaves -> Lista(cadastros', logins')] /\ cadastros' \subseteq 1 .. enviados'
          /\ enviados' \in 0 .. cenario.envios /\ enviados <= enviados' /\ \A q \in vooPainel' : q.n \in 1 .. enviados'
      BY <1>3, <1>4, <2>1, <2>2, <2>5, <2>7
    <3> QED  BY <2>1, <2>7, <3>1, <3>2, PainelFica
  <2> QED  BY <2>4, <2>6, <2>7
<1>8. ASSUME NEW p \in vooPainel, NaoCadastrado(p) PROVE TipoPainel'
  <2>1. /\ token' = token /\ rota' = rota /\ listas' = listas /\ opcoes' = opcoes /\ credOpcoes' = credOpcoes
        /\ vooPainel' = vooPainel \ {p} /\ enviados' = enviados
        /\ cadastros' = cadastros \cup {p.n} \/ cadastros' = cadastros
        /\ meu' = IF meu = p.n THEN 0 ELSE meu
    BY <1>8 DEF NaoCadastrado, portaisVars, contaVars
  <2>2. cadastros' \subseteq 1 .. enviados' /\ listas' \in [Chaves -> Lista(cadastros', logins')]
    BY <1>1, <1>3, <2>1, ListasSeguem
  <2>3. meu' # 0 => rota = "novo" /\ \E q \in vooPainel' : q.n = meu'
    BY <2>1 DEF TipoPainel
  <2>4. opcoes' \in Opcoes /\ enviados' \in 0 .. cenario.envios /\ enviados <= enviados'
        /\ \A q \in vooPainel' : q.n \in 1 .. enviados'
    BY <1>3, <1>4, <2>1 DEF TipoPainel
  <2> QED  BY <2>1, <2>2, <2>3, <2>4, PainelFica
<1> QED  BY <1>5, <1>6, <1>7, <1>8

\* The dashboard's part is inductive.
LEMMA PainelPasso ==
    ASSUME TipoPainel, TipoConta, [Next]_vars
    PROVE  TipoPainel'
<1>1. Avancam
  BY ContaTipada DEF Avancam, TipoConta
<1>2. CASE NoPainel(NextPainel)
  BY <1>1, <1>2, PainelClique, PainelListas, PainelResposta DEF NoPainel, NextPainel, RedePainel
<1>3. CASE NoPortal(NextPortal)
  <2>1. UNCHANGED painelVars /\ rota = "login"
    BY <1>3 DEF NoPortal, TipoPainel
  <2> QED  BY <1>1, <2>1, PainelParado
<1>4. CASE UNCHANGED vars
  <2>1. UNCHANGED painelVars /\ token' = token
    BY <1>4 DEF vars, portaisVars, contaVars
  <2> QED  BY <1>1, <2>1, PainelParado
<1> QED  BY <1>2, <1>3, <1>4 DEF Next

-----------------------------------------------------------------------------
\* Where each part of the tab's state may be, for both applications.
InvTipos == TipoConta /\ InvArea /\ TipoPortal /\ InvForm /\ TipoPainel

\* The instances start with it.
LEMMA TiposIniciais == Init => InvTipos
<1> SUFFICES ASSUME Init PROVE InvTipos
  OBVIOUS
<1>1. cenario \in Cenarios
  BY DEF Init, InitPortais
<1>2. cenario.tentativas \in Nat /\ cenario.logins \in Nat /\ cenario.app \in {"portal", "painel"}
  BY <1>1, PortaisAssumption
<1>3. TipoConta
  <2>1. logins = 0 /\ token = 0 /\ tentativas = 0 /\ vencidas = {}
    BY DEF Init, InitPortais
  <2>2. logins \in 0 .. cenario.logins /\ token \in 0 .. logins /\ tentativas \in 0 .. cenario.tentativas
        /\ vencidas \subseteq 1 .. logins
    BY <1>2, <2>1
  <2>3. saude = "checking" /\ conferindo = TRUE /\ entrando = FALSE
    BY DEF Init, InitPortais
  <2>4. saude \in {"checking", "ok", "unavailable"} /\ conferindo = (saude = "checking")
        /\ entrando \in BOOLEAN /\ ~entrando
    BY <2>3
  <2> QED  BY <1>1, <2>2, <2>4 DEF TipoConta, TypeConta
<1>4. area = SemArea /\ montagens = 0 /\ vooPortal = {} /\ posts = 0 /\ produto = ProdutoNovo(0)
      /\ acervo = [atividades |-> {}, lotes |-> {}, abertas |-> {}] /\ pagina = "inicio" /\ recarga \in Recargas
  BY DEF Init, InitPortal, Recargas
<1>5. InvArea
  <2>1. Area(area) /\ area.n = 0 /\ area.sessao = 0
    BY <1>4, AreaVazia DEF SemArea
  <2>2. token = 0 /\ logins = 0
    BY DEF Init, InitPortais
  <2> QED  BY <1>4, <2>1, <2>2 DEF InvArea, DadosDesde
<1>6. TipoPortal
  <2>1. cenario.montagens \in Nat /\ cenario.envios \in Nat
    BY <1>1, LimitesNaturais
  <2>2. CamposCertos(area, posts) /\ area.n = 0 /\ \A u \in Unidades : area.cartoes[u].gerando = 0
    BY <1>4, AreaNovaCerta DEF SemArea
  <2>3. produto = [n |-> produto.n, estado |-> produto.estado] /\ produto.n = 0
    BY <1>4 DEF ProdutoNovo
  <2>4. CartoesEsperam /\ PedidosCertos /\ AcervoCerto
    BY <1>4, <2>2 DEF CartoesEsperam, PedidosCertos, AcervoCerto
  <2>5. montagens \in 0 .. cenario.montagens /\ posts \in 0 .. cenario.envios
        /\ produto.n \in 0 .. montagens /\ area.n \in 0 .. montagens
    BY <1>4, <2>1, <2>2, <2>3
  <2>6. pagina \in {"inicio", "area", "produto"} /\ recarga \in Recargas /\ (area.n # 0 => produto.n = 0 /\ pagina = "area")
    BY <1>4, <2>2
  <2> QED  BY <2>2, <2>3, <2>4, <2>5, <2>6 DEF TipoPortal
<1>7. InvForm
  BY FormNovo DEF Init, InitPainel, InvForm, EnviadoValido
<1>8. TipoPainel
  <2>1. /\ rota = "login" /\ listas = [k \in Chaves |-> Vazia] /\ opcoes = "sem" /\ credOpcoes = 0 /\ meu = 0
        /\ cadastros = {} /\ vooPainel = {} /\ enviados = 0
    BY DEF Init, InitPainel, Chaves
  <2>2. Vazia \in Lista({}, 0)
    BY DEF Vazia, Lista, Lido, SemBusca
  <2>3. logins = 0 /\ cenario.envios \in Nat
    BY <1>1, LimitesNaturais DEF Init, InitPortais
  <2> QED  BY <2>1, <2>2, <2>3 DEF TipoPainel, Rotas, Opcoes
<1> QED  BY <1>3, <1>5, <1>6, <1>7, <1>8 DEF InvTipos

LEMMA TiposPasso == InvTipos /\ [Next]_vars => InvTipos'
BY ContaTipada, AreaPasso, PortalPasso, FormPasso, PainelPasso DEF InvTipos

\* The invariant says what each variable may be.
LEMMA TiposBastam == InvTipos => TypeOk
<1> SUFFICES ASSUME InvTipos PROVE TypeOk
  OBVIOUS
<1>1. TypeConta
  BY DEF InvTipos, TipoConta
<1>2. TypePortal
  <2>1. TipoPortal
    BY DEF InvTipos
  <2>2. area.form.enviado \in 0 .. posts
    BY <2>1 DEF TipoPortal, CamposCertos, FormDe
  <2>3. recarga \in {"", "inicio", "produto"}
    BY <2>1 DEF TipoPortal, Recargas
  <2>4. /\ \A u \in Unidades : u \notin Ativas(area) => area.cartoes[u] = CartaoVazio
        /\ \A u \in Unidades : area.cartoes[u].gerando # 0 =>
               \E p \in vooPortal : p.montagem = area.n /\ p.n = area.cartoes[u].gerando
    BY <2>1 DEF TipoPortal, CamposCertos, CartoesEsperam
  <2>5. /\ acervo.atividades \subseteq Registro /\ acervo.lotes \subseteq Registro
        /\ acervo.abertas \subseteq {<<a.conta, a.unidade>> : a \in acervo.atividades}
    BY <2>1 DEF TipoPortal, AcervoCerto
  <2>6. area.sessao \in 0 .. logins
    BY DEF InvTipos, InvArea
  <2> QED  BY <2>1, <2>2, <2>3, <2>4, <2>5, <2>6 DEF TypePortal, TipoPortal
<1>3. TypePainel
  <2>1. TipoPainel /\ InvForm
    BY DEF InvTipos
  <2>2. /\ passo \in 0 .. 2 /\ (passo = 2 => form.role = "PRODUTOR")
        /\ form \in [dados : BOOLEAN, role : {"", "PRODUTOR", "OPERADOR"}, setor : BOOLEAN, conta : BOOLEAN]
    BY <2>1 DEF InvForm, Formulario
  <2>3. listas["usuarios"].dado = SemDado \/ listas["usuarios"].dado \subseteq cadastros
    BY <2>1 DEF TipoPainel, Chaves, Lista, Lido
  <2>4. /\ rota \in {"login", "inicio", "usuarios", "novo", "whatsapp"} /\ (rota # "login" => token # 0)
        /\ opcoes \in {"sem", "pedidas", "lidas", "nenhuma"} /\ credOpcoes \in 0 .. logins
        /\ enviados \in 0 .. cenario.envios /\ cadastros \subseteq 1 .. enviados
        /\ meu # 0 => \E p \in vooPainel : p.n = meu
    BY <2>1 DEF TipoPainel, Rotas, Opcoes
  <2> QED  BY <2>2, <2>3, <2>4 DEF TypePainel
<1> QED  BY <1>1, <1>2, <1>3 DEF TypeOk

\* However many sessions, pages, writes and units there are: a button waits for a write of
\* its own page that is still under way, a unit without a card has no state, what the
\* server keeps is of a session there was, and the list of users shows users registered.
THEOREM TiposDosPortais == Spec => []TypeOk
BY TiposIniciais, TiposPasso, TiposBastam, PTL DEF Spec
=============================================================================
