---------------------------- MODULE RascunhoNfe ----------------------------
(***************************************************************************)
(* Purchase notes (NF-e): RascunhoService turns an uploaded XML into a     *)
(* draft, links its lines to products, and on confirmation records the     *)
(* entry and moves the stock.  One supplier; the content of each note is   *)
(* a constant.                                                             *)
(***************************************************************************)
EXTENDS Estoque, FiniteSets, Functions

CONSTANTS
    Rascunhos,       \* draft ids; the entry of a draft is its reference
    Notas,           \* XML files
    Codigos,         \* supplier codes (cProd)
    Nota,            \* what a file says: its key and its lines
    SemChave,        \* the key of a file whose infNFe has no Id
    ProdutoDoCodigo, \* the product whose codigo is the code of a line
    CatalogoInicial  \* products registered from the start

ASSUME RascunhoNfeAssumption ==
    /\ Rascunhos \subseteq Refs
    /\ ProdutoDoCodigo \in [Codigos -> Produtos]
    /\ CatalogoInicial \subseteq Produtos
    /\ Livre \notin Produtos
    /\ \A n \in Notas : \A i \in DOMAIN Nota[n].linhas :
          /\ i \in Itens
          /\ Nota[n].linhas[i].cod \in Codigos
          /\ Nota[n].linhas[i].qtd \in Quantidades

VARIABLES
    rascunho,    \* rascunho_entrada and its item_rascunho_entrada rows
    entradas,    \* entrada_nfe rows
    mapeamento,  \* mapeamento_fornecedor_produto
    catalogo     \* products that exist

nfeVars == <<rascunho, entradas, mapeamento, catalogo>>
varsNfe == <<estoqueVars, nfeVars>>

StatusItem == {"AUTO_VINCULADO", "VINCULADO", "NOVO", "PENDENTE"}
StatusRascunho == {"PENDENTE", "CONFIRMADA", "CANCELADA"}

ItemLigado == [prod : Produtos, status : StatusItem \ {"PENDENTE"}]
ItemRascunho == ItemLigado \cup [prod : {Livre}, status : {"PENDENTE"}]
SemItens == [i \in {} |-> Livre]
ItensDe(n) == [DOMAIN Nota[n].linhas -> ItemRascunho]

Rascunho == UNION {[nota : {n}, status : StatusRascunho, itens : ItensDe(n)] : n \in Notas}

\* What a handler keeps of its request and of the rows it has read.
PedidoCriar == [op : {"rascunho"}, rasc : Rascunhos, nota : Notas,
                itens : {SemItens} \cup UNION {ItensDe(n) : n \in Notas}]
PedidoVincular == [op : {"vincular", "novo"}, rasc : Rascunhos, item : Itens,
                   prod : Produtos, antes : ItemRascunho]
PedidoConfirmar == [op : {"confirmar"}, rasc : Rascunhos,
                    itens : {SemItens} \cup UNION {ItensDe(n) : n \in Notas},
                    feitas : SUBSET Itens]   \* lines with their mapping upserted
PedidoDescartar == [op : {"descartar"}, rasc : Rascunhos]
PedidoProcessar == [op : {"processar"}, rasc : Rascunhos, num : Nat]
PedidoNfe == PedidoCriar \cup PedidoVincular \cup PedidoConfirmar
             \cup PedidoDescartar \cup PedidoProcessar

ASSUME PedidoNfeAssumption == Livre \notin Rascunho \cup PedidoNfe

Linhas(r) == Nota[rascunho[r].nota].linhas
ChaveDe(n) == Nota[n].chave

InitNfe ==
    /\ rascunho = [r \in Rascunhos |-> Livre]
    /\ entradas = {}
    /\ mapeamento = [c \in Codigos |-> Livre]
    /\ catalogo = CatalogoInicial

Pendente(r) == rascunho[r] # Livre /\ rascunho[r].status = "PENDENTE"

ChaveImportada(c) == c # SemChave /\ \E e \in entradas : e.chave = c

\* _tentar_match: learned mapping, then the reference code (or the EAN) of the
\* line against the active products.  A line with no reference code is not
\* looked up by its supplier code.
TentarMatch(linha) ==
    IF mapeamento[linha.cod] # Livre
    THEN [prod |-> mapeamento[linha.cod], status |-> "AUTO_VINCULADO"]
    ELSE IF linha.ref /\ ProdutoDoCodigo[linha.cod] \in catalogo
    THEN [prod |-> ProdutoDoCodigo[linha.cod], status |-> "AUTO_VINCULADO"]
    ELSE [prod |-> Livre, status |-> "PENDENTE"]

(***************************************************************************)
(* criar_rascunho: the key is looked up among the entries first, the lines *)
(* are matched later, the draft is inserted at the commit.                 *)
(***************************************************************************)
CriarRascunho(s, r, n) ==
    /\ rascunho[r] = Livre
    /\ \A t \in Sessoes : pedido[t] # Livre /\ pedido[t].op = "rascunho"
                             => pedido[t].rasc # r
    /\ ~ChaveImportada(ChaveDe(n))
    /\ Iniciar(s, [op |-> "rascunho", rasc |-> r, nota |-> n, itens |-> SemItens],
               "casando", {})
    /\ UNCHANGED nfeVars

CasarItens(s) ==
    LET linhasXml == Nota[pedido[s].nota].linhas IN
    /\ fase[s] = "casando"
    /\ pedido' = [pedido EXCEPT ![s] =
                     [op |-> "rascunho", rasc |-> @.rasc, nota |-> @.nota,
                      itens |-> [i \in DOMAIN linhasXml |-> TentarMatch(linhasXml[i])]]]
    /\ fase' = [fase EXCEPT ![s] = "movendo"]
    /\ UNCHANGED <<banco, memoria, fila, iniciados, nfeVars>>

ConcluirRascunho(s) ==
    LET p == pedido[s] IN
    /\ p # Livre /\ p.op = "rascunho"
    /\ Gravar(s, p.rasc)
    /\ rascunho' = [rascunho EXCEPT ![p.rasc] =
                       [nota |-> p.nota, status |-> "PENDENTE", itens |-> p.itens]]
    /\ UNCHANGED <<entradas, mapeamento, catalogo>>

(***************************************************************************)
(* vincular_item: link a line to a product, or to a new product.           *)
(***************************************************************************)
\* Mutant: a line can be linked again after the note was confirmed.
VincularSempre(s, r, i, p) ==
    /\ rascunho[r] # Livre
    /\ i \in DOMAIN Linhas(r)
    /\ p \in catalogo
    /\ Iniciar(s, [op |-> "vincular", rasc |-> r, item |-> i, prod |-> p,
                   antes |-> rascunho[r].itens[i]], "movendo", {})
    /\ UNCHANGED nfeVars

VincularItem(s, r, i, p) ==
    /\ Pendente(r)
    /\ i \in DOMAIN Linhas(r)
    /\ p \in catalogo
    /\ Iniciar(s, [op |-> "vincular", rasc |-> r, item |-> i, prod |-> p,
                   antes |-> rascunho[r].itens[i]], "movendo", {})
    /\ UNCHANGED nfeVars

CriarNovo(s, r, i) ==
    /\ Pendente(r)
    /\ i \in DOMAIN Linhas(r)
    /\ Iniciar(s, [op |-> "novo", rasc |-> r, item |-> i,
                   prod |-> ProdutoDoCodigo[Linhas(r)[i].cod],
                   antes |-> rascunho[r].itens[i]], "movendo", {})
    /\ UNCHANGED nfeVars

\* The UPDATE of the line sets the columns the handler has changed.
GravarItem(p, status) ==
    rascunho' = [rascunho EXCEPT ![p.rasc].itens[p.item] =
        [prod |-> GravarColuna(@.prod, p.antes.prod, p.prod),
         status |-> GravarColuna(@.status, p.antes.status, status)]]

ConcluirVincular(s) ==
    LET p == pedido[s] IN
    /\ p # Livre /\ p.op = "vincular"
    /\ Gravar(s, p.rasc)
    /\ GravarItem(p, "VINCULADO")
    /\ UNCHANGED <<entradas, mapeamento, catalogo>>

ConcluirNovo(s) ==
    LET p == pedido[s] IN
    /\ p # Livre /\ p.op = "novo"
    /\ p.prod \notin catalogo
    /\ Gravar(s, p.rasc)
    /\ GravarItem(p, "NOVO")
    /\ catalogo' = catalogo \cup {p.prod}
    /\ UNCHANGED <<entradas, mapeamento>>

\* UNIQUE (codigo, tenant_id): the INSERT of the product fails.
CodigoRepetido(s) ==
    LET p == pedido[s] IN
    /\ p # Livre /\ p.op = "novo"
    /\ p.prod \in catalogo
    /\ SessaoLimpa(s)
    /\ UNCHANGED <<banco, iniciados, nfeVars>>

(***************************************************************************)
(* confirmar: SELECT draft ; SELECT lines ; INSERT entrada_nfe ; for each  *)
(* line its movement, then the upsert of its mapping ; COMMIT.             *)
(***************************************************************************)
Confirmar(s, r) ==
    /\ Pendente(r)
    /\ Iniciar(s, [op |-> "confirmar", rasc |-> r, itens |-> SemItens, feitas |-> {}],
               "lendo", {})
    /\ UNCHANGED nfeVars

\* Mutants: the lines are read with no look at their status; the lines that are
\* still open are left out instead of refusing the note.
LerSemConferir(s) ==
    LET r == pedido[s].rasc IN
    /\ fase[s] = "lendo"
    /\ pedido' = [pedido EXCEPT ![s] =
                     [op |-> "confirmar", rasc |-> r, itens |-> rascunho[r].itens,
                      feitas |-> {}]]
    /\ fase' = [fase EXCEPT ![s] = "entrada"]
    /\ UNCHANGED <<banco, memoria, fila, iniciados, nfeVars>>

LerLigados(s) ==
    LET r == pedido[s].rasc
        ligados == {i \in DOMAIN Linhas(r) : rascunho[r].itens[i].status # "PENDENTE"}
    IN  /\ fase[s] = "lendo"
        /\ pedido' = [pedido EXCEPT ![s] =
                         [op |-> "confirmar", rasc |-> r,
                          itens |-> [i \in ligados |-> rascunho[r].itens[i]],
                          feitas |-> {}]]
        /\ fase' = [fase EXCEPT ![s] = "entrada"]
        /\ UNCHANGED <<banco, memoria, fila, iniciados, nfeVars>>

TemPendente(r) == \E i \in DOMAIN Linhas(r) : rascunho[r].itens[i].status = "PENDENTE"

LerLinhas(s) ==
    LET r == pedido[s].rasc IN
    /\ fase[s] = "lendo"
    /\ ~TemPendente(r)
    /\ pedido' = [pedido EXCEPT ![s] =
                     [op |-> "confirmar", rasc |-> r, itens |-> rascunho[r].itens,
                      feitas |-> {}]]
    /\ fase' = [fase EXCEPT ![s] = "entrada"]
    /\ UNCHANGED <<banco, memoria, fila, iniciados, nfeVars>>

\* RascunhoPendente.
RecusarPendente(s) ==
    /\ fase[s] = "lendo"
    /\ TemPendente(pedido[s].rasc)
    /\ SessaoLimpa(s)
    /\ UNCHANGED <<banco, iniciados, nfeVars>>

\* A session that inserted an entry with this key and has not ended yet.
ChaveEmDisputa(s, c) ==
    /\ c # SemChave
    /\ \E t \in Sessoes \ {s} :
          /\ pedido[t] # Livre /\ pedido[t].op = "confirmar"
          /\ fase[t] = "movendo"
          /\ ChaveDe(rascunho[pedido[t].rasc].nota) = c

\* Mutants: chave_nfe is not unique; lines that made a new product are skipped.
InserirChaveRepetida(s) ==
    LET r == pedido[s].rasc IN
    /\ fase[s] = "entrada"
    /\ fase' = [fase EXCEPT ![s] = "movendo"]
    /\ fila' = [fila EXCEPT ![s] =
                   {[item |-> i, prod |-> pedido[s].itens[i].prod,
                     tipos |-> {"ENTRADA"}, qtd |-> Linhas(r)[i].qtd]
                       : i \in DOMAIN Linhas(r)}]
    /\ UNCHANGED <<banco, memoria, pedido, iniciados, nfeVars>>

InserirSemNovos(s) ==
    LET r == pedido[s].rasc
        conhecidas == {i \in DOMAIN Linhas(r) : pedido[s].itens[i].status # "NOVO"}
    IN  /\ fase[s] = "entrada"
        /\ ~ChaveEmDisputa(s, ChaveDe(rascunho[r].nota))
        /\ ~ChaveImportada(ChaveDe(rascunho[r].nota))
        /\ fase' = [fase EXCEPT ![s] = "movendo"]
        /\ fila' = [fila EXCEPT ![s] =
                       {[item |-> i, prod |-> pedido[s].itens[i].prod,
                         tipos |-> {"ENTRADA"}, qtd |-> Linhas(r)[i].qtd] : i \in conhecidas}]
        /\ UNCHANGED <<banco, memoria, pedido, iniciados, nfeVars>>

\* The flush of the new entrada_nfe: the unique index on chave_nfe makes it wait
\* for an open insertion of the same key.
InserirEntrada(s) ==
    LET r == pedido[s].rasc
        c == ChaveDe(rascunho[r].nota)
    IN  /\ fase[s] = "entrada"
        /\ ~ChaveEmDisputa(s, c)
        /\ ~ChaveImportada(c)
        /\ fase' = [fase EXCEPT ![s] = "movendo"]
        /\ fila' = [fila EXCEPT ![s] =
                       {[item |-> i, prod |-> pedido[s].itens[i].prod,
                         tipos |-> {"ENTRADA"}, qtd |-> Linhas(r)[i].qtd]
                           : i \in DOMAIN pedido[s].itens}]
        /\ UNCHANGED <<banco, memoria, pedido, iniciados, nfeVars>>

\* The unique index refuses a key that has been committed meanwhile.
ChaveRepetida(s) ==
    LET c == ChaveDe(rascunho[pedido[s].rasc].nota) IN
    /\ fase[s] = "entrada"
    /\ ~ChaveEmDisputa(s, c)
    /\ ChaveImportada(c)
    /\ SessaoLimpa(s)
    /\ UNCHANGED <<banco, iniciados, nfeVars>>

\* The line whose movement has been registered and whose mapping has not.
EmMaos(s) == {i \in DOMAIN pedido[s].itens : /\ i \notin pedido[s].feitas
                                             /\ \A m \in fila[s] : m.item # i}

\* Codigos whose mapping row the open confirmation t has written, and locked.
CodigosPresos(t) == {c \in Codigos :
    /\ pedido[t] # Livre /\ pedido[t].op = "confirmar"
    /\ \E i \in pedido[t].feitas : Linhas(pedido[t].rasc)[i].cod = c}

\* The upsert of line i would wait for the mapping row another session wrote.
MapeamentoPreso(s, i) ==
    \E t \in Sessoes \ {s} : Linhas(pedido[s].rasc)[i].cod \in CodigosPresos(t)

\* _upsert_mapeamento, once per line: the autoflush sends the changed products,
\* the INSERT ... ON CONFLICT DO UPDATE locks the row of the code.
MapearLinha(s, i) ==
    /\ fase[s] = "movendo"
    /\ i \in EmMaos(s)
    /\ PodeGravar(s)
    /\ ~MapeamentoPreso(s, i)
    /\ travas' = [travas EXCEPT ![s] = sujos[s]]
    /\ pedido' = [pedido EXCEPT ![s] =
                     [op |-> "confirmar", rasc |-> @.rasc, itens |-> @.itens,
                      feitas |-> @.feitas \cup {i}]]
    /\ UNCHANGED <<banco, lido, atual, sujos, linhas, fase, fila, iniciados, nfeVars>>

\* The autoflush goes out and the upsert waits for the row of the code.
EsperarMapeamento(s, i) ==
    /\ fase[s] = "movendo"
    /\ i \in EmMaos(s)
    /\ PodeGravar(s)
    /\ MapeamentoPreso(s, i)
    /\ travas[s] # sujos[s]
    /\ travas' = [travas EXCEPT ![s] = sujos[s]]
    /\ UNCHANGED <<banco, lido, atual, sujos, linhas, pedido, fase, fila, iniciados, nfeVars>>

NovaEntrada(r) == [rasc |-> r, chave |-> ChaveDe(rascunho[r].nota), status |-> "ABERTA",
                   num |-> Cardinality({e \in entradas : e.rasc = r}) + 1]

ConcluirConfirmar(s) ==
    LET p == pedido[s]
        codigosDe == {Linhas(p.rasc)[i].cod : i \in DOMAIN p.itens}
    IN  /\ p # Livre /\ p.op = "confirmar"
        /\ EmMaos(s) = {}
        /\ Gravar(s, p.rasc)
        /\ entradas' = entradas \cup {NovaEntrada(p.rasc)}
        /\ rascunho' = [rascunho EXCEPT ![p.rasc].status = "CONFIRMADA"]
        /\ \E m \in [codigosDe -> Produtos] :
              /\ \A c \in codigosDe : \E i \in DOMAIN p.itens :
                    Linhas(p.rasc)[i].cod = c /\ p.itens[i].prod = m[c]
              /\ mapeamento' = [c \in Codigos |->
                                   IF c \in codigosDe THEN m[c] ELSE mapeamento[c]]
        /\ UNCHANGED catalogo

(***************************************************************************)
(* cancelar (draft) and processar_entrada (entry).                         *)
(***************************************************************************)
\* Mutant: a confirmed draft can be cancelled.
CancelarSempre(s, r) ==
    /\ rascunho[r] # Livre /\ rascunho[r].status # "CANCELADA"
    /\ Iniciar(s, [op |-> "descartar", rasc |-> r], "movendo", {})
    /\ UNCHANGED nfeVars

CancelarRascunho(s, r) ==
    /\ Pendente(r)
    /\ Iniciar(s, [op |-> "descartar", rasc |-> r], "movendo", {})
    /\ UNCHANGED nfeVars

ConcluirDescartar(s) ==
    LET p == pedido[s] IN
    /\ p # Livre /\ p.op = "descartar"
    /\ Gravar(s, p.rasc)
    /\ rascunho' = [rascunho EXCEPT ![p.rasc].status = "CANCELADA"]
    /\ UNCHANGED <<entradas, mapeamento, catalogo>>

ProcessarEntrada(s, e) ==
    /\ e.status # "PROCESSADA"
    /\ Iniciar(s, [op |-> "processar", rasc |-> e.rasc, num |-> e.num], "movendo", {})
    /\ UNCHANGED nfeVars

ConcluirProcessar(s) ==
    LET p == pedido[s] IN
    /\ p # Livre /\ p.op = "processar"
    /\ Gravar(s, p.rasc)
    /\ \E e \in entradas :
          /\ e.rasc = p.rasc /\ e.num = p.num
          /\ entradas' = (entradas \ {e}) \cup {[e EXCEPT !.status = "PROCESSADA"]}
    /\ UNCHANGED <<rascunho, mapeamento, catalogo>>

(***************************************************************************)
(* Specification.                                                          *)
(***************************************************************************)
InitEntradas == InitEstoque /\ InitNfe

PedirNfe(s) ==
    \/ \E r \in Rascunhos, n \in Notas : CriarRascunho(s, r, n)
    \/ \E r \in Rascunhos, i \in Itens, p \in Produtos : VincularItem(s, r, i, p)
    \/ \E r \in Rascunhos, i \in Itens : CriarNovo(s, r, i)
    \/ \E r \in Rascunhos : Confirmar(s, r)
    \/ \E r \in Rascunhos : CancelarRascunho(s, r)
    \/ \E e \in entradas : ProcessarEntrada(s, e)

\* Only a confirmation moves stock; the next line follows the mapping of the last.
MovimentarNfe(s) ==
    /\ pedido[s] # Livre /\ pedido[s].op = "confirmar"
    /\ EmMaos(s) = {}
    /\ \E m \in fila[s] : RegistrarMovimentacao(s, m)
    /\ UNCHANGED nfeVars

MapearNfe(s) ==
    /\ pedido[s] # Livre /\ pedido[s].op = "confirmar"
    /\ \E i \in Itens : MapearLinha(s, i) \/ EsperarMapeamento(s, i)

AtenderNfe(s) ==
    \/ CasarItens(s) \/ ConcluirRascunho(s)
    \/ ConcluirVincular(s) \/ ConcluirNovo(s) \/ CodigoRepetido(s)
    \/ LerLinhas(s) \/ RecusarPendente(s) \/ InserirEntrada(s) \/ ChaveRepetida(s)
    \/ MovimentarNfe(s) \/ MapearNfe(s) \/ ConcluirConfirmar(s)
    \/ ConcluirDescartar(s) \/ ConcluirProcessar(s)

\* x, its products flushed, waits for a mapping row that y has written.
EsperaMapeamento(x, y) ==
    /\ x # y /\ fase[x] = "movendo"
    /\ pedido[x] # Livre /\ pedido[x].op = "confirmar"
    /\ sujos[x] = travas[x]
    /\ \E i \in EmMaos(x) : Linhas(pedido[x].rasc)[i].cod \in CodigosPresos(y)

\* Mutant: the waits for mapping rows are not looked at.
EsperasDeProduto == Esperas

\* The waits for product rows and those for mapping rows make cycles together.
EsperasNfe == Esperas \cup
    {par \in Sessoes \X Sessoes : EsperaMapeamento(par[1], par[2])}

DetectarDeadlockNfe(s) == VitimaDeadlock(s, EsperasNfe) /\ UNCHANGED nfeVars

CairNfe(s) == Abortar(s) /\ UNCHANGED nfeVars

NextNfe == \E s \in Sessoes :
    PedirNfe(s) \/ AtenderNfe(s) \/ DetectarDeadlockNfe(s) \/ CairNfe(s)

SpecNfe == InitEntradas /\ [][NextNfe]_varsNfe

-----------------------------------------------------------------------------
(***************************************************************************)
(* Properties.                                                             *)
(***************************************************************************)

\* The types of the NF-e tables.
TypeNfe ==
    /\ rascunho \in [Rascunhos -> Rascunho \cup {Livre}]
    /\ entradas \subseteq [rasc : Rascunhos, chave : {ChaveDe(n) : n \in Notas},
                           status : {"ABERTA", "PROCESSADA"}, num : Nat]
    /\ IsFiniteSet(entradas)
    /\ mapeamento \in [Codigos -> Produtos \cup {Livre}]
    /\ catalogo \subseteq Produtos

\* What a session with request p in phase f keeps fits the draft it is about.
Coerente(p, f) ==
    /\ f = "casando" => p \in PedidoCriar
    /\ f \in {"lendo", "entrada"} => p \in PedidoConfirmar
    /\ p \in PedidoCriar =>
          /\ rascunho[p.rasc] = Livre
          /\ f = "movendo" => p.itens \in ItensDe(p.nota)
    /\ p \in PedidoVincular =>
          /\ rascunho[p.rasc] # Livre
          /\ p.item \in DOMAIN Linhas(p.rasc)
          /\ p.antes \in ItemLigado => rascunho[p.rasc].itens[p.item] \in ItemLigado
    /\ p \in PedidoConfirmar =>
          /\ rascunho[p.rasc] # Livre
          /\ f # "lendo" => p.itens \in [DOMAIN Linhas(p.rasc) -> ItemLigado]
    /\ p \in PedidoDescartar => rascunho[p.rasc] # Livre

SessaoNfe(s) == Coerente(pedido[s], fase[s])

\* Two uploads make two drafts.
RascunhosDistintos ==
    \A s, t \in Sessoes : s # t /\ pedido[s] \in PedidoCriar /\ pedido[t] \in PedidoCriar
                             => pedido[s].rasc # pedido[t].rasc

\* The sessions fit the drafts, and no two of them fill the same one.
NfeConsistente ==
    /\ \A s \in Sessoes : SessaoNfe(s)
    /\ RascunhosDistintos

\* Every variable has its type, a session holds a request for an NF-e endpoint,
\* and what it keeps fits the draft it is about.
TypeOkNfe ==
    /\ TypeEstoque
    /\ TypeNfe
    /\ pedido \in [Sessoes -> PedidoNfe \cup {Livre}]
    /\ fase \in [Sessoes -> {"livre", "casando", "lendo", "entrada", "movendo"}]
    /\ NfeConsistente

\* "NF-e ja importada": a key enters the stock at most once, through whatever
\* number of drafts of the same note and however their confirmations race.
ChaveEntraUmaVez ==
    \A e, f \in entradas : e.chave = f.chave /\ e.chave # SemChave => e = f

\* Every entry moved the whole note, and nothing moves stock without an entry:
\* per draft, the ENTRADA rows add up to the lines times the entries created.
NotaEntraInteira ==
    \A r \in Rascunhos : rascunho[r] # Livre =>
        LET porEntrada == [i \in DOMAIN Linhas(r) |-> Linhas(r)[i].qtd]
            movido == [p \in Produtos |-> porRef[r][p]["ENTRADA"]]
            vezes == Cardinality({e \in entradas : e.rasc = r})
        IN  SumFunction(movido) = vezes * SumFunction(porEntrada)

\* A draft is confirmed only when every line has a product, and a line that has
\* one never loses it: a confirmed draft has no PENDENTE line.
ConfirmadaSemPendente ==
    \A r \in Rascunhos : rascunho[r] # Livre /\ rascunho[r].status = "CONFIRMADA"
        => ~TemPendente(r)

\* "Cancelar rascunho nao afeta o estoque" (REQUIREMENTS.md, 4.3): a draft that
\* reads CANCELADA has brought nothing into the stock.
CanceladaSemEntrada ==
    \A r \in Rascunhos : rascunho[r] # Livre /\ rascunho[r].status = "CANCELADA"
        => \A p \in Produtos : porRef[r][p]["ENTRADA"] = 0

\* What a confirmed draft shows is what was moved: the stock of each product
\* received the lines linked to it.
ConfirmadaMostraEntrada ==
    \A r \in Rascunhos : rascunho[r] # Livre /\ rascunho[r].status = "CONFIRMADA"
        => \A p \in Produtos :
              LET deP == {i \in DOMAIN Linhas(r) : rascunho[r].itens[i].prod = p}
              IN  porRef[r][p]["ENTRADA"] =
                      SumFunctionOnSet([i \in deP |-> Linhas(r)[i].qtd], deP)
=============================================================================
