------------------------------ MODULE Produtos ------------------------------
(***************************************************************************)
(* The list of products (/app/estoque): the active products by pages, the  *)
(* form that creates one above it, the window that edits one over it, the  *)
(* spreadsheet, and in both forms the field of the brand, which registers  *)
(* a brand typed in and then chooses it.  The forms are known by the order *)
(* they were opened in: an answer may find its form closed, or another one *)
(* open in its place.                                                      *)
(***************************************************************************)
EXTENDS Sessao, Consultas

CONSTANTS
    Iniciais,     \* the products there are at first: 1 .. Iniciais
    PAGE_SIZE,    \* rows of a page
    MaxPaginas    \* bound: the last page visited

ASSUME ProdutosAssumption == Iniciais \in Nat /\ PAGE_SIZE \in Nat \ {0} /\ MaxPaginas \in Nat \ {0}

VARIABLES
    ativos,          \* the server's active products
    consultasProd,   \* the cache entries ["produtos", q, page], for one search
    telaProd,        \* the local state of the page
    fichas,          \* the form that creates, and the one that edits
    aberturas,       \* forms opened so far
    vooProd,         \* writes sent and not answered
    relendo          \* brands registered whose form waits for the list of brands

prodVars == <<ativos, consultasProd, telaProd, fichas, aberturas, vooProd, relendo>>

Paginas == 1 .. MaxPaginas

\* A form: the order it was opened in, 0 when it is closed, its product, 0 for a new
\* one, the write it waits for, and its fields.  The value of a field is known by
\* where it is from: the product whose row it was, and the form it was typed in.
Fechada == [n |-> 0, produto |-> 0, espera |-> 0, texto |-> <<0, 0>>, marca |-> <<0, 0>>, ativo |-> TRUE]

\* A form is mounted with what the row of its product shows.
FichaNova(p) == [Fechada EXCEPT !.n = aberturas + 1, !.produto = p,
                                !.texto = <<p, 0>>, !.marca = <<p, 0>>]

\* "antes": what the page showed last, while a page is loaded; "suas": the writes of
\* this mount; "xlsx": the spreadsheet under way.
TelaInicial == [page |-> 1, antes |-> SemDado, suas |-> {}, xlsx |-> 0]

InitProdutos ==
    /\ ativos = 1 .. Iniciais
    /\ consultasProd = [k \in Paginas |-> Vazia]
    /\ telaProd = TelaInicial
    /\ fichas = [novo |-> Fechada, editar |-> Fechada] /\ aberturas = 0
    /\ vooProd = {} /\ relendo = {}

\* A page of the products S, as the server answers it.
Pagina(S, k) ==
    LET ordem(x) == Cardinality({y \in S : y < x})
    IN  [itens |-> {x \in S : ordem(x) \div PAGE_SIZE = k - 1},
         paginas |-> IF S = {} THEN 1 ELSE (Cardinality(S) + PAGE_SIZE - 1) \div PAGE_SIZE]

-----------------------------------------------------------------------------
(***************************************************************************)
(* What the page shows and lets the user do.                               *)
(***************************************************************************)
Mostrada == IF consultasProd[telaProd.page].dado # SemDado
            THEN consultasProd[telaProd.page].dado ELSE telaProd.antes

NaListagem == tela = "estoque"

Mostrados == IF Mostrada = SemDado THEN {} ELSE Mostrada.itens

\* Another page is shown: what is on the screen stays until it is there.
Paginar(k) ==
    /\ NaListagem /\ k \in Paginas
    /\ telaProd' = [telaProd EXCEPT !.page = k, !.antes = Mostrada]
    /\ \E velha \in BOOLEAN :
           consultasProd' = [consultasProd EXCEPT ![k] = Montar(@, token, velha)]
    /\ UNCHANGED <<ativos, fichas, aberturas, vooProd, relendo, envios>>

\* The buttons are below the rows: an empty page has none, and only a search leads
\* back to the first page.
Anterior == Mostrados # {} /\ telaProd.page > 1 /\ Paginar(telaProd.page - 1)

Proxima == Mostrados # {} /\ telaProd.page < Mostrada.paginas /\ Paginar(telaProd.page + 1)

Pesquisar == telaProd.page # 1 /\ Paginar(1)

NaFicha(f) ==
    /\ NaListagem /\ fichas' = f
    /\ UNCHANGED <<ativos, consultasProd, telaProd, vooProd, relendo, envios>>

Abrir(qual, p) ==
    /\ fichas[qual].n = 0 /\ aberturas < roteiro.fichas
    /\ aberturas' = aberturas + 1
    /\ NaFicha([fichas EXCEPT ![qual] = FichaNova(p)])

AbrirNovo == Usa("novo") /\ Abrir("novo", 0)

Editar(p) == Usa("salvar") /\ p \in Mostrados /\ Abrir("editar", p)

\* "Cancelar", or the cross, also while the form waits.
FecharFicha(qual) ==
    /\ fichas[qual].n # 0
    /\ NaFicha([fichas EXCEPT ![qual] = Fechada])
    /\ UNCHANGED aberturas

\* The fields: typed in, a brand chosen from the list or taken away, the product
\* made inactive or active.
Preencher(qual) ==
    LET f == fichas[qual] IN
    /\ f.n # 0
    /\ \/ NaFicha([fichas EXCEPT ![qual].texto = <<f.produto, f.n>>])
       \/ NaFicha([fichas EXCEPT ![qual].marca = <<f.produto, f.n>>])
       \/ qual = "editar" /\ NaFicha([fichas EXCEPT ![qual].ativo = ~@])
    /\ UNCHANGED aberturas

MandarProd(op, arg) ==
    /\ NaListagem /\ Usa(op) /\ Contar
    /\ vooProd' = vooProd \cup {Pedido(op, arg)}
    /\ UNCHANGED <<ativos, consultasProd, aberturas, relendo>>

\* "+ Cadastrar": the field waits until its brand is chosen.
CadastrarMarca(qual) ==
    /\ fichas[qual].n # 0
    /\ \A p \in vooProd : p.op = "marca" => p.arg.n # fichas[qual].n
    /\ \A m \in relendo : m.n # fichas[qual].n
    /\ MandarProd("marca", fichas[qual])
    /\ UNCHANGED <<fichas, telaProd>>

OpDe(qual) == IF qual = "novo" THEN "novo" ELSE "salvar"

\* "Salvar", which the new form allows once it has its code and description.
Salvar(qual) ==
    /\ fichas[qual].n # 0 /\ fichas[qual].espera = 0
    /\ qual = "novo" => fichas[qual].texto = <<0, fichas[qual].n>>
    /\ MandarProd(OpDe(qual), fichas[qual])
    /\ fichas' = [fichas EXCEPT ![qual].espera = envios + 1]
    /\ telaProd' = [telaProd EXCEPT !.suas = @ \cup {envios + 1}]

ImportarXlsx ==
    /\ telaProd.xlsx = 0
    /\ MandarProd("importar", Fechada)
    /\ telaProd' = [telaProd EXCEPT !.xlsx = envios + 1]
    /\ UNCHANGED fichas

-----------------------------------------------------------------------------
(***************************************************************************)
(* The server: a product created, written over, or the rows of a sheet,    *)
(* which make each product active or not and may create one.               *)
(***************************************************************************)
EfeitosProd(p) ==
    CASE p.op = "novo"  -> {ativos \cup {Iniciais + p.n}}
      [] p.op = "salvar" -> {IF p.arg.ativo THEN ativos \cup {p.arg.produto}
                                            ELSE ativos \ {p.arg.produto}}
      [] p.op = "importar" -> SUBSET (ativos \cup 1 .. Iniciais \cup {Iniciais + p.n})
      [] OTHER             -> {ativos}

FeitoProd(p) == p \in vooProd /\ Autorizado(p.cred) /\ ativos' \in EfeitosProd(p)

-----------------------------------------------------------------------------
(***************************************************************************)
(* The answers.                                                            *)
(***************************************************************************)
SoltarProd(p) ==
    /\ vooProd' = vooProd \ {p}
    /\ telaProd' = [telaProd EXCEPT !.suas = @ \ {p.n}, !.xlsx = IF @ = p.n THEN 0 ELSE @]

\* invalidateQueries(["produtos"]): every page.
Reler == [k \in Paginas |->
             Invalidar(consultasProd[k], NaListagem /\ k = telaProd.page, token)]

\* onSuccess of the forms: onClose closes the form of the page, whichever is open by
\* now.
RespostaFicha(p) ==
    /\ p.op \in {"novo", "salvar"} /\ FeitoProd(p)
    /\ SoltarProd(p)
    /\ consultasProd' = Reler
    /\ fichas' = IF p.n \in telaProd.suas
                 THEN [fichas EXCEPT ![IF p.op = "novo" THEN "novo" ELSE "editar"] = Fechada] ELSE fichas
    /\ UNCHANGED <<aberturas, relendo, envios, token, destino>>

RespostaXlsx(p) ==
    /\ p.op = "importar" /\ FeitoProd(p)
    /\ SoltarProd(p)
    /\ consultasProd' = Reler
    /\ UNCHANGED <<fichas, aberturas, relendo, envios, token, destino>>

\* The brand is there: its form waits for the brands to be read anew, then chooses it,
\* whether they were or not.
RespostaMarca(p) ==
    /\ p.op = "marca" /\ FeitoProd(p)
    /\ SoltarProd(p)
    /\ relendo' = relendo \cup {p.arg}
    /\ UNCHANGED <<consultasProd, fichas, aberturas, envios, token, destino>>

\* Mutant: the brand is chosen in the form that is open.
EscolherNaAberta(m, qual) == fichas[qual].n # 0

\* The field that registered the brand is still there.
EscolherNaSua(m, qual) == fichas[qual].n = m.n

MarcaEscolhida(m) ==
    /\ m \in relendo
    /\ relendo' = relendo \ {m}
    /\ fichas' = [q \in DOMAIN fichas |->
                     IF EscolherNaSua(m, q) THEN [fichas[q] EXCEPT !.marca = <<m.produto, m.n>>]
                                            ELSE fichas[q]]
    /\ UNCHANGED <<ativos, consultasProd, telaProd, aberturas, vooProd, envios, token, destino>>

\* Refused; done, but the answer is lost; the session is over.  The form shows why.
FalhaProd(p) ==
    /\ SoltarProd(p)
    /\ fichas' = [q \in DOMAIN fichas |-> [fichas[q] EXCEPT !.espera = IF @ = p.n THEN 0 ELSE @]]
    /\ UNCHANGED <<consultasProd, aberturas, relendo, envios>>

RecusaProd(p) == p \in vooProd /\ FalhaProd(p) /\ UNCHANGED <<ativos, token, destino>>

PerdidaProd(p) == FeitoProd(p) /\ FalhaProd(p) /\ UNCHANGED <<token, destino>>

SemSessaoProd(p) ==
    p \in vooProd /\ ~Autorizado(p.cred) /\ FalhaProd(p) /\ NaoAutorizado /\ UNCHANGED ativos

\* The reads of the pages.
NaConsulta(k, c) ==
    /\ consultasProd' = [consultasProd EXCEPT ![k] = c]
    /\ UNCHANGED <<ativos, telaProd, fichas, aberturas, vooProd, relendo, envios>>

LerProd(k) ==
    LET c == consultasProd[k] IN
    /\ Buscando(c) /\ ~Lida(c)
    /\ IF Autorizado(c.busca.cred)
       THEN NaConsulta(k, Ler(c, Pagina(ativos, k))) /\ UNCHANGED <<token, destino>>
       ELSE NaConsulta(k, Desistir(c)) /\ NaoAutorizado

ReceberProd(k) ==
    Lida(consultasProd[k]) /\ NaConsulta(k, Receber(consultasProd[k])) /\ UNCHANGED <<token, destino>>

DesistirProd(k) ==
    /\ "produtos" \in roteiro.chaves /\ Buscando(consultasProd[k])
    /\ NaConsulta(k, Desistir(consultasProd[k])) /\ UNCHANGED <<token, destino>>

MontarProd(t) ==
    /\ telaProd' = TelaInicial
    /\ fichas' = [novo |-> Fechada, editar |-> Fechada]
    /\ IF t = "estoque"
       THEN \E velha \in BOOLEAN :
                consultasProd' = [consultasProd EXCEPT ![1] = Montar(@, token, velha)]
       ELSE UNCHANGED consultasProd
    /\ UNCHANGED <<ativos, aberturas, vooProd, relendo>>

CliqueProd ==
    \/ Anterior \/ Proxima \/ Pesquisar \/ AbrirNovo \/ ImportarXlsx
    \/ \E p \in Mostrados : Editar(p)
    \/ \E q \in DOMAIN fichas : FecharFicha(q) \/ Preencher(q) \/ CadastrarMarca(q) \/ Salvar(q)

RedeProd ==
    \/ \E p \in vooProd : \/ RespostaFicha(p) \/ RespostaXlsx(p) \/ RespostaMarca(p)
                          \/ RecusaProd(p) \/ PerdidaProd(p) \/ SemSessaoProd(p)
    \/ \E m \in relendo : MarcaEscolhida(m)
    \/ \E k \in Paginas : LerProd(k) \/ ReceberProd(k) \/ DesistirProd(k)
=============================================================================
