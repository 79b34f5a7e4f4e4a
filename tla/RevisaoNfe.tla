----------------------------- MODULE RevisaoNfe -----------------------------
(***************************************************************************)
(* The review of an imported note (/app/estoque/nfe-revisao/$rascunhoId):  *)
(* two steps over one cached draft.  "Concluir" is a loop of awaited       *)
(* writes, one for every line the cached draft has pending, that ends with *)
(* the confirmation; it runs on whatever becomes of the page.              *)
(***************************************************************************)
EXTENDS Sessao, Consultas

CONSTANT Linhas      \* the lines of the note, in their order: numbers

ASSUME LinhasAssumption == Linhas \in SUBSET Nat /\ IsFiniteSet(Linhas)

VARIABLES
    rasc,        \* the server's draft: its status and the status of its lines
    consultaRev, \* the cache entry of the draft
    formRev,     \* the local state of the page
    vooRev       \* writes sent and not answered

revVars == <<rasc, consultaRev, formRev, vooRev>>

\* The step on the screen; the loop whose end the step waits for, by the number of
\* its first write, 0 for none; the mutations and the loops of this page.
FormRevInicial == [passo |-> "fornecedor", laco |-> 0, suas |-> {}]

InitRev ==
    /\ rasc \in [status : {"PENDENTE"}, linha : [Linhas -> roteiro.linhas]]
    /\ consultaRev = Vazia
    /\ formRev = FormRevInicial
    /\ vooRev = {}

Pendentes(r) == {l \in Linhas : r.linha[l] = "PENDENTE"}

Primeira(S) == CHOOSE l \in S : \A k \in S : l <= k

-----------------------------------------------------------------------------
(***************************************************************************)
(* What the page shows and lets the user do.                               *)
(***************************************************************************)
Lido == consultaRev.dado

RevisaoAberta == tela = "revisao" /\ Lido # SemDado /\ formRev.passo # "erro"

Encerrado == Lido.status # "PENDENTE"

EmCurso(op) == \E p \in vooRev : p.op = op /\ p.n \in formRev.suas

NoPassoProdutos == RevisaoAberta /\ formRev.passo = "produtos"

Avancar ==
    /\ RevisaoAberta /\ formRev.passo = "fornecedor"
    /\ formRev' = [formRev EXCEPT !.passo = "produtos"]
    /\ UNCHANGED <<rasc, consultaRev, vooRev, envios, destino>>

\* The first step goes back to the list; the second to the first, which unmounts
\* it: "autoCreando" is forgotten though the loop goes on.
VoltarAoFornecedor ==
    /\ NoPassoProdutos /\ ~Encerrado
    /\ formRev' = [formRev EXCEPT !.passo = "fornecedor", !.laco = 0]
    /\ UNCHANGED <<rasc, consultaRev, vooRev, envios, destino>>

VoltarALista ==
    /\ RevisaoAberta /\ formRev.passo = "fornecedor"
    /\ destino' = "entradas"
    /\ UNCHANGED <<rasc, consultaRev, formRev, vooRev, envios>>

MandarRev(op, arg, f) ==
    /\ Usa(op) /\ Contar
    /\ vooRev' = vooRev \cup {Pedido(op, arg)}
    /\ formRev' = f
    /\ UNCHANGED <<rasc, consultaRev, destino>>

DaPagina(f) == [f EXCEPT !.suas = @ \cup {envios + 1}]

\* A pending line is typed into: its products are listed and one is picked, or, when
\* the answer is a page, rendering it throws and the route shows its error.
Vincular(l) ==
    /\ NoPassoProdutos /\ ~Encerrado /\ l \in Pendentes(Lido)
    /\ "lista" \in Formas
    /\ MandarRev("vincular", l, formRev)

ListarPagina ==
    /\ NoPassoProdutos /\ ~Encerrado /\ Pendentes(Lido) # {}
    /\ "pagina" \in Formas
    /\ formRev' = [passo |-> "erro", laco |-> 0, suas |-> {}]
    /\ UNCHANGED <<rasc, consultaRev, vooRev, envios, destino>>

\* "Cancelar importação", in either step.
CancelarImportacao ==
    /\ RevisaoAberta /\ ~Encerrado /\ ~EmCurso("cancelar")
    /\ MandarRev("cancelar", 0, DaPagina(formRev))

\* The next write of the loop that began with write "laco": the first line of S.
Criar(S, laco) == [linha |-> Primeira(S), resto |-> S \ {Primeira(S)}, laco |-> laco]

\* Mutant: the lines are sent without waiting for each other or for their end.
ConcluirSemEsperar ==
    /\ NoPassoProdutos /\ ~Encerrado
    /\ ~EmCurso("confirmar") /\ formRev.laco = 0
    /\ MandarRev("confirmar", 0, DaPagina(formRev))

\* handleConcluir: the lines to create are those pending in the draft on the screen.
Concluir ==
    /\ NoPassoProdutos /\ ~Encerrado
    /\ ~EmCurso("confirmar") /\ formRev.laco = 0
    /\ IF Pendentes(Lido) = {}
       THEN MandarRev("confirmar", 0, DaPagina(formRev))
       ELSE MandarRev("criar", Criar(Pendentes(Lido), envios + 1),
                   [DaPagina(formRev) EXCEPT !.laco = envios + 1])

-----------------------------------------------------------------------------
(***************************************************************************)
(* The server, as one step of each write: the rules of the drafts module.  *)
(***************************************************************************)

\* A line of an open draft is linked, or given a new product, whatever its status;
\* a second product with the code of the line is refused by its unique index.
AceitaRev(p) ==
    /\ rasc.status = "PENDENTE"
    /\ p.op = "criar" => rasc.linha[p.arg.linha] # "NOVO"
    /\ p.op = "confirmar" => Pendentes(rasc) = {}

EfeitoRev(p) ==
    CASE p.op = "vincular"  -> [rasc EXCEPT !.linha[p.arg] = "VINCULADO"]
      [] p.op = "criar"     -> [rasc EXCEPT !.linha[p.arg.linha] = "NOVO"]
      [] p.op = "confirmar" -> [rasc EXCEPT !.status = "CONFIRMADA"]
      [] OTHER              -> [rasc EXCEPT !.status = "CANCELADA"]

\* Somebody else at the same draft.
Colega ==
    /\ Usa("colega") /\ rasc.status = "PENDENTE"
    /\ \/ \E l \in Pendentes(rasc) : rasc' = [rasc EXCEPT !.linha[l] = "VINCULADO"]
       \/ rasc' = [rasc EXCEPT !.status = "CANCELADA"]
    /\ UNCHANGED <<consultaRev, formRev, vooRev, envios, token, destino>>

-----------------------------------------------------------------------------
(***************************************************************************)
(* The answers.                                                            *)
(***************************************************************************)
SoltarRev(p) == [formRev EXCEPT !.suas = @ \ {p.n}]

\* Mutant: the catch does not take "autoCreando" back.
LacoEsquecido(p) == [formRev EXCEPT !.suas = @ \ {p.arg.laco}]

\* The step stops waiting for the loop, if it is the one that began it.
LacoAcabou(p) == [formRev EXCEPT !.laco = IF @ = p.arg.laco THEN 0 ELSE @,
                                 !.suas = @ \ {p.arg.laco}]

Aceito(p) == p \in vooRev /\ Autorizado(p.cred) /\ AceitaRev(p) /\ rasc' = EfeitoRev(p)

RespostaVincular(p) ==
    /\ p.op = "vincular" /\ Aceito(p)
    /\ vooRev' = vooRev \ {p}
    /\ consultaRev' = Invalidar(consultaRev, tela = "revisao", token)
    /\ UNCHANGED <<formRev, envios, token, destino>>

\* The page goes to the entry, or to the list, wherever the user is by now.
RespostaPagina(p) ==
    /\ p.op \in {"confirmar", "cancelar"} /\ Aceito(p)
    /\ vooRev' = vooRev \ {p}
    /\ formRev' = SoltarRev(p)
    /\ destino' = "entradas"
    /\ UNCHANGED <<consultaRev, envios, token>>

\* The await returns: the next line is sent, or the draft is confirmed, by the page
\* the loop belongs to even if it is gone.  The cached draft is not read anew.
RespostaCriar(p) ==
    /\ p.op = "criar" /\ Aceito(p)
    /\ Contar
    /\ IF p.arg.resto # {}
       THEN /\ vooRev' = (vooRev \ {p}) \cup {Pedido("criar", Criar(p.arg.resto, p.arg.laco))}
            /\ UNCHANGED formRev
       ELSE /\ vooRev' = (vooRev \ {p}) \cup {Pedido("confirmar", 0)}
            /\ formRev' = IF p.arg.laco \in formRev.suas THEN DaPagina(LacoAcabou(p)) ELSE formRev
    /\ UNCHANGED <<consultaRev, token, destino>>

\* The caller gets an error: the loop ends in silence, the page shows a message.
ComErro(p) ==
    /\ vooRev' = vooRev \ {p}
    /\ formRev' = IF p.op = "criar" THEN LacoAcabou(p) ELSE SoltarRev(p)
    /\ UNCHANGED <<consultaRev, envios>>

\* Refused; done, but the answer is lost; the session is over.
RecusaRev(p) == p \in vooRev /\ ComErro(p) /\ UNCHANGED <<rasc, token, destino>>

PerdidaRev(p) == Aceito(p) /\ ComErro(p) /\ UNCHANGED <<token, destino>>

SemSessaoRev(p) ==
    p \in vooRev /\ ~Autorizado(p.cred) /\ ComErro(p) /\ NaoAutorizado /\ UNCHANGED rasc

\* The reads of the draft, as on every page.
LerRev ==
    /\ Buscando(consultaRev) /\ ~Lida(consultaRev)
    /\ IF Autorizado(consultaRev.busca.cred)
       THEN consultaRev' = Ler(consultaRev, rasc) /\ UNCHANGED <<token, destino>>
       ELSE consultaRev' = Desistir(consultaRev) /\ NaoAutorizado
    /\ UNCHANGED <<rasc, formRev, vooRev, envios>>

ReceberRev ==
    /\ Lida(consultaRev)
    /\ consultaRev' = Receber(consultaRev)
    /\ UNCHANGED <<rasc, formRev, vooRev, envios, token, destino>>

DesistirRev ==
    /\ "rascunho" \in roteiro.chaves /\ Buscando(consultaRev)
    /\ consultaRev' = Desistir(consultaRev)
    /\ UNCHANGED <<rasc, formRev, vooRev, envios, token, destino>>

FocarRev ==
    /\ "rascunho" \in roteiro.chaves /\ tela = "revisao" /\ ~Buscando(consultaRev)
    /\ consultaRev' = Refazer(consultaRev, token)
    /\ UNCHANGED <<rasc, formRev, vooRev, envios, token, destino>>

MontarRev(t) ==
    /\ formRev' = FormRevInicial
    /\ IF t = "revisao"
       THEN \E velha \in BOOLEAN : consultaRev' = Montar(consultaRev, token, velha)
       ELSE UNCHANGED consultaRev
    /\ UNCHANGED <<rasc, vooRev>>

CliqueRev ==
    \/ Avancar \/ VoltarAoFornecedor \/ VoltarALista
    \/ \E l \in Linhas : Vincular(l)
    \/ ListarPagina \/ CancelarImportacao \/ Concluir

RedeRev ==
    \/ Colega
    \/ \E p \in vooRev : \/ RespostaVincular(p) \/ RespostaPagina(p) \/ RespostaCriar(p)
                         \/ RecusaRev(p) \/ PerdidaRev(p) \/ SemSessaoRev(p)
    \/ LerRev \/ ReceberRev \/ DesistirRev \/ FocarRev
=============================================================================
