---------------------------- MODULE FichasRevisao ----------------------------
(***************************************************************************)
(* The two forms inside the review of a note: the supplier's, which is its *)
(* first step, and the one that edits the product of a linked line, under  *)
(* that line.  Each is mounted with what the page shows, reads its record  *)
(* through the cache, and an effect fills its fields when the record is    *)
(* there.  What is typed is left out: a form is known by what the fields   *)
(* nobody typed in hold.                                                   *)
(***************************************************************************)
EXTENDS RevisaoNfe

ASSUME FichasAssumption == 0 \notin Linhas

VARIABLES
    fornecedor,    \* the server's record of the supplier: "inteiro", "apagado"
    painel,        \* of the second step: the line whose product is edited (editandoId),
                   \* 0 for none, and the updates sent since the step was mounted
    ficha,         \* the form on the screen
    consultasFic,  \* the cache entries of the supplier (0) and of the lines' products
    vooFic         \* updates sent and not answered

ficVars == <<fornecedor, painel, ficha, consultasFic, vooFic>>

Fichas == {0} \cup Linhas

PainelFechado == [linha |-> 0, suas |-> {}]

\* Its fields, empty before the effect, and the update it waits for.
FichaVazia == [campos |-> "vazio", espera |-> 0]

InitFichas ==
    /\ fornecedor = "inteiro" /\ painel = PainelFechado
    /\ ficha = FichaVazia
    /\ consultasFic = [f \in Fichas |-> Vazia]
    /\ vooFic = {}

\* The note names a supplier: in the instances that do not use the forms it has none.
TemFornecedor == Usa("ficha")

\* The form that is mounted: a line has a product when it is not pending.
Montada ==
    {f \in Fichas : IF f = 0 THEN RevisaoAberta /\ formRev.passo = "fornecedor" /\ TemFornecedor
                    ELSE NoPassoProdutos /\ painel.linha = f /\ f \notin Pendentes(Lido)}

\* What the effect leaves in the fields of a form whose entry is c.
Preenchida(f, c) == IF c.dado = SemDado THEN f ELSE [f EXCEPT !.campos = c.dado]

\* S is the form that is mounted from now on, or none.
Montagem(S, cred) ==
    IF S = {} THEN ficha' = FichaVazia /\ UNCHANGED consultasFic
    ELSE \E f \in S, velha \in {FALSE, "ficha" \in roteiro.chaves} :
             /\ ficha' = Preenchida(FichaVazia, consultasFic[f])
             /\ consultasFic' = [consultasFic EXCEPT ![f] = Montar(@, cred, velha)]

\* Part of every step of the page: the forms follow what it shows.
Acompanhar ==
    /\ painel' = IF NoPassoProdutos' THEN painel ELSE PainelFechado
    /\ IF Montada' = Montada THEN UNCHANGED <<ficha, consultasFic>> ELSE Montagem(Montada', token')
    /\ UNCHANGED <<fornecedor, vooFic>>

-----------------------------------------------------------------------------
\* "Editar" and "Fechar" of a linked line, "Cancelar" of its form.
Mostrar(l) ==
    /\ painel' = [painel EXCEPT !.linha = l]
    /\ Montagem({l} \ {0}, token)
    /\ UNCHANGED <<fornecedor, vooFic, envios>>

EditarLinha(l) ==
    /\ NoPassoProdutos /\ ~Encerrado /\ l \notin Pendentes(Lido) /\ Usa("ficha")
    /\ Mostrar(IF painel.linha = l THEN 0 ELSE l)

CancelarFicha ==
    /\ painel.linha \in Montada \ {0} /\ consultasFic[painel.linha].dado # SemDado
    /\ Mostrar(0)

\* Mutant: the first step shows its form while the supplier is read.
SempreMostra(f) == f = 0 \/ consultasFic[f].dado # SemDado

\* The first step shows a skeleton until the read ends, well or not; the panel of a
\* product shows nothing but a product.
Mostra(f) == IF f = 0 THEN ~(Buscando(consultasFic[f]) /\ consultasFic[f].dado = SemDado)
                      ELSE consultasFic[f].dado # SemDado

Atualizar ==
    \E f \in Montada :
        /\ Mostra(f) /\ ficha.espera = 0
        /\ Usa("ficha") /\ Contar
        /\ vooFic' = vooFic \cup {Pedido("ficha", [ficha |-> f, campos |-> ficha.campos])}
        /\ ficha' = [ficha EXCEPT !.espera = envios + 1]
        /\ painel' = IF f = 0 THEN painel ELSE [painel EXCEPT !.suas = @ \cup {envios + 1}]
        /\ UNCHANGED <<fornecedor, consultasFic>>

-----------------------------------------------------------------------------
\* atualizar_fornecedor sets every field the request names, the empty ones to null;
\* atualizar_produto passes over the empty ones.
FeitaFic(p) ==
    /\ p \in vooFic /\ Autorizado(p.cred)
    /\ fornecedor' = IF p.arg.ficha # 0 THEN fornecedor
                     ELSE IF p.arg.campos = "inteiro" THEN "inteiro" ELSE "apagado"

SoltarFic(p) ==
    /\ vooFic' = vooFic \ {p}
    /\ ficha' = [ficha EXCEPT !.espera = IF @ = p.n THEN 0 ELSE @]
    /\ painel' = [painel EXCEPT !.suas = @ \ {p.n}]

\* onSuccess: the entry of the record is read anew, and onDone closes the form of the
\* step it was opened in, whichever line's it is by now.
RespostaFic(p) ==
    /\ FeitaFic(p)
    /\ IF p.n \in painel.suas
       THEN vooFic' = vooFic \ {p} /\ ficha' = FichaVazia
            /\ painel' = [PainelFechado EXCEPT !.suas = painel.suas \ {p.n}]
       ELSE SoltarFic(p)
    /\ consultasFic' =
           [consultasFic EXCEPT ![p.arg.ficha] = Invalidar(@, p.arg.ficha \in Montada, token)]
    /\ UNCHANGED <<token, destino>>

\* Refused; done, but the answer is lost; the session is over.
FalhaFic(p) == SoltarFic(p) /\ UNCHANGED consultasFic

RecusaFic(p) == p \in vooFic /\ FalhaFic(p) /\ UNCHANGED <<fornecedor, token, destino>>

PerdidaFic(p) == FeitaFic(p) /\ FalhaFic(p) /\ UNCHANGED <<token, destino>>

SemSessaoFic(p) ==
    p \in vooFic /\ ~Autorizado(p.cred) /\ FalhaFic(p) /\ NaoAutorizado /\ UNCHANGED fornecedor

\* The reads: the effect runs when what is received is not what was there.
NaEntrada(f, c) ==
    /\ consultasFic' = [consultasFic EXCEPT ![f] = c]
    /\ ficha' = IF f \in Montada /\ c.dado # consultasFic[f].dado THEN Preenchida(ficha, c) ELSE ficha
    /\ UNCHANGED <<fornecedor, painel, vooFic>>

LerFic(f) ==
    LET c == consultasFic[f] IN
    /\ Buscando(c) /\ ~Lida(c)
    /\ IF Autorizado(c.busca.cred)
       THEN /\ NaEntrada(f, Ler(c, IF f = 0 THEN fornecedor ELSE "inteiro"))
            /\ UNCHANGED <<token, destino>>
       ELSE NaEntrada(f, Desistir(c)) /\ NaoAutorizado

ReceberFic(f) ==
    Lida(consultasFic[f]) /\ NaEntrada(f, Receber(consultasFic[f])) /\ UNCHANGED <<token, destino>>

DesistirFic(f) ==
    /\ "ficha" \in roteiro.chaves /\ Buscando(consultasFic[f])
    /\ NaEntrada(f, Desistir(consultasFic[f])) /\ UNCHANGED <<token, destino>>

CliqueFic == CancelarFicha \/ Atualizar \/ \E l \in Linhas : EditarLinha(l)

RedeFic ==
    \/ \E p \in vooFic : RespostaFic(p) \/ RecusaFic(p) \/ PerdidaFic(p) \/ SemSessaoFic(p)
    \/ \E f \in Fichas : LerFic(f) \/ ReceberFic(f) \/ DesistirFic(f)
=============================================================================
