---------------------------- MODULE MCWebOficina ----------------------------
(* Small instances of WebOficina. *)
EXTENDS WebOficina

Rot(t, l, e, o, c) == [telas |-> t, logins |-> l, envios |-> e, ops |-> o, chaves |-> c,
                       fichas |-> 2, linhas |-> {"PENDENTE"}]

\* The home screen and three sessions; the items, the status and the time sheets of an
\* order; the review by one user, who links a line meanwhile, and beside a colleague;
\* its supplier and its products edited, when reads fail and when they do not;
\* products created, edited, and imported.
Inicio == Rot({"inicio", "entradas"}, 3, 0, {"sair", "vencer"}, {})
Itens == Rot({"os"}, 1, 2, {"item", "remover"}, {"itens"})
Fecho == Rot({"os"}, 1, 2, {"status", "fechar", "cancelar", "sair"}, {})
Apts == Rot({"os"}, 1, 2, {"apt", "removerApt", "vencer"}, {"apts"})
DaNota(r) == [r EXCEPT !.linhas = {"PENDENTE", "AUTO_VINCULADO"}]
Revisao == Rot({"revisao"}, 1, 3, {"criar", "confirmar", "vincular"}, {})
ADois == DaNota(Rot({"revisao"}, 1, 2, {"criar", "confirmar", "colega"}, {"rascunho"}))
Cancela == Rot({"revisao"}, 1, 2, {"criar", "cancelar", "vencer"}, {})
Vinculada(r) == [r EXCEPT !.linhas = {"AUTO_VINCULADO"}]
Cadastro == Rot({"revisao"}, 1, 1, {"ficha", "vencer"}, {})
CadastroDuas == Vinculada(Rot({"revisao"}, 1, 2, {"ficha"}, {}))
CadastroFalho == Rot({"revisao", "entradas"}, 1, 2, {"ficha"}, {"ficha"})
Novo == Rot({"estoque"}, 1, 2, {"novo", "marca"}, {})
Ficha == Rot({"estoque"}, 1, 2, {"salvar", "marca"}, {})
Planilha == Rot({"estoque"}, 1, 1, {"importar", "salvar", "vencer"}, {"produtos"})

RoteirosWeb == {Inicio, Itens, Fecho, Apts, Revisao, ADois, Cancela, Cadastro, CadastroDuas, CadastroFalho, Novo, Ficha, Planilha}
=============================================================================
