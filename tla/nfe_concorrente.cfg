SPECIFICATION SpecNfe
CONSTANTS
    a = a  b = b  i1 = i1  i2 = i2  n1 = n1  n2 = n2  c1 = c1  c2 = c2  k1 = k1
    Produtos = {a, b}
    Rascunhos = {r1, r2}
    Refs = {r1, r2}
    Sessoes = {s1, s2}
    Itens = {i1, i2}
    Quantidades = {1, 2}
    Notas = {n1, n2}
    Nota <- DuasNotas
    Codigos = {c1, c2}
    ProdutoDoCodigo <- CodigoProduto
    CatalogoInicial = {a}
    SemChave = SemChave
    EstoqueInicial <- Zerado
    MaxPedidos = 6
    Livre = Livre
SYMMETRY SimetriaCompleta
INVARIANTS TypeOkNfe ChaveEntraUmaVez NotaEntraInteira ConfirmadaSemPendente
CHECK_DEADLOCK FALSE
