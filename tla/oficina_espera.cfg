SPECIFICATION DisputaSpec
CONSTANTS
    a = a  b = b  i1 = i1  i2 = i2  n1 = n1  n2 = n2  c1 = c1  c2 = c2  k1 = k1
    o1 = o1  r1 = r1  r2 = r2
    Produtos = {a, b}
    OSs = {o1}
    Rascunhos = {r1, r2}
    Balcao = balcao
    Refs = {o1, r1, r2, balcao}
    Sessoes = {s1, s2}
    Itens = {i1, i2}
    Quantidades = {1}
    EstoqueInicial <- DoisDeCada
    MaxPedidos = 2
    Livre = Livre
    Operacoes = {"remover", "fechar", "cancelar"}
    Notas = {n1, n2}
    Nota <- ComESemChave
    Codigos = {c1, c2}
    ProdutoDoCodigo <- CodigoProduto
    CatalogoInicial = {a, b}
    SemChave = SemChave
PROPERTY TodoPedidoTermina
CHECK_DEADLOCK FALSE
