SPECIFICATION Spec
CONSTANTS
    a = a  b = b  i1 = i1  i2 = i2  n1 = n1  n2 = n2  c1 = c1  c2 = c2  k1 = k1
    o1 = o1  r1 = r1  r2 = r2
    Produtos = {a, b}
    OSs = {o1}
    Rascunhos = {r1}
    Balcao = balcao
    Refs = {o1, r1, balcao}
    Sessoes = {s1, s2}
    Itens = {i1, i2}
    Quantidades <- ComNegativa
    EstoqueInicial <- UmDeCada
    MaxPedidos = 5
    Livre = Livre
    Operacoes = {"abrir", "adicionar", "remover", "status", "fechar", "cancelar"}
    Notas = {n1}
    Nota <- NotaDeDois
    Codigos = {c1, c2}
    ProdutoDoCodigo <- CodigoProduto
    CatalogoInicial = {a, b}
    SemChave = SemChave
SYMMETRY Simetria
INVARIANTS TypeOk NegativoExplicado VendaInteira ItemTemReserva FechadaTemHistorico
PROPERTIES SaldoAcompanhaTrilha LivroSpec
CHECK_DEADLOCK FALSE
