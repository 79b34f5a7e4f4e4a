SPECIFICATION SpecOS
CONSTANTS
    a = a  b = b
    Produtos = {a}
    OSs = {o1}
    Refs = {o1}
    Sessoes = {s1, s2}
    Itens = {i1, i2}
    Quantidades = {1, 2}
    EstoqueInicial <- DoisDeCada
    MaxPedidos = 4
    Livre = Livre
    Operacoes = {"abrir", "adicionar"}
INVARIANT TrilhaFecha
CHECK_DEADLOCK FALSE
