SPECIFICATION SpecOS
CONSTANTS
    a = a  b = b
    Produtos = {a}
    OSs = {o1}
    Refs = {o1}
    Sessoes = {s1}
    Itens = {i1, i2}
    Quantidades = {1, 2}
    EstoqueInicial <- DoisDeCada
    MaxPedidos = 4
    Livre = Livre
    Operacoes = {"abrir", "adicionar", "remover", "status", "fechar", "cancelar"}
INVARIANT FechadaConverteReserva
CHECK_DEADLOCK FALSE
