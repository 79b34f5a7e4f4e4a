SPECIFICATION Spec
CONSTANTS
    p1 = p1  p2 = p2  p3 = p3  c1 = c1  c2 = c2
    Placas = {p1, p2, p3}
    Clientes = {c1, c2}
    SemPlaca = SemPlaca
    SemCliente = SemCliente
    Dono <- DonoMC
    Cadastradas = {p1, p2}
    DoSinesp = {p3}
    Parametro = SemCliente
    DoCliente = {}
    PlacaParam = SemPlaca
    MaxPedidos = 4
INVARIANTS DonoSelecionado
CHECK_DEADLOCK FALSE
