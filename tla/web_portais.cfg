SPECIFICATION Spec
CONSTANTS
    u1 = u1  u2 = u2
    Unidades = {u1, u2}
    SemUnidade = SemUnidade
    SemDados = SemDados
    SemDado = SemDado
    Cenarios <- CenariosWeb
INVARIANTS TypeOk DadosDaSessao EnviadoValido
PROPERTIES EsperasTerminam TentarVolta CadastroAparece
CHECK_DEADLOCK FALSE
