SPECIFICATION Spec
CONSTANTS
    SemDado = SemDado
    Roteiros <- RoteirosWeb
    Formas = {"lista", "pagina"}
    Linhas = {1, 2}
    Iniciais = 2
    PAGE_SIZE = 2
    MaxPaginas = 2
INVARIANTS TypeOk ConfirmaSemPendente LeituraPropria FichaDoProduto CadastroPreservado
PROPERTIES VencidaSai
CHECK_DEADLOCK FALSE
