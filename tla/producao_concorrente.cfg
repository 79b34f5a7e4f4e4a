SPECIFICATION Spec
CONSTANTS
    u1 = u1  u2 = u2  p1 = p1  e1 = e1  e2 = e2
    Unidades = {u1}
    Chave <- MesmaChave
    Etapas = {e1, e2}
    Protocolos = {p1}
    Obrigatorias <- UmaEtapa
    SemProtocolo = SemProtocolo
    SemEtapa = SemEtapa
    Threads = {t1, t2}
    MaxPedidos = 4
    Livre = Livre
INVARIANTS TypeOk LoteCompleto AditamentoLigado
PROPERTIES VitrineSpec
SYMMETRY Simetria
CHECK_DEADLOCK FALSE
