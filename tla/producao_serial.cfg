SPECIFICATION Spec
CONSTANTS
    u1 = u1  u2 = u2  p1 = p1  e1 = e1  e2 = e2
    Unidades = {u1, u2}
    Chave <- MesmaChave
    Etapas = {e1}
    Protocolos = {p1}
    Obrigatorias <- UmaEtapa
    SemProtocolo = SemProtocolo
    SemEtapa = SemEtapa
    Threads = {t1}
    MaxPedidos = 5
    Livre = Livre
INVARIANTS CodigoUnico LoteNoCiclo SnapshotCompleto UmCicloLivre
PROPERTIES MaquinaDeEstados
CHECK_DEADLOCK FALSE
