SPECIFICATION Spec
CONSTANTS
    Nada = Nada
    Sols = {s1, s2}
    Usuarios = {u, a, b}
    Solicitantes = {u}
    Configurados = {a, b}
    Elegiveis = {}
    Autoaprovaveis = {}
    Estrategias = {"simples"}
    MinAprovadores = 1
    Reqs = {r1, r2}
    Sobrepoe = TRUE
    Falhas = TRUE
SYMMETRY Simetria
INVARIANTS
    TypeOK
    ExecucaoRespaldada
    ServicoExecutaUmaVez
    AbertaUnica
    DecisaoNaoSePerde
PROPERTIES
    DecididaFica
CHECK_DEADLOCK FALSE
