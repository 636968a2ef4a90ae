SPECIFICATION Spec
CONSTANTS
    Nada = Nada
    Sols = {s1, s2}
    Usuarios = {u, a, b}
    Solicitantes = {u}
    Configurados = {u, a, b}
    Elegiveis = {a, b}
    Autoaprovaveis = {b}
    Estrategias = {"simples", "maioria", "escalonamento_setor", "autoaprovacao_perfil"}
    MinAprovadores = 1
    Reqs = {r1, r2}
    Sobrepoe = FALSE
    Falhas = FALSE
PROPERTIES
    VotosDecidem
    ImplementaDecisaoUnica
CHECK_DEADLOCK FALSE
