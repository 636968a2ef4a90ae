SPECIFICATION Spec
CONSTANTS
    Reqs = {r1, r2}
    Pendencias = {p1}
    Nada = Nada
    MaxVersao = 3
    MaxEventos = 1
    Inicio <- Submetida
    Operacoes = {"transicao"}
INVARIANTS
    VersaoNuncaRegride
CHECK_DEADLOCK FALSE
