SPECIFICATION SpecJusta
CONSTANTS
    Docs = {d1, d2}
    Nada = Nada
    Trabalhos = {w1, w2}
    Reqs = {r1}
    maxConcurrentJobs = 1
    maxRetries = 2
INVARIANTS
    TypeOK
    LimiteDeTrabalhos
    ColunaAcompanha
PROPERTIES
    FilaAnda
    ImplementaFilaLimitada
CHECK_DEADLOCK FALSE
