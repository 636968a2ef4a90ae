SPECIFICATION SpecJusta
CONSTANTS
    Jobs = {j1, j2}
    Usuarios = {u1}
    Ninguem = Ninguem
    Reqs = {r1, r2}
    Varreduras = {v1}
    MaxJobs = 1
    Sobrepoe = TRUE
    MaxFalhas = 1
INVARIANTS
    TypeOK
    LimiteDeJobs
    ArquivoPronto
    SobraSoDeIncompleto
PROPERTIES
    EncerradoFica
    JobTermina
CHECK_DEADLOCK FALSE
