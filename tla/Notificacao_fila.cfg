SPECIFICATION SpecJusta
CONSTANTS
    Notifs = {n1}
    Procs = {p1, p2}
    Leitores = {l1}
    Nada = Nada
    MaxFila = 2
    MaxFalhas = 2
INVARIANTS
    TypeOK
    EntregueUmaVez
    MarcaQuietaFica
PROPERTIES
    PendenteSeResolve
CHECK_DEADLOCK FALSE
