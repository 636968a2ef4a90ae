SPECIFICATION SpecJusta
CONSTANTS
    NParcelas = 2
    Intervalo = 1
    Prazo = 1
    MaxDia = 2
    Reqs = {r1}
    Alvos = {"AGENDADO", "VENCIDO", "REGULARIZADO"}
    MaxFalhas = 1
INVARIANTS
    TypeOK
    LiberacaoNaHora
PROPERTIES
    AgendadoSeLibera
CHECK_DEADLOCK FALSE
