SPECIFICATION SpecJusta
CONSTANTS
    NParcelas = 1
    Intervalo = 1
    Prazo = 1
    MaxDia = 3
    Reqs = {r1}
    Alvos = {"VENCIDO"}
    MaxFalhas = 0
PROPERTY PendenteVence
CHECK_DEADLOCK FALSE
