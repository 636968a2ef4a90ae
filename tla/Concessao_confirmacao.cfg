SPECIFICATION Spec
CONSTANTS
    Reqs = {r1}
    NParcelas = 1
    Operacoes = {"liberar", "comprovante", "confirmar"}
    Alvos = {}
    AlvosLote = {}
    MaxEventos = 1
    Falhas = FALSE
PROPERTIES
    ConfirmacaoExigeComprovante
CHECK_DEADLOCK FALSE
