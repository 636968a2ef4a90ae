SPECIFICATION Spec
CONSTANTS
    Reqs = {r1}
    NParcelas = 3
    Operacoes = {"atualizarStatus", "liberar", "cancelar", "comprovante", "remover", "agendados", "vencimentos", "lote", "cessar"}
    Alvos = {"LIBERADO", "PAGO", "CONFIRMADO", "VENCIDO"}
    AlvosLote = {"LIBERADO", "PAGO"}
    MaxEventos = 1
    Falhas = FALSE
PROPERTIES
    CessacaoManualLimpa
CHECK_DEADLOCK FALSE
