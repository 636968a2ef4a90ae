SPECIFICATION Spec
CONSTANTS
    Reqs = {r1, r2}
    NParcelas = 2
    Operacoes = {"atualizarStatus", "liberar", "comprovante", "confirmar", "agendados", "lote", "bloquear", "desbloquear"}
    Alvos = {"LIBERADO", "CONFIRMADO"}
    AlvosLote = {"LIBERADO", "CONFIRMADO"}
    MaxEventos = 1
    Falhas = TRUE
SYMMETRY Simetria
INVARIANTS
    TypeOK
    PrimeiraParcelaAtiva
    EncerramentoCompleto
PROPERTIES
    CessacaoJustificada
CHECK_DEADLOCK FALSE
