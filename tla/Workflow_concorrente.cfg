SPECIFICATION Spec
CONSTANTS
    Reqs = {r1, r2}
    Pendencias = {p1, p2}
    Nada = Nada
    MaxVersao = 6
    MaxEventos = 1
    Inicio <- RascunhoOuAnalise
    Operacoes = {"transicao", "aprovar", "atualizarStatus", "editar", "remover",
                 "submeter", "avaliarAprova", "avaliarRejeita",
                 "cancelarDireto", "criarPendencia", "resolverPendencia",
                 "cancelarPendencia"}
SYMMETRY Simetria
INVARIANTS
    TypeOK
    VersaoIdentificaCopia
    ConcessaoCoerente
PROPERTIES
    TransicaoVersionada
    AprovacaoComParecer
    PerdaSoComRegressao
    UltimaResolucaoReabre
CHECK_DEADLOCK FALSE
