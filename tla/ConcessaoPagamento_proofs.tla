--------------------- MODULE ConcessaoPagamento_proofs ---------------------
(***************************************************************************)
(* Proofs about ConcessaoPagamento.                                        *)
(***************************************************************************)
EXTENDS ConcessaoPagamento, FiniteSetTheorems, TLAPS

-----------------------------------------------------------------------------
(* The inductive invariants                                                *)

\* With C the set of parcelas confirmed so far, request state q has already
\* written what it is going to verify, and what it found stays true.
Verificou(q, C) ==
    /\ (q.pc \in {"ativar", "salvar_ativo", "conferir"}
        /\ q.alvo = "CONFIRMADO") => q.p \in C
    /\ q.pc \in {"ler_cessar", "salvar_cessado", "cessar_todas"}
         => C = Parcelas

\* Why CessacaoJustificada holds: the rows and the checks made on them, by
\* requests and by listeners, are about confirmations that did happen.
ConfirmadasInv ==
    /\ \A p \in Parcelas : Confirmada(p) => p \in confirmadas
    /\ \A r \in Reqs : Verificou(req[r], confirmadas)
    /\ cessando > 0 => confirmadas = Parcelas

\* Why PrimeiraParcelaAtiva holds: what an upload holds a copy of was covered
\* when it was copied, and still is.
AtivacaoInv ==
    /\ PrimeiraParcelaAtiva
    /\ \A r \in Reqs :
         /\ Em(r, "gravar_comp")
         /\ req[r].p = 1
         /\ req[r].alvo = "LIBERADO"
         /\ concessao = "APTO"
         /\ ~semAtivar
         => Ativando # {}

-----------------------------------------------------------------------------
(* What one step does to the request that takes it                         *)

ReqOK == req \in [Reqs -> Requisicao] /\ \A r \in Reqs : ReqCoerente(req[r])

EmAtivacao == {"ativar", "salvar_ativo"}

\* A step of r gives it the state q: an upload starts from the row as it is,
\* and an activation does not stop while the concessao is APTO, unless the
\* observer notes it.
Troca(r, q) ==
    /\ q \in Requisicao
    /\ ReqCoerente(q)
    /\ req' = [req EXCEPT ![r] = q]
    /\ Verificou(q, confirmadas')
    /\ q.pc = "gravar_comp" =>
         /\ q.alvo = parcelas[q.p].status
         /\ UNCHANGED <<concessao, parcelas, semAtivar>>
    /\ req[r].pc \in EmAtivacao =>
         \/ q.pc \in EmAtivacao
         \/ concessao' # "APTO"
         \/ semAtivar'

LEMMA Tipos ==
  /\ Ocioso \in Requisicao
  /\ ReqCoerente(Ocioso)
  /\ Ocioso.pc = "livre"
  /\ Ocioso.op = "nenhuma"
  /\ Ocioso.p = 1
  /\ Ocioso.alvo = "PENDENTE"
  /\ Ocioso.calvo = "ATIVO"
  BY NParcelasAssumption, SMT
     DEF Ocioso, Requisicao, ReqCoerente, Parcelas, StatusPagamento,
         StatusConcessao, Pcs, Ops

LEMMA Campos ==
  ASSUME NEW q \in Requisicao
  PROVE  /\ q.pc \in Pcs
         /\ q.op \in Ops
         /\ q.p \in Parcelas
         /\ q.alvo \in StatusPagamento
         /\ q.calvo \in StatusConcessao
         /\ q.fila \in SUBSET Parcelas
         /\ q.aceita \in BOOLEAN
  BY DEF Requisicao

\* A request that ends, and was not activating or the observer notes it.
LEMMA TrocaOcioso ==
  ASSUME ReqOK, NEW r \in Reqs, Termina(r),
         \/ req[r].pc \notin EmAtivacao
         \/ concessao' # "APTO"
         \/ semAtivar'
  PROVE  Troca(r, Ocioso)
  BY Tipos DEF Troca, Termina, Verificou, EmAtivacao

\* A request that begins with something to write.
LEMMA TrocaInicio ==
  ASSUME ReqOK, NEW r \in Reqs, Em(r, "livre"), NEW q \in Requisicao,
         Comeca(r, q), ReqCoerente(q),
         q.pc \in {"gravar", "gravar_conc", "gravar_rem", "gravar_conf",
                   "listar", "proxima", "commit"}
  PROVE  Troca(r, q)
  BY DEF Troca, Comeca, Em, Verificou, EmAtivacao

\* A request that only moves on, to a step that needs nothing verified.
LEMMA TrocaPassa ==
  ASSUME ReqOK, NEW r \in Reqs, req[r].pc \notin EmAtivacao,
         NEW pc \in {"emitir", "listar", "proxima", "gravar", "gravar_conc",
                     "gravar_receb", "regravar_conf", "conferir_todas",
                     "cessar_todas", "ler_cessar", "salvar_cessado",
                     "ativar", "conferir"},
         Passa(r, pc),
         pc \in {"ativar", "conferir"} =>
           (req[r].alvo = "CONFIRMADO" => req[r].p \in confirmadas'),
         pc \in {"cessar_todas", "ler_cessar", "salvar_cessado"} =>
           confirmadas' = Parcelas,
         pc = "ativar" =>
           /\ req[r].pc = "gravar"
           /\ req[r].p = 1
           /\ req[r].alvo \in {"LIBERADO", "CONFIRMADO"},
         pc \in {"conferir", "emitir", "ler_cessar", "salvar_cessado"} =>
           req[r].op = "atualizarStatus" /\ req[r].alvo = "CONFIRMADO",
         pc = "listar" => req[r].op = "cessar",
         pc = "proxima" => req[r].op \in EmLaco,
         pc = "gravar" => req[r].op = "cessar"
  PROVE  \E q \in Requisicao : Troca(r, q)
<1> DEFINE q == [req[r] EXCEPT !.pc = pc]
<1>1. pc \in Pcs
  BY DEF Pcs
<1>2. q \in Requisicao
  BY <1>1 DEF ReqOK, Requisicao
<1>3. req' = [req EXCEPT ![r] = q]
  BY DEF Passa, ReqOK
<1>4. /\ q.pc = pc
      /\ q.op = req[r].op
      /\ q.p = req[r].p
      /\ q.alvo = req[r].alvo
      /\ q.calvo = req[r].calvo
  BY DEF ReqOK, Requisicao
<1>5. ReqCoerente(req[r])
  BY DEF ReqOK
<1> HIDE DEF q
<1>6. ReqCoerente(q)
  BY <1>4, <1>5 DEF ReqCoerente, EmLaco
<1>7. Verificou(q, confirmadas')
  BY <1>4 DEF Verificou
<1>8. Troca(r, q)
  BY <1>2, <1>3, <1>4, <1>6, <1>7 DEF Troca, EmAtivacao
<1> QED
  BY <1>2, <1>8

\* What follows the write of a parcela, or its activation.
LEMMA TrocaProssegue ==
  ASSUME ReqOK, NEW r \in Reqs, Prossegue(r),
         req[r].pc \in {"gravar", "ativar", "salvar_ativo"},
         \/ req[r].pc \notin EmAtivacao
         \/ concessao' # "APTO"
         \/ semAtivar',
         req[r].alvo = "CONFIRMADO" => req[r].p \in confirmadas'
  PROVE  \E q \in Requisicao : Troca(r, q)
<1> USE DEF ReqOK
<1>1. CASE Apos(req[r]) = Ocioso
  BY <1>1, TrocaOcioso, Tipos DEF Prossegue, Termina
<1>2. CASE /\ req[r].op = "atualizarStatus" /\ req[r].alvo = "CONFIRMADO"
           /\ Apos(req[r]) = [req[r] EXCEPT !.pc = "conferir"]
  <2> DEFINE q == [req[r] EXCEPT !.pc = "conferir"]
  <2>1. "conferir" \in Pcs
    BY DEF Pcs
  <2>2. q \in Requisicao
    BY <2>1 DEF Requisicao
  <2>3. req' = [req EXCEPT ![r] = q]
    BY <1>2 DEF Prossegue
  <2>4. /\ q.pc = "conferir" /\ q.op = req[r].op /\ q.p = req[r].p
        /\ q.alvo = req[r].alvo /\ q.calvo = req[r].calvo
    BY DEF Requisicao
  <2> HIDE DEF q
  <2>5. ReqCoerente(q)
    BY <1>2, <2>4 DEF ReqCoerente
  <2>6. Troca(r, q)
    BY <2>2, <2>3, <2>4, <2>5 DEF Troca, Verificou, EmAtivacao
  <2> QED
    BY <2>2, <2>6
<1>3. CASE /\ req[r].op \in EmLaco
           /\ Apos(req[r]) = [req[r] EXCEPT !.pc = "proxima"]
  <2> DEFINE q == [req[r] EXCEPT !.pc = "proxima"]
  <2>1. "proxima" \in Pcs
    BY DEF Pcs
  <2>2. q \in Requisicao
    BY <2>1 DEF Requisicao
  <2>3. req' = [req EXCEPT ![r] = q]
    BY <1>3 DEF Prossegue
  <2>4. /\ q.pc = "proxima" /\ q.op = req[r].op /\ q.p = req[r].p
        /\ q.alvo = req[r].alvo /\ q.calvo = req[r].calvo
    BY DEF Requisicao
  <2> HIDE DEF q
  <2>5. ReqCoerente(q)
    BY <1>3, <2>4 DEF ReqCoerente
  <2>6. Troca(r, q)
    BY <2>2, <2>3, <2>4, <2>5 DEF Troca, Verificou, EmAtivacao
  <2> QED
    BY <2>2, <2>6
<1> QED
  BY <1>1, <1>2, <1>3 DEF Apos

-----------------------------------------------------------------------------
(* The requests on one installment                                         *)

\* A request on parcela p that will write alvo in it.
LEMMA TrocaNaParcela ==
  ASSUME ReqOK, NEW r \in Reqs, Em(r, "livre"), NEW p \in Parcelas,
         NEW alvo \in StatusPagamento,
         NEW op \in {"atualizarStatus", "cancelar", "liberar"},
         op = "cancelar" => alvo = "CANCELADO",
         op = "liberar" => alvo \in {"LIBERADO", "AGENDADO"},
         Comeca(r, [Ocioso EXCEPT !.pc = "gravar", !.op = op, !.p = p,
                                  !.alvo = alvo])
  PROVE  \E q \in Requisicao : Troca(r, q)
<1> DEFINE q == [Ocioso EXCEPT !.pc = "gravar", !.op = op, !.p = p,
                               !.alvo = alvo]
<1>1. "gravar" \in Pcs /\ op \in Ops
  BY DEF Pcs, Ops
<1>2. q \in Requisicao
  BY <1>1, Tipos DEF Requisicao
<1>3. q.pc = "gravar" /\ q.op = op /\ q.alvo = alvo /\ q.calvo = "ATIVO"
  BY Tipos DEF Requisicao
<1>4. Comeca(r, q)
  OBVIOUS
<1> HIDE DEF q
<1>5. ReqCoerente(q)
  BY <1>3 DEF ReqCoerente
<1> QED
  BY <1>2, <1>3, <1>4, <1>5, TrocaInicio

LEMMA TrocaGravar ==
  ASSUME TypeOK, NEW r \in Reqs, Gravar(r)
  PROVE  \E q \in Requisicao : Troca(r, q)
<1>1. ReqOK /\ req[r] \in Requisicao /\ req[r].pc = "gravar"
  BY DEF TypeOK, ReqOK, Gravar, Em
<1>2. req[r].alvo = "CONFIRMADO" => req[r].p \in confirmadas'
  <2>1. PICK c \in BOOLEAN :
               Grava(req[r].p, [status |-> req[r].alvo, comprovante |-> c])
    BY DEF Gravar
  <2> QED
    BY <2>1 DEF Grava
<1>3. CASE Ativa(req[r])
  <2>1. Passa(r, "ativar")
    BY <1>3 DEF Gravar
  <2>2. req[r].p = 1 /\ req[r].alvo \in {"LIBERADO", "CONFIRMADO"}
    BY <1>3 DEF Ativa
  <2> QED
    BY <1>1, <1>2, <2>1, <2>2, TrocaPassa DEF EmAtivacao
<1>4. CASE ~Ativa(req[r])
  <2>1. Prossegue(r)
    BY <1>4 DEF Gravar
  <2> QED
    BY <1>1, <1>2, <2>1, TrocaProssegue DEF EmAtivacao
<1> QED
  BY <1>3, <1>4

LEMMA TrocaLerAtivar ==
  ASSUME TypeOK, ConfirmadasInv, NEW r \in Reqs, LerAtivar(r)
  PROVE  \E q \in Requisicao : Troca(r, q)
<1>1. /\ ReqOK /\ req[r] \in Requisicao /\ req[r].pc = "ativar"
      /\ UNCHANGED <<concessao, confirmadas>>
      /\ ReqCoerente(req[r])
  BY DEF TypeOK, ReqOK, LerAtivar, Em, SoReq
<1>2. req[r].alvo = "CONFIRMADO" => req[r].p \in confirmadas'
  BY <1>1 DEF ConfirmadasInv, Verificou
<1>3. CASE isValidStatusTransition(concessao, "ATIVO")
  <2> DEFINE q == [req[r] EXCEPT !.pc = "salvar_ativo"]
  <2>1. "salvar_ativo" \in Pcs
    BY DEF Pcs
  <2>2. q \in Requisicao
    BY <1>1, <2>1 DEF Requisicao
  <2>3. req' = [req EXCEPT ![r] = q]
    BY <1>1, <1>3 DEF LerAtivar, Passa, ReqOK
  <2>4. /\ q.pc = "salvar_ativo" /\ q.op = req[r].op /\ q.p = req[r].p
        /\ q.alvo = req[r].alvo /\ q.calvo = req[r].calvo
    BY <1>1 DEF Requisicao
  <2> HIDE DEF q
  <2>5. ReqCoerente(q)
    BY <1>1, <2>4 DEF ReqCoerente
  <2>6. Troca(r, q)
    BY <1>2, <2>2, <2>3, <2>4, <2>5 DEF Troca, Verificou, EmAtivacao
  <2> QED
    BY <2>2, <2>6
<1>4. CASE ~isValidStatusTransition(concessao, "ATIVO")
  <2>1. Prossegue(r)
    BY <1>4 DEF LerAtivar
  <2>2. concessao' # "APTO"
    BY <1>1, <1>4 DEF isValidStatusTransition
  <2> QED
    BY <1>1, <1>2, <2>1, <2>2, TrocaProssegue
<1> QED
  BY <1>3, <1>4

LEMMA TrocaSalvarAtivo ==
  ASSUME TypeOK, ConfirmadasInv, NEW r \in Reqs, SalvarAtivo(r)
  PROVE  \E q \in Requisicao : Troca(r, q)
<1>1. /\ ReqOK /\ req[r] \in Requisicao /\ req[r].pc = "salvar_ativo"
      /\ confirmadas' = confirmadas /\ concessao' # "APTO" /\ Prossegue(r)
  BY DEF TypeOK, ReqOK, SalvarAtivo, Em
<1>2. req[r].alvo = "CONFIRMADO" => req[r].p \in confirmadas'
  BY <1>1 DEF ConfirmadasInv, Verificou
<1> QED
  BY <1>1, <1>2, TrocaProssegue

\* The installment being confirmed and all the others are confirmed.
LEMMA TrocaConferir ==
  ASSUME TypeOK, ConfirmadasInv, NEW r \in Reqs, Conferir(r)
  PROVE  \E q \in Requisicao : Troca(r, q)
<1>1. /\ ReqOK /\ req[r] \in Requisicao /\ req[r].pc = "conferir"
      /\ confirmadas' = confirmadas
      /\ req[r].op = "atualizarStatus" /\ req[r].alvo = "CONFIRMADO"
  BY DEF TypeOK, ReqOK, ReqCoerente, Conferir, Em, SoReq
<1>2. CASE \A p \in Parcelas \ {req[r].p} : Confirmada(p)
  <2>1. req[r].p \in confirmadas /\ confirmadas \subseteq Parcelas
    BY <1>1 DEF ConfirmadasInv, Verificou, TypeOK
  <2>2. confirmadas' = Parcelas
    BY <1>1, <1>2, <2>1 DEF ConfirmadasInv
  <2>3. \E pc \in {"ler_cessar", "emitir"} : Passa(r, pc)
    BY DEF Conferir
  <2> QED
    BY <1>1, <2>2, <2>3, TrocaPassa DEF EmAtivacao
<1>3. CASE ~\A p \in Parcelas \ {req[r].p} : Confirmada(p)
  <2>1. Passa(r, "emitir")
    BY <1>3 DEF Conferir
  <2> QED
    BY <1>1, <2>1, TrocaPassa DEF EmAtivacao
<1> QED
  BY <1>2, <1>3

LEMMA TrocaCessar ==
  ASSUME TypeOK, ConfirmadasInv, NEW r \in Reqs,
         LerCessar(r) \/ SalvarCessado(r)
  PROVE  \E q \in Requisicao : Troca(r, q)
<1>1. /\ ReqOK /\ req[r] \in Requisicao
      /\ req[r].pc \in {"ler_cessar", "salvar_cessado"}
      /\ confirmadas' = confirmadas
      /\ req[r].op = "atualizarStatus" /\ req[r].alvo = "CONFIRMADO"
  BY DEF TypeOK, ReqOK, ReqCoerente, LerCessar, SalvarCessado, Em, SoReq
<1>2. confirmadas' = Parcelas
  BY <1>1 DEF ConfirmadasInv, Verificou
<1>3. \E pc \in {"salvar_cessado", "emitir"} : Passa(r, pc)
  BY DEF LerCessar, SalvarCessado
<1> QED
  BY <1>1, <1>2, <1>3, TrocaPassa DEF EmAtivacao

LEMMA TrocaPagamento ==
  ASSUME TypeOK, ConfirmadasInv, NEW r \in Reqs, Pagamento(r)
  PROVE  \E q \in Requisicao : Troca(r, q)
<1>1. ReqOK
  BY DEF TypeOK, ReqOK
<1>2. CASE IniciarStatus(r)
  <2>1. PICK p \in Parcelas, s \in Alvos :
          Comeca(r, [Ocioso EXCEPT !.pc = "gravar", !.op = "atualizarStatus",
                                   !.p = p, !.alvo = s])
    BY <1>2 DEF IniciarStatus
  <2>2. s \in StatusPagamento /\ Em(r, "livre")
    BY <1>2, AlvosAssumption DEF IniciarStatus, Chega
  <2> QED
    BY <1>1, <2>1, <2>2, TrocaNaParcela
<1>3. CASE IniciarCancelamento(r)
  <2>1. PICK p \in Parcelas :
          Comeca(r, [Ocioso EXCEPT !.pc = "gravar", !.op = "cancelar",
                                   !.p = p, !.alvo = "CANCELADO"])
    BY <1>3 DEF IniciarCancelamento
  <2>2. "CANCELADO" \in StatusPagamento /\ Em(r, "livre")
    BY <1>3 DEF StatusPagamento, IniciarCancelamento, Chega
  <2> QED
    BY <1>1, <2>1, <2>2, TrocaNaParcela
<1>4. CASE IniciarLiberacao(r)
  <2>1. PICK p \in Parcelas, s \in {"LIBERADO", "AGENDADO"} :
          Comeca(r, [Ocioso EXCEPT !.pc = "gravar", !.op = "liberar",
                                   !.p = p, !.alvo = s])
    BY <1>4 DEF IniciarLiberacao
  <2>2. s \in StatusPagamento /\ Em(r, "livre")
    BY <1>4 DEF StatusPagamento, IniciarLiberacao, Chega
  <2> QED
    BY <1>1, <2>1, <2>2, TrocaNaParcela
<1>5. CASE Emitir(r)
  BY <1>1, <1>5, TrocaOcioso, Tipos DEF Emitir, Em, EmAtivacao
<1> QED
  BY <1>2, <1>3, <1>4, <1>5, TrocaGravar, TrocaLerAtivar, TrocaSalvarAtivo,
     TrocaConferir, TrocaCessar DEF Pagamento

-----------------------------------------------------------------------------
(* Receipts and confirmations of receipt                                   *)

LEMMA TrocaIniciarComprovante ==
  ASSUME TypeOK, NEW r \in Reqs, IniciarComprovante(r)
  PROVE  \E q \in Requisicao : Troca(r, q)
<1>1. PICK p \in Parcelas :
        Comeca(r, [Ocioso EXCEPT !.pc = "gravar_comp", !.p = p,
                                 !.op = "comprovante",
                                 !.alvo = parcelas[p].status])
  BY DEF IniciarComprovante
<1> DEFINE q == [Ocioso EXCEPT !.pc = "gravar_comp", !.p = p,
                               !.op = "comprovante",
                               !.alvo = parcelas[p].status]
<1>2. /\ "gravar_comp" \in Pcs /\ "comprovante" \in Ops
      /\ parcelas[p].status \in StatusPagamento
  BY DEF Pcs, Ops, TypeOK, Parcela
<1>3. q \in Requisicao
  BY <1>2, Tipos DEF Requisicao
<1>4. /\ q.pc = "gravar_comp" /\ q.op = "comprovante" /\ q.p = p
      /\ q.alvo = parcelas[p].status /\ q.calvo = "ATIVO"
  BY Tipos DEF Requisicao
<1>5. Comeca(r, q)
  BY <1>1
<1> HIDE DEF q
<1>6. ReqCoerente(q) /\ Verificou(q, confirmadas')
  BY <1>4 DEF ReqCoerente, Verificou
<1>7. UNCHANGED <<concessao, parcelas, semAtivar>> /\ req[r].pc = "livre"
  BY DEF IniciarComprovante, SoReq, Chega, Em
<1>8. Troca(r, q)
  BY <1>3, <1>4, <1>5, <1>6, <1>7 DEF Troca, Comeca, EmAtivacao
<1> QED
  BY <1>3, <1>8

\* A request that begins with no status to write in the installment.
LEMMA TrocaSemAlvo ==
  ASSUME ReqOK, NEW r \in Reqs, Em(r, "livre"), NEW p \in Parcelas,
         NEW op \in {"remover", "confirmar"}, NEW aceita \in BOOLEAN,
         NEW pc \in {"gravar_rem", "gravar_conf"},
         Comeca(r, [Ocioso EXCEPT !.pc = pc, !.op = op, !.p = p,
                                  !.aceita = aceita])
  PROVE  \E q \in Requisicao : Troca(r, q)
<1> DEFINE q == [Ocioso EXCEPT !.pc = pc, !.op = op, !.p = p,
                               !.aceita = aceita]
<1>1. pc \in Pcs /\ op \in Ops
  BY DEF Pcs, Ops
<1>2. q \in Requisicao
  BY <1>1, Tipos DEF Requisicao
<1>3. q.pc = pc /\ q.op = op /\ q.calvo = "ATIVO"
  BY Tipos DEF Requisicao
<1>4. Comeca(r, q)
  OBVIOUS
<1> HIDE DEF q
<1>5. ReqCoerente(q)
  BY <1>3 DEF ReqCoerente
<1> QED
  BY <1>2, <1>3, <1>4, <1>5, TrocaInicio

LEMMA TrocaIniciarRemocao ==
  ASSUME TypeOK, NEW r \in Reqs, IniciarRemocao(r)
  PROVE  \E q \in Requisicao : Troca(r, q)
<1>1. PICK p \in Parcelas :
        Comeca(r, [Ocioso EXCEPT !.pc = "gravar_rem", !.op = "remover",
                                 !.p = p])
  BY DEF IniciarRemocao
<1> DEFINE q == [Ocioso EXCEPT !.pc = "gravar_rem", !.op = "remover",
                               !.p = p]
<1>2. "gravar_rem" \in Pcs /\ "remover" \in Ops
  BY DEF Pcs, Ops
<1>3. q \in Requisicao
  BY <1>2, Tipos DEF Requisicao
<1>4. q.pc = "gravar_rem" /\ q.op = "remover" /\ q.calvo = "ATIVO"
  BY Tipos DEF Requisicao
<1>5. Comeca(r, q)
  BY <1>1
<1>6. ReqOK /\ Em(r, "livre")
  BY DEF TypeOK, ReqOK, IniciarRemocao, Chega
<1> HIDE DEF q
<1>7. ReqCoerente(q)
  BY <1>4 DEF ReqCoerente
<1> QED
  BY <1>3, <1>4, <1>5, <1>6, <1>7, TrocaInicio

LEMMA TrocaIniciarConfirmacao ==
  ASSUME TypeOK, NEW r \in Reqs, IniciarConfirmacao(r)
  PROVE  \E q \in Requisicao : Troca(r, q)
<1>1. PICK p \in Parcelas :
        Comeca(r, [Ocioso EXCEPT
              !.pc = "gravar_conf", !.op = "confirmar", !.p = p,
              !.aceita = /\ parcelas[p].comprovante
                         /\ parcelas[p].status \in
                              {"LIBERADO", "PAGO", "RECEBIDO"}])
  BY DEF IniciarConfirmacao
<1> DEFINE a == /\ parcelas[p].comprovante
                /\ parcelas[p].status \in {"LIBERADO", "PAGO", "RECEBIDO"}
<1>2. a \in BOOLEAN
  BY DEF TypeOK, Parcela
<1>3. Comeca(r, [Ocioso EXCEPT !.pc = "gravar_conf", !.op = "confirmar",
                               !.p = p, !.aceita = a])
  BY <1>1
<1>4. ReqOK /\ Em(r, "livre")
  BY DEF TypeOK, ReqOK, IniciarConfirmacao, Chega
<1> HIDE DEF a
<1> QED
  BY <1>2, <1>3, <1>4, TrocaSemAlvo

\* Uploads, removals and the writes of a confirmation: they end, or move on.
LEMMA TrocaGravacoes ==
  ASSUME TypeOK, NEW r \in Reqs,
         \/ GravarComprovante(r)
         \/ GravarRecebido(r)
         \/ GravarRemocao(r)
         \/ GravarConfirmacao(r)
         \/ RegravarConfirmacao(r)
         \/ CessarTodas(r)
  PROVE  \E q \in Requisicao : Troca(r, q)
<1>1. ReqOK /\ req[r].pc \notin EmAtivacao
  BY DEF TypeOK, ReqOK, EmAtivacao, GravarComprovante, GravarRecebido,
         GravarRemocao, GravarConfirmacao, RegravarConfirmacao, CessarTodas, Em
<1>2. CASE Termina(r)
  BY <1>1, <1>2, TrocaOcioso, Tipos
<1>3. CASE \E pc \in {"gravar_receb", "regravar_conf", "conferir_todas"} :
             Passa(r, pc)
  BY <1>1, <1>3, TrocaPassa
<1> QED
  BY <1>2, <1>3 DEF GravarComprovante, GravarRecebido, GravarRemocao,
     GravarConfirmacao, RegravarConfirmacao, CessarTodas

LEMMA TrocaConferirTodas ==
  ASSUME TypeOK, ConfirmadasInv, NEW r \in Reqs, ConferirTodas(r)
  PROVE  \E q \in Requisicao : Troca(r, q)
<1>1. ReqOK /\ req[r].pc \notin EmAtivacao /\ confirmadas' = confirmadas
  BY DEF TypeOK, ReqOK, EmAtivacao, ConferirTodas, Em, SoReq
<1>2. CASE TodasConfirmadas
  <2>1. confirmadas' = Parcelas
    BY <1>1, <1>2 DEF ConfirmadasInv, TodasConfirmadas, TypeOK
  <2>2. Passa(r, "cessar_todas")
    BY <1>2 DEF ConferirTodas
  <2> QED
    BY <1>1, <2>1, <2>2, TrocaPassa
<1>3. CASE ~TodasConfirmadas
  BY <1>1, <1>3, TrocaOcioso, Tipos DEF ConferirTodas
<1> QED
  BY <1>2, <1>3

LEMMA TrocaComprovante ==
  ASSUME TypeOK, ConfirmadasInv, NEW r \in Reqs, Comprovante(r)
  PROVE  \E q \in Requisicao : Troca(r, q)
  BY TrocaIniciarComprovante, TrocaIniciarRemocao, TrocaIniciarConfirmacao,
     TrocaGravacoes, TrocaConferirTodas DEF Comprovante

-----------------------------------------------------------------------------
(* Requests on the concessao, the scheduler, the batch and the failures    *)

LEMMA TrocaIniciarConcessao ==
  ASSUME TypeOK, NEW r \in Reqs, IniciarConcessao(r)
  PROVE  \E q \in Requisicao : Troca(r, q)
<1>1. PICK op \in Operacoes, s \in StatusConcessao :
        /\ Em(r, "livre")
        /\ PodeMudar(op, concessao, s)
        /\ Comeca(r, [Ocioso EXCEPT !.pc = "gravar_conc", !.op = op,
                                    !.calvo = s])
  BY DEF IniciarConcessao, Chega
<1> DEFINE q == [Ocioso EXCEPT !.pc = "gravar_conc", !.op = op, !.calvo = s]
<1>2. /\ op \in {"mudarConcessao", "suspender", "bloquear", "reativar",
                 "desbloquear"}
      /\ s # "APTO"
  BY <1>1 DEF PodeMudar, isValidStatusTransition
<1>3. "gravar_conc" \in Pcs /\ op \in Ops
  BY <1>2 DEF Pcs, Ops
<1>4. q \in Requisicao
  BY <1>3, Tipos DEF Requisicao
<1>5. q.pc = "gravar_conc" /\ q.op = op /\ q.calvo = s
  BY Tipos DEF Requisicao
<1>6. Comeca(r, q) /\ ReqOK
  BY <1>1 DEF TypeOK, ReqOK
<1> HIDE DEF q
<1>7. ReqCoerente(q)
  BY <1>2, <1>5 DEF ReqCoerente
<1> QED
  BY <1>1, <1>4, <1>5, <1>6, <1>7, TrocaInicio

LEMMA TrocaIniciarCessacao ==
  ASSUME TypeOK, NEW r \in Reqs, IniciarCessacao(r)
  PROVE  \E q \in Requisicao : Troca(r, q)
<1> DEFINE q == [Ocioso EXCEPT !.pc = "listar", !.op = "cessar",
                               !.alvo = "CANCELADO", !.calvo = "CESSADO"]
<1>1. /\ "listar" \in Pcs /\ "cessar" \in Ops
      /\ "CANCELADO" \in StatusPagamento /\ "CESSADO" \in StatusConcessao
  BY DEF Pcs, Ops, StatusPagamento, StatusConcessao
<1>2. q \in Requisicao
  BY <1>1, Tipos DEF Requisicao
<1>3. /\ q.pc = "listar" /\ q.op = "cessar" /\ q.alvo = "CANCELADO"
      /\ q.calvo = "CESSADO"
  BY Tipos DEF Requisicao
<1>4. Comeca(r, q) /\ Em(r, "livre") /\ ReqOK
  BY DEF IniciarCessacao, Chega, TypeOK, ReqOK
<1> HIDE DEF q
<1>5. ReqCoerente(q)
  BY <1>3 DEF ReqCoerente
<1> QED
  BY <1>2, <1>3, <1>4, <1>5, TrocaInicio

LEMMA TrocaListar ==
  ASSUME TypeOK, NEW r \in Reqs, Listar(r)
  PROVE  \E q \in Requisicao : Troca(r, q)
<1> DEFINE F == {p \in Parcelas : parcelas[p].status \notin Poupadas}
           q == [req[r] EXCEPT !.pc = "proxima", !.fila = F]
<1>1. "proxima" \in Pcs /\ F \in SUBSET Parcelas
  BY DEF Pcs
<1>2. ReqOK /\ req[r] \in Requisicao /\ ReqCoerente(req[r])
      /\ req[r].pc = "listar"
  BY DEF TypeOK, ReqOK, Listar, Em
<1>3. req' = [req EXCEPT ![r] = q]
  BY <1>2 DEF Listar, ReqOK
<1> HIDE DEF F
<1>4. q \in Requisicao
  BY <1>1, <1>2 DEF Requisicao
<1>5. /\ q.pc = "proxima" /\ q.op = req[r].op /\ q.alvo = req[r].alvo
      /\ q.calvo = req[r].calvo
  BY <1>2 DEF Requisicao
<1> HIDE DEF q
<1>6. ReqCoerente(q)
  BY <1>2, <1>5 DEF ReqCoerente, EmLaco
<1>7. Troca(r, q)
  BY <1>2, <1>3, <1>4, <1>5, <1>6 DEF Troca, Verificou, EmAtivacao
<1> QED
  BY <1>4, <1>7

LEMMA TrocaProxima ==
  ASSUME TypeOK, NEW r \in Reqs, Proxima(r)
  PROVE  \E q \in Requisicao : Troca(r, q)
<1>1. ReqOK /\ req[r] \in Requisicao /\ ReqCoerente(req[r])
      /\ req[r].pc = "proxima" /\ req[r].op \in EmLaco
  BY DEF TypeOK, ReqOK, ReqCoerente, Proxima, Em
<1>2. CASE Termina(r)
  BY <1>1, <1>2, TrocaOcioso, Tipos DEF EmAtivacao
<1>3. CASE Passa(r, "gravar_conc")
  BY <1>1, <1>3, TrocaPassa DEF EmAtivacao
<1>4. ASSUME NEW p \in req[r].fila, NEW pc \in {"cancelar_ler", "gravar"},
             pc = "cancelar_ler" => req[r].op = "cessar",
             Comeca(r, [req[r] EXCEPT !.pc = pc, !.p = p, !.fila = @ \ {p}])
      PROVE  \E q \in Requisicao : Troca(r, q)
  <2> DEFINE F == req[r].fila \ {p}
             q == [req[r] EXCEPT !.pc = pc, !.p = p, !.fila = F]
  <2>1. pc \in Pcs /\ p \in Parcelas /\ F \in SUBSET Parcelas
    BY <1>1, Campos DEF Pcs
  <2>2. req' = [req EXCEPT ![r] = q]
    BY <1>1, <1>4 DEF Comeca, Requisicao
  <2> HIDE DEF F
  <2>3. q \in Requisicao
    BY <1>1, <2>1 DEF Requisicao
  <2>4. /\ q.pc = pc /\ q.op = req[r].op /\ q.alvo = req[r].alvo
        /\ q.calvo = req[r].calvo
    BY <1>1 DEF Requisicao
  <2> HIDE DEF q
  <2>5. ReqCoerente(q)
    BY <1>1, <1>4, <2>4 DEF ReqCoerente
  <2>6. Troca(r, q)
    BY <1>1, <2>2, <2>3, <2>4, <2>5 DEF Troca, Verificou, EmAtivacao
  <2> QED
    BY <2>3, <2>6
<1> QED
  BY <1>2, <1>3, <1>4 DEF Proxima

LEMMA TrocaConcessao ==
  ASSUME TypeOK, NEW r \in Reqs, Concessao(r)
  PROVE  \E q \in Requisicao : Troca(r, q)
<1>1. ReqOK
  BY DEF TypeOK, ReqOK
<1>2. CASE GravarConcessao(r)
  BY <1>1, <1>2, TrocaOcioso, Tipos DEF GravarConcessao, Em, EmAtivacao
<1>3. CASE LerCancelar(r)
  <2>1. req[r].pc = "cancelar_ler" /\ req[r].op = "cessar"
    BY <1>1, <1>3 DEF LerCancelar, Em, ReqOK, ReqCoerente
  <2>2. \E pc \in {"proxima", "gravar"} : Passa(r, pc)
    BY <1>3 DEF LerCancelar
  <2> QED
    BY <1>1, <2>1, <2>2, TrocaPassa DEF EmAtivacao, EmLaco
<1> QED
  BY <1>2, <1>3, TrocaIniciarConcessao, TrocaIniciarCessacao, TrocaListar,
     TrocaProxima DEF Concessao

LEMMA TrocaIniciarVarredura ==
  ASSUME TypeOK, NEW r \in Reqs, IniciarVarredura(r)
  PROVE  \E q \in Requisicao : Troca(r, q)
<1>1. PICK op \in {"agendados", "vencimentos"}, S \in SUBSET Parcelas :
        /\ Chega(r, op)
        /\ Comeca(r, [Ocioso EXCEPT !.pc = "proxima", !.op = op,
                                    !.alvo = Varreduras[op].para, !.fila = S])
  BY DEF IniciarVarredura, Varreduras
<1> DEFINE s == Varreduras[op].para
           q == [Ocioso EXCEPT !.pc = "proxima", !.op = op,
                               !.alvo = s, !.fila = S]
<1>2. /\ "proxima" \in Pcs /\ op \in Ops
      /\ s \in {"LIBERADO", "VENCIDO"}
      /\ op = "vencimentos" => s = "VENCIDO"
      /\ op = "agendados" => s = "LIBERADO"
  BY DEF Pcs, Ops, Varreduras
<1>3. Comeca(r, q) /\ Em(r, "livre") /\ ReqOK
  BY <1>1 DEF Chega, TypeOK, ReqOK
<1> HIDE DEF s
<1>4. s \in StatusPagamento
  BY <1>2 DEF StatusPagamento
<1>5. q \in Requisicao
  BY <1>2, <1>4, Tipos DEF Requisicao
<1>6. q.pc = "proxima" /\ q.op = op /\ q.calvo = "ATIVO" /\ q.alvo = s
  BY Tipos DEF Requisicao
<1> HIDE DEF q
<1>7. ReqCoerente(q)
  BY <1>2, <1>6 DEF ReqCoerente, EmLaco
<1> QED
  BY <1>3, <1>5, <1>6, <1>7, TrocaInicio

LEMMA TrocaIniciarLote ==
  ASSUME TypeOK, NEW r \in Reqs, IniciarLote(r)
  PROVE  \E q \in Requisicao : Troca(r, q)
<1>1. PICK S \in SUBSET Parcelas, s \in AlvosLote :
        Comeca(r, [Ocioso EXCEPT !.pc = "commit", !.op = "lote",
                                 !.alvo = s, !.fila = S])
  BY DEF IniciarLote
<1> DEFINE q == [Ocioso EXCEPT !.pc = "commit", !.op = "lote",
                               !.alvo = s, !.fila = S]
<1>2. "commit" \in Pcs /\ "lote" \in Ops /\ s \in StatusPagamento
  BY AlvosAssumption DEF Pcs, Ops
<1>3. q \in Requisicao
  BY <1>2, Tipos DEF Requisicao
<1>4. q.pc = "commit" /\ q.op = "lote" /\ q.calvo = "ATIVO"
  BY Tipos DEF Requisicao
<1>5. Comeca(r, q) /\ Em(r, "livre") /\ ReqOK
  BY <1>1 DEF IniciarLote, Chega, TypeOK, ReqOK
<1> HIDE DEF q
<1>6. ReqCoerente(q)
  BY <1>4 DEF ReqCoerente
<1> QED
  BY <1>3, <1>4, <1>5, <1>6, TrocaInicio

LEMMA TrocaErrar ==
  ASSUME TypeOK, ConfirmadasInv, NEW r \in Reqs, Errar(r)
  PROVE  \E q \in Requisicao : Troca(r, q)
<1>1. /\ ReqOK /\ req[r] \in Requisicao /\ confirmadas' = confirmadas
      /\ ReqCoerente(req[r])
      /\ r \in Ativando <=> req[r].pc \in EmAtivacao
  BY DEF TypeOK, ReqOK, Errar, Ativando, EmAtivacao
<1>2. CASE r \in Ativando /\ Prossegue(r)
  <2>1. semAtivar'
    BY <1>2 DEF Errar
  <2>2. req[r].alvo = "CONFIRMADO" => req[r].p \in confirmadas'
    BY <1>1, <1>2 DEF ConfirmadasInv, Verificou, EmAtivacao
  <2> QED
    BY <1>1, <1>2, <2>1, <2>2, TrocaProssegue DEF EmAtivacao
<1>3. CASE /\ req[r].pc \in {"conferir", "ler_cessar", "salvar_cessado"}
           /\ Passa(r, "emitir")
  <2>1. req[r].op = "atualizarStatus" /\ req[r].alvo = "CONFIRMADO"
    BY <1>1, <1>3 DEF ReqCoerente
  <2> QED
    BY <1>1, <1>3, <2>1, TrocaPassa DEF EmAtivacao
<1>4. CASE NoLaco(r) /\ Passa(r, "proxima")
  <2>1. req[r].op \in EmLaco
    BY <1>1, <1>4 DEF NoLaco, Em, ReqCoerente, EmLaco
  <2>2. req[r].pc \notin EmAtivacao
    BY <1>4 DEF NoLaco, Em, EmAtivacao
  <2> QED
    BY <1>1, <1>4, <2>1, <2>2, TrocaPassa
<1>5. CASE r \notin Ativando /\ Termina(r)
  BY <1>1, <1>5, TrocaOcioso, Tipos
<1> QED
  BY <1>2, <1>3, <1>4, <1>5 DEF Errar

LEMMA TrocaSistema ==
  ASSUME TypeOK, ConfirmadasInv, NEW r \in Reqs, Sistema(r)
  PROVE  \E q \in Requisicao : Troca(r, q)
<1>1. CASE CommitLote(r)
  <2>1. ReqOK /\ req[r].pc \notin EmAtivacao /\ Termina(r)
    BY <1>1 DEF TypeOK, ReqOK, EmAtivacao, CommitLote, Em
  <2> QED
    BY <2>1, TrocaOcioso, Tipos
<1> QED
  BY <1>1, TrocaIniciarVarredura, TrocaIniciarLote, TrocaErrar DEF Sistema

-----------------------------------------------------------------------------
(* What one step does to everything else                                   *)

Efeitos ==
    /\ concessao' \in StatusConcessao
    /\ concessao' = "APTO" => concessao = "APTO"
    /\ parcelas' \in [Parcelas -> Parcela]
    /\ eventos' \in Nat
    /\ cessando' \in Nat
    /\ confirmadas' \in SUBSET Parcelas
    /\ confirmadas \subseteq confirmadas'
    /\ \A p \in Parcelas : parcelas'[p].status = "CONFIRMADO"
                             => p \in confirmadas'
    /\ cessando' > 0 => confirmadas = Parcelas
    /\ semAtivar' \in BOOLEAN
    /\ semAtivar => semAtivar'

LEMMA EfeitosIguais ==
  ASSUME TypeOK, ConfirmadasInv,
         UNCHANGED <<parcelas, confirmadas>>,
         concessao' \in StatusConcessao, concessao' # "APTO" \/ UNCHANGED concessao,
         eventos' \in Nat, cessando' \in Nat, cessando' > 0 => cessando > 0,
         semAtivar' \in BOOLEAN, semAtivar => semAtivar'
  PROVE  Efeitos
  BY DEF Efeitos, TypeOK, ConfirmadasInv, Confirmada

LEMMA EfeitosGrava ==
  ASSUME TypeOK, ConfirmadasInv, NEW p \in Parcelas, NEW linha \in Parcela,
         Grava(p, linha), UNCHANGED <<concessao, eventos, cessando, semAtivar>>
  PROVE  Efeitos
<1>1. parcelas' = [parcelas EXCEPT ![p] = linha]
  BY DEF Grava
<1>2. parcelas' \in [Parcelas -> Parcela]
  BY <1>1 DEF TypeOK
<1>3. \A x \in Parcelas : parcelas'[x] = IF x = p THEN linha ELSE parcelas[x]
  BY <1>1 DEF TypeOK
<1>4. /\ confirmadas \subseteq confirmadas'
      /\ confirmadas' \in SUBSET Parcelas
      /\ linha.status = "CONFIRMADO" => p \in confirmadas'
  BY DEF Grava, TypeOK
<1>5. \A x \in Parcelas : parcelas'[x].status = "CONFIRMADO"
                            => x \in confirmadas'
  BY <1>3, <1>4 DEF ConfirmadasInv, Confirmada
<1>6. cessando' > 0 => confirmadas = Parcelas
  BY DEF ConfirmadasInv
<1> QED
  BY <1>2, <1>4, <1>5, <1>6 DEF Efeitos, TypeOK

LEMMA EfeitosGravacao ==
  ASSUME TypeOK, ConfirmadasInv, NEW r \in Reqs,
         \/ Gravar(r)
         \/ GravarComprovante(r)
         \/ GravarRecebido(r)
         \/ GravarRemocao(r)
         \/ GravarConfirmacao(r)
         \/ RegravarConfirmacao(r)
  PROVE  Efeitos
<1>1. req[r] \in Requisicao
  BY DEF TypeOK
<1>2. req[r].p \in Parcelas /\ req[r].alvo \in StatusPagamento
  BY <1>1, Campos
<1>3. UNCHANGED <<concessao, eventos, cessando, semAtivar>>
  BY DEF Gravar, GravarComprovante, GravarRecebido, GravarRemocao,
         GravarConfirmacao, RegravarConfirmacao
<1>4. CASE Gravar(r)
  <2>1. PICK c \in BOOLEAN :
               Grava(req[r].p, [status |-> req[r].alvo, comprovante |-> c])
    BY <1>4 DEF Gravar
  <2>2. [status |-> req[r].alvo, comprovante |-> c] \in Parcela
    BY <1>2 DEF Parcela
  <2> QED
    BY <1>2, <1>3, <2>1, <2>2, EfeitosGrava
<1>5. CASE GravarConfirmacao(r) \/ RegravarConfirmacao(r)
  <2> DEFINE linha == [parcelas[req[r].p] EXCEPT !.status = "CONFIRMADO"]
  <2>1. Grava(req[r].p, linha)
    BY <1>5 DEF GravarConfirmacao, RegravarConfirmacao, MudaStatus
  <2>2. parcelas[req[r].p] \in Parcela /\ "CONFIRMADO" \in StatusPagamento
    BY <1>2 DEF TypeOK, StatusPagamento
  <2>3. linha \in Parcela
    BY <2>2 DEF Parcela
  <2> HIDE DEF linha
  <2> QED
    BY <1>2, <1>3, <2>1, <2>3, EfeitosGrava
<1>6. CASE GravarComprovante(r)
  <2>1. [status |-> req[r].alvo, comprovante |-> TRUE] \in Parcela
    BY <1>2 DEF Parcela
  <2> QED
    BY <1>2, <1>3, <1>6, <2>1, EfeitosGrava DEF GravarComprovante
<1>7. CASE GravarRecebido(r)
  <2>1. [status |-> "RECEBIDO", comprovante |-> TRUE] \in Parcela
    BY DEF Parcela, StatusPagamento
  <2> QED
    BY <1>2, <1>3, <1>7, <2>1, EfeitosGrava DEF GravarRecebido
<1>8. CASE GravarRemocao(r)
  <2>1. [status |-> "PAGO", comprovante |-> FALSE] \in Parcela
    BY DEF Parcela, StatusPagamento
  <2> QED
    BY <1>2, <1>3, <1>8, <2>1, EfeitosGrava DEF GravarRemocao
<1> QED
  BY <1>4, <1>5, <1>6, <1>7, <1>8

\* Steps that write only the concessao.
LEMMA EfeitosConcessao ==
  ASSUME TypeOK, ConfirmadasInv, NEW r \in Reqs,
         \/ SalvarAtivo(r)
         \/ SalvarCessado(r)
         \/ CessarTodas(r)
         \/ GravarConcessao(r)
  PROVE  Efeitos
<1>1. req[r] \in Requisicao /\ req[r].calvo # "APTO"
  BY DEF TypeOK, ReqCoerente
<1>2. req[r].calvo \in StatusConcessao
  BY <1>1, Campos
<1>3. concessao' \in {"ATIVO", "CESSADO", req[r].calvo}
  BY DEF SalvarAtivo, SalvarCessado, CessarTodas, GravarConcessao
<1>4. concessao' \in StatusConcessao /\ concessao' # "APTO"
  BY <1>1, <1>2, <1>3 DEF StatusConcessao
<1>5. UNCHANGED <<parcelas, eventos, cessando, confirmadas, semAtivar>>
  BY DEF SalvarAtivo, SalvarCessado, CessarTodas, GravarConcessao
<1> QED
  BY <1>4, <1>5, EfeitosIguais DEF TypeOK

\* The events a batch emits before it commits.
LEMMA EventosDoLote ==
  ASSUME TypeOK, NEW r \in Reqs, IniciarLote(r)
  PROVE  eventos' \in Nat /\ eventos' >= eventos
<1>1. PICK S \in SUBSET Parcelas, s \in AlvosLote :
        eventos' = IF s = "CONFIRMADO"
                   THEN eventos + Cardinality({p \in S : ~Confirmada(p)})
                   ELSE eventos
  BY DEF IniciarLote
<1> DEFINE T == {p \in S : ~Confirmada(p)}
<1>2. IsFiniteSet(Parcelas)
  BY NParcelasAssumption, FS_Interval DEF Parcelas
<1>3. T \subseteq Parcelas
  OBVIOUS
<1>4. Cardinality(T) \in Nat
  BY <1>2, <1>3, FS_Subset, FS_CardinalityType
<1> HIDE DEF T
<1>5. eventos' = eventos \/ eventos' = eventos + Cardinality(T)
  BY <1>1 DEF T
<1> QED
  BY <1>4, <1>5 DEF TypeOK

LEMMA EfeitosLote ==
  ASSUME TypeOK, ConfirmadasInv, NEW r \in Reqs, IniciarLote(r)
  PROVE  Efeitos
<1>1. UNCHANGED <<concessao, parcelas, cessando, confirmadas, semAtivar>>
  BY DEF IniciarLote
<1>2. eventos' \in Nat /\ cessando' \in Nat
  BY <1>1, EventosDoLote DEF TypeOK
<1> QED
  BY <1>1, <1>2, EfeitosIguais DEF TypeOK

LEMMA EfeitosCommit ==
  ASSUME TypeOK, ConfirmadasInv, NEW r \in Reqs, CommitLote(r)
  PROVE  Efeitos
<1>1. req[r] \in Requisicao
  BY DEF TypeOK
<1>2. req[r].alvo \in StatusPagamento /\ req[r].fila \in SUBSET Parcelas
  BY <1>1, Campos
<1>3. /\ parcelas' = [p \in Parcelas |->
                        IF p \in req[r].fila
                        THEN [parcelas[p] EXCEPT !.status = req[r].alvo]
                        ELSE parcelas[p]]
      /\ confirmadas' = IF req[r].alvo = "CONFIRMADO"
                        THEN confirmadas \cup req[r].fila ELSE confirmadas
      /\ semAtivar' = (semAtivar \/ (req[r].alvo = "LIBERADO"
                                     /\ 1 \in req[r].fila))
      /\ UNCHANGED <<concessao, eventos, cessando>>
  BY DEF CommitLote
<1>4. ASSUME NEW p \in Parcelas
      PROVE  /\ parcelas'[p] \in Parcela
             /\ parcelas'[p].status = "CONFIRMADO" => p \in confirmadas'
  <2>1. parcelas[p] \in Parcela
    BY DEF TypeOK
  <2> DEFINE linha == [parcelas[p] EXCEPT !.status = req[r].alvo]
  <2>2. linha \in Parcela /\ linha.status = req[r].alvo
    BY <1>2, <2>1 DEF Parcela
  <2>3. parcelas'[p] = IF p \in req[r].fila THEN linha ELSE parcelas[p]
    BY <1>3
  <2> HIDE DEF linha
  <2>4. CASE p \in req[r].fila
    BY <1>3, <2>2, <2>3, <2>4
  <2>5. CASE p \notin req[r].fila
    BY <1>3, <2>1, <2>3, <2>5 DEF ConfirmadasInv, Confirmada
  <2> QED
    BY <2>4, <2>5
<1>5. parcelas' \in [Parcelas -> Parcela]
  BY <1>3, <1>4
<1>6. confirmadas \subseteq confirmadas' /\ confirmadas' \in SUBSET Parcelas
  BY <1>2, <1>3 DEF TypeOK
<1>7. cessando' > 0 => confirmadas = Parcelas
  BY <1>3 DEF ConfirmadasInv
<1>8. semAtivar' \in BOOLEAN /\ (semAtivar => semAtivar')
  BY <1>3 DEF TypeOK
<1> QED
  BY <1>3, <1>4, <1>5, <1>6, <1>7, <1>8 DEF Efeitos, TypeOK

\* Reads, and requests that begin or fail.
LEMMA EfeitosLeitura ==
  ASSUME TypeOK, ConfirmadasInv, NEW r \in Reqs,
         SoReq \/ Emitir(r) \/ Errar(r)
  PROVE  Efeitos
<1>1. /\ UNCHANGED <<concessao, parcelas, cessando, confirmadas>>
      /\ eventos' \in {eventos, eventos + 1}
      /\ semAtivar' \in {semAtivar, semAtivar \/ r \in Ativando}
  BY DEF SoReq, Emitir, Errar
<1>2. eventos' \in Nat
  BY <1>1 DEF TypeOK
<1>3. semAtivar' \in BOOLEAN /\ (semAtivar => semAtivar')
  BY <1>1 DEF TypeOK
<1> QED
  BY <1>1, <1>2, <1>3, EfeitosIguais DEF TypeOK

LEMMA EfeitosOuvinte ==
  ASSUME TypeOK, ConfirmadasInv,
         OuvirConfirmado \/ CessarOuvinte \/ ErrarOuvinte \/ Parar
  PROVE  Efeitos
<1>1. CASE OuvirConfirmado
  <2>1. /\ UNCHANGED <<concessao, parcelas, confirmadas, semAtivar>>
        /\ eventos' \in Nat /\ cessando' \in Nat
    BY <1>1 DEF OuvirConfirmado, TypeOK
  <2>2. cessando' > 0 => confirmadas = Parcelas
    <3>1. CASE TodasConfirmadas
      BY <3>1 DEF ConfirmadasInv, TodasConfirmadas, TypeOK
    <3>2. CASE ~TodasConfirmadas
      BY <1>1, <3>2 DEF OuvirConfirmado, ConfirmadasInv
    <3> QED
      BY <3>1, <3>2
  <2> QED
    BY <2>1, <2>2 DEF Efeitos, TypeOK, ConfirmadasInv, Confirmada
<1>2. CASE CessarOuvinte
  BY <1>2, EfeitosIguais DEF CessarOuvinte, TypeOK, StatusConcessao
<1>3. CASE ErrarOuvinte
  BY <1>3, EfeitosIguais DEF ErrarOuvinte, TypeOK
<1>4. CASE Parar
  <2>1. semAtivar' \in BOOLEAN /\ (semAtivar => semAtivar')
    BY <1>4 DEF Parar, TypeOK
  <2> QED
    BY <1>4, <2>1, EfeitosIguais DEF Parar, TypeOK
<1> QED
  BY <1>1, <1>2, <1>3, <1>4

LEMMA EfeitosNext ==
  ASSUME TypeOK, ConfirmadasInv, [Next]_vars
  PROVE  Efeitos
<1>1. CASE UNCHANGED vars
  BY <1>1, EfeitosIguais DEF vars, TypeOK
<1>2. ASSUME NEW r \in Reqs, Pagamento(r) PROVE Efeitos
  BY <1>2, EfeitosGravacao, EfeitosConcessao, EfeitosLeitura
     DEF Pagamento, IniciarStatus, IniciarCancelamento, IniciarLiberacao,
         LerAtivar, Conferir, LerCessar
<1>3. ASSUME NEW r \in Reqs, Comprovante(r) PROVE Efeitos
  BY <1>3, EfeitosGravacao, EfeitosConcessao, EfeitosLeitura
     DEF Comprovante, IniciarComprovante, IniciarRemocao, IniciarConfirmacao,
         ConferirTodas
<1>4. ASSUME NEW r \in Reqs, Concessao(r) PROVE Efeitos
  BY <1>4, EfeitosConcessao, EfeitosLeitura
     DEF Concessao, IniciarConcessao, IniciarCessacao, Listar, Proxima,
         LerCancelar
<1>5. ASSUME NEW r \in Reqs, Sistema(r) PROVE Efeitos
  BY <1>5, EfeitosLote, EfeitosCommit, EfeitosLeitura
     DEF Sistema, IniciarVarredura
<1> QED
  BY <1>1, <1>2, <1>3, <1>4, <1>5, EfeitosOuvinte DEF Next

-----------------------------------------------------------------------------
(* Every step                                                              *)

\* The requests after a step: one of them took it, the process stopped, or
\* nothing happened to them.
LEMMA TrocaNext ==
  ASSUME TypeOK, ConfirmadasInv, [Next]_vars
  PROVE  \/ \E r \in Reqs : \E q \in Requisicao : Troca(r, q)
         \/ Parar
         \/ UNCHANGED req
<1>1. ASSUME NEW r \in Reqs,
             Pagamento(r) \/ Comprovante(r) \/ Concessao(r) \/ Sistema(r)
      PROVE  \E q \in Requisicao : Troca(r, q)
  BY <1>1, TrocaPagamento, TrocaComprovante, TrocaConcessao, TrocaSistema
<1>2. OuvirConfirmado \/ CessarOuvinte \/ ErrarOuvinte => UNCHANGED req
  BY DEF OuvirConfirmado, CessarOuvinte, ErrarOuvinte
<1> QED
  BY <1>1, <1>2 DEF Next, vars

LEMMA InitTudo == Init => TypeOK /\ ConfirmadasInv /\ AtivacaoInv
<1> SUFFICES ASSUME Init PROVE TypeOK /\ ConfirmadasInv /\ AtivacaoInv
  OBVIOUS
<1>1. \A r \in Reqs : req[r] = Ocioso
  BY DEF Init
<1>2. [status |-> "PENDENTE", comprovante |-> FALSE] \in Parcela
  BY DEF Parcela, StatusPagamento
<1>3. \A p \in Parcelas : /\ parcelas[p].status = "PENDENTE"
                          /\ parcelas[p] \in Parcela
  BY <1>2 DEF Init
<1>4. TypeOK
  BY <1>1, <1>2, Tipos DEF Init, TypeOK, StatusConcessao
<1>5. ConfirmadasInv
  BY <1>1, <1>3, Tipos DEF Init, ConfirmadasInv, Confirmada, Verificou
<1>6. 1 \in Parcelas
  BY NParcelasAssumption DEF Parcelas
<1>7. AtivacaoInv
  BY <1>1, <1>3, <1>6, Tipos DEF AtivacaoInv, PrimeiraParcelaAtiva, Em
<1> QED
  BY <1>4, <1>5, <1>7

\* The observer of the missed cessations only turns true.
LEMMA SemCessarPasso ==
  ASSUME semCessar \in BOOLEAN, [Next]_vars
  PROVE  semCessar' \in BOOLEAN /\ (semCessar => semCessar')
<1>1. ASSUME NEW r \in Reqs, Pagamento(r)
      PROVE  UNCHANGED semCessar \/ semCessar' = (semCessar \/ concessao = "CESSADO")
  BY <1>1 DEF Pagamento, IniciarStatus, IniciarCancelamento,
     IniciarLiberacao, Gravar, LerAtivar, SalvarAtivo, Conferir, LerCessar,
     SalvarCessado, Emitir, SoReq
<1>2. ASSUME NEW r \in Reqs, Comprovante(r)
      PROVE  \/ UNCHANGED semCessar
             \/ semCessar' = (semCessar \/ (/\ req[r].alvo = "CONFIRMADO"
                                            /\ ~Confirmada(req[r].p)))
             \/ semCessar' = (semCessar \/ ~req[r].aceita)
  BY <1>2 DEF Comprovante, IniciarComprovante, GravarComprovante,
     GravarRecebido, IniciarRemocao, GravarRemocao, IniciarConfirmacao,
     GravarConfirmacao, RegravarConfirmacao, ConferirTodas, CessarTodas, SoReq
<1>3. ASSUME NEW r \in Reqs, Concessao(r)
      PROVE  \/ UNCHANGED semCessar
             \/ semCessar' = (semCessar \/ (/\ concessao = "CESSADO"
                                            /\ req[r].calvo # "CESSADO"))
  BY <1>3 DEF Concessao, IniciarConcessao, GravarConcessao, IniciarCessacao,
     Listar, Proxima, LerCancelar, SoReq
<1>4. ASSUME NEW r \in Reqs, Sistema(r)
      PROVE  \/ UNCHANGED semCessar
             \/ semCessar' = (semCessar \/ req[r].alvo = "CONFIRMADO")
             \/ semCessar' = (semCessar \/ SoConfere(req[r]))
  BY <1>4 DEF Sistema, IniciarVarredura, IniciarLote, CommitLote, Errar, SoReq
<1>5. ASSUME OuvirConfirmado \/ CessarOuvinte \/ ErrarOuvinte \/ Parar
      PROVE  \/ UNCHANGED semCessar
             \/ semCessar' = TRUE
             \/ semCessar' = (semCessar \/ Verificando)
  BY <1>5 DEF OuvirConfirmado, CessarOuvinte, ErrarOuvinte, Parar
<1>6. \A b : (semCessar \/ b) \in BOOLEAN /\ (semCessar => (semCessar \/ b))
  OBVIOUS
<1> QED
  BY <1>1, <1>2, <1>3, <1>4, <1>5, <1>6, Zenon DEF Next, vars

LEMMA TypeOKPasso ==
  ASSUME TypeOK, ConfirmadasInv, [Next]_vars
  PROVE  TypeOK'
<1>1. Efeitos
  BY EfeitosNext
<1>2. req' \in [Reqs -> Requisicao] /\ \A r \in Reqs : ReqCoerente(req'[r])
  <2>1. CASE \E r \in Reqs : \E q \in Requisicao : Troca(r, q)
    BY <2>1 DEF Troca, TypeOK
  <2>2. CASE Parar
    BY <2>2, Tipos DEF Parar
  <2>3. CASE UNCHANGED req
    BY <2>3 DEF TypeOK
  <2> QED
    BY <2>1, <2>2, <2>3, TrocaNext
<1>3. semCessar' \in BOOLEAN
  BY SemCessarPasso DEF TypeOK
<1> QED
  BY <1>1, <1>2, <1>3 DEF Efeitos, TypeOK

LEMMA ConfirmadasPasso ==
  ASSUME TypeOK, ConfirmadasInv, [Next]_vars
  PROVE  ConfirmadasInv'
<1>1. Efeitos
  BY EfeitosNext
<1>2. confirmadas = Parcelas => confirmadas' = Parcelas
  BY <1>1 DEF Efeitos
<1>3. \A r \in Reqs : Verificou(req[r], confirmadas')
  <2> TAKE r \in Reqs
  <2>1. Verificou(req[r], confirmadas)
    BY DEF ConfirmadasInv
  <2> QED
    BY <1>1, <1>2, <2>1 DEF Verificou, Efeitos
<1>4. \A r \in Reqs : Verificou(req'[r], confirmadas')
  <2>1. ASSUME NEW r \in Reqs, NEW q \in Requisicao, Troca(r, q),
               NEW x \in Reqs
        PROVE  Verificou(req'[x], confirmadas')
    <3>1. req'[x] = IF x = r THEN q ELSE req[x]
      BY <2>1 DEF Troca, TypeOK
    <3>2. Verificou(q, confirmadas')
      BY <2>1 DEF Troca
    <3> QED
      BY <1>3, <3>1, <3>2
  <2>2. CASE Parar
    BY <2>2, Tipos DEF Parar, Verificou
  <2>3. CASE UNCHANGED req
    BY <1>3, <2>3
  <2> QED
    BY <2>1, <2>2, <2>3, TrocaNext
<1> QED
  BY <1>1, <1>2, <1>4 DEF ConfirmadasInv, Efeitos, Confirmada

\* Somebody who activates goes on activating while the concessao is APTO.
LEMMA AtivandoPasso ==
  ASSUME TypeOK, ConfirmadasInv, [Next]_vars,
         Ativando # {}, concessao' = "APTO", ~semAtivar'
  PROVE  Ativando' # {}
<1>1. PICK a \in Reqs : req[a].pc \in EmAtivacao
  BY DEF Ativando, EmAtivacao
<1>2. ASSUME NEW r \in Reqs, NEW q \in Requisicao, Troca(r, q)
      PROVE  req'[a].pc \in EmAtivacao
  <2>1. req'[a] = IF a = r THEN q ELSE req[a]
    BY <1>2 DEF Troca, TypeOK
  <2>2. a = r => q.pc \in EmAtivacao
    BY <1>1, <1>2 DEF Troca
  <2> QED
    BY <1>1, <2>1, <2>2
<1>3. ~Parar
  BY <1>1 DEF Parar
<1>4. UNCHANGED req => req'[a].pc \in EmAtivacao
  BY <1>1
<1>5. req'[a].pc \in EmAtivacao
  BY <1>2, <1>3, <1>4, TrocaNext
<1> QED
  BY <1>5 DEF Ativando, EmAtivacao

\* Who writes LIBERADO in the first installment: a release that goes on to
\* activate, an upload that saves what it read, or a batch.
LEMMA QuemLibera ==
  ASSUME TypeOK, ConfirmadasInv, [Next]_vars,
         parcelas'[1].status = "LIBERADO", parcelas[1].status # "LIBERADO"
  PROVE  \/ Ativando' # {}
         \/ semAtivar'
         \/ \E r \in Reqs : /\ Em(r, "gravar_comp")
                            /\ req[r].p = 1
                            /\ req[r].alvo = "LIBERADO"
<1>0. 1 \in Parcelas
  BY NParcelasAssumption DEF Parcelas
<1>1. ASSUME NEW r \in Reqs, Gravar(r)
      PROVE  Ativando' # {}
  <2>1. PICK c \in BOOLEAN :
               Grava(req[r].p, [status |-> req[r].alvo, comprovante |-> c])
    BY <1>1 DEF Gravar
  <2>2. req[r].p = 1 /\ req[r].alvo = "LIBERADO"
    BY <1>0, <2>1 DEF Grava, TypeOK
  <2>3. Ativa(req[r])
    BY <1>1, <2>2 DEF Gravar, Em, Ativa, TypeOK, ReqCoerente, EmLaco
  <2>4. Passa(r, "ativar")
    BY <1>1, <2>3 DEF Gravar
  <2>5. req'[r].pc = "ativar"
    BY <2>4 DEF Passa, TypeOK, Requisicao
  <2> QED
    BY <2>5 DEF Ativando
<1>2. ASSUME NEW r \in Reqs, GravarComprovante(r)
      PROVE  Em(r, "gravar_comp") /\ req[r].p = 1 /\ req[r].alvo = "LIBERADO"
  BY <1>0, <1>2 DEF GravarComprovante, Grava, TypeOK
<1>3. ASSUME NEW r \in Reqs, CommitLote(r)
      PROVE  semAtivar'
  <2>1. 1 \in req[r].fila
    BY <1>0, <1>3 DEF CommitLote
  <2>2. parcelas'[1] = [parcelas[1] EXCEPT !.status = req[r].alvo]
    BY <1>0, <1>3, <2>1 DEF CommitLote
  <2>3. req[r].alvo = "LIBERADO"
    BY <1>0, <2>2 DEF TypeOK, Parcela
  <2> QED
    BY <1>3, <2>1, <2>3 DEF CommitLote
<1>4. ASSUME NEW r \in Reqs,
             \/ GravarRecebido(r)
             \/ GravarRemocao(r)
             \/ GravarConfirmacao(r)
             \/ RegravarConfirmacao(r)
      PROVE  FALSE
  <2>1. PICK p \in Parcelas, linha \in Parcela :
          /\ Grava(p, linha)
          /\ linha.status # "LIBERADO"
    <3>1. req[r] \in Requisicao
      BY DEF TypeOK
    <3>2. req[r].p \in Parcelas
      BY <3>1, Campos
    <3>3. CASE GravarRecebido(r)
      <4> DEFINE linha == [status |-> "RECEBIDO", comprovante |-> TRUE]
      <4>1. linha \in Parcela /\ linha.status # "LIBERADO"
        BY DEF Parcela, StatusPagamento
      <4>2. Grava(req[r].p, linha)
        BY <3>3 DEF GravarRecebido
      <4> HIDE DEF linha
      <4> QED
        BY <3>2, <4>1, <4>2
    <3>4. CASE GravarRemocao(r)
      <4> DEFINE linha == [status |-> "PAGO", comprovante |-> FALSE]
      <4>1. linha \in Parcela /\ linha.status # "LIBERADO"
        BY DEF Parcela, StatusPagamento
      <4>2. Grava(req[r].p, linha)
        BY <3>4 DEF GravarRemocao
      <4> HIDE DEF linha
      <4> QED
        BY <3>2, <4>1, <4>2
    <3>5. CASE GravarConfirmacao(r) \/ RegravarConfirmacao(r)
      <4> DEFINE linha == [parcelas[req[r].p] EXCEPT !.status = "CONFIRMADO"]
      <4>1. parcelas[req[r].p] \in Parcela /\ "CONFIRMADO" \in StatusPagamento
        BY <3>2 DEF TypeOK, StatusPagamento
      <4>2. linha \in Parcela /\ linha.status # "LIBERADO"
        BY <4>1 DEF Parcela
      <4>3. Grava(req[r].p, linha)
        BY <3>5 DEF GravarConfirmacao, RegravarConfirmacao, MudaStatus
      <4> HIDE DEF linha
      <4> QED
        BY <3>2, <4>2, <4>3
    <3> QED
      BY <1>4, <3>3, <3>4, <3>5
  <2> QED
    BY <1>0, <2>1 DEF Grava, TypeOK
<1>5. ~UNCHANGED parcelas
  OBVIOUS
<1>6. ~(OuvirConfirmado \/ CessarOuvinte \/ ErrarOuvinte \/ Parar
        \/ UNCHANGED vars)
  BY <1>5 DEF OuvirConfirmado, CessarOuvinte, ErrarOuvinte, Parar, vars
<1>7. PICK r \in Reqs :
        Pagamento(r) \/ Comprovante(r) \/ Concessao(r) \/ Sistema(r)
  BY <1>6 DEF Next
<1>8. Pagamento(r) => Gravar(r)
  BY <1>5 DEF Pagamento, IniciarStatus, IniciarCancelamento,
     IniciarLiberacao, LerAtivar, SalvarAtivo, Conferir, LerCessar,
     SalvarCessado, Emitir, SoReq
<1>9. ~Concessao(r)
  BY <1>5 DEF Concessao, IniciarConcessao, GravarConcessao, IniciarCessacao,
     Listar, Proxima, LerCancelar, SoReq
<1>10. Sistema(r) => CommitLote(r)
  BY <1>5 DEF Sistema, IniciarVarredura, IniciarLote, Errar, SoReq
<1>11. Comprovante(r) => GravarComprovante(r)
  BY <1>4, <1>5 DEF Comprovante, IniciarComprovante, IniciarRemocao,
     IniciarConfirmacao, ConferirTodas, CessarTodas, SoReq
<1> QED
  BY <1>1, <1>2, <1>3, <1>7, <1>8, <1>9, <1>10, <1>11

LEMMA AtivacaoPasso ==
  ASSUME TypeOK, ConfirmadasInv, AtivacaoInv, [Next]_vars
  PROVE  AtivacaoInv'
<1>1. SUFFICES ASSUME concessao' = "APTO", ~semAtivar',
                      \/ parcelas'[1].status = "LIBERADO"
                      \/ \E r \in Reqs : /\ req'[r].pc = "gravar_comp"
                                         /\ req'[r].p = 1
                                         /\ req'[r].alvo = "LIBERADO"
               PROVE  Ativando' # {}
  BY DEF AtivacaoInv, PrimeiraParcelaAtiva, Em
<1>2. concessao = "APTO" /\ ~semAtivar
  BY <1>1, EfeitosNext DEF Efeitos, TypeOK
<1>3. CASE Ativando # {}
  BY <1>1, <1>3, AtivandoPasso
<1>4. CASE Ativando = {}
  <2>1. parcelas[1].status # "LIBERADO"
    BY <1>2, <1>4 DEF AtivacaoInv, PrimeiraParcelaAtiva
  <2>2. \A r \in Reqs : ~(/\ Em(r, "gravar_comp")
                          /\ req[r].p = 1
                          /\ req[r].alvo = "LIBERADO")
    BY <1>2, <1>4 DEF AtivacaoInv
  <2>3. CASE parcelas'[1].status = "LIBERADO"
    BY <1>1, <2>1, <2>2, <2>3, QuemLibera
  <2>4. ASSUME NEW x \in Reqs, req'[x].pc = "gravar_comp",
               req'[x].p = 1, req'[x].alvo = "LIBERADO"
        PROVE  FALSE
    <3>1. ASSUME NEW r \in Reqs, NEW q \in Requisicao, Troca(r, q)
          PROVE  FALSE
      <4>1. req'[x] = IF x = r THEN q ELSE req[x]
        BY <3>1 DEF Troca, TypeOK
      <4>2. x = r
        BY <2>2, <2>4, <4>1 DEF Em
      <4>3. q.alvo = parcelas[q.p].status
        BY <2>4, <3>1, <4>1, <4>2 DEF Troca
      <4> QED
        BY <2>1, <2>4, <4>1, <4>2, <4>3
    <3>2. ~Parar
      BY <2>4, Tipos DEF Parar
    <3>3. ~UNCHANGED req
      BY <2>2, <2>4 DEF Em
    <3> QED
      BY <3>1, <3>2, <3>3, TrocaNext
  <2> QED
    BY <1>1, <2>3, <2>4
<1> QED
  BY <1>3, <1>4

-----------------------------------------------------------------------------
(* Theorems                                                                *)

\* Whatever the number of requests and installments, and whatever fails, the
\* rows and the requests stay as TypeOK says.
THEOREM Tipagem == Spec => [](TypeOK /\ ConfirmadasInv)
<1>1. Init => TypeOK /\ ConfirmadasInv
  BY InitTudo
<1>2. TypeOK /\ ConfirmadasInv /\ [Next]_vars => (TypeOK /\ ConfirmadasInv)'
  BY TypeOKPasso, ConfirmadasPasso
<1> QED
  BY <1>1, <1>2, PTL DEF Spec

\* Every value stays of its type and every request coherent.
THEOREM TypeCorrect == Spec => []TypeOK
  BY Tipagem, PTL

\* A released first installment never leaves the concessao APTO with nobody
\* activating it, unless an activation failed or a batch skipped it.
THEOREM PrimeiraParcela == Spec => []PrimeiraParcelaAtiva
<1>1. Init => TypeOK /\ ConfirmadasInv /\ AtivacaoInv
  BY InitTudo
<1>2. (TypeOK /\ ConfirmadasInv /\ AtivacaoInv) /\ [Next]_vars
        => (TypeOK /\ ConfirmadasInv /\ AtivacaoInv)'
  BY TypeOKPasso, ConfirmadasPasso, AtivacaoPasso
<1>3. AtivacaoInv => PrimeiraParcelaAtiva
  BY DEF AtivacaoInv
<1> QED
  BY <1>1, <1>2, <1>3, PTL DEF Spec

\* Who writes CESSADO in the concessao.
LEMMA QuemCessa ==
  ASSUME TypeOK, ConfirmadasInv, [Next]_vars,
         concessao' = "CESSADO", concessao # "CESSADO"
  PROVE  \/ confirmadas = Parcelas
         \/ \E r \in Reqs : Em(r, "gravar_conc")
<1>1. ~UNCHANGED concessao
  OBVIOUS
<1>2. ASSUME NEW r \in Reqs, SalvarCessado(r) \/ CessarTodas(r)
      PROVE  confirmadas = Parcelas
  BY <1>2 DEF SalvarCessado, CessarTodas, Em, ConfirmadasInv, Verificou
<1>3. ASSUME NEW r \in Reqs, GravarConcessao(r)
      PROVE  Em(r, "gravar_conc")
  BY <1>3 DEF GravarConcessao
<1>4. CessarOuvinte => confirmadas = Parcelas
  BY DEF CessarOuvinte, ConfirmadasInv
<1>5. ~(OuvirConfirmado \/ ErrarOuvinte \/ Parar \/ UNCHANGED vars)
  BY <1>1 DEF OuvirConfirmado, ErrarOuvinte, Parar, vars
<1>6. ASSUME NEW r \in Reqs, Pagamento(r)
      PROVE  SalvarCessado(r)
  BY <1>1, <1>6 DEF Pagamento, IniciarStatus, IniciarCancelamento,
     IniciarLiberacao, Gravar, LerAtivar, SalvarAtivo, Conferir, LerCessar,
     Emitir, SoReq
<1>7. ASSUME NEW r \in Reqs, Comprovante(r)
      PROVE  CessarTodas(r)
  BY <1>1, <1>7 DEF Comprovante, IniciarComprovante, GravarComprovante,
     GravarRecebido, IniciarRemocao, GravarRemocao, IniciarConfirmacao,
     GravarConfirmacao, RegravarConfirmacao, ConferirTodas, SoReq
<1>8. ASSUME NEW r \in Reqs, Concessao(r)
      PROVE  GravarConcessao(r)
  BY <1>1, <1>8 DEF Concessao, IniciarConcessao, IniciarCessacao, Listar,
     Proxima, LerCancelar, SoReq
<1>9. ASSUME NEW r \in Reqs
      PROVE  ~Sistema(r)
  BY <1>1 DEF Sistema, IniciarVarredura, IniciarLote, CommitLote, Errar, SoReq
<1> QED
  BY <1>2, <1>3, <1>4, <1>5, <1>6, <1>7, <1>8, <1>9 DEF Next

\* The automatic cessation happens only after every installment has been
\* confirmed, however long after its check it comes.
THEOREM Cessacao == Spec => CessacaoJustificada
<1>1. (TypeOK /\ ConfirmadasInv) /\ [Next]_vars
        => [(concessao' = "CESSADO" /\ concessao # "CESSADO")
              => \/ confirmadas = Parcelas
                 \/ \E r \in Reqs : Em(r, "gravar_conc")]_vars
  BY QuemCessa
<1> QED
  BY <1>1, Tipagem, PTL DEF Spec, CessacaoJustificada
-----------------------------------------------------------------------------
(* Requests that do not overlap                                            *)

\* Each request ends before another begins: there is a single slot.
UmaPorVez == \A a, b \in Reqs : a = b

\* The state a step leaves its request in.
LEMMA Destinos ==
  ASSUME ReqOK, NEW r \in Reqs
  PROVE  /\ \A q : Comeca(r, q) => req'[r] = q
         /\ Termina(r) => req'[r] = Ocioso
         /\ Prossegue(r) => req'[r] = Apos(req[r])
         /\ \A pc \in Pcs : Passa(r, pc) =>
              req'[r] = [req[r] EXCEPT !.pc = pc]
  BY DEF ReqOK, Comeca, Termina, Prossegue, Passa

\* Only the place of a request changes when it moves on.
LEMMA SoMudaPc ==
  ASSUME NEW q \in Requisicao, NEW pc \in Pcs
  PROVE  /\ [q EXCEPT !.pc = pc] \in Requisicao
         /\ [q EXCEPT !.pc = pc].pc = pc
         /\ [q EXCEPT !.pc = pc].op = q.op
         /\ [q EXCEPT !.pc = pc].p = q.p
         /\ [q EXCEPT !.pc = pc].alvo = q.alvo
         /\ [q EXCEPT !.pc = pc].calvo = q.calvo
         /\ [q EXCEPT !.pc = pc].fila = q.fila
  BY DEF Requisicao

LEMMA DestinoPassa ==
  ASSUME ReqOK, NEW r \in Reqs, NEW pc \in Pcs, Passa(r, pc)
  PROVE  /\ req'[r].pc = pc
         /\ req'[r].op = req[r].op
         /\ req'[r].p = req[r].p
         /\ req'[r].alvo = req[r].alvo
         /\ req'[r].calvo = req[r].calvo
         /\ req'[r].fila = req[r].fila
<1>1. req[r] \in Requisicao /\ req'[r] = [req[r] EXCEPT !.pc = pc]
  BY Destinos DEF ReqOK
<1> QED
  BY <1>1, SoMudaPc

\* What follows a write: the verification of a confirmation, the next turn of
\* a loop, or the end of the request.
LEMMA DestinoApos ==
  ASSUME NEW q \in Requisicao
  PROVE  \/ /\ q.op = "atualizarStatus" /\ q.alvo = "CONFIRMADO"
            /\ Apos(q).pc = "conferir"
            /\ Apos(q).op = q.op /\ Apos(q).alvo = q.alvo
            /\ Apos(q).calvo = q.calvo
         \/ /\ q.op \in EmLaco
            /\ Apos(q).pc = "proxima"
            /\ Apos(q).op = q.op /\ Apos(q).alvo = q.alvo
            /\ Apos(q).calvo = q.calvo /\ Apos(q).fila = q.fila
         \/ /\ ~(q.op = "atualizarStatus" /\ q.alvo = "CONFIRMADO")
            /\ q.op \notin EmLaco
            /\ Apos(q) = Ocioso
<1>1. "conferir" \in Pcs /\ "proxima" \in Pcs
  BY DEF Pcs
<1>2. CASE q.op = "atualizarStatus" /\ q.alvo = "CONFIRMADO"
  <2>1. Apos(q) = [q EXCEPT !.pc = "conferir"]
    BY <1>2 DEF Apos
  <2> QED
    BY <1>1, <1>2, <2>1, SoMudaPc
<1>3. CASE q.op \in EmLaco
  <2>1. Apos(q) = [q EXCEPT !.pc = "proxima"]
    BY <1>3 DEF Apos, EmLaco
  <2> QED
    BY <1>1, <1>3, <2>1, SoMudaPc
<1> QED
  BY <1>2, <1>3 DEF Apos

-----------------------------------------------------------------------------
(* cessarConcessao leaves nothing to pay                                   *)

\* What a cessation that is in its loop knows of the rows P: those it does
\* not have to visit any more, the one it is visiting aside, are spared or
\* cancelled.
Limpo(q, P) ==
    q.op = "cessar" =>
      /\ q.pc \in {"proxima", "gravar_conc"} =>
           \A p \in Parcelas \ q.fila : P[p].status \in Poupadas
      /\ q.pc \in {"cancelar_ler", "gravar"} =>
           \A p \in Parcelas \ (q.fila \cup {q.p}) : P[p].status \in Poupadas
      /\ q.pc = "gravar_conc" => q.fila = {}

\* Why CessacaoManualLimpa holds when requests do not overlap.
CessarInv == \A r \in Reqs : Limpo(req[r], parcelas)

\* A request that is not in the loop of a cessation has nothing to know.
LEMMA LimpoFora ==
  ASSUME UmaPorVez, NEW r \in Reqs,
         \/ req'[r].op # "cessar"
         \/ req'[r].pc \notin {"proxima", "gravar_conc", "cancelar_ler",
                               "gravar"}
  PROVE  CessarInv'
<1>1. Limpo(req'[r], parcelas')
  BY DEF Limpo
<1> QED
  BY <1>1 DEF CessarInv, UmaPorVez

LEMMA CessarPagamento ==
  ASSUME TypeOK, UmaPorVez, CessarInv, NEW r \in Reqs, Pagamento(r)
  PROVE  CessarInv'
<1>0. /\ ReqOK /\ req[r] \in Requisicao /\ ReqCoerente(req[r])
      /\ Limpo(req[r], parcelas)
  BY DEF TypeOK, ReqOK, CessarInv
<1>1. CASE IniciarStatus(r) \/ IniciarCancelamento(r) \/ IniciarLiberacao(r)
  <2>1. PICK p \in Parcelas, s \in StatusPagamento,
             op \in {"atualizarStatus", "cancelar", "liberar"} :
          Comeca(r, [Ocioso EXCEPT !.pc = "gravar", !.op = op, !.p = p,
                                   !.alvo = s])
    BY <1>1, AlvosAssumption
    DEF IniciarStatus, IniciarCancelamento, IniciarLiberacao, StatusPagamento
  <2>2. req'[r] = [Ocioso EXCEPT !.pc = "gravar", !.op = op, !.p = p,
                                 !.alvo = s]
    BY <1>0, <2>1, Destinos
  <2>3. req'[r].op = op
    BY <2>2 DEF Ocioso
  <2> QED
    BY <2>3, LimpoFora
<1>2. CASE Gravar(r)
  <2>1. PICK c \in BOOLEAN :
               Grava(req[r].p, [status |-> req[r].alvo, comprovante |-> c])
    BY <1>2 DEF Gravar
  <2>2. CASE req[r].op = "cessar"
    <3>1. ~Ativa(req[r]) /\ req[r].op \in EmLaco /\ req[r].alvo = "CANCELADO"
      BY <1>0, <2>2 DEF Ativa, EmLaco, ReqCoerente
    <3>2. req'[r] = Apos(req[r])
      BY <1>0, <1>2, <3>1, Destinos DEF Gravar
    <3>3. req'[r].pc = "proxima" /\ req'[r].fila = req[r].fila
      BY <1>0, <2>2, <3>1, <3>2, DestinoApos
    <3>4. \A p \in Parcelas \ (req[r].fila \cup {req[r].p}) :
             parcelas[p].status \in Poupadas
      BY <1>0, <1>2, <2>2 DEF Limpo, Gravar, Em
    <3>5. \A p \in Parcelas :
             parcelas'[p].status = IF p = req[r].p THEN "CANCELADO"
                                   ELSE parcelas[p].status
      BY <2>1, <3>1 DEF Grava, TypeOK
    <3>6. \A p \in Parcelas \ req[r].fila : parcelas'[p].status \in Poupadas
      BY <3>4, <3>5 DEF Poupadas
    <3>7. Limpo(req'[r], parcelas')
      BY <3>3, <3>6 DEF Limpo
    <3> QED
      BY <3>7 DEF CessarInv, UmaPorVez
  <2>3. CASE req[r].op # "cessar"
    <3>1. CASE Ativa(req[r])
      <4>1. Passa(r, "ativar") /\ "ativar" \in Pcs
        BY <1>2, <3>1 DEF Gravar, Pcs
      <4> QED
        BY <1>0, <2>3, <4>1, DestinoPassa, LimpoFora
    <3>2. CASE ~Ativa(req[r])
      <4>1. req'[r] = Apos(req[r])
        BY <1>0, <1>2, <3>2, Destinos DEF Gravar
      <4>2. req'[r].op # "cessar"
        BY <1>0, <2>3, <4>1, DestinoApos, Tipos
      <4> QED
        BY <4>2, LimpoFora
    <3> QED
      BY <3>1, <3>2
  <2> QED
    BY <2>2, <2>3
<1>3. CASE LerAtivar(r) \/ SalvarAtivo(r)
  <2>1. req[r].op # "cessar"
    BY <1>0, <1>3 DEF ReqCoerente, LerAtivar, SalvarAtivo, Em
  <2>2. req'[r] = Apos(req[r]) \/ Passa(r, "salvar_ativo")
    BY <1>0, <1>3, Destinos DEF LerAtivar, SalvarAtivo
  <2>3. Apos(req[r]).op # "cessar"
    BY <1>0, <2>1, DestinoApos, Tipos
  <2>4. "salvar_ativo" \in Pcs
    BY DEF Pcs
  <2>5. req'[r].op # "cessar"
    BY <1>0, <2>1, <2>2, <2>3, <2>4, DestinoPassa
  <2> QED
    BY <2>5, LimpoFora
<1>4. CASE Conferir(r) \/ LerCessar(r) \/ SalvarCessado(r)
  <2>1. \E pc \in {"ler_cessar", "emitir", "salvar_cessado"} : Passa(r, pc)
    BY <1>4 DEF Conferir, LerCessar, SalvarCessado
  <2>2. {"ler_cessar", "emitir", "salvar_cessado"} \subseteq Pcs
    BY DEF Pcs
  <2>3. req'[r].pc \in {"ler_cessar", "emitir", "salvar_cessado"}
    BY <1>0, <2>1, <2>2, DestinoPassa
  <2> QED
    BY <2>3, LimpoFora
<1>5. CASE Emitir(r)
  BY <1>0, <1>5, Destinos, Tipos, LimpoFora DEF Emitir
<1> QED
  BY <1>1, <1>2, <1>3, <1>4, <1>5 DEF Pagamento

LEMMA CessarComprovante ==
  ASSUME TypeOK, UmaPorVez, NEW r \in Reqs, Comprovante(r)
  PROVE  CessarInv'
<1>0. ReqOK /\ req[r] \in Requisicao
  BY DEF TypeOK, ReqOK
<1>1. CASE IniciarComprovante(r)
  <2>1. PICK p \in Parcelas :
          Comeca(r, [Ocioso EXCEPT !.pc = "gravar_comp", !.p = p,
                                   !.op = "comprovante",
                                   !.alvo = parcelas[p].status])
    BY <1>1 DEF IniciarComprovante
  <2>2. req'[r] = [Ocioso EXCEPT !.pc = "gravar_comp", !.p = p,
                                 !.op = "comprovante",
                                 !.alvo = parcelas[p].status]
    BY <1>0, <2>1, Destinos
  <2>3. req'[r].pc = "gravar_comp"
    BY <2>2 DEF Ocioso
  <2> QED
    BY <2>3, LimpoFora
<1>2. CASE IniciarRemocao(r)
  <2>1. PICK p \in Parcelas :
          Comeca(r, [Ocioso EXCEPT !.pc = "gravar_rem", !.op = "remover",
                                   !.p = p])
    BY <1>2 DEF IniciarRemocao
  <2>2. req'[r] = [Ocioso EXCEPT !.pc = "gravar_rem", !.op = "remover",
                                 !.p = p]
    BY <1>0, <2>1, Destinos
  <2>3. req'[r].pc = "gravar_rem"
    BY <2>2 DEF Ocioso
  <2> QED
    BY <2>3, LimpoFora
<1>3. CASE IniciarConfirmacao(r)
  <2>1. PICK p \in Parcelas, aceita \in BOOLEAN :
          Comeca(r, [Ocioso EXCEPT !.pc = "gravar_conf", !.op = "confirmar",
                                   !.p = p, !.aceita = aceita])
    BY <1>3 DEF IniciarConfirmacao
  <2>2. req'[r] = [Ocioso EXCEPT !.pc = "gravar_conf", !.op = "confirmar",
                                 !.p = p, !.aceita = aceita]
    BY <1>0, <2>1, Destinos
  <2>3. req'[r].pc = "gravar_conf"
    BY <2>2 DEF Ocioso
  <2> QED
    BY <2>3, LimpoFora
<1>4. CASE \/ GravarComprovante(r) \/ GravarRecebido(r) \/ GravarRemocao(r)
           \/ GravarConfirmacao(r) \/ RegravarConfirmacao(r)
           \/ ConferirTodas(r) \/ CessarTodas(r)
  <2>1. \/ Termina(r)
        \/ \E pc \in {"gravar_receb", "regravar_conf", "conferir_todas",
                      "cessar_todas"} : Passa(r, pc)
    BY <1>4 DEF GravarComprovante, GravarRecebido, GravarRemocao,
       GravarConfirmacao, RegravarConfirmacao, ConferirTodas, CessarTodas
  <2>2. {"gravar_receb", "regravar_conf", "conferir_todas", "cessar_todas"}
          \subseteq Pcs
    BY DEF Pcs
  <2>3. req'[r].pc \in {"livre", "gravar_receb", "regravar_conf",
                        "conferir_todas", "cessar_todas"}
    BY <1>0, <2>1, <2>2, Destinos, DestinoPassa, Tipos
  <2> QED
    BY <2>3, LimpoFora
<1> QED
  BY <1>1, <1>2, <1>3, <1>4 DEF Comprovante

\* The loop of cessarConcessao: the rows it listed, and the one it visits.
LEMMA CessarLaco ==
  ASSUME TypeOK, UmaPorVez, CessarInv, NEW r \in Reqs,
         Listar(r) \/ Proxima(r) \/ LerCancelar(r)
  PROVE  CessarInv'
<1>0. /\ ReqOK /\ req[r] \in Requisicao /\ ReqCoerente(req[r])
      /\ Limpo(req[r], parcelas)
      /\ parcelas' = parcelas
  BY DEF TypeOK, ReqOK, CessarInv, Listar, Proxima, LerCancelar, SoReq
<1> SUFFICES Limpo(req'[r], parcelas)
  BY <1>0 DEF CessarInv, UmaPorVez
<1>1. CASE Listar(r)
  <2> DEFINE F == {p \in Parcelas : parcelas[p].status \notin Poupadas}
  <2>1. req'[r] = [req[r] EXCEPT !.pc = "proxima", !.fila = F]
    BY <1>0, <1>1 DEF Listar, ReqOK
  <2>2. req'[r].pc = "proxima" /\ req'[r].fila = F
    BY <1>0, <2>1 DEF Requisicao
  <2>3. \A p \in Parcelas \ F : parcelas[p].status \in Poupadas
    OBVIOUS
  <2> QED
    BY <2>2, <2>3 DEF Limpo
<1>2. CASE Proxima(r)
  <2>1. CASE req[r].fila = {} /\ Passa(r, "gravar_conc")
    <3>1. "gravar_conc" \in Pcs
      BY DEF Pcs
    <3>2. /\ req'[r].pc = "gravar_conc" /\ req'[r].op = req[r].op
          /\ req'[r].fila = req[r].fila
      BY <1>0, <2>1, <3>1, DestinoPassa
    <3> QED
      BY <1>0, <1>2, <2>1, <3>2 DEF Limpo, Proxima, Em
  <2>2. CASE Termina(r)
    BY <1>0, <2>2, Destinos, Tipos DEF Limpo
  <2>3. ASSUME NEW p \in req[r].fila, NEW pc \in {"cancelar_ler", "gravar"},
               Comeca(r, [req[r] EXCEPT !.pc = pc, !.p = p,
                                        !.fila = @ \ {p}])
        PROVE  Limpo(req'[r], parcelas)
    <3>1. req'[r] = [req[r] EXCEPT !.pc = pc, !.p = p,
                                   !.fila = req[r].fila \ {p}]
      BY <1>0, <2>3, Destinos DEF Requisicao
    <3>2. /\ req'[r].pc = pc /\ req'[r].op = req[r].op /\ req'[r].p = p
          /\ req'[r].fila = req[r].fila \ {p}
      BY <1>0, <3>1 DEF Requisicao
    <3>3. req[r].op = "cessar" =>
            \A x \in Parcelas \ req[r].fila : parcelas[x].status \in Poupadas
      BY <1>0, <1>2 DEF Limpo, Proxima, Em
    <3>4. Parcelas \ (req'[r].fila \cup {req'[r].p})
            \subseteq Parcelas \ req[r].fila
      BY <3>2
    <3> QED
      BY <3>2, <3>3, <3>4 DEF Limpo
  <2> QED
    BY <1>2, <2>1, <2>2, <2>3 DEF Proxima
<1>3. CASE LerCancelar(r)
  <2>1. req[r].op = "cessar" /\ {"proxima", "gravar"} \subseteq Pcs
    BY <1>0, <1>3 DEF ReqCoerente, LerCancelar, Em, Pcs
  <2>2. \A p \in Parcelas \ (req[r].fila \cup {req[r].p}) :
           parcelas[p].status \in Poupadas
    BY <1>0, <1>3, <2>1 DEF Limpo, LerCancelar, Em
  <2>3. CASE parcelas[req[r].p].status \in {"CANCELADO", "CONFIRMADO"}
    <3>1. Passa(r, "proxima")
      BY <1>3, <2>3 DEF LerCancelar
    <3>2. req'[r].pc = "proxima" /\ req'[r].fila = req[r].fila
      BY <1>0, <2>1, <3>1, DestinoPassa
    <3>3. \A p \in Parcelas \ req[r].fila : parcelas[p].status \in Poupadas
      BY <2>2, <2>3 DEF Poupadas
    <3> QED
      BY <3>2, <3>3 DEF Limpo
  <2>4. CASE parcelas[req[r].p].status \notin {"CANCELADO", "CONFIRMADO"}
    <3>1. Passa(r, "gravar")
      BY <1>3, <2>4 DEF LerCancelar
    <3>2. /\ req'[r].pc = "gravar" /\ req'[r].fila = req[r].fila
          /\ req'[r].p = req[r].p
      BY <1>0, <2>1, <3>1, DestinoPassa
    <3> QED
      BY <2>2, <3>2 DEF Limpo
  <2> QED
    BY <2>3, <2>4
<1> QED
  BY <1>1, <1>2, <1>3

LEMMA CessarConcessao ==
  ASSUME TypeOK, UmaPorVez, CessarInv, NEW r \in Reqs, Concessao(r)
  PROVE  CessarInv'
<1>0. ReqOK
  BY DEF TypeOK, ReqOK
<1>1. CASE IniciarConcessao(r)
  <2>1. PICK op \in Operacoes, s \in StatusConcessao :
          /\ PodeMudar(op, concessao, s)
          /\ Comeca(r, [Ocioso EXCEPT !.pc = "gravar_conc", !.op = op,
                                      !.calvo = s])
    BY <1>1 DEF IniciarConcessao
  <2>2. op # "cessar"
    BY <2>1 DEF PodeMudar
  <2>3. req'[r] = [Ocioso EXCEPT !.pc = "gravar_conc", !.op = op, !.calvo = s]
    BY <1>0, <2>1, Destinos
  <2>4. req'[r].op = op
    BY <2>3 DEF Ocioso
  <2> QED
    BY <2>2, <2>4, LimpoFora
<1>2. CASE GravarConcessao(r)
  BY <1>0, <1>2, Destinos, Tipos, LimpoFora DEF GravarConcessao
<1>3. CASE IniciarCessacao(r)
  <2>1. req'[r] = [Ocioso EXCEPT !.pc = "listar", !.op = "cessar",
                                 !.alvo = "CANCELADO", !.calvo = "CESSADO"]
    BY <1>0, <1>3, Destinos DEF IniciarCessacao
  <2>2. req'[r].pc = "listar"
    BY <2>1 DEF Ocioso
  <2> QED
    BY <2>2, LimpoFora
<1> QED
  BY <1>1, <1>2, <1>3, CessarLaco DEF Concessao

LEMMA CessarSistema ==
  ASSUME TypeOK, UmaPorVez, ~Falhas, NEW r \in Reqs, Sistema(r)
  PROVE  CessarInv'
<1>0. ReqOK
  BY DEF TypeOK, ReqOK
<1>1. CASE IniciarVarredura(r)
  <2>1. PICK op \in {"agendados", "vencimentos"}, S \in SUBSET Parcelas :
          Comeca(r, [Ocioso EXCEPT !.pc = "proxima", !.op = op,
                                   !.alvo = Varreduras[op].para, !.fila = S])
    BY <1>1 DEF IniciarVarredura, Varreduras
  <2>2. req'[r] = [Ocioso EXCEPT !.pc = "proxima", !.op = op,
                                 !.alvo = Varreduras[op].para, !.fila = S]
    BY <1>0, <2>1, Destinos
  <2>3. req'[r].op = op
    BY <2>2 DEF Ocioso
  <2> QED
    BY <2>3, LimpoFora
<1>2. CASE IniciarLote(r)
  <2>1. PICK S \in SUBSET Parcelas, s \in AlvosLote :
          Comeca(r, [Ocioso EXCEPT !.pc = "commit", !.op = "lote",
                                   !.alvo = s, !.fila = S])
    BY <1>2 DEF IniciarLote
  <2>2. req'[r] = [Ocioso EXCEPT !.pc = "commit", !.op = "lote",
                                 !.alvo = s, !.fila = S]
    BY <1>0, <2>1, Destinos
  <2>3. req'[r].op = "lote"
    BY <2>2 DEF Ocioso
  <2> QED
    BY <2>3, LimpoFora
<1>3. CASE CommitLote(r)
  BY <1>0, <1>3, Destinos, Tipos, LimpoFora DEF CommitLote
<1> QED
  BY <1>1, <1>2, <1>3 DEF Sistema, Errar

LEMMA CessarPasso ==
  ASSUME TypeOK, UmaPorVez, ~Falhas, CessarInv, [Next]_vars
  PROVE  CessarInv'
<1>1. CASE UNCHANGED vars
  BY <1>1 DEF vars, CessarInv
<1>2. CASE OuvirConfirmado \/ CessarOuvinte
  BY <1>2 DEF OuvirConfirmado, CessarOuvinte, CessarInv
<1>3. ~ErrarOuvinte /\ ~Parar
  BY DEF ErrarOuvinte, Parar
<1> QED
  BY <1>1, <1>2, <1>3, CessarPagamento, CessarComprovante, CessarConcessao,
     CessarSistema DEF Next

\* The only step of a request that has cancelled everything is to save the
\* concessao.
LEMMA QuemGravaConcessao ==
  ASSUME UmaPorVez, ~Falhas, [Next]_vars, NEW r \in Reqs,
         Em(r, "gravar_conc"), req'[r] # req[r]
  PROVE  UNCHANGED parcelas
<1>1. ~Pagamento(r)
  BY DEF Pagamento, IniciarStatus, IniciarCancelamento, IniciarLiberacao,
     Gravar, LerAtivar, SalvarAtivo, Conferir, LerCessar, SalvarCessado,
     Emitir, Chega, Em
<1>2. ~Comprovante(r)
  BY DEF Comprovante, IniciarComprovante, GravarComprovante, GravarRecebido,
     IniciarRemocao, GravarRemocao, IniciarConfirmacao, GravarConfirmacao,
     RegravarConfirmacao, ConferirTodas, CessarTodas, Chega, Em
<1>3. Concessao(r) => UNCHANGED parcelas
  BY DEF Concessao, IniciarConcessao, GravarConcessao, IniciarCessacao,
     Listar, Proxima, LerCancelar, SoReq
<1>4. ~Sistema(r)
  BY DEF Sistema, IniciarVarredura, IniciarLote, CommitLote, Errar, Chega, Em
<1>5. ~ErrarOuvinte /\ ~Parar
  BY DEF ErrarOuvinte, Parar
<1>6. ~(UNCHANGED vars \/ OuvirConfirmado \/ CessarOuvinte)
  BY DEF vars, OuvirConfirmado, CessarOuvinte
<1> QED
  BY <1>1, <1>2, <1>3, <1>4, <1>5, <1>6 DEF Next, UmaPorVez

\* When requests do not overlap and no query fails, cessarConcessao leaves no
\* installment that can still be paid, whatever the number of installments
\* and the operations that came before it.
THEOREM CessacaoSequencial ==
  (UmaPorVez /\ ~Falhas) => (Spec => CessacaoManualLimpa)
<1> SUFFICES ASSUME UmaPorVez, ~Falhas
             PROVE  Spec => CessacaoManualLimpa
  OBVIOUS
<1> DEFINE Limpa == \A r \in Reqs :
             (Em(r, "gravar_conc") /\ req[r].op = "cessar" /\ req'[r] # req[r])
               => \A p \in Parcelas :
                    parcelas'[p].status \in {"CANCELADO", "CONFIRMADO", "PAGO"}
<1>1. Init => CessarInv
  <2> SUFFICES ASSUME Init PROVE CessarInv
    OBVIOUS
  <2>1. \A r \in Reqs : req[r].op = "nenhuma"
    BY Tipos DEF Init
  <2> QED
    BY <2>1 DEF CessarInv, Limpo
<1>2. TypeOK /\ CessarInv /\ [Next]_vars => CessarInv'
  BY CessarPasso
<1>3. CessarInv /\ [Next]_vars => [Limpa]_vars
  <2> SUFFICES ASSUME CessarInv, [Next]_vars, NEW r \in Reqs,
                      Em(r, "gravar_conc"), req[r].op = "cessar",
                      req'[r] # req[r], NEW p \in Parcelas
               PROVE  parcelas'[p].status \in {"CANCELADO", "CONFIRMADO", "PAGO"}
    OBVIOUS
  <2>1. UNCHANGED parcelas
    BY QuemGravaConcessao
  <2>2. Limpo(req[r], parcelas) /\ req[r].pc = "gravar_conc"
    BY DEF CessarInv, Em
  <2>3. parcelas[p].status \in Poupadas
    BY <2>2 DEF Limpo
  <2> QED
    BY <2>1, <2>3 DEF Poupadas
<1> QED
  BY <1>1, <1>2, <1>3, TypeCorrect, PTL DEF Spec, CessacaoManualLimpa

-----------------------------------------------------------------------------
(* The automatic cessation is not missed                                   *)

\* Why EncerramentoCompleto holds: with every installment confirmed and the
\* concessao not CESSADO somebody has still to check, or the observer noted it.
EncerramentoInv ==
    (TodasConfirmadas /\ ~semCessar) => concessao = "CESSADO" \/ Verificando

\* A step of r leaves the others alone; unless the observer notes it, it takes
\* the concessao from CESSADO never, it ends a check of its own only to cease
\* the concessao, to tell the listener or because an installment is missing,
\* and the last confirmation is one that will be checked.
Segue(r) ==
    /\ \A x \in Reqs \ {r} : req'[x] = req[x]
    /\ eventos + cessando > 0 => eventos' + cessando' > 0
    /\ ~semCessar' =>
         /\ concessao = "CESSADO" => concessao' = "CESSADO"
         /\ Verifica(req[r]) => \/ Verifica(req'[r])
                                \/ eventos' + cessando' > 0
                                \/ concessao' = "CESSADO"
                                \/ ~TodasConfirmadas'
         /\ TodasConfirmadas' => TodasConfirmadas \/ Verifica(req'[r])

LEMMA SegueInv ==
  ASSUME EncerramentoInv, semCessar => semCessar', NEW r \in Reqs, Segue(r)
  PROVE  EncerramentoInv'
<1> SUFFICES ASSUME TodasConfirmadas', ~semCessar', concessao' # "CESSADO"
             PROVE  Verificando'
  BY DEF EncerramentoInv
<1>1. CASE Verifica(req'[r])
  BY <1>1 DEF Verificando
<1>2. CASE ~Verifica(req'[r])
  <2>1. TodasConfirmadas /\ ~semCessar /\ concessao # "CESSADO"
    BY <1>2 DEF Segue
  <2>2. Verificando
    BY <2>1 DEF EncerramentoInv
  <2>3. eventos + cessando > 0 => Verificando'
    BY DEF Segue, Verificando
  <2>4. ASSUME NEW x \in Reqs, Verifica(req[x])
        PROVE  Verificando'
    <3>1. CASE x = r
      BY <1>2, <2>4, <3>1 DEF Segue, Verificando
    <3>2. CASE x # r
      <4>1. req'[x] = req[x]
        BY <3>2 DEF Segue
      <4> QED
        BY <2>4, <4>1 DEF Verificando
    <3> QED
      BY <3>1, <3>2
  <2> QED
    BY <2>2, <2>3, <2>4 DEF Verificando
<1> QED
  BY <1>1, <1>2

\* The other requests, and the types of the counters.
LEMMA Outras ==
  ASSUME TypeOK, NEW r \in Reqs, NEW q \in Requisicao, Troca(r, q)
  PROVE  \A x \in Reqs \ {r} : req'[x] = req[x]
  BY DEF Troca, TypeOK

\* The row an update leaves.
LEMMA LinhaGravada ==
  ASSUME TypeOK, NEW p \in Parcelas, NEW linha, Grava(p, linha)
  PROVE  \A x \in Parcelas :
           parcelas'[x] = IF x = p THEN linha ELSE parcelas[x]
  BY DEF Grava, TypeOK

LEMMA SomaPositiva ==
  ASSUME NEW c \in Nat, NEW d \in Nat, d > 0
  PROVE  c + d > 0
  OBVIOUS

LEMMA Soma ==
  ASSUME NEW a \in Nat, NEW b \in Nat, NEW c \in Nat, NEW d \in Nat,
         c > 0 \/ d > 0 \/ (c >= a /\ d >= b)
  PROVE  a + b > 0 => c + d > 0
  OBVIOUS

\* A step that writes neither the concessao nor the installments, of a request
\* that does not check or goes on checking.
LEMMA SegueLeitura ==
  ASSUME TypeOK, NEW r \in Reqs,
         \A x \in Reqs \ {r} : req'[x] = req[x],
         UNCHANGED <<concessao, parcelas, cessando>>,
         eventos' \in Nat, eventos' >= eventos,
         Verifica(req[r]) => Verifica(req'[r])
  PROVE  Segue(r)
<1>1. TodasConfirmadas' => TodasConfirmadas
  BY DEF TodasConfirmadas, Confirmada
<1>2. cessando \in Nat /\ eventos \in Nat /\ cessando' = cessando
  BY DEF TypeOK
<1>3. cessando' \in Nat /\ cessando' >= cessando
  BY <1>2
<1>4. eventos + cessando > 0 => eventos' + cessando' > 0
  BY <1>2, <1>3, Soma
<1> QED
  BY <1>1, <1>4 DEF Segue

\* A write of the row of p.
LEMMA SegueGravacao ==
  ASSUME TypeOK, NEW r \in Reqs, NEW p \in Parcelas, NEW linha,
         \A x \in Reqs \ {r} : req'[x] = req[x],
         Grava(p, linha), UNCHANGED <<concessao, eventos, cessando>>,
         Verifica(req[r]) => Verifica(req'[r]),
         linha.status = "CONFIRMADO" =>
           Confirmada(p) \/ Verifica(req'[r]) \/ semCessar'
  PROVE  Segue(r)
<1>1. \A x \in Parcelas :
        parcelas'[x] = IF x = p THEN linha ELSE parcelas[x]
  BY LinhaGravada
<1>2. ASSUME TodasConfirmadas', ~semCessar'
      PROVE  TodasConfirmadas \/ Verifica(req'[r])
  <2>1. \A x \in Parcelas : parcelas'[x].status = "CONFIRMADO"
    BY <1>2 DEF TodasConfirmadas, Confirmada
  <2>2. linha.status = "CONFIRMADO"
    BY <1>1, <2>1
  <2>3. \A x \in Parcelas \ {p} : parcelas[x].status = "CONFIRMADO"
    BY <1>1, <2>1
  <2> QED
    BY <1>2, <2>2, <2>3 DEF TodasConfirmadas, Confirmada
<1> QED
  BY <1>2 DEF Segue

\* A write of the concessao, that the installments do not see.
LEMMA SegueConcessao ==
  ASSUME NEW r \in Reqs,
         \A x \in Reqs \ {r} : req'[x] = req[x],
         UNCHANGED <<parcelas, eventos, cessando>>,
         Verifica(req[r]) => Verifica(req'[r]) \/ concessao' = "CESSADO",
         ~semCessar' => (concessao = "CESSADO" => concessao' = "CESSADO")
  PROVE  Segue(r)
<1>1. TodasConfirmadas' => TodasConfirmadas
  BY DEF TodasConfirmadas, Confirmada
<1> QED
  BY <1>1 DEF Segue

\* A request at one of these places has no check to make.
LEMMA SemVerificar ==
  ASSUME NEW q, q.pc \in {"livre", "gravar", "gravar_conc", "listar",
                          "proxima", "cancelar_ler", "gravar_comp",
                          "gravar_receb", "gravar_rem", "gravar_conf",
                          "commit"}
  PROVE  ~Verifica(q)
  BY DEF Verifica, SoConfere

\* Only updateStatus writes CONFIRMADO with "gravar", and activates after it.
LEMMA QuemConfirma ==
  ASSUME NEW q \in Requisicao, ReqCoerente(q), q.alvo = "CONFIRMADO",
         q.pc \in {"gravar", "ativar", "salvar_ativo"}
  PROVE  Verifica(Apos(q)) /\ Apos(q).pc = "conferir"
<1>1. q.op = "atualizarStatus"
  BY DEF ReqCoerente, EmLaco
<1>2. Apos(q) = [q EXCEPT !.pc = "conferir"] /\ "conferir" \in Pcs
  BY <1>1 DEF Apos, Pcs
<1>3. Apos(q).pc = "conferir"
  BY <1>2, SoMudaPc
<1> QED
  BY <1>3 DEF Verifica

LEMMA SegueGravar ==
  ASSUME TypeOK, NEW r \in Reqs, Gravar(r),
         \A x \in Reqs \ {r} : req'[x] = req[x]
  PROVE  Segue(r)
<1>1. /\ ReqOK /\ req[r] \in Requisicao /\ req[r].pc = "gravar"
      /\ ReqCoerente(req[r]) /\ req[r].p \in Parcelas
  BY Campos DEF TypeOK, ReqOK, Gravar, Em
<1>2. PICK c \in BOOLEAN :
             Grava(req[r].p, [status |-> req[r].alvo, comprovante |-> c])
  BY DEF Gravar
<1>3. ~Verifica(req[r])
  BY <1>1, SemVerificar
<1>4. ASSUME req[r].alvo = "CONFIRMADO" PROVE Verifica(req'[r])
  <2>1. CASE Ativa(req[r])
    <3>1. Passa(r, "ativar") /\ "ativar" \in Pcs
      BY <2>1 DEF Gravar, Pcs
    <3>2. req'[r].pc = "ativar" /\ req'[r].alvo = "CONFIRMADO"
      BY <1>1, <1>4, <3>1, DestinoPassa
    <3> QED
      BY <3>2 DEF Verifica
  <2>2. CASE ~Ativa(req[r])
    <3>1. req'[r] = Apos(req[r])
      BY <1>1, <2>2, Destinos DEF Gravar
    <3> QED
      BY <1>1, <1>4, <3>1, QuemConfirma
  <2> QED
    BY <2>1, <2>2
<1>5. UNCHANGED <<concessao, eventos, cessando>>
  BY DEF Gravar
<1>6. [status |-> req[r].alvo, comprovante |-> c].status = req[r].alvo
  OBVIOUS
<1> DEFINE linha == [status |-> req[r].alvo, comprovante |-> c]
<1>7. Grava(req[r].p, linha) /\ linha.status = req[r].alvo
  BY <1>2, <1>6
<1> HIDE DEF linha
<1> QED
  BY <1>1, <1>3, <1>4, <1>5, <1>7, SegueGravacao

\* The activation goes on to the verification if a confirmation began it.
LEMMA SegueAtivar ==
  ASSUME TypeOK, NEW r \in Reqs, LerAtivar(r) \/ SalvarAtivo(r),
         \A x \in Reqs \ {r} : req'[x] = req[x]
  PROVE  Segue(r)
<1>1. /\ ReqOK /\ req[r] \in Requisicao /\ ReqCoerente(req[r])
      /\ req[r].pc \in {"ativar", "salvar_ativo"}
  BY DEF TypeOK, ReqOK, LerAtivar, SalvarAtivo, Em
<1>2. ASSUME Verifica(req[r]) PROVE Verifica(req'[r])
  <2>1. req[r].alvo = "CONFIRMADO"
    BY <1>1, <1>2 DEF Verifica, SoConfere
  <2>2. CASE Passa(r, "salvar_ativo")
    <3>1. "salvar_ativo" \in Pcs
      BY DEF Pcs
    <3>2. req'[r].pc = "salvar_ativo" /\ req'[r].alvo = "CONFIRMADO"
      BY <1>1, <2>1, <2>2, <3>1, DestinoPassa
    <3> QED
      BY <3>2 DEF Verifica
  <2>3. CASE Prossegue(r)
    <3>1. req'[r] = Apos(req[r])
      BY <1>1, <2>3, Destinos
    <3> QED
      BY <1>1, <2>1, <3>1, QuemConfirma
  <2> QED
    BY <2>2, <2>3 DEF LerAtivar, SalvarAtivo
<1>3. CASE LerAtivar(r)
  <2>1. UNCHANGED <<concessao, parcelas, eventos, cessando>>
    BY <1>3 DEF LerAtivar, SoReq
  <2>2. eventos' \in Nat /\ eventos' >= eventos
    BY <2>1 DEF TypeOK
  <2> QED
    BY <1>2, <2>1, <2>2, SegueLeitura
<1>4. CASE SalvarAtivo(r)
  <2>1. UNCHANGED <<parcelas, eventos, cessando>>
    BY <1>4 DEF SalvarAtivo
  <2>2. concessao = "CESSADO" => semCessar'
    BY <1>4 DEF SalvarAtivo
  <2> QED
    BY <1>2, <2>1, <2>2, SegueConcessao
<1> QED
  BY <1>3, <1>4

\* verificarFinalizacaoConcessao, and what comes before the event.
LEMMA SegueConferir ==
  ASSUME TypeOK, NEW r \in Reqs, Conferir(r) \/ LerCessar(r) \/ SalvarCessado(r),
         \A x \in Reqs \ {r} : req'[x] = req[x]
  PROVE  Segue(r)
<1>1. PICK pc \in {"ler_cessar", "emitir", "salvar_cessado"} : Passa(r, pc)
  BY DEF Conferir, LerCessar, SalvarCessado
<1>2. ReqOK /\ pc \in Pcs
  BY DEF TypeOK, ReqOK, Pcs
<1>3. req'[r].pc = pc
  BY <1>1, <1>2, DestinoPassa
<1>4. Verifica(req'[r])
  BY <1>3 DEF Verifica
<1>5. CASE Conferir(r) \/ LerCessar(r)
  <2>1. UNCHANGED <<concessao, parcelas, eventos, cessando>>
    BY <1>5 DEF Conferir, LerCessar, SoReq
  <2>2. eventos' \in Nat /\ eventos' >= eventos
    BY <2>1 DEF TypeOK
  <2> QED
    BY <1>4, <2>1, <2>2, SegueLeitura
<1>6. CASE SalvarCessado(r)
  <2>1. UNCHANGED <<parcelas, eventos, cessando>> /\ concessao' = "CESSADO"
    BY <1>6 DEF SalvarCessado
  <2> QED
    BY <1>4, <2>1, SegueConcessao
<1> QED
  BY <1>5, <1>6

LEMMA SegueEmitir ==
  ASSUME TypeOK, NEW r \in Reqs, Emitir(r),
         \A x \in Reqs \ {r} : req'[x] = req[x]
  PROVE  Segue(r)
<1>1. eventos' + cessando' > 0 /\ UNCHANGED <<concessao, parcelas>>
  BY DEF Emitir, TypeOK
<1>2. TodasConfirmadas' => TodasConfirmadas
  BY <1>1 DEF TodasConfirmadas, Confirmada
<1> QED
  BY <1>1, <1>2 DEF Segue

\* A step that only reads, of a request that has no check to make.
LEMMA SegueSoReq ==
  ASSUME TypeOK, NEW r \in Reqs, SoReq,
         \A x \in Reqs \ {r} : req'[x] = req[x],
         req[r].pc \in {"livre", "listar", "proxima", "cancelar_ler"}
  PROVE  Segue(r)
<1>1. UNCHANGED <<concessao, parcelas, eventos, cessando>>
  BY DEF SoReq
<1>2. eventos' \in Nat /\ eventos' >= eventos
  BY <1>1 DEF TypeOK
<1>3. ~Verifica(req[r])
  BY SemVerificar
<1> QED
  BY <1>1, <1>2, <1>3, SegueLeitura

LEMMA SeguePagamento ==
  ASSUME TypeOK, NEW r \in Reqs, Pagamento(r),
         \A x \in Reqs \ {r} : req'[x] = req[x]
  PROVE  Segue(r)
<1>1. CASE IniciarStatus(r) \/ IniciarCancelamento(r) \/ IniciarLiberacao(r)
  <2>1. req[r].pc = "livre" /\ SoReq
    BY <1>1 DEF IniciarStatus, IniciarCancelamento, IniciarLiberacao, Chega, Em
  <2> QED
    BY <2>1, SegueSoReq
<1> QED
  BY <1>1, SegueGravar, SegueAtivar, SegueConferir, SegueEmitir DEF Pagamento

-----------------------------------------------------------------------------
(* The receipts and the confirmations of receipt                           *)

LEMMA SegueComprovante ==
  ASSUME TypeOK, NEW r \in Reqs, Comprovante(r),
         \A x \in Reqs \ {r} : req'[x] = req[x]
  PROVE  Segue(r)
<1>1. ReqOK /\ req[r] \in Requisicao /\ req[r].p \in Parcelas
  BY Campos DEF TypeOK, ReqOK
<1>2. CASE IniciarComprovante(r) \/ IniciarRemocao(r) \/ IniciarConfirmacao(r)
  <2>1. req[r].pc = "livre" /\ SoReq
    BY <1>2 DEF IniciarComprovante, IniciarRemocao, IniciarConfirmacao, Chega, Em
  <2> QED
    BY <2>1, SegueSoReq
<1>3. CASE GravarComprovante(r)
  <2> DEFINE linha == [status |-> req[r].alvo, comprovante |-> TRUE]
  <2>1. /\ Grava(req[r].p, linha) /\ linha.status = req[r].alvo
        /\ UNCHANGED <<concessao, eventos, cessando>>
    BY <1>3 DEF GravarComprovante
  <2>2. req[r].alvo = "CONFIRMADO" /\ ~Confirmada(req[r].p) => semCessar'
    BY <1>3 DEF GravarComprovante
  <2>3. ~Verifica(req[r])
    BY <1>3, SemVerificar DEF GravarComprovante, Em
  <2> HIDE DEF linha
  <2> QED
    BY <1>1, <2>1, <2>2, <2>3, SegueGravacao
<1>4. CASE GravarRecebido(r) \/ GravarRemocao(r)
  <2>1. PICK s \in {"RECEBIDO", "PAGO"}, c \in BOOLEAN :
               Grava(req[r].p, [status |-> s, comprovante |-> c])
    BY <1>4 DEF GravarRecebido, GravarRemocao
  <2> DEFINE linha == [status |-> s, comprovante |-> c]
  <2>2. Grava(req[r].p, linha) /\ linha.status # "CONFIRMADO"
    BY <2>1
  <2>3. ~Verifica(req[r])
    BY <1>4, SemVerificar DEF GravarRecebido, GravarRemocao, Em
  <2>4. UNCHANGED <<concessao, eventos, cessando>>
    BY <1>4 DEF GravarRecebido, GravarRemocao
  <2> HIDE DEF linha
  <2> QED
    BY <1>1, <2>2, <2>3, <2>4, SegueGravacao
<1>5. CASE GravarConfirmacao(r) \/ RegravarConfirmacao(r)
  <2> DEFINE linha == [parcelas[req[r].p] EXCEPT !.status = "CONFIRMADO"]
  <2>1. /\ Grava(req[r].p, linha)
        /\ UNCHANGED <<concessao, eventos, cessando>>
    BY <1>5 DEF GravarConfirmacao, RegravarConfirmacao, MudaStatus
  <2>2. {"regravar_conf", "conferir_todas"} \subseteq Pcs
    BY DEF Pcs
  <2>3. CASE \E pc \in {"regravar_conf", "conferir_todas"} : Passa(r, pc)
    <3>1. req'[r].pc \in {"regravar_conf", "conferir_todas"}
      BY <1>1, <2>2, <2>3, DestinoPassa
    <3>2. Verifica(req'[r])
      BY <3>1 DEF Verifica, SoConfere
    <3> HIDE DEF linha
    <3> QED
      BY <1>1, <2>1, <3>2, SegueGravacao
  <2>4. CASE GravarConfirmacao(r) /\ ~req[r].aceita
    <3>1. semCessar' = (semCessar \/ ~req[r].aceita)
      BY <2>4 DEF GravarConfirmacao
    <3>2. semCessar'
      BY <2>4, <3>1, Zenon
    <3>3. ~Verifica(req[r])
      BY <2>4, SemVerificar DEF GravarConfirmacao, Em
    <3> HIDE DEF linha
    <3> QED
      BY <1>1, <2>1, <3>2, <3>3, SegueGravacao
  <2> QED
    BY <1>5, <2>3, <2>4 DEF GravarConfirmacao, RegravarConfirmacao
<1>6. CASE ConferirTodas(r)
  <2>1. "cessar_todas" \in Pcs /\ UNCHANGED <<concessao, parcelas, eventos, cessando>>
    BY <1>6 DEF Pcs, ConferirTodas, SoReq
  <2>2. CASE TodasConfirmadas
    <3>1. req'[r].pc = "cessar_todas"
      BY <1>1, <1>6, <2>1, <2>2, DestinoPassa DEF ConferirTodas
    <3>2. Verifica(req'[r])
      BY <3>1 DEF Verifica, SoConfere
    <3>3. eventos' \in Nat /\ eventos' >= eventos
      BY <2>1 DEF TypeOK
    <3> QED
      BY <2>1, <3>2, <3>3, SegueLeitura
  <2>3. CASE ~TodasConfirmadas
    <3>1. ~TodasConfirmadas'
      BY <2>1, <2>3 DEF TodasConfirmadas, Confirmada
    <3> QED
      BY <2>1, <3>1 DEF Segue
  <2> QED
    BY <2>2, <2>3
<1>7. CASE CessarTodas(r)
  <2>1. UNCHANGED <<parcelas, eventos, cessando>> /\ concessao' = "CESSADO"
    BY <1>7 DEF CessarTodas
  <2> QED
    BY <2>1, SegueConcessao
<1> QED
  BY <1>2, <1>3, <1>4, <1>5, <1>6, <1>7 DEF Comprovante

-----------------------------------------------------------------------------
(* The requests on the concessao, the scheduler, the batches, the failures *)

LEMMA SegueRequisicoes ==
  ASSUME TypeOK, NEW r \in Reqs, Concessao(r),
         \A x \in Reqs \ {r} : req'[x] = req[x]
  PROVE  Segue(r)
<1>1. CASE GravarConcessao(r)
  <2>1. UNCHANGED <<parcelas, eventos, cessando>>
    BY <1>1 DEF GravarConcessao
  <2>2. ~Verifica(req[r])
    BY <1>1, SemVerificar DEF GravarConcessao, Em
  <2>3. ~semCessar' => (concessao = "CESSADO" => concessao' = "CESSADO")
    BY <1>1 DEF GravarConcessao
  <2> QED
    BY <2>1, <2>2, <2>3, SegueConcessao
<1>2. CASE \/ IniciarConcessao(r) \/ IniciarCessacao(r) \/ Listar(r)
           \/ Proxima(r) \/ LerCancelar(r)
  <2>1. SoReq /\ req[r].pc \in {"livre", "listar", "proxima", "cancelar_ler"}
    BY <1>2 DEF IniciarConcessao, IniciarCessacao, Listar, Proxima, LerCancelar,
       Chega, Em
  <2> QED
    BY <2>1, SegueSoReq
<1> QED
  BY <1>1, <1>2 DEF Concessao

LEMMA SegueErrar ==
  ASSUME TypeOK, NEW r \in Reqs, Errar(r),
         \A x \in Reqs \ {r} : req'[x] = req[x]
  PROVE  Segue(r)
<1>1. /\ ReqOK /\ req[r] \in Requisicao /\ ReqCoerente(req[r])
      /\ UNCHANGED <<concessao, parcelas, eventos, cessando>>
      /\ SoConfere(req[r]) => semCessar'
  BY DEF TypeOK, ReqOK, Errar
<1>2. eventos' \in Nat /\ eventos' >= eventos
  BY <1>1 DEF TypeOK
<1>3. CASE SoConfere(req[r])
  <2>1. semCessar' /\ (eventos + cessando > 0 => eventos' + cessando' > 0)
    BY <1>1, <1>3
  <2> QED
    BY <2>1 DEF Segue
<1>4. CASE ~SoConfere(req[r])
  <2> SUFFICES ASSUME Verifica(req[r]) PROVE Verifica(req'[r])
    BY <1>1, <1>2, SegueLeitura
  <2>1. CASE r \in Ativando /\ Prossegue(r)
    <3>1. req[r].pc \in {"ativar", "salvar_ativo"} /\ req'[r] = Apos(req[r])
      BY <1>1, <2>1, Destinos DEF Ativando
    <3>2. req[r].alvo = "CONFIRMADO"
      BY <1>4, <3>1 DEF Verifica
    <3> QED
      BY <1>1, <3>1, <3>2, QuemConfirma
  <2>2. CASE Passa(r, "emitir")
    <3>1. "emitir" \in Pcs
      BY DEF Pcs
    <3>2. req'[r].pc = "emitir"
      BY <1>1, <2>2, <3>1, DestinoPassa
    <3> QED
      BY <3>2 DEF Verifica
  <2>3. CASE NoLaco(r)
    BY <2>3, SemVerificar DEF NoLaco, Em
  <2>4. CASE /\ r \notin Ativando
             /\ req[r].pc \notin {"emitir", "conferir", "ler_cessar",
                                  "salvar_cessado"}
    BY <1>4, <2>4 DEF Verifica, Ativando
  <2> QED
    BY <2>1, <2>2, <2>3, <2>4 DEF Errar
<1> QED
  BY <1>3, <1>4

LEMMA SegueSistema ==
  ASSUME TypeOK, NEW r \in Reqs, Sistema(r),
         \A x \in Reqs \ {r} : req'[x] = req[x]
  PROVE  Segue(r)
<1>1. CASE IniciarVarredura(r)
  <2>1. SoReq /\ req[r].pc = "livre"
    BY <1>1 DEF IniciarVarredura, Chega, Em
  <2> QED
    BY <2>1, SegueSoReq
<1>2. CASE IniciarLote(r)
  <2>1. /\ req[r].pc = "livre"
        /\ UNCHANGED <<concessao, parcelas, cessando>>
    BY <1>2 DEF IniciarLote, Chega, Em
  <2>2. ~Verifica(req[r])
    BY <2>1, SemVerificar
  <2>3. eventos' \in Nat /\ eventos' >= eventos
    BY <1>2, EventosDoLote
  <2> QED
    BY <2>1, <2>2, <2>3, SegueLeitura
<1>3. CASE CommitLote(r)
  <2>1. UNCHANGED <<concessao, eventos, cessando>>
    BY <1>3 DEF CommitLote
  <2>2. ~Verifica(req[r])
    BY <1>3, SemVerificar DEF CommitLote, Em
  <2>3. ASSUME TodasConfirmadas', ~semCessar' PROVE TodasConfirmadas
    <3>1. req[r].alvo # "CONFIRMADO"
      BY <1>3, <2>3 DEF CommitLote
    <3>2. \A p \in Parcelas : parcelas'[p] =
            IF p \in req[r].fila THEN [parcelas[p] EXCEPT !.status = req[r].alvo]
                                 ELSE parcelas[p]
      BY <1>3 DEF CommitLote
    <3>3. \A p \in Parcelas : p \in req[r].fila =>
            parcelas'[p].status = req[r].alvo
      BY <3>2 DEF TypeOK, Parcela
    <3> QED
      BY <2>3, <3>1, <3>2, <3>3 DEF TodasConfirmadas, Confirmada
  <2> QED
    BY <2>1, <2>2, <2>3 DEF Segue
<1> QED
  BY <1>1, <1>2, <1>3, SegueErrar DEF Sistema

LEMMA EncerraOuvinte ==
  ASSUME TypeOK, EncerramentoInv,
         \/ OuvirConfirmado \/ CessarOuvinte \/ ErrarOuvinte \/ Parar
         \/ UNCHANGED vars
  PROVE  EncerramentoInv'
<1>1. UNCHANGED parcelas
  BY DEF OuvirConfirmado, CessarOuvinte, ErrarOuvinte, Parar, vars
<1>2. TodasConfirmadas' => TodasConfirmadas
  BY <1>1 DEF TodasConfirmadas, Confirmada
<1>3. CASE OuvirConfirmado
  <2>1. UNCHANGED <<concessao, req, semCessar>>
    BY <1>3 DEF OuvirConfirmado
  <2>2. TodasConfirmadas => cessando' = cessando + 1
    BY <1>3 DEF OuvirConfirmado
  <2>3. /\ eventos \in Nat /\ eventos > 0 /\ eventos' = eventos - 1
        /\ cessando \in Nat
    BY <1>3 DEF OuvirConfirmado, TypeOK
  <2>4. TodasConfirmadas => eventos' + cessando' > 0
    <3> SUFFICES ASSUME TodasConfirmadas PROVE eventos' + cessando' > 0
      OBVIOUS
    <3>1. cessando' \in Nat /\ cessando' > 0 /\ eventos' \in Nat
      BY <2>2, <2>3
    <3> QED
      BY <3>1, SomaPositiva
  <2> QED
    BY <1>2, <2>4 DEF EncerramentoInv, Verificando
<1>4. CASE CessarOuvinte
  BY <1>4 DEF CessarOuvinte, EncerramentoInv
<1>5. CASE ErrarOuvinte
  BY <1>5 DEF ErrarOuvinte, EncerramentoInv
<1>6. CASE Parar
  <2>1. UNCHANGED concessao /\ (~semCessar' => ~semCessar /\ ~Verificando)
    BY <1>6 DEF Parar
  <2> QED
    BY <1>2, <2>1 DEF EncerramentoInv
<1>7. CASE UNCHANGED vars
  BY <1>7 DEF vars, EncerramentoInv, Verificando, TodasConfirmadas, Confirmada
<1> QED
  BY <1>3, <1>4, <1>5, <1>6, <1>7

LEMMA EncerraPasso ==
  ASSUME TypeOK, ConfirmadasInv, EncerramentoInv, [Next]_vars
  PROVE  EncerramentoInv'
<1>1. semCessar => semCessar'
  BY SemCessarPasso DEF TypeOK
<1>2. ASSUME NEW r \in Reqs,
             Pagamento(r) \/ Comprovante(r) \/ Concessao(r) \/ Sistema(r)
      PROVE  EncerramentoInv'
  <2>1. PICK q \in Requisicao : Troca(r, q)
    BY <1>2, TrocaPagamento, TrocaComprovante, TrocaConcessao, TrocaSistema
  <2>2. \A x \in Reqs \ {r} : req'[x] = req[x]
    BY <2>1, Outras
  <2>3. Segue(r)
    BY <1>2, <2>2, SeguePagamento, SegueComprovante, SegueRequisicoes,
       SegueSistema
  <2> QED
    BY <1>1, <2>3, SegueInv
<1> QED
  BY <1>2, EncerraOuvinte DEF Next

\* The automatic cessation is not missed: whatever requests confirm the
\* installments, however many run at once and whatever fails or stops, a
\* settled concessao with every installment confirmed is CESSADO, unless the
\* observer noted a confirmation that no check followed, or that it was made to
\* leave that status.
THEOREM EncerramentoNaoSePerde == Spec => []EncerramentoCompleto
<1>1. Init => TypeOK /\ ConfirmadasInv /\ EncerramentoInv
  <2> SUFFICES ASSUME Init PROVE EncerramentoInv
    BY InitTudo
  <2>1. 1 \in Parcelas /\ parcelas[1].status = "PENDENTE"
    BY NParcelasAssumption DEF Init, Parcelas
  <2>2. ~TodasConfirmadas
    BY <2>1 DEF TodasConfirmadas, Confirmada
  <2> QED
    BY <2>2 DEF EncerramentoInv
<1>2. TypeOK /\ ConfirmadasInv /\ EncerramentoInv /\ [Next]_vars
        => (TypeOK /\ ConfirmadasInv /\ EncerramentoInv)'
  BY TypeOKPasso, ConfirmadasPasso, EncerraPasso
<1>3. EncerramentoInv => EncerramentoCompleto
  <2> SUFFICES ASSUME EncerramentoInv, Quieto, TodasConfirmadas, ~semCessar
               PROVE  concessao = "CESSADO"
    BY DEF EncerramentoCompleto
  <2>1. \A r \in Reqs : ~Verifica(req[r])
    BY SemVerificar DEF Quieto, Em
  <2>2. ~Verificando
    BY <2>1 DEF Quieto, Verificando
  <2> QED
    BY <2>2 DEF EncerramentoInv
<1> QED
  BY <1>1, <1>2, <1>3, PTL DEF Spec

=============================================================================
