--------------------- MODULE WorkflowSolicitacao_proofs ---------------------
(***************************************************************************)
(* Proofs about WorkflowSolicitacao.                                       *)
(***************************************************************************)
EXTENDS WorkflowSolicitacao, TLAPS

-----------------------------------------------------------------------------
(* What one step does to the request that takes it                         *)

ReqOK == req \in [Reqs -> Requisicao] /\ \A r \in Reqs : ReqCoerente(req[r])

\* The approval of request state q is committed, its concessao is not.
AprovadaQ(q) == /\ q.concede
                /\ q.pc \in {"prazo_ler", "prazo_gravar", "conc_ler",
                             "conc_criar"}

\* A step of r gives it the state q: a copy is taken from the row as it is, and
\* by a step that does not write it; an approval goes on to its transition only
\* from GravarParecer, and past it only by GravarTransicao; only LerConcessao,
\* finding none, leads to the creation of a concessao.
Troca(r, q) ==
  /\ q \in Requisicao
  /\ ReqCoerente(q)
  /\ req' = [req EXCEPT ![r] = q]
  /\ q.pc \in ComCopia => q.copia = sol /\ sol' = sol
  /\ q.concede /\ q.pc \in {"apr_ler", "rt_gravar"}
       => req[r].pc = "apr_ler" \/ GravarParecer(r)
  /\ AprovadaQ(q) => AprovadaQ(req[r]) \/ GravarTransicao(r)
  /\ q.pc = "conc_criar" => concessoes = 0 \/ q = req[r]

LEMMA Tipos ==
  /\ Ocioso \in Requisicao
  /\ ReqCoerente(Ocioso)
  /\ ~AprovadaQ(Ocioso)
  /\ Ocioso.copia = CopiaVazia
  /\ Ocioso.pc = "livre"
  /\ ~Ocioso.concede
  /\ CopiaVazia \in Linha
  /\ CopiaVazia.versao = 0
  BY SMT DEF Ocioso, Requisicao, ReqCoerente, CopiaVazia, Linha, Status, Pcs,
             AprovadaQ

LEMMA Campos ==
  ASSUME NEW q \in Requisicao
  PROVE  /\ q.pc \in Pcs
         /\ q.alvo \in Status
         /\ q.concede \in BOOLEAN
         /\ q.pend \in Pendencias \cup {Nada}
         /\ q.copia \in Linha
         /\ q.sanadas \in BOOLEAN
  BY DEF Requisicao

LEMMA TrocaOcioso ==
  ASSUME NEW r \in Reqs, Termina(r)
  PROVE  Troca(r, Ocioso)
  BY Tipos DEF Troca, ComCopia, Termina

\* A request that moves on and holds no copy.
LEMMA TrocaPassa ==
  ASSUME ReqOK, NEW r \in Reqs, NEW pc \in {"apr_ler", "kp_contar", "kp_ler"},
         Passa(r, pc), req[r].pc \notin ComCopia,
         pc = "apr_ler" => req[r].concede /\ GravarParecer(r)
  PROVE  \E q \in Requisicao : Troca(r, q)
<1> DEFINE q == [req[r] EXCEPT !.pc = pc]
<1>1. pc \in Pcs
  BY DEF Pcs
<1>2. q \in Requisicao
  BY <1>1 DEF ReqOK, Requisicao
<1>3. req' = [req EXCEPT ![r] = q]
  BY DEF Passa, ReqOK
<1>4. q.pc = pc /\ q.copia = req[r].copia /\ q.concede = req[r].concede
      /\ q.alvo = req[r].alvo
  BY DEF ReqOK, Requisicao
<1>5. req[r].copia = CopiaVazia /\ (req[r].concede => req[r].alvo = "APROVADA")
  BY DEF ReqOK, ReqCoerente
<1>6. ReqCoerente(q)
  BY <1>4, <1>5 DEF ReqCoerente
<1>7. ~AprovadaQ(q)
  BY <1>4 DEF AprovadaQ
<1> HIDE DEF q
<1> QED
  BY <1>2, <1>3, <1>4, <1>6, <1>7 DEF Troca, ComCopia

\* The end of the deadlines' update: the concessao is next, or nothing.
LEMMA TrocaEncerra ==
  ASSUME ReqOK, NEW r \in Reqs, Encerra(r),
         req[r].pc \in {"prazo_ler", "prazo_gravar"}
  PROVE  \E q \in Requisicao : Troca(r, q)
<1>1. CASE ~req[r].concede
  BY <1>1, TrocaOcioso, Tipos DEF Encerra
<1>2. CASE req[r].concede
  <2> DEFINE q == [req[r] EXCEPT !.pc = "conc_ler", !.copia = CopiaVazia]
  <2>1. "conc_ler" \in Pcs
    BY DEF Pcs
  <2>2. q \in Requisicao
    BY <2>1, Tipos DEF ReqOK, Requisicao
  <2>3. req' = [req EXCEPT ![r] = q]
    BY <1>2 DEF Encerra, ReqOK
  <2>4. /\ q.pc = "conc_ler" /\ q.copia = CopiaVazia
        /\ q.concede = req[r].concede /\ q.alvo = req[r].alvo
    BY DEF ReqOK, Requisicao
  <2>5. req[r].concede => req[r].alvo = "APROVADA"
    BY DEF ReqOK, ReqCoerente
  <2> HIDE DEF q
  <2>6. ReqCoerente(q)
    BY <1>2, <2>4, <2>5 DEF ReqCoerente
  <2>7. AprovadaQ(req[r])
    BY <1>2 DEF AprovadaQ
  <2>8. Troca(r, q)
    BY <2>2, <2>3, <2>4, <2>6, <2>7 DEF Troca, ComCopia
  <2> QED
    BY <2>2, <2>8
<1> QED
  BY <1>1, <1>2

\* A request that begins, or begins its deadlines, with no copy.
LEMMA TrocaInicio ==
  ASSUME ReqOK, NEW r \in Reqs, NEW alvo \in Status,
         NEW pc \in {"as_gravar", "dir_gravar", "rem_gravar", "prazo_ler"},
         req' = [req EXCEPT ![r] = [Ocioso EXCEPT !.pc = pc, !.alvo = alvo]]
  PROVE  \E q \in Requisicao : Troca(r, q)
<1> DEFINE q == [Ocioso EXCEPT !.pc = pc, !.alvo = alvo]
<1>1. pc \in Pcs
  BY DEF Pcs
<1>2. q \in Requisicao
  BY <1>1, Tipos DEF Requisicao
<1>3. q.pc = pc /\ q.copia = CopiaVazia /\ ~q.concede /\ q.alvo = alvo
  BY Tipos DEF Requisicao
<1>4. req' = [req EXCEPT ![r] = q]
  OBVIOUS
<1> HIDE DEF q
<1>5. ReqCoerente(q)
  BY <1>3 DEF ReqCoerente
<1>6. Troca(r, q)
  BY <1>2, <1>3, <1>4, <1>5 DEF Troca, ComCopia, AprovadaQ
<1> QED
  BY <1>2, <1>6

LEMMA TrocaFinalmente ==
  ASSUME ReqOK, NEW r \in Reqs, NEW alvo \in Status, Finalmente(r, alvo)
  PROVE  \E q \in Requisicao : Troca(r, q)
<1>1. CASE alvo \in ComPrazo
  BY <1>1, TrocaInicio DEF Finalmente
<1>2. CASE alvo \notin ComPrazo
  BY <1>2, TrocaOcioso, Tipos DEF Finalmente, Termina
<1> QED
  BY <1>1, <1>2

LEMMA TrocaIniciar ==
  ASSUME ReqOK, sol \in Linha, NEW r \in Reqs, Iniciar(r)
  PROVE  \E q \in Requisicao : Troca(r, q)
<1>1. CASE IniciarTransicao(r)
  <2>1. PICK alvo \in Status, avisa \in BOOLEAN :
          /\ isTransicaoValida(sol.status, alvo)
          /\ req' = [req EXCEPT ![r] =
                       [Ocioso EXCEPT !.pc = "rt_gravar", !.alvo = alvo,
                                      !.avisa = avisa, !.copia = sol]]
    BY <1>1 DEF IniciarTransicao
  <2> DEFINE q == [Ocioso EXCEPT !.pc = "rt_gravar", !.alvo = alvo,
                                 !.avisa = avisa, !.copia = sol]
  <2>2. "rt_gravar" \in Pcs /\ sol' = sol
    BY <1>1 DEF Pcs, IniciarTransicao
  <2>3. q \in Requisicao
    BY Tipos, <2>2 DEF Requisicao
  <2>4. q.pc = "rt_gravar" /\ q.copia = sol /\ ~q.concede /\ q.alvo = alvo
    BY Tipos DEF Requisicao
  <2>5. req' = [req EXCEPT ![r] = q]
    BY <2>1
  <2> HIDE DEF q
  <2>6. ReqCoerente(q)
    BY <2>1, <2>4 DEF ReqCoerente, ComCopia
  <2>7. Troca(r, q)
    BY <2>2, <2>3, <2>4, <2>5, <2>6 DEF Troca, ComCopia, AprovadaQ
  <2> QED
    BY <2>3, <2>7
<1>2. CASE IniciarAprovacao(r)
  <2> DEFINE q == [Ocioso EXCEPT !.pc = "apr_gravar", !.concede = TRUE,
                                 !.alvo = "APROVADA"]
  <2>1. "apr_gravar" \in Pcs /\ "APROVADA" \in Status
    BY DEF Pcs, Status
  <2>2. q \in Requisicao
    BY Tipos, <2>1 DEF Requisicao
  <2>3. q.pc = "apr_gravar" /\ q.copia = CopiaVazia /\ q.concede
        /\ q.alvo = "APROVADA"
    BY Tipos DEF Requisicao
  <2>4. req' = [req EXCEPT ![r] = q]
    BY <1>2 DEF IniciarAprovacao
  <2> HIDE DEF q
  <2>5. ReqCoerente(q)
    BY <2>3 DEF ReqCoerente
  <2>6. Troca(r, q)
    BY <2>2, <2>3, <2>4, <2>5 DEF Troca, ComCopia, AprovadaQ
  <2> QED
    BY <2>2, <2>6
<1>3. CASE IniciarAtualizarStatus(r)
  <2>1. PICK alvo \in Status :
          IF isTransicaoValida(sol.status, alvo)
          THEN req' = [req EXCEPT ![r] = [Ocioso EXCEPT !.pc = "as_gravar",
                                                        !.alvo = alvo]]
          ELSE Finalmente(r, alvo)
    BY <1>3 DEF IniciarAtualizarStatus
  <2> QED
    BY <2>1, TrocaInicio, TrocaFinalmente
<1>4. CASE IniciarDireto(r)
  <2>1. PICK op \in DOMAIN Diretos :
          req' = [req EXCEPT ![r] = [Ocioso EXCEPT !.pc = "dir_gravar",
                                       !.alvo = Diretos[op].para]]
    BY <1>4 DEF IniciarDireto
  <2>2. Diretos[op].para \in Status
    BY DEF Diretos, Status
  <2> QED
    BY <2>1, <2>2, TrocaInicio
<1>5. CASE Editar(r)
  <2>1. req' = [req EXCEPT ![r] = req[r]]
    BY <1>5 DEF Editar, ReqOK
  <2>2. req[r].pc = "livre"
    BY <1>5 DEF Editar, Chega
  <2>3. Troca(r, req[r])
    BY <2>1, <2>2 DEF Troca, ComCopia, ReqOK
  <2> QED
    BY <2>3 DEF ReqOK
<1>6. CASE IniciarRemocao(r)
  <2>1. Ocioso.alvo \in Status
    BY Tipos, Campos
  <2>2. [Ocioso EXCEPT !.pc = "rem_gravar"]
          = [Ocioso EXCEPT !.pc = "rem_gravar", !.alvo = Ocioso.alvo]
    BY Tipos DEF Requisicao
  <2> QED
    BY <1>6, <2>1, <2>2, TrocaInicio DEF IniciarRemocao
<1>7. CASE IniciarPendencia(r)
  <2>1. PICK p \in Pendencias :
          req' = [req EXCEPT ![r] = [Ocioso EXCEPT !.pc = "cp_gravar",
                                       !.pend = p, !.copia = sol]]
    BY <1>7 DEF IniciarPendencia
  <2> DEFINE q == [Ocioso EXCEPT !.pc = "cp_gravar", !.pend = p,
                                 !.copia = sol]
  <2>2. "cp_gravar" \in Pcs /\ sol' = sol
    BY <1>7 DEF Pcs, IniciarPendencia
  <2>3. q \in Requisicao
    BY Tipos, <2>2 DEF Requisicao
  <2>4. q.pc = "cp_gravar" /\ q.copia = sol /\ ~q.concede /\ q.pend = p
    BY Tipos DEF Requisicao
  <2>5. req' = [req EXCEPT ![r] = q]
    BY <2>1
  <2> HIDE DEF q
  <2>6. ReqCoerente(q)
    BY <2>4 DEF ReqCoerente, ComCopia
  <2>7. Troca(r, q)
    BY <2>2, <2>3, <2>4, <2>5, <2>6 DEF Troca, ComCopia, AprovadaQ
  <2> QED
    BY <2>3, <2>7
<1>8. CASE IniciarBaixa(r)
  <2>1. PICK pc \in {"rp_contar", "kp_gravar"}, p \in Abertas :
          req' = [req EXCEPT ![r] = [Ocioso EXCEPT !.pc = pc, !.pend = p]]
    BY <1>8 DEF IniciarBaixa
  <2> DEFINE q == [Ocioso EXCEPT !.pc = pc, !.pend = p]
  <2>2. pc \in Pcs /\ p \in Pendencias
    BY DEF Pcs, Abertas
  <2>3. q \in Requisicao
    BY Tipos, <2>2 DEF Requisicao
  <2>4. q.pc = pc /\ q.copia = CopiaVazia /\ ~q.concede /\ q.pend = p
    BY Tipos DEF Requisicao
  <2>5. req' = [req EXCEPT ![r] = q]
    BY <2>1
  <2> HIDE DEF q
  <2>6. ReqCoerente(q)
    BY <2>2, <2>4 DEF ReqCoerente
  <2>7. Troca(r, q)
    BY <2>3, <2>4, <2>5, <2>6 DEF Troca, ComCopia, AprovadaQ
  <2> QED
    BY <2>3, <2>7
<1>9. CASE OuvirCriacao(r)
  <2>1. "EM_ANALISE" \in Status
    BY DEF Status
  <2> QED
    BY <1>9, <2>1, TrocaFinalmente, TrocaOcioso, Tipos DEF OuvirCriacao
<1>10. CASE OuvirMudanca(r)
  <2>1. sol.status \in Status
    BY DEF Linha
  <2> QED
    BY <1>10, <2>1, TrocaFinalmente, TrocaOcioso, Tipos DEF OuvirMudanca
<1> QED
  BY <1>1, <1>2, <1>3, <1>4, <1>5, <1>6, <1>7, <1>8, <1>9, <1>10 DEF Iniciar

LEMMA TrocaContinuar ==
  ASSUME ReqOK, sol \in Linha, concessoes \in Nat, NEW r \in Reqs,
         Continuar(r)
  PROVE  \E q \in Requisicao : Troca(r, q)
<1> USE DEF Em
<1>0. req[r] \in Requisicao /\ ReqCoerente(req[r])
  BY DEF ReqOK
<1>1. CASE GravarParecer(r)
  <2>1. req[r].pc \notin ComCopia /\ req[r].concede
    BY <1>0, <1>1 DEF GravarParecer, ComCopia, ReqCoerente
  <2> QED
    BY <1>1, <2>1, TrocaPassa DEF GravarParecer
<1>2. CASE LerAprovacao(r)
  <2>1. CASE ~sol.removida /\ isTransicaoValida(sol.status, "APROVADA")
    <3> DEFINE q == [req[r] EXCEPT !.pc = "rt_gravar", !.copia = sol]
    <3>1. "rt_gravar" \in Pcs /\ sol' = sol
      BY <1>2 DEF Pcs, LerAprovacao
    <3>2. q \in Requisicao
      BY <1>0, <3>1 DEF Requisicao
    <3>3. req' = [req EXCEPT ![r] = q]
      BY <1>2, <2>1 DEF LerAprovacao, ReqOK
    <3>4. /\ q.pc = "rt_gravar" /\ q.copia = sol
          /\ q.concede = req[r].concede /\ q.alvo = req[r].alvo
      BY <1>0 DEF Requisicao
    <3>5. req[r].concede /\ req[r].alvo = "APROVADA"
      BY <1>0, <1>2 DEF LerAprovacao, ReqCoerente
    <3> HIDE DEF q
    <3>6. ReqCoerente(q)
      BY <2>1, <3>4, <3>5 DEF ReqCoerente, ComCopia
    <3>7. Troca(r, q)
      BY <1>2, <3>1, <3>2, <3>3, <3>4, <3>6
      DEF Troca, ComCopia, AprovadaQ, LerAprovacao
    <3> QED
      BY <3>2, <3>7
  <2>2. CASE ~(~sol.removida /\ isTransicaoValida(sol.status, "APROVADA"))
    BY <1>2, <2>2, TrocaOcioso, Tipos DEF LerAprovacao
  <2> QED
    BY <2>1, <2>2
<1>3. CASE GravarTransicao(r)
  <2>1. CASE req[r].alvo \in ComPrazo
    <3> DEFINE q == [req[r] EXCEPT !.pc = "prazo_ler", !.copia = CopiaVazia]
    <3>1. "prazo_ler" \in Pcs
      BY DEF Pcs
    <3>2. q \in Requisicao
      BY <1>0, <3>1, Tipos DEF Requisicao
    <3>3. req' = [req EXCEPT ![r] = q]
      BY <1>3, <2>1 DEF GravarTransicao, ReqOK
    <3>4. /\ q.pc = "prazo_ler" /\ q.copia = CopiaVazia
          /\ q.concede = req[r].concede /\ q.alvo = req[r].alvo
      BY <1>0 DEF Requisicao
    <3> HIDE DEF q
    <3>5. ReqCoerente(q)
      BY <1>0, <3>4 DEF ReqCoerente
    <3>6. Troca(r, q)
      BY <1>3, <3>2, <3>3, <3>4, <3>5 DEF Troca, ComCopia
    <3> QED
      BY <3>2, <3>6
  <2>2. CASE req[r].alvo \notin ComPrazo
    BY <1>3, <2>2, TrocaOcioso, Tipos DEF GravarTransicao
  <2> QED
    BY <2>1, <2>2
<1>4. CASE PerderTransicao(r) \/ CriarConcessao(r) \/ GravarDireto(r)
             \/ GravarRemocao(r) \/ GravarPendencia(r)
             \/ ConcluirResolucao(r) \/ ReabrirCancelamento(r)
  BY <1>4, TrocaOcioso, Tipos
  DEF PerderTransicao, CriarConcessao, GravarDireto, GravarRemocao,
      GravarPendencia, ConcluirResolucao, ReabrirCancelamento
<1>5. CASE LerPrazo(r)
  <2>1. CASE sol.removida
    BY <1>5, <2>1, TrocaEncerra DEF LerPrazo
  <2>2. CASE ~sol.removida
    <3> DEFINE q == [req[r] EXCEPT !.pc = "prazo_gravar", !.copia = sol]
    <3>1. "prazo_gravar" \in Pcs /\ sol' = sol
      BY <1>5 DEF Pcs, LerPrazo
    <3>2. q \in Requisicao
      BY <1>0, <3>1 DEF Requisicao
    <3>3. req' = [req EXCEPT ![r] = q]
      BY <1>5, <2>2 DEF LerPrazo, ReqOK
    <3>4. /\ q.pc = "prazo_gravar" /\ q.copia = sol
          /\ q.concede = req[r].concede /\ q.alvo = req[r].alvo
      BY <1>0 DEF Requisicao
    <3> HIDE DEF q
    <3>5. ReqCoerente(q)
      BY <1>0, <3>4 DEF ReqCoerente, ComCopia
    <3>6. AprovadaQ(q) => AprovadaQ(req[r])
      BY <1>5, <3>4 DEF AprovadaQ, LerPrazo
    <3>7. Troca(r, q)
      BY <3>1, <3>2, <3>3, <3>4, <3>5, <3>6 DEF Troca, ComCopia
    <3> QED
      BY <3>2, <3>7
  <2> QED
    BY <2>1, <2>2
<1>6. CASE GravarPrazo(r)
  BY <1>6, TrocaEncerra DEF GravarPrazo
<1>7. CASE LerConcessao(r)
  <2>1. CASE concessoes > 0
    BY <1>7, <2>1, TrocaOcioso, Tipos DEF LerConcessao
  <2>2. CASE ~(concessoes > 0)
    <3> DEFINE q == [req[r] EXCEPT !.pc = "conc_criar"]
    <3>1. "conc_criar" \in Pcs
      BY DEF Pcs
    <3>2. q \in Requisicao
      BY <1>0, <3>1 DEF Requisicao
    <3>3. req' = [req EXCEPT ![r] = q]
      BY <1>7, <2>2 DEF LerConcessao, Passa, ReqOK
    <3>4. /\ q.pc = "conc_criar" /\ q.copia = req[r].copia
          /\ q.concede = req[r].concede /\ q.alvo = req[r].alvo
      BY <1>0 DEF Requisicao
    <3> HIDE DEF q
    <3>5. req[r].pc = "conc_ler"
      BY <1>7 DEF LerConcessao
    <3>6. req[r].copia = CopiaVazia /\ req[r].concede
      BY <1>0, <3>5 DEF ReqCoerente, ComCopia
    <3>7. ReqCoerente(q)
      BY <1>0, <3>4, <3>6 DEF ReqCoerente
    <3>8. AprovadaQ(req[r])
      BY <3>5, <3>6 DEF AprovadaQ
    <3>9. concessoes = 0
      BY <2>2
    <3>10. Troca(r, q)
      BY <3>9, <3>2, <3>3, <3>4, <3>7, <3>8 DEF Troca, ComCopia
    <3> QED
      BY <3>2, <3>10
  <2> QED
    BY <2>1, <2>2
<1>8. CASE GravarStatus(r)
  BY <1>0, <1>8, TrocaFinalmente, Campos DEF GravarStatus
<1>9. CASE ContarResolucao(r)
  <2>1. PICK s \in BOOLEAN :
          req' = [req EXCEPT ![r].pc = "rp_commit", ![r].sanadas = s]
    BY <1>9 DEF ContarResolucao
  <2> DEFINE q == [req[r] EXCEPT !.pc = "rp_commit", !.sanadas = s]
  <2>2. "rp_commit" \in Pcs
    BY DEF Pcs
  <2>3. q \in Requisicao
    BY <1>0, <2>2 DEF Requisicao
  <2>4. req' = [req EXCEPT ![r] = q]
    BY <2>1 DEF ReqOK
  <2>5. /\ q.pc = "rp_commit" /\ q.copia = req[r].copia
        /\ q.concede = req[r].concede /\ q.alvo = req[r].alvo
        /\ q.pend = req[r].pend
    BY <1>0 DEF Requisicao
  <2> HIDE DEF q
  <2>6. req[r].pc = "rp_contar"
    BY <1>9 DEF ContarResolucao
  <2>7. ReqCoerente(q)
    BY <1>0, <2>5, <2>6 DEF ReqCoerente, ComCopia
  <2>8. Troca(r, q)
    BY <2>3, <2>4, <2>5, <2>7 DEF Troca, ComCopia, AprovadaQ
  <2> QED
    BY <2>3, <2>8
<1>10. CASE CancelarPendencia(r)
  BY <1>10, TrocaPassa DEF CancelarPendencia, ComCopia
<1>11. CASE ContarCancelamento(r)
  BY <1>11, TrocaPassa, TrocaOcioso, Tipos DEF ContarCancelamento, ComCopia
<1>12. CASE LerCancelamento(r)
  <2>1. CASE sol.removida
    BY <1>12, <2>1, TrocaOcioso, Tipos DEF LerCancelamento
  <2>2. CASE ~sol.removida
    <3> DEFINE q == [req[r] EXCEPT !.pc = "kp_gravar_sol", !.copia = sol]
    <3>1. "kp_gravar_sol" \in Pcs /\ sol' = sol
      BY <1>12 DEF Pcs, LerCancelamento
    <3>2. q \in Requisicao
      BY <1>0, <3>1 DEF Requisicao
    <3>3. req' = [req EXCEPT ![r] = q]
      BY <1>12, <2>2 DEF LerCancelamento, ReqOK
    <3>4. /\ q.pc = "kp_gravar_sol" /\ q.copia = sol
          /\ q.concede = req[r].concede /\ q.alvo = req[r].alvo
      BY <1>0 DEF Requisicao
    <3> HIDE DEF q
    <3>5. ReqCoerente(q)
      BY <1>0, <3>4 DEF ReqCoerente, ComCopia
    <3>6. Troca(r, q)
      BY <3>1, <3>2, <3>3, <3>4, <3>5 DEF Troca, ComCopia, AprovadaQ
    <3> QED
      BY <3>2, <3>6
  <2> QED
    BY <2>1, <2>2
<1> QED
  BY <1>1, <1>2, <1>3, <1>4, <1>5, <1>6, <1>7, <1>8, <1>9, <1>10, <1>11,
     <1>12 DEF Continuar

LEMMA TrocaErrar ==
  ASSUME ReqOK, NEW r \in Reqs, Errar(r)
  PROVE  \E q \in Requisicao : Troca(r, q)
<1>1. CASE FalharPrazo(r)
  BY <1>1, TrocaEncerra DEF FalharPrazo
<1>2. CASE ErroAtualizarStatus(r)
  BY <1>2, TrocaFinalmente, Campos DEF ErroAtualizarStatus, ReqOK
<1>3. CASE Falhar(r) \/ FalharConcessao(r)
  BY <1>3, TrocaOcioso, Tipos DEF Falhar, FalharConcessao
<1> QED
  BY <1>1, <1>2, <1>3 DEF Errar

-----------------------------------------------------------------------------
(* What one step of r does to the row                                      *)

\* The version goes up by one, or a stale copy of r takes it back.
NovaLinha(r) ==
  /\ sol' \in Linha
  /\ \/ sol' = sol
     \/ sol'.versao = sol.versao + 1
     \/ /\ sol'.versao = req[r].copia.versao
        /\ req[r].copia.versao # sol.versao
        /\ req[r].pc \in {"prazo_gravar", "cp_gravar", "kp_gravar_sol"}

LEMMA LinhaAtualiza ==
  ASSUME NEW linha \in Linha, sol \in Linha, linha.versao = sol.versao,
         NEW r, Atualiza(linha)
  PROVE  NovaLinha(r)
<1>1. linha.versao \in Nat
  BY DEF Linha
<1>2. sol' \in Linha
  BY <1>1, SMT DEF Atualiza, Linha
<1>3. sol'.versao = sol.versao + 1
  BY DEF Atualiza, Linha
<1> QED
  BY <1>2, <1>3 DEF NovaLinha

LEMMA LinhaSalva ==
  ASSUME sol \in Linha, NEW r \in Reqs, req[r].copia \in Linha,
         NEW nova \in Linha, nova.versao = req[r].copia.versao,
         NEW muda \in BOOLEAN, Salva(req[r].copia, nova, muda),
         req[r].pc \in {"prazo_gravar", "cp_gravar", "kp_gravar_sol"}
  PROVE  NovaLinha(r)
<1> DEFINE v == IF req[r].copia.versao = sol.versao
                THEN req[r].copia.versao + 1
                ELSE req[r].copia.versao
<1>1. sol' = sol \/ sol' = [nova EXCEPT !.versao = v]
  BY DEF Salva
<1>2. v \in Nat
  BY DEF Linha
<1>3. [nova EXCEPT !.versao = v] \in Linha
      /\ [nova EXCEPT !.versao = v].versao = v
  BY <1>2 DEF Linha
<1> QED
  BY <1>1, <1>2, <1>3 DEF NovaLinha

LEMMA LinhaPasso ==
  ASSUME ReqOK, sol \in Linha, NEW r \in Reqs,
         Iniciar(r) \/ Continuar(r) \/ Errar(r)
  PROVE  NovaLinha(r)
<1>0. req[r] \in Requisicao /\ req[r].copia \in Linha /\ req[r].alvo \in Status
  BY Campos DEF ReqOK
<1>1. CASE GravarParecer(r)
  <2>1. [sol EXCEPT !.aprovador = TRUE] \in Linha
        /\ [sol EXCEPT !.aprovador = TRUE].versao = sol.versao
    BY DEF Linha
  <2> QED
    BY <1>1, <2>1, LinhaAtualiza DEF GravarParecer
<1>2. CASE GravarTransicao(r) \/ GravarStatus(r) \/ GravarDireto(r)
  <2>1. [sol EXCEPT !.status = req[r].alvo] \in Linha
        /\ [sol EXCEPT !.status = req[r].alvo].versao = sol.versao
    BY <1>0 DEF Linha
  <2> QED
    BY <1>2, <2>1, LinhaAtualiza
    DEF GravarTransicao, GravarStatus, GravarDireto
<1>3. CASE Editar(r)
  BY <1>3, LinhaAtualiza DEF Editar
<1>4. CASE GravarRemocao(r)
  <2>1. [sol EXCEPT !.removida = TRUE] \in Linha
        /\ [sol EXCEPT !.removida = TRUE].versao = sol.versao
    BY DEF Linha
  <2> QED
    BY <1>4, <2>1, LinhaAtualiza DEF GravarRemocao
<1>5. CASE ConcluirResolucao(r)
  <2>1. "EM_ANALISE" \in Status
    BY DEF Status
  <2>2. [sol EXCEPT !.status = "EM_ANALISE"] \in Linha
        /\ [sol EXCEPT !.status = "EM_ANALISE"].versao = sol.versao
    BY <2>1 DEF Linha
  <2>3. sol' = sol \/ Atualiza([sol EXCEPT !.status = "EM_ANALISE"])
    BY <1>5 DEF ConcluirResolucao
  <2> QED
    BY <2>2, <2>3, LinhaAtualiza DEF NovaLinha
<1>6. CASE GravarPrazo(r)
  <2> DEFINE nova(b) == [req[r].copia EXCEPT !.prazo = b]
  <2>1. PICK b \in BOOLEAN : Salva(req[r].copia, nova(b), b)
    BY <1>6 DEF GravarPrazo
  <2>2. nova(b) \in Linha /\ nova(b).versao = req[r].copia.versao
    BY <1>0 DEF Linha
  <2>3. req[r].pc = "prazo_gravar"
    BY <1>6 DEF GravarPrazo, Em
  <2> HIDE DEF nova
  <2> QED
    BY <1>0, <2>1, <2>2, <2>3, LinhaSalva
<1>7. CASE GravarPendencia(r)
  <2>1. "PENDENTE" \in Status
    BY DEF Status
  <2> DEFINE nova == [req[r].copia EXCEPT !.status = "PENDENTE"]
  <2>2. nova \in Linha /\ nova.versao = req[r].copia.versao
    BY <1>0, <2>1 DEF Linha
  <2>3. sol' = sol \/ Salva(req[r].copia, nova, FALSE)
    BY <1>7 DEF GravarPendencia
  <2>4. req[r].pc = "cp_gravar"
    BY <1>7 DEF GravarPendencia, Em
  <2> HIDE DEF nova
  <2>5. CASE Salva(req[r].copia, nova, FALSE)
    BY <1>0, <2>2, <2>4, <2>5, LinhaSalva
  <2> QED
    BY <2>3, <2>5 DEF NovaLinha
<1>8. CASE ReabrirCancelamento(r)
  <2>1. "EM_ANALISE" \in Status
    BY DEF Status
  <2> DEFINE nova == [req[r].copia EXCEPT !.status = "EM_ANALISE"]
  <2>2. nova \in Linha /\ nova.versao = req[r].copia.versao
    BY <1>0, <2>1 DEF Linha
  <2>3. Salva(req[r].copia, nova, FALSE)
    BY <1>8 DEF ReabrirCancelamento
  <2>4. req[r].pc = "kp_gravar_sol"
    BY <1>8 DEF ReabrirCancelamento, Em
  <2> HIDE DEF nova
  <2> QED
    BY <1>0, <2>2, <2>3, <2>4, LinhaSalva
<1>9. ASSUME sol' = sol
      PROVE  NovaLinha(r)
  BY <1>9 DEF NovaLinha
<1>10. CASE Iniciar(r) /\ ~Editar(r)
  BY <1>9, <1>10
  DEF Iniciar, IniciarTransicao, IniciarAprovacao, IniciarAtualizarStatus,
      IniciarDireto, IniciarRemocao, IniciarPendencia, IniciarBaixa,
         OuvirCriacao, OuvirMudanca
<1>11. CASE Errar(r)
  BY <1>9, <1>11 DEF Errar, FalharPrazo, FalharConcessao, ErroAtualizarStatus,
          Falhar
<1>12. CASE LerAprovacao(r) \/ PerderTransicao(r) \/ LerPrazo(r)
              \/ LerConcessao(r) \/ CriarConcessao(r) \/ ContarResolucao(r)
              \/ CancelarPendencia(r) \/ ContarCancelamento(r)
              \/ LerCancelamento(r)
  BY <1>9, <1>12
  DEF LerAprovacao, PerderTransicao, LerPrazo, LerConcessao, CriarConcessao,
      ContarResolucao, CancelarPendencia, ContarCancelamento, LerCancelamento
<1> QED
  BY <1>1, <1>2, <1>3, <1>4, <1>5, <1>6, <1>7, <1>8, <1>10, <1>11, <1>12
  DEF Continuar

-----------------------------------------------------------------------------
(* What one step of r does to the pendencias and the concessoes            *)

LEMMA PendPasso ==
  ASSUME NEW r \in Reqs, Iniciar(r) \/ Continuar(r) \/ Errar(r)
  PROVE  \/ pend' = pend
         \/ \E s \in {"aberta", "encerrada"} :
              pend' = [pend EXCEPT ![req[r].pend] = s]
<1>1. CASE GravarPendencia(r)
  BY <1>1 DEF GravarPendencia
<1>2. CASE ConcluirResolucao(r)
  BY <1>2 DEF ConcluirResolucao
<1>3. CASE CancelarPendencia(r)
  BY <1>3 DEF CancelarPendencia
<1>4. CASE Iniciar(r)
  BY <1>4
  DEF Iniciar, IniciarTransicao, IniciarAprovacao, IniciarAtualizarStatus,
      IniciarDireto, Editar, IniciarRemocao, IniciarPendencia, IniciarBaixa,
         OuvirCriacao, OuvirMudanca
<1>5. CASE Errar(r)
  BY <1>5 DEF Errar, FalharPrazo, FalharConcessao, ErroAtualizarStatus,
          Falhar
<1>6. ASSUME Continuar(r), ~GravarPendencia(r), ~ConcluirResolucao(r),
             ~CancelarPendencia(r)
      PROVE  pend' = pend
  BY <1>6
  DEF Continuar, GravarParecer, LerAprovacao, GravarTransicao,
      PerderTransicao, LerPrazo, GravarPrazo, LerConcessao, CriarConcessao,
      GravarStatus, GravarDireto, GravarRemocao, ContarResolucao,
      ContarCancelamento, LerCancelamento, ReabrirCancelamento
<1> QED
  BY <1>1, <1>2, <1>3, <1>4, <1>5, <1>6

LEMMA EventosPasso ==
  ASSUME TypeOK, NEW r \in Reqs, Iniciar(r) \/ Continuar(r) \/ Errar(r)
  PROVE  eventos' \in Eventos
<1>1. /\ eventos \in Eventos /\ MaxEventos \in Nat
      /\ eventos.criada \in 0..1 /\ eventos.mudou \in 0..MaxEventos
  BY MaxEventosAssumption DEF TypeOK, Eventos
<1>2. CASE Emitir
  <2> DEFINE n == IF eventos.mudou < MaxEventos THEN eventos.mudou + 1
                                                ELSE eventos.mudou
  <2>1. n \in 0..MaxEventos
    BY <1>1
  <2>2. eventos' = [eventos EXCEPT !.mudou = n]
    BY <1>2 DEF Emitir
  <2> HIDE DEF n
  <2> QED
    BY <1>1, <2>1, <2>2 DEF Eventos
<1>3. CASE UNCHANGED eventos
  BY <1>1, <1>3
<1>4. ASSUME Encerra(r)
      PROVE  Emitir \/ UNCHANGED eventos
  BY <1>4 DEF Encerra
<1>5. CASE OuvirCriacao(r)
  <2>1. eventos.criada - 1 \in 0..1
        /\ eventos' = [eventos EXCEPT !.criada = eventos.criada - 1]
    BY <1>1, <1>5 DEF OuvirCriacao
  <2> QED
    BY <1>1, <2>1 DEF Eventos
<1>6. CASE OuvirMudanca(r)
  <2>1. eventos.mudou - 1 \in 0..MaxEventos
        /\ eventos' = [eventos EXCEPT !.mudou = eventos.mudou - 1]
    BY <1>1, <1>6 DEF OuvirMudanca
  <2> QED
    BY <1>1, <2>1 DEF Eventos
<1>7. ASSUME Iniciar(r), ~OuvirCriacao(r), ~OuvirMudanca(r)
      PROVE  UNCHANGED eventos
  BY <1>7
  DEF Iniciar, IniciarTransicao, IniciarAprovacao, IniciarAtualizarStatus,
      IniciarDireto, Editar, IniciarRemocao, IniciarPendencia, IniciarBaixa
<1>8. ASSUME Errar(r)
      PROVE  Emitir \/ UNCHANGED eventos
  BY <1>4, <1>8 DEF Errar, FalharPrazo, FalharConcessao, ErroAtualizarStatus,
                    Falhar
<1>9. ASSUME Continuar(r)
      PROVE  Emitir \/ UNCHANGED eventos
  BY <1>4, <1>9
  DEF Continuar, GravarParecer, LerAprovacao, GravarTransicao,
      PerderTransicao, LerPrazo, GravarPrazo, LerConcessao, CriarConcessao,
      GravarStatus, GravarDireto, GravarRemocao, GravarPendencia,
      ContarResolucao, ConcluirResolucao, CancelarPendencia,
      ContarCancelamento, LerCancelamento, ReabrirCancelamento
<1> QED
  BY <1>2, <1>3, <1>5, <1>6, <1>7, <1>8, <1>9

LEMMA ConcPasso ==
  ASSUME NEW r \in Reqs, Iniciar(r) \/ Continuar(r) \/ Errar(r)
  PROVE  concessoes' = concessoes \/ CriarConcessao(r)
<1>1. CASE Iniciar(r)
  BY <1>1
  DEF Iniciar, IniciarTransicao, IniciarAprovacao, IniciarAtualizarStatus,
      IniciarDireto, Editar, IniciarRemocao, IniciarPendencia, IniciarBaixa,
         OuvirCriacao, OuvirMudanca
<1>2. CASE Errar(r)
  BY <1>2 DEF Errar, FalharPrazo, FalharConcessao, ErroAtualizarStatus,
          Falhar
<1>3. ASSUME Continuar(r), ~CriarConcessao(r)
      PROVE  concessoes' = concessoes
  BY <1>3
  DEF Continuar, GravarParecer, LerAprovacao, GravarTransicao,
      PerderTransicao, LerPrazo, GravarPrazo, LerConcessao, GravarStatus,
      GravarDireto, GravarRemocao, GravarPendencia, ContarResolucao,
      ConcluirResolucao, CancelarPendencia, ContarCancelamento,
      LerCancelamento, ReabrirCancelamento
<1> QED
  BY <1>1, <1>2, <1>3

-----------------------------------------------------------------------------
(* The type invariant                                                      *)

LEMMA TypeInit == Init => TypeOK
<1> SUFFICES ASSUME Init
             PROVE  TypeOK
  OBVIOUS
<1>1. sol \in Linha
  BY InicioAssumption DEF Init
<1>2. pend \in [Pendencias -> {"inexistente", "aberta", "encerrada"}]
  BY DEF Init
<1>3. req \in [Reqs -> Requisicao] /\ \A r \in Reqs : ReqCoerente(req[r])
  BY Tipos DEF Init
<1>4. eventos \in Eventos
  <2>1. PICK n \in 0..1 : eventos = [criada |-> n, mudou |-> 0]
    BY DEF Init
  <2> QED
    BY <2>1, MaxEventosAssumption DEF Eventos
<1> QED
  BY <1>1, <1>2, <1>3, <1>4 DEF Init, TypeOK

LEMMA TypePasso ==
  ASSUME TypeOK, NEW r \in Reqs, Iniciar(r) \/ Continuar(r) \/ Errar(r),
         Observar
  PROVE  /\ TypeOK'
         /\ NovaLinha(r)
         /\ \E q \in Requisicao : Troca(r, q)
<1>1. ReqOK /\ sol \in Linha /\ concessoes \in Nat
  BY DEF TypeOK, ReqOK
<1>2. PICK q \in Requisicao : Troca(r, q)
  BY <1>1, TrocaIniciar, TrocaContinuar, TrocaErrar
<1>3. req' \in [Reqs -> Requisicao] /\ \A x \in Reqs : ReqCoerente(req'[x])
  BY <1>1, <1>2 DEF Troca, ComCopia, ReqOK
<1>4. NovaLinha(r)
  BY <1>1, LinhaPasso
<1>5. sol' \in Linha
  BY <1>4 DEF NovaLinha
<1>6. pend' \in [Pendencias -> {"inexistente", "aberta", "encerrada"}]
  BY PendPasso DEF TypeOK
<1>7. concessoes' \in Nat
  BY <1>1, ConcPasso DEF CriarConcessao
<1>8. /\ regrediu' \in BOOLEAN /\ deixouFinal' \in BOOLEAN
      /\ cruzadas' \in SUBSET Reqs
  BY DEF Observar
<1>9. TypeOK'
  BY <1>3, <1>5, <1>6, <1>7, <1>8, EventosPasso DEF TypeOK
<1> QED
  BY <1>2, <1>4, <1>9

LEMMA TipoPasso == TypeOK /\ [Next]_vars => TypeOK'
<1>1. ASSUME TypeOK, Next PROVE TypeOK'
  BY <1>1, TypePasso DEF Next
<1>2. ASSUME TypeOK, UNCHANGED vars PROVE TypeOK'
  BY <1>2 DEF vars, TypeOK
<1> QED
  BY <1>1, <1>2

\* Type correctness: every request, whatever its errors and interleavings,
\* leaves only values the columns and the code's variables can have, and
\* carries no copy beyond the write it was read for.
THEOREM TipoCorreto == Spec => []TypeOK
<1> QED
  BY TipoPasso, TypeInit, PTL DEF Spec

-----------------------------------------------------------------------------
(* The version column                                                      *)

VersaoInv ==
  /\ TypeOK
  /\ ~regrediu => sol.versao >= 1
  /\ VersaoIdentificaCopia

LEMMA VersaoInit == Init => VersaoInv
<1> SUFFICES ASSUME Init
             PROVE  VersaoInv
  OBVIOUS
<1>1. sol.versao \in Nat /\ sol.versao >= 1
  BY InicioAssumption, SMT DEF Init, Linha
<1>2. \A r \in Reqs : req[r].copia.versao = 0
  BY Tipos DEF Init
<1>3. \A r \in Reqs : ~(req[r].copia.versao = sol.versao)
  BY <1>1, <1>2
<1>4. \A r \in Reqs : req[r].copia.versao <= sol.versao
  BY <1>1, <1>2
<1> QED
  BY <1>1, <1>3, <1>4, TypeInit DEF VersaoInv, VersaoIdentificaCopia

LEMMA VersaoPasso ==
  ASSUME VersaoInv, Next
  PROVE  VersaoInv'
<1>1. PICK r \in Reqs : (Iniciar(r) \/ Continuar(r) \/ Errar(r)) /\ Observar
  BY DEF Next
<1>2. TypeOK' /\ NovaLinha(r)
  BY <1>1, TypePasso DEF VersaoInv
<1>3. PICK q \in Requisicao : Troca(r, q)
  BY <1>1, TypePasso DEF VersaoInv
<1>4. SUFFICES ASSUME ~regrediu'
               PROVE  /\ sol'.versao >= 1
                      /\ \A x \in Reqs :
                           /\ req'[x].copia.versao <= sol'.versao
                           /\ req'[x].copia.versao = sol'.versao
                                => req'[x].copia = sol'
  BY <1>2 DEF VersaoInv, VersaoIdentificaCopia
<1>5. ~regrediu /\ ~(sol'.versao < sol.versao)
  BY <1>1, <1>4 DEF Observar
<1>6. /\ sol.versao >= 1
      /\ \A x \in Reqs :
           /\ req[x].copia.versao <= sol.versao
           /\ req[x].copia.versao = sol.versao => req[x].copia = sol
  BY <1>5 DEF VersaoInv, VersaoIdentificaCopia
<1>7. /\ sol.versao \in Nat /\ sol'.versao \in Nat
      /\ \A x \in Reqs : req[x].copia.versao \in Nat
  BY <1>2, Campos DEF VersaoInv, TypeOK, Linha
<1>8. sol' = sol \/ sol'.versao = sol.versao + 1
  BY <1>2, <1>5, <1>6, <1>7 DEF NovaLinha
<1>9. sol'.versao >= 1
  BY <1>6, <1>7, <1>8
<1>10. ASSUME NEW x \in Reqs
       PROVE  /\ req'[x].copia.versao <= sol'.versao
              /\ req'[x].copia.versao = sol'.versao => req'[x].copia = sol'
  <2>1. \/ req'[x].copia = CopiaVazia
        \/ req'[x].copia = sol /\ sol' = sol
        \/ req'[x].copia = req[x].copia
    BY <1>3 DEF Troca, ReqCoerente, VersaoInv, TypeOK
  <2>2. CASE req'[x].copia = CopiaVazia
    BY <1>7, <1>9, <2>2, Tipos
  <2>3. CASE req'[x].copia = sol /\ sol' = sol
    BY <1>7, <2>3
  <2>4. CASE req'[x].copia = req[x].copia
    BY <1>6, <1>7, <1>8, <2>4
  <2> QED
    BY <2>1, <2>2, <2>3, <2>4
<1> QED
  BY <1>9, <1>10

LEMMA VersaoInvariante == Spec => []VersaoInv
<1>1. ASSUME VersaoInv, [Next]_vars
      PROVE  VersaoInv'
  <2>1. CASE Next
    BY <1>1, <2>1, VersaoPasso
  <2>2. CASE UNCHANGED vars
    BY <1>1, <2>2 DEF vars, VersaoInv, TypeOK, VersaoIdentificaCopia
  <2> QED
    BY <1>1, <2>1, <2>2
<1> QED
  BY <1>1, VersaoInit, PTL DEF Spec

\* As long as no stale save took the version column back, a copy with the
\* row's version is the row: what the WHERE version = :version of
\* realizarTransicao relies on, for any number of concurrent requests.
THEOREM VersaoIdentifica == Spec => []VersaoIdentificaCopia
<1>1. VersaoInv => VersaoIdentificaCopia
  BY DEF VersaoInv
<1> QED
  BY <1>1, VersaoInvariante, PTL

-----------------------------------------------------------------------------
(* The transitions                                                         *)

\* Only the request that takes the step changes.
LEMMA QuemPassou ==
  ASSUME TypeOK, Next, NEW r \in Reqs, req'[r] # req[r]
  PROVE  (Iniciar(r) \/ Continuar(r) \/ Errar(r)) /\ Observar
<1>1. PICK x \in Reqs : (Iniciar(x) \/ Continuar(x) \/ Errar(x)) /\ Observar
  BY DEF Next
<1>2. PICK q \in Requisicao : Troca(x, q)
  BY <1>1, TypePasso
<1>3. x = r
  BY <1>2 DEF Troca, TypeOK
<1> QED
  BY <1>1, <1>3

\* Of the steps a request can take from rt_gravar, one changes the row.
LEMMA SoTransicao ==
  ASSUME NEW r \in Reqs, Iniciar(r) \/ Continuar(r) \/ Errar(r),
         Em(r, "rt_gravar"), sol' # sol
  PROVE  GravarTransicao(r)
<1> USE DEF Em, Chega
<1>1. ~Iniciar(r)
  BY DEF Iniciar, IniciarTransicao, IniciarAprovacao, IniciarAtualizarStatus,
         IniciarDireto, Editar, IniciarRemocao, IniciarPendencia, IniciarBaixa,
         OuvirCriacao, OuvirMudanca
<1>2. ~Errar(r)
  BY DEF Errar, FalharPrazo, FalharConcessao, ErroAtualizarStatus,
          Falhar
<1> QED
  BY <1>1, <1>2
  DEF Continuar, GravarParecer, LerAprovacao, PerderTransicao, LerPrazo,
      GravarPrazo, LerConcessao, CriarConcessao, GravarStatus, GravarDireto,
      GravarRemocao, GravarPendencia, ContarResolucao, ConcluirResolucao,
      CancelarPendencia, ContarCancelamento, LerCancelamento,
      ReabrirCancelamento

LEMMA Finaliza ==
  ASSUME NEW de \in Status, NEW para \in Status, isTransicaoValida(de, para)
  PROVE  de \notin Finais /\ (para = "APROVADA" => de = "EM_ANALISE")
  BY DEF isTransicaoValida, TRANSICOES_PERMITIDAS, Finais, Status

\* What the commit of a transition does, when the version never went back.
LEMMA Transicao ==
  ASSUME VersaoInv, ~regrediu, NEW r \in Reqs, GravarTransicao(r)
  PROVE  /\ isTransicaoValida(sol.status, sol'.status)
         /\ sol.status \notin Finais
         /\ sol'.status = req[r].alvo
         /\ sol'.status = "APROVADA" => sol.status = "EM_ANALISE"
<1>1. req[r].copia = sol
  BY DEF VersaoInv, VersaoIdentificaCopia, GravarTransicao
<1>2. isTransicaoValida(req[r].copia.status, req[r].alvo)
  BY DEF VersaoInv, TypeOK, ReqCoerente, GravarTransicao, Em
<1>3. sol \in Linha /\ sol.status \in Status /\ req[r].alvo \in Status
  BY Campos DEF VersaoInv, TypeOK, Linha
<1>4. sol'.status = req[r].alvo
  BY <1>3 DEF GravarTransicao, Atualiza, Linha
<1> QED
  BY <1>1, <1>2, <1>3, <1>4, Finaliza

\* However many requests interleave, a transition that realizarTransicao
\* commits is one of the table from the status the row has at the commit, and
\* leaves no final status, unless the version column had gone back.
THEOREM TransicaoEhVersionada == Spec => TransicaoVersionada
<1>1. ASSUME VersaoInv, [Next]_vars, NEW r \in Reqs, Em(r, "rt_gravar"),
             req'[r] # req[r], sol' # sol, ~regrediu
      PROVE  isTransicaoValida(sol.status, sol'.status)
             /\ sol.status \notin Finais
  <2>1. Next
    BY <1>1 DEF vars
  <2>2. GravarTransicao(r)
    BY <1>1, <2>1, QuemPassou, SoTransicao DEF VersaoInv
  <2> QED
    BY <1>1, <2>2, Transicao
<1>2. VersaoInv /\ [Next]_vars =>
        [\A r \in Reqs :
           Em(r, "rt_gravar") /\ req'[r] # req[r] /\ sol' # sol /\ ~regrediu
             => /\ isTransicaoValida(sol.status, sol'.status)
                /\ sol.status \notin Finais]_vars
  BY <1>1
<1> QED
  BY <1>2, VersaoInvariante, PTL DEF Spec, TransicaoVersionada

-----------------------------------------------------------------------------
(* One approval, one concessao                                             *)

ConcessaoInv == VersaoInv /\ ConcessaoCoerente

LEMMA ConcessaoInit == Init => ConcessaoInv
<1> SUFFICES ASSUME Init
             PROVE  ConcessaoInv
  OBVIOUS
<1>1. Aprovadas = {}
  BY Tipos DEF Init, Aprovadas
<1>2. concessoes = 0
  BY DEF Init
<1>3. VersaoInv
  BY VersaoInit
<1> QED
  BY <1>1, <1>2, <1>3 DEF ConcessaoInv, ConcessaoCoerente

LEMMA AprovadasDe == Aprovadas = {r \in Reqs : AprovadaQ(req[r])}
  BY DEF Aprovadas, AprovadaQ

LEMMA ConcessaoPasso ==
  ASSUME ConcessaoInv, Next
  PROVE  ConcessaoInv'
<1>1. PICK r \in Reqs : (Iniciar(r) \/ Continuar(r) \/ Errar(r)) /\ Observar
  BY DEF Next
<1>2. PICK q \in Requisicao : Troca(r, q)
  BY <1>1, TypePasso DEF ConcessaoInv, VersaoInv
<1>3. VersaoInv'
  BY VersaoPasso DEF ConcessaoInv
<1>4. SUFFICES ASSUME ~regrediu', ~deixouFinal'
               PROVE  ConcessaoCoerente'
  BY <1>3 DEF ConcessaoInv, ConcessaoCoerente
<1>5. /\ ~regrediu /\ ~deixouFinal
      /\ sol.status \in Finais => sol'.status = sol.status
  BY <1>1, <1>4 DEF Observar
<1>6. /\ concessoes <= 1
      /\ concessoes = 1 => sol.status = "APROVADA"
      /\ Aprovadas # {} => sol.status = "APROVADA"
      /\ \A x \in Aprovadas : req[x].pc = "conc_criar" => concessoes = 0
      /\ \A x, y \in Aprovadas : x = y
  BY <1>5 DEF ConcessaoInv, ConcessaoCoerente
<1>7. sol.status = "APROVADA" => sol'.status = "APROVADA"
  BY <1>5 DEF Finais
<1>8. /\ concessoes \in Nat
      /\ \A x \in Reqs : req'[x] = IF x = r THEN q ELSE req[x]
  BY <1>2 DEF ConcessaoInv, VersaoInv, TypeOK, Troca
<1>9. /\ Aprovadas = {x \in Reqs : AprovadaQ(req[x])}
      /\ Aprovadas' = {x \in Reqs : AprovadaQ(req'[x])}
  BY AprovadasDe DEF Aprovadas, AprovadaQ
<1>10. CASE GravarTransicao(r) /\ AprovadaQ(q)
  <2>1. q.alvo = "APROVADA" /\ q.alvo = req[r].alvo
    <3>1. q.concede /\ q.pc # "livre"
      BY <1>10 DEF AprovadaQ
    <3>2. q = IF req[r].alvo \in ComPrazo
              THEN [req[r] EXCEPT !.pc = "prazo_ler", !.copia = CopiaVazia]
              ELSE Ocioso
      BY <1>2, <1>10
      DEF GravarTransicao, Termina, Troca, ConcessaoInv, VersaoInv, TypeOK
    <3>3. q.alvo = req[r].alvo
      BY <3>1, <3>2, Tipos DEF ConcessaoInv, VersaoInv, TypeOK, Requisicao
    <3> QED
      BY <1>2, <3>1, <3>3 DEF Troca, ReqCoerente
  <2>2. sol.status = "EM_ANALISE" /\ sol'.status = "APROVADA"
    BY <1>5, <1>10, <2>1, Transicao DEF ConcessaoInv
  <2>3. Aprovadas = {} /\ concessoes = 0
    BY <1>6, <1>8, <2>2
  <2>4. concessoes' = concessoes
    BY <1>10 DEF GravarTransicao
  <2>5. \A x \in Aprovadas' : x = r
    BY <1>8, <1>9, <2>3
  <2> QED
    BY <2>2, <2>3, <2>4, <2>5 DEF ConcessaoCoerente
<1>11. CASE ~(GravarTransicao(r) /\ AprovadaQ(q))
  <2>1. Aprovadas' \subseteq Aprovadas
    BY <1>2, <1>8, <1>9, <1>11 DEF Troca, ComCopia
  <2>2. CASE CriarConcessao(r)
    <3>1. req[r].pc = "conc_criar" /\ AprovadaQ(req[r])
      BY <2>2 DEF CriarConcessao, Em, AprovadaQ, ReqCoerente, ConcessaoInv,
                  VersaoInv, TypeOK
    <3>2. concessoes = 0 /\ sol.status = "APROVADA" /\ r \in Aprovadas
      BY <1>6, <1>9, <3>1
    <3>3. q = Ocioso
      BY <1>2, <2>2
      DEF CriarConcessao, Termina, Troca, ConcessaoInv, VersaoInv, TypeOK
    <3>4. Aprovadas' = {}
      BY <1>6, <1>8, <1>9, <2>1, <3>2, <3>3, Tipos
    <3>5. concessoes' = 1
      BY <2>2, <3>2 DEF CriarConcessao
    <3> QED
      BY <1>7, <3>2, <3>4, <3>5 DEF ConcessaoCoerente
  <2>3. CASE concessoes' = concessoes
    <3>1. ASSUME NEW x \in Aprovadas', req'[x].pc = "conc_criar"
          PROVE  concessoes' = 0
      BY <1>2, <1>6, <1>8, <1>9, <2>1, <2>3, <3>1 DEF Troca, ComCopia
    <3> QED
      BY <1>6, <1>7, <2>1, <2>3, <3>1 DEF ConcessaoCoerente
  <2> QED
    BY <1>1, <2>2, <2>3, ConcPasso
<1> QED
  BY <1>10, <1>11

\* One approval, one concessao: a second concessao, or one of a solicitacao
\* that is not approved, needs a version that went back or a final status that
\* was left, whatever the number of concurrent approvals, crashes and errors.
THEOREM UmaConcessao == Spec => []ConcessaoCoerente
<1>1. ASSUME ConcessaoInv, [Next]_vars
      PROVE  ConcessaoInv'
  <2>1. CASE Next
    BY <1>1, <2>1, ConcessaoPasso
  <2>2. CASE UNCHANGED vars
    BY <1>1, <2>2
    DEF vars, ConcessaoInv, VersaoInv, TypeOK, VersaoIdentificaCopia,
        ConcessaoCoerente, Aprovadas
  <2> QED
    BY <1>1, <2>1, <2>2
<1>2. ConcessaoInv => ConcessaoCoerente
  BY DEF ConcessaoInv
<1> QED
  BY <1>1, <1>2, ConcessaoInit, PTL DEF Spec

-----------------------------------------------------------------------------
(* The saves of whole entities                                             *)

\* A save that does not take the version back was made on the current row.
LEMMA SalvaFiel ==
  ASSUME VersaoInv, ~regrediu, NEW r \in Reqs, NEW nova, NEW muda,
         Salva(req[r].copia, nova, muda), ~(sol'.versao < sol.versao),
         nova \in Linha
  PROVE  \/ sol' = sol
         \/ /\ req[r].copia = sol
            /\ sol' = [nova EXCEPT !.versao = sol.versao + 1]
<1>1. /\ req[r].copia.versao <= sol.versao
      /\ req[r].copia.versao = sol.versao => req[r].copia = sol
      /\ req[r].copia.versao \in Nat /\ sol.versao \in Nat
  BY Campos DEF VersaoInv, VersaoIdentificaCopia, TypeOK, Linha
<1>2. CASE req[r].copia.versao = sol.versao
  BY <1>1, <1>2 DEF Salva
<1>3. CASE req[r].copia.versao # sol.versao
  <2>1. SUFFICES ASSUME sol' # sol
                 PROVE  FALSE
    OBVIOUS
  <2>2. sol' = [nova EXCEPT !.versao = req[r].copia.versao]
    BY <1>3, <2>1 DEF Salva
  <2>3. sol'.versao = req[r].copia.versao
    BY <2>2 DEF Linha
  <2> QED
    BY <1>1, <1>3, <2>3
<1> QED
  BY <1>2, <1>3

\* The steps a request can take from the three saves, and what they change.
LEMMA SoSalva ==
  ASSUME VersaoInv, ~regrediu, NEW r \in Reqs, ~(sol'.versao < sol.versao),
         Iniciar(r) \/ Continuar(r) \/ Errar(r)
  PROVE  /\ Em(r, "prazo_gravar") =>
              sol' = [sol EXCEPT !.prazo = sol'.prazo,
                                 !.versao = sol'.versao]
         /\ req[r].pc \in {"cp_gravar", "kp_gravar_sol"} =>
              sol' = [sol EXCEPT !.status = sol'.status,
                                 !.versao = sol'.versao]
<1>0. sol \in Linha /\ req[r].copia \in Linha
  BY Campos DEF VersaoInv, TypeOK
<1>1. /\ sol = [sol EXCEPT !.prazo = sol.prazo, !.versao = sol.versao]
      /\ sol = [sol EXCEPT !.status = sol.status, !.versao = sol.versao]
  BY <1>0 DEF Linha
<1>2. CASE GravarPrazo(r)
  <2>1. PICK b \in BOOLEAN :
          Salva(req[r].copia, [req[r].copia EXCEPT !.prazo = b], b)
    BY <1>2 DEF GravarPrazo
  <2>2. [req[r].copia EXCEPT !.prazo = b] \in Linha
    BY <1>0 DEF Linha
  <2>3. \/ sol' = sol
        \/ sol' = [[sol EXCEPT !.prazo = b] EXCEPT !.versao = sol.versao + 1]
    BY <2>1, <2>2, SalvaFiel
  <2>4. sol' = [sol EXCEPT !.prazo = sol'.prazo, !.versao = sol'.versao]
    <3>1. ASSUME sol' = [[sol EXCEPT !.prazo = b]
                           EXCEPT !.versao = sol.versao + 1]
          PROVE  sol'.prazo = b /\ sol'.versao = sol.versao + 1
      BY <1>0, <3>1 DEF Linha
    <3> QED
      BY <1>1, <2>3, <3>1
  <2> QED
    BY <1>2, <2>4 DEF GravarPrazo, Em
<1>3. CASE GravarPendencia(r) \/ ReabrirCancelamento(r)
  <2>1. PICK s \in Status :
          \/ sol' = sol
          \/ Salva(req[r].copia, [req[r].copia EXCEPT !.status = s], FALSE)
    BY <1>3 DEF GravarPendencia, ReabrirCancelamento, Status
  <2>2. [req[r].copia EXCEPT !.status = s] \in Linha
    BY <1>0 DEF Linha
  <2>3. \/ sol' = sol
        \/ sol' = [[sol EXCEPT !.status = s] EXCEPT !.versao = sol.versao + 1]
    BY <2>1, <2>2, SalvaFiel
  <2>4. sol' = [sol EXCEPT !.status = sol'.status, !.versao = sol'.versao]
    <3>1. ASSUME sol' = [[sol EXCEPT !.status = s]
                           EXCEPT !.versao = sol.versao + 1]
          PROVE  sol'.status = s /\ sol'.versao = sol.versao + 1
      BY <1>0, <3>1 DEF Linha
    <3> QED
      BY <1>1, <2>3, <3>1
  <2>5. ~Em(r, "prazo_gravar")
    BY <1>3 DEF GravarPendencia, ReabrirCancelamento, Em
  <2> QED
    BY <2>4, <2>5
<1>4. CASE sol' = sol
  BY <1>1, <1>4
<1>5. ASSUME req[r].pc \in {"prazo_gravar", "cp_gravar", "kp_gravar_sol"},
             ~GravarPrazo(r), ~GravarPendencia(r), ~ReabrirCancelamento(r)
      PROVE  sol' = sol
  <2> USE DEF Em, Chega
  <2>1. ~Iniciar(r)
    BY <1>5
    DEF Iniciar, IniciarTransicao, IniciarAprovacao, IniciarAtualizarStatus,
        IniciarDireto, Editar, IniciarRemocao, IniciarPendencia, IniciarBaixa,
         OuvirCriacao, OuvirMudanca
  <2>2. CASE Errar(r)
    BY <2>2 DEF Errar, FalharPrazo, FalharConcessao, ErroAtualizarStatus,
          Falhar
  <2>3. ~Continuar(r)
    BY <1>5
    DEF Continuar, GravarParecer, LerAprovacao, GravarTransicao,
        PerderTransicao, LerPrazo, LerConcessao, CriarConcessao, GravarStatus,
        GravarDireto, GravarRemocao, ContarResolucao, ConcluirResolucao,
        CancelarPendencia, ContarCancelamento, LerCancelamento
  <2> QED
    BY <2>1, <2>2, <2>3
<1> QED
  BY <1>2, <1>3, <1>4, <1>5 DEF Em

\* The saves of whole entities lose a concurrent change only when they also
\* take the version column back: without that, they change only the columns
\* they are for.
THEOREM PerdaExigeRegressao == Spec => PerdaSoComRegressao
<1>1. ASSUME VersaoInv, [Next]_vars, NEW r \in Reqs, req'[r] # req[r],
             ~regrediu'
      PROVE  /\ Em(r, "prazo_gravar") =>
                  sol' = [sol EXCEPT !.prazo = sol'.prazo,
                                     !.versao = sol'.versao]
             /\ req[r].pc \in {"cp_gravar", "kp_gravar_sol"} =>
                  sol' = [sol EXCEPT !.status = sol'.status,
                                     !.versao = sol'.versao]
  <2>1. Next
    BY <1>1 DEF vars
  <2>2. (Iniciar(r) \/ Continuar(r) \/ Errar(r)) /\ Observar
    BY <1>1, <2>1, QuemPassou DEF VersaoInv
  <2>3. ~regrediu /\ ~(sol'.versao < sol.versao)
    BY <1>1, <2>2 DEF Observar
  <2> QED
    BY <1>1, <2>2, <2>3, SoSalva
<1>2. VersaoInv /\ [Next]_vars =>
        [\A r \in Reqs :
           req'[r] # req[r] /\ ~regrediu' =>
             /\ Em(r, "prazo_gravar") =>
                  sol' = [sol EXCEPT !.prazo = sol'.prazo,
                                     !.versao = sol'.versao]
             /\ req[r].pc \in {"cp_gravar", "kp_gravar_sol"} =>
                  sol' = [sol EXCEPT !.status = sol'.status,
                                     !.versao = sol'.versao]]_vars
  BY <1>1
<1> QED
  BY <1>2, VersaoInvariante, PTL DEF Spec, PerdaSoComRegressao

-----------------------------------------------------------------------------
(* The approver                                                            *)

\* Once the opinion is written, the row keeps its approver.
ParecerInv ==
  /\ VersaoInv
  /\ ~regrediu =>
       \A r \in Reqs : req[r].concede /\ req[r].pc \in {"apr_ler", "rt_gravar"}
                         => sol.aprovador

LEMMA AprovadorFica ==
  ASSUME VersaoInv, ~regrediu, NEW r \in Reqs, ~(sol'.versao < sol.versao),
         Iniciar(r) \/ Continuar(r) \/ Errar(r)
  PROVE  /\ sol.aprovador => sol'.aprovador
         /\ GravarParecer(r) => sol'.aprovador
<1>0. sol \in Linha
  BY DEF VersaoInv, TypeOK
<1>1. CASE req[r].pc \in {"prazo_gravar", "cp_gravar", "kp_gravar_sol"}
  <2>1. \/ sol' = [sol EXCEPT !.prazo = sol'.prazo, !.versao = sol'.versao]
        \/ sol' = [sol EXCEPT !.status = sol'.status, !.versao = sol'.versao]
    BY <1>1, SoSalva DEF Em
  <2>2. sol'.aprovador = sol.aprovador
    BY <1>0, <2>1 DEF Linha
  <2> QED
    BY <1>1, <2>2 DEF GravarParecer, Em
<1>2. CASE GravarParecer(r)
  <2>1. sol'.aprovador = TRUE
    BY <1>0, <1>2 DEF GravarParecer, Atualiza, Linha
  <2> QED
    BY <2>1
<1>3. ASSUME Atualiza(sol) \/ (\E s \in Status : Atualiza([sol EXCEPT !.status = s]))
             \/ Atualiza([sol EXCEPT !.removida = TRUE])
      PROVE  sol'.aprovador = sol.aprovador
  BY <1>0, <1>3 DEF Atualiza, Linha
<1>4. ASSUME ~GravarParecer(r),
             req[r].pc \notin {"prazo_gravar", "cp_gravar", "kp_gravar_sol"}
      PROVE  sol'.aprovador = sol.aprovador
  <2>1. req[r].alvo \in Status /\ "EM_ANALISE" \in Status
    BY Campos DEF VersaoInv, TypeOK, Status
  <2>2. CASE sol' = sol
    BY <2>2
  <2>3. CASE Editar(r)
    BY <1>3, <2>3 DEF Editar
  <2>4. CASE GravarTransicao(r) \/ GravarStatus(r) \/ GravarDireto(r)
    BY <1>3, <2>1, <2>4 DEF GravarTransicao, GravarStatus, GravarDireto
  <2>5. CASE GravarRemocao(r)
    BY <1>3, <2>5 DEF GravarRemocao
  <2>6. CASE ConcluirResolucao(r)
    BY <1>3, <2>1, <2>2, <2>6 DEF ConcluirResolucao
  <2>7. CASE Iniciar(r) /\ ~Editar(r)
    BY <2>2, <2>7
    DEF Iniciar, IniciarTransicao, IniciarAprovacao, IniciarAtualizarStatus,
        IniciarDireto, IniciarRemocao, IniciarPendencia, IniciarBaixa,
         OuvirCriacao, OuvirMudanca
  <2>8. CASE Errar(r)
    BY <2>2, <2>8 DEF Errar, FalharPrazo, FalharConcessao, ErroAtualizarStatus,
          Falhar
  <2>9. ASSUME Continuar(r), ~GravarTransicao(r), ~GravarStatus(r),
               ~GravarDireto(r), ~GravarRemocao(r), ~ConcluirResolucao(r)
        PROVE  sol' = sol
    BY <1>4, <2>9
    DEF Continuar, LerAprovacao, PerderTransicao, LerPrazo, GravarPrazo,
        LerConcessao, CriarConcessao, GravarPendencia, ContarResolucao,
        CancelarPendencia, ContarCancelamento, LerCancelamento,
        ReabrirCancelamento, Em
  <2> QED
    BY <2>2, <2>3, <2>4, <2>5, <2>6, <2>7, <2>8, <2>9
<1> QED
  BY <1>1, <1>2, <1>4

LEMMA ParecerPasso ==
  ASSUME ParecerInv, Next
  PROVE  ParecerInv'
<1>1. PICK r \in Reqs : (Iniciar(r) \/ Continuar(r) \/ Errar(r)) /\ Observar
  BY DEF Next
<1>2. PICK q \in Requisicao : Troca(r, q)
  BY <1>1, TypePasso DEF ParecerInv, VersaoInv
<1>3. VersaoInv'
  BY VersaoPasso DEF ParecerInv
<1>4. SUFFICES ASSUME ~regrediu', NEW x \in Reqs, req'[x].concede,
                      req'[x].pc \in {"apr_ler", "rt_gravar"}
               PROVE  sol'.aprovador
  BY <1>3 DEF ParecerInv
<1>5. ~regrediu /\ ~(sol'.versao < sol.versao)
  BY <1>1, <1>4 DEF Observar
<1>6. /\ sol.aprovador => sol'.aprovador
      /\ GravarParecer(r) => sol'.aprovador
  BY <1>1, <1>5, AprovadorFica DEF ParecerInv
<1>7. CASE x # r
  <2>1. req'[x] = req[x]
    BY <1>2, <1>7 DEF Troca, ParecerInv, VersaoInv, TypeOK
  <2> QED
    BY <1>4, <1>5, <1>6, <2>1 DEF ParecerInv
<1>8. CASE x = r
  <2>1. req'[x] = q
    BY <1>2, <1>8 DEF Troca, ParecerInv, VersaoInv, TypeOK
  <2>2. req[r].pc = "apr_ler" \/ GravarParecer(r)
    BY <1>2, <1>4, <2>1 DEF Troca
  <2>3. CASE req[r].pc = "apr_ler"
    <3>1. req[r].concede
      BY <2>3 DEF ParecerInv, VersaoInv, TypeOK, ReqCoerente
    <3> QED
      BY <1>5, <1>6, <2>3, <3>1 DEF ParecerInv
  <2> QED
    BY <1>6, <2>2, <2>3
<1> QED
  BY <1>7, <1>8

\* aprovarSolicitacao commits an approval only of a row that has an approver,
\* although two updates write them and other requests run in between, unless
\* the version column had gone back.
THEOREM AprovacaoTemParecer == Spec => AprovacaoComParecer
<1>1. Init => ParecerInv
  <2> SUFFICES ASSUME Init
               PROVE  ParecerInv
    OBVIOUS
  <2>1. \A r \in Reqs : ~req[r].concede
    BY Tipos DEF Init
  <2> QED
    BY <2>1, VersaoInit DEF ParecerInv
<1>2. ASSUME ParecerInv, [Next]_vars
      PROVE  ParecerInv'
  <2>1. CASE Next
    BY <1>2, <2>1, ParecerPasso
  <2>2. CASE UNCHANGED vars
    BY <1>2, <2>2
    DEF vars, ParecerInv, VersaoInv, TypeOK, VersaoIdentificaCopia
  <2> QED
    BY <1>2, <2>1, <2>2
<1>3. ASSUME ParecerInv, [Next]_vars, NEW r \in Reqs, Em(r, "rt_gravar"),
             req[r].concede, req'[r] # req[r], sol' # sol, ~regrediu
      PROVE  sol'.status = "APROVADA" /\ sol'.aprovador
  <2>1. Next
    BY <1>3 DEF vars
  <2>2. GravarTransicao(r)
    BY <1>3, <2>1, QuemPassou, SoTransicao DEF ParecerInv, VersaoInv
  <2>3. sol'.status = req[r].alvo /\ req[r].alvo = "APROVADA"
    BY <1>3, <2>2, Transicao
    DEF ParecerInv, VersaoInv, TypeOK, ReqCoerente
  <2>4. sol.aprovador
    BY <1>3 DEF ParecerInv, Em
  <2>5. sol'.aprovador = sol.aprovador
    BY <2>2
    DEF GravarTransicao, Atualiza, Linha, ParecerInv, VersaoInv, TypeOK
  <2> QED
    BY <2>3, <2>4, <2>5
<1>4. ParecerInv /\ [Next]_vars =>
        [\A r \in Reqs :
           (/\ Em(r, "rt_gravar") /\ req[r].concede /\ req'[r] # req[r]
            /\ sol' # sol /\ ~regrediu)
             => sol'.status = "APROVADA" /\ sol'.aprovador]_vars
  BY <1>3
<1> QED
  BY <1>1, <1>2, <1>4, PTL DEF Spec, AprovacaoComParecer

-----------------------------------------------------------------------------
(* The resolution of the last pendencia                                    *)

\* What a resolution counted is still so when it commits, unless a pendencia
\* it counted was closed since: new ones may have been opened.
ResolucaoInv ==
    \A r \in Reqs \ cruzadas :
      Em(r, "rp_commit") =>
        req[r].sanadas \/ Abertas \ {req[r].pend} # {}

\* Where Termina, Passa, Finalmente and Encerra take the request.
LEMMA Destino ==
  ASSUME ReqOK, NEW r \in Reqs
  PROVE  /\ Termina(r) => req'[r].pc = "livre"
         /\ \A pc : Passa(r, pc) => req'[r].pc = pc
         /\ \A alvo : Finalmente(r, alvo) => req'[r].pc \in {"livre", "prazo_ler"}
         /\ Encerra(r) => req'[r].pc \in {"livre", "conc_ler"}
<1>1. Termina(r) => req'[r].pc = "livre"
  BY Tipos DEF Termina, ReqOK
<1>2. \A pc : Passa(r, pc) => req'[r].pc = pc
  BY DEF Passa, ReqOK, Requisicao
<1>3. \A alvo : [Ocioso EXCEPT !.pc = "prazo_ler", !.alvo = alvo].pc = "prazo_ler"
  BY DEF Ocioso
<1>4. \A alvo : Finalmente(r, alvo) => req'[r].pc \in {"livre", "prazo_ler"}
  BY <1>3, Tipos DEF Finalmente, ReqOK
<1>5. Encerra(r) => req'[r].pc \in {"livre", "conc_ler"}
  BY <1>1 DEF Encerra, ReqOK, Requisicao
<1> QED
  BY <1>1, <1>2, <1>4, <1>5

\* No request begins at the commit of a resolution.
LEMMA IniciarNaoConta ==
  ASSUME ReqOK, NEW r \in Reqs, Iniciar(r)
  PROVE  req'[r].pc # "rp_commit"
<1>1. CASE IniciarTransicao(r)
  BY <1>1 DEF IniciarTransicao, Ocioso, ReqOK
<1>2. CASE IniciarAprovacao(r)
  BY <1>2 DEF IniciarAprovacao, Ocioso, ReqOK
<1>3. CASE IniciarAtualizarStatus(r)
  <2>1. PICK alvo : \/ req' = [req EXCEPT ![r] = [Ocioso EXCEPT !.pc = "as_gravar",
                                                               !.alvo = alvo]]
                    \/ Finalmente(r, alvo)
    BY <1>3 DEF IniciarAtualizarStatus
  <2>2. CASE Finalmente(r, alvo)
    BY <2>2, Destino
  <2>3. CASE req' = [req EXCEPT ![r] = [Ocioso EXCEPT !.pc = "as_gravar",
                                                      !.alvo = alvo]]
    BY <2>3 DEF Ocioso, ReqOK
  <2> QED
    BY <2>1, <2>2, <2>3
<1>4. CASE IniciarDireto(r)
  BY <1>4 DEF IniciarDireto, Ocioso, ReqOK
<1>5. CASE Editar(r)
  BY <1>5 DEF Editar, Chega
<1>6. CASE IniciarRemocao(r)
  BY <1>6 DEF IniciarRemocao, Ocioso, ReqOK
<1>7. CASE IniciarPendencia(r)
  BY <1>7 DEF IniciarPendencia, Ocioso, ReqOK
<1>8. CASE IniciarBaixa(r)
  <2>1. PICK pc \in {"rp_contar", "kp_gravar"}, p \in Abertas :
          req' = [req EXCEPT ![r] = [Ocioso EXCEPT !.pc = pc, !.pend = p]]
    BY <1>8 DEF IniciarBaixa
  <2> QED
    BY <2>1 DEF Ocioso, ReqOK
<1>9. CASE OuvirCriacao(r) \/ OuvirMudanca(r)
  BY <1>9, Destino DEF OuvirCriacao, OuvirMudanca
<1> QED
  BY <1>1, <1>2, <1>3, <1>4, <1>5, <1>6, <1>7, <1>8, <1>9 DEF Iniciar

\* Only the count takes a request there.
LEMMA SoConta ==
  ASSUME ReqOK, NEW r \in Reqs, Iniciar(r) \/ Continuar(r) \/ Errar(r),
         req'[r].pc = "rp_commit"
  PROVE  ContarResolucao(r)
<1>1. CASE Iniciar(r)
  BY <1>1, IniciarNaoConta
<1>2. CASE \/ GravarParecer(r) \/ PerderTransicao(r) \/ FalharPrazo(r)
           \/ LerConcessao(r) \/ CriarConcessao(r) \/ FalharConcessao(r)
           \/ GravarStatus(r) \/ GravarDireto(r) \/ ErroAtualizarStatus(r)
           \/ GravarRemocao(r) \/ GravarPendencia(r) \/ ReabrirCancelamento(r)
           \/ ConcluirResolucao(r) \/ CancelarPendencia(r)
           \/ ContarCancelamento(r) \/ Falhar(r) \/ GravarPrazo(r)
  BY <1>2, Destino
  DEF GravarParecer, PerderTransicao, FalharPrazo, LerConcessao, CriarConcessao,
      FalharConcessao, GravarStatus, GravarDireto, ErroAtualizarStatus,
      GravarRemocao, GravarPendencia, ReabrirCancelamento, ConcluirResolucao,
      CancelarPendencia, ContarCancelamento, Falhar, GravarPrazo
<1>3. CASE LerAprovacao(r) \/ GravarTransicao(r) \/ LerPrazo(r)
  BY <1>3, Destino
  DEF LerAprovacao, GravarTransicao, LerPrazo, ReqOK, Requisicao
<1>4. CASE LerCancelamento(r)
  BY <1>4, Destino DEF LerCancelamento, ReqOK, Requisicao
<1> QED
  BY <1>1, <1>2, <1>3, <1>4 DEF Continuar, Errar

LEMMA ResolucaoPasso ==
  ASSUME TypeOK, ResolucaoInv, [Next]_vars
  PROVE  ResolucaoInv'
<1>1. CASE UNCHANGED vars
  BY <1>1 DEF vars, ResolucaoInv, Em, Abertas
<1>2. CASE Next
  <2>1. PICK r \in Reqs : (Iniciar(r) \/ Continuar(r) \/ Errar(r)) /\ Observar
    BY <1>2 DEF Next
  <2>2. ReqOK /\ \A x \in Reqs : x # r => req'[x] = req[x]
    BY <2>1, TypePasso DEF TypeOK, ReqOK, Troca
  <2>3. SUFFICES ASSUME NEW x \in Reqs \ cruzadas', req'[x].pc = "rp_commit"
                 PROVE  req'[x].sanadas \/ Abertas' \ {req'[x].pend} # {}
    BY DEF ResolucaoInv, Em
  <2>4. CASE x = r
    <3>1. ContarResolucao(r)
      BY <2>1, <2>2, <2>3, <2>4, SoConta
    <3>2. /\ req'[r].pend = req[r].pend
          /\ req'[r].sanadas = (Abertas \subseteq {req[r].pend})
      BY <2>2, <3>1 DEF ContarResolucao, ReqOK, Requisicao
    <3>3. Abertas' = Abertas
      BY <3>1 DEF ContarResolucao, Abertas
    <3> QED
      BY <2>4, <3>2, <3>3
  <2>5. CASE x # r
    <3>1. /\ req'[x] = req[x] /\ Em(x, "rp_commit")
          /\ x \notin cruzadas /\ ~Cruza(x)
      BY <2>1, <2>2, <2>3, <2>5 DEF Observar, Em
    <3>2. req[x].sanadas \/ Abertas \ {req[x].pend} # {}
      BY <3>1 DEF ResolucaoInv
    <3>3. \A p \in Abertas \ {req[x].pend} : p \in Abertas'
      BY <3>1 DEF Cruza, Abertas
    <3> QED
      BY <3>1, <3>2, <3>3
  <2> QED
    BY <2>4, <2>5
<1> QED
  BY <1>1, <1>2

LEMMA AtualizaFica ==
  ASSUME NEW linha \in Linha, Atualiza(linha)
  PROVE  sol'.removida = linha.removida /\ sol'.status = linha.status
  BY DEF Atualiza, Linha

\* The step that leaves rp_commit with the pendencia resolved is the commit.
LEMMA ReabreAoResolver ==
  ASSUME TypeOK, ResolucaoInv, NEW r \in Reqs \ cruzadas,
         Iniciar(r) \/ Continuar(r) \/ Errar(r), Em(r, "rp_commit"),
         pend' # pend, \A p \in Pendencias : pend'[p] # "aberta"
  PROVE  sol'.removida \/ sol'.status # "PENDENTE"
<1> USE DEF Em, Chega
<1>0. sol \in Linha /\ req[r] \in Requisicao /\ pend \in [Pendencias ->
        {"inexistente", "aberta", "encerrada"}]
  BY DEF TypeOK
<1>1. ConcluirResolucao(r)
  <2>1. ~Iniciar(r)
    BY DEF Iniciar, IniciarTransicao, IniciarAprovacao, IniciarAtualizarStatus,
        IniciarDireto, Editar, IniciarRemocao, IniciarPendencia, IniciarBaixa,
        OuvirCriacao, OuvirMudanca
  <2>2. ~Errar(r)
    BY DEF Errar, FalharPrazo, FalharConcessao, ErroAtualizarStatus, Falhar
  <2> QED
    BY <2>1, <2>2
    DEF Continuar, GravarParecer, LerAprovacao, GravarTransicao,
        PerderTransicao, LerPrazo, GravarPrazo, LerConcessao, CriarConcessao,
        GravarStatus, GravarDireto, GravarRemocao, GravarPendencia,
        ContarResolucao, CancelarPendencia, ContarCancelamento,
        LerCancelamento, ReabrirCancelamento
<1>2. Abertas \subseteq {req[r].pend}
  BY <1>0, <1>1 DEF ConcluirResolucao, Abertas
<1>3. req[r].sanadas
  BY <1>2 DEF ResolucaoInv
<1>4. CASE sol.removida
  BY <1>1, <1>4 DEF ConcluirResolucao
<1>5. CASE ~sol.removida /\ sol.status = "PENDENTE"
  <2>1. [sol EXCEPT !.status = "EM_ANALISE"] \in Linha
    BY <1>0 DEF Linha, Status
  <2>2. Atualiza([sol EXCEPT !.status = "EM_ANALISE"])
    BY <1>1, <1>3, <1>5 DEF ConcluirResolucao
  <2>3. [sol EXCEPT !.status = "EM_ANALISE"].status = "EM_ANALISE"
    BY <1>0 DEF Linha
  <2> QED
    BY <2>1, <2>2, <2>3, AtualizaFica
<1>6. CASE sol.status # "PENDENTE"
  BY <1>1, <1>6 DEF ConcluirResolucao
<1> QED
  BY <1>4, <1>5, <1>6

\* A resolution that leaves no pendencia open takes the solicitacao out of
\* PENDENTE, for any number of requests and of pendencias, whatever fails, is
\* opened or is removed meanwhile: only a pendencia closed by another request
\* between its count and its commit can leave the solicitacao waiting.
THEOREM ResolucaoReabre == Spec => UltimaResolucaoReabre
<1> DEFINE Inv == TypeOK /\ ResolucaoInv
           Reabre == \A r \in Reqs \ cruzadas :
             (/\ Em(r, "rp_commit") /\ req'[r] # req[r]
              /\ pend' # pend /\ \A p \in Pendencias : pend'[p] # "aberta")
               => sol'.removida \/ sol'.status # "PENDENTE"
<1>1. Init => Inv
  <2>1. Init => \A r \in Reqs : req[r].pc = "livre"
    BY Tipos DEF Init
  <2> QED
    BY <2>1, TypeInit DEF ResolucaoInv, Em
<1>2. Inv /\ [Next]_vars => Inv'
  BY TipoPasso, ResolucaoPasso
<1>3. Inv /\ [Next]_vars => [Reabre]_vars
  <2> SUFFICES ASSUME Inv, Next PROVE Reabre
    OBVIOUS
  <2>1. PICK q \in Reqs : (Iniciar(q) \/ Continuar(q) \/ Errar(q)) /\ Observar
    BY DEF Next
  <2>2. PICK w \in Requisicao : Troca(q, w)
    BY <2>1, TypePasso
  <2>3. \A x \in Reqs : x # q => req'[x] = req[x]
    BY <2>2 DEF Troca, TypeOK
  <2> QED
    BY <2>1, <2>3, ReabreAoResolver
<1> QED
  BY <1>1, <1>2, <1>3, PTL DEF Spec, UltimaResolucaoReabre

=============================================================================
