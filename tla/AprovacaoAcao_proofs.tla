------------------------ MODULE AprovacaoAcao_proofs ------------------------
(***************************************************************************)
(* Proofs about AprovacaoAcao.                                             *)
(***************************************************************************)
EXTENDS AprovacaoAcao, FiniteSetTheorems, TLAPS

-----------------------------------------------------------------------------
(* Type correctness                                                        *)

LEMMA LivreTipo ==
  /\ Livre \in Requisicao
  /\ ReqCoerente(Livre)
  /\ Livre.pc = "livre"
  /\ Livre.executa = FALSE
  /\ Livre.s = Nada
  BY DEF Livre, Requisicao, ReqCoerente, Pcs, StatusSolicitacao

\* A step of r gives it a coherent state q.
Troca(r, q) ==
    /\ q \in Requisicao
    /\ ReqCoerente(q)
    /\ req' = [req EXCEPT ![r] = q]

ReqOK == req \in [Reqs -> Requisicao] /\ \A r \in Reqs : ReqCoerente(req[r])

LEMMA TrocaLivre ==
  ASSUME NEW r \in Reqs, Termina(r)
  PROVE  Troca(r, Livre)
  BY LivreTipo DEF Troca, Termina

LEMMA TrocaReq ==
  ASSUME ReqOK, NEW r \in Reqs, NEW q, Troca(r, q)
  PROVE  ReqOK'
  BY DEF ReqOK, Troca

\* A request that begins.
LEMMA TrocaCriar ==
  ASSUME NEW r \in Reqs, NEW u \in Usuarios,
         Comeca(r, [Livre EXCEPT !.pc = "inserir", !.u = u])
  PROVE  Troca(r, [Livre EXCEPT !.pc = "inserir", !.u = u])
  BY DEF Livre, Troca, Comeca, Requisicao, ReqCoerente, Pcs, StatusSolicitacao

LEMMA TrocaVoto ==
  ASSUME NEW r \in Reqs, NEW u \in Usuarios, NEW s \in Sols, NEW v \in BOOLEAN,
         Comeca(r, [Livre EXCEPT !.pc = "ler_aprovador", !.u = u, !.s = s,
                                 !.sim = v])
  PROVE  Troca(r, [Livre EXCEPT !.pc = "ler_aprovador", !.u = u, !.s = s,
                                !.sim = v])
  BY DEF Livre, Troca, Comeca, Requisicao, ReqCoerente, Pcs, StatusSolicitacao

LEMMA TrocaCancelar ==
  ASSUME NEW r \in Reqs, NEW u \in Usuarios, NEW s \in Sols,
         Comeca(r, [Livre EXCEPT !.pc = "cancelar", !.u = u, !.s = s])
  PROVE  Troca(r, [Livre EXCEPT !.pc = "cancelar", !.u = u, !.s = s])
  BY DEF Livre, Troca, Comeca, Requisicao, ReqCoerente, Pcs, StatusSolicitacao

LEMMA TrocaRepetir ==
  ASSUME NEW r \in Reqs, NEW u \in Usuarios, NEW s \in Sols,
         Comeca(r, [Livre EXCEPT !.pc = "direta", !.u = u, !.s = s])
  PROVE  Troca(r, [Livre EXCEPT !.pc = "direta", !.u = u, !.s = s])
  BY DEF Livre, Troca, Comeca, Requisicao, ReqCoerente, Pcs, StatusSolicitacao

\* A request that only moves on.
LEMMA TrocaPassa ==
  ASSUME ReqOK, NEW r \in Reqs, NEW pc \in Pcs \ {"livre", "aprovadores",
                                                   "gravar_status", "inserir"},
         req[r].pc \notin {"livre", "inserir", "aprovadores"},
         Passa(r, pc)
  PROVE  Troca(r, [req[r] EXCEPT !.pc = pc])
  BY DEF ReqOK, Troca, Passa, Requisicao, ReqCoerente

LEMMA TrocaInserir ==
  ASSUME ReqOK, NEW r \in Reqs, NEW n \in Sols, Em(r, "inserir"),
         req' = [req EXCEPT ![r].pc = "aprovadores", ![r].nova = n]
  PROVE  Troca(r, [req[r] EXCEPT !.pc = "aprovadores", !.nova = n])
  BY DEF ReqOK, Troca, Em, Requisicao, ReqCoerente, Pcs

LEMMA TrocaAninhar ==
  ASSUME ReqOK, NEW r \in Reqs, Em(r, "validar"),
         req' = [req EXCEPT ![r].pc = "inserir", ![r].executa = TRUE]
  PROVE  Troca(r, [req[r] EXCEPT !.pc = "inserir", !.executa = TRUE])
  BY DEF ReqOK, Troca, Em, Requisicao, ReqCoerente, Pcs

\* Back in the execution, from its call.
LEMMA TrocaVolta ==
  ASSUME ReqOK, NEW r \in Reqs, NaChamada(req[r]),
         req' = [req EXCEPT ![r].pc = "concluir", ![r].nova = Nada,
                            ![r].executa = FALSE]
  PROVE  Troca(r, [req[r] EXCEPT !.pc = "concluir", !.nova = Nada,
                                 !.executa = FALSE])
<1> DEFINE q == [req[r] EXCEPT !.pc = "concluir", !.nova = Nada,
                               !.executa = FALSE]
<1>1. req[r] \in Requisicao /\ ReqCoerente(req[r])
  BY DEF ReqOK
<1>2. q \in Requisicao
  BY <1>1 DEF Requisicao, Pcs
<1>3. /\ q.pc = "concluir"
      /\ q.executa = FALSE
      /\ q.u = req[r].u
      /\ q.s = req[r].s
  BY <1>1 DEF Requisicao
<1>4. ReqCoerente(q)
  <2>1. req[r].u \in Usuarios /\ req[r].s \in Sols
    BY <1>1 DEF NaChamada, ReqCoerente
  <2> HIDE DEF q
  <2> QED
    BY <1>3, <2>1 DEF ReqCoerente
<1>5. req' = [req EXCEPT ![r] = q]
  BY <1>1 DEF ReqOK, Requisicao
<1> QED
  BY <1>2, <1>4, <1>5 DEF Troca

LEMMA TrocaGravada ==
  ASSUME ReqOK, NEW r \in Reqs, Em(r, "gravar_decisao"),
         req' = [req EXCEPT ![r].pc = "recarregar", ![r].sim = FALSE]
  PROVE  Troca(r, [req[r] EXCEPT !.pc = "recarregar", !.sim = FALSE])
  BY DEF ReqOK, Troca, Em, Requisicao, ReqCoerente, Pcs

LEMMA TrocaDecidida ==
  ASSUME ReqOK, NEW r \in Reqs, Em(r, "recarregar"),
         NEW novo \in {"APROVADA", "REJEITADA"},
         req' = [req EXCEPT ![r].pc = "gravar_status", ![r].novo = novo]
  PROVE  Troca(r, [req[r] EXCEPT !.pc = "gravar_status", !.novo = novo])
  BY DEF ReqOK, Troca, Em, Requisicao, ReqCoerente, Pcs, StatusSolicitacao

LEMMA TrocaEscrita ==
  ASSUME ReqOK, NEW r \in Reqs, Em(r, "gravar_status"),
         req' = [req EXCEPT ![r].pc = "reler", ![r].novo = "PENDENTE"]
  PROVE  Troca(r, [req[r] EXCEPT !.pc = "reler", !.novo = "PENDENTE"])
  BY DEF ReqOK, Troca, Em, Requisicao, ReqCoerente, Pcs, StatusSolicitacao

LEMMA TrocaDevolve ==
  ASSUME ReqOK, NEW r \in Reqs, Devolve(r)
  PROVE  \E q : Troca(r, q)
<1>1. CASE req[r].executa
  BY <1>1, TrocaVolta DEF Devolve, NaChamada
<1>2. CASE ~req[r].executa
  BY <1>2, TrocaLivre DEF Devolve
<1> QED
  BY <1>1, <1>2

-----------------------------------------------------------------------------
(* The rows                                                                *)

SolOK == sol \in [Sols -> Solicitacao]

LEMMA Campos ==
  ASSUME SolOK, NEW s \in Sols
  PROVE  /\ sol[s] \in Solicitacao
         /\ sol[s].status \in StatusSolicitacao
         /\ sol[s].solicitante \in Usuarios \cup {Nada}
         /\ sol[s].decisao \in [Usuarios -> Decisoes]
  BY DEF SolOK, Solicitacao

\* Writing the status of one row leaves everything else.
LEMMA MudaStatus ==
  ASSUME SolOK, NEW s \in Sols, NEW v \in StatusSolicitacao, Status(s, v)
  PROVE  /\ SolOK'
         /\ sol'[s].status = v
         /\ \A t \in Sols : t # s => sol'[t] = sol[t]
         /\ \A t \in Sols : /\ sol'[t].decisao = sol[t].decisao
                            /\ sol'[t].solicitante = sol[t].solicitante
  BY DEF SolOK, Solicitacao, Status

LEMMA MudaDecisao ==
  ASSUME SolOK, NEW s \in Sols, NEW d \in [Usuarios -> Decisoes],
         sol' = [sol EXCEPT ![s].decisao = d]
  PROVE  /\ SolOK'
         /\ sol'[s].decisao = d
         /\ \A t \in Sols : t # s => sol'[t] = sol[t]
         /\ \A t \in Sols : /\ sol'[t].status = sol[t].status
                            /\ sol'[t].solicitante = sol[t].solicitante
  BY DEF SolOK, Solicitacao

LEMMA Insere ==
  ASSUME SolOK, NEW n \in Sols, NEW u \in Usuarios,
         sol' = [sol EXCEPT ![n].status = "PENDENTE", ![n].solicitante = u]
  PROVE  /\ SolOK'
         /\ sol'[n].status = "PENDENTE"
         /\ sol'[n].solicitante = u
         /\ \A t \in Sols : t # n => sol'[t] = sol[t]
         /\ \A t \in Sols : sol'[t].decisao = sol[t].decisao
  BY DEF SolOK, Solicitacao, StatusSolicitacao

LEMMA DecideValores ==
  ASSUME NEW d
  PROVE  Decide(d) \in {"PENDENTE", "APROVADA", "REJEITADA"}
  BY DEF Decide

-----------------------------------------------------------------------------
(* The type invariant                                                      *)

\* What the observers are.
ObsOK ==
    /\ execucoes \in [Sols -> 0..2]
    /\ respaldada \in SUBSET Sols
    /\ sobreposta \in SUBSET Sols
    /\ corrida \in SUBSET Usuarios
    /\ perdida \in SUBSET Sols

LEMMA TypeParts ==
  TypeOK <=> estrategia \in Estrategias /\ SolOK /\ ReqOK /\ ObsOK
  BY DEF TypeOK, SolOK, ReqOK, ObsOK

\* What an action of r does to the types.
Tipado ==
    /\ estrategia' = estrategia
    /\ SolOK'
    /\ ReqOK'
    /\ ObsOK'

LEMMA InitType == Init => TypeOK
<1> SUFFICES ASSUME Init PROVE TypeOK
  OBVIOUS
<1>1. SolOK
  BY DEF Init, SolOK, Solicitacao, StatusSolicitacao, Decisoes
<1>2. ReqOK
  BY LivreTipo DEF Init, ReqOK
<1>3. ObsOK
  BY DEF Init, ObsOK
<1> QED
  BY <1>1, <1>2, <1>3, TypeParts DEF Init

LEMMA TypeInicia ==
  ASSUME TypeOK, NEW r \in Reqs, Inicia(r)
  PROVE  Tipado
<1> USE TypeParts
<1>1. CASE CriarSolicitacao(r)
  <2>1. PICK u \in Solicitantes :
            /\ Comeca(r, [Livre EXCEPT !.pc = "inserir", !.u = u])
            /\ CriacaoConcorrente(u)
    BY <1>1 DEF CriarSolicitacao
  <2>2. u \in Usuarios
    BY <2>1, UsuariosAssumption
  <2>3. ReqOK'
    BY <2>1, <2>2, TrocaCriar, TrocaReq
  <2>4. ObsOK'
    BY <1>1, <2>1, <2>2 DEF CriarSolicitacao, CriacaoConcorrente, ObsOK
  <2> QED
    BY <1>1, <2>3, <2>4 DEF CriarSolicitacao, Tipado, SolOK
<1>2. CASE IniciarVoto(r)
  <2>1. PICK s \in Sols : \E u \in Aprovadores(sol[s].decisao) :
          \E v \in BOOLEAN :
            /\ Comeca(r, [Livre EXCEPT !.pc = "ler_aprovador", !.u = u,
                                       !.s = s, !.sim = v])
            /\ PodeDecidir(s)
    BY <1>2 DEF IniciarVoto
  <2>2. PICK u \in Aprovadores(sol[s].decisao), v \in BOOLEAN :
            /\ Comeca(r, [Livre EXCEPT !.pc = "ler_aprovador", !.u = u,
                                       !.s = s, !.sim = v])
            /\ PodeDecidir(s)
    BY <2>1
  <2>3. u \in Usuarios
    BY DEF Aprovadores
  <2>4. ReqOK'
    BY <2>2, <2>3, TrocaVoto, TrocaReq
  <2>5. ObsOK'
    BY <2>2 DEF PodeDecidir, ObsOK
  <2> QED
    BY <2>2, <2>4, <2>5 DEF PodeDecidir, Tipado, SolOK
<1>3. CASE IniciarCancelamento(r)
  <2>1. PICK s \in Sols, u \in Usuarios :
            /\ Comeca(r, [Livre EXCEPT !.pc = "cancelar", !.u = u, !.s = s])
            /\ PodeDecidir(s)
    BY <1>3 DEF IniciarCancelamento
  <2>4. ReqOK'
    BY <2>1, TrocaCancelar, TrocaReq
  <2>5. ObsOK'
    BY <2>1 DEF PodeDecidir, ObsOK
  <2> QED
    BY <2>1, <2>4, <2>5 DEF PodeDecidir, Tipado, SolOK
<1>4. CASE Repetir(r)
  <2>1. PICK u \in Solicitantes, s \in Sols :
            Comeca(r, [Livre EXCEPT !.pc = "direta", !.u = u, !.s = s])
    BY <1>4 DEF Repetir
  <2>2. u \in Usuarios
    BY <2>1, UsuariosAssumption
  <2>3. ReqOK'
    BY <2>1, <2>2, TrocaRepetir, TrocaReq
  <2> QED
    BY <1>4, <2>3 DEF Repetir, Tipado, SolOK, ObsOK, observadores
<1> QED
  BY <1>1, <1>2, <1>3, <1>4 DEF Inicia

LEMMA TypeContinua ==
  ASSUME TypeOK, NEW r \in Reqs, Continua(r)
  PROVE  Tipado
<1> USE TypeParts
<1>0. /\ req[r] \in Requisicao
      /\ ReqCoerente(req[r])
  BY DEF ReqOK
<1>1. CASE Inserir(r)
  <2>1. PICK n \in Sols :
          /\ sol[n].status = "INEXISTENTE"
          /\ sol' = [sol EXCEPT ![n].status = "PENDENTE",
                                ![n].solicitante = req[r].u]
          /\ req' = [req EXCEPT ![r].pc = "aprovadores", ![r].nova = n]
    BY <1>1 DEF Inserir
  <2>2. req[r].u \in Usuarios
    BY <1>0, <1>1 DEF Inserir, Em, ReqCoerente
  <2>3. SolOK'
    BY <2>1, <2>2, Insere
  <2>4. ReqOK'
    BY <1>1, <2>1, TrocaInserir, TrocaReq DEF Inserir
  <2> QED
    BY <1>1, <2>3, <2>4 DEF Inserir, Tipado, ObsOK, observadores
<1>2. CASE SemLinhas(r)
  BY <1>2, TrocaDevolve, TrocaReq
     DEF SemLinhas, Tipado, SolOK, ObsOK, observadores
<1>3. CASE CriarAprovadores(r)
  <2>1. PICK c : sol' = [sol EXCEPT ![req[r].nova].decisao =
                   [u \in Usuarios |-> IF u \in c THEN "nenhuma" ELSE "ausente"]]
    BY <1>3 DEF CriarAprovadores
  <2>2. req[r].nova \in Sols
    BY <1>0, <1>3 DEF CriarAprovadores, Em, ReqCoerente
  <2>3. [u \in Usuarios |-> IF u \in c THEN "nenhuma" ELSE "ausente"]
          \in [Usuarios -> Decisoes]
    BY DEF Decisoes
  <2>4. SolOK'
    BY <2>1, <2>2, <2>3, MudaDecisao
  <2> QED
    BY <1>3, <2>4, TrocaDevolve, TrocaReq
       DEF CriarAprovadores, Tipado, ObsOK, observadores
<1>4. CASE LerAprovador(r)
  <2>1. \E q : Troca(r, q)
    BY <1>4, TrocaLivre, TrocaPassa DEF LerAprovador, Em, Pcs
  <2> QED
    BY <1>4, <2>1, TrocaReq DEF LerAprovador, Tipado, SolOK, ObsOK, observadores
<1>5. CASE GravarDecisao(r)
  <2> DEFINE d == [sol[req[r].s].decisao EXCEPT ![req[r].u] =
                     IF req[r].sim THEN "sim" ELSE "nao"]
  <2>1. req[r].s \in Sols
    BY <1>0, <1>5 DEF GravarDecisao, Em, ReqCoerente
  <2>2. d \in [Usuarios -> Decisoes]
    BY <2>1, Campos DEF Decisoes
  <2>3. SolOK'
    <3>1. sol' = [sol EXCEPT ![req[r].s].decisao = d]
      BY <1>5 DEF GravarDecisao
    <3>2. SolOK
      OBVIOUS
    <3> HIDE DEF d
    <3> QED
      BY <2>1, <2>2, <3>1, <3>2, MudaDecisao, Zenon
  <2>4. ReqOK'
    BY <1>5, TrocaGravada, TrocaReq DEF GravarDecisao
  <2>5. ObsOK'
    BY <1>5, <2>1 DEF GravarDecisao, ObsOK
  <2> QED
    BY <1>5, <2>3, <2>4, <2>5 DEF GravarDecisao, Tipado
<1>6. CASE Recarregar(r)
  <2> DEFINE novo == Decide(sol[req[r].s].decisao)
  <2>1. novo \in {"PENDENTE", "APROVADA", "REJEITADA"}
    BY DecideValores
  <2>2. \E q : Troca(r, q)
    <3>1. CASE novo = "PENDENTE"
      BY <1>6, <3>1, TrocaLivre, TrocaPassa DEF Recarregar, Em, Pcs
    <3>2. CASE novo # "PENDENTE"
      <4>1. req' = [req EXCEPT ![r].pc = "gravar_status", ![r].novo = novo]
        BY <1>6, <3>2 DEF Recarregar
      <4>2. novo \in {"APROVADA", "REJEITADA"} /\ Em(r, "recarregar")
        BY <1>6, <2>1, <3>2 DEF Recarregar
      <4> HIDE DEF novo
      <4> QED
        BY <4>1, <4>2, TrocaDecidida
    <3> QED
      BY <3>1, <3>2
  <2> QED
    BY <1>6, <2>2, TrocaReq DEF Recarregar, Tipado, SolOK, ObsOK, observadores
<1>7. CASE GravarStatus(r)
  <2>1. /\ req[r].s \in Sols
        /\ req[r].novo \in StatusSolicitacao
    BY <1>0, <1>7 DEF GravarStatus, Em, ReqCoerente, StatusSolicitacao
  <2>2. SolOK'
    BY <1>7, <2>1, MudaStatus DEF GravarStatus
  <2>3. ReqOK'
    BY <1>7, TrocaEscrita, TrocaReq DEF GravarStatus
  <2> QED
    BY <1>7, <2>2, <2>3 DEF GravarStatus, Tipado, ObsOK, observadores
<1>8. CASE Reler(r)
  <2>1. \E q : Troca(r, q)
    BY <1>8, TrocaLivre, TrocaPassa DEF Reler, Em, Pcs
  <2> QED
    BY <1>8, <2>1, TrocaReq DEF Reler, Tipado, SolOK, ObsOK, observadores
<1>9. CASE GravarCancelamento(r)
  <2>1. req[r].s \in Sols
    BY <1>0, <1>9 DEF GravarCancelamento, Em, ReqCoerente
  <2>2. SolOK'
    BY <1>9, <2>1, MudaStatus DEF GravarCancelamento, StatusSolicitacao
  <2> QED
    BY <1>9, <2>2, TrocaLivre, TrocaReq
       DEF GravarCancelamento, Tipado, ObsOK, observadores
<1>10. CASE Chamar(r)
  <2>1. \E q : Troca(r, q)
    BY <1>10, TrocaPassa DEF Chamar, Em, Pcs
  <2> QED
    BY <1>10, <2>1, TrocaReq DEF Chamar, Tipado, SolOK, ObsOK, observadores
<1>11. CASE Validar(r)
  <2>1. \E q : Troca(r, q)
    BY <1>11, TrocaPassa, TrocaAninhar DEF Validar, Em, Pcs
  <2>2. req[r].u \in Usuarios
    BY <1>0, <1>11 DEF Validar, Em, ReqCoerente
  <2>3. ObsOK'
    BY <1>11, <2>2 DEF Validar, CriacaoConcorrente, ObsOK
  <2> QED
    BY <1>11, <2>1, <2>3, TrocaReq DEF Validar, Tipado, SolOK
<1>12. CASE Agir(r)
  <2>1. \E q : Troca(r, q)
    BY <1>12, TrocaPassa DEF Agir, Em, Pcs
  <2>2. ObsOK'
    BY <1>12 DEF Agir, ObsOK
  <2> QED
    BY <1>12, <2>1, <2>2, TrocaReq DEF Agir, Tipado, SolOK
<1>13. CASE Concluir(r)
  <2>1. req[r].s \in Sols
    BY <1>0, <1>13 DEF Concluir, Em, ReqCoerente
  <2>2. SolOK'
    BY <1>13, <2>1, MudaStatus DEF Concluir, StatusSolicitacao
  <2> QED
    BY <1>13, <2>2, TrocaLivre, TrocaReq DEF Concluir, Tipado, ObsOK, observadores
<1>14. CASE GravarErro(r)
  <2>1. req[r].s \in Sols
    BY <1>0, <1>14 DEF GravarErro, Em, ReqCoerente
  <2>2. SolOK'
    BY <1>14, <2>1, MudaStatus DEF GravarErro, StatusSolicitacao
  <2> QED
    BY <1>14, <2>2, TrocaLivre, TrocaReq DEF GravarErro, Tipado, ObsOK, observadores
<1>15. CASE AgirDireto(r)
  BY <1>15, TrocaLivre, TrocaReq
     DEF AgirDireto, Tipado, SolOK, ObsOK, observadores
<1> QED
  BY <1>1, <1>2, <1>3, <1>4, <1>5, <1>6, <1>7, <1>8, <1>9, <1>10, <1>11, <1>12,
     <1>13, <1>14, <1>15 DEF Continua

LEMMA TypeErrar ==
  ASSUME TypeOK, NEW r \in Reqs, Errar(r)
  PROVE  Tipado
<1> USE TypeParts
<1>0. /\ req[r] \in Requisicao
      /\ ReqCoerente(req[r])
  BY DEF ReqOK
<1>1. ASSUME Em(r, "concluir"), Passa(r, "gravar_erro"),
             UNCHANGED sol \/ Status(req[r].s, "EXECUTADA"),
             UNCHANGED perdida
      PROVE  Tipado
  <2>1. req[r].s \in Sols
    BY <1>0, <1>1 DEF Em, ReqCoerente
  <2>2. SolOK'
    <3>1. CASE UNCHANGED sol
      BY <3>1 DEF SolOK
    <3>2. CASE Status(req[r].s, "EXECUTADA")
      BY <2>1, <3>2, MudaStatus DEF StatusSolicitacao
    <3> QED
      BY <1>1, <3>1, <3>2
  <2>3. ReqOK'
    BY <1>1, TrocaPassa, TrocaReq DEF Em, Pcs
  <2> QED
    BY <1>1, <2>2, <2>3 DEF Errar, Tipado, ObsOK
<1>2. ASSUME NaChamada(req[r]),
             req' = [req EXCEPT ![r].pc = "concluir", ![r].nova = Nada,
                                ![r].executa = FALSE],
             UNCHANGED <<sol, perdida>>
      PROVE  Tipado
  <2>1. ReqOK'
    BY <1>2, TrocaVolta, TrocaReq
  <2> QED
    BY <1>2, <2>1 DEF Errar, Tipado, ObsOK, SolOK
<1>3. ASSUME Termina(r), perdida' = perdida \cup Perde(req[r]), UNCHANGED sol
      PROVE  Tipado
  <2>1. Perde(req[r]) \subseteq Sols
    BY DEF Perde
  <2>2. ReqOK'
    BY <1>3, TrocaLivre, TrocaReq
  <2> QED
    BY <1>3, <2>1, <2>2 DEF Errar, Tipado, ObsOK, SolOK
<1> QED
  BY <1>1, <1>2, <1>3 DEF Errar

LEMMA TypeParar ==
  ASSUME TypeOK, Parar
  PROVE  Tipado
<1> USE TypeParts
<1>1. \A r \in Reqs : Perde(req[r]) \subseteq Sols
  BY DEF Perde
<1>2. ReqOK'
  BY LivreTipo DEF Parar, ReqOK
<1> QED
  BY <1>1, <1>2 DEF Parar, Tipado, ObsOK, SolOK

LEMMA TypeNext == TypeOK /\ [Next]_vars => TypeOK'
<1> SUFFICES ASSUME TypeOK, [Next]_vars PROVE TypeOK'
  OBVIOUS
<1>1. CASE UNCHANGED vars
  BY <1>1 DEF vars, TypeOK, Solicitacao, Requisicao, ReqCoerente
<1>2. ASSUME Tipado PROVE TypeOK'
  BY <1>2, TypeParts DEF Tipado, TypeOK, SolOK, ReqOK, ObsOK
<1>3. CASE Next
  <2>1. Tipado
    BY <1>3, TypeInicia, TypeContinua, TypeErrar, TypeParar DEF Next
  <2> QED
    BY <1>2, <2>1
<1> QED
  BY <1>1, <1>3

\* Every value stored is one the code stores, and every request in progress
\* knows what it works on.
THEOREM TypeCorrect == Spec => []TypeOK
  BY InitType, TypeNext, PTL DEF Spec

-----------------------------------------------------------------------------
(* Why ExecucaoRespaldada holds                                            *)

SemVotos(d) == \A u \in Usuarios : d[u] = "ausente"

\* A voter has a row, and has a vote in it when the votes are counted again;
\* the rows of approvers are created once, by the request that inserted the
\* solicitacao.
VotosInv ==
    /\ \A s \in Sols : sol[s].status = "INEXISTENTE" => SemVotos(sol[s].decisao)
    /\ \A r \in Reqs : req[r].pc \in {"ler_aprovador", "gravar_decisao"} =>
         sol[req[r].s].decisao[req[r].u] # "ausente"
    /\ \A r \in Reqs : Em(r, "recarregar") =>
         sol[req[r].s].decisao[req[r].u] \in {"sim", "nao"}
    /\ \A r \in Reqs : Em(r, "aprovadores") =>
         /\ SemVotos(sol[req[r].nova].decisao)
         /\ sol[req[r].nova].status # "INEXISTENTE"
    /\ \A r, q \in Reqs :
         (Em(r, "aprovadores") /\ Em(q, "aprovadores") /\ r # q)
           => req[r].nova # req[q].nova

NaExecucao(q) == q.executa \/ q.pc \in {"chamar", "validar", "agir", "direta"}

\* Whoever is about to write APROVADA, or to run the action, has seen the
\* votes that allow it.
RespaldoInv ==
    /\ \A s \in Sols : Respaldo(sol[s].decisao) => s \in respaldada
    /\ \A s \in Sols : sol[s].status = "APROVADA" => s \in respaldada
    /\ ExecucaoRespaldada
    /\ \A r \in Reqs :
         \/ Em(r, "gravar_status") /\ req[r].novo = "APROVADA"
         \/ NaExecucao(req[r])
         => req[r].s \in respaldada

LEMMA Outros ==
  ASSUME ReqOK, NEW r \in Reqs, NEW q, req' = [req EXCEPT ![r] = q]
  PROVE  /\ req'[r] = q
         /\ \A p \in Reqs : p # r => req'[p] = req[p]
  BY DEF ReqOK

\* r moves to a step that says nothing of votes, and no row of approver nor
\* solicitacao comes to exist.
NeutraVotos(r) ==
    /\ \A p \in Reqs : p # r => req'[p] = req[p]
    /\ req'[r].pc \notin {"ler_aprovador", "gravar_decisao", "recarregar",
                          "aprovadores"}
    /\ \A s \in Sols : /\ sol'[s].decisao = sol[s].decisao
                       /\ sol'[s].status = "INEXISTENTE"
                            => sol[s].status = "INEXISTENTE"

LEMMA VotosNeutra ==
  ASSUME TypeOK, VotosInv, NEW r \in Reqs, NeutraVotos(r)
  PROVE  VotosInv'
<1>0. \A p \in Reqs : ReqCoerente(req[p])
  BY TypeParts DEF ReqOK
<1>1. \A s \in Sols : sol'[s].status = "INEXISTENTE" => SemVotos(sol'[s].decisao)
  BY DEF VotosInv, NeutraVotos
<1>2. \A p \in Reqs : req'[p].pc \in {"ler_aprovador", "gravar_decisao"} =>
        sol'[req'[p].s].decisao[req'[p].u] # "ausente"
  <2> TAKE p \in Reqs
  <2> HAVE req'[p].pc \in {"ler_aprovador", "gravar_decisao"}
  <2>1. p # r /\ req'[p] = req[p]
    BY DEF NeutraVotos
  <2>2. req[p].s \in Sols
    BY <1>0, <2>1 DEF ReqCoerente
  <2> QED
    BY <2>1, <2>2 DEF VotosInv, NeutraVotos
<1>3. \A p \in Reqs : req'[p].pc = "recarregar" =>
        sol'[req'[p].s].decisao[req'[p].u] \in {"sim", "nao"}
  <2> TAKE p \in Reqs
  <2> HAVE req'[p].pc = "recarregar"
  <2>1. p # r /\ req'[p] = req[p]
    BY DEF NeutraVotos
  <2>2. req[p].s \in Sols
    BY <1>0, <2>1 DEF ReqCoerente
  <2> QED
    BY <2>1, <2>2 DEF VotosInv, NeutraVotos, Em
<1>4. \A p \in Reqs : req'[p].pc = "aprovadores" =>
         /\ SemVotos(sol'[req'[p].nova].decisao)
         /\ sol'[req'[p].nova].status # "INEXISTENTE"
  <2> TAKE p \in Reqs
  <2> HAVE req'[p].pc = "aprovadores"
  <2>1. p # r /\ req'[p] = req[p]
    BY DEF NeutraVotos
  <2>2. req[p].nova \in Sols
    BY <1>0, <2>1 DEF ReqCoerente
  <2> QED
    BY <2>1, <2>2 DEF VotosInv, NeutraVotos, Em
<1>5. \A p, q \in Reqs :
         (req'[p].pc = "aprovadores" /\ req'[q].pc = "aprovadores" /\ p # q)
           => req'[p].nova # req'[q].nova
  BY DEF VotosInv, NeutraVotos, Em
<1> QED
  BY <1>1, <1>2, <1>3, <1>4, <1>5 DEF VotosInv, Em

\* The step of r is one of those that say nothing of votes.
PassoNeutro(r) ==
    \/ CriarSolicitacao(r)
    \/ IniciarCancelamento(r)
    \/ Repetir(r)
    \/ AgirDireto(r)
    \/ SemLinhas(r)
    \/ Recarregar(r)
    \/ GravarStatus(r)
    \/ Reler(r)
    \/ GravarCancelamento(r)
    \/ Chamar(r)
    \/ Validar(r)
    \/ Agir(r)
    \/ Concluir(r)
    \/ GravarErro(r)
    \/ Errar(r)


LEMMA StatusIgual ==
  ASSUME SolOK, NEW s \in Sols,
         NEW v \in StatusSolicitacao \ {"INEXISTENTE"}, Status(s, v)
  PROVE  \A t \in Sols : /\ sol'[t].decisao = sol[t].decisao
                         /\ sol'[t].status = "INEXISTENTE"
                              => sol[t].status = "INEXISTENTE"
  BY MudaStatus

\* Which step each request comes to.
LEMMA PassaPc ==
  ASSUME ReqOK, NEW r \in Reqs, NEW pc, Passa(r, pc)
  PROVE  /\ req'[r].pc = pc
         /\ req'[r].s = req[r].s
         /\ req'[r].u = req[r].u
         /\ req'[r].executa = req[r].executa
         /\ req'[r].novo = req[r].novo
         /\ \A p \in Reqs : p # r => req'[p] = req[p]
  BY DEF Passa, ReqOK, Requisicao

LEMMA TerminaPc ==
  ASSUME ReqOK, NEW r \in Reqs, Termina(r)
  PROVE  /\ req'[r] = Livre
         /\ \A p \in Reqs : p # r => req'[p] = req[p]
  BY DEF Termina, ReqOK

LEMMA DevolvePc ==
  ASSUME ReqOK, NEW r \in Reqs, Devolve(r)
  PROVE  /\ \/ req'[r] = Livre /\ ~req[r].executa
            \/ /\ req[r].executa
               /\ req'[r].pc = "concluir"
               /\ req'[r].s = req[r].s
               /\ req'[r].executa = FALSE
         /\ \A p \in Reqs : p # r => req'[p] = req[p]
  BY DEF Devolve, Termina, ReqOK, Requisicao

LEMMA ChamadaPc ==
  ASSUME ReqOK, NEW r \in Reqs,
         req' = [req EXCEPT ![r].pc = "concluir", ![r].nova = Nada,
                            ![r].executa = FALSE]
  PROVE  /\ req'[r].pc = "concluir"
         /\ req'[r].s = req[r].s
         /\ req'[r].executa = FALSE
         /\ \A p \in Reqs : p # r => req'[p] = req[p]
  BY DEF ReqOK, Requisicao

LEMMA ComecaPc ==
  ASSUME ReqOK, NEW r \in Reqs, NEW q, Comeca(r, q)
  PROVE  /\ Em(r, "livre")
         /\ req'[r] = q
         /\ \A p \in Reqs : p # r => req'[p] = req[p]
  BY DEF Comeca, ReqOK

LEMMA IniciaPc ==
  ASSUME ReqOK, NEW r \in Reqs, Inicia(r)
  PROVE  /\ \A p \in Reqs : p # r => req'[p] = req[p]
         /\ Em(r, "livre")
         /\ req'[r].executa = FALSE
         /\ CriarSolicitacao(r) => req'[r].pc = "inserir" /\ req'[r].s = Nada
         /\ IniciarCancelamento(r) => req'[r].pc = "cancelar"
         /\ IniciarVoto(r) => req'[r].pc = "ler_aprovador"
         /\ Repetir(r) => /\ req'[r].pc = "direta"
                          /\ req'[r].s \in Sols
                          /\ sol[req'[r].s].status = "APROVADA"
<1>0. PICK q : Comeca(r, q)
  BY DEF Inicia, CriarSolicitacao, IniciarVoto, IniciarCancelamento, Repetir
<1>1. /\ Em(r, "livre")
      /\ req'[r] = q
      /\ \A p \in Reqs : p # r => req'[p] = req[p]
  BY <1>0, ComecaPc
<1>2. ASSUME CriarSolicitacao(r)
      PROVE  req'[r].pc = "inserir" /\ req'[r].s = Nada /\ req'[r].executa = FALSE
  <2>1. PICK u : Comeca(r, [Livre EXCEPT !.pc = "inserir", !.u = u])
    BY <1>2 DEF CriarSolicitacao
  <2>2. req'[r] = [Livre EXCEPT !.pc = "inserir", !.u = u]
    BY <2>1, ComecaPc
  <2> QED
    BY <2>2 DEF Livre
<1>3. ASSUME IniciarVoto(r)
      PROVE  req'[r].pc = "ler_aprovador" /\ req'[r].executa = FALSE
  <2>1. PICK u, s, v : Comeca(r, [Livre EXCEPT !.pc = "ler_aprovador", !.u = u,
                                               !.s = s, !.sim = v])
    BY <1>3 DEF IniciarVoto
  <2>2. req'[r] = [Livre EXCEPT !.pc = "ler_aprovador", !.u = u, !.s = s,
                                !.sim = v]
    BY <2>1, ComecaPc
  <2> QED
    BY <2>2 DEF Livre
<1>4. ASSUME IniciarCancelamento(r)
      PROVE  req'[r].pc = "cancelar" /\ req'[r].executa = FALSE
  <2>1. PICK u, s : Comeca(r, [Livre EXCEPT !.pc = "cancelar", !.u = u, !.s = s])
    BY <1>4 DEF IniciarCancelamento
  <2>2. req'[r] = [Livre EXCEPT !.pc = "cancelar", !.u = u, !.s = s]
    BY <2>1, ComecaPc
  <2> QED
    BY <2>2 DEF Livre
<1>5. ASSUME Repetir(r)
      PROVE  /\ req'[r].pc = "direta" /\ req'[r].executa = FALSE
             /\ req'[r].s \in Sols
             /\ sol[req'[r].s].status = "APROVADA"
  <2>1. PICK u \in Solicitantes, s \in Sols :
            /\ sol[s].status = "APROVADA"
            /\ Comeca(r, [Livre EXCEPT !.pc = "direta", !.u = u, !.s = s])
    BY <1>5 DEF Repetir
  <2>2. req'[r] = [Livre EXCEPT !.pc = "direta", !.u = u, !.s = s]
    BY <2>1, ComecaPc
  <2> QED
    BY <2>1, <2>2 DEF Livre
<1> QED
  BY <1>1, <1>2, <1>3, <1>4, <1>5, Zenon DEF Inicia

LEMMA PassoNeutroVotos ==
  ASSUME TypeOK, NEW r \in Reqs, PassoNeutro(r)
  PROVE  NeutraVotos(r)
<1> USE TypeParts
<1>0. /\ req[r] \in Requisicao
      /\ ReqCoerente(req[r])
  BY DEF ReqOK
<1>1. CASE CriarSolicitacao(r)
  BY <1>1, IniciaPc DEF Inicia, CriarSolicitacao, NeutraVotos
<1>2. CASE IniciarCancelamento(r)
  BY <1>2, IniciaPc DEF Inicia, IniciarCancelamento, PodeDecidir, NeutraVotos
<1>3. CASE SemLinhas(r)
  BY <1>3, DevolvePc, LivreTipo DEF SemLinhas, NeutraVotos
<1>4. CASE Recarregar(r)
  <2>1. /\ req'[r].pc \in {"gravar_status", "chamar", "livre"}
        /\ \A p \in Reqs : p # r => req'[p] = req[p]
    <3>1. CASE req' = [req EXCEPT ![r].pc = "gravar_status",
                                  ![r].novo = Decide(sol[req[r].s].decisao)]
      BY <3>1 DEF ReqOK, Requisicao
    <3>2. CASE Passa(r, "chamar")
      BY <3>2, PassaPc
    <3>3. CASE Termina(r)
      BY <3>3, TerminaPc, LivreTipo
    <3> QED
      BY <1>4, <3>1, <3>2, <3>3 DEF Recarregar
  <2> QED
    BY <1>4, <2>1 DEF Recarregar, NeutraVotos
<1>5. CASE GravarStatus(r)
  <2>1. /\ req[r].s \in Sols
        /\ req[r].novo \in StatusSolicitacao \ {"INEXISTENTE"}
    BY <1>0, <1>5 DEF GravarStatus, Em, ReqCoerente, StatusSolicitacao
  <2>2. /\ req'[r].pc = "reler"
        /\ \A p \in Reqs : p # r => req'[p] = req[p]
    BY <1>5 DEF GravarStatus, ReqOK, Requisicao
  <2> QED
    BY <1>5, <2>1, <2>2, StatusIgual DEF GravarStatus, NeutraVotos
<1>6. CASE Reler(r)
  BY <1>6, PassaPc, TerminaPc, LivreTipo DEF Reler, NeutraVotos
<1>7. CASE GravarCancelamento(r)
  <2>1. req[r].s \in Sols
    BY <1>0, <1>7 DEF GravarCancelamento, Em, ReqCoerente
  <2> QED
    BY <1>7, <2>1, StatusIgual, TerminaPc, LivreTipo
       DEF GravarCancelamento, NeutraVotos, StatusSolicitacao
<1>8. CASE Chamar(r)
  BY <1>8, PassaPc DEF Chamar, NeutraVotos
<1>9. CASE Validar(r)
  <2>1. /\ req'[r].pc \in {"concluir", "inserir"}
        /\ \A p \in Reqs : p # r => req'[p] = req[p]
    BY <1>9 DEF Validar, Passa, ReqOK, Requisicao
  <2> QED
    BY <1>9, <2>1 DEF Validar, NeutraVotos
<1>10. CASE Agir(r)
  BY <1>10, PassaPc DEF Agir, NeutraVotos
<1>11. CASE Concluir(r)
  <2>1. req[r].s \in Sols
    BY <1>0, <1>11 DEF Concluir, Em, ReqCoerente
  <2> QED
    BY <1>11, <2>1, StatusIgual, TerminaPc, LivreTipo
       DEF Concluir, NeutraVotos, StatusSolicitacao
<1>12. CASE GravarErro(r)
  <2>1. req[r].s \in Sols
    BY <1>0, <1>12 DEF GravarErro, Em, ReqCoerente
  <2> QED
    BY <1>12, <2>1, StatusIgual, TerminaPc, LivreTipo
       DEF GravarErro, NeutraVotos, StatusSolicitacao
<1>13. CASE Errar(r)
  <2>1. Em(r, "concluir") => req[r].s \in Sols
    BY <1>0 DEF Em, ReqCoerente
  <2>2. /\ req'[r].pc \in {"gravar_erro", "concluir", "livre"}
        /\ \A p \in Reqs : p # r => req'[p] = req[p]
    BY <1>13, PassaPc, TerminaPc, ChamadaPc, LivreTipo DEF Errar
  <2>3. UNCHANGED sol \/ (Em(r, "concluir") /\ Status(req[r].s, "EXECUTADA"))
    BY <1>13 DEF Errar
  <2> QED
    BY <2>1, <2>2, <2>3, StatusIgual DEF NeutraVotos, StatusSolicitacao
<1>14. CASE Repetir(r)
  BY <1>14, IniciaPc DEF Inicia, Repetir, NeutraVotos
<1>15. CASE AgirDireto(r)
  BY <1>15, TerminaPc, LivreTipo DEF AgirDireto, NeutraVotos
<1> QED
  BY <1>1, <1>2, <1>3, <1>4, <1>5, <1>6, <1>7, <1>8, <1>9, <1>10, <1>11, <1>12,
     <1>13, <1>14, <1>15 DEF PassoNeutro

LEMMA VotosIniciar ==
  ASSUME TypeOK, VotosInv, NEW r \in Reqs, IniciarVoto(r)
  PROVE  VotosInv'
<1> USE TypeParts
<1>1. PICK s \in Sols : \E u \in Aprovadores(sol[s].decisao) :
        \E v \in BOOLEAN :
          /\ Comeca(r, [Livre EXCEPT !.pc = "ler_aprovador", !.u = u,
                                     !.s = s, !.sim = v])
          /\ PodeDecidir(s)
  BY DEF IniciarVoto
<1>2. PICK u \in Aprovadores(sol[s].decisao), v \in BOOLEAN :
          Comeca(r, [Livre EXCEPT !.pc = "ler_aprovador", !.u = u,
                                  !.s = s, !.sim = v])
  BY <1>1
<1>3. /\ req'[r].pc = "ler_aprovador"
      /\ req'[r].s = s
      /\ req'[r].u = u
      /\ \A p \in Reqs : p # r => req'[p] = req[p]
  BY <1>2 DEF Comeca, Livre, ReqOK
<1>4. sol' = sol
  BY <1>1 DEF PodeDecidir
<1>5. sol[s].decisao[u] # "ausente"
  BY <1>2 DEF Aprovadores
<1>6. \A p \in Reqs : req'[p].pc \in {"ler_aprovador", "gravar_decisao"} =>
         sol'[req'[p].s].decisao[req'[p].u] # "ausente"
  BY <1>3, <1>4, <1>5 DEF VotosInv
<1> QED
  BY <1>3, <1>4, <1>6 DEF VotosInv, Em

LEMMA VotosInserir ==
  ASSUME TypeOK, VotosInv, NEW r \in Reqs, Inserir(r)
  PROVE  VotosInv'
<1> USE TypeParts
<1>0. \A p \in Reqs : req[p] \in Requisicao /\ ReqCoerente(req[p])
  BY DEF ReqOK
<1>1. PICK n \in Sols :
        /\ sol[n].status = "INEXISTENTE"
        /\ sol' = [sol EXCEPT ![n].status = "PENDENTE",
                              ![n].solicitante = req[r].u]
        /\ req' = [req EXCEPT ![r].pc = "aprovadores", ![r].nova = n]
  BY DEF Inserir
<1>2. req[r].u \in Usuarios
  BY <1>0 DEF Inserir, Em, ReqCoerente
<1>3. /\ sol'[n].status = "PENDENTE"
      /\ \A t \in Sols : t # n => sol'[t] = sol[t]
      /\ \A t \in Sols : sol'[t].decisao = sol[t].decisao
  BY <1>1, <1>2, Insere
<1>4. /\ req'[r].pc = "aprovadores"
      /\ req'[r].nova = n
      /\ \A p \in Reqs : p # r => req'[p] = req[p]
  BY <1>1 DEF ReqOK, Requisicao
<1>5. \A s \in Sols : sol'[s].status = "INEXISTENTE" => SemVotos(sol'[s].decisao)
  BY <1>3 DEF VotosInv
<1>6. \A p \in Reqs : req'[p].pc \in {"ler_aprovador", "gravar_decisao"} =>
        sol'[req'[p].s].decisao[req'[p].u] # "ausente"
  <2> TAKE p \in Reqs
  <2> HAVE req'[p].pc \in {"ler_aprovador", "gravar_decisao"}
  <2>1. req'[p] = req[p] /\ req[p].s \in Sols
    BY <1>0, <1>4 DEF ReqCoerente
  <2> QED
    BY <1>3, <2>1 DEF VotosInv
<1>7. \A p \in Reqs : req'[p].pc = "recarregar" =>
        sol'[req'[p].s].decisao[req'[p].u] \in {"sim", "nao"}
  <2> TAKE p \in Reqs
  <2> HAVE req'[p].pc = "recarregar"
  <2>1. req'[p] = req[p] /\ req[p].s \in Sols
    BY <1>0, <1>4 DEF ReqCoerente
  <2> QED
    BY <1>3, <2>1 DEF VotosInv, Em
<1>8. \A p \in Reqs : req'[p].pc = "aprovadores" =>
        /\ SemVotos(sol'[req'[p].nova].decisao)
        /\ sol'[req'[p].nova].status # "INEXISTENTE"
  <2> TAKE p \in Reqs
  <2> HAVE req'[p].pc = "aprovadores"
  <2>1. CASE p = r
    <3>1. SemVotos(sol[n].decisao)
      BY <1>1 DEF VotosInv
    <3>2. sol'[n].decisao = sol[n].decisao /\ sol'[n].status # "INEXISTENTE"
      BY <1>3
    <3>3. SemVotos(sol'[n].decisao)
      BY <3>1, <3>2
    <3> QED
      BY <1>4, <2>1, <3>2, <3>3
  <2>2. CASE p # r
    <3>1. req'[p] = req[p] /\ req[p].nova \in Sols
      BY <1>0, <1>4, <2>2 DEF ReqCoerente
    <3> QED
      BY <1>3, <3>1 DEF VotosInv, Em
  <2> QED
    BY <2>1, <2>2
<1>9. \A p, q \in Reqs :
         (req'[p].pc = "aprovadores" /\ req'[q].pc = "aprovadores" /\ p # q)
           => req'[p].nova # req'[q].nova
  <2>1. \A p \in Reqs : (req[p].pc = "aprovadores" /\ p # r) => req[p].nova # n
    BY <1>1 DEF VotosInv, Em
  <2>2. \A p, q \in Reqs :
          (req[p].pc = "aprovadores" /\ req[q].pc = "aprovadores" /\ p # q)
            => req[p].nova # req[q].nova
    BY DEF VotosInv, Em
  <2> QED
    BY <1>4, <2>1, <2>2
<1> QED
  BY <1>5, <1>6, <1>7, <1>8, <1>9 DEF VotosInv, Em

LEMMA VotosCriar ==
  ASSUME TypeOK, VotosInv, NEW r \in Reqs, CriarAprovadores(r)
  PROVE  VotosInv'
<1> USE TypeParts
<1>0. \A p \in Reqs : req[p] \in Requisicao /\ ReqCoerente(req[p])
  BY DEF ReqOK
<1> DEFINE n == req[r].nova
<1>1. PICK c : sol' = [sol EXCEPT ![n].decisao =
                 [u \in Usuarios |-> IF u \in c THEN "nenhuma" ELSE "ausente"]]
  BY DEF CriarAprovadores
<1>2. n \in Sols /\ Em(r, "aprovadores")
  BY <1>0 DEF CriarAprovadores, Em, ReqCoerente
<1>3. /\ \A t \in Sols : t # n => sol'[t] = sol[t]
      /\ \A t \in Sols : sol'[t].status = sol[t].status
  <2>1. [u \in Usuarios |-> IF u \in c THEN "nenhuma" ELSE "ausente"]
          \in [Usuarios -> Decisoes]
    BY DEF Decisoes
  <2> QED
    BY <1>1, <1>2, <2>1, MudaDecisao
<1>4. /\ req'[r].pc \in {"livre", "concluir"}
      /\ \A p \in Reqs : p # r => req'[p] = req[p]
  BY DevolvePc, LivreTipo DEF CriarAprovadores
<1>5. SemVotos(sol[n].decisao) /\ sol[n].status # "INEXISTENTE"
  BY <1>2 DEF VotosInv
<1> HIDE DEF n
<1>6. \A s \in Sols : sol'[s].status = "INEXISTENTE" => SemVotos(sol'[s].decisao)
  BY <1>3, <1>5 DEF VotosInv
<1>7. \A p \in Reqs : req'[p].pc \in {"ler_aprovador", "gravar_decisao"} =>
        sol'[req'[p].s].decisao[req'[p].u] # "ausente"
  <2> TAKE p \in Reqs
  <2> HAVE req'[p].pc \in {"ler_aprovador", "gravar_decisao"}
  <2>1. req'[p] = req[p] /\ req[p].s \in Sols /\ req[p].u \in Usuarios
    BY <1>0, <1>4 DEF ReqCoerente
  <2>2. req[p].s # n
    BY <1>5, <2>1 DEF VotosInv, SemVotos
  <2> QED
    BY <1>3, <2>1, <2>2 DEF VotosInv
<1>8. \A p \in Reqs : req'[p].pc = "recarregar" =>
        sol'[req'[p].s].decisao[req'[p].u] \in {"sim", "nao"}
  <2> TAKE p \in Reqs
  <2> HAVE req'[p].pc = "recarregar"
  <2>1. req'[p] = req[p] /\ req[p].s \in Sols /\ req[p].u \in Usuarios
    BY <1>0, <1>4 DEF ReqCoerente
  <2>2. req[p].s # n
    BY <1>5, <2>1 DEF VotosInv, SemVotos, Em
  <2> QED
    BY <1>3, <2>1, <2>2 DEF VotosInv, Em
<1>9. \A p \in Reqs : req'[p].pc = "aprovadores" =>
        /\ SemVotos(sol'[req'[p].nova].decisao)
        /\ sol'[req'[p].nova].status # "INEXISTENTE"
  <2> TAKE p \in Reqs
  <2> HAVE req'[p].pc = "aprovadores"
  <2>1. p # r /\ req'[p] = req[p] /\ req[p].nova \in Sols
    BY <1>0, <1>4 DEF ReqCoerente
  <2>2. req[p].nova # n
    BY <1>2, <2>1 DEF VotosInv, Em, n
  <2> QED
    BY <1>3, <2>1, <2>2 DEF VotosInv, Em
<1>10. \A p, q \in Reqs :
         (req'[p].pc = "aprovadores" /\ req'[q].pc = "aprovadores" /\ p # q)
           => req'[p].nova # req'[q].nova
  BY <1>4 DEF VotosInv, Em
<1> QED
  BY <1>6, <1>7, <1>8, <1>9, <1>10 DEF VotosInv, Em

LEMMA VotosLer ==
  ASSUME TypeOK, VotosInv, NEW r \in Reqs, LerAprovador(r)
  PROVE  VotosInv'
<1> USE TypeParts
<1>1. CASE Passa(r, "gravar_decisao")
  <2>1. /\ req'[r].pc = "gravar_decisao"
        /\ req'[r].s = req[r].s
        /\ req'[r].u = req[r].u
        /\ \A p \in Reqs : p # r => req'[p] = req[p]
    BY <1>1, PassaPc
  <2>2. sol' = sol /\ Em(r, "ler_aprovador")
    BY DEF LerAprovador
  <2>3. \A p \in Reqs : req'[p].pc \in {"ler_aprovador", "gravar_decisao"} =>
          sol'[req'[p].s].decisao[req'[p].u] # "ausente"
    BY <2>1, <2>2 DEF VotosInv, Em
  <2> QED
    BY <2>1, <2>2, <2>3 DEF VotosInv, Em
<1>2. CASE Termina(r)
  BY <1>2, TerminaPc, LivreTipo, VotosNeutra DEF LerAprovador, NeutraVotos
<1> QED
  BY <1>1, <1>2 DEF LerAprovador

LEMMA VotosGravar ==
  ASSUME TypeOK, VotosInv, NEW r \in Reqs, GravarDecisao(r)
  PROVE  VotosInv'
<1> USE TypeParts
<1>0. \A p \in Reqs : req[p] \in Requisicao /\ ReqCoerente(req[p])
  BY DEF ReqOK
<1> DEFINE n == req[r].s
           u == req[r].u
           d == [sol[n].decisao EXCEPT ![u] = IF req[r].sim THEN "sim" ELSE "nao"]
<1>1. n \in Sols /\ u \in Usuarios /\ Em(r, "gravar_decisao")
  BY <1>0 DEF GravarDecisao, Em, ReqCoerente
<1>2. /\ sol[n].decisao \in [Usuarios -> Decisoes]
      /\ d \in [Usuarios -> Decisoes]
      /\ d[u] \in {"sim", "nao"}
      /\ \A v \in Usuarios : v # u => d[v] = sol[n].decisao[v]
      /\ sol[n].decisao[u] # "ausente"
  BY <1>1, Campos DEF Decisoes, VotosInv, Em
<1>3. /\ sol'[n].decisao = d
      /\ \A t \in Sols : t # n => sol'[t] = sol[t]
      /\ \A t \in Sols : sol'[t].status = sol[t].status
  <2>1. sol' = [sol EXCEPT ![n].decisao = d]
    BY DEF GravarDecisao
  <2>2. SolOK /\ d \in [Usuarios -> Decisoes]
    BY <1>2
  <2> HIDE DEF d, n
  <2> QED
    BY <1>1, <2>1, <2>2, MudaDecisao, Zenon
<1>4. /\ req'[r].pc = "recarregar"
      /\ req'[r].s = n
      /\ req'[r].u = u
      /\ \A p \in Reqs : p # r => req'[p] = req[p]
  BY DEF GravarDecisao, ReqOK, Requisicao
<1> HIDE DEF n, u, d
<1>5. \A s \in Sols : sol'[s].status = "INEXISTENTE" => SemVotos(sol'[s].decisao)
  <2>1. sol[n].status # "INEXISTENTE"
    BY <1>1, <1>2 DEF VotosInv, SemVotos
  <2> QED
    BY <1>3, <2>1 DEF VotosInv
<1>6. \A p \in Reqs : req'[p].pc \in {"ler_aprovador", "gravar_decisao"} =>
        sol'[req'[p].s].decisao[req'[p].u] # "ausente"
  <2> TAKE p \in Reqs
  <2> HAVE req'[p].pc \in {"ler_aprovador", "gravar_decisao"}
  <2>1. req'[p] = req[p] /\ req[p].s \in Sols /\ req[p].u \in Usuarios
    BY <1>0, <1>4 DEF ReqCoerente
  <2>2. sol[req[p].s].decisao[req[p].u] # "ausente"
    BY <2>1 DEF VotosInv
  <2> QED
    BY <1>2, <1>3, <2>1, <2>2
<1>7. \A p \in Reqs : req'[p].pc = "recarregar" =>
        sol'[req'[p].s].decisao[req'[p].u] \in {"sim", "nao"}
  <2> TAKE p \in Reqs
  <2> HAVE req'[p].pc = "recarregar"
  <2>1. CASE p = r
    BY <1>2, <1>3, <1>4, <2>1
  <2>2. CASE p # r
    <3>1. req'[p] = req[p] /\ req[p].s \in Sols /\ req[p].u \in Usuarios
      BY <1>0, <1>4, <2>2 DEF ReqCoerente
    <3>2. sol[req[p].s].decisao[req[p].u] \in {"sim", "nao"}
      BY <3>1 DEF VotosInv, Em
    <3> QED
      BY <1>2, <1>3, <3>1, <3>2
  <2> QED
    BY <2>1, <2>2
<1>8. \A p \in Reqs : req'[p].pc = "aprovadores" =>
        /\ SemVotos(sol'[req'[p].nova].decisao)
        /\ sol'[req'[p].nova].status # "INEXISTENTE"
  <2> TAKE p \in Reqs
  <2> HAVE req'[p].pc = "aprovadores"
  <2>1. req'[p] = req[p] /\ req[p].nova \in Sols
    BY <1>0, <1>4 DEF ReqCoerente
  <2>2. SemVotos(sol[req[p].nova].decisao)
    BY <2>1 DEF VotosInv, Em
  <2>3. req[p].nova # n
    BY <1>1, <1>2, <2>2 DEF SemVotos
  <2> QED
    BY <1>3, <2>1, <2>3 DEF VotosInv, Em
<1>9. \A p, q \in Reqs :
         (req'[p].pc = "aprovadores" /\ req'[q].pc = "aprovadores" /\ p # q)
           => req'[p].nova # req'[q].nova
  BY <1>4 DEF VotosInv, Em
<1> QED
  BY <1>5, <1>6, <1>7, <1>8, <1>9 DEF VotosInv, Em

LEMMA VotosInit == Init => VotosInv
<1> SUFFICES ASSUME Init PROVE VotosInv
  OBVIOUS
<1>1. \A s \in Sols : sol[s].decisao = [u \in Usuarios |-> "ausente"]
  BY DEF Init
<1>2. \A r \in Reqs : req[r].pc = "livre"
  BY LivreTipo DEF Init
<1> QED
  BY <1>1, <1>2 DEF VotosInv, SemVotos, Em

LEMMA VotosNext == TypeOK /\ VotosInv /\ [Next]_vars => VotosInv'
<1> SUFFICES ASSUME TypeOK, VotosInv, [Next]_vars PROVE VotosInv'
  OBVIOUS
<1>1. CASE UNCHANGED vars
  BY <1>1 DEF vars, VotosInv, SemVotos, Em
<1>2. ASSUME NEW r \in Reqs, PassoNeutro(r) PROVE VotosInv'
  BY <1>2, PassoNeutroVotos, VotosNeutra
<1>3. CASE Parar
  <2>1. /\ \A r \in Reqs : req'[r].pc = "livre"
        /\ sol' = sol
    BY <1>3, LivreTipo DEF Parar
  <2> QED
    BY <2>1 DEF VotosInv, Em
<1>4. CASE Next
  BY <1>2, <1>3, <1>4, VotosIniciar, VotosInserir, VotosCriar, VotosLer,
     VotosGravar
     DEF Next, Inicia, Continua, PassoNeutro
<1> QED
  BY <1>1, <1>4

\* What the code counts is what the strategies ask for, once somebody voted.
LEMMA DecideRespaldo ==
  ASSUME TypeOK, NEW d \in [Usuarios -> Decisoes], Decide(d) = "APROVADA",
         NEW u \in Usuarios, d[u] \in {"sim", "nao"}
  PROVE  Respaldo(d)
<1>1. /\ ~foiRejeitada(d)
      /\ podeSerAprovada(d)
  BY DEF Decide
<1>2. \A v \in Usuarios : d[v] # "nao"
  BY <1>1 DEF foiRejeitada
<1>3. u \in Favoraveis(d)
  BY <1>2 DEF Favoraveis
<1>4. /\ Cardinality(Favoraveis(d)) \in Nat
      /\ Cardinality(Aprovadores(d)) \in Nat
  <2>1. Favoraveis(d) \subseteq Usuarios /\ Aprovadores(d) \subseteq Usuarios
    BY DEF Favoraveis, Aprovadores
  <2> QED
    BY <2>1, UsuariosAssumption, FS_Subset, FS_CardinalityType
<1>5. Cardinality(Favoraveis(d)) >= calcularAprovacoesNecessarias(d)
  BY <1>1 DEF podeSerAprovada
<1>6. estrategia = "maioria" =>
        2 * Cardinality(Favoraveis(d)) >= Cardinality(Aprovadores(d))
  BY <1>4, <1>5 DEF calcularAprovacoesNecessarias
<1>7. estrategia \in {"escalonamento_setor", "autoaprovacao_perfil"} =>
        Cardinality(Favoraveis(d)) >= MinAprovadores
  BY <1>5 DEF calcularAprovacoesNecessarias
<1> QED
  BY <1>2, <1>3, <1>6, <1>7 DEF Respaldo

\* Of an unchanged row, with the same strategy, the same is said.
RespaldoCom(e, d) ==
    /\ Favoraveis(d) # {}
    /\ \A u \in Usuarios : d[u] # "nao"
    /\ e = "maioria" =>
         2 * Cardinality(Favoraveis(d)) >= Cardinality(Aprovadores(d))
    /\ e \in {"escalonamento_setor", "autoaprovacao_perfil"} =>
         Cardinality(Favoraveis(d)) >= MinAprovadores

LEMMA RespaldoIgual ==
  ASSUME estrategia' = estrategia, NEW s
  PROVE  Respaldo(sol[s].decisao)' <=> Respaldo(sol'[s].decisao)
<1>1. ASSUME NEW d PROVE Respaldo(d) <=> RespaldoCom(estrategia, d)
  BY DEF Respaldo, RespaldoCom
<1>2. Respaldo(sol[s].decisao)' <=> RespaldoCom(estrategia', sol'[s].decisao)
  BY DEF Respaldo, RespaldoCom, Favoraveis, Aprovadores
<1> QED
  BY <1>1, <1>2

\* Nobody is in favour in a row without votes.
LEMMA SemRespaldo ==
  ASSUME NEW d, \A u \in Usuarios : d[u] \in {"ausente", "nenhuma"}
  PROVE  ~Respaldo(d)
  BY DEF Respaldo, Favoraveis

\* RespaldoInv is about the rows, and about each request.
RespaldoReq(q) ==
    (\/ q.pc = "gravar_status" /\ q.novo = "APROVADA"
     \/ NaExecucao(q)) => q.s \in respaldada

RespaldoSol(s) ==
    /\ Respaldo(sol[s].decisao) => s \in respaldada
    /\ sol[s].status = "APROVADA" => s \in respaldada
    /\ execucoes[s] > 0 => s \in respaldada

LEMMA RespaldoPartes ==
  RespaldoInv <=> /\ \A s \in Sols : RespaldoSol(s)
                  /\ \A r \in Reqs : RespaldoReq(req[r])
  BY DEF RespaldoInv, RespaldoSol, RespaldoReq, ExecucaoRespaldada,
         EmAndamento, NaExecucao, Em

\* What a step must do to the rows and to the request that takes it.
LEMMA RespaldoPasso ==
  ASSUME TypeOK, RespaldoInv, NEW r \in Reqs,
         estrategia' = estrategia,
         respaldada \subseteq respaldada',
         \A p \in Reqs : p # r => req'[p] = req[p],
         (\/ req'[r].pc = "gravar_status" /\ req'[r].novo = "APROVADA"
          \/ NaExecucao(req'[r])) => req'[r].s \in respaldada',
         \A s \in Sols :
           /\ \/ sol'[s].decisao = sol[s].decisao
              \/ Respaldo(sol'[s].decisao) => s \in respaldada'
           /\ \/ sol'[s].status = sol[s].status
              \/ sol'[s].status = "APROVADA" => s \in respaldada'
           /\ execucoes'[s] = execucoes[s] \/ s \in respaldada'
  PROVE  RespaldoInv'
<1>1. \A s \in Sols : RespaldoSol(s)'
  <2> TAKE s \in Sols
  <2>1. RespaldoSol(s)
    BY RespaldoPartes
  <2>2. Respaldo(sol'[s].decisao) => s \in respaldada'
    BY <2>1 DEF RespaldoSol
  <2> QED
    BY <2>1, <2>2, RespaldoIgual DEF RespaldoSol
<1>2. \A p \in Reqs : RespaldoReq(req[p])'
  <2> TAKE p \in Reqs
  <2>1. CASE p = r
    BY <2>1 DEF RespaldoReq, NaExecucao
  <2>2. CASE p # r
    BY <2>2, RespaldoPartes DEF RespaldoReq, NaExecucao
  <2> QED
    BY <2>1, <2>2
<1> QED
  BY <1>1, <1>2 DEF RespaldoInv, RespaldoSol, RespaldoReq, ExecucaoRespaldada,
         EmAndamento, NaExecucao, Em

\* The steps that write neither rows nor observers of the execution.
LEMMA RespaldoSemEscrita ==
  ASSUME TypeOK, RespaldoInv, NEW r \in Reqs,
         UNCHANGED <<estrategia, sol, execucoes, respaldada>>,
         \A p \in Reqs : p # r => req'[p] = req[p],
         (\/ req'[r].pc = "gravar_status" /\ req'[r].novo = "APROVADA"
          \/ NaExecucao(req'[r])) => req'[r].s \in respaldada
  PROVE  RespaldoInv'
  BY RespaldoPasso

LEMMA RespaldoContinua ==
  ASSUME TypeOK, VotosInv, RespaldoInv, NEW r \in Reqs, Continua(r)
  PROVE  RespaldoInv'
<1> USE TypeParts
<1>0. /\ req[r] \in Requisicao
      /\ ReqCoerente(req[r])
      /\ RespaldoReq(req[r])
  BY RespaldoPartes DEF ReqOK
<1>a. ~NaExecucao(Livre)
  BY LivreTipo DEF NaExecucao
<1>1. CASE Inserir(r)
  <2>1. PICK n \in Sols :
          /\ sol[n].status = "INEXISTENTE"
          /\ sol' = [sol EXCEPT ![n].status = "PENDENTE",
                                ![n].solicitante = req[r].u]
          /\ req' = [req EXCEPT ![r].pc = "aprovadores", ![r].nova = n]
    BY <1>1 DEF Inserir
  <2>2. req[r].u \in Usuarios
    BY <1>0, <1>1 DEF Inserir, Em, ReqCoerente
  <2>3. /\ sol'[n].status = "PENDENTE"
        /\ \A t \in Sols : t # n => sol'[t] = sol[t]
        /\ \A t \in Sols : sol'[t].decisao = sol[t].decisao
    BY <2>1, <2>2, Insere
  <2>4. /\ req'[r].pc = "aprovadores"
        /\ req'[r].executa = req[r].executa
        /\ req'[r].s = req[r].s
        /\ \A p \in Reqs : p # r => req'[p] = req[p]
    BY <2>1 DEF ReqOK, Requisicao
  <2>5. UNCHANGED <<estrategia, execucoes, respaldada>>
    BY <1>1 DEF Inserir, observadores
  <2>6. NaExecucao(req'[r]) => req'[r].s \in respaldada
    BY <1>0, <2>4 DEF RespaldoReq, NaExecucao
  <2>7. \A s \in Sols : sol'[s].status = sol[s].status \/ sol'[s].status # "APROVADA"
    BY <2>3
  <2> QED
    BY <2>3, <2>4, <2>5, <2>6, <2>7, RespaldoPasso
<1>2. CASE SemLinhas(r)
  <2>1. NaExecucao(req'[r]) => FALSE
    BY <1>2, <1>a, DevolvePc DEF SemLinhas, NaExecucao
  <2>2. req'[r].pc # "gravar_status"
    BY <1>2, DevolvePc, LivreTipo DEF SemLinhas
  <2> QED
    BY <1>2, <2>1, <2>2, DevolvePc, RespaldoSemEscrita DEF SemLinhas, observadores
<1>3. CASE CriarAprovadores(r)
  <2>1. PICK c : sol' = [sol EXCEPT ![req[r].nova].decisao =
                   [u \in Usuarios |-> IF u \in c THEN "nenhuma" ELSE "ausente"]]
    BY <1>3 DEF CriarAprovadores
  <2> DEFINE d == [u \in Usuarios |-> IF u \in c THEN "nenhuma" ELSE "ausente"]
  <2>2. req[r].nova \in Sols
    BY <1>0, <1>3 DEF CriarAprovadores, Em, ReqCoerente
  <2>3. d \in [Usuarios -> Decisoes] /\ ~Respaldo(d)
    BY SemRespaldo DEF Decisoes
  <2>4. /\ sol'[req[r].nova].decisao = d
        /\ \A t \in Sols : t # req[r].nova => sol'[t] = sol[t]
        /\ \A t \in Sols : sol'[t].status = sol[t].status
    BY <2>1, <2>2, <2>3, MudaDecisao
  <2>5. /\ ~NaExecucao(req'[r])
        /\ req'[r].pc # "gravar_status"
        /\ \A p \in Reqs : p # r => req'[p] = req[p]
    BY <1>3, <1>a, DevolvePc, LivreTipo DEF CriarAprovadores, NaExecucao
  <2>6. UNCHANGED <<estrategia, execucoes, respaldada>>
    BY <1>3 DEF CriarAprovadores, observadores
  <2> HIDE DEF d
  <2> QED
    BY <2>3, <2>4, <2>5, <2>6, RespaldoPasso
<1>4. CASE LerAprovador(r)
  <2>1. /\ ~NaExecucao(req'[r])
        /\ req'[r].pc # "gravar_status"
        /\ \A p \in Reqs : p # r => req'[p] = req[p]
    BY <1>0, <1>4, <1>a, PassaPc, TerminaPc, LivreTipo
       DEF LerAprovador, NaExecucao, ReqCoerente, Em
  <2> QED
    BY <1>4, <2>1, RespaldoSemEscrita DEF LerAprovador, observadores
<1>5. CASE GravarDecisao(r)
  <2> DEFINE n == req[r].s
             d == [sol[n].decisao EXCEPT ![req[r].u] =
                     IF req[r].sim THEN "sim" ELSE "nao"]
  <2>1. n \in Sols
    BY <1>0, <1>5 DEF GravarDecisao, Em, ReqCoerente
  <2>2. d \in [Usuarios -> Decisoes]
    BY <2>1, Campos DEF Decisoes
  <2>3. /\ sol'[n].decisao = d
        /\ \A t \in Sols : t # n => sol'[t] = sol[t]
        /\ \A t \in Sols : sol'[t].status = sol[t].status
    <3>1. sol' = [sol EXCEPT ![n].decisao = d]
      BY <1>5 DEF GravarDecisao
    <3>2. SolOK
      OBVIOUS
    <3> HIDE DEF d, n
    <3> QED
      BY <2>1, <2>2, <3>1, <3>2, MudaDecisao, Zenon
  <2>4. /\ respaldada \subseteq respaldada'
        /\ Respaldo(d) => n \in respaldada'
        /\ UNCHANGED <<estrategia, execucoes>>
    BY <1>5 DEF GravarDecisao
  <2>5. /\ req'[r].pc = "recarregar"
        /\ req'[r].executa = req[r].executa
        /\ \A p \in Reqs : p # r => req'[p] = req[p]
    BY <1>5 DEF GravarDecisao, ReqOK, Requisicao
  <2>6. ~NaExecucao(req'[r])
    BY <1>0, <1>5, <2>5 DEF NaExecucao, ReqCoerente, GravarDecisao, Em
  <2> HIDE DEF n, d
  <2> QED
    BY <2>3, <2>4, <2>5, <2>6, RespaldoPasso
<1>6. CASE Recarregar(r)
  <2> DEFINE n == req[r].s
             novo == Decide(sol[n].decisao)
  <2>1. /\ n \in Sols
        /\ ~req[r].executa
        /\ req[r].u \in Usuarios
        /\ Em(r, "recarregar")
    BY <1>0, <1>6 DEF Recarregar, Em, ReqCoerente
  <2>2. novo = "APROVADA" => n \in respaldada
    <3>1. sol[n].decisao[req[r].u] \in {"sim", "nao"}
      BY <2>1 DEF VotosInv
    <3>2. novo = "APROVADA" => Respaldo(sol[n].decisao)
      BY <2>1, <3>1, Campos, DecideRespaldo
    <3> QED
      BY <2>1, <3>2, RespaldoPartes DEF RespaldoSol
  <2>3. CASE novo # "PENDENTE"
    <3>1. /\ req'[r].pc = "gravar_status"
          /\ req'[r].novo = novo
          /\ req'[r].s = n
          /\ req'[r].executa = req[r].executa
          /\ \A p \in Reqs : p # r => req'[p] = req[p]
      BY <1>6, <2>3 DEF Recarregar, ReqOK, Requisicao
    <3> HIDE DEF n, novo
    <3>2. ~NaExecucao(req'[r])
      BY <2>1, <3>1 DEF NaExecucao
    <3> QED
      BY <1>6, <2>2, <3>1, <3>2, RespaldoSemEscrita DEF Recarregar, observadores
  <2>4. CASE Passa(r, "chamar") /\ sol[n].status = "APROVADA"
    <3>1. n \in respaldada
      BY <2>1, <2>4, RespaldoPartes DEF RespaldoSol
    <3> QED
      BY <1>6, <2>4, <3>1, PassaPc, RespaldoSemEscrita DEF Recarregar, observadores
  <2>5. CASE Termina(r)
    BY <1>6, <1>a, <2>5, TerminaPc, LivreTipo, RespaldoSemEscrita
       DEF Recarregar, observadores
  <2> QED
    BY <1>6, <2>3, <2>4, <2>5 DEF Recarregar
<1>7. CASE GravarStatus(r)
  <2> DEFINE n == req[r].s
  <2>1. /\ n \in Sols
        /\ req[r].novo \in StatusSolicitacao
        /\ ~req[r].executa
    BY <1>0, <1>7 DEF GravarStatus, Em, ReqCoerente, StatusSolicitacao
  <2>2. /\ sol'[n].status = req[r].novo
        /\ \A t \in Sols : t # n => sol'[t] = sol[t]
        /\ \A t \in Sols : sol'[t].decisao = sol[t].decisao
    BY <1>7, <2>1, MudaStatus DEF GravarStatus
  <2>3. /\ req'[r].pc = "reler"
        /\ req'[r].executa = req[r].executa
        /\ \A p \in Reqs : p # r => req'[p] = req[p]
    BY <1>7 DEF GravarStatus, ReqOK, Requisicao
  <2>4. ~NaExecucao(req'[r])
    BY <2>1, <2>3 DEF NaExecucao
  <2>5. req[r].novo = "APROVADA" => n \in respaldada
    BY <1>0, <1>7 DEF RespaldoReq, GravarStatus, Em
  <2>6. UNCHANGED <<estrategia, execucoes, respaldada>>
    BY <1>7 DEF GravarStatus, observadores
  <2> HIDE DEF n
  <2> QED
    BY <2>2, <2>3, <2>4, <2>5, <2>6, RespaldoPasso
<1>8. CASE Reler(r)
  <2>1. CASE Passa(r, "chamar") /\ sol[req[r].s].status = "APROVADA"
    <3>1. req[r].s \in Sols
      BY <1>0, <1>8 DEF Reler, Em, ReqCoerente
    <3>2. req[r].s \in respaldada
      BY <2>1, <3>1, RespaldoPartes DEF RespaldoSol
    <3> QED
      BY <1>8, <2>1, <3>2, PassaPc, RespaldoSemEscrita DEF Reler, observadores
  <2>2. CASE Termina(r)
    BY <1>8, <1>a, <2>2, TerminaPc, LivreTipo, RespaldoSemEscrita
       DEF Reler, observadores
  <2> QED
    BY <1>8, <2>1, <2>2 DEF Reler
<1>9. CASE GravarCancelamento(r)
  <2>1. req[r].s \in Sols
    BY <1>0, <1>9 DEF GravarCancelamento, Em, ReqCoerente
  <2>2. /\ sol'[req[r].s].status = "CANCELADA"
        /\ \A t \in Sols : t # req[r].s => sol'[t] = sol[t]
        /\ \A t \in Sols : sol'[t].decisao = sol[t].decisao
    BY <1>9, <2>1, MudaStatus DEF GravarCancelamento, StatusSolicitacao
  <2>3. UNCHANGED <<estrategia, execucoes, respaldada>>
    BY <1>9 DEF GravarCancelamento, observadores
  <2>4. /\ req'[r] = Livre
        /\ \A p \in Reqs : p # r => req'[p] = req[p]
    BY <1>9, TerminaPc DEF GravarCancelamento
  <2>5. \A s \in Sols : sol'[s].status = sol[s].status \/ sol'[s].status # "APROVADA"
    BY <2>2
  <2> QED
    BY <1>a, <2>2, <2>3, <2>4, <2>5, LivreTipo, RespaldoPasso
<1>10. CASE Chamar(r)
  <2>1. req[r].s \in respaldada
    BY <1>0, <1>10 DEF Chamar, Em, RespaldoReq, NaExecucao
  <2> QED
    BY <1>10, <2>1, PassaPc, RespaldoSemEscrita DEF Chamar, observadores
<1>11. CASE Validar(r)
  <2>1. req[r].s \in respaldada
    BY <1>0, <1>11 DEF Validar, Em, RespaldoReq, NaExecucao
  <2>2. /\ req'[r].s = req[r].s
        /\ \A p \in Reqs : p # r => req'[p] = req[p]
    BY <1>11 DEF Validar, Passa, ReqOK, Requisicao
  <2> QED
    BY <1>11, <2>1, <2>2, RespaldoSemEscrita DEF Validar
<1>12. CASE Agir(r)
  <2>1. req[r].s \in respaldada
    BY <1>0, <1>12 DEF Agir, Em, RespaldoReq, NaExecucao
  <2>2. \A s \in Sols : execucoes'[s] = execucoes[s] \/ s \in respaldada
    BY <1>12, <2>1 DEF Agir, ObsOK
  <2>3. UNCHANGED <<estrategia, sol, respaldada>>
    BY <1>12 DEF Agir
  <2>4. /\ req'[r].s = req[r].s
        /\ \A p \in Reqs : p # r => req'[p] = req[p]
    BY <1>12, PassaPc DEF Agir
  <2> QED
    BY <2>1, <2>2, <2>3, <2>4, RespaldoPasso
<1>13. CASE Concluir(r)
  <2>1. req[r].s \in Sols
    BY <1>0, <1>13 DEF Concluir, Em, ReqCoerente
  <2>2. /\ sol'[req[r].s].status = "EXECUTADA"
        /\ \A t \in Sols : t # req[r].s => sol'[t] = sol[t]
        /\ \A t \in Sols : sol'[t].decisao = sol[t].decisao
    BY <1>13, <2>1, MudaStatus DEF Concluir, StatusSolicitacao
  <2>3. UNCHANGED <<estrategia, execucoes, respaldada>>
    BY <1>13 DEF Concluir, observadores
  <2>4. /\ req'[r] = Livre
        /\ \A p \in Reqs : p # r => req'[p] = req[p]
    BY <1>13, TerminaPc DEF Concluir
  <2>5. \A s \in Sols : sol'[s].status = sol[s].status \/ sol'[s].status # "APROVADA"
    BY <2>2
  <2> QED
    BY <1>a, <2>2, <2>3, <2>4, <2>5, LivreTipo, RespaldoPasso
<1>14. CASE GravarErro(r)
  <2>1. req[r].s \in Sols
    BY <1>0, <1>14 DEF GravarErro, Em, ReqCoerente
  <2>2. /\ sol'[req[r].s].status = "ERRO_EXECUCAO"
        /\ \A t \in Sols : t # req[r].s => sol'[t] = sol[t]
        /\ \A t \in Sols : sol'[t].decisao = sol[t].decisao
    BY <1>14, <2>1, MudaStatus DEF GravarErro, StatusSolicitacao
  <2>3. UNCHANGED <<estrategia, execucoes, respaldada>>
    BY <1>14 DEF GravarErro, observadores
  <2>4. /\ req'[r] = Livre
        /\ \A p \in Reqs : p # r => req'[p] = req[p]
    BY <1>14, TerminaPc DEF GravarErro
  <2>5. \A s \in Sols : sol'[s].status = sol[s].status \/ sol'[s].status # "APROVADA"
    BY <2>2
  <2> QED
    BY <1>a, <2>2, <2>3, <2>4, <2>5, LivreTipo, RespaldoPasso
<1>15. CASE AgirDireto(r)
  <2>1. UNCHANGED <<estrategia, sol, execucoes, respaldada>>
    BY <1>15 DEF AgirDireto, observadores
  <2>2. /\ req'[r] = Livre
        /\ \A p \in Reqs : p # r => req'[p] = req[p]
    BY <1>15, TerminaPc DEF AgirDireto
  <2> QED
    BY <1>a, <2>1, <2>2, LivreTipo, RespaldoSemEscrita
<1> QED
  BY <1>1, <1>2, <1>3, <1>4, <1>5, <1>6, <1>7, <1>8, <1>9, <1>10, <1>11, <1>12,
     <1>13, <1>14, <1>15 DEF Continua

LEMMA RespaldoErrar ==
  ASSUME TypeOK, RespaldoInv, NEW r \in Reqs, Errar(r)
  PROVE  RespaldoInv'
<1> USE TypeParts
<1>0. /\ req[r] \in Requisicao
      /\ ReqCoerente(req[r])
  BY DEF ReqOK
<1>1. /\ \/ req'[r].pc = "concluir" /\ req'[r].executa = FALSE
         \/ req'[r] = Livre
         \/ req'[r].pc = "gravar_erro" /\ req'[r].executa = req[r].executa
            /\ Em(r, "concluir")
      /\ \A p \in Reqs : p # r => req'[p] = req[p]
  BY PassaPc, TerminaPc, ChamadaPc DEF Errar
<1>2. ~NaExecucao(req'[r]) /\ req'[r].pc # "gravar_status"
  BY <1>0, <1>1, LivreTipo DEF NaExecucao, ReqCoerente, Em
<1>3. UNCHANGED <<estrategia, execucoes, respaldada>>
  BY DEF Errar
<1>4. \A s \in Sols :
        /\ sol'[s].decisao = sol[s].decisao
        /\ sol'[s].status = sol[s].status \/ sol'[s].status # "APROVADA"
  <2>1. CASE UNCHANGED sol
    BY <2>1
  <2>2. CASE Em(r, "concluir") /\ Status(req[r].s, "EXECUTADA")
    <3>1. req[r].s \in Sols
      BY <1>0, <2>2 DEF Em, ReqCoerente
    <3> QED
      BY <2>2, <3>1, MudaStatus DEF StatusSolicitacao
  <2> QED
    BY <2>1, <2>2 DEF Errar
<1> QED
  BY <1>1, <1>2, <1>3, <1>4, RespaldoPasso

LEMMA RespaldoInicia ==
  ASSUME TypeOK, RespaldoInv, NEW r \in Reqs, Inicia(r)
  PROVE  RespaldoInv'
<1> USE TypeParts
<1>1. /\ req'[r].executa = FALSE
      /\ \/ req'[r].pc \in {"inserir", "cancelar", "ler_aprovador"}
         \/ /\ req'[r].pc = "direta"
            /\ req'[r].s \in Sols
            /\ sol[req'[r].s].status = "APROVADA"
      /\ \A p \in Reqs : p # r => req'[p] = req[p]
  BY IniciaPc DEF Inicia
<1>2. UNCHANGED <<estrategia, sol, execucoes, respaldada>>
  BY DEF Inicia, CriarSolicitacao, IniciarVoto, IniciarCancelamento, Repetir,
         PodeDecidir, observadores
<1>3. NaExecucao(req'[r]) => req'[r].s \in respaldada
  BY <1>1, RespaldoPartes DEF NaExecucao, RespaldoSol
<1> QED
  BY <1>1, <1>2, <1>3, RespaldoSemEscrita

LEMMA RespaldoInit == Init => RespaldoInv
<1> SUFFICES ASSUME Init PROVE RespaldoInv
  OBVIOUS
<1>1. \A s \in Sols : RespaldoSol(s)
  <2> TAKE s \in Sols
  <2>1. sol[s].decisao = [u \in Usuarios |-> "ausente"]
    BY DEF Init
  <2>2. ~Respaldo(sol[s].decisao)
    BY <2>1, SemRespaldo
  <2> QED
    BY <2>2 DEF Init, RespaldoSol
<1>2. \A r \in Reqs : RespaldoReq(req[r])
  BY LivreTipo DEF Init, RespaldoReq, NaExecucao
<1> QED
  BY <1>1, <1>2, RespaldoPartes

LEMMA RespaldoNext == TypeOK /\ VotosInv /\ RespaldoInv /\ [Next]_vars => RespaldoInv'
<1> SUFFICES ASSUME TypeOK, VotosInv, RespaldoInv, [Next]_vars PROVE RespaldoInv'
  OBVIOUS
<1>1. CASE UNCHANGED vars
  <2>1. /\ \A s \in Sols : RespaldoSol(s)'
    BY <1>1, RespaldoPartes, RespaldoIgual DEF vars, RespaldoSol
  <2>2. \A r \in Reqs : RespaldoReq(req[r])'
    BY <1>1, RespaldoPartes DEF vars, RespaldoReq, NaExecucao
  <2> QED
    BY <2>1, <2>2
       DEF RespaldoInv, RespaldoSol, RespaldoReq, ExecucaoRespaldada,
         EmAndamento, NaExecucao, Em
<1>2. CASE Parar
  <2>1. /\ \A r \in Reqs : req'[r] = Livre
        /\ UNCHANGED <<estrategia, sol, execucoes, respaldada>>
    BY <1>2 DEF Parar
  <2>2. \A s \in Sols : RespaldoSol(s)'
    BY <2>1, RespaldoPartes, RespaldoIgual DEF RespaldoSol
  <2>3. \A r \in Reqs : RespaldoReq(req[r])'
    BY <2>1, LivreTipo DEF RespaldoReq, NaExecucao
  <2> QED
    BY <2>2, <2>3
       DEF RespaldoInv, RespaldoSol, RespaldoReq, ExecucaoRespaldada,
         EmAndamento, NaExecucao, Em
<1>3. CASE Next
  BY <1>2, <1>3, RespaldoInicia, RespaldoContinua, RespaldoErrar DEF Next
<1> QED
  BY <1>1, <1>3

\* Whatever overlaps and whatever fails, the action of a solicitacao is only
\* run after a moment when its votes allowed it.
THEOREM ExecucaoSempreRespaldada == Spec => []ExecucaoRespaldada
<1>1. Init => TypeOK /\ VotosInv /\ RespaldoInv
  BY InitType, VotosInit, RespaldoInit
<1>2. TypeOK /\ VotosInv /\ RespaldoInv /\ [Next]_vars
        => (TypeOK /\ VotosInv /\ RespaldoInv)'
  BY TypeNext, VotosNext, RespaldoNext
<1>3. RespaldoInv => ExecucaoRespaldada
  BY DEF RespaldoInv
<1> QED
  BY <1>1, <1>2, <1>3, PTL DEF Spec

-----------------------------------------------------------------------------
(* Without overlap, one chain of steps for each solicitacao                *)

\* Request q is deciding s, or executing it for the service.
Sobre(q, s) == q.pc \notin {"livre", "direta"} /\ q.s = s

\* What a step of a chain knows of the row and of the runs of the action.
Elo(pc, status, vezes) ==
    \/ /\ pc \in {"ler_aprovador", "gravar_decisao", "recarregar",
                  "gravar_status", "cancelar"}
       /\ status = "PENDENTE"
       /\ vezes = 0
    \/ pc = "reler" /\ status \in {"APROVADA", "REJEITADA"} /\ vezes = 0
    \/ /\ pc \in {"chamar", "validar", "inserir", "aprovadores", "agir"}
       /\ status = "APROVADA"
       /\ vezes = 0
    \/ pc = "concluir" /\ status = "APROVADA"
    \/ pc = "gravar_erro" /\ status \in {"APROVADA", "EXECUTADA"}

\* The row and the runs agree.
Sadia(status, vezes) ==
    /\ status \in {"INEXISTENTE", "PENDENTE"} => vezes = 0
    /\ vezes < 2

CadeiaInv ==
    \A s \in Sols \ sobreposta :
      /\ \A p, q \in Reqs : Sobre(req[p], s) /\ Sobre(req[q], s) => p = q
      /\ \A p \in Reqs :
           Sobre(req[p], s) => Elo(req[p].pc, sol[s].status, execucoes[s])
      /\ Sadia(sol[s].status, execucoes[s])

\* A step of r in its own chain, that leaves the others as they are.
PassoCadeia(r) ==
    /\ \A p \in Reqs : p # r => req'[p] = req[p]
    /\ sobreposta \subseteq sobreposta'
    /\ \A s \in Sols \ sobreposta :
         /\ ~Sobre(req[r], s) =>
              /\ ~Sobre(req'[r], s)
              /\ execucoes'[s] = execucoes[s]
              /\ \/ sol'[s].status = sol[s].status
                 \/ sol[s].status = "INEXISTENTE" /\ sol'[s].status = "PENDENTE"
         /\ Sobre(req[r], s) =>
              /\ Sobre(req'[r], s) =>
                   Elo(req'[r].pc, sol'[s].status, execucoes'[s])
              /\ Sadia(sol'[s].status, execucoes'[s])

LEMMA CadeiaPasso ==
  ASSUME CadeiaInv, NEW r \in Reqs, PassoCadeia(r)
  PROVE  CadeiaInv'
<1> SUFFICES ASSUME NEW s \in Sols, s \notin sobreposta'
             PROVE  /\ \A p, q \in Reqs :
                         Sobre(req'[p], s) /\ Sobre(req'[q], s) => p = q
                    /\ \A p \in Reqs : Sobre(req'[p], s) =>
                         Elo(req'[p].pc, sol'[s].status, execucoes'[s])
                    /\ Sadia(sol'[s].status, execucoes'[s])
  BY DEF CadeiaInv
<1>0. s \in Sols \ sobreposta
  BY DEF PassoCadeia
<1>1. /\ \A p, q \in Reqs : Sobre(req[p], s) /\ Sobre(req[q], s) => p = q
      /\ \A p \in Reqs :
           Sobre(req[p], s) => Elo(req[p].pc, sol[s].status, execucoes[s])
      /\ Sadia(sol[s].status, execucoes[s])
  BY <1>0 DEF CadeiaInv
<1>2. /\ \A p \in Reqs : p # r => req'[p] = req[p]
      /\ ~Sobre(req[r], s) =>
           /\ ~Sobre(req'[r], s)
           /\ execucoes'[s] = execucoes[s]
           /\ \/ sol'[s].status = sol[s].status
              \/ sol[s].status = "INEXISTENTE" /\ sol'[s].status = "PENDENTE"
      /\ Sobre(req[r], s) =>
           /\ Sobre(req'[r], s) =>
                Elo(req'[r].pc, sol'[s].status, execucoes'[s])
           /\ Sadia(sol'[s].status, execucoes'[s])
  BY <1>0 DEF PassoCadeia
<1>3. \A p \in Reqs : Sobre(req'[p], s) => Sobre(req[p], s)
  BY <1>2
<1>4. CASE Sobre(req[r], s)
  <2>1. \A p \in Reqs : Sobre(req'[p], s) => p = r
    BY <1>1, <1>3, <1>4
  <2> QED
    BY <1>2, <1>4, <2>1
<1>5. CASE ~Sobre(req[r], s)
  <2>1. CASE sol'[s].status = sol[s].status
    BY <1>1, <1>2, <1>3, <1>5, <2>1
  <2>2. CASE sol[s].status = "INEXISTENTE" /\ sol'[s].status = "PENDENTE"
    <3>1. \A p \in Reqs : ~Sobre(req[p], s)
      BY <1>1, <2>2 DEF Elo
    <3>2. Sadia(sol'[s].status, execucoes'[s])
      BY <1>1, <1>2, <1>5, <2>2 DEF Sadia
    <3> QED
      BY <1>3, <3>1, <3>2
  <2> QED
    BY <1>2, <1>5, <2>1, <2>2
<1> QED
  BY <1>4, <1>5

\* A step of r that neither creates a solicitacao nor takes one up, and writes
\* at most the status and the runs of its own.
PassoProprio(r) ==
    /\ \A p \in Reqs : p # r => req'[p] = req[p]
    /\ req'[r].pc = "livre" \/ req'[r].s = req[r].s
    /\ req[r].pc \notin {"livre", "direta"}
    /\ sobreposta' = sobreposta
    /\ \A s \in Sols : s # req[r].s => /\ sol'[s].status = sol[s].status
                                       /\ execucoes'[s] = execucoes[s]

LEMMA CadeiaProprio ==
  ASSUME TypeOK, CadeiaInv, NEW r \in Reqs, PassoProprio(r),
         (/\ req[r].s \in Sols \ sobreposta
          /\ Elo(req[r].pc, sol[req[r].s].status, execucoes[req[r].s])
          /\ Sadia(sol[req[r].s].status, execucoes[req[r].s]))
         => /\ req'[r].pc # "livre" =>
                 Elo(req'[r].pc, sol'[req[r].s].status, execucoes'[req[r].s])
            /\ Sadia(sol'[req[r].s].status, execucoes'[req[r].s])
  PROVE  CadeiaInv'
<1>1. \A s \in Sols \ sobreposta : ~Sobre(req[r], s) =>
        /\ ~Sobre(req'[r], s)
        /\ execucoes'[s] = execucoes[s]
        /\ sol'[s].status = sol[s].status
  BY DEF PassoProprio, Sobre, Em
<1>2. \A s \in Sols \ sobreposta : Sobre(req[r], s) =>
        /\ Sobre(req'[r], s) =>
             Elo(req'[r].pc, sol'[s].status, execucoes'[s])
        /\ Sadia(sol'[s].status, execucoes'[s])
  <2> TAKE s \in Sols \ sobreposta
  <2> HAVE Sobre(req[r], s)
  <2>1. s = req[r].s
    BY DEF Sobre
  <2>2. /\ Elo(req[r].pc, sol[s].status, execucoes[s])
        /\ Sadia(sol[s].status, execucoes[s])
    BY DEF CadeiaInv
  <2> QED
    BY <2>1, <2>2 DEF Sobre
<1>3. PassoCadeia(r)
  BY <1>1, <1>2 DEF PassoCadeia, PassoProprio
<1> QED
  BY <1>3, CadeiaPasso

\* A request takes up s only when it is PENDENTE; if another is deciding on
\* it, the observer notes it.
LEMMA CadeiaAssume ==
  ASSUME TypeOK, CadeiaInv, NEW r \in Reqs, NEW s \in Sols, PodeDecidir(s),
         Em(r, "livre"),
         req'[r].pc \in {"ler_aprovador", "cancelar"}, req'[r].s = s,
         \A p \in Reqs : p # r => req'[p] = req[p]
  PROVE  CadeiaInv'
<1> SUFFICES ASSUME NEW t \in Sols, t \notin sobreposta'
             PROVE  /\ \A p, q \in Reqs :
                         Sobre(req'[p], t) /\ Sobre(req'[q], t) => p = q
                    /\ \A p \in Reqs : Sobre(req'[p], t) =>
                         Elo(req'[p].pc, sol'[t].status, execucoes'[t])
                    /\ Sadia(sol'[t].status, execucoes'[t])
  BY DEF CadeiaInv
<1>1. /\ t \notin sobreposta
      /\ sol'[t].status = sol[t].status
      /\ execucoes'[t] = execucoes[t]
  BY DEF PodeDecidir
<1>2. /\ \A p, q \in Reqs : Sobre(req[p], t) /\ Sobre(req[q], t) => p = q
      /\ \A p \in Reqs :
           Sobre(req[p], t) => Elo(req[p].pc, sol[t].status, execucoes[t])
      /\ Sadia(sol[t].status, execucoes[t])
  BY <1>1 DEF CadeiaInv
<1>3. CASE t = s
  <2>1. sol[t].status = "PENDENTE" /\ ~DecidindoSobre(t)
    BY <1>3 DEF PodeDecidir
  <2>2. \A p \in Reqs : ~Sobre(req[p], t)
    BY <1>2, <2>1 DEF Sobre, Elo, DecidindoSobre, Decidindo
  <2>3. \A p \in Reqs : Sobre(req'[p], t) => p = r
    BY <2>2
  <2>4. Elo(req'[r].pc, sol'[t].status, execucoes'[t])
    BY <1>1, <1>2, <2>1 DEF Elo, Sadia
  <2> QED
    BY <1>1, <1>2, <2>3, <2>4
<1>4. CASE t # s
  <2>1. \A p \in Reqs : Sobre(req'[p], t) => p # r /\ Sobre(req[p], t)
    BY <1>4 DEF Sobre
  <2> QED
    BY <1>1, <1>2, <2>1
<1> QED
  BY <1>3, <1>4

LEMMA CadeiaInicia ==
  ASSUME TypeOK, CadeiaInv, NEW r \in Reqs, Inicia(r)
  PROVE  CadeiaInv'
<1> USE TypeParts
<1>0. \A p \in Reqs : p # r => req'[p] = req[p]
  BY IniciaPc
<1>1. CASE CriarSolicitacao(r)
  <2>1. req'[r].s = Nada /\ Em(r, "livre")
    BY <1>1, IniciaPc
  <2>2. \A s \in Sols : ~Sobre(req[r], s) /\ ~Sobre(req'[r], s)
    BY <2>1, UsuariosAssumption DEF Sobre, Em
  <2>3. PassoCadeia(r)
    BY <1>0, <1>1, <2>2 DEF PassoCadeia, CriarSolicitacao
  <2> QED
    BY <2>3, CadeiaPasso
<1>2. CASE IniciarVoto(r)
  <2>1. PICK s \in Sols : \E u \in Aprovadores(sol[s].decisao) :
          \E v \in BOOLEAN :
            /\ Comeca(r, [Livre EXCEPT !.pc = "ler_aprovador", !.u = u,
                                       !.s = s, !.sim = v])
            /\ PodeDecidir(s)
    BY <1>2 DEF IniciarVoto
  <2>2. req'[r].pc = "ler_aprovador" /\ req'[r].s = s /\ Em(r, "livre")
    BY <2>1 DEF Comeca, Livre, ReqOK
  <2> QED
    BY <1>0, <2>1, <2>2, CadeiaAssume
<1>3. CASE IniciarCancelamento(r)
  <2>1. PICK s \in Sols : \E u \in Usuarios :
          /\ Comeca(r, [Livre EXCEPT !.pc = "cancelar", !.u = u, !.s = s])
          /\ PodeDecidir(s)
    BY <1>3 DEF IniciarCancelamento
  <2>2. req'[r].pc = "cancelar" /\ req'[r].s = s /\ Em(r, "livre")
    BY <2>1 DEF Comeca, Livre, ReqOK
  <2> QED
    BY <1>0, <2>1, <2>2, CadeiaAssume
<1>4. CASE Repetir(r)
  <2>1. \A s \in Sols : ~Sobre(req[r], s) /\ ~Sobre(req'[r], s)
    BY <1>4, IniciaPc DEF Sobre, Em
  <2>2. PassoCadeia(r)
    BY <1>0, <1>4, <2>1 DEF PassoCadeia, Repetir, observadores
  <2> QED
    BY <2>2, CadeiaPasso
<1> QED
  BY <1>1, <1>2, <1>3, <1>4 DEF Inicia

\* The creation of rows of approvers, and of a solicitacao.
LEMMA CadeiaInserir ==
  ASSUME TypeOK, CadeiaInv, NEW r \in Reqs, Inserir(r)
  PROVE  CadeiaInv'
<1> USE TypeParts
<1>1. PICK n \in Sols :
        /\ sol[n].status = "INEXISTENTE"
        /\ sol' = [sol EXCEPT ![n].status = "PENDENTE",
                              ![n].solicitante = req[r].u]
        /\ req' = [req EXCEPT ![r].pc = "aprovadores", ![r].nova = n]
  BY DEF Inserir
<1>2. /\ req'[r].s = req[r].s
      /\ \A p \in Reqs : p # r => req'[p] = req[p]
  BY <1>1 DEF ReqOK, Requisicao
<1>3. \A s \in Sols : \/ sol'[s].status = sol[s].status
                      \/ /\ sol[s].status = "INEXISTENTE"
                         /\ sol'[s].status = "PENDENTE"
  BY <1>1 DEF SolOK, Solicitacao
<1>4. req[r].pc = "inserir" /\ req'[r].pc = "aprovadores"
  BY <1>1 DEF Inserir, Em, ReqOK, Requisicao
<1>5. \A s \in Sols : Sobre(req'[r], s) <=> Sobre(req[r], s)
  BY <1>2, <1>4 DEF Sobre
<1>6. UNCHANGED <<execucoes, sobreposta>>
  BY DEF Inserir, observadores
<1>7. ASSUME NEW s \in Sols \ sobreposta, Sobre(req[r], s)
      PROVE  /\ Elo(req'[r].pc, sol'[s].status, execucoes'[s])
             /\ Sadia(sol'[s].status, execucoes'[s])
  <2>1. /\ Elo("inserir", sol[s].status, execucoes[s])
        /\ Sadia(sol[s].status, execucoes[s])
    BY <1>4, <1>7 DEF CadeiaInv
  <2>2. sol'[s].status = sol[s].status
    BY <1>3, <2>1 DEF Elo
  <2> QED
    BY <1>4, <1>6, <2>1, <2>2 DEF Elo
<1>8. PassoCadeia(r)
  BY <1>2, <1>3, <1>5, <1>6, <1>7 DEF PassoCadeia
<1> QED
  BY <1>8, CadeiaPasso

LEMMA CadeiaContinua ==
  ASSUME TypeOK, CadeiaInv, NEW r \in Reqs, Continua(r)
  PROVE  CadeiaInv'
<1> USE TypeParts
<1>0. /\ req[r] \in Requisicao
      /\ ReqCoerente(req[r])
  BY DEF ReqOK
<1> USE DEF PassoProprio
<1>1. CASE Inserir(r)
  BY <1>1, CadeiaInserir
<1>2. CASE SemLinhas(r)
  BY <1>2, DevolvePc, LivreTipo, CadeiaProprio
     DEF SemLinhas, observadores, Elo, Em
<1>3. CASE CriarAprovadores(r)
  <2>1. \A s \in Sols : sol'[s].status = sol[s].status
    BY <1>3 DEF CriarAprovadores, SolOK, Solicitacao
  <2> QED
    BY <1>3, <2>1, DevolvePc, LivreTipo, CadeiaProprio
       DEF CriarAprovadores, observadores, Elo, Em
<1>4. CASE LerAprovador(r)
  <2>1. /\ req'[r].pc \in {"gravar_decisao", "livre"}
        /\ req'[r].pc = "livre" \/ req'[r].s = req[r].s
        /\ \A p \in Reqs : p # r => req'[p] = req[p]
    BY <1>4, PassaPc, TerminaPc, LivreTipo DEF LerAprovador
  <2>2. Em(r, "ler_aprovador") /\ UNCHANGED <<sol, observadores>>
    BY <1>4 DEF LerAprovador
  <2> QED
    BY <2>1, <2>2, CadeiaProprio DEF observadores, Elo, Em
<1>5. CASE GravarDecisao(r)
  <2>1. \A s \in Sols : sol'[s].status = sol[s].status
    BY <1>5 DEF GravarDecisao, SolOK, Solicitacao
  <2>2. /\ req'[r].pc = "recarregar"
        /\ req'[r].s = req[r].s
        /\ \A p \in Reqs : p # r => req'[p] = req[p]
    BY <1>5 DEF GravarDecisao, ReqOK, Requisicao
  <2> QED
    BY <1>5, <2>1, <2>2, CadeiaProprio DEF GravarDecisao, Elo, Em
<1>6. CASE Recarregar(r)
  <2>1. /\ \/ req'[r].pc \in {"gravar_status", "livre"}
           \/ req'[r].pc = "chamar" /\ sol[req[r].s].status = "APROVADA"
        /\ req'[r].pc = "livre" \/ req'[r].s = req[r].s
        /\ \A p \in Reqs : p # r => req'[p] = req[p]
    <3>1. CASE req' = [req EXCEPT ![r].pc = "gravar_status",
                                  ![r].novo = Decide(sol[req[r].s].decisao)]
      BY <3>1 DEF ReqOK, Requisicao
    <3>2. CASE sol[req[r].s].status = "APROVADA" /\ Passa(r, "chamar")
      BY <3>2, PassaPc
    <3>3. CASE Termina(r)
      BY <3>3, TerminaPc, LivreTipo
    <3> QED
      BY <1>6, <3>1, <3>2, <3>3 DEF Recarregar
  <2> QED
    BY <1>6, <2>1, CadeiaProprio DEF Recarregar, observadores, Elo, Em
<1>7. CASE GravarStatus(r)
  <2>1. /\ req[r].s \in Sols
        /\ req[r].novo \in {"APROVADA", "REJEITADA"}
    BY <1>0, <1>7 DEF GravarStatus, Em, ReqCoerente
  <2>2. /\ sol'[req[r].s].status = req[r].novo
        /\ \A t \in Sols : t # req[r].s => sol'[t] = sol[t]
    BY <1>7, <2>1, MudaStatus DEF GravarStatus, StatusSolicitacao
  <2>3. /\ req'[r].pc = "reler"
        /\ req'[r].s = req[r].s
        /\ \A p \in Reqs : p # r => req'[p] = req[p]
    BY <1>7 DEF GravarStatus, ReqOK, Requisicao
  <2> QED
    BY <1>7, <2>1, <2>2, <2>3, CadeiaProprio
       DEF GravarStatus, observadores, Elo, Sadia, Em
<1>8. CASE Reler(r)
  BY <1>8, PassaPc, TerminaPc, LivreTipo, CadeiaProprio
     DEF Reler, observadores, Elo, Em
<1>9. CASE GravarCancelamento(r)
  <2>1. req[r].s \in Sols
    BY <1>0, <1>9 DEF GravarCancelamento, Em, ReqCoerente
  <2>2. /\ sol'[req[r].s].status = "CANCELADA"
        /\ \A t \in Sols : t # req[r].s => sol'[t] = sol[t]
    BY <1>9, <2>1, MudaStatus DEF GravarCancelamento, StatusSolicitacao
  <2> QED
    BY <1>9, <2>1, <2>2, TerminaPc, LivreTipo, CadeiaProprio
       DEF GravarCancelamento, observadores, Sadia, Em
<1>10. CASE Chamar(r)
  BY <1>10, PassaPc, CadeiaProprio DEF Chamar, observadores, Elo, Em
<1>11. CASE Validar(r)
  <2>1. /\ req'[r].s = req[r].s
        /\ req'[r].pc \in {"concluir", "inserir"}
        /\ \A p \in Reqs : p # r => req'[p] = req[p]
    BY <1>11 DEF Validar, Passa, ReqOK, Requisicao
  <2> QED
    BY <1>11, <2>1, CadeiaProprio DEF Validar, Elo, Em
<1>12. CASE Agir(r)
  <2>1. req[r].s \in Sols
    BY <1>0, <1>12 DEF Agir, Em, ReqCoerente
  <2>2. /\ \A s \in Sols : s # req[r].s => execucoes'[s] = execucoes[s]
        /\ execucoes[req[r].s] = 0 => execucoes'[req[r].s] \in 0..1
    BY <1>12, <2>1 DEF Agir, ObsOK
  <2> QED
    BY <1>12, <2>1, <2>2, PassaPc, CadeiaProprio DEF Agir, Elo, Sadia, Em
<1>13. CASE Concluir(r)
  <2>1. req[r].s \in Sols
    BY <1>0, <1>13 DEF Concluir, Em, ReqCoerente
  <2>2. /\ sol'[req[r].s].status = "EXECUTADA"
        /\ \A t \in Sols : t # req[r].s => sol'[t] = sol[t]
    BY <1>13, <2>1, MudaStatus DEF Concluir, StatusSolicitacao
  <2> QED
    BY <1>13, <2>1, <2>2, TerminaPc, LivreTipo, CadeiaProprio
       DEF Concluir, observadores, Sadia, Em
<1>14. CASE GravarErro(r)
  <2>1. req[r].s \in Sols
    BY <1>0, <1>14 DEF GravarErro, Em, ReqCoerente
  <2>2. /\ sol'[req[r].s].status = "ERRO_EXECUCAO"
        /\ \A t \in Sols : t # req[r].s => sol'[t] = sol[t]
    BY <1>14, <2>1, MudaStatus DEF GravarErro, StatusSolicitacao
  <2> QED
    BY <1>14, <2>1, <2>2, TerminaPc, LivreTipo, CadeiaProprio
       DEF GravarErro, observadores, Sadia, Em
<1>15. CASE AgirDireto(r)
  <2>1. /\ req'[r] = Livre
        /\ \A p \in Reqs : p # r => req'[p] = req[p]
    BY <1>15, TerminaPc DEF AgirDireto
  <2>2. \A s \in Sols : ~Sobre(req[r], s) /\ ~Sobre(req'[r], s)
    BY <1>15, <2>1, LivreTipo DEF AgirDireto, Sobre, Em
  <2>3. PassoCadeia(r)
    BY <1>15, <2>1, <2>2 DEF PassoCadeia, AgirDireto, observadores
  <2> QED
    BY <2>3, CadeiaPasso
<1> QED
  BY <1>1, <1>2, <1>3, <1>4, <1>5, <1>6, <1>7, <1>8, <1>9, <1>10, <1>11, <1>12,
     <1>13, <1>14, <1>15 DEF Continua

LEMMA CadeiaErrar ==
  ASSUME TypeOK, CadeiaInv, NEW r \in Reqs, Errar(r)
  PROVE  CadeiaInv'
<1> USE TypeParts DEF PassoProprio
<1>0. /\ ReqCoerente(req[r])
      /\ sobreposta' = sobreposta
      /\ execucoes' = execucoes
      /\ req[r].pc \notin {"livre", "direta"}
  BY DEF ReqOK, Errar
<1>1. CASE /\ Em(r, "concluir")
           /\ Passa(r, "gravar_erro")
           /\ UNCHANGED sol \/ Status(req[r].s, "EXECUTADA")
  <2>1. req[r].s \in Sols
    BY <1>0, <1>1 DEF Em, ReqCoerente
  <2>2. /\ sol'[req[r].s].status \in {sol[req[r].s].status, "EXECUTADA"}
        /\ \A t \in Sols : t # req[r].s => sol'[t] = sol[t]
    BY <1>1, <2>1, MudaStatus DEF StatusSolicitacao
  <2> QED
    BY <1>0, <1>1, <2>1, <2>2, PassaPc, CadeiaProprio DEF Elo, Sadia, Em
<1>2. CASE /\ ~Em(r, "concluir")
           /\ NaChamada(req[r])
           /\ req' = [req EXCEPT ![r].pc = "concluir", ![r].nova = Nada,
                                 ![r].executa = FALSE]
           /\ UNCHANGED sol
  BY <1>0, <1>2, ChamadaPc, CadeiaProprio DEF Elo, NaChamada, ReqCoerente, Em
<1>3. CASE Termina(r) /\ UNCHANGED sol
  BY <1>0, <1>3, TerminaPc, LivreTipo, CadeiaProprio
<1> QED
  BY <1>1, <1>2, <1>3 DEF Errar

LEMMA CadeiaParada == ASSUME CadeiaInv, Parar PROVE CadeiaInv'
<1>1. /\ \A p \in Reqs : req'[p] = Livre
      /\ UNCHANGED <<sol, execucoes, sobreposta>>
  BY DEF Parar
<1>2. \A p \in Reqs : \A s \in Sols : ~Sobre(req'[p], s)
  BY <1>1, LivreTipo DEF Sobre
<1> QED
  BY <1>1, <1>2 DEF CadeiaInv

LEMMA CadeiaInit == Init => CadeiaInv
<1> SUFFICES ASSUME Init PROVE CadeiaInv
  OBVIOUS
<1>1. \A p \in Reqs : \A s \in Sols : ~Sobre(req[p], s)
  BY LivreTipo DEF Init, Sobre
<1>2. \A s \in Sols : Sadia(sol[s].status, execucoes[s])
  BY DEF Init, Sadia
<1> QED
  BY <1>1, <1>2 DEF CadeiaInv

LEMMA CadeiaNext == TypeOK /\ CadeiaInv /\ [Next]_vars => CadeiaInv'
<1> SUFFICES ASSUME TypeOK, CadeiaInv, [Next]_vars PROVE CadeiaInv'
  OBVIOUS
<1>1. CASE UNCHANGED vars
  BY <1>1 DEF vars, CadeiaInv
<1>2. CASE Next
  BY <1>2, CadeiaInicia, CadeiaContinua, CadeiaErrar, CadeiaParada DEF Next
<1> QED
  BY <1>1, <1>2

\* A second run of the action by the service needs two decisions that overlap:
\* no error, failed call or stop of the process repeats it.
THEOREM ServicoSempreUmaVez == Spec => []ServicoExecutaUmaVez
<1>1. Init => TypeOK /\ CadeiaInv
  BY InitType, CadeiaInit
<1>2. TypeOK /\ CadeiaInv /\ [Next]_vars => (TypeOK /\ CadeiaInv)'
  BY TypeNext, CadeiaNext
<1>3. CadeiaInv => ServicoExecutaUmaVez
  BY DEF CadeiaInv, Sadia, ServicoExecutaUmaVez
<1> QED
  BY <1>1, <1>2, <1>3, PTL DEF Spec

\* What one step does to the status of s.
Decidida(s) ==
    (/\ sol[s].status \notin {"INEXISTENTE", "PENDENTE"}
     /\ s \notin sobreposta)
    => \/ sol'[s].status = sol[s].status
       \/ /\ sol[s].status \in {"APROVADA", "EXECUTADA"}
          /\ sol'[s].status \in {"EXECUTADA", "ERRO_EXECUCAO"}

LEMMA DecididaStatus ==
  ASSUME TypeOK, CadeiaInv, NEW r \in Reqs, NEW v \in StatusSolicitacao,
         Status(req[r].s, v), req[r].s \in Sols,
         \/ Em(r, "gravar_status") \/ Em(r, "cancelar")
         \/ Em(r, "concluir") /\ v = "EXECUTADA"
         \/ Em(r, "gravar_erro") /\ v = "ERRO_EXECUCAO"
  PROVE  \A s \in Sols : Decidida(s)
<1> USE TypeParts
<1> TAKE s \in Sols
<1>1. CASE s # req[r].s
  BY <1>1, MudaStatus DEF Decidida
<1>2. CASE s = req[r].s
  <2>1. sol'[s].status = v
    BY <1>2, MudaStatus
  <2>2. s \notin sobreposta => Elo(req[r].pc, sol[s].status, execucoes[s])
    BY <1>2 DEF CadeiaInv, Sobre, Em
  <2> QED
    BY <2>1, <2>2 DEF Decidida, Elo, Em
<1> QED
  BY <1>1, <1>2

LEMMA DecididaNext ==
  TypeOK /\ CadeiaInv /\ [Next]_vars => [\A s \in Sols : Decidida(s)]_vars
<1> USE TypeParts
<1> SUFFICES ASSUME TypeOK, CadeiaInv, Next PROVE \A s \in Sols : Decidida(s)
  OBVIOUS
<1>1. CASE Parar
  BY <1>1 DEF Parar, Decidida
<1>2. ASSUME NEW r \in Reqs, Inicia(r) \/ Continua(r) \/ Errar(r)
      PROVE  \A s \in Sols : Decidida(s)
  <2>0. /\ ReqCoerente(req[r])
        /\ req[r].pc \in {"gravar_status", "cancelar", "concluir",
                          "gravar_erro"} => req[r].s \in Sols
    BY DEF ReqOK, ReqCoerente
  <2>1. CASE UNCHANGED sol
    BY <2>1 DEF Decidida
  <2>2. CASE Inserir(r)
    <3>1. \A s \in Sols : \/ sol'[s].status = sol[s].status
                          \/ sol[s].status = "INEXISTENTE"
      BY <2>2 DEF Inserir, SolOK, Solicitacao
    <3> QED
      BY <3>1 DEF Decidida
  <2>3. CASE CriarAprovadores(r)
    <3>1. \A s \in Sols : sol'[s].status = sol[s].status
      BY <2>3 DEF CriarAprovadores, SolOK, Solicitacao
    <3> QED
      BY <3>1 DEF Decidida
  <2>4. CASE GravarDecisao(r)
    <3>1. \A s \in Sols : sol'[s].status = sol[s].status
      BY <2>4 DEF GravarDecisao, SolOK, Solicitacao
    <3> QED
      BY <3>1 DEF Decidida
  <2>5. CASE GravarStatus(r)
    <3>1. req[r].novo \in StatusSolicitacao
      BY DEF ReqOK, Requisicao
    <3> QED
      BY <2>0, <2>5, <3>1, DecididaStatus DEF GravarStatus, Em
  <2>6. CASE GravarCancelamento(r)
    BY <2>0, <2>6, DecididaStatus DEF GravarCancelamento, StatusSolicitacao, Em
  <2>7. CASE Concluir(r)
    BY <2>0, <2>7, DecididaStatus DEF Concluir, StatusSolicitacao, Em
  <2>8. CASE GravarErro(r)
    BY <2>0, <2>8, DecididaStatus DEF GravarErro, StatusSolicitacao, Em
  <2>9. CASE Em(r, "concluir") /\ Status(req[r].s, "EXECUTADA")
    BY <2>0, <2>9, DecididaStatus DEF StatusSolicitacao, Em
  <2>10. \/ UNCHANGED sol
         \/ Inserir(r) \/ CriarAprovadores(r) \/ GravarDecisao(r)
         \/ GravarStatus(r) \/ GravarCancelamento(r) \/ Concluir(r)
         \/ GravarErro(r)
         \/ Em(r, "concluir") /\ Status(req[r].s, "EXECUTADA")
    BY <1>2 DEF Inicia, CriarSolicitacao, IniciarVoto, IniciarCancelamento,
                Repetir, PodeDecidir, Continua, SemLinhas, LerAprovador,
                Recarregar, Reler, Chamar, Validar, Agir, AgirDireto, Errar
  <2> QED
    BY <2>1, <2>2, <2>3, <2>4, <2>5, <2>6, <2>7, <2>8, <2>9, <2>10
<1> QED
  BY <1>1, <1>2 DEF Next

\* What is decided stays decided: without overlap, only the end of its
\* execution changes it.
THEOREM DecididaSempreFica == Spec => DecididaFica
<1>1. Init => TypeOK /\ CadeiaInv
  BY InitType, CadeiaInit
<1>2. TypeOK /\ CadeiaInv /\ [Next]_vars => (TypeOK /\ CadeiaInv)'
  BY TypeNext, CadeiaNext
<1>3. TypeOK /\ CadeiaInv /\ [Next]_vars => [\A s \in Sols : Decidida(s)]_vars
  BY DecididaNext
<1> QED
  BY <1>1, <1>2, <1>3, PTL DEF Spec, DecididaFica, Decidida

-----------------------------------------------------------------------------
(* One open solicitacao for each user                                      *)

Aberta(s) == sol[s].status \in {"PENDENTE", "APROVADA"}

\* A user who is not creating two solicitacoes at once has none open while he
\* creates one, but for those that were overwritten.
AbertaInv ==
    /\ AbertaUnica
    /\ \A r \in Reqs : (Em(r, "inserir") /\ req[r].u \notin corrida) =>
         /\ \A q \in Reqs : (Em(q, "inserir") /\ req[q].u = req[r].u) => q = r
         /\ \A s \in Sols \ sobreposta :
              Aberta(s) => sol[s].solicitante # req[r].u

\* A step that opens nothing, and takes nobody to a creation.
PassoQuieto ==
    /\ \A s \in Sols \ sobreposta' :
         /\ s \notin sobreposta
         /\ Aberta(s)' => Aberta(s)
    /\ \A s \in Sols : sol'[s].solicitante = sol[s].solicitante
    /\ corrida \subseteq corrida'
    /\ \A p \in Reqs : req'[p].pc = "inserir" => req'[p] = req[p]

LEMMA AbertaQuieto ==
  ASSUME AbertaInv, PassoQuieto
  PROVE  AbertaInv'
<1>1. AbertaUnica'
  BY DEF AbertaInv, AbertaUnica, PassoQuieto, Aberta
<1>2. ASSUME NEW r \in Reqs, req'[r].pc = "inserir", req'[r].u \notin corrida'
      PROVE  /\ \A q \in Reqs :
                  req'[q].pc = "inserir" /\ req'[q].u = req'[r].u => q = r
             /\ \A s \in Sols \ sobreposta' :
                  Aberta(s)' => sol'[s].solicitante # req'[r].u
  <2>1. req'[r] = req[r] /\ Em(r, "inserir") /\ req[r].u \notin corrida
    BY <1>2 DEF PassoQuieto, Em
  <2>2. /\ \A q \in Reqs : (Em(q, "inserir") /\ req[q].u = req[r].u) => q = r
        /\ \A s \in Sols \ sobreposta :
             Aberta(s) => sol[s].solicitante # req[r].u
    BY <2>1 DEF AbertaInv
  <2> QED
    BY <2>1, <2>2 DEF PassoQuieto, Em
<1> QED
  BY <1>1, <1>2 DEF AbertaInv, Em

\* A request of u comes to the creation: nobody of the same u is there, unless
\* the observer notes it, and u has nothing open.
LEMMA AbertaComeca ==
  ASSUME TypeOK, AbertaInv, NEW r \in Reqs, NEW u \in Usuarios,
         CriacaoConcorrente(u), ~buscarSolicitacaoPendente(u),
         req'[r].u = u, ~Em(r, "inserir"),
         \A p \in Reqs : p # r => req'[p] = req[p],
         UNCHANGED <<sol, sobreposta>>
  PROVE  AbertaInv'
<1>1. AbertaUnica'
  BY DEF AbertaInv, AbertaUnica, CriacaoConcorrente
<1>2. corrida \subseteq corrida' /\ (u \notin corrida' => ~Criando(u))
  BY DEF CriacaoConcorrente
<1>3. \A s \in Sols : Aberta(s)' => sol'[s].solicitante # u
  BY DEF buscarSolicitacaoPendente, Aberta
<1>4. ASSUME NEW p \in Reqs, req'[p].pc = "inserir", req'[p].u \notin corrida'
      PROVE  /\ \A q \in Reqs :
                  req'[q].pc = "inserir" /\ req'[q].u = req'[p].u => q = p
             /\ \A s \in Sols \ sobreposta' :
                  Aberta(s)' => sol'[s].solicitante # req'[p].u
  <2>1. CASE p = r
    BY <1>2, <1>3, <1>4, <2>1 DEF Criando, Em
  <2>2. CASE p # r
    <3>1. /\ Em(p, "inserir") /\ req[p].u \notin corrida
          /\ req'[p] = req[p]
      BY <1>2, <1>4, <2>2 DEF Em
    <3>2. /\ \A q \in Reqs : (Em(q, "inserir") /\ req[q].u = req[p].u) => q = p
          /\ \A s \in Sols \ sobreposta :
               Aberta(s) => sol[s].solicitante # req[p].u
      BY <3>1 DEF AbertaInv
    <3>3. req[p].u # u
      BY <1>2, <1>4, <3>1 DEF Criando
    <3> QED
      BY <3>1, <3>2, <3>3 DEF Em, Aberta
  <2> QED
    BY <2>1, <2>2
<1> QED
  BY <1>1, <1>4 DEF AbertaInv, Em

LEMMA AbertaInserir ==
  ASSUME TypeOK, AbertaInv, NEW r \in Reqs, Inserir(r)
  PROVE  AbertaInv'
<1> USE TypeParts
<1>1. PICK n \in Sols :
        /\ sol[n].status = "INEXISTENTE"
        /\ sol' = [sol EXCEPT ![n].status = "PENDENTE",
                              ![n].solicitante = req[r].u]
        /\ req' = [req EXCEPT ![r].pc = "aprovadores", ![r].nova = n]
  BY DEF Inserir
<1>2. /\ Em(r, "inserir")
      /\ UNCHANGED <<sobreposta, corrida>>
  BY DEF Inserir, observadores
<1>3. /\ sol'[n].solicitante = req[r].u
      /\ \A s \in Sols : s # n => sol'[s] = sol[s]
  BY <1>1 DEF SolOK, Solicitacao
<1>4. /\ req'[r].pc = "aprovadores"
      /\ \A p \in Reqs : p # r => req'[p] = req[p]
  BY <1>1 DEF ReqOK, Requisicao
<1>5. req[r].u \notin corrida =>
        /\ \A q \in Reqs : (Em(q, "inserir") /\ req[q].u = req[r].u) => q = r
        /\ \A s \in Sols \ sobreposta :
             Aberta(s) => sol[s].solicitante # req[r].u
  BY <1>2 DEF AbertaInv
<1>6. ASSUME NEW s \in Sols, NEW t \in Sols, s # t, Aberta(s)', Aberta(t)',
             sol'[s].solicitante = sol'[t].solicitante
      PROVE  \/ sol'[s].solicitante \in corrida'
             \/ s \in sobreposta'
             \/ t \in sobreposta'
  <2>1. CASE s # n /\ t # n
    BY <1>2, <1>3, <1>6, <2>1 DEF AbertaInv, AbertaUnica, Aberta
  <2>2. CASE s = n
    BY <1>2, <1>3, <1>5, <1>6, <2>2 DEF Aberta
  <2>3. CASE t = n
    BY <1>2, <1>3, <1>5, <1>6, <2>3 DEF Aberta
  <2> QED
    BY <2>1, <2>2, <2>3
<1>7. ASSUME NEW p \in Reqs, req'[p].pc = "inserir", req'[p].u \notin corrida'
      PROVE  /\ \A q \in Reqs :
                  req'[q].pc = "inserir" /\ req'[q].u = req'[p].u => q = p
             /\ \A s \in Sols \ sobreposta' :
                  Aberta(s)' => sol'[s].solicitante # req'[p].u
  <2>1. p # r /\ req'[p] = req[p] /\ Em(p, "inserir") /\ req[p].u \notin corrida
    BY <1>2, <1>4, <1>7 DEF Em
  <2>2. /\ \A q \in Reqs : (Em(q, "inserir") /\ req[q].u = req[p].u) => q = p
        /\ \A s \in Sols \ sobreposta :
             Aberta(s) => sol[s].solicitante # req[p].u
    BY <2>1 DEF AbertaInv
  <2>3. req[r].u # req[p].u
    BY <1>2, <2>1, <2>2
  <2>4. \A q \in Reqs : req'[q].pc = "inserir" => Em(q, "inserir") /\ req'[q] = req[q]
    BY <1>4 DEF Em
  <2>5. \A s \in Sols \ sobreposta' : Aberta(s)' => sol'[s].solicitante # req'[p].u
    BY <1>2, <1>3, <2>1, <2>2, <2>3 DEF Aberta
  <2> QED
    BY <2>1, <2>2, <2>4, <2>5
<1>8. AbertaUnica'
  BY <1>6 DEF AbertaUnica, Aberta
<1> QED
  BY <1>7, <1>8 DEF AbertaInv, Em

\* The writes of a status keep the solicitante, and open nothing.
LEMMA AbertaStatus ==
  ASSUME TypeOK, CadeiaInv, NEW r \in Reqs, NEW v \in StatusSolicitacao,
         Status(req[r].s, v), req[r].s \in Sols,
         v \in {"PENDENTE", "APROVADA"} => Em(r, "gravar_status")
  PROVE  /\ \A s \in Sols : sol'[s].solicitante = sol[s].solicitante
         /\ \A s \in Sols \ sobreposta : Aberta(s)' => Aberta(s)
<1> USE TypeParts
<1>1. \A s \in Sols : sol'[s].solicitante = sol[s].solicitante
  BY MudaStatus
<1>2. ASSUME NEW s \in Sols \ sobreposta, Aberta(s)'
      PROVE  Aberta(s)
  <2>1. CASE s # req[r].s
    BY <1>2, <2>1, MudaStatus DEF Aberta
  <2>2. CASE s = req[r].s
    <3>1. v \in {"PENDENTE", "APROVADA"}
      BY <1>2, <2>2, MudaStatus DEF Aberta
    <3>2. Elo(req[r].pc, sol[s].status, execucoes[s])
      BY <2>2, <3>1 DEF CadeiaInv, Sobre, Em
    <3> QED
      BY <3>1, <3>2 DEF Elo, Em, Aberta
  <2> QED
    BY <2>1, <2>2
<1> QED
  BY <1>1, <1>2

\* Only Validar takes a request in progress to a creation.
LEMMA ContinuaPc ==
  ASSUME ReqOK, NEW r \in Reqs, Continua(r) \/ Errar(r), ~Inserir(r), ~Validar(r)
  PROVE  /\ \A p \in Reqs : p # r => req'[p] = req[p]
         /\ req'[r].pc \notin {"inserir", "direta"}
<1>1. CASE SemLinhas(r) \/ CriarAprovadores(r)
  BY <1>1, DevolvePc, LivreTipo DEF SemLinhas, CriarAprovadores
<1>2. CASE \/ LerAprovador(r) \/ Reler(r) \/ GravarCancelamento(r)
           \/ Chamar(r) \/ Agir(r) \/ Concluir(r) \/ GravarErro(r)
           \/ AgirDireto(r)
  BY <1>2, PassaPc, TerminaPc, LivreTipo
     DEF LerAprovador, Reler, GravarCancelamento, Chamar, Agir, Concluir,
         GravarErro, AgirDireto
<1>3. CASE GravarDecisao(r) \/ GravarStatus(r)
  BY <1>3 DEF GravarDecisao, GravarStatus, ReqOK, Requisicao
<1>4. CASE Recarregar(r)
  <2>1. CASE req' = [req EXCEPT ![r].pc = "gravar_status",
                                ![r].novo = Decide(sol[req[r].s].decisao)]
    BY <2>1 DEF ReqOK, Requisicao
  <2>2. CASE Passa(r, "chamar") \/ Termina(r)
    BY <2>2, PassaPc, TerminaPc, LivreTipo
  <2> QED
    BY <1>4, <2>1, <2>2 DEF Recarregar
<1>5. CASE Errar(r)
  <2>1. CASE Passa(r, "gravar_erro")
    BY <2>1, PassaPc
  <2>2. CASE Termina(r)
    BY <2>2, TerminaPc, LivreTipo
  <2>3. CASE req' = [req EXCEPT ![r].pc = "concluir", ![r].nova = Nada,
                                ![r].executa = FALSE]
    BY <2>3, ChamadaPc
  <2> QED
    BY <1>5, <2>1, <2>2, <2>3 DEF Errar
<1> QED
  BY <1>1, <1>2, <1>3, <1>4, <1>5 DEF Continua

LEMMA AbertaContinua ==
  ASSUME TypeOK, CadeiaInv, AbertaInv, NEW r \in Reqs,
         Continua(r) \/ Errar(r)
  PROVE  AbertaInv'
<1> USE TypeParts
<1>0. /\ req[r] \in Requisicao
      /\ ReqCoerente(req[r])
      /\ req[r].pc \in {"gravar_status", "cancelar", "concluir",
                        "gravar_erro"} => req[r].s \in Sols
      /\ ~Em(r, "livre") => req[r].u \in Usuarios
  BY DEF ReqOK, ReqCoerente, Em
<1>1. CASE Inserir(r)
  BY <1>1, AbertaInserir
<1>2. CASE Validar(r)
  <2>1. CASE UNCHANGED corrida /\ Passa(r, "concluir")
    <3>1. PassoQuieto
      BY <1>2, <2>1, PassaPc DEF Validar, PassoQuieto, Aberta
    <3> QED
      BY <3>1, AbertaQuieto
  <2>2. CASE /\ ~buscarSolicitacaoPendente(req[r].u)
             /\ req' = [req EXCEPT ![r].pc = "inserir", ![r].executa = TRUE]
             /\ CriacaoConcorrente(req[r].u)
    <3>1. /\ req'[r].u = req[r].u
          /\ \A p \in Reqs : p # r => req'[p] = req[p]
      BY <2>2 DEF ReqOK, Requisicao
    <3> QED
      BY <1>0, <1>2, <2>2, <3>1, AbertaComeca DEF Validar, Em
  <2> QED
    BY <1>2, <2>1, <2>2 DEF Validar
<1>3. ASSUME ~Inserir(r), ~Validar(r)
      PROVE  AbertaInv'
  <2>1. UNCHANGED <<sobreposta, corrida>>
    BY <1>3 DEF Continua, SemLinhas, CriarAprovadores, LerAprovador,
       GravarDecisao, Recarregar, GravarStatus, Reler, GravarCancelamento,
       Chamar, Agir, AgirDireto, Concluir, GravarErro, Errar, observadores
  <2>2. \A p \in Reqs : req'[p].pc = "inserir" => req'[p] = req[p]
    BY <1>3, ContinuaPc
  <2>3. /\ \A s \in Sols : sol'[s].solicitante = sol[s].solicitante
        /\ \A s \in Sols \ sobreposta : Aberta(s)' => Aberta(s)
    <3>1. CASE UNCHANGED sol
      BY <3>1 DEF Aberta
    <3>2. CASE CriarAprovadores(r)
      BY <3>2 DEF CriarAprovadores, SolOK, Solicitacao, Aberta
    <3>3. CASE GravarDecisao(r)
      BY <3>3 DEF GravarDecisao, SolOK, Solicitacao, Aberta
    <3>4. CASE GravarStatus(r)
      <4>1. req[r].novo \in StatusSolicitacao
        BY <1>0 DEF Requisicao
      <4> QED
        BY <1>0, <3>4, <4>1, AbertaStatus DEF GravarStatus, Em
    <3>5. CASE GravarCancelamento(r)
      BY <1>0, <3>5, AbertaStatus
         DEF GravarCancelamento, StatusSolicitacao, Em
    <3>6. CASE Concluir(r)
      BY <1>0, <3>6, AbertaStatus DEF Concluir, StatusSolicitacao, Em
    <3>7. CASE GravarErro(r)
      BY <1>0, <3>7, AbertaStatus DEF GravarErro, StatusSolicitacao, Em
    <3>8. CASE Em(r, "concluir") /\ Status(req[r].s, "EXECUTADA")
      BY <1>0, <3>8, AbertaStatus DEF StatusSolicitacao, Em
    <3>9. \/ UNCHANGED sol
          \/ CriarAprovadores(r) \/ GravarDecisao(r)
          \/ GravarStatus(r) \/ GravarCancelamento(r) \/ Concluir(r)
          \/ GravarErro(r)
          \/ Em(r, "concluir") /\ Status(req[r].s, "EXECUTADA")
      BY <1>3 DEF Continua, SemLinhas, LerAprovador, Recarregar, Reler,
                  Chamar, Agir, AgirDireto, Errar
    <3> QED
      BY <3>1, <3>2, <3>3, <3>4, <3>5, <3>6, <3>7, <3>8, <3>9
  <2>4. PassoQuieto
    BY <2>1, <2>2, <2>3 DEF PassoQuieto
  <2> QED
    BY <2>4, AbertaQuieto
<1> QED
  BY <1>1, <1>2, <1>3

LEMMA AbertaInicia ==
  ASSUME TypeOK, AbertaInv, NEW r \in Reqs, Inicia(r)
  PROVE  AbertaInv'
<1> USE TypeParts
<1>0. /\ Em(r, "livre")
      /\ \A p \in Reqs : p # r => req'[p] = req[p]
  BY IniciaPc
<1>1. CASE CriarSolicitacao(r)
  <2>1. PICK u \in Solicitantes :
          /\ ~buscarSolicitacaoPendente(u)
          /\ Comeca(r, [Livre EXCEPT !.pc = "inserir", !.u = u])
          /\ CriacaoConcorrente(u)
    BY <1>1 DEF CriarSolicitacao
  <2>2. req'[r].u = u /\ u \in Usuarios
    BY <2>1, UsuariosAssumption DEF Comeca, Livre, ReqOK
  <2> QED
    BY <1>0, <1>1, <2>1, <2>2, AbertaComeca DEF CriarSolicitacao, Em
<1>2. CASE IniciarVoto(r) \/ IniciarCancelamento(r) \/ Repetir(r)
  <2>1. req'[r].pc # "inserir"
    BY <1>2, IniciaPc
  <2>2. UNCHANGED <<sol, corrida>> /\ sobreposta \subseteq sobreposta'
    BY <1>2 DEF IniciarVoto, IniciarCancelamento, Repetir, PodeDecidir,
                observadores
  <2>3. PassoQuieto
    BY <1>0, <2>1, <2>2 DEF PassoQuieto, Aberta
  <2> QED
    BY <2>3, AbertaQuieto
<1> QED
  BY <1>1, <1>2 DEF Inicia

LEMMA AbertaNext ==
  TypeOK /\ CadeiaInv /\ AbertaInv /\ [Next]_vars => AbertaInv'
<1> SUFFICES ASSUME TypeOK, CadeiaInv, AbertaInv, [Next]_vars PROVE AbertaInv'
  OBVIOUS
<1>1. CASE UNCHANGED vars
  BY <1>1 DEF vars, AbertaInv, AbertaUnica, Aberta, Em
<1>2. CASE Parar
  <2>1. PassoQuieto
    BY <1>2, LivreTipo DEF Parar, PassoQuieto, Aberta
  <2> QED
    BY <2>1, AbertaQuieto
<1>3. CASE Next
  BY <1>2, <1>3, AbertaInicia, AbertaContinua DEF Next
<1> QED
  BY <1>1, <1>3

LEMMA AbertaInit == Init => AbertaInv
  BY LivreTipo DEF Init, AbertaInv, AbertaUnica, Aberta, Em

\* A user has one open solicitacao for an item, unless he created two at once
\* or a decision was overwritten.
THEOREM AbertaSempreUnica == Spec => []AbertaUnica
<1>1. Init => TypeOK /\ CadeiaInv /\ AbertaInv
  BY InitType, CadeiaInit, AbertaInit
<1>2. TypeOK /\ CadeiaInv /\ AbertaInv /\ [Next]_vars
        => (TypeOK /\ CadeiaInv /\ AbertaInv)'
  BY TypeNext, CadeiaNext, AbertaNext
<1>3. AbertaInv => AbertaUnica
  BY DEF AbertaInv
<1> QED
  BY <1>1, <1>2, <1>3, PTL DEF Spec

-----------------------------------------------------------------------------
(* Why DecisaoNaoSePerde holds                                             *)

\* The votes d decide.
Decisiva(d) == Respaldo(d) \/ \E u \in Usuarios : d[u] = "nao"

\* The request q is about to write the decision of s, or is running it.
Decidira(q, s) == q.s = s /\ q.pc \in {"recarregar", "gravar_status"}
Executara(q, s) ==
    /\ q.s = s
    /\ q.pc \in {"reler", "chamar", "validar", "inserir", "aprovadores", "agir",
                 "concluir", "gravar_erro"}

\* A creation that no execution made is about no other solicitacao.
CriacaoAvulsa(q) ==
    (q.pc \in {"inserir", "aprovadores"} /\ ~q.executa) => q.s = Nada

DecisaoInv ==
    /\ DecisaoNaoSePerde
    /\ \A r \in Reqs : CriacaoAvulsa(req[r])

\* DecisaoNaoSePerde, row by row.
LEMMA DecisaoPartes ==
  DecisaoNaoSePerde <=>
    \A s \in Sols \ perdida :
      /\ sol[s].status = "PENDENTE" /\ Decisiva(sol[s].decisao)
           => \E r \in Reqs : Decidira(req[r], s)
      /\ sol[s].status = "APROVADA" => \E r \in Reqs : Executara(req[r], s)
  BY DEF DecisaoNaoSePerde, Decisiva, EmAndamento, Decidira, Executara

\* Votes that decide are counted as a decision.
LEMMA DecisivaDecide ==
  ASSUME TypeOK, NEW d \in [Usuarios -> Decisoes], Decisiva(d)
  PROVE  Decide(d) # "PENDENTE"
<1>1. CASE \E u \in Usuarios : d[u] = "nao"
  BY <1>1 DEF Decide, foiRejeitada
<1>2. CASE Respaldo(d)
  <2>1. IsFiniteSet(Favoraveis(d)) /\ IsFiniteSet(Aprovadores(d))
    <3>1. Favoraveis(d) \subseteq Usuarios /\ Aprovadores(d) \subseteq Usuarios
      BY DEF Favoraveis, Aprovadores
    <3> QED
      BY <3>1, UsuariosAssumption, FS_Subset
  <2>2. /\ Cardinality(Favoraveis(d)) \in Nat \ {0}
        /\ Cardinality(Aprovadores(d)) \in Nat
    <3>1. Favoraveis(d) # {}
      BY <1>2 DEF Respaldo
    <3> QED
      BY <2>1, <3>1, FS_CardinalityType, FS_EmptySet
  <2> DEFINE f == Cardinality(Favoraveis(d))
             a == Cardinality(Aprovadores(d))
  <2>3. /\ estrategia = "maioria" => 2 * f >= a
        /\ estrategia \in {"escalonamento_setor", "autoaprovacao_perfil"}
             => f >= MinAprovadores
    BY <1>2 DEF Respaldo
  <2>4. podeSerAprovada(d)
    <3>1. CASE estrategia = "simples"
      BY <2>2, <3>1 DEF podeSerAprovada, calcularAprovacoesNecessarias
    <3>2. CASE estrategia = "maioria"
      <4>1. 2 * f >= a
        BY <2>3, <3>2
      <4>2. calcularAprovacoesNecessarias(d) = (a + 1) \div 2
        BY <3>2 DEF calcularAprovacoesNecessarias
      <4>3. f \in Nat /\ a \in Nat
        BY <2>2
      <4> HIDE DEF f, a
      <4>4. f >= (a + 1) \div 2
        BY <4>1, <4>3
      <4> QED
        BY <4>2, <4>4 DEF podeSerAprovada, f
    <3>3. CASE estrategia \in {"escalonamento_setor", "autoaprovacao_perfil"}
      BY <2>3, <3>3 DEF podeSerAprovada, calcularAprovacoesNecessarias
    <3> QED
      BY <3>1, <3>2, <3>3, TypeParts, EstrategiasAssumption
  <2> QED
    BY <2>4 DEF Decide
<1> QED
  BY <1>1, <1>2 DEF Decisiva

LEMMA DecisivaIgual ==
  ASSUME estrategia' = estrategia, NEW s
  PROVE  Decisiva(sol[s].decisao)' <=> Decisiva(sol'[s].decisao)
  BY RespaldoIgual DEF Decisiva

\* What a step of r owes to the rows: it leaves no decisive votes without a
\* request that writes the decision, and no approval without one that runs it.
PassoDecisao(r) ==
    /\ \A p \in Reqs : p # r => req'[p] = req[p]
    /\ estrategia' = estrategia
    /\ perdida \subseteq perdida'
    /\ CriacaoAvulsa(req'[r])
    /\ \A s \in Sols \ perdida' :
         /\ sol'[s].status = "PENDENTE" /\ Decisiva(sol'[s].decisao) =>
              \/ Decidira(req'[r], s)
              \/ /\ sol[s].status = "PENDENTE"
                 /\ Decisiva(sol[s].decisao)
                 /\ ~Decidira(req[r], s)
         /\ sol'[s].status = "APROVADA" =>
              \/ Executara(req'[r], s)
              \/ sol[s].status = "APROVADA" /\ ~Executara(req[r], s)

LEMMA DecisaoPasso ==
  ASSUME DecisaoInv, NEW r \in Reqs, PassoDecisao(r)
  PROVE  DecisaoInv'
<1>1. \A p \in Reqs : CriacaoAvulsa(req'[p])
  BY DEF DecisaoInv, PassoDecisao
<1>2. ASSUME NEW s \in Sols, s \notin perdida'
      PROVE  /\ sol'[s].status = "PENDENTE" /\ Decisiva(sol[s].decisao)'
                  => \E p \in Reqs : Decidira(req'[p], s)
             /\ sol'[s].status = "APROVADA"
                  => \E p \in Reqs : Executara(req'[p], s)
  <2>0. s \in Sols \ perdida
    BY <1>2 DEF PassoDecisao
  <2>1. /\ sol[s].status = "PENDENTE" /\ Decisiva(sol[s].decisao)
             => \E p \in Reqs : Decidira(req[p], s)
        /\ sol[s].status = "APROVADA" => \E p \in Reqs : Executara(req[p], s)
    BY <2>0, DecisaoPartes DEF DecisaoInv
  <2>2. ASSUME sol'[s].status = "PENDENTE", Decisiva(sol[s].decisao)'
        PROVE  \E p \in Reqs : Decidira(req'[p], s)
    <3>1. Decisiva(sol'[s].decisao)
      BY <2>2, DecisivaIgual DEF PassoDecisao
    <3>2. CASE Decidira(req'[r], s)
      BY <3>2
    <3>3. CASE /\ sol[s].status = "PENDENTE"
               /\ Decisiva(sol[s].decisao)
               /\ ~Decidira(req[r], s)
      <4>1. PICK p \in Reqs : Decidira(req[p], s)
        BY <2>1, <3>3
      <4>2. req'[p] = req[p]
        BY <3>3, <4>1 DEF PassoDecisao
      <4> QED
        BY <4>1, <4>2
    <3> QED
      BY <1>2, <2>2, <3>1, <3>2, <3>3 DEF PassoDecisao
  <2>3. ASSUME sol'[s].status = "APROVADA"
        PROVE  \E p \in Reqs : Executara(req'[p], s)
    <3>1. CASE Executara(req'[r], s)
      BY <3>1
    <3>2. CASE sol[s].status = "APROVADA" /\ ~Executara(req[r], s)
      <4>1. PICK p \in Reqs : Executara(req[p], s)
        BY <2>1, <3>2
      <4>2. req'[p] = req[p]
        BY <3>2, <4>1 DEF PassoDecisao
      <4> QED
        BY <4>1, <4>2
    <3> QED
      BY <1>2, <2>3, <3>1, <3>2 DEF PassoDecisao
  <2> QED
    BY <2>2, <2>3
<1>3. DecisaoNaoSePerde'
  BY <1>2 DEF DecisaoNaoSePerde, Decisiva, EmAndamento, Decidira, Executara
<1> QED
  BY <1>1, <1>3 DEF DecisaoInv, CriacaoAvulsa

\* The steps that leave the rows: the request goes on with what it owes, or
\* owes nothing.
LEMMA DecisaoSemEscrita ==
  ASSUME NEW r \in Reqs,
         \A p \in Reqs : p # r => req'[p] = req[p],
         UNCHANGED <<estrategia, sol>>,
         perdida \subseteq perdida',
         CriacaoAvulsa(req'[r]),
         \A s \in Sols \ perdida' :
           /\ Decidira(req[r], s) => \/ Decidira(req'[r], s)
                                     \/ sol[s].status # "PENDENTE"
                                     \/ ~Decisiva(sol[s].decisao)
           /\ Executara(req[r], s) => \/ Executara(req'[r], s)
                                      \/ sol[s].status # "APROVADA"
  PROVE  PassoDecisao(r)
  BY DEF PassoDecisao

LEMMA DecisaoInicia ==
  ASSUME TypeOK, NEW r \in Reqs, Inicia(r)
  PROVE  PassoDecisao(r)
<1> USE TypeParts
<1>1. /\ \A p \in Reqs : p # r => req'[p] = req[p]
      /\ Em(r, "livre")
      /\ CriacaoAvulsa(req'[r])
  BY IniciaPc DEF Inicia, CriacaoAvulsa
<1>2. UNCHANGED <<estrategia, sol, perdida>>
  BY DEF Inicia, CriarSolicitacao, IniciarVoto, IniciarCancelamento, Repetir,
         PodeDecidir, observadores
<1>3. \A s \in Sols : ~Decidira(req[r], s) /\ ~Executara(req[r], s)
  BY <1>1 DEF Decidira, Executara, Em
<1> QED
  BY <1>1, <1>2, <1>3, DecisaoSemEscrita

\* What a request writes as the status of its solicitacao.
LEMMA DecisaoStatus ==
  ASSUME TypeOK, NEW r \in Reqs, NEW v \in StatusSolicitacao \ {"PENDENTE"},
         req[r].s \in Sols, Status(req[r].s, v),
         \A p \in Reqs : p # r => req'[p] = req[p],
         UNCHANGED <<estrategia, perdida>>,
         CriacaoAvulsa(req'[r]),
         v = "APROVADA" => Executara(req'[r], req[r].s)
  PROVE  PassoDecisao(r)
<1> USE TypeParts
<1>1. /\ sol'[req[r].s].status = v
      /\ \A t \in Sols : t # req[r].s => sol'[t] = sol[t]
  BY MudaStatus
<1>2. ASSUME NEW s \in Sols \ perdida'
      PROVE  /\ sol'[s].status = "PENDENTE" /\ Decisiva(sol'[s].decisao) =>
                  \/ Decidira(req'[r], s)
                  \/ /\ sol[s].status = "PENDENTE"
                     /\ Decisiva(sol[s].decisao)
                     /\ ~Decidira(req[r], s)
             /\ sol'[s].status = "APROVADA" =>
                  \/ Executara(req'[r], s)
                  \/ sol[s].status = "APROVADA" /\ ~Executara(req[r], s)
  <2>1. CASE s = req[r].s
    BY <1>1, <2>1
  <2>2. CASE s # req[r].s
    BY <1>1, <2>2 DEF Decidira, Executara
  <2> QED
    BY <2>1, <2>2
<1> QED
  BY <1>2 DEF PassoDecisao

LEMMA DecisaoDevolve ==
  ASSUME TypeOK, NEW r \in Reqs, CriacaoAvulsa(req[r]), Devolve(r),
         req[r].pc \in {"inserir", "aprovadores"}
  PROVE  /\ \A p \in Reqs : p # r => req'[p] = req[p]
         /\ CriacaoAvulsa(req'[r])
         /\ \A s \in Sols : /\ ~Decidira(req[r], s)
                            /\ Executara(req[r], s) => Executara(req'[r], s)
<1> USE TypeParts
<1>1. /\ \/ req'[r] = Livre /\ ~req[r].executa
         \/ /\ req[r].executa
            /\ req'[r].pc = "concluir"
            /\ req'[r].s = req[r].s
      /\ \A p \in Reqs : p # r => req'[p] = req[p]
  BY DevolvePc
<1>2. \A s \in Sols : s # Nada
  BY UsuariosAssumption
<1> QED
  BY <1>1, <1>2, LivreTipo DEF CriacaoAvulsa, Decidira, Executara

LEMMA DecisaoInserir ==
  ASSUME TypeOK, VotosInv, DecisaoInv, NEW r \in Reqs, Inserir(r)
  PROVE  PassoDecisao(r)
<1> USE TypeParts
<1>0. ReqCoerente(req[r]) /\ CriacaoAvulsa(req[r]) /\ Em(r, "inserir")
  BY DEF ReqOK, DecisaoInv, Inserir
<1>1. PICK n \in Sols :
        /\ sol[n].status = "INEXISTENTE"
        /\ sol' = [sol EXCEPT ![n].status = "PENDENTE",
                              ![n].solicitante = req[r].u]
        /\ req' = [req EXCEPT ![r].pc = "aprovadores", ![r].nova = n]
  BY DEF Inserir
<1>2. req[r].u \in Usuarios
  BY <1>0 DEF Em, ReqCoerente
<1>3. /\ sol'[n].status = "PENDENTE"
      /\ sol'[n].decisao = sol[n].decisao
      /\ \A t \in Sols : t # n => sol'[t] = sol[t]
  BY <1>1, <1>2, Insere
<1>4. ~Decisiva(sol[n].decisao)
  BY <1>1, SemRespaldo DEF VotosInv, SemVotos, Decisiva
<1>5. /\ req'[r].pc = "aprovadores"
      /\ req'[r].s = req[r].s
      /\ req'[r].executa = req[r].executa
      /\ \A p \in Reqs : p # r => req'[p] = req[p]
  BY <1>1 DEF ReqOK, Requisicao
<1>6. \A s \in Sols : /\ ~Decidira(req[r], s)
                      /\ Executara(req[r], s) => Executara(req'[r], s)
  BY <1>0, <1>5 DEF Decidira, Executara, Em
<1>7. CriacaoAvulsa(req'[r])
  BY <1>0, <1>5 DEF CriacaoAvulsa, Em
<1>8. UNCHANGED <<estrategia, perdida>>
  BY DEF Inserir, observadores
<1> QED
  BY <1>3, <1>4, <1>5, <1>6, <1>7, <1>8 DEF PassoDecisao

LEMMA DecisaoCriar ==
  ASSUME TypeOK, DecisaoInv, NEW r \in Reqs, CriarAprovadores(r)
  PROVE  PassoDecisao(r)
<1> USE TypeParts
<1>0. ReqCoerente(req[r]) /\ CriacaoAvulsa(req[r]) /\ Em(r, "aprovadores")
  BY DEF ReqOK, DecisaoInv, CriarAprovadores
<1>1. PICK c : sol' = [sol EXCEPT ![req[r].nova].decisao =
                 [u \in Usuarios |-> IF u \in c THEN "nenhuma" ELSE "ausente"]]
  BY DEF CriarAprovadores
<1> DEFINE d == [u \in Usuarios |-> IF u \in c THEN "nenhuma" ELSE "ausente"]
<1>2. req[r].nova \in Sols
  BY <1>0 DEF Em, ReqCoerente
<1>3. d \in [Usuarios -> Decisoes] /\ ~Decisiva(d)
  BY SemRespaldo DEF Decisoes, Decisiva
<1>4. /\ sol'[req[r].nova].decisao = d
      /\ \A t \in Sols : t # req[r].nova => sol'[t] = sol[t]
      /\ \A t \in Sols : sol'[t].status = sol[t].status
  BY <1>1, <1>2, <1>3, MudaDecisao
<1>5. /\ \A p \in Reqs : p # r => req'[p] = req[p]
      /\ CriacaoAvulsa(req'[r])
      /\ \A s \in Sols : /\ ~Decidira(req[r], s)
                         /\ Executara(req[r], s) => Executara(req'[r], s)
  BY <1>0, DecisaoDevolve DEF CriarAprovadores, Em
<1>6. UNCHANGED <<estrategia, perdida>>
  BY DEF CriarAprovadores, observadores
<1> HIDE DEF d
<1> QED
  BY <1>3, <1>4, <1>5, <1>6 DEF PassoDecisao

LEMMA DecisaoGravar ==
  ASSUME TypeOK, NEW r \in Reqs, GravarDecisao(r)
  PROVE  PassoDecisao(r)
<1> USE TypeParts
<1> DEFINE n == req[r].s
           d == [sol[n].decisao EXCEPT ![req[r].u] =
                   IF req[r].sim THEN "sim" ELSE "nao"]
<1>0. ReqCoerente(req[r]) /\ Em(r, "gravar_decisao")
  BY DEF ReqOK, GravarDecisao
<1>1. n \in Sols
  BY <1>0 DEF Em, ReqCoerente
<1>2. d \in [Usuarios -> Decisoes]
  BY <1>1, Campos DEF Decisoes
<1>3. /\ \A t \in Sols : t # n => sol'[t] = sol[t]
      /\ \A t \in Sols : sol'[t].status = sol[t].status
  <2>1. sol' = [sol EXCEPT ![n].decisao = d]
    BY DEF GravarDecisao
  <2>2. SolOK
    OBVIOUS
  <2> HIDE DEF d, n
  <2> QED
    BY <1>1, <1>2, <2>1, <2>2, MudaDecisao, Zenon
<1>4. /\ req'[r].pc = "recarregar"
      /\ req'[r].s = n
      /\ \A p \in Reqs : p # r => req'[p] = req[p]
  BY DEF GravarDecisao, ReqOK, Requisicao
<1>5. UNCHANGED <<estrategia, perdida>>
  BY DEF GravarDecisao
<1>6. \A s \in Sols : ~Decidira(req[r], s) /\ ~Executara(req[r], s)
  BY <1>0 DEF Decidira, Executara, Em
<1>7. Decidira(req'[r], n) /\ CriacaoAvulsa(req'[r])
  BY <1>4 DEF Decidira, CriacaoAvulsa
<1> HIDE DEF n, d
<1> QED
  BY <1>3, <1>4, <1>5, <1>6, <1>7 DEF PassoDecisao

LEMMA DecisaoRecarregar ==
  ASSUME TypeOK, NEW r \in Reqs, Recarregar(r)
  PROVE  PassoDecisao(r)
<1> USE TypeParts
<1> DEFINE n == req[r].s
           novo == Decide(sol[n].decisao)
<1>0. ReqCoerente(req[r]) /\ Em(r, "recarregar")
  BY DEF ReqOK, Recarregar
<1>1. n \in Sols
  BY <1>0 DEF Em, ReqCoerente
<1>2. novo = "PENDENTE" => ~Decisiva(sol[n].decisao)
  BY <1>1, Campos, DecisivaDecide
<1>3. UNCHANGED <<estrategia, sol, perdida>>
  BY DEF Recarregar, observadores
<1>4. \A s \in Sols : ~Executara(req[r], s) /\ (Decidira(req[r], s) => s = n)
  BY <1>0 DEF Executara, Decidira, Em
<1>5. CASE novo # "PENDENTE"
  <2>1. /\ req'[r].pc = "gravar_status"
        /\ req'[r].s = n
        /\ \A p \in Reqs : p # r => req'[p] = req[p]
    BY <1>5 DEF Recarregar, ReqOK, Requisicao
  <2> HIDE DEF n, novo
  <2>2. Decidira(req'[r], n) /\ CriacaoAvulsa(req'[r])
    BY <2>1 DEF Decidira, CriacaoAvulsa
  <2> QED
    BY <1>3, <1>4, <2>1, <2>2, DecisaoSemEscrita
<1>6. CASE novo = "PENDENTE"
  <2>1. /\ req'[r].pc \in {"chamar", "livre"}
        /\ \A p \in Reqs : p # r => req'[p] = req[p]
    BY <1>6, PassaPc, TerminaPc, LivreTipo DEF Recarregar
  <2> HIDE DEF n, novo
  <2>2. CriacaoAvulsa(req'[r])
    BY <2>1 DEF CriacaoAvulsa
  <2> QED
    BY <1>2, <1>3, <1>4, <1>6, <2>1, <2>2, DecisaoSemEscrita
<1> QED
  BY <1>5, <1>6

LEMMA DecisaoContinua ==
  ASSUME TypeOK, VotosInv, DecisaoInv, NEW r \in Reqs, Continua(r)
  PROVE  PassoDecisao(r)
<1> USE TypeParts
<1>0. /\ ReqCoerente(req[r])
      /\ CriacaoAvulsa(req[r])
  BY DEF ReqOK, DecisaoInv
<1>1. CASE Inserir(r)
  BY <1>1, DecisaoInserir
<1>2. CASE SemLinhas(r)
  <2>1. /\ \A p \in Reqs : p # r => req'[p] = req[p]
        /\ CriacaoAvulsa(req'[r])
        /\ \A s \in Sols : /\ ~Decidira(req[r], s)
                           /\ Executara(req[r], s) => Executara(req'[r], s)
    BY <1>0, <1>2, DecisaoDevolve DEF SemLinhas, Em
  <2> QED
    BY <1>2, <2>1, DecisaoSemEscrita DEF SemLinhas, observadores
<1>3. CASE CriarAprovadores(r)
  BY <1>3, DecisaoCriar
<1>4. CASE LerAprovador(r)
  <2>1. /\ \A p \in Reqs : p # r => req'[p] = req[p]
        /\ req'[r].pc \in {"gravar_decisao", "livre"}
    BY <1>4, PassaPc, TerminaPc, LivreTipo DEF LerAprovador
  <2>2. CriacaoAvulsa(req'[r])
    BY <2>1 DEF CriacaoAvulsa
  <2>3. \A s \in Sols : ~Decidira(req[r], s) /\ ~Executara(req[r], s)
    BY <1>4 DEF LerAprovador, Em, Decidira, Executara
  <2> QED
    BY <1>4, <2>1, <2>2, <2>3, DecisaoSemEscrita DEF LerAprovador, observadores
<1>5. CASE GravarDecisao(r)
  BY <1>5, DecisaoGravar
<1>6. CASE Recarregar(r)
  BY <1>6, DecisaoRecarregar
<1>7. CASE GravarStatus(r)
  <2>1. /\ req[r].s \in Sols
        /\ req[r].novo \in StatusSolicitacao \ {"PENDENTE"}
    BY <1>0, <1>7 DEF GravarStatus, Em, ReqCoerente, StatusSolicitacao
  <2>2. /\ req'[r].pc = "reler"
        /\ req'[r].s = req[r].s
        /\ \A p \in Reqs : p # r => req'[p] = req[p]
    BY <1>7 DEF GravarStatus, ReqOK, Requisicao
  <2>3. Executara(req'[r], req[r].s) /\ CriacaoAvulsa(req'[r])
    BY <2>2 DEF Executara, CriacaoAvulsa
  <2>4. Status(req[r].s, req[r].novo) /\ UNCHANGED <<estrategia, perdida>>
    BY <1>7 DEF GravarStatus, observadores
  <2> QED
    BY <2>1, <2>2, <2>3, <2>4, DecisaoStatus
<1>8. CASE Reler(r)
  <2>1. Em(r, "reler") /\ UNCHANGED <<estrategia, sol, perdida>>
    BY <1>8 DEF Reler, observadores
  <2>2. /\ \A p \in Reqs : p # r => req'[p] = req[p]
        /\ \/ req'[r].pc = "chamar" /\ req'[r].s = req[r].s
           \/ req'[r].pc = "livre" /\ sol[req[r].s].status # "APROVADA"
    BY <1>8, PassaPc, TerminaPc, LivreTipo DEF Reler
  <2>3. CriacaoAvulsa(req'[r])
    BY <2>2 DEF CriacaoAvulsa
  <2>4. \A s \in Sols :
          /\ ~Decidira(req[r], s)
          /\ Executara(req[r], s) => \/ Executara(req'[r], s)
                                     \/ sol[s].status # "APROVADA"
    BY <2>1, <2>2 DEF Em, Decidira, Executara
  <2> QED
    BY <2>1, <2>2, <2>3, <2>4, DecisaoSemEscrita
<1>9. CASE GravarCancelamento(r)
  <2>1. req[r].s \in Sols
    BY <1>0, <1>9 DEF GravarCancelamento, Em, ReqCoerente
  <2>2. /\ req'[r] = Livre
        /\ \A p \in Reqs : p # r => req'[p] = req[p]
    BY <1>9, TerminaPc DEF GravarCancelamento
  <2>3. CriacaoAvulsa(req'[r])
    BY <2>2, LivreTipo DEF CriacaoAvulsa
  <2>4. Status(req[r].s, "CANCELADA") /\ UNCHANGED <<estrategia, perdida>>
    BY <1>9 DEF GravarCancelamento, observadores
  <2> QED
    BY <2>1, <2>2, <2>3, <2>4, DecisaoStatus DEF StatusSolicitacao
<1>10. CASE Chamar(r) \/ Agir(r)
  <2>1. /\ req[r].pc \in {"chamar", "agir"}
        /\ UNCHANGED <<estrategia, sol, perdida>>
    BY <1>10 DEF Chamar, Agir, Em, observadores
  <2>2. /\ \A p \in Reqs : p # r => req'[p] = req[p]
        /\ req'[r].pc \in {"agir", "validar", "concluir"}
        /\ req'[r].s = req[r].s
    BY <1>10, PassaPc DEF Chamar, Agir
  <2>3. CriacaoAvulsa(req'[r])
    BY <2>2 DEF CriacaoAvulsa
  <2>4. \A s \in Sols : /\ ~Decidira(req[r], s)
                        /\ Executara(req[r], s) => Executara(req'[r], s)
    BY <2>1, <2>2 DEF Decidira, Executara
  <2> QED
    BY <2>1, <2>2, <2>3, <2>4, DecisaoSemEscrita
<1>11. CASE Validar(r)
  <2>1. Em(r, "validar") /\ UNCHANGED <<estrategia, sol, perdida>>
    BY <1>11 DEF Validar
  <2>2. /\ \A p \in Reqs : p # r => req'[p] = req[p]
        /\ \/ req'[r].pc = "concluir"
           \/ req'[r].pc = "inserir" /\ req'[r].executa
        /\ req'[r].s = req[r].s
    BY <1>11 DEF Validar, Passa, ReqOK, Requisicao
  <2>3. CriacaoAvulsa(req'[r])
    BY <2>2 DEF CriacaoAvulsa
  <2>4. \A s \in Sols : /\ ~Decidira(req[r], s)
                        /\ Executara(req[r], s) => Executara(req'[r], s)
    BY <2>1, <2>2 DEF Em, Decidira, Executara
  <2> QED
    BY <2>1, <2>2, <2>3, <2>4, DecisaoSemEscrita
<1>12. CASE Concluir(r) \/ GravarErro(r)
  <2>1. req[r].s \in Sols
    BY <1>0, <1>12 DEF Concluir, GravarErro, Em, ReqCoerente
  <2>2. /\ req'[r] = Livre
        /\ \A p \in Reqs : p # r => req'[p] = req[p]
    BY <1>12, TerminaPc DEF Concluir, GravarErro
  <2>3. CriacaoAvulsa(req'[r])
    BY <2>2, LivreTipo DEF CriacaoAvulsa
  <2>4. /\ UNCHANGED <<estrategia, perdida>>
        /\ \E v \in {"EXECUTADA", "ERRO_EXECUCAO"} : Status(req[r].s, v)
    BY <1>12 DEF Concluir, GravarErro, observadores
  <2> QED
    BY <2>1, <2>2, <2>3, <2>4, DecisaoStatus DEF StatusSolicitacao
<1>13. CASE AgirDireto(r)
  <2>1. /\ req'[r] = Livre
        /\ \A p \in Reqs : p # r => req'[p] = req[p]
    BY <1>13, TerminaPc DEF AgirDireto
  <2>2. CriacaoAvulsa(req'[r])
    BY <2>1, LivreTipo DEF CriacaoAvulsa
  <2>3. \A s \in Sols : ~Decidira(req[r], s) /\ ~Executara(req[r], s)
    BY <1>13 DEF AgirDireto, Em, Decidira, Executara
  <2> QED
    BY <1>13, <2>1, <2>2, <2>3, DecisaoSemEscrita DEF AgirDireto, observadores
<1> QED
  BY <1>1, <1>2, <1>3, <1>4, <1>5, <1>6, <1>7, <1>8, <1>9, <1>10, <1>11, <1>12,
     <1>13 DEF Continua

\* What a request that stops owed to an open solicitacao is noted as lost.
LEMMA DeviaPerde ==
  ASSUME NEW q, NEW s \in Sols, ReqCoerente(q), CriacaoAvulsa(q),
         sol[s].status \in {"PENDENTE", "APROVADA"},
         Decidira(q, s) \/ Executara(q, s)
  PROVE  s \in Perde(q)
<1>1. s # Nada
  BY UsuariosAssumption
<1> QED
  BY <1>1 DEF Perde, Decidira, Executara, CriacaoAvulsa

LEMMA DecisaoErrar ==
  ASSUME TypeOK, DecisaoInv, NEW r \in Reqs, Errar(r)
  PROVE  PassoDecisao(r)
<1> USE TypeParts
<1>0. /\ ReqCoerente(req[r])
      /\ CriacaoAvulsa(req[r])
      /\ estrategia' = estrategia
  BY DEF ReqOK, DecisaoInv, Errar
<1>1. CASE /\ Em(r, "concluir")
           /\ Passa(r, "gravar_erro")
           /\ UNCHANGED sol \/ Status(req[r].s, "EXECUTADA")
           /\ UNCHANGED perdida
  <2>1. req[r].s \in Sols
    BY <1>0, <1>1 DEF Em, ReqCoerente
  <2>2. /\ req'[r].pc = "gravar_erro"
        /\ req'[r].s = req[r].s
        /\ \A p \in Reqs : p # r => req'[p] = req[p]
    BY <1>1, PassaPc
  <2>3. CriacaoAvulsa(req'[r])
    BY <2>2 DEF CriacaoAvulsa
  <2>4. CASE UNCHANGED sol
    <3>1. \A s \in Sols : /\ ~Decidira(req[r], s)
                          /\ Executara(req[r], s) => Executara(req'[r], s)
      BY <1>1, <2>2 DEF Em, Decidira, Executara
    <3> QED
      BY <1>0, <1>1, <2>2, <2>3, <2>4, <3>1, DecisaoSemEscrita
  <2>5. CASE Status(req[r].s, "EXECUTADA")
    BY <1>0, <1>1, <2>1, <2>2, <2>3, <2>5, DecisaoStatus DEF StatusSolicitacao
  <2> QED
    BY <1>1, <2>4, <2>5
<1>2. CASE /\ NaChamada(req[r])
           /\ req' = [req EXCEPT ![r].pc = "concluir", ![r].nova = Nada,
                                 ![r].executa = FALSE]
           /\ UNCHANGED <<sol, perdida>>
  <2>1. /\ req'[r].pc = "concluir"
        /\ req'[r].s = req[r].s
        /\ \A p \in Reqs : p # r => req'[p] = req[p]
    BY <1>2, ChamadaPc
  <2>2. CriacaoAvulsa(req'[r])
    BY <2>1 DEF CriacaoAvulsa
  <2>3. \A s \in Sols : /\ ~Decidira(req[r], s)
                        /\ Executara(req[r], s) => Executara(req'[r], s)
    BY <1>0, <1>2, <2>1 DEF NaChamada, ReqCoerente, Decidira, Executara
  <2> QED
    BY <1>0, <1>2, <2>1, <2>2, <2>3, DecisaoSemEscrita
<1>3. CASE Termina(r) /\ perdida' = perdida \cup Perde(req[r]) /\ UNCHANGED sol
  <2>1. /\ req'[r] = Livre
        /\ \A p \in Reqs : p # r => req'[p] = req[p]
    BY <1>3, TerminaPc
  <2>2. CriacaoAvulsa(req'[r])
    BY <2>1, LivreTipo DEF CriacaoAvulsa
  <2>3. \A s \in Sols \ perdida' :
          Decidira(req[r], s) \/ Executara(req[r], s)
            => sol[s].status \notin {"PENDENTE", "APROVADA"}
    BY <1>0, <1>3, DeviaPerde
  <2> QED
    BY <1>0, <1>3, <2>1, <2>2, <2>3, DecisaoSemEscrita
<1> QED
  BY <1>1, <1>2, <1>3 DEF Errar

LEMMA DecisaoParar ==
  ASSUME TypeOK, DecisaoInv, Parar
  PROVE  DecisaoInv'
<1> USE TypeParts
<1>1. /\ \A r \in Reqs : req'[r] = Livre
      /\ perdida' = perdida \cup UNION {Perde(req[r]) : r \in Reqs}
      /\ UNCHANGED <<estrategia, sol>>
  BY DEF Parar
<1>2. \A r \in Reqs : CriacaoAvulsa(req'[r])
  BY <1>1, LivreTipo DEF CriacaoAvulsa
<1>3. \A r \in Reqs : ReqCoerente(req[r]) /\ CriacaoAvulsa(req[r])
  BY DEF ReqOK, DecisaoInv
<1>4. ASSUME NEW s \in Sols, s \notin perdida'
      PROVE  /\ ~(sol'[s].status = "PENDENTE" /\ Decisiva(sol[s].decisao)')
             /\ sol'[s].status # "APROVADA"
  <2>1. \A r \in Reqs : s \notin Perde(req[r])
    BY <1>1, <1>4
  <2>2. sol[s].status \in {"PENDENTE", "APROVADA"} =>
          \A r \in Reqs : ~Decidira(req[r], s) /\ ~Executara(req[r], s)
    BY <1>3, <1>4, <2>1, DeviaPerde
  <2>3. s \in Sols \ perdida
    BY <1>1, <1>4
  <2>4. /\ ~(sol[s].status = "PENDENTE" /\ Decisiva(sol[s].decisao))
        /\ sol[s].status # "APROVADA"
    BY <2>2, <2>3, DecisaoPartes DEF DecisaoInv
  <2> QED
    BY <1>1, <2>4, DecisivaIgual
<1>5. DecisaoNaoSePerde'
  BY <1>4 DEF DecisaoNaoSePerde, Decisiva
<1> QED
  BY <1>2, <1>5 DEF DecisaoInv, CriacaoAvulsa

LEMMA DecisaoInit == Init => DecisaoInv
<1> SUFFICES ASSUME Init PROVE DecisaoInv
  OBVIOUS
<1>1. \A s \in Sols : sol[s].status = "INEXISTENTE"
  BY DEF Init
<1>2. \A r \in Reqs : req[r].pc = "livre"
  BY LivreTipo DEF Init
<1> QED
  BY <1>1, <1>2 DEF DecisaoInv, DecisaoNaoSePerde, CriacaoAvulsa

LEMMA DecisaoNext ==
  TypeOK /\ VotosInv /\ DecisaoInv /\ [Next]_vars => DecisaoInv'
<1> SUFFICES ASSUME TypeOK, VotosInv, DecisaoInv, [Next]_vars PROVE DecisaoInv'
  OBVIOUS
<1>1. CASE UNCHANGED vars
  BY <1>1 DEF vars, DecisaoInv, DecisaoNaoSePerde, CriacaoAvulsa, EmAndamento,
              Respaldo, Favoraveis, Aprovadores
<1>2. CASE Parar
  BY <1>2, DecisaoParar
<1>3. CASE \E r \in Reqs : Inicia(r) \/ Continua(r) \/ Errar(r)
  BY <1>3, DecisaoInicia, DecisaoContinua, DecisaoErrar, DecisaoPasso
<1> QED
  BY <1>1, <1>2, <1>3 DEF Next

\* No vote is lost between voters that count at the same time: votes that
\* decide an open solicitacao have a request about to write the decision, and
\* an approval has one running it, unless the request that owed it stopped.
THEOREM DecisaoNuncaSePerde == Spec => []DecisaoNaoSePerde
<1>1. Init => TypeOK /\ VotosInv /\ DecisaoInv
  BY InitType, VotosInit, DecisaoInit
<1>2. TypeOK /\ VotosInv /\ DecisaoInv /\ [Next]_vars
        => (TypeOK /\ VotosInv /\ DecisaoInv)'
  BY TypeNext, VotosNext, DecisaoNext
<1>3. DecisaoInv => DecisaoNaoSePerde
  BY DEF DecisaoInv
<1> QED
  BY <1>1, <1>2, <1>3, PTL DEF Spec

-----------------------------------------------------------------------------
(* AprovacaoAcao implements DecisaoUnica, step by step                     *)

\* The safety part of DU!DecisaoSpec.
ImplementaSeguranca == DU!DecisaoInit /\ [][DU!DecisaoNext]_(DU!abstratas)

SemSobreposicao == ~Sobrepoe /\ sobreposta = {}

LEMMA SobreposicaoNext == SemSobreposicao /\ [Next]_vars => SemSobreposicao'
<1> SUFFICES ASSUME SemSobreposicao, [Next]_vars PROVE SemSobreposicao'
  OBVIOUS
<1>1. CASE UNCHANGED vars
  BY <1>1 DEF vars, SemSobreposicao
<1>2. CASE Parar
  BY <1>2 DEF Parar, SemSobreposicao
<1>3. ASSUME NEW r \in Reqs, Inicia(r)
      PROVE  SemSobreposicao'
  BY <1>3 DEF SemSobreposicao, Inicia, CriarSolicitacao, IniciarVoto,
              IniciarCancelamento, Repetir, PodeDecidir, observadores
<1>4. ASSUME NEW r \in Reqs, Continua(r)
      PROVE  SemSobreposicao'
  BY <1>4 DEF SemSobreposicao, Continua, Inserir, SemLinhas, CriarAprovadores,
     LerAprovador, GravarDecisao, Recarregar, GravarStatus, Reler,
     GravarCancelamento, Chamar, Validar, Agir, Concluir, GravarErro,
     AgirDireto, observadores
<1>5. ASSUME NEW r \in Reqs, Errar(r)
      PROVE  SemSobreposicao'
  BY <1>5 DEF SemSobreposicao, Errar
<1> QED
  BY <1>1, <1>2, <1>3, <1>4, <1>5 DEF Next

\* What DecisaoUnica sees of the calls of clients.
Repetidas == {s \in Sols : EmAndamento(s, {"direta"})}

LEMMA RepetidasIguais ==
  ASSUME NEW r \in Reqs, \A p \in Reqs : p # r => req'[p] = req[p],
         req[r].pc # "direta", req'[r].pc # "direta"
  PROVE  Repetidas' = Repetidas
  BY DEF Repetidas, EmAndamento

\* Only Repetir begins such a call, and only AgirDireto and Parar end one.
LEMMA RepetidasPasso ==
  ASSUME TypeOK, NEW r \in Reqs, Inicia(r) \/ Continua(r) \/ Errar(r),
         ~Repetir(r), ~AgirDireto(r)
  PROVE  Repetidas' = Repetidas
<1> USE TypeParts
<1>1. CASE Inicia(r)
  <2>1. PICK q \in {"inserir", "ler_aprovador", "cancelar"} :
          /\ Em(r, "livre")
          /\ req'[r].pc = q
          /\ \A p \in Reqs : p # r => req'[p] = req[p]
    BY <1>1 DEF Inicia, CriarSolicitacao, IniciarVoto, IniciarCancelamento,
                Comeca, Livre, ReqOK
  <2> QED
    BY <2>1, RepetidasIguais DEF Em
<1>2. CASE Inserir(r) \/ Validar(r)
  <2>1. /\ req[r].pc \in {"inserir", "validar"}
        /\ req'[r].pc \in {"aprovadores", "concluir", "inserir"}
        /\ \A p \in Reqs : p # r => req'[p] = req[p]
    BY <1>2 DEF Inserir, Validar, Passa, Em, ReqOK, Requisicao
  <2> QED
    BY <2>1, RepetidasIguais
<1>3. CASE (Continua(r) \/ Errar(r)) /\ ~Inserir(r) /\ ~Validar(r)
  <2>1. /\ req'[r].pc # "direta"
        /\ \A p \in Reqs : p # r => req'[p] = req[p]
    BY <1>3, ContinuaPc
  <2>2. req[r].pc # "direta"
    BY <1>3 DEF Continua, SemLinhas, CriarAprovadores, LerAprovador,
       GravarDecisao, Recarregar, GravarStatus, Reler, GravarCancelamento,
       Chamar, Agir, Concluir, GravarErro, Errar, Em
  <2> QED
    BY <2>1, <2>2, RepetidasIguais
<1> QED
  BY <1>1, <1>2, <1>3

\* A step that changes the status of one row is a step of its decision.
LEMMA MapaPassa ==
  ASSUME NEW n \in Sols, NEW de, NEW para, Repetidas' = Repetidas,
         sol[n].status = de, sol'[n].status = para, execucoes' = execucoes,
         \A t \in Sols : t # n => sol'[t].status = sol[t].status
  PROVE  DU!Passa(n, Abstrata[de], Abstrata[para])
  BY DEF DU!Passa, Repetidas, EmAndamento

\* One that changes no decision and no count of runs is a stutter.
LEMMA MapaPara ==
  ASSUME execucoes' = execucoes, Repetidas' = Repetidas,
         \A t \in Sols : Abstrata[sol'[t].status] = Abstrata[sol[t].status]
  PROVE  UNCHANGED DU!abstratas
  BY DEF DU!abstratas, Repetidas, EmAndamento

\* The calls of clients that are being served change.
LEMMA MapaRepetir ==
  ASSUME NEW n \in Sols, sol' = sol, execucoes' = execucoes,
         sol[n].status = "APROVADA", Repetidas' = Repetidas \cup {n}
  PROVE  DU!DecisaoNext
<1>1. DU!Repetir(n)
  BY DEF DU!Repetir, Repetidas, EmAndamento, Abstrata
<1> QED
  BY <1>1 DEF DU!DecisaoNext

LEMMA MapaTerminar ==
  ASSUME sol' = sol, execucoes' = execucoes, Repetidas' \subseteq Repetidas
  PROVE  DU!DecisaoNext
<1>1. DU!Terminar
  BY DEF DU!Terminar, Repetidas, EmAndamento
<1> QED
  BY <1>1 DEF DU!DecisaoNext

LEMMA MapaNext ==
  ASSUME NEW n \in Sols,
         \/ DU!Passa(n, "inexistente", "aberta")
         \/ \E d \in {"aprovada", "rejeitada", "cancelada"} :
              DU!Passa(n, "aberta", d)
         \/ DU!Executar(n)
         \/ DU!Passa(n, "aprovada", "encerrada")
  PROVE  DU!DecisaoNext
  BY DEF DU!DecisaoNext, DU!Abrir, DU!Decidir, DU!Encerrar

\* What the step of a request that works on n writes as its status.
LEMMA MapaStatus ==
  ASSUME TypeOK, CadeiaInv, NEW r \in Reqs, NEW v \in StatusSolicitacao,
         req[r].s \in Sols \ sobreposta, Status(req[r].s, v),
         execucoes' = execucoes, Repetidas' = Repetidas,
         \/ Em(r, "gravar_status") /\ v \in {"APROVADA", "REJEITADA"}
         \/ Em(r, "cancelar") /\ v = "CANCELADA"
         \/ Em(r, "concluir") /\ v = "EXECUTADA"
         \/ Em(r, "gravar_erro") /\ v = "ERRO_EXECUCAO"
  PROVE  DU!DecisaoNext \/ UNCHANGED DU!abstratas
<1> USE TypeParts
<1> DEFINE n == req[r].s
<1>1. /\ n \in Sols
      /\ sol'[n].status = v
      /\ \A t \in Sols : t # n => sol'[t].status = sol[t].status
  BY MudaStatus
<1>2. Elo(req[r].pc, sol[n].status, execucoes[n])
  BY DEF CadeiaInv, Sobre, Em
<1>3. DU!Passa(n, Abstrata[sol[n].status], Abstrata[v])
  BY <1>1, MapaPassa
<1> HIDE DEF n
<1>4. CASE Em(r, "gravar_status") \/ Em(r, "cancelar")
  <2>1. sol[n].status = "PENDENTE"
    BY <1>2, <1>4 DEF Elo, Em
  <2>2. \E d \in {"aprovada", "rejeitada", "cancelada"} : DU!Passa(n, "aberta", d)
    BY <1>3, <1>4, <2>1 DEF Abstrata, Em
  <2> QED
    BY <1>1, <2>2, MapaNext
<1>5. CASE /\ Em(r, "concluir") \/ Em(r, "gravar_erro")
           /\ sol[n].status = "APROVADA"
  <2>1. DU!Passa(n, "aprovada", "encerrada")
    BY <1>3, <1>5 DEF Abstrata, Em
  <2> QED
    BY <1>1, <2>1, MapaNext
<1>6. CASE Em(r, "gravar_erro") /\ sol[n].status = "EXECUTADA"
  <2>1. \A t \in Sols : Abstrata[sol'[t].status] = Abstrata[sol[t].status]
    BY <1>1, <1>6 DEF Abstrata, Em
  <2> QED
    BY <2>1, MapaPara
<1> QED
  BY <1>2, <1>4, <1>5, <1>6 DEF Elo, Em

LEMMA MapaAgir ==
  ASSUME TypeOK, CadeiaInv, NEW r \in Reqs, req[r].s \in Sols \ sobreposta,
         Agir(r), Repetidas' = Repetidas
  PROVE  DU!DecisaoNext \/ UNCHANGED DU!abstratas
<1> USE TypeParts
<1> DEFINE n == req[r].s
<1>1. sol[n].status = "APROVADA" /\ execucoes[n] = 0
  BY DEF CadeiaInv, Sobre, Elo, Agir, Em
<1>2. sol' = sol
  BY DEF Agir
<1>3. CASE execucoes' = execucoes
  BY <1>2, <1>3, MapaPara
<1>4. CASE execucoes' = [execucoes EXCEPT ![n] = IF @ = 2 THEN 2 ELSE @ + 1]
  <2>1. execucoes' = [execucoes EXCEPT ![n] = 1]
    BY <1>1, <1>4 DEF ObsOK
  <2>2. DU!Executar(n)
    BY <1>1, <1>2, <2>1 DEF DU!Executar, Abstrata, Repetidas, EmAndamento
  <2> QED
    BY <2>2, MapaNext
<1> QED
  BY <1>3, <1>4 DEF Agir

LEMMA MapaPasso ==
  ASSUME TypeOK, CadeiaInv, SemSobreposicao, Next
  PROVE  DU!DecisaoNext \/ UNCHANGED DU!abstratas
<1> USE TypeParts
<1>1. CASE Parar
  <2>1. \A r \in Reqs : req'[r].pc = "livre"
    BY <1>1, LivreTipo DEF Parar
  <2>2. Repetidas' = {}
    BY <2>1 DEF Repetidas, EmAndamento
  <2> QED
    BY <1>1, <2>2, MapaTerminar DEF Parar
<1>2. ASSUME NEW r \in Reqs, AgirDireto(r)
      PROVE  DU!DecisaoNext
  <2>1. \A p \in Reqs : req'[p].pc = "direta" => req'[p] = req[p]
    BY <1>2, LivreTipo DEF AgirDireto, Termina, ReqOK
  <2>2. Repetidas' \subseteq Repetidas
    BY <2>1 DEF Repetidas, EmAndamento
  <2> QED
    BY <1>2, <2>2, MapaTerminar DEF AgirDireto, observadores
<1>3. ASSUME NEW r \in Reqs, Repetir(r)
      PROVE  DU!DecisaoNext
  <2>1. PICK u \in Solicitantes, n \in Sols :
          /\ sol[n].status = "APROVADA"
          /\ Em(r, "livre")
          /\ req' = [req EXCEPT ![r] = [Livre EXCEPT !.pc = "direta",
                                                    !.u = u, !.s = n]]
    BY <1>3 DEF Repetir, Comeca
  <2>2. /\ req'[r].pc = "direta" /\ req'[r].s = n
        /\ \A p \in Reqs : p # r => req'[p] = req[p]
    BY <2>1 DEF Livre, ReqOK
  <2>3. Repetidas' = Repetidas \cup {n}
    BY <2>1, <2>2 DEF Repetidas, EmAndamento, Em
  <2> QED
    BY <1>3, <2>1, <2>3, MapaRepetir DEF Repetir, observadores
<1>4. ASSUME NEW r \in Reqs, Inicia(r) \/ Continua(r) \/ Errar(r),
             ~Repetir(r), ~AgirDireto(r)
      PROVE  DU!DecisaoNext \/ UNCHANGED DU!abstratas
  <2> Repetidas' = Repetidas
    BY <1>4, RepetidasPasso
  <2>0. /\ ReqCoerente(req[r])
        /\ req[r].pc \in {"gravar_status", "cancelar", "agir", "concluir",
                          "gravar_erro"} => req[r].s \in Sols \ sobreposta
    BY DEF ReqOK, ReqCoerente, SemSobreposicao
  <2>1. CASE UNCHANGED <<sol, execucoes>>
    BY <2>1, MapaPara
  <2>2. CASE Inserir(r)
    <3>1. PICK n \in Sols :
            /\ sol[n].status = "INEXISTENTE"
            /\ sol' = [sol EXCEPT ![n].status = "PENDENTE",
                                  ![n].solicitante = req[r].u]
      BY <2>2 DEF Inserir
    <3>2. /\ sol'[n].status = "PENDENTE"
          /\ \A t \in Sols : t # n => sol'[t].status = sol[t].status
      BY <3>1 DEF SolOK, Solicitacao
    <3>3. execucoes' = execucoes
      BY <2>2 DEF Inserir, observadores
    <3>4. DU!Passa(n, Abstrata["INEXISTENTE"], Abstrata["PENDENTE"])
      BY <3>1, <3>2, <3>3, MapaPassa
    <3>5. DU!Passa(n, "inexistente", "aberta")
      BY <3>4 DEF Abstrata
    <3> QED
      BY <3>5, MapaNext
  <2>3. CASE CriarAprovadores(r)
    <3>1. \A s \in Sols : sol'[s].status = sol[s].status
      BY <2>3 DEF CriarAprovadores, SolOK, Solicitacao
    <3> QED
      BY <2>3, <3>1, MapaPara DEF CriarAprovadores, observadores
  <2>4. CASE GravarDecisao(r)
    <3>1. \A s \in Sols : sol'[s].status = sol[s].status
      BY <2>4 DEF GravarDecisao, SolOK, Solicitacao
    <3> QED
      BY <2>4, <3>1, MapaPara DEF GravarDecisao
  <2>5. CASE GravarStatus(r)
    <3>1. req[r].novo \in {"APROVADA", "REJEITADA"}
      BY <2>0, <2>5 DEF GravarStatus, Em, ReqCoerente
    <3>2. /\ Em(r, "gravar_status")
          /\ Status(req[r].s, req[r].novo)
          /\ execucoes' = execucoes
      BY <2>5 DEF GravarStatus, observadores
    <3> QED
      BY <2>0, <3>1, <3>2, MapaStatus DEF StatusSolicitacao, Em
  <2>6. CASE GravarCancelamento(r)
    BY <2>0, <2>6, MapaStatus
       DEF GravarCancelamento, StatusSolicitacao, observadores, Em
  <2>7. CASE Agir(r)
    BY <2>0, <2>7, MapaAgir DEF Agir, Em
  <2>8. CASE Concluir(r)
    BY <2>0, <2>8, MapaStatus DEF Concluir, StatusSolicitacao, observadores, Em
  <2>9. CASE GravarErro(r)
    BY <2>0, <2>9, MapaStatus DEF GravarErro, StatusSolicitacao, observadores, Em
  <2>10. CASE /\ Em(r, "concluir")
              /\ Status(req[r].s, "EXECUTADA")
              /\ execucoes' = execucoes
    BY <2>0, <2>10, MapaStatus DEF StatusSolicitacao, Em
  <2>11. CASE Errar(r)
    <3>1. execucoes' = execucoes
      BY <2>11 DEF Errar
    <3>2. sol' = sol \/ (Em(r, "concluir") /\ Status(req[r].s, "EXECUTADA"))
      BY <2>11 DEF Errar
    <3> QED
      BY <2>1, <2>10, <3>1, <3>2
  <2>12. CASE Inicia(r)
    BY <1>4, <2>1, <2>12 DEF Inicia, CriarSolicitacao, IniciarVoto,
                       IniciarCancelamento, PodeDecidir
  <2>13. CASE \/ SemLinhas(r) \/ LerAprovador(r) \/ Recarregar(r) \/ Reler(r)
              \/ Chamar(r) \/ Validar(r)
    BY <2>1, <2>13 DEF SemLinhas, LerAprovador, Recarregar, Reler, Chamar,
                       Validar, observadores
  <2> QED
    BY <1>4, <2>2, <2>3, <2>4, <2>5, <2>6, <2>7, <2>8, <2>9, <2>11, <2>12, <2>13
       DEF Continua
<1> QED
  BY <1>1, <1>2, <1>3, <1>4 DEF Next

\* When decisions about one solicitacao do not overlap, whatever fails: each is
\* opened once and decided once, the service runs its action at most once, and
\* the service and the calls of clients that name it begin to run it only
\* while it is approved. Every step is one of DecisaoUnica, or stutters.
THEOREM DecisaoUnicaSegura == ~Sobrepoe => (Spec => ImplementaSeguranca)
<1> SUFFICES ASSUME ~Sobrepoe
             PROVE  Spec => ImplementaSeguranca
  OBVIOUS
<1>1. Init => TypeOK /\ CadeiaInv /\ SemSobreposicao
  BY InitType, CadeiaInit DEF Init, SemSobreposicao
<1>2. TypeOK /\ CadeiaInv /\ SemSobreposicao /\ [Next]_vars
        => (TypeOK /\ CadeiaInv /\ SemSobreposicao)'
  BY TypeNext, CadeiaNext, SobreposicaoNext
<1>3. Init => DU!DecisaoInit
  BY LivreTipo DEF Init, DU!DecisaoInit, Abstrata, EmAndamento
<1>4. TypeOK /\ CadeiaInv /\ SemSobreposicao /\ [Next]_vars
        => [DU!DecisaoNext]_(DU!abstratas)
  <2>1. UNCHANGED vars => UNCHANGED DU!abstratas
    BY DEF vars, DU!abstratas, EmAndamento
  <2> QED
    BY <2>1, MapaPasso
<1> QED
  BY <1>1, <1>2, <1>3, <1>4, PTL DEF Spec, ImplementaSeguranca

\* ExecutadaAprovada in the variables of AprovacaoAcao.
Promessa ==
  \A s \in Sols :
    /\ execucoes[s] \in {0, 1}
    /\ (execucoes[s] = 1 \/ s \in Repetidas)
         => Abstrata[sol[s].status] \in {"aprovada", "encerrada"}

LEMMA PromessaDe == /\ DU!ExecutadaAprovada <=> Promessa
                    /\ DU!ExecutadaAprovada' <=> Promessa'
  BY DEF DU!ExecutadaAprovada, Promessa, Repetidas, EmAndamento

\* DecisaoUnica keeps ExecutadaAprovada, step by step.
LEMMA PromessaPassa ==
  ASSUME DU!ExecutadaAprovada, NEW n \in Sols, NEW de, NEW para,
         DU!Passa(n, de, para),
         de \in {"aprovada", "encerrada"} => para \in {"aprovada", "encerrada"}
  PROVE  DU!ExecutadaAprovada'
<1>1. execucoes' = execucoes /\ Repetidas' = Repetidas
  BY DEF DU!Passa, Repetidas, EmAndamento
<1>2. /\ Abstrata[sol[n].status] = de
      /\ Abstrata[sol'[n].status] = para
      /\ \A s \in Sols : s # n =>
           Abstrata[sol'[s].status] = Abstrata[sol[s].status]
  BY DEF DU!Passa
<1> QED
  BY <1>1, <1>2, PromessaDe DEF Promessa

LEMMA PromessaExecutar ==
  ASSUME ObsOK, DU!ExecutadaAprovada, NEW n \in Sols, DU!Executar(n)
  PROVE  DU!ExecutadaAprovada'
<1>1. \A s \in Sols : execucoes'[s] = IF s = n THEN 1 ELSE execucoes[s]
  BY DEF DU!Executar, ObsOK
<1>2. Repetidas' = Repetidas
  BY DEF DU!Executar, Repetidas, EmAndamento
<1>3. /\ Abstrata[sol[n].status] = "aprovada"
      /\ \A s \in Sols : Abstrata[sol'[s].status] = Abstrata[sol[s].status]
  BY DEF DU!Executar
<1> QED
  BY <1>1, <1>2, <1>3, PromessaDe DEF Promessa

LEMMA PromessaRepetir ==
  ASSUME DU!ExecutadaAprovada, NEW n \in Sols, DU!Repetir(n)
  PROVE  DU!ExecutadaAprovada'
<1>1. execucoes' = execucoes /\ Repetidas' = Repetidas \cup {n}
  BY DEF DU!Repetir, Repetidas, EmAndamento
<1>2. /\ Abstrata[sol[n].status] = "aprovada"
      /\ \A s \in Sols : Abstrata[sol'[s].status] = Abstrata[sol[s].status]
  BY DEF DU!Repetir
<1> QED
  BY <1>1, <1>2, PromessaDe DEF Promessa

\* A step that keeps decisions and counts, and starts no call of a client.
LEMMA PromessaFica ==
  ASSUME DU!ExecutadaAprovada, DU!Terminar \/ UNCHANGED DU!abstratas
  PROVE  DU!ExecutadaAprovada'
<1>1. execucoes' = execucoes /\ Repetidas' \subseteq Repetidas
  BY DEF DU!Terminar, DU!abstratas, Repetidas, EmAndamento
<1>2. \A s \in Sols : Abstrata[sol'[s].status] = Abstrata[sol[s].status]
  BY DEF DU!Terminar, DU!abstratas
<1> QED
  BY <1>1, <1>2, PromessaDe DEF Promessa

LEMMA PromessaPasso ==
  ASSUME ObsOK, DU!ExecutadaAprovada,
         DU!DecisaoNext \/ UNCHANGED DU!abstratas
  PROVE  DU!ExecutadaAprovada'
<1>1. CASE DU!Terminar \/ UNCHANGED DU!abstratas
  BY <1>1, PromessaFica
<1>2. CASE DU!DecisaoNext /\ ~DU!Terminar
  <2>1. PICK n \in Sols :
          \/ DU!Passa(n, "inexistente", "aberta")
          \/ \E d \in {"aprovada", "rejeitada", "cancelada"} :
               DU!Passa(n, "aberta", d)
          \/ DU!Executar(n)
          \/ DU!Repetir(n)
          \/ DU!Passa(n, "aprovada", "encerrada")
    BY <1>2 DEF DU!DecisaoNext, DU!Abrir, DU!Decidir, DU!Encerrar
  <2> QED
    BY <2>1, PromessaPassa, PromessaExecutar, PromessaRepetir
<1> QED
  BY <1>1, <1>2

\* What the refinement buys: when decisions about one solicitacao do not
\* overlap, whatever fails, the service ran the action of a solicitacao at most
\* once, and a solicitacao whose action the service ran or the call of a client
\* is running was approved, and neither rejected nor cancelled since.
THEOREM ExecutadaFoiAprovada ==
  ~Sobrepoe => (Spec => []DU!ExecutadaAprovada)
<1> SUFFICES ASSUME ~Sobrepoe
             PROVE  Spec => []DU!ExecutadaAprovada
  OBVIOUS
<1> DEFINE Inv == TypeOK /\ CadeiaInv /\ SemSobreposicao
<1>1. Init => Inv
  BY InitType, CadeiaInit DEF Init, SemSobreposicao
<1>2. Inv /\ [Next]_vars => Inv'
  BY TypeNext, CadeiaNext, SobreposicaoNext
<1>3. Init => DU!ExecutadaAprovada
  BY LivreTipo DEF Init, DU!ExecutadaAprovada, EmAndamento
<1>4. Inv /\ DU!ExecutadaAprovada /\ [Next]_vars => DU!ExecutadaAprovada'
  <2>1. UNCHANGED vars => UNCHANGED DU!abstratas
    BY DEF vars, DU!abstratas, EmAndamento
  <2> QED
    BY <2>1, MapaPasso, PromessaPasso, TypeParts
<1> QED
  BY <1>1, <1>2, <1>3, <1>4, PTL DEF Spec

=============================================================================
