---------------------- MODULE PagamentoCalendario_proofs ----------------------
(***************************************************************************)
(* Proofs about PagamentoCalendario.                                       *)
(***************************************************************************)
EXTENDS PagamentoCalendario, WellFoundedInduction, TLAPS

-----------------------------------------------------------------------------
(* The first row of a list                                                 *)

Antes == OpToRel(<, Nat)

LEMMA AntesDef ==
  ASSUME NEW x \in Nat, NEW y \in Nat, y < x
  PROVE  <<y, x>> \in Antes
<1>1. <<y, x>> \in Nat \X Nat /\ <<y, x>>[1] < <<y, x>>[2]
  OBVIOUS
<1> QED
  BY <1>1 DEF Antes, OpToRel

LEMMA MinEm ==
  ASSUME NEW S, S \subseteq Nat, S # {}
  PROVE  Min(S) \in S
<1>1. IsWellFoundedOn(Antes, Nat)
  BY NatLessThanWellFounded DEF Antes
<1>2. PICK x \in S : \A y \in S : ~ (<<y, x>> \in Antes)
  BY <1>1, WFMin
<1>3. ASSUME NEW y \in S
      PROVE  x =< y
  <2>1. x \in Nat /\ y \in Nat
    OBVIOUS
  <2>2. ~(y < x)
    BY <1>2, <2>1, AntesDef
  <2> QED
    BY <2>1, <2>2
<1> QED
  BY <1>3 DEF Min

LEMMA ProximaEm ==
  ASSUME TypeOK, NEW v \in Sweeps, varre[v].fila # {}
  PROVE  Proxima(v) \in varre[v].fila /\ Proxima(v) \in Parcelas
<1>1. varre[v].fila \subseteq Parcelas
  BY DEF TypeOK, Varredura
<1>2. Parcelas \subseteq Nat
  BY CalendarioAssumption DEF Parcelas
<1> QED
  BY <1>1, <1>2, MinEm DEF Proxima

-----------------------------------------------------------------------------
(* Type correctness                                                        *)

LEMMA InicialTipo ==
  ASSUME NEW p \in Parcelas
  PROVE  LinhaInicial(p) \in Linha /\ LinhaInicial(p).status = "PENDENTE"
<1>1. p - 1 \in Nat /\ Intervalo \in Nat /\ Prazo \in Nat
  BY CalendarioAssumption DEF Parcelas
<1>2. (p - 1) * Intervalo \in Nat
  BY <1>1
<1>3. (p - 1) * Intervalo + Prazo \in Nat
  BY <1>1, <1>2
<1> QED
  BY <1>2, <1>3 DEF LinhaInicial, Linha, Datas, Status

LEMMA LinhaTipo ==
  ASSUME NEW l \in Linha, NEW s \in Status, NEW d \in Nat
  PROVE  /\ [l EXCEPT !.status = s] \in Linha
         /\ [l EXCEPT !.status = s, !.liberacao = d] \in Linha
         /\ [l EXCEPT !.status = s, !.vencimento = d] \in Linha
  BY DEF Linha, Datas

\* The copy that a request keeps.
LEMMA LeituraTipo ==
  ASSUME req \in [Reqs -> Requisicao], NEW r \in Reqs, NEW l \in Linha,
         req' = [req EXCEPT ![r].pc = "salvar", ![r].linha = l]
  PROVE  req' \in [Reqs -> Requisicao]
<1>1. [req[r] EXCEPT !.pc = "salvar", !.linha = l] \in Requisicao
  BY DEF Requisicao
<1> QED
  BY <1>1

LEMMA DiasNat == Dias \subseteq Nat
  BY CalendarioAssumption DEF Dias

LEMMA LivreTipo ==
  /\ ReqLivre \in Requisicao
  /\ VarreLivre \in Varredura
  /\ VarreLivre.pc = "livre" /\ VarreLivre.fila = {}
<1>1. 1 \in Parcelas /\ 0 \in Dias
  BY CalendarioAssumption DEF Parcelas, Dias
<1>2. LinhaInicial(1) \in Linha
  BY <1>1, InicialTipo
<1> QED
  BY <1>1, <1>2 DEF ReqLivre, Requisicao, VarreLivre, Varredura, Status

\* What TypeOK asks of the sweeps.
VarreOK ==
    /\ varre \in [Sweeps -> Varredura]
    /\ \A v \in Sweeps : varre[v].pc \in {"laco", "salvar"}
                           <=> varre[v].fila # {}

LEMMA ContinuaTipo ==
  ASSUME VarreOK, NEW v \in Sweeps, NEW fila \in SUBSET Parcelas,
         Continua(v, fila)
  PROVE  VarreOK' /\ varre'[v].fila = fila
<1> DEFINE x == IF fila = {} THEN VarreLivre
                ELSE [VarreLivre EXCEPT !.pc = "laco", !.fila = fila]
<1>1. /\ x \in Varredura /\ x.fila = fila
      /\ x.pc \in {"laco", "salvar"} <=> x.fila # {}
  BY LivreTipo DEF VarreLivre, Varredura
<1>2. varre' = [varre EXCEPT ![v] = x]
  BY DEF Continua
<1> HIDE DEF x
<1> QED
  BY <1>1, <1>2 DEF VarreOK

LEMMA ComecaTipo ==
  ASSUME TypeOK, NEW r \in Reqs, NEW p \in Parcelas, NEW para \in Status,
         NEW datar \in BOOLEAN, NEW data \in Dias,
         Comeca(r, p, para, datar, data)
  PROVE  req' \in [Reqs -> Requisicao]
  BY LivreTipo DEF Comeca, TypeOK, Requisicao, ReqLivre

LEMMA TypeInit == Init => TypeOK
<1> SUFFICES ASSUME Init PROVE TypeOK
  OBVIOUS
<1>1. parcelas \in [Parcelas -> Linha]
  BY InicialTipo DEF Init
<1>2. req \in [Reqs -> Requisicao] /\ varre \in [Sweeps -> Varredura]
  BY LivreTipo DEF Init
<1>3. \A v \in Sweeps : varre[v].pc = "livre" /\ varre[v].fila = {}
  BY LivreTipo DEF Init
<1>4. dia \in Dias /\ falhas \in 0 .. MaxFalhas
  BY CalendarioAssumption DEF Init, Dias
<1> QED
  BY <1>1, <1>2, <1>3, <1>4 DEF Init, TypeOK

LEMMA TypeStep ==
  ASSUME TypeOK, [Next]_vars
  PROVE  TypeOK'
<1> USE CalendarioAssumption DEF TypeOK, relogio
<1>0. VarreOK
  BY DEF VarreOK
<1>1. CASE Anoitecer
  BY <1>1 DEF Anoitecer, Dias
<1>2. CASE OitoHoras
  <2>1. [VarreLivre EXCEPT !.pc = "listar"] \in Varredura
    BY LivreTipo DEF Varredura
  <2>2. VarreOK'
    BY <1>0, <1>2, <2>1, LivreTipo DEF OitoHoras, VarreOK, Varredura
  <2>3. perdidas' \in SUBSET Parcelas
    BY <1>2 DEF OitoHoras, AgendadasHoje
  <2> QED
    BY <1>2, <2>2, <2>3 DEF OitoHoras, VarreOK
<1>3. CASE Parar
  <2>1. AFazer \subseteq Parcelas
    BY DEF AFazer, AgendadasHoje, Varredura, Sweeps
  <2>2. VarreOK'
    BY <1>3, LivreTipo DEF Parar, VarreOK
  <2>3. req' \in [Reqs -> Requisicao]
    BY <1>3, LivreTipo DEF Parar
  <2>4. falhas' \in 0 .. MaxFalhas /\ perdidas' \in SUBSET Parcelas
    BY <1>3, <2>1 DEF Parar, Cai
  <2> QED
    BY <1>3, <2>2, <2>3, <2>4 DEF Parar, VarreOK
<1>4. CASE Subir
  BY <1>4 DEF Subir
<1>5. ASSUME NEW r \in Reqs, IniciarLiberacao(r)
      PROVE  TypeOK'
  <2>1. PICK p \in Parcelas, d \in Dias : Comeca(r, p, StatusDaData(d), TRUE, d)
    BY <1>5 DEF IniciarLiberacao
  <2>2. StatusDaData(d) \in Status
    BY DEF StatusDaData, Status
  <2>3. req' \in [Reqs -> Requisicao]
    BY <2>1, <2>2, ComecaTipo
  <2> QED
    BY <1>5, <2>3 DEF IniciarLiberacao, SoReq
<1>6. ASSUME NEW r \in Reqs, IniciarCancelamento(r)
      PROVE  TypeOK'
  <2>1. req' \in [Reqs -> Requisicao]
    BY <1>6, ComecaTipo DEF IniciarCancelamento, Status
  <2> QED
    BY <1>6, <2>1 DEF IniciarCancelamento, SoReq
<1>7. ASSUME NEW r \in Reqs, IniciarStatus(r)
      PROVE  TypeOK'
  <2>1. req' \in [Reqs -> Requisicao]
    BY <1>7, ComecaTipo, AlvosDoCalendario DEF IniciarStatus
  <2> QED
    BY <1>7, <2>1 DEF IniciarStatus, SoReq
<1>8. ASSUME NEW r \in Reqs, Ler(r)
      PROVE  TypeOK'
  <2> DEFINE l == [parcelas[req[r].p] EXCEPT
                     !.status = req[r].para,
                     !.liberacao = IF req[r].datar THEN req[r].data ELSE @]
  <2>1. l \in Linha
    <3>1. /\ parcelas[req[r].p] \in Linha
          /\ req[r].para \in Status /\ req[r].data \in Nat
      BY DiasNat DEF Requisicao
    <3>2. parcelas[req[r].p].liberacao \in Nat
      BY <3>1 DEF Linha, Datas
    <3>3. CASE req[r].datar
      <4>1. l = [parcelas[req[r].p] EXCEPT !.status = req[r].para,
                                           !.liberacao = req[r].data]
        BY <3>1, <3>3
      <4> QED
        BY <3>1, <4>1, LinhaTipo, Zenon
    <3>4. CASE ~req[r].datar
      <4>1. l = [parcelas[req[r].p] EXCEPT !.status = req[r].para,
                   !.liberacao = parcelas[req[r].p].liberacao]
        BY <3>1, <3>4
      <4> QED
        BY <3>1, <3>2, <4>1, LinhaTipo, Zenon
    <3> QED
      BY <3>3, <3>4
  <2>2. req' = [req EXCEPT ![r].pc = "salvar", ![r].linha = l]
    BY <1>8 DEF Ler
  <2> HIDE DEF l
  <2>3. req' \in [Reqs -> Requisicao]
    <3>1. req \in [Reqs -> Requisicao]
      OBVIOUS
    <3> QED
      BY <2>1, <2>2, <3>1, LeituraTipo, Zenon
  <2> QED
    BY <1>8, <2>3 DEF Ler, SoReq
<1>9. ASSUME NEW r \in Reqs, Salvar(r)
      PROVE  TypeOK'
  <2>1. req[r].p \in Parcelas /\ req[r].linha \in Linha
    BY DEF Requisicao
  <2> QED
    BY <1>9, <2>1, LivreTipo DEF Salvar
<1>10. ASSUME NEW r \in Reqs, Errar(r)
       PROVE  TypeOK'
  BY <1>10, LivreTipo DEF Errar, Cai
<1>11. ASSUME NEW v \in Sweeps, Listar(v)
       PROVE  TypeOK'
  <2>1. Encontra(v) \in SUBSET Parcelas
    BY DEF Encontra, AgendadasHoje
  <2>2. VarreOK'
    BY <1>0, <1>11, <2>1, ContinuaTipo DEF Listar
  <2> QED
    BY <1>11, <2>2 DEF Listar, VarreOK
<1>12. ASSUME NEW v \in Sweeps, LerDaVarredura(v)
       PROVE  TypeOK'
  <2>1. Proxima(v) \in Parcelas
    BY <1>12, ProximaEm DEF LerDaVarredura
  <2> DEFINE linha == parcelas[Proxima(v)]
             l == IF v = "agendados"
                  THEN [linha EXCEPT !.status = "LIBERADO"]
                  ELSE [linha EXCEPT !.status = "VENCIDO", !.vencimento = dia]
  <2>2. l \in Linha
    <3>1. linha \in Linha /\ dia \in Nat
      BY <2>1, DiasNat
    <3>2. "LIBERADO" \in Status /\ "VENCIDO" \in Status
      BY DEF Status
    <3> QED
      BY <3>1, <3>2, LinhaTipo
  <2>3. varre' = [varre EXCEPT ![v].pc = "salvar", ![v].linha = l]
    BY <1>12 DEF LerDaVarredura
  <2> HIDE DEF l
  <2> DEFINE x == [varre[v] EXCEPT !.pc = "salvar", !.linha = l]
  <2>4. x \in Varredura /\ x.pc = "salvar" /\ x.fila = varre[v].fila
    BY <2>2 DEF Varredura
  <2>5. varre' = [varre EXCEPT ![v] = x]
    BY <2>3
  <2>6. varre[v].fila # {}
    BY <1>12 DEF LerDaVarredura
  <2> HIDE DEF x
  <2>7. VarreOK'
    BY <2>4, <2>5, <2>6 DEF VarreOK
  <2> QED
    BY <1>12, <2>7 DEF LerDaVarredura, VarreOK
<1>13. ASSUME NEW v \in Sweeps, SalvarDaVarredura(v)
       PROVE  TypeOK'
  <2>1. Proxima(v) \in Parcelas
    BY <1>13, ProximaEm DEF SalvarDaVarredura
  <2>2. varre[v].linha \in Linha /\ varre[v].fila \ {Proxima(v)} \in SUBSET Parcelas
    BY DEF Varredura
  <2>3. VarreOK'
    BY <1>0, <1>13, <2>2, ContinuaTipo DEF SalvarDaVarredura
  <2>4. parcelas' \in [Parcelas -> Linha]
    BY <1>13, <2>2 DEF SalvarDaVarredura
  <2>5. mexidas' \in SUBSET Parcelas /\ foraDeHora' \in SUBSET Parcelas
    BY <1>13, <2>1 DEF SalvarDaVarredura
  <2> QED
    BY <1>13, <2>3, <2>4, <2>5 DEF SalvarDaVarredura, VarreOK
<1>14. ASSUME NEW v \in Sweeps, ErrarVarredura(v)
       PROVE  TypeOK'
  <2>1. /\ varre[v].fila \ {Proxima(v)} \in SUBSET Parcelas
        /\ AFazer \in SUBSET Parcelas
    BY DEF AFazer, AgendadasHoje, Varredura, Sweeps
  <2>2. varre[v].pc \in {"laco", "salvar"} => Proxima(v) \in Parcelas
    BY ProximaEm
  <2>3. VarreOK'
    BY <1>0, <1>14, <2>1, ContinuaTipo DEF ErrarVarredura
  <2>4. perdidas' \in SUBSET Parcelas /\ falhas' \in 0 .. MaxFalhas
    BY <1>14, <2>1, <2>2 DEF ErrarVarredura, Cai
  <2> QED
    BY <1>14, <2>3, <2>4 DEF ErrarVarredura, VarreOK
<1>15. CASE UNCHANGED vars
  BY <1>15 DEF vars
<1> QED
  BY <1>1, <1>2, <1>3, <1>4, <1>5, <1>6, <1>7, <1>8, <1>9, <1>10, <1>11, <1>12,
     <1>13, <1>14, <1>15
  DEF Next, PassoReq, PassoVarredura

\* The types hold for any number of installments, days, requests and faults.
THEOREM TypeCorrect == Spec => []TypeOK
  BY TypeInit, TypeStep, PTL DEF Spec
-----------------------------------------------------------------------------
(* The releases of the sweep                                               *)

\* The clock stands still while a sweep runs, and what the sweep of the
\* scheduled installments has still to release is scheduled for today, unless
\* somebody wrote it after the list.
VarreduraInv ==
    /\ madrugada => VarreduraParada
    /\ \A p \in varre["agendados"].fila \ mexidas : p \in AgendadasHoje

IInv == TypeOK /\ VarreduraInv /\ LiberacaoNaHora

LEMMA InvInit == Init => IInv
  BY TypeInit, LivreTipo
  DEF Init, IInv, VarreduraInv, VarreduraParada, LiberacaoNaHora, Sweeps

\* The rows of today, when only row p changes.
LEMMA HojeMantida ==
  ASSUME NEW p \in Parcelas, NEW l, parcelas' = [parcelas EXCEPT ![p] = l],
         parcelas \in [Parcelas -> Linha], dia' = dia
  PROVE  AgendadasHoje \ {p} \subseteq AgendadasHoje'
  BY DEF AgendadasHoje

LEMMA InvStep ==
  ASSUME IInv, [Next]_vars
  PROVE  IInv'
<1> USE DEF IInv, relogio
<1>0. TypeOK'
  BY TypeStep
<1>a. VarreduraInv /\ LiberacaoNaHora /\ TypeOK
  OBVIOUS
<1>b. VarreOK
  BY DEF TypeOK, VarreOK
<1>1. CASE Anoitecer
  <2>1. varre["agendados"].fila = {}
    BY <1>1, <1>b DEF Anoitecer, VarreduraParada, VarreOK, Sweeps
  <2> QED
    BY <1>0, <1>1, <1>a, <2>1
    DEF Anoitecer, VarreduraInv, VarreduraParada, LiberacaoNaHora
<1>2. CASE OitoHoras
  <2>1. varre["agendados"].fila = {}
    BY <1>2, <1>a, <1>b
    DEF OitoHoras, VarreduraInv, VarreduraParada, VarreOK, Sweeps
  <2>2. varre'["agendados"].fila = {}
    BY <1>2, <2>1, LivreTipo DEF OitoHoras, Sweeps, VarreLivre
  <2> QED
    BY <1>0, <1>2, <1>a, <2>2 DEF OitoHoras, VarreduraInv, LiberacaoNaHora
<1>3. CASE Parar
  <2>1. \A v \in Sweeps : varre'[v].pc = "livre" /\ varre'[v].fila = {}
    BY <1>3, LivreTipo DEF Parar
  <2> QED
    BY <1>0, <1>3, <1>a, <2>1
    DEF Parar, VarreduraInv, VarreduraParada, LiberacaoNaHora, Sweeps
<1>4. ASSUME UNCHANGED <<dia, madrugada, parcelas, varre, mexidas, foraDeHora>>
      PROVE  IInv'
  BY <1>0, <1>4, <1>a
  DEF VarreduraInv, VarreduraParada, AgendadasHoje, LiberacaoNaHora
<1>5. ASSUME NEW r \in Reqs, Salvar(r)
      PROVE  IInv'
  <2>1. req[r].p \in Parcelas
    BY <1>a DEF TypeOK, Requisicao
  <2>2. AgendadasHoje \ {req[r].p} \subseteq AgendadasHoje'
    BY <1>5, <1>a, <2>1, HojeMantida DEF Salvar, TypeOK
  <2>3. req[r].p \in varre["agendados"].fila => req[r].p \in mexidas'
    BY <1>5 DEF Salvar, Sweeps
  <2>4. mexidas \subseteq mexidas'
    BY <1>5 DEF Salvar
  <2> QED
    BY <1>0, <1>5, <1>a, <2>2, <2>3, <2>4
    DEF Salvar, VarreduraInv, VarreduraParada, LiberacaoNaHora
<1>6. ASSUME NEW v \in Sweeps, varre[v].pc # "livre",
             UNCHANGED <<dia, madrugada, foraDeHora>>, mexidas' = mexidas,
             AgendadasHoje' = AgendadasHoje,
             varre'["agendados"].fila \subseteq
               varre["agendados"].fila \cup AgendadasHoje
      PROVE  IInv'
  BY <1>0, <1>6, <1>a DEF VarreduraInv, VarreduraParada, LiberacaoNaHora
<1>7. ASSUME NEW v \in Sweeps, Listar(v)
      PROVE  IInv'
  <2>1. Encontra(v) \in SUBSET Parcelas /\ AgendadasHoje' = AgendadasHoje
    BY <1>7 DEF Encontra, AgendadasHoje, Listar
  <2>2. varre'[v].fila = Encontra(v)
    BY <1>7, <1>b, <2>1, ContinuaTipo DEF Listar
  <2>3. v # "agendados" => varre'["agendados"] = varre["agendados"]
    BY <1>7, <1>b DEF Listar, Continua, VarreOK, Sweeps
  <2>4. varre'["agendados"].fila \subseteq
          varre["agendados"].fila \cup AgendadasHoje
    BY <2>2, <2>3 DEF Encontra
  <2> QED
    BY <1>6, <1>7, <2>1, <2>4 DEF Listar
<1>8. ASSUME NEW v \in Sweeps, LerDaVarredura(v)
      PROVE  IInv'
  <2>1. varre'["agendados"].fila = varre["agendados"].fila
    BY <1>8, <1>b DEF LerDaVarredura, VarreOK, Varredura, Sweeps
  <2>2. AgendadasHoje' = AgendadasHoje
    BY <1>8 DEF LerDaVarredura, AgendadasHoje
  <2> QED
    BY <1>6, <1>8, <2>1, <2>2 DEF LerDaVarredura
<1>9. ASSUME NEW v \in Sweeps, SalvarDaVarredura(v)
      PROVE  IInv'
  <2>0. varre[v].fila # {}
    BY <1>9, <1>b DEF SalvarDaVarredura, VarreOK
  <2>1. Proxima(v) \in varre[v].fila /\ Proxima(v) \in Parcelas
    BY <1>a, <2>0, ProximaEm
  <2>2. AgendadasHoje \ {Proxima(v)} \subseteq AgendadasHoje'
    BY <1>9, <1>a, <2>1, HojeMantida DEF SalvarDaVarredura, TypeOK
  <2>3. varre[v].fila \ {Proxima(v)} \in SUBSET Parcelas
    BY <1>b DEF VarreOK, Varredura
  <2>4. varre'[v].fila = varre[v].fila \ {Proxima(v)}
    BY <1>9, <1>b, <2>3, ContinuaTipo DEF SalvarDaVarredura
  <2>5. ~madrugada' /\ mexidas \subseteq mexidas'
    BY <1>9, <1>a DEF SalvarDaVarredura, VarreduraInv, VarreduraParada
  <2>6. CASE v = "agendados"
    <3>1. foraDeHora' \subseteq mexidas'
      BY <1>9, <1>a, <2>1, <2>5, <2>6
      DEF SalvarDaVarredura, VarreduraInv, LiberacaoNaHora
    <3> QED
      BY <1>0, <1>a, <2>2, <2>4, <2>5, <2>6, <3>1
      DEF VarreduraInv, LiberacaoNaHora
  <2>7. CASE v # "agendados"
    <3>1. varre'["agendados"] = varre["agendados"]
      BY <1>9, <1>b, <2>7 DEF SalvarDaVarredura, Continua, VarreOK, Sweeps
    <3>2. Proxima(v) \in varre["agendados"].fila => Proxima(v) \in mexidas'
      BY <1>9, <2>7 DEF SalvarDaVarredura, Sweeps
    <3>3. foraDeHora' = foraDeHora
      BY <1>9, <2>7 DEF SalvarDaVarredura
    <3> QED
      BY <1>0, <1>a, <2>2, <2>5, <3>1, <3>2, <3>3
      DEF VarreduraInv, LiberacaoNaHora
  <2> QED
    BY <2>6, <2>7
<1>10. ASSUME NEW v \in Sweeps, ErrarVarredura(v)
       PROVE  IInv'
  <2>1. PICK f \in SUBSET varre[v].fila : Continua(v, f)
    BY <1>10 DEF ErrarVarredura
  <2>2. varre'[v].fila = f
    BY <1>b, <2>1, ContinuaTipo DEF VarreOK, Varredura
  <2>3. v # "agendados" => varre'["agendados"] = varre["agendados"]
    BY <1>b, <2>1 DEF Continua, VarreOK, Sweeps
  <2>4. varre'["agendados"].fila \subseteq varre["agendados"].fila
    BY <2>1, <2>2, <2>3
  <2>5. AgendadasHoje' = AgendadasHoje
    BY <1>10 DEF ErrarVarredura, AgendadasHoje
  <2> QED
    BY <1>6, <1>10, <2>4, <2>5 DEF ErrarVarredura
<1> QED
  BY <1>1, <1>2, <1>3, <1>4, <1>5, <1>7, <1>8, <1>9, <1>10
  DEF Next, vars, PassoReq, PassoVarredura, Subir, IniciarLiberacao,
      IniciarCancelamento, IniciarStatus, Ler, Errar, SoReq

\* The sweep releases an installment on its day, unless somebody wrote it
\* between the list and its turn.
THEOREM LiberacaoSempreNaHora == Spec => []LiberacaoNaHora
<1>1. IInv => LiberacaoNaHora
  BY DEF IInv
<1> QED
  BY <1>1, InvInit, InvStep, PTL DEF Spec

=============================================================================
