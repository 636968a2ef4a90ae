------------------------ MODULE FilaMiniaturas_proofs ------------------------
(***************************************************************************)
(* Proofs about FilaMiniaturas.                                            *)
(***************************************************************************)
EXTENDS FilaMiniaturas, FiniteSetTheorems, SequenceTheorems, TLAPS

-----------------------------------------------------------------------------
(* The queue: documents in order of arrival, none of them twice            *)

SemRepetidos(s) == \A i, j \in 1 .. Len(s) : s[i] = s[j] => i = j

\* The positions of a sequence are as many as its length.
LEMMA Posicoes ==
  ASSUME NEW n \in Nat
  PROVE  Cardinality(1 .. n) = n
<1>1. 1 \in Int /\ n \in Int
  OBVIOUS
<1>2. Cardinality(1 .. n) = IF 1 > n THEN 0 ELSE n - 1 + 1
  BY <1>1, FS_Interval, Zenon
<1>3. (IF 1 > n THEN 0 ELSE n - 1 + 1) = n
  OBVIOUS
<1> QED
  BY <1>2, <1>3

\* Such a queue is no longer than the set of documents.
LEMMA FilaCurta ==
  ASSUME NEW s \in Seq(Docs), SemRepetidos(s)
  PROVE  Len(s) <= Cardinality(Docs)
<1>1. s \in Injection(1 .. Len(s), Docs)
  BY DEF SemRepetidos, Injection, IsInjective
<1>2. Cardinality(1 .. Len(s)) <= Cardinality(Docs)
  BY <1>1, FS_Injection, MiniaturasAssumption
<1>3. Len(s) \in Nat
  OBVIOUS
<1>4. Cardinality(1 .. Len(s)) = Len(s)
  BY <1>3, Posicoes, Zenon
<1> QED
  BY <1>2, <1>4

LEMMA FilaCresce ==
  ASSUME NEW s \in Seq(Docs), SemRepetidos(s), NEW d \in Docs,
         \A i \in 1 .. Len(s) : s[i] # d
  PROVE  Append(s, d) \in Seq(Docs) /\ SemRepetidos(Append(s, d))
  BY DEF SemRepetidos

\* Element i of a queue without its element k.
LEMMA SemElemento ==
  ASSUME NEW s \in Seq(Docs), NEW k \in 1 .. Len(s)
  PROVE  /\ RemoveAt(s, k) \in Seq(Docs)
         /\ Len(RemoveAt(s, k)) = Len(s) - 1
         /\ \A i \in 1 .. Len(s) - 1 :
              RemoveAt(s, k)[i] = IF i < k THEN s[i] ELSE s[i + 1]
<1> DEFINE a == SubSeq(s, 1, k - 1)
           b == SubSeq(s, k + 1, Len(s))
<1>1. /\ a \in Seq(Docs)
      /\ Len(a) = k - 1
      /\ \A i \in 1 .. k - 1 : a[i] = s[i]
  BY SubSeqProperties
<1>2. /\ b \in Seq(Docs)
      /\ Len(b) = Len(s) - k
      /\ \A i \in 1 .. Len(s) - k : b[i] = s[k + i]
  BY SubSeqProperties
<1>3. RemoveAt(s, k) = a \o b
  BY DEF RemoveAt
<1> HIDE DEF a, b
<1>4. /\ a \o b \in Seq(Docs)
      /\ Len(a \o b) = Len(s) - 1
      /\ \A i \in 1 .. Len(s) - 1 :
           (a \o b)[i] = IF i < k THEN a[i] ELSE b[i - (k - 1)]
  <2>1. /\ a \o b \in Seq(Docs)
        /\ Len(a \o b) = Len(a) + Len(b)
        /\ \A i \in 1 .. Len(a) + Len(b) :
             (a \o b)[i] = IF i <= Len(a) THEN a[i] ELSE b[i - Len(a)]
    BY <1>1, <1>2, ConcatProperties, Zenon
  <2>2. Len(a) + Len(b) = Len(s) - 1 /\ Len(a) = k - 1
    BY <1>1, <1>2
  <2>3. \A i \in 1 .. Len(s) - 1 : i <= k - 1 <=> i < k
    OBVIOUS
  <2>4. \A i \in 1 .. Len(s) - 1 :
          (a \o b)[i] = IF i <= k - 1 THEN a[i] ELSE b[i - (k - 1)]
    BY <2>1, <2>2, Zenon
  <2> QED
    BY <2>1, <2>2, <2>3, <2>4, Zenon
<1>5. ASSUME NEW i \in 1 .. Len(s) - 1
      PROVE  (a \o b)[i] = IF i < k THEN s[i] ELSE s[i + 1]
  <2>1. CASE i < k
    BY <1>1, <1>4, <2>1
  <2>2. CASE ~(i < k)
    <3>1. i - (k - 1) \in 1 .. Len(s) - k /\ k + (i - (k - 1)) = i + 1
      BY <2>2
    <3>2. b[i - (k - 1)] = s[i + 1]
      BY <1>2, <3>1
    <3> QED
      BY <1>4, <2>2, <3>2
  <2> QED
    BY <2>1, <2>2
<1> QED
  BY <1>3, <1>4, <1>5

LEMMA FilaDecresce ==
  ASSUME NEW s \in Seq(Docs), SemRepetidos(s), NEW k \in 1 .. Len(s)
  PROVE  SemRepetidos(RemoveAt(s, k))
<1>1. /\ Len(RemoveAt(s, k)) = Len(s) - 1
      /\ \A i \in 1 .. Len(s) - 1 :
           RemoveAt(s, k)[i] = IF i < k THEN s[i] ELSE s[i + 1]
  BY SemElemento
<1>2. \A i, j \in 1 .. Len(s) : s[i] = s[j] => i = j
  BY DEF SemRepetidos
<1>3. ASSUME NEW i \in 1 .. Len(s) - 1, NEW j \in 1 .. Len(s) - 1,
             RemoveAt(s, k)[i] = RemoveAt(s, k)[j]
      PROVE  i = j
  <2>1. CASE i < k /\ j < k
    BY <1>1, <1>2, <1>3, <2>1
  <2>2. CASE i < k /\ ~(j < k)
    <3>1. s[i] = s[j + 1]
      BY <1>1, <1>3, <2>2
    <3> QED
      BY <1>2, <2>2, <3>1
  <2>3. CASE ~(i < k) /\ j < k
    <3>1. s[i + 1] = s[j]
      BY <1>1, <1>3, <2>3
    <3> QED
      BY <1>2, <2>3, <3>1
  <2>4. CASE ~(i < k) /\ ~(j < k)
    <3>1. s[i + 1] = s[j + 1]
      BY <1>1, <1>3, <2>4
    <3> QED
      BY <1>2, <3>1
  <2> QED
    BY <2>1, <2>2, <2>3, <2>4
<1> QED
  BY <1>1, <1>3 DEF SemRepetidos

FilaOK == fila \in Seq(Docs) /\ SemRepetidos(fila)

-----------------------------------------------------------------------------
(* Type correctness                                                        *)

TrabOK ==
    /\ trab \in [Trabalhos -> Trabalho]
    /\ \A w \in Trabalhos : Ocupado(w) <=> trab[w].d # Nada

ReqOK ==
    /\ req \in [Reqs -> Requisicao]
    /\ \A r \in Reqs : req[r].pc # "livre" => req[r].d # Nada

TypeInv ==
    /\ doc \in [Docs -> Documento]
    /\ arquivo \subseteq Docs
    /\ FilaOK
    /\ job \in [Docs -> Job]
    /\ processing \subseteq Docs
    /\ TrabOK
    /\ ReqOK
    /\ soltas \subseteq Docs

LEMMA TypeInvForte == TypeInv => TypeOK
  BY FilaCurta DEF TypeInv, TypeOK, FilaOK, TrabOK, ReqOK

LEMMA JobNovoTipo == JobNovo \in Job
  BY MiniaturasAssumption DEF JobNovo, Job

LEMMA EsperaTipo ==
  ASSUME job \in [Docs -> Job], NEW d \in Docs,
         job' = [job EXCEPT ![d].espera = FALSE]
  PROVE  job' \in [Docs -> Job]
<1>1. [job[d] EXCEPT !.espera = FALSE] \in Job
  BY DEF Job
<1> QED
  BY <1>1

LEMMA InitType == Init => TypeInv
<1> SUFFICES ASSUME Init PROVE TypeInv
  OBVIOUS
<1>1. FilaOK
  BY DEF Init, FilaOK, SemRepetidos
<1>2. TrabOK
  BY DEF Init, TrabOK, Trabalho, Parado, Ocupado
<1>3. ReqOK
  BY DEF Init, ReqOK, Requisicao, ReqLivre
<1> QED
  BY <1>1, <1>2, <1>3, JobNovoTipo DEF Init, TypeInv, Documento

\* What a request does to its own state.
LEMMA TerminaTipo ==
  ASSUME ReqOK, NEW r \in Reqs, Termina(r)
  PROVE  ReqOK'
  BY DEF ReqOK, Termina, Requisicao, ReqLivre

LEMMA ComecaTipo ==
  ASSUME ReqOK, NEW r \in Reqs, NEW d \in Docs,
         NEW pc \in {"verificar", "ver", "regerar"}, Comeca(r, pc, d)
  PROVE  ReqOK'
  BY MiniaturasAssumption DEF ReqOK, Comeca, Requisicao, ReqLivre

LEMMA ReqEm ==
  ASSUME ReqOK, NEW r \in Reqs, req[r].pc # "livre"
  PROVE  req[r].d \in Docs
  BY DEF ReqOK, Requisicao

LEMMA TrabEm ==
  ASSUME TrabOK, NEW w \in Trabalhos, Ocupado(w)
  PROVE  trab[w].d \in Docs
  BY DEF TrabOK, Trabalho

LEMMA PassaTipo ==
  ASSUME TrabOK, NEW w \in Trabalhos, NEW de \in {"buscar", "obter", "gerar"},
         NEW para \in {"obter", "gerar", "gravar"}, Passa(w, de, para)
  PROVE  TrabOK'
  BY DEF TrabOK, Passa, Trabalho, Ocupado

LEMMA ParaTipo ==
  ASSUME TrabOK, NEW w \in Trabalhos, trab' = [trab EXCEPT ![w] = Parado]
  PROVE  TrabOK'
  BY DEF TrabOK, Parado, Trabalho, Ocupado

LEMMA RetiraTipo ==
  ASSUME TypeInv, NEW w \in Trabalhos, Ocupado(w), Retira(w)
  PROVE  /\ FilaOK'
         /\ job' \in [Docs -> Job]
         /\ processing' \subseteq Docs
         /\ TrabOK'
<1>1. CASE NaFila(trab[w].d)
  <2>1. Posicao(trab[w].d) \in 1 .. Len(fila)
    BY <1>1 DEF NaFila, Posicao
  <2>2. FilaOK'
    BY <1>1, <2>1, SemElemento, FilaDecresce DEF Retira, TypeInv, FilaOK
  <2> QED
    BY <2>2, ParaTipo, JobNovoTipo DEF Retira, TypeInv
<1>2. CASE ~NaFila(trab[w].d)
  BY <1>2, ParaTipo, JobNovoTipo DEF Retira, TypeInv, FilaOK
<1> QED
  BY <1>1, <1>2

LEMMA ReagendaTipo ==
  ASSUME TypeInv, NEW w \in Trabalhos, Ocupado(w), Reagenda(w)
  PROVE  /\ FilaOK'
         /\ job' \in [Docs -> Job]
         /\ processing' \subseteq Docs
         /\ TrabOK'
<1>1. CASE Retira(w)
  BY <1>1, RetiraTipo
<1>2. CASE ~Retira(w)
  <2>1. /\ job[trab[w].d].retryCount + 1 < maxRetries
        /\ job' = [job EXCEPT ![trab[w].d] = [retryCount |-> @.retryCount + 1,
                                              espera |-> TRUE]]
        /\ processing' = processing \ {trab[w].d}
        /\ trab' = [trab EXCEPT ![w] = Parado]
        /\ UNCHANGED fila
    BY <1>2 DEF Reagenda
  <2>2. trab[w].d \in Docs
    BY TrabEm DEF TypeInv
  <2>3. job' \in [Docs -> Job]
    BY <2>1, <2>2, MiniaturasAssumption DEF TypeInv, Job
  <2> QED
    BY <2>1, <2>3, ParaTipo DEF TypeInv, FilaOK
<1> QED
  BY <1>1, <1>2

LEMMA GravaTipo ==
  ASSUME TypeInv, NEW d \in Docs,
         GravaColuna(d) \/ (Solta({d}) /\ UNCHANGED doc)
  PROVE  doc' \in [Docs -> Documento] /\ soltas' \subseteq Docs
<1>1. CASE GravaColuna(d)
  <2>1. \A e \in Docs : doc[e] \in Documento
    BY DEF TypeInv
  <2>2. [doc[d] EXCEPT !.coluna = TRUE] \in Documento
    BY <2>1 DEF Documento
  <2>3. doc' = [doc EXCEPT ![d] = [doc[d] EXCEPT !.coluna = TRUE]]
    BY <1>1 DEF GravaColuna
  <2> QED
    BY <1>1, <2>2, <2>3 DEF GravaColuna, TypeInv
<1>2. CASE Solta({d}) /\ UNCHANGED doc
  BY <1>2 DEF Solta, TypeInv
<1> QED
  BY <1>1, <1>2

LEMMA TypeReq ==
  ASSUME TypeInv, NEW r \in Reqs,
         \/ Upload(r) \/ PedirProcessamento(r) \/ Pedir(r) \/ LerDocumento(r)
         \/ PassoReq(r) \/ Falhar(r)
  PROVE  TypeInv'
<1> USE DEF TypeInv
<1>1. CASE Upload(r)
  <2>1. PICK d \in Docs : /\ doc' = [doc EXCEPT ![d].situacao = "novo"]
                          /\ Comeca(r, "verificar", d)
    BY <1>1 DEF Upload
  <2>2. doc' \in [Docs -> Documento]
    BY <2>1 DEF Documento
  <2> QED
    BY <1>1, <2>1, <2>2, ComecaTipo DEF Upload, servico, FilaOK, TrabOK, Ocupado
<1>2. CASE PedirProcessamento(r)
  BY <1>2, ComecaTipo DEF PedirProcessamento, servico, FilaOK, TrabOK, Ocupado
<1>3. CASE Pedir(r)
  BY <1>3, ComecaTipo DEF Pedir, servico, FilaOK, TrabOK, Ocupado
<1>4. CASE LerDocumento(r)
  <2>1. PICK d \in Docs, remove \in BOOLEAN :
          req' = [req EXCEPT ![r] = [pc |-> "salvar", d |-> d,
                                     remove |-> remove,
                                     copia |-> doc[d].coluna]]
    BY <1>4 DEF LerDocumento
  <2>2. ReqOK'
    BY <2>1, MiniaturasAssumption DEF ReqOK, Requisicao, Documento
  <2> QED
    BY <1>4, <2>2 DEF LerDocumento, servico, FilaOK, TrabOK, Ocupado
<1>5. CASE VerificarMiniatura(r)
  <2>1. ReqOK'
    <3>1. CASE req' = [req EXCEPT ![r].pc = "enfileirar"]
      BY <1>5, <3>1 DEF VerificarMiniatura, ReqOK, Requisicao
    <3>2. CASE Termina(r)
      BY <3>2, TerminaTipo
    <3> QED
      BY <1>5, <3>1, <3>2 DEF VerificarMiniatura
  <2> QED
    BY <1>5, <2>1 DEF VerificarMiniatura, servico, FilaOK, TrabOK, Ocupado
<1>6. CASE Enfileirar(r)
  <2>1. req[r].d \in Docs
    BY <1>6, ReqEm DEF Enfileirar
  <2>2. FilaOK' /\ job' \in [Docs -> Job]
    <3>1. CASE UNCHANGED <<fila, job>>
      BY <3>1 DEF FilaOK
    <3>2. CASE /\ ~NaFila(req[r].d)
               /\ fila' = Append(fila, req[r].d)
               /\ job' = [job EXCEPT ![req[r].d] = JobNovo]
      BY <2>1, <3>2, FilaCresce, JobNovoTipo DEF FilaOK, NaFila
    <3> QED
      BY <1>6, <3>1, <3>2 DEF Enfileirar
  <2> QED
    BY <1>6, <2>2, TerminaTipo DEF Enfileirar, TrabOK, Ocupado
<1>7. CASE Gerar(r)
  <2>1. req[r].d \in Docs
    BY <1>7, ReqEm DEF Gerar
  <2>2. ReqOK' /\ soltas' \subseteq Docs
    <3>1. CASE Termina(r) /\ Solta(arquivo' \ arquivo)
      BY <1>7, <2>1, <3>1, TerminaTipo DEF Gerar, Solta
    <3>2. CASE req' = [req EXCEPT ![r].pc = "coluna"] /\ UNCHANGED soltas
      BY <1>7, <3>2 DEF Gerar, ReqOK, Requisicao
    <3> QED
      BY <1>7, <3>1, <3>2 DEF Gerar
  <2> QED
    BY <1>7, <2>1, <2>2 DEF Gerar, servico, FilaOK, TrabOK, Ocupado
<1>8. CASE GravarColuna(r)
  <2>1. req[r].d \in Docs
    BY <1>8, ReqEm DEF GravarColuna
  <2>2. doc' \in [Docs -> Documento] /\ soltas' \subseteq Docs
    BY <1>8, <2>1, GravaTipo DEF GravarColuna
  <2> QED
    BY <1>8, <2>2, TerminaTipo
       DEF GravarColuna, servico, FilaOK, TrabOK, Ocupado
<1>9. CASE SalvarDocumento(r)
  <2>1. req[r].d \in Docs /\ req[r].copia \in BOOLEAN
    BY <1>9, ReqEm DEF SalvarDocumento, ReqOK, Requisicao
  <2>2. doc' \in [Docs -> Documento] /\ soltas' \subseteq Docs
    BY <1>9, <2>1 DEF SalvarDocumento, Documento
  <2> QED
    BY <1>9, <2>2, TerminaTipo
       DEF SalvarDocumento, servico, FilaOK, TrabOK, Ocupado
<1>10. CASE Falhar(r)
  BY <1>10, TerminaTipo DEF Falhar, servico, FilaOK, TrabOK, Ocupado
<1> QED
  BY <1>1, <1>2, <1>3, <1>4, <1>5, <1>6, <1>7, <1>8, <1>9, <1>10 DEF PassoReq

LEMMA TypeTrab ==
  ASSUME TypeInv, NEW w \in Trabalhos, processJob(w)
  PROVE  TypeInv'
<1>0. Ocupado(w) /\ trab[w].d \in Docs
  BY TrabEm DEF TypeInv, processJob, Buscar, Obter, GerarMiniatura, Gravar, Ocupado
<1>1. /\ FilaOK'
      /\ job' \in [Docs -> Job]
      /\ processing' \subseteq Docs
      /\ TrabOK'
  <2>1. CASE Retira(w) \/ Reagenda(w)
    BY <1>0, <2>1, RetiraTipo, ReagendaTipo
  <2>2. CASE /\ UNCHANGED <<fila, job, processing>>
             /\ \/ Passa(w, "buscar", "obter")
                \/ Passa(w, "obter", "gerar")
                \/ Passa(w, "gerar", "gravar")
    BY <2>2, PassaTipo DEF TypeInv, FilaOK
  <2> QED
    BY <2>1, <2>2 DEF processJob, Buscar, Obter, GerarMiniatura, Gravar
<1>2. /\ doc' \in [Docs -> Documento]
      /\ arquivo' \subseteq Docs
      /\ soltas' \subseteq Docs
      /\ UNCHANGED req
  <2>1. CASE Gravar(w)
    BY <1>0, <2>1, GravaTipo DEF Gravar, TypeInv
  <2>2. CASE Buscar(w) \/ Obter(w) \/ GerarMiniatura(w)
    BY <1>0, <2>2 DEF TypeInv, Buscar, Obter, GerarMiniatura
  <2> QED
    BY <2>1, <2>2 DEF processJob
<1> QED
  BY <1>1, <1>2 DEF TypeInv, ReqOK

\* What processQueue does to the calls: a new one is about a document of E.
LEMMA NovosTrabalhos ==
  ASSUME NEW E \in SUBSET Docs, NEW f \in Injection(E, {w \in Trabalhos : ~Ocupado(w)}),
         trab \in [Trabalhos -> Trabalho],
         trab' = [w \in Trabalhos |->
                    IF \E d \in E : f[d] = w
                    THEN [pc |-> "buscar", d |-> CHOOSE d \in E : f[d] = w]
                    ELSE trab[w]],
         NEW w \in Trabalhos
  PROVE  \/ trab'[w] = trab[w]
         \/ /\ ~Ocupado(w)
            /\ trab'[w].pc = "buscar"
            /\ trab'[w].d \in E
            /\ f[trab'[w].d] = w
            /\ trab'[w] \in Trabalho
<1>1. CASE \E d \in E : f[d] = w
  <2> DEFINE d == CHOOSE d \in E : f[d] = w
  <2>1. d \in E /\ f[d] = w
    BY <1>1
  <2> HIDE DEF d
  <2>2. trab'[w] = [pc |-> "buscar", d |-> d]
    BY <1>1 DEF d
  <2>3. ~Ocupado(w)
    BY <2>1 DEF Injection
  <2> QED
    BY <2>1, <2>2, <2>3 DEF Trabalho
<1>2. CASE ~ \E d \in E : f[d] = w
  BY <1>2
<1> QED
  BY <1>1, <1>2

LEMMA TypeFila == ASSUME TypeInv, processQueue PROVE TypeInv'
<1>1. PICK E \in (SUBSET Prontos) \ {{}} :
        /\ \E f \in Injection(E, {w \in Trabalhos : ~Ocupado(w)}) :
             trab' = [w \in Trabalhos |->
                        IF \E d \in E : f[d] = w
                        THEN [pc |-> "buscar", d |-> CHOOSE d \in E : f[d] = w]
                        ELSE trab[w]]
        /\ processing' = processing \cup E
        /\ UNCHANGED <<doc, arquivo, fila, job, req, soltas>>
  BY DEF processQueue
<1>2. PICK f \in Injection(E, {w \in Trabalhos : ~Ocupado(w)}) :
             trab' = [w \in Trabalhos |->
                        IF \E d \in E : f[d] = w
                        THEN [pc |-> "buscar", d |-> CHOOSE d \in E : f[d] = w]
                        ELSE trab[w]]
  BY <1>1
<1>3. E \in SUBSET Docs
  BY DEF Prontos
<1>4. trab \in [Trabalhos -> Trabalho]
  BY DEF TypeInv, TrabOK
<1>5. \A w \in Trabalhos :
        \/ trab'[w] = trab[w]
        \/ /\ ~Ocupado(w)
           /\ trab'[w].pc = "buscar"
           /\ trab'[w].d \in E
           /\ f[trab'[w].d] = w
           /\ trab'[w] \in Trabalho
  BY <1>2, <1>3, <1>4, NovosTrabalhos
<1>6. TrabOK'
  <2>1. /\ trab' \in [Trabalhos -> Trabalho]
    BY <1>2, <1>4, <1>5
  <2>2. \A w \in Trabalhos : trab'[w].pc # "livre" <=> trab'[w].d # Nada
    BY <1>3, <1>5, MiniaturasAssumption DEF TypeInv, TrabOK, Ocupado
  <2> QED
    BY <2>1, <2>2 DEF TrabOK, Ocupado
<1> QED
  BY <1>1, <1>3, <1>6 DEF TypeInv, FilaOK, ReqOK

LEMMA TypeParar == ASSUME TypeInv, Parar PROVE TypeInv'
<1>1. FilaOK'
  BY DEF Parar, FilaOK, SemRepetidos
<1>2. TrabOK' /\ ReqOK'
  BY DEF Parar, TrabOK, Trabalho, Parado, Ocupado, ReqOK, Requisicao, ReqLivre
<1>3. job' \in [Docs -> Job]
  BY JobNovoTipo DEF Parar
<1>4. soltas' \subseteq Docs /\ doc' = doc /\ arquivo' = arquivo
  BY DEF Parar, Solta, TypeInv
<1>5. processing' = {}
  BY DEF Parar
<1> QED
  BY <1>1, <1>2, <1>3, <1>4, <1>5 DEF TypeInv

LEMMA TypeNext == TypeInv /\ [Next]_vars => TypeInv'
<1> SUFFICES ASSUME TypeInv, [Next]_vars PROVE TypeInv'
  OBVIOUS
<1>1. CASE UNCHANGED vars
  BY <1>1 DEF vars, TypeInv, FilaOK, TrabOK, ReqOK, Ocupado
<1>2. CASE \E d \in Docs : FimDaEspera(d)
  <2>1. PICK d \in Docs : FimDaEspera(d)
    BY <1>2
  <2>2. job \in [Docs -> Job] /\ job' = [job EXCEPT ![d].espera = FALSE]
    BY <2>1 DEF FimDaEspera, TypeInv
  <2>3. job' \in [Docs -> Job]
    BY <2>2, EsperaTipo, Zenon
  <2> QED
    BY <2>1, <2>3 DEF FimDaEspera, TypeInv, FilaOK, TrabOK, ReqOK, Ocupado
<1>3. CASE Next
  BY <1>2, <1>3, TypeReq, TypeTrab, TypeFila, TypeParar DEF Next
<1> QED
  BY <1>1, <1>3

\* Every value has its type, and the queue never grows past the documents.
THEOREM TypeCorrect == Spec => []TypeOK
<1>1. Init => TypeInv
  BY InitType
<1>2. TypeInv /\ [Next]_vars => TypeInv'
  BY TypeNext
<1>3. TypeInv => TypeOK
  BY TypeInvForte
<1> QED
  BY <1>1, <1>2, <1>3, PTL DEF Spec

-----------------------------------------------------------------------------
(* The limit of concurrent jobs                                            *)

\* A call is about a document that processing holds, and each about its own.
VagasInv ==
    /\ Cardinality(processing) <= maxConcurrentJobs
    /\ \A w \in Trabalhos : Ocupado(w) => trab[w].d \in processing
    /\ \A v, w \in Trabalhos :
         Ocupado(v) /\ Ocupado(w) /\ trab[v].d = trab[w].d => v = w

LEMMA VagasLimite == TypeInv /\ VagasInv => LimiteDeTrabalhos
<1> SUFFICES ASSUME TypeInv, VagasInv PROVE LimiteDeTrabalhos
  OBVIOUS
<1> DEFINE W == {w \in Trabalhos : Ocupado(w)}
           g == [w \in W |-> trab[w].d]
<1>1. IsFiniteSet(processing) /\ Cardinality(processing) \in Nat
  BY MiniaturasAssumption, FS_Subset, FS_CardinalityType DEF TypeInv
<1>2. g \in Injection(W, processing)
  BY DEF VagasInv, Injection, IsInjective
<1>3. Cardinality(W) <= Cardinality(processing)
  BY <1>1, <1>2, FS_Injection
<1>4. Cardinality(W) \in Nat
  BY MiniaturasAssumption, FS_Subset, FS_CardinalityType
<1> QED
  BY <1>1, <1>3, <1>4, MiniaturasAssumption DEF VagasInv, LimiteDeTrabalhos

\* A call ends, and its document leaves processing.
LEMMA VagaDevolvida ==
  ASSUME TypeInv, VagasInv, NEW w \in Trabalhos, Ocupado(w),
         processing' = processing \ {trab[w].d},
         trab' = [trab EXCEPT ![w] = Parado]
  PROVE  VagasInv'
<1>1. Cardinality(processing') <= maxConcurrentJobs
  <2>1. IsFiniteSet(processing) /\ Cardinality(processing) \in Nat
    BY MiniaturasAssumption, FS_Subset, FS_CardinalityType DEF TypeInv
  <2>2. Cardinality(processing') <= Cardinality(processing)
    BY <2>1, FS_Subset
  <2>3. Cardinality(processing') \in Nat
    BY <2>1, FS_RemoveElement, FS_CardinalityType
  <2> QED
    BY <2>1, <2>2, <2>3, MiniaturasAssumption DEF VagasInv
<1>2. \A v \in Trabalhos : Ocupado(v)' => v # w /\ trab'[v] = trab[v] /\ Ocupado(v)
  BY DEF TypeInv, TrabOK, Ocupado, Parado
<1> QED
  BY <1>1, <1>2 DEF VagasInv

LEMMA VagasTrab ==
  ASSUME TypeInv, VagasInv, NEW w \in Trabalhos, processJob(w)
  PROVE  VagasInv'
<1>0. Ocupado(w)
  BY DEF processJob, Buscar, Obter, GerarMiniatura, Gravar, Ocupado
<1>1. CASE Retira(w) \/ Reagenda(w)
  BY <1>0, <1>1, VagaDevolvida DEF Retira, Reagenda
<1>2. CASE /\ UNCHANGED processing
           /\ \/ Passa(w, "buscar", "obter")
              \/ Passa(w, "obter", "gerar")
              \/ Passa(w, "gerar", "gravar")
  <2>1. \A v \in Trabalhos : /\ trab'[v].d = trab[v].d
                             /\ Ocupado(v)' => Ocupado(v)
    BY <1>0, <1>2 DEF Passa, TypeInv, TrabOK, Trabalho, Ocupado
  <2> QED
    BY <1>2, <2>1 DEF VagasInv
<1> QED
  BY <1>1, <1>2 DEF processJob, Buscar, Obter, GerarMiniatura, Gravar

LEMMA VagasFila == ASSUME TypeInv, VagasInv, processQueue PROVE VagasInv'
<1>1. PICK E \in (SUBSET Prontos) \ {{}} :
        /\ Proximos(E)
        /\ \E f \in Injection(E, {w \in Trabalhos : ~Ocupado(w)}) :
             trab' = [w \in Trabalhos |->
                        IF \E d \in E : f[d] = w
                        THEN [pc |-> "buscar", d |-> CHOOSE d \in E : f[d] = w]
                        ELSE trab[w]]
        /\ processing' = processing \cup E
  BY DEF processQueue
<1>2. PICK f \in Injection(E, {w \in Trabalhos : ~Ocupado(w)}) :
             trab' = [w \in Trabalhos |->
                        IF \E d \in E : f[d] = w
                        THEN [pc |-> "buscar", d |-> CHOOSE d \in E : f[d] = w]
                        ELSE trab[w]]
  BY <1>1
<1>3. E \in SUBSET Docs /\ E \cap processing = {}
  BY DEF Prontos
<1>4. trab \in [Trabalhos -> Trabalho]
  BY DEF TypeInv, TrabOK
<1>5. \A w \in Trabalhos :
        \/ trab'[w] = trab[w]
        \/ /\ ~Ocupado(w)
           /\ trab'[w].pc = "buscar"
           /\ trab'[w].d \in E
           /\ f[trab'[w].d] = w
           /\ trab'[w] \in Trabalho
  BY <1>2, <1>3, <1>4, NovosTrabalhos
<1>6. Cardinality(processing') <= maxConcurrentJobs
  <2>1. /\ IsFiniteSet(processing) /\ Cardinality(processing) \in Nat
        /\ IsFiniteSet(E) /\ Cardinality(E) \in Nat
    BY <1>3, MiniaturasAssumption, FS_Subset, FS_CardinalityType DEF TypeInv
  <2>2. Cardinality(E) <= maxConcurrentJobs - Cardinality(processing)
    BY <1>1 DEF Proximos, availableSlots
  <2>3. Cardinality(processing \cup E)
          = Cardinality(processing) + Cardinality(E) - Cardinality(processing \cap E)
    BY <2>1, FS_Union
  <2>4. Cardinality(processing \cap E) = 0
    BY <1>3, FS_EmptySet
  <2> QED
    BY <1>1, <2>1, <2>2, <2>3, <2>4, MiniaturasAssumption
<1>7. \A w \in Trabalhos : Ocupado(w)' => trab'[w].d \in processing'
  BY <1>1, <1>5 DEF VagasInv, Ocupado
<1>8. ASSUME NEW v \in Trabalhos, NEW w \in Trabalhos,
             Ocupado(v)', Ocupado(w)', trab'[v].d = trab'[w].d
      PROVE  v = w
  <2>1. CASE trab'[v] = trab[v] /\ trab'[w] = trab[w]
    BY <1>8, <2>1 DEF VagasInv, Ocupado
  <2>2. CASE trab'[v] = trab[v] /\ trab'[w] # trab[w]
    BY <1>3, <1>5, <1>8, <2>2 DEF VagasInv, Ocupado
  <2>3. CASE trab'[v] # trab[v] /\ trab'[w] = trab[w]
    BY <1>3, <1>5, <1>8, <2>3 DEF VagasInv, Ocupado
  <2>4. CASE trab'[v] # trab[v] /\ trab'[w] # trab[w]
    <3>1. f[trab'[v].d] = v /\ f[trab'[w].d] = w
      BY <1>5, <2>4
    <3> QED
      BY <1>8, <3>1
  <2> QED
    BY <2>1, <2>2, <2>3, <2>4
<1> QED
  BY <1>6, <1>7, <1>8 DEF VagasInv

LEMMA VagasNext == TypeInv /\ VagasInv /\ [Next]_vars => VagasInv'
<1> SUFFICES ASSUME TypeInv, VagasInv, [Next]_vars PROVE VagasInv'
  OBVIOUS
<1>1. CASE UNCHANGED <<processing, trab>>
  BY <1>1 DEF VagasInv, Ocupado
<1>2. CASE Parar
  <2>1. Cardinality(processing') <= maxConcurrentJobs
    BY <1>2, FS_EmptySet, MiniaturasAssumption DEF Parar
  <2> QED
    BY <1>2, <2>1 DEF Parar, VagasInv, Ocupado, Parado
<1>3. ASSUME NEW r \in Reqs,
             \/ Upload(r) \/ PedirProcessamento(r) \/ Pedir(r)
             \/ LerDocumento(r) \/ PassoReq(r) \/ Falhar(r)
      PROVE  UNCHANGED <<processing, trab>>
  BY <1>3 DEF Upload, PedirProcessamento, Pedir, LerDocumento, PassoReq, Falhar,
              VerificarMiniatura, Enfileirar, Gerar, GravarColuna,
              SalvarDocumento, servico
<1>4. CASE \E d \in Docs : FimDaEspera(d)
  BY <1>1, <1>4 DEF FimDaEspera
<1>5. CASE UNCHANGED vars
  BY <1>1, <1>5 DEF vars
<1> QED
  BY <1>1, <1>2, <1>3, <1>4, <1>5, VagasTrab, VagasFila DEF Next

LEMMA VagasInit == Init => VagasInv
<1> SUFFICES ASSUME Init PROVE VagasInv
  OBVIOUS
<1>1. Cardinality(processing) <= maxConcurrentJobs
  BY FS_EmptySet, MiniaturasAssumption DEF Init
<1> QED
  BY <1>1 DEF Init, VagasInv, Ocupado, Parado

\* No more documents are in process than the limit, each of them once.
THEOREM LimiteSempre == Spec => []LimiteDeTrabalhos
<1>1. Init => TypeInv /\ VagasInv
  BY InitType, VagasInit
<1>2. TypeInv /\ VagasInv /\ [Next]_vars => (TypeInv /\ VagasInv)'
  BY TypeNext, VagasNext
<1>3. TypeInv /\ VagasInv => LimiteDeTrabalhos
  BY VagasLimite
<1> QED
  BY <1>1, <1>2, <1>3, PTL DEF Spec

-----------------------------------------------------------------------------
(* The column follows the storage                                          *)

\* Somebody is about to write the column of d.
AGravar(d) ==
    \/ \E w \in Trabalhos : trab[w].pc = "gravar" /\ trab[w].d = d
    \/ \E r \in Reqs : req[r].pc = "coluna" /\ req[r].d = d

\* Nothing is said of more files, and whoever was to write still is.
LEMMA ColunaQuieta ==
  ASSUME ColunaAcompanha,
         arquivo' = arquivo,
         soltas \subseteq soltas',
         \A d \in Docs : doc[d].coluna => doc'[d].coluna,
         arquivo \subseteq Docs,
         \A w \in Trabalhos : trab[w].pc = "gravar" => trab'[w] = trab[w],
         \A r \in Reqs : req[r].pc = "coluna" => req'[r] = req[r]
  PROVE  ColunaAcompanha'
<1> SUFFICES ASSUME NEW d \in arquivo', d \notin soltas'
             PROVE  doc'[d].coluna \/ AGravar(d)'
  BY DEF ColunaAcompanha, AGravar
<1>1. d \in arquivo \ soltas /\ d \in Docs
  OBVIOUS
<1>2. doc[d].coluna \/ AGravar(d)
  BY <1>1 DEF ColunaAcompanha, AGravar
<1>3. AGravar(d) => AGravar(d)'
  BY DEF AGravar
<1> QED
  BY <1>1, <1>2, <1>3

\* d alone is touched: after the step its column is set, it is among the loose
\* ones, or somebody is about to write it.
LEMMA ColunaDe ==
  ASSUME ColunaAcompanha, NEW d \in Docs,
         arquivo \subseteq Docs,
         arquivo' \subseteq arquivo \cup {d},
         \A e \in Docs \ {d} : /\ doc[e].coluna => doc'[e].coluna
                               /\ e \in soltas => e \in soltas'
                               /\ AGravar(e) => AGravar(e)',
         d \in arquivo' \ soltas' => doc'[d].coluna \/ AGravar(d)'
  PROVE  ColunaAcompanha'
<1> SUFFICES ASSUME NEW e \in arquivo', e \notin soltas'
             PROVE  doc'[e].coluna \/ AGravar(e)'
  BY DEF ColunaAcompanha, AGravar
<1>1. CASE e = d
  BY <1>1
<1>2. CASE e # d
  <2>1. e \in arquivo \ soltas /\ e \in Docs
    BY <1>2
  <2>2. doc[e].coluna \/ AGravar(e)
    BY <2>1 DEF ColunaAcompanha, AGravar
  <2> QED
    BY <1>2, <2>1, <2>2
<1> QED
  BY <1>1, <1>2

LEMMA ColunaGrava ==
  ASSUME TypeInv, ColunaAcompanha, NEW d \in Docs, UNCHANGED arquivo,
         GravaColuna(d) \/ (Solta({d}) /\ UNCHANGED doc),
         \A e \in Docs \ {d} : AGravar(e) => AGravar(e)'
  PROVE  ColunaAcompanha'
<1>1. CASE GravaColuna(d)
  BY <1>1, ColunaDe DEF GravaColuna, TypeInv, Documento
<1>2. CASE Solta({d}) /\ UNCHANGED doc
  BY <1>2, ColunaDe DEF Solta, TypeInv
<1> QED
  BY <1>1, <1>2

\* A request that ends is no writer any more; the others go on.
LEMMA OutroGrava ==
  ASSUME TypeInv, NEW r \in Reqs, NEW q, req' = [req EXCEPT ![r] = q],
         UNCHANGED trab, NEW e, req[r].pc = "coluna" => req[r].d # e, AGravar(e)
  PROVE  AGravar(e)'
  BY DEF AGravar, TypeInv, ReqOK

LEMMA ColunaReq ==
  ASSUME TypeInv, ColunaAcompanha, NEW r \in Reqs,
         \/ Upload(r) \/ PedirProcessamento(r) \/ Pedir(r) \/ LerDocumento(r)
         \/ PassoReq(r) \/ Falhar(r)
  PROVE  ColunaAcompanha'
<1>0. arquivo \subseteq Docs /\ req \in [Reqs -> Requisicao]
  BY DEF TypeInv, ReqOK
<1>1. CASE Gerar(r)
  <2>1. req[r].d \in Docs /\ req[r].pc \in {"ver", "regerar"}
    BY <1>1, ReqEm DEF Gerar, TypeInv
  <2>2. UNCHANGED <<doc, trab>> /\ arquivo' \in {arquivo, arquivo \cup {req[r].d}}
    BY <1>1 DEF Gerar, servico
  <2>3. CASE Termina(r) /\ Solta(arquivo' \ arquivo)
    <3>1. \A e \in Docs : AGravar(e) => AGravar(e)'
      BY <2>1, <2>2, <2>3, OutroGrava DEF Termina
    <3>2. \A e \in arquivo' \ soltas' : e \in arquivo \ soltas \/ doc[e].coluna
      BY <2>3 DEF Solta
    <3>3. ASSUME NEW e \in arquivo' \ soltas' PROVE doc'[e].coluna \/ AGravar(e)'
      <4>1. doc[e].coluna \/ AGravar(e)
        BY <3>2 DEF ColunaAcompanha, AGravar
      <4>2. e \in Docs
        BY <1>0, <2>1, <2>2
      <4> QED
        BY <2>2, <3>1, <4>1, <4>2
    <3> QED
      BY <3>3 DEF ColunaAcompanha, AGravar
  <2>4. CASE req' = [req EXCEPT ![r].pc = "coluna"] /\ UNCHANGED soltas
    <3>1. req'[r].pc = "coluna" /\ req'[r].d = req[r].d
      BY <1>0, <2>4 DEF Requisicao
    <3>2. \A e \in Docs : AGravar(e) => AGravar(e)'
      BY <1>0, <2>1, <2>2, <2>4 DEF AGravar
    <3>3. AGravar(req[r].d)'
      BY <3>1 DEF AGravar
    <3> QED
      BY <1>0, <2>1, <2>2, <2>4, <3>2, <3>3, ColunaDe
  <2> QED
    BY <1>1, <2>3, <2>4 DEF Gerar
<1>2. CASE GravarColuna(r)
  <2>1. req[r].d \in Docs
    BY <1>2, ReqEm DEF GravarColuna, TypeInv
  <2>2. \A e \in Docs \ {req[r].d} : AGravar(e) => AGravar(e)'
    BY <1>2, OutroGrava DEF GravarColuna, Termina, servico
  <2> QED
    BY <1>2, <2>1, <2>2, ColunaGrava DEF GravarColuna
<1>3. CASE SalvarDocumento(r)
  <2>1. /\ req[r].d \in Docs
        /\ req[r].copia \in BOOLEAN
        /\ req[r].pc = "salvar"
    BY <1>3, ReqEm DEF SalvarDocumento, ReqOK, Requisicao, TypeInv
  <2>2. \A e \in Docs : AGravar(e) => AGravar(e)'
    BY <1>3, <2>1, OutroGrava DEF SalvarDocumento, Termina, servico
  <2>3. PICK d \in Docs : d = req[r].d
    BY <2>1
  <2>4. /\ doc'[d].coluna = req[r].copia
        /\ \A e \in Docs \ {d} : doc'[e] = doc[e]
        /\ arquivo' = arquivo
        /\ \A e \in Docs \ {d} : e \in soltas => e \in soltas'
    BY <1>3, <2>1, <2>3 DEF SalvarDocumento, TypeInv
  <2>5. (d \in arquivo' \ soltas' /\ ~req[r].copia) =>
           d \in arquivo \ soltas /\ ~doc[d].coluna
    BY <1>3, <2>3 DEF SalvarDocumento
  <2>6. d \in arquivo' \ soltas' => doc'[d].coluna \/ AGravar(d)'
    <3> SUFFICES ASSUME d \in arquivo' \ soltas', ~req[r].copia
                 PROVE  AGravar(d)'
      BY <2>4
    <3>1. AGravar(d)
      BY <2>5 DEF ColunaAcompanha, AGravar
    <3> QED
      BY <2>2, <3>1
  <2>7. \A e \in Docs \ {d} :
          /\ doc[e].coluna => doc'[e].coluna
          /\ e \in soltas => e \in soltas'
          /\ AGravar(e) => AGravar(e)'
    BY <2>2, <2>4
  <2>8. arquivo' \subseteq arquivo \cup {d}
    BY <2>4
  <2> QED
    BY <1>0, <2>6, <2>7, <2>8, ColunaDe
<1>4. ASSUME ~Gerar(r), ~GravarColuna(r), ~SalvarDocumento(r)
      PROVE  ColunaAcompanha'
  <2>1. UNCHANGED <<arquivo, soltas, trab>>
    BY <1>4 DEF Upload, PedirProcessamento, Pedir, LerDocumento, PassoReq,
                Falhar, VerificarMiniatura, Enfileirar, servico
  <2>2. \A d \in Docs : doc[d].coluna => doc'[d].coluna
    <3>1. CASE Upload(r)
      BY <3>1 DEF Upload, TypeInv, Documento
    <3>2. CASE UNCHANGED doc
      BY <3>2
    <3> QED
      BY <1>4, <3>1, <3>2 DEF PedirProcessamento, Pedir, LerDocumento, PassoReq,
                Falhar, VerificarMiniatura, Enfileirar
  <2>3. req[r].pc # "coluna" /\ \A p \in Reqs : p # r => req'[p] = req[p]
    BY <1>0, <1>4 DEF Upload, PedirProcessamento, Pedir, LerDocumento, PassoReq,
                Falhar, VerificarMiniatura, Enfileirar, Comeca, Termina
  <2> QED
    BY <1>0, <2>1, <2>2, <2>3, ColunaQuieta
<1> QED
  BY <1>1, <1>2, <1>3, <1>4

LEMMA ColunaTrab ==
  ASSUME TypeInv, ColunaAcompanha, NEW w \in Trabalhos, processJob(w)
  PROVE  ColunaAcompanha'
<1>0. /\ Ocupado(w) /\ trab[w].d \in Docs
      /\ arquivo \subseteq Docs
      /\ trab \in [Trabalhos -> Trabalho]
  BY TrabEm DEF TypeInv, TrabOK, processJob, Buscar, Obter, GerarMiniatura,
                Gravar, Ocupado
<1>1. \A v \in Trabalhos : v # w => trab'[v] = trab[v]
  BY <1>0 DEF processJob, Buscar, Obter, GerarMiniatura, Gravar, Passa, Retira,
              Reagenda
<1>2. UNCHANGED req
  BY DEF processJob, Buscar, Obter, GerarMiniatura, Gravar
<1>3. CASE Buscar(w) \/ Obter(w)
  <2>1. UNCHANGED <<doc, arquivo, soltas>> /\ trab[w].pc # "gravar"
    BY <1>3 DEF Buscar, Obter
  <2> QED
    BY <1>0, <1>1, <1>2, <2>1, ColunaQuieta
<1>4. CASE GerarMiniatura(w)
  <2>1. UNCHANGED <<doc, soltas>> /\ trab[w].pc # "gravar"
    BY <1>4 DEF GerarMiniatura
  <2>2. CASE Retira(w) /\ UNCHANGED arquivo
    BY <1>0, <1>1, <1>2, <2>1, <2>2, ColunaQuieta
  <2>3. CASE Passa(w, "gerar", "gravar") /\ arquivo' = arquivo \cup {trab[w].d}
    <3>1. trab'[w].pc = "gravar" /\ trab'[w].d = trab[w].d
      BY <1>0, <2>3 DEF Passa, Trabalho
    <3>2. PICK d \in Docs : d = trab[w].d
      BY <1>0
    <3>3. AGravar(d)'
      BY <3>1, <3>2 DEF AGravar
    <3>4. \A e \in Docs : AGravar(e) => AGravar(e)'
      BY <1>1, <1>2, <2>1 DEF AGravar
    <3>5. \A e \in Docs \ {d} :
            /\ doc[e].coluna => doc'[e].coluna
            /\ e \in soltas => e \in soltas'
            /\ AGravar(e) => AGravar(e)'
      BY <2>1, <3>4
    <3>6. arquivo' \subseteq arquivo \cup {d}
      BY <2>3, <3>2
    <3> QED
      BY <1>0, <3>3, <3>5, <3>6, ColunaDe
  <2> QED
    BY <1>4, <2>2, <2>3 DEF GerarMiniatura
<1>5. CASE Gravar(w)
  <2>1. \A e \in Docs \ {trab[w].d} : AGravar(e) => AGravar(e)'
    BY <1>1, <1>2 DEF AGravar
  <2> QED
    BY <1>0, <1>5, <2>1, ColunaGrava DEF Gravar
<1> QED
  BY <1>3, <1>4, <1>5 DEF processJob

LEMMA ColunaFila == ASSUME TypeInv, ColunaAcompanha, processQueue
                    PROVE  ColunaAcompanha'
<1>0. PICK E \in SUBSET Docs :
        \E f \in Injection(E, {w \in Trabalhos : ~Ocupado(w)}) :
          trab' = [w \in Trabalhos |->
                     IF \E d \in E : f[d] = w
                     THEN [pc |-> "buscar", d |-> CHOOSE d \in E : f[d] = w]
                     ELSE trab[w]]
  BY DEF processQueue, Prontos
<1>1. PICK f \in Injection(E, {w \in Trabalhos : ~Ocupado(w)}) :
        trab' = [w \in Trabalhos |->
                   IF \E d \in E : f[d] = w
                   THEN [pc |-> "buscar", d |-> CHOOSE d \in E : f[d] = w]
                   ELSE trab[w]]
  BY <1>0
<1>2. trab \in [Trabalhos -> Trabalho]
  BY DEF TypeInv, TrabOK
<1>3. \A w \in Trabalhos : trab'[w] = trab[w] \/ ~Ocupado(w)
  BY <1>1, <1>2, NovosTrabalhos
<1>4. \A w \in Trabalhos : trab[w].pc = "gravar" => trab'[w] = trab[w]
  BY <1>3 DEF Ocupado
<1>5. UNCHANGED <<doc, arquivo, soltas, req>> /\ arquivo \subseteq Docs
  BY DEF processQueue, TypeInv
<1> QED
  BY <1>4, <1>5, ColunaQuieta

LEMMA ColunaParar == ASSUME TypeInv, ColunaAcompanha, Parar PROVE ColunaAcompanha'
<1> SUFFICES ASSUME NEW d \in arquivo', d \notin soltas' PROVE doc'[d].coluna
  BY DEF ColunaAcompanha
<1>1. /\ d \in arquivo /\ d \in Docs
      /\ soltas' = soltas \cup {e \in {c \in Docs : AGravar(c)} : ~doc[e].coluna}
      /\ UNCHANGED doc
  BY DEF Parar, TypeInv, Solta, AGravar
<1>2. doc[d].coluna \/ AGravar(d)
  BY <1>1 DEF ColunaAcompanha, AGravar
<1> QED
  BY <1>1, <1>2

LEMMA ColunaNext == TypeInv /\ ColunaAcompanha /\ [Next]_vars => ColunaAcompanha'
<1> SUFFICES ASSUME TypeInv, ColunaAcompanha, [Next]_vars PROVE ColunaAcompanha'
  OBVIOUS
<1>1. CASE UNCHANGED vars
  BY <1>1 DEF vars, ColunaAcompanha
<1>2. CASE \E d \in Docs : FimDaEspera(d)
  BY <1>2 DEF FimDaEspera, ColunaAcompanha
<1> QED
  BY <1>1, <1>2, ColunaReq, ColunaTrab, ColunaFila, ColunaParar DEF Next

\* A file in the storage has its column set, or about to be, unless one of the
\* five things the observer notes happened since.
THEOREM ColunaSempreAcompanha == Spec => []ColunaAcompanha
<1>1. Init => TypeInv /\ ColunaAcompanha
  BY InitType DEF Init, ColunaAcompanha
<1>2. TypeInv /\ ColunaAcompanha /\ [Next]_vars => (TypeInv /\ ColunaAcompanha)'
  BY TypeNext, ColunaNext
<1> QED
  BY <1>1, <1>2, PTL DEF Spec

-----------------------------------------------------------------------------
(* The refinement of FilaLimitada                                          *)

\* What is in process is still in the queue, and what is not in the queue has
\* no attempt counted.
EsperaInv ==
    /\ \A d \in processing : NaFila(d)
    /\ \A d \in Docs : ~NaFila(d) => job[d].retryCount = 0

LEMMA FilaRecebe ==
  ASSUME fila \in Seq(Docs), NEW d \in Docs, fila' = Append(fila, d)
  PROVE  \A x : NaFila(x)' <=> NaFila(x) \/ x = d
<1>1. /\ Len(fila') = Len(fila) + 1
      /\ \A i \in 1 .. Len(fila) : fila'[i] = fila[i]
      /\ fila'[Len(fila) + 1] = d
      /\ Len(fila) \in Nat
  OBVIOUS
<1> QED
  BY <1>1 DEF NaFila

LEMMA FilaPerde ==
  ASSUME FilaOK, NEW d, NaFila(d), fila' = RemoveAt(fila, Posicao(d))
  PROVE  \A x : NaFila(x)' <=> NaFila(x) /\ x # d
<1> DEFINE k == Posicao(d)
           n == Len(fila)
<1>1. k \in 1 .. n /\ fila[k] = d
  BY DEF NaFila, Posicao
<1>0. fila' = RemoveAt(fila, k) /\ fila \in Seq(Docs) /\ n \in Nat
  BY DEF FilaOK
<1> HIDE DEF k
<1>2. /\ Len(fila') = n - 1
      /\ \A i \in 1 .. n - 1 : fila'[i] = IF i < k THEN fila[i] ELSE fila[i + 1]
  BY <1>0, <1>1, SemElemento
<1>3. \A i, j \in 1 .. n : fila[i] = fila[j] => i = j
  BY DEF FilaOK, SemRepetidos
<1> HIDE DEF n
<1>4. ASSUME NEW x, NEW i \in 1 .. n - 1, fila'[i] = x
      PROVE  x # d /\ \E j \in 1 .. n : fila[j] = x
  <2>1. PICK j \in 1 .. n : j # k /\ fila[j] = x
    BY <1>1, <1>0, <1>2, <1>4
  <2> QED
    BY <1>1, <1>3, <2>1
<1>5. ASSUME NEW x, NEW j \in 1 .. n, fila[j] = x, x # d
      PROVE  \E i \in 1 .. n - 1 : fila'[i] = x
  <2>1. CASE j < k
    <3>1. j \in 1 .. n - 1
      BY <1>1, <1>0, <1>2, <2>1
    <3> QED
      BY <1>0, <1>2, <1>5, <2>1, <3>1
  <2>2. CASE j > k
    <3>1. j - 1 \in 1 .. n - 1 /\ ~(j - 1 < k) /\ (j - 1) + 1 = j
      BY <1>1, <1>0, <1>2, <2>2
    <3> QED
      BY <1>0, <1>2, <1>5, <3>1
  <2> QED
    BY <1>1, <1>0, <1>2, <1>5, <2>1, <2>2
<1>6. \A x : NaFila(x) <=> \E i \in 1 .. n : fila[i] = x
  BY DEF NaFila, n
<1>7. \A x : NaFila(x)' <=> \E i \in 1 .. n - 1 : fila'[i] = x
  BY <1>0, <1>2 DEF NaFila
<1> QED
  BY <1>4, <1>5, <1>6, <1>7

\* The steps of the queue.
LEMMA PassoFila ==
  ASSUME \/ \E d \in Docs : FL!Aceitar(d) \/ FL!Concluir(d) \/ FL!Adiar(d)
         \/ \E E \in SUBSET Docs : FL!Iniciar(E)
         \/ FL!Cair
  PROVE  FL!FilaNext
  BY DEF FL!FilaNext

LEMMA MesmaCardinalidade == \A S : FL!Cardinality(S) = Cardinality(S)
  BY DEF FL!Cardinality, Cardinality

\* A step that the queue does not see.
LEMMA MapaQuieta ==
  ASSUME UNCHANGED <<fila, processing>>,
         \A d \in Docs : job'[d].retryCount = job[d].retryCount
  PROVE  UNCHANGED FL!filaVars /\ (EsperaInv => EsperaInv')
<1>1. \A d : NaFila(d)' <=> NaFila(d)
  BY DEF NaFila
<1> QED
  BY <1>1 DEF FL!filaVars, EsperaInv

LEMMA MapaAceitar ==
  ASSUME TypeInv, EsperaInv, NEW r \in Reqs, Enfileirar(r)
  PROVE  (FL!FilaNext \/ UNCHANGED FL!filaVars) /\ EsperaInv'
<1> PICK d \in Docs : d = req[r].d
  BY ReqEm DEF TypeInv, Enfileirar
<1>0. fila \in Seq(Docs) /\ job \in [Docs -> Job]
  BY DEF TypeInv, FilaOK
<1>1. CASE UNCHANGED <<fila, job>>
  BY <1>1, MapaQuieta DEF Enfileirar
<1>2. CASE /\ ~NaFila(d)
           /\ fila' = Append(fila, d)
           /\ job' = [job EXCEPT ![d] = JobNovo]
  <2>1. \A x : NaFila(x)' <=> NaFila(x) \/ x = d
    BY <1>0, <1>2, FilaRecebe
  <2>2. job[d].retryCount = 0
    BY <1>0, <1>2 DEF EsperaInv
  <2>3. \A x \in Docs : job'[x].retryCount = job[x].retryCount
    BY <1>0, <1>2, <2>2 DEF JobNovo
  <2>4. processing' = processing
    BY DEF Enfileirar
  <2>5. {x \in Docs : NaFila(x)'} = {x \in Docs : NaFila(x)} \cup {d}
    BY <1>0, <2>1
  <2>6. d \notin {x \in Docs : NaFila(x)}
    BY <1>2
  <2>7. [x \in Docs |-> job'[x].retryCount] = [x \in Docs |-> job[x].retryCount]
    BY <2>3
  <2>8. FL!Aceitar(d)
    BY <2>4, <2>5, <2>6, <2>7 DEF FL!Aceitar
  <2>9. EsperaInv'
    BY <2>1, <2>3, <2>4 DEF EsperaInv
  <2> QED
    BY <1>0, <2>8, <2>9, PassoFila
<1> QED
  BY <1>1, <1>2 DEF Enfileirar

LEMMA MapaRetira ==
  ASSUME TypeInv, VagasInv, EsperaInv, NEW w \in Trabalhos, Ocupado(w), Retira(w)
  PROVE  FL!FilaNext /\ EsperaInv'
<1> PICK d \in Docs : d = trab[w].d
  BY TrabEm DEF TypeInv
<1>0. /\ d \in processing /\ NaFila(d)
      /\ FilaOK /\ job \in [Docs -> Job]
  BY DEF TypeInv, VagasInv, EsperaInv
<1>1. /\ fila' = RemoveAt(fila, Posicao(d))
      /\ job' = [job EXCEPT ![d] = JobNovo]
      /\ processing' = processing \ {d}
  BY <1>0 DEF Retira
<1>2. \A x : NaFila(x)' <=> NaFila(x) /\ x # d
  BY <1>0, <1>1, FilaPerde
<1>3. \A x \in Docs : job'[x].retryCount = IF x = d THEN 0 ELSE job[x].retryCount
  BY <1>0, <1>1 DEF JobNovo
<1>4. {x \in Docs : NaFila(x)'} = {x \in Docs : NaFila(x)} \ {d}
  BY <1>2
<1>5. [x \in Docs |-> job'[x].retryCount]
        = [[x \in Docs |-> job[x].retryCount] EXCEPT ![d] = 0]
  BY <1>0, <1>3
<1>6. FL!Concluir(d)
  BY <1>0, <1>1, <1>4, <1>5 DEF FL!Concluir
<1>7. EsperaInv'
  BY <1>0, <1>1, <1>2, <1>3 DEF EsperaInv
<1> QED
  BY <1>0, <1>6, <1>7, PassoFila

LEMMA MapaReagenda ==
  ASSUME TypeInv, VagasInv, EsperaInv, NEW w \in Trabalhos, Ocupado(w),
         Reagenda(w)
  PROVE  FL!FilaNext /\ EsperaInv'
<1> PICK d \in Docs : d = trab[w].d
  BY TrabEm DEF TypeInv
<1>0. d \in processing /\ NaFila(d) /\ job \in [Docs -> Job]
  BY DEF TypeInv, VagasInv, EsperaInv
<1>1. CASE Retira(w)
  BY <1>1, MapaRetira
<1>2. CASE /\ job[d].retryCount + 1 < maxRetries
           /\ job' = [job EXCEPT ![d] = [retryCount |-> @.retryCount + 1,
                                         espera |-> TRUE]]
           /\ processing' = processing \ {d}
           /\ UNCHANGED fila
  <2>1. \A x \in Docs : job'[x].retryCount =
           IF x = d THEN job[d].retryCount + 1 ELSE job[x].retryCount
    BY <1>0, <1>2
  <2>2. \A x : NaFila(x)' <=> NaFila(x)
    BY <1>2 DEF NaFila
  <2>3. {x \in Docs : NaFila(x)'} = {x \in Docs : NaFila(x)}
    BY <2>2
  <2>4. [x \in Docs |-> job'[x].retryCount]
          = [[x \in Docs |-> job[x].retryCount] EXCEPT ![d] = @ + 1]
    BY <1>0, <2>1
  <2>5. FL!Adiar(d)
    BY <1>0, <1>2, <2>3, <2>4 DEF FL!Adiar
  <2>6. EsperaInv'
    BY <1>0, <1>2, <2>1, <2>2 DEF EsperaInv
  <2> QED
    BY <1>0, <2>5, <2>6, PassoFila
<1> QED
  BY <1>1, <1>2 DEF Reagenda

LEMMA MapaTrab ==
  ASSUME TypeInv, VagasInv, EsperaInv, NEW w \in Trabalhos, processJob(w)
  PROVE  (FL!FilaNext \/ UNCHANGED FL!filaVars) /\ EsperaInv'
<1>1. Ocupado(w)
  BY DEF processJob, Buscar, Obter, GerarMiniatura, Gravar, Ocupado
<1>2. \/ UNCHANGED <<fila, job, processing>>
      \/ Retira(w)
      \/ Reagenda(w)
  BY DEF processJob, Buscar, Obter, GerarMiniatura, Gravar
<1> QED
  BY <1>1, <1>2, MapaQuieta, MapaRetira, MapaReagenda

LEMMA MapaIniciar ==
  ASSUME TypeInv, VagasInv, VagasInv', EsperaInv, processQueue
  PROVE  FL!FilaNext /\ EsperaInv'
<1>1. PICK E \in SUBSET Prontos : processing' = processing \cup E
  BY DEF processQueue
<1>2. UNCHANGED <<fila, job>>
  BY DEF processQueue
<1>3. \A x : NaFila(x)' <=> NaFila(x)
  BY <1>2 DEF NaFila
<1>4. /\ E \subseteq Docs
      /\ E \subseteq {x \in Docs : NaFila(x)} \ processing
  BY DEF Prontos
<1>5. Cardinality(processing \cup E) <= maxConcurrentJobs
  BY <1>1 DEF VagasInv
<1>6. {x \in Docs : NaFila(x)'} = {x \in Docs : NaFila(x)}
  BY <1>3
<1>7. [x \in Docs |-> job'[x].retryCount] = [x \in Docs |-> job[x].retryCount]
  BY <1>2
<1>8. FL!Iniciar(E)
  BY <1>1, <1>4, <1>5, <1>6, <1>7, MesmaCardinalidade DEF FL!Iniciar
<1>9. EsperaInv'
  BY <1>1, <1>2, <1>3, <1>4 DEF EsperaInv
<1> QED
  BY <1>4, <1>8, <1>9, PassoFila

LEMMA MapaCair ==
  ASSUME Parar
  PROVE  FL!FilaNext /\ EsperaInv'
<1>1. \A x : ~NaFila(x)'
  BY DEF Parar, NaFila
<1>2. \A x \in Docs : job'[x].retryCount = 0
  BY DEF Parar, JobNovo
<1>3. processing' = {}
  BY DEF Parar
<1>4. {x \in Docs : NaFila(x)'} = {}
  BY <1>1
<1>5. [x \in Docs |-> job'[x].retryCount] = [x \in Docs |-> 0]
  BY <1>2
<1>6. FL!Cair
  BY <1>3, <1>4, <1>5 DEF FL!Cair
<1> QED
  BY <1>2, <1>3, <1>6, PassoFila DEF EsperaInv

LEMMA MapaNext ==
  ASSUME TypeInv, VagasInv, VagasInv', EsperaInv, [Next]_vars
  PROVE  (FL!FilaNext \/ UNCHANGED FL!filaVars) /\ EsperaInv'
<1>1. CASE UNCHANGED <<fila, job, processing>>
  BY <1>1, MapaQuieta
<1>2. ASSUME NEW r \in Reqs,
             \/ Upload(r) \/ PedirProcessamento(r) \/ Pedir(r)
             \/ LerDocumento(r) \/ PassoReq(r) \/ Falhar(r)
      PROVE  Enfileirar(r) \/ UNCHANGED <<fila, job, processing>>
  BY <1>2 DEF Upload, PedirProcessamento, Pedir, LerDocumento, PassoReq, Falhar,
              VerificarMiniatura, Gerar, GravarColuna, SalvarDocumento, servico
<1>3. ASSUME NEW d \in Docs, FimDaEspera(d)
      PROVE  /\ UNCHANGED <<fila, processing>>
             /\ \A x \in Docs : job'[x].retryCount = job[x].retryCount
  BY <1>3 DEF FimDaEspera, TypeInv, Job
<1> QED
  BY <1>1, <1>2, <1>3, MapaQuieta, MapaAceitar, MapaTrab, MapaIniciar, MapaCair
     DEF Next, vars

\* The service is a FilaLimitada, for any number of documents, of jobs and of
\* requests: every step is one of the queue, or one it does not see.
THEOREM FilaRefinada == Spec => ImplementaFilaLimitada
<1> DEFINE Inv == TypeInv /\ VagasInv /\ EsperaInv
<1>1. Init => Inv
  <2>1. Init => EsperaInv
    BY DEF Init, EsperaInv, JobNovo
  <2> QED
    BY <2>1, InitType, VagasInit
<1>2. Init => FL!FilaInit
  <2> SUFFICES ASSUME Init PROVE FL!FilaInit
    OBVIOUS
  <2>1. {x \in Docs : NaFila(x)} = {}
    BY DEF Init, NaFila
  <2>2. [x \in Docs |-> job[x].retryCount] = [x \in Docs |-> 0]
    BY DEF Init, JobNovo
  <2> QED
    BY <2>1, <2>2 DEF FL!FilaInit, Init
<1>3. Inv /\ [Next]_vars => Inv'
  BY TypeNext, VagasNext, MapaNext
<1>4. Inv /\ [Next]_vars => [FL!FilaNext]_(FL!filaVars)
  BY VagasNext, MapaNext
<1> QED
  BY <1>1, <1>2, <1>3, <1>4, PTL DEF Spec, ImplementaFilaLimitada, FL!FilaSpec

=============================================================================
