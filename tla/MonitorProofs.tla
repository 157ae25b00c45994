--------------------------- MODULE MonitorProofs ---------------------------
(***************************************************************************)
(* Proofs about module Monitor, for every size of the ring and the queue,  *)
(* every hash, any number of blocks and any SIGINTs.                       *)
(***************************************************************************)
EXTENDS Monitor, SequenceTheorems, TLAPS

(* Setting fields of a block gives a block.                                 *)
LEMMA BloqueCambiado ==
  ASSUME NEW b \in Bloque, NEW x \in BOOLEAN, NEW y \in BOOLEAN
  PROVE  /\ [b EXCEPT !.fin = x] \in Bloque
         /\ [b EXCEPT !.correcto = x] \in Bloque
         /\ [b EXCEPT !.correcto = x, !.fin = y] \in Bloque
  BY DEF Bloque

(* Taking the two flags of another block too.                               *)
LEMMA BanderasDe ==
  ASSUME NEW b \in Bloque, NEW c \in Bloque
  PROVE  [b EXCEPT !.correcto = c.correcto, !.fin = c.fin] \in Bloque
<1>1. c.correcto \in BOOLEAN /\ c.fin \in BOOLEAN
  BY DEF Bloque
<1>. QED
  BY <1>1, BloqueCambiado

LEMMA FinEsBloque == BloqueFin \in Bloque
  BY DEF BloqueFin, Bloque

LEMMA SelloEsBloque ==
  ASSUME NEW b \in Bloque
  PROVE  Sello(b) \in Bloque
  BY BloqueCambiado DEF Sello, Resuelto

LEMMA TipoInicial == Init => TypeOK
<1>1. Ceros \in Bloque
  BY DEF Ceros, Bloque
<1>2. 0 \in Ranuras /\ BUFFER_SIZE \in Nat
  BY MonitorAssumption DEF Ranuras
<1>3. SUFFICES ASSUME Init PROVE TypeOK
  OBVIOUS
<1>4. /\ bloque_mq \in Bloque /\ bloque_monitor \in Bloque
      /\ bloque \in [Ranuras -> Bloque]
  BY <1>1, <1>3, MonitorAssumption DEF Init
<1>5. /\ mq = <<>> /\ mqNombre \in BOOLEAN /\ anadidos = <<>> /\ impresos = <<>>
      /\ front = 0 /\ rear = 0
  BY <1>3, MonitorAssumption DEF Init
<1>. QED
  BY <1>2, <1>3, <1>4, <1>5 DEF Init, TypeOK, EstadosC, EstadosM

LEMMA EnviadoEsBloque ==
  ASSUME NEW n \in Nat, NEW p \in Pares
  PROVE  [ id |-> n + 1, monedas |-> n + 1, objetivo |-> p[1], solucion |-> p[2],
           votos_totales |-> 1,
           votos_positivos |-> IF pow_hash(p[2]) = p[1] THEN 1 ELSE 0,
           correcto |-> FALSE, fin |-> FALSE ] \in Bloque
<1>1. p \in Int \X Int
  BY MonitorAssumption
<1>. QED
  BY <1>1 DEF Bloque

LEMMA TipoMinero ==
  ASSUME TypeOK, MineroEnvia \/ MineroTermina \/ MineroCalla
  PROVE  TypeOK'
<1> USE DEF TypeOK, memoria, semaforo, compr, monit, senales, historia
<1>1. CASE MineroEnvia
  <2>1. PICK b \in Bloque : mq' = Append(mq, b)
    BY <1>1, EnviadoEsBloque DEF MineroEnvia
  <2>2. mq' \in Seq(Bloque)
    BY <2>1
  <2>3. /\ enviados' = enviados + 1
        /\ enviados < NumBloques
        /\ UNCHANGED <<mqNombre, fuente, memoria, semaforo, compr, monit, senales, historia>>
    BY <1>1 DEF MineroEnvia
  <2>. QED
    BY <2>2, <2>3
<1>2. CASE MineroTermina
  <2>1. mq' \in Seq(Bloque)
    BY <1>2, FinEsBloque DEF MineroTermina
  <2>. QED
    BY <1>2, <2>1 DEF MineroTermina
<1>3. CASE MineroCalla
  BY <1>3 DEF MineroCalla
<1>. QED
  BY <1>1, <1>2, <1>3

LEMMA TipoComprobador ==
  ASSUME TypeOK, Comprobador
  PROVE  TypeOK'
<1> USE DEF TypeOK, CPasa, EstadosC, cola, minero, memoria, semaforo, monit,
            senales, historia
<1>1. CASE C_Sigaction
  BY <1>1 DEF C_Sigaction
<1>2. CASE C_Mmap
  BY <1>2, MonitorAssumption DEF C_Mmap, Ranuras
<1>3. CASE C_MmapFalla
  BY <1>3 DEF C_MmapFalla
<1>4. CASE C_MqOpen
  BY <1>4 DEF C_MqOpen
<1>5. CASE C_SinCola
  BY <1>5 DEF C_SinCola
<1>6. CASE C_MqReceive
  BY <1>6 DEF C_MqReceive
<1>7. CASE C_Comprobar
  BY <1>7, SelloEsBloque DEF C_Comprobar
<1>8. CASE C_WaitEmpty
  BY <1>8 DEF C_WaitEmpty
<1>9. CASE C_WaitMutex
  BY <1>9 DEF C_WaitMutex
<1>10. CASE C_Anadir
  <2>1. [bloque_mq EXCEPT !.correcto = bloque[rear].correcto,
                          !.fin = bloque[rear].fin] \in Bloque
    BY BanderasDe
  <2>. QED
    BY <1>10, <2>1 DEF C_Anadir
<1>11. CASE C_AnadirFin
  <2>1. [bloque[rear] EXCEPT !.correcto = bloque_mq.correcto,
                             !.fin = bloque_mq.fin] \in Bloque
    BY BanderasDe
  <2>2. (rear + 1) % BUFFER_SIZE \in Ranuras
    BY MonitorAssumption DEF Ranuras
  <2>. QED
    BY <1>11, <2>1, <2>2 DEF C_AnadirFin
<1>12. CASE C_PostMutex
  BY <1>12 DEF C_PostMutex
<1>13. CASE C_PostFill
  BY <1>13 DEF C_PostFill
<1>14. CASE C_Wait
  BY <1>14 DEF C_Wait
<1>. QED
  BY <1>1, <1>2, <1>3, <1>4, <1>5, <1>6, <1>7, <1>8, <1>9, <1>10, <1>11,
     <1>12, <1>13, <1>14 DEF Comprobador

LEMMA TipoMonitor ==
  ASSUME TypeOK, MonitorHijo
  PROVE  TypeOK'
<1> USE DEF TypeOK, MPasa, EstadosM, cola, minero, memoria, semaforo, compr,
            senales, historia
<1>1. CASE M_Mmap
  BY <1>1 DEF M_Mmap
<1>2. CASE M_MmapFalla
  BY <1>2 DEF M_MmapFalla
<1>3. CASE M_WaitFill
  BY <1>3 DEF M_WaitFill
<1>4. CASE M_WaitMutex
  BY <1>4 DEF M_WaitMutex
<1>5. CASE M_Extraer
  <2>1. [bloque[front] EXCEPT !.correcto = bloque_monitor.correcto,
                              !.fin = bloque_monitor.fin] \in Bloque
    BY BanderasDe
  <2>. QED
    BY <1>5, <2>1 DEF M_Extraer
<1>6. CASE M_ExtraerFin
  <2>1. [bloque_monitor EXCEPT !.correcto = bloque[front].correcto,
                               !.fin = bloque[front].fin] \in Bloque
    BY BanderasDe
  <2>2. (front + 1) % BUFFER_SIZE \in Ranuras
    BY MonitorAssumption DEF Ranuras
  <2>. QED
    BY <1>6, <2>1, <2>2 DEF M_ExtraerFin
<1>7. CASE M_PostMutex
  BY <1>7 DEF M_PostMutex
<1>8. CASE M_PostEmpty
  BY <1>8 DEF M_PostEmpty
<1>9. CASE M_Imprimir
  BY <1>9 DEF M_Imprimir
<1>. QED
  BY <1>1, <1>2, <1>3, <1>4, <1>5, <1>6, <1>7, <1>8, <1>9 DEF MonitorHijo

LEMMA TipoSenales ==
  ASSUME TypeOK, Sigint \/ Entrega
  PROVE  TypeOK'
<1> USE DEF TypeOK, CPasa, EstadosC, cola, minero, memoria, semaforo, compr,
            monit, historia
<1>1. CASE Sigint
  BY <1>1, MonitorAssumption DEF Sigint
<1>2. CASE SigintMonitor
  BY <1>2 DEF SigintMonitor
<1>3. CASE SigintSinManejador
  BY <1>3 DEF SigintSinManejador
<1>4. CASE SigintSimple
  BY <1>4 DEF SigintSimple, catcher
<1>5. CASE EintrReceive
  BY <1>5, BloqueCambiado DEF EintrReceive, catcher
<1>6. CASE EintrEmpty
  BY <1>6 DEF EintrEmpty, catcher
<1>7. CASE EintrMutex
  BY <1>7 DEF EintrMutex, catcher
<1>8. CASE EintrWait
  BY <1>8 DEF EintrWait, catcher
<1>. QED
  BY <1>1, <1>2, <1>3, <1>4, <1>5, <1>6, <1>7, <1>8 DEF Entrega

LEMMA TipoIgual ==
  ASSUME TypeOK, UNCHANGED vars
  PROVE  TypeOK'
  BY DEF TypeOK, vars, cola, minero, memoria, semaforo, compr, monit,
         senales, historia

LEMMA TipoPaso == TypeOK /\ [Next]_vars => TypeOK'
  BY TipoMinero, TipoComprobador, TipoMonitor, TipoSenales, TipoIgual
  DEF Next, Programa, Parado

(* Every variable keeps its type: no step of the two processes, the miner   *)
(* or a signal takes front or rear out of the ring or a semaphore below 0.  *)
THEOREM TipoCorrecto == Spec => []TypeOK
  BY TipoPaso, TipoInicial, PTL DEF Spec

-----------------------------------------------------------------------------
(* The semaphores.                                                          *)

LEMMA CuentasIniciales == Init => Cuentas
<1> SUFFICES ASSUME Init PROVE Cuentas
  OBVIOUS
<1>1. BUFFER_SIZE \in Nat /\ pcC = "sigaction" /\ pcM = "mmap"
  BY MonitorAssumption DEF Init
<1>2. PorExtraer = 0
  <2>1. Len(anadidos) = 0 /\ Len(impresos) = 0
    BY DEF Init
  <2>2. Extraidos = 0
    BY <1>1, <2>1 DEF Extraidos, Copiado
  <2>. QED
    BY <2>1, <2>2 DEF PorExtraer
<1>3. CuentaMutex
  BY <1>1 DEF Init, CuentaMutex, CDentro, MDentro, Uno
<1>4. CuentaFill /\ CuentaEmpty
  BY <1>1, <1>2 DEF Init, CuentaFill, CuentaEmpty, Uno
<1>. QED
  BY <1>3, <1>4 DEF Cuentas

(* What the accounts depend on, and a step that leaves all of it alone.     *)
contable == <<sem_fill, sem_empty, sem_mutex, pcC, pcM, anadidos, impresos, eintr>>

LEMMA CuentasIguales ==
  ASSUME Cuentas, UNCHANGED contable
  PROVE  Cuentas'
  BY DEF contable, Cuentas, CuentaMutex, CuentaFill, CuentaEmpty, PorExtraer,
         Extraidos, Copiado, CDentro, MDentro

LEMMA CuentasComprobador ==
  ASSUME TypeOK, Cuentas, Comprobador
  PROVE  Cuentas'
<1> USE DEF Cuentas, CuentaMutex, CuentaFill, CuentaEmpty, PorExtraer,
            Extraidos, Copiado, CDentro, MDentro, Uno, CPasa,
            cola, minero, memoria, semaforo, monit, senales, historia
<1>0. sem_fill \in Nat /\ sem_empty \in Nat /\ sem_mutex \in Nat
      /\ anadidos \in Seq(Bloque) /\ Len(anadidos) \in Nat /\ Len(impresos) \in Nat
  BY DEF TypeOK
<1>1. CASE C_Sigaction \/ C_Mmap \/ C_MmapFalla \/ C_MqOpen \/ C_SinCola
  BY <1>0, <1>1 DEF C_Sigaction, C_Mmap, C_MmapFalla, C_MqOpen, C_SinCola
<1>2. CASE C_MqReceive \/ C_Comprobar \/ C_Anadir \/ C_Wait
  BY <1>0, <1>2 DEF C_MqReceive, C_Comprobar, C_Anadir, C_Wait
<1>3. CASE C_WaitEmpty
  BY <1>0, <1>3 DEF C_WaitEmpty
<1>4. CASE C_WaitMutex
  BY <1>0, <1>4 DEF C_WaitMutex
<1>5. CASE C_AnadirFin
  <2>1. Len(anadidos') = Len(anadidos) + 1
    BY <1>0, <1>5 DEF C_AnadirFin
  <2>. QED
    BY <1>0, <1>5, <2>1 DEF C_AnadirFin
<1>6. CASE C_PostMutex
  BY <1>0, <1>6 DEF C_PostMutex
<1>7. CASE C_PostFill
  BY <1>0, <1>7 DEF C_PostFill
<1>. QED
  BY <1>1, <1>2, <1>3, <1>4, <1>5, <1>6, <1>7 DEF Comprobador

LEMMA CuentasMonitor ==
  ASSUME TypeOK, Cuentas, MonitorHijo
  PROVE  Cuentas'
<1> USE DEF Cuentas, CuentaMutex, CuentaFill, CuentaEmpty, PorExtraer,
            Extraidos, Copiado, CDentro, MDentro, Uno, MPasa,
            cola, minero, memoria, semaforo, compr, senales, historia
<1>0. sem_fill \in Nat /\ sem_empty \in Nat /\ sem_mutex \in Nat
      /\ impresos \in Seq(Bloque) /\ Len(anadidos) \in Nat /\ Len(impresos) \in Nat
  BY DEF TypeOK
<1>1. CASE M_Mmap \/ M_MmapFalla \/ M_Extraer
  BY <1>0, <1>1 DEF M_Mmap, M_MmapFalla, M_Extraer
<1>2. CASE M_WaitFill
  BY <1>0, <1>2 DEF M_WaitFill
<1>3. CASE M_WaitMutex
  BY <1>0, <1>3 DEF M_WaitMutex
<1>4. CASE M_ExtraerFin
  <2>1. /\ pcM = "extraer_fin" /\ pcM' = "post_mutex"
        /\ UNCHANGED <<semaforo, pcC, historia>>
    BY <1>4 DEF M_ExtraerFin
  <2>. QED
    BY <1>0, <2>1
<1>5. CASE M_PostMutex
  BY <1>0, <1>5 DEF M_PostMutex
<1>6. CASE M_PostEmpty
  BY <1>0, <1>6 DEF M_PostEmpty
<1>7. CASE M_Imprimir
  <2>1. Len(impresos') = Len(impresos) + 1
    BY <1>0, <1>7 DEF M_Imprimir
  <2>. QED
    BY <1>0, <1>7, <2>1 DEF M_Imprimir
<1>. QED
  BY <1>1, <1>2, <1>3, <1>4, <1>5, <1>6, <1>7 DEF MonitorHijo

(* A sem_wait cut short raises eintr; the other signals disturb no account. *)
LEMMA CuentasEntrega ==
  ASSUME TypeOK, Cuentas, Entrega
  PROVE  Cuentas'
<1> USE DEF cola, minero, memoria, semaforo, compr, monit, historia
<1>1. CASE SigintMonitor \/ SigintSimple
  <2>1. UNCHANGED contable
    BY <1>1 DEF SigintMonitor, SigintSimple, catcher, contable
  <2>. QED
    BY <2>1, CuentasIguales
<1>2. CASE SigintSinManejador \/ EintrReceive \/ EintrWait
  BY <1>2 DEF SigintSinManejador, EintrReceive, EintrWait, catcher, CPasa,
              Cuentas, CuentaMutex, CuentaFill, CuentaEmpty, PorExtraer,
              Extraidos, Copiado, CDentro, MDentro, Uno
<1>3. CASE EintrEmpty \/ EintrMutex
  BY <1>3 DEF EintrEmpty, EintrMutex, Cuentas
<1>. QED
  BY <1>1, <1>2, <1>3 DEF Entrega

LEMMA CuentasPaso ==
  ASSUME TypeOK, Cuentas, [Next]_vars
  PROVE  Cuentas'
<1>1. CASE Comprobador
  BY <1>1, CuentasComprobador
<1>2. CASE MonitorHijo
  BY <1>2, CuentasMonitor
<1>3. CASE Entrega
  BY <1>3, CuentasEntrega
<1>4. CASE MineroEnvia \/ MineroTermina \/ MineroCalla \/ Sigint \/ UNCHANGED vars
  <2>1. UNCHANGED contable
    BY <1>4 DEF MineroEnvia, MineroTermina, MineroCalla, Sigint, contable,
                vars, memoria, semaforo, compr, monit, historia
  <2>. QED
    BY <2>1, CuentasIguales
<1>. QED
  BY <1>1, <1>2, <1>3, <1>4 DEF Next, Programa, Parado

(* The values of the three semaphores account for every slot of the ring and*)
(* for who is inside it, until a sem_wait is cut short.                     *)
THEOREM CuentasCorrectas == Spec => []Cuentas
<1>1. TypeOK /\ Cuentas /\ [Next]_vars => Cuentas'
  BY CuentasPaso
<1>. QED
  BY <1>1, CuentasIniciales, TipoCorrecto, PTL DEF Spec

(* The two processes are never inside the ring's critical section together, *)
(* for any size of the ring, unless a signal has cut a sem_wait short.      *)
THEOREM ExclusionSegura == Spec => []ExclusionMutua
<1>1. TypeOK /\ Cuentas => ExclusionMutua
  BY DEF TypeOK, Cuentas, CuentaMutex, Uno, ExclusionMutua
<1>. QED
  BY <1>1, TipoCorrecto, CuentasCorrectas, PTL

(* The Comprobador copies a block only into a slot the Monitor has read.    *)
THEOREM RanuraSegura == Spec => []NoSobrescribe
<1>1. TypeOK /\ Cuentas => NoSobrescribe
  BY MonitorAssumption
  DEF TypeOK, Cuentas, CuentaEmpty, Uno, NoSobrescribe, RanuraLibre, PorExtraer,
      Extraidos
<1>. QED
  BY <1>1, TipoCorrecto, CuentasCorrectas, PTL

-----------------------------------------------------------------------------
(* The ring.  A position is an offset from front, and an offset is at most  *)
(* BUFFER_SIZE, so a remainder takes BUFFER_SIZE away at most once.         *)

LEMMA RestoMenor ==
  ASSUME NEW B \in Nat \ {0}, NEW x \in 0 .. 2 * B - 1
  PROVE  x % B = IF x < B THEN x ELSE x - B
<1>1. CASE x \in 0 .. B - 1
  <2>1. x % B = x
    BY <1>1
  <2>. QED
    BY <1>1, <2>1
<1>2. CASE x \in B .. 2 * B - 1
  <2>1. x % B = x - B
    BY <1>2
  <2>. QED
    BY <1>2, <2>1
<1>. QED
  BY <1>1, <1>2

LEMMA RestoSuma ==
  ASSUME NEW f \in Ranuras, NEW n \in 0 .. BUFFER_SIZE
  PROVE  (f + n) % BUFFER_SIZE =
           IF f + n < BUFFER_SIZE THEN f + n ELSE (f + n) - BUFFER_SIZE
<1>1. BUFFER_SIZE \in Nat \ {0} /\ f + n \in 0 .. 2 * BUFFER_SIZE - 1
  BY MonitorAssumption DEF Ranuras
<1>. QED
  BY <1>1, RestoMenor

LEMMA RestoEnRanuras ==
  ASSUME NEW f \in Ranuras, NEW n \in 0 .. BUFFER_SIZE
  PROVE  (f + n) % BUFFER_SIZE \in Ranuras
  BY RestoSuma, MonitorAssumption DEF Ranuras

(* Two offsets below BUFFER_SIZE are two slots.                             *)
LEMMA RestoDistinto ==
  ASSUME NEW f \in Ranuras, NEW j \in Ranuras, NEW n \in Ranuras, j # n
  PROVE  (f + j) % BUFFER_SIZE # (f + n) % BUFFER_SIZE
<1>1. j \in 0 .. BUFFER_SIZE /\ n \in 0 .. BUFFER_SIZE
  BY MonitorAssumption DEF Ranuras
<1>2. /\ (f + j) % BUFFER_SIZE = IF f + j < BUFFER_SIZE THEN f + j ELSE (f + j) - BUFFER_SIZE
      /\ (f + n) % BUFFER_SIZE = IF f + n < BUFFER_SIZE THEN f + n ELSE (f + n) - BUFFER_SIZE
  BY <1>1, RestoSuma
<1>. QED
  BY <1>2, MonitorAssumption DEF Ranuras

(* rear moves on by one, and so does front.                                 *)
LEMMA RestoSiguiente ==
  ASSUME NEW f \in Ranuras, NEW n \in Ranuras
  PROVE  /\ (((f + n) % BUFFER_SIZE) + 1) % BUFFER_SIZE = (f + (n + 1)) % BUFFER_SIZE
         /\ (((f + 1) % BUFFER_SIZE) + n) % BUFFER_SIZE = (f + (n + 1)) % BUFFER_SIZE
<1>1. /\ n \in 0 .. BUFFER_SIZE /\ n + 1 \in 0 .. BUFFER_SIZE /\ 1 \in 0 .. BUFFER_SIZE
  BY MonitorAssumption DEF Ranuras
<1> DEFINE g == (f + n) % BUFFER_SIZE
           h == (f + 1) % BUFFER_SIZE
           k == (f + (n + 1)) % BUFFER_SIZE
<1>2. g \in Ranuras /\ h \in Ranuras
  BY <1>1, RestoEnRanuras
<1>3. /\ g = IF f + n < BUFFER_SIZE THEN f + n ELSE (f + n) - BUFFER_SIZE
      /\ h = IF f + 1 < BUFFER_SIZE THEN f + 1 ELSE (f + 1) - BUFFER_SIZE
      /\ k = IF f + (n + 1) < BUFFER_SIZE THEN f + (n + 1) ELSE (f + (n + 1)) - BUFFER_SIZE
  BY <1>1, RestoSuma
<1> HIDE DEF g, h, k
<1>4. /\ (g + 1) % BUFFER_SIZE = IF g + 1 < BUFFER_SIZE THEN g + 1 ELSE (g + 1) - BUFFER_SIZE
      /\ (h + n) % BUFFER_SIZE = IF h + n < BUFFER_SIZE THEN h + n ELSE (h + n) - BUFFER_SIZE
  BY <1>1, <1>2, RestoSuma
<1>5. (g + 1) % BUFFER_SIZE = k /\ (h + n) % BUFFER_SIZE = k
  BY <1>3, <1>4, MonitorAssumption DEF Ranuras
<1>. QED
  BY <1>5 DEF g, h, k

(* A block with its own flags put back is itself.                           *)
LEMMA BanderasRestauradas ==
  ASSUME NEW b \in Bloque, NEW x, NEW y
  PROVE  b = [[b EXCEPT !.correcto = x, !.fin = y] EXCEPT !.correcto = b.correcto, !.fin = b.fin]
  BY DEF Bloque

(* What the accounts say of the ring's contents.                            *)
LEMMA Ocupacion ==
  ASSUME TypeOK, Cuentas, ~eintr
  PROVE  /\ Extraidos \in Nat /\ PorExtraer \in 0 .. BUFFER_SIZE
         /\ Len(anadidos) = Extraidos + PorExtraer
         /\ pcC \in {"anadir", "anadir_fin"} => PorExtraer \in Ranuras /\ ~MDentro
         /\ pcM \in {"sem_mutex", "extraer", "extraer_fin"} => PorExtraer >= 1
         /\ pcM \in {"extraer", "extraer_fin"} => ~CDentro
<1>1. /\ Len(anadidos) \in Nat /\ Len(impresos) \in Nat
      /\ sem_fill \in Nat /\ sem_empty \in Nat /\ sem_mutex \in Nat
      /\ BUFFER_SIZE \in Nat
  BY MonitorAssumption DEF TypeOK
<1>2. Extraidos \in Nat /\ PorExtraer \in Int /\ Len(anadidos) = Extraidos + PorExtraer
  BY <1>1 DEF Extraidos, PorExtraer
<1>3. PorExtraer \in 0 .. BUFFER_SIZE
  BY <1>1, <1>2 DEF Cuentas, CuentaFill, CuentaEmpty, Uno
<1>4. /\ pcC \in {"anadir", "anadir_fin"} => PorExtraer \in Ranuras
      /\ pcM \in {"sem_mutex", "extraer", "extraer_fin"} => PorExtraer >= 1
  BY <1>1, <1>3 DEF Cuentas, CuentaFill, CuentaEmpty, Uno, Ranuras
<1>5. ~(CDentro /\ MDentro)
  BY <1>1 DEF Cuentas, CuentaMutex, Uno
<1>. QED
  BY <1>2, <1>3, <1>4, <1>5 DEF CDentro, MDentro

Fifo == Anillo /\ OrdenFifo

(* A step that moves no block, begins no copy and goes back to no start.    *)
LEMMA FifoIgual ==
  ASSUME Fifo,
         UNCHANGED <<bloque, front, rear, bloque_monitor, anadidos, impresos, eintr>>,
         Copiado' <=> Copiado,
         pcC' = "anadir_fin" => pcC = "anadir_fin" /\ bloque_mq' = bloque_mq,
         pcM' = "extraer_fin" => pcM = "extraer_fin",
         pcC' \in {"sigaction", "mmap"} => pcC \in {"sigaction", "mmap"}
  PROVE  Fifo'
<1>1. Extraidos' = Extraidos /\ PorExtraer' = PorExtraer
  BY DEF Extraidos, PorExtraer
<1>2. AnilloInicial'
  BY DEF Fifo, Anillo, AnilloInicial
<1>3. ASSUME ~eintr PROVE AnilloLleno' /\ CopiaEnCurso'
  BY <1>1, <1>3 DEF Fifo, Anillo, AnilloLleno, CopiaEnCurso
<1>4. OrdenFifo'
  BY <1>1 DEF Fifo, OrdenFifo
<1>. QED
  BY <1>2, <1>3, <1>4 DEF Fifo, Anillo

LEMMA FifoAnadir ==
  ASSUME TypeOK, Cuentas, Fifo, C_Anadir
  PROVE  Fifo'
<1> DEFINE n == PorExtraer
           nuevo == [bloque_mq EXCEPT !.correcto = bloque[rear].correcto,
                                      !.fin = bloque[rear].fin]
<1>1. /\ pcC = "anadir" /\ pcC' = "anadir_fin"
      /\ bloque' = [bloque EXCEPT ![rear] = nuevo]
      /\ UNCHANGED <<front, rear, bloque_mq, pcM, bloque_monitor, anadidos, impresos, eintr>>
  BY DEF C_Anadir, CPasa, monit, historia
<1>2. Extraidos' = Extraidos /\ PorExtraer' = PorExtraer /\ (Copiado' <=> Copiado)
  BY <1>1 DEF Extraidos, PorExtraer, Copiado
<1>3. AnilloInicial' /\ OrdenFifo'
  BY <1>1, <1>2 DEF Fifo, AnilloInicial, OrdenFifo
<1>4. ASSUME ~eintr PROVE AnilloLleno' /\ CopiaEnCurso'
  <2>1. n \in Ranuras /\ ~MDentro
    BY <1>1, <1>4, Ocupacion
  <2>2. /\ rear = (front + n) % BUFFER_SIZE
        /\ front \in Ranuras /\ rear \in Ranuras /\ bloque \in [Ranuras -> Bloque]
    BY <1>4 DEF TypeOK, Fifo, Anillo, AnilloLleno
  <2>3. ASSUME NEW j \in 0 .. n - 1
        PROVE  bloque'[(front + j) % BUFFER_SIZE] = anadidos[Extraidos + 1 + j]
    <3>1. j \in Ranuras /\ j # n /\ j \in 0 .. BUFFER_SIZE
      BY <2>1, MonitorAssumption DEF Ranuras
    <3>2. (front + j) % BUFFER_SIZE # rear /\ (front + j) % BUFFER_SIZE \in Ranuras
      BY <2>1, <2>2, <3>1, RestoDistinto, RestoEnRanuras
    <3>3. bloque[(front + j) % BUFFER_SIZE] = anadidos[Extraidos + 1 + j]
      BY <1>4 DEF Fifo, Anillo, AnilloLleno
    <3>. QED
      BY <1>1, <2>2, <3>2, <3>3
  <2>4. AnilloLleno'
    BY <1>1, <1>2, <2>2, <2>3 DEF AnilloLleno
  <2>5. bloque_mq = [bloque'[rear] EXCEPT !.correcto = bloque_mq.correcto,
                                          !.fin = bloque_mq.fin]
    BY <1>1, <2>2, BanderasRestauradas DEF TypeOK
  <2>6. pcM' # "extraer_fin"
    BY <1>1, <2>1 DEF MDentro
  <2>7. CopiaEnCurso'
    BY <1>1, <2>5, <2>6 DEF CopiaEnCurso
  <2>. QED
    BY <2>4, <2>7
<1>. QED
  BY <1>1, <1>3, <1>4 DEF Fifo, Anillo

LEMMA FifoAnadirFin ==
  ASSUME TypeOK, Cuentas, Fifo, C_AnadirFin
  PROVE  Fifo'
<1> DEFINE n == PorExtraer
<1>1. /\ pcC = "anadir_fin" /\ pcC' = "post_mutex"
      /\ bloque' = [bloque EXCEPT ![rear] = [bloque[rear] EXCEPT !.correcto = bloque_mq.correcto,
                                                                !.fin = bloque_mq.fin]]
      /\ rear' = (rear + 1) % BUFFER_SIZE
      /\ anadidos' = Append(anadidos, bloque_mq)
      /\ UNCHANGED <<front, bloque_mq, pcM, bloque_monitor, impresos, eintr>>
  BY DEF C_AnadirFin, CPasa, monit
<1>2. /\ Len(anadidos') = Len(anadidos) + 1
      /\ \A i \in 1 .. Len(anadidos) : anadidos'[i] = anadidos[i]
      /\ anadidos'[Len(anadidos) + 1] = bloque_mq
      /\ Len(anadidos) \in Nat /\ Len(impresos) \in Nat
  BY <1>1 DEF TypeOK
<1>3. /\ Extraidos' = Extraidos /\ PorExtraer' = PorExtraer + 1
      /\ (Copiado' <=> Copiado) /\ Extraidos \in Nat
  BY <1>1, <1>2 DEF Extraidos, PorExtraer, Copiado
<1>4. AnilloInicial'
  BY <1>1 DEF AnilloInicial
<1>5. ASSUME ~eintr PROVE AnilloLleno' /\ CopiaEnCurso' /\ OrdenFifo'
  <2>1. n \in Ranuras /\ ~MDentro /\ Len(anadidos) = Extraidos + n
    BY <1>1, <1>5, Ocupacion
  <2>2. /\ rear = (front + n) % BUFFER_SIZE
        /\ front \in Ranuras /\ rear \in Ranuras /\ bloque \in [Ranuras -> Bloque]
    BY <1>5 DEF TypeOK, Fifo, Anillo, AnilloLleno
  <2>3. bloque'[rear] = bloque_mq
    BY <1>1, <1>5, <2>2 DEF Fifo, Anillo, CopiaEnCurso
  <2>4. ASSUME NEW j \in 0 .. n
        PROVE  bloque'[(front + j) % BUFFER_SIZE] = anadidos'[Extraidos + 1 + j]
    <3>1. CASE j = n
      <4>1. Extraidos + 1 + j = Len(anadidos) + 1
        BY <1>3, <2>1, <3>1 DEF Ranuras
      <4>. QED
        BY <1>2, <2>2, <2>3, <3>1, <4>1
    <3>2. CASE j # n
      <4>1. j \in Ranuras /\ j \in 0 .. BUFFER_SIZE /\ j \in 0 .. n - 1
        BY <2>1, <3>2, MonitorAssumption DEF Ranuras
      <4>2. (front + j) % BUFFER_SIZE # rear /\ (front + j) % BUFFER_SIZE \in Ranuras
        BY <2>1, <2>2, <3>2, <4>1, RestoDistinto, RestoEnRanuras
      <4>3. bloque[(front + j) % BUFFER_SIZE] = anadidos[Extraidos + 1 + j]
        BY <1>5, <4>1 DEF Fifo, Anillo, AnilloLleno
      <4>4. Extraidos + 1 + j \in 1 .. Len(anadidos)
        BY <1>3, <2>1, <4>1 DEF Ranuras
      <4>. QED
        BY <1>1, <1>2, <2>2, <4>2, <4>3, <4>4
    <3>. QED
      BY <3>1, <3>2
  <2>5. rear' = (front + (n + 1)) % BUFFER_SIZE
    BY <1>1, <2>1, <2>2, RestoSiguiente
  <2>6. AnilloLleno'
    <3>1. (n + 1) - 1 = n
      BY <2>1 DEF Ranuras
    <3>. QED
      BY <1>1, <1>3, <2>4, <2>5, <3>1 DEF AnilloLleno
  <2>7. CopiaEnCurso'
    BY <1>1, <2>1 DEF CopiaEnCurso, MDentro
  <2>8. Extraidos <= Len(anadidos) /\ Len(impresos) <= Extraidos
    BY <1>2, <1>3, <2>1 DEF Extraidos, Ranuras
  <2>9. OrdenFifo'
    <3>1. \A i \in 1 .. Len(impresos) : anadidos'[i] = anadidos[i]
      BY <1>2, <1>3, <2>8
    <3>2. Copiado => anadidos'[Extraidos] = anadidos[Extraidos]
      <4>1. Copiado => Extraidos \in 1 .. Len(anadidos)
        BY <1>2, <2>8 DEF Extraidos
      <4>. QED
        BY <1>2, <4>1
    <3>3. \A i \in 1 .. Len(impresos) : impresos[i] = anadidos[i]
      BY <1>5 DEF OrdenFifo, Fifo
    <3>4. Copiado => bloque_monitor = anadidos[Extraidos]
      BY <1>5 DEF OrdenFifo, Fifo
    <3>5. Extraidos' <= Len(anadidos')
      BY <1>2, <1>3, <2>8
    <3>6. \A i \in 1 .. Len(impresos') : impresos'[i] = anadidos'[i]
      BY <1>1, <3>1, <3>3
    <3>7. Copiado' => bloque_monitor' = anadidos'[Extraidos']
      BY <1>1, <1>3, <3>2, <3>4
    <3>. QED
      BY <3>5, <3>6, <3>7 DEF OrdenFifo
  <2>. QED
    BY <2>6, <2>7, <2>9
<1>6. eintr => OrdenFifo'
  BY <1>1 DEF OrdenFifo
<1>. QED
  BY <1>1, <1>4, <1>5, <1>6 DEF Fifo, Anillo

LEMMA FifoExtraer ==
  ASSUME TypeOK, Cuentas, Fifo, M_Extraer
  PROVE  Fifo'
<1>1. /\ pcM = "extraer" /\ pcM' = "extraer_fin"
      /\ bloque_monitor' = [bloque[front] EXCEPT !.correcto = bloque_monitor.correcto,
                                                 !.fin = bloque_monitor.fin]
      /\ UNCHANGED <<bloque, front, rear, pcC, bloque_mq, anadidos, impresos, eintr>>
  BY DEF M_Extraer, MPasa, memoria, compr, historia
<1>2. Extraidos' = Extraidos /\ PorExtraer' = PorExtraer /\ ~Copiado'
  BY <1>1 DEF Extraidos, PorExtraer, Copiado
<1>3. AnilloInicial' /\ OrdenFifo'
  BY <1>1, <1>2 DEF Fifo, Anillo, AnilloInicial, OrdenFifo
<1>4. ASSUME ~eintr PROVE AnilloLleno' /\ CopiaEnCurso'
  <2>1. AnilloLleno'
    BY <1>1, <1>2, <1>4 DEF Fifo, Anillo, AnilloLleno
  <2>2. bloque[front] \in Bloque
    BY DEF TypeOK
  <2>3. bloque[front] = [bloque_monitor' EXCEPT !.correcto = bloque[front].correcto,
                                                !.fin = bloque[front].fin]
    BY <1>1, <2>2, BanderasRestauradas
  <2>4. pcC' # "anadir_fin"
    BY <1>1, <1>4, Ocupacion DEF CDentro
  <2>. QED
    BY <1>1, <2>1, <2>3, <2>4 DEF CopiaEnCurso
<1>. QED
  BY <1>1, <1>3, <1>4 DEF Fifo, Anillo

LEMMA FifoExtraerFin ==
  ASSUME TypeOK, Cuentas, Fifo, M_ExtraerFin
  PROVE  Fifo'
<1> DEFINE n == PorExtraer
<1>1. /\ pcM = "extraer_fin" /\ pcM' = "post_mutex"
      /\ bloque_monitor' = [bloque_monitor EXCEPT !.correcto = bloque[front].correcto,
                                                  !.fin = bloque[front].fin]
      /\ front' = (front + 1) % BUFFER_SIZE
      /\ UNCHANGED <<bloque, rear, pcC, bloque_mq, anadidos, impresos, eintr>>
  BY DEF M_ExtraerFin, MPasa, compr, historia
<1>2. /\ Extraidos' = Extraidos + 1 /\ PorExtraer' = PorExtraer - 1
      /\ Copiado' /\ Extraidos = Len(impresos) /\ Len(impresos) \in Nat
  BY <1>1 DEF TypeOK, Extraidos, PorExtraer, Copiado
<1>3. ASSUME ~eintr
      PROVE AnilloInicial' /\ AnilloLleno' /\ CopiaEnCurso' /\ OrdenFifo'
  <2>1. /\ n \in 1 .. BUFFER_SIZE /\ ~CDentro /\ Len(anadidos) = Extraidos + n
        /\ n - 1 \in Ranuras
    BY <1>1, <1>3, Ocupacion, MonitorAssumption DEF Ranuras
  <2>2. /\ rear = (front + n) % BUFFER_SIZE
        /\ front \in Ranuras
        /\ \A j \in 0 .. n - 1 :
             bloque[(front + j) % BUFFER_SIZE] = anadidos[Extraidos + 1 + j]
    BY <1>3 DEF TypeOK, Fifo, Anillo, AnilloLleno
  <2>3. AnilloInicial'
    <3>1. anadidos # <<>>
      BY <1>2, <2>1
    <3>. QED
      BY <1>1, <3>1 DEF Fifo, Anillo, AnilloInicial
  <2>4. AnilloLleno'
    <3>1. rear = (front' + (n - 1)) % BUFFER_SIZE
      <4>1. (n - 1) + 1 = n
        BY <2>1
      <4>. QED
        BY <1>1, <2>1, <2>2, <4>1, RestoSiguiente
    <3>2. ASSUME NEW j \in 0 .. (n - 1) - 1
          PROVE  bloque[(front' + j) % BUFFER_SIZE] = anadidos[(Extraidos + 1) + 1 + j]
      <4>1. j \in Ranuras /\ j + 1 \in 0 .. n - 1
        BY <2>1, MonitorAssumption DEF Ranuras
      <4>2. (front' + j) % BUFFER_SIZE = (front + (j + 1)) % BUFFER_SIZE
        BY <1>1, <2>2, <4>1, RestoSiguiente
      <4>3. Extraidos + 1 + (j + 1) = (Extraidos + 1) + 1 + j
        BY <1>2, <4>1
      <4>. QED
        BY <2>2, <4>1, <4>2, <4>3
    <3>. QED
      BY <1>1, <1>2, <3>1, <3>2 DEF AnilloLleno
  <2>5. CopiaEnCurso'
    BY <1>1, <2>1 DEF CopiaEnCurso, CDentro
  <2>6. bloque_monitor' = bloque[front]
    BY <1>1, <1>3 DEF Fifo, Anillo, CopiaEnCurso
  <2>7. bloque[front] = anadidos[Extraidos + 1]
    <3>1. (front + 0) % BUFFER_SIZE = front
      <4>1. 0 \in 0 .. BUFFER_SIZE /\ front + 0 = front /\ front < BUFFER_SIZE
        BY <2>2, MonitorAssumption DEF Ranuras
      <4>. QED
        BY <2>2, <4>1, RestoSuma
    <3>2. bloque[(front + 0) % BUFFER_SIZE] = anadidos[Extraidos + 1 + 0]
      BY <2>1, <2>2
    <3>3. Extraidos + 1 + 0 = Extraidos + 1
      BY <1>2
    <3>. QED
      BY <3>1, <3>2, <3>3
  <2>8. OrdenFifo'
    <3>1. Extraidos' <= Len(anadidos')
      BY <1>1, <1>2, <2>1
    <3>2. \A i \in 1 .. Len(impresos') : impresos'[i] = anadidos'[i]
      BY <1>1, <1>3 DEF Fifo, OrdenFifo
    <3>3. bloque_monitor' = anadidos'[Extraidos']
      BY <1>1, <1>2, <2>6, <2>7
    <3>. QED
      BY <3>1, <3>2, <3>3 DEF OrdenFifo
  <2>. QED
    BY <2>3, <2>4, <2>5, <2>8
<1>4. ASSUME eintr PROVE AnilloInicial' /\ OrdenFifo'
  BY <1>1, <1>4 DEF Fifo, Anillo, AnilloInicial, OrdenFifo
<1>. QED
  BY <1>1, <1>3, <1>4 DEF Fifo, Anillo

LEMMA FifoImprimir ==
  ASSUME TypeOK, Cuentas, Fifo, M_Imprimir
  PROVE  Fifo'
<1>1. /\ pcM = "imprimir" /\ pcM' = "sem_fill"
      /\ impresos' = Append(impresos, bloque_monitor)
      /\ UNCHANGED <<bloque, front, rear, pcC, bloque_mq, bloque_monitor, anadidos, eintr>>
  BY DEF M_Imprimir, MPasa, memoria, compr
<1>2. /\ Len(impresos') = Len(impresos) + 1
      /\ \A i \in 1 .. Len(impresos) : impresos'[i] = impresos[i]
      /\ impresos'[Len(impresos) + 1] = bloque_monitor
      /\ Len(impresos) \in Nat /\ Len(anadidos) \in Nat
  BY <1>1 DEF TypeOK
<1>3. /\ Extraidos = Len(impresos) + 1 /\ Extraidos' = Extraidos
      /\ PorExtraer' = PorExtraer /\ ~Copiado' /\ Copiado
  BY <1>1, <1>2 DEF Extraidos, PorExtraer, Copiado
<1>4. AnilloInicial'
  BY <1>1 DEF Fifo, Anillo, AnilloInicial
<1>5. ASSUME ~eintr PROVE AnilloLleno' /\ CopiaEnCurso'
  BY <1>1, <1>3, <1>5 DEF Fifo, Anillo, AnilloLleno, CopiaEnCurso
<1>6. ASSUME ~eintr PROVE OrdenFifo'
  <2>1. /\ Extraidos <= Len(anadidos) /\ bloque_monitor = anadidos[Extraidos]
        /\ \A i \in 1 .. Len(impresos) : impresos[i] = anadidos[i]
    BY <1>3, <1>6 DEF Fifo, OrdenFifo
  <2>2. \A i \in 1 .. Len(impresos') : impresos'[i] = anadidos'[i]
    BY <1>1, <1>2, <1>3, <2>1
  <2>. QED
    BY <1>1, <1>3, <2>1, <2>2 DEF OrdenFifo
<1>7. eintr => OrdenFifo'
  BY <1>1 DEF OrdenFifo
<1>. QED
  BY <1>1, <1>4, <1>5, <1>6, <1>7 DEF Fifo, Anillo

LEMMA FifoComprobador ==
  ASSUME TypeOK, Cuentas, Fifo, Comprobador
  PROVE  Fifo'
<1> USE DEF CPasa, memoria, semaforo, monit, historia
<1>1. CASE C_Sigaction \/ C_MmapFalla \/ C_MqOpen \/ C_SinCola
  BY <1>1, FifoIgual DEF C_Sigaction, C_MmapFalla, C_MqOpen, C_SinCola, Copiado
<1>2. CASE C_Mmap
  <2>1. front' = front /\ rear' = rear
    BY <1>2 DEF C_Mmap, Fifo, Anillo, AnilloInicial
  <2>. QED
    BY <1>2, <2>1, FifoIgual DEF C_Mmap, Copiado
<1>3. CASE C_MqReceive \/ C_Comprobar \/ C_WaitEmpty \/ C_WaitMutex
  BY <1>3, FifoIgual DEF C_MqReceive, C_Comprobar, C_WaitEmpty, C_WaitMutex, Copiado
<1>4. CASE C_PostMutex \/ C_PostFill \/ C_Wait
  BY <1>4, FifoIgual DEF C_PostMutex, C_PostFill, C_Wait, Copiado
<1>. QED
  BY <1>1, <1>2, <1>3, <1>4, FifoAnadir, FifoAnadirFin DEF Comprobador

LEMMA FifoMonitor ==
  ASSUME TypeOK, Cuentas, Fifo, MonitorHijo
  PROVE  Fifo'
<1> USE DEF MPasa, memoria, semaforo, compr, historia
<1>1. CASE M_Mmap \/ M_MmapFalla \/ M_WaitFill \/ M_WaitMutex
  BY <1>1, FifoIgual DEF M_Mmap, M_MmapFalla, M_WaitFill, M_WaitMutex, Copiado
<1>2. CASE M_PostMutex \/ M_PostEmpty
  BY <1>2, FifoIgual DEF M_PostMutex, M_PostEmpty, Copiado
<1>. QED
  BY <1>1, <1>2, FifoExtraer, FifoExtraerFin, FifoImprimir DEF MonitorHijo

LEMMA FifoEntrega ==
  ASSUME TypeOK, Fifo, Entrega
  PROVE  Fifo'
<1> USE DEF CPasa, compr, memoria, semaforo, monit, historia, catcher
<1>1. CASE SigintMonitor \/ SigintSinManejador \/ SigintSimple
  BY <1>1, FifoIgual DEF SigintMonitor, SigintSinManejador, SigintSimple, Copiado
<1>2. CASE EintrReceive \/ EintrWait
  BY <1>2, FifoIgual DEF EintrReceive, EintrWait, Copiado
<1>3. CASE EintrEmpty \/ EintrMutex
  <2>1. eintr' /\ pcC' \in {"sem_mutex", "anadir"}
    BY <1>3 DEF EintrEmpty, EintrMutex
  <2>. QED
    BY <2>1 DEF Fifo, Anillo, AnilloInicial, OrdenFifo
<1>. QED
  BY <1>1, <1>2, <1>3 DEF Entrega

LEMMA FifoInicial == Init => Fifo
<1> SUFFICES ASSUME Init PROVE Fifo
  OBVIOUS
<1>1. /\ pcC = "sigaction" /\ pcM = "mmap" /\ front = 0 /\ rear = 0 /\ eintr = FALSE
      /\ anadidos = <<>> /\ impresos = <<>>
  BY DEF Init
<1>2. Len(anadidos) = 0 /\ Len(impresos) = 0
  BY <1>1
<1>3. Extraidos = 0 /\ PorExtraer = 0
  <2>1. Extraidos = 0
    BY <1>1, <1>2 DEF Extraidos, Copiado
  <2>. QED
    BY <1>2, <2>1 DEF PorExtraer
<1>4. (0 + 0) % BUFFER_SIZE = 0
  BY MonitorAssumption
<1>5. Anillo
  BY <1>1, <1>3, <1>4 DEF Anillo, AnilloInicial, AnilloLleno, CopiaEnCurso
<1>6. OrdenFifo
  BY <1>1, <1>2, <1>3 DEF OrdenFifo, Copiado
<1>. QED
  BY <1>5, <1>6 DEF Fifo

LEMMA FifoPaso ==
  ASSUME TypeOK, Cuentas, Fifo, [Next]_vars
  PROVE  Fifo'
<1>1. CASE MineroEnvia \/ MineroTermina \/ MineroCalla \/ Sigint \/ UNCHANGED vars
  BY <1>1, FifoIgual
  DEF MineroEnvia, MineroTermina, MineroCalla, Sigint, vars, memoria,
      semaforo, compr, monit, historia, Copiado
<1>. QED
  BY <1>1, FifoComprobador, FifoMonitor, FifoEntrega DEF Next, Programa, Parado

(* The ring holds the blocks put in and not taken out, in their order, and  *)
(* what has come out is what went in, until a sem_wait is cut short.        *)
THEOREM FifoCorrecto == Spec => []Fifo
<1>1. TypeOK /\ Cuentas /\ Fifo /\ [Next]_vars => Fifo'
  BY FifoPaso
<1>. QED
  BY <1>1, FifoInicial, TipoCorrecto, CuentasCorrectas, PTL DEF Spec

(* Block by block and with no torn copy, the Monitor takes out what the     *)
(* Comprobador put in, in the same order.                                   *)
THEOREM OrdenSeguro == Spec => []OrdenFifo
<1>1. Fifo => OrdenFifo
  BY DEF Fifo
<1>. QED
  BY <1>1, FifoCorrecto, PTL

-----------------------------------------------------------------------------
(* The verdicts.                                                            *)

(* What Sellados depends on, and a step that leaves all of it alone.        *)
LEMMA SelladosIgual ==
  ASSUME Sellados, UNCHANGED <<anadidos, impresos>>,
         pcC' \in {"sem_empty", "sem_mutex", "anadir", "anadir_fin"} =>
           /\ pcC \in {"sem_empty", "sem_mutex", "anadir", "anadir_fin"}
           /\ bloque_mq' = bloque_mq,
         pcM' = "imprimir" => pcM = "imprimir" /\ bloque_monitor' = bloque_monitor
  PROVE  Sellados'
  BY DEF Sellados, ConVeredicto

LEMMA SelladosPaso ==
  ASSUME TypeOK, Sellados, [Next]_vars
  PROVE  Sellados'
<1> USE DEF cola, minero, memoria, semaforo, compr, monit, senales, historia,
            CPasa, MPasa
<1>1. CASE C_Comprobar
  <2>1. ConVeredicto(Sello(bloque_mq))
    BY DEF TypeOK, Bloque, ConVeredicto, Sello, Resuelto
  <2>. QED
    BY <1>1, <2>1 DEF C_Comprobar, Sellados, ConVeredicto
<1>2. CASE C_AnadirFin
  <2>1. /\ Len(anadidos') = Len(anadidos) + 1
        /\ \A i \in 1 .. Len(anadidos) : anadidos'[i] = anadidos[i]
        /\ anadidos'[Len(anadidos) + 1] = bloque_mq
        /\ Len(anadidos) \in Nat
    BY <1>2 DEF C_AnadirFin, TypeOK
  <2>2. ConVeredicto(bloque_mq)
    BY <1>2 DEF C_AnadirFin, Sellados
  <2>3. \A i \in 1 .. Len(anadidos') : ConVeredicto(anadidos'[i])
    BY <2>1, <2>2 DEF Sellados
  <2>. QED
    BY <1>2, <2>3 DEF C_AnadirFin, Sellados, ConVeredicto
<1>3. CASE M_PostEmpty
  BY <1>3 DEF M_PostEmpty, Sellados, ConVeredicto
<1>4. CASE M_Imprimir
  <2>1. /\ Len(impresos') = Len(impresos) + 1
        /\ \A i \in 1 .. Len(impresos) : impresos'[i] = impresos[i]
        /\ impresos'[Len(impresos) + 1] = bloque_monitor
        /\ Len(impresos) \in Nat
    BY <1>4 DEF M_Imprimir, TypeOK
  <2>2. \A i \in 1 .. Len(impresos') : ~impresos'[i].fin
    BY <1>4, <2>1 DEF M_Imprimir, Sellados
  <2>. QED
    BY <1>4, <2>2 DEF M_Imprimir, Sellados, ConVeredicto
<1>5. CASE EintrReceive
  <2>1. ConVeredicto([bloque_mq EXCEPT !.fin = TRUE])
    BY DEF TypeOK, Bloque, ConVeredicto
  <2>. QED
    BY <1>5, <2>1 DEF EintrReceive, catcher, Sellados, ConVeredicto
<1>6. CASE C_Sigaction \/ C_Mmap \/ C_MmapFalla \/ C_MqOpen \/ C_SinCola
  BY <1>6, SelladosIgual
  DEF C_Sigaction, C_Mmap, C_MmapFalla, C_MqOpen, C_SinCola
<1>7. CASE C_MqReceive \/ C_WaitEmpty \/ C_WaitMutex \/ C_Anadir
  BY <1>7, SelladosIgual DEF C_MqReceive, C_WaitEmpty, C_WaitMutex, C_Anadir
<1>8. CASE C_PostMutex \/ C_PostFill \/ C_Wait
  BY <1>8, SelladosIgual DEF C_PostMutex, C_PostFill, C_Wait
<1>9. CASE M_Mmap \/ M_MmapFalla \/ M_WaitFill \/ M_WaitMutex
  BY <1>9, SelladosIgual DEF M_Mmap, M_MmapFalla, M_WaitFill, M_WaitMutex
<1>10. CASE M_Extraer \/ M_ExtraerFin \/ M_PostMutex
  BY <1>10, SelladosIgual DEF M_Extraer, M_ExtraerFin, M_PostMutex
<1>11. CASE SigintMonitor \/ SigintSinManejador \/ SigintSimple \/ EintrWait
  BY <1>11, SelladosIgual
  DEF SigintMonitor, SigintSinManejador, SigintSimple, EintrWait, catcher
<1>12. CASE EintrEmpty \/ EintrMutex
  BY <1>12, SelladosIgual DEF EintrEmpty, EintrMutex, catcher
<1>13. CASE MineroEnvia \/ MineroTermina \/ MineroCalla \/ Sigint \/ UNCHANGED vars
  BY <1>13, SelladosIgual
  DEF MineroEnvia, MineroTermina, MineroCalla, Sigint, vars
<1>. QED
  BY <1>1, <1>2, <1>3, <1>4, <1>5, <1>6, <1>7, <1>8, <1>9, <1>10, <1>11,
     <1>12, <1>13
  DEF Next, Programa, Comprobador, MonitorHijo, Entrega, Parado

(* A printed block carries the verdict its own solution and target deserve, *)
(* and no finishing block is printed, until a sem_wait is cut short.        *)
THEOREM VeredictoSeguro == Spec => []VeredictoFiel
<1>1. Init => Sellados
  <2>1. Init => Len(anadidos) = 0 /\ Len(impresos) = 0
    BY DEF Init
  <2>. QED
    BY <2>1 DEF Init, Sellados
<1>2. TypeOK /\ Sellados /\ [Next]_vars => Sellados'
  BY SelladosPaso
<1>3. TypeOK /\ Sellados /\ OrdenFifo => VeredictoFiel
  <2> SUFFICES ASSUME TypeOK, Sellados, OrdenFifo, ~eintr,
                      NEW i \in 1 .. Len(impresos)
               PROVE  impresos[i].correcto = Resuelto(impresos[i]) /\ ~impresos[i].fin
    BY DEF VeredictoFiel
  <2>1. impresos[i] = anadidos[i] /\ ~impresos[i].fin
    BY DEF OrdenFifo, Sellados
  <2>2. i \in 1 .. Len(anadidos)
    <3>1. Len(impresos) \in Nat /\ Len(anadidos) \in Nat
      BY DEF TypeOK
    <3>2. Len(impresos) <= Len(anadidos)
      BY <3>1 DEF OrdenFifo, Extraidos
    <3>. QED
      BY <3>1, <3>2
  <2>. QED
    BY <2>1, <2>2 DEF Sellados, ConVeredicto
<1>. QED
  BY <1>1, <1>2, <1>3, TipoCorrecto, OrdenSeguro, PTL DEF Spec

-----------------------------------------------------------------------------
(* The finishing block.                                                     *)

LEMMA FinCierraIgual ==
  ASSUME FinCierra, UNCHANGED <<anadidos, bloque_mq, pcC>>
  PROVE  FinCierra'
  BY DEF FinCierra, SinFin

LEMMA FinCierraAntes ==
  ASSUME FinCierra, UNCHANGED anadidos,
         pcC \notin {"post_mutex", "post_fill", "wait", "exit"},
         pcC' \notin {"post_mutex", "post_fill"}
  PROVE  FinCierra'
  BY DEF FinCierra, SinFin

LEMMA FinCierraPaso ==
  ASSUME TypeOK, FinCierra, [Next]_vars
  PROVE  FinCierra'
<1> USE DEF cola, minero, memoria, semaforo, compr, monit, senales, historia,
            CPasa, MPasa
<1>1. CASE C_AnadirFin
  <2>1. /\ Len(anadidos') = Len(anadidos) + 1 /\ anadidos' # <<>>
        /\ \A i \in 1 .. Len(anadidos) : anadidos'[i] = anadidos[i]
        /\ anadidos'[Len(anadidos) + 1] = bloque_mq
        /\ Len(anadidos) \in Nat
    BY <1>1 DEF C_AnadirFin, TypeOK
  <2>2. SinFin(Len(anadidos))
    BY <1>1 DEF C_AnadirFin, FinCierra
  <2>3. Len(anadidos') - 1 = Len(anadidos)
    BY <2>1
  <2>4. \A i \in 1 .. Len(anadidos') - 1 : ~anadidos'[i].fin
    BY <2>1, <2>2, <2>3 DEF SinFin
  <2>. QED
    BY <1>1, <2>1, <2>4 DEF C_AnadirFin, FinCierra, SinFin
<1>2. CASE C_PostMutex
  BY <1>2 DEF C_PostMutex, FinCierra, SinFin
<1>3. CASE C_PostFill
  <2>1. Len(anadidos) \in Nat /\ anadidos[Len(anadidos)] = bloque_mq
        /\ SinFin(Len(anadidos) - 1)
    BY <1>3 DEF C_PostFill, FinCierra, TypeOK
  <2>2. ~bloque_mq.fin => SinFin(Len(anadidos))
    BY <2>1 DEF SinFin
  <2>. QED
    BY <1>3, <2>1, <2>2 DEF C_PostFill, FinCierra, SinFin
<1>4. CASE C_Wait \/ EintrWait
  BY <1>4 DEF C_Wait, EintrWait, catcher, FinCierra, SinFin
<1>5. CASE C_Sigaction \/ C_Mmap \/ C_MmapFalla \/ C_MqOpen \/ C_SinCola
  BY <1>5, FinCierraAntes
  DEF C_Sigaction, C_Mmap, C_MmapFalla, C_MqOpen, C_SinCola
<1>6. CASE C_MqReceive \/ C_Comprobar \/ C_WaitEmpty \/ C_WaitMutex \/ C_Anadir
  BY <1>6, FinCierraAntes
  DEF C_MqReceive, C_Comprobar, C_WaitEmpty, C_WaitMutex, C_Anadir
<1>7. CASE SigintSinManejador \/ EintrReceive \/ EintrEmpty \/ EintrMutex
  BY <1>7, FinCierraAntes
  DEF SigintSinManejador, EintrReceive, EintrEmpty, EintrMutex, catcher
<1>8. CASE MonitorHijo
  BY <1>8, FinCierraIgual
  DEF MonitorHijo, M_Mmap, M_MmapFalla, M_WaitFill, M_WaitMutex, M_Extraer,
      M_ExtraerFin, M_PostMutex, M_PostEmpty, M_Imprimir
<1>9. CASE SigintMonitor \/ SigintSimple
  BY <1>9, FinCierraIgual DEF SigintMonitor, SigintSimple, catcher
<1>10. CASE MineroEnvia \/ MineroTermina \/ MineroCalla \/ Sigint \/ UNCHANGED vars
  BY <1>10, FinCierraIgual
  DEF MineroEnvia, MineroTermina, MineroCalla, Sigint, vars
<1>. QED
  BY <1>1, <1>2, <1>3, <1>4, <1>5, <1>6, <1>7, <1>8, <1>9, <1>10
  DEF Next, Programa, Comprobador, Entrega, Parado

(* A finishing block is the last thing the Comprobador puts in the ring,    *)
(* even when SIGINT cuts sem_waits short.                                   *)
THEOREM FinSeguro == Spec => []FinEsUltimo
<1>1. Init => FinCierra
  <2>1. Init => Len(anadidos) = 0
    BY DEF Init
  <2>. QED
    BY <2>1 DEF Init, FinCierra, SinFin
<1>2. TypeOK /\ FinCierra /\ [Next]_vars => FinCierra'
  BY FinCierraPaso
<1>3. TypeOK /\ FinCierra => FinEsUltimo
  <2>1. TypeOK => Len(anadidos) \in Nat
    BY DEF TypeOK
  <2>. QED
    BY <2>1 DEF FinCierra, SinFin, FinEsUltimo
<1>. QED
  BY <1>1, <1>2, <1>3, TipoCorrecto, PTL DEF Spec

(* The invariant TLC checks on small rings holds for every one.             *)
THEOREM InductivaSegura == Spec => []Inductiva
<1>1. Init => Sellados /\ FinCierra
  <2>1. Init => Len(anadidos) = 0 /\ Len(impresos) = 0
    BY DEF Init
  <2>. QED
    BY <2>1 DEF Init, Sellados, FinCierra, SinFin
<1>2. TypeOK /\ Sellados /\ FinCierra /\ [Next]_vars => Sellados' /\ FinCierra'
  BY SelladosPaso, FinCierraPaso
<1>3. Cuentas /\ Fifo /\ Sellados /\ FinCierra => Inductiva
  BY DEF Inductiva, Fifo
<1>. QED
  BY <1>1, <1>2, <1>3, TipoCorrecto, CuentasCorrectas, FifoCorrecto, PTL DEF Spec

-----------------------------------------------------------------------------
(* For whoever puts the monitor program at the end of another queue.        *)

Completa == TypeOK /\ Cuentas /\ Fifo /\ Sellados /\ FinCierra

LEMMA InicialCompleta == Init => Completa
<1> SUFFICES ASSUME Init PROVE Completa
  OBVIOUS
<1>1. Len(anadidos) = 0 /\ Len(impresos) = 0
  BY DEF Init
<1>2. Sellados /\ FinCierra
  BY <1>1 DEF Init, Sellados, FinCierra, SinFin
<1>. QED
  BY <1>2, TipoInicial, CuentasIniciales, FifoInicial DEF Completa

(* The program's own steps keep the invariant ...                           *)
LEMMA ProgramaCompleta ==
  ASSUME Completa, Programa \/ Sigint
  PROVE  Completa'
<1> USE DEF Completa
<1>1. TypeOK'
  BY TipoComprobador, TipoMonitor, TipoSenales DEF Programa
<1>2. [Next]_vars
  BY DEF Next
<1>3. Cuentas' /\ Fifo' /\ Sellados' /\ FinCierra'
  BY <1>2, CuentasPaso, FifoPaso, SelladosPaso, FinCierraPaso
<1>. QED
  BY <1>1, <1>3

(* ... and so does whatever happens at the other end of the queue.          *)
LEMMA ColaCompleta ==
  ASSUME Completa, mq' \in Seq(Bloque), mqNombre' \in BOOLEAN,
         UNCHANGED <<minero, memoria, semaforo, compr, monit, senales, historia>>
  PROVE  Completa'
<1> USE DEF Completa, minero, memoria, semaforo, compr, monit, senales, historia
<1>1. TypeOK'
  BY DEF TypeOK
<1>2. Cuentas'
  BY CuentasIguales DEF contable
<1>3. Fifo'
  BY FifoIgual DEF Copiado
<1>4. Sellados' /\ FinCierra'
  BY SelladosIgual, FinCierraIgual
<1>. QED
  BY <1>1, <1>2, <1>3, <1>4

LEMMA CompletaPaso ==
  ASSUME Completa, [Next]_vars
  PROVE  Completa'
<1>1. TypeOK'
  BY TipoPaso DEF Completa
<1>. QED
  BY <1>1, CuentasPaso, FifoPaso, SelladosPaso, FinCierraPaso DEF Completa

-----------------------------------------------------------------------------
(* The channel of module Canal.  While no SIGINT is sent, what is inside it *)
(* is what was put in the ring, followed by the block the Comprobador has   *)
(* in its hands, less what has come out.                                    *)

EnMano ==
  CASE pcC = "comprobar" -> <<Sello(bloque_mq)>>
    [] pcC \in {"sem_empty", "sem_mutex", "anadir", "anadir_fin"} -> <<bloque_mq>>
    [] OTHER -> <<>>

Aceptados == anadidos \o EnMano
Salidos   == Len(impresos) + Uno(pcM = "exit")

Desde(s, n) == [k \in 1 .. Len(s) - n |-> s[n + k]]

(* No SIGINT, no trace of one; and the Monitor leaves at a finishing block. *)
Silencio ==
  /\ enviadasSig = 0 => pend = {} /\ sint = FALSE /\ eintr = FALSE
  /\ pcM = "exit" => bloque_monitor.fin

LEMMA SilencioPaso ==
  ASSUME TypeOK, Silencio, [Next]_vars
  PROVE  Silencio'
<1> USE DEF cola, minero, memoria, semaforo, compr, monit, senales, historia, CPasa, MPasa, Silencio
<1>1. CASE Comprobador
  BY <1>1 DEF Comprobador, C_Sigaction, C_Mmap, C_MmapFalla, C_MqOpen, C_SinCola,
     C_MqReceive, C_Comprobar, C_WaitEmpty, C_WaitMutex,
     C_Anadir, C_AnadirFin, C_PostMutex, C_PostFill, C_Wait
<1>2. CASE MonitorHijo
  BY <1>2 DEF MonitorHijo, M_Mmap, M_MmapFalla, M_WaitFill, M_WaitMutex,
     M_Extraer, M_ExtraerFin, M_PostMutex, M_PostEmpty, M_Imprimir
<1>3. CASE Entrega
  <2>1. pend # {}
    BY <1>3 DEF Entrega, SigintMonitor, SigintSinManejador, SigintSimple, EintrReceive,
       EintrEmpty, EintrMutex, EintrWait, catcher
  <2>. QED
    BY <1>3, <2>1 DEF Entrega, SigintMonitor, SigintSinManejador, SigintSimple, EintrReceive,
       EintrEmpty, EintrMutex, EintrWait, catcher
<1>4. CASE Sigint
  <2>1. enviadasSig' # 0
    BY <1>4 DEF Sigint, TypeOK
  <2>. QED
    BY <1>4, <2>1 DEF Sigint
<1>5. CASE MineroEnvia \/ MineroTermina \/ MineroCalla \/ UNCHANGED vars
  BY <1>5 DEF MineroEnvia, MineroTermina, MineroCalla, vars
<1>. QED
  BY <1>1, <1>2, <1>3, <1>4, <1>5 DEF Next, Programa, Parado

(* The blocks inside the channel, from the oldest.                          *)
LEMMA EnManoEs == TypeOK => EnMano \in Seq(Bloque) /\ Len(EnMano) \in {0, 1}
<1>. SUFFICES ASSUME TypeOK PROVE EnMano \in Seq(Bloque) /\ Len(EnMano) \in {0, 1}
  OBVIOUS
<1>1. <<>> \in Seq(Bloque) /\ Len(<<>>) = 0
  OBVIOUS
<1>2. ASSUME NEW b \in Bloque PROVE <<b>> \in Seq(Bloque) /\ Len(<<b>>) = 1
  OBVIOUS
<1>3. bloque_mq \in Bloque /\ Sello(bloque_mq) \in Bloque
  BY SelloEsBloque DEF TypeOK
<1>. QED
  BY <1>1, <1>2, <1>3 DEF EnMano

LEMMA UnoSolo == ASSUME NEW b \in Bloque PROVE <<b>> \in Seq(Bloque)
  OBVIOUS

LEMMA DesdeEs ==
  ASSUME NEW s \in Seq(Bloque), NEW n \in 0 .. Len(s)
  PROVE  /\ Desde(s, n) \in Seq(Bloque) /\ Len(Desde(s, n)) = Len(s) - n
         /\ \A k \in 1 .. Len(s) - n : Desde(s, n)[k] = s[n + k]
<1>1. Len(s) \in Nat /\ Len(s) - n \in Nat
  OBVIOUS
<1>2. ASSUME NEW k \in 1 .. Len(s) - n PROVE s[n + k] \in Bloque
  <2>1. n + k \in 1 .. Len(s)
    BY <1>1
  <2>. QED
    BY <2>1, ElementOfSeq
<1>3. Desde(s, n) \in [1 .. Len(s) - n -> Bloque]
  BY <1>2 DEF Desde
<1>4. Desde(s, n) \in Seq(Bloque)
  BY <1>1, <1>3, IsASeq DEF Desde
<1>5. Len(Desde(s, n)) = Len(s) - n
  BY <1>1, <1>3, <1>4, LenProperties
<1>. QED
  BY <1>4, <1>5 DEF Desde

LEMMA DesdeConcat ==
  ASSUME NEW s \in Seq(Bloque), NEW c \in Seq(Bloque), NEW n \in 0 .. Len(s)
  PROVE  Desde(s \o c, n) = Desde(s, n) \o c
<1>1. PICK t \in Seq(Bloque) : t = s \o c
  BY ConcatProperties
<1>2. PICK d \in Seq(Bloque) : d = Desde(s, n)
  BY DesdeEs
<1>3. /\ Len(t) = Len(s) + Len(c) /\ Len(s) \in Nat /\ Len(c) \in Nat
      /\ \A k \in 1 .. Len(s) + Len(c) : t[k] = IF k <= Len(s) THEN s[k] ELSE c[k - Len(s)]
  BY <1>1, ConcatProperties
<1>4. Len(d) = Len(s) - n /\ \A k \in 1 .. Len(s) - n : d[k] = s[n + k]
  BY <1>2, DesdeEs
<1>5. /\ d \o c \in Seq(Bloque) /\ Len(d \o c) = Len(d) + Len(c)
      /\ \A k \in 1 .. Len(d) + Len(c) : (d \o c)[k] = IF k <= Len(d) THEN d[k] ELSE c[k - Len(d)]
  BY ConcatProperties
<1>6. n \in 0 .. Len(t)
  BY <1>3
<1>7. /\ Desde(t, n) \in Seq(Bloque) /\ Len(Desde(t, n)) = Len(t) - n
      /\ \A k \in 1 .. Len(t) - n : Desde(t, n)[k] = t[n + k]
  BY <1>6, DesdeEs
<1>8. Len(Desde(t, n)) = Len(d \o c)
  BY <1>3, <1>4, <1>5, <1>7
<1>9. ASSUME NEW k \in 1 .. Len(t) - n PROVE Desde(t, n)[k] = (d \o c)[k]
  <2>1. n + k \in 1 .. Len(s) + Len(c) /\ k \in 1 .. Len(d) + Len(c)
    BY <1>3, <1>4
  <2>2. CASE k <= Len(d)
    <3>1. n + k <= Len(s) /\ k \in 1 .. Len(s) - n
      BY <1>3, <1>4, <2>1, <2>2
    <3>2. Desde(t, n)[k] = t[n + k] /\ t[n + k] = s[n + k] /\ (d \o c)[k] = d[k]
      BY <1>3, <1>5, <1>7, <2>1, <2>2, <3>1
    <3>. QED
      BY <1>4, <3>1, <3>2
  <2>3. CASE ~(k <= Len(d))
    <3>1. ~(n + k <= Len(s)) /\ (n + k) - Len(s) = k - Len(d)
      BY <1>3, <1>4, <2>3
    <3>. QED
      BY <1>3, <1>5, <1>7, <2>1, <2>3, <3>1
  <2>. QED
    BY <2>2, <2>3
<1>10. Desde(t, n) = d \o c
  BY <1>5, <1>7, <1>8, <1>9, SeqEqual
<1>. QED
  BY <1>1, <1>2, <1>10

LEMMA DesdeCabeza ==
  ASSUME NEW s \in Seq(Bloque), NEW n \in 0 .. Len(s) - 1
  PROVE  /\ Desde(s, n) # <<>> /\ Head(Desde(s, n)) = s[n + 1]
         /\ Tail(Desde(s, n)) = Desde(s, n + 1)
         /\ <<s[n + 1]>> \o Desde(s, n + 1) = Desde(s, n)
<1>0. Len(s) \in Nat /\ n \in 0 .. Len(s) /\ n + 1 \in 0 .. Len(s) /\ n + 1 \in 1 .. Len(s)
  OBVIOUS
<1>1. PICK d \in Seq(Bloque) : d = Desde(s, n)
  BY <1>0, DesdeEs
<1>2. PICK e \in Seq(Bloque) : e = Desde(s, n + 1)
  BY <1>0, DesdeEs
<1>3. Len(d) = Len(s) - n /\ \A k \in 1 .. Len(s) - n : d[k] = s[n + k]
  BY <1>0, <1>1, DesdeEs
<1>4. Len(e) = Len(s) - (n + 1) /\ \A k \in 1 .. Len(s) - (n + 1) : e[k] = s[(n + 1) + k]
  BY <1>0, <1>2, DesdeEs
<1>5. d # <<>> /\ Head(d) = s[n + 1]
  <2>1. Len(d) # 0 /\ 1 \in 1 .. Len(s) - n
    BY <1>0, <1>3
  <2>. QED
    BY <1>3, <2>1, EmptySeq
<1>6. /\ Tail(d) \in Seq(Bloque) /\ Len(Tail(d)) = Len(d) - 1
      /\ \A k \in 1 .. Len(Tail(d)) : Tail(d)[k] = d[k + 1]
  BY <1>5, HeadTailProperties
<1>7. Tail(d) = e
  <2>1. Len(Tail(d)) = Len(e)
    BY <1>0, <1>3, <1>4, <1>6
  <2>2. ASSUME NEW k \in 1 .. Len(e) PROVE Tail(d)[k] = e[k]
    <3>1. k + 1 \in 1 .. Len(s) - n /\ n + (k + 1) = (n + 1) + k
      BY <1>0, <1>4
    <3>. QED
      BY <1>3, <1>4, <1>6, <2>1, <3>1
  <2>. QED
    BY <1>6, <2>1, <2>2, SeqEqual
<1>8. <<s[n + 1]>> \o e = d
  <2>1. s[n + 1] \in Bloque
    BY <1>0, ElementOfSeq
  <2>2. PICK h \in Seq(Bloque) : h = <<s[n + 1]>>
    BY <2>1, UnoSolo
  <2>3. Len(h) = 1 /\ h[1] = s[n + 1]
    BY <2>2
  <2>4. /\ h \o e \in Seq(Bloque) /\ Len(h \o e) = Len(h) + Len(e)
        /\ \A k \in 1 .. Len(h) + Len(e) : (h \o e)[k] = IF k <= Len(h) THEN h[k] ELSE e[k - Len(h)]
    BY ConcatProperties
  <2>5. Len(h \o e) = Len(d)
    BY <1>0, <1>3, <1>4, <2>3, <2>4
  <2>6. ASSUME NEW k \in 1 .. Len(d) PROVE (h \o e)[k] = d[k]
    <3>1. CASE k = 1
      BY <1>0, <1>3, <2>3, <2>4, <2>5, <3>1
    <3>2. CASE k # 1
      <4>1. k - 1 \in 1 .. Len(s) - (n + 1) /\ (n + 1) + (k - 1) = n + k /\ ~(k <= Len(h))
            /\ k - Len(h) = k - 1
        BY <1>0, <1>3, <2>3, <3>2
      <4>. QED
        BY <1>3, <1>4, <2>4, <2>5, <4>1
    <3>. QED
      BY <3>1, <3>2
  <2>7. h \o e = d
    BY <2>4, <2>5, <2>6, SeqEqual
  <2>. QED
    BY <2>2, <2>7
<1>. QED
  BY <1>1, <1>2, <1>5, <1>7, <1>8

LEMMA DesdeAppend ==
  ASSUME NEW s \in Seq(Bloque), NEW b \in Bloque, NEW n \in 0 .. Len(s)
  PROVE  Desde(Append(s, b), n) = Append(Desde(s, n), b)
<1>1. PICK u \in Seq(Bloque) : u = <<b>>
  BY UnoSolo
<1>2. PICK d \in Seq(Bloque) : d = Desde(s, n)
  BY DesdeEs
<1>3. Append(s, b) = s \o u /\ Append(d, b) = d \o u
  BY <1>1, AppendIsConcat
<1>4. Desde(s \o u, n) = Desde(s, n) \o u
  BY DesdeConcat
<1>. QED
  BY <1>2, <1>3, <1>4

(* Interior is the tail of what has been accepted.                          *)
LEMMA InteriorEs ==
  ASSUME Completa, ~eintr
  PROVE  /\ Interior = Desde(Aceptados, Salidos)
         /\ Salidos \in 0 .. Len(anadidos)
<1>1. /\ anadidos \in Seq(Bloque) /\ Len(anadidos) \in Nat /\ Len(impresos) \in Nat
      /\ bloque_monitor \in Bloque
  BY DEF Completa, TypeOK
<1>2. EnMano \in Seq(Bloque)
  BY EnManoEs DEF Completa
<1>3. /\ Extraidos \in 0 .. Len(anadidos) /\ PorExtraer = Len(anadidos) - Extraidos
      /\ Copiado => Extraidos = Len(impresos) + 1 /\ bloque_monitor = anadidos[Extraidos]
      /\ ~Copiado => Extraidos = Len(impresos) /\ pcM # "exit"
  BY <1>1 DEF Completa, Fifo, OrdenFifo, Extraidos, PorExtraer, Copiado
<1>4. EnAnillo = PorExtraer
  BY <1>1 DEF Completa, Cuentas, CuentaFill, EnAnillo, Uno
<1> DEFINE anillo == [j \in 1 .. EnAnillo |-> bloque[(front + j - 1) % BUFFER_SIZE]]
           copia  == IF Copiado /\ pcM # "exit" THEN <<bloque_monitor>> ELSE <<>>
<1>5. anillo = Desde(anadidos, Extraidos)
  <2>1. ASSUME NEW j \in 1 .. PorExtraer
        PROVE  bloque[(front + j - 1) % BUFFER_SIZE] = anadidos[Extraidos + j]
    <3>1. /\ j - 1 \in 0 .. PorExtraer - 1 /\ front + j - 1 = front + (j - 1)
          /\ Extraidos + 1 + (j - 1) = Extraidos + j
      BY <1>1, <1>3 DEF Completa, TypeOK, Ranuras
    <3>. QED
      BY <3>1 DEF Completa, Fifo, Anillo, AnilloLleno
  <2>. QED
    BY <1>3, <1>4, <2>1 DEF Desde
<1>6. copia \o anillo = Desde(anadidos, Salidos)
  <2>1. Desde(anadidos, Extraidos) \in Seq(Bloque)
    BY <1>1, <1>3, DesdeEs
  <2>2. CASE Copiado /\ pcM # "exit"
    <3>1. Salidos \in 0 .. Len(anadidos) - 1 /\ Salidos + 1 = Extraidos
      BY <1>1, <1>3, <2>2 DEF Salidos, Uno
    <3>2. <<anadidos[Salidos + 1]>> \o Desde(anadidos, Salidos + 1) = Desde(anadidos, Salidos)
      BY <1>1, <3>1, DesdeCabeza
    <3>. QED
      BY <1>3, <1>5, <2>2, <3>1, <3>2
  <2>3. CASE ~(Copiado /\ pcM # "exit")
    <3>1. Salidos = Extraidos
      BY <1>1, <1>3, <2>3 DEF Salidos, Uno, Copiado
    <3>2. <<>> \o Desde(anadidos, Extraidos) = Desde(anadidos, Extraidos)
      BY <2>1, ConcatEmptySeq
    <3>. QED
      BY <1>5, <2>3, <3>1, <3>2
  <2>. QED
    BY <2>2, <2>3
<1>7. Salidos \in 0 .. Len(anadidos)
  BY <1>1, <1>3 DEF Salidos, Uno, Copiado
<1>8. Desde(Aceptados, Salidos) = Desde(anadidos, Salidos) \o EnMano
  BY <1>1, <1>2, <1>7, DesdeConcat DEF Aceptados
<1>9. Interior = (copia \o anillo) \o EnMano
  BY DEF Interior, EnMano
<1>. QED
  BY <1>6, <1>7, <1>8, <1>9

(* How many blocks there are.                                               *)
LEMMA InteriorCabe ==
  ASSUME Completa, ~eintr, pcC = "mq_receive"
  PROVE  /\ Interior = Desde(anadidos, Salidos)
         /\ Len(Interior) < BUFFER_SIZE + 2
<1>1. /\ anadidos \in Seq(Bloque) /\ Len(anadidos) \in Nat /\ Len(impresos) \in Nat
      /\ sem_empty \in Nat /\ BUFFER_SIZE \in Nat
  BY MonitorAssumption DEF Completa, TypeOK
<1>2. EnMano = <<>> /\ Aceptados = anadidos
  <2>1. EnMano = <<>>
    BY DEF EnMano
  <2>. QED
    BY <1>1, <2>1, ConcatEmptySeq DEF Aceptados
<1>3. Interior = Desde(anadidos, Salidos) /\ Salidos \in 0 .. Len(anadidos)
  BY <1>2, InteriorEs
<1>4. Len(Interior) = Len(anadidos) - Salidos
  BY <1>1, <1>3, DesdeEs
<1>5. Extraidos <= Salidos + 1
  BY <1>1 DEF Extraidos, Salidos, Uno, Copiado
<1>6. PorExtraer <= BUFFER_SIZE
  <2>1. PorExtraer \in Int
    BY <1>1 DEF PorExtraer, Extraidos
  <2>. QED
    BY <1>1, <2>1 DEF Completa, Cuentas, CuentaEmpty, Uno
<1>7. Extraidos \in Int /\ Salidos \in Int
  BY <1>1 DEF Extraidos, Salidos, Uno
<1>. QED
  BY <1>1, <1>3, <1>4, <1>5, <1>6, <1>7 DEF PorExtraer

(* A step of the channel is the miner's, or one that takes a block from the *)
(* queue, or one that lets a block out.                                     *)

LEMMA EnviarEs ==
  ASSUME NEW s \in Seq(Bloque), NEW b \in Bloque
  PROVE  Len(Append(s, b)) = Len(s) + 1 /\ SubSeq(Append(s, b), 1, Len(s)) = s
<1>1. PICK t \in Seq(Bloque) : t = Append(s, b)
  BY AppendProperties
<1>2. /\ Len(s) \in Nat /\ Len(t) = Len(s) + 1 /\ \A k \in 1 .. Len(s) : t[k] = s[k]
  BY <1>1, AppendProperties
<1>3. /\ SubSeq(t, 1, Len(s)) \in Seq(Bloque) /\ Len(SubSeq(t, 1, Len(s))) = Len(s)
      /\ \A k \in 1 .. Len(s) : SubSeq(t, 1, Len(s))[k] = s[k]
  <2>1. /\ SubSeq(t, 1, Len(s)) \in Seq(Bloque)
        /\ Len(SubSeq(t, 1, Len(s))) = IF 1 <= Len(s) THEN Len(s) - 1 + 1 ELSE 0
        /\ \A k \in 1 .. Len(s) - 1 + 1 : SubSeq(t, 1, Len(s))[k] = t[1 + k - 1]
    <3>1. \A k \in 1 .. Len(s) : t[k] \in Bloque
      BY <1>2, ElementOfSeq
    <3>. QED
      BY <1>2, <3>1, SubSeqProperties
  <2>. QED
    BY <1>2, <2>1
<1>4. SubSeq(t, 1, Len(s)) = s
  BY <1>3, SeqEqual
<1>. QED
  BY <1>1, <1>2, <1>4

LEMMA CanalEnvia ==
  ASSUME mq \in Seq(Bloque), NEW b \in Bloque, mq' = Append(mq, b),
         UNCHANGED <<Interior, impresos>>, (pcM' = "exit") = (pcM = "exit")
  PROVE  CanalAbstracto!Paso
<1>1. CanalAbstracto!Enviar
  BY EnviarEs DEF CanalAbstracto!Enviar
<1>. QED
  BY <1>1 DEF CanalAbstracto!Paso

(* What the next lemmas say of the state after a step holds of every state. *)
TodoBien == Completa /\ Silencio /\ enviadasSig = 0
EsCola   == Interior = Desde(Aceptados, Salidos) /\ Salidos \in 0 .. Len(anadidos)

LEMMA EsColaSiempre == TodoBien => EsCola /\ EnMano \in Seq(Bloque)
  BY InteriorEs, EnManoEs DEF TodoBien, Completa, Silencio, EsCola

LEMMA CanalIgual ==
  ASSUME EsCola, EsCola', UNCHANGED <<mq, Aceptados, impresos>>,
         (pcM' = "exit") = (pcM = "exit")
  PROVE  UNCHANGED CanalAbstracto!canal
  BY DEF EsCola, Salidos, Uno, CanalAbstracto!canal

LEMMA CanalMinero ==
  ASSUME TodoBien, TodoBien', EsCola, EsCola', MineroEnvia \/ MineroTermina \/ MineroCalla
  PROVE  [CanalAbstracto!Paso]_(CanalAbstracto!canal)
<1>1. UNCHANGED <<impresos, anadidos, pcC, bloque_mq, sint, pcM>>
  BY DEF MineroEnvia, MineroTermina, MineroCalla, compr, monit, historia
<1>2. UNCHANGED <<Aceptados, Salidos>>
  BY <1>1 DEF Aceptados, Salidos, EnMano, Sello
<1>3. CASE MineroCalla
  <2>1. UNCHANGED mq
    BY <1>3 DEF MineroCalla
  <2>. QED
    BY <1>1, <1>2, <2>1, CanalIgual
<1>4. CASE MineroEnvia \/ MineroTermina
  <2>1. PICK b \in Bloque : mq' = Append(mq, b)
    BY <1>4, FinEsBloque, EnviadoEsBloque DEF MineroEnvia, MineroTermina, TodoBien, Completa, TypeOK
  <2>2. mq \in Seq(Bloque)
    BY DEF TodoBien, Completa, TypeOK
  <2>3. UNCHANGED Interior
    BY <1>2 DEF EsCola
  <2>. QED
    BY <1>1, <2>1, <2>2, <2>3, CanalEnvia
<1>. QED
  BY <1>3, <1>4

LEMMA CanalRecibe ==
  ASSUME TodoBien, TodoBien', EsCola, EsCola', C_MqReceive
  PROVE  CanalAbstracto!Paso
<1>1. /\ pcC = "mq_receive" /\ pcC' = "comprobar" /\ mq # <<>>
      /\ bloque_mq' = Head(mq) /\ mq' = Tail(mq)
      /\ UNCHANGED <<impresos, anadidos, sint, pcM>> /\ sint = FALSE /\ ~eintr
  BY DEF C_MqReceive, CPasa, monit, historia, TodoBien, Silencio
<1>2. /\ mq \in Seq(Bloque) /\ anadidos \in Seq(Bloque) /\ Len(anadidos) \in Nat
      /\ Len(impresos) \in Nat /\ pcM \in EstadosM
  BY DEF TodoBien, Completa, TypeOK
<1>3. Interior = Desde(anadidos, Salidos) /\ Len(Interior) < BUFFER_SIZE + 2
  BY <1>1, InteriorCabe DEF TodoBien
<1>4. PICK b \in Bloque : b = Sello(Head(mq))
  BY <1>1, <1>2, HeadTailProperties, SelloEsBloque
<1>5. b = [Head(mq) EXCEPT !.correcto = Resuelto(Head(mq))]
  BY <1>1, <1>4 DEF Sello
<1>6. Aceptados' = Append(anadidos, b)
  <2>1. EnMano' = <<b>>
    BY <1>1, <1>4 DEF EnMano, Sello
  <2>. QED
    BY <1>1, <1>2, <2>1, AppendIsConcat DEF Aceptados
<1>7. Interior' = Append(Interior, b)
  <2>1. Salidos' = Salidos /\ Salidos \in 0 .. Len(anadidos)
    BY <1>1 DEF Salidos, EsCola
  <2>. QED
    BY <1>2, <1>3, <1>6, <2>1, DesdeAppend DEF EsCola
<1>8. \A i \in 1 .. Len(Interior) : ~Interior[i].fin
  <2>1. \A i \in 1 .. Len(anadidos) : ~anadidos[i].fin
    BY <1>1 DEF TodoBien, Completa, FinCierra, SinFin
  <2>2. /\ Salidos \in 0 .. Len(anadidos) /\ Len(Interior) = Len(anadidos) - Salidos
        /\ \A i \in 1 .. Len(anadidos) - Salidos : Interior[i] = anadidos[Salidos + i]
    BY <1>2, <1>3, DesdeEs DEF EsCola
  <2>3. ASSUME NEW i \in 1 .. Len(Interior) PROVE Salidos + i \in 1 .. Len(anadidos)
    BY <1>2, <2>2
  <2>. QED
    BY <2>1, <2>2, <2>3
<1>9. pcM # "exit"
  <2>1. ASSUME pcM = "exit" PROVE FALSE
    <3>1. bloque_monitor.fin /\ Copiado
      BY <2>1 DEF TodoBien, Silencio, Copiado
    <3>2. Extraidos \in 1 .. Len(anadidos) /\ bloque_monitor = anadidos[Extraidos]
      BY <1>1, <1>2, <3>1 DEF TodoBien, Completa, Fifo, OrdenFifo, Extraidos
    <3>. QED
      BY <1>1, <3>1, <3>2 DEF TodoBien, Completa, FinCierra, SinFin
  <2>. QED
    BY <2>1
<1>10. CanalAbstracto!Aceptar
  BY <1>1, <1>3, <1>5, <1>7, <1>8, <1>9
  DEF CanalAbstracto!Aceptar, CanalAbstracto!Resuelto, CanalAbstracto!pow_hash,
      CanalAbstracto!Resto, Resuelto, pow_hash, Resto
<1>. QED
  BY <1>10 DEF CanalAbstracto!Paso

LEMMA CanalComprobador ==
  ASSUME TodoBien, TodoBien', EsCola, EsCola', Comprobador
  PROVE  [CanalAbstracto!Paso]_(CanalAbstracto!canal)
<1>1. UNCHANGED <<impresos, sint, pcM>>
  BY DEF Comprobador, C_Sigaction, C_Mmap, C_MmapFalla, C_MqOpen, C_SinCola,
     C_MqReceive, C_Comprobar, C_WaitEmpty, C_WaitMutex,
     C_Anadir, C_AnadirFin, C_PostMutex, C_PostFill, C_Wait, monit, historia
<1>2. CASE C_MqReceive
  BY <1>2, CanalRecibe
<1>3. CASE C_AnadirFin
  <2>1. EnMano = <<bloque_mq>> /\ EnMano' = <<>> /\ anadidos' = Append(anadidos, bloque_mq)
    BY <1>3 DEF C_AnadirFin, CPasa, EnMano
  <2>2. /\ anadidos \in Seq(Bloque) /\ bloque_mq \in Bloque /\ anadidos' \in Seq(Bloque)
    BY DEF TodoBien, Completa, TypeOK
  <2>3. Aceptados' = Aceptados
    BY <2>1, <2>2, ConcatEmptySeq, AppendIsConcat DEF Aceptados
  <2>4. UNCHANGED mq
    BY <1>3 DEF C_AnadirFin, cola
  <2>. QED
    BY <1>1, <2>3, <2>4, CanalIgual
<1>4. CASE ~C_MqReceive /\ ~C_AnadirFin
  <2> USE DEF CPasa, cola, historia, EnMano
  <2>1. UNCHANGED <<mq, anadidos>> /\ EnMano' = EnMano
    <3>1. CASE C_Sigaction \/ C_Mmap \/ C_MmapFalla \/ C_MqOpen \/ C_SinCola
      BY <3>1 DEF C_Sigaction, C_Mmap, C_MmapFalla, C_MqOpen, C_SinCola
    <3>2. CASE C_Comprobar
      BY <3>2 DEF C_Comprobar
    <3>3. CASE C_WaitEmpty \/ C_WaitMutex \/ C_Anadir
      BY <3>3 DEF C_WaitEmpty, C_WaitMutex, C_Anadir
    <3>4. CASE C_PostMutex \/ C_PostFill \/ C_Wait
      BY <3>4 DEF C_PostMutex, C_PostFill, C_Wait
    <3>. QED
      BY <1>4, <3>1, <3>2, <3>3, <3>4 DEF Comprobador
  <2>2. UNCHANGED Aceptados
    BY <2>1 DEF Aceptados
  <2>. QED
    BY <1>1, <2>1, <2>2, CanalIgual
<1>. QED
  BY <1>2, <1>3, <1>4

(* The oldest block inside is the one the Monitor has copied.               *)
LEMMA CanalSale ==
  ASSUME TodoBien, EsCola, EsCola', UNCHANGED Aceptados,
         Copiado, pcM # "exit", Salidos' = Salidos + 1
  PROVE  Interior # <<>> /\ Head(Interior) = bloque_monitor /\ Interior' = Tail(Interior)
<1>1. /\ anadidos \in Seq(Bloque) /\ Len(anadidos) \in Nat /\ Len(impresos) \in Nat
      /\ EnMano \in Seq(Bloque) /\ ~eintr
  BY EnManoEs DEF TodoBien, Completa, TypeOK, Silencio
<1>2. /\ Aceptados \in Seq(Bloque) /\ Len(Aceptados) = Len(anadidos) + Len(EnMano)
      /\ \A k \in 1 .. Len(anadidos) + Len(EnMano) :
           Aceptados[k] = IF k <= Len(anadidos) THEN anadidos[k] ELSE EnMano[k - Len(anadidos)]
  BY <1>1, ConcatProperties DEF Aceptados
<1>3. /\ Salidos + 1 = Extraidos /\ Extraidos <= Len(anadidos) /\ Salidos \in Nat
      /\ bloque_monitor = anadidos[Extraidos]
  BY <1>1 DEF TodoBien, Completa, Fifo, OrdenFifo, Salidos, Extraidos, Uno
<1>4. Len(EnMano) \in Nat
  BY <1>1
<1>5. Salidos \in 0 .. Len(Aceptados) - 1 /\ Aceptados[Salidos + 1] = bloque_monitor
  BY <1>1, <1>2, <1>3, <1>4
<1>. QED
  BY <1>2, <1>5, DesdeCabeza DEF EsCola

LEMMA CanalMonitor ==
  ASSUME TodoBien, TodoBien', EsCola, EsCola', MonitorHijo
  PROVE  [CanalAbstracto!Paso]_(CanalAbstracto!canal)
<1> USE DEF MPasa
<1>1. UNCHANGED <<mq, anadidos, EnMano, Aceptados>>
  <2>1. UNCHANGED <<mq, anadidos, pcC, bloque_mq, sint>>
    BY DEF MonitorHijo, M_Mmap, M_MmapFalla, M_WaitFill, M_WaitMutex,
       M_Extraer, M_ExtraerFin, M_PostMutex, M_PostEmpty, M_Imprimir, cola, compr, historia
  <2>. QED
    BY <2>1 DEF EnMano, Aceptados, Sello
<1>2. Len(impresos) \in Nat
  BY DEF TodoBien, Completa, TypeOK
<1>3. CASE M_Imprimir
  <2>1. /\ pcM = "imprimir" /\ pcM' = "sem_fill" /\ impresos' = Append(impresos, bloque_monitor)
        /\ ~bloque_monitor.fin
    BY <1>3 DEF M_Imprimir, TodoBien, Completa, Sellados
  <2>2. Len(impresos') = Len(impresos) + 1
    BY <2>1, AppendProperties DEF TodoBien, Completa, TypeOK
  <2>3. Copiado /\ Salidos' = Salidos + 1
    BY <1>2, <2>1, <2>2 DEF Copiado, Salidos, Uno
  <2>4. Interior # <<>> /\ Head(Interior) = bloque_monitor /\ Interior' = Tail(Interior)
    BY <1>1, <2>1, <2>3, CanalSale
  <2>5. CanalAbstracto!Imprimir
    BY <1>1, <2>1, <2>4 DEF CanalAbstracto!Imprimir
  <2>. QED
    BY <2>5 DEF CanalAbstracto!Paso
<1>4. CASE M_PostEmpty /\ bloque_monitor.fin
  <2>1. pcM = "post_empty" /\ pcM' = "exit" /\ UNCHANGED impresos
    BY <1>4 DEF M_PostEmpty, historia
  <2>2. Copiado /\ Salidos' = Salidos + 1
    BY <1>2, <2>1 DEF Copiado, Salidos, Uno
  <2>3. Interior # <<>> /\ Head(Interior) = bloque_monitor /\ Interior' = Tail(Interior)
    BY <1>1, <2>1, <2>2, CanalSale
  <2>4. CanalAbstracto!Cerrar
    BY <1>1, <1>4, <2>1, <2>3 DEF CanalAbstracto!Cerrar
  <2>. QED
    BY <2>4 DEF CanalAbstracto!Paso
<1>5. CASE ~M_Imprimir /\ ~(M_PostEmpty /\ bloque_monitor.fin)
  <2>1. UNCHANGED impresos /\ pcM # "exit" /\ pcM' # "exit"
    BY <1>5 DEF MonitorHijo, M_Mmap, M_MmapFalla, M_WaitFill, M_WaitMutex,
       M_Extraer, M_ExtraerFin, M_PostMutex, M_PostEmpty, historia
  <2>. QED
    BY <1>1, <2>1, CanalIgual
<1>. QED
  BY <1>3, <1>4, <1>5

LEMMA CanalPaso ==
  ASSUME TodoBien, TodoBien', EsCola, EsCola', [Next]_vars
  PROVE  [CanalAbstracto!Paso]_(CanalAbstracto!canal)
<1>1. CASE UNCHANGED vars
  <2>1. UNCHANGED <<mq, anadidos, impresos, pcM, EnMano>>
    BY <1>1 DEF vars, cola, compr, monit, historia, EnMano, Sello
  <2>2. UNCHANGED Aceptados
    BY <2>1 DEF Aceptados
  <2>. QED
    BY <2>1, <2>2, CanalIgual
<1>2. CASE Entrega
  BY <1>2 DEF Entrega, SigintMonitor, SigintSinManejador, SigintSimple, EintrReceive,
     EintrEmpty, EintrMutex, EintrWait, catcher, TodoBien, Silencio
<1>3. CASE Sigint
  <2>1. enviadasSig' # enviadasSig
    BY <1>3 DEF Sigint, TodoBien, Completa, TypeOK
  <2>. QED
    BY <2>1 DEF TodoBien
<1>. QED
  BY <1>1, <1>2, <1>3, CanalMinero, CanalComprobador, CanalMonitor DEF Next, Programa, Parado

(* As long as nobody sends a SIGINT, ring, semaphores and the two processes *)
(* are a bounded FIFO channel that prints each block once, in order and with*)
(* its own verdict, even if an mmap fails or the miner goes without a word. *)
THEOREM CanalImplementado == Spec /\ [](enviadasSig = 0) => ImplementaCanal
<1>1. Init => Completa /\ Silencio
  BY InicialCompleta DEF Init, Silencio
<1>2. Completa /\ Silencio /\ [Next]_vars => Completa' /\ Silencio'
  BY CompletaPaso, SilencioPaso DEF Completa
<1>3. Completa /\ Silencio /\ enviadasSig = 0 => TodoBien /\ EsCola
  BY EsColaSiempre DEF TodoBien
<1>4. TodoBien /\ EsCola /\ TodoBien' /\ EsCola' /\ [Next]_vars
        => [CanalAbstracto!Paso]_(CanalAbstracto!canal)
  BY CanalPaso
<1>5. Init /\ EsCola => CanalAbstracto!Inicial
  <2>. SUFFICES ASSUME Init, EsCola PROVE CanalAbstracto!Inicial
    OBVIOUS
  <2>1. mq = <<>> /\ impresos = <<>> /\ anadidos = <<>> /\ EnMano = <<>> /\ pcM = "mmap"
    BY DEF Init, EnMano
  <2>2. Aceptados = <<>> /\ Salidos = 0
    BY <2>1, EmptySeq, ConcatEmptySeq DEF Aceptados, Salidos, Uno
  <2>3. Len(Aceptados) = 0
    BY <2>2
  <2>4. Desde(Aceptados, 0) = <<>>
    BY <2>3 DEF Desde
  <2>. QED
    BY <2>1, <2>2, <2>4 DEF CanalAbstracto!Inicial, EsCola
<1>. QED
  BY <1>1, <1>2, <1>3, <1>4, <1>5, PTL DEF Spec, ImplementaCanal, CanalAbstracto!Segura
=============================================================================
