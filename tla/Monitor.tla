------------------------------ MODULE Monitor ------------------------------
(***************************************************************************)
(* The monitor program of proyecto/monitor.c: the Comprobador (parent)     *)
(* takes blocks from the POSIX message queue, stamps each with a verdict   *)
(* and puts it in a ring in shared memory; the Monitor (child) takes them  *)
(* out and prints them.  Three semaphores guard the ring.  SIGINT may hit  *)
(* either process at any instruction: the Comprobador installs a handler   *)
(* without SA_RESTART, so a blocked call returns EINTR, and the code never *)
(* looks at what sem_wait returns.                                         *)
(***************************************************************************)
EXTENDS Bloques, Sequences

CONSTANTS
  BUFFER_SIZE,   (* slots of the ring                                       *)
  MAX_MSG,       (* capacity of the message queue                           *)
  Pares,         (* <<objetivo, solucion>> pairs the miner may send         *)
  NumBloques,    (* bound: blocks the miner sends before it finishes        *)
  MaxSigint,     (* bound: SIGINTs sent                                     *)
  Destinos,      (* sets of processes one SIGINT may be sent to             *)
  ColaCreada,    (* values mqNombre may have initially                      *)
  MineroCae,     (* TRUE iff the miner may vanish without a finishing block *)
  MmapFalla,     (* TRUE iff mmap may fail                                  *)
  Basura         (* what an uninitialised local struct Bloque may hold      *)

ASSUME MonitorAssumption ==
  /\ BUFFER_SIZE \in Nat \ {0}
  /\ MAX_MSG \in Nat \ {0}
  /\ Pares \subseteq Int \X Int
  /\ NumBloques \in Nat
  /\ MaxSigint \in Nat
  /\ Destinos \subseteq SUBSET {"comprobador", "monitor"}
  /\ ColaCreada \subseteq BOOLEAN
  /\ MineroCae \in BOOLEAN
  /\ MmapFalla \in BOOLEAN
  /\ Basura \subseteq Bloque

VARIABLES
  (* The message queue and the miner at its other end.                      *)
  mq,             (* queued blocks                                          *)
  mqNombre,       (* TRUE iff the queue's name is linked                    *)
  enviados,       (* blocks the miner has sent                              *)
  fuente,         (* "viva", "fin" (finishing block sent) or "muda"         *)
  (* MemoriaMonitor and the semaphores.                                     *)
  bloque, front, rear,
  sem_fill, sem_empty, sem_mutex,
  (* The Comprobador.                                                       *)
  pcC, bloque_mq, sint,
  (* The Monitor; vivoM is FALSE once SIGINT has killed it, at pcM.         *)
  pcM, bloque_monitor, vivoM,
  (* Signals: processes with a SIGINT pending, and how many were sent.      *)
  pend, enviadasSig,
  (* History: blocks put in the ring, blocks printed, and whether a sem_wait*)
  (* has returned EINTR.                                                    *)
  anadidos, impresos, eintr

cola     == <<mq, mqNombre>>
minero   == <<enviados, fuente>>
memoria  == <<bloque, front, rear>>
semaforo == <<sem_fill, sem_empty, sem_mutex>>
compr    == <<pcC, bloque_mq, sint>>
monit    == <<pcM, bloque_monitor, vivoM>>
senales  == <<pend, enviadasSig>>
historia == <<anadidos, impresos, eintr>>

vars == <<cola, minero, memoria, semaforo, compr, monit, senales, historia>>

Ranuras == 0 .. BUFFER_SIZE - 1

EstadosC == {"sigaction", "mmap", "mq_open", "mq_receive", "comprobar",
             "sem_empty", "sem_mutex", "anadir", "anadir_fin", "post_mutex",
             "post_fill", "wait", "exit", "abortado", "muerto"}

EstadosM == {"mmap", "sem_fill", "sem_mutex", "extraer", "extraer_fin",
             "post_mutex", "post_empty", "imprimir", "exit", "abortado"}

TerminadoC == pcC \in {"exit", "abortado", "muerto"}
TerminadoM == ~vivoM \/ pcM \in {"exit", "abortado"}

(* ftruncate fills the shared memory with zeros.                            *)
Ceros == [ id |-> 0, monedas |-> 0, objetivo |-> 0, solucion |-> 0, votos_totales |-> 0,
           votos_positivos |-> 0, correcto |-> FALSE, fin |-> FALSE ]

Init ==
  /\ mq = <<>> /\ mqNombre \in ColaCreada
  /\ enviados = 0 /\ fuente = "viva"
  /\ bloque = [i \in Ranuras |-> Ceros] /\ front = 0 /\ rear = 0
  /\ sem_fill = 0 /\ sem_empty = BUFFER_SIZE /\ sem_mutex = 1
  /\ pcC = "sigaction" /\ bloque_mq \in Basura /\ sint = FALSE
  /\ pcM = "mmap" /\ bloque_monitor \in Basura /\ vivoM = TRUE
  /\ pend = {} /\ enviadasSig = 0
  /\ anadidos = <<>> /\ impresos = <<>> /\ eintr = FALSE

-----------------------------------------------------------------------------
(* The miner, as the queue sees it.                                         *)

(* It sends only when mq_getattr shows room, and goes on if there is none.  *)
MineroEnvia ==
  /\ fuente = "viva" /\ enviados < NumBloques
  /\ Len(mq) < MAX_MSG
  /\ \E p \in Pares :
       mq' = Append(mq, [ id |-> enviados + 1, monedas |-> enviados + 1,
                          objetivo |-> p[1], solucion |-> p[2],
                          votos_totales |-> 1,
                          votos_positivos |-> IF pow_hash(p[2]) = p[1] THEN 1 ELSE 0,
                          correcto |-> FALSE, fin |-> FALSE ])
  /\ enviados' = enviados + 1
  /\ UNCHANGED <<mqNombre, fuente, memoria, semaforo, compr, monit, senales, historia>>

(* It finishes: the finishing block is sent if there is room, and the name  *)
(* is unlinked.                                                             *)
MineroTermina ==
  /\ fuente = "viva"
  /\ Len(mq) < MAX_MSG
  /\ mq' = Append(mq, BloqueFin)
  /\ mqNombre' = FALSE
  /\ fuente' = "fin"
  /\ UNCHANGED <<enviados, memoria, semaforo, compr, monit, senales, historia>>

(* It goes without a finishing block: the queue was full, or it died.       *)
MineroCalla ==
  /\ MineroCae
  /\ fuente = "viva"
  /\ fuente' = "muda"
  /\ mqNombre' \in {mqNombre, FALSE}
  /\ UNCHANGED <<mq, enviados, memoria, semaforo, compr, monit, senales, historia>>

-----------------------------------------------------------------------------
(* The Comprobador.                                                         *)

CPasa(de, a) == pcC = de /\ pcC' = a

C_Sigaction ==
  /\ CPasa("sigaction", "mmap")
  /\ UNCHANGED <<cola, minero, memoria, semaforo, bloque_mq, sint, monit, senales, historia>>

C_Mmap ==
  /\ CPasa("mmap", "mq_open")
  /\ front' = 0 /\ rear' = 0
  /\ UNCHANGED <<cola, minero, bloque, semaforo, bloque_mq, sint, monit, senales, historia>>

C_MmapFalla ==
  /\ MmapFalla
  /\ CPasa("mmap", "abortado")
  /\ UNCHANGED <<cola, minero, memoria, semaforo, bloque_mq, sint, monit, senales, historia>>

(* Mutant: the name is not unlinked.                                        *)
C_MqOpen_SinUnlink ==
  /\ mqNombre
  /\ CPasa("mq_open", "mq_receive")
  /\ UNCHANGED <<cola, minero, memoria, semaforo, bloque_mq, sint, monit, senales, historia>>

C_MqOpen ==
  /\ mqNombre
  /\ CPasa("mq_open", "mq_receive")
  /\ mqNombre' = FALSE
  /\ UNCHANGED <<mq, minero, memoria, semaforo, bloque_mq, sint, monit, senales, historia>>

(* No queue: it exits at once, and the child is told nothing.               *)
C_SinCola ==
  /\ ~mqNombre
  /\ CPasa("mq_open", "abortado")
  /\ UNCHANGED <<cola, minero, memoria, semaforo, bloque_mq, sint, monit, senales, historia>>

C_MqReceive ==
  /\ mq # <<>>
  /\ CPasa("mq_receive", "comprobar")
  /\ bloque_mq' = Head(mq)
  /\ mq' = Tail(mq)
  /\ UNCHANGED <<mqNombre, minero, memoria, semaforo, sint, monit, senales, historia>>

(* Mutant: the verdict is taken from the votes, as the Registrador does.    *)
Sello_PorVotos(b) == IF sint THEN [b EXCEPT !.fin = TRUE]
                             ELSE [b EXCEPT !.correcto = b.votos_positivos >= b.votos_totales \div 2]

(* After SIGINT the block just received is turned into a finishing block;   *)
(* otherwise it is stamped with the verdict.                                *)
Sello(b) == IF sint THEN [b EXCEPT !.fin = TRUE]
                    ELSE [b EXCEPT !.correcto = Resuelto(b)]

(* Mutant: a block goes on without its verdict.                             *)
C_Comprobar_SinSello ==
  /\ CPasa("comprobar", "sem_empty")
  /\ bloque_mq' = IF sint THEN Sello(bloque_mq) ELSE bloque_mq
  /\ UNCHANGED <<cola, minero, memoria, semaforo, sint, monit, senales, historia>>

C_Comprobar ==
  /\ CPasa("comprobar", "sem_empty")
  /\ bloque_mq' = Sello(bloque_mq)
  /\ UNCHANGED <<cola, minero, memoria, semaforo, sint, monit, senales, historia>>

(* Mutant: the Comprobador does not wait for a free slot.                   *)
C_WaitEmpty_SinEsperar ==
  /\ CPasa("sem_empty", "sem_mutex")
  /\ sem_empty' = IF sem_empty > 0 THEN sem_empty - 1 ELSE 0
  /\ UNCHANGED <<cola, minero, memoria, sem_fill, sem_mutex, bloque_mq, sint, monit, senales, historia>>

C_WaitEmpty ==
  /\ sem_empty > 0
  /\ CPasa("sem_empty", "sem_mutex")
  /\ sem_empty' = sem_empty - 1
  /\ UNCHANGED <<cola, minero, memoria, sem_fill, sem_mutex, bloque_mq, sint, monit, senales, historia>>

C_WaitMutex ==
  /\ sem_mutex > 0
  /\ CPasa("sem_mutex", "anadir")
  /\ sem_mutex' = sem_mutex - 1
  /\ UNCHANGED <<cola, minero, memoria, sem_fill, sem_empty, bloque_mq, sint, monit, senales, historia>>

(* anadirElemento copies field by field: first all but the two flags ...    *)
C_Anadir ==
  /\ CPasa("anadir", "anadir_fin")
  /\ bloque' = [bloque EXCEPT ![rear] = [bloque_mq EXCEPT !.correcto = bloque[rear].correcto,
                                                          !.fin = bloque[rear].fin]]
  /\ UNCHANGED <<cola, minero, front, rear, semaforo, bloque_mq, sint, monit, senales, historia>>

(* Mutant: rear does not wrap around.                                       *)
C_AnadirFin_SinModulo ==
  /\ CPasa("anadir_fin", "post_mutex")
  /\ bloque' = [bloque EXCEPT ![rear] = bloque_mq]
  /\ rear' = rear + 1
  /\ anadidos' = Append(anadidos, bloque_mq)
  /\ UNCHANGED <<cola, minero, front, semaforo, bloque_mq, sint, monit, senales, impresos, eintr>>

(* ... then correcto and fin, and rear advances.                            *)
C_AnadirFin ==
  /\ CPasa("anadir_fin", "post_mutex")
  /\ bloque' = [bloque EXCEPT ![rear] = [bloque[rear] EXCEPT !.correcto = bloque_mq.correcto,
                                                             !.fin = bloque_mq.fin]]
  /\ rear' = (rear + 1) % BUFFER_SIZE
  /\ anadidos' = Append(anadidos, bloque_mq)
  /\ UNCHANGED <<cola, minero, front, semaforo, bloque_mq, sint, monit, senales, impresos, eintr>>

C_PostMutex ==
  /\ CPasa("post_mutex", "post_fill")
  /\ sem_mutex' = sem_mutex + 1
  /\ UNCHANGED <<cola, minero, memoria, sem_fill, sem_empty, bloque_mq, sint, monit, senales, historia>>

(* Mutant: the loop is not left after a finishing block.                    *)
C_PostFill_SinFin ==
  /\ CPasa("post_fill", "mq_receive")
  /\ sem_fill' = sem_fill + 1
  /\ UNCHANGED <<cola, minero, memoria, sem_empty, sem_mutex, bloque_mq, sint, monit, senales, historia>>

(* Mutant: sem_fill is not posted for a finishing block.                    *)
C_PostFill_SinPost ==
  /\ CPasa("post_fill", IF bloque_mq.fin THEN "wait" ELSE "mq_receive")
  /\ sem_fill' = IF bloque_mq.fin THEN sem_fill ELSE sem_fill + 1
  /\ UNCHANGED <<cola, minero, memoria, sem_empty, sem_mutex, bloque_mq, sint, monit, senales, historia>>

C_PostFill ==
  /\ CPasa("post_fill", IF bloque_mq.fin THEN "wait" ELSE "mq_receive")
  /\ sem_fill' = sem_fill + 1
  /\ UNCHANGED <<cola, minero, memoria, sem_empty, sem_mutex, bloque_mq, sint, monit, senales, historia>>

C_Wait ==
  /\ TerminadoM
  /\ CPasa("wait", "exit")
  /\ UNCHANGED <<cola, minero, memoria, semaforo, bloque_mq, sint, monit, senales, historia>>

Comprobador ==
  \/ C_Sigaction \/ C_Mmap \/ C_MmapFalla \/ C_MqOpen \/ C_SinCola
  \/ C_MqReceive \/ C_Comprobar \/ C_WaitEmpty \/ C_WaitMutex
  \/ C_Anadir \/ C_AnadirFin \/ C_PostMutex \/ C_PostFill \/ C_Wait

-----------------------------------------------------------------------------
(* The Monitor.                                                             *)

MPasa(de, a) == vivoM /\ pcM = de /\ pcM' = a /\ UNCHANGED vivoM

M_Mmap ==
  /\ MPasa("mmap", "sem_fill")
  /\ UNCHANGED <<cola, minero, memoria, semaforo, compr, bloque_monitor, senales, historia>>

M_MmapFalla ==
  /\ MmapFalla
  /\ MPasa("mmap", "abortado")
  /\ UNCHANGED <<cola, minero, memoria, semaforo, compr, bloque_monitor, senales, historia>>

(* Mutant: the Monitor frees the slot before it has copied the block.       *)
M_WaitFill_LiberaAntes ==
  /\ sem_fill > 0
  /\ MPasa("sem_fill", "sem_mutex")
  /\ sem_fill' = sem_fill - 1
  /\ sem_empty' = sem_empty + 1
  /\ UNCHANGED <<cola, minero, memoria, sem_mutex, compr, bloque_monitor, senales, historia>>

M_WaitFill ==
  /\ sem_fill > 0
  /\ MPasa("sem_fill", "sem_mutex")
  /\ sem_fill' = sem_fill - 1
  /\ UNCHANGED <<cola, minero, memoria, sem_empty, sem_mutex, compr, bloque_monitor, senales, historia>>

(* Mutant: the Monitor does not take the mutex.                             *)
M_WaitMutex_SinMutex ==
  /\ MPasa("sem_mutex", "extraer")
  /\ UNCHANGED <<cola, minero, memoria, semaforo, compr, bloque_monitor, senales, historia>>

M_WaitMutex ==
  /\ sem_mutex > 0
  /\ MPasa("sem_mutex", "extraer")
  /\ sem_mutex' = sem_mutex - 1
  /\ UNCHANGED <<cola, minero, memoria, sem_fill, sem_empty, compr, bloque_monitor, senales, historia>>

(* extraerElemento copies in the same order as anadirElemento.              *)
M_Extraer ==
  /\ MPasa("extraer", "extraer_fin")
  /\ bloque_monitor' = [bloque[front] EXCEPT !.correcto = bloque_monitor.correcto,
                                             !.fin = bloque_monitor.fin]
  /\ UNCHANGED <<cola, minero, memoria, semaforo, compr, senales, historia>>

M_ExtraerFin ==
  /\ MPasa("extraer_fin", "post_mutex")
  /\ bloque_monitor' = [bloque_monitor EXCEPT !.correcto = bloque[front].correcto,
                                              !.fin = bloque[front].fin]
  /\ front' = (front + 1) % BUFFER_SIZE
  /\ UNCHANGED <<cola, minero, bloque, rear, semaforo, compr, senales, historia>>

M_PostMutex ==
  /\ MPasa("post_mutex", "post_empty")
  /\ sem_mutex' = sem_mutex + 1
  /\ UNCHANGED <<cola, minero, memoria, sem_fill, sem_empty, compr, bloque_monitor, senales, historia>>

(* Mutant: the slot just read is never given back.                          *)
M_PostEmpty_SinPost ==
  /\ MPasa("post_empty", IF bloque_monitor.fin THEN "exit" ELSE "imprimir")
  /\ UNCHANGED <<cola, minero, memoria, semaforo, compr, bloque_monitor, senales, historia>>

M_PostEmpty ==
  /\ MPasa("post_empty", IF bloque_monitor.fin THEN "exit" ELSE "imprimir")
  /\ sem_empty' = sem_empty + 1
  /\ UNCHANGED <<cola, minero, memoria, sem_fill, sem_mutex, compr, bloque_monitor, senales, historia>>

M_Imprimir ==
  /\ MPasa("imprimir", "sem_fill")
  /\ impresos' = Append(impresos, bloque_monitor)
  /\ UNCHANGED <<cola, minero, memoria, semaforo, compr, bloque_monitor, senales, anadidos, eintr>>

MonitorHijo ==
  \/ M_Mmap \/ M_MmapFalla \/ M_WaitFill \/ M_WaitMutex
  \/ M_Extraer \/ M_ExtraerFin \/ M_PostMutex \/ M_PostEmpty \/ M_Imprimir

-----------------------------------------------------------------------------
(* SIGINT.  Ctrl-C reaches both processes, kill -INT only one.              *)

Sigint ==
  /\ enviadasSig < MaxSigint
  /\ \E D \in Destinos : pend' = pend \cup D
  /\ enviadasSig' = enviadasSig + 1
  /\ UNCHANGED <<cola, minero, memoria, semaforo, compr, monit, historia>>

(* The child never installs a handler: the default action kills it.         *)
SigintMonitor ==
  /\ "monitor" \in pend /\ ~TerminadoM
  /\ vivoM' = FALSE
  /\ pend' = pend \ {"monitor"}
  /\ UNCHANGED <<cola, minero, memoria, semaforo, compr, pcM, bloque_monitor, enviadasSig, historia>>

SigintSinManejador ==
  /\ "comprobador" \in pend
  /\ CPasa("sigaction", "muerto")
  /\ pend' = pend \ {"comprobador"}
  /\ UNCHANGED <<cola, minero, memoria, semaforo, bloque_mq, sint, monit, enviadasSig, historia>>

(* catcher runs and sets the flag.                                          *)
catcher ==
  /\ "comprobador" \in pend
  /\ pcC # "sigaction" /\ ~TerminadoC
  /\ pend' = pend \ {"comprobador"}
  /\ sint' = TRUE
  /\ UNCHANGED <<cola, minero, memoria, semaforo, monit, enviadasSig, anadidos, impresos>>

(* Outside a blocked call, or just before the call blocks.                  *)
SigintSimple == catcher /\ UNCHANGED <<pcC, bloque_mq, eintr>>

EintrReceive ==
  /\ catcher
  /\ mq = <<>>
  /\ CPasa("mq_receive", "sem_empty")
  /\ bloque_mq' = [bloque_mq EXCEPT !.fin = TRUE]
  /\ UNCHANGED eintr

(* A blocked sem_wait returns -1 and the code goes on as if it had the      *)
(* semaphore.                                                               *)
EintrEmpty ==
  /\ catcher
  /\ sem_empty = 0
  /\ CPasa("sem_empty", "sem_mutex")
  /\ eintr' = TRUE
  /\ UNCHANGED bloque_mq

EintrMutex ==
  /\ catcher
  /\ sem_mutex = 0
  /\ CPasa("sem_mutex", "anadir")
  /\ eintr' = TRUE
  /\ UNCHANGED bloque_mq

EintrWait ==
  /\ catcher
  /\ ~TerminadoM
  /\ CPasa("wait", "exit")
  /\ UNCHANGED <<bloque_mq, eintr>>

Entrega == \/ SigintMonitor \/ SigintSinManejador \/ SigintSimple
           \/ EintrReceive \/ EintrEmpty \/ EintrMutex \/ EintrWait

(* Both processes are gone: the program has stopped.                        *)
Parado == TerminadoC /\ TerminadoM /\ UNCHANGED vars

Programa == Comprobador \/ MonitorHijo \/ Entrega

Next == \/ MineroEnvia \/ MineroTermina \/ MineroCalla
        \/ Programa \/ Sigint \/ Parado

(* Each process is scheduled and pending signals are delivered.  Nothing is *)
(* assumed of the miner or of the user who sends SIGINT.                    *)
Justicia == WF_vars(Comprobador) /\ WF_vars(MonitorHijo) /\ WF_vars(Entrega)

Spec == Init /\ [][Next]_vars /\ Justicia

-----------------------------------------------------------------------------
(* Properties.                                                              *)

TypeOK ==
  /\ mq \in Seq(Bloque) /\ mqNombre \in BOOLEAN
  /\ enviados \in Nat /\ fuente \in {"viva", "fin", "muda"}
  /\ bloque \in [Ranuras -> Bloque] /\ front \in Ranuras /\ rear \in Ranuras
  /\ sem_fill \in Nat /\ sem_empty \in Nat /\ sem_mutex \in Nat
  /\ pcC \in EstadosC /\ bloque_mq \in Bloque /\ sint \in BOOLEAN
  /\ pcM \in EstadosM /\ bloque_monitor \in Bloque /\ vivoM \in BOOLEAN
  /\ pend \subseteq {"comprobador", "monitor"} /\ enviadasSig \in Nat
  /\ anadidos \in Seq(Bloque) /\ impresos \in Seq(Bloque) /\ eintr \in BOOLEAN

(* Blocks the Monitor has copied out of the ring, and blocks still in it.   *)
Copiado    == pcM \in {"post_mutex", "post_empty", "imprimir", "exit"}
Extraidos  == Len(impresos) + (IF Copiado THEN 1 ELSE 0)
PorExtraer == Len(anadidos) - Extraidos

CDentro == pcC \in {"anadir", "anadir_fin", "post_mutex"}
MDentro == pcM \in {"extraer", "extraer_fin", "post_mutex"}

(* The two processes are never inside the ring's critical section together, *)
(* whatever SIGINTs arrive, as long as none cuts a sem_wait short.          *)
ExclusionMutua == ~eintr => ~(CDentro /\ MDentro)

(* The ring has a slot that is free, that is, already read, whenever the    *)
(* Comprobador copies a block into it.                                      *)
RanuraLibre == pcC \in {"anadir", "anadir_fin"} => PorExtraer < BUFFER_SIZE

(* RanuraLibre, as long as no sem_wait has been cut short.                  *)
NoSobrescribe == ~eintr => RanuraLibre

(* What the Monitor has copied out is, block by block and with no torn copy,*)
(* what the Comprobador put in, in the same order.                          *)
OrdenFifo ==
  ~eintr => /\ Extraidos <= Len(anadidos)
            /\ \A i \in 1 .. Len(impresos) : impresos[i] = anadidos[i]
            /\ Copiado => bloque_monitor = anadidos[Extraidos]

(* A block is printed as validated exactly when its solution hashes to its  *)
(* target, and no finishing block is printed.                               *)
VeredictoFiel ==
  ~eintr => \A i \in 1 .. Len(impresos) :
              /\ impresos[i].correcto = Resuelto(impresos[i])
              /\ ~impresos[i].fin

(* Nothing goes into the ring after a finishing block, even when SIGINT cuts*)
(* sem_waits short and even if two finishing blocks are at hand.            *)
FinEsUltimo ==
  \A i \in 1 .. Len(anadidos) : anadidos[i].fin => i = Len(anadidos)

(* The inductive invariant behind the five properties above.                *)

Uno(p) == IF p THEN 1 ELSE 0

(* Who holds the mutex, and what each semaphore's value accounts for.       *)
CuentaMutex ==
  sem_mutex + Uno(CDentro) + Uno(MDentro) = 1

CuentaFill ==
  PorExtraer = sem_fill + Uno(pcC \in {"post_mutex", "post_fill"})
                        + Uno(pcM \in {"sem_mutex", "extraer", "extraer_fin"})

CuentaEmpty ==
  BUFFER_SIZE = PorExtraer + sem_empty
                + Uno(pcC \in {"sem_mutex", "anadir", "anadir_fin"})
                + Uno(pcM \in {"post_mutex", "post_empty"})

Cuentas == ~eintr => CuentaMutex /\ CuentaFill /\ CuentaEmpty

(* From front to rear the ring holds the blocks put in and not taken out; a *)
(* half-made copy lacks just the two flags.                                 *)
AnilloInicial ==
  pcC \in {"sigaction", "mmap"} => front = 0 /\ rear = 0 /\ anadidos = <<>> /\ ~eintr

AnilloLleno ==
  /\ rear = (front + PorExtraer) % BUFFER_SIZE
  /\ \A j \in 0 .. PorExtraer - 1 :
       bloque[(front + j) % BUFFER_SIZE] = anadidos[Extraidos + 1 + j]

CopiaEnCurso ==
  /\ pcC = "anadir_fin" =>
       bloque_mq = [bloque[rear] EXCEPT !.correcto = bloque_mq.correcto,
                                        !.fin = bloque_mq.fin]
  /\ pcM = "extraer_fin" =>
       bloque[front] = [bloque_monitor EXCEPT !.correcto = bloque[front].correcto,
                                              !.fin = bloque[front].fin]

Anillo == AnilloInicial /\ (~eintr => AnilloLleno /\ CopiaEnCurso)

(* A block that is no finishing block has its verdict from C_Comprobar on.  *)
ConVeredicto(b) == ~b.fin => b.correcto = Resuelto(b)

Sellados ==
  /\ pcC \in {"sem_empty", "sem_mutex", "anadir", "anadir_fin"} => ConVeredicto(bloque_mq)
  /\ \A i \in 1 .. Len(anadidos) : ConVeredicto(anadidos[i])
  /\ \A i \in 1 .. Len(impresos) : ~impresos[i].fin
  /\ pcM = "imprimir" => ~bloque_monitor.fin

(* The Comprobador goes on only while it has put in no finishing block.     *)
SinFin(n) == \A i \in 1 .. n : ~anadidos[i].fin

FinCierra ==
  /\ SinFin(Len(anadidos) - 1)
  /\ pcC \notin {"post_mutex", "post_fill", "wait", "exit"} => SinFin(Len(anadidos))
  /\ pcC \in {"post_mutex", "post_fill"} =>
       anadidos # <<>> /\ anadidos[Len(anadidos)] = bloque_mq

(* Each property follows from this invariant, which every step preserves.   *)
Inductiva == Cuentas /\ Anillo /\ OrdenFifo /\ Sellados /\ FinCierra

ColaAbierta == pcC \notin {"sigaction", "mmap", "mq_open", "abortado", "muerto"}

(* Without signals, once the miner has sent its finishing block to a        *)
(* Comprobador that holds the queue, every block it sent is printed and both*)
(* processes exit.                                                          *)
TodoSeImprime ==
  (fuente = "fin" /\ ColaAbierta)
     ~> (pcC = "exit" /\ pcM = "exit" /\ Len(impresos) = enviados)

(* A finishing block stops the Monitor, even if SIGINTs cut the             *)
(* Comprobador's calls short and the ring is overrun, and the Comprobador   *)
(* too, unless the Monitor has died before its time.                        *)
FinLlega ==
  (fuente = "fin" /\ ColaAbierta) ~> (TerminadoM /\ (TerminadoC \/ pcM # "exit" \/ ~vivoM))

-----------------------------------------------------------------------------
(* The ring, the semaphores and the two processes implement a bounded FIFO  *)
(* channel as long as there is no SIGINT.                                   *)

EnAnillo == sem_fill + (IF pcC \in {"post_mutex", "post_fill"} THEN 1 ELSE 0)
                     + (IF pcM \in {"sem_mutex", "extraer", "extraer_fin"} THEN 1 ELSE 0)

Interior ==
  (IF Copiado /\ pcM # "exit" THEN <<bloque_monitor>> ELSE <<>>)
  \o [j \in 1 .. EnAnillo |-> bloque[(front + j - 1) % BUFFER_SIZE]]
  \o (CASE pcC = "comprobar" -> <<Sello(bloque_mq)>>
        [] pcC \in {"sem_empty", "sem_mutex", "anadir", "anadir_fin"} -> <<bloque_mq>>
        [] OTHER -> <<>>)

CanalAbstracto ==
  INSTANCE Canal WITH Capacidad <- BUFFER_SIZE + 2, entrada <- mq,
                      interior <- Interior, cerrado <- (pcM = "exit")

(* Every behaviour without SIGINT is one of the channel's: no block is lost,*)
(* duplicated, reordered or printed with a verdict that is not its own.     *)
ImplementaCanal == CanalAbstracto!Segura
=============================================================================
