----------------------------- MODULE MinerRush -----------------------------
(***************************************************************************)
(* The final project as it is run: the miner program of module Minero and  *)
(* the monitor program of module Monitor, at the two ends of one message   *)
(* queue and its name.  Four processes; the alarm ends the miner, and what *)
(* the miner sends last ends the monitor.  In place of the environment each*)
(* of the two modules assumes there is the other program.                  *)
(***************************************************************************)
EXTENDS Bloques, Sequences

CONSTANTS
  BUFFER_SIZE, MAX_MSG,
  PipeCap, Buscados, HilosFallan, OpenFalla, IpcFalla,   (* Minero    *)
  MaxBloques,          (* bound: blocks mined                               *)
  MaxSigint,           (* bound: SIGINTs sent, to either program            *)
  DestinosMinero, DestinosMonitor,
  MmapFalla, Basura    (* Monitor                                           *)

ASSUME MinerRushAssumption ==
  /\ BUFFER_SIZE \in Nat \ {0} /\ MAX_MSG \in Nat \ {0} /\ PipeCap \in Nat \ {0}
  /\ Buscados \subseteq 0 .. POW_LIMIT - 1
  /\ {HilosFallan, OpenFalla, IpcFalla, MmapFalla} \subseteq BOOLEAN
  /\ MaxBloques \in Nat /\ MaxSigint \in Nat
  /\ DestinosMinero \subseteq SUBSET {"minero", "registrador"}
  /\ DestinosMonitor \subseteq SUBSET {"comprobador", "monitor"}
  /\ Basura \subseteq Bloque

(* As Minero assumes.                                                       *)
ASSUME MenosUnoAssumption == pow_hash(-1) # -1

VARIABLES
  (* The queue and its name, which the programs share.                      *)
  mq, mqNombre,
  (* The miner program.                                                     *)
  pcMin, sintMin, salarm, bl_actual, bl_ultimo, num_mineros, auxiliar, curmsgs,
  pcReg, leido, registro, parte, tuberia, escritura, shmNombre,
  pendMin, pendReg, alarma, enviadasMin, minados, enviadosMq,
  (* The monitor program.                                                   *)
  bloque, front, rear, sem_fill, sem_empty, sem_mutex,
  pcC, bloque_mq, sintC, pcM, bloque_monitor, vivoM,
  pend, enviadasC, anadidos, impresos, eintr

minero == <<pcMin, sintMin, salarm, bl_actual, bl_ultimo, num_mineros, auxiliar, curmsgs,
            pcReg, leido, registro, parte, tuberia, escritura, shmNombre,
            pendMin, pendReg, alarma, enviadasMin, minados, enviadosMq>>
monitor == <<bloque, front, rear, sem_fill, sem_empty, sem_mutex,
             pcC, bloque_mq, sintC, pcM, bloque_monitor, vivoM,
             pend, enviadasC, anadidos, impresos, eintr>>
vars == <<mq, mqNombre, minero, monitor>>

Min == INSTANCE Minero WITH
         sint <- sintMin, enviadasSig <- enviadasMin, Destinos <- DestinosMinero,
         MqInicial <- {FALSE}, ShmInicial <- {FALSE}

(* The bounds of Monitor's own miner are not used.                          *)
Mon == INSTANCE Monitor WITH
         sint <- sintC, enviadasSig <- enviadasC, Destinos <- DestinosMonitor,
         ColaCreada <- {FALSE}, Pares <- {}, NumBloques <- 0,
         MineroCae <- FALSE, enviados <- 0, fuente <- "viva"

Init == Min!Init /\ Mon!Init

ProgramaMinero  == Min!Programa /\ UNCHANGED monitor
ProgramaMonitor == Mon!Programa /\ UNCHANGED minero
Sigint == /\ enviadasMin + enviadasC < MaxSigint
          /\ \/ Min!Sigint /\ UNCHANGED monitor
             \/ Mon!Sigint /\ UNCHANGED minero

Next == ProgramaMinero \/ ProgramaMonitor \/ Sigint

(* The fairness of the two modules.                                         *)
Justicia ==
  /\ WF_vars(Min!Principal /\ UNCHANGED monitor) /\ WF_vars(Min!Registrador /\ UNCHANGED monitor)
  /\ WF_vars(Min!Entrega /\ UNCHANGED monitor) /\ WF_vars(Min!Alarma /\ UNCHANGED monitor)
  /\ WF_vars(Mon!Comprobador /\ UNCHANGED minero) /\ WF_vars(Mon!MonitorHijo /\ UNCHANGED minero)
  /\ WF_vars(Mon!Entrega /\ UNCHANGED minero)

Spec == Init /\ [][Next]_vars /\ Justicia

-----------------------------------------------------------------------------
(* Properties.                                                              *)

(* With the monitor program at the other end the miner program behaves as   *)
(* module Minero says, which leaves that end free: so every property found  *)
(* there holds here.                                                        *)
ImplementaMinero == Min!Init /\ [][Min!Next]_(Min!vars)

(* From end to end: what the monitor prints are blocks the miner mined, in  *)
(* the order it mined them and none twice, each said to be validated exactly*)
(* when the miner gave it its own vote.                                     *)
ImpresoEsMinado ==
  ~eintr => \A i \in 1 .. Len(impresos) :
    LET b == impresos[i]
    IN  /\ b.id \in 1 .. Len(minados)
        /\ b = [minados[b.id] EXCEPT !.correcto = (b.votos_positivos = 1)]
        /\ i > 1 => impresos[i - 1].id < b.id

FinMandado == enviadosMq # <<>> /\ enviadosMq[Len(enviadosMq)].fin

(* Nobody will write to the queue the Comprobador reads.                    *)
SinFin == pcC = "mq_receive" /\ mq = <<>> /\ ~FinMandado

(* The alarm brings all four processes to their end, whatever SIGINTs come. *)
(* What may stay is the miner whose ftruncate fails, with its Registrador;  *)
(* the child of a Comprobador that is gone without a block to tell it; and  *)
(* both processes of the monitor program when the finishing block was not   *)
(* sent, even if a SIGINT came just before the Comprobador blocked in       *)
(* mq_receive.  A Monitor killed, or whose mmap fails, leaves the           *)
(* Comprobador waiting for a slot or for the mutex.                         *)
Acaba ==
  <>[](/\ (Min!TerminadoMin /\ Min!TerminadoReg) \/ (pcMin = "wait_fallo" /\ escritura)
       /\ \/ Mon!TerminadoC
          \/ SinFin
          \/ (~vivoM \/ pcM = "abortado") /\ pcC \in {"sem_empty", "sem_mutex"}
       /\ \/ Mon!TerminadoM
          \/ pcM = "sem_fill" /\ (SinFin \/ pcC \in {"abortado", "muerto"}))
=============================================================================
