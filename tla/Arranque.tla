------------------------------ MODULE Arranque ------------------------------
(***************************************************************************)
(* The names of the final project's IPC objects, with several launches of  *)
(* the miner and the monitor program that start, fail, end and are killed  *)
(* in any order.  A name is linked to the object its creator made, and any *)
(* program may unlink it.  What the programs do once started is in modules *)
(* Minero and Monitor; here a miner mines and sends its finishing block, a *)
(* Comprobador reads until it comes.                                       *)
(***************************************************************************)
EXTENDS Naturals, FiniteSets

CONSTANTS
  NumMineros,           (* launches of the miner program                    *)
  NumMonitores,         (* launches of the monitor program                  *)
  Fallan,               (* bound: the launches whose calls may fail for     *)
                        (* want of resources                                *)
  Mortales              (* bound: the launches that may be killed           *)

ASSUME ArranqueAssumption == NumMineros \in Nat /\ NumMonitores \in Nat

(* Launches of a program are numbered in the order they come to their first *)
(* name; 0 stands for no program.                                           *)
Mineros   == 1 .. NumMineros
Monitores == NumMineros + 1 .. NumMineros + NumMonitores
Programas == Mineros \cup Monitores
Nadie     == 0

VARIABLES
  nombre,    (* of each name, the program whose object it is linked to      *)
  pc,        (* of each program, the call it is about to make               *)
  queue,     (* of each Comprobador, the miner whose queue it has open      *)
  fin,       (* of each miner, its finishing block                          *)
  hijo,      (* of each monitor program, its child                          *)
  muertos    (* programs killed, at the pc they still show                  *)

vars == <<nombre, pc, queue, fin, hijo, muertos>>

Semaforos == {"SEM_FILL", "SEM_EMPTY", "SEM_MUTEX"}
Nombres == {"MQ_NAME", "SHM_MINERO", "SHM_MONITOR"} \cup Semaforos

Init ==
  /\ nombre = [x \in Nombres |-> Nadie]
  /\ pc = [x \in Programas |-> "inicio"]
  /\ queue = [m \in Monitores |-> Nadie]
  /\ fin = [n \in Mineros |-> "no"]
  /\ hijo = [m \in Monitores |-> "no"]
  /\ muertos = {}

En(x, de) == pc[x] = de /\ x \notin muertos
Va(x, a)  == pc' = [pc EXCEPT ![x] = a]

Turno(x, S) == \A y \in S : y < x => pc[y] # "inicio"

(* open with O_CREAT | O_EXCL: the name is free, or it is EEXIST.           *)
Crea(x, n, de, a) ==
  /\ En(x, de) /\ nombre[n] = Nadie /\ Va(x, a)
  /\ nombre' = [nombre EXCEPT ![n] = x]
  /\ UNCHANGED <<queue, fin, hijo, muertos>>

Existe(x, n, de, a) ==
  /\ En(x, de) /\ nombre[n] # Nadie /\ Va(x, a)
  /\ UNCHANGED <<nombre, queue, fin, hijo, muertos>>

(* unlink takes the name away whatever it is linked to now.                 *)
Desenlaza(x, n, de, a) ==
  /\ En(x, de) /\ Va(x, a)
  /\ nombre' = [nombre EXCEPT ![n] = Nadie]
  /\ UNCHANGED <<queue, fin, hijo, muertos>>

Sigue(x, de, a) ==
  /\ En(x, de) /\ Va(x, a)
  /\ UNCHANGED <<nombre, queue, fin, hijo, muertos>>

-----------------------------------------------------------------------------
(* The miner program, from mq_open on.                                      *)

(* Only EEXIST unlinks the name; any other error just ends the program.     *)
MineroMq(n) ==
  \/ Turno(n, Mineros) /\ Crea(n, "MQ_NAME", "inicio", "shm_open")
  \/ Turno(n, Mineros) /\ Existe(n, "MQ_NAME", "inicio", "quita_mq")
  \/ n \in Fallan /\ Turno(n, Mineros) /\ Sigue(n, "inicio", "fallo")
  \/ Desenlaza(n, "MQ_NAME", "quita_mq", "fallo")

(* Mutant: one that is not the first goes on like the first.                *)
MineroShm_SigueIgual(n) ==
  \/ Crea(n, "SHM_MINERO", "shm_open", "minando")
  \/ Existe(n, "SHM_MINERO", "shm_open", "minando")
  \/ n \in Fallan /\ Sigue(n, "shm_open", "abandono")
  \/ n \in Fallan /\ Crea(n, "SHM_MINERO", "shm_open", "quita_shm")
  \/ Desenlaza(n, "SHM_MINERO", "quita_shm", "fallo_shm")

(* shm_open and ftruncate, which shows to nobody but the miner.  Turned away*)
(* or with ftruncate failing, it unlinks SHM_MINERO and leaves its own      *)
(* queue's name behind; with shm_open failing otherwise, it only does that. *)
MineroShm(n) ==
  \/ Crea(n, "SHM_MINERO", "shm_open", "minando")
  \/ Existe(n, "SHM_MINERO", "shm_open", "quita_shm")
  \/ n \in Fallan /\ Sigue(n, "shm_open", "abandono")
  \/ n \in Fallan /\ Crea(n, "SHM_MINERO", "shm_open", "quita_shm")
  \/ Desenlaza(n, "SHM_MINERO", "quita_shm", "fallo_shm")

(* A write to the pipe fails and it exits, or the mmap before, which nobody *)
(* looks at, and SIGSEGV ends it: it unlinks nothing.                       *)
MineroAbandona(n) == n \in Fallan /\ Sigue(n, "minando", "abandono")

(* The finishing block is sent unless the queue is full.                    *)
MineroFin(n) ==
  /\ En(n, "minando") /\ Va(n, "shm_unlink")
  /\ \E f \in {"enviado", "perdido"} : fin' = [fin EXCEPT ![n] = f]
  /\ UNCHANGED <<nombre, queue, hijo, muertos>>

MineroUnlink(n) ==
  \/ Desenlaza(n, "SHM_MINERO", "shm_unlink", "mq_unlink")
  \/ Desenlaza(n, "MQ_NAME", "mq_unlink", "exit")

Minero(n) == MineroMq(n) \/ MineroShm(n) \/ MineroFin(n) \/ MineroUnlink(n)

-----------------------------------------------------------------------------
(* The monitor program.  ftruncate comes right after shm_unlink, and only   *)
(* EEXIST unlinks the name of a memory that could not be created.           *)

MonitorShm(m) ==
  \/ Turno(m, Monitores) /\ Crea(m, "SHM_MONITOR", "inicio", "shm_unlink")
  \/ Turno(m, Monitores) /\ Existe(m, "SHM_MONITOR", "inicio", "quita_shm")
  \/ m \in Fallan /\ Turno(m, Monitores) /\ Sigue(m, "inicio", "fallo")
  \/ Desenlaza(m, "SHM_MONITOR", "quita_shm", "fallo")
  \/ Desenlaza(m, "SHM_MONITOR", "shm_unlink", "sem_fill")
  \/ m \in Fallan /\ Desenlaza(m, "SHM_MONITOR", "shm_unlink", "fallo")

(* Mutant: EEXIST unlinks the name, as it does everywhere else.             *)
MonitorSem_Quita(m) ==
  \/ Crea(m, "SEM_FILL", "sem_fill", "sem_empty")
  \/ nombre["SEM_FILL"] # Nadie /\ Desenlaza(m, "SEM_FILL", "sem_fill", "fallo_sem")
  \/ Crea(m, "SEM_EMPTY", "sem_empty", "sem_mutex")
  \/ nombre["SEM_EMPTY"] # Nadie /\ Desenlaza(m, "SEM_EMPTY", "sem_empty", "fallo_sem")
  \/ Crea(m, "SEM_MUTEX", "sem_mutex", "unlink_fill")
  \/ nombre["SEM_MUTEX"] # Nadie /\ Desenlaza(m, "SEM_MUTEX", "sem_mutex", "fallo_sem")
  \/ m \in Fallan /\ \E s \in {"sem_fill", "sem_empty", "sem_mutex"} : Sigue(m, s, "fallo_sem")

(* The three exclusive sem_open; the error paths close, and unlink nothing. *)
MonitorSem(m) ==
  \/ Crea(m, "SEM_FILL", "sem_fill", "sem_empty")
  \/ Existe(m, "SEM_FILL", "sem_fill", "fallo_sem")
  \/ Crea(m, "SEM_EMPTY", "sem_empty", "sem_mutex")
  \/ Existe(m, "SEM_EMPTY", "sem_empty", "fallo_sem")
  \/ Crea(m, "SEM_MUTEX", "sem_mutex", "unlink_fill")
  \/ Existe(m, "SEM_MUTEX", "sem_mutex", "fallo_sem")
  \/ m \in Fallan /\ \E s \in {"sem_fill", "sem_empty", "sem_mutex"} : Sigue(m, s, "fallo_sem")

(* Mutant: sem_unlink of the second name is missing.                        *)
MonitorUnlink_SinEmpty(m) ==
  \/ Desenlaza(m, "SEM_FILL", "unlink_fill", "unlink_empty")
  \/ Sigue(m, "unlink_empty", "unlink_mutex")
  \/ Desenlaza(m, "SEM_MUTEX", "unlink_mutex", "fork")

MonitorUnlink(m) ==
  \/ Desenlaza(m, "SEM_FILL", "unlink_fill", "unlink_empty")
  \/ Desenlaza(m, "SEM_EMPTY", "unlink_empty", "unlink_mutex")
  \/ Desenlaza(m, "SEM_MUTEX", "unlink_mutex", "fork")

MonitorFork(m) ==
  \/ /\ En(m, "fork") /\ Va(m, "mq_open")
     /\ hijo' = [hijo EXCEPT ![m] = "activo"]
     /\ UNCHANGED <<nombre, queue, fin, muertos>>
  \/ m \in Fallan /\ Sigue(m, "fork", "fallo")

(* The Comprobador finds the queue that has the name, or leaves, as it does *)
(* with its own mmap or mq_open failing.                                    *)
ComprobadorMq(m) ==
  \/ /\ En(m, "mq_open") /\ nombre["MQ_NAME"] # Nadie /\ Va(m, "mq_unlink")
     /\ queue' = [queue EXCEPT ![m] = nombre["MQ_NAME"]]
     /\ UNCHANGED <<nombre, fin, hijo, muertos>>
  \/ (nombre["MQ_NAME"] = Nadie \/ m \in Fallan) /\ Sigue(m, "mq_open", "fallo_cola")
  \/ Desenlaza(m, "MQ_NAME", "mq_unlink", "leyendo")

(* It takes the finishing block; SIGINT makes it go without one.            *)
ComprobadorFin(m) ==
  /\ En(m, "leyendo") /\ fin[queue[m]] = "enviado" /\ Va(m, "wait")
  /\ fin' = [fin EXCEPT ![queue[m]] = "leido"]
  /\ UNCHANGED <<nombre, queue, hijo, muertos>>

ComprobadorSigint(m) == Sigue(m, "leyendo", "wait")

(* The child ends at the finishing block, and the Comprobador after it.     *)
HijoTermina(m) ==
  /\ pc[m] = "wait" /\ hijo[m] = "activo"
  /\ hijo' = [hijo EXCEPT ![m] = "exit"]
  /\ UNCHANGED <<nombre, pc, queue, fin, muertos>>

(* Mutant: the Comprobador does not leave the loop.                         *)
ComprobadorWait_Bucle(m) == hijo[m] = "exit" /\ Sigue(m, "wait", "leyendo")

ComprobadorWait(m) == hijo[m] = "exit" /\ Sigue(m, "wait", "exit")

Monitor(m) == \/ MonitorShm(m) \/ MonitorSem(m) \/ MonitorUnlink(m)
              \/ MonitorFork(m) \/ ComprobadorMq(m) \/ ComprobadorFin(m) \/ ComprobadorWait(m)

-----------------------------------------------------------------------------
Finales == {"fallo", "fallo_shm", "fallo_sem", "fallo_cola", "abandono", "exit"}
Activo(x) == x \notin muertos /\ pc[x] \notin Finales \cup {"inicio"}

Mata(x) ==
  /\ x \in Mortales /\ Activo(x)
  /\ muertos' = muertos \cup {x}
  /\ UNCHANGED <<nombre, pc, queue, fin, hijo>>

Next ==
  \/ \E n \in Mineros : Minero(n) \/ MineroAbandona(n)
  \/ \E m \in Monitores : Monitor(m) \/ ComprobadorSigint(m) \/ HijoTermina(m)
  \/ \E x \in Programas : Mata(x)

(* What was started is scheduled, and the miner's alarm goes off.  Nobody   *)
(* has to start a program, nor to send a SIGINT.  Each program takes finitely*)
(* many steps, so it is enough that one of those that can go on does.       *)
Avanza ==
  \/ \E n \in Mineros : Activo(n) /\ Minero(n)
  \/ \E m \in Monitores : (Activo(m) /\ Monitor(m)) \/ HijoTermina(m)

Justicia == WF_vars(Avanza)

Spec == Init /\ [][Next]_vars /\ Justicia

-----------------------------------------------------------------------------
(* Properties.                                                              *)

EstadosMinero == {"inicio", "quita_mq", "shm_open", "quita_shm", "minando",
                  "shm_unlink", "mq_unlink", "abandono", "fallo", "fallo_shm", "exit"}
EstadosMonitor == {"inicio", "quita_shm", "shm_unlink", "sem_fill", "sem_empty",
                   "sem_mutex", "unlink_fill", "unlink_empty", "unlink_mutex", "fork", "mq_open",
                   "mq_unlink", "leyendo", "wait", "fallo", "fallo_sem", "fallo_cola", "exit"}

TypeOK ==
  /\ nombre \in [Nombres -> Programas \cup {Nadie}]
  /\ nombre["MQ_NAME"] \in Mineros \cup {Nadie} /\ nombre["SHM_MINERO"] \in Mineros \cup {Nadie}
  /\ pc \in [Programas -> EstadosMinero \cup EstadosMonitor]
  /\ \A x \in Programas : pc[x] \in IF x \in Mineros THEN EstadosMinero ELSE EstadosMonitor
  /\ queue \in [Monitores -> Mineros \cup {Nadie}]
  /\ fin \in [Mineros -> {"no", "enviado", "perdido", "leido"}]
  /\ hijo \in [Monitores -> {"no", "activo", "exit"}]
  /\ muertos \subseteq Programas

(* A name stays linked only by a program that still has to unlink it, was   *)
(* killed before it could, or failed on the way: never by one that ran to   *)
(* its end, whatever others unlinked and took meanwhile.                    *)
PorQuitar(n) ==
  CASE n = "MQ_NAME"     -> {"shm_open", "quita_shm", "minando", "shm_unlink", "mq_unlink",
                             "fallo_shm", "abandono"}
    [] n = "SHM_MINERO"  -> {"quita_shm", "minando", "shm_unlink", "abandono"}
    [] n = "SHM_MONITOR" -> {"shm_unlink"}
    [] n = "SEM_FILL"    -> {"sem_empty", "sem_mutex", "unlink_fill", "fallo_sem"}
    [] n = "SEM_EMPTY"   -> {"sem_mutex", "unlink_fill", "unlink_empty", "fallo_sem"}
    [] n = "SEM_MUTEX"   -> {"unlink_fill", "unlink_empty", "unlink_mutex"}

Restos == \A n \in Nombres : nombre[n] # Nadie => pc[nombre[n]] \in PorQuitar(n)

(* minero.c:323-326: a miner that creates SHM_MINERO takes itself for the   *)
(* first.  Each further one that mines at the same time costs one that was  *)
(* turned away, since EEXIST and ftruncate's error unlink the name.         *)
Primeros == {n \in Mineros : n \notin muertos /\ pc[n] \in {"minando", "shm_unlink"}}
Rechazados == {n \in Mineros : pc[n] = "fallo_shm"}
PrimerMinero == Cardinality(Primeros) <= 1 + Cardinality(Rechazados)

(* Where a monitor program is among the three sem_open and sem_unlink.      *)
Paso(m) == CASE pc[m] = "sem_fill" -> 1 [] pc[m] = "sem_empty" -> 2 [] pc[m] = "sem_mutex" -> 3
             [] pc[m] \in {"unlink_fill", "unlink_empty", "unlink_mutex"} -> 4 [] OTHER -> 0

(* A semaphore's name was left by a monitor that is gone, and every other   *)
(* that has begun has still to come to it.                                  *)
Abandonado(n, i) ==
  /\ nombre[n] # Nadie /\ ~Activo(nombre[n])
  /\ \A m \in Monitores : m \in muertos \/ Paso(m) <= i
Atascado ==
  Abandonado("SEM_FILL", 1) \/ Abandonado("SEM_EMPTY", 2) \/ Abandonado("SEM_MUTEX", 3)

(* From then on no monitor program gets as far as the fork, ever again.     *)
SinVuelta ==
  [][Atascado => Atascado' /\ \A m \in Monitores : pc'[m] = "fork" => pc[m] = "fork"]_vars

(* The two processes of a monitor program end, unless it is killed; unless  *)
(* the miner whose queue it reads was killed, failed, could not send its    *)
(* finishing block, or sent it to another Comprobador of the same queue; or *)
(* unless the Comprobador found no queue and left its child waiting.        *)
SinFinal(m) ==
  LET n == queue[m] IN
  /\ pc[m] = "leyendo"
  /\ \/ n \in muertos \/ pc[n] \in {"fallo_shm", "abandono"} \/ fin[n] = "perdido"
     \/ \E x \in Monitores \ {m} : queue[x] = n /\ fin[n] = "leido"

Acaba ==
  <>[](\A m \in Monitores :
         /\ Activo(m) => SinFinal(m)
         /\ hijo[m] = "activo" => m \in muertos \/ pc[m] = "fallo_cola" \/ SinFinal(m))
=============================================================================
