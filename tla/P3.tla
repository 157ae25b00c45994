--------------------------------- MODULE P3 ---------------------------------
(***************************************************************************)
(* Practice 3: several launches of the programs p3/monitor.c and           *)
(* p3/minero.c.  The monitor that creates the shared memory becomes the    *)
(* comprobador; one that finds it opens it, unlinks its name and becomes a *)
(* monitor.  The semaphores live inside the memory and are initialised     *)
(* with pshared 0, so a post may fail to wake a process that sleeps in     *)
(* sem_wait.  No program handles a signal.                                 *)
(***************************************************************************)
EXTENDS Bloques, Sequences, FiniteSets

CONSTANTS
  Monitores,     (* launches of the monitor program                         *)
  Mineros,       (* launches of the miner program                           *)
  Nadie,         (* no object                                               *)
  BUFFER_SIZE,   (* slots of the ring                                       *)
  MAX_MSG,       (* capacity of a message queue                             *)
  Ciclos,        (* n_cycles a miner may be given; 0: arguments it rejects  *)
  Fallos,        (* TRUE iff ftruncate and mmap may fail                    *)
  MaxMuertes     (* bound: processes killed                                 *)

ASSUME P3Assumption ==
  /\ BUFFER_SIZE \in Nat \ {0} /\ MAX_MSG \in Nat \ {0}
  /\ Ciclos \subseteq Nat /\ Fallos \in BOOLEAN /\ MaxMuertes \in Nat
  /\ IsFiniteSet(Monitores) /\ IsFiniteSet(Mineros) /\ Monitores \cap Mineros = {}
  /\ Nadie \notin Monitores \cup Mineros

VARIABLES
  (* A program creates at most one memory or one queue, which is called     *)
  (* after it; these two are the objects SHM_NAME and MQ_NAME stand for.    *)
  SHM_NAME, MQ_NAME,
  memoria, cola,
  proc,        (* the monitor programs                                      *)
  min,         (* the miner programs                                        *)
  dormidos,    (* monitor programs asleep in a sem_wait                     *)
  muertos,     (* programs killed, at the pc they still show                *)
  (* History: of each memory the blocks put in and who took them out, in    *)
  (* order; what each monitor has printed.                                  *)
  puestos, turnos, impresos

nombres   == <<SHM_NAME, MQ_NAME>>
historia  == <<puestos, turnos, impresos>>
vars == <<nombres, memoria, cola, proc, min, dormidos, muertos, historia>>

Dato == [fin : BOOLEAN, objetivo : Int, solucion : Int, correcto : BOOLEAN]
Ceros == [fin |-> FALSE, objetivo |-> 0, solucion |-> 0, correcto |-> FALSE]
DatoFin == [fin |-> TRUE, objetivo |-> -1, solucion |-> -1, correcto |-> FALSE]

Ranuras == 0 .. BUFFER_SIZE - 1

(* An object just created: no length, and zeros once it has one.            *)
MemoriaNueva == [ tam |-> FALSE, bloque |-> [i \in Ranuras |-> Ceros], front |-> 0, rear |-> 0,
                  sem |-> [fill |-> 0, empty |-> 0, mutex |-> 0] ]

EstadosP == {"shm_open", "ftruncate", "sem_init", "mq_open", "mq_unlink", "mq_receive",
             "empty", "mutex", "anadir", "rear", "post_mutex", "post_fill",
             "abrir", "shm_unlink", "mmap", "fill", "extraer", "front", "post_empty",
             "imprimir", "exit", "fallo", "sigbus"}
EstadosN == {"mq_open", "abrir", "args", "enviar", "fin", "exit", "fallo"}

Init ==
  /\ SHM_NAME = Nadie /\ MQ_NAME = Nadie
  /\ memoria = [m \in Monitores |-> MemoriaNueva]
  /\ cola = [q \in Mineros |-> <<>>]
  /\ proc = [p \in Monitores |-> [pc |-> "shm_open", rol |-> "", mem |-> Nadie,
                                  queue |-> Nadie, dato |-> Ceros]]
  /\ min \in [Mineros -> {[pc |-> "mq_open", queue |-> Nadie, n_cycles |-> c, i |-> 0, target |-> 0]
                          : c \in Ciclos}]
  /\ dormidos = {} /\ muertos = {}
  /\ puestos = [m \in Monitores |-> <<>>] /\ turnos = [m \in Monitores |-> <<>>]
  /\ impresos = [p \in Monitores |-> <<>>]

Terminales == {"exit", "fallo", "sigbus"}

-----------------------------------------------------------------------------
(* Steps of a monitor program: a program awake goes from one pc to another. *)

Despierto(p, de) == proc[p].pc = de /\ p \notin dormidos \cup muertos
Pasa(p, de, a) == Despierto(p, de) /\ proc' = [proc EXCEPT ![p].pc = a]

EsComprobador(p) == proc[p].rol = "comprobador"

SemWait(p, s, a) ==
  /\ Pasa(p, s, a)
  /\ memoria[proc[p].mem].sem[s] > 0
  /\ memoria' = [memoria EXCEPT ![proc[p].mem].sem[s] = @ - 1]
  /\ UNCHANGED <<nombres, cola, min, dormidos, muertos, historia>>

(* Nothing to take: it goes to sleep, and stays so till a post wakes it.    *)
Duerme(p, s) ==
  /\ Despierto(p, s)
  /\ memoria[proc[p].mem].tam /\ memoria[proc[p].mem].sem[s] = 0
  /\ dormidos' = dormidos \cup {p}
  /\ UNCHANGED <<nombres, memoria, cola, proc, min, muertos, historia>>

(* With pshared 0 the waiter is another process: the post may wake one or   *)
(* none.                                                                    *)
SemPost(p, s) ==
  LET m == proc[p].mem
      enEspera == {q \in dormidos : proc[q].mem = m /\ proc[q].pc = s}
  IN  /\ memoria' = [memoria EXCEPT ![m].sem[s] = @ + 1]
      /\ dormidos' \in {dormidos} \cup {dormidos \ {q} : q \in enEspera}

-----------------------------------------------------------------------------
(* main of p3/monitor.c.                                                    *)

ShmCrea(p) ==
  /\ Despierto(p, "shm_open") /\ SHM_NAME = Nadie
  /\ SHM_NAME' = p
  /\ proc' = [proc EXCEPT ![p].pc = "ftruncate", ![p].rol = "comprobador", ![p].mem = p]
  /\ UNCHANGED <<MQ_NAME, memoria, cola, min, dormidos, muertos, historia>>

(* EEXIST: the name is opened again ...                                     *)
ShmExiste(p) ==
  /\ SHM_NAME # Nadie
  /\ Pasa(p, "shm_open", "abrir")
  /\ UNCHANGED <<nombres, memoria, cola, min, dormidos, muertos, historia>>

(* ... and may be gone by now, or be that of another memory.                *)
ShmAbre(p) ==
  /\ Despierto(p, "abrir")
  /\ proc' = [proc EXCEPT ![p] = IF SHM_NAME = Nadie THEN [@ EXCEPT !.pc = "fallo"]
                                 ELSE [@ EXCEPT !.pc = "shm_unlink", !.rol = "monitor",
                                                !.mem = SHM_NAME]]
  /\ UNCHANGED <<nombres, memoria, cola, min, dormidos, muertos, historia>>

(* It unlinks whatever memory has the name now.                             *)
ShmUnlink(p) ==
  /\ Pasa(p, "shm_unlink", "mmap")
  /\ SHM_NAME' = Nadie
  /\ UNCHANGED <<MQ_NAME, memoria, cola, min, dormidos, muertos, historia>>

Ftruncate(p) ==
  /\ Pasa(p, "ftruncate", "sem_init")
  /\ memoria' = [memoria EXCEPT ![p].tam = TRUE]
  /\ UNCHANGED <<nombres, cola, min, dormidos, muertos, historia>>

(* A call fails: the program exits, and unlinks nothing.                    *)
FtruncateFalla(p) ==
  /\ Fallos /\ Pasa(p, "ftruncate", "fallo")
  /\ UNCHANGED <<nombres, memoria, cola, min, dormidos, muertos, historia>>

C_MmapFalla(p) ==
  /\ Fallos /\ Pasa(p, "sem_init", "fallo")
  /\ UNCHANGED <<nombres, memoria, cola, min, dormidos, muertos, historia>>

M_MmapFalla(p) ==
  /\ Fallos /\ Pasa(p, "mmap", "fallo")
  /\ UNCHANGED <<nombres, memoria, cola, min, dormidos, muertos, historia>>

Falla(p) == FtruncateFalla(p) \/ C_MmapFalla(p) \/ M_MmapFalla(p)

-----------------------------------------------------------------------------
(* comprobador.                                                             *)

(* Mutant: the semaphore of free slots counts one too many.                 *)
SemInit_UnoMas(p) ==
  /\ Pasa(p, "sem_init", "mq_open")
  /\ memoria' = [memoria EXCEPT ![p] = [@ EXCEPT !.front = 0, !.rear = 0,
                   !.sem = [fill |-> 0, empty |-> BUFFER_SIZE + 1, mutex |-> 1]]]
  /\ UNCHANGED <<nombres, cola, min, dormidos, muertos, historia>>

(* Mutant: the mutex starts with the value of the free slots.               *)
SemInit_Mutex(p) ==
  /\ Pasa(p, "sem_init", "mq_open")
  /\ memoria' = [memoria EXCEPT ![p] = [@ EXCEPT !.front = 0, !.rear = 0,
                   !.sem = [fill |-> 0, empty |-> BUFFER_SIZE, mutex |-> BUFFER_SIZE]]]
  /\ UNCHANGED <<nombres, cola, min, dormidos, muertos, historia>>

(* mmap, front, rear and the three sem_init.  A monitor that is already     *)
(* there waits on sem_fill, which is 0 before and after: the order of these *)
(* writes shows to nobody.                                                  *)
SemInit(p) ==
  /\ Pasa(p, "sem_init", "mq_open")
  /\ memoria' = [memoria EXCEPT ![p] = [@ EXCEPT !.front = 0, !.rear = 0,
                   !.sem = [fill |-> 0, empty |-> BUFFER_SIZE, mutex |-> 1]]]
  /\ UNCHANGED <<nombres, cola, min, dormidos, muertos, historia>>

(* Without a queue it exits, and the memory's name stays.                   *)
MqAbre(p) ==
  /\ Despierto(p, "mq_open")
  /\ proc' = [proc EXCEPT ![p] = IF MQ_NAME = Nadie THEN [@ EXCEPT !.pc = "fallo"]
                                 ELSE [@ EXCEPT !.pc = "mq_unlink", !.queue = MQ_NAME]]
  /\ UNCHANGED <<nombres, memoria, cola, min, dormidos, muertos, historia>>

(* It unlinks whatever queue has the name now.                              *)
MqUnlink(p) ==
  /\ Pasa(p, "mq_unlink", "mq_receive")
  /\ MQ_NAME' = Nadie
  /\ UNCHANGED <<SHM_NAME, memoria, cola, min, dormidos, muertos, historia>>

Comprueba(d) == [d EXCEPT !.correcto = Resuelto(d)]

MqReceive(p) ==
  LET q == proc[p].queue IN
  /\ Despierto(p, "mq_receive") /\ cola[q] # <<>>
  /\ proc' = [proc EXCEPT ![p].pc = "empty", ![p].dato = Comprueba(Head(cola[q]))]
  /\ cola' = [cola EXCEPT ![q] = Tail(@)]
  /\ UNCHANGED <<nombres, memoria, min, dormidos, muertos, historia>>

(* sem_wait(empty), sem_wait(mutex), then the copy, rear, and the two posts.*)
Anadir(p) ==
  LET m == proc[p].mem IN
  /\ Pasa(p, "anadir", "rear")
  /\ memoria' = [memoria EXCEPT ![m].bloque[memoria[m].rear] = proc[p].dato]
  /\ UNCHANGED <<nombres, cola, min, dormidos, muertos, historia>>

Rear(p) ==
  LET m == proc[p].mem IN
  /\ Pasa(p, "rear", "post_mutex")
  /\ memoria' = [memoria EXCEPT ![m].rear = (@ + 1) % BUFFER_SIZE]
  /\ puestos' = [puestos EXCEPT ![m] = Append(@, proc[p].dato)]
  /\ UNCHANGED <<nombres, cola, min, dormidos, muertos, turnos, impresos>>

PostMutex(p) ==
  /\ Pasa(p, "post_mutex", IF EsComprobador(p) THEN "post_fill" ELSE "post_empty")
  /\ SemPost(p, "mutex")
  /\ UNCHANGED <<nombres, cola, min, muertos, historia>>

(* Mutant: the loop is not left after a finishing block.                    *)
PostFill_SinFin(p) ==
  /\ Pasa(p, "post_fill", "mq_receive")
  /\ SemPost(p, "fill")
  /\ UNCHANGED <<nombres, cola, min, muertos, historia>>

(* After a finishing block it leaves; sem_destroy does nothing.             *)
PostFill(p) ==
  /\ Pasa(p, "post_fill", IF proc[p].dato.fin THEN "exit" ELSE "mq_receive")
  /\ SemPost(p, "fill")
  /\ UNCHANGED <<nombres, cola, min, muertos, historia>>

-----------------------------------------------------------------------------
(* monitor.                                                                 *)

Mmap(p) ==
  /\ Pasa(p, "mmap", "fill")
  /\ UNCHANGED <<nombres, memoria, cola, min, dormidos, muertos, historia>>

(* It reaches sem_fill before the memory has a length: SIGBUS.              *)
Sigbus(p) ==
  /\ Pasa(p, "fill", "sigbus")
  /\ ~memoria[proc[p].mem].tam
  /\ UNCHANGED <<nombres, memoria, cola, min, dormidos, muertos, historia>>

(* Mutant: front has already moved on when the block is copied.             *)
Extraer_Siguiente(p) ==
  LET b == memoria[proc[p].mem] IN
  /\ Despierto(p, "extraer")
  /\ proc' = [proc EXCEPT ![p].pc = "front", ![p].dato = b.bloque[(b.front + 1) % BUFFER_SIZE]]
  /\ UNCHANGED <<nombres, memoria, cola, min, dormidos, muertos, historia>>

Extraer(p) ==
  LET b == memoria[proc[p].mem] IN
  /\ Despierto(p, "extraer")
  /\ proc' = [proc EXCEPT ![p].pc = "front", ![p].dato = b.bloque[b.front]]
  /\ UNCHANGED <<nombres, memoria, cola, min, dormidos, muertos, historia>>

Front(p) ==
  LET m == proc[p].mem IN
  /\ Pasa(p, "front", "post_mutex")
  /\ memoria' = [memoria EXCEPT ![m].front = (@ + 1) % BUFFER_SIZE]
  /\ turnos' = [turnos EXCEPT ![m] = Append(@, p)]
  /\ UNCHANGED <<nombres, cola, min, dormidos, muertos, puestos, impresos>>

PostEmpty(p) ==
  /\ Pasa(p, "post_empty", IF proc[p].dato.fin THEN "exit" ELSE "imprimir")
  /\ SemPost(p, "empty")
  /\ UNCHANGED <<nombres, cola, min, muertos, historia>>

Imprimir(p) ==
  /\ Pasa(p, "imprimir", "fill")
  /\ impresos' = [impresos EXCEPT ![p] = Append(@, proc[p].dato)]
  /\ UNCHANGED <<nombres, memoria, cola, min, dormidos, muertos, puestos, turnos>>

(* The two loops, whose middle is the same.                                 *)
WaitMutex(p) == SemWait(p, "mutex", IF EsComprobador(p) THEN "anadir" ELSE "extraer")

Comprobador(p) ==
  \/ Ftruncate(p) \/ SemInit(p) \/ MqAbre(p) \/ MqUnlink(p) \/ MqReceive(p)
  \/ SemWait(p, "empty", "mutex") \/ Duerme(p, "empty") \/ Anadir(p) \/ Rear(p) \/ PostFill(p)

Monitor(p) ==
  \/ ShmAbre(p) \/ ShmUnlink(p) \/ Mmap(p) \/ Sigbus(p)
  \/ SemWait(p, "fill", "mutex") \/ Duerme(p, "fill")
  \/ Extraer(p) \/ Front(p) \/ PostEmpty(p) \/ Imprimir(p)

-----------------------------------------------------------------------------
(* p3/minero.c.                                                             *)

MPasa(n, de, a) == min[n].pc = de /\ n \notin muertos /\ min' = [min EXCEPT ![n].pc = a]

MqCrea(n) ==
  /\ min[n].pc = "mq_open" /\ n \notin muertos /\ MQ_NAME = Nadie
  /\ MQ_NAME' = n
  /\ min' = [min EXCEPT ![n].pc = "args", ![n].queue = n]
  /\ UNCHANGED <<SHM_NAME, memoria, cola, proc, dormidos, muertos, historia>>

MqExiste(n) ==
  /\ MQ_NAME # Nadie
  /\ MPasa(n, "mq_open", "abrir")
  /\ UNCHANGED <<nombres, memoria, cola, proc, dormidos, muertos, historia>>

(* The second mq_open fails if a comprobador has unlinked the name.         *)
MqReabre(n) ==
  /\ min[n].pc = "abrir" /\ n \notin muertos
  /\ min' = [min EXCEPT ![n] = IF MQ_NAME = Nadie THEN [@ EXCEPT !.pc = "fallo"]
                               ELSE [@ EXCEPT !.pc = "args", !.queue = MQ_NAME]]
  /\ UNCHANGED <<nombres, memoria, cola, proc, dormidos, muertos, historia>>

(* The arguments are looked at when the queue exists: rejected ones leave it*)
(* behind with nobody to write to it.                                       *)
Argumentos(n) ==
  /\ MPasa(n, "args", IF min[n].n_cycles = 0 THEN "fallo" ELSE "enviar")
  /\ UNCHANGED <<nombres, memoria, cola, proc, dormidos, muertos, historia>>

(* The first value of 0 .. POW_LIMIT with that hash, or -1.                 *)
target_search(t) ==
  LET buenos == {x \in 0 .. POW_LIMIT : pow_hash(x) = t}
  IN  IF buenos = {} THEN -1 ELSE CHOOSE x \in buenos : \A y \in buenos : x <= y

SinSolucion(n) ==
  /\ MPasa(n, "enviar", "fallo")
  /\ target_search(min[n].target) = -1
  /\ UNCHANGED <<nombres, memoria, cola, proc, dormidos, muertos, historia>>

(* Mutant: the target of the next block is not moved on.                    *)
Enviar_MismoTarget(n) ==
  LET s == target_search(min[n].target)
      q == min[n].queue
  IN  /\ min[n].pc = "enviar" /\ n \notin muertos
      /\ s # -1 /\ Len(cola[q]) < MAX_MSG
      /\ cola' = [cola EXCEPT ![q] = Append(@, [fin |-> FALSE, objetivo |-> min[n].target,
                                                solucion |-> s, correcto |-> TRUE])]
      /\ min' = [min EXCEPT ![n] = [@ EXCEPT !.i = min[n].i + 1,
                   !.pc = IF min[n].i + 1 = min[n].n_cycles THEN "fin" ELSE "enviar"]]
      /\ UNCHANGED <<nombres, memoria, proc, dormidos, muertos, historia>>

(* One round of the loop: it blocks while the queue is full.                *)
Enviar(n) ==
  LET s == target_search(min[n].target)
      q == min[n].queue
  IN  /\ min[n].pc = "enviar" /\ n \notin muertos
      /\ s # -1 /\ Len(cola[q]) < MAX_MSG
      /\ cola' = [cola EXCEPT ![q] = Append(@, [fin |-> FALSE, objetivo |-> min[n].target,
                                                solucion |-> s, correcto |-> TRUE])]
      /\ min' = [min EXCEPT ![n] = [@ EXCEPT !.target = s, !.i = min[n].i + 1,
                   !.pc = IF min[n].i + 1 = min[n].n_cycles THEN "fin" ELSE "enviar"]]
      /\ UNCHANGED <<nombres, memoria, proc, dormidos, muertos, historia>>

EnviarFin(n) ==
  LET q == min[n].queue IN
  /\ MPasa(n, "fin", "exit")
  /\ Len(cola[q]) < MAX_MSG
  /\ cola' = [cola EXCEPT ![q] = Append(@, DatoFin)]
  /\ UNCHANGED <<nombres, memoria, proc, dormidos, muertos, historia>>

Minero(n) == MqReabre(n) \/ Argumentos(n) \/ SinSolucion(n) \/ Enviar(n) \/ EnviarFin(n)

-----------------------------------------------------------------------------
(* The user starts programs, and may kill any of them.                      *)

LanzaMonitor(p) == ShmCrea(p) \/ ShmExiste(p)
LanzaMinero(n)  == MqCrea(n) \/ MqExiste(n)

Lanzado(x) == IF x \in Monitores THEN proc[x].pc # "shm_open" ELSE min[x].pc # "mq_open"
Ido(x) == x \in muertos \/ (IF x \in Monitores THEN proc[x].pc ELSE min[x].pc) \in Terminales

Mata(x) ==
  /\ Cardinality(muertos) < MaxMuertes
  /\ Lanzado(x) /\ ~Ido(x)
  /\ muertos' = muertos \cup {x}
  /\ dormidos' = dormidos \ {x}
  /\ UNCHANGED <<nombres, memoria, cola, proc, min, historia>>

PasoMonitor(p) == Comprobador(p) \/ Monitor(p) \/ WaitMutex(p) \/ Duerme(p, "mutex") \/ PostMutex(p)

Next ==
  \/ \E p \in Monitores : LanzaMonitor(p) \/ PasoMonitor(p) \/ Falla(p)
  \/ \E n \in Mineros : LanzaMinero(n) \/ Minero(n)
  \/ \E x \in Monitores \cup Mineros : Mata(x)

(* A program that was started is scheduled.  Nobody has to start one.       *)
Justicia == /\ \A p \in Monitores : WF_vars(PasoMonitor(p))
            /\ \A n \in Mineros : WF_vars(Minero(n))

Spec == Init /\ [][Next]_vars /\ Justicia

-----------------------------------------------------------------------------
(* Properties.                                                              *)

Objetos(S) == S \cup {Nadie}
Semaforos == {"fill", "empty", "mutex"}

Memoria == [ tam : BOOLEAN, bloque : [Ranuras -> Dato], front : Ranuras, rear : Ranuras,
             sem : [Semaforos -> Nat] ]
Proceso == [ pc : EstadosP, rol : {"", "comprobador", "monitor"},
             mem : Objetos(Monitores), queue : Objetos(Mineros), dato : Dato ]
ProcesoMinero == [ pc : EstadosN, queue : Objetos(Mineros), n_cycles : Nat, i : Nat, target : Int ]

TypeOK ==
  /\ SHM_NAME \in Objetos(Monitores) /\ MQ_NAME \in Objetos(Mineros)
  /\ memoria \in [Monitores -> Memoria]
  /\ cola \in [Mineros -> Seq(Dato)]
  /\ proc \in [Monitores -> Proceso] /\ min \in [Mineros -> ProcesoMinero]
  /\ dormidos \subseteq Monitores /\ muertos \subseteq Monitores \cup Mineros
  /\ puestos \in [Monitores -> Seq(Dato)] /\ turnos \in [Monitores -> Seq(Monitores)]
  /\ impresos \in [Monitores -> Seq(Dato)]

EnAnillo(m) == Len(puestos[m]) - Len(turnos[m])

(* One program at a time is inside a memory's critical section, although a  *)
(* monitor may come before the mutex has been initialised, two monitors may *)
(* share a memory, and any of them may be killed inside.                    *)
Dentro(m) == {p \in Monitores : /\ proc[p].mem = m
                                /\ proc[p].pc \in {"anadir", "rear", "extraer", "front", "post_mutex"}}
ExclusionMutua == \A m \in Monitores : Cardinality(Dentro(m)) <= 1

(* The comprobador copies only into a slot that has been read.              *)
NoSobrescribe ==
  \A p \in Monitores : proc[p].pc \in {"anadir", "rear"} => EnAnillo(p) < BUFFER_SIZE

(* So it is with every memory, abandoned or shared, initialised or not.     *)
MemoriaSegura == TypeOK /\ ExclusionMutua /\ NoSobrescribe

(* Of a memory's blocks each goes to one monitor, in the order they were put*)
(* in: what a monitor has printed, with the block in its hand, is exactly   *)
(* what its turns were.                                                     *)
EnMano(p) == IF proc[p].rol = "monitor"
                /\ proc[p].pc \in {"post_mutex", "post_empty", "imprimir", "exit"}
             THEN <<proc[p].dato>> ELSE <<>>
Tomados(p) == impresos[p] \o EnMano(p)

(* Of the first k turns of a memory, those of a monitor.                    *)
Turnos(p, m, k) == {j \in 1 .. k : turnos[m][j] = p}

Reparto ==
  \A m \in Monitores :
    /\ EnAnillo(m) >= 0
    /\ \A p \in Monitores : proc[p].rol = "monitor" /\ proc[p].mem = m =>
         /\ Len(Tomados(p)) = Cardinality(Turnos(p, m, Len(turnos[m])))
         /\ \A k \in 1 .. Len(turnos[m]) : turnos[m][k] = p =>
              Tomados(p)[Cardinality(Turnos(p, m, k))] = puestos[m][k]

(* No block is lost, made up or taken twice on its way from the miners to   *)
(* the rings, whoever shares a queue: of each block as many were sent as are*)
(* queued, in the hands of a comprobador, or put in a ring.                 *)
Cadena[k \in Nat] == IF k = 0 THEN 0 ELSE target_search(Cadena[k - 1])

Clave(d) == <<d.fin, d.objetivo, d.solucion>>
ClaveN(k) == <<FALSE, Cadena[k], Cadena[k + 1]>>
Claves == {ClaveN(k) : k \in 0 .. POW_LIMIT} \cup {Clave(DatoFin)}

Escritores(q) == {n \in Mineros : min[n].queue = q}
Enviados(q, c) ==
  Cardinality({n \in Escritores(q) : min[n].pc = "exit" /\ c = Clave(DatoFin)})
  + Cardinality(UNION {{<<n, k>> : k \in {j \in 0 .. min[n].i - 1 : ClaveN(j) = c}}
                       : n \in Escritores(q)})
Encolados(q, c) == Cardinality({j \in 1 .. Len(cola[q]) : Clave(cola[q][j]) = c})
Lectores(q) == {p \in Monitores : proc[p].queue = q}
Recibidos(q, c) ==
  Cardinality(UNION {{<<p, j>> : j \in {i \in 1 .. Len(puestos[p]) : Clave(puestos[p][i]) = c}}
                     : p \in Lectores(q)})
  + Cardinality({p \in Lectores(q) : /\ proc[p].pc \in {"empty", "mutex", "anadir", "rear"}
                                     /\ Clave(proc[p].dato) = c})

Conserva ==
  \A q \in Mineros, c \in Claves : Enviados(q, c) = Encolados(q, c) + Recibidos(q, c)

(* How a program may be left waiting for ever.                              *)

Vivos(S) == {x \in S : Lanzado(x) /\ ~Ido(x)}
Sem(p, s) == memoria[proc[p].mem].sem[s]

(* A post has come and has not woken it.                                    *)
Perdido(p) == p \in dormidos /\ Sem(p, proc[p].pc) > 0

(* The holder of the mutex was killed.                                      *)
SinMutex(p) == proc[p].pc = "mutex" /\ Sem(p, "mutex") = 0
               /\ \E x \in muertos \cap Monitores : x \in Dentro(proc[p].mem)

Usuarios(p) == {x \in Monitores \ {p} : proc[x].mem = proc[p].mem}
Parado(p) == p \notin Vivos(Monitores) \/ Perdido(p) \/ SinMutex(p)

(* A comprobador: its queue is empty, nobody writes to it any more, and each*)
(* finishing block sent to it went to another comprobador; or the ring is   *)
(* full, and no monitor of its memory goes on.                              *)
EsperaBloque(p) ==
  LET q == proc[p].queue IN
  /\ proc[p].pc = "mq_receive" /\ cola[q] = <<>>
  /\ \A n \in Vivos(Mineros) : min[n].queue # q
  /\ Cardinality({n \in Mineros : min[n].queue = q /\ min[n].pc = "exit"})
       <= Cardinality({x \in Lectores(q) \ {p} : proc[x].dato.fin})

EsperaRanura(p) ==
  /\ proc[p].pc = "empty" /\ Sem(p, "empty") = 0
  /\ \A x \in Usuarios(p) : Parado(x)

(* A monitor: the comprobador is gone without a finishing block, or waits   *)
(* itself, or another monitor took the finishing block, or took a block's   *)
(* turn and goes on no more.                                                *)
EsperaDatos(p) ==
  LET m == proc[p].mem IN
  /\ proc[p].pc = "fill" /\ Sem(p, "fill") = 0
  /\ \/ proc[m].pc = "fallo" \/ m \in muertos
     \/ m \in Vivos(Monitores) /\ (Parado(m) \/ EsperaBloque(m))
     \/ \E x \in Usuarios(p) \ {m} :
          \/ \E k \in 1 .. Len(turnos[m]) : turnos[m][k] = x /\ puestos[m][k].fin
          \/ Parado(x) /\ proc[x].pc \in {"mutex", "extraer", "front"}

(* A miner: its queue is full and no comprobador of it goes on.             *)
EsperaHueco(n) ==
  /\ min[n].pc \in {"enviar", "fin"} /\ Len(cola[min[n].queue]) = MAX_MSG
  /\ \A p \in Lectores(min[n].queue) : Parado(p) \/ EsperaRanura(p) \/ proc[p].pc = "exit"

(* Every program that is started ends, unless a wake-up was lost, a killed  *)
(* program has the mutex, or what it waits for can no longer come.          *)
Asentado ==
  /\ \A p \in Vivos(Monitores) :
       Perdido(p) \/ SinMutex(p) \/ EsperaBloque(p) \/ EsperaRanura(p) \/ EsperaDatos(p)
  /\ \A n \in Vivos(Mineros) : EsperaHueco(n)

Acaba == <>[]Asentado

-----------------------------------------------------------------------------
(* With two launches of the monitor program there is at most one comprobador*)
(* and one monitor on one memory, and they implement the same bounded FIFO  *)
(* channel as the program of the final project.                             *)

Con(rol) == {p \in Monitores : proc[p].rol = rol}
Alguno(rol) == CHOOSE p \in Con(rol) : TRUE

(* The queue the comprobador has opened, or would find.                     *)
Cual ==
  LET abiertas == {proc[p].queue : p \in Con("comprobador")} \ {Nadie}
  IN  IF abiertas = {} THEN MQ_NAME ELSE CHOOSE x \in abiertas : TRUE
Entrada == IF Cual = Nadie THEN <<>> ELSE cola[Cual]

ManoMonitor(p) == IF proc[p].pc = "exit" THEN <<>> ELSE EnMano(p)
Anillo(p) == [j \in 1 .. EnAnillo(p) |-> memoria[p].bloque[(memoria[p].front + j - 1) % BUFFER_SIZE]]
ManoComprobador(p) ==
  IF proc[p].pc \in {"empty", "mutex", "anadir", "rear"} THEN <<proc[p].dato>> ELSE <<>>

Interior ==
  (IF Con("monitor") = {} THEN <<>> ELSE ManoMonitor(Alguno("monitor")))
  \o (IF Con("comprobador") = {} THEN <<>>
      ELSE Anillo(Alguno("comprobador")) \o ManoComprobador(Alguno("comprobador")))
Impresos == IF Con("monitor") = {} THEN <<>> ELSE impresos[Alguno("monitor")]
Cerrado == \E p \in Con("monitor") : proc[p].pc = "exit"

Canal3 ==
  INSTANCE Canal WITH
    Capacidad <- BUFFER_SIZE + 2,
    entrada   <- Entrada,
    interior  <- Interior,
    impresos  <- Impresos,
    cerrado   <- Cerrado

(* No initialisation race, lost wake-up or second miner loses, reorders,    *)
(* duplicates or falsifies a block.                                         *)
ImplementaCanal == Canal3!Segura
=============================================================================
