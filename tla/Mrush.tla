-------------------------------- MODULE Mrush --------------------------------
(***************************************************************************)
(* mrush of p1/ej13: the main process forks a miner, and the miner a       *)
(* monitor.  In each cycle the miner's threads look for the value that     *)
(* hashes to the target, the miner sends it through a pipe, the monitor    *)
(* checks it and answers through another; a -1 says that it is over.       *)
(***************************************************************************)
EXTENDS Bloques, Sequences

CONSTANTS
  n_cycles, n_threads,
  Objetivos,    (* initial targets                                          *)
  HilosFallan,  (* TRUE iff pthread_create may fail                         *)
  ForkFalla,    (* TRUE iff fork may fail                                   *)
  Matables,     (* processes a signal may kill                              *)
  Basura        (* what the monitor's solution may hold before the first read*)

Procesos == {"main", "miner", "monitor"}

ASSUME MrushAssumption ==
  /\ n_cycles \in Nat \ {0} /\ n_threads \in Nat \ {0}
  /\ Objetivos \subseteq 0 .. POW_LIMIT - 1
  /\ {HilosFallan, ForkFalla} \subseteq BOOLEAN
  /\ Matables \subseteq Procesos
  /\ Basura \subseteq Int

VARIABLES
  (* Next call of each process, and what the miner returned.                *)
  pc, salida,
  (* The miner: cycles done, loop index, target, solution, last answer.     *)
  ciclo, k, target, solution, solution_check,
  (* Its threads: next step, value to try, solution field; the global flag; *)
  (* threads that go on after manage_threads has returned, with the cycle   *)
  (* that left them and what they still do.                                 *)
  pcT, pos, hallado, target_found, huerfanos,
  (* The monitor: target, last solution read, answer.                       *)
  targetMon, solMon, check,
  (* The pipes, miner_to_monitor and monitor_to_miner.                      *)
  ida, vuelta,
  (* History: solutions the monitor accepted; whether a create has failed.  *)
  aceptadas, fallido

minero   == <<salida, ciclo, k, target, solution, solution_check>>
hilos    == <<pcT, pos, hallado, target_found, huerfanos, fallido>>
monit    == <<targetMon, solMon, check, aceptadas>>
tuberias == <<ida, vuelta>>
vars == <<pc, minero, hilos, monit, tuberias>>

Hilos == 0 .. n_threads - 1

EXIT_FAILURE == 1

(* The range of a thread: an integer division.                              *)
Minimo(t) == (POW_LIMIT \div n_threads) * t
Maximo(t) == (POW_LIMIT \div n_threads) * (t + 1) - 1

Acabado(p) == pc[p] \in {"exit", "muerto"}

(* Who holds an end of a pipe open: main closes none, and the other two     *)
(* close what they do not use before anything else.                         *)
Abierto(P) == \E p \in P : pc[p] # "no" /\ ~Acabado(p)

Va(p, de, a) == pc[p] = de /\ pc' = [pc EXCEPT ![p] = a]

Init ==
  /\ pc = [p \in Procesos |-> IF p = "main" THEN "fork" ELSE "no"]
  /\ salida = "ninguna" /\ ciclo = 0 /\ k = 0 /\ solution = 0 /\ solution_check = 1
  /\ target \in Objetivos /\ targetMon = target
  /\ pcT = [t \in Hilos |-> "no"] /\ pos = [t \in Hilos |-> 0]
  /\ hallado = [t \in Hilos |-> -1] /\ target_found = FALSE /\ huerfanos = {}
  /\ solMon \in Basura /\ check = 1
  /\ ida = <<>> /\ vuelta = <<>> /\ aceptadas = <<>> /\ fallido = FALSE

-----------------------------------------------------------------------------
(* The main process.                                                        *)

MainFork ==
  /\ pc["main"] = "fork"
  /\ pc' = [pc EXCEPT !["main"] = "waitpid", !["miner"] = "fork"]
  /\ UNCHANGED <<minero, hilos, monit, tuberias>>

MainForkFalla ==
  /\ ForkFalla
  /\ Va("main", "fork", "exit")
  /\ UNCHANGED <<minero, hilos, monit, tuberias>>

MainWaitpid ==
  /\ Acabado("miner")
  /\ Va("main", "waitpid", "exit")
  /\ UNCHANGED <<minero, hilos, monit, tuberias>>

-----------------------------------------------------------------------------
(* The miner.                                                               *)

MinerFork ==
  /\ pc["miner"] = "fork"
  /\ pc' = [pc EXCEPT !["miner"] = "busca", !["monitor"] = "read"]
  /\ UNCHANGED <<minero, hilos, monit, tuberias>>

MinerForkFalla ==
  /\ ForkFalla
  /\ Va("miner", "fork", "exit")
  /\ UNCHANGED <<minero, hilos, monit, tuberias>>

(* manage_threads begins; threads of an earlier search keep running.        *)
Busca ==
  /\ Va("miner", "busca", "create")
  /\ target_found' = FALSE
  /\ k' = 0
  /\ UNCHANGED <<salida, ciclo, target, solution, solution_check, pcT, pos, hallado, huerfanos, fallido, monit, tuberias>>

Create ==
  /\ Va("miner", "create", IF k + 1 < n_threads THEN "create" ELSE "join")
  /\ pcT' = [pcT EXCEPT ![k] = "mira"]
  /\ pos' = [pos EXCEPT ![k] = Minimo(k)]
  /\ hallado' = [hallado EXCEPT ![k] = -1]
  /\ k' = (k + 1) % n_threads
  /\ solution' = -1
  /\ UNCHANGED <<salida, ciclo, target, solution_check, target_found, huerfanos, fallido, monit, tuberias>>

(* The threads running, each about to write down a solution or searching.   *)
Abandonados ==
  {<<ciclo, t, IF pcT[t] = "apunta" THEN "apunta" ELSE "busca">> :
     t \in {u \in Hilos : pcT[u] \notin {"no", "fin"}}}

(* EXIT_FAILURE comes back as if it were a solution, and the threads already*)
(* created are left running.                                                *)
CreateFalla ==
  /\ HilosFallan
  /\ Va("miner", "create", "write")
  /\ solution' = EXIT_FAILURE /\ fallido' = TRUE
  /\ huerfanos' = huerfanos \cup Abandonados
  /\ pcT' = [t \in Hilos |-> "no"]
  /\ UNCHANGED <<salida, ciclo, k, target, solution_check, pos, hallado, target_found, monit, tuberias>>

(* Mutant: the solution of the last thread is taken, found or not.          *)
Elige_Ultima(t) == hallado[t]

Elige(t) == IF hallado[t] # -1 THEN hallado[t] ELSE solution

(* The miner joins its threads in order; with no solution it goes to wait   *)
(* for the monitor without telling it.                                      *)
Join ==
  /\ pcT[k] = "fin"
  /\ solution' = Elige(k)
  /\ pcT' = [pcT EXCEPT ![k] = "no"]
  /\ k' = (k + 1) % n_threads
  /\ \/ k + 1 < n_threads /\ Va("miner", "join", "join") /\ UNCHANGED salida
     \/ k + 1 = n_threads /\ solution' # -1 /\ Va("miner", "join", "write") /\ UNCHANGED salida
     \/ /\ k + 1 = n_threads /\ solution' = -1
        /\ Va("miner", "join", "waitpid")
        /\ salida' = "sin_aviso"
  /\ UNCHANGED <<ciclo, target, solution_check, pos, hallado, target_found, huerfanos, fallido, monit, tuberias>>

Write ==
  /\ Abierto({"main", "monitor"})
  /\ Va("miner", "write", "read")
  /\ ida' = Append(ida, solution)
  /\ UNCHANGED <<minero, hilos, monit, vuelta>>

MinerSigpipe ==
  /\ ~Abierto({"main", "monitor"})
  /\ Va("miner", "write", "muerto") \/ Va("miner", "adios", "muerto")
  /\ UNCHANGED <<minero, hilos, monit, tuberias>>

(* Mutant: one cycle too many.                                              *)
Quedan_UnoMas(c) == c <= n_cycles

Quedan(c) == c < n_cycles

(* Mutant: the miner leaves without telling the monitor.                    *)
Acaba_SinAviso(como) == Va("miner", "read", "waitpid") /\ salida' = como

Acaba(como) == Va("miner", "read", "adios") /\ salida' = como

(* The monitor's answer; at the end of file the last one is taken again.    *)
Respuesta ==
  \/ vuelta # <<>> /\ solution_check' = Head(vuelta) /\ vuelta' = Tail(vuelta)
  \/ vuelta = <<>> /\ ~Abierto({"main", "monitor"}) /\ UNCHANGED <<solution_check, vuelta>>

(* Mutant: the answer is not looked at.                                     *)
ReadValida_Siempre ==
  /\ Respuesta
  /\ target' = solution /\ ciclo' = ciclo + 1
  /\ IF Quedan(ciclo + 1) THEN Va("miner", "read", "busca") /\ UNCHANGED salida
                          ELSE Acaba("EXIT_SUCCESS")
  /\ UNCHANGED <<k, solution, hilos, monit, ida>>

ReadValida ==
  /\ Respuesta /\ solution_check' # 1
  /\ target' = solution /\ ciclo' = ciclo + 1
  /\ IF Quedan(ciclo + 1) THEN Va("miner", "read", "busca") /\ UNCHANGED salida
                          ELSE Acaba("EXIT_SUCCESS")
  /\ UNCHANGED <<k, solution, hilos, monit, ida>>

ReadInvalida ==
  /\ Respuesta /\ solution_check' = 1
  /\ Acaba("EXIT_FAILURE")
  /\ UNCHANGED <<ciclo, k, target, solution, hilos, monit, ida>>

(* -1 tells the monitor that it is over, whether or not it went well.       *)
Adios ==
  /\ Abierto({"main", "monitor"})
  /\ Va("miner", "adios", "waitpid")
  /\ ida' = Append(ida, -1)
  /\ solution' = -1
  /\ UNCHANGED <<salida, ciclo, k, target, solution_check, hilos, monit, vuelta>>

MinerWaitpid ==
  /\ Acabado("monitor")
  /\ Va("miner", "waitpid", "exit")
  /\ UNCHANGED <<minero, hilos, monit, tuberias>>

miner ==
  \/ MinerFork \/ MinerForkFalla \/ Busca \/ Create \/ CreateFalla \/ Join \/ Write
  \/ MinerSigpipe \/ ReadValida \/ ReadInvalida \/ Adios \/ MinerWaitpid

-----------------------------------------------------------------------------
(* target_search.                                                           *)

EnHilo(t, de, a) ==
  /\ ~Acabado("miner")
  /\ pcT[t] = de /\ pcT' = [pcT EXCEPT ![t] = a]
  /\ UNCHANGED <<pc, minero, huerfanos, fallido, monit, tuberias>>

Mira(t) ==
  /\ EnHilo(t, "mira", IF pos[t] > Maximo(t) \/ target_found THEN "fin" ELSE "prueba")
  /\ UNCHANGED <<pos, hallado, target_found>>

Prueba(t) ==
  /\ IF pow_hash(pos[t]) = target
       THEN EnHilo(t, "prueba", "apunta") /\ target_found' = TRUE /\ UNCHANGED pos
       ELSE EnHilo(t, "prueba", "mira") /\ pos' = [pos EXCEPT ![t] = @ + 1] /\ UNCHANGED target_found
  /\ UNCHANGED hallado

(* The flag is up before the solution is written down.                      *)
Apunta(t) ==
  /\ EnHilo(t, "apunta", "fin")
  /\ hallado' = [hallado EXCEPT ![t] = pos[t]]
  /\ UNCHANGED <<pos, target_found>>

(* A thread left over works on a dead stack frame.  It may take any value to*)
(* be the solution, and raise the flag of a later search.                   *)
HuerfanoAvisa(c, t) ==
  /\ <<c, t, "busca">> \in huerfanos /\ ~Acabado("miner")
  /\ huerfanos' = (huerfanos \ {<<c, t, "busca">>}) \cup {<<c, t, "apunta">>}
  /\ target_found' = TRUE
  /\ UNCHANGED <<pc, minero, pcT, pos, hallado, fallido, monit, tuberias>>

(* It writes the value down, perhaps as that of a search later still.       *)
HuerfanoApunta(c, t) ==
  /\ <<c, t, "apunta">> \in huerfanos /\ ~Acabado("miner")
  /\ huerfanos' = huerfanos \ {<<c, t, "apunta">>}
  /\ \E x \in {hallado[t]} \cup (Minimo(t) .. Maximo(t)) : hallado' = [hallado EXCEPT ![t] = x]
  /\ UNCHANGED <<pc, minero, pcT, pos, target_found, fallido, monit, tuberias>>

(* It has tried all its values, or found the flag up.                       *)
HuerfanoAcaba(c, t) ==
  /\ <<c, t, "busca">> \in huerfanos /\ ~Acabado("miner")
  /\ huerfanos' = huerfanos \ {<<c, t, "busca">>}
  /\ UNCHANGED <<pc, minero, pcT, pos, hallado, target_found, fallido, monit, tuberias>>

Huerfano(t) ==
  \E c \in 0 .. n_cycles : HuerfanoAvisa(c, t) \/ HuerfanoApunta(c, t) \/ HuerfanoAcaba(c, t)

Hilo(t) == Mira(t) \/ Prueba(t) \/ Apunta(t) \/ Huerfano(t)

-----------------------------------------------------------------------------
(* The monitor.                                                             *)

(* Mutant: the monitor keeps its first target.                              *)
NuevoTarget_Mismo(s) == targetMon

NuevoTarget(s) == IF pow_hash(s) = targetMon THEN s ELSE targetMon

(* What it does with the solution it has, read now or left from before.     *)
Comprueba(s) ==
  /\ check' = IF s # -1 /\ pow_hash(s) = targetMon THEN 0 ELSE 1
  /\ targetMon' = IF s # -1 THEN NuevoTarget(s) ELSE targetMon
  /\ aceptadas' = IF s # -1 /\ pow_hash(s) = targetMon THEN Append(aceptadas, s) ELSE aceptadas
  /\ Va("monitor", "read", IF s = -1 THEN "exit" ELSE "write")

MonitorRead ==
  /\ ida # <<>>
  /\ solMon' = Head(ida)
  /\ ida' = Tail(ida)
  /\ Comprueba(Head(ida))
  /\ UNCHANGED <<minero, hilos, vuelta>>

(* End of file is not told from a solution: it checks the last one again.   *)
MonitorEof ==
  /\ ida = <<>> /\ ~Abierto({"main", "miner"})
  /\ Comprueba(solMon)
  /\ UNCHANGED <<minero, hilos, solMon, tuberias>>

MonitorWrite ==
  /\ Abierto({"main", "miner"})
  /\ Va("monitor", "write", "read")
  /\ vuelta' = Append(vuelta, check)
  /\ UNCHANGED <<minero, hilos, monit, ida>>

(* Nobody could read it: SIGPIPE.                                           *)
MonitorSigpipe ==
  /\ ~Abierto({"main", "miner"})
  /\ Va("monitor", "write", "muerto")
  /\ UNCHANGED <<minero, hilos, monit, tuberias>>

monitor == MonitorRead \/ MonitorEof \/ MonitorWrite \/ MonitorSigpipe

-----------------------------------------------------------------------------
(* No process handles any signal.                                           *)
Mata(p) ==
  /\ p \in Matables /\ pc[p] # "no" /\ ~Acabado(p)
  /\ pc' = [pc EXCEPT ![p] = "muerto"]
  /\ UNCHANGED <<minero, hilos, monit, tuberias>>

main == MainFork \/ MainForkFalla \/ MainWaitpid

Parado == (\A p \in Procesos : pc[p] = "no" \/ Acabado(p)) /\ UNCHANGED vars

Next ==
  \/ main \/ miner \/ monitor \/ Parado
  \/ \E t \in Hilos : Hilo(t)
  \/ \E p \in Procesos : Mata(p)

(* Processes and threads are scheduled.                                     *)
Justicia ==
  /\ WF_vars(main) /\ WF_vars(miner) /\ WF_vars(monitor)
  /\ \A t \in Hilos : WF_vars(Hilo(t))

Spec == Init /\ [][Next]_vars /\ Justicia

-----------------------------------------------------------------------------
(* Properties.                                                              *)

Estados == {"no", "fork", "busca", "create", "join", "write", "read", "adios", "waitpid",
            "exit", "muerto"}

Restantes == (0 .. n_cycles) \X Hilos \X {"busca", "apunta"}

TypeOK ==
  /\ pc \in [Procesos -> Estados]
  /\ salida \in {"ninguna", "sin_aviso", "EXIT_SUCCESS", "EXIT_FAILURE"}
  /\ ciclo \in 0 .. n_cycles /\ k \in Hilos /\ target \in Int /\ solution \in Int
  /\ solution_check \in {0, 1} /\ check \in {0, 1}
  /\ pcT \in [Hilos -> {"no", "mira", "prueba", "apunta", "fin"}]
  /\ pos \in [Hilos -> Nat] /\ hallado \in [Hilos -> Int]
  /\ target_found \in BOOLEAN /\ fallido \in BOOLEAN
  /\ huerfanos \subseteq Restantes
  /\ targetMon \in Int /\ solMon \in Int /\ aceptadas \in Seq(Int)
  /\ ida \in Seq(Int) /\ vuelta \in Seq({0, 1})

(* As long as nobody kills the monitor, miner and monitor have the same     *)
(* target, and nothing is in the pipes, whenever the miner is searching:    *)
(* though the target is sent by neither to the other.                       *)
Acuerdo ==
  pc["monitor"] # "muerto" /\ pc["miner"] \in {"busca", "create", "join", "write"} =>
    targetMon = target /\ ida = <<>> /\ vuelta = <<>>

(* Threads that stop when another has raised the flag, before it has written*)
(* down its solution, lose nothing while no creation has failed: what is    *)
(* sent is a solution, and a search comes to nothing only if no value of    *)
(* the ranges is one.                                                       *)
BusquedaFiel ==
  ~fallido =>
    /\ pc["miner"] = "write" => pow_hash(solution) = target
    /\ salida = "sin_aviso" =>
         \A t \in Hilos : \A x \in Minimo(t) .. Maximo(t) : pow_hash(x) # target

(* The miner ends well only if the monitor has accepted a solution in every *)
(* cycle, each for the one before, unless the monitor was killed.  If the   *)
(* miner is killed before it says goodbye, the monitor checks the last one  *)
(* again at the end of file, and accepts it again if it is its own hash.    *)
ExitoFiel ==
  salida = "EXIT_SUCCESS" /\ pc["monitor"] # "muerto" =>
    /\ \/ Len(aceptadas) = n_cycles
       \/ Len(aceptadas) = n_cycles + 1 /\ pc["miner"] = "muerto" /\ pc["monitor"] = "write"
    /\ aceptadas[n_cycles] = target
    /\ \A j \in 2 .. Len(aceptadas) : pow_hash(aceptadas[j]) = aceptadas[j - 1]

Terminado == \A p \in Procesos : pc[p] = "no" \/ Acabado(p)

(* All three end, whatever thread, fork or process fails, but for two cases:*)
(* a miner that found nothing waits for a monitor it has not told, and a    *)
(* miner whose monitor was killed waits for an answer on a pipe that the    *)
(* main process keeps open.                                                 *)
Termina ==
  <>[](Terminado \/ salida = "sin_aviso"
         \/ (pc["monitor"] = "muerto" /\ pc["miner"] = "read" /\ ~Acabado("main")))
=============================================================================
