----------------------------- MODULE MrushProofs -----------------------------
(***************************************************************************)
(* Proofs about module Mrush, for any hash, number of cycles and threads,  *)
(* initial target and failures, and whoever is killed.                     *)
(***************************************************************************)
EXTENDS Mrush, SequenceTheorems, TLAPS

Activo   == pc["miner"] \in {"busca", "create", "join", "write"}
SinHilos == pc["miner"] \in {"no", "fork", "busca", "write", "read", "adios", "waitpid"}

(* A cycle is left to do until the monitor's last answer is read.           *)
Tipo ==
  /\ TypeOK
  /\ Activo \/ pc["miner"] \in {"no", "fork", "read"} => ciclo < n_cycles
  /\ pc["main"] = "fork" => pc["miner"] = "no"

-----------------------------------------------------------------------------
(* The threads, as long as no creation has failed.                          *)

SinSolucion(a, b) == \A x \in a .. b : pow_hash(x) # target

(* Thread t has not been created yet, is running or finished, or is joined. *)
Creado(t) == IF pc["miner"] = "create" THEN t < k ELSE TRUE
Unido(t)  == pc["miner"] = "join" /\ t < k

Hallo(t)  == pcT[t] = "apunta" \/ ((pcT[t] = "fin" \/ Unido(t)) /\ hallado[t] # -1)

HiloBien(t) ==
  /\ pcT[t] = "no" <=> ~Creado(t) \/ Unido(t)
  /\ pcT[t] \in {"mira", "prueba"} => hallado[t] = -1 /\ SinSolucion(Minimo(t), pos[t] - 1)
  /\ pcT[t] = "apunta" => pow_hash(pos[t]) = target
  /\ pcT[t] = "fin" \/ Unido(t) =>
       /\ hallado[t] # -1 => pow_hash(hallado[t]) = target
       /\ hallado[t] = -1 => target_found \/ SinSolucion(Minimo(t), Maximo(t))

Busqueda ==
  ~fallido =>
    /\ huerfanos = {}
    /\ SinHilos => \A t \in Hilos : pcT[t] = "no"
    /\ pc["miner"] \in {"create", "join"} =>
         /\ \A t \in Hilos : HiloBien(t)
         /\ target_found => \E t \in Hilos : Creado(t) /\ Hallo(t)
    /\ pc["miner"] = "join" =>
         /\ solution # -1 => pow_hash(solution) = target
         /\ solution = -1 => \A t \in Hilos : t < k => hallado[t] = -1
    /\ salida = "sin_aviso" => pc["miner"] \in {"waitpid", "exit", "muerto"}
    /\ BusquedaFiel

-----------------------------------------------------------------------------
(* The conversation.                                                        *)

Encadenadas ==
  /\ \A j \in 2 .. Len(aceptadas) : pow_hash(aceptadas[j]) = aceptadas[j - 1]
  /\ Len(aceptadas) > 0 => aceptadas[Len(aceptadas)] = targetMon

Vacias == ida = <<>> /\ vuelta = <<>>

(* What the monitor has answered, or is about to, to the solution sent.     *)
Contestado ==
  \/ check = 0 /\ targetMon = solution /\ Len(aceptadas) = ciclo + 1
  \/ check = 1 /\ Len(aceptadas) = ciclo

Vivo == pc["monitor"] \in {"read", "write", "exit"}

(* While both talk, and the monitor has not been killed.                    *)
Dialogo ==
  /\ Activo => /\ pc["monitor"] = "read" /\ Vacias
               /\ targetMon = target /\ Len(aceptadas) = ciclo
  /\ pc["miner"] = "write" => solution # -1
  /\ pc["miner"] = "read" =>
       \/ /\ pc["monitor"] = "read" /\ ida = <<solution>> /\ vuelta = <<>> /\ solution # -1
          /\ targetMon = target /\ Len(aceptadas) = ciclo
       \/ pc["monitor"] = "write" /\ Vacias /\ Contestado
       \/ pc["monitor"] = "read" /\ ida = <<>> /\ vuelta = <<check>> /\ Contestado
  /\ pc["miner"] = "adios" => pc["monitor"] = "read" /\ Vacias

(* After the last answer; the miner may be killed before it says goodbye.   *)
Exito ==
  salida = "EXIT_SUCCESS" =>
    /\ pc["miner"] \in {"adios", "waitpid", "exit", "muerto"}
    /\ Len(aceptadas) >= n_cycles /\ aceptadas[n_cycles] = target
    /\ pc["miner"] = "exit" => pc["monitor"] = "exit"
    /\ pc["monitor"] = "read" => ida \in {<<>>, <<-1>>}
    /\ pc["monitor"] \in {"read", "exit"} => Len(aceptadas) = n_cycles
    /\ pc["monitor"] = "write" => /\ pc["miner"] = "muerto" /\ Acabado("main")
                                  /\ Len(aceptadas) \in {n_cycles, n_cycles + 1}

Conversacion ==
  /\ pc["main"] # "no" /\ (Vivo \/ pc["monitor"] \in {"no", "muerto"})
  /\ pc["monitor"] = "no" => pc["miner"] \in {"no", "fork", "exit", "muerto"} /\ salida = "ninguna"
  /\ pc["miner"] \in {"no", "fork"} =>
       /\ pc["monitor"] = "no" /\ Vacias /\ targetMon = target /\ aceptadas = <<>> /\ ciclo = 0
       /\ salida = "ninguna"
  /\ Vivo => Dialogo /\ Exito

Charla == Tipo /\ Encadenadas /\ Conversacion

-----------------------------------------------------------------------------
(* Types.                                                                   *)

LEMMA Rangos == /\ 0 \in Hilos
                /\ \A t \in Hilos : (t + 1) % n_threads = IF t + 1 < n_threads THEN t + 1 ELSE 0
                /\ \A t \in Hilos : (t + 1) % n_threads \in Hilos
                /\ \A t \in Hilos : Minimo(t) \in Nat /\ Maximo(t) \in Int
<1>1. POW_LIMIT \div n_threads \in Nat
  BY MrushAssumption, PowAssumption
<1>2. \A t \in Hilos : Minimo(t) \in Nat /\ Maximo(t) \in Int
  BY <1>1 DEF Minimo, Maximo, Hilos
<1>3. \A t \in Hilos : (t + 1) % n_threads = IF t + 1 < n_threads THEN t + 1 ELSE 0
  BY MrushAssumption DEF Hilos
<1>. QED
  BY <1>2, <1>3, MrushAssumption DEF Hilos

LEMMA TipoInicial == Init => Tipo
<1>. SUFFICES ASSUME Init PROVE Tipo
  OBVIOUS
<1>1. ciclo \in 0 .. n_cycles /\ ciclo < n_cycles /\ k \in Hilos
  BY MrushAssumption, Rangos DEF Init
<1>2. target \in Int /\ targetMon \in Int /\ solMon \in Int
  BY MrushAssumption, PowAssumption DEF Init
<1>3. /\ pcT \in [Hilos -> {"no", "mira", "prueba", "apunta", "fin"}]
      /\ pos \in [Hilos -> Nat] /\ hallado \in [Hilos -> Int]
      /\ aceptadas \in Seq(Int) /\ ida \in Seq(Int) /\ vuelta \in Seq({0, 1})
  BY DEF Init
<1>4. pc \in [Procesos -> Estados] /\ pc["main"] = "fork" /\ pc["miner"] = "no"
  BY DEF Init, Procesos, Estados
<1>. QED
  BY <1>1, <1>2, <1>3, <1>4 DEF Init, Tipo, TypeOK

(* One process goes from one pc to another.                                 *)
LEMMA Pone ==
  ASSUME Tipo, NEW p \in Procesos, NEW a \in Estados, pc' = [pc EXCEPT ![p] = a]
  PROVE  pc' \in [Procesos -> Estados] /\ pc'[p] = a /\ \A q \in Procesos \ {p} : pc'[q] = pc[q]
  BY DEF Tipo, TypeOK

LEMMA Nombres ==
  /\ "main" \in Procesos /\ "miner" \in Procesos /\ "monitor" \in Procesos
  /\ {"no", "fork", "busca", "create", "join", "write", "read", "adios", "waitpid", "exit", "muerto"}
     \subseteq Estados
  BY DEF Procesos, Estados

(* What is left to show once pc is known to be a pc.                        *)
LEMMA VaMiner ==
  ASSUME Tipo, NEW de, NEW a \in Estados, Va("miner", de, a)
  PROVE  /\ pc' \in [Procesos -> Estados] /\ pc["miner"] = de /\ pc'["miner"] = a
         /\ pc'["main"] = pc["main"] /\ pc'["monitor"] = pc["monitor"]
         /\ de # "no" => pc["main"] # "fork"
<1>1. pc["miner"] = de /\ pc' = [pc EXCEPT !["miner"] = a]
  BY DEF Va
<1>2. "miner" \in Procesos /\ "main" \in Procesos \ {"miner"} /\ "monitor" \in Procesos \ {"miner"}
  BY DEF Procesos
<1>. QED
  BY <1>1, <1>2, Pone DEF Tipo

LEMMA VaMonitor ==
  ASSUME Tipo, NEW de, NEW a \in Estados, Va("monitor", de, a)
  PROVE  /\ pc' \in [Procesos -> Estados] /\ pc["monitor"] = de /\ pc'["monitor"] = a
         /\ pc'["main"] = pc["main"] /\ pc'["miner"] = pc["miner"]
<1>1. pc["monitor"] = de /\ pc' = [pc EXCEPT !["monitor"] = a]
  BY DEF Va
<1>2. "monitor" \in Procesos /\ "main" \in Procesos \ {"monitor"} /\ "miner" \in Procesos \ {"monitor"}
  BY DEF Procesos
<1>. QED
  BY <1>1, <1>2, Pone

LEMMA VaMain ==
  ASSUME Tipo, NEW de, NEW a \in Estados, Va("main", de, a)
  PROVE  /\ pc' \in [Procesos -> Estados] /\ pc["main"] = de /\ pc'["main"] = a
         /\ pc'["miner"] = pc["miner"] /\ pc'["monitor"] = pc["monitor"]
<1>1. pc["main"] = de /\ pc' = [pc EXCEPT !["main"] = a]
  BY DEF Va
<1>2. "main" \in Procesos /\ "miner" \in Procesos \ {"main"} /\ "monitor" \in Procesos \ {"main"}
  BY DEF Procesos
<1>. QED
  BY <1>1, <1>2, Pone

LEMMA DosForks ==
  ASSUME Tipo, MainFork \/ MinerFork
  PROVE  /\ pc' \in [Procesos -> Estados]
         /\ MainFork => /\ pc["main"] = "fork" /\ pc["miner"] = "no" /\ pc'["main"] = "waitpid"
                        /\ pc'["miner"] = "fork" /\ pc'["monitor"] = pc["monitor"]
         /\ MinerFork => /\ pc["miner"] = "fork" /\ pc'["miner"] = "busca"
                         /\ pc'["monitor"] = "read" /\ pc'["main"] = pc["main"]
<1>1. pc \in [{"main", "miner", "monitor"} -> Estados] /\ (pc["main"] = "fork" => pc["miner"] = "no")
  BY DEF Tipo, TypeOK, Procesos
<1>2. \/ pc' = [pc EXCEPT !["main"] = "waitpid", !["miner"] = "fork"]
      \/ pc' = [pc EXCEPT !["miner"] = "busca", !["monitor"] = "read"]
  BY DEF MainFork, MinerFork
<1>3. pc' \in [{"main", "miner", "monitor"} -> Estados]
  BY <1>1, <1>2, Nombres
<1>. QED
  BY <1>1, <1>3 DEF MainFork, MinerFork, Procesos

LEMMA RespuestaTipo ==
  ASSUME Tipo, Respuesta PROVE solution_check' \in {0, 1} /\ vuelta' \in Seq({0, 1})
<1>1. vuelta \in Seq({0, 1}) /\ solution_check \in {0, 1}
  BY DEF Tipo, TypeOK
<1>2. vuelta # <<>> => Head(vuelta) \in {0, 1} /\ Tail(vuelta) \in Seq({0, 1})
  BY <1>1, HeadTailProperties
<1>. QED
  BY <1>1, <1>2 DEF Respuesta

LEMMA TipoMiner == ASSUME Tipo, miner PROVE Tipo'
<1> USE MrushAssumption, Nombres DEF Tipo, TypeOK, Activo, minero, hilos, monit, tuberias
<1>1. CASE MinerFork
  BY <1>1, DosForks DEF MinerFork
<1>2. CASE MinerForkFalla
  BY <1>2, VaMiner DEF MinerForkFalla
<1>3. CASE Busca
  <2>1. k' \in Hilos
    BY <1>3, Rangos DEF Busca
  <2>2. /\ pc' \in [Procesos -> Estados] /\ pc["miner"] = "busca"
        /\ pc["main"] # "fork" /\ pc'["main"] = pc["main"]
    BY <1>3, VaMiner DEF Busca
  <2>. QED
    BY <1>3, <2>1, <2>2 DEF Busca
<1>4. CASE Create
  <2>1. k' \in Hilos /\ Minimo(k) \in Nat
    <3>1. k \in Hilos /\ k' = (k + 1) % n_threads
      BY <1>4 DEF Create
    <3>. QED
      BY <3>1, Rangos
  <2>2. pos' \in [Hilos -> Nat] /\ hallado' \in [Hilos -> Int]
    BY <1>4, <2>1 DEF Create
  <2>3. pcT' \in [Hilos -> {"no", "mira", "prueba", "apunta", "fin"}]
    BY <1>4 DEF Create
  <2>4. /\ pc' \in [Procesos -> Estados] /\ pc["miner"] = "create"
        /\ pc["main"] # "fork" /\ pc'["main"] = pc["main"]
    BY <1>4, VaMiner DEF Create
  <2>5. /\ solution' = -1
        /\ UNCHANGED <<salida, ciclo, target, solution_check, target_found, huerfanos, fallido, monit, tuberias>>
    BY <1>4 DEF Create
  <2>. QED
    BY <2>1, <2>2, <2>3, <2>4, <2>5
<1>5. CASE CreateFalla
  <2>1. /\ pcT' \in [Hilos -> {"no", "mira", "prueba", "apunta", "fin"}]
        /\ huerfanos' \subseteq Restantes
    BY <1>5 DEF CreateFalla, Abandonados, Restantes
  <2>2. Va("miner", "create", "write")
    BY <1>5 DEF CreateFalla
  <2>3. /\ pc' \in [Procesos -> Estados] /\ pc["miner"] = "create"
        /\ pc["main"] # "fork" /\ pc'["main"] = pc["main"]
    BY <2>2, VaMiner
  <2>. QED
    BY <1>5, <2>1, <2>3 DEF CreateFalla, EXIT_FAILURE
<1>6. CASE Join
  <2>1. k' \in Hilos
    <3>1. k \in Hilos /\ k' = (k + 1) % n_threads
      BY <1>6 DEF Join
    <3>. QED
      BY <3>1, Rangos
  <2>2. \E a \in Estados : Va("miner", "join", a)
    BY <1>6 DEF Join
  <2>3. /\ pc' \in [Procesos -> Estados] /\ pc["miner"] = "join"
        /\ pc["main"] # "fork" /\ pc'["main"] = pc["main"]
    BY <2>2, VaMiner
  <2>4. solution' \in Int /\ pcT' \in [Hilos -> {"no", "mira", "prueba", "apunta", "fin"}]
    BY <1>6 DEF Join, Elige
  <2>5. salida' \in {salida, "sin_aviso"}
    BY <1>6 DEF Join
  <2>. QED
    BY <1>6, <2>1, <2>3, <2>4, <2>5 DEF Join
<1>7. CASE Write
  BY <1>7, VaMiner DEF Write
<1>8. CASE MinerSigpipe
  BY <1>8, VaMiner DEF MinerSigpipe
<1>9. CASE ReadValida
  <2>1. pc["miner"] = "read" /\ pc["main"] # "fork" /\ ciclo < n_cycles
    BY <1>9, VaMiner DEF ReadValida, Acaba
  <2>2. CASE Quedan(ciclo + 1)
    BY <1>9, <2>1, <2>2, VaMiner, RespuestaTipo DEF ReadValida, Quedan
  <2>3. CASE ~Quedan(ciclo + 1)
    BY <1>9, <2>1, <2>3, VaMiner, RespuestaTipo DEF ReadValida, Quedan, Acaba
  <2>. QED
    BY <2>2, <2>3
<1>10. CASE ReadInvalida
  BY <1>10, VaMiner, RespuestaTipo DEF ReadInvalida, Acaba
<1>11. CASE Adios
  BY <1>11, VaMiner DEF Adios
<1>12. CASE MinerWaitpid
  BY <1>12, VaMiner DEF MinerWaitpid
<1>. QED
  BY <1>1, <1>2, <1>3, <1>4, <1>5, <1>6, <1>7, <1>8, <1>9, <1>10, <1>11, <1>12 DEF miner

LEMMA CompruebaTipo ==
  ASSUME Tipo, NEW s \in Int, Comprueba(s)
  PROVE  /\ check' \in {0, 1} /\ targetMon' \in Int /\ aceptadas' \in Seq(Int)
         /\ pc' \in [Procesos -> Estados] /\ pc["monitor"] = "read"
         /\ pc'["monitor"] = IF s = -1 THEN "exit" ELSE "write"
         /\ pc'["main"] = pc["main"] /\ pc'["miner"] = pc["miner"]
<1>1. check' \in {0, 1} /\ targetMon' \in Int /\ aceptadas' \in Seq(Int)
  BY DEF Tipo, TypeOK, Comprueba, NuevoTarget
<1>. QED
  BY <1>1, VaMonitor, Nombres DEF Comprueba

LEMMA TipoMonitor == ASSUME Tipo, monitor PROVE Tipo'
<1> USE Nombres DEF Tipo, TypeOK, Activo, minero, hilos, monit, tuberias
<1>1. CASE MonitorRead
  <2>1. Head(ida) \in Int /\ Tail(ida) \in Seq(Int)
    BY <1>1, HeadTailProperties DEF MonitorRead
  <2>. QED
    BY <1>1, <2>1, CompruebaTipo DEF MonitorRead
<1>2. CASE MonitorEof
  BY <1>2, CompruebaTipo DEF MonitorEof
<1>3. CASE MonitorWrite
  BY <1>3, VaMonitor DEF MonitorWrite
<1>4. CASE MonitorSigpipe
  BY <1>4, VaMonitor DEF MonitorSigpipe
<1>. QED
  BY <1>1, <1>2, <1>3, <1>4 DEF monitor

LEMMA TipoHilo == ASSUME Tipo, NEW t \in Hilos, Hilo(t) PROVE Tipo'
<1> USE DEF Tipo, TypeOK, Activo, minero, monit, tuberias
<1>1. CASE Mira(t)
  BY <1>1 DEF Mira, EnHilo
<1>2. CASE Prueba(t)
  <2>1. CASE pow_hash(pos[t]) = target
    <3>1. EnHilo(t, "prueba", "apunta") /\ target_found' = TRUE /\ UNCHANGED <<pos, hallado>>
      BY <1>2, <2>1 DEF Prueba
    <3>. QED
      BY <3>1 DEF EnHilo
  <2>2. CASE pow_hash(pos[t]) # target
    <3>1. EnHilo(t, "prueba", "mira") /\ pos' = [pos EXCEPT ![t] = @ + 1] /\ UNCHANGED <<target_found, hallado>>
      BY <1>2, <2>2 DEF Prueba
    <3>2. pos' \in [Hilos -> Nat]
      BY <3>1
    <3>. QED
      BY <3>1, <3>2 DEF EnHilo
  <2>. QED
    BY <2>1, <2>2
<1>3. CASE Apunta(t)
  BY <1>3 DEF Apunta, EnHilo
<1>4. CASE Huerfano(t)
  <2>. PICK c \in 0 .. n_cycles : HuerfanoAvisa(c, t) \/ HuerfanoApunta(c, t) \/ HuerfanoAcaba(c, t)
    BY <1>4 DEF Huerfano
  <2>1. CASE HuerfanoAvisa(c, t)
    BY <2>1 DEF HuerfanoAvisa, Restantes
  <2>2. CASE HuerfanoApunta(c, t)
    <3>1. PICK x \in {hallado[t]} \cup (Minimo(t) .. Maximo(t)) : hallado' = [hallado EXCEPT ![t] = x]
      BY <2>2 DEF HuerfanoApunta
    <3>2. x \in Int
      BY Rangos
    <3>3. hallado' \in [Hilos -> Int]
      BY <3>1, <3>2
    <3>. QED
      BY <2>2, <3>3 DEF HuerfanoApunta
  <2>3. CASE HuerfanoAcaba(c, t)
    BY <2>3 DEF HuerfanoAcaba
  <2>. QED
    BY <2>1, <2>2, <2>3
<1>. QED
  BY <1>1, <1>2, <1>3, <1>4 DEF Hilo

LEMMA TipoPaso == Tipo /\ [Next]_vars => Tipo'
<1>. SUFFICES ASSUME Tipo, [Next]_vars PROVE Tipo'
  OBVIOUS
<1> USE Nombres DEF Tipo, TypeOK, Activo, minero, hilos, monit, tuberias
<1>1. CASE main
  <2>1. CASE MainFork
    <3>1. pc["miner"] = "no"
      BY <2>1, DosForks
    <3>. QED
      BY <2>1, <3>1, DosForks DEF MainFork
  <2>2. CASE MainForkFalla
    BY <2>2, VaMain DEF MainForkFalla
  <2>3. CASE MainWaitpid
    BY <2>3, VaMain DEF MainWaitpid
  <2>. QED
    BY <1>1, <2>1, <2>2, <2>3 DEF main
<1>2. ASSUME NEW p \in Procesos, Mata(p) PROVE Tipo'
  BY <1>2, Pone DEF Mata
<1>3. CASE UNCHANGED vars
  BY <1>3 DEF vars
<1>. QED
  BY <1>1, <1>2, <1>3, TipoMiner, TipoMonitor, TipoHilo DEF Next, Parado

(* Where each process may be: main only forks and waits, only the miner     *)
(* searches, and only it and the monitor use the pipes.                     *)
Lugares ==
  /\ pc["main"] \in {"fork", "waitpid", "exit", "muerto"}
  /\ pc["miner"] \in {"no", "fork", "busca", "create", "join", "write", "read", "adios",
                      "waitpid", "exit", "muerto"}
  /\ pc["monitor"] \in {"no", "read", "write", "exit", "muerto"}

LEMMA LugaresMiner == Tipo /\ Lugares /\ miner => Lugares'
<1>. SUFFICES ASSUME Tipo, Lugares, miner PROVE Lugares'
  OBVIOUS
<1>0. pc \in [Procesos -> Estados]
  BY DEF Tipo, TypeOK
<1>1. CASE MinerFork
  BY <1>0, <1>1, DosForks DEF Lugares
<1>2. CASE ~MinerFork
  <2>1. PICK de \in Estados, a \in Estados \ {"no", "fork"} : Va("miner", de, a)
    BY <1>2 DEF miner, MinerForkFalla, Busca, Create, CreateFalla, Join, Write, MinerSigpipe,
           ReadValida, ReadInvalida, Acaba, Adios, MinerWaitpid, Estados
  <2>2. UNCHANGED <<pc["main"], pc["monitor"]>> /\ pc'["miner"] = a
    BY <1>0, <2>1, VaMiner
  <2>. QED
    BY <2>2 DEF Lugares, Estados
<1>. QED
  BY <1>1, <1>2

LEMMA LugaresPaso == Tipo /\ Lugares /\ [Next]_vars => Lugares'
<1>. SUFFICES ASSUME Tipo, Lugares, [Next]_vars PROVE Lugares'
  OBVIOUS
<1>0. pc \in [Procesos -> Estados]
  BY DEF Tipo, TypeOK
<1>1. CASE main
  <2>1. CASE MainFork
    BY <1>0, <2>1, DosForks DEF Lugares
  <2>2. CASE MainForkFalla \/ MainWaitpid
    <3>1. PICK de \in Estados : Va("main", de, "exit")
      BY <2>2, Nombres DEF MainForkFalla, MainWaitpid
    <3>. QED
      BY <3>1, VaMain, Nombres DEF Lugares
  <2>. QED
    BY <1>1, <2>1, <2>2 DEF main
<1>2. CASE monitor
  <2>1. PICK de \in {"read", "write"}, a \in {"read", "write", "exit", "muerto"} :
          Va("monitor", de, a)
    BY <1>2 DEF monitor, MonitorRead, MonitorEof, MonitorWrite, MonitorSigpipe, Comprueba
  <2>2. a \in Estados
    BY Nombres DEF Estados
  <2>. QED
    BY <2>1, <2>2, VaMonitor DEF Lugares
<1>3. ASSUME NEW p \in Procesos, Mata(p) PROVE Lugares'
  BY <1>0, <1>3, Pone DEF Mata, Lugares, Procesos
<1>4. ASSUME NEW t \in Hilos, Hilo(t) PROVE Lugares'
  <2>1. pc' = pc
    BY <1>4 DEF Hilo, Mira, Prueba, Apunta, Huerfano, HuerfanoAvisa, HuerfanoApunta,
           HuerfanoAcaba, EnHilo
  <2>. QED
    BY <2>1 DEF Lugares
<1>5. CASE UNCHANGED vars
  BY <1>5 DEF vars, Lugares
<1>. QED
  BY <1>1, <1>2, <1>3, <1>4, <1>5, LugaresMiner DEF Next, Parado

(* Every variable of mrush always holds a value of its type: the miner never*)
(* begins one cycle too many, and no index leaves the threads (minero.c of  *)
(* ej13 loops on n_cycles and n_threads).  And each process is at a place of*)
(* its own code: the main process never comes to a pipe, nor the monitor to *)
(* the search or to a wait for a child.                                     *)
THEOREM TipoCorrecto == Spec => [](TypeOK /\ Lugares)
<1>1. Tipo => TypeOK
  BY DEF Tipo
<1>2. Init => Lugares
  BY DEF Init, Lugares, Procesos
<1>. QED
  BY <1>1, <1>2, TipoInicial, TipoPaso, LugaresPaso, PTL DEF Spec

-----------------------------------------------------------------------------
(* The conversation of the two processes.                                   *)

LEMMA CharlaInicial == Init => Charla
<1>. SUFFICES ASSUME Init PROVE Charla
  OBVIOUS
<1>1. pc["main"] = "fork" /\ pc["miner"] = "no" /\ pc["monitor"] = "no"
  BY DEF Init, Procesos
<1>2. aceptadas = <<>> /\ ida = <<>> /\ vuelta = <<>> /\ targetMon = target /\ ciclo = 0 /\ salida = "ninguna"
  BY DEF Init
<1>3. Encadenadas
  BY <1>2 DEF Encadenadas
<1>. QED
  BY <1>1, <1>2, <1>3, TipoInicial DEF Charla, Conversacion, Vivo, Vacias

LEMMA CompruebaEncadena ==
  ASSUME Tipo, Encadenadas, NEW s \in Int, Comprueba(s)
  PROVE  Encadenadas'
<1>1. aceptadas \in Seq(Int)
  BY DEF Tipo, TypeOK
<1>2. CASE s # -1 /\ pow_hash(s) = targetMon
  <2>1. aceptadas' = Append(aceptadas, s) /\ targetMon' = s
    BY <1>2 DEF Comprueba, NuevoTarget
  <2>2. /\ Len(aceptadas') = Len(aceptadas) + 1 /\ aceptadas'[Len(aceptadas) + 1] = s
        /\ \A j \in 1 .. Len(aceptadas) : aceptadas'[j] = aceptadas[j]
    BY <1>1, <2>1
  <2>3. ASSUME NEW j \in 2 .. Len(aceptadas') PROVE pow_hash(aceptadas'[j]) = aceptadas'[j - 1]
    <3>1. CASE j = Len(aceptadas) + 1
      BY <1>1, <1>2, <2>2, <2>3, <3>1 DEF Encadenadas
    <3>2. CASE j # Len(aceptadas) + 1
      <4>1. j \in 2 .. Len(aceptadas) /\ j - 1 \in 1 .. Len(aceptadas) /\ j \in 1 .. Len(aceptadas)
        BY <1>1, <2>2, <3>2
      <4>2. aceptadas'[j] = aceptadas[j] /\ aceptadas'[j - 1] = aceptadas[j - 1]
        BY <2>2, <4>1
      <4>. QED
        BY <4>1, <4>2 DEF Encadenadas
    <3>. QED
      BY <3>1, <3>2
  <2>. QED
    BY <1>1, <2>1, <2>2, <2>3 DEF Encadenadas
<1>3. CASE ~(s # -1 /\ pow_hash(s) = targetMon)
  <2>1. aceptadas' = aceptadas /\ targetMon' = targetMon
    BY <1>3 DEF Comprueba, NuevoTarget
  <2>. QED
    BY <2>1 DEF Encadenadas
<1>. QED
  BY <1>2, <1>3

LEMMA CharlaMonitor == ASSUME Charla, monitor PROVE Encadenadas' /\ Conversacion'
<1>. USE Nombres
<1>0. /\ Tipo /\ Encadenadas /\ Conversacion
      /\ aceptadas \in Seq(Int) /\ ida \in Seq(Int) /\ solMon \in Int /\ check \in {0, 1}
  BY DEF Charla, Tipo, TypeOK
<1>1. ASSUME NEW s \in Int, Comprueba(s), UNCHANGED <<minero, vuelta>>,
             \/ ida # <<>> /\ s = Head(ida) /\ ida' = Tail(ida)
             \/ ida = <<>> /\ ~Abierto({"main", "miner"}) /\ ida' = ida
      PROVE  Encadenadas' /\ Conversacion'
  <2>1. Encadenadas'
    BY <1>0, <1>1, CompruebaEncadena
  <2>2. /\ pc["monitor"] = "read" /\ pc'["monitor"] = IF s = -1 THEN "exit" ELSE "write"
        /\ pc'["main"] = pc["main"] /\ pc'["miner"] = pc["miner"]
    BY <1>0, <1>1, CompruebaTipo
  <2>3. Dialogo /\ Exito /\ pc["miner"] \notin {"no", "fork"} /\ pc["main"] # "no"
    BY <1>0, <2>2 DEF Conversacion, Vivo
  <2>4. \/ /\ check' = 0 /\ targetMon' = s /\ aceptadas' = Append(aceptadas, s) /\ s # -1
        \/ check' = 1 /\ targetMon' = targetMon /\ aceptadas' = aceptadas
    BY <1>1 DEF Comprueba, NuevoTarget
  <2>5. /\ Len(aceptadas') \in {Len(aceptadas), Len(aceptadas) + 1}
        /\ s = -1 => Len(aceptadas') = Len(aceptadas)
        /\ \A j \in 1 .. Len(aceptadas) : aceptadas'[j] = aceptadas[j]
    <3>1. CASE aceptadas' = Append(aceptadas, s) /\ s # -1
      <4>1. Len(aceptadas') = Len(aceptadas) + 1 /\ Len(aceptadas) \in Nat
        BY <1>0, <3>1
      <4>2. \A j \in 1 .. Len(aceptadas) : aceptadas'[j] = aceptadas[j]
        BY <1>0, <3>1
      <4>. QED
        BY <3>1, <4>1, <4>2
    <3>2. CASE aceptadas' = aceptadas
      BY <3>2
    <3>. QED
      BY <2>4, <3>1, <3>2
  <2>6. ida = <<>> => Acabado("main") /\ pc["miner"] \in {"exit", "muerto"}
    BY <1>1, <2>3 DEF Abierto, Acabado
  <2>7. Dialogo'
    <3>1. pc["miner"] # "adios" /\ ~Activo
      BY <1>1, <2>3, <2>6 DEF Dialogo, Vacias, Activo
    <3>2. CASE pc["miner"] = "read"
      <4>1. /\ ida = <<solution>> /\ vuelta = <<>> /\ solution # -1
            /\ targetMon = target /\ Len(aceptadas) = ciclo
        BY <1>1, <2>2, <2>3, <2>6, <3>2 DEF Dialogo, Acabado
      <4>2. s = solution /\ ida' = <<>> /\ vuelta' = <<>> /\ solution' = solution /\ ciclo' = ciclo
        BY <1>1, <4>1 DEF minero
      <4>3. Contestado'
        BY <1>0, <2>4, <4>1, <4>2 DEF Contestado
      <4>. QED
        BY <2>2, <3>2, <4>1, <4>2, <4>3 DEF Dialogo, Activo, Vacias
    <3>3. CASE pc["miner"] # "read"
      BY <2>2, <3>1, <3>3 DEF Dialogo, Activo
    <3>. QED
      BY <3>2, <3>3
  <2>8. Exito'
    <3>1. SUFFICES ASSUME salida = "EXIT_SUCCESS" PROVE Exito'
      BY <1>1 DEF Exito, minero
    <3>2. /\ pc["miner"] \in {"adios", "waitpid", "muerto"} /\ Len(aceptadas) = n_cycles
          /\ aceptadas[n_cycles] = target /\ ida \in {<<>>, <<-1>>}
      BY <2>2, <2>3, <3>1 DEF Exito
    <3>3. target' = target /\ aceptadas'[n_cycles] = target
      BY <1>0, <1>1, <2>5, <3>2, MrushAssumption DEF minero
    <3>4. CASE ida = <<>>
      BY <2>2, <2>5, <2>6, <3>2, <3>3, <3>4, MrushAssumption DEF Exito, Acabado
    <3>5. CASE ida = <<-1>>
      <4>1. s = -1
        BY <1>1, <3>5
      <4>. QED
        BY <2>2, <2>5, <3>2, <3>3, <4>1, MrushAssumption DEF Exito
    <3>. QED
      BY <3>2, <3>4, <3>5
  <2>. QED
    BY <2>1, <2>2, <2>3, <2>7, <2>8 DEF Conversacion, Vivo
<1>2. CASE MonitorRead
  <2>1. Head(ida) \in Int
    BY <1>0, <1>2, HeadTailProperties DEF MonitorRead
  <2>. QED
    BY <1>1, <1>2, <2>1 DEF MonitorRead
<1>3. CASE MonitorEof
  BY <1>0, <1>1, <1>3 DEF MonitorEof, tuberias
<1>4. CASE MonitorWrite
  <2>1. /\ pc["monitor"] = "write" /\ pc'["monitor"] = "read"
        /\ pc'["main"] = pc["main"] /\ pc'["miner"] = pc["miner"]
        /\ vuelta' = Append(vuelta, check) /\ UNCHANGED <<minero, monit, ida>>
    BY <1>0, <1>4, VaMonitor DEF MonitorWrite
  <2>2. Dialogo /\ Exito
    BY <1>0, <2>1 DEF Conversacion, Vivo
  <2>3. salida # "EXIT_SUCCESS"
    BY <1>4, <2>1, <2>2 DEF MonitorWrite, Exito, Abierto, Acabado
  <2>4. Dialogo'
    <3>1. pc["miner"] # "adios" /\ ~Activo
      BY <2>1, <2>2 DEF Dialogo
    <3>2. pc["miner"] = "read" => Vacias /\ Contestado
      BY <2>1, <2>2 DEF Dialogo
    <3>3. pc["miner"] = "read" => ida' = <<>> /\ vuelta' = <<check'>> /\ Contestado'
      BY <2>1, <3>2 DEF Vacias, Contestado, minero, monit
    <3>. QED
      BY <2>1, <3>1, <3>3 DEF Dialogo, Activo
  <2>5. Exito' /\ Encadenadas'
    BY <1>0, <2>1, <2>3 DEF Exito, Encadenadas, minero, monit
  <2>. QED
    BY <1>0, <2>1, <2>4, <2>5 DEF Conversacion, Vivo
<1>5. CASE MonitorSigpipe
  <2>1. /\ pc["monitor"] = "write" /\ pc'["monitor"] = "muerto"
        /\ pc'["main"] = pc["main"] /\ pc'["miner"] = pc["miner"]
        /\ UNCHANGED <<minero, monit, tuberias>>
    BY <1>0, <1>5, VaMonitor DEF MonitorSigpipe
  <2>. QED
    BY <1>0, <2>1 DEF Conversacion, Vivo, Encadenadas, Vacias, minero, monit, tuberias
<1>. QED
  BY <1>2, <1>3, <1>4, <1>5 DEF monitor

(* Every step of the miner has a part of its own in the conversation.       *)
LEMMA CharlaMiner == ASSUME Charla, miner PROVE Encadenadas' /\ Conversacion'
<1>. USE Nombres
<1>0. /\ Tipo /\ Encadenadas /\ Conversacion /\ ciclo \in 0 .. n_cycles /\ n_cycles \in Nat \ {0}
      /\ aceptadas \in Seq(Int) /\ ida \in Seq(Int) /\ solution \in Int /\ check \in {0, 1}
  BY MrushAssumption DEF Charla, Tipo, TypeOK
<1>1. CASE MinerFork
  BY <1>0, <1>1, DosForks
  DEF MinerFork, Conversacion, Vivo, Dialogo, Exito, Activo, Vacias, Encadenadas, minero, monit, tuberias
<1>2. CASE MinerForkFalla
  BY <1>0, <1>2, VaMiner
  DEF MinerForkFalla, Conversacion, Vivo, Encadenadas, minero, monit, tuberias
<1>3. ASSUME Activo, NEW a \in {"create", "join", "write"}, Va("miner", pc["miner"], a),
             a = "write" => solution' # -1,
             UNCHANGED <<salida, ciclo, target, monit, tuberias>>
      PROVE  Encadenadas' /\ Conversacion'
  BY <1>0, <1>3, VaMiner DEF Conversacion, Vivo, Dialogo, Exito, Activo, Vacias, Encadenadas, monit, tuberias
<1>4. CASE Busca
  BY <1>3, <1>4 DEF Busca, Va, Activo
<1>5. CASE Create
  BY <1>3, <1>5 DEF Create, Va, Activo
<1>6. CASE CreateFalla
  BY <1>3, <1>6 DEF CreateFalla, Va, Activo, EXIT_FAILURE
<1>7. CASE Join
  <2>1. pc["miner"] = "join"
    BY <1>7 DEF Join, Va
  <2>2. CASE \E a \in {"join", "write"} : /\ Va("miner", "join", a) /\ UNCHANGED salida
                                          /\ a = "write" => solution' # -1
    BY <1>3, <1>7, <2>1, <2>2 DEF Join, Activo
  <2>3. CASE Va("miner", "join", "waitpid") /\ salida' = "sin_aviso"
    BY <1>0, <1>7, <2>3, VaMiner DEF Join, Conversacion, Vivo, Dialogo, Exito, Activo, Encadenadas, monit
  <2>. QED
    BY <1>7, <2>2, <2>3 DEF Join
<1>8. CASE Write
  <2>1. /\ pc["miner"] = "write" /\ pc'["miner"] = "read"
        /\ pc'["main"] = pc["main"] /\ pc'["monitor"] = pc["monitor"]
        /\ ida' = Append(ida, solution) /\ UNCHANGED <<minero, monit, vuelta>>
    BY <1>0, <1>8, VaMiner DEF Write
  <2>2. Vivo => /\ pc["monitor"] = "read" /\ ida' = <<solution>> /\ vuelta = <<>> /\ solution # -1
                /\ targetMon = target /\ Len(aceptadas) = ciclo /\ salida # "EXIT_SUCCESS"
    BY <1>0, <2>1 DEF Conversacion, Dialogo, Exito, Activo, Vacias
  <2>. QED
    BY <1>0, <2>1, <2>2 DEF Conversacion, Vivo, Dialogo, Exito, Activo, Encadenadas, minero, monit
<1>9. CASE MinerSigpipe
  <2>1. /\ pc["miner"] \in {"write", "adios"} /\ pc'["miner"] = "muerto"
        /\ pc'["main"] = pc["main"] /\ pc'["monitor"] = pc["monitor"]
        /\ UNCHANGED <<minero, monit, tuberias>>
    BY <1>0, <1>9, VaMiner DEF MinerSigpipe
  <2>2. ~Vivo
    BY <1>0, <1>9, <2>1 DEF MinerSigpipe, Conversacion, Vivo, Dialogo, Activo, Abierto, Acabado
  <2>. QED
    BY <1>0, <2>1, <2>2 DEF Conversacion, Vivo, Encadenadas, minero, monit
<1>10. ASSUME Respuesta, Vivo, pc["miner"] = "read"
       PROVE  /\ pc["monitor"] = "read" /\ ida = <<>> /\ vuelta' = <<>> /\ salida # "EXIT_SUCCESS"
              /\ solution_check' = check /\ Contestado
  <2>1. Abierto({"main", "monitor"}) \/ pc["monitor"] = "exit"
    BY <1>10 DEF Vivo, Abierto, Acabado
  <2>2. Dialogo /\ salida # "EXIT_SUCCESS"
    BY <1>0, <1>10 DEF Conversacion, Vivo, Exito
  <2>3. vuelta # <<>> /\ solution_check' = Head(vuelta) /\ vuelta' = Tail(vuelta)
    BY <1>10, <2>1, <2>2 DEF Respuesta, Dialogo
  <2>4. pc["monitor"] = "read" /\ ida = <<>> /\ vuelta = <<check>> /\ Contestado
    BY <1>10, <2>2, <2>3 DEF Dialogo, Vacias
  <2>. QED
    BY <2>2, <2>3, <2>4
<1>11. CASE ReadValida
  <2>1. /\ pc["miner"] = "read" /\ pc'["miner"] = IF Quedan(ciclo + 1) THEN "busca" ELSE "adios"
        /\ pc'["main"] = pc["main"] /\ pc'["monitor"] = pc["monitor"] /\ ciclo < n_cycles
        /\ salida' = IF Quedan(ciclo + 1) THEN salida ELSE "EXIT_SUCCESS"
    BY <1>0, <1>11, VaMiner DEF ReadValida, Acaba, Tipo
  <2>2. /\ target' = solution /\ ciclo' = ciclo + 1 /\ UNCHANGED <<monit, ida>>
        /\ solution_check' # 1 /\ Respuesta
    BY <1>11 DEF ReadValida
  <2>3. CASE Vivo
    <3>1. /\ pc["monitor"] = "read" /\ ida = <<>> /\ vuelta' = <<>> /\ salida # "EXIT_SUCCESS"
          /\ targetMon = solution /\ Len(aceptadas) = ciclo + 1
      BY <1>0, <1>10, <2>1, <2>2, <2>3 DEF Contestado
    <3>2. aceptadas[ciclo + 1] = solution
      BY <1>0, <3>1 DEF Encadenadas
    <3>3. CASE Quedan(ciclo + 1)
      BY <1>0, <2>1, <2>2, <3>1, <3>3 DEF Conversacion, Vivo, Dialogo, Exito, Activo, Vacias, Encadenadas, monit
    <3>4. CASE ~Quedan(ciclo + 1)
      <4>1. ciclo + 1 = n_cycles
        BY <1>0, <2>1, <3>4 DEF Quedan
      <4>. QED
        BY <1>0, <2>1, <2>2, <3>1, <3>2, <3>4, <4>1
        DEF Conversacion, Vivo, Dialogo, Exito, Activo, Vacias, Encadenadas, monit
    <3>. QED
      BY <3>3, <3>4
  <2>4. CASE ~Vivo
    BY <1>0, <2>1, <2>2, <2>4 DEF Conversacion, Vivo, Encadenadas, monit
  <2>. QED
    BY <2>3, <2>4
<1>12. CASE ReadInvalida
  <2>1. /\ pc["miner"] = "read" /\ pc'["miner"] = "adios" /\ salida' = "EXIT_FAILURE"
        /\ pc'["main"] = pc["main"] /\ pc'["monitor"] = pc["monitor"]
        /\ UNCHANGED <<monit, ida>> /\ Respuesta
    BY <1>0, <1>12, VaMiner DEF ReadInvalida, Acaba
  <2>2. Vivo => pc["monitor"] = "read" /\ ida = <<>> /\ vuelta' = <<>>
    BY <1>10, <2>1
  <2>. QED
    BY <1>0, <2>1, <2>2 DEF Conversacion, Vivo, Dialogo, Exito, Activo, Vacias, Encadenadas, monit
<1>13. CASE Adios
  <2>1. /\ pc["miner"] = "adios" /\ pc'["miner"] = "waitpid"
        /\ pc'["main"] = pc["main"] /\ pc'["monitor"] = pc["monitor"]
        /\ ida' = Append(ida, -1) /\ UNCHANGED <<salida, ciclo, target, monit, vuelta>>
    BY <1>0, <1>13, VaMiner DEF Adios
  <2>2. Vivo => pc["monitor"] = "read" /\ ida' = <<-1>>
    BY <1>0, <2>1 DEF Conversacion, Dialogo, Vacias
  <2>. QED
    BY <1>0, <2>1, <2>2 DEF Conversacion, Vivo, Dialogo, Exito, Activo, Encadenadas, monit
<1>14. CASE MinerWaitpid
  <2>1. /\ pc["miner"] = "waitpid" /\ pc'["miner"] = "exit" /\ Acabado("monitor")
        /\ pc'["main"] = pc["main"] /\ pc'["monitor"] = pc["monitor"]
        /\ UNCHANGED <<minero, monit, tuberias>>
    BY <1>0, <1>14, VaMiner DEF MinerWaitpid
  <2>. QED
    BY <1>0, <2>1 DEF Conversacion, Vivo, Dialogo, Exito, Activo, Acabado, Encadenadas, minero, monit, tuberias
<1>. QED
  BY <1>1, <1>2, <1>4, <1>5, <1>6, <1>7, <1>8, <1>9, <1>11, <1>12, <1>13, <1>14 DEF miner

LEMMA CharlaPaso == Charla /\ [Next]_vars => Charla'
<1>. SUFFICES ASSUME Charla, [Next]_vars PROVE Encadenadas' /\ Conversacion'
  BY TipoPaso DEF Charla
<1> USE Nombres
<1>0. Tipo /\ Encadenadas /\ Conversacion
  BY DEF Charla
<1>1. CASE main
  <2>1. UNCHANGED <<minero, monit, tuberias>>
    BY <1>1 DEF main, MainFork, MainForkFalla, MainWaitpid
  <2>2. /\ pc'["monitor"] = pc["monitor"] /\ pc'["main"] # "no" /\ ~Acabado("main")
        /\ pc'["miner"] = pc["miner"] \/ (pc["miner"] = "no" /\ pc'["miner"] = "fork")
    <3>1. CASE MainFork
      BY <1>0, <3>1, DosForks DEF Acabado
    <3>2. CASE MainForkFalla
      BY <1>0, <3>2, VaMain DEF MainForkFalla, Acabado
    <3>3. CASE MainWaitpid
      BY <1>0, <3>3, VaMain DEF MainWaitpid, Acabado
    <3>. QED
      BY <1>1, <3>1, <3>2, <3>3 DEF main
  <2>. QED
    BY <1>0, <2>1, <2>2
    DEF Conversacion, Vivo, Dialogo, Exito, Activo, Acabado, Vacias, Contestado, Encadenadas, minero, monit, tuberias
<1>2. ASSUME NEW t \in Hilos, Hilo(t) PROVE Encadenadas' /\ Conversacion'
  <2>1. UNCHANGED <<pc, minero, monit, tuberias>>
    BY <1>2 DEF Hilo, Mira, Prueba, Apunta, Huerfano, HuerfanoAvisa, HuerfanoApunta,
           HuerfanoAcaba, EnHilo
  <2>. QED
    BY <1>0, <2>1
    DEF Conversacion, Vivo, Dialogo, Exito, Activo, Acabado, Vacias, Contestado, Encadenadas, minero, monit, tuberias
<1>3. ASSUME NEW p \in Procesos, Mata(p) PROVE Encadenadas' /\ Conversacion'
  <2>1. /\ pc[p] \notin {"no", "exit", "muerto"} /\ pc'[p] = "muerto"
        /\ \A q \in Procesos \ {p} : pc'[q] = pc[q]
    BY <1>0, <1>3, Pone DEF Mata, Acabado
  <2>2. UNCHANGED <<minero, monit, tuberias>>
    BY <1>3 DEF Mata
  <2>3. p \in {"main", "miner", "monitor"}
    BY DEF Procesos
  <2>. QED
    BY <1>0, <2>1, <2>2, <2>3
    DEF Conversacion, Vivo, Dialogo, Exito, Activo, Acabado, Vacias, Contestado, Encadenadas, minero, monit, tuberias
<1>4. CASE UNCHANGED vars
  BY <1>0, <1>4
  DEF vars, Conversacion, Vivo, Dialogo, Exito, Activo, Acabado, Vacias, Contestado, Encadenadas, minero, monit, tuberias
<1>. QED
  BY <1>1, <1>2, <1>3, <1>4, CharlaMiner, CharlaMonitor DEF Next, Parado

(* Miner and monitor search and check the same target although neither sends*)
(* it: each takes it from the last solution accepted (minero.c, monitor.c of*)
(* ej13), as long as the monitor is not killed.                             *)
THEOREM AcuerdoSeguro == Spec => []Acuerdo
<1>1. Charla => Acuerdo
  <2>. SUFFICES ASSUME Charla, Activo, pc["monitor"] # "muerto"
                PROVE  targetMon = target /\ ida = <<>> /\ vuelta = <<>>
    BY DEF Acuerdo, Activo
  <2>. QED
    BY DEF Charla, Conversacion, Vivo, Dialogo, Activo, Vacias
<1>. QED
  BY <1>1, CharlaInicial, CharlaPaso, PTL DEF Spec

(* A miner that ends well had n_cycles solutions accepted, each a solution  *)
(* of the one before; an orphan monitor may accept the last one once more.  *)
THEOREM ExitoSeguro == Spec => []ExitoFiel
<1>1. Charla => ExitoFiel
  BY DEF Charla, ExitoFiel, Conversacion, Vivo, Exito, Encadenadas, Tipo, TypeOK
<1>. QED
  BY <1>1, CharlaInicial, CharlaPaso, PTL DEF Spec

-----------------------------------------------------------------------------
(* The search.                                                              *)

LEMMA BusquedaInicial == Init => Busqueda
<1>. SUFFICES ASSUME Init PROVE Busqueda
  OBVIOUS
<1>1. pc["miner"] = "no" /\ huerfanos = {} /\ salida = "ninguna" /\ \A t \in Hilos : pcT[t] = "no"
  BY DEF Init, Procesos
<1>. QED
  BY <1>1 DEF Busqueda, BusquedaFiel

(* What is known of a thread stays so while the others run.                 *)
LEMMA OtroHilo ==
  ASSUME NEW u \in Hilos, HiloBien(u), pc'["miner"] = pc["miner"], UNCHANGED <<k, target>>,
         pcT'[u] = pcT[u], pos'[u] = pos[u], hallado'[u] = hallado[u], target_found => target_found'
  PROVE  HiloBien(u)' /\ Creado(u)' = Creado(u) /\ Hallo(u)' = Hallo(u)
  BY DEF HiloBien, Creado, Unido, Hallo, SinSolucion

LEMMA BusquedaHilo ==
  ASSUME Tipo, Busqueda, NEW t \in Hilos, Hilo(t)
  PROVE  Busqueda'
<1>. SUFFICES ASSUME ~fallido PROVE Busqueda'
  BY DEF Busqueda, Hilo, Mira, Prueba, Apunta, Huerfano, HuerfanoAvisa, HuerfanoApunta,
           HuerfanoAcaba, EnHilo
<1>1. ~Huerfano(t)
  BY DEF Busqueda, Huerfano, HuerfanoAvisa, HuerfanoApunta, HuerfanoAcaba
<1>2. /\ UNCHANGED <<pc, minero, huerfanos, fallido>> /\ ~Acabado("miner") /\ pcT[t] # "no"
      /\ \A u \in Hilos \ {t} : pcT'[u] = pcT[u] /\ pos'[u] = pos[u] /\ hallado'[u] = hallado[u]
      /\ target_found => target_found'
      /\ pcT \in [Hilos -> {"no", "mira", "prueba", "apunta", "fin"}]
      /\ pos \in [Hilos -> Nat] /\ hallado \in [Hilos -> Int]
  BY <1>1 DEF Hilo, Mira, Prueba, Apunta, EnHilo, Tipo, TypeOK
<1>3. pc["miner"] \in {"create", "join"}
  BY <1>2, Nombres DEF Busqueda, SinHilos, Acabado, Tipo, TypeOK, Estados
<1>4. HiloBien(t) /\ Creado(t) /\ ~Unido(t) /\ Minimo(t) \in Nat /\ Maximo(t) \in Int
  BY <1>2, <1>3, Rangos DEF Busqueda, HiloBien
<1>5. UNCHANGED <<k, target, solution, salida>> /\ pc' = pc
  BY <1>2 DEF minero
<1>6. \A u \in Hilos \ {t} : HiloBien(u)' /\ Creado(u)' = Creado(u) /\ Hallo(u)' = Hallo(u)
  BY <1>2, <1>3, <1>5, OtroHilo DEF Busqueda
<1>7. Creado(t)' /\ ~Unido(t)'
  BY <1>4, <1>5 DEF Creado, Unido
<1>8. HiloBien(t)' /\ (target_found' => target_found \/ Hallo(t)') /\ (Hallo(t) => Hallo(t)')
  <2>1. CASE Mira(t)
    <3>1. /\ pcT[t] = "mira" /\ UNCHANGED <<pos, hallado, target_found>>
          /\ pcT'[t] = IF pos[t] > Maximo(t) \/ target_found THEN "fin" ELSE "prueba"
      BY <1>2, <2>1 DEF Mira, EnHilo
    <3>2. pos[t] > Maximo(t) => SinSolucion(Minimo(t), Maximo(t))
      BY <1>2, <1>4, <3>1 DEF HiloBien, SinSolucion
    <3>. QED
      BY <1>4, <1>5, <1>7, <3>1, <3>2 DEF HiloBien, Hallo, SinSolucion
  <2>2. CASE Prueba(t) /\ pow_hash(pos[t]) = target
    <3>1. EnHilo(t, "prueba", "apunta") /\ target_found' = TRUE /\ UNCHANGED <<pos, hallado>>
      BY <2>2 DEF Prueba
    <3>2. pcT[t] = "prueba" /\ pcT'[t] = "apunta"
      BY <1>2, <3>1 DEF EnHilo
    <3>. QED
      BY <1>4, <1>5, <1>7, <2>2, <3>1, <3>2 DEF HiloBien, Hallo
  <2>3. CASE Prueba(t) /\ pow_hash(pos[t]) # target
    <3>1. EnHilo(t, "prueba", "mira") /\ pos' = [pos EXCEPT ![t] = @ + 1] /\ UNCHANGED <<target_found, hallado>>
      BY <2>3 DEF Prueba
    <3>2. pcT[t] = "prueba" /\ pcT'[t] = "mira" /\ pos'[t] = pos[t] + 1
      BY <1>2, <3>1 DEF EnHilo
    <3>3. SinSolucion(Minimo(t), pos[t] - 1)
      BY <1>4, <3>2 DEF HiloBien
    <3>4. \A x \in Minimo(t) .. pos'[t] - 1 : x \in Minimo(t) .. pos[t] - 1 \/ x = pos[t]
      BY <1>2, <1>4, <3>2
    <3>5. SinSolucion(Minimo(t), pos[t] - 1)'
      BY <1>5, <2>3, <3>3, <3>4 DEF SinSolucion, Minimo
    <3>. QED
      BY <1>4, <1>5, <1>7, <3>1, <3>2, <3>5 DEF HiloBien, Hallo
  <2>4. CASE Apunta(t)
    <3>1. /\ pcT[t] = "apunta" /\ pcT'[t] = "fin" /\ hallado'[t] = pos[t] /\ UNCHANGED <<pos, target_found>>
      BY <1>2, <2>4 DEF Apunta, EnHilo
    <3>2. pos[t] # -1 /\ pow_hash(pos[t]) = target
      BY <1>2, <1>4, <3>1 DEF HiloBien
    <3>. QED
      BY <1>5, <1>7, <3>1, <3>2 DEF HiloBien, Hallo
  <2>. QED
    BY <1>1, <2>1, <2>2, <2>3, <2>4 DEF Hilo, Prueba
<1>9. target_found' => \E u \in Hilos : Creado(u)' /\ Hallo(u)'
  <2>. SUFFICES ASSUME target_found' PROVE \E u \in Hilos : Creado(u)' /\ Hallo(u)'
    OBVIOUS
  <2>1. CASE Hallo(t)'
    BY <1>7, <2>1
  <2>2. CASE ~Hallo(t)'
    <3>1. PICK u \in Hilos : Creado(u) /\ Hallo(u)
      BY <1>3, <1>8, <2>2 DEF Busqueda
    <3>2. u # t
      BY <1>8, <2>2, <3>1
    <3>. QED
      BY <1>6, <3>1, <3>2
  <2>. QED
    BY <2>1, <2>2
<1>10. \A u \in Hilos : HiloBien(u)'
  BY <1>6, <1>8
<1>11. pc["miner"] = "join" => \A u \in Hilos : u < k => u # t
  BY <1>4 DEF Unido
<1>. QED
  BY <1>2, <1>3, <1>5, <1>9, <1>10, <1>11 DEF Busqueda, BusquedaFiel, SinHilos

LEMMA BusquedaCreate == ASSUME Tipo, Busqueda, ~fallido, Create PROVE Busqueda'
<1>. USE Nombres
<1>1. /\ pcT \in [Hilos -> {"no", "mira", "prueba", "apunta", "fin"}]
      /\ pos \in [Hilos -> Nat] /\ hallado \in [Hilos -> Int] /\ k \in Hilos
  BY DEF Tipo, TypeOK
<1>2. /\ pc["miner"] = "create" /\ pc'["miner"] = IF k + 1 < n_threads THEN "create" ELSE "join"
      /\ k' = IF k + 1 < n_threads THEN k + 1 ELSE 0
  BY <1>1, VaMiner, Rangos DEF Create
<1>3. /\ \A u \in Hilos : pcT'[u] = IF u = k THEN "mira" ELSE pcT[u]
      /\ \A u \in Hilos : pos'[u] = IF u = k THEN Minimo(u) ELSE pos[u]
      /\ \A u \in Hilos : hallado'[u] = IF u = k THEN -1 ELSE hallado[u]
      /\ UNCHANGED <<target, target_found, huerfanos, fallido, salida>> /\ solution' = -1
  BY <1>1 DEF Create
<1>4. /\ \A u \in Hilos : HiloBien(u)
      /\ target_found => \E u \in Hilos : Creado(u) /\ Hallo(u)
      /\ huerfanos = {} /\ salida # "sin_aviso"
  BY <1>2 DEF Busqueda, BusquedaFiel
<1>5. \A u \in Hilos : /\ Creado(u) <=> u < k
                       /\ Creado(u)' <=> (u < k \/ u = k)
                       /\ ~Unido(u) /\ ~Unido(u)'
  BY <1>1, <1>2, MrushAssumption DEF Creado, Unido, Hilos
<1>6. ASSUME NEW t \in Hilos PROVE HiloBien(t)'
  <2>1. CASE t = k
    <3>1. SinSolucion(Minimo(t), pos[t] - 1)'
      BY <1>3, <2>1, Rangos DEF SinSolucion
    <3>. QED
      BY <1>3, <1>5, <2>1, <3>1 DEF HiloBien
  <2>2. CASE t # k
    <3>1. pcT'[t] = pcT[t] /\ pos'[t] = pos[t] /\ hallado'[t] = hallado[t] /\ (Creado(t)' <=> Creado(t))
      BY <1>3, <1>5, <2>2
    <3>2. HiloBien(t) /\ ~Unido(t) /\ ~Unido(t)' /\ UNCHANGED <<target, target_found>>
      BY <1>3, <1>4, <1>5
    <3>. QED
      BY <3>1, <3>2 DEF HiloBien, SinSolucion, Minimo, Maximo
  <2>. QED
    BY <2>1, <2>2
<1>7. target_found' => \E u \in Hilos : Creado(u)' /\ Hallo(u)'
  <2>. SUFFICES ASSUME target_found PROVE \E u \in Hilos : Creado(u)' /\ Hallo(u)'
    BY <1>3
  <2>1. PICK u \in Hilos : Creado(u) /\ Hallo(u)
    BY <1>4
  <2>2. u # k /\ Creado(u)' /\ ~Unido(u) /\ ~Unido(u)'
    BY <1>1, <1>5, <2>1 DEF Hilos
  <2>3. pcT'[u] = pcT[u] /\ hallado'[u] = hallado[u]
    BY <1>3, <2>2
  <2>. QED
    BY <2>1, <2>2, <2>3 DEF Hallo
<1>8. pc'["miner"] = "join" => k' = 0
  BY <1>2
<1>. QED
  BY <1>2, <1>3, <1>4, <1>6, <1>7, <1>8 DEF Busqueda, BusquedaFiel, SinHilos, Hilos

(* With no thread's solution found, every range has been gone through.      *)
LEMMA BusquedaJoin == ASSUME Tipo, Busqueda, ~fallido, Join PROVE Busqueda'
<1>. USE Nombres
<1>1. /\ pcT \in [Hilos -> {"no", "mira", "prueba", "apunta", "fin"}]
      /\ pos \in [Hilos -> Nat] /\ hallado \in [Hilos -> Int] /\ k \in Hilos /\ solution \in Int
  BY DEF Tipo, TypeOK
<1>2. pc["miner"] = "join" /\ \E a \in {"join", "write", "waitpid"} : Va("miner", "join", a)
  BY DEF Join, Va
<1>3. /\ pcT[k] = "fin" /\ solution' = IF hallado[k] # -1 THEN hallado[k] ELSE solution
      /\ \A u \in Hilos : pcT'[u] = IF u = k THEN "no" ELSE pcT[u]
      /\ UNCHANGED <<target, pos, hallado, target_found, huerfanos, fallido>>
  BY <1>1 DEF Join, Elige
<1>4. /\ \A u \in Hilos : HiloBien(u) /\ (Unido(u) <=> u < k) /\ Creado(u)
      /\ target_found => \E u \in Hilos : Hallo(u)
      /\ solution # -1 => pow_hash(solution) = target
      /\ solution = -1 => \A t \in Hilos : t < k => hallado[t] = -1
      /\ huerfanos = {} /\ salida # "sin_aviso"
  BY <1>2 DEF Busqueda, BusquedaFiel, Creado, Unido
<1>5. HiloBien(k) /\ ~Unido(k)
  BY <1>1, <1>4 DEF Hilos
<1>6. /\ solution' # -1 => pow_hash(solution') = target
      /\ solution' = -1 => solution = -1 /\ \A t \in Hilos : t < k \/ t = k => hallado[t] = -1
  BY <1>3, <1>4, <1>5 DEF HiloBien
<1>7. CASE k + 1 < n_threads
  <2>1. pc'["miner"] = "join" /\ k' = k + 1 /\ salida' = salida
    BY <1>1, <1>7, VaMiner, Rangos DEF Join
  <2>2. \A u \in Hilos : Creado(u)' /\ (Unido(u)' <=> (u < k \/ u = k))
    BY <1>1, <2>1 DEF Creado, Unido, Hilos
  <2>3. ASSUME NEW t \in Hilos PROVE HiloBien(t)' /\ (Hallo(t) => Hallo(t)')
    <3>1. CASE t = k
      BY <1>3, <1>4, <1>5, <2>2, <3>1 DEF HiloBien, Hallo, SinSolucion, Minimo, Maximo
    <3>2. CASE t # k
      BY <1>3, <1>4, <2>2, <3>2 DEF HiloBien, Hallo, SinSolucion, Minimo, Maximo
    <3>. QED
      BY <3>1, <3>2
  <2>4. \A t \in Hilos : t < k' => t < k \/ t = k
    BY <1>1, <2>1 DEF Hilos
  <2>. QED
    BY <1>3, <1>4, <1>6, <2>1, <2>2, <2>3, <2>4 DEF Busqueda, BusquedaFiel, SinHilos
<1>8. CASE k + 1 = n_threads
  <2>1. \A u \in Hilos : u < k \/ u = k
    BY <1>1, <1>8, MrushAssumption DEF Hilos
  <2>2. \A u \in Hilos : pcT'[u] = "no"
    BY <1>3, <1>4, <2>1 DEF HiloBien
  <2>3. \/ pc'["miner"] = "write" /\ solution' # -1 /\ salida' = salida
        \/ pc'["miner"] = "waitpid" /\ solution' = -1 /\ salida' = "sin_aviso"
    BY <1>1, <1>8, VaMiner, MrushAssumption DEF Join, Hilos
  <2>4. ASSUME solution' = -1, NEW t \in Hilos PROVE SinSolucion(Minimo(t), Maximo(t))
    <3>1. \A u \in Hilos : hallado[u] = -1
      BY <1>6, <2>1, <2>4
    <3>2. \A u \in Hilos : ~Hallo(u)
      BY <1>3, <1>4, <2>1, <3>1 DEF Hallo, HiloBien
    <3>3. ~target_found /\ (pcT[t] = "fin" \/ Unido(t))
      BY <1>3, <1>4, <2>1, <3>2
    <3>. QED
      BY <1>4, <3>1, <3>3 DEF HiloBien
  <2>5. solution' = -1 => \A t \in Hilos : \A x \in Minimo(t) .. Maximo(t) : pow_hash(x) # target'
    BY <1>3, <2>4 DEF SinSolucion
  <2>. QED
    BY <1>3, <1>4, <1>6, <2>2, <2>3, <2>5 DEF Busqueda, BusquedaFiel, SinHilos
<1>. QED
  BY <1>1, <1>7, <1>8, MrushAssumption DEF Hilos

LEMMA BusquedaPaso == Tipo /\ Busqueda /\ [Next]_vars => Busqueda'
<1>. SUFFICES ASSUME Tipo, Busqueda, [Next]_vars PROVE Busqueda'
  OBVIOUS
<1>. USE Nombres
<1>1. CASE CreateFalla
  BY <1>1 DEF CreateFalla, Busqueda
(* Steps that leave the threads alone and send nothing.                     *)
<1>2. ASSUME UNCHANGED <<pcT, target_found, huerfanos, hallado, fallido>>,
             pc'["miner"] # pc["miner"] =>
               pc'["miner"] \notin {"create", "join", "write"} /\ pc["miner"] \notin {"exit", "muerto"},
             pc'["miner"] = pc["miner"] => UNCHANGED <<k, pos, solution>>,
             pc["miner"] \in {"create", "join"} => pc'["miner"] \in {pc["miner"], "muerto"},
             salida' = "sin_aviso" => salida = "sin_aviso",
             salida = "sin_aviso" => pc'["miner"] \in {"waitpid", "exit", "muerto"},
             pc["miner"] # "read" => target' = target
      PROVE  Busqueda'
  <2>. SUFFICES ASSUME ~fallido PROVE Busqueda'
    BY <1>2 DEF Busqueda
  <2>1. salida = "sin_aviso" => target' = target
    BY <1>2 DEF Busqueda
  <2>2. CASE pc'["miner"] = pc["miner"]
    <3>1. pc["miner"] \in {"create", "join", "write"} => target' = target
      BY <1>2
    <3>2. \A u \in Hilos : pc["miner"] \in {"create", "join"} /\ HiloBien(u) =>
            HiloBien(u)' /\ Creado(u)' = Creado(u) /\ Hallo(u)' = Hallo(u)
      BY <1>2, <2>2, <3>1, OtroHilo
    <3>3. CASE pc["miner"] \in {"create", "join"}
      <4>1. \A u \in Hilos : HiloBien(u)' /\ Creado(u)' = Creado(u) /\ Hallo(u)' = Hallo(u)
        BY <3>2, <3>3 DEF Busqueda
      <4>2. target_found' => \E u \in Hilos : Creado(u)' /\ Hallo(u)'
        BY <1>2, <3>3, <4>1 DEF Busqueda
      <4>. QED
        BY <1>2, <2>1, <2>2, <3>1, <3>3, <4>1, <4>2 DEF Busqueda, BusquedaFiel, SinHilos
    <3>4. CASE pc["miner"] \notin {"create", "join"}
      BY <1>2, <2>1, <2>2, <3>1, <3>4 DEF Busqueda, BusquedaFiel, SinHilos
    <3>. QED
      BY <3>3, <3>4
  <2>3. CASE pc'["miner"] # pc["miner"]
    <3>1. pc["miner"] \in Estados
      BY DEF Tipo, TypeOK
    <3>2. SinHilos' => SinHilos
      BY <1>2, <2>3, <3>1 DEF SinHilos, Estados
    <3>. QED
      BY <1>2, <2>1, <2>3, <3>2 DEF Busqueda, BusquedaFiel
  <2>. QED
    BY <2>2, <2>3
<1>3. CASE Busca
  <2>. SUFFICES ASSUME ~fallido PROVE Busqueda'
    BY <1>3 DEF Busqueda, Busca
  <2>1. /\ pc["miner"] = "busca" /\ pc'["miner"] = "create" /\ k' = 0 /\ ~target_found'
        /\ UNCHANGED <<salida, target, pcT, huerfanos, fallido>>
    BY <1>3, VaMiner DEF Busca
  <2>2. \A u \in Hilos : pcT'[u] = "no" /\ ~Creado(u)' /\ ~Unido(u)'
    BY <2>1 DEF Busqueda, SinHilos, Creado, Unido, Hilos
  <2>. QED
    BY <2>1, <2>2 DEF Busqueda, BusquedaFiel, SinHilos, HiloBien
<1>4. CASE Create \/ Join
  <2>1. fallido' = fallido
    BY <1>4 DEF Create, Join
  <2>. QED
    BY <1>4, <2>1, BusquedaCreate, BusquedaJoin DEF Busqueda
<1>5. ASSUME UNCHANGED hilos, UNCHANGED <<salida, k, target, solution>>,
             pc'["miner"] = pc["miner"]
      PROVE  Busqueda'
  <2>. SUFFICES ASSUME ~fallido PROVE Busqueda'
    BY <1>5 DEF Busqueda, hilos
  <2>. QED
    BY <1>2, <1>5 DEF Busqueda, hilos
<1>6. ASSUME UNCHANGED <<hilos, salida, target>>, NEW a \in {"read", "waitpid", "exit", "muerto"},
             pc'["miner"] = a, pc["miner"] \notin {a, "exit", "muerto"}, a = "read" => pc["miner"] = "write",
             pc["miner"] = "waitpid" => a # "read",
             pc["miner"] \in {"create", "join"} => a = "muerto"
      PROVE  Busqueda'
  <2>. SUFFICES ASSUME ~fallido PROVE Busqueda'
    BY <1>6 DEF Busqueda, hilos
  <2>1. salida = "sin_aviso" => a # "read"
    BY <1>6 DEF Busqueda
  <2>. QED
    BY <1>2, <1>6, <2>1 DEF hilos
<1>7. CASE MinerFork \/ MainFork
  <2>1. /\ UNCHANGED <<hilos, minero>>
        /\ \/ pc'["miner"] \in {"fork", "busca"} /\ pc["miner"] \in {"no", "fork"} /\ pc'["miner"] # pc["miner"]
    BY <1>7, DosForks DEF MinerFork, MainFork
  <2>. SUFFICES ASSUME ~fallido PROVE Busqueda'
    BY <2>1 DEF Busqueda, hilos
  <2>2. salida # "sin_aviso"
    BY <2>1 DEF Busqueda
  <2>. QED
    BY <1>2, <2>1, <2>2 DEF hilos, minero
<1>8. CASE MinerForkFalla \/ MinerWaitpid
  BY <1>6, <1>8, VaMiner DEF MinerForkFalla, MinerWaitpid, minero
<1>9. CASE Write
  BY <1>6, <1>9, VaMiner DEF Write, minero
<1>10. CASE MinerSigpipe
  BY <1>6, <1>10, VaMiner DEF MinerSigpipe, minero
<1>11. CASE Adios
  BY <1>6, <1>11, VaMiner DEF Adios
<1>12. CASE ReadValida \/ ReadInvalida
  <2>. SUFFICES ASSUME ~fallido PROVE Busqueda'
    BY <1>12 DEF ReadValida, ReadInvalida, Busqueda, hilos
  <2>1. /\ UNCHANGED hilos /\ pc["miner"] = "read" /\ pc'["miner"] \in {"busca", "adios"}
        /\ salida' \in {salida, "EXIT_SUCCESS", "EXIT_FAILURE"}
    BY <1>12, VaMiner DEF ReadValida, ReadInvalida, Acaba
  <2>2. salida # "sin_aviso"
    BY <2>1 DEF Busqueda
  <2>. QED
    BY <1>2, <2>1, <2>2 DEF hilos
<1>13. CASE MainForkFalla \/ MainWaitpid
  BY <1>5, <1>13, VaMain DEF MainForkFalla, MainWaitpid, minero
<1>14. CASE monitor
  <2>1. UNCHANGED <<minero, hilos>>
    BY <1>14 DEF monitor, MonitorRead, MonitorEof, MonitorWrite, MonitorSigpipe
  <2>2. pc'["miner"] = pc["miner"]
    <3>1. \E a \in Estados : Va("monitor", pc["monitor"], a)
      BY <1>14 DEF monitor, MonitorRead, MonitorEof, MonitorWrite, MonitorSigpipe, Comprueba, Va
    <3>. QED
      BY <3>1, VaMonitor
  <2>. QED
    BY <1>5, <2>1, <2>2 DEF minero
<1>15. ASSUME NEW p \in Procesos, Mata(p) PROVE Busqueda'
  <2>1. /\ UNCHANGED <<minero, hilos>> /\ pc[p] \notin {"exit", "muerto"} /\ pc'[p] = "muerto"
        /\ \A q \in Procesos \ {p} : pc'[q] = pc[q]
    BY <1>15, Pone DEF Mata, Acabado
  <2>2. CASE p = "miner"
    BY <1>6, <2>1, <2>2 DEF minero
  <2>3. CASE p # "miner"
    BY <1>5, <2>1, <2>3 DEF minero
  <2>. QED
    BY <2>2, <2>3
<1>16. CASE UNCHANGED vars
  BY <1>5, <1>16 DEF vars, minero
<1>. QED
  BY <1>1, <1>3, <1>4, <1>7, <1>8, <1>9, <1>10, <1>11, <1>12, <1>13, <1>14, <1>15, <1>16, BusquedaHilo
  DEF Next, main, miner, Parado

(* Threads that stop because another has raised target_found before it wrote*)
(* its solution down (minero.c of ej13) lose nothing: the miner sends only  *)
(* solutions, and gives a search up only if no value of any range is one.   *)
THEOREM BusquedaSegura == Spec => []BusquedaFiel
<1>1. Busqueda => BusquedaFiel
  BY DEF Busqueda, BusquedaFiel
<1>. QED
  BY <1>1, TipoInicial, TipoPaso, BusquedaInicial, BusquedaPaso, PTL DEF Spec
=============================================================================
