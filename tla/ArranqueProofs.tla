--------------------------- MODULE ArranqueProofs ---------------------------
(***************************************************************************)
(* Proofs about module Arranque, for any number of miner and monitor       *)
(* programs, whatever fails and whoever is killed.                         *)
(***************************************************************************)
EXTENDS Arranque, FiniteSetTheorems, TLAPS

(* Each name is linked by one of the two programs only.                     *)
NombresMinero == {"MQ_NAME", "SHM_MINERO"}
Tipo ==
  /\ TypeOK
  /\ \A n \in Nombres : nombre[n] # Nadie =>
       nombre[n] \in IF n \in NombresMinero THEN Mineros ELSE Monitores

LEMMA Distintos == /\ Mineros \cap Monitores = {}
                   /\ Programas = Mineros \cup Monitores
                   /\ Nadie \notin Programas
  BY ArranqueAssumption DEF Mineros, Monitores, Programas, Nadie

LEMMA TipoInicial == Init => Tipo
  BY Distintos DEF Init, Tipo, TypeOK, EstadosMinero, EstadosMonitor, Nombres, Semaforos

LEMMA TipoMinero ==
  ASSUME Tipo, NEW n \in Mineros, Minero(n) \/ MineroAbandona(n)
  PROVE  Tipo'
<1> USE Distintos DEF Tipo, TypeOK, NombresMinero, Nombres, Semaforos, EstadosMinero,
        EstadosMonitor, Crea, Existe, Desenlaza, Sigue, En, Va
<1>1. CASE MineroMq(n)
  BY <1>1 DEF MineroMq
<1>2. CASE MineroShm(n)
  BY <1>2 DEF MineroShm
<1>3. CASE MineroFin(n)
  BY <1>3 DEF MineroFin
<1>4. CASE MineroUnlink(n)
  BY <1>4 DEF MineroUnlink
<1>5. CASE MineroAbandona(n)
  BY <1>5 DEF MineroAbandona
<1>. QED
  BY <1>1, <1>2, <1>3, <1>4, <1>5 DEF Minero

LEMMA TipoMonitor ==
  ASSUME Tipo, NEW m \in Monitores, Monitor(m) \/ ComprobadorSigint(m) \/ HijoTermina(m)
  PROVE  Tipo'
<1> USE Distintos DEF Tipo, TypeOK, NombresMinero, Nombres, Semaforos, EstadosMinero,
        EstadosMonitor, Crea, Existe, Desenlaza, Sigue, En, Va
<1>1. CASE MonitorShm(m)
  BY <1>1 DEF MonitorShm
<1>2. CASE MonitorSem(m)
  BY <1>2 DEF MonitorSem
<1>3. CASE MonitorUnlink(m)
  BY <1>3 DEF MonitorUnlink
<1>4. CASE MonitorFork(m)
  BY <1>4 DEF MonitorFork
<1>5. CASE ComprobadorMq(m)
  BY <1>5 DEF ComprobadorMq
<1>6. CASE ComprobadorFin(m)
  BY <1>6 DEF ComprobadorFin
<1>7. CASE ComprobadorWait(m)
  BY <1>7 DEF ComprobadorWait
<1>8. CASE ComprobadorSigint(m)
  BY <1>8 DEF ComprobadorSigint
<1>9. CASE HijoTermina(m)
  BY <1>9 DEF HijoTermina
<1>. QED
  BY <1>1, <1>2, <1>3, <1>4, <1>5, <1>6, <1>7, <1>8, <1>9 DEF Monitor

LEMMA TipoPaso == Tipo /\ [Next]_vars => Tipo'
<1>. SUFFICES ASSUME Tipo, [Next]_vars PROVE Tipo'
  OBVIOUS
<1>1. ASSUME NEW x \in Programas, Mata(x) PROVE Tipo'
  BY <1>1 DEF Mata, Tipo, TypeOK
<1>2. CASE UNCHANGED vars
  BY <1>2 DEF vars, Tipo, TypeOK
<1>. QED
  BY <1>1, <1>2, TipoMinero, TipoMonitor DEF Next

(* Every variable keeps its type, and every name its owner's: MQ_NAME and   *)
(* SHM_MINERO are only ever linked by a miner (minero.c:304, 328), the name *)
(* SHM_MONITOR and those of the three semaphores only by a monitor program  *)
(* (monitor.c:292, 315-328), in any number of launches.                     *)
THEOREM TipoCorrecto == Spec => []Tipo
  BY TipoInicial, TipoPaso, PTL DEF Spec

-----------------------------------------------------------------------------
(* The names that stay.                                                     *)

LEMMA RestosInicial == Init => Restos
  BY DEF Init, Restos

LEMMA RestosMinero ==
  ASSUME Tipo, Restos, NEW n \in Mineros, Minero(n) \/ MineroAbandona(n)
  PROVE  Restos'
<1> USE Distintos DEF Tipo, TypeOK, NombresMinero, Restos, PorQuitar, Nombres, Semaforos,
        Crea, Existe, Desenlaza, Sigue, En, Va
<1>1. CASE MineroMq(n)
  BY <1>1 DEF MineroMq
<1>2. CASE MineroShm(n)
  BY <1>2 DEF MineroShm
<1>3. CASE MineroFin(n)
  BY <1>3 DEF MineroFin
<1>4. CASE MineroUnlink(n)
  BY <1>4 DEF MineroUnlink
<1>5. CASE MineroAbandona(n)
  BY <1>5 DEF MineroAbandona
<1>. QED
  BY <1>1, <1>2, <1>3, <1>4, <1>5 DEF Minero

LEMMA RestosMonitor ==
  ASSUME Tipo, Restos, NEW m \in Monitores, Monitor(m) \/ ComprobadorSigint(m) \/ HijoTermina(m)
  PROVE  Restos'
<1> USE Distintos DEF Tipo, TypeOK, NombresMinero, Restos, PorQuitar, Nombres, Semaforos,
        Crea, Existe, Desenlaza, Sigue, En, Va
<1>1. CASE MonitorShm(m)
  BY <1>1 DEF MonitorShm
<1>2. CASE MonitorSem(m)
  BY <1>2 DEF MonitorSem
<1>3. CASE MonitorUnlink(m)
  BY <1>3 DEF MonitorUnlink
<1>4. CASE MonitorFork(m)
  BY <1>4 DEF MonitorFork
<1>5. CASE ComprobadorMq(m)
  BY <1>5 DEF ComprobadorMq
<1>6. CASE ComprobadorFin(m)
  BY <1>6 DEF ComprobadorFin
<1>7. CASE ComprobadorWait(m)
  BY <1>7 DEF ComprobadorWait
<1>8. CASE ComprobadorSigint(m)
  BY <1>8 DEF ComprobadorSigint
<1>9. CASE HijoTermina(m)
  BY <1>9 DEF HijoTermina
<1>. QED
  BY <1>1, <1>2, <1>3, <1>4, <1>5, <1>6, <1>7, <1>8, <1>9 DEF Monitor

LEMMA RestosPaso == Tipo /\ Restos /\ [Next]_vars => Restos'
<1>. SUFFICES ASSUME Tipo, Restos, [Next]_vars PROVE Restos'
  OBVIOUS
<1>1. ASSUME NEW x \in Programas, Mata(x) PROVE Restos'
  BY <1>1 DEF Mata, Restos
<1>2. CASE UNCHANGED vars
  BY <1>2 DEF vars, Restos
<1>. QED
  BY <1>1, <1>2, RestosMinero, RestosMonitor DEF Next

(* A program that ran to its end has left no name linked, however many      *)
(* others were started, turned away or killed meanwhile.                    *)
THEOREM RestosSeguro == Spec => []Restos
  BY TipoInicial, TipoPaso, RestosInicial, RestosPaso, PTL DEF Spec

-----------------------------------------------------------------------------
(* Semaphores that a monitor gone left behind.                              *)

(* Where the sem_open of each name stands.                                  *)
Orden == {<<"SEM_FILL", 1>>, <<"SEM_EMPTY", 2>>, <<"SEM_MUTEX", 3>>}
Sigue_Abandonado(n, i) ==
  Abandonado(n, i)' /\ \A m \in Monitores : pc'[m] = "fork" => pc[m] = "fork"

(* The program that left the name takes no more steps.                      *)
LEMMA DuenoQuieto ==
  ASSUME Tipo, Restos, NEW o \in Orden, Abandonado(o[1], o[2])
  PROVE  /\ o[1] \in Nombres /\ nombre[o[1]] \in Monitores
         /\ nombre[o[1]] \in muertos \/ pc[nombre[o[1]]] \in Finales
  BY Distintos DEF Tipo, TypeOK, NombresMinero, Orden, Abandonado, Activo, Restos, PorQuitar,
                   Nombres, Semaforos

LEMMA AbandonadoMinero ==
  ASSUME Tipo, Restos, NEW o \in Orden, Abandonado(o[1], o[2]),
         NEW n \in Mineros, Minero(n) \/ MineroAbandona(n)
  PROVE  Sigue_Abandonado(o[1], o[2])
<1>1. n \notin Monitores
  BY Distintos
<1>2. muertos' = muertos /\ \A m \in Monitores : pc'[m] = pc[m]
  BY <1>1, Distintos
  DEF Tipo, TypeOK, Minero, MineroMq, MineroShm, MineroFin, MineroUnlink, MineroAbandona,
      Crea, Existe, Desenlaza, Sigue, Va
<1>3. nombre'[o[1]] = nombre[o[1]]
  BY DEF Tipo, TypeOK, Orden, Nombres, Semaforos, Minero, MineroMq, MineroShm, MineroFin,
         MineroUnlink, MineroAbandona, Crea, Existe, Desenlaza, Sigue
<1>. QED
  BY <1>2, <1>3, DuenoQuieto DEF Sigue_Abandonado, Abandonado, Activo, Paso

LEMMA AbandonadoMonitor ==
  ASSUME Tipo, Restos, NEW o \in Orden, Abandonado(o[1], o[2]),
         NEW m \in Monitores, Monitor(m) \/ ComprobadorSigint(m) \/ HijoTermina(m)
  PROVE  Sigue_Abandonado(o[1], o[2])
<1>1. CASE HijoTermina(m)
  BY <1>1, DuenoQuieto DEF HijoTermina, Sigue_Abandonado, Abandonado, Activo, Paso
<1>2. CASE ~HijoTermina(m)
  <2> USE DEF Tipo, TypeOK, Crea, Existe, Desenlaza, Sigue, En, Va
  <2>1. m \notin muertos /\ muertos' = muertos /\ pc[m] \notin Finales
    BY <1>2, Distintos
    DEF Monitor, MonitorShm, MonitorSem, MonitorUnlink, MonitorFork, ComprobadorMq,
        ComprobadorFin, ComprobadorWait, ComprobadorSigint, Finales
  <2>2. \A x \in Programas : x # m => pc'[x] = pc[x]
    BY <1>2
    DEF Monitor, MonitorShm, MonitorSem, MonitorUnlink, MonitorFork, ComprobadorMq,
        ComprobadorFin, ComprobadorWait, ComprobadorSigint
  <2>3. Paso(m) <= o[2]
    BY <2>1 DEF Abandonado
  <2>4. nombre'[o[1]] = nombre[o[1]]
    BY <1>2, <2>1, <2>3
    DEF Monitor, MonitorShm, MonitorSem, MonitorUnlink, MonitorFork, ComprobadorMq,
        ComprobadorFin, ComprobadorWait, ComprobadorSigint, Orden, Paso, Nombres, Semaforos,
        Abandonado
  <2>5. Paso(m)' <= o[2] /\ pc'[m] # "fork"
    BY <1>2, <2>1, <2>3, Distintos
    DEF Monitor, MonitorShm, MonitorSem, MonitorUnlink, MonitorFork, ComprobadorMq,
        ComprobadorFin, ComprobadorWait, ComprobadorSigint, Orden, Paso, Abandonado
  <2>6. nombre[o[1]] # m
    BY <2>1, DuenoQuieto
  <2>7. ~Activo(nombre[o[1]])'
    BY <2>1, <2>2, <2>4, <2>6, DuenoQuieto, Distintos DEF Activo
  <2>8. \A x \in Monitores : x \in muertos' \/ Paso(x)' <= o[2]
    BY <2>1, <2>2, <2>5, Distintos DEF Abandonado, Paso
  <2>. QED
    BY <2>2, <2>4, <2>5, <2>7, <2>8, Distintos DEF Sigue_Abandonado, Abandonado
<1>. QED
  BY <1>1, <1>2

LEMMA AbandonadoMata ==
  ASSUME Tipo, Restos, NEW o \in Orden, Abandonado(o[1], o[2]),
         UNCHANGED vars \/ \E x \in Programas : Mata(x)
  PROVE  Sigue_Abandonado(o[1], o[2])
<1>1. nombre' = nombre /\ pc' = pc /\ muertos \subseteq muertos'
  BY DEF Mata, vars
<1>. QED
  BY <1>1 DEF Sigue_Abandonado, Abandonado, Activo, Paso

(* One abandoned name is enough: from then on no monitor program forks, in  *)
(* however many attempts.                                                   *)
THEOREM SinVueltaSeguro == Spec => SinVuelta
<1>1. ASSUME Tipo, Restos, [Next]_vars, Atascado
      PROVE  Atascado' /\ \A m \in Monitores : pc'[m] = "fork" => pc[m] = "fork"
  <2>1. \A o \in Orden : Abandonado(o[1], o[2]) => Sigue_Abandonado(o[1], o[2])
    BY <1>1, AbandonadoMinero, AbandonadoMonitor, AbandonadoMata DEF Next
  <2>2. PICK o \in Orden : Abandonado(o[1], o[2])
    BY <1>1 DEF Atascado, Orden
  <2>3. Sigue_Abandonado(o[1], o[2])
    BY <2>1, <2>2
  <2>4. Atascado'
    BY <2>3 DEF Sigue_Abandonado, Atascado, Orden
  <2>. QED
    BY <2>3, <2>4 DEF Sigue_Abandonado
<1>. QED
  BY <1>1, TipoInicial, TipoPaso, RestosInicial, RestosPaso, PTL DEF Spec, SinVuelta

-----------------------------------------------------------------------------
(* How many miners mine at once.                                            *)

(* The dead count too; the name stands for the last that created it.        *)
Minan == {n \in Mineros : pc[n] \in {"minando", "shm_unlink"}}
Cuenta == Cardinality(Minan) <= Cardinality(Rechazados)
                                + (IF nombre["SHM_MINERO"] # Nadie THEN 1 ELSE 0)

LEMMA Finitos == /\ IsFiniteSet(Mineros)
                 /\ \A S \in SUBSET Mineros : IsFiniteSet(S) /\ Cardinality(S) \in Nat
<1>1. IsFiniteSet(Mineros)
  BY ArranqueAssumption, FS_Interval DEF Mineros
<1>. QED
  BY <1>1, FS_Subset, FS_CardinalityType

LEMMA Numeros == /\ Cardinality(Minan) \in Nat /\ Cardinality(Minan)' \in Nat
                 /\ Cardinality(Rechazados) \in Nat /\ Cardinality(Rechazados)' \in Nat
  BY Finitos DEF Minan, Rechazados

LEMMA CuentaInicial == Init => Cuenta
<1>. SUFFICES ASSUME Init PROVE Cuenta
  OBVIOUS
<1>1. Minan = {}
  BY Distintos DEF Init, Minan
<1>. QED
  BY <1>1, Numeros, FS_EmptySet DEF Cuenta

(* Whoever moves between states that do not count changes nothing.          *)
LEMMA CuentaIgual ==
  ASSUME Cuenta, Minan' = Minan, Rechazados' = Rechazados,
         nombre'["SHM_MINERO"] = nombre["SHM_MINERO"]
  PROVE  Cuenta'
  BY DEF Cuenta

LEMMA CuentaMinero ==
  ASSUME Tipo, Cuenta, NEW n \in Mineros, Minero(n) \/ MineroAbandona(n)
  PROVE  Cuenta'
<1> USE Distintos DEF Tipo, TypeOK, Nombres, Crea, Existe, Desenlaza, Sigue, En, Va
<1>1. CASE MineroMq(n)
  <2>1. /\ Minan' = Minan /\ Rechazados' = Rechazados
        /\ nombre'["SHM_MINERO"] = nombre["SHM_MINERO"]
    BY <1>1 DEF MineroMq, Minan, Rechazados
  <2>. QED
    BY <2>1, CuentaIgual
<1>2. CASE MineroFin(n)
  <2>1. /\ Minan' = Minan /\ Rechazados' = Rechazados /\ nombre' = nombre
    BY <1>2 DEF MineroFin, Minan, Rechazados
  <2>. QED
    BY <2>1, CuentaIgual
<1>3. CASE En(n, "mq_unlink") /\ MineroUnlink(n)
  <2>1. /\ Minan' = Minan /\ Rechazados' = Rechazados
        /\ nombre'["SHM_MINERO"] = nombre["SHM_MINERO"]
    BY <1>3 DEF MineroUnlink, Minan, Rechazados
  <2>. QED
    BY <2>1, CuentaIgual
<1>4. CASE En(n, "shm_open") /\ MineroShm(n)
  <2>1. Rechazados' = Rechazados
    BY <1>4 DEF MineroShm, Rechazados
  <2>2. Minan' = Minan \/ (Minan' = Minan \cup {n} /\ nombre["SHM_MINERO"] = Nadie
                                                 /\ nombre'["SHM_MINERO"] = n)
    BY <1>4 DEF MineroShm, Minan
  <2>3. nombre["SHM_MINERO"] # Nadie => nombre'["SHM_MINERO"] # Nadie
    BY <1>4 DEF MineroShm
  <2>4. IsFiniteSet(Minan) /\ n \notin Minan
    BY <1>4, Finitos DEF Minan
  <2>5. Cardinality(Minan \cup {n}) = Cardinality(Minan) + 1
    BY <2>4, FS_AddElement, Numeros
  <2>6. CASE Minan' = Minan
    BY <2>1, <2>3, <2>6, Numeros DEF Cuenta
  <2>7. CASE Minan' = Minan \cup {n} /\ nombre["SHM_MINERO"] = Nadie
                                    /\ nombre'["SHM_MINERO"] = n
    <3>1. Cardinality(Minan) <= Cardinality(Rechazados)
      BY <2>7, Numeros DEF Cuenta
    <3>. QED
      BY <2>1, <2>5, <2>7, <3>1, Numeros DEF Cuenta
  <2>. QED
    BY <2>2, <2>6, <2>7
<1>5. CASE En(n, "quita_shm") /\ MineroShm(n)
  <2>1. Minan' = Minan /\ Rechazados' = Rechazados \cup {n} /\ n \notin Rechazados
    BY <1>5 DEF MineroShm, Minan, Rechazados
  <2>2. Cardinality(Rechazados \cup {n}) = Cardinality(Rechazados) + 1
    BY <2>1, Finitos, FS_AddElement DEF Rechazados
  <2>. QED
    BY <2>1, <2>2, Numeros DEF Cuenta
<1>6. CASE (En(n, "shm_unlink") /\ MineroUnlink(n)) \/ MineroAbandona(n)
  <2>1. Minan' = Minan \ {n} /\ n \in Minan /\ Rechazados' = Rechazados
    BY <1>6 DEF MineroUnlink, MineroAbandona, Minan, Rechazados
  <2>2. Cardinality(Minan \ {n}) = Cardinality(Minan) - 1
    BY <2>1, Finitos, FS_RemoveElement DEF Minan
  <2>. QED
    BY <2>1, <2>2, Numeros DEF Cuenta
<1>. QED
  BY <1>1, <1>2, <1>3, <1>4, <1>5, <1>6 DEF Minero, MineroShm, MineroUnlink

LEMMA CuentaResto ==
  ASSUME Tipo, Cuenta,
         \/ UNCHANGED vars \/ \E x \in Programas : Mata(x)
         \/ \E m \in Monitores : Monitor(m) \/ ComprobadorSigint(m) \/ HijoTermina(m)
  PROVE  Cuenta'
<1>1. CASE UNCHANGED vars \/ \E x \in Programas : Mata(x)
  BY <1>1, CuentaIgual DEF vars, Mata, Minan, Rechazados
<1>2. ASSUME NEW m \in Monitores, Monitor(m) \/ ComprobadorSigint(m) \/ HijoTermina(m)
      PROVE  Cuenta'
  <2>1. \A n \in Mineros : pc'[n] = pc[n]
    BY <1>2, Distintos
    DEF Tipo, TypeOK, Monitor, MonitorShm, MonitorSem, MonitorUnlink, MonitorFork, ComprobadorMq,
        ComprobadorFin, ComprobadorWait, ComprobadorSigint, HijoTermina, Crea, Existe, Desenlaza,
        Sigue, Va
  <2>2. nombre'["SHM_MINERO"] = nombre["SHM_MINERO"]
    BY <1>2
    DEF Tipo, TypeOK, Nombres, Monitor, MonitorShm, MonitorSem, MonitorUnlink, MonitorFork,
        ComprobadorMq, ComprobadorFin, ComprobadorWait, ComprobadorSigint, HijoTermina, Crea,
        Existe, Desenlaza, Sigue
  <2>. QED
    BY <2>1, <2>2, CuentaIgual DEF Minan, Rechazados
<1>. QED
  BY <1>1, <1>2

(* A miner is joined by another only at the price of one turned away.       *)
THEOREM PrimerMineroSeguro == Spec => []PrimerMinero
<1>1. Tipo /\ Cuenta /\ [Next]_vars => Cuenta'
  BY CuentaMinero, CuentaResto DEF Next
<1>2. Cuenta => PrimerMinero
  <2>. SUFFICES ASSUME Cuenta PROVE PrimerMinero
    OBVIOUS
  <2>1. Primeros \subseteq Minan /\ IsFiniteSet(Minan)
    BY Finitos DEF Primeros, Minan
  <2>2. Cardinality(Primeros) <= Cardinality(Minan) /\ Cardinality(Primeros) \in Nat
    BY <2>1, FS_Subset, FS_CardinalityType
  <2>. QED
    BY <2>2, Numeros DEF Cuenta, PrimerMinero
<1>. QED
  BY <1>1, <1>2, TipoInicial, TipoPaso, CuentaInicial, PTL DEF Spec
=============================================================================
