------------------------------ MODULE P3Proofs ------------------------------
(***************************************************************************)
(* Proofs about module P3, for any number of launches of both programs,    *)
(* ring, queue and hash, whatever fails and whoever is killed.             *)
(***************************************************************************)
EXTENDS P3, FiniteSetTheorems, SequenceTheorems, WellFoundedInduction, TLAPS

Antes == {"shm_open", "abrir", "ftruncate", "sem_init"}
PcComprobador == {"ftruncate", "sem_init", "mq_open", "mq_unlink", "mq_receive", "empty", "mutex",
                  "anadir", "rear", "post_mutex", "post_fill", "exit", "fallo"}
PcMonitor == {"shm_unlink", "mmap", "fill", "mutex", "extraer", "front", "post_mutex",
              "post_empty", "imprimir", "exit", "fallo", "sigbus"}
SinCola == {"ftruncate", "sem_init", "mq_open", "fallo"}

(* Where a program may be in each role, and whose memory it has mapped: a   *)
(* comprobador its own, a monitor that of a comprobador.                    *)
Papel(x) ==
  \/ x.rol = "" /\ x.pc \in {"shm_open", "abrir", "fallo"} /\ x.mem = Nadie
  \/ x.rol = "comprobador" /\ x.pc \in PcComprobador /\ (x.pc \in SinCola \/ x.queue \in Mineros)
  \/ x.rol = "monitor" /\ x.pc \in PcMonitor

Papeles ==
  /\ \A p \in Monitores : Papel(proc[p])
  /\ \A p \in Monitores : proc[p].rol = "comprobador" => proc[p].mem = p
  /\ \A p \in Monitores : proc[p].rol = "monitor" =>
       proc[p].mem \in Monitores /\ proc[proc[p].mem].rol = "comprobador"
  /\ SHM_NAME # Nadie => proc[SHM_NAME].rol = "comprobador"
  /\ \A n \in Mineros : min[n].pc \in {"args", "enviar", "fin"} => min[n].queue \in Mineros

Tipo == TypeOK /\ Papeles

-----------------------------------------------------------------------------
(* Types.                                                                   *)

LEMMA HashTipo == \A d \in Dato : Resuelto(d) \in BOOLEAN
  BY DEF Resuelto

LEMMA BloqueTipo == /\ Ceros \in Dato /\ DatoFin \in Dato
                    /\ \A d \in Dato : Comprueba(d) \in Dato
<1>1. Ceros \in Dato /\ DatoFin \in Dato
  BY DEF Ceros, DatoFin, Dato
<1>2. \A d \in Dato : Comprueba(d) \in Dato
  BY HashTipo DEF Comprueba, Dato
<1>. QED
  BY <1>1, <1>2

LEMMA RanurasTipo == /\ 0 \in Ranuras /\ \A r \in Ranuras : (r + 1) % BUFFER_SIZE \in Ranuras
  BY P3Assumption DEF Ranuras

LEMMA MemoriaTipo == MemoriaNueva \in Memoria
  BY BloqueTipo, RanurasTipo DEF MemoriaNueva, Memoria, Semaforos

(* A set of numbers that is not empty has a smallest.                       *)
LEMMA Menor == ASSUME NEW S \in SUBSET Nat, S # {} PROVE \E x \in S : \A y \in S : x <= y
<1>1. PICK x \in S : \A y \in S : ~(<<y, x>> \in OpToRel(<, Nat))
  BY NatLessThanWellFounded, WFMin
<1>2. \A y \in S : ~(y < x)
  BY <1>1 DEF OpToRel
<1>. QED
  BY <1>2

LEMMA SolucionTipo == \A t : target_search(t) \in Int
<1>. SUFFICES ASSUME NEW t PROVE target_search(t) \in Int
  OBVIOUS
<1>. DEFINE buenos == {x \in 0 .. POW_LIMIT : pow_hash(x) = t}
<1>1. CASE buenos = {}
  BY <1>1 DEF target_search
<1>2. CASE buenos # {}
  <2>1. buenos \in SUBSET Nat
    BY PowAssumption
  <2>2. \E x \in buenos : \A y \in buenos : x <= y
    BY <1>2, <2>1, Menor
  <2>. QED
    BY <1>2, <2>1, <2>2 DEF target_search
<1>. QED
  BY <1>1, <1>2

LEMMA TipoInicial == Init => Tipo
<1>. SUFFICES ASSUME Init PROVE Tipo
  OBVIOUS
<1>1. proc \in [Monitores -> Proceso]
  BY BloqueTipo DEF Init, Proceso, Objetos, EstadosP
<1>2. min \in [Mineros -> ProcesoMinero]
  <2>1. \A c \in Ciclos : [pc |-> "mq_open", queue |-> Nadie, n_cycles |-> c, i |-> 0, target |-> 0]
                           \in ProcesoMinero
    BY P3Assumption DEF ProcesoMinero, Objetos, EstadosN
  <2>. QED
    BY <2>1 DEF Init
<1>3. <<>> \in Seq(Dato) /\ <<>> \in Seq(Monitores)
  OBVIOUS
<1>4. cola \in [Mineros -> Seq(Dato)] /\ SHM_NAME \in Objetos(Monitores) /\ MQ_NAME \in Objetos(Mineros)
  BY <1>3 DEF Init, Objetos
<1>5. memoria \in [Monitores -> Memoria]
  BY MemoriaTipo DEF Init
<1>6. /\ puestos \in [Monitores -> Seq(Dato)] /\ turnos \in [Monitores -> Seq(Monitores)]
      /\ impresos \in [Monitores -> Seq(Dato)]
  BY <1>3 DEF Init
<1>7. ASSUME NEW n \in Mineros PROVE min[n].pc = "mq_open"
  <2>1. min[n] \in {[pc |-> "mq_open", queue |-> Nadie, n_cycles |-> c, i |-> 0, target |-> 0]
                    : c \in Ciclos}
    BY DEF Init
  <2>. QED
    BY <2>1
<1>8. \A p \in Monitores : proc[p].rol = "" /\ proc[p].pc = "shm_open" /\ proc[p].mem = Nadie
  BY DEF Init
<1>9. SHM_NAME = Nadie
  BY DEF Init
<1>10. Papeles
  BY <1>7, <1>8, <1>9 DEF Papeles, Papel
<1>. QED
  BY <1>1, <1>2, <1>4, <1>5, <1>6, <1>10 DEF Init, Tipo, TypeOK

(* What a step from one pc to another does to the records.                  *)
LEMMA PasaTipo ==
  ASSUME Tipo, NEW p \in Monitores, NEW de, NEW a \in EstadosP, Pasa(p, de, a)
  PROVE  /\ proc' \in [Monitores -> Proceso]
         /\ proc[p].pc = de /\ proc'[p].pc = a /\ p \notin muertos
         /\ \A x \in Monitores : /\ proc'[x].rol = proc[x].rol /\ proc'[x].mem = proc[x].mem
                                 /\ proc'[x].queue = proc[x].queue /\ proc'[x].dato = proc[x].dato
         /\ \A x \in Monitores \ {p} : proc'[x] = proc[x]
<1>. DEFINE b == [proc[p] EXCEPT !.pc = a]
<1>1. proc \in [Monitores -> Proceso] /\ proc[p] \in Proceso
  BY DEF Tipo, TypeOK
<1>2. /\ b \in Proceso /\ b.pc = a /\ b.rol = proc[p].rol /\ b.mem = proc[p].mem
      /\ b.queue = proc[p].queue /\ b.dato = proc[p].dato
  BY <1>1 DEF Proceso
<1>3. proc[p].pc = de /\ p \notin muertos /\ proc' = [proc EXCEPT ![p] = b]
  BY DEF Pasa, Despierto
<1>4. proc'[p] = b /\ \A x \in Monitores \ {p} : proc'[x] = proc[x]
  BY <1>1, <1>3
<1>5. proc' \in [Monitores -> Proceso]
  BY <1>1, <1>2, <1>3
<1>. QED
  BY <1>2, <1>3, <1>4, <1>5

LEMMA PasaPapel ==
  ASSUME Tipo, NEW p \in Monitores, NEW de, NEW a \in EstadosP, Pasa(p, de, a),
         SHM_NAME' \in {SHM_NAME, Nadie}, min' = min,
         proc[p].rol = "" => a \in {"abrir", "fallo"},
         proc[p].rol = "comprobador" =>
           a \in PcComprobador /\ (a \in SinCola \/ de \notin SinCola),
         proc[p].rol = "monitor" => a \in PcMonitor
  PROVE  Papeles'
<1>1. /\ proc[p].pc = de /\ proc'[p].pc = a
      /\ \A x \in Monitores : /\ proc'[x].rol = proc[x].rol /\ proc'[x].mem = proc[x].mem
                              /\ proc'[x].queue = proc[x].queue
      /\ \A x \in Monitores \ {p} : proc'[x] = proc[x]
  BY PasaTipo
<1>2. Papel(proc'[p])
  BY <1>1 DEF Tipo, Papeles, Papel
<1>3. SHM_NAME' # Nadie => proc'[SHM_NAME'].rol = "comprobador"
  BY <1>1 DEF Tipo, TypeOK, Papeles, Objetos
<1>4. \A x \in Monitores : Papel(proc'[x])
  BY <1>1, <1>2 DEF Tipo, Papeles
<1>5. \A x \in Monitores : proc[x].rol = "comprobador" <=> proc'[x].rol = "comprobador"
  BY <1>1
<1>6. ASSUME NEW x \in Monitores, proc'[x].rol = "comprobador" PROVE proc'[x].mem = x
  <2>1. proc[x].rol = "comprobador" => proc[x].mem = x
    BY DEF Tipo, Papeles
  <2>. QED
    BY <1>1, <1>6, <2>1
<1>7. ASSUME NEW x \in Monitores, proc'[x].rol = "monitor"
      PROVE  proc'[x].mem \in Monitores /\ proc'[proc'[x].mem].rol = "comprobador"
  <2>1. proc[x].rol = "monitor" /\ proc'[x].mem = proc[x].mem
    BY <1>1, <1>7
  <2>2. proc[x].mem \in Monitores /\ proc[proc[x].mem].rol = "comprobador"
    BY <2>1 DEF Tipo, Papeles
  <2>. QED
    BY <1>5, <2>1, <2>2
<1>8. \A n \in Mineros : min'[n].pc \in {"args", "enviar", "fin"} => min'[n].queue \in Mineros
  BY DEF Tipo, Papeles
<1>. QED
  BY <1>3, <1>4, <1>6, <1>7, <1>8 DEF Papeles

(* The other actions on proc.                                               *)
LEMMA CambiaTipo ==
  ASSUME Tipo, NEW p \in Monitores, NEW x \in Proceso, proc' = [proc EXCEPT ![p] = x]
  PROVE  /\ proc' \in [Monitores -> Proceso] /\ proc'[p] = x
         /\ \A y \in Monitores \ {p} : proc'[y] = proc[y]
  BY DEF Tipo, TypeOK

LEMMA MemoriaDe ==
  ASSUME Tipo, NEW m \in Monitores
  PROVE  /\ memoria[m] \in Memoria
         /\ memoria[m].front \in Ranuras /\ memoria[m].rear \in Ranuras
         /\ memoria[m].bloque \in [Ranuras -> Dato] /\ memoria[m].sem \in [Semaforos -> Nat]
         /\ puestos[m] \in Seq(Dato) /\ turnos[m] \in Seq(Monitores)
  BY DEF Tipo, TypeOK, Memoria

(* One semaphore of a memory gets another value.                            *)
LEMMA SemRegistro ==
  ASSUME NEW b \in Memoria, NEW s \in Semaforos, NEW v \in Nat
  PROVE  /\ [b EXCEPT !.sem[s] = v] \in Memoria
         /\ [b EXCEPT !.sem[s] = v].sem[s] = v
         /\ \A t \in Semaforos \ {s} : [b EXCEPT !.sem[s] = v].sem[t] = b.sem[t]
<1>1. b.sem \in [Semaforos -> Nat]
  BY DEF Memoria
<1>2. [b.sem EXCEPT ![s] = v] \in [Semaforos -> Nat]
  BY <1>1
<1>. QED
  BY <1>1, <1>2 DEF Memoria

LEMMA UnaMemoria ==
  ASSUME Tipo, NEW m \in Monitores, NEW b \in Memoria, memoria' = [memoria EXCEPT ![m] = b]
  PROVE  /\ memoria' \in [Monitores -> Memoria] /\ memoria'[m] = b
         /\ \A x \in Monitores \ {m} : memoria'[x] = memoria[x]
  BY DEF Tipo, TypeOK

(* What a sem_wait does to the semaphores.                                  *)
LEMMA SemWaitSem ==
  ASSUME Tipo, NEW p \in Monitores, NEW s \in Semaforos, NEW a, SemWait(p, s, a),
         NEW m \in Monitores, m = proc[p].mem
  PROVE  /\ memoria' \in [Monitores -> Memoria]
         /\ memoria'[m].sem[s] = memoria[m].sem[s] - 1 /\ memoria[m].sem[s] > 0
         /\ \A t \in Semaforos \ {s} : memoria'[m].sem[t] = memoria[m].sem[t]
         /\ \A x \in Monitores \ {m} : memoria'[x] = memoria[x]
<1>0. memoria[m] \in Memoria /\ memoria[m].sem[s] \in Nat /\ memoria[m].sem[s] > 0
  BY MemoriaDe DEF SemWait
<1>1. PICK v \in Nat : v = memoria[m].sem[s] - 1
  BY <1>0
<1>2. PICK b \in Memoria : b = [memoria[m] EXCEPT !.sem[s] = v]
  BY <1>0, SemRegistro
<1>3. b.sem[s] = v /\ \A t \in Semaforos \ {s} : b.sem[t] = memoria[m].sem[t]
  BY <1>0, <1>2, SemRegistro
<1>4. memoria' = [memoria EXCEPT ![m] = b]
  BY <1>1, <1>2 DEF SemWait
<1>5. /\ memoria' \in [Monitores -> Memoria] /\ memoria'[m] = b
      /\ \A x \in Monitores \ {m} : memoria'[x] = memoria[x]
  BY <1>4, UnaMemoria
<1>. QED
  BY <1>0, <1>1, <1>3, <1>5

(* Only a program with a role has come this far.                            *)
LEMMA ConPapel ==
  ASSUME Tipo, NEW p \in Monitores, proc[p].pc \notin {"shm_open", "abrir", "fallo"}
  PROVE  /\ proc[p].mem \in Monitores /\ proc[proc[p].mem].rol = "comprobador"
         /\ \/ /\ proc[p].rol = "comprobador" /\ proc[p].mem = p /\ proc[p].pc \in PcComprobador
               /\ proc[p].pc \in SinCola \/ proc[p].queue \in Mineros
            \/ proc[p].rol = "monitor" /\ proc[p].pc \in PcMonitor
<1>1. Papel(proc[p])
  BY DEF Tipo, Papeles
<1>2. proc[p].rol \in {"comprobador", "monitor"}
  BY <1>1 DEF Papel
<1>. QED
  BY <1>1, <1>2 DEF Tipo, Papeles, Papel

LEMMA SemWaitTipo ==
  ASSUME Tipo, NEW p \in Monitores, NEW s \in Semaforos, NEW a \in {"mutex", "anadir", "extraer"},
         SemWait(p, s, a),
         EsComprobador(p) => a \in PcComprobador \ SinCola,
         ~EsComprobador(p) => a \in PcMonitor
  PROVE  Tipo'
<1>1. /\ Pasa(p, s, a) /\ a \in EstadosP /\ proc[p].pc = s
      /\ UNCHANGED <<nombres, cola, min, dormidos, muertos, historia>>
  BY DEF SemWait, Pasa, Despierto, EstadosP
<1>2. s \notin {"shm_open", "abrir", "fallo"} /\ s \notin SinCola
  BY DEF Semaforos, SinCola
<1>3. proc[p].mem \in Monitores /\ proc[p].rol \in {"comprobador", "monitor"}
  BY <1>1, <1>2, ConPapel
<1>5. memoria' \in [Monitores -> Memoria]
  BY <1>3, SemWaitSem
<1>6. proc' \in [Monitores -> Proceso]
  BY <1>1, PasaTipo
<1>7. TypeOK'
  BY <1>1, <1>5, <1>6 DEF Tipo, TypeOK, nombres, historia
<1>8. Papeles'
  BY <1>1, <1>2, <1>3, PasaPapel DEF nombres, EsComprobador
<1>. QED
  BY <1>7, <1>8 DEF Tipo

LEMMA DuermeTipo ==
  ASSUME Tipo, NEW p \in Monitores, NEW s, Duerme(p, s)
  PROVE  Tipo'
  BY DEF Duerme, Tipo, TypeOK, Papeles, nombres, historia

(* Ftruncate, SemInit, Anadir, Rear, Front: one memory and the next pc.     *)
LEMMA MemoriaPasaTipo ==
  ASSUME Tipo, NEW p \in Monitores, NEW de, NEW a \in EstadosP, Pasa(p, de, a),
         NEW b \in Memoria, proc[p].mem \in Monitores,
         memoria' = [memoria EXCEPT ![proc[p].mem] = b],
         UNCHANGED <<nombres, cola, min, dormidos, muertos>>,
         puestos' \in [Monitores -> Seq(Dato)], turnos' \in [Monitores -> Seq(Monitores)],
         impresos' \in [Monitores -> Seq(Dato)]
  PROVE  TypeOK'
<1>1. proc' \in [Monitores -> Proceso]
  BY PasaTipo
<1>2. memoria' \in [Monitores -> Memoria]
  BY DEF Tipo, TypeOK
<1>. QED
  BY <1>1, <1>2 DEF Tipo, TypeOK, nombres

(* A step that changes nothing but the pc and, perhaps, who sleeps.         *)
LEMMA PasaSoloTipo ==
  ASSUME Tipo, NEW p \in Monitores, NEW de, NEW a \in EstadosP, Pasa(p, de, a),
         SHM_NAME' \in Objetos(Monitores), MQ_NAME' \in Objetos(Mineros),
         UNCHANGED <<cola, min, muertos, puestos, turnos>>, dormidos' \subseteq Monitores,
         memoria' \in [Monitores -> Memoria], impresos' \in [Monitores -> Seq(Dato)]
  PROVE  TypeOK'
<1>1. proc' \in [Monitores -> Proceso]
  BY PasaTipo
<1>. QED
  BY <1>1 DEF Tipo, TypeOK

(* A program without a role gets one, or fails.                             *)
LEMMA PapelNuevo ==
  ASSUME Tipo, NEW p \in Monitores, proc[p].rol = "", min' = min,
         \A y \in Monitores \ {p} : proc'[y] = proc[y],
         Papel(proc'[p]), proc'[p].rol = "comprobador" => proc'[p].mem = p,
         proc'[p].rol = "monitor" =>
           proc'[p].mem \in Monitores /\ proc[proc'[p].mem].rol = "comprobador",
         SHM_NAME' # Nadie => SHM_NAME' \in Monitores /\ proc'[SHM_NAME'].rol = "comprobador"
  PROVE  Papeles'
<1>1. ASSUME NEW y \in Monitores, proc[y].rol = "comprobador" PROVE proc'[y].rol = "comprobador"
  BY <1>1
<1>2. ASSUME NEW y \in Monitores PROVE Papel(proc'[y])
  <2>1. Papel(proc[y])
    BY DEF Tipo, Papeles
  <2>. QED
    BY <2>1
<1>3. ASSUME NEW y \in Monitores, proc'[y].rol = "comprobador" PROVE proc'[y].mem = y
  <2>1. proc[y].rol = "comprobador" => proc[y].mem = y
    BY DEF Tipo, Papeles
  <2>. QED
    BY <1>3, <2>1
<1>4. ASSUME NEW y \in Monitores, proc'[y].rol = "monitor"
      PROVE  proc'[y].mem \in Monitores /\ proc'[proc'[y].mem].rol = "comprobador"
  <2>1. proc'[y].mem \in Monitores /\ proc[proc'[y].mem].rol = "comprobador"
    <3>1. CASE y = p
      BY <1>4, <3>1
    <3>2. CASE y # p
      <4>1. proc'[y] = proc[y]
        BY <3>2
      <4>2. proc[y].rol = "monitor"
        BY <1>4, <4>1
      <4>. QED
        BY <4>1, <4>2 DEF Tipo, Papeles
    <3>. QED
      BY <3>1, <3>2
  <2>. QED
    BY <1>1, <2>1
<1>. QED
  BY <1>2, <1>3, <1>4 DEF Tipo, Papeles

LEMMA ShmCreaTipo ==
  ASSUME Tipo, NEW p \in Monitores, ShmCrea(p)
  PROVE  Tipo' /\ proc[p].rol = ""
<1>. DEFINE x == [proc[p] EXCEPT !.pc = "ftruncate", !.rol = "comprobador", !.mem = p]
<1>1. proc[p] \in Proceso /\ proc[p].pc = "shm_open" /\ Papel(proc[p])
  BY DEF Tipo, TypeOK, Papeles, ShmCrea, Despierto
<1>2. proc[p].rol = ""
  BY <1>1 DEF Papel, PcComprobador, PcMonitor
<1>3. x \in Proceso /\ x.pc = "ftruncate" /\ x.rol = "comprobador" /\ x.mem = p
  BY <1>1 DEF Proceso, EstadosP, Objetos
<1>4. proc' = [proc EXCEPT ![p] = x]
  BY <1>1 DEF ShmCrea, Tipo, TypeOK
<1>5. /\ proc' \in [Monitores -> Proceso] /\ proc'[p] = x
      /\ \A y \in Monitores \ {p} : proc'[y] = proc[y]
  BY <1>3, <1>4, CambiaTipo
<1>6. TypeOK'
  BY <1>5 DEF Tipo, TypeOK, ShmCrea, historia, Objetos
<1>7. Papel(proc'[p])
  BY <1>3, <1>5 DEF Papel, PcComprobador, SinCola
<1>8. SHM_NAME' = p /\ min' = min
  BY DEF ShmCrea
<1>9. Papeles'
  BY <1>2, <1>3, <1>5, <1>7, <1>8, PapelNuevo
<1>. QED
  BY <1>2, <1>6, <1>9 DEF Tipo

LEMMA ShmExisteTipo ==
  ASSUME Tipo, NEW p \in Monitores, ShmExiste(p)
  PROVE  Tipo'
<1>1. Pasa(p, "shm_open", "abrir") /\ "abrir" \in EstadosP
      /\ UNCHANGED <<SHM_NAME, MQ_NAME, memoria, cola, min, dormidos, muertos, puestos, turnos, impresos>>
  BY DEF ShmExiste, EstadosP, nombres, historia
<1>2. TypeOK'
  BY <1>1, PasaSoloTipo DEF Tipo, TypeOK
<1>3. proc[p].rol = ""
  BY <1>1 DEF Pasa, Despierto, Tipo, Papeles, Papel, PcComprobador, PcMonitor
<1>4. Papeles'
  BY <1>1, <1>3, PasaPapel
<1>. QED
  BY <1>2, <1>4 DEF Tipo

LEMMA ShmAbreTipo ==
  ASSUME Tipo, NEW p \in Monitores, ShmAbre(p)
  PROVE  /\ Tipo' /\ proc[p].rol = "" /\ proc[p].mem = Nadie
         /\ \A y \in Monitores \ {p} : proc'[y] = proc[y]
         /\ \/ proc'[p].pc = "fallo" /\ proc'[p].rol = "" /\ proc'[p].mem = Nadie
            \/ proc'[p].pc = "shm_unlink" /\ proc'[p].rol = "monitor"
               /\ proc'[p].mem \in Monitores /\ proc[proc'[p].mem].rol = "comprobador"
<1>. DEFINE x == IF SHM_NAME = Nadie THEN [proc[p] EXCEPT !.pc = "fallo"]
                 ELSE [proc[p] EXCEPT !.pc = "shm_unlink", !.rol = "monitor", !.mem = SHM_NAME]
<1>1. proc[p] \in Proceso /\ proc[p].pc = "abrir" /\ Papel(proc[p])
  BY DEF Tipo, TypeOK, Papeles, ShmAbre, Despierto
<1>2. proc[p].rol = "" /\ proc[p].mem = Nadie
  BY <1>1 DEF Papel, PcComprobador, PcMonitor
<1>3. x \in Proceso
  BY <1>1 DEF Proceso, EstadosP, Tipo, TypeOK
<1>4. /\ proc' \in [Monitores -> Proceso] /\ proc'[p] = x
      /\ \A y \in Monitores \ {p} : proc'[y] = proc[y]
  BY <1>3, CambiaTipo DEF ShmAbre, Tipo, TypeOK
<1>5. TypeOK'
  BY <1>4 DEF Tipo, TypeOK, ShmAbre, nombres, historia
<1>6. UNCHANGED <<SHM_NAME, min>>
  BY DEF ShmAbre, nombres
<1>7. CASE SHM_NAME = Nadie
  <2>1. x.pc = "fallo" /\ x.rol = "" /\ x.mem = Nadie
    BY <1>1, <1>2, <1>7 DEF Proceso
  <2>2. Papeles'
    BY <1>2, <1>4, <1>6, <1>7, <2>1, PapelNuevo DEF Papel
  <2>. QED
    BY <1>2, <1>4, <1>5, <2>1, <2>2 DEF Tipo
<1>8. CASE SHM_NAME # Nadie
  <2>1. x.pc = "shm_unlink" /\ x.rol = "monitor" /\ x.mem = SHM_NAME
    BY <1>1, <1>8 DEF Proceso
  <2>2. SHM_NAME \in Monitores /\ proc[SHM_NAME].rol = "comprobador" /\ SHM_NAME # p
    BY <1>2, <1>8 DEF Tipo, TypeOK, Papeles, Objetos
  <2>3. Papel(proc'[p])
    BY <1>4, <2>1 DEF Papel, PcMonitor
  <2>4. /\ proc'[p].rol = "monitor" /\ proc'[p].mem = SHM_NAME
        /\ SHM_NAME' = SHM_NAME /\ proc'[SHM_NAME] = proc[SHM_NAME] /\ min' = min
    BY <1>4, <1>6, <2>1, <2>2
  <2>5. Papeles'
    BY <1>2, <1>4, <2>2, <2>3, <2>4, PapelNuevo
  <2>. QED
    BY <1>2, <1>4, <1>5, <2>1, <2>2, <2>5 DEF Tipo
<1>. QED
  BY <1>7, <1>8

(* The steps of a program with a role that touch no memory.                 *)
LEMMA SencillosTipo ==
  ASSUME Tipo, NEW p \in Monitores,
         ShmUnlink(p) \/ Falla(p) \/ MqUnlink(p) \/ Mmap(p) \/ Sigbus(p) \/ Imprimir(p)
  PROVE  Tipo'
<1>. DEFINE de == proc[p].pc
            a == proc'[p].pc
<1>1. /\ Pasa(p, de, a)
      /\ <<de, a>> \in {<<"shm_unlink", "mmap">>, <<"ftruncate", "fallo">>, <<"sem_init", "fallo">>,
                        <<"mmap", "fallo">>, <<"mq_unlink", "mq_receive">>, <<"mmap", "fill">>,
                        <<"fill", "sigbus">>, <<"imprimir", "fill">>}
  <2>1. ASSUME NEW d, NEW e, Pasa(p, d, e) PROVE d = de /\ e = a
    BY <2>1 DEF Pasa, Despierto, Tipo, TypeOK, Proceso
  <2>. QED
    BY <2>1 DEF ShmUnlink, Falla, FtruncateFalla, C_MmapFalla, M_MmapFalla,
         MqUnlink, Mmap, Sigbus, Imprimir
<1>2. a \in EstadosP /\ de \notin {"shm_open", "abrir", "fallo"}
  BY <1>1 DEF EstadosP
<1>3. /\ UNCHANGED <<memoria, cola, min, dormidos, muertos, puestos, turnos>>
      /\ SHM_NAME' \in {SHM_NAME, Nadie} /\ MQ_NAME' \in {MQ_NAME, Nadie}
  BY DEF ShmUnlink, Falla, FtruncateFalla, C_MmapFalla, M_MmapFalla,
         MqUnlink, Mmap, Sigbus, Imprimir, nombres, historia
<1>4. impresos' \in [Monitores -> Seq(Dato)]
  <2>1. CASE Imprimir(p)
    <3>1. proc[p].dato \in Dato /\ impresos[p] \in Seq(Dato)
      BY DEF Tipo, TypeOK, Proceso
    <3>2. Append(impresos[p], proc[p].dato) \in Seq(Dato)
      BY <3>1
    <3>. QED
      BY <2>1, <3>2 DEF Imprimir, Tipo, TypeOK
  <2>2. CASE ~Imprimir(p)
    BY <2>2 DEF ShmUnlink, Falla, FtruncateFalla, C_MmapFalla, M_MmapFalla,
         MqUnlink, Mmap, Sigbus, historia, Tipo, TypeOK
  <2>. QED
    BY <2>1, <2>2
<1>5. TypeOK'
  BY <1>1, <1>2, <1>3, <1>4, PasaSoloTipo DEF Tipo, TypeOK, Objetos
<1>6. \/ proc[p].rol = "comprobador" /\ de \in PcComprobador
      \/ proc[p].rol = "monitor" /\ de \in PcMonitor
  BY <1>2, ConPapel
<1>7. Papeles'
  <2>1. CASE proc[p].rol = "comprobador" /\ de \in PcComprobador
    <3>1. a \in PcComprobador /\ (a \in SinCola \/ de \notin SinCola)
      BY <1>1, <2>1 DEF PcComprobador, SinCola
    <3>. QED
      BY <1>1, <1>2, <1>3, <2>1, <3>1, PasaPapel
  <2>2. CASE proc[p].rol = "monitor" /\ de \in PcMonitor
    <3>1. a \in PcMonitor
      BY <1>1, <2>2 DEF PcMonitor
    <3>. QED
      BY <1>1, <1>2, <1>3, <2>2, <3>1, PasaPapel
  <2>. QED
    BY <1>6, <2>1, <2>2
<1>. QED
  BY <1>5, <1>7 DEF Tipo

(* A program that keeps its role and its memory.                            *)
LEMMA MismoPapel ==
  ASSUME Tipo, NEW p \in Monitores, SHM_NAME' \in {SHM_NAME, Nadie}, min' = min,
         \A y \in Monitores \ {p} : proc'[y] = proc[y],
         Papel(proc'[p]), proc'[p].rol = proc[p].rol, proc'[p].mem = proc[p].mem
  PROVE  Papeles'
<1>1. \A y \in Monitores : proc'[y].rol = proc[y].rol /\ proc'[y].mem = proc[y].mem
  OBVIOUS
<1>2. \A y \in Monitores : Papel(proc'[y])
  BY DEF Tipo, Papeles
<1>3. SHM_NAME' # Nadie => proc'[SHM_NAME'].rol = "comprobador"
  BY <1>1 DEF Tipo, TypeOK, Papeles, Objetos
<1>. QED
  BY <1>1, <1>2, <1>3 DEF Tipo, Papeles

(* A comprobador on its way to the next step.                               *)
LEMMA ComprobadorPapel ==
  ASSUME Tipo, NEW p \in Monitores, NEW de, NEW a, Pasa(p, de, a),
         <<de, a>> \in {<<"ftruncate", "sem_init">>, <<"sem_init", "mq_open">>, <<"anadir", "rear">>,
                        <<"rear", "post_mutex">>, <<"post_fill", "exit">>, <<"post_fill", "mq_receive">>},
         SHM_NAME' = SHM_NAME, min' = min
  PROVE  /\ Papeles' /\ a \in EstadosP /\ proc[p].pc = de
         /\ proc[p].rol = "comprobador" /\ proc[p].mem = p
<1>1. a \in EstadosP /\ proc[p].pc = de /\ de \notin {"shm_open", "abrir", "fallo"} /\ de \notin PcMonitor
  BY DEF EstadosP, Pasa, Despierto, PcMonitor
<1>2. proc[p].rol = "comprobador" /\ proc[p].mem = p
  BY <1>1, ConPapel
<1>3. a \in PcComprobador /\ (a \in SinCola \/ de \notin SinCola)
  BY DEF PcComprobador, SinCola
<1>4. Papeles'
  BY <1>1, <1>2, <1>3, PasaPapel
<1>. QED
  BY <1>1, <1>2, <1>4

LEMMA FtruncateTipo ==
  ASSUME Tipo, NEW p \in Monitores, Ftruncate(p)
  PROVE  Tipo'
<1>1. /\ Pasa(p, "ftruncate", "sem_init")
      /\ UNCHANGED <<SHM_NAME, MQ_NAME, cola, min, dormidos, muertos, puestos, turnos, impresos>>
  BY DEF Ftruncate, nombres, historia
<1>2. Papeles' /\ "sem_init" \in EstadosP
  BY <1>1, ComprobadorPapel
<1>3. memoria' \in [Monitores -> Memoria]
  BY DEF Ftruncate, Tipo, TypeOK, Memoria
<1>4. TypeOK'
  BY <1>1, <1>2, <1>3, PasaSoloTipo DEF Tipo, TypeOK
<1>. QED
  BY <1>2, <1>4 DEF Tipo

LEMMA SemInitTipo ==
  ASSUME Tipo, NEW p \in Monitores, SemInit(p)
  PROVE  /\ Tipo'
         /\ memoria'[p].sem["empty"] = BUFFER_SIZE /\ memoria'[p].sem["mutex"] = 1
         /\ memoria'[p].sem["fill"] = 0 /\ memoria'[p].front = 0 /\ memoria'[p].rear = 0
         /\ \A m \in Monitores \ {p} : memoria'[m] = memoria[m]
<1>. DEFINE nueva == [memoria[p] EXCEPT !.front = 0, !.rear = 0,
                        !.sem = [fill |-> 0, empty |-> BUFFER_SIZE, mutex |-> 1]]
<1>1. /\ Pasa(p, "sem_init", "mq_open")
      /\ UNCHANGED <<SHM_NAME, MQ_NAME, cola, min, dormidos, muertos, puestos, turnos, impresos>>
      /\ memoria' = [memoria EXCEPT ![p] = nueva]
  BY DEF SemInit, nombres, historia
<1>2. Papeles' /\ "mq_open" \in EstadosP
  BY <1>1, ComprobadorPapel
<1>3. [fill |-> 0, empty |-> BUFFER_SIZE, mutex |-> 1] \in [Semaforos -> Nat]
  BY P3Assumption DEF Semaforos
<1>4. /\ nueva \in Memoria /\ nueva.front = 0 /\ nueva.rear = 0
      /\ nueva.sem = [fill |-> 0, empty |-> BUFFER_SIZE, mutex |-> 1]
  BY <1>3, MemoriaDe, RanurasTipo DEF Memoria
<1>5. memoria' \in [Monitores -> Memoria] /\ memoria'[p] = nueva
  BY <1>1, <1>4 DEF Tipo, TypeOK
<1>6. TypeOK'
  BY <1>1, <1>2, <1>5, PasaSoloTipo DEF Tipo, TypeOK
<1>7. \A m \in Monitores \ {p} : memoria'[m] = memoria[m]
  BY <1>1 DEF Tipo, TypeOK
<1>. QED
  BY <1>2, <1>4, <1>5, <1>6, <1>7 DEF Tipo

LEMMA MqAbreTipo ==
  ASSUME Tipo, NEW p \in Monitores, MqAbre(p)
  PROVE  /\ Tipo' /\ proc[p].rol = "comprobador" /\ proc'[p].rol = "comprobador"
         /\ proc[p].mem = p /\ proc'[p].mem = p
         /\ proc[p].pc = "mq_open" /\ proc'[p].pc \in {"fallo", "mq_unlink"}
         /\ \A y \in Monitores \ {p} : proc'[y] = proc[y]
<1>. DEFINE x == IF MQ_NAME = Nadie THEN [proc[p] EXCEPT !.pc = "fallo"]
                 ELSE [proc[p] EXCEPT !.pc = "mq_unlink", !.queue = MQ_NAME]
<1>1. proc[p] \in Proceso /\ proc[p].pc = "mq_open"
  BY DEF Tipo, TypeOK, Papeles, MqAbre, Despierto
<1>2. proc[p].rol = "comprobador" /\ proc[p].mem = p
  BY <1>1, ConPapel DEF PcMonitor
<1>3. x \in Proceso
  BY <1>1 DEF Proceso, EstadosP, Tipo, TypeOK
<1>4. /\ proc' \in [Monitores -> Proceso] /\ proc'[p] = x
      /\ \A y \in Monitores \ {p} : proc'[y] = proc[y]
  BY <1>3, CambiaTipo DEF MqAbre, Tipo, TypeOK
<1>5. TypeOK'
  BY <1>4 DEF Tipo, TypeOK, MqAbre, nombres, historia
<1>6. /\ x.rol = "comprobador" /\ x.mem = p
      /\ x.pc = "fallo" \/ (x.pc = "mq_unlink" /\ x.queue \in Mineros)
  BY <1>1, <1>2 DEF Proceso, Tipo, TypeOK, Objetos
<1>7. Papel(x)
  BY <1>6 DEF Papel, PcComprobador, SinCola
<1>8. UNCHANGED <<SHM_NAME, min>>
  BY DEF MqAbre, nombres
<1>9. Papeles'
  BY <1>2, <1>4, <1>6, <1>7, <1>8, MismoPapel
<1>. QED
  BY <1>1, <1>2, <1>4, <1>5, <1>6, <1>9 DEF Tipo

LEMMA MqReceiveTipo ==
  ASSUME Tipo, NEW p \in Monitores, MqReceive(p)
  PROVE  /\ Tipo' /\ proc[p].rol = "comprobador" /\ proc'[p].rol = "comprobador"
         /\ proc[p].mem = p /\ proc'[p].mem = p
         /\ proc[p].pc = "mq_receive" /\ proc'[p].pc = "empty"
         /\ \A y \in Monitores \ {p} : proc'[y] = proc[y]
<1>. DEFINE q == proc[p].queue
            x == [proc[p] EXCEPT !.pc = "empty", !.dato = Comprueba(Head(cola[q]))]
<1>1. proc[p] \in Proceso /\ proc[p].pc = "mq_receive" /\ cola[q] # <<>>
  BY DEF Tipo, TypeOK, Papeles, MqReceive, Despierto
<1>2. proc[p].rol = "comprobador" /\ proc[p].mem = p /\ q \in Mineros
  BY <1>1, ConPapel DEF PcMonitor, SinCola
<1>3. cola[q] \in Seq(Dato)
  BY <1>2 DEF Tipo, TypeOK
<1>4. Head(cola[q]) \in Dato /\ Tail(cola[q]) \in Seq(Dato)
  BY <1>1, <1>3, HeadTailProperties
<1>5. x \in Proceso /\ x.rol = "comprobador" /\ x.mem = p /\ x.pc = "empty" /\ x.queue = q
  BY <1>1, <1>2, <1>4, BloqueTipo DEF Proceso, EstadosP
<1>6. proc' = [proc EXCEPT ![p] = x] /\ cola' = [cola EXCEPT ![q] = Tail(cola[q])]
  BY <1>1, <1>2 DEF MqReceive, Tipo, TypeOK
<1>7. /\ proc' \in [Monitores -> Proceso] /\ proc'[p] = x
      /\ \A y \in Monitores \ {p} : proc'[y] = proc[y]
  BY <1>5, <1>6, CambiaTipo
<1>8. cola' \in [Mineros -> Seq(Dato)]
  BY <1>2, <1>4, <1>6 DEF Tipo, TypeOK
<1>9. UNCHANGED <<SHM_NAME, MQ_NAME, memoria, min, dormidos, muertos, puestos, turnos, impresos>>
  BY DEF MqReceive, nombres, historia
<1>10. TypeOK'
  BY <1>7, <1>8, <1>9 DEF Tipo, TypeOK
<1>11. Papel(x)
  BY <1>2, <1>5 DEF Papel, PcComprobador
<1>12. Papeles'
  BY <1>2, <1>5, <1>7, <1>9, <1>11, MismoPapel
<1>. QED
  BY <1>1, <1>2, <1>5, <1>7, <1>10, <1>12 DEF Tipo

LEMMA AnadirTipo ==
  ASSUME Tipo, NEW p \in Monitores, Anadir(p)
  PROVE  Tipo'
<1>1. /\ Pasa(p, "anadir", "rear")
      /\ UNCHANGED <<SHM_NAME, MQ_NAME, cola, min, dormidos, muertos, puestos, turnos, impresos>>
  BY DEF Anadir, nombres, historia
<1>2. Papeles' /\ "rear" \in EstadosP /\ proc[p].mem = p
  BY <1>1, ComprobadorPapel
<1>3. proc[p].dato \in Dato
  BY DEF Tipo, TypeOK, Proceso
<1>4. memoria' \in [Monitores -> Memoria]
  <2>1. [memoria[p] EXCEPT !.bloque[memoria[p].rear] = proc[p].dato] \in Memoria
    BY <1>3, MemoriaDe DEF Memoria
  <2>. QED
    BY <1>2, <2>1, UnaMemoria DEF Anadir
<1>5. TypeOK'
  BY <1>1, <1>2, <1>4, PasaSoloTipo DEF Tipo, TypeOK
<1>. QED
  BY <1>2, <1>5 DEF Tipo

LEMMA RearTipo ==
  ASSUME Tipo, NEW p \in Monitores, Rear(p)
  PROVE  Tipo'
<1>1. /\ Pasa(p, "rear", "post_mutex")
      /\ UNCHANGED <<SHM_NAME, MQ_NAME, cola, min, dormidos, muertos, turnos, impresos>>
  BY DEF Rear, nombres, historia
<1>2. Papeles' /\ "post_mutex" \in EstadosP /\ proc[p].mem = p
  BY <1>1, ComprobadorPapel
<1>3. (memoria[p].rear + 1) % BUFFER_SIZE \in Ranuras
  BY RanurasTipo, MemoriaDe
<1>4. memoria' \in [Monitores -> Memoria]
  <2>1. [memoria[p] EXCEPT !.rear = (memoria[p].rear + 1) % BUFFER_SIZE] \in Memoria
    BY <1>3, MemoriaDe DEF Memoria
  <2>. QED
    BY <1>2, <2>1, UnaMemoria DEF Rear
<1>5. Append(puestos[p], proc[p].dato) \in Seq(Dato)
  <2>1. puestos[p] \in Seq(Dato) /\ proc[p].dato \in Dato
    BY MemoriaDe DEF Tipo, TypeOK, Proceso
  <2>. QED
    BY <2>1
<1>6. puestos' \in [Monitores -> Seq(Dato)]
  BY <1>2, <1>5 DEF Rear, Tipo, TypeOK
<1>7. proc' \in [Monitores -> Proceso]
  BY <1>1, <1>2, PasaTipo
<1>8. TypeOK'
  BY <1>1, <1>4, <1>6, <1>7 DEF Tipo, TypeOK
<1>. QED
  BY <1>2, <1>8 DEF Tipo

(* A monitor on its way to the next step.                                   *)
LEMMA MonitorPapel ==
  ASSUME Tipo, NEW p \in Monitores, NEW de, NEW a, Pasa(p, de, a),
         <<de, a>> \in {<<"front", "post_mutex">>, <<"post_empty", "exit">>,
                        <<"post_empty", "imprimir">>},
         SHM_NAME' = SHM_NAME, min' = min
  PROVE  /\ Papeles' /\ a \in EstadosP /\ proc[p].pc = de
         /\ proc[p].rol = "monitor" /\ proc[p].mem \in Monitores
<1>1. /\ a \in EstadosP /\ proc[p].pc = de /\ de \notin {"shm_open", "abrir", "fallo"}
      /\ de \notin PcComprobador
  BY DEF EstadosP, Pasa, Despierto, PcComprobador
<1>2. proc[p].rol = "monitor" /\ proc[p].mem \in Monitores
  BY <1>1, ConPapel
<1>3. a \in PcMonitor
  BY DEF PcMonitor
<1>4. Papeles'
  BY <1>1, <1>2, <1>3, PasaPapel
<1>. QED
  BY <1>1, <1>2, <1>4

LEMMA FrontTipo ==
  ASSUME Tipo, NEW p \in Monitores, Front(p)
  PROVE  Tipo'
<1>. DEFINE m == proc[p].mem
<1>1. /\ Pasa(p, "front", "post_mutex")
      /\ UNCHANGED <<SHM_NAME, MQ_NAME, cola, min, dormidos, muertos, puestos, impresos>>
  BY DEF Front, nombres, historia
<1>2. Papeles' /\ "post_mutex" \in EstadosP /\ m \in Monitores
  BY <1>1, MonitorPapel
<1>3. (memoria[m].front + 1) % BUFFER_SIZE \in Ranuras
  BY <1>2, RanurasTipo, MemoriaDe
<1>4. memoria' \in [Monitores -> Memoria]
  <2>1. [memoria[m] EXCEPT !.front = (memoria[m].front + 1) % BUFFER_SIZE] \in Memoria
    BY <1>2, <1>3, MemoriaDe DEF Memoria
  <2>. QED
    BY <1>2, <2>1, UnaMemoria DEF Front
<1>5. Append(turnos[m], p) \in Seq(Monitores)
  BY <1>2, MemoriaDe
<1>6. turnos' \in [Monitores -> Seq(Monitores)]
  BY <1>2, <1>5 DEF Front, Tipo, TypeOK
<1>7. proc' \in [Monitores -> Proceso]
  BY <1>1, <1>2, PasaTipo
<1>8. TypeOK'
  BY <1>1, <1>4, <1>6, <1>7 DEF Tipo, TypeOK
<1>. QED
  BY <1>2, <1>8 DEF Tipo

LEMMA ExtraerTipo ==
  ASSUME Tipo, NEW p \in Monitores, Extraer(p)
  PROVE  /\ Tipo' /\ proc[p].rol = "monitor" /\ proc'[p].rol = "monitor"
         /\ proc[p].mem \in Monitores /\ proc'[p].mem = proc[p].mem
         /\ proc[p].pc = "extraer" /\ proc'[p].pc = "front"
         /\ proc'[p].dato = memoria[proc[p].mem].bloque[memoria[proc[p].mem].front]
         /\ \A y \in Monitores \ {p} : proc'[y] = proc[y]
<1>. DEFINE m == proc[p].mem
            d == memoria[m].bloque[memoria[m].front]
            x == [proc[p] EXCEPT !.pc = "front", !.dato = d]
<1>1. proc[p] \in Proceso /\ proc[p].pc = "extraer"
  BY DEF Tipo, TypeOK, Extraer, Despierto
<1>2. proc[p].rol = "monitor" /\ m \in Monitores
  BY <1>1, ConPapel DEF PcComprobador
<1>3. d \in Dato
  BY <1>2, MemoriaDe
<1>4. /\ x \in Proceso /\ x.rol = "monitor" /\ x.mem = m /\ x.pc = "front" /\ x.dato = d
  BY <1>1, <1>2, <1>3 DEF Proceso, EstadosP
<1>5. proc' = [proc EXCEPT ![p] = x]
  BY <1>1 DEF Extraer, Tipo, TypeOK
<1>6. /\ proc' \in [Monitores -> Proceso] /\ proc'[p] = x
      /\ \A y \in Monitores \ {p} : proc'[y] = proc[y]
  BY <1>4, <1>5, CambiaTipo
<1>7. UNCHANGED <<SHM_NAME, MQ_NAME, memoria, cola, min, dormidos, muertos, puestos, turnos, impresos>>
  BY DEF Extraer, nombres, historia
<1>8. TypeOK'
  BY <1>6, <1>7 DEF Tipo, TypeOK
<1>9. Papel(x)
  BY <1>4 DEF Papel, PcMonitor
<1>10. Papeles'
  BY <1>2, <1>4, <1>6, <1>7, <1>9, MismoPapel
<1>. QED
  BY <1>1, <1>2, <1>4, <1>6, <1>8, <1>10 DEF Tipo

(* The three posts.                                                         *)
LEMMA SemPostTipo ==
  ASSUME Tipo, NEW p \in Monitores, NEW s \in Semaforos, NEW de, NEW a \in EstadosP,
         Pasa(p, de, a), SemPost(p, s), proc[p].mem \in Monitores,
         UNCHANGED <<nombres, cola, min, muertos, historia>>
  PROVE  /\ TypeOK'
         /\ memoria'[proc[p].mem].sem[s] = memoria[proc[p].mem].sem[s] + 1
         /\ \A t \in Semaforos \ {s} : memoria'[proc[p].mem].sem[t] = memoria[proc[p].mem].sem[t]
         /\ \A m \in Monitores \ {proc[p].mem} : memoria'[m] = memoria[m]
<1>1. PICK m \in Monitores : m = proc[p].mem
  OBVIOUS
<1>2. PICK v \in Nat : v = memoria[m].sem[s] + 1
  BY MemoriaDe
<1>3. PICK b \in Memoria : b = [memoria[m] EXCEPT !.sem[s] = v]
  BY MemoriaDe, SemRegistro
<1>4. b.sem[s] = v /\ \A t \in Semaforos \ {s} : b.sem[t] = memoria[m].sem[t]
  BY <1>3, MemoriaDe, SemRegistro
<1>5. memoria' = [memoria EXCEPT ![m] = b]
  BY <1>1, <1>2, <1>3 DEF SemPost
<1>6. /\ memoria' \in [Monitores -> Memoria] /\ memoria'[m] = b
      /\ \A x \in Monitores \ {m} : memoria'[x] = memoria[x]
  BY <1>5, UnaMemoria
<1>7. dormidos' \subseteq Monitores
  BY DEF SemPost, Tipo, TypeOK
<1>8. UNCHANGED <<SHM_NAME, MQ_NAME, cola, min, muertos, puestos, turnos, impresos>>
  BY DEF nombres, historia
<1>9. TypeOK'
  BY <1>6, <1>7, <1>8, PasaSoloTipo DEF Tipo, TypeOK
<1>. QED
  BY <1>1, <1>2, <1>4, <1>6, <1>9

LEMMA PostMutexTipo ==
  ASSUME Tipo, NEW p \in Monitores, PostMutex(p)
  PROVE  Tipo' /\ proc[p].mem \in Monitores
<1>. DEFINE a == IF EsComprobador(p) THEN "post_fill" ELSE "post_empty"
<1>1. /\ Pasa(p, "post_mutex", a) /\ SemPost(p, "mutex") /\ a \in EstadosP /\ "mutex" \in Semaforos
      /\ UNCHANGED <<nombres, cola, min, muertos, historia>> /\ proc[p].pc = "post_mutex"
  BY DEF PostMutex, EstadosP, Semaforos, Pasa, Despierto
<1>2. /\ proc[p].mem \in Monitores /\ proc[p].rol \in {"comprobador", "monitor"}
      /\ SHM_NAME' = SHM_NAME /\ min' = min
  BY <1>1, ConPapel DEF nombres
<1>3. TypeOK'
  BY <1>1, <1>2, SemPostTipo
<1>4. /\ proc[p].rol = "comprobador" => a \in PcComprobador
      /\ proc[p].rol = "monitor" => a \in PcMonitor
      /\ "post_mutex" \notin SinCola
  BY DEF EsComprobador, PcComprobador, PcMonitor, SinCola
<1>5. Papeles'
  BY <1>1, <1>2, <1>4, PasaPapel
<1>. QED
  BY <1>2, <1>3, <1>5 DEF Tipo

LEMMA PostFillTipo ==
  ASSUME Tipo, NEW p \in Monitores, PostFill(p)
  PROVE  Tipo'
<1>. DEFINE a == IF proc[p].dato.fin THEN "exit" ELSE "mq_receive"
<1>1. /\ Pasa(p, "post_fill", a) /\ SemPost(p, "fill") /\ a \in {"exit", "mq_receive"}
      /\ UNCHANGED <<nombres, cola, min, muertos, historia>> /\ "fill" \in Semaforos
  BY DEF PostFill, Semaforos
<1>2. SHM_NAME' = SHM_NAME /\ min' = min
  BY <1>1 DEF nombres
<1>3. Papeles' /\ a \in EstadosP /\ proc[p].mem = p
  BY <1>1, <1>2, ComprobadorPapel
<1>4. TypeOK'
  BY <1>1, <1>3, SemPostTipo
<1>. QED
  BY <1>3, <1>4 DEF Tipo

LEMMA PostEmptyTipo ==
  ASSUME Tipo, NEW p \in Monitores, PostEmpty(p)
  PROVE  Tipo'
<1>. DEFINE a == IF proc[p].dato.fin THEN "exit" ELSE "imprimir"
<1>1. /\ Pasa(p, "post_empty", a) /\ SemPost(p, "empty") /\ a \in {"exit", "imprimir"}
      /\ UNCHANGED <<nombres, cola, min, muertos, historia>> /\ "empty" \in Semaforos
  BY DEF PostEmpty, Semaforos
<1>2. SHM_NAME' = SHM_NAME /\ min' = min
  BY <1>1 DEF nombres
<1>3. Papeles' /\ a \in EstadosP /\ proc[p].mem \in Monitores
  BY <1>1, <1>2, MonitorPapel
<1>4. TypeOK'
  BY <1>1, <1>3, SemPostTipo
<1>. QED
  BY <1>3, <1>4 DEF Tipo

(* The two waits of each loop.                                              *)
LEMMA EsperasTipo ==
  ASSUME Tipo, NEW p \in Monitores,
         SemWait(p, "empty", "mutex") \/ SemWait(p, "fill", "mutex") \/ WaitMutex(p)
  PROVE  Tipo'
<1>1. {"empty", "fill", "mutex"} \subseteq Semaforos
  BY DEF Semaforos
<1>2. "mutex" \in PcMonitor \cap (PcComprobador \ SinCola)
  BY DEF PcMonitor, PcComprobador, SinCola
<1>3. CASE SemWait(p, "empty", "mutex")
  BY <1>1, <1>2, <1>3, SemWaitTipo
<1>4. CASE SemWait(p, "fill", "mutex")
  BY <1>1, <1>2, <1>4, SemWaitTipo
<1>5. CASE WaitMutex(p) /\ EsComprobador(p)
  <2>1. SemWait(p, "mutex", "anadir")
    BY <1>5 DEF WaitMutex
  <2>2. "anadir" \in PcComprobador \ SinCola
    BY DEF PcComprobador, SinCola
  <2>. QED
    BY <1>1, <1>5, <2>1, <2>2, SemWaitTipo
<1>6. CASE WaitMutex(p) /\ ~EsComprobador(p)
  <2>1. SemWait(p, "mutex", "extraer")
    BY <1>6 DEF WaitMutex
  <2>2. "extraer" \in PcMonitor
    BY DEF PcMonitor
  <2>. QED
    BY <1>1, <1>6, <2>1, <2>2, SemWaitTipo
<1>. QED
  BY <1>3, <1>4, <1>5, <1>6

(* The miners.                                                              *)
LEMMA MPasaTipo ==
  ASSUME Tipo, NEW n \in Mineros, NEW x \in ProcesoMinero, min' = [min EXCEPT ![n] = x],
         x.pc \in {"args", "enviar", "fin"} => x.queue \in Mineros,
         MQ_NAME' \in Objetos(Mineros), cola' \in [Mineros -> Seq(Dato)],
         UNCHANGED <<SHM_NAME, memoria, proc, dormidos, muertos, historia>>
  PROVE  Tipo'
<1>1. /\ min' \in [Mineros -> ProcesoMinero] /\ min'[n] = x
      /\ \A y \in Mineros \ {n} : min'[y] = min[y]
  BY DEF Tipo, TypeOK
<1>2. TypeOK'
  BY <1>1 DEF Tipo, TypeOK, historia
<1>3. \A y \in Mineros : min'[y].pc \in {"args", "enviar", "fin"} => min'[y].queue \in Mineros
  BY <1>1 DEF Tipo, Papeles
<1>4. Papeles'
  BY <1>3 DEF Tipo, Papeles
<1>. QED
  BY <1>2, <1>4 DEF Tipo

LEMMA MineroDe ==
  ASSUME Tipo, NEW n \in Mineros
  PROVE  /\ min[n] \in ProcesoMinero
         /\ min[n].pc \in {"args", "enviar", "fin"} =>
              min[n].queue \in Mineros /\ cola[min[n].queue] \in Seq(Dato)
  BY DEF Tipo, TypeOK, Papeles

LEMMA PasoMineroTipo ==
  ASSUME Tipo, NEW n \in Mineros, LanzaMinero(n) \/ Minero(n)
  PROVE  Tipo'
<1>. DEFINE q == min[n].queue
<1>1. /\ min[n] \in ProcesoMinero /\ cola \in [Mineros -> Seq(Dato)] /\ min = [y \in Mineros |-> min[y]]
      /\ MQ_NAME \in Objetos(Mineros)
      /\ min[n].pc \in {"args", "enviar", "fin"} => q \in Mineros /\ cola[q] \in Seq(Dato)
  BY MineroDe DEF Tipo, TypeOK
<1>2. CASE MqCrea(n)
  <2>. DEFINE x == [min[n] EXCEPT !.pc = "args", !.queue = n]
  <2>1. x \in ProcesoMinero /\ x.queue = n
    BY <1>1 DEF ProcesoMinero, EstadosN, Objetos
  <2>2. min' = [min EXCEPT ![n] = x] /\ MQ_NAME' = n /\ cola' = cola
    BY <1>1, <1>2 DEF MqCrea
  <2>3. MQ_NAME' \in Objetos(Mineros)
    BY <2>2 DEF Objetos
  <2>4. UNCHANGED <<SHM_NAME, memoria, proc, dormidos, muertos, historia>>
    BY <1>2 DEF MqCrea
  <2>. QED
    BY <1>1, <2>1, <2>2, <2>3, <2>4, MPasaTipo
<1>3. CASE MqReabre(n)
  <2>. DEFINE x == IF MQ_NAME = Nadie THEN [min[n] EXCEPT !.pc = "fallo"]
                   ELSE [min[n] EXCEPT !.pc = "args", !.queue = MQ_NAME]
  <2>1. x \in ProcesoMinero /\ (x.pc = "fallo" \/ x.queue \in Mineros)
    BY <1>1 DEF ProcesoMinero, EstadosN, Objetos
  <2>2. min' = [min EXCEPT ![n] = x]
    BY <1>1, <1>3 DEF MqReabre
  <2>3. UNCHANGED <<SHM_NAME, MQ_NAME, cola, memoria, proc, dormidos, muertos, historia>>
    BY <1>3 DEF MqReabre, nombres
  <2>. QED
    BY <1>1, <2>1, <2>2, <2>3, MPasaTipo
<1>4. ASSUME NEW de, NEW a \in EstadosN, MPasa(n, de, a),
             de \in {"mq_open", "args", "enviar", "fin"},
             a \in {"args", "enviar", "fin"} => de # "mq_open",
             cola' \in [Mineros -> Seq(Dato)],
             UNCHANGED <<nombres, memoria, proc, dormidos, muertos, historia>>
      PROVE  Tipo'
  <2>. DEFINE x == [min[n] EXCEPT !.pc = a]
  <2>1. x \in ProcesoMinero /\ x.pc = a /\ x.queue = q /\ min[n].pc = de
    BY <1>1, <1>4 DEF ProcesoMinero, MPasa
  <2>2. min' = [min EXCEPT ![n] = x] /\ SHM_NAME' = SHM_NAME /\ MQ_NAME' = MQ_NAME
    BY <1>1, <1>4 DEF MPasa, nombres
  <2>. QED
    BY <1>1, <1>4, <2>1, <2>2, MPasaTipo
<1>5. CASE MqExiste(n)
  BY <1>1, <1>4, <1>5 DEF MqExiste, EstadosN
<1>6. CASE Argumentos(n)
  BY <1>1, <1>4, <1>6 DEF Argumentos, EstadosN
<1>7. CASE SinSolucion(n)
  BY <1>1, <1>4, <1>7 DEF SinSolucion, EstadosN
<1>8. CASE EnviarFin(n)
  <2>1. MPasa(n, "fin", "exit") /\ q \in Mineros /\ cola[q] \in Seq(Dato)
    BY <1>1, <1>8 DEF EnviarFin, MPasa
  <2>2. Append(cola[q], DatoFin) \in Seq(Dato)
    BY <2>1, BloqueTipo
  <2>3. cola' \in [Mineros -> Seq(Dato)]
    BY <1>1, <1>8, <2>1, <2>2 DEF EnviarFin
  <2>. QED
    BY <1>4, <1>8, <2>1, <2>3 DEF EnviarFin, EstadosN
<1>9. CASE Enviar(n)
  <2>1. min[n].pc = "enviar" /\ q \in Mineros /\ cola[q] \in Seq(Dato)
    BY <1>1, <1>9 DEF Enviar
  <2>2. PICK s \in Int : s = target_search(min[n].target)
    BY SolucionTipo
  <2>9. PICK a \in EstadosN :
          a = IF min[n].i + 1 = min[n].n_cycles THEN "fin" ELSE "enviar"
    BY DEF EstadosN
  <2>. DEFINE x == [min[n] EXCEPT !.target = s, !.i = min[n].i + 1, !.pc = a]
  <2>3. PICK d \in Dato : d = [fin |-> FALSE, objetivo |-> min[n].target,
                               solucion |-> s, correcto |-> TRUE]
    BY <1>1 DEF Dato, ProcesoMinero
  <2>4. Append(cola[q], d) \in Seq(Dato)
    BY <2>1, AppendProperties
  <2>5. cola' = [cola EXCEPT ![q] = Append(cola[q], d)] /\ min' = [min EXCEPT ![n] = x]
    BY <1>1, <1>9, <2>9, <2>1, <2>2, <2>3 DEF Enviar
  <2>6. cola' \in [Mineros -> Seq(Dato)]
    BY <1>1, <2>1, <2>4, <2>5
  <2>7. x \in ProcesoMinero /\ x.queue = q
    <3>1. min[n] \in ProcesoMinero
      BY <1>1
    <3>2. min[n].i + 1 \in Nat
      BY <3>1 DEF ProcesoMinero
    <3>. QED
      BY <3>1, <3>2 DEF ProcesoMinero
  <2>8. UNCHANGED <<SHM_NAME, MQ_NAME, memoria, proc, dormidos, muertos, historia>>
    BY <1>9 DEF Enviar, nombres
  <2>. QED
    BY <1>1, <2>1, <2>5, <2>6, <2>7, <2>8, MPasaTipo
<1>. QED
  BY <1>2, <1>3, <1>5, <1>6, <1>7, <1>8, <1>9 DEF LanzaMinero, Minero

LEMMA MataTipo ==
  ASSUME Tipo, NEW x \in Monitores \cup Mineros, Mata(x)
  PROVE  Tipo'
  BY DEF Mata, Tipo, TypeOK, Papeles, nombres, historia

LEMMA PasoMonitorTipo ==
  ASSUME Tipo, NEW p \in Monitores, LanzaMonitor(p) \/ PasoMonitor(p) \/ Falla(p)
  PROVE  Tipo'
  BY ShmCreaTipo, ShmExisteTipo, ShmAbreTipo, SencillosTipo, FtruncateTipo, SemInitTipo, MqAbreTipo,
     MqReceiveTipo, AnadirTipo, RearTipo, FrontTipo, ExtraerTipo, PostMutexTipo, PostFillTipo,
     PostEmptyTipo, EsperasTipo, DuermeTipo
  DEF LanzaMonitor, PasoMonitor, Comprobador, Monitor

LEMMA TipoPaso == Tipo /\ [Next]_vars => Tipo'
<1>. SUFFICES ASSUME Tipo, [Next]_vars PROVE Tipo'
  OBVIOUS
<1>1. CASE UNCHANGED vars
  BY <1>1 DEF vars, nombres, historia, Tipo, TypeOK, Papeles
<1>. QED
  BY <1>1, PasoMonitorTipo, PasoMineroTipo, MataTipo DEF Next

(* Every variable keeps its type, whatever fails and whoever is killed: no  *)
(* semaphore goes below 0 and front and rear stay in the ring.  And nobody  *)
(* uses a memory or a queue it has not opened: a program is past mmap only  *)
(* with the memory some comprobador created, past mq_open only with a queue *)
(* (Papeles; p3/monitor.c:231-265, 138-144, p3/minero.c).                   *)
THEOREM TipoCorrecto == Spec => [](TypeOK /\ Papeles)
  BY TipoInicial, TipoPaso, PTL DEF Spec, Tipo

-----------------------------------------------------------------------------
(* What the semaphores of a memory count.                                   *)

Critica  == {"anadir", "rear", "extraer", "front", "post_mutex"}
Adelanta == {"mutex", "anadir", "rear"}
Devuelve == {"post_mutex", "post_empty"}
Fuera    == EstadosP \ (Critica \cup Adelanta \cup Devuelve)
Tempranos == {"shm_unlink", "mmap", "fill", "fallo", "sigbus"}

EnCritica(x, m)  == x.mem = m /\ x.pc \in Critica
EnDevuelve(x, m) == x.rol = "monitor" /\ x.mem = m /\ x.pc \in Devuelve
EnAdelanta(x)    == x.rol = "comprobador" /\ x.pc \in Adelanta

(* A memory without semaphores yet: nobody gets past sem_wait(fill).        *)
SinIniciar(m) ==
  /\ \A s \in Semaforos : memoria[m].sem[s] = 0
  /\ puestos[m] = <<>> /\ turnos[m] = <<>>
  /\ \A p \in Monitores : proc[p].rol = "monitor" /\ proc[p].mem = m => proc[p].pc \in Tempranos
Inicio == \A m \in Monitores : proc[m].pc \in Antes => SinIniciar(m)

Exclusiva == \A m \in Monitores : Cardinality(Dentro(m)) + memoria[m].sem["mutex"] <= 1

(* Of the slots of a ring, those its semaphore counts, the one its          *)
(* comprobador has taken, those with a block, and those that a monitor has  *)
(* read and not given back yet.                                             *)
Devuelven(m) == {p \in Monitores : EnDevuelve(proc[p], m)}
Adelantado(m) == IF EnAdelanta(proc[m]) THEN 1 ELSE 0
Cuenta(m) == memoria[m].sem["empty"] + Adelantado(m) + EnAnillo(m) + Cardinality(Devuelven(m))
Vacias == \A m \in Monitores : Cuenta(m) <= BUFFER_SIZE

Cuentas == Tipo /\ Inicio /\ Exclusiva /\ Vacias

LEMMA DentroEs == \A m : Dentro(m) = {p \in Monitores : EnCritica(proc[p], m)}
  BY DEF Dentro, EnCritica, Critica

LEMMA Tamanos ==
  ASSUME Tipo, NEW m \in Monitores
  PROVE  /\ IsFiniteSet(Dentro(m)) /\ Cardinality(Dentro(m)) \in Nat
         /\ IsFiniteSet(Devuelven(m)) /\ Cardinality(Devuelven(m)) \in Nat
         /\ \A s \in Semaforos : memoria[m].sem[s] \in Nat
         /\ EnAnillo(m) \in Int /\ Adelantado(m) \in {0, 1}
<1>1. Dentro(m) \in SUBSET Monitores /\ Devuelven(m) \in SUBSET Monitores
  BY DEF Dentro, Devuelven
<1>2. /\ IsFiniteSet(Dentro(m)) /\ Cardinality(Dentro(m)) \in Nat
      /\ IsFiniteSet(Devuelven(m)) /\ Cardinality(Devuelven(m)) \in Nat
  BY <1>1, P3Assumption, FS_Subset, FS_CardinalityType
<1>3. Len(puestos[m]) \in Nat /\ Len(turnos[m]) \in Nat
  BY MemoriaDe
<1>. QED
  BY <1>2, <1>3, MemoriaDe DEF EnAnillo, Adelantado

(* Where a step of one program leaves the three parts.                      *)
LEMMA InicioIgual ==
  ASSUME Cuentas, NEW p \in Monitores, \A y \in Monitores \ {p} : proc'[y] = proc[y],
         proc'[p].pc \in Antes => proc[p].pc \in Antes,
         proc'[p].rol = "monitor" => proc'[p].pc \in Tempranos \/ proc[proc'[p].mem].pc \notin Antes,
         \A m \in Monitores : proc[m].pc \in Antes /\ proc'[m].pc \in Antes =>
            /\ memoria'[m].sem = memoria[m].sem
            /\ puestos'[m] = puestos[m] /\ turnos'[m] = turnos[m]
  PROVE  Inicio'
<1>. SUFFICES ASSUME NEW m \in Monitores, proc'[m].pc \in Antes
              PROVE  SinIniciar(m)'
  BY DEF Inicio
<1>1. proc[m].pc \in Antes /\ SinIniciar(m)
  BY DEF Cuentas, Inicio
<1>2. \A y \in Monitores : proc'[y].rol = "monitor" /\ proc'[y].mem = m => proc'[y].pc \in Tempranos
  BY <1>1 DEF SinIniciar
<1>. QED
  BY <1>1, <1>2 DEF SinIniciar

LEMMA ExclusivaIgual ==
  ASSUME Cuentas, NEW p \in Monitores, \A y \in Monitores \ {p} : proc'[y] = proc[y],
         \A m \in Monitores : EnCritica(proc'[p], m) <=> EnCritica(proc[p], m),
         \A m \in Monitores : memoria'[m].sem["mutex"] = memoria[m].sem["mutex"]
  PROVE  Exclusiva'
<1>1. \A m \in Monitores : Dentro(m)' = {y \in Monitores : EnCritica(proc'[y], m)}
  BY DEF Dentro, EnCritica, Critica
<1>2. \A m \in Monitores : Dentro(m)' = Dentro(m)
  BY <1>1, DentroEs
<1>. QED
  BY <1>2 DEF Cuentas, Exclusiva

LEMMA DevuelvenIgual ==
  ASSUME NEW p \in Monitores, \A y \in Monitores \ {p} : proc'[y] = proc[y],
         NEW m \in Monitores, EnDevuelve(proc'[p], m) <=> EnDevuelve(proc[p], m)
  PROVE  Devuelven(m)' = Devuelven(m)
  BY DEF Devuelven

LEMMA VaciasIgual ==
  ASSUME Cuentas, NEW p \in Monitores, \A y \in Monitores \ {p} : proc'[y] = proc[y],
         \A m \in Monitores : EnDevuelve(proc'[p], m) <=> EnDevuelve(proc[p], m),
         EnAdelanta(proc'[p]) <=> EnAdelanta(proc[p]),
         \A m \in Monitores : memoria'[m].sem["empty"] = memoria[m].sem["empty"],
         puestos' = puestos, turnos' = turnos
  PROVE  Vacias'
<1>. SUFFICES ASSUME NEW m \in Monitores PROVE Cuenta(m)' <= BUFFER_SIZE
  BY DEF Vacias
<1>1. Devuelven(m)' = Devuelven(m)
  BY DevuelvenIgual
<1>2. Adelantado(m)' = Adelantado(m) /\ EnAnillo(m)' = EnAnillo(m)
  BY DEF Adelantado, EnAnillo
<1>3. Cuenta(m)' = Cuenta(m)
  BY <1>1, <1>2 DEF Cuenta
<1>. QED
  BY <1>3 DEF Cuentas, Vacias

(* A step outside of all that, which does not touch a semaphore.            *)
LEMMA Tranquila ==
  ASSUME Cuentas, NEW p \in Monitores, \A y \in Monitores \ {p} : proc'[y] = proc[y],
         proc[p].pc \in Fuera, proc'[p].pc \in Fuera,
         proc'[p].pc \in Antes => proc[p].pc \in Antes,
         proc'[p].rol = "monitor" => proc'[p].pc \in Tempranos \/ proc[proc'[p].mem].pc \notin Antes,
         \A m \in Monitores : memoria'[m].sem = memoria[m].sem,
         puestos' = puestos, turnos' = turnos
  PROVE  Inicio' /\ Exclusiva' /\ Vacias'
<1>1. Inicio'
  BY InicioIgual
<1>2. /\ \A m \in Monitores : ~EnCritica(proc'[p], m) /\ ~EnCritica(proc[p], m)
      /\ \A m \in Monitores : ~EnDevuelve(proc'[p], m) /\ ~EnDevuelve(proc[p], m)
      /\ ~EnAdelanta(proc'[p]) /\ ~EnAdelanta(proc[p])
  BY DEF Fuera, EnCritica, EnDevuelve, EnAdelanta
<1>3. Exclusiva'
  BY <1>2, ExclusivaIgual
<1>4. Vacias'
  BY <1>2, VaciasIgual
<1>. QED
  BY <1>1, <1>3, <1>4

(* Whoever has got past sem_wait(fill) uses a memory with semaphores.       *)
LEMMA Iniciada ==
  ASSUME Cuentas, NEW p \in Monitores, proc[p].pc \in PcMonitor \cup PcComprobador,
         proc[p].pc \notin Tempranos \cup Antes
  PROVE  proc[p].mem \in Monitores /\ proc[proc[p].mem].pc \notin Antes
<1>1. Tipo /\ Inicio /\ proc[p].pc \notin {"shm_open", "abrir", "fallo"}
  BY DEF Cuentas, Tempranos, Antes
<1>2. proc[p].mem \in Monitores /\ (proc[p].rol = "monitor" \/ proc[p].mem = p)
  BY <1>1, ConPapel
<1>. QED
  BY <1>1, <1>2 DEF Inicio, SinIniciar

LEMMA CuentasInicial == Init => Cuentas
<1>. SUFFICES ASSUME Init PROVE Cuentas
  OBVIOUS
<1>1. Tipo
  BY TipoInicial
<1>2. \A m \in Monitores : /\ \A s \in Semaforos : memoria[m].sem[s] = 0
                           /\ puestos[m] = <<>> /\ turnos[m] = <<>>
                           /\ proc[m].pc = "shm_open" /\ proc[m].rol = ""
  <2>1. \A s \in Semaforos : MemoriaNueva.sem[s] = 0
    BY DEF MemoriaNueva, Semaforos
  <2>2. \A m \in Monitores : memoria[m] = MemoriaNueva
    BY DEF Init
  <2>3. \A m \in Monitores : puestos[m] = <<>> /\ turnos[m] = <<>>
    BY DEF Init
  <2>4. \A m \in Monitores : proc[m].pc = "shm_open" /\ proc[m].rol = ""
    BY DEF Init
  <2>. QED
    BY <2>1, <2>2, <2>3, <2>4
<1>3. Inicio
  BY <1>2 DEF Inicio, SinIniciar
<1>4. ASSUME NEW m \in Monitores
      PROVE  /\ Cardinality(Dentro(m)) = 0 /\ Cardinality(Devuelven(m)) = 0 /\ Adelantado(m) = 0
             /\ memoria[m].sem["mutex"] = 0 /\ memoria[m].sem["empty"] = 0 /\ EnAnillo(m) = 0
  <2>1. Dentro(m) = {} /\ Devuelven(m) = {}
    BY <1>2 DEF Dentro, Devuelven, EnDevuelve
  <2>2. Adelantado(m) = 0
    BY <1>2 DEF Adelantado, EnAdelanta
  <2>3. EnAnillo(m) = 0
    <3>1. EnAnillo(m) = Len(<<>>) - Len(<<>>)
      BY <1>2 DEF EnAnillo
    <3>. QED
      BY <3>1
  <2>4. memoria[m].sem["mutex"] = 0 /\ memoria[m].sem["empty"] = 0
    BY <1>2 DEF Semaforos
  <2>. QED
    BY <2>1, <2>2, <2>3, <2>4, FS_EmptySet
<1>5. Exclusiva
  BY <1>4 DEF Exclusiva
<1>6. Vacias
  BY <1>4, P3Assumption DEF Vacias, Cuenta
<1>. QED
  BY <1>1, <1>3, <1>5, <1>6 DEF Cuentas

(* The quiet steps.                                                         *)
LEMMA PasaTranquila ==
  ASSUME Cuentas, NEW p \in Monitores, NEW de \in Fuera, NEW a \in Fuera, Pasa(p, de, a),
         a \in Antes => de \in Antes, a \in Tempranos \/ de \notin Tempranos,
         \A m \in Monitores : memoria'[m].sem = memoria[m].sem,
         puestos' = puestos, turnos' = turnos
  PROVE  Inicio' /\ Exclusiva' /\ Vacias'
<1>1. a \in EstadosP /\ Tipo
  BY DEF Fuera, Cuentas
<1>2. /\ proc[p].pc = de /\ proc'[p].pc = a
      /\ proc'[p].rol = proc[p].rol /\ proc'[p].mem = proc[p].mem
      /\ \A y \in Monitores \ {p} : proc'[y] = proc[y]
  BY <1>1, PasaTipo
<1>3. ASSUME proc'[p].rol = "monitor", a \notin Tempranos
      PROVE  proc[proc'[p].mem].pc \notin Antes
  <2>1. proc[p].pc \in PcMonitor /\ proc[p].pc \notin Antes
    BY <1>1, <1>2, <1>3 DEF Tipo, Papeles, Papel, PcMonitor, Antes
  <2>. QED
    BY <1>2, <1>3, <2>1, Iniciada
<1>. QED
  BY <1>2, <1>3, Tranquila

LEMMA SencillosCuentas ==
  ASSUME Cuentas, NEW p \in Monitores,
         \/ ShmExiste(p) \/ ShmUnlink(p) \/ Falla(p) \/ MqUnlink(p) \/ Mmap(p) \/ Sigbus(p)
         \/ Imprimir(p) \/ Ftruncate(p)
  PROVE  Inicio' /\ Exclusiva' /\ Vacias'
<1>1. PICK de, a : /\ Pasa(p, de, a)
                   /\ <<de, a>> \in {<<"shm_open", "abrir">>, <<"shm_unlink", "mmap">>,
                        <<"ftruncate", "fallo">>, <<"sem_init", "fallo">>, <<"mmap", "fallo">>,
                        <<"mq_unlink", "mq_receive">>, <<"mmap", "fill">>, <<"fill", "sigbus">>,
                        <<"imprimir", "fill">>, <<"ftruncate", "sem_init">>}
  BY DEF ShmExiste, ShmUnlink, Falla, FtruncateFalla, C_MmapFalla, M_MmapFalla,
         MqUnlink, Mmap, Sigbus, Imprimir, Ftruncate
<1>2. de \in Fuera /\ a \in Fuera
  BY <1>1 DEF Fuera, EstadosP, Critica, Adelanta, Devuelve
<1>3. (a \in Antes => de \in Antes) /\ (a \in Tempranos \/ de \notin Tempranos)
  BY <1>1 DEF Antes, Tempranos
<1>4. puestos' = puestos /\ turnos' = turnos
  BY DEF ShmExiste, ShmUnlink, Falla, FtruncateFalla, C_MmapFalla, M_MmapFalla,
         MqUnlink, Mmap, Sigbus, Imprimir, Ftruncate, historia
<1>5. \A m \in Monitores : memoria'[m].sem = memoria[m].sem
  <2>1. CASE Ftruncate(p)
    BY <2>1 DEF Ftruncate, Cuentas, Tipo, TypeOK, Memoria
  <2>2. CASE ~Ftruncate(p)
    BY <2>2 DEF ShmExiste, ShmUnlink, Falla, FtruncateFalla, C_MmapFalla, M_MmapFalla,
         MqUnlink, Mmap, Sigbus, Imprimir
  <2>. QED
    BY <2>1, <2>2
<1>. QED
  BY <1>1, <1>2, <1>3, <1>4, <1>5, PasaTranquila

LEMMA NuevosCuentas ==
  ASSUME Cuentas, NEW p \in Monitores, ShmCrea(p) \/ ShmAbre(p) \/ MqAbre(p) \/ MqReceive(p)
  PROVE  Inicio' /\ Exclusiva' /\ Vacias'
<1>1. Tipo
  BY DEF Cuentas
<1>2. \A m \in Monitores : memoria'[m].sem = memoria[m].sem
  BY DEF ShmCrea, ShmAbre, MqAbre, MqReceive
<1>3. puestos' = puestos /\ turnos' = turnos
  BY DEF ShmCrea, ShmAbre, MqAbre, MqReceive, historia
<1>4. /\ \A y \in Monitores \ {p} : proc'[y] = proc[y]
      /\ <<proc[p].pc, proc'[p].pc>> \in {<<"shm_open", "ftruncate">>, <<"abrir", "fallo">>,
           <<"abrir", "shm_unlink">>, <<"mq_open", "fallo">>, <<"mq_open", "mq_unlink">>,
           <<"mq_receive", "empty">>}
      /\ proc'[p].rol = "monitor" => proc'[p].pc \in Tempranos
  <2>1. CASE ShmCrea(p)
    BY <1>1, <2>1 DEF ShmCrea, Despierto, Tipo, TypeOK, Proceso
  <2>2. CASE ShmAbre(p)
    <3>1. proc[p].pc = "abrir"
      BY <2>2 DEF ShmAbre, Despierto
    <3>. QED
      BY <1>1, <2>2, <3>1, ShmAbreTipo DEF Tempranos
  <2>3. CASE MqAbre(p)
    BY <1>1, <2>3, MqAbreTipo
  <2>4. CASE MqReceive(p)
    BY <1>1, <2>4, MqReceiveTipo
  <2>. QED
    BY <2>1, <2>2, <2>3, <2>4
<1>5. proc[p].pc \in Fuera /\ proc'[p].pc \in Fuera
  BY <1>4 DEF Fuera, EstadosP, Critica, Adelanta, Devuelve
<1>6. proc'[p].pc \in Antes => proc[p].pc \in Antes
  BY <1>4 DEF Antes
<1>. QED
  BY <1>2, <1>3, <1>4, <1>5, <1>6, Tranquila

LEMMA SemInitCuentas ==
  ASSUME Cuentas, NEW p \in Monitores, SemInit(p)
  PROVE  Inicio' /\ Exclusiva' /\ Vacias'
<1>1. Tipo /\ Pasa(p, "sem_init", "mq_open") /\ "mq_open" \in EstadosP
  BY DEF Cuentas, SemInit, EstadosP
<1>2. /\ proc[p].pc = "sem_init" /\ proc'[p].pc = "mq_open" /\ proc'[p].rol = proc[p].rol
      /\ \A y \in Monitores \ {p} : proc'[y] = proc[y]
  BY <1>1, PasaTipo
<1>3. proc[p].rol = "comprobador" /\ proc[p].mem = p
  BY <1>1, <1>2, ConPapel DEF PcMonitor
<1>4. /\ \A m \in Monitores \ {p} : memoria'[m] = memoria[m]
      /\ memoria'[p].sem["empty"] = BUFFER_SIZE /\ memoria'[p].sem["mutex"] = 1
      /\ puestos' = puestos /\ turnos' = turnos
  BY <1>1, SemInitTipo DEF SemInit, historia
<1>5. Inicio'
  BY <1>2, <1>3, <1>4, InicioIgual DEF Antes
<1>6. SinIniciar(p)
  BY <1>2 DEF Cuentas, Inicio, Antes
<1>7. /\ \A m \in Monitores : ~EnCritica(proc'[p], m) /\ ~EnCritica(proc[p], m)
      /\ \A m \in Monitores : ~EnDevuelve(proc'[p], m) /\ ~EnDevuelve(proc[p], m)
      /\ ~EnAdelanta(proc'[p]) /\ ~EnAdelanta(proc[p])
  BY <1>2, <1>3 DEF EnCritica, EnDevuelve, EnAdelanta, Critica, Devuelve, Adelanta
<1>8. ASSUME NEW y \in Monitores \ {p} PROVE ~EnCritica(proc'[y], p) /\ ~EnDevuelve(proc'[y], p)
  <2>1. proc'[y] = proc[y]
    BY <1>2
  <2>2. CASE proc[y].mem = p
    <3>1. proc[y].rol = "monitor"
      BY <1>1, <2>2, P3Assumption DEF Tipo, Papeles, Papel
    <3>2. proc[y].pc \in Tempranos
      BY <1>6, <2>2, <3>1 DEF SinIniciar
    <3>. QED
      BY <2>1, <3>2 DEF EnCritica, EnDevuelve, Tempranos, Critica, Devuelve
  <2>. QED
    BY <2>1, <2>2 DEF EnCritica, EnDevuelve
<1>9. /\ Dentro(p)' = {} /\ Devuelven(p)' = {} /\ Adelantado(p)' = 0 /\ EnAnillo(p)' = 0
  <2>1. Dentro(p)' = {y \in Monitores : EnCritica(proc'[y], p)}
    BY DEF Dentro, EnCritica, Critica
  <2>2. Dentro(p)' = {} /\ Devuelven(p)' = {}
    BY <1>7, <1>8, <2>1 DEF Devuelven
  <2>3. Adelantado(p)' = 0 /\ EnAnillo(p)' = 0
    BY <1>4, <1>6, <1>7 DEF Adelantado, EnAnillo, SinIniciar
  <2>. QED
    BY <2>2, <2>3
<1>10. ASSUME NEW m \in Monitores \ {p}
       PROVE  /\ Dentro(m)' = Dentro(m) /\ Devuelven(m)' = Devuelven(m)
              /\ Adelantado(m)' = Adelantado(m) /\ EnAnillo(m)' = EnAnillo(m)
  <2>1. Dentro(m)' = {y \in Monitores : EnCritica(proc'[y], m)}
    BY DEF Dentro, EnCritica, Critica
  <2>2. Dentro(m)' = Dentro(m)
    BY <1>2, <1>7, <2>1, DentroEs
  <2>3. Devuelven(m)' = Devuelven(m)
    BY <1>2, <1>7, DevuelvenIgual
  <2>4. Adelantado(m)' = Adelantado(m) /\ EnAnillo(m)' = EnAnillo(m)
    BY <1>2, <1>4 DEF Adelantado, EnAnillo
  <2>. QED
    BY <2>2, <2>3, <2>4
<1>11. Exclusiva'
  <2>. SUFFICES ASSUME NEW m \in Monitores
                PROVE  (Cardinality(Dentro(m)) + memoria[m].sem["mutex"] <= 1)'
    BY DEF Exclusiva
  <2>1. CASE m = p
    BY <1>4, <1>9, <2>1, FS_EmptySet
  <2>2. CASE m # p
    BY <1>4, <1>10, <2>2 DEF Cuentas, Exclusiva
  <2>. QED
    BY <2>1, <2>2
<1>12. Vacias'
  <2>. SUFFICES ASSUME NEW m \in Monitores PROVE Cuenta(m)' <= BUFFER_SIZE
    BY DEF Vacias
  <2>1. CASE m = p
    BY <1>4, <1>9, <2>1, FS_EmptySet, P3Assumption DEF Cuenta
  <2>2. CASE m # p
    BY <1>4, <1>10, <2>2 DEF Cuentas, Vacias, Cuenta
  <2>. QED
    BY <2>1, <2>2
<1>. QED
  BY <1>5, <1>11, <1>12

(* The steps that move one of the counts: a program p whose memory is m.    *)
LEMMA EsperaVaciaCuentas ==
  ASSUME Cuentas, NEW p \in Monitores, SemWait(p, "empty", "mutex")
  PROVE  Inicio' /\ Exclusiva' /\ Vacias'
<1>1. /\ Tipo /\ Pasa(p, "empty", "mutex") /\ "mutex" \in EstadosP /\ {"empty", "mutex"} \subseteq Semaforos
      /\ puestos' = puestos /\ turnos' = turnos
  BY DEF Cuentas, SemWait, EstadosP, Semaforos, historia
<1>2. /\ proc[p].pc = "empty" /\ proc'[p].pc = "mutex" /\ proc'[p].rol = proc[p].rol
      /\ \A y \in Monitores \ {p} : proc'[y] = proc[y]
  BY <1>1, PasaTipo
<1>3. proc[p].rol = "comprobador" /\ proc[p].mem = p
  BY <1>1, <1>2, ConPapel DEF PcMonitor
<1>6. /\ memoria'[p].sem["empty"] = memoria[p].sem["empty"] - 1
      /\ memoria'[p].sem["mutex"] = memoria[p].sem["mutex"]
      /\ \A m \in Monitores \ {p} : memoria'[m] = memoria[m]
  BY <1>1, <1>3, SemWaitSem
<1>7. Inicio'
  BY <1>2, <1>3, <1>6, <1>1, InicioIgual DEF Antes
<1>8. /\ \A m \in Monitores : ~EnCritica(proc'[p], m) /\ ~EnCritica(proc[p], m)
      /\ \A m \in Monitores : ~EnDevuelve(proc'[p], m) /\ ~EnDevuelve(proc[p], m)
      /\ EnAdelanta(proc'[p]) /\ ~EnAdelanta(proc[p])
  BY <1>2, <1>3 DEF EnCritica, EnDevuelve, EnAdelanta, Critica, Devuelve, Adelanta
<1>9. Exclusiva'
  <2>1. \A m \in Monitores : memoria'[m].sem["mutex"] = memoria[m].sem["mutex"]
    BY <1>6
  <2>. QED
    BY <1>2, <1>8, <2>1, ExclusivaIgual
<1>10. Vacias'
  <2>. SUFFICES ASSUME NEW m \in Monitores PROVE Cuenta(m)' = Cuenta(m)
    BY DEF Cuentas, Vacias
  <2>1. Devuelven(m)' = Devuelven(m) /\ EnAnillo(m)' = EnAnillo(m)
    BY <1>1, <1>2, <1>8, DevuelvenIgual DEF EnAnillo
  <2>2. CASE m = p
    <3>1. Adelantado(p)' = 1 /\ Adelantado(p) = 0
      BY <1>8 DEF Adelantado
    <3>2. memoria[p].sem["empty"] \in Nat
      BY <1>1, Tamanos
    <3>. QED
      BY <1>6, <2>1, <2>2, <3>1, <3>2, Tamanos, <1>1 DEF Cuenta
  <2>3. CASE m # p
    BY <1>2, <1>6, <2>1, <2>3 DEF Cuenta, Adelantado
  <2>. QED
    BY <2>2, <2>3
<1>. QED
  BY <1>7, <1>9, <1>10

LEMMA EsperaLlenaCuentas ==
  ASSUME Cuentas, NEW p \in Monitores, SemWait(p, "fill", "mutex")
  PROVE  Inicio' /\ Exclusiva' /\ Vacias'
<1>1. /\ Tipo /\ Pasa(p, "fill", "mutex") /\ "mutex" \in EstadosP
      /\ {"empty", "mutex", "fill"} \subseteq Semaforos
      /\ puestos' = puestos /\ turnos' = turnos
  BY DEF Cuentas, SemWait, EstadosP, Semaforos, historia
<1>2. /\ proc[p].pc = "fill" /\ proc'[p].pc = "mutex" /\ proc'[p].rol = proc[p].rol
      /\ proc'[p].mem = proc[p].mem /\ \A y \in Monitores \ {p} : proc'[y] = proc[y]
  BY <1>1, PasaTipo
<1>3. PICK m \in Monitores : m = proc[p].mem /\ proc[p].rol = "monitor"
  BY <1>1, <1>2, ConPapel DEF PcComprobador
<1>6. /\ memoria'[m].sem["empty"] = memoria[m].sem["empty"]
      /\ memoria'[m].sem["mutex"] = memoria[m].sem["mutex"]
      /\ \A x \in Monitores \ {m} : memoria'[x] = memoria[x]
  BY <1>1, <1>3, SemWaitSem
<1>7. proc[m].pc \notin Antes
  BY <1>1, <1>3 DEF SemWait, Cuentas, Inicio, SinIniciar
<1>8. Inicio'
  BY <1>1, <1>2, <1>3, <1>6, <1>7, InicioIgual DEF Antes
<1>9. /\ \A x \in Monitores : ~EnCritica(proc'[p], x) /\ ~EnCritica(proc[p], x)
      /\ \A x \in Monitores : ~EnDevuelve(proc'[p], x) /\ ~EnDevuelve(proc[p], x)
      /\ ~EnAdelanta(proc'[p]) /\ ~EnAdelanta(proc[p])
  BY <1>2, <1>3 DEF EnCritica, EnDevuelve, EnAdelanta, Critica, Devuelve, Adelanta
<1>10. /\ \A x \in Monitores : memoria'[x].sem["mutex"] = memoria[x].sem["mutex"]
       /\ \A x \in Monitores : memoria'[x].sem["empty"] = memoria[x].sem["empty"]
  BY <1>6
<1>11. Exclusiva'
  BY <1>2, <1>9, <1>10, ExclusivaIgual
<1>12. Vacias'
  BY <1>1, <1>2, <1>9, <1>10, VaciasIgual
<1>. QED
  BY <1>8, <1>11, <1>12

(* The two loops take the mutex ...                                         *)
LEMMA EsperaMutexCuentas ==
  ASSUME Cuentas, NEW p \in Monitores, WaitMutex(p)
  PROVE  Inicio' /\ Exclusiva' /\ Vacias'
<1>1. PICK a \in {"anadir", "extraer"} :
        SemWait(p, "mutex", a) /\ a = IF EsComprobador(p) THEN "anadir" ELSE "extraer"
  BY DEF WaitMutex
<1>2. /\ Tipo /\ Pasa(p, "mutex", a) /\ a \in EstadosP /\ {"empty", "mutex"} \subseteq Semaforos
      /\ puestos' = puestos /\ turnos' = turnos
  BY <1>1 DEF Cuentas, SemWait, EstadosP, Semaforos, historia
<1>3. /\ proc[p].pc = "mutex" /\ proc'[p].pc = a /\ proc'[p].rol = proc[p].rol
      /\ proc'[p].mem = proc[p].mem /\ \A y \in Monitores \ {p} : proc'[y] = proc[y]
  BY <1>2, PasaTipo
<1>4. PICK m \in Monitores : m = proc[p].mem /\ proc[m].pc \notin Antes
  BY <1>3, Iniciada DEF PcMonitor, Tempranos, Antes
<1>7. /\ memoria'[m].sem["empty"] = memoria[m].sem["empty"]
      /\ memoria'[m].sem["mutex"] = memoria[m].sem["mutex"] - 1
      /\ \A x \in Monitores \ {m} : memoria'[x] = memoria[x]
  BY <1>1, <1>2, <1>4, SemWaitSem
<1>8. Inicio'
  BY <1>2, <1>3, <1>4, <1>7, InicioIgual DEF Antes
<1>9. /\ \A x \in Monitores : ~EnDevuelve(proc'[p], x) /\ ~EnDevuelve(proc[p], x)
      /\ EnAdelanta(proc'[p]) <=> EnAdelanta(proc[p])
  BY <1>1, <1>3 DEF EnDevuelve, EnAdelanta, Devuelve, Adelanta, EsComprobador
<1>10. Vacias'
  <2>1. \A x \in Monitores : memoria'[x].sem["empty"] = memoria[x].sem["empty"]
    BY <1>7
  <2>. QED
    BY <1>2, <1>3, <1>9, <2>1, VaciasIgual
<1>11. Exclusiva'
  <2>. SUFFICES ASSUME NEW x \in Monitores
                PROVE  (Cardinality(Dentro(x)) + memoria[x].sem["mutex"] <= 1)'
    BY DEF Exclusiva
  <2>0. Cardinality(Dentro(x)) + memoria[x].sem["mutex"] <= 1
    BY DEF Cuentas, Exclusiva
  <2>1. Dentro(x)' = {y \in Monitores : EnCritica(proc'[y], x)}
    BY DEF Dentro, EnCritica, Critica
  <2>2. CASE x = m
    <3>1. ~EnCritica(proc[p], m) /\ EnCritica(proc'[p], m)
      BY <1>3, <1>4 DEF EnCritica, Critica
    <3>2. Dentro(m)' = Dentro(m) \cup {p} /\ p \notin Dentro(m)
      BY <1>3, <2>1, <2>2, <3>1, DentroEs
    <3>3. /\ Cardinality(Dentro(m)') = Cardinality(Dentro(m)) + 1
          /\ Cardinality(Dentro(m)) \in Nat /\ memoria[m].sem["mutex"] \in Nat
      BY <1>2, <3>2, Tamanos, FS_AddElement
    <3>. QED
      BY <1>7, <2>0, <2>2, <3>3
  <2>3. CASE x # m
    <3>1. ~EnCritica(proc[p], x) /\ ~EnCritica(proc'[p], x)
      BY <1>3, <1>4, <2>3 DEF EnCritica
    <3>2. Dentro(x)' = Dentro(x)
      BY <1>3, <2>1, <3>1, DentroEs
    <3>. QED
      BY <1>7, <2>0, <2>3, <3>2
  <2>. QED
    BY <2>2, <2>3
<1>. QED
  BY <1>8, <1>10, <1>11

(* ... and give it back.                                                    *)
LEMMA PostMutexCuentas ==
  ASSUME Cuentas, NEW p \in Monitores, PostMutex(p)
  PROVE  Inicio' /\ Exclusiva' /\ Vacias'
<1>1. PICK a \in {"post_fill", "post_empty"} :
        /\ Pasa(p, "post_mutex", a) /\ a = IF EsComprobador(p) THEN "post_fill" ELSE "post_empty"
        /\ SemPost(p, "mutex") /\ UNCHANGED <<nombres, cola, min, muertos, historia>>
  BY DEF PostMutex
<1>2. /\ Tipo /\ a \in EstadosP /\ {"empty", "mutex"} \subseteq Semaforos
      /\ puestos' = puestos /\ turnos' = turnos
  BY <1>1 DEF Cuentas, EstadosP, Semaforos, historia
<1>3. /\ proc[p].pc = "post_mutex" /\ proc'[p].pc = a /\ proc'[p].rol = proc[p].rol
      /\ proc'[p].mem = proc[p].mem /\ \A y \in Monitores \ {p} : proc'[y] = proc[y]
  BY <1>1, <1>2, PasaTipo
<1>4. PICK m \in Monitores : m = proc[p].mem /\ proc[m].pc \notin Antes
  BY <1>3, Iniciada DEF PcMonitor, Tempranos, Antes
<1>5. /\ memoria'[m].sem["empty"] = memoria[m].sem["empty"]
      /\ memoria'[m].sem["mutex"] = memoria[m].sem["mutex"] + 1
      /\ \A x \in Monitores \ {m} : memoria'[x] = memoria[x]
  BY <1>1, <1>2, <1>4, SemPostTipo
<1>6. proc[p].rol \in {"comprobador", "monitor"}
  BY <1>2, <1>3, ConPapel
<1>7. Inicio'
  BY <1>2, <1>3, <1>4, <1>5, InicioIgual DEF Antes
<1>8. /\ \A x \in Monitores : EnDevuelve(proc'[p], x) <=> EnDevuelve(proc[p], x)
      /\ ~EnAdelanta(proc'[p]) /\ ~EnAdelanta(proc[p])
  BY <1>1, <1>3, <1>6 DEF EnDevuelve, EnAdelanta, Devuelve, Adelanta, EsComprobador
<1>9. Vacias'
  <2>1. \A x \in Monitores : memoria'[x].sem["empty"] = memoria[x].sem["empty"]
    BY <1>5
  <2>. QED
    BY <1>2, <1>3, <1>8, <2>1, VaciasIgual
<1>10. Exclusiva'
  <2>. SUFFICES ASSUME NEW x \in Monitores
                PROVE  (Cardinality(Dentro(x)) + memoria[x].sem["mutex"] <= 1)'
    BY DEF Exclusiva
  <2>0. Cardinality(Dentro(x)) + memoria[x].sem["mutex"] <= 1
    BY DEF Cuentas, Exclusiva
  <2>1. Dentro(x)' = {y \in Monitores : EnCritica(proc'[y], x)}
    BY DEF Dentro, EnCritica, Critica
  <2>2. CASE x = m
    <3>1. EnCritica(proc[p], m) /\ ~EnCritica(proc'[p], m)
      BY <1>3, <1>4 DEF EnCritica, Critica
    <3>2. Dentro(m)' = Dentro(m) \ {p} /\ p \in Dentro(m)
      BY <1>3, <2>1, <2>2, <3>1, DentroEs
    <3>3. /\ Cardinality(Dentro(m)') = Cardinality(Dentro(m)) - 1
          /\ Cardinality(Dentro(m)) \in Nat /\ memoria[m].sem["mutex"] \in Nat
      BY <1>2, <3>2, Tamanos, FS_RemoveElement
    <3>. QED
      BY <1>5, <2>0, <2>2, <3>3
  <2>3. CASE x # m
    <3>1. ~EnCritica(proc[p], x) /\ ~EnCritica(proc'[p], x)
      BY <1>3, <1>4, <2>3 DEF EnCritica
    <3>2. Dentro(x)' = Dentro(x)
      BY <1>3, <2>1, <3>1, DentroEs
    <3>. QED
      BY <1>5, <2>0, <2>3, <3>2
  <2>. QED
    BY <2>2, <2>3
<1>. QED
  BY <1>7, <1>9, <1>10

(* The comprobador moves the slot it has taken into the ring ...            *)
LEMMA RearCuentas ==
  ASSUME Cuentas, NEW p \in Monitores, Rear(p)
  PROVE  Inicio' /\ Exclusiva' /\ Vacias'
<1>1. /\ Tipo /\ Pasa(p, "rear", "post_mutex") /\ "post_mutex" \in EstadosP /\ turnos' = turnos
  BY DEF Cuentas, Rear, EstadosP
<1>2. /\ proc[p].pc = "rear" /\ proc'[p].pc = "post_mutex" /\ proc'[p].rol = proc[p].rol
      /\ proc'[p].mem = proc[p].mem /\ \A y \in Monitores \ {p} : proc'[y] = proc[y]
  BY <1>1, PasaTipo
<1>3. proc[p].rol = "comprobador" /\ proc[p].mem = p
  BY <1>1, <1>2, ConPapel DEF PcMonitor
<1>4. /\ puestos'[p] = Append(puestos[p], proc[p].dato)
      /\ \A m \in Monitores \ {p} : puestos'[m] = puestos[m]
  BY <1>1, <1>3 DEF Rear, Tipo, TypeOK
<1>5. \A m \in Monitores : memoria'[m].sem = memoria[m].sem
  BY <1>1, <1>3 DEF Rear, Tipo, TypeOK, Memoria
<1>6. Inicio'
  BY <1>1, <1>2, <1>3, <1>4, <1>5, InicioIgual DEF Antes
<1>7. /\ \A m \in Monitores : EnCritica(proc'[p], m) <=> EnCritica(proc[p], m)
      /\ \A m \in Monitores : ~EnDevuelve(proc'[p], m) /\ ~EnDevuelve(proc[p], m)
      /\ ~EnAdelanta(proc'[p]) /\ EnAdelanta(proc[p])
  BY <1>2, <1>3 DEF EnCritica, EnDevuelve, EnAdelanta, Critica, Devuelve, Adelanta
<1>8. Exclusiva'
  BY <1>2, <1>5, <1>7, ExclusivaIgual
<1>9. Vacias'
  <2>. SUFFICES ASSUME NEW m \in Monitores PROVE Cuenta(m)' = Cuenta(m)
    BY DEF Cuentas, Vacias
  <2>1. Devuelven(m)' = Devuelven(m)
    BY <1>2, <1>7, DevuelvenIgual
  <2>2. CASE m = p
    <3>1. Adelantado(p)' = 0 /\ Adelantado(p) = 1
      BY <1>7 DEF Adelantado
    <3>2. puestos[p] \in Seq(Dato) /\ proc[p].dato \in Dato /\ turnos[p] \in Seq(Monitores)
      BY <1>1 DEF Tipo, TypeOK, Proceso
    <3>3. Len(puestos'[p]) = Len(puestos[p]) + 1
      BY <1>4, <3>2, AppendProperties
    <3>4. Len(puestos[p]) \in Nat /\ Len(turnos[p]) \in Nat
      BY <3>2
    <3>5. EnAnillo(p)' = EnAnillo(p) + 1 /\ EnAnillo(p) \in Int
      BY <1>1, <3>3, <3>4 DEF EnAnillo
    <3>6. memoria[p].sem["empty"] \in Nat /\ Cardinality(Devuelven(p)) \in Nat
      BY <1>1, Tamanos DEF Semaforos
    <3>. QED
      BY <1>5, <2>1, <2>2, <3>1, <3>5, <3>6 DEF Cuenta
  <2>3. CASE m # p
    <3>1. Adelantado(m)' = Adelantado(m) /\ EnAnillo(m)' = EnAnillo(m)
      BY <1>1, <1>2, <1>4, <2>3 DEF Adelantado, EnAnillo
    <3>. QED
      BY <1>5, <2>1, <3>1 DEF Cuenta
  <2>. QED
    BY <2>2, <2>3
<1>. QED
  BY <1>6, <1>8, <1>9

(* ... a monitor takes a block out of it ...                                *)
LEMMA FrontCuentas ==
  ASSUME Cuentas, NEW p \in Monitores, Front(p)
  PROVE  Inicio' /\ Exclusiva' /\ Vacias'
<1>1. /\ Tipo /\ Pasa(p, "front", "post_mutex") /\ "post_mutex" \in EstadosP /\ puestos' = puestos
  BY DEF Cuentas, Front, EstadosP
<1>2. /\ proc[p].pc = "front" /\ proc'[p].pc = "post_mutex" /\ proc'[p].rol = proc[p].rol
      /\ proc'[p].mem = proc[p].mem /\ \A y \in Monitores \ {p} : proc'[y] = proc[y]
  BY <1>1, PasaTipo
<1>3. proc[p].rol = "monitor"
  BY <1>1, <1>2, ConPapel DEF PcComprobador
<1>4. PICK m \in Monitores : m = proc[p].mem /\ proc[m].pc \notin Antes
  BY <1>2, Iniciada DEF PcMonitor, Tempranos, Antes
<1>5. /\ turnos'[m] = Append(turnos[m], p)
      /\ \A x \in Monitores \ {m} : turnos'[x] = turnos[x]
  BY <1>1, <1>4 DEF Front, Tipo, TypeOK
<1>6. \A x \in Monitores : memoria'[x].sem = memoria[x].sem
  BY <1>1, <1>4 DEF Front, Tipo, TypeOK, Memoria
<1>7. Inicio'
  BY <1>1, <1>2, <1>3, <1>4, <1>5, <1>6, InicioIgual DEF Antes
<1>8. /\ \A x \in Monitores : EnCritica(proc'[p], x) <=> EnCritica(proc[p], x)
      /\ \A x \in Monitores : EnDevuelve(proc'[p], x) <=> x = m
      /\ \A x \in Monitores : ~EnDevuelve(proc[p], x)
      /\ ~EnAdelanta(proc'[p]) /\ ~EnAdelanta(proc[p])
  BY <1>2, <1>3, <1>4 DEF EnCritica, EnDevuelve, EnAdelanta, Critica, Devuelve, Adelanta
<1>9. Exclusiva'
  BY <1>2, <1>6, <1>8, ExclusivaIgual
<1>10. Vacias'
  <2>. SUFFICES ASSUME NEW x \in Monitores PROVE Cuenta(x)' = Cuenta(x)
    BY DEF Cuentas, Vacias
  <2>1. Adelantado(x)' = Adelantado(x)
    BY <1>2, <1>8 DEF Adelantado
  <2>2. CASE x = m
    <3>1. Devuelven(m)' = Devuelven(m) \cup {p} /\ p \notin Devuelven(m)
      BY <1>2, <1>8 DEF Devuelven
    <3>2. /\ Cardinality(Devuelven(m)') = Cardinality(Devuelven(m)) + 1
          /\ Cardinality(Devuelven(m)) \in Nat
      BY <1>1, <3>1, Tamanos, FS_AddElement
    <3>3. Len(turnos'[m]) = Len(turnos[m]) + 1 /\ Len(turnos[m]) \in Nat /\ Len(puestos[m]) \in Nat
      BY <1>1, <1>5, MemoriaDe, AppendProperties
    <3>4. EnAnillo(m)' = EnAnillo(m) - 1 /\ EnAnillo(m) \in Int
      BY <1>1, <3>3 DEF EnAnillo
    <3>5. memoria[m].sem["empty"] \in Nat /\ Adelantado(m) \in Int
      BY <1>1, Tamanos DEF Semaforos
    <3>. QED
      BY <1>6, <2>1, <2>2, <3>2, <3>4, <3>5 DEF Cuenta
  <2>3. CASE x # m
    <3>1. Devuelven(x)' = Devuelven(x)
      BY <1>2, <1>8, <2>3, DevuelvenIgual
    <3>2. EnAnillo(x)' = EnAnillo(x)
      BY <1>1, <1>5, <2>3 DEF EnAnillo
    <3>. QED
      BY <1>6, <2>1, <3>1, <3>2 DEF Cuenta
  <2>. QED
    BY <2>2, <2>3
<1>. QED
  BY <1>7, <1>9, <1>10

(* ... and gives its slot back.                                             *)
LEMMA PostEmptyCuentas ==
  ASSUME Cuentas, NEW p \in Monitores, PostEmpty(p)
  PROVE  Inicio' /\ Exclusiva' /\ Vacias'
<1>1. PICK a \in {"exit", "imprimir"} :
        /\ Pasa(p, "post_empty", a) /\ SemPost(p, "empty")
        /\ UNCHANGED <<nombres, cola, min, muertos, historia>>
  BY DEF PostEmpty
<1>2. /\ Tipo /\ a \in EstadosP /\ {"empty", "mutex"} \subseteq Semaforos
      /\ puestos' = puestos /\ turnos' = turnos
  BY <1>1 DEF Cuentas, EstadosP, Semaforos, historia
<1>3. /\ proc[p].pc = "post_empty" /\ proc'[p].pc = a /\ proc'[p].rol = proc[p].rol
      /\ proc'[p].mem = proc[p].mem /\ \A y \in Monitores \ {p} : proc'[y] = proc[y]
  BY <1>1, <1>2, PasaTipo
<1>4. PICK m \in Monitores : m = proc[p].mem /\ proc[m].pc \notin Antes
  BY <1>3, Iniciada DEF PcMonitor, Tempranos, Antes
<1>5. /\ memoria'[m].sem["empty"] = memoria[m].sem["empty"] + 1
      /\ memoria'[m].sem["mutex"] = memoria[m].sem["mutex"]
      /\ \A x \in Monitores \ {m} : memoria'[x] = memoria[x]
  BY <1>1, <1>2, <1>4, SemPostTipo
<1>6. proc[p].rol = "monitor"
  BY <1>2, <1>3, ConPapel DEF PcComprobador
<1>7. Inicio'
  BY <1>2, <1>3, <1>4, <1>5, InicioIgual DEF Antes
<1>8. /\ \A x \in Monitores : EnCritica(proc'[p], x) <=> EnCritica(proc[p], x)
      /\ \A x \in Monitores : EnDevuelve(proc[p], x) <=> x = m
      /\ \A x \in Monitores : ~EnDevuelve(proc'[p], x)
      /\ ~EnAdelanta(proc'[p]) /\ ~EnAdelanta(proc[p])
  BY <1>3, <1>4, <1>6 DEF EnCritica, EnDevuelve, EnAdelanta, Critica, Devuelve, Adelanta
<1>9. Exclusiva'
  <2>1. \A x \in Monitores : memoria'[x].sem["mutex"] = memoria[x].sem["mutex"]
    BY <1>5
  <2>. QED
    BY <1>3, <1>8, <2>1, ExclusivaIgual
<1>10. Vacias'
  <2>. SUFFICES ASSUME NEW x \in Monitores PROVE Cuenta(x)' = Cuenta(x)
    BY DEF Cuentas, Vacias
  <2>1. Adelantado(x)' = Adelantado(x) /\ EnAnillo(x)' = EnAnillo(x)
    BY <1>2, <1>3, <1>8 DEF Adelantado, EnAnillo
  <2>2. CASE x = m
    <3>1. Devuelven(m)' = Devuelven(m) \ {p} /\ p \in Devuelven(m)
      BY <1>3, <1>8 DEF Devuelven
    <3>2. /\ Cardinality(Devuelven(m)') = Cardinality(Devuelven(m)) - 1
          /\ Cardinality(Devuelven(m)) \in Nat
      BY <1>2, <3>1, Tamanos, FS_RemoveElement
    <3>3. memoria[m].sem["empty"] \in Nat /\ Adelantado(m) \in Int /\ EnAnillo(m) \in Int
      BY <1>2, Tamanos
    <3>. QED
      BY <1>5, <2>1, <2>2, <3>2, <3>3 DEF Cuenta
  <2>3. CASE x # m
    <3>1. Devuelven(x)' = Devuelven(x)
      BY <1>3, <1>8, <2>3, DevuelvenIgual
    <3>. QED
      BY <1>5, <2>1, <2>3, <3>1 DEF Cuenta
  <2>. QED
    BY <2>2, <2>3
<1>. QED
  BY <1>7, <1>9, <1>10

LEMMA PostFillCuentas ==
  ASSUME Cuentas, NEW p \in Monitores, PostFill(p)
  PROVE  Inicio' /\ Exclusiva' /\ Vacias'
<1>1. PICK a \in {"exit", "mq_receive"} :
        /\ Pasa(p, "post_fill", a) /\ SemPost(p, "fill")
        /\ UNCHANGED <<nombres, cola, min, muertos, historia>>
  BY DEF PostFill
<1>2. /\ Tipo /\ a \in EstadosP /\ {"empty", "mutex", "fill"} \subseteq Semaforos
      /\ puestos' = puestos /\ turnos' = turnos
  BY <1>1 DEF Cuentas, EstadosP, Semaforos, historia
<1>3. /\ proc[p].pc = "post_fill" /\ proc'[p].pc = a /\ proc'[p].rol = proc[p].rol
      /\ proc'[p].mem = proc[p].mem /\ \A y \in Monitores \ {p} : proc'[y] = proc[y]
  BY <1>1, <1>2, PasaTipo
<1>4. proc[p].rol = "comprobador" /\ proc[p].mem = p
  BY <1>2, <1>3, ConPapel DEF PcMonitor
<1>5. /\ memoria'[p].sem["empty"] = memoria[p].sem["empty"]
      /\ memoria'[p].sem["mutex"] = memoria[p].sem["mutex"]
      /\ \A x \in Monitores \ {p} : memoria'[x] = memoria[x]
  BY <1>1, <1>2, <1>4, SemPostTipo
<1>6. Inicio'
  BY <1>2, <1>3, <1>4, <1>5, InicioIgual DEF Antes
<1>7. /\ \A x \in Monitores : ~EnCritica(proc'[p], x) /\ ~EnCritica(proc[p], x)
      /\ \A x \in Monitores : ~EnDevuelve(proc'[p], x) /\ ~EnDevuelve(proc[p], x)
      /\ ~EnAdelanta(proc'[p]) /\ ~EnAdelanta(proc[p])
  BY <1>3, <1>4 DEF EnCritica, EnDevuelve, EnAdelanta, Critica, Devuelve, Adelanta
<1>8. /\ \A x \in Monitores : memoria'[x].sem["mutex"] = memoria[x].sem["mutex"]
      /\ \A x \in Monitores : memoria'[x].sem["empty"] = memoria[x].sem["empty"]
  BY <1>5
<1>9. Exclusiva'
  BY <1>3, <1>7, <1>8, ExclusivaIgual
<1>10. Vacias'
  BY <1>2, <1>3, <1>7, <1>8, VaciasIgual
<1>. QED
  BY <1>6, <1>9, <1>10

(* Inside the critical section the copies change no count.                  *)
LEMMA CopiasCuentas ==
  ASSUME Cuentas, NEW p \in Monitores, Anadir(p) \/ Extraer(p)
  PROVE  Inicio' /\ Exclusiva' /\ Vacias'
<1>1. Tipo /\ puestos' = puestos /\ turnos' = turnos
  BY DEF Cuentas, Anadir, Extraer, historia
<1>2. /\ \A y \in Monitores \ {p} : proc'[y] = proc[y]
      /\ proc'[p].rol = proc[p].rol /\ proc'[p].mem = proc[p].mem /\ proc[p].mem \in Monitores
      /\ \/ proc[p].pc = "anadir" /\ proc'[p].pc = "rear" /\ proc[p].rol = "comprobador"
         \/ proc[p].pc = "extraer" /\ proc'[p].pc = "front" /\ proc[p].rol = "monitor"
  <2>1. CASE Anadir(p)
    <3>1. Pasa(p, "anadir", "rear") /\ "rear" \in EstadosP
      BY <2>1 DEF Anadir, EstadosP
    <3>2. proc[p].pc = "anadir"
      BY <3>1 DEF Pasa, Despierto
    <3>3. proc[p].rol = "comprobador" /\ proc[p].mem = p
      BY <1>1, <3>2, ConPapel DEF PcMonitor
    <3>. QED
      BY <1>1, <3>1, <3>2, <3>3, PasaTipo
  <2>2. CASE Extraer(p)
    BY <1>1, <2>2, ExtraerTipo
  <2>. QED
    BY <2>1, <2>2
<1>3. \A x \in Monitores : memoria'[x].sem = memoria[x].sem
  <2>1. CASE Anadir(p)
    BY <1>1, <1>2, <2>1 DEF Anadir, Tipo, TypeOK, Memoria
  <2>2. CASE Extraer(p)
    BY <2>2 DEF Extraer
  <2>. QED
    BY <2>1, <2>2
<1>4. proc[proc[p].mem].pc \notin Antes
  BY <1>2, Iniciada DEF PcMonitor, PcComprobador, Tempranos, Antes
<1>5. Inicio'
  BY <1>1, <1>2, <1>3, <1>4, InicioIgual DEF Antes
<1>6. /\ \A x \in Monitores : EnCritica(proc'[p], x) <=> EnCritica(proc[p], x)
      /\ \A x \in Monitores : ~EnDevuelve(proc'[p], x) /\ ~EnDevuelve(proc[p], x)
      /\ EnAdelanta(proc'[p]) <=> EnAdelanta(proc[p])
  BY <1>2 DEF EnCritica, EnDevuelve, EnAdelanta, Critica, Devuelve, Adelanta
<1>7. Exclusiva'
  BY <1>2, <1>3, <1>6, ExclusivaIgual
<1>8. Vacias'
  BY <1>1, <1>2, <1>3, <1>6, VaciasIgual
<1>. QED
  BY <1>5, <1>7, <1>8

(* Sleeping, killing and mining change nothing of all this.                 *)
LEMMA AjenoCuentas ==
  ASSUME Cuentas, UNCHANGED <<proc, memoria, puestos, turnos>>
  PROVE  Inicio' /\ Exclusiva' /\ Vacias'
  BY DEF Cuentas, Inicio, SinIniciar, Exclusiva, Dentro, Vacias, Cuenta, Adelantado, EnAnillo, Devuelven

LEMMA CuentasPaso == Cuentas /\ [Next]_vars => Cuentas'
<1>. SUFFICES ASSUME Cuentas, [Next]_vars PROVE Cuentas'
  OBVIOUS
<1>1. Tipo'
  BY TipoPaso DEF Cuentas
<1>2. ASSUME NEW p \in Monitores, LanzaMonitor(p) \/ PasoMonitor(p) \/ Falla(p)
      PROVE  Inicio' /\ Exclusiva' /\ Vacias'
  <2>1. ASSUME NEW s, Duerme(p, s) PROVE Inicio' /\ Exclusiva' /\ Vacias'
    BY <2>1, AjenoCuentas DEF Duerme, historia
  <2>. QED
    BY <1>2, <2>1, SencillosCuentas, NuevosCuentas, SemInitCuentas, EsperaVaciaCuentas,
       EsperaLlenaCuentas, EsperaMutexCuentas, PostMutexCuentas, RearCuentas, FrontCuentas,
       PostEmptyCuentas, PostFillCuentas, CopiasCuentas
    DEF LanzaMonitor, PasoMonitor, Comprobador, Monitor
<1>3. ASSUME NEW n \in Mineros, LanzaMinero(n) \/ Minero(n)
      PROVE  Inicio' /\ Exclusiva' /\ Vacias'
  BY <1>3, AjenoCuentas DEF LanzaMinero, Minero, MqCrea, MqExiste, MqReabre, Argumentos, SinSolucion,
     Enviar, EnviarFin, historia
<1>4. ASSUME NEW x \in Monitores \cup Mineros, Mata(x)
      PROVE  Inicio' /\ Exclusiva' /\ Vacias'
  BY <1>4, AjenoCuentas DEF Mata, historia
<1>5. CASE UNCHANGED vars
  <2>1. UNCHANGED <<proc, memoria, puestos, turnos>>
    BY <1>5 DEF vars, historia
  <2>. QED
    BY <1>1, <2>1, AjenoCuentas DEF Cuentas
<1>6. CASE Next
  <2>1. Inicio' /\ Exclusiva' /\ Vacias'
    BY <1>2, <1>3, <1>4, <1>6 DEF Next
  <2>. QED
    BY <1>1, <2>1 DEF Cuentas
<1>. QED
  BY <1>5, <1>6

LEMMA CuentasBastan == Cuentas => MemoriaSegura
<1>. SUFFICES ASSUME Cuentas PROVE MemoriaSegura
  OBVIOUS
<1>1. Tipo
  BY DEF Cuentas
<1>2. ASSUME NEW m \in Monitores PROVE Cardinality(Dentro(m)) <= 1
  <2>1. Cardinality(Dentro(m)) \in Nat /\ memoria[m].sem["mutex"] \in Nat
    BY <1>1, Tamanos DEF Semaforos
  <2>2. Cardinality(Dentro(m)) + memoria[m].sem["mutex"] <= 1
    BY DEF Cuentas, Exclusiva
  <2>. QED
    BY <2>1, <2>2
<1>3. ASSUME NEW p \in Monitores, proc[p].pc \in {"anadir", "rear"} PROVE EnAnillo(p) < BUFFER_SIZE
  <2>1. proc[p].rol = "comprobador"
    BY <1>1, <1>3, ConPapel DEF PcMonitor
  <2>2. Adelantado(p) = 1
    BY <1>3, <2>1 DEF Adelantado, EnAdelanta, Adelanta
  <2>3. memoria[p].sem["empty"] + 1 + EnAnillo(p) + Cardinality(Devuelven(p)) <= BUFFER_SIZE
    BY <2>2 DEF Cuentas, Vacias, Cuenta
  <2>4. /\ memoria[p].sem["empty"] \in Nat /\ Cardinality(Devuelven(p)) \in Nat
        /\ EnAnillo(p) \in Int /\ BUFFER_SIZE \in Nat
    BY <1>1, Tamanos, P3Assumption DEF Semaforos
  <2>. QED
    BY <2>3, <2>4
<1>. QED
  BY <1>1, <1>2, <1>3 DEF MemoriaSegura, ExclusionMutua, NoSobrescribe, Tipo

(* With any number of launches of p3/monitor.c and p3/minero.c, memories    *)
(* shared, abandoned or without semaphores yet, and whoever is killed: at   *)
(* most one program is in the critical section of a memory, and no block    *)
(* that is not read yet is overwritten.                                     *)
THEOREM MemoriaSiempreSegura == Spec => []MemoriaSegura
  BY CuentasInicial, CuentasPaso, CuentasBastan, PTL DEF Spec

-----------------------------------------------------------------------------
(* What the ring of a memory holds, and who takes it out.                   *)

EnReserva(x, m) == x.rol = "monitor" /\ x.mem = m /\ x.pc \in {"mutex", "extraer", "front"}
EnPendiente(x)  == x.rol = "comprobador" /\ x.pc \in {"post_mutex", "post_fill"}

(* Of the blocks of a ring, those its semaphore counts, the one its         *)
(* comprobador has not counted yet, and those that monitors have taken off  *)
(* the semaphore and not yet out of the ring.                               *)
Reservan(m) == {p \in Monitores : EnReserva(proc[p], m)}
Pendiente(m) == IF EnPendiente(proc[m]) THEN 1 ELSE 0
Llenado(m) == memoria[m].sem["fill"] + Pendiente(m) + Cardinality(Reservan(m))
Llenas == \A m \in Monitores : Llenado(m) <= EnAnillo(m)

(* From front to rear, the blocks put in and not taken out, in order.       *)
Contenido ==
  \A m \in Monitores :
    /\ memoria[m].rear = (memoria[m].front + EnAnillo(m)) % BUFFER_SIZE
    /\ \A j \in 0 .. EnAnillo(m) - 1 :
         memoria[m].bloque[(memoria[m].front + j) % BUFFER_SIZE] = puestos[m][Len(turnos[m]) + 1 + j]

(* A block copied, before rear or front has moved on.                       *)
CopiaC == \A p \in Monitores : proc[p].rol = "comprobador" /\ proc[p].pc = "rear" =>
                                 memoria[p].bloque[memoria[p].rear] = proc[p].dato
CopiaM == \A p \in Monitores : proc[p].rol = "monitor" /\ proc[p].pc = "front" =>
                                 proc[p].dato = puestos[proc[p].mem][Len(turnos[proc[p].mem]) + 1]

Duenos == \A m \in Monitores : \A k \in 1 .. Len(turnos[m]) :
            proc[turnos[m][k]].rol = "monitor" /\ proc[turnos[m][k]].mem = m
Callados == \A p \in Monitores : proc[p].rol # "monitor" => impresos[p] = <<>>

Turnarse == Llenas /\ Contenido /\ CopiaC /\ CopiaM /\ Duenos /\ Callados /\ Reparto
Reparte == Cuentas /\ Turnarse

(* How much of Llenado(m) is there because of a program p.                  *)
Peso(x, p, m) == (IF EnReserva(x, m) THEN 1 ELSE 0) + (IF p = m /\ EnPendiente(x) THEN 1 ELSE 0)

LEMMA TamanosLleno ==
  ASSUME Tipo, NEW m \in Monitores
  PROVE  /\ IsFiniteSet(Reservan(m)) /\ Cardinality(Reservan(m)) \in Nat
         /\ memoria[m].sem["fill"] \in Nat /\ EnAnillo(m) \in Int /\ Pendiente(m) \in {0, 1}
         /\ Len(puestos[m]) \in Nat /\ Len(turnos[m]) \in Nat
<1>1. Reservan(m) \in SUBSET Monitores
  BY DEF Reservan
<1>2. IsFiniteSet(Reservan(m)) /\ Cardinality(Reservan(m)) \in Nat
  BY <1>1, P3Assumption, FS_Subset, FS_CardinalityType
<1>3. Len(puestos[m]) \in Nat /\ Len(turnos[m]) \in Nat
  BY MemoriaDe
<1>. QED
  BY <1>2, <1>3, MemoriaDe DEF EnAnillo, Pendiente, Semaforos

LEMMA LlenasCambia ==
  ASSUME Tipo, Llenas, Tipo', NEW p \in Monitores, \A y \in Monitores \ {p} : proc'[y] = proc[y],
         \A m \in Monitores :
           memoria'[m].sem["fill"] + Peso(proc'[p], p, m) + EnAnillo(m)
             <= memoria[m].sem["fill"] + Peso(proc[p], p, m) + EnAnillo(m)'
  PROVE  Llenas'
<1>. SUFFICES ASSUME NEW m \in Monitores PROVE Llenado(m)' <= EnAnillo(m)'
  BY DEF Llenas
<1>. DEFINE r == IF EnReserva(proc[p], m) THEN 1 ELSE 0
            s == IF EnReserva(proc'[p], m) THEN 1 ELSE 0
<1>1. /\ IsFiniteSet(Reservan(m)) /\ Cardinality(Reservan(m)) \in Nat
      /\ memoria[m].sem["fill"] \in Nat /\ EnAnillo(m) \in Int
  BY TamanosLleno
<1>2. memoria'[m].sem["fill"] \in Nat /\ EnAnillo(m)' \in Int
  <2>1. memoria'[m].sem \in [Semaforos -> Nat] /\ Len(puestos'[m]) \in Nat /\ Len(turnos'[m]) \in Nat
    BY DEF Tipo, TypeOK, Memoria
  <2>. QED
    BY <2>1 DEF Semaforos, EnAnillo
<1>3. Cardinality(Reservan(m)') = Cardinality(Reservan(m)) - r + s
  <2>1. p \in Reservan(m) <=> EnReserva(proc[p], m)
    BY DEF Reservan
  <2>2. CASE EnReserva(proc[p], m) /\ ~EnReserva(proc'[p], m)
    <3>1. Reservan(m)' = Reservan(m) \ {p}
      BY <2>2 DEF Reservan
    <3>2. Cardinality(Reservan(m) \ {p}) = Cardinality(Reservan(m)) - 1
      BY <1>1, <2>1, <2>2, FS_RemoveElement
    <3>. QED
      BY <1>1, <2>2, <3>1, <3>2
  <2>3. CASE ~EnReserva(proc[p], m) /\ EnReserva(proc'[p], m)
    <3>1. Reservan(m)' = Reservan(m) \cup {p}
      BY <2>3 DEF Reservan
    <3>2. Cardinality(Reservan(m) \cup {p}) = Cardinality(Reservan(m)) + 1
      BY <1>1, <2>1, <2>3, FS_AddElement
    <3>. QED
      BY <1>1, <2>3, <3>1, <3>2
  <2>4. CASE EnReserva(proc[p], m) <=> EnReserva(proc'[p], m)
    <3>1. Reservan(m)' = Reservan(m)
      BY <2>4 DEF Reservan
    <3>. QED
      BY <1>1, <2>4, <3>1
  <2>. QED
    BY <2>2, <2>3, <2>4
<1>4. /\ Pendiente(m)' - (IF p = m /\ EnPendiente(proc'[p]) THEN 1 ELSE 0)
           = Pendiente(m) - (IF p = m /\ EnPendiente(proc[p]) THEN 1 ELSE 0)
  BY DEF Pendiente
<1>5. Llenado(m) <= EnAnillo(m)
  BY DEF Llenas
<1>6. Pendiente(m) \in {0, 1} /\ Pendiente(m)' \in {0, 1}
  BY DEF Pendiente
<1>. QED
  BY <1>1, <1>2, <1>3, <1>4, <1>5, <1>6 DEF Llenado, Peso

(* Offsets from front are at most BUFFER_SIZE, so a remainder takes         *)
(* BUFFER_SIZE away at most once.                                           *)
LEMMA RestoSuma ==
  ASSUME NEW f \in Ranuras, NEW n \in 0 .. BUFFER_SIZE
  PROVE  (f + n) % BUFFER_SIZE =
           IF f + n < BUFFER_SIZE THEN f + n ELSE (f + n) - BUFFER_SIZE
<1>. DEFINE x == f + n
<1>1. BUFFER_SIZE \in Nat \ {0} /\ x \in 0 .. 2 * BUFFER_SIZE - 1
  BY P3Assumption DEF Ranuras
<1>. HIDE DEF x
<1>2. CASE x \in 0 .. BUFFER_SIZE - 1
  <2>1. x % BUFFER_SIZE = x
    BY <1>1, <1>2
  <2>. QED
    BY <1>1, <1>2, <2>1 DEF x
<1>3. CASE x \in BUFFER_SIZE .. 2 * BUFFER_SIZE - 1
  <2>1. x % BUFFER_SIZE = x - BUFFER_SIZE
    BY <1>1, <1>3
  <2>. QED
    BY <1>1, <1>3, <2>1 DEF x
<1>. QED
  BY <1>1, <1>2, <1>3

(* Two offsets below BUFFER_SIZE are two slots.                             *)
LEMMA RestoDistinto ==
  ASSUME NEW f \in Ranuras, NEW j \in Ranuras, NEW n \in Ranuras, j # n
  PROVE  (f + j) % BUFFER_SIZE # (f + n) % BUFFER_SIZE
<1>1. j \in 0 .. BUFFER_SIZE /\ n \in 0 .. BUFFER_SIZE
  BY P3Assumption DEF Ranuras
<1>2. /\ (f + j) % BUFFER_SIZE = IF f + j < BUFFER_SIZE THEN f + j ELSE (f + j) - BUFFER_SIZE
      /\ (f + n) % BUFFER_SIZE = IF f + n < BUFFER_SIZE THEN f + n ELSE (f + n) - BUFFER_SIZE
  BY <1>1, RestoSuma
<1>. QED
  BY <1>2, P3Assumption DEF Ranuras

(* rear moves on by one, and so does front.                                 *)
LEMMA RestoSiguiente ==
  ASSUME NEW f \in Ranuras, NEW n \in Ranuras
  PROVE  /\ (((f + n) % BUFFER_SIZE) + 1) % BUFFER_SIZE = (f + (n + 1)) % BUFFER_SIZE
         /\ (((f + 1) % BUFFER_SIZE) + n) % BUFFER_SIZE = (f + (n + 1)) % BUFFER_SIZE
<1>1. /\ n \in 0 .. BUFFER_SIZE /\ n + 1 \in 0 .. BUFFER_SIZE /\ 1 \in 0 .. BUFFER_SIZE
  BY P3Assumption DEF Ranuras
<1> DEFINE g == (f + n) % BUFFER_SIZE
           h == (f + 1) % BUFFER_SIZE
           k == (f + (n + 1)) % BUFFER_SIZE
<1>2. /\ g = IF f + n < BUFFER_SIZE THEN f + n ELSE (f + n) - BUFFER_SIZE
      /\ h = IF f + 1 < BUFFER_SIZE THEN f + 1 ELSE (f + 1) - BUFFER_SIZE
      /\ k = IF f + (n + 1) < BUFFER_SIZE THEN f + (n + 1) ELSE (f + (n + 1)) - BUFFER_SIZE
  BY <1>1, RestoSuma
<1> HIDE DEF g, h, k
<1>3. g \in Ranuras /\ h \in Ranuras
  BY <1>1, <1>2, P3Assumption DEF Ranuras
<1>4. /\ (g + 1) % BUFFER_SIZE = IF g + 1 < BUFFER_SIZE THEN g + 1 ELSE (g + 1) - BUFFER_SIZE
      /\ (h + n) % BUFFER_SIZE = IF h + n < BUFFER_SIZE THEN h + n ELSE (h + n) - BUFFER_SIZE
  BY <1>1, <1>3, RestoSuma
<1>5. (g + 1) % BUFFER_SIZE = k /\ (h + n) % BUFFER_SIZE = k
  BY <1>2, <1>4, P3Assumption DEF Ranuras
<1>. QED
  BY <1>5 DEF g, h, k

LEMMA TurnosTamano ==
  ASSUME NEW m, NEW p, NEW k \in Nat
  PROVE  IsFiniteSet(Turnos(p, m, k)) /\ Cardinality(Turnos(p, m, k)) \in Nat
<1>1. Turnos(p, m, k) \in SUBSET (1 .. k) /\ IsFiniteSet(1 .. k)
  BY FS_Interval DEF Turnos
<1>. QED
  BY <1>1, FS_Subset, FS_CardinalityType

(* One turn more.                                                           *)
LEMMA TurnosSiguiente ==
  ASSUME NEW m, NEW p, NEW k \in Nat
  PROVE  Cardinality(Turnos(p, m, k + 1)) =
           IF turnos[m][k + 1] = p THEN Cardinality(Turnos(p, m, k)) + 1 ELSE Cardinality(Turnos(p, m, k))
<1>1. 1 .. k + 1 = (1 .. k) \cup {k + 1} /\ k + 1 \notin 1 .. k
  OBVIOUS
<1>2. k + 1 \notin Turnos(p, m, k) /\ IsFiniteSet(Turnos(p, m, k))
  BY <1>1, TurnosTamano DEF Turnos
<1>3. CASE turnos[m][k + 1] = p
  <2>1. Turnos(p, m, k + 1) = Turnos(p, m, k) \cup {k + 1}
    BY <1>1, <1>3 DEF Turnos
  <2>2. Cardinality(Turnos(p, m, k) \cup {k + 1}) = Cardinality(Turnos(p, m, k)) + 1
    BY <1>2, FS_AddElement
  <2>. QED
    BY <1>3, <2>1, <2>2
<1>4. CASE turnos[m][k + 1] # p
  <2>1. Turnos(p, m, k + 1) = Turnos(p, m, k)
    BY <1>1, <1>4 DEF Turnos
  <2>. QED
    BY <1>4, <2>1
<1>. QED
  BY <1>3, <1>4

(* The turns of a program lie within what it has taken.                     *)
LEMMA TurnosDentro ==
  ASSUME NEW m, NEW p, NEW n \in Nat, NEW k \in 1 .. n, turnos[m][k] = p
  PROVE  Cardinality(Turnos(p, m, k)) \in 1 .. Cardinality(Turnos(p, m, n))
<1>1. Turnos(p, m, k) \in SUBSET Turnos(p, m, n) /\ k \in Turnos(p, m, k)
  BY DEF Turnos
<1>2. /\ IsFiniteSet(Turnos(p, m, n)) /\ Cardinality(Turnos(p, m, n)) \in Nat
      /\ IsFiniteSet(Turnos(p, m, k)) /\ Cardinality(Turnos(p, m, k)) \in Nat
  BY TurnosTamano
<1>3. Cardinality(Turnos(p, m, k)) <= Cardinality(Turnos(p, m, n))
  BY <1>1, <1>2, FS_Subset
<1>4. Cardinality(Turnos(p, m, k)) # 0
  BY <1>1, <1>2, FS_EmptySet
<1>. QED
  BY <1>2, <1>3, <1>4

(* Nobody has a turn of a memory that is not a monitor of it.               *)
LEMMA SinTurnos ==
  ASSUME Tipo, Duenos, NEW p \in Monitores, NEW m \in Monitores, proc[p].rol # "monitor"
  PROVE  /\ \A k \in 1 .. Len(turnos[m]) : turnos[m][k] # p
         /\ Cardinality(Turnos(p, m, Len(turnos[m]))) = 0
<1>1. \A k \in 1 .. Len(turnos[m]) : turnos[m][k] # p
  BY DEF Duenos
<1>2. Turnos(p, m, Len(turnos[m])) = {}
  BY <1>1 DEF Turnos
<1>. QED
  BY <1>1, <1>2, FS_EmptySet

MismoAnillo(m) ==
  /\ memoria'[m].bloque = memoria[m].bloque
  /\ memoria'[m].front = memoria[m].front /\ memoria'[m].rear = memoria[m].rear

(* What a step of p keeps of the rest.                                      *)
LEMMA TurnarseIgual ==
  ASSUME Reparte, Tipo', NEW p \in Monitores, \A y \in Monitores \ {p} : proc'[y] = proc[y],
         proc[p].rol = "monitor" => /\ proc'[p].rol = "monitor" /\ proc'[p].mem = proc[p].mem
                                    /\ Tomados(p)' = Tomados(p),
         proc[p].rol # "monitor" => Tomados(p)' = <<>>,
         proc'[p].rol # "monitor" => impresos'[p] = <<>>,
         \A y \in Monitores \ {p} : impresos'[y] = impresos[y],
         \A m \in Monitores : MismoAnillo(m), puestos' = puestos, turnos' = turnos,
         proc'[p].pc \notin {"rear", "front"},
         \A m \in Monitores : memoria'[m].sem["fill"] + Peso(proc'[p], p, m)
                                <= memoria[m].sem["fill"] + Peso(proc[p], p, m)
  PROVE  Turnarse'
<1>1. /\ Tipo /\ Llenas /\ Contenido /\ CopiaC /\ CopiaM /\ Duenos /\ Callados /\ Reparto
  BY DEF Reparte, Turnarse, Cuentas
<1>2. \A m \in Monitores : EnAnillo(m)' = EnAnillo(m) /\ EnAnillo(m) \in Int
  BY <1>1, TamanosLleno DEF EnAnillo
<1>3. Llenas'
  <2>1. ASSUME NEW m \in Monitores
        PROVE  memoria'[m].sem["fill"] + Peso(proc'[p], p, m) + EnAnillo(m)
                 <= memoria[m].sem["fill"] + Peso(proc[p], p, m) + EnAnillo(m)'
    <3>1. Peso(proc'[p], p, m) \in Nat /\ Peso(proc[p], p, m) \in Nat
      BY DEF Peso
    <3>2. memoria'[m].sem["fill"] + Peso(proc'[p], p, m) <= memoria[m].sem["fill"] + Peso(proc[p], p, m)
      OBVIOUS
    <3>3. memoria'[m].sem \in [Semaforos -> Nat] /\ memoria[m].sem \in [Semaforos -> Nat]
      BY <1>1 DEF Tipo, TypeOK, Memoria
    <3>4. memoria'[m].sem["fill"] \in Nat /\ memoria[m].sem["fill"] \in Nat
      BY <3>3 DEF Semaforos
    <3>. QED
      BY <1>2, <3>1, <3>2, <3>4
  <2>. QED
    BY <1>1, <2>1, LlenasCambia
<1>4. Contenido'
  BY <1>1, <1>2 DEF Contenido, MismoAnillo
<1>5. CopiaC' /\ CopiaM'
  BY <1>1 DEF CopiaC, CopiaM, MismoAnillo
<1>6. ASSUME NEW y \in Monitores, proc[y].rol = "monitor"
      PROVE  proc'[y].rol = "monitor" /\ proc'[y].mem = proc[y].mem /\ Tomados(y)' = Tomados(y)
  BY <1>6 DEF Tomados, EnMano
<1>7. ASSUME NEW m \in Monitores, NEW k \in 1 .. Len(turnos[m]) PROVE turnos[m][k] \in Monitores
  BY <1>1, MemoriaDe
<1>8. Duenos'
  BY <1>1, <1>6, <1>7 DEF Duenos
<1>9. Callados'
  BY <1>1 DEF Callados
<1>10. Reparto'
  <2>0. \A y, m, k : Turnos(y, m, k)' = Turnos(y, m, k)
    BY DEF Turnos
  <2>. SUFFICES ASSUME NEW m \in Monitores
                PROVE  /\ EnAnillo(m)' >= 0
                       /\ \A y \in Monitores : proc'[y].rol = "monitor" /\ proc'[y].mem = m =>
                            /\ Len(Tomados(y)') = Cardinality(Turnos(y, m, Len(turnos[m])))
                            /\ \A k \in 1 .. Len(turnos[m]) : turnos[m][k] = y =>
                                 Tomados(y)'[Cardinality(Turnos(y, m, k))] = puestos[m][k]
    BY <2>0 DEF Reparto
  <2>1. EnAnillo(m)' >= 0
    BY <1>1, <1>2 DEF Reparto
  <2>2. ASSUME NEW y \in Monitores, proc'[y].rol = "monitor", proc'[y].mem = m
        PROVE  /\ Len(Tomados(y)') = Cardinality(Turnos(y, m, Len(turnos[m])))
               /\ \A k \in 1 .. Len(turnos[m]) : turnos[m][k] = y =>
                    Tomados(y)'[Cardinality(Turnos(y, m, k))] = puestos[m][k]
    <3>1. CASE proc[y].rol = "monitor"
      BY <1>1, <1>6, <2>2, <3>1 DEF Reparto
    <3>2. CASE proc[y].rol # "monitor"
      <4>1. y = p /\ Tomados(y)' = <<>>
        BY <2>2, <3>2
      <4>2. Len(<<>>) = 0
        OBVIOUS
      <4>. QED
        BY <1>1, <3>2, <4>1, <4>2, SinTurnos
    <3>. QED
      BY <3>1, <3>2
  <2>. QED
    BY <2>1, <2>2
<1>. QED
  BY <1>3, <1>4, <1>5, <1>8, <1>9, <1>10 DEF Turnarse

Mano == {"post_mutex", "post_empty", "imprimir", "exit"}

LEMMA PasaTurnarse ==
  ASSUME Reparte, Tipo', NEW p \in Monitores, NEW de, NEW a \in EstadosP, Pasa(p, de, a),
         historia' = historia, \A m \in Monitores : MismoAnillo(m), a \notin {"rear", "front"},
         proc[p].rol = "monitor" => (de \in Mano <=> a \in Mano),
         \A m \in Monitores : memoria'[m].sem["fill"] + Peso(proc'[p], p, m)
                                <= memoria[m].sem["fill"] + Peso(proc[p], p, m)
  PROVE  Turnarse'
<1>1. Tipo /\ Callados
  BY DEF Reparte, Turnarse, Cuentas
<1>2. /\ proc[p].pc = de /\ proc'[p].pc = a /\ proc'[p].rol = proc[p].rol
      /\ proc'[p].mem = proc[p].mem /\ proc'[p].dato = proc[p].dato
      /\ \A y \in Monitores \ {p} : proc'[y] = proc[y]
  BY <1>1, PasaTipo
<1>3. puestos' = puestos /\ turnos' = turnos /\ impresos' = impresos
  BY DEF historia
<1>4. proc[p].rol = "monitor" => Tomados(p)' = Tomados(p)
  BY <1>2, <1>3 DEF Tomados, EnMano, Mano
<1>5. proc[p].rol # "monitor" => Tomados(p)' = <<>> /\ impresos'[p] = <<>>
  <2>1. <<>> \o <<>> = <<>>
    OBVIOUS
  <2>. QED
    BY <1>1, <1>2, <1>3, <2>1 DEF Tomados, EnMano, Callados
<1>. QED
  BY <1>2, <1>3, <1>4, <1>5, TurnarseIgual

LEMMA SemAnillo ==
  ASSUME Tipo, NEW m \in Monitores, NEW s, NEW v, memoria' = [memoria EXCEPT ![m].sem[s] = v]
  PROVE  \A x \in Monitores : MismoAnillo(x)
  BY DEF Tipo, TypeOK, Memoria, MismoAnillo

LEMMA SencillosTurnarse ==
  ASSUME Reparte, Tipo', NEW p \in Monitores,
         \/ ShmExiste(p) \/ ShmUnlink(p) \/ Falla(p) \/ MqUnlink(p) \/ Mmap(p) \/ Sigbus(p)
         \/ Ftruncate(p)
  PROVE  Turnarse'
<1>1. PICK de, a : /\ Pasa(p, de, a)
                   /\ <<de, a>> \in {<<"shm_open", "abrir">>, <<"shm_unlink", "mmap">>,
                        <<"ftruncate", "fallo">>, <<"sem_init", "fallo">>, <<"mmap", "fallo">>,
                        <<"mq_unlink", "mq_receive">>, <<"mmap", "fill">>, <<"fill", "sigbus">>,
                        <<"ftruncate", "sem_init">>}
  BY DEF ShmExiste, ShmUnlink, Falla, FtruncateFalla, C_MmapFalla, M_MmapFalla,
         MqUnlink, Mmap, Sigbus, Ftruncate
<1>2. /\ a \in EstadosP /\ a \notin {"rear", "front"} /\ ~(de \in Mano) /\ ~(a \in Mano)
      /\ Tipo /\ de \notin {"mutex", "extraer", "front", "post_mutex", "post_fill"}
      /\ a \notin {"mutex", "extraer", "front", "post_mutex", "post_fill"}
  BY <1>1 DEF EstadosP, Mano, Reparte, Cuentas
<1>3. historia' = historia
  BY DEF ShmExiste, ShmUnlink, Falla, FtruncateFalla, C_MmapFalla, M_MmapFalla,
         MqUnlink, Mmap, Sigbus, Ftruncate
<1>4. \A m \in Monitores : MismoAnillo(m) /\ memoria'[m].sem = memoria[m].sem
  <2>1. CASE Ftruncate(p)
    BY <1>2, <2>1 DEF Ftruncate, Tipo, TypeOK, Memoria, MismoAnillo
  <2>2. CASE ~Ftruncate(p)
    BY <2>2 DEF ShmExiste, ShmUnlink, Falla, FtruncateFalla, C_MmapFalla, M_MmapFalla,
         MqUnlink, Mmap, Sigbus, MismoAnillo
  <2>. QED
    BY <2>1, <2>2
<1>5. proc[p].pc = de /\ proc'[p].pc = a
  BY <1>1, <1>2, PasaTipo
<1>6. \A m \in Monitores : Peso(proc'[p], p, m) = 0 /\ Peso(proc[p], p, m) = 0
  <2>1. /\ \A m : ~EnReserva(proc'[p], m) /\ ~EnReserva(proc[p], m)
        /\ ~EnPendiente(proc'[p]) /\ ~EnPendiente(proc[p])
    BY <1>2, <1>5 DEF EnReserva, EnPendiente
  <2>. QED
    BY <2>1 DEF Peso
<1>7. \A m \in Monitores : memoria'[m].sem["fill"] \in Nat /\ memoria[m].sem["fill"] \in Nat
  BY <1>2, <1>4, TamanosLleno
<1>8. \A m \in Monitores : memoria'[m].sem["fill"] + Peso(proc'[p], p, m)
                             <= memoria[m].sem["fill"] + Peso(proc[p], p, m)
  BY <1>4, <1>6, <1>7
<1>. QED
  BY <1>1, <1>2, <1>3, <1>4, <1>8, PasaTurnarse

(* The waits ...                                                            *)
LEMMA EsperasTurnarse ==
  ASSUME Reparte, Tipo', NEW p \in Monitores,
         SemWait(p, "empty", "mutex") \/ SemWait(p, "fill", "mutex") \/ WaitMutex(p)
  PROVE  Turnarse'
<1>1. PICK s \in {"empty", "fill", "mutex"}, a \in {"mutex", "anadir", "extraer"} :
        /\ SemWait(p, s, a)
        /\ s = "mutex" => a = IF EsComprobador(p) THEN "anadir" ELSE "extraer"
        /\ s # "mutex" => a = "mutex"
  BY DEF WaitMutex
<1>2. /\ Pasa(p, s, a) /\ a \in EstadosP /\ a \notin {"rear", "front"} /\ s \notin Mano /\ a \notin Mano
      /\ historia' = historia /\ Tipo /\ s \in Semaforos /\ "fill" \in Semaforos
  BY <1>1 DEF SemWait, EstadosP, Mano, Reparte, Cuentas, Semaforos
<1>3. proc[p].pc = s /\ proc'[p].pc = a /\ proc'[p].rol = proc[p].rol /\ proc'[p].mem = proc[p].mem
  BY <1>2, PasaTipo
<1>4. PICK m \in Monitores : m = proc[p].mem
  BY <1>1, <1>2, <1>3, ConPapel
<1>5. \A x \in Monitores : MismoAnillo(x)
  BY <1>1, <1>2, <1>4, SemAnillo DEF SemWait
<1>6. /\ memoria'[m].sem[s] = memoria[m].sem[s] - 1
      /\ \A t \in Semaforos \ {s} : memoria'[m].sem[t] = memoria[m].sem[t]
      /\ \A x \in Monitores \ {m} : memoria'[x] = memoria[x]
  BY <1>1, <1>2, <1>4, SemWaitSem
<1>7. /\ s = "fill" => proc[p].rol = "monitor"
      /\ s = "empty" => proc[p].rol = "comprobador"
      /\ proc[p].rol \in {"monitor", "comprobador"}
  BY <1>1, <1>2, <1>3, ConPapel DEF PcComprobador, PcMonitor
<1>8. ASSUME NEW x \in Monitores
      PROVE  memoria'[x].sem["fill"] + Peso(proc'[p], p, x)
               <= memoria[x].sem["fill"] + Peso(proc[p], p, x)
  <2>1. memoria[x].sem["fill"] \in Nat
    BY <1>2, TamanosLleno
  <2>2. CASE s = "fill"
    <3>1. /\ Peso(proc[p], p, x) = 0
          /\ Peso(proc'[p], p, x) = IF x = m THEN 1 ELSE 0
      BY <1>1, <1>3, <1>4, <1>7, <2>2 DEF Peso, EnReserva, EnPendiente
    <3>2. memoria'[x].sem["fill"] = IF x = m THEN memoria[x].sem["fill"] - 1 ELSE memoria[x].sem["fill"]
      BY <1>6, <2>2
    <3>. QED
      BY <2>1, <3>1, <3>2
  <2>3. CASE s # "fill"
    <3>1. Peso(proc[p], p, x) = Peso(proc'[p], p, x) /\ Peso(proc[p], p, x) \in Nat
      BY <1>1, <1>3, <1>4, <1>7, <2>3 DEF Peso, EnReserva, EnPendiente, EsComprobador
    <3>2. memoria'[x].sem["fill"] = memoria[x].sem["fill"]
      BY <1>2, <1>6, <2>3
    <3>. QED
      BY <2>1, <3>1, <3>2
  <2>. QED
    BY <2>2, <2>3
<1>. QED
  BY <1>2, <1>5, <1>8, PasaTurnarse

(* ... and the posts.                                                       *)
LEMMA PostsTurnarse ==
  ASSUME Reparte, Tipo', NEW p \in Monitores, PostMutex(p) \/ PostFill(p) \/ PostEmpty(p)
  PROVE  Turnarse'
<1>1. PICK de \in {"post_mutex", "post_fill", "post_empty"}, s \in {"mutex", "fill", "empty"},
           a \in {"post_fill", "post_empty", "exit", "mq_receive", "imprimir"} :
        /\ Pasa(p, de, a) /\ SemPost(p, s) /\ UNCHANGED <<nombres, cola, min, muertos, historia>>
        /\ s = "fill" <=> de = "post_fill"
        /\ de = "post_mutex" => a = IF EsComprobador(p) THEN "post_fill" ELSE "post_empty"
        /\ de = "post_fill" => a \in {"exit", "mq_receive"}
        /\ de = "post_empty" => a \in {"exit", "imprimir"}
  BY DEF PostMutex, PostFill, PostEmpty
<1>2. /\ a \in EstadosP /\ a \notin {"rear", "front"} /\ historia' = historia /\ Tipo
      /\ s \in Semaforos /\ "fill" \in Semaforos
  BY <1>1 DEF EstadosP, Reparte, Cuentas, Semaforos
<1>3. proc[p].pc = de /\ proc'[p].pc = a /\ proc'[p].rol = proc[p].rol /\ proc'[p].mem = proc[p].mem
  BY <1>1, <1>2, PasaTipo
<1>4. PICK m \in Monitores : m = proc[p].mem
  BY <1>1, <1>2, <1>3, ConPapel
<1>5. \A x \in Monitores : MismoAnillo(x)
  BY <1>1, <1>2, <1>4, SemAnillo DEF SemPost
<1>6. /\ memoria'[m].sem[s] = memoria[m].sem[s] + 1
      /\ \A t \in Semaforos \ {s} : memoria'[m].sem[t] = memoria[m].sem[t]
      /\ \A x \in Monitores \ {m} : memoria'[x] = memoria[x]
  BY <1>1, <1>2, <1>4, SemPostTipo
<1>7. /\ de = "post_fill" => proc[p].rol = "comprobador" /\ m = p
      /\ de = "post_empty" => proc[p].rol = "monitor"
      /\ proc[p].rol \in {"monitor", "comprobador"} /\ (proc[p].rol = "comprobador" => m = p)
  BY <1>1, <1>2, <1>3, <1>4, ConPapel DEF PcComprobador, PcMonitor
<1>8. proc[p].rol = "monitor" => (de \in Mano <=> a \in Mano)
  BY <1>1, <1>7 DEF Mano, EsComprobador
<1>9. ASSUME NEW x \in Monitores
      PROVE  memoria'[x].sem["fill"] + Peso(proc'[p], p, x)
               <= memoria[x].sem["fill"] + Peso(proc[p], p, x)
  <2>1. memoria[x].sem["fill"] \in Nat
    BY <1>2, TamanosLleno
  <2>2. CASE s = "fill"
    <3>1. /\ Peso(proc'[p], p, x) = 0
          /\ Peso(proc[p], p, x) = IF x = m THEN 1 ELSE 0
      BY <1>1, <1>3, <1>4, <1>7, <2>2 DEF Peso, EnReserva, EnPendiente
    <3>2. memoria'[x].sem["fill"] = IF x = m THEN memoria[x].sem["fill"] + 1 ELSE memoria[x].sem["fill"]
      BY <1>6, <2>2
    <3>. QED
      BY <2>1, <3>1, <3>2
  <2>3. CASE s # "fill"
    <3>1. Peso(proc[p], p, x) = Peso(proc'[p], p, x) /\ Peso(proc[p], p, x) \in Nat
      BY <1>1, <1>3, <1>4, <1>7, <2>3 DEF Peso, EnReserva, EnPendiente, EsComprobador
    <3>2. memoria'[x].sem["fill"] = memoria[x].sem["fill"]
      BY <1>2, <1>6, <2>3
    <3>. QED
      BY <2>1, <3>1, <3>2
  <2>. QED
    BY <2>2, <2>3
<1>. QED
  BY <1>1, <1>2, <1>5, <1>8, <1>9, PasaTurnarse

(* A new role, a new queue, a new block: nothing is taken.                  *)
LEMMA NuevosTurnarse ==
  ASSUME Reparte, Tipo', NEW p \in Monitores, ShmCrea(p) \/ ShmAbre(p) \/ MqAbre(p) \/ MqReceive(p)
  PROVE  Turnarse'
<1>1. Tipo /\ Callados
  BY DEF Reparte, Turnarse, Cuentas
<1>2. memoria' = memoria /\ puestos' = puestos /\ turnos' = turnos /\ impresos' = impresos
  BY DEF ShmCrea, ShmAbre, MqAbre, MqReceive, historia
<1>3. /\ \A y \in Monitores \ {p} : proc'[y] = proc[y]
      /\ proc[p].pc \in {"shm_open", "abrir", "mq_open", "mq_receive"}
      /\ proc'[p].pc \in {"ftruncate", "fallo", "shm_unlink", "mq_unlink", "empty"}
      /\ proc[p].rol # "monitor"
  <2>1. CASE ShmCrea(p)
    <3>1. proc[p].rol = ""
      BY <1>1, <2>1, ShmCreaTipo
    <3>. QED
      BY <1>1, <2>1, <3>1 DEF ShmCrea, Despierto, Tipo, TypeOK, Proceso
  <2>2. CASE ShmAbre(p)
    <3>1. proc[p].pc = "abrir"
      BY <2>2 DEF ShmAbre, Despierto
    <3>. QED
      BY <1>1, <2>2, <3>1, ShmAbreTipo
  <2>3. CASE MqAbre(p)
    BY <1>1, <2>3, MqAbreTipo
  <2>4. CASE MqReceive(p)
    BY <1>1, <2>4, MqReceiveTipo
  <2>. QED
    BY <2>1, <2>2, <2>3, <2>4
<1>4. impresos[p] = <<>> /\ Tomados(p)' = <<>>
  <2>1. impresos[p] = <<>> /\ EnMano(p)' = <<>> /\ <<>> \o <<>> = <<>>
    BY <1>1, <1>3 DEF Callados, EnMano
  <2>. QED
    BY <1>2, <2>1 DEF Tomados
<1>5. \A m \in Monitores : Peso(proc'[p], p, m) = 0 /\ Peso(proc[p], p, m) = 0
  <2>1. /\ \A m : ~EnReserva(proc'[p], m) /\ ~EnReserva(proc[p], m)
        /\ ~EnPendiente(proc'[p]) /\ ~EnPendiente(proc[p])
    BY <1>3 DEF EnReserva, EnPendiente
  <2>. QED
    BY <2>1 DEF Peso
<1>6. \A m \in Monitores : memoria'[m].sem["fill"] + Peso(proc'[p], p, m)
                             <= memoria[m].sem["fill"] + Peso(proc[p], p, m)
  BY <1>1, <1>2, <1>5, TamanosLleno
<1>7. \A m \in Monitores : MismoAnillo(m)
  BY <1>2 DEF MismoAnillo
<1>. QED
  BY <1>2, <1>3, <1>4, <1>6, <1>7, TurnarseIgual

(* What is printed was in the monitor's hand.                               *)
LEMMA ImprimirTurnarse ==
  ASSUME Reparte, Tipo', NEW p \in Monitores, Imprimir(p)
  PROVE  Turnarse'
<1>1. /\ Tipo /\ Pasa(p, "imprimir", "fill") /\ "fill" \in EstadosP
      /\ memoria' = memoria /\ puestos' = puestos /\ turnos' = turnos
      /\ impresos' = [impresos EXCEPT ![p] = Append(impresos[p], proc[p].dato)]
  BY DEF Imprimir, Reparte, Cuentas, EstadosP
<1>2. /\ proc[p].pc = "imprimir" /\ proc'[p].pc = "fill" /\ proc'[p].rol = proc[p].rol
      /\ proc'[p].mem = proc[p].mem /\ \A y \in Monitores \ {p} : proc'[y] = proc[y]
  BY <1>1, PasaTipo
<1>3. proc[p].rol = "monitor"
  BY <1>1, <1>2, ConPapel DEF PcComprobador
<1>4. /\ impresos'[p] = Append(impresos[p], proc[p].dato)
      /\ \A y \in Monitores \ {p} : impresos'[y] = impresos[y]
  BY <1>1 DEF Tipo, TypeOK
<1>5. Tomados(p)' = Tomados(p)
  <2>1. EnMano(p) = <<proc[p].dato>> /\ EnMano(p)' = <<>>
    BY <1>2, <1>3 DEF EnMano
  <2>2. impresos[p] \in Seq(Dato) /\ proc[p].dato \in Dato
    BY <1>1 DEF Tipo, TypeOK, Proceso
  <2>3. Append(impresos[p], proc[p].dato) \o <<>> = impresos[p] \o <<proc[p].dato>>
    BY <2>2
  <2>. QED
    BY <1>4, <2>1, <2>3 DEF Tomados
<1>6. \A m \in Monitores : Peso(proc'[p], p, m) = 0 /\ Peso(proc[p], p, m) = 0
  <2>1. /\ \A m : ~EnReserva(proc'[p], m) /\ ~EnReserva(proc[p], m)
        /\ ~EnPendiente(proc'[p]) /\ ~EnPendiente(proc[p])
    BY <1>2 DEF EnReserva, EnPendiente
  <2>. QED
    BY <2>1 DEF Peso
<1>7. \A m \in Monitores : memoria'[m].sem["fill"] + Peso(proc'[p], p, m)
                             <= memoria[m].sem["fill"] + Peso(proc[p], p, m)
  BY <1>1, <1>6, TamanosLleno
<1>8. \A m \in Monitores : MismoAnillo(m)
  BY <1>1 DEF MismoAnillo
<1>. QED
  BY <1>1, <1>2, <1>3, <1>4, <1>5, <1>7, <1>8, TurnarseIgual

(* One program at a time is inside.                                         *)
LEMMA Solo ==
  ASSUME Cuentas, NEW m \in Monitores, NEW x \in Dentro(m), NEW y \in Dentro(m)
  PROVE  x = y
<1>. SUFFICES ASSUME x # y PROVE FALSE
  OBVIOUS
<1>1. Tipo
  BY DEF Cuentas
<1>2. IsFiniteSet({x}) /\ Cardinality({x}) = 1
  BY FS_Singleton
<1>3. IsFiniteSet({x} \cup {y}) /\ Cardinality({x} \cup {y}) = 2
  BY <1>2, FS_AddElement
<1>4. {x} \cup {y} \in SUBSET Dentro(m) /\ IsFiniteSet(Dentro(m)) /\ Cardinality(Dentro(m)) \in Nat
  BY <1>1, Tamanos
<1>5. 2 <= Cardinality(Dentro(m))
  BY <1>3, <1>4, FS_Subset
<1>6. Cardinality(Dentro(m)) <= 1
  BY CuentasBastan DEF MemoriaSegura, ExclusionMutua
<1>. QED
  BY <1>4, <1>5, <1>6

(* A block is there for whoever has come past sem_wait(fill).               *)
LEMMA HayBloque ==
  ASSUME Tipo, Llenas, NEW m \in Monitores, NEW p \in Reservan(m)
  PROVE  EnAnillo(m) >= 1
<1>1. /\ IsFiniteSet(Reservan(m)) /\ Cardinality(Reservan(m)) \in Nat /\ EnAnillo(m) \in Int
      /\ memoria[m].sem["fill"] \in Nat /\ Pendiente(m) \in {0, 1}
  BY TamanosLleno
<1>2. Cardinality(Reservan(m)) # 0
  BY <1>1, FS_EmptySet
<1>. QED
  BY <1>1, <1>2 DEF Llenas, Llenado

(* The steps inside the critical section that take nothing out.             *)
LEMMA RepartoIgual ==
  ASSUME Reparte, NEW p \in Monitores, \A y \in Monitores \ {p} : proc'[y] = proc[y],
         proc'[p].rol = proc[p].rol, proc'[p].mem = proc[p].mem,
         proc[p].rol = "monitor" => EnMano(p)' = EnMano(p),
         impresos' = impresos, turnos' = turnos,
         \A m \in Monitores : EnAnillo(m)' >= 0,
         \A m \in Monitores : \A k \in 1 .. Len(turnos[m]) : puestos'[m][k] = puestos[m][k]
  PROVE  Duenos' /\ Callados' /\ Reparto'
<1>1. Tipo /\ Duenos /\ Callados /\ Reparto
  BY DEF Reparte, Turnarse, Cuentas
<1>2. /\ \A y \in Monitores : proc'[y].rol = proc[y].rol /\ proc'[y].mem = proc[y].mem
      /\ \A y \in Monitores : proc[y].rol = "monitor" => Tomados(y)' = Tomados(y)
  BY DEF Tomados, EnMano
<1>3. \A y, m, k : Turnos(y, m, k)' = Turnos(y, m, k)
  BY DEF Turnos
<1>4. \A m \in Monitores : \A k \in 1 .. Len(turnos[m]) : turnos[m][k] \in Monitores
  BY <1>1, MemoriaDe
<1>5. Duenos'
  BY <1>1, <1>2, <1>4 DEF Duenos
<1>6. Callados'
  BY <1>1, <1>2 DEF Callados
<1>7. Reparto'
  BY <1>1, <1>2, <1>3 DEF Reparto
<1>. QED
  BY <1>5, <1>6, <1>7

LEMMA SemInitTurnarse ==
  ASSUME Reparte, Tipo', NEW p \in Monitores, SemInit(p)
  PROVE  Turnarse'
<1>1. /\ Tipo /\ Llenas /\ Contenido /\ CopiaC /\ CopiaM /\ Cuentas /\ Reparto
      /\ Pasa(p, "sem_init", "mq_open") /\ "mq_open" \in EstadosP
      /\ puestos' = puestos /\ turnos' = turnos /\ impresos' = impresos
  BY DEF Reparte, Turnarse, Cuentas, SemInit, EstadosP, historia
<1>2. /\ proc[p].pc = "sem_init" /\ proc'[p].pc = "mq_open" /\ proc'[p].rol = proc[p].rol
      /\ proc'[p].mem = proc[p].mem /\ \A y \in Monitores \ {p} : proc'[y] = proc[y]
  BY <1>1, PasaTipo
<1>3. proc[p].rol = "comprobador"
  BY <1>1, <1>2, ConPapel DEF PcMonitor
<1>4. /\ \A m \in Monitores \ {p} : memoria'[m] = memoria[m]
      /\ memoria'[p].sem["fill"] = 0 /\ memoria'[p].front = 0 /\ memoria'[p].rear = 0
  BY <1>1, SemInitTipo
<1>5. /\ memoria[p].sem["fill"] = 0 /\ puestos[p] = <<>> /\ turnos[p] = <<>>
  BY <1>1, <1>2 DEF Cuentas, Inicio, SinIniciar, Antes, Semaforos
<1>6. /\ \A m \in Monitores : EnAnillo(m)' = EnAnillo(m) /\ EnAnillo(m) \in Int
      /\ EnAnillo(p) = 0
  <2>1. Len(<<>>) = 0
    OBVIOUS
  <2>. QED
    BY <1>1, <1>5, <2>1, TamanosLleno DEF EnAnillo
<1>7. Llenas'
  <2>1. /\ \A m : ~EnReserva(proc'[p], m) /\ ~EnReserva(proc[p], m)
        /\ ~EnPendiente(proc'[p]) /\ ~EnPendiente(proc[p])
    BY <1>2 DEF EnReserva, EnPendiente
  <2>2. \A m \in Monitores : Peso(proc'[p], p, m) = 0 /\ Peso(proc[p], p, m) = 0
    BY <2>1 DEF Peso
  <2>3. \A m \in Monitores : memoria'[m].sem["fill"] = memoria[m].sem["fill"]
    BY <1>4, <1>5
  <2>4. \A m \in Monitores : memoria[m].sem["fill"] \in Nat
    BY <1>1, TamanosLleno
  <2>5. ASSUME NEW m \in Monitores
        PROVE  memoria'[m].sem["fill"] + Peso(proc'[p], p, m) + EnAnillo(m)
                 <= memoria[m].sem["fill"] + Peso(proc[p], p, m) + EnAnillo(m)'
    BY <1>6, <2>2, <2>3, <2>4
  <2>. QED
    BY <1>1, <1>2, <2>5, LlenasCambia
<1>8. Contenido'
  <2>1. 0 % BUFFER_SIZE = 0
    <3>1. 0 \in Ranuras /\ 0 \in 0 .. BUFFER_SIZE /\ 0 + 0 = 0 /\ 0 < BUFFER_SIZE
      BY P3Assumption DEF Ranuras
    <3>. QED
      BY <3>1, RestoSuma
  <2>. SUFFICES ASSUME NEW m \in Monitores
                PROVE  /\ memoria'[m].rear = (memoria'[m].front + EnAnillo(m)) % BUFFER_SIZE
                       /\ \A j \in 0 .. EnAnillo(m) - 1 :
                            memoria'[m].bloque[(memoria'[m].front + j) % BUFFER_SIZE]
                              = puestos[m][Len(turnos[m]) + 1 + j]
    BY <1>1, <1>6 DEF Contenido
  <2>2. CASE m = p
    BY <1>4, <1>6, <2>1, <2>2
  <2>3. CASE m # p
    BY <1>1, <1>4, <2>3 DEF Contenido
  <2>. QED
    BY <2>2, <2>3
<1>9. CopiaC' /\ CopiaM'
  BY <1>1, <1>2, <1>4 DEF CopiaC, CopiaM
<1>10. \A m \in Monitores : EnAnillo(m)' >= 0
  BY <1>1, <1>6 DEF Reparto
<1>11. Duenos' /\ Callados' /\ Reparto'
  BY <1>1, <1>2, <1>3, <1>10, RepartoIgual
<1>. QED
  BY <1>7, <1>8, <1>9, <1>11 DEF Turnarse

(* The comprobador copies into a slot where no block waits ...              *)
LEMMA AnadirTurnarse ==
  ASSUME Reparte, Tipo', NEW p \in Monitores, Anadir(p)
  PROVE  Turnarse'
<1>1. /\ Tipo /\ Llenas /\ Contenido /\ CopiaC /\ CopiaM /\ Cuentas /\ Reparto
      /\ Pasa(p, "anadir", "rear") /\ "rear" \in EstadosP
      /\ puestos' = puestos /\ turnos' = turnos /\ impresos' = impresos
  BY DEF Reparte, Turnarse, Cuentas, Anadir, EstadosP, historia
<1>2. /\ proc[p].pc = "anadir" /\ proc'[p].pc = "rear" /\ proc'[p].rol = proc[p].rol
      /\ proc'[p].mem = proc[p].mem /\ proc'[p].dato = proc[p].dato
      /\ \A y \in Monitores \ {p} : proc'[y] = proc[y]
  BY <1>1, PasaTipo
<1>3. proc[p].rol = "comprobador" /\ proc[p].mem = p
  BY <1>1, <1>2, ConPapel DEF PcMonitor
<1>4. /\ \A m \in Monitores : /\ memoria'[m].front = memoria[m].front
                              /\ memoria'[m].rear = memoria[m].rear /\ memoria'[m].sem = memoria[m].sem
      /\ \A m \in Monitores \ {p} : memoria'[m].bloque = memoria[m].bloque
      /\ memoria'[p].bloque[memoria[p].rear] = proc[p].dato
      /\ \A r \in Ranuras \ {memoria[p].rear} : memoria'[p].bloque[r] = memoria[p].bloque[r]
  BY <1>1, <1>3, MemoriaDe DEF Anadir, Tipo, TypeOK, Memoria
<1>5. \A m \in Monitores : EnAnillo(m)' = EnAnillo(m) /\ EnAnillo(m) \in Nat
  <2>1. \A m \in Monitores : EnAnillo(m) \in Int /\ EnAnillo(m) >= 0
    BY <1>1, TamanosLleno DEF Reparto
  <2>. QED
    BY <1>1, <2>1 DEF EnAnillo
<1>6. Llenas'
  <2>1. /\ \A m : ~EnReserva(proc'[p], m) /\ ~EnReserva(proc[p], m)
        /\ ~EnPendiente(proc'[p]) /\ ~EnPendiente(proc[p])
    BY <1>2 DEF EnReserva, EnPendiente
  <2>2. \A m \in Monitores : Peso(proc'[p], p, m) = 0 /\ Peso(proc[p], p, m) = 0
    BY <2>1 DEF Peso
  <2>3. \A m \in Monitores : memoria[m].sem["fill"] \in Nat
    BY <1>1, TamanosLleno
  <2>4. ASSUME NEW m \in Monitores
        PROVE  memoria'[m].sem["fill"] + Peso(proc'[p], p, m) + EnAnillo(m)
                 <= memoria[m].sem["fill"] + Peso(proc[p], p, m) + EnAnillo(m)'
    BY <1>4, <1>5, <2>2, <2>3
  <2>. QED
    BY <1>1, <1>2, <2>4, LlenasCambia
<1>7. EnAnillo(p) \in Ranuras
  <2>1. EnAnillo(p) < BUFFER_SIZE
    BY <1>1, <1>2, CuentasBastan DEF MemoriaSegura, NoSobrescribe
  <2>. QED
    BY <1>5, <2>1, P3Assumption DEF Ranuras
<1>8. Contenido'
  <2>. SUFFICES ASSUME NEW m \in Monitores
                PROVE  /\ memoria'[m].rear = (memoria'[m].front + EnAnillo(m)) % BUFFER_SIZE
                       /\ \A j \in 0 .. EnAnillo(m) - 1 :
                            memoria'[m].bloque[(memoria'[m].front + j) % BUFFER_SIZE]
                              = puestos[m][Len(turnos[m]) + 1 + j]
    BY <1>1, <1>5 DEF Contenido
  <2>1. CASE m # p
    BY <1>1, <1>4, <2>1 DEF Contenido
  <2>2. CASE m = p
    <3>1. ASSUME NEW j \in 0 .. EnAnillo(p) - 1
          PROVE  memoria'[p].bloque[(memoria[p].front + j) % BUFFER_SIZE]
                   = memoria[p].bloque[(memoria[p].front + j) % BUFFER_SIZE]
      <4>1. j \in Ranuras /\ j # EnAnillo(p) /\ memoria[p].front \in Ranuras
        <5>1. EnAnillo(p) \in 0 .. BUFFER_SIZE - 1 /\ memoria[p].front \in Ranuras
          BY <1>1, <1>7, MemoriaDe DEF Ranuras
        <5>2. j \in 0 .. EnAnillo(p) - 1
          OBVIOUS
        <5>. DEFINE e == EnAnillo(p)
        <5>3. e \in 0 .. BUFFER_SIZE - 1 /\ j \in 0 .. e - 1
          BY <5>1, <5>2
        <5>. HIDE DEF e
        <5>4. j \in 0 .. BUFFER_SIZE - 1 /\ j # e
          BY <5>3, P3Assumption
        <5>. QED
          BY <5>1, <5>4 DEF e, Ranuras
      <4>2. (memoria[p].front + j) % BUFFER_SIZE # memoria[p].rear
        <5>1. memoria[p].rear = (memoria[p].front + EnAnillo(p)) % BUFFER_SIZE
          BY <1>1 DEF Contenido
        <5>2. (memoria[p].front + j) % BUFFER_SIZE # (memoria[p].front + EnAnillo(p)) % BUFFER_SIZE
          BY <1>7, <4>1, RestoDistinto
        <5>. QED
          BY <5>1, <5>2
      <4>3. (memoria[p].front + j) % BUFFER_SIZE \in Ranuras
        <5>1. j \in 0 .. BUFFER_SIZE
          BY <4>1, P3Assumption DEF Ranuras
        <5>2. (memoria[p].front + j) % BUFFER_SIZE
                = IF memoria[p].front + j < BUFFER_SIZE THEN memoria[p].front + j
                  ELSE (memoria[p].front + j) - BUFFER_SIZE
          BY <4>1, <5>1, RestoSuma
        <5>. QED
          BY <4>1, <5>2, P3Assumption DEF Ranuras
      <4>. QED
        BY <1>4, <4>2, <4>3
    <3>. QED
      BY <1>1, <1>4, <2>2, <3>1 DEF Contenido
  <2>. QED
    BY <2>1, <2>2
<1>9. CopiaC'
  BY <1>1, <1>2, <1>3, <1>4 DEF CopiaC
<1>10. CopiaM'
  BY <1>1, <1>2 DEF CopiaM
<1>11. \A m \in Monitores : EnAnillo(m)' >= 0
  BY <1>5
<1>12. Duenos' /\ Callados' /\ Reparto'
  BY <1>1, <1>2, <1>3, <1>11, RepartoIgual
<1>. QED
  BY <1>6, <1>8, <1>9, <1>10, <1>12 DEF Turnarse

(* ... and moves rear past it.                                              *)
LEMMA RearTurnarse ==
  ASSUME Reparte, Tipo', NEW p \in Monitores, Rear(p)
  PROVE  Turnarse'
<1>1. /\ Tipo /\ Llenas /\ Contenido /\ CopiaC /\ CopiaM /\ Cuentas /\ Reparto
      /\ Pasa(p, "rear", "post_mutex") /\ "post_mutex" \in EstadosP
      /\ turnos' = turnos /\ impresos' = impresos
  BY DEF Reparte, Turnarse, Cuentas, Rear, EstadosP
<1>2. /\ proc[p].pc = "rear" /\ proc'[p].pc = "post_mutex" /\ proc'[p].rol = proc[p].rol
      /\ proc'[p].mem = proc[p].mem /\ proc'[p].dato = proc[p].dato
      /\ \A y \in Monitores \ {p} : proc'[y] = proc[y]
  BY <1>1, PasaTipo
<1>3. proc[p].rol = "comprobador" /\ proc[p].mem = p
  BY <1>1, <1>2, ConPapel DEF PcMonitor
<1>4. /\ \A m \in Monitores : /\ memoria'[m].front = memoria[m].front
                              /\ memoria'[m].bloque = memoria[m].bloque
                              /\ memoria'[m].sem = memoria[m].sem
      /\ \A m \in Monitores \ {p} : memoria'[m].rear = memoria[m].rear /\ puestos'[m] = puestos[m]
      /\ memoria'[p].rear = (memoria[p].rear + 1) % BUFFER_SIZE
      /\ puestos'[p] = Append(puestos[p], proc[p].dato)
  BY <1>1, <1>3, MemoriaDe DEF Rear, Tipo, TypeOK, Memoria
<1>5. /\ \A m \in Monitores : EnAnillo(m) \in Nat /\ Len(turnos[m]) \in Nat /\ Len(puestos[m]) \in Nat
      /\ \A m \in Monitores : Len(puestos[m]) = Len(turnos[m]) + EnAnillo(m)
  <2>1. \A m \in Monitores : EnAnillo(m) \in Int /\ EnAnillo(m) >= 0
    BY <1>1, TamanosLleno DEF Reparto
  <2>. QED
    BY <1>1, <2>1, TamanosLleno DEF EnAnillo
<1>6. /\ Len(puestos'[p]) = Len(puestos[p]) + 1
      /\ \A k \in 1 .. Len(puestos[p]) : puestos'[p][k] = puestos[p][k]
      /\ puestos'[p][Len(puestos[p]) + 1] = proc[p].dato
  <2>1. puestos[p] \in Seq(Dato) /\ proc[p].dato \in Dato
    BY <1>1 DEF Tipo, TypeOK, Proceso
  <2>. QED
    BY <1>4, <2>1, AppendProperties
<1>7. /\ EnAnillo(p)' = EnAnillo(p) + 1
      /\ \A m \in Monitores \ {p} : EnAnillo(m)' = EnAnillo(m)
  BY <1>1, <1>4, <1>5, <1>6 DEF EnAnillo
<1>8. \A m \in Monitores : \A k \in 1 .. Len(puestos[m]) : puestos'[m][k] = puestos[m][k]
  BY <1>4, <1>6
<1>9. Llenas'
  <2>1. /\ \A m : ~EnReserva(proc'[p], m) /\ ~EnReserva(proc[p], m)
        /\ EnPendiente(proc'[p]) /\ ~EnPendiente(proc[p])
    BY <1>2, <1>3 DEF EnReserva, EnPendiente
  <2>2. \A m \in Monitores : /\ Peso(proc'[p], p, m) = IF m = p THEN 1 ELSE 0
                             /\ Peso(proc[p], p, m) = 0
    BY <2>1 DEF Peso
  <2>3. \A m \in Monitores : memoria[m].sem["fill"] \in Nat
    BY <1>1, TamanosLleno
  <2>4. ASSUME NEW m \in Monitores
        PROVE  memoria'[m].sem["fill"] + Peso(proc'[p], p, m) + EnAnillo(m)
                 <= memoria[m].sem["fill"] + Peso(proc[p], p, m) + EnAnillo(m)'
    BY <1>4, <1>5, <1>7, <2>2, <2>3
  <2>. QED
    BY <1>1, <1>2, <2>4, LlenasCambia
<1>10. EnAnillo(p) \in Ranuras /\ memoria[p].front \in Ranuras
  <2>1. EnAnillo(p) < BUFFER_SIZE
    BY <1>1, <1>2, CuentasBastan DEF MemoriaSegura, NoSobrescribe
  <2>. QED
    BY <1>1, <1>5, <2>1, P3Assumption, MemoriaDe DEF Ranuras
<1>11. Contenido'
  <2>. SUFFICES ASSUME NEW m \in Monitores
                PROVE  /\ memoria'[m].rear = (memoria[m].front + EnAnillo(m)') % BUFFER_SIZE
                       /\ \A j \in 0 .. EnAnillo(m)' - 1 :
                            memoria[m].bloque[(memoria[m].front + j) % BUFFER_SIZE]
                              = puestos'[m][Len(turnos[m]) + 1 + j]
    BY <1>1, <1>4 DEF Contenido
  <2>1. CASE m # p
    BY <1>1, <1>4, <1>7, <2>1 DEF Contenido
  <2>2. CASE m = p
    <3>1. memoria[p].rear = (memoria[p].front + EnAnillo(p)) % BUFFER_SIZE
      BY <1>1 DEF Contenido
    <3>2. memoria'[p].rear = (memoria[p].front + EnAnillo(p)') % BUFFER_SIZE
      BY <1>4, <1>7, <1>10, <3>1, RestoSiguiente
    <3>3. ASSUME NEW j \in 0 .. EnAnillo(p)
          PROVE  memoria[p].bloque[(memoria[p].front + j) % BUFFER_SIZE]
                   = puestos'[p][Len(turnos[p]) + 1 + j]
      <4>1. CASE j = EnAnillo(p)
        <5>1. Len(turnos[p]) + 1 + j = Len(puestos[p]) + 1
          BY <1>5, <4>1
        <5>2. memoria[p].bloque[memoria[p].rear] = proc[p].dato
          BY <1>1, <1>2, <1>3 DEF CopiaC
        <5>. QED
          BY <1>6, <3>1, <4>1, <5>1, <5>2
      <4>2. CASE j # EnAnillo(p)
        <5>1. j \in 0 .. EnAnillo(p) - 1 /\ Len(turnos[p]) + 1 + j \in 1 .. Len(puestos[p])
          BY <1>5, <4>2
        <5>. QED
          BY <1>1, <1>6, <5>1 DEF Contenido
      <4>. QED
        BY <4>1, <4>2
    <3>4. EnAnillo(p)' - 1 = EnAnillo(p)
      BY <1>5, <1>7
    <3>. QED
      BY <2>2, <3>2, <3>3, <3>4
  <2>. QED
    BY <2>1, <2>2
<1>12. CopiaC'
  BY <1>1, <1>2, <1>4 DEF CopiaC
<1>13. CopiaM'
  <2>. SUFFICES ASSUME NEW y \in Monitores, proc'[y].rol = "monitor", proc'[y].pc = "front"
                PROVE  proc'[y].dato = puestos'[proc'[y].mem][Len(turnos[proc'[y].mem]) + 1]
    BY <1>1 DEF CopiaM
  <2>1. y # p /\ proc'[y] = proc[y]
    BY <1>2
  <2>2. PICK m \in Monitores : m = proc[y].mem
    BY <1>1, <2>1, ConPapel
  <2>3. EnAnillo(m) >= 1
    BY <1>1, <2>1, <2>2, HayBloque DEF Reservan, EnReserva
  <2>4. Len(turnos[m]) + 1 \in 1 .. Len(puestos[m])
    BY <1>5, <2>3
  <2>. QED
    BY <1>1, <1>8, <2>1, <2>2, <2>4 DEF CopiaM
<1>14. \A m \in Monitores : EnAnillo(m)' >= 0
  BY <1>5, <1>7
<1>15. Duenos' /\ Callados' /\ Reparto'
  <2>1. ASSUME NEW m \in Monitores, NEW k \in 1 .. Len(turnos[m])
        PROVE  puestos'[m][k] = puestos[m][k]
    <3>1. k \in 1 .. Len(puestos[m])
      BY <1>5
    <3>. QED
      BY <1>8, <3>1
  <2>. QED
    BY <1>1, <1>2, <1>3, <1>14, <2>1, RepartoIgual
<1>. QED
  BY <1>9, <1>11, <1>12, <1>13, <1>15 DEF Turnarse

(* A monitor copies the oldest block ...                                    *)
LEMMA ExtraerTurnarse ==
  ASSUME Reparte, Tipo', NEW p \in Monitores, Extraer(p)
  PROVE  Turnarse'
<1>1. /\ Tipo /\ Llenas /\ Contenido /\ CopiaC /\ CopiaM /\ Cuentas /\ Reparto
      /\ memoria' = memoria /\ puestos' = puestos /\ turnos' = turnos /\ impresos' = impresos
  BY DEF Reparte, Turnarse, Cuentas, Extraer, historia
<1>2. PICK m \in Monitores : m = proc[p].mem
  BY <1>1, ExtraerTipo
<1>3. /\ proc[p].rol = "monitor" /\ proc'[p].rol = "monitor" /\ proc'[p].mem = m
      /\ proc[p].pc = "extraer" /\ proc'[p].pc = "front"
      /\ proc'[p].dato = memoria[m].bloque[memoria[m].front]
      /\ \A y \in Monitores \ {p} : proc'[y] = proc[y]
  BY <1>1, <1>2, ExtraerTipo
<1>4. \A x \in Monitores : EnAnillo(x)' = EnAnillo(x) /\ EnAnillo(x) \in Int /\ EnAnillo(x) >= 0
  BY <1>1, TamanosLleno DEF EnAnillo, Reparto
<1>5. Llenas'
  <2>1. \A x \in Monitores : Peso(proc'[p], p, x) = Peso(proc[p], p, x) /\ Peso(proc[p], p, x) \in Nat
    BY <1>2, <1>3 DEF Peso, EnReserva, EnPendiente
  <2>2. \A x \in Monitores : memoria[x].sem["fill"] \in Nat
    BY <1>1, TamanosLleno
  <2>3. ASSUME NEW x \in Monitores
        PROVE  memoria'[x].sem["fill"] + Peso(proc'[p], p, x) + EnAnillo(x)
                 <= memoria[x].sem["fill"] + Peso(proc[p], p, x) + EnAnillo(x)'
    BY <1>1, <1>4, <2>1, <2>2
  <2>. QED
    BY <1>1, <1>3, <2>3, LlenasCambia
<1>6. Contenido'
  BY <1>1, <1>4 DEF Contenido
<1>7. CopiaC'
  BY <1>1, <1>3 DEF CopiaC
<1>8. proc'[p].dato = puestos[m][Len(turnos[m]) + 1]
  <2>1. EnAnillo(m) >= 1 /\ Len(turnos[m]) \in Nat
    BY <1>1, <1>2, <1>3, HayBloque, TamanosLleno DEF Reservan, EnReserva
  <2>2. 0 \in 0 .. EnAnillo(m) - 1
    BY <1>4, <2>1
  <2>3. memoria[m].bloque[(memoria[m].front + 0) % BUFFER_SIZE] = puestos[m][Len(turnos[m]) + 1 + 0]
    BY <1>1, <2>2 DEF Contenido
  <2>4. memoria[m].front \in Ranuras /\ 0 \in 0 .. BUFFER_SIZE
    BY <1>1, MemoriaDe, P3Assumption
  <2>5. (memoria[m].front + 0) % BUFFER_SIZE
          = IF memoria[m].front + 0 < BUFFER_SIZE THEN memoria[m].front + 0
            ELSE (memoria[m].front + 0) - BUFFER_SIZE
    BY <2>4, RestoSuma
  <2>6. (memoria[m].front + 0) % BUFFER_SIZE = memoria[m].front
    BY <2>4, <2>5, P3Assumption DEF Ranuras
  <2>7. Len(turnos[m]) + 1 + 0 = Len(turnos[m]) + 1
    BY <2>1
  <2>. QED
    BY <1>3, <2>3, <2>6, <2>7
<1>9. CopiaM'
  <2>. SUFFICES ASSUME NEW y \in Monitores, proc'[y].rol = "monitor", proc'[y].pc = "front"
                PROVE  proc'[y].dato = puestos[proc'[y].mem][Len(turnos[proc'[y].mem]) + 1]
    BY <1>1 DEF CopiaM
  <2>1. CASE y = p
    BY <1>3, <1>8, <2>1
  <2>2. CASE y # p
    BY <1>1, <1>3, <2>2 DEF CopiaM
  <2>. QED
    BY <2>1, <2>2
<1>10. \A x \in Monitores : EnAnillo(x)' >= 0
  BY <1>4
<1>11. Duenos' /\ Callados' /\ Reparto'
  <2>1. EnMano(p)' = EnMano(p)
    BY <1>3 DEF EnMano
  <2>. QED
    BY <1>1, <1>2, <1>3, <1>10, <2>1, RepartoIgual
<1>. QED
  BY <1>5, <1>6, <1>7, <1>9, <1>11 DEF Turnarse

(* ... and moves front past it: its turn.                                   *)
LEMMA FrontTurnarse ==
  ASSUME Reparte, Tipo', NEW p \in Monitores, Front(p)
  PROVE  Turnarse'
<1>1. /\ Tipo /\ Llenas /\ Contenido /\ CopiaC /\ CopiaM /\ Duenos /\ Callados /\ Cuentas /\ Reparto
      /\ Pasa(p, "front", "post_mutex") /\ "post_mutex" \in EstadosP
      /\ puestos' = puestos /\ impresos' = impresos
  BY DEF Reparte, Turnarse, Cuentas, Front, EstadosP
<1>2. /\ proc[p].pc = "front" /\ proc'[p].pc = "post_mutex" /\ proc'[p].rol = proc[p].rol
      /\ proc'[p].mem = proc[p].mem /\ proc'[p].dato = proc[p].dato
      /\ \A y \in Monitores \ {p} : proc'[y] = proc[y]
  BY <1>1, PasaTipo
<1>3. proc[p].rol = "monitor" /\ proc[p].mem \in Monitores
  BY <1>1, <1>2, ConPapel DEF PcComprobador
<1>4. PICK m \in Monitores : m = proc[p].mem
  BY <1>3
<1>5. PICK t \in Nat : t = Len(turnos[m])
  BY <1>1, TamanosLleno
<1>6. /\ \A x \in Monitores : /\ memoria'[x].bloque = memoria[x].bloque
                              /\ memoria'[x].rear = memoria[x].rear /\ memoria'[x].sem = memoria[x].sem
      /\ \A x \in Monitores \ {m} : memoria'[x].front = memoria[x].front /\ turnos'[x] = turnos[x]
      /\ memoria'[m].front = (memoria[m].front + 1) % BUFFER_SIZE
      /\ turnos'[m] = Append(turnos[m], p)
  <2>1. memoria' = [memoria EXCEPT ![m].front = (memoria[m].front + 1) % BUFFER_SIZE]
    BY <1>4 DEF Front
  <2>2. turnos' = [turnos EXCEPT ![m] = Append(turnos[m], p)]
    BY <1>4 DEF Front
  <2>3. memoria \in [Monitores -> Memoria] /\ turnos \in [Monitores -> Seq(Monitores)]
    BY <1>1 DEF Tipo, TypeOK
  <2>4. PICK b \in Memoria : b = [memoria[m] EXCEPT !.front = (memoria[m].front + 1) % BUFFER_SIZE]
    BY <1>1, RanurasTipo, MemoriaDe DEF Memoria
  <2>5. /\ b.front = (memoria[m].front + 1) % BUFFER_SIZE
        /\ b.bloque = memoria[m].bloque /\ b.rear = memoria[m].rear /\ b.sem = memoria[m].sem
    BY <1>1, <2>4, MemoriaDe DEF Memoria
  <2>6. memoria' = [memoria EXCEPT ![m] = b]
    BY <2>1, <2>4
  <2>7. memoria'[m] = b /\ \A x \in Monitores \ {m} : memoria'[x] = memoria[x]
    BY <2>3, <2>6
  <2>8. turnos'[m] = Append(turnos[m], p) /\ \A x \in Monitores \ {m} : turnos'[x] = turnos[x]
    BY <2>2, <2>3
  <2>. QED
    BY <2>5, <2>7, <2>8
<1>7. /\ Len(turnos'[m]) = t + 1 /\ turnos'[m][t + 1] = p
      /\ \A k \in 1 .. t : turnos'[m][k] = turnos[m][k]
  <2>1. turnos[m] \in Seq(Monitores)
    BY <1>1, MemoriaDe
  <2>. QED
    BY <1>5, <1>6, <2>1, AppendProperties
<1>8. PICK e \in Nat : e = EnAnillo(m) /\ e >= 1 /\ e <= BUFFER_SIZE
  <2>1. EnAnillo(m) >= 1 /\ EnAnillo(m) \in Int
    BY <1>1, <1>2, <1>3, <1>4, HayBloque, TamanosLleno DEF Reservan, EnReserva
  <2>2. /\ memoria[m].sem["empty"] \in Nat /\ Cardinality(Devuelven(m)) \in Nat
        /\ Adelantado(m) \in {0, 1} /\ BUFFER_SIZE \in Nat
    BY <1>1, Tamanos, P3Assumption DEF Semaforos, Adelantado
  <2>3. Cuenta(m) <= BUFFER_SIZE
    BY <1>1 DEF Cuentas, Vacias
  <2>4. EnAnillo(m) <= BUFFER_SIZE
    BY <2>1, <2>2, <2>3 DEF Cuenta
  <2>. QED
    BY <2>1, <2>4
<1>9. /\ EnAnillo(m)' = e - 1
      /\ \A x \in Monitores : EnAnillo(x) \in Int /\ EnAnillo(x) >= 0
      /\ \A x \in Monitores \ {m} : EnAnillo(x)' = EnAnillo(x)
  <2>1. \A x \in Monitores : Len(puestos[x]) \in Nat /\ EnAnillo(x) \in Int
    BY <1>1, TamanosLleno
  <2>2. EnAnillo(m)' = e - 1
    BY <1>1, <1>5, <1>7, <1>8, <2>1 DEF EnAnillo
  <2>. QED
    BY <1>1, <1>6, <2>1, <2>2 DEF EnAnillo, Reparto
<1>10. Llenas'
  <2>1. /\ \A x \in Monitores : ~EnReserva(proc'[p], x) /\ (EnReserva(proc[p], x) <=> x = m)
        /\ ~EnPendiente(proc'[p]) /\ ~EnPendiente(proc[p])
    BY <1>2, <1>3, <1>4 DEF EnReserva, EnPendiente
  <2>2. \A x \in Monitores : /\ Peso(proc'[p], p, x) = 0
                             /\ Peso(proc[p], p, x) = IF x = m THEN 1 ELSE 0
    BY <2>1 DEF Peso
  <2>3. \A x \in Monitores : memoria[x].sem["fill"] \in Nat
    BY <1>1, TamanosLleno
  <2>4. ASSUME NEW x \in Monitores
        PROVE  memoria'[x].sem["fill"] + Peso(proc'[p], p, x) + EnAnillo(x)
                 <= memoria[x].sem["fill"] + Peso(proc[p], p, x) + EnAnillo(x)'
    <3>1. memoria'[x].sem["fill"] = memoria[x].sem["fill"] /\ memoria[x].sem["fill"] \in Nat
      BY <1>6, <2>3
    <3>2. EnAnillo(x) \in Int /\ EnAnillo(x)' = IF x = m THEN EnAnillo(x) - 1 ELSE EnAnillo(x)
      BY <1>8, <1>9
    <3>. QED
      BY <2>2, <3>1, <3>2
  <2>. QED
    BY <1>1, <1>2, <2>4, LlenasCambia
<1>11. Contenido'
  <2>. SUFFICES ASSUME NEW x \in Monitores
                PROVE  /\ memoria[x].rear = (memoria'[x].front + EnAnillo(x)') % BUFFER_SIZE
                       /\ \A j \in 0 .. EnAnillo(x)' - 1 :
                            memoria[x].bloque[(memoria'[x].front + j) % BUFFER_SIZE]
                              = puestos[x][Len(turnos'[x]) + 1 + j]
    BY <1>1, <1>6 DEF Contenido
  <2>1. CASE x # m
    <3>1. memoria'[x].front = memoria[x].front /\ EnAnillo(x)' = EnAnillo(x) /\ turnos'[x] = turnos[x]
      BY <1>6, <1>9, <2>1
    <3>. QED
      BY <1>1, <3>1 DEF Contenido
  <2>2. CASE x = m
    <3>1. memoria[m].front \in Ranuras /\ BUFFER_SIZE \in Nat
      BY <1>1, MemoriaDe, P3Assumption
    <3>2. /\ memoria[m].rear = (memoria[m].front + e) % BUFFER_SIZE
          /\ \A j \in 0 .. e - 1 : memoria[m].bloque[(memoria[m].front + j) % BUFFER_SIZE]
                                     = puestos[m][t + 1 + j]
      BY <1>1, <1>5, <1>8 DEF Contenido
    <3>3. memoria[m].rear = (memoria'[m].front + (e - 1)) % BUFFER_SIZE
      <4>1. e - 1 \in Ranuras /\ (e - 1) + 1 = e
        BY <1>8, <3>1 DEF Ranuras
      <4>. QED
        BY <1>6, <3>1, <3>2, <4>1, RestoSiguiente
    <3>4. ASSUME NEW j \in 0 .. e - 2
          PROVE  memoria[m].bloque[(memoria'[m].front + j) % BUFFER_SIZE] = puestos[m][t + 1 + 1 + j]
      <4>1. j \in Ranuras /\ j + 1 \in 0 .. e - 1 /\ t + 1 + (j + 1) = t + 1 + 1 + j
        BY <1>8, <3>1 DEF Ranuras
      <4>2. (memoria'[m].front + j) % BUFFER_SIZE = (memoria[m].front + (j + 1)) % BUFFER_SIZE
        BY <1>6, <3>1, <4>1, RestoSiguiente
      <4>3. memoria[m].bloque[(memoria[m].front + (j + 1)) % BUFFER_SIZE] = puestos[m][t + 1 + (j + 1)]
        BY <3>2, <4>1
      <4>. QED
        BY <4>1, <4>2, <4>3
    <3>5. EnAnillo(m)' - 1 = e - 2
      BY <1>9
    <3>. QED
      BY <1>7, <1>9, <2>2, <3>3, <3>4, <3>5
  <2>. QED
    BY <2>1, <2>2
<1>12. CopiaC'
  BY <1>1, <1>2, <1>6 DEF CopiaC
<1>13. CopiaM'
  <2>. SUFFICES ASSUME NEW y \in Monitores, proc'[y].rol = "monitor", proc'[y].pc = "front"
                PROVE  proc'[y].dato = puestos[proc'[y].mem][Len(turnos'[proc'[y].mem]) + 1]
    BY <1>1 DEF CopiaM
  <2>1. y # p /\ proc'[y] = proc[y]
    BY <1>2
  <2>2. proc[y].mem \in Monitores
    BY <1>1, <2>1, ConPapel
  <2>3. proc[y].mem # m
    <3>1. p \in Dentro(m)
      BY <1>2, <1>4 DEF Dentro
    <3>2. proc[y].mem = m => y \in Dentro(m)
      BY <2>1 DEF Dentro
    <3>. QED
      BY <1>1, <2>1, <3>1, <3>2, Solo
  <2>4. turnos'[proc[y].mem] = turnos[proc[y].mem]
    BY <1>6, <2>2, <2>3
  <2>. QED
    BY <1>1, <2>1, <2>4 DEF CopiaM
<1>14. \A y \in Monitores : proc'[y].rol = proc[y].rol /\ proc'[y].mem = proc[y].mem
  BY <1>2
<1>15. Duenos'
  <2>. SUFFICES ASSUME NEW x \in Monitores, NEW k \in 1 .. Len(turnos'[x])
                PROVE  proc'[turnos'[x][k]].rol = "monitor" /\ proc'[turnos'[x][k]].mem = x
    BY DEF Duenos
  <2>1. CASE x = m /\ k = t + 1
    BY <1>2, <1>3, <1>4, <1>7, <2>1
  <2>2. CASE ~(x = m /\ k = t + 1)
    <3>1. k \in 1 .. Len(turnos[x]) /\ turnos'[x][k] = turnos[x][k]
      BY <1>5, <1>6, <1>7, <2>2
    <3>2. turnos[x][k] \in Monitores
      BY <1>1, <3>1, MemoriaDe
    <3>. QED
      BY <1>1, <1>14, <3>1, <3>2 DEF Duenos
  <2>. QED
    BY <2>1, <2>2
<1>16. Callados'
  BY <1>1, <1>14 DEF Callados
<1>17. /\ \A y \in Monitores \ {p} : Tomados(y)' = Tomados(y)
       /\ Len(Tomados(p)') = Len(Tomados(p)) + 1 /\ Len(Tomados(p)) \in Nat
       /\ Tomados(p)'[Len(Tomados(p)) + 1] = proc[p].dato
       /\ \A k \in 1 .. Len(Tomados(p)) : Tomados(p)'[k] = Tomados(p)[k]
  <2>1. \A y \in Monitores \ {p} : Tomados(y)' = Tomados(y)
    BY <1>1, <1>2 DEF Tomados, EnMano
  <2>2. EnMano(p) = <<>> /\ EnMano(p)' = <<proc[p].dato>>
    BY <1>2, <1>3 DEF EnMano
  <2>3. impresos[p] \in Seq(Dato) /\ proc[p].dato \in Dato
    BY <1>1 DEF Tipo, TypeOK, Proceso
  <2>4. Tomados(p) = impresos[p] /\ Tomados(p)' = impresos[p] \o <<proc[p].dato>>
    BY <1>1, <2>2, <2>3 DEF Tomados
  <2>. QED
    BY <2>1, <2>3, <2>4
<1>18. /\ \A y, x, k : (x \in Monitores \ {m} \/ (x = m /\ k \in 0 .. t)) =>
                           (Turnos(y, x, k)' = Turnos(y, x, k))
       /\ Turnos(p, m, t + 1)' = Turnos(p, m, t) \cup {t + 1}
       /\ \A y : y # p => (Turnos(y, m, t + 1)' = Turnos(y, m, t))
  BY <1>6, <1>7 DEF Turnos
<1>19. Cardinality(Turnos(p, m, t) \cup {t + 1}) = Cardinality(Turnos(p, m, t)) + 1
  <2>1. t + 1 \notin Turnos(p, m, t)
    BY DEF Turnos
  <2>2. IsFiniteSet(Turnos(p, m, t))
    BY TurnosTamano
  <2>. QED
    BY <2>1, <2>2, FS_AddElement
<1>20. Len(Tomados(p)) = Cardinality(Turnos(p, m, t))
  BY <1>1, <1>3, <1>4, <1>5 DEF Reparto
<1>21. ASSUME NEW x \in Monitores, NEW y \in Monitores, proc'[y].rol = "monitor", proc'[y].mem = x
       PROVE  /\ Len(Tomados(y)') = Cardinality(Turnos(y, x, Len(turnos[x]))')
              /\ \A k \in 1 .. Len(turnos'[x]) : turnos'[x][k] = y =>
                   Tomados(y)'[Cardinality(Turnos(y, x, k)')] = puestos[x][k]
  <2>0. proc[y].rol = "monitor" /\ proc[y].mem = x
    BY <1>14, <1>21
  <2>1. /\ Len(Tomados(y)) = Cardinality(Turnos(y, x, Len(turnos[x])))
        /\ \A k \in 1 .. Len(turnos[x]) : turnos[x][k] = y =>
             Tomados(y)[Cardinality(Turnos(y, x, k))] = puestos[x][k]
    BY <1>1, <2>0 DEF Reparto
  <2>2. CASE y = p
    <3>1. x = m
      BY <1>4, <2>0, <2>2
    <3>2. ASSUME NEW k \in 1 .. t, turnos'[m][k] = p
          PROVE  Tomados(p)'[Cardinality(Turnos(p, m, k)')] = puestos[m][k]
      <4>1. turnos[m][k] = p /\ Turnos(p, m, k)' = Turnos(p, m, k)
        BY <1>7, <1>18, <3>2
      <4>2. Cardinality(Turnos(p, m, k)) \in 1 .. Len(Tomados(p))
        BY <1>20, <4>1, TurnosDentro
      <4>. QED
        BY <1>5, <1>17, <2>1, <2>2, <3>1, <4>1, <4>2
    <3>3. Tomados(p)'[Cardinality(Turnos(p, m, t + 1)')] = puestos[m][t + 1]
      <4>1. Cardinality(Turnos(p, m, t + 1)') = Len(Tomados(p)) + 1
        BY <1>18, <1>19, <1>20
      <4>2. proc[p].dato = puestos[m][t + 1]
        BY <1>1, <1>2, <1>3, <1>4, <1>5 DEF CopiaM
      <4>. QED
        BY <1>17, <4>1, <4>2
    <3>4. ASSUME NEW k \in 1 .. t + 1, turnos'[m][k] = p
          PROVE  Tomados(p)'[Cardinality(Turnos(p, m, k)')] = puestos[m][k]
      <4>1. k \in 1 .. t \/ k = t + 1
        OBVIOUS
      <4>. QED
        BY <3>2, <3>3, <3>4, <4>1
    <3>5. Len(Tomados(p)') = Cardinality(Turnos(p, m, Len(turnos[m]))')
      <4>1. Turnos(p, m, Len(turnos[m]))' = Turnos(p, m, t + 1)'
        BY <1>7 DEF Turnos
      <4>. QED
        BY <1>17, <1>18, <1>19, <1>20, <4>1
    <3>. QED
      BY <1>7, <2>2, <3>1, <3>4, <3>5
  <2>3. CASE y # p /\ x = m
    <3>1. Len(Tomados(y)') = Cardinality(Turnos(y, x, Len(turnos[x]))')
      <4>1. Turnos(y, m, Len(turnos[m]))' = Turnos(y, m, t + 1)'
        BY <1>7 DEF Turnos
      <4>2. Turnos(y, m, t + 1)' = Turnos(y, m, t)
        BY <1>18, <2>3
      <4>. QED
        BY <1>5, <1>17, <2>1, <2>3, <4>1, <4>2
    <3>2. ASSUME NEW k \in 1 .. t + 1, turnos'[m][k] = y
          PROVE  Tomados(y)'[Cardinality(Turnos(y, m, k)')] = puestos[m][k]
      <4>1. k \in 1 .. t
        BY <1>7, <2>3, <3>2
      <4>2. turnos[m][k] = y /\ Turnos(y, m, k)' = Turnos(y, m, k) /\ Tomados(y)' = Tomados(y)
        BY <1>7, <1>17, <1>18, <2>3, <3>2, <4>1
      <4>. QED
        BY <1>5, <2>1, <2>3, <4>1, <4>2
    <3>. QED
      BY <1>7, <2>3, <3>1, <3>2
  <2>4. CASE x # m
    <3>1. y # p
      BY <1>4, <2>0, <2>4
    <3>2. turnos'[x] = turnos[x] /\ Tomados(y)' = Tomados(y)
      BY <1>6, <1>17, <2>4, <3>1
    <3>4. \A k : Turnos(y, x, k)' = Turnos(y, x, k)
      BY <3>2 DEF Turnos
    <3>3. Turnos(y, x, Len(turnos[x]))' = Turnos(y, x, Len(turnos[x]))
      BY <3>2 DEF Turnos
    <3>. QED
      BY <2>1, <3>2, <3>3, <3>4
  <2>. QED
    BY <2>2, <2>3, <2>4
<1>22. \A x \in Monitores : EnAnillo(x)' >= 0
  BY <1>8, <1>9
<1>23. Reparto'
  BY <1>1, <1>21, <1>22 DEF Reparto
<1>. QED
  BY <1>10, <1>11, <1>12, <1>13, <1>15, <1>16, <1>23 DEF Turnarse

(* Sleeping, killing and mining change nothing of all this.                 *)
LEMMA AjenoTurnarse ==
  ASSUME Reparte, UNCHANGED <<proc, memoria, puestos, turnos, impresos>>
  PROVE  Turnarse'
<1>1. Llenas' /\ Contenido'
  <2>1. \A m : Reservan(m)' = Reservan(m) /\ Pendiente(m)' = Pendiente(m) /\ EnAnillo(m)' = EnAnillo(m)
    BY DEF Reservan, Pendiente, EnAnillo
  <2>2. \A m : Llenado(m)' = Llenado(m)
    BY <2>1 DEF Llenado
  <2>3. Llenas'
    BY <2>1, <2>2 DEF Reparte, Turnarse, Llenas
  <2>4. Contenido'
    BY <2>1 DEF Reparte, Turnarse, Contenido
  <2>. QED
    BY <2>3, <2>4
<1>2. CopiaC' /\ CopiaM' /\ Duenos' /\ Callados'
  BY DEF Reparte, Turnarse, CopiaC, CopiaM, Duenos, Callados
<1>3. /\ \A m : EnAnillo(m)' = EnAnillo(m)
      /\ \A p : Tomados(p)' = Tomados(p)
      /\ \A p, m, k : Turnos(p, m, k)' = Turnos(p, m, k)
  BY DEF EnAnillo, Tomados, EnMano, Turnos
<1>4. Reparto'
  BY <1>3 DEF Reparte, Turnarse, Reparto
<1>. QED
  BY <1>1, <1>4, <1>2 DEF Turnarse

LEMMA ReparteInicial == Init => Reparte
<1>. SUFFICES ASSUME Init PROVE Reparte
  OBVIOUS
<1>1. Cuentas /\ Tipo
  BY CuentasInicial DEF Cuentas
<1>2. \A p \in Monitores : /\ proc[p].pc = "shm_open" /\ proc[p].rol = "" /\ impresos[p] = <<>>
                           /\ puestos[p] = <<>> /\ turnos[p] = <<>>
  BY DEF Init
<1>3. \A m \in Monitores : /\ memoria[m].front = 0 /\ memoria[m].rear = 0
                           /\ memoria[m].sem["fill"] = 0
  BY DEF Init, MemoriaNueva
<1>4. \A m \in Monitores : EnAnillo(m) = 0 /\ Len(turnos[m]) = 0
  <2>1. Len(<<>>) = 0
    OBVIOUS
  <2>2. \A m \in Monitores : EnAnillo(m) = Len(<<>>) - Len(<<>>) /\ turnos[m] = <<>>
    BY <1>2 DEF EnAnillo
  <2>. QED
    BY <2>1, <2>2
<1>5. Llenas
  <2>. SUFFICES ASSUME NEW m \in Monitores PROVE Llenado(m) <= EnAnillo(m)
    BY DEF Llenas
  <2>1. Reservan(m) = {}
    BY <1>2 DEF Reservan, EnReserva
  <2>2. Cardinality(Reservan(m)) = 0 /\ Pendiente(m) = 0
    BY <1>2, <2>1, FS_EmptySet DEF Pendiente, EnPendiente
  <2>. QED
    BY <1>3, <1>4, <2>2 DEF Llenado
<1>6. Contenido
  <2>1. 0 \in Ranuras /\ 0 \in 0 .. BUFFER_SIZE /\ 0 + 0 = 0 /\ 0 < BUFFER_SIZE
    BY P3Assumption DEF Ranuras
  <2>2. (0 + 0) % BUFFER_SIZE = 0
    BY <2>1, RestoSuma
  <2>. QED
    BY <1>3, <1>4, <2>2 DEF Contenido
<1>7. CopiaC /\ CopiaM /\ Callados
  BY <1>2 DEF CopiaC, CopiaM, Callados
<1>8. Duenos
  BY <1>4 DEF Duenos
<1>9. Reparto
  <2>1. \A m \in Monitores : EnAnillo(m) >= 0
    BY <1>4
  <2>2. \A p \in Monitores : proc[p].rol # "monitor"
    BY <1>2
  <2>. QED
    BY <2>1, <2>2 DEF Reparto
<1>. QED
  BY <1>1, <1>5, <1>6, <1>7, <1>8, <1>9 DEF Reparte, Turnarse

LEMMA RepartePaso == Reparte /\ [Next]_vars => Reparte'
<1>. SUFFICES ASSUME Reparte, [Next]_vars PROVE Reparte'
  OBVIOUS
<1>1. Cuentas' /\ Tipo'
  BY CuentasPaso DEF Reparte, Cuentas
<1>2. ASSUME NEW p \in Monitores, LanzaMonitor(p) \/ PasoMonitor(p) \/ Falla(p)
      PROVE  Turnarse'
  <2>1. ASSUME NEW s, Duerme(p, s) PROVE Turnarse'
    BY <2>1, AjenoTurnarse DEF Duerme, historia
  <2>. QED
    BY <1>1, <1>2, <2>1, SencillosTurnarse, NuevosTurnarse, SemInitTurnarse, EsperasTurnarse,
       PostsTurnarse, ImprimirTurnarse, AnadirTurnarse, RearTurnarse, ExtraerTurnarse, FrontTurnarse
    DEF LanzaMonitor, PasoMonitor, Comprobador, Monitor
<1>3. ASSUME NEW n \in Mineros, LanzaMinero(n) \/ Minero(n)
      PROVE  Turnarse'
  BY <1>3, AjenoTurnarse DEF LanzaMinero, Minero, MqCrea, MqExiste, MqReabre, Argumentos, SinSolucion,
     Enviar, EnviarFin, historia
<1>4. ASSUME NEW x \in Monitores \cup Mineros, Mata(x)
      PROVE  Turnarse'
  BY <1>4, AjenoTurnarse DEF Mata, historia
<1>5. CASE UNCHANGED vars
  <2>1. UNCHANGED <<proc, memoria, puestos, turnos, impresos>>
    BY <1>5 DEF vars, historia
  <2>. QED
    BY <1>1, <2>1, AjenoTurnarse DEF Reparte
<1>6. CASE Next
  <2>1. Turnarse'
    BY <1>2, <1>3, <1>4, <1>6 DEF Next
  <2>. QED
    BY <1>1, <2>1 DEF Reparte
<1>. QED
  BY <1>5, <1>6

(* Whoever shares a memory of p3/monitor.c and whoever is killed in the     *)
(* middle of a turn: each block that the comprobador puts in goes to one    *)
(* monitor, in the order they were put in, and what a monitor has printed,  *)
(* with the block in its hand, is exactly what its turns were.              *)
THEOREM RepartoSeguro == Spec => []Reparto
<1>1. Reparte => Reparto
  BY DEF Reparte, Turnarse
<1>. QED
  BY <1>1, ReparteInicial, RepartePaso, PTL DEF Spec

-----------------------------------------------------------------------------
(* The chain of targets.  Its recursive definition is the function that     *)
(* satisfies its equation: there is one, and it does.                       *)

EsCadena(g, n) ==
  /\ g \in [0 .. n -> Int]
  /\ g[0] = 0 /\ \A i \in 0 .. n - 1 : g[i + 1] = target_search(g[i])

LEMMA CadenaHasta == \A n \in Nat : \E g : EsCadena(g, n)
<1>. DEFINE S == {n \in Nat : ~ \E g : EsCadena(g, n)}
<1>. SUFFICES ASSUME S # {} PROVE FALSE
  OBVIOUS
<1>1. PICK x \in S : \A y \in S : x <= y
  <2>1. S \in SUBSET Nat
    OBVIOUS
  <2>. QED
    BY <2>1, Menor
<1>2. CASE x = 0
  <2>1. EsCadena([i \in 0 .. 0 |-> 0], 0)
    BY DEF EsCadena
  <2>. QED
    BY <1>2, <2>1
<1>3. CASE x # 0
  <2>1. x - 1 \in Nat /\ ~(x <= x - 1)
    BY <1>3
  <2>2. PICK g : EsCadena(g, x - 1)
    BY <1>1, <2>1
  <2>. DEFINE h == [i \in 0 .. x |-> IF i = x THEN target_search(g[x - 1]) ELSE g[i]]
  <2>3. g \in [0 .. x - 1 -> Int] /\ g[0] = 0
    BY <2>2 DEF EsCadena
  <2>4. h \in [0 .. x -> Int] /\ h[0] = 0
    BY <1>3, <2>1, <2>3, SolucionTipo
  <2>5. ASSUME NEW i \in 0 .. x - 1 PROVE h[i + 1] = target_search(h[i])
    <3>1. i \in 0 .. x /\ i + 1 \in 0 .. x /\ i # x /\ h[i] = g[i]
      OBVIOUS
    <3>2. CASE i = x - 1
      BY <3>1, <3>2
    <3>3. CASE i # x - 1
      <4>1. i \in 0 .. (x - 1) - 1 /\ i + 1 # x
        BY <3>3
      <4>2. g[i + 1] = target_search(g[i])
        BY <2>2, <4>1 DEF EsCadena
      <4>. QED
        BY <3>1, <4>1, <4>2
    <3>. QED
      BY <3>2, <3>3
  <2>6. EsCadena(h, x)
    BY <2>4, <2>5 DEF EsCadena
  <2>. QED
    BY <2>6
<1>. QED
  BY <1>2, <1>3

LEMMA CadenaUnica ==
  ASSUME NEW n \in Nat, NEW m \in Nat, NEW g, NEW h, EsCadena(g, n), EsCadena(h, m),
         NEW k \in Nat, k <= n, k <= m
  PROVE  g[k] = h[k]
<1>. DEFINE S == {i \in Nat : i <= n /\ i <= m /\ g[i] # h[i]}
<1>. SUFFICES ASSUME S # {} PROVE FALSE
  OBVIOUS
<1>1. PICK x \in S : \A y \in S : x <= y
  <2>1. S \in SUBSET Nat
    OBVIOUS
  <2>. QED
    BY <2>1, Menor
<1>2. x # 0
  BY DEF EsCadena
<1>3. PICK y \in Nat : y + 1 = x
  <2>1. x - 1 \in Nat /\ (x - 1) + 1 = x
    BY <1>2
  <2>. QED
    BY <2>1
<1>4. y \in 0 .. n - 1 /\ y \in 0 .. m - 1 /\ y \notin S
  BY <1>1, <1>3
<1>5. g[y] = h[y]
  BY <1>4
<1>6. g[y + 1] = target_search(g[y]) /\ h[y + 1] = target_search(h[y])
  BY <1>4 DEF EsCadena
<1>. QED
  BY <1>3, <1>5, <1>6

LEMMA CadenaEs ==
  Cadena = [k \in Nat |-> IF k = 0 THEN 0 ELSE target_search(Cadena[k - 1])]
<1>. DEFINE g(n) == CHOOSE f : EsCadena(f, n)
            F == [n \in Nat |-> g(n)[n]]
<1>1. \A n \in Nat : EsCadena(g(n), n)
  BY CadenaHasta
<1>. HIDE DEF g
<1>2. ASSUME NEW k \in Nat PROVE F[k] = IF k = 0 THEN 0 ELSE target_search(F[k - 1])
  <2>1. CASE k = 0
    BY <1>1, <2>1 DEF EsCadena
  <2>2. CASE k # 0
    <3>1. PICK y \in Nat : y + 1 = k /\ y = k - 1
      BY <2>2
    <3>2. EsCadena(g(k), k) /\ EsCadena(g(y), y) /\ y <= k /\ y <= y /\ y \in 0 .. k - 1
      BY <1>1, <3>1
    <3>3. g(k)[y] = g(y)[y]
      BY <3>2, CadenaUnica
    <3>4. g(k)[y + 1] = target_search(g(k)[y])
      BY <3>2 DEF EsCadena
    <3>. QED
      BY <2>2, <3>1, <3>3, <3>4
  <2>. QED
    BY <2>1, <2>2
<1>3. F = [k \in Nat |-> IF k = 0 THEN 0 ELSE target_search(F[k - 1])]
  BY <1>2
<1>4. \E f : f = [k \in Nat |-> IF k = 0 THEN 0 ELSE target_search(f[k - 1])]
  BY <1>3
<1>. QED
  BY <1>4 DEF Cadena

(* The target of each block is the solution of the one before.              *)
LEMMA CadenaSigue == /\ Cadena[0] = 0
                     /\ \A k \in Nat : Cadena[k + 1] = target_search(Cadena[k])
<1>1. \A k \in Nat : Cadena[k] = IF k = 0 THEN 0 ELSE target_search(Cadena[k - 1])
  BY CadenaEs, Zenon
<1>2. Cadena[0] = 0
  BY <1>1
<1>3. ASSUME NEW k \in Nat PROVE Cadena[k + 1] = target_search(Cadena[k])
  <2>1. k + 1 \in Nat /\ k + 1 # 0 /\ (k + 1) - 1 = k
    OBVIOUS
  <2>. QED
    BY <1>1, <2>1
<1>. QED
  BY <1>2, <1>3

-----------------------------------------------------------------------------
(* Every block sent is somewhere.                                           *)

(* A miner's target is the link of the chain its block number says; one     *)
(* without a queue has sent nothing.                                        *)
Encadenados ==
  \A n \in Mineros : /\ min[n].target = Cadena[min[n].i]
                     /\ min[n].pc \in {"mq_open", "abrir"} => min[n].i = 0

(* Only a comprobador reads a queue, and it has put nothing in its ring when*)
(* it opens it.                                                             *)
SinLeer ==
  \A p \in Monitores : /\ proc[p].rol # "comprobador" => proc[p].queue = Nadie
                       /\ proc[p].pc = "mq_open" => puestos[p] = <<>>

LlevaBloque(x) == x.pc \in {"empty", "mutex", "anadir", "rear"}

(* The sets that Conserva counts.                                           *)
Acabados(q, c) == {n \in Escritores(q) : min[n].pc = "exit" /\ c = Clave(DatoFin)}
Mandados(q, c) == {x \in Mineros \X Nat : /\ min[x[1]].queue = q /\ x[2] < min[x[1]].i
                                          /\ ClaveN(x[2]) = c}
Veces(s, c) == {j \in 1 .. Len(s) : Clave(s[j]) = c}
Puestas(q, c) == {x \in Monitores \X Nat : /\ proc[x[1]].queue = q
                                           /\ x[2] \in Veces(puestos[x[1]], c)}
EnManos(q, c) == {p \in Lectores(q) : LlevaBloque(proc[p]) /\ Clave(proc[p].dato) = c}

Cuadra(q, c) ==
  /\ IsFiniteSet(Mandados(q, c)) /\ IsFiniteSet(Puestas(q, c))
  /\ Cardinality(Acabados(q, c)) + Cardinality(Mandados(q, c))
       = Cardinality(Veces(cola[q], c)) + (Cardinality(Puestas(q, c)) + Cardinality(EnManos(q, c)))
Cuadran == \A q \in Mineros, c \in Claves : Cuadra(q, c)

Envio == Cuentas /\ Encadenados /\ SinLeer /\ Cuadran

LEMMA EnvioBasta == Envio => Conserva
<1>. SUFFICES ASSUME Envio, NEW q \in Mineros, NEW c \in Claves
              PROVE  Enviados(q, c) = Encolados(q, c) + Recibidos(q, c)
  BY DEF Conserva
<1>1. Tipo
  BY DEF Envio, Cuentas
<1>2. \A n \in Mineros : min[n].i \in Nat
  BY <1>1, MineroDe DEF ProcesoMinero
<1>3. UNION {{<<n, k>> : k \in {j \in 0 .. min[n].i - 1 : ClaveN(j) = c}} : n \in Escritores(q)}
        = Mandados(q, c)
  <2>. DEFINE K(n) == {j \in 0 .. min[n].i - 1 : ClaveN(j) = c}
              U == UNION {{<<n, k>> : k \in K(n)} : n \in Escritores(q)}
  <2>1. ASSUME NEW x \in U PROVE x \in Mandados(q, c)
    <3>1. PICK n \in Escritores(q) : x \in {<<n, k>> : k \in K(n)}
      OBVIOUS
    <3>2. PICK k \in K(n) : x = <<n, k>>
      BY <3>1
    <3>3. k \in Nat /\ k < min[n].i /\ ClaveN(k) = c
      BY <1>2, <3>1 DEF Escritores
    <3>. QED
      BY <3>1, <3>2, <3>3 DEF Mandados, Escritores
  <2>2. ASSUME NEW x \in Mandados(q, c) PROVE x \in U
    <3>1. PICK n \in Mineros, k \in Nat : x = <<n, k>>
      BY DEF Mandados
    <3>2. min[n].queue = q /\ k < min[n].i /\ ClaveN(k) = c
      BY <3>1 DEF Mandados
    <3>3. n \in Escritores(q) /\ k \in K(n)
      BY <1>2, <3>1, <3>2 DEF Escritores
    <3>. QED
      BY <3>1, <3>3
  <2>. QED
    BY <2>1, <2>2
<1>4. UNION {{<<p, j>> : j \in {i \in 1 .. Len(puestos[p]) : Clave(puestos[p][i]) = c}}
             : p \in Lectores(q)}
        = Puestas(q, c)
  <2>. DEFINE K(p) == {i \in 1 .. Len(puestos[p]) : Clave(puestos[p][i]) = c}
              U == UNION {{<<p, j>> : j \in K(p)} : p \in Lectores(q)}
  <2>1. ASSUME NEW x \in U PROVE x \in Puestas(q, c)
    <3>1. PICK p \in Lectores(q) : x \in {<<p, j>> : j \in K(p)}
      OBVIOUS
    <3>2. PICK j \in K(p) : x = <<p, j>>
      BY <3>1
    <3>3. j \in Nat /\ j \in Veces(puestos[p], c)
      BY <3>2 DEF Veces
    <3>. QED
      BY <3>1, <3>2, <3>3 DEF Puestas, Lectores
  <2>2. ASSUME NEW x \in Puestas(q, c) PROVE x \in U
    <3>1. PICK p \in Monitores, j \in Nat : x = <<p, j>>
      BY DEF Puestas
    <3>2. proc[p].queue = q /\ j \in Veces(puestos[p], c)
      BY <3>1 DEF Puestas
    <3>3. p \in Lectores(q) /\ j \in K(p)
      BY <3>1, <3>2 DEF Lectores, Veces
    <3>. QED
      BY <3>1, <3>3
  <2>. QED
    BY <2>1, <2>2
<1>5. Enviados(q, c) = Cardinality(Acabados(q, c)) + Cardinality(Mandados(q, c))
  BY <1>3 DEF Enviados, Acabados
<1>6. Recibidos(q, c) = Cardinality(Puestas(q, c)) + Cardinality(EnManos(q, c))
  BY <1>4 DEF Recibidos, EnManos, LlevaBloque
<1>7. Encolados(q, c) = Cardinality(Veces(cola[q], c))
  BY DEF Encolados, Veces
<1>. QED
  BY <1>5, <1>6, <1>7 DEF Envio, Cuadran, Cuadra

(* The miners' side does not change for a miner that only moves on, nor for *)
(* one that opens a queue and has sent nothing.                             *)
LEMMA MandadosIgual ==
  ASSUME Tipo, Tipo', NEW q \in Mineros, NEW c,
         \A n \in Mineros :
           \/ /\ min'[n].queue = min[n].queue /\ min'[n].i = min[n].i
              /\ min'[n].pc = "exit" <=> min[n].pc = "exit"
           \/ min'[n].i = 0 /\ min[n].i = 0 /\ min'[n].pc # "exit" /\ min[n].pc # "exit"
  PROVE  Acabados(q, c)' = Acabados(q, c) /\ Mandados(q, c)' = Mandados(q, c)
<1>1. Acabados(q, c)' = Acabados(q, c)
  <2>1. \A n \in Mineros : min'[n].pc = "exit" =>
          (min[n].pc = "exit" /\ min'[n].queue = min[n].queue)
    OBVIOUS
  <2>2. \A n \in Mineros : min[n].pc = "exit" =>
          (min'[n].pc = "exit" /\ min'[n].queue = min[n].queue)
    OBVIOUS
  <2>. QED
    BY <2>1, <2>2 DEF Acabados, Escritores
<1>2. Mandados(q, c)' = Mandados(q, c)
  <2>1. ASSUME NEW x \in Mineros \X Nat
        PROVE  (min'[x[1]].queue = q /\ x[2] < min'[x[1]].i)
                 <=> (min[x[1]].queue = q /\ x[2] < min[x[1]].i)
    <3>1. PICK n \in Mineros, k \in Nat : x[1] = n /\ x[2] = k
      OBVIOUS
    <3>2. ~(k < 0)
      BY <3>1
    <3>. QED
      BY <3>1, <3>2
  <2>. QED
    BY <2>1 DEF Mandados
<1>. QED
  BY <1>1, <1>2

(* The other side does not change for a comprobador that keeps what it      *)
(* carries and puts nothing in, for one that opens a queue and has put      *)
(* nothing in, nor for a program that reads no queue.                       *)
LEMMA PuestasIgual ==
  ASSUME Tipo, Tipo', NEW q \in Mineros, NEW c,
         \A p \in Monitores :
           \/ /\ proc'[p].queue = proc[p].queue /\ puestos'[p] = puestos[p]
              /\ LlevaBloque(proc'[p]) <=> LlevaBloque(proc[p])
              /\ LlevaBloque(proc[p]) => proc'[p].dato = proc[p].dato
           \/ proc'[p].queue \notin Mineros /\ proc[p].queue \notin Mineros
           \/ /\ puestos'[p] = <<>> /\ puestos[p] = <<>>
              /\ ~LlevaBloque(proc'[p]) /\ ~LlevaBloque(proc[p])
  PROVE  Puestas(q, c)' = Puestas(q, c) /\ EnManos(q, c)' = EnManos(q, c)
<1>1. EnManos(q, c)' = EnManos(q, c)
  BY DEF EnManos, Lectores
<1>2. Puestas(q, c)' = Puestas(q, c)
  <2>1. ASSUME NEW x \in Monitores \X Nat
        PROVE  (proc'[x[1]].queue = q /\ x[2] \in Veces(puestos'[x[1]], c))
                 <=> (proc[x[1]].queue = q /\ x[2] \in Veces(puestos[x[1]], c))
    <3>1. PICK p \in Monitores, k \in Nat : x[1] = p /\ x[2] = k
      OBVIOUS
    <3>2. Veces(<<>>, c) = {}
      BY DEF Veces
    <3>. QED
      BY <3>1, <3>2
  <2>. QED
    BY <2>1 DEF Puestas
<1>. QED
  BY <1>1, <1>2

LEMMA VecesFinitas ==
  ASSUME NEW s \in Seq(Dato), NEW c
  PROVE  IsFiniteSet(Veces(s, c)) /\ Cardinality(Veces(s, c)) \in Nat
<1>1. Veces(s, c) \in SUBSET (1 .. Len(s)) /\ IsFiniteSet(1 .. Len(s))
  BY FS_Interval DEF Veces
<1>. QED
  BY <1>1, FS_Subset, FS_CardinalityType

(* One block more at the end of a sequence ...                              *)
LEMMA VecesAnadida ==
  ASSUME NEW s \in Seq(Dato), NEW d \in Dato, NEW c
  PROVE  Veces(Append(s, d), c) =
           IF Clave(d) = c THEN Veces(s, c) \cup {Len(s) + 1} ELSE Veces(s, c)
<1>1. /\ Len(Append(s, d)) = Len(s) + 1 /\ Append(s, d)[Len(s) + 1] = d
      /\ \A i \in 1 .. Len(s) : Append(s, d)[i] = s[i]
  BY AppendProperties
<1>2. 1 .. Len(s) + 1 = (1 .. Len(s)) \cup {Len(s) + 1} /\ Len(s) + 1 \notin 1 .. Len(s)
  OBVIOUS
<1>. HIDE DEF Clave
<1>3. CASE Clave(d) = c
  BY <1>1, <1>2, <1>3 DEF Veces
<1>4. CASE Clave(d) # c
  BY <1>1, <1>2, <1>4 DEF Veces
<1>. QED
  BY <1>3, <1>4

LEMMA VecesAlFinal ==
  ASSUME NEW s \in Seq(Dato), NEW d \in Dato, NEW c
  PROVE  Cardinality(Veces(Append(s, d), c))
           = Cardinality(Veces(s, c)) + (IF Clave(d) = c THEN 1 ELSE 0)
<1>1. IsFiniteSet(Veces(s, c)) /\ Cardinality(Veces(s, c)) \in Nat
  BY VecesFinitas
<1>2. Len(s) + 1 \notin Veces(s, c)
  BY DEF Veces
<1>3. Cardinality(Veces(s, c) \cup {Len(s) + 1}) = Cardinality(Veces(s, c)) + 1
  BY <1>1, <1>2, FS_AddElement
<1>4. CASE Clave(d) = c
  <2>1. Veces(Append(s, d), c) = Veces(s, c) \cup {Len(s) + 1}
    BY <1>4, VecesAnadida
  <2>. QED
    BY <1>3, <1>4, <2>1
<1>5. CASE Clave(d) # c
  <2>1. Veces(Append(s, d), c) = Veces(s, c)
    BY <1>5, VecesAnadida
  <2>. QED
    BY <1>1, <1>5, <2>1
<1>. QED
  BY <1>4, <1>5

(* ... and one less at its beginning.                                       *)
LEMMA VecesAlPrincipio ==
  ASSUME NEW s \in Seq(Dato), s # <<>>, NEW c
  PROVE  Cardinality(Veces(s, c))
           = Cardinality(Veces(Tail(s), c)) + (IF Clave(Head(s)) = c THEN 1 ELSE 0)
<1>. DEFINE S == Veces(Tail(s), c)
            T == Veces(s, c) \ {1}
            f == [j \in S |-> j + 1]
<1>1. /\ Tail(s) \in Seq(Dato) /\ Len(Tail(s)) = Len(s) - 1 /\ Len(s) \in Nat /\ Len(s) >= 1
      /\ \A i \in 1 .. Len(Tail(s)) : Tail(s)[i] = s[i + 1]
      /\ Head(s) = s[1]
  BY HeadTailProperties
<1>2. /\ IsFiniteSet(S) /\ Cardinality(S) \in Nat
      /\ IsFiniteSet(Veces(s, c)) /\ Cardinality(Veces(s, c)) \in Nat
  BY <1>1, VecesFinitas
<1>. HIDE DEF Clave
<1>3. ASSUME NEW j \in S PROVE j \in Nat /\ j + 1 \in T
  BY <1>1 DEF Veces
<1>4. ASSUME NEW t \in T PROVE t - 1 \in S /\ (t - 1) + 1 = t
  <2>1. t \in 1 .. Len(s) /\ t # 1 /\ Clave(s[t]) = c
    BY DEF Veces
  <2>2. t - 1 \in 1 .. Len(Tail(s)) /\ (t - 1) + 1 = t
    BY <1>1, <2>1
  <2>. QED
    BY <1>1, <2>1, <2>2 DEF Veces
<1>5. f \in [S -> T]
  BY <1>3
<1>6. \A a, b \in S : f[a] = f[b] => a = b
  BY <1>3
<1>7. \A t \in T : \E j \in S : f[j] = t
  BY <1>4
<1>8. f \in Bijection(S, T)
  BY <1>5, <1>6, <1>7 DEF Bijection, Injection, Surjection, IsInjective
<1>9. Cardinality(T) = Cardinality(S)
  BY <1>2, <1>8, FS_Bijection DEF ExistsBijection
<1>10. Cardinality(T) = IF 1 \in Veces(s, c) THEN Cardinality(Veces(s, c)) - 1
                        ELSE Cardinality(Veces(s, c))
  BY <1>2, FS_RemoveElement
<1>11. 1 \in Veces(s, c) <=> Clave(Head(s)) = c
  BY <1>1 DEF Veces
<1>. QED
  BY <1>2, <1>9, <1>10, <1>11

(* Checking a block does not change what it says.                           *)
LEMMA ClaveComprueba == \A d \in Dato : Clave(Comprueba(d)) = Clave(d)
  BY DEF Comprueba, Clave, Dato

LEMMA Contados ==
  ASSUME Tipo, NEW q \in Mineros, NEW c
  PROVE  /\ IsFiniteSet(Acabados(q, c)) /\ Cardinality(Acabados(q, c)) \in Nat
         /\ IsFiniteSet(EnManos(q, c)) /\ Cardinality(EnManos(q, c)) \in Nat
         /\ IsFiniteSet(Veces(cola[q], c)) /\ Cardinality(Veces(cola[q], c)) \in Nat
         /\ cola[q] \in Seq(Dato)
<1>1. Acabados(q, c) \in SUBSET Mineros
  BY DEF Acabados, Escritores
<1>2. EnManos(q, c) \in SUBSET Monitores
  BY DEF EnManos, Lectores
<1>3. cola[q] \in Seq(Dato)
  BY DEF Tipo, TypeOK
<1>. QED
  BY <1>1, <1>2, <1>3, VecesFinitas, P3Assumption, FS_Subset, FS_CardinalityType

(* A comprobador takes the oldest block of its queue.                       *)
LEMMA MqReceiveCuadran ==
  ASSUME Envio, NEW p \in Monitores, MqReceive(p)
  PROVE  Cuadran' /\ SinLeer' /\ Encadenados'
<1>1. Tipo /\ Tipo' /\ SinLeer /\ Cuadran /\ Encadenados /\ min' = min /\ puestos' = puestos
  BY MqReceiveTipo DEF Envio, Cuentas, MqReceive, historia
<1>2. /\ proc[p].rol = "comprobador" /\ proc'[p].rol = "comprobador"
      /\ proc[p].pc = "mq_receive" /\ proc'[p].pc = "empty"
      /\ \A y \in Monitores \ {p} : proc'[y] = proc[y]
  BY <1>1, MqReceiveTipo
<1>3. PICK q \in Mineros : q = proc[p].queue
  BY <1>1, <1>2, ConPapel DEF SinCola
<1>4. cola[q] \in Seq(Dato) /\ cola[q] # <<>> /\ Head(cola[q]) \in Dato
  <2>1. cola[q] \in Seq(Dato) /\ cola[q] # <<>>
    BY <1>1, <1>3, MqReceiveTipo DEF Tipo, TypeOK, MqReceive
  <2>. QED
    BY <2>1, HeadTailProperties
<1>5. proc'[p].queue = q /\ proc'[p].dato = Comprueba(Head(cola[q]))
  <2>1. proc \in [Monitores -> Proceso] /\ proc[p] \in Proceso
    BY <1>1 DEF Tipo, TypeOK
  <2>2. proc' = [proc EXCEPT ![p] = [proc[p] EXCEPT !.pc = "empty", !.dato = Comprueba(Head(cola[q]))]]
    BY <1>3, <2>1 DEF MqReceive
  <2>3. proc'[p] = [proc[p] EXCEPT !.pc = "empty", !.dato = Comprueba(Head(cola[q]))]
    BY <2>1, <2>2
  <2>. QED
    BY <1>3, <2>1, <2>3 DEF Proceso
<1>6. cola'[q] = Tail(cola[q]) /\ \A x \in Mineros \ {q} : cola'[x] = cola[x]
  BY <1>1, <1>3 DEF MqReceive, Tipo, TypeOK
<1>7. SinLeer' /\ Encadenados'
  BY <1>1, <1>2 DEF SinLeer, Encadenados
<1>8. ASSUME NEW x \in Mineros, NEW c \in Claves PROVE Cuadra(x, c)'
  <2>1. Acabados(x, c)' = Acabados(x, c) /\ Mandados(x, c)' = Mandados(x, c)
    BY <1>1, MandadosIgual
  <2>2. Puestas(x, c)' = Puestas(x, c)
    BY <1>1, <1>2, <1>3, <1>5 DEF Puestas
  <2>3. Cuadra(x, c)
    BY <1>1 DEF Cuadran
  <2>4. CASE x # q
    <3>1. EnManos(x, c)' = EnManos(x, c)
      BY <1>2, <1>3, <1>5, <2>4 DEF EnManos, Lectores
    <3>. QED
      BY <1>6, <2>1, <2>2, <2>3, <2>4, <3>1 DEF Cuadra
  <2>5. CASE x = q
    <3>1. Clave(proc'[p].dato) = Clave(Head(cola[q]))
      BY <1>4, <1>5, ClaveComprueba
    <3>2. EnManos(q, c)' = IF Clave(Head(cola[q])) = c THEN EnManos(q, c) \cup {p} ELSE EnManos(q, c)
      BY <1>2, <1>3, <1>5, <3>1 DEF EnManos, Lectores, LlevaBloque
    <3>3. p \notin EnManos(q, c)
      BY <1>2 DEF EnManos, LlevaBloque
    <3>4. /\ IsFiniteSet(EnManos(q, c)) /\ Cardinality(EnManos(q, c)) \in Nat
          /\ Cardinality(Veces(cola[q], c)) \in Nat
      BY <1>1, Contados
    <3>5. Cardinality(EnManos(q, c)') = Cardinality(EnManos(q, c))
                                          + (IF Clave(Head(cola[q])) = c THEN 1 ELSE 0)
      <4>1. Cardinality(EnManos(q, c) \cup {p}) = Cardinality(EnManos(q, c)) + 1
        BY <3>3, <3>4, FS_AddElement
      <4>2. CASE Clave(Head(cola[q])) = c
        BY <3>2, <4>1, <4>2
      <4>3. CASE Clave(Head(cola[q])) # c
        BY <3>2, <3>4, <4>3
      <4>. QED
        BY <4>2, <4>3
    <3>6. Cardinality(Veces(cola[q], c)) = Cardinality(Veces(cola'[q], c))
                                             + (IF Clave(Head(cola[q])) = c THEN 1 ELSE 0)
      BY <1>4, <1>6, VecesAlPrincipio
    <3>7. Cardinality(Veces(cola'[q], c)) \in Nat
      BY <1>1, VecesFinitas DEF Tipo, TypeOK
    <3>8. Cardinality(Puestas(q, c)) \in Nat
      BY <2>3, <2>5, FS_CardinalityType DEF Cuadra
    <3>9. Cardinality(Veces(cola'[q], c)) + (Cardinality(Puestas(q, c)) + Cardinality(EnManos(q, c)'))
            = Cardinality(Veces(cola[q], c)) + (Cardinality(Puestas(q, c)) + Cardinality(EnManos(q, c)))
      BY <3>4, <3>5, <3>6, <3>7, <3>8
    <3>. QED
      BY <2>1, <2>2, <2>3, <2>5, <3>9 DEF Cuadra
  <2>. QED
    BY <2>4, <2>5
<1>. QED
  BY <1>7, <1>8 DEF Cuadran

(* It puts in its ring what it carries.                                     *)
LEMMA RearCuadran ==
  ASSUME Envio, Tipo', NEW p \in Monitores, Rear(p)
  PROVE  Cuadran' /\ SinLeer' /\ Encadenados'
<1>1. /\ Tipo /\ Tipo' /\ SinLeer /\ Cuadran /\ Encadenados /\ min' = min /\ cola' = cola
      /\ Pasa(p, "rear", "post_mutex") /\ "post_mutex" \in EstadosP
  BY DEF Envio, Cuentas, Rear, EstadosP
<1>2. /\ proc[p].pc = "rear" /\ proc'[p].pc = "post_mutex" /\ proc'[p].rol = proc[p].rol
      /\ proc'[p].queue = proc[p].queue /\ proc'[p].dato = proc[p].dato
      /\ \A y \in Monitores \ {p} : proc'[y] = proc[y]
  BY <1>1, PasaTipo
<1>3. proc[p].rol = "comprobador" /\ proc[p].mem = p
  BY <1>1, <1>2, ConPapel DEF PcMonitor
<1>4. PICK q \in Mineros : q = proc[p].queue
  BY <1>1, <1>2, <1>3, ConPapel DEF SinCola
<1>5. PICK d \in Dato : d = proc[p].dato
  BY <1>1 DEF Tipo, TypeOK, Proceso
<1>6. /\ puestos[p] \in Seq(Dato) /\ puestos'[p] = Append(puestos[p], d)
      /\ \A y \in Monitores \ {p} : puestos'[y] = puestos[y]
  BY <1>1, <1>3, <1>5 DEF Rear, Tipo, TypeOK
<1>7. SinLeer' /\ Encadenados'
  BY <1>1, <1>2, <1>3, <1>6 DEF SinLeer, Encadenados
<1>8. PICK l \in Nat : l = Len(puestos[p])
  BY <1>6
<1>9. ASSUME NEW x \in Mineros, NEW c \in Claves PROVE Cuadra(x, c)'
  <2>1. Acabados(x, c)' = Acabados(x, c) /\ Mandados(x, c)' = Mandados(x, c)
    BY <1>1, MandadosIgual
  <2>2. Cuadra(x, c)
    BY <1>1 DEF Cuadran
  <2>. HIDE DEF Clave
  <2>3. CASE x # q \/ Clave(d) # c
    <3>1. EnManos(x, c)' = EnManos(x, c)
      BY <1>2, <1>4, <1>5, <2>3 DEF EnManos, Lectores, LlevaBloque
    <3>2. Clave(d) # c => Veces(puestos'[p], c) = Veces(puestos[p], c)
      BY <1>6, VecesAnadida
    <3>3. ASSUME NEW z \in Monitores \X Nat
          PROVE  (proc'[z[1]].queue = x /\ z[2] \in Veces(puestos'[z[1]], c))
                   <=> (proc[z[1]].queue = x /\ z[2] \in Veces(puestos[z[1]], c))
      <4>1. PICK y \in Monitores, k \in Nat : z[1] = y /\ z[2] = k
        OBVIOUS
      <4>2. proc'[y].queue = proc[y].queue
        BY <1>2
      <4>3. CASE y = p
        BY <1>4, <2>3, <3>2, <4>1, <4>2, <4>3
      <4>4. CASE y # p
        BY <1>6, <4>1, <4>2, <4>4
      <4>. QED
        BY <4>3, <4>4
    <3>4. Puestas(x, c)' = Puestas(x, c)
      BY <3>3 DEF Puestas
    <3>. QED
      BY <1>1, <2>1, <2>2, <3>1, <3>4 DEF Cuadra
  <2>4. CASE x = q /\ Clave(d) = c
    <3>1. EnManos(q, c)' = EnManos(q, c) \ {p} /\ p \in EnManos(q, c)
      BY <1>2, <1>4, <1>5, <2>4 DEF EnManos, Lectores, LlevaBloque
    <3>2. Veces(puestos'[p], c) = Veces(puestos[p], c) \cup {l + 1} /\ l + 1 \notin Veces(puestos[p], c)
      <4>1. Veces(puestos'[p], c) = Veces(puestos[p], c) \cup {l + 1}
        BY <1>6, <1>8, <2>4, VecesAnadida
      <4>2. l + 1 \notin Veces(puestos[p], c)
        BY <1>8 DEF Veces
      <4>. QED
        BY <4>1, <4>2
    <3>3. Puestas(q, c)' = Puestas(q, c) \cup {<<p, l + 1>>} /\ <<p, l + 1>> \notin Puestas(q, c)
      <4>1. ASSUME NEW z \in Monitores \X Nat
            PROVE  (proc'[z[1]].queue = q /\ z[2] \in Veces(puestos'[z[1]], c))
                     <=> (proc[z[1]].queue = q /\ z[2] \in Veces(puestos[z[1]], c)) \/ z = <<p, l + 1>>
        <5>1. PICK y \in Monitores, k \in Nat : z = <<y, k>> /\ z[1] = y /\ z[2] = k
          OBVIOUS
        <5>2. proc'[y].queue = proc[y].queue /\ (z = <<p, l + 1>> <=> (y = p /\ k = l + 1))
          BY <1>2, <5>1
        <5>3. CASE y = p
          BY <1>4, <3>2, <5>1, <5>2, <5>3
        <5>4. CASE y # p
          BY <1>6, <5>1, <5>2, <5>4
        <5>. QED
          BY <5>3, <5>4
      <4>2. <<p, l + 1>> \in Monitores \X Nat
        OBVIOUS
      <4>3. <<p, l + 1>> \notin Puestas(q, c)
        BY <3>2 DEF Puestas
      <4>4. Puestas(q, c)' = Puestas(q, c) \cup {<<p, l + 1>>}
        BY <4>1, <4>2 DEF Puestas
      <4>. QED
        BY <4>3, <4>4
    <3>4. /\ IsFiniteSet(Puestas(q, c)) /\ Cardinality(Puestas(q, c)) \in Nat
          /\ IsFiniteSet(EnManos(q, c)) /\ Cardinality(EnManos(q, c)) \in Nat
      BY <1>1, <2>2, <2>4, Contados, FS_CardinalityType DEF Cuadra
    <3>5. /\ IsFiniteSet(Puestas(q, c)')
          /\ Cardinality(Puestas(q, c)') = Cardinality(Puestas(q, c)) + 1
      <4>. DEFINE P == Puestas(q, c)
                  z == <<p, l + 1>>
      <4>1. IsFiniteSet(P) /\ z \notin P /\ Puestas(q, c)' = P \cup {z}
        BY <3>3, <3>4
      <4>. HIDE DEF P, z
      <4>2. IsFiniteSet(P \cup {z}) /\ Cardinality(P \cup {z}) = Cardinality(P) + 1
        BY <4>1, FS_AddElement
      <4>. QED
        BY <4>1, <4>2 DEF P
    <3>6. Cardinality(EnManos(q, c)') = Cardinality(EnManos(q, c)) - 1
      <4>1. Cardinality(EnManos(q, c) \ {p}) = Cardinality(EnManos(q, c)) - 1
        BY <3>1, <3>4, FS_RemoveElement
      <4>. QED
        BY <3>1, <4>1
    <3>7. Cardinality(Puestas(q, c)') + Cardinality(EnManos(q, c)')
            = Cardinality(Puestas(q, c)) + Cardinality(EnManos(q, c))
      BY <3>4, <3>5, <3>6
    <3>. QED
      BY <1>1, <2>1, <2>2, <2>4, <3>5, <3>7 DEF Cuadra
  <2>. QED
    BY <2>3, <2>4
<1>. QED
  BY <1>7, <1>9 DEF Cuadran

(* A miner sends the block its chain says ...                               *)
LEMMA EnviarCuadran ==
  ASSUME Envio, Tipo', NEW n \in Mineros, Enviar(n)
  PROVE  Cuadran' /\ SinLeer' /\ Encadenados'
<1>1. /\ Tipo /\ Tipo' /\ SinLeer /\ Cuadran /\ Encadenados /\ proc' = proc /\ puestos' = puestos
      /\ min[n].pc = "enviar"
  BY DEF Envio, Cuentas, Enviar, historia
<1>2. PICK q \in Mineros : q = min[n].queue
  BY <1>1, MineroDe
<1>3. PICK i \in Nat : i = min[n].i
  BY <1>1, MineroDe DEF ProcesoMinero
<1>4. min[n].target = Cadena[i] /\ target_search(min[n].target) = Cadena[i + 1]
  BY <1>1, <1>3, CadenaSigue DEF Encadenados
<1>5. PICK d \in Dato : d = [fin |-> FALSE, objetivo |-> min[n].target,
                             solucion |-> target_search(min[n].target), correcto |-> TRUE]
  BY <1>1, MineroDe, SolucionTipo DEF Dato, ProcesoMinero
<1>6. Clave(d) = ClaveN(i)
  BY <1>4, <1>5 DEF Clave, ClaveN
<1>7. cola[q] \in Seq(Dato) /\ cola'[q] = Append(cola[q], d) /\ \A x \in Mineros \ {q} : cola'[x] = cola[x]
  BY <1>1, <1>2, <1>5 DEF Enviar, Tipo, TypeOK
<1>8. /\ min'[n].queue = q /\ min'[n].i = i + 1 /\ min'[n].pc \in {"fin", "enviar"}
      /\ min'[n].target = Cadena[i + 1]
      /\ \A y \in Mineros \ {n} : min'[y] = min[y]
  <2>1. min \in [Mineros -> ProcesoMinero] /\ min[n] \in ProcesoMinero
    BY <1>1 DEF Tipo, TypeOK
  <2>2. PICK a \in {"fin", "enviar"} : a = IF min[n].i + 1 = min[n].n_cycles THEN "fin" ELSE "enviar"
    OBVIOUS
  <2>3. PICK s : s = target_search(min[n].target)
    OBVIOUS
  <2>4. min' = [min EXCEPT ![n] = [min[n] EXCEPT !.target = s, !.i = min[n].i + 1, !.pc = a]]
    BY <2>1, <2>2, <2>3 DEF Enviar
  <2>5. min'[n] = [min[n] EXCEPT !.target = s, !.i = min[n].i + 1, !.pc = a]
    BY <2>1, <2>4
  <2>6. /\ min'[n].queue = min[n].queue /\ min'[n].i = min[n].i + 1 /\ min'[n].pc = a
        /\ min'[n].target = s
    BY <2>1, <2>5 DEF ProcesoMinero
  <2>7. \A y \in Mineros \ {n} : min'[y] = min[y]
    BY <2>1, <2>4
  <2>. QED
    BY <1>2, <1>3, <1>4, <2>2, <2>3, <2>6, <2>7
<1>9. SinLeer' /\ Encadenados'
  BY <1>1, <1>8 DEF SinLeer, Encadenados
<1>10. ASSUME NEW x \in Mineros, NEW c \in Claves PROVE Cuadra(x, c)'
  <2>1. Acabados(x, c)' = Acabados(x, c)
    <3>1. \A y \in Mineros : /\ min'[y].pc = "exit" <=> min[y].pc = "exit"
                             /\ min'[y].queue = min[y].queue
      BY <1>1, <1>2, <1>8
    <3>. QED
      BY <3>1 DEF Acabados, Escritores
  <2>2. Puestas(x, c)' = Puestas(x, c) /\ EnManos(x, c)' = EnManos(x, c)
    BY <1>1, PuestasIgual
  <2>3. Cuadra(x, c)
    BY <1>1 DEF Cuadran
  <2>. HIDE DEF Clave, ClaveN
  <2>4. \A y \in Mineros : min'[y].queue = min[y].queue /\ min[y].i \in Nat /\ min'[y].i \in Nat
    BY <1>1, <1>2, <1>8 DEF Tipo, TypeOK, ProcesoMinero
  <2>5. CASE x # q \/ Clave(d) # c
    <3>1. ASSUME NEW z \in Mineros \X Nat
          PROVE  (min'[z[1]].queue = x /\ z[2] < min'[z[1]].i /\ ClaveN(z[2]) = c)
                   <=> (min[z[1]].queue = x /\ z[2] < min[z[1]].i /\ ClaveN(z[2]) = c)
      <4>1. PICK y \in Mineros, k \in Nat : z[1] = y /\ z[2] = k
        OBVIOUS
      <4>2. CASE y = n
        <5>1. CASE x # q
          BY <1>2, <1>8, <4>1, <4>2, <5>1
        <5>2. CASE x = q
          <6>1. ClaveN(k) = c => k # i
            BY <1>6, <2>5, <5>2
          <6>2. k # i => (k < i + 1 <=> k < i)
            OBVIOUS
          <6>. QED
            BY <1>2, <1>3, <1>8, <4>1, <4>2, <6>1, <6>2
        <5>. QED
          BY <5>1, <5>2
      <4>3. CASE y # n
        BY <1>8, <4>1, <4>3
      <4>. QED
        BY <4>2, <4>3
    <3>2. Mandados(x, c)' = Mandados(x, c)
      BY <3>1 DEF Mandados
    <3>3. Cardinality(Veces(cola'[x], c)) = Cardinality(Veces(cola[x], c))
      <4>1. CASE x # q
        BY <1>7, <4>1
      <4>2. CASE x = q
        <5>1. Veces(cola'[q], c) = Veces(cola[q], c)
          BY <1>7, <2>5, <4>2, VecesAnadida
        <5>. QED
          BY <4>2, <5>1
      <4>. QED
        BY <4>1, <4>2
    <3>. QED
      BY <2>1, <2>2, <2>3, <3>2, <3>3 DEF Cuadra
  <2>6. CASE x = q /\ Clave(d) = c
    <3>1. ASSUME NEW z \in Mineros \X Nat
          PROVE  (min'[z[1]].queue = q /\ z[2] < min'[z[1]].i /\ ClaveN(z[2]) = c)
                   <=> (min[z[1]].queue = q /\ z[2] < min[z[1]].i /\ ClaveN(z[2]) = c) \/ z = <<n, i>>
      <4>1. PICK y \in Mineros, k \in Nat : z = <<y, k>> /\ z[1] = y /\ z[2] = k
        OBVIOUS
      <4>2. z = <<n, i>> <=> (y = n /\ k = i)
        BY <4>1
      <4>3. CASE y = n
        <5>1. k < i + 1 <=> (k < i \/ k = i)
          OBVIOUS
        <5>. QED
          BY <1>2, <1>3, <1>6, <1>8, <2>6, <4>1, <4>2, <4>3, <5>1
      <4>4. CASE y # n
        BY <1>8, <4>1, <4>2, <4>4
      <4>. QED
        BY <4>3, <4>4
    <3>2. Mandados(q, c)' = Mandados(q, c) \cup {<<n, i>>}
      BY <3>1 DEF Mandados
    <3>3. <<n, i>> \notin Mandados(q, c)
      <4>1. ~(i < i)
        OBVIOUS
      <4>. QED
        BY <1>3, <4>1 DEF Mandados
    <3>4. /\ IsFiniteSet(Mandados(q, c)) /\ Cardinality(Mandados(q, c)) \in Nat
          /\ Cardinality(Acabados(q, c)) \in Nat /\ Cardinality(Veces(cola[q], c)) \in Nat
          /\ Cardinality(Puestas(q, c)) \in Nat /\ Cardinality(EnManos(q, c)) \in Nat
      BY <1>1, <2>3, <2>6, Contados, FS_CardinalityType DEF Cuadra
    <3>5. /\ IsFiniteSet(Mandados(q, c)')
          /\ Cardinality(Mandados(q, c)') = Cardinality(Mandados(q, c)) + 1
      BY <3>2, <3>3, <3>4, FS_AddElement
    <3>6. Cardinality(Veces(cola'[q], c)) = Cardinality(Veces(cola[q], c)) + 1
      BY <1>7, <2>6, VecesAlFinal
    <3>. QED
      BY <2>1, <2>2, <2>3, <2>6, <3>4, <3>5, <3>6 DEF Cuadra
  <2>. QED
    BY <2>5, <2>6
<1>. QED
  BY <1>9, <1>10 DEF Cuadran

(* ... and a finishing block when it is done.                               *)
LEMMA EnviarFinCuadran ==
  ASSUME Envio, Tipo', NEW n \in Mineros, EnviarFin(n)
  PROVE  Cuadran' /\ SinLeer' /\ Encadenados'
<1>1. /\ Tipo /\ Tipo' /\ SinLeer /\ Cuadran /\ Encadenados /\ proc' = proc /\ puestos' = puestos
      /\ min[n].pc = "fin" /\ DatoFin \in Dato
  BY BloqueTipo DEF Envio, Cuentas, EnviarFin, MPasa, historia
<1>2. PICK q \in Mineros : q = min[n].queue
  BY <1>1, MineroDe
<1>3. cola[q] \in Seq(Dato) /\ cola'[q] = Append(cola[q], DatoFin)
      /\ \A x \in Mineros \ {q} : cola'[x] = cola[x]
  BY <1>1, <1>2 DEF EnviarFin, Tipo, TypeOK
<1>4. /\ min'[n].queue = q /\ min'[n].i = min[n].i /\ min'[n].pc = "exit"
      /\ min'[n].target = min[n].target
      /\ \A y \in Mineros \ {n} : min'[y] = min[y]
  <2>1. min \in [Mineros -> ProcesoMinero] /\ min[n] \in ProcesoMinero
    BY <1>1 DEF Tipo, TypeOK
  <2>2. min' = [min EXCEPT ![n] = [min[n] EXCEPT !.pc = "exit"]]
    BY <2>1 DEF EnviarFin, MPasa
  <2>3. min'[n] = [min[n] EXCEPT !.pc = "exit"] /\ \A y \in Mineros \ {n} : min'[y] = min[y]
    BY <2>1, <2>2
  <2>. QED
    BY <1>2, <2>1, <2>3 DEF ProcesoMinero
<1>5. SinLeer' /\ Encadenados'
  BY <1>1, <1>4 DEF SinLeer, Encadenados
<1>6. ASSUME NEW x \in Mineros, NEW c \in Claves PROVE Cuadra(x, c)'
  <2>1. Mandados(x, c)' = Mandados(x, c)
    <3>1. \A y \in Mineros : min'[y].queue = min[y].queue /\ min'[y].i = min[y].i
      BY <1>2, <1>4
    <3>2. \A z \in Mineros \X Nat : z[1] \in Mineros
      OBVIOUS
    <3>. QED
      BY <3>1, <3>2 DEF Mandados
  <2>2. Puestas(x, c)' = Puestas(x, c) /\ EnManos(x, c)' = EnManos(x, c)
    BY <1>1, PuestasIgual
  <2>3. Cuadra(x, c)
    BY <1>1 DEF Cuadran
  <2>. HIDE DEF Clave
  <2>4. CASE x # q \/ Clave(DatoFin) # c
    <3>1. Acabados(x, c)' = Acabados(x, c)
      BY <1>1, <1>2, <1>4, <2>4 DEF Acabados, Escritores
    <3>2. Cardinality(Veces(cola'[x], c)) = Cardinality(Veces(cola[x], c))
      <4>1. CASE x # q
        BY <1>3, <4>1
      <4>2. CASE x = q
        <5>1. Veces(cola'[q], c) = Veces(cola[q], c)
          BY <1>1, <1>3, <2>4, <4>2, VecesAnadida
        <5>. QED
          BY <4>2, <5>1
      <4>. QED
        BY <4>1, <4>2
    <3>. QED
      BY <2>1, <2>2, <2>3, <3>1, <3>2 DEF Cuadra
  <2>5. CASE x = q /\ Clave(DatoFin) = c
    <3>1. Acabados(q, c)' = Acabados(q, c) \cup {n} /\ n \notin Acabados(q, c)
      BY <1>1, <1>2, <1>4, <2>5 DEF Acabados, Escritores
    <3>2. /\ IsFiniteSet(Acabados(q, c)) /\ Cardinality(Mandados(q, c)) \in Nat
          /\ Cardinality(Acabados(q, c)) \in Nat /\ Cardinality(Veces(cola[q], c)) \in Nat
          /\ Cardinality(Puestas(q, c)) \in Nat /\ Cardinality(EnManos(q, c)) \in Nat
      BY <1>1, <2>3, <2>5, Contados, FS_CardinalityType DEF Cuadra
    <3>3. Cardinality(Acabados(q, c)') = Cardinality(Acabados(q, c)) + 1
      BY <3>1, <3>2, FS_AddElement
    <3>4. Cardinality(Veces(cola'[q], c)) = Cardinality(Veces(cola[q], c)) + 1
      BY <1>1, <1>3, <2>5, VecesAlFinal
    <3>. QED
      BY <2>1, <2>2, <2>3, <2>5, <3>2, <3>3, <3>4 DEF Cuadra
  <2>. QED
    BY <2>4, <2>5
<1>. QED
  BY <1>5, <1>6 DEF Cuadran

(* The other steps: what was sent, queued and put in stays as it was.       *)
LEMMA NadaCuadran ==
  ASSUME Envio, Tipo', cola' = cola,
         \A n \in Mineros :
           \/ /\ min'[n].queue = min[n].queue /\ min'[n].i = min[n].i
              /\ min'[n].pc = "exit" <=> min[n].pc = "exit"
           \/ min'[n].i = 0 /\ min[n].i = 0 /\ min'[n].pc # "exit" /\ min[n].pc # "exit",
         \A p \in Monitores :
           \/ /\ proc'[p].queue = proc[p].queue /\ puestos'[p] = puestos[p]
              /\ LlevaBloque(proc'[p]) <=> LlevaBloque(proc[p])
              /\ LlevaBloque(proc[p]) => proc'[p].dato = proc[p].dato
           \/ proc'[p].queue \notin Mineros /\ proc[p].queue \notin Mineros
           \/ /\ puestos'[p] = <<>> /\ puestos[p] = <<>>
              /\ ~LlevaBloque(proc'[p]) /\ ~LlevaBloque(proc[p])
  PROVE  Cuadran'
<1>1. Tipo /\ Cuadran
  BY DEF Envio, Cuentas
<1>. SUFFICES ASSUME NEW q \in Mineros, NEW c \in Claves PROVE Cuadra(q, c)'
  BY DEF Cuadran
<1>2. Acabados(q, c)' = Acabados(q, c) /\ Mandados(q, c)' = Mandados(q, c)
  BY <1>1, MandadosIgual
<1>3. Puestas(q, c)' = Puestas(q, c) /\ EnManos(q, c)' = EnManos(q, c)
  BY <1>1, PuestasIgual
<1>4. Cuadra(q, c)
  BY <1>1 DEF Cuadran
<1>. QED
  BY <1>2, <1>3, <1>4 DEF Cuadra

(* A monitor program goes on and carries what it carried.                   *)
LEMMA PasaCuadran ==
  ASSUME Envio, Tipo', NEW p \in Monitores, NEW de, NEW a \in EstadosP, Pasa(p, de, a),
         cola' = cola, min' = min, puestos' = puestos,
         de \in {"empty", "mutex", "anadir", "rear"} <=> a \in {"empty", "mutex", "anadir", "rear"},
         a = "mq_open" => puestos[p] = <<>>
  PROVE  Cuadran' /\ SinLeer' /\ Encadenados'
<1>1. Tipo /\ SinLeer /\ Encadenados
  BY DEF Envio, Cuentas
<1>2. /\ proc[p].pc = de /\ proc'[p].pc = a
      /\ \A y \in Monitores : /\ proc'[y].queue = proc[y].queue /\ proc'[y].dato = proc[y].dato
                              /\ proc'[y].rol = proc[y].rol
      /\ \A y \in Monitores \ {p} : proc'[y] = proc[y]
  BY <1>1, PasaTipo
<1>3. \A y \in Monitores : LlevaBloque(proc'[y]) <=> LlevaBloque(proc[y])
  BY <1>2 DEF LlevaBloque
<1>4. Cuadran'
  BY <1>2, <1>3, NadaCuadran
<1>5. SinLeer' /\ Encadenados'
  BY <1>1, <1>2 DEF SinLeer, Encadenados
<1>. QED
  BY <1>4, <1>5

(* So does a monitor, which reads no queue.                                 *)
LEMMA MonitorCuadran ==
  ASSUME Envio, Tipo', NEW p \in Monitores, proc[p].rol = "monitor", proc'[p].rol = "monitor",
         proc'[p].queue = proc[p].queue, \A y \in Monitores \ {p} : proc'[y] = proc[y],
         cola' = cola, min' = min, puestos' = puestos, proc'[p].pc # "mq_open"
  PROVE  Cuadran' /\ SinLeer' /\ Encadenados'
<1>1. Tipo /\ SinLeer /\ Encadenados
  BY DEF Envio, Cuentas
<1>2. proc[p].queue \notin Mineros
  BY <1>1, P3Assumption DEF SinLeer
<1>3. Cuadran'
  BY <1>2, NadaCuadran
<1>4. SinLeer' /\ Encadenados'
  BY <1>1 DEF SinLeer, Encadenados
<1>. QED
  BY <1>3, <1>4

(* A new role, a queue opened: nothing has been put in yet.                 *)
LEMMA NuevosCuadran ==
  ASSUME Envio, Tipo', NEW p \in Monitores, ShmCrea(p) \/ ShmAbre(p) \/ MqAbre(p)
  PROVE  Cuadran' /\ SinLeer' /\ Encadenados'
<1>1. /\ Tipo /\ SinLeer /\ Encadenados /\ cola' = cola /\ min' = min /\ puestos' = puestos
      /\ proc \in [Monitores -> Proceso] /\ proc[p] \in Proceso
  BY DEF Envio, Cuentas, ShmCrea, ShmAbre, MqAbre, historia, Tipo, TypeOK
<1>2. PICK x \in Proceso :
        /\ proc' = [proc EXCEPT ![p] = x]
        /\ \/ /\ x.queue = proc[p].queue /\ proc[p].pc \in {"shm_open", "abrir", "mq_open"}
              /\ x.pc \in {"ftruncate", "fallo", "shm_unlink"}
              /\ x.rol \in {"comprobador", proc[p].rol} \/ proc[p].rol # "comprobador"
           \/ proc[p].pc = "mq_open" /\ x.pc = "mq_unlink" /\ x.rol = "comprobador"
  <2>1. CASE ShmCrea(p)
    <3>. DEFINE x == [proc[p] EXCEPT !.pc = "ftruncate", !.rol = "comprobador", !.mem = p]
    <3>1. x \in Proceso /\ x.queue = proc[p].queue /\ x.pc = "ftruncate" /\ x.rol = "comprobador"
      BY <1>1 DEF Proceso, EstadosP, Objetos
    <3>2. proc' = [proc EXCEPT ![p] = x] /\ proc[p].pc = "shm_open"
      BY <1>1, <2>1 DEF ShmCrea, Despierto
    <3>. QED
      BY <3>1, <3>2
  <2>2. CASE ShmAbre(p)
    <3>. DEFINE x == IF SHM_NAME = Nadie THEN [proc[p] EXCEPT !.pc = "fallo"]
                     ELSE [proc[p] EXCEPT !.pc = "shm_unlink", !.rol = "monitor", !.mem = SHM_NAME]
    <3>1. x \in Proceso /\ x.queue = proc[p].queue /\ x.pc \in {"fallo", "shm_unlink"}
      BY <1>1 DEF Proceso, EstadosP, Tipo, TypeOK
    <3>2. proc' = [proc EXCEPT ![p] = x] /\ proc[p].pc = "abrir"
      BY <2>2 DEF ShmAbre, Despierto
    <3>3. proc[p].rol # "comprobador"
      BY <1>1, <2>2, ShmAbreTipo
    <3>. QED
      BY <3>1, <3>2, <3>3
  <2>3. CASE MqAbre(p)
    <3>. DEFINE x == IF MQ_NAME = Nadie THEN [proc[p] EXCEPT !.pc = "fallo"]
                     ELSE [proc[p] EXCEPT !.pc = "mq_unlink", !.queue = MQ_NAME]
    <3>1. /\ x \in Proceso /\ x.rol = proc[p].rol
          /\ x.pc = "mq_unlink" \/ (x.pc = "fallo" /\ x.queue = proc[p].queue)
      BY <1>1 DEF Proceso, EstadosP, Tipo, TypeOK
    <3>2. proc' = [proc EXCEPT ![p] = x] /\ proc[p].pc = "mq_open"
      BY <2>3 DEF MqAbre, Despierto
    <3>3. proc[p].rol = "comprobador"
      BY <1>1, <2>3, MqAbreTipo
    <3>. QED
      BY <3>1, <3>2, <3>3
  <2>. QED
    BY <2>1, <2>2, <2>3
<1>3. proc'[p] = x /\ \A y \in Monitores \ {p} : proc'[y] = proc[y]
  BY <1>1, <1>2
<1>4. ~LlevaBloque(proc[p]) /\ ~LlevaBloque(proc'[p])
  BY <1>2, <1>3 DEF LlevaBloque
<1>5. proc'[p].queue = proc[p].queue \/ puestos[p] = <<>>
  BY <1>1, <1>2, <1>3 DEF SinLeer
<1>6. Cuadran'
  BY <1>1, <1>3, <1>4, <1>5, NadaCuadran
<1>7. SinLeer' /\ Encadenados'
  BY <1>1, <1>2, <1>3 DEF SinLeer, Encadenados
<1>. QED
  BY <1>6, <1>7

(* Programs that neither put nor take a block of a queue.                   *)
LEMMA PasosCuadran ==
  ASSUME Envio, Tipo', NEW p \in Monitores,
         \/ ShmExiste(p) \/ ShmUnlink(p) \/ Falla(p) \/ MqUnlink(p) \/ Mmap(p) \/ Sigbus(p)
         \/ Ftruncate(p) \/ SemInit(p) \/ Anadir(p) \/ PostMutex(p) \/ PostFill(p)
         \/ SemWait(p, "empty", "mutex")
  PROVE  Cuadran' /\ SinLeer' /\ Encadenados'
<1>1. PICK de, a : /\ Pasa(p, de, a)
                   /\ <<de, a>> \in {<<"shm_open", "abrir">>, <<"shm_unlink", "mmap">>,
                        <<"ftruncate", "fallo">>, <<"sem_init", "fallo">>, <<"mmap", "fallo">>,
                        <<"mq_unlink", "mq_receive">>, <<"mmap", "fill">>, <<"fill", "sigbus">>,
                        <<"ftruncate", "sem_init">>, <<"sem_init", "mq_open">>, <<"anadir", "rear">>,
                        <<"post_mutex", "post_fill">>, <<"post_mutex", "post_empty">>,
                        <<"post_fill", "exit">>, <<"post_fill", "mq_receive">>, <<"empty", "mutex">>}
  BY DEF ShmExiste, ShmUnlink, Falla, FtruncateFalla, C_MmapFalla, M_MmapFalla,
         MqUnlink, Mmap, Sigbus, Ftruncate, SemInit, Anadir, PostMutex,
         PostFill, SemWait
<1>2. /\ a \in EstadosP
      /\ de \in {"empty", "mutex", "anadir", "rear"} <=> a \in {"empty", "mutex", "anadir", "rear"}
      /\ a = "mq_open" => de = "sem_init"
  BY <1>1 DEF EstadosP
<1>3. cola' = cola /\ min' = min /\ puestos' = puestos
  BY DEF ShmExiste, ShmUnlink, Falla, FtruncateFalla, C_MmapFalla, M_MmapFalla,
         MqUnlink, Mmap, Sigbus, Ftruncate, SemInit, Anadir, PostMutex,
         PostFill, SemWait, historia
<1>4. a = "mq_open" => puestos[p] = <<>>
  BY <1>1, <1>2 DEF Pasa, Despierto, Envio, Cuentas, Inicio, SinIniciar, Antes
<1>. QED
  BY <1>1, <1>2, <1>3, <1>4, PasaCuadran

(* A monitor's own steps, and the mutex that both programs wait for.        *)
LEMMA LectoresCuadran ==
  ASSUME Envio, Tipo', NEW p \in Monitores,
         \/ SemWait(p, "fill", "mutex") \/ Extraer(p) \/ Front(p) \/ PostEmpty(p) \/ Imprimir(p)
         \/ WaitMutex(p)
  PROVE  Cuadran' /\ SinLeer' /\ Encadenados'
<1>1. Tipo /\ cola' = cola /\ min' = min /\ puestos' = puestos
  BY DEF Envio, Cuentas, SemWait, Extraer, Front, PostEmpty, Imprimir, WaitMutex, historia
<1>2. CASE Extraer(p)
  <2>1. proc'[p].queue = proc[p].queue
    <3>1. proc \in [Monitores -> Proceso] /\ proc[p] \in Proceso
      BY <1>1 DEF Tipo, TypeOK
    <3>2. PICK d : proc' = [proc EXCEPT ![p] = [proc[p] EXCEPT !.pc = "front", !.dato = d]]
      BY <1>2, <3>1 DEF Extraer
    <3>3. proc'[p] = [proc[p] EXCEPT !.pc = "front", !.dato = d]
      BY <3>1, <3>2
    <3>. QED
      BY <3>1, <3>3 DEF Proceso
  <2>. QED
    BY <1>1, <1>2, <2>1, ExtraerTipo, MonitorCuadran
<1>3. CASE ~Extraer(p)
  <2>1. PICK de, a : /\ Pasa(p, de, a)
                     /\ \/ <<de, a>> \in {<<"fill", "mutex">>, <<"front", "post_mutex">>,
                             <<"post_empty", "exit">>, <<"post_empty", "imprimir">>, <<"imprimir", "fill">>}
                        \/ de = "mutex" /\ a = IF EsComprobador(p) THEN "anadir" ELSE "extraer"
    BY <1>3 DEF SemWait, Front, PostEmpty, Imprimir, WaitMutex
  <2>2. a \in EstadosP /\ a # "mq_open"
    BY <2>1 DEF EstadosP
  <2>3. /\ proc[p].pc = de /\ proc'[p].pc = a /\ proc'[p].queue = proc[p].queue
        /\ proc'[p].rol = proc[p].rol /\ \A y \in Monitores \ {p} : proc'[y] = proc[y]
    BY <1>1, <2>1, <2>2, PasaTipo
  <2>4. CASE EsComprobador(p) /\ de = "mutex"
    BY <1>1, <2>1, <2>2, <2>4, PasaCuadran
  <2>5. CASE ~(EsComprobador(p) /\ de = "mutex")
    <3>1. proc[p].rol = "monitor"
      BY <1>1, <2>1, <2>3, <2>5, ConPapel DEF PcComprobador, EsComprobador
    <3>. QED
      BY <1>1, <2>2, <2>3, <3>1, MonitorCuadran
  <2>. QED
    BY <2>4, <2>5
<1>. QED
  BY <1>2, <1>3

(* A miner that opens a queue has sent nothing; the others just go on.      *)
LEMMA MinerosCuadran ==
  ASSUME Envio, Tipo', NEW n \in Mineros,
         MqCrea(n) \/ MqExiste(n) \/ MqReabre(n) \/ Argumentos(n) \/ SinSolucion(n)
  PROVE  Cuadran' /\ SinLeer' /\ Encadenados'
<1>1. /\ Tipo /\ SinLeer /\ Encadenados /\ cola' = cola /\ proc' = proc /\ puestos' = puestos
      /\ min \in [Mineros -> ProcesoMinero] /\ min[n] \in ProcesoMinero
  BY DEF Envio, Cuentas, Tipo, TypeOK, MqCrea, MqExiste, MqReabre, Argumentos, SinSolucion, historia
<1>2. PICK x :
        /\ min' = [min EXCEPT ![n] = x] /\ x.i = min[n].i /\ x.target = min[n].target
        /\ x.pc \in {"args", "abrir", "fallo", "enviar"} /\ min[n].pc # "exit"
        /\ x.queue = min[n].queue \/ min[n].pc \in {"mq_open", "abrir"}
        /\ x.pc = "abrir" => min[n].pc = "mq_open"
  <2>1. CASE MqCrea(n)
    <3>. DEFINE x == [min[n] EXCEPT !.pc = "args", !.queue = n]
    <3>1. min' = [min EXCEPT ![n] = x] /\ min[n].pc = "mq_open"
      BY <1>1, <2>1 DEF MqCrea
    <3>2. x.pc = "args" /\ x.i = min[n].i /\ x.target = min[n].target
      BY <1>1 DEF ProcesoMinero
    <3>. QED
      BY <3>1, <3>2
  <2>2. CASE MqReabre(n)
    <3>. DEFINE x == IF MQ_NAME = Nadie THEN [min[n] EXCEPT !.pc = "fallo"]
                     ELSE [min[n] EXCEPT !.pc = "args", !.queue = MQ_NAME]
    <3>1. min' = [min EXCEPT ![n] = x] /\ min[n].pc = "abrir"
      BY <2>2 DEF MqReabre
    <3>2. x.pc \in {"args", "fallo"} /\ x.i = min[n].i /\ x.target = min[n].target
      BY <1>1 DEF ProcesoMinero
    <3>. QED
      BY <3>1, <3>2
  <2>3. CASE MqExiste(n) \/ Argumentos(n) \/ SinSolucion(n)
    <3>1. PICK a : /\ min' = [min EXCEPT ![n].pc = a] /\ min[n].pc \in {"mq_open", "args", "enviar"}
                   /\ a \in {"abrir", "fallo", "enviar"} /\ (a = "abrir" => min[n].pc = "mq_open")
      BY <2>3 DEF MqExiste, Argumentos, SinSolucion, MPasa
    <3>. DEFINE x == [min[n] EXCEPT !.pc = a]
    <3>2. min' = [min EXCEPT ![n] = x]
      BY <1>1, <3>1
    <3>3. x.pc = a /\ x.i = min[n].i /\ x.target = min[n].target /\ x.queue = min[n].queue
      BY <1>1 DEF ProcesoMinero
    <3>4. /\ x.pc \in {"args", "abrir", "fallo", "enviar"} /\ min[n].pc # "exit"
          /\ x.pc = "abrir" => min[n].pc = "mq_open"
      BY <3>1, <3>3
    <3>. HIDE DEF x
    <3>. QED
      BY <3>2, <3>3, <3>4
  <2>. QED
    BY <2>1, <2>2, <2>3
<1>3. min'[n] = x /\ \A y \in Mineros \ {n} : min'[y] = min[y]
  BY <1>1, <1>2
<1>4. x.queue = min[n].queue \/ min[n].i = 0
  BY <1>1, <1>2 DEF Encadenados
<1>5. Cuadran'
  BY <1>1, <1>2, <1>3, <1>4, NadaCuadran
<1>6. SinLeer' /\ Encadenados'
  BY <1>1, <1>2, <1>3 DEF SinLeer, Encadenados
<1>. QED
  BY <1>5, <1>6

LEMMA EnvioInicial == Init => Envio
<1>. SUFFICES ASSUME Init PROVE Envio
  OBVIOUS
<1>1. Cuentas /\ Tipo
  BY CuentasInicial DEF Cuentas
<1>2. \A n \in Mineros : min[n].i = 0 /\ min[n].target = 0 /\ min[n].pc = "mq_open" /\ cola[n] = <<>>
  <2>1. ASSUME NEW n \in Mineros PROVE min[n].i = 0 /\ min[n].target = 0 /\ min[n].pc = "mq_open"
    <3>1. min[n] \in {[pc |-> "mq_open", queue |-> Nadie, n_cycles |-> c, i |-> 0, target |-> 0] : c \in Ciclos}
      BY DEF Init
    <3>. QED
      BY <3>1
  <2>2. \A n \in Mineros : cola[n] = <<>>
    BY DEF Init
  <2>. QED
    BY <2>1, <2>2
<1>3. \A p \in Monitores : proc[p].queue = Nadie /\ proc[p].pc = "shm_open"
  BY DEF Init
<1>4. Encadenados /\ SinLeer
  BY <1>2, <1>3, CadenaSigue DEF Encadenados, SinLeer
<1>5. ASSUME NEW q \in Mineros, NEW c \in Claves PROVE Cuadra(q, c)
  <2>1. Acabados(q, c) = {}
    BY <1>2 DEF Acabados, Escritores
  <2>2. Mandados(q, c) = {}
    <3>1. ASSUME NEW z \in Mineros \X Nat PROVE ~(z[2] < min[z[1]].i)
      <4>1. z[1] \in Mineros /\ z[2] \in Nat
        OBVIOUS
      <4>. QED
        BY <1>2, <4>1
    <3>. QED
      BY <3>1 DEF Mandados
  <2>3. Veces(cola[q], c) = {}
    BY <1>2 DEF Veces
  <2>4. Puestas(q, c) = {}
    <3>1. \A z \in Monitores \X Nat : proc[z[1]].queue = Nadie
      BY <1>3
    <3>. QED
      BY <3>1, P3Assumption DEF Puestas
  <2>5. EnManos(q, c) = {}
    BY <1>3, P3Assumption DEF EnManos, Lectores
  <2>. QED
    BY <2>1, <2>2, <2>3, <2>4, <2>5, FS_EmptySet DEF Cuadra
<1>. QED
  BY <1>1, <1>4, <1>5 DEF Envio, Cuadran

LEMMA EnvioPaso == Envio /\ [Next]_vars => Envio'
<1>. SUFFICES ASSUME Envio, [Next]_vars PROVE Envio'
  OBVIOUS
<1>. DEFINE Sigue == Cuadran' /\ SinLeer' /\ Encadenados'
<1>1. Cuentas' /\ Tipo' /\ SinLeer /\ Encadenados
  BY CuentasPaso DEF Envio, Cuentas
<1>2. ASSUME UNCHANGED <<cola, proc, min, puestos>> PROVE Sigue
  <2>1. Cuadran'
    BY <1>1, <1>2, NadaCuadran
  <2>2. SinLeer' /\ Encadenados'
    BY <1>1, <1>2 DEF SinLeer, Encadenados
  <2>. QED
    BY <2>1, <2>2
<1>3. ASSUME NEW p \in Monitores, LanzaMonitor(p) \/ PasoMonitor(p) \/ Falla(p) PROVE Sigue
  <2>1. ASSUME NEW s, Duerme(p, s) PROVE Sigue
    BY <1>2, <2>1 DEF Duerme, historia
  <2>. HIDE DEF Sigue
  <2>2. CASE \/ ShmExiste(p) \/ ShmUnlink(p) \/ Falla(p) \/ MqUnlink(p) \/ Mmap(p) \/ Sigbus(p)
             \/ Ftruncate(p) \/ SemInit(p) \/ Anadir(p) \/ PostMutex(p) \/ PostFill(p)
             \/ SemWait(p, "empty", "mutex")
    BY <1>1, <2>2, PasosCuadran DEF Sigue
  <2>3. CASE \/ SemWait(p, "fill", "mutex") \/ Extraer(p) \/ Front(p) \/ PostEmpty(p) \/ Imprimir(p)
             \/ WaitMutex(p)
    BY <1>1, <2>3, LectoresCuadran DEF Sigue
  <2>4. CASE ShmCrea(p) \/ ShmAbre(p) \/ MqAbre(p)
    BY <1>1, <2>4, NuevosCuadran DEF Sigue
  <2>5. CASE MqReceive(p) \/ Rear(p)
    BY <1>1, <2>5, MqReceiveCuadran, RearCuadran DEF Sigue
  <2>. QED
    BY <1>3, <2>1, <2>2, <2>3, <2>4, <2>5 DEF LanzaMonitor, PasoMonitor, Comprobador, Monitor
<1>4. ASSUME NEW n \in Mineros, LanzaMinero(n) \/ Minero(n) PROVE Sigue
  BY <1>1, <1>4, MinerosCuadran, EnviarCuadran, EnviarFinCuadran DEF LanzaMinero, Minero
<1>5. ASSUME NEW x \in Monitores \cup Mineros, Mata(x) PROVE Sigue
  BY <1>2, <1>5 DEF Mata, historia
<1>6. CASE UNCHANGED vars
  BY <1>1, <1>2, <1>6 DEF vars, historia, Envio
<1>7. CASE Next
  <2>. HIDE DEF Sigue
  <2>1. Sigue
    BY <1>3, <1>4, <1>5, <1>7 DEF Next
  <2>. QED
    BY <1>1, <2>1 DEF Envio, Sigue
<1>. QED
  BY <1>6, <1>7

(* Whichever miners write to a queue of p3/minero.c, whichever comprobadors *)
(* read it, and whoever is killed: of each block of the chain, and of the   *)
(* finishing block, as many were sent to the queue as are in it, in the     *)
(* hands of a comprobador that took them off it, or put in a ring.          *)
THEOREM ConservaSegura == Spec => []Conserva
  BY EnvioInicial, EnvioPaso, EnvioBasta, PTL DEF Spec

-----------------------------------------------------------------------------
(* The channel of module Canal, with two launches of the monitor program.   *)

(* A sequence without its first n elements.                                 *)
Desde(s, n) == [k \in 1 .. Len(s) - n |-> s[n + k]]

LEMMA UnoSolo == ASSUME NEW b \in Dato PROVE <<b>> \in Seq(Dato)
  OBVIOUS

LEMMA Asocia ==
  ASSUME NEW a \in Seq(Dato), NEW b \in Seq(Dato), NEW c \in Seq(Dato)
  PROVE  (a \o b) \o c = a \o (b \o c)
  BY ConcatAssociative

LEMMA DesdeEs ==
  ASSUME NEW s \in Seq(Dato), NEW n \in 0 .. Len(s)
  PROVE  /\ Desde(s, n) \in Seq(Dato) /\ Len(Desde(s, n)) = Len(s) - n
         /\ \A k \in 1 .. Len(s) - n : Desde(s, n)[k] = s[n + k]
<1>1. Len(s) \in Nat /\ Len(s) - n \in Nat
  OBVIOUS
<1>2. ASSUME NEW k \in 1 .. Len(s) - n PROVE s[n + k] \in Dato
  <2>1. n + k \in 1 .. Len(s)
    BY <1>1
  <2>. QED
    BY <2>1, ElementOfSeq
<1>3. Desde(s, n) \in [1 .. Len(s) - n -> Dato]
  BY <1>2 DEF Desde
<1>4. Desde(s, n) \in Seq(Dato)
  BY <1>1, <1>3, IsASeq DEF Desde
<1>5. Len(Desde(s, n)) = Len(s) - n
  BY <1>1, <1>3, <1>4, LenProperties
<1>. QED
  BY <1>4, <1>5 DEF Desde

LEMMA DesdeConcat ==
  ASSUME NEW s \in Seq(Dato), NEW c \in Seq(Dato), NEW n \in 0 .. Len(s)
  PROVE  Desde(s \o c, n) = Desde(s, n) \o c
<1>1. PICK t \in Seq(Dato) : t = s \o c
  BY ConcatProperties
<1>2. PICK d \in Seq(Dato) : d = Desde(s, n)
  BY DesdeEs
<1>3. /\ Len(t) = Len(s) + Len(c) /\ Len(s) \in Nat /\ Len(c) \in Nat
      /\ \A k \in 1 .. Len(s) + Len(c) : t[k] = IF k <= Len(s) THEN s[k] ELSE c[k - Len(s)]
  BY <1>1, ConcatProperties
<1>4. Len(d) = Len(s) - n /\ \A k \in 1 .. Len(s) - n : d[k] = s[n + k]
  BY <1>2, DesdeEs
<1>5. /\ d \o c \in Seq(Dato) /\ Len(d \o c) = Len(d) + Len(c)
      /\ \A k \in 1 .. Len(d) + Len(c) : (d \o c)[k] = IF k <= Len(d) THEN d[k] ELSE c[k - Len(d)]
  BY ConcatProperties
<1>6. n \in 0 .. Len(t)
  BY <1>3
<1>7. /\ Desde(t, n) \in Seq(Dato) /\ Len(Desde(t, n)) = Len(t) - n
      /\ \A k \in 1 .. Len(t) - n : Desde(t, n)[k] = t[n + k]
  BY <1>6, DesdeEs
<1>8. Len(Desde(t, n)) = Len(d \o c)
  BY <1>3, <1>4, <1>5, <1>7
<1>9. ASSUME NEW k \in 1 .. Len(t) - n PROVE Desde(t, n)[k] = (d \o c)[k]
  <2>1. n + k \in 1 .. Len(s) + Len(c) /\ k \in 1 .. Len(d) + Len(c)
    BY <1>3, <1>4
  <2>2. CASE k <= Len(d)
    <3>1. n + k <= Len(s) /\ k \in 1 .. Len(s) - n
      BY <1>3, <1>4, <2>1, <2>2
    <3>2. Desde(t, n)[k] = t[n + k] /\ t[n + k] = s[n + k] /\ (d \o c)[k] = d[k]
      BY <1>3, <1>5, <1>7, <2>1, <2>2, <3>1
    <3>. QED
      BY <1>4, <3>1, <3>2
  <2>3. CASE ~(k <= Len(d))
    <3>1. ~(n + k <= Len(s)) /\ (n + k) - Len(s) = k - Len(d)
      BY <1>3, <1>4, <2>3
    <3>. QED
      BY <1>3, <1>5, <1>7, <2>1, <2>3, <3>1
  <2>. QED
    BY <2>2, <2>3
<1>10. Desde(t, n) = d \o c
  BY <1>5, <1>7, <1>8, <1>9, SeqEqual
<1>. QED
  BY <1>1, <1>2, <1>10

LEMMA DesdeCabeza ==
  ASSUME NEW s \in Seq(Dato), NEW n \in 0 .. Len(s) - 1
  PROVE  /\ Desde(s, n) # <<>> /\ Head(Desde(s, n)) = s[n + 1]
         /\ Tail(Desde(s, n)) = Desde(s, n + 1)
         /\ <<s[n + 1]>> \o Desde(s, n + 1) = Desde(s, n)
<1>0. Len(s) \in Nat /\ n \in 0 .. Len(s) /\ n + 1 \in 0 .. Len(s) /\ n + 1 \in 1 .. Len(s)
  OBVIOUS
<1>1. PICK d \in Seq(Dato) : d = Desde(s, n)
  BY <1>0, DesdeEs
<1>2. PICK e \in Seq(Dato) : e = Desde(s, n + 1)
  BY <1>0, DesdeEs
<1>3. Len(d) = Len(s) - n /\ \A k \in 1 .. Len(s) - n : d[k] = s[n + k]
  BY <1>0, <1>1, DesdeEs
<1>4. Len(e) = Len(s) - (n + 1) /\ \A k \in 1 .. Len(s) - (n + 1) : e[k] = s[(n + 1) + k]
  BY <1>0, <1>2, DesdeEs
<1>5. d # <<>> /\ Head(d) = s[n + 1]
  <2>1. Len(d) # 0 /\ 1 \in 1 .. Len(s) - n
    BY <1>0, <1>3
  <2>. QED
    BY <1>3, <2>1, EmptySeq
<1>6. /\ Tail(d) \in Seq(Dato) /\ Len(Tail(d)) = Len(d) - 1
      /\ \A k \in 1 .. Len(Tail(d)) : Tail(d)[k] = d[k + 1]
  BY <1>5, HeadTailProperties
<1>7. Tail(d) = e
  <2>1. Len(Tail(d)) = Len(e)
    BY <1>0, <1>3, <1>4, <1>6
  <2>2. ASSUME NEW k \in 1 .. Len(e) PROVE Tail(d)[k] = e[k]
    <3>1. k + 1 \in 1 .. Len(s) - n /\ n + (k + 1) = (n + 1) + k
      BY <1>0, <1>4
    <3>. QED
      BY <1>3, <1>4, <1>6, <2>1, <3>1
  <2>. QED
    BY <1>6, <2>1, <2>2, SeqEqual
<1>8. <<s[n + 1]>> \o e = d
  <2>1. s[n + 1] \in Dato
    BY <1>0, ElementOfSeq
  <2>2. PICK h \in Seq(Dato) : h = <<s[n + 1]>>
    BY <2>1, UnoSolo
  <2>3. Len(h) = 1 /\ h[1] = s[n + 1]
    BY <2>2
  <2>4. /\ h \o e \in Seq(Dato) /\ Len(h \o e) = Len(h) + Len(e)
        /\ \A k \in 1 .. Len(h) + Len(e) : (h \o e)[k] = IF k <= Len(h) THEN h[k] ELSE e[k - Len(h)]
    BY ConcatProperties
  <2>5. Len(h \o e) = Len(d)
    BY <1>0, <1>3, <1>4, <2>3, <2>4
  <2>6. ASSUME NEW k \in 1 .. Len(d) PROVE (h \o e)[k] = d[k]
    <3>1. CASE k = 1
      BY <1>0, <1>3, <2>3, <2>4, <2>5, <3>1
    <3>2. CASE k # 1
      <4>1. k - 1 \in 1 .. Len(s) - (n + 1) /\ (n + 1) + (k - 1) = n + k /\ ~(k <= Len(h))
            /\ k - Len(h) = k - 1
        BY <1>0, <1>3, <2>3, <3>2
      <4>. QED
        BY <1>3, <1>4, <2>4, <2>5, <4>1
    <3>. QED
      BY <3>1, <3>2
  <2>7. h \o e = d
    BY <2>4, <2>5, <2>6, SeqEqual
  <2>. QED
    BY <2>2, <2>7
<1>. QED
  BY <1>1, <1>2, <1>5, <1>7, <1>8

LEMMA DesdeAppend ==
  ASSUME NEW s \in Seq(Dato), NEW b \in Dato, NEW n \in 0 .. Len(s)
  PROVE  Desde(Append(s, b), n) = Append(Desde(s, n), b)
<1>1. PICK u \in Seq(Dato) : u = <<b>>
  BY UnoSolo
<1>2. PICK d \in Seq(Dato) : d = Desde(s, n)
  BY DesdeEs
<1>3. Append(s, b) = s \o u /\ Append(d, b) = d \o u
  BY <1>1, AppendIsConcat
<1>4. Desde(s \o u, n) = Desde(s, n) \o u
  BY DesdeConcat
<1>. QED
  BY <1>2, <1>3, <1>4

LEMMA EnviarEs ==
  ASSUME NEW s \in Seq(Dato), NEW b \in Dato
  PROVE  Len(Append(s, b)) = Len(s) + 1 /\ SubSeq(Append(s, b), 1, Len(s)) = s
<1>1. PICK t \in Seq(Dato) : t = Append(s, b)
  BY AppendProperties
<1>2. /\ Len(s) \in Nat /\ Len(t) = Len(s) + 1 /\ \A k \in 1 .. Len(s) : t[k] = s[k]
  BY <1>1, AppendProperties
<1>3. /\ SubSeq(t, 1, Len(s)) \in Seq(Dato) /\ Len(SubSeq(t, 1, Len(s))) = Len(s)
      /\ \A k \in 1 .. Len(s) : SubSeq(t, 1, Len(s))[k] = s[k]
  <2>1. /\ SubSeq(t, 1, Len(s)) \in Seq(Dato)
        /\ Len(SubSeq(t, 1, Len(s))) = IF 1 <= Len(s) THEN Len(s) - 1 + 1 ELSE 0
        /\ \A k \in 1 .. Len(s) - 1 + 1 : SubSeq(t, 1, Len(s))[k] = t[1 + k - 1]
    <3>1. \A k \in 1 .. Len(s) : t[k] \in Dato
      BY <1>2, ElementOfSeq
    <3>. QED
      BY <1>2, <3>1, SubSeqProperties
  <2>. QED
    BY <1>2, <2>1
<1>4. SubSeq(t, 1, Len(s)) = s
  BY <1>3, SeqEqual
<1>. QED
  BY <1>1, <1>2, <1>4

Dos == \A p, q, r \in Monitores : p = q \/ p = r \/ q = r

(* One comprobador, because the name it gave the memory stays till a        *)
(* monitor has come.                                                        *)
Pareja ==
  /\ \A p, q \in Con("comprobador") : p = q
  /\ SHM_NAME = Nadie /\ Con("comprobador") # {} => Con("monitor") # {}

(* A comprobador that goes on has put no finishing block in its ring.       *)
SinFin ==
  \A p \in Con("comprobador") :
    \/ proc[p].pc \in {"post_mutex", "post_fill"} /\ proc[p].dato.fin
    \/ proc[p].pc \in {"exit", "fallo"}
    \/ \A k \in 1 .. Len(puestos[p]) : ~puestos[p][k].fin

(* A monitor leaves at a finishing block, and prints the others.            *)
Salida ==
  \A p \in Con("monitor") : /\ proc[p].pc = "exit" => proc[p].dato.fin
                            /\ proc[p].pc = "imprimir" => ~proc[p].dato.fin

(* A queue that its miner has not created is nobody's, and nothing is in it;*)
(* a comprobador opens one at mq_open.                                      *)
SinCrear ==
  \A n \in Mineros : min[n].pc = "mq_open" =>
    MQ_NAME # n /\ cola[n] = <<>> /\ \A k \in Mineros : min[k].queue # n
SinAbrir ==
  \A p \in Monitores : /\ proc[p].rol # "comprobador" => proc[p].queue = Nadie
                       /\ proc[p].pc \in Antes \cup {"mq_open"} => proc[p].queue = Nadie

Dueto == Pareja /\ SinFin /\ Salida /\ SinCrear /\ SinAbrir

(* How many blocks have come out of the channel, and what went in.          *)
Salidos == Len(Impresos) + (IF Cerrado THEN 1 ELSE 0)
Aceptados(c) == puestos[c] \o ManoComprobador(c)

(* What the channel is, seen from its two programs.                         *)
Vista ==
  /\ \A c \in Con("comprobador") :
       /\ Interior = Desde(Aceptados(c), Salidos) /\ Salidos \in 0 .. Len(puestos[c])
       /\ Cual = IF proc[c].queue = Nadie THEN MQ_NAME ELSE proc[c].queue
  /\ Con("comprobador") = {} => Interior = <<>> /\ Cual = MQ_NAME /\ Con("monitor") = {}
  /\ \A m \in Con("monitor") : Impresos = impresos[m] /\ (Cerrado <=> proc[m].pc = "exit")
  /\ Con("monitor") = {} => Impresos = <<>> /\ ~Cerrado

LEMMA Unicos ==
  ASSUME Dos, Tipo, Pareja
  PROVE  /\ \A m \in Con("monitor") :
              /\ m \in Monitores /\ proc[m].mem \in Con("comprobador")
              /\ Con("monitor") = {m} /\ Alguno("monitor") = m
         /\ \A c \in Con("comprobador") :
              /\ c \in Monitores /\ Con("comprobador") = {c} /\ Alguno("comprobador") = c
<1>1. ASSUME NEW c \in Con("comprobador")
      PROVE  /\ c \in Monitores /\ Con("comprobador") = {c} /\ Alguno("comprobador") = c
  <2>1. Con("comprobador") = {c}
    BY DEF Pareja
  <2>. QED
    BY <2>1 DEF Con, Alguno
<1>2. ASSUME NEW m \in Con("monitor") PROVE m \in Monitores /\ proc[m].mem \in Con("comprobador")
  BY DEF Con, Tipo, Papeles
<1>3. ASSUME NEW m \in Con("monitor"), NEW p \in Con("monitor") PROVE m = p
  <2>1. proc[m].mem \in Con("comprobador") /\ m \in Monitores /\ p \in Monitores
    BY <1>2
  <2>2. proc[m].mem # m /\ proc[m].mem # p /\ proc[m].mem \in Monitores
    BY <2>1 DEF Con
  <2>. QED
    BY <2>1, <2>2 DEF Dos
<1>4. ASSUME NEW m \in Con("monitor") PROVE Con("monitor") = {m} /\ Alguno("monitor") = m
  <2>1. Con("monitor") = {m}
    BY <1>3
  <2>. QED
    BY <2>1 DEF Alguno
<1>. QED
  BY <1>1, <1>2, <1>4

(* With one monitor all turns are its own.                                  *)
LEMMA TodoSuyo ==
  ASSUME Dos, Reparte, Pareja, NEW m \in Con("monitor"), NEW c \in Monitores, c = proc[m].mem
  PROVE  /\ Len(Tomados(m)) = Len(turnos[c])
         /\ \A k \in 1 .. Len(turnos[c]) : Tomados(m)[k] = puestos[c][k]
<1>1. Tipo /\ Duenos /\ Reparto
  BY DEF Reparte, Cuentas, Turnarse
<1>2. m \in Monitores /\ proc[m].rol = "monitor" /\ Con("monitor") = {m} /\ Len(turnos[c]) \in Nat
      /\ turnos[c] \in Seq(Monitores)
  BY <1>1, Unicos, MemoriaDe DEF Con
<1>3. ASSUME NEW k \in 1 .. Len(turnos[c]) PROVE turnos[c][k] = m
  <2>1. turnos[c][k] \in Monitores
    BY <1>2, ElementOfSeq
  <2>. QED
    BY <1>1, <1>2, <2>1 DEF Duenos, Con
<1>4. ASSUME NEW k \in 0 .. Len(turnos[c]) PROVE Cardinality(Turnos(m, c, k)) = k
  <2>1. Turnos(m, c, k) = 1 .. k
    BY <1>2, <1>3 DEF Turnos
  <2>2. Cardinality(1 .. k) = k
    BY <1>2, FS_Interval
  <2>. QED
    BY <2>1, <2>2
<1>5. /\ Len(Tomados(m)) = Cardinality(Turnos(m, c, Len(turnos[c])))
      /\ \A k \in 1 .. Len(turnos[c]) : turnos[c][k] = m =>
           Tomados(m)[Cardinality(Turnos(m, c, k))] = puestos[c][k]
  BY <1>1, <1>2 DEF Reparto
<1>6. Len(turnos[c]) \in 0 .. Len(turnos[c]) /\ \A k \in 1 .. Len(turnos[c]) : k \in 0 .. Len(turnos[c])
  BY <1>2
<1>. QED
  BY <1>3, <1>4, <1>5, <1>6

(* The ring is what was put in and not taken out.                           *)
LEMMA AnilloEs ==
  ASSUME Reparte, NEW c \in Monitores
  PROVE  /\ Anillo(c) = Desde(puestos[c], Len(turnos[c]))
         /\ Len(turnos[c]) \in 0 .. Len(puestos[c])
<1>1. Tipo /\ Contenido /\ Reparto
  BY DEF Reparte, Cuentas, Turnarse
<1>2. Len(puestos[c]) \in Nat /\ Len(turnos[c]) \in Nat /\ memoria[c].front \in Nat
  BY <1>1, MemoriaDe DEF Ranuras
<1>3. EnAnillo(c) = Len(puestos[c]) - Len(turnos[c]) /\ EnAnillo(c) >= 0
  BY <1>1 DEF EnAnillo, Reparto
<1>4. ASSUME NEW j \in 1 .. EnAnillo(c)
      PROVE  memoria[c].bloque[(memoria[c].front + j - 1) % BUFFER_SIZE] = puestos[c][Len(turnos[c]) + j]
  <2>1. /\ j - 1 \in 0 .. EnAnillo(c) - 1 /\ memoria[c].front + j - 1 = memoria[c].front + (j - 1)
        /\ Len(turnos[c]) + 1 + (j - 1) = Len(turnos[c]) + j
    BY <1>2, <1>3
  <2>. QED
    BY <1>1, <2>1 DEF Contenido
<1>5. Anillo(c) = Desde(puestos[c], Len(turnos[c]))
  BY <1>3, <1>4 DEF Anillo, Desde
<1>. QED
  BY <1>2, <1>3, <1>5

(* What the monitor holds is the last block it took.                        *)
LEMMA EnMonitor ==
  ASSUME Dos, Reparte, Pareja, NEW m \in Con("monitor"), NEW c \in Monitores, c = proc[m].mem
  PROVE  IF proc[m].pc \in Mano
         THEN /\ Len(turnos[c]) = Len(impresos[m]) + 1 /\ EnMano(m) = <<proc[m].dato>>
              /\ proc[m].dato = puestos[c][Len(turnos[c])]
         ELSE Len(turnos[c]) = Len(impresos[m]) /\ EnMano(m) = <<>>
<1>1. Tipo /\ m \in Monitores /\ proc[m].rol = "monitor"
  BY DEF Reparte, Cuentas, Con
<1>2. impresos[m] \in Seq(Dato) /\ Len(impresos[m]) \in Nat /\ proc[m].dato \in Dato
  <2>1. impresos[m] \in Seq(Dato) /\ proc[m] \in Proceso
    BY <1>1 DEF Tipo, TypeOK
  <2>2. proc[m].dato \in Dato
    BY <2>1 DEF Proceso
  <2>. QED
    BY <2>1, <2>2, LenProperties
<1>3. /\ Len(Tomados(m)) = Len(turnos[c])
      /\ \A k \in 1 .. Len(turnos[c]) : Tomados(m)[k] = puestos[c][k]
  BY TodoSuyo
<1>4. CASE proc[m].pc \in Mano
  <2>1. EnMano(m) = <<proc[m].dato>> /\ Tomados(m) = Append(impresos[m], proc[m].dato)
    BY <1>1, <1>2, <1>4, AppendIsConcat DEF EnMano, Mano, Tomados
  <2>2. /\ Len(Append(impresos[m], proc[m].dato)) = Len(impresos[m]) + 1
        /\ Append(impresos[m], proc[m].dato)[Len(impresos[m]) + 1] = proc[m].dato
    BY <1>2, AppendProperties
  <2>. QED
    BY <1>2, <1>3, <1>4, <2>1, <2>2
<1>5. CASE proc[m].pc \notin Mano
  <2>1. EnMano(m) = <<>> /\ Tomados(m) = impresos[m]
    BY <1>1, <1>2, <1>5, ConcatEmptySeq DEF EnMano, Mano, Tomados
  <2>. QED
    BY <1>3, <1>5, <2>1
<1>. QED
  BY <1>4, <1>5

LEMMA ManoEs ==
  ASSUME Tipo, NEW c \in Monitores
  PROVE  ManoComprobador(c) \in Seq(Dato) /\ puestos[c] \in Seq(Dato)
<1>1. proc[c].dato \in Dato /\ puestos[c] \in Seq(Dato)
  BY DEF Tipo, TypeOK, Proceso
<1>2. <<proc[c].dato>> \in Seq(Dato) /\ <<>> \in Seq(Dato)
  BY <1>1
<1>. QED
  BY <1>1, <1>2 DEF ManoComprobador

LEMMA CualEs ==
  ASSUME Dos, Tipo, Pareja
  PROVE  /\ \A c \in Con("comprobador") : Cual = IF proc[c].queue = Nadie THEN MQ_NAME ELSE proc[c].queue
         /\ Con("comprobador") = {} => Cual = MQ_NAME
<1>1. ASSUME NEW c \in Con("comprobador")
      PROVE  Cual = IF proc[c].queue = Nadie THEN MQ_NAME ELSE proc[c].queue
  <2>1. {proc[p].queue : p \in Con("comprobador")} = {proc[c].queue}
    BY Unicos
  <2>2. CASE proc[c].queue = Nadie
    <3>1. {proc[p].queue : p \in Con("comprobador")} \ {Nadie} = {}
      BY <2>1, <2>2
    <3>. QED
      BY <2>2, <3>1 DEF Cual
  <2>3. CASE proc[c].queue # Nadie
    <3>1. {proc[p].queue : p \in Con("comprobador")} \ {Nadie} = {proc[c].queue}
      BY <2>1, <2>3
    <3>. QED
      BY <2>3, <3>1 DEF Cual
  <2>. QED
    BY <2>2, <2>3
<1>2. ASSUME Con("comprobador") = {} PROVE Cual = MQ_NAME
  <2>1. {proc[p].queue : p \in Con("comprobador")} \ {Nadie} = {}
    BY <1>2
  <2>. QED
    BY <2>1 DEF Cual
<1>. QED
  BY <1>1, <1>2

LEMMA InteriorEs ==
  ASSUME Dos, Reparte, Pareja, NEW c \in Con("comprobador")
  PROVE  Interior = Desde(Aceptados(c), Salidos) /\ Salidos \in 0 .. Len(puestos[c])
<1>1. Tipo /\ Duenos
  BY DEF Reparte, Cuentas, Turnarse
<1>2. c \in Monitores /\ Con("comprobador") # {} /\ Alguno("comprobador") = c
  BY <1>1, Unicos
<1>3. PICK n \in 0 .. Len(puestos[c]) : n = Len(turnos[c])
  BY <1>2, AnilloEs
<1>4. PICK s \in Seq(Dato), h \in Seq(Dato) : s = puestos[c] /\ h = ManoComprobador(c)
  BY <1>1, <1>2, ManoEs
<1>5. Len(s) \in Nat /\ n \in 0 .. Len(s) /\ n \in Nat
  BY <1>3, <1>4
<1>6. Anillo(c) = Desde(s, n) /\ Desde(s, n) \in Seq(Dato)
  BY <1>2, <1>3, <1>4, <1>5, AnilloEs, DesdeEs
<1>7. CASE Con("monitor") = {}
  <2>1. turnos[c] = <<>>
    <3>1. turnos[c] \in Seq(Monitores)
      BY <1>1, <1>2, MemoriaDe
    <3>2. ASSUME n # 0 PROVE FALSE
      <4>1. 1 \in 1 .. Len(turnos[c])
        BY <1>3, <1>5, <3>2
      <4>2. turnos[c][1] \in Monitores /\ proc[turnos[c][1]].rol = "monitor"
        BY <1>1, <1>2, <3>1, <4>1, ElementOfSeq DEF Duenos
      <4>. QED
        BY <1>7, <4>2 DEF Con
    <3>. QED
      BY <1>3, <3>1, <3>2, EmptySeq
  <2>2. Salidos = 0 /\ n = 0
    BY <1>3, <1>7, <2>1 DEF Salidos, Impresos, Cerrado
  <2>3. Desde(s, n) \o h = Desde(s \o h, n)
    BY <1>5, DesdeConcat
  <2>4. Desde(s, n) \o h \in Seq(Dato)
    BY <1>6, ConcatProperties
  <2>5. <<>> \o (Desde(s, n) \o h) = Desde(s, n) \o h
    BY <2>4, ConcatEmptySeq
  <2>. QED
    BY <1>2, <1>4, <1>5, <1>6, <1>7, <2>2, <2>3, <2>5 DEF Interior, Aceptados
<1>8. CASE Con("monitor") # {}
  <2>1. PICK m \in Con("monitor") : TRUE
    BY <1>8
  <2>2. /\ m \in Monitores /\ proc[m].mem \in Con("comprobador") /\ Con("monitor") = {m}
        /\ Alguno("monitor") = m /\ proc[m].rol = "monitor"
    BY <1>1, <2>1, Unicos DEF Con
  <2>3. proc[m].mem = c
    BY <2>2 DEF Pareja
  <2>4. IF proc[m].pc \in Mano
        THEN /\ n = Len(impresos[m]) + 1 /\ EnMano(m) = <<proc[m].dato>>
             /\ proc[m].dato = s[n]
        ELSE n = Len(impresos[m]) /\ EnMano(m) = <<>>
    BY <1>2, <1>3, <1>4, <2>1, <2>3, EnMonitor
  <2>5. Impresos = impresos[m] /\ (Cerrado <=> proc[m].pc = "exit") /\ Len(impresos[m]) \in Nat
    BY <1>1, <2>2 DEF Impresos, Cerrado, Tipo, TypeOK
  <2>6. Salidos = IF proc[m].pc = "exit" THEN Len(impresos[m]) + 1 ELSE Len(impresos[m])
    <3>1. CASE Cerrado
      BY <2>5, <3>1 DEF Salidos
    <3>2. CASE ~Cerrado
      BY <2>5, <3>2 DEF Salidos
    <3>. QED
      BY <3>1, <3>2
  <2>7. /\ ManoMonitor(m) \in Seq(Dato) /\ Salidos \in 0 .. n
        /\ ManoMonitor(m) \o Desde(s, n) = Desde(s, Salidos)
    <3>1. CASE proc[m].pc \in Mano \ {"exit"}
      <4>1. /\ ManoMonitor(m) = <<s[n]>> /\ Salidos = n - 1 /\ n \in 1 .. Len(s)
            /\ (n - 1) + 1 = n /\ n - 1 \in 0 .. Len(s) - 1
        BY <1>5, <2>4, <2>5, <2>6, <3>1 DEF ManoMonitor
      <4>2. s[n] \in Dato
        BY <4>1, ElementOfSeq
      <4>3. <<s[(n - 1) + 1]>> \o Desde(s, (n - 1) + 1) = Desde(s, n - 1)
        BY <4>1, DesdeCabeza
      <4>4. <<s[n]>> \in Seq(Dato)
        BY <4>2, UnoSolo
      <4>. QED
        BY <1>5, <4>1, <4>3, <4>4
    <3>2. CASE proc[m].pc \notin Mano \ {"exit"}
      <4>1. ManoMonitor(m) = <<>> /\ Salidos = n
        BY <1>5, <2>4, <2>5, <2>6, <3>2 DEF ManoMonitor, Mano
      <4>. QED
        BY <1>5, <1>6, <4>1, ConcatEmptySeq
    <3>. QED
      BY <3>1, <3>2
  <2>8. ManoMonitor(m) \o (Desde(s, n) \o h) = (ManoMonitor(m) \o Desde(s, n)) \o h
    <3>1. PICK a \in Seq(Dato), d \in Seq(Dato) : a = ManoMonitor(m) /\ d = Desde(s, n)
      BY <1>6, <2>7
    <3>2. (a \o d) \o h = a \o (d \o h)
      BY Asocia
    <3>. QED
      BY <3>1, <3>2
  <2>9. Salidos \in 0 .. Len(s)
    BY <1>5, <2>7
  <2>10. Desde(s \o h, Salidos) = Desde(s, Salidos) \o h
    BY <2>9, DesdeConcat
  <2>11. Interior = ManoMonitor(m) \o (Desde(s, n) \o h)
    BY <1>2, <1>4, <1>6, <2>2 DEF Interior
  <2>. QED
    BY <1>4, <2>7, <2>8, <2>9, <2>10, <2>11 DEF Aceptados
<1>. QED
  BY <1>7, <1>8

LEMMA VistaSiempre == Dos /\ Reparte /\ Pareja => Vista
<1>. SUFFICES ASSUME Dos, Reparte, Pareja PROVE Vista
  OBVIOUS
<1>1. Tipo
  BY DEF Reparte, Cuentas
<1>2. ASSUME Con("comprobador") = {} PROVE Interior = <<>> /\ Cual = MQ_NAME /\ Con("monitor") = {}
  <2>1. Con("monitor") = {} /\ Cual = MQ_NAME
    BY <1>1, <1>2, Unicos, CualEs
  <2>2. <<>> \o <<>> = <<>>
    OBVIOUS
  <2>. QED
    BY <1>2, <2>1, <2>2 DEF Interior
<1>3. ASSUME NEW m \in Con("monitor")
      PROVE  Impresos = impresos[m] /\ (Cerrado <=> proc[m].pc = "exit")
  <2>1. Con("monitor") = {m} /\ Alguno("monitor") = m
    BY <1>1, Unicos
  <2>. QED
    BY <2>1 DEF Impresos, Cerrado
<1>4. ASSUME Con("monitor") = {} PROVE Impresos = <<>> /\ ~Cerrado
  BY <1>4 DEF Impresos, Cerrado
<1>. QED
  BY <1>1, <1>2, <1>3, <1>4, InteriorEs, CualEs DEF Vista

(* A step that gives nobody a role or a queue and puts nothing in a ring.   *)
Rutina ==
  /\ cola' = cola /\ min' = min /\ puestos' = puestos
  /\ SHM_NAME' = SHM_NAME \/ (SHM_NAME' = Nadie /\ Con("monitor") # {})
  /\ \/ MQ_NAME' = MQ_NAME
     \/ MQ_NAME' = Nadie /\ \E c \in Con("comprobador") : proc[c].queue # Nadie
  /\ \A y \in Monitores :
       /\ proc'[y].rol = proc[y].rol /\ proc'[y].mem = proc[y].mem /\ proc'[y].queue = proc[y].queue
       /\ proc'[y].pc \in Antes \cup {"mq_open"} => proc[y].pc \in Antes \cup {"mq_open"}
       /\ proc[y].rol = "comprobador" =>
            /\ proc'[y].dato = proc[y].dato
            /\ LlevaBloque(proc'[y]) <=> LlevaBloque(proc[y])
            /\ proc[y].pc \in {"post_mutex", "post_fill"} /\ proc[y].dato.fin =>
                 proc'[y].pc \in {"post_mutex", "post_fill", "exit"}
            /\ proc[y].pc \in {"exit", "fallo"} => proc'[y].pc = proc[y].pc
       /\ proc[y].rol = "monitor" =>
            /\ proc'[y].pc = "exit" =>
                 proc'[y].dato = proc[y].dato /\ (proc[y].pc = "exit" \/ proc[y].dato.fin)
            /\ proc'[y].pc = "imprimir" =>
                 proc'[y].dato = proc[y].dato /\ (proc[y].pc = "imprimir" \/ ~proc[y].dato.fin)

(* Nothing comes out, either.                                               *)
Callada ==
  /\ impresos' = impresos
  /\ \A y \in Monitores : proc[y].rol = "monitor" => (proc'[y].pc = "exit" <=> proc[y].pc = "exit")

LEMMA RutinaIgual ==
  ASSUME cola' = cola, min' = min, puestos' = puestos, proc' = proc, SHM_NAME' = SHM_NAME,
         MQ_NAME' = MQ_NAME
  PROVE  Rutina
  BY DEF Rutina, LlevaBloque

(* What a step from one pc to another has to be for that.                   *)
LEMMA PasaRutina ==
  ASSUME Tipo, NEW p \in Monitores, NEW de, NEW a \in EstadosP, Pasa(p, de, a),
         cola' = cola, min' = min, puestos' = puestos,
         SHM_NAME' = SHM_NAME \/ (SHM_NAME' = Nadie /\ Con("monitor") # {}),
         MQ_NAME' = MQ_NAME \/ (MQ_NAME' = Nadie /\ \E c \in Con("comprobador") : proc[c].queue # Nadie),
         a \in Antes \cup {"mq_open"} => de \in Antes \cup {"mq_open"},
         proc[p].rol = "comprobador" =>
           /\ de \in {"empty", "mutex", "anadir", "rear"} <=> a \in {"empty", "mutex", "anadir", "rear"}
           /\ de \in {"post_mutex", "post_fill"} /\ proc[p].dato.fin =>
                a \in {"post_mutex", "post_fill", "exit"}
           /\ de \notin {"exit", "fallo"},
         proc[p].rol = "monitor" => /\ a = "exit" => proc[p].dato.fin
                                    /\ a = "imprimir" => ~proc[p].dato.fin
  PROVE  /\ Rutina /\ proc[p].pc = de /\ proc'[p].pc = a
         /\ \A y \in Monitores \ {p} : proc'[y] = proc[y]
<1>1. /\ proc[p].pc = de /\ proc'[p].pc = a
      /\ \A y \in Monitores : /\ proc'[y].rol = proc[y].rol /\ proc'[y].mem = proc[y].mem
                              /\ proc'[y].queue = proc[y].queue /\ proc'[y].dato = proc[y].dato
      /\ \A y \in Monitores \ {p} : proc'[y] = proc[y]
  BY PasaTipo
<1>2. ASSUME NEW y \in Monitores, proc[y].rol = "comprobador"
      PROVE  /\ LlevaBloque(proc'[y]) <=> LlevaBloque(proc[y])
             /\ proc[y].pc \in {"post_mutex", "post_fill"} /\ proc[y].dato.fin =>
                  proc'[y].pc \in {"post_mutex", "post_fill", "exit"}
             /\ proc[y].pc \in {"exit", "fallo"} => proc'[y].pc = proc[y].pc
  <2>1. CASE y = p
    BY <1>1, <1>2, <2>1 DEF LlevaBloque
  <2>2. CASE y # p
    <3>1. proc'[y] = proc[y]
      BY <1>1, <2>2
    <3>. QED
      BY <3>1
  <2>. QED
    BY <2>1, <2>2
<1>. QED
  BY <1>1, <1>2 DEF Rutina

(* The steps of a monitor program that are of that kind.                    *)
LEMMA SencillosRutina ==
  ASSUME Tipo, NEW p \in Monitores,
         \/ ShmExiste(p) \/ ShmUnlink(p) \/ Falla(p) \/ MqUnlink(p) \/ Mmap(p) \/ Sigbus(p)
         \/ Ftruncate(p) \/ SemInit(p) \/ Anadir(p) \/ PostMutex(p) \/ PostFill(p) \/ Front(p)
         \/ SemWait(p, "empty", "mutex") \/ SemWait(p, "fill", "mutex") \/ WaitMutex(p)
  PROVE  Rutina /\ Callada
<1>1. PICK de, a : /\ Pasa(p, de, a)
                   /\ \/ <<de, a>> \in {<<"shm_open", "abrir">>, <<"shm_unlink", "mmap">>,
                           <<"ftruncate", "fallo">>, <<"sem_init", "fallo">>, <<"mmap", "fallo">>,
                           <<"mq_unlink", "mq_receive">>, <<"mmap", "fill">>, <<"fill", "sigbus">>,
                           <<"ftruncate", "sem_init">>, <<"sem_init", "mq_open">>, <<"anadir", "rear">>,
                           <<"front", "post_mutex">>, <<"empty", "mutex">>, <<"fill", "mutex">>}
                      \/ de = "post_mutex" /\ a = IF EsComprobador(p) THEN "post_fill" ELSE "post_empty"
                      \/ de = "post_fill" /\ a = IF proc[p].dato.fin THEN "exit" ELSE "mq_receive"
                      \/ de = "mutex" /\ a = IF EsComprobador(p) THEN "anadir" ELSE "extraer"
                   /\ SHM_NAME' = SHM_NAME \/ (de = "shm_unlink" /\ SHM_NAME' = Nadie)
                   /\ MQ_NAME' = MQ_NAME \/ (de = "mq_unlink" /\ MQ_NAME' = Nadie)
  <2>1. CASE ShmUnlink(p) \/ MqUnlink(p)
    BY <2>1 DEF ShmUnlink, MqUnlink
  <2>2. CASE ~(ShmUnlink(p) \/ MqUnlink(p))
    BY <2>2 DEF ShmExiste, Falla, FtruncateFalla, C_MmapFalla, M_MmapFalla, Mmap, Sigbus, Ftruncate, SemInit, Anadir, PostMutex,
       PostFill, Front, SemWait, WaitMutex, nombres
  <2>. QED
    BY <2>1, <2>2
<1>2. cola' = cola /\ min' = min /\ puestos' = puestos /\ impresos' = impresos
  BY DEF ShmExiste, ShmUnlink, Falla, FtruncateFalla, C_MmapFalla, M_MmapFalla,
         MqUnlink, Mmap, Sigbus, Ftruncate, SemInit, Anadir, PostMutex,
         PostFill, Front, SemWait, WaitMutex, historia
<1>3. a \in EstadosP /\ a # "imprimir" /\ (a = "exit" => de = "post_fill") /\ de # "exit"
  BY <1>1 DEF EstadosP
<1>4. proc[p].pc = de /\ proc'[p].pc = a /\ \A y \in Monitores \ {p} : proc'[y] = proc[y]
  BY <1>1, <1>3, PasaTipo
<1>5. /\ Papel(proc[p]) /\ (proc[p].rol = "comprobador" => proc[p].mem = p)
      /\ de = "shm_unlink" => p \in Con("monitor")
      /\ de = "mq_unlink" => p \in Con("comprobador") /\ proc[p].queue # Nadie
      /\ proc[p].rol = "monitor" => de # "post_fill"
      /\ proc[p].rol = "comprobador" => de \notin {"fill", "front"} /\ de \notin {"exit", "fallo"}
  <2>1. Papel(proc[p]) /\ (proc[p].rol = "comprobador" => proc[p].mem = p)
    BY DEF Tipo, Papeles
  <2>2. /\ de = "shm_unlink" => proc[p].rol = "monitor"
        /\ de = "mq_unlink" => proc[p].rol = "comprobador" /\ proc[p].queue \in Mineros
    BY <1>4, ConPapel DEF PcComprobador, PcMonitor, SinCola
  <2>3. /\ proc[p].rol = "monitor" => de # "post_fill"
        /\ proc[p].rol = "comprobador" => de \notin {"fill", "front"}
    BY <1>4, <2>1 DEF Papel, PcComprobador, PcMonitor
  <2>4. de \notin {"exit", "fallo"}
    BY <1>1
  <2>. QED
    BY <2>1, <2>2, <2>3, <2>4, P3Assumption DEF Con
<1>6. /\ SHM_NAME' = SHM_NAME \/ (SHM_NAME' = Nadie /\ Con("monitor") # {})
      /\ MQ_NAME' = MQ_NAME \/ (MQ_NAME' = Nadie /\ \E c \in Con("comprobador") : proc[c].queue # Nadie)
  BY <1>1, <1>5
<1>7. a \in Antes \cup {"mq_open"} => de \in Antes \cup {"mq_open"}
  BY <1>1 DEF Antes
<1>8. proc[p].rol = "comprobador" =>
        /\ de \in {"empty", "mutex", "anadir", "rear"} <=> a \in {"empty", "mutex", "anadir", "rear"}
        /\ de \in {"post_mutex", "post_fill"} /\ proc[p].dato.fin => a \in {"post_mutex", "post_fill", "exit"}
  BY <1>1, <1>5 DEF EsComprobador
<1>9. proc[p].rol = "monitor" => a # "exit"
  BY <1>3, <1>5
<1>10. Rutina
  BY <1>1, <1>2, <1>3, <1>5, <1>6, <1>7, <1>8, <1>9, PasaRutina
<1>11. Callada
  BY <1>2, <1>3, <1>4, <1>9 DEF Callada
<1>. QED
  BY <1>10, <1>11

LEMMA ExtraerRutina ==
  ASSUME Tipo, NEW p \in Monitores, Extraer(p)
  PROVE  Rutina /\ Callada
<1>1. /\ proc[p].rol = "monitor" /\ proc'[p].rol = "monitor" /\ proc'[p].mem = proc[p].mem
      /\ proc[p].pc = "extraer" /\ proc'[p].pc = "front"
      /\ \A y \in Monitores \ {p} : proc'[y] = proc[y]
  BY ExtraerTipo
<1>2. proc'[p].queue = proc[p].queue
  <2>1. proc \in [Monitores -> Proceso] /\ proc[p] \in Proceso
    BY DEF Tipo, TypeOK
  <2>2. PICK d : proc' = [proc EXCEPT ![p] = [proc[p] EXCEPT !.pc = "front", !.dato = d]]
    BY <2>1 DEF Extraer
  <2>3. proc'[p] = [proc[p] EXCEPT !.pc = "front", !.dato = d]
    BY <2>1, <2>2
  <2>. QED
    BY <2>1, <2>3 DEF Proceso
<1>3. /\ cola' = cola /\ min' = min /\ puestos' = puestos /\ impresos' = impresos
      /\ SHM_NAME' = SHM_NAME /\ MQ_NAME' = MQ_NAME
  BY DEF Extraer, nombres, historia
<1>4. Rutina
  BY <1>1, <1>2, <1>3 DEF Rutina, LlevaBloque, Antes
<1>5. Callada
  BY <1>1, <1>3 DEF Callada
<1>. QED
  BY <1>4, <1>5

(* The two steps at which a block comes out.                                *)
LEMMA SaleRutina ==
  ASSUME Tipo, NEW p \in Monitores, PostEmpty(p) \/ Imprimir(p)
  PROVE  /\ Rutina /\ p \in Con("monitor") /\ \A y \in Monitores \ {p} : proc'[y] = proc[y]
         /\ \/ PostEmpty(p) /\ proc[p].pc = "post_empty" /\ impresos' = impresos
               /\ proc'[p].pc = IF proc[p].dato.fin THEN "exit" ELSE "imprimir"
            \/ /\ Imprimir(p) /\ proc[p].pc = "imprimir" /\ proc'[p].pc = "fill"
               /\ impresos' = [impresos EXCEPT ![p] = Append(impresos[p], proc[p].dato)]
<1>1. PICK de, a : /\ Pasa(p, de, a)
                   /\ \/ /\ PostEmpty(p) /\ de = "post_empty" /\ impresos' = impresos
                         /\ a = IF proc[p].dato.fin THEN "exit" ELSE "imprimir"
                      \/ /\ Imprimir(p) /\ de = "imprimir" /\ a = "fill"
                         /\ impresos' = [impresos EXCEPT ![p] = Append(impresos[p], proc[p].dato)]
  BY DEF PostEmpty, Imprimir, historia
<1>2. /\ cola' = cola /\ min' = min /\ puestos' = puestos /\ SHM_NAME' = SHM_NAME /\ MQ_NAME' = MQ_NAME
  BY DEF PostEmpty, Imprimir, historia, nombres
<1>3. a \in EstadosP /\ a \notin Antes \cup {"mq_open"}
  BY <1>1 DEF EstadosP, Antes
<1>4. proc[p].pc = de /\ proc'[p].pc = a
  BY <1>1, <1>3, PasaTipo
<1>5. proc[p].rol = "monitor"
  BY <1>1, <1>4, ConPapel DEF PcComprobador
<1>6. a = "exit" => proc[p].dato.fin
  BY <1>1
<1>7. a = "imprimir" => ~proc[p].dato.fin
  BY <1>1
<1>8. Rutina /\ \A y \in Monitores \ {p} : proc'[y] = proc[y]
  BY <1>1, <1>2, <1>3, <1>5, <1>6, <1>7, PasaRutina
<1>. QED
  BY <1>1, <1>4, <1>5, <1>8 DEF Con

(* The invariant.                                                           *)
LEMMA DuetoInicial == Init => Dueto
<1>. SUFFICES ASSUME Init PROVE Dueto
  OBVIOUS
<1>1. \A p \in Monitores : proc[p].rol = "" /\ proc[p].queue = Nadie
  BY DEF Init
<1>2. Con("comprobador") = {} /\ Con("monitor") = {}
  BY <1>1 DEF Con
<1>3. ASSUME NEW n \in Mineros PROVE min[n].queue = Nadie
  <2>1. min[n] \in {[pc |-> "mq_open", queue |-> Nadie, n_cycles |-> c, i |-> 0, target |-> 0]
                    : c \in Ciclos}
    BY DEF Init
  <2>. QED
    BY <2>1
<1>4. SinCrear
  BY <1>3, P3Assumption DEF SinCrear, Init
<1>. QED
  BY <1>1, <1>2, <1>4 DEF Dueto, Pareja, SinFin, Salida, SinAbrir

LEMMA RutinaDueto ==
  ASSUME Tipo, Dueto, Rutina
  PROVE  Dueto'
<1>1. /\ \A y \in Monitores : proc'[y].rol = proc[y].rol /\ proc'[y].queue = proc[y].queue
      /\ puestos' = puestos /\ cola' = cola /\ min' = min
      /\ SHM_NAME' = SHM_NAME \/ Con("monitor") # {}
      /\ MQ_NAME' = MQ_NAME \/ MQ_NAME' = Nadie
  BY DEF Rutina
<1>2. Con("comprobador")' = Con("comprobador") /\ Con("monitor")' = Con("monitor")
  BY <1>1 DEF Con
<1>3. Pareja'
  BY <1>1, <1>2 DEF Dueto, Pareja
<1>4. SinFin'
  <2>. SUFFICES ASSUME NEW c \in Con("comprobador")
                PROVE  \/ proc'[c].pc \in {"post_mutex", "post_fill"} /\ proc'[c].dato.fin
                       \/ proc'[c].pc \in {"exit", "fallo"}
                       \/ \A k \in 1 .. Len(puestos[c]) : ~puestos[c][k].fin
    BY <1>1, <1>2 DEF SinFin
  <2>1. c \in Monitores /\ proc[c].rol = "comprobador"
    BY DEF Con
  <2>2. /\ proc'[c].dato = proc[c].dato
        /\ proc[c].pc \in {"post_mutex", "post_fill"} /\ proc[c].dato.fin =>
             proc'[c].pc \in {"post_mutex", "post_fill", "exit"}
        /\ proc[c].pc \in {"exit", "fallo"} => proc'[c].pc = proc[c].pc
    BY <2>1 DEF Rutina
  <2>3. \/ proc[c].pc \in {"post_mutex", "post_fill"} /\ proc[c].dato.fin
        \/ proc[c].pc \in {"exit", "fallo"}
        \/ \A k \in 1 .. Len(puestos[c]) : ~puestos[c][k].fin
    BY DEF Dueto, SinFin
  <2>. QED
    BY <2>2, <2>3
<1>5. Salida'
  <2>1. ASSUME NEW m \in Con("monitor")
        PROVE  /\ proc'[m].pc = "exit" => proc'[m].dato.fin
               /\ proc'[m].pc = "imprimir" => ~proc'[m].dato.fin
    BY <2>1 DEF Con, Rutina, Dueto, Salida
  <2>. QED
    BY <1>2, <2>1 DEF Salida
<1>6. SinCrear'
  BY <1>1, P3Assumption DEF Dueto, SinCrear
<1>7. SinAbrir'
  BY <1>1 DEF Dueto, SinAbrir, Rutina
<1>. QED
  BY <1>3, <1>4, <1>5, <1>6, <1>7 DEF Dueto

(* What a step that is not one of those has to keep.                        *)
LEMMA UnoDueto ==
  ASSUME Tipo, Dueto, NEW p \in Monitores, \A y \in Monitores \ {p} : proc'[y] = proc[y],
         min' = min, MQ_NAME' = MQ_NAME,
         \A n \in Mineros : min[n].pc = "mq_open" => cola'[n] = cola[n],
         \A y \in Monitores \ {p} : puestos'[y] = puestos[y],
         proc'[p].rol = "comprobador" =>
           \/ proc'[p].pc \in {"post_mutex", "post_fill"} /\ proc'[p].dato.fin
           \/ proc'[p].pc \in {"exit", "fallo"}
           \/ \A k \in 1 .. Len(puestos'[p]) : ~puestos'[p][k].fin,
         proc'[p].rol = "monitor" => proc'[p].pc \notin {"exit", "imprimir"},
         proc'[p].rol # "comprobador" => proc'[p].queue = Nadie,
         proc'[p].pc \in Antes \cup {"mq_open"} => proc'[p].queue = Nadie
  PROVE  SinFin' /\ Salida' /\ SinCrear' /\ SinAbrir'
<1>1. SinFin'
  BY DEF Dueto, SinFin, Con
<1>2. Salida'
  BY DEF Dueto, Salida, Con
<1>3. SinCrear'
  BY DEF Dueto, SinCrear
<1>4. SinAbrir'
  BY DEF Dueto, SinAbrir
<1>. QED
  BY <1>1, <1>2, <1>3, <1>4

(* The memory is created, or found.                                         *)
LEMMA ShmCreaDueto ==
  ASSUME Dos, Cuentas, Dueto, Tipo', NEW p \in Monitores, ShmCrea(p)
  PROVE  /\ Dueto' /\ Con("comprobador") = {} /\ proc'[p].rol = "comprobador" /\ proc'[p].queue = Nadie
         /\ proc'[p].pc = "ftruncate" /\ puestos[p] = <<>>
         /\ \A y \in Monitores \ {p} : proc'[y] = proc[y]
<1>. DEFINE x == [proc[p] EXCEPT !.pc = "ftruncate", !.rol = "comprobador", !.mem = p]
<1>1. /\ Tipo /\ proc[p] \in Proceso /\ proc \in [Monitores -> Proceso] /\ proc[p].pc = "shm_open"
      /\ proc[p].rol = "" /\ SHM_NAME = Nadie /\ SHM_NAME' = p
      /\ UNCHANGED <<MQ_NAME, cola, min, puestos>>
  BY ShmCreaTipo DEF Cuentas, Tipo, TypeOK, ShmCrea, Despierto, historia
<1>2. proc[p].queue = Nadie /\ puestos[p] = <<>>
  BY <1>1 DEF Dueto, SinAbrir, Cuentas, Inicio, SinIniciar, Antes
<1>3. proc'[p] = x /\ \A y \in Monitores \ {p} : proc'[y] = proc[y]
  BY <1>1 DEF ShmCrea
<1>4. x.pc = "ftruncate" /\ x.rol = "comprobador" /\ x.queue = Nadie
  BY <1>1, <1>2 DEF Proceso
<1>. HIDE DEF x
<1>5. Con("comprobador") = {}
  <2>. SUFFICES ASSUME NEW c \in Con("comprobador") PROVE FALSE
    OBVIOUS
  <2>1. PICK m \in Con("monitor") : TRUE
    BY <1>1 DEF Dueto, Pareja
  <2>2. c \in Monitores /\ m \in Monitores /\ c # m /\ p # c /\ p # m
    BY <1>1 DEF Con
  <2>. QED
    BY <2>2 DEF Dos
<1>6. Con("comprobador")' = {p}
  BY <1>3, <1>4, <1>5 DEF Con
<1>7. Pareja'
  <2>1. SHM_NAME' # Nadie
    BY <1>1, P3Assumption
  <2>. QED
    BY <1>6, <2>1 DEF Pareja
<1>8. SinFin' /\ Salida' /\ SinCrear' /\ SinAbrir'
  <2>1. Len(<<>>) = 0
    OBVIOUS
  <2>2. puestos' = puestos /\ Len(puestos[p]) = 0
    BY <1>1, <1>2, <2>1
  <2>3. \A k \in 1 .. 0 : FALSE
    OBVIOUS
  <2>4. \A k \in 1 .. Len(puestos'[p]) : ~puestos'[p][k].fin
    BY <2>2, <2>3
  <2>. QED
    BY <1>1, <1>3, <1>4, <2>4, UnoDueto
<1>. QED
  BY <1>2, <1>3, <1>4, <1>5, <1>7, <1>8 DEF Dueto

LEMMA ShmAbreDueto ==
  ASSUME Tipo, Dueto, NEW p \in Monitores, ShmAbre(p)
  PROVE  Dueto'
<1>1. /\ proc[p].rol = "" /\ \A y \in Monitores \ {p} : proc'[y] = proc[y]
      /\ proc'[p].pc \in {"fallo", "shm_unlink"} /\ proc'[p].rol \in {"", "monitor"}
  BY ShmAbreTipo
<1>2. UNCHANGED <<SHM_NAME, MQ_NAME, cola, min, puestos>>
  BY DEF ShmAbre, nombres, historia
<1>3. proc'[p].queue = Nadie
  <2>. DEFINE x == IF SHM_NAME = Nadie THEN [proc[p] EXCEPT !.pc = "fallo"]
                   ELSE [proc[p] EXCEPT !.pc = "shm_unlink", !.rol = "monitor", !.mem = SHM_NAME]
  <2>1. proc \in [Monitores -> Proceso] /\ proc[p] \in Proceso /\ proc[p].queue = Nadie
    BY <1>1 DEF Tipo, TypeOK, Dueto, SinAbrir
  <2>2. proc'[p] = x
    BY <2>1 DEF ShmAbre
  <2>3. x.queue = Nadie
    BY <2>1 DEF Proceso
  <2>. QED
    BY <2>2, <2>3
<1>4. Con("comprobador")' = Con("comprobador") /\ Con("monitor") \subseteq Con("monitor")'
  BY <1>1 DEF Con
<1>5. Pareja'
  BY <1>2, <1>4 DEF Dueto, Pareja
<1>6. SinFin' /\ Salida' /\ SinCrear' /\ SinAbrir'
  BY <1>1, <1>2, <1>3, UnoDueto
<1>. QED
  BY <1>5, <1>6 DEF Dueto

LEMMA MqAbreDueto ==
  ASSUME Tipo, Dueto, NEW p \in Monitores, MqAbre(p)
  PROVE  /\ Dueto' /\ proc[p].rol = "comprobador" /\ proc'[p].rol = "comprobador"
         /\ proc[p].queue = Nadie /\ proc'[p].queue = MQ_NAME
         /\ ~LlevaBloque(proc[p]) /\ ~LlevaBloque(proc'[p])
         /\ \A y \in Monitores \ {p} : proc'[y] = proc[y]
<1>1. /\ proc[p].rol = "comprobador" /\ proc'[p].rol = "comprobador" /\ proc[p].pc = "mq_open"
      /\ proc'[p].pc \in {"fallo", "mq_unlink"} /\ \A y \in Monitores \ {p} : proc'[y] = proc[y]
  BY MqAbreTipo
<1>2. UNCHANGED <<SHM_NAME, MQ_NAME, cola, min, puestos>>
  BY DEF MqAbre, nombres, historia
<1>3. proc[p].queue = Nadie /\ proc'[p].queue = MQ_NAME
  <2>. DEFINE x == IF MQ_NAME = Nadie THEN [proc[p] EXCEPT !.pc = "fallo"]
                   ELSE [proc[p] EXCEPT !.pc = "mq_unlink", !.queue = MQ_NAME]
  <2>1. proc \in [Monitores -> Proceso] /\ proc[p] \in Proceso /\ proc[p].queue = Nadie
    BY <1>1 DEF Tipo, TypeOK, Dueto, SinAbrir
  <2>2. proc'[p] = x
    BY <2>1 DEF MqAbre
  <2>3. x.queue = MQ_NAME
    BY <2>1 DEF Proceso
  <2>. QED
    BY <2>1, <2>2, <2>3
<1>4. Con("comprobador")' = Con("comprobador") /\ Con("monitor")' = Con("monitor")
  BY <1>1 DEF Con
<1>5. Pareja'
  BY <1>2, <1>4 DEF Dueto, Pareja
<1>6. \A k \in 1 .. Len(puestos[p]) : ~puestos[p][k].fin
  BY <1>1 DEF Dueto, SinFin, Con
<1>7. SinFin' /\ Salida' /\ SinCrear' /\ SinAbrir'
  BY <1>1, <1>2, <1>6, UnoDueto DEF Antes
<1>. QED
  BY <1>1, <1>3, <1>5, <1>7 DEF Dueto, LlevaBloque

(* A block goes from the queue to the comprobador's hands ...               *)
LEMMA MqReceiveDueto ==
  ASSUME Tipo, Dueto, NEW p \in Monitores, MqReceive(p)
  PROVE  /\ Dueto' /\ proc[p].rol = "comprobador" /\ proc'[p].rol = "comprobador"
         /\ proc[p].pc = "mq_receive" /\ proc'[p].pc = "empty" /\ proc[p].queue \in Mineros
         /\ proc'[p].queue = proc[p].queue /\ proc'[p].dato = Comprueba(Head(cola[proc[p].queue]))
         /\ \A y \in Monitores \ {p} : proc'[y] = proc[y]
<1>. DEFINE q == proc[p].queue
            x == [proc[p] EXCEPT !.pc = "empty", !.dato = Comprueba(Head(cola[q]))]
<1>1. /\ proc[p].rol = "comprobador" /\ proc'[p].rol = "comprobador" /\ proc[p].pc = "mq_receive"
      /\ proc'[p].pc = "empty" /\ \A y \in Monitores \ {p} : proc'[y] = proc[y]
  BY MqReceiveTipo
<1>2. UNCHANGED <<SHM_NAME, MQ_NAME, min, puestos>>
  BY DEF MqReceive, nombres, historia
<1>3. q \in Mineros
  BY <1>1, ConPapel DEF SinCola
<1>4. proc'[p].queue = q /\ proc'[p].dato = Comprueba(Head(cola[q]))
  <2>1. proc \in [Monitores -> Proceso] /\ proc[p] \in Proceso
    BY DEF Tipo, TypeOK
  <2>2. proc'[p] = x
    BY <2>1 DEF MqReceive
  <2>3. x.queue = q /\ x.dato = Comprueba(Head(cola[q]))
    BY <2>1 DEF Proceso
  <2>. QED
    BY <2>2, <2>3
<1>5. \A n \in Mineros : min[n].pc = "mq_open" => cola'[n] = cola[n]
  <2>1. ASSUME NEW n \in Mineros, min[n].pc = "mq_open" PROVE cola'[n] = cola[n]
    <3>1. cola[q] # <<>> /\ cola[n] = <<>>
      BY <2>1 DEF MqReceive, Dueto, SinCrear
    <3>2. n # q
      BY <3>1
    <3>. QED
      BY <3>2 DEF MqReceive, Tipo, TypeOK
  <2>. QED
    BY <2>1
<1>6. Con("comprobador")' = Con("comprobador") /\ Con("monitor")' = Con("monitor")
  BY <1>1 DEF Con
<1>7. Pareja'
  BY <1>2, <1>6 DEF Dueto, Pareja
<1>8. \A k \in 1 .. Len(puestos[p]) : ~puestos[p][k].fin
  BY <1>1 DEF Dueto, SinFin, Con
<1>9. SinFin' /\ Salida' /\ SinCrear' /\ SinAbrir'
  BY <1>1, <1>2, <1>5, <1>8, UnoDueto DEF Antes
<1>. QED
  BY <1>1, <1>3, <1>4, <1>7, <1>9 DEF Dueto

(* ... and from there into the ring.                                        *)
LEMMA RearDueto ==
  ASSUME Tipo, Dueto, NEW p \in Monitores, Rear(p)
  PROVE  /\ Dueto' /\ proc[p].rol = "comprobador" /\ proc'[p].rol = "comprobador"
         /\ proc[p].pc = "rear" /\ proc'[p].pc = "post_mutex" /\ proc'[p].queue = proc[p].queue
         /\ puestos' = [puestos EXCEPT ![p] = Append(puestos[p], proc[p].dato)]
         /\ \A y \in Monitores \ {p} : proc'[y] = proc[y]
<1>1. Pasa(p, "rear", "post_mutex") /\ "post_mutex" \in EstadosP
      /\ UNCHANGED <<SHM_NAME, MQ_NAME, cola, min>>
  BY DEF Rear, nombres, EstadosP
<1>2. proc[p].rol = "comprobador" /\ proc[p].mem = p
  BY <1>1, ComprobadorPapel
<1>3. /\ proc[p].pc = "rear" /\ proc'[p].pc = "post_mutex" /\ proc'[p].rol = proc[p].rol
      /\ proc'[p].queue = proc[p].queue /\ proc'[p].dato = proc[p].dato
      /\ \A y \in Monitores \ {p} : proc'[y] = proc[y]
  BY <1>1, PasaTipo
<1>4. puestos' = [puestos EXCEPT ![p] = Append(puestos[p], proc[p].dato)]
  BY <1>2 DEF Rear
<1>5. puestos'[p] = Append(puestos[p], proc[p].dato) /\ \A y \in Monitores \ {p} : puestos'[y] = puestos[y]
  BY <1>4 DEF Tipo, TypeOK
<1>6. \/ proc'[p].dato.fin
      \/ \A k \in 1 .. Len(puestos'[p]) : ~puestos'[p][k].fin
  <2>. SUFFICES ASSUME ~proc[p].dato.fin, NEW k \in 1 .. Len(puestos'[p]) PROVE ~puestos'[p][k].fin
    BY <1>3
  <2>1. \A j \in 1 .. Len(puestos[p]) : ~puestos[p][j].fin
    BY <1>2, <1>3 DEF Dueto, SinFin, Con
  <2>2. puestos[p] \in Seq(Dato) /\ proc[p].dato \in Dato
    <3>1. proc[p] \in Proceso /\ puestos[p] \in Seq(Dato)
      BY DEF Tipo, TypeOK
    <3>. QED
      BY <3>1 DEF Proceso
  <2>3. /\ Len(puestos'[p]) = Len(puestos[p]) + 1 /\ Len(puestos[p]) \in Nat
        /\ \A j \in 1 .. Len(puestos[p]) : puestos'[p][j] = puestos[p][j]
        /\ puestos'[p][Len(puestos[p]) + 1] = proc[p].dato
    BY <1>5, <2>2, AppendProperties, LenProperties
  <2>4. k \in 1 .. Len(puestos[p]) \/ k = Len(puestos[p]) + 1
    BY <2>3
  <2>. QED
    BY <2>1, <2>3, <2>4
<1>7. Con("comprobador")' = Con("comprobador") /\ Con("monitor")' = Con("monitor")
  BY <1>3 DEF Con
<1>8. Pareja'
  BY <1>1, <1>7 DEF Dueto, Pareja
<1>9. SinFin' /\ Salida' /\ SinCrear' /\ SinAbrir'
  BY <1>1, <1>2, <1>3, <1>5, <1>6, UnoDueto DEF Antes
<1>. QED
  BY <1>2, <1>3, <1>4, <1>8, <1>9 DEF Dueto

(* A miner creates a queue, or writes to one that has been created.         *)
LEMMA MinerosDueto ==
  ASSUME Tipo, Dueto, NEW n \in Mineros, LanzaMinero(n) \/ Minero(n)
  PROVE  /\ Dueto'
         /\ UNCHANGED <<proc, puestos, impresos, memoria, turnos>>
         /\ \/ MQ_NAME' = MQ_NAME /\ cola' = cola
            \/ MQ_NAME' = MQ_NAME
               /\ \E q \in Mineros, d \in Dato : cola' = [cola EXCEPT ![q] = Append(cola[q], d)]
            \/ MQ_NAME = Nadie /\ MQ_NAME' = n /\ cola' = cola /\ cola[n] = <<>>
<1>1. /\ SHM_NAME' = SHM_NAME /\ UNCHANGED <<proc, puestos, impresos, memoria, turnos>>
      /\ min \in [Mineros -> ProcesoMinero] /\ min[n] \in ProcesoMinero /\ cola \in [Mineros -> Seq(Dato)]
      /\ MQ_NAME \in Objetos(Mineros) /\ Nadie \notin Mineros
  BY P3Assumption DEF LanzaMinero, Minero, MqCrea, MqExiste, MqReabre, Argumentos, SinSolucion, Enviar,
     EnviarFin, nombres, historia, Tipo, TypeOK
<1>2. Pareja' /\ SinFin' /\ Salida' /\ SinAbrir'
  <2>1. \A r : Con(r)' = Con(r)
    BY <1>1 DEF Con
  <2>. QED
    BY <1>1, <2>1 DEF Dueto, Pareja, SinFin, Salida, SinAbrir
<1>3. ASSUME NEW x, min' = [min EXCEPT ![n] = x], x.pc # "mq_open",
             x.queue \in {min[n].queue, MQ_NAME, MQ_NAME'}, MQ_NAME' \in {MQ_NAME, n},
             \A k \in Mineros : min'[k].pc = "mq_open" => cola'[k] = cola[k]
      PROVE  SinCrear'
  <2>1. min'[n] = x /\ \A y \in Mineros \ {n} : min'[y] = min[y]
    BY <1>1, <1>3
  <2>2. ASSUME NEW k \in Mineros, min'[k].pc = "mq_open"
        PROVE  MQ_NAME' # k /\ cola'[k] = <<>> /\ \A y \in Mineros : min'[y].queue # k
    <3>1. k # n /\ min[k].pc = "mq_open"
      BY <1>3, <2>1, <2>2
    <3>2. MQ_NAME # k /\ cola[k] = <<>> /\ \A y \in Mineros : min[y].queue # k
      BY <3>1 DEF Dueto, SinCrear
    <3>. QED
      BY <1>3, <2>1, <2>2, <3>1, <3>2
  <2>. QED
    BY <2>2 DEF SinCrear
<1>4. CASE MqCrea(n)
  <2>. DEFINE x == [min[n] EXCEPT !.pc = "args", !.queue = n]
  <2>1. /\ min' = [min EXCEPT ![n] = x] /\ MQ_NAME = Nadie /\ MQ_NAME' = n /\ cola' = cola
        /\ min[n].pc = "mq_open"
    BY <1>1, <1>4 DEF MqCrea
  <2>2. x.pc = "args" /\ x.queue = n
    BY <1>1 DEF ProcesoMinero
  <2>. HIDE DEF x
  <2>3. SinCrear'
    BY <1>3, <2>1, <2>2
  <2>4. cola[n] = <<>>
    BY <2>1 DEF Dueto, SinCrear
  <2>. QED
    BY <1>1, <1>2, <2>1, <2>3, <2>4 DEF Dueto
<1>5. CASE MqReabre(n)
  <2>. DEFINE x == IF MQ_NAME = Nadie THEN [min[n] EXCEPT !.pc = "fallo"]
                   ELSE [min[n] EXCEPT !.pc = "args", !.queue = MQ_NAME]
  <2>1. min' = [min EXCEPT ![n] = x] /\ MQ_NAME' = MQ_NAME /\ cola' = cola
    BY <1>5 DEF MqReabre, nombres
  <2>2. x.pc \in {"args", "fallo"} /\ x.queue \in {min[n].queue, MQ_NAME}
    BY <1>1 DEF ProcesoMinero
  <2>. HIDE DEF x
  <2>3. SinCrear'
    BY <1>3, <2>1, <2>2
  <2>. QED
    BY <1>1, <1>2, <2>1, <2>3 DEF Dueto
<1>6. CASE MqExiste(n) \/ Argumentos(n) \/ SinSolucion(n)
  <2>1. PICK a : /\ min' = [min EXCEPT ![n].pc = a] /\ a \in {"abrir", "fallo", "enviar"}
                 /\ MQ_NAME' = MQ_NAME /\ cola' = cola
    BY <1>6 DEF MqExiste, Argumentos, SinSolucion, MPasa, nombres
  <2>. DEFINE x == [min[n] EXCEPT !.pc = a]
  <2>2. min' = [min EXCEPT ![n] = x]
    BY <1>1, <2>1
  <2>3. x.pc # "mq_open" /\ x.queue = min[n].queue
    BY <1>1, <2>1 DEF ProcesoMinero
  <2>. HIDE DEF x
  <2>4. SinCrear'
    BY <1>3, <2>1, <2>2, <2>3
  <2>. QED
    BY <1>1, <1>2, <2>1, <2>4 DEF Dueto
<1>7. CASE Enviar(n) \/ EnviarFin(n)
  <2>. DEFINE q == min[n].queue
  <2>1. q \in Mineros
    BY <1>7 DEF Enviar, EnviarFin, MPasa, Tipo, Papeles
  <2>2. PICK d \in Dato : cola' = [cola EXCEPT ![q] = Append(cola[q], d)] /\ MQ_NAME' = MQ_NAME
    <3>1. CASE Enviar(n)
      <4>1. PICK s \in Int : s = target_search(min[n].target)
        BY SolucionTipo
      <4>2. [fin |-> FALSE, objetivo |-> min[n].target, solucion |-> s, correcto |-> TRUE] \in Dato
        BY <1>1 DEF Dato, ProcesoMinero
      <4>. QED
        BY <3>1, <4>1, <4>2 DEF Enviar, nombres
    <3>2. CASE EnviarFin(n)
      BY <3>2, BloqueTipo DEF EnviarFin, nombres
    <3>. QED
      BY <1>7, <3>1, <3>2
  <2>3. PICK x : min' = [min EXCEPT ![n] = x] /\ x.pc \in {"enviar", "fin", "exit"} /\ x.queue = q
    <3>1. CASE Enviar(n)
      <4>. DEFINE x == [min[n] EXCEPT !.target = target_search(min[n].target), !.i = min[n].i + 1,
                          !.pc = IF min[n].i + 1 = min[n].n_cycles THEN "fin" ELSE "enviar"]
      <4>1. min' = [min EXCEPT ![n] = x]
        BY <3>1 DEF Enviar
      <4>2. x.pc \in {"enviar", "fin", "exit"} /\ x.queue = q
        BY <1>1 DEF ProcesoMinero
      <4>. QED
        BY <4>1, <4>2
    <3>2. CASE EnviarFin(n)
      <4>. DEFINE x == [min[n] EXCEPT !.pc = "exit"]
      <4>1. min' = [min EXCEPT ![n] = x]
        BY <1>1, <3>2 DEF EnviarFin, MPasa
      <4>2. x.pc = "exit" /\ x.queue = q
        BY <1>1 DEF ProcesoMinero
      <4>. QED
        BY <4>1, <4>2
    <3>. QED
      BY <1>7, <3>1, <3>2
  <2>4. ASSUME NEW k \in Mineros, min'[k].pc = "mq_open" PROVE cola'[k] = cola[k]
    <3>1. k # n /\ min[k].pc = "mq_open"
      BY <1>1, <2>3, <2>4
    <3>2. k # q
      BY <3>1 DEF Dueto, SinCrear
    <3>. QED
      BY <1>1, <2>2, <3>2
  <2>5. SinCrear'
    BY <1>3, <2>2, <2>3, <2>4
  <2>. QED
    BY <1>1, <1>2, <2>1, <2>2, <2>5 DEF Dueto
<1>. QED
  BY <1>4, <1>5, <1>6, <1>7 DEF LanzaMinero, Minero

(* The steps of a monitor program, by what they mean to the channel.        *)
LEMMA PasosMonitor ==
  ASSUME Tipo, NEW p \in Monitores, LanzaMonitor(p) \/ PasoMonitor(p) \/ Falla(p)
  PROVE  \/ Rutina /\ Callada
         \/ PostEmpty(p) \/ Imprimir(p) \/ ShmCrea(p) \/ ShmAbre(p)
         \/ MqAbre(p) \/ MqReceive(p) \/ Rear(p)
<1>1. ASSUME NEW s, Duerme(p, s) PROVE Rutina /\ Callada
  BY <1>1, RutinaIgual DEF Duerme, Callada, nombres, historia
<1>. QED
  BY <1>1, SencillosRutina, ExtraerRutina DEF LanzaMonitor, PasoMonitor, Comprobador, Monitor

LEMMA DuetoPaso ==
  ASSUME Dos, Cuentas, Dueto, Tipo', [Next]_vars
  PROVE  Dueto'
<1>1. Tipo
  BY DEF Cuentas
<1>2. CASE UNCHANGED vars
  <2>1. Rutina
    BY <1>2, RutinaIgual DEF vars, nombres, historia
  <2>. QED
    BY <1>1, <2>1, RutinaDueto
<1>3. ASSUME NEW p \in Monitores, LanzaMonitor(p) \/ PasoMonitor(p) \/ Falla(p)
      PROVE  Dueto'
  BY <1>1, <1>3, PasosMonitor, RutinaDueto, SaleRutina, ShmCreaDueto, ShmAbreDueto, MqAbreDueto,
     MqReceiveDueto, RearDueto
<1>4. ASSUME NEW n \in Mineros, LanzaMinero(n) \/ Minero(n) PROVE Dueto'
  BY <1>1, <1>4, MinerosDueto
<1>5. ASSUME NEW x \in Monitores \cup Mineros, Mata(x) PROVE Dueto'
  <2>1. Rutina
    BY <1>5, RutinaIgual DEF Mata, nombres, historia
  <2>. QED
    BY <1>1, <2>1, RutinaDueto
<1>. QED
  BY <1>2, <1>3, <1>4, <1>5 DEF Next

(* What the next lemmas say of the state after a step holds of every state. *)
Bien == Reparte /\ Dueto /\ Vista

(* The channel stays as it is when the same blocks have gone in and out ... *)
LEMMA MismoInterior ==
  ASSUME Vista, Vista', Con("comprobador")' = Con("comprobador"),
         \A c \in Con("comprobador") : Aceptados(c)' = Aceptados(c),
         Impresos' = Impresos, Cerrado' <=> Cerrado
  PROVE  Interior' = Interior
<1>1. Salidos' = Salidos
  <2>1. CASE Cerrado
    BY <2>1 DEF Salidos
  <2>2. CASE ~Cerrado
    BY <2>2 DEF Salidos
  <2>. QED
    BY <2>1, <2>2
<1>2. CASE Con("comprobador") = {}
  BY <1>2 DEF Vista
<1>3. CASE Con("comprobador") # {}
  <2>1. PICK c \in Con("comprobador") : TRUE
    BY <1>3
  <2>2. Interior = Desde(Aceptados(c), Salidos)
    BY DEF Vista
  <2>3. Interior' = Desde(Aceptados(c)', Salidos')
    BY DEF Vista
  <2>4. Aceptados(c)' = Aceptados(c)
    OBVIOUS
  <2>. QED
    BY <1>1, <2>2, <2>3, <2>4
<1>. QED
  BY <1>2, <1>3

LEMMA MismaSalida ==
  ASSUME Vista, Vista', Con("monitor")' = Con("monitor"),
         \A m \in Con("monitor") : impresos'[m] = impresos[m] /\ (proc'[m].pc = "exit" <=> proc[m].pc = "exit")
  PROVE  Impresos' = Impresos /\ (Cerrado' <=> Cerrado)
<1>1. CASE Con("monitor") = {}
  BY <1>1 DEF Vista
<1>2. CASE Con("monitor") # {}
  <2>1. PICK m \in Con("monitor") : TRUE
    BY <1>2
  <2>2. Impresos = impresos[m] /\ (Cerrado <=> proc[m].pc = "exit")
    BY DEF Vista
  <2>3. Impresos' = impresos'[m] /\ (Cerrado' <=> proc'[m].pc = "exit")
    BY DEF Vista
  <2>. QED
    BY <2>1, <2>2, <2>3
<1>. QED
  BY <1>1, <1>2

(* ... and the queue is the same.                                           *)
LEMMA MismaCola ==
  ASSUME Vista, Vista', Con("comprobador")' = Con("comprobador"),
         \A c \in Con("comprobador") : proc'[c].queue = proc[c].queue,
         \/ MQ_NAME' = MQ_NAME
         \/ \E c \in Con("comprobador") : proc[c].queue # Nadie
  PROVE  Cual' = Cual
<1>1. CASE \E c \in Con("comprobador") : proc[c].queue # Nadie
  <2>1. PICK c \in Con("comprobador") : proc[c].queue # Nadie
    BY <1>1
  <2>2. Cual = proc[c].queue /\ Cual' = proc'[c].queue
    BY <2>1 DEF Vista
  <2>. QED
    BY <2>2
<1>2. CASE ~\E c \in Con("comprobador") : proc[c].queue # Nadie
  <2>1. MQ_NAME' = MQ_NAME
    BY <1>2
  <2>2. CASE Con("comprobador") = {}
    BY <2>1, <2>2 DEF Vista
  <2>3. CASE Con("comprobador") # {}
    <3>1. PICK c \in Con("comprobador") : TRUE
      BY <2>3
    <3>2. Cual = MQ_NAME /\ Cual' = MQ_NAME'
      BY <1>2 DEF Vista
    <3>. QED
      BY <2>1, <3>2
  <2>. QED
    BY <2>2, <2>3
<1>. QED
  BY <1>1, <1>2

LEMMA CanalQuieto ==
  ASSUME Interior' = Interior, Impresos' = Impresos, Cerrado' <=> Cerrado, Cual' = Cual, cola' = cola
  PROVE  UNCHANGED Canal3!canal
<1>1. Entrada' = Entrada
  BY DEF Entrada
<1>2. Cerrado' = Cerrado
  BY DEF Cerrado
<1>. QED
  BY <1>1, <1>2 DEF Canal3!canal

LEMMA RutinaMisma ==
  ASSUME Tipo, Rutina
  PROVE  /\ Con("comprobador")' = Con("comprobador") /\ Con("monitor")' = Con("monitor")
         /\ \A c \in Con("comprobador") : /\ Aceptados(c)' = Aceptados(c)
                                          /\ proc'[c].queue = proc[c].queue
         /\ MQ_NAME' = MQ_NAME \/ \E c \in Con("comprobador") : proc[c].queue # Nadie
<1>1. Con("comprobador")' = Con("comprobador") /\ Con("monitor")' = Con("monitor")
  BY DEF Con, Rutina
<1>2. ASSUME NEW c \in Con("comprobador")
      PROVE  Aceptados(c)' = Aceptados(c) /\ proc'[c].queue = proc[c].queue
  <2>1. /\ c \in Monitores /\ proc[c].rol = "comprobador" /\ puestos' = puestos
    BY DEF Con, Rutina
  <2>2. /\ proc'[c].queue = proc[c].queue /\ proc'[c].dato = proc[c].dato
        /\ LlevaBloque(proc'[c]) <=> LlevaBloque(proc[c])
    BY <2>1 DEF Rutina
  <2>3. ManoComprobador(c)' = ManoComprobador(c)
    BY <2>2 DEF ManoComprobador, LlevaBloque
  <2>. QED
    BY <2>1, <2>2, <2>3 DEF Aceptados
<1>3. MQ_NAME' = MQ_NAME \/ \E c \in Con("comprobador") : proc[c].queue # Nadie
  BY DEF Rutina
<1>. QED
  BY <1>1, <1>2, <1>3

LEMMA CanalRutina ==
  ASSUME Bien, Bien', Rutina, Callada
  PROVE  UNCHANGED Canal3!canal
<1>1. Tipo /\ Vista /\ Vista' /\ cola' = cola
  BY DEF Bien, Reparte, Cuentas, Rutina
<1>2. /\ Con("comprobador")' = Con("comprobador") /\ Con("monitor")' = Con("monitor")
      /\ \A c \in Con("comprobador") : Aceptados(c)' = Aceptados(c)
  BY <1>1, RutinaMisma
<1>3. Cual' = Cual
  BY <1>1, RutinaMisma, MismaCola
<1>4. Impresos' = Impresos /\ (Cerrado' <=> Cerrado)
  <2>1. \A m \in Con("monitor") : impresos'[m] = impresos[m] /\ (proc'[m].pc = "exit" <=> proc[m].pc = "exit")
    BY DEF Con, Callada
  <2>. QED
    BY <1>1, <1>2, <2>1, MismaSalida
<1>5. Interior' = Interior
  BY <1>1, <1>2, <1>4, MismoInterior
<1>. QED
  BY <1>1, <1>3, <1>4, <1>5, CanalQuieto

(* The oldest block inside is the one the monitor has in its hands.         *)
LEMMA CanalSale ==
  ASSUME Dos, Bien, Bien', Rutina, NEW m \in Con("monitor"), proc[m].pc \in {"post_empty", "imprimir"},
         Salidos' = Salidos + 1
  PROVE  /\ Interior # <<>> /\ Head(Interior) = proc[m].dato /\ Interior' = Tail(Interior)
         /\ Entrada' = Entrada
<1>1. Tipo /\ Reparte /\ Pareja /\ Vista /\ Vista' /\ cola' = cola
  BY DEF Bien, Dueto, Reparte, Cuentas, Rutina
<1>2. PICK c \in Con("comprobador") : c = proc[m].mem
  BY <1>1, Unicos
<1>3. c \in Monitores /\ m \in Monitores
  BY DEF Con
<1>4. /\ Len(turnos[c]) = Len(impresos[m]) + 1 /\ proc[m].dato = puestos[c][Len(turnos[c])]
  BY <1>1, <1>2, <1>3, EnMonitor DEF Mano
<1>5. Len(turnos[c]) \in 0 .. Len(puestos[c]) /\ Len(puestos[c]) \in Nat /\ Len(impresos[m]) \in Nat
  <2>1. puestos[c] \in Seq(Dato) /\ impresos[m] \in Seq(Dato)
    BY <1>1, <1>3 DEF Tipo, TypeOK
  <2>. QED
    BY <1>1, <1>3, <2>1, AnilloEs, LenProperties
<1>6. Salidos = Len(impresos[m])
  <2>1. Impresos = impresos[m] /\ ~Cerrado
    BY <1>1 DEF Vista
  <2>. QED
    BY <1>5, <2>1 DEF Salidos
<1>7. PICK s \in Seq(Dato), h \in Seq(Dato) : s = puestos[c] /\ h = ManoComprobador(c)
  BY <1>1, <1>3, ManoEs
<1>8. PICK t \in Seq(Dato) : t = s \o h
  BY ConcatProperties
<1>9. /\ Len(t) = Len(s) + Len(h) /\ Len(h) \in Nat
      /\ \A k \in 1 .. Len(s) + Len(h) : t[k] = IF k <= Len(s) THEN s[k] ELSE h[k - Len(s)]
  BY <1>8, ConcatProperties
<1>10. /\ Salidos \in 0 .. Len(t) - 1 /\ t[Salidos + 1] = proc[m].dato
  <2>1. PICK n \in Nat : n = Len(impresos[m])
    BY <1>5
  <2>2. n + 1 = Len(turnos[c]) /\ Len(s) \in Nat /\ n + 1 \in 1 .. Len(s) /\ Salidos = n
    BY <1>4, <1>5, <1>6, <1>7, <2>1
  <2>3. t[n + 1] = s[n + 1]
    BY <1>9, <2>2
  <2>4. s[n + 1] = proc[m].dato
    BY <1>4, <1>7, <2>2
  <2>5. n \in 0 .. Len(t) - 1
    BY <1>9, <2>1, <2>2
  <2>. QED
    BY <2>2, <2>3, <2>4, <2>5
<1>11. Aceptados(c) = t
  BY <1>7, <1>8 DEF Aceptados
<1>12. Interior = Desde(t, Salidos)
  BY <1>1, <1>11 DEF Vista
<1>13. Interior' = Desde(t, Salidos + 1)
  <2>1. Con("comprobador")' = Con("comprobador") /\ Aceptados(c)' = t
    BY <1>1, <1>11, RutinaMisma
  <2>2. Interior' = Desde(Aceptados(c)', Salidos')
    BY <1>1, <2>1 DEF Vista
  <2>. QED
    BY <2>1, <2>2
<1>14. Entrada' = Entrada
  <2>1. Cual' = Cual
    BY <1>1, RutinaMisma, MismaCola
  <2>. QED
    BY <1>1, <2>1 DEF Entrada
<1>. QED
  BY <1>10, <1>12, <1>13, <1>14, DesdeCabeza

LEMMA CanalFuera ==
  ASSUME Dos, Bien, Bien', NEW p \in Monitores, PostEmpty(p) \/ Imprimir(p)
  PROVE  [Canal3!Paso]_(Canal3!canal)
<1>1. Tipo /\ Vista /\ Vista' /\ Salida
  BY DEF Bien, Reparte, Cuentas, Dueto
<1>2. /\ Rutina /\ p \in Con("monitor") /\ \A y \in Monitores \ {p} : proc'[y] = proc[y]
      /\ Con("monitor")' = Con("monitor")
  BY <1>1, SaleRutina, RutinaMisma
<1>3. /\ Impresos = impresos[p] /\ (Cerrado <=> proc[p].pc = "exit")
      /\ Impresos' = impresos'[p] /\ (Cerrado' <=> proc'[p].pc = "exit")
      /\ impresos[p] \in Seq(Dato) /\ proc[p].dato \in Dato /\ Len(impresos[p]) \in Nat
  <2>1. Impresos = impresos[p] /\ (Cerrado <=> proc[p].pc = "exit")
    BY <1>1, <1>2 DEF Vista
  <2>2. Impresos' = impresos'[p] /\ (Cerrado' <=> proc'[p].pc = "exit")
    BY <1>1, <1>2 DEF Vista
  <2>3. impresos[p] \in Seq(Dato) /\ proc[p] \in Proceso
    BY <1>1 DEF Tipo, TypeOK
  <2>4. proc[p].dato \in Dato
    BY <2>3 DEF Proceso
  <2>. QED
    BY <2>1, <2>2, <2>3, <2>4, LenProperties
<1>4. CASE PostEmpty(p) /\ proc[p].pc = "post_empty" /\ impresos' = impresos /\ ~proc[p].dato.fin
  <2>1. proc'[p].pc # "exit"
    BY <1>1, <1>4, SaleRutina
  <2>2. Callada
    BY <1>2, <1>4, <2>1 DEF Callada
  <2>. QED
    BY <1>2, <2>2, CanalRutina
<1>5. CASE PostEmpty(p) /\ proc[p].pc = "post_empty" /\ impresos' = impresos /\ proc[p].dato.fin
  <2>1. proc'[p].pc = "exit"
    BY <1>1, <1>5, SaleRutina
  <2>2. ~Cerrado /\ Cerrado' /\ Impresos' = Impresos
    BY <1>3, <1>5, <2>1
  <2>3. Salidos' = Salidos + 1
    BY <1>3, <2>2 DEF Salidos
  <2>4. /\ Interior # <<>> /\ Head(Interior) = proc[p].dato /\ Interior' = Tail(Interior)
        /\ Entrada' = Entrada
    BY <1>2, <1>5, <2>3, CanalSale
  <2>5. Canal3!Cerrar
    BY <1>5, <2>2, <2>4 DEF Canal3!Cerrar, Cerrado
  <2>. QED
    BY <2>5 DEF Canal3!Paso
<1>6. CASE /\ Imprimir(p) /\ proc[p].pc = "imprimir" /\ proc'[p].pc = "fill"
           /\ impresos' = [impresos EXCEPT ![p] = Append(impresos[p], proc[p].dato)]
  <2>1. impresos'[p] = Append(impresos[p], proc[p].dato)
    BY <1>1, <1>6 DEF Tipo, TypeOK
  <2>2. ~Cerrado /\ ~Cerrado' /\ Impresos' = Append(Impresos, proc[p].dato)
    BY <1>3, <1>6, <2>1
  <2>3. Salidos' = Salidos + 1
    <3>1. Len(Append(impresos[p], proc[p].dato)) = Len(impresos[p]) + 1
      BY <1>3, AppendProperties
    <3>. QED
      BY <1>3, <2>1, <2>2, <3>1 DEF Salidos
  <2>4. /\ Interior # <<>> /\ Head(Interior) = proc[p].dato /\ Interior' = Tail(Interior)
        /\ Entrada' = Entrada
    BY <1>2, <1>6, <2>3, CanalSale
  <2>5. ~proc[p].dato.fin
    BY <1>1, <1>2, <1>6 DEF Salida
  <2>6. Cerrado' = Cerrado
    BY <2>2 DEF Cerrado
  <2>7. Canal3!Imprimir
    BY <2>2, <2>4, <2>5, <2>6 DEF Canal3!Imprimir
  <2>. QED
    BY <2>7 DEF Canal3!Paso
<1>. QED
  BY <1>1, <1>4, <1>5, <1>6, SaleRutina

(* Steps that give a program a role, a queue or a place leave the channel   *)
(* as it was.                                                               *)
LEMMA ShmCreaCanal ==
  ASSUME Dos, Bien, Bien', NEW p \in Monitores, ShmCrea(p)
  PROVE  UNCHANGED Canal3!canal
<1>1. Cuentas /\ Dueto /\ Vista /\ Vista' /\ Tipo /\ Tipo'
  BY DEF Bien, Reparte, Cuentas
<1>2. /\ Con("comprobador") = {} /\ proc'[p].rol = "comprobador" /\ proc'[p].queue = Nadie
      /\ proc'[p].pc = "ftruncate" /\ puestos[p] = <<>>
      /\ \A y \in Monitores \ {p} : proc'[y] = proc[y]
  BY <1>1, ShmCreaDueto
<1>3. MQ_NAME' = MQ_NAME /\ cola' = cola /\ puestos' = puestos
  BY DEF ShmCrea, historia
<1>4. Interior = <<>> /\ Cual = MQ_NAME /\ Impresos = <<>> /\ ~Cerrado /\ Con("monitor") = {}
  BY <1>1, <1>2 DEF Vista
<1>5. p \in Con("comprobador")' /\ Con("monitor")' = {}
  BY <1>2, <1>4 DEF Con
<1>6. Impresos' = <<>> /\ ~Cerrado'
  BY <1>1, <1>5 DEF Vista
<1>7. Cual' = MQ_NAME
  BY <1>1, <1>2, <1>3, <1>5 DEF Vista
<1>8. Aceptados(p)' = <<>>
  <2>1. ManoComprobador(p)' = <<>> /\ puestos'[p] = <<>>
    BY <1>2, <1>3 DEF ManoComprobador
  <2>2. <<>> \o <<>> = <<>>
    OBVIOUS
  <2>. QED
    BY <2>1, <2>2 DEF Aceptados
<1>9. Interior' = <<>>
  <2>1. Interior' = Desde(Aceptados(p)', Salidos') /\ Salidos' \in 0 .. Len(puestos'[p])
    BY <1>1, <1>5 DEF Vista
  <2>2. Len(<<>>) = 0
    OBVIOUS
  <2>3. Salidos' = 0
    BY <1>2, <1>3, <2>1, <2>2
  <2>4. Desde(<<>>, 0) = <<>>
    <3>1. Len(<<>>) - 0 = 0 /\ <<>> \in Seq(Dato) /\ 0 \in 0 .. Len(<<>>)
      BY <2>2
    <3>2. Desde(<<>>, 0) \in Seq(Dato) /\ Len(Desde(<<>>, 0)) = 0
      BY <3>1, DesdeEs
    <3>. QED
      BY <3>2, EmptySeq
  <2>. QED
    BY <1>8, <2>1, <2>3, <2>4
<1>. QED
  BY <1>3, <1>4, <1>6, <1>7, <1>9, CanalQuieto

LEMMA ShmAbreCanal ==
  ASSUME Dos, Bien, Bien', NEW p \in Monitores, ShmAbre(p)
  PROVE  UNCHANGED Canal3!canal
<1>1. Tipo /\ Callados /\ Vista /\ Vista'
  BY DEF Bien, Reparte, Cuentas, Turnarse
<1>2. /\ proc[p].rol = "" /\ \A y \in Monitores \ {p} : proc'[y] = proc[y]
      /\ \/ proc'[p].rol = ""
         \/ /\ proc'[p].rol = "monitor" /\ proc'[p].pc = "shm_unlink"
            /\ proc'[p].mem \in Monitores /\ proc[proc'[p].mem].rol = "comprobador"
  BY <1>1, ShmAbreTipo
<1>3. MQ_NAME' = MQ_NAME /\ cola' = cola /\ puestos' = puestos /\ impresos' = impresos
  BY DEF ShmAbre, nombres, historia
<1>4. Con("comprobador")' = Con("comprobador") /\ \A c \in Con("comprobador") : proc'[c] = proc[c]
  BY <1>2 DEF Con
<1>5. Cual' = Cual
  BY <1>1, <1>3, <1>4, MismaCola
<1>6. Impresos' = Impresos /\ (Cerrado' <=> Cerrado)
  <2>1. CASE proc'[p].rol = ""
    <3>1. Con("monitor")' = Con("monitor") /\ \A m \in Con("monitor") : proc'[m] = proc[m]
      BY <1>2, <2>1 DEF Con
    <3>. QED
      BY <1>1, <1>3, <3>1, MismaSalida
  <2>2. CASE proc'[p].rol = "monitor"
    <3>1. Con("monitor") = {}
      <4>. SUFFICES ASSUME NEW m \in Con("monitor") PROVE FALSE
        OBVIOUS
      <4>1. PICK c \in Monitores : proc[c].rol = "comprobador"
        BY <1>2, <2>2
      <4>2. m \in Monitores /\ c # p /\ m # p /\ c # m
        BY <1>2, <4>1 DEF Con
      <4>. QED
        BY <4>2 DEF Dos
    <3>2. p \in Con("monitor")' /\ impresos'[p] = <<>> /\ proc'[p].pc # "exit"
      BY <1>1, <1>2, <1>3, <2>2 DEF Con, Callados
    <3>3. Impresos = <<>> /\ ~Cerrado
      BY <1>1, <3>1 DEF Vista
    <3>4. Impresos' = <<>> /\ ~Cerrado'
      BY <1>1, <3>2 DEF Vista
    <3>. QED
      BY <3>3, <3>4
  <2>. QED
    BY <1>2, <2>1, <2>2
<1>7. \A c \in Con("comprobador") : Aceptados(c)' = Aceptados(c)
  BY <1>3, <1>4 DEF Aceptados, ManoComprobador
<1>8. Interior' = Interior
  BY <1>1, <1>4, <1>6, <1>7, MismoInterior
<1>. QED
  BY <1>3, <1>5, <1>6, <1>8, CanalQuieto

(* A step of the comprobador alone lets nothing out.                        *)
LEMMA SoloComprobador ==
  ASSUME Vista, Vista', NEW p \in Monitores, proc[p].rol = "comprobador", proc'[p].rol = "comprobador",
         \A y \in Monitores \ {p} : proc'[y] = proc[y], impresos' = impresos
  PROVE  /\ Con("comprobador")' = Con("comprobador") /\ Con("monitor")' = Con("monitor")
         /\ p \in Con("comprobador") /\ Impresos' = Impresos /\ (Cerrado' <=> Cerrado)
         /\ Salidos' = Salidos
<1>1. /\ Con("comprobador")' = Con("comprobador") /\ Con("monitor")' = Con("monitor")
      /\ p \in Con("comprobador") /\ \A m \in Con("monitor") : proc'[m] = proc[m]
  BY DEF Con
<1>2. Impresos' = Impresos /\ (Cerrado' <=> Cerrado)
  BY <1>1, MismaSalida
<1>3. Salidos' = Salidos
  <2>1. CASE Cerrado
    BY <1>2, <2>1 DEF Salidos
  <2>2. CASE ~Cerrado
    BY <1>2, <2>2 DEF Salidos
  <2>. QED
    BY <2>1, <2>2
<1>. QED
  BY <1>1, <1>2, <1>3

LEMMA MqAbreCanal ==
  ASSUME Dos, Bien, Bien', NEW p \in Monitores, MqAbre(p)
  PROVE  UNCHANGED Canal3!canal
<1>1. Tipo /\ Dueto /\ Vista /\ Vista' /\ Pareja
  BY DEF Bien, Reparte, Cuentas, Dueto
<1>2. /\ proc[p].rol = "comprobador" /\ proc'[p].rol = "comprobador"
      /\ proc[p].queue = Nadie /\ proc'[p].queue = MQ_NAME
      /\ ~LlevaBloque(proc[p]) /\ ~LlevaBloque(proc'[p])
      /\ \A y \in Monitores \ {p} : proc'[y] = proc[y]
  BY <1>1, MqAbreDueto
<1>3. MQ_NAME' = MQ_NAME /\ cola' = cola /\ puestos' = puestos /\ impresos' = impresos
  BY DEF MqAbre, nombres, historia
<1>4. /\ Con("comprobador")' = Con("comprobador") /\ p \in Con("comprobador")
      /\ Impresos' = Impresos /\ (Cerrado' <=> Cerrado)
  BY <1>1, <1>2, <1>3, SoloComprobador
<1>5. Cual = MQ_NAME /\ Cual' = MQ_NAME
  BY <1>1, <1>2, <1>3, <1>4 DEF Vista
<1>6. ASSUME NEW c \in Con("comprobador") PROVE Aceptados(c)' = Aceptados(c)
  <2>1. c = p
    BY <1>1, <1>4 DEF Pareja
  <2>2. ManoComprobador(p) = <<>> /\ ManoComprobador(p)' = <<>>
    BY <1>2 DEF ManoComprobador, LlevaBloque
  <2>. QED
    BY <1>3, <2>1, <2>2 DEF Aceptados
<1>7. Interior' = Interior
  BY <1>1, <1>4, <1>6, MismoInterior
<1>. QED
  BY <1>3, <1>4, <1>5, <1>7, CanalQuieto

LEMMA RearCanal ==
  ASSUME Dos, Bien, Bien', NEW p \in Monitores, Rear(p)
  PROVE  UNCHANGED Canal3!canal
<1>1. Tipo /\ Dueto /\ Vista /\ Vista' /\ Pareja
  BY DEF Bien, Reparte, Cuentas, Dueto
<1>2. /\ proc[p].rol = "comprobador" /\ proc'[p].rol = "comprobador"
      /\ proc[p].pc = "rear" /\ proc'[p].pc = "post_mutex" /\ proc'[p].queue = proc[p].queue
      /\ puestos' = [puestos EXCEPT ![p] = Append(puestos[p], proc[p].dato)]
      /\ \A y \in Monitores \ {p} : proc'[y] = proc[y]
  BY <1>1, RearDueto
<1>3. MQ_NAME' = MQ_NAME /\ cola' = cola /\ impresos' = impresos
  BY DEF Rear, nombres
<1>4. /\ Con("comprobador")' = Con("comprobador") /\ p \in Con("comprobador")
      /\ Impresos' = Impresos /\ (Cerrado' <=> Cerrado)
  BY <1>1, <1>2, <1>3, SoloComprobador
<1>5. \A c \in Con("comprobador") : c = p
  BY <1>1, <1>4 DEF Pareja
<1>6. Cual' = Cual
  BY <1>1, <1>2, <1>3, <1>4, <1>5, MismaCola
<1>7. Aceptados(p)' = Aceptados(p)
  <2>1. PICK s \in Seq(Dato), d \in Dato : s = puestos[p] /\ d = proc[p].dato
    <3>1. proc[p] \in Proceso /\ puestos[p] \in Seq(Dato)
      BY <1>1 DEF Tipo, TypeOK
    <3>2. proc[p].dato \in Dato
      BY <3>1 DEF Proceso
    <3>. QED
      BY <3>1, <3>2
  <2>2. puestos'[p] = Append(s, d)
    BY <1>1, <1>2, <2>1 DEF Tipo, TypeOK
  <2>3. ManoComprobador(p) = <<d>> /\ ManoComprobador(p)' = <<>>
    BY <1>2, <2>1 DEF ManoComprobador
  <2>4. Append(s, d) \in Seq(Dato) /\ Append(s, d) = s \o <<d>>
    BY AppendProperties, AppendIsConcat
  <2>5. Append(s, d) \o <<>> = Append(s, d)
    BY <2>4, ConcatEmptySeq
  <2>. QED
    BY <2>1, <2>2, <2>3, <2>4, <2>5 DEF Aceptados
<1>8. Interior' = Interior
  BY <1>1, <1>4, <1>5, <1>7, MismoInterior
<1>. QED
  BY <1>3, <1>4, <1>6, <1>8, CanalQuieto

(* A block more than the ring holds may be with each of the two programs.   *)
LEMMA Cabe ==
  ASSUME Dos, Bien, NEW c \in Con("comprobador")
  PROVE  Len(puestos[c]) - Salidos <= BUFFER_SIZE + 1 /\ Len(puestos[c]) \in Nat
<1>1. /\ Tipo /\ Vacias /\ Duenos /\ Reparte /\ Pareja /\ Vista /\ c \in Monitores
  BY DEF Bien, Dueto, Reparte, Cuentas, Turnarse, Con
<1>2. /\ Len(turnos[c]) \in Nat /\ Len(puestos[c]) \in Nat /\ turnos[c] \in Seq(Monitores)
  BY <1>1, MemoriaDe
<1>3. EnAnillo(c) <= BUFFER_SIZE
  <2>1. /\ memoria[c].sem["empty"] \in Nat /\ Adelantado(c) \in {0, 1} /\ EnAnillo(c) \in Int
        /\ Cardinality(Devuelven(c)) \in Nat /\ Cuenta(c) <= BUFFER_SIZE
    BY <1>1, Tamanos DEF Semaforos, Vacias
  <2>. QED
    BY <2>1, P3Assumption DEF Cuenta
<1>4. Len(turnos[c]) <= Salidos + 1 /\ Salidos \in Nat
  <2>1. Salidos \in 0 .. Len(puestos[c])
    BY <1>1 DEF Vista
  <2>2. CASE Con("monitor") = {}
    <3>1. ASSUME Len(turnos[c]) # 0 PROVE FALSE
      <4>1. 1 \in 1 .. Len(turnos[c])
        BY <1>2, <3>1
      <4>2. turnos[c][1] \in Monitores /\ proc[turnos[c][1]].rol = "monitor"
        BY <1>1, <1>2, <4>1, ElementOfSeq DEF Duenos
      <4>. QED
        BY <2>2, <4>2 DEF Con
    <3>. QED
      BY <1>2, <2>1, <3>1
  <2>3. CASE Con("monitor") # {}
    <3>1. PICK m \in Con("monitor") : TRUE
      BY <2>3
    <3>2. m \in Monitores /\ proc[m].mem = c
      <4>1. m \in Monitores /\ proc[m].mem \in Con("comprobador")
        BY <1>1, Unicos
      <4>. QED
        BY <1>1, <4>1 DEF Pareja
    <3>3. Len(turnos[c]) = Len(impresos[m]) + 1 \/ Len(turnos[c]) = Len(impresos[m])
      BY <1>1, <3>2, EnMonitor
    <3>4. Len(impresos[m]) \in Nat /\ Impresos = impresos[m]
      BY <1>1, <3>2 DEF Vista, Tipo, TypeOK
    <3>5. Salidos = Len(impresos[m]) \/ Salidos = Len(impresos[m]) + 1
      <4>1. CASE Cerrado
        BY <3>4, <4>1 DEF Salidos
      <4>2. CASE ~Cerrado
        BY <3>4, <4>2 DEF Salidos
      <4>. QED
        BY <4>1, <4>2
    <3>. QED
      BY <1>2, <3>3, <3>4, <3>5
  <2>. QED
    BY <2>2, <2>3
<1>. QED
  BY <1>2, <1>3, <1>4, P3Assumption DEF EnAnillo

(* The comprobador takes the head of the queue.                             *)
LEMMA CanalAcepta ==
  ASSUME Dos, Bien, Bien', NEW p \in Monitores, MqReceive(p)
  PROVE  Canal3!Aceptar
<1>. DEFINE q == proc[p].queue
<1>1. /\ Tipo /\ Dueto /\ Reparte /\ Vista /\ Vista' /\ Pareja /\ SinFin /\ Salida
  BY DEF Bien, Reparte, Cuentas, Dueto
<1>2. /\ proc[p].rol = "comprobador" /\ proc'[p].rol = "comprobador"
      /\ proc[p].pc = "mq_receive" /\ proc'[p].pc = "empty" /\ q \in Mineros
      /\ proc'[p].queue = q /\ proc'[p].dato = Comprueba(Head(cola[q]))
      /\ \A y \in Monitores \ {p} : proc'[y] = proc[y]
  BY <1>1, MqReceiveDueto
<1>3. /\ cola[q] # <<>> /\ cola' = [cola EXCEPT ![q] = Tail(cola[q])] /\ cola'[q] = Tail(cola[q])
      /\ puestos' = puestos /\ impresos' = impresos
  BY <1>1, <1>2 DEF MqReceive, historia, Tipo, TypeOK
<1>4. /\ Con("comprobador")' = Con("comprobador") /\ p \in Con("comprobador")
      /\ Impresos' = Impresos /\ (Cerrado' <=> Cerrado) /\ Salidos' = Salidos
  BY <1>1, <1>2, <1>3, SoloComprobador
<1>5. Entrada = cola[q] /\ Entrada' = Tail(cola[q])
  <2>1. q # Nadie
    BY <1>2, P3Assumption
  <2>2. Cual = q /\ Cual' = q
    BY <1>1, <1>2, <1>4, <2>1 DEF Vista
  <2>. QED
    BY <1>3, <2>1, <2>2 DEF Entrada
<1>6. /\ Head(cola[q]) \in Dato /\ proc'[p].dato \in Dato
      /\ proc'[p].dato = [Head(cola[q]) EXCEPT !.correcto = Canal3!Resuelto(Head(cola[q]))]
  <2>1. cola[q] \in Seq(Dato)
    BY <1>1, <1>2 DEF Tipo, TypeOK
  <2>2. Head(cola[q]) \in Dato
    BY <1>3, <2>1, HeadTailProperties
  <2>3. Resuelto(Head(cola[q])) <=> Canal3!Resuelto(Head(cola[q]))
    BY DEF Resuelto, pow_hash, Resto, Canal3!Resuelto, Canal3!pow_hash, Canal3!Resto
  <2>4. Resuelto(Head(cola[q])) \in BOOLEAN
    BY DEF Resuelto
  <2>5. Resuelto(Head(cola[q])) = Canal3!Resuelto(Head(cola[q]))
    BY <2>3, <2>4 DEF Canal3!Resuelto
  <2>6. proc'[p].dato = [Head(cola[q]) EXCEPT !.correcto = Resuelto(Head(cola[q]))]
    BY <1>2 DEF Comprueba
  <2>7. proc'[p].dato \in Dato
    BY <2>2, <2>4, <2>6 DEF Dato
  <2>. QED
    BY <2>2, <2>5, <2>6, <2>7
<1>7. PICK s \in Seq(Dato), d \in Dato : s = puestos[p] /\ d = proc'[p].dato
  BY <1>1, <1>6 DEF Tipo, TypeOK
<1>8. Aceptados(p) = s /\ Aceptados(p)' = Append(s, d)
  <2>1. ManoComprobador(p) = <<>> /\ ManoComprobador(p)' = <<d>>
    BY <1>2, <1>7 DEF ManoComprobador
  <2>2. s \o <<>> = s /\ Append(s, d) = s \o <<d>>
    BY ConcatEmptySeq, AppendIsConcat
  <2>. QED
    BY <1>3, <1>7, <2>1, <2>2 DEF Aceptados
<1>9. PICK n \in 0 .. Len(s) : n = Salidos
  BY <1>1, <1>4, <1>7 DEF Vista
<1>10. Interior = Desde(s, n) /\ Interior' = Append(Interior, d)
  <2>1. Interior = Desde(s, n)
    BY <1>1, <1>4, <1>8, <1>9 DEF Vista
  <2>2. Interior' = Desde(Append(s, d), n)
    BY <1>1, <1>4, <1>8, <1>9 DEF Vista
  <2>. QED
    BY <2>1, <2>2, DesdeAppend
<1>11. \A k \in 1 .. Len(s) : ~s[k].fin
  BY <1>1, <1>2, <1>4, <1>7 DEF SinFin
<1>12. /\ Len(Interior) < BUFFER_SIZE + 2
       /\ \A i \in 1 .. Len(Interior) : ~Interior[i].fin
  <2>1. Len(Desde(s, n)) = Len(s) - n /\ \A k \in 1 .. Len(s) - n : Desde(s, n)[k] = s[n + k]
    BY DesdeEs
  <2>2. Len(s) - n <= BUFFER_SIZE + 1 /\ Len(s) \in Nat
    BY <1>4, <1>7, <1>9, Cabe
  <2>3. ASSUME NEW i \in 1 .. Len(s) - n PROVE ~s[n + i].fin
    <3>1. n + i \in 1 .. Len(s)
      BY <2>2
    <3>. QED
      BY <1>11, <3>1
  <2>. QED
    BY <1>10, <2>1, <2>2, <2>3, P3Assumption
<1>13. ~Cerrado
  <2>. SUFFICES ASSUME Cerrado PROVE FALSE
    OBVIOUS
  <2>1. PICK m \in Con("monitor") : proc[m].pc = "exit"
    BY DEF Cerrado
  <2>2. m \in Monitores /\ proc[m].mem = p
    <3>1. m \in Monitores /\ proc[m].mem \in Con("comprobador")
      BY <1>1, Unicos
    <3>. QED
      BY <1>1, <1>4, <3>1 DEF Pareja
  <2>3. Len(turnos[p]) = Len(impresos[m]) + 1 /\ proc[m].dato = s[Len(turnos[p])]
    BY <1>1, <1>7, <2>1, <2>2, EnMonitor DEF Mano
  <2>4. Len(turnos[p]) \in 1 .. Len(s)
    <3>1. Len(turnos[p]) \in 0 .. Len(s) /\ Len(impresos[m]) \in Nat /\ Len(s) \in Nat
      BY <1>1, <1>7, <2>2, AnilloEs DEF Tipo, TypeOK
    <3>. QED
      BY <2>3, <3>1
  <2>5. proc[m].dato.fin
    BY <1>1, <2>1 DEF Salida
  <2>. QED
    BY <1>11, <2>3, <2>4, <2>5
<1>14. Cerrado' = Cerrado
  BY <1>4, <1>13 DEF Cerrado
<1>. QED
  BY <1>3, <1>4, <1>5, <1>6, <1>7, <1>10, <1>12, <1>13, <1>14 DEF Canal3!Aceptar

(* A miner does nothing to the channel but add to its queue.                *)
LEMMA CanalMineros ==
  ASSUME Dos, Bien, Bien', NEW n \in Mineros, LanzaMinero(n) \/ Minero(n)
  PROVE  [Canal3!Paso]_(Canal3!canal)
<1>1. Tipo /\ Dueto /\ Vista /\ Vista' /\ Pareja
  BY DEF Bien, Reparte, Cuentas, Dueto
<1>2. /\ UNCHANGED <<proc, puestos, impresos, memoria, turnos>>
      /\ \/ MQ_NAME' = MQ_NAME /\ cola' = cola
         \/ MQ_NAME' = MQ_NAME
            /\ \E q \in Mineros, d \in Dato : cola' = [cola EXCEPT ![q] = Append(cola[q], d)]
         \/ MQ_NAME = Nadie /\ MQ_NAME' = n /\ cola' = cola /\ cola[n] = <<>>
  BY <1>1, MinerosDueto
<1>3. Con("comprobador")' = Con("comprobador") /\ Con("monitor")' = Con("monitor")
  BY <1>2 DEF Con
<1>4. Impresos' = Impresos /\ (Cerrado' <=> Cerrado)
  BY <1>1, <1>2, <1>3, MismaSalida
<1>5. Interior' = Interior
  <2>1. \A c \in Con("comprobador") : Aceptados(c)' = Aceptados(c)
    BY <1>2 DEF Aceptados, ManoComprobador
  <2>. QED
    BY <1>1, <1>3, <1>4, <2>1, MismoInterior
<1>6. ASSUME MQ_NAME' = MQ_NAME PROVE Cual' = Cual
  BY <1>1, <1>2, <1>3, <1>6, MismaCola
<1>7. CASE MQ_NAME' = MQ_NAME /\ cola' = cola
  BY <1>4, <1>5, <1>6, <1>7, CanalQuieto
<1>8. ASSUME MQ_NAME' = MQ_NAME, NEW q \in Mineros, NEW d \in Dato,
             cola' = [cola EXCEPT ![q] = Append(cola[q], d)]
      PROVE  [Canal3!Paso]_(Canal3!canal)
  <2>1. Cual' = Cual
    BY <1>6, <1>8
  <2>2. /\ cola'[q] = Append(cola[q], d) /\ \A y \in Mineros \ {q} : cola'[y] = cola[y]
        /\ cola[q] \in Seq(Dato)
    BY <1>1, <1>8 DEF Tipo, TypeOK
  <2>3. Cerrado' = Cerrado
    BY <1>4 DEF Cerrado
  <2>4. Cual = Nadie \/ Cual \in Mineros
    <3>1. MQ_NAME = Nadie \/ MQ_NAME \in Mineros
      BY <1>1 DEF Tipo, TypeOK, Objetos
    <3>2. CASE Con("comprobador") = {}
      BY <1>1, <3>1, <3>2 DEF Vista
    <3>3. CASE Con("comprobador") # {}
      <4>1. PICK c \in Con("comprobador") : TRUE
        BY <3>3
      <4>2. Cual = IF proc[c].queue = Nadie THEN MQ_NAME ELSE proc[c].queue
        BY <1>1 DEF Vista
      <4>3. proc[c] \in Proceso
        BY <1>1 DEF Con, Tipo, TypeOK
      <4>4. proc[c].queue = Nadie \/ proc[c].queue \in Mineros
        BY <4>3 DEF Proceso, Objetos
      <4>. QED
        BY <3>1, <4>2, <4>4
    <3>. QED
      BY <3>2, <3>3
  <2>5. CASE Cual = q
    <3>1. q # Nadie
      BY P3Assumption
    <3>2. Entrada = cola[q] /\ Entrada' = cola'[q]
      BY <2>1, <2>5, <3>1 DEF Entrada
    <3>3. Len(Entrada') = Len(Entrada) + 1 /\ SubSeq(Entrada', 1, Len(Entrada)) = Entrada
      BY <2>2, <3>2, EnviarEs
    <3>4. Canal3!Enviar
      BY <1>4, <1>5, <2>3, <3>3 DEF Canal3!Enviar
    <3>. QED
      BY <3>4 DEF Canal3!Paso
  <2>6. CASE Cual # q
    <3>1. Entrada' = Entrada
      BY <2>1, <2>2, <2>4, <2>6 DEF Entrada
    <3>. QED
      BY <1>4, <1>5, <2>3, <3>1 DEF Canal3!canal
  <2>. QED
    BY <2>5, <2>6
<1>9. CASE MQ_NAME = Nadie /\ MQ_NAME' = n /\ cola' = cola /\ cola[n] = <<>>
  <2>1. CASE \E c \in Con("comprobador") : proc[c].queue # Nadie
    <3>1. Cual' = Cual
      BY <1>1, <1>2, <1>3, <2>1, MismaCola
    <3>. QED
      BY <1>4, <1>5, <1>9, <3>1, CanalQuieto
  <2>2. CASE ~\E c \in Con("comprobador") : proc[c].queue # Nadie
    <3>1. Cual = Nadie /\ Cual' = n
      <4>1. CASE Con("comprobador") = {}
        BY <1>1, <1>3, <1>9, <4>1 DEF Vista
      <4>2. CASE Con("comprobador") # {}
        <5>1. PICK c \in Con("comprobador") : TRUE
          BY <4>2
        <5>2. Cual = MQ_NAME
          BY <1>1, <2>2 DEF Vista
        <5>3. Cual' = MQ_NAME'
          BY <1>1, <1>2, <1>3, <2>2, <5>1 DEF Vista
        <5>. QED
          BY <1>9, <5>2, <5>3
      <4>. QED
        BY <4>1, <4>2
    <3>2. Entrada = <<>> /\ Entrada' = <<>>
      BY <1>9, <3>1, P3Assumption DEF Entrada
    <3>3. Cerrado' = Cerrado
      BY <1>4 DEF Cerrado
    <3>. QED
      BY <1>4, <1>5, <3>2, <3>3 DEF Canal3!canal
  <2>. QED
    BY <2>1, <2>2
<1>. QED
  BY <1>2, <1>7, <1>8, <1>9

LEMMA CanalPaso ==
  ASSUME Dos, Bien, Bien', [Next]_vars
  PROVE  [Canal3!Paso]_(Canal3!canal)
<1>1. Tipo
  BY DEF Bien, Reparte, Cuentas
<1>2. CASE UNCHANGED vars
  <2>1. Rutina /\ Callada
    BY <1>2, RutinaIgual DEF vars, nombres, historia, Callada
  <2>. QED
    BY <2>1, CanalRutina
<1>3. ASSUME NEW p \in Monitores, LanzaMonitor(p) \/ PasoMonitor(p) \/ Falla(p)
      PROVE  [Canal3!Paso]_(Canal3!canal)
  <2>1. CASE Rutina /\ Callada
    BY <2>1, CanalRutina
  <2>2. CASE PostEmpty(p) \/ Imprimir(p)
    BY <2>2, CanalFuera
  <2>3. CASE ShmCrea(p) \/ ShmAbre(p) \/ MqAbre(p) \/ Rear(p)
    <3>1. UNCHANGED Canal3!canal
      BY <2>3, ShmCreaCanal, ShmAbreCanal, MqAbreCanal, RearCanal
    <3>. QED
      BY <3>1
  <2>4. CASE MqReceive(p)
    <3>1. Canal3!Aceptar
      BY <2>4, CanalAcepta
    <3>. QED
      BY <3>1 DEF Canal3!Paso
  <2>. QED
    BY <1>1, <1>3, <2>1, <2>2, <2>3, <2>4, PasosMonitor
<1>4. ASSUME NEW n \in Mineros, LanzaMinero(n) \/ Minero(n)
      PROVE  [Canal3!Paso]_(Canal3!canal)
  BY <1>4, CanalMineros
<1>5. ASSUME NEW x \in Monitores \cup Mineros, Mata(x)
      PROVE  [Canal3!Paso]_(Canal3!canal)
  <2>1. Rutina /\ Callada
    BY <1>5, RutinaIgual DEF Mata, nombres, historia, Callada
  <2>. QED
    BY <2>1, CanalRutina
<1>. QED
  BY <1>2, <1>3, <1>4, <1>5 DEF Next

LEMMA DosMonitores == Cardinality(Monitores) <= 2 => Dos
<1>. SUFFICES ASSUME Cardinality(Monitores) <= 2, NEW p \in Monitores, NEW q \in Monitores,
                     NEW r \in Monitores, p # q, p # r, q # r
              PROVE  FALSE
  BY DEF Dos
<1>1. IsFiniteSet({p}) /\ Cardinality({p}) = 1
  BY FS_Singleton
<1>2. IsFiniteSet({p} \cup {q}) /\ Cardinality({p} \cup {q}) = 2
  BY <1>1, FS_AddElement
<1>3. IsFiniteSet(({p} \cup {q}) \cup {r}) /\ Cardinality(({p} \cup {q}) \cup {r}) = 3
  BY <1>2, FS_AddElement
<1>4. ({p} \cup {q}) \cup {r} \in SUBSET Monitores
  OBVIOUS
<1>5. 3 <= Cardinality(Monitores) /\ Cardinality(Monitores) \in Nat
  BY <1>3, <1>4, P3Assumption, FS_Subset, FS_CardinalityType
<1>. QED
  BY <1>5

LEMMA CanalInicial == Init => Canal3!Inicial
<1>. SUFFICES ASSUME Init PROVE Canal3!Inicial
  OBVIOUS
<1>1. Con("comprobador") = {} /\ Con("monitor") = {} /\ MQ_NAME = Nadie
  BY DEF Init, Con
<1>2. Impresos = <<>> /\ Cerrado = FALSE
  BY <1>1 DEF Impresos, Cerrado
<1>3. Interior = <<>>
  <2>1. <<>> \o <<>> = <<>>
    OBVIOUS
  <2>. QED
    BY <1>1, <2>1 DEF Interior
<1>4. Entrada = <<>>
  <2>1. {proc[p].queue : p \in Con("comprobador")} \ {Nadie} = {}
    BY <1>1
  <2>2. Cual = Nadie
    BY <1>1, <2>1 DEF Cual
  <2>. QED
    BY <2>2 DEF Entrada
<1>. QED
  BY <1>2, <1>3, <1>4 DEF Canal3!Inicial

(* Two launches of the monitor program, with however many miners, implement *)
(* the bounded FIFO channel of module Canal: no race of initialisation, lost*)
(* wake-up, killed program or second miner makes a block be passed over,    *)
(* overtaken, printed twice or falsified between the queue and the screen.  *)
THEOREM CanalDeDos == Spec /\ Cardinality(Monitores) <= 2 => ImplementaCanal
<1>1. Init => Reparte /\ Dueto
  BY ReparteInicial, DuetoInicial
<1>2. Dos /\ Reparte /\ Dueto /\ [Next]_vars => Dos' /\ Reparte' /\ Dueto'
  <2>. SUFFICES ASSUME Dos, Reparte, Dueto, [Next]_vars PROVE Dos' /\ Reparte' /\ Dueto'
    OBVIOUS
  <2>1. Reparte'
    BY RepartePaso
  <2>2. Dueto'
    BY <2>1, DuetoPaso DEF Reparte, Cuentas
  <2>3. Dos'
    BY DEF Dos
  <2>. QED
    BY <2>1, <2>2, <2>3
<1>3. Dos /\ Reparte /\ Dueto => Bien
  BY VistaSiempre DEF Dueto, Bien
<1>4. Dos /\ Bien /\ Bien' /\ [Next]_vars => [Canal3!Paso]_(Canal3!canal)
  BY CanalPaso
<1>. QED
  BY <1>1, <1>2, <1>3, <1>4, DosMonitores, CanalInicial, PTL DEF Spec, ImplementaCanal, Canal3!Segura
=============================================================================
