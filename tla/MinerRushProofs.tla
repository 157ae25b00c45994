-------------------------- MODULE MinerRushProofs --------------------------
(***************************************************************************)
(* Proofs about module MinerRush: the two programs together, put together  *)
(* from what modules MineroProofs and MonitorProofs prove of each.         *)
(***************************************************************************)
EXTENDS MinerRush, SequenceTheorems, TLAPS

-----------------------------------------------------------------------------
(* The miner program sees of the monitor program what Minero expects.       *)

SinCola == {"sigint", "sigalrm", "mq_open"}
SinAbrir == {"sigaction", "mmap", "mq_open", "abortado", "muerto"}

(* Minero's reader takes nothing before it has unlinked the name: that is so*)
(* because the miner program links it once.                                 *)
Nombre ==
  /\ pcMin \in SinCola => ~mqNombre
  /\ pcC \notin SinAbrir => ~mqNombre /\ pcMin \notin SinCola

LEMMA PasoMinero ==
  ASSUME Min!Programa \/ Min!Sigint
  PROVE  /\ pcMin' \in SinCola => pcMin \in SinCola /\ UNCHANGED mqNombre
         /\ mqNombre' => mqNombre \/ pcMin \in SinCola
<1> USE DEF SinCola, Min!nombres, Min!Pasa, Min!RPasa
<1>1. CASE Min!Principal
  BY <1>1 DEF Min!Principal, Min!SigactionInt, Min!SigactionAlrm, Min!MqOpen, Min!MqExiste,
     Min!MqError, Min!ShmOpen, Min!ShmExiste, Min!ShmError, Min!Ftruncate,
     Min!FtruncateError, Min!Inicio, Min!InicioSigsegv, Min!Bucle,
     Min!FinBucle, Min!Minar, Min!Write, Min!WriteSigpipe, Min!Getattr, Min!MqSend,
     Min!Siguiente, Min!FinGetattr, Min!FinSend, Min!ShmUnlink, Min!MqUnlink, Min!Wait, Min!Salida
<1>2. CASE Min!Registrador \/ Min!Alarma \/ Min!Sigint
  BY <1>2 DEF Min!Registrador, Min!R_Open, Min!R_OpenFalla, Min!R_Read, Min!R_Eof,
     Min!R_Dprintf, Min!Alarma, Min!Sigint
<1>3. CASE Min!Entrega
  <2>1. CASE Min!SigintRegistrador
    BY <2>1 DEF Min!SigintRegistrador
  <2>2. CASE Min!SenalMata \/ Min!SenalSimple \/ Min!EintrWrite \/ Min!EintrWait
    BY <2>2 DEF Min!SenalMata, Min!SenalSimple, Min!EintrWrite, Min!EintrWait, Min!catcher,
       Min!Salida
  <2>. QED
    BY <1>3, <2>1, <2>2 DEF Min!Entrega
<1>. QED
  BY <1>1, <1>2, <1>3 DEF Min!Programa

LEMMA PasoMonitor ==
  ASSUME Mon!Programa \/ Mon!Sigint
  PROVE  \/ UNCHANGED <<mq, mqNombre>> /\ (pcC' \notin SinAbrir => pcC \notin SinAbrir)
         \/ UNCHANGED mq /\ mqNombre /\ mqNombre' = FALSE
         \/ pcC \notin SinAbrir /\ mq # <<>> /\ mq' = Tail(mq) /\ UNCHANGED mqNombre
<1> USE DEF SinAbrir, Mon!cola, Mon!compr, Mon!CPasa, Mon!MPasa
<1>1. CASE Mon!Comprobador
  BY <1>1 DEF Mon!Comprobador, Mon!C_Sigaction, Mon!C_Mmap, Mon!C_MmapFalla, Mon!C_MqOpen,
     Mon!C_SinCola, Mon!C_MqReceive, Mon!C_Comprobar, Mon!C_WaitEmpty, Mon!C_WaitMutex,
     Mon!C_Anadir, Mon!C_AnadirFin, Mon!C_PostMutex, Mon!C_PostFill, Mon!C_Wait
<1>2. CASE Mon!MonitorHijo \/ Mon!Sigint
  BY <1>2 DEF Mon!MonitorHijo, Mon!M_Mmap, Mon!M_MmapFalla, Mon!M_WaitFill, Mon!M_WaitMutex,
     Mon!M_Extraer, Mon!M_ExtraerFin, Mon!M_PostMutex, Mon!M_PostEmpty, Mon!M_Imprimir, Mon!Sigint
<1>3. CASE Mon!Entrega
  BY <1>3 DEF Mon!Entrega, Mon!SigintMonitor, Mon!SigintSinManejador, Mon!SigintSimple,
     Mon!EintrReceive, Mon!EintrEmpty, Mon!EintrMutex, Mon!EintrWait, Mon!catcher, Mon!TerminadoC
<1>. QED
  BY <1>1, <1>2, <1>3 DEF Mon!Programa

LEMMA NombreInicial == Init => Nombre
  BY DEF Init, Min!Init, Mon!Init, Nombre, SinCola, SinAbrir

LEMMA NombreSigue == Nombre /\ [Next]_vars => Nombre'
<1>. SUFFICES ASSUME Nombre, [Next]_vars PROVE Nombre'
  OBVIOUS
<1>1. CASE UNCHANGED vars
  BY <1>1 DEF vars, minero, monitor, Nombre
<1>2. CASE (Min!Programa \/ Min!Sigint) /\ UNCHANGED monitor
  <2>1. UNCHANGED pcC
    BY <1>2 DEF monitor
  <2>2. (mqNombre' => mqNombre \/ pcMin \in SinCola) /\ (UNCHANGED mqNombre => (mqNombre' => mqNombre))
    BY <1>2, PasoMinero
  <2>. QED
    BY <1>2, <2>1, <2>2, PasoMinero, Zenon DEF Nombre
<1>3. CASE (Mon!Programa \/ Mon!Sigint) /\ UNCHANGED minero
  <2>1. UNCHANGED pcMin
    BY <1>3 DEF minero
  <2>2. \/ (mqNombre' <=> mqNombre) /\ (pcC' \notin SinAbrir => pcC \notin SinAbrir)
        \/ mqNombre /\ ~mqNombre'
        \/ pcC \notin SinAbrir /\ (mqNombre' <=> mqNombre)
    <3>1. UNCHANGED mqNombre => (mqNombre' <=> mqNombre)
      OBVIOUS
    <3>2. mqNombre' = FALSE => ~mqNombre'
      OBVIOUS
    <3>. QED
      BY <1>3, <3>1, <3>2, PasoMonitor, Zenon
  <2>. QED
    BY <2>1, <2>2, Zenon DEF Nombre
<1>. QED
  BY <1>1, <1>2, <1>3 DEF Next, ProgramaMinero, ProgramaMonitor, Sigint

LEMMA PasoDeMinero ==
  ASSUME Nombre, [Next]_vars
  PROVE  [Min!Next]_(Min!vars)
<1> USE DEF Min!Next
<1>1. CASE UNCHANGED vars
  BY <1>1 DEF vars, minero, Min!vars, Min!local, Min!regist, Min!nombres, Min!banderas,
              Min!senales, Min!historia
<1>2. CASE Min!Programa \/ Min!Sigint
  BY <1>2
<1>3. CASE (Mon!Programa \/ Mon!Sigint) /\ UNCHANGED minero
  <2>1. /\ UNCHANGED <<pcMin, shmNombre, curmsgs, tuberia, escritura>>
        /\ UNCHANGED Min!local /\ UNCHANGED Min!regist /\ UNCHANGED Min!banderas
        /\ UNCHANGED Min!senales /\ UNCHANGED Min!historia
    BY <1>3 DEF minero, Min!local, Min!regist, Min!banderas, Min!senales, Min!historia
  <2>2. CASE UNCHANGED <<mq, mqNombre>>
    BY <2>1, <2>2 DEF Min!vars, Min!nombres
  <2>3. CASE UNCHANGED mq /\ mqNombre /\ mqNombre' = FALSE
    BY <2>1, <2>3 DEF Min!ConsumidorAbre
  <2>4. CASE pcC \notin SinAbrir /\ mq # <<>> /\ mq' = Tail(mq) /\ UNCHANGED mqNombre
    <3>1. ~mqNombre
      BY <2>4 DEF Nombre
    <3>2. Min!ConsumidorRecibe
      BY <2>1, <2>4, <3>1 DEF Min!ConsumidorRecibe, Min!nombres
    <3>. QED
      BY <3>2
  <2>. QED
    BY <1>3, <2>2, <2>3, <2>4, PasoMonitor
<1>. QED
  BY <1>1, <1>2, <1>3 DEF Next, ProgramaMinero, ProgramaMonitor, Sigint

(* Whatever the monitor program does, the miner program behaves as Minero   *)
(* says, which leaves the other end of the queue free.                      *)
THEOREM MineroImplementado == Spec => ImplementaMinero
<1>1. Init => Min!Init
  BY DEF Init
<1>2. Nombre /\ [Next]_vars => [Min!Next]_(Min!vars)
  BY PasoDeMinero
<1>. QED
  BY <1>1, <1>2, NombreInicial, NombreSigue, PTL DEF Spec, ImplementaMinero

-----------------------------------------------------------------------------
(* What the proofs of each program say here.  PMin and PMon repeat, with the*)
(* same substitutions, what Min and Mon are in MinerRush.                   *)

PMin == INSTANCE MineroProofs WITH
          sint <- sintMin, enviadasSig <- enviadasMin, Destinos <- DestinosMinero,
          MqInicial <- {FALSE}, ShmInicial <- {FALSE}

PMon == INSTANCE MonitorProofs WITH
          sint <- sintC, enviadasSig <- enviadasC, Destinos <- DestinosMonitor,
          ColaCreada <- {FALSE}, Pares <- {}, NumBloques <- 0,
          MineroCae <- FALSE, enviados <- 0, fuente <- "viva"

LEMMA MineroEs == [Min!Next]_(Min!vars) => [PMin!Next]_(PMin!vars)
<1> USE DEF Min!Pasa, PMin!Pasa, Min!RPasa, PMin!RPasa, Min!TerminadoMin,
            PMin!TerminadoMin, Min!TerminadoReg, PMin!TerminadoReg, Min!local,
            PMin!local, Min!regist, PMin!regist, Min!nombres, PMin!nombres,
            Min!banderas, PMin!banderas, Min!senales, PMin!senales, Min!historia,
            PMin!historia
<1>1. /\ Min!SigactionInt => PMin!SigactionInt
      /\ Min!SigactionAlrm => PMin!SigactionAlrm
      /\ Min!MqOpen => PMin!MqOpen
      /\ Min!MqExiste => PMin!MqExiste
      /\ Min!MqError => PMin!MqError
      /\ Min!ShmOpen => PMin!ShmOpen
      /\ Min!ShmExiste => PMin!ShmExiste
      /\ Min!ShmError => PMin!ShmError
      /\ Min!InicioSigsegv => PMin!InicioSigsegv
      /\ Min!Ftruncate => PMin!Ftruncate
      /\ Min!FtruncateError => PMin!FtruncateError
  BY DEF Min!SigactionInt, PMin!SigactionInt, Min!SigactionAlrm, PMin!SigactionAlrm,
         Min!MqOpen, PMin!MqOpen, Min!MqExiste, PMin!MqExiste, Min!MqError,
         PMin!MqError, Min!ShmOpen, PMin!ShmOpen, Min!ShmExiste, PMin!ShmExiste,
         Min!ShmError, PMin!ShmError, Min!InicioSigsegv, PMin!InicioSigsegv,
         Min!Ftruncate, PMin!Ftruncate,
         Min!FtruncateError, PMin!FtruncateError
<1>2. /\ Min!Inicio => PMin!Inicio
      /\ Min!Bucle => PMin!Bucle
      /\ Min!FinBucle => PMin!FinBucle
      /\ Min!Minar => PMin!Minar
  BY DEF Min!Inicio, PMin!Inicio, Min!Bucle, PMin!Bucle, Min!FinBucle, PMin!FinBucle,
         Min!Minar, PMin!Minar, Min!BloqueUltimo, PMin!BloqueUltimo, Min!BloqueInicial,
         PMin!BloqueInicial, Min!Minado, PMin!Minado, Min!Voto, PMin!Voto,
         Min!VotosBastan, PMin!VotosBastan, Min!manage_threads, PMin!manage_threads,
         Min!EXIT_FAILURE, PMin!EXIT_FAILURE, Min!pow_hash, PMin!pow_hash, Min!Resto,
         PMin!Resto
<1>3. /\ Min!Write => PMin!Write
      /\ Min!WriteSigpipe => PMin!WriteSigpipe
      /\ Min!Getattr => PMin!Getattr
      /\ Min!MqSend => PMin!MqSend
      /\ Min!Siguiente => PMin!Siguiente
      /\ Min!FinGetattr => PMin!FinGetattr
      /\ Min!FinSend => PMin!FinSend
      /\ Min!ShmUnlink => PMin!ShmUnlink
      /\ Min!MqUnlink => PMin!MqUnlink
      /\ Min!Wait => PMin!Wait
  BY DEF Min!Write, PMin!Write, Min!WriteSigpipe, PMin!WriteSigpipe, Min!Getattr,
         PMin!Getattr, Min!MqSend, PMin!MqSend, Min!Siguiente, PMin!Siguiente,
         Min!FinGetattr, PMin!FinGetattr, Min!FinSend, PMin!FinSend, Min!ShmUnlink,
         PMin!ShmUnlink, Min!MqUnlink, PMin!MqUnlink, Min!Wait, PMin!Wait,
         Min!BloqueFin, PMin!BloqueFin, Min!BloqueInicial, PMin!BloqueInicial,
         Min!Salida, PMin!Salida
<1>4. /\ Min!R_Open => PMin!R_Open
      /\ Min!R_OpenFalla => PMin!R_OpenFalla
      /\ Min!R_Read => PMin!R_Read
      /\ Min!R_Eof => PMin!R_Eof
      /\ Min!R_Dprintf => PMin!R_Dprintf
      /\ Min!Alarma => PMin!Alarma
      /\ Min!Sigint => PMin!Sigint
      /\ Min!ConsumidorAbre => PMin!ConsumidorAbre
      /\ Min!ConsumidorRecibe => PMin!ConsumidorRecibe
  BY DEF Min!R_Open, PMin!R_Open, Min!R_OpenFalla, PMin!R_OpenFalla, Min!R_Read,
         PMin!R_Read, Min!R_Eof, PMin!R_Eof, Min!R_Dprintf, PMin!R_Dprintf, Min!Alarma,
         PMin!Alarma, Min!Sigint, PMin!Sigint, Min!ConsumidorAbre, PMin!ConsumidorAbre,
         Min!ConsumidorRecibe, PMin!ConsumidorRecibe
<1>5. /\ Min!SigintRegistrador => PMin!SigintRegistrador
      /\ Min!SenalMata => PMin!SenalMata
      /\ Min!SenalSimple => PMin!SenalSimple
      /\ Min!EintrWrite => PMin!EintrWrite
      /\ Min!EintrWait => PMin!EintrWait
  BY DEF Min!SigintRegistrador, PMin!SigintRegistrador, Min!SenalMata, PMin!SenalMata,
         Min!SenalSimple, PMin!SenalSimple, Min!EintrWrite, PMin!EintrWrite,
         Min!EintrWait, PMin!EintrWait, Min!catcher, PMin!catcher, Min!Salida,
         PMin!Salida, Min!SinManejador, PMin!SinManejador
<1>. QED
  BY <1>1, <1>2, <1>3, <1>4, <1>5 DEF Min!Next, PMin!Next, Min!Programa, PMin!Programa, Min!Principal, PMin!Principal,
     Min!Registrador, PMin!Registrador, Min!Entrega, PMin!Entrega, Min!Parado,
     PMin!Parado, Min!vars, PMin!vars

LEMMA MonitorEs == Mon!Programa \/ Mon!Sigint => PMon!Programa \/ PMon!Sigint
<1> USE DEF Mon!CPasa, PMon!CPasa, Mon!MPasa, PMon!MPasa, Mon!TerminadoC,
            PMon!TerminadoC, Mon!TerminadoM, PMon!TerminadoM, Mon!cola, PMon!cola,
            Mon!minero, PMon!minero, Mon!memoria, PMon!memoria, Mon!semaforo,
            PMon!semaforo, Mon!compr, PMon!compr, Mon!monit, PMon!monit, Mon!senales,
            PMon!senales, Mon!historia, PMon!historia
<1>1. /\ Mon!C_Sigaction => PMon!C_Sigaction
      /\ Mon!C_Mmap => PMon!C_Mmap
      /\ Mon!C_MmapFalla => PMon!C_MmapFalla
      /\ Mon!C_MqOpen => PMon!C_MqOpen
      /\ Mon!C_SinCola => PMon!C_SinCola
      /\ Mon!C_MqReceive => PMon!C_MqReceive
      /\ Mon!C_Comprobar => PMon!C_Comprobar
  BY DEF Mon!C_Sigaction, PMon!C_Sigaction, Mon!C_Mmap, PMon!C_Mmap, Mon!C_MmapFalla,
         PMon!C_MmapFalla, Mon!C_MqOpen, PMon!C_MqOpen, Mon!C_SinCola, PMon!C_SinCola,
         Mon!C_MqReceive, PMon!C_MqReceive, Mon!C_Comprobar, PMon!C_Comprobar,
         Mon!Sello, PMon!Sello, Mon!Resuelto, PMon!Resuelto, Mon!pow_hash,
         PMon!pow_hash, Mon!Resto, PMon!Resto
<1>2. /\ Mon!C_WaitEmpty => PMon!C_WaitEmpty
      /\ Mon!C_WaitMutex => PMon!C_WaitMutex
      /\ Mon!C_Anadir => PMon!C_Anadir
      /\ Mon!C_AnadirFin => PMon!C_AnadirFin
      /\ Mon!C_PostMutex => PMon!C_PostMutex
      /\ Mon!C_PostFill => PMon!C_PostFill
      /\ Mon!C_Wait => PMon!C_Wait
  BY DEF Mon!C_WaitEmpty, PMon!C_WaitEmpty, Mon!C_WaitMutex, PMon!C_WaitMutex,
         Mon!C_Anadir, PMon!C_Anadir, Mon!C_AnadirFin, PMon!C_AnadirFin,
         Mon!C_PostMutex, PMon!C_PostMutex, Mon!C_PostFill, PMon!C_PostFill, Mon!C_Wait,
         PMon!C_Wait
<1>3. /\ Mon!M_Mmap => PMon!M_Mmap
      /\ Mon!M_MmapFalla => PMon!M_MmapFalla
      /\ Mon!M_WaitFill => PMon!M_WaitFill
      /\ Mon!M_WaitMutex => PMon!M_WaitMutex
      /\ Mon!M_Extraer => PMon!M_Extraer
      /\ Mon!M_ExtraerFin => PMon!M_ExtraerFin
      /\ Mon!M_PostMutex => PMon!M_PostMutex
      /\ Mon!M_PostEmpty => PMon!M_PostEmpty
      /\ Mon!M_Imprimir => PMon!M_Imprimir
  BY DEF Mon!M_Mmap, PMon!M_Mmap, Mon!M_MmapFalla, PMon!M_MmapFalla, Mon!M_WaitFill,
         PMon!M_WaitFill, Mon!M_WaitMutex, PMon!M_WaitMutex, Mon!M_Extraer,
         PMon!M_Extraer, Mon!M_ExtraerFin, PMon!M_ExtraerFin, Mon!M_PostMutex,
         PMon!M_PostMutex, Mon!M_PostEmpty, PMon!M_PostEmpty, Mon!M_Imprimir,
         PMon!M_Imprimir
<1>4. /\ Mon!Sigint => PMon!Sigint
      /\ Mon!SigintMonitor => PMon!SigintMonitor
      /\ Mon!SigintSinManejador => PMon!SigintSinManejador
      /\ Mon!SigintSimple => PMon!SigintSimple
      /\ Mon!EintrReceive => PMon!EintrReceive
      /\ Mon!EintrEmpty => PMon!EintrEmpty
      /\ Mon!EintrMutex => PMon!EintrMutex
      /\ Mon!EintrWait => PMon!EintrWait
  BY DEF Mon!Sigint, PMon!Sigint, Mon!SigintMonitor, PMon!SigintMonitor,
         Mon!SigintSinManejador, PMon!SigintSinManejador, Mon!SigintSimple,
         PMon!SigintSimple, Mon!EintrReceive, PMon!EintrReceive, Mon!EintrEmpty,
         PMon!EintrEmpty, Mon!EintrMutex, PMon!EintrMutex, Mon!EintrWait,
         PMon!EintrWait, Mon!catcher, PMon!catcher
<1>. QED
  BY <1>1, <1>2, <1>3, <1>4 DEF Mon!Programa, PMon!Programa, Mon!Comprobador, PMon!Comprobador, Mon!MonitorHijo,
     PMon!MonitorHijo, Mon!Entrega, PMon!Entrega

LEMMA InicialesSon == Init => PMin!Init /\ PMon!Init
  BY DEF Init, Min!Init, PMin!Init, Min!BloqueInicial, PMin!BloqueInicial, Min!BloqueUltimo,
         PMin!BloqueUltimo, Min!BloqueAuxiliar, PMin!BloqueAuxiliar, Mon!Init, PMon!Init,
         Mon!Ranuras, PMon!Ranuras, Mon!Ceros, PMon!Ceros

(* What the two modules assume of their constants.                          *)
LEMMA Supuestos ==
  /\ PMin!PowAssumption /\ PMin!MineroAssumption /\ PMin!MenosUnoAssumption
  /\ PMon!PowAssumption /\ PMon!MonitorAssumption
<1>1. PMin!MenosUnoAssumption
  BY MenosUnoAssumption
  DEF MenosUnoAssumption, PMin!MenosUnoAssumption, pow_hash, PMin!pow_hash, Resto, PMin!Resto
<1>2. PMin!MineroAssumption /\ PMon!MonitorAssumption
  BY MinerRushAssumption
  DEF MinerRushAssumption, PMin!MineroAssumption, PMon!MonitorAssumption, Bloque, PMon!Bloque
<1>3. PMin!PowAssumption /\ PMon!PowAssumption
  BY PowAssumption DEF PowAssumption, PMin!PowAssumption, PMon!PowAssumption
<1>. QED
  BY <1>1, <1>2, <1>3

LEMMA MineroSigue ==
  ASSUME Nombre, PMin!Inductiva, [Next]_vars
  PROVE  PMin!Inductiva'
<1>1. [PMin!Next]_(PMin!vars)
  BY PasoDeMinero, MineroEs
<1>2. PMin!Inductiva /\ [PMin!Next]_(PMin!vars) => PMin!Inductiva'
  BY PMin!PasoInductivo, Supuestos
  DEF PMin!PowAssumption, PMin!MineroAssumption, PMin!MenosUnoAssumption
<1>. QED
  BY <1>1, <1>2

LEMMA MonitorSigue ==
  ASSUME PMin!Inductiva, PMin!Inductiva', PMon!Completa, [Next]_vars
  PROVE  PMon!Completa'
<1>0. PMon!MonitorAssumption /\ PMon!PowAssumption
  BY Supuestos
<1>1. CASE UNCHANGED monitor
  <2>1. mq' \in Seq(PMon!Bloque) /\ mqNombre' \in BOOLEAN
    BY DEF PMin!Inductiva, PMin!Tipo, PMin!TypeOK, PMin!Bloque, PMon!Bloque
  <2>2. UNCHANGED <<PMon!minero, PMon!memoria, PMon!semaforo, PMon!compr, PMon!monit,
                    PMon!senales, PMon!historia>>
    BY <1>1 DEF monitor, PMon!minero, PMon!memoria, PMon!semaforo, PMon!compr, PMon!monit,
                PMon!senales, PMon!historia
  <2>. QED
    BY <1>0, <2>1, <2>2, PMon!ColaCompleta DEF PMon!PowAssumption, PMon!MonitorAssumption
<1>2. CASE Mon!Programa \/ Mon!Sigint
  <2>1. PMon!Programa \/ PMon!Sigint
    BY <1>2, MonitorEs
  <2>. QED
    BY <1>0, <2>1, PMon!ProgramaCompleta DEF PMon!PowAssumption, PMon!MonitorAssumption
<1>. QED
  BY <1>1, <1>2 DEF Next, ProgramaMinero, ProgramaMonitor, Sigint, vars

(* Only two steps of the miner program touch the queue.                     *)
LEMMA SinEnviar ==
  ASSUME Min!Programa \/ Min!Sigint, ~Min!MqSend, ~Min!FinSend
  PROVE  UNCHANGED <<mq, enviadosMq>>
<1> USE DEF Min!historia
<1>1. CASE Min!Principal
  BY <1>1 DEF Min!Principal, Min!SigactionInt, Min!SigactionAlrm, Min!MqOpen, Min!MqExiste,
     Min!MqError, Min!ShmOpen, Min!ShmExiste, Min!ShmError, Min!Ftruncate,
     Min!FtruncateError, Min!Inicio, Min!InicioSigsegv, Min!Bucle,
     Min!FinBucle, Min!Minar, Min!Write, Min!WriteSigpipe, Min!Getattr,
     Min!Siguiente, Min!FinGetattr, Min!ShmUnlink, Min!MqUnlink, Min!Wait
<1>2. CASE Min!Registrador \/ Min!Alarma \/ Min!Sigint
  BY <1>2 DEF Min!Registrador, Min!R_Open, Min!R_OpenFalla, Min!R_Read, Min!R_Eof,
     Min!R_Dprintf, Min!Alarma, Min!Sigint
<1>3. CASE Min!Entrega
  BY <1>3 DEF Min!Entrega, Min!SigintRegistrador, Min!SenalMata, Min!SenalSimple,
     Min!EintrWrite, Min!EintrWait, Min!catcher
<1>. QED
  BY <1>1, <1>2, <1>3 DEF Min!Programa

-----------------------------------------------------------------------------
(* From the queue to the ring.  The queue holds the end of what was sent;   *)
(* the k-th block put in the ring, unless it was made a finishing block, is *)
(* the k-th sent with its verdict; and the Comprobador, before it is told to*)
(* finish, holds the last block received exactly when it has put in one     *)
(* fewer than it received.                                                  *)

Recibidos == Len(enviadosMq) - Len(mq)
Visto(b)  == [b EXCEPT !.correcto = Resuelto(b)]

Cola ==
  /\ Len(mq) <= Len(enviadosMq)
  /\ \A k \in 1 .. Len(mq) : mq[k] = enviadosMq[Recibidos + k]

Puestos ==
  \A k \in 1 .. Len(anadidos) :
    ~anadidos[k].fin => k <= Recibidos /\ anadidos[k] = Visto(enviadosMq[k])

ConSello == {"sem_empty", "sem_mutex", "anadir", "anadir_fin"}

EnManos ==
  /\ pcC \in {"sigaction", "mmap", "mq_open", "mq_receive"} => Recibidos = Len(anadidos)
  /\ pcC = "comprobar" => /\ Recibidos = Len(anadidos) + 1
                          /\ bloque_mq = enviadosMq[Recibidos]
  /\ pcC \in ConSello /\ ~bloque_mq.fin => /\ Recibidos = Len(anadidos) + 1
                                           /\ bloque_mq = Visto(enviadosMq[Recibidos])
  /\ pcC \in {"post_mutex", "post_fill"} /\ ~bloque_mq.fin => Recibidos = Len(anadidos)

Enlace == Cola /\ Puestos /\ EnManos

Tipos == /\ {mq, enviadosMq, anadidos} \subseteq Seq(Bloque)
         /\ {auxiliar, bloque_mq} \subseteq Bloque

LEMMA TiposSon == PMin!Inductiva /\ PMon!Completa => Tipos
  BY DEF Tipos, PMin!Inductiva, PMin!Tipo, PMin!TypeOK, PMon!Completa, PMon!TypeOK,
         PMin!Bloque, PMon!Bloque, Bloque

LEMMA EnlaceInicial == Init => Enlace
<1>1. Init => Len(mq) = 0 /\ Len(enviadosMq) = 0 /\ Len(anadidos) = 0 /\ pcC = "sigaction"
  BY DEF Init, Min!Init, Mon!Init
<1>. QED
  BY <1>1 DEF Enlace, Cola, Puestos, EnManos, Recibidos, ConSello

(* The miner sends a block.                                                 *)
LEMMA EnlaceEnvia ==
  ASSUME Tipos, Enlace, NEW b \in Bloque,
         mq' = Append(mq, b), enviadosMq' = Append(enviadosMq, b),
         UNCHANGED <<pcC, bloque_mq, anadidos>>
  PROVE  Enlace'
<1>1. /\ Len(mq) \in Nat /\ Len(enviadosMq) \in Nat /\ Len(anadidos) \in Nat
      /\ Len(mq') = Len(mq) + 1 /\ Len(enviadosMq') = Len(enviadosMq) + 1
      /\ \A k \in 1 .. Len(mq) : mq'[k] = mq[k]
      /\ mq'[Len(mq) + 1] = b
      /\ \A k \in 1 .. Len(enviadosMq) : enviadosMq'[k] = enviadosMq[k]
      /\ enviadosMq'[Len(enviadosMq) + 1] = b
  BY AppendProperties DEF Tipos
<1>2. Recibidos' = Recibidos /\ Recibidos \in 0 .. Len(enviadosMq)
  BY <1>1 DEF Recibidos, Enlace, Cola
<1>3. Cola'
  <2>1. ASSUME NEW k \in 1 .. Len(mq')
        PROVE  mq'[k] = enviadosMq'[Recibidos' + k]
    <3>1. CASE k \in 1 .. Len(mq)
      <4>1. Recibidos + k \in 1 .. Len(enviadosMq)
        BY <1>1, <1>2, <3>1 DEF Recibidos
      <4>. QED
        BY <1>1, <1>2, <3>1, <4>1 DEF Enlace, Cola
    <3>2. CASE k = Len(mq) + 1
      <4>1. Recibidos + k = Len(enviadosMq) + 1
        BY <1>1, <3>2 DEF Recibidos
      <4>. QED
        BY <1>1, <1>2, <3>2, <4>1
    <3>3. k \in 1 .. Len(mq) \/ k = Len(mq) + 1
      <4>1. Len(mq) \in Nat /\ k \in 1 .. Len(mq) + 1
        BY <1>1
      <4>. QED
        BY <4>1
    <3>. QED
      BY <3>1, <3>2, <3>3
  <2>2. Len(mq') <= Len(enviadosMq')
    <3>1. Len(mq) <= Len(enviadosMq)
      BY DEF Enlace, Cola
    <3>. QED
      BY <1>1, <3>1
  <2>. QED
    BY <2>1, <2>2 DEF Cola
<1>4. Puestos'
  <2>1. ASSUME NEW k \in 1 .. Len(anadidos), ~anadidos[k].fin
        PROVE  k <= Recibidos /\ anadidos[k] = Visto(enviadosMq'[k])
    <3>1. k <= Recibidos /\ anadidos[k] = Visto(enviadosMq[k])
      BY <2>1 DEF Enlace, Puestos
    <3>2. k \in 1 .. Len(enviadosMq)
      BY <1>1, <1>2, <3>1
    <3>. QED
      BY <1>1, <3>1, <3>2
  <2>. QED
    BY <1>2, <2>1 DEF Puestos, Visto
<1>5. EnManos'
  <2>1. Recibidos = Len(anadidos) + 1 => enviadosMq'[Recibidos] = enviadosMq[Recibidos]
    BY <1>1, <1>2
  <2>. QED
    BY <1>2, <2>1 DEF Enlace, EnManos, Visto
<1>. QED
  BY <1>3, <1>4, <1>5 DEF Enlace

LEMMA EnlaceMinero ==
  ASSUME Tipos, Enlace, Min!Programa \/ Min!Sigint, UNCHANGED monitor
  PROVE  Enlace'
<1>1. UNCHANGED <<pcC, bloque_mq, anadidos>>
  BY DEF monitor
<1>2. CASE Min!MqSend
  BY <1>1, <1>2, EnlaceEnvia DEF Min!MqSend, Tipos
<1>3. CASE Min!FinSend
  <2>1. BloqueFin \in Bloque
    BY DEF BloqueFin, Bloque
  <2>2. mq' = Append(mq, BloqueFin) /\ enviadosMq' = Append(enviadosMq, BloqueFin)
    BY <1>3 DEF Min!FinSend, Min!BloqueFin, BloqueFin
  <2>. QED
    BY <1>1, <2>1, <2>2, EnlaceEnvia
<1>4. CASE ~Min!MqSend /\ ~Min!FinSend
  <2>1. UNCHANGED <<mq, enviadosMq>>
    BY <1>4, SinEnviar
  <2>. QED
    BY <1>1, <2>1 DEF Enlace, Cola, Puestos, EnManos, Recibidos, Visto
<1>. QED
  BY <1>2, <1>3, <1>4

(* The Comprobador takes a block from the queue ...                         *)
LEMMA EnlaceRecibe ==
  ASSUME Tipos, Enlace, Mon!C_MqReceive, UNCHANGED minero
  PROVE  Enlace'
<1>1. /\ pcC = "mq_receive" /\ pcC' = "comprobar" /\ mq # <<>>
      /\ bloque_mq' = Head(mq) /\ mq' = Tail(mq)
      /\ UNCHANGED <<enviadosMq, anadidos>>
  BY DEF Mon!C_MqReceive, Mon!CPasa, Mon!historia, minero
<1>2. /\ Len(mq) \in Nat \ {0} /\ Len(enviadosMq) \in Nat /\ Len(anadidos) \in Nat
      /\ Len(mq') = Len(mq) - 1 /\ Head(mq) = mq[1]
      /\ \A k \in 1 .. Len(mq') : mq'[k] = mq[k + 1]
  BY <1>1, HeadTailProperties, EmptySeq DEF Tipos
<1>3. /\ Recibidos' = Recibidos + 1 /\ Recibidos = Len(anadidos) /\ Recibidos \in Nat
      /\ Recibidos + 1 \in 1 .. Len(enviadosMq)
  BY <1>1, <1>2 DEF Recibidos, Enlace, Cola, EnManos
<1>4. Cola'
  <2>1. ASSUME NEW k \in 1 .. Len(mq')
        PROVE  mq'[k] = enviadosMq[(Recibidos + 1) + k]
    <3>1. k + 1 \in 1 .. Len(mq) /\ Recibidos + (k + 1) = (Recibidos + 1) + k
      BY <1>2, <1>3
    <3>. QED
      BY <1>2, <3>1 DEF Enlace, Cola
  <2>2. Len(mq') <= Len(enviadosMq)
    <3>1. Len(mq) <= Len(enviadosMq)
      BY DEF Enlace, Cola
    <3>. QED
      BY <1>2, <3>1
  <2>. QED
    BY <1>1, <1>3, <2>1, <2>2 DEF Cola
<1>5. Puestos'
  <2>1. ASSUME NEW k \in 1 .. Len(anadidos), ~anadidos[k].fin
        PROVE  k <= Recibidos + 1 /\ anadidos[k] = Visto(enviadosMq[k])
    <3>1. k <= Recibidos /\ anadidos[k] = Visto(enviadosMq[k])
      BY <2>1 DEF Enlace, Puestos
    <3>. QED
      BY <1>3, <3>1
  <2>. QED
    BY <1>1, <1>3, <2>1 DEF Puestos, Visto
<1>6. EnManos'
  <2>1. mq[1] = enviadosMq[Recibidos + 1]
    BY <1>2 DEF Enlace, Cola
  <2>. QED
    BY <1>1, <1>2, <1>3, <2>1 DEF EnManos, ConSello
<1>. QED
  BY <1>4, <1>5, <1>6 DEF Enlace

(* ... gives it its verdict or makes it a finishing block ...               *)
LEMMA EnlaceSella ==
  ASSUME Tipos, Enlace, Mon!C_Comprobar, UNCHANGED minero
  PROVE  Enlace'
<1>1. /\ pcC = "comprobar" /\ pcC' = "sem_empty"
      /\ UNCHANGED <<mq, enviadosMq, anadidos>>
  BY DEF Mon!C_Comprobar, Mon!CPasa, Mon!cola, Mon!historia, minero
<1>2. bloque_mq' = IF sintC THEN [bloque_mq EXCEPT !.fin = TRUE] ELSE Visto(bloque_mq)
  BY DEF Mon!C_Comprobar, Mon!Sello, Visto, Mon!Resuelto, Resuelto, Mon!pow_hash, pow_hash,
         Mon!Resto, Resto
<1>3. [bloque_mq EXCEPT !.fin = TRUE].fin
  BY DEF Tipos, Bloque
<1>4. Recibidos = Len(anadidos) + 1 /\ bloque_mq = enviadosMq[Recibidos]
  BY <1>1 DEF Enlace, EnManos
<1>5. ~bloque_mq'.fin => bloque_mq' = Visto(enviadosMq[Recibidos])
  BY <1>2, <1>3, <1>4
<1>6. Recibidos' = Recibidos /\ Cola' /\ Puestos'
  BY <1>1 DEF Enlace, Cola, Puestos, Recibidos, Visto
<1>7. EnManos'
  BY <1>1, <1>4, <1>5, <1>6 DEF EnManos, ConSello, Visto
<1>. QED
  BY <1>6, <1>7 DEF Enlace

(* ... and puts it in the ring.                                             *)
LEMMA EnlaceAnade ==
  ASSUME Tipos, Enlace, Mon!C_AnadirFin, UNCHANGED minero
  PROVE  Enlace'
<1>1. /\ pcC = "anadir_fin" /\ pcC' = "post_mutex" /\ anadidos' = Append(anadidos, bloque_mq)
      /\ UNCHANGED <<mq, enviadosMq, bloque_mq>>
  BY DEF Mon!C_AnadirFin, Mon!CPasa, Mon!cola, minero
<1>2. /\ Len(anadidos) \in Nat /\ Len(anadidos') = Len(anadidos) + 1
      /\ \A k \in 1 .. Len(anadidos) : anadidos'[k] = anadidos[k]
      /\ anadidos'[Len(anadidos) + 1] = bloque_mq
  BY <1>1, AppendProperties DEF Tipos
<1>3. Recibidos' = Recibidos /\ Cola'
  BY <1>1 DEF Enlace, Cola, Recibidos
<1>4. ~bloque_mq.fin => /\ Recibidos = Len(anadidos) + 1
                        /\ bloque_mq = Visto(enviadosMq[Recibidos])
  BY <1>1 DEF Enlace, EnManos, ConSello
<1>5. Puestos'
  <2>1. ASSUME NEW k \in 1 .. Len(anadidos) + 1, ~anadidos'[k].fin
        PROVE  k <= Recibidos /\ anadidos'[k] = Visto(enviadosMq[k])
    <3>1. CASE k \in 1 .. Len(anadidos)
      BY <1>2, <2>1, <3>1 DEF Enlace, Puestos
    <3>2. CASE k = Len(anadidos) + 1
      <4>1. Recibidos = k /\ bloque_mq = Visto(enviadosMq[Recibidos])
        BY <1>2, <1>4, <2>1, <3>2
      <4>2. k <= Recibidos
        BY <1>2, <3>2, <4>1
      <4>. QED
        BY <1>2, <3>2, <4>1, <4>2
    <3>. QED
      BY <1>2, <3>1, <3>2
  <2>. QED
    BY <1>1, <1>2, <1>3, <2>1 DEF Puestos, Visto
<1>6. EnManos'
  BY <1>1, <1>2, <1>3, <1>4 DEF EnManos, ConSello
<1>. QED
  BY <1>3, <1>5, <1>6 DEF Enlace

(* The other steps move no block.                                           *)
LEMMA EnlaceIgual ==
  ASSUME Enlace, UNCHANGED <<mq, enviadosMq, anadidos>>,
         \/ UNCHANGED <<pcC, bloque_mq>>
         \/ pcC' = "sem_empty" /\ bloque_mq'.fin
         \/ pcC \in ConSello /\ pcC' \in ConSello /\ UNCHANGED bloque_mq
         \/ pcC = "post_mutex" /\ pcC' = "post_fill" /\ UNCHANGED bloque_mq
         \/ pcC = "post_fill" /\ pcC' = "mq_receive" /\ ~bloque_mq.fin
         \/ /\ pcC \in {"sigaction", "mmap", "mq_open"}
            /\ pcC' \in {"mmap", "mq_open", "mq_receive"}
         \/ pcC' \in {"wait", "exit", "abortado", "muerto"}
  PROVE  Enlace'
<1>1. Recibidos' = Recibidos /\ Cola' /\ Puestos'
  BY DEF Enlace, Cola, Puestos, Recibidos, Visto
<1>2. EnManos'
  BY <1>1 DEF Enlace, EnManos, ConSello, Visto
<1>. QED
  BY <1>1, <1>2 DEF Enlace

LEMMA EnlaceMonitor ==
  ASSUME Tipos, Enlace, Mon!Programa \/ Mon!Sigint, UNCHANGED minero
  PROVE  Enlace'
<1> USE DEF Mon!cola, Mon!compr, Mon!historia, Mon!CPasa, Mon!MPasa, minero, ConSello
<1>1. CASE Mon!C_Sigaction \/ Mon!C_Mmap \/ Mon!C_MmapFalla \/ Mon!C_MqOpen \/ Mon!C_SinCola
  BY <1>1, EnlaceIgual DEF Mon!C_Sigaction, Mon!C_Mmap, Mon!C_MmapFalla, Mon!C_MqOpen,
                           Mon!C_SinCola
<1>2. CASE Mon!C_WaitEmpty \/ Mon!C_WaitMutex \/ Mon!C_Anadir \/ Mon!C_PostMutex
  BY <1>2, EnlaceIgual DEF Mon!C_WaitEmpty, Mon!C_WaitMutex, Mon!C_Anadir, Mon!C_PostMutex
<1>3. CASE Mon!C_PostFill \/ Mon!C_Wait
  BY <1>3, EnlaceIgual DEF Mon!C_PostFill, Mon!C_Wait
<1>4. CASE Mon!MonitorHijo \/ Mon!Sigint
  BY <1>4, EnlaceIgual
  DEF Mon!MonitorHijo, Mon!M_Mmap, Mon!M_MmapFalla, Mon!M_WaitFill, Mon!M_WaitMutex,
      Mon!M_Extraer, Mon!M_ExtraerFin, Mon!M_PostMutex, Mon!M_PostEmpty, Mon!M_Imprimir, Mon!Sigint
<1>5. CASE Mon!SigintMonitor \/ Mon!SigintSinManejador \/ Mon!SigintSimple
  BY <1>5, EnlaceIgual DEF Mon!SigintMonitor, Mon!SigintSinManejador, Mon!SigintSimple, Mon!catcher
<1>6. CASE Mon!EintrReceive
  <2>1. [bloque_mq EXCEPT !.fin = TRUE].fin
    BY DEF Tipos, Bloque
  <2>. QED
    BY <1>6, <2>1, EnlaceIgual DEF Mon!EintrReceive, Mon!catcher
<1>7. CASE Mon!EintrEmpty \/ Mon!EintrMutex \/ Mon!EintrWait
  BY <1>7, EnlaceIgual DEF Mon!EintrEmpty, Mon!EintrMutex, Mon!EintrWait, Mon!catcher
<1>8. CASE Mon!C_MqReceive \/ Mon!C_Comprobar \/ Mon!C_AnadirFin
  BY <1>8, EnlaceRecibe, EnlaceSella, EnlaceAnade
<1>. QED
  BY <1>1, <1>2, <1>3, <1>4, <1>5, <1>6, <1>7, <1>8
  DEF Mon!Programa, Mon!Comprobador, Mon!Entrega

LEMMA EnlaceSigue ==
  ASSUME Tipos, Enlace, [Next]_vars
  PROVE  Enlace'
<1>1. CASE UNCHANGED vars
  BY <1>1 DEF vars, minero, monitor, Enlace, Cola, Puestos, EnManos, Recibidos, Visto
<1>2. CASE Next
  BY <1>2, EnlaceMinero, EnlaceMonitor DEF Next, ProgramaMinero, ProgramaMonitor, Sigint
<1>. QED
  BY <1>1, <1>2

-----------------------------------------------------------------------------
(* From end to end.                                                         *)

(* The j-th block printed is the j-th sent, with its verdict.               *)
LEMMA ImpresoEsEnviado ==
  ASSUME Tipos, PMon!Completa, Enlace, ~eintr, NEW i \in 1 .. Len(impresos)
  PROVE  /\ i \in 1 .. Len(enviadosMq)
         /\ impresos[i] = Visto(enviadosMq[i])
         /\ ~impresos[i].fin
<1>1. Len(impresos) \in Nat /\ Len(anadidos) \in Nat
  BY DEF PMon!Completa, PMon!TypeOK
<1>2. Len(impresos) <= Len(anadidos) /\ impresos[i] = anadidos[i]
  BY <1>1 DEF PMon!Completa, PMon!Fifo, PMon!OrdenFifo, PMon!Extraidos
<1>3. ~impresos[i].fin
  BY DEF PMon!Completa, PMon!Sellados
<1>4. i \in 1 .. Len(anadidos)
  BY <1>1, <1>2
<1>5. i <= Recibidos /\ anadidos[i] = Visto(enviadosMq[i])
  BY <1>2, <1>3, <1>4 DEF Enlace, Puestos
<1>6. Recibidos <= Len(enviadosMq) /\ Len(enviadosMq) \in Nat
  BY DEF Tipos, Enlace, Cola, Recibidos
<1>. QED
  BY <1>1, <1>2, <1>3, <1>5, <1>6 DEF Recibidos

LEMMA VistoCampos ==
  ASSUME NEW b \in Bloque
  PROVE  /\ Visto(b).id = b.id /\ Visto(b).fin = b.fin
         /\ Visto(b).votos_positivos = b.votos_positivos
  BY DEF Visto, Bloque

LEMMA EnteroImplica ==
  ASSUME PMin!Inductiva, PMon!Completa, Enlace
  PROVE  ImpresoEsMinado
<1>1. SUFFICES ASSUME ~eintr, NEW i \in 1 .. Len(impresos)
      PROVE  /\ impresos[i].id \in 1 .. Len(minados)
             /\ impresos[i] = [minados[impresos[i].id]
                                 EXCEPT !.correcto = (impresos[i].votos_positivos = 1)]
             /\ i > 1 => impresos[i - 1].id < impresos[i].id
  BY DEF ImpresoEsMinado
<1>2. Tipos
  BY TiposSon
<1>3. /\ i \in 1 .. Len(enviadosMq) /\ impresos[i] = Visto(enviadosMq[i]) /\ ~impresos[i].fin
      /\ enviadosMq[i] \in Bloque
  BY <1>1, <1>2, ImpresoEsEnviado DEF Tipos
<1>4. PICK b \in Bloque : b = enviadosMq[i]
  BY <1>3
<1>5. /\ impresos[i] = Visto(b) /\ impresos[i].id = b.id /\ ~b.fin
      /\ impresos[i].votos_positivos = b.votos_positivos
  BY <1>3, <1>4, VistoCampos
<1>6. /\ b.id \in 1 .. Len(minados) /\ b = minados[b.id]
      /\ i > 1 => enviadosMq[i - 1].id < b.id
  BY <1>3, <1>4, <1>5 DEF PMin!Inductiva, PMin!Orden, PMin!ColaEnOrden
<1>7. b.votos_positivos = IF Resuelto(b) THEN 1 ELSE 0
  <2>1. \A j \in 1 .. Len(minados) :
          minados[j].votos_positivos = IF PMin!Resuelto(minados[j]) THEN 1 ELSE 0
    BY DEF PMin!Inductiva, PMin!Mina, PMin!Cadena
  <2>. QED
    BY <1>6, <2>1 DEF Resuelto, PMin!Resuelto, pow_hash, PMin!pow_hash, Resto, PMin!Resto
<1>8. Resuelto(b) = (b.votos_positivos = 1)
  BY <1>7 DEF Resuelto
<1>9. impresos[i] = [minados[impresos[i].id] EXCEPT !.correcto = (impresos[i].votos_positivos = 1)]
  BY <1>5, <1>6, <1>8 DEF Visto
<1>10. ASSUME i > 1 PROVE impresos[i - 1].id < impresos[i].id
  <2>1. i - 1 \in 1 .. Len(impresos)
    BY <1>1, <1>10
  <2>2. /\ i - 1 \in 1 .. Len(enviadosMq) /\ impresos[i - 1] = Visto(enviadosMq[i - 1])
        /\ enviadosMq[i - 1] \in Bloque
    BY <1>1, <1>2, <2>1, ImpresoEsEnviado DEF Tipos
  <2>. QED
    BY <1>5, <1>6, <1>10, <2>2, VistoCampos
<1>. QED
  BY <1>5, <1>6, <1>9, <1>10

(* What the monitor prints are blocks the miner mined, in the order it mined*)
(* them and none twice, each said to be validated exactly when the miner    *)
(* gave it its own vote, for any sizes of pipe, queue and ring.             *)
THEOREM ImpresoSeguro == Spec => []ImpresoEsMinado
<1> DEFINE Entero == Nombre /\ PMin!Inductiva /\ PMon!Completa /\ Enlace
<1>1. Init => Entero
  <2>1. PMin!Init => PMin!Inductiva
    BY PMin!InicialInductiva, Supuestos
    DEF PMin!PowAssumption, PMin!MineroAssumption, PMin!MenosUnoAssumption
  <2>2. PMon!Init => PMon!Completa
    BY PMon!InicialCompleta, Supuestos DEF PMon!PowAssumption, PMon!MonitorAssumption
  <2>. QED
    BY <2>1, <2>2, InicialesSon, NombreInicial, EnlaceInicial
<1>2. Entero /\ [Next]_vars => Entero'
  BY NombreSigue, MineroSigue, MonitorSigue, TiposSon, EnlaceSigue
<1>3. Entero => ImpresoEsMinado
  BY EnteroImplica
<1>. QED
  BY <1>1, <1>2, <1>3, PTL DEF Spec
=============================================================================
