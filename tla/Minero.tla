------------------------------- MODULE Minero -------------------------------
(***************************************************************************)
(* The miner program of proyecto/minero.c: the Minero (parent) mines one   *)
(* block after another, votes on it alone, and sends it through a pipe to  *)
(* the Registrador (child), which writes it to a file, and through the     *)
(* message queue, when there is room, to the monitor program.  An alarm and*)
(* SIGINT end the loop; neither restarts a call it interrupts, and only the*)
(* Minero handles them.                                                    *)
(***************************************************************************)
EXTENDS Bloques, Sequences

CONSTANTS
  MAX_MSG,       (* capacity of the message queue                           *)
  PipeCap,       (* blocks the pipe holds                                   *)
  Buscados,      (* values the threads' ranges cover                        *)
  HilosFallan,   (* TRUE iff calloc, pthread_create or _join may fail       *)
  OpenFalla,     (* TRUE iff the Registrador's open may fail                *)
  IpcFalla,      (* TRUE iff mq_open, shm_open, ftruncate and mmap may fail *)
  MqInicial,     (* values mqNombre and shmNombre may have initially: a name*)
  ShmInicial,    (* is TRUE iff it is linked                                *)
  MaxBloques,    (* bound: blocks mined                                     *)
  MaxSigint,     (* bound: SIGINTs sent                                     *)
  Destinos       (* sets of processes one SIGINT may be sent to             *)

ASSUME MineroAssumption ==
  /\ MAX_MSG \in Nat \ {0}
  /\ PipeCap \in Nat \ {0}
  /\ Buscados \subseteq 0 .. POW_LIMIT - 1
  /\ {HilosFallan, OpenFalla, IpcFalla} \subseteq BOOLEAN
  /\ MqInicial \subseteq BOOLEAN /\ ShmInicial \subseteq BOOLEAN
  /\ MaxBloques \in Nat /\ MaxSigint \in Nat
  /\ Destinos \subseteq SUBSET {"minero", "registrador"}

(* No search can find a value for the target -1, which a search that found  *)
(* nothing leaves: with the constants of pow.c, -1 hashes to -35684986.     *)
ASSUME MenosUnoAssumption == pow_hash(-1) # -1

VARIABLES
  (* The Minero, and what it keeps in shared memory and in its locals.      *)
  pcMin, sint, salarm,
  bl_actual, bl_ultimo, num_mineros,
  auxiliar,       (* the block being sent                                   *)
  curmsgs,        (* attr.mq_curmsgs of the last mq_getattr                 *)
  (* The Registrador: what read gave it, and the file: its whole records and*)
  (* whether part of one, that of leido, comes after them.                  *)
  pcReg, leido, registro, parte,
  (* The pipe and whether its write end is open; the queue; the names.      *)
  tuberia, escritura,
  mq, mqNombre, shmNombre,
  (* Signals: pending ones by process, the alarm, SIGINTs sent.             *)
  pendMin, pendReg, alarma, enviadasSig,
  (* History: blocks mined, and blocks sent through the queue.              *)
  minados, enviadosMq

local    == <<bl_actual, bl_ultimo, num_mineros, auxiliar>>
regist   == <<pcReg, leido, registro, parte>>
nombres  == <<mqNombre, shmNombre>>
banderas == <<sint, salarm>>
senales  == <<pendMin, pendReg, alarma, enviadasSig>>
historia == <<minados, enviadosMq>>

vars == <<pcMin, banderas, local, curmsgs, regist, tuberia, escritura,
          mq, nombres, senales, historia>>

EstadosMin == {"sigint", "sigalrm", "mq_open", "shm_open", "ftruncate", "inicio",
               "bucle", "minar", "write", "getattr", "mq_send", "siguiente",
               "fin_getattr", "fin_send", "shm_unlink", "mq_unlink", "wait",
               "wait_fallo", "exit", "fallo", "muerto"}

EstadosReg == {"open", "read", "dprintf", "exit", "fallo", "muerto"}

TerminadoMin == pcMin \in {"exit", "fallo", "muerto"}
TerminadoReg == pcReg \in {"exit", "fallo", "muerto"}

BloqueInicial == [ id |-> 1, monedas |-> 0, objetivo |-> 0, solucion |-> -1,
                   votos_totales |-> 0, votos_positivos |-> 0,
                   correcto |-> FALSE, fin |-> FALSE ]

(* Fields the code leaves unset (wallets of the last block, flags) are 0;   *)
(* nothing reads them.                                                      *)
BloqueUltimo == [BloqueInicial EXCEPT !.id = -1, !.objetivo = -1]

BloqueAuxiliar == [BloqueInicial EXCEPT !.id = -1, !.objetivo = -1]

(* Both programs start at the fork; the alarm is already set.               *)
Init ==
  /\ pcMin = "sigint" /\ sint = FALSE /\ salarm = FALSE
  /\ bl_actual = BloqueInicial /\ bl_ultimo = BloqueUltimo /\ num_mineros = 0
  /\ auxiliar = BloqueAuxiliar /\ curmsgs = 0
  /\ pcReg = "open" /\ leido = BloqueAuxiliar /\ registro = <<>> /\ parte = FALSE
  /\ tuberia = <<>> /\ escritura = TRUE
  /\ mq = <<>> /\ mqNombre \in MqInicial /\ shmNombre \in ShmInicial
  /\ pendMin = {} /\ pendReg = FALSE /\ alarma = "puesta" /\ enviadasSig = 0
  /\ minados = <<>> /\ enviadosMq = <<>>

-----------------------------------------------------------------------------
(* The Minero.                                                              *)

Pasa(de, a) == pcMin = de /\ pcMin' = a

SigactionInt ==
  /\ Pasa("sigint", "sigalrm")
  /\ UNCHANGED <<banderas, local, curmsgs, regist, tuberia, escritura, mq, nombres, senales, historia>>

SigactionAlrm ==
  /\ Pasa("sigalrm", "mq_open")
  /\ UNCHANGED <<banderas, local, curmsgs, regist, tuberia, escritura, mq, nombres, senales, historia>>

MqOpen ==
  /\ ~mqNombre
  /\ Pasa("mq_open", "shm_open")
  /\ mqNombre' = TRUE
  /\ UNCHANGED <<banderas, local, curmsgs, regist, tuberia, escritura, mq, shmNombre, senales, historia>>

(* EEXIST: it unlinks the name, whoever's queue it is, and leaves.          *)
MqExiste ==
  /\ mqNombre
  /\ Pasa("mq_open", "wait_fallo")
  /\ mqNombre' = FALSE
  /\ escritura' = FALSE
  /\ UNCHANGED <<banderas, local, curmsgs, regist, tuberia, mq, shmNombre, senales, historia>>

(* Any other error: it unlinks nothing.                                     *)
MqError ==
  /\ IpcFalla
  /\ Pasa("mq_open", "wait_fallo")
  /\ escritura' = FALSE
  /\ UNCHANGED <<banderas, local, curmsgs, regist, tuberia, mq, nombres, senales, historia>>

ShmOpen ==
  /\ ~shmNombre
  /\ Pasa("shm_open", "ftruncate")
  /\ shmNombre' = TRUE
  /\ UNCHANGED <<banderas, local, curmsgs, regist, tuberia, escritura, mq, mqNombre, senales, historia>>

(* EEXIST again; the queue it has just created keeps its name.              *)
ShmExiste ==
  /\ shmNombre
  /\ Pasa("shm_open", "wait_fallo")
  /\ shmNombre' = FALSE
  /\ escritura' = FALSE
  /\ UNCHANGED <<banderas, local, curmsgs, regist, tuberia, mq, mqNombre, senales, historia>>

ShmError ==
  /\ IpcFalla
  /\ Pasa("shm_open", "wait_fallo")
  /\ escritura' = FALSE
  /\ UNCHANGED <<banderas, local, curmsgs, regist, tuberia, mq, nombres, senales, historia>>

Ftruncate ==
  /\ Pasa("ftruncate", "inicio")
  /\ UNCHANGED <<banderas, local, curmsgs, regist, tuberia, escritura, mq, nombres, senales, historia>>

(* It waits for the Registrador without closing the pipe.                   *)
FtruncateError ==
  /\ IpcFalla
  /\ Pasa("ftruncate", "wait_fallo")
  /\ shmNombre' = FALSE
  /\ UNCHANGED <<banderas, local, curmsgs, regist, tuberia, escritura, mq, mqNombre, senales, historia>>

Inicio ==
  /\ Pasa("inicio", "bucle")
  /\ bl_ultimo' = BloqueUltimo
  /\ bl_actual' = BloqueInicial
  /\ num_mineros' = 2
  /\ UNCHANGED <<banderas, auxiliar, curmsgs, regist, tuberia, escritura, mq, nombres, senales, historia>>

(* Nobody looks at what mmap returns: SIGSEGV, and both names stay.         *)
InicioSigsegv ==
  /\ IpcFalla
  /\ Pasa("inicio", "muerto")
  /\ escritura' = FALSE
  /\ UNCHANGED <<banderas, local, curmsgs, regist, tuberia, mq, nombres, senales, historia>>

(* The loop's condition.                                                    *)
Bucle ==
  /\ ~sint /\ ~salarm /\ Len(minados) < MaxBloques
  /\ Pasa("bucle", "minar")
  /\ UNCHANGED <<banderas, local, curmsgs, regist, tuberia, escritura, mq, nombres, senales, historia>>

FinBucle ==
  /\ sint \/ salarm
  /\ Pasa("bucle", "fin_getattr")
  /\ UNCHANGED <<banderas, local, curmsgs, regist, tuberia, escritura, mq, nombres, senales, historia>>

(* What manage_threads may return: a value that hashes to the target if the *)
(* threads come across one, -1 if not, EXIT_FAILURE if they cannot run.     *)
EXIT_FAILURE == 1

manage_threads(objetivo) ==
  LET halladas == { x \in Buscados : pow_hash(x) = objetivo }
  IN  (IF halladas = {} THEN {-1} ELSE halladas)
      \cup (IF HilosFallan THEN {EXIT_FAILURE} ELSE {})

(* "positivos >= ceil(totales / 2)", an integer division.                   *)
VotosBastan(b) == b.votos_positivos >= b.votos_totales \div 2

(* Mutant: a wrong solution takes a vote away.                              *)
Voto_Resta(b, solucion) == IF pow_hash(solucion) = b.objetivo THEN b.votos_positivos + 1
                                                              ELSE b.votos_positivos - 1

Voto(b, solucion) == IF pow_hash(solucion) = b.objetivo THEN b.votos_positivos + 1
                                                        ELSE b.votos_positivos

(* It mines a block, votes on it, takes a coin if the votes suffice.        *)
Minado(b, s) ==
  LET votado == [b EXCEPT !.solucion = s, !.votos_positivos = Voto(b, s),
                          !.votos_totales = @ + 1]
  IN  IF VotosBastan(votado) THEN [votado EXCEPT !.monedas = @ + 1] ELSE votado

Minar ==
  /\ Pasa("minar", "write")
  /\ \E s \in manage_threads(bl_actual.objetivo) : bl_actual' = Minado(bl_actual, s)
  /\ auxiliar' = bl_actual'
  /\ minados' = Append(minados, bl_actual')
  /\ UNCHANGED <<banderas, bl_ultimo, num_mineros, curmsgs, regist, tuberia, escritura, mq, nombres, senales, enviadosMq>>

Write ==
  /\ ~TerminadoReg /\ Len(tuberia) < PipeCap
  /\ Pasa("write", "getattr")
  /\ tuberia' = Append(tuberia, auxiliar)
  /\ UNCHANGED <<banderas, local, curmsgs, regist, escritura, mq, nombres, senales, historia>>

(* Nobody can read the pipe any more: SIGPIPE kills the Minero.             *)
WriteSigpipe ==
  /\ TerminadoReg
  /\ Pasa("write", "muerto")
  /\ escritura' = FALSE
  /\ UNCHANGED <<banderas, local, curmsgs, regist, tuberia, mq, nombres, senales, historia>>

(* Mutant: one block too many is let through.                               *)
Getattr_UnoMas ==
  /\ Pasa("getattr", IF Len(mq) <= MAX_MSG THEN "mq_send" ELSE "siguiente")
  /\ curmsgs' = Len(mq)
  /\ UNCHANGED <<banderas, local, regist, tuberia, escritura, mq, nombres, senales, historia>>

Getattr ==
  /\ Pasa("getattr", IF Len(mq) < MAX_MSG THEN "mq_send" ELSE "siguiente")
  /\ curmsgs' = Len(mq)
  /\ UNCHANGED <<banderas, local, regist, tuberia, escritura, mq, nombres, senales, historia>>

(* Mutant: the last block is sent instead of the one just mined.            *)
MqSend_Ultimo ==
  /\ Len(mq) < MAX_MSG
  /\ Pasa("mq_send", "siguiente")
  /\ mq' = Append(mq, bl_ultimo)
  /\ enviadosMq' = Append(enviadosMq, bl_ultimo)
  /\ UNCHANGED <<banderas, local, curmsgs, regist, tuberia, escritura, nombres, senales, minados>>

MqSend ==
  /\ Len(mq) < MAX_MSG
  /\ Pasa("mq_send", "siguiente")
  /\ mq' = Append(mq, auxiliar)
  /\ enviadosMq' = Append(enviadosMq, auxiliar)
  /\ UNCHANGED <<banderas, local, curmsgs, regist, tuberia, escritura, nombres, senales, minados>>

(* Mutant: the next block keeps the target of this one.                     *)
Siguiente_MismoObjetivo ==
  /\ Pasa("siguiente", "bucle")
  /\ bl_ultimo' = [bl_actual EXCEPT !.monedas = bl_ultimo.monedas]
  /\ bl_actual' = [BloqueInicial EXCEPT !.id = bl_actual.id + 1,
                                        !.monedas = bl_actual.monedas,
                                        !.objetivo = bl_actual.objetivo]
  /\ UNCHANGED <<banderas, num_mineros, auxiliar, curmsgs, regist, tuberia, escritura, mq, nombres, senales, historia>>

(* The current block becomes the last one, its wallets excepted, and its    *)
(* solution the next target.                                                *)
Siguiente ==
  /\ Pasa("siguiente", "bucle")
  /\ bl_ultimo' = [bl_actual EXCEPT !.monedas = bl_ultimo.monedas]
  /\ bl_actual' = [BloqueInicial EXCEPT !.id = bl_actual.id + 1,
                                        !.monedas = bl_actual.monedas,
                                        !.objetivo = bl_actual.solucion]
  /\ UNCHANGED <<banderas, num_mineros, auxiliar, curmsgs, regist, tuberia, escritura, mq, nombres, senales, historia>>

FinGetattr ==
  /\ Pasa("fin_getattr", IF Len(mq) < MAX_MSG THEN "fin_send" ELSE "shm_unlink")
  /\ curmsgs' = Len(mq)
  /\ UNCHANGED <<banderas, local, regist, tuberia, escritura, mq, nombres, senales, historia>>

FinSend ==
  /\ Len(mq) < MAX_MSG
  /\ Pasa("fin_send", "shm_unlink")
  /\ mq' = Append(mq, BloqueFin)
  /\ enviadosMq' = Append(enviadosMq, BloqueFin)
  /\ UNCHANGED <<banderas, local, curmsgs, regist, tuberia, escritura, nombres, senales, minados>>

ShmUnlink ==
  /\ Pasa("shm_unlink", "mq_unlink")
  /\ shmNombre' = FALSE
  /\ num_mineros' = num_mineros - 1
  /\ UNCHANGED <<banderas, bl_actual, bl_ultimo, auxiliar, curmsgs, regist, tuberia, escritura, mq, mqNombre, senales, historia>>

(* Mutant: the pipe is left open, as ftruncate's error path does.           *)
MqUnlink_SinCerrar ==
  /\ Pasa("mq_unlink", "wait")
  /\ mqNombre' = FALSE
  /\ UNCHANGED <<banderas, local, curmsgs, regist, tuberia, escritura, mq, shmNombre, senales, historia>>

MqUnlink ==
  /\ Pasa("mq_unlink", "wait")
  /\ mqNombre' = FALSE
  /\ escritura' = FALSE
  /\ UNCHANGED <<banderas, local, curmsgs, regist, tuberia, mq, shmNombre, senales, historia>>

(* wait returns when the Registrador ends.                                  *)
Salida == IF pcMin = "wait" THEN "exit" ELSE "fallo"

Wait ==
  /\ TerminadoReg
  /\ pcMin \in {"wait", "wait_fallo"}
  /\ pcMin' = Salida
  /\ escritura' = FALSE
  /\ UNCHANGED <<banderas, local, curmsgs, regist, tuberia, mq, nombres, senales, historia>>

Principal ==
  \/ SigactionInt \/ SigactionAlrm \/ MqOpen \/ MqExiste \/ MqError
  \/ ShmOpen \/ ShmExiste \/ ShmError \/ Ftruncate \/ FtruncateError
  \/ Inicio \/ InicioSigsegv \/ Bucle \/ FinBucle
  \/ Minar \/ Write \/ WriteSigpipe \/ Getattr \/ MqSend \/ Siguiente
  \/ FinGetattr \/ FinSend \/ ShmUnlink \/ MqUnlink \/ Wait

-----------------------------------------------------------------------------
(* The Registrador.                                                         *)

RPasa(de, a) == pcReg = de /\ pcReg' = a

R_Open ==
  /\ RPasa("open", "read")
  /\ UNCHANGED <<pcMin, banderas, local, curmsgs, leido, registro, parte, tuberia, escritura, mq, nombres, senales, historia>>

R_OpenFalla ==
  /\ OpenFalla
  /\ RPasa("open", "fallo")
  /\ UNCHANGED <<pcMin, banderas, local, curmsgs, leido, registro, parte, tuberia, escritura, mq, nombres, senales, historia>>

R_Read ==
  /\ tuberia # <<>>
  /\ RPasa("read", "dprintf")
  /\ leido' = Head(tuberia)
  /\ tuberia' = Tail(tuberia)
  /\ UNCHANGED <<pcMin, banderas, local, curmsgs, registro, parte, escritura, mq, nombres, senales, historia>>

(* Mutant: at the end of file the last block is written again.              *)
R_Eof_Repite ==
  /\ tuberia = <<>> /\ ~escritura
  /\ RPasa("read", "exit")
  /\ registro' = Append(registro, leido)
  /\ UNCHANGED <<pcMin, banderas, local, curmsgs, leido, parte, tuberia, escritura, mq, nombres, senales, historia>>

(* Mutant: the Registrador leaves as soon as there is no writer.            *)
R_Eof_Pronto ==
  /\ ~escritura
  /\ RPasa("read", "exit")
  /\ UNCHANGED <<pcMin, banderas, local, curmsgs, leido, registro, parte, tuberia, escritura, mq, nombres, senales, historia>>

(* End of file: the pipe is empty and has no writer.                        *)
R_Eof ==
  /\ tuberia = <<>> /\ ~escritura
  /\ RPasa("read", "exit")
  /\ UNCHANGED <<pcMin, banderas, local, curmsgs, leido, registro, parte, tuberia, escritura, mq, nombres, senales, historia>>

(* The several dprintf of a record; nobody else looks at the file.          *)
R_Dprintf ==
  /\ RPasa("dprintf", "read")
  /\ registro' = Append(registro, leido)
  /\ UNCHANGED <<pcMin, banderas, local, curmsgs, leido, parte, tuberia, escritura, mq, nombres, senales, historia>>

Registrador == R_Open \/ R_OpenFalla \/ R_Read \/ R_Eof \/ R_Dprintf

-----------------------------------------------------------------------------
(* Signals.                                                                 *)

Alarma ==
  /\ alarma = "puesta" /\ ~TerminadoMin
  /\ alarma' = "sonada"
  /\ pendMin' = pendMin \cup {"SIGALRM"}
  /\ UNCHANGED <<pcMin, banderas, local, curmsgs, regist, tuberia, escritura, mq, nombres, pendReg, enviadasSig, historia>>

Sigint ==
  /\ enviadasSig < MaxSigint
  /\ \E D \in Destinos :
       /\ pendMin' = pendMin \cup (IF "minero" \in D THEN {"SIGINT"} ELSE {})
       /\ pendReg' = (pendReg \/ "registrador" \in D)
  /\ enviadasSig' = enviadasSig + 1
  /\ UNCHANGED <<pcMin, banderas, local, curmsgs, regist, tuberia, escritura, mq, nombres, alarma, historia>>

(* Between two dprintf it leaves a record half written.                     *)
SigintRegistrador ==
  /\ pendReg /\ ~TerminadoReg
  /\ pcReg' = "muerto"
  /\ parte' \in {FALSE, pcReg = "dprintf"}
  /\ pendReg' = FALSE
  /\ UNCHANGED <<pcMin, banderas, local, curmsgs, leido, registro, tuberia, escritura, mq, nombres, pendMin, alarma, enviadasSig, historia>>

(* The signals the Minero does not handle yet.                              *)
SinManejador == CASE pcMin = "sigint"  -> {"SIGINT", "SIGALRM"}
                  [] pcMin = "sigalrm" -> {"SIGALRM"}
                  [] OTHER             -> {}

SenalMata ==
  /\ pendMin \cap SinManejador # {}
  /\ pcMin' = "muerto"
  /\ escritura' = FALSE
  /\ pendMin' = {}
  /\ UNCHANGED <<banderas, local, curmsgs, regist, tuberia, mq, nombres, pendReg, alarma, enviadasSig, historia>>

(* catcher runs and sets the signal's flag.                                 *)
catcher ==
  /\ ~TerminadoMin
  /\ \E s \in pendMin \ SinManejador :
       /\ pendMin' = pendMin \ {s}
       /\ sint' = (sint \/ s = "SIGINT")
       /\ salarm' = (salarm \/ s = "SIGALRM")
  /\ UNCHANGED <<local, curmsgs, regist, tuberia, mq, nombres, pendReg, alarma, enviadasSig, historia>>

(* Outside a blocked call, or just before the call blocks.                  *)
SenalSimple == catcher /\ UNCHANGED <<pcMin, escritura>>

(* A write to a full pipe returns EINTR: it closes the pipe and leaves.     *)
EintrWrite ==
  /\ catcher
  /\ ~TerminadoReg /\ Len(tuberia) = PipeCap
  /\ Pasa("write", "wait_fallo")
  /\ escritura' = FALSE

(* wait returns EINTR, and the Minero leaves without its child.             *)
EintrWait ==
  /\ catcher
  /\ ~TerminadoReg
  /\ pcMin \in {"wait", "wait_fallo"}
  /\ pcMin' = Salida
  /\ escritura' = FALSE

Entrega == SigintRegistrador \/ SenalMata \/ SenalSimple \/ EintrWrite \/ EintrWait

-----------------------------------------------------------------------------
(* The monitor program, as the queue sees it: it unlinks the name before it *)
(* receives anything.                                                       *)

ConsumidorAbre ==
  /\ mqNombre
  /\ mqNombre' = FALSE
  /\ UNCHANGED <<pcMin, banderas, local, curmsgs, regist, tuberia, escritura, mq, shmNombre, senales, historia>>

ConsumidorRecibe ==
  /\ ~mqNombre
  /\ mq # <<>>
  /\ mq' = Tail(mq)
  /\ UNCHANGED <<pcMin, banderas, local, curmsgs, regist, tuberia, escritura, nombres, senales, historia>>

Parado == TerminadoMin /\ TerminadoReg /\ UNCHANGED vars

Programa == Principal \/ Registrador \/ Entrega \/ Alarma

Next == Programa \/ Sigint \/ ConsumidorAbre \/ ConsumidorRecibe \/ Parado

(* Each process is scheduled, the alarm goes off and signals are delivered. *)
(* Nothing is assumed of the monitor program or of the user.                *)
Justicia == WF_vars(Principal) /\ WF_vars(Registrador) /\ WF_vars(Entrega) /\ WF_vars(Alarma)

Spec == Init /\ [][Next]_vars /\ Justicia

-----------------------------------------------------------------------------
(* Properties.                                                              *)

TypeOK ==
  /\ pcMin \in EstadosMin /\ sint \in BOOLEAN /\ salarm \in BOOLEAN
  /\ bl_actual \in Bloque /\ bl_ultimo \in Bloque /\ num_mineros \in Nat
  /\ auxiliar \in Bloque /\ curmsgs \in 0 .. MAX_MSG
  /\ pcReg \in EstadosReg /\ leido \in Bloque /\ registro \in Seq(Bloque)
  /\ tuberia \in Seq(Bloque) /\ escritura \in BOOLEAN /\ parte \in BOOLEAN
  /\ mq \in Seq(Bloque) /\ mqNombre \in BOOLEAN /\ shmNombre \in BOOLEAN
  /\ pendMin \subseteq {"SIGINT", "SIGALRM"} /\ pendReg \in BOOLEAN
  /\ alarma \in {"puesta", "sonada"} /\ enviadasSig \in Nat
  /\ minados \in Seq(Bloque) /\ enviadosMq \in Seq(Bloque)

Prefijo(s, t) == Len(s) <= Len(t) /\ \A i \in 1 .. Len(s) : s[i] = t[i]

(* Blocks on their way to the file, in order.                               *)
EnMano == IF pcReg = "dprintf" THEN <<leido>> ELSE <<>>
Escritos == registro \o EnMano \o tuberia

(* The file lists blocks in the order they were mined, none twice and none  *)
(* left out, and between the file and the last block mined all but that one *)
(* are on their way, unless SIGINT has killed the Registrador.  Only then   *)
(* does a record stay half written, and it is that of the next block.       *)
RegistroFiel ==
  /\ Prefijo(registro, minados)
  /\ pcReg # "muerto" => Prefijo(Escritos, minados) /\ Len(minados) <= Len(Escritos) + 1
  /\ parte => pcReg = "muerto" /\ Prefijo(Append(registro, leido), minados)

(* After a normal end of both processes the file has every block mined,     *)
(* though the pipe was closed with blocks still in it.                      *)
RegistroCompleto == (pcMin = "exit" /\ pcReg = "exit") => registro = minados /\ ~parte

(* The number of messages mq_getattr gave is stale when mq_send is called,  *)
(* and yet mq_send never blocks.                                            *)
EnvioNoBloquea == pcMin \in {"mq_send", "fin_send"} => Len(mq) < MAX_MSG

(* The queue is sent blocks as they were mined, some perhaps left out, none *)
(* repeated or overtaken, and nothing after the finishing block.            *)
ColaEnOrden ==
  \A i \in 1 .. Len(enviadosMq) :
    LET b == enviadosMq[i]
    IN  IF b.fin THEN i = Len(enviadosMq)
                 ELSE /\ b.id \in 1 .. Len(minados) /\ b = minados[b.id]
                      /\ i > 1 => enviadosMq[i - 1].id < b.id

(* Each block's target is the solution of the one before; a block has a     *)
(* positive vote exactly when it is solved, and after a search that finds   *)
(* nothing the next block cannot be solved either.                          *)
Cadena ==
  \A i \in 1 .. Len(minados) :
    LET b == minados[i]
    IN  /\ b.id = i
        /\ b.objetivo = IF i = 1 THEN 0 ELSE minados[i - 1].solucion
        /\ b.votos_positivos = IF Resuelto(b) THEN 1 ELSE 0
        /\ (i > 1 /\ b.objetivo = -1) => ~Resuelto(b)

(* The alarm ends both processes whatever SIGINTs arrive, whether or not    *)
(* anybody reads the queue, and wherever in the loop it finds the Minero.   *)
(* Only after ftruncate fails may the Minero wait with its pipe open for a  *)
(* Registrador that waits for the pipe to close.                            *)
Termina == <>((TerminadoMin /\ TerminadoReg) \/ (pcMin = "wait_fallo" /\ escritura))
=============================================================================
