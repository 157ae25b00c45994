---------------------------- MODULE MineroProofs ----------------------------
(***************************************************************************)
(* Proofs about module Minero, for every hash, search range, capacity of   *)
(* the queue and of the pipe, and number of blocks and signals.            *)
(***************************************************************************)
EXTENDS Minero, SequenceTheorems, TLAPS

Preparando  == {"sigint", "sigalrm", "mq_open", "shm_open", "ftruncate", "inicio"}
EnBucle     == {"bucle", "minar"}
ConBloque   == {"write", "getattr", "mq_send", "siguiente"}
Despidiendo == {"fin_getattr", "fin_send", "shm_unlink"}
Despedido   == {"shm_unlink", "mq_unlink", "wait", "exit"}
Errores     == {"wait_fallo", "fallo", "muerto"}
Envia       == {"mq_send", "fin_send"}
SinEnviar   == {"write", "getattr", "mq_send"}
Contando    == EnBucle \cup ConBloque \cup Despidiendo

Tipo == /\ TypeOK /\ Len(mq) <= MAX_MSG
        /\ pcMin \in Contando => num_mineros = 2

Objetivo(n) == IF n = 0 THEN 0 ELSE minados[n].solucion

(* What the Minero has in its hands is the last block mined, or the next.   *)
Mina ==
  /\ Cadena /\ \A i \in 1 .. Len(minados) : ~minados[i].fin
  /\ pcMin \in Preparando => minados = <<>>
  /\ pcMin \in EnBucle => /\ bl_actual.id = Len(minados) + 1
                          /\ bl_actual.objetivo = Objetivo(Len(minados))
                          /\ bl_actual.votos_positivos = 0 /\ ~bl_actual.fin
  /\ pcMin \in ConBloque => /\ Len(minados) > 0 /\ bl_actual = minados[Len(minados)]
                            /\ auxiliar = bl_actual

(* All blocks mined are in the file, in the Registrador's hands or in the   *)
(* pipe, except the one being written.  A record cut short is the next one. *)
Cortado == parte => pcReg = "muerto" /\ Prefijo(Append(registro, leido), minados)

Camino ==
  /\ Cortado
  /\ pcReg # "muerto" =>
       /\ Prefijo(Escritos, minados)
       /\ pcMin = "write" => Len(minados) = Len(Escritos) + 1
       /\ pcMin \in Errores => Len(minados) <= Len(Escritos) + 1
       /\ pcMin \notin Errores \cup {"write"} => Len(minados) = Len(Escritos)
  /\ Prefijo(registro, minados)
  /\ pcReg = "exit" => tuberia = <<>>

Orden ==
  /\ EnvioNoBloquea /\ ColaEnOrden
  /\ \A i \in 1 .. Len(enviadosMq) : enviadosMq[i].fin => pcMin \in Despedido
  /\ pcMin \in SinEnviar => \A i \in 1 .. Len(enviadosMq) : enviadosMq[i].id < Len(minados)

Inductiva == Tipo /\ Mina /\ Camino /\ Orden

-----------------------------------------------------------------------------
(* Blocks and searches.                                                     *)

LEMMA BloquesTipo == {BloqueInicial, BloqueUltimo, BloqueAuxiliar, BloqueFin} \subseteq Bloque
<1>1. BloqueInicial \in Bloque
  BY DEF BloqueInicial, Bloque
<1>2. BloqueFin \in Bloque
  BY DEF BloqueFin, Bloque
<1>3. PICK m \in Int : m = -1
  OBVIOUS
<1>4. [BloqueInicial EXCEPT !.id = m, !.objetivo = m] \in Bloque
  BY <1>1 DEF Bloque
<1>. QED
  BY <1>1, <1>2, <1>3, <1>4 DEF BloqueUltimo, BloqueAuxiliar

LEMMA InicialEs ==
  /\ BloqueInicial.id = 1 /\ BloqueInicial.objetivo = 0
  /\ BloqueInicial.votos_positivos = 0 /\ ~BloqueInicial.fin
  BY DEF BloqueInicial

LEMMA MinadoEs ==
  ASSUME NEW b \in Bloque, NEW s \in Int
  PROVE  /\ Minado(b, s) \in Bloque
         /\ Minado(b, s).id = b.id /\ Minado(b, s).objetivo = b.objetivo
         /\ Minado(b, s).solucion = s /\ Minado(b, s).fin = b.fin
         /\ Minado(b, s).votos_positivos = Voto(b, s)
<1>1. PICK v \in Nat : v = Voto(b, s)
  BY DEF Voto, Bloque
<1>2. PICK t \in Nat : t = b.votos_totales + 1
  BY DEF Bloque
<1>3. PICK c \in Bloque : c = [b EXCEPT !.solucion = s, !.votos_positivos = v, !.votos_totales = t]
  <2>1. [b EXCEPT !.solucion = s, !.votos_positivos = v, !.votos_totales = t] \in Bloque
    BY DEF Bloque
  <2>. QED
    BY <2>1
<1>4. /\ c.id = b.id /\ c.objetivo = b.objetivo /\ c.solucion = s /\ c.fin = b.fin
      /\ c.votos_positivos = v
  BY <1>3 DEF Bloque
<1>5. Minado(b, s) = IF VotosBastan(c) THEN [c EXCEPT !.monedas = c.monedas + 1] ELSE c
  <2>1. c = [b EXCEPT !.solucion = s, !.votos_positivos = Voto(b, s),
                      !.votos_totales = b.votos_totales + 1]
    BY <1>1, <1>2, <1>3
  <2>. QED
    BY <2>1 DEF Minado
<1>6. PICK d \in Bloque : d = [c EXCEPT !.monedas = c.monedas + 1]
  <2>1. PICK m \in Nat : m = c.monedas + 1
    BY DEF Bloque
  <2>2. [c EXCEPT !.monedas = m] \in Bloque
    BY DEF Bloque
  <2>. QED
    BY <2>1, <2>2
<1>7. /\ d.id = c.id /\ d.objetivo = c.objetivo /\ d.solucion = c.solucion /\ d.fin = c.fin
      /\ d.votos_positivos = c.votos_positivos
  BY <1>6 DEF Bloque
<1>. QED
  BY <1>1, <1>4, <1>5, <1>6, <1>7

LEMMA HashNatural == ASSUME NEW x \in Nat PROVE pow_hash(x) \in Nat
<1>1. x * BIG_X + BIG_Y \in Nat
  BY PowAssumption
<1>. QED
  BY <1>1, PowAssumption DEF pow_hash, Resto

(* A search finds nothing, or something: -1 is the hash of no value.        *)
LEMMA Hallado ==
  ASSUME NEW o \in Int, NEW s \in manage_threads(o)
  PROVE  s \in Int /\ (o = -1 => pow_hash(s) # o)
<1>1. \A x \in Buscados : x \in Nat /\ pow_hash(x) # -1
  BY HashNatural, MineroAssumption, PowAssumption
<1>2. pow_hash(1) # -1
  BY HashNatural
<1>3. s \in Buscados \/ s = -1 \/ s = 1
  BY DEF manage_threads, EXIT_FAILURE
<1>. QED
  BY <1>1, <1>2, <1>3, MenosUnoAssumption

-----------------------------------------------------------------------------
(* The steps that touch neither blocks nor queues.                          *)

Entorno ==
  /\ sint \in BOOLEAN /\ salarm \in BOOLEAN /\ escritura \in BOOLEAN /\ parte \in BOOLEAN
  /\ mqNombre \in BOOLEAN /\ shmNombre \in BOOLEAN
  /\ pendMin \subseteq {"SIGINT", "SIGALRM"} /\ pendReg \in BOOLEAN
  /\ alarma \in {"puesta", "sonada"} /\ enviadasSig \in Nat

Datos ==
  /\ bl_actual \in Bloque /\ bl_ultimo \in Bloque /\ num_mineros \in Nat
  /\ auxiliar \in Bloque /\ curmsgs \in 0 .. MAX_MSG
  /\ leido \in Bloque /\ registro \in Seq(Bloque)
  /\ tuberia \in Seq(Bloque) /\ mq \in Seq(Bloque)
  /\ minados \in Seq(Bloque) /\ enviadosMq \in Seq(Bloque)

LEMMA TipoPartes ==
  TypeOK <=> pcMin \in EstadosMin /\ pcReg \in EstadosReg /\ Entorno /\ Datos
  BY DEF TypeOK, Entorno, Datos

LEMMA TipoPartesPrima ==
  TypeOK' <=> pcMin' \in EstadosMin /\ pcReg' \in EstadosReg /\ Entorno' /\ Datos'
  BY DEF TypeOK, Entorno, Datos

(* What these steps do to the program counters.                             *)
PasoMin ==
  /\ pcMin' \in EstadosMin
  /\ pcMin' \in Preparando => pcMin \in Preparando
  /\ pcMin' \in EnBucle => pcMin \in EnBucle
  /\ pcMin' \in ConBloque => pcMin \in ConBloque
  /\ pcMin' \in SinEnviar => pcMin \in SinEnviar
  /\ pcMin' \in Envia => pcMin \in Envia
  /\ pcMin' \in Contando => pcMin \in Contando
  /\ pcMin \in Despedido => pcMin' \in Despedido
  /\ pcMin' = "write" => pcMin = "write"
  /\ pcMin' \notin Errores \cup {"write"} => pcMin \notin Errores \cup {"write"}

PasoReg ==
  /\ pcReg' \in EstadosReg
  /\ pcReg' # "muerto" => pcReg # "muerto" /\ (pcReg' = "dprintf" <=> pcReg = "dprintf")
  /\ pcReg' = "exit" => pcReg = "exit" \/ tuberia = <<>>

Quietos == UNCHANGED <<local, curmsgs, leido, registro, tuberia, mq, historia>>

(* Only a Registrador killed with a block in its hands cuts a record.       *)
PasoParte == parte' => parte \/ (pcReg = "dprintf" /\ pcReg' = "muerto")

Simple == PasoMin /\ PasoReg /\ PasoParte /\ Quietos /\ Entorno'

SimplesMin ==
  \/ SigactionInt \/ SigactionAlrm \/ MqOpen \/ MqExiste \/ MqError
  \/ ShmOpen \/ ShmExiste \/ ShmError \/ Ftruncate \/ FtruncateError \/ InicioSigsegv \/ Bucle \/ FinBucle \/ WriteSigpipe \/ MqUnlink \/ Wait

SimplesReg == R_Open \/ R_OpenFalla \/ R_Eof

SimplesSenal == Entrega \/ Alarma \/ Sigint \/ ConsumidorAbre

LEMMA SimpleMin == TypeOK /\ SimplesMin => Simple
<1>. SUFFICES ASSUME TypeOK, SimplesMin PROVE Simple
  OBVIOUS
<1>1. pcMin \in EstadosMin /\ pcReg \in EstadosReg /\ Entorno
  BY TipoPartes
<1>2. Quietos /\ pcReg' = pcReg /\ parte' = parte
  BY DEF SimplesMin, SigactionInt, SigactionAlrm, MqOpen, MqExiste, MqError, ShmOpen,
         ShmExiste, ShmError, Ftruncate, FtruncateError, InicioSigsegv, Bucle, FinBucle, WriteSigpipe, MqUnlink, Wait, Quietos, regist
<1>3. Entorno'
  BY <1>1 DEF SimplesMin, SigactionInt, SigactionAlrm, MqOpen, MqExiste, MqError, ShmOpen,
         ShmExiste, ShmError, Ftruncate, FtruncateError, InicioSigsegv, Bucle, FinBucle, WriteSigpipe, MqUnlink, Wait,
         Entorno, banderas, regist, nombres, senales
<1>4. PasoReg
  BY <1>1, <1>2 DEF PasoReg
<1>5. /\ pcMin # pcMin'
      /\ \/ pcMin \in Preparando \ {"inicio"} /\ pcMin' \in Preparando \cup {"wait_fallo"}
         \/ pcMin = "inicio" /\ pcMin' = "muerto"
         \/ pcMin = "bucle" /\ pcMin' \in {"minar", "fin_getattr"}
         \/ pcMin = "write" /\ pcMin' = "muerto"
         \/ pcMin = "mq_unlink" /\ pcMin' = "wait"
         \/ pcMin = "wait" /\ pcMin' = "exit"
         \/ pcMin = "wait_fallo" /\ pcMin' = "fallo"
  BY DEF SimplesMin, SigactionInt, SigactionAlrm, MqOpen, MqExiste, MqError, ShmOpen,
         ShmExiste, ShmError, Ftruncate, FtruncateError, InicioSigsegv, Bucle, FinBucle, WriteSigpipe, MqUnlink, Wait,
         Pasa, Salida, Preparando
<1>6. PasoMin
  BY <1>5 DEF PasoMin, EstadosMin, Preparando, EnBucle, ConBloque, SinEnviar, Envia, Contando,
              Despidiendo, Despedido, Errores
<1>. QED
  BY <1>2, <1>3, <1>4, <1>6 DEF Simple, PasoParte

LEMMA SimpleReg == TypeOK /\ SimplesReg => Simple
<1>. SUFFICES ASSUME TypeOK, SimplesReg PROVE Simple
  OBVIOUS
<1>1. pcMin \in EstadosMin /\ pcReg \in EstadosReg /\ Entorno
  BY TipoPartes
<1>2. Quietos /\ pcMin' = pcMin /\ parte' = parte
  BY DEF SimplesReg, R_Open, R_OpenFalla, R_Eof, Quietos
<1>3. Entorno'
  BY <1>1 DEF SimplesReg, R_Open, R_OpenFalla, R_Eof, Entorno, banderas, nombres, senales
<1>4. PasoReg
  BY DEF SimplesReg, R_Open, R_OpenFalla, R_Eof, RPasa, PasoReg, EstadosReg
<1>5. PasoMin
  BY <1>1, <1>2 DEF PasoMin
<1>. QED
  BY <1>2, <1>3, <1>4, <1>5 DEF Simple, PasoParte

LEMMA SimpleSenal == TypeOK /\ SimplesSenal => Simple
<1>. SUFFICES ASSUME TypeOK, SimplesSenal PROVE Simple
  OBVIOUS
<1>1. pcMin \in EstadosMin /\ pcReg \in EstadosReg /\ Entorno
  BY TipoPartes
<1>2. Quietos
  BY DEF SimplesSenal, Entrega, SigintRegistrador, SenalMata, SenalSimple, EintrWrite, EintrWait,
         catcher, Alarma, Sigint, ConsumidorAbre, Quietos, regist
<1>7. PasoParte
  <2>1. CASE SigintRegistrador
    <3>1. pcReg' = "muerto" /\ (parte' = FALSE \/ parte' = (pcReg = "dprintf"))
      BY <2>1 DEF SigintRegistrador
    <3>. QED
      BY <3>1 DEF PasoParte
  <2>2. CASE ~SigintRegistrador
    <3>1. parte' = parte
      BY <2>2 DEF SimplesSenal, Entrega, SenalMata, SenalSimple, EintrWrite, EintrWait, catcher,
             Alarma, Sigint, ConsumidorAbre, regist
    <3>. QED
      BY <3>1 DEF PasoParte
  <2>. QED
    BY <2>1, <2>2
<1>3. PasoReg
  BY <1>1 DEF SimplesSenal, Entrega, SigintRegistrador, SenalMata, SenalSimple, EintrWrite,
         EintrWait, catcher, Alarma, Sigint, ConsumidorAbre, regist, PasoReg, EstadosReg
<1>4. \/ pcMin' = pcMin
      \/ pcMin \in {"sigint", "sigalrm"} /\ pcMin' = "muerto"
      \/ pcMin = "write" /\ pcMin' = "wait_fallo"
      \/ pcMin = "wait" /\ pcMin' = "exit"
      \/ pcMin = "wait_fallo" /\ pcMin' = "fallo"
  BY DEF SimplesSenal, Entrega, SigintRegistrador, SenalMata, SenalSimple, EintrWrite,
         EintrWait, SinManejador, Salida, Pasa, Alarma, Sigint, ConsumidorAbre
<1>5. PasoMin
  BY <1>1, <1>4 DEF PasoMin, EstadosMin, Preparando, EnBucle, ConBloque, SinEnviar, Envia, Contando,
              Despidiendo, Despedido, Errores
<1>6. Entorno'
  <2>1. CASE Entrega
    BY <1>1, <2>1 DEF Entrega, SigintRegistrador, SenalMata, SenalSimple, EintrWrite, EintrWait,
         catcher, Entorno, banderas, regist, nombres, senales
  <2>2. CASE Alarma \/ ConsumidorAbre
    BY <1>1, <2>2 DEF Alarma, ConsumidorAbre, Entorno, banderas, regist, nombres, senales
  <2>3. CASE Sigint
    <3>1. PICK D \in Destinos :
            /\ pendMin' = pendMin \cup (IF "minero" \in D THEN {"SIGINT"} ELSE {})
            /\ pendReg' = (pendReg \/ "registrador" \in D)
      BY <2>3 DEF Sigint
    <3>2. /\ enviadasSig' = enviadasSig + 1
          /\ UNCHANGED <<sint, salarm, escritura, parte, mqNombre, shmNombre, alarma>>
      BY <2>3 DEF Sigint, banderas, regist, nombres
    <3>3. pendMin' \subseteq {"SIGINT", "SIGALRM"} /\ pendReg' \in BOOLEAN
      BY <1>1, <3>1 DEF Entorno
    <3>. QED
      BY <1>1, <3>2, <3>3 DEF Entorno
  <2>. QED
    BY <2>1, <2>2, <2>3 DEF SimplesSenal
<1>. QED
  BY <1>2, <1>3, <1>5, <1>6, <1>7 DEF Simple

LEMMA SimpleNada == TypeOK /\ UNCHANGED vars => Simple
<1>. SUFFICES ASSUME TypeOK, UNCHANGED vars PROVE Simple
  OBVIOUS
<1>1. pcMin \in EstadosMin /\ pcReg \in EstadosReg /\ Entorno
  BY TipoPartes
<1>2. UNCHANGED <<pcMin, pcReg, parte>> /\ Quietos
  BY DEF vars, regist, Quietos
<1>3. Entorno'
  BY <1>1, <1>2 DEF vars, banderas, nombres, senales, Entorno
<1>. QED
  BY <1>1, <1>2, <1>3 DEF Simple, PasoMin, PasoReg, PasoParte

-----------------------------------------------------------------------------
(* Prefixes, and the blocks on their way to the file.                       *)

LEMMA PrefijoAppend ==
  ASSUME NEW s \in Seq(Bloque), NEW t \in Seq(Bloque), NEW b \in Bloque, Prefijo(s, t)
  PROVE  Prefijo(s, Append(t, b))
  BY AppendProperties DEF Prefijo

LEMMA PrefijoCrece ==
  ASSUME NEW s \in Seq(Bloque), NEW t \in Seq(Bloque), NEW b \in Bloque,
         Prefijo(s, t), Len(t) = Len(s) + 1, b = t[Len(t)]
  PROVE  Prefijo(Append(s, b), t)
  BY AppendProperties DEF Prefijo

LEMMA PrefijoConcat ==
  ASSUME NEW s \in Seq(Bloque), NEW u \in Seq(Bloque), NEW t \in Seq(Bloque),
         Prefijo(s \o u, t)
  PROVE  Prefijo(s, t)
<1>1. /\ Len(s \o u) = Len(s) + Len(u)
      /\ \A i \in 1 .. Len(s) + Len(u) : (s \o u)[i] = IF i <= Len(s) THEN s[i] ELSE u[i - Len(s)]
  BY ConcatProperties
<1>2. Len(s) \in Nat /\ Len(u) \in Nat
  OBVIOUS
<1>. QED
  BY <1>1, <1>2 DEF Prefijo

LEMMA UnoSolo == ASSUME NEW b \in Bloque PROVE <<b>> \in Seq(Bloque)
  OBVIOUS

LEMMA PrimeroYResto ==
  ASSUME NEW s \in Seq(Bloque), s # <<>>
  PROVE  Head(s) \in Bloque /\ Tail(s) \in Seq(Bloque) /\ <<Head(s)>> \o Tail(s) = s
<1>1. /\ Head(s) \in Bloque /\ Tail(s) \in Seq(Bloque) /\ Len(Tail(s)) = Len(s) - 1
      /\ \A i \in 1 .. Len(Tail(s)) : Tail(s)[i] = s[i + 1]
  BY HeadTailProperties
<1>2. Head(s) = s[1] /\ Len(s) \in Nat \ {0}
  BY EmptySeq
<1>3. PICK h \in Seq(Bloque) : h = <<Head(s)>>
  BY <1>1, UnoSolo
<1>4. Len(h) = 1 /\ h[1] = s[1]
  BY <1>2, <1>3
<1>5. /\ h \o Tail(s) \in Seq(Bloque) /\ Len(h \o Tail(s)) = Len(h) + Len(Tail(s))
      /\ \A i \in 1 .. Len(h) + Len(Tail(s)) :
           (h \o Tail(s))[i] = IF i <= Len(h) THEN h[i] ELSE Tail(s)[i - Len(h)]
  BY <1>1, ConcatProperties
<1>6. Len(h \o Tail(s)) = Len(s) /\ \A i \in 1 .. Len(s) : (h \o Tail(s))[i] = s[i]
  BY <1>1, <1>2, <1>4, <1>5
<1>7. h \o Tail(s) = s
  BY <1>5, <1>6, SeqEqual
<1>. QED
  BY <1>1, <1>3, <1>7

LEMMA EscritosTipo == Datos => EnMano \in Seq(Bloque) /\ Escritos \in Seq(Bloque)
<1>. SUFFICES ASSUME Datos PROVE EnMano \in Seq(Bloque) /\ Escritos \in Seq(Bloque)
  OBVIOUS
<1>1. EnMano \in Seq(Bloque)
  BY UnoSolo, EmptySeq DEF EnMano, Datos
<1>2. registro \o EnMano \in Seq(Bloque)
  BY <1>1, ConcatProperties DEF Datos
<1>. QED
  BY <1>1, <1>2, ConcatProperties DEF Escritos, Datos

LEMMA Asocia ==
  ASSUME NEW r \in Seq(Bloque), NEW s \in Seq(Bloque), NEW t \in Seq(Bloque)
  PROVE  (r \o s) \o t = r \o (s \o t)
  BY ConcatAssociative

(* Writing a block to the pipe puts it behind all the others.               *)
LEMMA DetrasDeTodos ==
  ASSUME NEW r \in Seq(Bloque), NEW t \in Seq(Bloque), NEW b \in Bloque
  PROVE  r \o Append(t, b) = Append(r \o t, b)
<1>1. PICK u \in Seq(Bloque) : u = <<b>>
  BY UnoSolo
<1>2. PICK v \in Seq(Bloque) : v = r \o t
  BY ConcatProperties
<1>3. Append(t, b) = t \o u /\ Append(v, b) = v \o u
  BY <1>1, AppendIsConcat
<1>4. (r \o t) \o u = r \o (t \o u)
  BY Asocia
<1>. QED
  BY <1>2, <1>3, <1>4

(* Reading one leaves it where it was.                                      *)
LEMMA PasaDeMano ==
  ASSUME NEW r \in Seq(Bloque), NEW t \in Seq(Bloque), t # <<>>
  PROVE  (r \o <<Head(t)>>) \o Tail(t) = r \o t
<1>1. Head(t) \in Bloque /\ <<Head(t)>> \o Tail(t) = t
  BY PrimeroYResto
<1>2. PICK h \in Seq(Bloque) : h = <<Head(t)>>
  BY <1>1, UnoSolo
<1>3. PICK w \in Seq(Bloque) : w = Tail(t)
  BY PrimeroYResto
<1>4. (r \o h) \o w = r \o (h \o w)
  BY Asocia
<1>. QED
  BY <1>1, <1>2, <1>3, <1>4

(* A record cut short is that of the block in the Registrador's hands.      *)
LEMMA CortadoSiguiente ==
  ASSUME Datos, Camino, pcReg = "dprintf"
  PROVE  Prefijo(Append(registro, leido), minados)
<1>1. /\ leido \in Bloque /\ registro \in Seq(Bloque) /\ tuberia \in Seq(Bloque)
      /\ minados \in Seq(Bloque)
  BY DEF Datos
<1>2. Append(registro, leido) \in Seq(Bloque) /\ Append(registro, leido) = registro \o <<leido>>
  BY <1>1, AppendProperties, AppendIsConcat
<1>3. Escritos = Append(registro, leido) \o tuberia /\ Prefijo(Escritos, minados)
  BY <1>2 DEF Escritos, EnMano, Camino
<1>. QED
  BY <1>1, <1>2, <1>3, PrefijoConcat

-----------------------------------------------------------------------------
(* What keeps each part of the invariant.                                   *)

LEMMA MinaQuieta ==
  ASSUME Mina, UNCHANGED <<bl_actual, auxiliar, minados>>,
         pcMin' \in Preparando => pcMin \in Preparando,
         pcMin' \in EnBucle => pcMin \in EnBucle,
         pcMin' \in ConBloque => pcMin \in ConBloque
  PROVE  Mina'
<1>1. Cadena'
  BY DEF Mina, Cadena
<1>2. Objetivo(Len(minados))' = Objetivo(Len(minados))
  BY DEF Objetivo
<1>. QED
  BY <1>1, <1>2 DEF Mina

LEMMA CaminoQuieto ==
  ASSUME Datos, Camino, PasoReg, PasoParte, UNCHANGED <<leido, registro, tuberia, minados>>,
         pcMin' = "write" => pcMin = "write",
         pcMin' \notin Errores \cup {"write"} => pcMin \notin Errores \cup {"write"}
  PROVE  Camino'
<1>1. pcReg' # "muerto" => Escritos' = Escritos
  BY DEF PasoReg, Escritos, EnMano
<1>2. Prefijo(registro, minados)' /\ (pcReg' = "exit" => tuberia' = <<>>)
  BY DEF Camino, Prefijo, PasoReg
<1>4. Cortado'
  <2>. SUFFICES ASSUME parte' PROVE pcReg' = "muerto" /\ Prefijo(Append(registro, leido), minados)
    BY DEF Cortado, Prefijo
  <2>1. CASE parte
    BY <2>1 DEF Camino, Cortado, PasoReg
  <2>2. CASE ~parte
    BY <2>2, CortadoSiguiente DEF PasoParte
  <2>. QED
    BY <2>1, <2>2
<1>3. ASSUME pcReg' # "muerto"
      PROVE  /\ Prefijo(Escritos, minados)'
             /\ pcMin' = "write" => Len(minados') = Len(Escritos') + 1
             /\ pcMin' \in Errores => Len(minados') <= Len(Escritos') + 1
             /\ pcMin' \notin Errores \cup {"write"} => Len(minados') = Len(Escritos')
  <2>1. pcReg # "muerto"
    BY <1>3 DEF PasoReg
  <2>2. Prefijo(Escritos, minados)'
    BY <1>1, <1>3, <2>1 DEF Camino, Prefijo
  <2>. QED
    BY <1>1, <1>3, <2>1, <2>2 DEF Camino
<1>. QED
  BY <1>2, <1>3, <1>4 DEF Camino

LEMMA OrdenQuieto ==
  ASSUME Orden, EnvioNoBloquea', UNCHANGED <<enviadosMq, minados>>,
         pcMin \in Despedido => pcMin' \in Despedido,
         pcMin' \in SinEnviar => pcMin \in SinEnviar
  PROVE  Orden'
<1>1. ColaEnOrden'
  BY DEF Orden, ColaEnOrden
<1>. QED
  BY <1>1 DEF Orden

LEMMA SimpleSigue == Inductiva /\ Simple => Inductiva'
<1>. SUFFICES ASSUME Inductiva, Simple PROVE Inductiva'
  OBVIOUS
<1>1. UNCHANGED <<bl_actual, bl_ultimo, num_mineros, auxiliar, curmsgs, leido, registro,
                  tuberia, mq, minados, enviadosMq>>
  BY DEF Simple, Quietos, local, historia
<1>2. Tipo'
  <2>1. Datos'
    BY <1>1, TipoPartes DEF Inductiva, Tipo, Datos
  <2>2. TypeOK'
    BY <2>1, TipoPartesPrima DEF Simple, PasoMin, PasoReg
  <2>. QED
    BY <1>1, <2>2 DEF Inductiva, Tipo, Simple, PasoMin
<1>3. Mina'
  BY <1>1, MinaQuieta DEF Inductiva, Simple, PasoMin
<1>4. Camino'
  <2>1. Datos
    BY TipoPartes DEF Inductiva, Tipo
  <2>. QED
    BY <1>1, <2>1, CaminoQuieto DEF Inductiva, Simple, PasoMin
<1>5. EnvioNoBloquea'
  BY <1>1 DEF Inductiva, Orden, EnvioNoBloquea, Simple, PasoMin, Envia
<1>6. Orden'
  BY <1>1, <1>5, OrdenQuieto DEF Inductiva, Simple, PasoMin
<1>. QED
  BY <1>2, <1>3, <1>4, <1>6 DEF Inductiva

-----------------------------------------------------------------------------
(* The Minero's steps on blocks and queues.                                 *)

LEMMA InicioSigue == Inductiva /\ Inicio => Inductiva'
<1>. SUFFICES ASSUME Inductiva, Inicio PROVE Inductiva'
  OBVIOUS
<1>1. /\ pcMin = "inicio" /\ pcMin' = "bucle"
      /\ bl_ultimo' = BloqueUltimo /\ bl_actual' = BloqueInicial /\ num_mineros' = 2
      /\ UNCHANGED <<auxiliar, curmsgs, pcReg, leido, registro, parte, tuberia, mq, minados, enviadosMq>>
      /\ UNCHANGED <<banderas, escritura, nombres, senales>>
  BY DEF Inicio, Pasa, regist, historia
<1>2. Entorno /\ Datos /\ pcReg \in EstadosReg /\ Len(mq) <= MAX_MSG
  BY TipoPartes DEF Inductiva, Tipo
<1>3. Tipo'
  <2>1. Entorno'
    BY <1>1, <1>2 DEF Entorno, banderas, nombres, senales
  <2>2. Datos'
    BY <1>1, <1>2, BloquesTipo DEF Datos
  <2>. QED
    BY <1>1, <1>2, <2>1, <2>2, TipoPartesPrima DEF Tipo, EstadosMin
<1>4. Mina'
  <2>1. minados = <<>> /\ Len(minados) = 0
    BY <1>1, EmptySeq DEF Inductiva, Mina, Preparando
  <2>2. Cadena' /\ \A i \in 1 .. Len(minados') : ~minados'[i].fin
    BY <1>1 DEF Inductiva, Mina, Cadena
  <2>3. Objetivo(Len(minados))' = 0
    BY <1>1, <2>1 DEF Objetivo
  <2>. QED
    BY <1>1, <2>1, <2>2, <2>3, InicialEs DEF Mina, Preparando, EnBucle, ConBloque
<1>5. Camino'
  BY <1>1, <1>2, CaminoQuieto DEF Inductiva, PasoReg, PasoParte, Errores
<1>6. EnvioNoBloquea'
  BY <1>1 DEF EnvioNoBloquea
<1>7. Orden'
  BY <1>1, <1>6, OrdenQuieto DEF Inductiva, Despedido, SinEnviar
<1>. QED
  BY <1>3, <1>4, <1>5, <1>7 DEF Inductiva

LEMMA MinarSigue == Inductiva /\ Minar => Inductiva'
<1>. SUFFICES ASSUME Inductiva, Minar PROVE Inductiva'
  OBVIOUS
<1>1. PICK s \in manage_threads(bl_actual.objetivo) : bl_actual' = Minado(bl_actual, s)
  BY DEF Minar
<1>2. /\ pcMin = "minar" /\ pcMin' = "write"
      /\ auxiliar' = bl_actual' /\ minados' = Append(minados, bl_actual')
      /\ UNCHANGED <<bl_ultimo, num_mineros, curmsgs, pcReg, leido, registro, parte, tuberia, mq, enviadosMq>>
      /\ UNCHANGED <<banderas, escritura, nombres, senales>>
  BY DEF Minar, Pasa, regist
<1>3. /\ Entorno /\ Datos /\ pcReg \in EstadosReg /\ Len(mq) <= MAX_MSG
      /\ Mina /\ Camino /\ Orden /\ num_mineros = 2
  BY <1>2, TipoPartes DEF Inductiva, Tipo, Contando, EnBucle
<1>4. bl_actual \in Bloque /\ bl_actual.objetivo \in Int /\ minados \in Seq(Bloque)
  BY <1>3 DEF Datos, Bloque
<1>5. s \in Int /\ (bl_actual.objetivo = -1 => pow_hash(s) # bl_actual.objetivo)
  BY <1>4, Hallado
<1>6. PICK n \in Nat : n = Len(minados)
  BY <1>4
<1>7. /\ bl_actual.id = n + 1 /\ bl_actual.objetivo = Objetivo(n)
      /\ bl_actual.votos_positivos = 0 /\ ~bl_actual.fin
  BY <1>2, <1>3, <1>6 DEF Mina, EnBucle
<1>8. PICK b \in Bloque : b = bl_actual'
  BY <1>1, <1>4, <1>5, MinadoEs
<1>9. /\ b.id = n + 1 /\ b.objetivo = Objetivo(n) /\ b.solucion = s /\ ~b.fin
      /\ b.votos_positivos = IF Resuelto(b) THEN 1 ELSE 0
      /\ b.objetivo = -1 => ~Resuelto(b)
  <2>1. /\ b.id = bl_actual.id /\ b.objetivo = bl_actual.objetivo /\ b.solucion = s
        /\ b.fin = bl_actual.fin /\ b.votos_positivos = Voto(bl_actual, s)
    BY <1>1, <1>4, <1>5, <1>8, MinadoEs
  <2>2. Resuelto(b) <=> pow_hash(s) = bl_actual.objetivo
    BY <2>1 DEF Resuelto
  <2>3. Voto(bl_actual, s) = IF Resuelto(b) THEN 1 ELSE 0
    BY <1>7, <2>2 DEF Voto
  <2>. QED
    BY <1>5, <1>7, <2>1, <2>2, <2>3
<1>10. /\ minados' \in Seq(Bloque) /\ Len(minados') = n + 1 /\ minados'[n + 1] = b
       /\ \A i \in 1 .. n : minados'[i] = minados[i]
  BY <1>2, <1>4, <1>6, <1>8, AppendProperties
<1>11. Tipo'
  <2>1. Entorno'
    BY <1>2, <1>3 DEF Entorno, banderas, nombres, senales
  <2>2. Datos'
    BY <1>2, <1>3, <1>8, <1>10 DEF Datos
  <2>. QED
    BY <1>2, <1>3, <2>1, <2>2, TipoPartesPrima DEF Tipo, EstadosMin
<1>12. Mina'
  <2>1. ASSUME NEW i \in 1 .. n + 1
        PROVE  /\ minados'[i].id = i
               /\ minados'[i].objetivo = IF i = 1 THEN 0 ELSE minados'[i - 1].solucion
               /\ minados'[i].votos_positivos = IF Resuelto(minados'[i]) THEN 1 ELSE 0
               /\ (i > 1 /\ minados'[i].objetivo = -1) => ~Resuelto(minados'[i])
               /\ ~minados'[i].fin
    <3>1. CASE i = n + 1
      <4>1. Objetivo(n) = IF i = 1 THEN 0 ELSE minados'[i - 1].solucion
        BY <1>10, <3>1 DEF Objetivo
      <4>. QED
        BY <1>9, <1>10, <3>1, <4>1
    <3>2. CASE i # n + 1
      <4>1. i \in 1 .. n /\ minados'[i] = minados[i]
        BY <1>10, <3>2
      <4>2. i # 1 => minados'[i - 1] = minados[i - 1]
        BY <1>10, <4>1
      <4>. QED
        BY <1>3, <1>6, <4>1, <4>2 DEF Mina, Cadena
    <3>. QED
      BY <3>1, <3>2
  <2>2. Cadena' /\ \A i \in 1 .. Len(minados') : ~minados'[i].fin
    BY <1>10, <2>1 DEF Cadena
  <2>3. Len(minados') > 0 /\ bl_actual' = minados'[Len(minados')] /\ auxiliar' = bl_actual'
    BY <1>2, <1>8, <1>10
  <2>. QED
    BY <1>2, <2>2, <2>3 DEF Mina, Preparando, EnBucle, ConBloque
<1>13. Camino'
  <2>1. Escritos' = Escritos /\ pcReg' = pcReg
    BY <1>2 DEF Escritos, EnMano
  <2>2. Prefijo(registro, minados)' /\ (pcReg' = "exit" => tuberia' = <<>>)
    BY <1>2, <1>3, <1>8, PrefijoAppend DEF Camino, Datos
  <2>4. Cortado'
    <3>. SUFFICES ASSUME parte PROVE pcReg = "muerto" /\ Prefijo(Append(registro, leido), minados')
      BY <1>2 DEF Cortado, Prefijo
    <3>1. /\ pcReg = "muerto" /\ Prefijo(Append(registro, leido), minados)
          /\ Append(registro, leido) \in Seq(Bloque)
      BY <1>3, AppendProperties DEF Camino, Cortado, Datos
    <3>. QED
      BY <1>2, <1>4, <1>8, <3>1, PrefijoAppend
  <2>3. ASSUME pcReg # "muerto"
        PROVE  Prefijo(Escritos, minados)' /\ Len(minados') = Len(Escritos') + 1
    <3>1. Prefijo(Escritos, minados) /\ Len(minados) = Len(Escritos)
      BY <1>2, <1>3, <2>3 DEF Camino, Errores
    <3>2. Prefijo(Escritos, minados')
      BY <1>2, <1>3, <1>4, <1>8, <3>1, EscritosTipo, PrefijoAppend
    <3>. QED
      BY <1>6, <1>10, <2>1, <3>1, <3>2 DEF Prefijo
  <2>. QED
    BY <1>2, <2>1, <2>2, <2>3, <2>4 DEF Camino, Errores
<1>14. Orden'
  <2>1. EnvioNoBloquea'
    BY <1>2 DEF EnvioNoBloquea
  <2>2. ASSUME NEW i \in 1 .. Len(enviadosMq)
        PROVE  /\ ~enviadosMq[i].fin /\ enviadosMq[i].id \in 1 .. n
               /\ enviadosMq[i] = minados'[enviadosMq[i].id]
               /\ i > 1 => enviadosMq[i - 1].id < enviadosMq[i].id
    <3>1. ~enviadosMq[i].fin
      BY <1>2, <1>3 DEF Orden, Despedido
    <3>2. /\ enviadosMq[i].id \in 1 .. n /\ enviadosMq[i] = minados[enviadosMq[i].id]
          /\ i > 1 => enviadosMq[i - 1].id < enviadosMq[i].id
      BY <1>3, <1>6, <3>1 DEF Orden, ColaEnOrden
    <3>. QED
      BY <1>10, <3>1, <3>2
  <2>3. ColaEnOrden'
    <3>1. ASSUME NEW i \in 1 .. Len(enviadosMq')
          PROVE  /\ ~enviadosMq'[i].fin /\ enviadosMq'[i].id \in 1 .. Len(minados')
                 /\ enviadosMq'[i] = minados'[enviadosMq'[i].id]
                 /\ i > 1 => enviadosMq'[i - 1].id < enviadosMq'[i].id
      BY <1>2, <1>10, <2>2
    <3>. QED
      BY <3>1 DEF ColaEnOrden
  <2>4. \A i \in 1 .. Len(enviadosMq') : ~enviadosMq'[i].fin /\ enviadosMq'[i].id < Len(minados')
    BY <1>2, <1>10, <2>2
  <2>. QED
    BY <2>1, <2>3, <2>4 DEF Orden
<1>. QED
  BY <1>11, <1>12, <1>13, <1>14 DEF Inductiva

LEMMA WriteSigue == Inductiva /\ Write => Inductiva'
<1>. SUFFICES ASSUME Inductiva, Write PROVE Inductiva'
  OBVIOUS
<1>1. /\ ~TerminadoReg /\ pcMin = "write" /\ pcMin' = "getattr" /\ tuberia' = Append(tuberia, auxiliar)
      /\ UNCHANGED <<bl_actual, bl_ultimo, num_mineros, auxiliar, curmsgs, pcReg, leido,
                     registro, parte, mq, minados, enviadosMq>>
      /\ UNCHANGED <<banderas, escritura, nombres, senales>>
  BY DEF Write, Pasa, regist, local, historia
<1>2. /\ Entorno /\ Datos /\ pcReg \in EstadosReg /\ Len(mq) <= MAX_MSG
      /\ Mina /\ Camino /\ Orden /\ num_mineros = 2
  BY <1>1, TipoPartes DEF Inductiva, Tipo, Contando, ConBloque
<1>3. tuberia \in Seq(Bloque) /\ auxiliar \in Bloque /\ registro \in Seq(Bloque)
      /\ EnMano \in Seq(Bloque) /\ Escritos \in Seq(Bloque) /\ minados \in Seq(Bloque)
  BY <1>2, EscritosTipo DEF Datos
<1>4. tuberia' \in Seq(Bloque)
  BY <1>1, <1>3, AppendProperties
<1>5. Tipo'
  <2>1. Entorno'
    BY <1>1, <1>2 DEF Entorno, banderas, nombres, senales
  <2>2. Datos'
    BY <1>1, <1>2, <1>4 DEF Datos
  <2>. QED
    BY <1>1, <1>2, <2>1, <2>2, TipoPartesPrima DEF Tipo, EstadosMin
<1>6. Mina'
  BY <1>1, <1>2, MinaQuieta DEF Preparando, EnBucle, ConBloque
<1>7. Camino'
  <2>1. Escritos' = Append(Escritos, auxiliar)
    <3>1. PICK r \in Seq(Bloque) : r = registro \o EnMano
      BY <1>3, ConcatProperties
    <3>2. Escritos = r \o tuberia /\ Escritos' = r \o tuberia'
      BY <1>1, <3>1 DEF Escritos, EnMano
    <3>3. r \o Append(tuberia, auxiliar) = Append(r \o tuberia, auxiliar)
      BY <1>3, DetrasDeTodos
    <3>. QED
      BY <1>1, <3>2, <3>3
  <2>2. pcReg # "exit" /\ pcReg # "muerto"
    BY <1>1 DEF TerminadoReg
  <2>3. Prefijo(Escritos, minados) /\ Len(minados) = Len(Escritos) + 1
    BY <1>1, <1>2, <2>2 DEF Camino
  <2>4. auxiliar = minados[Len(minados)]
    BY <1>1, <1>2 DEF Mina, ConBloque
  <2>5. Prefijo(Append(Escritos, auxiliar), minados)
    BY <1>3, <2>3, <2>4, PrefijoCrece
  <2>6. Len(Append(Escritos, auxiliar)) = Len(minados)
    BY <1>3, <2>3, AppendProperties
  <2>7. Prefijo(Escritos, minados)' /\ Len(minados') = Len(Escritos')
    BY <1>1, <2>1, <2>5, <2>6 DEF Prefijo
  <2>8. Prefijo(registro, minados)'
    BY <1>1, <1>2 DEF Camino, Prefijo
  <2>9. Cortado'
    BY <1>1, <1>2 DEF Camino, Cortado, Prefijo
  <2>. QED
    BY <1>1, <2>2, <2>7, <2>8, <2>9 DEF Camino, Errores
<1>8. EnvioNoBloquea'
  BY <1>1 DEF EnvioNoBloquea
<1>9. Orden'
  BY <1>1, <1>2, <1>8, OrdenQuieto DEF Despedido, SinEnviar
<1>. QED
  BY <1>5, <1>6, <1>7, <1>9 DEF Inductiva

(* Asking how many messages there are, and unlinking the shared memory.     *)
Consultas == Getattr \/ FinGetattr \/ ShmUnlink

LEMMA ConsultasSiguen == Inductiva /\ Consultas => Inductiva'
<1>. SUFFICES ASSUME Inductiva, Consultas PROVE Inductiva'
  OBVIOUS
<1>1. /\ UNCHANGED <<bl_actual, bl_ultimo, auxiliar, pcReg, leido, registro, parte, tuberia, mq,
                     minados, enviadosMq>>
      /\ UNCHANGED <<banderas, escritura, mqNombre, senales>>
      /\ shmNombre' \in {shmNombre, FALSE}
      /\ curmsgs' \in {curmsgs, Len(mq)}
      /\ \/ pcMin = "getattr" /\ pcMin' \in {"mq_send", "siguiente"} /\ num_mineros' = num_mineros
         \/ pcMin = "fin_getattr" /\ pcMin' \in {"fin_send", "shm_unlink"} /\ num_mineros' = num_mineros
         \/ pcMin = "shm_unlink" /\ pcMin' = "mq_unlink" /\ num_mineros' = num_mineros - 1
      /\ pcMin' \in Envia => Len(mq) < MAX_MSG
  BY DEF Consultas, Getattr, FinGetattr, ShmUnlink, Pasa, regist, local, nombres, historia, Envia
<1>2. /\ Entorno /\ Datos /\ pcReg \in EstadosReg /\ Len(mq) <= MAX_MSG
      /\ Mina /\ Camino /\ Orden /\ num_mineros = 2
  BY <1>1, TipoPartes DEF Inductiva, Tipo, Contando, ConBloque, Despidiendo
<1>3. Tipo'
  <2>1. Entorno'
    BY <1>1, <1>2 DEF Entorno, banderas, senales
  <2>2. Len(mq) \in 0 .. MAX_MSG /\ num_mineros' \in Nat
    BY <1>1, <1>2, MineroAssumption DEF Datos
  <2>3. Datos'
    BY <1>1, <1>2, <2>2 DEF Datos
  <2>4. pcMin' \in Contando => num_mineros' = 2
    BY <1>1, <1>2 DEF Contando, EnBucle, ConBloque, Despidiendo
  <2>5. pcMin' \in EstadosMin
    BY <1>1 DEF EstadosMin
  <2>. QED
    BY <1>1, <1>2, <2>1, <2>3, <2>4, <2>5, TipoPartesPrima DEF Tipo
<1>4. Mina'
  BY <1>1, <1>2, MinaQuieta DEF Preparando, EnBucle, ConBloque
<1>5. Camino'
  BY <1>1, <1>2, CaminoQuieto DEF PasoReg, PasoParte, Errores
<1>6. EnvioNoBloquea'
  BY <1>1 DEF EnvioNoBloquea, Envia
<1>7. Orden'
  BY <1>1, <1>2, <1>6, OrdenQuieto DEF Despedido, SinEnviar
<1>. QED
  BY <1>3, <1>4, <1>5, <1>7 DEF Inductiva

LEMMA SiguienteSigue == Inductiva /\ Siguiente => Inductiva'
<1>. SUFFICES ASSUME Inductiva, Siguiente PROVE Inductiva'
  OBVIOUS
<1>1. /\ pcMin = "siguiente" /\ pcMin' = "bucle"
      /\ bl_ultimo' = [bl_actual EXCEPT !.monedas = bl_ultimo.monedas]
      /\ bl_actual' = [BloqueInicial EXCEPT !.id = bl_actual.id + 1,
                                            !.monedas = bl_actual.monedas,
                                            !.objetivo = bl_actual.solucion]
      /\ UNCHANGED <<num_mineros, auxiliar, curmsgs, pcReg, leido, registro, parte, tuberia, mq,
                     minados, enviadosMq>>
      /\ UNCHANGED <<banderas, escritura, nombres, senales>>
  BY DEF Siguiente, Pasa, regist, historia
<1>2. /\ Entorno /\ Datos /\ pcReg \in EstadosReg /\ Len(mq) <= MAX_MSG
      /\ Mina /\ Camino /\ Orden /\ num_mineros = 2
  BY <1>1, TipoPartes DEF Inductiva, Tipo, Contando, ConBloque
<1>3. PICK u \in Nat : u = bl_ultimo.monedas
  BY <1>2 DEF Datos, Bloque
<1>4. [bl_actual EXCEPT !.monedas = u] \in Bloque
  <2>1. PICK c \in Bloque : c = bl_actual
    BY <1>2 DEF Datos
  <2>2. [c EXCEPT !.monedas = u] \in Bloque
    BY DEF Bloque
  <2>. QED
    BY <2>1, <2>2
<1>5. PICK k \in Int, m \in Nat, o \in Int :
         k = bl_actual.id + 1 /\ m = bl_actual.monedas /\ o = bl_actual.solucion
  <2>1. bl_actual \in Bloque
    BY <1>2 DEF Datos
  <2>2. bl_actual.id \in Int /\ bl_actual.monedas \in Nat /\ bl_actual.solucion \in Int
    BY <2>1 DEF Bloque
  <2>3. bl_actual.id + 1 \in Int
    BY <2>2
  <2>. QED
    BY <2>2, <2>3
<1>6. PICK b \in Bloque : b = [BloqueInicial EXCEPT !.id = k, !.monedas = m, !.objetivo = o]
  <2>1. BloqueInicial \in Bloque
    BY BloquesTipo
  <2>2. [BloqueInicial EXCEPT !.id = k, !.monedas = m, !.objetivo = o] \in Bloque
    BY <2>1 DEF Bloque
  <2>. QED
    BY <2>2
<1>7. b.id = k /\ b.objetivo = o /\ b.votos_positivos = 0 /\ ~b.fin
  <2>1. BloqueInicial \in Bloque
    BY BloquesTipo
  <2>. QED
    BY <1>6, <2>1, InicialEs DEF Bloque
<1>8. bl_actual' = b
  BY <1>1, <1>5, <1>6
<1>9. Tipo'
  <2>1. Entorno'
    BY <1>1, <1>2 DEF Entorno, banderas, nombres, senales
  <2>2. Datos'
    BY <1>1, <1>2, <1>3, <1>4, <1>8 DEF Datos
  <2>. QED
    BY <1>1, <1>2, <2>1, <2>2, TipoPartesPrima DEF Tipo, EstadosMin
<1>10. Mina'
  <2>1. PICK n \in Nat : n = Len(minados)
    BY <1>2 DEF Datos
  <2>2. n > 0 /\ bl_actual = minados[n]
    BY <1>1, <1>2, <2>1 DEF Mina, ConBloque
  <2>3. bl_actual.id = n /\ Objetivo(n) = bl_actual.solucion
    BY <1>2, <2>1, <2>2 DEF Mina, Cadena, Objetivo
  <2>4. Cadena' /\ \A i \in 1 .. Len(minados') : ~minados'[i].fin
    BY <1>1, <1>2 DEF Mina, Cadena
  <2>5. Objetivo(Len(minados))' = o
    BY <1>1, <1>5, <2>1, <2>3 DEF Objetivo
  <2>. QED
    BY <1>1, <1>5, <1>7, <1>8, <2>1, <2>3, <2>4, <2>5 DEF Mina, Preparando, EnBucle, ConBloque
<1>11. Camino'
  BY <1>1, <1>2, CaminoQuieto DEF PasoReg, PasoParte, Errores
<1>12. EnvioNoBloquea'
  BY <1>1 DEF EnvioNoBloquea
<1>13. Orden'
  BY <1>1, <1>2, <1>12, OrdenQuieto DEF Despedido, SinEnviar
<1>. QED
  BY <1>9, <1>10, <1>11, <1>13 DEF Inductiva

LEMMA MqSendSigue == Inductiva /\ MqSend => Inductiva'
<1>. SUFFICES ASSUME Inductiva, MqSend PROVE Inductiva'
  OBVIOUS
<1>1. /\ Len(mq) < MAX_MSG /\ pcMin = "mq_send" /\ pcMin' = "siguiente"
      /\ mq' = Append(mq, auxiliar) /\ enviadosMq' = Append(enviadosMq, auxiliar)
      /\ UNCHANGED <<bl_actual, bl_ultimo, num_mineros, auxiliar, curmsgs, pcReg, leido,
                     registro, parte, tuberia, minados>>
      /\ UNCHANGED <<banderas, escritura, nombres, senales>>
  BY DEF MqSend, Pasa, regist, local
<1>2. /\ Entorno /\ Datos /\ pcReg \in EstadosReg
      /\ Mina /\ Camino /\ Orden /\ num_mineros = 2
  BY <1>1, TipoPartes DEF Inductiva, Tipo, Contando, ConBloque
<1>3. auxiliar \in Bloque /\ mq \in Seq(Bloque) /\ enviadosMq \in Seq(Bloque)
  BY <1>2 DEF Datos
<1>4. mq' \in Seq(Bloque) /\ Len(mq') <= MAX_MSG
  BY <1>1, <1>3, MineroAssumption, AppendProperties
<1>5. PICK n \in Nat : n = Len(minados)
  BY <1>2 DEF Datos
<1>6. PICK e \in Nat : e = Len(enviadosMq)
  BY <1>3
<1>7. /\ enviadosMq' \in Seq(Bloque) /\ Len(enviadosMq') = e + 1 /\ enviadosMq'[e + 1] = auxiliar
      /\ \A i \in 1 .. e : enviadosMq'[i] = enviadosMq[i]
  BY <1>1, <1>3, <1>6, AppendProperties
<1>8. n > 0 /\ auxiliar = minados[n] /\ auxiliar.id = n /\ ~auxiliar.fin
  BY <1>1, <1>2, <1>5 DEF Mina, Cadena, ConBloque
<1>9. Tipo'
  <2>1. Entorno'
    BY <1>1, <1>2 DEF Entorno, banderas, nombres, senales
  <2>2. Datos'
    BY <1>1, <1>2, <1>4, <1>7 DEF Datos
  <2>. QED
    BY <1>1, <1>2, <1>4, <2>1, <2>2, TipoPartesPrima DEF Tipo, EstadosMin
<1>10. Mina'
  BY <1>1, <1>2, MinaQuieta DEF Preparando, EnBucle, ConBloque
<1>11. Camino'
  BY <1>1, <1>2, CaminoQuieto DEF PasoReg, PasoParte, Errores
<1>12. Orden'
  <2>1. EnvioNoBloquea'
    BY <1>1 DEF EnvioNoBloquea
  <2>2. ASSUME NEW i \in 1 .. e
        PROVE  /\ ~enviadosMq[i].fin /\ enviadosMq[i].id \in 1 .. n
               /\ enviadosMq[i] = minados[enviadosMq[i].id]
               /\ i > 1 => enviadosMq[i - 1].id < enviadosMq[i].id
               /\ enviadosMq[i].id < n
    <3>1. ~enviadosMq[i].fin /\ enviadosMq[i].id < n
      BY <1>1, <1>2, <1>5, <1>6 DEF Orden, Despedido, SinEnviar
    <3>. QED
      BY <1>2, <1>5, <1>6, <3>1 DEF Orden, ColaEnOrden
  <2>3. ASSUME NEW i \in 1 .. e + 1
        PROVE  /\ ~enviadosMq'[i].fin /\ enviadosMq'[i].id \in 1 .. n
               /\ enviadosMq'[i] = minados[enviadosMq'[i].id]
               /\ i > 1 => enviadosMq'[i - 1].id < enviadosMq'[i].id
    <3>1. CASE i = e + 1
      <4>1. i > 1 => enviadosMq'[i - 1].id < n
        <5>1. SUFFICES ASSUME i > 1 PROVE enviadosMq'[i - 1].id < n
          OBVIOUS
        <5>2. e \in 1 .. e /\ enviadosMq'[i - 1] = enviadosMq[e]
          BY <1>7, <3>1, <5>1
        <5>. QED
          BY <2>2, <5>2
      <4>. QED
        BY <1>7, <1>8, <3>1, <4>1
    <3>2. CASE i # e + 1
      <4>1. i \in 1 .. e /\ enviadosMq'[i] = enviadosMq[i]
        BY <1>7, <3>2
      <4>2. i > 1 => enviadosMq'[i - 1] = enviadosMq[i - 1]
        BY <1>7, <4>1
      <4>. QED
        BY <2>2, <4>1, <4>2
    <3>. QED
      BY <3>1, <3>2
  <2>4. ColaEnOrden'
    BY <1>1, <1>5, <1>7, <2>3 DEF ColaEnOrden
  <2>5. \A i \in 1 .. Len(enviadosMq') : ~enviadosMq'[i].fin
    BY <1>7, <2>3
  <2>. QED
    BY <1>1, <2>1, <2>4, <2>5 DEF Orden, SinEnviar
<1>. QED
  BY <1>9, <1>10, <1>11, <1>12 DEF Inductiva

LEMMA FinSendSigue == Inductiva /\ FinSend => Inductiva'
<1>. SUFFICES ASSUME Inductiva, FinSend PROVE Inductiva'
  OBVIOUS
<1>1. /\ Len(mq) < MAX_MSG /\ pcMin = "fin_send" /\ pcMin' = "shm_unlink"
      /\ mq' = Append(mq, BloqueFin) /\ enviadosMq' = Append(enviadosMq, BloqueFin)
      /\ UNCHANGED <<bl_actual, bl_ultimo, num_mineros, auxiliar, curmsgs, pcReg, leido,
                     registro, parte, tuberia, minados>>
      /\ UNCHANGED <<banderas, escritura, nombres, senales>>
  BY DEF FinSend, Pasa, regist, local
<1>2. /\ Entorno /\ Datos /\ pcReg \in EstadosReg
      /\ Mina /\ Camino /\ Orden /\ num_mineros = 2
  BY <1>1, TipoPartes DEF Inductiva, Tipo, Contando, Despidiendo
<1>3. BloqueFin \in Bloque /\ mq \in Seq(Bloque) /\ enviadosMq \in Seq(Bloque)
  BY <1>2, BloquesTipo DEF Datos
<1>4. mq' \in Seq(Bloque) /\ Len(mq') <= MAX_MSG
  BY <1>1, <1>3, MineroAssumption, AppendProperties
<1>5. PICK e \in Nat : e = Len(enviadosMq)
  BY <1>3
<1>6. /\ enviadosMq' \in Seq(Bloque) /\ Len(enviadosMq') = e + 1 /\ enviadosMq'[e + 1] = BloqueFin
      /\ \A i \in 1 .. e : enviadosMq'[i] = enviadosMq[i]
  BY <1>1, <1>3, <1>5, AppendProperties
<1>7. Tipo'
  <2>1. Entorno'
    BY <1>1, <1>2 DEF Entorno, banderas, nombres, senales
  <2>2. Datos'
    BY <1>1, <1>2, <1>4, <1>6 DEF Datos
  <2>. QED
    BY <1>1, <1>2, <1>4, <2>1, <2>2, TipoPartesPrima DEF Tipo, EstadosMin
<1>8. Mina'
  BY <1>1, <1>2, MinaQuieta DEF Preparando, EnBucle, ConBloque
<1>9. Camino'
  BY <1>1, <1>2, CaminoQuieto DEF PasoReg, PasoParte, Errores
<1>10. Orden'
  <2>1. EnvioNoBloquea'
    BY <1>1 DEF EnvioNoBloquea
  <2>2. ASSUME NEW i \in 1 .. e
        PROVE  /\ ~enviadosMq'[i].fin /\ enviadosMq'[i].id \in 1 .. Len(minados)
               /\ enviadosMq'[i] = minados[enviadosMq'[i].id]
               /\ i > 1 => enviadosMq'[i - 1].id < enviadosMq'[i].id
    <3>1. ~enviadosMq[i].fin
      BY <1>1, <1>2, <1>5 DEF Orden, Despedido
    <3>2. /\ enviadosMq[i].id \in 1 .. Len(minados) /\ enviadosMq[i] = minados[enviadosMq[i].id]
          /\ i > 1 => enviadosMq[i - 1].id < enviadosMq[i].id
      BY <1>2, <1>5, <3>1 DEF Orden, ColaEnOrden
    <3>3. enviadosMq'[i] = enviadosMq[i] /\ (i > 1 => enviadosMq'[i - 1] = enviadosMq[i - 1])
      BY <1>6
    <3>. QED
      BY <3>1, <3>2, <3>3
  <2>3. BloqueFin.fin
    BY DEF BloqueFin
  <2>4. ASSUME NEW i \in 1 .. e + 1
        PROVE  IF enviadosMq'[i].fin THEN i = e + 1
               ELSE /\ enviadosMq'[i].id \in 1 .. Len(minados)
                    /\ enviadosMq'[i] = minados[enviadosMq'[i].id]
                    /\ i > 1 => enviadosMq'[i - 1].id < enviadosMq'[i].id
    <3>1. CASE i = e + 1
      BY <1>6, <2>3, <3>1
    <3>2. CASE i # e + 1
      BY <2>2, <3>2
    <3>. QED
      BY <3>1, <3>2
  <2>5. ColaEnOrden'
    BY <1>1, <1>6, <2>4 DEF ColaEnOrden
  <2>. QED
    BY <1>1, <2>1, <2>5 DEF Orden, Despedido, SinEnviar
<1>. QED
  BY <1>7, <1>8, <1>9, <1>10 DEF Inductiva

-----------------------------------------------------------------------------
(* The Registrador's steps on blocks, and the monitor program's.            *)

LEMMA ReadSigue == Inductiva /\ R_Read => Inductiva'
<1>. SUFFICES ASSUME Inductiva, R_Read PROVE Inductiva'
  OBVIOUS
<1>1. /\ pcReg = "read" /\ pcReg' = "dprintf" /\ tuberia # <<>>
      /\ leido' = Head(tuberia) /\ tuberia' = Tail(tuberia)
      /\ UNCHANGED <<pcMin, bl_actual, bl_ultimo, num_mineros, auxiliar, curmsgs,
                     registro, parte, mq, minados, enviadosMq>>
      /\ UNCHANGED <<banderas, escritura, nombres, senales>>
  BY DEF R_Read, RPasa, local, historia
<1>2. /\ Entorno /\ Datos /\ pcMin \in EstadosMin /\ Len(mq) <= MAX_MSG
      /\ Mina /\ Camino /\ Orden /\ (pcMin \in Contando => num_mineros = 2)
  BY TipoPartes DEF Inductiva, Tipo
<1>3. tuberia \in Seq(Bloque) /\ registro \in Seq(Bloque) /\ minados \in Seq(Bloque)
  BY <1>2 DEF Datos
<1>4. leido' \in Bloque /\ tuberia' \in Seq(Bloque)
  BY <1>1, <1>3, PrimeroYResto
<1>5. Tipo'
  <2>1. Entorno'
    BY <1>1, <1>2 DEF Entorno, banderas, nombres, senales
  <2>2. Datos'
    BY <1>1, <1>2, <1>4 DEF Datos
  <2>. QED
    BY <1>1, <1>2, <2>1, <2>2, TipoPartesPrima DEF Tipo, EstadosReg
<1>6. Mina'
  BY <1>1, <1>2, MinaQuieta
<1>7. Camino'
  <2>1. Escritos = registro \o tuberia
    BY <1>1, <1>3, ConcatEmptySeq DEF Escritos, EnMano
  <2>2. Escritos' = (registro \o <<Head(tuberia)>>) \o Tail(tuberia)
    BY <1>1 DEF Escritos, EnMano
  <2>3. (registro \o <<Head(tuberia)>>) \o Tail(tuberia) = registro \o tuberia
    BY <1>1, <1>3, PasaDeMano
  <2>4. Escritos' = Escritos
    BY <2>1, <2>2, <2>3
  <2>5. Prefijo(registro, minados)'
    BY <1>1, <1>2 DEF Camino, Prefijo
  <2>6. /\ Prefijo(Escritos, minados)'
        /\ pcMin' = "write" => Len(minados') = Len(Escritos') + 1
        /\ pcMin' \in Errores => Len(minados') <= Len(Escritos') + 1
        /\ pcMin' \notin Errores \cup {"write"} => Len(minados') = Len(Escritos')
    BY <1>1, <1>2, <2>4 DEF Camino, Prefijo
  <2>7. Cortado'
    BY <1>1, <1>2 DEF Camino, Cortado
  <2>. QED
    BY <1>1, <2>5, <2>6, <2>7 DEF Camino
<1>8. EnvioNoBloquea'
  BY <1>1, <1>2 DEF Orden, EnvioNoBloquea
<1>9. Orden'
  BY <1>1, <1>2, <1>8, OrdenQuieto
<1>. QED
  BY <1>5, <1>6, <1>7, <1>9 DEF Inductiva

LEMMA DprintfSigue == Inductiva /\ R_Dprintf => Inductiva'
<1>. SUFFICES ASSUME Inductiva, R_Dprintf PROVE Inductiva'
  OBVIOUS
<1>1. /\ pcReg = "dprintf" /\ pcReg' = "read" /\ registro' = Append(registro, leido)
      /\ UNCHANGED <<pcMin, bl_actual, bl_ultimo, num_mineros, auxiliar, curmsgs, leido,
                     parte, tuberia, mq, minados, enviadosMq>>
      /\ UNCHANGED <<banderas, escritura, nombres, senales>>
  BY DEF R_Dprintf, RPasa, local, historia
<1>2. /\ Entorno /\ Datos /\ pcMin \in EstadosMin /\ Len(mq) <= MAX_MSG
      /\ Mina /\ Camino /\ Orden /\ (pcMin \in Contando => num_mineros = 2)
  BY TipoPartes DEF Inductiva, Tipo
<1>3. /\ leido \in Bloque /\ tuberia \in Seq(Bloque) /\ registro \in Seq(Bloque)
      /\ minados \in Seq(Bloque)
  BY <1>2 DEF Datos
<1>4. registro' \in Seq(Bloque) /\ registro' = registro \o <<leido>>
  BY <1>1, <1>3, AppendProperties, AppendIsConcat
<1>5. Tipo'
  <2>1. Entorno'
    BY <1>1, <1>2 DEF Entorno, banderas, nombres, senales
  <2>2. Datos'
    BY <1>1, <1>2, <1>4 DEF Datos
  <2>. QED
    BY <1>1, <1>2, <2>1, <2>2, TipoPartesPrima DEF Tipo, EstadosReg
<1>6. Mina'
  BY <1>1, <1>2, MinaQuieta
<1>7. Camino'
  <2>1. Escritos = registro' \o tuberia
    BY <1>1, <1>4 DEF Escritos, EnMano
  <2>2. Escritos' = (registro' \o <<>>) \o tuberia
    BY <1>1 DEF Escritos, EnMano
  <2>3. Escritos' = Escritos
    BY <1>4, <2>1, <2>2, ConcatEmptySeq
  <2>4. Prefijo(Escritos, minados)
    BY <1>1, <1>2 DEF Camino
  <2>5. Prefijo(registro', minados)
    BY <1>3, <1>4, <2>1, <2>4, PrefijoConcat
  <2>6. Prefijo(registro, minados)'
    BY <1>1, <2>5 DEF Prefijo
  <2>7. /\ Prefijo(Escritos, minados)'
        /\ pcMin' = "write" => Len(minados') = Len(Escritos') + 1
        /\ pcMin' \in Errores => Len(minados') <= Len(Escritos') + 1
        /\ pcMin' \notin Errores \cup {"write"} => Len(minados') = Len(Escritos')
    BY <1>1, <1>2, <2>3 DEF Camino, Prefijo
  <2>8. Cortado'
    BY <1>1, <1>2 DEF Camino, Cortado
  <2>. QED
    BY <1>1, <2>6, <2>7, <2>8 DEF Camino
<1>8. EnvioNoBloquea'
  BY <1>1, <1>2 DEF Orden, EnvioNoBloquea
<1>9. Orden'
  BY <1>1, <1>2, <1>8, OrdenQuieto
<1>. QED
  BY <1>5, <1>6, <1>7, <1>9 DEF Inductiva

LEMMA RecibeSigue == Inductiva /\ ConsumidorRecibe => Inductiva'
<1>. SUFFICES ASSUME Inductiva, ConsumidorRecibe PROVE Inductiva'
  OBVIOUS
<1>1. /\ mq # <<>> /\ mq' = Tail(mq)
      /\ UNCHANGED <<pcMin, pcReg, bl_actual, bl_ultimo, num_mineros, auxiliar, curmsgs, leido,
                     registro, parte, tuberia, minados, enviadosMq>>
      /\ UNCHANGED <<banderas, escritura, nombres, senales>>
  BY DEF ConsumidorRecibe, regist, local, historia
<1>2. /\ Entorno /\ Datos /\ pcMin \in EstadosMin /\ pcReg \in EstadosReg /\ Len(mq) <= MAX_MSG
      /\ Mina /\ Camino /\ Orden /\ (pcMin \in Contando => num_mineros = 2)
  BY TipoPartes DEF Inductiva, Tipo
<1>3. mq \in Seq(Bloque) /\ Len(mq) \in Nat
  BY <1>2 DEF Datos
<1>4. mq' \in Seq(Bloque) /\ Len(mq') = Len(mq) - 1
  BY <1>1, <1>3, HeadTailProperties
<1>5. Len(mq') <= MAX_MSG /\ (Len(mq) < MAX_MSG => Len(mq') < MAX_MSG)
  BY <1>2, <1>3, <1>4, MineroAssumption
<1>6. Tipo'
  <2>1. Entorno'
    BY <1>1, <1>2 DEF Entorno, banderas, nombres, senales
  <2>2. Datos'
    BY <1>1, <1>2, <1>4 DEF Datos
  <2>. QED
    BY <1>1, <1>2, <1>5, <2>1, <2>2, TipoPartesPrima DEF Tipo
<1>7. Mina'
  BY <1>1, <1>2, MinaQuieta
<1>8. Camino'
  BY <1>1, <1>2, CaminoQuieto DEF PasoReg, PasoParte
<1>9. EnvioNoBloquea'
  BY <1>1, <1>2, <1>5 DEF Orden, EnvioNoBloquea
<1>10. Orden'
  BY <1>1, <1>2, <1>9, OrdenQuieto
<1>. QED
  BY <1>6, <1>7, <1>8, <1>10 DEF Inductiva

-----------------------------------------------------------------------------
(* The theorems.                                                            *)

LEMMA InicialInductiva == Init => Inductiva
<1>. SUFFICES ASSUME Init PROVE Inductiva
  OBVIOUS
<1>1. <<>> \in Seq(Bloque) /\ Len(<<>>) = 0
  BY EmptySeq
<1>2. Tipo
  <2>1. Entorno
    BY MineroAssumption DEF Init, Entorno
  <2>2. Datos
    BY <1>1, BloquesTipo, MineroAssumption DEF Init, Datos
  <2>3. TypeOK
    BY <2>1, <2>2, TipoPartes DEF Init, EstadosMin, EstadosReg
  <2>. QED
    BY <1>1, <2>3, MineroAssumption DEF Init, Tipo, Contando, EnBucle, ConBloque, Despidiendo
<1>3. Mina
  BY <1>1 DEF Init, Mina, Cadena, EnBucle, ConBloque
<1>4. Camino
  <2>1. Escritos = <<>>
    BY <1>1, ConcatEmptySeq DEF Init, Escritos, EnMano
  <2>. QED
    BY <1>1, <2>1 DEF Init, Camino, Cortado, Prefijo, Errores
<1>5. Orden
  BY <1>1 DEF Init, Orden, EnvioNoBloquea, ColaEnOrden, SinEnviar
<1>. QED
  BY <1>2, <1>3, <1>4, <1>5 DEF Inductiva

LEMMA PasoInductivo == Inductiva /\ [Next]_vars => Inductiva'
<1>. SUFFICES ASSUME Inductiva, [Next]_vars PROVE Inductiva'
  OBVIOUS
<1>1. TypeOK
  BY DEF Inductiva, Tipo
<1>2. CASE UNCHANGED vars
  BY <1>1, <1>2, SimpleNada, SimpleSigue
<1>3. CASE SimplesMin \/ SimplesReg \/ SimplesSenal
  BY <1>1, <1>3, SimpleMin, SimpleReg, SimpleSenal, SimpleSigue
<1>4. CASE Inicio \/ Minar \/ Write \/ Consultas \/ MqSend \/ Siguiente \/ FinSend
  BY <1>4, InicioSigue, MinarSigue, WriteSigue, ConsultasSiguen, MqSendSigue, SiguienteSigue,
     FinSendSigue
<1>5. CASE R_Read \/ R_Dprintf \/ ConsumidorRecibe
  BY <1>5, ReadSigue, DprintfSigue, RecibeSigue
<1>. QED
  BY <1>2, <1>3, <1>4, <1>5
  DEF Next, Programa, Principal, Registrador, Parado, SimplesMin, SimplesReg, SimplesSenal, Consultas

(* The inductive invariant holds of every step of the program, of the       *)
(* signals and of the monitor program.                                      *)
THEOREM InvarianteSegura == Spec => []Inductiva
  BY InicialInductiva, PasoInductivo, PTL DEF Spec

(* Every variable keeps to its type: in particular the count of messages    *)
(* last asked for and the count of miners, which ShmUnlink takes one from.  *)
THEOREM TipoCorrecto == Spec => []TypeOK
<1>1. Inductiva => TypeOK
  BY DEF Inductiva, Tipo
<1>. QED
  BY <1>1, InvarianteSegura, PTL

(* The file lists the blocks in the order they were mined, none twice and   *)
(* none left out, and all but the last mined are in it or on their way.     *)
THEOREM RegistroSeguro == Spec => []RegistroFiel
<1>1. Inductiva => RegistroFiel
  <2>. SUFFICES ASSUME Inductiva, pcReg # "muerto" PROVE Len(minados) <= Len(Escritos) + 1
    BY DEF Inductiva, Camino, Cortado, RegistroFiel
  <2>1. Len(minados) \in Nat /\ Len(Escritos) \in Nat
    BY TipoPartes, EscritosTipo DEF Inductiva, Tipo, Datos
  <2>. QED
    BY <2>1 DEF Inductiva, Camino
<1>. QED
  BY <1>1, InvarianteSegura, PTL

(* After a normal end of both processes the file has every block mined.     *)
THEOREM CompletoSeguro == Spec => []RegistroCompleto
<1>1. Inductiva => RegistroCompleto
  <2>. SUFFICES ASSUME Inductiva, pcMin = "exit", pcReg = "exit" PROVE registro = minados
    BY DEF RegistroCompleto, Inductiva, Camino, Cortado
  <2>1. registro \in Seq(Bloque) /\ minados \in Seq(Bloque)
    BY TipoPartes DEF Inductiva, Tipo, Datos
  <2>2. tuberia = <<>>
    BY DEF Inductiva, Camino
  <2>3. Escritos = registro
    BY <2>1, <2>2, ConcatEmptySeq DEF Escritos, EnMano
  <2>4. Prefijo(registro, minados) /\ Len(registro) = Len(minados)
    BY <2>3 DEF Inductiva, Camino, Errores
  <2>. QED
    BY <2>1, <2>4, SeqEqual DEF Prefijo
<1>. QED
  BY <1>1, InvarianteSegura, PTL

(* mq_send never blocks, though the count it relies on is stale by then.    *)
THEOREM EnvioSeguro == Spec => []EnvioNoBloquea
<1>1. Inductiva => EnvioNoBloquea
  BY DEF Inductiva, Orden
<1>. QED
  BY <1>1, InvarianteSegura, PTL

(* The queue is sent blocks in the order they were mined, none repeated or  *)
(* overtaken, and nothing after the finishing block.                        *)
THEOREM ColaSegura == Spec => []ColaEnOrden
<1>1. Inductiva => ColaEnOrden
  BY DEF Inductiva, Orden
<1>. QED
  BY <1>1, InvarianteSegura, PTL

(* Each target is the solution before it, the vote tells whether a block is *)
(* solved, and no block after a failed search is.                           *)
THEOREM CadenaSegura == Spec => []Cadena
<1>1. Inductiva => Cadena
  BY DEF Inductiva, Mina
<1>. QED
  BY <1>1, InvarianteSegura, PTL
=============================================================================
