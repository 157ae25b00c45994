------------------------- MODULE VotacionRondas ----------------------------
(***************************************************************************)
(* Proofs about the rounds of module Votacion: there is one candidate, and *)
(* the semaphore sem_s gathers every other voter.                          *)
(***************************************************************************)
EXTENDS VotacionProofs

Idos == {"exit", "muerto"}

(* The places of a voter, from its first round on.                          *)
Esperando  == {"suspende1", "espera1"}
Anunciados == {"getvalue2", "suspende2", "espera2"}
Votando    == {"sem_wait_f", "fopen_a", "sem_post_f"}

(* The candidate's, up to SIGUSR2 and from there to SIGUSR1.                *)
Convoca    == {"fopen_w", "sem_wait_s", "getvalue", "kill_usr2"}
Recuenta   == {"fopen_r", "fread", "sem_wait_s2", "fopen_pids", "kill_usr1"}

(* The main process's, up to its SIGUSR1.                                   *)
Antes == {"sem_open", "sem_unlink", "calloc", "sigaction", "fork", "sem_wait_f",
          "fopen", "fwrite", "sem_post_f", "sem_wait_s", "kill_usr1"}
SinHijos == {"sem_open", "sem_unlink", "calloc", "sigaction"}

MascaraUno == {"SIGUSR2", "SIGINT", "SIGALRM"}
MascaraDos == {"SIGUSR1", "SIGINT", "SIGALRM"}

Otros(c) == Votantes \ {c}

(* What the place of a voter says of its mask, its flag and its signals.    *)
Papel(v) ==
  /\ sa_mask[v] \in {MascaraUno, MascaraDos}
  /\ pc[v] = "no" => sa_mask[v] = MascaraUno
  /\ pc[v] \in Anunciados \cup Votando \cup Convoca \cup Recuenta \cup {"sem_post_s"} =>
       sa_mask[v] = MascaraDos
  /\ candidate[v] = 0 => pc[v] \notin Convoca \cup Recuenta
  /\ candidate[v] = 1 => /\ pc[v] \in Convoca \cup Votando \cup Recuenta \cup Idos \cup {"trywait"}
                         /\ sa_mask[v] = MascaraDos
  /\ pc[v] = "trywait" /\ candidate[v] = 0 => sa_mask[v] = MascaraUno
  /\ "SIGUSR2" \in pend[v] => pc[v] \in Anunciados

(* Before the main process's SIGUSR1 nobody is woken or killed, and each    *)
(* post of sem_s is of a voter of its own.                                  *)
Listos == {v \in Votantes : pc[v] \in Esperando}

(* Waits on sem_s made so far.                                              *)
EsperasMain == CASE pcMain = "sem_wait_s" -> iMain
                 [] pcMain = "kill_usr1"  -> n_procs
                 [] OTHER                 -> 0

Preparacion ==
  /\ \A v \in Votantes : pc[v] \notin Idos /\ "SIGTERM" \notin pend[v]
  /\ sem_s + EsperasMain <= Cardinality(Listos)
  /\ pcMain \in SinHijos => \A v \in Votantes : pc[v] = "no"
  /\ pcMain = "fork" => \A v \in Votantes : v > iMain => pc[v] = "no"
  /\ pcMain \in Antes \ {"sem_open", "sem_unlink", "fork", "sem_wait_s"} => iMain = 0

SinDespertar ==
  \A v \in Votantes : pc[v] \in {"no", "arriba"} \cup Esperando \cup Idos /\ "SIGUSR1" \notin pend[v]

SinCandidato ==
  /\ sem_c = 1
  /\ \A v \in Votantes : candidate[v] = 0 /\ sa_mask[v] = MascaraUno
  /\ \/ SinDespertar
     \/ /\ pcMain \notin Antes /\ sem_s = 0
        /\ \A v \in Votantes : pc[v] \in Esperando \cup Idos \cup {"trywait"}

Avisados(c) == {w \in Otros(c) : pc[w] \in Anunciados \cup Idos}
HaVotado(w) == \E k \in 1 .. Len(votes) : votes[k].votante = w

Llegados(c) == {w \in Otros(c) : pc[w] \in Esperando \cup Idos /\ HaVotado(w)}

EsperasUno(c) == IF pc[c] = "fopen_w" THEN 0 ELSE i[c]

EsperasDos(c) == CASE pc[c] = "sem_wait_s2" -> i[c]
                   [] pc[c] \in {"fopen_pids", "kill_usr1"} -> n_procs - 1
                   [] OTHER -> 0

(* The candidate c gathers the others with as many waits as they post.      *)
Convocatoria(c) ==
  /\ sem_c = 0
  /\ \A w \in Otros(c) : /\ pc[w] \in Esperando \cup Anunciados \cup Idos \cup {"trywait", "sem_post_s"}
                         /\ "SIGUSR2" \notin pend[w]
  /\ sem_s + EsperasUno(c) <= Cardinality(Avisados(c))
  /\ pc[c] = "kill_usr2" => i[c] >= n_procs - 1

(* They vote, and c gathers them again.                                     *)
Recuento(c) ==
  /\ sem_c = 0
  /\ \A w \in Otros(c) :
       /\ pc[w] \in Anunciados \cup Votando \cup Esperando \cup Idos \cup {"arriba"}
       /\ pc[w] \notin Idos => sa_mask[w] = MascaraDos
       /\ pc[w] \in Esperando \cup {"sem_post_f", "arriba"} => HaVotado(w)
  /\ sem_s + EsperasDos(c) <= Cardinality(Llegados(c))

(* All the others have voted and sleep for good: they block the SIGUSR1 of  *)
(* the round.                                                               *)
Dormidos(c) ==
  \A w \in Otros(c) : /\ pc[w] \in Esperando \cup Idos /\ HaVotado(w)
                      /\ pc[w] \notin Idos => sa_mask[w] = MascaraDos

ConCandidato(c) ==
  /\ pcMain \notin Antes
  /\ candidate[c] = 1 /\ \A w \in Otros(c) : candidate[w] = 0
  /\ pc[c] \in Convoca => Convocatoria(c)
  /\ pc[c] \in Votando \cup Recuenta => Recuento(c)
  /\ pc[c] = "trywait" => sem_c = 1 /\ sem_s = 0 /\ Dormidos(c)
  /\ pc[c] \in Idos => sem_c = 0 \/ Dormidos(c)

Rondas ==
  ~eintr => /\ \A v \in Votantes : Papel(v)
            /\ pcMain \in Antes => Preparacion
            /\ SinCandidato \/ \E c \in Votantes : ConCandidato(c)

-----------------------------------------------------------------------------
(* Counting voters.                                                         *)

LEMMA CuentaVotantes ==
  /\ IsFiniteSet(Votantes) /\ Cardinality(Votantes) = n_procs
  /\ \A c \in Votantes : IsFiniteSet(Otros(c)) /\ Cardinality(Otros(c)) = n_procs - 1
<1>1. IsFiniteSet(Votantes) /\ Cardinality(Votantes) = n_procs
  BY VotacionAssumption, FS_Interval DEF Votantes
<1>2. ASSUME NEW c \in Votantes
      PROVE  IsFiniteSet(Otros(c)) /\ Cardinality(Otros(c)) = n_procs - 1
  BY <1>1, <1>2, FS_RemoveElement DEF Otros
<1>. QED
  BY <1>1, <1>2

LEMMA CuentaMenos ==
  ASSUME NEW S, NEW T, S \subseteq T, T \subseteq Votantes
  PROVE  /\ Cardinality(S) \in Nat /\ Cardinality(T) \in Nat
         /\ Cardinality(S) <= Cardinality(T)
         /\ Cardinality(S) = Cardinality(T) => S = T
<1>1. IsFiniteSet(T)
  BY CuentaVotantes, FS_Subset
<1>2. IsFiniteSet(S)
  BY <1>1, FS_Subset
<1>. QED
  BY <1>1, <1>2, FS_Subset, FS_CardinalityType

LEMMA CuentaUnoMas ==
  ASSUME NEW S, NEW T, S \subseteq T, T \subseteq Votantes, NEW w \in T, w \notin S
  PROVE  /\ Cardinality(S) \in Nat /\ Cardinality(T) \in Nat
         /\ Cardinality(S) + 1 <= Cardinality(T)
<1>1. /\ Cardinality(S) \in Nat /\ Cardinality(T) \in Nat
      /\ Cardinality(S) <= Cardinality(T)
      /\ Cardinality(S) = Cardinality(T) => S = T
  BY CuentaMenos
<1>. QED
  BY <1>1

LEMMA EstanTodos ==
  /\ \A S \in SUBSET Votantes : Cardinality(S) >= n_procs => S = Votantes
  /\ \A c \in Votantes : \A S \in SUBSET Otros(c) :
       /\ Cardinality(S) <= n_procs - 1
       /\ Cardinality(S) >= n_procs - 1 => S = Otros(c)
<1>1. ASSUME NEW S \in SUBSET Votantes, Cardinality(S) >= n_procs
      PROVE  S = Votantes
  <2>1. /\ Cardinality(S) \in Nat /\ Cardinality(S) <= Cardinality(Votantes)
        /\ Cardinality(S) = Cardinality(Votantes) => S = Votantes
    BY CuentaMenos
  <2>. QED
    BY <1>1, <2>1, CuentaVotantes, VotacionAssumption
<1>2. ASSUME NEW c \in Votantes, NEW S \in SUBSET Otros(c)
      PROVE  Cardinality(S) <= n_procs - 1 /\ (Cardinality(S) >= n_procs - 1 => S = Otros(c))
  <2>1. Otros(c) \subseteq Votantes
    BY DEF Otros
  <2>2. /\ Cardinality(S) \in Nat /\ Cardinality(S) <= Cardinality(Otros(c))
        /\ Cardinality(S) = Cardinality(Otros(c)) => S = Otros(c)
    BY <2>1, CuentaMenos
  <2>. QED
    BY <2>2, CuentaVotantes, VotacionAssumption
<1>. QED
  BY <1>1, <1>2

-----------------------------------------------------------------------------
(* What a voter that has not been the candidate may do.                     *)

Igual(v) ==
  /\ UNCHANGED <<pcMain, iMain, eintr, candidate, sem_c>>
  /\ \A w \in Otros(v) : pc'[w] = pc[w] /\ sa_mask'[w] = sa_mask[w] /\ i'[w] = i[w]
  /\ \A w \in Votantes : pend'[w] \subseteq pend[w]
  /\ \A w \in Votantes : HaVotado(w) => HaVotado(w)'

Mueve(v, de, a) == pc[v] \in de /\ pc'[v] \in a

OtroPasa(v) ==
  /\ Igual(v)
  /\ \/ /\ UNCHANGED sem_s /\ sa_mask'[v] = sa_mask[v]
        /\ \/ pc'[v] = pc[v]
           \/ Mueve(v, {"suspende1"}, {"espera1"})
           \/ /\ Mueve(v, {"espera1"}, {"trywait"})
              /\ sa_mask[v] = MascaraUno /\ "SIGUSR1" \in pend[v]
           \/ Mueve(v, Anunciados, Anunciados)
           \/ Mueve(v, {"espera2"}, {"sem_wait_f"}) /\ "SIGUSR2" \in pend[v] \ pend'[v]
           \/ Mueve(v, {"sem_wait_f"}, {"fopen_a"})
           \/ Mueve(v, {"fopen_a"}, {"sem_post_f"}) /\ HaVotado(v)'
           \/ /\ pc'[v] \in Idos /\ pend'[v] = {}
              /\ "SIGTERM" \in pend[v] \/ pc[v] = "fopen_a"
     \/ /\ sem_s' = sem_s + 1 /\ sa_mask'[v] = sa_mask[v]
        /\ Mueve(v, {"arriba"}, {"suspende1"}) \/ Mueve(v, {"sem_post_s"}, {"getvalue2"})
     \/ /\ UNCHANGED sem_s /\ sa_mask'[v] = MascaraDos
        /\ \/ Mueve(v, {"trywait"}, {"sem_post_s"}) /\ sem_c = 0
           \/ Mueve(v, {"sem_post_f"}, {"arriba"})

LEMMA VotosQuedan ==
  ASSUME Tipo, NEW b \in Voto, votes' = Append(votes, b)
  PROVE  /\ \A w \in Votantes : HaVotado(w) => HaVotado(w)'
         /\ HaVotado(b.votante)'
<1>1. votes \in Seq(Voto) /\ Len(votes) \in Nat
  BY DEF Tipo, TypeOK
<1>2. /\ Len(votes') = Len(votes) + 1 /\ votes'[Len(votes) + 1] = b
      /\ \A k \in 1 .. Len(votes) : votes'[k] = votes[k]
  BY <1>1
<1>. QED
  BY <1>1, <1>2 DEF HaVotado

LEMMA OtroVota ==
  ASSUME Tipo, NEW v \in Votantes, Papel(v), candidate[v] = 0, Votante(v), ~V_Candidato(v)
  PROVE  OtroPasa(v)
<1>1. /\ pc \in [Votantes -> Estados] /\ sa_mask \in [Votantes -> SUBSET (Senales \ {"SIGTERM"})]
      /\ i \in [Votantes -> Nat] /\ pend \in [Procesos -> SUBSET Senales] /\ sem_s \in Nat
      /\ v \in Procesos
  BY ProcesoEs DEF Tipo, TypeOK
<1>2. pc[v] \notin Convoca \cup Recuenta /\ sa_mask[v] \in {MascaraUno, MascaraDos}
      /\ (pc[v] \in Anunciados \cup Votando \cup {"sem_post_s"} => sa_mask[v] = MascaraDos)
      /\ ("SIGUSR2" \in pend[v] => pc[v] \in Anunciados)
      /\ (pc[v] = "trywait" => sa_mask[v] = MascaraUno)
  BY DEF Papel
<1> DEFINE Nada == UNCHANGED <<pcMain, iMain, eintr, candidate, sem_c, i, votes, pend>>
<1>3. ASSUME Nada, \A w \in Otros(v) : pc'[w] = pc[w] /\ sa_mask'[w] = sa_mask[w]
      PROVE  Igual(v)
  BY <1>3 DEF Igual, HaVotado, Votantes, Procesos
<1>4. CASE V_Espera(v)
  <2>1. Nada /\ sem_s' = sem_s + 1 /\ sa_mask' = sa_mask /\ pc[v] = "arriba"
        /\ pc' = [pc EXCEPT ![v] = "suspende1"]
    BY <1>4 DEF V_Espera, Va, principal, locales, entorno, senales, historia
  <2>. QED
    BY <1>1, <1>3, <2>1 DEF OtroPasa, Mueve, Otros
<1>5. CASE V_Sigsuspend(v)
  <2>1. Nada /\ sem_s' = sem_s /\ sa_mask' = sa_mask
        /\ \/ pc[v] = "suspende1" /\ pc' = [pc EXCEPT ![v] = "espera1"]
           \/ pc[v] = "suspende2" /\ pc' = [pc EXCEPT ![v] = "espera2"]
    BY <1>5 DEF V_Sigsuspend, Va, principal, locales, sems, entorno, senales, historia
  <2>. QED
    BY <1>1, <1>3, <2>1 DEF OtroPasa, Mueve, Otros, Anunciados
<1>6. CASE V_NoCandidato(v)
  <2>1. Nada /\ sem_s' = sem_s /\ pc[v] = "trywait" /\ sem_c = 0
        /\ sa_mask' = [sa_mask EXCEPT ![v] = Mascara2(v)]
        /\ pc' = [pc EXCEPT ![v] = "sem_post_s"]
    BY <1>6 DEF V_NoCandidato, Va, principal, sems, entorno, senales, historia
  <2>2. Mascara2(v) = MascaraDos
    BY <1>2, <2>1 DEF Mascara2, MascaraUno, MascaraDos
  <2>. QED
    BY <1>1, <1>3, <2>1, <2>2 DEF OtroPasa, Mueve, Otros
<1>7. CASE V_GetValue(v)
  <2>1. Nada /\ sem_s' = sem_s /\ sa_mask' = sa_mask /\ pc[v] = "getvalue2"
        /\ pc' = [pc EXCEPT ![v] = "suspende2"]
    BY <1>2, <1>7 DEF V_GetValue, Va, principal, sems, entorno, senales, historia, Convoca
  <2>. QED
    BY <1>1, <1>3, <2>1 DEF OtroPasa, Mueve, Otros, Anunciados
<1>8. CASE V_Avisa(v)
  <2>1. Nada /\ sem_s' = sem_s + 1 /\ sa_mask' = sa_mask /\ pc[v] = "sem_post_s"
        /\ pc' = [pc EXCEPT ![v] = "getvalue2"]
    BY <1>8 DEF V_Avisa, Va, principal, locales, entorno, senales, historia
  <2>. QED
    BY <1>1, <1>3, <2>1 DEF OtroPasa, Mueve, Otros
<1>9. CASE V_WaitF(v)
  <2>1. Nada /\ sem_s' = sem_s /\ sa_mask' = sa_mask /\ pc[v] = "sem_wait_f"
        /\ pc' = [pc EXCEPT ![v] = "fopen_a"]
    BY <1>9 DEF V_WaitF, Va, principal, locales, entorno, senales, historia
  <2>. QED
    BY <1>1, <1>3, <2>1 DEF OtroPasa, Mueve, Otros
<1>10. CASE V_Votar(v)
  <2>1. /\ UNCHANGED <<pcMain, iMain, eintr, candidate, sem_c, i, pend, sem_s, sa_mask>>
        /\ votes' = Append(votes, [votante |-> v, voto |-> vota[v]]) /\ pc[v] = "fopen_a"
        /\ pc' = [pc EXCEPT ![v] = "sem_post_f"]
    BY <1>10 DEF V_Votar, Va, principal, locales, sems, entorno, senales, historia
  <2>2. PICK b \in Voto : b = [votante |-> v, voto |-> vota[v]]
    <3>1. vota[v] \in {0, 1}
      BY DEF Tipo, TypeOK
    <3>2. [votante |-> v, voto |-> vota[v]] \in Voto
      BY <1>1, <3>1 DEF Voto
    <3>. QED
      BY <3>2
  <2>3. b.votante = v
    BY <2>2
  <2>4. (\A w \in Votantes : HaVotado(w) => HaVotado(w)') /\ HaVotado(v)'
    BY <2>1, <2>2, <2>3, VotosQuedan
  <2>. QED
    BY <1>1, <2>1, <2>4 DEF OtroPasa, Igual, Mueve, Otros
<1>11. CASE V_PostF(v)
  <2>1. Nada /\ sem_s' = sem_s /\ pc[v] = "sem_post_f"
        /\ sa_mask' = [sa_mask EXCEPT ![v] = sa_mask[v] \cup {"SIGUSR1"}]
        /\ pc' = [pc EXCEPT ![v] = "arriba"]
    BY <1>1, <1>11 DEF V_PostF, Va, principal, entorno, senales, historia
  <2>2. sa_mask[v] \cup {"SIGUSR1"} = MascaraDos
    BY <1>2, <2>1 DEF MascaraDos, Votando
  <2>. QED
    BY <1>1, <1>3, <2>1, <2>2 DEF OtroPasa, Mueve, Otros
<1>12. CASE V_Fallo(v)
  <2>1. /\ UNCHANGED <<pcMain, iMain, eintr, candidate, sem_c, i, votes, sem_s, sa_mask>>
        /\ pc[v] \in FALLOS /\ pc' = [pc EXCEPT ![v] = "exit"] /\ pend' = [pend EXCEPT ![v] = {}]
    BY <1>12 DEF V_Fallo, principal, locales, sems, entorno, historia
  <2>2. pc[v] = "fopen_a"
    BY <1>1, <1>2, <2>1, VotacionAssumption DEF PuedenFallar, Convoca, Recuenta, Estados
  <2>3. Igual(v)
    BY <1>1, <2>1, ProcesoEs DEF Igual, Otros, HaVotado
  <2>. QED
    BY <1>1, <2>1, <2>2, <2>3 DEF OtroPasa, Idos
<1>13. CASE \/ V_Vaciar(v) \/ V_WaitS(v) \/ V_KillUsr2(v) \/ V_Abrir(v) \/ V_Leer(v)
            \/ V_Veredicto(v) \/ V_WaitS2(v) \/ V_AbrirPids(v) \/ V_KillUsr1(v) \/ V_PostC(v)
  BY <1>2, <1>13 DEF V_Vaciar, V_WaitS, V_KillUsr2, V_Abrir, V_Leer, V_Veredicto, V_WaitS2,
     V_AbrirPids, V_KillUsr1, V_PostC, Va, Convoca, Recuenta
<1>. QED
  BY <1>4, <1>5, <1>6, <1>7, <1>8, <1>9, <1>10, <1>11, <1>12, <1>13 DEF Votante

(* A signal wakes only a voter that has not voted yet, or one that has been *)
(* called to vote.                                                          *)
LEMMA RecibeSenal ==
  ASSUME Tipo, NEW v \in Votantes, Papel(v), EntregaVotante(v), ~eintr'
  PROVE  /\ OtroPasa(v) /\ UNCHANGED <<i, votes, sem_s>>
         /\ pc'[v] \in Idos \cup {pc[v]} \/ EnSigsuspend(v)
<1>1. /\ pc \in [Votantes -> Estados] /\ pend \in [Procesos -> SUBSET Senales] /\ v \in Procesos
      /\ \A w \in Votantes : w \in Procesos
  BY ProcesoEs DEF Tipo, TypeOK
<1>2. ASSUME NEW s \in pend[v], VotanteCatcher(v, s), UNCHANGED <<i, eintr>>
      PROVE  /\ UNCHANGED <<pcMain, iMain, eintr, candidate, sem_c, sem_s, sa_mask, i, votes>>
             /\ pend'[v] = pend[v] \ {s} /\ s # "SIGTERM"
             /\ \A w \in Otros(v) : pend'[w] = pend[w]
             /\ ~EnSigsuspend(v) \/ s \notin sa_mask[v]
  BY <1>1, <1>2 DEF VotanteCatcher, Entregable, principal, sems, entorno, Otros
<1>3. ASSUME UNCHANGED <<pcMain, iMain, eintr, candidate, sem_c, sa_mask, i, votes>>,
             \A w \in Otros(v) : pc'[w] = pc[w] /\ pend'[w] = pend[w], pend'[v] \subseteq pend[v]
      PROVE  Igual(v)
  BY <1>3 DEF Igual, HaVotado, Otros
<1>4. CASE VotanteMuere(v)
  <2>1. /\ UNCHANGED <<pcMain, iMain, eintr, candidate, sem_c, sem_s, sa_mask, i, votes>>
        /\ "SIGTERM" \in pend[v]
        /\ pc' = [pc EXCEPT ![v] = "muerto"] /\ pend' = [pend EXCEPT ![v] = {}]
    BY <1>4 DEF VotanteMuere, principal, locales, sems, entorno, historia
  <2>2. Igual(v)
    BY <1>1, <1>3, <2>1 DEF Otros
  <2>. QED
    BY <1>1, <2>1, <2>2 DEF OtroPasa, Idos
<1>5. CASE Despierta(v)
  <2>1. PICK s \in pend[v] : VotanteCatcher(v, s)
    BY <1>5 DEF Despierta
  <2>2. /\ UNCHANGED <<pcMain, iMain, eintr, candidate, sem_c, sem_s, sa_mask, i, votes>>
        /\ pend'[v] = pend[v] \ {s} /\ s # "SIGTERM" /\ s \in Senales
        /\ \A w \in Otros(v) : pend'[w] = pend[w]
        /\ ~EnSigsuspend(v) \/ s \notin sa_mask[v]
    BY <1>1, <1>2, <1>5, <2>1 DEF Despierta
  <2>3. \/ pc[v] = "espera1" /\ pc' = [pc EXCEPT ![v] = "trywait"]
        \/ pc[v] = "espera2" /\ pc' = [pc EXCEPT ![v] = "sem_wait_f"]
    BY <1>5 DEF Despierta, Va
  <2>4. s \notin sa_mask[v] /\ sa_mask[v] \in {MascaraUno, MascaraDos}
        /\ (pc[v] = "espera2" => sa_mask[v] = MascaraDos)
        /\ ("SIGUSR2" \in pend[v] => pc[v] \in Anunciados)
    BY <2>2, <2>3 DEF EnSigsuspend, Papel, Anunciados
  <2>5. IF sa_mask[v] = MascaraUno THEN s = "SIGUSR1" ELSE s = "SIGUSR2"
    BY <2>2, <2>4 DEF MascaraUno, MascaraDos, Senales
  <2>6. Igual(v)
    BY <1>1, <1>3, <2>2, <2>3 DEF Otros
  <2>7. CASE pc[v] = "espera1" /\ pc' = [pc EXCEPT ![v] = "trywait"]
    <3>1. sa_mask[v] = MascaraUno /\ s = "SIGUSR1"
      BY <2>4, <2>5, <2>7 DEF Anunciados
    <3>. QED
      BY <1>1, <2>2, <2>6, <2>7, <3>1 DEF OtroPasa, Mueve, EnSigsuspend
  <2>8. CASE pc[v] = "espera2" /\ pc' = [pc EXCEPT ![v] = "sem_wait_f"]
    <3>1. s = "SIGUSR2"
      BY <2>4, <2>5, <2>8 DEF MascaraUno, MascaraDos
    <3>. QED
      BY <1>1, <2>2, <2>6, <2>8, <3>1 DEF OtroPasa, Mueve, EnSigsuspend
  <2>. QED
    BY <2>3, <2>7, <2>8
<1>6. CASE VotanteSenalSimple(v)
  <2>1. PICK s \in pend[v] : VotanteCatcher(v, s)
    BY <1>6 DEF VotanteSenalSimple
  <2>2. UNCHANGED <<i, eintr>> /\ pc' = pc
    BY <1>6 DEF VotanteSenalSimple
  <2>3. /\ UNCHANGED <<pcMain, iMain, candidate, sem_c, sem_s, sa_mask, i, votes>>
        /\ pend'[v] = pend[v] \ {s}
        /\ \A w \in Otros(v) : pend'[w] = pend[w]
    BY <1>2, <2>1, <2>2
  <2>4. Igual(v)
    BY <1>3, <2>2, <2>3
  <2>. QED
    BY <1>2, <2>1, <2>2, <2>3, <2>4 DEF OtroPasa
<1>7. CASE VotanteEintr(v)
  BY <1>7 DEF VotanteEintr
<1>. QED
  BY <1>4, <1>5, <1>6, <1>7 DEF EntregaVotante

(* Such a step keeps the role of every voter.                               *)
LEMMA PapelesSiguen ==
  ASSUME Tipo, NEW v \in Votantes, OtroPasa(v), \A w \in Votantes : Papel(w),
         candidate[v] = 1 => pc'[v] \in Idos \cup {pc[v]}
  PROVE  \A w \in Votantes : Papel(w)'
<1>1. ASSUME NEW w \in Otros(v) PROVE Papel(w)'
  <2>1. /\ w \in Votantes /\ pc'[w] = pc[w] /\ sa_mask'[w] = sa_mask[w] /\ pend'[w] \subseteq pend[w]
        /\ candidate' = candidate
    BY <1>1 DEF OtroPasa, Igual, Otros
  <2>. QED
    BY <2>1 DEF Papel
<1>2. Papel(v)'
  <2>1. Papel(v) /\ pend'[v] \subseteq pend[v] /\ candidate' = candidate /\ candidate[v] \in {0, 1}
    BY DEF OtroPasa, Igual, Tipo, TypeOK
  <2>2. CASE candidate[v] = 1
    BY <2>1, <2>2 DEF Papel, OtroPasa, Mueve, Idos, Anunciados, Votando, Convoca, Recuenta
  <2>3. CASE candidate[v] = 0
    BY <2>1, <2>3 DEF Papel, OtroPasa, Mueve, Idos, Anunciados, Votando, Convoca, Recuenta
  <2>. QED
    BY <2>1, <2>2, <2>3
<1>. QED
  BY <1>1, <1>2 DEF Otros

-----------------------------------------------------------------------------
(* Its steps, while there is no candidate.                                  *)

LEMMA OtroSinDespertar ==
  ASSUME NEW v \in Votantes, OtroPasa(v), SinDespertar,
         \A w \in Votantes : sa_mask[w] = MascaraUno
  PROVE  /\ SinDespertar' /\ sa_mask'[v] = MascaraUno
         /\ \/ pc'[v] = pc[v] /\ UNCHANGED sem_s
            \/ Mueve(v, {"arriba"}, {"suspende1"}) /\ sem_s' = sem_s + 1
            \/ Mueve(v, {"suspende1"}, {"espera1"}) /\ UNCHANGED sem_s
            \/ pc'[v] \in Idos /\ "SIGTERM" \in pend[v] /\ UNCHANGED sem_s
<1>1. /\ pc[v] \in {"no", "arriba"} \cup Esperando \cup Idos /\ "SIGUSR1" \notin pend[v]
      /\ sa_mask[v] = MascaraUno
  BY DEF SinDespertar
<1>2. /\ sa_mask'[v] = MascaraUno
      /\ \/ pc'[v] = pc[v] /\ UNCHANGED sem_s
         \/ Mueve(v, {"arriba"}, {"suspende1"}) /\ sem_s' = sem_s + 1
         \/ Mueve(v, {"suspende1"}, {"espera1"}) /\ UNCHANGED sem_s
         \/ pc'[v] \in Idos /\ "SIGTERM" \in pend[v] /\ UNCHANGED sem_s
  BY <1>1 DEF OtroPasa, Mueve, Anunciados, Esperando, Idos, MascaraUno, MascaraDos
<1>3. pc'[v] \in {"no", "arriba"} \cup Esperando \cup Idos
  BY <1>1, <1>2 DEF Mueve, Esperando
<1>4. \A w \in Votantes : "SIGUSR1" \notin pend'[w] /\ (w # v => pc'[w] = pc[w])
  BY DEF SinDespertar, OtroPasa, Igual, Otros
<1>. QED
  BY <1>2, <1>3, <1>4 DEF SinDespertar

LEMMA EsperasTipo ==
  ASSUME Tipo
  PROVE  EsperasMain \in Nat /\ \A c \in Votantes : EsperasUno(c) \in Nat /\ EsperasDos(c) \in Nat
<1>1. iMain \in Nat /\ n_procs \in Nat /\ n_procs - 1 \in Nat /\ \A c \in Votantes : i[c] \in Nat
  BY VotacionAssumption DEF Tipo, TypeOK
<1>. QED
  BY <1>1 DEF EsperasMain, EsperasUno, EsperasDos

LEMMA OtroPreparacion ==
  ASSUME Tipo, NEW v \in Votantes, OtroPasa(v), SinDespertar, Preparacion, pcMain \in Antes,
         \A w \in Votantes : sa_mask[w] = MascaraUno
  PROVE  Preparacion'
<1>1. \/ pc'[v] = pc[v] /\ UNCHANGED sem_s
      \/ Mueve(v, {"arriba"}, {"suspende1"}) /\ sem_s' = sem_s + 1
      \/ Mueve(v, {"suspende1"}, {"espera1"}) /\ UNCHANGED sem_s
  BY OtroSinDespertar DEF Preparacion
<1>2. /\ UNCHANGED <<pcMain, iMain>>
      /\ \A w \in Votantes : pend'[w] \subseteq pend[w] /\ (w # v => pc'[w] = pc[w])
  BY DEF OtroPasa, Igual, Otros
<1>3. pc'[v] \notin Idos /\ (pc[v] = "no" => pc'[v] = "no")
  BY <1>1 DEF Preparacion, Mueve, Idos
<1>4. Listos \subseteq Listos' /\ Listos' \subseteq Votantes
  BY <1>1, <1>2 DEF Listos, Mueve, Esperando
<1>5. /\ Cardinality(Listos) \in Nat /\ Cardinality(Listos') \in Nat /\ sem_s \in Nat
      /\ sem_s' + Cardinality(Listos) <= sem_s + Cardinality(Listos')
  <2>1. /\ Cardinality(Listos) \in Nat /\ Cardinality(Listos') \in Nat /\ sem_s \in Nat
        /\ Cardinality(Listos) <= Cardinality(Listos')
    BY <1>4, CuentaMenos DEF Tipo, TypeOK
  <2>2. CASE sem_s' = sem_s
    BY <2>1, <2>2
  <2>3. CASE sem_s' # sem_s
    <3>1. v \in Listos' /\ v \notin Listos /\ sem_s' = sem_s + 1
      BY <1>1, <2>3 DEF Listos, Mueve, Esperando
    <3>2. Cardinality(Listos) + 1 <= Cardinality(Listos')
      BY <1>4, <3>1, CuentaUnoMas
    <3>. QED
      BY <2>1, <3>1, <3>2
  <2>. QED
    BY <2>2, <2>3
<1>6. EsperasMain' = EsperasMain
  BY <1>2 DEF EsperasMain
<1>7. PICK k \in Nat : k = EsperasMain
  BY EsperasTipo
<1>8. sem_s + k <= Cardinality(Listos)
  BY <1>7 DEF Preparacion
<1>9. sem_s' \in Nat /\ sem_s' + k <= Cardinality(Listos')
  BY <1>1, <1>5, <1>8
<1>10. sem_s' + EsperasMain' <= Cardinality(Listos')
  BY <1>6, <1>7, <1>9
<1>11. \A w \in Votantes : pc'[w] \notin Idos /\ "SIGTERM" \notin pend'[w]
  BY <1>2, <1>3 DEF Preparacion
<1>12. \A w \in Votantes : pc[w] = "no" => pc'[w] = "no"
  BY <1>2, <1>3
<1>. QED
  BY <1>2, <1>10, <1>11, <1>12 DEF Preparacion

LEMMA OtroSinCandidato ==
  ASSUME NEW v \in Votantes, OtroPasa(v), SinCandidato
  PROVE  SinCandidato'
<1>1. /\ UNCHANGED <<pcMain, candidate, sem_c>> /\ sem_c = 1
      /\ \A w \in Votantes : /\ candidate[w] = 0 /\ sa_mask[w] = MascaraUno
                             /\ w # v => pc'[w] = pc[w] /\ sa_mask'[w] = MascaraUno
  BY DEF OtroPasa, Igual, SinCandidato, Otros
<1>2. CASE SinDespertar
  BY <1>1, <1>2, OtroSinDespertar DEF SinCandidato
<1>3. CASE /\ pcMain \notin Antes /\ sem_s = 0
           /\ \A w \in Votantes : pc[w] \in Esperando \cup Idos \cup {"trywait"}
  <2>1. /\ sem_s' = 0 /\ sa_mask'[v] = MascaraUno
        /\ pc'[v] \in Esperando \cup Idos \cup {"trywait"}
    BY <1>1, <1>3 DEF OtroPasa, Mueve, Anunciados, Esperando, Idos
  <2>. QED
    BY <1>1, <1>3, <2>1 DEF SinCandidato
<1>. QED
  BY <1>2, <1>3 DEF SinCandidato

-----------------------------------------------------------------------------
(* Its steps, while another is the candidate.                               *)

LEMMA OtroConvocatoria ==
  ASSUME Tipo, NEW c \in Votantes, NEW v \in Otros(c), OtroPasa(v), Papel(v),
         Convocatoria(c), pc[c] \in Convoca
  PROVE  Convocatoria(c)'
<1>1. /\ pc[v] \in Esperando \cup Anunciados \cup Idos \cup {"trywait", "sem_post_s"}
      /\ "SIGUSR2" \notin pend[v] /\ sem_c = 0
  BY DEF Convocatoria
<1>2. /\ pc'[v] \in Esperando \cup Anunciados \cup Idos \cup {"trywait", "sem_post_s"}
      /\ \/ UNCHANGED sem_s /\ (pc[v] \in Anunciados \cup Idos => pc'[v] \in Anunciados \cup Idos)
         \/ sem_s' = sem_s + 1 /\ pc[v] \notin Anunciados \cup Idos /\ pc'[v] \in Anunciados \cup Idos
  BY <1>1 DEF OtroPasa, Mueve, Anunciados, Esperando, Idos
<1>3. /\ v \in Votantes /\ c \in Otros(v) /\ UNCHANGED sem_c
      /\ pc'[c] = pc[c] /\ i'[c] = i[c]
      /\ \A w \in Otros(c) : pend'[w] \subseteq pend[w] /\ (w # v => pc'[w] = pc[w])
  BY DEF OtroPasa, Igual, Otros
<1>4. Avisados(c) \subseteq Avisados(c)' /\ Avisados(c)' \subseteq Votantes
  BY <1>2, <1>3 DEF Avisados, Otros
<1>5. /\ Cardinality(Avisados(c)) \in Nat /\ Cardinality(Avisados(c)') \in Nat
      /\ Cardinality(Avisados(c)) <= Cardinality(Avisados(c)')
  BY <1>4, CuentaMenos
<1>6. sem_s' + Cardinality(Avisados(c)) <= sem_s + Cardinality(Avisados(c)')
  <2>1. CASE sem_s' = sem_s
    BY <1>5, <2>1 DEF Tipo, TypeOK
  <2>2. CASE sem_s' # sem_s
    <3>1. v \in Avisados(c)' /\ v \notin Avisados(c) /\ sem_s' = sem_s + 1
      BY <1>2, <2>2 DEF Avisados
    <3>2. Cardinality(Avisados(c)) + 1 <= Cardinality(Avisados(c)')
      BY <1>4, <3>1, CuentaUnoMas
    <3>. QED
      BY <1>5, <3>1, <3>2 DEF Tipo, TypeOK
  <2>. QED
    BY <2>1, <2>2
<1>7. PICK k \in Nat : k = EsperasUno(c) /\ k = EsperasUno(c)'
  <2>1. EsperasUno(c)' = EsperasUno(c)
    BY <1>3 DEF EsperasUno
  <2>. QED
    BY <2>1, EsperasTipo
<1>8. sem_s + k <= Cardinality(Avisados(c)) /\ sem_s \in Nat
  BY <1>7 DEF Convocatoria, Tipo, TypeOK
<1>9. sem_s' + k <= Cardinality(Avisados(c)')
  <2>1. sem_s' \in Nat
    BY <1>2, <1>8
  <2>. QED
    BY <1>5, <1>6, <1>8, <2>1
<1>10. \A w \in Otros(c) :
         /\ pc'[w] \in Esperando \cup Anunciados \cup Idos \cup {"trywait", "sem_post_s"}
         /\ "SIGUSR2" \notin pend'[w]
  BY <1>2, <1>3 DEF Convocatoria
<1>. QED
  BY <1>1, <1>3, <1>7, <1>9, <1>10 DEF Convocatoria

LEMMA OtroRecuento ==
  ASSUME Tipo, NEW c \in Votantes, NEW v \in Otros(c), OtroPasa(v), Papel(v),
         Recuento(c), pc[c] \in Votando \cup Recuenta
  PROVE  Recuento(c)'
<1>1. /\ pc[v] \in Anunciados \cup Votando \cup Esperando \cup Idos \cup {"arriba"}
      /\ (pc[v] \notin Idos => sa_mask[v] = MascaraDos)
      /\ (pc[v] \in Esperando \cup {"sem_post_f", "arriba"} => HaVotado(v))
      /\ sem_c = 0
  BY DEF Recuento
<1>2. MascaraUno # MascaraDos
  BY DEF MascaraUno, MascaraDos
<1>3. /\ v \in Votantes /\ c \in Otros(v) /\ UNCHANGED sem_c
      /\ pc'[c] = pc[c] /\ i'[c] = i[c]
      /\ \A w \in Otros(c) : w # v => pc'[w] = pc[w] /\ sa_mask'[w] = sa_mask[w]
      /\ \A w \in Votantes : HaVotado(w) => HaVotado(w)'
  BY DEF OtroPasa, Igual, Otros
<1>4. /\ pc'[v] \in Anunciados \cup Votando \cup Esperando \cup Idos \cup {"arriba"}
      /\ (pc'[v] \notin Idos => sa_mask'[v] = MascaraDos)
      /\ (pc'[v] \in Esperando \cup {"sem_post_f", "arriba"} =>
            \/ pc'[v] = "sem_post_f" /\ HaVotado(v)'
            \/ pc[v] \in Esperando \cup {"sem_post_f", "arriba"})
      /\ \/ UNCHANGED sem_s /\ (pc[v] \in Esperando \cup Idos => pc'[v] \in Esperando \cup Idos)
         \/ sem_s' = sem_s + 1 /\ pc[v] \notin Esperando \cup Idos /\ pc'[v] \in Esperando
  BY <1>1, <1>2 DEF OtroPasa, Mueve, Anunciados, Votando, Esperando, Idos
<1>5. (pc'[v] \in Esperando \cup {"sem_post_f", "arriba"} => HaVotado(v)')
  BY <1>1, <1>3, <1>4
<1>6. Llegados(c) \subseteq Llegados(c)' /\ Llegados(c)' \subseteq Votantes
  BY <1>3, <1>4 DEF Llegados, Otros
<1>7. /\ Cardinality(Llegados(c)) \in Nat /\ Cardinality(Llegados(c)') \in Nat
      /\ Cardinality(Llegados(c)) <= Cardinality(Llegados(c)')
  BY <1>6, CuentaMenos
<1>8. sem_s' + Cardinality(Llegados(c)) <= sem_s + Cardinality(Llegados(c)')
  <2>1. CASE sem_s' = sem_s
    BY <1>7, <2>1 DEF Tipo, TypeOK
  <2>2. CASE sem_s' # sem_s
    <3>1. v \in Llegados(c)' /\ v \notin Llegados(c) /\ sem_s' = sem_s + 1
      BY <1>4, <1>5, <2>2 DEF Llegados
    <3>2. Cardinality(Llegados(c)) + 1 <= Cardinality(Llegados(c)')
      BY <1>6, <3>1, CuentaUnoMas
    <3>. QED
      BY <1>7, <3>1, <3>2 DEF Tipo, TypeOK
  <2>. QED
    BY <2>1, <2>2
<1>9. EsperasDos(c)' = EsperasDos(c)
  BY <1>3 DEF EsperasDos
<1>10. PICK k \in Nat : k = EsperasDos(c)
  BY EsperasTipo
<1>11. sem_s + k <= Cardinality(Llegados(c)) /\ sem_s \in Nat
  BY <1>10 DEF Recuento, Tipo, TypeOK
<1>12. sem_s' + k <= Cardinality(Llegados(c)')
  <2>1. sem_s' \in Nat
    BY <1>4, <1>11
  <2>. QED
    BY <1>7, <1>8, <1>10, <1>11, <2>1
<1>13. sem_s' + EsperasDos(c)' <= Cardinality(Llegados(c)')
  BY <1>9, <1>10, <1>12
<1>14. \A w \in Otros(c) :
         /\ pc'[w] \in Anunciados \cup Votando \cup Esperando \cup Idos \cup {"arriba"}
         /\ pc'[w] \notin Idos => sa_mask'[w] = MascaraDos
         /\ pc'[w] \in Esperando \cup {"sem_post_f", "arriba"} => HaVotado(w)'
  BY <1>3, <1>4, <1>5 DEF Recuento, Otros
<1>. QED
  BY <1>1, <1>3, <1>13, <1>14 DEF Recuento

LEMMA OtroDormido ==
  ASSUME NEW c \in Votantes, NEW v \in Otros(c), OtroPasa(v), Dormidos(c)
  PROVE  Dormidos(c)' /\ UNCHANGED sem_s
<1>1. MascaraUno # MascaraDos
  BY DEF MascaraUno, MascaraDos
<1>2. pc[v] \in Esperando \cup Idos /\ (pc[v] \notin Idos => sa_mask[v] = MascaraDos)
  BY DEF Dormidos
<1>3. /\ pc'[v] \in Esperando \cup Idos /\ (pc'[v] \notin Idos => sa_mask'[v] = MascaraDos)
      /\ UNCHANGED sem_s
  BY <1>1, <1>2 DEF OtroPasa, Mueve, Anunciados, Votando, Esperando, Idos
<1>4. \A w \in Otros(c) : /\ w # v => pc'[w] = pc[w] /\ sa_mask'[w] = sa_mask[w]
                          /\ HaVotado(w) => HaVotado(w)'
  BY DEF OtroPasa, Igual, Otros
<1>. QED
  BY <1>3, <1>4 DEF Dormidos

LEMMA OtroConCandidato ==
  ASSUME Tipo, NEW c \in Votantes, NEW v \in Otros(c), OtroPasa(v), Papel(v), ConCandidato(c)
  PROVE  ConCandidato(c)'
<1>1. /\ pc'[c] = pc[c] /\ UNCHANGED <<pcMain, candidate, sem_c>>
  BY DEF OtroPasa, Igual, Otros
<1>2. pc[c] \in Convoca => Convocatoria(c)'
  BY OtroConvocatoria DEF ConCandidato
<1>3. pc[c] \in Votando \cup Recuenta => Recuento(c)'
  BY OtroRecuento DEF ConCandidato
<1>4. pc[c] = "trywait" => sem_c = 1 /\ sem_s' = 0 /\ Dormidos(c)'
  BY OtroDormido DEF ConCandidato
<1>5. pc[c] \in Idos => sem_c = 0 \/ Dormidos(c)'
  BY OtroDormido DEF ConCandidato
<1>. QED
  BY <1>1, <1>2, <1>3, <1>4, <1>5 DEF ConCandidato

-----------------------------------------------------------------------------
(* The candidate's steps.                                                   *)

(* They leave the others where they are, and signal only those that wait.   *)
Propio(c) ==
  /\ UNCHANGED <<pcMain, candidate>>
  /\ \A w \in Otros(c) : /\ pc'[w] = pc[w] /\ sa_mask'[w] = sa_mask[w]
                         /\ "SIGUSR2" \in pend'[w] => "SIGUSR2" \in pend[w] \/ pc[w] \in Anunciados
  /\ sa_mask'[c] = MascaraDos /\ "SIGUSR2" \notin pend'[c]

LEMMA PropioPapeles ==
  ASSUME NEW c \in Votantes, Propio(c), candidate[c] = 1, \A w \in Votantes : Papel(w),
         pc'[c] \in Convoca \cup Votando \cup Recuenta \cup Idos \cup {"trywait"}
  PROVE  \A w \in Votantes : Papel(w)'
<1>1. Papel(c)'
  <2>1. candidate'[c] = 1
    BY DEF Propio
  <2>. QED
    BY <2>1 DEF Propio, Papel, Convoca, Votando, Recuenta, Idos
<1>2. ASSUME NEW w \in Otros(c) PROVE Papel(w)'
  <2>1. w \in Votantes
    BY DEF Otros
  <2>2. Papel(w) /\ candidate' = candidate /\ pc'[w] = pc[w] /\ sa_mask'[w] = sa_mask[w]
        /\ ("SIGUSR2" \in pend'[w] => "SIGUSR2" \in pend[w] \/ pc[w] \in Anunciados)
    BY <2>1 DEF Propio
  <2>. QED
    BY <2>2 DEF Papel
<1>. QED
  BY <1>1, <1>2 DEF Otros

LEMMA PropioConvoca ==
  ASSUME NEW c \in Votantes, Propio(c), ConCandidato(c), pc[c] \in Convoca, pc'[c] \in Convoca,
         UNCHANGED sem_c, \A w \in Otros(c) : pend'[w] = pend[w],
         sem_s' + EsperasUno(c)' <= sem_s + EsperasUno(c),
         sem_s + EsperasUno(c) \in Int, sem_s' + EsperasUno(c)' \in Int,
         pc'[c] = "kill_usr2" => i'[c] >= n_procs - 1
  PROVE  ConCandidato(c)'
<1>1. Convocatoria(c) /\ pcMain \notin Antes /\ candidate[c] = 1 /\ \A w \in Otros(c) : candidate[w] = 0
  BY DEF ConCandidato
<1>2. Avisados(c)' = Avisados(c) /\ Avisados(c) \subseteq Votantes
  BY DEF Avisados, Propio, Otros
<1>3. Cardinality(Avisados(c)) \in Nat
  BY <1>2, CuentaMenos
<1>4. sem_s' + EsperasUno(c)' <= Cardinality(Avisados(c))
  BY <1>1, <1>3 DEF Convocatoria
<1>5. Convocatoria(c)'
  BY <1>1, <1>2, <1>4 DEF Convocatoria, Propio
<1>6. pc'[c] \notin Votando \cup Recuenta \cup Idos \cup {"trywait"}
  BY DEF Convoca, Votando, Recuenta, Idos
<1>. QED
  BY <1>1, <1>5, <1>6 DEF ConCandidato, Propio

LEMMA PropioRecuenta ==
  ASSUME NEW c \in Votantes, Propio(c), ConCandidato(c),
         pc[c] \in Votando \cup Recuenta, pc'[c] \in Votando \cup Recuenta, UNCHANGED sem_c,
         \A w \in Votantes : HaVotado(w) => HaVotado(w)',
         sem_s' + EsperasDos(c)' <= sem_s + EsperasDos(c),
         sem_s + EsperasDos(c) \in Int, sem_s' + EsperasDos(c)' \in Int
  PROVE  ConCandidato(c)'
<1>1. Recuento(c) /\ pcMain \notin Antes /\ candidate[c] = 1 /\ \A w \in Otros(c) : candidate[w] = 0
  BY DEF ConCandidato
<1>2. Llegados(c) \subseteq Llegados(c)' /\ Llegados(c)' \subseteq Votantes
  BY DEF Llegados, Propio, Otros
<1>3. /\ Cardinality(Llegados(c)) \in Nat /\ Cardinality(Llegados(c)') \in Nat
      /\ Cardinality(Llegados(c)) <= Cardinality(Llegados(c)')
  BY <1>2, CuentaMenos
<1>4. sem_s' + EsperasDos(c)' <= Cardinality(Llegados(c)')
  BY <1>1, <1>3 DEF Recuento
<1>5. Recuento(c)'
  <2>1. ASSUME NEW w \in Otros(c)
        PROVE  /\ pc'[w] \in Anunciados \cup Votando \cup Esperando \cup Idos \cup {"arriba"}
               /\ pc'[w] \notin Idos => sa_mask'[w] = MascaraDos
               /\ pc'[w] \in Esperando \cup {"sem_post_f", "arriba"} => HaVotado(w)'
    <3>1. w \in Votantes /\ pc'[w] = pc[w] /\ sa_mask'[w] = sa_mask[w] /\ (HaVotado(w) => HaVotado(w)')
      BY DEF Propio, Otros
    <3>. QED
      BY <1>1, <3>1 DEF Recuento
  <2>. QED
    BY <1>1, <1>4, <2>1 DEF Recuento
<1>6. pc'[c] \notin Convoca \cup Idos \cup {"trywait"}
  BY DEF Convoca, Votando, Recuenta, Idos
<1>. QED
  BY <1>1, <1>5, <1>6 DEF ConCandidato, Propio

(* It ends, by SIGTERM or for want of a file.                               *)
LEMMA PropioAcaba ==
  ASSUME NEW c \in Votantes, Propio(c), ConCandidato(c), pc'[c] \in Idos, pc[c] \notin Anunciados,
         pc[c] \in Convoca \cup Votando \cup Recuenta \cup Idos \cup {"trywait"},
         UNCHANGED <<sem_c, votes>>
  PROVE  ConCandidato(c)'
<1>1. sem_c = 0 \/ Dormidos(c)
  BY DEF ConCandidato, Convocatoria, Recuento
<1>2. Dormidos(c) => Dormidos(c)'
  BY DEF Dormidos, Propio, HaVotado
<1>3. pc'[c] \notin Convoca \cup Votando \cup Recuenta \cup {"trywait"}
  BY DEF Convoca, Votando, Recuenta, Idos
<1>. QED
  BY <1>1, <1>2, <1>3 DEF ConCandidato, Propio

(* It sends SIGUSR2: all the others that live are waiting for it.           *)
LEMMA PropioUsr2 ==
  ASSUME Tipo, NEW c \in Votantes, ConCandidato(c), pc[c] = "kill_usr2"
  PROVE  /\ \A w \in Otros(c) : pc[w] \in Anunciados \cup Idos
         /\ sem_s = 0
<1>1. Convocatoria(c)
  BY DEF ConCandidato, Convoca
<1>2. /\ sem_s \in Nat /\ i[c] \in Nat /\ i[c] >= n_procs - 1
      /\ sem_s + i[c] <= Cardinality(Avisados(c))
  BY <1>1 DEF Convocatoria, EsperasUno, Tipo, TypeOK
<1>3. Avisados(c) \in SUBSET Otros(c) /\ Otros(c) \subseteq Votantes
  BY DEF Avisados, Otros
<1>4. Cardinality(Avisados(c)) \in Nat /\ Cardinality(Avisados(c)) <= n_procs - 1
  BY <1>3, EstanTodos, CuentaMenos
<1>5. Cardinality(Avisados(c)) >= n_procs - 1 /\ sem_s = 0
  BY <1>2, <1>4, VotacionAssumption
<1>6. Avisados(c) = Otros(c)
  BY <1>3, <1>5, EstanTodos
<1>. QED
  BY <1>5, <1>6 DEF Avisados

(* And SIGUSR1: they have all voted, and sleep again.                       *)
LEMMA PropioUsr1 ==
  ASSUME Tipo, NEW c \in Votantes, ConCandidato(c), pc[c] \in {"fopen_pids", "kill_usr1"}
  PROVE  Dormidos(c) /\ sem_s = 0
<1>1. Recuento(c)
  BY DEF ConCandidato, Recuenta
<1>2. sem_s \in Nat /\ sem_s + (n_procs - 1) <= Cardinality(Llegados(c))
  BY <1>1 DEF Recuento, EsperasDos, Tipo, TypeOK
<1>3. Llegados(c) \in SUBSET Otros(c) /\ Otros(c) \subseteq Votantes
  BY DEF Llegados, Otros
<1>4. Cardinality(Llegados(c)) \in Nat /\ Cardinality(Llegados(c)) <= n_procs - 1
  BY <1>3, EstanTodos, CuentaMenos
<1>5. Cardinality(Llegados(c)) >= n_procs - 1 /\ sem_s = 0
  BY <1>2, <1>4, VotacionAssumption
<1>6. Llegados(c) = Otros(c)
  BY <1>3, <1>5, EstanTodos
<1>. QED
  BY <1>1, <1>5, <1>6 DEF Llegados, Dormidos, Recuento

LEMMA CandidatoVota ==
  ASSUME Tipo, NEW c \in Votantes, ConCandidato(c), \A w \in Votantes : Papel(w), Votante(c)
  PROVE  ConCandidato(c)' /\ \A w \in Votantes : Papel(w)'
<1>1. /\ pc \in [Votantes -> Estados] /\ candidate \in [Votantes -> {0, 1}]
      /\ sa_mask \in [Votantes -> SUBSET (Senales \ {"SIGTERM"})]
      /\ i \in [Votantes -> Nat] /\ pend \in [Procesos -> SUBSET Senales] /\ sem_s \in Nat
      /\ c \in Procesos /\ \A w \in Otros(c) : w \in Votantes /\ w \in Procesos /\ w # c
  BY ProcesoEs DEF Tipo, TypeOK, Otros
<1>2. /\ candidate[c] = 1 /\ sa_mask[c] = MascaraDos /\ "SIGUSR2" \notin pend[c]
      /\ pc[c] \in Convoca \cup Votando \cup Recuenta \cup Idos \cup {"trywait"}
  BY DEF Papel, ConCandidato, Anunciados, Convoca, Votando, Recuenta, Idos
<1>3. ASSUME UNCHANGED <<pcMain, candidate, sa_mask, pend>>,
             \A w \in Otros(c) : pc'[w] = pc[w]
      PROVE  Propio(c)
  BY <1>2, <1>3 DEF Propio
<1>4. (\A w \in Votantes : HaVotado(w) => HaVotado(w)') \/ votes' # votes
  BY DEF HaVotado
<1>5. ASSUME Propio(c), pc'[c] \in Convoca \cup Votando \cup Recuenta \cup Idos \cup {"trywait"}
      PROVE  \A w \in Votantes : Papel(w)'
  BY <1>2, <1>5, PropioPapeles
<1>6. n_procs \in Nat \ {0}
  BY VotacionAssumption
<1>7. CASE V_Vaciar(c)
  <2>1. /\ UNCHANGED <<pcMain, candidate, sa_mask, pend, sem_s, sem_c>>
        /\ pc[c] = "fopen_w" /\ pc' = [pc EXCEPT ![c] = Reune(0)] /\ i' = [i EXCEPT ![c] = 0]
    BY <1>7 DEF V_Vaciar, Va, principal, sems, senales
  <2>2. /\ pc'[c] \in {"sem_wait_s", "kill_usr2"} /\ (pc'[c] = "kill_usr2" => 0 >= n_procs - 1)
        /\ \A w \in Otros(c) : pc'[w] = pc[w]
    BY <1>1, <1>6, <2>1 DEF Reune
  <2>3. i'[c] = 0 /\ EsperasUno(c) = 0 /\ EsperasUno(c)' = 0
    BY <1>1, <2>1, <2>2 DEF EsperasUno
  <2>4. Propio(c)
    BY <1>3, <2>1, <2>2
  <2>5. pc[c] \in Convoca /\ pc'[c] \in Convoca
    BY <2>1, <2>2 DEF Convoca
  <2>6. ConCandidato(c)'
    BY <1>1, <2>1, <2>2, <2>3, <2>4, <2>5, PropioConvoca
  <2>. QED
    BY <1>5, <2>4, <2>5, <2>6
<1>8. CASE V_WaitS(c)
  <2>1. /\ UNCHANGED <<pcMain, candidate, sa_mask, pend, sem_c>> /\ sem_s > 0 /\ sem_s' = sem_s - 1
        /\ pc[c] = "sem_wait_s" /\ pc' = [pc EXCEPT ![c] = "getvalue"]
        /\ i' = [i EXCEPT ![c] = i[c] + 1]
    BY <1>1, <1>8 DEF V_WaitS, Va, principal, senales
  <2>2. pc'[c] = "getvalue" /\ \A w \in Otros(c) : pc'[w] = pc[w]
    BY <1>1, <2>1
  <2>3. EsperasUno(c) = i[c] /\ EsperasUno(c)' = i[c] + 1 /\ i[c] \in Nat
    BY <1>1, <2>1, <2>2 DEF EsperasUno
  <2>4. Propio(c)
    BY <1>3, <2>1, <2>2
  <2>5. pc[c] \in Convoca /\ pc'[c] \in Convoca /\ pc'[c] # "kill_usr2"
    BY <2>1, <2>2 DEF Convoca
  <2>6. ConCandidato(c)'
    BY <1>1, <2>1, <2>3, <2>4, <2>5, PropioConvoca
  <2>. QED
    BY <1>5, <2>4, <2>5, <2>6
<1>9. CASE V_GetValue(c)
  <2>1. /\ UNCHANGED <<pcMain, candidate, sa_mask, pend, sem_c, sem_s, i>>
        /\ pc[c] = "getvalue" /\ pc' = [pc EXCEPT ![c] = Reune(i[c])]
    BY <1>2, <1>9 DEF V_GetValue, Va, principal, sems, senales, Convoca, Votando, Recuenta, Idos
  <2>2. /\ pc'[c] \in {"sem_wait_s", "kill_usr2"} /\ (pc'[c] = "kill_usr2" => i[c] >= n_procs - 1)
        /\ \A w \in Otros(c) : pc'[w] = pc[w]
    BY <1>1, <1>6, <2>1 DEF Reune
  <2>3. EsperasUno(c) = i[c] /\ EsperasUno(c)' = i[c] /\ i[c] \in Nat
    BY <1>1, <2>1, <2>2 DEF EsperasUno
  <2>4. Propio(c)
    BY <1>3, <2>1, <2>2
  <2>5. pc[c] \in Convoca /\ pc'[c] \in Convoca
    BY <2>1, <2>2 DEF Convoca
  <2>6. ConCandidato(c)'
    BY <1>1, <2>1, <2>2, <2>3, <2>4, <2>5, PropioConvoca
  <2>. QED
    BY <1>5, <2>4, <2>5, <2>6
<1>10. CASE V_KillUsr2(c)
  <2>1. /\ UNCHANGED <<pcMain, candidate, sa_mask, sem_c, sem_s, i>>
        /\ pc[c] = "kill_usr2" /\ pc' = [pc EXCEPT ![c] = "sem_wait_f"]
        /\ pend' = Manda("SIGUSR2", Procesos \ {c})
    BY <1>10 DEF V_KillUsr2, Va, principal, sems, locales
  <2>2. (\A w \in Otros(c) : pc[w] \in Anunciados \cup Idos) /\ sem_s = 0
    BY <2>1, PropioUsr2
  <2>3. /\ pend'[c] = pend[c]
        /\ \A w \in Otros(c) : "SIGUSR2" \in pend'[w] => "SIGUSR2" \in pend[w] \/ pc[w] \notin Idos
    BY <1>1, <2>1, ProcesoEs DEF Manda, Vivo, Muerto, Idos, Principal
  <2>4. pc'[c] = "sem_wait_f" /\ \A w \in Otros(c) : pc'[w] = pc[w]
    BY <1>1, <2>1
  <2>5. Propio(c)
    BY <1>2, <2>1, <2>2, <2>3, <2>4 DEF Propio
  <2>6. Recuento(c)'
    <3>1. ASSUME NEW w \in Otros(c)
          PROVE  /\ pc'[w] \in Anunciados \cup Idos
                 /\ pc'[w] \notin Idos => sa_mask'[w] = MascaraDos
      BY <1>1, <2>1, <2>2, <2>4 DEF Papel
    <3>2. EsperasDos(c)' = 0 /\ sem_s' = 0
      BY <2>1, <2>2, <2>4 DEF EsperasDos
    <3>3. Llegados(c)' \subseteq Votantes
      BY DEF Llegados, Otros
    <3>4. Cardinality(Llegados(c)') \in Nat
      BY <3>3, CuentaMenos
    <3>5. sem_c' = 0
      BY <2>1 DEF ConCandidato, Convoca, Convocatoria
    <3>6. (Anunciados \cup Idos) \cap (Esperando \cup {"sem_post_f", "arriba"}) = {}
      BY DEF Anunciados, Idos, Esperando
    <3>. QED
      BY <3>1, <3>2, <3>4, <3>5, <3>6 DEF Recuento
  <2>7. ConCandidato(c)'
    <3>1. pc'[c] \notin Convoca \cup Idos \cup {"trywait"}
      BY <2>4 DEF Convoca, Idos
    <3>. QED
      BY <2>1, <2>6, <3>1 DEF ConCandidato
  <2>8. pc'[c] \in Votando
    BY <2>4 DEF Votando
  <2>. QED
    BY <1>5, <2>5, <2>7, <2>8
<1>11. CASE V_WaitF(c) \/ V_Abrir(c) \/ V_AbrirPids(c)
  <2>1. /\ UNCHANGED <<pcMain, candidate, sa_mask, pend, sem_c, sem_s, votes>>
        /\ \/ pc[c] = "sem_wait_f" /\ pc' = [pc EXCEPT ![c] = "fopen_a"]
           \/ pc[c] = "fopen_r" /\ pc' = [pc EXCEPT ![c] = "fread"]
           \/ pc[c] = "fopen_pids" /\ pc' = [pc EXCEPT ![c] = "kill_usr1"]
    BY <1>11 DEF V_WaitF, V_Abrir, V_AbrirPids, Va, principal, sems, senales, locales
  <2>2. /\ pc[c] \in Votando \cup Recuenta /\ pc'[c] \in Votando \cup Recuenta
        /\ \A w \in Otros(c) : pc'[w] = pc[w]
    BY <1>1, <2>1 DEF Votando, Recuenta
  <2>3. EsperasDos(c)' = EsperasDos(c)
    BY <1>1, <2>1 DEF EsperasDos
  <2>4. Propio(c)
    BY <1>3, <2>1, <2>2
  <2>5. EsperasDos(c) \in Nat
    BY EsperasTipo
  <2>6. ConCandidato(c)'
    BY <1>1, <1>4, <2>1, <2>2, <2>3, <2>4, <2>5, PropioRecuenta
  <2>. QED
    BY <1>5, <2>2, <2>4, <2>6
<1>12. CASE V_Votar(c)
  <2>1. /\ UNCHANGED <<pcMain, candidate, sa_mask, pend, sem_c, sem_s>>
        /\ votes' = Append(votes, [votante |-> c, voto |-> vota[c]])
        /\ pc[c] = "fopen_a" /\ pc' = [pc EXCEPT ![c] = "sem_post_f"]
    BY <1>12 DEF V_Votar, Va, principal, locales, sems, senales
  <2>2. PICK b \in Voto : b = [votante |-> c, voto |-> vota[c]]
    <3>1. vota[c] \in {0, 1}
      BY DEF Tipo, TypeOK
    <3>2. [votante |-> c, voto |-> vota[c]] \in Voto
      BY <1>1, <3>1 DEF Voto
    <3>. QED
      BY <3>2
  <2>3. \A w \in Votantes : HaVotado(w) => HaVotado(w)'
    BY <2>1, <2>2, VotosQuedan
  <2>4. /\ pc[c] \in Votando \cup Recuenta /\ pc'[c] \in Votando \cup Recuenta
        /\ \A w \in Otros(c) : pc'[w] = pc[w]
    BY <1>1, <2>1 DEF Votando, Recuenta
  <2>5. EsperasDos(c) = 0 /\ EsperasDos(c)' = 0
    BY <1>1, <2>1 DEF EsperasDos
  <2>6. Propio(c)
    BY <1>3, <2>1, <2>4
  <2>7. /\ sem_s + EsperasDos(c) \in Int /\ sem_s' + EsperasDos(c)' \in Int
        /\ sem_s' + EsperasDos(c)' <= sem_s + EsperasDos(c)
    BY <1>1, <2>1, <2>5
  <2>8. ConCandidato(c)'
    BY <2>1, <2>3, <2>4, <2>6, <2>7, PropioRecuenta
  <2>. QED
    BY <1>5, <2>4, <2>6, <2>8
<1>13. CASE V_PostF(c)
  <2>1. /\ UNCHANGED <<pcMain, candidate, pend, sem_c, sem_s, votes>>
        /\ pc[c] = "sem_post_f" /\ pc' = [pc EXCEPT ![c] = "fopen_r"]
        /\ sa_mask' = [sa_mask EXCEPT ![c] = sa_mask[c]]
    BY <1>1, <1>2, <1>13 DEF V_PostF, Va, principal, entorno, senales
  <2>2. /\ pc[c] \in Votando \cup Recuenta /\ pc'[c] \in Votando \cup Recuenta
        /\ \A w \in Otros(c) : pc'[w] = pc[w]
    BY <1>1, <2>1 DEF Votando, Recuenta
  <2>3. EsperasDos(c) = 0 /\ EsperasDos(c)' = 0
    BY <1>1, <2>1 DEF EsperasDos
  <2>4. Propio(c)
    BY <1>1, <1>3, <2>1, <2>2
  <2>5. ConCandidato(c)'
    BY <1>1, <1>4, <2>1, <2>2, <2>3, <2>4, PropioRecuenta
  <2>. QED
    BY <1>5, <2>2, <2>4, <2>5
<1>14. CASE V_Leer(c) \/ V_KillUsr1(c)
  <2>1. /\ UNCHANGED <<pcMain, candidate, sa_mask, sem_c, sem_s, votes>>
        /\ pc[c] \in {"fread", "kill_usr1"} /\ pc' = [pc EXCEPT ![c] = pc[c]]
        /\ \A p \in Procesos : "SIGUSR2" \in pend'[p] => "SIGUSR2" \in pend[p]
    BY <1>1, <1>14 DEF V_Leer, V_KillUsr1, Va, Manda, principal, sems, senales
  <2>2. pc[c] \in Votando \cup Recuenta /\ pc' = pc
    BY <1>1, <2>1 DEF Votando, Recuenta
  <2>3. EsperasDos(c)' = EsperasDos(c)
    BY <2>1, <2>2 DEF EsperasDos
  <2>4. Propio(c)
    BY <1>1, <1>2, <2>1, <2>2 DEF Propio
  <2>5. EsperasDos(c) \in Nat
    BY EsperasTipo
  <2>6. ConCandidato(c)'
    BY <1>1, <1>4, <2>1, <2>2, <2>3, <2>4, <2>5, PropioRecuenta
  <2>. QED
    BY <1>5, <2>2, <2>4, <2>6
<1>15. CASE V_Veredicto(c)
  <2>1. /\ UNCHANGED <<pcMain, candidate, sa_mask, pend, sem_c, sem_s, votes>>
        /\ pc[c] = "fread" /\ pc' = [pc EXCEPT ![c] = Reune2(0)] /\ i' = [i EXCEPT ![c] = 0]
    BY <1>15 DEF V_Veredicto, Va, principal, sems, senales
  <2>2. /\ \/ pc'[c] = "sem_wait_s2"
           \/ pc'[c] = "fopen_pids" /\ n_procs - 1 <= 0
        /\ \A w \in Otros(c) : pc'[w] = pc[w]
    BY <1>1, <1>6, <2>1 DEF Reune2
  <2>3. i'[c] = 0 /\ EsperasDos(c) = 0 /\ EsperasDos(c)' \in Nat /\ EsperasDos(c)' <= 0
    BY <1>1, <1>6, <2>1, <2>2 DEF EsperasDos
  <2>4. Propio(c)
    BY <1>3, <2>1, <2>2
  <2>5. pc[c] \in Votando \cup Recuenta /\ pc'[c] \in Votando \cup Recuenta
    BY <2>1, <2>2 DEF Votando, Recuenta
  <2>6. ConCandidato(c)'
    BY <1>1, <1>4, <2>1, <2>3, <2>4, <2>5, PropioRecuenta
  <2>. QED
    BY <1>5, <2>4, <2>5, <2>6
<1>16. CASE V_WaitS2(c)
  <2>1. /\ UNCHANGED <<pcMain, candidate, sa_mask, pend, sem_c, votes>>
        /\ sem_s > 0 /\ sem_s' = sem_s - 1
        /\ pc[c] = "sem_wait_s2" /\ pc' = [pc EXCEPT ![c] = Reune2(i[c] + 1)]
        /\ i' = [i EXCEPT ![c] = i[c] + 1]
    BY <1>1, <1>16 DEF V_WaitS2, Va, principal, senales
  <2>2. /\ \/ pc'[c] = "sem_wait_s2"
           \/ pc'[c] = "fopen_pids" /\ n_procs - 1 <= i[c] + 1
        /\ \A w \in Otros(c) : pc'[w] = pc[w]
    BY <1>1, <1>6, <2>1 DEF Reune2
  <2>3. /\ i'[c] = i[c] + 1 /\ i[c] \in Nat /\ EsperasDos(c) = i[c]
        /\ EsperasDos(c)' \in Nat /\ EsperasDos(c)' <= i[c] + 1
    BY <1>1, <1>6, <2>1, <2>2 DEF EsperasDos
  <2>4. Propio(c)
    BY <1>3, <2>1, <2>2
  <2>5. pc[c] \in Votando \cup Recuenta /\ pc'[c] \in Votando \cup Recuenta
    BY <2>1, <2>2 DEF Votando, Recuenta
  <2>6. ConCandidato(c)'
    BY <1>1, <1>4, <2>1, <2>3, <2>4, <2>5, PropioRecuenta
  <2>. QED
    BY <1>5, <2>4, <2>5, <2>6
<1>17. CASE V_PostC(c)
  <2>1. /\ UNCHANGED <<pcMain, candidate, pend, sem_s, votes>> /\ sem_c' = sem_c + 1
        /\ sa_mask' = [sa_mask EXCEPT ![c] = sa_mask[c] \cup {"SIGUSR1"}]
        /\ pc[c] = "kill_usr1" /\ pc' = [pc EXCEPT ![c] = "trywait"]
    BY <1>1, <1>17 DEF V_PostC, Va, principal, senales
  <2>2. sa_mask[c] \cup {"SIGUSR1"} = MascaraDos
    BY <1>2 DEF MascaraDos
  <2>3. Propio(c)
    BY <1>1, <1>2, <2>1, <2>2 DEF Propio
  <2>4. Dormidos(c) /\ sem_s = 0
    BY <2>1, PropioUsr1
  <2>5. Dormidos(c)' /\ sem_s' = 0
    BY <2>1, <2>3, <2>4 DEF Dormidos, Propio, HaVotado
  <2>6. sem_c' = 1
    BY <2>1 DEF ConCandidato, Recuenta, Recuento
  <2>7. pc'[c] = "trywait" /\ pc'[c] \notin Convoca \cup Votando \cup Recuenta \cup Idos
    BY <1>1, <2>1 DEF Convoca, Votando, Recuenta, Idos
  <2>8. ConCandidato(c)'
    BY <2>1, <2>5, <2>6, <2>7 DEF ConCandidato
  <2>. QED
    BY <1>5, <2>3, <2>7, <2>8
<1>18. CASE V_Candidato(c)
  <2>1. /\ UNCHANGED <<pcMain, pend, sem_s>> /\ sem_c' = sem_c - 1
        /\ candidate' = [candidate EXCEPT ![c] = 1]
        /\ sa_mask' = [sa_mask EXCEPT ![c] = Mascara2(c)]
        /\ pc[c] = "trywait" /\ pc' = [pc EXCEPT ![c] = "fopen_w"]
    BY <1>18 DEF V_Candidato, Va, principal, senales
  <2>2. Mascara2(c) = MascaraDos
    BY <1>2 DEF Mascara2, MascaraDos
  <2>3. candidate' = candidate
    BY <1>1, <1>2, <2>1
  <2>4. Propio(c)
    BY <1>1, <1>2, <2>1, <2>2, <2>3 DEF Propio
  <2>5. sem_c' = 0 /\ sem_s' = 0 /\ Dormidos(c)
    BY <2>1 DEF ConCandidato
  <2>6. pc'[c] = "fopen_w"
    BY <1>1, <2>1
  <2>7. Convocatoria(c)'
    <3>1. ASSUME NEW w \in Otros(c)
          PROVE  pc'[w] \in Esperando \cup Idos /\ "SIGUSR2" \notin pend'[w]
      <4>1. pc'[w] = pc[w] /\ pend'[w] = pend[w] /\ pc[w] \in Esperando \cup Idos
        BY <2>1, <2>4, <2>5 DEF Propio, Dormidos
      <4>2. Papel(w) /\ (Esperando \cup Idos) \cap Anunciados = {}
        BY <1>1 DEF Esperando, Idos, Anunciados
      <4>. QED
        BY <4>1, <4>2 DEF Papel
    <3>2. Avisados(c)' \subseteq Votantes
      BY DEF Avisados, Otros
    <3>3. Cardinality(Avisados(c)') \in Nat
      BY <3>2, CuentaMenos
    <3>4. EsperasUno(c)' = 0
      BY <2>6 DEF EsperasUno
    <3>. QED
      BY <2>5, <2>6, <3>1, <3>3, <3>4 DEF Convocatoria
  <2>8. ConCandidato(c)'
    <3>1. pc'[c] \notin Votando \cup Recuenta \cup Idos \cup {"trywait"}
      BY <2>6 DEF Votando, Recuenta, Idos
    <3>. QED
      BY <2>1, <2>3, <2>7, <3>1 DEF ConCandidato
  <2>9. pc'[c] \in Convoca
    BY <2>6 DEF Convoca
  <2>. QED
    BY <1>5, <2>4, <2>8, <2>9
<1>19. CASE V_Fallo(c)
  <2>1. /\ UNCHANGED <<pcMain, candidate, sa_mask, sem_c, votes>> /\ pc' = [pc EXCEPT ![c] = "exit"]
        /\ pend' = [pend EXCEPT ![c] = {}]
    BY <1>19 DEF V_Fallo, principal, locales, sems
  <2>2. Propio(c)
    BY <1>1, <1>2, <2>1 DEF Propio
  <2>3. pc'[c] \in Idos
    BY <1>1, <2>1 DEF Idos
  <2>4. pc[c] \notin Anunciados
    BY <1>2 DEF Anunciados, Convoca, Votando, Recuenta, Idos
  <2>5. ConCandidato(c)'
    BY <1>2, <2>1, <2>2, <2>3, <2>4, PropioAcaba
  <2>. QED
    BY <1>5, <2>2, <2>3, <2>5
<1>20. CASE V_Espera(c) \/ V_Sigsuspend(c) \/ V_Avisa(c)
  BY <1>2, <1>20 DEF V_Espera, V_Sigsuspend, V_Avisa, Va, Convoca, Votando, Recuenta, Idos
<1>21. CASE V_NoCandidato(c)
  BY <1>21 DEF V_NoCandidato, Va, ConCandidato
<1>. QED
  BY <1>7, <1>8, <1>9, <1>10, <1>11, <1>12, <1>13, <1>14, <1>15, <1>16, <1>17, <1>18, <1>19,
     <1>20, <1>21
  DEF Votante

(* A signal does not move the candidate, unless it kills it.                *)
LEMMA CandidatoRecibe ==
  ASSUME Tipo, NEW c \in Votantes, ConCandidato(c), \A w \in Votantes : Papel(w),
         EntregaVotante(c), ~eintr'
  PROVE  ConCandidato(c)' /\ \A w \in Votantes : Papel(w)'
<1>1. /\ OtroPasa(c) /\ UNCHANGED <<i, votes, sem_s>>
      /\ pc'[c] \in Idos \cup {pc[c]} \/ EnSigsuspend(c)
  BY RecibeSenal
<1>2. /\ candidate[c] = 1 /\ sa_mask[c] = MascaraDos /\ "SIGUSR2" \notin pend[c]
      /\ pc[c] \in Convoca \cup Votando \cup Recuenta \cup Idos \cup {"trywait"}
  BY DEF Papel, ConCandidato, Anunciados, Convoca, Votando, Recuenta, Idos
<1>3. pc'[c] \in Idos \cup {pc[c]} /\ pc[c] \notin Anunciados
  BY <1>1, <1>2 DEF EnSigsuspend, Anunciados, Convoca, Votando, Recuenta, Idos
<1>4. \A w \in Votantes : Papel(w)'
  BY <1>1, <1>3, PapelesSiguen
<1>5. /\ UNCHANGED <<pcMain, candidate, sem_c>>
      /\ \A w \in Otros(c) : pc'[w] = pc[w] /\ sa_mask'[w] = sa_mask[w]
      /\ \A w \in Votantes : pend'[w] \subseteq pend[w] /\ (HaVotado(w) => HaVotado(w)')
      /\ \A w \in Otros(c) : w \in Votantes
  BY <1>1 DEF OtroPasa, Igual, Otros
<1>6. sa_mask'[c] = MascaraDos
  BY <1>1, <1>2 DEF OtroPasa
<1>7. Propio(c)
  BY <1>2, <1>5, <1>6 DEF Propio
<1>8. CASE pc'[c] \in Idos
  BY <1>1, <1>2, <1>3, <1>4, <1>5, <1>7, <1>8, PropioAcaba
<1>9. CASE pc'[c] = pc[c] /\ pc[c] \notin Idos
  <2>1. Convocatoria(c) => Convocatoria(c)'
    <3>1. EsperasUno(c)' = EsperasUno(c) /\ Avisados(c)' = Avisados(c)
      BY <1>1, <1>5, <1>9 DEF EsperasUno, Avisados
    <3>. QED
      BY <1>1, <1>5, <1>9, <3>1 DEF Convocatoria
  <2>2. Recuento(c) => Recuento(c)'
    <3>1. EsperasDos(c)' = EsperasDos(c) /\ Llegados(c)' = Llegados(c)
      BY <1>1, <1>5, <1>9 DEF EsperasDos, Llegados, HaVotado
    <3>. QED
      BY <1>1, <1>5, <1>9, <3>1 DEF Recuento
  <2>3. Dormidos(c) => Dormidos(c)'
    BY <1>5 DEF Dormidos
  <2>. QED
    BY <1>1, <1>4, <1>5, <1>9, <2>1, <2>2, <2>3 DEF ConCandidato
<1>. QED
  BY <1>3, <1>8, <1>9

(* A voter becomes the candidate when there is none.                        *)
LEMMA Elegido ==
  ASSUME Tipo, NEW c \in Votantes, SinCandidato, \A w \in Votantes : Papel(w), V_Candidato(c)
  PROVE  ConCandidato(c)' /\ \A w \in Votantes : Papel(w)'
<1>1. /\ pc \in [Votantes -> Estados] /\ candidate \in [Votantes -> {0, 1}]
      /\ sa_mask \in [Votantes -> SUBSET (Senales \ {"SIGTERM"})]
      /\ \A w \in Otros(c) : w \in Votantes /\ w # c
  BY DEF Tipo, TypeOK, Otros
<1>2. /\ UNCHANGED <<pcMain, sem_s, i, pend>> /\ sem_c' = sem_c - 1
      /\ candidate' = [candidate EXCEPT ![c] = 1] /\ sa_mask' = [sa_mask EXCEPT ![c] = Mascara2(c)]
      /\ pc[c] = "trywait" /\ pc' = [pc EXCEPT ![c] = "fopen_w"]
  BY DEF V_Candidato, Va, principal, senales
<1>3. /\ pcMain \notin Antes /\ sem_s = 0 /\ sem_c = 1
      /\ \A w \in Votantes : /\ pc[w] \in Esperando \cup Idos \cup {"trywait"}
                             /\ candidate[w] = 0 /\ sa_mask[w] = MascaraUno
  BY <1>2 DEF SinCandidato, SinDespertar, Esperando, Idos
<1>4. /\ pc'[c] = "fopen_w" /\ candidate'[c] = 1 /\ sem_c' = 0
      /\ \A w \in Otros(c) : pc'[w] = pc[w] /\ candidate'[w] = 0 /\ sa_mask'[w] = sa_mask[w]
  BY <1>1, <1>2, <1>3
<1>5. sa_mask'[c] = MascaraDos
  <2>1. Mascara2(c) = MascaraDos
    BY <1>3 DEF Mascara2, MascaraUno, MascaraDos
  <2>. QED
    BY <1>1, <1>2, <2>1
<1>6. "SIGUSR2" \notin pend[c] /\ \A w \in Otros(c) : "SIGUSR2" \notin pend[w]
  <2>1. (Esperando \cup Idos \cup {"trywait"}) \cap Anunciados = {}
    BY DEF Esperando, Idos, Anunciados
  <2>. QED
    BY <1>1, <1>3, <2>1 DEF Papel
<1>7. Papel(c)'
  BY <1>2, <1>4, <1>5, <1>6 DEF Papel, Convoca
<1>8. ASSUME NEW w \in Otros(c) PROVE Papel(w)'
  <2>1. /\ Papel(w) /\ candidate'[w] = candidate[w] /\ pc'[w] = pc[w]
        /\ sa_mask'[w] = sa_mask[w] /\ pend'[w] = pend[w]
    BY <1>1, <1>2, <1>3, <1>4
  <2>. QED
    BY <2>1 DEF Papel
<1>9. Convocatoria(c)'
  <2>1. Avisados(c)' \subseteq Votantes
    BY DEF Avisados, Otros
  <2>2. Cardinality(Avisados(c)') \in Nat
    BY <2>1, CuentaMenos
  <2>3. sem_s' = 0 /\ EsperasUno(c)' = 0
    BY <1>2, <1>3, <1>4 DEF EsperasUno
  <2>4. \A w \in Otros(c) : /\ pc'[w] \in Esperando \cup Anunciados \cup Idos \cup {"trywait", "sem_post_s"}
                            /\ "SIGUSR2" \notin pend'[w]
    BY <1>1, <1>2, <1>3, <1>4, <1>6
  <2>. QED
    BY <1>4, <2>2, <2>3, <2>4 DEF Convocatoria
<1>10. pc'[c] \notin Votando \cup Recuenta \cup Idos \cup {"trywait"}
  BY <1>4 DEF Votando, Recuenta, Idos
<1>. QED
  BY <1>2, <1>3, <1>4, <1>7, <1>8, <1>9, <1>10 DEF ConCandidato, Otros

(* A voter that was not the candidate finds sem_c free only when nobody is. *)
LEMMA Primero ==
  ASSUME NEW v \in Votantes, V_Candidato(v), candidate[v] = 0,
         \A w \in Votantes : Papel(w), NEW c \in Votantes, ConCandidato(c)
  PROVE  FALSE
<1>1. v \in Otros(c) /\ pc[v] = "trywait" /\ sem_c # 0
  BY DEF ConCandidato, Otros, V_Candidato, Va
<1>2. ~Dormidos(c)
  BY <1>1 DEF Dormidos, Esperando, Idos
<1>3. pc[c] \in Convoca \cup Votando \cup Recuenta \cup Idos \cup {"trywait"}
  BY DEF Papel, ConCandidato
<1>. QED
  BY <1>1, <1>2, <1>3 DEF ConCandidato, Convocatoria, Recuento

LEMMA RondasVotante ==
  ASSUME Tipo, Rondas, NEW v \in Votantes, Votante(v) \/ EntregaVotante(v)
  PROVE  Rondas'
<1>. SUFFICES ASSUME ~eintr' PROVE Rondas'
  BY DEF Rondas
<1>1. ~eintr
  BY DEF Votante, V_Espera, V_Sigsuspend, V_Candidato, V_NoCandidato, V_Vaciar, V_WaitS,
         V_GetValue, V_KillUsr2, V_Avisa, V_WaitF, V_Votar, V_PostF, V_Abrir, V_Leer, V_Veredicto,
         V_WaitS2, V_AbrirPids, V_KillUsr1, V_PostC, V_Fallo, historia, EntregaVotante,
         VotanteMuere, Despierta, VotanteSenalSimple, VotanteEintr
<1>2. /\ \A w \in Votantes : Papel(w)
      /\ pcMain \in Antes => Preparacion
      /\ SinCandidato \/ \E c \in Votantes : ConCandidato(c)
      /\ candidate[v] \in {0, 1}
  BY <1>1 DEF Rondas, Tipo, TypeOK
<1>3. ASSUME NEW c \in Votantes, ConCandidato(c)', \A w \in Votantes : Papel(w)'
      PROVE  Rondas'
  BY <1>3 DEF Rondas, ConCandidato
<1>4. CASE candidate[v] = 1
  <2>1. ConCandidato(v)
    BY <1>2, <1>4 DEF SinCandidato, ConCandidato, Otros
  <2>. QED
    BY <1>2, <1>3, <2>1, CandidatoVota, CandidatoRecibe
<1>5. CASE V_Candidato(v) /\ candidate[v] = 0
  BY <1>2, <1>3, <1>5, Primero, Elegido
<1>6. CASE ~V_Candidato(v) /\ candidate[v] = 0
  <2>1. OtroPasa(v)
    BY <1>2, <1>6, OtroVota, RecibeSenal
  <2>2. \A w \in Votantes : Papel(w)'
    BY <1>2, <1>6, <2>1, PapelesSiguen
  <2>3. CASE SinCandidato
    <3>1. SinCandidato'
      BY <2>1, <2>3, OtroSinCandidato
    <3>2. pcMain' \in Antes => Preparacion'
      <4>. SUFFICES ASSUME pcMain' \in Antes PROVE Preparacion'
        OBVIOUS
      <4>1. pcMain \in Antes
        BY <2>1 DEF OtroPasa, Igual
      <4>2. SinDespertar /\ \A w \in Votantes : sa_mask[w] = MascaraUno
        BY <2>3, <4>1 DEF SinCandidato
      <4>. QED
        BY <1>2, <2>1, <4>1, <4>2, OtroPreparacion
    <3>. QED
      BY <2>2, <3>1, <3>2 DEF Rondas
  <2>4. ASSUME NEW c \in Votantes, ConCandidato(c) PROVE Rondas'
    <3>1. v \in Otros(c)
      BY <1>6, <2>4 DEF ConCandidato, Otros
    <3>. QED
      BY <1>2, <1>3, <2>1, <2>2, <2>4, <3>1, OtroConCandidato
  <2>. QED
    BY <1>2, <2>3, <2>4
<1>. QED
  BY <1>2, <1>4, <1>5, <1>6

-----------------------------------------------------------------------------
(* The main process and the signals from outside.                           *)

(* They touch no voter, and neither wake it nor call it to vote.            *)
Aparte ==
  /\ UNCHANGED <<pc, candidate, sa_mask, i, sem_c, sem_s, votes, eintr>>
  /\ \A v \in Votantes : \A s \in {"SIGUSR1", "SIGUSR2"} : s \in pend'[v] => s \in pend[v]

LEMMA PapelesAparte ==
  ASSUME UNCHANGED <<pc, candidate, sa_mask>>, \A w \in Votantes : Papel(w),
         \A w \in Votantes : "SIGUSR2" \in pend'[w] => "SIGUSR2" \in pend[w]
  PROVE  \A w \in Votantes : Papel(w)'
<1>. SUFFICES ASSUME NEW w \in Votantes PROVE Papel(w)'
  OBVIOUS
<1>1. /\ Papel(w) /\ candidate'[w] = candidate[w] /\ pc'[w] = pc[w] /\ sa_mask'[w] = sa_mask[w]
      /\ ("SIGUSR2" \in pend'[w] => "SIGUSR2" \in pend[w])
  OBVIOUS
<1>. QED
  BY <1>1 DEF Papel

LEMMA ConCandidatoAparte ==
  ASSUME UNCHANGED <<pc, candidate, sa_mask, i, sem_c, sem_s, votes>>,
         \A w \in Votantes : "SIGUSR2" \in pend'[w] => "SIGUSR2" \in pend[w],
         NEW c \in Votantes, ConCandidato(c), pcMain' \notin Antes
  PROVE  ConCandidato(c)'
<1>1. /\ Avisados(c)' = Avisados(c) /\ EsperasUno(c)' = EsperasUno(c)
      /\ Llegados(c)' = Llegados(c) /\ EsperasDos(c)' = EsperasDos(c)
      /\ \A w \in Votantes : HaVotado(w)' <=> HaVotado(w)
      /\ \A w \in Otros(c) : w \in Votantes
  BY DEF Avisados, EsperasUno, Llegados, EsperasDos, HaVotado, Otros
<1>2. Convocatoria(c) => Convocatoria(c)'
  BY <1>1 DEF Convocatoria
<1>3. Recuento(c) => Recuento(c)'
  BY <1>1 DEF Recuento
<1>4. Dormidos(c) => Dormidos(c)'
  BY <1>1 DEF Dormidos
<1>. QED
  BY <1>1, <1>2, <1>3, <1>4 DEF ConCandidato

LEMMA RondasAparte ==
  ASSUME Rondas, Aparte, pcMain' \in Antes => pcMain \in Antes /\ Preparacion'
  PROVE  Rondas'
<1>. SUFFICES ASSUME ~eintr PROVE Rondas'
  BY DEF Rondas, Aparte
<1>1. /\ \A w \in Votantes : Papel(w)
      /\ SinCandidato \/ \E c \in Votantes : ConCandidato(c)
  BY DEF Rondas
<1>2. /\ UNCHANGED <<pc, candidate, sa_mask, i, sem_c, sem_s, votes>>
      /\ \A w \in Votantes : /\ "SIGUSR1" \in pend'[w] => "SIGUSR1" \in pend[w]
                             /\ "SIGUSR2" \in pend'[w] => "SIGUSR2" \in pend[w]
  BY DEF Aparte
<1>3. \A w \in Votantes : Papel(w)'
  BY <1>1, <1>2, PapelesAparte
<1>4. CASE SinCandidato
  <2>1. SinDespertar => SinDespertar'
    BY <1>2 DEF SinDespertar
  <2>2. SinCandidato'
    BY <1>2, <1>4, <2>1 DEF SinCandidato
  <2>. QED
    BY <1>3, <2>2 DEF Rondas
<1>5. ASSUME NEW c \in Votantes, ConCandidato(c) PROVE Rondas'
  <2>1. pcMain' \notin Antes
    BY <1>5 DEF ConCandidato
  <2>. QED
    BY <1>2, <1>3, <1>5, <2>1, ConCandidatoAparte DEF Rondas
<1>. QED
  BY <1>1, <1>4, <1>5

(* Such a step of the main process, before its SIGUSR1.                     *)
LEMMA SigueAparte ==
  ASSUME Rondas, ~eintr, UNCHANGED <<pc, candidate, sa_mask, i, sem_c, sem_s, votes, eintr, pend>>,
         pcMain \in Antes, EsperasMain' = EsperasMain,
         pcMain' \in SinHijos \cup {"fork"} => pcMain \in SinHijos,
         pcMain' \in Antes \ {"sem_open", "sem_unlink", "fork", "sem_wait_s"} => iMain' = 0
  PROVE  Rondas'
<1>1. Preparacion /\ Listos' = Listos
  BY DEF Rondas, Listos
<1>2. Preparacion'
  BY <1>1 DEF Preparacion
<1>. QED
  BY <1>2, RondasAparte DEF Aparte

LEMMA RondasFork ==
  ASSUME Tipo, Rondas, ~eintr, Fork
  PROVE  Rondas'
<1> DEFINE v == iMain + 1
<1>1. /\ UNCHANGED <<candidate, sa_mask, i, sem_c, sem_s, votes, eintr, pend>>
      /\ pcMain = "fork" /\ pc' = [pc EXCEPT ![v] = "arriba"]
      /\ \/ pcMain' = "fork" /\ iMain' = v
         \/ pcMain' = "sem_wait_f" /\ iMain' = 0
  BY DEF Fork, Bucle, locales, sems, senales, historia
<1>2. /\ pc \in [Votantes -> Estados] /\ iMain \in Nat /\ \A w \in Votantes : w \in Nat
  BY DEF Tipo, TypeOK, Votantes
<1>3. pcMain \in Antes /\ pcMain' \in Antes
  BY <1>1 DEF Antes
<1>4. /\ \A w \in Votantes : Papel(w)
      /\ Preparacion /\ SinCandidato /\ SinDespertar
  BY <1>3 DEF Rondas, ConCandidato, SinCandidato
<1>5. v \in Votantes => pc[v] = "no" /\ candidate[v] = 0
  BY <1>1, <1>2, <1>4 DEF Preparacion, SinCandidato
<1>6. \A w \in Votantes : pc'[w] = pc[w] \/ (w = v /\ pc'[w] = "arriba")
  BY <1>1, <1>2
<1>7. ASSUME NEW w \in Votantes PROVE Papel(w)'
  <2>1. /\ Papel(w) /\ candidate'[w] = candidate[w] /\ sa_mask'[w] = sa_mask[w]
        /\ pend'[w] = pend[w]
    BY <1>1, <1>4
  <2>2. CASE pc'[w] = pc[w]
    BY <2>1, <2>2 DEF Papel
  <2>3. CASE pc[w] = "no" /\ candidate[w] = 0 /\ pc'[w] = "arriba"
    BY <2>1, <2>3 DEF Papel, Anunciados, Votando, Convoca, Recuenta
  <2>. QED
    BY <1>5, <1>6, <2>2, <2>3
<1>8. SinCandidato'
  <2>1. SinDespertar'
    BY <1>1, <1>4, <1>6 DEF SinDespertar
  <2>. QED
    BY <1>1, <1>4, <2>1 DEF SinCandidato
<1>9. Preparacion'
  <2>1. Listos' = Listos
    BY <1>5, <1>6 DEF Listos, Esperando
  <2>2. EsperasMain = 0 /\ EsperasMain' = 0
    BY <1>1 DEF EsperasMain
  <2>3. sem_s' + EsperasMain' <= Cardinality(Listos')
    BY <1>1, <1>4, <2>1, <2>2 DEF Preparacion
  <2>4. \A w \in Votantes : pc'[w] \notin Idos /\ "SIGTERM" \notin pend'[w]
    BY <1>1, <1>4, <1>6 DEF Preparacion, Idos
  <2>5. pcMain' = "fork" => \A w \in Votantes : w > iMain' => pc'[w] = "no"
    BY <1>1, <1>2, <1>4, <1>6 DEF Preparacion
  <2>. QED
    BY <1>1, <2>3, <2>4, <2>5 DEF Preparacion, SinHijos
<1>. QED
  BY <1>7, <1>8, <1>9 DEF Rondas

LEMMA RondasWaitS ==
  ASSUME Tipo, Rondas, ~eintr, MainWaitS
  PROVE  Rondas'
<1>1. /\ UNCHANGED <<pc, candidate, sa_mask, i, sem_c, votes, eintr, pend>>
      /\ pcMain = "sem_wait_s" /\ sem_s' = sem_s - 1
      /\ \/ iMain + 1 < n_procs /\ pcMain' = "sem_wait_s" /\ iMain' = iMain + 1
         \/ ~(iMain + 1 < n_procs) /\ pcMain' = "kill_usr1" /\ iMain' = 0
  BY DEF MainWaitS, Bucle, locales, senales, historia
<1>2. iMain \in Nat /\ sem_s \in Nat /\ n_procs \in Nat
  BY VotacionAssumption DEF Tipo, TypeOK
<1>3. pcMain \in Antes
  BY <1>1 DEF Antes
<1>4. /\ \A w \in Votantes : Papel(w)
      /\ Preparacion /\ SinCandidato /\ SinDespertar
  BY <1>3 DEF Rondas, ConCandidato, SinCandidato
<1>5. \A w \in Votantes : Papel(w)'
  BY <1>1, <1>4, PapelesAparte
<1>6. SinCandidato'
  <2>1. SinDespertar'
    BY <1>1, <1>4 DEF SinDespertar
  <2>. QED
    BY <1>1, <1>4, <2>1 DEF SinCandidato
<1>7. Preparacion'
  <2>1. Listos' = Listos /\ Listos \subseteq Votantes
    BY <1>1 DEF Listos
  <2>2. Cardinality(Listos) \in Nat
    BY <2>1, CuentaMenos
  <2>3. EsperasMain = iMain /\ EsperasMain' \in Nat /\ EsperasMain' <= iMain + 1
    BY <1>1, <1>2 DEF EsperasMain
  <2>4. sem_s' + EsperasMain' <= Cardinality(Listos')
    BY <1>1, <1>2, <1>4, <2>1, <2>2, <2>3 DEF Preparacion
  <2>. QED
    BY <1>1, <1>4, <2>4 DEF Preparacion, SinHijos
<1>. QED
  BY <1>5, <1>6, <1>7 DEF Rondas

(* It wakes them: they all sleep, or are about to.                          *)
LEMMA TodosListos ==
  ASSUME Tipo, Preparacion, pcMain = "kill_usr1"
  PROVE  (\A w \in Votantes : pc[w] \in Esperando) /\ sem_s = 0
<1>1. sem_s \in Nat /\ n_procs \in Nat /\ sem_s + n_procs <= Cardinality(Listos)
  BY VotacionAssumption DEF Preparacion, EsperasMain, Tipo, TypeOK
<1>2. Listos \in SUBSET Votantes
  BY DEF Listos
<1>3. Cardinality(Listos) \in Nat /\ Cardinality(Listos) <= n_procs
  BY <1>2, CuentaMenos, CuentaVotantes
<1>4. Listos = Votantes
  BY <1>1, <1>2, <1>3, EstanTodos
<1>. QED
  BY <1>1, <1>3, <1>4 DEF Listos

LEMMA RondasKillUsr1 ==
  ASSUME Tipo, Rondas, ~eintr, MainKillUsr1
  PROVE  Rondas'
<1>1. /\ UNCHANGED <<pc, candidate, sa_mask, i, sem_c, sem_s, votes, eintr>>
      /\ pcMain = "kill_usr1" /\ pcMain' = "bucle" /\ pend' = Manda("SIGUSR1", Votantes)
  BY DEF MainKillUsr1, Pasa, locales, sems, historia
<1>2. pcMain \in Antes /\ pcMain' \notin Antes
  BY <1>1 DEF Antes
<1>3. /\ \A w \in Votantes : Papel(w)
      /\ Preparacion /\ SinCandidato
  BY <1>2 DEF Rondas, ConCandidato, SinCandidato
<1>4. \A w \in Votantes : "SIGUSR2" \in pend'[w] => "SIGUSR2" \in pend[w]
  BY <1>1, ProcesoEs DEF Manda
<1>5. \A w \in Votantes : Papel(w)'
  BY <1>1, <1>3, <1>4, PapelesAparte
<1>6. SinCandidato'
  BY <1>1, <1>2, <1>3, TodosListos DEF SinCandidato
<1>. QED
  BY <1>2, <1>5, <1>6 DEF Rondas

LEMMA RondasMain ==
  ASSUME Tipo, Rondas, main
  PROVE  Rondas'
<1>. SUFFICES ASSUME ~eintr' PROVE Rondas'
  BY DEF Rondas
<1>1. ~eintr
  BY DEF main, SemOpen, SemExiste, SemUnlink, Calloc, Sigaction, Fork, MainWaitF, FopenPids,
         FwritePids, FwriteFallo, MainPostF, MainWaitS, MainKillUsr1, MainFinBucle,
         MainKillTerm, MainWait, MainFallo, historia
<1> DEFINE Voces == UNCHANGED <<pc, candidate, sa_mask, i, sem_c, sem_s, votes, eintr, pend>>
<1>2. ASSUME Voces, pcMain' \notin Antes PROVE Rondas'
  BY <1>2, RondasAparte DEF Aparte
<1>3. CASE SemOpen \/ SemUnlink
  <2>1. /\ Voces /\ pcMain \in {"sem_open", "sem_unlink"}
        /\ \/ pcMain' \in {"sem_open", "sem_unlink"}
           \/ pcMain' = "calloc" /\ iMain' = 0
    BY <1>3 DEF SemOpen, SemUnlink, Bucle, locales, sems, senales, historia
  <2>2. pcMain \in Antes /\ pcMain \in SinHijos /\ EsperasMain' = EsperasMain
    BY <2>1 DEF Antes, SinHijos, EsperasMain
  <2>. QED
    BY <1>1, <2>1, <2>2, SigueAparte
<1>4. CASE Calloc \/ Sigaction
  <2>1. /\ Voces /\ UNCHANGED iMain
        /\ \/ pcMain = "calloc" /\ pcMain' = "sigaction"
           \/ pcMain = "sigaction" /\ pcMain' = "fork"
    BY <1>4 DEF Calloc, Sigaction, Pasa, locales, sems, senales, historia
  <2>2. pcMain \in Antes /\ pcMain \in SinHijos /\ EsperasMain' = EsperasMain
    BY <2>1 DEF Antes, SinHijos, EsperasMain
  <2>3. iMain' = 0
    BY <1>1, <2>1, <2>2 DEF Rondas, Preparacion
  <2>. QED
    BY <1>1, <2>1, <2>2, <2>3, SigueAparte
<1>5. CASE MainWaitF \/ FopenPids \/ FwritePids \/ MainPostF
  <2>1. /\ Voces /\ UNCHANGED iMain
        /\ \/ pcMain = "sem_wait_f" /\ pcMain' = "fopen"
           \/ pcMain = "fopen" /\ pcMain' = "fwrite"
           \/ pcMain = "fwrite" /\ pcMain' = "sem_post_f"
           \/ pcMain = "sem_post_f" /\ pcMain' = "sem_wait_s"
    BY <1>5 DEF MainWaitF, FopenPids, FwritePids, MainPostF, Pasa, locales, sems, senales, historia
  <2>2. pcMain \in Antes \ {"sem_open", "sem_unlink", "fork", "sem_wait_s"}
    BY <2>1 DEF Antes
  <2>3. iMain = 0
    BY <1>1, <2>2 DEF Rondas, Preparacion
  <2>4. EsperasMain' = EsperasMain /\ pcMain' \notin SinHijos \cup {"fork"}
    BY <2>1, <2>3 DEF EsperasMain, SinHijos
  <2>. QED
    BY <1>1, <2>1, <2>2, <2>3, <2>4, SigueAparte
<1>6. CASE Fork
  BY <1>1, <1>6, RondasFork
<1>7. CASE MainWaitS
  BY <1>1, <1>7, RondasWaitS
<1>8. CASE MainKillUsr1
  BY <1>1, <1>8, RondasKillUsr1
<1>9. CASE SemExiste \/ FwriteFallo \/ MainFinBucle \/ MainFallo \/ MainWait
  <2>1. Voces
    BY <1>9 DEF SemExiste, FwriteFallo, MainFinBucle, MainFallo, MainWait, Pasa, locales, sems,
                senales, historia
  <2>2. pcMain' \in {"fallo", "kill_term", "exit"}
    BY <1>9 DEF SemExiste, FwriteFallo, MainFinBucle, MainFallo, MainWait, Pasa, Bucle
  <2>. QED
    BY <1>2, <2>1, <2>2 DEF Antes
<1>10. CASE MainKillTerm
  <2>1. /\ UNCHANGED <<pc, candidate, sa_mask, i, sem_c, sem_s, votes, eintr>>
        /\ pcMain' = "wait" /\ pend' = Manda("SIGTERM", {iMain + 1})
    BY <1>10 DEF MainKillTerm, Pasa, locales, sems, historia
  <2>2. Aparte
    BY <2>1, ProcesoEs DEF Aparte, Manda
  <2>. QED
    BY <2>1, <2>2, RondasAparte DEF Antes
<1>. QED
  BY <1>3, <1>4, <1>5, <1>6, <1>7, <1>8, <1>9, <1>10 DEF main

LEMMA RondasSenales ==
  ASSUME Tipo, Rondas, EntregaMain \/ Alarma \/ Sigint
  PROVE  Rondas'
<1>. SUFFICES ASSUME ~eintr' PROVE Rondas'
  BY DEF Rondas
<1>1. /\ pend \in [Procesos -> SUBSET Senales]
      /\ \A w \in Votantes : w \in Procesos /\ w # Principal
  BY ProcesoEs DEF Tipo, TypeOK
<1>2. ASSUME ~eintr, UNCHANGED <<pc, candidate, sa_mask, i, sem_c, sem_s, votes, eintr, pcMain, iMain>>,
             \A w \in Votantes : \A s \in {"SIGUSR1", "SIGUSR2", "SIGTERM"} : s \in pend'[w] => s \in pend[w]
      PROVE  Rondas'
  <2>1. Aparte
    BY <1>2 DEF Aparte
  <2>2. pcMain' \in Antes => pcMain \in Antes /\ Preparacion'
    <3>. SUFFICES ASSUME pcMain \in Antes PROVE Preparacion'
      BY <1>2
    <3>1. Preparacion /\ Listos' = Listos /\ EsperasMain' = EsperasMain
      BY <1>2 DEF Rondas, Listos, EsperasMain
    <3>2. \A w \in Votantes : "SIGTERM" \in pend'[w] => "SIGTERM" \in pend[w]
      BY <1>2
    <3>. QED
      BY <1>2, <3>1, <3>2 DEF Preparacion
  <2>. QED
    BY <2>1, <2>2, RondasAparte
<1>3. ASSUME NEW s \in pend[Principal], MainCatcher(s)
      PROVE  /\ UNCHANGED <<pc, candidate, sa_mask, i, sem_c, sem_s, votes>>
             /\ \A w \in Votantes : pend'[w] = pend[w]
  BY <1>1, <1>3 DEF MainCatcher, locales, sems
<1>4. CASE MainMuere
  <2>1. UNCHANGED <<pc, candidate, sa_mask, i, sem_c, sem_s, votes, eintr, pend>> /\ pcMain' = "muerto"
    BY <1>4 DEF MainMuere, locales, sems, senales, historia
  <2>. QED
    BY <2>1, RondasAparte DEF Aparte, Antes
<1>5. CASE MainSenalSimple
  <2>1. PICK s \in pend[Principal] : MainCatcher(s) /\ UNCHANGED <<pcMain, iMain, eintr>>
    BY <1>5 DEF MainSenalSimple
  <2>. QED
    BY <1>2, <1>3, <2>1
<1>6. CASE MainEintr
  <2>1. PICK s \in pend[Principal] : MainCatcher(s)
    BY <1>6 DEF MainEintr
  <2>2. UNCHANGED eintr /\ pcMain' \in {"kill_term", "exit"}
    BY <1>6 DEF MainEintr, Bucle
  <2>3. Aparte
    BY <1>3, <2>1, <2>2 DEF Aparte
  <2>. QED
    BY <2>2, <2>3, RondasAparte DEF Antes
<1>7. CASE Alarma
  <2>1. /\ UNCHANGED <<pc, candidate, sa_mask, i, sem_c, sem_s, votes, eintr, pcMain, iMain>>
        /\ pend' = Manda("SIGALRM", {Principal})
    BY <1>7 DEF Alarma, principal, locales, sems, historia
  <2>2. \A w \in Votantes : pend'[w] = pend[w]
    BY <1>1, <2>1 DEF Manda
  <2>. QED
    BY <1>2, <2>1, <2>2
<1>8. CASE Sigint
  <2>1. UNCHANGED <<pc, candidate, sa_mask, i, sem_c, sem_s, votes, eintr, pcMain, iMain>>
    BY <1>8 DEF Sigint, principal, locales, sems, historia
  <2>2. PICK D \in Destinos : pend' = Manda("SIGINT", D)
    BY <1>8 DEF Sigint
  <2>3. \A w \in Votantes : pend'[w] \subseteq pend[w] \cup {"SIGINT"}
    BY <1>1, <2>2 DEF Manda
  <2>4. \A w \in Votantes : \A s \in {"SIGUSR1", "SIGUSR2", "SIGTERM"} : s \in pend'[w] => s \in pend[w]
    BY <2>3
  <2>. QED
    BY <1>2, <2>1, <2>4
<1>. QED
  BY <1>4, <1>5, <1>6, <1>7, <1>8 DEF EntregaMain

LEMMA RondasIgual == ASSUME Rondas, UNCHANGED vars PROVE Rondas'
<1>1. Aparte /\ UNCHANGED <<pcMain, iMain, pend>>
  BY DEF vars, Aparte, principal, locales, sems, senales, historia
<1>2. UNCHANGED <<pc, sem_s, pend, pcMain, iMain>>
  BY <1>1 DEF Aparte
<1>3. Preparacion => Preparacion'
  BY <1>2 DEF Preparacion, Listos, EsperasMain
<1>4. CASE eintr
  BY <1>1, <1>4 DEF Aparte, Rondas
<1>5. CASE ~eintr
  BY <1>1, <1>3, <1>5, RondasAparte DEF Rondas
<1>. QED
  BY <1>4, <1>5

LEMMA RondasInicial == Init => Rondas
<1>. SUFFICES ASSUME Init PROVE Rondas
  OBVIOUS
<1>1. /\ pcMain = "sem_open" /\ sem_c = 1 /\ sem_s = 0
      /\ \A w \in Votantes : /\ pc[w] = "no" /\ candidate[w] = 0 /\ sa_mask[w] = MascaraUno
                             /\ pend[w] = {}
  BY ProcesoEs DEF Init, Senales, MascaraUno
<1>2. \A w \in Votantes : Papel(w)
  BY <1>1 DEF Papel, Anunciados, Votando, Convoca, Recuenta
<1>3. SinCandidato
  BY <1>1 DEF SinCandidato, SinDespertar
<1>4. Preparacion
  <2>1. Listos \subseteq Votantes
    BY DEF Listos
  <2>2. Cardinality(Listos) \in Nat /\ EsperasMain = 0
    BY <1>1, <2>1, CuentaMenos DEF EsperasMain
  <2>. QED
    BY <1>1, <2>2 DEF Preparacion, Idos
<1>. QED
  BY <1>2, <1>3, <1>4 DEF Rondas

-----------------------------------------------------------------------------
(* What they add up to.                                                     *)

(* Rondas is the invariant that UnCandidato and Reunidos need: as long as   *)
(* no sem_wait is cut short, every post of sem_s that a wait may still take *)
(* is of a voter counted in no other, whatever dies, fails or is signalled. *)
THEOREM RondasSeguras == Spec => [](Tipo /\ Rondas)
<1>1. Init => Tipo /\ Rondas
  BY TipoInicial, RondasInicial
<1>2. Tipo /\ Rondas /\ [Next]_vars => Tipo' /\ Rondas'
  <2>. SUFFICES ASSUME Tipo, Rondas, [Next]_vars PROVE Tipo' /\ Rondas'
    OBVIOUS
  <2>1. CASE UNCHANGED vars
    BY <2>1, TipoIgual, RondasIgual
  <2>2. CASE main
    BY <2>2, TipoMain, RondasMain
  <2>3. CASE EntregaMain \/ Alarma \/ Sigint
    BY <2>3, TipoSenales, RondasSenales
  <2>4. ASSUME NEW v \in Votantes, Votante(v) \/ EntregaVotante(v) PROVE Tipo' /\ Rondas'
    BY <2>4, TipoVotante, TipoSenales, RondasVotante
  <2>. QED
    BY <2>1, <2>2, <2>3, <2>4 DEF Next, Parado
<1>. QED
  BY <1>1, <1>2, PTL DEF Spec

(* Two live voters never both take themselves for the candidate, though no  *)
(* voter ever resets the flag: whoever was the candidate sleeps among       *)
(* voters that block the SIGUSR1 that would wake them.                      *)
THEOREM CandidatoUnico == Spec => []UnCandidato
<1>1. Tipo /\ Rondas => UnCandidato
  BY DEF Rondas, UnCandidato, SinCandidato, ConCandidato, Otros
<1>. QED
  BY <1>1, RondasSeguras, PTL

(* The waits on sem_s gather every other live voter: at SIGUSR2 each waits  *)
(* to vote, at SIGUSR1 each has voted, and at the main process's first      *)
(* SIGUSR1 all of them have begun.                                          *)
THEOREM ReunidosSeguro == Spec => []Reunidos
<1>1. Tipo /\ Rondas => Reunidos
  <2>. SUFFICES ASSUME Tipo, Rondas, ~eintr PROVE Reunidos
    BY DEF Reunidos
  <2>1. ASSUME pcMain = "kill_usr1"
        PROVE  \A w \in Votantes : pc[w] \in {"suspende1", "espera1"}
    BY <2>1, TodosListos DEF Rondas, Antes, Esperando
  <2>2. ASSUME NEW v \in Votantes, NEW w \in Votantes, w # v, Vivo(w),
               pc[v] \in {"kill_usr2", "fopen_pids", "kill_usr1"}
        PROVE  /\ pc[v] = "kill_usr2" => pc[w] \in Anunciados
               /\ pc[v] \in {"fopen_pids", "kill_usr1"} => pc[w] \in Esperando /\ HaVotado(w)
    <3>1. candidate[v] = 1
      BY <2>2 DEF Rondas, Papel, Convoca, Recuenta, Tipo, TypeOK
    <3>2. ConCandidato(v) /\ w \in Otros(v)
      BY <2>2, <3>1 DEF Rondas, SinCandidato, ConCandidato, Otros
    <3>3. pc[w] \notin Idos
      BY <2>2, ProcesoEs DEF Vivo, Muerto, Idos
    <3>. QED
      BY <3>2, <3>3, PropioUsr2, PropioUsr1 DEF Dormidos
  <2>. QED
    BY <2>1, <2>2 DEF Reunidos, HaVotado, Anunciados, Esperando
<1>. QED
  BY <1>1, RondasSeguras, PTL
-----------------------------------------------------------------------------
(* The count.  What follows is the invariant behind ImplementaUrna.         *)

SinVotar == Anunciados \cup {"sem_post_s", "sem_wait_f", "fopen_a"}

Recontada == {"sem_wait_s2", "fopen_pids", "kill_usr1", "trywait"}

(* votes.bin as the run before left it.                                     *)
Estrenada == veredicto = "no" /\ votes = <<VotoViejo>>

UnaVez == \A j, k \in 1 .. Len(votes) : votes[j].votante = votes[k].votante => j = k

SinViejos == \A k \in 1 .. Len(votes) : votes[k] # VotoViejo

(* The votes in the file, and who has none there.                           *)
Papeletas ==
  /\ UnaVez
  /\ \A k \in 1 .. Len(votes) :
       \/ votes[k] = VotoViejo
       \/ votes[k].votante \in Votantes /\ votes[k].voto = vota[votes[k].votante]
  /\ \A w \in Votantes : pc[w] \in SinVotar \/ sa_mask[w] = MascaraUno => ~HaVotado(w)
  /\ n_procs = 1 => \A w \in Votantes : result[w] = 0 \/ vota[w] = 1

(* What the candidate c holds at each step: result is 0 when it begins to   *)
(* read, since sem_getvalue has just given that.  A voter on its own never  *)
(* calls it, and starts from the count of its last round.                   *)
Mesa(c) ==
  /\ pc[c] = "fopen_w" => Estrenada \/ (veredicto # "no" /\ \A w \in Votantes : HaVotado(w))
  /\ pc[c] \in Convoca \ {"fopen_w"} => votes = <<>> /\ veredicto = "no"
  /\ pc[c] \in {"kill_usr2", "fopen_r", "fread"} \cup Votando => veredicto = "no" /\ SinViejos
  /\ pc[c] \in {"kill_usr2", "fopen_r"} \cup Votando => (n_procs > 1 => result[c] = 0)
  /\ pc[c] = "fread" => /\ leido[c] <= Len(votes)
                        /\ n_procs > 1 => result[c] = Afirmativos(1, leido[c])
                        /\ n_procs = 1 => result[c] >= Afirmativos(1, leido[c])
  /\ pc[c] \in {"sem_post_f", "trywait"} \cup Recuenta => HaVotado(c)
  /\ pc[c] \in Recontada => veredicto # "no"

Escrutinio ==
  ~eintr => /\ Papeletas
            /\ \/ Estrenada /\ \A c \in Votantes : candidate[c] = 0
               \/ \E c \in Votantes : candidate[c] = 1 /\ Mesa(c)

(* The votes written since the file was emptied, as Urna sees them.         *)
Emitidos == {votes[k] : k \in {x \in 1 .. Len(votes) : votes[x] # VotoViejo}}

(* Counting votes in a file.                                                *)
SiEn(t, a, b) == {k \in a .. b : t[k].voto = 1}

LEMMA SiSeCuentan ==
  ASSUME NEW t, NEW n \in Nat
  PROVE  /\ IsFiniteSet(SiEn(t, 1, n)) /\ Cardinality(SiEn(t, 1, n)) \in Nat
         /\ Cardinality(SiEn(t, 1, 0)) = 0
         /\ SiEn(t, 1, n) # {} => Cardinality(SiEn(t, 1, n)) > 0
<1>1. IsFiniteSet(1 .. n)
  BY FS_Interval
<1>2. IsFiniteSet(SiEn(t, 1, n))
  BY <1>1, FS_Subset DEF SiEn
<1>3. SiEn(t, 1, 0) = {}
  BY DEF SiEn
<1>4. Cardinality(SiEn(t, 1, 0)) = 0
  BY <1>3, FS_EmptySet
<1>5. Cardinality(SiEn(t, 1, n)) \in Nat
  BY <1>2, FS_CardinalityType
<1>6. SiEn(t, 1, n) # {} => Cardinality(SiEn(t, 1, n)) # 0
  BY <1>2, FS_EmptySet
<1>. QED
  BY <1>2, <1>4, <1>5, <1>6

LEMMA SiSuman ==
  ASSUME NEW t, NEW m \in Nat, NEW n \in Nat, m <= n
  PROVE  /\ Cardinality(SiEn(t, m + 1, n)) \in Nat
         /\ Cardinality(SiEn(t, 1, n)) = Cardinality(SiEn(t, 1, m)) + Cardinality(SiEn(t, m + 1, n))
<1> DEFINE A == SiEn(t, 1, m)
           B == SiEn(t, m + 1, n)
<1>1. A \cup B = SiEn(t, 1, n) /\ A \cap B = {}
  BY DEF SiEn
<1>2. IsFiniteSet(A) /\ IsFiniteSet(SiEn(t, 1, n))
  BY SiSeCuentan
<1>3. IsFiniteSet(B)
  BY <1>1, <1>2, FS_Subset
<1>4. Cardinality(A) \in Nat /\ Cardinality(B) \in Nat
  BY <1>2, <1>3, FS_CardinalityType
<1>5. Cardinality(A \cup B) = Cardinality(A) + Cardinality(B) - Cardinality(A \cap B)
  BY <1>2, <1>3, FS_Union
<1>6. Cardinality(A \cap B) = 0
  BY <1>1, FS_EmptySet
<1>. QED
  BY <1>1, <1>4, <1>5, <1>6

(* In a file with one vote of each, as many votes as voters say yes.        *)
LEMMA SiDistintos ==
  ASSUME NEW t \in Seq(Voto), \A j, k \in 1 .. Len(t) : t[j].votante = t[k].votante => j = k
  PROVE  Cardinality({e \in {t[k] : k \in 1 .. Len(t)} : e.voto = 1}) = Cardinality(SiEn(t, 1, Len(t)))
<1> DEFINE S == SiEn(t, 1, Len(t))
           T == {e \in {t[k] : k \in 1 .. Len(t)} : e.voto = 1}
           f == [k \in S |-> t[k]]
<1>1. Len(t) \in Nat
  OBVIOUS
<1>2. IsFiniteSet(S)
  BY <1>1, SiSeCuentan
<1>3. f \in [S -> T] /\ \A e \in T : \E k \in S : f[k] = e
  BY DEF SiEn
<1>4. \A j, k \in S : f[j] = f[k] => j = k
  BY DEF SiEn
<1>5. f \in Bijection(S, T)
  BY <1>3, <1>4 DEF Bijection, Injection, Surjection, IsInjective
<1>6. ExistsBijection(S, T)
  BY <1>5 DEF ExistsBijection
<1>. QED
  BY <1>2, <1>6, FS_Bijection

LEMMA AfirmativosSon ==
  ASSUME NEW n \in Nat
  PROVE  Afirmativos(1, n) = Cardinality(SiEn(votes, 1, n)) /\ Afirmativos(1, n) \in Nat
  BY SiSeCuentan DEF Afirmativos, SiEn

LEMMA EscrutinioInicial == Init => Escrutinio
<1>. SUFFICES ASSUME Init PROVE Escrutinio
  OBVIOUS
<1>1. votes = <<VotoViejo>> /\ veredicto = "no" /\ \A w \in Votantes : candidate[w] = 0 /\ result[w] = 0
  BY DEF Init
<1>2. Len(votes) = 1 /\ votes[1] = VotoViejo
  BY <1>1
<1>3. \A w \in Votantes : ~HaVotado(w)
  BY <1>2 DEF HaVotado, VotoViejo, Votantes
<1>4. UnaVez
  BY <1>2 DEF UnaVez
<1>5. Papeletas
  BY <1>1, <1>2, <1>3, <1>4 DEF Papeletas
<1>. QED
  BY <1>1, <1>5 DEF Escrutinio, Estrenada

-----------------------------------------------------------------------------
(* Steps that leave the file alone.                                         *)

LEMMA PapeletasIguales ==
  ASSUME Papeletas, UNCHANGED <<votes, vota>>,
         \A w \in Votantes : /\ pc'[w] \in SinVotar \/ sa_mask'[w] = MascaraUno
                             /\ votes # <<>>
                             => pc[w] \in SinVotar \/ sa_mask[w] = MascaraUno,
         n_procs = 1 => \A w \in Votantes : result'[w] = result[w] \/ result'[w] = 0
  PROVE  Papeletas' /\ \A w \in Votantes : HaVotado(w)' <=> HaVotado(w)
<1>1. \A w \in Votantes : HaVotado(w)' <=> HaVotado(w)
  BY DEF HaVotado
<1>2. votes = <<>> => \A w \in Votantes : ~HaVotado(w)
  BY DEF HaVotado
<1>3. UnaVez'
  BY DEF Papeletas, UnaVez
<1>4. n_procs = 1 => \A w \in Votantes : result'[w] = 0 \/ vota'[w] = 1
  BY DEF Papeletas
<1>5. \A w \in Votantes : pc'[w] \in SinVotar \/ sa_mask'[w] = MascaraUno => ~HaVotado(w)'
  BY <1>1, <1>2 DEF Papeletas
<1>6. \A k \in 1 .. Len(votes') :
        \/ votes'[k] = VotoViejo
        \/ votes'[k].votante \in Votantes /\ votes'[k].voto = vota'[votes'[k].votante]
  BY DEF Papeletas
<1>. QED
  BY <1>1, <1>3, <1>4, <1>5, <1>6 DEF Papeletas

(* The candidate c does nothing, and the file stays.                        *)
LEMMA MesaIgual ==
  ASSUME NEW c \in Votantes, Mesa(c), UNCHANGED <<votes, veredicto, leido>>,
         pc'[c] = pc[c], result'[c] = result[c]
  PROVE  Mesa(c)'
<1>1. \A w \in Votantes : HaVotado(w)' <=> HaVotado(w)
  BY DEF HaVotado
<1>2. Afirmativos(1, leido[c])' = Afirmativos(1, leido[c])
  BY DEF Afirmativos
<1>3. (Estrenada' <=> Estrenada) /\ (SinViejos' <=> SinViejos)
  BY DEF Estrenada, SinViejos
<1>. QED
  BY <1>1, <1>2, <1>3 DEF Mesa

(* Nobody but a non-candidate moves, and it leaves the file alone.          *)
LEMMA EscrutinioSigue ==
  ASSUME Tipo, Escrutinio, ~eintr, UNCHANGED <<candidate, votes, vota, veredicto, leido>>,
         \A w \in Votantes : /\ pc'[w] \in SinVotar \/ sa_mask'[w] = MascaraUno
                             => pc[w] \in SinVotar \/ sa_mask[w] = MascaraUno,
         \A w \in Votantes : \/ result'[w] = result[w]
                             \/ candidate[w] = 0 /\ n_procs # 1,
         \A w \in Votantes : candidate[w] = 0 \/ pc'[w] = pc[w] \/ pc'[w] \in Idos
  PROVE  Escrutinio'
<1>1. Papeletas'
  BY PapeletasIguales DEF Escrutinio
<1>2. Estrenada => Estrenada'
  BY DEF Estrenada
<1>3. ASSUME NEW c \in Votantes, candidate[c] = 1, Mesa(c) PROVE Mesa(c)'
  <2>1. result'[c] = result[c]
    BY <1>3
  <2>2. CASE pc'[c] = pc[c]
    BY <1>3, <2>1, <2>2, MesaIgual
  <2>3. CASE pc'[c] \in Idos
    BY <2>3 DEF Mesa, Idos, Convoca, Votando, Recuenta, Recontada
  <2>. QED
    BY <1>3, <2>2, <2>3
<1>4. CASE Estrenada /\ \A c \in Votantes : candidate[c] = 0
  BY <1>1, <1>2, <1>4 DEF Escrutinio
<1>5. ASSUME NEW c \in Votantes, candidate[c] = 1, Mesa(c) PROVE Escrutinio'
  <2>1. candidate'[c] = 1 /\ Mesa(c)'
    BY <1>3, <1>5
  <2>. QED
    BY <1>1, <2>1 DEF Escrutinio
<1>. QED
  BY <1>4, <1>5 DEF Escrutinio

(* The main process and the signals from outside: a fork adds a voter that  *)
(* has not begun.                                                           *)
LEMMA EscrutinioAparte ==
  ASSUME Tipo, Rondas, Escrutinio, main \/ EntregaMain \/ Alarma \/ Sigint \/ UNCHANGED vars, ~eintr'
  PROVE  Escrutinio'
<1>1. /\ UNCHANGED <<candidate, votes, vota, veredicto, leido, result, sa_mask>> /\ ~eintr
      /\ \/ pc' = pc
         \/ pcMain = "fork" /\ pc' = [pc EXCEPT ![iMain + 1] = "arriba"]
  <2>1. CASE main
    BY <2>1 DEF main, SemOpen, SemExiste, SemUnlink, Calloc, Sigaction, Fork, MainWaitF, FopenPids,
         FwritePids, FwriteFallo, MainPostF, MainWaitS, MainKillUsr1, MainFinBucle,
         MainKillTerm, MainWait, MainFallo, historia, locales, entorno
  <2>2. CASE EntregaMain
    BY <2>2 DEF EntregaMain, MainMuere, MainSenalSimple, MainEintr, MainCatcher, historia,
         locales, entorno
  <2>3. CASE Alarma \/ Sigint \/ UNCHANGED vars
    BY <2>3 DEF Alarma, Sigint, vars, historia, locales, entorno
  <2>. QED
    BY <2>1, <2>2, <2>3
<1>2. pc \in [Votantes -> Estados] /\ candidate \in [Votantes -> {0, 1}]
  BY DEF Tipo, TypeOK
<1>3. \A w \in Votantes : pc'[w] = pc[w] \/ (pc'[w] = "arriba" /\ candidate[w] = 0)
  <2>1. CASE pc' = pc
    BY <2>1
  <2>2. CASE pcMain = "fork" /\ pc' = [pc EXCEPT ![iMain + 1] = "arriba"]
    <3>1. SinCandidato
      BY <1>1, <2>2 DEF Rondas, ConCandidato, Antes
    <3>. QED
      BY <1>2, <2>2, <3>1 DEF SinCandidato
  <2>. QED
    BY <1>1, <2>1, <2>2
<1>4. "arriba" \notin SinVotar
  BY DEF SinVotar, Anunciados
<1>. QED
  BY <1>1, <1>3, <1>4, EscrutinioSigue

LEMMA EscrutinioRecibe ==
  ASSUME Tipo, Rondas, Escrutinio, NEW v \in Votantes, EntregaVotante(v), ~eintr'
  PROVE  Escrutinio'
<1>1. /\ UNCHANGED <<candidate, votes, vota, veredicto, leido, result, sa_mask>> /\ ~eintr
      /\ pc' = pc \/ \E a \in Estados : pc' = [pc EXCEPT ![v] = a]
      /\ pc'[v] \in Idos \cup {pc[v]} \/ EnSigsuspend(v)
      /\ OtroPasa(v)
  <2>1. UNCHANGED <<candidate, votes, vota, veredicto, leido, result, sa_mask>> /\ ~eintr
    BY DEF EntregaVotante, VotanteMuere, Despierta, VotanteSenalSimple, VotanteEintr, VotanteCatcher,
       historia, locales, entorno
  <2>2. Papel(v)
    BY <2>1 DEF Rondas
  <2>. QED
    BY <2>1, <2>2, RecibeSenal DEF EntregaVotante, VotanteMuere, Despierta, VotanteSenalSimple,
       VotanteEintr, Va, Estados
<1>2. /\ Papel(v) /\ candidate[v] \in {0, 1}
      /\ \A w \in Votantes : w # v => pc'[w] = pc[w]
  BY <1>1 DEF Rondas, OtroPasa, Igual, Otros, Tipo, TypeOK
<1>3. /\ candidate[v] = 0 \/ pc'[v] = pc[v] \/ pc'[v] \in Idos
      /\ pc'[v] \in SinVotar => pc[v] \in SinVotar
  <2>1. candidate[v] = 1 => ~EnSigsuspend(v)
    BY <1>2 DEF Papel, EnSigsuspend, Convoca, Votando, Recuenta, Idos
  <2>2. pc'[v] \in SinVotar => pc[v] \in SinVotar
    <3>1. CASE pc'[v] \in Idos \cup {pc[v]}
      BY <3>1 DEF SinVotar, Anunciados, Idos
    <3>2. CASE EnSigsuspend(v)
      BY <1>1, <3>2 DEF OtroPasa, Mueve, EnSigsuspend, SinVotar, Anunciados, Idos
    <3>. QED
      BY <1>1, <3>1, <3>2
  <2>. QED
    BY <1>1, <1>2, <2>1, <2>2
<1>. QED
  BY <1>1, <1>2, <1>3, EscrutinioSigue

(* A voter that is not the candidate, all but its vote.                     *)
LEMMA EscrutinioOtro ==
  ASSUME Tipo, Rondas, Escrutinio, NEW v \in Votantes, Votante(v), candidate[v] = 0,
         ~V_Candidato(v), ~V_Votar(v), ~eintr
  PROVE  Escrutinio'
<1>1. /\ Papel(v) /\ OtroPasa(v) /\ \A w \in Votantes : w # v => pc'[w] = pc[w] /\ sa_mask'[w] = sa_mask[w]
      /\ pc[v] \notin Convoca \cup Recuenta
      /\ pc[v] = "trywait" => sa_mask[v] = MascaraUno
  BY OtroVota DEF Rondas, OtroPasa, Igual, Otros, Papel
<1>2. /\ result \in [Votantes -> Nat] /\ candidate \in [Votantes -> {0, 1}]
      /\ pc \in [Votantes -> Estados]
  BY DEF Tipo, TypeOK
<1>3. /\ UNCHANGED <<candidate, votes, vota, veredicto, leido>>
      /\ \/ UNCHANGED result
         \/ pc[v] = "getvalue2" /\ result' = [result EXCEPT ![v] = sem_s]
      /\ pc'[v] \in {"suspende1", "espera1", "espera2", "sem_post_s", "suspende2", "getvalue2",
                     "fopen_a", "arriba", "exit"}
      /\ pc'[v] \in SinVotar => pc[v] \in SinVotar \cup {"trywait"}
  <2>1. CASE V_Espera(v) \/ V_Sigsuspend(v) \/ V_NoCandidato(v) \/ V_Avisa(v) \/ V_WaitF(v)
    <3>1. UNCHANGED <<candidate, votes, vota, veredicto, leido, result>>
      BY <2>1 DEF V_Espera, V_Sigsuspend, V_NoCandidato, V_Avisa, V_WaitF, locales, entorno, historia
    <3>2. \/ pc[v] \in SinVotar \cup {"trywait"}
             /\ pc'[v] \in {"espera2", "sem_post_s", "getvalue2", "fopen_a"}
          \/ pc'[v] \in {"suspende1", "espera1"}
      BY <1>2, <2>1 DEF V_Espera, V_Sigsuspend, V_NoCandidato, V_Avisa, V_WaitF, Va, SinVotar, Anunciados
    <3>. QED
      BY <3>1, <3>2 DEF SinVotar, Anunciados
  <2>2. CASE V_GetValue(v)
    <3>1. UNCHANGED <<candidate, votes, vota, veredicto, leido>> /\ result' = [result EXCEPT ![v] = sem_s]
          /\ pc[v] = "getvalue2"
      BY <1>1, <2>2 DEF V_GetValue, Va, entorno, historia, Convoca
    <3>2. pc'[v] = "suspende2"
      BY <2>2, <3>1 DEF V_GetValue, Va, Tipo, TypeOK
    <3>. QED
      BY <3>1, <3>2 DEF SinVotar, Anunciados
  <2>3. CASE V_PostF(v) \/ V_Fallo(v)
    <3>1. UNCHANGED <<candidate, votes, vota, veredicto, leido, result>>
      BY <2>3 DEF V_PostF, V_Fallo, locales, entorno, historia
    <3>2. pc'[v] \in {"arriba", "exit"}
      BY <2>3 DEF V_PostF, V_Fallo, Va, Tipo, TypeOK
    <3>. QED
      BY <3>1, <3>2 DEF SinVotar, Anunciados
  <2>4. CASE \/ V_Vaciar(v) \/ V_WaitS(v) \/ V_KillUsr2(v) \/ V_Abrir(v) \/ V_Leer(v)
             \/ V_Veredicto(v) \/ V_WaitS2(v) \/ V_AbrirPids(v) \/ V_KillUsr1(v) \/ V_PostC(v)
    BY <1>1, <2>4 DEF V_Vaciar, V_WaitS, V_KillUsr2, V_Abrir, V_Leer, V_Veredicto, V_WaitS2,
       V_AbrirPids, V_KillUsr1, V_PostC, Va, Convoca, Recuenta
  <2>. QED
    BY <2>1, <2>2, <2>3, <2>4 DEF Votante
<1>4. \A w \in Votantes : \/ result'[w] = result[w]
                          \/ candidate[w] = 0 /\ n_procs # 1
  <2>1. CASE UNCHANGED result
    BY <2>1
  <2>2. CASE pc[v] = "getvalue2" /\ result' = [result EXCEPT ![v] = sem_s]
    <3>1. ~SinCandidato
      BY <2>2 DEF SinCandidato, SinDespertar, Esperando, Idos
    <3>2. PICK c \in Votantes : candidate[c] = 1
      BY <3>1 DEF Rondas, ConCandidato
    <3>3. c # v /\ n_procs # 1
      BY <3>2 DEF Votantes
    <3>. QED
      BY <1>2, <2>2, <3>3
  <2>. QED
    BY <1>3, <2>1, <2>2
<1>5. pc'[v] \in SinVotar \/ sa_mask'[v] = MascaraUno
        => pc[v] \in SinVotar \/ sa_mask[v] = MascaraUno
  <2>1. sa_mask'[v] = MascaraUno => sa_mask[v] = MascaraUno
    BY <1>1 DEF OtroPasa, MascaraUno, MascaraDos
  <2>. QED
    BY <1>1, <1>3, <2>1
<1>. QED
  BY <1>1, <1>3, <1>4, <1>5, EscrutinioSigue

-----------------------------------------------------------------------------
(* A vote.                                                                  *)

LEMMA EscrutinioVota ==
  ASSUME Tipo, Rondas, Escrutinio, NEW v \in Votantes, V_Votar(v), ~eintr
  PROVE  /\ Escrutinio'
         /\ [votante |-> v, voto |-> vota[v]] \in Voto
         /\ Emitidos' = Emitidos \cup {[votante |-> v, voto |-> vota[v]]}
         /\ ~HaVotado(v)
<1>1. /\ pc \in [Votantes -> Estados] /\ votes \in Seq(Voto) /\ Len(votes) \in Nat
      /\ vota[v] \in {0, 1} /\ v \in Procesos /\ v # 0 /\ candidate \in [Votantes -> {0, 1}]
      /\ leido \in [Votantes -> Nat]
  BY ProcesoEs DEF Tipo, TypeOK, Votantes
<1>2. [votante |-> v, voto |-> vota[v]] \in Voto
  BY <1>1 DEF Voto
<1>3. PICK b \in Voto : b = [votante |-> v, voto |-> vota[v]]
  BY <1>2
<1>4. b.votante = v /\ b.voto = vota[v] /\ b # VotoViejo
  BY <1>1, <1>3 DEF VotoViejo
<1>5. /\ UNCHANGED <<candidate, vota, veredicto, leido, result, sa_mask>>
      /\ pc[v] = "fopen_a" /\ votes' = Append(votes, b)
      /\ pc'[v] = "sem_post_f" /\ \A w \in Votantes : w # v => pc'[w] = pc[w]
  BY <1>1, <1>3 DEF V_Votar, Va, locales, entorno, historia
<1>6. /\ Len(votes') = Len(votes) + 1 /\ votes'[Len(votes) + 1] = b
      /\ \A k \in 1 .. Len(votes) : votes'[k] = votes[k]
  BY <1>1, <1>5
<1>7. 1 .. Len(votes') = 1 .. Len(votes) \cup {Len(votes) + 1}
  BY <1>1, <1>6
<1>8. ASSUME NEW w \in Votantes PROVE HaVotado(w)' <=> HaVotado(w) \/ w = v
  <2>1. votes'[Len(votes) + 1].votante = v
    BY <1>4, <1>6
  <2>2. HaVotado(w)' <=> \E k \in 1 .. Len(votes) \cup {Len(votes) + 1} : votes'[k].votante = w
    BY <1>7 DEF HaVotado
  <2>3. HaVotado(w) <=> \E k \in 1 .. Len(votes) : votes'[k].votante = w
    BY <1>6 DEF HaVotado
  <2>. QED
    BY <2>1, <2>2, <2>3, Zenon
<1>9. ~HaVotado(v) /\ sa_mask[v] = MascaraDos /\ MascaraUno # MascaraDos
  BY <1>5 DEF Escrutinio, Papeletas, SinVotar, Rondas, Papel, Votando, MascaraUno, MascaraDos
<1>10. UnaVez'
  <2>1. \A j \in 1 .. Len(votes) : votes[j].votante # v
    BY <1>9 DEF HaVotado
  <2>. QED
    BY <1>1, <1>4, <1>6, <2>1 DEF Escrutinio, Papeletas, UnaVez
<1>11. Papeletas'
  <2>1. \A k \in 1 .. Len(votes') :
          \/ votes'[k] = VotoViejo
          \/ votes'[k].votante \in Votantes /\ votes'[k].voto = vota'[votes'[k].votante]
    BY <1>1, <1>4, <1>5, <1>6 DEF Escrutinio, Papeletas
  <2>2. \A w \in Votantes : pc'[w] \in SinVotar \/ sa_mask'[w] = MascaraUno => ~HaVotado(w)'
    BY <1>5, <1>8, <1>9 DEF Escrutinio, Papeletas, SinVotar, Anunciados
  <2>. QED
    BY <1>5, <1>10, <2>1, <2>2 DEF Escrutinio, Papeletas
<1>12. SinViejos => SinViejos'
  BY <1>1, <1>4, <1>6 DEF SinViejos
<1>13. ASSUME NEW c \in Votantes, candidate[c] = 1, Mesa(c)
       PROVE  Mesa(c)'
  <2>1. ConCandidato(c)
    BY <1>13 DEF Rondas, SinCandidato, ConCandidato, Otros
  <2>2. CASE c = v
    BY <1>5, <1>8, <1>12, <1>13, <2>2 DEF Mesa, Convoca, Votando, Recuenta, Recontada
  <2>3. CASE c # v
    <3>1. pc'[c] = pc[c] /\ pc[c] \notin Convoca
      BY <1>5, <2>1, <2>3 DEF ConCandidato, Convocatoria, Otros, Esperando, Anunciados, Idos
    <3>2. ASSUME leido[c] <= Len(votes)
          PROVE  leido'[c] <= Len(votes') /\ Afirmativos(1, leido[c])' = Afirmativos(1, leido[c])
      <4>1. leido[c] \in Nat /\ leido'[c] = leido[c]
        BY <1>1, <1>5
      <4>2. \A k \in 1 .. leido[c] : votes'[k] = votes[k]
        BY <1>1, <1>6, <3>2, <4>1
      <4>3. {k \in 1 .. leido[c] : votes'[k].voto = 1} = {k \in 1 .. leido[c] : votes[k].voto = 1}
        BY <4>2
      <4>4. Afirmativos(1, leido[c])' = Cardinality({k \in 1 .. leido[c] : votes'[k].voto = 1})
        BY <4>1 DEF Afirmativos
      <4>5. Afirmativos(1, leido[c]) = Cardinality({k \in 1 .. leido[c] : votes[k].voto = 1})
        BY DEF Afirmativos
      <4>6. leido'[c] <= Len(votes')
        BY <1>1, <1>6, <3>2, <4>1
      <4>. QED
        BY <4>3, <4>4, <4>5, <4>6
    <3>3. HaVotado(c) => HaVotado(c)'
      BY <1>8
    <3>. QED
      BY <1>5, <1>12, <1>13, <3>1, <3>2, <3>3 DEF Mesa, Convoca
  <2>. QED
    BY <2>2, <2>3
<1>14. ~SinCandidato
  BY <1>5 DEF SinCandidato, SinDespertar, Esperando, Idos
<1>15. Escrutinio'
  <2>1. PICK c \in Votantes : candidate[c] = 1 /\ Mesa(c)
    BY <1>14 DEF Escrutinio, Rondas, ConCandidato
  <2>. QED
    BY <1>5, <1>11, <1>13, <2>1 DEF Escrutinio
<1>16. Emitidos' = Emitidos \cup {b}
  <2>1. Emitidos' = {votes'[k] : k \in {x \in 1 .. Len(votes) \cup {Len(votes) + 1} : votes'[x] # VotoViejo}}
    BY <1>7 DEF Emitidos
  <2>2. Emitidos = {votes'[k] : k \in {x \in 1 .. Len(votes) : votes'[x] # VotoViejo}}
    BY <1>6 DEF Emitidos
  <2>. QED
    BY <1>4, <1>6, <2>1, <2>2, Zenon
<1>. QED
  BY <1>2, <1>3, <1>9, <1>15, <1>16

-----------------------------------------------------------------------------
(* The candidate.                                                           *)

(* When it asks for the value of sem_s for the last time, there is none.    *)
LEMMA SinPosts ==
  ASSUME Tipo, NEW c \in Votantes, ConCandidato(c), pc[c] = "getvalue", i[c] >= n_procs - 1
  PROVE  sem_s = 0
<1>1. Convocatoria(c)
  BY DEF ConCandidato, Convoca
<1>2. /\ sem_s \in Nat /\ i[c] \in Nat
      /\ sem_s + i[c] <= Cardinality(Avisados(c))
  BY <1>1 DEF Convocatoria, EsperasUno, Tipo, TypeOK
<1>3. Avisados(c) \in SUBSET Otros(c) /\ Otros(c) \subseteq Votantes
  BY DEF Avisados, Otros
<1>4. Cardinality(Avisados(c)) \in Nat /\ Cardinality(Avisados(c)) <= n_procs - 1
  BY <1>3, EstanTodos, CuentaMenos
<1>. QED
  BY <1>2, <1>4, VotacionAssumption

(* A candidate that comes back has the votes of all the others, and its own.*)
LEMMA HanVotado ==
  ASSUME NEW c \in Votantes, ConCandidato(c), Mesa(c), pc[c] = "trywait"
  PROVE  \A w \in Votantes : HaVotado(w)
  BY DEF ConCandidato, Mesa, Dormidos, Otros

(* On its own, a voter that votes no never counts a yes.                    *)
LEMMA SoloNo ==
  ASSUME Tipo, Papeletas, SinViejos, NEW c \in Votantes, n_procs = 1, vota[c] = 0,
         NEW m \in Nat
  PROVE  Afirmativos(m + 1, Len(votes)) = 0
<1>1. \A k \in 1 .. Len(votes) : votes[k].voto = 0
  BY DEF Papeletas, SinViejos, Votantes
<1>2. {k \in m + 1 .. Len(votes) : votes[k].voto = 1} = {}
  BY <1>1 DEF Tipo, TypeOK
<1>. QED
  BY <1>2, FS_EmptySet DEF Afirmativos

(* Steps of the candidate that leave file, verdict and count alone.         *)
LEMMA CandidatoCalla ==
  ASSUME Tipo, Rondas, Escrutinio, ~eintr, NEW c \in Votantes, candidate[c] = 1, Mesa(c),
         \/ V_WaitS(c) \/ V_KillUsr2(c) \/ V_WaitF(c) \/ V_PostF(c) \/ V_WaitS2(c)
         \/ V_AbrirPids(c) \/ V_KillUsr1(c) \/ V_PostC(c) \/ V_Fallo(c) \/ V_Candidato(c)
  PROVE  Papeletas' /\ candidate'[c] = 1 /\ Mesa(c)'
<1>1. /\ pc \in [Votantes -> Estados] /\ sa_mask \in [Votantes -> SUBSET (Senales \ {"SIGTERM"})]
      /\ candidate \in [Votantes -> {0, 1}]
  BY DEF Tipo, TypeOK
<1>2. ConCandidato(c) /\ sa_mask[c] = MascaraDos /\ MascaraUno # MascaraDos
  BY DEF Rondas, Papel, SinCandidato, ConCandidato, Otros, MascaraUno, MascaraDos
<1>3. UNCHANGED <<votes, vota, veredicto, leido, result>> /\ candidate'[c] = 1
  BY <1>1 DEF V_WaitS, V_KillUsr2, V_WaitF, V_PostF, V_WaitS2, V_AbrirPids, V_KillUsr1, V_PostC,
     V_Fallo, V_Candidato, locales, entorno, historia
<1>4. /\ \A w \in Otros(c) : pc'[w] = pc[w] /\ sa_mask'[w] = sa_mask[w]
      /\ sa_mask'[c] = MascaraDos
  <2>1. \/ sa_mask' = sa_mask
        \/ sa_mask' = [sa_mask EXCEPT ![c] = sa_mask[c]]
        \/ sa_mask' = [sa_mask EXCEPT ![c] = sa_mask[c] \cup {"SIGUSR1"}]
        \/ sa_mask' = [sa_mask EXCEPT ![c] = Mascara2(c)]
    BY <1>1 DEF V_WaitS, V_KillUsr2, V_WaitF, V_PostF, V_WaitS2, V_AbrirPids, V_KillUsr1, V_PostC,
       V_Fallo, V_Candidato, locales
  <2>2. sa_mask[c] \cup {"SIGUSR1"} = MascaraDos /\ Mascara2(c) = MascaraDos
    BY <1>2 DEF Mascara2, MascaraDos
  <2>3. \A w \in Otros(c) : pc'[w] = pc[w]
    BY <1>1 DEF V_WaitS, V_KillUsr2, V_WaitF, V_PostF, V_WaitS2, V_AbrirPids, V_KillUsr1, V_PostC,
       V_Fallo, V_Candidato, Va, Otros
  <2>. QED
    BY <1>1, <1>2, <2>1, <2>2, <2>3 DEF Otros
<1>5. \/ pc[c] = "sem_wait_s" /\ pc'[c] = "getvalue"
      \/ pc[c] = "kill_usr2" /\ pc'[c] = "sem_wait_f"
      \/ pc[c] = "sem_wait_f" /\ pc'[c] = "fopen_a"
      \/ pc[c] = "sem_post_f" /\ pc'[c] = "fopen_r"
      \/ pc[c] \in Recontada /\ pc'[c] \in Recontada
      \/ pc[c] = "trywait" /\ pc'[c] = "fopen_w"
      \/ pc'[c] = "exit"
  BY <1>1 DEF V_WaitS, V_KillUsr2, V_WaitF, V_PostF, V_WaitS2, V_AbrirPids, V_KillUsr1, V_PostC,
     V_Fallo, V_Candidato, Va, Reune2, Recontada
<1>6. \A w \in Votantes : HaVotado(w)' <=> HaVotado(w)
  BY <1>3 DEF HaVotado
<1>7. Papeletas'
  <2>1. pc'[c] \in SinVotar => pc[c] \in SinVotar \/ votes = <<>>
    BY <1>5 DEF SinVotar, Anunciados, Recontada, Mesa, Convoca
  <2>. QED
    BY <1>2, <1>3, <1>4, <2>1, PapeletasIguales DEF Escrutinio, Otros
<1>8. Mesa(c)'
  <2>1. (Estrenada' <=> Estrenada) /\ (SinViejos' <=> SinViejos)
    BY <1>3 DEF Estrenada, SinViejos
  <2>2. CASE pc[c] = "trywait" /\ pc'[c] = "fopen_w"
    BY <1>2, <1>3, <1>6, <2>2, HanVotado DEF Mesa, Convoca, Votando, Recuenta, Recontada
  <2>3. CASE ~(pc[c] = "trywait" /\ pc'[c] = "fopen_w")
    BY <1>3, <1>5, <1>6, <2>1, <2>3 DEF Mesa, Convoca, Votando, Recuenta, Recontada
  <2>. QED
    BY <2>2, <2>3
<1>. QED
  BY <1>3, <1>7, <1>8

(* Emptying the file.                                                       *)
LEMMA CandidatoVacia ==
  ASSUME Tipo, Rondas, Escrutinio, ~eintr, NEW c \in Votantes, candidate[c] = 1, V_Vaciar(c)
  PROVE  Papeletas' /\ candidate'[c] = 1 /\ Mesa(c)'
<1>1. /\ UNCHANGED <<candidate, vota, result>> /\ votes' = <<>> /\ veredicto' = "no"
      /\ pc'[c] = Reune(0)
  BY DEF V_Vaciar, Va, entorno, Tipo, TypeOK
<1>2. pc'[c] \in {"sem_wait_s", "kill_usr2"} /\ (pc'[c] = "kill_usr2" => ~(n_procs > 1))
  BY <1>1, VotacionAssumption DEF Reune
<1>3. Len(votes') = 0 /\ \A w \in Votantes : ~HaVotado(w)'
  BY <1>1 DEF HaVotado
<1>4. Papeletas'
  BY <1>1, <1>3 DEF Escrutinio, Papeletas, UnaVez
<1>5. Mesa(c)'
  BY <1>1, <1>2, <1>3 DEF Mesa, SinViejos, Convoca, Votando, Recuenta, Recontada
<1>. QED
  BY <1>1, <1>4, <1>5

(* Asking for the value of sem_s, which is 0 the last time.                 *)
LEMMA CandidatoConsulta ==
  ASSUME Tipo, Rondas, Escrutinio, ~eintr, NEW c \in Votantes, candidate[c] = 1, Mesa(c), V_GetValue(c)
  PROVE  Papeletas' /\ candidate'[c] = 1 /\ Mesa(c)'
<1>1. ConCandidato(c) /\ Papel(c)
  BY DEF Rondas, SinCandidato, ConCandidato, Otros
<1>2. /\ UNCHANGED <<candidate, votes, vota, veredicto, leido, sa_mask>>
      /\ pc[c] = "getvalue" /\ pc'[c] = Reune(i[c])
      /\ \A w \in Votantes : w # c => pc'[w] = pc[w] /\ result'[w] = result[w]
      /\ result'[c] = sem_s
  BY <1>1 DEF V_GetValue, Va, entorno, historia, Papel, Convoca, Votando, Recuenta, Idos, Tipo, TypeOK
<1>3. i[c] \in Nat /\ n_procs \in Nat
  BY VotacionAssumption DEF Tipo, TypeOK
<1>4. pc'[c] = "sem_wait_s" \/ (pc'[c] = "kill_usr2" /\ i[c] >= n_procs - 1)
  BY <1>2, <1>3 DEF Reune
<1>5. i[c] >= n_procs - 1 => result'[c] = 0
  BY <1>1, <1>2, SinPosts
<1>6. n_procs = 1 => result'[c] = 0
  BY <1>3, <1>5
<1>7. pc'[c] \notin SinVotar
  BY <1>4 DEF SinVotar, Anunciados
<1>8. Papeletas'
  BY <1>2, <1>6, <1>7, PapeletasIguales DEF Escrutinio
<1>9. votes = <<>> /\ veredicto = "no" /\ SinViejos'
  BY <1>2 DEF Mesa, Convoca, SinViejos
<1>10. Mesa(c)'
  BY <1>2, <1>4, <1>5, <1>9 DEF Mesa, Convoca, Votando, Recuenta, Recontada
<1>. QED
  BY <1>2, <1>8, <1>10

(* Opening the votes, and reading all there are.                            *)
LEMMA CandidatoLee ==
  ASSUME Tipo, Rondas, Escrutinio, ~eintr, NEW c \in Votantes, candidate[c] = 1, Mesa(c),
         V_Abrir(c) \/ V_Leer(c)
  PROVE  Papeletas' /\ candidate'[c] = 1 /\ Mesa(c)'
<1>1. /\ leido[c] \in Nat /\ Len(votes) \in Nat /\ result[c] \in Nat /\ vota[c] \in {0, 1}
      /\ n_procs \in Nat \ {0}
      /\ leido \in [Votantes -> Nat] /\ result \in [Votantes -> Nat] /\ pc \in [Votantes -> Estados]
  BY VotacionAssumption DEF Tipo, TypeOK
<1>2. UNCHANGED <<candidate, votes, vota, veredicto, sa_mask>> /\ pc'[c] = "fread"
      /\ \A w \in Votantes : w # c => pc'[w] = pc[w] /\ result'[w] = result[w]
  BY <1>1 DEF V_Abrir, V_Leer, Va, entorno, historia
<1>3. /\ (HaVotado(c)' <=> HaVotado(c)) /\ (SinViejos' <=> SinViejos)
      /\ HaVotado(c) /\ SinViejos /\ veredicto = "no"
  <2>1. pc[c] \in {"fopen_r", "fread"}
    BY DEF V_Abrir, V_Leer, Va
  <2>. QED
    BY <1>2, <2>1 DEF HaVotado, SinViejos, Mesa, Recuenta
<1>4. "fread" \notin SinVotar /\ "fread" \notin Convoca \cup Votando \cup Recontada
      /\ "fread" \notin {"fopen_w", "kill_usr2", "fopen_r"}
  BY DEF SinVotar, Anunciados, Convoca, Votando, Recontada
<1>5. ASSUME n_procs = 1 => result'[c] = 0 \/ vota[c] = 1
      PROVE  Papeletas'
  <2>1. \A w \in Votantes : HaVotado(w)' <=> HaVotado(w)
    BY <1>2 DEF HaVotado
  <2>2. UnaVez'
    BY <1>2 DEF Escrutinio, Papeletas, UnaVez
  <2>3. \A w \in Votantes : pc'[w] \in SinVotar \/ sa_mask'[w] = MascaraUno => ~HaVotado(w)'
    BY <1>2, <1>4, <2>1 DEF Escrutinio, Papeletas
  <2>4. n_procs = 1 => \A w \in Votantes : result'[w] = 0 \/ vota'[w] = 1
    BY <1>2, <1>5 DEF Escrutinio, Papeletas
  <2>5. \A k \in 1 .. Len(votes') :
          \/ votes'[k] = VotoViejo
          \/ votes'[k].votante \in Votantes /\ votes'[k].voto = vota'[votes'[k].votante]
    BY <1>2 DEF Escrutinio, Papeletas
  <2>. QED
    BY <2>2, <2>3, <2>4, <2>5 DEF Papeletas
<1>6. ASSUME leido'[c] <= Len(votes),
             n_procs > 1 => result'[c] = Afirmativos(1, leido[c])',
             n_procs = 1 => result'[c] >= Afirmativos(1, leido[c])'
      PROVE  Mesa(c)'
  BY <1>2, <1>3, <1>4, <1>6 DEF Mesa
<1>7. CASE V_Abrir(c)
  <2>1. leido'[c] = 0 /\ result'[c] = result[c] /\ pc[c] = "fopen_r"
    BY <1>1, <1>7 DEF V_Abrir, Va
  <2>2. Afirmativos(1, leido[c])' = 0
    <3>1. {k \in 1 .. leido'[c] : votes'[k].voto = 1} = {}
      BY <2>1
    <3>. QED
      BY <3>1, FS_EmptySet DEF Afirmativos
  <2>3. n_procs > 1 => result[c] = 0
    BY <2>1 DEF Mesa
  <2>4. n_procs = 1 => result[c] = 0 \/ vota[c] = 1
    BY DEF Escrutinio, Papeletas
  <2>. QED
    BY <1>1, <1>2, <1>5, <1>6, <2>1, <2>2, <2>3, <2>4
<1>8. CASE V_Leer(c)
  <2>1. /\ leido'[c] = Len(votes) /\ pc[c] = "fread"
        /\ result'[c] = result[c] + Afirmativos(leido[c] + 1, Len(votes))
    BY <1>1, <1>8 DEF V_Leer, Va
  <2>2. /\ leido[c] <= Len(votes)
        /\ n_procs > 1 => result[c] = Afirmativos(1, leido[c])
        /\ n_procs = 1 => result[c] >= Afirmativos(1, leido[c])
    BY <2>1 DEF Mesa
  <2>3. /\ Afirmativos(1, leido[c]) \in Nat /\ Afirmativos(leido[c] + 1, Len(votes)) \in Nat
        /\ Afirmativos(1, leido[c])' = Afirmativos(1, leido[c]) + Afirmativos(leido[c] + 1, Len(votes))
    <3>1. /\ Cardinality(SiEn(votes, leido[c] + 1, Len(votes))) \in Nat
          /\ Cardinality(SiEn(votes, 1, Len(votes)))
               = Cardinality(SiEn(votes, 1, leido[c])) + Cardinality(SiEn(votes, leido[c] + 1, Len(votes)))
      BY <1>1, <2>2, SiSuman
    <3>2. Afirmativos(leido[c] + 1, Len(votes)) = Cardinality(SiEn(votes, leido[c] + 1, Len(votes)))
      BY DEF Afirmativos, SiEn
    <3>3. /\ Afirmativos(1, leido[c]) = Cardinality(SiEn(votes, 1, leido[c]))
          /\ Afirmativos(1, leido[c]) \in Nat
      BY <1>1, AfirmativosSon
    <3>4. Afirmativos(1, leido[c])' = Cardinality(SiEn(votes, 1, Len(votes)))
      BY <1>2, <2>1 DEF Afirmativos, SiEn
    <3>. QED
      BY <3>1, <3>2, <3>3, <3>4
  <2>4. n_procs = 1 => result'[c] = 0 \/ vota[c] = 1
    <3>. SUFFICES ASSUME n_procs = 1, vota[c] = 0 PROVE result'[c] = 0
      BY <1>1
    <3>1. result[c] = 0
      BY DEF Escrutinio, Papeletas
    <3>2. Afirmativos(leido[c] + 1, Len(votes)) = 0
      BY <1>1, <1>3, SoloNo DEF Escrutinio
    <3>. QED
      BY <2>1, <3>1, <3>2
  <2>5. /\ n_procs > 1 => result'[c] = Afirmativos(1, leido[c])'
        /\ n_procs = 1 => result'[c] >= Afirmativos(1, leido[c])'
    <3>1. ASSUME NEW r \in Nat, NEW a \in Nat, NEW d \in Nat
          PROVE  (r = a => r + d = a + d) /\ (r >= a => r + d >= a + d)
      OBVIOUS
    <3>. QED
      BY <1>1, <2>1, <2>2, <2>3, <3>1
  <2>6. leido'[c] <= Len(votes)
    BY <1>1, <2>1
  <2>. QED
    BY <1>2, <1>5, <1>6, <2>4, <2>5, <2>6
<1>. QED
  BY <1>2, <1>7, <1>8

(* The verdict goes with the majority.                                      *)
LEMMA CandidatoDicta ==
  ASSUME Tipo, Rondas, Escrutinio, ~eintr, NEW c \in Votantes, candidate[c] = 1, Mesa(c), V_Veredicto(c)
  PROVE  /\ Papeletas' /\ candidate'[c] = 1 /\ Mesa(c)'
         /\ veredicto = "no" /\ UNCHANGED votes /\ Emitidos # {}
         /\ veredicto' = IF UrnaImplementada!Mayoria(Emitidos) THEN "Accepted" ELSE "Rejected"
<1>1. /\ UNCHANGED <<candidate, votes, vota, result, sa_mask>>
      /\ pc[c] = "fread" /\ pc'[c] = Reune2(0) /\ \A w \in Votantes : w # c => pc'[w] = pc[w]
      /\ leido[c] >= Len(votes)
      /\ veredicto' = IF result[c] > n_procs \div 2 THEN "Accepted" ELSE "Rejected"
  BY DEF V_Veredicto, Va, entorno, Tipo, TypeOK
<1>2. pc'[c] \in {"sem_wait_s2", "fopen_pids"}
  BY <1>1 DEF Reune2
<1>3. /\ leido[c] \in Nat /\ Len(votes) \in Nat /\ result[c] \in Nat /\ vota[c] \in {0, 1}
      /\ n_procs \in Nat \ {0} /\ votes \in Seq(Voto)
  BY VotacionAssumption DEF Tipo, TypeOK
<1>4. /\ veredicto = "no" /\ SinViejos /\ HaVotado(c) /\ leido[c] = Len(votes)
      /\ n_procs > 1 => result[c] = Afirmativos(1, Len(votes))
      /\ n_procs = 1 => result[c] >= Afirmativos(1, Len(votes))
  <2>1. /\ veredicto = "no" /\ SinViejos /\ HaVotado(c) /\ leido[c] <= Len(votes)
        /\ n_procs > 1 => result[c] = Afirmativos(1, leido[c])
        /\ n_procs = 1 => result[c] >= Afirmativos(1, leido[c])
    BY <1>1 DEF Mesa, Recuenta
  <2>2. leido[c] = Len(votes)
    BY <1>1, <1>3, <2>1
  <2>. QED
    BY <2>1, <2>2
<1>5. HaVotado(c)' <=> HaVotado(c)
  BY <1>1 DEF HaVotado
<1>6. pc'[c] \notin SinVotar
  BY <1>2 DEF SinVotar, Anunciados
<1>7. Papeletas'
  BY <1>1, <1>6, PapeletasIguales DEF Escrutinio
<1>8. veredicto' # "no"
  BY <1>1
<1>9. Mesa(c)'
  BY <1>2, <1>4, <1>5, <1>8 DEF Mesa, Convoca, Votando, Recuenta
<1>10. Emitidos = {votes[k] : k \in 1 .. Len(votes)}
  BY <1>4 DEF Emitidos, SinViejos
<1>11. Emitidos # {}
  BY <1>4, <1>10 DEF HaVotado
<1>12. Cardinality({e \in Emitidos : e.voto = 1}) = Afirmativos(1, Len(votes))
       /\ Afirmativos(1, Len(votes)) \in Nat
  <2>1. \A j, k \in 1 .. Len(votes) : votes[j].votante = votes[k].votante => j = k
    BY DEF Escrutinio, Papeletas, UnaVez
  <2>. QED
    BY <1>3, <1>10, <2>1, SiDistintos, AfirmativosSon
<1>13. result[c] > n_procs \div 2 <=> Afirmativos(1, Len(votes)) > n_procs \div 2
  <2>1. CASE n_procs > 1
    BY <1>4, <2>1
  <2>2. CASE n_procs = 1
    <3>1. result[c] > 0 => Afirmativos(1, Len(votes)) > 0
      <4>. SUFFICES ASSUME result[c] > 0 PROVE Afirmativos(1, Len(votes)) > 0
        OBVIOUS
      <4>1. vota[c] = 1
        BY <1>3, <2>2 DEF Escrutinio, Papeletas
      <4>2. PICK k \in 1 .. Len(votes) : votes[k].votante = c
        BY <1>4 DEF HaVotado
      <4>3. votes[k].voto = 1
        BY <1>4, <4>1, <4>2 DEF Escrutinio, Papeletas, SinViejos
      <4>4. SiEn(votes, 1, Len(votes)) # {}
        BY <4>3 DEF SiEn
      <4>. QED
        BY <1>3, <4>4, SiSeCuentan, AfirmativosSon
    <3>2. n_procs \div 2 = 0
      BY <2>2
    <3>. QED
      BY <1>3, <1>4, <1>12, <2>2, <3>1, <3>2
  <2>. QED
    BY <1>3, <2>1, <2>2
<1>14. UrnaImplementada!Mayoria(Emitidos) <=> Cardinality({e \in Emitidos : e.voto = 1}) > n_procs \div 2
  <2>1. \A S : UrnaImplementada!Cardinality(S) = Cardinality(S)
    BY DEF UrnaImplementada!Cardinality, Cardinality
  <2>. QED
    BY <2>1 DEF UrnaImplementada!Mayoria
<1>15. UrnaImplementada!Mayoria(Emitidos) <=> result[c] > n_procs \div 2
  BY <1>12, <1>13, <1>14
<1>. QED
  BY <1>1, <1>4, <1>7, <1>9, <1>11, <1>15

(* A voter takes the place, for the first time in the election: the file is *)
(* still the one the run before left.                                       *)
LEMMA EscrutinioElige ==
  ASSUME Tipo, Rondas, Escrutinio, ~eintr, NEW v \in Votantes, candidate[v] = 0, V_Candidato(v)
  PROVE  Escrutinio'
<1>1. /\ pc \in [Votantes -> Estados] /\ sa_mask \in [Votantes -> SUBSET (Senales \ {"SIGTERM"})]
      /\ candidate \in [Votantes -> {0, 1}]
  BY DEF Tipo, TypeOK
<1>2. SinCandidato /\ \A w \in Votantes : Papel(w)
  BY Primero DEF Rondas
<1>3. Estrenada
  BY <1>2 DEF Escrutinio, SinCandidato
<1>4. /\ UNCHANGED <<votes, vota, veredicto, leido, result>>
      /\ candidate' = [candidate EXCEPT ![v] = 1] /\ sa_mask' = [sa_mask EXCEPT ![v] = Mascara2(v)]
      /\ pc' = [pc EXCEPT ![v] = "fopen_w"]
  BY DEF V_Candidato, Va, entorno
<1>5. Mascara2(v) # MascaraUno /\ "fopen_w" \notin SinVotar
  BY DEF Mascara2, MascaraUno, SinVotar, Anunciados
<1>6. Papeletas'
  BY <1>1, <1>4, <1>5, PapeletasIguales DEF Escrutinio
<1>7. Estrenada'
  BY <1>3, <1>4 DEF Estrenada
<1>8. candidate'[v] = 1 /\ pc'[v] = "fopen_w"
  BY <1>1, <1>4
<1>9. Mesa(v)'
  BY <1>7, <1>8 DEF Mesa, Convoca, Votando, Recuenta, Recontada
<1>. QED
  BY <1>6, <1>8, <1>9 DEF Escrutinio

LEMMA MesaDelCandidato ==
  ASSUME Rondas, Escrutinio, ~eintr, NEW v \in Votantes, candidate[v] = 1
  PROVE  ConCandidato(v) /\ Papel(v) /\ Mesa(v)
<1>1. ConCandidato(v) /\ Papel(v)
  BY DEF Rondas, SinCandidato, ConCandidato, Otros
<1>2. PICK c \in Votantes : candidate[c] = 1 /\ Mesa(c)
  BY DEF Escrutinio
<1>3. c = v
  BY <1>1, <1>2 DEF ConCandidato, Otros
<1>. QED
  BY <1>1, <1>2, <1>3

LEMMA EscrutinioCandidato ==
  ASSUME Tipo, Rondas, Escrutinio, ~eintr, NEW v \in Votantes, candidate[v] = 1, Votante(v)
  PROVE  Escrutinio'
<1>1. ConCandidato(v) /\ Papel(v) /\ Mesa(v)
  BY MesaDelCandidato
<1>2. ASSUME Papeletas' /\ candidate'[v] = 1 /\ Mesa(v)' PROVE Escrutinio'
  BY <1>2 DEF Escrutinio
<1>3. CASE \/ V_WaitS(v) \/ V_KillUsr2(v) \/ V_WaitF(v) \/ V_PostF(v) \/ V_WaitS2(v)
           \/ V_AbrirPids(v) \/ V_KillUsr1(v) \/ V_PostC(v) \/ V_Fallo(v) \/ V_Candidato(v)
  BY <1>1, <1>2, <1>3, CandidatoCalla
<1>4. CASE V_Vaciar(v)
  BY <1>2, <1>4, CandidatoVacia
<1>5. CASE V_GetValue(v)
  BY <1>1, <1>2, <1>5, CandidatoConsulta
<1>6. CASE V_Abrir(v) \/ V_Leer(v)
  BY <1>1, <1>2, <1>6, CandidatoLee
<1>7. CASE V_Veredicto(v)
  BY <1>1, <1>2, <1>7, CandidatoDicta
<1>8. CASE V_Votar(v)
  BY <1>8, EscrutinioVota
<1>9. CASE V_Espera(v) \/ V_Sigsuspend(v) \/ V_Avisa(v)
  BY <1>1, <1>9 DEF V_Espera, V_Sigsuspend, V_Avisa, Va, Papel, Convoca, Votando, Recuenta, Idos
<1>10. CASE V_NoCandidato(v)
  BY <1>1, <1>10 DEF V_NoCandidato, Va, ConCandidato
<1>. QED
  BY <1>3, <1>4, <1>5, <1>6, <1>7, <1>8, <1>9, <1>10 DEF Votante

LEMMA EscrutinioVotante ==
  ASSUME Tipo, Rondas, Escrutinio, NEW v \in Votantes, Votante(v), ~eintr'
  PROVE  Escrutinio'
<1>1. ~eintr
  BY DEF Votante, V_Espera, V_Sigsuspend, V_Candidato, V_NoCandidato, V_Vaciar, V_WaitS,
         V_GetValue, V_KillUsr2, V_Avisa, V_WaitF, V_Votar, V_PostF, V_Abrir, V_Leer, V_Veredicto,
         V_WaitS2, V_AbrirPids, V_KillUsr1, V_PostC, V_Fallo, historia
<1>2. candidate[v] \in {0, 1}
  BY DEF Tipo, TypeOK
<1>3. CASE candidate[v] = 1
  BY <1>1, <1>3, EscrutinioCandidato
<1>4. CASE candidate[v] = 0 /\ V_Candidato(v)
  BY <1>1, <1>4, EscrutinioElige
<1>5. CASE candidate[v] = 0 /\ V_Votar(v)
  BY <1>1, <1>5, EscrutinioVota
<1>6. CASE candidate[v] = 0 /\ ~V_Candidato(v) /\ ~V_Votar(v)
  BY <1>1, <1>6, EscrutinioOtro
<1>. QED
  BY <1>2, <1>3, <1>4, <1>5, <1>6

LEMMA EscrutinioPaso ==
  ASSUME Tipo, Rondas, Escrutinio, [Next]_vars
  PROVE  Escrutinio'
<1>. SUFFICES ASSUME ~eintr' PROVE Escrutinio'
  BY DEF Escrutinio
<1>1. CASE main \/ EntregaMain \/ Alarma \/ Sigint \/ UNCHANGED vars
  BY <1>1, EscrutinioAparte
<1>2. ASSUME NEW v \in Votantes, Votante(v) \/ EntregaVotante(v) PROVE Escrutinio'
  BY <1>2, EscrutinioVotante, EscrutinioRecibe
<1>. QED
  BY <1>1, <1>2 DEF Next, Parado

-----------------------------------------------------------------------------
(* The voting as Urna promises it.                                          *)

LEMMA UrnaQuieta == ASSUME UNCHANGED <<votes, veredicto>> PROVE UNCHANGED UrnaImplementada!urna
  BY DEF UrnaImplementada!urna

LEMMA UrnaVotante ==
  ASSUME Tipo, Rondas, Escrutinio, ~eintr, NEW v \in Votantes, Votante(v)
  PROVE  [UrnaImplementada!Next]_(UrnaImplementada!urna)
<1>1. Papel(v) /\ candidate[v] \in {0, 1} /\ votes \in Seq(Voto) /\ Papeletas
  BY DEF Rondas, Tipo, TypeOK, Escrutinio
<1>2. CASE V_Vaciar(v)
  <2>1. pc[v] = "fopen_w" /\ votes' = <<>> /\ veredicto' = "no"
    BY <1>2 DEF V_Vaciar, Va
  <2>2. candidate[v] = 1
    BY <1>1, <2>1 DEF Papel, Convoca
  <2>3. Estrenada \/ (veredicto # "no" /\ \A w \in Votantes : HaVotado(w))
    BY <2>1, <2>2, MesaDelCandidato DEF Mesa
  <2>4. Emitidos' = {}
    BY <2>1 DEF Emitidos
  <2>5. CASE Estrenada
    <3>1. Emitidos = {} /\ veredicto = "no"
      BY <2>5 DEF Emitidos, Estrenada
    <3>. QED
      BY <2>1, <2>4, <3>1 DEF UrnaImplementada!urna, Emitidos
  <2>6. CASE veredicto # "no" /\ \A w \in Votantes : HaVotado(w)
    <3>1. ASSUME NEW w \in Votantes PROVE \E e \in Emitidos : e.votante = w
      <4>1. PICK k \in 1 .. Len(votes) : votes[k].votante = w
        BY <2>6 DEF HaVotado
      <4>2. w # 0 /\ VotoViejo.votante = 0
        BY DEF Votantes, VotoViejo
      <4>3. votes[k] \in Emitidos
        BY <4>1, <4>2 DEF Emitidos
      <4>. QED
        BY <4>1, <4>3
    <3>2. \A e \in Emitidos : e.votante \in Votantes
      BY <1>1 DEF Papeletas, Emitidos
    <3>3. {e.votante : e \in Emitidos} = 1 .. n_procs
      BY <3>1, <3>2 DEF Votantes
    <3>4. UrnaImplementada!Nueva
      BY <2>1, <2>4, <2>6, <3>3 DEF UrnaImplementada!Nueva, Emitidos
    <3>. QED
      BY <3>4 DEF UrnaImplementada!Next
  <2>. QED
    BY <2>3, <2>5, <2>6
<1>3. CASE V_Votar(v)
  <2>1. PICK b \in Voto : b = [votante |-> v, voto |-> vota[v]]
    BY <1>3, EscrutinioVota
  <2>2. Emitidos' = Emitidos \cup {b} /\ ~HaVotado(v)
    BY <1>3, <2>1, EscrutinioVota
  <2>3. b \in UrnaImplementada!Papeleta
    <3>1. vota[v] \in {0, 1}
      BY DEF Tipo, TypeOK
    <3>. QED
      BY <2>1, <3>1 DEF UrnaImplementada!Papeleta, Votantes
  <2>4. \A e \in Emitidos : e.votante # b.votante
    <3>1. b.votante = v
      BY <2>1
    <3>. QED
      BY <2>2, <3>1 DEF Emitidos, HaVotado
  <2>5. UNCHANGED veredicto
    BY <1>3 DEF V_Votar, historia
  <2>6. UrnaImplementada!Votar(b)
    BY <2>2, <2>4, <2>5 DEF UrnaImplementada!Votar, Emitidos
  <2>. QED
    BY <2>3, <2>6 DEF UrnaImplementada!Next
<1>4. CASE V_Veredicto(v)
  <2>1. candidate[v] = 1
    BY <1>1, <1>4 DEF V_Veredicto, Va, Papel, Recuenta
  <2>2. /\ veredicto = "no" /\ UNCHANGED votes /\ Emitidos # {}
        /\ veredicto' = IF UrnaImplementada!Mayoria(Emitidos) THEN "Accepted" ELSE "Rejected"
    BY <1>4, <2>1, MesaDelCandidato, CandidatoDicta
  <2>3. UrnaImplementada!Dictar
    BY <2>2 DEF UrnaImplementada!Dictar, Emitidos
  <2>. QED
    BY <2>3 DEF UrnaImplementada!Next
<1>5. CASE ~V_Vaciar(v) /\ ~V_Votar(v) /\ ~V_Veredicto(v)
  <2>1. UNCHANGED <<votes, veredicto>>
    BY <1>5 DEF Votante, V_Espera, V_Sigsuspend, V_Candidato, V_NoCandidato, V_WaitS,
         V_GetValue, V_KillUsr2, V_Avisa, V_WaitF, V_PostF, V_Abrir, V_Leer,
         V_WaitS2, V_AbrirPids, V_KillUsr1, V_PostC, V_Fallo, historia
  <2>. QED
    BY <2>1, UrnaQuieta
<1>. QED
  BY <1>2, <1>3, <1>4, <1>5

LEMMA UrnaPaso ==
  ASSUME Tipo, Rondas, Escrutinio, ~eintr, [Next]_vars
  PROVE  [UrnaImplementada!Next]_(UrnaImplementada!urna)
<1>1. CASE main \/ EntregaMain \/ Alarma \/ Sigint \/ UNCHANGED vars
  <2>1. CASE main
    <3>1. UNCHANGED <<votes, veredicto>>
      BY <2>1 DEF main, SemOpen, SemExiste, SemUnlink, Calloc, Sigaction, Fork, MainWaitF, FopenPids,
         FwritePids, FwriteFallo, MainPostF, MainWaitS, MainKillUsr1, MainFinBucle,
         MainKillTerm, MainWait, MainFallo, historia
    <3>. QED
      BY <3>1, UrnaQuieta
  <2>2. CASE EntregaMain \/ Alarma \/ Sigint \/ UNCHANGED vars
    <3>1. UNCHANGED <<votes, veredicto>>
      BY <2>2 DEF EntregaMain, MainMuere, MainSenalSimple, MainEintr, MainCatcher, Alarma, Sigint,
         vars, historia
    <3>. QED
      BY <3>1, UrnaQuieta
  <2>. QED
    BY <1>1, <2>1, <2>2
<1>2. ASSUME NEW v \in Votantes, EntregaVotante(v)
      PROVE  [UrnaImplementada!Next]_(UrnaImplementada!urna)
  <2>1. UNCHANGED <<votes, veredicto>>
    BY <1>2 DEF EntregaVotante, VotanteMuere, Despierta, VotanteSenalSimple, VotanteEintr,
       VotanteCatcher, historia
  <2>. QED
    BY <2>1, UrnaQuieta
<1>. QED
  BY <1>1, <1>2, UrnaVotante DEF Next, Parado

(* As long as no sem_wait is cut short, the voters, files and semaphores    *)
(* are a voting as Urna promises: no vote is erased before its round has a  *)
(* verdict, each voter votes once in a round, and the verdict goes with the *)
(* majority of the votes in the file, whatever result held.                 *)
THEOREM UrnaImplementadaSegura == Spec /\ [](~eintr) => ImplementaUrna
<1>1. Init => Tipo /\ Rondas /\ Escrutinio /\ UrnaImplementada!Init
  <2>1. Init => UrnaImplementada!Init
    <3>. SUFFICES ASSUME Init PROVE UrnaImplementada!Init
      OBVIOUS
    <3>1. Emitidos = {} /\ veredicto = "no"
      BY DEF Init, Emitidos
    <3>. QED
      BY <3>1 DEF UrnaImplementada!Init, Emitidos
  <2>. QED
    BY <2>1, TipoInicial, RondasInicial, EscrutinioInicial
<1>2. Tipo /\ Rondas /\ Escrutinio /\ [Next]_vars => Escrutinio'
  BY EscrutinioPaso
<1>3. Tipo /\ Rondas /\ Escrutinio /\ ~eintr /\ [Next]_vars
        => [UrnaImplementada!Next]_(UrnaImplementada!urna)
  BY UrnaPaso
<1>. QED
  BY <1>1, <1>2, <1>3, RondasSeguras, PTL DEF Spec, ImplementaUrna, UrnaImplementada!Spec
=============================================================================
