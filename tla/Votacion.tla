------------------------------ MODULE Votacion ------------------------------
(***************************************************************************)
(* p2/src/voting.c (proyecto/voting.c is the same file): the main process  *)
(* forks the voters and wakes them with SIGUSR1; one of them becomes the   *)
(* candidate, gathers the others on sem_s, sends them SIGUSR2, and each    *)
(* appends its vote to votes.bin; the candidate counts, gathers the others *)
(* again and wakes them for the next round.  SIGALRM or SIGINT to the main *)
(* process ends it all with SIGTERM.                                       *)
(***************************************************************************)
EXTENDS Integers, Sequences, FiniteSets

CONSTANTS
  n_procs,           (* voters                                              *)
  Repartos,          (* functions from voters to pow_hash(getpid()) % 2     *)
  NombresIniciales,  (* sets of semaphore names that may be linked already  *)
  FALLOS,            (* calls that may fail                                 *)
  MaxRondas,         (* bound: rounds begun                                 *)
  MaxSenales,        (* bound: signals from outside, the alarm included     *)
  Destinos           (* sets of processes one SIGINT may be sent to         *)

Votantes == 1 .. n_procs
Principal == 0
Procesos == 0 .. n_procs

SEMS == <<"/sem_candidate", "/sem_file", "/sem_signal">>

PuedenFallar == {"calloc", "fork", "fopen", "fwrite",
                 "fopen_w", "fopen_a", "fopen_r", "fopen_pids"}

ASSUME VotacionAssumption ==
  /\ n_procs \in Nat \ {0}
  /\ Repartos \subseteq [Votantes -> {0, 1}]
  /\ NombresIniciales \subseteq SUBSET {SEMS[k] : k \in 1 .. 3}
  /\ FALLOS \subseteq PuedenFallar
  /\ MaxRondas \in Nat /\ MaxSenales \in Nat
  /\ Destinos \subseteq SUBSET Procesos

VARIABLES
  (* The main process: next call, loop index, flags, children waited for.   *)
  pcMain, iMain, sint, salarm, recogidos,
  (* Each voter: next call, locals, the mask it gives to sigsuspend, votes  *)
  (* it has read.                                                           *)
  pc, candidate, result, i, leido, sa_mask,
  (* Semaphores, their names, the two files (pids.bin as its length).       *)
  sem_c, sem_f, sem_s, nombres, votes, pids,
  (* Pending signals by process, the alarm, signals from outside so far.    *)
  pend, alarma, enviadas,
  (* What each voter's pid makes it vote.                                   *)
  vota,
  (* History: rounds begun, the last verdict, whether a wake-up found its   *)
  (* voter outside sigsuspend, whether a sem_wait was cut short.            *)
  ronda, veredicto, perdida, eintr

principal == <<pcMain, iMain, sint, salarm, recogidos>>
locales   == <<candidate, result, i, leido, sa_mask>>
sems      == <<sem_c, sem_f, sem_s>>
entorno   == <<nombres, pids, vota>>
senales   == <<pend, alarma, enviadas>>
historia  == <<ronda, veredicto, perdida, eintr>>

vars == <<principal, pc, locales, sems, votes, entorno, senales, historia>>

Senales == {"SIGUSR1", "SIGUSR2", "SIGINT", "SIGALRM", "SIGTERM"}

TerminadoMain == pcMain \in {"exit", "fallo", "muerto"}
Muerto(v)     == pc[v] \in {"exit", "muerto"}
Vivo(p)       == IF p = Principal THEN ~TerminadoMain ELSE pc[p] # "no" /\ ~Muerto(p)

(* votes.bin is there from the run before; so is pids.bin, but that one is  *)
(* written before anybody reads it.                                         *)
VotoViejo == [votante |-> 0, voto |-> 1]

Init ==
  /\ pcMain = "sem_open" /\ iMain = 0 /\ sint = FALSE /\ salarm = FALSE /\ recogidos = {}
  /\ pc = [v \in Votantes |-> "no"]
  /\ candidate = [v \in Votantes |-> 0] /\ result = [v \in Votantes |-> 0]
  /\ i = [v \in Votantes |-> 0] /\ leido = [v \in Votantes |-> 0]
  /\ sa_mask = [v \in Votantes |-> Senales \ {"SIGTERM", "SIGUSR1"}]
  /\ sem_c = 1 /\ sem_f = 1 /\ sem_s = 0
  /\ nombres \in NombresIniciales /\ votes = <<VotoViejo>> /\ pids = 0
  /\ pend = [p \in Procesos |-> {}] /\ alarma = TRUE /\ enviadas = 0
  /\ vota \in Repartos
  /\ ronda = 0 /\ veredicto = "no" /\ perdida = FALSE /\ eintr = FALSE

(* kill: s becomes pending at the processes of P that are alive.  The one a *)
(* process sends to itself is handled before kill returns, by a handler that*)
(* does nothing, so senders leave themselves out.                           *)
Manda(s, P) == [p \in Procesos |-> IF p \in P /\ Vivo(p) THEN pend[p] \cup {s} ELSE pend[p]]

-----------------------------------------------------------------------------
(* A voter.                                                                 *)

Va(v, de, a) == pc[v] = de /\ pc' = [pc EXCEPT ![v] = a]

(* The top of the loop of one that has never been the candidate; one that   *)
(* has goes straight to "trywait".                                          *)
V_Espera(v) ==
  /\ Va(v, "arriba", "suspende1")
  /\ sem_s' = sem_s + 1
  /\ UNCHANGED <<principal, locales, sem_c, sem_f, votes, entorno, senales, historia>>

(* The mask comes into force, and the voter sleeps until a signal outside   *)
(* the mask is handled.                                                     *)
V_Sigsuspend(v) ==
  /\ Va(v, "suspende1", "espera1") \/ Va(v, "suspende2", "espera2")
  /\ UNCHANGED <<principal, locales, sems, votes, entorno, senales, historia>>

(* Mutant: SIGTERM is blocked too.                                          *)
Mascara2_ConSigterm(v) == (sa_mask[v] \cup {"SIGUSR1", "SIGTERM"}) \ {"SIGUSR2"}

(* The mask is a local: SIGUSR1 is not blocked outside sigsuspend.          *)
Mascara2(v) == (sa_mask[v] \cup {"SIGUSR1"}) \ {"SIGUSR2"}

V_Candidato(v) ==
  /\ sem_c > 0 /\ ronda < MaxRondas
  /\ Va(v, "trywait", "fopen_w")
  /\ sem_c' = sem_c - 1
  /\ candidate' = [candidate EXCEPT ![v] = 1]
  /\ sa_mask' = [sa_mask EXCEPT ![v] = Mascara2(v)]
  /\ ronda' = ronda + 1
  /\ UNCHANGED <<principal, result, i, leido, sem_f, sem_s, votes, entorno, senales, veredicto, perdida, eintr>>

V_NoCandidato(v) ==
  /\ sem_c = 0
  /\ Va(v, "trywait", "sem_post_s")
  /\ sa_mask' = [sa_mask EXCEPT ![v] = Mascara2(v)]
  /\ UNCHANGED <<principal, candidate, result, i, leido, sems, votes, entorno, senales, historia>>

(* Mutant: one wait too few.                                                *)
Reune_UnoMenos(k) == IF k < n_procs - 2 THEN "sem_wait_s" ELSE "kill_usr2"

(* The loop that waits for the others before SIGUSR2.                       *)
Reune(k) == IF k < n_procs - 1 THEN "sem_wait_s" ELSE "kill_usr2"

(* Mutant: the file is opened without truncating it.                        *)
V_Vaciar_SinVaciar(v) ==
  /\ Va(v, "fopen_w", Reune(0))
  /\ veredicto' = "no"
  /\ i' = [i EXCEPT ![v] = 0]
  /\ UNCHANGED <<principal, candidate, result, leido, sa_mask, sems, votes, entorno, senales, ronda, perdida, eintr>>

V_Vaciar(v) ==
  /\ Va(v, "fopen_w", Reune(0))
  /\ votes' = <<>> /\ veredicto' = "no"
  /\ i' = [i EXCEPT ![v] = 0]
  /\ UNCHANGED <<principal, candidate, result, leido, sa_mask, sems, entorno, senales, ronda, perdida, eintr>>

V_WaitS(v) ==
  /\ sem_s > 0
  /\ Va(v, "sem_wait_s", "getvalue")
  /\ sem_s' = sem_s - 1
  /\ i' = [i EXCEPT ![v] = @ + 1]
  /\ UNCHANGED <<principal, candidate, result, leido, sa_mask, sem_c, sem_f, votes, entorno, senales, historia>>

(* The value before the wait is overwritten by this one and is left out.    *)
V_GetValue(v) ==
  /\ Va(v, "getvalue", Reune(i[v])) \/ Va(v, "getvalue2", "suspende2")
  /\ result' = [result EXCEPT ![v] = sem_s]
  /\ UNCHANGED <<principal, candidate, i, leido, sa_mask, sems, votes, entorno, senales, historia>>

V_KillUsr2(v) ==
  /\ Va(v, "kill_usr2", "sem_wait_f")
  /\ pend' = Manda("SIGUSR2", Procesos \ {v})
  /\ UNCHANGED <<principal, locales, sems, votes, entorno, alarma, enviadas, historia>>

V_Avisa(v) ==
  /\ Va(v, "sem_post_s", "getvalue2")
  /\ sem_s' = sem_s + 1
  /\ UNCHANGED <<principal, locales, sem_c, sem_f, votes, entorno, senales, historia>>

(* Mutant: it goes in whether it gets the semaphore or not.                 *)
V_WaitF_SinEsperar(v) ==
  /\ Va(v, "sem_wait_f", "fopen_a")
  /\ sem_f' = IF sem_f > 0 THEN sem_f - 1 ELSE 0
  /\ UNCHANGED <<principal, locales, sem_c, sem_s, votes, entorno, senales, historia>>

V_WaitF(v) ==
  /\ sem_f > 0
  /\ Va(v, "sem_wait_f", "fopen_a")
  /\ sem_f' = sem_f - 1
  /\ UNCHANGED <<principal, locales, sem_c, sem_s, votes, entorno, senales, historia>>

V_Votar(v) ==
  /\ Va(v, "fopen_a", "sem_post_f")
  /\ votes' = Append(votes, [votante |-> v, voto |-> vota[v]])
  /\ UNCHANGED <<principal, locales, sems, entorno, senales, historia>>

(* Mutant: SIGUSR1 is unblocked for the next round, as the comment says, and*)
(* candidate still is not reset.                                            *)
V_PostF_Desbloquea(v) ==
  /\ Va(v, "sem_post_f", IF candidate[v] = 1 THEN "fopen_r" ELSE "arriba")
  /\ sem_f' = sem_f + 1
  /\ sa_mask' = [sa_mask EXCEPT ![v] = IF candidate[v] = 1 THEN @ ELSE @ \ {"SIGUSR1"}]
  /\ UNCHANGED <<principal, candidate, result, i, leido, sem_c, sem_s, votes, entorno, senales, historia>>

(* Mutant: the semaphore of the file is not given back.                     *)
V_PostF_SinPost(v) ==
  /\ Va(v, "sem_post_f", IF candidate[v] = 1 THEN "fopen_r" ELSE "arriba")
  /\ sa_mask' = [sa_mask EXCEPT ![v] = IF candidate[v] = 1 THEN @ ELSE @ \cup {"SIGUSR1"}]
  /\ UNCHANGED <<principal, candidate, result, i, leido, sems, votes, entorno, senales, historia>>

(* candidate is never reset, so whoever has been the candidate goes on to   *)
(* count; the others go back to the top with SIGUSR1 added to the mask.     *)
V_PostF(v) ==
  /\ Va(v, "sem_post_f", IF candidate[v] = 1 THEN "fopen_r" ELSE "arriba")
  /\ sem_f' = sem_f + 1
  /\ sa_mask' = [sa_mask EXCEPT ![v] = IF candidate[v] = 1 THEN @ ELSE @ \cup {"SIGUSR1"}]
  /\ UNCHANGED <<principal, candidate, result, i, leido, sem_c, sem_s, votes, entorno, senales, historia>>

(* It opens the votes and sleeps for five seconds, which promise nothing    *)
(* about the others.                                                        *)
V_Abrir(v) ==
  /\ Va(v, "fopen_r", "fread")
  /\ leido' = [leido EXCEPT ![v] = 0]
  /\ UNCHANGED <<principal, candidate, result, i, sa_mask, sems, votes, entorno, senales, historia>>

(* fread fills its buffer with all there is, and asks again when that is    *)
(* used up.  result is not set to 0 first.                                  *)
Afirmativos(a, b) == Cardinality({k \in a .. b : votes[k].voto = 1})

V_Leer(v) ==
  /\ leido[v] < Len(votes)
  /\ Va(v, "fread", "fread")
  /\ result' = [result EXCEPT ![v] = @ + Afirmativos(leido[v] + 1, Len(votes))]
  /\ leido' = [leido EXCEPT ![v] = Len(votes)]
  /\ UNCHANGED <<principal, candidate, i, sa_mask, sems, votes, entorno, senales, historia>>

(* The loop that waits for the others before SIGUSR1.                       *)
Reune2(k) == IF k < n_procs - 1 THEN "sem_wait_s2" ELSE "fopen_pids"

V_Veredicto(v) ==
  /\ leido[v] >= Len(votes)
  /\ Va(v, "fread", Reune2(0))
  /\ veredicto' = IF result[v] > n_procs \div 2 THEN "Accepted" ELSE "Rejected"
  /\ i' = [i EXCEPT ![v] = 0]
  /\ UNCHANGED <<principal, candidate, result, leido, sa_mask, sems, votes, entorno, senales, ronda, perdida, eintr>>

(* What sem_getvalue gives here is overwritten before it is used.           *)
V_WaitS2(v) ==
  /\ sem_s > 0
  /\ Va(v, "sem_wait_s2", Reune2(i[v] + 1))
  /\ sem_s' = sem_s - 1
  /\ i' = [i EXCEPT ![v] = @ + 1]
  /\ UNCHANGED <<principal, candidate, result, leido, sa_mask, sem_c, sem_f, votes, entorno, senales, historia>>

V_AbrirPids(v) ==
  /\ Va(v, "fopen_pids", "kill_usr1")
  /\ i' = [i EXCEPT ![v] = 0]
  /\ UNCHANGED <<principal, candidate, result, leido, sa_mask, sems, votes, entorno, senales, historia>>

V_KillUsr1(v) ==
  /\ i[v] < pids
  /\ Va(v, "kill_usr1", "kill_usr1")
  /\ pend' = Manda("SIGUSR1", {i[v] + 1} \ {v})
  /\ i' = [i EXCEPT ![v] = @ + 1]
  /\ UNCHANGED <<principal, candidate, result, leido, sa_mask, sems, votes, entorno, alarma, enviadas, historia>>

V_PostC(v) ==
  /\ i[v] = pids
  /\ Va(v, "kill_usr1", "trywait")
  /\ sem_c' = sem_c + 1
  /\ sa_mask' = [sa_mask EXCEPT ![v] = @ \cup {"SIGUSR1"}]
  /\ UNCHANGED <<principal, candidate, result, i, leido, sem_f, sem_s, votes, entorno, senales, historia>>

(* An fopen fails: the voter leaves, holding what it holds.                 *)
V_Fallo(v) ==
  /\ pc[v] \in FALLOS
  /\ pc' = [pc EXCEPT ![v] = "exit"]
  /\ pend' = [pend EXCEPT ![v] = {}]
  /\ UNCHANGED <<principal, locales, sems, votes, entorno, alarma, enviadas, historia>>

Votante(v) ==
  \/ V_Espera(v) \/ V_Sigsuspend(v) \/ V_Candidato(v) \/ V_NoCandidato(v) \/ V_Vaciar(v)
  \/ V_WaitS(v) \/ V_GetValue(v) \/ V_KillUsr2(v) \/ V_Avisa(v) \/ V_WaitF(v) \/ V_Votar(v)
  \/ V_PostF(v) \/ V_Abrir(v) \/ V_Leer(v) \/ V_Veredicto(v) \/ V_WaitS2(v)
  \/ V_AbrirPids(v) \/ V_KillUsr1(v) \/ V_PostC(v) \/ V_Fallo(v)

-----------------------------------------------------------------------------
(* The main process.                                                        *)

Pasa(de, a) == pcMain = de /\ pcMain' = a

(* What comes after one more turn of a loop of n turns.                     *)
Bucle(n, sigue, sale) ==
  IF iMain + 1 < n THEN pcMain' = sigue /\ iMain' = iMain + 1
                   ELSE pcMain' = sale  /\ iMain' = 0

SemOpen ==
  /\ pcMain = "sem_open"
  /\ SEMS[iMain + 1] \notin nombres
  /\ Bucle(3, "sem_open", "sem_unlink")
  /\ nombres' = nombres \cup {SEMS[iMain + 1]}
  /\ UNCHANGED <<sint, salarm, recogidos, pc, locales, sems, votes, pids, vota, senales, historia>>

(* EEXIST: it leaves, and the names it has created stay.                    *)
SemExiste ==
  /\ Pasa("sem_open", "fallo")
  /\ SEMS[iMain + 1] \in nombres
  /\ UNCHANGED <<iMain, sint, salarm, recogidos, pc, locales, sems, votes, entorno, senales, historia>>

SemUnlink ==
  /\ pcMain = "sem_unlink"
  /\ Bucle(3, "sem_unlink", "calloc")
  /\ nombres' = nombres \ {SEMS[iMain + 1]}
  /\ UNCHANGED <<sint, salarm, recogidos, pc, locales, sems, votes, pids, vota, senales, historia>>

Calloc ==
  /\ Pasa("calloc", "sigaction")
  /\ UNCHANGED <<iMain, sint, salarm, recogidos, pc, locales, sems, votes, entorno, senales, historia>>

(* The four handlers; until they are there a signal kills.                  *)
Sigaction ==
  /\ Pasa("sigaction", "fork")
  /\ UNCHANGED <<iMain, sint, salarm, recogidos, pc, locales, sems, votes, entorno, senales, historia>>

Fork ==
  /\ pcMain = "fork"
  /\ Bucle(n_procs, "fork", "sem_wait_f")
  /\ pc' = [pc EXCEPT ![iMain + 1] = "arriba"]
  /\ UNCHANGED <<sint, salarm, recogidos, locales, sems, votes, entorno, senales, historia>>

MainWaitF ==
  /\ sem_f > 0
  /\ Pasa("sem_wait_f", "fopen")
  /\ sem_f' = sem_f - 1
  /\ UNCHANGED <<iMain, sint, salarm, recogidos, pc, locales, sem_c, sem_s, votes, entorno, senales, historia>>

FopenPids ==
  /\ Pasa("fopen", "fwrite")
  /\ pids' = 0
  /\ UNCHANGED <<iMain, sint, salarm, recogidos, pc, locales, sems, votes, nombres, vota, senales, historia>>

(* Mutant: one record too many.                                             *)
FwritePids_UnoMas ==
  /\ Pasa("fwrite", "sem_post_f")
  /\ pids' = n_procs + 1
  /\ UNCHANGED <<iMain, sint, salarm, recogidos, pc, locales, sems, votes, nombres, vota, senales, historia>>

FwritePids ==
  /\ Pasa("fwrite", "sem_post_f")
  /\ pids' = n_procs
  /\ UNCHANGED <<iMain, sint, salarm, recogidos, pc, locales, sems, votes, nombres, vota, senales, historia>>

(* The one failure that ends the voters too; the file stays as it was.      *)
FwriteFallo ==
  /\ "fwrite" \in FALLOS
  /\ Pasa("fwrite", "kill_term")
  /\ UNCHANGED <<iMain, sint, salarm, recogidos, pc, locales, sems, votes, entorno, senales, historia>>

MainPostF ==
  /\ Pasa("sem_post_f", "sem_wait_s")
  /\ sem_f' = sem_f + 1
  /\ UNCHANGED <<iMain, sint, salarm, recogidos, pc, locales, sem_c, sem_s, votes, entorno, senales, historia>>

MainWaitS ==
  /\ sem_s > 0
  /\ pcMain = "sem_wait_s"
  /\ Bucle(n_procs, "sem_wait_s", "kill_usr1")
  /\ sem_s' = sem_s - 1
  /\ UNCHANGED <<sint, salarm, recogidos, pc, locales, sem_c, sem_f, votes, entorno, senales, historia>>

MainKillUsr1 ==
  /\ Pasa("kill_usr1", "bucle")
  /\ pend' = Manda("SIGUSR1", Votantes)
  /\ UNCHANGED <<iMain, sint, salarm, recogidos, pc, locales, sems, votes, entorno, alarma, enviadas, historia>>

(* The busy wait ends.                                                      *)
MainFinBucle ==
  /\ sint \/ salarm
  /\ Pasa("bucle", "kill_term")
  /\ UNCHANGED <<iMain, sint, salarm, recogidos, pc, locales, sems, votes, entorno, senales, historia>>

MainKillTerm ==
  /\ Pasa("kill_term", "wait")
  /\ pend' = Manda("SIGTERM", {iMain + 1})
  /\ UNCHANGED <<iMain, sint, salarm, recogidos, pc, locales, sems, votes, entorno, alarma, enviadas, historia>>

Zombis == {v \in Votantes : Muerto(v)} \ recogidos

(* wait reaps whichever child has ended, and fails when there is none left. *)
MainWait ==
  /\ pcMain = "wait"
  /\ \/ \E z \in Zombis : recogidos' = recogidos \cup {z}
     \/ recogidos = Votantes /\ UNCHANGED recogidos
  /\ Bucle(n_procs, "kill_term", "exit")
  /\ UNCHANGED <<sint, salarm, pc, locales, sems, votes, entorno, senales, historia>>

(* calloc, fork or fopen fails: it leaves, and its children stay.           *)
MainFallo ==
  /\ pcMain \in FALLOS \ {"fwrite"}
  /\ pcMain' = "fallo"
  /\ UNCHANGED <<iMain, sint, salarm, recogidos, pc, locales, sems, votes, entorno, senales, historia>>

main ==
  \/ SemOpen \/ SemExiste \/ SemUnlink \/ Calloc \/ Sigaction \/ Fork \/ MainWaitF
  \/ FopenPids \/ FwritePids \/ FwriteFallo \/ MainPostF \/ MainWaitS \/ MainKillUsr1
  \/ MainFinBucle \/ MainKillTerm \/ MainWait \/ MainFallo

-----------------------------------------------------------------------------
(* Signals.  A pending signal is handled, at any later moment, by a process *)
(* that does not block it; a process blocks signals only in sigsuspend.     *)

Alarma ==
  /\ alarma /\ ~TerminadoMain
  /\ enviadas < MaxSenales
  /\ alarma' = FALSE
  /\ enviadas' = enviadas + 1
  /\ pend' = Manda("SIGALRM", {Principal})
  /\ UNCHANGED <<principal, pc, locales, sems, votes, entorno, historia>>

Sigint ==
  /\ enviadas < MaxSenales
  /\ \E D \in Destinos : pend' = Manda("SIGINT", D)
  /\ enviadas' = enviadas + 1
  /\ UNCHANGED <<principal, pc, locales, sems, votes, entorno, alarma, historia>>

SinManejador == pcMain \in {"sem_open", "sem_unlink", "calloc", "sigaction"}

MainMuere ==
  /\ SinManejador /\ pend[Principal] # {}
  /\ pcMain' = "muerto"
  /\ UNCHANGED <<iMain, sint, salarm, recogidos, pc, locales, sems, votes, entorno, senales, historia>>

(* catcher in the main process: SIGINT sets both flags, for want of a break.*)
MainCatcher(s) ==
  /\ ~SinManejador /\ ~TerminadoMain
  /\ pend' = [pend EXCEPT ![Principal] = @ \ {s}]
  /\ sint' = (sint \/ s = "SIGINT")
  /\ salarm' = (salarm \/ s \in {"SIGINT", "SIGALRM"})
  /\ UNCHANGED <<recogidos, pc, locales, sems, votes, entorno, alarma, enviadas, ronda, veredicto, perdida>>

MainSenalSimple == \E s \in pend[Principal] : MainCatcher(s) /\ UNCHANGED <<pcMain, iMain, eintr>>

(* A sem_wait or wait that blocks returns EINTR, and its loop counts on.    *)
MainEintr ==
  /\ \E s \in pend[Principal] : MainCatcher(s)
  /\ \/ /\ pcMain = "sem_wait_s" /\ sem_s = 0
        /\ Bucle(n_procs, "sem_wait_s", "kill_usr1")
        /\ eintr' = TRUE
     \/ /\ pcMain = "wait" /\ Zombis = {} /\ recogidos # Votantes
        /\ Bucle(n_procs, "kill_term", "exit")
        /\ UNCHANGED eintr

EntregaMain == MainMuere \/ MainSenalSimple \/ MainEintr

EnSigsuspend(v) == pc[v] \in {"espera1", "espera2"}

(* Voter v, which has s pending, does not block it.                         *)
Entregable(v, s) ==
  /\ Vivo(v)
  /\ EnSigsuspend(v) => s \notin sa_mask[v]

VotanteMuere(v) ==
  /\ "SIGTERM" \in pend[v] /\ Entregable(v, "SIGTERM")
  /\ pc' = [pc EXCEPT ![v] = "muerto"]
  /\ pend' = [pend EXCEPT ![v] = {}]
  /\ UNCHANGED <<principal, locales, sems, votes, entorno, alarma, enviadas, historia>>

(* catcher in a voter: its flags are nobody's concern.                      *)
VotanteCatcher(v, s) ==
  /\ s # "SIGTERM" /\ Entregable(v, s)
  /\ pend' = [pend EXCEPT ![v] = @ \ {s}]
  /\ UNCHANGED <<principal, candidate, result, leido, sa_mask, sems, votes, entorno, alarma, enviadas, ronda, veredicto>>

Despierta(v) ==
  /\ \E s \in pend[v] : VotanteCatcher(v, s)
  /\ Va(v, "espera1", "trywait") \/ Va(v, "espera2", "sem_wait_f")
  /\ UNCHANGED <<i, perdida, eintr>>

(* The wake-up a voter has announced it waits for, before it waits.         *)
Pronto(v, s) ==
  \/ s = "SIGUSR1" /\ pc[v] = "suspende1"
  \/ s = "SIGUSR2" /\ pc[v] \in {"getvalue2", "suspende2"}

VotanteSenalSimple(v) ==
  /\ ~EnSigsuspend(v)
  /\ \E s \in pend[v] : VotanteCatcher(v, s) /\ perdida' = (perdida \/ Pronto(v, s))
  /\ UNCHANGED <<pc, i, eintr>>

(* A blocked sem_wait returns EINTR, and the voter goes on as if it had it. *)
VotanteEintr(v) ==
  /\ \E s \in pend[v] : VotanteCatcher(v, s)
  /\ \/ /\ sem_s = 0
        /\ i' = [i EXCEPT ![v] = @ + 1]
        /\ Va(v, "sem_wait_s", "getvalue") \/ Va(v, "sem_wait_s2", Reune2(i[v] + 1))
     \/ /\ sem_f = 0
        /\ UNCHANGED i
        /\ Va(v, "sem_wait_f", "fopen_a")
  /\ eintr' = TRUE
  /\ UNCHANGED perdida

EntregaVotante(v) == VotanteMuere(v) \/ Despierta(v) \/ VotanteSenalSimple(v) \/ VotanteEintr(v)

Parado == TerminadoMain /\ UNCHANGED vars

Next ==
  \/ main \/ EntregaMain \/ Alarma \/ Sigint \/ Parado
  \/ \E v \in Votantes : Votante(v) \/ EntregaVotante(v)

(* Processes are scheduled and signals are delivered.  Of the alarm nothing *)
(* is assumed: the properties say what follows if it goes off.              *)
Justicia ==
  /\ WF_vars(main) /\ WF_vars(EntregaMain)
  /\ \A v \in Votantes : WF_vars(Votante(v)) /\ WF_vars(EntregaVotante(v))

Spec == Init /\ [][Next]_vars /\ Justicia

-----------------------------------------------------------------------------
(* Properties.                                                              *)

EstadosMain == {"sem_open", "sem_unlink", "calloc", "sigaction", "fork", "sem_wait_f",
                "fopen", "fwrite", "sem_post_f", "sem_wait_s", "kill_usr1", "bucle",
                "kill_term", "wait", "exit", "fallo", "muerto"}

Estados == {"no", "arriba", "suspende1", "espera1", "trywait", "fopen_w", "sem_wait_s",
            "getvalue", "kill_usr2", "sem_post_s", "getvalue2", "suspende2", "espera2",
            "sem_wait_f", "fopen_a", "sem_post_f", "fopen_r", "fread", "sem_wait_s2",
            "fopen_pids", "kill_usr1", "exit", "muerto"}

Voto == [votante : Procesos, voto : {0, 1}]

TypeOK ==
  /\ pcMain \in EstadosMain /\ iMain \in Nat /\ sint \in BOOLEAN /\ salarm \in BOOLEAN
  /\ recogidos \subseteq Votantes
  /\ pc \in [Votantes -> Estados] /\ candidate \in [Votantes -> {0, 1}]
  /\ result \in [Votantes -> Nat] /\ i \in [Votantes -> Nat] /\ leido \in [Votantes -> Nat]
  /\ sa_mask \in [Votantes -> SUBSET (Senales \ {"SIGTERM"})]
  /\ sem_c \in Nat /\ sem_f \in Nat /\ sem_s \in Nat
  /\ nombres \subseteq {SEMS[k] : k \in 1 .. 3} /\ votes \in Seq(Voto) /\ pids \in 0 .. n_procs
  /\ pend \in [Procesos -> SUBSET Senales] /\ alarma \in BOOLEAN /\ enviadas \in Nat
  /\ vota \in [Votantes -> {0, 1}]
  /\ ronda \in Nat /\ veredicto \in {"no", "Accepted", "Rejected"}
  /\ perdida \in BOOLEAN /\ eintr \in BOOLEAN

(* Between sem_wait(sem_f) and sem_post(sem_f).                             *)
EnFichero(p) == IF p = Principal THEN pcMain \in {"fopen", "fwrite", "sem_post_f"}
                                 ELSE pc[p] \in {"fopen_a", "sem_post_f"}

(* As long as no sem_wait is cut short, one process at a time is between the*)
(* wait and the post of sem_f, the main process's failing fwrite excepted.  *)
ExclusionFichero ==
  ~eintr => \A p, q \in Procesos : EnFichero(p) /\ EnFichero(q) => p = q

(* As long as no sem_wait is cut short, no two live voters take themselves  *)
(* for the candidate, though the flag is never reset.                       *)
UnCandidato ==
  ~eintr => \A v, w \in Votantes :
              candidate[v] = 1 /\ candidate[w] = 1 /\ Vivo(v) /\ Vivo(w) => v = w

(* The n-1 waits of a candidate are matched by n-1 different voters: when it*)
(* is about to send SIGUSR2 every other one has announced itself for this   *)
(* round, and when it is about to send SIGUSR1 every other one has voted and*)
(* come round to the top.  The same of the main process's first SIGUSR1.    *)
Reunidos ==
  ~eintr =>
    /\ pcMain = "kill_usr1" => \A w \in Votantes : pc[w] \in {"suspende1", "espera1"}
    /\ \A v, w \in Votantes :
         w # v /\ Vivo(w) =>
           /\ pc[v] = "kill_usr2" => pc[w] \in {"getvalue2", "suspende2", "espera2"}
           /\ pc[v] \in {"fopen_pids", "kill_usr1"} =>
                /\ pc[w] \in {"suspende1", "espera1"}
                /\ \E k \in 1 .. Len(votes) : votes[k].votante = w

(* The program is a voting as Urna promises: old votes in the file, late    *)
(* votes, and what result starts from do no harm, and no vote is erased.    *)
UrnaImplementada == INSTANCE Urna WITH
  emitidos <- {votes[k] : k \in {x \in 1 .. Len(votes) : votes[x] # VotoViejo}}

ImplementaUrna == UrnaImplementada!Spec

(* Once the main process sends its SIGUSR1 the first round comes to a       *)
(* verdict, unless a wake-up is lost: nothing else can stop it.             *)
PrimeraRonda == (pcMain = "kill_usr1") ~> (veredicto # "no" \/ perdida)

(* The alarm, or a SIGINT, ends the main process wherever it finds it, and  *)
(* every voter with it, asleep, blocked, dead or holding a semaphore, unless*)
(* the main process leaves through a failure that forgets the voters.       *)
Termina ==
  (pend[Principal] \cap {"SIGINT", "SIGALRM"} # {}) ~>
    (pcMain = "fallo" \/ (TerminadoMain /\ \A v \in Votantes : ~Vivo(v)))

(* voting.c:211: "Enviar SIGUSR1 a los procesos para comenzar siguiente     *)
(* ronda": after the verdict of a round the voters vote in the next one,    *)
(* unless a wake-up is lost.                                                *)
SiguienteRonda ==
  (veredicto # "no" /\ ronda = 1) ~> (perdida \/ \E v \in Votantes : ronda = 2 /\ pc[v] = "fopen_a")
=============================================================================
