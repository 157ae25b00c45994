--------------------------- MODULE VotacionProofs ---------------------------
(***************************************************************************)
(* Proofs about module Votacion, for any number of voters, votes, rounds,  *)
(* failures and signals.                                                   *)
(***************************************************************************)
EXTENDS Votacion, FiniteSetTheorems, TLAPS

(* The names are opened one by one, so the index stays among them.          *)
Tipo == TypeOK /\ (pcMain = "sem_open" => iMain \in 0 .. 2)

Nombres == {SEMS[k] : k \in 1 .. 3}

LEMMA NombreDeSem == ASSUME NEW k \in 1 .. 3 PROVE SEMS[k] \in Nombres
  BY DEF Nombres

LEMMA VivosReciben ==
  ASSUME TypeOK, NEW s \in Senales, NEW P
  PROVE  Manda(s, P) \in [Procesos -> SUBSET Senales]
  BY DEF TypeOK, Manda

LEMMA AfirmativosNat == \A a, b \in Nat : Afirmativos(a, b) \in Nat
<1>. SUFFICES ASSUME NEW a \in Nat, NEW b \in Nat PROVE Afirmativos(a, b) \in Nat
  OBVIOUS
<1>1. IsFiniteSet(a .. b)
  BY FS_Interval
<1>2. IsFiniteSet({k \in a .. b : votes[k].voto = 1})
  BY <1>1, FS_Subset
<1>. QED
  BY <1>2, FS_CardinalityType DEF Afirmativos

LEMMA TipoInicial == Init => Tipo
<1>. SUFFICES ASSUME Init PROVE Tipo
  OBVIOUS
<1>1. votes \in Seq(Voto)
  <2>1. VotoViejo \in Voto
    BY VotacionAssumption DEF VotoViejo, Voto, Procesos
  <2>. QED
    BY <2>1 DEF Init
<1>2. sa_mask \in [Votantes -> SUBSET (Senales \ {"SIGTERM"})]
  BY DEF Init, Senales
<1>3. nombres \subseteq {SEMS[k] : k \in 1 .. 3}
  BY VotacionAssumption DEF Init
<1>4. pids \in 0 .. n_procs
  BY VotacionAssumption DEF Init
<1>5. vota \in [Votantes -> {0, 1}]
  BY VotacionAssumption DEF Init
<1>6. pend \in [Procesos -> SUBSET Senales]
  BY DEF Init
<1>7. pcMain \in EstadosMain /\ pc \in [Votantes -> Estados]
  BY DEF Init, Estados, EstadosMain
<1>8. candidate \in [Votantes -> {0, 1}] /\ result \in [Votantes -> Nat]
  BY DEF Init
<1>9. i \in [Votantes -> Nat] /\ leido \in [Votantes -> Nat]
  BY DEF Init
<1>10. {sint, salarm, alarma, perdida, eintr} \subseteq BOOLEAN
  BY DEF Init
<1>11. iMain = 0 /\ recogidos = {} /\ sem_c = 1 /\ sem_f = 1 /\ sem_s = 0
  BY DEF Init
<1>12. enviadas = 0 /\ ronda = 0 /\ veredicto = "no"
  BY DEF Init
<1>. QED
  BY <1>1, <1>2, <1>3, <1>4, <1>5, <1>6, <1>7, <1>8, <1>9, <1>10, <1>11, <1>12 DEF Tipo, TypeOK

LEMMA TipoVotante ==
  ASSUME Tipo, NEW v \in Votantes, Votante(v)
  PROVE  Tipo'
<1> USE VotacionAssumption DEF Tipo, TypeOK, principal, locales, sems, entorno, senales, historia,
        Va, Estados, Senales
<1>1. CASE V_Espera(v)
  BY <1>1 DEF V_Espera
<1>2. CASE V_Sigsuspend(v)
  BY <1>2 DEF V_Sigsuspend
<1>3. CASE V_Candidato(v)
  BY <1>3 DEF V_Candidato, Mascara2
<1>4. CASE V_NoCandidato(v)
  BY <1>4 DEF V_NoCandidato, Mascara2
<1>5. CASE V_Vaciar(v)
  BY <1>5 DEF V_Vaciar, Reune
<1>6. CASE V_WaitS(v)
  BY <1>6 DEF V_WaitS
<1>7. CASE V_GetValue(v)
  BY <1>7 DEF V_GetValue, Reune
<1>8. CASE V_KillUsr2(v)
  BY <1>8, VivosReciben DEF V_KillUsr2
<1>9. CASE V_Avisa(v)
  BY <1>9 DEF V_Avisa
<1>10. CASE V_WaitF(v)
  BY <1>10 DEF V_WaitF
<1>11. CASE V_Votar(v)
  <2>1. [votante |-> v, voto |-> vota[v]] \in Voto
    <3>1. v \in Procesos
      BY DEF Votantes, Procesos
    <3>2. vota[v] \in {0, 1}
      OBVIOUS
    <3>. QED
      BY <3>1, <3>2 DEF Voto
  <2>2. votes' \in Seq(Voto)
    BY <1>11, <2>1 DEF V_Votar
  <2>. QED
    BY <1>11, <2>2 DEF V_Votar
<1>12. CASE V_PostF(v)
  BY <1>12 DEF V_PostF
<1>13. CASE V_Abrir(v)
  BY <1>13 DEF V_Abrir
<1>14. CASE V_Leer(v)
  <2>1. Len(votes) \in Nat /\ leido[v] + 1 \in Nat
    OBVIOUS
  <2>2. Afirmativos(leido[v] + 1, Len(votes)) \in Nat
    BY <2>1, AfirmativosNat
  <2>3. result' \in [Votantes -> Nat] /\ leido' \in [Votantes -> Nat]
    BY <1>14, <2>1, <2>2 DEF V_Leer
  <2>. QED
    BY <1>14, <2>3 DEF V_Leer
<1>15. CASE V_Veredicto(v)
  BY <1>15 DEF V_Veredicto, Reune2
<1>16. CASE V_WaitS2(v)
  BY <1>16 DEF V_WaitS2, Reune2
<1>17. CASE V_AbrirPids(v)
  BY <1>17 DEF V_AbrirPids
<1>18. CASE V_KillUsr1(v)
  BY <1>18, VivosReciben DEF V_KillUsr1
<1>19. CASE V_PostC(v)
  BY <1>19 DEF V_PostC
<1>20. CASE V_Fallo(v)
  BY <1>20 DEF V_Fallo
<1>. QED
  BY <1>1, <1>2, <1>3, <1>4, <1>5, <1>6, <1>7, <1>8, <1>9, <1>10, <1>11, <1>12, <1>13, <1>14,
     <1>15, <1>16, <1>17, <1>18, <1>19, <1>20
  DEF Votante

LEMMA TipoMain ==
  ASSUME Tipo, main
  PROVE  Tipo'
<1> USE VotacionAssumption DEF Tipo, TypeOK, principal, locales, sems, entorno, senales, historia,
        EstadosMain, Senales
<1>1. CASE SemOpen
  <2>1. nombres' \subseteq {SEMS[k] : k \in 1 .. 3}
    <3>1. iMain + 1 \in 1 .. 3
      BY <1>1 DEF SemOpen
    <3>2. SEMS[iMain + 1] \in {SEMS[k] : k \in 1 .. 3}
      BY <3>1, NombreDeSem DEF Nombres
    <3>. QED
      BY <1>1, <3>2 DEF SemOpen
  <2>2. pcMain' \in {"sem_open", "sem_unlink"} /\ iMain' \in 0 .. 2
    BY <1>1 DEF SemOpen, Bucle
  <2>. QED
    BY <1>1, <2>1, <2>2 DEF SemOpen
<1>2. CASE SemExiste
  BY <1>2 DEF SemExiste, Pasa, Bucle
<1>3. CASE SemUnlink
  BY <1>3 DEF SemUnlink, Pasa, Bucle
<1>4. CASE Calloc
  BY <1>4 DEF Calloc, Pasa, Bucle
<1>5. CASE Sigaction
  BY <1>5 DEF Sigaction, Pasa, Bucle
<1>6. CASE Fork
  <2>1. pc' \in [Votantes -> Estados]
    BY <1>6 DEF Fork, Estados
  <2>2. pcMain' \in {"fork", "sem_wait_f"} /\ iMain' \in Nat
    BY <1>6 DEF Fork, Bucle
  <2>. QED
    BY <1>6, <2>1, <2>2 DEF Fork
<1>7. CASE MainWaitF
  BY <1>7 DEF MainWaitF, Pasa, Bucle
<1>8. CASE FopenPids
  BY <1>8 DEF FopenPids, Pasa, Bucle
<1>9. CASE FwritePids
  BY <1>9 DEF FwritePids, Pasa, Bucle
<1>10. CASE FwriteFallo
  BY <1>10 DEF FwriteFallo, Pasa, Bucle
<1>11. CASE MainPostF
  BY <1>11 DEF MainPostF, Pasa, Bucle
<1>12. CASE MainWaitS
  BY <1>12 DEF MainWaitS, Pasa, Bucle
<1>13. CASE MainKillUsr1
  BY <1>13, VivosReciben DEF MainKillUsr1, Pasa, Bucle
<1>14. CASE MainFinBucle
  BY <1>14 DEF MainFinBucle, Pasa, Bucle
<1>15. CASE MainKillTerm
  BY <1>15, VivosReciben DEF MainKillTerm, Pasa, Bucle
<1>16. CASE MainWait
  BY <1>16 DEF MainWait, Pasa, Bucle, Zombis
<1>17. CASE MainFallo
  BY <1>17 DEF MainFallo, Pasa, Bucle
<1>. QED
  BY <1>1, <1>2, <1>3, <1>4, <1>5, <1>6, <1>7, <1>8, <1>9, <1>10, <1>11, <1>12, <1>13, <1>14,
     <1>15, <1>16, <1>17
  DEF main

LEMMA TipoSenales ==
  ASSUME Tipo, \/ EntregaMain \/ Alarma \/ Sigint
               \/ \E v \in Votantes : EntregaVotante(v)
  PROVE  Tipo'
<1> USE VotacionAssumption DEF Tipo, TypeOK, principal, locales, sems, entorno, senales, historia
<1>1. CASE MainMuere
  BY <1>1 DEF MainMuere, EstadosMain
<1>2. CASE MainSenalSimple
  <2>1. PICK s \in pend[Principal] : MainCatcher(s) /\ UNCHANGED <<pcMain, iMain, eintr>>
    BY <1>2 DEF MainSenalSimple
  <2>2. sint' \in BOOLEAN /\ salarm' \in BOOLEAN
    BY <2>1 DEF MainCatcher
  <2>3. pend' \in [Procesos -> SUBSET Senales]
    BY <2>1 DEF MainCatcher
  <2>. QED
    BY <2>1, <2>2, <2>3 DEF MainCatcher
<1>3. CASE MainEintr
  <2>1. PICK s \in pend[Principal] : MainCatcher(s)
    BY <1>3 DEF MainEintr
  <2>2. sint' \in BOOLEAN /\ salarm' \in BOOLEAN
    BY <2>1 DEF MainCatcher
  <2>3. pend' \in [Procesos -> SUBSET Senales]
    BY <2>1 DEF MainCatcher
  <2>4. pcMain' \in EstadosMain \ {"sem_open"}
    BY <1>3 DEF MainEintr, Bucle, EstadosMain
  <2>5. iMain' \in Nat
    BY <1>3 DEF MainEintr, Bucle
  <2>6. eintr' = TRUE \/ eintr' = eintr
    BY <1>3 DEF MainEintr
  <2>. QED
    BY <2>1, <2>2, <2>3, <2>4, <2>5, <2>6 DEF MainCatcher
<1>4. CASE Alarma
  <2>1. pend' \in [Procesos -> SUBSET Senales]
    BY <1>4, VivosReciben DEF Alarma, Senales
  <2>2. alarma' = FALSE /\ enviadas' \in Nat
    BY <1>4 DEF Alarma
  <2>. QED
    BY <1>4, <2>1, <2>2 DEF Alarma
<1>5. CASE Sigint
  <2>1. pend' \in [Procesos -> SUBSET Senales]
    BY <1>5, VivosReciben DEF Sigint, Senales
  <2>2. enviadas' \in Nat
    BY <1>5 DEF Sigint
  <2>. QED
    BY <1>5, <2>1, <2>2 DEF Sigint
<1>6. ASSUME NEW v \in Votantes, VotanteMuere(v)
      PROVE  Tipo'
  BY <1>6 DEF VotanteMuere, Estados
<1>7. ASSUME NEW v \in Votantes, Despierta(v)
      PROVE  Tipo'
  <2>1. PICK s \in pend[v] : VotanteCatcher(v, s)
    BY <1>7 DEF Despierta
  <2>2. pc' \in [Votantes -> Estados]
    BY <1>7 DEF Despierta, Va, Estados
  <2>3. pend' \in [Procesos -> SUBSET Senales]
    BY <2>1 DEF VotanteCatcher
  <2>. QED
    BY <1>7, <2>1, <2>2, <2>3 DEF Despierta, VotanteCatcher
<1>8. ASSUME NEW v \in Votantes, VotanteSenalSimple(v)
      PROVE  Tipo'
  <2>1. PICK s \in pend[v] : VotanteCatcher(v, s) /\ perdida' = (perdida \/ Pronto(v, s))
    BY <1>8 DEF VotanteSenalSimple
  <2>2. perdida' \in BOOLEAN
    BY <2>1, Zenon
  <2>3. pend' \in [Procesos -> SUBSET Senales]
    BY <2>1 DEF VotanteCatcher
  <2>. QED
    BY <1>8, <2>1, <2>2, <2>3 DEF VotanteSenalSimple, VotanteCatcher
<1>9. ASSUME NEW v \in Votantes, VotanteEintr(v)
      PROVE  Tipo'
  <2>1. PICK s \in pend[v] : VotanteCatcher(v, s)
    BY <1>9 DEF VotanteEintr
  <2>2. pc' \in [Votantes -> Estados]
    BY <1>9 DEF VotanteEintr, Va, Reune2, Estados
  <2>4. i' \in [Votantes -> Nat] /\ eintr' = TRUE
    BY <1>9 DEF VotanteEintr
  <2>3. pend' \in [Procesos -> SUBSET Senales]
    BY <2>1 DEF VotanteCatcher
  <2>. QED
    BY <1>9, <2>1, <2>2, <2>3, <2>4 DEF VotanteEintr, VotanteCatcher
<1>. QED
  BY <1>1, <1>2, <1>3, <1>4, <1>5, <1>6, <1>7, <1>8, <1>9 DEF EntregaMain, EntregaVotante

LEMMA TipoIgual == ASSUME Tipo, UNCHANGED vars PROVE Tipo'
  BY DEF Tipo, TypeOK, vars, principal, locales, sems, entorno, senales, historia

(* Every variable keeps its type: no semaphore goes below 0, no mask blocks *)
(* SIGTERM, and only the three names are ever linked.                       *)
THEOREM TipoCorrecto == Spec => []TypeOK
<1>1. Tipo /\ [Next]_vars => Tipo'
  BY TipoVotante, TipoMain, TipoSenales, TipoIgual DEF Next, Parado
<1>2. Tipo => TypeOK
  BY DEF Tipo
<1>. QED
  BY <1>1, <1>2, TipoInicial, PTL DEF Spec

-----------------------------------------------------------------------------
(* The semaphore of the file.                                               *)

(* ExclusionFichero is not inductive: that nobody is inside when sem_f is 1,*)
(* and that it is never more than 1, is what makes the wait keep others out.*)
(* It may be 0 with nobody inside, when a holder has died or left.          *)
Exclusion ==
  ~eintr => /\ sem_f \in {0, 1}
            /\ sem_f = 1 => \A p \in Procesos : ~EnFichero(p)
            /\ \A p, q \in Procesos : EnFichero(p) /\ EnFichero(q) => p = q

LEMMA NadieEntra ==
  ASSUME Exclusion, UNCHANGED <<sem_f, eintr>>,
         \A p \in Procesos : EnFichero(p)' => EnFichero(p)
  PROVE  Exclusion'
  BY DEF Exclusion

LEMMA Interrumpido == ASSUME eintr' = TRUE PROVE Exclusion'
  BY DEF Exclusion

(* Process e takes sem_f and goes in.                                       *)
LEMMA Entra ==
  ASSUME Tipo, Exclusion, NEW e \in Procesos, sem_f > 0, sem_f' = sem_f - 1, eintr' = eintr,
         \A p \in Procesos : EnFichero(p)' => EnFichero(p) \/ p = e
  PROVE  Exclusion'
<1>. SUFFICES ASSUME ~eintr PROVE Exclusion'
  BY DEF Exclusion
<1>1. sem_f = 1
  BY DEF Exclusion
<1>. QED
  BY <1>1 DEF Exclusion

(* Process e, inside, goes out and posts sem_f.                             *)
LEMMA Sale ==
  ASSUME Tipo, Exclusion, NEW e \in Procesos, EnFichero(e), sem_f' = sem_f + 1, eintr' = eintr,
         \A p \in Procesos : EnFichero(p)' => EnFichero(p) /\ p # e
  PROVE  Exclusion'
<1>. SUFFICES ASSUME ~eintr PROVE Exclusion'
  BY DEF Exclusion
<1>1. sem_f = 0
  BY DEF Exclusion
<1>2. \A p \in Procesos : ~EnFichero(p)'
  BY DEF Exclusion
<1>. QED
  BY <1>1, <1>2 DEF Exclusion

LEMMA ProcesoEs ==
  /\ Principal \in Procesos
  /\ \A v \in Votantes : v \in Procesos /\ v # Principal
  /\ \A p \in Procesos : p = Principal \/ p \in Votantes
  BY VotacionAssumption DEF Principal, Procesos, Votantes

LEMMA ExclusionInicial == Init => Exclusion
  BY ProcesoEs DEF Init, Exclusion, EnFichero

LEMMA ExclusionVotante ==
  ASSUME Tipo, Exclusion, NEW v \in Votantes, Votante(v)
  PROVE  Exclusion'
<1> USE ProcesoEs DEF Tipo, TypeOK, principal, locales, sems, entorno, senales, historia, Va
<1>1. CASE V_Espera(v)
  BY <1>1, NadieEntra DEF V_Espera, EnFichero
<1>2. CASE V_Sigsuspend(v)
  BY <1>2, NadieEntra DEF V_Sigsuspend, EnFichero
<1>3. CASE V_Candidato(v)
  BY <1>3, NadieEntra DEF V_Candidato, EnFichero
<1>4. CASE V_NoCandidato(v)
  BY <1>4, NadieEntra DEF V_NoCandidato, EnFichero
<1>5. CASE V_Vaciar(v)
  BY <1>5, NadieEntra DEF V_Vaciar, EnFichero, Reune
<1>6. CASE V_WaitS(v)
  BY <1>6, NadieEntra DEF V_WaitS, EnFichero
<1>7. CASE V_GetValue(v)
  BY <1>7, NadieEntra DEF V_GetValue, EnFichero, Reune
<1>8. CASE V_KillUsr2(v)
  BY <1>8, NadieEntra DEF V_KillUsr2, EnFichero
<1>9. CASE V_Avisa(v)
  BY <1>9, NadieEntra DEF V_Avisa, EnFichero
<1>10. CASE V_WaitF(v)
  <2>1. \A p \in Procesos : EnFichero(p)' => EnFichero(p) \/ p = v
    BY <1>10 DEF V_WaitF, EnFichero
  <2>. QED
    BY <1>10, <2>1, Entra DEF V_WaitF
<1>11. CASE V_Votar(v)
  BY <1>11, NadieEntra DEF V_Votar, EnFichero
<1>12. CASE V_PostF(v)
  <2>1. EnFichero(v)
    BY <1>12 DEF V_PostF, EnFichero
  <2>2. \A p \in Procesos : EnFichero(p)' => EnFichero(p) /\ p # v
    BY <1>12 DEF V_PostF, EnFichero
  <2>. QED
    BY <1>12, <2>1, <2>2, Sale DEF V_PostF
<1>13. CASE V_Abrir(v)
  BY <1>13, NadieEntra DEF V_Abrir, EnFichero
<1>14. CASE V_Leer(v)
  BY <1>14, NadieEntra DEF V_Leer, EnFichero
<1>15. CASE V_Veredicto(v)
  BY <1>15, NadieEntra DEF V_Veredicto, EnFichero, Reune2
<1>16. CASE V_WaitS2(v)
  BY <1>16, NadieEntra DEF V_WaitS2, EnFichero, Reune2
<1>17. CASE V_AbrirPids(v)
  BY <1>17, NadieEntra DEF V_AbrirPids, EnFichero
<1>18. CASE V_KillUsr1(v)
  BY <1>18, NadieEntra DEF V_KillUsr1, EnFichero
<1>19. CASE V_PostC(v)
  BY <1>19, NadieEntra DEF V_PostC, EnFichero
<1>20. CASE V_Fallo(v)
  BY <1>20, NadieEntra DEF V_Fallo, EnFichero
<1>. QED
  BY <1>1, <1>2, <1>3, <1>4, <1>5, <1>6, <1>7, <1>8, <1>9, <1>10, <1>11, <1>12, <1>13, <1>14,
     <1>15, <1>16, <1>17, <1>18, <1>19, <1>20
  DEF Votante

LEMMA ExclusionMain ==
  ASSUME Tipo, Exclusion, main
  PROVE  Exclusion'
<1> USE ProcesoEs DEF Tipo, TypeOK, principal, locales, sems, entorno, senales, historia,
        Pasa, Bucle
<1>1. CASE SemOpen
  BY <1>1, NadieEntra DEF SemOpen, EnFichero
<1>2. CASE SemExiste
  BY <1>2, NadieEntra DEF SemExiste, EnFichero
<1>3. CASE SemUnlink
  BY <1>3, NadieEntra DEF SemUnlink, EnFichero
<1>4. CASE Calloc
  BY <1>4, NadieEntra DEF Calloc, EnFichero
<1>5. CASE Sigaction
  BY <1>5, NadieEntra DEF Sigaction, EnFichero
<1>6. CASE Fork
  BY <1>6, NadieEntra DEF Fork, EnFichero
<1>7. CASE MainWaitF
  <2>1. \A p \in Procesos : EnFichero(p)' => EnFichero(p) \/ p = Principal
    BY <1>7 DEF MainWaitF, EnFichero
  <2>. QED
    BY <1>7, <2>1, Entra DEF MainWaitF
<1>8. CASE FopenPids
  BY <1>8, NadieEntra DEF FopenPids, EnFichero
<1>9. CASE FwritePids
  BY <1>9, NadieEntra DEF FwritePids, EnFichero
<1>10. CASE FwriteFallo
  BY <1>10, NadieEntra DEF FwriteFallo, EnFichero
<1>11. CASE MainPostF
  <2>1. EnFichero(Principal)
    BY <1>11 DEF MainPostF, EnFichero
  <2>2. \A p \in Procesos : EnFichero(p)' => EnFichero(p) /\ p # Principal
    BY <1>11 DEF MainPostF, EnFichero
  <2>. QED
    BY <1>11, <2>1, <2>2, Sale DEF MainPostF
<1>12. CASE MainWaitS
  BY <1>12, NadieEntra DEF MainWaitS, EnFichero
<1>13. CASE MainKillUsr1
  BY <1>13, NadieEntra DEF MainKillUsr1, EnFichero
<1>14. CASE MainFinBucle
  BY <1>14, NadieEntra DEF MainFinBucle, EnFichero
<1>15. CASE MainKillTerm
  BY <1>15, NadieEntra DEF MainKillTerm, EnFichero
<1>16. CASE MainWait
  BY <1>16, NadieEntra DEF MainWait, EnFichero
<1>17. CASE MainFallo
  BY <1>17, NadieEntra DEF MainFallo, EnFichero
<1>. QED
  BY <1>1, <1>2, <1>3, <1>4, <1>5, <1>6, <1>7, <1>8, <1>9, <1>10, <1>11, <1>12, <1>13, <1>14,
     <1>15, <1>16, <1>17
  DEF main

LEMMA ExclusionSenales ==
  ASSUME Tipo, Exclusion, \/ EntregaMain \/ Alarma \/ Sigint
                          \/ \E v \in Votantes : EntregaVotante(v)
  PROVE  Exclusion'
<1> USE ProcesoEs DEF Tipo, TypeOK, principal, locales, sems, entorno, senales, historia
<1>1. CASE MainMuere
  BY <1>1, NadieEntra DEF MainMuere, EnFichero
<1>2. CASE MainSenalSimple
  BY <1>2, NadieEntra DEF MainSenalSimple, MainCatcher, EnFichero
<1>3. CASE MainEintr
  <2>1. eintr' = TRUE \/ eintr' = eintr
    BY <1>3 DEF MainEintr
  <2>2. sem_f' = sem_f /\ pc' = pc
    BY <1>3 DEF MainEintr, MainCatcher
  <2>3. pcMain' \in {"sem_wait_s", "kill_usr1", "kill_term", "exit"}
    BY <1>3 DEF MainEintr, Bucle
  <2>4. \A p \in Procesos : EnFichero(p)' => EnFichero(p)
    BY <2>2, <2>3 DEF EnFichero
  <2>. QED
    BY <2>1, <2>2, <2>4, NadieEntra, Interrumpido
<1>4. CASE Alarma
  BY <1>4, NadieEntra DEF Alarma, EnFichero
<1>5. CASE Sigint
  BY <1>5, NadieEntra DEF Sigint, EnFichero
<1>6. ASSUME NEW v \in Votantes, VotanteMuere(v)
      PROVE  Exclusion'
  BY <1>6, NadieEntra DEF VotanteMuere, EnFichero
<1>7. ASSUME NEW v \in Votantes, Despierta(v)
      PROVE  Exclusion'
  BY <1>7, NadieEntra DEF Despierta, VotanteCatcher, Va, EnFichero
<1>8. ASSUME NEW v \in Votantes, VotanteSenalSimple(v)
      PROVE  Exclusion'
  BY <1>8, NadieEntra DEF VotanteSenalSimple, VotanteCatcher, EnFichero
<1>9. ASSUME NEW v \in Votantes, VotanteEintr(v)
      PROVE  Exclusion'
  BY <1>9, Interrumpido DEF VotanteEintr
<1>. QED
  BY <1>1, <1>2, <1>3, <1>4, <1>5, <1>6, <1>7, <1>8, <1>9 DEF EntregaMain, EntregaVotante

LEMMA ExclusionIgual == ASSUME Exclusion, UNCHANGED vars PROVE Exclusion'
  BY DEF Exclusion, EnFichero, vars, principal, sems, historia

(* One process at a time is between the wait and the post of sem_f, main    *)
(* process or voter, until a sem_wait is cut short: whatever call fails,    *)
(* whoever dies inside, and for any number of voters and rounds.            *)
THEOREM FicheroSeguro == Spec => []ExclusionFichero
<1>1. Tipo /\ [Next]_vars => Tipo'
  BY TipoVotante, TipoMain, TipoSenales, TipoIgual DEF Next, Parado
<1>2. Tipo /\ Exclusion /\ [Next]_vars => Exclusion'
  BY ExclusionVotante, ExclusionMain, ExclusionSenales, ExclusionIgual DEF Next, Parado
<1>3. Exclusion => ExclusionFichero
  BY DEF Exclusion, ExclusionFichero
<1>. QED
  BY <1>1, <1>2, <1>3, TipoInicial, ExclusionInicial, PTL DEF Spec
=============================================================================
