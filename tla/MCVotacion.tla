----------------------------- MODULE MCVotacion -----------------------------
(* Values for model checking module Votacion.                               *)
EXTENDS Votacion

(* Who votes Y.  With three voters, two positive votes are a majority and   *)
(* one is not; with two, only both are.                                     *)
Tres  == {<<1, 1, 0>>, <<0, 0, 1>>}
Dos   == {<<1, 1>>, <<1, 0>>}
UnPar == {<<1, 0>>}

(* No name linked, or the middle one left by a run that was killed.         *)
Limpio == {{}}
Resto  == {{}, {"/sem_file"}}

Ninguno == {}
Todos   == PuedenFallar

(* Whom a SIGINT may be sent to: nobody, or everybody, as Ctrl-C does.      *)
Nadie == {}
CtrlC == {Procesos}
=============================================================================
