------------------------------- MODULE Canal -------------------------------
(***************************************************************************)
(* What the monitor program promises: blocks taken from the message queue  *)
(* are stamped with a verdict, carried in order through a channel of       *)
(* bounded capacity and printed once each, up to a finishing block that    *)
(* closes the channel.                                                     *)
(***************************************************************************)
EXTENDS Bloques, Sequences

CONSTANT Capacidad   (* blocks the channel may hold                         *)

VARIABLES
  entrada,     (* the message queue                                         *)
  interior,    (* blocks taken and neither printed nor discarded            *)
  impresos,    (* blocks printed                                            *)
  cerrado      (* TRUE once a finishing block has come out                  *)

canal == <<entrada, interior, impresos, cerrado>>

Inicial ==
  /\ entrada = <<>> /\ interior = <<>> /\ impresos = <<>>
  /\ cerrado = FALSE

(* The miner adds one block to the queue.                                   *)
Enviar ==
  /\ Len(entrada') = Len(entrada) + 1
  /\ SubSeq(entrada', 1, Len(entrada)) = entrada
  /\ UNCHANGED <<interior, impresos, cerrado>>

(* The next block is taken and stamped; nothing follows a finishing block.  *)
Aceptar ==
  /\ entrada # <<>> /\ ~cerrado
  /\ Len(interior) < Capacidad
  /\ \A i \in 1 .. Len(interior) : ~interior[i].fin
  /\ interior' = Append(interior, [Head(entrada) EXCEPT !.correcto = Resuelto(Head(entrada))])
  /\ entrada' = Tail(entrada)
  /\ UNCHANGED <<impresos, cerrado>>

Imprimir ==
  /\ interior # <<>> /\ ~Head(interior).fin
  /\ impresos' = Append(impresos, Head(interior))
  /\ interior' = Tail(interior)
  /\ UNCHANGED <<entrada, cerrado>>

Cerrar ==
  /\ interior # <<>> /\ Head(interior).fin
  /\ cerrado' = TRUE
  /\ interior' = Tail(interior)
  /\ UNCHANGED <<entrada, impresos>>

Paso == Enviar \/ Aceptar \/ Imprimir \/ Cerrar

Segura == Inicial /\ [][Paso]_canal
=============================================================================
