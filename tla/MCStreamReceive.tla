--------------------------- MODULE MCStreamReceive ----------------------------
(* Instances of StreamReceive for TLC: the pieces a stream of a few bytes   *)
(* travels in.                                                              *)
EXTENDS StreamReceive

Piece(offset, length, fin) == [offset |-> offset, length |-> length, fin |-> fin]

(* Three segments, the FIN on the last one. *)
Segments == {Piece(0, 1, FALSE), Piece(1, 2, FALSE), Piece(3, 1, TRUE)}

(* The same bytes, some of them sent again in other segments. *)
Resegmented == {Piece(0, 1, FALSE), Piece(0, 3, FALSE), Piece(1, 1, FALSE),
                Piece(1, 2, FALSE), Piece(2, 1, FALSE), Piece(3, 1, TRUE)}

(* Two segments and a FIN frame without data, as flushSends emits it when  *)
(* close() finds the send queue already drained.                           *)
BareFin == {Piece(0, 1, FALSE), Piece(1, 1, FALSE), Piece(2, 0, TRUE)}
===============================================================================
