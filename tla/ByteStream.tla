------------------------------ MODULE ByteStream ------------------------------
(***************************************************************************)
(* What a QuicStream promises its reader (src/src/types.ts, QuicStream: "a *)
(* reliable, ordered byte stream"; read() hands back the next chunk, and   *)
(* an empty chunk once the end is reached).  The byte at stream offset n   *)
(* is written n, so the whole content is <<0, 1, ..., FinalSize - 1>>.     *)
(*                                                                         *)
(* Reads may stop at any time (a reset or a connection close), so this     *)
(* specification is a safety one: whatever read() has returned is a prefix *)
(* of the content, and the end is reported only behind the last byte.      *)
(***************************************************************************)
EXTENDS Naturals, Sequences

CONSTANT FinalSize    \* a natural number, the length of the stream

VARIABLES
    got,    \* the bytes read() has handed to the application, in order
    eof     \* whether read() has reported the end of the stream

vars == <<got, eof>>

(* The first n bytes of the stream. *)
Prefix(n) == [i \in 1..n |-> i - 1]

Init == got = <<>> /\ eof = FALSE

(* read() returns some of the bytes that come next. *)
ReadBytes ==
    /\ ~eof
    /\ \E n \in (Len(got) + 1)..FinalSize : got' = Prefix(n)
    /\ UNCHANGED eof

(* read() returns the empty chunk that stands for the end of the stream. *)
ReadEnd ==
    /\ ~eof
    /\ got = Prefix(FinalSize)
    /\ eof' = TRUE
    /\ UNCHANGED got

Next == ReadBytes \/ ReadEnd

Spec == Init /\ [][Next]_vars
===============================================================================
