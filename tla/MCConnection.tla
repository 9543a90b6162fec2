----------------------------- MODULE MCConnection ------------------------------
(***************************************************************************)
(* Instances of Connection for TLC.                                        *)
(***************************************************************************)
EXTENDS Connection

(* What the peer puts into one datagram: ordinary traffic, an end, and     *)
(* traffic that follows an end in the same datagram.                       *)
Mixed == {<<"stream", "data">>, <<"stream", "close", "stream">>, <<"garbage", "stream">>,
          <<"data", "challenge", "response">>, <<"close", "challenge">>}
===============================================================================
