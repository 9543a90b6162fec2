------------------------------ MODULE MCPackets -------------------------------
(***************************************************************************)
(* Instances of Packets for TLC.                                           *)
(***************************************************************************)
EXTENDS Packets

CONSTANTS tiny, small, large, ours, theirs

(* One frame too short to be protected alone, one that fits a datagram,    *)
(* one that needs two.                                                     *)
ThreeFrames == {tiny, small, large}

ThreeLengths == [f \in ThreeFrames |-> IF f = tiny THEN 1 ELSE IF f = small THEN 3 ELSE 5]

TwoSecrets == {ours, theirs}

StaticIVs == [s \in TwoSecrets |-> IF s = ours THEN {0, 2} ELSE {1}]

(* Masks that change nothing, the length bits, and the one bit that only a *)
(* short header's mask covers; 5 and 6 are never covered.                  *)
ThreeMasks ==
    {[first |-> {5}, pn |-> {0}], [first |-> {0, 6}, pn |-> {}], [first |-> {1, 4}, pn |-> {0}]}

Setup(senderLength, opening) ==
    [dcidLength       |-> [e \in Ends |-> IF e = "sender" THEN senderLength ELSE 2],
     clientProtection |-> [phase \in Phases |-> ours],
     serverProtection |-> opening]

(* Ends that go together; a sender that writes an empty connection id;     *)
(* receivers whose secrets are others for the short headers or for an      *)
(* earlier phase.                                                          *)
FourSetups ==
    {Setup(length, [phase \in Phases |-> ours]) : length \in {0, 2}}
        \cup {Setup(2, [phase \in Phases |-> IF phase = other THEN theirs ELSE ours]) :
                 other \in {"application", "handshake"}}
===============================================================================
