----------------------------- MODULE MCControl -----------------------------
(* Instances of Control for TLC.                                           *)
EXTENDS Control, TLC

CONSTANTS c1, c2

MCClients == {c1, c2}
MCFirstReceives == (c1 :> "RECEIVER") @@ (c2 :> "SENDER")
MCFirstBidir == (c1 :> "BIDIRECTIONAL") @@ (c2 :> "RECEIVER")
MCFirst == {c1}
MCSecond == {c2}
MCNobody == {}

============================================================================
