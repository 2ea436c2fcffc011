---------------------------- MODULE MCHandshake ----------------------------
(* Handshake with the settings that lead to different security types.  With *)
(* authentication one client can go all the way and a second one is in its  *)
(* own handshake; without, there are three.                                 *)
EXTENDS Handshake

ThreeClients == 1..3

NoAuth == [auth |-> FALSE, encrypt |-> FALSE, broken |-> FALSE,
           username |-> FALSE, tls |-> FALSE]
Encrypted == [NoAuth EXCEPT !.auth = TRUE, !.encrypt = TRUE, !.tls = TRUE]
Legacy == [NoAuth EXCEPT !.auth = TRUE, !.broken = TRUE]

TypicalConfigs == {NoAuth, Encrypted, Legacy}

TwoOrThree == [auth \in BOOLEAN |-> IF auth THEN 2 ELSE 3]
OneGoesFirst ==
  [auth \in BOOLEAN |-> IF auth THEN <<7, 3, 0>> ELSE <<3, 3, 2>>]
=============================================================================
