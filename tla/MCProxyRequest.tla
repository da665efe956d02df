--------------------------- MODULE MCProxyRequest ---------------------------
(* Instances of ProxyRequest for TLC. *)
EXTENDS ProxyRequest, TLC

CONSTANTS r1, r2, u1, u2

MCBlobs == Requests \X (Urls \cup {Body})

(* One request refers to two URLs, to one of them twice, or once too       *)
(* often; the bodies of the others hold no image.                          *)
MCRefLists ==
  [r \in Requests |-> IF r = r1 THEN {<<u1, u2, u1>>, <<u1, u1, u1, u1>>} ELSE {<<>>}]
=============================================================================
