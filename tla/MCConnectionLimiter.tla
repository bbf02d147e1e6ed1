------------------------ MODULE MCConnectionLimiter ------------------------
(***************************************************************************)
(* The instances of MCKeySync with the connection limiter.                  *)
(***************************************************************************)
EXTENDS ConnectionLimiter, MCKeySync

\* A current e-mail has the telegram id, an old one the whole id of the key.
MCEmailLength ==
    [c \in Clients |-> IF c[2] = "legacy" THEN 42 ELSE IF c[1] = k1 THEN 20 ELSE 29]
=============================================================================
