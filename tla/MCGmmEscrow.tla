---------------------------- MODULE MCGmmEscrow ----------------------------
(* Model-checking instance of GmmEscrow: two users, one pool, a token and  *)
(* a share denom, amounts up to 2 and supplies up to 3.                    *)
EXTENDS GmmEscrow

CONSTANTS u1, u2, pl, token, share, gmm

MCUsers == {u1, u2}
MCPools == {pl}
MCDenoms == {token, share}
\* u2's address is a blocked (module) address.
MCBlocked == {u2}
=============================================================================
