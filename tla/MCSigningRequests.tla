-------------------------- MODULE MCSigningRequests --------------------------
(* Model-checking instance of SigningRequests: two senders, the Bitcoin    *)
(* vault and one other, three statuses, up to four requests and a page of  *)
(* two (100 in the code), so that a status can have more matches than a   *)
(* page holds.                                                             *)
EXTENDS SigningRequests

CONSTANTS a1, a2, created, signed, broadcasted

MCSenders == {a1, a2}
MCVaults == {"", "vault"}
MCStatuses == {created, signed, broadcasted}
=============================================================================
