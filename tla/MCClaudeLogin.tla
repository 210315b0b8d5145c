--------------------------- MODULE MCClaudeLogin ----------------------------
(***************************************************************************)
(* ClaudeLogin with two logins, up to three callbacks to each of them,     *)
(* and one request at a time (requests do not meet).                       *)
(***************************************************************************)
EXTENDS ClaudeLogin

CONSTANTS l1, l2, q

MCLogins == {l1, l2}
MCRequests == {q}
=============================================================================
