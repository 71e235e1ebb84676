------------------------ MODULE MCOneTimePassword ------------------------
(* OneTimePassword for one user and two handlers: a send, a verification    *)
(* and a password change each overlap with each other and with themselves. *)
EXTENDS OneTimePassword

CONSTANTS u1, h1, h2
=============================================================================
