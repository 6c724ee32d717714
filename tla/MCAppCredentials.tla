--------------------------- MODULE MCAppCredentials ---------------------------
(* Small values for the constants of AppCredentials. *)
EXTENDS AppCredentials
===============================================================================
