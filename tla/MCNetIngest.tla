----------------------------- MODULE MCNetIngest ----------------------------
(* Small instances of NetIngest for TLC.                                    *)
EXTENDS NetIngest

CONSTANTS app1, app2
=============================================================================
