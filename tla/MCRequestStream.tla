--------------------------- MODULE MCRequestStream ---------------------------
(* Small instances of RequestStream: requests of one session.               *)
EXTENDS RequestStream

CONSTANTS s1

MCExecutions == 1..2
MCModes == <<{"stream"}, {"invoke", "stream"}>>
=============================================================================
