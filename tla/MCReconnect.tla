----------------------------- MODULE MCReconnect -----------------------------
(* The bot thread of Reconnect as it is: it needs no bound, the reactor's  *)
(* queue bounds itself.                                                    *)
EXTENDS Reconnect
==============================================================================
