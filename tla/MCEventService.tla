--------------------------- MODULE MCEventService ---------------------------
(* TLC instance of EventService alone.                                     *)
EXTENDS EventService

AllWanted == [k \in Hooks |-> Events]
=============================================================================
