-------------------------------- MODULE MCProxy --------------------------------
(* Small instances of Proxy: two requests, a channel that a burst overfills. *)
EXTENDS Proxy

CONSTANTS m, s, r1, r2

MCRequests == {r1, r2}
NoRequests == {}
OneRequest == {r1}

NoFaults == {}
DiskAndDeadline == {"disk", "deadline"}
Deadline == {"deadline"}
================================================================================
