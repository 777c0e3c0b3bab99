---------------------------- MODULE MCTracePipeline ----------------------------
(* Small instances of TracePipeline: main's handle and one other owner. *)
EXTENDS TracePipeline

CONSTANTS m, h1

MCHandles == {m, h1}

NoFaults == {}
DiskFaults == {"disk"}
AllFaults == {"disk", "crash", "deadline"}
================================================================================
