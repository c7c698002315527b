---------------------------- MODULE MCPythonCalls ----------------------------
(***************************************************************************)
(* Constants of PythonCalls for TLC.                                       *)
(***************************************************************************)
EXTENDS PythonCalls, TLC

CONSTANTS manager1, manager2, wt1, wt2

MCManagerOf == wt1 :> manager1 @@ wt2 :> manager2
=============================================================================
