---------------------------- MODULE MCFunctions ----------------------------
(***************************************************************************)
(* The parts of the program that only compute an answer, on the bounded    *)
(* inputs of MCRiscv (instructions), MCPaths (paths) and MCDebugger (the    *)
(* commands and expressions of the debugger).                              *)
(***************************************************************************)
EXTENDS MCRiscv

CONSTANTS MaxChars, MaxNames, Root, NoNode, MaxFollow, MaxPath, MaxRest
Walks == INSTANCE MCPaths
Sessions == INSTANCE MCDebugger

Either == NextInput \/ Walks!NextInput \/ Sessions!NextInput
FunctionsSpec == Init /\ [][Either]_vars

(* The functions on paths and the resolution of paths, as MCPaths states.  *)
PathsAreWays == Walks!PathsAreWays
ResolvesAsVisited == Walks!ResolvesAsVisited
ListsWhatLeads == Walks!ListsWhatLeads

(* The debugger, as MCDebugger states.                                     *)
HaltsAsAsked == Sessions!HaltsAsAsked
ExpressionsRead == Sessions!ExpressionsRead
=============================================================================
