--------------------------- MODULE MCStateMirror ---------------------------
(***************************************************************************)
(* Instances of ControllerCore with its mirror for TLC.                    *)
(***************************************************************************)
EXTENDS StateMirror, MCControllerCore
=============================================================================
