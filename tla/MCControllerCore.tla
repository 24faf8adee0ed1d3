-------------------------- MODULE MCControllerCore --------------------------
(***************************************************************************)
(* Instances of ControllerCore for TLC.  What a board's schema says, and a *)
(* board that registers again with another one, is module Exchange's       *)
(* subject; here an e-stop blocks every command or one of them.            *)
(***************************************************************************)
EXTENDS ControllerService, TLC

\* Everything known and blocked: the default of blocked_by_estop.
BlockAll == [known |-> Commands, blocked |-> Commands]

OneSchema == {BlockAll}

\* One request is blocked by an e-stop, the others are not.
MixedSchema == {[BlockAll EXCEPT !.blocked = {CHOOSE c \in Commands : TRUE}]}

\* OneSchema treats all requests alike, so those that can be written are
\* interchangeable, those that cannot, and boards.
Symmetry ==
  Permutations(Commands \ Oversize) \cup Permutations(Oversize) \cup Permutations(Boards)

\* Bounds: nothing is followed beyond the second request that cannot be written,
\* which may be the one that finds the counter at its end; what a run is not about
\* is left out; an e-stop of two boards meets one request at a time, and only idle
\* boards are looked at once it was reset.
Routed == {c \in Commands : task[c] # "idle"}
AfterReset ==
  ~estopActive /\ estopSend \cup estopSent \cup {b \in Boards : ack[b]} # {}
FewOversize == Cardinality(Routed \cap Oversize) <= 1
NoShutdown == phase = "run"
FewInEstop == estopActive => Cardinality(Routed) < 2
IdleAfterReset == AfterReset => Routed = {}
=============================================================================
