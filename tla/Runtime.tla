------------------------------ MODULE Runtime ------------------------------
(***************************************************************************)
(* The life of one controller process: run_until_shutdown and the class    *)
(* ControllerRuntime of runtime.py.  Its main task starts the              *)
(* observability worker, the board connections and the local server; a     *)
(* signal, which may come at any time, starts a second task that takes     *)
(* them down.  The worker is module Observability, the socket file module  *)
(* SocketPath, where the other processes take the steps of the same server *)
(* and restart as often as they like.                                      *)
(***************************************************************************)
EXTENDS Observability, SocketPath

CONSTANT Me  \* the process
ASSUME MeAssumption == Me \in Procs

VARIABLES
  main,    \* the task run_until_shutdown
  sd,      \* _shutdown_task
  boards,  \* the board connections: "off", "on" (started) or "stopped"
  clients, \* connections of the local server
  late,    \* history: the signal came before start had returned
  load     \* bound: how many records there are, and whether there are rivals

runVars == <<main, sd, boards, clients, late, load>>
vars == <<obsVars, sockVars, runVars>>

\* The queue is exercised without rivals and the socket file without records:
\* the two meet only in the order in which the shutdown stops them.
Loads == {[records |-> MaxRecords, rivals |-> FALSE], [records |-> 0, rivals |-> TRUE]}

SdStages == <<"server", "boards", "controller", "worker", "done">>
Gone == {"exited", "raised", "crashed"}
Alive == main \notin Gone \cup {"new"}

TypeOK ==
  /\ ObsTypeOK /\ SockTypeOK
  /\ main \in {"new", "registering", "serving", "waiting"} \cup Gone
  /\ sd \in {"none"} \cup Range(SdStages)
  /\ boards \in {"off", "on", "stopped"}
  /\ clients \in 0 .. 1
  /\ late \in BOOLEAN
  /\ load \in Loads

Init ==
  /\ ObsInit /\ SockInit
  /\ main = "new" /\ sd = "none" /\ boards = "off" /\ clients = 0
  /\ late = FALSE
  /\ load \in Loads

-----------------------------------------------------------------------------
(* The main task *)

\* start() as far as the wait for the boards' registration.  The signal
\* handlers are installed before it.
StartComponents ==
  /\ main = "new"
  /\ main' = "registering"
  /\ WorkerStart
  /\ boards' = "on"
  /\ UNCHANGED <<sockVars, sd, clients, late, load>>

\* Every board has registered, or registration_timeout_s is over, or the
\* shutdown has stopped the connections.
Registered ==
  /\ main = "registering"
  /\ main' = "serving"
  /\ UNCHANGED <<obsVars, sockVars, sd, boards, clients, late, load>>

\* local_server.start().
ServerStart ==
  /\ main = "serving"
  /\ Start(Me)
  /\ main' = IF srv'[Me] = "up" THEN "waiting" ELSE main
  /\ UNCHANGED <<obsVars, sd, boards, clients, late, load>>

\* asyncio.run cancels what still runs when the main task is over.
CancelWorker ==
  /\ CancelRun
  /\ UNCHANGED <<obs, records, nextEvent, counters, wstop, spc, joined>>

\* start() raises outside the try: there is no shutdown.
StartRaises ==
  /\ main = "serving" /\ srv[Me] \in Refused
  /\ main' = "raised"
  /\ CancelWorker
  /\ Vanish(Me, "down")
  /\ boards' = "stopped" /\ clients' = 0
  /\ UNCHANGED <<sd, late, load>>

\* wait_closed has returned, and the shutdown() after it finds the shutdown
\* task done.
Exit ==
  /\ main = "waiting" /\ sd = "done"
  /\ main' = "exited"
  /\ CancelWorker
  /\ Vanish(Me, "down")
  /\ boards' = "stopped" /\ clients' = 0
  /\ UNCHANGED <<sd, late, load>>

-----------------------------------------------------------------------------
(* The shutdown task *)

\* A signal schedules shutdown(); only the first one creates the task.
Signal ==
  /\ Alive /\ sd = "none"
  /\ sd' = "server"
  /\ late' = (main # "waiting")
  /\ UNCHANGED <<obsVars, sockVars, main, boards, clients, load>>

\* _stop_local_server: nothing to do unless start() of the server has returned.
StopServer ==
  /\ Alive /\ sd = "server"
  /\ \/ CloseServer(Me) /\ UNCHANGED sd
     \/ /\ clients = 0 /\ RemoveOwn(Me)
        /\ sd' = IF srv'[Me] = "down" THEN "boards" ELSE sd
     \/ srv[Me] \notin Stopping \cup {"up"} /\ sd' = "boards" /\ UNCHANGED sockVars
  /\ UNCHANGED <<obsVars, main, boards, clients, late, load>>

\* _stop_board_connections gathers the stops and logs what they raise.  A stop
\* ends unless the peer of its connection, or of a handler, holds it up (module
\* BoardConnection, StopEnds).
StopBoards ==
  /\ Alive /\ sd = "boards"
  /\ sd' = "controller" /\ boards' = "stopped"
  /\ UNCHANGED <<obsVars, sockVars, main, clients, late, load>>

BugStopController ==
  /\ Alive /\ sd = "controller"
  /\ sd' = "done"
  /\ UNCHANGED <<obsVars, sockVars, main, boards, clients, late, load>>

\* controller.shutdown() is bounded by its two timeouts (module
\* ControllerCore).
StopController ==
  /\ Alive /\ sd = "controller"
  /\ sd' = "worker"
  /\ UNCHANGED <<obsVars, sockVars, main, boards, clients, late, load>>

\* _stop_observability_worker, then shutdown_complete is set.
StopWorker ==
  /\ Alive /\ sd = "worker"
  /\ StopBegins \/ StopNext
  /\ sd' = IF spc' = "done" THEN "done" ELSE sd
  /\ UNCHANGED <<sockVars, main, boards, clients, late, load>>

-----------------------------------------------------------------------------
(* What goes on meanwhile *)

\* The controller enqueues records as long as anything happens in it.
Observe ==
  /\ Alive /\ sd # "done" /\ records < load.records /\ Enqueue
  /\ UNCHANGED <<sockVars, runVars>>

Work ==
  /\ Alive /\ WorkerNext
  /\ UNCHANGED <<sockVars, runVars>>

ClientConnects ==
  /\ Alive /\ Live(path) /\ path = bound[Me] /\ clients = 0
  /\ clients' = 1
  /\ UNCHANGED <<obsVars, sockVars, main, sd, boards, late, load>>

ClientLeaves ==
  /\ clients > 0
  /\ clients' = 0
  /\ UNCHANGED <<obsVars, sockVars, main, sd, boards, late, load>>

\* SIGKILL, or the machine: nothing is cleaned up.
Crash ==
  /\ Alive
  /\ main' = "crashed"
  /\ CancelWorker
  /\ Vanish(Me, "down")
  /\ boards' = "stopped" /\ clients' = 0
  /\ UNCHANGED <<sd, late, load>>

\* Another process starts, stops, dies and starts again.
Rival(p) ==
  /\ load.rivals
  /\ \/ Start(p) \/ CloseServer(p) \/ RemoveOwn(p)
     \/ srv[p] # "off" /\ Vanish(p, "off")
  /\ UNCHANGED <<obsVars, runVars>>

Next ==
  \/ StartComponents \/ Registered \/ ServerStart \/ StartRaises \/ Exit
  \/ Signal \/ StopServer \/ StopBoards \/ StopController \/ StopWorker
  \/ Observe \/ Work \/ ClientConnects \/ ClientLeaves \/ Crash
  \/ \E p \in Procs \ {Me} : Rival(p)

\* The tasks of the process run, and controller.shutdown() and the worker's stop
\* have timeouts.  Redis, clients and boards need not do anything: the stops of
\* the board connections, which wait for the boards, are not fair.
Fairness ==
  /\ WF_vars(Registered) /\ WF_vars(ServerStart) /\ WF_vars(StartRaises) /\ WF_vars(Exit)
  /\ WF_vars(StopServer) /\ WF_vars(StopController) /\ WF_vars(StopWorker)

Spec == Init /\ [][Next]_vars /\ Fairness

-----------------------------------------------------------------------------
(* Properties *)

NothingLeft ==
  main = "waiting" /\ sd = "done" =>
    /\ bound[Me] = 0 /\ clients = 0 /\ boards = "stopped"
    /\ spc = "done" /\ wpc \in {"ended", "cancelled"}
    /\ Me \notin disturbed => path = 0 \/ maker # Me

ShutdownOrder ==
  Alive =>
    /\ sd \in {"boards", "controller", "worker", "done"} => bound[Me] = 0 /\ clients = 0
    /\ spc # "idle" => boards = "stopped" /\ sd \in {"worker", "done"}

\* The shutdown of a process that had started takes things down from the
\* outside in: boards are stopped only when no client can send them a command
\* any more, and the worker only when nothing produces records.  A worker that
\* was drained has handled every record, and in the end the process holds
\* nothing: no listening socket, no file of its own, no connection, no task.
\* A signal while start() is under way is the exception, for the server then
\* starts after the shutdown has passed it by.
ShutdownClean == DrainedWhenJoined /\ (~late => ShutdownOrder /\ NothingLeft)

\* Types, and the bookkeeping of the queue (Observability).
RecordsExact == TypeOK /\ QueueExact

\* A signal ends the process, even if Redis never answers, unless a client stays
\* connected or the stop of a board connection never ends.
SignalEnds ==
  \/ []<>(clients # 0)
  \/ <>[](sd = "boards")
  \/ sd # "none" ~> main \in Gone
=============================================================================
