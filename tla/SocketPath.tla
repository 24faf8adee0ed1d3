----------------------------- MODULE SocketPath -----------------------------
(***************************************************************************)
(* The Unix socket file that several controller processes may want: start, *)
(* stop, _prepare_socket_path and _owns_socket_path of                     *)
(* LocalUnixSocketServer (local_socket.py), with what asyncio does below   *)
(* them (Python 3.13 and later: a server removes its file when it closes). *)
(* Between two processes nothing is atomic but a system call, and a        *)
(* process may die at any time and leave its file behind.  The file system *)
(* gives inode numbers out again.                                          *)
(***************************************************************************)
EXTENDS Integers, FiniteSets, Functions

CONSTANTS
  Procs,  \* processes configured with the same socket_path
  Inodes  \* bound: the inode numbers of the file system

ASSUME InodesAssumption == Inodes \subseteq Nat \ {0} /\ Inodes # {}

VARIABLES
  path,     \* external: the inode at socket_path, 0 if there is no file
  maker,    \* history: the process that made the file, Nobody if none of them
  bound,    \* external: the inode each process's server socket is bound to, 0 if none
  noted,    \* external: the inode asyncio keeps to clean up, 0 if none
  owned,    \* _owned_socket, 0 for None
  srv,      \* where each process is in start or stop
  disturbed \* history: processes whose start met another's start or unlink

sockVars == <<path, maker, bound, noted, owned, srv, disturbed>>

Nobody == "nobody"

\* start, before and after its socket exists; "made" and "noted" do not listen yet.
Preparing == {"exists", "dead", "probed", "cleared"}
Binding == {"made", "noted", "listening"}
Starting == Preparing \cup Binding
Refused == {"refused", "failed"}

\* stop, and the two points of it at which a file that was looked at is removed.
Stopping == {"closed", "unlinking", "closing", "removing"}
Removing == {"unlinking", "removing"}

SockTypeOK ==
  /\ path \in Inodes \cup {0} /\ maker \in Procs \cup {Nobody}
  /\ bound \in [Procs -> Inodes \cup {0}]
  /\ noted \in [Procs -> Inodes \cup {0}] /\ owned \in [Procs -> Inodes \cup {0}]
  /\ srv \in [Procs -> Starting \cup Refused \cup Stopping \cup {"off", "up", "down"}]
  /\ disturbed \subseteq Procs

SockInit ==
  /\ path \in {0, CHOOSE i \in Inodes : TRUE} /\ maker = Nobody
  /\ bound = [p \in Procs |-> 0]
  /\ noted = [p \in Procs |-> 0] /\ owned = [p \in Procs |-> 0]
  /\ srv = [p \in Procs |-> "off"]
  /\ disturbed = {}

-----------------------------------------------------------------------------
(* Helpers.  A definition whose name begins with Bug is a broken variant of *)
(* the one that follows it, used to show that the properties notice.        *)

BugLive(i) == FALSE

\* open_unix_connection succeeds: some process listens on the file.
Live(i) == \E q \in Procs : i # 0 /\ bound[q] = i /\ srv[q] \notin {"made", "noted"}

\* An inode is free when no file and no socket holds it.
Free == {i \in Inodes : i \notin Range(bound)}

Others(p, S) == {q \in Procs \ {p} : srv[q] \in S}

Goto(p, s) == srv' = [srv EXCEPT ![p] = s]

-----------------------------------------------------------------------------
(* start *)

\* os.path.exists of _prepare_socket_path.
Exists(p) ==
  /\ srv[p] = "off"
  /\ Goto(p, IF path = 0 THEN "probed" ELSE "exists")
  /\ disturbed' = IF Others(p, Starting \cup Removing) = {} THEN disturbed \ {p}
                  ELSE disturbed \cup {p} \cup Others(p, Starting)
  /\ UNCHANGED <<path, maker, bound, noted, owned>>

\* Its connection, which also fails when the file has gone since.
Connect(p) ==
  /\ srv[p] = "exists"
  /\ Goto(p, IF Live(path) THEN "refused" ELSE "dead")
  /\ UNCHANGED <<path, maker, bound, noted, owned, disturbed>>

\* The unlink of a dead socket, which raises when the file has gone.
UnlinkDead(p) ==
  /\ srv[p] = "dead"
  /\ path' = 0
  /\ Goto(p, IF path = 0 THEN "failed" ELSE "probed")
  /\ UNCHANGED <<maker, bound, noted, owned, disturbed>>

\* start_unix_server: asyncio removes whatever socket is at the path,
Clear(p) ==
  /\ srv[p] = "probed"
  /\ path' = 0
  /\ Goto(p, "cleared")
  /\ UNCHANGED <<maker, bound, noted, owned, disturbed>>

\* binds a new one, which raises when there is a file again,
Bind(p) ==
  /\ srv[p] = "cleared"
  /\ \/ /\ path # 0
        /\ Goto(p, "failed")
        /\ UNCHANGED <<path, maker, bound, disturbed>>
     \/ /\ path = 0
        /\ Goto(p, "made")
        /\ \E i \in Free :
             /\ path' = i /\ maker' = p
             /\ bound' = [bound EXCEPT ![p] = i]
             /\ disturbed' = IF \E q \in Procs \ {p} : i \in {noted[q], owned[q]}
                             THEN disturbed \cup {p} ELSE disturbed
  /\ UNCHANGED <<noted, owned>>

\* keeps the inode it finds at the path,
Note(p) ==
  /\ srv[p] = "made"
  /\ noted' = [noted EXCEPT ![p] = path]
  /\ Goto(p, "noted")
  /\ UNCHANGED <<path, maker, bound, owned, disturbed>>

\* and listens.
Listen(p) ==
  /\ srv[p] = "noted"
  /\ Goto(p, "listening")
  /\ UNCHANGED <<path, maker, bound, noted, owned, disturbed>>

\* The rest of start records the inode it finds at the path.
Own(p) ==
  /\ srv[p] = "listening"
  /\ owned' = [owned EXCEPT ![p] = path]
  /\ Goto(p, IF path = 0 THEN "failed" ELSE "up")
  /\ UNCHANGED <<path, maker, bound, noted, disturbed>>

Start(p) ==
  \/ Exists(p) \/ Connect(p) \/ UnlinkDead(p)
  \/ Clear(p) \/ Bind(p) \/ Note(p) \/ Listen(p) \/ Own(p)

-----------------------------------------------------------------------------
(* stop *)

\* A process has looked at the file and is about to remove it: the starts that
\* are under way can lose theirs.
Disturb(p) == disturbed' = disturbed \cup Others(p, Starting)

\* server.close(): the socket,
CloseSocket(p) ==
  /\ srv[p] = "up"
  /\ bound' = [bound EXCEPT ![p] = 0]
  /\ Goto(p, "closed")
  /\ UNCHANGED <<path, maker, noted, owned, disturbed>>

\* then, in asyncio, a look whether the file is the one it bound,
StatPath(p) ==
  /\ srv[p] = "closed"
  /\ noted' = [noted EXCEPT ![p] = 0]
  /\ \/ path # 0 /\ path = noted[p] /\ Goto(p, "unlinking") /\ Disturb(p)
     \/ ~(path # 0 /\ path = noted[p]) /\ Goto(p, "closing") /\ UNCHANGED disturbed
  /\ UNCHANGED <<path, maker, bound, owned>>

\* and its removal.
UnlinkPath(p) ==
  /\ srv[p] = "unlinking"
  /\ path' = 0
  /\ Goto(p, "closing")
  /\ UNCHANGED <<maker, bound, noted, owned, disturbed>>

CloseServer(p) == CloseSocket(p) \/ StatPath(p) \/ UnlinkPath(p)

\* _owns_socket_path, once every connection of the server is closed.
OwnsSocketPath(p) ==
  /\ srv[p] = "closing"
  /\ \/ /\ path # 0 /\ path = owned[p]
        /\ Goto(p, "removing") /\ Disturb(p) /\ UNCHANGED owned
     \/ /\ ~(path # 0 /\ path = owned[p])
        /\ Goto(p, "down") /\ owned' = [owned EXCEPT ![p] = 0] /\ UNCHANGED disturbed
  /\ UNCHANGED <<path, maker, bound, noted>>

\* os.unlink.  When it raises, _owned_socket stays, in a server that is stopped.
UnlinkOwn(p) ==
  /\ srv[p] = "removing"
  /\ path' = 0
  /\ owned' = IF path = 0 THEN owned ELSE [owned EXCEPT ![p] = 0]
  /\ Goto(p, "down")
  /\ UNCHANGED <<maker, bound, noted, disturbed>>

RemoveOwn(p) == OwnsSocketPath(p) \/ UnlinkOwn(p)

\* The process is gone, and its sockets with it.  The file stays.
Vanish(p, s) ==
  /\ bound' = [bound EXCEPT ![p] = 0]
  /\ noted' = [noted EXCEPT ![p] = 0]
  /\ owned' = [owned EXCEPT ![p] = 0]
  /\ Goto(p, s)
  /\ UNCHANGED <<path, maker, disturbed>>

-----------------------------------------------------------------------------
(* Properties *)

\* The probe before start and the inode checks of stop keep processes out of
\* each other's way, whichever start, are refused, stop or die, unless a start
\* meets another start or the moment between a stop's look at the file and its
\* removal, or gets the inode number that another process has recorded.  A
\* process whose start met none of these does not fail, whatever a dead
\* controller left behind; once up it is reachable at the path and knows the
\* file for its own until it stops, and any other process that has a socket is
\* one whose start was disturbed, so the boards have one master.
PathSafe ==
  \A p \in Procs \ disturbed :
    /\ srv[p] # "failed"
    /\ srv[p] = "up" =>
         /\ path = bound[p] /\ owned[p] = path
         /\ \A q \in Procs \ {p} : bound[q] # 0 => q \in disturbed
=============================================================================
