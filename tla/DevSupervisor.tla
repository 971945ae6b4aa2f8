---------------------------- MODULE DevSupervisor ----------------------------
(***************************************************************************)
(* scripts/dev.mjs: `make dev` starts the development services under a     *)
(* supervisor that outlives it, `make down` stops them.  The supervisors   *)
(* that are started find each other by the control socket dev.sock; the    *)
(* services are a process group of their own.  A supervisor may be killed: *)
(* its socket file and its services stay.                                  *)
(***************************************************************************)
EXTENDS Integers

CONSTANTS Supervisors, NoSupervisor, MaxKills

VARIABLES
  socket,              \* who made the socket file, until it is removed
  steps,               \* each supervisor: how far supervise() has come
  state,               \* each: the state it reports
  stopping,            \* each: stop() was called
  child,               \* each: its services
  failure,             \* each: supervise() knows that the services have failed
  told,                \* each: what `up` and `down` were told: running, or stopped
  kills                \* history

devVars == <<socket, steps, state, stopping, child, failure, told, kills>>

Init ==
  /\ socket = NoSupervisor /\ kills = 0
  /\ steps = [s \in Supervisors |-> "none"]
  /\ state = [s \in Supervisors |-> "starting"]
  /\ stopping = [s \in Supervisors |-> FALSE]
  /\ child = [s \in Supervisors |-> "none"]
  /\ failure = [s \in Supervisors |-> FALSE]
  /\ told = [s \in Supervisors |-> {}]

Lives(s) == steps[s] \notin {"none", "exited", "killed"}
Alive(s) == child[s] \in {"up", "dying"}
PortFree == \A s \in Supervisors : ~Alive(s)

(* stop(), which is done once: the services are told to end if there are   *)
(* any, else everything is over at once.                                   *)
Told(s, what) == [told EXCEPT ![s] = @ \cup {what}]
Stop(s) ==
  IF stopping[s] THEN UNCHANGED <<socket, state, stopping, child>>
  ELSE /\ stopping' = [stopping EXCEPT ![s] = TRUE]
       /\ IF child[s] = "none"
          THEN /\ state' = [state EXCEPT ![s] = "stopped"]
               /\ socket' = IF socket = s THEN NoSupervisor ELSE socket
               /\ UNCHANGED child
          ELSE /\ state' = [state EXCEPT ![s] = "stopping"]
               /\ child' = IF child[s] = "up" THEN [child EXCEPT ![s] = "dying"] ELSE child
               /\ UNCHANGED socket
(* ... and ends when the services have closed their output.                *)
Stopped(s) ==
  /\ stopping[s] /\ state[s] # "stopped" /\ child[s] = "closed" /\ Lives(s)
  /\ state' = [state EXCEPT ![s] = "stopped"]
  /\ socket' = IF socket = s THEN NoSupervisor ELSE socket
  /\ UNCHANGED <<steps, stopping, child, failure, told, kills>>

-----------------------------------------------------------------------------
\* make dev

(* `up` asks the socket first; nobody there, and it starts a supervisor.   *)
Up(s) ==
  /\ steps[s] = "none" /\ socket = NoSupervisor
  /\ steps' = [steps EXCEPT ![s] = "listen"]
  /\ UNCHANGED <<socket, state, stopping, child, failure, told, kills>>
(* Two supervisors may be started; only one can make the socket file.      *)
Listen(s) ==
  /\ steps[s] = "listen"
  /\ IF socket = NoSupervisor
     THEN socket' = s /\ steps' = [steps EXCEPT ![s] = "ports"] /\ UNCHANGED <<state, stopping, child>>
     ELSE Stop(s) /\ steps' = [steps EXCEPT ![s] = "failed"]
  /\ UNCHANGED <<failure, told, kills>>
CheckPorts(s) ==
  /\ steps[s] = "ports"
  /\ IF PortFree
     THEN steps' = [steps EXCEPT ![s] = "spawn"] /\ UNCHANGED <<socket, state, stopping, child>>
     ELSE Stop(s) /\ steps' = [steps EXCEPT ![s] = "failed"]
  /\ UNCHANGED <<failure, told, kills>>
Cancelled(s) == stopping[s]
Spawn(s) ==
  /\ steps[s] = "spawn"
  /\ IF Cancelled(s)
     THEN Stop(s) /\ steps' = [steps EXCEPT ![s] = "failed"]
     ELSE /\ child' = [child EXCEPT ![s] = "up"] /\ steps' = [steps EXCEPT ![s] = "wait"]
          /\ UNCHANGED <<socket, state, stopping>>
  /\ UNCHANGED <<failure, told, kills>>

(* The loop: a failure or a stop ends it, so does the deadline; it asks    *)
(* the services for their health.  That answer comes later: stop() may     *)
(* have been called meanwhile, and the loop does not look again.           *)
AskHealth(s) ==
  /\ steps[s] = "wait"
  /\ IF failure[s] \/ stopping[s]
     THEN Stop(s) /\ steps' = [steps EXCEPT ![s] = "failed"]
     ELSE /\ steps' = [steps EXCEPT ![s] = "asked"]
          /\ UNCHANGED <<socket, state, stopping, child>>
  /\ UNCHANGED <<failure, told, kills>>
HealthyAnyway(s) == TRUE
Healthy(s) == ~failure[s]
HealthAnswered(s) ==
  /\ steps[s] = "asked"
  /\ \/ /\ Healthy(s)
        /\ steps' = [steps EXCEPT ![s] = "runs"]
        /\ state' = [state EXCEPT ![s] = "running"] /\ told' = Told(s, "running")
        /\ UNCHANGED <<socket, stopping, child>>
     \/ /\ steps' = [steps EXCEPT ![s] = "wait"]
        /\ UNCHANGED <<socket, state, stopping, child, told>>
     \/ Stop(s) /\ steps' = [steps EXCEPT ![s] = "failed"] /\ UNCHANGED told   \* the deadline
  /\ UNCHANGED <<failure, kills>>
(* The error is reported, and the process ends, when stop() is through.    *)
Fails(s) ==
  /\ steps[s] = "failed" /\ state[s] = "stopped"
  /\ steps' = [steps EXCEPT ![s] = "exited"]
  /\ UNCHANGED <<socket, state, stopping, child, failure, told, kills>>
Exits(s) ==
  /\ steps[s] = "runs" /\ state[s] = "stopped"
  /\ steps' = [steps EXCEPT ![s] = "exited"]
  /\ UNCHANGED <<socket, state, stopping, child, failure, told, kills>>

-----------------------------------------------------------------------------
\* What happens to a supervisor

(* `down`, a signal, or the end of the `up` that waits for a start; the    *)
(* handlers are there once the supervisor listens.                         *)
AskStop(s) ==
  /\ Lives(s) /\ steps[s] # "listen" /\ (socket = s \/ state[s] = "starting")
  /\ Stop(s)
  /\ UNCHANGED <<steps, failure, told, kills>>
(* `down` is answered when stop() is through.                              *)
DownAnswered(s) ==
  /\ Lives(s) /\ stopping[s] /\ state[s] = "stopped"
  /\ told' = Told(s, "stopped")
  /\ UNCHANGED <<socket, steps, state, stopping, child, failure, kills>>

(* The services exit, by themselves, by the signal, or by SIGKILL after    *)
(* six seconds; when all of them are gone their output is closed.          *)
ChildExits(s) ==
  /\ Alive(s) /\ ~failure[s]
  /\ failure' = [failure EXCEPT ![s] = TRUE]
  /\ IF Lives(s) /\ state[s] = "running" THEN Stop(s)
     ELSE UNCHANGED <<socket, state, stopping, child>>
  /\ UNCHANGED <<steps, told, kills>>
ChildClosed(s) ==
  /\ Alive(s) /\ failure[s]
  /\ child' = [child EXCEPT ![s] = "closed"]
  /\ UNCHANGED <<socket, steps, state, stopping, failure, told, kills>>

Kill(s) ==
  /\ Lives(s) /\ kills < MaxKills
  /\ steps' = [steps EXCEPT ![s] = "killed"] /\ kills' = kills + 1
  /\ UNCHANGED <<socket, state, stopping, child, failure, told>>
(* "remove the socket only after confirming old services have stopped"     *)
RemoveSocket ==
  /\ socket # NoSupervisor /\ steps[socket] = "killed" /\ PortFree
  /\ socket' = NoSupervisor
  /\ UNCHANGED <<steps, state, stopping, child, failure, told, kills>>

Next ==
  \/ \E s \in Supervisors :
       \/ Up(s) \/ Listen(s) \/ CheckPorts(s) \/ Spawn(s) \/ AskHealth(s) \/ HealthAnswered(s)
       \/ Fails(s) \/ Exits(s) \/ Stopped(s) \/ AskStop(s) \/ DownAnswered(s)
       \/ ChildExits(s) \/ ChildClosed(s) \/ Kill(s)
  \/ RemoveSocket
Spec == Init /\ [][Next]_devVars

-----------------------------------------------------------------------------
\* Properties

TypeOK ==
  /\ socket \in Supervisors \cup {NoSupervisor} /\ kills \in 0..MaxKills
  /\ steps \in [Supervisors -> {"none", "listen", "ports", "spawn", "wait", "asked", "runs",
                                "failed", "exited", "killed"}]
  /\ state \in [Supervisors -> {"starting", "running", "stopping", "stopped"}]
  /\ stopping \in [Supervisors -> BOOLEAN]
  /\ child \in [Supervisors -> {"none", "up", "dying", "closed"}]
  /\ failure \in [Supervisors -> BOOLEAN]
  /\ told \in [Supervisors -> SUBSET {"running", "stopped"}]

(* Who reports "stopped" has no services left and keeps nobody else from   *)
(* starting, and does not turn back to "running" once `down` was told so;  *)
(* no two supervisors have services at a time, also when two are started   *)
(* at once, one is stopped while it starts, or one is killed.              *)
StoppedIsDown ==
  /\ \A s \in Supervisors : state[s] = "stopped" => ~Alive(s) /\ socket # s
  /\ \A s, t \in Supervisors : Alive(s) /\ Alive(t) => s = t
  /\ \A s \in Supervisors : "stopped" \in told[s] => state[s] = "stopped"
=============================================================================
