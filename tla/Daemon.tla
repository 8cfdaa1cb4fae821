-------------------------------- MODULE Daemon --------------------------------
(***************************************************************************)
(* `blurd serve --daemon`, `stop` and `status`: the pid file is all that a *)
(* command knows of the server an earlier command has started. Commands    *)
(* run one after another, and may be killed at any step; the server may    *)
(* die at any time, and a stranger may hold the port.                      *)
(***************************************************************************)
EXTENDS Naturals

CONSTANTS
    MaxPids,    \* bound: servers started; pids are not used again
    Stranger,   \* another program's hold on the port
    NoPid

ASSUME DaemonAssumption ==
    /\ MaxPids \in Nat
    /\ Stranger \notin Nat /\ NoPid \notin Nat /\ Stranger # NoPid

VARIABLES
    pidFile,
    server,     \* what became of each started process
    port,       \* who listens
    command,    \* the one command that runs
    lastPid,
    onRecord    \* pids that a start has written, for properties

daemonVars == <<pidFile, server, port, command, lastPid, onRecord>>

Pid     == 1..MaxPids
MaybePid == Pid \union {NoPid}
NoCommand == [pc |-> "none", pid |-> NoPid]

DaemonTypeOK ==
    /\ pidFile \in MaybePid
    /\ server \in [Pid -> {"unborn", "starting", "listening", "draining", "dead"}]
    /\ port \in MaybePid \union {Stranger}
    /\ command \in [pc : {"none", "write", "await", "term"}, pid : MaybePid]
    /\ lastPid \in 0..MaxPids
    /\ onRecord \subseteq Pid

DaemonInit ==
    /\ pidFile = NoPid /\ port = NoPid /\ command = NoCommand
    /\ server = [p \in Pid |-> "unborn"]
    /\ lastPid = 0 /\ onRecord = {}

-----------------------------------------------------------------------------

Breathes(p) == p # NoPid /\ server[p] \in {"starting", "listening", "draining"}
Commanded(pc) == command.pc = pc
Released(p) == IF port = p THEN NoPid ELSE port
Killed(p)   == /\ server' = [server EXCEPT ![p] = "dead"]
               /\ port' = Released(p)

\* is_running of a pid file that names a dead process removes it.
FoundDead == ~Breathes(pidFile) /\ pidFile' = NoPid

\* status, and a start or a stop that finds nothing to do.
LookUp ==
    /\ Commanded("none")
    /\ FoundDead
    /\ UNCHANGED <<server, port, command, lastPid, onRecord>>

\* start: nothing runs and the port is free, so the server is spawned.
Spawn ==
    /\ Commanded("none") /\ lastPid < MaxPids
    /\ FoundDead /\ port = NoPid
    /\ lastPid' = lastPid + 1
    /\ server' = [server EXCEPT ![lastPid'] = "starting"]
    /\ command' = [pc |-> "write", pid |-> lastPid']
    /\ UNCHANGED <<port, onRecord>>

WritePid ==
    /\ Commanded("write")
    /\ pidFile' = command.pid /\ onRecord' = onRecord \union {command.pid}
    /\ command' = [command EXCEPT !.pc = "await"]
    /\ UNCHANGED <<server, port, lastPid>>

\* The child has exited.
StartFails ==
    /\ Commanded("await") /\ ~Breathes(command.pid)
    /\ pidFile' = NoPid /\ command' = NoCommand
    /\ UNCHANGED <<server, port, lastPid, onRecord>>

\* The port answers, whoever holds it.
StartAnswers ==
    /\ Commanded("await") /\ port # NoPid
    /\ command' = NoCommand
    /\ UNCHANGED <<pidFile, server, port, lastPid, onRecord>>

\* Six seconds are over, or the command is killed; the child stays.
GiveUp ==
    /\ Commanded("await") \/ Commanded("write") \/ Commanded("term")
    /\ command' = NoCommand
    /\ UNCHANGED <<pidFile, server, port, lastPid, onRecord>>

\* stop: SIGTERM. A server that listens drains; one that does not yet dies.
Terminate ==
    /\ Commanded("none") /\ Breathes(pidFile)
    /\ command' = [pc |-> "term", pid |-> pidFile]
    /\ IF server[pidFile] = "starting" THEN Killed(pidFile)
       ELSE server' = [server EXCEPT ![pidFile] = "draining"] /\ UNCHANGED port
    /\ UNCHANGED <<pidFile, lastPid, onRecord>>

\* Mutant: a server that still drains after five seconds is left to it.
StopLeaves ==
    /\ Commanded("term")
    /\ pidFile' = NoPid /\ command' = NoCommand
    /\ UNCHANGED <<server, port, lastPid, onRecord>>

\* The process has gone, or after five seconds it is killed, drained or not.
StopAnswers ==
    /\ Commanded("term")
    /\ Killed(command.pid)
    /\ pidFile' = NoPid /\ command' = NoCommand
    /\ UNCHANGED <<lastPid, onRecord>>

-----------------------------------------------------------------------------
(* The server, and others *)

Bind(p) ==
    /\ server[p] = "starting"
    /\ IF port = NoPid THEN port' = p /\ server' = [server EXCEPT ![p] = "listening"]
                       ELSE Killed(p)
    /\ UNCHANGED <<pidFile, command, lastPid, onRecord>>

ServerDies(p) ==
    /\ Breathes(p)
    /\ Killed(p)
    /\ UNCHANGED <<pidFile, command, lastPid, onRecord>>

StrangerBinds ==
    /\ port = NoPid /\ port' = Stranger
    /\ UNCHANGED <<pidFile, server, command, lastPid, onRecord>>

StrangerLeaves ==
    /\ port = Stranger /\ port' = NoPid
    /\ UNCHANGED <<pidFile, server, command, lastPid, onRecord>>

DaemonNext ==
    \/ LookUp \/ Spawn \/ WritePid \/ StartFails \/ StartAnswers \/ GiveUp
    \/ Terminate \/ StopAnswers \/ StrangerBinds \/ StrangerLeaves
    \/ \E p \in Pid : Bind(p) \/ ServerDies(p)

Daemons == DaemonInit /\ [][DaemonNext]_daemonVars

-----------------------------------------------------------------------------

\* A server that a start has put on record is the one the pid file names for as
\* long as it lives, so every later stop ends it and every later start sees it:
\* whatever commands were killed, gave up or answered for a stranger's port, and
\* whatever came of a server whose pid was never written.
RecordedIsFound == \A p \in onRecord : Breathes(p) => pidFile = p
=============================================================================
