------------------------------ MODULE Supervisor ------------------------------
(***************************************************************************)
(* main.py all: starts the gateway, the scheduler and the workers, starts  *)
(* a component again after a back-off when its process has ended, and      *)
(* terminates all of them on SIGTERM or SIGINT.  The handler runs between  *)
(* any two steps, also within itself; then, as without a supervisor, what  *)
(* is left runs on.  main.py stop works on the pid files and knows nothing *)
(* of the supervisor.  Processes are numbered in the order of their start; *)
(* a number is not used again.                                             *)
(***************************************************************************)
EXTENDS Naturals, FiniteSets

CONSTANTS
    Components,
    MaxPid,     \* bound on the processes
    MaxSignals, \* bound on signals, and on ends of the supervisor
    MaxStopped, \* bound on uses of main.py stop
    NoComponent

ASSUME SupervisorAssumption ==
    /\ NoComponent \notin Components
    /\ {MaxPid, MaxSignals, MaxStopped} \subseteq Nat

NoPid == 0
Pids == 1..MaxPid

VARIABLES
    mode,       \* where the supervisor is
    current,    \* the component it starts, or waits to start
    remaining,  \* those that its loop has not reached
    popened,    \* a process that is in no table yet
    children,   \* procs
    processes,  \* the processes: pid |-> component
    pidfile,
    lastPid,
    signals, stopped,
    left        \* history: processes the supervisor lost, or was made to leave

supervisorVars == <<mode, current, remaining, popened, children, processes, pidfile, lastPid,
    signals, stopped, left>>

SupervisorTypeOK ==
    /\ mode \in {"off", "starting", "watching", "waiting", "stopping"}
    /\ current \in Components \cup {NoComponent}
    /\ remaining \subseteq Components
    /\ popened \in Pids \cup {NoPid}
    /\ children \in [Components -> Pids \cup {NoPid}]
    /\ processes \in [Pids -> Components \cup {NoComponent}]
    /\ pidfile \in [Components -> Pids \cup {NoPid}]
    /\ lastPid \in 0..MaxPid /\ signals \in 0..MaxSignals /\ stopped \in 0..MaxStopped
    /\ left \subseteq Pids

SupervisorInit ==
    /\ mode = "off" /\ current = NoComponent /\ remaining = {} /\ popened = NoPid
    /\ children = [c \in Components |-> NoPid]
    /\ processes = [p \in Pids |-> NoComponent]
    /\ pidfile = [c \in Components |-> NoPid]
    /\ lastPid = 0 /\ signals = 0 /\ stopped = 0
    /\ left = {}

-----------------------------------------------------------------------------

Alive(p) == p # NoPid /\ processes[p] # NoComponent
Living == {p \in Pids : Alive(p)}

StartAll ==
    /\ mode = "off" /\ lastPid + Cardinality(Components) <= MaxPid
    /\ mode' = "starting"
    /\ remaining' = Components
    /\ children' = [c \in Components |-> NoPid]
    /\ UNCHANGED <<current, popened, processes, pidfile, lastPid, signals, stopped, left>>

\* spawn, the first half
Popen(c) ==
    /\ popened = NoPid /\ lastPid < MaxPid
    /\ \/ mode = "starting" /\ c \in remaining
       \/ mode = "waiting" /\ c = current
    /\ lastPid' = lastPid + 1
    /\ processes' = [processes EXCEPT ![lastPid'] = c]
    /\ popened' = lastPid'
    /\ current' = c
    /\ remaining' = remaining \ {c}
    /\ UNCHANGED <<mode, children, pidfile, signals, stopped, left>>

\* The second half: the pid file, and procs
Record ==
    /\ popened # NoPid
    /\ pidfile' = [pidfile EXCEPT ![current] = popened]
    /\ children' = [children EXCEPT ![current] = popened]
    /\ popened' = NoPid /\ current' = NoComponent
    /\ mode' = IF mode = "starting" /\ remaining # {} THEN mode ELSE "watching"
    /\ UNCHANGED <<remaining, processes, lastPid, signals, stopped, left>>

\* The loop looks at all processes again.
NextRound ==
    /\ mode = "watching" /\ remaining = {}
    /\ remaining' = Components
    /\ UNCHANGED <<mode, current, popened, children, processes, pidfile, lastPid, signals,
                   stopped, left>>

PollRunning(c) ==
    /\ mode = "watching" /\ c \in remaining /\ Alive(children[c])
    /\ remaining' = remaining \ {c}
    /\ UNCHANGED <<mode, current, popened, children, processes, pidfile, lastPid, signals, stopped,
                   left>>

HasEndedUnseen(c) == FALSE \* mutant: the end of a process is not noticed
HasEnded(c) == ~Alive(children[c])

\* The supervisor waits before it starts the component again: the longer the more often
\* it failed in a row, at most 30 s.
PollEnded(c) ==
    /\ mode = "watching" /\ c \in remaining /\ HasEnded(c)
    /\ pidfile' = [pidfile EXCEPT ![c] = NoPid]
    /\ mode' = "waiting" /\ current' = c
    /\ UNCHANGED <<remaining, popened, children, processes, lastPid, signals, stopped, left>>

\* A process ends, for instance at its start, because another has its port.
ProcessEnds(p) ==
    /\ Alive(p)
    /\ processes' = [processes EXCEPT ![p] = NoComponent]
    /\ UNCHANGED <<mode, current, remaining, popened, children, pidfile, lastPid, signals,
                   stopped, left>>

\* The handler's shutdown takes the processes in procs: not the one that is being started.
Signal ==
    /\ mode \in {"starting", "watching", "waiting"}
    /\ signals < MaxSignals /\ signals' = signals + 1
    /\ mode' = "stopping"
    /\ remaining' = {c \in Components : children[c] # NoPid}
    /\ left' = left \cup ({popened} \ {NoPid})
    /\ popened' = NoPid /\ current' = NoComponent
    /\ UNCHANGED <<children, processes, pidfile, lastPid, stopped>>

TerminatedNot(c) == processes \* mutant: the process is not waited for
Terminated(c) ==
    IF children[c] = NoPid THEN processes ELSE [processes EXCEPT ![children[c]] = NoComponent]

\* terminate, wait, and kill after 10 s
Terminate(c) ==
    /\ mode = "stopping" /\ c \in remaining
    /\ processes' = Terminated(c)
    /\ pidfile' = [pidfile EXCEPT ![c] = NoPid]
    /\ remaining' = remaining \ {c}
    /\ UNCHANGED <<mode, current, popened, children, lastPid, signals, stopped, left>>

ShutDown ==
    /\ mode = "stopping" /\ remaining = {}
    /\ mode' = "off"
    /\ UNCHANGED <<current, remaining, popened, children, processes, pidfile, lastPid, signals,
                   stopped, left>>

\* A second signal, whose handler exits in the midst of the first one's shutdown, or the
\* supervisor is killed: what runs is left.
Abandon ==
    /\ mode # "off"
    /\ signals < MaxSignals /\ signals' = signals + 1
    /\ mode' = "off" /\ remaining' = {}
    /\ popened' = NoPid /\ current' = NoComponent
    /\ left' = left \cup Living
    /\ UNCHANGED <<children, processes, pidfile, lastPid, stopped>>

\* main.py stop: each component's pid file
CmdStop ==
    /\ stopped < MaxStopped /\ stopped' = stopped + 1
    /\ processes' = [p \in Pids |->
          IF \E c \in Components : pidfile[c] = p THEN NoComponent ELSE processes[p]]
    /\ pidfile' = [c \in Components |-> NoPid]
    /\ UNCHANGED <<mode, current, remaining, popened, children, lastPid, signals, left>>

SupervisorStep ==
    \/ Record \/ NextRound \/ ShutDown
    \/ \E c \in Components : Popen(c) \/ PollRunning(c) \/ PollEnded(c) \/ Terminate(c)

SupervisorNext ==
    \/ StartAll \/ SupervisorStep \/ Signal \/ Abandon \/ CmdStop
    \/ \E p \in Pids : ProcessEnds(p)

SupervisorSpec == SupervisorInit /\ [][SupervisorNext]_supervisorVars

-----------------------------------------------------------------------------
(* Properties *)

Of(c) == {p \in Pids \ left : processes[p] = c}

\* A component has one process, and none when the supervisor has ended, apart from those
\* that a second signal, a signal during a start, or a kill of the supervisor left behind.
OneOfEach ==
    /\ \A c \in Components : Cardinality(Of(c)) <= 1
    /\ mode = "off" => Living \subseteq left

\* A component whose process ends is started again, unless the supervisor is stopping
\* (or the bound on processes is reached).
ComponentRestarted ==
    \A c \in Components :
        []<>(\/ mode \in {"off", "stopping"} \/ lastPid = MaxPid
             \/ Alive(children[c]) \/ (popened # NoPid /\ current = c))

=============================================================================
