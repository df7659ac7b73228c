----------------------------- MODULE LogChannel -----------------------------
(***************************************************************************)
(* The log channel over restarts of the server: each start is a main       *)
(* process with a LogOupter, and the daemon it forks, with a LogServer on  *)
(* the Unix socket path kLocalPath that all daemons share.  The daemon     *)
(* sleeps and then waits for the end of its socketpair with the main       *)
(* process; the main process sleeps and then connects to the path, whoever *)
(* listens there.  One server runs at a time, its daemon may outlive it.   *)
(*                                                                         *)
(* Log lines are counted.  A failing bind or LOG_FATAL ends the process.   *)
(***************************************************************************)
EXTENDS Integers

CONSTANTS
    MaxStarts,          \* bound: how often the server is started
    MaxLines,           \* bound: log lines of one main process
    WriteCntToFlush,    \* LogServer::kWriteCntToFlush
    None                \* no path, no connection

Starts == 1 .. MaxStarts

ASSUME StartsAssumption == MaxStarts \in Nat /\ MaxLines \in Nat /\ None \notin Starts

ASSUME FlushAssumption == WriteCntToFlush \in Nat \ {0}

VARIABLES
    main,       \* state of each main process
    daemon,     \* state of each daemon
    path,       \* the daemon whose socket is bound to kLocalPath
    conn,       \* the daemon that sock_client_ is connected to
    lines,      \* number of lines sent by each main process
    queue,      \* number of lines of a connection that are not read yet
    count,      \* LogServer::write_count_
    pending,    \* number of Appends to file_ since it was flushed
    quiet       \* history: no earlier daemon was alive at this start

vars == <<main, daemon, path, conn, lines, queue, count, pending, quiet>>

file == <<count, pending>>
-----------------------------------------------------------------------------
Over == {"dead", "killed"}

\* The daemon's listening socket accepts connections.
Listening == {"asleep", "watch", "closing"}

\* Its event loop thread runs.
Looping == Listening \cup {"unlinked"}

MainRuns(g) == main[g] \in {"waiting", "up"}

DaemonRuns(g) == daemon[g] \notin Over \cup {"off"}

\* The socket of the main process is still open somewhere: it was made before
\* the fork, so that the daemon has a descriptor of it too.
SocketHeld(g) == MainRuns(g) \/ DaemonRuns(g)

Init ==
    /\ main = [g \in Starts |-> "off"]
    /\ daemon = [g \in Starts |-> "off"]
    /\ path = None
    /\ conn = [g \in Starts |-> None]
    /\ lines = [g \in Starts |-> 0]
    /\ queue = [g \in Starts |-> 0]
    /\ count = [g \in Starts |-> 0]
    /\ pending = [g \in Starts |-> 0]
    /\ quiet = [g \in Starts |-> FALSE]

-----------------------------------------------------------------------------
\* LogOupter::Start: CreateSubProcess forks the daemon; then usleep.
Start(g) ==
    /\ main[g] = "off"
    /\ \A h \in Starts : h < g => main[h] = "gone"
    /\ main' = [main EXCEPT ![g] = "waiting"]
    /\ daemon' = [daemon EXCEPT ![g] = "boot"]
    /\ quiet' = [quiet EXCEPT ![g] = \A h \in Starts : h < g => daemon[h] \in Over]
    /\ UNCHANGED <<path, conn, lines, queue, file>>

\* Connect after the sleep; LOG_FATAL when nobody listens (yet).
Connect(g) ==
    /\ main[g] = "waiting"
    /\ IF path # None /\ daemon[path] \in Listening
       THEN /\ main' = [main EXCEPT ![g] = "up"]
            /\ conn' = [conn EXCEPT ![g] = path]
       ELSE /\ main' = [main EXCEPT ![g] = "gone"]
            /\ UNCHANGED conn
    /\ UNCHANGED <<daemon, path, lines, queue, file, quiet>>

\* LogOupter::Output.  With the daemon gone the line is lost, and SIGPIPE may
\* end the process.
Output(g) ==
    /\ main[g] = "up"
    /\ lines[g] < MaxLines
    /\ lines' = [lines EXCEPT ![g] = @ + 1]
    /\ \/ /\ daemon[conn[g]] \in Looping
          /\ queue' = [queue EXCEPT ![g] = @ + 1]
          /\ UNCHANGED main
       \/ /\ daemon[conn[g]] \notin Looping
          /\ UNCHANGED queue
          /\ main' \in {main, [main EXCEPT ![g] = "gone"]}
    /\ UNCHANGED <<daemon, path, conn, file, quiet>>

\* The main process ends, by ~LogOupter and Stop or by a crash.
Stop(g) ==
    /\ MainRuns(g)
    /\ main' = [main EXCEPT ![g] = "gone"]
    /\ UNCHANGED <<daemon, path, conn, lines, queue, file, quiet>>
-----------------------------------------------------------------------------
\* Mutant: the path is removed before bind.
BindRemoves(g) ==
    /\ daemon[g] = "boot"
    /\ path' = g
    /\ daemon' = [daemon EXCEPT ![g] = "bound"]
    /\ UNCHANGED <<main, conn, lines, queue, file, quiet>>

\* Run: SwitchToDaemon, then the LogServer's socket is bound to the path,
\* which fails when the path exists.
Bind(g) ==
    /\ daemon[g] = "boot"
    /\ IF path = None
       THEN /\ path' = g
            /\ daemon' = [daemon EXCEPT ![g] = "bound"]
       ELSE /\ daemon' = [daemon EXCEPT ![g] = "dead"]
            /\ UNCHANGED path
    /\ UNCHANGED <<main, conn, lines, queue, file, quiet>>

\* log_server.Start(), then sleep(4).
Listen(g) ==
    /\ daemon[g] = "bound"
    /\ daemon' = [daemon EXCEPT ![g] = "asleep"]
    /\ UNCHANGED <<main, path, conn, lines, queue, file, quiet>>

Wake(g) ==
    /\ daemon[g] = "asleep"
    /\ daemon' = [daemon EXCEPT ![g] = "watch"]
    /\ UNCHANGED <<main, path, conn, lines, queue, file, quiet>>

\* Mutants: the child keeps its copy of the parent's end of the socketpair;
\* recvmsg does not wait.
RecvFdHeld(g) ==
    /\ daemon[g] = "watch"
    /\ ~SocketHeld(g)
    /\ daemon' = [daemon EXCEPT ![g] = "closing"]
    /\ UNCHANGED <<main, path, conn, lines, queue, file, quiet>>

RecvFdNoWait(g) ==
    /\ daemon[g] = "watch"
    /\ daemon' = [daemon EXCEPT ![g] = "closing"]
    /\ UNCHANGED <<main, path, conn, lines, queue, file, quiet>>

\* RecvFd returns 0 once the main process, the only one with the other end of
\* the socketpair, is gone (nobody sends descriptors): the loop in Run ends.
RecvFd(g) ==
    /\ daemon[g] = "watch"
    /\ ~MainRuns(g)
    /\ daemon' = [daemon EXCEPT ![g] = "closing"]
    /\ UNCHANGED <<main, path, conn, lines, queue, file, quiet>>

\* ~LogServer unlinks the path, whoever is bound to it.
Unlink(g) ==
    /\ daemon[g] = "closing"
    /\ path' = None
    /\ daemon' = [daemon EXCEPT ![g] = "unlinked"]
    /\ UNCHANGED <<main, conn, lines, queue, file, quiet>>

\* Mutant: the path is unlinked after the members are destroyed.
DestroyUnlinks(g) ==
    /\ daemon[g] = "unlinked"
    /\ daemon' = [daemon EXCEPT ![g] = "dead"]
    /\ path' = None
    /\ UNCHANGED <<main, conn, lines, queue, file, quiet>>

\* The members are destroyed; exit(0).
Destroy(g) ==
    /\ daemon[g] = "unlinked"
    /\ daemon' = [daemon EXCEPT ![g] = "dead"]
    /\ UNCHANGED <<main, path, conn, lines, queue, file, quiet>>

\* A daemon is killed or dies of a failure (fork, the log directory, memory):
\* nothing is unlinked and nothing flushed.
Kill(g) ==
    /\ DaemonRuns(g)
    /\ daemon' = [daemon EXCEPT ![g] = "killed"]
    /\ UNCHANGED <<main, path, conn, lines, queue, file, quiet>>
-----------------------------------------------------------------------------
Counted(k) == (k + 1) % WriteCntToFlush

\* LogServer::OnMessage on the daemon's loop thread, for the connection of g:
\* all that one read gave is appended at once.
OnMessage(d, g) ==
    /\ daemon[d] \in Looping
    /\ conn[g] = d
    /\ \E n \in 1 .. queue[g] : queue' = [queue EXCEPT ![g] = @ - n]
    /\ count' = [count EXCEPT ![d] = Counted(@)]
    /\ pending' = [pending EXCEPT ![d] = IF count'[d] = 0 THEN 0 ELSE @ + 1]
    /\ UNCHANGED <<main, daemon, path, conn, lines, quiet>>

\* Mutant: a disconnect resets write_count_ instead of flushing.
OnConnectionResets(d, g) ==
    /\ daemon[d] \in Looping
    /\ conn[g] = d
    /\ queue[g] = 0
    /\ ~SocketHeld(g)
    /\ conn' = [conn EXCEPT ![g] = None]
    /\ count' = [count EXCEPT ![d] = 0]
    /\ UNCHANGED <<main, daemon, path, lines, queue, pending, quiet>>

\* LogServer::OnConnection when the last descriptor of a client's socket is
\* closed: flush, with write_count_ left as it is.
OnConnection(d, g) ==
    /\ daemon[d] \in Looping
    /\ conn[g] = d
    /\ queue[g] = 0
    /\ ~SocketHeld(g)
    /\ conn' = [conn EXCEPT ![g] = None]
    /\ pending' = [pending EXCEPT ![d] = 0]
    /\ UNCHANGED <<main, daemon, path, lines, queue, count, quiet>>

RunStep(g) ==
    Bind(g) \/ Listen(g) \/ Wake(g) \/ RecvFd(g) \/ Unlink(g) \/ Destroy(g)

Next ==
    \E g \in Starts :
        \/ Start(g) \/ Connect(g) \/ Output(g) \/ Stop(g)
        \/ RunStep(g) \/ Kill(g)
        \/ \E d \in Starts : OnMessage(d, g) \/ OnConnection(d, g)

\* A daemon's main thread runs on: its sleep ends, and recvmsg returns at the
\* end of file.  Nothing makes a main process start, log or stop.
Fairness == \A g \in Starts : WF_vars(RunStep(g))

Spec == Init /\ [][Next]_vars

FairSpec == Spec /\ Fairness
-----------------------------------------------------------------------------
\* Type invariant of the processes, the connections and the log files.
TypeOK ==
    /\ main \in [Starts -> {"off", "waiting", "up", "gone"}]
    /\ daemon \in [Starts -> Looping \cup Over \cup {"off", "boot", "bound"}]
    /\ path \in Starts \cup {None}
    /\ conn \in [Starts -> Starts \cup {None}]
    /\ lines \in [Starts -> Nat]
    /\ queue \in [Starts -> Nat]
    /\ count \in [Starts -> 0 .. WriteCntToFlush - 1]
    /\ pending \in [Starts -> Nat]
    /\ quiet \in [Starts -> BOOLEAN]

\* The path belongs to the daemon that listens: though ~LogServer unlinks by
\* name, a daemon that ends never removes the path of the next one.
PathOfListener ==
    \A g \in Starts : daemon[g] \in Listening \cup {"bound"} => path = g

\* A server started when no earlier daemon was left logs to its own daemon,
\* which stays until the server ends, unless it is killed.  (A server started
\* earlier may log to a daemon that is about to end.)
ServedByOwn ==
    \A g \in Starts : main[g] = "up" /\ quiet[g] /\ daemon[g] # "killed" =>
        conn[g] = g /\ daemon[g] \in {"asleep", "watch"}

\* Fewer than kWriteCntToFlush reads are not flushed, over all connections
\* that come and go: a daemon that is killed loses no more than these.
BatchBound == \A g \in Starts : pending[g] < WriteCntToFlush

\* The path exists and its daemon does not.
Stale == path # None /\ daemon[path] \in Over

\* Once a daemon was killed its path stays, and no server gets past Start.
StalePathStays ==
    [][Stale => /\ path' = path
                /\ \A g \in Starts : main'[g] = "up" => main[g] = "up"]_vars

\* No daemon outlives its main process for ever, however that ended and
\* whichever daemon it was connected to.
DaemonEnds == \A g \in Starts : (main[g] = "gone") ~> (daemon[g] \in Over)
=============================================================================
