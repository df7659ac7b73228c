------------------------------ MODULE SubProcess ------------------------------
(***************************************************************************)
(* SubProcess objects of one main process, down to descriptor numbers:     *)
(* socketpair, fork, the descriptors that SendFd puts on the way and       *)
(* RecvFd installs, SwitchToDaemon, CloseFd and the end of file.           *)
(*                                                                         *)
(* The kernel is external: a new descriptor gets the lowest free number, a *)
(* fork copies all of them, a number is closed with the process, and the   *)
(* end of a socketpair is reached when nobody has the other end open.      *)
(***************************************************************************)
EXTENDS Integers, Sequences

CONSTANTS
    Main,       \* the main process
    Subs,       \* SubProcess objects, and the processes they fork
    Files,      \* open files of the program
    Null,       \* the open file /dev/null
    MaxFds,     \* RLIMIT_NOFILE
    MaxSends    \* bound: calls of SendFd, of CloseFd and of open

ASSUME NamesAssumption ==
    /\ Main \notin Subs
    /\ Files \cap (Subs \X {0, 1}) = {}
    /\ Null \notin Files \cup (Subs \X {0, 1})

ASSUME LimitAssumption == MaxFds \in Nat /\ MaxFds >= 3 /\ MaxSends \in Nat

VARIABLES
    fds,        \* open descriptors of each process: what each number is
    phase,      \* where each process is
    pipes,      \* numbers that socketpair gave for each SubProcess
    chan,       \* files sent to each process and not yet received
    last,       \* what the last RecvFd of each process returned
    calls,      \* number of calls of the main program so far
    sent,       \* history: files that SendFd of each SubProcess sent
    got,        \* history: the file at the number that RecvFd returned
    std,        \* history: 0, 1 and 2 were open in the main process at fork
    closed      \* history: CloseFd was called on these

vars == <<fds, phase, pipes, chan, last, calls, sent, got, std, closed>>

Procs == Subs \cup {Main}

Fds == 0 .. MaxFds - 1

\* The ends of the socketpair of s: 0 is the one of its process.
End(s, i) == <<s, i>>

Ends == Subs \X {0, 1}

NoFds == [n \in {} |-> Null]

Free(t) == Fds \ DOMAIN t

Lowest(S) == CHOOSE n \in S : \A k \in S : n <= k

\* Table t with f at the lowest free number, and without number n.
With(t, f) ==
    [n \in DOMAIN t \cup {Lowest(Free(t))} |-> IF n \in DOMAIN t THEN t[n] ELSE f]

Without(t, n) == [k \in DOMAIN t \ {n} |-> t[k]]

Open(t) == {t[n] : n \in DOMAIN t}

\* The number of a process's end, sock_fd_: pipes[1] in the main process.
SockFd(s) == pipes[s][1]

SubFd(s) == pipes[s][0]

NoPipes == [i \in {0, 1} |-> -1]

\* Somebody has the main process's end of s open.
Held(s) == \E p \in Procs : End(s, 1) \in Open(fds[p])

HasReader(s) == \E p \in Procs : End(s, 0) \in Open(fds[p])
-----------------------------------------------------------------------------
\* The main process is started with any of 0, 1 and 2 open.
Init ==
    /\ \E ns \in SUBSET {0, 1, 2} : \E t \in [ns -> Files] :
         fds = [p \in Procs |-> IF p = Main THEN t ELSE NoFds]
    /\ phase = [p \in Procs |-> IF p = Main THEN "run" ELSE "none"]
    /\ pipes = [s \in Subs |-> NoPipes]
    /\ chan = [s \in Subs |-> <<>>]
    /\ last = [s \in Subs |-> -1]
    /\ calls = 0
    /\ sent = [s \in Subs |-> <<>>]
    /\ got = [s \in Subs |-> <<>>]
    /\ std = [s \in Subs |-> FALSE]
    /\ closed = {}

Runs(p, at) == phase[p] = at

Ended(p) ==
    /\ fds' = [fds EXCEPT ![p] = NoFds]
    /\ phase' = [phase EXCEPT ![p] = "ended"]

\* A process ends, whatever it is at.
Exit(p) ==
    /\ phase[p] \notin {"none", "ended"}
    /\ Ended(p)
    /\ UNCHANGED <<pipes, chan, last, calls, sent, got, std, closed>>

\* CreateSubProcess: socketpair and fork, of which LOG_SYSFAT ends the main
\* process if it fails.
CreateSubProcess(s) ==
    /\ Runs(Main, "run") /\ Runs(s, "none")
    /\ \/ /\ \E n, m \in Free(fds[Main]) : n # m
          /\ LET one  == With(fds[Main], End(s, 0))
                 both == With(one, End(s, 1))
             IN  /\ fds' = [fds EXCEPT ![Main] = both, ![s] = both]
                 /\ pipes' = [pipes EXCEPT ![s] =
                       [i \in {0, 1} |-> IF i = 0 THEN Lowest(Free(fds[Main]))
                                         ELSE Lowest(Free(one))]]
          /\ phase' = [phase EXCEPT ![Main] = "forked", ![s] = "forked"]
          /\ std' = [std EXCEPT ![s] = {0, 1, 2} \subseteq DOMAIN fds[Main]]
       \/ Ended(Main) /\ UNCHANGED <<pipes, std>>
    /\ UNCHANGED <<chan, last, calls, sent, got, closed>>

\* The main process closes pipes[0], the child pipes[1].
MainCloses(s) ==
    /\ Runs(Main, "forked")
    /\ SubFd(s) \in DOMAIN fds[Main] /\ fds[Main][SubFd(s)] = End(s, 0)
    /\ fds' = [fds EXCEPT ![Main] = Without(@, SubFd(s))]
    /\ phase' = [phase EXCEPT ![Main] = "run"]
    /\ UNCHANGED <<pipes, chan, last, calls, sent, got, std, closed>>

\* Mutant: the child closes nothing.
SubKeeps(s) ==
    /\ Runs(s, "forked")
    /\ phase' = [phase EXCEPT ![s] = "run"]
    /\ UNCHANGED <<fds, pipes, chan, last, calls, sent, got, std, closed>>

SubCloses(s) ==
    /\ Runs(s, "forked")
    /\ fds' = [fds EXCEPT ![s] = Without(@, SockFd(s))]
    /\ phase' = [phase EXCEPT ![s] = "run"]
    /\ UNCHANGED <<pipes, chan, last, calls, sent, got, std, closed>>
-----------------------------------------------------------------------------
(***************************************************************************)
(* The main program.                                                       *)
(***************************************************************************)
Call ==
    /\ Runs(Main, "run")
    /\ calls < MaxSends
    /\ calls' = calls + 1

\* Number n of the main process leads to the subprocess r.
LeadsTo(n, r) == n \in DOMAIN fds[Main] /\ fds[Main][n] = End(r, 1)

\* sendmsg of s on the number n, wherever it leads by now, with the number fd:
\* a file of the program, or not open at all.
SendOn(s, n, fd) ==
    LET t == fds[Main] IN
    /\ Call
    /\ ~Runs(s, "none")
    /\ fd \in DOMAIN t => t[fd] \in Files
    /\ \/ \E r \in Subs :
            /\ fd \in DOMAIN t /\ LeadsTo(n, r) /\ HasReader(r)
            /\ chan' = [chan EXCEPT ![r] = Append(@, t[fd])]
            /\ sent' = [sent EXCEPT ![s] = Append(@, t[fd])]
            /\ UNCHANGED <<fds, phase>>
       \/ /\ fd \notin DOMAIN t \/ \A r \in Subs : ~LeadsTo(n, r)
          /\ UNCHANGED <<fds, phase, chan, sent>>
       \/ /\ fd \in DOMAIN t /\ \E r \in Subs : LeadsTo(n, r) /\ ~HasReader(r)
          /\ Ended(Main) \/ UNCHANGED <<fds, phase>>  \* SIGPIPE, or it is ignored
          /\ UNCHANGED <<chan, sent>>
    /\ UNCHANGED <<pipes, last, got, std, closed>>

\* Mutant: sock_fd_ is shared by the objects.
SendShared(s, fd) == \E r \in Subs : ~Runs(r, "none") /\ SendOn(s, SockFd(r), fd)

SendFd(s, fd) == SendOn(s, SockFd(s), fd)

\* close(sock_fd_), which keeps its value.
CloseFd(s) ==
    /\ Call
    /\ ~Runs(s, "none")
    /\ fds' = [fds EXCEPT ![Main] = Without(@, SockFd(s))]
    /\ closed' = closed \cup {s}
    /\ UNCHANGED <<phase, pipes, chan, last, sent, got, std>>

\* The program opens a file.
OpenFile(f) ==
    /\ Call
    /\ Free(fds[Main]) # {}
    /\ fds' = [fds EXCEPT ![Main] = With(@, f)]
    /\ UNCHANGED <<phase, pipes, chan, last, sent, got, std, closed>>
-----------------------------------------------------------------------------
(***************************************************************************)
(* The function of a subprocess: it may become a daemon, then it receives  *)
(* until RecvFd returns 0 or less.                                         *)
(***************************************************************************)
\* Numbers N closed, then /dev/null opened and dupped twice.
Redirect(s, N) ==
    LET t == [n \in DOMAIN fds[s] \ N |-> fds[s][n]]
    IN  fds' = [fds EXCEPT ![s] = With(With(With(t, Null), Null), Null)]

\* Two forks leave a process with the same descriptors.
DaemonClosing(s, N) ==
    /\ Runs(s, "run")
    /\ Redirect(s, N)
    /\ phase' = [phase EXCEPT ![s] = "daemon"]
    /\ UNCHANGED <<pipes, chan, last, calls, sent, got, std, closed>>

\* Mutant: one number too many is closed.
ClosesFour(s) == DaemonClosing(s, {0, 1, 2, 3})

SwitchToDaemon(s) == DaemonClosing(s, {0, 1, 2})

HasSock(s) == SubFd(s) \in DOMAIN fds[s] /\ fds[s][SubFd(s)] = End(s, 0)

\* RecvFd returns fd to a loop that goes on while it is greater than 0.
Returns(s, fd) == last' = [last EXCEPT ![s] = fd]

\* A message: its file gets the lowest number, if there is one.  The number
\* is 0, too, if there is none: cmsgbuf stays as it was set.
RecvFile(s) ==
    /\ HasSock(s) /\ chan[s] # <<>>
    /\ chan' = [chan EXCEPT ![s] = Tail(@)]
    /\ \/ /\ Free(fds[s]) # {}
          /\ Returns(s, Lowest(Free(fds[s])))
          /\ fds' = [fds EXCEPT ![s] = With(@, Head(chan[s]))]
          /\ got' = [got EXCEPT ![s] = Append(@, Head(chan[s]))]
       \/ /\ Free(fds[s]) = {}
          /\ Returns(s, 0)
          /\ UNCHANGED <<fds, got>>

\* Mutant: recvmsg does not wait.
RecvNoWait(s) ==
    /\ HasSock(s) /\ chan[s] = <<>>
    /\ Returns(s, 0)
    /\ UNCHANGED <<fds, chan, got>>

RecvEnd(s) ==
    /\ HasSock(s) /\ chan[s] = <<>> /\ ~Held(s)
    /\ Returns(s, 0)
    /\ UNCHANGED <<fds, chan, got>>

\* The number is not a socket, or not open.
RecvError(s) ==
    /\ ~HasSock(s)
    /\ Returns(s, -1)
    /\ UNCHANGED <<fds, chan, got>>

RecvFd(s) ==
    /\ phase[s] \in {"run", "daemon"}
    /\ RecvFile(s) \/ RecvEnd(s) \/ RecvError(s)
    /\ phase' = IF last'[s] > 0 THEN phase ELSE [phase EXCEPT ![s] = "done"]
    /\ UNCHANGED <<pipes, calls, sent, std, closed>>

\* Files of the subprocess are closed by it when it likes.
CloseFile(s, n) ==
    /\ phase[s] \in {"run", "daemon"}
    /\ n \in DOMAIN fds[s] /\ n > 2 /\ fds[s][n] \in Files
    /\ fds' = [fds EXCEPT ![s] = Without(@, n)]
    /\ UNCHANGED <<phase, pipes, chan, last, calls, sent, got, std, closed>>
-----------------------------------------------------------------------------
Next ==
    \/ Exit(Main)
    \/ \E f \in Files : OpenFile(f)
    \/ \E s \in Subs :
         \/ CreateSubProcess(s) \/ MainCloses(s) \/ SubCloses(s)
         \/ \E fd \in Fds \cup {-1} : SendFd(s, fd)
         \/ CloseFd(s)
         \/ Exit(s) \/ SwitchToDaemon(s) \/ RecvFd(s)
         \/ \E n \in Fds : CloseFile(s, n)

\* CreateSubProcess returns, and a subprocess runs on until its function ends
\* and exit(0) with it; nothing makes the main program end.
Fairness ==
    \A s \in Subs :
      /\ WF_vars(MainCloses(s)) /\ WF_vars(SubCloses(s)) /\ WF_vars(RecvFd(s))
      /\ WF_vars(Runs(s, "done") /\ Exit(s))

Spec == Init /\ [][Next]_vars

FairSpec == Spec /\ Fairness
-----------------------------------------------------------------------------
(***************************************************************************)
(* Properties.                                                             *)
(***************************************************************************)
IsTable(t) ==
    /\ DOMAIN t \subseteq Fds
    /\ t \in [DOMAIN t -> Files \cup Ends \cup {Null}]

TypeOK ==
    /\ DOMAIN fds = Procs
    /\ \A p \in Procs : IsTable(fds[p])
    /\ phase \in [Procs -> {"none", "forked", "run", "daemon", "done", "ended"}]
    /\ pipes \in [Subs -> [{0, 1} -> Fds \cup {-1}]]
    /\ chan \in [Subs -> Seq(Files)]
    /\ last \in [Subs -> Fds \cup {-1}]
    /\ calls \in 0 .. MaxSends
    /\ sent \in [Subs -> Seq(Files)]
    /\ got \in [Subs -> Seq(Files)]
    /\ std \in [Subs -> BOOLEAN]
    /\ closed \subseteq Subs

\* While no CloseFd has freed a number that its object still holds, what a
\* subprocess has received, followed by what is on the way to it, is what
\* SendFd of its own object sent, in that order (SendFd, RecvFd: one
\* descriptor with each message).
OwnFilesInOrder ==
    closed = {} => \A s \in Subs :
        phase[s] \in {"run", "daemon"} => sent[s] = got[s] \o chan[s]

\* The 0 that ends a subprocess's loop means the end: its main process has
\* ended or closed the socket, and every file that was sent has arrived.
\* Otherwise it was started without one of 0, 1 and 2, so that a file could get
\* number 0, or its table is full (RecvFd returns the 0 it put in cmsgbuf).
ZeroIsEnd ==
    \A s \in Subs :
      (/\ Runs(s, "done") /\ last[s] = 0
       /\ std[s] /\ Free(fds[s]) # {} /\ closed \subseteq {s}) =>
         /\ Runs(Main, "ended") \/ s \in closed
         /\ closed = {} => got[s] = sent[s]

\* A subprocess started with 0, 1 and 2 open keeps its socket, also when it
\* becomes a daemon: its RecvFd never fails (SwitchToDaemon, RecvFd).
SockKept ==
    \A s \in Subs : (std[s] /\ phase[s] \in {"run", "daemon"}) => HasSock(s)

\* Only the subprocess has the end it receives from, and the main process until
\* it has closed it: no other subprocess inherits it.
OwnReader ==
    \A p \in Procs, s \in Subs :
        End(s, 0) \in Open(fds[p]) => p = s \/ (p = Main /\ Runs(Main, "forked"))

\* No two subprocesses keep each other waiting for the end of file, and none
\* itself, although each inherits the ends of those created before it.
NoMutualHold ==
    \A s, r \in Subs :
        ~ /\ {phase[s], phase[r]} \subseteq {"run", "daemon"}
          /\ End(s, 1) \in Open(fds[r]) /\ End(r, 1) \in Open(fds[s])

\* Every subprocess ends after the main process, also those whose pair a later
\* subprocess has inherited.
SubsEnd ==
    \A s \in Subs : Runs(Main, "ended") ~> phase[s] \in {"none", "ended"}
=============================================================================
