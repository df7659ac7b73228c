------------------------------ MODULE LoginDb -------------------------------
(***************************************************************************)
(* EboServer::OnLogin on the IO threads of the server, which all use the   *)
(* one MysqlClient db_ (its connected_ flag and MYSQL handle) and user_tab_*)
(* without a lock, after Init has created the table with the same client.  *)
(*                                                                         *)
(* libmysqlclient and the MySQL server are external: each library call is  *)
(* a step, mysql_real_query two (the query is sent, the header of its      *)
(* result is read), so that the calls of two threads interleave.           *)
(***************************************************************************)
EXTENDS Integers, Sequences, FiniteSets

CONSTANTS
    Threads,        \* the IO threads
    Users,          \* user names that a client may give
    RowsOf,         \* number of rows of the user table with that user_name
    NoUser,         \* no result
    MaxSessions,    \* bound: sessions opened with the MySQL server
    MaxOutages,     \* bound: times the MySQL server goes down
    MaxLogins       \* bound: logins on each thread

ASSUME RowsAssumption == RowsOf \in [Users -> Nat] /\ NoUser \notin Users

ASSUME BoundsAssumption ==
    MaxSessions \in Nat /\ MaxOutages \in Nat /\ MaxLogins \in Nat

VARIABLES
    booted,     \* how far EboServer::Init is
    connected,  \* MysqlClient::connected_
    handle,     \* MysqlClient::db_, the MYSQL structure
    up,         \* the MySQL server is running
    outages,    \* times it went down
    live,       \* the sessions it keeps open
    opened,     \* number of sessions opened so far
    wire,       \* of each session, the queries whose result is not read yet
    table,      \* the user table exists
    pc,         \* where in OnLogin each IO thread is
    args,       \* the arguments of the login it handles
    ret,        \* mysql_real_connect returned the handle
    status,     \* the "status" of the reply it is about to send
    logins,     \* number of logins each thread has answered
    crashed,    \* the process has died of a NULL result
    overlapped, \* history: two logins have been in the database code at once
    lost,       \* history: the session of db_ was lost after Init
    outage      \* history: the server was down at some time of this login

client  == <<connected, handle>>
server  == <<up, outages, live, opened, wire, table>>
history == <<overlapped, lost, outage>>
vars == <<booted, client, server, pc, args, ret, status, logins, crashed, history>>

Sessions == 1 .. MaxSessions

\* What mysql_init and memset leave: no session (vio 0), no error, no result.
Zeroed == [vio |-> 0, err |-> FALSE, status |-> "ready", reply |-> NoUser]

\* The URL's arguments: all there or not, the user, and a sign that was made
\* with the password of that user's row or not.
Logins == [complete : BOOLEAN, user : Users, signed : BOOLEAN]

\* Between the first use of db_ in OnLogin and the last.
DbSection == {"connect", "init", "real", "check", "fail", "set", "query", "header", "store"}

InDb(t) == pc[t] \in DbSection

\* The status for a result of the rows of user u, for a login with args a.
Verified(a, u) ==
    IF RowsOf[u] # 1 THEN "-2" ELSE IF a.signed /\ a.user = u THEN "0" ELSE "-3"

-----------------------------------------------------------------------------
Init ==
    /\ booted = "connect"
    /\ connected = FALSE
    /\ handle = Zeroed
    /\ up \in BOOLEAN
    /\ outages = 0
    /\ live = {}
    /\ opened = 0
    /\ wire = [s \in Sessions |-> <<>>]
    /\ table \in BOOLEAN
    /\ pc = [t \in Threads |-> "idle"]
    /\ args \in [Threads -> [complete : {FALSE}, user : Users, signed : {FALSE}]]
    /\ ret = [t \in Threads |-> FALSE]
    /\ status = [t \in Threads |-> "none"]
    /\ logins = [t \in Threads |-> 0]
    /\ crashed = FALSE
    /\ overlapped = FALSE
    /\ lost = FALSE
    /\ outage = [t \in Threads |-> FALSE]

\* The handle with another error flag, state and result.
Holding(e, s, r) == [vio |-> handle.vio, err |-> e, status |-> s, reply |-> r]

WithError(e) == Holding(e, handle.status, handle.reply)

\* mysql_real_connect: a handle that has a session is refused; otherwise a
\* new session, or an error while the server is down.
CanOpen == handle.vio = 0 /\ up

NewSession == [vio |-> opened + 1, err |-> FALSE, status |-> "ready", reply |-> NoUser]

(***************************************************************************)
(* EboServer::Init, alone on the main thread: Connect, Create, Close, each *)
(* result ignored.                                                         *)
(***************************************************************************)
InitConnect ==
    /\ booted = "connect"
    /\ \/ /\ up /\ opened < MaxSessions
          /\ handle' = NewSession
          /\ connected' = TRUE
          /\ live' = live \cup {opened + 1}
          /\ opened' = opened + 1
       \/ /\ ~up
          /\ handle' = Zeroed
          /\ UNCHANGED <<connected, live, opened>>
    /\ booted' = "create"
    /\ UNCHANGED <<up, outages, wire, table, pc, args, ret, status, logins, crashed, history>>

InitCreate ==
    /\ booted = "create"
    /\ table' = (table \/ (connected /\ handle.vio \in live))
    /\ booted' = "close"
    /\ UNCHANGED <<client, up, outages, live, opened, wire, pc, args, ret, status, logins, crashed, history>>

InitClose ==
    /\ booted = "close"
    /\ \/ /\ connected
          /\ live' = live \ {handle.vio}
          /\ handle' = Zeroed
          /\ connected' = FALSE
       \/ ~connected /\ UNCHANGED <<live, handle, connected>>
    /\ booted' = "running"
    /\ UNCHANGED <<up, outages, opened, wire, table, pc, args, ret, status, logins, crashed, history>>

(***************************************************************************)
(* OnLogin.  An argument that is missing throws and gives "-1"; otherwise  *)
(* Connect, whose result is ignored, then the query.                       *)
(***************************************************************************)
OnLogin(t) ==
    /\ booted = "running" /\ ~crashed
    /\ pc[t] = "idle"
    /\ logins[t] < MaxLogins
    /\ \E a \in Logins :
         /\ args' = [args EXCEPT ![t] = a]
         /\ pc' = [pc EXCEPT ![t] = IF a.complete THEN "connect" ELSE "respond"]
         /\ status' = [status EXCEPT ![t] = IF a.complete THEN "none" ELSE "-1"]
         /\ overlapped' = (overlapped \/ (a.complete /\ \E u \in Threads : InDb(u)))
    /\ outage' = [outage EXCEPT ![t] = ~up]
    /\ UNCHANGED <<booted, client, server, ret, logins, crashed, lost>>

\* Mutant: Connect does not ask IsConnected().
ConnectAlways(t) ==
    /\ pc[t] = "connect" /\ ~crashed
    /\ pc' = [pc EXCEPT ![t] = "init"]
    /\ UNCHANGED <<booted, client, server, args, ret, status, logins, crashed, history>>

\* Connect: "if (IsConnected())" returns false.
Connect(t) ==
    /\ pc[t] = "connect" /\ ~crashed
    /\ pc' = [pc EXCEPT ![t] = IF connected THEN "query" ELSE "init"]
    /\ UNCHANGED <<booted, client, server, args, ret, status, logins, crashed, history>>

\* Mutant: connected_ is set before the connection is made.
ConnectInitEarly(t) ==
    /\ pc[t] = "init" /\ ~crashed
    /\ handle' = Zeroed
    /\ connected' = TRUE
    /\ pc' = [pc EXCEPT ![t] = "real"]
    /\ UNCHANGED <<booted, server, args, ret, status, logins, crashed, history>>

\* mysql_init(&db_) forgets whatever the handle held.
ConnectInit(t) ==
    /\ pc[t] = "init" /\ ~crashed
    /\ handle' = Zeroed
    /\ pc' = [pc EXCEPT ![t] = "real"]
    /\ UNCHANGED <<booted, connected, server, args, ret, status, logins, crashed, history>>

RealConnect(t) ==
    /\ pc[t] = "real" /\ ~crashed
    /\ \/ /\ CanOpen /\ opened < MaxSessions
          /\ handle' = NewSession
          /\ live' = live \cup {opened + 1}
          /\ opened' = opened + 1
          /\ ret' = [ret EXCEPT ![t] = TRUE]
       \/ /\ ~CanOpen
          /\ handle' = WithError(TRUE)
          /\ ret' = [ret EXCEPT ![t] = FALSE]
          /\ UNCHANGED <<live, opened>>
    /\ pc' = [pc EXCEPT ![t] = "check"]
    /\ UNCHANGED <<booted, connected, up, outages, wire, table, args, status, logins, crashed, history>>

\* Mutant: Connect tries again until it succeeds.
ConnectCheckRetry(t) ==
    /\ pc[t] = "check" /\ ~crashed
    /\ pc' = [pc EXCEPT ![t] = IF ~ret[t] \/ handle.err THEN "init" ELSE "set"]
    /\ UNCHANGED <<booted, client, server, args, ret, status, logins, crashed, history>>

\* "ret == nullptr || mysql_errno(&db_) != 0"
ConnectCheck(t) ==
    /\ pc[t] = "check" /\ ~crashed
    /\ pc' = [pc EXCEPT ![t] = IF ~ret[t] \/ handle.err THEN "fail" ELSE "set"]
    /\ UNCHANGED <<booted, client, server, args, ret, status, logins, crashed, history>>

\* mysql_close(&db_) and memset.
ConnectFail(t) ==
    /\ pc[t] = "fail" /\ ~crashed
    /\ live' = live \ {handle.vio}
    /\ handle' = Zeroed
    /\ pc' = [pc EXCEPT ![t] = "query"]
    /\ UNCHANGED <<booted, connected, up, outages, opened, wire, table, args, ret, status, logins, crashed, history>>

ConnectSet(t) ==
    /\ pc[t] = "set" /\ ~crashed
    /\ connected' = TRUE
    /\ pc' = [pc EXCEPT ![t] = "query"]
    /\ UNCHANGED <<booted, handle, server, args, ret, status, logins, crashed, history>>

\* Mutants: Exec goes on to the result when ExecCommand has failed; the Result
\* is one of the client's, which has the rows of an earlier login.
QueryGoesOn(t, h) ==
    /\ handle' = h
    /\ status' = [status EXCEPT ![t] = "-2"]
    /\ pc' = [pc EXCEPT ![t] = "store"]

QueryFailsStale(t, h) ==
    /\ handle' = h
    /\ \E u \in Users : status' = [status EXCEPT ![t] = Verified(args[t], u)]
    /\ pc' = [pc EXCEPT ![t] = "respond"]

\* A failed query leaves the result empty: result.size() != 1.
QueryFails(t, h) ==
    /\ handle' = h
    /\ status' = [status EXCEPT ![t] = "-2"]
    /\ pc' = [pc EXCEPT ![t] = "respond"]

Attached == handle.vio # 0 /\ handle.vio \in live

\* The handle after an error; a session found dead is given up.
Failed ==
    [vio |-> IF Attached THEN handle.vio ELSE 0, err |-> TRUE,
     status |-> handle.status, reply |-> handle.reply]

\* ExecCommand: IsConnected(), then mysql_real_query sends the query.
Query(t) ==
    /\ pc[t] = "query" /\ ~crashed
    /\ \/ /\ ~connected
          /\ QueryFails(t, handle)
          /\ UNCHANGED wire
       \/ /\ connected
          /\ ~Attached \/ handle.status # "ready"   \* gone, or out of sync
          /\ QueryFails(t, Failed)
          /\ UNCHANGED wire
       \/ /\ connected /\ Attached /\ handle.status = "ready"
          /\ wire' = [wire EXCEPT ![handle.vio] = Append(@, args[t].user)]
          /\ handle' = WithError(FALSE)
          /\ pc' = [pc EXCEPT ![t] = "header"]
          /\ UNCHANGED status
    /\ UNCHANGED <<booted, connected, up, outages, live, opened, table, args, ret, logins, crashed, history>>

(***************************************************************************)
(* mysql_real_query reads the header of a result, whosever it is.  In the  *)
(* middle of another thread's result it reads packets out of order, which  *)
(* may also spoil that result.  With nothing sent on the session it waits. *)
(***************************************************************************)
ReadHeader(t) ==
    /\ pc[t] = "header" /\ ~crashed
    /\ \/ /\ ~Attached
          /\ QueryFails(t, Failed)
          /\ UNCHANGED wire
       \/ /\ Attached /\ wire[handle.vio] # <<>>
          /\ wire' = [wire EXCEPT ![handle.vio] = Tail(@)]
          /\ \/ /\ handle.status # "ready"
                /\ \E r \in {handle.reply, NoUser} :
                     QueryFails(t, Holding(TRUE, handle.status, r))
             \/ /\ handle.status = "ready" /\ ~table
                /\ QueryFails(t, WithError(TRUE))
             \/ /\ handle.status = "ready" /\ table
                /\ handle' = Holding(handle.err, "result", Head(wire[handle.vio]))
                /\ pc' = [pc EXCEPT ![t] = "store"]
                /\ UNCHANGED status
    /\ UNCHANGED <<booted, connected, up, outages, live, opened, table, args, ret, logins, crashed, history>>

HasResult == handle.status = "result" /\ handle.vio # 0 /\ handle.reply # NoUser

\* mysql_store_result, and OnLogin's check of the row it gives.
StoreResult(t) ==
    /\ pc[t] = "store" /\ ~crashed
    /\ HasResult
    /\ handle' = Holding(handle.err, "ready", NoUser)
    /\ status' = [status EXCEPT ![t] = Verified(args[t], handle.reply)]
    /\ pc' = [pc EXCEPT ![t] = "respond"]
    /\ UNCHANGED <<booted, connected, server, args, ret, logins, crashed, history>>

\* No result: mysql_store_result gives NULL and mysql_num_fields reads it.
StoreNull(t) ==
    /\ pc[t] = "store" /\ ~crashed
    /\ ~HasResult \/ ~Attached
    /\ crashed' = TRUE
    /\ UNCHANGED <<booted, client, server, pc, args, ret, status, logins, history>>

Response(t) ==
    /\ pc[t] = "respond" /\ ~crashed
    /\ pc' = [pc EXCEPT ![t] = "idle"]
    /\ logins' = [logins EXCEPT ![t] = @ + 1]
    /\ UNCHANGED <<booted, client, server, args, ret, status, crashed, history>>

Step(t) ==
    \/ Connect(t) \/ ConnectInit(t) \/ RealConnect(t) \/ ConnectCheck(t)
    \/ ConnectFail(t) \/ ConnectSet(t) \/ Query(t) \/ ReadHeader(t)
    \/ StoreResult(t) \/ StoreNull(t) \/ Response(t)

-----------------------------------------------------------------------------
\* The MySQL server stops, and all its sessions with it; it starts again.
ServerDown ==
    /\ up /\ outages < MaxOutages
    /\ up' = FALSE
    /\ outages' = outages + 1
    /\ live' = {}
    /\ wire' = [s \in Sessions |-> <<>>]
    /\ outage' = [t \in Threads |-> TRUE]
    /\ lost' = (lost \/ (booted = "running" /\ Attached))
    /\ UNCHANGED <<booted, client, opened, table, pc, args, ret, status, logins, crashed, overlapped>>

ServerUp ==
    /\ ~up
    /\ up' = TRUE
    /\ UNCHANGED <<booted, client, outages, live, opened, wire, table, pc, args, ret, status, logins, crashed, history>>

Next ==
    \/ InitConnect \/ InitCreate \/ InitClose
    \/ \E t \in Threads : OnLogin(t) \/ Step(t)
    \/ ServerDown \/ ServerUp

\* A thread inside OnLogin runs on, and the main thread runs through Init.
Fairness ==
    /\ WF_vars(InitConnect \/ InitCreate \/ InitClose)
    /\ \A t \in Threads : WF_vars(Step(t))

Spec == Init /\ [][Next]_vars

FairSpec == Spec /\ Fairness
-----------------------------------------------------------------------------
Handles ==
    [vio : Nat, err : BOOLEAN, status : {"ready", "result"}, reply : Users \cup {NoUser}]

\* Type invariant of the client, the MySQL server and the IO threads.
TypeOK ==
    /\ booted \in {"connect", "create", "close", "running"}
    /\ connected \in BOOLEAN
    /\ handle \in Handles
    /\ up \in BOOLEAN
    /\ outages \in Nat
    /\ live \in SUBSET Sessions
    /\ opened \in Nat
    /\ wire \in [Sessions -> Seq(Users)]
    /\ table \in BOOLEAN
    /\ pc \in [Threads -> DbSection \cup {"idle", "respond"}]
    /\ args \in [Threads -> Logins]
    /\ ret \in [Threads -> BOOLEAN]
    /\ status \in [Threads -> {"none", "0", "-1", "-2", "-3"}]
    /\ logins \in [Threads -> Nat]
    /\ crashed \in BOOLEAN
    /\ overlapped \in BOOLEAN
    /\ lost \in BOOLEAN
    /\ outage \in [Threads -> BOOLEAN]

\* The status a login should get: of its arguments and of its user's rows.
ExactStatus(a) == IF a.complete THEN Verified(a, a.user) ELSE "-1"

\* As long as no two logins have been in the unlocked client at once and its
\* session was not lost, a login during which the server is up gets the
\* status of its own arguments and row, also after logins that failed because
\* the server was down: a failed Connect leaves the client able to connect.
ExactWithoutOverlap ==
    \A t \in Threads :
        pc[t] = "respond" /\ ~overlapped /\ ~lost /\ ~outage[t] /\ table
            => status[t] = ExactStatus(args[t])

\* Whatever fails, a session that was lost and is never replaced included, a
\* login that nobody overlapped gets the status of its own arguments and row
\* or "-2": a failure accepts nobody, and is not told from a user without row.
FailsSafe ==
    \A t \in Threads :
        pc[t] = "respond" /\ ~overlapped
            => \/ status[t] = ExactStatus(args[t])
               \/ args[t].complete /\ status[t] = "-2"

\* The process dies of a NULL result only after two logins overlapped or the
\* session was lost under a login; a query that fails does not kill it.
NoCrashAlone == crashed => overlapped \/ lost

\* Until two logins overlap, the server keeps no session open but the one of
\* db_, though Connect is called by every login and Close by none.
NoLeakAlone == ~overlapped => live \subseteq {handle.vio}

\* Every login leaves the database code, whatever the server does, unless
\* two overlapped (a thread may then wait for a result another one has read)
\* or the process died.
LoginsAnswered ==
    \A t \in Threads : InDb(t) ~> (~InDb(t) \/ overlapped \/ crashed)

\* What the comment in EboServer::Init says: the user table is created if it
\* did not exist, so it is there when the server runs.
TableCreated == booted = "running" => table
-----------------------------------------------------------------------------
(***************************************************************************)
(* The inductive invariant behind ExactWithoutOverlap, FailsSafe,          *)
(* NoCrashAlone and NoLeakAlone: as long as no two logins overlapped, the client is in the  *)
(* state that the only thread in the database code left it in.             *)
(***************************************************************************)
BootInv ==
    /\ booted # "running" => \A t \in Threads : pc[t] = "idle"
    /\ booted = "connect" => ~connected

AloneInv == ~overlapped => \A t, u \in Threads : InDb(t) /\ InDb(u) => t = u

LoginInv ==
    \A t \in Threads : /\ InDb(t) => args[t].complete
                       /\ pc[t] # "idle" /\ ~outage[t] => up

\* connected_ and the handle, step by step of Connect.
ClientInv ==
    ~overlapped =>
        /\ live \subseteq {handle.vio}
        /\ ~connected /\ (\A t \in Threads : pc[t] \notin {"check", "fail", "set"})
             => handle = Zeroed /\ live = {}
        /\ \A t \in Threads :
             /\ pc[t] \in {"init", "real", "check", "fail", "set"} => ~connected
             /\ pc[t] \in {"header", "store"} => connected
             /\ pc[t] = "fail" \/ (pc[t] = "check" /\ ~ret[t]) =>
                  handle.vio = 0 /\ live = {}
             /\ pc[t] = "set" \/ (pc[t] = "check" /\ ret[t]) => ~handle.err

\* What is left of queries: of the thread that reads it, as is its result.
ResultInv ==
    ~overlapped =>
        /\ \A s \in Sessions : wire[s] # <<>> =>
             /\ s = handle.vio /\ s \in live
             /\ \E t \in Threads : pc[t] = "header"
        /\ handle.status = "result" => \E t \in Threads : pc[t] = "store"
        /\ \A t \in Threads :
             /\ pc[t] = "header" /\ Attached => wire[handle.vio] = <<args[t].user>>
             /\ pc[t] = "store" =>
                  handle.status = "result" /\ handle.reply = args[t].user

\* The session, as long as it was not lost.
SessionInv ==
    ~overlapped /\ ~lost /\ booted = "running" =>
        /\ connected => Attached
        /\ \A t \in Threads :
             /\ pc[t] = "set" \/ (pc[t] = "check" /\ ret[t]) => Attached
             /\ pc[t] = "fail" \/ (pc[t] = "check" /\ ~ret[t])
                  \/ (pc[t] = "query" /\ ~connected) => outage[t]

IInv ==
    /\ TypeOK
    /\ BootInv
    /\ AloneInv
    /\ LoginInv
    /\ ClientInv
    /\ ResultInv
    /\ SessionInv
    /\ ExactWithoutOverlap
    /\ FailsSafe
    /\ NoCrashAlone
=============================================================================
