------------------------------ MODULE EboServer ------------------------------
(***************************************************************************)
(* The whole server: the connections of HttpConnection, whose IO threads   *)
(* run the logins of LoginDb.  Dispath calls OnLogin on the thread itself, *)
(* so that a thread that waits for the database waits with its OnMessage,  *)
(* and a process that dies of a login dies with all connections.           *)
(***************************************************************************)
EXTENDS Integers, Sequences

CONSTANTS
    Conns, Threads, ThreadOf, Scripts, None, NoContext, \* of HttpConnection
    Users, RowsOf, NoUser, MaxSessions, MaxOutages, MaxLogins \* of LoginDb

VARIABLES
    script, sent, avail, taken, msg, cur, at, out, split, pipelined,
    booted, connected, handle, up, outages, live, opened, wire, table,
    pc, args, ret, status, logins, crashed, overlapped, lost, outage,
    replied     \* history: of each reply, the "status" and if it can be relied on

http == <<script, sent, avail, taken, msg, cur, at, out, split, pipelined>>

db == <<booted, connected, handle, up, outages, live, opened, wire, table,
        pc, args, ret, status, logins, crashed, overlapped, lost, outage>>

vars == <<http, db, replied>>

\* at: where in OnMessage a thread is.  pc: where in OnLogin.
Http == INSTANCE HttpConnection WITH pc <- at

Db == INSTANCE LoginDb

ASSUME ConnsAssumption == ThreadOf \in [Conns -> Threads] /\ None \notin Conns

ASSUME ContextAssumption == NoContext \notin Http!Messages

ASSUME UsersAssumption == RowsOf \in [Users -> Nat] /\ NoUser \notin Users

ASSUME LimitsAssumption ==
    MaxSessions \in Nat /\ MaxOutages \in Nat /\ MaxLogins \in Nat

\* A script also has the arguments in each request's URL.
ASSUME ScriptsAssumption ==
    \A s \in Scripts :
        /\ Http!WellFormed(s)
        /\ s.args \in [DOMAIN s.req -> Db!Logins]
-----------------------------------------------------------------------------
Init ==
    /\ Http!Init
    /\ Db!Init
    /\ replied = [c \in Conns |-> <<>>]

Running == booted = "running" /\ ~crashed

\* The main thread constructs the server, then it listens.
Boot ==
    /\ Db!InitConnect \/ Db!InitCreate \/ Db!InitClose
    /\ UNCHANGED <<http, replied>>

ClientSend(c) ==
    /\ Running
    /\ Http!ClientSend(c)
    /\ UNCHANGED <<db, replied>>

OnMessage(t, c) ==
    /\ Running
    /\ Http!OnMessage(t, c)
    /\ UNCHANGED <<db, replied>>

Parse(t) ==
    /\ ~crashed
    /\ Http!Parse(t)
    /\ UNCHANGED <<db, replied>>

Return(t) ==
    /\ ~crashed
    /\ Http!Return(t)
    /\ UNCHANGED <<db, replied>>

\* The request that the thread dispatches is a GET of the login path.
AtLogin(t) ==
    /\ at[t] = "dispatch"
    /\ msg[cur[t]].get /\ Http!IsLogin(cur[t], msg[cur[t]].url)

\* Mutant: the Url is one for all threads.
UrlArgsShared(c) == UNION {{script[d].args[r] : r \in DOMAIN script[d].args} : d \in Conns}

\* What Url::At finds in url_: the arguments of the request it is the URL of.
\* A URL cut by the end of a read may lack some, or have them cut.
UrlArgs(c) ==
    IF \E r \in DOMAIN script[c].req : msg[c].url = Http!FullUrl(c, r)
    THEN {script[c].args[r] : r \in
            {q \in DOMAIN script[c].req : msg[c].url = Http!FullUrl(c, q)}}
    ELSE Db!Logins

OnLogin(t) ==
    /\ AtLogin(t)
    /\ Db!OnLogin(t)
    /\ args'[t] \in UrlArgs(cur[t])
    /\ UNCHANGED <<http, replied>>

\* A step of OnLogin between its beginning and its Response.
UseDb(t) ==
    /\ \/ Db!Connect(t) \/ Db!ConnectInit(t) \/ Db!RealConnect(t)
       \/ Db!ConnectCheck(t) \/ Db!ConnectFail(t) \/ Db!ConnectSet(t)
       \/ Db!Query(t) \/ Db!ReadHeader(t) \/ Db!StoreResult(t) \/ Db!StoreNull(t)
    /\ UNCHANGED <<http, replied>>

Replied(c, s, sure) ==
    replied' = [replied EXCEPT ![c] = Append(@, [status |-> s, sure |-> sure])]

\* The reply has the status of its own login: none was in the database with it,
\* whose server was up and had the table and the session.
Sure(t) == ~overlapped /\ ~lost /\ ~outage[t] /\ table

\* The Response of a login, with which Dispath returns.
Respond(t) ==
    /\ Db!Response(t)
    /\ Http!Dispath(t)
    /\ Replied(cur[t], status[t], Sure(t))

\* "Wrong url"
NotFound(t) ==
    /\ ~crashed
    /\ ~AtLogin(t)
    /\ Http!Dispath(t)
    /\ Replied(cur[t], "none", TRUE)
    /\ UNCHANGED db

MySqlServer ==
    /\ Db!ServerDown \/ Db!ServerUp
    /\ UNCHANGED <<http, replied>>

Step(t) ==
    Parse(t) \/ Return(t) \/ OnLogin(t) \/ UseDb(t) \/ Respond(t) \/ NotFound(t)

Next ==
    \/ Boot \/ MySqlServer
    \/ \E c \in Conns : ClientSend(c)
    \/ \E t \in Threads : Step(t) \/ \E c \in Conns : OnMessage(t, c)

\* As in both: threads run on, ready connections are handled, Init runs through.
Fairness ==
    /\ WF_vars(Boot)
    /\ \A t \in Threads : WF_vars(Step(t))
    /\ \A c \in Conns : WF_vars(OnMessage(ThreadOf[c], c))

Spec == Init /\ [][Next]_vars

FairSpec == Spec /\ Fairness
-----------------------------------------------------------------------------
(***************************************************************************)
(* Properties.                                                             *)
(***************************************************************************)
Notes == [status : {"none", "0", "-1", "-2", "-3"}, sure : BOOLEAN]

\* Type invariant of both parts and of the history of replies.
TypeOK ==
    /\ Http!TypeOK
    /\ Db!TypeOK
    /\ replied \in [Conns -> Seq(Notes)]

\* The "status" of the reply to request r, "none" of one that is not a login.
OwnStatus(c, r) ==
    IF Http!StatusOfRequest(c, r) = 200 THEN Db!ExactStatus(script[c].args[r]) ELSE "none"

\* From the socket to the database and back: with a client that waits for its
\* replies, the i-th reply has the status of the arguments in the i-th request
\* and of that user's rows, whatever the other connections of its thread and
\* the outages before did, unless its URL came in pieces.
OwnLoginAnswered ==
    \A c \in Conns : ~pipelined[c] => \A i \in DOMAIN replied[c] :
        replied[c][i].sure /\ i \notin split[c] =>
            replied[c][i].status = OwnStatus(c, i)

\* The server does to each connection only what HttpConnection says, and to the
\* database client only what LoginDb says: a reply is sent when its login is
\* through, and each Dispath sends one.
ImplementsParts == Http!Spec /\ Db!Spec

\* A waiting client is served, also while the MySQL server is down and while
\* threads of other connections never return from the database, unless a
\* connection of its own thread sent a refused byte, its own thread is in the
\* database after two logins overlapped, or the process died.
ServedUnlessHeld ==
    \A c \in Conns :
        Http!Waiting(c) ~>
            \/ ~Http!Waiting(c)
            \/ Http!Stuck(ThreadOf[c])
            \/ overlapped /\ Db!InDb(ThreadOf[c])
            \/ crashed
-----------------------------------------------------------------------------
(***************************************************************************)
(* The inductive invariant behind OwnLoginAnswered, which joins what holds *)
(* of the connections and of the database client.                          *)
(***************************************************************************)
\* Each reply is noted once.
RepliedInv ==
    /\ replied \in [Conns -> Seq(Notes)]
    /\ \A c \in Conns : Len(replied[c]) = Len(out[c])

\* No other thread touches the connection that a thread is in OnMessage of.
OwnConnInv ==
    \A t \in Threads : at[t] # "idle" => cur[t] \in Conns /\ ThreadOf[cur[t]] = t

\* A thread inside OnLogin still dispatches the request it has the arguments of.
ArgsInv ==
    \A t \in Threads : pc[t] # "idle" => AtLogin(t) /\ args[t] \in UrlArgs(cur[t])

IInv ==
    /\ RepliedInv
    /\ OwnConnInv
    /\ ArgsInv
    /\ OwnLoginAnswered
=============================================================================
