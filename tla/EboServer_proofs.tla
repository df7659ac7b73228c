-------------------------- MODULE EboServer_proofs --------------------------
(***************************************************************************)
(* Proofs about the composed server, for every value of the constants.  It *)
(* implements its two parts: each action of EboServer is a step of         *)
(* HttpConnection or a stutter of it, and likewise of LoginDb.  What is    *)
(* proved of the parts therefore holds in it, and the two together give    *)
(* what a client sees of its logins.                                       *)
(***************************************************************************)
EXTENDS EboServer, TLAPS

\* The theorems about the parts.  The prover takes an operator of HttpP and the
\* one of Http for two operators; the lemmas Same... say that they are the same.
HttpP == INSTANCE HttpConnection_proofs WITH pc <- at

DbP == INSTANCE LoginDb_proofs

\* The variables of a part are unchanged when the tuple of EboServer is.
LEMMA HttpStutter == UNCHANGED http => UNCHANGED Http!vars
BY DEF http, Http!vars

LEMMA DbStutter == UNCHANGED db => UNCHANGED Db!vars
BY DEF db, Db!vars, Db!client, Db!server, Db!history

\* What each action of the server does to the connections.
LEMMA HttpStep == ASSUME [Next]_vars PROVE [Http!Next]_(Http!vars)
<1>1. CASE Boot
  BY <1>1, HttpStutter DEF Boot
<1>2. CASE MySqlServer
  BY <1>2, HttpStutter DEF MySqlServer
<1>3. ASSUME NEW c \in Conns, ClientSend(c)
      PROVE  Http!Next
  BY <1>3 DEF ClientSend, Http!Next
<1>4. ASSUME NEW t \in Threads, NEW c \in Conns, OnMessage(t, c)
      PROVE  Http!Next
  BY <1>4 DEF OnMessage, Http!Next
<1>5. ASSUME NEW t \in Threads, Step(t)
      PROVE  [Http!Next]_(Http!vars)
  <2>1. CASE Parse(t)
    BY <2>1 DEF Parse, Http!Next
  <2>2. CASE Return(t)
    BY <2>2 DEF Return, Http!Next
  <2>3. CASE OnLogin(t)
    BY <2>3, HttpStutter DEF OnLogin
  <2>4. CASE UseDb(t)
    BY <2>4, HttpStutter DEF UseDb
  <2>5. CASE Respond(t)
    BY <2>5 DEF Respond, Http!Next
  <2>6. CASE NotFound(t)
    BY <2>6 DEF NotFound, Http!Next
  <2> QED BY <1>5, <2>1, <2>2, <2>3, <2>4, <2>5, <2>6 DEF Step
<1>6. CASE UNCHANGED vars
  BY <1>6, HttpStutter DEF vars
<1> QED BY <1>1, <1>2, <1>3, <1>4, <1>5, <1>6 DEF Next

\* What each action of the server does to the database client.
LEMMA DbStep == ASSUME [Next]_vars PROVE [Db!Next]_(Db!vars)
<1>1. CASE Boot
  BY <1>1 DEF Boot, Db!Next
<1>2. CASE MySqlServer
  BY <1>2 DEF MySqlServer, Db!Next
<1>3. ASSUME NEW c \in Conns, ClientSend(c)
      PROVE  UNCHANGED Db!vars
  BY <1>3, DbStutter DEF ClientSend
<1>4. ASSUME NEW t \in Threads, NEW c \in Conns, OnMessage(t, c)
      PROVE  UNCHANGED Db!vars
  BY <1>4, DbStutter DEF OnMessage
<1>5. ASSUME NEW t \in Threads, Step(t)
      PROVE  [Db!Next]_(Db!vars)
  <2>1. CASE Parse(t)
    BY <2>1, DbStutter DEF Parse
  <2>2. CASE Return(t)
    BY <2>2, DbStutter DEF Return
  <2>3. CASE OnLogin(t)
    BY <2>3 DEF OnLogin, Db!Next
  <2>4. CASE UseDb(t)
    BY <2>4 DEF UseDb, Db!Next, Db!Step
  <2>5. CASE Respond(t)
    BY <2>5 DEF Respond, Db!Next, Db!Step
  <2>6. CASE NotFound(t)
    BY <2>6, DbStutter DEF NotFound
  <2> QED BY <1>5, <2>1, <2>2, <2>3, <2>4, <2>5, <2>6 DEF Step
<1>6. CASE UNCHANGED vars
  BY <1>6, DbStutter DEF vars
<1> QED BY <1>1, <1>2, <1>3, <1>4, <1>5, <1>6 DEF Next

\* EboServer::OnMessage and OnLogin together do to each connection only what
\* HttpConnection says and to the database client only what LoginDb says: a
\* login's one reply is the one Dispath sends, after its Response.
THEOREM ServerImplementsParts == Spec => ImplementsParts
<1>1. Init => Http!Init /\ Db!Init
  BY DEF Init
<1> QED BY <1>1, HttpStep, DbStep, PTL DEF Spec, ImplementsParts, Http!Spec, Db!Spec
-----------------------------------------------------------------------------
\* What the theorems about the parts assume of the constants.
LEMMA HttpAssumed ==
    /\ ThreadOf \in [Conns -> Threads]
    /\ None \notin Conns
    /\ \A s \in Scripts : HttpP!WellFormed(s)
    /\ NoContext \notin HttpP!Messages
<1>1. \A s : HttpP!WellFormed(s) <=> Http!WellFormed(s)
  BY DEF HttpP!WellFormed, Http!WellFormed, HttpP!Attributes, Http!Attributes,
         HttpP!Tokens, Http!Tokens, HttpP!Kinds, Http!Kinds
<1>2. HttpP!Messages = Http!Messages
  BY DEF HttpP!Messages, Http!Messages
<1> QED BY <1>1, <1>2, ConnsAssumption, ContextAssumption, ScriptsAssumption

\* The actions of HttpConnection.
LEMMA SameClientSend == ASSUME NEW c PROVE HttpP!ClientSend(c) <=> Http!ClientSend(c)
BY DEF HttpP!ClientSend, Http!ClientSend, HttpP!Stream, Http!Stream,
       HttpP!ReqAt, Http!ReqAt

LEMMA SameOnMessage ==
    ASSUME NEW t, NEW c PROVE HttpP!OnMessage(t, c) <=> Http!OnMessage(t, c)
BY DEF HttpP!OnMessage, Http!OnMessage, HttpP!NewMessage, Http!NewMessage,
       HttpP!client, Http!client

LEMMA SameParse == ASSUME NEW t PROVE HttpP!Parse(t) <=> Http!Parse(t)
BY DEF HttpP!Parse, Http!Parse, HttpP!Parsed, Http!Parsed,
       HttpP!ParseResult, Http!ParseResult, HttpP!AfterParse,
       Http!AfterParse, HttpP!UrlAfter, Http!UrlAfter, HttpP!UrlReported,
       Http!UrlReported, HttpP!Completed, Http!Completed, HttpP!Consumed,
       Http!Consumed, HttpP!Refused, Http!Refused, HttpP!EndsUpgrade,
       Http!EndsUpgrade, HttpP!Readable, Http!Readable, HttpP!MaxOf,
       Http!MaxOf, HttpP!client, Http!client, HttpP!Stream, Http!Stream,
       HttpP!ReqAt, Http!ReqAt, HttpP!IsKind, Http!IsKind

LEMMA SameDispath == ASSUME NEW t PROVE HttpP!Dispath(t) <=> Http!Dispath(t)
BY DEF HttpP!Dispath, Http!Dispath, HttpP!StatusOf, Http!StatusOf,
       HttpP!IsLogin, Http!IsLogin, HttpP!FullUrl, Http!FullUrl,
       HttpP!client, Http!client, HttpP!Stream, Http!Stream, HttpP!ReqAt,
       Http!ReqAt, HttpP!IsKind, Http!IsKind

LEMMA SameReturn == ASSUME NEW t PROVE HttpP!Return(t) <=> Http!Return(t)
BY DEF HttpP!Return, Http!Return, HttpP!Readable, Http!Readable,
       HttpP!client, Http!client

LEMMA SameHttpSpec == HttpP!Spec <=> Http!Spec
<1>1. HttpP!Init <=> Http!Init
  BY DEF HttpP!Init, Http!Init
<1>2. HttpP!Next <=> Http!Next
  BY SameClientSend, SameOnMessage, SameParse, SameDispath, SameReturn
     DEF HttpP!Next, Http!Next
<1>3. [HttpP!Next]_(HttpP!vars) <=> [Http!Next]_(Http!vars)
  BY <1>2 DEF HttpP!vars, Http!vars
<1> QED BY <1>1, <1>3, PTL DEF HttpP!Spec, Http!Spec

\* The actions of LoginDb.
LEMMA SameInit ==
    /\ DbP!InitConnect <=> Db!InitConnect
    /\ DbP!InitCreate <=> Db!InitCreate
    /\ DbP!InitClose <=> Db!InitClose
BY DEF DbP!InitConnect, Db!InitConnect, DbP!InitCreate, Db!InitCreate,
       DbP!InitClose, Db!InitClose, DbP!NewSession, Db!NewSession,
       DbP!Zeroed, Db!Zeroed, DbP!client, Db!client, DbP!history, Db!history

LEMMA SameOnLogin == ASSUME NEW t PROVE DbP!OnLogin(t) <=> Db!OnLogin(t)
BY DEF DbP!OnLogin, Db!OnLogin, DbP!Logins, Db!Logins, DbP!InDb, Db!InDb,
       DbP!DbSection, Db!DbSection, DbP!client, Db!client, DbP!server,
       Db!server

LEMMA SameConnect ==
    ASSUME NEW t
    PROVE  /\ DbP!Connect(t) <=> Db!Connect(t)
           /\ DbP!ConnectInit(t) <=> Db!ConnectInit(t)
           /\ DbP!RealConnect(t) <=> Db!RealConnect(t)
           /\ DbP!ConnectCheck(t) <=> Db!ConnectCheck(t)
           /\ DbP!ConnectFail(t) <=> Db!ConnectFail(t)
           /\ DbP!ConnectSet(t) <=> Db!ConnectSet(t)
BY DEF DbP!Connect, Db!Connect, DbP!ConnectInit, Db!ConnectInit,
       DbP!RealConnect, Db!RealConnect, DbP!ConnectCheck, Db!ConnectCheck,
       DbP!ConnectFail, Db!ConnectFail, DbP!ConnectSet, Db!ConnectSet,
       DbP!CanOpen, Db!CanOpen, DbP!NewSession, Db!NewSession,
       DbP!WithError, Db!WithError, DbP!Holding, Db!Holding, DbP!Zeroed,
       Db!Zeroed, DbP!client, Db!client, DbP!server, Db!server, DbP!history,
       Db!history

LEMMA SameQuery ==
    ASSUME NEW t
    PROVE  /\ DbP!Query(t) <=> Db!Query(t)
           /\ DbP!ReadHeader(t) <=> Db!ReadHeader(t)
           /\ DbP!StoreResult(t) <=> Db!StoreResult(t)
           /\ DbP!StoreNull(t) <=> Db!StoreNull(t)
           /\ DbP!Response(t) <=> Db!Response(t)
BY DEF DbP!Query, Db!Query, DbP!ReadHeader, Db!ReadHeader, DbP!StoreResult,
       Db!StoreResult, DbP!StoreNull, Db!StoreNull, DbP!Response,
       Db!Response, DbP!QueryFails, Db!QueryFails, DbP!Attached,
       Db!Attached, DbP!Failed, Db!Failed, DbP!HasResult, Db!HasResult,
       DbP!Verified, Db!Verified, DbP!WithError, Db!WithError, DbP!Holding,
       Db!Holding, DbP!client, Db!client, DbP!server, Db!server,
       DbP!history, Db!history

LEMMA SameServer ==
    /\ DbP!ServerDown <=> Db!ServerDown
    /\ DbP!ServerUp <=> Db!ServerUp
BY DEF DbP!ServerDown, Db!ServerDown, DbP!ServerUp, Db!ServerUp,
       DbP!Attached, Db!Attached, DbP!Sessions, Db!Sessions, DbP!client,
       Db!client, DbP!history, Db!history

LEMMA SameDbSpec == DbP!Spec <=> Db!Spec
<1>1. DbP!Init <=> Db!Init
  BY DEF DbP!Init, Db!Init, DbP!Zeroed, Db!Zeroed, DbP!Sessions, Db!Sessions
<1>2. ASSUME NEW t PROVE DbP!Step(t) <=> Db!Step(t)
  BY SameConnect, SameQuery DEF DbP!Step, Db!Step
<1>3. DbP!Next <=> Db!Next
  BY <1>2, SameInit, SameOnLogin, SameServer DEF DbP!Next, Db!Next
<1>4. [DbP!Next]_(DbP!vars) <=> [Db!Next]_(Db!vars)
  BY <1>3 DEF DbP!vars, Db!vars, DbP!client, Db!client, DbP!server, Db!server,
              DbP!history, Db!history
<1> QED BY <1>1, <1>4, PTL DEF DbP!Spec, Db!Spec
-----------------------------------------------------------------------------
LEMMA SameHttpInvs ==
    /\ HttpP!TypeOK <=> Http!TypeOK
    /\ HttpP!SequentialClientAnswered <=> Http!SequentialClientAnswered
<1>1. HttpP!TypeOK <=> Http!TypeOK
  BY DEF HttpP!TypeOK, Http!TypeOK, HttpP!Messages, Http!Messages,
         HttpP!Replies, Http!Replies
<1>2. HttpP!SequentialClientAnswered <=> Http!SequentialClientAnswered
  BY DEF HttpP!SequentialClientAnswered, Http!SequentialClientAnswered,
         HttpP!FullUrl, Http!FullUrl, HttpP!StatusOfRequest, Http!StatusOfRequest,
         HttpP!IsKind, Http!IsKind, HttpP!ReqAt, Http!ReqAt, HttpP!Stream, Http!Stream
<1> QED BY <1>1, <1>2

LEMMA SameDbInvs ==
    /\ DbP!TypeOK <=> Db!TypeOK
    /\ DbP!ExactWithoutOverlap <=> Db!ExactWithoutOverlap
<1>1. DbP!TypeOK <=> Db!TypeOK
  BY DEF DbP!TypeOK, Db!TypeOK, DbP!Handles, Db!Handles, DbP!Sessions, Db!Sessions,
         DbP!DbSection, Db!DbSection, DbP!Logins, Db!Logins
<1>2. DbP!ExactWithoutOverlap <=> Db!ExactWithoutOverlap
  BY DEF DbP!ExactWithoutOverlap, Db!ExactWithoutOverlap, DbP!ExactStatus,
         Db!ExactStatus, DbP!Verified, Db!Verified
<1> QED BY <1>1, <1>2

\* What is proved of the parts and needed of them in the whole.
Parts ==
    /\ Http!TypeOK
    /\ Http!SequentialClientAnswered
    /\ Db!TypeOK
    /\ Db!ExactWithoutOverlap

LEMMA PartsHold == Spec => []Parts
<1>1. HttpP!Spec => []HttpP!TypeOK
  BY HttpP!TypeCorrect, HttpAssumed
<1>2. HttpP!Spec => []HttpP!SequentialClientAnswered
  BY HttpP!WaitingClientAnswered, HttpAssumed
<1>3. DbP!Spec => []DbP!TypeOK
  BY DbP!LoginTypeCorrect, UsersAssumption, LimitsAssumption
<1>4. DbP!Spec => []DbP!ExactWithoutOverlap
  BY DbP!LoginsExact, UsersAssumption, LimitsAssumption
<1>5. Spec => HttpP!Spec /\ DbP!Spec
  BY ServerImplementsParts, SameHttpSpec, SameDbSpec DEF ImplementsParts
<1> QED BY <1>1, <1>2, <1>3, <1>4, <1>5, SameHttpInvs, SameDbInvs, PTL DEF Parts

-----------------------------------------------------------------------------
LEMMA InitIInv == Init => IInv
BY DEF Init, Http!Init, Db!Init, IInv, RepliedInv, OwnConnInv, ArgsInv,
       OwnLoginAnswered

\* The steps that send no reply leave all replies as they are.
NoReply == UNCHANGED <<script, out, replied>>

LEMMA NoReplyKeeps ==
    ASSUME IInv, NoReply,
           \A c \in Conns : ~pipelined'[c] => ~pipelined[c],
           \A c \in Conns : split[c] \subseteq split'[c]
    PROVE  RepliedInv' /\ OwnLoginAnswered'
<1>1. RepliedInv'
  BY DEF IInv, RepliedInv, NoReply
<1>2. OwnLoginAnswered'
  <2> SUFFICES ASSUME NEW c \in Conns, ~pipelined'[c], NEW i \in DOMAIN replied'[c],
                      replied'[c][i].sure, i \notin split'[c]
               PROVE  replied'[c][i].status = OwnStatus(c, i)'
    BY DEF OwnLoginAnswered
  <2>1. replied[c][i].status = OwnStatus(c, i)
    BY DEF IInv, OwnLoginAnswered, NoReply
  <2>2. OwnStatus(c, i)' = OwnStatus(c, i)
    BY DEF NoReply, OwnStatus, Http!StatusOfRequest, Db!ExactStatus, Db!Verified
  <2> QED BY <2>1, <2>2 DEF NoReply
<1> QED BY <1>1, <1>2

\* What a thread is in depends on its place, its connection's message and on
\* what the clients send, which no step changes.
LEMMA AtLoginKept ==
    ASSUME NEW t \in Threads, script' = script, AtLogin(t),
           at'[t] = at[t], cur'[t] = cur[t], msg'[cur[t]] = msg[cur[t]]
    PROVE  AtLogin(t)'
<1>1. \A c, r : Http!FullUrl(c, r)' = Http!FullUrl(c, r)
  BY DEF Http!FullUrl, Http!IsKind, Http!ReqAt, Http!Stream
<1>2. \A c, p : Http!ReqAt(c, p)' = Http!ReqAt(c, p)
  BY DEF Http!ReqAt, Http!Stream
<1>3. \A c, url : Http!IsLogin(c, url)' <=> Http!IsLogin(c, url)
  BY <1>1, <1>2 DEF Http!IsLogin
<1> QED
  BY <1>3 DEF AtLogin

\* What a thread dispatches is its own: a step of another thread, or of none,
\* that leaves its places and its connection alone leaves it its login.
LEMMA ArgsKept ==
    ASSUME IInv, NEW t \in Threads,
           at'[t] = at[t], cur'[t] = cur[t], pc'[t] # "idle" => pc[t] # "idle",
           args'[t] = args[t], script' = script,
           at[t] # "idle" => msg'[cur[t]] = msg[cur[t]]
    PROVE  pc'[t] # "idle" => AtLogin(t)' /\ args'[t] \in UrlArgs(cur[t])'
<1> SUFFICES ASSUME pc'[t] # "idle"
             PROVE  AtLogin(t)' /\ args'[t] \in UrlArgs(cur[t])'
  OBVIOUS
<1>1. AtLogin(t) /\ args[t] \in UrlArgs(cur[t]) /\ at[t] # "idle"
  BY DEF IInv, ArgsInv, AtLogin
<1>2. AtLogin(t)'
  BY <1>1, AtLoginKept
<1>3. UrlArgs(cur[t])' = UrlArgs(cur[t])
  <2>1. \A r : Http!FullUrl(cur[t], r)' = Http!FullUrl(cur[t], r)
    BY DEF Http!FullUrl, Http!IsKind, Http!ReqAt, Http!Stream
  <2>2. msg'[cur'[t]] = msg[cur[t]] /\ Db!Logins' = Db!Logins
    BY <1>1 DEF Db!Logins
  <2>3. \A r : (msg[cur[t]].url = Http!FullUrl(cur[t], r))' <=>
               (msg[cur[t]].url = Http!FullUrl(cur[t], r))
    BY <2>1, <2>2
  <2> QED BY <2>2, <2>3 DEF UrlArgs
<1> QED BY <1>1, <1>2, <1>3

\* The steps of client, listening socket, main thread and MySQL server.
LEMMA OutsideSteps ==
    ASSUME IInv, Parts,
           Boot \/ MySqlServer \/ \E c \in Conns : ClientSend(c)
    PROVE  IInv'
<1>1. UNCHANGED <<script, out, replied, at, cur, msg, split, pc, args>>
  <2>1. CASE Boot
    BY <2>1 DEF Boot, http, Db!InitConnect, Db!InitCreate, Db!InitClose
  <2>2. CASE MySqlServer
    BY <2>2 DEF MySqlServer, http, Db!ServerDown, Db!ServerUp
  <2>3. ASSUME NEW c \in Conns, ClientSend(c)
        PROVE  UNCHANGED <<script, out, replied, at, cur, msg, split, pc, args>>
    BY <2>3 DEF ClientSend, Http!ClientSend, db
  <2> QED BY <2>1, <2>2, <2>3
<1>2. \A c \in Conns : ~pipelined'[c] => ~pipelined[c]
  BY DEF Boot, MySqlServer, ClientSend, http, Http!ClientSend, Parts, Http!TypeOK
<1>3. RepliedInv' /\ OwnLoginAnswered'
  BY <1>1, <1>2, NoReplyKeeps DEF NoReply
<1>4. OwnConnInv'
  BY <1>1 DEF IInv, OwnConnInv
<1>5. ArgsInv'
  BY <1>1, ArgsKept DEF ArgsInv
<1> QED BY <1>3, <1>4, <1>5 DEF IInv

LEMMA OnMessageStep ==
    ASSUME IInv, Parts, NEW t \in Threads, NEW c \in Conns, OnMessage(t, c)
    PROVE  IInv'
<1>1. /\ at[t] = "idle" /\ ThreadOf[c] = t
      /\ at' = [at EXCEPT ![t] = "loop"] /\ cur' = [cur EXCEPT ![t] = c]
      /\ \A d \in Conns : d # c => msg'[d] = msg[d]
      /\ UNCHANGED <<script, out, replied, pipelined, split, pc, args>>
  BY DEF OnMessage, Http!OnMessage, Http!client, db, Parts, Http!TypeOK
<1>2. at \in [Threads -> {"idle", "loop", "dispatch"}] /\ cur \in [Threads -> Conns \cup {None}]
  BY DEF Parts, Http!TypeOK
<1>3. RepliedInv' /\ OwnLoginAnswered'
  BY <1>1, NoReplyKeeps DEF NoReply
<1>4. OwnConnInv'
  BY <1>1, <1>2 DEF IInv, OwnConnInv
<1>5. ASSUME NEW u \in Threads, pc'[u] # "idle"
      PROVE  AtLogin(u)' /\ args'[u] \in UrlArgs(cur[u])'
  <2>1. pc[u] # "idle" /\ at[u] # "idle" /\ u # t
    BY <1>1, <1>5 DEF IInv, ArgsInv, AtLogin
  <2>2. cur[u] \in Conns /\ cur[u] # c
    BY <1>1, <2>1 DEF IInv, OwnConnInv
  <2>3. at'[u] = at[u] /\ cur'[u] = cur[u] /\ msg'[cur[u]] = msg[cur[u]]
    BY <1>1, <1>2, <2>1, <2>2
  <2> QED BY <1>1, <1>5, <2>1, <2>3, ArgsKept
<1> QED BY <1>3, <1>4, <1>5 DEF IInv, ArgsInv

\* Parse and Return: the thread is not in OnLogin.
LEMMA LoopSteps ==
    ASSUME IInv, Parts, NEW t \in Threads, Parse(t) \/ Return(t)
    PROVE  IInv'
<1>1. at \in [Threads -> {"idle", "loop", "dispatch"}] /\ cur \in [Threads -> Conns \cup {None}]
  BY DEF Parts, Http!TypeOK
<1>2. /\ at[t] = "loop"
      /\ \A u \in Threads : u # t => at'[u] = at[u] /\ cur'[u] = cur[u]
      /\ at'[t] = "idle" \/ cur'[t] = cur[t]
      /\ \A d \in Conns : d # cur[t] => msg'[d] = msg[d]
      /\ UNCHANGED <<script, out, replied, pipelined, pc, args>>
  BY <1>1 DEF Parse, Return, Http!Parse, Http!Return, Http!client, db, Parts, Http!TypeOK
<1>3. \A c \in Conns : split[c] \subseteq split'[c]
  <2>1. split \in [Conns -> SUBSET Nat]
    BY DEF Parts, Http!TypeOK
  <2>2. CASE Parse(t)
    BY <2>1, <2>2 DEF Parse, Http!Parse
  <2>3. CASE Return(t)
    BY <2>3 DEF Return, Http!Return
  <2> QED BY <2>2, <2>3
<1>4. RepliedInv' /\ OwnLoginAnswered'
  BY <1>2, <1>3, NoReplyKeeps DEF NoReply
<1>5. OwnConnInv'
  BY <1>1, <1>2 DEF IInv, OwnConnInv
<1>6. ASSUME NEW u \in Threads, pc'[u] # "idle"
      PROVE  AtLogin(u)' /\ args'[u] \in UrlArgs(cur[u])'
  <2>1. pc[u] # "idle" /\ at[u] # "idle" /\ u # t
    BY <1>2, <1>6 DEF IInv, ArgsInv, AtLogin
  <2>2. cur[u] \in Conns /\ cur[u] # cur[t]
    BY <1>2, <2>1 DEF IInv, OwnConnInv
  <2>3. at'[u] = at[u] /\ cur'[u] = cur[u] /\ msg'[cur[u]] = msg[cur[u]]
    BY <1>2, <2>1, <2>2
  <2> QED BY <1>2, <1>6, <2>1, <2>3, ArgsKept
<1> QED BY <1>4, <1>5, <1>6 DEF IInv, ArgsInv

\* OnLogin before its Response.
LEMMA LoginSteps ==
    ASSUME IInv, Parts, NEW t \in Threads, OnLogin(t) \/ UseDb(t)
    PROVE  IInv'
<1>1. UNCHANGED <<script, out, replied, at, cur, msg, split, pipelined>>
  BY DEF OnLogin, UseDb, http
<1>2. RepliedInv' /\ OwnLoginAnswered'
  BY <1>1, NoReplyKeeps DEF NoReply
<1>3. OwnConnInv'
  BY <1>1 DEF IInv, OwnConnInv
<1>4. \A u \in Threads : u # t => pc'[u] = pc[u] /\ args'[u] = args[u]
  BY DEF OnLogin, UseDb, Db!OnLogin, Db!Connect, Db!ConnectInit, Db!RealConnect,
         Db!ConnectCheck, Db!ConnectFail, Db!ConnectSet, Db!Query, Db!QueryFails,
         Db!ReadHeader, Db!StoreResult, Db!StoreNull, Parts, Db!TypeOK
<1>5. CASE OnLogin(t)
  <2>1. ASSUME NEW u \in Threads, pc'[u] # "idle"
        PROVE  AtLogin(u)' /\ args'[u] \in UrlArgs(cur[u])'
    <3>1. CASE u # t
      BY <1>1, <1>4, <2>1, <3>1, ArgsKept
    <3>2. CASE u = t
      <4>1. AtLogin(t) /\ args'[t] \in UrlArgs(cur[t])
        BY <1>5 DEF OnLogin
      <4>2. AtLogin(t)'
        BY <1>1, <4>1, AtLoginKept
      <4>3. \A r : Http!FullUrl(cur[t], r)' = Http!FullUrl(cur[t], r)
        BY <1>1 DEF Http!FullUrl, Http!IsKind, Http!ReqAt, Http!Stream
      <4>4. Db!Logins' = Db!Logins
        BY DEF Db!Logins
      <4>5. \A r : (msg[cur[t]].url = Http!FullUrl(cur[t], r))' <=>
                   (msg[cur[t]].url = Http!FullUrl(cur[t], r))
        BY <1>1, <4>3
      <4>6. UrlArgs(cur[t])' = UrlArgs(cur[t])
        BY <1>1, <4>4, <4>5 DEF UrlArgs
      <4> QED BY <3>2, <4>1, <4>2, <4>6
    <3> QED BY <3>1, <3>2
  <2> QED BY <1>2, <1>3, <2>1 DEF IInv, ArgsInv
<1>6. CASE UseDb(t)
  <2>1. pc[t] # "idle" /\ args' = args
    BY <1>6 DEF UseDb, Db!Connect, Db!ConnectInit, Db!RealConnect, Db!ConnectCheck,
                Db!ConnectFail, Db!ConnectSet, Db!Query, Db!ReadHeader,
                Db!StoreResult, Db!StoreNull
  <2>2. ArgsInv'
    BY <1>1, <1>4, <2>1, ArgsKept DEF ArgsInv
  <2> QED BY <1>2, <1>3, <2>2 DEF IInv
<1> QED BY <1>5, <1>6

\* What a reply leaves of the invariant, but for what it says.
LEMMA ReplySteps ==
    ASSUME IInv, Parts, Parts', NEW t \in Threads, Respond(t) \/ NotFound(t)
    PROVE  RepliedInv' /\ OwnConnInv' /\ ArgsInv'
<1>1. at \in [Threads -> {"idle", "loop", "dispatch"}] /\ cur \in [Threads -> Conns \cup {None}]
  BY DEF Parts, Http!TypeOK
<1>2. /\ at[t] = "dispatch" /\ at' = [at EXCEPT ![t] = "loop"]
      /\ UNCHANGED <<script, cur, msg>>
  BY DEF Respond, NotFound, Http!Dispath, Http!client
<1>3. cur[t] \in Conns
  BY <1>2 DEF IInv, OwnConnInv
<1>4. PICK r, s :
            /\ s \in Notes
            /\ out' = [out EXCEPT ![cur[t]] = Append(@, r)]
            /\ replied' = [replied EXCEPT ![cur[t]] = Append(@, s)]
  <2>1. CASE Respond(t)
    <3>1. [status |-> status[t], sure |-> Sure(t)] \in Notes
      BY DEF Notes, Sure, Parts, Db!TypeOK
    <3> QED BY <2>1, <3>1 DEF Respond, Http!Dispath, Replied
  <2>2. CASE NotFound(t)
    <3>1. [status |-> "none", sure |-> TRUE] \in Notes
      BY DEF Notes
    <3> QED BY <2>2, <3>1 DEF NotFound, Http!Dispath, Replied
  <2> QED BY <2>1, <2>2
<1>5. RepliedInv'
  <2>1. replied' \in [Conns -> Seq(Notes)]
    BY <1>3, <1>4 DEF IInv, RepliedInv
  <2>2. ASSUME NEW c \in Conns PROVE Len(replied'[c]) = Len(out'[c])
    <3>1. Len(replied[c]) = Len(out[c]) /\ replied[c] \in Seq(Notes)
          /\ out[c] \in Seq(Http!Replies) /\ out \in [Conns -> Seq(Http!Replies)]
          /\ replied \in [Conns -> Seq(Notes)]
      BY DEF IInv, RepliedInv, Parts, Http!TypeOK
    <3>2. CASE c = cur[t]
      <4>1. out'[c] = Append(out[c], r) /\ replied'[c] = Append(replied[c], s)
        BY <1>3, <1>4, <3>1, <3>2
      <4>2. out' \in [Conns -> Seq(Http!Replies)]
        BY DEF Parts, Http!TypeOK, Http!Replies
      <4>3. Len(Append(replied[c], s)) = Len(replied[c]) + 1
        BY <3>1
      <4>4. Len(out'[c]) = Len(out[c]) + 1
        BY <3>1, <4>1, <4>2
      <4> QED BY <3>1, <4>1, <4>3, <4>4
    <3>3. CASE c # cur[t]
      BY <1>4, <3>1, <3>3
    <3> QED BY <3>2, <3>3
  <2> QED BY <2>1, <2>2 DEF RepliedInv
<1>6. OwnConnInv'
  BY <1>1, <1>2 DEF IInv, OwnConnInv
<1>7. ASSUME NEW u \in Threads, pc'[u] # "idle"
      PROVE  AtLogin(u)' /\ args'[u] \in UrlArgs(cur[u])'
  <2>1. args' = args /\ pc[u] # "idle" /\ u # t
    BY <1>7 DEF Respond, NotFound, Db!Response, db, Parts, Db!TypeOK, IInv, ArgsInv
  <2> QED BY <1>1, <1>2, <1>7, <2>1, ArgsKept
<1> QED BY <1>5, <1>6, <1>7 DEF ArgsInv

\* The reply a waiting client gets is to the request it is at, chosen by that
\* request's own URL; its login had that URL's arguments, and their status.
LEMMA ReplySound ==
    ASSUME IInv, Parts, Parts', NEW t \in Threads, Respond(t) \/ NotFound(t)
    PROVE  OwnLoginAnswered'
<1> DEFINE c == cur[t]
           n == Len(out[c]) + 1
           L(r, i) == replied'[r][i].sure /\ i \notin split'[r] =>
                        replied'[r][i].status = OwnStatus(r, i)
<1>1. /\ at[t] = "dispatch" /\ c \in Conns
      /\ script \in [Conns -> Scripts]
      /\ out \in [Conns -> Seq(Http!Replies)] /\ out' \in [Conns -> Seq(Http!Replies)]
      /\ replied \in [Conns -> Seq(Notes)]
      /\ \A d \in Conns : Len(replied[d]) = Len(out[d])
  BY DEF Respond, NotFound, Http!Dispath, IInv, OwnConnInv, RepliedInv, Parts, Http!TypeOK
<1>2. UNCHANGED <<script, split, pipelined, msg>>
  BY DEF Respond, NotFound, Http!Dispath, Http!client
<1>3. \A d, i : /\ OwnStatus(d, i)' = OwnStatus(d, i)
                /\ Http!FullUrl(d, i)' = Http!FullUrl(d, i)
                /\ Http!StatusOfRequest(d, i)' = Http!StatusOfRequest(d, i)
  BY <1>2 DEF OwnStatus, Http!StatusOfRequest, Db!ExactStatus, Db!Verified,
              Http!FullUrl, Http!IsKind, Http!ReqAt, Http!Stream
<1>4. PICK s \in Notes :
        /\ replied' = [replied EXCEPT ![c] = Append(@, s)]
        /\ \/ AtLogin(t) /\ s.status = status[t] /\ s.sure = Sure(t)
              /\ pc[t] = "respond"
           \/ ~AtLogin(t) /\ s.status = "none"
  <2>1. CASE Respond(t)
    <3>1. [status |-> status[t], sure |-> Sure(t)] \in Notes
      BY DEF Notes, Sure, Parts, Db!TypeOK
    <3>2. pc[t] = "respond"
      BY <2>1 DEF Respond, Db!Response
    <3>3. AtLogin(t)
      BY <3>2 DEF IInv, ArgsInv
    <3> QED BY <2>1, <3>1, <3>2, <3>3 DEF Respond, Replied
  <2>2. CASE NotFound(t)
    <3>1. [status |-> "none", sure |-> TRUE] \in Notes
      BY DEF Notes
    <3> QED BY <2>2, <3>1 DEF NotFound, Replied
  <2> QED BY <2>1, <2>2
<1>5. ASSUME NEW d \in Conns, ~pipelined'[d], NEW i \in DOMAIN replied'[d],
             d # c \/ i # n
      PROVE  L(d, i)
  <2>1. i \in DOMAIN replied[d] /\ replied'[d][i] = replied[d][i]
    BY <1>1, <1>4, <1>5
  <2> QED BY <1>2, <1>3, <1>5, <2>1 DEF IInv, OwnLoginAnswered
<1>6. ASSUME ~pipelined'[c], s.sure, n \notin split'[c]
      PROVE  s.status = OwnStatus(c, n)
  <2>1. out'[c] = Append(out[c], [code |-> Http!StatusOf(c, msg[c].get, msg[c].url),
                                  url  |-> msg[c].url,
                                  req  |-> msg[c].of])
    BY <1>1 DEF Respond, NotFound, Http!Dispath
  <2>2. /\ n \in DOMAIN out'[c] /\ out'[c][n].url = msg[c].url
        /\ out'[c][n].code = Http!StatusOf(c, msg[c].get, msg[c].url)
    BY <1>1, <2>1
  <2>3. /\ msg[c].url = Http!FullUrl(c, n)
        /\ Http!StatusOf(c, msg[c].get, msg[c].url) = Http!StatusOfRequest(c, n)
    BY <1>1, <1>3, <1>6, <2>2 DEF Parts, Http!SequentialClientAnswered
  <2>4. CASE AtLogin(t)
    <3>1. Http!StatusOfRequest(c, n) = 200
      BY <2>3, <2>4 DEF AtLogin, Http!StatusOf
    <3>2. PICK p \in msg[c].url : TRUE
      BY <2>4 DEF AtLogin, Http!IsLogin
    <3>3. \A r : p \in Http!FullUrl(c, r) => r = Http!ReqAt(c, p)
      BY DEF Http!FullUrl
    <3>4. n = Http!ReqAt(c, p) /\ p \in 1 .. Len(Http!Stream(c))
      BY <2>3, <3>2, <3>3 DEF Http!FullUrl
    <3>5. n \in DOMAIN script[c].req
      <4>1. Http!WellFormed(script[c])
        BY <1>1, ScriptsAssumption
      <4>2. Http!ReqAt(c, p) <= Len(script[c].req) /\ script[c].req \in Seq(Http!Attributes)
        BY <3>4, <4>1 DEF Http!WellFormed, Http!ReqAt, Http!Stream
      <4> QED BY <1>1, <3>4, <4>2
    <3>6. args[t] = script[c].args[n]
      <4>1. args[t] \in UrlArgs(c)
        BY <1>4, <2>4 DEF IInv, ArgsInv
      <4>2. PICK q \in DOMAIN script[c].req :
                msg[c].url = Http!FullUrl(c, q) /\ args[t] = script[c].args[q]
        BY <2>3, <3>5, <4>1 DEF UrlArgs
      <4> QED BY <3>2, <3>3, <3>4, <4>2
    <3>7. status[t] = Db!ExactStatus(args[t])
      BY <1>4, <1>6, <2>4 DEF Parts, Db!ExactWithoutOverlap, Sure
    <3> QED BY <1>4, <2>4, <3>1, <3>6, <3>7 DEF OwnStatus
  <2>5. CASE ~AtLogin(t)
    <3>1. Http!StatusOfRequest(c, n) # 200
      BY <1>1, <2>3, <2>5 DEF AtLogin, Http!StatusOf
    <3> QED BY <1>4, <2>5, <3>1 DEF OwnStatus
  <2> QED BY <2>4, <2>5
<1>7. ASSUME ~pipelined'[c], n \in DOMAIN replied'[c]
      PROVE  L(c, n)
  <2>1. replied'[c][n] = s
    BY <1>1, <1>4
  <2> QED BY <1>6, <1>7, <2>1
<1>8. SUFFICES ASSUME NEW d \in Conns, ~pipelined'[d], NEW i \in DOMAIN replied'[d],
                      replied'[d][i].sure, i \notin split'[d]
               PROVE  replied'[d][i].status = OwnStatus(d, i)'
  BY DEF OwnLoginAnswered
<1>9. L(d, i)
  <2>1. CASE d # c \/ i # n
    BY <1>5, <1>8, <2>1
  <2>2. CASE d = c /\ i = n
    BY <1>7, <1>8, <2>2
  <2> QED BY <2>1, <2>2
<1>10. OwnStatus(d, i)' = OwnStatus(d, i)
  BY <1>3
<1> QED BY <1>8, <1>9, <1>10

LEMMA StepIInv == ASSUME IInv, Parts, Parts', [Next]_vars PROVE IInv'
<1>1. CASE Boot \/ MySqlServer \/ \E c \in Conns : ClientSend(c)
  BY <1>1, OutsideSteps
<1>2. ASSUME NEW t \in Threads, NEW c \in Conns, OnMessage(t, c)
      PROVE  IInv'
  BY <1>2, OnMessageStep
<1>3. ASSUME NEW t \in Threads, Step(t)
      PROVE  IInv'
  <2>1. CASE Parse(t) \/ Return(t)
    BY <2>1, LoopSteps
  <2>2. CASE OnLogin(t) \/ UseDb(t)
    BY <2>2, LoginSteps
  <2>3. CASE Respond(t) \/ NotFound(t)
    BY <2>3, ReplySteps, ReplySound DEF IInv
  <2> QED BY <1>3, <2>1, <2>2, <2>3 DEF Step
<1>4. CASE UNCHANGED vars
  <2>1. UNCHANGED <<script, out, replied, at, cur, msg, split, pipelined, pc, args>>
    BY <1>4 DEF vars, http, db
  <2>2. RepliedInv' /\ OwnLoginAnswered'
    BY <2>1, NoReplyKeeps DEF NoReply
  <2>3. OwnConnInv'
    BY <2>1 DEF IInv, OwnConnInv
  <2>4. ArgsInv'
    BY <2>1, ArgsKept DEF ArgsInv
  <2> QED BY <2>2, <2>3, <2>4 DEF IInv
<1> QED BY <1>1, <1>2, <1>3, <1>4 DEF Next

LEMMA IInvHolds == Spec => []IInv
<1>1. IInv /\ Parts /\ Parts' /\ [Next]_vars => IInv'
  BY StepIInv
<1> QED BY InitIInv, <1>1, PartsHold, PTL DEF Spec

\* The types of both parts and of the replies, for any connections, threads,
\* scripts, users and rows.
THEOREM ServerTypeCorrect == Spec => []TypeOK
<1>1. IInv /\ Parts => TypeOK
  BY DEF IInv, RepliedInv, Parts, TypeOK
<1> QED BY <1>1, IInvHolds, PartsHold, PTL

\* EboServer::OnMessage to OnLogin and back: a waiting client's login gets the
\* status of the arguments in its own URL and of that user's rows, whatever else
\* the connections and threads did, as long as no two logins overlapped, the
\* session was not lost and the MySQL server was up and had the table.
THEOREM LoginsAnsweredByOwn == Spec => []OwnLoginAnswered
<1>1. IInv => OwnLoginAnswered
  BY DEF IInv
<1> QED BY <1>1, IInvHolds, PTL
=============================================================================
