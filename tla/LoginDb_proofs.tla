--------------------------- MODULE LoginDb_proofs ---------------------------
(***************************************************************************)
(* Proofs about LoginDb for any IO threads, users and bounds: its types,   *)
(* what a login gets as long as no two overlapped, also when the database  *)
(* fails, and which sessions stay open.                                    *)
(***************************************************************************)
EXTENDS LoginDb, TLAPS

-----------------------------------------------------------------------------
\* The handle after mysql_init or memset, with a new session, and after an
\* error is a handle.
LEMMA HandleFacts ==
    ASSUME TypeOK
    PROVE  /\ Zeroed \in Handles
           /\ NewSession \in Handles
           /\ Failed \in Handles
           /\ WithError(TRUE) \in Handles
           /\ WithError(FALSE) \in Handles
           /\ \A e \in BOOLEAN, s \in {"ready", "result"}, r \in Users \cup {NoUser} :
                Holding(e, s, r) \in Handles
<1>1. Zeroed \in Handles
    BY DEF Handles, Zeroed
<1>2. NewSession \in Handles
    BY DEF TypeOK, Handles, NewSession
<1>3. Failed \in Handles
    <2>1. (IF Attached THEN handle.vio ELSE 0) \in Nat
        BY DEF TypeOK, Handles
    <2> QED
        BY <2>1 DEF TypeOK, Handles, Failed
<1>4. WithError(TRUE) \in Handles /\ WithError(FALSE) \in Handles
    BY DEF TypeOK, Handles, WithError, Holding
<1>5. \A e \in BOOLEAN, s \in {"ready", "result"}, r \in Users \cup {NoUser} :
        Holding(e, s, r) \in Handles
    BY DEF TypeOK, Handles, Holding
<1> QED
    BY <1>1, <1>2, <1>3, <1>4, <1>5

\* Opening a session within the bound gives one of Sessions.
LEMMA OpenedFacts ==
    ASSUME TypeOK, opened < MaxSessions
    PROVE  opened + 1 \in Sessions /\ opened + 1 \in Nat
BY BoundsAssumption DEF TypeOK, Sessions

\* A login's result is one of the known statuses.
LEMMA VerifiedType ==
    ASSUME NEW a, NEW u
    PROVE  Verified(a, u) \in {"0", "-2", "-3"}
BY DEF Verified

\* The types hold when the server starts.
LEMMA TypeInit == Init => TypeOK
<1> SUFFICES ASSUME Init PROVE TypeOK
    OBVIOUS
<1>1. args \in [Threads -> Logins]
    <2>1. [complete : {FALSE}, user : Users, signed : {FALSE}] \subseteq Logins
        BY DEF Logins
    <2> QED
        BY <2>1 DEF Init
<1>2. handle \in Handles
    BY DEF Init, Handles, Zeroed
<1>3. wire \in [Sessions -> Seq(Users)]
    BY DEF Init
<1> QED
    BY <1>1, <1>2, <1>3 DEF Init, TypeOK, DbSection

\* Every step of the server, its threads and the MySQL server keeps the types.
LEMMA TypeStep == TypeOK /\ [Next]_vars => TypeOK'
<1> SUFFICES ASSUME TypeOK, [Next]_vars PROVE TypeOK'
    OBVIOUS
<1> USE DEF TypeOK, client, server, history, DbSection
<1>1. CASE InitConnect
    BY <1>1, HandleFacts, OpenedFacts DEF InitConnect
<1>2. CASE InitCreate
    BY <1>2 DEF InitCreate
<1>3. CASE InitClose
    BY <1>3, HandleFacts DEF InitClose
<1>4. ASSUME NEW t \in Threads, OnLogin(t) PROVE TypeOK'
    BY <1>4 DEF OnLogin, InDb
<1>5. ASSUME NEW t \in Threads, Connect(t) PROVE TypeOK'
    BY <1>5 DEF Connect
<1>15. ASSUME NEW t \in Threads, ConnectSet(t) PROVE TypeOK'
    BY <1>15 DEF ConnectSet
<1>16. ASSUME NEW t \in Threads, Response(t) PROVE TypeOK'
    BY <1>16 DEF Response
<1>14. ASSUME NEW t \in Threads, ConnectCheck(t) PROVE TypeOK'
    BY <1>14 DEF ConnectCheck
<1>6. ASSUME NEW t \in Threads, ConnectInit(t) \/ ConnectFail(t) PROVE TypeOK'
    BY <1>6, HandleFacts DEF ConnectInit, ConnectFail
<1>7. ASSUME NEW t \in Threads, RealConnect(t) PROVE TypeOK'
    <2>1. CASE CanOpen
        BY <1>7, <2>1, HandleFacts, OpenedFacts DEF RealConnect
    <2>2. CASE ~CanOpen
        BY <1>7, <2>2, HandleFacts DEF RealConnect, CanOpen
    <2> QED
        BY <2>1, <2>2
<1>8. ASSUME NEW t \in Threads, Query(t) PROVE TypeOK'
    <2>1. args[t].user \in Users
        BY DEF Logins
    <2>2. CASE ~connected /\ QueryFails(t, handle) /\ UNCHANGED wire
        BY <1>8, <2>2 DEF Query, QueryFails
    <2>3. CASE QueryFails(t, Failed) /\ UNCHANGED wire
        BY <1>8, <2>3, HandleFacts DEF Query, QueryFails
    <2>4. CASE /\ Attached
               /\ wire' = [wire EXCEPT ![handle.vio] = Append(@, args[t].user)]
               /\ handle' = WithError(FALSE)
               /\ pc' = [pc EXCEPT ![t] = "header"]
               /\ UNCHANGED status
        <3>1. handle.vio \in Sessions
            BY <2>4 DEF Attached
        <3>2. wire' \in [Sessions -> Seq(Users)]
            BY <2>1, <2>4, <3>1
        <3>3. handle' \in Handles
            BY <2>4, HandleFacts
        <3> QED
            BY <1>8, <2>4, <3>2, <3>3 DEF Query
    <2> QED
        BY <1>8, <2>2, <2>3, <2>4 DEF Query
<1>9. ASSUME NEW t \in Threads, ReadHeader(t) PROVE TypeOK'
    <2>1. CASE ~Attached /\ QueryFails(t, Failed) /\ UNCHANGED wire
        BY <1>9, <2>1, HandleFacts DEF ReadHeader, QueryFails
    <2>2. CASE Attached /\ wire[handle.vio] # <<>>
        <3>1. handle.vio \in Sessions /\ wire[handle.vio] \in Seq(Users)
            BY <2>2 DEF Attached
        <3>2. Head(wire[handle.vio]) \in Users /\ Tail(wire[handle.vio]) \in Seq(Users)
            BY <2>2, <3>1
        <3>3. wire' \in [Sessions -> Seq(Users)]
            BY <1>9, <2>2, <3>1, <3>2 DEF ReadHeader
        <3>4. handle.reply \in Users \cup {NoUser}
            BY DEF Handles
        <3>5. handle.err \in BOOLEAN /\ handle.status \in {"ready", "result"}
            BY DEF Handles
        <3>6. handle' \in Handles
            <4>1. CASE \E r \in {handle.reply, NoUser} :
                         QueryFails(t, Holding(TRUE, handle.status, r))
                <5>1. PICK r \in {handle.reply, NoUser} :
                        QueryFails(t, Holding(TRUE, handle.status, r))
                    BY <4>1
                <5>2. r \in Users \cup {NoUser}
                    BY <3>4
                <5> QED
                    BY <5>1, <5>2, <3>5, HandleFacts DEF QueryFails
            <4>2. CASE QueryFails(t, WithError(TRUE))
                BY <4>2, HandleFacts DEF QueryFails
            <4>3. CASE handle' = Holding(handle.err, "result", Head(wire[handle.vio]))
                BY <4>3, <3>2, <3>5, HandleFacts
            <4> QED
                BY <1>9, <2>2, <4>1, <4>2, <4>3 DEF ReadHeader
        <3>7. /\ pc' \in [Threads -> DbSection \cup {"idle", "respond"}]
              /\ status' \in [Threads -> {"none", "0", "-1", "-2", "-3"}]
            BY <1>9, <2>2 DEF ReadHeader, QueryFails
        <3> QED
            BY <1>9, <3>3, <3>6, <3>7 DEF ReadHeader
    <2> QED
        BY <1>9, <2>1, <2>2 DEF ReadHeader
<1>10. ASSUME NEW t \in Threads, StoreResult(t) PROVE TypeOK'
    <2>1. handle' \in Handles
        BY <1>10 DEF StoreResult, Handles, Holding
    <2>2. status' \in [Threads -> {"none", "0", "-1", "-2", "-3"}]
        BY <1>10, VerifiedType DEF StoreResult
    <2> QED
        BY <1>10, <2>1, <2>2 DEF StoreResult
<1>11. ASSUME NEW t \in Threads, StoreNull(t) PROVE TypeOK'
    BY <1>11 DEF StoreNull
<1>12. CASE ServerDown \/ ServerUp
    <2>1. ServerDown => (lost' \in BOOLEAN /\ outage' \in [Threads -> BOOLEAN])
        BY DEF ServerDown
    <2>2. ServerDown => wire' \in [Sessions -> Seq(Users)]
        BY DEF ServerDown
    <2>3. CASE ServerDown
        <3>1. /\ up' = FALSE /\ outages' = outages + 1 /\ live' = {}
              /\ UNCHANGED <<booted, client, opened, table, pc, args, ret, status, logins,
                             crashed, overlapped>>
            BY <2>3 DEF ServerDown
        <3>2. lost' \in BOOLEAN /\ outage' \in [Threads -> BOOLEAN]
            BY <2>1, <2>3
        <3>3. wire' \in [Sessions -> Seq(Users)]
            BY <2>2, <2>3
        <3>4. up' \in BOOLEAN
            BY <3>1
        <3>5. outages' \in Nat
            BY <3>1
        <3>6. live' \in SUBSET Sessions
            BY <3>1
        <3> QED
            BY <3>1, <3>2, <3>3, <3>4, <3>5, <3>6
    <2>4. CASE ServerUp
        BY <2>4 DEF ServerUp
    <2> QED
        BY <1>12, <2>3, <2>4
<1>13. CASE UNCHANGED vars
    BY <1>13 DEF vars
<1> QED
    BY <1>1, <1>2, <1>3, <1>4, <1>5, <1>6, <1>7, <1>8, <1>9, <1>10, <1>11, <1>12, <1>13, <1>14, <1>15, <1>16
    DEF Next, Step

\* The types of client, threads and server are right in every state.
THEOREM LoginTypeCorrect == Spec => []TypeOK
<1> QED
    BY TypeInit, TypeStep, PTL DEF Spec
-----------------------------------------------------------------------------
\* What is left to prove of IInv: all but the types.
Rest ==
    /\ BootInv
    /\ AloneInv
    /\ LoginInv
    /\ ClientInv
    /\ ResultInv
    /\ SessionInv
    /\ ExactWithoutOverlap
    /\ FailsSafe
    /\ NoCrashAlone

\* Without an overlap, no other thread is in the database code.
LEMMA OthersOut ==
    ASSUME TypeOK, AloneInv, ~overlapped, NEW t \in Threads, InDb(t),
           NEW u \in Threads, u # t
    PROVE  pc[u] \in {"idle", "respond"}
BY DEF TypeOK, AloneInv, InDb

\* FailsSafe, when only thread t may come to its reply.
LEMMA SafeKept ==
    ASSUME FailsSafe, NEW t \in Threads, ~overlapped' => ~overlapped,
           \A u \in Threads : u # t =>
             pc'[u] = pc[u] /\ status'[u] = status[u] /\ args'[u] = args[u],
           pc'[t] = "respond" /\ ~overlapped' =>
             \/ status'[t] = ExactStatus(args'[t])
             \/ args'[t].complete /\ status'[t] = "-2"
    PROVE  FailsSafe'
BY DEF FailsSafe, ExactStatus, Verified

\* Connect: the thread goes on to mysql_init or to its query.
LEMMA RestConnect ==
    ASSUME IInv, NEW t \in Threads, Connect(t)
    PROVE  Rest'
<1> USE DEF client, server, history, DbSection, TypeOK
<1>0. ~overlapped /\ InDb(t) => \A u \in Threads : u # t => pc[u] \in {"idle", "respond"}
    BY OthersOut DEF IInv
<1>1. BootInv'
    BY <1>0 DEF IInv, BootInv, Connect, InDb
<1>2. AloneInv'
    BY <1>0 DEF IInv, AloneInv, InDb, Connect, InDb
<1>3. LoginInv'
    BY <1>0 DEF IInv, LoginInv, InDb, Connect, InDb
<1>4. ClientInv'
    BY <1>0 DEF IInv, ClientInv, Zeroed, Connect, InDb
<1>5. ResultInv'
    BY <1>0 DEF IInv, ResultInv, Connect, InDb
<1>6. SessionInv'
    BY <1>0 DEF IInv, SessionInv, Attached, Connect, InDb
<1>7. ExactWithoutOverlap'
    BY <1>0 DEF IInv, ExactWithoutOverlap, ExactStatus, Connect, InDb
<1>8. NoCrashAlone'
    BY <1>0 DEF IInv, NoCrashAlone, Connect, InDb
<1>9. FailsSafe'
    <2>1. pc'[t] # "respond" /\ UNCHANGED overlapped
        BY DEF IInv, Connect
    <2>2. \A u \in Threads : u # t =>
            pc'[u] = pc[u] /\ status'[u] = status[u] /\ args'[u] = args[u]
        BY DEF IInv, Connect
    <2> QED
        BY <2>1, <2>2, SafeKept DEF IInv
<1> QED
    BY <1>1, <1>2, <1>3, <1>4, <1>5, <1>6, <1>7, <1>8, <1>9 DEF Rest

\* mysql_init on a client that has no session.
LEMMA RestConnectInit ==
    ASSUME IInv, NEW t \in Threads, ConnectInit(t)
    PROVE  Rest'
<1> USE DEF client, server, history, DbSection, TypeOK
<1>0. ~overlapped /\ InDb(t) => \A u \in Threads : u # t => pc[u] \in {"idle", "respond"}
    BY OthersOut DEF IInv
<1>1. BootInv'
    BY <1>0 DEF IInv, BootInv, ConnectInit, InDb
<1>2. AloneInv'
    BY <1>0 DEF IInv, AloneInv, InDb, ConnectInit, InDb
<1>3. LoginInv'
    BY <1>0 DEF IInv, LoginInv, InDb, ConnectInit, InDb
<1>4. ClientInv'
    BY <1>0 DEF IInv, ClientInv, Zeroed, ConnectInit, InDb
<1>5. ResultInv'
    BY <1>0 DEF IInv, ResultInv, ConnectInit, Zeroed, Attached, InDb
<1>6. SessionInv'
    BY <1>0 DEF IInv, ClientInv, SessionInv, ConnectInit, Zeroed, Attached, InDb
<1>7. ExactWithoutOverlap'
    BY <1>0 DEF IInv, ExactWithoutOverlap, ExactStatus, ConnectInit, InDb
<1>8. NoCrashAlone'
    BY <1>0 DEF IInv, NoCrashAlone, ConnectInit, InDb
<1>9. FailsSafe'
    <2>1. pc'[t] # "respond" /\ UNCHANGED overlapped
        BY DEF IInv, ConnectInit
    <2>2. \A u \in Threads : u # t =>
            pc'[u] = pc[u] /\ status'[u] = status[u] /\ args'[u] = args[u]
        BY DEF IInv, ConnectInit
    <2> QED
        BY <2>1, <2>2, SafeKept DEF IInv
<1> QED
    BY <1>1, <1>2, <1>3, <1>4, <1>5, <1>6, <1>7, <1>8, <1>9 DEF Rest

\* mysql_real_connect: a session, or an error because the server is down.
LEMMA RestRealConnect ==
    ASSUME IInv, NEW t \in Threads, RealConnect(t)
    PROVE  Rest'
<1> USE DEF client, server, history, DbSection, TypeOK
<1>0. ~overlapped /\ InDb(t) => \A u \in Threads : u # t => pc[u] \in {"idle", "respond"}
    BY OthersOut DEF IInv
<1>1. BootInv'
    BY <1>0 DEF IInv, BootInv, RealConnect, CanOpen, NewSession, WithError, Holding, InDb
<1>2. AloneInv'
    BY <1>0 DEF IInv, AloneInv, InDb, RealConnect, CanOpen, NewSession, WithError, Holding, InDb
<1>3. LoginInv'
    BY <1>0 DEF IInv, LoginInv, InDb, RealConnect, CanOpen, NewSession, WithError, Holding, InDb
<1>4. ClientInv'
    <2>1. ~overlapped => /\ handle = Zeroed /\ live = {} /\ ~connected
                         /\ \A u \in Threads : u # t => pc[u] \in {"idle", "respond"}
        BY <1>0 DEF IInv, ClientInv, RealConnect, InDb
    <2>2. /\ pc'[t] = "check"
          /\ \A u \in Threads : u # t => pc'[u] = pc[u]
          /\ UNCHANGED <<booted, connected, overlapped, lost, outage, wire, args>>
        BY DEF IInv, RealConnect
    <2>3. CASE CanOpen
        <3>1. ret'[t] = TRUE /\ live' = live \cup {opened + 1}
            BY <2>3 DEF IInv, RealConnect
        <3>2. handle'.vio = opened + 1 /\ handle'.err = FALSE /\ handle'.status = "ready"
            BY <2>3 DEF RealConnect, NewSession
        <3> QED
            BY <2>1, <2>2, <3>1, <3>2 DEF ClientInv
    <2>4. CASE ~CanOpen
        <3>1. ret'[t] = FALSE /\ live' = live
            BY <2>4 DEF IInv, RealConnect
        <3>2. handle'.vio = handle.vio /\ handle'.status = handle.status
            BY <2>4 DEF RealConnect, WithError, Holding
        <3>3. handle = Zeroed => handle.vio = 0 /\ handle.status = "ready"
            BY DEF Zeroed
        <3> QED
            BY <2>1, <2>2, <3>1, <3>2, <3>3 DEF ClientInv
    <2> QED
        BY <2>3, <2>4
<1>5. ResultInv'
    <2>0. ~overlapped => \A s \in Sessions : wire[s] = <<>>
        BY <1>0 DEF IInv, ResultInv, RealConnect, InDb
    <2>1. ~overlapped => /\ handle = Zeroed /\ live = {} /\ ~connected
                         /\ \A u \in Threads : u # t => pc[u] \in {"idle", "respond"}
        BY <1>0 DEF IInv, ClientInv, RealConnect, InDb
    <2>2. /\ pc'[t] = "check"
          /\ \A u \in Threads : u # t => pc'[u] = pc[u]
          /\ UNCHANGED <<booted, connected, overlapped, lost, outage, wire, args>>
        BY DEF IInv, RealConnect
    <2>3. CASE CanOpen
        <3>1. ret'[t] = TRUE /\ live' = live \cup {opened + 1}
            BY <2>3 DEF IInv, RealConnect
        <3>2. handle'.vio = opened + 1 /\ handle'.err = FALSE /\ handle'.status = "ready"
            BY <2>3 DEF RealConnect, NewSession
        <3> QED
            BY <2>1, <2>2, <3>1, <3>2, <2>0 DEF ResultInv
    <2>4. CASE ~CanOpen
        <3>1. ret'[t] = FALSE /\ live' = live
            BY <2>4 DEF IInv, RealConnect
        <3>2. handle'.vio = handle.vio /\ handle'.status = handle.status
            BY <2>4 DEF RealConnect, WithError, Holding
        <3>3. handle = Zeroed => handle.vio = 0 /\ handle.status = "ready"
            BY DEF Zeroed
        <3> QED
            BY <2>1, <2>2, <3>1, <3>2, <3>3, <2>0 DEF ResultInv
    <2> QED
        BY <2>3, <2>4
<1>6. SessionInv'
    <2>1. ~overlapped => /\ handle = Zeroed /\ live = {} /\ ~connected
                         /\ \A u \in Threads : u # t => pc[u] \in {"idle", "respond"}
        BY <1>0 DEF IInv, ClientInv, RealConnect, InDb
    <2>2. /\ pc'[t] = "check"
          /\ \A u \in Threads : u # t => pc'[u] = pc[u]
          /\ UNCHANGED <<booted, connected, overlapped, lost, outage, wire, args>>
        BY DEF IInv, RealConnect
    <2>5. opened + 1 # 0
        BY DEF IInv
    <2>3. CASE CanOpen
        <3>1. ret'[t] = TRUE /\ live' = live \cup {opened + 1}
            BY <2>3 DEF IInv, RealConnect
        <3>2. handle'.vio = opened + 1 /\ handle'.err = FALSE /\ handle'.status = "ready"
            BY <2>3 DEF RealConnect, NewSession
        <3> QED
            BY <2>1, <2>2, <3>1, <3>2, <2>5 DEF SessionInv, Attached
    <2>4. CASE ~CanOpen
        <3>1. ret'[t] = FALSE /\ live' = live
            BY <2>4 DEF IInv, RealConnect
        <3>2. handle'.vio = handle.vio /\ handle'.status = handle.status
            BY <2>4 DEF RealConnect, WithError, Holding
        <3>3. handle = Zeroed => handle.vio = 0 /\ handle.status = "ready"
            BY DEF Zeroed
        <3>4. ~overlapped => outage[t]
            BY <2>1, <2>4, <3>3 DEF IInv, LoginInv, RealConnect, CanOpen
        <3> QED
            BY <2>1, <2>2, <3>1, <3>2, <3>3, <3>4 DEF SessionInv
    <2> QED
        BY <2>3, <2>4
<1>7. ExactWithoutOverlap'
    BY <1>0 DEF IInv, ExactWithoutOverlap, ExactStatus, RealConnect, CanOpen, NewSession, WithError, Holding, InDb
<1>8. NoCrashAlone'
    BY <1>0 DEF IInv, NoCrashAlone, RealConnect, CanOpen, NewSession, WithError, Holding, InDb
<1>9. FailsSafe'
    <2>1. pc'[t] # "respond" /\ UNCHANGED overlapped
        BY DEF IInv, RealConnect
    <2>2. \A u \in Threads : u # t =>
            pc'[u] = pc[u] /\ status'[u] = status[u] /\ args'[u] = args[u]
        BY DEF IInv, RealConnect
    <2> QED
        BY <2>1, <2>2, SafeKept DEF IInv
<1> QED
    BY <1>1, <1>2, <1>3, <1>4, <1>5, <1>6, <1>7, <1>8, <1>9 DEF Rest

\* The check goes to the failure path just when there is no session.
LEMMA RestConnectCheck ==
    ASSUME IInv, NEW t \in Threads, ConnectCheck(t)
    PROVE  Rest'
<1> USE DEF client, server, history, DbSection, TypeOK
<1>0. ~overlapped /\ InDb(t) => \A u \in Threads : u # t => pc[u] \in {"idle", "respond"}
    BY OthersOut DEF IInv
<1>1. BootInv'
    BY <1>0 DEF IInv, BootInv, ConnectCheck, InDb
<1>2. AloneInv'
    BY <1>0 DEF IInv, AloneInv, InDb, ConnectCheck, InDb
<1>3. LoginInv'
    BY <1>0 DEF IInv, LoginInv, InDb, ConnectCheck, InDb
<1>4. ClientInv'
    BY <1>0 DEF IInv, ClientInv, Zeroed, ConnectCheck, InDb
<1>5. ResultInv'
    BY <1>0 DEF IInv, ResultInv, ConnectCheck, InDb
<1>6. SessionInv'
    BY <1>0 DEF IInv, ClientInv, SessionInv, Attached, ConnectCheck, InDb
<1>7. ExactWithoutOverlap'
    BY <1>0 DEF IInv, ExactWithoutOverlap, ExactStatus, ConnectCheck, InDb
<1>8. NoCrashAlone'
    BY <1>0 DEF IInv, NoCrashAlone, ConnectCheck, InDb
<1>9. FailsSafe'
    <2>1. pc'[t] # "respond" /\ UNCHANGED overlapped
        BY DEF IInv, ConnectCheck
    <2>2. \A u \in Threads : u # t =>
            pc'[u] = pc[u] /\ status'[u] = status[u] /\ args'[u] = args[u]
        BY DEF IInv, ConnectCheck
    <2> QED
        BY <2>1, <2>2, SafeKept DEF IInv
<1> QED
    BY <1>1, <1>2, <1>3, <1>4, <1>5, <1>6, <1>7, <1>8, <1>9 DEF Rest

\* The failure path closes nothing but a handle without a session.
LEMMA RestConnectFail ==
    ASSUME IInv, NEW t \in Threads, ConnectFail(t)
    PROVE  Rest'
<1> USE DEF client, server, history, DbSection, TypeOK
<1>0. ~overlapped /\ InDb(t) => \A u \in Threads : u # t => pc[u] \in {"idle", "respond"}
    BY OthersOut DEF IInv
<1>1. BootInv'
    BY <1>0 DEF IInv, BootInv, ConnectFail, InDb
<1>2. AloneInv'
    BY <1>0 DEF IInv, AloneInv, InDb, ConnectFail, InDb
<1>3. LoginInv'
    BY <1>0 DEF IInv, LoginInv, InDb, ConnectFail, InDb
<1>4. ClientInv'
    BY <1>0 DEF IInv, ClientInv, Zeroed, ConnectFail, InDb
<1>5. ResultInv'
    BY <1>0 DEF IInv, ResultInv, ConnectFail, Zeroed, Attached, InDb
<1>6. SessionInv'
    BY <1>0 DEF IInv, ClientInv, SessionInv, ConnectFail, Zeroed, Attached, InDb
<1>7. ExactWithoutOverlap'
    BY <1>0 DEF IInv, ExactWithoutOverlap, ExactStatus, ConnectFail, InDb
<1>8. NoCrashAlone'
    BY <1>0 DEF IInv, NoCrashAlone, ConnectFail, InDb
<1>9. FailsSafe'
    <2>1. pc'[t] # "respond" /\ UNCHANGED overlapped
        BY DEF IInv, ConnectFail
    <2>2. \A u \in Threads : u # t =>
            pc'[u] = pc[u] /\ status'[u] = status[u] /\ args'[u] = args[u]
        BY DEF IInv, ConnectFail
    <2> QED
        BY <2>1, <2>2, SafeKept DEF IInv
<1> QED
    BY <1>1, <1>2, <1>3, <1>4, <1>5, <1>6, <1>7, <1>8, <1>9 DEF Rest

\* connected_ is set with the session that was opened.
LEMMA RestConnectSet ==
    ASSUME IInv, NEW t \in Threads, ConnectSet(t)
    PROVE  Rest'
<1> USE DEF client, server, history, DbSection, TypeOK
<1>0. ~overlapped /\ InDb(t) => \A u \in Threads : u # t => pc[u] \in {"idle", "respond"}
    BY OthersOut DEF IInv
<1>1. BootInv'
    BY <1>0 DEF IInv, BootInv, ConnectSet, InDb
<1>2. AloneInv'
    BY <1>0 DEF IInv, AloneInv, InDb, ConnectSet, InDb
<1>3. LoginInv'
    BY <1>0 DEF IInv, LoginInv, InDb, ConnectSet, InDb
<1>4. ClientInv'
    BY <1>0 DEF IInv, ClientInv, Zeroed, ConnectSet, InDb
<1>5. ResultInv'
    BY <1>0 DEF IInv, ResultInv, ConnectSet, InDb
<1>6. SessionInv'
    BY <1>0 DEF IInv, SessionInv, Attached, ConnectSet, InDb
<1>7. ExactWithoutOverlap'
    BY <1>0 DEF IInv, ExactWithoutOverlap, ExactStatus, ConnectSet, InDb
<1>8. NoCrashAlone'
    BY <1>0 DEF IInv, NoCrashAlone, ConnectSet, InDb
<1>9. FailsSafe'
    <2>1. pc'[t] # "respond" /\ UNCHANGED overlapped
        BY DEF IInv, ConnectSet
    <2>2. \A u \in Threads : u # t =>
            pc'[u] = pc[u] /\ status'[u] = status[u] /\ args'[u] = args[u]
        BY DEF IInv, ConnectSet
    <2> QED
        BY <2>1, <2>2, SafeKept DEF IInv
<1> QED
    BY <1>1, <1>2, <1>3, <1>4, <1>5, <1>6, <1>7, <1>8, <1>9 DEF Rest

\* A query is sent on a live session, or fails.
LEMMA RestQuery ==
    ASSUME IInv, NEW t \in Threads, Query(t)
    PROVE  Rest'
<1> USE DEF client, server, history, DbSection, TypeOK
<1>0. ~overlapped /\ InDb(t) => \A u \in Threads : u # t => pc[u] \in {"idle", "respond"}
    BY OthersOut DEF IInv
<1>1. BootInv'
    BY <1>0 DEF IInv, BootInv, Query, QueryFails, Failed, WithError, Holding, Attached, InDb
<1>2. AloneInv'
    BY <1>0 DEF IInv, AloneInv, InDb, Query, QueryFails, Failed, WithError, Holding, Attached, InDb
<1>3. LoginInv'
    BY <1>0 DEF IInv, LoginInv, InDb, Query, QueryFails, Failed, WithError, Holding, Attached, InDb
<1>4. ClientInv'
    BY <1>0 DEF IInv, ClientInv, Zeroed, Query, QueryFails, Failed, WithError, Holding, Attached, InDb
<1>5. ResultInv'
    <2>1. ~overlapped => /\ handle.status = "ready"
                         /\ \A s \in Sessions : wire[s] = <<>>
        BY <1>0 DEF IInv, ResultInv, Query, InDb, Handles
    <2>2. CASE QueryFails(t, handle) /\ UNCHANGED wire
        BY <2>1, <2>2, <1>0 DEF IInv, ResultInv, Query, QueryFails, InDb
    <2>3. CASE QueryFails(t, Failed) /\ UNCHANGED wire
        BY <2>1, <2>3, <1>0 DEF IInv, ResultInv, Query, QueryFails, Failed, InDb
    <2>4. CASE /\ Attached
               /\ wire' = [wire EXCEPT ![handle.vio] = Append(@, args[t].user)]
               /\ handle' = WithError(FALSE)
               /\ pc' = [pc EXCEPT ![t] = "header"]
        <3>1. handle.vio \in Sessions /\ args[t].user \in Users
            BY <2>4 DEF IInv, Attached, Logins
        <3>2. handle'.vio = handle.vio /\ handle'.status = handle.status
            BY <2>4 DEF WithError, Holding
        <3>8. wire'[handle.vio] = Append(wire[handle.vio], args[t].user)
            BY <2>4, <3>1 DEF IInv
        <3>9. Append(<< >>, args[t].user) = <<args[t].user>>
            OBVIOUS
        <3>3. ~overlapped => wire'[handle.vio] = <<args[t].user>>
            BY <2>1, <3>1, <3>8, <3>9
        <3>4. ~overlapped => \A s \in Sessions : s # handle.vio => wire'[s] = <<>>
            BY <2>1, <2>4, <3>1 DEF IInv
        <3>5. UNCHANGED <<overlapped, args>>
            BY DEF IInv, Query
        <3>6. pc'[t] = "header"
            BY <2>4 DEF IInv
        <3>7. ~overlapped => \A u \in Threads : u # t => pc'[u] # "header"
            BY <1>0, <2>4 DEF IInv, Query, InDb
        <3> QED
            <4>1. UNCHANGED live /\ handle.vio \in live
                BY <2>4 DEF Query, Attached
            <4>2. ~overlapped => handle'.status = "ready"
                BY <2>1, <3>2
            <4>3. ~overlapped => \A s \in Sessions : wire'[s] # <<>> =>
                    s = handle'.vio /\ s \in live' /\ \E u \in Threads : pc'[u] = "header"
                BY <3>2, <3>4, <3>6, <4>1
            <4>4. ~overlapped => \A u \in Threads :
                    pc'[u] = "header" => wire'[handle'.vio] = <<args'[u].user>>
                BY <3>2, <3>3, <3>5, <3>7
            <4>5. ~overlapped => \A u \in Threads : pc'[u] # "store"
                BY <1>0, <2>4, <3>6 DEF IInv, Query, InDb
            <4> QED
                BY <3>5, <4>2, <4>3, <4>4, <4>5 DEF ResultInv
    <2> QED
        BY <2>2, <2>3, <2>4 DEF Query
<1>6. SessionInv'
    BY <1>0 DEF IInv, SessionInv, Attached, Query, QueryFails, Failed, WithError, Holding, Attached, InDb
<1>7. ExactWithoutOverlap'
    <2>1. CASE pc'[t] = "header"
        BY <1>0, <2>1 DEF IInv, ExactWithoutOverlap, ExactStatus, Query, QueryFails, InDb
    <2>2. CASE pc'[t] = "respond"
        <3>0. ~overlapped => handle.status = "ready"
            BY <1>0 DEF IInv, ResultInv, Query, InDb, Handles
        <3>5. ~overlapped /\ ~lost /\ connected => Attached
            BY DEF IInv, BootInv, SessionInv, Query
        <3>1. ~overlapped /\ ~lost => ~connected
            BY <2>2, <3>0, <3>5 DEF IInv, Query
        <3>2. ~overlapped /\ ~lost => outage[t]
            BY <3>1 DEF IInv, BootInv, SessionInv, Query
        <3>3. UNCHANGED <<overlapped, lost, outage, table, args>>
            BY DEF IInv, Query
        <3>4. \A u \in Threads : u # t => pc'[u] = pc[u] /\ status'[u] = status[u]
            BY DEF IInv, Query, QueryFails
        <3> QED
            BY <3>2, <3>3, <3>4 DEF IInv, ExactWithoutOverlap, ExactStatus
    <2> QED
        BY <2>1, <2>2 DEF IInv, Query, QueryFails
<1>8. NoCrashAlone'
    BY <1>0 DEF IInv, NoCrashAlone, Query, QueryFails, Failed, WithError, Holding, Attached, InDb
<1>9. FailsSafe'
    <2>1. InDb(t) /\ args[t].complete
        BY DEF IInv, LoginInv, InDb, Query
    <2>2. pc'[t] = "respond" => status'[t] = "-2"
        BY DEF IInv, Query, QueryFails
    <2>3. \A u \in Threads : u # t =>
            pc'[u] = pc[u] /\ status'[u] = status[u] /\ args'[u] = args[u]
        BY DEF IInv, Query, QueryFails
    <2>4. UNCHANGED <<overlapped, args>>
        BY DEF Query
    <2> QED
        BY <2>1, <2>2, <2>3, <2>4, SafeKept DEF IInv
<1> QED
    BY <1>1, <1>2, <1>3, <1>4, <1>5, <1>6, <1>7, <1>8, <1>9 DEF Rest

\* The header read is that of the thread's own query.
LEMMA RestReadHeader ==
    ASSUME IInv, NEW t \in Threads, ReadHeader(t)
    PROVE  Rest'
<1> USE DEF client, server, history, DbSection, TypeOK
<1>0. ~overlapped /\ InDb(t) => \A u \in Threads : u # t => pc[u] \in {"idle", "respond"}
    BY OthersOut DEF IInv
<1>1. BootInv'
    BY <1>0 DEF IInv, BootInv, ReadHeader, QueryFails, Failed, WithError, Holding, Attached, InDb
<1>2. AloneInv'
    BY <1>0 DEF IInv, AloneInv, InDb, ReadHeader, QueryFails, Failed, WithError, Holding, Attached, InDb
<1>3. LoginInv'
    BY <1>0 DEF IInv, LoginInv, InDb, ReadHeader, QueryFails, Failed, WithError, Holding, Attached, InDb
<1>4. ClientInv'
    BY <1>0 DEF IInv, ClientInv, Zeroed, ReadHeader, QueryFails, Failed, WithError, Holding, Attached, InDb
<1>5. ResultInv'
    <2>1. ~overlapped => \A u \in Threads : u # t => pc'[u] \in {"idle", "respond"}
        BY <1>0 DEF IInv, ReadHeader, QueryFails, InDb
    <2>2. ~overlapped => handle.status = "ready"
        BY <1>0 DEF IInv, ResultInv, ReadHeader, InDb, Handles
    <2>3. CASE ~Attached /\ QueryFails(t, Failed) /\ UNCHANGED wire
        <3>1. ~overlapped => \A s \in Sessions : wire[s] = <<>>
            BY <2>3 DEF IInv, ResultInv, Attached, Sessions
        <3>2. handle'.status = handle.status /\ pc'[t] = "respond"
            BY <2>3 DEF IInv, QueryFails, Failed
        <3> QED
            BY <2>1, <2>2, <2>3, <3>1, <3>2 DEF IInv, ResultInv, ReadHeader
    <2>4. CASE Attached /\ wire[handle.vio] # <<>>
        <3>1. handle.vio \in Sessions
            BY <2>4 DEF IInv, Attached
        <3>2. wire' = [wire EXCEPT ![handle.vio] = Tail(@)]
            BY <2>4 DEF ReadHeader
        <3>3. ~overlapped => wire[handle.vio] = <<args[t].user>>
            BY <2>4 DEF IInv, ResultInv, ReadHeader
        <3>7. Tail(<<args[t].user>>) = << >>
            OBVIOUS
        <3>8. ~overlapped => \A s \in Sessions : s # handle.vio => wire[s] = <<>>
            BY DEF IInv, ResultInv
        <3>4. ~overlapped => \A s \in Sessions : wire'[s] = <<>>
            BY <3>1, <3>2, <3>3, <3>7, <3>8 DEF IInv
        <3>5. ~overlapped /\ handle'.status = "result" => pc'[t] = "store"
            BY <2>2, <2>4 DEF IInv, ReadHeader, QueryFails, WithError, Holding
        <3>6. pc'[t] \in {"respond", "store"} /\ UNCHANGED <<overlapped, args>>
            BY <2>4 DEF IInv, ReadHeader, QueryFails
        <3>9. ~overlapped /\ pc'[t] = "store" =>
                handle'.status = "result" /\ handle'.reply = args[t].user
            <4>1. Head(<<args[t].user>>) = args[t].user
                OBVIOUS
            <4>2. pc'[t] = "store" => handle' = Holding(handle.err, "result", Head(wire[handle.vio]))
                BY <2>4 DEF IInv, ReadHeader, QueryFails
            <4> QED
                BY <3>3, <4>1, <4>2 DEF Holding
        <3> QED
            BY <2>1, <3>4, <3>5, <3>6, <3>9 DEF IInv, ResultInv
    <2> QED
        BY <2>3, <2>4 DEF ReadHeader
<1>6. SessionInv'
    <2>1. ~overlapped => \A u \in Threads : u # t => pc'[u] \in {"idle", "respond"}
        BY <1>0 DEF IInv, ReadHeader, QueryFails, InDb
    <2>2. ~overlapped => handle.status = "ready"
        BY <1>0 DEF IInv, ResultInv, ReadHeader, InDb, Handles
    <2>3. ~overlapped /\ Attached => wire[handle.vio] = <<args[t].user>>
        BY DEF IInv, ResultInv, ReadHeader
    <2>4. ~overlapped /\ ~lost => connected /\ Attached
        BY DEF IInv, BootInv, SessionInv, ClientInv, ReadHeader
    <2>5. UNCHANGED <<overlapped, lost, booted, connected, live, args>>
        BY DEF IInv, ReadHeader
    <2>6. ~overlapped /\ ~lost => Attached'
        BY <2>4 DEF IInv, ReadHeader, QueryFails, WithError, Holding, Attached
    <2>8. pc'[t] \in {"respond", "store"}
        BY DEF IInv, ReadHeader, QueryFails
    <2> QED
        BY <2>1, <2>5, <2>6, <2>8 DEF SessionInv
<1>7. ExactWithoutOverlap'
    <2>1. ~overlapped => handle.status = "ready"
        BY <1>0 DEF IInv, ResultInv, ReadHeader, InDb, Handles
    <2>2. ~overlapped /\ ~lost => Attached
        BY DEF IInv, BootInv, SessionInv, ClientInv, ReadHeader
    <2>3. pc'[t] = "respond" => overlapped \/ lost \/ ~table
        BY <2>1, <2>2 DEF IInv, ReadHeader
    <2>4. UNCHANGED <<overlapped, lost, outage, table, args>>
        BY DEF IInv, ReadHeader
    <2>5. \A u \in Threads : u # t => pc'[u] = pc[u] /\ status'[u] = status[u]
        BY DEF IInv, ReadHeader, QueryFails
    <2> QED
        BY <2>3, <2>4, <2>5 DEF IInv, ExactWithoutOverlap, ExactStatus
<1>8. NoCrashAlone'
    BY <1>0 DEF IInv, NoCrashAlone, ReadHeader, QueryFails, Failed, WithError, Holding, Attached, InDb
<1>9. FailsSafe'
    <2>1. InDb(t) /\ args[t].complete
        BY DEF IInv, LoginInv, InDb, ReadHeader
    <2>2. pc'[t] = "respond" => status'[t] = "-2"
        BY DEF IInv, ReadHeader, QueryFails
    <2>3. \A u \in Threads : u # t =>
            pc'[u] = pc[u] /\ status'[u] = status[u] /\ args'[u] = args[u]
        BY DEF IInv, ReadHeader, QueryFails
    <2>4. UNCHANGED <<overlapped, args>>
        BY DEF ReadHeader
    <2> QED
        BY <2>1, <2>2, <2>3, <2>4, SafeKept DEF IInv
<1> QED
    BY <1>1, <1>2, <1>3, <1>4, <1>5, <1>6, <1>7, <1>8, <1>9 DEF Rest

\* The result stored is that of the thread's own query.
LEMMA RestStoreResult ==
    ASSUME IInv, NEW t \in Threads, StoreResult(t)
    PROVE  Rest'
<1> USE DEF client, server, history, DbSection, TypeOK
<1>0. ~overlapped /\ InDb(t) => \A u \in Threads : u # t => pc[u] \in {"idle", "respond"}
    BY OthersOut DEF IInv
<1>1. BootInv'
    BY <1>0 DEF IInv, BootInv, StoreResult, HasResult, Holding, Attached, InDb
<1>2. AloneInv'
    BY <1>0 DEF IInv, AloneInv, InDb, StoreResult, HasResult, Holding, Attached, InDb
<1>3. LoginInv'
    BY <1>0 DEF IInv, LoginInv, InDb, StoreResult, HasResult, Holding, Attached, InDb
<1>4. ClientInv'
    BY <1>0 DEF IInv, ClientInv, Zeroed, StoreResult, HasResult, Holding, Attached, InDb
<1>5. ResultInv'
    BY <1>0 DEF IInv, ResultInv, StoreResult, HasResult, Holding, Attached, InDb
<1>6. SessionInv'
    BY <1>0 DEF IInv, SessionInv, Attached, StoreResult, HasResult, Holding, Attached, InDb
<1>7. ExactWithoutOverlap'
    <2>1. ~overlapped /\ ~lost => args[t].complete /\ handle.reply = args[t].user
        BY DEF IInv, ResultInv, LoginInv, StoreResult, InDb
    <2>2. ASSUME NEW u \in Threads, u # t PROVE pc'[u] = pc[u] /\ status'[u] = status[u]
        BY <2>2 DEF IInv, StoreResult
    <2>3. status'[t] = Verified(args[t], handle.reply) /\ UNCHANGED <<args, overlapped, lost, outage, table>>
        BY DEF IInv, StoreResult
    <2> QED
        BY <2>1, <2>2, <2>3 DEF IInv, ExactWithoutOverlap, ExactStatus
<1>8. NoCrashAlone'
    BY <1>0 DEF IInv, NoCrashAlone, StoreResult, HasResult, Holding, Attached, InDb
<1>9. FailsSafe'
    <2>1. ~overlapped => args[t].complete /\ handle.reply = args[t].user
        BY DEF IInv, ResultInv, LoginInv, StoreResult, InDb
    <2>2. \A u \in Threads : u # t =>
            pc'[u] = pc[u] /\ status'[u] = status[u] /\ args'[u] = args[u]
        BY DEF IInv, StoreResult
    <2>3. status'[t] = Verified(args[t], handle.reply) /\ UNCHANGED <<args, overlapped>>
        BY DEF IInv, StoreResult
    <2> QED
        BY <2>1, <2>2, <2>3, SafeKept DEF IInv, ExactStatus
<1> QED
    BY <1>1, <1>2, <1>3, <1>4, <1>5, <1>6, <1>7, <1>8, <1>9 DEF Rest

\* A NULL result needs an overlap or a lost session.
LEMMA RestStoreNull ==
    ASSUME IInv, NEW t \in Threads, StoreNull(t)
    PROVE  Rest'
<1> USE DEF client, server, history, DbSection, TypeOK
<1>0. ~overlapped /\ InDb(t) => \A u \in Threads : u # t => pc[u] \in {"idle", "respond"}
    BY OthersOut DEF IInv
<1>1. BootInv'
    BY <1>0 DEF IInv, BootInv, StoreNull, HasResult, Attached, InDb
<1>2. AloneInv'
    BY <1>0 DEF IInv, AloneInv, InDb, StoreNull, HasResult, Attached, InDb
<1>3. LoginInv'
    BY <1>0 DEF IInv, LoginInv, InDb, StoreNull, HasResult, Attached, InDb
<1>4. ClientInv'
    BY <1>0 DEF IInv, ClientInv, Zeroed, StoreNull, HasResult, Attached, InDb
<1>5. ResultInv'
    BY <1>0 DEF IInv, ResultInv, StoreNull, HasResult, Attached, InDb
<1>6. SessionInv'
    BY <1>0 DEF IInv, SessionInv, Attached, StoreNull, HasResult, Attached, InDb
<1>7. ExactWithoutOverlap'
    BY <1>0 DEF IInv, ExactWithoutOverlap, ExactStatus, StoreNull, HasResult, Attached, InDb
<1>8. NoCrashAlone'
    <2>1. ~overlapped /\ ~lost => Attached /\ handle.status = "result" /\ handle.reply = args[t].user
        BY DEF IInv, ClientInv, ResultInv, SessionInv, BootInv, StoreNull
    <2>2. args[t].user # NoUser
        BY RowsAssumption DEF IInv, Logins
    <2> QED
        BY <2>1, <2>2 DEF StoreNull, NoCrashAlone, HasResult, Attached
<1>9. FailsSafe'
    BY DEF IInv, FailsSafe, ExactStatus, StoreNull
<1> QED
    BY <1>1, <1>2, <1>3, <1>4, <1>5, <1>6, <1>7, <1>8, <1>9 DEF Rest

\* Response leaves the database alone.
LEMMA RestResponse ==
    ASSUME IInv, NEW t \in Threads, Response(t)
    PROVE  Rest'
<1> USE DEF client, server, history, DbSection, TypeOK
<1>0. ~overlapped /\ InDb(t) => \A u \in Threads : u # t => pc[u] \in {"idle", "respond"}
    BY OthersOut DEF IInv
<1>1. BootInv'
    BY <1>0 DEF IInv, BootInv, Response, Attached, InDb
<1>2. AloneInv'
    BY <1>0 DEF IInv, AloneInv, InDb, Response, Attached, InDb
<1>3. LoginInv'
    BY <1>0 DEF IInv, LoginInv, InDb, Response, Attached, InDb
<1>4. ClientInv'
    BY <1>0 DEF IInv, ClientInv, Zeroed, Response, Attached, InDb
<1>5. ResultInv'
    BY <1>0 DEF IInv, ResultInv, Response, Attached, InDb
<1>6. SessionInv'
    BY <1>0 DEF IInv, SessionInv, Attached, Response, Attached, InDb
<1>7. ExactWithoutOverlap'
    BY <1>0 DEF IInv, ExactWithoutOverlap, ExactStatus, Response, Attached, InDb
<1>8. NoCrashAlone'
    BY <1>0 DEF IInv, NoCrashAlone, Response, Attached, InDb
<1>9. FailsSafe'
    <2>1. pc'[t] # "respond" /\ UNCHANGED overlapped
        BY DEF IInv, Response
    <2>2. \A u \in Threads : u # t =>
            pc'[u] = pc[u] /\ status'[u] = status[u] /\ args'[u] = args[u]
        BY DEF IInv, Response
    <2> QED
        BY <2>1, <2>2, SafeKept DEF IInv
<1> QED
    BY <1>1, <1>2, <1>3, <1>4, <1>5, <1>6, <1>7, <1>8, <1>9 DEF Rest

\* A login that starts while another is in the database code is an overlap.
LEMMA RestOnLogin ==
    ASSUME IInv, NEW t \in Threads, OnLogin(t)
    PROVE  Rest'
<1> USE DEF client, server, history, DbSection, TypeOK
<1>0. ~overlapped /\ InDb(t) => \A u \in Threads : u # t => pc[u] \in {"idle", "respond"}
    BY OthersOut DEF IInv
<1>1. BootInv'
    BY <1>0 DEF IInv, BootInv, OnLogin, Attached, InDb
<1>2. AloneInv'
    <2>1. PICK a \in Logins :
            /\ args' = [args EXCEPT ![t] = a]
            /\ pc' = [pc EXCEPT ![t] = IF a.complete THEN "connect" ELSE "respond"]
            /\ overlapped' = (overlapped \/ (a.complete /\ \E u \in Threads : InDb(u)))
        BY DEF OnLogin
    <2>2. pc'[t] \in DbSection => a.complete
        BY <2>1 DEF IInv
    <2>3. \A u \in Threads : u # t => pc'[u] = pc[u]
        BY <2>1 DEF IInv
    <2>4. ~overlapped' => ~overlapped /\ (a.complete => \A u \in Threads : ~InDb(u))
        BY <2>1
    <2> QED
        BY <2>2, <2>3, <2>4 DEF IInv, AloneInv, InDb
<1>3. LoginInv'
    <2>1. PICK a \in Logins :
            /\ args' = [args EXCEPT ![t] = a]
            /\ pc' = [pc EXCEPT ![t] = IF a.complete THEN "connect" ELSE "respond"]
        BY DEF OnLogin
    <2>2. (pc'[t] \in DbSection => a.complete) /\ args'[t] = a
        BY <2>1 DEF IInv
    <2>3. \A u \in Threads : u # t => pc'[u] = pc[u] /\ args'[u] = args[u]
        BY <2>1 DEF IInv
    <2>4. UNCHANGED up /\ (outage'[t] <=> ~up) /\ \A u \in Threads : u # t => outage'[u] = outage[u]
        BY DEF IInv, OnLogin
    <2> QED
        BY <2>2, <2>3, <2>4 DEF IInv, LoginInv, InDb
<1>4. ClientInv'
    BY <1>0 DEF IInv, ClientInv, Zeroed, OnLogin, Attached, InDb
<1>5. ResultInv'
    BY <1>0 DEF IInv, ResultInv, OnLogin, Attached, InDb
<1>6. SessionInv'
    BY <1>0 DEF IInv, SessionInv, Attached, OnLogin, Attached, InDb
<1>7. ExactWithoutOverlap'
    BY <1>0 DEF IInv, ExactWithoutOverlap, ExactStatus, OnLogin, Attached, InDb
<1>8. NoCrashAlone'
    BY <1>0 DEF IInv, NoCrashAlone, OnLogin, Attached, InDb
<1>9. FailsSafe'
    <2>1. PICK a \in Logins :
            /\ args' = [args EXCEPT ![t] = a]
            /\ pc' = [pc EXCEPT ![t] = IF a.complete THEN "connect" ELSE "respond"]
            /\ status' = [status EXCEPT ![t] = IF a.complete THEN "none" ELSE "-1"]
            /\ overlapped' = (overlapped \/ (a.complete /\ \E u \in Threads : InDb(u)))
        BY DEF OnLogin
    <2>2. \A u \in Threads : u # t =>
            pc'[u] = pc[u] /\ status'[u] = status[u] /\ args'[u] = args[u]
        BY <2>1 DEF IInv
    <2>3. pc'[t] = "respond" => status'[t] = ExactStatus(args'[t])
        BY <2>1 DEF IInv, ExactStatus
    <2>4. ~overlapped' => ~overlapped
        BY <2>1
    <2> QED
        BY <2>2, <2>3, <2>4, SafeKept DEF IInv
<1> QED
    BY <1>1, <1>2, <1>3, <1>4, <1>5, <1>6, <1>7, <1>8, <1>9 DEF Rest

\* EboServer::Init runs before the threads do.
LEMMA RestInit ==
    ASSUME IInv, InitConnect \/ InitCreate \/ InitClose
    PROVE  Rest'
<1> USE DEF client, server, history, DbSection, TypeOK
<1>1. BootInv'
    BY DEF IInv, BootInv, InitConnect, InitCreate, InitClose, NewSession, Attached, InDb
<1>2. AloneInv'
    BY DEF IInv, AloneInv, InDb, InitConnect, InitCreate, InitClose, NewSession, Attached, InDb
<1>3. LoginInv'
    BY DEF IInv, LoginInv, InDb, InitConnect, InitCreate, InitClose, NewSession, Attached, InDb
<1>4. ClientInv'
    <2>1. \A t \in Threads : pc[t] = "idle" /\ pc'[t] = "idle"
        BY DEF IInv, BootInv, InitConnect, InitCreate, InitClose
    <2>2. ~overlapped /\ ~connected => handle = Zeroed /\ live = {}
        BY <2>1 DEF IInv, ClientInv
    <2>3. UNCHANGED overlapped
        BY DEF InitConnect, InitCreate, InitClose
    <2>4. ~overlapped => live \subseteq {handle.vio}
        BY DEF IInv, ClientInv
    <2>5. CASE InitConnect
        <3>1. ~connected
            BY <2>5 DEF IInv, BootInv, InitConnect
        <3>2. CASE up /\ handle' = NewSession /\ connected' = TRUE /\ live' = live \cup {opened + 1}
            BY <2>1, <2>2, <2>3, <3>1, <3>2 DEF ClientInv, NewSession
        <3>3. CASE handle' = Zeroed /\ UNCHANGED <<connected, live>>
            BY <2>1, <2>2, <2>3, <3>1, <3>3 DEF ClientInv
        <3> QED
            BY <2>5, <3>2, <3>3 DEF InitConnect
    <2>6. CASE InitCreate
        BY <2>1, <2>2, <2>3, <2>4, <2>6 DEF ClientInv, InitCreate
    <2>7. CASE InitClose
        BY <2>1, <2>2, <2>3, <2>4, <2>7 DEF ClientInv, InitClose
    <2> QED
        BY <2>5, <2>6, <2>7
<1>5. ResultInv'
    <2>1. \A t \in Threads : pc[t] = "idle" /\ pc'[t] = "idle"
        BY DEF IInv, BootInv, InitConnect, InitCreate, InitClose
    <2>2. ~overlapped /\ ~connected => handle = Zeroed /\ live = {}
        BY <2>1 DEF IInv, ClientInv
    <2>3. UNCHANGED overlapped
        BY DEF InitConnect, InitCreate, InitClose
    <2>4. ~overlapped => handle.status # "result" /\ \A s \in Sessions : wire[s] = <<>>
        BY <2>1 DEF IInv, ResultInv
    <2>5. UNCHANGED wire
        BY DEF InitConnect, InitCreate, InitClose
    <2>6. handle' = handle \/ handle'.status = "ready"
        BY DEF InitConnect, InitCreate, InitClose, NewSession, Zeroed
    <2> QED
        BY <2>1, <2>3, <2>4, <2>5, <2>6 DEF ResultInv
<1>6. SessionInv'
    <2>1. \A t \in Threads : pc'[t] = "idle"
        BY DEF IInv, BootInv, InitConnect, InitCreate, InitClose
    <2>2. booted' = "running" => ~connected'
        BY DEF InitConnect, InitCreate, InitClose
    <2> QED
        BY <2>1, <2>2 DEF SessionInv
<1>7. ExactWithoutOverlap'
    <2>1. \A t \in Threads : pc'[t] = "idle"
        BY DEF IInv, BootInv, InitConnect, InitCreate, InitClose
    <2> QED
        BY <2>1 DEF ExactWithoutOverlap
<1>8. NoCrashAlone'
    BY DEF IInv, NoCrashAlone, InitConnect, InitCreate, InitClose, NewSession, Attached, InDb
<1>9. FailsSafe'
    <2>1. \A t \in Threads : pc'[t] = "idle"
        BY DEF IInv, BootInv, InitConnect, InitCreate, InitClose
    <2> QED
        BY <2>1 DEF FailsSafe
<1> QED
    BY <1>1, <1>2, <1>3, <1>4, <1>5, <1>6, <1>7, <1>8, <1>9 DEF Rest

\* An outage clears all sessions; a login that sees it is marked.
LEMMA RestServer ==
    ASSUME IInv, ServerDown \/ ServerUp
    PROVE  Rest'
<1> USE DEF client, server, history, DbSection, TypeOK
<1>1. BootInv'
    BY DEF IInv, BootInv, ServerDown, ServerUp, Attached, InDb
<1>2. AloneInv'
    BY DEF IInv, AloneInv, InDb, ServerDown, ServerUp, Attached, InDb
<1>3. LoginInv'
    BY DEF IInv, LoginInv, InDb, ServerDown, ServerUp, Attached, InDb
<1>4. ClientInv'
    BY DEF IInv, ClientInv, Zeroed, ServerDown, ServerUp, Attached, InDb
<1>5. ResultInv'
    BY DEF IInv, ResultInv, ServerDown, ServerUp, Attached, InDb
<1>6. SessionInv'
    BY DEF IInv, SessionInv, Attached, ServerDown, ServerUp, Attached, InDb
<1>7. ExactWithoutOverlap'
    BY DEF IInv, ExactWithoutOverlap, ExactStatus, ServerDown, ServerUp, Attached, InDb
<1>8. NoCrashAlone'
    BY DEF IInv, NoCrashAlone, ServerDown, ServerUp, Attached, InDb
<1>9. FailsSafe'
    BY DEF IInv, FailsSafe, ExactStatus, ServerDown, ServerUp
<1> QED
    BY <1>1, <1>2, <1>3, <1>4, <1>5, <1>6, <1>7, <1>8, <1>9 DEF Rest

\* The invariant holds when the server starts.
LEMMA IInvInit == Init => IInv
<1> SUFFICES ASSUME Init PROVE IInv
    OBVIOUS
<1>1. TypeOK
    BY TypeInit
<1>2. \A t \in Threads : pc[t] = "idle" /\ ~InDb(t)
    BY DEF Init, InDb, DbSection
<1>3. handle.status = "ready" /\ handle.vio = 0
    BY DEF Init, Zeroed
<1>4. BootInv /\ AloneInv /\ LoginInv
    BY <1>2 DEF Init, BootInv, AloneInv, LoginInv
<1>5. ClientInv /\ SessionInv
    BY <1>2, <1>3 DEF Init, ClientInv, SessionInv
<1>6. ResultInv
    BY <1>2, <1>3 DEF Init, ResultInv
<1>7. ExactWithoutOverlap /\ FailsSafe /\ NoCrashAlone
    BY <1>2 DEF Init, ExactWithoutOverlap, FailsSafe, NoCrashAlone
<1> QED
    BY <1>1, <1>4, <1>5, <1>6, <1>7 DEF IInv

\* Every step keeps the invariant.
LEMMA IInvStep == IInv /\ [Next]_vars => IInv'
<1> SUFFICES ASSUME IInv, [Next]_vars PROVE IInv'
    OBVIOUS
<1>1. TypeOK'
    BY TypeStep DEF IInv
<1>2. CASE InitConnect \/ InitCreate \/ InitClose
    BY <1>1, <1>2, RestInit DEF IInv, Rest
<1>3. ASSUME NEW t \in Threads, OnLogin(t) PROVE Rest'
    BY <1>3, RestOnLogin
<1>4. ASSUME NEW t \in Threads, Step(t) PROVE Rest'
    BY <1>4, RestConnect, RestConnectInit, RestRealConnect, RestConnectCheck, RestConnectFail,
       RestConnectSet, RestQuery, RestReadHeader, RestStoreResult, RestStoreNull, RestResponse
    DEF Step
<1>5. CASE ServerDown \/ ServerUp
    BY <1>1, <1>5, RestServer DEF IInv, Rest
<1>6. CASE UNCHANGED vars
    BY <1>6 DEF vars, client, server, history, IInv, TypeOK, BootInv, AloneInv, LoginInv,
        ClientInv, ResultInv, SessionInv, ExactWithoutOverlap, FailsSafe, ExactStatus, NoCrashAlone,
        InDb, Attached
<1> QED
    BY <1>1, <1>2, <1>3, <1>4, <1>5, <1>6 DEF Next, IInv, Rest

\* So it holds in every state.
LEMMA IInvHolds == Spec => []IInv
<1> QED
    BY IInvInit, IInvStep, PTL DEF Spec

\* A login that overlapped with no other, on a session that was not lost and
\* with the MySQL server up, gets the status of its own arguments and row.
THEOREM LoginsExact == Spec => []ExactWithoutOverlap
<1>1. IInv => ExactWithoutOverlap
    BY DEF IInv
<1> QED
    BY <1>1, IInvHolds, PTL

\* A login that nobody overlapped gets its own status or "-2", whatever failed
\* and also for ever after the session was lost.
THEOREM LoginsFailSafe == Spec => []FailsSafe
<1>1. IInv => FailsSafe
    BY DEF IInv
<1> QED
    BY <1>1, IInvHolds, PTL

\* The process dies of a NULL result only after an overlap or a lost session.
THEOREM NoCrash == Spec => []NoCrashAlone
<1>1. IInv => NoCrashAlone
    BY DEF IInv
<1> QED
    BY <1>1, IInvHolds, PTL

\* Without an overlap no session is left open but that of db_.
THEOREM NoLeak == Spec => []NoLeakAlone
<1>1. IInv => NoLeakAlone
    BY DEF IInv, ClientInv, NoLeakAlone
<1> QED
    BY <1>1, IInvHolds, PTL
=============================================================================
