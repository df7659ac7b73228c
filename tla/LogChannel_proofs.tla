-------------------------- MODULE LogChannel_proofs --------------------------
(***************************************************************************)
(* Proofs about LogChannel for any number of starts, any number of lines   *)
(* and any kWriteCntToFlush.                                               *)
(***************************************************************************)
EXTENDS LogChannel, TLAPS

-----------------------------------------------------------------------------
\* write_count_ counts up and wraps to 0 at kWriteCntToFlush.
LEMMA CountedWraps ==
    ASSUME NEW k \in 0 .. WriteCntToFlush - 1
    PROVE  Counted(k) = IF k + 1 = WriteCntToFlush THEN 0 ELSE k + 1
BY FlushAssumption DEF Counted

\* The types hold before the first start.
LEMMA TypeInit == Init => TypeOK
BY FlushAssumption, StartsAssumption DEF Init, TypeOK, Over, Looping, Listening

\* Every step of a process keeps the types.
LEMMA TypeStep == TypeOK /\ [Next]_vars => TypeOK'
<1> SUFFICES ASSUME TypeOK, [Next]_vars PROVE TypeOK'
    OBVIOUS
<1> USE DEF TypeOK, Over, Looping, Listening, file
<1>1. ASSUME NEW g \in Starts, Start(g) \/ Connect(g) \/ Stop(g) PROVE TypeOK'
    BY <1>1 DEF Start, Connect, Stop
<1>2. ASSUME NEW g \in Starts, Output(g) PROVE TypeOK'
    BY <1>2 DEF Output
<1>3. ASSUME NEW g \in Starts, RunStep(g) \/ Kill(g) PROVE TypeOK'
    BY <1>3 DEF RunStep, Bind, Listen, Wake, RecvFd, Unlink, Destroy, Kill
<1>4. ASSUME NEW g \in Starts, NEW d \in Starts, OnMessage(d, g) PROVE TypeOK'
    <2>1. Counted(count[d]) \in 0 .. WriteCntToFlush - 1
        BY CountedWraps, FlushAssumption
    <2> QED
        BY <1>4, <2>1 DEF OnMessage
<1>5. ASSUME NEW g \in Starts, NEW d \in Starts, OnConnection(d, g) PROVE TypeOK'
    BY <1>5 DEF OnConnection
<1>6. CASE UNCHANGED vars
    BY <1>6 DEF vars
<1> QED
    BY <1>1, <1>2, <1>3, <1>4, <1>5, <1>6 DEF Next

\* The types of processes, connections and files are right in every state.
THEOREM LogTypeCorrect == Spec => []TypeOK
<1> QED
    BY TypeInit, TypeStep, PTL DEF Spec
-----------------------------------------------------------------------------
\* The path belongs to the one daemon that is bound to it.
LEMMA PathStep == TypeOK /\ PathOfListener /\ [Next]_vars => PathOfListener'
<1> SUFFICES ASSUME TypeOK, PathOfListener, [Next]_vars PROVE PathOfListener'
    OBVIOUS
<1> USE StartsAssumption DEF TypeOK, PathOfListener, Over, Listening
<1>1. ASSUME NEW g \in Starts, Start(g) PROVE PathOfListener'
    BY <1>1 DEF Start
<1>2. ASSUME NEW g \in Starts, Connect(g) \/ Output(g) \/ Stop(g) PROVE PathOfListener'
    BY <1>2 DEF Connect, Output, Stop
<1>3. ASSUME NEW g \in Starts, Bind(g) PROVE PathOfListener'
    BY <1>3 DEF Bind
<1>4. ASSUME NEW g \in Starts, Listen(g) \/ Wake(g) \/ RecvFd(g) PROVE PathOfListener'
    BY <1>4 DEF Listen, Wake, RecvFd
<1>5. ASSUME NEW g \in Starts, Unlink(g) PROVE PathOfListener'
    BY <1>5 DEF Unlink
<1>6. ASSUME NEW g \in Starts, Destroy(g) \/ Kill(g) PROVE PathOfListener'
    BY <1>6 DEF Destroy, Kill
<1>7. ASSUME NEW g \in Starts, NEW d \in Starts, OnMessage(d, g) \/ OnConnection(d, g)
      PROVE  PathOfListener'
    BY <1>7 DEF OnMessage, OnConnection
<1>8. CASE UNCHANGED vars
    BY <1>8 DEF vars
<1> QED
    BY <1>1, <1>2, <1>3, <1>4, <1>5, <1>6, <1>7, <1>8 DEF Next, RunStep

\* A daemon that ends never takes the path from the one that listens.
THEOREM PathKept == Spec => []PathOfListener
<1>1. Init => PathOfListener
    BY DEF Init, PathOfListener, Listening
<1> QED
    BY <1>1, TypeInit, TypeStep, PathStep, PTL DEF Spec

\* A path left by a killed daemon stays, and no server gets past its Start.
THEOREM StaleForEver == Spec => StalePathStays
<1>1. ASSUME TypeOK, PathOfListener, [Next]_vars, Stale
      PROVE  path' = path /\ \A g \in Starts : main'[g] = "up" => main[g] = "up"
    <2> USE <1>1 DEF TypeOK, Stale, Over
    <2>1. ASSUME NEW g \in Starts, Unlink(g) PROVE FALSE
        BY <2>1 DEF Unlink, PathOfListener, Listening
    <2>2. ASSUME NEW g \in Starts, Start(g) \/ Connect(g) \/ Output(g) \/ Stop(g)
          PROVE  path' = path /\ \A h \in Starts : main'[h] = "up" => main[h] = "up"
        BY <2>2 DEF Start, Connect, Output, Stop, Listening
    <2>3. ASSUME NEW g \in Starts, Bind(g) \/ Listen(g) \/ Wake(g) \/ RecvFd(g) \/ Destroy(g) \/ Kill(g)
          PROVE  path' = path /\ main' = main
        BY <2>3 DEF Bind, Listen, Wake, RecvFd, Destroy, Kill
    <2>4. ASSUME NEW g \in Starts, NEW d \in Starts, OnMessage(d, g) \/ OnConnection(d, g)
          PROVE  path' = path /\ main' = main
        BY <2>4 DEF OnMessage, OnConnection
    <2>5. CASE UNCHANGED vars
        BY <2>5 DEF vars
    <2> QED
        BY <2>1, <2>2, <2>3, <2>4, <2>5 DEF Next, RunStep
<1>2. TypeOK /\ PathOfListener /\ [Next]_vars =>
        [Stale => path' = path /\ \A g \in Starts : main'[g] = "up" => main[g] = "up"]_vars
    BY <1>1
<1> QED
    BY <1>2, LogTypeCorrect, PathKept, PTL DEF Spec, StalePathStays
-----------------------------------------------------------------------------
\* Between two flushes write_count_ is at least the number of reads appended.
Batch == \A g \in Starts : pending[g] <= count[g]

\* OnMessage flushes when write_count_ wraps, OnConnection leaves it alone.
LEMMA BatchStep == TypeOK /\ Batch /\ [Next]_vars => Batch'
<1> SUFFICES ASSUME TypeOK, Batch, [Next]_vars PROVE Batch'
    OBVIOUS
<1>1. ASSUME NEW g \in Starts,
             Start(g) \/ Connect(g) \/ Output(g) \/ Stop(g) \/ RunStep(g) \/ Kill(g)
      PROVE  Batch'
    BY <1>1 DEF Batch, Start, Connect, Output, Stop, RunStep, Bind, Listen, Wake, RecvFd,
        Unlink, Destroy, Kill, file
<1>2. ASSUME NEW g \in Starts, NEW d \in Starts, OnMessage(d, g) PROVE Batch'
    <2>1. Counted(count[d]) = IF count[d] + 1 = WriteCntToFlush THEN 0 ELSE count[d] + 1
        BY CountedWraps DEF TypeOK
    <2> QED
        BY <1>2, <2>1, FlushAssumption DEF TypeOK, Batch, OnMessage
<1>3. ASSUME NEW g \in Starts, NEW d \in Starts, OnConnection(d, g) PROVE Batch'
    BY <1>3, FlushAssumption DEF TypeOK, Batch, OnConnection
<1>4. CASE UNCHANGED vars
    BY <1>4 DEF vars, Batch
<1> QED
    BY <1>1, <1>2, <1>3, <1>4 DEF Next

\* A killed daemon loses fewer than kWriteCntToFlush reads, however many
\* connections it had.
THEOREM UnflushedBounded == Spec => []BatchBound
<1>1. Init => Batch
    BY DEF Init, Batch
<1>2. TypeOK /\ Batch => BatchBound
    BY FlushAssumption DEF TypeOK, Batch, BatchBound
<1> QED
    BY <1>1, <1>2, TypeInit, TypeStep, BatchStep, PTL DEF Spec
-----------------------------------------------------------------------------
(***************************************************************************)
(* Why ServedByOwn holds.  Of the daemons, those of earlier starts are     *)
(* over if the start was quiet and those of later ones do not exist, so    *)
(* that Connect finds its own or none; and that one watches for its end.   *)
(***************************************************************************)
StartsInv ==
    \A g \in Starts :
        /\ main[g] = "off" <=> daemon[g] = "off"
        /\ main[g] # "off" => \A h \in Starts : h < g => main[h] = "gone"
        /\ MainRuns(g) => daemon[g] \notin {"closing", "unlinked"}
        /\ MainRuns(g) /\ quiet[g] => \A h \in Starts : h < g => daemon[h] \in Over

OwnInv == TypeOK /\ PathOfListener /\ StartsInv /\ ServedByOwn

\* Every step keeps the order of the starts.
LEMMA StartsStep == TypeOK /\ StartsInv /\ [Next]_vars => StartsInv'
<1> SUFFICES ASSUME TypeOK, StartsInv, [Next]_vars PROVE StartsInv'
    OBVIOUS
<1> USE DEF TypeOK, StartsInv, MainRuns, Over
<1>1. ASSUME NEW g \in Starts, Start(g) PROVE StartsInv'
    BY <1>1 DEF Start, Starts
<1>2. ASSUME NEW g \in Starts, Connect(g) PROVE StartsInv'
    BY <1>2 DEF Connect
<1>3. ASSUME NEW g \in Starts, Output(g) PROVE StartsInv'
    BY <1>3 DEF Output
<1>4. ASSUME NEW g \in Starts, Stop(g) PROVE StartsInv'
    BY <1>4 DEF Stop
<1>5. ASSUME NEW g \in Starts, Bind(g) \/ Listen(g) \/ Wake(g) \/ RecvFd(g) PROVE StartsInv'
    BY <1>5 DEF Bind, Listen, Wake, RecvFd
<1>6. ASSUME NEW g \in Starts, Unlink(g) \/ Destroy(g) PROVE StartsInv'
    BY <1>6 DEF Unlink, Destroy
<1>7. ASSUME NEW g \in Starts, Kill(g) PROVE StartsInv'
    BY <1>7 DEF Kill, DaemonRuns
<1>8. ASSUME NEW g \in Starts, NEW d \in Starts, OnMessage(d, g) \/ OnConnection(d, g)
      PROVE  StartsInv'
    BY <1>8 DEF OnMessage, OnConnection
<1>9. CASE UNCHANGED vars
    BY <1>9 DEF vars
<1> QED
    BY <1>1, <1>2, <1>3, <1>4, <1>5, <1>6, <1>7, <1>8, <1>9 DEF Next, RunStep

\* A main process that is about to connect, and started quietly, can only find
\* its own daemon, which then is not on its way out.
LEMMA ConnectFindsOwn ==
    ASSUME OwnInv, NEW g \in Starts, main[g] = "waiting", quiet[g],
           path # None, daemon[path] \in Listening
    PROVE  path = g /\ daemon[g] \in {"asleep", "watch"}
<1>1. path \in Starts
    BY DEF OwnInv, TypeOK
<1>2. CASE path < g
    BY <1>1, <1>2 DEF OwnInv, StartsInv, MainRuns, Over, Listening
<1>3. CASE g < path
    BY <1>1, <1>3 DEF OwnInv, StartsInv, Listening
<1>4. CASE path = g
    BY <1>4 DEF OwnInv, StartsInv, MainRuns, Listening
<1> QED
    BY <1>1, <1>2, <1>3, <1>4 DEF Starts

\* Every step keeps a quietly started server with its own daemon.
LEMMA OwnStep == OwnInv /\ [Next]_vars => ServedByOwn'
<1> SUFFICES ASSUME OwnInv, [Next]_vars PROVE ServedByOwn'
    OBVIOUS
<1> USE DEF ServedByOwn, TypeOK, StartsInv, MainRuns
<1>1. ASSUME NEW g \in Starts, Start(g) PROVE ServedByOwn'
    BY <1>1 DEF OwnInv, Start
<1>2. ASSUME NEW g \in Starts, Connect(g) PROVE ServedByOwn'
    BY <1>2, ConnectFindsOwn DEF OwnInv, Connect
<1>3. ASSUME NEW g \in Starts, Output(g) \/ Stop(g) PROVE ServedByOwn'
    BY <1>3 DEF OwnInv, Output, Stop
<1>4. ASSUME NEW g \in Starts, Bind(g) \/ Listen(g) \/ Wake(g) \/ RecvFd(g)
      PROVE  ServedByOwn'
    BY <1>4 DEF OwnInv, Bind, Listen, Wake, RecvFd
<1>5. ASSUME NEW g \in Starts, Unlink(g) \/ Destroy(g) \/ Kill(g) PROVE ServedByOwn'
    BY <1>5 DEF OwnInv, Unlink, Destroy, Kill
<1>6. ASSUME NEW g \in Starts, NEW d \in Starts, OnMessage(d, g) PROVE ServedByOwn'
    BY <1>6 DEF OwnInv, OnMessage
<1>7. ASSUME NEW g \in Starts, NEW d \in Starts, OnConnection(d, g) PROVE ServedByOwn'
    BY <1>7 DEF OwnInv, OnConnection, SocketHeld
<1>8. CASE UNCHANGED vars
    BY <1>8 DEF OwnInv, vars
<1> QED
    BY <1>1, <1>2, <1>3, <1>4, <1>5, <1>6, <1>7, <1>8 DEF Next, RunStep

\* A server that was started when no earlier daemon was left logs to its own,
\* which stays unless it is killed.
THEOREM QuietStartServed == Spec => []ServedByOwn
<1>1. Init => OwnInv
    BY TypeInit DEF Init, OwnInv, StartsInv, ServedByOwn, PathOfListener, MainRuns, Listening
<1>2. OwnInv /\ [Next]_vars => OwnInv'
    BY TypeStep, PathStep, StartsStep, OwnStep DEF OwnInv
<1>3. OwnInv => ServedByOwn
    BY DEF OwnInv
<1> QED
    BY <1>1, <1>2, <1>3, PTL DEF Spec
=============================================================================
