------------------------- MODULE Sqlite3Client_proofs -------------------------
(***************************************************************************)
(* Proofs about Sqlite3Client, for any clients, texts and bounds.          *)
(***************************************************************************)
EXTENDS Sqlite3Client, WellFoundedInduction, TLAPS

\* How a call ends keeps the types of ret and unit.
LEMMA EndsTyped ==
    ASSUME TypeOK, NEW c \in Clients, NEW op \in Calls \cup Ends,
           NEW ok \in BOOLEAN, Returns(c, op, ok)
    PROVE  /\ ret' \in [client : Clients, op : Calls \cup Ends, ok : BOOLEAN]
           /\ unit' \in [Clients -> BOOLEAN]
<1>1. ret' \in [client : Clients, op : Calls \cup Ends, ok : BOOLEAN]
  BY DEF Returns
<1>2. unit' = [unit EXCEPT ![c] =
         ok /\ (op = "Start" \/ (unit[c] /\ op \notin {"Commit", "Rollback", "Close", "Destroy"}))]
  BY DEF Returns
<1>3. unit \in [Clients -> BOOLEAN]
  BY DEF TypeOK
<1>4. unit' \in [Clients -> BOOLEAN]
  BY <1>2, <1>3
<1> QED
  BY <1>1, <1>4

\* Results.
LEMMA ResultTyped ==
    ASSUME NEW Row, NEW c \in Clients, NEW res \in [Clients -> Seq(Row)], NEW row \in Row
    PROVE  /\ [res EXCEPT ![c] = <<>>] \in [Clients -> Seq(Row)]
           /\ [res EXCEPT ![c] = Append(@, row)] \in [Clients -> Seq(Row)]
<1>1. res[c] \in Seq(Row)
  OBVIOUS
<1>2. <<>> \in Seq(Row) /\ Append(res[c], row) \in Seq(Row)
  BY <1>1
<1> QED
  BY <1>2

LEMMA CallTyped ==
    ASSUME TypeOK, NEW c \in Clients, Call(c)
    PROVE  calls' \in 0 .. MaxCalls
BY SizesAssumption DEF TypeOK, Call

LEMMA NoFileTyped == NoFile \in Files
<1>1. <<>> \in [{} -> Names \cup {Null}]
  OBVIOUS
<1>2. {} \in SUBSET Keys
  OBVIOUS
<1> QED
  BY <1>1, <1>2 DEF NoFile, Files

\* A file with other rows is one.
LEMMA FileTyped ==
    ASSUME NEW schema \in {"none", "old", "full"}, NEW ks \in SUBSET Keys,
           NEW rows \in [ks -> Names \cup {Null}]
    PROVE  [schema |-> schema, rows |-> rows] \in Files
BY DEF Files

LEMMA ConnectionsTyped ==
    /\ NewConnection \in Connections
    /\ \A x \in Connections : Ended(x) \in Connections /\ Rested(x) \in Connections
BY NoFileTyped DEF Connections, NewConnection, Ended, Rested, Locks

LEMMA ViewTyped ==
    ASSUME TypeOK, NEW c \in Clients
    PROVE  View(c) \in Files
BY DEF TypeOK, View, Connections

\* A statement that makes a file of what a client sees keeps the types.
LEMMA ExecTyped ==
    ASSUME TypeOK, NEW c \in Clients, NEW op \in Calls, NEW valid, NEW dirty \in BOOLEAN,
           NEW file \in Files, ExecCommand(c, op, valid, dirty, file)
    PROVE  TypeOK'
<1>1. calls' \in 0 .. MaxCalls
  BY CallTyped DEF ExecCommand
<1>2. Returns(c, op, TRUE) \/ Returns(c, op, FALSE)
  BY DEF ExecCommand, Returns
<1>3. /\ ret' \in [client : Clients, op : Calls \cup Ends, ok : BOOLEAN]
      /\ unit' \in [Clients -> BOOLEAN]
  BY <1>2, EndsTyped 
<1>4. disk' \in Files
  BY DEF ExecCommand, TypeOK
<1>5. conn[c] \in Connections /\ conn \in [Clients -> Connections]
  BY DEF TypeOK
<1>6. [conn[c] EXCEPT !.lock = IF Writing(c) THEN @ ELSE "reserved",
                      !.work = file, !.dirty = @ \/ dirty] \in Connections
  BY <1>5 DEF Connections, Locks
<1>7. conn' \in [Clients -> Connections]
  <2>1. CASE conn' = conn
    BY <2>1, <1>5
  <2>2. CASE conn' = [conn EXCEPT ![c].lock = IF Writing(c) THEN @ ELSE "reserved",
                                  ![c].work = file, ![c].dirty = @ \/ dirty]
    BY <2>2, <1>5, <1>6
  <2>3. CASE conn' = [conn EXCEPT ![c] = Ended(@)]
    BY <2>3, <1>5, ConnectionsTyped
  <2> QED
    BY <2>1, <2>2, <2>3 DEF ExecCommand
<1> QED
  BY <1>1, <1>3, <1>4, <1>7 DEF TypeOK, ExecCommand

LEMMA InsertTyped ==
    ASSUME TypeOK, NEW c \in Clients, NEW flagged \in BOOLEAN, NEW name \in Names,
           Insert(c, flagged, name)
    PROVE  TypeOK'
<1> DEFINE file == View(c)
           with(k) == [file EXCEPT !.rows =
                        [j \in DOMAIN @ \cup {k} |-> IF j = k THEN name ELSE @[j]]]
<1>1. PICK k \in Keys : ExecCommand(c, "Insert", flagged /\ file.schema = "full", TRUE, with(k))
  BY DEF Insert
<1>2. file \in Files
  BY ViewTyped
<1>3. PICK ks \in SUBSET Keys : file.rows \in [ks -> Names \cup {Null}]
  BY <1>2 DEF Files
<1>4. [j \in ks \cup {k} |-> IF j = k THEN name ELSE file.rows[j]]
        \in [ks \cup {k} -> Names \cup {Null}]
  BY <1>3
<1>5. with(k) = [schema |-> file.schema,
                 rows |-> [j \in ks \cup {k} |-> IF j = k THEN name ELSE file.rows[j]]]
  BY <1>2, <1>3 DEF Files
<1>6. file.schema \in {"none", "old", "full"}
  BY <1>2 DEF Files
<1>7. with(k) \in Files
  BY <1>4, <1>5, <1>6, FileTyped
<1> QED
  BY <1>1, <1>7, ExecTyped DEF Calls

LEMMA ModifyTyped ==
    ASSUME TypeOK, NEW c \in Clients, NEW text \in Names, NEW name \in Names,
           Modify(c, text, name)
    PROVE  TypeOK'
<1> DEFINE file == View(c)
           hit  == Selected(file, text)
           made == [file EXCEPT !.rows =
                      [k \in DOMAIN @ |-> IF k \in hit /\ name # ColumnName THEN name ELSE @[k]]]
<1>1. ExecCommand(c, "Modify", file.schema = "full", hit # {}, made)
  BY DEF Modify
<1>2. file \in Files
  BY ViewTyped
<1>3. PICK ks \in SUBSET Keys : file.rows \in [ks -> Names \cup {Null}]
  BY <1>2 DEF Files
<1> HIDE DEF hit
<1>4. [k \in ks |-> IF k \in hit /\ name # ColumnName THEN name ELSE file.rows[k]]
        \in [ks -> Names \cup {Null}]
  BY <1>3
<1>5. made = [schema |-> file.schema, rows |->
               [k \in ks |-> IF k \in hit /\ name # ColumnName THEN name ELSE file.rows[k]]]
  BY <1>2, <1>3 DEF Files
<1>6. file.schema \in {"none", "old", "full"}
  BY <1>2 DEF Files
<1>7. made \in Files
  BY <1>4, <1>5, <1>6, FileTyped
<1>8. (hit # {}) \in BOOLEAN
  OBVIOUS
<1> HIDE DEF made
<1> QED
  BY <1>1, <1>7, <1>8, ExecTyped DEF Calls

LEMMA DeleteTyped ==
    ASSUME TypeOK, NEW c \in Clients, NEW conditioned \in BOOLEAN, Delete(c, conditioned)
    PROVE  TypeOK'
<1>1. View(c) \in Files
  BY ViewTyped
<1>2. [View(c) EXCEPT !.rows = <<>>] = [schema |-> View(c).schema, rows |-> <<>>]
  BY <1>1 DEF Files
<1>3. View(c).schema \in {"none", "old", "full"}
  BY <1>1 DEF Files
<1>4. <<>> \in [{} -> Names \cup {Null}]
  OBVIOUS
<1>5. {} \in SUBSET Keys
  OBVIOUS
<1>6. [View(c) EXCEPT !.rows = <<>>] \in Files
  BY <1>2, <1>3, <1>4, <1>5, FileTyped
<1> QED
  BY <1>6, ExecTyped DEF Delete, Calls

\* What the client of a step has of its connection and Query.
LEMMA ClientTyped ==
    ASSUME TypeOK, NEW c \in Clients
    PROVE  /\ conn \in [Clients -> Connections]
           /\ conn[c] \in Connections
           /\ query[c] \in [on : BOOLEAN, own : Names, at : {0} \cup Keys]
           /\ query \in [Clients -> [on : BOOLEAN, own : Names, at : {0} \cup Keys]]
           /\ NoQuery \in [on : BOOLEAN, own : Names, at : {0} \cup Keys]
BY NamesAssumption DEF TypeOK, NoQuery

\* The first row that a Query has not delivered is one of the table, and a
\* table loaded with it has only texts.
LEMMA NextRow ==
    ASSUME TypeOK, NEW c \in Clients, Rest(c) # {}
    PROVE  /\ NextKey(c) \in Rest(c)
           /\ \A k \in Rest(c) : NextKey(c) <= k
           /\ NextKey(c) \in Keys
           /\ Loaded(c, NextKey(c)) \in [user_id : Keys, user_name : Names]
<1>1. View(c) \in Files
  BY ViewTyped
<1>2. PICK ks \in SUBSET Keys : View(c).rows \in [ks -> Names \cup {Null}]
  BY <1>1 DEF Files
<1>3. Rest(c) \subseteq ks
  BY <1>2 DEF Rest
<1>4. Rest(c) \subseteq Nat
  <2>1. Keys \subseteq Nat
    BY SizesAssumption DEF Keys
  <2> QED
    BY <1>3, <2>1
<1> DEFINE R == {ss \in Nat \X Nat : ss[1] < ss[2]}
<1>5. IsWellFoundedOn(R, Nat)
  BY NatLessThanWellFounded DEF OpToRel
<1> HIDE DEF R
<1>6. PICK m \in Rest(c) : \A y \in Rest(c) : <<y, m>> \notin R
  BY <1>4, <1>5, WFMin
<1>7. \A y \in Rest(c) : m <= y
  <2> SUFFICES ASSUME NEW y \in Rest(c), ~(m <= y) PROVE FALSE
    OBVIOUS
  <2>1. m \in Nat /\ y \in Nat /\ y < m
    BY <1>4, <1>6
  <2>2. <<y, m>> \in R
    BY <2>1 DEF R
  <2> QED
    BY <2>2, <1>6
<1>8. NextKey(c) \in Rest(c) /\ \A k \in Rest(c) : NextKey(c) <= k
  BY <1>6, <1>7 DEF NextKey
<1>9. NextKey(c) \in ks
  BY <1>3, <1>8
<1>10. View(c).rows[NextKey(c)] \in Names \cup {Null} /\ NextKey(c) \in Keys
  BY <1>2, <1>9
<1>11. query[c].own \in Names
  BY ClientTyped
<1>12. Loaded(c, NextKey(c)) \in [user_id : Keys, user_name : Names]
  BY <1>10, <1>11 DEF Loaded
<1> QED
  BY <1>8, <1>10, <1>12

LEMMA QueryEndsTyped ==
    ASSUME TypeOK, NEW c \in Clients, NEW ok \in BOOLEAN, QueryEnds(c, ok)
    PROVE  TypeOK'
<1>1. Returns(c, "Query", ok)
  BY DEF QueryEnds
<1>2. /\ ret' \in [client : Clients, op : Calls \cup Ends, ok : BOOLEAN]
      /\ unit' \in [Clients -> BOOLEAN]
  BY <1>1, EndsTyped DEF Calls
<1>3. conn' \in [Clients -> Connections]
  BY ClientTyped, ConnectionsTyped DEF QueryEnds
<1>4. query' \in [Clients -> [on : BOOLEAN, own : Names, at : {0} \cup Keys]]
  BY ClientTyped DEF QueryEnds
<1> QED
  BY <1>2, <1>3, <1>4 DEF QueryEnds, TypeOK

\* A call that changes at most the connection of c.
LEMMA ConnTyped ==
    ASSUME TypeOK, NEW c \in Clients, NEW op \in Calls, NEW ok \in BOOLEAN,
           Call(c), Returns(c, op, ok),
           conn' \in [Clients -> Connections], disk' \in Files,
           UNCHANGED <<orphan, query, result, threw>>
    PROVE  TypeOK'
<1>1. calls' \in 0 .. MaxCalls
  BY CallTyped
<1>2. /\ ret' \in [client : Clients, op : Calls \cup Ends, ok : BOOLEAN]
      /\ unit' \in [Clients -> BOOLEAN]
  BY EndsTyped
<1> QED
  BY <1>1, <1>2 DEF TypeOK

LEMMA TypeStep == TypeOK /\ [Next]_vars => TypeOK'
<1> SUFFICES ASSUME TypeOK, [Next]_vars PROVE TypeOK'
  OBVIOUS
<1>1. CASE UNCHANGED vars
  BY <1>1 DEF vars, TypeOK
<1> SUFFICES ASSUME NEW c \in Clients,
      \/ Connect(c) \/ Close(c) \/ Destroy(c) \/ Crash(c)
      \/ StartTransaction(c) \/ CommitTransaction(c) \/ RollbackTransaction(c)
      \/ Create(c) \/ Drop(c)
      \/ \E flagged \in BOOLEAN, name \in Names : Insert(c, flagged, name)
      \/ \E conditioned \in BOOLEAN : Delete(c, conditioned)
      \/ \E text, name \in Names : Modify(c, text, name)
      \/ \E own \in Names : Query(c, own)
      \/ ExecCallback(c) \/ LoadThrows(c) \/ UnknownName(c)
      \/ StepFails(c) \/ QueryDone(c)
    PROVE TypeOK'
  BY <1>1 DEF Next
<1>c. conn \in [Clients -> Connections] /\ conn[c] \in Connections /\ disk \in Files
  BY ClientTyped DEF TypeOK
<1>r. [result EXCEPT ![c] = <<>>] \in [Clients -> Seq([user_id : Keys, user_name : Names])]
  <2>1. <<>> \in Seq([user_id : Keys, user_name : Names])
    OBVIOUS
  <2> QED
    BY <2>1 DEF TypeOK
<1>2. CASE Connect(c)
  <2>1. \A db \in {"null", "sick", "open"} : [conn EXCEPT ![c].db = db] \in [Clients -> Connections]
    BY <1>c DEF Connections
  <2>2. conn' \in [Clients -> Connections] /\ disk' \in Files
    BY <1>2, <1>c, <2>1 DEF Connect
  <2>3. \E ok \in BOOLEAN : Returns(c, "Connect", ok)
    BY <1>2 DEF Connect, Returns
  <2> QED
    BY <1>2, <2>2, <2>3, ConnTyped DEF Connect, Calls
<1>3. CASE Close(c)
  <2>1. conn' \in [Clients -> Connections] /\ disk' \in Files
    BY <1>3, <1>c, ConnectionsTyped DEF Close
  <2>2. \E ok \in BOOLEAN : Returns(c, "Close", ok)
    BY <1>3 DEF Close, Returns
  <2> QED
    BY <1>3, <2>1, <2>2, ConnTyped DEF Close, Calls
<1>4. CASE Destroy(c)
  <2>1. conn' \in [Clients -> Connections]
    BY <1>4, <1>c, ConnectionsTyped DEF Destroy
  <2>2. conn[c].lock \in Locks
    BY <1>c DEF Connections
  <2>3. orphan' \in [Clients -> SUBSET Locks]
    BY <1>4, <2>2 DEF Destroy, TypeOK
  <2>4. /\ ret' \in [client : Clients, op : Calls \cup Ends, ok : BOOLEAN]
        /\ unit' \in [Clients -> BOOLEAN]
    BY <1>4, EndsTyped DEF Destroy, Returns, Ends
  <2>5. calls' \in 0 .. MaxCalls
    BY <1>4, CallTyped DEF Destroy
  <2> QED
    BY <1>4, <2>1, <2>3, <2>4, <2>5 DEF Destroy, TypeOK
<1>5. CASE Crash(c)
  <2>1. conn' \in [Clients -> Connections]
    BY <1>5, <1>c, ConnectionsTyped DEF Crash
  <2>2. query' \in [Clients -> [on : BOOLEAN, own : Names, at : {0} \cup Keys]]
    BY <1>5, ClientTyped DEF Crash
  <2>3. /\ ret' \in [client : Clients, op : Calls \cup Ends, ok : BOOLEAN]
        /\ unit' \in [Clients -> BOOLEAN]
    BY <1>5, EndsTyped DEF Crash, Returns, Ends
  <2>4. result' \in [Clients -> Seq([user_id : Keys, user_name : Names])]
    BY <1>5, <1>r DEF Crash
  <2>5. /\ orphan' \in [Clients -> SUBSET Locks]
        /\ threw' \in [Clients -> BOOLEAN]
        /\ disk' \in Files /\ calls' \in 0 .. MaxCalls
    BY <1>5 DEF Crash, TypeOK
  <2> QED
    BY <2>1, <2>2, <2>3, <2>4, <2>5 DEF TypeOK
<1>6. CASE StartTransaction(c)
  <2>1. conn' \in [Clients -> Connections] /\ disk' \in Files
    BY <1>6, <1>c DEF StartTransaction, Connections
  <2>2. \E ok \in BOOLEAN : Returns(c, "Start", ok)
    BY <1>6 DEF StartTransaction, Returns
  <2> QED
    BY <1>6, <2>1, <2>2, ConnTyped DEF StartTransaction, Calls
<1>7. CASE CommitTransaction(c)
  <2>1. [conn EXCEPT ![c].lock = "pending"] \in [Clients -> Connections]
    BY <1>c DEF Connections, Locks
  <2>2. conn' \in [Clients -> Connections] /\ disk' \in Files
    BY <1>7, <1>c, <2>1, ConnectionsTyped, ViewTyped DEF CommitTransaction, SendsCommit
  <2>3. \E ok \in BOOLEAN : Returns(c, "Commit", ok)
    BY <1>7 DEF CommitTransaction, SendsCommit, Returns
  <2> QED
    BY <1>7, <2>2, <2>3, ConnTyped DEF CommitTransaction, Calls
<1>8. CASE RollbackTransaction(c)
  <2>1. conn' \in [Clients -> Connections] /\ disk' \in Files
    BY <1>8, <1>c, ConnectionsTyped DEF RollbackTransaction
  <2>2. conn[c].tx \in BOOLEAN
    BY <1>c DEF Connections
  <2>3. Returns(c, "Rollback", conn[c].tx)
    BY <1>8 DEF RollbackTransaction, Returns
  <2> QED
    BY <1>8, <2>1, <2>2, <2>3, ConnTyped DEF RollbackTransaction, Calls
<1>9. CASE Create(c)
  <2>1. CASE ExecCommand(c, "Create", TRUE, TRUE, [schema |-> "full", rows |-> <<>>])
    <3>1. <<>> \in [{} -> Names \cup {Null}] /\ {} \in SUBSET Keys
      OBVIOUS
    <3>2. [schema |-> "full", rows |-> <<>>] \in Files
      BY <3>1, FileTyped
    <3> QED
      BY <2>1, <3>2, ExecTyped DEF Calls
  <2>2. CASE ~ExecCommand(c, "Create", TRUE, TRUE, [schema |-> "full", rows |-> <<>>])
    <3>1. [conn EXCEPT ![c].lock = "shared"] \in [Clients -> Connections]
      BY <1>c DEF Connections, Locks
    <3>2. conn' \in [Clients -> Connections] /\ disk' \in Files
      BY <1>9, <2>2, <1>c, <3>1 DEF Create
    <3>3. \E ok \in BOOLEAN : Returns(c, "Create", ok)
      BY <1>9, <2>2 DEF Create, Returns
    <3>4. Call(c) /\ UNCHANGED <<orphan, query, result, threw>>
      BY <1>9, <2>2 DEF Create
    <3> QED
      BY <3>2, <3>3, <3>4, ConnTyped DEF Calls
  <2> QED
    BY <2>1, <2>2
<1>10. CASE Drop(c)
  BY <1>10, ExecTyped, NoFileTyped DEF Drop, Calls
<1>11. CASE \E flagged \in BOOLEAN, name \in Names : Insert(c, flagged, name)
  BY <1>11, InsertTyped
<1>12. CASE \E conditioned \in BOOLEAN : Delete(c, conditioned)
  BY <1>12, DeleteTyped
<1>13. CASE \E text, name \in Names : Modify(c, text, name)
  BY <1>13, ModifyTyped
<1>14. CASE \E own \in Names : Query(c, own)
  <2>1. PICK own \in Names : Query(c, own)
    BY <1>14
  <2>2. result' \in [Clients -> Seq([user_id : Keys, user_name : Names])]
    BY <2>1, <1>r DEF Query
  <2>3. calls' \in 0 .. MaxCalls
    BY <2>1, CallTyped DEF Query
  <2>4. CASE UNCHANGED <<ret, unit>>
    <3>1. [conn EXCEPT ![c].lock = IF @ = "none" THEN "shared" ELSE @] \in [Clients -> Connections]
      BY <1>c DEF Connections, Locks
    <3>2. conn' \in [Clients -> Connections]
      BY <2>1, <1>c, <3>1 DEF Query
    <3>3. query' = query \/ query' = [query EXCEPT ![c] = [on |-> TRUE, own |-> own, at |-> 0]]
      BY <2>1 DEF Query
    <3>4. query' \in [Clients -> [on : BOOLEAN, own : Names, at : {0} \cup Keys]]
      <4> DEFINE Q == [on : BOOLEAN, own : Names, at : {0} \cup Keys]
      <4>1. [on |-> TRUE, own |-> own, at |-> 0] \in Q
        OBVIOUS
      <4>2. query \in [Clients -> Q]
        BY ClientTyped
      <4> HIDE DEF Q
      <4>3. query' \in [Clients -> Q]
        BY <3>3, <4>1, <4>2
      <4> QED
        BY <4>3 DEF Q
    <3> QED
      BY <2>1, <2>2, <2>3, <2>4, <3>2, <3>4 DEF Query, TypeOK
  <2>5. CASE ~UNCHANGED <<ret, unit>>
    <3>1. Returns(c, "Query", FALSE)
      BY <2>1, <2>5 DEF Query
    <3>2. /\ ret' \in [client : Clients, op : Calls \cup Ends, ok : BOOLEAN]
          /\ unit' \in [Clients -> BOOLEAN]
      BY <3>1, EndsTyped DEF Calls
    <3>3. UNCHANGED <<query, conn, disk, orphan, threw>>
      BY <2>1, <2>5 DEF Query
    <3> QED
      BY <2>2, <2>3, <3>2, <3>3 DEF TypeOK
  <2> QED
    BY <2>4, <2>5
<1>15. CASE ExecCallback(c)
  <2>1. /\ NextKey(c) \in Keys
        /\ Loaded(c, NextKey(c)) \in [user_id : Keys, user_name : Names]
    BY <1>15, NextRow DEF ExecCallback
  <2>2. result \in [Clients -> Seq([user_id : Keys, user_name : Names])]
    BY DEF TypeOK
  <2>4. result' \in [Clients -> Seq([user_id : Keys, user_name : Names])]
    BY <1>15, <2>1, <2>2, ResultTyped DEF ExecCallback
  <2>5. query' \in [Clients -> [on : BOOLEAN, own : Names, at : {0} \cup Keys]]
    BY <1>15, <2>1, ClientTyped DEF ExecCallback
  <2> QED
    BY <1>15, <2>4, <2>5 DEF ExecCallback, TypeOK
<1>16. CASE LoadThrows(c)
  <2>1. conn' \in [Clients -> Connections]
    BY <1>16, <1>c DEF LoadThrows, Connections
  <2>2. query' \in [Clients -> [on : BOOLEAN, own : Names, at : {0} \cup Keys]]
    BY <1>16, ClientTyped DEF LoadThrows
  <2>3. /\ ret' \in [client : Clients, op : Calls \cup Ends, ok : BOOLEAN]
        /\ unit' \in [Clients -> BOOLEAN]
    BY <1>16, EndsTyped DEF LoadThrows, Returns, Ends
  <2> QED
    BY <1>16, <2>1, <2>2, <2>3 DEF LoadThrows, TypeOK
<1>17. CASE UnknownName(c)
  BY <1>17, QueryEndsTyped DEF UnknownName
<1>18. CASE StepFails(c)
  BY <1>18, QueryEndsTyped DEF StepFails
<1>19. CASE QueryDone(c)
  BY <1>19, QueryEndsTyped DEF QueryDone
<1> QED
  BY <1>2, <1>3, <1>4, <1>5, <1>6, <1>7, <1>8, <1>9, <1>10, <1>11, <1>12, <1>13,
     <1>14, <1>15, <1>16, <1>17, <1>18, <1>19

LEMMA TypeInit == Init => TypeOK
<1> SUFFICES ASSUME Init PROVE TypeOK
  OBVIOUS
<1>1. conn \in [Clients -> Connections]
  <2>1. [NewConnection EXCEPT !.db = "open"] \in Connections
    BY ConnectionsTyped DEF Connections
  <2> QED
    BY <2>1, ConnectionsTyped DEF Init
<1>2. query \in [Clients -> [on : BOOLEAN, own : Names, at : {0} \cup Keys]]
  BY NamesAssumption DEF Init, NoQuery
<1>3. ret \in [client : Clients, op : Calls \cup Ends, ok : BOOLEAN]
  BY DEF Init, Calls
<1>4. result \in [Clients -> Seq([user_id : Keys, user_name : Names])]
  BY DEF Init
<1> QED
  BY <1>1, <1>2, <1>3, <1>4, SizesAssumption DEF Init, TypeOK

\* TypeOK: whatever calls the clients make and however SQLite answers, the
\* Results hold texts and the connections are what their types say.
THEOREM SqliteTypeCorrect == Spec => []TypeOK
  BY TypeInit, TypeStep, PTL DEF Spec
-----------------------------------------------------------------------------
(***************************************************************************)
(* The inductive invariant.                                                *)
(***************************************************************************)
Inv(c) == LockInv(c) /\ WorkInv(c) /\ QueryInv(c)

\* A step of another client: it changes the file only if d has no lock.
Kept(d) ==
    /\ conn'[d] = conn[d] /\ orphan'[d] = orphan[d]
    /\ query'[d] = query[d] /\ result'[d] = result[d]
    /\ unit'[d] = unit[d] /\ threw'[d] = threw[d]
    /\ disk' = disk \/ conn[d].lock = "none"

LEMMA KeptInv ==
    ASSUME NEW d \in Clients, Inv(d), Kept(d)
    PROVE  Inv(d)'
<1>1. LockInv(d)'
  BY DEF Inv, LockInv, Kept
<1>2. WorkInv(d)'
  BY DEF Inv, WorkInv, Kept, Writing
<1>3. query[d].on => View(d)' = View(d)
  BY DEF Inv, LockInv, Kept, View, Writing
<1>4. query[d].on => \A k : Loaded(d, k)' = Loaded(d, k)
  BY <1>3 DEF Kept, Loaded
<1>5. QueryInv(d)'
  BY <1>3, <1>4 DEF Inv, QueryInv, Kept
<1> QED
  BY <1>1, <1>2, <1>5 DEF Inv

LEMMA EndedFacts ==
    ASSUME NEW x \in Connections
    PROVE  /\ Ended(x).db = x.db /\ Ended(x).stuck = x.stuck
           /\ Ended(x).tx = FALSE /\ Ended(x).dirty = FALSE
           /\ Ended(x).lock = IF x.stuck THEN "shared" ELSE "none"
BY DEF Ended, Connections

\* How a call ends says what becomes of the units.
LEMMA UnitStep ==
    ASSUME TypeOK, NEW c \in Clients, NEW op, NEW ok \in BOOLEAN,
           Returns(c, op, ok)
    PROVE  /\ \A d \in Clients \ {c} : unit'[d] = unit[d]
           /\ unit'[c] => ok /\ (op = "Start" \/ unit[c])
           /\ op \in {"Commit", "Rollback", "Close", "Destroy"} => ~unit'[c]
<1>1. unit' = [unit EXCEPT ![c] =
         ok /\ (op = "Start" \/ (unit[c] /\ op \notin {"Commit", "Rollback", "Close", "Destroy"}))]
  BY DEF Returns
<1>2. unit \in [Clients -> BOOLEAN]
  BY DEF TypeOK
<1> QED
  BY <1>1, <1>2

\* A connection without a transaction writes nothing, and one that may commit
\* is alone on the file.
LEMMA Alone ==
    ASSUME TypeOK, NEW c \in Clients, NEW d \in Clients \ {c}, CanCommit(c)
    PROVE  conn[d].lock = "none"
BY DEF CanCommit, Others

LEMMA ExecInv ==
    ASSUME TypeOK, NEW c \in Clients, Inv(c), NEW op \in Calls, NEW valid,
           NEW dirty \in BOOLEAN, NEW file, dirty \/ file = View(c),
           op \notin {"Start"}, ExecCommand(c, op, valid, dirty, file)
    PROVE  Inv(c)' /\ \A d \in Clients \ {c} : Kept(d)
<1>c. conn \in [Clients -> Connections] /\ conn[c] \in Connections
  BY ClientTyped
<1>1. ~query[c].on /\ UNCHANGED <<orphan, query, result, threw>>
  BY DEF ExecCommand, Call
<1>2. /\ \A d \in Clients \ {c} : unit'[d] = unit[d]
      /\ unit'[c] => unit[c]
      /\ Returns(c, op, FALSE) => ~unit'[c]
  <2>1. Returns(c, op, TRUE) \/ Returns(c, op, FALSE)
    BY DEF ExecCommand, Returns
  <2>2. Returns(c, op, FALSE) => ~unit'[c]
    BY UnitStep
  <2>3. \A ok \in BOOLEAN : Returns(c, op, ok) =>
          (\A d \in Clients \ {c} : unit'[d] = unit[d]) /\ (unit'[c] => unit[c])
    BY UnitStep
  <2> QED
    BY <2>1, <2>2, <2>3
<1>3. QueryInv(c)'
  BY <1>1 DEF QueryInv
<1>4. CASE UNCHANGED <<disk, conn>>
  <2>1. LockInv(c)' /\ WorkInv(c)'
    BY <1>1, <1>2, <1>4 DEF Inv, LockInv, WorkInv, Writing
  <2> QED
    BY <1>1, <1>2, <1>3, <1>4, <2>1 DEF Inv, Kept
<1>5. CASE /\ conn[c].tx /\ UNCHANGED disk
           /\ conn' = [conn EXCEPT ![c].lock = IF Writing(c) THEN @ ELSE "reserved",
                                   ![c].work = file, ![c].dirty = @ \/ dirty]
  <2>1. /\ conn'[c].lock = IF Writing(c) THEN conn[c].lock ELSE "reserved"
        /\ conn'[c].work = file /\ conn'[c].dirty = (conn[c].dirty \/ dirty)
        /\ conn'[c].tx = conn[c].tx /\ conn'[c].stuck = conn[c].stuck
    BY <1>5, <1>c DEF Connections
  <2>2. \A d \in Clients \ {c} : conn'[d] = conn[d]
    BY <1>5, <1>c
  <2>3. Writing(c)'
    BY <2>1 DEF Writing
  <2>4. ~conn'[c].dirty => file = disk
    BY <2>1 DEF Inv, WorkInv, View
  <2>5. LockInv(c)'
    BY <1>1, <1>5, <2>1 DEF Inv, LockInv
  <2>6. WorkInv(c)'
    BY <1>2, <1>5, <2>1, <2>3, <2>4 DEF Inv, WorkInv
  <2> QED
    BY <1>1, <1>2, <1>3, <1>5, <2>2, <2>5, <2>6 DEF Inv, Kept
<1>6. CASE ~conn[c].tx /\ (dirty => CanCommit(c)) /\ disk' = file /\ UNCHANGED conn
  <2>1. ~Writing(c) /\ ~conn[c].dirty
    BY <1>6 DEF Inv, WorkInv
  <2>2. \A d \in Clients \ {c} : disk' = disk \/ conn[d].lock = "none"
    BY <1>6, <2>1, Alone DEF View
  <2>3. LockInv(c)' /\ WorkInv(c)'
    BY <1>1, <1>2, <1>6, <2>1 DEF Inv, LockInv, WorkInv, Writing
  <2> QED
    BY <1>1, <1>2, <1>3, <1>6, <2>2, <2>3 DEF Inv, Kept
<1>7. CASE /\ conn' = [conn EXCEPT ![c] = Ended(@)] /\ UNCHANGED disk
           /\ Returns(c, op, FALSE)
  <2>1. conn'[c] = Ended(conn[c]) /\ \A d \in Clients \ {c} : conn'[d] = conn[d]
    BY <1>7, <1>c
  <2>3. /\ conn'[c].tx = FALSE /\ conn'[c].dirty = FALSE /\ conn'[c].stuck = conn[c].stuck
        /\ conn'[c].lock = IF conn[c].stuck THEN "shared" ELSE "none"
    BY <2>1, <1>c, EndedFacts
  <2>2. LockInv(c)' /\ WorkInv(c)'
    BY <1>1, <1>2, <1>7, <2>3 DEF Inv, LockInv, WorkInv, Writing
  <2> QED
    BY <1>1, <1>2, <1>3, <1>7, <2>1, <2>2 DEF Inv, Kept
<1> QED
  BY <1>4, <1>5, <1>6, <1>7 DEF ExecCommand, Returns

\* A call that ends no Query and leaves the file, to which the connection of c
\* has at most a lock for a transaction or an unfinalized statement.
LEMMA RestInv ==
    ASSUME TypeOK, NEW c \in Clients, Inv(c), ~query'[c].on,
           \A d \in Clients \ {c} :
             /\ conn'[d] = conn[d] /\ orphan'[d] = orphan[d]
             /\ query'[d] = query[d] /\ result'[d] = result[d]
             /\ unit'[d] = unit[d] /\ threw'[d] = threw[d],
           disk' = disk,
           conn'[c].lock # "none" => conn'[c].tx \/ conn'[c].stuck,
           conn'[c].stuck \/ orphan'[c] # {} => threw'[c],
           unit'[c] => conn'[c].tx,
           \/ conn'[c].lock \notin {"reserved", "pending"} /\ ~conn'[c].dirty
           \/ /\ conn'[c].tx
              /\ Writing(c) /\ conn'[c].lock \in {"reserved", "pending"}
              /\ conn'[c].dirty = conn[c].dirty /\ conn'[c].work = conn[c].work
    PROVE  Inv(c)' /\ \A d \in Clients \ {c} : Kept(d)
<1>1. LockInv(c)'
  BY DEF LockInv
<1>2. QueryInv(c)'
  BY DEF QueryInv
<1>3. WorkInv(c)'
  BY DEF Inv, WorkInv, Writing
<1> QED
  BY <1>1, <1>2, <1>3 DEF Inv, Kept

\* A Query that ends leaves a connection as RestInv asks.
LEMMA QueryEndsInv ==
    ASSUME TypeOK, NEW c \in Clients, Inv(c), NEW ok \in BOOLEAN, QueryEnds(c, ok)
    PROVE  Inv(c)' /\ \A d \in Clients \ {c} : Kept(d)
<1>c. conn \in [Clients -> Connections] /\ conn[c] \in Connections
  BY ClientTyped
<1>1. /\ \A d \in Clients \ {c} : unit'[d] = unit[d]
      /\ unit'[c] => unit[c]
  BY UnitStep DEF QueryEnds
<1>2. conn'[c] = Rested(conn[c]) /\ \A d \in Clients \ {c} : conn'[d] = conn[d]
  BY <1>c DEF QueryEnds
<1>3. ~query'[c].on /\ \A d \in Clients \ {c} : query'[d] = query[d]
  BY ClientTyped DEF QueryEnds, NoQuery
<1>4. UNCHANGED <<disk, orphan, result, threw>>
  BY DEF QueryEnds
<1>5. CASE conn[c].tx
  <2>1. conn'[c] = conn[c]
    BY <1>2, <1>5 DEF Rested
  <2> QED
    BY <1>1, <1>2, <1>3, <1>4, <1>5, <2>1, RestInv DEF Inv, LockInv, WorkInv, Writing
<1>6. CASE ~conn[c].tx
  <2>1. conn'[c] = Ended(conn[c])
    BY <1>2, <1>6 DEF Rested
  <2>2. /\ conn'[c].tx = FALSE /\ conn'[c].dirty = FALSE /\ conn'[c].stuck = conn[c].stuck
        /\ conn'[c].lock = IF conn[c].stuck THEN "shared" ELSE "none"
    BY <2>1, <1>c, EndedFacts
  <2> QED
    BY <1>1, <1>2, <1>3, <1>4, <1>6, <2>2, RestInv DEF Inv, LockInv, WorkInv
<1> QED
  BY <1>5, <1>6

LEMMA CloseInv ==
    ASSUME TypeOK, NEW c \in Clients, Inv(c), Close(c) \/ Destroy(c) \/ Crash(c)
    PROVE  Inv(c)' /\ \A d \in Clients \ {c} : Kept(d)
<1>c. conn \in [Clients -> Connections] /\ conn[c] \in Connections
  BY ClientTyped
<1>u. /\ \A d \in Clients \ {c} : unit'[d] = unit[d]
      /\ ~unit'[c]
  <2>1. \E op \in {"Close", "Destroy"}, ok \in BOOLEAN : Returns(c, op, ok)
        \/ Returns(c, "Died", FALSE)
    BY DEF Close, Destroy, Crash, Returns
  <2> QED
    BY <2>1, UnitStep
<1>q. ~query'[c].on /\ \A d \in Clients \ {c} : query'[d] = query[d]
  BY ClientTyped DEF Close, Destroy, Crash, Call, NoQuery
<1>r. \A d \in Clients \ {c} : result'[d] = result[d] /\ threw'[d] = threw[d]
  BY DEF Close, Destroy, Crash, TypeOK
<1>o. /\ \A d \in Clients \ {c} : orphan'[d] = orphan[d]
      /\ orphan'[c] # {} => threw'[c]
  BY DEF Close, Destroy, Crash, TypeOK, Inv, LockInv
<1>d. disk' = disk
  BY DEF Close, Destroy, Crash
<1>1. CASE Close(c) /\ conn' = conn
  <2>1. ~query[c].on /\ threw' = threw /\ orphan' = orphan
    BY <1>1 DEF Close, Call
  <2>2. conn'[c].lock # "none" => conn'[c].tx \/ conn'[c].stuck
    BY <1>1, <2>1 DEF Inv, LockInv
  <2>3. conn'[c].stuck \/ orphan'[c] # {} => threw'[c]
    BY <1>1, <2>1 DEF Inv, LockInv
  <2>4. \/ conn'[c].lock \notin {"reserved", "pending"} /\ ~conn'[c].dirty
        \/ /\ conn'[c].tx
           /\ Writing(c) /\ conn'[c].lock \in {"reserved", "pending"}
           /\ conn'[c].dirty = conn[c].dirty /\ conn'[c].work = conn[c].work
    BY <1>1 DEF Inv, WorkInv, Writing
  <2> QED
    BY <1>u, <1>q, <1>r, <1>o, <1>d, <1>1, <2>2, <2>3, <2>4, RestInv
<1>2. CASE conn' = [conn EXCEPT ![c] = NewConnection]
  <2>1. /\ conn'[c].lock = "none" /\ ~conn'[c].tx /\ ~conn'[c].dirty /\ ~conn'[c].stuck
        /\ \A d \in Clients \ {c} : conn'[d] = conn[d]
    BY <1>2, <1>c DEF NewConnection
  <2> QED
    BY <1>u, <1>q, <1>r, <1>o, <1>d, <2>1, RestInv
<1> QED
  BY <1>1, <1>2 DEF Close, Destroy, Crash

\* A call that changes at most fields db, tx and lock of a connection, and
\* the lock only to "shared" in a transaction or as COMMIT does.
LEMMA ConnInv ==
    ASSUME TypeOK, NEW c \in Clients, Inv(c), Call(c),
           UNCHANGED <<disk, orphan, query, result, threw>>,
           \A d \in Clients \ {c} : unit'[d] = unit[d] /\ conn'[d] = conn[d],
           unit'[c] => conn'[c].tx,
           conn[c].tx => conn'[c].tx,
           conn'[c].work = conn[c].work, conn'[c].dirty = conn[c].dirty,
           conn'[c].stuck = conn[c].stuck,
           \/ conn'[c].lock = conn[c].lock
           \/ conn'[c].tx /\ conn'[c].lock = "shared" /\ conn[c].lock = "none"
           \/ conn'[c].tx /\ conn'[c].lock = "pending" /\ Writing(c)
    PROVE  Inv(c)' /\ \A d \in Clients \ {c} : Kept(d)
<1>1. ~query[c].on
  BY DEF Call
<1>2. LockInv(c)'
  BY <1>1 DEF Inv, LockInv
<1>3. QueryInv(c)'
  BY <1>1 DEF QueryInv
<1>4. WorkInv(c)'
  BY DEF Inv, WorkInv, Writing
<1> QED
  BY <1>2, <1>3, <1>4 DEF Inv, Kept

LEMMA TransactionInv ==
    ASSUME TypeOK, NEW c \in Clients, Inv(c),
           StartTransaction(c) \/ CommitTransaction(c) \/ RollbackTransaction(c)
    PROVE  Inv(c)' /\ \A d \in Clients \ {c} : Kept(d)
<1>c. conn \in [Clients -> Connections] /\ conn[c] \in Connections
  BY ClientTyped
<1>o. Call(c) /\ UNCHANGED <<orphan, query, result, threw>> /\ ~query[c].on
  BY DEF StartTransaction, CommitTransaction, RollbackTransaction, Call
<1>1. CASE StartTransaction(c)
  <2> DEFINE ok == Usable(c) /\ ~conn[c].tx
  <2>1. Returns(c, "Start", ok) /\ disk' = disk
    BY <1>1 DEF StartTransaction, Returns
  <2>2. /\ \A d \in Clients \ {c} : unit'[d] = unit[d]
        /\ unit'[c] => ok
    BY <2>1, UnitStep
  <2>3. /\ \A d \in Clients \ {c} : conn'[d] = conn[d]
        /\ conn'[c].work = conn[c].work /\ conn'[c].dirty = conn[c].dirty
        /\ conn'[c].stuck = conn[c].stuck /\ conn'[c].lock = conn[c].lock
        /\ ok \/ conn[c].tx => conn'[c].tx
    BY <1>1, <1>c DEF StartTransaction, Connections
  <2> QED
    BY <1>o, <2>1, <2>2, <2>3, ConnInv
<1>2. CASE CommitTransaction(c)
  <2>1. \E ok \in BOOLEAN : Returns(c, "Commit", ok)
    BY <1>2 DEF CommitTransaction, SendsCommit, Returns
  <2>2. /\ \A d \in Clients \ {c} : unit'[d] = unit[d]
        /\ ~unit'[c]
    BY <2>1, UnitStep
  <2>3. CASE UNCHANGED <<disk, conn>>
    BY <1>o, <2>2, <2>3, ConnInv
  <2>4. CASE /\ conn[c].tx /\ conn[c].dirty /\ disk' = disk
             /\ conn' = [conn EXCEPT ![c].lock = "pending"]
    <3>1. /\ \A d \in Clients \ {c} : conn'[d] = conn[d]
          /\ conn'[c].work = conn[c].work /\ conn'[c].dirty = conn[c].dirty
          /\ conn'[c].stuck = conn[c].stuck /\ conn'[c].lock = "pending"
          /\ conn'[c].tx = conn[c].tx
      BY <2>4, <1>c DEF Connections
    <3>2. Writing(c)
      BY <2>4 DEF Inv, WorkInv
    <3> QED
      BY <1>o, <2>2, <2>4, <3>1, <3>2, ConnInv
  <2>5. CASE /\ ~conn[c].dirty \/ CanCommit(c)
             /\ disk' = View(c) /\ conn' = [conn EXCEPT ![c] = Ended(@)]
    <3>1. conn'[c] = Ended(conn[c]) /\ \A d \in Clients \ {c} : conn'[d] = conn[d]
      BY <2>5, <1>c
    <3>2. /\ conn'[c].tx = FALSE /\ conn'[c].dirty = FALSE /\ conn'[c].stuck = conn[c].stuck
          /\ conn'[c].lock = IF conn[c].stuck THEN "shared" ELSE "none"
      BY <3>1, <1>c, EndedFacts
    <3>3. \A d \in Clients \ {c} : disk' = disk \/ conn[d].lock = "none"
      BY <2>5, Alone DEF View, Inv, WorkInv
    <3>4. LockInv(c)' /\ WorkInv(c)' /\ QueryInv(c)'
      BY <1>o, <2>2, <3>2 DEF Inv, LockInv, WorkInv, QueryInv, Writing
    <3> QED
      BY <1>o, <2>2, <3>1, <3>3, <3>4 DEF Inv, Kept
  <2> QED
    BY <1>2, <2>3, <2>4, <2>5 DEF CommitTransaction, SendsCommit
<1>3. CASE RollbackTransaction(c)
  <2>1. Returns(c, "Rollback", conn[c].tx) /\ conn[c].tx \in BOOLEAN /\ disk' = disk
    BY <1>3, <1>c DEF RollbackTransaction, Returns, Connections
  <2>2. /\ \A d \in Clients \ {c} : unit'[d] = unit[d]
        /\ ~unit'[c]
    BY <2>1, UnitStep
  <2>3. CASE conn' = conn
    BY <1>o, <2>1, <2>2, <2>3, ConnInv
  <2>4. CASE conn' = [conn EXCEPT ![c] = Ended(@)]
    <3>1. conn'[c] = Ended(conn[c]) /\ \A d \in Clients \ {c} : conn'[d] = conn[d]
      BY <2>4, <1>c
    <3>2. /\ conn'[c].tx = FALSE /\ conn'[c].dirty = FALSE /\ conn'[c].stuck = conn[c].stuck
          /\ conn'[c].lock = IF conn[c].stuck THEN "shared" ELSE "none"
      BY <3>1, <1>c, EndedFacts
    <3> QED
      BY <1>o, <2>1, <2>2, <3>1, <3>2, RestInv DEF Inv, LockInv
  <2> QED
    BY <1>3, <2>3, <2>4 DEF RollbackTransaction
<1> QED
  BY <1>1, <1>2, <1>3

\* An UPDATE that selects no row makes of the file what it is.
LEMMA ModifyOfNothing ==
    ASSUME NEW file \in Files, NEW hit, hit = {}, NEW name
    PROVE  [file EXCEPT !.rows =
             [k \in DOMAIN @ |-> IF k \in hit /\ name # ColumnName THEN name ELSE @[k]]] = file
<1>1. PICK ks \in SUBSET Keys : file.rows \in [ks -> Names \cup {Null}]
  BY DEF Files
<1>2. [k \in DOMAIN file.rows |->
         IF k \in hit /\ name # ColumnName THEN name ELSE file.rows[k]] = file.rows
  BY <1>1
<1>3. file = [schema |-> file.schema, rows |-> file.rows]
  BY DEF Files
<1>4. [file EXCEPT !.rows = file.rows] = file
  BY <1>3
<1> QED
  BY <1>2, <1>4

LEMMA StatementInv ==
    ASSUME TypeOK, NEW c \in Clients, Inv(c),
           \/ Connect(c) \/ Create(c) \/ Drop(c)
           \/ \E flagged \in BOOLEAN, name \in Names : Insert(c, flagged, name)
           \/ \E conditioned \in BOOLEAN : Delete(c, conditioned)
           \/ \E text, name \in Names : Modify(c, text, name)
    PROVE  Inv(c)' /\ \A d \in Clients \ {c} : Kept(d)
<1>c. conn \in [Clients -> Connections] /\ conn[c] \in Connections
  BY ClientTyped
<1>1. CASE Connect(c)
  <2>1. \E ok \in BOOLEAN : Returns(c, "Connect", ok)
    BY <1>1 DEF Connect, Returns
  <2>2. /\ \A d \in Clients \ {c} : unit'[d] = unit[d]
        /\ unit'[c] => unit[c]
    BY <2>1, UnitStep
  <2>3. conn' = conn \/ \E db \in {"null", "sick", "open"} : conn' = [conn EXCEPT ![c].db = db]
    BY <1>1 DEF Connect
  <2>4. /\ \A d \in Clients \ {c} : conn'[d] = conn[d]
        /\ conn'[c].work = conn[c].work /\ conn'[c].dirty = conn[c].dirty
        /\ conn'[c].stuck = conn[c].stuck /\ conn'[c].lock = conn[c].lock
        /\ conn'[c].tx = conn[c].tx
    BY <2>3, <1>c DEF Connections
  <2>5. Call(c) /\ UNCHANGED <<disk, orphan, query, result, threw>>
    BY <1>1 DEF Connect
  <2>6. unit'[c] => conn'[c].tx
    BY <2>2, <2>4 DEF Inv, WorkInv
  <2> QED
    BY <2>2, <2>4, <2>5, <2>6, ConnInv
<1>2. CASE Create(c) /\ View(c).schema = "none"
  BY <1>2, ExecInv DEF Create, Calls
<1>3. CASE Create(c) /\ View(c).schema # "none"
  <2> DEFINE ok == Usable(c) /\ CanRead(c)
  <2>a. Returns(c, "Create", ok) /\ ok \in BOOLEAN
    BY <1>3 DEF Create, Returns, Usable, CanRead
  <2>b. PICK b \in BOOLEAN : Returns(c, "Create", b)
    BY <2>a
  <2> HIDE DEF ok
  <2>1. /\ \A d \in Clients \ {c} : unit'[d] = unit[d]
        /\ unit'[c] => b /\ ("Create" = "Start" \/ unit[c])
    BY <2>b, UnitStep
  <2>2. /\ \A d \in Clients \ {c} : unit'[d] = unit[d]
        /\ unit'[c] => unit[c]
    BY <2>1
  <2>3. conn' = IF ok /\ conn[c].tx /\ conn[c].lock = "none"
                THEN [conn EXCEPT ![c].lock = "shared"] ELSE conn
    BY <1>3 DEF Create, ok
  <2>4. /\ \A d \in Clients \ {c} : conn'[d] = conn[d]
        /\ conn'[c].work = conn[c].work /\ conn'[c].dirty = conn[c].dirty
        /\ conn'[c].stuck = conn[c].stuck /\ conn'[c].tx = conn[c].tx
        /\ \/ conn'[c].lock = conn[c].lock
           \/ conn'[c].tx /\ conn'[c].lock = "shared" /\ conn[c].lock = "none"
    BY <2>3, <1>c DEF Connections
  <2>5. Call(c) /\ UNCHANGED <<disk, orphan, query, result, threw>>
    BY <1>3 DEF Create
  <2>6. unit'[c] => conn'[c].tx
    BY <2>2, <2>4 DEF Inv, WorkInv
  <2> QED
    BY <2>2, <2>4, <2>5, <2>6, ConnInv
<1>4. CASE Drop(c)
  BY <1>4, ExecInv DEF Drop, Calls
<1>5. CASE \E flagged \in BOOLEAN, name \in Names : Insert(c, flagged, name)
  BY <1>5, ExecInv DEF Insert, Calls
<1>6. CASE \E conditioned \in BOOLEAN : Delete(c, conditioned)
  BY <1>6, ExecInv DEF Delete, Calls
<1>7. CASE \E text, name \in Names : Modify(c, text, name)
  <2>1. PICK text \in Names, name \in Names : Modify(c, text, name)
    BY <1>7
  <2> DEFINE file == View(c)
             hit  == Selected(file, text)
             made == [file EXCEPT !.rows =
                        [k \in DOMAIN @ |-> IF k \in hit /\ name # ColumnName THEN name ELSE @[k]]]
             dirty == hit # {}
  <2>2. ExecCommand(c, "Modify", file.schema = "full", dirty, made)
    BY <2>1 DEF Modify
  <2>3. file \in Files
    BY ViewTyped
  <2>4. dirty \in BOOLEAN
    OBVIOUS
  <2>5. ~dirty => hit = {}
    OBVIOUS
  <2> HIDE DEF hit, file
  <2>6. dirty \/ made = file
    BY <2>3, <2>5, ModifyOfNothing
  <2> HIDE DEF made, dirty
  <2> QED
    BY <2>2, <2>4, <2>6, ExecInv DEF file, Calls
<1> QED
  BY <1>1, <1>2, <1>3, <1>4, <1>5, <1>6, <1>7

\* A Query begins with no row and delivers the next one.
LEMMA QueryStartInv ==
    ASSUME TypeOK, NEW c \in Clients, Inv(c), NEW own \in Names, Query(c, own)
    PROVE  Inv(c)' /\ \A d \in Clients \ {c} : Kept(d)
<1>c. conn \in [Clients -> Connections] /\ conn[c] \in Connections
  BY ClientTyped
<1>1. ~query[c].on /\ UNCHANGED <<disk, orphan, threw>>
  BY DEF Query, Call
<1>2. /\ \A d \in Clients \ {c} : result'[d] = result[d]
      /\ result'[c] = <<>>
  BY DEF Query, TypeOK
<1>3. CASE /\ conn' = [conn EXCEPT ![c].lock = IF @ = "none" THEN "shared" ELSE @]
           /\ query' = [query EXCEPT ![c] = [on |-> TRUE, own |-> own, at |-> 0]]
           /\ UNCHANGED <<ret, unit>>
  <2>1. /\ \A d \in Clients \ {c} : conn'[d] = conn[d]
        /\ conn'[c].work = conn[c].work /\ conn'[c].dirty = conn[c].dirty
        /\ conn'[c].stuck = conn[c].stuck /\ conn'[c].tx = conn[c].tx
        /\ conn'[c].lock = IF conn[c].lock = "none" THEN "shared" ELSE conn[c].lock
    BY <1>3, <1>c DEF Connections
  <2>2. /\ \A d \in Clients \ {c} : query'[d] = query[d]
        /\ query'[c].on /\ query'[c].at = 0
    BY <1>3, ClientTyped
  <2>3. LockInv(c)'
    BY <1>1, <2>1, <2>2 DEF Inv, LockInv
  <2>4. WorkInv(c)'
    BY <1>1, <1>3, <2>1 DEF Inv, WorkInv, Writing
  <2>5. View(c)' \in Files
    BY <1>1, <2>1, <1>c DEF TypeOK, View, Connections
  <2>6. \A k \in DOMAIN View(c)'.rows : ~(k <= 0)
    <3>1. PICK ks \in SUBSET Keys : View(c)'.rows \in [ks -> Names \cup {Null}]
      BY <2>5 DEF Files
    <3>2. DOMAIN View(c)'.rows \subseteq Keys
      BY <3>1
    <3>3. \A k \in Keys : k \in Nat /\ k > 0
      BY SizesAssumption DEF Keys
    <3> QED
      BY <3>2, <3>3
  <2>7. DOMAIN result'[c] = {}
    BY <1>2
  <2>8. QueryInv(c)'
    BY <2>2, <2>6, <2>7 DEF QueryInv
  <2> QED
    BY <1>1, <1>2, <1>3, <2>1, <2>2, <2>3, <2>4, <2>8 DEF Inv, Kept
<1>4. CASE /\ UNCHANGED <<query, conn>>
           /\ Returns(c, "Query", FALSE)
  <2>1. /\ \A d \in Clients \ {c} : unit'[d] = unit[d]
        /\ ~unit'[c]
    BY <1>4, UnitStep
  <2>2. LockInv(c)' /\ WorkInv(c)' /\ QueryInv(c)'
    BY <1>1, <1>4, <2>1 DEF Inv, LockInv, WorkInv, QueryInv, Writing
  <2> QED
    BY <1>1, <1>2, <1>4, <2>1, <2>2 DEF Inv, Kept
<1> QED
  BY <1>3, <1>4 DEF Query

LEMMA LoadThrowsInv ==
    ASSUME TypeOK, NEW c \in Clients, Inv(c), LoadThrows(c)
    PROVE  Inv(c)' /\ \A d \in Clients \ {c} : Kept(d)
<1>c. conn \in [Clients -> Connections] /\ conn[c] \in Connections
  BY ClientTyped
<1>1. /\ \A d \in Clients \ {c} : unit'[d] = unit[d]
      /\ ~unit'[c]
  BY UnitStep DEF LoadThrows, Returns
<1>2. /\ \A d \in Clients \ {c} : conn'[d] = conn[d]
      /\ conn'[c].work = conn[c].work /\ conn'[c].dirty = conn[c].dirty
      /\ conn'[c].stuck /\ conn'[c].tx = conn[c].tx /\ conn'[c].lock = conn[c].lock
  BY <1>c DEF LoadThrows, Connections
<1>3. /\ \A d \in Clients \ {c} : query'[d] = query[d]
      /\ ~query'[c].on
  BY ClientTyped DEF LoadThrows, NoQuery
<1>4. /\ \A d \in Clients \ {c} : threw'[d] = threw[d]
      /\ threw'[c]
  BY DEF LoadThrows, TypeOK
<1>5. UNCHANGED <<disk, orphan, result>>
  BY DEF LoadThrows
<1>6. LockInv(c)' /\ QueryInv(c)'
  BY <1>2, <1>3, <1>4 DEF LockInv, QueryInv
<1>7. WorkInv(c)'
  BY <1>1, <1>2, <1>5 DEF Inv, WorkInv, Writing
<1> QED
  BY <1>1, <1>2, <1>3, <1>4, <1>5, <1>6, <1>7 DEF Inv, Kept

LEMMA ExecCallbackInv ==
    ASSUME TypeOK, NEW c \in Clients, Inv(c), ExecCallback(c)
    PROVE  Inv(c)' /\ \A d \in Clients \ {c} : Kept(d)
<1> DEFINE next == NextKey(c)
           res  == result[c]
           rows == View(c).rows
<1>1. UNCHANGED <<disk, conn, orphan, unit, threw>> /\ query[c].on /\ Rest(c) # {}
  BY DEF ExecCallback
<1>2. next \in Rest(c) /\ (\A k \in Rest(c) : next <= k) /\ next \in Keys
  BY <1>1, NextRow
<1>3. next \in DOMAIN rows /\ query[c].at < next /\ query[c].at \in Nat /\ next \in Nat
  BY <1>2, ClientTyped, SizesAssumption DEF Rest, Keys
<1>4. DOMAIN rows \subseteq Nat
  <2>1. PICK ks \in SUBSET Keys : rows \in [ks -> Names \cup {Null}]
    BY ViewTyped DEF Files
  <2>2. Keys \subseteq Nat
    BY SizesAssumption DEF Keys
  <2> QED
    BY <2>1, <2>2
<1>5. /\ \A d \in Clients \ {c} : query'[d] = query[d]
      /\ query'[c].on /\ query'[c].at = next /\ query'[c].own = query[c].own
  BY <1>1, ClientTyped DEF ExecCallback
<1>6. /\ \A d \in Clients \ {c} : result'[d] = result[d]
      /\ result'[c] = Append(res, Loaded(c, next))
  BY DEF ExecCallback, TypeOK
<1>7. res \in Seq([user_id : Keys, user_name : Names])
  BY DEF TypeOK
<1>8. View(c)' = View(c) /\ \A k : Loaded(c, k)' = Loaded(c, k)
  BY <1>1, <1>5 DEF View, Writing, Loaded
<1>9. /\ DOMAIN result'[c] = DOMAIN res \cup {Len(res) + 1}
      /\ \A i \in DOMAIN res : result'[c][i] = res[i]
      /\ result'[c][Len(res) + 1] = Loaded(c, next)
      /\ DOMAIN res = 1 .. Len(res) /\ Len(res) \in Nat
  BY <1>6, <1>7
<1>10. Loaded(c, next).user_id = next
  BY DEF Loaded
<1>11. /\ \A i, j \in DOMAIN res : i < j => res[i].user_id < res[j].user_id
       /\ \A i \in DOMAIN res : /\ res[i].user_id \in DOMAIN rows
                                /\ res[i].user_id <= query[c].at
                                /\ res[i] = Loaded(c, res[i].user_id)
       /\ \A k \in DOMAIN rows :
            k <= query[c].at => \E i \in DOMAIN res : res[i].user_id = k
  BY <1>1 DEF Inv, QueryInv
<1>12. \A i \in DOMAIN res : res[i].user_id < next
  BY <1>3, <1>4, <1>11
<1>13. \A i, j \in DOMAIN result'[c] : i < j => result'[c][i].user_id < result'[c][j].user_id
  BY <1>9, <1>10, <1>11, <1>12
<1>14. \A i \in DOMAIN result'[c] :
          /\ result'[c][i].user_id \in DOMAIN rows
          /\ result'[c][i].user_id <= next
          /\ result'[c][i] = Loaded(c, result'[c][i].user_id)
  <2> SUFFICES ASSUME NEW i \in DOMAIN result'[c]
               PROVE  /\ result'[c][i].user_id \in DOMAIN rows
                      /\ result'[c][i].user_id <= next
                      /\ result'[c][i] = Loaded(c, result'[c][i].user_id)
    OBVIOUS
  <2>1. CASE i \in DOMAIN res
    <3>1. result'[c][i] = res[i]
      BY <2>1, <1>9
    <3>2. res[i].user_id <= next
      BY <2>1, <1>3, <1>4, <1>11, <1>12
    <3> QED
      BY <2>1, <3>1, <3>2, <1>11
  <2>2. CASE i = Len(res) + 1
    BY <2>2, <1>3, <1>9, <1>10
  <2> QED
    BY <2>1, <2>2, <1>9
<1>15. \A k \in DOMAIN rows :
          k <= next => \E i \in DOMAIN result'[c] : result'[c][i].user_id = k
  <2> SUFFICES ASSUME NEW k \in DOMAIN rows, k <= next
               PROVE  \E i \in DOMAIN result'[c] : result'[c][i].user_id = k
    OBVIOUS
  <2>1. CASE k <= query[c].at
    <3>1. PICK i \in DOMAIN res : res[i].user_id = k
      BY <2>1, <1>11
    <3> QED
      BY <3>1, <1>9
  <2>2. CASE ~(k <= query[c].at)
    <3>1. k \in Rest(c)
      BY <2>2, <1>3, <1>4 DEF Rest
    <3>2. k = next
      BY <3>1, <1>2, <1>3, <1>4
    <3> QED
      BY <3>2, <1>9, <1>10
  <2> QED
    BY <2>1, <2>2
<1>16. QueryInv(c)'
  BY <1>5, <1>8, <1>13, <1>14, <1>15 DEF QueryInv
<1>17. LockInv(c)' /\ WorkInv(c)'
  BY <1>1, <1>5 DEF Inv, LockInv, WorkInv, Writing
<1> QED
  BY <1>1, <1>5, <1>6, <1>16, <1>17 DEF Inv, Kept

\* Next, by the client that takes the step.
LEMMA ClientStep ==
    ASSUME TypeOK, \A d \in Clients : Inv(d), NEW c \in Clients,
      \/ Connect(c) \/ Close(c) \/ Destroy(c) \/ Crash(c)
      \/ StartTransaction(c) \/ CommitTransaction(c) \/ RollbackTransaction(c)
      \/ Create(c) \/ Drop(c)
      \/ \E flagged \in BOOLEAN, name \in Names : Insert(c, flagged, name)
      \/ \E conditioned \in BOOLEAN : Delete(c, conditioned)
      \/ \E text, name \in Names : Modify(c, text, name)
      \/ \E own \in Names : Query(c, own)
      \/ ExecCallback(c) \/ LoadThrows(c) \/ UnknownName(c)
      \/ StepFails(c) \/ QueryDone(c)
    PROVE  Inv(c)' /\ \A d \in Clients \ {c} : Kept(d)
BY QueryStartInv, ExecCallbackInv, LoadThrowsInv, QueryEndsInv, StatementInv,
   TransactionInv, CloseInv
DEF UnknownName, StepFails, QueryDone

LEMMA InvStep == IInv /\ [Next]_vars => IInv'
<1> SUFFICES ASSUME IInv, [Next]_vars PROVE IInv'
  OBVIOUS
<1>1. TypeOK /\ \A d \in Clients : Inv(d)
  BY DEF IInv, Inv
<1>2. TypeOK'
  BY <1>1, TypeStep
<1>3. \A d \in Clients : Inv(d)'
  <2>1. CASE UNCHANGED vars
    <3> SUFFICES ASSUME NEW d \in Clients PROVE Inv(d)'
      OBVIOUS
    <3>1. Kept(d)
      BY <2>1 DEF vars, Kept
    <3> QED
      BY <3>1, <1>1, KeptInv
  <2>2. CASE Next
    <3>1. PICK c \in Clients : Inv(c)' /\ \A d \in Clients \ {c} : Kept(d)
      BY <2>2, <1>1, ClientStep DEF Next
    <3>2. \A d \in Clients \ {c} : Inv(d)'
      BY <3>1, <1>1, KeptInv
    <3> QED
      BY <3>1, <3>2
  <2> QED
    BY <2>1, <2>2
<1> QED
  BY <1>2, <1>3 DEF IInv, Inv

LEMMA InvInit == Init => IInv
<1> SUFFICES ASSUME Init PROVE IInv
  OBVIOUS
<1>1. TypeOK
  BY TypeInit
<1> SUFFICES ASSUME NEW c \in Clients PROVE LockInv(c) /\ WorkInv(c) /\ QueryInv(c)
  BY <1>1 DEF IInv
<1>2. /\ conn[c].lock = "none" /\ ~conn[c].dirty /\ ~conn[c].stuck
      /\ ~query[c].on /\ ~unit[c] /\ orphan[c] = {}
  <2>1. conn[c] \in {NewConnection, [NewConnection EXCEPT !.db = "open"]}
    BY DEF Init
  <2>2. query[c] = NoQuery /\ ~unit[c] /\ orphan[c] = {}
    BY DEF Init
  <2> QED
    BY <2>1, <2>2 DEF NewConnection, NoQuery
<1> QED
  BY <1>2 DEF LockInv, WorkInv, QueryInv, Writing

LEMMA Invariance == Spec => []IInv
  BY InvInit, InvStep, PTL DEF Spec

\* LockedOnlyInUse: whatever fails, is closed or destroyed, a client out of
\* its transactions and Queries holds no lock on the file, but for a user_id
\* that LoadFromStr threw at.
THEOREM LockedInUse == Spec => []LockedOnlyInUse
<1>1. IInv => LockedOnlyInUse
  BY DEF IInv, LockInv, LockedOnlyInUse
<1> QED
  BY <1>1, Invariance, PTL

\* ChangesAsTold: the file changes only in calls that return true, and in a
\* unit only in its CommitTransaction.
THEOREM ChangesTold == Spec => ChangesAsTold
<1> DEFINE A == disk' # disk =>
         LET c == ret'.client IN
           /\ ret'.ok
           /\ unit[c] => ret'.op = "Commit"
           /\ ret'.op \in {"Commit", "Create", "Drop", "Insert", "Delete", "Modify"}
<1>1. IInv /\ [Next]_vars => A \/ UNCHANGED vars
  <2> SUFFICES ASSUME IInv, Next, disk' # disk PROVE A
    BY DEF vars
  <2>1. PICK c \in Clients : \/ CommitTransaction(c)
                            \/ \E op \in {"Create", "Drop", "Insert", "Delete", "Modify"} : \E valid, dirty, file :
                                 ExecCommand(c, op, valid, dirty, file)
    BY DEF Next, Connect, Close, Destroy, Crash, StartTransaction, RollbackTransaction,
       Create, Drop, Insert, Delete, Modify, Query, ExecCallback, LoadThrows, UnknownName,
       StepFails, QueryDone, QueryEnds
  <2>2. CASE CommitTransaction(c)
    BY <2>2 DEF CommitTransaction, SendsCommit, Returns
  <2>3. CASE \E op \in {"Create", "Drop", "Insert", "Delete", "Modify"} : \E valid, dirty, file :
               ExecCommand(c, op, valid, dirty, file)
    <3>1. PICK op \in {"Create", "Drop", "Insert", "Delete", "Modify"} :
            \E valid, dirty, file : ExecCommand(c, op, valid, dirty, file)
      BY <2>3
    <3>2. ~conn[c].tx /\ ret' = [client |-> c, op |-> op, ok |-> TRUE]
      BY <3>1 DEF ExecCommand, Returns
    <3>3. ~unit[c]
      BY <3>2 DEF IInv, WorkInv
    <3> QED
      BY <3>1, <3>2, <3>3
  <2> QED
    BY <2>1, <2>2, <2>3
<1>2. A \/ UNCHANGED vars => [A]_vars
  OBVIOUS
<1> HIDE DEF A
<1>3. Spec => [][A]_vars
  BY <1>1, Invariance, PTL DEF Spec
<1> QED
  BY <1>3 DEF A, ChangesAsTold

\* QueryExact: a Query that returns true has every row of the table as it is
\* at that moment, in order; one that returns false has the first ones.
THEOREM QueriesExact == Spec => QueryExact
<1> DEFINE A == \A c \in Clients : query[c].on /\ ~query'[c].on /\ ret'.op = "Query" =>
         /\ FirstRows(c, result'[c])
         /\ ret'.ok => \A k \in DOMAIN View(c).rows :
                         \E i \in DOMAIN result'[c] : result'[c][i].user_id = k
<1>1. IInv /\ [Next]_vars => A
  <2> SUFFICES ASSUME IInv, [Next]_vars, NEW c \in Clients,
                      query[c].on, ~query'[c].on, ret'.op = "Query"
               PROVE  /\ FirstRows(c, result'[c])
                      /\ ret'.ok => \A k \in DOMAIN View(c).rows :
                                      \E i \in DOMAIN result'[c] : result'[c][i].user_id = k
    OBVIOUS
  <2>1. Next /\ TypeOK /\ QueryInv(c)
    BY DEF vars, IInv
  <2>2. PICK ok \in BOOLEAN : QueryEnds(c, ok) /\ (ok => Rest(c) = {})
    <3>1. PICK d \in Clients :
            \/ Connect(d) \/ Close(d) \/ Destroy(d) \/ Crash(d)
            \/ StartTransaction(d) \/ CommitTransaction(d) \/ RollbackTransaction(d)
            \/ Create(d) \/ Drop(d)
            \/ \E flagged \in BOOLEAN, name \in Names : Insert(d, flagged, name)
            \/ \E conditioned \in BOOLEAN : Delete(d, conditioned)
            \/ \E text, name \in Names : Modify(d, text, name)
            \/ \E own \in Names : Query(d, own)
            \/ ExecCallback(d) \/ LoadThrows(d) \/ UnknownName(d)
            \/ StepFails(d) \/ QueryDone(d)
      BY <2>1 DEF Next
    <3>2. d = c
      <4>1. d # c => Kept(c)
        BY <3>1, <2>1, ClientStep DEF IInv, Inv
      <4> QED
        BY <4>1 DEF Kept
    <3>3. UnknownName(c) \/ StepFails(c) \/ QueryDone(c)
      <4>1. ~Call(c)
        BY DEF Call
      <4>2. /\ ~Connect(c) /\ ~Close(c) /\ ~Destroy(c)
            /\ ~StartTransaction(c) /\ ~CommitTransaction(c) /\ ~RollbackTransaction(c)
            /\ \A own \in Names : ~Query(c, own)
        BY <4>1 DEF Connect, Close, Destroy, StartTransaction, CommitTransaction,
                    RollbackTransaction, Query
      <4>3. /\ ~Create(c) /\ ~Drop(c)
            /\ \A flagged \in BOOLEAN, name \in Names : ~Insert(c, flagged, name)
            /\ \A conditioned \in BOOLEAN : ~Delete(c, conditioned)
            /\ \A text, name \in Names : ~Modify(c, text, name)
        BY <4>1 DEF Create, Drop, Insert, Delete, Modify, ExecCommand
      <4>4. ~Crash(c) /\ ~LoadThrows(c)
        BY DEF Crash, LoadThrows, Returns
      <4>5. ~ExecCallback(c)
        BY <2>1, ClientTyped DEF ExecCallback
      <4> QED
        BY <3>1, <3>2, <4>2, <4>3, <4>4, <4>5
    <3> QED
      BY <3>3 DEF UnknownName, StepFails, QueryDone
  <2>3. result' = result /\ ret'.ok = ok
    BY <2>2 DEF QueryEnds, Returns
  <2> DEFINE res == result[c]
             rows == View(c).rows
  <2>4. /\ \A i, j \in DOMAIN res : i < j => res[i].user_id < res[j].user_id
        /\ \A i \in DOMAIN res : /\ res[i].user_id \in DOMAIN rows
                                 /\ res[i].user_id <= query[c].at
                                 /\ res[i] = Loaded(c, res[i].user_id)
        /\ \A k \in DOMAIN rows :
             k <= query[c].at => \E i \in DOMAIN res : res[i].user_id = k
    BY <2>1 DEF QueryInv
  <2>5. DOMAIN rows \subseteq Nat /\ query[c].at \in Nat
    <3>1. PICK ks \in SUBSET Keys : rows \in [ks -> Names \cup {Null}]
      BY <2>1, ViewTyped DEF Files
    <3>2. Keys \subseteq Nat
      BY SizesAssumption DEF Keys
    <3> QED
      <4>1. query[c].at \in {0} \cup Keys
        BY <2>1, ClientTyped
      <4>2. DOMAIN rows \subseteq Keys
        BY <3>1
      <4> HIDE DEF rows
      <4>3. query[c].at \in Nat
        BY <4>1, SizesAssumption DEF Keys
      <4>4. DOMAIN rows \subseteq Nat
        BY <4>2, <3>2
      <4> QED
        BY <4>3, <4>4
  <2>6. \A k \in DOMAIN rows, i \in DOMAIN res :
           k < res[i].user_id => \E j \in DOMAIN res : res[j].user_id = k
    BY <2>4, <2>5
  <2>7. FirstRows(c, res)
    BY <2>4, <2>6 DEF FirstRows
  <2>8. ok => \A k \in DOMAIN rows : \E i \in DOMAIN res : res[i].user_id = k
    BY <2>2, <2>4, <2>5 DEF Rest
  <2> QED
    BY <2>3, <2>7, <2>8
<1> HIDE DEF A
<1>3. Spec => [][A]_vars
  BY <1>1, Invariance, PTL DEF Spec
<1> QED
  BY <1>3 DEF A, QueryExact
-----------------------------------------------------------------------------
\* A client without an open connection is at rest, and has last returned true
\* only from a call that ends one.
IdleInv(c) ==
    conn[c].db # "open" =>
      /\ ~conn[c].tx /\ ~query[c].on
      /\ ret.client = c /\ ret.ok => ret.op \in {"Close", "Destroy"}

\* What ConnectedAsTold says of c.
Told(c) ==
    /\ ~Usable(c) /\ conn'[c].db = "open" =>
         ret' = [client |-> c, op |-> "Connect", ok |-> TRUE]
    /\ Usable(c) /\ conn'[c].db # "open" =>
         ret'.client = c /\ ret'.op \in {"Close", "Destroy", "Died"}
    /\ ret'.client = c /\ ret'.ok /\ conn'[c].db # "open" =>
         ret'.op \in {"Close", "Destroy"}

\* A step of client c.
StepOf(c) ==
    \/ Connect(c) \/ Close(c) \/ Destroy(c) \/ Crash(c)
    \/ StartTransaction(c) \/ CommitTransaction(c) \/ RollbackTransaction(c)
    \/ Create(c) \/ Drop(c)
    \/ \E flagged \in BOOLEAN, name \in Names : Insert(c, flagged, name)
    \/ \E conditioned \in BOOLEAN : Delete(c, conditioned)
    \/ \E text, name \in Names : Modify(c, text, name)
    \/ \E own \in Names : Query(c, own)
    \/ ExecCallback(c) \/ LoadThrows(c) \/ UnknownName(c)
    \/ StepFails(c) \/ QueryDone(c)

\* What a step of d leaves alone of another client, and what it needs to keep
\* IdleInv and Told of its own.
Aside(c, d) ==
    /\ conn'[c] = conn[c]
    /\ query'[c] = query[c]
    /\ ret' = ret \/ ret'.client = d

LEMMA AsideKept ==
    ASSUME NEW c \in Clients, NEW d \in Clients, c # d, Aside(c, d), IdleInv(c)
    PROVE  IdleInv(c)' /\ Told(c)
BY DEF Aside, IdleInv, Told, Usable

LEMMA StepsAside ==
    ASSUME TypeOK, NEW c \in Clients, NEW d \in Clients, c # d, StepOf(d)
    PROVE  Aside(c, d)
<1> USE DEF Aside, Returns
<1>1. DOMAIN conn = Clients /\ conn = [e \in Clients |-> conn[e]]
  BY DEF TypeOK
<1>2. DOMAIN query = Clients /\ query = [e \in Clients |-> query[e]]
  BY DEF TypeOK
<1>3. CASE Connect(d) \/ Close(d) \/ Destroy(d) \/ Crash(d)
  BY <1>1, <1>2, <1>3 DEF Connect, Close, Destroy, Crash
<1>4. CASE StartTransaction(d) \/ CommitTransaction(d) \/ RollbackTransaction(d)
  BY <1>1, <1>2, <1>4 DEF StartTransaction, CommitTransaction, SendsCommit,
                          RollbackTransaction
<1>5. ASSUME NEW op, NEW valid, NEW dirty, NEW file, ExecCommand(d, op, valid, dirty, file)
      PROVE  Aside(c, d)
  BY <1>1, <1>2, <1>5 DEF ExecCommand
<1>6. CASE Create(d)
  <2>1. CASE ExecCommand(d, "Create", TRUE, TRUE, [schema |-> "full", rows |-> <<>>])
    BY <1>5, <2>1
  <2>2. CASE /\ Call(d)
             /\ LET ok == Usable(d) /\ CanRead(d) IN
                  /\ conn' = IF ok /\ conn[d].tx /\ conn[d].lock = "none"
                             THEN [conn EXCEPT ![d].lock = "shared"] ELSE conn
                  /\ Returns(d, "Create", ok)
             /\ UNCHANGED <<disk, orphan, query, result, threw>>
    BY <1>1, <2>2
  <2> QED
    BY <1>6, <2>1, <2>2 DEF Create
<1>7. CASE \/ Drop(d)
           \/ \E flagged \in BOOLEAN, name \in Names : Insert(d, flagged, name)
           \/ \E conditioned \in BOOLEAN : Delete(d, conditioned)
           \/ \E text, name \in Names : Modify(d, text, name)
  BY <1>5, <1>7 DEF Drop, Insert, Delete, Modify
<1>8. CASE \E own \in Names : Query(d, own)
  BY <1>1, <1>2, <1>8 DEF Query
<1>9. CASE ExecCallback(d) \/ LoadThrows(d)
  BY <1>1, <1>2, <1>9 DEF ExecCallback, LoadThrows
<1>10. CASE UnknownName(d) \/ StepFails(d) \/ QueryDone(d)
  BY <1>1, <1>2, <1>10 DEF UnknownName, StepFails, QueryDone, QueryEnds
<1> QED
  BY <1>3, <1>4, <1>6, <1>7, <1>8, <1>9, <1>10 DEF StepOf

LEMMA StepsOwn ==
    ASSUME TypeOK, NEW c \in Clients, IdleInv(c), StepOf(c)
    PROVE  IdleInv(c)' /\ Told(c)
<1> USE DEF IdleInv, Told, Returns, Usable
<1>1. /\ DOMAIN conn = Clients /\ DOMAIN query = Clients
      /\ conn = [e \in Clients |-> conn[e]] /\ query = [e \in Clients |-> query[e]]
      /\ query[c] \in [on : BOOLEAN, own : Names, at : {0} \cup Keys]
      /\ conn[c] \in Connections /\ conn[c].tx \in BOOLEAN
      /\ conn[c].db \in {"null", "sick", "open"}
  BY DEF TypeOK, Connections
<1>2. NewConnection.db = "null" /\ ~NewConnection.tx /\ NoQuery.on = FALSE
  BY DEF NewConnection, NoQuery
<1>3. /\ Ended(conn[c]).db = conn[c].db /\ ~Ended(conn[c]).tx
      /\ Rested(conn[c]).db = conn[c].db
      /\ Rested(conn[c]).tx = conn[c].tx
  BY <1>1 DEF Ended, Rested, Connections
<1>4. CASE Connect(c)
  <2>1. CASE IsConnected(c)
    BY <1>1, <1>4, <2>1 DEF Connect, Call
  <2>2. CASE ~IsConnected(c)
    <3>1. PICK db \in {"null", "sick", "open"} :
            /\ conn' = [conn EXCEPT ![c].db = db]
            /\ ret' = [client |-> c, op |-> "Connect", ok |-> (db = "open")]
      BY <1>4, <2>2 DEF Connect
    <3>2. conn'[c].db = db /\ conn'[c].tx = conn[c].tx /\ query' = query
      BY <1>1, <1>4, <3>1 DEF Connect, Connections
    <3>3. CASE db = "open"
      BY <2>2, <3>1, <3>2, <3>3 DEF IsConnected
    <3>4. CASE db # "open"
      BY <1>1, <2>2, <3>1, <3>2, <3>4 DEF IsConnected
    <3> QED
      BY <3>3, <3>4
  <2> QED
    BY <2>1, <2>2
<1>5. CASE Close(c)
  BY <1>1, <1>2, <1>5 DEF Close, Call
<1>6. CASE Destroy(c)
  BY <1>1, <1>2, <1>6 DEF Destroy, Call
<1>7. CASE Crash(c)
  BY <1>1, <1>2, <1>7 DEF Crash
<1>8. CASE StartTransaction(c)
  BY <1>1, <1>8 DEF StartTransaction, Call, Connections
<1>9. CASE CommitTransaction(c)
  BY <1>1, <1>3, <1>9 DEF CommitTransaction, SendsCommit, Call, Connections
<1>10. CASE RollbackTransaction(c)
  BY <1>1, <1>3, <1>10 DEF RollbackTransaction, Call, Connections
<1>11. ASSUME NEW op, NEW valid, NEW dirty, NEW file, ExecCommand(c, op, valid, dirty, file)
       PROVE  IdleInv(c)' /\ Told(c)
  BY <1>1, <1>3, <1>11 DEF ExecCommand, Call, Connections
<1>12. CASE Create(c)
  <2>1. CASE ExecCommand(c, "Create", TRUE, TRUE, [schema |-> "full", rows |-> <<>>])
    BY <1>11, <2>1
  <2>2. CASE /\ Call(c)
             /\ LET ok == Usable(c) /\ CanRead(c) IN
                  /\ conn' = IF ok /\ conn[c].tx /\ conn[c].lock = "none"
                             THEN [conn EXCEPT ![c].lock = "shared"] ELSE conn
                  /\ Returns(c, "Create", ok)
             /\ UNCHANGED <<disk, orphan, query, result, threw>>
    BY <1>1, <2>2 DEF Call, Connections
  <2> QED
    BY <1>12, <2>1, <2>2 DEF Create
<1>13. CASE \/ Drop(c)
            \/ \E flagged \in BOOLEAN, name \in Names : Insert(c, flagged, name)
            \/ \E conditioned \in BOOLEAN : Delete(c, conditioned)
            \/ \E text, name \in Names : Modify(c, text, name)
  BY <1>11, <1>13 DEF Drop, Insert, Delete, Modify
<1>14. CASE \E own \in Names : Query(c, own)
  BY <1>1, <1>14 DEF Query, Call, Connections
<1>15. CASE ExecCallback(c)
  BY <1>1, <1>15 DEF ExecCallback
<1>16. CASE LoadThrows(c)
  BY <1>1, <1>2, <1>16 DEF LoadThrows, Connections
<1>17. CASE UnknownName(c) \/ StepFails(c) \/ QueryDone(c)
  BY <1>1, <1>2, <1>3, <1>17 DEF UnknownName, StepFails, QueryDone, QueryEnds
<1> QED
  BY <1>4, <1>5, <1>6, <1>7, <1>8, <1>9, <1>10, <1>12, <1>13, <1>14, <1>15, <1>16, <1>17
     DEF StepOf

LEMMA IdleStep ==
    ASSUME TypeOK, \A c \in Clients : IdleInv(c), Next
    PROVE  \A c \in Clients : IdleInv(c)' /\ Told(c)
<1>1. PICK d \in Clients : StepOf(d)
  BY DEF Next, StepOf
<1> SUFFICES ASSUME NEW c \in Clients PROVE IdleInv(c)' /\ Told(c)
  OBVIOUS
<1>2. CASE c = d
  BY <1>1, <1>2, StepsOwn
<1>3. CASE c # d
  BY <1>1, <1>3, StepsAside, AsideKept
<1> QED
  BY <1>2, <1>3

\* What the calls return tells the program whether its client has a connection:
\* it gets one just in a Connect that returns true and loses it just in a
\* Close, its destructor or its end, and without one nothing else returns true.
THEOREM ConnectionsTold == Spec => ConnectedAsTold
<1> DEFINE R == \A c \in Clients : IdleInv(c)
           A == \A c \in Clients : Told(c)
<1>1. Init => R
  <2> SUFFICES ASSUME Init, NEW c \in Clients PROVE IdleInv(c)
    OBVIOUS
  <2>1. query[c].on = FALSE
    BY DEF Init, NoQuery
  <2>2. conn[c] \in {NewConnection, [NewConnection EXCEPT !.db = "open"]}
    BY DEF Init
  <2>3. ret.op = "Close"
    BY DEF Init
  <2> QED
    BY <2>1, <2>2, <2>3 DEF IdleInv, NewConnection
<1>2. TypeOK /\ R /\ [Next]_vars => R'
  <2>1. CASE UNCHANGED vars
    BY <2>1 DEF vars, IdleInv
  <2> QED BY <2>1, IdleStep
<1>3. TypeOK /\ R /\ [Next]_vars => [A]_vars
  BY IdleStep
<1> HIDE DEF R, A
<1>4. Spec => [][A]_vars
  BY <1>1, <1>2, <1>3, SqliteTypeCorrect, PTL DEF Spec
<1> QED
  BY <1>4 DEF A, Told, ConnectedAsTold
=============================================================================
