-------------------------- MODULE SubProcess_proofs --------------------------
(***************************************************************************)
(* Proofs about SubProcess, for any subprocesses, files, sizes of the      *)
(* table and number of calls.                                              *)
(***************************************************************************)
EXTENDS SubProcess, SequenceTheorems, WellFoundedInduction, TLAPS

-----------------------------------------------------------------------------
(***************************************************************************)
(* The inductive invariant.                                                *)
(***************************************************************************)
\* A process that does not exist has nothing open.
PhaseInv ==
    /\ phase[Main] \in {"run", "forked", "ended"}
    /\ \A p \in Procs : phase[p] \in {"none", "ended"} => fds[p] = NoFds

\* Nobody has an end of a pair that does not exist, and nothing was sent on it.
NoneInv ==
    \A s \in Subs : Runs(s, "none") =>
        /\ s \notin closed
        /\ chan[s] = <<>> /\ sent[s] = <<>> /\ got[s] = <<>>
        /\ \A p \in Procs, i \in {0, 1} : End(s, i) \notin Open(fds[p])

\* A child that has not closed pipes[1] yet has this end there and only there.
ForkInv ==
    \A s \in Subs : Runs(s, "forked") =>
        /\ SubFd(s) \in DOMAIN fds[s] /\ fds[s][SubFd(s)] = End(s, 0)
        /\ SockFd(s) # SubFd(s)
        /\ \A n \in DOMAIN fds[s] : fds[s][n] = End(s, 1) => n = SockFd(s)

\* OwnReader, and what the main process has between fork and close.
ReaderInv ==
    /\ OwnReader
    /\ \A s, r \in Subs :
         (End(s, 0) \in Open(fds[Main]) /\ End(r, 0) \in Open(fds[Main])) => s = r
    /\ \A s \in Subs, n \in DOMAIN fds[Main] :
         fds[Main][n] = End(s, 0) => n = SubFd(s)

\* NoMutualHold, also before and after the receiving.
HoldInv ==
    /\ \A s, r \in Subs :
         s = r \/ End(s, 1) \notin Open(fds[r]) \/ End(r, 1) \notin Open(fds[s])
    /\ \A s \in Subs : Runs(s, "forked") \/ End(s, 1) \notin Open(fds[s])

\* sock_fd_ of each object leads to its own subprocess.
SockInv ==
    (closed = {} /\ phase[Main] # "ended") =>
        \A s \in Subs : Runs(s, "none") \/ LeadsTo(SockFd(s), s)

\* A subprocess started with 0, 1 and 2 has them and its socket elsewhere.
StdInv ==
    \A s \in Subs : (std[s] /\ phase[s] \in {"forked", "run", "daemon"}) =>
        /\ HasSock(s)
        /\ {0, 1, 2} \subseteq DOMAIN fds[s]
        /\ SubFd(s) \notin {0, 1, 2} /\ SockFd(s) \notin {0, 1, 2}

OrderInv ==
    closed = {} => \A s \in Subs :
        phase[s] \notin {"done", "ended"} => sent[s] = got[s] \o chan[s]

IInv ==
    /\ TypeOK /\ PhaseInv /\ NoneInv /\ ForkInv /\ ReaderInv /\ HoldInv
    /\ SockInv /\ StdInv /\ OrderInv /\ ZeroIsEnd
-----------------------------------------------------------------------------
(***************************************************************************)
(* Tables.                                                                 *)
(***************************************************************************)
\* Lowest finds the least number when there is one.
LEMMA LowestIn ==
    ASSUME NEW S \in SUBSET Fds, S # {}
    PROVE  Lowest(S) \in S /\ \A k \in S : Lowest(S) <= k
<1>1. Fds \subseteq Nat
  BY LimitAssumption DEF Fds
<1>2. \E n \in S : \A k \in S : ~ (<<k, n>> \in OpToRel(<, Nat))
  <2>1. S \subseteq Nat
    BY <1>1
  <2> QED
    BY <2>1, NatLessThanWellFounded, WFMin
<1>3. PICK n \in S : \A k \in S : ~ (<<k, n>> \in OpToRel(<, Nat))
  BY <1>2
<1>4. \A k \in S : n <= k
  <2> SUFFICES ASSUME NEW k \in S, ~ (n <= k) PROVE FALSE
    OBVIOUS
  <2>1. k \in Nat /\ n \in Nat /\ k < n
    BY <1>1
  <2>2. <<k, n>> \in OpToRel(<, Nat)
    BY <2>1 DEF OpToRel
  <2> QED
    BY <1>3, <2>2
<1> QED
  BY <1>4 DEF Lowest

\* Opening: the table stays one, keeps what it had and has one thing more.
LEMMA WithIs ==
    ASSUME NEW t, IsTable(t), Free(t) # {}, NEW f \in Files \cup Ends \cup {Null}
    PROVE  /\ IsTable(With(t, f))
           /\ Lowest(Free(t)) \in Free(t) /\ \A k \in Free(t) : Lowest(Free(t)) <= k
           /\ DOMAIN With(t, f) = DOMAIN t \cup {Lowest(Free(t))}
           /\ With(t, f)[Lowest(Free(t))] = f
           /\ \A n \in DOMAIN t : With(t, f)[n] = t[n]
           /\ Open(With(t, f)) = Open(t) \cup {f}
<1> DEFINE low == Lowest(Free(t))
<1>0. low \in Free(t) /\ \A k \in Free(t) : low <= k
  <2>1. Free(t) \in SUBSET Fds
    BY DEF Free
  <2> QED
    BY <2>1, LowestIn
<1>1. low \in Fds /\ low \notin DOMAIN t
  BY <1>0 DEF Free
<1> HIDE DEF low
<1>2. With(t, f) = [n \in DOMAIN t \cup {low} |-> IF n \in DOMAIN t THEN t[n] ELSE f]
  BY DEF With, low
<1>3. DOMAIN With(t, f) = DOMAIN t \cup {low}
  BY <1>2
<1>4. With(t, f)[low] = f /\ \A n \in DOMAIN t : With(t, f)[n] = t[n]
  BY <1>1, <1>2
<1>5. IsTable(With(t, f))
  BY <1>1, <1>2, <1>3, <1>4 DEF IsTable
<1>6. Open(With(t, f)) = Open(t) \cup {f}
  BY <1>3, <1>4 DEF Open
<1> QED
  BY <1>0, <1>3, <1>4, <1>5, <1>6 DEF low

\* Closing.
LEMMA WithoutIs ==
    ASSUME NEW t, IsTable(t), NEW n
    PROVE  /\ IsTable(Without(t, n))
           /\ DOMAIN Without(t, n) = DOMAIN t \ {n}
           /\ \A k \in DOMAIN t \ {n} : Without(t, n)[k] = t[k]
           /\ Open(Without(t, n)) \subseteq Open(t)
BY DEF IsTable, Without, Open

LEMMA NoFdsIs == IsTable(NoFds) /\ Open(NoFds) = {} /\ DOMAIN NoFds = {}
BY DEF IsTable, NoFds, Open

\* The same at a known lowest number, for /dev/null.
LEMMA WithNull ==
    ASSUME NEW t, IsTable(t), Free(t) # {}, NEW low, low = Lowest(Free(t))
    PROVE  /\ IsTable(With(t, Null)) /\ DOMAIN With(t, Null) = DOMAIN t \cup {low}
           /\ Open(With(t, Null)) = Open(t) \cup {Null}
           /\ \A n \in DOMAIN t : With(t, Null)[n] = t[n]
<1>1. Null \in Files \cup Ends \cup {Null}
  OBVIOUS
<1> QED
  BY <1>1, WithIs

\* A file is no end of a pair, and neither is /dev/null.
LEMMA EndsApart ==
    \A s \in Subs, i \in {0, 1} :
      /\ End(s, i) \in Ends
      /\ End(s, i) \notin Files /\ End(s, i) # Null
      /\ \A r \in Subs, j \in {0, 1} : End(s, i) = End(r, j) <=> s = r /\ i = j
BY NamesAssumption DEF End, Ends

\* SwitchToDaemon: three numbers are free for three openings.
LEMMA RedirectIs ==
    ASSUME NEW s \in Subs, TypeOK, Redirect(s, {0, 1, 2})
    PROVE  \E t : /\ fds' = [fds EXCEPT ![s] = t]
                  /\ IsTable(t)
                  /\ Open(t) \subseteq Open(fds[s]) \cup {Null}
                  /\ \A n \in DOMAIN fds[s] \ {0, 1, 2} : n \in DOMAIN t /\ t[n] = fds[s][n]
                  /\ {0, 1, 2} \subseteq DOMAIN t
<1> DEFINE t0 == [n \in DOMAIN fds[s] \ {0, 1, 2} |-> fds[s][n]]
           t1 == With(t0, Null)
           t2 == With(t1, Null)
           t3 == With(t2, Null)
<1>1. IsTable(fds[s])
  BY DEF TypeOK, Procs
<1>2. /\ IsTable(t0) /\ DOMAIN t0 = DOMAIN fds[s] \ {0, 1, 2}
      /\ Open(t0) \subseteq Open(fds[s])
      /\ \A n \in DOMAIN fds[s] \ {0, 1, 2} : t0[n] = fds[s][n]
  BY <1>1 DEF IsTable, Open
<1>3. fds' = [fds EXCEPT ![s] = t3]
  BY DEF Redirect
<1> HIDE DEF t0
<1>5. {0, 1, 2} \subseteq Fds
  BY LimitAssumption DEF Fds
<1>6. /\ IsTable(t1) /\ DOMAIN t1 = DOMAIN t0 \cup {0}
      /\ Open(t1) = Open(t0) \cup {Null} /\ \A n \in DOMAIN t0 : t1[n] = t0[n]
  <2>1. Free(t0) # {} /\ 0 \in Free(t0) /\ Free(t0) \subseteq Nat
    BY <1>2, <1>5, LimitAssumption DEF Free, Fds
  <2>2. Lowest(Free(t0)) = 0
    <3>1. Lowest(Free(t0)) \in Free(t0) /\ \A k \in Free(t0) : Lowest(Free(t0)) <= k
      BY <2>1, <1>2, WithIs
    <3> QED
      BY <3>1, <2>1
  <2> QED
    <3>1. IsTable(t0) /\ Free(t0) # {}
      BY <2>1, <1>2
    <3> QED
      BY <2>2, <3>1, WithNull
<1> HIDE DEF t1
<1>8. /\ IsTable(t2) /\ DOMAIN t2 = DOMAIN t1 \cup {1}
      /\ Open(t2) = Open(t1) \cup {Null} /\ \A n \in DOMAIN t1 : t2[n] = t1[n]
  <2>1. /\ Free(t1) # {} /\ 0 \notin Free(t1) /\ 1 \in Free(t1)
        /\ Free(t1) \subseteq Nat
    BY <1>2, <1>5, <1>6, LimitAssumption DEF Free, Fds
  <2>2. Lowest(Free(t1)) = 1
    <3>1. Lowest(Free(t1)) \in Free(t1) /\ \A k \in Free(t1) : Lowest(Free(t1)) <= k
      BY <2>1, <1>6, WithIs
    <3> QED
      BY <3>1, <2>1
  <2> QED
    <3>1. IsTable(t1) /\ Free(t1) # {}
      BY <2>1, <1>6
    <3> QED
      BY <2>2, <3>1, WithNull
<1> HIDE DEF t2
<1>10. /\ IsTable(t3) /\ DOMAIN t3 = DOMAIN t2 \cup {2}
       /\ Open(t3) = Open(t2) \cup {Null} /\ \A n \in DOMAIN t2 : t3[n] = t2[n]
  <2>1. /\ Free(t2) # {} /\ 0 \notin Free(t2) /\ 1 \notin Free(t2) /\ 2 \in Free(t2)
        /\ Free(t2) \subseteq Nat
    BY <1>2, <1>5, <1>6, <1>8, LimitAssumption DEF Free, Fds
  <2>2. Lowest(Free(t2)) = 2
    <3>1. Lowest(Free(t2)) \in Free(t2) /\ \A k \in Free(t2) : Lowest(Free(t2)) <= k
      BY <2>1, <1>8, WithIs
    <3> QED
      BY <3>1, <2>1
  <2> QED
    <3>1. IsTable(t2) /\ Free(t2) # {}
      BY <2>1, <1>8
    <3> QED
      BY <2>2, <3>1, WithNull
<1> HIDE DEF t3
<1>11. /\ Open(t3) \subseteq Open(fds[s]) \cup {Null}
       /\ \A n \in DOMAIN fds[s] \ {0, 1, 2} : n \in DOMAIN t3 /\ t3[n] = fds[s][n]
  BY <1>2, <1>6, <1>8, <1>10
<1>12. {0, 1, 2} \subseteq DOMAIN t3
  BY <1>6, <1>8, <1>10
<1> QED
  BY <1>3, <1>10, <1>11, <1>12
-----------------------------------------------------------------------------
(***************************************************************************)
(* What the steps do to the tables.                                        *)
(***************************************************************************)
\* One process gets another table.
Puts(p, t) == fds' = [fds EXCEPT ![p] = t]

LEMMA PutIs ==
    ASSUME TypeOK, NEW p \in Procs, NEW t, Puts(p, t)
    PROVE  /\ DOMAIN fds' = Procs
           /\ fds'[p] = t
           /\ \A q \in Procs \ {p} : fds'[q] = fds[q]
           /\ IsTable(t) => \A q \in Procs : IsTable(fds'[q])
<1>1. DOMAIN fds = Procs /\ \A q \in Procs : IsTable(fds[q])
  BY DEF TypeOK
<1>2. DOMAIN fds' = Procs /\ fds'[p] = t /\ \A q \in Procs \ {p} : fds'[q] = fds[q]
  BY <1>1 DEF Puts
<1> QED
  BY <1>1, <1>2

\* A step of process p on its own table that opens no end of a pair.
Opens(p) ==
    \E t : /\ Puts(p, t) /\ IsTable(t)
           /\ Open(t) \subseteq Open(fds[p]) \cup Files \cup {Null}

\* A pair is made: both processes have both ends, at two new numbers.
LEMMA CreateIs ==
    ASSUME TypeOK, NEW s \in Subs, CreateSubProcess(s), phase'[s] # phase[s]
    PROVE  \E t : /\ fds' = [fds EXCEPT ![Main] = t, ![s] = t]
                  /\ IsTable(t)
                  /\ Open(t) = Open(fds[Main]) \cup {End(s, 0), End(s, 1)}
                  /\ pipes' \in [Subs -> [{0, 1} -> Fds \cup {-1}]]
                  /\ pipes'[s][0] \in DOMAIN t /\ t[pipes'[s][0]] = End(s, 0)
                  /\ pipes'[s][1] \in DOMAIN t /\ t[pipes'[s][1]] = End(s, 1)
                  /\ \A r \in Subs \ {s} : pipes'[r] = pipes[r]
                  /\ DOMAIN t = DOMAIN fds[Main] \cup {pipes'[s][0], pipes'[s][1]}
                  /\ pipes'[s][0] \notin DOMAIN fds[Main]
                  /\ pipes'[s][1] \notin DOMAIN fds[Main]
                  /\ pipes'[s][0] # pipes'[s][1]
                  /\ \A n \in DOMAIN fds[Main] : t[n] = fds[Main][n]
                  /\ phase' = [phase EXCEPT ![Main] = "forked", ![s] = "forked"]
                  /\ std' = [std EXCEPT ![s] = {0, 1, 2} \subseteq DOMAIN fds[Main]]
<1> DEFINE t0 == fds[Main]
           one == With(t0, End(s, 0))
           both == With(one, End(s, 1))
<1>1. /\ phase \in [Procs -> {"none", "forked", "run", "daemon", "done", "ended"}]
      /\ s # Main /\ s \in Procs /\ Main \in Procs /\ IsTable(t0)
      /\ pipes \in [Subs -> [{0, 1} -> Fds \cup {-1}]]
  BY NamesAssumption DEF TypeOK, Procs
<1>2. ~ Ended(Main)
  BY <1>1 DEF Ended
<1>3. /\ \E n, m \in Free(t0) : n # m
      /\ fds' = [fds EXCEPT ![Main] = both, ![s] = both]
      /\ pipes' = [pipes EXCEPT ![s] =
              [i \in {0, 1} |-> IF i = 0 THEN Lowest(Free(t0)) ELSE Lowest(Free(one))]]
      /\ phase' = [phase EXCEPT ![Main] = "forked", ![s] = "forked"]
      /\ std' = [std EXCEPT ![s] = {0, 1, 2} \subseteq DOMAIN t0]
  BY <1>2 DEF CreateSubProcess
<1>4. End(s, 0) \in Ends /\ End(s, 1) \in Ends
  BY EndsApart
<1> HIDE DEF t0
<1>5. /\ IsTable(one) /\ DOMAIN one = DOMAIN t0 \cup {Lowest(Free(t0))}
      /\ Lowest(Free(t0)) \in Fds /\ Lowest(Free(t0)) \notin DOMAIN t0
      /\ one[Lowest(Free(t0))] = End(s, 0)
      /\ \A n \in DOMAIN t0 : one[n] = t0[n]
      /\ Open(one) = Open(t0) \cup {End(s, 0)}
  <2>1. Free(t0) # {}
    BY <1>3
  <2> QED
    BY <2>1, <1>1, <1>4, WithIs DEF Free
<1> HIDE DEF one
<1>6. /\ IsTable(both) /\ DOMAIN both = DOMAIN one \cup {Lowest(Free(one))}
      /\ Lowest(Free(one)) \in Fds /\ Lowest(Free(one)) \notin DOMAIN one
      /\ both[Lowest(Free(one))] = End(s, 1)
      /\ \A n \in DOMAIN one : both[n] = one[n]
      /\ Open(both) = Open(one) \cup {End(s, 1)}
  <2>1. Free(one) # {}
    BY <1>3, <1>5 DEF Free
  <2> QED
    BY <2>1, <1>4, <1>5, WithIs DEF Free
<1> HIDE DEF both
<1>7. /\ pipes' \in [Subs -> [{0, 1} -> Fds \cup {-1}]]
      /\ pipes'[s][0] = Lowest(Free(t0)) /\ pipes'[s][1] = Lowest(Free(one))
      /\ \A r \in Subs \ {s} : pipes'[r] = pipes[r]
  BY <1>1, <1>3, <1>5, <1>6
<1>8. t0 = fds[Main]
  BY DEF t0
<1> DEFINE low == pipes'[s][0]
           high == pipes'[s][1]
<1>9. /\ DOMAIN both = DOMAIN t0 \cup {low, high}
      /\ low \notin DOMAIN t0 /\ high \notin DOMAIN t0 /\ low # high
      /\ \A n \in DOMAIN t0 : both[n] = t0[n]
  BY <1>5, <1>6, <1>7
<1>10. both[low] = End(s, 0) /\ both[high] = End(s, 1)
  BY <1>5, <1>6, <1>7
<1>11. Open(both) = Open(t0) \cup {End(s, 0), End(s, 1)}
  BY <1>5, <1>6
<1>12. low \in DOMAIN both /\ high \in DOMAIN both
  BY <1>9
<1> HIDE DEF low, high
<1>13. /\ fds' = [fds EXCEPT ![Main] = both, ![s] = both] /\ IsTable(both)
       /\ pipes' \in [Subs -> [{0, 1} -> Fds \cup {-1}]]
       /\ \A r \in Subs \ {s} : pipes'[r] = pipes[r]
       /\ phase' = [phase EXCEPT ![Main] = "forked", ![s] = "forked"]
       /\ std' = [std EXCEPT ![s] = {0, 1, 2} \subseteq DOMAIN t0]
  BY <1>3, <1>6, <1>7
<1> QED
  BY <1>8, <1>9, <1>10, <1>11, <1>12, <1>13, Zenon DEF low, high

\* Both tables after the fork.
LEMMA CreatePuts ==
    ASSUME TypeOK, NEW s \in Subs, NEW t, IsTable(t),
           fds' = [fds EXCEPT ![Main] = t, ![s] = t]
    PROVE  /\ DOMAIN fds' = Procs /\ fds'[Main] = t /\ fds'[s] = t
           /\ \A q \in Procs \ {Main, s} : fds'[q] = fds[q]
           /\ \A q \in Procs : IsTable(fds'[q])
<1>1. DOMAIN fds = Procs /\ \A q \in Procs : IsTable(fds[q])
  BY DEF TypeOK
<1>2. s \in Procs /\ Main \in Procs /\ s # Main
  BY NamesAssumption DEF Procs
<1>3. /\ DOMAIN fds' = Procs /\ fds'[Main] = t /\ fds'[s] = t
      /\ \A q \in Procs \ {Main, s} : fds'[q] = fds[q]
  BY <1>1, <1>2
<1> QED
  BY <1>1, <1>3

\* A fork that fails ends the main process; otherwise the new process differs.
LEMMA CreateCases ==
    ASSUME TypeOK, NEW s \in Subs, CreateSubProcess(s)
    PROVE  \/ phase'[s] # phase[s]
           \/ Ended(Main) /\ UNCHANGED <<pipes, std, chan, last, calls, sent, got, closed>>
<1>1. phase \in [Procs -> {"none", "forked", "run", "daemon", "done", "ended"}] /\ s \in Procs
  BY DEF TypeOK, Procs
<1>2. phase[s] = "none"
  BY DEF CreateSubProcess, Runs
<1>3. CASE Ended(Main) /\ UNCHANGED <<pipes, std>>
  BY <1>3 DEF CreateSubProcess
<1>4. CASE phase' = [phase EXCEPT ![Main] = "forked", ![s] = "forked"]
  BY <1>1, <1>2, <1>4
<1> QED
  BY <1>3, <1>4 DEF CreateSubProcess

LEMMA EndOpens ==
    ASSUME TypeOK, NEW p \in Procs, Ended(p)
    PROVE  Opens(p) /\ Puts(p, NoFds)
BY NoFdsIs DEF Ended, Opens, Puts

LEMMA WithoutOpens ==
    ASSUME TypeOK, NEW p \in Procs, NEW n, Puts(p, Without(fds[p], n))
    PROVE  Opens(p)
BY WithoutIs DEF TypeOK, Opens

LEMMA WithOpens ==
    ASSUME TypeOK, NEW p \in Procs, NEW f \in Files, Free(fds[p]) # {},
           Puts(p, With(fds[p], f))
    PROVE  Opens(p)
<1>1. IsTable(fds[p]) /\ f \in Files \cup Ends \cup {Null}
  BY DEF TypeOK
<1>2. IsTable(With(fds[p], f)) /\ Open(With(fds[p], f)) = Open(fds[p]) \cup {f}
  BY <1>1, WithIs
<1> QED
  BY <1>2 DEF Opens

\* Every step but a successful fork is such a step of one process.
LEMMA OwnTable ==
    ASSUME TypeOK, Next
    PROVE  \/ \E s \in Subs : CreateSubProcess(s) /\ phase'[s] # phase[s]
           \/ fds' = fds
           \/ \E p \in Procs : Opens(p)
<1>m. Main \in Procs /\ Subs \subseteq Procs
  BY DEF Procs
<1>1. CASE Exit(Main)
  BY <1>1, <1>m, EndOpens DEF Exit
<1>2. ASSUME NEW f \in Files, OpenFile(f) PROVE \E p \in Procs : Opens(p)
  BY <1>2, <1>m, WithOpens DEF OpenFile, Puts
<1>3. ASSUME NEW s \in Subs, CreateSubProcess(s), phase'[s] = phase[s]
      PROVE  \E p \in Procs : Opens(p)
  BY <1>3, <1>m, CreateCases, EndOpens
<1>4. ASSUME NEW s \in Subs, MainCloses(s) PROVE \E p \in Procs : Opens(p)
  BY <1>4, <1>m, WithoutOpens DEF MainCloses, Puts
<1>5. ASSUME NEW s \in Subs, SubCloses(s) PROVE \E p \in Procs : Opens(p)
  BY <1>5, <1>m, WithoutOpens DEF SubCloses, Puts
<1>6. ASSUME NEW s \in Subs, NEW fd \in Fds \cup {-1}, SendFd(s, fd)
      PROVE  fds' = fds \/ \E p \in Procs : Opens(p)
  BY <1>6, <1>m, EndOpens DEF SendFd, SendOn
<1>7. ASSUME NEW s \in Subs, CloseFd(s) PROVE \E p \in Procs : Opens(p)
  BY <1>7, <1>m, WithoutOpens DEF CloseFd, Puts
<1>8. ASSUME NEW s \in Subs, Exit(s) PROVE \E p \in Procs : Opens(p)
  BY <1>8, <1>m, EndOpens DEF Exit
<1>9. ASSUME NEW s \in Subs, SwitchToDaemon(s) PROVE \E p \in Procs : Opens(p)
  <2>1. Redirect(s, {0, 1, 2})
    BY <1>9 DEF SwitchToDaemon, DaemonClosing
  <2> QED
    BY <2>1, <1>m, RedirectIs DEF Opens, Puts
<1>10. ASSUME NEW s \in Subs, RecvFd(s) PROVE fds' = fds \/ \E p \in Procs : Opens(p)
  <2>1. CASE RecvFile(s)
    <3>1. chan[s] \in Seq(Files) /\ chan[s] # <<>>
      BY <2>1 DEF RecvFile, TypeOK
    <3>2. Head(chan[s]) \in Files
      BY <3>1
    <3> QED
      BY <2>1, <3>2, <1>m, WithOpens DEF RecvFile, Puts
  <2>2. CASE RecvEnd(s) \/ RecvError(s)
    BY <2>2 DEF RecvEnd, RecvError
  <2> QED
    BY <1>10, <2>1, <2>2 DEF RecvFd
<1>11. ASSUME NEW s \in Subs, NEW n \in Fds, CloseFile(s, n) PROVE \E p \in Procs : Opens(p)
  BY <1>11, <1>m, WithoutOpens DEF CloseFile, Puts
<1> QED
  BY <1>1, <1>2, <1>3, <1>4, <1>5, <1>6, <1>7, <1>8, <1>9, <1>10, <1>11 DEF Next
-----------------------------------------------------------------------------
(***************************************************************************)
(* Types.                                                                  *)
(***************************************************************************)
Phases == {"none", "forked", "run", "daemon", "done", "ended"}

LEMMA TypeInit == Init => TypeOK
<1> SUFFICES ASSUME Init PROVE TypeOK
  OBVIOUS
<1>0. PICK ns \in SUBSET {0, 1, 2} : \E t \in [ns -> Files] :
        fds = [p \in Procs |-> IF p = Main THEN t ELSE NoFds]
  BY DEF Init
<1>1. PICK t \in [ns -> Files] :
        fds = [p \in Procs |-> IF p = Main THEN t ELSE NoFds]
  BY <1>0
<1>2. IsTable(t) /\ IsTable(NoFds)
  BY NoFdsIs, LimitAssumption DEF IsTable, Fds
<1>3. DOMAIN fds = Procs /\ \A p \in Procs : IsTable(fds[p])
  BY <1>1, <1>2
<1>4. phase \in [Procs -> Phases]
  BY DEF Init, Phases
<1>5. pipes \in [Subs -> [{0, 1} -> Fds \cup {-1}]]
  BY DEF Init, NoPipes
<1>6. /\ chan \in [Subs -> Seq(Files)] /\ sent \in [Subs -> Seq(Files)]
      /\ got \in [Subs -> Seq(Files)]
  <2>1. <<>> \in Seq(Files)
    OBVIOUS
  <2> QED
    BY <2>1 DEF Init
<1>7. /\ last \in [Subs -> Fds \cup {-1}]
      /\ calls \in 0 .. MaxSends /\ std \in [Subs -> BOOLEAN] /\ closed \subseteq Subs
  BY LimitAssumption DEF Init
<1> QED
  BY <1>3, <1>4, <1>5, <1>6, <1>7 DEF TypeOK, Phases

\* Tables stay tables.
LEMMA TablesTyped ==
    ASSUME TypeOK, [Next]_vars
    PROVE  DOMAIN fds' = Procs /\ \A p \in Procs : IsTable(fds'[p])
<1>1. ASSUME NEW s \in Subs, CreateSubProcess(s), phase'[s] # phase[s]
      PROVE  DOMAIN fds' = Procs /\ \A p \in Procs : IsTable(fds'[p])
  BY <1>1, CreateIs, CreatePuts
<1>2. CASE UNCHANGED fds
  BY <1>2 DEF TypeOK
<1>3. ASSUME NEW p \in Procs, Opens(p)
      PROVE  DOMAIN fds' = Procs /\ \A q \in Procs : IsTable(fds'[q])
  BY <1>3, PutIs DEF Opens
<1> QED
  BY <1>1, <1>2, <1>3, OwnTable DEF vars

\* The phases of a step.
LEMMA PhasesTyped ==
    ASSUME TypeOK, [Next]_vars
    PROVE  phase' \in [Procs -> Phases]
<1>0. phase \in [Procs -> Phases] /\ Main \in Procs /\ Subs \subseteq Procs
  BY DEF TypeOK, Phases, Procs
<1>1. ASSUME NEW p \in Procs, Ended(p) PROVE phase' \in [Procs -> Phases]
  BY <1>0, <1>1 DEF Ended, Phases
<1>2. CASE UNCHANGED vars
  BY <1>0, <1>2 DEF vars
<1>3. ASSUME NEW p \in Procs, Exit(p) PROVE phase' \in [Procs -> Phases]
  BY <1>3, <1>1 DEF Exit
<1>4. ASSUME NEW f \in Files, OpenFile(f) PROVE phase' \in [Procs -> Phases]
  BY <1>0, <1>4 DEF OpenFile
<1>5. ASSUME NEW s \in Subs, CreateSubProcess(s) PROVE phase' \in [Procs -> Phases]
  BY <1>0, <1>1, <1>5 DEF CreateSubProcess, Phases
<1>6. ASSUME NEW s \in Subs, MainCloses(s) \/ SubCloses(s) \/ SwitchToDaemon(s)
      PROVE  phase' \in [Procs -> Phases]
  BY <1>0, <1>6 DEF MainCloses, SubCloses, SwitchToDaemon, DaemonClosing, Phases
<1>7. ASSUME NEW s \in Subs, NEW fd \in Fds \cup {-1}, SendFd(s, fd)
      PROVE  phase' \in [Procs -> Phases]
  BY <1>0, <1>1, <1>7 DEF SendFd, SendOn
<1>8. ASSUME NEW s \in Subs, RecvFd(s) PROVE phase' \in [Procs -> Phases]
  BY <1>0, <1>8 DEF RecvFd, Phases
<1>9. ASSUME NEW s \in Subs, NEW n \in Fds, CloseFd(s) \/ CloseFile(s, n)
      PROVE  phase' \in [Procs -> Phases]
  BY <1>0, <1>9 DEF CloseFd, CloseFile
<1>10. ASSUME NEW s \in Subs, CloseFd(s) PROVE phase' \in [Procs -> Phases]
  BY <1>0, <1>10 DEF CloseFd
<1> QED
  BY <1>0, <1>2, <1>3, <1>4, <1>5, <1>6, <1>7, <1>8, <1>9, <1>10 DEF Next

\* A step that moves no file.
Still == UNCHANGED <<chan, sent, got>>

\* The part of TypeOK about them.
SeqsOK ==
    /\ chan \in [Subs -> Seq(Files)]
    /\ sent \in [Subs -> Seq(Files)]
    /\ got \in [Subs -> Seq(Files)]

\* What SendFd sends and RecvFd takes.
LEMMA FilesTyped ==
    ASSUME TypeOK, [Next]_vars
    PROVE  SeqsOK'
<1>1. /\ chan \in [Subs -> Seq(Files)] /\ sent \in [Subs -> Seq(Files)]
      /\ got \in [Subs -> Seq(Files)]
  BY DEF TypeOK, SeqsOK
<1>2. Still => SeqsOK'
  BY <1>1 DEF Still, SeqsOK
<1>a. ASSUME NEW c \in [Subs -> Seq(Files)], NEW s \in Subs, NEW f \in Files
      PROVE  [c EXCEPT ![s] = Append(@, f)] \in [Subs -> Seq(Files)]
  <2>1. c[s] \in Seq(Files)
    OBVIOUS
  <2>2. Append(c[s], f) \in Seq(Files)
    BY <2>1
  <2> QED
    BY <2>2
<1>3. ASSUME NEW s \in Subs, NEW fd \in Fds \cup {-1}, SendFd(s, fd) PROVE SeqsOK'
  <2>1. CASE chan' = chan /\ sent' = sent
    BY <2>1, <1>1, <1>3 DEF SendFd, SendOn, SeqsOK
  <2>2. CASE \E r \in Subs :
               /\ fd \in DOMAIN fds[Main]
               /\ chan' = [chan EXCEPT ![r] = Append(@, fds[Main][fd])]
               /\ sent' = [sent EXCEPT ![s] = Append(@, fds[Main][fd])]
    <3>1. fds[Main][fd] \in Files
      BY <2>2, <1>3 DEF SendFd, SendOn
    <3>2. chan' \in [Subs -> Seq(Files)] /\ sent' \in [Subs -> Seq(Files)]
      BY <2>2, <3>1, <1>1, <1>a
    <3>3. got' = got
      BY <1>3 DEF SendFd, SendOn
    <3> QED
      BY <3>2, <3>3, <1>1 DEF SeqsOK
  <2> QED
    BY <1>3, <2>1, <2>2 DEF SendFd, SendOn
<1>4. ASSUME NEW s \in Subs, RecvFd(s) PROVE SeqsOK'
  <2>1. sent' = sent
    BY <1>4 DEF RecvFd
  <2>2. CASE RecvFile(s)
    <3>1. chan[s] \in Seq(Files) /\ chan[s] # <<>>
      BY <2>2, <1>1 DEF RecvFile
    <3>2. Head(chan[s]) \in Files /\ Tail(chan[s]) \in Seq(Files)
      BY <3>1
    <3>3. chan' \in [Subs -> Seq(Files)]
      BY <2>2, <3>2, <1>1 DEF RecvFile
    <3>4. got' \in [Subs -> Seq(Files)]
      <4>1. CASE got' = got
        BY <4>1, <1>1
      <4>2. CASE got' = [got EXCEPT ![s] = Append(@, Head(chan[s]))]
        BY <4>2, <3>2, <1>1, <1>a
      <4> QED
        BY <2>2, <4>1, <4>2 DEF RecvFile
    <3> QED
      BY <2>1, <3>3, <3>4, <1>1 DEF SeqsOK
  <2>3. CASE RecvEnd(s) \/ RecvError(s)
    BY <2>1, <2>3, <1>1 DEF RecvEnd, RecvError, SeqsOK
  <2> QED
    BY <1>4, <2>2, <2>3 DEF RecvFd
<1>5. ASSUME NEW s \in Subs,
             \/ CreateSubProcess(s) \/ MainCloses(s) \/ SubCloses(s) \/ CloseFd(s)
             \/ SwitchToDaemon(s)
      PROVE  Still
  BY <1>5 DEF CreateSubProcess, MainCloses, SubCloses, CloseFd, SwitchToDaemon,
     DaemonClosing, Still
<1>c. ASSUME NEW s \in Subs, NEW n \in Fds, CloseFile(s, n) PROVE Still
  BY <1>c DEF CloseFile, Still
<1>6. ASSUME NEW p \in Procs, Exit(p) PROVE Still
  BY <1>6 DEF Exit, Still
<1>7. ASSUME NEW f \in Files, OpenFile(f) PROVE Still
  BY <1>7 DEF OpenFile, Still
<1>8. CASE UNCHANGED vars
  BY <1>2, <1>8 DEF vars, Still
<1>9. Main \in Procs /\ Subs \subseteq Procs
  BY DEF Procs
<1> QED
  BY <1>2, <1>3, <1>4, <1>5, <1>6, <1>7, <1>8, <1>9, <1>c DEF Next
\* The rest of TypeOK.
RestOK ==
    /\ pipes \in [Subs -> [{0, 1} -> Fds \cup {-1}]]
    /\ last \in [Subs -> Fds \cup {-1}]
   
    /\ calls \in 0 .. MaxSends
    /\ std \in [Subs -> BOOLEAN]
    /\ closed \subseteq Subs

LEMMA RestTyped ==
    ASSUME TypeOK, [Next]_vars
    PROVE  RestOK'
<1>0. RestOK
  BY DEF TypeOK, RestOK
<1>1. ASSUME UNCHANGED <<pipes, last, calls, std, closed>> PROVE RestOK'
  BY <1>0, <1>1 DEF RestOK
<1>2. CASE UNCHANGED vars
  BY <1>1, <1>2 DEF vars
<1>3. ASSUME NEW p \in Procs, Exit(p) PROVE RestOK'
  BY <1>1, <1>3 DEF Exit
<1>4. ASSUME Call PROVE calls' \in 0 .. MaxSends
  BY <1>0, <1>4, LimitAssumption DEF RestOK, Call
<1>5. ASSUME NEW f \in Files, OpenFile(f) PROVE RestOK'
  BY <1>0, <1>4, <1>5 DEF OpenFile, RestOK
<1>6. ASSUME NEW s \in Subs, CreateSubProcess(s) PROVE RestOK'
  <2>1. CASE phase'[s] # phase[s]
    <3>1. pipes' \in [Subs -> [{0, 1} -> Fds \cup {-1}]]
      BY <1>6, <2>1, CreateIs
    <3>2. std' = [std EXCEPT ![s] = {0, 1, 2} \subseteq DOMAIN fds[Main]]
      BY <1>6, <2>1, CreateIs
    <3>3. std' \in [Subs -> BOOLEAN]
      <4> DEFINE b == {0, 1, 2} \subseteq DOMAIN fds[Main]
      <4>1. b \in BOOLEAN
        OBVIOUS
      <4>2. std' = [std EXCEPT ![s] = b]
        BY <3>2
      <4> HIDE DEF b
      <4> QED
        BY <4>1, <4>2, <1>0 DEF RestOK
    <3> QED
      BY <1>0, <1>6, <3>1, <3>3 DEF CreateSubProcess, RestOK
  <2>2. CASE phase'[s] = phase[s]
    BY <1>6, <2>2, <1>1, CreateCases
  <2> QED
    BY <2>1, <2>2
<1>7. ASSUME NEW s \in Subs, MainCloses(s) \/ SubCloses(s) PROVE RestOK'
  BY <1>1, <1>7 DEF MainCloses, SubCloses
<1>8. ASSUME NEW s \in Subs, SwitchToDaemon(s) PROVE RestOK'
  BY <1>1, <1>8 DEF SwitchToDaemon, DaemonClosing
<1>9. ASSUME NEW s \in Subs, NEW fd \in Fds \cup {-1}, SendFd(s, fd) PROVE RestOK'
  BY <1>0, <1>4, <1>9 DEF SendFd, SendOn, RestOK
<1>10. ASSUME NEW s \in Subs, CloseFd(s) PROVE RestOK'
  BY <1>0, <1>4, <1>10 DEF CloseFd, RestOK
<1>11. ASSUME NEW s \in Subs, RecvFd(s) PROVE RestOK'
  <2>1. ASSUME NEW fd \in Fds \cup {-1}, Returns(s, fd)
        PROVE  last' \in [Subs -> Fds \cup {-1}]
    BY <1>0, <2>1 DEF Returns, RestOK
  <2>2. 0 \in Fds
    BY LimitAssumption DEF Fds
  <2>3. Free(fds[s]) # {} => Lowest(Free(fds[s])) \in Fds
    BY LowestIn DEF Free
  <2>4. last' \in [Subs -> Fds \cup {-1}]
    BY <1>11, <2>1, <2>2, <2>3 DEF RecvFd, RecvFile, RecvEnd, RecvError
  <2> QED
    BY <1>0, <1>11, <2>4 DEF RecvFd, RestOK
<1>12. ASSUME NEW s \in Subs, NEW n \in Fds, CloseFile(s, n) PROVE RestOK'
  BY <1>1, <1>12 DEF CloseFile
<1>13. Main \in Procs /\ Subs \subseteq Procs
  BY DEF Procs
<1> QED
  BY <1>2, <1>3, <1>5, <1>6, <1>7, <1>8, <1>9, <1>10, <1>11, <1>12, <1>13 DEF Next

LEMMA TypeStep == TypeOK /\ [Next]_vars => TypeOK'
<1> SUFFICES ASSUME TypeOK, [Next]_vars PROVE TypeOK'
  OBVIOUS
<1> QED
  BY TablesTyped, PhasesTyped, FilesTyped, RestTyped DEF TypeOK, SeqsOK, RestOK, Phases

\* The types of the tables, the socketpairs and the histories hold for any
\* subprocesses, files and limits (SubProcess: every number is a free one or -1).
THEOREM SubTypeCorrect == Spec => []TypeOK
BY TypeInit, TypeStep, PTL DEF Spec
-----------------------------------------------------------------------------
(***************************************************************************)
(* Who has which end.                                                      *)
(***************************************************************************)
\* A fork that succeeds.
Forks(s) == CreateSubProcess(s) /\ phase'[s] # phase[s]

\* No other step gives an end of a pair to a process.
LEMMA Shrinks ==
    ASSUME TypeOK, [Next]_vars, \A s \in Subs : ~ Forks(s)
    PROVE  \A p \in Procs, s \in Subs, i \in {0, 1} :
             End(s, i) \in Open(fds'[p]) => End(s, i) \in Open(fds[p])
<1>1. CASE fds' = fds
  BY <1>1
<1>2. ASSUME NEW q \in Procs, Opens(q)
      PROVE  \A p \in Procs, s \in Subs, i \in {0, 1} :
               End(s, i) \in Open(fds'[p]) => End(s, i) \in Open(fds[p])
  <2>1. PICK t : /\ Puts(q, t) /\ IsTable(t)
                 /\ Open(t) \subseteq Open(fds[q]) \cup Files \cup {Null}
    BY <1>2 DEF Opens
  <2>2. fds'[q] = t /\ \A p \in Procs \ {q} : fds'[p] = fds[p]
    BY <2>1, PutIs
  <2> QED
    BY <2>1, <2>2, EndsApart
<1> QED
  BY <1>1, <1>2, OwnTable DEF Forks, vars

\* What a step does to the phases, beside a fork.
LEMMA PhaseSteps ==
    ASSUME TypeOK, PhaseInv, [Next]_vars, \A s \in Subs : ~ Forks(s)
    PROVE  /\ pipes' = pipes /\ std' = std
           /\ \A s \in Subs : Runs(s, "none")' <=> Runs(s, "none")
           /\ \A s \in Subs : Runs(s, "forked")' => Runs(s, "forked")
           /\ Runs(Main, "forked")' => Runs(Main, "forked")
           /\ phase'[Main] \in {"run", "forked", "ended"}
           /\ \A p \in Procs : Runs(p, "ended") => Runs(p, "ended")'
           /\ \A p \in Procs : Runs(p, "ended")' => Runs(p, "ended") \/ fds'[p] = NoFds
           /\ closed \subseteq closed'
<1> DEFINE Goal == /\ pipes' = pipes /\ std' = std
                   /\ \A s \in Subs : phase'[s] = "none" <=> phase[s] = "none"
                   /\ \A s \in Subs : phase'[s] = "forked" => phase[s] = "forked"
                   /\ phase'[Main] = "forked" => phase[Main] = "forked"
                   /\ phase'[Main] \in {"run", "forked", "ended"}
                   /\ \A p \in Procs : phase[p] = "ended" => phase'[p] = "ended"
                   /\ \A p \in Procs : phase'[p] = "ended" =>
                        phase[p] = "ended" \/ fds'[p] = NoFds
                   /\ closed \subseteq closed'
<1>0. /\ phase \in [Procs -> Phases] /\ Main \in Procs /\ Subs \subseteq Procs
      /\ Main \notin Subs /\ phase[Main] \in {"run", "forked", "ended"}
      /\ DOMAIN fds = Procs
  BY NamesAssumption DEF TypeOK, Phases, Procs, PhaseInv
<1>1. UNCHANGED <<pipes, std, phase>> /\ closed \subseteq closed' => Goal
  BY <1>0
<1>2. ASSUME NEW p \in Procs, Ended(p), UNCHANGED <<pipes, std, closed>>,
             phase[p] \notin {"none", "ended"}
      PROVE  Goal
  BY <1>0, <1>2 DEF Ended
<1>3. ASSUME NEW p \in Procs, Exit(p) PROVE Goal
  BY <1>2, <1>3 DEF Exit
<1>4. ASSUME NEW f \in Files, OpenFile(f) PROVE Goal
  BY <1>1, <1>4 DEF OpenFile
<1>5. ASSUME NEW s \in Subs, CreateSubProcess(s) PROVE Goal
  <2>1. Ended(Main) /\ UNCHANGED <<pipes, std, chan, last, calls, sent, got, closed>>
    BY <1>5, CreateCases DEF Forks
  <2>2. phase[Main] = "run"
    BY <1>5 DEF CreateSubProcess, Runs
  <2> QED
    BY <1>0, <1>2, <2>1, <2>2
<1>6. ASSUME NEW s \in Subs, MainCloses(s) PROVE Goal
  BY <1>0, <1>6 DEF MainCloses, Runs
<1>7. ASSUME NEW s \in Subs, SubCloses(s) PROVE Goal
  BY <1>0, <1>7 DEF SubCloses, Runs
<1>8. ASSUME NEW s \in Subs, SwitchToDaemon(s) PROVE Goal
  BY <1>0, <1>8 DEF SwitchToDaemon, DaemonClosing, Runs
<1>9. ASSUME NEW s \in Subs, NEW fd \in Fds \cup {-1}, SendFd(s, fd) PROVE Goal
  BY <1>0, <1>1, <1>2, <1>9 DEF SendFd, SendOn, Call, Runs
<1>10. ASSUME NEW s \in Subs, CloseFd(s) PROVE Goal
  BY <1>1, <1>10 DEF CloseFd
<1>11. ASSUME NEW s \in Subs, RecvFd(s) PROVE Goal
  BY <1>0, <1>11 DEF RecvFd
<1>12. ASSUME NEW s \in Subs, NEW n \in Fds, CloseFile(s, n) PROVE Goal
  BY <1>1, <1>12 DEF CloseFile
<1>13. UNCHANGED vars => Goal
  BY <1>1 DEF vars
<1> HIDE DEF Goal
<1>14. Next => Goal
  BY <1>0, <1>3, <1>4, <1>5, <1>6, <1>7, <1>8, <1>9, <1>10, <1>11, <1>12 DEF Next
<1>15. Goal
  BY <1>13, <1>14
<1> QED
  BY <1>15 DEF Goal, Runs

\* What no step moves but Send and Receive.
LEMMA ForkSteps ==
    ASSUME TypeOK, PhaseInv, NEW s \in Subs, Forks(s)
    PROVE  /\ phase[Main] = "run" /\ phase[s] = "none"
           /\ phase'[Main] = "forked" /\ phase'[s] = "forked"
           /\ \A p \in Procs \ {Main, s} : phase'[p] = phase[p]
           /\ UNCHANGED <<chan, last, calls, sent, got, closed>>
<1>1. phase \in [Procs -> Phases] /\ Main \in Procs /\ s \in Procs /\ s # Main
  BY NamesAssumption DEF TypeOK, Phases, Procs
<1>2. phase' = [phase EXCEPT ![Main] = "forked", ![s] = "forked"]
  BY CreateIs DEF Forks
<1> QED
  BY <1>1, <1>2 DEF Forks, CreateSubProcess, Runs
\* A process that does not run keeps its table.
LEMMA AbsentStays ==
    ASSUME TypeOK, PhaseInv, [Next]_vars, \A s \in Subs : ~ Forks(s),
           NEW p \in Procs, phase[p] \in {"none", "ended"}
    PROVE  fds'[p] = fds[p]
<1>1. ASSUME NEW q \in Procs, phase[q] \notin {"none", "ended"}, NEW t, Puts(q, t)
      PROVE  fds'[p] = fds[p]
  BY <1>1, PutIs
<1>2. ASSUME NEW q \in Procs, Ended(q), phase[q] \notin {"none", "ended"}
      PROVE  fds'[p] = fds[p]
  BY <1>1, <1>2 DEF Ended, Puts
<1>m. Main \in Procs /\ Subs \subseteq Procs
  BY DEF Procs
<1>3. ASSUME NEW q \in Procs, Exit(q) PROVE fds'[p] = fds[p]
  BY <1>2, <1>3 DEF Exit
<1>4. ASSUME NEW f \in Files, OpenFile(f) PROVE fds'[p] = fds[p]
  BY <1>1, <1>4, <1>m DEF OpenFile, Call, Runs, Puts
<1>5. ASSUME NEW s \in Subs, CreateSubProcess(s) PROVE fds'[p] = fds[p]
  <2>1. Ended(Main) /\ phase[Main] = "run"
    BY <1>5, CreateCases DEF Forks, CreateSubProcess, Runs
  <2> QED
    BY <1>2, <1>m, <2>1
<1>6. ASSUME NEW s \in Subs, MainCloses(s) PROVE fds'[p] = fds[p]
  BY <1>1, <1>6, <1>m DEF MainCloses, Runs, Puts
<1>7. ASSUME NEW s \in Subs, SubCloses(s) PROVE fds'[p] = fds[p]
  BY <1>1, <1>7, <1>m DEF SubCloses, Runs, Puts
<1>8. ASSUME NEW s \in Subs, SwitchToDaemon(s) PROVE fds'[p] = fds[p]
  <2>1. phase[s] = "run" /\ \E t : Puts(s, t)
    BY <1>8 DEF SwitchToDaemon, DaemonClosing, Redirect, Runs, Puts
  <2> QED
    BY <1>1, <1>m, <2>1
<1>9. ASSUME NEW s \in Subs, NEW fd \in Fds \cup {-1}, SendFd(s, fd) PROVE fds'[p] = fds[p]
  BY <1>2, <1>9, <1>m DEF SendFd, SendOn, Call, Runs
<1>10. ASSUME NEW s \in Subs, CloseFd(s) PROVE fds'[p] = fds[p]
  BY <1>1, <1>10, <1>m DEF CloseFd, Call, Runs, Puts
<1>11. ASSUME NEW s \in Subs, RecvFd(s) PROVE fds'[p] = fds[p]
  <2>1. phase[s] \in {"run", "daemon"} /\ (fds' = fds \/ \E t : Puts(s, t))
    BY <1>11 DEF RecvFd, RecvFile, RecvEnd, RecvError, Puts
  <2> QED
    BY <1>1, <1>m, <2>1
<1>12. ASSUME NEW s \in Subs, NEW n \in Fds, CloseFile(s, n) PROVE fds'[p] = fds[p]
  BY <1>1, <1>12, <1>m DEF CloseFile, Puts
<1>13. UNCHANGED vars => fds'[p] = fds[p]
  BY DEF vars
<1> QED
  BY <1>3, <1>4, <1>5, <1>6, <1>7, <1>8, <1>9, <1>10, <1>11, <1>12, <1>13, <1>m DEF Next

\* So does one between the fork and its close.
LEMMA ForkedStays ==
    ASSUME TypeOK, PhaseInv, [Next]_vars, \A s \in Subs : ~ Forks(s),
           NEW p \in Procs, phase[p] = "forked", phase'[p] = "forked"
    PROVE  fds'[p] = fds[p]
<1>0. phase \in [Procs -> Phases] /\ Main \in Procs /\ Subs \subseteq Procs /\ Main \notin Subs
  BY NamesAssumption DEF TypeOK, Phases, Procs
<1>1. ASSUME NEW q \in Procs, q # p, NEW t, Puts(q, t) PROVE fds'[p] = fds[p]
  BY <1>1, PutIs
<1>2. ASSUME NEW q \in Procs, Ended(q) PROVE fds'[p] = fds[p]
  BY <1>0, <1>1, <1>2 DEF Ended, Puts
<1>3. ASSUME NEW q \in Procs, Exit(q) PROVE fds'[p] = fds[p]
  BY <1>2, <1>3 DEF Exit
<1>4. ASSUME NEW f \in Files, OpenFile(f) PROVE fds'[p] = fds[p]
  BY <1>0, <1>1, <1>4 DEF OpenFile, Call, Runs, Puts
<1>5. ASSUME NEW s \in Subs, CreateSubProcess(s) PROVE fds'[p] = fds[p]
  BY <1>0, <1>2, <1>5, CreateCases DEF Forks
<1>6. ASSUME NEW s \in Subs, MainCloses(s) PROVE fds'[p] = fds[p]
  BY <1>0, <1>1, <1>6 DEF MainCloses, Puts
<1>7. ASSUME NEW s \in Subs, SubCloses(s) PROVE fds'[p] = fds[p]
  BY <1>0, <1>1, <1>7 DEF SubCloses, Puts
<1>8. ASSUME NEW s \in Subs, SwitchToDaemon(s) PROVE fds'[p] = fds[p]
  <2>1. phase[s] = "run" /\ \E t : Puts(s, t)
    BY <1>8 DEF SwitchToDaemon, DaemonClosing, Redirect, Runs, Puts
  <2> QED
    BY <1>0, <1>1, <2>1
<1>9. ASSUME NEW s \in Subs, NEW fd \in Fds \cup {-1}, SendFd(s, fd) PROVE fds'[p] = fds[p]
  BY <1>0, <1>2, <1>9 DEF SendFd, SendOn
<1>10. ASSUME NEW s \in Subs, CloseFd(s) PROVE fds'[p] = fds[p]
  BY <1>0, <1>1, <1>10 DEF CloseFd, Call, Runs, Puts
<1>11. ASSUME NEW s \in Subs, RecvFd(s) PROVE fds'[p] = fds[p]
  <2>1. phase[s] \in {"run", "daemon"} /\ (fds' = fds \/ \E t : Puts(s, t))
    BY <1>11 DEF RecvFd, RecvFile, RecvEnd, RecvError, Puts
  <2> QED
    BY <1>0, <1>1, <2>1
<1>12. ASSUME NEW s \in Subs, NEW n \in Fds, CloseFile(s, n) PROVE fds'[p] = fds[p]
  BY <1>0, <1>1, <1>12 DEF CloseFile, Puts
<1>13. UNCHANGED vars => fds'[p] = fds[p]
  BY DEF vars
<1> QED
  BY <1>0, <1>3, <1>4, <1>5, <1>6, <1>7, <1>8, <1>9, <1>10, <1>11, <1>12, <1>13 DEF Next

LEMMA PhaseStep ==
    ASSUME TypeOK, PhaseInv, [Next]_vars
    PROVE  PhaseInv'
<1>m. Main \in Procs /\ Subs \subseteq Procs /\ Procs = Subs \cup {Main} /\ Main \notin Subs
  BY NamesAssumption DEF Procs
<1>1. ASSUME NEW s \in Subs, Forks(s) PROVE PhaseInv'
  <2>1. \A q \in Procs \ {Main, s} : fds'[q] = fds[q]
    BY <1>1, CreateIs, CreatePuts DEF Forks
  <2> QED
    BY <1>1, <2>1, <1>m, ForkSteps DEF PhaseInv
<1>2. CASE \A s \in Subs : ~ Forks(s)
  <2>1. phase'[Main] \in {"run", "forked", "ended"}
    BY <1>2, PhaseSteps
  <2>2. ASSUME NEW p \in Procs, phase'[p] \in {"none", "ended"} PROVE fds'[p] = NoFds
    <3>1. phase[p] \in {"none", "ended"} \/ fds'[p] = NoFds
      BY <1>2, <1>m, <2>1, <2>2, PhaseSteps DEF Runs
    <3> QED
      BY <1>2, <3>1, AbsentStays DEF PhaseInv
  <2> QED
    BY <2>1, <2>2 DEF PhaseInv
<1> QED
  BY <1>1, <1>2

LEMMA NoneStep ==
    ASSUME TypeOK, PhaseInv, NoneInv, [Next]_vars
    PROVE  NoneInv'
<1>m. Main \in Procs /\ Subs \subseteq Procs /\ Procs = Subs \cup {Main} /\ Main \notin Subs
  BY NamesAssumption DEF Procs
<1>t. /\ chan \in [Subs -> Seq(Files)] /\ sent \in [Subs -> Seq(Files)]
      /\ got \in [Subs -> Seq(Files)]
  BY DEF TypeOK
<1> SUFFICES ASSUME NEW r \in Subs, Runs(r, "none")'
             PROVE  /\ r \notin closed'
                    /\ chan'[r] = <<>> /\ sent'[r] = <<>> /\ got'[r] = <<>>
                    /\ \A p \in Procs, i \in {0, 1} : End(r, i) \notin Open(fds'[p])
  BY DEF NoneInv
<1>1. ASSUME NEW s \in Subs, Forks(s)
      PROVE  /\ r \notin closed'
             /\ chan'[r] = <<>> /\ sent'[r] = <<>> /\ got'[r] = <<>>
             /\ \A p \in Procs, i \in {0, 1} : End(r, i) \notin Open(fds'[p])
  <2>1. r # s /\ Runs(r, "none")
    BY <1>1, <1>m, ForkSteps DEF Runs
  <2>2. PICK t : /\ fds' = [fds EXCEPT ![Main] = t, ![s] = t] /\ IsTable(t)
                 /\ Open(t) = Open(fds[Main]) \cup {End(s, 0), End(s, 1)}
    BY <1>1, CreateIs DEF Forks
  <2>3. fds'[Main] = t /\ fds'[s] = t /\ \A q \in Procs \ {Main, s} : fds'[q] = fds[q]
    BY <2>2, CreatePuts
  <2>4. \A p \in Procs, i \in {0, 1} : End(r, i) \notin Open(fds'[p])
    <3>1. \A p \in Procs, i \in {0, 1} : End(r, i) \notin Open(fds[p])
      BY <2>1 DEF NoneInv
    <3>2. ASSUME NEW i \in {0, 1} PROVE End(r, i) \notin Open(t)
      BY <2>1, <2>2, <3>1, <1>m, EndsApart
    <3> QED
      BY <2>3, <3>1, <3>2
  <2> QED
    BY <1>1, <2>1, <2>4, ForkSteps DEF NoneInv
<1>2. CASE \A s \in Subs : ~ Forks(s)
  <2>1. Runs(r, "none")
    BY <1>2, PhaseSteps
  <2>2. \A p \in Procs, i \in {0, 1} : End(r, i) \notin Open(fds'[p])
    BY <1>2, <2>1, Shrinks DEF NoneInv
  <2>3. r \notin closed'
    <3>1. closed' = closed \/ \E s \in Subs : ~ Runs(s, "none") /\ closed' = closed \cup {s}
      BY DEF Next, Exit, OpenFile, CreateSubProcess, MainCloses, SubCloses, SendFd, SendOn,
         CloseFd, SwitchToDaemon, DaemonClosing, RecvFd, CloseFile, vars
    <3> QED
      BY <2>1, <3>1 DEF NoneInv
  <2>4. ASSUME NEW s \in Subs, NEW fd \in Fds \cup {-1}, SendFd(s, fd)
        PROVE  chan'[r] = <<>> /\ sent'[r] = <<>> /\ got'[r] = <<>>
    <3>1. r # s
      BY <2>1, <2>4 DEF SendFd, SendOn
    <3>2. \A n : ~ LeadsTo(n, r)
      BY <2>1, <1>m DEF LeadsTo, NoneInv, Open
    <3>3. got' = got
      BY <2>4 DEF SendFd, SendOn
    <3>4. CASE chan' = chan /\ sent' = sent
      BY <2>1, <3>3, <3>4 DEF NoneInv
    <3>5. CASE \E q \in Subs : /\ LeadsTo(SockFd(s), q)
                               /\ chan' = [chan EXCEPT ![q] = Append(@, fds[Main][fd])]
                               /\ sent' = [sent EXCEPT ![s] = Append(@, fds[Main][fd])]
      BY <2>1, <3>1, <3>2, <3>3, <3>5, <1>t DEF NoneInv
    <3> QED
      BY <2>4, <3>4, <3>5 DEF SendFd, SendOn
  <2>5. ASSUME NEW s \in Subs, RecvFd(s)
        PROVE  chan'[r] = <<>> /\ sent'[r] = <<>> /\ got'[r] = <<>>
    <3>1. r # s
      BY <2>1, <2>5 DEF RecvFd, Runs
    <3>2. sent' = sent
      BY <2>5 DEF RecvFd
    <3>3. chan'[r] = chan[r] /\ got'[r] = got[r]
      BY <2>5, <3>1, <1>t DEF RecvFd, RecvFile, RecvEnd, RecvError
    <3> QED
      BY <2>1, <3>2, <3>3 DEF NoneInv
  <2>6. Still => chan'[r] = <<>> /\ sent'[r] = <<>> /\ got'[r] = <<>>
    BY <2>1 DEF Still, NoneInv
  <2>7. \/ Still \/ \E s \in Subs : RecvFd(s)
        \/ \E s \in Subs, fd \in Fds \cup {-1} : SendFd(s, fd)
    BY DEF Next, Exit, OpenFile, CreateSubProcess, MainCloses, SubCloses,
       CloseFd, SwitchToDaemon, DaemonClosing, CloseFile, vars, Still
  <2> QED
    BY <2>2, <2>3, <2>4, <2>5, <2>6, <2>7
<1> QED
  BY <1>1, <1>2

LEMMA ReaderStep ==
    ASSUME TypeOK, PhaseInv, NoneInv, ReaderInv, [Next]_vars
    PROVE  ReaderInv'
<1>m. Main \in Procs /\ Subs \subseteq Procs /\ Procs = Subs \cup {Main} /\ Main \notin Subs
  BY NamesAssumption DEF Procs
<1>1. ASSUME NEW s \in Subs, Forks(s) PROVE ReaderInv'
  <2>1. PICK t : /\ fds' = [fds EXCEPT ![Main] = t, ![s] = t] /\ IsTable(t)
                 /\ Open(t) = Open(fds[Main]) \cup {End(s, 0), End(s, 1)}
                 /\ pipes'[s][0] \in DOMAIN t /\ t[pipes'[s][0]] = End(s, 0)
                 /\ t[pipes'[s][1]] = End(s, 1)
                 /\ DOMAIN t = DOMAIN fds[Main] \cup {pipes'[s][0], pipes'[s][1]}
                 /\ \A n \in DOMAIN fds[Main] : t[n] = fds[Main][n]
    BY <1>1, CreateIs DEF Forks
  <2>2. fds'[Main] = t /\ fds'[s] = t /\ \A q \in Procs \ {Main, s} : fds'[q] = fds[q]
    BY <2>1, CreatePuts
  <2>3. phase[Main] = "run" /\ phase'[Main] = "forked"
    BY <1>1, ForkSteps
  <2>4. \A r \in Subs : End(r, 0) \notin Open(fds[Main])
    BY <2>3, <1>m DEF ReaderInv, OwnReader, Runs
  <2>5. \A r \in Subs : End(r, 0) \in Open(t) => r = s
    BY <2>1, <2>4, EndsApart
  <2>6. OwnReader'
    <3> SUFFICES ASSUME NEW p \in Procs, NEW r \in Subs, End(r, 0) \in Open(fds'[p])
                 PROVE  p = r \/ (p = Main /\ phase'[Main] = "forked")
      BY DEF OwnReader, Runs
    <3>1. CASE p \in {Main, s}
      BY <2>2, <2>3, <2>5, <3>1
    <3>2. CASE p \notin {Main, s}
      BY <2>2, <3>2 DEF ReaderInv, OwnReader
    <3> QED
      BY <3>1, <3>2
  <2>7. \A r \in Subs, n \in DOMAIN t : t[n] = End(r, 0) => n = pipes'[r][0]
    <3> SUFFICES ASSUME NEW r \in Subs, NEW n \in DOMAIN t, t[n] = End(r, 0)
                 PROVE  n = pipes'[r][0]
      OBVIOUS
    <3>1. r = s
      BY <2>5 DEF Open
    <3>2. n \notin DOMAIN fds[Main]
      BY <2>1, <2>4 DEF Open
    <3>3. n # pipes'[s][1]
      BY <2>1, <3>1, EndsApart
    <3> QED
      BY <2>1, <3>1, <3>2, <3>3
  <2> QED
    BY <2>2, <2>5, <2>6, <2>7 DEF ReaderInv, SubFd
<1>2. CASE \A s \in Subs : ~ Forks(s)
  <2>1. OwnReader /\ \A p \in Procs, s \in Subs :
          End(s, 0) \in Open(fds'[p]) => End(s, 0) \in Open(fds[p])
    BY <1>2, Shrinks DEF ReaderInv
  <2>2. CASE Runs(Main, "forked")' /\ phase[Main] = "forked"
    <3>1. OwnReader'
      BY <2>1, <2>2 DEF OwnReader, Runs
    <3>2. \A s, r \in Subs :
            (End(s, 0) \in Open(fds'[Main]) /\ End(r, 0) \in Open(fds'[Main])) => s = r
      BY <2>1, <1>m DEF ReaderInv
    <3>3. fds'[Main] = fds[Main]
      BY <1>2, <1>m, <2>2, ForkedStays DEF Runs
    <3>4. pipes' = pipes
      BY <1>2, PhaseSteps
    <3> QED
      BY <3>1, <3>2, <3>3, <3>4 DEF ReaderInv, SubFd
  <2>3. CASE phase[Main] # "forked"
    <3>1. \A s \in Subs : End(s, 0) \notin Open(fds'[Main])
      BY <2>1, <2>3, <1>m DEF OwnReader, Runs
    <3>2. OwnReader'
      BY <2>1, <2>3, <3>1 DEF OwnReader, Runs
    <3> QED
      BY <3>1, <3>2 DEF ReaderInv, Open
  <2>4. CASE phase[Main] = "forked" /\ ~ Runs(Main, "forked")'
    <3>1. \A s \in Subs : End(s, 0) \notin Open(fds'[Main])
      <4>1. CASE Ended(Main)
        BY <4>1, <1>m, NoFdsIs DEF Ended, TypeOK
      <4>2. ASSUME NEW s \in Subs, MainCloses(s)
            PROVE  \A r \in Subs : End(r, 0) \notin Open(fds'[Main])
        <5>1. /\ SubFd(s) \in DOMAIN fds[Main] /\ fds[Main][SubFd(s)] = End(s, 0)
              /\ Puts(Main, Without(fds[Main], SubFd(s)))
          BY <4>2 DEF MainCloses, Puts
        <5>2. IsTable(fds[Main])
          BY <1>m DEF TypeOK
        <5>3. /\ fds'[Main] = Without(fds[Main], SubFd(s))
              /\ DOMAIN fds'[Main] = DOMAIN fds[Main] \ {SubFd(s)}
              /\ \A k \in DOMAIN fds[Main] \ {SubFd(s)} : fds'[Main][k] = fds[Main][k]
          <6>1. fds'[Main] = Without(fds[Main], SubFd(s))
            BY <5>1, <1>m, PutIs
          <6>2. /\ DOMAIN Without(fds[Main], SubFd(s)) = DOMAIN fds[Main] \ {SubFd(s)}
                /\ \A k \in DOMAIN fds[Main] \ {SubFd(s)} :
                     Without(fds[Main], SubFd(s))[k] = fds[Main][k]
            BY <5>2, WithoutIs
          <6> QED
            BY <6>1, <6>2
        <5>4. ASSUME NEW r \in Subs, End(r, 0) \in Open(fds'[Main]) PROVE FALSE
          <6>1. PICK k \in DOMAIN fds[Main] \ {SubFd(s)} : fds[Main][k] = End(r, 0)
            BY <5>3, <5>4 DEF Open
          <6>2. r = s
            BY <6>1, <5>1 DEF ReaderInv, Open
          <6> QED
            BY <6>1, <6>2 DEF ReaderInv
        <5> QED
          BY <5>4
      <4>3. Ended(Main) \/ \E s \in Subs : MainCloses(s)
        <5>0. phase \in [Procs -> Phases]
          BY DEF TypeOK, Phases
        <5>1. \A f \in Files : ~ OpenFile(f)
          BY <2>4 DEF OpenFile, Call, Runs
        <5>2. ASSUME NEW s \in Subs
              PROVE  ~ CreateSubProcess(s) /\ ~ CloseFd(s) /\ \A fd : ~ SendFd(s, fd)
          BY <2>4 DEF CreateSubProcess, CloseFd, SendFd, SendOn, Call, Runs
        <5>3. ASSUME NEW s \in Subs, NEW n \in Fds,
                     SubCloses(s) \/ Exit(s) \/ SwitchToDaemon(s) \/ RecvFd(s) \/ CloseFile(s, n)
              PROVE  FALSE
          BY <5>0, <5>3, <2>4, <1>m DEF SubCloses, Exit, Ended, SwitchToDaemon, DaemonClosing,
             RecvFd, CloseFile, Runs
        <5>4. 0 \in Fds
          BY LimitAssumption DEF Fds
        <5>5. ~ UNCHANGED vars
          BY <2>4 DEF vars, Runs
        <5> QED
          BY <5>1, <5>2, <5>3, <5>4, <5>5 DEF Next, Exit
      <4> QED
        BY <4>1, <4>2, <4>3
    <3>2. OwnReader'
      BY <2>1, <3>1 DEF OwnReader
    <3> QED
      BY <3>1, <3>2 DEF ReaderInv, Open
  <2> QED
    BY <2>2, <2>3, <2>4 DEF Runs
<1> QED
  BY <1>1, <1>2
LEMMA ForkStep ==
    ASSUME TypeOK, PhaseInv, NoneInv, ForkInv, [Next]_vars
    PROVE  ForkInv'
<1>m. Main \in Procs /\ Subs \subseteq Procs /\ Procs = Subs \cup {Main} /\ Main \notin Subs
  BY NamesAssumption DEF Procs
<1> SUFFICES ASSUME NEW r \in Subs, phase'[r] = "forked"
             PROVE  /\ pipes'[r][0] \in DOMAIN fds'[r] /\ fds'[r][pipes'[r][0]] = End(r, 0)
                    /\ pipes'[r][1] # pipes'[r][0]
                    /\ \A n \in DOMAIN fds'[r] : fds'[r][n] = End(r, 1) => n = pipes'[r][1]
  BY DEF ForkInv, Runs, SubFd, SockFd
<1> DEFINE Goal == /\ pipes'[r][0] \in DOMAIN fds'[r] /\ fds'[r][pipes'[r][0]] = End(r, 0)
                   /\ pipes'[r][1] # pipes'[r][0]
                   /\ \A n \in DOMAIN fds'[r] : fds'[r][n] = End(r, 1) => n = pipes'[r][1]
<1>0. phase[r] = "forked" =>
        /\ pipes[r][0] \in DOMAIN fds[r] /\ fds[r][pipes[r][0]] = End(r, 0)
        /\ pipes[r][1] # pipes[r][0]
        /\ \A n \in DOMAIN fds[r] : fds[r][n] = End(r, 1) => n = pipes[r][1]
  BY DEF ForkInv, Runs, SubFd, SockFd
<1>1. ASSUME NEW s \in Subs, Forks(s) PROVE Goal
  <2>1. PICK t : /\ fds' = [fds EXCEPT ![Main] = t, ![s] = t] /\ IsTable(t)
                 /\ pipes'[s][0] \in DOMAIN t /\ t[pipes'[s][0]] = End(s, 0)
                 /\ t[pipes'[s][1]] = End(s, 1)
                 /\ pipes'[s][0] # pipes'[s][1]
                 /\ DOMAIN t = DOMAIN fds[Main] \cup {pipes'[s][0], pipes'[s][1]}
                 /\ \A n \in DOMAIN fds[Main] : t[n] = fds[Main][n]
                 /\ \A q \in Subs \ {s} : pipes'[q] = pipes[q]
    BY <1>1, CreateIs DEF Forks
  <2>2. fds'[Main] = t /\ fds'[s] = t /\ \A q \in Procs \ {Main, s} : fds'[q] = fds[q]
    BY <2>1, CreatePuts
  <2>3. CASE r = s
    <3>1. \A n \in DOMAIN fds[Main] : fds[Main][n] # End(s, 1)
      BY <1>1, <1>m, ForkSteps DEF NoneInv, Runs, Open
    <3>2. \A n \in DOMAIN t : t[n] = End(s, 1) => n = pipes'[s][1]
      BY <2>1, <3>1, EndsApart
    <3> QED
      BY <2>1, <2>2, <2>3, <3>2
  <2>4. CASE r # s
    <3>1. phase[r] = "forked"
      BY <1>1, <1>m, <2>4, ForkSteps
    <3> QED
      BY <1>0, <1>m, <2>1, <2>2, <2>4, <3>1
  <2> QED
    BY <2>3, <2>4
<1>2. CASE \A s \in Subs : ~ Forks(s)
  <2>1. phase[r] = "forked" /\ pipes' = pipes
    BY <1>2, PhaseSteps DEF Runs
  <2>2. fds'[r] = fds[r]
    BY <1>2, <1>m, <2>1, ForkedStays
  <2> QED
    BY <1>0, <2>1, <2>2
<1> QED
  BY <1>1, <1>2

\* A child that leaves "forked" has closed its copy of pipes[1], or ended.
LEMMA ForkedCloses ==
    ASSUME TypeOK, PhaseInv, ForkInv, [Next]_vars, \A s \in Subs : ~ Forks(s),
           NEW r \in Subs, phase[r] = "forked", phase'[r] # "forked"
    PROVE  End(r, 1) \notin Open(fds'[r])
<1>0. phase \in [Procs -> Phases] /\ Main \in Procs /\ Subs \subseteq Procs /\ Main \notin Subs
      /\ r \in Procs /\ IsTable(fds[r])
  BY NamesAssumption DEF TypeOK, Phases, Procs
<1>1. CASE Ended(r)
  BY <1>0, <1>1, NoFdsIs, PutIs DEF Ended, Puts
<1>2. CASE SubCloses(r)
  <2>1. Puts(r, Without(fds[r], SockFd(r)))
    BY <1>2 DEF SubCloses, Puts
  <2>2. fds'[r] = Without(fds[r], SockFd(r))
    BY <1>0, <2>1, PutIs
  <2>3. /\ DOMAIN Without(fds[r], SockFd(r)) = DOMAIN fds[r] \ {SockFd(r)}
        /\ \A k \in DOMAIN fds[r] \ {SockFd(r)} : Without(fds[r], SockFd(r))[k] = fds[r][k]
    BY <1>0, WithoutIs
  <2>4. \A k \in DOMAIN fds[r] : fds[r][k] = End(r, 1) => k = SockFd(r)
    BY DEF ForkInv, Runs
  <2> QED
    BY <2>2, <2>3, <2>4 DEF Open
<1>3. Ended(r) \/ SubCloses(r)
  <2>1. ASSUME NEW q \in Procs \ {r}, Ended(q) PROVE FALSE
    BY <1>0, <2>1 DEF Ended
  <2>2. ASSUME NEW s \in Subs, s # r, SubCloses(s) PROVE FALSE
    BY <1>0, <2>2 DEF SubCloses
  <2>3. ASSUME NEW s \in Subs, NEW n \in Fds,
               MainCloses(s) \/ SwitchToDaemon(s) \/ RecvFd(s) \/ CloseFile(s, n) \/ CloseFd(s)
        PROVE  FALSE
    BY <1>0, <2>3 DEF MainCloses, SwitchToDaemon, DaemonClosing, RecvFd, CloseFile, CloseFd, Runs
  <2>4. ASSUME NEW s \in Subs, CreateSubProcess(s) PROVE FALSE
    BY <1>0, <2>1, <2>4, CreateCases DEF Forks
  <2>5. ASSUME NEW s \in Subs, NEW fd \in Fds \cup {-1}, SendFd(s, fd) PROVE FALSE
    BY <1>0, <2>1, <2>5 DEF SendFd, SendOn
  <2>6. ASSUME NEW q \in Procs \ {r}, Exit(q) PROVE FALSE
    BY <2>1, <2>6 DEF Exit
  <2>7. ASSUME NEW f \in Files, OpenFile(f) PROVE FALSE
    BY <2>7 DEF OpenFile
  <2>8. ~ UNCHANGED vars /\ 0 \in Fds
    BY LimitAssumption DEF vars, Fds
  <2>9. Exit(r) => Ended(r)
    BY DEF Exit
  <2> QED
    BY <1>0, <2>2, <2>3, <2>4, <2>5, <2>6, <2>7, <2>8, <2>9 DEF Next
<1> QED
  BY <1>1, <1>2, <1>3

LEMMA HoldStep ==
    ASSUME TypeOK, PhaseInv, NoneInv, ForkInv, HoldInv, [Next]_vars
    PROVE  HoldInv'
<1>m. Main \in Procs /\ Subs \subseteq Procs /\ Procs = Subs \cup {Main} /\ Main \notin Subs
  BY NamesAssumption DEF Procs
<1>1. ASSUME NEW s \in Subs, Forks(s) PROVE HoldInv'
  <2>1. PICK t : /\ fds' = [fds EXCEPT ![Main] = t, ![s] = t] /\ IsTable(t)
                 /\ Open(t) = Open(fds[Main]) \cup {End(s, 0), End(s, 1)}
    BY <1>1, CreateIs DEF Forks
  <2>2. fds'[Main] = t /\ fds'[s] = t /\ \A q \in Procs \ {Main, s} : fds'[q] = fds[q]
    BY <2>1, CreatePuts
  <2>3. \A q \in Procs : End(s, 1) \notin Open(fds[q])
    BY <1>1, ForkSteps DEF NoneInv, Runs
  <2>4. \A q, r \in Subs :
          q = r \/ End(q, 1) \notin Open(fds'[r]) \/ End(r, 1) \notin Open(fds'[q])
    BY <1>m, <2>2, <2>3 DEF HoldInv
  <2>5. \A q \in Subs : phase'[q] = "forked" \/ End(q, 1) \notin Open(fds'[q])
    BY <1>1, <1>m, <2>2, ForkSteps DEF HoldInv, Runs
  <2> QED
    BY <2>4, <2>5 DEF HoldInv, Runs
<1>2. CASE \A s \in Subs : ~ Forks(s)
  <2>1. \A p \in Procs, s \in Subs : End(s, 1) \in Open(fds'[p]) => End(s, 1) \in Open(fds[p])
    BY <1>2, Shrinks
  <2>2. ASSUME NEW q \in Subs, phase'[q] # "forked" PROVE End(q, 1) \notin Open(fds'[q])
    <3>1. CASE phase[q] = "forked"
      BY <1>2, <2>2, <3>1, ForkedCloses
    <3>2. CASE phase[q] # "forked"
      BY <1>m, <2>1, <3>2 DEF HoldInv, Runs
    <3> QED
      BY <3>1, <3>2
  <2>3. \A q, r \in Subs :
          q = r \/ End(q, 1) \notin Open(fds'[r]) \/ End(r, 1) \notin Open(fds'[q])
    BY <1>m, <2>1 DEF HoldInv
  <2> QED
    BY <2>2, <2>3 DEF HoldInv, Runs
<1> QED
  BY <1>1, <1>2
-----------------------------------------------------------------------------
(***************************************************************************)
(* Where sock_fd_ leads.                                                   *)
(***************************************************************************)
\* The steps that change the main process's table.
LEMMA MainActs ==
    ASSUME TypeOK, [Next]_vars, \A s \in Subs : ~ Forks(s)
    PROVE  \/ fds'[Main] = fds[Main] \/ Ended(Main)
           \/ \E s \in Subs : MainCloses(s) \/ CloseFd(s)
           \/ \E f \in Files : OpenFile(f)
<1>m. Main \in Procs /\ Subs \subseteq Procs /\ Main \notin Subs
  BY NamesAssumption DEF Procs
<1>1. ASSUME NEW s \in Subs, fds' = fds \/ \E t : Puts(s, t) PROVE fds'[Main] = fds[Main]
  BY <1>1, <1>m, PutIs
<1>2. ASSUME NEW s \in Subs, NEW n \in Fds,
             SubCloses(s) \/ Exit(s) \/ SwitchToDaemon(s) \/ RecvFd(s) \/ CloseFile(s, n)
      PROVE  fds'[Main] = fds[Main]
  <2>1. fds' = fds \/ \E t : Puts(s, t)
    BY <1>2 DEF SubCloses, Exit, Ended, SwitchToDaemon, DaemonClosing, Redirect, RecvFd,
       RecvFile, RecvEnd, RecvError, CloseFile, Puts
  <2> QED
    BY <1>1, <2>1
<1>3. ASSUME NEW s \in Subs, NEW fd \in Fds \cup {-1}, SendFd(s, fd)
      PROVE  fds'[Main] = fds[Main] \/ Ended(Main)
  BY <1>3 DEF SendFd, SendOn
<1>4. ASSUME NEW s \in Subs, CreateSubProcess(s) PROVE Ended(Main)
  BY <1>4, CreateCases DEF Forks
<1>5. Exit(Main) => Ended(Main)
  BY DEF Exit
<1>6. UNCHANGED vars => fds'[Main] = fds[Main]
  BY DEF vars
<1>7. 0 \in Fds
  BY LimitAssumption DEF Fds
<1> QED
  BY <1>2, <1>3, <1>4, <1>5, <1>6, <1>7 DEF Next

LEMMA SockStep ==
    ASSUME TypeOK, PhaseInv, SockInv, [Next]_vars
    PROVE  SockInv'
<1>m. Main \in Procs /\ Subs \subseteq Procs /\ Main \notin Subs /\ IsTable(fds[Main])
  BY NamesAssumption DEF Procs, TypeOK
<1> SUFFICES ASSUME closed' = {}, phase'[Main] # "ended",
                    NEW r \in Subs, phase'[r] # "none"
             PROVE  pipes'[r][1] \in DOMAIN fds'[Main] /\ fds'[Main][pipes'[r][1]] = End(r, 1)
  BY DEF SockInv, Runs, LeadsTo, SockFd
<1> DEFINE Goal == pipes'[r][1] \in DOMAIN fds'[Main] /\ fds'[Main][pipes'[r][1]] = End(r, 1)
<1>0. (closed = {} /\ phase[Main] # "ended" /\ phase[r] # "none") =>
        pipes[r][1] \in DOMAIN fds[Main] /\ fds[Main][pipes[r][1]] = End(r, 1)
  BY DEF SockInv, Runs, LeadsTo, SockFd
<1>1. ASSUME NEW s \in Subs, Forks(s) PROVE Goal
  <2>1. PICK t : /\ fds' = [fds EXCEPT ![Main] = t, ![s] = t] /\ IsTable(t)
                 /\ pipes'[s][1] \in DOMAIN t /\ t[pipes'[s][1]] = End(s, 1)
                 /\ DOMAIN t = DOMAIN fds[Main] \cup {pipes'[s][0], pipes'[s][1]}
                 /\ \A n \in DOMAIN fds[Main] : t[n] = fds[Main][n]
                 /\ \A q \in Subs \ {s} : pipes'[q] = pipes[q]
    BY <1>1, CreateIs DEF Forks
  <2>2. fds'[Main] = t
    BY <2>1, CreatePuts
  <2>3. CASE r = s
    BY <2>1, <2>2, <2>3
  <2>4. CASE r # s
    <3>1. closed = {} /\ phase[Main] # "ended" /\ phase[r] # "none"
      BY <1>1, <1>m, <2>4, ForkSteps
    <3> QED
      BY <1>0, <2>1, <2>2, <2>4, <3>1
  <2> QED
    BY <2>3, <2>4
<1>2. CASE \A s \in Subs : ~ Forks(s)
  <2>1. closed = {} /\ phase[Main] # "ended" /\ phase[r] # "none" /\ pipes' = pipes
    BY <1>2, <1>m, PhaseSteps DEF Runs
  <2>2. pipes[r][1] \in DOMAIN fds[Main] /\ fds[Main][pipes[r][1]] = End(r, 1)
    BY <1>0, <2>1
  <2>3. CASE fds'[Main] = fds[Main]
    BY <2>1, <2>2, <2>3
  <2>4. CASE Ended(Main)
    BY <1>m, <2>4 DEF Ended, TypeOK
  <2>5. ASSUME NEW s \in Subs, MainCloses(s) PROVE Goal
    <3>1. Puts(Main, Without(fds[Main], SubFd(s))) /\ fds[Main][SubFd(s)] = End(s, 0)
      BY <2>5 DEF MainCloses, Puts
    <3>2. fds'[Main] = Without(fds[Main], SubFd(s))
      BY <1>m, <3>1, PutIs
    <3>3. pipes[r][1] # SubFd(s)
      BY <2>2, <3>1, EndsApart
    <3> QED
      <4>1. /\ DOMAIN Without(fds[Main], SubFd(s)) = DOMAIN fds[Main] \ {SubFd(s)}
            /\ \A k \in DOMAIN fds[Main] \ {SubFd(s)} :
                 Without(fds[Main], SubFd(s))[k] = fds[Main][k]
        BY <1>m, WithoutIs
      <4> QED
        BY <2>1, <2>2, <3>2, <3>3, <4>1
  <2>6. ASSUME NEW s \in Subs, CloseFd(s) PROVE Goal
    BY <2>6 DEF CloseFd
  <2>7. ASSUME NEW f \in Files, OpenFile(f) PROVE Goal
    <3>1. Puts(Main, With(fds[Main], f)) /\ Free(fds[Main]) # {}
      BY <2>7 DEF OpenFile, Puts
    <3>2. fds'[Main] = With(fds[Main], f)
      BY <1>m, <3>1, PutIs
    <3>3. /\ DOMAIN fds[Main] \subseteq DOMAIN With(fds[Main], f)
          /\ \A n \in DOMAIN fds[Main] : With(fds[Main], f)[n] = fds[Main][n]
      <4>1. f \in Files \cup Ends \cup {Null}
        OBVIOUS
      <4>2. /\ DOMAIN With(fds[Main], f) = DOMAIN fds[Main] \cup {Lowest(Free(fds[Main]))}
            /\ \A n \in DOMAIN fds[Main] : With(fds[Main], f)[n] = fds[Main][n]
        BY <1>m, <3>1, <4>1, WithIs
      <4> QED
        BY <4>2
    <3> QED
      BY <2>1, <2>2, <3>2, <3>3
  <2> QED
    BY <1>2, <2>3, <2>4, <2>5, <2>6, <2>7, MainActs
<1> QED
  BY <1>1, <1>2

\* The steps of a subprocess, and what every other step leaves it.
LEMMA SubActs ==
    ASSUME TypeOK, PhaseInv, [Next]_vars, NEW r \in Subs, ~ Forks(r)
    PROVE  \/ /\ fds'[r] = fds[r] /\ phase'[r] = phase[r] /\ pipes'[r] = pipes[r]
              /\ std'[r] = std[r] /\ got'[r] = got[r] /\ last'[r] = last[r]
           \/ Ended(r) \/ SubCloses(r) \/ SwitchToDaemon(r) \/ RecvFd(r)
           \/ \E n \in Fds : CloseFile(r, n)
<1> DEFINE Rests == /\ fds'[r] = fds[r] /\ phase'[r] = phase[r] /\ pipes'[r] = pipes[r]
                    /\ std'[r] = std[r] /\ got'[r] = got[r] /\ last'[r] = last[r]
<1>m. /\ Main \in Procs /\ Subs \subseteq Procs /\ Main \notin Subs /\ r \in Procs
      /\ phase \in [Procs -> Phases] /\ got \in [Subs -> Seq(Files)]
      /\ last \in [Subs -> Fds \cup {-1}] /\ std \in [Subs -> BOOLEAN]
  BY NamesAssumption DEF Procs, TypeOK, Phases
<1>1. ASSUME NEW q \in Procs, q # r, NEW t, Puts(q, t) PROVE fds'[r] = fds[r]
  BY <1>1, <1>m, PutIs
<1>2. ASSUME NEW q \in Procs, q # r, Ended(q), UNCHANGED <<pipes, std, got, last>> PROVE Rests
  BY <1>1, <1>2, <1>m DEF Ended, Puts
<1>3. ASSUME NEW q \in Procs, q # r, Exit(q) PROVE Rests
  BY <1>2, <1>3 DEF Exit
<1>4. ASSUME NEW f \in Files, OpenFile(f) PROVE Rests
  BY <1>1, <1>4, <1>m DEF OpenFile, Puts
<1>5. ASSUME NEW s \in Subs, CreateSubProcess(s) PROVE Rests
  <2>1. CASE Forks(s)
    <3>1. s # r
      BY <2>1
    <3>2. PICK t : /\ fds' = [fds EXCEPT ![Main] = t, ![s] = t] /\ IsTable(t)
                   /\ \A q \in Subs \ {s} : pipes'[q] = pipes[q]
                   /\ std' = [std EXCEPT ![s] = {0, 1, 2} \subseteq DOMAIN fds[Main]]
      BY <2>1, CreateIs DEF Forks
    <3>3. fds'[r] = fds[r]
      BY <1>m, <3>1, <3>2, CreatePuts
    <3>4. std'[r] = std[r]
      BY <1>m, <3>1, <3>2
    <3> QED
      BY <1>m, <2>1, <3>1, <3>2, <3>3, <3>4, ForkSteps
  <2>2. CASE ~ Forks(s)
    BY <1>2, <1>5, <1>m, <2>2, CreateCases DEF Forks
  <2> QED
    BY <2>1, <2>2
<1>6. ASSUME NEW s \in Subs, MainCloses(s) PROVE Rests
  BY <1>1, <1>6, <1>m DEF MainCloses, Puts
<1>7. ASSUME NEW s \in Subs, s # r, SubCloses(s) PROVE Rests
  BY <1>1, <1>7, <1>m DEF SubCloses, Puts
<1>8. ASSUME NEW s \in Subs, s # r, SwitchToDaemon(s) PROVE Rests
  <2>1. \E t : Puts(s, t)
    BY <1>8 DEF SwitchToDaemon, DaemonClosing, Redirect, Puts
  <2>2. fds'[r] = fds[r]
    BY <1>1, <1>8, <1>m, <2>1
  <2> QED
    BY <1>8, <1>m, <2>2 DEF SwitchToDaemon, DaemonClosing
<1>9. ASSUME NEW s \in Subs, NEW fd \in Fds \cup {-1}, SendFd(s, fd) PROVE Rests
  BY <1>2, <1>9, <1>m DEF SendFd, SendOn
<1>10. ASSUME NEW s \in Subs, CloseFd(s) PROVE Rests
  BY <1>1, <1>10, <1>m DEF CloseFd, Puts
<1>11. ASSUME NEW s \in Subs, s # r, RecvFd(s) PROVE Rests
  <2>1. fds' = fds \/ \E t : Puts(s, t)
    BY <1>11 DEF RecvFd, RecvFile, RecvEnd, RecvError, Puts
  <2>2. fds'[r] = fds[r]
    BY <1>1, <1>11, <1>m, <2>1
  <2>3. got'[r] = got[r] /\ last'[r] = last[r]
    BY <1>11, <1>m DEF RecvFd, RecvFile, RecvEnd, RecvError, Returns
  <2>4. phase'[r] = phase[r]
    BY <1>11, <1>m DEF RecvFd
  <2> QED
    BY <1>11, <2>2, <2>3, <2>4 DEF RecvFd
<1>12. ASSUME NEW s \in Subs, s # r, NEW n \in Fds, CloseFile(s, n) PROVE Rests
  BY <1>1, <1>12, <1>m DEF CloseFile, Puts
<1>13. UNCHANGED vars => Rests
  BY DEF vars
<1>14. Exit(r) => Ended(r)
  BY DEF Exit
<1> HIDE DEF Rests
<1>15. \/ Rests \/ Ended(r) \/ SubCloses(r) \/ SwitchToDaemon(r) \/ RecvFd(r)
       \/ \E n \in Fds : CloseFile(r, n)
  BY <1>m, <1>3, <1>4, <1>5, <1>6, <1>7, <1>8, <1>9, <1>10, <1>11, <1>12, <1>13, <1>14
     DEF Next
<1> QED
  BY <1>15 DEF Rests
LEMMA StdStep ==
    ASSUME TypeOK, PhaseInv, ForkInv, StdInv, [Next]_vars
    PROVE  StdInv'
<1> SUFFICES ASSUME NEW r \in Subs, std'[r], phase'[r] \in {"forked", "run", "daemon"}
             PROVE  /\ pipes'[r][0] \in DOMAIN fds'[r] /\ fds'[r][pipes'[r][0]] = End(r, 0)
                    /\ {0, 1, 2} \subseteq DOMAIN fds'[r]
                    /\ pipes'[r][0] \notin {0, 1, 2} /\ pipes'[r][1] \notin {0, 1, 2}
  BY DEF StdInv, HasSock, SubFd, SockFd
<1> DEFINE Goal == /\ pipes'[r][0] \in DOMAIN fds'[r] /\ fds'[r][pipes'[r][0]] = End(r, 0)
                   /\ {0, 1, 2} \subseteq DOMAIN fds'[r]
                   /\ pipes'[r][0] \notin {0, 1, 2} /\ pipes'[r][1] \notin {0, 1, 2}
<1>m. /\ Main \in Procs /\ r \in Procs /\ IsTable(fds[r])
      /\ phase \in [Procs -> Phases] /\ std \in [Subs -> BOOLEAN]
  BY NamesAssumption DEF Procs, TypeOK, Phases
<1>0. (std[r] /\ phase[r] \in {"forked", "run", "daemon"}) =>
        /\ pipes[r][0] \in DOMAIN fds[r] /\ fds[r][pipes[r][0]] = End(r, 0)
        /\ {0, 1, 2} \subseteq DOMAIN fds[r]
        /\ pipes[r][0] \notin {0, 1, 2} /\ pipes[r][1] \notin {0, 1, 2}
  BY DEF StdInv, HasSock, SubFd, SockFd
<1>1. CASE Forks(r)
  <2>1. PICK t : /\ fds' = [fds EXCEPT ![Main] = t, ![r] = t] /\ IsTable(t)
                 /\ pipes'[r][0] \in DOMAIN t /\ t[pipes'[r][0]] = End(r, 0)
                 /\ DOMAIN t = DOMAIN fds[Main] \cup {pipes'[r][0], pipes'[r][1]}
                 /\ pipes'[r][0] \notin DOMAIN fds[Main]
                 /\ pipes'[r][1] \notin DOMAIN fds[Main]
                 /\ std' = [std EXCEPT ![r] = {0, 1, 2} \subseteq DOMAIN fds[Main]]
    BY <1>1, CreateIs DEF Forks
  <2>2. fds'[r] = t
    BY <2>1, CreatePuts
  <2>3. {0, 1, 2} \subseteq DOMAIN fds[Main]
    BY <1>m, <2>1
  <2> QED
    BY <2>1, <2>2, <2>3
<1>2. CASE fds'[r] = fds[r] /\ phase'[r] = phase[r] /\ pipes'[r] = pipes[r] /\ std'[r] = std[r]
  BY <1>0, <1>2
<1>3. CASE Ended(r)
  BY <1>3, <1>m DEF Ended
<1>4. ASSUME NEW n, n \notin {0, 1, 2}, n # pipes[r][0], Puts(r, Without(fds[r], n)),
             UNCHANGED <<pipes, std>>, phase[r] \in {"forked", "run", "daemon"}
      PROVE  Goal
  <2>1. fds'[r] = Without(fds[r], n)
    BY <1>4, <1>m, PutIs
  <2>2. /\ DOMAIN Without(fds[r], n) = DOMAIN fds[r] \ {n}
        /\ \A k \in DOMAIN fds[r] \ {n} : Without(fds[r], n)[k] = fds[r][k]
    BY <1>m, WithoutIs
  <2> QED
    BY <1>0, <1>4, <2>1, <2>2
<1>5. CASE SubCloses(r)
  <2>1. /\ Puts(r, Without(fds[r], SockFd(r))) /\ UNCHANGED <<pipes, std>>
        /\ phase[r] = "forked"
    BY <1>5 DEF SubCloses, Runs, Puts
  <2>2. SockFd(r) \notin {0, 1, 2} /\ SockFd(r) # pipes[r][0]
    BY <1>0, <2>1 DEF ForkInv, Runs, SockFd, SubFd
  <2> QED
    BY <1>4, <2>1, <2>2
<1>6. ASSUME NEW n \in Fds, CloseFile(r, n) PROVE Goal
  <2>1. /\ Puts(r, Without(fds[r], n)) /\ UNCHANGED <<pipes, std>>
        /\ phase[r] \in {"run", "daemon"} /\ n > 2 /\ fds[r][n] \in Files
    BY <1>6 DEF CloseFile, Puts
  <2>2. n \notin {0, 1, 2} /\ n # pipes[r][0]
    BY <1>0, <2>1, EndsApart
  <2> QED
    BY <1>4, <2>1, <2>2
<1>7. CASE SwitchToDaemon(r)
  <2>1. Redirect(r, {0, 1, 2}) /\ UNCHANGED <<pipes, std>> /\ phase[r] = "run"
    BY <1>7 DEF SwitchToDaemon, DaemonClosing, Runs
  <2>2. PICK t : /\ Puts(r, t)
                 /\ \A n \in DOMAIN fds[r] \ {0, 1, 2} : n \in DOMAIN t /\ t[n] = fds[r][n]
                 /\ {0, 1, 2} \subseteq DOMAIN t
    BY <2>1, RedirectIs DEF Puts
  <2>3. fds'[r] = t
    BY <1>m, <2>2, PutIs
  <2> QED
    BY <1>0, <2>1, <2>2, <2>3
<1>8. CASE RecvFd(r)
  <2>1. UNCHANGED <<pipes, std>> /\ phase[r] \in {"run", "daemon"}
    BY <1>8 DEF RecvFd
  <2>2. CASE fds' = fds
    BY <1>0, <2>1, <2>2
  <2>3. CASE /\ chan[r] # <<>> /\ Free(fds[r]) # {}
             /\ Puts(r, With(fds[r], Head(chan[r])))
    <3>1. chan[r] \in Seq(Files)
      BY DEF TypeOK
    <3>2. Head(chan[r]) \in Files \cup Ends \cup {Null}
      BY <2>3, <3>1
    <3>3. fds'[r] = With(fds[r], Head(chan[r]))
      BY <1>m, <2>3, PutIs
    <3>4. /\ DOMAIN fds[r] \subseteq DOMAIN With(fds[r], Head(chan[r]))
          /\ \A n \in DOMAIN fds[r] : With(fds[r], Head(chan[r]))[n] = fds[r][n]
      <4>1. /\ DOMAIN With(fds[r], Head(chan[r])) = DOMAIN fds[r] \cup {Lowest(Free(fds[r]))}
            /\ \A n \in DOMAIN fds[r] : With(fds[r], Head(chan[r]))[n] = fds[r][n]
        BY <1>m, <2>3, <3>2, WithIs
      <4> QED
        BY <4>1
    <3> QED
      BY <1>0, <2>1, <3>3, <3>4
  <2> QED
    BY <1>8, <2>2, <2>3 DEF RecvFd, RecvFile, RecvEnd, RecvError, Puts
<1> QED
  BY <1>1, <1>2, <1>3, <1>5, <1>6, <1>7, <1>8, SubActs
-----------------------------------------------------------------------------
(***************************************************************************)
(* The files on the way.                                                   *)
(***************************************************************************)
\* Sending and receiving keep what was received and what is on the way together.
LEMMA AppendOrder ==
    \A g, c \in Seq(Files), f \in Files : Append(g \o c, f) = g \o Append(c, f)
<1> SUFFICES ASSUME NEW g \in Seq(Files), NEW c \in Seq(Files), NEW f \in Files
             PROVE  Append(g \o c, f) = g \o Append(c, f)
  OBVIOUS
<1>1. <<f>> \in Seq(Files) /\ g \o c \in Seq(Files)
  BY ConcatProperties
<1>2. Append(g \o c, f) = (g \o c) \o <<f>> /\ Append(c, f) = c \o <<f>>
  BY <1>1, AppendIsConcat
<1> QED
  BY <1>1, <1>2, ConcatAssociative

LEMMA TakeOrder ==
    ASSUME NEW S, NEW g \in Seq(S), NEW c \in Seq(S), c # <<>>
    PROVE  Append(g, Head(c)) \o Tail(c) = g \o c
<1>1. Head(c) \in S /\ Tail(c) \in Seq(S)
  BY HeadTailProperties
<1>2. <<Head(c)>> \in Seq(S)
  BY <1>1
<1>3. Append(g, Head(c)) = g \o <<Head(c)>>
  BY <1>1, AppendIsConcat
<1>4. <<Head(c)>> \o Tail(c) = c
  <2> DEFINE d == <<Head(c)>> \o Tail(c)
  <2>0. Len(c) \in Nat /\ Len(Tail(c)) = Len(c) - 1 /\ Len(<<Head(c)>>) = 1
        /\ \A i \in 1 .. Len(Tail(c)) : Tail(c)[i] = c[i + 1]
    BY HeadTailProperties, LenProperties
  <2>1. d \in Seq(S) /\ Len(d) = Len(c)
        /\ \A i \in 1 .. Len(c) : d[i] = IF i <= 1 THEN <<Head(c)>>[i] ELSE Tail(c)[i - 1]
    BY <1>1, <1>2, <2>0, ConcatProperties
  <2>2. \A i \in 1 .. Len(c) : d[i] = c[i]
    BY <2>0, <2>1
  <2> HIDE DEF d
  <2>3. d = c
    BY <2>1, <2>2, SeqEqual
  <2> QED
    BY <2>3 DEF d
<1> QED
  BY <1>1, <1>2, <1>3, <1>4, ConcatAssociative

\* The steps that move files.
LEMMA StillOr ==
    ASSUME [Next]_vars
    PROVE  \/ Still
           \/ \E s \in Subs : RecvFile(s) /\ RecvFd(s)
           \/ \E s \in Subs, r \in Subs, fd \in Fds \cup {-1} :
                /\ LeadsTo(SockFd(s), r) /\ ~ Runs(s, "none") /\ SendFd(s, fd)
                /\ fds[Main][fd] \in Files
                /\ chan' = [chan EXCEPT ![r] = Append(@, fds[Main][fd])]
                /\ sent' = [sent EXCEPT ![s] = Append(@, fds[Main][fd])]
                /\ UNCHANGED <<got, phase, closed>> /\ Runs(Main, "run")
<1>1. ASSUME NEW s \in Subs, NEW fd \in Fds \cup {-1}, SendFd(s, fd)
      PROVE  \/ Still
             \/ \E r \in Subs :
                  /\ LeadsTo(SockFd(s), r) /\ ~ Runs(s, "none") /\ SendFd(s, fd)
                  /\ fds[Main][fd] \in Files
                  /\ chan' = [chan EXCEPT ![r] = Append(@, fds[Main][fd])]
                  /\ sent' = [sent EXCEPT ![s] = Append(@, fds[Main][fd])]
                  /\ UNCHANGED <<got, phase, closed>> /\ Runs(Main, "run")
  BY <1>1 DEF SendFd, SendOn, Call, Still
<1>2. ASSUME NEW s \in Subs, RecvFd(s) PROVE Still \/ RecvFile(s)
  BY <1>2 DEF RecvFd, RecvEnd, RecvError, Still
<1>3. \/ Still \/ \E s \in Subs : RecvFd(s)
      \/ \E s \in Subs, fd \in Fds \cup {-1} : SendFd(s, fd)
  BY DEF Next, Exit, OpenFile, CreateSubProcess, MainCloses, SubCloses,
     CloseFd, SwitchToDaemon, DaemonClosing, CloseFile, vars, Still
<1> QED
  BY <1>1, <1>2, <1>3

LEMMA OrderStep ==
    ASSUME TypeOK, PhaseInv, NoneInv, SockInv, OrderInv, [Next]_vars
    PROVE  OrderInv'
<1>m. /\ chan \in [Subs -> Seq(Files)] /\ sent \in [Subs -> Seq(Files)]
      /\ got \in [Subs -> Seq(Files)] /\ Subs \subseteq Procs /\ Main \in Procs
      /\ phase \in [Procs -> Phases]
  BY DEF TypeOK, Procs, Phases
<1> SUFFICES ASSUME closed' = {}, NEW r \in Subs, phase'[r] \notin {"done", "ended"}
             PROVE  sent'[r] = got'[r] \o chan'[r]
  BY DEF OrderInv
<1>1. closed = {}
  <2>1. ASSUME NEW s \in Subs, Forks(s) PROVE closed = {}
    BY <2>1, ForkSteps
  <2> QED
    BY <2>1, PhaseSteps
<1>2. phase[r] \notin {"done", "ended"} \/ Forks(r)
  <2>1. CASE Ended(r)
    BY <1>m, <2>1 DEF Ended
  <2>2. CASE SubCloses(r) \/ SwitchToDaemon(r) \/ RecvFd(r) \/ \E n \in Fds : CloseFile(r, n)
    BY <2>2 DEF SubCloses, SwitchToDaemon, DaemonClosing, RecvFd, CloseFile, Runs
  <2> QED
    BY <2>1, <2>2, SubActs
<1>3. sent[r] = got[r] \o chan[r]
  <2>1. CASE Forks(r)
    BY <1>1, <2>1, ForkSteps DEF OrderInv
  <2>2. CASE phase[r] \notin {"done", "ended"}
    BY <1>1, <2>2 DEF OrderInv
  <2> QED
    BY <1>2, <2>1, <2>2
<1>4. CASE Still
  BY <1>3, <1>4 DEF Still
<1>5. ASSUME NEW s \in Subs, RecvFile(s) /\ RecvFd(s) PROVE sent'[r] = got'[r] \o chan'[r]
  <2>1. sent' = sent
    BY <1>5 DEF RecvFd
  <2>2. CASE r # s
    <3>1. chan'[r] = chan[r] /\ got'[r] = got[r]
      BY <1>5, <1>m, <2>2 DEF RecvFile
    <3> QED
      BY <1>3, <2>1, <3>1
  <2>3. CASE r = s
    <3>1. chan[r] # <<>> /\ chan'[r] = Tail(chan[r])
      BY <1>5, <1>m, <2>3 DEF RecvFile
    <3>2. got'[r] = Append(got[r], Head(chan[r]))
      <4>1. last'[r] # 0 \/ Free(fds[r]) # {}
        <5>1. last'[r] > 0
          BY <1>5, <1>m, <2>3 DEF RecvFd
        <5> QED
          BY <5>1
      <4>2. CASE Free(fds[r]) = {}
        <5>1. last'[r] = 0
          BY <1>5, <2>3, <4>2 DEF RecvFile, Returns, TypeOK
        <5> QED
          BY <4>1, <4>2, <5>1
      <4>3. CASE Free(fds[r]) # {}
        BY <1>5, <1>m, <2>3, <4>3 DEF RecvFile
      <4> QED
        BY <4>2, <4>3
    <3> QED
      <4>1. got[r] \in Seq(Files) /\ chan[r] \in Seq(Files)
        BY <1>m
      <4>2. Append(got[r], Head(chan[r])) \o Tail(chan[r]) = got[r] \o chan[r]
        BY <3>1, <4>1, TakeOrder
      <4> QED
        BY <1>3, <2>1, <3>1, <3>2, <4>2
  <2> QED
    BY <2>2, <2>3
<1>6. ASSUME NEW s \in Subs, NEW q \in Subs, NEW fd \in Fds \cup {-1},
             LeadsTo(SockFd(s), q), ~ Runs(s, "none"), fds[Main][fd] \in Files,
             chan' = [chan EXCEPT ![q] = Append(@, fds[Main][fd])],
             sent' = [sent EXCEPT ![s] = Append(@, fds[Main][fd])],
             UNCHANGED <<got, phase, closed>>, Runs(Main, "run")
      PROVE  sent'[r] = got'[r] \o chan'[r]
  <2>1. LeadsTo(SockFd(s), s)
    BY <1>1, <1>6 DEF SockInv, Runs
  <2>2. q = s
    BY <1>6, <2>1, EndsApart DEF LeadsTo
  <2>3. CASE r # s
    <3>1. chan'[r] = chan[r] /\ sent'[r] = sent[r]
      BY <1>6, <1>m, <2>2, <2>3
    <3> QED
      BY <1>3, <1>6, <3>1
  <2>4. CASE r = s
    <3>1. chan'[r] = Append(chan[r], fds[Main][fd]) /\ sent'[r] = Append(sent[r], fds[Main][fd])
      BY <1>6, <1>m, <2>2, <2>4
    <3> QED
      <4>1. got[r] \in Seq(Files) /\ chan[r] \in Seq(Files)
        BY <1>m
      <4>2. Append(sent[r], fds[Main][fd]) = got[r] \o Append(chan[r], fds[Main][fd])
        <5>1. PICK f \in Files : f = fds[Main][fd]
          BY <1>6
        <5>2. Append(sent[r], f) = got[r] \o Append(chan[r], f)
          <6>1. Append(got[r] \o chan[r], f) = got[r] \o Append(chan[r], f)
            BY <4>1, AppendOrder, Zenon
          <6> QED
            BY <1>3, <6>1, Zenon
        <5> QED
          BY <5>1, <5>2
      <4> QED
        BY <1>3, <1>6, <3>1, <4>2
  <2> QED
    BY <2>3, <2>4
<1> QED
  BY <1>4, <1>5, <1>6, StillOr
LEMMA ZeroStep ==
    ASSUME TypeOK, PhaseInv, SockInv, StdInv, OrderInv, ZeroIsEnd, [Next]_vars
    PROVE  ZeroIsEnd'
<1>m. /\ chan \in [Subs -> Seq(Files)] /\ sent \in [Subs -> Seq(Files)]
      /\ got \in [Subs -> Seq(Files)] /\ Subs \subseteq Procs /\ Main \in Procs
      /\ Main \notin Subs /\ phase \in [Procs -> Phases] /\ last \in [Subs -> Fds \cup {-1}]
  BY NamesAssumption DEF TypeOK, Procs, Phases
<1> SUFFICES ASSUME NEW r \in Subs, phase'[r] = "done", last'[r] = 0, std'[r],
                    Fds \ DOMAIN fds'[r] # {}, closed' \subseteq {r}
             PROVE  /\ phase'[Main] = "ended" \/ r \in closed'
                    /\ closed' = {} => got'[r] = sent'[r]
  BY DEF ZeroIsEnd, Runs, Free
<1> DEFINE Goal == /\ phase'[Main] = "ended" \/ r \in closed'
                   /\ closed' = {} => got'[r] = sent'[r]
<1>1. ~ Forks(r)
  BY ForkSteps
<1>2. CASE /\ fds'[r] = fds[r] /\ phase'[r] = phase[r] /\ std'[r] = std[r]
           /\ got'[r] = got[r] /\ last'[r] = last[r]
  <2>1. closed \subseteq closed' /\ (phase[Main] = "ended" => phase'[Main] = "ended")
    <3>1. ASSUME NEW s \in Subs, Forks(s)
          PROVE  closed \subseteq closed' /\ (phase[Main] = "ended" => phase'[Main] = "ended")
      BY <3>1, ForkSteps
    <3> QED
      BY <1>m, <3>1, PhaseSteps DEF Runs
  <2>2. /\ phase[Main] = "ended" \/ r \in closed
        /\ closed = {} => got[r] = sent[r]
    BY <1>2, <2>1 DEF ZeroIsEnd, Runs, Free
  <2>3. ASSUME closed' = {} PROVE got'[r] = sent'[r]
    <3>1. closed = {} /\ phase[Main] = "ended" /\ got[r] = sent[r]
      BY <2>1, <2>2, <2>3
    <3>2. sent' = sent
      BY <3>1, StillOr DEF Still, RecvFd, Runs
    <3> QED
      BY <1>2, <3>1, <3>2
  <2> QED
    BY <2>1, <2>2, <2>3
<1>3. CASE Ended(r)
  BY <1>3, <1>m DEF Ended
<1>4. CASE SubCloses(r) \/ SwitchToDaemon(r) \/ \E n \in Fds : CloseFile(r, n)
  BY <1>4, <1>m DEF SubCloses, SwitchToDaemon, DaemonClosing, CloseFile
<1>5. CASE RecvFd(r)
  <2>1. /\ phase[r] \in {"run", "daemon"} /\ UNCHANGED <<pipes, sent, std, closed>>
        /\ phase'[Main] = phase[Main]
    BY <1>5, <1>m DEF RecvFd
  <2>2. HasSock(r) /\ {0, 1, 2} \subseteq DOMAIN fds[r]
    BY <2>1 DEF StdInv
  <2>3. ~ RecvError(r)
    BY <2>2 DEF RecvError
  <2>4. ~ RecvFile(r)
    <3>1. CASE Free(fds[r]) = {}
      <4>1. RecvFile(r) => fds' = fds
        BY <3>1 DEF RecvFile
      <4> QED
        BY <3>1, <4>1 DEF Free
    <3>2. CASE Free(fds[r]) # {}
      <4>1. Lowest(Free(fds[r])) \in Free(fds[r])
        BY <3>2, LowestIn DEF Free
      <4>2. Lowest(Free(fds[r])) # 0
        BY <2>2, <4>1 DEF Free
      <4> QED
        BY <1>m, <3>2, <4>2 DEF RecvFile, Returns
    <3> QED
      BY <3>1, <3>2
  <2>5. /\ chan[r] = <<>> /\ ~ Held(r) /\ UNCHANGED <<chan, got>>
    BY <1>5, <2>3, <2>4 DEF RecvFd, RecvEnd
  <2>6. phase[Main] = "ended" \/ closed # {}
    <3> SUFFICES ASSUME phase[Main] # "ended", closed = {} PROVE FALSE
      OBVIOUS
    <3>1. LeadsTo(SockFd(r), r)
      BY <2>1 DEF SockInv, Runs
    <3> QED
      BY <1>m, <2>5, <3>1 DEF LeadsTo, Held, Open
  <2>7. closed = {} => got[r] = sent[r]
    <3>1. closed = {} => sent[r] = got[r] \o chan[r]
      BY <2>1 DEF OrderInv
    <3>2. got[r] \o <<>> = got[r]
      BY <1>m, ConcatEmptySeq
    <3> QED
      BY <2>5, <3>1, <3>2
  <2> QED
    BY <2>1, <2>5, <2>6, <2>7
<1> QED
  BY <1>1, <1>2, <1>3, <1>4, <1>5, SubActs
-----------------------------------------------------------------------------
(***************************************************************************)
(* The invariant and what follows from it.                                 *)
(***************************************************************************)
LEMMA IInvInit == Init => IInv
<1> SUFFICES ASSUME Init PROVE IInv
  OBVIOUS
<1>1. TypeOK
  BY TypeInit
<1>m. Procs = Subs \cup {Main} /\ Main \notin Subs
  BY NamesAssumption DEF Procs
<1>2. phase[Main] = "run" /\ \A s \in Subs : phase[s] = "none"
  BY <1>m DEF Init
<1>3. PICK ns \in SUBSET {0, 1, 2} : \E t \in [ns -> Files] :
        fds = [p \in Procs |-> IF p = Main THEN t ELSE NoFds]
  BY DEF Init
<1>4. PICK t \in [ns -> Files] : fds = [p \in Procs |-> IF p = Main THEN t ELSE NoFds]
  BY <1>3
<1>5. \A p \in Procs, s \in Subs, i \in {0, 1} : End(s, i) \notin Open(fds[p])
  <2>1. Open(t) \subseteq Files
    BY DEF Open
  <2> QED
    BY <1>m, <1>4, <2>1, NoFdsIs, EndsApart
<1>6. PhaseInv
  BY <1>m, <1>2, <1>4 DEF PhaseInv
<1>7. /\ closed = {} /\ \A s \in Subs : chan[s] = <<>> /\ sent[s] = <<>> /\ got[s] = <<>>
  BY DEF Init
<1>8. NoneInv
  BY <1>5, <1>7 DEF NoneInv
<1>9. ForkInv /\ StdInv /\ ZeroIsEnd /\ SockInv
  BY <1>2 DEF ForkInv, StdInv, ZeroIsEnd, SockInv, Runs
<1>10. ReaderInv
  BY <1>m, <1>5 DEF ReaderInv, OwnReader, Open
<1>11. HoldInv
  BY <1>m, <1>5 DEF HoldInv
<1>12. OrderInv
  <2>1. <<>> \o <<>> = <<>>
    BY EmptySeq, ConcatEmptySeq
  <2> QED
    BY <1>7, <2>1 DEF OrderInv
<1> QED
  BY <1>1, <1>6, <1>8, <1>9, <1>10, <1>11, <1>12 DEF IInv

LEMMA IInvStep == IInv /\ [Next]_vars => IInv'
<1> SUFFICES ASSUME IInv, [Next]_vars PROVE IInv'
  OBVIOUS
<1>1. /\ TypeOK /\ PhaseInv /\ NoneInv /\ ForkInv /\ ReaderInv /\ HoldInv
      /\ SockInv /\ StdInv /\ OrderInv /\ ZeroIsEnd
  BY DEF IInv
<1>2. TypeOK' /\ PhaseInv' /\ NoneInv' /\ ForkInv'
  BY <1>1, TypeStep, PhaseStep, NoneStep, ForkStep
<1>3. ReaderInv' /\ HoldInv' /\ SockInv'
  BY <1>1, ReaderStep, HoldStep, SockStep
<1>4. StdInv' /\ OrderInv' /\ ZeroIsEnd'
  BY <1>1, StdStep, OrderStep, ZeroStep
<1> QED
  BY <1>2, <1>3, <1>4 DEF IInv

\* As long as CloseFd was not called, what a subprocess received and what is on
\* the way to it is what its own object sent, in order (SendFd, RecvFd).
THEOREM OwnFilesKept == Spec => []OwnFilesInOrder
<1>1. IInv => OwnFilesInOrder
  BY DEF IInv, OrderInv, OwnFilesInOrder
<1> QED
  BY <1>1, IInvInit, IInvStep, PTL DEF Spec

\* The 0 that ends a subprocess's loop means the end of file after the last
\* descriptor, with the exceptions that ZeroIsEnd names (RecvFd).
THEOREM ZeroMeansEnd == Spec => []ZeroIsEnd
<1>1. IInv => ZeroIsEnd
  BY DEF IInv
<1> QED
  BY <1>1, IInvInit, IInvStep, PTL DEF Spec

\* SwitchToDaemon closes 0, 1 and 2 and never the socket of a subprocess that
\* was started with them open.
THEOREM SockStays == Spec => []SockKept
<1>1. IInv => SockKept
  BY DEF IInv, StdInv, SockKept
<1> QED
  BY <1>1, IInvInit, IInvStep, PTL DEF Spec

\* No other process has the end a subprocess receives from (CreateSubProcess
\* closes pipes[0] before it returns).
THEOREM ReaderAlone == Spec => []OwnReader
<1>1. IInv => OwnReader
  BY DEF IInv, ReaderInv
<1> QED
  BY <1>1, IInvInit, IInvStep, PTL DEF Spec

\* No two subprocesses hold each other's end, however many inherit it.
THEOREM HoldAcyclic == Spec => []NoMutualHold
<1>1. IInv => NoMutualHold
  <2> SUFFICES ASSUME IInv, NEW s \in Subs, NEW r \in Subs,
                      {phase[s], phase[r]} \subseteq {"run", "daemon"},
                      End(s, 1) \in Open(fds[r]), End(r, 1) \in Open(fds[s])
               PROVE  FALSE
    BY DEF NoMutualHold
  <2> QED
    BY DEF IInv, HoldInv, Runs
<1> QED
  BY <1>1, IInvInit, IInvStep, PTL DEF Spec
==============================================================================
