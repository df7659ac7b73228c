---------------------------- MODULE MCEboServer ----------------------------
(***************************************************************************)
(* Instances of EboServer for TLC.                                         *)
(***************************************************************************)
EXTENDS EboServer, SequencesExt, TLC

CONSTANTS c1, c2, t1, t2, mumu, lala

TwoThreads == {t1, t2}
TwoConns   == {c1, c2}
OnOwn      == [c \in TwoConns |-> IF c = c1 THEN t1 ELSE t2]

TwoUsers  == {mumu, lala}
RowsOfTwo == (mumu :> 1) @@ (lala :> 0)

\* A request: its URL in u pieces and its head.
Request(u, login, a) ==
    [u |-> u, args |-> a,
     attr |-> [get |-> TRUE, login |-> login, upgrade |-> FALSE]]

Args(complete, user, signed) == [complete |-> complete, user |-> user, signed |-> signed]

Good  == Request(1, TRUE, Args(TRUE, mumu, TRUE))
Other == Request(1, FALSE, Args(FALSE, mumu, FALSE))

TokensOf(d, r) ==
    [k \in 1 .. d.u + 1 |->
        [req  |-> r,
         kind |-> IF k <= d.u THEN "url" ELSE "head",
         last |-> k = d.u + 1]]

Script(ds) ==
    [req    |-> [r \in 1 .. Len(ds) |-> ds[r].attr],
     args   |-> [r \in 1 .. Len(ds) |-> ds[r].args],
     stream |-> FlattenSeq([r \in 1 .. Len(ds) |-> TokensOf(ds[r], r)])]

\* A login and a request that is none, for two threads.
ThreadScripts == {Script(ds) : ds \in {<<Good>>, <<Other>>}}
=============================================================================
