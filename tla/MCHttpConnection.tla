-------------------------- MODULE MCHttpConnection --------------------------
(***************************************************************************)
(* Instances of HttpConnection for TLC: scripts built from descriptions of *)
(* requests (number of URL and body pieces and the request's attributes).  *)
(***************************************************************************)
EXTENDS HttpConnection, SequencesExt, TLC

CONSTANTS c1, t1

\* A request: u URL pieces, then its head, then b body pieces.  bad: 0 for a
\* good request; k if the parser refuses the k-th token, the last one sent.
Request(u, b, get, login, upgrade, bad) ==
    [u |-> u, b |-> b, bad |-> bad,
     attr |-> [get |-> get, login |-> login, upgrade |-> upgrade]]

Login   == Request(2, 0, TRUE, TRUE, FALSE, 0)
Short   == Request(1, 0, TRUE, TRUE, FALSE, 0)
Other   == Request(1, 0, TRUE, FALSE, FALSE, 0)
Post    == Request(1, 1, FALSE, TRUE, FALSE, 0)
Upgrade == Request(1, 0, TRUE, TRUE, TRUE, 0)
BadHead == Request(1, 0, TRUE, TRUE, FALSE, 2)
Garbage == Request(1, 0, TRUE, TRUE, FALSE, 1)

TokensOf(d, r) ==
    [k \in 1 .. IF d.bad > 0 THEN d.bad ELSE d.u + 1 + d.b |->
        [req  |-> r,
         kind |-> CASE k = d.bad -> "bad"
                    [] k # d.bad /\ k <= d.u -> "url"
                    [] k # d.bad /\ k = d.u + 1 -> "head"
                    [] OTHER -> "body",
         last |-> d.bad = 0 /\ k = d.u + 1 + d.b]]

Script(ds) ==
    [req    |-> [r \in 1 .. Len(ds) |-> ds[r].attr],
     stream |-> FlattenSeq([r \in 1 .. Len(ds) |-> TokensOf(ds[r], r)])]

OneConn == {c1}
OneThread == {t1}
OnFirst == [c \in OneConn |-> t1]

\* One connection: long scripts, every kind of request next to another.
LongScripts ==
    {Script(ds) : ds \in
        {<<Login, Post, Login>>, <<Post, Other, Login>>, <<Login, BadHead, Short>>,
         <<Upgrade, Login, Post>>, <<Login, Garbage>>, <<Short, Upgrade, Garbage>>,
         <<Short, Other, Short, Post>>}}

\* A URL in two pieces.
LoginScripts == {Script(<<Login, Other>>)}
=============================================================================
