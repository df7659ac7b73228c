---------------------------- MODULE RequestReply ----------------------------
(***************************************************************************)
(* What EboServer promises a client that waits for each reply before it    *)
(* sends its next request: each request gets one reply, before the client  *)
(* asks again, and none is left waiting for ever.  A client may break off: *)
(* it sends on without waiting, or is on a thread that a byte the parser   *)
(* refuses has stopped.  It is promised nothing from then on.              *)
(***************************************************************************)
EXTENDS Naturals

CONSTANT Conns

VARIABLES
    asked,      \* number of requests each client has sent in full
    answered,   \* number of replies each client has been sent
    off         \* the clients that broke off

vars == <<asked, answered, off>>

Init ==
    /\ asked = [c \in Conns |-> 0]
    /\ answered = [c \in Conns |-> 0]
    /\ off = {}

Ask(c) ==
    /\ c \notin off
    /\ asked[c] = answered[c]
    /\ asked' = [asked EXCEPT ![c] = @ + 1]
    /\ UNCHANGED <<answered, off>>

Answer(c) ==
    /\ c \notin off
    /\ answered[c] < asked[c]
    /\ answered' = [answered EXCEPT ![c] = @ + 1]
    /\ UNCHANGED <<asked, off>>

\* Clients break off; nothing is counted of them any more.
BreakOff ==
    /\ off' \in SUBSET Conns
    /\ off \subseteq off'
    /\ asked' = [c \in Conns |-> IF c \in off' THEN 0 ELSE asked[c]]
    /\ answered' = [c \in Conns |-> IF c \in off' THEN 0 ELSE answered[c]]

Next == BreakOff \/ \E c \in Conns : Ask(c) \/ Answer(c)

Spec == Init /\ [][Next]_vars /\ \A c \in Conns : WF_vars(Answer(c))
=============================================================================
