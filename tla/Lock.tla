-------------------------------- MODULE Lock --------------------------------
(***************************************************************************)
(* What include/servers/lock.h promises of registered channels: locks that *)
(* do not depend on each other.  At most one client holds a lock, and      *)
(* those that wait for it get it in the order in which they asked.  Who    *)
(* unlocks a lock that others wait for hands it to the first of them;      *)
(* otherwise he is leaving it for a while, and whoever asks then has it at *)
(* once.  Nobody waits for a lock that somebody is leaving.                *)
(***************************************************************************)
EXTENDS Sequences

CONSTANTS Client, Lock

VARIABLES
    holders,   \* [Lock -> SUBSET Client]
    waiting,   \* [Lock -> Seq(Client)]: who has asked for it, in order
    leaving    \* [Lock -> SUBSET Client]: who is unlocking it

lockVars == <<holders, waiting, leaving>>

Init ==
    /\ holders = [l \in Lock |-> {}]
    /\ waiting = [l \in Lock |-> <<>>]
    /\ leaving = [l \in Lock |-> {}]

Becomes(l, hs, q, out) ==
    /\ holders' = [holders EXCEPT ![l] = hs]
    /\ waiting' = [waiting EXCEPT ![l] = q]
    /\ leaving' = [leaving EXCEPT ![l] = out]

Ask(l, c) ==
    /\ leaving[l] = {} /\ c \notin holders[l]
    /\ \A i \in DOMAIN waiting[l] : waiting[l][i] # c
    /\ Becomes(l, holders[l], Append(waiting[l], c), {})

TakeOver(l, c) ==
    /\ leaving[l] # {} /\ waiting[l] = <<>> /\ c \notin holders[l]
    /\ Becomes(l, {c}, <<>>, {})

Grant(l) ==
    /\ holders[l] = {} /\ waiting[l] # <<>>
    /\ Becomes(l, {Head(waiting[l])}, Tail(waiting[l]), {})

HandOver(l, c) ==
    /\ holders[l] = {c} /\ leaving[l] = {} /\ waiting[l] # <<>>
    /\ Becomes(l, {Head(waiting[l])}, Tail(waiting[l]), {})

Leave(l, c) ==
    /\ holders[l] = {c} /\ leaving[l] = {} /\ waiting[l] = <<>>
    /\ Becomes(l, {c}, <<>>, {c})

Release(l, c) ==
    /\ holders[l] = {c} /\ leaving[l] = {c}
    /\ Becomes(l, {}, waiting[l], {})

Next == \E l \in Lock :
    \/ Grant(l)
    \/ \E c \in Client : \/ Ask(l, c)   \/ TakeOver(l, c)
                         \/ Leave(l, c) \/ Release(l, c)
                         \/ HandOver(l, c)

Spec == Init /\ [][Next]_lockVars
=============================================================================
