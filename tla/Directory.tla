----------------------------- MODULE Directory ------------------------------
(***************************************************************************)
(* What the file server promises (include/servers/fs.h): a name stands for *)
(* one channel from when it is made until it is removed, every open of it  *)
(* gets that channel, and a name that is made again gets a new one.  There *)
(* is room for a new name as long as there are fewer names than Room; but  *)
(* removed names may go on taking places, so it is only sure to be there   *)
(* until as many channels have been made as there are Places.              *)
(***************************************************************************)
EXTENDS Naturals, FiniteSets

CONSTANTS Client, Path, Chan, NoChan, Places, Room

VARIABLES
    dir,      \* [Path -> the channel of a name, NoChan if there is none]
    used,     \* channels that have been made
    answer    \* [Client -> the answer to its call, "none" outside]

vars == <<dir, used, answer>>

Init ==
    /\ dir = [p \in Path |-> NoChan]
    /\ used = {}
    /\ answer = [c \in Client |-> "none"]

Answer(c, a) == answer' = [answer EXCEPT ![c] = a]

Make(c, p, ch) ==
    /\ Answer(c, "made")
    /\ dir[p] = NoChan /\ ch \notin used
    /\ dir' = [dir EXCEPT ![p] = ch]
    /\ used' = used \cup {ch}

Names == {p \in Path : dir[p] # NoChan}
Full == Cardinality(used) >= Places \/ Cardinality(Names) >= Room

MakeFails(c, p) ==
    /\ \/ Answer(c, "EEXIST") /\ dir[p] # NoChan
       \/ Answer(c, "ENOSPC") /\ dir[p] = NoChan /\ Full
    /\ UNCHANGED <<dir, used>>

Remove(c, p) ==
    /\ \/ Answer(c, "removed") /\ dir[p] # NoChan
       \/ Answer(c, "ENOENT") /\ dir[p] = NoChan
    /\ dir' = [dir EXCEPT ![p] = NoChan]
    /\ UNCHANGED used

Open(c, p, ch) ==
    /\ Answer(c, ch) /\ dir[p] = ch
    /\ UNCHANGED <<dir, used>>

OpenFails(c, p) ==
    /\ Answer(c, "ENOENT") /\ dir[p] = NoChan
    /\ UNCHANGED <<dir, used>>

Refuse(c) == Answer(c, "ENOFUNC") /\ UNCHANGED <<dir, used>>

Return(c) == Answer(c, "none") /\ UNCHANGED <<dir, used>>

Next == \E c \in Client :
    \/ Refuse(c)
    \/ Return(c)
    \/ \E p \in Path :
          \/ \E ch \in Chan : Make(c, p, ch) \/ Open(c, p, ch)
          \/ MakeFails(c, p)
          \/ Remove(c, p)
          \/ OpenFails(c, p)

Spec == Init /\ [][Next]_vars
=============================================================================
