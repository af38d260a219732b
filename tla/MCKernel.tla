------------------------------ MODULE MCKernel ------------------------------
(***************************************************************************)
(* Small instances of the kernel for TLC: what user programs may pass to   *)
(* the system calls.  Channels are interchangeable, tasks are not: their   *)
(* indexes are part of their tids.                                         *)
(***************************************************************************)
EXTENDS KernelSafety, TLC

ChannelSymmetry == Permutations(Channel)

(* Descriptor arguments: those that can be open, those and their           *)
(* neighbours.                                                             *)
Fds == Fd
AllFds == AnyFd
SomeFds == {-1, 0, MaxFds}
NewFd == {-1}

(* Message lengths: empty, and one longer. *)
OneLength == {0}
TwoLengths == {0, 1}

(* Poll events and descriptor flags. *)
PollRecv == {{"RECV"}}
PollBoth == {{"RECV", "SEND"}}
RecvOnly == {{"RECV"}}

(* Descriptors and priorities a task gives its children. *)
GiveNone == {<<>>}
GiveFirst == {<<0>>}
GiveBoth == {<<0, 1>>}
UserPrio == {0}
AllPrios == {-1, 0, 1}
=============================================================================
