------------------------------ MODULE LockTest ------------------------------
(***************************************************************************)
(* The lock_test command of apps/shell.c, on the lock server and the       *)
(* console: children print a line each in several messages, again and      *)
(* again, and a lock keeps the lines whole.  Meanwhile somebody types.     *)
(* Or the test is not run, and other tasks read characters.                *)
(*                                                                         *)
(* The lock server, the children and the notifiers have priority 0 and     *)
(* share the processor in turn.                                            *)
(***************************************************************************)
EXTENDS Console, LockServer

CONSTANTS
    Main,      \* the task of lock_test_cmd
    Child,     \* tasks of lock_test_child
    Reader,    \* tasks that read when the test is not run
    TheLock,   \* chans[3], the only lock that is used
    Rounds,    \* lines that a child prints
    Chunks     \* printf's in a line, before the newline

\* (The lock server may have other clients and other locks, unused here.)
ASSUME LockTestAssumption ==
    /\ {Main} \cup Child \subseteq Client
    /\ TheLock \in Lock /\ IsFiniteSet(Lock)
    /\ Task = {Main} \cup Child \cup Reader \cup {TxNotifier, RxNotifier}
    /\ Main \notin Child \cup Reader \cup Notifier /\ Child \cap Reader = {}
    /\ Notifier \cap (Child \cup Reader) = {} /\ Child \cap {"\n", "\r"} = {}
    /\ Rounds \in Nat \ {0} /\ Chunks \in Nat \ {0}

VARIABLES
    at,        \* where Main is
    step       \* [Child -> calls it has made, -1 before it is spawned]

ioVars == <<msgVars, consoleVars>>
lockVars == vars
testVars == <<ioVars, lockVars, at, step>>

TestInit ==
    /\ MsgInit /\ ConsoleInit /\ Init
    /\ at \in {"register", "shell"}
    /\ step = [c \in Child |-> -1]

-----------------------------------------------------------------------------
(* lock_test_cmd.                                                          *)

MainAt(here, there) ==
    /\ ~crashed /\ Running(Main)
    /\ at = here /\ at' = there
    /\ UNCHANGED ioVars

Register ==
    MainAt("register", "lock") /\ LockchanRegister(Main, TheLock)
    /\ UNCHANGED step
TakeLock ==
    MainAt("lock", "spawn") /\ LockChannel(Main, TheLock)
    /\ UNCHANGED step
Spawn(c) ==
    /\ step[c] = -1
    /\ step' = [step EXCEPT ![c] = 0]
    /\ MainAt("spawn", IF \A d \in Child \ {c} : step[d] # -1
                       THEN "unlock" ELSE "spawn")
    /\ UNCHANGED lockVars
Unlock ==
    MainAt("unlock", "join") /\ UnlockChannel(Main, TheLock)
    /\ UNCHANGED step

\* The last thing that a child does is to send, and Main receives it.
LastStep == Rounds * (Chunks + 3)
Join ==
    /\ \A c \in Child : step[c] = LastStep
    /\ MainAt("join", "unregister")
    /\ UNCHANGED <<lockVars, step>>

Unregister ==
    MainAt("unregister", "done") /\ LockchanUnregister(Main, TheLock)
    /\ UNCHANGED step

-----------------------------------------------------------------------------
(* lock_test_child, and the other tasks.                                   *)

\* The call of the round that c makes next: 0 locks, 1 to Chunks + 1 print,
\* the last of them a newline, and Chunks + 2 unlocks.
CallOf(c)  == step[c] % (Chunks + 3)
RoundOf(c) == step[c] \div (Chunks + 3)

ChildCalls(c) ==
    /\ ~crashed /\ Running(c) /\ phase[c] = "ready"
    /\ step[c] \in 0 .. (LastStep - 1)
    /\ step' = [step EXCEPT ![c] = @ + 1]
    /\ UNCHANGED at

ChildLocks(c) ==
    /\ ChildCalls(c) /\ CallOf(c) = 0
    /\ LockChannel(c, TheLock) /\ UNCHANGED ioVars

Line(c) == <<c, RoundOf(c)>>
ChildPrints(c) ==
    /\ ChildCalls(c) /\ CallOf(c) \in 1 .. (Chunks + 1)
    /\ Write(c, TxServer, IF CallOf(c) > Chunks THEN <<"\n">> ELSE <<c>>,
             [line |-> Line(c), call |-> CallOf(c)])
    /\ UNCHANGED lockVars

ChildUnlocks(c) ==
    /\ ChildCalls(c) /\ CallOf(c) = Chunks + 2
    /\ UnlockChannel(c, TheLock) /\ UNCHANGED ioVars

\* When the test is not run: fgetc and fputc take any channel, also one that
\* is not for them.
ShellCalls(r) ==
    /\ at = "shell"
    /\ \/ \E s \in {TxServer, RxServer} : Fgetc(r, s)
       \/ Write(r, RxServer, <<r>>, [line |-> <<r, 0>>, call |-> 1])
    /\ UNCHANGED <<lockVars, at, step>>

-----------------------------------------------------------------------------

LockServing == ~crashed /\ ServerStep /\ UNCHANGED <<ioVars, at, step>>

Others == UNCHANGED <<lockVars, at, step>>
Uart == UartSend /\ Others
\* (Bound: during the test, only one key is pressed.)
Keys == (KeyPress \/ LineError) /\ (at = "shell" \/ pressed = 0) /\ Others
Interrupts(n) ==
    IF n = TxNotifier THEN ThrInterrupt /\ Others ELSE RhrInterrupt /\ Others
Notifies(n) ==
    Notify(n, IF n = TxNotifier THEN TxServer ELSE RxServer) /\ Others
Printing == TxStep /\ Others
Reading  == RxStep /\ Others

MainStep ==
    \/ Register \/ TakeLock \/ Unlock \/ Join \/ Unregister
    \/ \E c \in Child : Spawn(c)

ChildStep(c) == ChildLocks(c) \/ ChildPrints(c) \/ ChildUnlocks(c)

System ==
    \/ MainStep
    \/ \E c \in Child : ChildStep(c)
    \/ LockServing
    \/ Uart \/ Printing \/ Reading
    \/ \E n \in Notifier : Interrupts(n) \/ Notifies(n)

TestNext == System \/ Keys \/ \E r \in Reader : ShellCalls(r)

\* The processor and the UART do not stop while they have something to do.
TestSpec == TestInit /\ [][TestNext]_testVars /\ WF_testVars(System)

-----------------------------------------------------------------------------
(* Properties.                                                             *)

TestTypeOK ==
    /\ MsgTypeOK /\ ConsoleTypeOK /\ TypeOK
    /\ step \in [Child -> -1 .. LastStep]

\* What is printed under the lock stays together (shell.c:175-184): each
\* message is on its way, in order, before MsgSend returns.
LinesWhole ==
    \A i \in 1 .. (Len(Printed) - 1) :
        LET line == Printed[i].of.line IN
        (\E k \in (i + 1) .. Len(Printed) : Printed[k].of.line = line)
        => Printed[i + 1].of.line = line

\* The test ends: nobody is left waiting for the lock or for the console,
\* although the server of the lock misses most of what happens to it.
TestEnds ==
    <>(at = "shell" \/ (at = "done" /\ lockstatus[TheLock][Main] = "out"))
=============================================================================
