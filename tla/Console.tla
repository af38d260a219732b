------------------------------- MODULE Console ------------------------------
(***************************************************************************)
(* servers/console.c over lib/msg.c: the server that transmits what clients*)
(* print, the server that hands them the characters received, the two      *)
(* notifiers, and the UART with its queues and interrupts (drivers/uart.c, *)
(* uart_isr of kern/interrupt.c).                                          *)
(*                                                                         *)
(* The UART works while the servers do, so a loop of the transmitter is    *)
(* one step per character.  Notifiers have priority 0 and the servers 1:   *)
(* these do not run while a notifier can.  Clients may have any priority.  *)
(***************************************************************************)
EXTENDS Messages, SequencesExt

CONSTANTS
    TxServer, RxServer,      \* consoletx_task and consolerx_task
    TxNotifier, RxNotifier,
    TX_BUF_MAX, RX_BUF_MAX, RX_TIDS_MAX,
    FIFO_MAX,                \* the UART's queues, to it and from it
    THR_LEVEL,               \* at so few characters to send it interrupts
    MaxKeys                  \* bound: characters that come in

ASSUME ConsoleAssumption ==
    /\ {TxServer, RxServer} \subseteq Server /\ TxServer # RxServer
    /\ {TxNotifier, RxNotifier} \subseteq Task /\ TxNotifier # RxNotifier
    /\ {TX_BUF_MAX, RX_BUF_MAX, RX_TIDS_MAX, FIFO_MAX} \subseteq Nat \ {0}
    /\ THR_LEVEL \in 0 .. (FIFO_MAX - 1) /\ MaxKeys \in Nat

ENOMEM  == -4
ENOFUNC == -7

VARIABLES
    wire,      \* what the UART has sent
    txfifo,    \* what it has still to send
    txq,       \* chq of consoletx_task
    txpc,      \* where consoletx_task is
    txtid,     \* its tid, Fd or NoTid for the notifier's
    rest,      \* the characters from cur on, rcvlen of them
    newline_seen,
    rxfifo, rxq, tidq,
    pressed,   \* how many characters came in; they are numbered
    enabled,   \* the UART's enabled interrupts, of "THR" and "RHR"
    readback,  \* [server -> what it read of enabled while it writes it]
    waiting    \* notifiers in event_wait

txVars == <<wire, txfifo, txq, txpc, txtid, rest, newline_seen>>
rxVars == <<rxfifo, rxq, tidq, pressed>>
intVars == <<enabled, readback, waiting>>
consoleVars == <<txVars, rxVars, intVars>>

NoTid == -1
Notifier == {TxNotifier, RxNotifier}
ConsoleServer == {TxServer, RxServer}
Idle == {"idle"}

\* A character and the message it is from (for the properties).
Char(c, m) == [char |-> c, of |-> m]

ConsoleInit ==
    /\ wire = <<>> /\ txfifo = <<>> /\ txq = <<>>
    /\ txpc = "receive" /\ txtid = NoTid /\ rest = <<>>
    /\ newline_seen = FALSE
    /\ rxfifo = <<>> /\ rxq = <<>> /\ tidq = <<>> /\ pressed = 0
    /\ enabled = {"THR", "RHR"} /\ readback = [s \in ConsoleServer |-> Idle]
    /\ waiting = Notifier

-----------------------------------------------------------------------------
(* The UART and its interrupts.                                            *)

TxFull == Len(txfifo) = FIFO_MAX

UartSend ==
    /\ ~crashed /\ txfifo # <<>>
    /\ wire' = Append(wire, Head(txfifo))
    /\ txfifo' = Tail(txfifo)
    /\ UNCHANGED <<msgVars, txq, txpc, txtid, rest, newline_seen,
                   rxVars, intVars>>

KeyPress ==
    /\ ~crashed /\ pressed < MaxKeys /\ Len(rxfifo) < FIFO_MAX
    /\ pressed' = pressed + 1
    /\ rxfifo' = Append(rxfifo, pressed + 1)
    /\ UNCHANGED <<msgVars, txVars, rxq, tidq, intVars>>

\* A character for which the UART has no room is a line error, on which the
\* kernel panics.
LineError ==
    /\ ~crashed /\ pressed < MaxKeys /\ Len(rxfifo) = FIFO_MAX
    /\ crashed' = TRUE
    /\ UNCHANGED <<phase, msg, status, inbox, tids, consoleVars>>

\* uart_isr: whoever waits for the event wakes up, and that interrupt is
\* disabled until a server enables it again.
Interrupt(it, notifier) ==
    /\ ~crashed
    /\ enabled' = enabled \ {it}
    /\ waiting' = waiting \ {notifier}
    /\ UNCHANGED <<msgVars, txVars, rxVars, readback>>

ThrInterrupt ==
    "THR" \in enabled /\ Len(txfifo) <= THR_LEVEL /\ Interrupt("THR", TxNotifier)
RhrInterrupt ==
    "RHR" \in enabled /\ rxfifo # <<>> /\ Interrupt("RHR", RxNotifier)

\* A notifier that can run, as no server does then.  It sends to its server,
\* and is back in event_wait as soon as it is answered.
NotifierReady == \E n \in Notifier : phase[n] = "ready" /\ n \notin waiting

Notify(n, s) ==
    /\ n \notin waiting
    /\ MsgSend(n, s, [code |-> "NOTIFY"])
    /\ UNCHANGED consoleVars

-----------------------------------------------------------------------------
(* Clients, for the modules that know what they print.                     *)

\* One STDOUT_WRITE_MSG, of at most PRINT_CHUNK characters.
Write(t, s, text, id) ==
    /\ MsgSend(t, s, [code |-> "WRITE", text |-> text, id |-> id])
    /\ UNCHANGED consoleVars

Fgetc(t, s) == MsgSend(t, s, [code |-> "GETCHAR"]) /\ UNCHANGED consoleVars

-----------------------------------------------------------------------------
(* consoletx_task.                                                         *)

\* The servers may be preempted anywhere.  uart_intenable reads the register
\* and writes it back, so what changes in between is undone.
Runs(s) == ~crashed /\ ~NotifierReady /\ readback[s] = Idle
ReadEnabled(s) == readback' = [readback EXCEPT ![s] = enabled]
IntEnable(s, it) ==
    /\ ~crashed /\ ~NotifierReady /\ readback[s] # Idle
    /\ enabled' = readback[s] \cup {it}
    /\ readback' = [readback EXCEPT ![s] = Idle]
    /\ UNCHANGED <<msgVars, txVars, rxVars, waiting>>

Receives(s, codes) ==
    Runs(s) /\ Incoming(s) /\ Request(s).code \in codes

TxReceiveNotify ==
    /\ txpc = "receive" /\ Receives(TxServer, {"NOTIFY"})
    /\ Serve(TxServer, Reply(TxServer, 0))
    /\ waiting' = waiting \cup {TxNotifier}
    /\ txpc' = "flush" /\ txtid' = NoTid
    /\ UNCHANGED <<wire, txfifo, txq, rest, newline_seen, rxVars, enabled,
                   readback>>

TxReceiveWrite ==
    /\ txpc = "receive" /\ Receives(TxServer, {"WRITE"})
    /\ Serve(TxServer, NoReply)
    /\ txpc' = "flush" /\ txtid' = Tid(TxServer)
    /\ rest' = [i \in 1 .. Len(Request(TxServer).text) |->
                   Char(Request(TxServer).text[i], Request(TxServer).id)]
    /\ newline_seen' = FALSE
    /\ UNCHANGED <<wire, txfifo, txq, rxVars, intVars>>

\* fgetc on the channel to print to.
TxReceiveOther ==
    /\ txpc = "receive" /\ Receives(TxServer, {"GETCHAR"})
    /\ Serve(TxServer, Reply(TxServer, ENOFUNC))
    /\ UNCHANGED consoleVars

\* The end of a handler: interrupts are enabled if there is still something
\* to send.
TxDone ==
    /\ txpc' = "receive" /\ txtid' = NoTid /\ rest' = <<>>
    /\ newline_seen' = FALSE
    /\ IF txq # <<>> THEN ReadEnabled(TxServer) ELSE UNCHANGED readback
    /\ UNCHANGED <<wire, txfifo, txq, rxVars, enabled, waiting>>

\* (A mutant: the message does not wait for what is queued.)
AfterFlushOvertaking == "direct"
AfterFlush == IF txq = <<>> THEN "direct" ELSE "enqueue"

\* First, the queue goes to the UART, as far as it takes it.
TxFlush ==
    /\ txpc = "flush" /\ Runs(TxServer)
    /\ UNCHANGED msgVars
    /\ \/ /\ txq # <<>> /\ ~TxFull
          /\ txfifo' = Append(txfifo, Head(txq)) /\ txq' = Tail(txq)
          /\ UNCHANGED <<wire, txpc, txtid, rest, newline_seen, rxVars, intVars>>
       \/ /\ txq = <<>> \/ TxFull
          /\ txtid = NoTid
          /\ TxDone
       \/ /\ txq = <<>> \/ TxFull
          /\ txtid # NoTid
          /\ txpc' = AfterFlush
          /\ UNCHANGED <<wire, txfifo, txq, txtid, rest, newline_seen,
                         rxVars, intVars>>

\* A newline goes out after a carriage return, but only the first newline of
\* a message does: newline_seen is never reset.
CRNext == ~newline_seen /\ Head(rest).char = "\n"
Emitted == IF CRNext THEN Char("\r", Head(rest).of) ELSE Head(rest)
Consume ==
    /\ rest' = IF CRNext THEN rest ELSE Tail(rest)
    /\ newline_seen' = (newline_seen \/ CRNext)

\* Then the message goes to the UART, if nothing is queued before it.
TxDirect ==
    /\ txpc = "direct" /\ Runs(TxServer)
    /\ IF rest # <<>> /\ ~TxFull
       THEN /\ txfifo' = Append(txfifo, Emitted)
            /\ Consume
            /\ UNCHANGED txpc
       ELSE /\ txpc' = "enqueue"
            /\ UNCHANGED <<txfifo, rest, newline_seen>>
    /\ UNCHANGED <<msgVars, wire, txq, txtid, rxVars, intVars>>

\* (A mutant: what does not fit is forgotten.)
TruncatedStatusOk == 0
TruncatedStatus == ENOMEM

\* What is left of it is queued, until the queue is full.
TxEnqueue ==
    /\ txpc = "enqueue" /\ Runs(TxServer)
    /\ \/ /\ rest = <<>>
          /\ MsgReply(TxServer, txtid, 0)
          /\ TxDone
       \/ /\ rest # <<>> /\ Len(txq) = TX_BUF_MAX
          /\ MsgReply(TxServer, txtid, TruncatedStatus)
          /\ TxDone
       \/ /\ rest # <<>> /\ Len(txq) < TX_BUF_MAX
          /\ txq' = Append(txq, Emitted)
          /\ Consume
          /\ UNCHANGED <<msgVars, wire, txfifo, txpc, txtid, rxVars, intVars>>

\* (It has one client at a time and always a descriptor for it.)
TxStep ==
    \/ TxReceiveNotify
    \/ TxReceiveWrite
    \/ TxReceiveOther
    \/ TxFlush
    \/ TxDirect
    \/ TxEnqueue
    \/ IntEnable(TxServer, "THR")

-----------------------------------------------------------------------------
(* consolerx_task.                                                         *)

\* (Mutants: it has no end; it drops what comes.)
PushedAnyway(q, c) == Append(q, c)
PushedIfRoom(q, c) == IF Len(q) = RX_BUF_MAX THEN q ELSE Append(q, c)

\* A full queue drops its oldest character.
Pushed(q, c) == Append(IF Len(q) = RX_BUF_MAX THEN Tail(q) ELSE q, c)

\* As many readers as there are characters get them, first come first served.
Paired(tids_, chars) ==
    1 .. (IF Len(tids_) < Len(chars) THEN Len(tids_) ELSE Len(chars))
Answers(tids_, chars) ==
    [fd \in {tids_[i] : i \in Paired(tids_, chars)} |->
        chars[CHOOSE i \in Paired(tids_, chars) : tids_[i] = fd]]
\* The notifier is answered at once.
NotifyAnswers(tids_, chars) ==
    [fd \in {Tid(RxServer)} \cup DOMAIN Answers(tids_, chars) |->
        IF fd = Tid(RxServer) THEN 0 ELSE Answers(tids_, chars)[fd]]
Drop(q, n) == SubSeq(q, n + 1, Len(q))

Deliver(tids_, chars) ==
    LET n == Cardinality(Paired(tids_, chars)) IN
    /\ tidq' = Drop(tids_, n)
    /\ rxq' = Drop(chars, n)
    /\ ReadEnabled(RxServer)

RxServeNotify ==
    LET chars == FoldLeft(Pushed, rxq, rxfifo) IN
    /\ Receives(RxServer, {"NOTIFY"})
    /\ Serve(RxServer, NotifyAnswers(tidq, chars))
    /\ rxfifo' = <<>>
    /\ Deliver(tidq, chars)
    /\ waiting' = waiting \cup {RxNotifier}
    /\ UNCHANGED <<txVars, pressed, enabled>>

RxServeGetchar ==
    /\ Receives(RxServer, {"GETCHAR"})
    /\ IF Len(tidq) = RX_TIDS_MAX
       THEN /\ Serve(RxServer, Reply(RxServer, ENOMEM))
            /\ UNCHANGED <<rxq, tidq, readback>>
       ELSE LET readers == Append(tidq, Tid(RxServer)) IN
            /\ Serve(RxServer, Answers(readers, rxq))
            /\ Deliver(readers, rxq)
    /\ UNCHANGED <<txVars, rxfifo, pressed, enabled, waiting>>

\* fputc on the channel to read from.
RxServeOther ==
    /\ Receives(RxServer, {"WRITE"})
    /\ Serve(RxServer, Reply(RxServer, ENOFUNC))
    /\ UNCHANGED consoleVars

RxStep ==
    \/ RxServeNotify
    \/ RxServeGetchar
    \/ RxServeOther
    \/ IntEnable(RxServer, "RHR")
    \/ Runs(RxServer) /\ OutOfFds(RxServer) /\ UNCHANGED consoleVars

-----------------------------------------------------------------------------
(* Properties.                                                             *)

ConsoleTypeOK ==
    /\ Len(txfifo) <= FIFO_MAX /\ Len(txq) <= TX_BUF_MAX
    /\ Len(rxfifo) <= FIFO_MAX /\ Len(rxq) <= RX_BUF_MAX
    /\ tidq \in Seq(Fd) /\ Len(tidq) <= RX_TIDS_MAX
    /\ txpc \in {"receive", "flush", "direct", "enqueue"}
    /\ txtid \in Fd \cup {NoTid}
    /\ enabled \subseteq {"THR", "RHR"} /\ waiting \subseteq Notifier
    /\ readback \in [ConsoleServer -> {Idle} \cup SUBSET {"THR", "RHR"}]

\* All that has been printed, in order.
Printed == wire \o txfifo \o txq

\* Unread characters are the last ones typed, in order and without a gap: a
\* queue that is full loses the oldest only (console.c:174-178).
InputContiguous ==
    LET unread == rxq \o rxfifo IN
    \A i \in 1 .. Len(unread) : unread[i] = pressed - Len(unread) + i

\* What a reader of the characters hears of a message: all that they have of
\* it, but for the carriage returns.
Hear(text, ch, m) ==
    IF ch.of = m /\ ch.char # "\r" THEN Append(text, ch.char) ELSE text
Heard(chars, m) == FoldLeft(LAMBDA text, ch : Hear(text, ch, m), <<>>, chars)

\* A client is told 0 if its whole message is on the way, and ENOMEM if only a
\* beginning of it is (console.c:126-142).
WriteReported ==
    [][\A t \in Task :
          phase[t] = "waiting" /\ phase'[t] = "ready" /\ msg[t].code = "WRITE" =>
          LET text == Heard(Printed', msg[t].id)
          IN  IF status'[t] = 0 THEN text = msg[t].text
              ELSE text # msg[t].text /\ IsPrefix(text, msg[t].text)
      ]_<<msgVars, consoleVars>>

\* "Enable interrupts if there's still something which needs to be sent"
\* (console.c:143): when the server is done, the UART will ask for more, or the
\* notifier is on its way.  (It does not hold: uart_intenable of the other
\* server may write back a value it read before.)
InterruptsIfMoreToSend ==
    txpc = "receive" /\ readback[TxServer] = Idle /\ txq # <<>>
    => "THR" \in enabled \/ TxNotifier \notin waiting
=============================================================================
