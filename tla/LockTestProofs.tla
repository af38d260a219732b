----------------------------- MODULE LockTestProofs ----------------------------
(***************************************************************************)
(* Theorems about the lock server, the console and the test of both in     *)
(* apps/shell.c.  The first part is about the lock server alone, for any   *)
(* clients and locks: at most one client holds a lock, the server polls    *)
(* for the right side of it, and what clients see is the abstract lock of  *)
(* Lock.tla.  The second part is about the test, for any number of         *)
(* children, lines and printf's, any descriptors and any room in the       *)
(* queues: the lines come out whole, and what is typed and not read yet    *)
(* has no gap.                                                             *)
(***************************************************************************)
EXTENDS LockTest, MessageProofs

-----------------------------------------------------------------------------
(* The lock server.                                                        *)

(* What the variables are, without the numbers of descriptors. *)
Typed ==
    /\ lockstatus \in [Lock -> [Client -> Status]]
    /\ senders \in [Lock -> Seq(Client)]
    /\ receivers \in [Lock -> Seq(Client)]
    /\ reg \in [Lock -> RegState]
    /\ lockid \in [Lock -> Nat]
    /\ requests \in Seq(LockRequest)
    /\ polled \in [Lock -> SUBSET PollEvent]
    /\ pres \in Pres

(* Who is queued to lock has asked for it, once. *)
SendersWait ==
    \A l \in Lock :
        /\ \A i \in 1 .. Len(senders[l]) : lockstatus[l][senders[l][i]] = "locking"
        /\ \A i, j \in 1 .. Len(senders[l]) :
              senders[l][i] = senders[l][j] => i = j

(* Who is queued to unlock holds the lock, and there is one at most. *)
ReceiverHolds ==
    \A l \in Lock :
        /\ Len(receivers[l]) <= 1
        /\ \A i \in 1 .. Len(receivers[l]) :
              lockstatus[l][receivers[l][i]] = "unlocking"

(* Who unlocks is queued for it, and only while nobody is queued to lock. *)
LeaverAlone ==
    \A l \in Lock :
        /\ senders[l] = <<>> \/ receivers[l] = <<>>
        /\ receivers[l] = <<>> => \A c \in Client : lockstatus[l][c] # "unlocking"

(* An event that was reported may be over, but is still polled for. *)
EventsPolled ==
    \A l \in Lock, ev \in PollEvent : pres = <<l, ev>> => ev \in polled[l]

(* What is returned by lockchan_register, and passed on to unregister. *)
IdsZero ==
    /\ \A l \in Lock : lockid[l] = 0
    /\ \A i \in 1 .. Len(requests) : requests[i].chan = 0

(* A lock that is not registered yet is not used, and is registered once. *)
RegisteredOnce ==
    /\ \A l \in Lock : reg[l] \in {"new", "registering"} =>
          polled[l] = {} /\ \A c \in Client : lockstatus[l][c] = "out"
    /\ \A i \in 1 .. Len(requests) :
          IF requests[i].code = "REGISTER"
          THEN reg[requests[i].lock] = "registering"
          ELSE reg[requests[i].lock] \in {"unregistering", "gone"}
    /\ \A i, j \in 1 .. Len(requests) :
          requests[i].code = "REGISTER" /\ requests[j].code = "REGISTER"
          /\ requests[i].lock = requests[j].lock => i = j

(* The inductive invariant. *)
LockInv ==
    /\ Typed
    /\ SendersWait
    /\ ReceiverHolds
    /\ LeaverAlone
    /\ EventsPolled
    /\ IdsZero
    /\ RegisteredOnce
    /\ MutualExclusion
    /\ SideMatches

-----------------------------------------------------------------------------
(* Queues.                                                                 *)

(* What is left of a queue when its head has gone. *)
LEMMA TailOfQueue ==
    ASSUME NEW S, NEW q \in Seq(S), q # <<>>
    PROVE  /\ Head(q) \in S /\ Head(q) = q[1] /\ 1 \in 1 .. Len(q)
           /\ Tail(q) \in Seq(S) /\ Len(Tail(q)) = Len(q) - 1
           /\ \A i \in 1 .. Len(Tail(q)) :
                 /\ Tail(q)[i] = q[i + 1] /\ i + 1 \in 1 .. Len(q)
                 /\ q[i + 1] \in S
  OBVIOUS

(* What a queue is when one has joined it. *)
LEMMA AppendToQueue ==
    ASSUME NEW S, NEW q \in Seq(S), NEW x \in S
    PROVE  /\ Append(q, x) \in Seq(S) /\ Len(Append(q, x)) = Len(q) + 1
           /\ Append(q, x)[Len(q) + 1] = x
           /\ \A i \in 1 .. Len(q) : Append(q, x)[i] = q[i] /\ q[i] \in S
  OBVIOUS

-----------------------------------------------------------------------------
(* The invariant holds at the beginning. *)
LEMMA LockInvInit == Init => LockInv
<1> SUFFICES ASSUME Init PROVE LockInv
  OBVIOUS
<1> USE DEF Init
<1>1. Typed
  BY DEF Typed, Status, RegState, Pres, Polling
<1>2. SendersWait /\ ReceiverHolds /\ LeaverAlone /\ IdsZero
  BY DEF SendersWait, ReceiverHolds, LeaverAlone, IdsZero
<1>3. EventsPolled
  BY DEF EventsPolled, Polling
<1>4. RegisteredOnce
  BY DEF RegisteredOnce
<1>5. MutualExclusion /\ SideMatches
  BY DEF MutualExclusion, SideMatches, Holders, PollEvent
<1> QED
  BY <1>1, <1>2, <1>3, <1>4, <1>5 DEF LockInv

(* A request is queued; nothing changes but how far its lock is registered. *)
LEMMA RegisterKeeps ==
    ASSUME LockInv, NEW c \in Client, NEW l \in Lock, LockchanRegister(c, l)
    PROVE  LockInv'
<1> USE DEF LockInv
<1>1. UNCHANGED <<lockstatus, senders, receivers, lockid, serverfd, polled, pres>>
  BY DEF LockchanRegister
<1> DEFINE r == [code |-> "REGISTER", client |-> c, lock |-> l, chan |-> 0]
<1>2. r \in LockRequest /\ requests \in Seq(LockRequest) /\ requests' = Append(requests, r)
  BY DEF LockchanRegister, Ask, Typed, LockRequest
<1>3. reg[l] = "new" /\ reg' = [reg EXCEPT ![l] = "registering"]
  BY DEF LockchanRegister
<1>4. r.code = "REGISTER" /\ r.lock = l /\ r.chan = 0
  OBVIOUS
<1> HIDE DEF r
<1>5. /\ requests' \in Seq(LockRequest) /\ Len(requests') = Len(requests) + 1
      /\ requests'[Len(requests) + 1] = r
      /\ \A i \in 1 .. Len(requests) :
            requests'[i] = requests[i] /\ requests[i] \in LockRequest
  BY <1>2, AppendToQueue
<1>6. Typed'
  BY <1>1, <1>3, <1>5 DEF Typed, RegState
<1>7. SendersWait' /\ ReceiverHolds' /\ LeaverAlone' /\ EventsPolled'
      /\ MutualExclusion' /\ SideMatches'
  BY <1>1 DEF SendersWait, ReceiverHolds, LeaverAlone, EventsPolled,
              MutualExclusion, SideMatches, Holders
<1>8. IdsZero'
  BY <1>1, <1>2, <1>4, <1>5 DEF IdsZero
<1>9. RegisteredOnce'
  <2>1. \A i \in 1 .. Len(requests) : requests[i].lock # l
    BY <1>3, <1>5 DEF RegisteredOnce, LockRequest
  <2>2. \A i \in 1 .. Len(requests) : requests[i].lock \in Lock
    BY <1>5 DEF LockRequest
  <2>3. \A k \in Lock : reg'[k] = IF k = l THEN "registering" ELSE reg[k]
    BY <1>3 DEF Typed
  <2>4. \A k \in Lock : reg'[k] \in {"new", "registering"} =>
          polled'[k] = {} /\ \A d \in Client : lockstatus'[k][d] = "out"
    BY <1>1, <1>3, <2>3 DEF RegisteredOnce
  <2>5. \A i \in 1 .. Len(requests') :
          IF requests'[i].code = "REGISTER"
          THEN reg'[requests'[i].lock] = "registering"
          ELSE reg'[requests'[i].lock] \in {"unregistering", "gone"}
    BY <1>2, <1>4, <1>5, <2>1, <2>2, <2>3 DEF RegisteredOnce
  <2>6. \A i, j \in 1 .. Len(requests') :
          requests'[i].code = "REGISTER" /\ requests'[j].code = "REGISTER"
          /\ requests'[i].lock = requests'[j].lock => i = j
    BY <1>2, <1>4, <1>5, <2>1 DEF RegisteredOnce
  <2> QED
    BY <2>4, <2>5, <2>6 DEF RegisteredOnce
<1> QED
  BY <1>6, <1>7, <1>8, <1>9

(* The same, of a lock that nobody uses any more. *)
LEMMA UnregisterKeeps ==
    ASSUME LockInv, NEW c \in Client, NEW l \in Lock, LockchanUnregister(c, l)
    PROVE  LockInv'
<1> USE DEF LockInv
<1>1. UNCHANGED <<lockstatus, senders, receivers, lockid, serverfd, polled, pres>>
  BY DEF LockchanUnregister
<1> DEFINE r == [code |-> "UNREGISTER", client |-> c, lock |-> l, chan |-> lockid[l]]
<1>2. r \in LockRequest /\ requests \in Seq(LockRequest) /\ requests' = Append(requests, r)
  BY DEF LockchanUnregister, Ask, Typed, LockRequest
<1>3. reg[l] = "registered" /\ reg' = [reg EXCEPT ![l] = "unregistering"]
  BY DEF LockchanUnregister
<1>4. r.code = "UNREGISTER" /\ r.lock = l /\ r.chan = 0
  BY DEF IdsZero
<1> HIDE DEF r
<1>5. /\ requests' \in Seq(LockRequest) /\ Len(requests') = Len(requests) + 1
      /\ requests'[Len(requests) + 1] = r
      /\ \A i \in 1 .. Len(requests) :
            requests'[i] = requests[i] /\ requests[i] \in LockRequest
  BY <1>2, AppendToQueue
<1>6. Typed'
  BY <1>1, <1>3, <1>5 DEF Typed, RegState
<1>7. SendersWait' /\ ReceiverHolds' /\ LeaverAlone' /\ EventsPolled'
      /\ MutualExclusion' /\ SideMatches'
  BY <1>1 DEF SendersWait, ReceiverHolds, LeaverAlone, EventsPolled,
              MutualExclusion, SideMatches, Holders
<1>8. IdsZero'
  BY <1>1, <1>2, <1>4, <1>5 DEF IdsZero
<1>9. RegisteredOnce'
  <2>1. \A i \in 1 .. Len(requests) :
          requests[i].lock \in Lock
          /\ (requests[i].lock # l \/ requests[i].code # "REGISTER")
    BY <1>3, <1>5 DEF RegisteredOnce, LockRequest
  <2>2. \A k \in Lock : reg'[k] = IF k = l THEN "unregistering" ELSE reg[k]
    BY <1>3 DEF Typed
  <2>3. \A k \in Lock : reg'[k] \in {"new", "registering"} =>
          polled'[k] = {} /\ \A d \in Client : lockstatus'[k][d] = "out"
    BY <1>1, <1>3, <2>2 DEF RegisteredOnce
  <2>4. \A i \in 1 .. Len(requests') :
          IF requests'[i].code = "REGISTER"
          THEN reg'[requests'[i].lock] = "registering"
          ELSE reg'[requests'[i].lock] \in {"unregistering", "gone"}
    BY <1>2, <1>4, <1>5, <2>1, <2>2 DEF RegisteredOnce
  <2>5. \A i, j \in 1 .. Len(requests') :
          requests'[i].code = "REGISTER" /\ requests'[j].code = "REGISTER"
          /\ requests'[i].lock = requests'[j].lock => i = j
    BY <1>2, <1>4, <1>5 DEF RegisteredOnce
  <2> QED
    BY <2>3, <2>4, <2>5 DEF RegisteredOnce
<1> QED
  BY <1>6, <1>7, <1>8, <1>9

-----------------------------------------------------------------------------
(* Clients and the server change one lock at a time.  What they do to it   *)
(* is all that the invariant is about.                                     *)

(* What is to be said of a single lock, whose state is given. *)
OneLock(st, ss, rs, ps) ==
    /\ st \in [Client -> Status] /\ ss \in Seq(Client) /\ rs \in Seq(Client)
    /\ ps \in SUBSET PollEvent
    /\ \A i \in 1 .. Len(ss) : st[ss[i]] = "locking"
    /\ \A i, j \in 1 .. Len(ss) : ss[i] = ss[j] => i = j
    /\ Len(rs) <= 1
    /\ \A i \in 1 .. Len(rs) : st[rs[i]] = "unlocking"
    /\ ss = <<>> \/ rs = <<>>
    /\ rs = <<>> => \A c \in Client : st[c] # "unlocking"
    /\ \A c, d \in Client :
          st[c] \in {"holding", "unlocking"} /\ st[d] \in {"holding", "unlocking"}
          => c = d
    /\ ps # PollEvent
    /\ "SEND" \in ps <=> \E c \in Client : st[c] \in {"holding", "unlocking"}

(* The invariant says it of every lock. *)
LEMMA EveryLock ==
    ASSUME LockInv, NEW l \in Lock
    PROVE  OneLock(lockstatus[l], senders[l], receivers[l], polled[l])
  BY DEF LockInv, Typed, SendersWait, ReceiverHolds, LeaverAlone, MutualExclusion,
         SideMatches, Holders, OneLock

(* It holds again when it holds of the one lock that was changed, which is *)
(* registered, and only what is polled for is reported. *)
LEMMA OneLockKeeps ==
    ASSUME LockInv, NEW l \in Lock, reg[l] \notin {"new", "registering"},
           NEW st, NEW ss, NEW rs, NEW ps, OneLock(st, ss, rs, ps),
           lockstatus' = [lockstatus EXCEPT ![l] = st],
           senders' = [senders EXCEPT ![l] = ss],
           receivers' = [receivers EXCEPT ![l] = rs],
           polled' = [polled EXCEPT ![l] = ps],
           pres' \in Pres, EventsPolled', UNCHANGED <<reg, lockid, requests>>
    PROVE  LockInv'
<1> USE DEF LockInv
<1>1. /\ lockstatus'[l] = st /\ senders'[l] = ss /\ receivers'[l] = rs /\ polled'[l] = ps
      /\ \A k \in Lock \ {l} :
            /\ lockstatus'[k] = lockstatus[k] /\ senders'[k] = senders[k]
            /\ receivers'[k] = receivers[k] /\ polled'[k] = polled[k]
  BY DEF Typed
<1>2. Typed'
  BY DEF Typed, OneLock
<1>3. \A k \in Lock : OneLock(lockstatus'[k], senders'[k], receivers'[k], polled'[k])
  BY <1>1, EveryLock
<1>4. SendersWait' /\ ReceiverHolds' /\ LeaverAlone'
  BY <1>3 DEF OneLock, SendersWait, ReceiverHolds, LeaverAlone
<1>5. MutualExclusion' /\ SideMatches'
  BY <1>3 DEF OneLock, MutualExclusion, SideMatches, Holders
<1>6. IdsZero'
  BY DEF IdsZero
<1>7. RegisteredOnce'
  BY <1>1 DEF RegisteredOnce
<1> QED
  BY <1>2, <1>4, <1>5, <1>6, <1>7

(* A client that locks waits, or gets the lock from one that unlocks. *)
LEMMA LockKeeps ==
    ASSUME LockInv, NEW c \in Client, NEW l \in Lock, LockChannel(c, l)
    PROVE  LockInv'
<1> DEFINE st == lockstatus[l]  ss == senders[l]  rs == receivers[l]  ps == polled[l]
<1>1. OneLock(st, ss, rs, ps)
  BY EveryLock
<1>2. /\ reg[l] = "registered" /\ st[c] = "out"
      /\ UNCHANGED <<reg, lockid, requests, polled, pres>>
      /\ pres' \in Pres /\ EventsPolled'
  BY DEF LockInv, Typed, LockChannel, EventsPolled
<1>3. /\ lockstatus \in [Lock -> [Client -> Status]] /\ polled' = [polled EXCEPT ![l] = ps]
      /\ senders = [senders EXCEPT ![l] = ss] /\ receivers = [receivers EXCEPT ![l] = rs]
  BY <1>2 DEF LockInv, Typed
<1>4. CASE rs # <<>>
  <2> DEFINE d == Head(rs)
             new == [st EXCEPT ![d] = "out", ![c] = "holding"]
  <2>1. d \in Client /\ st[d] = "unlocking" /\ Tail(rs) = <<>>
    BY <1>1, <1>4, TailOfQueue DEF OneLock
  <2>2. lockstatus' = [lockstatus EXCEPT ![l] = new]
    BY <1>3, <1>4 DEF LockChannel
  <2>3. /\ senders' = [senders EXCEPT ![l] = ss]
        /\ receivers' = [receivers EXCEPT ![l] = <<>>]
    BY <1>3, <1>4, <2>1 DEF LockChannel
  <2>4. OneLock(new, ss, <<>>, ps)
    <3>1. new \in [Client -> Status]
      BY <1>1, <2>1 DEF OneLock, Status
    <3>2. \A x \in Client :
            new[x] = IF x = c THEN "holding" ELSE IF x = d THEN "out" ELSE st[x]
      BY <1>1, <2>1 DEF OneLock
    <3>3. \A x \in Client : new[x] \in {"holding", "unlocking"} => x = c
      BY <1>1, <2>1, <3>2 DEF OneLock
    <3>4. \A i \in 1 .. Len(ss) : ss[i] \in Client /\ new[ss[i]] = "locking"
      BY <1>1, <1>2, <2>1, <3>2 DEF OneLock
    <3>5. "SEND" \in ps
      BY <1>1, <2>1 DEF OneLock
    <3> HIDE DEF new, st, ss, rs, ps
    <3> QED
      BY <1>1, <3>1, <3>2, <3>3, <3>4, <3>5 DEF OneLock
  <2> HIDE DEF new
  <2> QED
    BY <1>2, <1>3, <2>2, <2>3, <2>4, OneLockKeeps
<1>5. CASE rs = <<>>
  <2> DEFINE new == [st EXCEPT ![c] = "locking"]
  <2>1. /\ lockstatus' = [lockstatus EXCEPT ![l] = new]
        /\ senders' = [senders EXCEPT ![l] = Append(ss, c)]
        /\ receivers' = [receivers EXCEPT ![l] = rs]
    BY <1>3, <1>5 DEF LockChannel, LockInv, Typed
  <2>2. OneLock(new, Append(ss, c), rs, ps)
    <3>1. new \in [Client -> Status]
      BY <1>1 DEF OneLock, Status
    <3>2. \A x \in Client : new[x] = IF x = c THEN "locking" ELSE st[x]
      BY <1>1 DEF OneLock
    <3> DEFINE app == Append(ss, c)
    <3>3. /\ app \in Seq(Client) /\ Len(app) = Len(ss) + 1
          /\ app[Len(ss) + 1] = c
          /\ \A i \in 1 .. Len(ss) : app[i] = ss[i] /\ ss[i] \in Client
      BY <1>1, AppendToQueue DEF OneLock
    <3>4. \A i \in 1 .. Len(ss) : ss[i] # c
      BY <1>1, <1>2 DEF OneLock
    <3> HIDE DEF new, app, st, ss, ps
    <3>5. \A i \in 1 .. Len(app) : new[app[i]] = "locking"
      BY <1>1, <3>2, <3>3 DEF OneLock
    <3>6. \A i, j \in 1 .. Len(app) : app[i] = app[j] => i = j
      BY <1>1, <3>3, <3>4 DEF OneLock
    <3>7. \A x \in Client : new[x] \in {"holding", "unlocking"}
                            <=> st[x] \in {"holding", "unlocking"}
      BY <1>2, <3>2
    <3>8. \A x \in Client : new[x] # "unlocking"
      BY <1>1, <1>5, <3>2 DEF OneLock
    <3>9. app \in Seq(Client) /\ rs \in Seq(Client) /\ ps \in SUBSET PollEvent
      BY <1>1, <3>3 DEF OneLock
    <3>10. /\ ps # PollEvent
           /\ "SEND" \in ps <=> \E x \in Client : new[x] \in {"holding", "unlocking"}
           /\ \A x, y \in Client :
                 new[x] \in {"holding", "unlocking"} /\ new[y] \in {"holding", "unlocking"}
                 => x = y
      BY <1>1, <3>7 DEF OneLock
    <3>11. Len(rs) <= 1 /\ \A i \in 1 .. Len(rs) : new[rs[i]] = "unlocking"
      BY <1>5
    <3>12. OneLock(new, app, rs, ps)
      BY <1>5, <3>1, <3>5, <3>6, <3>8, <3>9, <3>10, <3>11 DEF OneLock
    <3> QED
      BY <3>12 DEF app
  <2> HIDE DEF new
  <2> QED
    BY <1>2, <1>3, <2>1, <2>2, OneLockKeeps
<1> QED
  BY <1>4, <1>5

(* A client that unlocks waits, or lets in one that locks. *)
LEMMA UnlockKeeps ==
    ASSUME LockInv, NEW c \in Client, NEW l \in Lock, UnlockChannel(c, l)
    PROVE  LockInv'
<1> DEFINE st == lockstatus[l]  ss == senders[l]  rs == receivers[l]  ps == polled[l]
<1>1. OneLock(st, ss, rs, ps)
  BY EveryLock
<1>2. /\ st[c] = "holding" /\ reg[l] \notin {"new", "registering"}
      /\ UNCHANGED <<reg, lockid, requests, polled, pres>>
      /\ pres' \in Pres /\ EventsPolled'
  BY DEF LockInv, Typed, UnlockChannel, EventsPolled, RegisteredOnce
<1>3. /\ lockstatus \in [Lock -> [Client -> Status]] /\ polled' = [polled EXCEPT ![l] = ps]
      /\ senders = [senders EXCEPT ![l] = ss] /\ receivers = [receivers EXCEPT ![l] = rs]
  BY <1>2 DEF LockInv, Typed
<1>4. rs = <<>>
  <2> SUFFICES ASSUME rs # <<>> PROVE FALSE
    OBVIOUS
  <2>1. rs[1] \in Client /\ st[rs[1]] = "unlocking"
    BY <1>1, TailOfQueue DEF OneLock
  <2> QED
    BY <1>1, <1>2, <2>1 DEF OneLock
<1>5. CASE ss # <<>>
  <2> DEFINE d == Head(ss)
             new == [st EXCEPT ![d] = "holding", ![c] = "out"]
             left == Tail(ss)
  <2>1. /\ d \in Client /\ d = ss[1] /\ 1 \in 1 .. Len(ss) /\ st[d] = "locking"
        /\ left \in Seq(Client)
        /\ \A i \in 1 .. Len(left) :
              left[i] = ss[i + 1] /\ i + 1 \in 1 .. Len(ss) /\ ss[i + 1] \in Client
    BY <1>1, <1>5, TailOfQueue DEF OneLock
  <2>2. /\ lockstatus' = [lockstatus EXCEPT ![l] = new]
        /\ senders' = [senders EXCEPT ![l] = left]
        /\ receivers' = [receivers EXCEPT ![l] = rs]
    BY <1>3, <1>5 DEF UnlockChannel
  <2>3. OneLock(new, left, rs, ps)
    <3>1. new \in [Client -> Status]
      BY <1>1, <2>1 DEF OneLock, Status
    <3>2. \A x \in Client :
            new[x] = IF x = c THEN "out" ELSE IF x = d THEN "holding" ELSE st[x]
      BY <1>1, <2>1 DEF OneLock
    <3>3. d # c /\ \A x \in Client : st[x] \in {"holding", "unlocking"} => x = c
      BY <1>1, <1>2, <2>1 DEF OneLock
    <3>4. /\ \A x \in Client : new[x] \in {"holding", "unlocking"} => x = d
          /\ new[d] = "holding"
      BY <2>1, <3>2, <3>3
    <3>5. \A i \in 1 .. Len(left) : left[i] # d /\ st[left[i]] = "locking"
      BY <1>1, <2>1 DEF OneLock
    <3>6. \A i, j \in 1 .. Len(left) : left[i] = left[j] => i = j
      <4> SUFFICES ASSUME NEW i \in 1 .. Len(left), NEW j \in 1 .. Len(left),
                          left[i] = left[j]
                   PROVE  i = j
        OBVIOUS
      <4>1. ss[i + 1] = ss[j + 1] /\ i + 1 \in 1 .. Len(ss) /\ j + 1 \in 1 .. Len(ss)
        BY <2>1
      <4>2. i + 1 = j + 1
        BY <1>1, <4>1 DEF OneLock
      <4> QED
        BY <4>2
    <3>7. "SEND" \in ps
      BY <1>1, <1>2 DEF OneLock
    <3> HIDE DEF new, left, d, st, ss, ps
    <3>8. \A i \in 1 .. Len(left) : new[left[i]] = "locking"
      BY <1>2, <2>1, <3>2, <3>5
    <3> QED
      BY <1>1, <1>4, <2>1, <3>1, <3>4, <3>6, <3>7, <3>8 DEF OneLock
  <2> HIDE DEF new, left
  <2> QED
    BY <1>2, <1>3, <2>2, <2>3, OneLockKeeps
<1>6. CASE ss = <<>>
  <2> DEFINE new == [st EXCEPT ![c] = "unlocking"]
             app == Append(rs, c)
  <2>1. /\ lockstatus' = [lockstatus EXCEPT ![l] = new]
        /\ receivers' = [receivers EXCEPT ![l] = app]
        /\ senders' = [senders EXCEPT ![l] = ss]
    BY <1>3, <1>6 DEF UnlockChannel, LockInv, Typed
  <2>2. app \in Seq(Client) /\ Len(app) = 1 /\ app[1] = c /\ app # <<>>
    BY <1>4
  <2>3. OneLock(new, ss, app, ps)
    <3>1. new \in [Client -> Status]
      BY <1>1 DEF OneLock, Status
    <3>2. \A x \in Client : new[x] = IF x = c THEN "unlocking" ELSE st[x]
      BY <1>1 DEF OneLock
    <3>3. \A x \in Client : new[x] \in {"holding", "unlocking"}
                            <=> st[x] \in {"holding", "unlocking"}
      BY <1>2, <3>2
    <3> HIDE DEF new, app, st, ps
    <3> QED
      BY <1>1, <1>6, <2>2, <3>1, <3>2, <3>3 DEF OneLock
  <2> HIDE DEF new, app
  <2> QED
    BY <1>2, <1>3, <2>1, <2>3, OneLockKeeps
<1> QED
  BY <1>5, <1>6

-----------------------------------------------------------------------------
(* The server.                                                             *)

(* What poll_wait reports is polled for. *)
LEMMA PollWaitKeeps ==
    ASSUME LockInv, PollWait
    PROVE  LockInv'
<1>1. UNCHANGED <<lockstatus, senders, receivers, reg, lockid, requests, polled>>
  BY DEF PollWait
<1>2. pres' \in Pres
  <2>1. \A l \in Lock : polled[l] \subseteq PollEvent
    BY DEF LockInv, Typed
  <2> QED
    BY <2>1 DEF PollWait, Pres
<1>3. EventsPolled'
  <2>1. ASSUME pres' = <<"lock_fd">> PROVE EventsPolled'
    BY <1>1, <2>1 DEF EventsPolled
  <2>2. ASSUME NEW l \in Lock, NEW ev \in polled[l], pres' = <<l, ev>>
        PROVE  EventsPolled'
    BY <1>1, <2>2 DEF EventsPolled
  <2> QED
    BY <2>1, <2>2 DEF PollWait
<1>4. Typed'
  BY <1>1, <1>2 DEF LockInv, Typed
<1>5. SendersWait' /\ ReceiverHolds' /\ LeaverAlone' /\ MutualExclusion' /\ SideMatches'
  BY <1>1 DEF LockInv, SendersWait, ReceiverHolds, LeaverAlone, MutualExclusion, SideMatches, Holders
<1>6. IdsZero' /\ RegisteredOnce'
  BY <1>1 DEF LockInv, IdsZero, RegisteredOnce
<1> QED
  BY <1>3, <1>4, <1>5, <1>6 DEF LockInv

(* Once it is waiting again, no event is old. *)
LEMMA NoEvent ==
    ASSUME pres' = Polling
    PROVE  pres' \in Pres /\ EventsPolled'
  BY DEF Polling, Pres, EventsPolled

(* What is left of the requests. *)
LEMMA RequestServed ==
    ASSUME LockInv, requests # <<>>
    PROVE  /\ Head(requests) \in LockRequest /\ Head(requests) = requests[1]
           /\ 1 \in 1 .. Len(requests) /\ Tail(requests) \in Seq(LockRequest)
           /\ \A i \in 1 .. Len(Tail(requests)) :
                 /\ Tail(requests)[i] = requests[i + 1]
                 /\ i + 1 \in 1 .. Len(requests) /\ requests[i + 1] \in LockRequest
  BY TailOfQueue DEF LockInv, Typed

(* A lock that is registered is polled for clients that lock it. *)
LEMMA ServeRegisterKeeps ==
    ASSUME LockInv, ServeRegister
    PROVE  LockInv'
<1> DEFINE l == Head(requests).lock
           left == Tail(requests)
<1>1. /\ requests # <<>> /\ requests[1].code = "REGISTER" /\ l = requests[1].lock
      /\ l \in Lock /\ left \in Seq(LockRequest) /\ requests' = left
      /\ \A i \in 1 .. Len(left) :
            left[i] = requests[i + 1] /\ i + 1 \in 1 .. Len(requests)
            /\ requests[i + 1] \in LockRequest
  BY RequestServed DEF ServeRegister, LockRequest
<1>2. /\ UNCHANGED <<lockstatus, senders, receivers>> /\ pres' = Polling
      /\ polled' = [polled EXCEPT ![l] = @ \cup {"RECV"}]
      /\ lockid' = [lockid EXCEPT ![l] = 0]
      /\ reg' = [reg EXCEPT ![l] = "registered"]
  BY DEF ServeRegister
<1>3. 1 \in 1 .. Len(requests)
  BY <1>1, RequestServed
<1>4. reg[l] = "registering" /\ polled[l] = {}
  BY <1>1, <1>3 DEF LockInv, RegisteredOnce
<1> HIDE DEF l, left
<1>5. /\ \A k \in Lock : polled'[k] = IF k = l THEN {"RECV"} ELSE polled[k]
      /\ \A k \in Lock : reg'[k] = IF k = l THEN "registered" ELSE reg[k]
  BY <1>1, <1>2, <1>4 DEF LockInv, Typed
<1>6. Typed'
  BY <1>1, <1>2, NoEvent DEF LockInv, Typed, RegState, PollEvent
<1>7. SendersWait' /\ ReceiverHolds' /\ LeaverAlone' /\ MutualExclusion'
  BY <1>2 DEF LockInv, SendersWait, ReceiverHolds, LeaverAlone, MutualExclusion, Holders
<1>8. SideMatches'
  BY <1>2, <1>4, <1>5 DEF LockInv, SideMatches, Holders, PollEvent
<1>9. IdsZero'
  BY <1>1, <1>2 DEF LockInv, IdsZero, Typed
<1>10. RegisteredOnce'
  <2>1. \A i \in 1 .. Len(left) :
          left[i].lock \in Lock /\ (left[i].code = "REGISTER" => left[i].lock # l)
    <3> SUFFICES ASSUME NEW i \in 1 .. Len(left), left[i].code = "REGISTER",
                        left[i].lock = l
                 PROVE  FALSE
      BY <1>1 DEF LockRequest
    <3>1. i + 1 = 1
      BY <1>1, <1>3 DEF LockInv, RegisteredOnce
    <3> QED
      BY <3>1
  <2>2. \A k \in Lock : reg'[k] \in {"new", "registering"} =>
          polled'[k] = {} /\ \A d \in Client : lockstatus'[k][d] = "out"
    BY <1>2, <1>5 DEF LockInv, RegisteredOnce
  <2>3. \A i \in 1 .. Len(left) :
          IF left[i].code = "REGISTER" THEN reg'[left[i].lock] = "registering"
          ELSE reg'[left[i].lock] \in {"unregistering", "gone"}
    BY <1>1, <1>4, <1>5, <2>1 DEF LockInv, RegisteredOnce
  <2>4. \A i, j \in 1 .. Len(left) :
          left[i].code = "REGISTER" /\ left[j].code = "REGISTER"
          /\ left[i].lock = left[j].lock => i = j
    <3> SUFFICES ASSUME NEW i \in 1 .. Len(left), NEW j \in 1 .. Len(left),
                        left[i].code = "REGISTER", left[j].code = "REGISTER",
                        left[i].lock = left[j].lock
                 PROVE  i = j
      OBVIOUS
    <3>1. /\ requests[i + 1].code = "REGISTER" /\ requests[j + 1].code = "REGISTER"
          /\ requests[i + 1].lock = requests[j + 1].lock
          /\ i + 1 \in 1 .. Len(requests) /\ j + 1 \in 1 .. Len(requests)
      BY <1>1
    <3>2. i + 1 = j + 1
      BY <3>1 DEF LockInv, RegisteredOnce
    <3> QED
      BY <3>2
  <2> QED
    BY <1>1, <2>2, <2>3, <2>4 DEF RegisteredOnce
<1> QED
  BY <1>2, <1>6, <1>7, <1>8, <1>9, <1>10, NoEvent DEF LockInv

(* A lock that is unregistered stays polled: the client passes on the 0 that *)
(* it got, and no lock has that descriptor. *)
LEMMA ServeUnregisterKeeps ==
    ASSUME LockInv, ServeUnregister
    PROVE  LockInv'
<1> DEFINE l == Head(requests).lock
           left == Tail(requests)
<1>1. /\ requests # <<>> /\ requests[1].code = "UNREGISTER" /\ l = requests[1].lock
      /\ l \in Lock /\ left \in Seq(LockRequest) /\ requests' = left
      /\ requests[1].chan = Head(requests).chan
      /\ \A i \in 1 .. Len(left) :
            left[i] = requests[i + 1] /\ i + 1 \in 1 .. Len(requests)
            /\ requests[i + 1] \in LockRequest
  BY RequestServed DEF ServeUnregister, LockRequest
<1>2. 1 \in 1 .. Len(requests)
  BY <1>1, RequestServed
<1>3. requests[1].chan = 0 /\ reg[l] \in {"unregistering", "gone"}
  BY <1>1, <1>2 DEF LockInv, IdsZero, RegisteredOnce
<1>4. polled' = polled
  BY <1>1, <1>3 DEF ServeUnregister, LockInv, Typed
<1>5. /\ UNCHANGED <<lockstatus, senders, receivers, lockid>> /\ pres' = Polling
      /\ reg' = [reg EXCEPT ![l] = "gone"]
  BY DEF ServeUnregister
<1> HIDE DEF l, left
<1>6. \A k \in Lock : reg'[k] = IF k = l THEN "gone" ELSE reg[k]
  BY <1>1, <1>5 DEF LockInv, Typed
<1>7. Typed'
  BY <1>1, <1>4, <1>5, NoEvent DEF LockInv, Typed, RegState
<1>8. SendersWait' /\ ReceiverHolds' /\ LeaverAlone' /\ MutualExclusion' /\ SideMatches'
  BY <1>4, <1>5
     DEF LockInv, SendersWait, ReceiverHolds, LeaverAlone, MutualExclusion,
         SideMatches, Holders
<1>9. IdsZero'
  BY <1>1, <1>5 DEF LockInv, IdsZero
<1>10. RegisteredOnce'
  <2>1. \A k \in Lock : reg'[k] \in {"new", "registering"} =>
          polled'[k] = {} /\ \A d \in Client : lockstatus'[k][d] = "out"
    BY <1>4, <1>5, <1>6 DEF LockInv, RegisteredOnce
  <2>2. \A i \in 1 .. Len(left) :
          IF left[i].code = "REGISTER" THEN reg'[left[i].lock] = "registering"
          ELSE reg'[left[i].lock] \in {"unregistering", "gone"}
    <3> SUFFICES ASSUME NEW i \in 1 .. Len(left)
                 PROVE  IF left[i].code = "REGISTER"
                        THEN reg'[left[i].lock] = "registering"
                        ELSE reg'[left[i].lock] \in {"unregistering", "gone"}
      OBVIOUS
    <3>1. /\ left[i] = requests[i + 1] /\ i + 1 \in 1 .. Len(requests)
          /\ left[i].lock \in Lock
      BY <1>1 DEF LockRequest
    <3>2. IF left[i].code = "REGISTER" THEN reg[left[i].lock] = "registering"
          ELSE reg[left[i].lock] \in {"unregistering", "gone"}
      BY <3>1 DEF LockInv, RegisteredOnce
    <3> QED
      BY <1>3, <1>6, <3>1, <3>2
  <2>3. \A i, j \in 1 .. Len(left) :
          left[i].code = "REGISTER" /\ left[j].code = "REGISTER"
          /\ left[i].lock = left[j].lock => i = j
    <3> SUFFICES ASSUME NEW i \in 1 .. Len(left), NEW j \in 1 .. Len(left),
                        left[i].code = "REGISTER", left[j].code = "REGISTER",
                        left[i].lock = left[j].lock
                 PROVE  i = j
      OBVIOUS
    <3>1. /\ requests[i + 1].code = "REGISTER" /\ requests[j + 1].code = "REGISTER"
          /\ requests[i + 1].lock = requests[j + 1].lock
          /\ i + 1 \in 1 .. Len(requests) /\ j + 1 \in 1 .. Len(requests)
      BY <1>1
    <3>2. i + 1 = j + 1
      BY <3>1 DEF LockInv, RegisteredOnce
    <3> QED
      BY <3>2
  <2> QED
    BY <1>1, <2>1, <2>2, <2>3 DEF RegisteredOnce
<1> QED
  BY <1>5, <1>7, <1>8, <1>9, <1>10, NoEvent DEF LockInv

(* The server lets in the first that waits, if one still does: it polls for *)
(* them only while nobody holds the lock. *)
LEMMA ServeLockKeeps ==
    ASSUME LockInv, NEW l \in Lock, ServeLock(l)
    PROVE  LockInv'
<1> DEFINE st == lockstatus[l]  ss == senders[l]  rs == receivers[l]  ps == polled[l]
<1>1. OneLock(st, ss, rs, ps)
  BY EveryLock
<1>2. /\ "RECV" \in ps /\ UNCHANGED <<reg, lockid, requests, receivers>>
      /\ pres' \in Pres /\ EventsPolled'
  BY NoEvent DEF ServeLock, LockInv, EventsPolled, PollEvent
<1>3. reg[l] \notin {"new", "registering"}
  BY <1>2 DEF LockInv, RegisteredOnce
<1>4. ps = {"RECV"} /\ \A x \in Client : st[x] \notin {"holding", "unlocking"}
  BY <1>1, <1>2 DEF OneLock, PollEvent
<1>5. receivers' = [receivers EXCEPT ![l] = rs]
  BY <1>2 DEF LockInv, Typed
<1>6. CASE ss = <<>>
  <2>1. /\ lockstatus' = [lockstatus EXCEPT ![l] = st] /\ senders' = [senders EXCEPT ![l] = ss]
        /\ polled' = [polled EXCEPT ![l] = ps]
    BY <1>6 DEF ServeLock, PollNext, LockInv, Typed
  <2> QED
    BY <1>1, <1>2, <1>3, <1>5, <2>1, OneLockKeeps
<1>7. CASE ss # <<>>
  <2> DEFINE d == Head(ss)
             new == [st EXCEPT ![d] = "holding"]
             left == Tail(ss)
  <2>1. /\ d \in Client /\ d = ss[1] /\ 1 \in 1 .. Len(ss) /\ st[d] = "locking"
        /\ left \in Seq(Client)
        /\ \A i \in 1 .. Len(left) :
              left[i] = ss[i + 1] /\ i + 1 \in 1 .. Len(ss) /\ ss[i + 1] \in Client
    BY <1>1, <1>7, TailOfQueue DEF OneLock
  <2>2. /\ lockstatus' = [lockstatus EXCEPT ![l] = new]
        /\ senders' = [senders EXCEPT ![l] = left]
    BY <1>7 DEF ServeLock, LockInv, Typed
  <2>3. polled' = [polled EXCEPT ![l] = {"SEND"}]
    <3>1. (ps \ {"RECV"}) \cup {"SEND"} = {"SEND"}
      BY <1>4
    <3> QED
      BY <1>7, <3>1 DEF ServeLock, PollNext
  <2>4. OneLock(new, left, rs, {"SEND"})
    <3>1. new \in [Client -> Status]
      BY <1>1, <2>1 DEF OneLock, Status
    <3>2. \A x \in Client : new[x] = IF x = d THEN "holding" ELSE st[x]
      BY <1>1, <2>1 DEF OneLock
    <3>3. /\ \A x \in Client : new[x] \in {"holding", "unlocking"} => x = d
          /\ new[d] = "holding"
      BY <1>4, <2>1, <3>2
    <3>4. \A i \in 1 .. Len(left) : left[i] # d /\ st[left[i]] = "locking"
      BY <1>1, <2>1 DEF OneLock
    <3>5. \A i, j \in 1 .. Len(left) : left[i] = left[j] => i = j
      <4> SUFFICES ASSUME NEW i \in 1 .. Len(left), NEW j \in 1 .. Len(left),
                          left[i] = left[j]
                   PROVE  i = j
        OBVIOUS
      <4>1. ss[i + 1] = ss[j + 1] /\ i + 1 \in 1 .. Len(ss) /\ j + 1 \in 1 .. Len(ss)
        BY <2>1
      <4>2. i + 1 = j + 1
        BY <1>1, <4>1 DEF OneLock
      <4> QED
        BY <4>2
    <3>6. rs = <<>>
      <4> SUFFICES ASSUME rs # <<>> PROVE FALSE
        OBVIOUS
      <4>1. rs[1] \in Client /\ st[rs[1]] = "unlocking"
        BY <1>1, TailOfQueue DEF OneLock
      <4> QED
        BY <1>4, <4>1
    <3> HIDE DEF new, left, d, st, ss, ps
    <3>7. \A i \in 1 .. Len(left) : new[left[i]] = "locking"
      BY <2>1, <3>2, <3>4
    <3>8. {"SEND"} \in SUBSET PollEvent /\ {"SEND"} # PollEvent
      BY DEF PollEvent
    <3>9. rs \in Seq(Client) /\ Len(rs) <= 1 /\ \A i \in 1 .. Len(rs) : new[rs[i]] = "unlocking"
      BY <3>6
    <3>10. /\ \A x, y \in Client :
                 new[x] \in {"holding", "unlocking"} /\ new[y] \in {"holding", "unlocking"}
                 => x = y
           /\ \E x \in Client : new[x] \in {"holding", "unlocking"}
      BY <2>1, <3>3
    <3>11. "SEND" \in {"SEND"} <=> \E x \in Client : new[x] \in {"holding", "unlocking"}
      BY <3>10
    <3>12. left \in Seq(Client)
      BY <2>1
    <3>13. \A x \in Client : new[x] # "unlocking"
      BY <1>4, <2>1, <3>2
    <3> QED
      BY <3>1, <3>5, <3>6, <3>7, <3>8, <3>9, <3>10, <3>11, <3>12, <3>13 DEF OneLock
  <2> HIDE DEF new, left
  <2> QED
    BY <1>2, <1>3, <1>5, <2>2, <2>3, <2>4, OneLockKeeps
<1> QED
  BY <1>6, <1>7

(* The server lets out the one that unlocks, if it still waits. *)
LEMMA ServeUnlockKeeps ==
    ASSUME LockInv, NEW l \in Lock, ServeUnlock(l)
    PROVE  LockInv'
<1> DEFINE st == lockstatus[l]  ss == senders[l]  rs == receivers[l]  ps == polled[l]
<1>1. OneLock(st, ss, rs, ps)
  BY EveryLock
<1>2. /\ "SEND" \in ps /\ UNCHANGED <<reg, lockid, requests, senders>>
      /\ pres' \in Pres /\ EventsPolled'
  BY NoEvent DEF ServeUnlock, LockInv, EventsPolled, PollEvent
<1>3. reg[l] \notin {"new", "registering"} /\ ps = {"SEND"}
  BY <1>1, <1>2 DEF LockInv, RegisteredOnce, OneLock, PollEvent
<1>4. senders' = [senders EXCEPT ![l] = ss]
  BY <1>2 DEF LockInv, Typed
<1>5. CASE rs = <<>>
  <2>1. /\ lockstatus' = [lockstatus EXCEPT ![l] = st]
        /\ receivers' = [receivers EXCEPT ![l] = rs]
        /\ polled' = [polled EXCEPT ![l] = ps]
    BY <1>5 DEF ServeUnlock, PollNext, LockInv, Typed
  <2> QED
    BY <1>1, <1>2, <1>3, <1>4, <2>1, OneLockKeeps
<1>6. CASE rs # <<>>
  <2> DEFINE d == Head(rs)
             new == [st EXCEPT ![d] = "out"]
  <2>1. d \in Client /\ st[d] = "unlocking" /\ Tail(rs) = <<>>
    BY <1>1, <1>6, TailOfQueue DEF OneLock
  <2>2. /\ lockstatus' = [lockstatus EXCEPT ![l] = new]
        /\ receivers' = [receivers EXCEPT ![l] = <<>>]
    BY <1>6, <2>1 DEF ServeUnlock, LockInv, Typed
  <2>3. polled' = [polled EXCEPT ![l] = {"RECV"}]
    <3>1. (ps \ {"SEND"}) \cup {"RECV"} = {"RECV"}
      BY <1>3
    <3> QED
      BY <1>6, <3>1 DEF ServeUnlock, PollNext
  <2>4. OneLock(new, ss, <<>>, {"RECV"})
    <3>1. new \in [Client -> Status]
      BY <1>1, <2>1 DEF OneLock, Status
    <3>2. \A x \in Client : new[x] = IF x = d THEN "out" ELSE st[x]
      BY <1>1, <2>1 DEF OneLock
    <3>3. \A x \in Client : new[x] \notin {"holding", "unlocking"}
      BY <1>1, <2>1, <3>2 DEF OneLock
    <3>4. \A i \in 1 .. Len(ss) : ss[i] \in Client /\ new[ss[i]] = "locking"
      BY <1>1, <2>1, <3>2 DEF OneLock
    <3>5. {"RECV"} \in SUBSET PollEvent /\ {"RECV"} # PollEvent /\ "SEND" \notin {"RECV"}
      BY DEF PollEvent
    <3> HIDE DEF new, st, ss, rs, ps
    <3> QED
      BY <1>1, <3>1, <3>3, <3>4, <3>5 DEF OneLock
  <2> HIDE DEF new
  <2> QED
    BY <1>2, <1>3, <1>4, <2>2, <2>3, <2>4, OneLockKeeps
<1> QED
  BY <1>5, <1>6

(* Every step keeps the invariant. *)
LEMMA LockInvNext == LockInv /\ [Next]_vars => LockInv'
<1> SUFFICES ASSUME LockInv, [Next]_vars PROVE LockInv'
  OBVIOUS
<1>1. CASE \E c \in Client, l \in Lock :
          \/ LockchanRegister(c, l) \/ LockchanUnregister(c, l)
          \/ LockChannel(c, l) \/ UnlockChannel(c, l)
  BY <1>1, RegisterKeeps, UnregisterKeeps, LockKeeps, UnlockKeeps
<1>2. CASE ServerStep
  BY <1>2, PollWaitKeeps, ServeRegisterKeeps, ServeUnregisterKeeps,
     ServeLockKeeps, ServeUnlockKeeps DEF ServerStep
<1>3. CASE UNCHANGED vars
  <2>1. UNCHANGED <<lockstatus, senders, receivers, reg, lockid, requests, polled, pres>>
    BY <1>3 DEF vars
  <2>2. Typed' /\ SendersWait' /\ ReceiverHolds' /\ LeaverAlone'
    BY <2>1 DEF LockInv, Typed, SendersWait, ReceiverHolds, LeaverAlone
  <2>3. EventsPolled' /\ IdsZero' /\ RegisteredOnce'
    BY <2>1 DEF LockInv, EventsPolled, IdsZero, RegisteredOnce
  <2>4. MutualExclusion' /\ SideMatches'
    BY <2>1 DEF LockInv, MutualExclusion, SideMatches, Holders
  <2> QED
    BY <2>2, <2>3, <2>4 DEF LockInv
<1> QED
  BY <1>1, <1>2, <1>3 DEF Next

(* So it always holds. *)
THEOREM LockInvariant == Spec => []LockInv
<1> QED
  BY LockInvInit, LockInvNext, PTL DEF Spec

-----------------------------------------------------------------------------
(* The theorems.                                                           *)

(* At most one client holds a lock, whether the server let it in or the    *)
(* client that unlocked did (lock.c:40-49). *)
THEOREM OneHolder == Spec => []MutualExclusion
<1>1. LockInv => MutualExclusion
  BY DEF LockInv
<1> QED
  BY <1>1, LockInvariant, PTL

(* The server polls a lock for the side that can come next, although locks *)
(* change hands behind its back (lock.c:96-107). *)
THEOREM RightSide == Spec => []SideMatches
<1>1. LockInv => SideMatches
  BY DEF LockInv
<1> QED
  BY <1>1, LockInvariant, PTL

(* With finitely many locks the descriptors are numbers, too. *)
THEOREM LockTypeOK ==
    ASSUME IsFiniteSet(Lock)
    PROVE  Spec => []TypeOK
<1> DEFINE Fds == serverfd \in [Lock -> Nat]
<1>1. Init => Fds
  BY DEF Init
<1>2. Fds /\ [Next]_vars => Fds'
  <2> SUFFICES ASSUME Fds, [Next]_vars PROVE Fds'
    OBVIOUS
  <2>1. CASE ServeRegister
    <3>1. IsFiniteSet({l \in Lock : serverfd[l] # 0})
      BY FS_Subset
    <3>2. NextFd \in Nat
      BY <3>1, FS_CardinalityType DEF NextFd, LOCK_FD
    <3> QED
      BY <2>1, <3>2 DEF ServeRegister
  <2>2. CASE ~ServeRegister
    BY <2>2 DEF Next, ServerStep, vars, LockchanRegister, LockchanUnregister,
       LockChannel, UnlockChannel, PollWait, ServeUnregister, ServeLock, ServeUnlock
  <2> QED
    BY <2>1, <2>2
<1>3. LockInv /\ Fds => TypeOK
  BY DEF LockInv, Typed, TypeOK
<1> QED
  BY <1>1, <1>2, <1>3, LockInvariant, PTL DEF Spec

-----------------------------------------------------------------------------
(* What clients see is the abstract lock.                                  *)

HolderSets == [l \in Lock |-> Holders(l)]
LeaverSets == [l \in Lock |-> Leavers(l)]
In(st)  == {c \in Client : st[c] \in {"holding", "unlocking"}}
Out(st) == {c \in Client : st[c] = "unlocking"}

(* The one lock that changes becomes in the abstraction what it becomes. *)
LEMMA BecomesOf ==
    ASSUME LockInv, NEW l \in Lock, NEW st, NEW q,
           lockstatus' = [lockstatus EXCEPT ![l] = st],
           senders' = [senders EXCEPT ![l] = q]
    PROVE  Abstract!Becomes(l, In(st), q, Out(st))
<1>1. \A k \in Lock : lockstatus'[k] = IF k = l THEN st ELSE lockstatus[k]
  BY DEF LockInv, Typed
<1>2. /\ \A k \in Lock : Holders(k)' = IF k = l THEN In(st) ELSE Holders(k)
      /\ \A k \in Lock : Leavers(k)' = IF k = l THEN Out(st) ELSE Leavers(k)
  BY <1>1 DEF Holders, Leavers, In, Out
<1>3. /\ HolderSets' = [HolderSets EXCEPT ![l] = In(st)]
      /\ LeaverSets' = [LeaverSets EXCEPT ![l] = Out(st)]
  BY <1>2 DEF HolderSets, LeaverSets
<1> QED
  BY <1>3 DEF Abstract!Becomes, HolderSets, LeaverSets

(* What the abstraction has of a lock. *)
LEMMA MappedLock ==
    ASSUME NEW l \in Lock
    PROVE  /\ [k \in Lock |-> Holders(k)][l] = In(lockstatus[l])
           /\ [k \in Lock |-> Leavers(k)][l] = Out(lockstatus[l])
  BY DEF Holders, Leavers, In, Out

(* A lock that is held by one client. *)
LEMMA HeldByOne ==
    ASSUME NEW st, NEW ss, NEW rs, NEW ps, OneLock(st, ss, rs, ps),
           NEW c \in Client, st[c] \in {"holding", "unlocking"}
    PROVE  /\ In(st) = {c}
           /\ st[c] = "holding" => Out(st) = {}
           /\ st[c] = "unlocking" => Out(st) = {c}
  BY DEF OneLock, In, Out

(* Locking waits, or takes the lock over from the one that unlocks. *)
LEMMA LockHandsOver ==
    ASSUME LockInv, NEW c \in Client, NEW l \in Lock, LockChannel(c, l)
    PROVE  Abstract!Ask(l, c) \/ Abstract!TakeOver(l, c)
<1> DEFINE st == lockstatus[l]  ss == senders[l]
<1>1. OneLock(st, ss, receivers[l], polled[l]) /\ st[c] = "out"
  BY EveryLock DEF LockChannel
<1>2. c \notin In(st)
  BY <1>1 DEF In
<1>3. CASE receivers[l] # <<>>
  <2> DEFINE d == Head(receivers[l])
             new == [st EXCEPT ![d] = "out", ![c] = "holding"]
  <2>1. d \in Client /\ st[d] = "unlocking" /\ c # d /\ ss = <<>>
    BY <1>1, <1>3, TailOfQueue DEF OneLock
  <2>2. /\ lockstatus' = [lockstatus EXCEPT ![l] = new]
        /\ senders' = [senders EXCEPT ![l] = <<>>]
    BY <1>3, <2>1 DEF LockChannel, LockInv, Typed
  <2>3. Out(st) = {d}
    BY <1>1, <2>1, HeldByOne
  <2>4. In(new) = {c} /\ Out(new) = {}
    BY <1>1, <2>1 DEF OneLock, In, Out
  <2>5. Abstract!Becomes(l, {c}, <<>>, {})
    BY <2>2, <2>4, BecomesOf
  <2> QED
    BY <1>2, <2>1, <2>3, <2>5, MappedLock DEF Abstract!TakeOver
<1>4. CASE receivers[l] = <<>>
  <2> DEFINE new == [st EXCEPT ![c] = "locking"]
  <2>1. /\ lockstatus' = [lockstatus EXCEPT ![l] = new]
        /\ senders' = [senders EXCEPT ![l] = Append(ss, c)]
    BY <1>4 DEF LockChannel, LockInv, Typed
  <2>2. In(new) = In(st) /\ Out(new) = {} /\ Out(st) = {}
    BY <1>1, <1>4 DEF OneLock, In, Out
  <2>3. Abstract!Becomes(l, In(st), Append(ss, c), {})
    BY <2>1, <2>2, BecomesOf
  <2>4. \A i \in DOMAIN ss : ss[i] # c
    BY <1>1 DEF OneLock
  <2> QED
    BY <1>2, <2>2, <2>3, <2>4, MappedLock DEF Abstract!Ask
<1> QED
  BY <1>3, <1>4

(* Unlocking waits, or hands the lock over to the first that locks. *)
LEMMA UnlockHandsOver ==
    ASSUME LockInv, NEW c \in Client, NEW l \in Lock, UnlockChannel(c, l)
    PROVE  Abstract!HandOver(l, c) \/ Abstract!Leave(l, c)
<1> DEFINE st == lockstatus[l]  ss == senders[l]
<1>1. OneLock(st, ss, receivers[l], polled[l]) /\ st[c] = "holding"
  BY EveryLock DEF UnlockChannel
<1>2. In(st) = {c} /\ Out(st) = {}
  BY <1>1, HeldByOne
<1>3. CASE ss # <<>>
  <2> DEFINE d == Head(ss)
             new == [st EXCEPT ![d] = "holding", ![c] = "out"]
  <2>1. d \in Client /\ st[d] = "locking" /\ c # d
    BY <1>1, <1>3, TailOfQueue DEF OneLock
  <2>2. /\ lockstatus' = [lockstatus EXCEPT ![l] = new]
        /\ senders' = [senders EXCEPT ![l] = Tail(ss)]
    BY <1>3 DEF UnlockChannel, LockInv, Typed
  <2>3. In(new) = {d} /\ Out(new) = {}
    BY <1>1, <2>1 DEF OneLock, In, Out
  <2>4. Abstract!Becomes(l, {d}, Tail(ss), {})
    BY <2>2, <2>3, BecomesOf
  <2> QED
    BY <1>2, <1>3, <2>4, MappedLock DEF Abstract!HandOver
<1>4. CASE ss = <<>>
  <2> DEFINE new == [st EXCEPT ![c] = "unlocking"]
  <2>1. /\ lockstatus' = [lockstatus EXCEPT ![l] = new]
        /\ senders' = [senders EXCEPT ![l] = <<>>]
    BY <1>4 DEF UnlockChannel, LockInv, Typed
  <2>2. In(new) = {c} /\ Out(new) = {c}
    BY <1>1 DEF OneLock, In, Out
  <2>3. Abstract!Becomes(l, {c}, <<>>, {c})
    BY <2>1, <2>2, BecomesOf
  <2> QED
    BY <1>2, <1>4, <2>3, MappedLock DEF Abstract!Leave
<1> QED
  BY <1>3, <1>4

(* A lock that nobody changes stays the same in the abstraction. *)
LEMMA NothingToLocks ==
    ASSUME UNCHANGED <<lockstatus, senders>>
    PROVE  UNCHANGED <<HolderSets, senders, LeaverSets>>
  BY DEF HolderSets, LeaverSets, Holders, Leavers

(* The server lets the first in that waits, when nobody holds the lock. *)
LEMMA ServerGrants ==
    ASSUME LockInv, NEW l \in Lock, ServeLock(l)
    PROVE  \/ UNCHANGED <<HolderSets, senders, LeaverSets>>
           \/ Abstract!Grant(l)
<1> DEFINE st == lockstatus[l]  ss == senders[l]
<1>1. OneLock(st, ss, receivers[l], polled[l]) /\ "RECV" \in polled[l]
  BY EveryLock DEF ServeLock, LockInv, EventsPolled, PollEvent
<1>2. In(st) = {}
  BY <1>1 DEF OneLock, PollEvent, In
<1>3. CASE ss # <<>>
  <2> DEFINE d == Head(ss)
             new == [st EXCEPT ![d] = "holding"]
  <2>1. d \in Client
    BY <1>1, <1>3, TailOfQueue DEF OneLock
  <2>2. /\ lockstatus' = [lockstatus EXCEPT ![l] = new]
        /\ senders' = [senders EXCEPT ![l] = Tail(ss)]
    BY <1>3 DEF ServeLock, LockInv, Typed
  <2>3. In(new) = {d} /\ Out(new) = {}
    BY <1>1, <1>2, <2>1 DEF OneLock, In, Out
  <2>4. Abstract!Becomes(l, {d}, Tail(ss), {})
    BY <2>2, <2>3, BecomesOf
  <2> QED
    BY <1>2, <1>3, <2>4, MappedLock DEF Abstract!Grant
<1>4. CASE ss = <<>>
  BY <1>4, NothingToLocks DEF ServeLock
<1> QED
  BY <1>3, <1>4

(* The server lets the holder out. *)
LEMMA ServerReleases ==
    ASSUME LockInv, NEW l \in Lock, ServeUnlock(l)
    PROVE  \/ UNCHANGED <<HolderSets, senders, LeaverSets>>
           \/ \E c \in Client : Abstract!Release(l, c)
<1> DEFINE st == lockstatus[l]  ss == senders[l]
<1>1. OneLock(st, ss, receivers[l], polled[l])
  BY EveryLock
<1>2. CASE receivers[l] # <<>>
  <2> DEFINE d == Head(receivers[l])
             new == [st EXCEPT ![d] = "out"]
  <2>1. d \in Client /\ st[d] = "unlocking"
    BY <1>1, <1>2, TailOfQueue DEF OneLock
  <2>2. /\ lockstatus' = [lockstatus EXCEPT ![l] = new]
        /\ senders' = [senders EXCEPT ![l] = ss]
    BY <1>2 DEF ServeUnlock, LockInv, Typed
  <2>3. In(st) = {d} /\ Out(st) = {d}
    BY <1>1, <2>1, HeldByOne
  <2>4. In(new) = {} /\ Out(new) = {}
    BY <1>1, <2>1 DEF OneLock, In, Out
  <2>5. Abstract!Becomes(l, {}, ss, {})
    BY <2>2, <2>4, BecomesOf
  <2> QED
    BY <2>1, <2>3, <2>5, MappedLock DEF Abstract!Release
<1>3. CASE receivers[l] = <<>>
  BY <1>3, NothingToLocks DEF ServeUnlock
<1> QED
  BY <1>2, <1>3

(* Every step is one of the abstract locks, or nothing to them. *)
LEMMA StepsRefine ==
    LockInv /\ [Next]_vars
    => Abstract!Next \/ UNCHANGED <<HolderSets, senders, LeaverSets>>
<1> DEFINE Refined == Abstract!Next \/ UNCHANGED <<HolderSets, senders, LeaverSets>>
<1> SUFFICES ASSUME LockInv, [Next]_vars PROVE Refined
  OBVIOUS
<1>1. ASSUME NEW c \in Client, NEW l \in Lock, LockChannel(c, l) PROVE Refined
  BY <1>1, LockHandsOver DEF Abstract!Next
<1>2. ASSUME NEW c \in Client, NEW l \in Lock, UnlockChannel(c, l) PROVE Refined
  BY <1>2, UnlockHandsOver DEF Abstract!Next
<1>3. ASSUME NEW l \in Lock, ServeLock(l) PROVE Refined
  BY <1>3, ServerGrants DEF Abstract!Next
<1>4. ASSUME NEW l \in Lock, ServeUnlock(l) PROVE Refined
  BY <1>4, ServerReleases DEF Abstract!Next
<1>5. ASSUME UNCHANGED <<lockstatus, senders>> PROVE Refined
  BY <1>5, NothingToLocks
<1> HIDE DEF Refined
<1> QED
  BY <1>1, <1>2, <1>3, <1>4, <1>5 DEF Next, ServerStep, vars, LockchanRegister,
     LockchanUnregister, PollWait, ServeRegister, ServeUnregister

(* A registered channel is the lock of include/servers/lock.h, whichever   *)
(* others there are: the first that waits gets it, from the server or from *)
(* its holder, and nobody gets past those that wait (lock.c:40-49, 96-107). *)
THEOREM LockImplements == Spec => ImplementsLock
<1>1. Init => Abstract!Init
  BY DEF Init, Abstract!Init, Holders, Leavers
<1>2. LockInv /\ [Next]_vars => [Abstract!Next]_(Abstract!lockVars)
  BY StepsRefine DEF HolderSets, LeaverSets, Abstract!lockVars
<1> QED
  BY <1>1, <1>2, LockInvariant, PTL DEF Spec, ImplementsLock, Abstract!Spec

-----------------------------------------------------------------------------
(* The console, and the test.                                              *)

(* A character, and the message it is from.                                *)
Chars == [char : Child \cup {"\n", "\r"}, of : [line : Child \X Nat, call : Nat]]

(* What the servers of the console keep, and the UART and its interrupts.  *)
TxKeeps ==
    /\ wire \in Seq(Chars) /\ txfifo \in Seq(Chars) /\ txq \in Seq(Chars)
    /\ rest \in Seq(Chars)
    /\ Len(txfifo) <= FIFO_MAX /\ Len(txq) <= TX_BUF_MAX
    /\ txpc \in {"receive", "flush", "direct", "enqueue"}
    /\ txtid \in Fd \cup {NoTid}
RxKeeps ==
    /\ rxfifo \in Seq(Nat) /\ rxq \in Seq(Nat) /\ tidq \in Seq(Fd) /\ pressed \in Nat
    /\ Len(rxfifo) <= FIFO_MAX /\ Len(rxq) <= RX_BUF_MAX /\ Len(tidq) <= RX_TIDS_MAX
IntKeeps ==
    /\ enabled \subseteq {"THR", "RHR"} /\ waiting \subseteq Notifier
    /\ readback \in [ConsoleServer -> {Idle} \cup SUBSET {"THR", "RHR"}]
ConsoleKeeps ==
    /\ TxKeeps /\ RxKeeps /\ IntKeeps
    /\ step \in [Child -> -1 .. LastStep]

(* A child that is between its first printf of a line and its unlocking.   *)
InLine(c) == step[c] >= 0 /\ CallOf(c) \in 2 .. (Chunks + 2)

(* Where a child is tells what it has of the lock: to print, it holds it.  *)
LockAgrees ==
    \A c \in Child :
        /\ step[c] < 0 \/ CallOf(c) = 0 =>
              lockstatus[TheLock][c] \in {"out", "unlocking"}
        /\ step[c] >= 0 /\ CallOf(c) = 1 =>
              lockstatus[TheLock][c] \in {"locking", "holding"}
        /\ InLine(c) => lockstatus[TheLock][c] = "holding"

(* The message that a child sends is of the line it is in, and only        *)
(* children have something to print.                                       *)
Prints(c, m) ==
    /\ m.code = "WRITE" /\ m.text \in Seq(Child \cup {"\n"})
    /\ m.id \in [line : {Line(c)}, call : Nat]
ChildrenPrint ==
    /\ \A c \in Child : phase[c] # "ready" => InLine(c) /\ Prints(c, msg[c])
    /\ \A i \in DOMAIN inbox[TxServer] :
          LET t == inbox[TxServer][i] IN msg[t].code = "WRITE" => t \in Child

(* The message that is being printed is that of the child it will answer.  *)
Transmits ==
    /\ txtid = NoTid => rest = <<>> /\ txpc \in {"receive", "flush"}
    /\ txpc = "receive" => txtid = NoTid
    /\ txpc = "direct" => txq = <<>>
    /\ txtid # NoTid =>
          /\ tids[TxServer][txtid] \in Child
          /\ \A i \in DOMAIN rest : rest[i].of = msg[tids[TxServer][txtid]].id

(* What is printed is of lines that have begun, and the line that has not  *)
(* ended is the last.                                                      *)
BegunAt(c, r) == step[c] >= 0 /\ (r < RoundOf(c) \/ (r = RoundOf(c) /\ InLine(c)))
Begun(line) == BegunAt(line[1], line[2])
BegunOnly == \A i \in DOMAIN Printed : Begun(Printed[i].of.line)
OpenAtEnd ==
    \A c \in Child : InLine(c) =>
        \A i \in 1 .. (Len(Printed) - 1) :
            Printed[i].of.line = Line(c) => Printed[i + 1].of.line = Line(c)

TestInv ==
    /\ MsgInv /\ LockInv
    /\ ConsoleKeeps /\ InputContiguous
    /\ LockAgrees /\ ChildrenPrint /\ Transmits
    /\ BegunOnly /\ OpenAtEnd /\ LinesWhole

-----------------------------------------------------------------------------
(* The calls of a child.                                                   *)

(* A child goes from call to call, and from its last one to the next line. *)
LEMMA NextCall ==
    ASSUME NEW n \in Nat
    PROVE  LET k == Chunks + 3 IN
           /\ n % k \in 0 .. (k - 1) /\ n \div k \in Nat
           /\ (n + 1) % k = IF n % k = k - 1 THEN 0 ELSE (n % k) + 1
           /\ (n + 1) \div k = IF n % k = k - 1 THEN (n \div k) + 1 ELSE n \div k
<1> DEFINE k == Chunks + 3
<1>1. k \in Nat \ {0}
  BY LockTestAssumption
<1> HIDE DEF k
<1>2. /\ n % k \in 0 .. (k - 1) /\ n \div k \in Nat
      /\ (n + 1) % k = IF n % k = k - 1 THEN 0 ELSE (n % k) + 1
      /\ (n + 1) \div k = IF n % k = k - 1 THEN (n \div k) + 1 ELSE n \div k
  BY <1>1
<1> QED
  BY <1>2 DEF k

LEMMA CallTypes ==
    ASSUME ConsoleKeeps, NEW c \in Child, step[c] >= 0
    PROVE  /\ step[c] \in Nat /\ Chunks \in Nat \ {0}
           /\ CallOf(c) \in 0 .. (Chunks + 2) /\ RoundOf(c) \in Nat
<1>1. step[c] \in Nat /\ Chunks \in Nat \ {0}
  BY LockTestAssumption DEF ConsoleKeeps
<1>2. /\ step[c] % (Chunks + 3) \in 0 .. ((Chunks + 3) - 1)
      /\ step[c] \div (Chunks + 3) \in Nat
  BY <1>1, NextCall
<1>3. (Chunks + 3) - 1 = Chunks + 2
  BY <1>1
<1> QED
  BY <1>1, <1>2, <1>3 DEF CallOf, RoundOf

LEMMA CallMade ==
    ASSUME ConsoleKeeps, NEW c \in Child, step[c] >= 0, step[c] < LastStep,
           step' = [step EXCEPT ![c] = @ + 1]
    PROVE  /\ step' \in [Child -> -1 .. LastStep]
           /\ step'[c] = step[c] + 1 /\ \A d \in Child \ {c} : step'[d] = step[d]
           /\ CallOf(c)' = IF CallOf(c) = Chunks + 2 THEN 0 ELSE CallOf(c) + 1
           /\ RoundOf(c)' = IF CallOf(c) = Chunks + 2 THEN RoundOf(c) + 1
                                                      ELSE RoundOf(c)
<1>1. step[c] \in Nat /\ Chunks \in Nat \ {0}
  BY CallTypes
<1>2. step \in [Child -> -1 .. LastStep]
  BY DEF ConsoleKeeps
<1>3. LastStep \in Nat
  <2>1. Rounds \in Nat /\ Chunks + 3 \in Nat
    BY LockTestAssumption
  <2> QED
    BY <2>1 DEF LastStep
<1>4. step'[c] = step[c] + 1 /\ \A d \in Child \ {c} : step'[d] = step[d]
  BY <1>2
<1>5. step' \in [Child -> -1 .. LastStep]
  BY <1>1, <1>2, <1>3
<1> DEFINE n == step[c]
<1>6. /\ (n + 1) % (Chunks + 3) = IF n % (Chunks + 3) = Chunks + 2 THEN 0 ELSE (n % (Chunks + 3)) + 1
      /\ (n + 1) \div (Chunks + 3) = IF n % (Chunks + 3) = Chunks + 2 THEN (n \div (Chunks + 3)) + 1
                                     ELSE n \div (Chunks + 3)
  <2>1. (Chunks + 3) - 1 = Chunks + 2
    BY <1>1
  <2> QED
    BY <1>1, <2>1, NextCall
<1> QED
  BY <1>4, <1>5, <1>6 DEF CallOf, RoundOf

(* What depends on the steps of a child alone does not change without it.  *)
LEMMA SameCalls ==
    ASSUME NEW c, step'[c] = step[c]
    PROVE  /\ CallOf(c)' = CallOf(c) /\ RoundOf(c)' = RoundOf(c)
           /\ Line(c)' = Line(c) /\ InLine(c)' = InLine(c)
  BY DEF CallOf, RoundOf, Line, InLine

-----------------------------------------------------------------------------
(* The lock.  What becomes of a client that makes no call itself.          *)

Moves(st, new) ==
    /\ st = "holding" => new = "holding"
    /\ st \in {"locking", "holding"} => new \in {"locking", "holding"}
    /\ st \in {"out", "unlocking"} => new \in {"out", "unlocking"}

LEMMA LockMoves ==
    ASSUME LockInv, NEW d \in Client, NEW l \in Lock, LockChannel(d, l)
    PROVE  /\ lockstatus'[l][d] \in {"locking", "holding"}
           /\ \A c \in Client \ {d} : Moves(lockstatus[l][c], lockstatus'[l][c])
<1> DEFINE st == lockstatus[l]  rs == receivers[l]
<1>1. OneLock(st, senders[l], rs, polled[l]) /\ lockstatus \in [Lock -> [Client -> Status]]
  BY EveryLock DEF LockInv, Typed
<1>2. CASE rs # <<>>
  <2>1. Head(rs) \in Client /\ st[Head(rs)] = "unlocking"
    BY <1>1, <1>2, TailOfQueue DEF OneLock
  <2>2. lockstatus' = [lockstatus EXCEPT ![l][Head(rs)] = "out", ![l][d] = "holding"]
    BY <1>2 DEF LockChannel
  <2>3. \A c \in Client : lockstatus'[l][c] =
            IF c = d THEN "holding" ELSE IF c = Head(rs) THEN "out" ELSE st[c]
    BY <1>1, <2>1, <2>2
  <2> QED
    BY <2>1, <2>3 DEF Moves
<1>3. CASE rs = <<>>
  <2>1. lockstatus' = [lockstatus EXCEPT ![l][d] = "locking"]
    BY <1>3 DEF LockChannel
  <2> QED
    BY <1>1, <2>1 DEF Moves
<1> QED
  BY <1>2, <1>3

LEMMA UnlockMoves ==
    ASSUME LockInv, NEW d \in Client, NEW l \in Lock, UnlockChannel(d, l)
    PROVE  /\ lockstatus'[l][d] \in {"out", "unlocking"}
           /\ \A c \in Client \ {d} : Moves(lockstatus[l][c], lockstatus'[l][c])
<1> DEFINE st == lockstatus[l]  ss == senders[l]
<1>1. OneLock(st, ss, receivers[l], polled[l]) /\ lockstatus \in [Lock -> [Client -> Status]]
  BY EveryLock DEF LockInv, Typed
<1>2. CASE ss # <<>>
  <2>1. Head(ss) \in Client /\ st[Head(ss)] = "locking"
    BY <1>1, <1>2, TailOfQueue DEF OneLock
  <2>2. lockstatus' = [lockstatus EXCEPT ![l][Head(ss)] = "holding", ![l][d] = "out"]
    BY <1>2 DEF UnlockChannel
  <2>3. \A c \in Client : lockstatus'[l][c] =
            IF c = d THEN "out" ELSE IF c = Head(ss) THEN "holding" ELSE st[c]
    BY <1>1, <2>1, <2>2
  <2> QED
    BY <2>1, <2>3 DEF Moves
<1>3. CASE ss = <<>>
  <2>1. lockstatus' = [lockstatus EXCEPT ![l][d] = "unlocking"]
    BY <1>3 DEF UnlockChannel
  <2> QED
    BY <1>1, <2>1 DEF Moves
<1> QED
  BY <1>2, <1>3

LEMMA ServerMoves ==
    ASSUME LockInv, NEW l \in Lock, ServerStep
    PROVE  \A c \in Client : Moves(lockstatus[l][c], lockstatus'[l][c])
<1> DEFINE st == lockstatus[l]
<1>1. /\ OneLock(st, senders[l], receivers[l], polled[l])
      /\ lockstatus \in [Lock -> [Client -> Status]]
  BY EveryLock DEF LockInv, Typed
<1>2. CASE lockstatus' = lockstatus
  BY <1>2 DEF Moves
<1>3. ASSUME NEW k \in Lock, ServeLock(k), lockstatus' # lockstatus
      PROVE  \A c \in Client : Moves(lockstatus[l][c], lockstatus'[l][c])
  <2>1. senders[k] # <<>> /\ lockstatus' = [lockstatus EXCEPT ![k][Head(senders[k])] = "holding"]
    BY <1>3 DEF ServeLock
  <2>2. CASE k # l
    BY <1>1, <2>1, <2>2 DEF Moves
  <2>3. CASE k = l
    <3>1. Head(senders[l]) \in Client /\ st[Head(senders[l])] = "locking"
      BY <1>1, <2>1, <2>3, TailOfQueue DEF OneLock
    <3>2. \A c \in Client : lockstatus'[l][c] = IF c = Head(senders[l]) THEN "holding" ELSE st[c]
      BY <1>1, <2>1, <2>3, <3>1
    <3> QED
      BY <3>1, <3>2 DEF Moves
  <2> QED
    BY <2>2, <2>3
<1>4. ASSUME NEW k \in Lock, ServeUnlock(k), lockstatus' # lockstatus
      PROVE  \A c \in Client : Moves(lockstatus[l][c], lockstatus'[l][c])
  <2>1. receivers[k] # <<>> /\ lockstatus' = [lockstatus EXCEPT ![k][Head(receivers[k])] = "out"]
    BY <1>4 DEF ServeUnlock
  <2>2. CASE k # l
    BY <1>1, <2>1, <2>2 DEF Moves
  <2>3. CASE k = l
    <3>1. Head(receivers[l]) \in Client /\ st[Head(receivers[l])] = "unlocking"
      BY <1>1, <2>1, <2>3, TailOfQueue DEF OneLock
    <3>2. \A c \in Client : lockstatus'[l][c] = IF c = Head(receivers[l]) THEN "out" ELSE st[c]
      BY <1>1, <2>1, <2>3, <3>1
    <3> QED
      BY <3>1, <3>2 DEF Moves
  <2> QED
    BY <2>2, <2>3
<1>5. PollWait \/ ServeRegister \/ ServeUnregister => lockstatus' = lockstatus
  BY DEF PollWait, ServeRegister, ServeUnregister
<1> QED
  BY <1>2, <1>3, <1>4, <1>5 DEF ServerStep

-----------------------------------------------------------------------------
(* Lines.                                                                  *)

LEMMA TestFacts ==
    /\ Child \subseteq Client /\ Main \in Client /\ TheLock \in Lock
    /\ Child \subseteq Task /\ Reader \subseteq Task /\ Notifier \subseteq Task
    /\ Child \cap Reader = {} /\ Child \cap Notifier = {}
    /\ TxServer \in Server /\ RxServer \in Server /\ TxServer # RxServer
    /\ TxServer \in ConsoleServer /\ RxServer \in ConsoleServer
    /\ FIFO_MAX \in Nat \ {0} /\ TX_BUF_MAX \in Nat \ {0}
    /\ RX_BUF_MAX \in Nat \ {0} /\ RX_TIDS_MAX \in Nat \ {0}
    /\ Fd \subseteq Nat /\ NoTid \notin Fd /\ NoTid \notin Nat
  BY LockTestAssumption, ConsoleAssumption, FdAssumption
     DEF Notifier, ConsoleServer, NoTid

(* Whoever prints holds the lock, so that there is one at most. *)
LEMMA OnePrints ==
    ASSUME LockInv, LockAgrees, NEW c \in Child, NEW d \in Child, InLine(c), InLine(d)
    PROVE  c = d
<1>1. lockstatus[TheLock][c] = "holding" /\ lockstatus[TheLock][d] = "holding"
  BY DEF LockAgrees
<1>2. c \in Holders(TheLock) /\ d \in Holders(TheLock)
  BY <1>1, TestFacts DEF Holders
<1> QED
  BY <1>2, TestFacts DEF LockInv, MutualExclusion

LinesKept == BegunOnly /\ OpenAtEnd /\ LinesWhole

LEMMA PrintedIs ==
    ASSUME TxKeeps
    PROVE  /\ Printed \in Seq(Chars) /\ Len(Printed) \in Nat
           /\ DOMAIN Printed = 1 .. Len(Printed)
           /\ \A i \in 1 .. Len(Printed) :
                 /\ Printed[i] \in Chars /\ Printed[i].of.line \in Child \X Nat
                 /\ Printed[i].of.line[1] \in Child /\ Printed[i].of.line[2] \in Nat
<1>1. Printed \in Seq(Chars)
  BY DEF TxKeeps, Printed
<1>2. \A x \in Chars : x.of.line \in Child \X Nat
  BY DEF Chars
<1>3. \A i \in 1 .. Len(Printed) : Printed[i] \in Chars
  BY <1>1
<1>4. /\ Len(Printed) \in Nat /\ DOMAIN Printed = 1 .. Len(Printed)
  BY <1>1
<1>5. \A i \in 1 .. Len(Printed) : Printed[i].of.line \in Child \X Nat
  BY <1>2, <1>3
<1>6. \A p \in Child \X Nat : p[1] \in Child /\ p[2] \in Nat
  OBVIOUS
<1> QED
  BY <1>1, <1>3, <1>4, <1>5, <1>6

(* Nothing is printed and no child makes a call. *)
LEMMA LinesSame ==
    ASSUME LinesKept, step' = step, Printed' = Printed
    PROVE  LinesKept'
  BY DEF LinesKept, BegunOnly, OpenAtEnd, LinesWhole, Begun, BegunAt, InLine, Line, CallOf, RoundOf

(* One more character is printed, of the line that the lock belongs to. *)
LEMMA LinesGrow ==
    ASSUME TestInv, NEW c \in Child, InLine(c), NEW x \in Chars, x.of.line = Line(c),
           Printed' = Append(Printed, x), step' = step
    PROVE  LinesKept'
<1> DEFINE n == Len(Printed)
<1>1. /\ Printed \in Seq(Chars) /\ n \in Nat /\ DOMAIN Printed = 1 .. n
      /\ \A i \in 1 .. n : Printed[i].of.line[1] \in Child
  BY PrintedIs DEF TestInv, ConsoleKeeps
<1>2. /\ DOMAIN Printed' = 1 .. (n + 1) /\ Len(Printed') = n + 1
      /\ Printed'[n + 1] = x /\ \A i \in 1 .. n : Printed'[i] = Printed[i]
  BY <1>1
<1> HIDE DEF n
<1>3. \A line : Begun(line)' = Begun(line)
  BY DEF Begun, BegunAt, InLine, RoundOf, CallOf
<1>4. \A d : InLine(d)' = InLine(d) /\ Line(d)' = Line(d)
  BY DEF InLine, CallOf, Line, RoundOf
<1>5. BegunOnly'
  <2>1. Begun(Line(c))
    <3>1. Line(c)[1] = c /\ Line(c)[2] = RoundOf(c)
      BY DEF Line
    <3>2. step[c] >= 0
      BY DEF InLine
    <3> QED
      BY <3>1, <3>2 DEF Begun, BegunAt
  <2>2. \A i \in 1 .. (n + 1) : Begun(Printed'[i].of.line)
    BY <1>1, <1>2, <2>1 DEF TestInv, BegunOnly
  <2> QED
    BY <1>2, <1>3, <2>2 DEF BegunOnly
<1>6. OpenAtEnd'
  <2> SUFFICES ASSUME NEW d \in Child, InLine(d)', NEW i \in 1 .. (Len(Printed') - 1),
                      Printed'[i].of.line = Line(d)'
               PROVE  Printed'[i + 1].of.line = Line(d)'
    BY DEF OpenAtEnd
  <2>1. d = c /\ Line(d)' = Line(c)
    BY <1>4, OnePrints DEF TestInv
  <2>2. i \in 1 .. n
    BY <1>1, <1>2
  <2>3. CASE i = n
    BY <1>2, <2>1, <2>3
  <2>4. CASE i # n
    <3>1. i \in 1 .. (n - 1) /\ i + 1 \in 1 .. n
      BY <1>1, <2>2, <2>4
    <3>2. Printed[i + 1].of.line = Line(c)
      BY <1>2, <2>1, <2>2, <3>1 DEF TestInv, OpenAtEnd, n
    <3> QED
      BY <1>2, <2>1, <3>1, <3>2
  <2> QED
    BY <2>3, <2>4
<1>7. LinesWhole'
  <2> SUFFICES ASSUME NEW i \in 1 .. (Len(Printed') - 1),
                      NEW k \in (i + 1) .. Len(Printed'),
                      Printed'[k].of.line = Printed'[i].of.line
               PROVE  Printed'[i + 1].of.line = Printed'[i].of.line
    BY DEF LinesWhole
  <2>1. i \in 1 .. n /\ i + 1 \in 1 .. (n + 1) /\ k \in (i + 1) .. (n + 1)
    BY <1>1, <1>2
  <2>2. CASE i = n
    <3>1. k = i + 1
      BY <1>1, <2>1, <2>2
    <3> QED
      BY <3>1
  <2>3. CASE i # n
    <3>1. i \in 1 .. (n - 1) /\ i + 1 \in 1 .. n
      BY <1>1, <2>1, <2>3
    <3>2. CASE k = n + 1
      <4>1. Printed[i].of.line = Line(c)
        BY <1>2, <2>1, <3>2
      <4>2. Printed[i + 1].of.line = Line(c)
        BY <3>1, <4>1 DEF TestInv, OpenAtEnd, n
      <4> QED
        BY <1>2, <2>1, <3>1, <4>1, <4>2
    <3>3. CASE k # n + 1
      <4>1. k \in (i + 1) .. n /\ k \in 1 .. n
        BY <1>1, <2>1, <3>3
      <4>2. Printed[k].of.line = Printed[i].of.line
        BY <1>2, <2>1, <4>1
      <4>3. Printed[i + 1].of.line = Printed[i].of.line
        BY <3>1, <4>1, <4>2 DEF TestInv, LinesWhole, n
      <4> QED
        BY <1>2, <2>1, <3>1, <4>3
    <3> QED
      BY <3>2, <3>3
  <2> QED
    BY <2>2, <2>3
<1> QED
  BY <1>5, <1>6, <1>7 DEF LinesKept

-----------------------------------------------------------------------------
(* Steps that change only the lock, and where the children are.            *)

(* A child does nothing, begins, locks or unlocks. *)
Idles(d) ==
    step'[d] = step[d] /\ Moves(lockstatus[TheLock][d], lockstatus'[TheLock][d])
Begins(d) ==
    /\ step[d] < 0 /\ step'[d] = 0 /\ CallOf(d)' = 0
    /\ Moves(lockstatus[TheLock][d], lockstatus'[TheLock][d])
Locks(d) ==
    /\ step[d] >= 0 /\ step'[d] >= 0 /\ phase[d] = "ready"
    /\ CallOf(d) = 0 /\ CallOf(d)' = 1 /\ RoundOf(d)' = RoundOf(d)
    /\ lockstatus'[TheLock][d] \in {"locking", "holding"}
Unlocks(d) ==
    /\ step[d] >= 0 /\ step'[d] >= 0 /\ phase[d] = "ready"
    /\ CallOf(d) = Chunks + 2 /\ CallOf(d)' = 0 /\ RoundOf(d)' = RoundOf(d) + 1
    /\ lockstatus'[TheLock][d] \in {"out", "unlocking"}

LEMMA LockStep ==
    ASSUME TestInv, [Next]_lockVars, UNCHANGED ioVars,
           step' \in [Child -> -1 .. LastStep],
           \A d \in Child : Idles(d) \/ Begins(d) \/ Locks(d) \/ Unlocks(d)
    PROVE  TestInv'
<1> USE DEF TestInv
<1>1. UNCHANGED msgVars /\ UNCHANGED consoleVars
  BY DEF ioVars
<1>2. UNCHANGED <<phase, msg, status, inbox, tids, crashed>>
  BY <1>1 DEF msgVars
<1>3. /\ UNCHANGED <<wire, txfifo, txq, txpc, txtid, rest>>
      /\ UNCHANGED <<rxfifo, rxq, tidq, pressed>>
      /\ UNCHANGED <<enabled, readback, waiting>>
  BY <1>1 DEF consoleVars, txVars, rxVars, intVars
<1>4. MsgInv'
  BY <1>2, MsgUnchanged DEF MsgInv, MsgTypeOK
<1>5. LockInv'
  BY LockInvNext DEF lockVars
<1>6. ConsoleKeeps' /\ InputContiguous'
  BY <1>3 DEF ConsoleKeeps, TxKeeps, RxKeeps, IntKeeps, InputContiguous
<1>7. Chunks \in Nat \ {0} /\ \A d \in Child : step[d] >= 0 => CallOf(d) \in Nat /\ RoundOf(d) \in Nat
  BY CallTypes, LockTestAssumption
<1>8. \A d \in Child : InLine(d)' => Idles(d) /\ InLine(d) /\ Line(d)' = Line(d)
  BY <1>7, SameCalls DEF InLine, Idles, Begins, Locks, Unlocks
<1>9. \A d \in Child : InLine(d) /\ phase[d] # "ready" => Idles(d)
  <2>1. \A d \in Child : ~(step[d] < 0 /\ step[d] >= 0)
    BY DEF ConsoleKeeps
  <2> QED
    BY <2>1 DEF InLine, Begins, Locks, Unlocks
<1>10. LockAgrees'
  <2> SUFFICES ASSUME NEW d \in Child
               PROVE  /\ step'[d] < 0 \/ CallOf(d)' = 0 =>
                            lockstatus'[TheLock][d] \in {"out", "unlocking"}
                      /\ step'[d] >= 0 /\ CallOf(d)' = 1 =>
                            lockstatus'[TheLock][d] \in {"locking", "holding"}
                      /\ InLine(d)' => lockstatus'[TheLock][d] = "holding"
    BY DEF LockAgrees
  <2>1. CASE Idles(d)
    BY <2>1, SameCalls DEF Idles, Moves, LockAgrees
  <2>2. CASE Begins(d)
    BY <1>8, <2>2 DEF Begins, Moves, LockAgrees, Idles
  <2>3. CASE Locks(d)
    BY <2>3 DEF Locks, InLine
  <2>4. CASE Unlocks(d)
    BY <2>4 DEF Unlocks, InLine
  <2> QED
    BY <2>1, <2>2, <2>3, <2>4
<1>11. ChildrenPrint'
  <2>1. ASSUME NEW c \in Child, phase'[c] # "ready"
        PROVE  InLine(c)' /\ Prints(c, msg[c])'
    <3>1. InLine(c) /\ Prints(c, msg[c]) /\ Idles(c)
      BY <1>2, <1>9, <2>1 DEF ChildrenPrint
    <3> QED
      BY <1>2, <3>1, SameCalls DEF Idles, Prints
  <2> QED
    BY <1>2, <2>1 DEF ChildrenPrint
<1>12. Transmits'
  BY <1>2, <1>3 DEF Transmits
<1>13. Printed' = Printed
  BY <1>3 DEF Printed
<1>14. BegunOnly'
  <2>1. ASSUME NEW d \in Child, NEW r \in Nat, BegunAt(d, r)
        PROVE  BegunAt(d, r)'
    <3>1. step[d] >= 0 /\ ~(step[d] < 0) /\ RoundOf(d) \in Nat
      BY <1>7, <2>1 DEF BegunAt, ConsoleKeeps
    <3>2. CASE Idles(d)
      BY <2>1, <3>2, SameCalls DEF Idles, BegunAt
    <3>3. CASE Locks(d)
      BY <1>7, <2>1, <3>1, <3>3 DEF Locks, BegunAt, InLine
    <3>4. CASE Unlocks(d)
      <4>1. r <= RoundOf(d)
        BY <2>1, <3>1 DEF BegunAt
      <4>2. r < RoundOf(d)'
        BY <3>1, <3>4, <4>1 DEF Unlocks
      <4> QED
        BY <3>4, <4>2 DEF BegunAt, Unlocks
    <3> QED
      BY <3>1, <3>2, <3>3, <3>4 DEF Begins
  <2>2. \A i \in DOMAIN Printed : /\ Printed[i].of.line[1] \in Child
                                  /\ Printed[i].of.line[2] \in Nat
    BY PrintedIs DEF ConsoleKeeps
  <2> QED
    BY <1>13, <2>1, <2>2 DEF BegunOnly, Begun
<1>15. OpenAtEnd'
  BY <1>8, <1>13 DEF OpenAtEnd
<1>16. LinesWhole'
  BY <1>13 DEF LinesWhole
<1> QED
  BY <1>4, <1>5, <1>6, <1>10, <1>11, <1>12, <1>14, <1>15, <1>16

(* What main does. *)
LEMMA MainKeeps ==
    ASSUME TestInv, MainStep
    PROVE  TestInv'
<1>1. UNCHANGED ioVars /\ LockInv /\ step \in [Child -> -1 .. LastStep]
  BY DEF MainStep, Register, TakeLock, Unlock, Join, Unregister, Spawn, MainAt,
         TestInv, ConsoleKeeps
<1>2. Main \in Client /\ TheLock \in Lock /\ Child \subseteq Client /\ Main \notin Child
  BY TestFacts, LockTestAssumption
<1>3. CASE Register \/ Unregister \/ TakeLock \/ Unlock
  <2>1. [Next]_lockVars /\ step' = step
    BY <1>2, <1>3 DEF Next, Register, Unregister, TakeLock, Unlock
  <2>2. \A d \in Child : Moves(lockstatus[TheLock][d], lockstatus'[TheLock][d])
    <3>1. CASE Register \/ Unregister
      BY <3>1 DEF Register, Unregister, LockchanRegister, LockchanUnregister, Moves
    <3>2. CASE TakeLock
      BY <1>1, <1>2, <3>2, LockMoves DEF TakeLock
    <3>3. CASE Unlock
      BY <1>1, <1>2, <3>3, UnlockMoves DEF Unlock
    <3> QED
      BY <1>3, <3>1, <3>2, <3>3
  <2>3. \A d \in Child : Idles(d)
    BY <2>1, <2>2 DEF Idles
  <2> QED
    BY <1>1, <2>1, <2>3, LockStep
<1>4. CASE Join
  <2>1. UNCHANGED lockVars /\ step' = step
    BY <1>4 DEF Join
  <2>2. \A d \in Child : Idles(d)
    BY <2>1 DEF Idles, Moves, lockVars, vars
  <2> QED
    BY <1>1, <2>1, <2>2, LockStep
<1>5. ASSUME NEW c \in Child, Spawn(c) PROVE TestInv'
  <2>1. /\ UNCHANGED lockVars /\ step[c] = -1 /\ step' = [step EXCEPT ![c] = 0]
    BY <1>5 DEF Spawn
  <2>2. \A d \in Child : Moves(lockstatus[TheLock][d], lockstatus'[TheLock][d])
    BY <2>1 DEF Moves, lockVars, vars
  <2>3. step'[c] = 0 /\ \A d \in Child \ {c} : step'[d] = step[d]
    BY <1>1, <2>1
  <2>4. CallOf(c)' = 0
    <3>1. Chunks + 3 \in Nat \ {0}
      BY LockTestAssumption
    <3>2. 0 % (Chunks + 3) = 0
      BY <3>1
    <3> QED
      BY <2>3, <3>2 DEF CallOf
  <2>5. \A d \in Child : Idles(d) \/ Begins(d)
    BY <2>1, <2>2, <2>3, <2>4 DEF Idles, Begins
  <2>6. step' \in [Child -> -1 .. LastStep]
    <3>1. Rounds \in Nat /\ Chunks + 3 \in Nat
      BY LockTestAssumption
    <3>2. LastStep \in Nat
      BY <3>1 DEF LastStep
    <3> QED
      BY <1>1, <2>1, <3>2
  <2> QED
    BY <1>1, <2>1, <2>5, <2>6, LockStep
<1> QED
  BY <1>3, <1>4, <1>5 DEF MainStep

(* The lock server. *)
LEMMA LockServingKeeps ==
    ASSUME TestInv, LockServing
    PROVE  TestInv'
<1>1. /\ UNCHANGED ioVars /\ LockInv /\ step \in [Child -> -1 .. LastStep]
      /\ ServerStep /\ step' = step
  BY DEF LockServing, TestInv, ConsoleKeeps
<1>2. \A d \in Child : Idles(d)
  BY <1>1, ServerMoves, TestFacts DEF Idles
<1> QED
  BY <1>1, <1>2, LockStep DEF Next

(* A child that locks or unlocks. *)
LEMMA ChildLocksKeeps ==
    ASSUME TestInv, NEW c \in Child, ChildLocks(c) \/ ChildUnlocks(c)
    PROVE  TestInv'
<1>1. /\ UNCHANGED ioVars /\ LockInv /\ ConsoleKeeps
      /\ phase[c] = "ready" /\ step[c] \in 0 .. (LastStep - 1)
      /\ step' = [step EXCEPT ![c] = @ + 1]
  BY DEF ChildLocks, ChildUnlocks, ChildCalls, TestInv
<1>2. c \in Client /\ TheLock \in Lock /\ Child \subseteq Client
  BY TestFacts
<1>3. step[c] \in Nat /\ step[c] >= 0 /\ step[c] < LastStep /\ Chunks \in Nat \ {0}
  <2>1. Rounds \in Nat /\ Chunks + 3 \in Nat
    BY LockTestAssumption
  <2>2. LastStep \in Nat
    BY <2>1 DEF LastStep
  <2> QED
    BY <1>1, <2>2, LockTestAssumption
<1>4. /\ step' \in [Child -> -1 .. LastStep]
      /\ step'[c] = step[c] + 1 /\ \A d \in Child \ {c} : step'[d] = step[d]
      /\ CallOf(c)' = IF CallOf(c) = Chunks + 2 THEN 0 ELSE CallOf(c) + 1
      /\ RoundOf(c)' = IF CallOf(c) = Chunks + 2 THEN RoundOf(c) + 1
                                                 ELSE RoundOf(c)
  BY <1>1, <1>3, CallMade
<1>5. CASE ChildLocks(c)
  <2>1. CallOf(c) = 0 /\ LockChannel(c, TheLock)
    BY <1>5 DEF ChildLocks
  <2>2. Locks(c) /\ \A d \in Child \ {c} : Idles(d)
    BY <1>1, <1>2, <1>3, <1>4, <2>1, LockMoves DEF Locks, Idles
  <2> QED
    BY <1>1, <1>2, <1>4, <2>1, <2>2, LockStep DEF Next
<1>6. CASE ChildUnlocks(c)
  <2>1. CallOf(c) = Chunks + 2 /\ UnlockChannel(c, TheLock)
    BY <1>6 DEF ChildUnlocks
  <2>2. Unlocks(c) /\ \A d \in Child \ {c} : Idles(d)
    BY <1>1, <1>2, <1>3, <1>4, <2>1, UnlockMoves DEF Unlocks, Idles
  <2> QED
    BY <1>1, <1>2, <1>4, <2>1, <2>2, LockStep DEF Next
<1> QED
  BY <1>5, <1>6

(* A child that prints. *)
LEMMA ChildPrintsKeeps ==
    ASSUME TestInv, NEW c \in Child, ChildPrints(c)
    PROVE  TestInv'
<1> USE DEF TestInv
<1> DEFINE m == [code |-> "WRITE", text |-> IF CallOf(c) > Chunks THEN <<"\n">> ELSE <<c>>,
                 id |-> [line |-> Line(c), call |-> CallOf(c)]]
<1>1. /\ MsgSend(c, TxServer, m) /\ UNCHANGED consoleVars /\ UNCHANGED lockVars
      /\ Running(c) /\ phase[c] = "ready" /\ step[c] \in 0 .. (LastStep - 1)
      /\ step' = [step EXCEPT ![c] = @ + 1] /\ CallOf(c) \in 1 .. (Chunks + 1)
  BY DEF ChildPrints, ChildCalls, Write
<1>2. /\ UNCHANGED <<wire, txfifo, txq, txpc, txtid, rest>>
      /\ UNCHANGED <<rxfifo, rxq, tidq, pressed>>
      /\ UNCHANGED <<enabled, readback, waiting>>
  BY <1>1 DEF consoleVars, txVars, rxVars, intVars
<1>3. c \in Client /\ c \in Task /\ TheLock \in Lock /\ TxServer \in Server
  BY TestFacts
<1>4. step[c] \in Nat /\ step[c] >= 0 /\ step[c] < LastStep /\ Chunks \in Nat \ {0}
  <2>1. Rounds \in Nat /\ Chunks + 3 \in Nat
    BY LockTestAssumption
  <2>2. LastStep \in Nat
    BY <2>1 DEF LastStep
  <2> QED
    BY <1>1, <2>2, LockTestAssumption
<1>5. /\ step' \in [Child -> -1 .. LastStep]
      /\ step'[c] = step[c] + 1 /\ \A d \in Child \ {c} : step'[d] = step[d]
      /\ CallOf(c)' = CallOf(c) + 1 /\ RoundOf(c)' = RoundOf(c) /\ RoundOf(c) \in Nat
  <2>1. CallOf(c) # Chunks + 2
    BY <1>1, <1>4
  <2> QED
    BY <1>1, <1>4, <2>1, CallMade, CallTypes
<1>6. lockstatus[TheLock][c] = "holding"
  <2>1. lockstatus[TheLock][c] \in {"out", "holding"}
    BY <1>1, <1>3 DEF Running
  <2>2. CASE CallOf(c) = 1
    BY <1>4, <2>1, <2>2 DEF LockAgrees
  <2>3. CASE CallOf(c) # 1
    BY <1>1, <1>4, <2>3 DEF LockAgrees, InLine
  <2> QED
    BY <2>2, <2>3
<1>7. InLine(c)' /\ Line(c)' = Line(c)
  <2>1. CallOf(c)' \in 2 .. (Chunks + 2) /\ step'[c] >= 0
    BY <1>1, <1>4, <1>5
  <2> QED
    BY <1>5, <2>1 DEF InLine, Line
<1>8. \A d \in Child \ {c} : InLine(d)' = InLine(d) /\ Line(d)' = Line(d)
                             /\ CallOf(d)' = CallOf(d) /\ RoundOf(d)' = RoundOf(d)
  BY <1>5, SameCalls
<1>9. /\ MsgInv' /\ msg'[c] = m /\ phase[c] = "ready" /\ tids' = tids
      /\ \A u \in Task \ {c} : phase'[u] = phase[u] /\ msg'[u] = msg[u]
      /\ \A i \in DOMAIN inbox'[TxServer] :
            \/ inbox'[TxServer][i] = c
            \/ /\ i \in DOMAIN inbox[TxServer]
               /\ inbox'[TxServer][i] = inbox[TxServer][i]
               /\ inbox[TxServer][i] \in Task \ {c}
  BY <1>1, <1>3, SendFrame
<1>10. Prints(c, msg[c])'
  <2>1. m.text \in Seq(Child \cup {"\n"})
    <3>1. <<"\n">> \in Seq(Child \cup {"\n"}) /\ <<c>> \in Seq(Child \cup {"\n"})
      OBVIOUS
    <3> QED
      BY <3>1
  <2>2. m.code = "WRITE" /\ m.id \in [line : {Line(c)'}, call : Nat]
    BY <1>1, <1>7
  <2> HIDE DEF m
  <2> QED
    BY <1>9, <2>1, <2>2 DEF Prints
<1> HIDE DEF m
<1>11. LockInv' /\ ConsoleKeeps' /\ InputContiguous'
  <2>1. LockInv'
    BY <1>1, LockInvNext DEF lockVars
  <2>2. TxKeeps' /\ RxKeeps' /\ IntKeeps' /\ InputContiguous'
    BY <1>2 DEF ConsoleKeeps, TxKeeps, RxKeeps, IntKeeps, InputContiguous
  <2> QED
    BY <1>5, <2>1, <2>2 DEF ConsoleKeeps
<1>12. lockstatus' = lockstatus
  BY <1>1 DEF lockVars, vars
<1>13. LockAgrees'
  <2>1. ASSUME NEW d \in Child
        PROVE  /\ step'[d] < 0 \/ CallOf(d)' = 0 =>
                     lockstatus'[TheLock][d] \in {"out", "unlocking"}
               /\ step'[d] >= 0 /\ CallOf(d)' = 1 =>
                     lockstatus'[TheLock][d] \in {"locking", "holding"}
               /\ InLine(d)' => lockstatus'[TheLock][d] = "holding"
    <3>1. CASE d = c
      <4>1. ~(step'[c] < 0) /\ CallOf(c)' # 0 /\ CallOf(c)' # 1
        BY <1>1, <1>4, <1>5
      <4> QED
        BY <1>6, <1>12, <3>1, <4>1
    <3>2. CASE d # c
      BY <1>5, <1>8, <1>12, <3>2 DEF LockAgrees
    <3> QED
      BY <3>1, <3>2
  <2> QED
    BY <2>1 DEF LockAgrees
<1>14. ChildrenPrint'
  <2>1. ASSUME NEW d \in Child, phase'[d] # "ready"
        PROVE  InLine(d)' /\ Prints(d, msg[d])'
    <3>1. CASE d = c
      BY <1>7, <1>10, <3>1
    <3>2. CASE d # c
      <4>1. d \in Task \ {c} /\ InLine(d) /\ Prints(d, msg[d])
        BY <1>9, <2>1, <3>2, TestFacts DEF ChildrenPrint
      <4> QED
        BY <1>8, <1>9, <3>2, <4>1 DEF Prints
    <3> QED
      BY <3>1, <3>2
  <2>2. \A i \in DOMAIN inbox'[TxServer] :
           LET t == inbox'[TxServer][i] IN msg'[t].code = "WRITE" => t \in Child
    BY <1>9 DEF ChildrenPrint
  <2> QED
    BY <2>1, <2>2 DEF ChildrenPrint
<1>15. Transmits'
  <2>1. CASE txtid = NoTid
    BY <1>2, <2>1 DEF Transmits
  <2>2. CASE txtid # NoTid
    <3>1. /\ tids[TxServer][txtid] \in Child /\ txtid \in Fd
      BY <2>2 DEF Transmits, ConsoleKeeps, TxKeeps
    <3>2. tids[TxServer][txtid] \in Task \ {c}
      BY <1>1, <1>3, <3>1, TestFacts DEF MsgInv, PhaseTells, Kept
    <3> QED
      BY <1>2, <1>9, <2>2, <3>1, <3>2 DEF Transmits
  <2> QED
    BY <2>1, <2>2
<1>16. Printed' = Printed
  BY <1>2 DEF Printed
<1>17. BegunOnly'
  <2>1. ASSUME NEW d \in Child, NEW r \in Nat, BegunAt(d, r)
        PROVE  BegunAt(d, r)'
    <3>1. CASE d # c
      BY <1>5, <1>8, <2>1, <3>1 DEF BegunAt
    <3>2. CASE d = c
      BY <1>4, <1>5, <1>7, <2>1, <3>2 DEF BegunAt, InLine
    <3> QED
      BY <3>1, <3>2
  <2>2. \A i \in DOMAIN Printed : /\ Printed[i].of.line[1] \in Child
                                  /\ Printed[i].of.line[2] \in Nat
    BY PrintedIs DEF ConsoleKeeps
  <2> QED
    BY <1>16, <2>1, <2>2 DEF BegunOnly, Begun
<1>18. OpenAtEnd'
  <2> SUFFICES ASSUME NEW d \in Child, InLine(d)', NEW i \in 1 .. (Len(Printed) - 1),
                      Printed[i].of.line = Line(d)'
               PROVE  Printed[i + 1].of.line = Line(d)'
    BY <1>16 DEF OpenAtEnd
  <2>1. CASE InLine(d)
    BY <1>7, <1>8, <2>1 DEF OpenAtEnd
  <2>2. CASE ~InLine(d)
    <3>1. d = c /\ Line(d)' = Line(c)
      BY <1>7, <1>8, <2>2
    <3>2. i \in DOMAIN Printed
      BY PrintedIs DEF ConsoleKeeps
    <3>3. BegunAt(c, RoundOf(c))
      BY <3>1, <3>2 DEF BegunOnly, Begun, Line
    <3> QED
      BY <1>5, <2>2, <3>1, <3>3 DEF BegunAt
  <2> QED
    BY <2>1, <2>2
<1>19. LinesWhole'
  BY <1>16 DEF LinesWhole
<1> QED
  BY <1>9, <1>11, <1>13, <1>14, <1>15, <1>17, <1>18, <1>19

-----------------------------------------------------------------------------
(* Steps of the console, which leave the lock and the children alone.      *)

LEMMA ConsoleStep ==
    ASSUME TestInv, UNCHANGED <<lockVars, step>>, MsgInv',
           TxKeeps', RxKeeps', IntKeeps', InputContiguous',
           ChildrenPrint', Transmits', LinesKept'
    PROVE  TestInv'
<1>1. LockInv'
  BY LockInvNext DEF TestInv, lockVars
<1>2. lockstatus' = lockstatus /\ step' = step
  BY DEF lockVars, vars
<1>3. LockAgrees'
  BY <1>2 DEF TestInv, LockAgrees, InLine, CallOf
<1>4. ConsoleKeeps'
  BY <1>2 DEF TestInv, ConsoleKeeps
<1> QED
  BY <1>1, <1>3, <1>4 DEF TestInv, LinesKept

LEMMA ChildrenSame ==
    ASSUME TestInv, UNCHANGED <<phase, msg, inbox, step>>
    PROVE  ChildrenPrint'
<1>1. \A c \in Child : phase'[c] # "ready" => InLine(c)' /\ Prints(c, msg[c])'
  BY SameCalls DEF TestInv, ChildrenPrint, Prints
<1> QED
  BY <1>1 DEF TestInv, ChildrenPrint

LEMMA TransmitsSame ==
    ASSUME TestInv, UNCHANGED <<msg, tids, txtid, txpc, txq, rest>>
    PROVE  Transmits'
  BY DEF TestInv, Transmits

LEMMA PrintedSame ==
    ASSUME TestInv, UNCHANGED <<wire, txfifo, txq, step>>
    PROVE  LinesKept'
<1>1. Printed' = Printed
  BY DEF Printed
<1> QED
  BY <1>1, LinesSame DEF TestInv, LinesKept

(* The child that is answered in the end is not the one that does a step,  *)
(* and its message stays what it is.                                       *)
LEMMA HolderStays ==
    ASSUME TestInv, UNCHANGED <<txtid, txpc, txq, rest>>,
           tids'[TxServer] = tids[TxServer],
           txtid \in Fd /\ tids[TxServer][txtid] \in Child =>
               msg'[tids[TxServer][txtid]] = msg[tids[TxServer][txtid]]
    PROVE  Transmits'
<1>1. txtid # NoTid => txtid \in Fd
  BY DEF TestInv, ConsoleKeeps, TxKeeps
<1> QED
  BY <1>1 DEF TestInv, Transmits

(* Tasks that are no children send what is not to be printed. *)
LEMMA SendKeepsChildren ==
    ASSUME TestInv, NEW t \in Task \ Child, NEW s \in Server, NEW m,
           MsgSend(t, s, m), m.code # "WRITE" \/ s # TxServer,
           UNCHANGED <<step, txtid, txpc, txq, rest>>
    PROVE  MsgInv' /\ ChildrenPrint' /\ Transmits'
<1>1. /\ MsgInv' /\ phase[t] = "ready" /\ msg'[t] = m /\ tids' = tids
      /\ \A u \in Task \ {t} : phase'[u] = phase[u] /\ msg'[u] = msg[u]
      /\ \A i \in DOMAIN inbox'[TxServer] :
            \/ TxServer = s /\ inbox'[TxServer][i] = t
            \/ /\ i \in DOMAIN inbox[TxServer]
               /\ inbox'[TxServer][i] = inbox[TxServer][i]
               /\ inbox[TxServer][i] \in Task \ {t}
  BY SendFrame, TestFacts DEF TestInv
<1>2. \A c \in Child : c \in Task \ {t}
  BY TestFacts
<1>3. ChildrenPrint'
  <2>1. \A c \in Child : phase'[c] # "ready" => InLine(c)' /\ Prints(c, msg[c])'
    BY <1>1, <1>2, SameCalls DEF TestInv, ChildrenPrint, Prints
  <2>2. \A i \in DOMAIN inbox'[TxServer] :
           LET u == inbox'[TxServer][i] IN msg'[u].code = "WRITE" => u \in Child
    BY <1>1 DEF TestInv, ChildrenPrint
  <2> QED
    BY <2>1, <2>2 DEF ChildrenPrint
<1>4. Transmits'
  BY <1>1, <1>2, HolderStays
<1> QED
  BY <1>1, <1>3, <1>4

(* A server receives, and answers whom it will. *)
LEMMA ServeKeepsChildren ==
    ASSUME TestInv, NEW s \in Server, Incoming(s), NEW replies,
           DOMAIN replies \subseteq Fd, \A f \in DOMAIN replies : replies[f] \in Int,
           Serve(s, replies), step' = step
    PROVE  MsgInv' /\ ChildrenPrint'
<1>1. /\ MsgInv' /\ Sender(s) \in Task /\ phase[Sender(s)] = "sending"
      /\ \A t \in Task :
            \/ phase'[t] = "ready" /\ msg'[t] = None
            \/ t = Sender(s) /\ msg'[t] = msg[t]
            \/ phase'[t] = phase[t] /\ msg'[t] = msg[t]
      /\ \A i \in DOMAIN inbox'[TxServer] :
            \E j \in DOMAIN inbox[TxServer] : inbox'[TxServer][i] = inbox[TxServer][j]
  BY ServeFrame, TestFacts DEF TestInv
<1>2. ASSUME NEW c \in Child, phase'[c] # "ready"
      PROVE  InLine(c)' /\ Prints(c, msg[c])'
  <2>1. phase[c] # "ready" /\ msg'[c] = msg[c]
    BY <1>1, <1>2, TestFacts
  <2> QED
    BY <2>1, SameCalls DEF TestInv, ChildrenPrint, Prints
<1>3. ASSUME NEW i \in DOMAIN inbox'[TxServer], msg'[inbox'[TxServer][i]].code = "WRITE"
      PROVE  inbox'[TxServer][i] \in Child
  <2>1. PICK j \in DOMAIN inbox[TxServer] : inbox'[TxServer][i] = inbox[TxServer][j]
    BY <1>1
  <2> DEFINE t == inbox[TxServer][j]
  <2>2. t \in Task
    <3>1. inbox[TxServer] \in Seq(Task)
      BY TestFacts DEF TestInv, MsgInv, MsgTypeOK
    <3> QED
      BY <2>1, <3>1
  <2>3. msg'[t] # None
    BY <1>3, <2>1 DEF None
  <2>4. msg'[t] = msg[t]
    BY <1>1, <2>2, <2>3
  <2> QED
    BY <1>3, <2>1, <2>4 DEF TestInv, ChildrenPrint
<1> QED
  BY <1>1, <1>2, <1>3 DEF ChildrenPrint

(* The one that receives characters does not answer who prints. *)
LEMMA RxServeKeepsChildren ==
    ASSUME TestInv, Incoming(RxServer), NEW replies,
           DOMAIN replies \subseteq Fd, \A f \in DOMAIN replies : replies[f] \in Int,
           Serve(RxServer, replies), UNCHANGED <<step, txVars>>
    PROVE  MsgInv' /\ ChildrenPrint' /\ Transmits' /\ TxKeeps' /\ LinesKept'
<1>1. MsgInv' /\ ChildrenPrint'
  BY ServeKeepsChildren, TestFacts
<1>2. /\ tids'[TxServer] = tids[TxServer]
      /\ \A fd \in Fd : tids'[TxServer][fd] # Nobody =>
            msg'[tids'[TxServer][fd]] = msg[tids'[TxServer][fd]]
  BY ServeFrame, TestFacts DEF TestInv
<1>3. UNCHANGED <<wire, txfifo, txq, txpc, txtid, rest>>
  BY DEF txVars
<1>4. Transmits'
  <2>1. \A c \in Child : c # Nobody
    BY TestFacts, NobodyAssumption
  <2> QED
    BY <1>2, <1>3, <2>1, HolderStays
<1>5. TxKeeps'
  BY <1>3 DEF TestInv, ConsoleKeeps, TxKeeps
<1> QED
  BY <1>1, <1>3, <1>4, <1>5, PrintedSame

-----------------------------------------------------------------------------
(* The UART, the notifiers and the tasks that read.                        *)

LEMMA MoveHead ==
    ASSUME NEW S, NEW a \in Seq(S), NEW b \in Seq(S), b # <<>>
    PROVE  /\ Append(a, Head(b)) \o Tail(b) = a \o b
           /\ Append(a, Head(b)) \in Seq(S) /\ Tail(b) \in Seq(S)
           /\ Len(Append(a, Head(b))) = Len(a) + 1 /\ Len(Tail(b)) = Len(b) - 1
<1>1. /\ Head(b) \in S /\ Head(b) = b[1] /\ Tail(b) \in Seq(S)
      /\ Len(Tail(b)) = Len(b) - 1 /\ Len(b) \in Nat \ {0} /\ Len(a) \in Nat
      /\ \A i \in 1 .. (Len(b) - 1) : Tail(b)[i] = b[i + 1]
  OBVIOUS
<1> DEFINE h == Head(b)  t == Tail(b)  p == Append(a, h)
<1>2. /\ p \in Seq(S) /\ Len(p) = Len(a) + 1 /\ p[Len(a) + 1] = b[1]
      /\ \A i \in 1 .. Len(a) : p[i] = a[i]
  BY <1>1
<1>3. t \in Seq(S) /\ Len(t) = Len(b) - 1 /\ \A i \in 1 .. (Len(b) - 1) : t[i] = b[i + 1]
  BY <1>1
<1> HIDE DEF h, t, p
<1>4. p \o t \in Seq(S) /\ a \o b \in Seq(S) /\ Len(p \o t) = Len(a \o b)
  <2>1. /\ p \o t \in Seq(S) /\ Len(p \o t) = Len(p) + Len(t)
        /\ a \o b \in Seq(S) /\ Len(a \o b) = Len(a) + Len(b)
    <3>1. p \in Seq(S) /\ t \in Seq(S)
      BY <1>2, <1>3
    <3> QED
      BY <3>1
  <2>2. Len(p) + Len(t) = Len(a) + Len(b)
    BY <1>1, <1>2, <1>3
  <2> QED
    BY <2>1, <2>2
<1>5. ASSUME NEW i \in 1 .. Len(a \o b) PROVE (p \o t)[i] = (a \o b)[i]
  <2>1. Len(a \o b) = Len(a) + Len(b)
    OBVIOUS
  <2>2. CASE i <= Len(a)
    <3>1. i \in 1 .. Len(a) /\ i \in 1 .. Len(p)
      BY <1>1, <1>2, <2>2
    <3> QED
      BY <1>2, <1>3, <3>1
  <2>3. CASE i = Len(a) + 1
    BY <1>1, <1>2, <1>3, <2>3
  <2>4. CASE i > Len(a) + 1
    <3>1. (i - Len(a)) - 1 \in 1 .. (Len(b) - 1) /\ i - Len(p) = (i - Len(a)) - 1
      BY <1>1, <1>2, <2>1, <2>4
    <3>2. (p \o t)[i] = t[(i - Len(a)) - 1]
      BY <1>1, <1>2, <1>3, <2>4, <3>1
    <3>3. (a \o b)[i] = b[i - Len(a)]
      BY <1>1, <2>4
    <3>4. t[(i - Len(a)) - 1] = b[((i - Len(a)) - 1) + 1]
      BY <1>3, <3>1
    <3>5. ((i - Len(a)) - 1) + 1 = i - Len(a)
      BY <1>1
    <3> QED
      BY <3>2, <3>3, <3>4, <3>5
  <2>5. i \in Nat /\ Len(a) \in Nat /\ (i <= Len(a) \/ i = Len(a) + 1 \/ i > Len(a) + 1)
    BY <1>1, <2>1
  <2> QED
    BY <2>2, <2>3, <2>4, <2>5
<1>6. p \o t = a \o b
  BY <1>4, <1>5, SMTT(30)
<1> QED
  BY <1>1, <1>2, <1>3, <1>6 DEF p, t, h

LEMMA AppendLast ==
    ASSUME NEW S, NEW a \in Seq(S), NEW b \in Seq(S), NEW x \in S
    PROVE  a \o Append(b, x) = Append(a \o b, x)
  OBVIOUS

LEMMA ConcatAssociates ==
    ASSUME NEW S, NEW a \in Seq(S), NEW b \in Seq(S), NEW c \in Seq(S)
    PROVE  (a \o b) \o c = a \o (b \o c)
  OBVIOUS

LEMMA UartKeeps ==
    ASSUME TestInv, Uart
    PROVE  TestInv'
<1>1. /\ wire' = Append(wire, Head(txfifo)) /\ txfifo' = Tail(txfifo) /\ txfifo # <<>>
      /\ UNCHANGED <<phase, msg, status, inbox, tids, crashed>>
      /\ UNCHANGED <<txq, txpc, txtid, rest>> /\ UNCHANGED <<rxfifo, rxq, tidq, pressed>>
      /\ UNCHANGED <<enabled, readback, waiting>> /\ UNCHANGED <<lockVars, step>>
  BY DEF Uart, UartSend, Others, msgVars, rxVars, intVars
<1>2. TxKeeps /\ RxKeeps /\ IntKeeps
  BY DEF TestInv, ConsoleKeeps
<1>3. /\ wire' \o txfifo' = wire \o txfifo /\ wire' \in Seq(Chars) /\ txfifo' \in Seq(Chars)
      /\ Len(txfifo') = Len(txfifo) - 1 /\ Len(txfifo) \in Nat
  BY <1>1, <1>2, MoveHead, SMTT(30) DEF TxKeeps
<1>4. TxKeeps'
  BY <1>1, <1>2, <1>3, TestFacts DEF TxKeeps
<1>5. Printed' = Printed
  BY <1>1, <1>3 DEF Printed
<1>6. LinesKept'
  BY <1>1, <1>5, LinesSame DEF TestInv, LinesKept
<1>7. MsgInv' /\ ChildrenPrint' /\ Transmits'
  BY <1>1, MsgUnchanged, ChildrenSame, TransmitsSame DEF TestInv, MsgInv, MsgTypeOK
<1>8. RxKeeps' /\ IntKeeps' /\ InputContiguous'
  BY <1>1, <1>2 DEF RxKeeps, IntKeeps, InputContiguous, TestInv
<1> QED
  BY <1>1, <1>4, <1>6, <1>7, <1>8, ConsoleStep

LEMMA KeysKeep ==
    ASSUME TestInv, Keys
    PROVE  TestInv'
<1>1. /\ UNCHANGED <<phase, msg, status, inbox, tids>> /\ crashed' \in BOOLEAN
      /\ UNCHANGED <<wire, txfifo, txq, txpc, txtid, rest>> /\ UNCHANGED <<rxq, tidq>>
      /\ UNCHANGED <<enabled, readback, waiting>> /\ UNCHANGED <<lockVars, step>>
      /\ \/ UNCHANGED <<rxfifo, pressed>>
         \/ /\ pressed' = pressed + 1 /\ rxfifo' = Append(rxfifo, pressed + 1)
            /\ Len(rxfifo) < FIFO_MAX
  <2>1. CASE KeyPress
    BY <2>1 DEF Keys, KeyPress, Others, msgVars, txVars, intVars, TestInv, MsgInv, MsgTypeOK
  <2>2. CASE LineError
    BY <2>2 DEF Keys, LineError, Others, consoleVars, txVars, rxVars, intVars
  <2> QED
    BY <2>1, <2>2 DEF Keys
<1>2. TxKeeps /\ RxKeeps /\ IntKeeps
  BY DEF TestInv, ConsoleKeeps
<1>3. RxKeeps' /\ InputContiguous'
  <2>1. CASE UNCHANGED <<rxfifo, pressed>>
    BY <1>1, <1>2, <2>1 DEF RxKeeps, InputContiguous, TestInv
  <2>2. CASE /\ pressed' = pressed + 1 /\ rxfifo' = Append(rxfifo, pressed + 1)
             /\ Len(rxfifo) < FIFO_MAX
    <3>1. /\ rxq \in Seq(Nat) /\ rxfifo \in Seq(Nat) /\ pressed \in Nat /\ rxfifo' \in Seq(Nat)
          /\ Len(rxfifo') = Len(rxfifo) + 1
      BY <1>2, <2>2 DEF RxKeeps
    <3>2. RxKeeps'
      BY <1>1, <1>2, <2>2, <3>1, TestFacts DEF RxKeeps
    <3> DEFINE u == rxq \o rxfifo  v == rxq' \o rxfifo'
    <3>3. v = Append(u, pressed + 1)
      BY <1>1, <2>2, <3>1, AppendLast
    <3>4. u \in Seq(Nat) /\ Len(u) \in Nat
      BY <3>1
    <3>5. \A i \in 1 .. Len(u) : u[i] = (pressed - Len(u)) + i
      BY DEF TestInv, InputContiguous
    <3> HIDE DEF u, v
    <3>6. Len(v) = Len(u) + 1 /\ v[Len(u) + 1] = pressed + 1 /\ \A i \in 1 .. Len(u) : v[i] = u[i]
      BY <3>1, <3>3, <3>4
    <3>7. \A i \in 1 .. Len(v) : v[i] = (pressed' - Len(v)) + i
      <4> SUFFICES ASSUME NEW i \in 1 .. (Len(u) + 1)
                   PROVE  v[i] = (pressed' - Len(v)) + i
        BY <3>6
      <4>1. CASE i = Len(u) + 1
        BY <2>2, <3>1, <3>4, <3>6, <4>1
      <4>2. CASE i # Len(u) + 1
        <5>1. i \in 1 .. Len(u)
          BY <3>4, <4>2
        <5> QED
          BY <2>2, <3>1, <3>4, <3>5, <3>6, <5>1
      <4> QED
        BY <4>1, <4>2
    <3> QED
      BY <3>2, <3>7 DEF InputContiguous, v
  <2> QED
    BY <1>1, <2>1, <2>2
<1>4. TxKeeps' /\ IntKeeps'
  BY <1>1, <1>2 DEF TxKeeps, IntKeeps
<1>5. MsgInv' /\ ChildrenPrint' /\ Transmits' /\ LinesKept'
  BY <1>1, MsgUnchanged, ChildrenSame, TransmitsSame, PrintedSame DEF TestInv
<1> QED
  BY <1>1, <1>3, <1>4, <1>5, ConsoleStep

LEMMA InterruptKeeps ==
    ASSUME TestInv, NEW it \in {"THR", "RHR"}, NEW n \in Notifier, Interrupt(it, n), Others
    PROVE  TestInv'
<1>1. /\ UNCHANGED <<phase, msg, status, inbox, tids, crashed>>
      /\ UNCHANGED <<wire, txfifo, txq, txpc, txtid, rest>>
      /\ UNCHANGED <<rxfifo, rxq, tidq, pressed>>
      /\ UNCHANGED readback /\ UNCHANGED <<lockVars, step>>
      /\ enabled' = enabled \ {it} /\ waiting' = waiting \ {n}
  BY DEF Interrupt, Others, msgVars, txVars, rxVars
<1>2. TxKeeps /\ RxKeeps /\ IntKeeps
  BY DEF TestInv, ConsoleKeeps
<1>3. TxKeeps' /\ RxKeeps' /\ IntKeeps' /\ InputContiguous'
  BY <1>1, <1>2 DEF TxKeeps, RxKeeps, IntKeeps, InputContiguous, TestInv
<1>4. MsgInv' /\ ChildrenPrint' /\ Transmits' /\ LinesKept'
  BY <1>1, MsgUnchanged, ChildrenSame, TransmitsSame, PrintedSame
     DEF TestInv, MsgInv, MsgTypeOK
<1> QED
  BY <1>1, <1>3, <1>4, ConsoleStep

(* Whoever only sends, and is no child. *)
LEMMA OthersSend ==
    ASSUME TestInv, NEW t \in Task \ Child, NEW s \in Server, NEW m, MsgSend(t, s, m),
           m.code # "WRITE" \/ s # TxServer, UNCHANGED consoleVars, UNCHANGED <<lockVars, step>>
    PROVE  TestInv'
<1>1. /\ UNCHANGED <<wire, txfifo, txq, txpc, txtid, rest>>
      /\ UNCHANGED <<rxfifo, rxq, tidq, pressed>>
      /\ UNCHANGED <<enabled, readback, waiting>> /\ step' = step
  BY DEF consoleVars, txVars, rxVars, intVars
<1>2. MsgInv' /\ ChildrenPrint' /\ Transmits' /\ LinesKept'
  BY <1>1, SendKeepsChildren, PrintedSame
<1>3. TxKeeps' /\ RxKeeps' /\ IntKeeps' /\ InputContiguous'
  BY <1>1 DEF TxKeeps, RxKeeps, IntKeeps, InputContiguous, TestInv, ConsoleKeeps
<1> QED
  BY <1>2, <1>3, ConsoleStep

LEMMA NotifyKeeps ==
    ASSUME TestInv, NEW n \in Notifier, Notifies(n)
    PROVE  TestInv'
<1>1. PICK s \in {TxServer, RxServer} :
         MsgSend(n, s, [code |-> "NOTIFY"]) /\ UNCHANGED consoleVars /\ Others
  BY DEF Notifies, Notify
<1>2. n \in Task \ Child /\ s \in Server /\ UNCHANGED <<lockVars, step>>
  BY <1>1, TestFacts DEF Others
<1>3. [code |-> "NOTIFY"].code # "WRITE"
  OBVIOUS
<1> QED
  BY <1>1, <1>2, <1>3, OthersSend

LEMMA ShellKeeps ==
    ASSUME TestInv, NEW r \in Reader, ShellCalls(r)
    PROVE  TestInv'
<1>1. r \in Task \ Child /\ UNCHANGED <<lockVars, step>>
  BY TestFacts DEF ShellCalls
<1>2. CASE \E s \in {TxServer, RxServer} : Fgetc(r, s)
  <2>1. PICK s \in {TxServer, RxServer} : MsgSend(r, s, [code |-> "GETCHAR"])
                                          /\ UNCHANGED consoleVars
    BY <1>2 DEF Fgetc
  <2>2. [code |-> "GETCHAR"].code # "WRITE" /\ s \in Server
    BY TestFacts
  <2> QED
    BY <1>1, <2>1, <2>2, OthersSend
<1>3. CASE Write(r, RxServer, <<r>>, [line |-> <<r, 0>>, call |-> 1])
  <2>1. PICK m : MsgSend(r, RxServer, m) /\ UNCHANGED consoleVars
    BY <1>3 DEF Write
  <2> QED
    BY <1>1, <2>1, TestFacts, OthersSend
<1> QED
  BY <1>2, <1>3 DEF ShellCalls

-----------------------------------------------------------------------------
(* consoletx_task.                                                         *)

(* The next character to print is of the line of the child that prints. *)
LEMMA EmittedIs ==
    ASSUME TestInv, rest # <<>>
    PROVE  /\ txtid \in Fd /\ tids[TxServer][txtid] \in Child
           /\ InLine(tids[TxServer][txtid])
           /\ Emitted \in Chars /\ Emitted.of.line = Line(tids[TxServer][txtid])
<1> DEFINE c == tids[TxServer][txtid]
<1>1. txtid \in Fd /\ c \in Child /\ \A i \in DOMAIN rest : rest[i].of = msg[c].id
  BY DEF TestInv, Transmits, ConsoleKeeps, TxKeeps
<1>2. phase[c] = "waiting"
  BY <1>1, TestFacts DEF TestInv, MsgInv, PhaseTells, Kept
<1> HIDE DEF c
<1>3. InLine(c) /\ Prints(c, msg[c])
  BY <1>1, <1>2 DEF TestInv, ChildrenPrint
<1>4. rest \in Seq(Chars)
  BY DEF TestInv, ConsoleKeeps, TxKeeps
<1>5. 1 \in DOMAIN rest /\ Head(rest) = rest[1] /\ rest[1] \in Chars
  BY <1>4
<1>6. rest[1].of.line = Line(c)
  BY <1>1, <1>3, <1>5 DEF Prints
<1>7. Emitted \in Chars /\ Emitted.of = rest[1].of
  BY <1>5 DEF Emitted, Char, Chars
<1> QED
  BY <1>1, <1>3, <1>6, <1>7 DEF c

LEMMA ConsumeIs ==
    ASSUME rest \in Seq(Chars), rest # <<>>, Consume
    PROVE  /\ rest' \in Seq(Chars)
           /\ \A i \in DOMAIN rest' : \E j \in DOMAIN rest : rest'[i] = rest[j]
<1>1. rest' = rest \/ rest' = Tail(rest)
  BY DEF Consume
<1>2. CASE rest' = rest
  BY <1>2
<1>3. CASE rest' = Tail(rest)
  <2>1. /\ Tail(rest) \in Seq(Chars) /\ Len(rest) \in Nat \ {0}
        /\ DOMAIN Tail(rest) = 1 .. (Len(rest) - 1) /\ DOMAIN rest = 1 .. Len(rest)
        /\ \A i \in 1 .. (Len(rest) - 1) : Tail(rest)[i] = rest[i + 1]
    OBVIOUS
  <2>2. \A i \in 1 .. (Len(rest) - 1) : i + 1 \in 1 .. Len(rest)
    BY <2>1
  <2> QED
    BY <1>3, <2>1, <2>2
<1> QED
  BY <1>1, <1>2, <1>3

(* It prints a character, if whose place is next. *)
LEMMA PrintsOne ==
    ASSUME TestInv, rest # <<>>, Consume, Printed' = Append(Printed, Emitted),
           UNCHANGED <<phase, msg, status, inbox, tids, crashed>>,
           UNCHANGED <<lockVars, step>>, UNCHANGED <<txtid, txpc>>,
           UNCHANGED <<rxfifo, rxq, tidq, pressed>>, UNCHANGED <<enabled, readback, waiting>>,
           TxKeeps', txpc = "direct" => txq' = <<>>
    PROVE  TestInv'
<1>1. /\ txtid \in Fd /\ tids[TxServer][txtid] \in Child
      /\ InLine(tids[TxServer][txtid])
      /\ Emitted \in Chars /\ Emitted.of.line = Line(tids[TxServer][txtid])
  BY EmittedIs
<1>2. LinesKept'
  BY <1>1, LinesGrow
<1>3. MsgInv' /\ ChildrenPrint'
  BY MsgUnchanged, ChildrenSame DEF TestInv, MsgInv, MsgTypeOK
<1>4. RxKeeps' /\ IntKeeps' /\ InputContiguous'
  BY DEF RxKeeps, IntKeeps, InputContiguous, TestInv, ConsoleKeeps
<1>5. Transmits'
  <2>1. \A i \in DOMAIN rest' : \E j \in DOMAIN rest : rest'[i] = rest[j]
    BY ConsumeIs DEF TestInv, ConsoleKeeps, TxKeeps
  <2>2. txtid # NoTid
    BY <1>1, TestFacts
  <2> QED
    BY <2>1, <2>2 DEF TestInv, Transmits
<1> QED
  BY <1>2, <1>3, <1>4, <1>5, ConsoleStep

(* At the end of a handler, nothing is left to print. *)
LEMMA DoneKeeps ==
    ASSUME TestInv, TxDone, UNCHANGED <<lockVars, step>>, MsgInv', ChildrenPrint'
    PROVE  TestInv'
<1>1. /\ txpc' = "receive" /\ txtid' = NoTid /\ rest' = <<>>
      /\ UNCHANGED <<wire, txfifo, txq>> /\ UNCHANGED <<rxfifo, rxq, tidq, pressed>>
      /\ UNCHANGED <<enabled, waiting>>
      /\ readback' = readback \/ readback' = [readback EXCEPT ![TxServer] = enabled]
  BY DEF TxDone, ReadEnabled, rxVars
<1>2. TxKeeps /\ RxKeeps /\ IntKeeps
  BY DEF TestInv, ConsoleKeeps
<1>3. TxKeeps'
  <2>1. rest' \in Seq(Chars)
    BY <1>1
  <2> QED
    BY <1>1, <1>2, <2>1 DEF TxKeeps
<1>4. RxKeeps' /\ IntKeeps' /\ InputContiguous'
  BY <1>1, <1>2 DEF RxKeeps, IntKeeps, InputContiguous, TestInv
<1>5. Transmits'
  BY <1>1 DEF Transmits
<1> QED
  BY <1>1, <1>3, <1>4, <1>5, PrintedSame, ConsoleStep

LEMMA TxReceiveKeeps ==
    ASSUME TestInv, TxReceiveNotify \/ TxReceiveOther, UNCHANGED <<lockVars, step>>
    PROVE  TestInv'
<1>1. PICK st \in Int :
         /\ Serve(TxServer, Reply(TxServer, st)) /\ Incoming(TxServer)
         /\ txpc = "receive" /\ txpc' \in {"receive", "flush"} /\ txtid' = txtid
         /\ UNCHANGED <<wire, txfifo, txq, rest>>
         /\ UNCHANGED <<rxfifo, rxq, tidq, pressed>> /\ UNCHANGED <<enabled, readback>>
         /\ waiting' \subseteq waiting \cup Notifier
  <2>1. txpc = "receive" => txtid = NoTid
    BY DEF TestInv, Transmits
  <2>2. CASE TxReceiveNotify
    BY <2>1, <2>2 DEF TxReceiveNotify, Receives, rxVars, Notifier
  <2>3. CASE TxReceiveOther
    BY <2>3 DEF TxReceiveOther, Receives, consoleVars, txVars, rxVars, intVars, ENOFUNC
  <2> QED
    BY <2>2, <2>3
<1>2. Tid(TxServer) \in Fd
  BY <1>1, TidIsFree DEF Serve
<1>3. /\ DOMAIN Reply(TxServer, st) \subseteq Fd
      /\ \A f \in DOMAIN Reply(TxServer, st) : Reply(TxServer, st)[f] \in Int
  BY <1>2 DEF Reply
<1>4. MsgInv' /\ ChildrenPrint'
  BY <1>1, <1>3, TestFacts, ServeKeepsChildren
<1>5. TxKeeps' /\ RxKeeps' /\ IntKeeps' /\ InputContiguous'
  BY <1>1 DEF TxKeeps, RxKeeps, IntKeeps, InputContiguous, TestInv, ConsoleKeeps
<1>6. Transmits'
  BY <1>1 DEF TestInv, Transmits
<1> QED
  BY <1>1, <1>4, <1>5, <1>6, PrintedSame, ConsoleStep

LEMMA TxReceiveWriteKeeps ==
    ASSUME TestInv, TxReceiveWrite, UNCHANGED <<lockVars, step>>
    PROVE  TestInv'
<1> DEFINE c == Sender(TxServer)
<1>1. /\ Serve(TxServer, NoReply) /\ Incoming(TxServer)
      /\ txpc' = "flush" /\ txtid' = Tid(TxServer) /\ msg[c].code = "WRITE"
      /\ rest' = [i \in 1 .. Len(msg[c].text) |-> Char(msg[c].text[i], msg[c].id)]
      /\ UNCHANGED <<wire, txfifo, txq>>
      /\ UNCHANGED <<rxfifo, rxq, tidq, pressed>> /\ UNCHANGED <<enabled, readback, waiting>>
  BY DEF TxReceiveWrite, Receives, Request, rxVars, intVars
<1>2. DOMAIN NoReply = {}
  BY DEF NoReply
<1>3. /\ DOMAIN NoReply \subseteq Fd /\ \A f \in DOMAIN NoReply : NoReply[f] \in Int
  BY <1>2
<1>4. MsgInv' /\ ChildrenPrint'
  BY <1>1, <1>3, TestFacts, ServeKeepsChildren
<1>5. /\ Tid(TxServer) \in Fd /\ c \in Task /\ phase[c] = "sending"
      /\ 1 \in DOMAIN inbox[TxServer] /\ inbox[TxServer][1] = c
      /\ tids'[TxServer][Tid(TxServer)] = c
      /\ c # Nobody => msg'[c] = msg[c]
  <2>1. /\ Tid(TxServer) \in Fd /\ c \in Task /\ phase[c] = "sending"
        /\ 1 \in DOMAIN inbox[TxServer] /\ inbox[TxServer][1] = c
        /\ \A fd \in Fd : tids'[TxServer][fd] =
              IF fd \in DOMAIN NoReply THEN Nobody
              ELSE IF fd = Tid(TxServer) THEN c ELSE tids[TxServer][fd]
        /\ \A fd \in Fd : tids'[TxServer][fd] # Nobody =>
              msg'[tids'[TxServer][fd]] = msg[tids'[TxServer][fd]]
    BY <1>1, <1>3, ServeFrame, TestFacts DEF TestInv
  <2> QED
    BY <1>2, <2>1
<1> HIDE DEF c
<1>6. c \in Child /\ msg'[c] = msg[c]
  BY <1>1, <1>5, NobodyAssumption DEF TestInv, ChildrenPrint
<1>7. Prints(c, msg[c])
  BY <1>5, <1>6 DEF TestInv, ChildrenPrint
<1>8. rest' \in Seq(Chars) /\ \A i \in DOMAIN rest' : rest'[i].of = msg[c].id
  <2> DEFINE text == msg[c].text  id == msg[c].id
  <2>1. text \in Seq(Child \cup {"\n"}) /\ id \in [line : Child \X Nat, call : Nat]
    <3>1. InLine(c) /\ RoundOf(c) \in Nat
      <4>1. InLine(c)
        BY <1>5, <1>6 DEF TestInv, ChildrenPrint
      <4> QED
        BY <1>6, <4>1, CallTypes DEF TestInv, InLine
    <3>2. Line(c) \in Child \X Nat
      BY <1>6, <3>1 DEF Line
    <3> QED
      BY <1>7, <3>2 DEF Prints
  <2> HIDE DEF text, id
  <2>2. Len(text) \in Nat /\ \A i \in 1 .. Len(text) : text[i] \in Child \cup {"\n"}
    BY <2>1
  <2>3. \A i \in 1 .. Len(text) : Char(text[i], id) \in Chars /\ Char(text[i], id).of = id
    BY <2>1, <2>2 DEF Char, Chars
  <2>4. rest' = [i \in 1 .. Len(text) |-> Char(text[i], id)]
    BY <1>1 DEF text, id
  <2>5. rest' \in Seq(Chars) /\ DOMAIN rest' = 1 .. Len(text)
    BY <2>2, <2>3, <2>4
  <2>6. \A i \in DOMAIN rest' : rest'[i].of = id
    BY <2>3, <2>4, <2>5
  <2> QED
    BY <2>5, <2>6 DEF id
<1>9. TxKeeps' /\ RxKeeps' /\ IntKeeps' /\ InputContiguous'
  BY <1>1, <1>5, <1>8 DEF TxKeeps, RxKeeps, IntKeeps, InputContiguous, TestInv, ConsoleKeeps
<1>10. Transmits'
  BY <1>1, <1>5, <1>6, <1>8, TestFacts DEF Transmits
<1> QED
  BY <1>1, <1>4, <1>9, <1>10, PrintedSame, ConsoleStep

LEMMA TxFlushKeeps ==
    ASSUME TestInv, TxFlush, UNCHANGED <<lockVars, step>>
    PROVE  TestInv'
<1>1. UNCHANGED <<phase, msg, status, inbox, tids, crashed>> /\ txpc = "flush"
  BY DEF TxFlush, msgVars
<1>2. MsgInv' /\ ChildrenPrint' /\ TxKeeps /\ RxKeeps /\ IntKeeps
  BY <1>1, MsgUnchanged, ChildrenSame DEF TestInv, MsgInv, MsgTypeOK, ConsoleKeeps
<1>3. CASE /\ txq # <<>> /\ ~TxFull
           /\ txfifo' = Append(txfifo, Head(txq)) /\ txq' = Tail(txq)
           /\ UNCHANGED <<wire, txpc, txtid, rest, newline_seen, rxVars, intVars>>
  <2>1. /\ UNCHANGED <<wire, txpc, txtid, rest>> /\ UNCHANGED <<rxfifo, rxq, tidq, pressed>>
        /\ UNCHANGED <<enabled, readback, waiting>>
    BY <1>3 DEF rxVars, intVars
  <2>2. /\ txfifo' \o txq' = txfifo \o txq /\ txfifo' \in Seq(Chars) /\ txq' \in Seq(Chars)
        /\ Len(txfifo') = Len(txfifo) + 1 /\ Len(txq') = Len(txq) - 1
        /\ Len(txfifo) \in Nat /\ Len(txq) \in Nat
    BY <1>2, <1>3, MoveHead, SMTT(30) DEF TxKeeps
  <2>3. TxKeeps'
    BY <1>2, <1>3, <2>1, <2>2, TestFacts DEF TxKeeps, TxFull
  <2>4. Printed' = Printed
    <3>1. wire \in Seq(Chars) /\ txfifo \in Seq(Chars) /\ txq \in Seq(Chars)
      BY <1>2 DEF TxKeeps
    <3>4. txfifo' \in Seq(Chars) /\ txq' \in Seq(Chars)
      BY <2>2
    <3>5. \A a, b, c \in Seq(Chars) : (a \o b) \o c = a \o (b \o c)
      BY ConcatAssociates
    <3>2. (wire \o txfifo') \o txq' = wire \o (txfifo' \o txq')
      BY <3>1, <3>4, <3>5, ZenonT(40)
    <3>3. (wire \o txfifo) \o txq = wire \o (txfifo \o txq)
      BY <3>1, <3>5, Zenon
    <3> QED
      BY <2>1, <2>2, <3>2, <3>3 DEF Printed
  <2>5. LinesKept'
    BY <2>4, LinesSame DEF TestInv, LinesKept
  <2>6. RxKeeps' /\ IntKeeps' /\ InputContiguous'
    BY <2>1 DEF RxKeeps, IntKeeps, InputContiguous, TestInv, ConsoleKeeps
  <2>7. Transmits'
    BY <1>1, <2>1 DEF TestInv, Transmits
  <2> QED
    BY <1>2, <2>3, <2>5, <2>6, <2>7, ConsoleStep
<1>4. CASE TxDone
  BY <1>2, <1>4, DoneKeeps
<1>5. CASE /\ txtid # NoTid /\ txpc' = AfterFlush
           /\ UNCHANGED <<wire, txfifo, txq, txtid, rest, newline_seen, rxVars, intVars>>
  <2>1. /\ UNCHANGED <<wire, txfifo, txq, txtid, rest>>
        /\ UNCHANGED <<rxfifo, rxq, tidq, pressed>> /\ UNCHANGED <<enabled, readback, waiting>>
    BY <1>5 DEF rxVars, intVars
  <2>2. txpc' \in {"direct", "enqueue"} /\ (txpc' = "direct" => txq' = <<>>)
    BY <1>5, <2>1 DEF AfterFlush
  <2>3. TxKeeps' /\ RxKeeps' /\ IntKeeps' /\ InputContiguous'
    BY <2>1, <2>2 DEF TxKeeps, RxKeeps, IntKeeps, InputContiguous, TestInv, ConsoleKeeps
  <2>4. Transmits'
    BY <1>1, <1>5, <2>1, <2>2 DEF TestInv, Transmits
  <2> QED
    BY <1>2, <2>1, <2>3, <2>4, PrintedSame, ConsoleStep
<1> QED
  BY <1>3, <1>4, <1>5 DEF TxFlush

LEMMA TxDirectKeeps ==
    ASSUME TestInv, TxDirect, UNCHANGED <<lockVars, step>>
    PROVE  TestInv'
<1>1. /\ UNCHANGED <<phase, msg, status, inbox, tids, crashed>> /\ txpc = "direct"
      /\ UNCHANGED <<wire, txq, txtid>>
      /\ UNCHANGED <<rxfifo, rxq, tidq, pressed>> /\ UNCHANGED <<enabled, readback, waiting>>
  BY DEF TxDirect, msgVars, rxVars, intVars
<1>2. txq = <<>> /\ TxKeeps /\ RxKeeps /\ IntKeeps /\ txtid # NoTid
  BY <1>1 DEF TestInv, Transmits, ConsoleKeeps
<1>3. CASE rest # <<>> /\ ~TxFull
  <2>1. txfifo' = Append(txfifo, Emitted) /\ Consume /\ txpc' = txpc
    BY <1>3 DEF TxDirect
  <2>2. Emitted \in Chars /\ rest' \in Seq(Chars)
    BY <1>2, <1>3, <2>1, EmittedIs, ConsumeIs DEF TxKeeps
  <2>3. /\ wire \in Seq(Chars) /\ txfifo \in Seq(Chars) /\ txfifo' \in Seq(Chars)
        /\ Len(txfifo') = Len(txfifo) + 1 /\ Len(txfifo) \in Nat /\ Len(txfifo) < FIFO_MAX
    BY <1>2, <1>3, <2>1, <2>2, TestFacts DEF TxKeeps, TxFull
  <2>4. TxKeeps'
    BY <1>1, <1>2, <2>1, <2>2, <2>3, TestFacts DEF TxKeeps
  <2>5. Printed' = Append(Printed, Emitted)
    <3>1. Printed = wire \o txfifo /\ Printed' = wire \o txfifo'
      BY <1>1, <1>2, <2>3 DEF Printed
    <3> QED
      BY <2>1, <2>2, <2>3, <3>1, AppendLast
  <2> QED
    BY <1>1, <1>2, <1>3, <2>1, <2>4, <2>5, PrintsOne
<1>4. CASE ~(rest # <<>> /\ ~TxFull)
  <2>1. txpc' = "enqueue" /\ UNCHANGED <<txfifo, rest>>
    BY <1>4 DEF TxDirect
  <2>2. TxKeeps' /\ RxKeeps' /\ IntKeeps' /\ InputContiguous'
    BY <1>1, <2>1 DEF TxKeeps, RxKeeps, IntKeeps, InputContiguous, TestInv, ConsoleKeeps
  <2>3. Transmits'
    BY <1>1, <1>2, <2>1 DEF TestInv, Transmits
  <2>4. MsgInv' /\ ChildrenPrint'
    BY <1>1, MsgUnchanged, ChildrenSame DEF TestInv, MsgInv, MsgTypeOK
  <2> QED
    BY <1>1, <2>1, <2>2, <2>3, <2>4, PrintedSame, ConsoleStep
<1> QED
  BY <1>3, <1>4

LEMMA TxEnqueueKeeps ==
    ASSUME TestInv, TxEnqueue, UNCHANGED <<lockVars, step>>
    PROVE  TestInv'
<1>1. txpc = "enqueue"
  BY DEF TxEnqueue
<1>2. /\ TxKeeps /\ RxKeeps /\ IntKeeps /\ txtid # NoTid /\ txtid \in Fd
      /\ tids[TxServer][txtid] \in Child
  BY <1>1 DEF TestInv, Transmits, ConsoleKeeps, TxKeeps
<1>3. ASSUME NEW st \in Int, MsgReply(TxServer, txtid, st), TxDone
      PROVE  TestInv'
  <2> DEFINE t == tids[TxServer][txtid]
  <2>1. /\ MsgInv' /\ inbox' = inbox /\ t \in Task
        /\ phase'[t] = "ready" /\ msg'[t] = None
        /\ \A u \in Task \ {t} : phase'[u] = phase[u] /\ msg'[u] = msg[u]
    BY <1>2, <1>3, ReplyFrame, TestFacts DEF TestInv
  <2> HIDE DEF t
  <2>2. ASSUME NEW c \in Child, phase'[c] # "ready"
        PROVE  InLine(c)' /\ Prints(c, msg[c])'
    <3>1. c \in Task \ {t}
      BY <2>1, <2>2, TestFacts
    <3> QED
      BY <2>1, <2>2, <3>1, SameCalls DEF TestInv, ChildrenPrint, Prints
  <2>3. ASSUME NEW i \in DOMAIN inbox[TxServer], msg'[inbox[TxServer][i]].code = "WRITE"
        PROVE  inbox[TxServer][i] \in Child
    <3>1. inbox[TxServer] \in Seq(Task)
      BY TestFacts DEF TestInv, MsgInv, MsgTypeOK
    <3>2. inbox[TxServer][i] \in Task
      BY <3>1
    <3>3. inbox[TxServer][i] # t
      BY <2>1, <2>3 DEF None
    <3> QED
      BY <2>1, <2>3, <3>2, <3>3 DEF TestInv, ChildrenPrint
  <2>4. ChildrenPrint'
    BY <2>1, <2>2, <2>3 DEF ChildrenPrint
  <2> QED
    BY <1>3, <2>1, <2>4, DoneKeeps
<1>4. CASE /\ rest # <<>> /\ Len(txq) < TX_BUF_MAX
           /\ txq' = Append(txq, Emitted)
           /\ Consume
           /\ UNCHANGED <<msgVars, wire, txfifo, txpc, txtid, rxVars, intVars>>
  <2>1. /\ UNCHANGED <<phase, msg, status, inbox, tids, crashed>>
        /\ UNCHANGED <<wire, txfifo, txpc, txtid>>
        /\ UNCHANGED <<rxfifo, rxq, tidq, pressed>> /\ UNCHANGED <<enabled, readback, waiting>>
    BY <1>4 DEF msgVars, rxVars, intVars
  <2>2. Emitted \in Chars /\ rest' \in Seq(Chars)
    BY <1>2, <1>4, EmittedIs, ConsumeIs DEF TxKeeps
  <2>3. /\ txq \in Seq(Chars) /\ txq' \in Seq(Chars) /\ Len(txq') = Len(txq) + 1 /\ Len(txq) \in Nat
    BY <1>2, <1>4, <2>2 DEF TxKeeps
  <2>4. TxKeeps'
    BY <1>2, <1>4, <2>1, <2>2, <2>3, TestFacts DEF TxKeeps
  <2>5. Printed' = Append(Printed, Emitted)
    <3>1. wire \o txfifo \in Seq(Chars)
      BY <1>2 DEF TxKeeps
    <3> QED
      BY <1>4, <2>1, <2>2, <2>3, <3>1, AppendLast, SMTT(30) DEF Printed
  <2> QED
    BY <1>1, <1>4, <2>1, <2>4, <2>5, PrintsOne
<1>5. 0 \in Int /\ TruncatedStatus \in Int
  BY DEF TruncatedStatus, ENOMEM
<1> QED
  BY <1>3, <1>4, <1>5 DEF TxEnqueue

(* Either server enables an interrupt. *)
LEMMA EnableKeeps ==
    ASSUME TestInv, NEW s \in ConsoleServer, NEW it \in {"THR", "RHR"}, IntEnable(s, it),
           UNCHANGED <<lockVars, step>>
    PROVE  TestInv'
<1>1. /\ UNCHANGED <<phase, msg, status, inbox, tids, crashed>>
      /\ UNCHANGED <<wire, txfifo, txq, txpc, txtid, rest>>
      /\ UNCHANGED <<rxfifo, rxq, tidq, pressed>> /\ UNCHANGED waiting
      /\ readback[s] # Idle /\ enabled' = readback[s] \cup {it}
      /\ readback' = [readback EXCEPT ![s] = Idle]
  BY DEF IntEnable, msgVars, txVars, rxVars
<1>2. TxKeeps /\ RxKeeps /\ IntKeeps
  BY DEF TestInv, ConsoleKeeps
<1>3. TxKeeps' /\ RxKeeps' /\ IntKeeps' /\ InputContiguous'
  BY <1>1, <1>2 DEF TxKeeps, RxKeeps, IntKeeps, InputContiguous, TestInv
<1>4. MsgInv' /\ ChildrenPrint' /\ Transmits' /\ LinesKept'
  BY <1>1, MsgUnchanged, ChildrenSame, TransmitsSame, PrintedSame
     DEF TestInv, MsgInv, MsgTypeOK
<1> QED
  BY <1>1, <1>3, <1>4, ConsoleStep

LEMMA PrintingKeeps ==
    ASSUME TestInv, Printing
    PROVE  TestInv'
<1>1. UNCHANGED <<lockVars, step>> /\ TxStep
  BY DEF Printing, Others
<1>2. CASE IntEnable(TxServer, "THR")
  BY <1>1, <1>2, EnableKeeps, TestFacts
<1> QED
  BY <1>1, <1>2, TxReceiveKeeps, TxReceiveWriteKeeps, TxFlushKeeps, TxDirectKeeps,
     TxEnqueueKeeps DEF TxStep


-----------------------------------------------------------------------------
(* What is received goes to the end of a queue that drops its oldest       *)
(* character when it is full: a fold over the UART's queue.                *)

(* The characters of a queue are the last ones of the first n. *)
EndsAt(q, n) ==
    /\ q \in Seq(Nat) /\ Len(q) <= RX_BUF_MAX
    /\ \A i \in 1 .. Len(q) : q[i] = (n - Len(q)) + i

LEMMA MaxExists ==
    \A n \in Nat : \A t \in SUBSET (1 .. n) : t # {} => Max(t) \in t /\ \A y \in t : Max(t) >= y
<1> DEFINE P == {n \in Nat : \A t \in SUBSET (1 .. n) :
                     t # {} => \E x \in t : \A y \in t : x >= y}
<1>1. 0 \in P
  <2>1. 1 .. 0 = {}
    OBVIOUS
  <2>2. \A t \in SUBSET (1 .. 0) : t = {}
    BY <2>1
  <2> QED
    BY <2>2
<1>2. ASSUME NEW n \in Nat, n \in P PROVE n + 1 \in P
  <2> SUFFICES ASSUME NEW t \in SUBSET (1 .. (n + 1)), t # {}
               PROVE  \E x \in t : \A y \in t : x >= y
    OBVIOUS
  <2>1. CASE n + 1 \in t
    BY <2>1
  <2>2. CASE n + 1 \notin t
    <3>1. t \in SUBSET (1 .. n)
      BY <2>2
    <3> QED
      BY <1>2, <3>1
  <2> QED
    BY <2>1, <2>2
<1>3. \A n \in Nat : n \in P
  <2> HIDE DEF P
  <2> QED
    BY <1>1, <1>2, NatInduct
<1> QED
  BY <1>3 DEF Max

LEMMA MaxOfFirst ==
    ASSUME NEW n \in Nat
    PROVE  Max(1 .. (n + 1)) = n + 1 /\ (1 .. (n + 1)) \ {n + 1} = 1 .. n
<1>1. Max(1 .. (n + 1)) \in 1 .. (n + 1) /\ \A y \in 1 .. (n + 1) : Max(1 .. (n + 1)) >= y
  <2>1. n + 1 \in Nat /\ 1 .. (n + 1) \in SUBSET (1 .. (n + 1)) /\ n + 1 \in 1 .. (n + 1)
    OBVIOUS
  <2> QED
    BY <2>1, MaxExists
<1> QED
  BY <1>1

(* A fold over a sequence is a recursion over the sets of its places. *)
FoldSteps(g, E, V, f, q, op) ==
    \A t \in SUBSET (DOMAIN f) :
        /\ t # {} => f[Max(t)] \in E /\ g[t \ {Max(t)}] \in V
        /\ g[t] = IF t = {} THEN q ELSE op[<<g[t \ {Max(t)}], f[Max(t)]>>]

LEMMA FoldRecursion ==
    ASSUME NEW E, NEW V, NEW f \in Seq(E), NEW q \in V, NEW op \in [V \X E -> V]
    PROVE  \E g \in [SUBSET (DOMAIN f) -> V] : FoldSteps(g, E, V, f, q, op)
<1> DEFINE S == SUBSET (DOMAIN f)
           rank == [t \in S |-> Cardinality(t)]
           nxt  == [t \in S |-> t \ {Max(t)}]
           base == [t \in S |-> q]
           push == [p \in S \X V |-> IF p[1] = {} THEN p[2] ELSE op[<<p[2], f[Max(p[1])]>>]]
<1>1. Len(f) \in Nat /\ DOMAIN f = 1 .. Len(f) /\ \A i \in DOMAIN f : f[i] \in E
  OBVIOUS
<1>2. \A t \in S : t # {} => Max(t) \in t /\ f[Max(t)] \in E
  <2> TAKE t \in S
  <2> HAVE t # {}
  <2>1. Max(t) \in t
    BY <1>1, MaxExists
  <2> QED
    BY <1>1, <2>1
<1>3. \A t \in S : IsFiniteSet(t)
  <2>1. IsFiniteSet(DOMAIN f)
    BY <1>1, FS_Interval
  <2> QED
    BY <2>1, FS_Subset
<1>4. Ranked(S, V, {{}}, rank, nxt, base, push)
  <2>1. rank \in [S -> Nat]
    BY <1>3, FS_CardinalityType
  <2>2. nxt \in [S -> S] /\ base \in [S -> V]
    OBVIOUS
  <2>3. push \in [S \X V -> V]
    <3> SUFFICES ASSUME NEW p \in S \X V
                 PROVE  (IF p[1] = {} THEN p[2] ELSE op[<<p[2], f[Max(p[1])]>>]) \in V
      OBVIOUS
    <3>1. p[1] \in S /\ p[2] \in V
      OBVIOUS
    <3> QED
      BY <1>2, <3>1
  <2>4. \A t \in S : t \notin {{}} => rank[nxt[t]] < rank[t]
    <3> TAKE t \in S
    <3> HAVE t \notin {{}}
    <3>1. /\ Max(t) \in t /\ t \ {Max(t)} \in S
          /\ Cardinality(t \ {Max(t)}) = Cardinality(t) - 1 /\ Cardinality(t) \in Nat
      BY <1>2, <1>3, FS_RemoveElement, FS_CardinalityType
    <3> QED
      BY <3>1
  <2> QED
    BY <2>1, <2>2, <2>3, <2>4 DEF Ranked
<1>5. PICK g \in [S -> V] : Recursion(g, S, {{}}, nxt, base, push)
  <2> HIDE DEF S, rank, nxt, base, push
  <2> QED
    BY <1>4, RecursionDefines
<1>6. ASSUME NEW t \in S
      PROVE  /\ t # {} => f[Max(t)] \in E /\ g[t \ {Max(t)}] \in V
             /\ g[t] = IF t = {} THEN q ELSE op[<<g[t \ {Max(t)}], f[Max(t)]>>]
  <2>1. g[t] = IF t \in {{}} THEN base[t] ELSE push[<<t, g[nxt[t]]>>]
    BY <1>5 DEF Recursion
  <2>2. t \ {Max(t)} \in S /\ g[t \ {Max(t)}] \in V
    OBVIOUS
  <2>3. <<t, g[t \ {Max(t)}]>> \in S \X V
    BY <2>2
  <2> QED
    BY <1>2, <2>1, <2>2, <2>3
<1> QED
  BY <1>6, Zenon DEF FoldSteps

PushAll(q, f) ==
    CHOOSE iter : iter = [t \in SUBSET (DOMAIN f) |->
        IF t = {} THEN q ELSE Pushed(iter[t \ {Max(t)}], f[Max(t)])]

LEMMA FoldIs ==
    \A q, f : FoldLeft(Pushed, q, f) = PushAll(q, f)[DOMAIN f]
  BY Zenon DEF FoldLeft, MapThenFoldSet, PushAll

LEMMA PushedIs ==
    ASSUME NEW q \in Seq(Nat), NEW c \in Nat
    PROVE  Pushed(q, c) \in Seq(Nat)
<1>1. CASE Len(q) = RX_BUF_MAX
  <2>1. Tail(q) \in Seq(Nat)
    BY <1>1, TestFacts
  <2> QED
    BY <1>1, <2>1 DEF Pushed
<1>2. CASE Len(q) # RX_BUF_MAX
  BY <1>2 DEF Pushed
<1> QED
  BY <1>1, <1>2

LEMMA PushAllIs ==
    ASSUME NEW q \in Seq(Nat), NEW f \in Seq(Nat)
    PROVE  PushAll(q, f) = [t \in SUBSET (DOMAIN f) |->
               IF t = {} THEN q ELSE Pushed(PushAll(q, f)[t \ {Max(t)}], f[Max(t)])]
<1> DEFINE op == [p \in Seq(Nat) \X Nat |-> Pushed(p[1], p[2])]
<1>1. op \in [Seq(Nat) \X Nat -> Seq(Nat)]
  BY PushedIs
<1>2. \A u \in Seq(Nat), c \in Nat : op[<<u, c>>] = Pushed(u, c)
  OBVIOUS
<1> HIDE DEF op
<1>3. PICK g \in [SUBSET (DOMAIN f) -> Seq(Nat)] : FoldSteps(g, Nat, Seq(Nat), f, q, op)
  BY <1>1, FoldRecursion
<1>4. \A t \in SUBSET (DOMAIN f) :
         g[t] = IF t = {} THEN q ELSE Pushed(g[t \ {Max(t)}], f[Max(t)])
  <2> TAKE t \in SUBSET (DOMAIN f)
  <2>1. CASE t = {}
    BY <1>3, <2>1, Zenon DEF FoldSteps
  <2>2. CASE t # {}
    <3>1. /\ f[Max(t)] \in Nat /\ g[t \ {Max(t)}] \in Seq(Nat)
          /\ g[t] = op[<<g[t \ {Max(t)}], f[Max(t)]>>]
      BY <1>3, <2>2, Zenon DEF FoldSteps
    <3>2. g[t] = Pushed(g[t \ {Max(t)}], f[Max(t)])
      BY <1>2, <3>1, Zenon
    <3> QED
      BY <2>2, <3>2, Zenon
  <2> QED
    BY <2>1, <2>2, Zenon
<1>5. g = [t \in SUBSET (DOMAIN f) |->
               IF t = {} THEN q ELSE Pushed(g[t \ {Max(t)}], f[Max(t)])]
  BY <1>4
<1> QED
  BY <1>5, Zenon DEF PushAll

LEMMA PushedEnds ==
    ASSUME NEW q, NEW n \in Int, EndsAt(q, n), n + 1 \in Nat
    PROVE  EndsAt(Pushed(q, n + 1), n + 1)
<1>1. q \in Seq(Nat) /\ Len(q) \in Nat /\ Len(q) <= RX_BUF_MAX /\ RX_BUF_MAX \in Nat \ {0}
  BY TestFacts DEF EndsAt
<1>2. CASE Len(q) = RX_BUF_MAX
  <2> DEFINE p == Tail(q)
  <2>1. /\ p \in Seq(Nat) /\ Len(p) = Len(q) - 1 /\ Len(p) \in Nat
        /\ \A i \in 1 .. Len(p) : p[i] = q[i + 1] /\ i + 1 \in 1 .. Len(q)
    BY <1>1, <1>2
  <2>2. \A i \in 1 .. Len(p) : p[i] = ((n - Len(q)) + i) + 1
    BY <2>1, <1>1 DEF EndsAt
  <2> HIDE DEF p
  <2>3. /\ Append(p, n + 1) \in Seq(Nat) /\ Len(Append(p, n + 1)) = Len(q)
        /\ \A i \in 1 .. Len(p) : Append(p, n + 1)[i] = p[i]
        /\ Append(p, n + 1)[Len(q)] = n + 1
    BY <1>1, <2>1
  <2>4. \A i \in 1 .. Len(q) : i = Len(q) \/ i \in 1 .. Len(p)
    BY <1>1, <2>1
  <2>5. \A i \in 1 .. Len(q) : Append(p, n + 1)[i] = ((n + 1) - Len(q)) + i
    BY <1>1, <2>1, <2>2, <2>3, <2>4
  <2> QED
    BY <1>1, <1>2, <2>3, <2>5 DEF Pushed, EndsAt, p
<1>3. CASE Len(q) # RX_BUF_MAX
  <2>1. /\ Append(q, n + 1) \in Seq(Nat) /\ Len(Append(q, n + 1)) = Len(q) + 1
        /\ \A i \in 1 .. Len(q) : Append(q, n + 1)[i] = q[i]
        /\ Append(q, n + 1)[Len(q) + 1] = n + 1
    BY <1>1
  <2>2. \A i \in 1 .. (Len(q) + 1) : i = Len(q) + 1 \/ i \in 1 .. Len(q)
    BY <1>1
  <2>3. \A i \in 1 .. (Len(q) + 1) :
           Append(q, n + 1)[i] = ((n + 1) - (Len(q) + 1)) + i
    BY <1>1, <2>1, <2>2 DEF EndsAt
  <2>4. Pushed(q, n + 1) = Append(q, n + 1)
    BY <1>3 DEF Pushed
  <2>5. Len(q) + 1 <= RX_BUF_MAX
    BY <1>1, <1>3
  <2> QED
    BY <2>1, <2>3, <2>4, <2>5 DEF EndsAt
<1> QED
  BY <1>2, <1>3

(* The queue after a whole batch still ends at the last character. *)
LEMMA FoldEnds ==
    ASSUME NEW q, NEW f \in Seq(Nat), NEW b \in Int, EndsAt(q, b),
           \A i \in 1 .. Len(f) : f[i] = b + i
    PROVE  EndsAt(FoldLeft(Pushed, q, f), b + Len(f))
<1> DEFINE g == PushAll(q, f)
           P == {k \in Nat : k <= Len(f) => EndsAt(g[1 .. k], b + k)}
<1>1. /\ q \in Seq(Nat) /\ Len(f) \in Nat /\ DOMAIN f = 1 .. Len(f)
      /\ \A i \in 1 .. Len(f) : f[i] \in Nat
  BY DEF EndsAt
<1>2. \A t \in SUBSET (DOMAIN f) :
         g[t] = IF t = {} THEN q ELSE Pushed(g[t \ {Max(t)}], f[Max(t)])
  <2>1. g = [t \in SUBSET (DOMAIN f) |->
                 IF t = {} THEN q ELSE Pushed(g[t \ {Max(t)}], f[Max(t)])]
    BY <1>1, PushAllIs
  <2> HIDE DEF g
  <2> QED
    BY <2>1
<1> HIDE DEF g
<1>3. 0 \in P
  <2>1. 1 .. 0 = {} /\ {} \in SUBSET (DOMAIN f) /\ b + 0 = b
    OBVIOUS
  <2>2. g[1 .. 0] = q
    BY <1>2, <2>1
  <2> QED
    BY <2>1, <2>2
<1>4. ASSUME NEW k \in Nat, k \in P PROVE k + 1 \in P
  <2> SUFFICES ASSUME k + 1 <= Len(f) PROVE EndsAt(g[1 .. (k + 1)], b + (k + 1))
    <3>1. k + 1 \in Nat
      OBVIOUS
    <3> QED
      BY <3>1
  <2>1. 1 .. (k + 1) \in SUBSET (DOMAIN f) /\ 1 .. (k + 1) # {} /\ k + 1 \in 1 .. Len(f)
    <3>1. k + 1 \in 1 .. (k + 1) /\ k + 1 \in 1 .. Len(f)
      BY <1>1
    <3>2. \A i \in 1 .. (k + 1) : i \in 1 .. Len(f)
      BY <1>1
    <3> QED
      BY <1>1, <3>1, <3>2
  <2>2. g[1 .. (k + 1)] = Pushed(g[1 .. k], f[k + 1])
    <3> DEFINE t == 1 .. (k + 1)
    <3>1. Max(t) = k + 1 /\ t \ {k + 1} = 1 .. k
      BY MaxOfFirst
    <3>2. t \ {Max(t)} = 1 .. k
      BY <3>1
    <3>3. g[t] = Pushed(g[t \ {Max(t)}], f[Max(t)])
      BY <1>2, <2>1
    <3> HIDE DEF t
    <3>4. g[t] = Pushed(g[1 .. k], f[k + 1])
      BY <3>1, <3>2, <3>3
    <3> QED
      BY <3>4 DEF t
  <2>3. EndsAt(g[1 .. k], b + k)
    BY <1>1, <1>4
  <2>4. f[k + 1] = (b + k) + 1 /\ (b + k) + 1 \in Nat /\ b + k \in Int /\ b + (k + 1) = (b + k) + 1
    <3>1. f[k + 1] = b + (k + 1) /\ f[k + 1] \in Nat
      BY <1>1, <2>1
    <3> QED
      BY <3>1
  <2> QED
    BY <2>2, <2>3, <2>4, PushedEnds
<1>5. Len(f) \in P
  <2> HIDE DEF P
  <2>1. \A k \in Nat : k \in P
    BY <1>3, <1>4, NatInduct
  <2> QED
    BY <1>1, <2>1
<1> QED
  BY <1>1, <1>5, FoldIs DEF g

-----------------------------------------------------------------------------
(* The server that receives characters.                                    *)

LEMMA DropIs ==
    ASSUME NEW S, NEW q \in Seq(S), NEW n \in 0 .. Len(q)
    PROVE  /\ Drop(q, n) \in Seq(S) /\ Len(Drop(q, n)) = Len(q) - n
           /\ Len(q) - n \in Nat
           /\ \A i \in 1 .. (Len(q) - n) : Drop(q, n)[i] = q[n + i]
<1>1. /\ n \in Nat /\ Len(q) \in Nat /\ Len(q) - n \in Nat
      /\ (n + 1) \in 1 .. (Len(q) + 1) /\ Len(q) \in n .. Len(q)
  OBVIOUS
<1>2. SubSeq(q, n + 1, Len(q)) = [i \in 1 .. ((Len(q) - (n + 1)) + 1) |-> q[(i + (n + 1)) - 1]]
  BY <1>1
<1>3. (Len(q) - (n + 1)) + 1 = Len(q) - n
  BY <1>1
<1>4. \A i \in 1 .. (Len(q) - n) : (i + (n + 1)) - 1 = n + i /\ n + i \in 1 .. Len(q)
  BY <1>1
<1>5. Drop(q, n) = [i \in 1 .. (Len(q) - n) |-> q[n + i]]
  BY <1>2, <1>3, <1>4 DEF Drop
<1>6. \A i \in 1 .. (Len(q) - n) : q[n + i] \in S
  BY <1>4
<1> QED
  BY <1>1, <1>5, <1>6

(* As many readers get a character as there are of both. *)
LEMMA PairedIs ==
    ASSUME NEW ts \in Seq(Fd), NEW chars \in Seq(Nat)
    PROVE  LET n == Cardinality(Paired(ts, chars)) IN
           /\ Paired(ts, chars) = 1 .. n
           /\ n \in Nat /\ n <= Len(ts) /\ n <= Len(chars)
           /\ n = Len(ts) \/ n = Len(chars)
<1> DEFINE k == IF Len(ts) < Len(chars) THEN Len(ts) ELSE Len(chars)
<1>1. k \in Nat /\ k <= Len(ts) /\ k <= Len(chars) /\ (k = Len(ts) \/ k = Len(chars))
  OBVIOUS
<1>2. Paired(ts, chars) = 1 .. k
  BY DEF Paired
<1> HIDE DEF k
<1>3. Cardinality(1 .. k) = k
  BY <1>1, FS_Interval
<1> QED
  BY <1>1, <1>2, <1>3

LEMMA AnswersAre ==
    ASSUME NEW ts \in Seq(Fd), NEW chars \in Seq(Nat)
    PROVE  /\ DOMAIN Answers(ts, chars) \subseteq Fd
           /\ \A fd \in DOMAIN Answers(ts, chars) : Answers(ts, chars)[fd] \in Int
<1>1. \A i \in Paired(ts, chars) : ts[i] \in Fd /\ chars[i] \in Nat
  <2> TAKE i \in Paired(ts, chars)
  <2>1. i \in 1 .. Len(ts) /\ i \in 1 .. Len(chars)
    BY PairedIs
  <2> QED
    BY <2>1
<1>2. DOMAIN Answers(ts, chars) = {ts[i] : i \in Paired(ts, chars)}
  BY DEF Answers
<1>3. ASSUME NEW fd \in {ts[i] : i \in Paired(ts, chars)}
      PROVE  Answers(ts, chars)[fd] \in Nat
  <2>1. PICK i \in Paired(ts, chars) : ts[i] = fd
    OBVIOUS
  <2> DEFINE j == CHOOSE j \in Paired(ts, chars) : ts[j] = fd
  <2>2. j \in Paired(ts, chars)
    BY <2>1
  <2>3. Answers(ts, chars)[fd] = chars[j]
    BY DEF Answers
  <2> QED
    BY <1>1, <2>2, <2>3
<1> QED
  BY <1>1, <1>2, <1>3

LEMMA ReplyIs ==
    ASSUME NEW s, FreeFds(s) # {}, NEW st \in Int
    PROVE  /\ DOMAIN Reply(s, st) \subseteq Fd
           /\ \A fd \in DOMAIN Reply(s, st) : Reply(s, st)[fd] \in Int
<1>1. Tid(s) \in Fd
  BY TidIsFree
<1> QED
  BY <1>1 DEF Reply

LEMMA ConcatIs ==
    ASSUME NEW S, NEW a \in Seq(S), NEW b \in Seq(S)
    PROVE  /\ a \o b \in Seq(S) /\ Len(a \o b) = Len(a) + Len(b)
           /\ \A i \in 1 .. Len(a) : (a \o b)[i] = a[i]
           /\ \A i \in 1 .. Len(b) : (a \o b)[Len(a) + i] = b[i]
  OBVIOUS

LEMMA DropEach ==
    ASSUME NEW q \in Seq(Nat), NEW n \in 0 .. Len(q)
    PROVE  /\ Drop(q, n) \in Seq(Nat) /\ Len(Drop(q, n)) = Len(q) - n
           /\ Len(Drop(q, n)) \in Nat
           /\ \A i \in 1 .. Len(Drop(q, n)) :
                 Drop(q, n)[i] = q[n + i] /\ n + i \in 1 .. Len(q)
<1>1. /\ Drop(q, n) \in Seq(Nat) /\ Len(Drop(q, n)) = Len(q) - n
      /\ \A i \in 1 .. (Len(q) - n) : Drop(q, n)[i] = q[n + i]
  BY DropIs, ZenonT(30)
<1>2. Len(q) - n \in Nat /\ \A i \in 1 .. (Len(q) - n) : n + i \in 1 .. Len(q)
  OBVIOUS
<1> QED
  BY <1>1, <1>2, ZenonT(30)

(* What is taken from the front leaves the rest without a gap. *)
LastsOf(u, p) == \A i \in 1 .. Len(u) : u[i] = (p - Len(u)) + i

LEMMA DropKeepsInput ==
    ASSUME NEW q \in Seq(Nat), NEW f \in Seq(Nat), NEW p \in Nat, NEW n \in 0 .. Len(q),
           LastsOf(q \o f, p)
    PROVE  LastsOf(Drop(q, n) \o f, p)
<1> DEFINE d == Drop(q, n)  u == d \o f  v == q \o f
<1>1. /\ d \in Seq(Nat) /\ Len(d) = Len(q) - n /\ Len(d) \in Nat
      /\ \A i \in 1 .. Len(d) : d[i] = q[n + i] /\ n + i \in 1 .. Len(q)
  BY DropEach
<1>2. Len(q) \in Nat /\ Len(f) \in Nat /\ n \in Nat
  OBVIOUS
<1>3. /\ Len(v) = Len(q) + Len(f)
      /\ \A i \in 1 .. Len(q) : v[i] = q[i]
      /\ \A i \in 1 .. Len(f) : v[Len(q) + i] = f[i]
  BY <1>2
<1> HIDE DEF d
<1>4. /\ Len(u) = Len(d) + Len(f)
      /\ \A i \in 1 .. Len(d) : u[i] = d[i]
      /\ \A i \in 1 .. Len(f) : u[Len(d) + i] = f[i]
  <2>1. d \in Seq(Nat)
    BY <1>1
  <2> QED
    BY <2>1, ConcatIs
<1> HIDE DEF u
<1> HIDE DEF v
<1>5. \A i \in 1 .. Len(v) : v[i] = (p - Len(v)) + i
  BY DEF v, LastsOf
<1>6. ASSUME NEW i \in 1 .. Len(u) PROVE u[i] = (p - Len(u)) + i
  <2>1. CASE i \in 1 .. Len(d)
    <3>1. u[i] = d[i] /\ d[i] = q[n + i] /\ n + i \in 1 .. Len(q) /\ i \in Nat
      BY <1>1, <1>4, <2>1, SMTT(30)
    <3>4. q[n + i] = v[n + i] /\ n + i \in 1 .. Len(v)
      BY <1>2, <1>3, <3>1
    <3>2. v[n + i] = (p - Len(v)) + (n + i)
      BY <1>5, <3>4
    <3>3. Len(u) = Len(v) - n /\ Len(v) \in Nat
      BY <1>1, <1>2, <1>3, <1>4
    <3> QED
      BY <1>2, <3>1, <3>2, <3>3, <3>4
  <2>2. CASE i \notin 1 .. Len(d)
    <3>1. PICK j \in 1 .. Len(f) : i = Len(d) + j
      <4>1. i - Len(d) \in 1 .. Len(f) /\ i = Len(d) + (i - Len(d))
        BY <1>1, <1>2, <1>4, <2>2
      <4> QED
        BY <4>1
    <3>2. u[i] = v[Len(q) + j] /\ Len(q) + j \in 1 .. Len(v)
      BY <1>1, <1>2, <1>3, <1>4, <3>1
    <3>3. v[Len(q) + j] = (p - Len(v)) + (Len(q) + j)
      BY <1>5, <3>2
    <3> QED
      BY <1>1, <1>2, <1>3, <1>4, <3>1, <3>2, <3>3
  <2> QED
    BY <2>1, <2>2
<1> QED
  BY <1>6 DEF u, d, LastsOf

(* Both handlers end with handing out characters to readers. *)
LEMMA DeliverKeeps ==
    ASSUME TestInv, NEW ts \in Seq(Fd), Len(ts) <= RX_TIDS_MAX, NEW chars \in Seq(Nat),
           Len(chars) <= RX_BUF_MAX, Deliver(ts, chars),
           pressed' = pressed, rxfifo' \in Seq(Nat), Len(rxfifo') <= FIFO_MAX,
           UNCHANGED enabled, waiting' \subseteq Notifier,
           LastsOf(chars \o rxfifo', pressed)
    PROVE  RxKeeps' /\ IntKeeps' /\ InputContiguous'
<1> DEFINE n == Cardinality(Paired(ts, chars))
<1>1. n \in 0 .. Len(ts) /\ n \in 0 .. Len(chars)
  <2>1. n \in Nat /\ n <= Len(ts) /\ n <= Len(chars) /\ Len(ts) \in Nat /\ Len(chars) \in Nat
    BY PairedIs
  <2> QED
    BY <2>1
<1>2. tidq' = Drop(ts, n) /\ rxq' = Drop(chars, n)
  BY DEF Deliver
<1> HIDE DEF n
<1>3. tidq' \in Seq(Fd) /\ Len(tidq') <= RX_TIDS_MAX
  <2>1. tidq' \in Seq(Fd) /\ Len(tidq') = Len(ts) - n /\ n \in Nat /\ Len(ts) \in Nat
    BY <1>1, <1>2, DropIs
  <2> QED
    BY <2>1, TestFacts
<1>4. rxq' \in Seq(Nat) /\ Len(rxq') <= RX_BUF_MAX
  <2>1. rxq' \in Seq(Nat) /\ Len(rxq') = Len(chars) - n /\ n \in Nat /\ Len(chars) \in Nat
    BY <1>1, <1>2, DropIs
  <2> QED
    BY <2>1, TestFacts
<1>5. pressed \in Nat
  BY DEF TestInv, ConsoleKeeps, RxKeeps
<1>6. RxKeeps'
  BY <1>3, <1>4, <1>5 DEF RxKeeps
<1>7. IntKeeps'
  <2>1. enabled \subseteq {"THR", "RHR"}
        /\ readback \in [ConsoleServer -> {Idle} \cup SUBSET {"THR", "RHR"}]
    BY DEF TestInv, ConsoleKeeps, IntKeeps
  <2>2. readback' = [readback EXCEPT ![RxServer] = enabled]
    BY DEF Deliver, ReadEnabled
  <2> QED
    BY <2>1, <2>2 DEF IntKeeps
<1>8. InputContiguous'
  <2>1. LastsOf(Drop(chars, n) \o rxfifo', pressed)
    BY <1>1, <1>5, DropKeepsInput
  <2> QED
    BY <1>2, <2>1 DEF InputContiguous, LastsOf
<1> QED
  BY <1>6, <1>7, <1>8

(* All that is received and not read is the last characters typed.         *)
LEMMA PushedAreLast ==
    ASSUME TestInv
    PROVE  EndsAt(FoldLeft(Pushed, rxq, rxfifo), pressed)
<1> DEFINE chars == FoldLeft(Pushed, rxq, rxfifo)
<1>1. /\ rxfifo \in Seq(Nat) /\ rxq \in Seq(Nat) /\ tidq \in Seq(Fd) /\ pressed \in Nat
      /\ Len(tidq) <= RX_TIDS_MAX /\ Len(rxq) <= RX_BUF_MAX
      /\ Len(rxfifo) \in Nat /\ Len(rxq) \in Nat
  BY DEF TestInv, ConsoleKeeps, RxKeeps
<1> DEFINE u == rxq \o rxfifo  b == pressed - Len(rxfifo)
<1>2. b \in Int /\ b + Len(rxfifo) = pressed
  BY <1>1
<1>3. /\ Len(u) = Len(rxq) + Len(rxfifo)
      /\ \A i \in 1 .. Len(rxq) : u[i] = rxq[i] /\ i \in 1 .. Len(u)
      /\ \A i \in 1 .. Len(rxfifo) : u[Len(rxq) + i] = rxfifo[i] /\ Len(rxq) + i \in 1 .. Len(u)
  BY <1>1
<1>4. \A i \in 1 .. Len(u) : u[i] = (pressed - Len(u)) + i
  BY DEF TestInv, InputContiguous
<1> HIDE DEF u
<1>5. EndsAt(rxq, b)
  <2>1. \A i \in 1 .. Len(rxq) : rxq[i] = (pressed - Len(u)) + i
    BY <1>3, <1>4
  <2>2. \A i \in 1 .. Len(rxq) : (pressed - Len(u)) + i = (b - Len(rxq)) + i
    BY <1>1, <1>3
  <2> QED
    BY <1>1, <2>1, <2>2 DEF EndsAt
<1>6. \A i \in 1 .. Len(rxfifo) : rxfifo[i] = b + i
  <2>1. \A i \in 1 .. Len(rxfifo) : rxfifo[i] = (pressed - Len(u)) + (Len(rxq) + i)
    BY <1>3, <1>4
  <2>2. \A i \in 1 .. Len(rxfifo) : (pressed - Len(u)) + (Len(rxq) + i) = b + i
    BY <1>1, <1>3
  <2> QED
    BY <2>1, <2>2
<1>7. EndsAt(chars, pressed)
  BY <1>1, <1>2, <1>5, <1>6, FoldEnds
<1> QED
  BY <1>7

LEMMA RxServeNotifyKeeps ==
    ASSUME TestInv, RxServeNotify, UNCHANGED <<lockVars, step>>
    PROVE  TestInv'
<1> DEFINE chars == FoldLeft(Pushed, rxq, rxfifo)
           replies == NotifyAnswers(tidq, chars)
<1>1. /\ Incoming(RxServer) /\ Serve(RxServer, replies) /\ rxfifo' = <<>>
      /\ Deliver(tidq, chars) /\ waiting' = waiting \cup {RxNotifier}
      /\ UNCHANGED <<txVars, pressed, enabled>>
  BY DEF RxServeNotify, Receives
<1>2. /\ rxfifo \in Seq(Nat) /\ rxq \in Seq(Nat) /\ tidq \in Seq(Fd) /\ pressed \in Nat
      /\ Len(tidq) <= RX_TIDS_MAX /\ Len(rxq) <= RX_BUF_MAX
      /\ Len(rxfifo) \in Nat /\ Len(rxq) \in Nat
  BY DEF TestInv, ConsoleKeeps, RxKeeps
<1>3. EndsAt(chars, pressed)
  BY PushedAreLast
<1> HIDE DEF chars
<1>4. chars \in Seq(Nat) /\ Len(chars) <= RX_BUF_MAX
  BY <1>3 DEF EndsAt
<1>5. MsgInv' /\ ChildrenPrint' /\ Transmits' /\ TxKeeps' /\ LinesKept'
  <2>1. /\ DOMAIN Answers(tidq, chars) \subseteq Fd
        /\ \A fd \in DOMAIN Answers(tidq, chars) : Answers(tidq, chars)[fd] \in Int
    BY <1>2, <1>4, AnswersAre
  <2>2. Tid(RxServer) \in Fd
    BY <1>1, TidIsFree DEF Serve
  <2>3. DOMAIN replies \subseteq Fd /\ \A fd \in DOMAIN replies : replies[fd] \in Int
    BY <2>1, <2>2 DEF NotifyAnswers
  <2> QED
    BY <1>1, <2>3, RxServeKeepsChildren
<1>6. RxKeeps' /\ IntKeeps' /\ InputContiguous'
  <2>1. rxfifo' \in Seq(Nat) /\ Len(rxfifo') <= FIFO_MAX /\ chars \o rxfifo' = chars
    BY <1>1, <1>4, TestFacts
  <2>2. waiting' \subseteq Notifier
    BY <1>1 DEF Notifier, TestInv, ConsoleKeeps, IntKeeps
  <2> QED
    BY <1>1, <1>2, <1>3, <1>4, <2>1, <2>2, DeliverKeeps DEF EndsAt, LastsOf
<1> QED
  BY <1>5, <1>6, ConsoleStep

LEMMA RxServeGetcharKeeps ==
    ASSUME TestInv, RxServeGetchar, UNCHANGED <<lockVars, step>>
    PROVE  TestInv'
<1>1. /\ Incoming(RxServer) /\ UNCHANGED <<txVars, rxfifo, pressed, enabled, waiting>>
      /\ FreeFds(RxServer) # {}
  BY DEF RxServeGetchar, Receives, Serve
<1>2. /\ RxKeeps /\ IntKeeps /\ InputContiguous
      /\ rxfifo \in Seq(Nat) /\ rxq \in Seq(Nat) /\ tidq \in Seq(Fd)
      /\ Len(tidq) <= RX_TIDS_MAX /\ Len(rxq) <= RX_BUF_MAX /\ Len(rxfifo) <= FIFO_MAX
  BY DEF TestInv, ConsoleKeeps, RxKeeps
<1>3. Tid(RxServer) \in Fd
  BY <1>1, TidIsFree
<1>4. CASE Len(tidq) = RX_TIDS_MAX
  <2> DEFINE replies == Reply(RxServer, ENOMEM)
  <2>1. Serve(RxServer, replies) /\ UNCHANGED <<rxq, tidq, readback>>
    BY <1>4 DEF RxServeGetchar
  <2>2. DOMAIN replies \subseteq Fd /\ \A fd \in DOMAIN replies : replies[fd] \in Int
    <3>1. ENOMEM \in Int
      BY DEF ENOMEM
    <3> QED
      BY <1>1, <3>1, ReplyIs
  <2> HIDE DEF replies
  <2>3. MsgInv' /\ ChildrenPrint' /\ Transmits' /\ TxKeeps' /\ LinesKept'
    BY <1>1, <2>1, <2>2, RxServeKeepsChildren
  <2>4. RxKeeps' /\ IntKeeps' /\ InputContiguous'
    BY <1>1, <1>2, <2>1 DEF RxKeeps, IntKeeps, InputContiguous
  <2> QED
    BY <2>3, <2>4, ConsoleStep
<1>5. CASE Len(tidq) # RX_TIDS_MAX
  <2> DEFINE readers == Append(tidq, Tid(RxServer))
             replies == Answers(readers, rxq)
  <2>1. Serve(RxServer, replies) /\ Deliver(readers, rxq)
    BY <1>5 DEF RxServeGetchar
  <2>2. readers \in Seq(Fd) /\ Len(readers) <= RX_TIDS_MAX
    <3>1. readers \in Seq(Fd) /\ Len(readers) = Len(tidq) + 1 /\ Len(tidq) \in Nat
      BY <1>2, <1>3
    <3> QED
      BY <1>2, <1>5, <3>1, TestFacts
  <2> HIDE DEF readers
  <2>3. DOMAIN replies \subseteq Fd /\ \A fd \in DOMAIN replies : replies[fd] \in Int
    BY <1>2, <2>2, AnswersAre
  <2> HIDE DEF replies
  <2>4. MsgInv' /\ ChildrenPrint' /\ Transmits' /\ TxKeeps' /\ LinesKept'
    BY <1>1, <2>1, <2>3, RxServeKeepsChildren
  <2>5. LastsOf(rxq \o rxfifo', pressed) /\ waiting' \subseteq Notifier
    BY <1>1, <1>2 DEF LastsOf, InputContiguous, IntKeeps
  <2>6. RxKeeps' /\ IntKeeps' /\ InputContiguous'
    BY <1>1, <1>2, <2>1, <2>2, <2>5, DeliverKeeps
  <2> QED
    BY <2>4, <2>6, ConsoleStep
<1> QED
  BY <1>4, <1>5

LEMMA RxServeOtherKeeps ==
    ASSUME TestInv, RxServeOther, UNCHANGED <<lockVars, step>>
    PROVE  TestInv'
<1> DEFINE replies == Reply(RxServer, ENOFUNC)
<1>1. /\ Incoming(RxServer) /\ FreeFds(RxServer) # {} /\ Serve(RxServer, replies)
      /\ UNCHANGED consoleVars
  BY DEF RxServeOther, Receives, Serve
<1>2. DOMAIN replies \subseteq Fd /\ \A fd \in DOMAIN replies : replies[fd] \in Int
  <2>1. ENOFUNC \in Int
    BY DEF ENOFUNC
  <2> QED
    BY <1>1, <2>1, ReplyIs
<1> HIDE DEF replies
<1>3. UNCHANGED <<rxVars, intVars>> /\ UNCHANGED txVars
  BY <1>1 DEF consoleVars
<1>4. MsgInv' /\ ChildrenPrint' /\ Transmits' /\ TxKeeps' /\ LinesKept'
  BY <1>1, <1>2, <1>3, RxServeKeepsChildren
<1>5. RxKeeps' /\ IntKeeps' /\ InputContiguous'
  BY <1>3 DEF TestInv, ConsoleKeeps, RxKeeps, IntKeeps, InputContiguous, rxVars, intVars
<1> QED
  BY <1>4, <1>5, ConsoleStep

(* Nothing but the panic happens. *)
LEMMA StillKeeps ==
    ASSUME TestInv, UNCHANGED <<phase, msg, status, inbox, tids>>, crashed' \in BOOLEAN,
           UNCHANGED consoleVars, UNCHANGED <<lockVars, step>>
    PROVE  TestInv'
<1>1. /\ UNCHANGED <<wire, txfifo, txq, txpc, txtid, rest>>
      /\ UNCHANGED <<rxfifo, rxq, tidq, pressed>> /\ UNCHANGED <<enabled, readback, waiting>>
  BY DEF consoleVars, txVars, rxVars, intVars
<1>2. MsgInv' /\ ChildrenPrint' /\ Transmits' /\ LinesKept'
  BY <1>1, MsgUnchanged, ChildrenSame, TransmitsSame, PrintedSame DEF TestInv
<1>3. TxKeeps' /\ RxKeeps' /\ IntKeeps' /\ InputContiguous'
  BY <1>1 DEF TxKeeps, RxKeeps, IntKeeps, InputContiguous, TestInv, ConsoleKeeps
<1> QED
  BY <1>2, <1>3, ConsoleStep

LEMMA ReadingKeeps ==
    ASSUME TestInv, Reading
    PROVE  TestInv'
<1>1. UNCHANGED <<lockVars, step>> /\ RxStep
  BY DEF Reading, Others
<1>2. CASE IntEnable(RxServer, "RHR")
  BY <1>1, <1>2, EnableKeeps, TestFacts
<1>3. CASE OutOfFds(RxServer) /\ UNCHANGED consoleVars
  BY <1>1, <1>3, StillKeeps DEF OutOfFds
<1> QED
  BY <1>1, <1>2, <1>3, RxServeNotifyKeeps, RxServeGetcharKeeps, RxServeOtherKeeps DEF RxStep

-----------------------------------------------------------------------------
(* The invariant.                                                          *)

LEMMA InterruptsKeep ==
    ASSUME TestInv, NEW n \in Notifier, Interrupts(n)
    PROVE  TestInv'
<1>1. CASE n = TxNotifier
  <2>1. Interrupt("THR", TxNotifier) /\ Others
    BY <1>1 DEF Interrupts, ThrInterrupt
  <2> QED
    BY <2>1, InterruptKeeps DEF Notifier
<1>2. CASE n # TxNotifier
  <2>1. Interrupt("RHR", RxNotifier) /\ Others
    BY <1>2 DEF Interrupts, RhrInterrupt
  <2> QED
    BY <2>1, InterruptKeeps DEF Notifier
<1> QED
  BY <1>1, <1>2

LEMMA TestInvInit == TestInit => TestInv
<1> SUFFICES ASSUME TestInit PROVE TestInv
  OBVIOUS
<1>1. MsgInv
  BY MsgInitKeeps DEF TestInit
<1>2. LockInv
  BY LockInvInit DEF TestInit
<1>3. /\ wire = <<>> /\ txfifo = <<>> /\ txq = <<>> /\ rest = <<>>
      /\ rxfifo = <<>> /\ rxq = <<>> /\ tidq = <<>> /\ pressed = 0
      /\ txpc = "receive" /\ txtid = NoTid
      /\ enabled = {"THR", "RHR"} /\ readback = [s \in ConsoleServer |-> Idle]
      /\ waiting = Notifier /\ step = [c \in Child |-> -1]
  BY DEF TestInit, ConsoleInit
<1>4. ConsoleKeeps
  <2>1. TxKeeps
    <3>1. <<>> \in Seq(Chars) /\ Len(<<>>) = 0
      OBVIOUS
    <3> QED
      BY <1>3, <3>1, TestFacts DEF TxKeeps
  <2>2. RxKeeps
    <3>1. <<>> \in Seq(Nat) /\ <<>> \in Seq(Fd) /\ Len(<<>>) = 0
      OBVIOUS
    <3> QED
      BY <1>3, <3>1, TestFacts DEF RxKeeps
  <2>3. IntKeeps
    BY <1>3 DEF IntKeeps
  <2>4. step \in [Child -> -1 .. LastStep]
    <3>1. LastStep \in Nat
      BY LockTestAssumption DEF LastStep
    <3>2. -1 \in -1 .. LastStep
      BY <3>1
    <3> QED
      BY <1>3, <3>2
  <2> QED
    BY <2>1, <2>2, <2>3, <2>4 DEF ConsoleKeeps
<1>5. InputContiguous
  <2>1. Len(rxq \o rxfifo) = 0
    BY <1>3
  <2> QED
    BY <2>1 DEF InputContiguous
<1>6. \A c \in Child : step[c] < 0 /\ ~(step[c] >= 0)
  BY <1>3
<1>7. LockAgrees
  <2>1. \A c \in Child : lockstatus[TheLock][c] = "out"
    BY TestFacts DEF TestInit, Init
  <2> QED
    BY <1>6, <2>1 DEF LockAgrees, InLine
<1>8. ChildrenPrint
  <2>1. \A c \in Child : phase[c] = "ready"
    BY TestFacts DEF TestInit, MsgInit
  <2>2. DOMAIN inbox[TxServer] = {}
    BY TestFacts DEF TestInit, MsgInit
  <2> QED
    BY <2>1, <2>2 DEF ChildrenPrint
<1>9. Transmits
  BY <1>3 DEF Transmits
<1>10. BegunOnly /\ OpenAtEnd /\ LinesWhole
  <2>1. Printed = <<>>
    BY <1>3 DEF Printed
  <2>2. DOMAIN Printed = {} /\ 1 .. (Len(Printed) - 1) = {}
    BY <2>1
  <2> QED
    BY <2>2 DEF BegunOnly, OpenAtEnd, LinesWhole
<1> QED
  BY <1>1, <1>2, <1>4, <1>5, <1>7, <1>8, <1>9, <1>10 DEF TestInv

LEMMA TestInvNext == TestInv /\ [TestNext]_testVars => TestInv'
<1> SUFFICES ASSUME TestInv, [TestNext]_testVars PROVE TestInv'
  OBVIOUS
<1>1. CASE MainStep
  BY <1>1, MainKeeps
<1>2. ASSUME NEW c \in Child, ChildStep(c) PROVE TestInv'
  BY <1>2, ChildLocksKeeps, ChildPrintsKeeps DEF ChildStep
<1>3. CASE LockServing
  BY <1>3, LockServingKeeps
<1>4. CASE Uart \/ Printing \/ Reading
  BY <1>4, UartKeeps, PrintingKeeps, ReadingKeeps
<1>5. ASSUME NEW n \in Notifier, Interrupts(n) \/ Notifies(n) PROVE TestInv'
  BY <1>5, InterruptsKeep, NotifyKeeps
<1>6. CASE Keys
  BY <1>6, KeysKeep
<1>7. ASSUME NEW r \in Reader, ShellCalls(r) PROVE TestInv'
  BY <1>7, ShellKeeps
<1>8. CASE UNCHANGED testVars
  <2>1. /\ UNCHANGED <<phase, msg, status, inbox, tids, crashed>> /\ UNCHANGED consoleVars
        /\ UNCHANGED <<lockVars, step>>
    BY <1>8 DEF testVars, ioVars, msgVars
  <2> QED
    BY <2>1, StillKeeps DEF TestInv, MsgInv, MsgTypeOK
<1> QED
  BY <1>1, <1>2, <1>3, <1>4, <1>5, <1>6, <1>7, <1>8 DEF TestNext, System

THEOREM TestInvariant == TestSpec => []TestInv
<1> QED
  BY TestInvInit, TestInvNext, PTL DEF TestSpec

-----------------------------------------------------------------------------
(* What is heard of a message: a fold over all that is printed.            *)

Ch == Child \cup {"\n", "\r"}

HeardAll(s, m) ==
    CHOOSE iter : iter = [t \in SUBSET (DOMAIN s) |->
        IF t = {} THEN <<>> ELSE Hear(iter[t \ {Max(t)}], s[Max(t)], m)]

LEMMA HeardFold ==
    \A s, m : Heard(s, m) = HeardAll(s, m)[DOMAIN s]
  BY Zenon DEF Heard, FoldLeft, MapThenFoldSet, HeardAll

LEMMA HearIs ==
    ASSUME NEW u \in Seq(Ch), NEW ch \in Chars, NEW m
    PROVE  Hear(u, ch, m) \in Seq(Ch)
<1>1. ch.char \in Ch
  BY DEF Chars, Ch
<1>2. Append(u, ch.char) \in Seq(Ch)
  BY <1>1
<1> QED
  BY <1>2 DEF Hear

LEMMA HeardAllIs ==
    ASSUME NEW s \in Seq(Chars), NEW m
    PROVE  \A t \in SUBSET (DOMAIN s) :
               HeardAll(s, m)[t] =
                   IF t = {} THEN <<>>
                   ELSE Hear(HeardAll(s, m)[t \ {Max(t)}], s[Max(t)], m)
<1> DEFINE op == [p \in Seq(Ch) \X Chars |-> Hear(p[1], p[2], m)]
           h  == HeardAll(s, m)
<1>1. op \in [Seq(Ch) \X Chars -> Seq(Ch)]
  BY HearIs
<1>2. \A u \in Seq(Ch), c \in Chars : op[<<u, c>>] = Hear(u, c, m)
  OBVIOUS
<1> HIDE DEF op
<1>3. <<>> \in Seq(Ch)
  OBVIOUS
<1>4. PICK g \in [SUBSET (DOMAIN s) -> Seq(Ch)] : FoldSteps(g, Chars, Seq(Ch), s, <<>>, op)
  BY <1>1, <1>3, FoldRecursion
<1>5. \A t \in SUBSET (DOMAIN s) :
         g[t] = IF t = {} THEN <<>> ELSE Hear(g[t \ {Max(t)}], s[Max(t)], m)
  <2> TAKE t \in SUBSET (DOMAIN s)
  <2>1. CASE t = {}
    BY <1>4, <2>1, Zenon DEF FoldSteps
  <2>2. CASE t # {}
    <3>1. /\ s[Max(t)] \in Chars /\ g[t \ {Max(t)}] \in Seq(Ch)
          /\ g[t] = op[<<g[t \ {Max(t)}], s[Max(t)]>>]
      BY <1>4, <2>2, Zenon DEF FoldSteps
    <3>2. g[t] = Hear(g[t \ {Max(t)}], s[Max(t)], m)
      BY <1>2, <3>1, Zenon
    <3> QED
      BY <2>2, <3>2, Zenon
  <2> QED
    BY <2>1, <2>2, Zenon
<1>6. g = [t \in SUBSET (DOMAIN s) |->
               IF t = {} THEN <<>> ELSE Hear(g[t \ {Max(t)}], s[Max(t)], m)]
  BY <1>5
<1>7. h = [t \in SUBSET (DOMAIN s) |->
               IF t = {} THEN <<>> ELSE Hear(h[t \ {Max(t)}], s[Max(t)], m)]
  BY <1>6, Zenon DEF HeardAll
<1> HIDE DEF h
<1>8. \A t \in SUBSET (DOMAIN s) :
         h[t] = IF t = {} THEN <<>> ELSE Hear(h[t \ {Max(t)}], s[Max(t)], m)
  BY <1>7
<1> QED
  BY <1>8 DEF h

(* Character by character. *)
LEMMA HeardUpto ==
    ASSUME NEW s \in Seq(Chars), NEW m
    PROVE  LET h == HeardAll(s, m) IN
           /\ h[1 .. 0] = <<>>
           /\ \A k \in Nat : k < Len(s) => h[1 .. (k + 1)] = Hear(h[1 .. k], s[k + 1], m)
           /\ \A k \in Nat : k <= Len(s) => h[1 .. k] \in Seq(Ch)
<1> DEFINE h == HeardAll(s, m)
           P == {k \in Nat : k <= Len(s) => h[1 .. k] \in Seq(Ch)}
<1>1. /\ Len(s) \in Nat /\ DOMAIN s = 1 .. Len(s)
      /\ \A i \in 1 .. Len(s) : s[i] \in Chars
  OBVIOUS
<1>2. \A t \in SUBSET (DOMAIN s) :
         h[t] = IF t = {} THEN <<>> ELSE Hear(h[t \ {Max(t)}], s[Max(t)], m)
  BY HeardAllIs
<1> HIDE DEF h
<1>3. h[1 .. 0] = <<>>
  <2>1. 1 .. 0 = {} /\ {} \in SUBSET (DOMAIN s)
    OBVIOUS
  <2> QED
    BY <1>2, <2>1
<1>4. ASSUME NEW k \in Nat, k < Len(s)
      PROVE  h[1 .. (k + 1)] = Hear(h[1 .. k], s[k + 1], m)
  <2> DEFINE t == 1 .. (k + 1)
  <2>1. t \in SUBSET (DOMAIN s) /\ t # {}
    <3>1. k + 1 \in 1 .. (k + 1) /\ \A i \in 1 .. (k + 1) : i \in 1 .. Len(s)
      BY <1>1, <1>4
    <3> QED
      BY <1>1, <3>1
  <2>2. Max(t) = k + 1 /\ t \ {k + 1} = 1 .. k
    BY MaxOfFirst
  <2> HIDE DEF t
  <2>3. h[t] = Hear(h[t \ {Max(t)}], s[Max(t)], m)
    BY <1>2, <2>1
  <2>4. t \ {Max(t)} = 1 .. k
    BY <2>2
  <2>5. h[t] = Hear(h[1 .. k], s[k + 1], m)
    BY <2>2, <2>3, <2>4
  <2> QED
    BY <2>5 DEF t
<1>5. \A k \in Nat : k \in P
  <2>1. 0 \in P
    <3>1. <<>> \in Seq(Ch)
      OBVIOUS
    <3> QED
      BY <1>3, <3>1
  <2>2. ASSUME NEW k \in Nat, k \in P PROVE k + 1 \in P
    <3>1. CASE k < Len(s)
      <4>1. h[1 .. k] \in Seq(Ch) /\ k + 1 \in 1 .. Len(s)
        BY <1>1, <2>2, <3>1
      <4>2. h[1 .. (k + 1)] \in Seq(Ch)
        BY <1>1, <1>4, <3>1, <4>1, HearIs
      <4> QED
        BY <4>2
    <3>2. CASE ~(k < Len(s))
      BY <1>1, <3>2
    <3> QED
      BY <3>1, <3>2
  <2> HIDE DEF P
  <2> QED
    BY <2>1, <2>2, NatInduct
<1> QED
  BY <1>3, <1>4, <1>5 DEF h

LEMMA HeardNothing == ASSUME NEW m PROVE Heard(<<>>, m) = <<>>
<1>1. <<>> \in Seq(Chars) /\ DOMAIN <<>> = {} /\ 1 .. 0 = {}
  OBVIOUS
<1>2. HeardAll(<<>>, m)[1 .. 0] = <<>>
  BY <1>1, HeardUpto
<1> QED
  BY <1>1, <1>2, HeardFold

LEMMA HeardMore ==
    ASSUME NEW s \in Seq(Chars), NEW x \in Chars, NEW m
    PROVE  /\ Heard(s, m) \in Seq(Ch)
           /\ Heard(Append(s, x), m) = Hear(Heard(s, m), x, m)
<1> DEFINE z == Append(s, x)  h == HeardAll(s, m)  g == HeardAll(z, m)
           P == {k \in Nat : k <= Len(s) => g[1 .. k] = h[1 .. k]}
<1>1. /\ Len(s) \in Nat /\ DOMAIN s = 1 .. Len(s)
      /\ z \in Seq(Chars) /\ DOMAIN z = 1 .. (Len(s) + 1) /\ Len(z) = Len(s) + 1
      /\ z[Len(s) + 1] = x /\ \A i \in 1 .. Len(s) : z[i] = s[i]
  OBVIOUS
<1>2. /\ h[1 .. 0] = <<>>
      /\ \A k \in Nat : k < Len(s) => h[1 .. (k + 1)] = Hear(h[1 .. k], s[k + 1], m)
      /\ h[1 .. Len(s)] \in Seq(Ch)
  BY <1>1, HeardUpto
<1> HIDE DEF z
<1>3. /\ g[1 .. 0] = <<>>
      /\ \A k \in Nat : k < Len(s) + 1 => g[1 .. (k + 1)] = Hear(g[1 .. k], z[k + 1], m)
  BY <1>1, HeardUpto
<1> HIDE DEF h, g
<1>4. \A k \in Nat : k \in P
  <2>1. 0 \in P
    BY <1>2, <1>3
  <2>2. ASSUME NEW k \in Nat, k \in P PROVE k + 1 \in P
    <3>1. CASE k < Len(s)
      <4>1. g[1 .. k] = h[1 .. k] /\ z[k + 1] = s[k + 1] /\ k < Len(s) + 1
        BY <1>1, <2>2, <3>1
      <4>2. g[1 .. (k + 1)] = h[1 .. (k + 1)]
        BY <1>2, <1>3, <3>1, <4>1
      <4> QED
        BY <4>2
    <3>2. CASE ~(k < Len(s))
      BY <1>1, <3>2
    <3> QED
      BY <3>1, <3>2
  <2> HIDE DEF P
  <2> QED
    BY <2>1, <2>2, NatInduct
<1>5. g[1 .. Len(s)] = h[1 .. Len(s)]
  BY <1>1, <1>4
<1>6. g[1 .. (Len(s) + 1)] = Hear(g[1 .. Len(s)], x, m)
  BY <1>1, <1>3
<1>7. Heard(s, m) = h[1 .. Len(s)] /\ Heard(z, m) = g[1 .. (Len(s) + 1)]
  BY <1>1, HeardFold DEF h, g
<1> QED
  BY <1>2, <1>5, <1>6, <1>7 DEF z

-----------------------------------------------------------------------------
(* What has been heard of the children's messages.                         *)

(* A message that c has not sent yet. *)
Ahead(c, r, k) ==
    step[c] < 0 \/ r > RoundOf(c) \/ (r = RoundOf(c) /\ k >= CallOf(c))

NothingAhead ==
    \A c \in Child, r \in Nat, k \in Nat :
        Ahead(c, r, k) => Heard(Printed, [line |-> <<c, r>>, call |-> k]) = <<>>

(* A message is of the past once it is sent, and not heard of before it is *)
(* received.  Then, what is still to print of it is what has not been heard. *)
SentOnce ==
    \A c \in Child : phase[c] # "ready" =>
        ~Ahead(c, msg[c].id.line[2], msg[c].id.call)
NotHeardYet ==
    \A c \in Child : phase[c] = "sending" => Heard(Printed, msg[c].id) = <<>>

Text(q) == [i \in 1 .. Len(q) |-> q[i].char]
RestFollows ==
    txtid # NoTid =>
        LET m == msg[tids[TxServer][txtid]] IN
        Heard(Printed, m.id) \o Text(rest) = m.text

(* Who waits for characters does not print. *)
ReadersRead ==
    \A fd \in Fd : tids[RxServer][fd] # Nobody =>
        msg[tids[RxServer][fd]].code # "WRITE"

Said == NothingAhead /\ SentOnce /\ NotHeardYet /\ RestFollows /\ ReadersRead

AheadLess == \A c \in Child, r \in Nat, k \in Nat : Ahead(c, r, k)' => Ahead(c, r, k)

LEMMA AheadSame ==
    ASSUME step' = step
    PROVE  AheadLess
  BY DEF AheadLess, Ahead, RoundOf, CallOf

LEMMA AheadOnCall ==
    ASSUME ConsoleKeeps, NEW c \in Child, step[c] >= 0, step[c] < LastStep,
           step' = [step EXCEPT ![c] = @ + 1]
    PROVE  /\ AheadLess
           /\ \A k, r : CallOf(c) # Chunks + 2 /\ r = RoundOf(c) /\ k = CallOf(c)
                 => ~Ahead(c, r, k)'
<1>1. /\ step'[c] = step[c] + 1 /\ \A d \in Child \ {c} : step'[d] = step[d]
      /\ CallOf(c)' = IF CallOf(c) = Chunks + 2 THEN 0 ELSE CallOf(c) + 1
      /\ RoundOf(c)' = IF CallOf(c) = Chunks + 2 THEN RoundOf(c) + 1 ELSE RoundOf(c)
  BY CallMade
<1>2. /\ step[c] \in Nat /\ CallOf(c) \in 0 .. (Chunks + 2) /\ RoundOf(c) \in Nat
      /\ Chunks \in Nat
  BY CallTypes
<1>3. \A d \in Child \ {c} : RoundOf(d)' = RoundOf(d) /\ CallOf(d)' = CallOf(d)
  BY <1>1 DEF RoundOf, CallOf
<1>4. ASSUME NEW d \in Child, NEW r \in Nat, NEW k \in Nat, Ahead(d, r, k)'
      PROVE  Ahead(d, r, k)
  <2>1. CASE d = c
    <3> HIDE DEF CallOf, RoundOf
    <3>1. r > RoundOf(c)' \/ (r = RoundOf(c)' /\ k >= CallOf(c)')
      BY <1>1, <1>2, <1>4, <2>1 DEF Ahead
    <3>2. r > RoundOf(c) \/ (r = RoundOf(c) /\ k >= CallOf(c))
      BY <1>1, <1>2, <3>1
    <3> QED
      BY <2>1, <3>2 DEF Ahead
  <2>2. CASE d # c
    BY <1>1, <1>3, <1>4, <2>2 DEF Ahead
  <2> QED
    BY <2>1, <2>2
<1>5. ASSUME NEW k, NEW r, CallOf(c) # Chunks + 2, r = RoundOf(c), k = CallOf(c)
      PROVE  ~Ahead(c, r, k)'
  <2>1. ~(step'[c] < 0)
    BY <1>1, <1>2
  <2> HIDE DEF CallOf, RoundOf
  <2> QED
    BY <1>1, <1>2, <1>5, <2>1 DEF Ahead
<1> QED
  BY <1>4, <1>5 DEF AheadLess

(* Nothing more is printed, no child sends, and who is received was        *)
(* waiting for it. *)
LEMMA SaidKept ==
    ASSUME TestInv, Said, Printed' = Printed, AheadLess,
           \A c \in Child : phase'[c] # "ready" =>
               /\ phase[c] # "ready" /\ msg'[c] = msg[c]
               /\ phase'[c] = "sending" => phase[c] = "sending",
           RestFollows', ReadersRead'
    PROVE  Said'
<1>1. NothingAhead'
  BY DEF NothingAhead, AheadLess, Said
<1>2. SentOnce'
  <2> SUFFICES ASSUME NEW c \in Child, phase'[c] # "ready"
               PROVE  ~Ahead(c, msg[c].id.line[2], msg[c].id.call)'
    BY DEF SentOnce
  <2>1. phase[c] # "ready" /\ msg'[c] = msg[c]
    OBVIOUS
  <2>2. Prints(c, msg[c]) /\ ~Ahead(c, msg[c].id.line[2], msg[c].id.call)
    BY <2>1 DEF TestInv, ChildrenPrint, Said, SentOnce
  <2>3. msg[c].id.line[2] \in Nat /\ msg[c].id.call \in Nat
    <3>1. RoundOf(c) \in Nat
      BY <2>1, CallTypes DEF TestInv, ChildrenPrint, InLine
    <3> QED
      BY <2>2, <3>1 DEF Prints, Line
  <2>4. PICK r \in Nat : r = msg[c].id.line[2]
    BY <2>3
  <2>5. PICK k \in Nat : k = msg[c].id.call
    BY <2>3
  <2>6. ~Ahead(c, r, k)
    BY <2>2, <2>4, <2>5
  <2>7. ~Ahead(c, r, k)'
    BY <2>6 DEF AheadLess
  <2>8. r = msg'[c].id.line[2] /\ k = msg'[c].id.call
    BY <2>1, <2>4, <2>5
  <2> QED
    BY <2>7, <2>8 DEF Ahead, RoundOf, CallOf
<1>3. NotHeardYet'
  BY DEF Said, NotHeardYet
<1> QED
  BY <1>1, <1>2, <1>3 DEF Said

(* What a child that is in a call has sent. *)
LEMMA ChildSends ==
    ASSUME TestInv, NEW c \in Child, phase[c] # "ready"
    PROVE  /\ msg[c].code = "WRITE" /\ msg[c].text \in Seq(Child \cup {"\n"})
           /\ msg[c].id.line[1] = c /\ msg[c].id.line = Line(c)
           /\ msg[c].id.line[2] \in Nat /\ msg[c].id.call \in Nat
           /\ msg[c].id = [line |-> <<c, msg[c].id.line[2]>>, call |-> msg[c].id.call]
<1>1. InLine(c) /\ Prints(c, msg[c]) /\ RoundOf(c) \in Nat
  <2>1. InLine(c) /\ Prints(c, msg[c])
    BY DEF TestInv, ChildrenPrint
  <2> QED
    BY <2>1, CallTypes DEF InLine, TestInv
<1>2. msg[c].id.line = <<c, RoundOf(c)>>
  BY <1>1 DEF Prints, Line
<1> QED
  BY <1>1, <1>2 DEF Prints, Line

(* The child that is answered in the end waits. *)
LEMMA Holder ==
    ASSUME TestInv, txtid # NoTid
    PROVE  /\ txtid \in Fd /\ tids[TxServer][txtid] \in Child
           /\ tids[TxServer][txtid] # Nobody
           /\ phase[tids[TxServer][txtid]] = "waiting"
<1>1. txtid \in Fd /\ tids[TxServer][txtid] \in Child
  BY DEF TestInv, Transmits, ConsoleKeeps, TxKeeps
<1> QED
  BY <1>1, TestFacts, NobodyAssumption DEF TestInv, MsgInv, PhaseTells, Kept

(* No child and no server does anything to what is being printed. *)
LEMMA SaidQuiet ==
    ASSUME TestInv, Said, UNCHANGED <<phase, msg, tids>>, Printed' = Printed, AheadLess,
           UNCHANGED <<txtid, rest>> \/ txtid' = NoTid
    PROVE  Said'
<1>1. RestFollows' /\ ReadersRead'
  BY DEF Said, RestFollows, ReadersRead, Text
<1> QED
  BY <1>1, SaidKept

(* The characters of some printed text. *)
LEMMA TextIs ==
    ASSUME NEW q \in Seq(Chars)
    PROVE  /\ Text(q) \in Seq(Ch) /\ Len(Text(q)) = Len(q)
           /\ q # <<>> => /\ Text(q) # <<>> /\ Head(Text(q)) = q[1].char
                          /\ Tail(Text(q)) = Text(Tail(q))
<1> DEFINE T == Text(q)
<1>1. \A x \in Chars : x.char \in Ch
  BY DEF Chars, Ch
<1>2. /\ Len(q) \in Nat /\ \A i \in 1 .. Len(q) : q[i] \in Chars
      /\ q # <<>> => /\ Len(q) > 0 /\ Tail(q) \in Seq(Chars) /\ Len(Tail(q)) = Len(q) - 1
                     /\ \A i \in 1 .. (Len(q) - 1) : Tail(q)[i] = q[i + 1]
  OBVIOUS
<1>3. /\ T \in Seq(Ch) /\ Len(T) = Len(q) /\ \A i \in 1 .. Len(q) : T[i] = q[i].char
  BY <1>1, <1>2 DEF Text
<1> HIDE DEF T
<1>4. ASSUME q # <<>>
      PROVE  T # <<>> /\ Head(T) = q[1].char /\ Tail(T) = Text(Tail(q))
  <2>1. /\ T # <<>> /\ Head(T) = T[1] /\ Tail(T) \in Seq(Ch) /\ Len(Tail(T)) = Len(q) - 1
        /\ \A i \in 1 .. (Len(q) - 1) : Tail(T)[i] = T[i + 1]
    BY <1>2, <1>3, <1>4
  <2>2. \A i \in 1 .. (Len(q) - 1) : i + 1 \in 1 .. Len(q)
    BY <1>2
  <2>3. \A i \in 1 .. (Len(q) - 1) : Tail(T)[i] = Tail(q)[i].char
    BY <1>2, <1>3, <1>4, <2>1, <2>2
  <2>4. DOMAIN Tail(T) = 1 .. (Len(q) - 1) /\ Tail(T) = [i \in DOMAIN Tail(T) |-> Tail(T)[i]]
    <3> DEFINE z == Tail(T)
    <3>1. z \in Seq(Ch) /\ Len(z) = Len(q) - 1
      BY <2>1
    <3> HIDE DEF z
    <3>2. DOMAIN z = 1 .. Len(z) /\ z = [i \in 1 .. Len(z) |-> z[i]]
      BY <3>1
    <3> QED
      BY <3>1, <3>2 DEF z
  <2>5. Text(Tail(q)) = [i \in 1 .. (Len(q) - 1) |-> Tail(q)[i].char]
    BY <1>2, <1>4 DEF Text
  <2>6. 1 \in 1 .. Len(q)
    BY <1>2, <1>4
  <2> QED
    BY <1>3, <2>1, <2>3, <2>4, <2>5, <2>6
<1> QED
  BY <1>3, <1>4 DEF T

LEMMA HeardTyped ==
    ASSUME NEW s \in Seq(Chars), NEW m
    PROVE  Heard(s, m) \in Seq(Ch)
<1>1. Len(s) \in Nat /\ DOMAIN s = 1 .. Len(s)
  OBVIOUS
<1>2. HeardAll(s, m)[1 .. Len(s)] \in Seq(Ch)
  BY <1>1, HeardUpto
<1> QED
  BY <1>1, <1>2, HeardFold

(* A proper beginning. *)
LEMMA PrefixIs ==
    ASSUME NEW S, NEW a \in Seq(S), NEW b \in Seq(S), Len(b) > 0
    PROVE  a # a \o b /\ IsPrefix(a, a \o b)
<1> DEFINE w == a \o b
<1>1. /\ w \in Seq(S) /\ Len(w) = Len(a) + Len(b) /\ Len(a) \in Nat /\ Len(b) \in Nat
      /\ \A i \in 1 .. Len(a) : w[i] = a[i]
  OBVIOUS
<1> HIDE DEF w
<1>2. SubSeq(w, 1, Len(a)) = a
  <2>1. SubSeq(w, 1, Len(a)) \in Seq(S) /\ Len(SubSeq(w, 1, Len(a))) = Len(a)
        /\ \A i \in 1 .. Len(a) : SubSeq(w, 1, Len(a))[i] = w[i]
    BY <1>1
  <2> QED
    BY <1>1, <2>1
<1>3. SubSeq(a, 1, Len(a)) = a
  OBVIOUS
<1>4. Len(a) <= Len(w) /\ Len(a) # Len(w)
  BY <1>1
<1> QED
  BY <1>2, <1>3, <1>4 DEF IsPrefix, w

(* The next character of a message is heard, or is a carriage return.      *)
LEMMA HeardNext ==
    ASSUME TestInv, RestFollows, rest # <<>>, Consume,
           UNCHANGED <<txtid, tids, msg>>
    PROVE  LET m == msg[tids[TxServer][txtid]]
           IN  /\ Emitted.of = m.id
               /\ Hear(Heard(Printed, m.id), Emitted, m.id) \o Text(rest)' = m.text
<1> DEFINE m == msg[tids[TxServer][txtid]]
           H == Heard(Printed, m.id)
           T == Text(rest)
<1>1. /\ txtid # NoTid /\ m.text \in Seq(Child \cup {"\n"})
      /\ rest \in Seq(Chars) /\ Printed \in Seq(Chars) /\ H \o T = m.text
      /\ \A i \in DOMAIN rest : rest[i].of = m.id
  <2>1. txtid # NoTid
    BY EmittedIs, TestFacts
  <2>2. tids[TxServer][txtid] \in Child /\ phase[tids[TxServer][txtid]] # "ready"
    BY <2>1, Holder
  <2> QED
    BY <2>1, <2>2, ChildSends, PrintedIs DEF TestInv, ConsoleKeeps, TxKeeps, Transmits, RestFollows
<1>2. H \in Seq(Ch)
  <2>1. PICK x \in Chars : TRUE
    BY <1>1, EmittedIs
  <2> QED
    BY <1>1, <2>1, HeardMore
<1>3. /\ 1 \in DOMAIN rest /\ Head(rest) = rest[1] /\ rest[1] \in Chars /\ rest[1].of = m.id
      /\ Tail(rest) \in Seq(Chars) /\ Len(Tail(rest)) = Len(rest) - 1
      /\ \A i \in 1 .. (Len(rest) - 1) : Tail(rest)[i] = rest[i + 1]
      /\ Len(rest) \in Nat \ {0} /\ DOMAIN rest = 1 .. Len(rest)
  BY <1>1
<1>4. /\ T \in Seq(Ch) /\ T # <<>> /\ Len(T) = Len(rest) /\ Head(T) = rest[1].char
      /\ Tail(T) = Text(Tail(rest))
  BY <1>1, TextIs
<1>5. rest[1].char # "\r"
  <2> DEFINE w == m.text
  <2>1. H \o T = w /\ w \in Seq(Child \cup {"\n"})
    BY <1>1
  <2> HIDE DEF w, H, T
  <2>2. (H \o T)[Len(H) + 1] = T[1] /\ Len(H) + 1 \in 1 .. Len(H \o T) /\ Head(T) = T[1]
    BY <1>2, <1>3, <1>4
  <2>3. w[Len(H) + 1] \in Child \cup {"\n"}
    BY <2>1, <2>2
  <2>4. rest[1].char \in Child \cup {"\n"}
    BY <1>4, <2>1, <2>2, <2>3
  <2>5. "\r" \notin Child \cup {"\n"}
    BY LockTestAssumption
  <2> QED
    BY <2>4, <2>5
<1>6. CASE CRNext
  <2>1. rest' = rest /\ Emitted = [char |-> "\r", of |-> rest[1].of]
    BY <1>3, <1>6 DEF Consume, Emitted, Char
  <2>2. Hear(H, Emitted, m.id) = H /\ Text(rest)' = T /\ Emitted.of = m.id
    BY <1>3, <2>1 DEF Hear, Text
  <2> QED
    BY <1>1, <2>2
<1>7. CASE ~CRNext
  <2>1. rest' = Tail(rest) /\ Emitted = rest[1]
    BY <1>3, <1>7 DEF Consume, Emitted
  <2>2. Text(rest)' = Tail(T)
    BY <1>4, <2>1 DEF Text
  <2>3. Hear(H, Emitted, m.id) = Append(H, Head(T)) /\ Emitted.of = m.id
    <3> HIDE DEF H, T
    <3> QED
      BY <1>3, <1>4, <1>5, <2>1 DEF Hear
  <2> HIDE DEF T, H
  <2>4. Append(H, Head(T)) \o Tail(T) = H \o T
    BY <1>2, <1>4, MoveHead
  <2> QED
    BY <1>1, <2>2, <2>3, <2>4 DEF H
<1> QED
  BY <1>6, <1>7

(* One more character is printed: what is heard of its message grows by    *)
(* what is left to print, and of the others nothing is heard. *)
LEMMA SaidGrows ==
    ASSUME TestInv, Said, rest # <<>>, Consume, Printed' = Append(Printed, Emitted),
           UNCHANGED <<txtid, tids, msg, phase, step>>
    PROVE  Said'
<1> DEFINE h == tids[TxServer][txtid]  id == msg[h].id
<1>1. txtid # NoTid /\ Emitted \in Chars /\ Printed \in Seq(Chars)
  BY EmittedIs, PrintedIs, TestFacts DEF TestInv, ConsoleKeeps
<1>2. h \in Child /\ phase[h] = "waiting" /\ phase[h] # "ready"
  BY <1>1, Holder
<1>3. id.line[1] = h /\ ~Ahead(h, id.line[2], id.call)
  BY <1>2, ChildSends DEF Said, SentOnce
<1>4. /\ Emitted.of = id
      /\ Hear(Heard(Printed, id), Emitted, id) \o Text(rest)' = msg[h].text
  BY HeardNext DEF Said
<1> HIDE DEF h
<1>5. \A m : Heard(Printed', m) = Hear(Heard(Printed, m), Emitted, m)
  BY <1>1, HeardMore
<1>6. \A m : m # id => Heard(Printed', m) = Heard(Printed, m)
  BY <1>4, <1>5 DEF Hear
<1>7. NothingAhead'
  <2>1. ASSUME NEW c \in Child, NEW r \in Nat, NEW k \in Nat, Ahead(c, r, k)'
        PROVE  Heard(Printed', [line |-> <<c, r>>, call |-> k]) = <<>>
    <3>1. Ahead(c, r, k)
      BY <2>1, AheadSame DEF AheadLess
    <3>2. [line |-> <<c, r>>, call |-> k] # id
      <4> SUFFICES ASSUME [line |-> <<c, r>>, call |-> k] = id PROVE FALSE
        OBVIOUS
      <4>1. id.line[1] = c /\ id.line[2] = r /\ id.call = k
        <5>1. /\ [line |-> <<c, r>>, call |-> k].line[1] = c
              /\ [line |-> <<c, r>>, call |-> k].line[2] = r
              /\ [line |-> <<c, r>>, call |-> k].call = k
          OBVIOUS
        <5> QED
          BY <5>1
      <4> QED
        BY <1>3, <3>1, <4>1
    <3> QED
      BY <1>6, <3>1, <3>2 DEF Said, NothingAhead
  <2> QED
    BY <2>1 DEF NothingAhead
<1>8. SentOnce'
  <2>1. \A c \in Child : \A a, b : Ahead(c, a, b)' = Ahead(c, a, b)
    BY DEF Ahead, RoundOf, CallOf
  <2> QED
    BY <2>1 DEF Said, SentOnce
<1>9. NotHeardYet'
  <2>1. ASSUME NEW c \in Child, phase[c] = "sending"
        PROVE  Heard(Printed', msg[c].id) = <<>>
    <3>1. msg[c].id.line[1] = c /\ c # h
      BY <1>2, <2>1, ChildSends
    <3>2. msg[c].id # id
      BY <1>3, <3>1
    <3> QED
      BY <1>6, <2>1, <3>2 DEF Said, NotHeardYet
  <2> QED
    BY <2>1 DEF NotHeardYet
<1>10. RestFollows'
  <2>1. h' = h /\ msg'[h] = msg[h]
    BY DEF h
  <2>2. Heard(Printed', id) \o Text(rest)' = msg[h].text
    BY <1>4, <1>5
  <2> QED
    BY <2>1, <2>2 DEF RestFollows, h
<1>11. ReadersRead'
  BY DEF Said, ReadersRead
<1> QED
  BY <1>7, <1>8, <1>9, <1>10, <1>11 DEF Said

(* A child that prints says so for the first time. *)
LEMMA SaidFirst ==
    ASSUME TestInv, Said, NEW c \in Child, ChildPrints(c)
    PROVE  Said'
<1> DEFINE m == [code |-> "WRITE", text |-> IF CallOf(c) > Chunks THEN <<"\n">> ELSE <<c>>,
                 id |-> [line |-> Line(c), call |-> CallOf(c)]]
<1>1. /\ MsgSend(c, TxServer, m) /\ UNCHANGED consoleVars
      /\ phase[c] = "ready" /\ step[c] \in 0 .. (LastStep - 1)
      /\ step' = [step EXCEPT ![c] = @ + 1] /\ CallOf(c) \in 1 .. (Chunks + 1)
  BY DEF ChildPrints, ChildCalls, Write
<1>2. c \in Task /\ TxServer \in Server /\ RxServer \in Server
  BY TestFacts
<1>3. /\ msg'[c] = m /\ tids' = tids
      /\ \A u \in Task \ {c} : phase'[u] = phase[u] /\ msg'[u] = msg[u]
  BY <1>1, <1>2, SendFrame DEF TestInv
<1>4. m.code = "WRITE" /\ m.id = [line |-> Line(c), call |-> CallOf(c)]
  OBVIOUS
<1> HIDE DEF m
<1>5. step[c] >= 0 /\ step[c] < LastStep /\ CallOf(c) # Chunks + 2
      /\ RoundOf(c) \in Nat /\ CallOf(c) \in Nat
  <2>1. Rounds \in Nat /\ Chunks + 3 \in Nat /\ Chunks \in Nat
    BY LockTestAssumption
  <2>2. LastStep \in Nat
    BY <2>1 DEF LastStep
  <2>3. step[c] >= 0
    BY <1>1, <2>2
  <2> QED
    BY <1>1, <2>1, <2>2, <2>3, CallTypes DEF TestInv
<1>6. /\ AheadLess
      /\ \A k, r : r = RoundOf(c) /\ k = CallOf(c) => ~Ahead(c, r, k)'
  BY <1>1, <1>5, AheadOnCall DEF TestInv
<1>7. Printed' = Printed /\ UNCHANGED <<txtid, rest>>
  BY <1>1 DEF consoleVars, txVars, Printed
<1>8. NothingAhead'
  BY <1>6, <1>7 DEF NothingAhead, AheadLess, Said
<1>9. SentOnce'
  <2>1. ASSUME NEW d \in Child, phase'[d] # "ready", d # c, NEW r, NEW k,
               r = msg[d].id.line[2], k = msg[d].id.call
        PROVE  ~Ahead(d, r, k)' /\ msg'[d] = msg[d]
    <3>1. phase[d] # "ready" /\ msg'[d] = msg[d]
      BY <1>3, <2>1, TestFacts
    <3>2. r \in Nat /\ k \in Nat /\ ~Ahead(d, r, k)
      BY <2>1, <3>1, ChildSends DEF Said, SentOnce
    <3> QED
      BY <1>6, <3>1, <3>2 DEF AheadLess
  <2>2. PICK r, k : r = RoundOf(c) /\ k = CallOf(c)
    OBVIOUS
  <2>3. ~Ahead(c, r, k)' /\ msg'[c].id.line[2] = r /\ msg'[c].id.call = k
    BY <1>3, <1>4, <1>6, <2>2 DEF Line
  <2>4. ASSUME NEW d \in Child, phase'[d] # "ready"
        PROVE  ~Ahead(d, msg[d].id.line[2], msg[d].id.call)'
    <3>1. CASE d = c
      BY <2>3, <3>1 DEF Ahead, RoundOf, CallOf
    <3>2. CASE d # c
      <4>1. PICK a, b : a = msg[d].id.line[2] /\ b = msg[d].id.call
        OBVIOUS
      <4>2. ~Ahead(d, a, b)' /\ msg'[d] = msg[d]
        BY <2>1, <2>4, <3>2, <4>1
      <4> QED
        BY <4>1, <4>2 DEF Ahead, RoundOf, CallOf
    <3> QED
      BY <3>1, <3>2
  <2> QED
    BY <2>4 DEF SentOnce
<1>10. NotHeardYet'
  <2>1. Heard(Printed, m.id) = <<>>
    <3>1. Ahead(c, RoundOf(c), CallOf(c))
      BY <1>5 DEF Ahead
    <3> QED
      BY <1>4, <1>5, <3>1 DEF Said, NothingAhead, Line
  <2>2. ASSUME NEW d \in Child, phase'[d] = "sending"
        PROVE  Heard(Printed, msg'[d].id) = <<>>
    <3>1. CASE d = c
      BY <1>3, <2>1, <3>1
    <3>2. CASE d # c
      BY <1>3, <2>2, <3>2, TestFacts DEF Said, NotHeardYet
    <3> QED
      BY <3>1, <3>2
  <2> QED
    BY <1>7, <2>2 DEF NotHeardYet
<1>11. ASSUME NEW s \in Server, NEW fd \in Fd, tids[s][fd] # Nobody
       PROVE  msg'[tids[s][fd]] = msg[tids[s][fd]]
  <2>1. tids[s][fd] \in Task /\ phase[tids[s][fd]] = "waiting"
    <3>1. tids[s][fd] \in Task
      BY <1>11 DEF TestInv, MsgInv, MsgTypeOK
    <3> QED
      BY <3>1 DEF TestInv, MsgInv, PhaseTells, Kept
  <2> QED
    BY <1>1, <1>3, <2>1
<1>12. RestFollows'
  <2>1. ASSUME txtid # NoTid
        PROVE  msg'[tids[TxServer][txtid]] = msg[tids[TxServer][txtid]]
    BY <1>2, <1>11, <2>1, Holder
  <2> QED
    BY <1>3, <1>7, <2>1 DEF Said, RestFollows, Text
<1>13. ReadersRead'
  BY <1>2, <1>3, <1>11 DEF Said, ReadersRead
<1> QED
  BY <1>8, <1>9, <1>10, <1>12, <1>13 DEF Said

(* Who is no child sends. *)
LEMMA SaidOthersSend ==
    ASSUME TestInv, Said, NEW t \in Task \ Child, NEW s \in Server, NEW m,
           MsgSend(t, s, m), UNCHANGED consoleVars, step' = step
    PROVE  Said'
<1>1. /\ phase[t] = "ready" /\ tids' = tids
      /\ \A u \in Task \ {t} : phase'[u] = phase[u] /\ msg'[u] = msg[u]
  BY SendFrame DEF TestInv
<1>2. TxServer \in Server /\ RxServer \in Server /\ \A c \in Child : c \in Task \ {t}
  BY TestFacts
<1>3. Printed' = Printed /\ UNCHANGED <<txtid, rest>>
  BY DEF consoleVars, txVars, Printed
<1>4. ASSUME NEW q \in Server, NEW fd \in Fd, tids[q][fd] # Nobody
      PROVE  msg'[tids[q][fd]] = msg[tids[q][fd]]
  <2>1. tids[q][fd] \in Task
    BY <1>4 DEF TestInv, MsgInv, MsgTypeOK
  <2>2. phase[tids[q][fd]] = "waiting"
    BY <1>4, <2>1 DEF TestInv, MsgInv, PhaseTells, Kept
  <2> QED
    BY <1>1, <2>1, <2>2
<1>5. RestFollows'
  <2>1. ASSUME txtid # NoTid
        PROVE  msg'[tids[TxServer][txtid]] = msg[tids[TxServer][txtid]]
    BY <1>2, <1>4, <2>1, Holder
  <2> QED
    BY <1>1, <1>3, <2>1 DEF Said, RestFollows, Text
<1>6. ReadersRead'
  BY <1>1, <1>2, <1>4 DEF Said, ReadersRead
<1> QED
  BY <1>1, <1>2, <1>3, <1>5, <1>6, AheadSame, SaidKept

(* A server receives, and nothing is printed.  The one that receives       *)
(* characters keeps none that prints.                                      *)
LEMMA SaidServes ==
    ASSUME TestInv, Said, NEW s \in ConsoleServer, Incoming(s), NEW replies,
           DOMAIN replies \subseteq Fd, \A f \in DOMAIN replies : replies[f] \in Int,
           Serve(s, replies), step' = step, Printed' = Printed,
           s = RxServer => /\ UNCHANGED <<txtid, rest>>
                           /\ Request(s).code = "WRITE" => Tid(s) \in DOMAIN replies,
           s = TxServer => (txtid' # NoTid => RestFollows')
    PROVE  Said'
<1>1. s \in Server /\ TxServer \in Server /\ RxServer \in Server /\ TxServer # RxServer
      /\ s \in {TxServer, RxServer}
  BY TestFacts DEF ConsoleServer
<1>2. /\ Sender(s) \in Task /\ phase[Sender(s)] = "sending"
      /\ \A t \in Task :
            \/ phase'[t] = "ready"
            \/ t = Sender(s) /\ phase'[t] = "waiting" /\ msg'[t] = msg[t]
            \/ t # Sender(s) /\ phase'[t] = phase[t] /\ msg'[t] = msg[t]
      /\ \A q \in Server \ {s} : tids'[q] = tids[q]
      /\ \A fd \in Fd : tids'[s][fd] =
            IF fd \in DOMAIN replies THEN Nobody
            ELSE IF fd = Tid(s) THEN Sender(s) ELSE tids[s][fd]
      /\ \A q \in Server, fd \in Fd : tids'[q][fd] # Nobody =>
            msg'[tids'[q][fd]] = msg[tids'[q][fd]]
  BY <1>1, ServeFrame DEF TestInv
<1>3. \A c \in Child : phase'[c] # "ready" =>
         /\ phase[c] # "ready" /\ msg'[c] = msg[c]
         /\ phase'[c] = "sending" => phase[c] = "sending"
  BY <1>2, TestFacts
<1>4. RestFollows'
  <2>1. CASE s = TxServer
    BY <2>1 DEF RestFollows
  <2>2. CASE s = RxServer /\ txtid # NoTid
    <3>1. tids'[TxServer] = tids[TxServer] /\ txtid \in Fd /\ tids[TxServer][txtid] # Nobody
      BY <1>1, <1>2, <2>2, Holder
    <3>2. msg'[tids'[TxServer][txtid]] = msg[tids[TxServer][txtid]]
      BY <1>1, <1>2, <3>1
    <3>3. Text(rest)' = Text(rest) /\ txtid' = txtid
      BY <2>2 DEF Text
    <3> QED
      BY <2>2, <3>2, <3>3 DEF Said, RestFollows
  <2>3. CASE s = RxServer /\ txtid = NoTid
    BY <2>3 DEF RestFollows
  <2> QED
    BY <1>1, <2>1, <2>2, <2>3
<1>5. ReadersRead'
  <2> SUFFICES ASSUME NEW fd \in Fd, tids'[RxServer][fd] # Nobody
               PROVE  msg'[tids'[RxServer][fd]].code # "WRITE"
    BY DEF ReadersRead
  <2>1. msg'[tids'[RxServer][fd]] = msg[tids'[RxServer][fd]]
    BY <1>1, <1>2
  <2>2. CASE tids'[RxServer][fd] = tids[RxServer][fd]
    BY <2>1, <2>2 DEF Said, ReadersRead
  <2>3. CASE tids'[RxServer][fd] # tids[RxServer][fd]
    <3>1. s = RxServer /\ fd = Tid(s) /\ fd \notin DOMAIN replies
          /\ tids'[RxServer][fd] = Sender(s)
      BY <1>1, <1>2, <2>3
    <3> QED
      BY <2>1, <3>1 DEF Request
  <2> QED
    BY <2>2, <2>3
<1> QED
  BY <1>3, <1>4, <1>5, AheadSame, SaidKept

LEMMA SaidTxReceive ==
    ASSUME TestInv, Said, TxReceiveNotify \/ TxReceiveOther, step' = step
    PROVE  Said'
<1>1. PICK st \in Int :
         /\ Serve(TxServer, Reply(TxServer, st)) /\ Incoming(TxServer)
         /\ txtid' = NoTid /\ UNCHANGED <<wire, txfifo, txq>>
  <2>1. txpc = "receive" => txtid = NoTid
    BY DEF TestInv, Transmits
  <2>2. CASE TxReceiveNotify
    BY <2>2 DEF TxReceiveNotify, Receives
  <2>3. CASE TxReceiveOther
    BY <2>1, <2>3 DEF TxReceiveOther, Receives, consoleVars, txVars, ENOFUNC
  <2> QED
    BY <2>2, <2>3
<1>2. /\ DOMAIN Reply(TxServer, st) \subseteq Fd
      /\ \A f \in DOMAIN Reply(TxServer, st) : Reply(TxServer, st)[f] \in Int
  BY <1>1, ReplyIs DEF Serve
<1>3. Printed' = Printed
  BY <1>1 DEF Printed
<1> QED
  BY <1>1, <1>2, <1>3, TestFacts, SaidServes

LEMMA SaidTxReceiveWrite ==
    ASSUME TestInv, Said, TxReceiveWrite, step' = step
    PROVE  Said'
<1> DEFINE c == Sender(TxServer)  text == msg[c].text
<1>1. /\ Serve(TxServer, NoReply) /\ Incoming(TxServer)
      /\ txtid' = Tid(TxServer) /\ msg[c].code = "WRITE"
      /\ rest' = [i \in 1 .. Len(text) |-> Char(text[i], msg[c].id)]
      /\ UNCHANGED <<wire, txfifo, txq>>
  BY DEF TxReceiveWrite, Receives, Request
<1>2. DOMAIN NoReply = {}
  BY DEF NoReply
<1>3. /\ DOMAIN NoReply \subseteq Fd /\ \A f \in DOMAIN NoReply : NoReply[f] \in Int
  BY <1>2
<1>4. /\ Tid(TxServer) \in Fd /\ c \in Task /\ phase[c] = "sending"
      /\ 1 \in DOMAIN inbox[TxServer] /\ inbox[TxServer][1] = c
      /\ tids'[TxServer][Tid(TxServer)] = c
      /\ c # Nobody => msg'[c] = msg[c]
  <2>1. /\ Tid(TxServer) \in Fd /\ c \in Task /\ phase[c] = "sending"
        /\ 1 \in DOMAIN inbox[TxServer] /\ inbox[TxServer][1] = c
        /\ \A fd \in Fd : tids'[TxServer][fd] =
              IF fd \in DOMAIN NoReply THEN Nobody
              ELSE IF fd = Tid(TxServer) THEN c ELSE tids[TxServer][fd]
        /\ \A fd \in Fd : tids'[TxServer][fd] # Nobody =>
              msg'[tids'[TxServer][fd]] = msg[tids'[TxServer][fd]]
    BY <1>1, <1>3, ServeFrame, TestFacts DEF TestInv
  <2> QED
    BY <1>2, <2>1
<1> HIDE DEF c
<1>5. c \in Child /\ msg'[c] = msg[c]
  BY <1>1, <1>4, NobodyAssumption DEF TestInv, ChildrenPrint
<1>6. text \in Seq(Child \cup {"\n"}) /\ Heard(Printed, msg[c].id) = <<>>
  BY <1>4, <1>5, ChildSends DEF Said, NotHeardYet
<1>7. Printed' = Printed
  BY <1>1 DEF Printed
<1>8. Text(rest)' = text
  <2> DEFINE id == msg[c].id
  <2>1. rest' = [i \in 1 .. Len(text) |-> Char(text[i], id)]
    BY <1>1
  <2> HIDE DEF text, id
  <2>2. Len(text) \in Nat /\ text = [i \in 1 .. Len(text) |-> text[i]]
    BY <1>6
  <2>3. Len(rest') = Len(text) /\ \A i \in 1 .. Len(text) : rest'[i].char = text[i]
    <3>1. DOMAIN rest' = 1 .. Len(text) /\ rest' \in Seq({rest'[i] : i \in 1 .. Len(text)})
      BY <2>1, <2>2
    <3> QED
      BY <2>1, <2>2, <3>1 DEF Char
  <2> QED
    BY <2>2, <2>3 DEF Text
<1>9. RestFollows'
  <2>1. <<>> \o text = text
    BY <1>6
  <2> QED
    BY <1>1, <1>4, <1>5, <1>6, <1>7, <1>8, <2>1 DEF RestFollows
<1> QED
  BY <1>1, <1>3, <1>7, <1>9, TestFacts, SaidServes

LEMMA SaidTxFlush ==
    ASSUME TestInv, Said, TxFlush, step' = step
    PROVE  Said'
<1>1. UNCHANGED <<phase, msg, tids>>
  BY DEF TxFlush, msgVars
<1>2. wire \in Seq(Chars) /\ txfifo \in Seq(Chars) /\ txq \in Seq(Chars)
  BY DEF TestInv, ConsoleKeeps, TxKeeps
<1>3. CASE /\ txq # <<>>
           /\ txfifo' = Append(txfifo, Head(txq)) /\ txq' = Tail(txq)
           /\ UNCHANGED <<wire, txpc, txtid, rest, newline_seen, rxVars, intVars>>
  <2>1. txfifo' \o txq' = txfifo \o txq /\ txfifo' \in Seq(Chars) /\ txq' \in Seq(Chars)
    BY <1>2, <1>3, MoveHead
  <2>2. \A a, b, c \in Seq(Chars) : (a \o b) \o c = a \o (b \o c)
    BY ConcatAssociates
  <2>3. (wire \o txfifo') \o txq' = wire \o (txfifo' \o txq')
    BY <1>2, <2>1, <2>2, Zenon
  <2>4. (wire \o txfifo) \o txq = wire \o (txfifo \o txq)
    BY <1>2, <2>2, Zenon
  <2>5. Printed' = Printed
    BY <1>3, <2>1, <2>3, <2>4 DEF Printed
  <2> QED
    BY <1>1, <1>3, <2>5, AheadSame, SaidQuiet
<1>4. CASE TxDone
  <2>1. Printed' = Printed /\ txtid' = NoTid
    BY <1>4 DEF TxDone, Printed
  <2> QED
    BY <1>1, <2>1, AheadSame, SaidQuiet
<1>5. CASE UNCHANGED <<wire, txfifo, txq, txtid, rest, newline_seen, rxVars, intVars>>
  <2>1. Printed' = Printed /\ UNCHANGED <<txtid, rest>>
    BY <1>5 DEF Printed
  <2> QED
    BY <1>1, <2>1, AheadSame, SaidQuiet
<1> QED
  BY <1>3, <1>4, <1>5 DEF TxFlush

LEMMA SaidTxDirect ==
    ASSUME TestInv, Said, TxDirect, step' = step
    PROVE  Said'
<1>1. /\ UNCHANGED <<phase, msg, tids>> /\ txpc = "direct"
      /\ UNCHANGED <<wire, txq, txtid>>
  BY DEF TxDirect, msgVars
<1>2. txq = <<>> /\ wire \in Seq(Chars) /\ txfifo \in Seq(Chars)
  BY <1>1 DEF TestInv, Transmits, ConsoleKeeps, TxKeeps
<1>3. CASE rest # <<>> /\ ~TxFull
  <2>1. txfifo' = Append(txfifo, Emitted) /\ Consume /\ Emitted \in Chars
    BY <1>3, EmittedIs DEF TxDirect
  <2>2. txfifo' \in Seq(Chars)
    BY <1>2, <2>1
  <2>3. Printed = wire \o txfifo /\ Printed' = wire \o txfifo'
    <3>1. \A q \in Seq(Chars) : q \o <<>> = q
      OBVIOUS
    <3>2. wire \o txfifo \in Seq(Chars) /\ wire \o txfifo' \in Seq(Chars)
      BY <1>2, <2>2
    <3> QED
      BY <1>1, <1>2, <3>1, <3>2 DEF Printed
  <2>4. Printed' = Append(Printed, Emitted)
    BY <1>2, <2>1, <2>3, AppendLast
  <2> QED
    BY <1>1, <1>3, <2>1, <2>4, SaidGrows
<1>4. CASE ~(rest # <<>> /\ ~TxFull)
  <2>1. Printed' = Printed /\ UNCHANGED <<txtid, rest>>
    BY <1>1, <1>4 DEF Printed, TxDirect
  <2> QED
    BY <1>1, <2>1, AheadSame, SaidQuiet
<1> QED
  BY <1>3, <1>4

LEMMA SaidTxEnqueue ==
    ASSUME TestInv, Said, TxEnqueue, step' = step
    PROVE  Said'
<1>1. /\ txtid # NoTid /\ txtid \in Fd
      /\ TxServer \in Server /\ RxServer \in Server /\ TxServer # RxServer
  BY Holder, TestFacts DEF TestInv, Transmits, TxEnqueue
<1>2. ASSUME NEW st \in Int, MsgReply(TxServer, txtid, st), TxDone
      PROVE  Said'
  <2> DEFINE t == tids[TxServer][txtid]
  <2>1. /\ t \in Task /\ phase'[t] = "ready"
        /\ phase[t] = "waiting" /\ \A u \in Task \ {t} : phase'[u] = phase[u] /\ msg'[u] = msg[u]
        /\ tids'[RxServer] = tids[RxServer]
    BY <1>1, <1>2, ReplyFrame DEF TestInv
  <2>2. \A fd \in Fd : tids[RxServer][fd] # t
    <3>1. t # Nobody /\ t = tids[TxServer][txtid]
      BY <2>1, NobodyAssumption
    <3> HIDE DEF t
    <3> QED
      BY <1>1, <2>1, <3>1 DEF TestInv, MsgInv, KeptOnce
  <2> HIDE DEF t
  <2>3. Printed' = Printed /\ txtid' = NoTid
    BY <1>2 DEF TxDone, Printed
  <2>4. RestFollows'
    BY <2>3 DEF RestFollows
  <2>5. ReadersRead'
    <3>1. \A fd \in Fd : tids[RxServer][fd] # Nobody => tids[RxServer][fd] \in Task
      BY <1>1 DEF TestInv, MsgInv, MsgTypeOK
    <3> QED
      BY <2>1, <2>2, <3>1 DEF Said, ReadersRead
  <2>6. \A c \in Child : phase'[c] # "ready" =>
           /\ phase[c] # "ready" /\ msg'[c] = msg[c]
           /\ phase'[c] = "sending" => phase[c] = "sending"
    BY <2>1, TestFacts
  <2> QED
    BY <2>3, <2>4, <2>5, <2>6, AheadSame, SaidKept
<1>3. CASE /\ rest # <<>> /\ Len(txq) < TX_BUF_MAX
           /\ txq' = Append(txq, Emitted)
           /\ Consume
           /\ UNCHANGED <<msgVars, wire, txfifo, txpc, txtid, rxVars, intVars>>
  <2>1. /\ UNCHANGED <<phase, msg, tids>> /\ UNCHANGED <<wire, txfifo, txtid>>
    BY <1>3 DEF msgVars
  <2>2. Emitted \in Chars /\ txq \in Seq(Chars) /\ wire \o txfifo \in Seq(Chars)
    BY <1>3, EmittedIs DEF TestInv, ConsoleKeeps, TxKeeps
  <2>3. Printed' = Append(Printed, Emitted)
    BY <1>3, <2>1, <2>2, AppendLast DEF Printed
  <2> QED
    BY <1>3, <2>1, <2>3, SaidGrows
<1>4. 0 \in Int /\ TruncatedStatus \in Int
  BY DEF TruncatedStatus, ENOMEM
<1> QED
  BY <1>2, <1>3, <1>4 DEF TxEnqueue

LEMMA SaidEnable ==
    ASSUME TestInv, Said, NEW s, NEW it, IntEnable(s, it), step' = step
    PROVE  Said'
<1>1. UNCHANGED <<phase, msg, tids>> /\ UNCHANGED <<txtid, rest>> /\ Printed' = Printed
  BY DEF IntEnable, msgVars, txVars, Printed
<1> QED
  BY <1>1, AheadSame, SaidQuiet

LEMMA SaidPrinting ==
    ASSUME TestInv, Said, Printing
    PROVE  Said'
<1>1. step' = step /\ TxStep
  BY DEF Printing, Others
<1> QED
  BY <1>1, SaidTxReceive, SaidTxReceiveWrite, SaidTxFlush, SaidTxDirect,
     SaidTxEnqueue, SaidEnable DEF TxStep

(* What consolerx_task answers. *)
LEMMA RxAnswers ==
    ASSUME TestInv, RxServeNotify \/ RxServeGetchar \/ RxServeOther
    PROVE  /\ Incoming(RxServer) /\ UNCHANGED txVars
           /\ \E replies :
                 /\ DOMAIN replies \subseteq Fd /\ \A f \in DOMAIN replies : replies[f] \in Int
                 /\ Serve(RxServer, replies)
                 /\ Request(RxServer).code = "WRITE" => Tid(RxServer) \in DOMAIN replies
<1>1. /\ rxfifo \in Seq(Nat) /\ rxq \in Seq(Nat) /\ tidq \in Seq(Fd) /\ ConsoleKeeps
      /\ TestInv
  BY DEF TestInv, ConsoleKeeps, RxKeeps
<1>2. Incoming(RxServer) /\ UNCHANGED txVars /\ FreeFds(RxServer) # {}
  BY DEF RxServeNotify, RxServeGetchar, RxServeOther, Receives, Serve, consoleVars
<1>3. Tid(RxServer) \in Fd
  BY <1>2, TidIsFree
<1>4. CASE RxServeNotify
  <2> DEFINE chars == FoldLeft(Pushed, rxq, rxfifo)
             replies == NotifyAnswers(tidq, chars)
  <2>1. Serve(RxServer, replies)
    BY <1>4 DEF RxServeNotify
  <2>2. chars \in Seq(Nat)
    BY PushedAreLast DEF EndsAt
  <2> HIDE DEF chars
  <2>3. /\ DOMAIN Answers(tidq, chars) \subseteq Fd
        /\ \A fd \in DOMAIN Answers(tidq, chars) : Answers(tidq, chars)[fd] \in Int
    BY <1>1, <2>2, AnswersAre
  <2>4. /\ DOMAIN replies \subseteq Fd /\ \A fd \in DOMAIN replies : replies[fd] \in Int
        /\ Tid(RxServer) \in DOMAIN replies
    BY <1>3, <2>3 DEF NotifyAnswers
  <2> QED
    BY <1>2, <2>1, <2>4
<1>5. CASE RxServeGetchar
  <2>1. Request(RxServer).code # "WRITE"
    BY <1>5 DEF RxServeGetchar, Receives
  <2>2. CASE Serve(RxServer, Reply(RxServer, ENOMEM))
    <3>1. ENOMEM \in Int
      BY DEF ENOMEM
    <3> QED
      BY <1>2, <2>1, <2>2, <3>1, ReplyIs
  <2>3. CASE Serve(RxServer, Answers(Append(tidq, Tid(RxServer)), rxq))
    <3>1. Append(tidq, Tid(RxServer)) \in Seq(Fd)
      BY <1>1, <1>3
    <3> QED
      BY <1>1, <1>2, <2>1, <2>3, <3>1, AnswersAre
  <2> QED
    BY <1>5, <2>2, <2>3 DEF RxServeGetchar
<1>6. CASE RxServeOther
  <2>1. Serve(RxServer, Reply(RxServer, ENOFUNC)) /\ ENOFUNC \in Int
    BY <1>6 DEF RxServeOther, ENOFUNC
  <2>2. Tid(RxServer) \in DOMAIN Reply(RxServer, ENOFUNC)
    BY DEF Reply
  <2> QED
    BY <1>2, <2>1, <2>2, ReplyIs
<1> QED
  BY <1>4, <1>5, <1>6

LEMMA SaidReading ==
    ASSUME TestInv, Said, Reading
    PROVE  Said'
<1>1. step' = step /\ RxStep
  BY DEF Reading, Others
<1>2. CASE RxServeNotify \/ RxServeGetchar \/ RxServeOther
  <2>1. Incoming(RxServer) /\ UNCHANGED txVars
    BY <1>2, RxAnswers
  <2>2. PICK replies :
           /\ DOMAIN replies \subseteq Fd /\ \A f \in DOMAIN replies : replies[f] \in Int
           /\ Serve(RxServer, replies)
           /\ Request(RxServer).code = "WRITE" => Tid(RxServer) \in DOMAIN replies
    BY <1>2, RxAnswers
  <2>3. Printed' = Printed /\ UNCHANGED <<txtid, rest>>
    BY <2>1 DEF txVars, Printed
  <2> QED
    BY <1>1, <2>1, <2>2, <2>3, TestFacts, SaidServes
<1>3. CASE IntEnable(RxServer, "RHR")
  BY <1>1, <1>3, SaidEnable
<1>4. CASE OutOfFds(RxServer) /\ UNCHANGED consoleVars
  <2>1. UNCHANGED <<phase, msg, tids>> /\ UNCHANGED <<txtid, rest>> /\ Printed' = Printed
    BY <1>4 DEF OutOfFds, consoleVars, txVars, Printed
  <2> QED
    BY <1>1, <2>1, AheadSame, SaidQuiet
<1> QED
  BY <1>1, <1>2, <1>3, <1>4 DEF RxStep

(* The lock, and tasks that do not print. *)
LEMMA SaidMain ==
    ASSUME TestInv, Said, MainStep
    PROVE  Said'
<1>1. UNCHANGED <<phase, msg, tids>> /\ UNCHANGED <<txtid, rest>> /\ Printed' = Printed
  BY DEF MainStep, Register, TakeLock, Spawn, Unlock, Join, Unregister, MainAt, ioVars,
         msgVars, consoleVars, txVars, Printed
<1>2. CASE step' = step
  BY <1>1, <1>2, AheadSame, SaidQuiet
<1>3. ASSUME NEW c \in Child, Spawn(c) PROVE Said'
  <2>1. /\ step[c] < 0
        /\ \A d \in Child \ {c} : step'[d] = step[d]
    BY <1>3 DEF Spawn, TestInv, ConsoleKeeps
  <2>2. AheadLess
    <3>1. ASSUME NEW d \in Child, NEW r \in Nat, NEW k \in Nat, Ahead(d, r, k)'
          PROVE  Ahead(d, r, k)
      <4>1. CASE d = c
        BY <2>1, <4>1 DEF Ahead
      <4>2. CASE d # c
        BY <2>1, <3>1, <4>2 DEF Ahead, RoundOf, CallOf
      <4> QED
        BY <4>1, <4>2
    <3> QED
      BY <3>1 DEF AheadLess
  <2> QED
    BY <1>1, <2>2, SaidQuiet
<1> QED
  BY <1>2, <1>3 DEF MainStep, Register, TakeLock, Unlock, Join, Unregister

LEMMA SaidChild ==
    ASSUME TestInv, Said, NEW c \in Child, ChildStep(c)
    PROVE  Said'
<1>1. CASE ChildPrints(c)
  BY <1>1, SaidFirst
<1>2. CASE ChildLocks(c) \/ ChildUnlocks(c)
  <2>1. /\ UNCHANGED <<phase, msg, tids>> /\ UNCHANGED <<txtid, rest>> /\ Printed' = Printed
        /\ step[c] \in 0 .. (LastStep - 1) /\ step' = [step EXCEPT ![c] = @ + 1]
    BY <1>2 DEF ChildLocks, ChildUnlocks, ChildCalls, ioVars, msgVars, consoleVars, txVars,
                Printed
  <2>2. step[c] >= 0 /\ step[c] < LastStep
    <3>1. Rounds \in Nat /\ Chunks + 3 \in Nat
      BY LockTestAssumption
    <3>2. LastStep \in Nat
      BY <3>1 DEF LastStep
    <3> QED
      BY <2>1, <3>2
  <2>3. AheadLess
    BY <2>1, <2>2, AheadOnCall DEF TestInv
  <2> QED
    BY <2>1, <2>3, SaidQuiet
<1> QED
  BY <1>1, <1>2 DEF ChildStep

LEMMA SaidElse ==
    ASSUME TestInv, Said, [TestNext]_testVars,
           ~MainStep, \A c \in Child : ~ChildStep(c), ~Printing, ~Reading
    PROVE  Said'
<1>1. CASE LockServing \/ UNCHANGED testVars
  <2>1. UNCHANGED <<phase, msg, tids>> /\ UNCHANGED <<txtid, rest>> /\ Printed' = Printed
        /\ step' = step
    BY <1>1 DEF LockServing, testVars, ioVars, msgVars, consoleVars, txVars, Printed
  <2> QED
    BY <2>1, AheadSame, SaidQuiet
<1>2. CASE Uart
  <2>1. /\ wire' = Append(wire, Head(txfifo)) /\ txfifo' = Tail(txfifo) /\ txfifo # <<>>
        /\ UNCHANGED <<phase, msg, tids>> /\ UNCHANGED <<txq, txtid, rest>> /\ step' = step
    BY <1>2 DEF Uart, UartSend, Others, msgVars
  <2>2. wire \in Seq(Chars) /\ txfifo \in Seq(Chars)
    BY DEF TestInv, ConsoleKeeps, TxKeeps
  <2>3. Printed' = Printed
    BY <2>1, <2>2, MoveHead, SMTT(30) DEF Printed
  <2> QED
    BY <2>1, <2>3, AheadSame, SaidQuiet
<1>3. CASE Keys \/ \E n \in Notifier : Interrupts(n)
  <2>1. UNCHANGED <<phase, msg, tids>> /\ UNCHANGED <<txtid, rest>> /\ Printed' = Printed
        /\ step' = step
    BY <1>3 DEF Keys, KeyPress, LineError, Interrupts, ThrInterrupt, RhrInterrupt, Interrupt,
                Others, msgVars, consoleVars, txVars, Printed
  <2> QED
    BY <2>1, AheadSame, SaidQuiet
<1>4. ASSUME NEW n \in Notifier, Notifies(n) PROVE Said'
  <2>1. PICK s \in {TxServer, RxServer} :
           MsgSend(n, s, [code |-> "NOTIFY"]) /\ UNCHANGED consoleVars /\ Others
    BY <1>4 DEF Notifies, Notify
  <2>2. n \in Task \ Child /\ s \in Server /\ step' = step
    BY <2>1, TestFacts DEF Others
  <2> QED
    BY <2>1, <2>2, SaidOthersSend
<1>5. ASSUME NEW r \in Reader, ShellCalls(r) PROVE Said'
  <2>1. \E s \in {TxServer, RxServer} : \E m : MsgSend(r, s, m) /\ UNCHANGED consoleVars
    BY <1>5 DEF ShellCalls, Fgetc, Write
  <2>2. PICK s \in {TxServer, RxServer} : \E m : MsgSend(r, s, m) /\ UNCHANGED consoleVars
    BY <2>1
  <2>3. r \in Task \ Child /\ s \in Server /\ step' = step
    BY <1>5, TestFacts DEF ShellCalls
  <2> QED
    BY <2>2, <2>3, SaidOthersSend
<1> QED
  BY <1>1, <1>2, <1>3, <1>4, <1>5 DEF TestNext, System

LEMMA SaidNext == TestInv /\ Said /\ [TestNext]_testVars => Said'
  BY SaidMain, SaidChild, SaidPrinting, SaidReading, SaidElse

LEMMA SaidInit == TestInit => Said
<1> SUFFICES ASSUME TestInit PROVE Said
  OBVIOUS
<1>1. /\ wire = <<>> /\ txfifo = <<>> /\ txq = <<>> /\ txtid = NoTid
      /\ \A t \in Task : phase[t] = "ready"
      /\ \A fd \in Fd : tids[RxServer][fd] = Nobody
  BY TestFacts DEF TestInit, ConsoleInit, MsgInit
<1>2. Printed = <<>>
  BY <1>1 DEF Printed
<1>3. NothingAhead
  BY <1>2, HeardNothing DEF NothingAhead
<1>4. SentOnce /\ NotHeardYet
  BY <1>1, TestFacts DEF SentOnce, NotHeardYet
<1>5. RestFollows /\ ReadersRead
  BY <1>1 DEF RestFollows, ReadersRead
<1> QED
  BY <1>3, <1>4, <1>5 DEF Said

THEOREM SaidInvariant == TestSpec => [](TestInv /\ Said)
<1>1. TestInit => TestInv /\ Said
  BY TestInvInit, SaidInit
<1>2. (TestInv /\ Said) /\ [TestNext]_testVars => (TestInv /\ Said)'
  BY TestInvNext, SaidNext
<1> QED
  BY <1>1, <1>2, PTL DEF TestSpec

-----------------------------------------------------------------------------
(* What a client is told.                                                  *)

WriteEnds(t) == phase[t] = "waiting" /\ phase'[t] = "ready" /\ msg[t].code = "WRITE"

(* Only consoletx_task answers who prints, when it is done with it. *)
LEMMA ServeEndsNone ==
    ASSUME TestInv, Said, NEW s \in ConsoleServer, Incoming(s), NEW replies,
           DOMAIN replies \subseteq Fd, \A f \in DOMAIN replies : replies[f] \in Int,
           Serve(s, replies), s = TxServer => DOMAIN replies \subseteq {Tid(s)},
           NEW t \in Task
    PROVE  ~WriteEnds(t)
<1>1. s \in Server /\ s \in {TxServer, RxServer}
  BY TestFacts DEF ConsoleServer
<1>2. /\ phase[Sender(s)] = "sending"
      /\ \/ /\ phase'[t] = "ready"
            /\ \E f \in DOMAIN replies :
                  \/ f = Tid(s) /\ t = Sender(s)
                  \/ f # Tid(s) /\ t = tids[s][f] /\ phase[t] = "waiting"
         \/ t = Sender(s) /\ phase'[t] = "waiting"
         \/ phase'[t] = phase[t]
  BY <1>1, ServeFrame DEF TestInv
<1> SUFFICES ASSUME WriteEnds(t) PROVE FALSE
  OBVIOUS
<1>3. PICK f \in DOMAIN replies : f # Tid(s) /\ t = tids[s][f]
  BY <1>2 DEF WriteEnds
<1>4. s = RxServer /\ f \in Fd /\ tids[RxServer][f] # Nobody
  BY <1>1, <1>3, NobodyAssumption
<1> QED
  BY <1>3, <1>4 DEF Said, ReadersRead, WriteEnds

LEMMA TxEndsWrites ==
    ASSUME TestInv, Said, [TestNext]_testVars, NEW t \in Task, WriteEnds(t)
    PROVE  TxEnqueue
<1>1. \A s, m : \A u \in Task : ~MsgSend(u, s, m)
  <2> SUFFICES ASSUME NEW s, NEW m, NEW u \in Task, MsgSend(u, s, m) PROVE FALSE
    OBVIOUS
  <2>1. phase' = [phase EXCEPT ![u] = "sending"]
    BY DEF MsgSend
  <2> QED
    BY <2>1 DEF WriteEnds, TestInv, MsgInv, MsgTypeOK
<1>2. phase' # phase
  BY DEF WriteEnds
<1>3. CASE Printing
  <2>1. \A st \in Int : Serve(TxServer, Reply(TxServer, st)) /\ Incoming(TxServer) => FALSE
    <3> SUFFICES ASSUME NEW st \in Int, Serve(TxServer, Reply(TxServer, st)), Incoming(TxServer)
                 PROVE FALSE
      OBVIOUS
    <3>1. /\ DOMAIN Reply(TxServer, st) \subseteq Fd
          /\ \A f \in DOMAIN Reply(TxServer, st) : Reply(TxServer, st)[f] \in Int
      BY ReplyIs DEF Serve
    <3>2. DOMAIN Reply(TxServer, st) \subseteq {Tid(TxServer)}
      BY DEF Reply
    <3> QED
      BY <3>1, <3>2, TestFacts, ServeEndsNone
  <2>2. ~TxReceiveNotify /\ ~TxReceiveOther
    BY <2>1 DEF TxReceiveNotify, TxReceiveOther, Receives, ENOFUNC
  <2>3. ~TxReceiveWrite
    <3> SUFFICES ASSUME TxReceiveWrite PROVE FALSE
      OBVIOUS
    <3>1. Serve(TxServer, NoReply) /\ Incoming(TxServer)
      BY DEF TxReceiveWrite, Receives
    <3>2. DOMAIN NoReply = {}
      BY DEF NoReply
    <3>3. /\ DOMAIN NoReply \subseteq Fd /\ DOMAIN NoReply \subseteq {Tid(TxServer)}
          /\ \A f \in DOMAIN NoReply : NoReply[f] \in Int
      BY <3>2
    <3> QED
      BY <3>1, <3>3, TestFacts, ServeEndsNone
  <2>4. ~TxFlush /\ ~TxDirect /\ ~IntEnable(TxServer, "THR")
    BY <1>2 DEF TxFlush, TxDirect, IntEnable, msgVars
  <2> QED
    BY <1>3, <2>2, <2>3, <2>4 DEF Printing, TxStep
<1>4. CASE Reading
  <2>1. ~(RxServeNotify \/ RxServeGetchar \/ RxServeOther)
    <3> SUFFICES ASSUME RxServeNotify \/ RxServeGetchar \/ RxServeOther PROVE FALSE
      OBVIOUS
    <3>1. Incoming(RxServer)
      BY RxAnswers
    <3>2. PICK replies :
             /\ DOMAIN replies \subseteq Fd /\ \A f \in DOMAIN replies : replies[f] \in Int
             /\ Serve(RxServer, replies)
      BY RxAnswers
    <3> QED
      BY <3>1, <3>2, TestFacts, ServeEndsNone
  <2>2. ~IntEnable(RxServer, "RHR") /\ ~OutOfFds(RxServer)
    BY <1>2 DEF IntEnable, OutOfFds, msgVars
  <2> QED
    BY <1>4, <2>1, <2>2 DEF Reading, RxStep
<1>5. ~MainStep /\ ~LockServing /\ ~UNCHANGED testVars
  BY <1>2 DEF MainStep, Register, TakeLock, Spawn, Unlock, Join, Unregister, MainAt,
              LockServing, testVars, ioVars, msgVars
<1>6. \A c \in Child : ~ChildStep(c)
  BY <1>1, <1>2, TestFacts DEF ChildStep, ChildLocks, ChildUnlocks, ChildPrints, Write, ioVars,
     msgVars
<1>7. ~Uart /\ ~Keys /\ \A n \in Notifier : ~Interrupts(n) /\ ~Notifies(n)
  <2>1. ~Uart /\ ~Keys /\ \A n \in Notifier : ~Interrupts(n)
    BY <1>2 DEF Uart, UartSend, Keys, KeyPress, LineError, Interrupts, ThrInterrupt,
                RhrInterrupt, Interrupt, msgVars
  <2>2. \A n \in Notifier : ~Notifies(n)
    BY <1>1, TestFacts DEF Notifies, Notify
  <2> QED
    BY <2>1, <2>2
<1>8. \A r \in Reader : ~ShellCalls(r)
  BY <1>1, TestFacts DEF ShellCalls, Fgetc, Write
<1> QED
  BY <1>3, <1>4, <1>5, <1>6, <1>7, <1>8 DEF TestNext, System

-----------------------------------------------------------------------------
(* The theorems.                                                           *)

(* Whatever the test and the console do, the lock server and its clients   *)
(* see nothing else than in LockServer: what is proved there holds here.   *)
THEOREM TestUsesLocks == TestSpec => Spec
<1>1. TestInit => Init
  BY DEF TestInit
<1>2. TestNext => [Next]_vars
  <2> SUFFICES ASSUME TestNext PROVE [Next]_vars
    OBVIOUS
  <2>1. CASE MainStep
    <3>1. \/ LockchanRegister(Main, TheLock) \/ LockChannel(Main, TheLock)
          \/ UnlockChannel(Main, TheLock) \/ LockchanUnregister(Main, TheLock)
          \/ UNCHANGED vars
      BY <2>1 DEF MainStep, Register, TakeLock, Unlock, Join, Unregister, Spawn, lockVars
    <3> QED
      BY <3>1, TestFacts DEF Next
  <2>2. ASSUME NEW c \in Child, ChildStep(c) PROVE [Next]_vars
    <3>1. LockChannel(c, TheLock) \/ UnlockChannel(c, TheLock) \/ UNCHANGED vars
      BY <2>2 DEF ChildStep, ChildLocks, ChildPrints, ChildUnlocks, lockVars
    <3> QED
      BY <3>1, TestFacts DEF Next
  <2>3. CASE LockServing
    BY <2>3 DEF LockServing, Next
  <2>4. CASE Uart \/ Printing \/ Reading \/ Keys
    BY <2>4 DEF Uart, Printing, Reading, Keys, Others, lockVars
  <2>5. ASSUME NEW n \in Notifier, Interrupts(n) \/ Notifies(n) PROVE [Next]_vars
    BY <2>5 DEF Interrupts, Notifies, Others, lockVars
  <2>6. ASSUME NEW r \in Reader, ShellCalls(r) PROVE [Next]_vars
    BY <2>6 DEF ShellCalls, lockVars
  <2> QED
    BY <2>1, <2>2, <2>3, <2>4, <2>5, <2>6 DEF TestNext, System
<1>3. UNCHANGED testVars => UNCHANGED vars
  BY DEF testVars, lockVars
<1>4. [TestNext]_testVars => [Next]_vars
  BY <1>2, <1>3
<1> QED
  BY <1>1, <1>4, PTL DEF TestSpec, Spec

(* The servers' queues stay in their bounds, and everything has its type.  *)
THEOREM TestTypes == TestSpec => []TestTypeOK
<1>1. IsFiniteSet(Lock)
  BY LockTestAssumption
<1>2. Spec => []TypeOK
  BY <1>1, LockTypeOK
<1>3. TestInv => MsgTypeOK /\ ConsoleTypeOK /\ step \in [Child -> -1 .. LastStep]
  BY DEF TestInv, MsgInv, ConsoleKeeps, TxKeeps, RxKeeps, IntKeeps, ConsoleTypeOK
<1>4. TestInv /\ TypeOK => TestTypeOK
  BY <1>3 DEF TestTypeOK
<1> QED
  BY <1>2, <1>4, TestUsesLocks, TestInvariant, PTL

(* No reply reaches a wrong client: the console's servers keep each of     *)
(* their clients once, and only those that wait (msg.c:16-40).             *)
THEOREM ConsoleClients == TestSpec => []ClientsNamedOnce
<1>1. TestInv => ClientsNamedOnce
  BY NamedOnce DEF TestInv
<1> QED
  BY <1>1, TestInvariant, PTL

(* The children's lines come out whole, because each of their messages is  *)
(* on its way, in order, before MsgSend returns, and only who holds the    *)
(* lock prints (shell.c:175-184). *)
THEOREM LinesStayWhole == TestSpec => []LinesWhole
<1>1. TestInv => LinesWhole
  BY DEF TestInv
<1> QED
  BY <1>1, TestInvariant, PTL

(* What is typed and not read yet is the end of what was typed, without a  *)
(* gap, although queues overflow on the way (console.c:174-178). *)
THEOREM InputHasNoGap == TestSpec => []InputContiguous
<1>1. TestInv => InputContiguous
  BY DEF TestInv
<1> QED
  BY <1>1, TestInvariant, PTL

(* Who prints is told 0 when all of the message is on the way, and ENOMEM  *)
(* when a beginning of it is and the rest is not (console.c:126-142).      *)
LEMMA TxTells ==
    ASSUME TestInv, Said, TxEnqueue, NEW t \in Task, WriteEnds(t)
    PROVE  LET text == Heard(Printed', msg[t].id)
           IN  IF status'[t] = 0 THEN text = msg[t].text
               ELSE text # msg[t].text /\ IsPrefix(text, msg[t].text)
<1>1. txtid # NoTid /\ txtid \in Fd
  BY Holder DEF TestInv, Transmits, TxEnqueue
<1>2. ~UNCHANGED msgVars
  BY DEF WriteEnds, msgVars
<1>3. \E st \in Int : /\ MsgReply(TxServer, txtid, st) /\ TxDone
                      /\ (st = 0 <=> rest = <<>>)
  BY <1>2 DEF TxEnqueue, TruncatedStatus, ENOMEM
<1>4. PICK st \in Int : /\ MsgReply(TxServer, txtid, st) /\ TxDone
                       /\ (st = 0 <=> rest = <<>>)
  BY <1>3
<1>5. t = tids[TxServer][txtid] /\ status'[t] = st
  <2> DEFINE u == tids[TxServer][txtid]
  <2>1. status'[u] = st /\ \A v \in Task \ {u} : phase'[v] = phase[v]
    BY <1>1, <1>4, TestFacts, ReplyFrame DEF TestInv
  <2> HIDE DEF u
  <2>2. t = u
    BY <2>1 DEF WriteEnds
  <2> QED
    BY <2>1, <2>2 DEF u
<1>6. Printed' = Printed /\ Printed \in Seq(Chars) /\ rest \in Seq(Chars)
  BY <1>4, PrintedIs DEF TxDone, Printed, TestInv, ConsoleKeeps, TxKeeps
<1> DEFINE H == Heard(Printed, msg[t].id)  T == Text(rest)
<1>7. H \o T = msg[t].text
  BY <1>1, <1>5 DEF Said, RestFollows
<1>8. H \in Seq(Ch) /\ T \in Seq(Ch) /\ Len(T) = Len(rest)
  BY <1>6, TextIs, HeardTyped
<1> HIDE DEF H, T
<1>9. CASE rest = <<>>
  <2>1. H \o T = H
    BY <1>6, <1>8, <1>9
  <2> QED
    BY <1>4, <1>5, <1>6, <1>7, <1>9, <2>1 DEF H
<1>10. CASE rest # <<>>
  <2>1. Len(T) > 0
    BY <1>6, <1>8, <1>10
  <2>2. H # H \o T /\ IsPrefix(H, H \o T)
    BY <1>8, <2>1, PrefixIs
  <2> QED
    BY <1>4, <1>5, <1>6, <1>7, <1>10, <2>2 DEF H
<1> QED
  BY <1>9, <1>10

THEOREM WritesAreReported == TestSpec => WriteReported
<1>1. ASSUME TestInv, Said, [TestNext]_testVars
      PROVE  \A t \in Task :
                phase[t] = "waiting" /\ phase'[t] = "ready" /\ msg[t].code = "WRITE" =>
                LET text == Heard(Printed', msg[t].id)
                IN  IF status'[t] = 0 THEN text = msg[t].text
                    ELSE text # msg[t].text /\ IsPrefix(text, msg[t].text)
  <2> TAKE t \in Task
  <2> HAVE phase[t] = "waiting" /\ phase'[t] = "ready" /\ msg[t].code = "WRITE"
  <2>1. WriteEnds(t)
    BY DEF WriteEnds
  <2> QED
    BY <1>1, <2>1, TxEndsWrites, TxTells
<1> QED
  BY <1>1, SaidInvariant, PTL DEF TestSpec, WriteReported
=============================================================================
