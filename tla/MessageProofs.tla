--------------------------- MODULE MessageProofs ----------------------------
(***************************************************************************)
(* Requests and replies of lib/msg.c, for any tasks, servers and           *)
(* descriptors: what sending, receiving and answering do, and that they    *)
(* never mix up clients.                                                   *)
(***************************************************************************)
EXTENDS Messages, FiniteSetTheorems, SequenceTheorems, WellFoundedInduction, TLAPS

(* No client is in an inbox twice, or kept twice by the servers.           *)
QueuedOnce ==
    \A s, q \in Server : \A i \in DOMAIN inbox[s], j \in DOMAIN inbox[q] :
        inbox[s][i] = inbox[q][j] => s = q /\ i = j

KeptOnce ==
    \A s, q \in Server : \A fd, f \in Fd :
        tids[s][fd] = tids[q][f] /\ tids[s][fd] # Nobody => s = q /\ fd = f

(* A client is in an inbox while it sends, and kept while it waits.        *)
Queued(t) == \E s \in Server : \E i \in DOMAIN inbox[s] : inbox[s][i] = t
Kept(t)   == \E s \in Server, fd \in Fd : tids[s][fd] = t

PhaseTells ==
    \A t \in Task : /\ phase[t] = "sending" <=> Queued(t)
                    /\ phase[t] = "waiting" <=> Kept(t)

MsgInv ==
    /\ MsgTypeOK /\ DOMAIN msg = Task
    /\ QueuedOnce /\ KeptOnce /\ PhaseTells

-----------------------------------------------------------------------------

LEMMA LeastNat ==
    ASSUME NEW S \in SUBSET Nat, S # {}
    PROVE  \E m \in S : \A x \in S : m <= x
<1> DEFINE R == {ss \in Nat \X Nat : ss[1] < ss[2]}
<1>1. IsWellFoundedOn(R, Nat)
  BY NatLessThanWellFounded, Zenon DEF OpToRel
<1>2. \A x, y \in Nat : x < y => <<x, y>> \in R
  OBVIOUS
<1> HIDE DEF R
<1>3. PICK m \in S : \A x \in S : <<x, m>> \notin R
  BY <1>1, WFMin
<1>4. \A x \in S : m <= x
  <2> TAKE x \in S
  <2>1. x \in Nat /\ m \in Nat /\ ~(x < m)
    BY <1>2, <1>3
  <2> QED
    BY <2>1
<1> QED
  BY <1>4

(* Induction on a rank, for a property given as a set.                     *)
LEMMA RankInduction ==
    ASSUME NEW S, NEW rank \in [S -> Nat], NEW P,
           \A i \in S : (\A j \in S : rank[j] < rank[i] => j \in P) => i \in P
    PROVE  \A i \in S : i \in P
<1> DEFINE T == {rank[i] : i \in S \ P}
<1>1. SUFFICES ASSUME T # {} PROVE FALSE
  OBVIOUS
<1>2. T \in SUBSET Nat
  OBVIOUS
<1>3. PICK m \in T : \A x \in T : m <= x
  BY <1>1, <1>2, LeastNat
<1>4. PICK i \in S \ P : rank[i] = m
  BY <1>3
<1>5. \A j \in S : rank[j] < rank[i] => j \in P
  <2> SUFFICES ASSUME NEW j \in S, rank[j] < rank[i], j \notin P
               PROVE  FALSE
    OBVIOUS
  <2>1. rank[j] \in T /\ rank[j] \in Nat /\ rank[i] \in Nat
    OBVIOUS
  <2> QED
    BY <1>3, <1>4, <2>1, SMTT(30)
<1> QED
  BY <1>4, <1>5

LEMMA NatInduct ==
    ASSUME NEW P, 0 \in P, \A n \in Nat : n \in P => n + 1 \in P
    PROVE  \A n \in Nat : n \in P
<1> DEFINE rank == [n \in Nat |-> n]
<1>1. rank \in [Nat -> Nat]
  OBVIOUS
<1>2. ASSUME NEW i \in Nat, \A j \in Nat : rank[j] < rank[i] => j \in P
      PROVE  i \in P
  <2>1. CASE i = 0
    BY <2>1
  <2>2. CASE i # 0
    <3>1. i - 1 \in Nat /\ i - 1 < i /\ (i - 1) + 1 = i
      BY <2>2
    <3> QED
      BY <1>2, <3>1
  <2> QED
    BY <2>1, <2>2
<1> HIDE DEF rank
<1> QED
  BY <1>1, <1>2, RankInduction

-----------------------------------------------------------------------------
(***************************************************************************)
(* Recursions that come closer to where they stop define functions.  The   *)
(* loops of the clock's heap are such recursions, which go from a place to *)
(* its parent or to a child until some place, and so are the folds over    *)
(* what the console has received.                                          *)
(***************************************************************************)

Recursion(f, S, stop, nxt, base, step) ==
    \A i \in S : f[i] = IF i \in stop THEN base[i] ELSE step[<<i, f[nxt[i]]>>]

(* rank says how far it still is to a place where the recursion stops.     *)
Ranked(S, V, stop, rank, nxt, base, step) ==
    /\ rank \in [S -> Nat] /\ nxt \in [S -> S]
    /\ base \in [S -> V] /\ step \in [S \X V -> V]
    /\ \A i \in S : i \notin stop => rank[nxt[i]] < rank[i]

LEMMA RecursionDefines ==
    ASSUME NEW S, NEW V, NEW stop, NEW rank, NEW nxt, NEW base, NEW step,
           Ranked(S, V, stop, rank, nxt, base, step)
    PROVE  \E f \in [S -> V] : Recursion(f, S, stop, nxt, base, step)
<1> DEFINE Next1(g) == [i \in S |-> IF i \in stop THEN base[i] ELSE step[<<i, g[nxt[i]]>>]]
           Upto(n, g) == g \in [S -> V] /\ \A i \in S : rank[i] < n => g[i] = Next1(g)[i]
<1>1. \A g \in [S -> V] : Next1(g) \in [S -> V]
  BY DEF Ranked
<1>2. \A n \in Nat : \A g : Upto(n, g) => Upto(n + 1, Next1(g))
  <2> SUFFICES ASSUME NEW n \in Nat, NEW g, Upto(n, g)
               PROVE  Upto(n + 1, Next1(g))
    OBVIOUS
  <2>1. Next1(g) \in [S -> V]
    BY <1>1
  <2>2. ASSUME NEW i \in S, rank[i] < n + 1 PROVE Next1(g)[i] = Next1(Next1(g))[i]
    <3>1. CASE i \in stop
      BY <3>1
    <3>2. CASE i \notin stop
      <4>1. nxt[i] \in S /\ rank[nxt[i]] < rank[i] /\ rank[i] \in Nat /\ rank[nxt[i]] \in Nat
        BY <3>2 DEF Ranked
      <4>2. rank[nxt[i]] < n
        BY <2>2, <4>1
      <4>3. g[nxt[i]] = Next1(g)[nxt[i]]
        BY <4>1, <4>2
      <4> QED
        BY <3>2, <4>3
    <3> QED
      BY <3>1, <3>2
  <2> HIDE DEF Next1
  <2> QED
    BY <2>1, <2>2
<1>3. \A n \in Nat : \E g : Upto(n, g)
  <2> DEFINE T == {n \in Nat : ~\E g : Upto(n, g)}
  <2>1. SUFFICES ASSUME T # {} PROVE FALSE
    OBVIOUS
  <2>2. PICK m \in T : \A x \in T : m <= x
    BY <2>1, LeastNat
  <2>3. Upto(0, base)
    BY DEF Ranked
  <2> HIDE DEF Upto, Next1
  <2>4. m # 0
    BY <2>3
  <2>5. m - 1 \in Nat /\ m - 1 \notin T /\ (m - 1) + 1 = m
    BY <2>2, <2>4
  <2>6. PICK g : Upto(m - 1, g)
    BY <2>5
  <2>7. Upto(m, Next1(g))
    BY <1>2, <2>5, <2>6
  <2> QED
    BY <2>7
<1>4. \A n, m \in Nat : \A g, h : Upto(n, g) /\ Upto(m, h) =>
         \A i \in S : rank[i] < n /\ rank[i] < m => g[i] = h[i]
  <2> SUFFICES ASSUME NEW n \in Nat, NEW m \in Nat, NEW g, NEW h, Upto(n, g), Upto(m, h)
               PROVE  \A i \in S : rank[i] < n /\ rank[i] < m => g[i] = h[i]
    OBVIOUS
  <2> DEFINE D == {j \in S : rank[j] < n /\ rank[j] < m /\ g[j] # h[j]}
             T == {rank[i] : i \in D}
  <2>1. SUFFICES ASSUME T # {} PROVE FALSE
    OBVIOUS
  <2>2. T \in SUBSET Nat
    BY DEF Ranked
  <2>3. PICK k \in T : \A x \in T : k <= x
    BY <2>1, <2>2, LeastNat
  <2>4. PICK i \in D : rank[i] = k
    BY <2>3
  <2>5. i \in S /\ rank[i] < n /\ rank[i] < m /\ g[i] # h[i] /\ g[i] = Next1(g)[i] /\ h[i] = Next1(h)[i]
    BY <2>4
  <2>6. i \notin stop
    BY <2>5
  <2>7. nxt[i] \in S /\ rank[nxt[i]] < rank[i] /\ rank[i] \in Nat /\ rank[nxt[i]] \in Nat
    BY <2>5, <2>6 DEF Ranked
  <2>8. nxt[i] \notin D
    <3>1. nxt[i] \in D => rank[nxt[i]] \in T
      OBVIOUS
    <3> QED
      BY <2>3, <2>4, <2>7, <3>1
  <2>9. g[nxt[i]] = h[nxt[i]]
    BY <2>5, <2>7, <2>8
  <2> QED
    BY <2>5, <2>6, <2>9
<1> DEFINE G(n) == CHOOSE g : Upto(n, g)
           f == [i \in S |-> G(rank[i] + 1)[i]]
<1> HIDE DEF Upto, Next1
<1>5. \A n \in Nat : Upto(n, G(n))
  BY <1>3
<1> HIDE DEF G
<1>6. \A i \in S : rank[i] \in Nat /\ rank[i] + 1 \in Nat /\ rank[i] < rank[i] + 1
  BY DEF Ranked
<1>7. f \in [S -> V]
  <2>1. \A i \in S : G(rank[i] + 1) \in [S -> V]
    BY <1>5, <1>6 DEF Upto
  <2> QED
    BY <2>1
<1>8. \A n \in Nat : \A i \in S : rank[i] < n => f[i] = G(n)[i]
  BY <1>4, <1>5, <1>6
<1>9. \A i \in S : f[i] = IF i \in stop THEN base[i] ELSE step[<<i, f[nxt[i]]>>]
  <2> SUFFICES ASSUME NEW i \in S
               PROVE  f[i] = IF i \in stop THEN base[i] ELSE step[<<i, f[nxt[i]]>>]
    OBVIOUS
  <2> DEFINE g == G(rank[i] + 1)
  <2>1. f[i] = g[i] /\ Upto(rank[i] + 1, g)
    BY <1>5, <1>6
  <2> HIDE DEF g
  <2>2. g[i] = IF i \in stop THEN base[i] ELSE step[<<i, g[nxt[i]]>>]
    BY <1>6, <2>1 DEF Upto, Next1
  <2>3. CASE i \in stop
    BY <2>1, <2>2, <2>3
  <2>4. CASE i \notin stop
    <3>1. nxt[i] \in S /\ rank[nxt[i]] < rank[i] /\ rank[i] \in Nat /\ rank[nxt[i]] \in Nat
      BY <2>4 DEF Ranked
    <3>2. rank[nxt[i]] < rank[i] + 1
      BY <3>1
    <3>3. f[nxt[i]] = g[nxt[i]]
      BY <1>6, <1>8, <3>1, <3>2 DEF g
    <3> QED
      BY <2>1, <2>2, <2>4, <3>3
  <2> QED
    BY <2>3, <2>4
<1> HIDE DEF f
<1> QED
  BY <1>7, <1>9 DEF Recursion

-----------------------------------------------------------------------------
(* The kernel gives out a free descriptor if there is one.                 *)
LEMMA TidIsFree ==
    ASSUME NEW s, FreeFds(s) # {}
    PROVE  Tid(s) \in Fd /\ tids[s][Tid(s)] = Nobody
<1>1. FreeFds(s) \in SUBSET Nat
  BY FdAssumption DEF FreeFds
<1>2. PICK m \in FreeFds(s) : \A x \in FreeFds(s) : m <= x
  BY <1>1, LeastNat
<1>3. \A f \in Fd : f < m => tids[s][f] # Nobody
  <2> SUFFICES ASSUME NEW f \in Fd, f < m, tids[s][f] = Nobody
               PROVE  FALSE
    OBVIOUS
  <2>1. f \in FreeFds(s) /\ f \in Nat /\ m \in Nat
    BY <1>1, FdAssumption DEF FreeFds
  <2> QED
    BY <1>2, <2>1
<1>4. m \in Fd /\ tids[s][m] = Nobody
  BY DEF FreeFds
<1> QED
  BY <1>3, <1>4, Zenon DEF Tid

(* What MsgReceive gets, with the descriptors that stand for clients.      *)
Got(s) == [tids[s] EXCEPT ![Tid(s)] = Sender(s)]

LEMMA SenderIs ==
    ASSUME MsgInv, NEW s \in Server, Incoming(s)
    PROVE  /\ Sender(s) \in Task /\ phase[Sender(s)] = "sending"
           /\ 1 \in DOMAIN inbox[s] /\ inbox[s][1] = Sender(s)
           /\ Sender(s) # Nobody
<1>1. inbox[s] \in Seq(Task) /\ inbox[s] # <<>>
  BY DEF MsgInv, MsgTypeOK, Incoming
<1>2. 1 \in DOMAIN inbox[s] /\ inbox[s][1] = Sender(s) /\ Sender(s) \in Task
  BY <1>1 DEF Sender
<1> QED
  BY <1>2, NobodyAssumption DEF MsgInv, PhaseTells, Queued

LEMMA GotIs ==
    ASSUME MsgInv, NEW s \in Server, Incoming(s), FreeFds(s) # {}
    PROVE  /\ Got(s) \in [Fd -> Task \cup {Nobody}]
           /\ Got(s)[Tid(s)] = Sender(s)
           /\ \A f \in Fd : f # Tid(s) => Got(s)[f] = tids[s][f] /\ Got(s)[f] # Sender(s)
           /\ \A f, g \in Fd : Got(s)[f] = Got(s)[g] /\ Got(s)[f] # Nobody => f = g
<1>1. Tid(s) \in Fd /\ tids[s] \in [Fd -> Task \cup {Nobody}]
  BY TidIsFree DEF MsgInv, MsgTypeOK
<1>2. Sender(s) \in Task /\ phase[Sender(s)] = "sending"
  BY SenderIs
<1>3. \A f \in Fd : tids[s][f] # Sender(s)
  BY <1>2 DEF MsgInv, PhaseTells, Kept
<1>4. Got(s)[Tid(s)] = Sender(s) /\ \A f \in Fd : f # Tid(s) => Got(s)[f] = tids[s][f]
  BY <1>1 DEF Got
<1>5. \A f, g \in Fd : tids[s][f] = tids[s][g] /\ tids[s][f] # Nobody => f = g
  BY DEF MsgInv, KeptOnce
<1>6. Got(s) \in [Fd -> Task \cup {Nobody}]
  BY <1>1, <1>2 DEF Got
<1> QED
  BY <1>1, <1>3, <1>4, <1>5, <1>6

(* A step of a server, client by client.                                   *)
Answered(s, replies, t) == \E f \in DOMAIN replies : Got(s)[f] = t

LEMMA ServeEffect ==
    ASSUME MsgInv, NEW s \in Server, Incoming(s), NEW replies,
           DOMAIN replies \subseteq Fd, Serve(s, replies)
    PROVE  /\ FreeFds(s) # {} /\ Tid(s) \in Fd /\ tids[s][Tid(s)] = Nobody
           /\ tids' = [tids EXCEPT ![s] =
                 [f \in Fd |-> IF f \in DOMAIN replies THEN Nobody ELSE Got(s)[f]]]
           /\ phase' = [t \in Task |->
                 IF Answered(s, replies, t) THEN "ready"
                 ELSE IF t = Sender(s) THEN "waiting" ELSE phase[t]]
           /\ msg' = [t \in Task |->
                 IF Answered(s, replies, t) THEN None ELSE msg[t]]
           /\ \A t \in Task : ~Answered(s, replies, t) => status'[t] = status[t]
           /\ \A f \in DOMAIN replies : Got(s)[f] \in Task =>
                 status'[Got(s)[f]] = replies[f]
           /\ DOMAIN status' = Task
           /\ inbox' = [inbox EXCEPT ![s] = Tail(@)]
           /\ crashed' = crashed
<1>1. FreeFds(s) # {} /\ Tid(s) \in Fd /\ tids[s][Tid(s)] = Nobody
  BY TidIsFree DEF Serve
<1> DEFINE answer == [t \in {Got(s)[f] : f \in DOMAIN replies} |->
                 replies[CHOOSE f \in DOMAIN replies : Got(s)[f] = t]]
<1>2. /\ tids' = [tids EXCEPT ![s] =
                 [f \in Fd |-> IF f \in DOMAIN replies THEN Nobody ELSE Got(s)[f]]]
      /\ phase' = [t \in Task |->
            IF t \in DOMAIN answer THEN "ready"
            ELSE IF t = Sender(s) THEN "waiting" ELSE phase[t]]
      /\ status' = [t \in Task |->
            IF t \in DOMAIN answer THEN answer[t] ELSE status[t]]
      /\ msg' = [t \in Task |-> IF t \in DOMAIN answer THEN None ELSE msg[t]]
      /\ inbox' = [inbox EXCEPT ![s] = Tail(@)]
      /\ crashed' = crashed
  <2>1. PICK got \in {Got(s)}, done \in {replies} :
         \E a \in {[t \in {got[f] : f \in DOMAIN done} |->
                      done[CHOOSE f \in DOMAIN done : got[f] = t]]} :
           /\ tids' = [tids EXCEPT ![s] =
                 [f \in Fd |-> IF f \in DOMAIN done THEN Nobody ELSE got[f]]]
           /\ phase' = [t \in Task |->
                 IF t \in DOMAIN a THEN "ready"
                 ELSE IF t = Sender(s) THEN "waiting" ELSE phase[t]]
           /\ status' = [t \in Task |->
                 IF t \in DOMAIN a THEN a[t] ELSE status[t]]
           /\ msg' = [t \in Task |-> IF t \in DOMAIN a THEN None ELSE msg[t]]
    BY DEF Serve, Got
  <2>2. got = Got(s) /\ done = replies
    BY <2>1
  <2>3. inbox' = [inbox EXCEPT ![s] = Tail(@)] /\ crashed' = crashed
    BY DEF Serve
  <2> QED
    BY <2>1, <2>2, <2>3
<1>3. \A t : t \in DOMAIN answer <=> Answered(s, replies, t)
  BY DEF Answered
<1>4. ASSUME NEW f \in DOMAIN replies PROVE answer[Got(s)[f]] = replies[f] \/ Got(s)[f] = Nobody
  <2>1. answer[Got(s)[f]] = replies[CHOOSE g \in DOMAIN replies : Got(s)[g] = Got(s)[f]]
    OBVIOUS
  <2> DEFINE h == CHOOSE g \in DOMAIN replies : Got(s)[g] = Got(s)[f]
  <2>2. h \in DOMAIN replies /\ Got(s)[h] = Got(s)[f]
    OBVIOUS
  <2>3. h \in Fd /\ f \in Fd
    BY <2>2
  <2> HIDE DEF h
  <2>4. h = f \/ Got(s)[f] = Nobody
    BY <1>1, <2>2, <2>3, GotIs
  <2> QED
    BY <2>1, <2>4 DEF h
<1> HIDE DEF answer
<1>5. \A f \in DOMAIN replies : Got(s)[f] \in Task => status'[Got(s)[f]] = replies[f]
  BY <1>2, <1>3, <1>4, NobodyAssumption DEF Answered
<1>6. phase' = [t \in Task |->
                 IF Answered(s, replies, t) THEN "ready"
                 ELSE IF t = Sender(s) THEN "waiting" ELSE phase[t]]
  BY <1>2, <1>3
<1>7. msg' = [t \in Task |-> IF Answered(s, replies, t) THEN None ELSE msg[t]]
  BY <1>2, <1>3
<1>8. /\ \A t \in Task : ~Answered(s, replies, t) => status'[t] = status[t]
      /\ DOMAIN status' = Task
  BY <1>2, <1>3
<1> QED
  BY <1>1, <1>2, <1>5, <1>6, <1>7, <1>8

-----------------------------------------------------------------------------
(* Every step keeps the invariant.                                         *)

LEMMA MsgInitKeeps ==
    ASSUME MsgInit
    PROVE  MsgInv
<1>1. \A s \in Server : inbox[s] = <<>> /\ \A fd \in Fd : tids[s][fd] = Nobody
  BY DEF MsgInit
<1>2. MsgTypeOK /\ DOMAIN msg = Task
  <2>1. phase \in [Task -> Phase] /\ status \in [Task -> Int]
    BY DEF MsgInit, Phase
  <2>2. inbox \in [Server -> Seq(Task)]
    <3>1. <<>> \in Seq(Task)
      OBVIOUS
    <3> QED
      BY <3>1 DEF MsgInit
  <2>3. tids \in [Server -> [Fd -> Task \cup {Nobody}]]
    BY DEF MsgInit
  <2>4. crashed \in BOOLEAN /\ DOMAIN msg = Task
    BY DEF MsgInit
  <2> QED
    BY <2>1, <2>2, <2>3, <2>4 DEF MsgTypeOK
<1>3. QueuedOnce
  BY <1>1 DEF QueuedOnce
<1>4. KeptOnce
  BY <1>1 DEF KeptOnce
<1>5. PhaseTells
  <2>1. \A t \in Task : phase[t] = "ready"
    BY DEF MsgInit
  <2> QED
    BY <1>1, <2>1, NobodyAssumption DEF PhaseTells, Queued, Kept
<1> QED
  BY <1>2, <1>3, <1>4, <1>5 DEF MsgInv

LEMMA MsgUnchanged ==
    ASSUME MsgInv, UNCHANGED <<phase, msg, status, inbox, tids>>, crashed' \in BOOLEAN
    PROVE  MsgInv'
<1>1. MsgTypeOK' /\ DOMAIN msg' = Task
  <2>1. /\ phase' \in [Task -> Phase] /\ inbox' \in [Server -> Seq(Task)]
        /\ tids' \in [Server -> [Fd -> Task \cup {Nobody}]]
        /\ status' \in [Task -> Int] /\ DOMAIN msg' = Task
    BY DEF MsgInv, MsgTypeOK
  <2> QED
    BY <2>1, Zenon DEF MsgTypeOK
<1>2. QueuedOnce' /\ KeptOnce'
  BY DEF MsgInv, QueuedOnce, KeptOnce
<1>3. PhaseTells'
  BY DEF MsgInv, PhaseTells, Queued, Kept
<1> QED
  BY <1>1, <1>2, <1>3 DEF MsgInv

LEMMA OutOfFdsKeeps ==
    ASSUME MsgInv, NEW s, OutOfFds(s)
    PROVE  MsgInv'
BY MsgUnchanged DEF OutOfFds

LEMMA InboxAppend ==
    ASSUME MsgInv, NEW t \in Task, NEW s \in Server,
           inbox' = [inbox EXCEPT ![s] = Append(@, t)]
    PROVE  /\ inbox' \in [Server -> Seq(Task)]
           /\ \A q \in Server : q # s => inbox'[q] = inbox[q]
           /\ Len(inbox'[s]) = Len(inbox[s]) + 1
           /\ DOMAIN inbox'[s] = DOMAIN inbox[s] \cup {Len(inbox[s]) + 1}
           /\ \A i \in DOMAIN inbox[s] : inbox'[s][i] = inbox[s][i]
           /\ inbox'[s][Len(inbox[s]) + 1] = t
<1>1. inbox \in [Server -> Seq(Task)]
  BY DEF MsgInv, MsgTypeOK
<1>2. inbox'[s] = Append(inbox[s], t) /\ inbox[s] \in Seq(Task)
  BY <1>1
<1>3. inbox' \in [Server -> Seq(Task)] /\ \A q \in Server : q # s => inbox'[q] = inbox[q]
  BY <1>1
<1> QED
  BY <1>2, <1>3

LEMMA InboxTail ==
    ASSUME MsgInv, NEW s \in Server, Incoming(s),
           inbox' = [inbox EXCEPT ![s] = Tail(@)]
    PROVE  /\ inbox' \in [Server -> Seq(Task)]
           /\ \A q \in Server : q # s => inbox'[q] = inbox[q]
           /\ Len(inbox[s]) \in Nat \ {0}
           /\ DOMAIN inbox[s] = 1 .. Len(inbox[s])
           /\ DOMAIN inbox'[s] = 1 .. (Len(inbox[s]) - 1)
           /\ \A i \in DOMAIN inbox'[s] : i + 1 \in DOMAIN inbox[s]
                                          /\ inbox'[s][i] = inbox[s][i + 1]
<1>1. inbox \in [Server -> Seq(Task)] /\ inbox[s] # <<>>
  BY DEF MsgInv, MsgTypeOK, Incoming
<1>2. inbox'[s] = Tail(inbox[s]) /\ inbox[s] \in Seq(Task)
  BY <1>1
<1>3. inbox' \in [Server -> Seq(Task)] /\ \A q \in Server : q # s => inbox'[q] = inbox[q]
  BY <1>1
<1> QED
  BY <1>1, <1>2, <1>3

LEMMA MsgSendKeeps ==
    ASSUME MsgInv, NEW t \in Task, NEW s \in Server, NEW m, MsgSend(t, s, m)
    PROVE  MsgInv'
<1>1. /\ phase[t] = "ready" /\ phase' = [phase EXCEPT ![t] = "sending"]
      /\ status' = [status EXCEPT ![t] = 0]
      /\ inbox' = [inbox EXCEPT ![s] = Append(@, t)]
      /\ msg' = [msg EXCEPT ![t] = m]
      /\ tids' = tids /\ crashed' = crashed
  BY DEF MsgSend
<1>2. MsgTypeOK' /\ DOMAIN msg' = Task
  <2>1. inbox' \in [Server -> Seq(Task)]
    BY <1>1, InboxAppend
  <2> QED
    BY <1>1, <2>1 DEF MsgInv, MsgTypeOK, Phase
<1>3. \A q \in Server : \A i \in DOMAIN inbox[q] : inbox[q][i] # t
  BY <1>1 DEF MsgInv, PhaseTells, Queued
<1> DEFINE n == Len(inbox[s]) + 1
<1>4. /\ \A q \in Server : q # s => inbox'[q] = inbox[q]
      /\ DOMAIN inbox'[s] = DOMAIN inbox[s] \cup {n}
      /\ \A i \in DOMAIN inbox[s] : inbox'[s][i] = inbox[s][i]
      /\ inbox'[s][n] = t
  BY <1>1, InboxAppend
<1> HIDE DEF n
<1>5. QueuedOnce'
  BY <1>3, <1>4 DEF MsgInv, QueuedOnce
<1>6. KeptOnce'
  BY <1>1 DEF MsgInv, KeptOnce
<1>7. PhaseTells'
  <2>1. \A c \in Task : Queued(c)' <=> Queued(c) \/ c = t
    BY <1>4 DEF Queued
  <2>2. \A c \in Task : Kept(c)' <=> Kept(c)
    BY <1>1 DEF Kept
  <2>3. \A c \in Task : phase'[c] = IF c = t THEN "sending" ELSE phase[c]
    BY <1>1 DEF MsgInv, MsgTypeOK
  <2> QED
    BY <1>1, <2>1, <2>2, <2>3 DEF MsgInv, PhaseTells
<1> QED
  BY <1>2, <1>5, <1>6, <1>7 DEF MsgInv

LEMMA ServeKeeps ==
    ASSUME MsgInv, NEW s \in Server, Incoming(s), NEW replies,
           DOMAIN replies \subseteq Fd, \A f \in DOMAIN replies : replies[f] \in Int,
           Serve(s, replies)
    PROVE  MsgInv'
<1> DEFINE Ans(t) == Answered(s, replies, t)
           got == Got(s)
           c == Sender(s)
<1>1. /\ FreeFds(s) # {} /\ Tid(s) \in Fd
      /\ tids' = [tids EXCEPT ![s] =
            [f \in Fd |-> IF f \in DOMAIN replies THEN Nobody ELSE got[f]]]
      /\ phase' = [t \in Task |->
            IF Ans(t) THEN "ready" ELSE IF t = c THEN "waiting" ELSE phase[t]]
      /\ DOMAIN msg' = Task
      /\ inbox' = [inbox EXCEPT ![s] = Tail(@)]
      /\ crashed' = crashed
  BY ServeEffect
<1>2. /\ \A t \in Task : ~Ans(t) => status'[t] = status[t]
      /\ \A f \in DOMAIN replies : got[f] \in Task => status'[got[f]] = replies[f]
      /\ DOMAIN status' = Task
  BY ServeEffect
<1>3. /\ got \in [Fd -> Task \cup {Nobody}] /\ got[Tid(s)] = c
      /\ \A f \in Fd : f # Tid(s) => got[f] = tids[s][f] /\ got[f] # c
      /\ \A f, g \in Fd : got[f] = got[g] /\ got[f] # Nobody => f = g
  BY <1>1, GotIs
<1>4. /\ c \in Task /\ phase[c] = "sending" /\ c # Nobody
      /\ 1 \in DOMAIN inbox[s] /\ inbox[s][1] = c
  BY SenderIs
<1>5. /\ inbox' \in [Server -> Seq(Task)]
      /\ \A q \in Server : q # s => inbox'[q] = inbox[q]
      /\ Len(inbox[s]) \in Nat \ {0}
      /\ DOMAIN inbox[s] = 1 .. Len(inbox[s])
      /\ DOMAIN inbox'[s] = 1 .. (Len(inbox[s]) - 1)
      /\ \A i \in DOMAIN inbox'[s] : i + 1 \in DOMAIN inbox[s]
                                     /\ inbox'[s][i] = inbox[s][i + 1]
  BY <1>1, InboxTail
<1>6. \A t \in Task : Ans(t) <=> \E f \in DOMAIN replies : got[f] = t
  BY DEF Answered
<1>7. /\ tids \in [Server -> [Fd -> Task \cup {Nobody}]] /\ phase \in [Task -> Phase]
      /\ status \in [Task -> Int] /\ crashed \in BOOLEAN
  BY DEF MsgInv, MsgTypeOK
<1>8. /\ \A q \in Server : q # s => tids'[q] = tids[q]
      /\ \A f \in Fd : tids'[s][f] = IF f \in DOMAIN replies THEN Nobody ELSE got[f]
  BY <1>1, <1>7
<1> HIDE DEF Ans, got, c
<1>9. status' \in [Task -> Int]
  <2>1. \A t \in Task : status'[t] \in Int
    BY <1>2, <1>6, <1>7
  <2>2. status' = [t \in Task |-> status'[t]]
    <3>1. status' \in {[t \in Task |-> status'[t]]} \/ TRUE
      OBVIOUS
    <3>2. \E a : status' = [t \in Task |-> a[t]]
      BY <1>2 DEF Serve
    <3> QED
      BY <3>2
  <2> QED
    BY <2>1, <2>2
<1>10. tids' \in [Server -> [Fd -> Task \cup {Nobody}]]
  BY <1>1, <1>3, <1>7
<1>11. phase' \in [Task -> Phase]
  BY <1>1, <1>7 DEF Phase
<1>12. MsgTypeOK' /\ DOMAIN msg' = Task
  BY <1>1, <1>5, <1>7, <1>9, <1>10, <1>11 DEF MsgTypeOK
<1>13. QueuedOnce'
  <2> SUFFICES ASSUME NEW q \in Server, NEW r \in Server,
                      NEW i \in DOMAIN inbox'[q], NEW j \in DOMAIN inbox'[r],
                      inbox'[q][i] = inbox'[r][j]
               PROVE  q = r /\ i = j
    BY DEF QueuedOnce
  <2>1. i \in Nat /\ j \in Nat
    BY <1>5
  <2> DEFINE i1 == IF q = s THEN i + 1 ELSE i
             j1 == IF r = s THEN j + 1 ELSE j
  <2>2. i1 \in DOMAIN inbox[q] /\ inbox'[q][i] = inbox[q][i1]
    BY <1>5
  <2>3. j1 \in DOMAIN inbox[r] /\ inbox'[r][j] = inbox[r][j1]
    BY <1>5
  <2> HIDE DEF i1, j1
  <2>4. inbox[q][i1] = inbox[r][j1]
    BY <2>2, <2>3
  <2>5. QueuedOnce
    BY DEF MsgInv
  <2>6. q = r /\ i1 = j1
    BY <2>2, <2>3, <2>4, <2>5 DEF QueuedOnce
  <2> QED
    BY <2>1, <2>6 DEF i1, j1
<1>14. \A q \in Server, f \in Fd : tids'[q][f] # Nobody =>
          \/ tids'[q][f] = tids[q][f] /\ ~(q = s /\ f = Tid(s))
          \/ q = s /\ f = Tid(s) /\ tids'[q][f] = c
  BY <1>3, <1>8
<1>15. \A q \in Server, f \in Fd : tids[q][f] # c
  BY <1>4 DEF MsgInv, PhaseTells, Kept
<1>16. KeptOnce'
  <2> SUFFICES ASSUME NEW q \in Server, NEW r \in Server, NEW f \in Fd, NEW g \in Fd,
                      tids'[q][f] = tids'[r][g], tids'[q][f] # Nobody
               PROVE  q = r /\ f = g
    BY DEF KeptOnce
  <2> QED
    BY <1>14, <1>15 DEF MsgInv, KeptOnce
<1>17. \A t \in Task : Queued(t)' <=> Queued(t) /\ t # c
  <2> SUFFICES ASSUME NEW t \in Task
               PROVE  Queued(t)' <=> Queued(t) /\ t # c
    OBVIOUS
  <2>1. ASSUME Queued(t)' PROVE Queued(t) /\ t # c
    <3>0. PICK q \in Server : \E i \in DOMAIN inbox'[q] : inbox'[q][i] = t
      BY <2>1 DEF Queued
    <3>1. PICK i \in DOMAIN inbox'[q] : inbox'[q][i] = t
      BY <3>0
    <3> DEFINE i1 == IF q = s THEN i + 1 ELSE i
    <3>2. i1 \in DOMAIN inbox[q] /\ inbox[q][i1] = t /\ (q = s => i1 # 1)
      BY <1>5, <3>1
    <3> HIDE DEF i1
    <3> QED
      BY <1>4, <3>2 DEF Queued, MsgInv, QueuedOnce
  <2>2. ASSUME Queued(t), t # c PROVE Queued(t)'
    <3>0. PICK q \in Server : \E i \in DOMAIN inbox[q] : inbox[q][i] = t
      BY <2>2 DEF Queued
    <3>1. PICK i \in DOMAIN inbox[q] : inbox[q][i] = t
      BY <3>0
    <3>2. CASE q # s
      BY <1>5, <3>1, <3>2 DEF Queued
    <3>3. CASE q = s
      <4>1. i # 1
        BY <1>4, <2>2, <3>1, <3>3
      <4>2. i - 1 \in DOMAIN inbox'[s] /\ (i - 1) + 1 = i
        BY <1>5, <3>3, <4>1
      <4>3. inbox'[s][i - 1] = t
        BY <1>5, <3>1, <3>3, <4>2
      <4> QED
        BY <4>2, <4>3 DEF Queued
    <3> QED
      BY <3>2, <3>3
  <2> QED
    BY <2>1, <2>2
<1>18. \A t \in Task : Kept(t)' <=> ((Kept(t) \/ t = c) /\ ~Ans(t))
  <2> SUFFICES ASSUME NEW t \in Task
               PROVE  Kept(t)' <=> ((Kept(t) \/ t = c) /\ ~Ans(t))
    OBVIOUS
  <2>0. t # Nobody
    BY NobodyAssumption
  <2>1. ASSUME Kept(t)' PROVE (Kept(t) \/ t = c) /\ ~Ans(t)
    <3>1. PICK q \in Server, f \in Fd : tids'[q][f] = t
      BY <2>1 DEF Kept
    <3>2. Kept(t) \/ t = c
      BY <1>14, <2>0, <3>1 DEF Kept
    <3>3. ASSUME Ans(t) PROVE FALSE
      <4>1. PICK g \in DOMAIN replies : got[g] = t
        BY <1>6, <3>3
      <4>2. g \in Fd /\ (g = Tid(s) => t = c) /\ (g # Tid(s) => tids[s][g] = t /\ t # c)
        BY <1>3, <4>1
      <4>3. q = s /\ f = g
        BY <1>14, <1>15, <2>0, <3>1, <4>2 DEF MsgInv, KeptOnce
      <4> QED
        BY <1>8, <2>0, <3>1, <4>3
    <3> QED
      BY <3>2, <3>3
  <2>2. ASSUME Kept(t) \/ t = c, ~Ans(t) PROVE Kept(t)'
    <3>1. CASE t = c
      <4>1. Tid(s) \notin DOMAIN replies
        BY <1>3, <1>6, <2>2, <3>1, <1>4
      <4>2. tids'[s][Tid(s)] = t
        BY <1>1, <1>3, <1>8, <3>1, <4>1
      <4> QED
        BY <1>1, <4>2 DEF Kept
    <3>2. CASE t # c
      <4>1. PICK q \in Server, f \in Fd : tids[q][f] = t
        BY <2>2, <3>2 DEF Kept
      <4>2. CASE q # s
        BY <1>8, <4>1, <4>2 DEF Kept
      <4>3. CASE q = s
        <5>1. f # Tid(s)
          BY <2>0, <4>1, <4>3, ServeEffect
        <5>2. got[f] = t
          BY <1>3, <4>1, <4>3, <5>1
        <5>3. tids'[s][f] = t
          BY <1>6, <1>8, <2>2, <5>2
        <5> QED
          BY <5>3 DEF Kept
      <4> QED
        BY <4>2, <4>3
    <3> QED
      BY <3>1, <3>2
  <2> QED
    BY <2>1, <2>2
<1>19. PhaseTells'
  <2> SUFFICES ASSUME NEW t \in Task
               PROVE  /\ phase'[t] = "sending" <=> Queued(t)'
                      /\ phase'[t] = "waiting" <=> Kept(t)'
    BY DEF PhaseTells
  <2>1. phase[t] = "sending" <=> Queued(t)
    BY DEF MsgInv, PhaseTells
  <2>2. phase[t] = "waiting" <=> Kept(t)
    BY DEF MsgInv, PhaseTells
  <2>3. phase'[t] = IF Ans(t) THEN "ready" ELSE IF t = c THEN "waiting" ELSE phase[t]
    BY <1>1
  <2>4. Ans(t) => Kept(t) \/ t = c
    BY <1>3, <1>6 DEF Kept
  <2> QED
    BY <1>4, <1>17, <1>18, <2>1, <2>2, <2>3, <2>4
<1> QED
  BY <1>12, <1>13, <1>16, <1>19 DEF MsgInv

LEMMA MsgReplyKeeps ==
    ASSUME MsgInv, NEW s \in Server, NEW fd \in Fd, NEW st \in Int, MsgReply(s, fd, st)
    PROVE  MsgInv'
<1> DEFINE c == tids[s][fd]
<1>1. /\ c # Nobody
      /\ phase' = [phase EXCEPT ![c] = "ready"]
      /\ status' = [status EXCEPT ![c] = st]
      /\ DOMAIN msg' = Task
      /\ tids' = [tids EXCEPT ![s][fd] = Nobody]
      /\ inbox' = inbox /\ crashed' = crashed
  BY DEF MsgReply, MsgInv
<1>2. MsgTypeOK
  BY DEF MsgInv
<1>3. c \in Task
  BY <1>1, <1>2 DEF MsgTypeOK
<1>4. MsgTypeOK'
  BY <1>1, <1>2, <1>3 DEF MsgTypeOK, Phase
<1>5. \A q \in Server, f \in Fd :
         tids'[q][f] = IF q = s /\ f = fd THEN Nobody ELSE tids[q][f]
  BY <1>1, <1>2 DEF MsgTypeOK
<1>6. KeptOnce'
  BY <1>5 DEF MsgInv, KeptOnce
<1>7. QueuedOnce'
  BY <1>1 DEF MsgInv, QueuedOnce
<1>8. \A t \in Task : Queued(t)' <=> Queued(t)
  BY <1>1 DEF Queued
<1>9. \A t \in Task : Kept(t)' <=> Kept(t) /\ t # c
  <2> SUFFICES ASSUME NEW t \in Task
               PROVE  Kept(t)' <=> Kept(t) /\ t # c
    OBVIOUS
  <2>1. t # Nobody
    BY NobodyAssumption
  <2> QED
    BY <1>1, <1>5, <2>1 DEF Kept, MsgInv, KeptOnce
<1>10. \A t \in Task : phase'[t] = IF t = c THEN "ready" ELSE phase[t]
  BY <1>1, <1>2 DEF MsgTypeOK
<1>11. Kept(c)
  BY <1>1 DEF Kept
<1>12. PhaseTells'
  <2>1. phase[c] = "waiting" /\ ~Queued(c)
    BY <1>3, <1>11 DEF MsgInv, PhaseTells
  <2> HIDE DEF c
  <2> QED
    BY <1>8, <1>9, <1>10, <2>1 DEF MsgInv, PhaseTells
<1> QED
  BY <1>1, <1>4, <1>6, <1>7, <1>12 DEF MsgInv

-----------------------------------------------------------------------------
(* What a step does to all the others.                                     *)

(* A client that sends joins one inbox, and that is all.                   *)
LEMMA SendFrame ==
    ASSUME MsgInv, NEW t \in Task, NEW s \in Server, NEW m, MsgSend(t, s, m)
    PROVE  /\ MsgInv'
           /\ phase[t] = "ready" /\ phase'[t] = "sending" /\ msg'[t] = m
           /\ \A u \in Task \ {t} : /\ phase'[u] = phase[u] /\ msg'[u] = msg[u]
                                    /\ status'[u] = status[u]
           /\ \A q \in Server : \A i \in DOMAIN inbox'[q] :
                 \/ q = s /\ inbox'[q][i] = t
                 \/ /\ i \in DOMAIN inbox[q] /\ inbox'[q][i] = inbox[q][i]
                    /\ inbox[q][i] \in Task \ {t}
           /\ tids' = tids /\ crashed' = crashed /\ ~crashed
<1>1. /\ ~crashed /\ phase[t] = "ready" /\ phase' = [phase EXCEPT ![t] = "sending"]
      /\ status' = [status EXCEPT ![t] = 0]
      /\ inbox' = [inbox EXCEPT ![s] = Append(@, t)]
      /\ msg' = [msg EXCEPT ![t] = m]
      /\ tids' = tids /\ crashed' = crashed
  BY DEF MsgSend
<1>2. /\ phase'[t] = "sending" /\ msg'[t] = m
      /\ \A u \in Task \ {t} : /\ phase'[u] = phase[u] /\ msg'[u] = msg[u]
                               /\ status'[u] = status[u]
  BY <1>1 DEF MsgInv, MsgTypeOK
<1>3. ASSUME NEW q \in Server, NEW i \in DOMAIN inbox'[q]
      PROVE  \/ q = s /\ inbox'[q][i] = t
             \/ /\ i \in DOMAIN inbox[q] /\ inbox'[q][i] = inbox[q][i]
                /\ inbox[q][i] \in Task \ {t}
  <2>1. ASSUME NEW j \in DOMAIN inbox[q] PROVE inbox[q][j] \in Task \ {t}
    <3>1. inbox[q] \in Seq(Task)
      BY DEF MsgInv, MsgTypeOK
    <3>2. inbox[q][j] \in Task
      BY <3>1
    <3> QED
      BY <1>1, <3>2 DEF MsgInv, PhaseTells, Queued
  <2>2. CASE q # s
    <3>1. inbox'[q] = inbox[q]
      BY <1>1, <2>2, InboxAppend
    <3> QED
      BY <2>1, <3>1
  <2>3. CASE q = s
    <3>1. /\ DOMAIN inbox'[s] = DOMAIN inbox[s] \cup {Len(inbox[s]) + 1}
          /\ \A j \in DOMAIN inbox[s] : inbox'[s][j] = inbox[s][j]
          /\ inbox'[s][Len(inbox[s]) + 1] = t
      BY <1>1, InboxAppend
    <3> QED
      BY <2>1, <2>3, <3>1
  <2> QED
    BY <2>2, <2>3
<1> QED
  BY <1>1, <1>2, <1>3, MsgSendKeeps

(* A server that serves takes the first from its inbox, and answers some   *)
(* of its clients.                                                         *)
LEMMA ServeFrame ==
    ASSUME MsgInv, NEW s \in Server, Incoming(s), NEW replies,
           DOMAIN replies \subseteq Fd, \A f \in DOMAIN replies : replies[f] \in Int,
           Serve(s, replies)
    PROVE  /\ MsgInv' /\ crashed' = crashed
           /\ Sender(s) \in Task /\ phase[Sender(s)] = "sending"
           /\ Tid(s) \in Fd /\ tids[s][Tid(s)] = Nobody
           /\ 1 \in DOMAIN inbox[s] /\ inbox[s][1] = Sender(s)
           /\ \A t \in Task :
                 \/ /\ phase'[t] = "ready" /\ msg'[t] = None
                    /\ \E f \in DOMAIN replies :
                          \/ f = Tid(s) /\ t = Sender(s)
                          \/ f # Tid(s) /\ t = tids[s][f] /\ phase[t] = "waiting"
                 \/ /\ t = Sender(s) /\ phase'[t] = "waiting" /\ msg'[t] = msg[t]
                    /\ status'[t] = status[t]
                 \/ /\ t # Sender(s) /\ phase'[t] = phase[t] /\ msg'[t] = msg[t]
                    /\ status'[t] = status[t]
           /\ \A f \in DOMAIN replies :
                 LET t == IF f = Tid(s) THEN Sender(s) ELSE tids[s][f]
                 IN  t \in Task => status'[t] = replies[f]
           /\ \A q \in Server \ {s} : tids'[q] = tids[q]
           /\ \A fd \in Fd : tids'[s][fd] =
                 IF fd \in DOMAIN replies THEN Nobody
                 ELSE IF fd = Tid(s) THEN Sender(s) ELSE tids[s][fd]
           /\ \A q \in Server, fd \in Fd : tids'[q][fd] # Nobody =>
                 msg'[tids'[q][fd]] = msg[tids'[q][fd]]
           /\ \A q \in Server : \A i \in DOMAIN inbox'[q] :
                 \E j \in DOMAIN inbox[q] :
                    inbox'[q][i] = inbox[q][j] /\ (q = s => j = i + 1)
<1>1. MsgInv'
  BY ServeKeeps
<1>2. /\ FreeFds(s) # {} /\ Tid(s) \in Fd /\ tids[s][Tid(s)] = Nobody
      /\ tids' = [tids EXCEPT ![s] =
            [f \in Fd |-> IF f \in DOMAIN replies THEN Nobody ELSE Got(s)[f]]]
      /\ phase' = [t \in Task |->
            IF Answered(s, replies, t) THEN "ready"
            ELSE IF t = Sender(s) THEN "waiting" ELSE phase[t]]
      /\ msg' = [t \in Task |->
            IF Answered(s, replies, t) THEN None ELSE msg[t]]
      /\ \A t \in Task : ~Answered(s, replies, t) => status'[t] = status[t]
      /\ \A f \in DOMAIN replies : Got(s)[f] \in Task =>
            status'[Got(s)[f]] = replies[f]
      /\ inbox' = [inbox EXCEPT ![s] = Tail(@)]
      /\ crashed' = crashed
  BY ServeEffect
<1>3. /\ Sender(s) \in Task /\ phase[Sender(s)] = "sending" /\ Sender(s) # Nobody
      /\ 1 \in DOMAIN inbox[s] /\ inbox[s][1] = Sender(s)
  BY SenderIs
<1>4. \A f \in Fd : Got(s)[f] = IF f = Tid(s) THEN Sender(s) ELSE tids[s][f]
  BY <1>2, GotIs
<1>5. ASSUME NEW t \in Task, Answered(s, replies, t)
      PROVE  \E f \in DOMAIN replies :
                \/ f = Tid(s) /\ t = Sender(s)
                \/ f # Tid(s) /\ t = tids[s][f] /\ phase[t] = "waiting"
  <2>1. PICK f \in DOMAIN replies : Got(s)[f] = t
    BY <1>5 DEF Answered
  <2>2. f \in Fd
    OBVIOUS
  <2>3. f # Tid(s) => t = tids[s][f] /\ phase[t] = "waiting"
    BY <1>4, <2>1, <2>2 DEF MsgInv, PhaseTells, Kept
  <2> QED
    BY <1>4, <2>1, <2>2, <2>3
<1>6. \A t \in Task :
         \/ /\ phase'[t] = "ready" /\ msg'[t] = None /\ Answered(s, replies, t)
         \/ /\ t = Sender(s) /\ phase'[t] = "waiting" /\ msg'[t] = msg[t]
            /\ status'[t] = status[t]
         \/ /\ t # Sender(s) /\ phase'[t] = phase[t] /\ msg'[t] = msg[t]
            /\ status'[t] = status[t]
  BY <1>2
<1>7. /\ \A q \in Server \ {s} : tids'[q] = tids[q]
      /\ \A fd \in Fd : tids'[s][fd] = IF fd \in DOMAIN replies THEN Nobody
                        ELSE IF fd = Tid(s) THEN Sender(s) ELSE tids[s][fd]
  BY <1>2, <1>4 DEF MsgInv, MsgTypeOK
<1>8. ASSUME NEW q \in Server, NEW fd \in Fd, tids'[q][fd] # Nobody
      PROVE  msg'[tids'[q][fd]] = msg[tids'[q][fd]]
  <2> DEFINE t == tids'[q][fd]
  <2>1. t \in Task
    BY <1>1, <1>8 DEF MsgInv, MsgTypeOK
  <2>2. phase'[t] = "waiting"
    BY <1>1, <2>1 DEF MsgInv, PhaseTells, Kept
  <2> HIDE DEF t
  <2>3. msg'[t] = msg[t]
    BY <1>6, <2>1, <2>2
  <2> QED
    BY <2>3 DEF t
<1>9. ASSUME NEW q \in Server, NEW i \in DOMAIN inbox'[q]
      PROVE  \E j \in DOMAIN inbox[q] :
                inbox'[q][i] = inbox[q][j] /\ (q = s => j = i + 1)
  <2>1. CASE q # s
    <3>1. inbox'[q] = inbox[q]
      BY <1>2, <2>1, InboxTail
    <3> QED
      BY <2>1, <3>1
  <2>2. CASE q = s
    <3>1. i + 1 \in DOMAIN inbox[s] /\ inbox'[s][i] = inbox[s][i + 1]
      BY <1>2, <2>2, InboxTail
    <3> QED
      BY <2>2, <3>1
  <2> QED
    BY <2>1, <2>2
<1>10. \A f \in DOMAIN replies :
          LET t == IF f = Tid(s) THEN Sender(s) ELSE tids[s][f]
          IN  t \in Task => status'[t] = replies[f]
  BY <1>2, <1>4
<1>11. \A t \in Task :
         \/ /\ phase'[t] = "ready" /\ msg'[t] = None
            /\ \E f \in DOMAIN replies :
                  \/ f = Tid(s) /\ t = Sender(s)
                  \/ f # Tid(s) /\ t = tids[s][f] /\ phase[t] = "waiting"
         \/ /\ t = Sender(s) /\ phase'[t] = "waiting" /\ msg'[t] = msg[t]
            /\ status'[t] = status[t]
         \/ /\ t # Sender(s) /\ phase'[t] = phase[t] /\ msg'[t] = msg[t]
            /\ status'[t] = status[t]
  BY <1>5, <1>6
<1> QED
  BY <1>1, <1>2, <1>3, <1>7, <1>8, <1>9, <1>10, <1>11

(* A server that answers later does nothing else.                          *)
LEMMA ReplyFrame ==
    ASSUME MsgInv, NEW s \in Server, NEW fd \in Fd, NEW st \in Int, MsgReply(s, fd, st)
    PROVE  LET t == tids[s][fd] IN
           /\ MsgInv' /\ crashed' = crashed /\ inbox' = inbox
           /\ t \in Task /\ phase[t] = "waiting"
           /\ phase'[t] = "ready" /\ msg'[t] = None /\ status'[t] = st
           /\ \A u \in Task \ {t} : /\ phase'[u] = phase[u] /\ msg'[u] = msg[u]
                                    /\ status'[u] = status[u]
           /\ \A q \in Server \ {s} : tids'[q] = tids[q]
           /\ tids'[s][fd] = Nobody
           /\ \A f \in Fd \ {fd} : tids'[s][f] = tids[s][f]
<1> DEFINE t == tids[s][fd]
<1>1. /\ t # Nobody
      /\ phase' = [phase EXCEPT ![t] = "ready"]
      /\ status' = [status EXCEPT ![t] = st]
      /\ msg' = [msg EXCEPT ![t] = None]
      /\ tids' = [tids EXCEPT ![s][fd] = Nobody]
      /\ inbox' = inbox /\ crashed' = crashed
  BY DEF MsgReply
<1>2. t \in Task /\ phase[t] = "waiting"
  <2>1. t \in Task
    BY <1>1 DEF MsgInv, MsgTypeOK
  <2> QED
    BY <2>1 DEF MsgInv, PhaseTells, Kept
<1>3. /\ \A q \in Server \ {s} : tids'[q] = tids[q]
      /\ tids'[s][fd] = Nobody
      /\ \A f \in Fd \ {fd} : tids'[s][f] = tids[s][f]
  BY <1>1 DEF MsgInv, MsgTypeOK
<1> HIDE DEF t
<1>4. /\ phase'[t] = "ready" /\ msg'[t] = None /\ status'[t] = st
      /\ \A u \in Task \ {t} : /\ phase'[u] = phase[u] /\ msg'[u] = msg[u]
                               /\ status'[u] = status[u]
  BY <1>1, <1>2 DEF MsgInv, MsgTypeOK
<1>5. MsgInv'
  BY MsgReplyKeeps
<1> QED
  BY <1>1, <1>2, <1>3, <1>4, <1>5 DEF t

-----------------------------------------------------------------------------
(* What the invariant says of replies: ClientsNamedOnce counts the places  *)
(* where a client is named.                                                *)

LEMMA OneOrNone ==
    ASSUME NEW S, NEW b \in BOOLEAN, b => S # {}, ~b => S = {},
           \A x, y \in S : x = y
    PROVE  Cardinality(S) = (IF b THEN 1 ELSE 0)
<1>1. CASE b
  <2>1. PICK x \in S : TRUE
    BY <1>1
  <2>2. S = {x}
    BY <2>1
  <2> QED
    BY <1>1, <2>2, FS_Singleton
<1>2. CASE ~b
  BY <1>2, FS_EmptySet
<1> QED
  BY <1>1, <1>2

LEMMA InboxShort ==
    ASSUME MsgInv, NEW s \in Server
    PROVE  Len(inbox[s]) <= Cardinality(Task)
<1> DEFINE n == Len(inbox[s])
<1>1. inbox[s] \in Seq(Task)
  BY DEF MsgInv, MsgTypeOK
<1>2. n \in Nat /\ \A i \in 1 .. n : inbox[s][i] \in Task /\ i \in DOMAIN inbox[s]
  BY <1>1
<1>3. \A i, j \in 1 .. n : inbox[s][i] = inbox[s][j] => i = j
  BY <1>2 DEF MsgInv, QueuedOnce
<1> DEFINE f == [i \in 1 .. n |-> inbox[s][i]]
<1> HIDE DEF n
<1>4. f \in Injection(1 .. n, Task)
  <2>1. f \in [1 .. n -> Task]
    BY <1>2
  <2>2. \A a, b \in 1 .. n : f[a] = f[b] => a = b
    BY <1>3
  <2> QED
    BY <2>1, <2>2 DEF Injection, IsInjective
<1>5. IsFiniteSet(1 .. n) /\ Cardinality(1 .. n) = n
  BY <1>2, FS_Interval
<1> HIDE DEF f
<1>6. Cardinality(1 .. n) <= Cardinality(Task)
  BY <1>4, <1>5, TaskAssumption, FS_Injection
<1> QED
  BY <1>5, <1>6 DEF n

LEMMA NamedOnce ==
    ASSUME MsgInv
    PROVE  ClientsNamedOnce
<1> SUFFICES ASSUME NEW t \in Task
    PROVE LET kept   == {p \in Server \X Fd : tids[p[1]][p[2]] = t}
              queued == {p \in Server \X (1 .. Cardinality(Task)) :
                            /\ p[2] <= Len(inbox[p[1]])
                            /\ inbox[p[1]][p[2]] = t}
          IN  /\ Cardinality(kept) = (IF phase[t] = "waiting" THEN 1 ELSE 0)
              /\ Cardinality(queued) = (IF phase[t] = "sending" THEN 1 ELSE 0)
  BY DEF ClientsNamedOnce
<1> DEFINE kept   == {p \in Server \X Fd : tids[p[1]][p[2]] = t}
           queued == {p \in Server \X (1 .. Cardinality(Task)) :
                         /\ p[2] <= Len(inbox[p[1]])
                         /\ inbox[p[1]][p[2]] = t}
<1>1. Cardinality(kept) = (IF phase[t] = "waiting" THEN 1 ELSE 0)
  <2>1. \A p, q \in kept : p = q
    <3>1. KeptOnce /\ t # Nobody
      BY NobodyAssumption DEF MsgInv
    <3> QED
      BY <3>1 DEF KeptOnce
  <2>2. phase[t] = "waiting" => kept # {}
    <3> SUFFICES ASSUME phase[t] = "waiting" PROVE kept # {}
      OBVIOUS
    <3>1. PICK s \in Server, fd \in Fd : tids[s][fd] = t
      BY DEF MsgInv, PhaseTells, Kept
    <3>2. <<s, fd>> \in kept
      BY <3>1
    <3> QED
      BY <3>2
  <2>3. phase[t] # "waiting" => kept = {}
    BY DEF MsgInv, PhaseTells, Kept
  <2> HIDE DEF kept
  <2> QED
    BY <2>1, <2>2, <2>3, OneOrNone
<1>2. Cardinality(queued) = (IF phase[t] = "sending" THEN 1 ELSE 0)
  <2>0. \A s \in Server : /\ DOMAIN inbox[s] = 1 .. Len(inbox[s])
                          /\ Len(inbox[s]) \in Nat
    BY DEF MsgInv, MsgTypeOK
  <2>1. \A p, q \in queued : p = q
    <3>1. QueuedOnce
      BY DEF MsgInv
    <3>2. \A p \in queued : p[2] \in DOMAIN inbox[p[1]]
      BY <2>0
    <3> QED
      BY <3>1, <3>2 DEF QueuedOnce
  <2>2. phase[t] = "sending" => queued # {}
    <3> SUFFICES ASSUME phase[t] = "sending" PROVE queued # {}
      OBVIOUS
    <3>0. PICK s \in Server : \E i \in DOMAIN inbox[s] : inbox[s][i] = t
      BY DEF MsgInv, PhaseTells, Queued
    <3>1. PICK i \in DOMAIN inbox[s] : inbox[s][i] = t
      BY <3>0
    <3>2. i \in Nat /\ 1 <= i /\ i <= Len(inbox[s])
      BY <2>0, <3>1
    <3>3. Cardinality(Task) \in Nat /\ Len(inbox[s]) <= Cardinality(Task)
      BY InboxShort, TaskAssumption, FS_CardinalityType
    <3>4. i \in 1 .. Cardinality(Task)
      BY <2>0, <3>2, <3>3
    <3>5. <<s, i>> \in queued
      BY <3>1, <3>2, <3>4
    <3> QED
      BY <3>5
  <2>3. phase[t] # "sending" => queued = {}
    <3>1. \A p \in queued : p[1] \in Server /\ p[2] \in DOMAIN inbox[p[1]] /\ inbox[p[1]][p[2]] = t
      BY <2>0
    <3>2. phase[t] # "sending" => ~Queued(t)
      BY DEF MsgInv, PhaseTells
    <3> HIDE DEF queued
    <3> QED
      BY <3>1, <3>2 DEF Queued
  <2> HIDE DEF queued
  <2> QED
    BY <2>1, <2>2, <2>3, OneOrNone
<1> QED
  BY <1>1, <1>2
=============================================================================
