-------------------------- MODULE FileServerProofs --------------------------
(***************************************************************************)
(* Theorems about the file server, for any clients, names and sizes: it    *)
(* implements the directory of Directory.tla, and the channels it holds    *)
(* are those of the names.                                                 *)
(***************************************************************************)
EXTENDS FileServer, FiniteSetTheorems, TLAPS

HashT == INSTANCE LibProofs WITH HtMax <- HASH_MAX, Hash <- PathHash

\* HashT is Table with the theorems about it.
LEMMA SameTable ==
    ASSUME NEW h, NEW p, NEW i, NEW v
    PROVE  /\ Table!HashtableGet(h, p) = HashT!HashtableGet(h, p)
           /\ Table!HashtableReserve(h, p) = HashT!HashtableReserve(h, p)
           /\ Table!Active(h, i) = HashT!Active(h, i)
           /\ Table!Activate(h, i, p, v) = HashT!Activate(h, i, p, v)
           /\ Table!Delete(h, i) = HashT!Delete(h, i)
           /\ Table!EmptyTable = HashT!EmptyTable
           /\ Table!HT_NOKEY = HashT!HT_NOKEY
           /\ Table!Place = HashT!Place
  BY DEF Table!HashtableGet, HashT!HashtableGet, Table!HashtableReserve,
     HashT!HashtableReserve, Table!Matches, HashT!Matches, Table!Unused,
     HashT!Unused, Table!Deleted, HashT!Deleted, Table!Probes, HashT!Probes,
     Table!Probe, HashT!Probe, Table!Place, HashT!Place, Table!Active,
     HashT!Active, Table!Valid, HashT!Valid, Table!HT_NOKEY, HashT!HT_NOKEY,
     Table!Min, HashT!Min, Table!Activate, HashT!Activate, Table!Item,
     HashT!Item, Table!Delete, HashT!Delete, Table!DeletedItem,
     HashT!DeletedItem, Table!EmptyTable, HashT!EmptyTable
LEMMA TableSetting == HashT!Setting(Path, Fd)
  BY FileServerAssumption DEF HashT!Setting, HashT!ItemOf, HashT!DeletedItem

-----------------------------------------------------------------------------
(* The table and the descriptors.                                          *)

TableOK(h) ==
    /\ h \in HashT!TableOf(Path, Fd)
    /\ HashT!KeysOnce(h) /\ HashT!KeysReachable(h)

HashPlace == HashT!Place

(* Every name holds an open channel, each one its own, and there are no    *)
(* others.                                                                 *)
NamesHold(h, s) ==
    /\ \A i \in HashPlace : HashT!Active(h, i) => s[h[i].value] # NoChan
    /\ \A i, j \in HashPlace :
          HashT!Active(h, i) /\ HashT!Active(h, j) /\ h[i].value = h[j].value
          => i = j
    /\ \A fd \in Fd : s[fd] # NoChan =>
          \E i \in HashPlace : HashT!Active(h, i) /\ h[i].value = fd

(* The channel of a name, as ImplementsDirectory has it. *)
ChanOf(h, s, p) ==
    LET i == HashT!HashtableGet(h, p) IN
    IF i = HashT!HT_NOKEY THEN NoChan ELSE s[h[i].value]

LEMMA ItemParts ==
    ASSUME NEW h, TableOK(h), NEW i \in HashPlace, HashT!Active(h, i)
    PROVE  h[i].key \in Path /\ h[i].value \in Fd
  <1>1. h[i] \in HashT!ItemOf(Path, Fd)
    BY TableSetting, HashT!ActiveItem DEF TableOK, HashPlace
  <1> QED  BY <1>1 DEF HashT!ItemOf

LEMMA ChanOfIs ==
    ASSUME NEW h, TableOK(h), NEW s, NEW p \in Path
    PROVE  /\ \A i \in HashPlace : HashT!Active(h, i) /\ h[i].key = p =>
                  ChanOf(h, s, p) = s[h[i].value]
           /\ HashT!Absent(h, p) => ChanOf(h, s, p) = NoChan
  <1> DEFINE g == HashT!HashtableGet(h, p)
  <1>1. IF g = HashT!HT_NOKEY THEN HashT!Absent(h, p)
        ELSE g \in HashPlace /\ HashT!Active(h, g) /\ h[g].key = p
    BY TableSetting, HashT!GetFinds DEF TableOK, HashPlace
  <1>2. ChanOf(h, s, p) = IF g = HashT!HT_NOKEY THEN NoChan ELSE s[h[g].value]
    BY DEF ChanOf
  <1> HIDE DEF g
  <1>3. ASSUME NEW i \in HashPlace, HashT!Active(h, i), h[i].key = p
        PROVE  ChanOf(h, s, p) = s[h[i].value]
    <2>1. g # HashT!HT_NOKEY  BY <1>1, <1>3 DEF HashT!Absent, HashPlace
    <2>2. g = i  BY <1>1, <1>3, <2>1 DEF TableOK, HashT!KeysOnce, HashPlace
    <2> QED  BY <1>2, <2>1, <2>2
  <1>4. ASSUME HashT!Absent(h, p) PROVE ChanOf(h, s, p) = NoChan
    BY <1>1, <1>2, <1>4 DEF HashT!Absent, HashPlace
  <1> QED  BY <1>3, <1>4

\* What a search says of the channel.
LEMMA ChanOfSlot ==
    ASSUME NEW h, TableOK(h), NEW s, NamesHold(h, s), NEW p \in Path
    PROVE  LET g == HashT!HashtableGet(h, p) IN
           IF g = HashT!HT_NOKEY
           THEN HashT!Absent(h, p) /\ ChanOf(h, s, p) = NoChan
           ELSE /\ g \in HashPlace /\ HashT!Active(h, g) /\ h[g].key = p
                /\ ChanOf(h, s, p) = s[h[g].value] /\ ChanOf(h, s, p) # NoChan
  <1> DEFINE g == HashT!HashtableGet(h, p)
  <1>1. IF g = HashT!HT_NOKEY THEN HashT!Absent(h, p)
        ELSE g \in HashPlace /\ HashT!Active(h, g) /\ h[g].key = p
    BY TableSetting, HashT!GetFinds DEF TableOK, HashPlace
  <1> HIDE DEF g
  <1>2. IF g = HashT!HT_NOKEY THEN ChanOf(h, s, p) = NoChan
        ELSE ChanOf(h, s, p) = s[h[g].value] /\ s[h[g].value] # NoChan
    BY <1>1, ChanOfIs DEF NamesHold
  <1> QED  BY <1>1, <1>2 DEF g

\* A name that is made gets the channel, and the others keep theirs.
LEMMA MakeKeeps ==
    ASSUME NEW h, TableOK(h), NEW s \in [Fd -> Chan \cup {NoChan}],
           NamesHold(h, s), NEW p \in Path, NEW ch \in Chan,
           NEW fd \in Fd, s[fd] = NoChan,
           HashT!HashtableReserve(h, p) # HashT!HT_NOKEY,
           ~HashT!Active(h, HashT!HashtableReserve(h, p)),
           NEW t, t[fd] = ch, \A f \in Fd \ {fd} : t[f] = s[f]
    PROVE  LET new == HashT!Activate(h, HashT!HashtableReserve(h, p), p, fd)
           IN  /\ TableOK(new) /\ NamesHold(new, t)
               /\ ChanOf(h, s, p) = NoChan /\ ChanOf(new, t, p) = ch
               /\ \A q \in Path \ {p} : ChanOf(new, t, q) = ChanOf(h, s, q)
  <1> DEFINE i   == HashT!HashtableReserve(h, p)
             new == HashT!Activate(h, i, p, fd)
  <1>1. HashT!Absent(h, p)
    BY TableSetting, HashT!ReserveFinds DEF TableOK
  <1>2. /\ TableOK(new)
        /\ i \in HashPlace /\ new[i] = HashT!Item(p, fd) /\ HashT!Active(new, i)
        /\ \A k \in HashPlace \ {i} : new[k] = h[k]
    BY TableSetting, HashT!ActivatePuts DEF TableOK, HashPlace
  <1>0. ~HashT!Active(h, i)  OBVIOUS
  <1> HIDE DEF i, new
  <1>3. new[i].key = p /\ new[i].value = fd  BY <1>2 DEF HashT!Item
  <1>4. \A k \in HashPlace \ {i} : HashT!Active(new, k) <=> HashT!Active(h, k)
    BY <1>2 DEF HashT!Active, HashT!Valid
  <1>5. ch # NoChan  BY FileServerAssumption
  <1>6. ASSUME NEW k \in HashPlace \ {i}, HashT!Active(new, k)
        PROVE  /\ HashT!Active(h, k) /\ new[k] = h[k]
               /\ h[k].value \in Fd \ {fd} /\ t[h[k].value] = s[h[k].value]
    <2>1. HashT!Active(h, k) /\ new[k] = h[k]  BY <1>2, <1>4, <1>6
    <2>2. h[k].value \in Fd  BY <2>1, ItemParts
    <2>3. h[k].value # fd  BY <2>1 DEF NamesHold
    <2> QED  BY <2>1, <2>2, <2>3
  <1>7. NamesHold(new, t)
    <2>1. ASSUME NEW k \in HashPlace, HashT!Active(new, k)
          PROVE  t[new[k].value] # NoChan
      <3>1. CASE k = i  BY <1>3, <1>5, <3>1
      <3>2. CASE k # i  BY <1>6, <2>1, <3>2 DEF NamesHold
      <3> QED  BY <3>1, <3>2
    <2>2. ASSUME NEW k \in HashPlace, NEW l \in HashPlace,
                 HashT!Active(new, k), HashT!Active(new, l),
                 new[k].value = new[l].value
          PROVE  k = l
      <3>1. CASE k = i  BY <1>3, <1>6, <2>2, <3>1
      <3>2. CASE l = i  BY <1>3, <1>6, <2>2, <3>2
      <3>3. CASE k # i /\ l # i  BY <1>6, <2>2, <3>3 DEF NamesHold
      <3> QED  BY <3>1, <3>2, <3>3
    <2>3. ASSUME NEW f \in Fd, t[f] # NoChan
          PROVE  \E k \in HashPlace : HashT!Active(new, k) /\ new[k].value = f
      <3>1. CASE f = fd  BY <1>2, <1>3, <3>1
      <3>2. CASE f # fd
        <4>1. s[f] # NoChan  BY <2>3, <3>2
        <4>2. PICK k \in HashPlace : HashT!Active(h, k) /\ h[k].value = f
          BY <4>1 DEF NamesHold
        <4>3. k # i  BY <1>0, <4>2
        <4> QED  BY <1>2, <1>4, <4>2, <4>3
      <3> QED  BY <3>1, <3>2
    <2> QED  BY <2>1, <2>2, <2>3 DEF NamesHold
  <1>8. ChanOf(h, s, p) = NoChan  BY <1>1, ChanOfIs
  <1>9. ChanOf(new, t, p) = ch
    <2>1. ChanOf(new, t, p) = t[new[i].value]
      BY <1>2, <1>3, ChanOfIs
    <2> QED  BY <1>3, <1>5, <2>1
  <1>10. ASSUME NEW q \in Path \ {p} PROVE ChanOf(new, t, q) = ChanOf(h, s, q)
    <2>1. CASE HashT!Absent(h, q)
      <3>1. HashT!Absent(new, q)
        BY <1>2, <1>3, <1>4, <2>1 DEF HashT!Absent, HashPlace
      <3> QED  BY <1>2, <2>1, <3>1, ChanOfIs
    <2>2. CASE ~HashT!Absent(h, q)
      <3>1. PICK k \in HashPlace : HashT!Active(h, k) /\ h[k].key = q
        BY <2>2 DEF HashT!Absent, HashPlace
      <3>2. k # i  BY <1>0, <3>1
      <3>3. HashT!Active(new, k) /\ new[k] = h[k]  BY <1>2, <1>4, <3>1, <3>2
      <3>4. ChanOf(h, s, q) = s[h[k].value]  BY <3>1, ChanOfIs
      <3>5. ChanOf(new, t, q) = t[h[k].value]
        <4>1. TableOK(new) /\ HashT!Active(new, k) /\ new[k].key = q
          BY <1>2, <3>1, <3>3
        <4>2. ChanOf(new, t, q) = t[new[k].value]  BY <4>1, ChanOfIs
        <4> QED  BY <3>3, <4>2
      <3> QED  BY <1>6, <3>2, <3>3, <3>4, <3>5
    <2> QED  BY <2>1, <2>2
  <1> QED  BY <1>2, <1>7, <1>8, <1>9, <1>10 DEF new, i

\* A name that is removed has no channel, and the others keep theirs.
LEMMA RemoveKeeps ==
    ASSUME NEW h, TableOK(h), NEW s \in [Fd -> Chan \cup {NoChan}],
           NamesHold(h, s), NEW i \in HashPlace, HashT!Active(h, i),
           NEW new, new = HashT!Delete(h, i),
           NEW t, t[h[i].value] = NoChan,
           \A f \in Fd \ {h[i].value} : t[f] = s[f]
    PROVE  /\ TableOK(new) /\ NamesHold(new, t)
           /\ ChanOf(new, t, h[i].key) = NoChan
           /\ \A q \in Path \ {h[i].key} : ChanOf(new, t, q) = ChanOf(h, s, q)
  <1>1. /\ TableOK(new) /\ ~HashT!Active(new, i) /\ HashT!Absent(new, h[i].key)
        /\ \A k \in HashPlace \ {i} : new[k] = h[k]
    BY TableSetting, HashT!DeleteRemoves DEF TableOK, HashPlace
  <1>2. \A k \in HashPlace \ {i} : HashT!Active(new, k) <=> HashT!Active(h, k)
    BY <1>1 DEF HashT!Active, HashT!Valid
  <1>3. ASSUME NEW k \in HashPlace, HashT!Active(new, k)
        PROVE  /\ k # i /\ HashT!Active(h, k) /\ new[k] = h[k]
               /\ h[k].value \in Fd /\ t[h[k].value] = s[h[k].value]
    <2>1. k # i  BY <1>1, <1>3
    <2>2. HashT!Active(h, k) /\ new[k] = h[k]  BY <1>1, <1>2, <1>3, <2>1
    <2>3. h[k].value \in Fd  BY <2>2, ItemParts
    <2>4. h[k].value # h[i].value  BY <2>1, <2>2 DEF NamesHold
    <2> QED  BY <2>1, <2>2, <2>3, <2>4
  <1>4. NamesHold(new, t)
    <2>1. ASSUME NEW k \in HashPlace, HashT!Active(new, k)
          PROVE  t[new[k].value] # NoChan
      BY <1>3, <2>1 DEF NamesHold
    <2>2. ASSUME NEW k \in HashPlace, NEW l \in HashPlace,
                 HashT!Active(new, k), HashT!Active(new, l),
                 new[k].value = new[l].value
          PROVE  k = l
      BY <1>3, <2>2 DEF NamesHold
    <2>3. ASSUME NEW f \in Fd, t[f] # NoChan
          PROVE  \E k \in HashPlace : HashT!Active(new, k) /\ new[k].value = f
      <3>1. f # h[i].value /\ s[f] # NoChan  BY <2>3
      <3>2. PICK k \in HashPlace : HashT!Active(h, k) /\ h[k].value = f
        BY <3>1 DEF NamesHold
      <3> QED  BY <1>1, <1>2, <3>1, <3>2
    <2> QED  BY <2>1, <2>2, <2>3 DEF NamesHold
  <1>5. ChanOf(new, t, h[i].key) = NoChan
    BY <1>1, ItemParts, ChanOfIs
  <1>6. ASSUME NEW q \in Path \ {h[i].key} PROVE ChanOf(new, t, q) = ChanOf(h, s, q)
    <2>1. CASE HashT!Absent(h, q)
      <3>1. HashT!Absent(new, q)
        BY <1>3, <2>1 DEF HashT!Absent, HashPlace
      <3> QED  BY <1>1, <2>1, <3>1, ChanOfIs
    <2>2. CASE ~HashT!Absent(h, q)
      <3>1. PICK k \in HashPlace : HashT!Active(h, k) /\ h[k].key = q
        BY <2>2 DEF HashT!Absent, HashPlace
      <3>2. HashT!Active(new, k) /\ new[k] = h[k]  BY <1>1, <1>2, <3>1
      <3>3. ChanOf(h, s, q) = s[h[k].value]  BY <3>1, ChanOfIs
      <3>4. ChanOf(new, t, q) = t[h[k].value]
        <4>1. TableOK(new) /\ HashT!Active(new, k) /\ new[k].key = q
          BY <1>1, <3>1, <3>2
        <4>2. ChanOf(new, t, q) = t[new[k].value]  BY <4>1, ChanOfIs
        <4> QED  BY <3>2, <4>2
      <3> QED  BY <1>3, <3>2, <3>3, <3>4
    <2> QED  BY <2>1, <2>2
  <1> QED  BY <1>1, <1>4, <1>5, <1>6

-----------------------------------------------------------------------------
(* The inductive invariant.                                                *)

Code == {"OPEN", "MKDIR", "MKCHAN", "RMCHAN"}
CallRecord == [api: Api, code: Code, path: Path, done: BOOLEAN]
Error == {"ENOENT", "EEXIST", "ENOSPC", "ENOFUNC"}
AnswerSet == Chan \cup Error \cup {"none", "made", "removed"}

ClientsTyped ==
    /\ inbox \in Seq(Client)
    /\ call \in [Client -> CallRecord \cup {NoCall}]
    /\ held \in [Client -> 0 .. ClientFds]
    /\ answer \in [Client -> AnswerSet]
    /\ exited \subseteq Client /\ crashed \in BOOLEAN

(* Who is in the inbox waits for an answer, once. *)
RequestsWait ==
    /\ \A n \in 1 .. Len(inbox) :
          call[inbox[n]] \in CallRecord /\ call[inbox[n]].done = FALSE
    /\ \A m, n \in 1 .. Len(inbox) : inbox[m] = inbox[n] => m = n

(* sendpath has opened what it will close. *)
SendpathHolds == \A c \in Client :
    call[c] # NoCall /\ call[c].api = "sendpath" =>
        /\ call[c].code = "OPEN"
        /\ call[c].done = TRUE /\ answer[c] \notin Error => held[c] >= 1

CallInv == ClientsTyped /\ RequestsWait /\ SendpathHolds

(* No more places have been used than channels have been made. *)
Taken(h) == {i \in HashPlace : HashT!Valid(h, i)}
MadeInv ==
    /\ IsFiniteSet(used)
    /\ Cardinality(Taken(ht)) <= Cardinality(used)

NameInv ==
    /\ sfd \in [Fd -> Chan \cup {NoChan}]
    /\ TableOK(ht) /\ NamesHold(ht, sfd)
    /\ FreeServerFds # {}
    /\ MadeInv

FsInv == CallInv /\ NameInv

LEMMA InitInv == Init => FsInv
  <1> SUFFICES ASSUME Init PROVE FsInv  OBVIOUS
  <1>1. CallInv
    <2>1. ClientsTyped
      <3>1. 0 \in 0 .. ClientFds  BY FileServerAssumption
      <3>2. "none" \in AnswerSet  BY DEF AnswerSet
      <3>3. inbox \in Seq(Client)  BY DEF Init
      <3> QED  BY <3>1, <3>2, <3>3 DEF Init, ClientsTyped
    <2>2. RequestsWait  BY DEF Init, RequestsWait
    <2>3. SendpathHolds  BY DEF Init, SendpathHolds
    <2> QED  BY <2>1, <2>2, <2>3 DEF CallInv
  <1>2. ht = HashT!EmptyTable  BY SameTable DEF Init
  <1>3. TableOK(ht) /\ \A i \in HashPlace : ~HashT!Active(ht, i)
    <2>1. TableOK(ht)
      BY <1>2, TableSetting, HashT!EmptyHoldsNothing DEF TableOK
    <2>2. \A i \in HashPlace : ht[i] = NoItem
      BY <1>2 DEF HashT!EmptyTable, HashPlace
    <2> QED  BY <2>1, <2>2 DEF HashT!Active, HashT!Valid
  <1>4. sfd \in [Fd -> Chan \cup {NoChan}] /\ \A fd \in Fd : sfd[fd] = NoChan
    BY DEF Init
  <1>5. NamesHold(ht, sfd)  BY <1>3, <1>4 DEF NamesHold
  <1>6. FreeServerFds # {}  BY <1>4, FileServerAssumption DEF FreeServerFds
  <1>7. MadeInv
    <2>1. Taken(ht) = {} /\ used = {}
      BY <1>2 DEF Taken, HashT!EmptyTable, HashT!Valid, HashPlace, Init
    <2> QED  BY <2>1, FS_EmptySet DEF MadeInv
  <1> QED  BY <1>1, <1>3, <1>4, <1>5, <1>6, <1>7 DEF FsInv, NameInv

\* A client sends a request when it has no other under way.
LEMMA RequestKeeps ==
    ASSUME CallInv, NEW c \in Client, NEW api \in Api, NEW code \in Code,
           NEW path \in Path, call[c] = NoCall \/ call[c].done = TRUE,
           api = "sendpath" => code = "OPEN",
           Request(c, api, code, path)
    PROVE  CallInv'
  <1>1. CASE XsendExits(c)
    <2>1. /\ exited' = exited \cup {c} /\ inbox' = inbox /\ call' = call
          /\ held' = held /\ answer' = answer /\ crashed' = crashed
      BY <1>1 DEF Request
    <2> QED
      BY <2>1 DEF CallInv, ClientsTyped, RequestsWait, SendpathHolds
  <1>2. CASE ~XsendExits(c)
    <2> DEFINE r == [api |-> api, code |-> code, path |-> path, done |-> FALSE]
    <2>1. /\ inbox' = Append(inbox, c) /\ call' = [call EXCEPT ![c] = r]
          /\ exited' = exited
          /\ held' = held /\ answer' = answer /\ crashed' = crashed
      BY <1>2 DEF Request
    <2>2. r \in CallRecord /\ r.done = FALSE /\ r.api = api /\ r.code = code
      BY DEF CallRecord
    <2> HIDE DEF r
    <2>3. inbox \in Seq(Client) /\ call \in [Client -> CallRecord \cup {NoCall}]
      BY DEF CallInv, ClientsTyped
    <2>4. ClientsTyped'
      BY <2>1, <2>2, <2>3 DEF CallInv, ClientsTyped
    <2>5. /\ Len(inbox') = Len(inbox) + 1 /\ inbox'[Len(inbox) + 1] = c
          /\ \A n \in 1 .. Len(inbox) : inbox'[n] = inbox[n]
          /\ Len(inbox) \in Nat
      BY <2>1, <2>3
    <2>6. \A n \in 1 .. Len(inbox) : inbox[n] \in Client /\ inbox[n] # c
      <3>1. ASSUME NEW n \in 1 .. Len(inbox), inbox[n] = c PROVE FALSE
        <4>1. call[c] \in CallRecord /\ call[c].done = FALSE
          BY <3>1 DEF CallInv, RequestsWait
        <4>2. call[c] # NoCall  BY <4>1 DEF CallRecord, NoCall, Api
        <4> QED  BY <4>1, <4>2
      <3>2. \A n \in 1 .. Len(inbox) : inbox[n] \in Client  BY <2>3
      <3> QED  BY <3>1, <3>2
    <2>7. /\ call'[c] = r /\ \A d \in Client \ {c} : call'[d] = call[d]
      BY <2>1, <2>3
    <2>8. RequestsWait'
      <3>1. ASSUME NEW n \in 1 .. Len(inbox')
            PROVE  call'[inbox'[n]] \in CallRecord
                   /\ call'[inbox'[n]].done = FALSE
        <4>1. CASE n = Len(inbox) + 1  BY <2>2, <2>5, <2>7, <4>1
        <4>2. CASE n \in 1 .. Len(inbox)
          <5>1. inbox'[n] = inbox[n] /\ call'[inbox[n]] = call[inbox[n]]
            BY <2>5, <2>6, <2>7, <4>2
          <5>2. call[inbox[n]] \in CallRecord /\ call[inbox[n]].done = FALSE
            BY <4>2 DEF CallInv, RequestsWait
          <5> QED  BY <5>1, <5>2
        <4>3. n = Len(inbox) + 1 \/ n \in 1 .. Len(inbox)  BY <2>5
        <4> QED  BY <4>1, <4>2, <4>3
      <3>2. ASSUME NEW m \in 1 .. Len(inbox'), NEW n \in 1 .. Len(inbox'),
                   inbox'[m] = inbox'[n]
            PROVE  m = n
        <4>1. m \in 1 .. Len(inbox) \/ m = Len(inbox) + 1  BY <2>5
        <4>2. n \in 1 .. Len(inbox) \/ n = Len(inbox) + 1  BY <2>5
        <4> QED
          BY <2>5, <2>6, <3>2, <4>1, <4>2 DEF CallInv, RequestsWait
      <3> QED  BY <3>1, <3>2 DEF RequestsWait
    <2>9. SendpathHolds'
      <3>1. ASSUME NEW d \in Client, call'[d] # NoCall,
                   call'[d].api = "sendpath"
            PROVE  /\ call'[d].code = "OPEN"
                   /\ call'[d].done = TRUE /\ answer'[d] \notin Error
                      => held'[d] >= 1
        <4>1. CASE d = c  BY <2>2, <2>7, <3>1, <4>1
        <4>2. CASE d # c
          <5>1. call'[d] = call[d]  BY <2>7, <4>2
          <5> QED  BY <2>1, <3>1, <5>1 DEF CallInv, SendpathHolds
        <4> QED  BY <4>1, <4>2
      <3> QED  BY <3>1 DEF SendpathHolds, NoCall
    <2> QED  BY <2>4, <2>8, <2>9 DEF CallInv
  <1> QED  BY <1>1, <1>2

\* The sender of the first request, and the requests after it.
LEMMA SenderIs ==
    ASSUME CallInv, NEW code, Handles(code)
    PROVE  /\ Sender \in Client /\ call[Sender] \in CallRecord
           /\ call[Sender].code = code /\ call[Sender].done = FALSE
           /\ ThePath \in Path
           /\ Tail(inbox) \in Seq(Client)
           /\ Len(inbox) \in Nat \ {0} /\ Len(Tail(inbox)) = Len(inbox) - 1
           /\ \A n \in 1 .. Len(inbox) - 1 :
                 Tail(inbox)[n] = inbox[n + 1] /\ inbox[n + 1] # Sender
  <1>1. inbox \in Seq(Client) /\ inbox # <<>>  BY DEF CallInv, ClientsTyped, Handles
  <1>2. /\ Sender = inbox[1] /\ Sender \in Client
        /\ Tail(inbox) \in Seq(Client)
        /\ Len(inbox) \in Nat \ {0} /\ Len(Tail(inbox)) = Len(inbox) - 1
    BY <1>1 DEF Sender
  <1>3. \A n \in 1 .. Len(inbox) - 1 :
            Tail(inbox)[n] = inbox[n + 1] /\ inbox[n + 1] # Sender
    BY <1>1, <1>2 DEF CallInv, RequestsWait
  <1>4. call[Sender] \in CallRecord /\ call[Sender].done = FALSE
    BY <1>2 DEF CallInv, RequestsWait
  <1>5. ThePath \in Path  BY <1>4 DEF ThePath, CallRecord
  <1> QED  BY <1>2, <1>3, <1>4, <1>5 DEF Handles

\* The server answers the first request.
LEMMA ReplyKeeps ==
    ASSUME CallInv, NEW code, Handles(code), NEW a \in AnswerSet, MsgReply(a),
           crashed' = crashed,
           \/ held' = held /\ (code = "OPEN" => a \in Error)
           \/ held[Sender] < ClientFds
              /\ held' = [held EXCEPT ![Sender] = @ + 1]
    PROVE  CallInv'
  <1>1. /\ inbox' = Tail(inbox) /\ exited' = exited
        /\ answer' = [answer EXCEPT ![Sender] = a]
        /\ call' = [call EXCEPT ![Sender].done = TRUE]
    BY DEF MsgReply
  <1>2. /\ call \in [Client -> CallRecord \cup {NoCall}]
        /\ answer \in [Client -> AnswerSet]
        /\ held \in [Client -> 0 .. ClientFds] /\ ClientFds \in Nat
    BY FileServerAssumption DEF CallInv, ClientsTyped
  <1> DEFINE s == Sender
  <1>3. /\ s \in Client /\ call[s] \in CallRecord
        /\ call[s].code = code /\ call[s].done = FALSE
        /\ Tail(inbox) \in Seq(Client)
        /\ Len(inbox) \in Nat \ {0} /\ Len(Tail(inbox)) = Len(inbox) - 1
        /\ \A n \in 1 .. Len(inbox) - 1 :
              Tail(inbox)[n] = inbox[n + 1] /\ inbox[n + 1] # s
    BY SenderIs
  <1>4. /\ call'[s] = [call[s] EXCEPT !.done = TRUE]
        /\ answer'[s] = a
        /\ \A d \in Client \ {s} : call'[d] = call[d] /\ answer'[d] = answer[d]
    BY <1>1, <1>2, <1>3
  <1>5. /\ call'[s] \in CallRecord
        /\ call'[s].api = call[s].api /\ call'[s].code = code
    BY <1>3, <1>4 DEF CallRecord
  <1>6. /\ \A d \in Client \ {s} : held'[d] = held[d]
        /\ held'[s] >= 1 \/ (code = "OPEN" => a \in Error)
        /\ held' \in [Client -> 0 .. ClientFds]
    <2>1. CASE held' = held /\ (code = "OPEN" => a \in Error)
      BY <1>2, <2>1
    <2>2. CASE held[s] < ClientFds /\ held' = [held EXCEPT ![s] = @ + 1]
      <3>1. held[s] \in 0 .. ClientFds /\ held'[s] = held[s] + 1
        BY <1>2, <1>3, <2>2
      <3>2. held[s] + 1 \in 0 .. ClientFds /\ held[s] + 1 >= 1
        BY <1>2, <2>2, <3>1
      <3> QED  BY <1>2, <1>3, <2>2, <3>1, <3>2
    <2> QED  BY <2>1, <2>2
  <1>7. call' \in [Client -> CallRecord \cup {NoCall}]
    <2>1. ASSUME NEW d \in Client PROVE call'[d] \in CallRecord \cup {NoCall}
      BY <1>2, <1>4, <1>5
    <2>2. call' = [d \in Client |-> call'[d]]  BY <1>1, <1>2
    <2> QED  BY <2>1, <2>2
  <1> HIDE DEF s
  <1>8. ClientsTyped'
    BY <1>1, <1>2, <1>3, <1>6, <1>7 DEF CallInv, ClientsTyped, s
  <1>9. RequestsWait'
    <2>1. ASSUME NEW n \in 1 .. Len(inbox')
          PROVE  /\ n + 1 \in 1 .. Len(inbox) /\ inbox'[n] = inbox[n + 1]
                 /\ call'[inbox'[n]] = call[inbox[n + 1]]
      <3>1. n + 1 \in 1 .. Len(inbox) /\ n \in 1 .. Len(inbox) - 1
        BY <1>1, <1>3
      <3>2. inbox'[n] = inbox[n + 1] /\ inbox[n + 1] \in Client \ {s}
        BY <1>1, <1>3, <3>1 DEF CallInv, ClientsTyped
      <3> QED  BY <1>4, <3>1, <3>2
    <2>2. \A n \in 1 .. Len(inbox') :
              call'[inbox'[n]] \in CallRecord /\ call'[inbox'[n]].done = FALSE
      BY <2>1 DEF CallInv, RequestsWait
    <2>3. ASSUME NEW m \in 1 .. Len(inbox'), NEW n \in 1 .. Len(inbox'),
                 inbox'[m] = inbox'[n]
          PROVE  m = n
      <3>1. m + 1 = n + 1  BY <2>1, <2>3 DEF CallInv, RequestsWait
      <3> QED  BY <1>1, <1>3, <3>1
    <2> QED  BY <2>2, <2>3 DEF RequestsWait
  <1>10. SendpathHolds'
    <2>1. ASSUME NEW d \in Client, call'[d] # NoCall, call'[d].api = "sendpath"
          PROVE  /\ call'[d].code = "OPEN"
                 /\ call'[d].done = TRUE /\ answer'[d] \notin Error
                    => held'[d] >= 1
      <3>1. CASE d = s
        <4>1. call[s] # NoCall  BY <1>3 DEF CallRecord, NoCall, Api
        <4>2. code = "OPEN"
          BY <1>3, <1>5, <2>1, <3>1, <4>1 DEF CallInv, SendpathHolds
        <4> QED  BY <1>4, <1>5, <1>6, <3>1, <4>2
      <3>2. CASE d # s
        <4>1. call'[d] = call[d] /\ answer'[d] = answer[d] /\ held'[d] = held[d]
          BY <1>4, <1>6, <3>2
        <4> QED  BY <2>1, <4>1 DEF CallInv, SendpathHolds
      <3> QED  BY <3>1, <3>2
    <2> QED  BY <2>1 DEF SendpathHolds, NoCall
  <1> QED  BY <1>8, <1>9, <1>10 DEF CallInv

\* A client goes on with the answer: it is not in the inbox, and has no call
\* any more.
LEMMA ReturnKeeps ==
    ASSUME CallInv, NEW c \in Client, call[c] # NoCall, call[c].done = TRUE,
           call' = [call EXCEPT ![c] = NoCall],
           answer' = [answer EXCEPT ![c] = "none"], inbox' = inbox,
           exited' \subseteq Client, crashed' = crashed,
           held' \in [Client -> 0 .. ClientFds],
           \A d \in Client \ {c} : held'[d] = held[d]
    PROVE  CallInv'
  <1>1. /\ call \in [Client -> CallRecord \cup {NoCall}]
        /\ answer \in [Client -> AnswerSet]
    BY DEF CallInv, ClientsTyped
  <1>2. /\ call'[c] = NoCall
        /\ \A d \in Client \ {c} : call'[d] = call[d] /\ answer'[d] = answer[d]
    BY <1>1
  <1>3. ClientsTyped'
    <2>1. "none" \in AnswerSet  BY DEF AnswerSet
    <2> QED  BY <1>1, <2>1 DEF CallInv, ClientsTyped
  <1>4. RequestsWait'
    <2>1. ASSUME NEW n \in 1 .. Len(inbox)
          PROVE  call'[inbox[n]] \in CallRecord
                 /\ call'[inbox[n]].done = FALSE
      <3>1. call[inbox[n]] \in CallRecord /\ call[inbox[n]].done = FALSE
        BY DEF CallInv, RequestsWait
      <3>2. inbox[n] \in Client  BY DEF CallInv, ClientsTyped
      <3>3. inbox[n] # c  BY <3>1
      <3> QED  BY <1>2, <3>1, <3>2, <3>3
    <2> QED  BY <2>1 DEF CallInv, RequestsWait
  <1>5. SendpathHolds'
    <2>1. ASSUME NEW d \in Client, call'[d] # NoCall, call'[d].api = "sendpath"
          PROVE  /\ call'[d].code = "OPEN"
                 /\ call'[d].done = TRUE /\ answer'[d] \notin Error
                    => held'[d] >= 1
      <3>1. d # c  BY <1>2, <2>1
      <3>2. call'[d] = call[d] /\ answer'[d] = answer[d] /\ held'[d] = held[d]
        BY <1>2, <3>1
      <3> QED  BY <2>1, <3>2 DEF CallInv, SendpathHolds
    <2> QED  BY <2>1 DEF SendpathHolds, NoCall
  <1> QED  BY <1>3, <1>4, <1>5 DEF CallInv

LEMMA CallKeeps ==
    ASSUME CallInv, NEW c \in Client, NEW api \in Uses[c], NEW p \in Path,
           Call(c, api, p)
    PROVE  CallInv'
  <1>1. api \in Api  BY FileServerAssumption
  <1>2. FirstCode(api) \in Code /\ (api = "sendpath" => FirstCode(api) = "OPEN")
    BY <1>1 DEF FirstCode, Code, Api
  <1> QED  BY <1>1, <1>2, RequestKeeps DEF Call

LEMMA ReturnStepKeeps ==
    ASSUME CallInv, NEW c \in Client, Return(c)
    PROVE  CallInv'
  <1>1. call[c] \in CallRecord /\ call[c] # NoCall /\ call[c].done = TRUE
    <2>1. call[c] # NoCall /\ call[c].done  BY DEF Return
    <2>2. call[c] \in CallRecord  BY <2>1 DEF CallInv, ClientsTyped
    <2>3. call[c].done \in BOOLEAN  BY <2>2 DEF CallRecord
    <2> QED  BY <2>1, <2>2, <2>3
  <1>2. /\ held \in [Client -> 0 .. ClientFds] /\ ClientFds \in Nat
        /\ exited \subseteq Client
    BY FileServerAssumption DEF CallInv, ClientsTyped
  <1>3. CASE Failed(c) /\ call[c].api \in Exits
    BY <1>1, <1>2, <1>3, ReturnKeeps DEF Return
  <1>4. CASE /\ ~(Failed(c) /\ call[c].api \in Exits)
             /\ call[c].api = "mkopenchan" /\ call[c].code = "MKCHAN"
    <2>1. Request(c, "mkopenchan", "OPEN", call[c].path)
      BY <1>4 DEF Return
    <2>2. /\ "mkopenchan" \in Api /\ "OPEN" \in Code /\ call[c].path \in Path
          /\ "mkopenchan" # "sendpath"
      BY <1>1 DEF Api, Code, CallRecord
    <2> QED  BY <1>1, <2>1, <2>2, RequestKeeps
  <1>5. CASE /\ ~(Failed(c) /\ call[c].api \in Exits)
             /\ ~(call[c].api = "mkopenchan" /\ call[c].code = "MKCHAN")
    <2>1. /\ call' = [call EXCEPT ![c] = NoCall]
          /\ held' = [held EXCEPT ![c] = IF call[c].api = "sendpath" THEN @ - 1
                                                                     ELSE @]
          /\ answer' = [answer EXCEPT ![c] = "none"]
          /\ inbox' = inbox /\ exited' = exited /\ crashed' = crashed
      BY <1>5 DEF Return
    <2>2. call[c].api = "sendpath" => held[c] >= 1
      BY <1>1, <1>5 DEF CallInv, SendpathHolds, Failed, Exits, Error
    <2>3. /\ held' \in [Client -> 0 .. ClientFds]
          /\ \A d \in Client \ {c} : held'[d] = held[d]
      BY <1>2, <2>1, <2>2
    <2> QED  BY <1>1, <1>2, <2>1, <2>3, ReturnKeeps
  <1> QED  BY <1>3, <1>4, <1>5

LEMMA CloseKeeps ==
    ASSUME CallInv, NEW c \in Client, Close(c)
    PROVE  CallInv'
  <1>1. /\ held \in [Client -> 0 .. ClientFds] /\ ClientFds \in Nat
        /\ call[c] = NoCall /\ held[c] > 0
        /\ held' = [held EXCEPT ![c] = @ - 1]
        /\ inbox' = inbox /\ call' = call /\ answer' = answer
        /\ exited' = exited /\ crashed' = crashed
    BY FileServerAssumption DEF CallInv, ClientsTyped, Close
  <1>2. /\ held' \in [Client -> 0 .. ClientFds]
        /\ \A d \in Client \ {c} : held'[d] = held[d]
    BY <1>1
  <1>3. ClientsTyped' /\ RequestsWait'
    BY <1>1, <1>2 DEF CallInv, ClientsTyped, RequestsWait
  <1>4. SendpathHolds'
    <2>1. ASSUME NEW d \in Client, call'[d] # NoCall, call'[d].api = "sendpath"
          PROVE  /\ call'[d].code = "OPEN"
                 /\ call'[d].done = TRUE /\ answer'[d] \notin Error
                    => held'[d] >= 1
      <3>1. held'[d] = held[d]  BY <1>1, <1>2, <2>1
      <3> QED  BY <1>1, <2>1, <3>1 DEF CallInv, SendpathHolds
    <2> QED  BY <2>1 DEF SendpathHolds, NoCall
  <1> QED  BY <1>3, <1>4 DEF CallInv

-----------------------------------------------------------------------------
(* The server.                                                             *)

\* A step that leaves the table and the descriptors alone.
LEMMA NamesUnchanged ==
    NameInv /\ ht' = ht /\ sfd' = sfd /\ used' = used => NameInv'
  BY DEF NameInv, FreeServerFds, MadeInv

\* The places of a table are finitely many, and so those taken.
LEMMA TakenFinite ==
    ASSUME NEW h
    PROVE  /\ IsFiniteSet(Taken(h)) /\ Cardinality(Taken(h)) \in Nat
           /\ IsFiniteSet(HashPlace) /\ Cardinality(HashPlace) = HASH_MAX
  <1>1. HASH_MAX \in Nat \ {0}  BY FileServerAssumption
  <1>2. IsFiniteSet(HashPlace) /\ Cardinality(HashPlace) = HASH_MAX
    BY <1>1, FS_Interval DEF HashPlace, HashT!Place
  <1>3. Taken(h) \in SUBSET HashPlace  BY DEF Taken
  <1> QED  BY <1>2, <1>3, FS_Subset, FS_CardinalityType

\* The search for the name of a request.
LEMMA SlotIs ==
    ASSUME FsInv, NEW code, Handles(code)
    PROVE  IF Slot = Table!HT_NOKEY THEN ChanOf(ht, sfd, ThePath) = NoChan
           ELSE /\ Slot \in HashPlace /\ HashT!Active(ht, Slot)
                /\ ht[Slot].key = ThePath /\ ht[Slot].value \in Fd
                /\ ChanOf(ht, sfd, ThePath) = sfd[ht[Slot].value]
                /\ sfd[ht[Slot].value] \in Chan
  <1>1. ThePath \in Path  BY SenderIs DEF FsInv
  <1>2. /\ Slot = HashT!HashtableGet(ht, ThePath)
        /\ Table!HT_NOKEY = HashT!HT_NOKEY
    BY SameTable DEF Slot
  <1>3. IF Slot = HashT!HT_NOKEY THEN ChanOf(ht, sfd, ThePath) = NoChan
        ELSE /\ Slot \in HashPlace /\ HashT!Active(ht, Slot)
             /\ ht[Slot].key = ThePath
             /\ ChanOf(ht, sfd, ThePath) = sfd[ht[Slot].value]
             /\ ChanOf(ht, sfd, ThePath) # NoChan
    BY <1>1, <1>2, ChanOfSlot DEF FsInv, NameInv
  <1>4. CASE Slot # HashT!HT_NOKEY
    <2>1. ht[Slot].value \in Fd  BY <1>3, <1>4, ItemParts DEF FsInv, NameInv
    <2> QED  BY <1>2, <1>3, <1>4, <2>1 DEF FsInv, NameInv
  <1> QED  BY <1>2, <1>3, <1>4

\* The place for a new name.
LEMMA NewSlotIs ==
    ASSUME FsInv, NEW code, Handles(code)
    PROVE  IF NewSlot # Table!HT_NOKEY /\ Table!Active(ht, NewSlot)
           THEN ChanOf(ht, sfd, ThePath) # NoChan
           ELSE ChanOf(ht, sfd, ThePath) = NoChan
  <1>1. ThePath \in Path  BY SenderIs DEF FsInv
  <1> DEFINE i == HashT!HashtableReserve(ht, ThePath)
  <1>2. /\ NewSlot = i /\ Table!HT_NOKEY = HashT!HT_NOKEY
        /\ Table!Active(ht, NewSlot) <=> HashT!Active(ht, i)
    BY SameTable DEF NewSlot
  <1>3. /\ i # HashT!HT_NOKEY => i \in HashPlace
        /\ IF i # HashT!HT_NOKEY /\ HashT!Active(ht, i)
           THEN ht[i].key = ThePath ELSE HashT!Absent(ht, ThePath)
    BY <1>1, TableSetting, HashT!ReserveFinds
       DEF FsInv, NameInv, TableOK, HashPlace
  <1> HIDE DEF i
  <1>4. CASE i # HashT!HT_NOKEY /\ HashT!Active(ht, i)
    <2>1. ChanOf(ht, sfd, ThePath) = sfd[ht[i].value]
      BY <1>1, <1>3, <1>4, ChanOfIs DEF FsInv, NameInv
    <2> QED  BY <1>2, <1>3, <1>4, <2>1 DEF FsInv, NameInv, NamesHold
  <1>5. CASE ~(i # HashT!HT_NOKEY /\ HashT!Active(ht, i))
    BY <1>1, <1>2, <1>3, <1>5, ChanOfIs DEF FsInv, NameInv
  <1> QED  BY <1>4, <1>5

\* (mkchan) The new channel takes the first free descriptor, and leaves one.
LEMMA MkchanMakes ==
    ASSUME FsInv, DoMkchan, NewSlot # Table!HT_NOKEY,
           ~Table!Active(ht, NewSlot), RoomForChannel
    PROVE  /\ NameInv'
           /\ NextChan \in Chan \ used
           /\ ChanOf(ht, sfd, ThePath) = NoChan
           /\ ChanOf(ht', sfd', ThePath) = NextChan
           /\ \A q \in Path \ {ThePath} :
                 ChanOf(ht', sfd', q) = ChanOf(ht, sfd, q)
  <1> DEFINE fd == CHOOSE f \in FreeServerFds :
                      \A g \in FreeServerFds : f <= g
             ch == NextChan
  <1>0. /\ Handles("MKCHAN") /\ Chan \ used # {}
        /\ sfd' = [sfd EXCEPT ![fd] = ch]
        /\ ht' = Table!Activate(ht, NewSlot, ThePath, fd)
        /\ used' = used \cup {ch}
    BY DEF DoMkchan
  <1>1. ThePath \in Path  BY <1>0, SenderIs DEF FsInv
  <1>2. ch \in Chan \ used  BY <1>0 DEF NextChan
  <1>3. fd \in FreeServerFds
    <2>1. FreeServerFds # {} /\ FreeServerFds \in SUBSET Nat
      BY FileServerAssumption DEF FsInv, NameInv, FreeServerFds
    <2>2. /\ HashT!Min(FreeServerFds) \in FreeServerFds
          /\ \A g \in FreeServerFds : HashT!Min(FreeServerFds) <= g
      BY <2>1, HashT!MinIs
    <2> QED  BY <2>2
  <1> HIDE DEF fd, ch
  <1>4. fd \in Fd /\ sfd[fd] = NoChan  BY <1>3 DEF FreeServerFds
  <1>5. sfd \in [Fd -> Chan \cup {NoChan}]  BY DEF FsInv, NameInv
  <1> DEFINE i == HashT!HashtableReserve(ht, ThePath)
             new == HashT!Activate(ht, i, ThePath, fd)
  <1>6. i # HashT!HT_NOKEY /\ ~HashT!Active(ht, i) /\ ht' = new
    BY <1>0, SameTable DEF NewSlot
  <1>7. sfd'[fd] = ch /\ \A f \in Fd \ {fd} : sfd'[f] = sfd[f]
    BY <1>0, <1>4, <1>5
  <1> DEFINE t == sfd'
  <1>8. t[fd] = ch /\ \A f \in Fd \ {fd} : t[f] = sfd[f]  BY <1>7
  <1>9. TableOK(ht) /\ NamesHold(ht, sfd)  BY DEF FsInv, NameInv
  <1> HIDE DEF t
  <1>10. /\ TableOK(new) /\ NamesHold(new, t)
         /\ ChanOf(ht, sfd, ThePath) = NoChan /\ ChanOf(new, t, ThePath) = ch
         /\ \A q \in Path \ {ThePath} :
               ChanOf(new, t, q) = ChanOf(ht, sfd, q)
    BY <1>1, <1>2, <1>4, <1>5, <1>6, <1>8, <1>9, MakeKeeps
  <1>12. Taken(new) \subseteq Taken(ht) \cup {i}
    <2>1. \A k \in HashPlace \ {i} : new[k] = ht[k]
      BY <1>9 DEF HashT!Activate, TableOK, HashT!TableOf, HashPlace
    <2> QED  BY <2>1 DEF Taken, HashT!Valid
  <1> HIDE DEF new, i
  <1>13. MadeInv'
    <2>1. IsFiniteSet(Taken(ht)) /\ Cardinality(Taken(ht)) \in Nat
      BY TakenFinite
    <2>2. /\ IsFiniteSet(Taken(ht) \cup {i})
          /\ Cardinality(Taken(ht) \cup {i}) \in Nat
          /\ Cardinality(Taken(ht) \cup {i}) <= Cardinality(Taken(ht)) + 1
      <3> DEFINE S == Taken(ht)
      <3> HIDE DEF S
      <3>1. IsFiniteSet(S) /\ Cardinality(S) \in Nat  BY <2>1 DEF S
      <3>2. /\ IsFiniteSet(S \cup {i})
            /\ Cardinality(S \cup {i})
               = IF i \in S THEN Cardinality(S) ELSE Cardinality(S) + 1
        BY <3>1, FS_AddElement
      <3> QED  BY <3>1, <3>2 DEF S
    <2>3. Cardinality(Taken(new)) <= Cardinality(Taken(ht) \cup {i})
          /\ Cardinality(Taken(new)) \in Nat
      BY <1>12, <2>2, FS_Subset, TakenFinite
    <2>4. IsFiniteSet(used) /\ Cardinality(Taken(ht)) <= Cardinality(used)
      BY DEF FsInv, NameInv, MadeInv
    <2>5. IsFiniteSet(used') /\ Cardinality(used') = Cardinality(used) + 1
          /\ Cardinality(used) \in Nat
      BY <1>0, <1>2, <2>4, FS_AddElement, FS_CardinalityType
    <2>6. Cardinality(Taken(new)) <= Cardinality(used')
      BY <2>1, <2>2, <2>3, <2>4, <2>5
    <2> QED  BY <1>6, <2>5, <2>6 DEF MadeInv
  <1>11. NameInv'
    <2>1. sfd' \in [Fd -> Chan \cup {NoChan}]  BY <1>0, <1>2, <1>5
    <2>2. PICK f \in FreeServerFds : f # fd  BY DEF RoomForChannel
    <2>3. sfd'[f] = NoChan /\ f \in Fd  BY <1>7, <2>2 DEF FreeServerFds
    <2>4. FreeServerFds' # {}  BY <2>3 DEF FreeServerFds
    <2> QED  BY <1>6, <1>10, <1>13, <2>1, <2>4 DEF NameInv, t
  <1> QED  BY <1>2, <1>6, <1>10, <1>11 DEF t, ch

\* (rmchan) The channel is closed, and its descriptor free.
LEMMA RmchanRemoves ==
    ASSUME FsInv, Handles("RMCHAN"), Slot # Table!HT_NOKEY,
           sfd' = [sfd EXCEPT ![ht[Slot].value] = NoChan],
           ht' = Table!Delete(ht, Slot), used' = used
    PROVE  /\ NameInv'
           /\ ChanOf(ht, sfd, ThePath) # NoChan
           /\ ChanOf(ht', sfd', ThePath) = NoChan
           /\ \A q \in Path \ {ThePath} :
                 ChanOf(ht', sfd', q) = ChanOf(ht, sfd, q)
  <1>1. ThePath \in Path  BY SenderIs DEF FsInv
  <1>2. /\ Slot \in HashPlace /\ HashT!Active(ht, Slot)
        /\ ht[Slot].key = ThePath /\ ht[Slot].value \in Fd
        /\ ChanOf(ht, sfd, ThePath) = sfd[ht[Slot].value]
        /\ sfd[ht[Slot].value] \in Chan
    BY SlotIs
  <1> DEFINE fd == ht[Slot].value
             new == HashT!Delete(ht, Slot)
             t == sfd'
  <1>3. sfd \in [Fd -> Chan \cup {NoChan}] /\ TableOK(ht) /\ NamesHold(ht, sfd)
    BY DEF FsInv, NameInv
  <1>4. t[fd] = NoChan /\ \A f \in Fd \ {fd} : t[f] = sfd[f]  BY <1>2, <1>3
  <1>5. ht' = new  BY SameTable
  <1>6. sfd' \in [Fd -> Chan \cup {NoChan}]  BY <1>3
  <1>7. FreeServerFds' # {}  BY <1>2, <1>4 DEF FreeServerFds
  <1> HIDE DEF t
  <1>8. /\ TableOK(new) /\ NamesHold(new, t)
        /\ ChanOf(new, t, ThePath) = NoChan
        /\ \A q \in Path \ {ThePath} : ChanOf(new, t, q) = ChanOf(ht, sfd, q)
    BY <1>1, <1>2, <1>3, <1>4, RemoveKeeps
  <1>10. Taken(new) \subseteq Taken(ht)
    <2>1. \A k \in HashPlace \ {Slot} : new[k] = ht[k]
      BY <1>3 DEF HashT!Delete, TableOK, HashT!TableOf, HashPlace
    <2> QED  BY <1>2, <2>1 DEF Taken, HashT!Valid, HashT!Active
  <1> HIDE DEF new
  <1>11. MadeInv'
    <2>1. IsFiniteSet(used) /\ Cardinality(Taken(ht)) <= Cardinality(used)
          /\ Cardinality(used) \in Nat
      BY FS_CardinalityType DEF FsInv, NameInv, MadeInv
    <2>2. /\ Cardinality(Taken(new)) <= Cardinality(Taken(ht))
          /\ Cardinality(Taken(new)) \in Nat /\ Cardinality(Taken(ht)) \in Nat
      BY <1>10, FS_Subset, TakenFinite
    <2>3. Cardinality(Taken(new)) <= Cardinality(used)  BY <2>1, <2>2
    <2> QED  BY <1>5, <2>1, <2>3 DEF MadeInv
  <1>9. NameInv'  BY <1>5, <1>6, <1>7, <1>8, <1>11 DEF NameInv, t
  <1> QED  BY <1>2, <1>5, <1>8, <1>9, FileServerAssumption DEF t

-----------------------------------------------------------------------------
(* The handlers, as steps of the directory.                                *)

DirNow == [p \in Path |-> LET i == Table!HashtableGet(ht, p) IN
              IF i = Table!HT_NOKEY THEN NoChan ELSE sfd[ht[i].value]]
DirVars == <<DirNow, used, answer>>
DirNames == {p \in Path : DirNow[p] # NoChan}
DirFull ==
    Cardinality(used) >= HASH_MAX \/ Cardinality(DirNames) >= Cardinality(Fd) - 1

LEMMA DirIs ==
    /\ DirNow  = [p \in Path |-> ChanOf(ht, sfd, p)]
    /\ DirNow' = [p \in Path |-> ChanOf(ht', sfd', p)]
  BY SameTable DEF DirNow, ChanOf

LEMMA DirUnchanged ==
    ASSUME ht' = ht, sfd' = sfd
    PROVE  DirNow' = DirNow
  BY DirIs

(* An answer of the directory, with which nothing else changes. *)
Answers(c, a) ==
    answer' = [answer EXCEPT ![c] = a] /\ DirNow' = DirNow /\ used' = used

\* When no place is found for a name, all have been used.
LEMMA NoPlaceFull ==
    ASSUME FsInv, NEW code, Handles(code), NewSlot = Table!HT_NOKEY
    PROVE  DirFull
  <1>1. ThePath \in Path  BY SenderIs DEF FsInv
  <1>2. HashT!HashtableReserve(ht, ThePath) = HashT!HT_NOKEY
    BY SameTable DEF NewSlot
  <1>3. Taken(ht) = HashPlace
    BY <1>1, <1>2, TableSetting, HashT!ReserveFails DEF Taken, HashPlace
  <1>4. Cardinality(used) >= HASH_MAX
    BY <1>3, TakenFinite DEF FsInv, NameInv, MadeInv
  <1> QED  BY <1>4 DEF DirFull

\* When one descriptor is left, the others are those of as many names.
LEMMA NoChannelFull ==
    ASSUME FsInv, ~RoomForChannel
    PROVE  DirFull
  <1>1. /\ sfd \in [Fd -> Chan \cup {NoChan}] /\ TableOK(ht)
        /\ NamesHold(ht, sfd) /\ FreeServerFds # {}
    BY DEF FsInv, NameInv
  <1>2. PICK free \in Fd : \A fd \in Fd : fd # free <=> sfd[fd] # NoChan
    BY <1>1 DEF RoomForChannel, FreeServerFds
  <1> DEFINE open == Fd \ {free}
             Holds(fd, i) == i \in HashPlace /\ HashT!Active(ht, i) /\ ht[i].value = fd
             at == [fd \in open |-> CHOOSE i : Holds(fd, i)]
             f == [fd \in open |-> ht[at[fd]].key]
  <1>3. \A fd \in open : Holds(fd, at[fd])
    <2>1. \A fd \in open : \E i : Holds(fd, i)  BY <1>1, <1>2 DEF NamesHold
    <2> QED  BY <2>1
  <1>4. \A fd \in open : f[fd] \in Path /\ ChanOf(ht, sfd, f[fd]) = sfd[fd]
    <2>1. ASSUME NEW fd \in open
          PROVE  f[fd] \in Path /\ ChanOf(ht, sfd, f[fd]) = sfd[fd]
      <3> DEFINE i == at[fd]
      <3>1. i \in HashPlace /\ HashT!Active(ht, i) /\ ht[i].value = fd
        BY <1>3
      <3>2. f[fd] = ht[i].key  OBVIOUS
      <3> HIDE DEF i, f, at
      <3>3. ht[i].key \in Path  BY <1>1, <3>1, ItemParts
      <3> QED  BY <1>1, <3>1, <3>2, <3>3, ChanOfIs
    <2> QED  BY <2>1
  <1> HIDE DEF f
  <1>5. f \in [open -> DirNames]
    <2>1. \A fd \in open : f[fd] \in DirNames
      BY <1>2, <1>4, DirIs DEF DirNames
    <2> QED  BY <2>1 DEF f
  <1>6. \A p \in DirNames : \E fd \in open : f[fd] = p
    <2>1. ASSUME NEW p \in DirNames PROVE \E fd \in open : f[fd] = p
      <3>1. p \in Path /\ ChanOf(ht, sfd, p) # NoChan  BY DirIs DEF DirNames
      <3>2. ~HashT!Absent(ht, p)  BY <1>1, <3>1, ChanOfIs
      <3>3. PICK i \in HashPlace : HashT!Active(ht, i) /\ ht[i].key = p
        BY <3>2 DEF HashT!Absent, HashPlace
      <3> DEFINE fd == ht[i].value
      <3>4. fd \in open
        BY <1>1, <1>2, <3>3, ItemParts DEF NamesHold
      <3>5. at[fd] = i  BY <1>1, <1>3, <3>3, <3>4 DEF NamesHold
      <3> QED  BY <3>3, <3>4, <3>5 DEF f
    <2> QED  BY <2>1
  <1>7. \A fd, g \in open : f[fd] = f[g] => fd = g
    <2>1. ASSUME NEW fd \in open, NEW g \in open, f[fd] = f[g] PROVE fd = g
      <3>1. ht[at[fd]].key = ht[at[g]].key  BY <2>1 DEF f
      <3>2. at[fd] = at[g]
        BY <1>1, <1>3, <3>1 DEF TableOK, HashT!KeysOnce, HashPlace
      <3> QED  BY <1>3, <3>2
    <2> QED  BY <2>1
  <1>8. ExistsBijection(open, DirNames)
    <2>1. f \in Bijection(open, DirNames)
      BY <1>5, <1>6, <1>7 DEF Bijection, Injection, IsInjective, Surjection
    <2> QED  BY <2>1 DEF ExistsBijection
  <1>9. /\ IsFiniteSet(open) /\ Cardinality(open) = Cardinality(Fd) - 1
        /\ Cardinality(Fd) \in Nat
    BY FileServerAssumption, FS_RemoveElement, FS_CardinalityType
  <1>10. Cardinality(DirNames) = Cardinality(Fd) - 1
    BY <1>8, <1>9, FS_Bijection
  <1> QED  BY <1>9, <1>10 DEF DirFull

\* The steps of the directory, read off the variables.
LEMMA DirSteps ==
    ASSUME NEW c \in Client, NEW p \in Path
    PROVE  /\ \A ch \in Chan : Answers(c, ch) /\ DirNow[p] = ch => Directory!Next
           /\ Answers(c, "ENOENT") /\ DirNow[p] = NoChan => Directory!Next
           /\ Answers(c, "ENOSPC") /\ DirNow[p] = NoChan /\ DirFull
              => Directory!Next
           /\ Answers(c, "EEXIST") /\ DirNow[p] # NoChan => Directory!Next
           /\ Answers(c, "ENOFUNC") => Directory!Next
           /\ \A ch \in Chan \ used :
                 /\ answer' = [answer EXCEPT ![c] = "made"]
                 /\ DirNow[p] = NoChan /\ DirNow' = [DirNow EXCEPT ![p] = ch]
                 /\ used' = used \cup {ch}
                 => Directory!Next
           /\ /\ answer' = [answer EXCEPT ![c] = "removed"] /\ used' = used
              /\ DirNow[p] # NoChan /\ DirNow' = [DirNow EXCEPT ![p] = NoChan]
              => Directory!Next
  <1>1. ASSUME NEW ch \in Chan, Answers(c, ch), DirNow[p] = ch
        PROVE  Directory!Open(c, p, ch)
    BY <1>1 DEF Directory!Open, Directory!Answer, DirNow, Answers
  <1>2. ASSUME Answers(c, "ENOENT"), DirNow[p] = NoChan
        PROVE  Directory!OpenFails(c, p)
    BY <1>2 DEF Directory!OpenFails, Directory!Answer, DirNow, Answers
  <1>3. ASSUME \/ Answers(c, "ENOSPC") /\ DirNow[p] = NoChan /\ DirFull
               \/ Answers(c, "EEXIST") /\ DirNow[p] # NoChan
        PROVE  Directory!MakeFails(c, p)
    <2>1. DirNames = Directory!Names  BY DEF DirNames, Directory!Names, DirNow
    <2>2. DirFull <=> Directory!Full
      <3>1. \A S : Directory!Cardinality(S) = Cardinality(S)
        BY DEF Directory!Cardinality, Cardinality
      <3> QED  BY <2>1, <3>1 DEF DirFull, Directory!Full
    <2> QED
      BY <1>3, <2>2 DEF Directory!MakeFails, Directory!Answer, DirNow, Answers
  <1>4. ASSUME Answers(c, "ENOFUNC") PROVE Directory!Refuse(c)
    BY <1>4 DEF Directory!Refuse, Directory!Answer, DirNow, Answers
  <1>5. ASSUME NEW ch \in Chan \ used,
               answer' = [answer EXCEPT ![c] = "made"],
               DirNow[p] = NoChan, DirNow' = [DirNow EXCEPT ![p] = ch],
               used' = used \cup {ch}
        PROVE  Directory!Make(c, p, ch)
    BY <1>5 DEF Directory!Make, Directory!Answer, DirNow
  <1>6. ASSUME answer' = [answer EXCEPT ![c] = "removed"], used' = used,
               DirNow[p] # NoChan, DirNow' = [DirNow EXCEPT ![p] = NoChan]
        PROVE  Directory!Remove(c, p)
    BY <1>6 DEF Directory!Remove, Directory!Answer, DirNow
  <1> QED
    BY <1>1, <1>2, <1>3, <1>4, <1>5, <1>6 DEF Directory!Next

LEMMA DirReturns ==
    ASSUME NEW c \in Client, Answers(c, "none")
    PROVE  Directory!Next
  <1>1. Directory!Return(c)
    BY DEF Directory!Return, Directory!Answer, DirNow, Answers
  <1> QED  BY <1>1 DEF Directory!Next

\* (open)
LEMMA OpenServed ==
    ASSUME FsInv, DoOpen
    PROVE  FsInv' /\ (Directory!Next \/ UNCHANGED DirVars)
  <1>1. /\ Handles("OPEN") /\ ht' = ht /\ sfd' = sfd /\ used' = used
        /\ CallInv /\ NameInv
    BY DEF DoOpen, FsInv
  <1>2. NameInv' /\ DirNow' = DirNow  BY <1>1, NamesUnchanged, DirUnchanged
  <1>3. Sender \in Client /\ ThePath \in Path  BY <1>1, SenderIs
  <1>4. DirNow[ThePath] = ChanOf(ht, sfd, ThePath)  BY <1>3, DirIs
  <1>5. CASE Slot = Table!HT_NOKEY
    <2>1. MsgReply("ENOENT") /\ held' = held /\ crashed' = crashed
      BY <1>5 DEF DoOpen, MsgReplyStatus
    <2>2. CallInv'
      BY <1>1, <2>1, ReplyKeeps DEF Error, AnswerSet
    <2>3. Answers(Sender, "ENOENT")
      BY <1>1, <1>2, <2>1 DEF Answers, MsgReply
    <2>4. DirNow[ThePath] = NoChan  BY <1>1, <1>4, <1>5, SlotIs
    <2>5. Directory!Next  BY <1>3, <2>3, <2>4, DirSteps
    <2> QED  BY <1>2, <2>2, <2>5 DEF FsInv
  <1>6. CASE Slot # Table!HT_NOKEY /\ FreeFds(Sender) < 2
    <2>1. /\ crashed' = TRUE /\ inbox' = inbox /\ call' = call /\ held' = held
          /\ answer' = answer /\ exited' = exited
      BY <1>6 DEF DoOpen
    <2>2. CallInv'
      BY <1>1, <2>1 DEF CallInv, ClientsTyped, RequestsWait, SendpathHolds
    <2> QED  BY <1>1, <1>2, <2>1, <2>2 DEF FsInv, DirVars
  <1>7. CASE Slot # Table!HT_NOKEY /\ ~(FreeFds(Sender) < 2)
    <2> DEFINE ch == sfd[ht[Slot].value]
    <2>1. /\ MsgReply(ch) /\ held' = [held EXCEPT ![Sender] = @ + 1]
          /\ crashed' = crashed
      BY <1>7 DEF DoOpen
    <2>2. ch \in Chan /\ ChanOf(ht, sfd, ThePath) = ch
      BY <1>1, <1>7, SlotIs
    <2> HIDE DEF ch
    <2>3. held[Sender] < ClientFds
      <3>1. held[Sender] \in 0 .. ClientFds /\ ClientFds \in Nat
        BY <1>1, <1>3, FileServerAssumption DEF CallInv, ClientsTyped
      <3> QED  BY <1>7, <3>1 DEF FreeFds
    <2>4. CallInv'  BY <1>1, <2>1, <2>2, <2>3, ReplyKeeps DEF AnswerSet
    <2>5. Answers(Sender, ch)  BY <1>1, <1>2, <2>1 DEF Answers, MsgReply
    <2>6. Directory!Next  BY <1>3, <1>4, <2>2, <2>5, DirSteps
    <2> QED  BY <1>2, <2>4, <2>6 DEF FsInv
  <1> QED  BY <1>5, <1>6, <1>7

\* (mkdir)
LEMMA MkdirServed ==
    ASSUME FsInv, DoMkdir
    PROVE  FsInv' /\ Directory!Next
  <1>1. /\ Handles("MKDIR") /\ ht' = ht /\ sfd' = sfd /\ used' = used
        /\ MsgReply("ENOFUNC") /\ held' = held /\ crashed' = crashed
        /\ CallInv /\ NameInv
    BY DEF DoMkdir, FsInv, MsgReplyStatus
  <1>2. NameInv' /\ DirNow' = DirNow  BY <1>1, NamesUnchanged, DirUnchanged
  <1>3. Sender \in Client /\ ThePath \in Path  BY <1>1, SenderIs
  <1>4. CallInv'  BY <1>1, ReplyKeeps DEF AnswerSet, Error
  <1>5. Answers(Sender, "ENOFUNC")  BY <1>1, <1>2 DEF Answers, MsgReply
  <1>6. Directory!Next  BY <1>3, <1>5, DirSteps
  <1> QED  BY <1>2, <1>4, <1>6 DEF FsInv

\* (mkchan)
LEMMA MkchanServed ==
    ASSUME FsInv, DoMkchan
    PROVE  FsInv' /\ Directory!Next
  <1>1. Handles("MKCHAN") /\ CallInv /\ NameInv  BY DEF DoMkchan, FsInv
  <1>2. Sender \in Client /\ ThePath \in Path  BY <1>1, SenderIs
  <1>3. DirNow[ThePath] = ChanOf(ht, sfd, ThePath)  BY <1>2, DirIs
  <1> DEFINE there == NewSlot # Table!HT_NOKEY /\ Table!Active(ht, NewSlot)
             room  == NewSlot # Table!HT_NOKEY /\ RoomForChannel
  <1>4. IF there THEN DirNow[ThePath] # NoChan ELSE DirNow[ThePath] = NoChan
    BY <1>1, <1>3, NewSlotIs
  <1>5. ASSUME NEW a \in {"ENOSPC", "EEXIST"}, MsgReplyStatus(a),
               ht' = ht, sfd' = sfd, used' = used
        PROVE  CallInv' /\ NameInv' /\ Answers(Sender, a)
    <2>1. NameInv' /\ DirNow' = DirNow
      BY <1>1, <1>5, NamesUnchanged, DirUnchanged
    <2>2. MsgReply(a) /\ held' = held /\ crashed' = crashed /\ a \in AnswerSet
      BY <1>5 DEF MsgReplyStatus, AnswerSet, Error
    <2>3. CallInv'  BY <1>1, <2>2, ReplyKeeps
    <2> QED  BY <1>5, <2>1, <2>2, <2>3 DEF Answers, MsgReply
  <1>6. CASE there
    <2>1. MsgReplyStatus("EEXIST") /\ ht' = ht /\ sfd' = sfd /\ used' = used
      BY <1>6 DEF DoMkchan
    <2>2. CallInv' /\ NameInv' /\ Answers(Sender, "EEXIST")  BY <1>5, <2>1
    <2>3. Directory!Next  BY <1>2, <1>4, <1>6, <2>2, DirSteps
    <2> QED  BY <2>2, <2>3 DEF FsInv
  <1>7. CASE ~there /\ ~room
    <2>1. MsgReplyStatus("ENOSPC") /\ ht' = ht /\ sfd' = sfd /\ used' = used
      BY <1>7 DEF DoMkchan
    <2>2. CallInv' /\ NameInv' /\ Answers(Sender, "ENOSPC")  BY <1>5, <2>1
    <2>3. DirFull  BY <1>1, <1>7, NoPlaceFull, NoChannelFull
    <2>4. Directory!Next  BY <1>2, <1>4, <1>7, <2>2, <2>3, DirSteps
    <2> QED  BY <2>2, <2>4 DEF FsInv
  <1>8. CASE ~there /\ room
    <2>1. /\ MsgReplyStatus("made") /\ used' = used \cup {NextChan}
      BY <1>8 DEF DoMkchan
    <2>2. MsgReply("made") /\ held' = held /\ crashed' = crashed
      BY <2>1 DEF MsgReplyStatus
    <2>3. CallInv'  BY <1>1, <2>2, ReplyKeeps DEF AnswerSet
    <2>4. /\ NameInv' /\ NextChan \in Chan \ used
          /\ ChanOf(ht', sfd', ThePath) = NextChan
          /\ \A q \in Path \ {ThePath} :
                ChanOf(ht', sfd', q) = ChanOf(ht, sfd, q)
      BY <1>8, MkchanMakes
    <2>5. DirNow' = [DirNow EXCEPT ![ThePath] = NextChan]
      BY <1>2, <2>4, DirIs
    <2>6. Directory!Next
      BY <1>2, <1>4, <1>8, <2>1, <2>2, <2>4, <2>5, DirSteps DEF MsgReply
    <2> QED  BY <2>3, <2>4, <2>6 DEF FsInv
  <1> QED  BY <1>6, <1>7, <1>8

\* (rmchan)
LEMMA RmchanServed ==
    ASSUME FsInv, DoRmchan
    PROVE  FsInv' /\ Directory!Next
  <1>1. Handles("RMCHAN") /\ CallInv /\ NameInv /\ used' = used
    BY DEF DoRmchan, FsInv
  <1>2. Sender \in Client /\ ThePath \in Path  BY <1>1, SenderIs
  <1>3. DirNow[ThePath] = ChanOf(ht, sfd, ThePath)  BY <1>2, DirIs
  <1>4. CASE Slot = Table!HT_NOKEY
    <2>1. /\ MsgReply("ENOENT") /\ held' = held /\ crashed' = crashed
          /\ ht' = ht /\ sfd' = sfd
      BY <1>4 DEF DoRmchan, MsgReplyStatus
    <2>2. NameInv' /\ DirNow' = DirNow
      BY <1>1, <2>1, NamesUnchanged, DirUnchanged
    <2>3. CallInv'  BY <1>1, <2>1, ReplyKeeps DEF AnswerSet, Error
    <2>4. Answers(Sender, "ENOENT")
      BY <1>1, <2>1, <2>2 DEF Answers, MsgReply
    <2>5. DirNow[ThePath] = NoChan  BY <1>1, <1>3, <1>4, SlotIs
    <2>6. Directory!Next  BY <1>2, <2>4, <2>5, DirSteps
    <2> QED  BY <2>2, <2>3, <2>6 DEF FsInv
  <1>5. CASE Slot # Table!HT_NOKEY
    <2>1. /\ MsgReply("removed") /\ held' = held /\ crashed' = crashed
          /\ sfd' = [sfd EXCEPT ![ht[Slot].value] = NoChan]
          /\ ht' = Table!Delete(ht, Slot)
      BY <1>5 DEF DoRmchan, MsgReplyStatus
    <2>2. CallInv'  BY <1>1, <2>1, ReplyKeeps DEF AnswerSet
    <2>3. /\ NameInv' /\ ChanOf(ht, sfd, ThePath) # NoChan
          /\ ChanOf(ht', sfd', ThePath) = NoChan
          /\ \A q \in Path \ {ThePath} :
                ChanOf(ht', sfd', q) = ChanOf(ht, sfd, q)
      BY <1>1, <1>5, <2>1, RmchanRemoves
    <2>4. DirNow' = [DirNow EXCEPT ![ThePath] = NoChan]
      BY <1>2, <2>3, DirIs
    <2>5. Directory!Next
      BY <1>1, <1>2, <1>3, <2>1, <2>3, <2>4, DirSteps DEF MsgReply
    <2> QED  BY <2>2, <2>3, <2>5 DEF FsInv
  <1> QED  BY <1>4, <1>5

\* (The functions that clients call.)
LEMMA ClientServed ==
    ASSUME FsInv, NEW c \in Client,
           \/ \E api \in Uses[c], p \in Path : Call(c, api, p)
           \/ Return(c)
           \/ Close(c)
    PROVE  FsInv' /\ (Directory!Next \/ UNCHANGED DirVars)
  <1>1. ht' = ht /\ sfd' = sfd /\ used' = used
    BY DEF Call, Return, Close, Request
  <1>2. NameInv' /\ DirNow' = DirNow
    BY <1>1, NamesUnchanged, DirUnchanged DEF FsInv
  <1>3. CallInv'  BY CallKeeps, ReturnStepKeeps, CloseKeeps DEF FsInv
  <1>4. answer' = answer \/ answer' = [answer EXCEPT ![c] = "none"]
    BY DEF Call, Return, Close, Request
  <1>5. Directory!Next \/ UNCHANGED DirVars
    <2>1. CASE answer' = answer  BY <1>1, <1>2, <2>1 DEF DirVars
    <2>2. CASE answer' = [answer EXCEPT ![c] = "none"]
      BY <1>1, <1>2, <2>2, DirReturns DEF Answers
    <2> QED  BY <1>4, <2>1, <2>2
  <1> QED  BY <1>2, <1>3, <1>5 DEF FsInv

LEMMA StepServed ==
    FsInv /\ [Next]_vars => FsInv' /\ [Directory!Next]_DirVars
  <1> SUFFICES ASSUME FsInv, [Next]_vars
               PROVE  FsInv' /\ (Directory!Next \/ UNCHANGED DirVars)
    OBVIOUS
  <1>1. ASSUME NEW c \in Client,
               \/ \E api \in Uses[c], p \in Path : Call(c, api, p)
               \/ Return(c)
               \/ Close(c)
        PROVE  FsInv' /\ (Directory!Next \/ UNCHANGED DirVars)
    BY <1>1, ClientServed
  <1>2. CASE Server
    BY <1>2, OpenServed, MkdirServed, MkchanServed, RmchanServed DEF Server
  <1>3. CASE UNCHANGED vars
    <2>1. ht' = ht /\ sfd' = sfd /\ used' = used /\ UNCHANGED clientVars
      BY <1>3 DEF vars
    <2>2. NameInv' /\ DirNow' = DirNow
      BY <2>1, NamesUnchanged, DirUnchanged DEF FsInv
    <2>3. CallInv'
      BY <2>1 DEF FsInv, clientVars, CallInv, ClientsTyped, RequestsWait,
                  SendpathHolds
    <2> QED  BY <2>1, <2>2, <2>3 DEF FsInv, DirVars, clientVars
  <1> QED  BY <1>1, <1>2, <1>3 DEF Next

\* In every state the table finds each name, names and open descriptors match
\* one to one, and who is in the inbox waits for one answer (fs.c:104-162,
\* the request loop and the functions that clients call).
THEOREM FsInvariant == Spec => []FsInv
  BY InitInv, StepServed, PTL DEF Spec

\* The table, the descriptors and the clients' counts are what the code takes
\* them for, whatever the clients call (fs.c:104-162).
THEOREM FileServerTypeOK == Spec => []TypeOK
  <1>1. ASSUME FsInv PROVE TypeOK
    <2>1. CallInv /\ NameInv  BY <1>1 DEF FsInv
    <2>2. DOMAIN ht = HashPlace /\ HashPlace = 0 .. (HASH_MAX - 1)
      BY <2>1 DEF NameInv, TableOK, HashT!TableOf, HashPlace, HashT!Place
    <2>3. \A i \in DOMAIN ht : Table!Active(ht, i) =>
              ht[i].key \in Path /\ ht[i].value \in Fd
      BY <2>1, <2>2, SameTable, ItemParts DEF NameInv
    <2> QED
      BY <2>1, <2>2, <2>3 DEF TypeOK, CallInv, ClientsTyped, NameInv
  <1> QED  BY <1>1, FsInvariant, PTL

\* The server's descriptors are those of the names and one for a reply,
\* whatever is made and removed (fs.c:118-162).
THEOREM DescriptorsAlwaysKept == Spec => []DescriptorsKept
  <1>1. ASSUME FsInv PROVE DescriptorsKept
    <2>1. NameInv  BY <1>1 DEF FsInv
    <2>2. DOMAIN ht = HashPlace
      BY <2>1 DEF NameInv, TableOK, HashT!TableOf, HashPlace
    <2>3. ASSUME NEW fd \in Fd, sfd[fd] # NoChan
          PROVE  \E i \in DOMAIN ht : Table!Active(ht, i) /\ ht[i].value = fd
                    /\ \A j \in DOMAIN ht \ {i} :
                          ~(Table!Active(ht, j) /\ ht[j].value = fd)
      <3>1. PICK i \in HashPlace : HashT!Active(ht, i) /\ ht[i].value = fd
        BY <2>1, <2>3 DEF NameInv, NamesHold
      <3>2. \A j \in HashPlace \ {i} :
                ~(HashT!Active(ht, j) /\ ht[j].value = fd)
        BY <2>1, <3>1 DEF NameInv, NamesHold
      <3> QED  BY <2>2, <3>1, <3>2, SameTable
    <2> QED  BY <2>1, <2>3 DEF DescriptorsKept, NameInv
  <1> QED  BY <1>1, FsInvariant, PTL

\* What clients see of the server is a directory: a name stands for one channel
\* from when it is made until it is removed (fs.c:104-162, lib.c:46-83).
THEOREM FileServerImplements == Spec => ImplementsDirectory
  <1>1. Init => Directory!Init
    <2> SUFFICES ASSUME Init PROVE Directory!Init  OBVIOUS
    <2>1. ht = HashT!EmptyTable /\ used = {}
          /\ answer = [c \in Client |-> "none"]
      BY SameTable DEF Init
    <2>2. TableOK(ht) /\ \A p \in Path : HashT!Absent(ht, p)
      BY <2>1, TableSetting, HashT!EmptyHoldsNothing DEF TableOK
    <2>3. \A p \in Path : ChanOf(ht, sfd, p) = NoChan  BY <2>2, ChanOfIs
    <2>4. DirNow = [p \in Path |-> NoChan]  BY <2>3, DirIs
    <2> QED  BY <2>1, <2>4 DEF Directory!Init, DirNow
  <1>2. FsInv /\ [Next]_vars => [Directory!Next]_(Directory!vars)
    BY StepServed DEF DirVars, DirNow, Directory!vars
  <1> QED
    BY <1>1, <1>2, FsInvariant, PTL
       DEF Spec, ImplementsDirectory, Directory!Spec
=============================================================================
