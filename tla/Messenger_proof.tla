--------------------------- MODULE Messenger_proof ---------------------------
(***************************************************************************)
(* NetworkInv is an invariant of the messenger and of discovery, for any   *)
(* peers, any pending table and any number of retries, reboots, presence   *)
(* changes and messages in flight.  With it: what is pending is sound and  *)
(* watched (MessengerInv), the directory's listeners are told what it      *)
(* holds, and an acknowledgement means delivery.                           *)
(***************************************************************************)
EXTENDS Messenger, WellFoundedInduction, TLAPS

Less == {p \in Nat \X Nat : p[1] < p[2]}

LEMMA LessIsWellFounded == IsWellFoundedOn(Less, Nat)
  BY Zenon, NatLessThanWellFounded DEF Less, OpToRel

LEMMA LeastExists ==
    ASSUME NEW S \in SUBSET Nat, S # {}
    PROVE  \E s \in S : \A t \in S : s <= t
  <1>1. PICK x \in S : \A y \in S : <<y, x>> \notin Less
      BY WFMin, LessIsWellFounded
  <1>2. \A y \in S : ~(y < x)
      BY <1>1 DEF Less
  <1> QED
      BY <1>2

(* The table is searched from its first entry. *)
LEMMA FirstFreeIsFree ==
    ASSUME NEW n \in Nodes, FreeSlots(n) # {}
    PROVE  FirstFree(n) \in Slots /\ ~pending[n][FirstFree(n)].used
  <1>1. FreeSlots(n) \in SUBSET Nat
      BY MessengerAssumption DEF FreeSlots
  <1>2. FirstFree(n) \in FreeSlots(n)
      BY <1>1, LeastExists DEF FirstFree
  <1> QED
      BY <1>2 DEF FreeSlots

LEMMA FreeIsEntry == Free \in Entries /\ ~Free.used /\ Hub \in Nodes /\ Peers \subseteq Nodes
  BY MessengerAssumption DEF Free, Entries, Nodes

LEMMA PutFacts ==
    ASSUME NEW rest, NEW m, NEW new \in Put(rest, m)
    PROVE  new = rest \/ new = rest \cup {m}
  BY DEF Put

LEMMA NetworkInit == Init => NetworkInv
  <1> SUFFICES ASSUME Init PROVE NetworkInv
      OBVIOUS
  <1>1. TypeOK
    <2>1. Absent \in DirectoryEntries /\ 1 \in Boots /\ 0 \in 0 .. MaxId
        BY MessengerAssumption DEF Absent, DirectoryEntries, Boots
    <2> QED
        BY <2>1, FreeIsEntry DEF Init, TypeOK
  <1>2. \A n \in Nodes : Used(n) = {}
      BY FreeIsEntry DEF Init, Used
  <1>3. PendingIsSound /\ PendingRoles
      BY <1>2 DEF PendingIsSound, PendingRoles
  <1>4. NetIsSound /\ GotIsPending
      BY DEF Init, NetIsSound, GotIsPending
  <1>5. BootsAreEvents
      BY MessengerAssumption DEF Init, BootsAreEvents
  <1>6. AnswerIsAwaited /\ DirectoryIsTold
      BY FreeIsEntry DEF Init, AnswerIsAwaited, DirectoryIsTold, Absent
  <1> QED
      BY <1>1, <1>3, <1>4, <1>5, <1>6 DEF NetworkInv

-----------------------------------------------------------------------------
(* What keeps the messages in flight sound: boots and numbers only go up,  *)
(* a request that was not pending has a new number, and what arrived stays *)
(* known as arrived while it is pending.                                   *)
LEMMA SoundKept ==
    ASSUME TypeOK, lastId' \in [Nodes -> Nat], boot' \in [Nodes -> Nat],
           \A x \in Nodes : \/ boot'[x] = boot[x] + 1
                            \/ boot'[x] = boot[x] /\ lastId'[x] >= lastId[x],
           \A x \in Nodes : \A t \in Slots : pending'[x][t].used =>
              \/ pending'[x][t].id > lastId[x]
              \/ /\ pending[x][t].used /\ pending'[x][t].id = pending[x][t].id
                 /\ pending'[x][t].dst = pending[x][t].dst
                 /\ <<x, pending[x][t].id>> \in got => <<x, pending[x][t].id>> \in got',
           NEW m, Sound(m)
    PROVE  Sound(m)'
  <1> DEFINE n == Owner(m)
  <1>1. n \in Nodes /\ m \in Messages
      BY DEF Sound, Owner, Messages
  <1>2. boot[n] \in Nat /\ lastId[n] \in Nat /\ boot'[n] \in Nat /\ lastId'[n] \in Nat
      BY <1>1, MessengerAssumption DEF TypeOK, Boots
  <1>3. m.epoch \in Nat /\ m.id \in Nat
      BY <1>1, MessengerAssumption DEF Messages, Boots
  <1>4. m.epoch <= boot[n]
      BY DEF Sound
  <1>5. m.epoch <= boot'[n]
      BY <1>1, <1>2, <1>3, <1>4
  <1>6. ASSUME m.epoch = boot'[n]
        PROVE  /\ m.id <= lastId'[n]
               /\ \A s \in Used(n)' : pending'[n][s].id = m.id =>
                     /\ pending'[n][s].dst = Far(m)
                     /\ m.body = "ack" => <<n, m.id>> \in got'
    <2>1. boot'[n] = boot[n] /\ lastId'[n] >= lastId[n] /\ m.epoch = boot[n]
        BY <1>1, <1>2, <1>3, <1>4, <1>6
    <2>2. /\ m.id <= lastId[n]
          /\ \A s \in Used(n) : pending[n][s].id = m.id =>
                /\ pending[n][s].dst = Far(m)
                /\ m.body = "ack" => <<n, m.id>> \in got
        BY <2>1 DEF Sound
    <2>3. ASSUME NEW s \in Used(n)', pending'[n][s].id = m.id
          PROVE  /\ pending'[n][s].dst = Far(m)
                 /\ m.body = "ack" => <<n, m.id>> \in got'
      <3>1. s \in Slots /\ pending'[n][s].used
          BY DEF Used
      <3>2. /\ pending[n][s].used /\ pending'[n][s].id = pending[n][s].id
            /\ pending'[n][s].dst = pending[n][s].dst
            /\ <<n, pending[n][s].id>> \in got => <<n, pending[n][s].id>> \in got'
          BY <1>1, <1>2, <1>3, <2>2, <2>3, <3>1
      <3>3. s \in Used(n)
          BY <3>1, <3>2 DEF Used
      <3> QED
          BY <2>2, <2>3, <3>2, <3>3
    <2> QED
        BY <1>2, <1>3, <2>1, <2>2, <2>3
  <1> HIDE DEF n
  <1>7. IF n = Hub THEN Far(m) \in Peers /\ m.body # "announce"
                   ELSE Far(m) = Hub /\ m.body # "identity"
      BY DEF Sound, n
  <1> QED
      BY <1>1, <1>5, <1>6, <1>7 DEF Sound, n, Owner, Far

(* Freeing entries, with what is known of their arrival, and losing        *)
(* messages.                                                               *)
LEMMA ShrinkKeeps ==
    ASSUME NetworkInv, net' \subseteq net,
           lastId' \in [Nodes -> Nat], boot' \in [Nodes -> Nat],
           \A x \in Nodes : \/ boot'[x] = boot[x] + 1
                            \/ boot'[x] = boot[x] /\ lastId'[x] = lastId[x],
           \A x \in Nodes : \A t \in Slots : pending'[x][t].used =>
               /\ pending[x][t].used /\ pending'[x][t] = pending[x][t]
               /\ pending[x][t].dst \in knows'[x] /\ lastId'[x] = lastId[x]
               /\ <<x, pending[x][t].id>> \in got => <<x, pending[x][t].id>> \in got',
           \A g \in got' : \E x \in Nodes : \E t \in Slots :
               pending'[x][t].used /\ g = <<x, pending'[x][t].id>>
    PROVE  PendingIsSound' /\ PendingRoles' /\ NetIsSound' /\ GotIsPending'
  <1>1. \A x \in Nodes : \A t \in Used(x)' : /\ t \in Used(x) /\ pending'[x][t] = pending[x][t]
                                             /\ pending[x][t].dst \in knows'[x]
                                             /\ lastId'[x] = lastId[x]
      BY DEF Used
  <1>2. PendingIsSound'
      BY <1>1 DEF NetworkInv, PendingIsSound
  <1>3. PendingRoles'
      BY <1>1 DEF NetworkInv, PendingRoles
  <1>4. NetIsSound'
    <2>1. ASSUME NEW m \in net' PROVE Sound(m)'
      <3>1. Sound(m) /\ TypeOK
          BY DEF NetworkInv, NetIsSound
      <3>2. \A x \in Nodes : \/ boot'[x] = boot[x] + 1
                             \/ boot'[x] = boot[x] /\ lastId'[x] >= lastId[x]
          BY <3>1, MessengerAssumption DEF TypeOK
      <3> QED
          BY <3>1, <3>2, SoundKept
    <2> QED
        BY <2>1 DEF NetIsSound
  <1>5. GotIsPending'
      BY DEF GotIsPending, Used
  <1> QED
      BY <1>2, <1>3, <1>4, <1>5

(* One request ends.                                                       *)
LEMMA FreeOneKeeps ==
    ASSUME NetworkInv, NEW n \in Nodes, NEW s \in Used(n), net' \subseteq net,
           pending' = [pending EXCEPT ![n][s] = Free],
           got' = got \ {<<n, pending[n][s].id>>},
           UNCHANGED <<knows, boot, lastId, events>>
    PROVE  /\ PendingIsSound' /\ PendingRoles' /\ NetIsSound' /\ GotIsPending'
           /\ BootsAreEvents' /\ pending' \in [Nodes -> [Slots -> Entries]]
           /\ \A x \in Nodes : \A t \in Slots :
                 IF x = n /\ t = s THEN ~pending'[x][t].used ELSE pending'[x][t] = pending[x][t]
  <1>1. TypeOK /\ s \in Slots /\ pending[n][s].used
      BY DEF NetworkInv, Used
  <1>2. pending' \in [Nodes -> [Slots -> Entries]]
      BY <1>1, FreeIsEntry DEF TypeOK
  <1>3. \A x \in Nodes : \A t \in Slots :
            IF x = n /\ t = s THEN ~pending'[x][t].used ELSE pending'[x][t] = pending[x][t]
      BY <1>1, FreeIsEntry DEF TypeOK
  <1>4. ASSUME NEW x \in Nodes, NEW t \in Slots, pending'[x][t].used
        PROVE  /\ pending[x][t].used /\ pending'[x][t] = pending[x][t]
               /\ pending[x][t].dst \in knows'[x] /\ lastId'[x] = lastId[x]
               /\ <<x, pending[x][t].id>> \in got => <<x, pending[x][t].id>> \in got'
    <2>1. pending[x][t].used /\ pending'[x][t] = pending[x][t] /\ ~(x = n /\ t = s)
        BY <1>3, <1>4
    <2>2. t \in Used(x)
        BY <2>1 DEF Used
    <2>3. <<x, pending[x][t].id>> # <<n, pending[n][s].id>>
        BY <2>1, <2>2 DEF NetworkInv, PendingIsSound
    <2>4. pending[x][t].dst \in knows[x]
        BY <2>2 DEF NetworkInv, PendingIsSound
    <2> QED
        BY <2>1, <2>3, <2>4
  <1>5. ASSUME NEW g \in got'
        PROVE  \E x \in Nodes : \E t \in Slots : pending'[x][t].used /\ g = <<x, pending'[x][t].id>>
    <2>1. PICK x \in Nodes : \E t \in Used(x) : g = <<x, pending[x][t].id>>
        BY DEF NetworkInv, GotIsPending
    <2>2. PICK t \in Used(x) : g = <<x, pending[x][t].id>>
        BY <2>1
    <2>3. ~(x = n /\ t = s)
        BY <2>2
    <2>4. t \in Slots /\ pending[x][t].used
        BY DEF Used
    <2> QED
        BY <1>3, <2>2, <2>3, <2>4
  <1>6. lastId' \in [Nodes -> Nat] /\ boot' \in [Nodes -> Nat]
      BY <1>1, MessengerAssumption DEF TypeOK, Boots
  <1>7. PendingIsSound' /\ PendingRoles' /\ NetIsSound' /\ GotIsPending'
      BY <1>4, <1>5, <1>6, ShrinkKeeps
  <1>8. BootsAreEvents'
      BY DEF NetworkInv, BootsAreEvents
  <1> QED
      BY <1>2, <1>3, <1>7, <1>8

LEMMA GiveUpKeeps ==
    ASSUME NetworkInv, NEW n \in Nodes, NEW s \in Slots, GiveUp(n, s)
    PROVE  NetworkInv'
  <1> DEFINE e == pending[n][s]
  <1>1. /\ s \in Used(n) /\ pending' = [pending EXCEPT ![n][s] = Free]
        /\ got' = got \ {<<n, e.id>>} /\ directory' = OnRequestFailed(n, e)
        /\ abandoned' = abandoned \cup Abandons(n, {e.body})
        /\ UNCHANGED <<knows, boot, events, lastId, net, listed>>
      BY DEF GiveUp, link, Used
  <1>2. TypeOK
      BY DEF NetworkInv
  <1>3. IF n = Hub THEN e.dst \in Peers ELSE e.body = "announce" /\ n \in Peers
      BY <1>1 DEF NetworkInv, PendingRoles, Nodes
  <1>4. /\ PendingIsSound' /\ PendingRoles' /\ NetIsSound' /\ GotIsPending' /\ BootsAreEvents'
        /\ pending' \in [Nodes -> [Slots -> Entries]]
        /\ \A x \in Nodes : \A t \in Slots :
              IF x = n /\ t = s THEN ~pending'[x][t].used ELSE pending'[x][t] = pending[x][t]
      BY <1>1, FreeOneKeeps, ZenonT(60)
  <1> HIDE DEF e
  <1>5. \/ directory' = directory
        \/ /\ n = Hub /\ directory[e.dst].state = "PENDING"
           /\ directory' = [directory EXCEPT ![e.dst].state = "MUTE"]
      BY <1>1 DEF OnRequestFailed
  <1>6. directory' \in [Peers -> DirectoryEntries]
      BY <1>2, <1>3, <1>5, SMTT(30) DEF TypeOK, DirectoryEntries
  <1>7. /\ \A p \in Peers : p # e.dst \/ n # Hub => directory'[p] = directory[p]
        /\ n = Hub => directory'[e.dst].state # "PENDING"
      <2>1. CASE n # Hub
          BY <1>1, <1>5, <2>1
      <2>2. CASE n = Hub
          BY <1>1, <1>2, <1>3, <1>5, <2>2 DEF TypeOK, DirectoryEntries, OnRequestFailed
      <2> QED
          BY <2>1, <2>2
  <1>8. abandoned' \subseteq Peers /\ abandoned \subseteq abandoned'
        /\ (n # Hub => n \in abandoned')
      BY <1>1, <1>2, <1>3 DEF TypeOK, Abandons
  <1>9. TypeOK'
      BY <1>1, <1>2, <1>4, <1>6, <1>8 DEF TypeOK
  <1>10. DirectoryIsTold'
      BY <1>1, <1>2, <1>3, <1>5 DEF NetworkInv, DirectoryIsTold, TypeOK, DirectoryEntries
  <1>11. got' \subseteq got
      BY <1>1
  <1>12. AnswerIsAwaited'
    <2> SUFFICES ASSUME NEW p \in Peers,
                        directory'[p].state = "PENDING", directory'[p].requests = 1
                 PROVE  \/ \E t \in Used(Hub)' : /\ pending'[Hub][t].dst = p
                                                 /\ <<Hub, pending'[Hub][t].id>> \notin got'
                        \/ \E t \in Used(p)' : <<p, pending'[p][t].id>> \notin got'
                        \/ p \in abandoned'
        BY DEF AnswerIsAwaited
    <2>1. (n = Hub => p # e.dst) /\ directory'[p] = directory[p]
        BY <1>7
    <2>2. CASE p \in abandoned
        BY <1>8, <2>2
    <2>3. CASE \E t \in Used(Hub) : /\ pending[Hub][t].dst = p
                                    /\ <<Hub, pending[Hub][t].id>> \notin got
      <3>1. PICK t \in Used(Hub) : /\ pending[Hub][t].dst = p
                                   /\ <<Hub, pending[Hub][t].id>> \notin got
          BY <2>3
      <3>2. ~(n = Hub /\ t = s)
          BY <2>1, <3>1 DEF e
      <3>3. t \in Used(Hub)' /\ pending'[Hub][t] = pending[Hub][t]
          BY <1>4, <3>2, FreeIsEntry DEF Used
      <3> QED
          BY <1>11, <3>1, <3>3
    <2>4. CASE \E t \in Used(p) : <<p, pending[p][t].id>> \notin got
      <3>1. CASE n = p
          BY <1>8, <3>1, MessengerAssumption
      <3>2. CASE n # p
        <4>1. PICK t \in Used(p) : <<p, pending[p][t].id>> \notin got
            BY <2>4
        <4>2. t \in Used(p)' /\ pending'[p][t] = pending[p][t]
            BY <1>4, <3>2, FreeIsEntry DEF Used
        <4> QED
            BY <1>11, <4>1, <4>2
      <3> QED
          BY <3>1, <3>2
    <2> QED
        BY <2>1, <2>2, <2>3, <2>4 DEF NetworkInv, AnswerIsAwaited
  <1> QED
      BY <1>4, <1>9, <1>10, <1>12 DEF NetworkInv

(* An acknowledgement of this boot ends a request that arrived; one of an  *)
(* earlier boot is accounted for.                                          *)
LEMMA ReceiveAckKeeps ==
    ASSUME NetworkInv, NEW m \in net, ReceiveAck(m)
    PROVE  NetworkInv'
  <1>1. /\ m.body = "ack" /\ net' = net \ {m}
        /\ UNCHANGED <<knows, boot, events, lastId, directory, listed>>
      BY DEF ReceiveAck, link
  <1>2. TypeOK /\ Sound(m) /\ m.dst \in Nodes /\ Owner(m) = m.dst /\ Far(m) = m.src
      BY <1>1 DEF NetworkInv, NetIsSound, Sound, Messages, Owner, Far
  <1>3. DirectoryIsTold'
      BY <1>1 DEF NetworkInv, DirectoryIsTold
  <1>4. CASE Matches(m) = {}
    <2>1. UNCHANGED <<pending, got, abandoned>>
        BY <1>4 DEF ReceiveAck
    <2>2. TypeOK' /\ BootsAreEvents'
        BY <1>1, <1>2, <2>1 DEF NetworkInv, TypeOK, BootsAreEvents
    <2>3. PendingIsSound' /\ PendingRoles' /\ GotIsPending' /\ AnswerIsAwaited'
        BY <1>1, <2>1 DEF NetworkInv, PendingIsSound, PendingRoles, GotIsPending, AnswerIsAwaited,
                          Used
    <2>4. NetIsSound'
        BY <1>1, <2>1 DEF NetworkInv, NetIsSound, Sound, Used, Owner, Far
    <2> QED
        BY <1>3, <2>2, <2>3, <2>4 DEF NetworkInv
  <1>5. CASE Matches(m) # {}
    <2> DEFINE n == m.dst
               s == CHOOSE x \in Matches(m) : \A y \in Matches(m) : x <= y
               e == pending[n][s]
    <2>1. s \in Matches(m)
      <3>1. Matches(m) \in SUBSET Nat
          BY MessengerAssumption DEF Matches
      <3> QED
          BY <1>5, <3>1, LeastExists
    <2>2. s \in Used(n) /\ e.used /\ e.dst = m.src /\ e.id = m.id /\ s \in Slots
        BY <2>1 DEF Matches, Used
    <2>3. /\ pending' = [pending EXCEPT ![n][s] = Free]
          /\ got' = got \ {<<n, e.id>>}
          /\ abandoned' = IF m.epoch = boot[n] THEN abandoned
                          ELSE abandoned \cup (Peers \cap {n, m.src})
        BY <1>5 DEF ReceiveAck
    <2> HIDE DEF s
    <2>4. /\ PendingIsSound' /\ PendingRoles' /\ NetIsSound' /\ GotIsPending' /\ BootsAreEvents'
          /\ pending' \in [Nodes -> [Slots -> Entries]]
          /\ \A x \in Nodes : \A t \in Slots :
                IF x = n /\ t = s THEN ~pending'[x][t].used ELSE pending'[x][t] = pending[x][t]
        BY <1>1, <1>2, <2>2, <2>3, FreeOneKeeps
    <2>5. \/ /\ n \in Peers => n \in abandoned'
             /\ m.src \in Peers => m.src \in abandoned'
          \/ <<n, e.id>> \in got
        BY <1>1, <1>2, <2>2, <2>3 DEF Sound
    <2>6. abandoned \subseteq abandoned' /\ abandoned' \subseteq Peers
        BY <1>2, <2>3 DEF TypeOK
    <2>9. got' \subseteq got
        BY <2>3
    <2>7. TypeOK'
        BY <1>1, <1>2, <2>4, <2>6 DEF TypeOK
    <2>8. AnswerIsAwaited'
      <3> SUFFICES ASSUME NEW p \in Peers,
                          directory[p].state = "PENDING", directory[p].requests = 1
                   PROVE  \/ \E t \in Used(Hub)' : /\ pending'[Hub][t].dst = p
                                                   /\ <<Hub, pending'[Hub][t].id>> \notin got'
                          \/ \E t \in Used(p)' : <<p, pending'[p][t].id>> \notin got'
                          \/ p \in abandoned'
          BY <1>1 DEF AnswerIsAwaited
      <3>1. CASE p \in abandoned
          BY <2>6, <3>1
      <3>2. CASE \E t \in Used(Hub) : /\ pending[Hub][t].dst = p
                                      /\ <<Hub, pending[Hub][t].id>> \notin got
        <4>1. PICK t \in Used(Hub) : /\ pending[Hub][t].dst = p
                                     /\ <<Hub, pending[Hub][t].id>> \notin got
            BY <3>2
        <4>2. CASE n = Hub /\ t = s
            BY <2>2, <2>5, <4>1, <4>2
        <4>3. CASE ~(n = Hub /\ t = s)
          <5>1. t \in Used(Hub)' /\ pending'[Hub][t] = pending[Hub][t]
              BY <2>4, <4>3, FreeIsEntry DEF Used
          <5> QED
              BY <2>9, <4>1, <5>1
        <4> QED
            BY <4>2, <4>3
      <3>3. CASE \E t \in Used(p) : <<p, pending[p][t].id>> \notin got
        <4>1. PICK t \in Used(p) : <<p, pending[p][t].id>> \notin got
            BY <3>3
        <4>2. CASE n = p /\ t = s
            BY <2>5, <4>1, <4>2
        <4>3. CASE ~(n = p /\ t = s)
          <5>1. t \in Used(p)' /\ pending'[p][t] = pending[p][t]
              BY <2>4, <4>3, FreeIsEntry DEF Used
          <5> QED
              BY <2>9, <4>1, <5>1
        <4> QED
            BY <4>2, <4>3
      <3> QED
          BY <3>1, <3>2, <3>3 DEF NetworkInv, AnswerIsAwaited
    <2> QED
        BY <1>3, <2>4, <2>7, <2>8 DEF NetworkInv
  <1> QED
      BY <1>4, <1>5

-----------------------------------------------------------------------------
(* Presence.                                                               *)

LEMMA ChangeKeeps ==
    ASSUME NetworkInv, Change
    PROVE  events' = events + 1 /\ events' \in 0 .. MaxEvents /\ events \in Nat
  BY MessengerAssumption DEF NetworkInv, BootsAreEvents, Change

LEMMA EntryNames == Absent \in DirectoryEntries /\ Fresh \in DirectoryEntries
  BY DEF Absent, Fresh, DirectoryEntries

LEMMA NodeUpKeeps ==
    ASSUME NetworkInv, NEW n \in Nodes, NEW d \in Nodes, n # d, Hub \in {n, d}, NodeUp(n, d)
    PROVE  NetworkInv'
  <1>1. /\ d \notin knows[n] /\ knows' = [knows EXCEPT ![n] = @ \cup {d}]
        /\ directory' = IF n = Hub THEN [directory EXCEPT ![d] = Fresh] ELSE directory
        /\ UNCHANGED <<pending, lastId, boot, net, listed, got, abandoned>>
      BY DEF NodeUp
  <1>2. TypeOK /\ (n = Hub => d \in Peers)
      BY DEF NetworkInv, Nodes
  <1>3. knows' \in [Nodes -> SUBSET Nodes] /\ \A x \in Nodes : knows[x] \subseteq knows'[x]
      BY <1>1, <1>2 DEF TypeOK
  <1>4. TypeOK'
      BY <1>1, <1>2, <1>3, EntryNames DEF TypeOK
  <1>5. BootsAreEvents'
    <2>1. events' = events + 1 /\ events' \in 0 .. MaxEvents /\ events \in Nat
        BY ChangeKeeps DEF NodeUp
    <2>2. \A x \in Nodes : boot[x] \in Nat
        BY <1>2, MessengerAssumption DEF TypeOK, Boots
    <2> QED
        BY <1>1, <2>1, <2>2 DEF NetworkInv, BootsAreEvents
  <1>6. PendingIsSound'
      BY <1>1, <1>3 DEF NetworkInv, PendingIsSound, Used
  <1>7. PendingRoles' /\ GotIsPending'
      BY <1>1 DEF NetworkInv, PendingRoles, GotIsPending, Used
  <1>8. NetIsSound'
      BY <1>1 DEF NetworkInv, NetIsSound, Sound, Used, Owner, Far
  <1>9. AnswerIsAwaited'
    <2>1. \A p \in Peers : directory'[p] = directory[p] \/ directory'[p].requests = 0
        BY <1>1, <1>2 DEF TypeOK, Fresh
    <2> QED
        BY <1>1, <2>1 DEF NetworkInv, AnswerIsAwaited, Used
  <1>10. DirectoryIsTold'
    <2>1. CASE n # Hub
        BY <1>1, <1>2, <2>1, FreeIsEntry DEF NetworkInv, DirectoryIsTold, TypeOK
    <2>2. CASE n = Hub
      <3>1. directory[d].state = "ABSENT" /\ listed[d] = 0
          BY <1>1, <1>2, <2>2 DEF NetworkInv, DirectoryIsTold
      <3>2. ASSUME NEW p \in Peers
            PROVE  /\ directory'[p].state # "ABSENT" <=> p \in knows'[Hub]
                   /\ listed'[p] = IF directory'[p].state = "KNOWN" THEN directory'[p].announce ELSE 0
        <4>1. CASE p = d
            BY <1>1, <1>2, <2>2, <3>1, <4>1 DEF TypeOK, Fresh
        <4>2. CASE p # d
          <5>1. directory'[p] = directory[p] /\ (p \in knows'[Hub] <=> p \in knows[Hub])
              BY <1>1, <1>2, <2>2, <4>2 DEF TypeOK
          <5> QED
              BY <1>1, <5>1 DEF NetworkInv, DirectoryIsTold
        <4> QED
            BY <4>1, <4>2
      <3> QED
          BY <3>2 DEF DirectoryIsTold
    <2> QED
        BY <2>1, <2>2
  <1> QED
      BY <1>4, <1>5, <1>6, <1>7, <1>8, <1>9, <1>10 DEF NetworkInv

(* A node leaves the transport of another, for good or for a moment.       *)
LEMMA ForgetsKeeps ==
    ASSUME NetworkInv, NEW n \in Nodes, NEW d \in Nodes, n # d, Hub \in {n, d},
           Change, Forgets(n, d),
           knows' \in [Nodes -> SUBSET Nodes],
           \A x \in Nodes : \A y \in knows[x] : (x = n /\ y = d) \/ y \in knows'[x],
           NEW new \in {Absent, Fresh},
           n = Hub => (d \in knows'[Hub] <=> new.state # "ABSENT"),
           \A p \in Peers : p # d \/ n # Hub => (p \in knows'[Hub] <=> p \in knows[Hub]),
           directory' = IF n = Hub THEN [directory EXCEPT ![d] = new] ELSE directory
    PROVE  NetworkInv'
  <1>1. TypeOK /\ (n = Hub => d \in Peers) /\ (n # Hub => n \in Peers /\ d = Hub)
      BY DEF NetworkInv, Nodes
  <1>2. /\ pending' = [pending EXCEPT ![n] = Cleared(n, d)]
        /\ listed' = IF n = Hub THEN [listed EXCEPT ![d] = 0] ELSE listed
        /\ abandoned' = abandoned \cup Abandons(n, ClearedBodies(n, d))
        /\ got' = {g \in got : g[1] = n =>
                       \E s \in Slots : pending'[n][s].used /\ pending'[n][s].id = g[2]}
        /\ UNCHANGED <<lastId, boot, net>>
      BY DEF Forgets
  <1>3. \A x \in Nodes : \A t \in Slots :
            IF x = n /\ pending[x][t].used /\ pending[x][t].dst = d
            THEN ~pending'[x][t].used /\ pending'[x][t] = Free
            ELSE pending'[x][t] = pending[x][t]
      BY <1>1, <1>2, FreeIsEntry DEF TypeOK, Cleared
  <1>4. pending' \in [Nodes -> [Slots -> Entries]]
    <2>1. Cleared(n, d) \in [Slots -> Entries]
        BY <1>1, FreeIsEntry DEF TypeOK, Cleared
    <2> QED
        BY <1>1, <1>2, <2>1 DEF TypeOK
  <1>5. got' \subseteq got
      BY <1>2
  <1>6. ASSUME NEW x \in Nodes, NEW t \in Slots, pending'[x][t].used
        PROVE  /\ pending[x][t].used /\ pending'[x][t] = pending[x][t]
               /\ pending[x][t].dst \in knows'[x] /\ lastId'[x] = lastId[x]
               /\ <<x, pending[x][t].id>> \in got => <<x, pending[x][t].id>> \in got'
    <2>1. pending[x][t].used /\ pending'[x][t] = pending[x][t] /\ ~(x = n /\ pending[x][t].dst = d)
        BY <1>3, <1>6
    <2>2. t \in Used(x)
        BY <2>1 DEF Used
    <2>3. pending[x][t].dst \in knows'[x]
        BY <2>1, <2>2 DEF NetworkInv, PendingIsSound
    <2>4. <<x, pending[x][t].id>> \in got => <<x, pending[x][t].id>> \in got'
        BY <1>2, <1>6, <2>1
    <2> QED
        BY <1>2, <2>1, <2>3, <2>4
  <1>7. ASSUME NEW g \in got'
        PROVE  \E x \in Nodes : \E t \in Slots : pending'[x][t].used /\ g = <<x, pending'[x][t].id>>
    <2>1. PICK x \in Nodes : \E t \in Used(x) : g = <<x, pending[x][t].id>>
        BY <1>5 DEF NetworkInv, GotIsPending
    <2>2. PICK t \in Used(x) : g = <<x, pending[x][t].id>>
        BY <2>1
    <2>3. CASE x = n
      <3>1. g[1] = n /\ g[2] = pending[x][t].id
          BY <2>2, <2>3
      <3>2. PICK s \in Slots : pending'[n][s].used /\ pending'[n][s].id = g[2]
          BY <1>2, <3>1
      <3>3. g = <<n, pending'[n][s].id>>
          BY <2>2, <2>3, <3>1, <3>2
      <3> QED
          BY <3>2, <3>3
    <2>4. CASE x # n
      <3>1. pending'[x][t] = pending[x][t] /\ pending[x][t].used /\ t \in Slots
          BY <1>3, <2>4 DEF Used
      <3> QED
          BY <2>2, <3>1
    <2> QED
        BY <2>3, <2>4
  <1>8. lastId' \in [Nodes -> Nat] /\ boot' \in [Nodes -> Nat] /\ net' \subseteq net
      BY <1>1, <1>2, MessengerAssumption DEF TypeOK, Boots
  <1>9. PendingIsSound' /\ PendingRoles' /\ NetIsSound' /\ GotIsPending'
      BY <1>2, <1>6, <1>7, <1>8, ShrinkKeeps
  <1>10. BootsAreEvents'
    <2>1. events' = events + 1 /\ events' \in 0 .. MaxEvents /\ events \in Nat
        BY ChangeKeeps
    <2>2. \A x \in Nodes : boot[x] \in Nat
        BY <1>1, MessengerAssumption DEF TypeOK, Boots
    <2> QED
        BY <1>2, <2>1, <2>2 DEF NetworkInv, BootsAreEvents
  <1>11. abandoned' \subseteq Peers /\ abandoned \subseteq abandoned'
      BY <1>1, <1>2 DEF TypeOK, Abandons
  <1>12. new \in DirectoryEntries /\ new.requests = 0 /\ new.state # "KNOWN"
      BY EntryNames DEF Absent, Fresh
  <1>13. directory' \in [Peers -> DirectoryEntries] /\ listed' \in [Peers -> Boots \cup {0}]
    <2>1. CASE n # Hub
        BY <1>1, <1>2, <2>1 DEF TypeOK
    <2>2. CASE n = Hub
        BY <1>1, <1>2, <1>12, <2>2 DEF TypeOK
    <2> QED
        BY <2>1, <2>2
  <1>14. TypeOK'
      BY <1>1, <1>2, <1>4, <1>11, <1>13 DEF TypeOK
  <1>15. \A p \in Peers : IF n = Hub /\ p = d THEN directory'[p] = new /\ listed'[p] = 0
                          ELSE directory'[p] = directory[p] /\ listed'[p] = listed[p]
      BY <1>1, <1>2 DEF TypeOK
  <1>16. DirectoryIsTold'
    <2>1. ASSUME NEW p \in Peers
          PROVE  /\ directory'[p].state # "ABSENT" <=> p \in knows'[Hub]
                 /\ listed'[p] = IF directory'[p].state = "KNOWN" THEN directory'[p].announce ELSE 0
      <3>1. CASE n = Hub /\ p = d
          BY <1>12, <1>15, <3>1 DEF Absent, Fresh
      <3>2. CASE ~(n = Hub /\ p = d)
          BY <1>15, <3>2 DEF NetworkInv, DirectoryIsTold
      <3> QED
          BY <3>1, <3>2
    <2> QED
        BY <2>1 DEF DirectoryIsTold
  <1>17. AnswerIsAwaited'
    <2> SUFFICES ASSUME NEW p \in Peers,
                        directory'[p].state = "PENDING", directory'[p].requests = 1
                 PROVE  \/ \E t \in Used(Hub)' : /\ pending'[Hub][t].dst = p
                                                 /\ <<Hub, pending'[Hub][t].id>> \notin got'
                        \/ \E t \in Used(p)' : <<p, pending'[p][t].id>> \notin got'
                        \/ p \in abandoned'
        BY DEF AnswerIsAwaited
    <2>1. ~(n = Hub /\ p = d) /\ directory'[p] = directory[p]
        BY <1>12, <1>15
    <2>2. CASE p \in abandoned
        BY <1>11, <2>2
    <2>3. CASE \E t \in Used(Hub) : /\ pending[Hub][t].dst = p
                                    /\ <<Hub, pending[Hub][t].id>> \notin got
      <3>1. PICK t \in Used(Hub) : /\ pending[Hub][t].dst = p
                                   /\ <<Hub, pending[Hub][t].id>> \notin got
          BY <2>3
      <3>2. t \in Used(Hub)' /\ pending'[Hub][t] = pending[Hub][t]
          BY <1>3, <2>1, <3>1, FreeIsEntry DEF Used
      <3> QED
          BY <1>5, <3>1, <3>2
    <2>4. CASE \E t \in Used(p) : <<p, pending[p][t].id>> \notin got
      <3>1. PICK t \in Used(p) : <<p, pending[p][t].id>> \notin got
          BY <2>4
      <3>2. CASE n = p
        <4>1. d = Hub /\ n # Hub
            BY <1>1, <2>1, <3>2, MessengerAssumption
        <4>2. pending[n][t].dst = d /\ pending[n][t].body = "announce"
            BY <3>1, <3>2, <4>1 DEF NetworkInv, PendingRoles
        <4>3. "announce" \in ClearedBodies(n, d)
            BY <3>2, <4>2 DEF ClearedBodies, Used
        <4> QED
            BY <1>2, <3>2, <4>1, <4>3 DEF Abandons
      <3>3. CASE n # p
        <4>1. t \in Used(p)' /\ pending'[p][t] = pending[p][t]
            BY <1>3, <3>3, FreeIsEntry DEF Used
        <4> QED
            BY <1>5, <3>1, <4>1
      <3> QED
          BY <3>2, <3>3
    <2> QED
        BY <2>1, <2>2, <2>3, <2>4 DEF NetworkInv, AnswerIsAwaited
  <1> QED
      BY <1>9, <1>10, <1>14, <1>16, <1>17 DEF NetworkInv

LEMMA NodeDownKeeps ==
    ASSUME NetworkInv, NEW n \in Nodes, NEW d \in Nodes, n # d, Hub \in {n, d}, NodeDown(n, d)
    PROVE  NetworkInv'
  <1>1. /\ Change /\ Forgets(n, d) /\ knows' = [knows EXCEPT ![n] = @ \ {d}]
        /\ directory' = IF n = Hub THEN [directory EXCEPT ![d] = Absent] ELSE directory
      BY DEF NodeDown
  <1>2. knows \in [Nodes -> SUBSET Nodes]
      BY DEF NetworkInv, TypeOK
  <1>3. knows' \in [Nodes -> SUBSET Nodes]
      BY <1>1, <1>2
  <1>4. \A x \in Nodes : IF x = n THEN knows'[x] = knows[x] \ {d} ELSE knows'[x] = knows[x]
      BY <1>1, <1>2
  <1>5. Absent.state = "ABSENT"
      BY DEF Absent
  <1>6. \A x \in Nodes : \A y \in knows[x] : (x = n /\ y = d) \/ y \in knows'[x]
      BY <1>4
  <1>7. \A p \in Peers : p # d \/ n # Hub => (p \in knows'[Hub] <=> p \in knows[Hub])
      BY <1>4, FreeIsEntry
  <1>8. n = Hub => (d \in knows'[Hub] <=> Absent.state # "ABSENT")
      BY <1>4, <1>5
  <1>9. Absent \in {Absent, Fresh}
      OBVIOUS
  <1> QED
      BY <1>1, <1>3, <1>6, <1>7, <1>8, <1>9, ForgetsKeeps

LEMMA NodeRestartedKeeps ==
    ASSUME NetworkInv, NEW n \in Nodes, NEW d \in Nodes, n # d, Hub \in {n, d},
           NodeRestarted(n, d)
    PROVE  NetworkInv'
  <1>1. /\ Change /\ Forgets(n, d) /\ knows' = knows /\ d \in knows[n]
        /\ directory' = IF n = Hub THEN [directory EXCEPT ![d] = Fresh] ELSE directory
      BY DEF NodeRestarted
  <1>2. knows \in [Nodes -> SUBSET Nodes]
      BY DEF NetworkInv, TypeOK
  <1>3. Fresh.state # "ABSENT"
      BY DEF Fresh
  <1> QED
      BY <1>1, <1>2, <1>3, ForgetsKeeps

LEMMA RebootKeeps ==
    ASSUME NetworkInv, NEW n \in Nodes, Reboot(n)
    PROVE  NetworkInv'
  <1>1. /\ Change
        /\ boot' = [boot EXCEPT ![n] = @ + 1] /\ knows' = [knows EXCEPT ![n] = {}]
        /\ pending' = [pending EXCEPT ![n] = [s \in Slots |-> Free]]
        /\ lastId' = [lastId EXCEPT ![n] = 0]
        /\ got' = {g \in got : g[1] # n} /\ UNCHANGED net
      BY DEF Reboot
  <1>2. TypeOK
      BY DEF NetworkInv
  <1>3. events' = events + 1 /\ events' \in 0 .. MaxEvents /\ events \in Nat
      BY <1>1, ChangeKeeps
  <1>4. \A x \in Nodes : boot[x] \in Nat /\ lastId[x] \in Nat /\ boot[x] >= 1
      BY <1>2, MessengerAssumption DEF TypeOK, Boots
  <1>5. \A x \in Nodes : IF x = n THEN boot'[x] = boot[x] + 1 /\ lastId'[x] = 0 /\ knows'[x] = {}
                         ELSE boot'[x] = boot[x] /\ lastId'[x] = lastId[x] /\ knows'[x] = knows[x]
      BY <1>1, <1>2 DEF TypeOK
  <1>6. \A x \in Nodes : \A t \in Slots : IF x = n THEN ~pending'[x][t].used
                                          ELSE pending'[x][t] = pending[x][t]
      BY <1>1, <1>2, FreeIsEntry DEF TypeOK
  <1>7. BootsAreEvents'
      BY <1>3, <1>4, <1>5 DEF NetworkInv, BootsAreEvents
  <1>8. /\ knows' \in [Nodes -> SUBSET Nodes] /\ lastId' \in [Nodes -> 0 .. MaxId]
        /\ pending' \in [Nodes -> [Slots -> Entries]]
      BY <1>1, <1>2, FreeIsEntry, MessengerAssumption DEF TypeOK
  <1>9. boot' \in [Nodes -> Boots]
    <2>1. \A x \in Nodes : boot'[x] \in Boots
        BY <1>3, <1>4, <1>5, <1>7, MessengerAssumption DEF BootsAreEvents, Boots
    <2> QED
        BY <1>1, <1>2, <2>1 DEF TypeOK
  <1>10. ASSUME NEW x \in Nodes, NEW t \in Slots, pending'[x][t].used
         PROVE  /\ pending[x][t].used /\ pending'[x][t] = pending[x][t]
                /\ pending[x][t].dst \in knows'[x] /\ lastId'[x] = lastId[x]
                /\ <<x, pending[x][t].id>> \in got => <<x, pending[x][t].id>> \in got'
    <2>1. x # n /\ pending[x][t].used /\ pending'[x][t] = pending[x][t]
        BY <1>6, <1>10
    <2>2. t \in Used(x)
        BY <2>1 DEF Used
    <2>3. pending[x][t].dst \in knows'[x] /\ lastId'[x] = lastId[x]
        BY <1>5, <2>1, <2>2 DEF NetworkInv, PendingIsSound
    <2> QED
        BY <1>1, <2>1, <2>3
  <1>11. ASSUME NEW g \in got'
         PROVE  \E x \in Nodes : \E t \in Slots : pending'[x][t].used /\ g = <<x, pending'[x][t].id>>
    <2>1. g \in got /\ g[1] # n
        BY <1>1
    <2>2. PICK x \in Nodes : \E t \in Used(x) : g = <<x, pending[x][t].id>>
        BY <2>1 DEF NetworkInv, GotIsPending
    <2>3. PICK t \in Used(x) : g = <<x, pending[x][t].id>>
        BY <2>2
    <2>4. x # n /\ t \in Slots /\ pending[x][t].used
        BY <2>1, <2>3 DEF Used
    <2> QED
        BY <1>6, <2>3, <2>4
  <1>12. PendingIsSound' /\ PendingRoles' /\ NetIsSound' /\ GotIsPending'
    <2>1. lastId' \in [Nodes -> Nat] /\ boot' \in [Nodes -> Nat]
        BY <1>8, <1>9, MessengerAssumption DEF Boots
    <2>2. net' \subseteq net
        BY <1>1
    <2>3. \A x \in Nodes : \/ boot'[x] = boot[x] + 1
                           \/ boot'[x] = boot[x] /\ lastId'[x] = lastId[x]
        BY <1>5
    <2> QED
        BY <1>10, <1>11, <2>1, <2>2, <2>3, ShrinkKeeps
  <1>13. CASE n = Hub
    <2>1. /\ directory' = [p \in Peers |-> Absent] /\ listed' = [p \in Peers |-> 0]
          /\ UNCHANGED abandoned
        BY <1>13 DEF Reboot
    <2>2. TypeOK'
        BY <1>2, <1>8, <1>9, <2>1, EntryNames DEF TypeOK
    <2>3. AnswerIsAwaited' /\ DirectoryIsTold'
        BY <1>5, <1>13, <2>1 DEF AnswerIsAwaited, DirectoryIsTold, Absent
    <2> QED
        BY <1>7, <1>12, <2>2, <2>3 DEF NetworkInv
  <1>14. CASE n # Hub
    <2>1. abandoned' = abandoned \cup {n} /\ UNCHANGED <<directory, listed>>
        BY <1>14 DEF Reboot
    <2>2. TypeOK'
        BY <1>2, <1>8, <1>9, <1>14, <2>1 DEF TypeOK, Nodes
    <2>3. DirectoryIsTold'
        BY <1>5, <1>14, <2>1, FreeIsEntry DEF NetworkInv, DirectoryIsTold
    <2>4. got' \subseteq got
        BY <1>1
    <2>5. \A x \in Nodes \ {n} : Used(x)' = Used(x) /\ \A t \in Slots : pending'[x][t] = pending[x][t]
        BY <1>6 DEF Used
    <2>6. ASSUME NEW p \in Peers, directory[p].state = "PENDING", directory[p].requests = 1
          PROVE  \/ \E t \in Used(Hub)' : /\ pending'[Hub][t].dst = p
                                          /\ <<Hub, pending'[Hub][t].id>> \notin got'
                 \/ \E t \in Used(p)' : <<p, pending'[p][t].id>> \notin got'
                 \/ p \in abandoned'
      <3>1. CASE p = n \/ p \in abandoned
          BY <2>1, <3>1
      <3>2. CASE p # n /\ p \notin abandoned
        <4>1. \/ \E t \in Used(Hub) : /\ pending[Hub][t].dst = p
                                      /\ <<Hub, pending[Hub][t].id>> \notin got
              \/ \E t \in Used(p) : <<p, pending[p][t].id>> \notin got
            BY <2>6, <3>2 DEF NetworkInv, AnswerIsAwaited
        <4>2. \A x \in {Hub, p} : \A t \in Used(x) : t \in Used(x)' /\ pending'[x][t] = pending[x][t]
            BY <1>14, <2>5, <3>2, FreeIsEntry DEF Used
        <4> QED
            BY <2>4, <4>1, <4>2
      <3> QED
          BY <3>1, <3>2
    <2>7. AnswerIsAwaited'
        BY <2>1, <2>6 DEF AnswerIsAwaited
    <2> QED
        BY <1>7, <1>12, <2>2, <2>3, <2>7 DEF NetworkInv
  <1> QED
      BY <1>13, <1>14

-----------------------------------------------------------------------------
(* Requests.                                                               *)

(* What a pending request sends is sound.                                  *)
LEMMA SentIsSound ==
    ASSUME TypeOK', PendingIsSound', PendingRoles', boot' = boot,
           NEW n \in Nodes, NEW s \in Used(n)', NEW e,
           e.dst = pending'[n][s].dst, e.id = pending'[n][s].id, e.body = pending'[n][s].body,
           NEW m, m = Message(n, e)
    PROVE  Sound(m)'
  <1>1. /\ m.src = n /\ m.dst = e.dst /\ m.body = e.body /\ m.id = e.id /\ m.epoch = boot[n]
        /\ m = [src |-> n, dst |-> e.dst, body |-> e.body, id |-> e.id, epoch |-> boot[n],
                announce |-> m.announce]
        /\ m.announce \in {boot[n], 0}
      BY DEF Message
  <1>2. boot[n] \in Boots /\ boot'[n] = boot[n] /\ lastId'[n] \in 0 .. MaxId
        /\ pending'[n][s] \in Entries /\ s \in Slots
      BY DEF TypeOK, Used
  <1>3. e.id \in 1 .. lastId'[n] /\ \A t \in Used(n)' : pending'[n][t].id = e.id => t = s
      BY DEF PendingIsSound
  <1>4. IF n = Hub THEN e.dst \in Peers /\ e.body = "identity"
                   ELSE e.dst = Hub /\ e.body = "announce"
      BY DEF PendingRoles
  <1>5. e.id \in 1 .. MaxId
      BY <1>2, <1>3, MessengerAssumption
  <1>6. m \in Messages
      BY <1>1, <1>2, <1>4, <1>5, FreeIsEntry DEF Messages, Entries
  <1>7. Owner(m) = n /\ Far(m) = e.dst /\ m.body # "ack"
      BY <1>1, <1>4 DEF Owner, Far
  <1>8. m.epoch <= boot'[n] /\ m.id <= lastId'[n]
      BY <1>1, <1>2, <1>3, MessengerAssumption DEF Boots
  <1>9. \A t \in Used(n)' : pending'[n][t].id = m.id => pending'[n][t].dst = e.dst
      BY <1>1, <1>3
  <1> QED
      BY <1>1, <1>4, <1>6, <1>7, <1>8, <1>9 DEF Sound, Owner, Far

LEMMA ResendKeeps ==
    ASSUME NetworkInv, NEW n \in Nodes, NEW s \in Slots, Resend(n, s)
    PROVE  NetworkInv'
  <1>1. /\ pending[n][s].used /\ pending[n][s].sends < Retries
        /\ pending' = [pending EXCEPT ![n][s].sends = @ + 1]
        /\ net' \in Put(net, Message(n, pending[n][s]))
        /\ UNCHANGED <<knows, boot, events, lastId, directory, listed, got, abandoned>>
      BY DEF Resend, link
  <1>2. TypeOK
      BY DEF NetworkInv
  <1>3. \A x \in Nodes : \A t \in Slots : pending[x][t] \in Entries
      BY <1>2 DEF TypeOK
  <1>4. \A x \in Nodes : \A t \in Slots :
            pending'[x][t] = IF x = n /\ t = s THEN [pending[n][s] EXCEPT !.sends = @ + 1]
                             ELSE pending[x][t]
      BY <1>1, <1>2 DEF TypeOK
  <1>5. \A x \in Nodes : \A t \in Slots :
            /\ pending'[x][t].used = pending[x][t].used /\ pending'[x][t].dst = pending[x][t].dst
            /\ pending'[x][t].id = pending[x][t].id /\ pending'[x][t].body = pending[x][t].body
      BY <1>3, <1>4 DEF Entries
  <1>6. pending' \in [Nodes -> [Slots -> Entries]]
    <2>1. [pending[n][s] EXCEPT !.sends = @ + 1] \in Entries
        BY <1>1, <1>3, MessengerAssumption DEF Entries
    <2> DEFINE e == [pending[n][s] EXCEPT !.sends = @ + 1]
    <2> HIDE DEF e
    <2>2. pending' = [pending EXCEPT ![n][s] = e]
        BY <1>1 DEF e
    <2> QED
        BY <1>2, <2>1, <2>2 DEF TypeOK, e
  <1>7. \A x \in Nodes : Used(x)' = Used(x)
      BY <1>5 DEF Used
  <1>8. TypeOK' /\ BootsAreEvents'
      BY <1>1, <1>2, <1>6 DEF NetworkInv, TypeOK, BootsAreEvents
  <1>9. PendingIsSound'
      BY <1>1, <1>5, <1>7 DEF NetworkInv, PendingIsSound, Used
  <1>10. PendingRoles' /\ GotIsPending'
      BY <1>1, <1>5, <1>7 DEF NetworkInv, PendingRoles, GotIsPending, Used
  <1>11. AnswerIsAwaited' /\ DirectoryIsTold'
    <2>1. \A x \in Nodes : \A t \in Used(x) : /\ pending'[x][t].dst = pending[x][t].dst
                                            /\ pending'[x][t].id = pending[x][t].id
        BY <1>5 DEF Used
    <2>2. UNCHANGED <<directory, listed, got, abandoned, knows>>
        BY <1>1
    <2>3. AnswerIsAwaited'
        BY <1>7, <2>1, <2>2, FreeIsEntry DEF NetworkInv, AnswerIsAwaited
    <2> QED
        BY <2>2, <2>3 DEF NetworkInv, DirectoryIsTold
  <1>12. NetIsSound'
    <2>1. ASSUME NEW m \in net' PROVE Sound(m)'
      <3>1. CASE m \in net
        <4>1. Sound(m) /\ lastId' \in [Nodes -> Nat] /\ boot' \in [Nodes -> Nat]
            BY <1>1, <1>2, <3>1, MessengerAssumption DEF NetworkInv, NetIsSound, TypeOK, Boots
        <4>2. \A x \in Nodes : boot'[x] = boot[x] /\ lastId'[x] >= lastId[x]
            BY <1>1, <4>1
        <4> QED
            BY <1>1, <1>2, <1>5, <4>1, <4>2, SoundKept
      <3>2. CASE m \notin net
        <4>1. m = Message(n, pending[n][s])
            BY <1>1, <3>2, PutFacts
        <4>2. s \in Used(n)'
            BY <1>1, <1>5 DEF Used
        <4> QED
            BY <1>1, <1>5, <1>8, <1>9, <1>10, <4>1, <4>2, SentIsSound
      <3> QED
          BY <3>1, <3>2
    <2> QED
        BY <2>1 DEF NetIsSound
  <1> QED
      BY <1>8, <1>9, <1>10, <1>11, <1>12 DEF NetworkInv

(* A new request bears a number that nothing that arrived bears.           *)
LEMMA RequestFacts ==
    ASSUME NetworkInv, NEW n \in Nodes, NEW d \in Nodes, NEW body, NEW rest,
           Request(n, d, body, rest), UNCHANGED <<knows, boot, events>>,
           IF n = Hub THEN d \in Peers /\ body = "identity" ELSE d = Hub /\ body = "announce",
           got \subseteq got',
           \A g \in got' : \E x \in Nodes : \E t \in Used(x) : g = <<x, pending[x][t].id>>,
           directory' \in [Peers -> DirectoryEntries], listed' \in [Peers -> Boots \cup {0}],
           abandoned' \subseteq Peers
    PROVE  /\ TypeOK' /\ BootsAreEvents' /\ PendingIsSound' /\ PendingRoles' /\ GotIsPending'
           /\ \E s \in Used(n)' : pending'[n][s].dst = d /\ <<n, pending'[n][s].id>> \notin got'
           /\ \A x \in Nodes : \A t \in Used(x) : t \in Used(x)' /\ pending'[x][t] = pending[x][t]
           /\ \A x \in Nodes \ {n} : lastId'[x] = lastId[x] /\ pending'[x] = pending[x]
           /\ \A m \in net' : m \in rest \/ Sound(m)'
           /\ \A m : Sound(m) => Sound(m)'
  <1> DEFINE i == lastId[n] + 1
             s == FirstFree(n)
             e == Entry(d, i, body)
  <1>1. /\ d \in knows[n] /\ FreeSlots(n) # {} /\ lastId[n] < MaxId
        /\ pending' = [pending EXCEPT ![n][s] = e] /\ lastId' = [lastId EXCEPT ![n] = i]
        /\ net' \in Put(rest, Message(n, e))
      BY DEF Request, CanRequest, Entry
  <1>2. TypeOK /\ s \in Slots /\ ~pending[n][s].used
      BY <1>1, FirstFreeIsFree DEF NetworkInv
  <1>3. lastId[n] \in Nat /\ lastId[n] < MaxId
      BY <1>1, <1>2, MessengerAssumption DEF TypeOK
  <1>4. /\ e.used /\ e.dst = d /\ e.id = i /\ e.body = body
        /\ e \in Entries /\ i \in 1 .. MaxId /\ i > lastId[n] /\ i \in Nat
      BY <1>3, MessengerAssumption DEF Entry, Entries
  <1> HIDE DEF i, s, e
  <1>5. pending' \in [Nodes -> [Slots -> Entries]] /\ lastId' \in [Nodes -> 0 .. MaxId]
      BY <1>1, <1>2, <1>4 DEF TypeOK
  <1>6. \A x \in Nodes : \A t \in Slots :
            pending'[x][t] = IF x = n /\ t = s THEN e ELSE pending[x][t]
      BY <1>1, <1>2 DEF TypeOK
  <1>7. \A x \in Nodes : lastId'[x] = IF x = n THEN i ELSE lastId[x]
      BY <1>1, <1>2 DEF TypeOK
  <1>8. TypeOK' /\ BootsAreEvents'
      BY <1>2, <1>5 DEF NetworkInv, TypeOK, BootsAreEvents
  <1>9. ASSUME NEW x \in Nodes, NEW t \in Used(x)'
        PROVE  \/ x = n /\ t = s /\ pending'[x][t] = e
               \/ t \in Used(x) /\ pending'[x][t] = pending[x][t] /\ ~(x = n /\ t = s)
      BY <1>6 DEF Used
  <1>10. ASSUME NEW x \in Nodes, NEW t \in Used(x)
         PROVE  t \in Used(x)' /\ pending'[x][t] = pending[x][t]
                /\ pending[x][t].id \in 1 .. lastId[x]
    <2>1. ~(x = n /\ t = s)
        BY <1>2 DEF Used
    <2> QED
        BY <1>6, <2>1 DEF Used, NetworkInv, PendingIsSound
  <1>11. ASSUME NEW x \in Nodes PROVE lastId[x] \in Nat /\ lastId'[x] \in Nat /\ lastId'[x] >= lastId[x]
      BY <1>2, <1>4, <1>7, MessengerAssumption DEF TypeOK
  <1>12. PendingIsSound'
    <2>1. ASSUME NEW x \in Nodes, NEW t \in Used(x)'
          PROVE  /\ pending'[x][t].dst \in knows'[x] /\ pending'[x][t].id \in 1 .. lastId'[x]
                 /\ \A u \in Used(x)' : pending'[x][u].id = pending'[x][t].id => t = u
      <3>1. CASE x = n /\ t = s
        <4>1. pending'[x][t] = e /\ lastId'[x] = i
            BY <1>2, <1>6, <1>7, <3>1
        <4>2. ASSUME NEW u \in Used(x)', u # t PROVE pending'[x][u].id # i
          <5>1. u \in Used(x) /\ pending'[x][u] = pending[x][u]
              BY <1>9, <3>1, <4>2
          <5>2. pending[x][u].id \in 1 .. lastId[n]
              BY <1>10, <3>1, <5>1
          <5> QED
              BY <1>3, <1>4, <5>1, <5>2
        <4> QED
            BY <1>1, <1>4, <3>1, <4>1, <4>2
      <3>2. CASE ~(x = n /\ t = s)
        <4>1. t \in Used(x) /\ pending'[x][t] = pending[x][t]
            BY <1>9, <3>2
        <4>2. pending[x][t].id \in 1 .. lastId[x]
            BY <1>10, <4>1
        <4>3. ASSUME NEW u \in Used(x)', pending'[x][u].id = pending'[x][t].id PROVE t = u
          <5>1. CASE x = n /\ u = s
              BY <1>3, <1>4, <1>9, <4>1, <4>2, <4>3, <5>1
          <5>2. CASE ~(x = n /\ u = s)
            <6>1. u \in Used(x) /\ pending'[x][u] = pending[x][u]
                BY <1>9, <5>2
            <6> QED
                BY <4>1, <4>3, <6>1 DEF NetworkInv, PendingIsSound
          <5> QED
              BY <5>1, <5>2
        <4>4. pending[x][t].id \in 1 .. lastId'[x]
            BY <1>11, <4>2
        <4> QED
            BY <4>1, <4>3, <4>4 DEF NetworkInv, PendingIsSound
      <3> QED
          BY <3>1, <3>2
    <2> QED
        BY <2>1 DEF PendingIsSound
  <1>13. PendingRoles'
      BY <1>4, <1>9 DEF NetworkInv, PendingRoles
  <1>14. GotIsPending'
      BY <1>10 DEF GotIsPending
  <1>15. s \in Used(n)' /\ pending'[n][s] = e
      BY <1>2, <1>4, <1>6 DEF Used
  <1>16. <<n, i>> \notin got'
    <2>1. SUFFICES ASSUME <<n, i>> \in got' PROVE FALSE
        OBVIOUS
    <2>2. \E t \in Used(n) : i = pending[n][t].id
        BY <2>1
    <2> QED
        BY <1>3, <1>4, <1>10, <2>2
  <1>17. \A x \in Nodes \ {n} : lastId'[x] = lastId[x] /\ pending'[x] = pending[x]
      BY <1>1, <1>2 DEF TypeOK
  <1>18. ASSUME NEW m \in net', m \notin rest PROVE Sound(m)'
    <2>1. m = Message(n, e)
        BY <1>1, <1>18, PutFacts
    <2> QED
        BY <1>8, <1>12, <1>13, <1>15, <2>1, SentIsSound
  <1>19. ASSUME NEW m, Sound(m) PROVE Sound(m)'
    <2>1. lastId' \in [Nodes -> Nat] /\ boot' \in [Nodes -> Nat]
        BY <1>8, MessengerAssumption DEF TypeOK, Boots
    <2>2. ASSUME NEW x \in Nodes, NEW t \in Slots, pending'[x][t].used
          PROVE  \/ pending'[x][t].id > lastId[x]
                 \/ /\ pending[x][t].used /\ pending'[x][t].id = pending[x][t].id
                    /\ pending'[x][t].dst = pending[x][t].dst
                    /\ <<x, pending[x][t].id>> \in got => <<x, pending[x][t].id>> \in got'
        BY <1>4, <1>6, <2>2
    <2> QED
        BY <1>2, <1>11, <1>19, <2>1, <2>2, SoundKept
  <1> QED
      BY <1>4, <1>8, <1>10, <1>12, <1>13, <1>14, <1>15, <1>16, <1>17, <1>18, <1>19

LEMMA AskIdentityKeeps ==
    ASSUME NetworkInv, NEW p \in Peers, AskIdentity(p)
    PROVE  NetworkInv'
  <1>1. /\ directory[p].state = "PENDING" /\ Request(Hub, p, "identity", net)
        /\ directory' = [directory EXCEPT ![p].requests = 1] /\ abandoned' = abandoned \ {p}
        /\ UNCHANGED <<knows, boot, events, listed, got>>
      BY DEF AskIdentity, link
  <1>2. TypeOK /\ Hub \in Nodes /\ p \in Nodes
      BY FreeIsEntry DEF NetworkInv
  <1>3. /\ directory' \in [Peers -> DirectoryEntries]
        /\ \A q \in Peers : /\ directory'[q].state = directory[q].state
                            /\ directory'[q].announce = directory[q].announce
                            /\ q # p => directory'[q] = directory[q]
      BY <1>1, <1>2 DEF TypeOK, DirectoryEntries
  <1>4. listed' \in [Peers -> Boots \cup {0}] /\ abandoned' \subseteq Peers /\ got \subseteq got'
      BY <1>1, <1>2 DEF TypeOK
  <1>5. \A g \in got' : \E x \in Nodes : \E t \in Used(x) : g = <<x, pending[x][t].id>>
      BY <1>1 DEF NetworkInv, GotIsPending
  <1>6. /\ TypeOK' /\ BootsAreEvents' /\ PendingIsSound' /\ PendingRoles' /\ GotIsPending'
        /\ \E s \in Used(Hub)' : /\ pending'[Hub][s].dst = p
                                 /\ <<Hub, pending'[Hub][s].id>> \notin got'
        /\ \A x \in Nodes : \A t \in Used(x) : t \in Used(x)' /\ pending'[x][t] = pending[x][t]
        /\ \A m \in net' : m \in net \/ Sound(m)'
        /\ \A m : Sound(m) => Sound(m)'
      BY <1>1, <1>2, <1>3, <1>4, <1>5, RequestFacts
  <1>7. NetIsSound'
      BY <1>6 DEF NetworkInv, NetIsSound
  <1>8. DirectoryIsTold'
      BY <1>1, <1>3 DEF NetworkInv, DirectoryIsTold
  <1>9. AnswerIsAwaited'
    <2>1. ASSUME NEW q \in Peers, directory'[q].state = "PENDING", directory'[q].requests = 1, q # p
          PROVE  \/ \E t \in Used(Hub)' : /\ pending'[Hub][t].dst = q
                                          /\ <<Hub, pending'[Hub][t].id>> \notin got'
                 \/ \E t \in Used(q)' : <<q, pending'[q][t].id>> \notin got'
                 \/ q \in abandoned'
      <3>1. \/ \E t \in Used(Hub) : /\ pending[Hub][t].dst = q
                                    /\ <<Hub, pending[Hub][t].id>> \notin got'
            \/ \E t \in Used(q) : <<q, pending[q][t].id>> \notin got'
            \/ q \in abandoned'
          BY <1>1, <1>3, <2>1 DEF NetworkInv, AnswerIsAwaited
      <3> QED
          BY <1>2, <1>6, <3>1, FreeIsEntry
    <2> QED
        BY <1>6, <2>1 DEF AnswerIsAwaited
  <1> QED
      BY <1>6, <1>7, <1>8, <1>9 DEF NetworkInv

(* What arrives is known as arrived, and its acknowledgement is sound.     *)
LEMMA ArrivesFacts ==
    ASSUME NetworkInv, NEW m \in net, m.body # "ack", Arrives(m)
    PROVE  /\ got \subseteq got'
           /\ \A g \in got' : \E x \in Nodes : \E t \in Used(x) : g = <<x, pending[x][t].id>>
           /\ \A g \in got' \ got : g = <<m.src, m.id>> /\ m.epoch = boot[m.src]
           /\ UNCHANGED <<knows, boot, events>>
           /\ Sound(m) /\ m \in Messages /\ m.src \in Nodes /\ m.dst \in Nodes
           /\ \/ m.src = Hub /\ m.dst \in Peers /\ m.body = "identity"
              \/ m.src \in Peers /\ m.dst = Hub /\ m.body = "announce"
  <1>1. /\ got' = IF m.epoch = boot[m.src] /\ \E s \in Slots : /\ pending[m.src][s].used
                                                              /\ pending[m.src][s].id = m.id
                  THEN got \cup {<<m.src, m.id>>} ELSE got
        /\ UNCHANGED <<knows, boot, events>>
      BY DEF Arrives, link
  <1>2. Sound(m) /\ m \in Messages /\ m.src \in Nodes /\ m.dst \in Nodes
      BY DEF NetworkInv, NetIsSound, Sound, Messages
  <1>3. \/ m.src = Hub /\ m.dst \in Peers /\ m.body = "identity"
        \/ m.src \in Peers /\ m.dst = Hub /\ m.body = "announce"
      BY <1>2 DEF Sound, Messages, Owner, Far, Nodes
  <1>4. ASSUME NEW g \in got'
        PROVE  /\ \E x \in Nodes : \E t \in Used(x) : g = <<x, pending[x][t].id>>
               /\ g \notin got => g = <<m.src, m.id>> /\ m.epoch = boot[m.src]
    <2>1. CASE g \in got
        BY <2>1 DEF NetworkInv, GotIsPending
    <2>2. CASE g \notin got
      <3>1. g = <<m.src, m.id>> /\ m.epoch = boot[m.src]
          BY <1>1, <2>2
      <3>2. PICK s \in Slots : pending[m.src][s].used /\ pending[m.src][s].id = m.id
          BY <1>1, <2>2
      <3>3. s \in Used(m.src)
          BY <3>2 DEF Used
      <3> QED
          BY <1>2, <3>1, <3>2, <3>3
    <2> QED
        BY <2>1, <2>2
  <1> QED
      BY <1>1, <1>2, <1>3, <1>4

LEMMA AckIsSound ==
    ASSUME NetworkInv, NEW m \in net, m.body # "ack", Arrives(m),
           lastId'[m.src] = lastId[m.src], pending'[m.src] = pending[m.src],
           NEW a, a = AckOf(m)
    PROVE  Sound(a)'
  <1>1. /\ Sound(m) /\ m \in Messages /\ boot' = boot
        /\ \/ m.src = Hub /\ m.dst \in Peers
           \/ m.src \in Peers /\ m.dst = Hub
      BY ArrivesFacts
  <1>2. /\ a.src = m.dst /\ a.dst = m.src /\ a.body = "ack" /\ a.id = m.id /\ a.epoch = m.epoch
        /\ a \in Messages
      BY <1>1 DEF AckOf, Messages
  <1>3. Owner(m) = m.src /\ Far(m) = m.dst /\ Owner(a) = m.src /\ Far(a) = m.dst
      BY <1>2 DEF Owner, Far
  <1>4. m.epoch = boot[m.src] => /\ m.id <= lastId[m.src]
                                 /\ \A s \in Used(m.src) : pending[m.src][s].id = m.id =>
                                       pending[m.src][s].dst = m.dst
      BY <1>1, <1>3 DEF Sound
  <1>5. ASSUME NEW s \in Used(m.src)', m.epoch = boot[m.src], pending'[m.src][s].id = m.id
        PROVE  pending'[m.src][s].dst = m.dst /\ <<m.src, m.id>> \in got'
    <2>1. s \in Used(m.src) /\ s \in Slots /\ pending[m.src][s].used
          /\ pending[m.src][s].id = m.id
        BY <1>5 DEF Used
    <2>2. <<m.src, m.id>> \in got'
        BY <1>5, <2>1 DEF Arrives
    <2> QED
        BY <1>4, <1>5, <2>1, <2>2
  <1>6. m.epoch <= boot[m.src]
      BY <1>1, <1>3 DEF Sound
  <1>7. IF m.src = Hub THEN m.dst \in Peers ELSE m.dst = Hub
      BY <1>1, MessengerAssumption
  <1> QED
      BY <1>1, <1>2, <1>3, <1>4, <1>5, <1>6, <1>7 DEF Sound, Owner, Far

(* Nothing new is pending: only the acknowledgement enters the network.     *)
LEMMA DeliveredIsSound ==
    ASSUME NetworkInv, NEW m \in net, m.body # "ack", Arrives(m),
           UNCHANGED <<pending, lastId>>, \A a \in net' : a \in net \/ a = AckOf(m)
    PROVE  NetIsSound'
  <1>1. TypeOK /\ got \subseteq got' /\ boot' = boot
      BY ArrivesFacts DEF NetworkInv
  <1>2. /\ lastId' \in [Nodes -> Nat] /\ boot' \in [Nodes -> Nat]
        /\ \A x \in Nodes : boot'[x] = boot[x] /\ lastId'[x] >= lastId[x]
      BY <1>1, MessengerAssumption DEF TypeOK, Boots
  <1>3. ASSUME NEW a \in net' PROVE Sound(a)'
    <2>1. CASE a \in net
      <3>1. Sound(a)
          BY <2>1 DEF NetworkInv, NetIsSound
      <3> QED
          BY <1>1, <1>2, <3>1, SoundKept
    <2>2. CASE a = AckOf(m)
        BY <2>2, AckIsSound
    <2> QED
        BY <1>3, <2>1, <2>2
  <1> QED
      BY <1>3 DEF NetIsSound

(* A question that is delivered is answered, or its answer is given up on. *)
LEMMA AnswerKeeps ==
    ASSUME NetworkInv, NEW m \in net, m.body = "identity", Arrives(m),
           \A x \in Nodes : \A t \in Used(x) : t \in Used(x)' /\ pending'[x][t] = pending[x][t],
           \/ m.dst \in abandoned'
           \/ \E s \in Used(m.dst)' : <<m.dst, pending'[m.dst][s].id>> \notin got',
           abandoned \subseteq abandoned', directory' = directory
    PROVE  AnswerIsAwaited'
  <1>1. /\ \A g \in got' \ got : g = <<m.src, m.id>> /\ m.epoch = boot[m.src]
        /\ Sound(m) /\ m.src = Hub /\ m.dst \in Peers
      BY ArrivesFacts
  <1>2. SUFFICES ASSUME NEW p \in Peers,
                        directory[p].state = "PENDING", directory[p].requests = 1, p # m.dst
                 PROVE  \/ \E t \in Used(Hub)' : /\ pending'[Hub][t].dst = p
                                                 /\ <<Hub, pending'[Hub][t].id>> \notin got'
                        \/ \E t \in Used(p)' : <<p, pending'[p][t].id>> \notin got'
                        \/ p \in abandoned'
      BY DEF AnswerIsAwaited
  <1>3. CASE p \in abandoned
      BY <1>3
  <1>4. CASE \E t \in Used(Hub) : /\ pending[Hub][t].dst = p
                                  /\ <<Hub, pending[Hub][t].id>> \notin got
    <2>1. PICK t \in Used(Hub) : /\ pending[Hub][t].dst = p
                                 /\ <<Hub, pending[Hub][t].id>> \notin got
        BY <1>4
    <2>2. <<Hub, pending[Hub][t].id>> \notin got'
      <3>1. SUFFICES ASSUME <<Hub, pending[Hub][t].id>> \in got' PROVE FALSE
          OBVIOUS
      <3>2. pending[Hub][t].id = m.id /\ m.epoch = boot[Hub]
          BY <1>1, <2>1, <3>1
      <3>3. pending[Hub][t].dst = m.dst
          BY <1>1, <3>2 DEF Sound, Owner, Far
      <3> QED
          BY <1>2, <2>1, <3>3
    <2> QED
        BY <2>1, <2>2, FreeIsEntry
  <1>5. CASE \E t \in Used(p) : <<p, pending[p][t].id>> \notin got
    <2>1. PICK t \in Used(p) : <<p, pending[p][t].id>> \notin got
        BY <1>5
    <2>2. <<p, pending[p][t].id>> \notin got'
        BY <1>1, <2>1, MessengerAssumption
    <2> QED
        BY <2>1, <2>2, FreeIsEntry
  <1> QED
      BY <1>2, <1>3, <1>4, <1>5 DEF NetworkInv, AnswerIsAwaited

LEMMA ReceiveIdentityKeeps ==
    ASSUME NetworkInv, NEW m \in net, ReceiveIdentity(m)
    PROVE  NetworkInv'
  <1>1. /\ m.body = "identity" /\ m.body # "ack" /\ Arrives(m) /\ UNCHANGED <<directory, listed>>
        /\ \E rest \in Put(net \ {m}, AckOf(m)) :
              \/ Request(m.dst, m.src, "announce", rest) /\ UNCHANGED abandoned
              \/ Refused(m.dst, m.src, rest) /\ abandoned' = abandoned \cup {m.dst}
      BY DEF ReceiveIdentity
  <1>2. PICK rest \in Put(net \ {m}, AckOf(m)) :
              \/ Request(m.dst, m.src, "announce", rest) /\ UNCHANGED abandoned
              \/ Refused(m.dst, m.src, rest) /\ abandoned' = abandoned \cup {m.dst}
      BY <1>1
  <1>3. /\ got \subseteq got'
        /\ \A g \in got' : \E x \in Nodes : \E t \in Used(x) : g = <<x, pending[x][t].id>>
        /\ UNCHANGED <<knows, boot, events>>
        /\ m.src = Hub /\ m.dst \in Peers /\ m.dst \in Nodes /\ m.src \in Nodes /\ m.dst # m.src
      BY <1>1, ArrivesFacts, MessengerAssumption
  <1>4. TypeOK /\ \A a \in rest : a \in net \/ a = AckOf(m)
      BY <1>2, PutFacts DEF NetworkInv
  <1>5. DirectoryIsTold'
      BY <1>1, <1>3 DEF NetworkInv, DirectoryIsTold
  <1>6. /\ directory' \in [Peers -> DirectoryEntries] /\ listed' \in [Peers -> Boots \cup {0}]
        /\ abandoned' \subseteq Peers /\ abandoned \subseteq abandoned'
      BY <1>1, <1>2, <1>3, <1>4 DEF TypeOK
  <1>7. CASE Request(m.dst, m.src, "announce", rest) /\ UNCHANGED abandoned
    <2>1. /\ TypeOK' /\ BootsAreEvents' /\ PendingIsSound' /\ PendingRoles' /\ GotIsPending'
          /\ \E s \in Used(m.dst)' : <<m.dst, pending'[m.dst][s].id>> \notin got'
          /\ \A x \in Nodes : \A t \in Used(x) : t \in Used(x)' /\ pending'[x][t] = pending[x][t]
          /\ \A x \in Nodes \ {m.dst} : lastId'[x] = lastId[x] /\ pending'[x] = pending[x]
          /\ \A a \in net' : a \in rest \/ Sound(a)'
          /\ \A a : Sound(a) => Sound(a)'
        BY <1>3, <1>6, <1>7, RequestFacts
    <2>2. NetIsSound'
      <3>1. ASSUME NEW a, a = AckOf(m) PROVE Sound(a)'
          BY <1>1, <1>3, <2>1, <3>1, AckIsSound
      <3>2. \A a \in net : Sound(a)
          BY DEF NetworkInv, NetIsSound
      <3> QED
          BY <1>4, <2>1, <3>1, <3>2 DEF NetIsSound
    <2>3. AnswerIsAwaited'
        BY <1>1, <1>6, <2>1, AnswerKeeps
    <2> QED
        BY <1>5, <2>1, <2>2, <2>3 DEF NetworkInv
  <1>8. CASE Refused(m.dst, m.src, rest) /\ abandoned' = abandoned \cup {m.dst}
    <2>1. net' = rest /\ UNCHANGED <<pending, lastId>>
        BY <1>8 DEF Refused
    <2>2. TypeOK' /\ BootsAreEvents'
        BY <1>3, <1>4, <1>6, <2>1 DEF NetworkInv, TypeOK, BootsAreEvents
    <2>3. PendingIsSound' /\ PendingRoles'
        BY <1>3, <2>1 DEF NetworkInv, PendingIsSound, PendingRoles, Used
    <2>4. GotIsPending'
        BY <1>3, <2>1 DEF GotIsPending, Used
    <2>5. NetIsSound'
        BY <1>1, <1>3, <1>4, <2>1, DeliveredIsSound
    <2>6. \A x \in Nodes : \A t \in Used(x) : t \in Used(x)' /\ pending'[x][t] = pending[x][t]
        BY <2>1 DEF Used
    <2>7. AnswerIsAwaited'
        BY <1>1, <1>6, <1>8, <2>6, AnswerKeeps
    <2> QED
        BY <1>5, <2>2, <2>3, <2>4, <2>5, <2>7 DEF NetworkInv
  <1> QED
      BY <1>2, <1>7, <1>8

LEMMA ReceiveAnnounceKeeps ==
    ASSUME NetworkInv, NEW m \in net, m.src \in knows[m.dst], ReceiveAnnounce(m)
    PROVE  NetworkInv'
  <1>1. /\ m.body = "announce" /\ m.body # "ack" /\ Arrives(m) /\ Learns(m)
        /\ net' \in Put(net \ {m}, AckOf(m)) /\ UNCHANGED <<pending, lastId, abandoned>>
      BY DEF ReceiveAnnounce
  <1>2. /\ got \subseteq got'
        /\ \A g \in got' : \E x \in Nodes : \E t \in Used(x) : g = <<x, pending[x][t].id>>
        /\ \A g \in got' \ got : g = <<m.src, m.id>>
        /\ UNCHANGED <<knows, boot, events>>
        /\ m \in Messages /\ m.src \in Peers /\ m.dst = Hub
      BY <1>1, ArrivesFacts
  <1>3. TypeOK
      BY DEF NetworkInv
  <1>4. /\ directory' = [directory EXCEPT ![m.src].state = "KNOWN", ![m.src].announce = m.announce]
        /\ listed' = [listed EXCEPT ![m.src] = m.announce]
      BY <1>1 DEF Learns
  <1>5. m.announce \in Boots \cup {0}
      BY <1>2 DEF Messages
  <1>6. /\ directory' \in [Peers -> DirectoryEntries] /\ listed' \in [Peers -> Boots \cup {0}]
        /\ \A p \in Peers \ {m.src} : directory'[p] = directory[p] /\ listed'[p] = listed[p]
        /\ directory'[m.src].state = "KNOWN" /\ directory'[m.src].announce = m.announce
        /\ listed'[m.src] = m.announce
      BY <1>2, <1>3, <1>4, <1>5 DEF TypeOK, DirectoryEntries
  <1>7. TypeOK' /\ BootsAreEvents'
      BY <1>1, <1>2, <1>3, <1>6 DEF NetworkInv, TypeOK, BootsAreEvents
  <1>8. PendingIsSound' /\ PendingRoles'
      BY <1>1, <1>2 DEF NetworkInv, PendingIsSound, PendingRoles, Used
  <1>9. GotIsPending'
      BY <1>1, <1>2 DEF GotIsPending, Used
  <1>10. NetIsSound'
    <2>1. \A a \in net' : a \in net \/ a = AckOf(m)
        BY <1>1, PutFacts
    <2> QED
        BY <1>1, <1>2, <2>1, DeliveredIsSound
  <1>11. DirectoryIsTold'
    <2>1. m.src \in knows'[Hub]
        BY <1>2
    <2> QED
        BY <1>2, <1>6, <2>1 DEF NetworkInv, DirectoryIsTold
  <1>12. AnswerIsAwaited'
    <2> SUFFICES ASSUME NEW p \in Peers, directory[p].state = "PENDING",
                        directory[p].requests = 1, p # m.src
                 PROVE  \/ \E t \in Used(Hub) : /\ pending[Hub][t].dst = p
                                                /\ <<Hub, pending[Hub][t].id>> \notin got'
                        \/ \E t \in Used(p) : <<p, pending[p][t].id>> \notin got'
                        \/ p \in abandoned
        BY <1>1, <1>6 DEF AnswerIsAwaited, Used
    <2>1. \A i : <<Hub, i>> \in got' => <<Hub, i>> \in got
        BY <1>2, MessengerAssumption
    <2>2. \A i : <<p, i>> \in got' => <<p, i>> \in got
        BY <1>2
    <2> QED
        BY <2>1, <2>2 DEF NetworkInv, AnswerIsAwaited
  <1> QED
      BY <1>7, <1>8, <1>9, <1>10, <1>11, <1>12 DEF NetworkInv

-----------------------------------------------------------------------------
LEMMA StutterKeeps == NetworkInv /\ UNCHANGED vars => NetworkInv'
  <1> SUFFICES ASSUME NetworkInv, UNCHANGED vars PROVE NetworkInv'
      OBVIOUS
  <1>1. UNCHANGED <<knows, pending, lastId, boot, net, directory, listed, got, abandoned, events>>
      BY DEF vars
  <1>2. TypeOK' /\ BootsAreEvents' /\ DirectoryIsTold'
      BY <1>1 DEF NetworkInv, TypeOK, BootsAreEvents, DirectoryIsTold
  <1>3. PendingIsSound' /\ PendingRoles' /\ GotIsPending' /\ AnswerIsAwaited'
      BY <1>1 DEF NetworkInv, PendingIsSound, PendingRoles, GotIsPending, AnswerIsAwaited, Used
  <1>4. NetIsSound'
      BY <1>1 DEF NetworkInv, NetIsSound, Sound, Owner, Far, Used
  <1> QED
      BY <1>2, <1>3, <1>4 DEF NetworkInv

LEMMA NetworkStep == NetworkInv /\ [Next]_vars => NetworkInv'
  <1> SUFFICES ASSUME NetworkInv, [Next]_vars PROVE NetworkInv'
      OBVIOUS
  <1>1. ASSUME NEW n \in Nodes, NEW s \in Slots, Resend(n, s) PROVE NetworkInv'
      BY <1>1, ResendKeeps
  <1>2. ASSUME NEW n \in Nodes, NEW s \in Slots, GiveUp(n, s) PROVE NetworkInv'
      BY <1>2, GiveUpKeeps
  <1>3. ASSUME NEW p \in Peers, AskIdentity(p) PROVE NetworkInv'
      BY <1>3, AskIdentityKeeps
  <1>4. ASSUME NEW m \in net, Receive(m) PROVE NetworkInv'
    <2>1. /\ m.src \in knows[m.dst]
          /\ ReceiveAck(m) \/ ReceiveIdentity(m) \/ ReceiveAnnounce(m)
        BY <1>4 DEF Receive
    <2> QED
        BY <2>1, ReceiveAckKeeps, ReceiveIdentityKeeps, ReceiveAnnounceKeeps
  <1>5. ASSUME Presence PROVE NetworkInv'
    <2>1. ASSUME NEW n \in Nodes, NEW d \in Nodes, n # d, Hub \in {n, d},
                 NodeUp(n, d) \/ NodeDown(n, d) \/ NodeRestarted(n, d)
          PROVE  NetworkInv'
        BY <2>1, NodeUpKeeps, NodeDownKeeps, NodeRestartedKeeps
    <2>2. ASSUME NEW n \in Nodes, Reboot(n) PROVE NetworkInv'
        BY <2>2, RebootKeeps
    <2> QED
        BY <1>5, <2>1, <2>2 DEF Presence
  <1>6. CASE UNCHANGED vars
      BY <1>6, StutterKeeps
  <1> QED
      BY <1>1, <1>2, <1>3, <1>4, <1>5, <1>6 DEF Next, Tick

(* A question is waited for until it arrives, and so is its answer.        *)
LEMMA InvariantIsEnough == NetworkInv => MessengerInv
  <1> SUFFICES ASSUME NetworkInv PROVE MessengerInv
      OBVIOUS
  <1>1. ASSUME NEW p \in Peers, directory[p].state = "PENDING", directory[p].requests = 1
        PROVE  \/ \E s \in Used(Hub) : pending[Hub][s].dst = p
               \/ \E s \in Used(p) : pending[p][s].dst = Hub /\ pending[p][s].body = "announce"
               \/ p \in abandoned
    <2>1. \A s \in Used(p) : pending[p][s].dst = Hub /\ pending[p][s].body = "announce"
        BY FreeIsEntry, MessengerAssumption DEF NetworkInv, PendingRoles
    <2> QED
        BY <1>1, <2>1 DEF NetworkInv, AnswerIsAwaited
  <1> QED
      BY <1>1 DEF NetworkInv, MessengerInv, PendingIsWatched

\* The inductive invariant of the messengers, of the network between them and
\* of the directory (messenger.cpp, directory.cpp).
THEOREM NetworkInvariant == Spec => []NetworkInv
  BY NetworkInit, NetworkStep, PTL DEF Spec

\* No request waits on a node that the transport has dropped, no two requests of
\* a node share a number, and no node is left pending with nobody who still asks
\* it, answers for it or has given up (Messenger::onNodeDown(), tick()).
THEOREM MessengerSound == Spec => []MessengerInv
  BY NetworkInvariant, InvariantIsEnough, PTL

\* The directory tells its listeners what it holds, and holds the nodes of the
\* transport (DiscoveryDirectory::onNodeUp(), onNodeDown(), onMessage()).
THEOREM MessengerDirectoryIsTold == Spec => []DirectoryIsTold
  <1>1. NetworkInv => DirectoryIsTold
      BY DEF NetworkInv
  <1> QED
      BY <1>1, NetworkInvariant, PTL

(* Only its own delivery takes an acknowledgement out of the network.      *)
LEMMA AcksAreReceived ==
    ASSUME Next, NEW m \in net \ net', m.body = "ack"
    PROVE  ReceiveAck(m)
  <1>1. ASSUME NEW n \in Nodes, NEW s \in Slots, Resend(n, s) \/ GiveUp(n, s) PROVE FALSE
      BY <1>1, PutFacts DEF Resend, GiveUp
  <1>2. ASSUME NEW p \in Peers, AskIdentity(p) PROVE FALSE
      BY <1>2, PutFacts DEF AskIdentity, Request
  <1>3. ASSUME NEW x \in net, Receive(x) PROVE ReceiveAck(m)
    <2>1. CASE ReceiveAck(x)
        BY <2>1 DEF ReceiveAck
    <2>2. CASE ReceiveIdentity(x)
      <3>1. PICK rest \in Put(net \ {x}, AckOf(x)) :
               \/ net' \in Put(rest, Message(x.dst, Entry(x.src, lastId[x.dst] + 1, "announce")))
               \/ net' = rest
          BY <2>2 DEF ReceiveIdentity, Request, Refused
      <3>2. net \ {x} \subseteq net'
          BY <3>1, PutFacts
      <3> QED
          BY <2>2, <3>2 DEF ReceiveIdentity
    <2>3. CASE ReceiveAnnounce(x)
        BY <2>3, PutFacts DEF ReceiveAnnounce
    <2> QED
        BY <1>3, <2>1, <2>2, <2>3 DEF Receive
  <1>4. ASSUME Presence PROVE FALSE
      BY <1>4 DEF Presence, NodeUp, NodeDown, NodeRestarted, Reboot, Forgets
  <1> QED
      BY <1>1, <1>2, <1>3, <1>4 DEF Next, Tick

LEMMA AckStep ==
    ASSUME NetworkInv, Next, NEW n \in Nodes, NEW s \in Used(n), ~pending'[n][s].used,
           NEW m \in net \ net', m.body = "ack", m.dst = n, m.epoch = boot[n]
    PROVE  <<n, pending[n][s].id>> \in got
  <1>1. ReceiveAck(m) /\ Sound(m) /\ TypeOK /\ Owner(m) = n
      BY AcksAreReceived DEF NetworkInv, NetIsSound, Owner
  <1>2. Matches(m) # {}
      BY <1>1 DEF ReceiveAck, Used
  <1> DEFINE t == CHOOSE x \in Matches(m) : \A y \in Matches(m) : x <= y
  <1>3. t \in Matches(m)
    <2>1. Matches(m) \in SUBSET Nat
        BY MessengerAssumption DEF Matches
    <2> QED
        BY <1>2, <2>1, LeastExists
  <1>4. pending' = [pending EXCEPT ![n][t] = Free]
      BY <1>1, <1>2 DEF ReceiveAck
  <1> HIDE DEF t
  <1>5. t \in Used(n) /\ pending[n][t].id = m.id
      BY <1>3 DEF Matches, Used
  <1>6. s = t
      BY <1>1, <1>4, <1>5 DEF TypeOK, Used
  <1> QED
      BY <1>1, <1>5, <1>6 DEF Sound

\* An acknowledgement of this boot completes a request that was delivered
\* (Messenger::onAck()): the number and the destination name one request.
THEOREM MessengerAckMeansDelivered == Spec => AckMeansDelivered
  <1> DEFINE Step == \A n \in Nodes : \A s \in Used(n) :
                        ~pending'[n][s].used /\ (\E m \in net \ net' : m.body = "ack" /\ m.dst = n
                                                                    /\ m.epoch = boot[n])
                            => <<n, pending[n][s].id>> \in got
  <1>1. NetworkInv /\ [Next]_vars => [Step]_vars
    <2>1. NetworkInv /\ Next => Step
        BY AckStep
    <2> QED
        BY <2>1
  <1> QED
      BY <1>1, NetworkInvariant, PTL DEF Spec, AckMeansDelivered
=============================================================================
