--------------------------- MODULE Services_proof ---------------------------
(***************************************************************************)
(* ServicesInv is an invariant of the services, for any tables, pages,     *)
(* subscriber limits and bounds on requests and faults.  It implies the    *)
(* four properties of Services that a run checks.  The first part is about *)
(* the wire and the walk of a table (ServiceWire) and knows nothing of a   *)
(* service; then each service shows that its steps are steps of those.     *)
(***************************************************************************)
EXTENDS Services, TLAPS

LEMMA ServiceNumbers ==
    /\ PageSize \in Nat \ {0} /\ MaxSubscribers \in Nat \ {0} /\ MaxItems \in Nat \ {0}
    /\ Totals \subseteq Nat /\ Ids \subseteq Nat /\ MaxCalls \in Nat /\ Hub # Other
  BY ServiceAssumption

LEMMA LeastIs ==
    ASSUME NEW a \in Nat, NEW b \in Nat
    PROVE  Least(a, b) \in Nat /\ Least(a, b) <= a /\ Least(a, b) <= b
           /\ (Least(a, b) = a \/ Least(a, b) = b)
  BY DEF Least

-----------------------------------------------------------------------------
(* What the operations do to the wire.                                     *)

\* Nothing but the wire and the numbers of the requests.
SamePlace == UNCHANGED <<presence, total, gaveUp, cutOff>>

LEMMA MessagesStaySound ==
    ASSUME NEW m, MessageIsSound(m), calls \in Nat, calls' \in Nat, calls <= calls'
    PROVE  MessageIsSound(m)'
  BY DEF MessageIsSound, IsStream

LEMMA AsksFacts ==
    ASSUME WireIsSound, calls \in Nat, NEW ok \in BOOLEAN, NEW kind \in Asked, NEW arg,
           kind = "list" => arg.cursor \in Nat, Asks(ok, kind, arg)
    PROVE  /\ WireIsSound' /\ calls' = calls + 1 /\ SamePlace /\ wire \subseteq wire'
           /\ \A m \in wire' \ wire : m.kind = kind /\ m.arg = arg /\ m.id = calls + 1
           /\ ok => \E m \in wire' : m.kind = kind /\ m.id = calls + 1 /\ m.arg = arg
  <1>0. PICK new : new = [to |-> "node", kind |-> kind, id |-> calls + 1, arg |-> arg]
      OBVIOUS
  <1>1. /\ calls' = calls + 1 /\ SamePlace
        /\ wire' = wire \cup (IF ok THEN {new} ELSE {})
      BY <1>0 DEF Asks, Request, SamePlace
  <1>2. new.to = "node" /\ new.kind = kind /\ new.id = calls + 1 /\ new.arg = arg
      BY <1>0
  <1>3. MessageIsSound(new)'
      BY <1>1, <1>2 DEF MessageIsSound
  <1>4. WireIsSound'
      BY <1>1, <1>3, MessagesStaySound DEF WireIsSound
  <1> QED
      BY <1>1, <1>2, <1>4

LEMMA HearsFacts ==
    ASSUME WireIsSound, calls \in Nat, NEW m \in wire, NEW again \in BOOLEAN, NEW asks \in BOOLEAN,
           NEW ok \in BOOLEAN, NEW kind, NEW arg, asks => kind = "list" /\ arg.cursor \in Nat,
           Hears(m, again, asks, ok, kind, arg)
    PROVE  /\ WireIsSound' /\ SamePlace /\ wire \ {m} \subseteq wire'
           /\ calls' = IF asks THEN calls + 1 ELSE calls
           /\ m.kind \notin Asked /\ presence # "down"
           /\ ~asks => wire' \subseteq wire
           /\ \A k \in wire' \ wire : k.kind = "list" /\ k.arg = arg /\ k.id = calls + 1
           /\ asks /\ ok => \E k \in wire' : k.kind = "list" /\ k.id = calls + 1 /\ k.arg = arg
  <1>0. PICK new : new = [to |-> "node", kind |-> kind, id |-> calls + 1, arg |-> arg]
      OBVIOUS
  <1> DEFINE sent == IF asks /\ ok THEN {new} ELSE {}
  <1>1. m.kind \notin Asked /\ presence # "down"
      BY DEF Hears, WireIsSound, MessageIsSound
  <1>2. /\ calls' = (IF asks THEN calls + 1 ELSE calls) /\ SamePlace
        /\ wire' = (IF again THEN wire ELSE wire \ {m}) \cup sent
      BY <1>0 DEF Hears, Handle, Request, SamePlace, Count
  <1>3. new.to = "node" /\ new.kind = kind /\ new.id = calls + 1 /\ new.arg = arg
      BY <1>0
  <1>4. asks => MessageIsSound(new)'
      BY <1>2, <1>3 DEF MessageIsSound, Asked
  <1>5. WireIsSound'
      BY <1>2, <1>4, MessagesStaySound DEF WireIsSound
  <1> QED
      BY <1>1, <1>2, <1>3, <1>5

LEMMA ServesFacts ==
    ASSUME WireIsSound, calls \in Nat, NEW m \in wire, NEW again \in BOOLEAN, NEW out,
           Serves(m, again, out), \A k \in out : k.kind \notin Asked /\ MessageIsSound(k)
    PROVE  /\ WireIsSound' /\ SamePlace /\ UNCHANGED calls
           /\ m.kind \in Asked
           /\ wire \ {m} \subseteq wire' /\ out \subseteq wire' /\ wire' \subseteq wire \cup out
  <1>1. m.kind \in Asked
      BY DEF Serves, WireIsSound, MessageIsSound
  <1>2. SamePlace /\ UNCHANGED calls /\ wire' = (IF again THEN wire ELSE wire \ {m}) \cup out
      BY DEF Serves, Handle, SamePlace
  <1>3. WireIsSound'
      BY <1>2, MessagesStaySound DEF WireIsSound
  <1> QED
      BY <1>1, <1>2, <1>3

LEMMA SendsFacts ==
    ASSUME WireIsSound, calls \in Nat, NEW out, Sends(out), \A k \in out : MessageIsSound(k)
    PROVE  WireIsSound' /\ SamePlace /\ UNCHANGED calls /\ wire' = wire \cup out
  <1>1. SamePlace /\ UNCHANGED calls /\ wire' = wire \cup out
      BY DEF Sends, SamePlace
  <1> QED
      BY <1>1, MessagesStaySound DEF WireIsSound

(* The wire loses a part.                                                  *)
LEMMA LessIsSound ==
    ASSUME WireIsSound, calls \in Nat, UNCHANGED calls, wire' \subseteq wire
    PROVE  WireIsSound'
  BY MessagesStaySound DEF WireIsSound

LEMMA AnswerLostFacts ==
    ASSUME WireIsSound, calls \in Nat, NEW m \in wire, AnswerLost(m)
    PROVE  /\ WireIsSound' /\ UNCHANGED <<calls, presence, total, cutOff>> /\ wire' = wire \ {m}
           /\ gaveUp => gaveUp'
           /\ m.kind \notin Asked /\ (m.kind \notin Streamed => gaveUp')
  <1>1. /\ m.to = "hub" /\ gaveUp' = (gaveUp \/ ~IsStream(m)) /\ wire' = wire \ {m}
        /\ UNCHANGED <<calls, presence, total, cutOff>>
      BY DEF AnswerLost
  <1>2. m.kind \notin Asked /\ (IsStream(m) <=> m.kind \in Streamed)
      BY <1>1 DEF WireIsSound, MessageIsSound
  <1> QED
      BY <1>1, <1>2, LessIsSound

LEMMA RequestLostFacts ==
    ASSUME WireIsSound, calls \in Nat, NEW m \in wire, RequestLost(m)
    PROVE  /\ WireIsSound' /\ SamePlace /\ UNCHANGED calls /\ wire' \in {wire, wire \ {m}}
           /\ m.kind \in Asked /\ m.id \in 1 .. calls
  <1>1. m.to = "node" /\ wire' \in {wire, wire \ {m}} /\ SamePlace /\ UNCHANGED calls
      BY DEF RequestLost, SamePlace
  <1>2. m.kind \in Asked /\ m.id \in 1 .. calls
      BY <1>1 DEF WireIsSound, MessageIsSound
  <1> QED
      BY <1>1, <1>2, LessIsSound

LEMMA ToTheNode ==
    ASSUME WireIsSound
    PROVE  {m \in wire : m.to = "node"} = {m \in wire : m.kind \in Asked}
  BY DEF WireIsSound, MessageIsSound

LEMMA HubDownFacts ==
    ASSUME WireIsSound, calls \in Nat, HubDown
    PROVE  /\ WireIsSound' /\ UNCHANGED <<calls, presence, total>> /\ cutOff' = TRUE
           /\ wire' = {m \in wire : m.kind \in Asked}
           /\ gaveUp => gaveUp'
           /\ \A m \in wire \ wire' : m.kind \notin Streamed => gaveUp'
  <1>1. /\ UNCHANGED <<calls, presence, total>> /\ cutOff' = TRUE
        /\ wire' = {m \in wire : m.kind \in Asked}
        /\ gaveUp' = (gaveUp \/ \E m \in wire : m.to = "hub" /\ ~IsStream(m))
      BY ToTheNode DEF HubDown
  <1>2. \A m \in wire : m.kind \notin Asked => m.to = "hub" /\ (IsStream(m) <=> m.kind \in Streamed)
      BY DEF WireIsSound, MessageIsSound
  <1> QED
      BY <1>1, <1>2, LessIsSound

LEMMA RebootFacts ==
    ASSUME WireIsSound, calls \in Nat, Reboot
    PROVE  /\ WireIsSound' /\ UNCHANGED calls /\ presence' = "stale" /\ total' \in Totals
           /\ wire' = {m \in wire : m.kind \in Asked}
  <1>1. /\ UNCHANGED calls /\ presence' = "stale" /\ total' \in Totals
        /\ wire' = {m \in wire : m.kind \in Asked}
      BY ToTheNode DEF Reboot
  <1> QED
      BY <1>1, LessIsSound

LEMMA PresenceFacts ==
    ASSUME WireIsSound, calls \in Nat, NodeDown \/ NodeUp
    PROVE  /\ WireIsSound' /\ UNCHANGED <<calls, total, wire>>
           /\ NodeDown => presence' = "down"
           /\ NodeUp => presence = "down" /\ presence' = "up"
  <1>1. /\ UNCHANGED <<calls, total, wire>>
        /\ NodeDown => presence' = "down"
        /\ NodeUp => presence = "down" /\ presence' = "up"
      BY DEF NodeDown, NodeUp
  <1> QED
      BY <1>1, LessIsSound

-----------------------------------------------------------------------------
(* The walk of a table.                                                    *)

LEMMA NoPullIsWalked ==
    ASSUME NEW S, total \in Nat
    PROVE  NoPull \in Pulls(S) /\ NoPull.request = 0 /\ ~NoPull.complete /\ Walked(NoPull)
  <1>1. NoPull \in Pulls(S)
      BY DEF NoPull, Pulls
  <1>2. Len(NoPull.items) = 0 /\ NoPull.cursor = 0 /\ ~NoPull.complete /\ NoPull.request = 0
      BY DEF NoPull
  <1>3. Least(MaxItems, 0) = 0
      BY ServiceNumbers DEF Least
  <1> QED
      BY <1>1, <1>2, <1>3 DEF Walked

(* A page that the walk wants takes it on.                                 *)
LEMMA ApplyKeeps ==
    ASSUME NEW S, NEW p \in Pulls(S), total \in Nat, NEW page, PageIsWhole(page, S), Wanted(p, page)
    PROVE  /\ ApplyPage(p, page) \in Pulls(S) /\ ApplyPage(p, page).request = 0
           /\ Walked(p) => Walked(ApplyPage(p, page))
  <1> DEFINE kept == IF page.cursor = 0 THEN <<>> ELSE p.items
             merged == kept \o page.items
             cursor == p.cursor + Len(page.items)
             length == Least(MaxItems, Len(merged))
             read == SubSeq(merged, 1, length)
             complete == \/ Len(merged) > MaxItems \/ page.items = <<>>
                         \/ cursor >= page.total
                         \/ (page.cursor # 0 /\ p.complete)
  <1>1. /\ p.items \in Seq(S) /\ p.cursor \in Nat /\ page.items \in Seq(S) /\ page.cursor = p.cursor
        /\ page.cursor \in Nat /\ page.total = total
        /\ p.complete \in BOOLEAN
      BY DEF Pulls, PageIsWhole, Wanted
  <1>2. kept \in Seq(S) /\ merged \in Seq(S) /\ Len(merged) = Len(kept) + Len(page.items)
    <2>1. kept \in Seq(S)
      <3>1. <<>> \in Seq(S)
          OBVIOUS
      <3> QED
          BY <1>1, <3>1
    <2> HIDE DEF kept
    <2> QED
        BY <1>1, <2>1
  <1>3. /\ length \in Nat /\ length <= MaxItems /\ length <= Len(merged)
        /\ (length = MaxItems \/ length = Len(merged))
    <2> HIDE DEF kept, merged
    <2>1. Len(merged) \in Nat
        BY <1>2
    <2> QED
        BY <2>1, LeastIs, ServiceNumbers
  <1>4. read \in Seq(S) /\ Len(read) = length /\ \A i \in 1 .. length : read[i] = merged[i]
    <2> HIDE DEF kept, merged, length
    <2> QED
        BY <1>2, <1>3
  <1>5. ApplyPage(p, page) = [p EXCEPT !.items = read, !.cursor = cursor, !.total = page.total,
                                       !.request = 0, !.complete = complete]
      BY DEF ApplyPage
  <1>6. complete \in BOOLEAN /\ cursor \in Nat
      BY <1>1
  <1> HIDE DEF kept, merged, length, read, complete, cursor
  <1>7. /\ ApplyPage(p, page) \in Pulls(S) /\ ApplyPage(p, page).request = 0
        /\ ApplyPage(p, page).items = read /\ ApplyPage(p, page).cursor = cursor
        /\ ApplyPage(p, page).complete = complete
    <2>1. ApplyPage(p, page) = [items |-> read, cursor |-> cursor, total |-> total, request |-> 0,
                                complete |-> complete, abandoned |-> p.abandoned]
        BY <1>1, <1>5 DEF Pulls
    <2>2. p.abandoned \in BOOLEAN
        BY DEF Pulls
    <2> QED
        BY <1>4, <1>6, <2>1, <2>2 DEF Pulls
  <1>8. ASSUME Walked(p) PROVE Walked(ApplyPage(p, page))
    <2>1. /\ p.cursor <= total /\ Len(p.items) = Least(MaxItems, p.cursor)
          /\ \A i \in 1 .. Len(p.items) : p.items[i].id = i - 1
          /\ p.complete => Len(p.items) = Least(MaxItems, total)
          /\ page.cursor \in 0 .. total /\ Len(page.items) = Least(PageSize, total - page.cursor)
          /\ \A i \in 1 .. Len(page.items) : page.items[i].id = page.cursor + i - 1
        BY <1>1, <1>8 DEF Walked, PageIsWhole
    <2>2. /\ Len(page.items) \in Nat /\ Len(page.items) <= total - page.cursor
          /\ page.items = <<>> => page.cursor = total
      <3>1. Len(page.items) <= total - page.cursor
            /\ (Len(page.items) = PageSize \/ Len(page.items) = total - page.cursor)
        <4>1. total - page.cursor \in Nat
            BY <2>1
        <4> QED
            BY <1>1, <2>1, <4>1, ServiceNumbers DEF Least
      <3> QED
          BY <1>1, <2>1, <3>1, ServiceNumbers
    <2>3. Len(kept) = Least(MaxItems, p.cursor) /\ \A i \in 1 .. Len(kept) : kept[i].id = i - 1
      <3>1. CASE page.cursor = 0
        <4>1. kept = <<>> /\ Len(kept) = 0 /\ p.cursor = 0
            BY <1>1, <3>1 DEF kept
        <4> QED
            BY <4>1, ServiceNumbers DEF Least
      <3>2. CASE page.cursor # 0
          BY <2>1, <3>2 DEF kept
      <3> QED
          BY <3>1, <3>2
    <2>4. cursor = p.cursor + Len(page.items) /\ cursor <= total
        BY <1>1, <2>2 DEF cursor
    <2>5. length = Least(MaxItems, cursor)
        BY <1>1, <1>2, <2>2, <2>3, <2>4, ServiceNumbers DEF length, Least
    <2>6. ASSUME NEW i \in 1 .. length PROVE read[i].id = i - 1
      <3>1. read[i] = merged[i] /\ i <= Len(kept) + Len(page.items)
          BY <1>2, <1>3, <1>4
      <3>2. CASE i <= Len(kept)
        <4>1. merged[i] = kept[i]
            BY <1>1, <1>2, <1>3, <3>2 DEF merged
        <4> QED
            BY <2>3, <3>1, <3>2, <4>1, <1>2
      <3>3. CASE i > Len(kept)
        <4>1. merged[i] = page.items[i - Len(kept)] /\ i - Len(kept) \in 1 .. Len(page.items)
            BY <1>1, <1>2, <1>3, <3>1, <3>3 DEF merged
        <4>2. Len(kept) = p.cursor
            BY <1>1, <1>3, <2>3, <3>3, ServiceNumbers DEF Least
        <4>3. page.items[i - Len(kept)].id = page.cursor + (i - Len(kept)) - 1
            BY <1>1, <2>1, <4>1
        <4> QED
            BY <1>1, <1>2, <3>1, <4>1, <4>2, <4>3
      <3> QED
          BY <1>2, <3>2, <3>3
    <2>7. complete => length = Least(MaxItems, total)
        BY <1>1, <1>2, <2>1, <2>2, <2>3, <2>4, <2>5, ServiceNumbers, SMTT(30) DEF complete, Least
    <2> QED
        BY <1>4, <1>7, <2>4, <2>5, <2>6, <2>7 DEF Walked
  <1> QED
      BY <1>7, <1>8

(* The pages of a node are whole, and the page asked for is the one sent.  *)
LEMMA PageFacts ==
    ASSUME NEW S, NEW cursor \in Nat, total \in Nat, NEW table \in [0 .. total - 1 -> S],
           \A i \in 0 .. total - 1 : table[i].id = i
    PROVE  /\ PageIsWhole(Page(cursor, table), S)
           /\ Page(cursor, table).cursor = cursor
  <1> DEFINE first == Least(cursor, total)
             n == Least(PageSize, total - first)
             read == [i \in 1 .. n |-> table[first + i - 1]]
  <1>1. first \in 0 .. total /\ (cursor <= total => first = cursor)
      BY DEF Least
  <1>2. n \in Nat /\ n <= total - first
      BY <1>1, ServiceNumbers DEF Least
  <1>3. Page(cursor, table) = [total |-> total, cursor |-> cursor, items |-> read]
      BY DEF Page, Filled
  <1> HIDE DEF first, n
  <1>4. \A i \in 1 .. n : first + i - 1 \in 0 .. total - 1
      BY <1>1, <1>2
  <1>5. read \in Seq(S) /\ Len(read) = n
      BY <1>2, <1>4
  <1>6. \A i \in 1 .. n : read[i].id = first + i - 1
      BY <1>4
  <1> HIDE DEF read
  <1> QED
      BY <1>1, <1>3, <1>5, <1>6 DEF PageIsWhole, n

LEMMA RedescribeFacts ==
    ASSUME NEW S, NEW p \in Pulls(S), NEW item \in S
    PROVE  LET q == Redescribe(p, item)
           IN /\ q \in Pulls(S) /\ q.request = p.request /\ q.cursor = p.cursor
              /\ q.complete = p.complete /\ (Walked(p) => Walked(q))
  <1> DEFINE read == [i \in DOMAIN p.items |-> IF p.items[i].id = item.id THEN item ELSE p.items[i]]
  <1>1. p.items \in Seq(S)
      BY DEF Pulls
  <1>2. read \in Seq(S) /\ Len(read) = Len(p.items)
        /\ \A i \in 1 .. Len(read) : read[i].id = p.items[i].id
      BY <1>1
  <1>3. Redescribe(p, item) = [p EXCEPT !.items = read]
      BY DEF Redescribe
  <1> HIDE DEF read
  <1>4. LET q == Redescribe(p, item)
        IN /\ q \in Pulls(S) /\ q.request = p.request /\ q.cursor = p.cursor
           /\ q.complete = p.complete /\ q.items = read
      BY <1>2, <1>3 DEF Pulls
  <1>5. ASSUME Walked(p) PROVE Walked(Redescribe(p, item))
      BY <1>2, <1>4, <1>5 DEF Walked
  <1> QED
      BY <1>4, <1>5

LEMMA AbandonFacts ==
    ASSUME NEW S, NEW p \in Pulls(S)
    PROVE  LET q == Abandon(p)
           IN /\ q \in Pulls(S) /\ q.request = 0 /\ q.cursor = p.cursor
              /\ q.complete = p.complete /\ (Walked(p) => Walked(q))
  BY DEF Abandon, Pulls, Walked

LEMMA AskPageFacts ==
    ASSUME NEW S, NEW p \in Pulls(S), calls \in Nat, NEW n \in Nat, NEW ok \in BOOLEAN
    PROVE  LET q == AskPage(p, n, ok)
           IN /\ q \in Pulls(S) /\ q.request = (IF ok THEN calls + n ELSE 0) /\ q.cursor = p.cursor
              /\ (Walked(p) => Walked(q))
  BY DEF AskPage, Id, Pulls, Walked

-----------------------------------------------------------------------------
(* A walk goes on, and a subscription is waited for, as long as nothing    *)
(* that they wait on is taken from the wire for nothing.                   *)

LEMMA WalkMoves ==
    ASSUME NEW A, A # "list", NEW S, NEW p, NEW q, WalkInv(p, A, S), WireIsSound',
           calls \in Nat, calls' \in Nat, calls <= calls', UNCHANGED <<total, presence>>,
           gaveUp => gaveUp',
           q \in Pulls(S), q.request \in {0, p.request}, q.cursor = p.cursor, Walked(p) => Walked(q),
           \A m \in wire' \ wire : m.kind # "list" /\ (m.kind = A => PageIsWhole(m.arg, S)),
           \A m \in wire \ wire' :
               \/ m.kind \notin {"list", A} \/ gaveUp' \/ q.request = 0
               \/ m.kind = A /\ ~Wanted(p, m.arg)
               \/ m.kind = "list" /\ m.kind # A /\ m.id # p.request
               \/ presence = "up" => \E k \in wire' : k.kind = A /\ Wanted(p, k.arg)
    PROVE  WalkInv(q, A, S)'
  <1>1. q.request <= calls'
      BY DEF WalkInv, Pulls
  <1>2. \A m \in wire' : m.kind = A => PageIsWhole(m.arg, S)'
      BY DEF WalkInv, PageIsWhole
  <1>3. ASSUME presence' = "up"
        PROVE  /\ Walked(q)' /\ PageComes(q, "list", A)'
               /\ \A m \in wire' : m.kind = "list" /\ m.id = q.request => m.arg.cursor = q.cursor
    <2>1. Walked(q)'
        BY <1>3 DEF WalkInv, Walked
    <2>2. ASSUME NEW m \in wire', m.kind = "list", m.id = q.request
          PROVE  m.arg.cursor = q.cursor
      <3>1. m \in wire /\ m.id # 0
          BY <2>2 DEF WireIsSound, MessageIsSound, Asked
      <3> QED
          BY <1>3, <2>2, <3>1 DEF WalkInv
    <2>3. PageComes(q, "list", A)'
      <3>1. CASE q.request = 0 \/ gaveUp'
          BY <3>1 DEF PageComes
      <3>2. CASE q.request # 0 /\ ~gaveUp'
        <4>1. PICK m \in wire : \/ m.kind = "list" /\ m.id = p.request
                                \/ m.kind = A /\ Wanted(p, m.arg)
            BY <1>3, <3>2 DEF WalkInv, PageComes
        <4>2. q.request = p.request /\ \A k : Wanted(q, k) = Wanted(p, k)
            BY <3>2 DEF Wanted
        <4>3. CASE m \in wire'
          <5>1. \/ m.kind = "list" /\ m.id = q.request
                \/ m.kind = A /\ Wanted(q, m.arg)
              BY <4>1, <4>2
          <5> QED
              BY <4>3, <5>1 DEF PageComes, Wanted
        <4>4. CASE m \notin wire'
          <5>1. \E k \in wire' : k.kind = A /\ Wanted(p, k.arg)
              BY <1>3, <3>2, <4>1, <4>4
          <5> QED
              BY <4>2, <5>1 DEF PageComes, Wanted
        <4> QED
            BY <4>3, <4>4
      <3> QED
          BY <3>1, <3>2
    <2> QED
        BY <2>1, <2>2, <2>3
  <1> QED
      BY <1>1, <1>2, <1>3 DEF WalkInv

(* The walk asks for a page, with a number that no earlier request has.    *)
LEMMA WalkAsks ==
    ASSUME NEW A, NEW S, NEW p, NEW q, WalkInv(p, A, S), WireIsSound, WireIsSound',
           calls \in Nat, calls' \in Nat, calls <= calls', UNCHANGED total,
           q \in Pulls(S), presence' = "up" => Walked(q),
           \A m \in wire' \ wire : m.kind # A,
           \/ q.request = 0
           \/ /\ q.request > calls /\ q.request <= calls'
              /\ \E m \in wire' : m.kind = "list" /\ m.id = q.request
              /\ \A m \in wire' \ wire : m.kind = "list" => m.arg.cursor = q.cursor
    PROVE  WalkInv(q, A, S)'
  <1>1. q.request <= calls' /\ q.request \in Nat
      BY DEF Pulls
  <1>2. \A m \in wire' : m.kind = A => PageIsWhole(m.arg, S)'
      BY DEF WalkInv, PageIsWhole
  <1>3. PageComes(q, "list", A)'
      BY DEF PageComes
  <1>4. ASSUME NEW m \in wire', m.kind = "list", m.id = q.request
        PROVE  m.arg.cursor = q.cursor
    <2>1. m.id # 0
        BY <1>4 DEF WireIsSound, MessageIsSound, Asked
    <2>2. m \in wire => m.id <= calls
        BY <1>4 DEF WireIsSound, MessageIsSound, Asked
    <2> QED
        BY <1>1, <1>4, <2>1, <2>2
  <1>5. presence' = "up" => Walked(q)'
      BY DEF Walked
  <1> QED
      BY <1>1, <1>2, <1>3, <1>4, <1>5 DEF WalkInv

LEMMA WalkReboots ==
    ASSUME NEW A, A \notin Asked, NEW S, NEW p, WalkInv(p, A, S), UNCHANGED calls,
           presence' = "stale", wire' = {m \in wire : m.kind \in Asked}
    PROVE  WalkInv(p, A, S)'
  BY DEF WalkInv

LEMMA SubscriptionMoves ==
    ASSUME NEW r, NEW s, SubscriptionInv(r), s \in {0, r},
           calls \in Nat, calls' \in Nat, calls <= calls', UNCHANGED presence, gaveUp => gaveUp',
           \A m \in wire \ wire' :
               \/ m.kind \notin {"subscribe", "subscription"} \/ gaveUp' \/ s = 0
               \/ m.kind = "subscribe" /\ m.id # r
               \/ \E k \in wire' : k.kind = "subscription"
    PROVE  SubscriptionInv(s)'
  <1>1. s \in 0 .. calls'
      BY DEF SubscriptionInv
  <1>2. ASSUME presence' = "up" PROVE SubscriptionComes(s, "subscribe", "subscription")'
    <2>1. CASE s = 0 \/ gaveUp'
        BY <2>1 DEF SubscriptionComes
    <2>2. CASE s # 0 /\ ~gaveUp'
      <3>1. PICK m \in wire : (m.kind = "subscribe" /\ m.id = r) \/ m.kind = "subscription"
          BY <1>2, <2>2 DEF SubscriptionInv, SubscriptionComes
      <3> QED
          BY <2>2, <3>1 DEF SubscriptionComes
    <2> QED
        BY <2>1, <2>2
  <1> QED
      BY <1>1, <1>2 DEF SubscriptionInv

LEMMA SubscriptionAsks ==
    ASSUME NEW s \in 0 .. calls', s = 0 \/ \E m \in wire' : m.kind = "subscribe" /\ m.id = s
    PROVE  SubscriptionInv(s)'
  BY DEF SubscriptionInv, SubscriptionComes

LEMMA SubscriptionReboots ==
    ASSUME NEW s, SubscriptionInv(s), UNCHANGED calls, presence' # "up"
    PROVE  SubscriptionInv(s)'
  BY DEF SubscriptionInv

Common == /\ calls \in Nat /\ total \in Totals /\ presence \in {"up", "down", "stale"}
          /\ WireIsSound

(* The hub's side of a service stays as it is.                             *)
LEMMA NothingIsLost ==
    ASSUME NEW A, A # "list", NEW S, NEW p, NEW r, WalkInv(p, A, S), SubscriptionInv(r), Common,
           WireIsSound', calls' \in Nat, calls <= calls', UNCHANGED <<total, presence>>,
           gaveUp => gaveUp',
           \A m \in wire' \ wire : m.kind # "list" /\ (m.kind = A => PageIsWhole(m.arg, S)),
           \A m \in wire \ wire' :
               \/ m.kind \notin {"list", A, "subscribe", "subscription"} \/ gaveUp'
               \/ /\ m.kind = "list" /\ A # "list"
                  /\ m.id = p.request /\ presence = "up" =>
                        \E k \in wire' : k.kind = A /\ Wanted(p, k.arg)
               \/ m.kind = "subscribe" /\ m.kind # A /\ \E k \in wire' : k.kind = "subscription"
    PROVE  WalkInv(p, A, S)' /\ SubscriptionInv(r)'
  <1>1. p \in Pulls(S) /\ calls \in Nat
      BY DEF WalkInv, Common
  <1>2. WalkInv(p, A, S)'
      BY <1>1, WalkMoves
  <1>3. SubscriptionInv(r)'
      BY <1>1, SubscriptionMoves
  <1> QED
      BY <1>2, <1>3

(* The node answers a page request.                                        *)
LEMMA PageAnswers ==
    ASSUME NEW S, NEW p, NEW A, A # "list", WalkInv(p, A, S), NEW m \in wire, m.kind = "list", Common,
           NEW table \in [0 .. total - 1 -> S], \A i \in 0 .. total - 1 : table[i].id = i,
           NEW page, page = Page(m.arg.cursor, table)
    PROVE  /\ PageIsWhole(page, S)
           /\ m.id = p.request /\ presence = "up" => Wanted(p, page)
  <1>1. m.arg.cursor \in Nat /\ total \in Nat
      BY ServiceNumbers DEF Common, WireIsSound, MessageIsSound
  <1>2. PageIsWhole(page, S) /\ page.cursor = m.arg.cursor
      BY <1>1, PageFacts
  <1>3. ASSUME m.id = p.request, presence = "up" PROVE Wanted(p, page)
    <2>1. m.arg.cursor = p.cursor /\ p.cursor <= total
        BY <1>3 DEF WalkInv, Walked
    <2> QED
        BY <1>2, <2>1 DEF Wanted
  <1> QED
      BY <1>2, <1>3
-----------------------------------------------------------------------------
(* What the hub keeps of a service with a table: the walk of the table p,  *)
(* and the subscribe r it waits on.                                        *)

Answering == {"descriptors", "modules", "infos"}

Client(p, r, A, S) ==
    A \in Answering /\ WalkInv(p, A, S) /\ SubscriptionInv(r) /\ (r # 0 => r # p.request)

LEMMA Kinds ==
    /\ Answering \cap Asked = {} /\ Answering \cap Streamed = {} /\ "list" \notin Answering
    /\ "subscription" \notin Answering \cup Asked \cup Streamed /\ "subscribe" \notin Answering
    /\ {"list", "subscribe"} \subseteq Asked
  BY DEF Answering, Asked, Streamed

LEMMA ClientFacts ==
    ASSUME NEW p, NEW r, NEW A, NEW S, Client(p, r, A, S), Common
    PROVE  /\ p \in Pulls(S) /\ r \in 0 .. calls /\ calls \in Nat /\ total \in Nat
           /\ p.request \in Nat /\ p.request <= calls
  BY ServiceNumbers DEF Client, WalkInv, SubscriptionInv, Common, Pulls

LEMMA NoClient ==
    ASSUME NEW A \in Answering, NEW S, Common, \A m \in wire : m.kind = A => PageIsWhole(m.arg, S)
    PROVE  Client(NoPull, 0, A, S)
  <1>1. /\ NoPull \in Pulls(S) /\ NoPull.request = 0 /\ Walked(NoPull) /\ NoPull.cursor = 0
    <2>1. total \in Nat
        BY ServiceNumbers DEF Common
    <2> QED
        BY <2>1, NoPullIsWalked DEF NoPull
  <1>2. \A m \in wire : m.kind = "list" => m.id # 0
      BY Kinds DEF Common, WireIsSound, MessageIsSound
  <1> QED
      BY <1>1, <1>2 DEF Client, WalkInv, SubscriptionInv, SubscriptionComes, PageComes, Common

(* It asks for the first page.                                             *)
LEMMA ClientWalks ==
    ASSUME NEW p, NEW r, NEW A, NEW S, Client(p, r, A, S), Common,
           NEW ok \in BOOLEAN, Asks(ok, "list", [cursor |-> 0]),
           NEW q, q = AskPage(NoPull, 1, ok), NEW s \in {0, r}
    PROVE  Common' /\ Client(q, s, A, S)' /\ SamePlace
  <1>1. /\ WireIsSound' /\ calls' = calls + 1 /\ SamePlace /\ wire \subseteq wire'
        /\ \A m \in wire' \ wire : m.kind = "list" /\ m.arg.cursor = 0 /\ m.id = calls + 1
        /\ ok => \E m \in wire' : m.kind = "list" /\ m.id = calls + 1
    <2>1. "list" \in Asked /\ [cursor |-> 0].cursor = 0
        BY DEF Asked
    <2> QED
        BY <2>1, AsksFacts DEF Common
  <1>2. calls \in Nat /\ total \in Nat /\ UNCHANGED <<total, presence, gaveUp>> /\ r \in 0 .. calls
      BY <1>1, ClientFacts DEF SamePlace
  <1>3. /\ q \in Pulls(S) /\ q.request = (IF ok THEN calls + 1 ELSE 0) /\ q.cursor = 0 /\ Walked(q)
    <2>1. NoPull.cursor = 0
        BY DEF NoPull
    <2> QED
        BY <1>2, <2>1, NoPullIsWalked, AskPageFacts
  <1>4. WalkInv(q, A, S)'
    <2>1. \A m \in wire' \ wire : m.kind # A
        BY <1>1, Kinds DEF Client
    <2> QED
        BY <1>1, <1>2, <1>3, <2>1, WalkAsks DEF Common, Client
  <1>5. SubscriptionInv(s)'
      BY <1>1, <1>2, SubscriptionMoves DEF Client
  <1> QED
      BY <1>1, <1>2, <1>3, <1>4, <1>5 DEF Client, Common

(* It asks for something else: to be subscribed, or not.                   *)
LEMMA ClientAsks ==
    ASSUME NEW p, NEW r, NEW A, NEW S, Client(p, r, A, S), Common,
           NEW ok \in BOOLEAN, NEW kind \in Asked \ {"list"}, NEW arg, Asks(ok, kind, arg)
    PROVE  /\ Common' /\ Client(p, r, A, S)' /\ SamePlace
           /\ \A s : kind = "subscribe" /\ s = Id(1, ok) => Client(p, s, A, S)'
           /\ \A m \in wire' : m \in wire \/ (m.kind = kind /\ m.arg = arg)
  <1>1. /\ WireIsSound' /\ calls' = calls + 1 /\ SamePlace /\ wire \subseteq wire'
        /\ \A m \in wire' \ wire : m.kind = kind /\ m.arg = arg
        /\ ok => \E m \in wire' : m.kind = kind /\ m.id = calls + 1
      BY AsksFacts DEF Common
  <1>2. calls \in Nat /\ UNCHANGED <<total, presence, gaveUp>> /\ p.request <= calls /\ p.request \in Nat
      BY <1>1, ClientFacts DEF SamePlace
  <1>3. Common'
      BY <1>1, <1>2 DEF Common
  <1>4. WalkInv(p, A, S)' /\ SubscriptionInv(r)'
    <2>1. A # "list" /\ \A m \in wire' \ wire : m.kind # "list" /\ m.kind # A
        BY <1>1, Kinds DEF Client
    <2> QED
        BY <1>1, <1>2, <2>1, NothingIsLost DEF Client
  <1>5. ASSUME NEW s, kind = "subscribe", s = Id(1, ok)
        PROVE  Client(p, s, A, S)'
    <2>1. s = IF ok THEN calls + 1 ELSE 0
        BY <1>5 DEF Id
    <2>2. SubscriptionInv(s)'
        BY <1>1, <1>2, <1>5, <2>1, SubscriptionAsks
    <2> QED
        BY <1>2, <1>4, <2>1, <2>2 DEF Client
  <1> QED
      BY <1>1, <1>3, <1>4, <1>5 DEF Client

(* It hears a page: one that the walk does not want changes nothing.       *)
LEMMA ClientHearsPage ==
    ASSUME NEW p, NEW r, NEW A, NEW S, Client(p, r, A, S), Common,
           NEW m \in wire, m.kind = A, NEW again \in BOOLEAN, NEW ok \in BOOLEAN,
           NEW open \in BOOLEAN, NEW read, read = ApplyPage(p, m.arg),
           NEW asks \in BOOLEAN, asks <=> open /\ Wanted(p, m.arg) /\ ~read.complete,
           ~open => p.request = 0,
           Hears(m, again, asks, ok, "list", [cursor |-> read.cursor]),
           NEW q, q = IF ~open THEN p ELSE IF asks THEN AskPage(read, 1, ok) ELSE read
    PROVE  Common' /\ Client(q, r, A, S)' /\ SamePlace
  <1>1. calls \in Nat /\ total \in Nat /\ p \in Pulls(S) /\ WalkInv(p, A, S) /\ PageIsWhole(m.arg, S)
      BY ClientFacts DEF Client, WalkInv
  <1>2. /\ Wanted(p, m.arg) => /\ read \in Pulls(S) /\ read.request = 0
                               /\ Walked(p) => Walked(read)
        /\ ~Wanted(p, m.arg) => read = p
    <2>1. CASE Wanted(p, m.arg)
        BY <1>1, <2>1, ApplyKeeps
    <2>2. CASE ~Wanted(p, m.arg)
        BY <2>2 DEF ApplyPage
    <2> QED
        BY <2>1, <2>2
  <1>3. read \in Pulls(S) /\ read.cursor \in Nat /\ asks \in BOOLEAN
      BY <1>1, <1>2 DEF Pulls
  <1>4. /\ WireIsSound' /\ SamePlace /\ wire \ {m} \subseteq wire'
        /\ calls' = (IF asks THEN calls + 1 ELSE calls)
        /\ ~asks => wire' \subseteq wire
        /\ \A k \in wire' \ wire : k.kind = "list" /\ k.arg = [cursor |-> read.cursor]
                                   /\ k.id = calls + 1
        /\ asks /\ ok => \E k \in wire' : k.kind = "list" /\ k.id = calls + 1
    <2>1. PICK arg : arg = [cursor |-> read.cursor]
        OBVIOUS
    <2>2. arg.cursor \in Nat
        BY <1>3, <2>1
    <2>3. Hears(m, again, asks, ok, "list", arg) /\ WireIsSound
        BY <2>1 DEF Common
    <2> QED
        BY <1>1, <1>3, <2>1, <2>2, <2>3, HearsFacts
  <1>5. UNCHANGED <<total, presence, gaveUp>> /\ calls' \in Nat /\ calls <= calls' /\ Common'
      BY <1>1, <1>3, <1>4 DEF SamePlace, Common
  <1>6. WalkInv(q, A, S)' /\ (q.request = 0 \/ q.request = p.request \/ q.request = calls + 1)
    <2>1. CASE asks
      <3>1. q = AskPage(read, 1, ok) /\ Wanted(p, m.arg)
          BY <2>1
      <3>2. /\ q \in Pulls(S) /\ q.request = (IF ok THEN calls + 1 ELSE 0) /\ q.cursor = read.cursor
            /\ Walked(read) => Walked(q)
        <4>1. q = [read EXCEPT !.request = IF ok THEN calls + 1 ELSE 0]
            BY <3>1 DEF AskPage, Id
        <4> QED
            BY <1>1, <1>3, <4>1, SMTT(30) DEF Pulls, Walked
      <3>3. presence' = "up" => Walked(q)
          BY <1>1, <1>2, <1>5, <3>1, <3>2 DEF WalkInv
      <3>4. \A k \in wire' \ wire : k.kind # A /\ k.arg.cursor = q.cursor
          BY <1>4, <3>2, Kinds DEF Client
      <3>5. WireIsSound
          BY DEF Common
      <3>6. \/ q.request = 0
            \/ /\ q.request > calls /\ q.request <= calls'
               /\ \E k \in wire' : k.kind = "list" /\ k.id = q.request
               /\ \A k \in wire' \ wire : k.kind = "list" => k.arg.cursor = q.cursor
          BY <1>1, <1>4, <2>1, <3>2, <3>4
      <3>7. WalkInv(q, A, S)'
          BY <1>1, <1>4, <1>5, <3>2, <3>3, <3>4, <3>5, <3>6, WalkAsks
      <3> QED
          BY <3>2, <3>7
    <2>2. CASE ~asks /\ open /\ Wanted(p, m.arg)
      <3>1. /\ q = read /\ read \in Pulls(S) /\ read.request = 0 /\ (Walked(p) => Walked(read))
            /\ wire' \subseteq wire
          BY <1>2, <1>4, <2>2
      <3>2. presence' = "up" => Walked(q)
          BY <1>1, <1>5, <3>1 DEF WalkInv
      <3>3. \A k \in wire' \ wire : k.kind # A
          BY <3>1
      <3>4. WireIsSound
          BY DEF Common
      <3>5. WalkInv(q, A, S)'
          BY <1>1, <1>4, <1>5, <3>1, <3>2, <3>3, <3>4, WalkAsks
      <3> QED
          BY <3>1, <3>5
    <2>3. CASE ~asks /\ open /\ ~Wanted(p, m.arg)
      <3>1. /\ q = p /\ wire' \subseteq wire /\ A # "list"
            /\ \A k \in wire \ wire' : k.kind = A /\ ~Wanted(p, k.arg)
          BY <1>2, <1>4, <2>3, Kinds DEF Client
      <3>2. WalkInv(p, A, S)'
          BY <1>1, <1>4, <1>5, <3>1, WalkMoves
      <3> QED
          BY <3>1, <3>2
    <2>4. CASE ~open
      <3>1. /\ q = p /\ wire' \subseteq wire /\ A # "list" /\ ~asks
            /\ p.request = 0
          BY <1>4, <2>4, Kinds DEF Client
      <3>2. WalkInv(p, A, S)'
          BY <1>1, <1>4, <1>5, <3>1, WalkMoves
      <3> QED
          BY <3>1, <3>2
    <2> QED
        BY <2>1, <2>2, <2>3, <2>4
  <1>7. SubscriptionInv(r)'
    <2>1. \A k \in wire \ wire' : k.kind \notin {"subscribe", "subscription"}
        BY <1>4, Kinds DEF Client
    <2> QED
        BY <1>1, <1>5, <2>1, SubscriptionMoves DEF Client
  <1>8. r # 0 => r # q.request
      BY <1>1, <1>6, ClientFacts DEF Client
  <1> QED
      BY <1>4, <1>5, <1>6, <1>7, <1>8 DEF Client

(* It hears anything else.  An answer to a subscribe ends the wait for it. *)
Heard(m, again) == \E kind, arg : Hears(m, again, FALSE, TRUE, kind, arg)

LEMMA ClientHears ==
    ASSUME NEW p, NEW r, NEW A, NEW S, Client(p, r, A, S), Common,
           NEW m \in wire, m.kind # A, NEW again \in BOOLEAN, Heard(m, again),
           NEW q \in Pulls(S), q.request = p.request, q.cursor = p.cursor, Walked(p) => Walked(q),
           NEW s \in {0, r}, m.kind = "subscription" => s = 0
    PROVE  /\ Common' /\ Client(q, s, A, S)' /\ SamePlace /\ wire' \subseteq wire
           /\ m.kind \notin Asked
  <1>1. /\ WireIsSound' /\ SamePlace /\ wire \ {m} \subseteq wire' /\ wire' \subseteq wire
        /\ UNCHANGED calls /\ m.kind \notin Asked
    <2>1. PICK kind, arg : Hears(m, again, FALSE, TRUE, kind, arg)
        BY DEF Heard
    <2> QED
        BY <2>1, HearsFacts DEF Common
  <1>2. /\ UNCHANGED <<total, presence, gaveUp>> /\ calls \in Nat /\ Common'
        /\ A # "list" /\ A # "subscription"
      BY <1>1, Kinds DEF SamePlace, Common, Client
  <1>3. \A k \in wire \ wire' : k = m /\ k.kind \notin {"list", "subscribe", A}
                                /\ (k.kind = "subscription" => s = 0)
      BY <1>1, Kinds
  <1>4. WalkInv(q, A, S)'
      BY <1>1, <1>2, <1>3, WalkMoves DEF Client
  <1>5. SubscriptionInv(s)'
      BY <1>1, <1>2, <1>3, SubscriptionMoves DEF Client
  <1> QED
      BY <1>1, <1>2, <1>4, <1>5 DEF Client

(* It gives up on a request, and waits for it no longer.                   *)
LEMMA ClientFails ==
    ASSUME NEW p, NEW r, NEW A, NEW S, Client(p, r, A, S), Common, NEW m \in wire, RequestLost(m),
           NEW q, q = IF p.request = m.id THEN Abandon(p) ELSE p,
           NEW s \in {0, r}, (r = m.id /\ p.request # m.id) => s = 0
    PROVE  Common' /\ Client(q, s, A, S)' /\ SamePlace /\ wire' \subseteq wire
  <1>1. /\ WireIsSound' /\ SamePlace /\ UNCHANGED calls
        /\ wire' \subseteq wire /\ wire \ wire' \subseteq {m}
        /\ m.kind \in Asked /\ m.id \in 1 .. calls
      BY RequestLostFacts DEF Common
  <1>2. /\ UNCHANGED <<total, presence, gaveUp>> /\ calls \in Nat /\ Common'
        /\ A # "list" /\ A # "subscription" /\ A \notin Asked
      BY <1>1, Kinds DEF SamePlace, Common, Client
  <1>3. /\ q \in Pulls(S) /\ q.cursor = p.cursor /\ (Walked(p) => Walked(q))
        /\ q.request = IF p.request = m.id THEN 0 ELSE p.request
      BY AbandonFacts, ClientFacts
  <1>4. WalkInv(q, A, S)'
      BY <1>1, <1>2, <1>3, WalkMoves DEF Client
  <1>5. SubscriptionInv(s)'
    <2>1. r = m.id => s = 0
        BY <1>1 DEF Client
    <2>2. \A k \in wire \ wire' : k.kind # "subscription" /\ (k.id = r => s = 0)
        BY <1>1, <2>1, Kinds
    <2> QED
        BY <1>1, <1>2, <2>2, SubscriptionMoves DEF Client
  <1> QED
      BY <1>1, <1>2, <1>3, <1>4, <1>5 DEF Client

(* The node answers: a page request with the page, a subscribe with the    *)
(* subscription, anything else with no page.                               *)
LEMMA ClientServed ==
    ASSUME NEW p, NEW r, NEW A, NEW S, Client(p, r, A, S), Common,
           NEW m \in wire, NEW again \in BOOLEAN, NEW out, Serves(m, again, out),
           \A k \in out : k.kind \notin Asked /\ MessageIsSound(k)
                          /\ (k.kind = A => PageIsWhole(k.arg, S)),
           m.kind = "list" => /\ m.id = p.request /\ presence = "up" =>
                                     \E k \in out : k.kind = A /\ Wanted(p, k.arg),
           m.kind = "subscribe" => \E k \in out : k.kind = "subscription"
    PROVE  /\ Common' /\ Client(p, r, A, S)' /\ SamePlace
           /\ m.kind \in Asked /\ wire' \subseteq wire \cup out
  <1>1. /\ WireIsSound' /\ SamePlace /\ UNCHANGED calls /\ m.kind \in Asked
        /\ wire \ {m} \subseteq wire' /\ out \subseteq wire' /\ wire' \subseteq wire \cup out
      BY ServesFacts DEF Common
  <1>2. /\ UNCHANGED <<total, presence, gaveUp>> /\ calls \in Nat /\ Common'
        /\ A # "list" /\ A # "subscription" /\ A \notin Asked /\ "subscription" \notin Asked
        /\ "list" \in Asked /\ A # "subscribe"
      BY <1>1, Kinds DEF SamePlace, Common, Client
  <1>3. \A k \in wire' \ wire : k.kind # "list" /\ (k.kind = A => PageIsWhole(k.arg, S))
      BY <1>1, <1>2
  <1>4. WalkInv(p, A, S)'
    <2>1. \A k \in wire \ wire' :
             \/ k.kind \notin {"list", A}
             \/ k.kind = "list" /\ k.kind # A /\ k.id # p.request
             \/ presence = "up" => \E e \in wire' : e.kind = A /\ Wanted(p, e.arg)
        BY <1>1, <1>2
    <2> QED
        BY <1>1, <1>2, <1>3, <2>1, ClientFacts, WalkMoves DEF Client
  <1>5. SubscriptionInv(r)'
    <2>1. \A k \in wire \ wire' : k.kind \notin {"subscribe", "subscription"}
                                 \/ \E e \in wire' : e.kind = "subscription"
        BY <1>1, <1>2
    <2> QED
        BY <1>1, <1>2, <2>1, SubscriptionMoves DEF Client
  <1> QED
      BY <1>1, <1>2, <1>4, <1>5 DEF Client

(* The node sends on its own.                                              *)
LEMMA ClientIsSent ==
    ASSUME NEW p, NEW r, NEW A, NEW S, Client(p, r, A, S), Common, NEW out, Sends(out),
           \A k \in out : k.kind \notin Asked \cup {A} /\ MessageIsSound(k)
    PROVE  Common' /\ Client(p, r, A, S)' /\ SamePlace /\ wire' = wire \cup out
  <1>1. WireIsSound' /\ SamePlace /\ UNCHANGED calls /\ wire' = wire \cup out
      BY SendsFacts DEF Common
  <1>2. /\ UNCHANGED <<total, presence, gaveUp>> /\ calls \in Nat /\ Common' /\ A # "list"
        /\ \A k \in wire' \ wire : k.kind # "list" /\ k.kind # A
      BY <1>1, Kinds DEF SamePlace, Common, Client
  <1>3. WalkInv(p, A, S)' /\ SubscriptionInv(r)'
      BY <1>1, <1>2, NothingIsLost DEF Client
  <1> QED
      BY <1>1, <1>2, <1>3 DEF Client

(* The node goes and comes: the entry is closed while it is away.          *)
LEMMA ClientIsAlone ==
    ASSUME NEW p, NEW r, NEW A, NEW S, Client(p, r, A, S), Common, NodeDown \/ NodeUp
    PROVE  Common' /\ Client(NoPull, 0, A, S)' /\ UNCHANGED wire
  <1>1. Common' /\ UNCHANGED <<calls, total, wire>>
      BY PresenceFacts DEF Common, NodeDown, NodeUp
  <1>2. \A m \in wire' : m.kind = A => PageIsWhole(m.arg, S)'
      BY <1>1 DEF Client, WalkInv, PageIsWhole
  <1>3. /\ NoPull \in Pulls(S) /\ NoPull.request = 0 /\ Walked(NoPull)' /\ NoPull.cursor = 0
    <2>1. total \in Nat
        BY ServiceNumbers DEF Common
    <2> QED
        BY <1>1, <2>1, NoPullIsWalked DEF NoPull, Walked
  <1>4. \A m \in wire' : m.kind = "list" => m.id # 0
      BY <1>1, Kinds DEF Common, WireIsSound, MessageIsSound
  <1>5. calls' \in Nat
      BY <1>1 DEF Common
  <1>6. WalkInv(NoPull, A, S)' /\ SubscriptionInv(0)'
      BY <1>2, <1>3, <1>4, <1>5 DEF WalkInv, SubscriptionInv, SubscriptionComes, PageComes
  <1> QED
      BY <1>1, <1>3, <1>6 DEF Client

LEMMA ClientIsCutOff ==
    ASSUME NEW p, NEW r, NEW A, NEW S, Client(p, r, A, S), Common, HubDown
    PROVE  /\ Common' /\ Client(p, r, A, S)' /\ UNCHANGED <<total, presence>> /\ cutOff' = TRUE
           /\ wire' = {m \in wire : m.kind \in Asked}
  <1>1. /\ WireIsSound' /\ UNCHANGED <<calls, presence, total>> /\ cutOff' = TRUE
        /\ wire' = {m \in wire : m.kind \in Asked} /\ (gaveUp => gaveUp')
        /\ \A m \in wire \ wire' : m.kind \notin Streamed => gaveUp'
      BY HubDownFacts DEF Common
  <1>2. /\ calls \in Nat /\ Common' /\ A # "list" /\ wire' \subseteq wire
        /\ UNCHANGED <<calls, presence, total>> /\ (gaveUp => gaveUp') /\ WireIsSound'
        /\ \A m \in wire \ wire' : m.kind \notin {"list", A, "subscribe", "subscription"} \/ gaveUp'
      BY <1>1, Kinds DEF Common, Client
  <1>3. WalkInv(p, A, S)' /\ SubscriptionInv(r)'
      BY <1>2, NothingIsLost DEF Client
  <1> QED
      BY <1>1, <1>2, <1>3 DEF Client

LEMMA ClientSeesReboot ==
    ASSUME NEW p, NEW r, NEW A, NEW S, Client(p, r, A, S), Common, Reboot
    PROVE  /\ Common' /\ Client(p, r, A, S)' /\ presence' = "stale" /\ total' \in Totals
           /\ wire' = {m \in wire : m.kind \in Asked}
  <1>1. /\ WireIsSound' /\ UNCHANGED calls /\ presence' = "stale" /\ total' \in Totals
        /\ wire' = {m \in wire : m.kind \in Asked}
      BY RebootFacts DEF Common
  <1>2. A \notin Asked
      BY Kinds DEF Client
  <1>3. WalkInv(p, A, S)' /\ SubscriptionInv(r)'
    <2>1. WalkInv(p, A, S) /\ SubscriptionInv(r) /\ presence' # "up"
        BY <1>1 DEF Client
    <2>2. WalkInv(p, A, S)'
        BY <1>1, <1>2, <2>1, WalkReboots
    <2> QED
        BY <1>1, <2>1, <2>2, SubscriptionReboots
  <1> QED
      BY <1>1, <1>3 DEF Client, Common

LEMMA ClientLosesAnswer ==
    ASSUME NEW p, NEW r, NEW A, NEW S, Client(p, r, A, S), Common, NEW m \in wire, AnswerLost(m)
    PROVE  /\ Common' /\ Client(p, r, A, S)' /\ UNCHANGED <<total, presence, cutOff>>
           /\ wire' \subseteq wire
  <1>1. /\ WireIsSound' /\ UNCHANGED <<calls, presence, total, cutOff>> /\ wire' = wire \ {m}
        /\ (gaveUp => gaveUp') /\ m.kind \notin Asked /\ (m.kind \notin Streamed => gaveUp')
      BY AnswerLostFacts DEF Common
  <1>2. /\ calls \in Nat /\ Common' /\ A # "list" /\ wire' \subseteq wire
        /\ \A k \in wire \ wire' : k.kind \notin {"list", A, "subscribe", "subscription"} \/ gaveUp'
      BY <1>1, Kinds DEF Common, Client
  <1>3. WalkInv(p, A, S)' /\ SubscriptionInv(r)'
      BY <1>1, <1>2, NothingIsLost DEF Client
  <1> QED
      BY <1>1, <1>2, <1>3 DEF Client

(* What the node sends.                                                    *)
LEMMA AnswerFacts ==
    ASSUME NEW dst, NEW kind, kind \notin Asked \cup Streamed, NEW arg
    PROVE  /\ \A k \in Answer(dst, kind, arg) : k.kind = kind /\ k.arg = arg /\ MessageIsSound(k)
           /\ \E k \in Answer(Hub, kind, arg) : k.kind = kind /\ k.arg = arg
  <1>1. kind # "list"
      BY DEF Asked
  <1>2. PICK k : k = [to |-> "hub", kind |-> kind, id |-> 0, arg |-> arg]
      OBVIOUS
  <1>3. k.kind = kind /\ k.arg = arg /\ MessageIsSound(k)
      BY <1>1, <1>2 DEF MessageIsSound, IsStream
  <1>4. \A e : Answer(e, kind, arg) = IF e = Hub THEN {k} ELSE {}
      BY <1>2 DEF Answer
  <1> QED
      BY <1>3, <1>4

LEMMA StreamFacts ==
    ASSUME NEW dsts, NEW kind \in Streamed, NEW arg, NEW k \in Stream(dsts, kind, arg)
    PROVE  k.kind = kind /\ MessageIsSound(k)
  <1>1. kind \notin Asked
      BY DEF Asked, Streamed
  <1>2. k = [to |-> "hub", kind |-> kind, id |-> -1, arg |-> arg]
      BY DEF Stream
  <1>3. k.to = "hub" /\ k.kind = kind /\ k.id = -1
      BY <1>2
  <1> QED
      BY <1>1, <1>3 DEF MessageIsSound, IsStream, Asked

-----------------------------------------------------------------------------
(* The telemetry service.                                                  *)

LEMMA TlIs ==
    ASSUME TlInv
    PROVE  /\ Client(tlEntry.table, tlEntry.request, "descriptors", TlItems)
           /\ DOMAIN tlEntry = {"open", "table", "config", "period", "hasConfig", "subscribed",
                                "request"}
           /\ ~tlEntry.open => tlEntry = NoTlEntry
           /\ tlEntry.open => presence # "down"
           /\ NoTlEntry.table = NoPull /\ NoTlEntry.request = 0 /\ ~NoTlEntry.open
           /\ DOMAIN NoTlEntry = DOMAIN tlEntry /\ NoPull.request = 0
  BY DEF TlInv, EntryInv, NoTlEntry, Client, Answering, NoPull

LEMMA TlParts ==
    ASSUME NEW q, q = tlEntry'.table, NEW s, s = tlEntry'.request,
           DOMAIN tlEntry' = DOMAIN NoTlEntry, ~tlEntry'.open => tlEntry' = NoTlEntry,
           tlEntry'.open => presence' # "down", Client(q, s, "descriptors", TlItems)'
    PROVE  TlInv'
  BY DEF TlInv, EntryInv, Client, WalkInv, Walked, PageComes, Wanted, SubscriptionInv,
         SubscriptionComes

LEMMA TlStays ==
    ASSUME TlInv, UNCHANGED tlEntry, presence' # "down" \/ UNCHANGED presence,
           NEW p, p = tlEntry.table, NEW r, r = tlEntry.request,
           Client(p, r, "descriptors", TlItems)'
    PROVE  TlInv'
  BY TlIs, TlParts

LEMMA TlStep ==
    ASSUME TlInv, Common, TlNext
    PROVE  Common' /\ TlInv'
  <1>0. PICK p, r : p = tlEntry.table /\ r = tlEntry.request
      OBVIOUS
  <1>1. Client(p, r, "descriptors", TlItems)
      BY <1>0, TlIs
  <1>2. "descriptors" \in Answering /\ TlInv
      BY DEF Answering
  <1>3. ASSUME TlOnIdentity PROVE Common' /\ TlInv'
    <2>1. PICK ok \in BOOLEAN : /\ presence = "up" /\ Asks(ok, "list", [cursor |-> 0])
                                /\ tlEntry' = TlOpened(ok)
        BY <1>3 DEF TlOnIdentity
    <2>2. PICK q : q = AskPage(NoPull, 1, ok)
        OBVIOUS
    <2>3. Common' /\ Client(q, 0, "descriptors", TlItems)' /\ SamePlace
        BY <1>1, <2>1, <2>2, ClientWalks
    <2>4. tlEntry' = [NoTlEntry EXCEPT !.open = TRUE, !.table = q]
        BY <2>1, <2>2 DEF TlOpened
    <2>5. tlEntry'.table = q /\ tlEntry'.request = 0 /\ DOMAIN tlEntry' = DOMAIN NoTlEntry
          /\ tlEntry'.open = TRUE
        BY <2>4, TlIs
    <2> QED
        BY <2>1, <2>3, <2>5, TlParts DEF SamePlace
  <1>4. ASSUME TlRefresh PROVE Common' /\ TlInv'
    <2>1. PICK ok \in BOOLEAN : /\ tlEntry.open /\ Asks(ok, "list", [cursor |-> 0])
                                /\ tlEntry' = [tlEntry EXCEPT !.table = AskPage(NoPull, 1, ok)]
        BY <1>4 DEF TlRefresh
    <2>2. PICK q : q = AskPage(NoPull, 1, ok)
        OBVIOUS
    <2>3. Common' /\ Client(q, r, "descriptors", TlItems)' /\ SamePlace
        BY <1>1, <2>1, <2>2, ClientWalks
    <2>4. tlEntry'.table = q /\ tlEntry'.request = r /\ DOMAIN tlEntry' = DOMAIN NoTlEntry
          /\ tlEntry'.open
        BY <1>0, <2>1, <2>2, TlIs
    <2> QED
        BY <2>1, <2>3, <2>4, TlIs, TlParts DEF SamePlace
  <1>5. ASSUME TlConfigure PROVE Common' /\ TlInv'
    <2>1. PICK config \in Configs, ok \in BOOLEAN :
             Asks(ok, "configure", config) /\ UNCHANGED tlEntry
        BY <1>5 DEF TlConfigure, tlVars
    <2>2. "configure" \in Asked \ {"list"}
        BY DEF Asked
    <2>3. Common' /\ Client(p, r, "descriptors", TlItems)' /\ SamePlace
        BY <1>1, <2>1, <2>2, ClientAsks
    <2> QED
        BY <1>0, <2>1, <2>3, TlStays DEF SamePlace
  <1>6. ASSUME TlSubscribe PROVE Common' /\ TlInv'
    <2>1. PICK enabled, ok \in BOOLEAN :
             /\ tlEntry.open /\ Asks(ok, "subscribe", [enabled |-> enabled])
             /\ tlEntry' = [tlEntry EXCEPT !.request = Id(1, ok)]
        BY <1>6 DEF TlSubscribe
    <2>2. "subscribe" \in Asked \ {"list"}
        BY DEF Asked
    <2>3. PICK s : s = Id(1, ok)
        OBVIOUS
    <2>4. Common' /\ Client(p, s, "descriptors", TlItems)' /\ SamePlace
        BY <1>1, <2>1, <2>2, <2>3, ClientAsks
    <2>5. tlEntry'.table = p /\ tlEntry'.request = s /\ DOMAIN tlEntry' = DOMAIN NoTlEntry
          /\ tlEntry'.open
        BY <1>0, <2>1, <2>3, TlIs
    <2> QED
        BY <2>1, <2>4, <2>5, TlIs, TlParts DEF SamePlace
  <1>7. ASSUME TlOnPage PROVE Common' /\ TlInv'
    <2>1. PICK m \in wire, again \in BOOLEAN, ok \in BOOLEAN :
             LET table == ApplyPage(tlEntry.table, m.arg)
                 asks == tlEntry.open /\ Wanted(tlEntry.table, m.arg) /\ ~table.complete
             IN /\ m.kind = "descriptors"
                /\ Hears(m, again, asks, ok, "list", [cursor |-> table.cursor])
                /\ tlEntry' = IF tlEntry.open
                              THEN [tlEntry EXCEPT !.table = IF asks THEN AskPage(table, 1, ok)
                                                                     ELSE table]
                              ELSE tlEntry
        BY <1>7 DEF TlOnPage
    <2>2. PICK read : read = ApplyPage(p, m.arg)
        OBVIOUS
    <2>3. PICK open \in BOOLEAN : open <=> tlEntry.open
        OBVIOUS
    <2>4. PICK asks \in BOOLEAN : asks = (tlEntry.open /\ Wanted(p, m.arg) /\ ~read.complete)
        OBVIOUS
    <2>5. PICK q : q = IF ~open THEN p ELSE IF asks THEN AskPage(read, 1, ok) ELSE read
        OBVIOUS
    <2>6. /\ m.kind = "descriptors" /\ Hears(m, again, asks, ok, "list", [cursor |-> read.cursor])
          /\ tlEntry' = IF open THEN [tlEntry EXCEPT !.table = q] ELSE tlEntry
        BY <1>0, <2>1, <2>2, <2>3, <2>4, <2>5
    <2>7. ~open => p.request = 0
        BY <1>0, <2>3, TlIs
    <2>8. asks <=> open /\ Wanted(p, m.arg) /\ ~read.complete
        BY <2>3, <2>4
    <2>9. Common' /\ Client(q, r, "descriptors", TlItems)' /\ SamePlace
        BY <1>1, <2>2, <2>5, <2>6, <2>7, <2>8, ClientHearsPage
    <2>10. /\ tlEntry'.table = q /\ tlEntry'.request = r /\ DOMAIN tlEntry' = DOMAIN NoTlEntry
           /\ tlEntry'.open = tlEntry.open /\ (~open => tlEntry' = tlEntry)
        BY <1>0, <2>3, <2>5, <2>6, TlIs
    <2> QED
        BY <2>3, <2>9, <2>10, TlIs, TlParts DEF SamePlace
  <1>8. ASSUME TlOnMessage PROVE Common' /\ TlInv'
    <2>1. PICK m \in wire, again \in BOOLEAN :
             /\ m.kind \in {"config", "subscription"}
             /\ Hears(m, again, FALSE, TRUE, m.kind, 0)
             /\ tlEntry' = IF ~tlEntry.open THEN tlEntry
                           ELSE IF m.kind = "config"
                                THEN [tlEntry EXCEPT !.config = m.arg.ids, !.period = m.arg.period,
                                                     !.hasConfig = TRUE]
                                ELSE [tlEntry EXCEPT !.subscribed = m.arg.enabled, !.request = 0]
        BY <1>8 DEF TlOnMessage
    <2>2. PICK s : s = tlEntry'.request
        OBVIOUS
    <2>3. /\ tlEntry'.table = p /\ DOMAIN tlEntry' = DOMAIN NoTlEntry
          /\ tlEntry'.open = tlEntry.open /\ (~tlEntry.open => tlEntry' = tlEntry)
          /\ s \in {0, r} /\ (m.kind = "subscription" => s = 0)
        BY <1>0, <2>1, <2>2, TlIs
    <2>4. PICK q : q = p
        OBVIOUS
    <2>7. /\ q \in Pulls(TlItems) /\ q.request = p.request /\ q.cursor = p.cursor
          /\ (Walked(p) => Walked(q)) /\ m.kind # "descriptors"
          /\ s \in {0, r} /\ (m.kind = "subscription" => s = 0)
        BY <1>1, <2>1, <2>3, <2>4, ClientFacts
    <2>5. Heard(m, again)
        BY <2>1 DEF Heard
    <2>6. Common' /\ Client(q, s, "descriptors", TlItems)' /\ SamePlace
        BY <1>1, <2>5, <2>7, ClientHears
    <2> QED
        BY <2>2, <2>3, <2>4, <2>6, TlIs, TlParts DEF SamePlace
  <1>9. ASSUME TlOnNodeDown \/ (NodeUp /\ UNCHANGED tlVars) PROVE Common' /\ TlInv'
    <2>1. tlEntry' = NoTlEntry /\ (NodeDown \/ NodeUp)
        BY <1>9, PresenceFacts, TlIs DEF TlOnNodeDown, tlVars, Common
    <2>2. Common' /\ Client(NoPull, 0, "descriptors", TlItems)'
        BY <1>1, <2>1, ClientIsAlone
    <2> QED
        BY <2>1, <2>2, TlIs, TlParts
  <1>10. ASSUME TlOnRequestFailed PROVE Common' /\ TlInv'
    <2>1. PICK m \in wire : RequestLost(m) /\ tlEntry' = TlFailed(m.id)
        BY <1>10 DEF TlOnRequestFailed
    <2>2. m.id # 0
        BY <2>1, RequestLostFacts DEF Common
    <2>3. PICK q : q = IF p.request = m.id THEN Abandon(p) ELSE p
        OBVIOUS
    <2>4. PICK s : s = tlEntry'.request
        OBVIOUS
    <2>5. /\ tlEntry'.table = q /\ DOMAIN tlEntry' = DOMAIN NoTlEntry
          /\ tlEntry'.open = tlEntry.open /\ (~tlEntry.open => tlEntry' = tlEntry)
          /\ s \in {0, r} /\ (r = m.id /\ p.request # m.id => s = 0)
        BY <1>0, <2>1, <2>2, <2>3, <2>4, TlIs DEF TlFailed
    <2>6. Common' /\ Client(q, s, "descriptors", TlItems)' /\ SamePlace
        BY <1>1, <2>1, <2>3, <2>5, ClientFails
    <2> QED
        BY <2>4, <2>5, <2>6, TlIs, TlParts DEF SamePlace
  <1>11. ASSUME TlServe PROVE Common' /\ TlInv'
    <2>1. PICK m \in wire, again \in BOOLEAN :
             LET configured == Configured(m.arg)
                 subscribed == TlSubscribed(Hub, m.arg.enabled)
             IN \/ /\ m.kind = "list"
                   /\ Serves(m, again, Answer(Hub, "descriptors", Page(m.arg.cursor, Descriptors)))
                   /\ UNCHANGED tlVars
                \/ /\ m.kind = "configure"
                   /\ Serves(m, again, TellConfig(configured, Hub))
                   /\ tlNode' = configured /\ UNCHANGED tlEntry
                \/ /\ m.kind = "subscribe"
                   /\ Serves(m, again, SubscriptionAnswer(m.arg.enabled, subscribed.subscribers))
                   /\ tlNode' = subscribed /\ UNCHANGED tlEntry
        BY <1>11 DEF TlServe
    <2>2. UNCHANGED tlEntry
        BY <2>1 DEF tlVars
    <2>3. CASE /\ m.kind = "list"
               /\ Serves(m, again, Answer(Hub, "descriptors", Page(m.arg.cursor, Descriptors)))
      <3>1. PICK page, out : /\ page = Page(m.arg.cursor, Descriptors)
                             /\ out = Answer(Hub, "descriptors", page)
          OBVIOUS
      <3>2. /\ \A k \in out : k.kind = "descriptors" /\ k.arg = page /\ MessageIsSound(k)
            /\ \E k \in out : k.kind = "descriptors" /\ k.arg = page
        <4>1. "descriptors" \notin Asked \cup Streamed
            BY DEF Asked, Streamed
        <4> QED
            BY <3>1, <4>1, AnswerFacts
      <3>3. PICK k \in out : k.kind = "descriptors" /\ k.arg = page
          BY <3>2
      <3>4. PICK table : table = Descriptors
          OBVIOUS
      <3>5. /\ table \in [0 .. total - 1 -> TlItems] /\ \A i \in 0 .. total - 1 : table[i].id = i
            /\ page = Page(m.arg.cursor, table)
          BY ClientFacts, <1>1, <3>1, <3>4 DEF Descriptors, TlItems
      <3>6. WalkInv(p, "descriptors", TlItems) /\ "descriptors" # "list"
          BY <1>1 DEF Client
      <3>7. PageIsWhole(page, TlItems)
            /\ (m.id = p.request /\ presence = "up" => Wanted(p, k.arg))
        <4>1. /\ PageIsWhole(page, TlItems)
              /\ m.id = p.request /\ presence = "up" => Wanted(p, page)
            BY <2>3, <3>5, <3>6, PageAnswers
        <4> QED
            BY <3>3, <4>1
      <3>8. \A e \in out : e.kind \notin Asked /\ MessageIsSound(e)
                           /\ (e.kind = "descriptors" => PageIsWhole(e.arg, TlItems))
          BY <1>2, <3>2, <3>7, Kinds
      <3>9. Common' /\ Client(p, r, "descriptors", TlItems)' /\ SamePlace
          BY <1>1, <2>3, <3>1, <3>3, <3>7, <3>8, ClientServed
      <3> QED
          BY <1>0, <2>2, <3>9, TlStays DEF SamePlace
    <2>4. CASE m.kind = "configure" /\ Serves(m, again, TellConfig(Configured(m.arg), Hub))
      <3>1. \A k \in TellConfig(Configured(m.arg), Hub) : k.kind = "config" /\ MessageIsSound(k)
        <4>1. "config" \notin Asked \cup Streamed
            BY DEF Asked, Streamed
        <4> QED
            BY <4>1, AnswerFacts DEF TellConfig
      <3>2. PICK out : out = TellConfig(Configured(m.arg), Hub)
          OBVIOUS
      <3>3. \A k \in out : k.kind \notin Asked /\ k.kind # "descriptors" /\ MessageIsSound(k)
          BY <3>1, <3>2 DEF Asked
      <3>4. Common' /\ Client(p, r, "descriptors", TlItems)' /\ SamePlace
          BY <1>1, <2>4, <3>2, <3>3, ClientServed
      <3> QED
          BY <1>0, <2>2, <3>4, TlStays DEF SamePlace
    <2>5. CASE m.kind = "subscribe"
               /\ \E subscribers : Serves(m, again, SubscriptionAnswer(m.arg.enabled, subscribers))
      <3>1. PICK out : /\ Serves(m, again, out)
                       /\ \E arg : out = Answer(Hub, "subscription", arg)
          BY <2>5 DEF SubscriptionAnswer
      <3>2. "subscription" \notin Asked \cup Streamed
          BY DEF Asked, Streamed
      <3>3. /\ \A k \in out : k.kind = "subscription" /\ MessageIsSound(k)
            /\ \E k \in out : k.kind = "subscription"
          BY <3>1, <3>2, AnswerFacts
      <3>4. Common' /\ Client(p, r, "descriptors", TlItems)' /\ SamePlace
          BY <1>1, <2>5, <3>1, <3>2, <3>3, ClientServed
      <3> QED
          BY <1>0, <2>2, <3>4, TlStays DEF SamePlace
    <2> QED
        BY <2>1, <2>3, <2>4, <2>5
  <1>12. ASSUME TlOther \/ TlSample PROVE Common' /\ TlInv'
    <2>1. PICK out : /\ Sends(out) /\ UNCHANGED tlEntry
                     /\ out = {} \/ \E node : out = TellConfig(node, Other)
        BY <1>12 DEF TlOther, TlSample
    <2>2. \A k \in out : k.kind = "config" /\ MessageIsSound(k)
      <3>1. "config" \notin Asked \cup Streamed
          BY DEF Asked, Streamed
      <3>2. ASSUME NEW node, NEW k \in TellConfig(node, Other)
            PROVE  k.kind = "config" /\ MessageIsSound(k)
          BY <3>1, AnswerFacts DEF TellConfig
      <3> QED
          BY <2>1, <3>2
    <2>3. \A k \in out : k.kind \notin Asked \cup {"descriptors"} /\ MessageIsSound(k)
        BY <2>2 DEF Asked
    <2>4. Common' /\ Client(p, r, "descriptors", TlItems)' /\ SamePlace
        BY <1>1, <2>1, <2>3, ClientIsSent
    <2> QED
        BY <1>0, <2>1, <2>4, TlStays DEF SamePlace
  <1>13. ASSUME TlHubDown PROVE Common' /\ TlInv'
    <2>1. Common' /\ Client(p, r, "descriptors", TlItems)' /\ UNCHANGED <<tlEntry, presence>>
        BY <1>1, <1>13, ClientIsCutOff DEF TlHubDown
    <2> QED
        BY <1>0, <2>1, TlStays
  <1>14. ASSUME TlReboot PROVE Common' /\ TlInv'
    <2>1. Common' /\ Client(p, r, "descriptors", TlItems)' /\ UNCHANGED tlEntry
          /\ presence' = "stale"
        BY <1>1, <1>14, ClientSeesReboot DEF TlReboot
    <2> QED
        BY <1>0, <2>1, TlStays
  <1>15. ASSUME \E m \in wire : AnswerLost(m) /\ UNCHANGED tlVars PROVE Common' /\ TlInv'
    <2>1. PICK m \in wire : AnswerLost(m) /\ UNCHANGED tlEntry
        BY <1>15 DEF tlVars
    <2>2. Common' /\ Client(p, r, "descriptors", TlItems)' /\ UNCHANGED presence
        BY <1>1, <2>1, ClientLosesAnswer
    <2> QED
        BY <1>0, <2>1, <2>2, TlStays
  <1> QED
      BY <1>3, <1>4, <1>5, <1>6, <1>7, <1>8, <1>9, <1>10, <1>11, <1>12, <1>13, <1>14, <1>15
      DEF TlNext

-----------------------------------------------------------------------------
(* The stream of a service: who the node serves.                           *)

LEMMA ServedStays ==
    ASSUME NEW e, NEW n, ServedInv(e, n), NEW f, NEW o, Common,
           Hub \in n.subscribers => Hub \in o.subscribers,
           \A m \in wire' \ wire :
               /\ m.kind = "subscribe" => m.arg.enabled = TRUE
               /\ m.kind = "subscription" /\ m.arg.enabled => Hub \in o.subscribers,
           presence' = "up" /\ ~cutOff' /\ f.subscribed =>
               \/ presence = "up" /\ ~cutOff /\ e.subscribed
               \/ Hub \in o.subscribers
    PROVE  ServedInv(f, o)'
  <1>1. \A m \in wire' : /\ m.kind = "subscribe" => m.arg.enabled = TRUE
                         /\ m.kind = "subscription" /\ m.arg.enabled => Hub \in o.subscribers
      BY DEF ServedInv
  <1>2. presence' = "up" /\ ~cutOff' /\ f.subscribed => Hub \in o.subscribers
      BY DEF ServedInv
  <1> QED
      BY <1>1, <1>2 DEF ServedInv

(* The node is left: by the hub, as it seems to it, or by its own reboot.  *)
LEMMA ServedEnds ==
    ASSUME NEW e, NEW n, ServedInv(e, n), NEW f, NEW o,
           wire' = {m \in wire : m.kind \in Asked}, presence' # "up" \/ cutOff' \/ ~f.subscribed
    PROVE  ServedInv(f, o)'
  <1>1. \A m \in wire' : m.kind # "subscription" /\ (m.kind = "subscribe" => m.arg.enabled = TRUE)
      BY Kinds DEF ServedInv
  <1> QED
      BY <1>1 DEF ServedInv

LEMMA SubscribeFacts ==
    ASSUME NEW subscribers, NEW src, NEW enabled \in BOOLEAN, src = Hub => enabled, Hub \in subscribers
    PROVE  Hub \in Subscribe(subscribers, src, enabled)
  BY ServiceNumbers DEF Subscribe, Add

LEMMA SubscriptionAnswerFacts ==
    ASSUME NEW subscribers, NEW enabled \in BOOLEAN,
           NEW out, out = SubscriptionAnswer(enabled, subscribers)
    PROVE  /\ \A k \in out : /\ k.kind = "subscription" /\ MessageIsSound(k)
                             /\ k.arg.enabled => Hub \in subscribers
           /\ \E k \in out : k.kind = "subscription"
  <1>1. "subscription" \notin Asked \cup Streamed
      BY DEF Asked, Streamed
  <1>2. PICK arg : arg = [enabled |-> enabled /\ Hub \in subscribers]
      OBVIOUS
  <1>3. out = Answer(Hub, "subscription", arg) /\ (arg.enabled => Hub \in subscribers)
      BY <1>2 DEF SubscriptionAnswer
  <1> QED
      BY <1>1, <1>3, AnswerFacts

-----------------------------------------------------------------------------
(* The lines of a node and their rate limit.                               *)

LEMMA LinesStay ==
    ASSUME LinesInv, DOMAIN lgNode' = DOMAIN lgNode,
           UNCHANGED <<lgNode.window, lgNode.windowDropped, lgNode.dropped, lgNode.reported>>
    PROVE  LinesInv'
  BY DEF LinesInv, EveryLineCounted, NewLgNode

LEMMA NoLineYet ==
    ASSUME NEW count
    PROVE  LET node == NewLgNode(count)
           IN /\ DOMAIN node = DOMAIN NewLgNode(0) /\ node.subscribers = {}
              /\ node.level = [i \in 0 .. count - 1 |-> DefaultLevel]
              /\ node.window = 0 /\ node.windowDropped = 0 /\ node.dropped = 0 /\ node.reported = 0
  BY DEF NewLgNode

LEMMA LinesStart ==
    ASSUME NEW count, lgNode' = NewLgNode(count)
    PROVE  LinesInv'
  <1>1. /\ DOMAIN lgNode' = DOMAIN NewLgNode(0) /\ lgNode'.window = 0 /\ lgNode'.windowDropped = 0
        /\ lgNode'.dropped = 0 /\ lgNode'.reported = 0
      BY DEF NewLgNode
  <1> QED
      BY <1>1, LogAssumption DEF LinesInv, EveryLineCounted

(* One line: the window and what it dropped start over, the counts do not. *)
LEMMA LinesAreCounted ==
    ASSUME LinesInv, NEW elapsed \in BOOLEAN, lgNode' = Written(lgNode, elapsed)
    PROVE  LinesInv'
  <1> DEFINE noticed == IF lgNode.windowDropped = 0 THEN [lgNode EXCEPT !.window = 0]
                        ELSE [lgNode EXCEPT !.window = 1, !.windowDropped = 0,
                                     !.reported = @ + lgNode.windowDropped]
             at == IF elapsed THEN noticed ELSE lgNode
  <1>1. /\ lgNode.window \in Nat /\ lgNode.windowDropped \in Nat /\ lgNode.dropped \in Nat
        /\ lgNode.reported \in Nat /\ lgNode.window <= MaxLines
        /\ lgNode.dropped = lgNode.reported + lgNode.windowDropped
        /\ DOMAIN lgNode = {"subscribers", "level", "window", "windowDropped", "dropped", "reported"}
        /\ MaxLines \in Nat \ {0}
      BY LogAssumption DEF LinesInv, EveryLineCounted, NewLgNode
  <1>2. /\ noticed.window \in {0, 1} /\ noticed.windowDropped = 0 /\ noticed.dropped = lgNode.dropped
        /\ noticed.reported = lgNode.dropped /\ DOMAIN noticed = DOMAIN lgNode
      BY <1>1
  <1>3. /\ at.window \in Nat /\ at.windowDropped \in Nat /\ at.dropped \in Nat /\ at.reported \in Nat
        /\ at.window <= MaxLines /\ at.dropped = at.reported + at.windowDropped
        /\ DOMAIN at = {"subscribers", "level", "window", "windowDropped", "dropped", "reported"}
    <2> HIDE DEF noticed
    <2> QED
        BY <1>1, <1>2
  <1>4. lgNode' = IF at.window >= MaxLines
                  THEN [at EXCEPT !.windowDropped = @ + 1, !.dropped = @ + 1]
                  ELSE [at EXCEPT !.window = @ + 1]
      BY DEF Written
  <1> HIDE DEF at
  <1>5. /\ lgNode'.window \in Nat /\ lgNode'.windowDropped \in Nat /\ lgNode'.dropped \in Nat
        /\ lgNode'.reported \in Nat /\ lgNode'.window <= MaxLines
        /\ lgNode'.dropped = lgNode'.reported + lgNode'.windowDropped
        /\ DOMAIN lgNode' = {"subscribers", "level", "window", "windowDropped", "dropped", "reported"}
      BY <1>1, <1>3, <1>4
  <1> QED
      BY <1>5 DEF LinesInv, EveryLineCounted, NewLgNode

-----------------------------------------------------------------------------
(* The log service.                                                        *)

LevelsKnown == Levels \cup {DefaultLevel}

LgArgs(m) ==
    /\ m.kind = "setLevel" => m.arg.id \in Nat
    /\ m.kind = "moduleInfo" => m.arg \in LgItems
    /\ m.kind = "subscribe" => m.arg.enabled = TRUE

LEMMA LgIs ==
    ASSUME LgInv
    PROVE  /\ Client(lgEntry.modules, lgEntry.request, "modules", LgItems)
           /\ DOMAIN lgEntry = {"open", "subscribed", "request", "modules"}
           /\ ~lgEntry.open => lgEntry = NoLgEntry
           /\ lgEntry.open => presence # "down"
           /\ NoLgEntry.modules = NoPull /\ NoLgEntry.request = 0 /\ ~NoLgEntry.open
           /\ ~NoLgEntry.subscribed
           /\ DOMAIN NoLgEntry = DOMAIN lgEntry /\ NoPull.request = 0
           /\ lgNode.level \in [0 .. total - 1 -> LevelsKnown] /\ ServedInv(lgEntry, lgNode)
           /\ \A m \in wire : LgArgs(m)
  BY DEF LgInv, EntryInv, NoLgEntry, Client, Answering, NoPull, LevelsKnown, LgArgs, ServedInv

LEMMA LgParts ==
    ASSUME NEW e, e = lgEntry', NEW n, n = lgNode',
           DOMAIN e = DOMAIN NoLgEntry, ~e.open => e = NoLgEntry, e.open => presence' # "down",
           Client(e.modules, e.request, "modules", LgItems)',
           n.level \in [0 .. total' - 1 -> LevelsKnown], \A m \in wire' : LgArgs(m),
           ServedInv(e, n)'
    PROVE  LgInv'
  <1>1. EntryInv(lgEntry, NoLgEntry)' /\ ServedInv(lgEntry, lgNode)'
      BY DEF EntryInv, ServedInv
  <1>2. WalkInv(lgEntry.modules, "modules", LgItems)'
      BY DEF Client, WalkInv, Walked, PageComes, Wanted
  <1>3. SubscriptionInv(lgEntry.request)'
      BY DEF Client, SubscriptionInv, SubscriptionComes
  <1>4. lgEntry'.request # 0 => lgEntry'.request # lgEntry'.modules.request
      BY DEF Client
  <1>5. lgNode'.level \in [0 .. total' - 1 -> Levels \cup {DefaultLevel}]
      BY DEF LevelsKnown
  <1> QED
      BY <1>1, <1>2, <1>3, <1>4, <1>5 DEF LgInv, LgArgs

(* A step of the hub: the node stays as it is.                             *)
LEMMA LgHub ==
    ASSUME LgInv, Common, UNCHANGED <<lgNode, total>>, NEW e, e = lgEntry',
           DOMAIN e = DOMAIN NoLgEntry, ~e.open => e = NoLgEntry, e.open => presence' # "down",
           NEW q, q = e.modules, NEW s, s = e.request, Client(q, s, "modules", LgItems)',
           \A m \in wire' : m \in wire \/ (LgArgs(m) /\ m.kind # "subscription"),
           presence' = "up" /\ ~cutOff' /\ e.subscribed =>
               \/ presence = "up" /\ ~cutOff /\ lgEntry.subscribed
               \/ Hub \in lgNode.subscribers
    PROVE  LgInv'
  <1>1. PICK n : n = lgNode
      OBVIOUS
  <1>2. \A m \in wire' : LgArgs(m)
      BY LgIs
  <1>3. ServedInv(e, n)'
    <2>1. PICK f : f = lgEntry
        OBVIOUS
    <2>2. ServedInv(f, n)
        BY <1>1, <2>1, LgIs
    <2>3. \A m \in wire' \ wire :
             (m.kind = "subscribe" => m.arg.enabled = TRUE) /\ m.kind # "subscription"
        BY DEF LgArgs
    <2> QED
        BY <1>1, <2>1, <2>2, <2>3, ServedStays
  <1>4. n.level \in [0 .. total' - 1 -> LevelsKnown] /\ n = lgNode'
      BY <1>1, LgIs
  <1> QED
      BY <1>2, <1>3, <1>4, LgParts

(* A step of the node: the entry of the hub stays as it is.                *)
LEMMA LgMoves ==
    ASSUME LgInv, Common, UNCHANGED <<lgEntry, total, presence, cutOff>>, NEW n, n = lgNode',
           NEW p, p = lgEntry.modules, NEW r, r = lgEntry.request, Client(p, r, "modules", LgItems)',
           n.level \in [0 .. total - 1 -> LevelsKnown],
           Hub \in lgNode.subscribers => Hub \in n.subscribers,
           \A m \in wire' \ wire : LgArgs(m),
           \A m \in wire' \ wire :
               m.kind = "subscription" /\ m.arg.enabled => Hub \in n.subscribers
    PROVE  LgInv'
  <1>1. PICK e : e = lgEntry
      OBVIOUS
  <1>2. \A m \in wire' : LgArgs(m)
      BY LgIs
  <1>3. ServedInv(e, n)'
    <2>1. PICK o : o = lgNode
        OBVIOUS
    <2>2. ServedInv(e, o)
        BY <1>1, <2>1, LgIs
    <2>3. \A m \in wire' \ wire :
             /\ m.kind = "subscribe" => m.arg.enabled = TRUE
             /\ m.kind = "subscription" /\ m.arg.enabled => Hub \in n.subscribers
        BY DEF LgArgs
    <2>4. /\ Hub \in o.subscribers => Hub \in n.subscribers
          /\ presence' = "up" /\ ~cutOff' /\ e.subscribed =>
                presence = "up" /\ ~cutOff /\ e.subscribed
        BY <2>1
    <2> QED
        BY <2>2, <2>3, <2>4, ServedStays
  <1>4. /\ e = lgEntry' /\ DOMAIN e = DOMAIN NoLgEntry /\ (~e.open => e = NoLgEntry)
        /\ e.open => presence' # "down"
      BY <1>1, LgIs
  <1>5. Client(e.modules, e.request, "modules", LgItems)'
      BY <1>1
  <1> QED
      BY <1>2, <1>3, <1>4, <1>5, LgParts

(* A level moves, or does not, and is told of.                             *)
LEMMA LgLevels ==
    ASSUME LgInv, LinesInv, Common, NEW command, command.id \in Nat,
           NEW n, n = LgLevelled(command), NEW src
    PROVE  /\ n.level \in [0 .. total - 1 -> LevelsKnown] /\ n.subscribers = lgNode.subscribers
           /\ DOMAIN n = DOMAIN lgNode /\ n.window = lgNode.window
           /\ n.windowDropped = lgNode.windowDropped
           /\ n.dropped = lgNode.dropped /\ n.reported = lgNode.reported
           /\ \A k \in LgTold(src, command) : /\ k.kind = "moduleInfo" /\ MessageIsSound(k)
                                              /\ k.arg \in LgItems
  <1>1. /\ lgNode.level \in [0 .. total - 1 -> LevelsKnown] /\ total \in Nat
        /\ DOMAIN lgNode = {"subscribers", "level", "window", "windowDropped", "dropped", "reported"}
      BY LgIs, ServiceNumbers DEF Common, LinesInv, NewLgNode
  <1>2. CASE ~(command.id < total /\ LgMoved(command))
    <2>1. n = lgNode
        BY <1>2 DEF LgLevelled
    <2> QED
      <3>1. n.level \in [0 .. total - 1 -> LevelsKnown]
          BY <1>1, <2>1
      <3>2. ASSUME NEW k \in LgTold(src, command)
            PROVE  k.kind = "moduleInfo" /\ MessageIsSound(k) /\ k.arg \in LgItems
        <4>1. PICK arg : arg = ModuleInfo(n.level, command.id)
            OBVIOUS
        <4>2. command.id < total /\ \E dst : k \in Answer(dst, "moduleInfo", arg)
            BY <1>1, <3>2, <4>1 DEF LgTold
        <4>3. "moduleInfo" \notin Asked \cup Streamed
            BY DEF Asked, Streamed
        <4>4. arg \in LgItems
            BY <1>1, <3>1, <4>1, <4>2 DEF ModuleInfo, LgItems, LevelsKnown
        <4> QED
            BY <4>2, <4>3, <4>4, AnswerFacts
      <3> QED
          BY <2>1, <3>1, <3>2
  <1>3. CASE command.id < total /\ LgMoved(command)
    <2>1. PICK level : level = [lgNode.level EXCEPT ![command.id] = command.level]
        OBVIOUS
    <2>2. n = [lgNode EXCEPT !.level = level] /\ command.level \in Levels
        BY <1>1, <1>3, <2>1 DEF LgLevelled, LgMoved
    <2>3. level \in [0 .. total - 1 -> LevelsKnown]
        BY <1>1, <2>1, <2>2 DEF LevelsKnown
    <2> QED
      <3>1. /\ n.level = level /\ DOMAIN n = DOMAIN lgNode /\ n.subscribers = lgNode.subscribers
            /\ n.window = lgNode.window /\ n.windowDropped = lgNode.windowDropped
            /\ n.dropped = lgNode.dropped /\ n.reported = lgNode.reported
          BY <1>1, <2>2
      <3>2. ASSUME NEW k \in LgTold(src, command)
            PROVE  k.kind = "moduleInfo" /\ MessageIsSound(k) /\ k.arg \in LgItems
        <4>1. PICK arg : arg = ModuleInfo(n.level, command.id)
            OBVIOUS
        <4>2. command.id < total /\ \E dst : k \in Answer(dst, "moduleInfo", arg)
            BY <1>1, <3>2, <4>1 DEF LgTold
        <4>3. "moduleInfo" \notin Asked \cup Streamed
            BY DEF Asked, Streamed
        <4>4. arg \in LgItems
            BY <1>1, <2>3, <3>1, <4>1, <4>2 DEF ModuleInfo, LgItems, LevelsKnown
        <4> QED
            BY <4>2, <4>3, <4>4, AnswerFacts
      <3> QED
          BY <2>3, <3>1, <3>2
  <1> QED
      BY <1>2, <1>3

(* The hub meets the node: it subscribes and asks for the first page.      *)
LEMMA LgMeets ==
    ASSUME LgInv, Common, LgOnIdentity
    PROVE  Common' /\ LgInv'
  <1>1. PICK subscribes \in BOOLEAN, asks \in BOOLEAN :
           /\ presence = "up" /\ calls' = calls + 2
           /\ wire' = wire \cup Request(1, subscribes, "subscribe", [enabled |-> TRUE])
                           \cup Request(2, asks, "list", [cursor |-> 0])
           /\ lgEntry' = LgOpened(subscribes, asks)
           /\ UNCHANGED <<presence, total, gaveUp, cutOff, lgNode>>
      BY DEF LgOnIdentity
  <1>2. PICK first, second :
           /\ first = [to |-> "node", kind |-> "subscribe", id |-> calls + 1,
                       arg |-> [enabled |-> TRUE]]
           /\ second = [to |-> "node", kind |-> "list", id |-> calls + 2, arg |-> [cursor |-> 0]]
      OBVIOUS
  <1>3. /\ first.to = "node" /\ first.kind = "subscribe" /\ first.id = calls + 1
        /\ first.arg.enabled = TRUE
        /\ second.to = "node" /\ second.kind = "list" /\ second.id = calls + 2
        /\ second.arg.cursor = 0
      BY <1>2
  <1>4. wire' = wire \cup (IF subscribes THEN {first} ELSE {}) \cup (IF asks THEN {second} ELSE {})
      BY <1>1, <1>2 DEF Request
  <1>5. calls \in Nat /\ total \in Nat /\ WireIsSound
      BY ServiceNumbers DEF Common
  <1>6. MessageIsSound(first)' /\ MessageIsSound(second)'
      BY <1>1, <1>3, <1>5 DEF MessageIsSound, Asked
  <1>7. WireIsSound'
      BY <1>1, <1>4, <1>5, <1>6, MessagesStaySound DEF WireIsSound
  <1>8. PICK q, s : q = AskPage(NoPull, 2, asks) /\ s = IF subscribes THEN calls + 1 ELSE 0
      OBVIOUS
  <1>9. /\ q \in Pulls(LgItems) /\ q.request = (IF asks THEN calls + 2 ELSE 0) /\ q.cursor = 0
        /\ Walked(q)
    <2>1. NoPull.cursor = 0
        BY DEF NoPull
    <2> QED
        BY <1>5, <1>8, <2>1, NoPullIsWalked, AskPageFacts, ZenonT(60)
  <1>10. WalkInv(q, "modules", LgItems)'
    <2>1. PICK p : p = lgEntry.modules
        OBVIOUS
    <2>2. WalkInv(p, "modules", LgItems)
        BY <2>1 DEF LgInv
    <2>3. \A m \in wire' \ wire : m.kind # "modules" /\ (m.kind = "list" => m = second)
        BY <1>3, <1>4
    <2>4. asks => second \in wire'
        BY <1>4
    <2> QED
        BY <1>1, <1>3, <1>5, <1>7, <1>9, <2>2, <2>3, <2>4, WalkAsks
  <1>11. SubscriptionInv(s)'
    <2>1. subscribes => first \in wire'
        BY <1>4
    <2> QED
        BY <1>1, <1>3, <1>5, <1>8, <2>1, SubscriptionAsks
  <1>12. Client(q, s, "modules", LgItems)'
      BY <1>5, <1>8, <1>9, <1>10, <1>11 DEF Client, Answering
  <1>13. Common'
      BY <1>1, <1>5, <1>7 DEF Common
  <1>14. PICK e : e = lgEntry'
      OBVIOUS
  <1>15. /\ DOMAIN e = DOMAIN NoLgEntry /\ e.open = TRUE /\ e.modules = q /\ e.request = s
         /\ ~e.subscribed
    <2>1. e = [NoLgEntry EXCEPT !.open = TRUE, !.request = s, !.modules = q]
        BY <1>1, <1>8, <1>14 DEF LgOpened, Id
    <2> QED
        BY <2>1 DEF NoLgEntry
  <1>16. \A m \in wire' : m \in wire \/ (LgArgs(m) /\ m.kind # "subscription")
      BY <1>3, <1>4 DEF LgArgs
  <1> QED
      BY <1>1, <1>12, <1>13, <1>14, <1>15, <1>16, LgHub

LEMMA LgStep ==
    ASSUME LgInv, Common, LinesInv, LgNext
    PROVE  Common' /\ LgInv' /\ LinesInv'
  <1>0. PICK p, r : p = lgEntry.modules /\ r = lgEntry.request
      OBVIOUS
  <1>1. Client(p, r, "modules", LgItems)
      BY <1>0, LgIs
  <1>2. "modules" \in Answering /\ LgInv
      BY DEF Answering
  <1>a. UNCHANGED lgNode => LinesInv'
      BY LinesStay
  <1>3. ASSUME LgOnIdentity PROVE Common' /\ LgInv' /\ LinesInv'
    <2>1. UNCHANGED lgNode
        BY <1>3 DEF LgOnIdentity
    <2> QED
        BY <1>3, <1>a, <2>1, LgMeets
  <1>4. ASSUME LgRefresh PROVE Common' /\ LgInv' /\ LinesInv'
    <2>1. PICK ok \in BOOLEAN : /\ lgEntry.open /\ Asks(ok, "list", [cursor |-> 0])
                                /\ lgEntry' = [lgEntry EXCEPT !.modules = AskPage(NoPull, 1, ok)]
                                /\ UNCHANGED lgNode
        BY <1>4 DEF LgRefresh
    <2>2. PICK q, e : q = AskPage(NoPull, 1, ok) /\ e = lgEntry'
        OBVIOUS
    <2>3. Common' /\ Client(q, r, "modules", LgItems)' /\ SamePlace
        BY <1>1, <2>1, <2>2, ClientWalks
    <2>4. e.modules = q /\ e.request = r /\ DOMAIN e = DOMAIN NoLgEntry
          /\ e.open = lgEntry.open /\ e.subscribed = lgEntry.subscribed
        BY <1>0, <2>1, <2>2, LgIs
    <2>5. \A m \in wire' : m \in wire \/ (LgArgs(m) /\ m.kind # "subscription")
      <3>1. PICK arg : arg = [cursor |-> 0]
          OBVIOUS
      <3>2. "list" \in Asked /\ arg.cursor \in Nat /\ Asks(ok, "list", arg)
            /\ calls \in Nat /\ WireIsSound
          BY <2>1, <3>1 DEF Asked, Common
      <3>3. \A m \in wire' \ wire : m.kind = "list"
          BY <3>2, AsksFacts
      <3> QED
          BY <3>3 DEF LgArgs
    <2>6. UNCHANGED <<total, presence, cutOff>>
        BY <2>3 DEF SamePlace
    <2> QED
        BY <1>a, <2>1, <2>2, <2>3, <2>4, <2>5, <2>6, LgIs, LgHub
  <1>5. ASSUME LgSetLevel PROVE Common' /\ LgInv' /\ LinesInv'
    <2>1. PICK id \in Ids, level \in WireLevels, ok \in BOOLEAN :
             /\ Asks(ok, "setLevel", [id |-> id, level |-> level])
             /\ UNCHANGED <<lgEntry, lgNode>>
        BY <1>5 DEF LgSetLevel, lgVars
    <2>2. PICK arg, e : arg = [id |-> id, level |-> level] /\ e = lgEntry
        OBVIOUS
    <2>3. "setLevel" \in Asked \ {"list"} /\ arg.id \in Nat
        BY <2>2, ServiceNumbers DEF Asked
    <2>4. /\ Common' /\ Client(p, r, "modules", LgItems)' /\ SamePlace
          /\ \A m \in wire' : m \in wire \/ (m.kind = "setLevel" /\ m.arg = arg)
        BY <1>1, <2>1, <2>2, <2>3, ClientAsks
    <2>5. \A m \in wire' : m \in wire \/ (LgArgs(m) /\ m.kind # "subscription")
        BY <2>3, <2>4 DEF LgArgs
    <2>6. UNCHANGED <<total, presence, cutOff>>
        BY <2>4 DEF SamePlace
    <2> QED
        BY <1>0, <1>a, <2>1, <2>2, <2>4, <2>5, <2>6, LgIs, LgHub
  <1>6. ASSUME LgOnPage PROVE Common' /\ LgInv' /\ LinesInv'
    <2>1. PICK m \in wire, again \in BOOLEAN, ok \in BOOLEAN :
             LET modules == ApplyPage(lgEntry.modules, m.arg)
                 asks == lgEntry.open /\ Wanted(lgEntry.modules, m.arg) /\ ~modules.complete
             IN /\ m.kind = "modules"
                /\ Hears(m, again, asks, ok, "list", [cursor |-> modules.cursor])
                /\ lgEntry' = IF lgEntry.open
                              THEN [lgEntry EXCEPT !.modules = IF asks THEN AskPage(modules, 1, ok)
                                                                       ELSE modules]
                              ELSE lgEntry
                /\ UNCHANGED lgNode
        BY <1>6 DEF LgOnPage
    <2>2. PICK read, e : read = ApplyPage(p, m.arg) /\ e = lgEntry'
        OBVIOUS
    <2>3. PICK open \in BOOLEAN : open <=> lgEntry.open
        OBVIOUS
    <2>4. PICK asks \in BOOLEAN : asks = (lgEntry.open /\ Wanted(p, m.arg) /\ ~read.complete)
        OBVIOUS
    <2>5. PICK q : q = IF ~open THEN p ELSE IF asks THEN AskPage(read, 1, ok) ELSE read
        OBVIOUS
    <2>6. /\ m.kind = "modules" /\ Hears(m, again, asks, ok, "list", [cursor |-> read.cursor])
          /\ e = IF open THEN [lgEntry EXCEPT !.modules = q] ELSE lgEntry
          /\ UNCHANGED lgNode
        BY <1>0, <2>1, <2>2, <2>3, <2>4, <2>5
    <2>7. ~open => p.request = 0
        BY <1>0, <2>3, LgIs
    <2>8. asks <=> open /\ Wanted(p, m.arg) /\ ~read.complete
        BY <2>3, <2>4
    <2>9. Common' /\ Client(q, r, "modules", LgItems)' /\ SamePlace
        BY <1>1, <2>2, <2>5, <2>6, <2>7, <2>8, ClientHearsPage
    <2>10. /\ e.modules = q /\ e.request = r /\ DOMAIN e = DOMAIN NoLgEntry
           /\ e.open = lgEntry.open /\ (~open => e = lgEntry) /\ e.subscribed = lgEntry.subscribed
        BY <1>0, <2>3, <2>5, <2>6, LgIs
    <2>11. \A k \in wire' : k \in wire \/ (LgArgs(k) /\ k.kind # "subscription")
      <3>1. \A k \in wire' \ wire : k.kind = "list"
        <4>1. \A k \in Request(1, ok, "list", [cursor |-> read.cursor]) : k.kind = "list"
            BY DEF Request
        <4> QED
            BY <2>6, <4>1 DEF Hears, Handle
      <3> QED
          BY <3>1 DEF LgArgs
    <2>12. UNCHANGED <<total, presence, cutOff>>
        BY <2>9 DEF SamePlace
    <2>13. (~e.open => e = NoLgEntry) /\ (e.open => presence' # "down")
        BY <2>3, <2>10, <2>12, LgIs
    <2> QED
        BY <1>a, <2>2, <2>6, <2>9, <2>10, <2>11, <2>12, <2>13, LgHub
  <1>7. ASSUME LgOnModuleInfo PROVE Common' /\ LgInv' /\ LinesInv'
    <2>1. PICK m \in wire, again \in BOOLEAN :
             /\ m.kind = "moduleInfo" /\ Hears(m, again, FALSE, TRUE, m.kind, 0)
             /\ lgEntry' = IF lgEntry.open /\ lgEntry.modules.complete
                           THEN [lgEntry EXCEPT !.modules = Redescribe(lgEntry.modules, m.arg)]
                           ELSE lgEntry
             /\ UNCHANGED lgNode
        BY <1>7 DEF LgOnModuleInfo
    <2>2. PICK e, q : e = lgEntry' /\ q = e.modules
        OBVIOUS
    <2>3. /\ q = p \/ q = Redescribe(p, m.arg)
          /\ e.request = r /\ DOMAIN e = DOMAIN NoLgEntry
          /\ e.open = lgEntry.open /\ (~lgEntry.open => e = lgEntry)
          /\ e.subscribed = lgEntry.subscribed
        BY <1>0, <2>1, <2>2, LgIs
    <2>4. m.arg \in LgItems /\ p \in Pulls(LgItems)
        BY <1>1, <2>1, LgIs, ClientFacts DEF LgArgs
    <2>5. /\ q \in Pulls(LgItems) /\ q.request = p.request /\ q.cursor = p.cursor
          /\ (Walked(p) => Walked(q)) /\ m.kind # "modules" /\ m.kind # "subscription"
      <3>1. CASE q = p
          BY <2>1, <2>4, <3>1
      <3>2. CASE q = Redescribe(p, m.arg)
          BY <2>1, <2>4, <3>2, RedescribeFacts
      <3> QED
          BY <2>3, <3>1, <3>2
    <2>6. Heard(m, again)
        BY <2>1 DEF Heard
    <2>7. Common' /\ Client(q, r, "modules", LgItems)' /\ SamePlace /\ wire' \subseteq wire
        BY <1>1, <2>5, <2>6, ClientHears
    <2>8. UNCHANGED <<total, presence, cutOff>>
        BY <2>7 DEF SamePlace
    <2>9. (~e.open => e = NoLgEntry) /\ (e.open => presence' # "down")
        BY <2>3, <2>8, LgIs
    <2> QED
        BY <1>a, <2>1, <2>2, <2>3, <2>7, <2>8, <2>9, LgHub
  <1>8. ASSUME LgOnSubscription PROVE Common' /\ LgInv' /\ LinesInv'
    <2>1. PICK m \in wire, again \in BOOLEAN :
             /\ m.kind = "subscription" /\ Hears(m, again, FALSE, TRUE, m.kind, 0)
             /\ lgEntry' = IF lgEntry.open
                           THEN [lgEntry EXCEPT !.subscribed = m.arg.enabled, !.request = 0]
                           ELSE lgEntry
             /\ UNCHANGED lgNode
        BY <1>8 DEF LgOnSubscription
    <2>2. PICK e, q : e = lgEntry' /\ q = p
        OBVIOUS
    <2>3. /\ e.modules = q /\ e.request = 0 /\ DOMAIN e = DOMAIN NoLgEntry
          /\ e.open = lgEntry.open /\ (~lgEntry.open => e = lgEntry)
          /\ e.subscribed = m.arg.enabled \/ ~e.subscribed
        BY <1>0, <2>1, <2>2, LgIs
    <2>4. /\ q \in Pulls(LgItems) /\ q.request = p.request /\ q.cursor = p.cursor
          /\ (Walked(p) => Walked(q)) /\ m.kind # "modules"
        BY <1>1, <2>1, <2>2, ClientFacts
    <2>5. Heard(m, again)
        BY <2>1 DEF Heard
    <2>6. Common' /\ Client(q, 0, "modules", LgItems)' /\ SamePlace /\ wire' \subseteq wire
        BY <1>1, <2>4, <2>5, ClientHears
    <2>7. UNCHANGED <<total, presence, cutOff>>
        BY <2>6 DEF SamePlace
    <2>8. (~e.open => e = NoLgEntry) /\ (e.open => presence' # "down")
        BY <2>3, <2>7, LgIs
    <2>9. e.subscribed => Hub \in lgNode.subscribers
        BY <2>1, <2>3, LgIs DEF ServedInv
    <2> QED
        BY <1>a, <2>1, <2>2, <2>3, <2>6, <2>7, <2>8, <2>9, LgHub
  <1>9. ASSUME LgOnNodeDown \/ (NodeUp /\ UNCHANGED lgVars) PROVE Common' /\ LgInv' /\ LinesInv'
    <2>1. lgEntry' = NoLgEntry /\ (NodeDown \/ NodeUp) /\ UNCHANGED lgNode
        BY <1>9, PresenceFacts, LgIs DEF LgOnNodeDown, lgVars, Common
    <2>2. Common' /\ Client(NoPull, 0, "modules", LgItems)' /\ UNCHANGED <<wire, total>>
        BY <1>1, <2>1, ClientIsAlone DEF NodeDown, NodeUp
    <2> QED
        BY <1>a, <2>1, <2>2, LgIs, LgHub
  <1>10. ASSUME LgOnRequestFailed PROVE Common' /\ LgInv' /\ LinesInv'
    <2>1. PICK m \in wire : RequestLost(m) /\ lgEntry' = LgFailed(m.id) /\ UNCHANGED lgNode
        BY <1>10 DEF LgOnRequestFailed
    <2>2. m.id # 0
        BY <2>1, RequestLostFacts DEF Common
    <2>3. PICK q : q = IF p.request = m.id THEN Abandon(p) ELSE p
        OBVIOUS
    <2>4. PICK e, s : e = lgEntry' /\ s = e.request
        OBVIOUS
    <2>5. /\ e.modules = q /\ DOMAIN e = DOMAIN NoLgEntry
          /\ e.open = lgEntry.open /\ (~lgEntry.open => e = lgEntry)
          /\ s \in {0, r} /\ (r = m.id /\ p.request # m.id => s = 0)
          /\ e.subscribed = lgEntry.subscribed
        BY <1>0, <2>1, <2>2, <2>3, <2>4, LgIs DEF LgFailed
    <2>6. Common' /\ Client(q, s, "modules", LgItems)' /\ SamePlace /\ wire' \subseteq wire
        BY <1>1, <2>1, <2>3, <2>5, ClientFails
    <2>7. UNCHANGED <<total, presence, cutOff>>
        BY <2>6 DEF SamePlace
    <2>8. (~e.open => e = NoLgEntry) /\ (e.open => presence' # "down")
        BY <2>5, <2>7, LgIs
    <2> QED
        BY <1>a, <2>1, <2>4, <2>5, <2>6, <2>7, <2>8, LgHub
  <1>11. ASSUME LgServe PROVE Common' /\ LgInv' /\ LinesInv'
    <2>1. PICK m \in wire, again \in BOOLEAN :
             LET subscribed == LgSubscribed(Hub, m.arg.enabled)
             IN \/ /\ m.kind = "list"
                   /\ Serves(m, again, Answer(Hub, "modules", Page(m.arg.cursor, Modules)))
                   /\ UNCHANGED lgNode
                \/ /\ m.kind = "setLevel"
                   /\ Serves(m, again, LgTold(Hub, m.arg))
                   /\ lgNode' = LgLevelled(m.arg)
                \/ /\ m.kind = "subscribe"
                   /\ Serves(m, again, SubscriptionAnswer(m.arg.enabled, subscribed.subscribers))
                   /\ lgNode' = subscribed
        BY <1>11 DEF LgServe
    <2>2. UNCHANGED lgEntry
        BY <1>11 DEF LgServe
    <2>3. CASE /\ m.kind = "list"
               /\ Serves(m, again, Answer(Hub, "modules", Page(m.arg.cursor, Modules)))
               /\ UNCHANGED lgNode
      <3>1. PICK page, out : /\ page = Page(m.arg.cursor, Modules)
                             /\ out = Answer(Hub, "modules", page)
          OBVIOUS
      <3>2. /\ \A k \in out : k.kind = "modules" /\ k.arg = page /\ MessageIsSound(k)
            /\ \E k \in out : k.kind = "modules" /\ k.arg = page
        <4>1. "modules" \notin Asked \cup Streamed
            BY DEF Asked, Streamed
        <4> QED
            BY <3>1, <4>1, AnswerFacts
      <3>3. PICK k \in out : k.kind = "modules" /\ k.arg = page
          BY <3>2
      <3>4. PICK table : table = Modules
          OBVIOUS
      <3>5. /\ table \in [0 .. total - 1 -> LgItems] /\ \A i \in 0 .. total - 1 : table[i].id = i
            /\ page = Page(m.arg.cursor, table)
        <4>1. lgNode.level \in [0 .. total - 1 -> LevelsKnown] /\ total \in Nat
            BY <1>1, ClientFacts, LgIs
        <4> QED
            BY <3>1, <3>4, <4>1 DEF Modules, ModuleInfo, LgItems, LevelsKnown
      <3>6. WalkInv(p, "modules", LgItems) /\ "modules" # "list"
          BY <1>1 DEF Client
      <3>7. PageIsWhole(page, LgItems)
            /\ (m.id = p.request /\ presence = "up" => Wanted(p, k.arg))
        <4>1. /\ PageIsWhole(page, LgItems)
              /\ m.id = p.request /\ presence = "up" => Wanted(p, page)
            BY <2>3, <3>5, <3>6, PageAnswers
        <4> QED
            BY <3>3, <4>1
      <3>8. \A e \in out : e.kind \notin Asked /\ MessageIsSound(e)
                           /\ (e.kind = "modules" => PageIsWhole(e.arg, LgItems))
          BY <1>2, <3>2, <3>7, Kinds
      <3>9. Common' /\ Client(p, r, "modules", LgItems)' /\ SamePlace /\ wire' \subseteq wire \cup out
          BY <1>1, <2>3, <3>1, <3>3, <3>7, <3>8, ClientServed
      <3>10. UNCHANGED <<total, presence, cutOff>>
          BY <3>9 DEF SamePlace
      <3>11. PICK n : n = lgNode'
          OBVIOUS
      <3>12. \A e \in wire' \ wire : LgArgs(e) /\ e.kind # "subscription"
          BY <3>2, <3>9 DEF LgArgs
      <3>13. LgInv'
          BY <1>0, <2>2, <2>3, <3>9, <3>10, <3>11, <3>12, LgIs, LgMoves
      <3> QED
          BY <1>a, <2>3, <3>9, <3>13
    <2>4. CASE /\ m.kind = "setLevel" /\ Serves(m, again, LgTold(Hub, m.arg))
               /\ lgNode' = LgLevelled(m.arg)
      <3>1. PICK n, out, arg : n = lgNode' /\ out = LgTold(Hub, m.arg) /\ arg = m.arg
          OBVIOUS
      <3>2. arg.id \in Nat /\ n = LgLevelled(arg) /\ out = LgTold(Hub, arg)
          BY <2>4, <3>1, LgIs DEF LgArgs
      <3>3. /\ n.level \in [0 .. total - 1 -> LevelsKnown] /\ n.subscribers = lgNode.subscribers
            /\ DOMAIN n = DOMAIN lgNode /\ n.window = lgNode.window
            /\ n.windowDropped = lgNode.windowDropped
            /\ n.dropped = lgNode.dropped /\ n.reported = lgNode.reported
            /\ \A k \in out : k.kind = "moduleInfo" /\ MessageIsSound(k) /\ k.arg \in LgItems
          BY <3>2, LgLevels
      <3>4. \A k \in out : k.kind \notin Asked /\ k.kind # "modules" /\ MessageIsSound(k)
          BY <3>3 DEF Asked
      <3>5. /\ Common' /\ Client(p, r, "modules", LgItems)' /\ SamePlace
            /\ wire' \subseteq wire \cup out
          BY <1>1, <2>4, <3>1, <3>4, ClientServed
      <3>6. UNCHANGED <<total, presence, cutOff>>
          BY <3>5 DEF SamePlace
      <3>7. \A e \in wire' \ wire : LgArgs(e) /\ e.kind # "subscription"
          BY <3>3, <3>5 DEF LgArgs
      <3>8. LgInv'
          BY <1>0, <2>2, <3>1, <3>3, <3>5, <3>6, <3>7, LgMoves
      <3>9. LinesInv'
          BY <3>1, <3>3, LinesStay
      <3> QED
          BY <3>5, <3>8, <3>9
    <2>5. CASE /\ m.kind = "subscribe"
               /\ lgNode' = LgSubscribed(Hub, m.arg.enabled)
               /\ Serves(m, again, SubscriptionAnswer(m.arg.enabled, lgNode'.subscribers))
      <3>1. PICK n : n = lgNode'
          OBVIOUS
      <3>2. PICK out : out = SubscriptionAnswer(m.arg.enabled, n.subscribers)
          OBVIOUS
      <3>3. m.arg.enabled = TRUE
          BY <2>5, LgIs DEF LgArgs
      <3>4. /\ \A k \in out : /\ k.kind = "subscription" /\ MessageIsSound(k)
                              /\ k.arg.enabled => Hub \in n.subscribers
            /\ \E k \in out : k.kind = "subscription"
          BY <3>2, <3>3, SubscriptionAnswerFacts
      <3>5. /\ DOMAIN n = DOMAIN lgNode /\ n.level = lgNode.level
            /\ n.subscribers = Subscribe(lgNode.subscribers, Hub, TRUE)
            /\ n.window = lgNode.window /\ n.windowDropped = lgNode.windowDropped
            /\ n.dropped = lgNode.dropped /\ n.reported = lgNode.reported
        <4>1. DOMAIN lgNode = {"subscribers", "level", "window", "windowDropped", "dropped",
                               "reported"}
            BY DEF LinesInv, NewLgNode
        <4> QED
            BY <2>5, <3>1, <3>3, <4>1 DEF LgSubscribed
      <3>6. \A k \in out : k.kind \notin Asked /\ k.kind # "modules" /\ MessageIsSound(k)
          BY <3>4 DEF Asked
      <3>7. /\ Common' /\ Client(p, r, "modules", LgItems)' /\ SamePlace
            /\ wire' \subseteq wire \cup out
          BY <1>1, <2>5, <3>1, <3>2, <3>4, <3>6, ClientServed
      <3>8. UNCHANGED <<total, presence, cutOff>>
          BY <3>7 DEF SamePlace
      <3>9. \A e \in wire' \ wire :
               LgArgs(e) /\ (e.kind = "subscription" /\ e.arg.enabled => Hub \in n.subscribers)
          BY <3>4, <3>7 DEF LgArgs
      <3>10. /\ n.level \in [0 .. total - 1 -> LevelsKnown]
             /\ Hub \in lgNode.subscribers => Hub \in n.subscribers
          BY <3>5, LgIs, SubscribeFacts, ZenonT(60)
      <3>11. LgInv'
          BY <1>0, <2>2, <3>1, <3>7, <3>8, <3>9, <3>10, LgMoves
      <3>12. LinesInv'
          BY <3>1, <3>5, LinesStay
      <3> QED
          BY <3>7, <3>11, <3>12
    <2> QED
        BY <2>1, <2>3, <2>4, <2>5
  <1>12. ASSUME LgOther PROVE Common' /\ LgInv' /\ LinesInv'
    <2>1. CASE \E id \in Ids, level \in WireLevels :
                  LET command == [id |-> id, level |-> level]
                  IN Sends(LgTold(Other, command)) /\ lgNode' = LgLevelled(command)
                     /\ UNCHANGED lgEntry
      <3>1. PICK id \in Ids, level \in WireLevels :
                  LET command == [id |-> id, level |-> level]
                  IN Sends(LgTold(Other, command)) /\ lgNode' = LgLevelled(command)
                     /\ UNCHANGED lgEntry
          BY <2>1
      <3>2. PICK arg, n, out : arg = [id |-> id, level |-> level] /\ n = lgNode'
                               /\ out = LgTold(Other, arg)
          OBVIOUS
      <3>3. arg.id \in Nat /\ n = LgLevelled(arg) /\ Sends(out)
          BY <3>1, <3>2, ServiceNumbers
      <3>4. /\ n.level \in [0 .. total - 1 -> LevelsKnown] /\ n.subscribers = lgNode.subscribers
            /\ DOMAIN n = DOMAIN lgNode /\ n.window = lgNode.window
            /\ n.windowDropped = lgNode.windowDropped
            /\ n.dropped = lgNode.dropped /\ n.reported = lgNode.reported
            /\ \A k \in out : k.kind = "moduleInfo" /\ MessageIsSound(k) /\ k.arg \in LgItems
          BY <3>2, <3>3, LgLevels
      <3>5. \A k \in out : k.kind \notin Asked \cup {"modules"} /\ MessageIsSound(k)
          BY <3>4 DEF Asked
      <3>6. Common' /\ Client(p, r, "modules", LgItems)' /\ SamePlace /\ wire' = wire \cup out
          BY <1>1, <3>3, <3>5, ClientIsSent
      <3>7. UNCHANGED <<total, presence, cutOff>>
          BY <3>6 DEF SamePlace
      <3>8. \A e \in wire' \ wire : LgArgs(e) /\ e.kind # "subscription"
          BY <3>4, <3>6 DEF LgArgs
      <3>9. LgInv'
          BY <1>0, <3>1, <3>2, <3>4, <3>6, <3>7, <3>8, LgMoves
      <3>10. LinesInv'
          BY <3>2, <3>4, LinesStay
      <3> QED
          BY <3>6, <3>9, <3>10
    <2>2. CASE \E enabled \in BOOLEAN :
                  Sends({}) /\ lgNode' = LgSubscribed(Other, enabled) /\ UNCHANGED lgEntry
      <3>1. PICK enabled \in BOOLEAN :
                  Sends({}) /\ lgNode' = LgSubscribed(Other, enabled) /\ UNCHANGED lgEntry
          BY <2>2
      <3>2. PICK n, out : n = lgNode' /\ out = {}
          OBVIOUS
      <3>3. /\ DOMAIN n = DOMAIN lgNode /\ n.level = lgNode.level
            /\ n.subscribers = Subscribe(lgNode.subscribers, Other, enabled)
            /\ n.window = lgNode.window /\ n.windowDropped = lgNode.windowDropped
            /\ n.dropped = lgNode.dropped /\ n.reported = lgNode.reported
        <4>1. DOMAIN lgNode = {"subscribers", "level", "window", "windowDropped", "dropped",
                               "reported"}
            BY DEF LinesInv, NewLgNode
        <4> QED
            BY <3>1, <3>2, <4>1 DEF LgSubscribed
      <3>4. Common' /\ Client(p, r, "modules", LgItems)' /\ SamePlace /\ wire' = wire
          BY <1>1, <3>1, <3>2, ClientIsSent
      <3>5. UNCHANGED <<total, presence, cutOff>>
          BY <3>4 DEF SamePlace
      <3>6. /\ n.level \in [0 .. total - 1 -> LevelsKnown]
            /\ Hub \in lgNode.subscribers => Hub \in n.subscribers
          BY <3>3, LgIs, SubscribeFacts, ServiceNumbers
      <3>7. LgInv'
          BY <1>0, <3>1, <3>2, <3>4, <3>5, <3>6, LgMoves
      <3>8. LinesInv'
          BY <3>2, <3>3, LinesStay
      <3> QED
          BY <3>4, <3>7, <3>8
    <2> QED
        BY <1>12, <2>1, <2>2 DEF LgOther
  <1>13. ASSUME LgHubDown PROVE Common' /\ LgInv' /\ LinesInv'
    <2>1. PICK e, n : e = lgEntry /\ n = lgNode'
        OBVIOUS
    <2>2. /\ Common' /\ Client(p, r, "modules", LgItems)' /\ UNCHANGED <<lgEntry, total, presence>>
          /\ cutOff' = TRUE /\ wire' = {m \in wire : m.kind \in Asked}
          /\ n = [lgNode EXCEPT !.subscribers = lgNode.subscribers \ {Hub}]
        BY <1>1, <1>13, <2>1, ClientIsCutOff DEF LgHubDown
    <2>3. /\ DOMAIN n = DOMAIN lgNode /\ n.level = lgNode.level
          /\ n.window = lgNode.window /\ n.windowDropped = lgNode.windowDropped
          /\ n.dropped = lgNode.dropped /\ n.reported = lgNode.reported
      <3>1. DOMAIN lgNode = {"subscribers", "level", "window", "windowDropped", "dropped",
                             "reported"}
          BY DEF LinesInv, NewLgNode
      <3> QED
          BY <2>2, <3>1
    <2>4. ServedInv(e, n)'
      <3>1. PICK o : o = lgNode
          OBVIOUS
      <3>2. ServedInv(e, o)
          BY <2>1, <3>1, LgIs
      <3> QED
          BY <2>2, <3>2, ServedEnds
    <2>5. \A m \in wire' : LgArgs(m)
        BY <2>2, LgIs
    <2>6. /\ e = lgEntry' /\ DOMAIN e = DOMAIN NoLgEntry /\ (~e.open => e = NoLgEntry)
          /\ (e.open => presence' # "down") /\ n.level \in [0 .. total' - 1 -> LevelsKnown]
        BY <2>1, <2>2, <2>3, LgIs
    <2>7. Client(e.modules, e.request, "modules", LgItems)'
        BY <1>0, <2>1, <2>2
    <2>8. LgInv'
        BY <2>1, <2>4, <2>5, <2>6, <2>7, LgParts
    <2>9. LinesInv'
        BY <2>1, <2>3, LinesStay
    <2> QED
        BY <2>2, <2>8, <2>9
  <1>14. ASSUME LgReboot PROVE Common' /\ LgInv' /\ LinesInv'
    <2>1. PICK e, n, count : e = lgEntry /\ n = lgNode' /\ count = total'
        OBVIOUS
    <2>2. /\ Common' /\ Client(p, r, "modules", LgItems)' /\ UNCHANGED lgEntry
          /\ presence' = "stale" /\ wire' = {m \in wire : m.kind \in Asked}
          /\ n = NewLgNode(count) /\ total' \in Nat
        BY <1>1, <1>14, <2>1, ClientSeesReboot, ServiceNumbers DEF LgReboot
    <2>3. ServedInv(e, n)'
      <3>1. PICK o : o = lgNode
          OBVIOUS
      <3>2. ServedInv(e, o)
          BY <2>1, <3>1, LgIs
      <3> QED
          BY <2>2, <3>2, ServedEnds
    <2>4. \A m \in wire' : LgArgs(m)
        BY <2>2, LgIs
    <2>5. n.level \in [0 .. total' - 1 -> LevelsKnown]
        BY <2>1, <2>2 DEF NewLgNode, LevelsKnown
    <2>6. /\ e = lgEntry' /\ DOMAIN e = DOMAIN NoLgEntry /\ (~e.open => e = NoLgEntry)
          /\ (e.open => presence' # "down")
        BY <2>1, <2>2, LgIs
    <2>7. Client(e.modules, e.request, "modules", LgItems)'
        BY <1>0, <2>1, <2>2
    <2>8. LgInv'
        BY <2>1, <2>3, <2>4, <2>5, <2>6, <2>7, LgParts
    <2>9. LinesInv'
        BY <2>1, <2>2, LinesStart
    <2> QED
        BY <2>2, <2>8, <2>9
  <1>15. ASSUME \E m \in wire : AnswerLost(m) /\ UNCHANGED lgVars
         PROVE  Common' /\ LgInv' /\ LinesInv'
    <2>1. PICK m \in wire : AnswerLost(m) /\ UNCHANGED <<lgEntry, lgNode>>
        BY <1>15 DEF lgVars
    <2>2. /\ Common' /\ Client(p, r, "modules", LgItems)' /\ UNCHANGED <<total, presence, cutOff>>
          /\ wire' \subseteq wire
        BY <1>1, <2>1, ClientLosesAnswer
    <2> QED
        BY <1>0, <1>a, <2>1, <2>2, LgIs, LgHub
  <1> QED
      BY <1>3, <1>4, <1>5, <1>6, <1>7, <1>8, <1>9, <1>10, <1>11, <1>12, <1>13, <1>14, <1>15
      DEF LgNext

-----------------------------------------------------------------------------
(* The tuning service.                                                     *)

ValuesKnown == Values \cup {Default}

TnArgs(m) ==
    /\ m.kind \in {"set", "get"} => m.arg.id \in Nat
    /\ m.kind = "ack" => m.arg.id \in Nat /\ m.arg.value \in ValuesKnown

LEMMA TnIs ==
    ASSUME TnInv, Common
    PROVE  /\ Client(tnEntry.table, 0, "infos", TnItems)
           /\ DOMAIN tnEntry = {"open", "table"}
           /\ ~tnEntry.open => tnEntry = NoTnEntry
           /\ tnEntry.open => presence # "down"
           /\ NoTnEntry.table = NoPull /\ ~NoTnEntry.open
           /\ DOMAIN NoTnEntry = DOMAIN tnEntry /\ NoPull.request = 0
           /\ DOMAIN tnNode = {"value", "armed", "theirs"} /\ total \in Nat
           /\ tnNode.value \in [0 .. total - 1 -> ValuesKnown]
           /\ \A m \in wire : TnArgs(m)
  <1>1. SubscriptionInv(0) /\ total \in Nat
      BY ServiceNumbers DEF SubscriptionInv, SubscriptionComes, Common
  <1>2. DOMAIN tnNode = {"value", "armed", "theirs"}
      BY DEF TnInv, NewTnNode
  <1> QED
      BY <1>1, <1>2
      DEF TnInv, EntryInv, NoTnEntry, Client, Answering, NoPull, ValuesKnown, TnArgs

LEMMA TnParts ==
    ASSUME NEW e, e = tnEntry', NEW n, n = tnNode',
           DOMAIN e = {"open", "table"}, ~e.open => e = NoTnEntry, e.open => presence' # "down",
           NEW q, q = e.table, NEW s, Client(q, s, "infos", TnItems)',
           DOMAIN n = {"value", "armed", "theirs"},
           n.value \in [0 .. total' - 1 -> ValuesKnown], \A m \in wire' : TnArgs(m)
    PROVE  TnInv'
  <1>1. EntryInv(tnEntry, NoTnEntry)'
      BY DEF EntryInv, NoTnEntry
  <1>2. WalkInv(tnEntry.table, "infos", TnItems)'
      BY DEF Client, WalkInv, Walked, PageComes, Wanted
  <1>3. tnNode'.value \in [0 .. total' - 1 -> Values \cup {Default}]
      BY DEF ValuesKnown
  <1>4. (DOMAIN tnNode = DOMAIN NewTnNode(total))'
      BY DEF NewTnNode
  <1> QED
      BY <1>1, <1>2, <1>3, <1>4 DEF TnInv, TnArgs, ValuesKnown

(* A step of the hub, and one of the node.                                 *)
LEMMA TnHub ==
    ASSUME TnInv, Common, UNCHANGED <<tnNode, total>>, NEW e, e = tnEntry',
           DOMAIN e = {"open", "table"}, ~e.open => e = NoTnEntry, e.open => presence' # "down",
           NEW q, q = e.table, Client(q, 0, "infos", TnItems)',
           \A m \in wire' : m \in wire \/ TnArgs(m)
    PROVE  TnInv'
  <1>1. PICK n : n = tnNode'
      OBVIOUS
  <1>2. /\ DOMAIN n = {"value", "armed", "theirs"} /\ (\A m \in wire' : TnArgs(m))
        /\ n.value \in [0 .. total' - 1 -> ValuesKnown]
      BY <1>1, TnIs
  <1> QED
      BY <1>1, <1>2, TnParts

LEMMA TnMoves ==
    ASSUME TnInv, Common, UNCHANGED <<tnEntry, total, presence>>, NEW n, n = tnNode',
           NEW p, p = tnEntry.table, Client(p, 0, "infos", TnItems)',
           DOMAIN n = {"value", "armed", "theirs"},
           n.value \in [0 .. total - 1 -> ValuesKnown],
           \A m \in wire' : m \in wire \/ TnArgs(m)
    PROVE  TnInv'
  <1>1. PICK e : e = tnEntry'
      OBVIOUS
  <1>2. /\ DOMAIN e = {"open", "table"} /\ (~e.open => e = NoTnEntry)
        /\ (e.open => presence' # "down") /\ p = e.table
        /\ (\A m \in wire' : TnArgs(m)) /\ n.value \in [0 .. total' - 1 -> ValuesKnown]
      BY <1>1, TnIs
  <1> QED
      BY <1>1, <1>2, TnParts

(* A parameter is written, or is not; what is in effect is told.           *)
LEMMA TnWrites ==
    ASSUME TnInv, Common, NEW id \in Nat, NEW value, NEW n, n = SetParam(id, value)
    PROVE  /\ DOMAIN n = {"value", "armed", "theirs"}
           /\ n.value \in [0 .. total - 1 -> ValuesKnown]
  <1>1. /\ DOMAIN tnNode = {"value", "armed", "theirs"} /\ total \in Nat
        /\ tnNode.value \in [0 .. total - 1 -> ValuesKnown]
      BY TnIs
  <1>2. CASE SetStatus(id, value) # "ok"
      BY <1>1, <1>2 DEF SetParam
  <1>3. CASE SetStatus(id, value) = "ok"
    <2>1. id < total /\ value \in Values
        BY <1>1, <1>3 DEF SetStatus
    <2>2. PICK values : values = [tnNode.value EXCEPT ![id] = value]
        OBVIOUS
    <2>3. n = [tnNode EXCEPT !.value = values]
        BY <1>1, <1>3, <2>2 DEF SetParam
    <2>4. values \in [0 .. total - 1 -> ValuesKnown]
        BY <1>1, <2>1, <2>2 DEF ValuesKnown
    <2> QED
        BY <1>1, <2>3, <2>4
  <1> QED
      BY <1>2, <1>3

LEMMA TnAcks ==
    ASSUME TnInv, Common, NEW n, n.value \in [0 .. total - 1 -> ValuesKnown],
           NEW id \in Nat, NEW status, NEW k \in Ack(n, id, status)
    PROVE  k.kind = "ack" /\ MessageIsSound(k) /\ TnArgs(k)
  <1>1. PICK arg : arg = [id |-> id, status |-> status,
                          value |-> IF id < total THEN n.value[id] ELSE Default]
      OBVIOUS
  <1>2. k \in Answer(Hub, "ack", arg)
      BY <1>1 DEF Ack
  <1>3. arg.id \in Nat /\ arg.value \in ValuesKnown
    <2>1. total \in Nat
        BY TnIs
    <2> QED
        BY <1>1, <2>1 DEF ValuesKnown
  <1>4. "ack" \notin Asked \cup Streamed
      BY DEF Asked, Streamed
  <1>5. k.kind = "ack" /\ k.arg = arg /\ MessageIsSound(k)
      BY <1>2, <1>4, AnswerFacts
  <1> QED
      BY <1>3, <1>5 DEF TnArgs

LEMMA TnStep ==
    ASSUME TnInv, Common, TnNext
    PROVE  Common' /\ TnInv'
  <1>0. PICK p : p = tnEntry.table
      OBVIOUS
  <1>1. Client(p, 0, "infos", TnItems)
      BY <1>0, TnIs
  <1>2. "infos" \in Answering /\ TnInv
      BY DEF Answering
  <1>3. ASSUME TnOnIdentity \/ TnRefresh PROVE Common' /\ TnInv'
    <2>1. PICK ok \in BOOLEAN : /\ Asks(ok, "list", [cursor |-> 0]) /\ UNCHANGED tnNode
                                /\ tnEntry' = [open |-> TRUE, table |-> AskPage(NoPull, 1, ok)]
                                /\ presence # "down"
      <3>1. CASE TnOnIdentity
          BY <3>1 DEF TnOnIdentity, TnOpened
      <3>2. ASSUME TnRefresh, tnEntry.open = TRUE
            PROVE  \E ok \in BOOLEAN : /\ Asks(ok, "list", [cursor |-> 0]) /\ UNCHANGED tnNode
                                /\ tnEntry' = [open |-> TRUE, table |-> AskPage(NoPull, 1, ok)]
                                /\ presence # "down"
          BY <3>2, TnIs DEF TnRefresh
      <3> QED
          BY <1>3, <3>1, <3>2 DEF TnRefresh
    <2>2. PICK q, e : q = AskPage(NoPull, 1, ok) /\ e = tnEntry'
        OBVIOUS
    <2>3. Common' /\ Client(q, 0, "infos", TnItems)' /\ SamePlace
        BY <1>1, <2>1, <2>2, ClientWalks
    <2>4. e.table = q /\ DOMAIN e = {"open", "table"} /\ e.open = TRUE
        BY <2>1, <2>2
    <2>5. \A m \in wire' : m \in wire \/ TnArgs(m)
      <3>1. PICK arg : arg = [cursor |-> 0]
          OBVIOUS
      <3>2. "list" \in Asked /\ arg.cursor \in Nat /\ Asks(ok, "list", arg)
            /\ calls \in Nat /\ WireIsSound
          BY <2>1, <3>1 DEF Asked, Common
      <3>3. \A m \in wire' \ wire : m.kind = "list"
          BY <3>2, AsksFacts
      <3> QED
          BY <3>3 DEF TnArgs
    <2>6. UNCHANGED <<total, presence>>
        BY <2>3 DEF SamePlace
    <2> QED
        BY <2>1, <2>2, <2>3, <2>4, <2>5, <2>6, TnHub
  <1>4. ASSUME TnSet \/ TnGet PROVE Common' /\ TnInv'
    <2>1. PICK kind \in {"set", "get"}, ok \in BOOLEAN :
             \E arg : Asks(ok, kind, arg) /\ arg.id \in Nat /\ UNCHANGED <<tnEntry, tnNode>>
      <3>1. ASSUME NEW id \in Ids, NEW value
            PROVE  [id |-> id, value |-> value].id \in Nat /\ [id |-> id].id \in Nat
          BY ServiceNumbers
      <3> QED
          BY <1>4, <3>1 DEF TnSet, TnGet, tnVars
    <2>2. PICK arg, e : /\ Asks(ok, kind, arg) /\ arg.id \in Nat /\ UNCHANGED <<tnEntry, tnNode>>
                        /\ e = tnEntry
        BY <2>1
    <2>3. kind \in Asked \ {"list"}
        BY <2>1 DEF Asked
    <2>4. /\ Common' /\ Client(p, 0, "infos", TnItems)' /\ SamePlace
          /\ \A m \in wire' : m \in wire \/ (m.kind = kind /\ m.arg = arg)
        BY <1>1, <2>2, <2>3, ClientAsks
    <2>5. \A m \in wire' : m \in wire \/ TnArgs(m)
        BY <2>1, <2>2, <2>4 DEF TnArgs
    <2>6. UNCHANGED <<total, presence>>
        BY <2>4 DEF SamePlace
    <2> QED
        BY <1>0, <2>2, <2>4, <2>5, <2>6, TnIs, TnHub
  <1>5. ASSUME TnOnPage PROVE Common' /\ TnInv'
    <2>1. PICK m \in wire, again \in BOOLEAN, ok \in BOOLEAN :
             LET table == ApplyPage(tnEntry.table, m.arg)
                 asks == tnEntry.open /\ Wanted(tnEntry.table, m.arg) /\ ~table.complete
             IN /\ m.kind = "infos"
                /\ Hears(m, again, asks, ok, "list", [cursor |-> table.cursor])
                /\ tnEntry' = IF tnEntry.open
                              THEN [tnEntry EXCEPT !.table = IF asks THEN AskPage(table, 1, ok)
                                                                     ELSE table]
                              ELSE tnEntry
                /\ UNCHANGED tnNode
        BY <1>5 DEF TnOnPage
    <2>2. PICK read, e : read = ApplyPage(p, m.arg) /\ e = tnEntry'
        OBVIOUS
    <2>3. PICK open \in BOOLEAN : open <=> tnEntry.open
        OBVIOUS
    <2>4. PICK asks \in BOOLEAN : asks = (tnEntry.open /\ Wanted(p, m.arg) /\ ~read.complete)
        OBVIOUS
    <2>5. PICK q : q = IF ~open THEN p ELSE IF asks THEN AskPage(read, 1, ok) ELSE read
        OBVIOUS
    <2>6. /\ m.kind = "infos" /\ Hears(m, again, asks, ok, "list", [cursor |-> read.cursor])
          /\ e = IF open THEN [tnEntry EXCEPT !.table = q] ELSE tnEntry
          /\ UNCHANGED tnNode
        BY <1>0, <2>1, <2>2, <2>3, <2>4, <2>5
    <2>7. ~open => p.request = 0
        BY <1>0, <2>3, TnIs
    <2>8. asks <=> open /\ Wanted(p, m.arg) /\ ~read.complete
        BY <2>3, <2>4
    <2>9. Common' /\ Client(q, 0, "infos", TnItems)' /\ SamePlace
        BY <1>1, <2>2, <2>5, <2>6, <2>7, <2>8, ClientHearsPage
    <2>10. /\ e.table = q /\ DOMAIN e = {"open", "table"}
           /\ e.open = tnEntry.open /\ (~open => e = tnEntry)
        BY <1>0, <2>3, <2>5, <2>6, TnIs
    <2>11. \A k \in wire' : k \in wire \/ TnArgs(k)
      <3>1. \A k \in wire' \ wire : k.kind = "list"
        <4>1. \A k \in Request(1, ok, "list", [cursor |-> read.cursor]) : k.kind = "list"
            BY DEF Request
        <4> QED
            BY <2>6, <4>1 DEF Hears, Handle
      <3> QED
          BY <3>1 DEF TnArgs
    <2>12. UNCHANGED <<total, presence>>
        BY <2>9 DEF SamePlace
    <2>13. (~e.open => e = NoTnEntry) /\ (e.open => presence' # "down")
        BY <2>3, <2>10, <2>12, TnIs
    <2> QED
        BY <2>2, <2>6, <2>9, <2>10, <2>11, <2>12, <2>13, TnHub
  <1>6. ASSUME TnOnAck PROVE Common' /\ TnInv'
    <2>1. PICK m \in wire, again \in BOOLEAN :
             /\ m.kind = "ack" /\ Hears(m, again, FALSE, TRUE, m.kind, 0)
             /\ tnEntry' = IF tnEntry.open /\ tnEntry.table.complete /\ m.arg.status = "ok"
                           THEN [tnEntry EXCEPT !.table = Redescribe(tnEntry.table,
                                                    [id |-> m.arg.id, value |-> m.arg.value])]
                           ELSE tnEntry
             /\ UNCHANGED tnNode
        BY <1>6 DEF TnOnAck
    <2>2. PICK e, q, item : /\ e = tnEntry' /\ q = e.table
                            /\ item = [id |-> m.arg.id, value |-> m.arg.value]
        OBVIOUS
    <2>3. /\ q = p \/ q = Redescribe(p, item)
          /\ DOMAIN e = {"open", "table"}
          /\ e.open = tnEntry.open /\ (~tnEntry.open => e = tnEntry)
        BY <1>0, <2>1, <2>2, TnIs
    <2>4. item \in TnItems /\ p \in Pulls(TnItems)
        BY <1>1, <2>1, <2>2, TnIs, ClientFacts DEF TnArgs, TnItems, ValuesKnown
    <2>5. /\ q \in Pulls(TnItems) /\ q.request = p.request /\ q.cursor = p.cursor
          /\ (Walked(p) => Walked(q)) /\ m.kind # "infos" /\ m.kind # "subscription"
      <3>1. CASE q = p
          BY <2>1, <2>4, <3>1
      <3>2. CASE q = Redescribe(p, item)
          BY <2>1, <2>4, <3>2, RedescribeFacts
      <3> QED
          BY <2>3, <3>1, <3>2
    <2>6. Heard(m, again)
        BY <2>1 DEF Heard
    <2>7. Common' /\ Client(q, 0, "infos", TnItems)' /\ SamePlace /\ wire' \subseteq wire
        BY <1>1, <2>5, <2>6, ClientHears
    <2>8. UNCHANGED <<total, presence>>
        BY <2>7 DEF SamePlace
    <2>9. (~e.open => e = NoTnEntry) /\ (e.open => presence' # "down")
        BY <2>3, <2>8, TnIs
    <2> QED
        BY <2>1, <2>2, <2>3, <2>7, <2>8, <2>9, TnHub
  <1>7. ASSUME TnOnNodeDown \/ (NodeUp /\ UNCHANGED tnVars) PROVE Common' /\ TnInv'
    <2>1. tnEntry' = NoTnEntry /\ (NodeDown \/ NodeUp) /\ UNCHANGED tnNode
        BY <1>7, PresenceFacts, TnIs DEF TnOnNodeDown, tnVars, Common
    <2>2. Common' /\ Client(NoPull, 0, "infos", TnItems)' /\ UNCHANGED <<wire, total>>
        BY <1>1, <2>1, ClientIsAlone DEF NodeDown, NodeUp
    <2> QED
        BY <2>1, <2>2, TnIs, TnHub
  <1>8. ASSUME TnOnRequestFailed PROVE Common' /\ TnInv'
    <2>1. PICK m \in wire :
             /\ RequestLost(m) /\ UNCHANGED tnNode
             /\ tnEntry' = IF tnEntry.open /\ tnEntry.table.request = m.id
                           THEN [tnEntry EXCEPT !.table = Abandon(tnEntry.table)] ELSE tnEntry
        BY <1>8 DEF TnOnRequestFailed
    <2>2. m.id # 0
        BY <2>1, RequestLostFacts DEF Common
    <2>3. PICK q, e : q = (IF p.request = m.id THEN Abandon(p) ELSE p) /\ e = tnEntry'
        OBVIOUS
    <2>4. /\ e.table = q /\ DOMAIN e = {"open", "table"}
          /\ e.open = tnEntry.open /\ (~tnEntry.open => e = tnEntry)
        BY <1>0, <2>1, <2>2, <2>3, TnIs
    <2>5. Common' /\ Client(q, 0, "infos", TnItems)' /\ SamePlace /\ wire' \subseteq wire
        BY <1>1, <2>1, <2>3, ClientFails
    <2>6. UNCHANGED <<total, presence>>
        BY <2>5 DEF SamePlace
    <2>7. (~e.open => e = NoTnEntry) /\ (e.open => presence' # "down")
        BY <2>4, <2>6, TnIs
    <2> QED
        BY <2>1, <2>3, <2>4, <2>5, <2>6, <2>7, TnHub
  <1>9. ASSUME TnServe PROVE Common' /\ TnInv'
    <2>1. PICK m \in wire, again \in BOOLEAN :
             LET written == SetParam(m.arg.id, m.arg.value)
             IN \/ /\ m.kind = "list"
                   /\ Serves(m, again, Answer(Hub, "infos", Page(m.arg.cursor, Infos)))
                   /\ UNCHANGED tnNode
                \/ /\ m.kind = "set"
                   /\ Serves(m, again, Ack(written, m.arg.id, SetStatus(m.arg.id, m.arg.value)))
                   /\ tnNode' = written
                \/ /\ m.kind = "get"
                   /\ Serves(m, again, Ack(tnNode, m.arg.id, GetStatus(m.arg.id)))
                   /\ UNCHANGED tnNode
        BY <1>9 DEF TnServe
    <2>2. UNCHANGED tnEntry
        BY <1>9 DEF TnServe
    <2>3. CASE /\ m.kind = "list"
               /\ Serves(m, again, Answer(Hub, "infos", Page(m.arg.cursor, Infos)))
               /\ UNCHANGED tnNode
      <3>1. PICK page, out : /\ page = Page(m.arg.cursor, Infos)
                             /\ out = Answer(Hub, "infos", page)
          OBVIOUS
      <3>2. /\ \A k \in out : k.kind = "infos" /\ k.arg = page /\ MessageIsSound(k)
            /\ \E k \in out : k.kind = "infos" /\ k.arg = page
        <4>1. "infos" \notin Asked \cup Streamed
            BY DEF Asked, Streamed
        <4> QED
            BY <3>1, <4>1, AnswerFacts
      <3>3. PICK k \in out : k.kind = "infos" /\ k.arg = page
          BY <3>2
      <3>4. PICK table : table = Infos
          OBVIOUS
      <3>5. /\ table \in [0 .. total - 1 -> TnItems] /\ \A i \in 0 .. total - 1 : table[i].id = i
            /\ page = Page(m.arg.cursor, table)
        <4>1. tnNode.value \in [0 .. total - 1 -> ValuesKnown] /\ total \in Nat
            BY TnIs
        <4> QED
            BY <3>1, <3>4, <4>1 DEF Infos, TnItems, ValuesKnown
      <3>6. WalkInv(p, "infos", TnItems) /\ "infos" # "list"
          BY <1>1 DEF Client
      <3>7. PageIsWhole(page, TnItems)
            /\ (m.id = p.request /\ presence = "up" => Wanted(p, k.arg))
        <4>1. /\ PageIsWhole(page, TnItems)
              /\ m.id = p.request /\ presence = "up" => Wanted(p, page)
            BY <2>3, <3>5, <3>6, PageAnswers
        <4> QED
            BY <3>3, <4>1
      <3>8. \A e \in out : e.kind \notin Asked /\ MessageIsSound(e)
                           /\ (e.kind = "infos" => PageIsWhole(e.arg, TnItems))
          BY <1>2, <3>2, <3>7, Kinds
      <3>9. Common' /\ Client(p, 0, "infos", TnItems)' /\ SamePlace /\ wire' \subseteq wire \cup out
          BY <1>1, <2>3, <3>1, <3>3, <3>7, <3>8, ClientServed
      <3>10. UNCHANGED <<total, presence>>
          BY <3>9 DEF SamePlace
      <3>11. PICK n : n = tnNode'
          OBVIOUS
      <3>12. \A e \in wire' : e \in wire \/ TnArgs(e)
          BY <3>2, <3>9 DEF TnArgs
      <3> QED
          BY <1>0, <2>2, <2>3, <3>9, <3>10, <3>11, <3>12, TnIs, TnMoves
    <2>4. CASE \/ /\ m.kind = "set"
                  /\ Serves(m, again, Ack(SetParam(m.arg.id, m.arg.value), m.arg.id,
                                          SetStatus(m.arg.id, m.arg.value)))
                  /\ tnNode' = SetParam(m.arg.id, m.arg.value)
               \/ /\ m.kind = "get"
                  /\ Serves(m, again, Ack(tnNode, m.arg.id, GetStatus(m.arg.id)))
                  /\ UNCHANGED tnNode
      <3>1. PICK n, id, value : n = tnNode' /\ id = m.arg.id /\ value = m.arg.value
          OBVIOUS
      <3>2. PICK out, status : out = Ack(n, id, status) /\ Serves(m, again, out)
          BY <2>4, <3>1
      <3>3. id \in Nat
          BY <2>4, <3>1, TnIs DEF TnArgs
      <3>4. /\ DOMAIN n = {"value", "armed", "theirs"}
            /\ n.value \in [0 .. total - 1 -> ValuesKnown]
        <4>1. n = SetParam(id, value) \/ n = tnNode
            BY <2>4, <3>1
        <4> QED
            BY <3>3, <4>1, TnIs, TnWrites
      <3>5. \A k \in out : k.kind = "ack" /\ MessageIsSound(k) /\ TnArgs(k)
          BY <3>2, <3>3, <3>4, TnAcks
      <3>6. \A k \in out : k.kind \notin Asked /\ k.kind # "infos" /\ MessageIsSound(k)
          BY <3>5 DEF Asked
      <3>7. Common' /\ Client(p, 0, "infos", TnItems)' /\ SamePlace /\ wire' \subseteq wire \cup out
          BY <1>1, <2>4, <3>2, <3>6, ClientServed
      <3>8. UNCHANGED <<total, presence>>
          BY <3>7 DEF SamePlace
      <3>9. \A e \in wire' : e \in wire \/ TnArgs(e)
          BY <3>5, <3>7
      <3> QED
          BY <1>0, <2>2, <3>1, <3>4, <3>7, <3>8, <3>9, TnMoves
    <2> QED
        BY <2>1, <2>3, <2>4
  <1>10. ASSUME TnOther \/ TnArm PROVE Common' /\ TnInv'
    <2>1. PICK n, out : n = tnNode' /\ out = {}
        OBVIOUS
    <2>2. Sends(out) /\ UNCHANGED tnEntry
        BY <1>10, <2>1 DEF TnOther, TnArm
    <2>3. /\ DOMAIN n = {"value", "armed", "theirs"}
          /\ n.value \in [0 .. total - 1 -> ValuesKnown]
      <3>1. CASE TnOther
        <4>1. PICK id \in Ids, value \in WireValues :
                  tnNode' = [SetParam(id, value) EXCEPT !.theirs = TRUE]
            BY <3>1 DEF TnOther
        <4>2. PICK w : w = SetParam(id, value)
            OBVIOUS
        <4>3. id \in Nat
            BY ServiceNumbers
        <4>4. DOMAIN w = {"value", "armed", "theirs"} /\ w.value \in [0 .. total - 1 -> ValuesKnown]
            BY <4>2, <4>3, TnWrites
        <4> QED
            BY <2>1, <4>1, <4>2, <4>4
      <3>2. CASE TnArm
          BY <2>1, <3>2, TnIs DEF TnArm
      <3> QED
          BY <1>10, <3>1, <3>2
    <2>4. Common' /\ Client(p, 0, "infos", TnItems)' /\ SamePlace /\ wire' = wire
        BY <1>1, <2>1, <2>2, ClientIsSent
    <2>5. UNCHANGED <<total, presence>>
        BY <2>4 DEF SamePlace
    <2> QED
        BY <1>0, <2>1, <2>2, <2>3, <2>4, <2>5, TnMoves
  <1>11. ASSUME TnReboot PROVE Common' /\ TnInv'
    <2>1. PICK e, n, count : e = tnEntry' /\ n = tnNode' /\ count = total'
        OBVIOUS
    <2>2. /\ Common' /\ Client(p, 0, "infos", TnItems)' /\ UNCHANGED tnEntry
          /\ presence' = "stale" /\ wire' = {m \in wire : m.kind \in Asked}
          /\ n = NewTnNode(count) /\ total' \in Nat
        BY <1>1, <1>11, <2>1, ClientSeesReboot, ServiceNumbers DEF TnReboot
    <2>3. \A m \in wire' : TnArgs(m)
        BY <2>2, TnIs
    <2>4. n.value \in [0 .. total' - 1 -> ValuesKnown] /\ DOMAIN n = {"value", "armed", "theirs"}
        BY <2>1, <2>2 DEF NewTnNode, ValuesKnown
    <2>5. /\ DOMAIN e = {"open", "table"} /\ (~e.open => e = NoTnEntry)
          /\ (e.open => presence' # "down") /\ p = e.table
        BY <1>0, <2>1, <2>2, TnIs
    <2> QED
        BY <2>1, <2>2, <2>3, <2>4, <2>5, TnParts
  <1>12. ASSUME \E m \in wire : AnswerLost(m) /\ UNCHANGED tnVars PROVE Common' /\ TnInv'
    <2>1. PICK m \in wire : AnswerLost(m) /\ UNCHANGED <<tnEntry, tnNode>>
        BY <1>12 DEF tnVars
    <2>2. /\ Common' /\ Client(p, 0, "infos", TnItems)' /\ UNCHANGED <<total, presence>>
          /\ wire' \subseteq wire
        BY <1>1, <2>1, ClientLosesAnswer
    <2>3. PICK e : e = tnEntry'
        OBVIOUS
    <2> QED
        BY <1>0, <2>1, <2>2, <2>3, TnIs, TnHub
  <1> QED
      BY <1>3, <1>4, <1>5, <1>6, <1>7, <1>8, <1>9, <1>10, <1>11, <1>12 DEF TnNext

-----------------------------------------------------------------------------
(* The status service: a client with no table to walk.                     *)

LEMMA NoTable ==
    ASSUME NEW r, SubscriptionInv(r), Common, \A m \in wire : m.kind # "infos"
    PROVE  Client(NoPull, r, "infos", TnItems)
  <1>1. Client(NoPull, 0, "infos", TnItems)
    <2>1. "infos" \in Answering
        BY DEF Answering
    <2> QED
        BY <2>1, NoClient
  <1>2. NoPull.request = 0
      BY DEF NoPull
  <1> QED
      BY <1>1, <1>2 DEF Client

LEMMA StIs ==
    ASSUME StInv, Common
    PROVE  /\ Client(NoPull, stEntry.request, "infos", TnItems)
           /\ DOMAIN stEntry = {"open", "subscribed", "request", "hasStatus"}
           /\ ~stEntry.open => stEntry = NoStEntry
           /\ stEntry.open => presence # "down"
           /\ NoStEntry.request = 0 /\ ~NoStEntry.open /\ ~NoStEntry.subscribed
           /\ DOMAIN NoStEntry = DOMAIN stEntry /\ NoPull.request = 0
           /\ DOMAIN stNode = {"subscribers", "frames"} /\ ServedInv(stEntry, stNode)
           /\ \A m \in wire : m.kind \in {"subscribe", "subscription", "status"}
  <1>1. (\A m \in wire : m.kind \in {"subscribe", "subscription", "status"})
        /\ SubscriptionInv(stEntry.request) /\ ServedInv(stEntry, stNode)
      BY DEF StInv
  <1>2. PICK r : r = stEntry.request
      OBVIOUS
  <1>3. Client(NoPull, r, "infos", TnItems)
      BY <1>1, <1>2, NoTable
  <1>4. DOMAIN stNode = {"subscribers", "frames"}
      BY DEF StInv, NewStNode
  <1>5. /\ DOMAIN stEntry = {"open", "subscribed", "request", "hasStatus"}
        /\ (~stEntry.open => stEntry = NoStEntry) /\ (stEntry.open => presence # "down")
        /\ NoStEntry.request = 0 /\ ~NoStEntry.open /\ ~NoStEntry.subscribed
        /\ DOMAIN NoStEntry = DOMAIN stEntry /\ NoPull.request = 0
      BY DEF StInv, EntryInv, NoStEntry, NoPull
  <1> QED
      BY <1>1, <1>2, <1>3, <1>4, <1>5

LEMMA StParts ==
    ASSUME NEW e, e = stEntry', NEW n, n = stNode', NEW s, s = e.request,
           DOMAIN e = DOMAIN NoStEntry, ~e.open => e = NoStEntry, e.open => presence' # "down",
           Client(NoPull, s, "infos", TnItems)', DOMAIN n = {"subscribers", "frames"},
           \A m \in wire' : m.kind \in {"subscribe", "subscription", "status"}, ServedInv(e, n)'
    PROVE  StInv'
  <1>1. EntryInv(stEntry, NoStEntry)' /\ ServedInv(stEntry, stNode)'
      BY DEF EntryInv, ServedInv
  <1>2. SubscriptionInv(stEntry.request)'
      BY DEF Client, SubscriptionInv, SubscriptionComes
  <1>3. DOMAIN stNode' = DOMAIN NewStNode
      BY DEF NewStNode
  <1> QED
      BY <1>1, <1>2, <1>3 DEF StInv

(* A step of the hub, and one of the node.                                 *)
LEMMA StHub ==
    ASSUME StInv, Common, UNCHANGED stNode, NEW e, e = stEntry', NEW s, s = e.request,
           DOMAIN e = DOMAIN NoStEntry, ~e.open => e = NoStEntry, e.open => presence' # "down",
           Client(NoPull, s, "infos", TnItems)',
           \A m \in wire' \ wire : m.kind = "subscribe" /\ m.arg.enabled = TRUE,
           presence' = "up" /\ ~cutOff' /\ e.subscribed =>
               \/ presence = "up" /\ ~cutOff /\ stEntry.subscribed
               \/ Hub \in stNode.subscribers
    PROVE  StInv'
  <1>1. PICK n, f : n = stNode /\ f = stEntry
      OBVIOUS
  <1>2. \A m \in wire' : m.kind \in {"subscribe", "subscription", "status"}
      BY StIs
  <1>3. ServedInv(e, n)'
    <2>1. ServedInv(f, n)
        BY <1>1, StIs
    <2> QED
        BY <1>1, <2>1, ServedStays
  <1>4. n = stNode' /\ DOMAIN n = {"subscribers", "frames"}
      BY <1>1, StIs
  <1> QED
      BY <1>2, <1>3, <1>4, StParts

LEMMA StMoves ==
    ASSUME StInv, Common, UNCHANGED <<stEntry, presence, cutOff>>, NEW n, n = stNode',
           NEW r, r = stEntry.request, Client(NoPull, r, "infos", TnItems)',
           DOMAIN n = {"subscribers", "frames"},
           Hub \in stNode.subscribers => Hub \in n.subscribers,
           \A m \in wire' \ wire : \/ m.kind = "status"
                                   \/ m.kind = "subscription" /\
                                         (m.arg.enabled => Hub \in n.subscribers)
    PROVE  StInv'
  <1>1. PICK e, o : e = stEntry /\ o = stNode
      OBVIOUS
  <1>2. \A m \in wire' : m.kind \in {"subscribe", "subscription", "status"}
      BY StIs
  <1>3. ServedInv(e, n)'
    <2>1. ServedInv(e, o)
        BY <1>1, StIs
    <2>2. /\ Hub \in o.subscribers => Hub \in n.subscribers
          /\ presence' = "up" /\ ~cutOff' /\ e.subscribed =>
                presence = "up" /\ ~cutOff /\ e.subscribed
        BY <1>1
    <2>3. \A m \in wire' \ wire :
             /\ m.kind = "subscribe" => m.arg.enabled = TRUE
             /\ m.kind = "subscription" /\ m.arg.enabled => Hub \in n.subscribers
        OBVIOUS
    <2> QED
        BY <2>1, <2>2, <2>3, ServedStays
  <1>4. /\ e = stEntry' /\ DOMAIN e = DOMAIN NoStEntry /\ (~e.open => e = NoStEntry)
        /\ (e.open => presence' # "down") /\ r = e.request
      BY <1>1, StIs
  <1> QED
      BY <1>2, <1>3, <1>4, StParts

LEMMA StStep ==
    ASSUME StInv, Common, StNext
    PROVE  Common' /\ StInv'
  <1>0. PICK r : r = stEntry.request
      OBVIOUS
  <1>1. Client(NoPull, r, "infos", TnItems)
      BY <1>0, StIs
  <1>2. StInv /\ NoPull \in Pulls(TnItems)
      BY <1>1, ClientFacts
  <1>3. ASSUME StOnIdentity PROVE Common' /\ StInv'
    <2>1. PICK ok \in BOOLEAN :
             /\ presence = "up" /\ Asks(ok, "subscribe", [enabled |-> TRUE])
             /\ stEntry' = StOpened(ok) /\ UNCHANGED stNode
        BY <1>3 DEF StOnIdentity
    <2>2. PICK s, e, arg : s = Id(1, ok) /\ e = stEntry' /\ arg = [enabled |-> TRUE]
        OBVIOUS
    <2>3. "subscribe" \in Asked \ {"list"} /\ arg.enabled = TRUE
        BY <2>2 DEF Asked
    <2>4. /\ Common' /\ Client(NoPull, s, "infos", TnItems)' /\ SamePlace
          /\ \A m \in wire' : m \in wire \/ (m.kind = "subscribe" /\ m.arg = arg)
        BY <1>1, <2>1, <2>2, <2>3, ClientAsks
    <2>5. /\ e.request = s /\ DOMAIN e = DOMAIN NoStEntry /\ e.open = TRUE /\ ~e.subscribed
      <3>1. e = [NoStEntry EXCEPT !.open = TRUE, !.request = s]
          BY <2>1, <2>2 DEF StOpened
      <3> QED
          BY <3>1 DEF NoStEntry
    <2>6. UNCHANGED <<presence, cutOff>>
        BY <2>4 DEF SamePlace
    <2> QED
        BY <2>1, <2>2, <2>3, <2>4, <2>5, <2>6, StHub
  <1>4. ASSUME StOnMessage PROVE Common' /\ StInv'
    <2>1. PICK m \in wire, again \in BOOLEAN :
             /\ Hears(m, again, FALSE, TRUE, m.kind, 0)
             /\ stEntry' = IF ~stEntry.open THEN stEntry
                           ELSE IF m.kind = "subscription"
                                THEN [stEntry EXCEPT !.subscribed = m.arg.enabled, !.request = 0]
                                ELSE [stEntry EXCEPT !.hasStatus = TRUE]
             /\ UNCHANGED stNode
        BY <1>4 DEF StOnMessage
    <2>2. PICK e, s, q : e = stEntry' /\ s = e.request /\ q = NoPull
        OBVIOUS
    <2>3. /\ DOMAIN e = DOMAIN NoStEntry
          /\ e.open = stEntry.open /\ (~stEntry.open => e = stEntry)
          /\ s \in {0, r} /\ (m.kind = "subscription" => s = 0)
          /\ \/ ~e.subscribed \/ e.subscribed = stEntry.subscribed
             \/ m.kind = "subscription" /\ e.subscribed = m.arg.enabled
        BY <1>0, <2>1, <2>2, StIs
    <2>4. /\ q \in Pulls(TnItems) /\ q.request = NoPull.request /\ q.cursor = NoPull.cursor
          /\ (Walked(NoPull) => Walked(q)) /\ m.kind # "infos"
        BY <1>2, <2>2, StIs
    <2>5. Heard(m, again)
        BY <2>1 DEF Heard
    <2>6. Common' /\ Client(q, s, "infos", TnItems)' /\ SamePlace /\ wire' \subseteq wire
        BY <1>1, <2>3, <2>4, <2>5, ClientHears
    <2>7. UNCHANGED <<presence, cutOff>>
        BY <2>6 DEF SamePlace
    <2>8. (~e.open => e = NoStEntry) /\ (e.open => presence' # "down")
        BY <2>3, <2>7, StIs
    <2>9. e.subscribed => stEntry.subscribed \/ Hub \in stNode.subscribers
        BY <2>3, StIs DEF ServedInv
    <2> QED
        BY <2>1, <2>2, <2>3, <2>6, <2>7, <2>8, <2>9, StHub
  <1>5. ASSUME StOnNodeDown \/ (NodeUp /\ UNCHANGED stVars) PROVE Common' /\ StInv'
    <2>1. stEntry' = NoStEntry /\ (NodeDown \/ NodeUp) /\ UNCHANGED stNode
        BY <1>5, PresenceFacts, StIs DEF StOnNodeDown, stVars, Common
    <2>2. Common' /\ Client(NoPull, 0, "infos", TnItems)' /\ UNCHANGED wire
        BY <1>1, <2>1, ClientIsAlone
    <2> QED
        BY <2>1, <2>2, StIs, StHub
  <1>6. ASSUME StOnRequestFailed PROVE Common' /\ StInv'
    <2>1. PICK m \in wire :
             /\ RequestLost(m) /\ UNCHANGED stNode
             /\ stEntry' = IF stEntry.open /\ stEntry.request = m.id
                           THEN [stEntry EXCEPT !.request = 0] ELSE stEntry
        BY <1>6 DEF StOnRequestFailed
    <2>2. m.id # 0
        BY <2>1, RequestLostFacts DEF Common
    <2>3. PICK e, s, q : e = stEntry' /\ s = e.request
                         /\ q = IF NoPull.request = m.id THEN Abandon(NoPull) ELSE NoPull
        OBVIOUS
    <2>4. /\ q = NoPull /\ DOMAIN e = DOMAIN NoStEntry
          /\ e.open = stEntry.open /\ (~stEntry.open => e = stEntry)
          /\ s \in {0, r} /\ (r = m.id => s = 0) /\ e.subscribed = stEntry.subscribed
        BY <1>0, <2>1, <2>2, <2>3, StIs
    <2>5. Common' /\ Client(q, s, "infos", TnItems)' /\ SamePlace /\ wire' \subseteq wire
        BY <1>1, <2>1, <2>3, <2>4, ClientFails
    <2>6. UNCHANGED <<presence, cutOff>>
        BY <2>5 DEF SamePlace
    <2>7. (~e.open => e = NoStEntry) /\ (e.open => presence' # "down")
        BY <2>4, <2>6, StIs
    <2> QED
        BY <2>1, <2>3, <2>4, <2>5, <2>6, <2>7, StHub
  <1>7. ASSUME StServe PROVE Common' /\ StInv'
    <2>1. PICK m \in wire, again \in BOOLEAN :
             /\ stNode' = StSubscribed(Hub, m.arg.enabled) /\ UNCHANGED stEntry
             /\ Serves(m, again, SubscriptionAnswer(m.arg.enabled, stNode'.subscribers))
        BY <1>7 DEF StServe
    <2>2. PICK n : n = stNode'
        OBVIOUS
    <2>3. PICK out : out = SubscriptionAnswer(m.arg.enabled, n.subscribers)
        OBVIOUS
    <2>4. m.kind = "subscribe" /\ m.arg.enabled = TRUE
      <3>1. m.to = "node"
          BY <2>1 DEF Serves
      <3>2. m.kind \in Asked
          BY <3>1 DEF Common, WireIsSound, MessageIsSound
      <3> QED
          BY <3>2, StIs DEF Asked, ServedInv
    <2>5. /\ \A k \in out : /\ k.kind = "subscription" /\ MessageIsSound(k)
                            /\ k.arg.enabled => Hub \in n.subscribers
          /\ \E k \in out : k.kind = "subscription"
        BY <2>3, <2>4, SubscriptionAnswerFacts
    <2>6. /\ DOMAIN n = {"subscribers", "frames"}
          /\ n.subscribers = Subscribe(stNode.subscribers, Hub, TRUE)
        BY <2>1, <2>2, <2>4, StIs DEF StSubscribed
    <2>7. \A k \in out : k.kind \notin Asked /\ k.kind # "infos" /\ MessageIsSound(k)
        BY <2>5 DEF Asked
    <2>8. Common' /\ Client(NoPull, r, "infos", TnItems)' /\ SamePlace /\ wire' \subseteq wire \cup out
        BY <1>1, <2>1, <2>2, <2>3, <2>4, <2>5, <2>7, ClientServed
    <2>9. UNCHANGED <<presence, cutOff>>
        BY <2>8 DEF SamePlace
    <2>10. Hub \in stNode.subscribers => Hub \in n.subscribers
        BY <2>6, SubscribeFacts
    <2> QED
        BY <1>0, <2>1, <2>2, <2>5, <2>6, <2>8, <2>9, <2>10, StMoves
  <1>8. ASSUME StOther \/ StPublish PROVE Common' /\ StInv'
    <2>1. PICK n : n = stNode'
        OBVIOUS
    <2>2. PICK out : /\ Sends(out) /\ UNCHANGED stEntry
                     /\ out = {} \/ out = Stream(stNode.subscribers, "status", [frame |-> 0])
        BY <1>8 DEF StOther, StPublish
    <2>3. \A k \in out : k.kind = "status" /\ MessageIsSound(k)
      <3>1. "status" \in Streamed
          BY DEF Streamed
      <3> QED
          BY <2>2, <3>1, StreamFacts
    <2>4. \A k \in out : k.kind \notin Asked \cup {"infos"} /\ MessageIsSound(k)
        BY <2>3 DEF Asked
    <2>5. Common' /\ Client(NoPull, r, "infos", TnItems)' /\ SamePlace /\ wire' = wire \cup out
        BY <1>1, <2>2, <2>4, ClientIsSent
    <2>6. UNCHANGED <<presence, cutOff>>
        BY <2>5 DEF SamePlace
    <2>7. /\ DOMAIN n = {"subscribers", "frames"}
          /\ Hub \in stNode.subscribers => Hub \in n.subscribers
      <3>1. CASE StOther
        <4>1. PICK enabled \in BOOLEAN : stNode' = StSubscribed(Other, enabled)
            BY <3>1 DEF StOther
        <4>2. DOMAIN n = {"subscribers", "frames"}
              /\ n.subscribers = Subscribe(stNode.subscribers, Other, enabled)
            BY <2>1, <4>1, StIs DEF StSubscribed
        <4> QED
            BY <4>2, SubscribeFacts, ServiceNumbers
      <3>2. CASE StPublish
          BY <2>1, <3>2, StIs DEF StPublish
      <3> QED
          BY <1>8, <3>1, <3>2
    <2> QED
        BY <1>0, <2>1, <2>2, <2>3, <2>5, <2>6, <2>7, StMoves
  <1>9. ASSUME StHubDown \/ StReboot PROVE Common' /\ StInv'
    <2>1. PICK e, n : e = stEntry /\ n = stNode'
        OBVIOUS
    <2>2. /\ Common' /\ Client(NoPull, r, "infos", TnItems)' /\ UNCHANGED stEntry
          /\ wire' = {m \in wire : m.kind \in Asked}
          /\ presence' = "stale" \/ (UNCHANGED presence /\ cutOff' = TRUE)
      <3>1. CASE StHubDown
          BY <1>1, <3>1, ClientIsCutOff DEF StHubDown
      <3>2. CASE StReboot
          BY <1>1, <3>2, ClientSeesReboot DEF StReboot
      <3> QED
          BY <1>9, <3>1, <3>2
    <2>3. DOMAIN n = {"subscribers", "frames"}
        BY <1>9, <2>1, StIs DEF StHubDown, StReboot, NewStNode
    <2>4. ServedInv(e, n)'
      <3>1. PICK o : o = stNode
          OBVIOUS
      <3>2. ServedInv(e, o)
          BY <2>1, <3>1, StIs
      <3> QED
          BY <2>2, <3>2, ServedEnds
    <2>5. \A m \in wire' : m.kind \in {"subscribe", "subscription", "status"}
        BY <2>2, StIs
    <2>6. /\ e = stEntry' /\ DOMAIN e = DOMAIN NoStEntry /\ (~e.open => e = NoStEntry)
          /\ (e.open => presence' # "down") /\ r = e.request
        BY <1>0, <2>1, <2>2, StIs
    <2> QED
        BY <2>1, <2>2, <2>3, <2>4, <2>5, <2>6, StParts
  <1>10. ASSUME \E m \in wire : AnswerLost(m) /\ UNCHANGED stVars PROVE Common' /\ StInv'
    <2>1. PICK m \in wire : AnswerLost(m) /\ UNCHANGED <<stEntry, stNode>>
        BY <1>10 DEF stVars
    <2>2. /\ Common' /\ Client(NoPull, r, "infos", TnItems)' /\ UNCHANGED <<presence, cutOff>>
          /\ wire' \subseteq wire
        BY <1>1, <2>1, ClientLosesAnswer
    <2>3. PICK e : e = stEntry'
        OBVIOUS
    <2> QED
        BY <1>0, <2>1, <2>2, <2>3, StIs, StHub
  <1> QED
      BY <1>3, <1>4, <1>5, <1>6, <1>7, <1>8, <1>9, <1>10 DEF StNext

-----------------------------------------------------------------------------
(* The transport reports.                                                  *)

RpFields == {"open", "subscribed", "request", "hasReport", "peers", "staging", "stagingValid",
             "wanted"}
RpKinds == {"subscribe", "subscription", "report"}

LEMMA RpIs ==
    ASSUME RpInv, Common
    PROVE  /\ Client(NoPull, rpEntry.request, "infos", TnItems) /\ DOMAIN rpEntry = RpFields
           /\ ~rpEntry.open => rpEntry = NoRpEntry(rpEntry.wanted)
           /\ rpEntry.open => presence # "down"
           /\ \A m \in wire : m.kind \in RpKinds
  <1>1. (\A m \in wire : m.kind \in RpKinds) /\ SubscriptionInv(rpEntry.request)
      BY DEF RpInv, RpKinds
  <1>2. PICK r : r = rpEntry.request
      OBVIOUS
  <1>3. Client(NoPull, r, "infos", TnItems)
      BY <1>1, <1>2, NoTable DEF RpKinds
  <1>4. /\ DOMAIN rpEntry = RpFields /\ (~rpEntry.open => rpEntry = NoRpEntry(rpEntry.wanted))
        /\ (rpEntry.open => presence # "down")
      BY DEF RpInv, EntryInv, NoRpEntry, RpFields
  <1> QED
      BY <1>1, <1>2, <1>3, <1>4

LEMMA RpNone ==
    ASSUME NEW wanted
    PROVE  LET none == NoRpEntry(wanted)
           IN /\ DOMAIN none = RpFields /\ none.open = FALSE /\ none.request = 0
              /\ none.wanted = wanted
  BY DEF NoRpEntry, RpFields

LEMMA RpNoneIsAsked ==
    ASSUME NEW old, NEW wanted, NEW w, w = [NoRpEntry(old) EXCEPT !.wanted = wanted]
    PROVE  w = NoRpEntry(wanted)
  BY DEF NoRpEntry

LEMMA RpParts ==
    ASSUME RpInv, Common, NEW e, e = rpEntry', NEW s, s = e.request,
           DOMAIN e = RpFields, ~e.open => e = NoRpEntry(e.wanted), e.open => presence' # "down",
           Client(NoPull, s, "infos", TnItems)', \A m \in wire' \ wire : m.kind \in RpKinds
    PROVE  RpInv'
  <1>1. EntryInv(rpEntry, NoRpEntry(rpEntry.wanted))'
      BY DEF EntryInv, NoRpEntry, RpFields
  <1>2. SubscriptionInv(rpEntry.request)'
      BY DEF Client, SubscriptionInv, SubscriptionComes
  <1>3. \A m \in wire' : m.kind \in RpKinds
      BY RpIs
  <1> QED
      BY <1>1, <1>2, <1>3 DEF RpInv, RpKinds

(* A page changes what the hub has of a report, not its subscription.      *)
LEMMA RpAccepts ==
    ASSUME RpInv, Common, NEW page, NEW e, e = Accept(page)
    PROVE  /\ DOMAIN e = RpFields /\ e.open = rpEntry.open /\ e.request = rpEntry.request
           /\ e.wanted = rpEntry.wanted
  <1> DEFINE kept == IF page.cursor = 0 THEN <<>> ELSE rpEntry.staging
             joined == kept \o page.items
             staging == SubSeq(joined, 1, Least(MaxItems, Len(joined)))
             whole == page.cursor + Len(page.items) >= page.total
  <1>1. e = IF ~Continues(page) THEN [rpEntry EXCEPT !.stagingValid = FALSE]
            ELSE IF whole THEN [rpEntry EXCEPT !.staging = staging, !.stagingValid = FALSE,
                                               !.peers = staging, !.hasReport = TRUE]
            ELSE [rpEntry EXCEPT !.staging = staging, !.stagingValid = TRUE]
      BY DEF Accept
  <1> HIDE DEF kept, joined, staging, whole
  <1> QED
      BY <1>1, RpIs DEF RpFields

LEMMA RpStep ==
    ASSUME RpInv, Common, RpNext
    PROVE  Common' /\ RpInv'
  <1>0. PICK r : r = rpEntry.request
      OBVIOUS
  <1>1. Client(NoPull, r, "infos", TnItems)
      BY <1>0, RpIs
  <1>2. RpInv /\ NoPull \in Pulls(TnItems) /\ NoPull.request = 0
      BY <1>1, ClientFacts DEF NoPull
  <1>a. ASSUME NEW out, Sends(out), \A k \in out : k.kind = "report" /\ MessageIsSound(k)
        PROVE  /\ Common' /\ Client(NoPull, r, "infos", TnItems)' /\ UNCHANGED presence
               /\ \A m \in wire' \ wire : m.kind \in RpKinds
    <2>1. \A k \in out : k.kind \notin Asked \cup {"infos"} /\ MessageIsSound(k)
        BY <1>a DEF Asked
    <2>2. Common' /\ Client(NoPull, r, "infos", TnItems)' /\ SamePlace /\ wire' = wire \cup out
        BY <1>1, <1>a, <2>1, ClientIsSent
    <2> QED
        BY <1>a, <2>2 DEF SamePlace, RpKinds
  <1>b. ASSUME NEW ok \in BOOLEAN, NEW arg, Asks(ok, "subscribe", arg), NEW s, s = Id(1, ok)
        PROVE  /\ Common' /\ Client(NoPull, s, "infos", TnItems)' /\ UNCHANGED presence
               /\ \A m \in wire' \ wire : m.kind \in RpKinds
    <2>1. "subscribe" \in Asked \ {"list"}
        BY DEF Asked
    <2>2. /\ Common' /\ Client(NoPull, s, "infos", TnItems)' /\ SamePlace
          /\ \A m \in wire' : m \in wire \/ (m.kind = "subscribe" /\ m.arg = arg)
        BY <1>1, <1>b, <2>1, ClientAsks
    <2> QED
        BY <2>2 DEF SamePlace, RpKinds
  <1>c. Sends({}) => /\ Common' /\ Client(NoPull, r, "infos", TnItems)' /\ UNCHANGED presence
                     /\ \A m \in wire' \ wire : m.kind \in RpKinds
    <2>1. PICK out : out = {}
        OBVIOUS
    <2> QED
        BY <1>a, <2>1
  <1>3. ASSUME RpOnIdentity PROVE Common' /\ RpInv'
    <2>1. PICK ok \in BOOLEAN :
             /\ presence = "up" /\ ~rpEntry.open
             /\ IF rpEntry.wanted THEN Asks(ok, "subscribe", [enabled |-> TRUE])
                ELSE ok /\ Sends({})
             /\ rpEntry' = RpOpened(ok)
        BY <1>3 DEF RpOnIdentity
    <2>2. PICK s, e : s = (IF rpEntry.wanted THEN Id(1, ok) ELSE 0) /\ e = rpEntry'
        OBVIOUS
    <2>3. r = 0
        BY <1>0, <2>1, RpIs, RpNone
    <2>4. /\ Common' /\ Client(NoPull, s, "infos", TnItems)' /\ UNCHANGED presence
          /\ \A m \in wire' \ wire : m.kind \in RpKinds
      <3>1. CASE rpEntry.wanted
        <4>1. PICK arg : arg = [enabled |-> TRUE]
            OBVIOUS
        <4>2. Asks(ok, "subscribe", arg) /\ s = Id(1, ok)
            BY <2>1, <2>2, <3>1, <4>1
        <4> QED
            BY <1>b, <4>2
      <3>2. CASE ~rpEntry.wanted
          BY <1>c, <2>1, <2>2, <2>3, <3>2
      <3> QED
          BY <3>1, <3>2
    <2>5. DOMAIN e = RpFields /\ e.open = TRUE /\ e.request = s
      <3>1. PICK none : none = NoRpEntry(rpEntry.wanted)
          OBVIOUS
      <3>2. e = [none EXCEPT !.open = TRUE, !.request = s]
          BY <2>1, <2>2, <3>1 DEF RpOpened, Closed
      <3> QED
          BY <3>1, <3>2, RpNone DEF RpFields
    <2> QED
        BY <2>1, <2>2, <2>4, <2>5, RpParts
  <1>4. ASSUME SetWanted PROVE Common' /\ RpInv'
    <2> DEFINE dropped == [rpEntry EXCEPT !.wanted = FALSE, !.hasReport = FALSE, !.peers = <<>>,
                                          !.staging = <<>>, !.stagingValid = FALSE]
               moved(w) == IF w \/ ~rpEntry.open THEN [rpEntry EXCEPT !.wanted = w] ELSE dropped
    <2>1. PICK wanted \in BOOLEAN, ok \in BOOLEAN :
             IF rpEntry.open /\ (wanted \/ rpEntry.subscribed)
             THEN /\ Asks(ok, "subscribe", [enabled |-> wanted])
                  /\ rpEntry' = [moved(wanted) EXCEPT !.request = Id(1, ok)]
             ELSE ok /\ Sends({}) /\ rpEntry' = moved(wanted)
        BY <1>4 DEF SetWanted
    <2>2. PICK w, e : w = moved(wanted) /\ e = rpEntry'
        OBVIOUS
    <2>3. /\ DOMAIN w = RpFields /\ w.open = rpEntry.open /\ w.request = r
          /\ ~w.open => w = NoRpEntry(w.wanted)
      <3>1. DOMAIN w = RpFields /\ w.open = rpEntry.open /\ w.request = r
          BY <1>0, <2>2, RpIs DEF RpFields
      <3>2. ASSUME ~rpEntry.open PROVE w = NoRpEntry(w.wanted)
        <4>1. PICK old : NoRpEntry(old) = rpEntry
            BY <3>2, RpIs
        <4>2. w = [NoRpEntry(old) EXCEPT !.wanted = wanted]
            BY <2>2, <3>2, <4>1
        <4>3. w = NoRpEntry(wanted)
            BY <4>2, RpNoneIsAsked
        <4> QED
            BY <4>3, RpNone
      <3> QED
          BY <3>1, <3>2
    <2>4. CASE /\ rpEntry.open /\ (wanted \/ rpEntry.subscribed)
               /\ Asks(ok, "subscribe", [enabled |-> wanted])
               /\ e = [w EXCEPT !.request = Id(1, ok)]
      <3>1. PICK arg, s : arg = [enabled |-> wanted] /\ s = Id(1, ok)
          OBVIOUS
      <3>2. /\ Common' /\ Client(NoPull, s, "infos", TnItems)' /\ UNCHANGED presence
            /\ \A m \in wire' \ wire : m.kind \in RpKinds
          BY <1>b, <2>4, <3>1
      <3>3. DOMAIN e = RpFields /\ e.open /\ e.request = s
          BY <2>3, <2>4, <3>1 DEF RpFields
      <3> QED
          BY <2>2, <2>4, <3>2, <3>3, RpIs, RpParts
    <2>5. CASE Sends({}) /\ e = w
      <3>1. /\ Common' /\ Client(NoPull, r, "infos", TnItems)' /\ UNCHANGED presence
            /\ \A m \in wire' \ wire : m.kind \in RpKinds
          BY <1>c, <2>5
      <3>2. DOMAIN e = RpFields /\ e.open = rpEntry.open /\ e.request = r
            /\ (~e.open => e = NoRpEntry(e.wanted)) /\ (e.open => presence' # "down")
          BY <2>3, <2>5, <3>1, RpIs
      <3> QED
          BY <2>2, <3>1, <3>2, RpParts
    <2> HIDE DEF moved
    <2> QED
        BY <2>1, <2>2, <2>4, <2>5
  <1>5. ASSUME RpOnMessage PROVE Common' /\ RpInv'
    <2>1. PICK m \in wire, again \in BOOLEAN :
             /\ Hears(m, again, FALSE, TRUE, m.kind, 0)
             /\ rpEntry' = IF ~rpEntry.open THEN rpEntry
                           ELSE IF m.kind = "subscription"
                                THEN [rpEntry EXCEPT !.subscribed = m.arg.enabled, !.request = 0]
                                ELSE Accept(m.arg)
        BY <1>5 DEF RpOnMessage
    <2>2. PICK e, s, q : e = rpEntry' /\ s = e.request /\ q = NoPull
        OBVIOUS
    <2>3. /\ DOMAIN e = RpFields /\ e.open = rpEntry.open /\ (~rpEntry.open => e = rpEntry)
          /\ s \in {0, r} /\ (m.kind = "subscription" => s = 0)
      <3>1. CASE ~rpEntry.open
        <4>1. rpEntry.request = 0
            BY <3>1, RpIs, RpNone
        <4> QED
            BY <1>0, <2>1, <2>2, <3>1, <4>1, RpIs
      <3>2. CASE rpEntry.open /\ m.kind = "subscription"
          BY <2>1, <2>2, <3>2, RpIs DEF RpFields
      <3>3. CASE rpEntry.open /\ m.kind # "subscription"
        <4>1. PICK page : page = m.arg
            OBVIOUS
        <4>2. e = Accept(page)
            BY <2>1, <2>2, <3>3, <4>1
        <4> QED
            BY <1>0, <2>2, <3>3, <4>2, RpAccepts
      <3> QED
          BY <3>1, <3>2, <3>3
    <2>4. /\ q \in Pulls(TnItems) /\ q.request = NoPull.request /\ q.cursor = NoPull.cursor
          /\ (Walked(NoPull) => Walked(q)) /\ m.kind # "infos"
        BY <1>2, <2>2, RpIs DEF RpKinds
    <2>5. Heard(m, again)
        BY <2>1 DEF Heard
    <2>6. Common' /\ Client(q, s, "infos", TnItems)' /\ SamePlace /\ wire' \subseteq wire
        BY <1>1, <2>3, <2>4, <2>5, ClientHears
    <2>7. /\ ~e.open => e = NoRpEntry(e.wanted)
          /\ e.open => presence' # "down"
        BY <2>3, <2>6, RpIs DEF SamePlace
    <2> QED
        BY <2>2, <2>3, <2>6, <2>7, RpParts
  <1>6. ASSUME RpOnNodeDown \/ (NodeUp /\ UNCHANGED rpVars) PROVE Common' /\ RpInv'
    <2>1. PICK e : e = rpEntry'
        OBVIOUS
    <2>2. e = NoRpEntry(rpEntry.wanted) /\ (NodeDown \/ NodeUp)
        BY <1>6, <2>1, PresenceFacts, RpIs DEF RpOnNodeDown, rpVars, Common, Closed
    <2>3. Common' /\ Client(NoPull, 0, "infos", TnItems)' /\ UNCHANGED wire
        BY <1>1, <2>2, ClientIsAlone
    <2>4. DOMAIN e = RpFields /\ e.open = FALSE /\ e.request = 0 /\ e.wanted = rpEntry.wanted
        BY <2>2, RpNone
    <2> QED
        BY <2>1, <2>2, <2>3, <2>4, RpParts
  <1>7. ASSUME RpOnRequestFailed PROVE Common' /\ RpInv'
    <2>1. PICK m \in wire :
             /\ RequestLost(m)
             /\ rpEntry' = IF rpEntry.open /\ rpEntry.request = m.id
                           THEN [rpEntry EXCEPT !.request = 0] ELSE rpEntry
        BY <1>7 DEF RpOnRequestFailed
    <2>2. m.id # 0
        BY <2>1, RequestLostFacts DEF Common
    <2>3. PICK e, s, q : e = rpEntry' /\ s = e.request
                         /\ q = IF NoPull.request = m.id THEN Abandon(NoPull) ELSE NoPull
        OBVIOUS
    <2>4. ~rpEntry.open => r = 0
        BY <1>0, RpIs, RpNone
    <2>5. /\ q = NoPull /\ DOMAIN e = RpFields
          /\ e.open = rpEntry.open /\ (~rpEntry.open => e = rpEntry)
          /\ s \in {0, r} /\ (r = m.id => s = 0)
        BY <1>0, <1>2, <2>1, <2>2, <2>3, <2>4, RpIs DEF RpFields
    <2>6. Common' /\ Client(q, s, "infos", TnItems)' /\ SamePlace /\ wire' \subseteq wire
        BY <1>1, <2>1, <2>3, <2>5, ClientFails
    <2>7. /\ ~e.open => e = NoRpEntry(e.wanted)
          /\ e.open => presence' # "down"
        BY <2>5, <2>6, RpIs DEF SamePlace
    <2> QED
        BY <2>3, <2>5, <2>6, <2>7, RpParts
  <1>8. ASSUME RpServe PROVE Common' /\ RpInv'
    <2>1. PICK m \in wire, again \in BOOLEAN :
             /\ \E subscribers : Serves(m, again, SubscriptionAnswer(m.arg.enabled, subscribers))
             /\ UNCHANGED rpEntry
        BY <1>8 DEF RpServe
    <2>2. PICK out : Serves(m, again, out) /\ \E arg : out = Answer(Hub, "subscription", arg)
        BY <2>1 DEF SubscriptionAnswer
    <2>3. "subscription" \notin Asked \cup Streamed
        BY DEF Asked, Streamed
    <2>4. /\ \A k \in out : k.kind = "subscription" /\ MessageIsSound(k)
          /\ \E k \in out : k.kind = "subscription"
        BY <2>2, <2>3, AnswerFacts
    <2>5. m.kind # "list"
        BY RpIs DEF RpKinds
    <2>6. \A k \in out : k.kind \notin Asked /\ k.kind # "infos" /\ MessageIsSound(k)
        BY <2>3, <2>4
    <2>7. Common' /\ Client(NoPull, r, "infos", TnItems)' /\ SamePlace /\ wire' \subseteq wire \cup out
        BY <1>1, <2>2, <2>4, <2>5, <2>6, ClientServed
    <2>8. PICK e : e = rpEntry'
        OBVIOUS
    <2>9. /\ DOMAIN e = RpFields /\ (~e.open => e = NoRpEntry(e.wanted)) /\ r = e.request
          /\ (e.open => presence' # "down") /\ \A k \in wire' \ wire : k.kind \in RpKinds
        BY <1>0, <2>1, <2>4, <2>7, <2>8, RpIs DEF SamePlace, RpKinds
    <2> QED
        BY <2>7, <2>8, <2>9, RpParts
  <1>9. ASSUME RpOther \/ RpTick PROVE Common' /\ RpInv'
    <2>1. PICK out : /\ Sends(out) /\ UNCHANGED rpEntry
                     /\ \A k \in out : k.kind = "report" /\ MessageIsSound(k)
      <3>1. CASE RpOther
        <4>1. Sends({}) /\ UNCHANGED rpEntry
            BY <3>1 DEF RpOther
        <4> QED
            BY <4>1
      <3>2. CASE RpTick
        <4>1. PICK report, cursors :
                 /\ UNCHANGED rpEntry
                 /\ Sends(UNION {Stream(rpNode.subscribers, "report", FillPage(report, c)) :
                                    c \in cursors})
            BY <3>2 DEF RpTick
        <4>2. PICK out : out = UNION {Stream(rpNode.subscribers, "report", FillPage(report, c)) :
                                         c \in cursors}
            OBVIOUS
        <4>3. "report" \in Streamed
            BY DEF Streamed
        <4>4. \A k \in out : k.kind = "report" /\ MessageIsSound(k)
            BY <4>2, <4>3, StreamFacts
        <4> QED
            BY <4>1, <4>2, <4>4
      <3> QED
          BY <1>9, <3>1, <3>2
    <2>2. /\ Common' /\ Client(NoPull, r, "infos", TnItems)' /\ UNCHANGED presence
          /\ \A m \in wire' \ wire : m.kind \in RpKinds
        BY <1>a, <2>1
    <2>3. PICK e : e = rpEntry'
        OBVIOUS
    <2> QED
        BY <1>0, <2>1, <2>2, <2>3, RpIs, RpParts
  <1>10. ASSUME RpHubDown \/ RpReboot PROVE Common' /\ RpInv'
    <2>1. /\ Common' /\ Client(NoPull, r, "infos", TnItems)' /\ UNCHANGED rpEntry
          /\ wire' \subseteq wire
          /\ presence' = "stale" \/ UNCHANGED presence
      <3>1. CASE RpHubDown
          BY <1>1, <3>1, ClientIsCutOff DEF RpHubDown
      <3>2. CASE RpReboot
          BY <1>1, <3>2, ClientSeesReboot DEF RpReboot
      <3> QED
          BY <1>10, <3>1, <3>2
    <2>2. PICK e : e = rpEntry'
        OBVIOUS
    <2> QED
        BY <1>0, <2>1, <2>2, RpIs, RpParts
  <1>11. ASSUME \E m \in wire : AnswerLost(m) /\ UNCHANGED rpVars PROVE Common' /\ RpInv'
    <2>1. PICK m \in wire : AnswerLost(m) /\ UNCHANGED rpEntry
        BY <1>11 DEF rpVars
    <2>2. /\ Common' /\ Client(NoPull, r, "infos", TnItems)' /\ UNCHANGED presence
          /\ wire' \subseteq wire
        BY <1>1, <2>1, ClientLosesAnswer
    <2>3. PICK e : e = rpEntry'
        OBVIOUS
    <2> QED
        BY <1>0, <2>1, <2>2, <2>3, RpIs, RpParts
  <1> QED
      BY <1>3, <1>4, <1>5, <1>6, <1>7, <1>8, <1>9, <1>10, <1>11 DEF RpNext

-----------------------------------------------------------------------------
(* All of them.                                                            *)

LEMMA ServicesStart == Init => ServicesInv
  <1> SUFFICES ASSUME Init PROVE ServicesInv
      OBVIOUS
  <1>1. /\ wire = {} /\ presence = "up" /\ total \in Totals /\ calls \in Nat
        /\ tlEntry = NoTlEntry /\ lgEntry = NoLgEntry /\ lgNode = NewLgNode(total)
        /\ tnEntry = NoTnEntry /\ tnNode = NewTnNode(total) /\ stEntry = NoStEntry
        /\ stNode = NewStNode /\ rpEntry = NoRpEntry(FALSE)
      BY SpentAssumption DEF Init, TlInit, LgInit, TnInit, StInit, RpInit
  <1>2. Common
      BY <1>1 DEF Common, WireIsSound
  <1>3. \A A \in Answering : \A S : Client(NoPull, 0, A, S)
      BY <1>1, <1>2, NoClient
  <1>4. \A A \in Answering : \A S : WalkInv(NoPull, A, S)
      BY <1>3 DEF Client
  <1>5. SubscriptionInv(0)
      BY <1>1 DEF SubscriptionInv, SubscriptionComes
  <1>6. {"descriptors", "modules", "infos"} \subseteq Answering /\ total \in Nat
      BY <1>1, ServiceNumbers DEF Answering
  <1>7. TlInv
    <2>1. NoTlEntry.table = NoPull /\ NoTlEntry.request = 0 /\ ~NoTlEntry.open
        BY DEF NoTlEntry
    <2> QED
        BY <1>1, <1>4, <1>5, <1>6, <2>1 DEF TlInv, EntryInv
  <1>8. LgInv
    <2>1. NoLgEntry.modules = NoPull /\ NoLgEntry.request = 0 /\ ~NoLgEntry.open
          /\ ~NoLgEntry.subscribed
        BY DEF NoLgEntry
    <2>2. lgNode.level \in [0 .. total - 1 -> Levels \cup {DefaultLevel}]
        BY <1>1, <1>6 DEF NewLgNode
    <2> QED
        BY <1>1, <1>4, <1>5, <1>6, <2>1, <2>2 DEF LgInv, EntryInv, ServedInv
  <1>9. TnInv
    <2>1. NoTnEntry.table = NoPull /\ ~NoTnEntry.open
        BY DEF NoTnEntry
    <2>2. tnNode.value \in [0 .. total - 1 -> Values \cup {Default}]
        BY <1>1, <1>6 DEF NewTnNode
    <2> QED
        BY <1>1, <1>4, <1>6, <2>1, <2>2 DEF TnInv, EntryInv
  <1>10. StInv
    <2>1. NoStEntry.request = 0 /\ ~NoStEntry.open /\ ~NoStEntry.subscribed
        BY DEF NoStEntry
    <2> QED
        BY <1>1, <1>5, <2>1 DEF StInv, EntryInv, ServedInv
  <1>11. RpInv
    <2>1. /\ rpEntry.request = 0 /\ rpEntry.open = FALSE
          /\ rpEntry = NoRpEntry(rpEntry.wanted)
        BY <1>1, RpNone
    <2>2. EntryInv(rpEntry, NoRpEntry(rpEntry.wanted))
        BY <2>1 DEF EntryInv
    <2> QED
        BY <1>1, <1>5, <2>1, <2>2 DEF RpInv
  <1>12. LinesInv
    <2>1. /\ DOMAIN lgNode = DOMAIN NewLgNode(0) /\ lgNode.window = 0 /\ lgNode.windowDropped = 0
          /\ lgNode.dropped = 0 /\ lgNode.reported = 0
        BY <1>1 DEF NewLgNode
    <2> QED
        BY <2>1, LogAssumption DEF LinesInv, EveryLineCounted
  <1> QED
      BY <1>1, <1>2, <1>7, <1>8, <1>9, <1>10, <1>11, <1>12 DEF ServicesInv, Common

(* One service steps, and the others keep what they never had.             *)
LEMMA ServicesStep == ServicesInv /\ [Next]_vars => ServicesInv'
  <1> SUFFICES ASSUME ServicesInv, [Next]_vars PROVE ServicesInv'
      OBVIOUS
  <1>1. Common /\ LinesInv
      BY DEF ServicesInv, Common
  <1>2. UNCHANGED lgNode => LinesInv'
      BY <1>1, LinesStay
  <1>3. ASSUME UNCHANGED service, Common', LinesInv',
               (service = "telemetry" /\ TlInv') \/ (service # "telemetry" /\ UNCHANGED tlEntry),
               (service = "log" /\ LgInv') \/ (service # "log" /\ UNCHANGED lgEntry),
               (service = "tuning" /\ TnInv') \/ (service # "tuning" /\ UNCHANGED tnEntry),
               (service = "status" /\ StInv') \/ (service # "status" /\ UNCHANGED stEntry),
               (service = "report" /\ RpInv') \/ (service # "report" /\ UNCHANGED rpEntry)
        PROVE  ServicesInv'
      BY <1>3 DEF ServicesInv, Common
  <1>4. CASE service = "telemetry" /\ TlNext /\ UNCHANGED <<lgVars, tnVars, stVars, rpVars, service>>
    <2>1. Common' /\ TlInv'
        BY <1>1, <1>4, TlStep DEF ServicesInv
    <2>2. UNCHANGED <<lgEntry, tnEntry, stEntry, rpEntry, service>>
        BY <1>4 DEF lgVars, tnVars, stVars, rpVars
    <2>3. LinesInv'
        BY <1>2, <1>4 DEF lgVars
    <2>4. /\ service = "telemetry"
          /\ service # "log"
          /\ service # "tuning"
          /\ service # "status"
          /\ service # "report"
        BY <1>4
    <2> QED
        BY <2>1, <2>3, <2>2, <2>4 DEF ServicesInv, Common
  <1>5. CASE service = "log" /\ LgNext /\ UNCHANGED <<tlVars, tnVars, stVars, rpVars, service>>
    <2>1. Common' /\ LgInv' /\ LinesInv'
        BY <1>1, <1>5, LgStep DEF ServicesInv
    <2>2. UNCHANGED <<tlEntry, tnEntry, stEntry, rpEntry, service>>
        BY <1>5 DEF tlVars, tnVars, stVars, rpVars
    <2>4. /\ service = "log"
          /\ service # "telemetry"
          /\ service # "tuning"
          /\ service # "status"
          /\ service # "report"
        BY <1>5
    <2> QED
        BY <2>1, <2>2, <2>4 DEF ServicesInv, Common
  <1>6. CASE service = "lines" /\ LgWrite /\ UNCHANGED <<tlVars, tnVars, stVars, rpVars, service>>
    <2>1. LinesInv' /\ UNCHANGED lgEntry
        BY <1>1, <1>6, LinesAreCounted DEF LgWrite
    <2>2. Common'
      <3>1. PICK out : out = {} /\ Sends(out)
          BY <1>6 DEF LgWrite
      <3>2. WireIsSound' /\ SamePlace /\ UNCHANGED calls
          BY <1>1, <3>1, SendsFacts DEF Common
      <3> QED
          BY <1>1, <3>2 DEF Common, SamePlace
    <2> QED
        BY <1>3, <1>6, <2>1, <2>2 DEF tlVars, tnVars, stVars, rpVars
  <1>7. CASE service = "tuning" /\ TnNext /\ UNCHANGED <<tlVars, lgVars, stVars, rpVars, service>>
    <2>1. Common' /\ TnInv'
        BY <1>1, <1>7, TnStep DEF ServicesInv
    <2>2. UNCHANGED <<tlEntry, lgEntry, stEntry, rpEntry, service>>
        BY <1>7 DEF tlVars, lgVars, stVars, rpVars
    <2>3. LinesInv'
        BY <1>2, <1>7 DEF lgVars
    <2>4. /\ service = "tuning"
          /\ service # "telemetry"
          /\ service # "log"
          /\ service # "status"
          /\ service # "report"
        BY <1>7
    <2> QED
        BY <2>1, <2>3, <2>2, <2>4 DEF ServicesInv, Common
  <1>8. CASE service = "status" /\ StNext /\ UNCHANGED <<tlVars, lgVars, tnVars, rpVars, service>>
    <2>1. Common' /\ StInv'
        BY <1>1, <1>8, StStep DEF ServicesInv
    <2>2. UNCHANGED <<tlEntry, lgEntry, tnEntry, rpEntry, service>>
        BY <1>8 DEF tlVars, lgVars, tnVars, rpVars
    <2>3. LinesInv'
        BY <1>2, <1>8 DEF lgVars
    <2>4. /\ service = "status"
          /\ service # "telemetry"
          /\ service # "log"
          /\ service # "tuning"
          /\ service # "report"
        BY <1>8
    <2> QED
        BY <2>1, <2>3, <2>2, <2>4 DEF ServicesInv, Common
  <1>9. CASE service = "report" /\ RpNext /\ UNCHANGED <<tlVars, lgVars, tnVars, stVars, service>>
    <2>1. Common' /\ RpInv'
        BY <1>1, <1>9, RpStep DEF ServicesInv
    <2>2. UNCHANGED <<tlEntry, lgEntry, tnEntry, stEntry, service>>
        BY <1>9 DEF tlVars, lgVars, tnVars, stVars
    <2>3. LinesInv'
        BY <1>2, <1>9 DEF lgVars
    <2>4. /\ service = "report"
          /\ service # "telemetry"
          /\ service # "log"
          /\ service # "tuning"
          /\ service # "status"
        BY <1>9
    <2> QED
        BY <2>1, <2>3, <2>2, <2>4 DEF ServicesInv, Common
  <1>10. CASE UNCHANGED vars
    <2>1. /\ UNCHANGED <<wire, calls, faults, presence, total, gaveUp, cutOff, tlEntry, lgEntry>>
          /\ UNCHANGED <<lgNode, tnEntry, tnNode, stEntry, stNode, rpEntry, service>>
        BY <1>10 DEF vars, wireVars, tlVars, lgVars, tnVars, stVars, rpVars
    <2>2. WireIsSound <=> WireIsSound'
        BY <2>1 DEF WireIsSound, MessageIsSound
    <2>3. \A p, A, S : WalkInv(p, A, S) <=> WalkInv(p, A, S)'
        BY <2>1 DEF WalkInv, Walked, PageComes, PageIsWhole, Wanted
    <2>4. \A r : SubscriptionInv(r) <=> SubscriptionInv(r)'
        BY <2>1 DEF SubscriptionInv, SubscriptionComes
    <2>5. \A e, n : (ServedInv(e, n) <=> ServedInv(e, n)') /\ (EntryInv(e, n) <=> EntryInv(e, n)')
        BY <2>1 DEF ServedInv, EntryInv
    <2>6. TlInv => TlInv'
        BY <2>1, <2>3, <2>4 DEF TlInv, EntryInv, WalkInv, Walked, PageComes, PageIsWhole, Wanted,
                                SubscriptionInv, SubscriptionComes
    <2>7. LgInv => LgInv'
        BY <2>1 DEF LgInv, EntryInv, WalkInv, Walked, PageComes, PageIsWhole, Wanted,
                    SubscriptionInv, SubscriptionComes, ServedInv
    <2>8. TnInv => TnInv'
        BY <2>1 DEF TnInv, EntryInv, WalkInv, Walked, PageComes, PageIsWhole, Wanted, NewTnNode
    <2>9. StInv => StInv'
        BY <2>1 DEF StInv, EntryInv, SubscriptionInv, SubscriptionComes, ServedInv
    <2>10. RpInv => RpInv'
        BY <2>1 DEF RpInv, EntryInv, SubscriptionInv, SubscriptionComes
    <2>11. Common'
        BY <1>1, <2>1, <2>2 DEF Common
    <2> QED
        BY <1>2, <1>3, <2>1, <2>6, <2>7, <2>8, <2>9, <2>10, <2>11 DEF ServicesInv
  <1> QED
      BY <1>4, <1>5, <1>6, <1>7, <1>8, <1>9, <1>10 DEF Next

(* Pages are of the build that runs, the walk has read the table up to its *)
(* cursor, what the hub waits on is under way, and the hub is told that it *)
(* is subscribed only while it is: the inductive invariant, for tables,    *)
(* pages and subscriber tables of any size and any number of faults.       *)
THEOREM ServicesInvariant == Spec => []ServicesInv
  <1> QED
      BY ServicesStart, ServicesStep, PTL DEF Spec

LEMMA NothingWaited ==
    /\ NoTlEntry.table = NoPull /\ NoLgEntry.modules = NoPull /\ NoTnEntry.table = NoPull
    /\ NoTlEntry.request = 0 /\ NoLgEntry.request = 0 /\ NoStEntry.request = 0
    /\ NoRpEntry(FALSE).request = 0
    /\ ~NoLgEntry.subscribed /\ ~NoStEntry.subscribed
    /\ NoPull.request = 0 /\ ~NoPull.complete
  BY DEF NoTlEntry, NoLgEntry, NoTnEntry, NoStEntry, NoRpEntry, NoPull

(* A table that TablePull calls complete is the table of the node, whatever*)
(* was lost, repeated or left over from an earlier walk.                   *)
THEOREM ServicesTablesAreWhole == Spec => []TablesAreWhole
  <1>1. ServicesInv => TablesAreWhole
    <2> SUFFICES ASSUME ServicesInv, presence = "up"
                 PROVE  InOrder(tlEntry.table) /\ InOrder(lgEntry.modules) /\ InOrder(tnEntry.table)
        BY DEF TablesAreWhole
    <2>1. InOrder(NoPull)
        BY NothingWaited DEF InOrder
    <2>2. \A p, A, S : WalkInv(p, A, S) => InOrder(p)
        BY DEF WalkInv, Walked, InOrder
    <2>3. InOrder(tlEntry.table)
        BY <2>1, <2>2, NothingWaited DEF ServicesInv, TlInv
    <2>4. InOrder(lgEntry.modules)
        BY <2>1, <2>2, NothingWaited DEF ServicesInv, LgInv
    <2>5. InOrder(tnEntry.table)
        BY <2>1, <2>2, NothingWaited DEF ServicesInv, TnInv
    <2> QED
        BY <2>3, <2>4, <2>5
  <1> QED
      BY <1>1, ServicesInvariant, PTL

(* Whatever a consumer waits on is under way, unless an answer to it was   *)
(* given up on: a request that failed is never waited on.                  *)
THEOREM ServicesNothingIsForgotten == Spec => []NothingIsForgotten
  <1>1. ServicesInv => NothingIsForgotten
    <2> SUFFICES ASSUME ServicesInv, presence = "up"
                 PROVE  /\ PageComes(tlEntry.table, "list", "descriptors")
                        /\ PageComes(lgEntry.modules, "list", "modules")
                        /\ PageComes(tnEntry.table, "list", "infos")
                        /\ \A entry \in {tlEntry, lgEntry, stEntry, rpEntry} :
                              SubscriptionComes(entry.request, "subscribe", "subscription")
        BY DEF NothingIsForgotten
    <2>1. \A A : PageComes(NoPull, "list", A)
        BY NothingWaited DEF PageComes
    <2>2. SubscriptionComes(0, "subscribe", "subscription")
        BY DEF SubscriptionComes
    <2>3. \A p, A, S : WalkInv(p, A, S) => PageComes(p, "list", A)
        BY DEF WalkInv
    <2>4. \A r : SubscriptionInv(r) => SubscriptionComes(r, "subscribe", "subscription")
        BY DEF SubscriptionInv
    <2>5. /\ PageComes(tlEntry.table, "list", "descriptors")
          /\ SubscriptionComes(tlEntry.request, "subscribe", "subscription")
        BY <2>1, <2>2, <2>3, <2>4, NothingWaited DEF ServicesInv, TlInv
    <2>6. /\ PageComes(lgEntry.modules, "list", "modules")
          /\ SubscriptionComes(lgEntry.request, "subscribe", "subscription")
        BY <2>1, <2>2, <2>3, <2>4, NothingWaited DEF ServicesInv, LgInv
    <2>7. PageComes(tnEntry.table, "list", "infos")
        BY <2>1, <2>3, NothingWaited DEF ServicesInv, TnInv
    <2>8. SubscriptionComes(stEntry.request, "subscribe", "subscription")
        BY <2>2, <2>4, NothingWaited DEF ServicesInv, StInv
    <2>9. SubscriptionComes(rpEntry.request, "subscribe", "subscription")
        BY <2>2, <2>4, NothingWaited DEF ServicesInv, RpInv
    <2> QED
        BY <2>5, <2>6, <2>7, <2>8, <2>9
  <1> QED
      BY <1>1, ServicesInvariant, PTL

(* A stream of log lines or of the status that the hub believes it holds is*)
(* sent to it, unless the node lost sight of the hub.                      *)
THEOREM ServicesSubscribedIsServed == Spec => []SubscribedIsServed
  <1>1. ServicesInv => SubscribedIsServed
    <2> SUFFICES ASSUME ServicesInv, presence = "up", ~cutOff
                 PROVE  /\ lgEntry.subscribed => Hub \in lgNode.subscribers
                        /\ stEntry.subscribed => Hub \in stNode.subscribers
        BY DEF SubscribedIsServed
    <2>1. lgEntry.subscribed => Hub \in lgNode.subscribers
        BY NothingWaited DEF ServicesInv, LgInv, ServedInv
    <2>2. stEntry.subscribed => Hub \in stNode.subscribers
        BY NothingWaited DEF ServicesInv, StInv, ServedInv
    <2> QED
        BY <2>1, <2>2
  <1> QED
      BY <1>1, ServicesInvariant, PTL

(* The rate limit of the log lines holds, and no dropped line goes untold. *)
THEOREM ServicesEveryLineCounted == Spec => []EveryLineCounted
  <1>1. ServicesInv => EveryLineCounted
      BY DEF ServicesInv, LinesInv
  <1> QED
      BY <1>1, ServicesInvariant, PTL
=============================================================================
