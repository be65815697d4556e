---------------------------- MODULE ServiceWire ----------------------------
(***************************************************************************)
(* What the services between a ground node (the hub) and another node have *)
(* in common: requests as the messenger carries them (module Messenger),   *)
(* streams sent once, the presence of the node, the walk of a paged table  *)
(* (messaging/table_pull.hpp) and the subscribers of a stream              *)
(* (messaging/subscriber_table.hpp).                                       *)
(*                                                                         *)
(* A request is delivered once or, when its acknowledgement was lost,      *)
(* again, in any order with the others, unless its sender gives up on it   *)
(* or has no room for it.  Each of these is a fault, of which there are    *)
(* MaxFaults.  A second ground node, Other, uses the same provider.        *)
(***************************************************************************)
EXTENDS Integers, Sequences, FiniteSets

CONSTANTS Hub, Other,
          MaxSubscribers,
          Totals,              \* how many items the table of a build may have
          Ids,                 \* the items a request may name
          PageSize, MaxItems,  \* items of a page, items a pull keeps (MAX)
          MaxCalls, MaxFaults  \* bounds on the requests and the faults

ASSUME ServiceAssumption ==
    /\ Hub # Other /\ Ids \subseteq Nat /\ Totals \subseteq Nat /\ Totals # {}
    /\ {PageSize, MaxSubscribers, MaxItems} \subseteq Nat \ {0}
    /\ {MaxCalls, MaxFaults} \subseteq Nat

VARIABLES
    wire,        \* messages in flight
    calls,       \* requests the hub has started: the last id
    faults,      \* faults so far
    presence,    \* the node at the hub: "up", "down", or "stale": rebooted unnoticed
    total,       \* items in the table of the node's build
    gaveUp,      \* history: an answer to the hub, or a page request of it, went nowhere
    cutOff       \* history: the node took the hub for gone, and dropped it

wireVars == <<wire, calls, faults, presence, total, gaveUp, cutOff>>

Count(b) == IF b THEN 1 ELSE 0
Least(a, b) == IF a < b THEN a ELSE b
Fault(n) == faults + n <= MaxFaults /\ faults' = faults + n

(* Messenger::request() by the hub, the n-th of a step, refused unless ok;   *)
(* an answer of the provider, of which only the hub's is followed; a message *)
(* of a stream, sent with Messenger::send().                                 *)
Request(n, ok, kind, arg) ==
    IF ok THEN {[to |-> "node", kind |-> kind, id |-> calls + n, arg |-> arg]} ELSE {}
Id(n, ok) == IF ok THEN calls + n ELSE 0
Answer(dst, kind, arg) ==
    IF dst = Hub THEN {[to |-> "hub", kind |-> kind, id |-> 0, arg |-> arg]} ELSE {}
Stream(dsts, kind, arg) ==
    IF Hub \in dsts THEN {[to |-> "hub", kind |-> kind, id |-> -1, arg |-> arg]} ELSE {}
IsStream(m) == m.id = -1

(* m is handled, for the first time or again, and out is sent. *)
Handle(m, again, out) ==
    /\ again => ~IsStream(m)
    /\ wire' = (IF again THEN wire ELSE wire \ {m}) \cup out

(* The hub starts one request; it handles m, on which it may ask for more;  *)
(* the node handles m and answers out.                                       *)
Asks(ok, kind, arg) ==
    /\ calls < MaxCalls /\ Fault(Count(~ok))
    /\ calls' = calls + 1
    /\ wire' = wire \cup Request(1, ok, kind, arg)
    /\ UNCHANGED <<presence, total, gaveUp, cutOff>>

Hears(m, again, asks, ok, kind, arg) ==
    /\ m.to = "hub" /\ presence # "down"
    /\ asks => calls < MaxCalls
    /\ ~ok => asks
    /\ Fault(Count(again) + Count(~ok))
    /\ calls' = calls + Count(asks)
    /\ Handle(m, again, IF asks THEN Request(1, ok, kind, arg) ELSE {})
    /\ UNCHANGED <<presence, total, gaveUp, cutOff>>

Serves(m, again, out) ==
    /\ m.to = "node" /\ Fault(Count(again))
    /\ Handle(m, again, out)
    /\ UNCHANGED <<calls, presence, total, gaveUp, cutOff>>

(* The node sends on its own, or at another ground node's request. *)
Sends(out) ==
    /\ wire' = wire \cup out
    /\ UNCHANGED <<calls, faults, presence, total, gaveUp, cutOff>>

(* The provider gives up on an answer; a message of a stream is lost. *)
AnswerLost(m) ==
    /\ m.to = "hub" /\ Fault(1)
    /\ wire' = wire \ {m}
    /\ gaveUp' = (gaveUp \/ ~IsStream(m))
    /\ UNCHANGED <<calls, presence, total, cutOff>>

(* The hub gives up on a request, onRequestFailed() follows: it is lost, or  *)
(* still arrives.                                                            *)
RequestLost(m) ==
    /\ m.to = "node" /\ Fault(1)
    /\ wire' \in {wire, wire \ {m}}
    /\ UNCHANGED <<calls, presence, total, gaveUp, cutOff>>

-----------------------------------------------------------------------------
(* The node reboots into a build whose table may differ; what it sent before *)
(* is delivered before anything it sends now.                                *)
Reboot ==
    /\ presence = "up" /\ Fault(1)
    /\ presence' = "stale"
    /\ total' \in Totals
    /\ wire' = {m \in wire : m.to = "node"}
    /\ UNCHANGED <<calls, gaveUp, cutOff>>

(* The hub loses the node, or notices that it rebooted; and finds it again.  *)
NodeDown ==
    /\ presence = "stale" \/ (presence = "up" /\ faults < MaxFaults)
    /\ faults' = IF presence = "up" THEN faults + 1 ELSE faults
    /\ presence' = "down"
    /\ UNCHANGED <<wire, calls, total, gaveUp, cutOff>>

NodeUp ==
    /\ presence = "down"
    /\ presence' = "up" /\ gaveUp' = FALSE /\ cutOff' = FALSE
    /\ UNCHANGED <<wire, calls, faults, total>>

(* The node's own transport has not heard the hub for the expiry time: its  *)
(* messenger forgets the answers it was repeating.                          *)
HubDown ==
    /\ Fault(1)
    /\ cutOff' = TRUE
    /\ wire' = {m \in wire : m.to = "node"}
    /\ gaveUp' = (gaveUp \/ \E m \in wire : m.to = "hub" /\ ~IsStream(m))
    /\ UNCHANGED <<calls, presence, total>>

-----------------------------------------------------------------------------
(* SubscriberTable *)
Add(subscribers, id) ==
    IF Cardinality(subscribers) = MaxSubscribers THEN subscribers ELSE subscribers \cup {id}
Subscribe(subscribers, id, enabled) ==
    IF enabled THEN Add(subscribers, id) ELSE subscribers \ {id}

\* Mutant: the answer is what was asked for.
MutSubscriptionAnswer(enabled, subscribers) ==
    Answer(Hub, "subscription", [enabled |-> enabled])

(* The answer to a subscribe is the subscription as it stands. *)
SubscriptionAnswer(enabled, subscribers) ==
    Answer(Hub, "subscription", [enabled |-> enabled /\ Hub \in subscribers])

(* TablePull *)
NoPull == [items |-> <<>>, cursor |-> 0, total |-> 0, request |-> 0,
           complete |-> FALSE, abandoned |-> FALSE]
AskPage(pull, n, ok) == [pull EXCEPT !.request = Id(n, ok)]
Wanted(pull, page) == page.cursor = pull.cursor

\* Mutant: a page is merged wherever it starts.
MutApplyPage(pull, page) ==
    LET merged == pull.items \o page.items
    IN [pull EXCEPT !.items = SubSeq(merged, 1, Least(MaxItems, Len(merged))),
                    !.cursor = pull.cursor + Len(page.items),
                    !.total = page.total, !.request = 0,
                    !.complete = pull.cursor + Len(page.items) >= page.total]

ApplyPage(pull, page) ==
    LET kept == IF page.cursor = 0 THEN <<>> ELSE pull.items
        merged == kept \o page.items
        cursor == pull.cursor + Len(page.items)
    IN IF ~Wanted(pull, page) THEN pull
       ELSE [pull EXCEPT !.items = SubSeq(merged, 1, Least(MaxItems, Len(merged))),
                         !.cursor = cursor, !.total = page.total, !.request = 0,
                         !.complete = \/ Len(merged) > MaxItems \/ page.items = <<>>
                                      \/ cursor >= page.total
                                      \/ (page.cursor # 0 /\ pull.complete)]

\* Mutant: the request given up on is not forgotten.
MutAbandon(pull) == [pull EXCEPT !.abandoned = TRUE]

Abandon(pull) == [pull EXCEPT !.abandoned = TRUE, !.request = 0]

(* The description of one item moves, wherever it stands in the table. *)
Redescribe(pull, item) ==
    [pull EXCEPT !.items = [i \in DOMAIN pull.items |->
                               IF pull.items[i].id = item.id THEN item ELSE pull.items[i]]]

(* A page of a table, a function on 0 .. total - 1, from its index cursor on:  *)
(* it carries the cursor asked for, and nothing when that is past the end.    *)
Filled(first, table) ==
    [i \in 1 .. Least(PageSize, total - first) |-> table[first + i - 1]]
Page(cursor, table) ==
    [total |-> total, cursor |-> cursor,
     items |-> Filled(Least(cursor, total), table)]

\* The items of a whole walk are the first of the table, in its order.
InOrder(pull) ==
    pull.complete => /\ Len(pull.items) = Least(MaxItems, total)
                     /\ \A i \in 1 .. Len(pull.items) : pull.items[i].id = i - 1

\* What the hub waits for is on its way, in one direction or the other.
PageComes(pull, ask, answer) ==
    \/ pull.request = 0 \/ gaveUp
    \/ \E m \in wire : \/ (m.kind = ask /\ m.id = pull.request)
                      \/ (m.kind = answer /\ Wanted(pull, m.arg))
SubscriptionComes(request, ask, answer) ==
    \/ request = 0 \/ gaveUp
    \/ \E m \in wire : (m.kind = ask /\ m.id = request) \/ m.kind = answer
=============================================================================
