--------------------------- MODULE TuningService ---------------------------
(***************************************************************************)
(* The tuning service: the consumer of a ground node (tuning/consumer.hpp) *)
(* and the provider of a drone (tuning/provider.hpp) over the registry of  *)
(* the flight core (tuning_table.cpp), whose entry i has id i here.        *)
(***************************************************************************)
EXTENDS ServiceWire

CONSTANTS Values, Default,   \* values inside a parameter's bounds
          WireValues,        \* values a request may name, some outside them
          Locked             \* parameters that do not change while armed

VARIABLES tnEntry, tnNode
tnVars == <<tnEntry, tnNode>>

NoTnEntry == [open |-> FALSE, table |-> NoPull]

\* theirs is history: another ground node has written a parameter.
NewTnNode(count) ==
    [value |-> [i \in 0 .. count - 1 |-> Default], armed |-> FALSE, theirs |-> FALSE]

TnInit == tnEntry = NoTnEntry /\ tnNode = NewTnNode(total)

-----------------------------------------------------------------------------
(* The consumer *)
TnOpened(ok) == [open |-> TRUE, table |-> AskPage(NoPull, 1, ok)]

TnOnIdentity == \E ok \in BOOLEAN :
    /\ presence = "up" /\ ~tnEntry.open
    /\ Asks(ok, "list", [cursor |-> 0])
    /\ tnEntry' = TnOpened(ok)
    /\ UNCHANGED tnNode

TnRefresh == \E ok \in BOOLEAN :
    /\ tnEntry.open
    /\ Asks(ok, "list", [cursor |-> 0])
    /\ tnEntry' = [tnEntry EXCEPT !.table = AskPage(NoPull, 1, ok)]
    /\ UNCHANGED tnNode

TnSet == \E id \in Ids, value \in WireValues, ok \in BOOLEAN :
    /\ presence # "down"
    /\ Asks(ok, "set", [id |-> id, value |-> value])
    /\ UNCHANGED tnVars

TnGet == \E id \in Ids, ok \in BOOLEAN :
    /\ presence # "down"
    /\ Asks(ok, "get", [id |-> id])
    /\ UNCHANGED tnVars

TnOnPage == \E m \in wire, again, ok \in BOOLEAN :
    LET table == ApplyPage(tnEntry.table, m.arg)
        asks == tnEntry.open /\ Wanted(tnEntry.table, m.arg) /\ ~table.complete
    IN /\ m.kind = "infos"
       /\ Hears(m, again, asks, ok, "list", [cursor |-> table.cursor])
       /\ tnEntry' = IF tnEntry.open
                     THEN [tnEntry EXCEPT !.table = IF asks THEN AskPage(table, 1, ok) ELSE table]
                     ELSE tnEntry
       /\ UNCHANGED tnNode

(* An answer moves the value of a whole table, and only of a whole one.      *)
TnOnAck == \E m \in wire, again \in BOOLEAN :
    /\ m.kind = "ack"
    /\ Hears(m, again, FALSE, TRUE, m.kind, 0)
    /\ tnEntry' = IF tnEntry.open /\ tnEntry.table.complete /\ m.arg.status = "ok"
                  THEN [tnEntry EXCEPT !.table = Redescribe(tnEntry.table,
                                                    [id |-> m.arg.id, value |-> m.arg.value])]
                  ELSE tnEntry
    /\ UNCHANGED tnNode

TnOnNodeDown == NodeDown /\ tnEntry' = NoTnEntry /\ UNCHANGED tnNode

TnOnRequestFailed == \E m \in wire :
    /\ RequestLost(m)
    /\ tnEntry' = IF tnEntry.open /\ tnEntry.table.request = m.id
                  THEN [tnEntry EXCEPT !.table = Abandon(tnEntry.table)] ELSE tnEntry
    /\ UNCHANGED tnNode

-----------------------------------------------------------------------------
(* The provider *)
SetStatus(id, value) ==
    IF id >= total THEN "unknownId"
    ELSE IF tnNode.armed /\ id \in Locked THEN "lockedWhileArmed"
    ELSE IF value \notin Values THEN "outOfBounds" ELSE "ok"
SetParam(id, value) ==
    IF SetStatus(id, value) = "ok" THEN [tnNode EXCEPT !.value[id] = value] ELSE tnNode
GetStatus(id) == IF id < total THEN "ok" ELSE "unknownId"

(* The value in effect travels whatever the outcome. *)
Ack(node, id, status) ==
    Answer(Hub, "ack", [id |-> id, status |-> status,
                        value |-> IF id < total THEN node.value[id] ELSE Default])

Infos == [i \in 0 .. total - 1 |-> [id |-> i, value |-> tnNode.value[i]]]

TnServe == \E m \in wire, again \in BOOLEAN :
    LET written == SetParam(m.arg.id, m.arg.value)
    IN /\ \/ /\ m.kind = "list"
             /\ Serves(m, again, Answer(Hub, "infos", Page(m.arg.cursor, Infos)))
             /\ UNCHANGED tnNode
          \/ /\ m.kind = "set"
             /\ Serves(m, again, Ack(written, m.arg.id, SetStatus(m.arg.id, m.arg.value)))
             /\ tnNode' = written
          \/ /\ m.kind = "get"
             /\ Serves(m, again, Ack(tnNode, m.arg.id, GetStatus(m.arg.id)))
             /\ UNCHANGED tnNode
       /\ UNCHANGED tnEntry

TnOther == \E id \in Ids, value \in WireValues :
    /\ Sends({})
    /\ tnNode' = [SetParam(id, value) EXCEPT !.theirs = TRUE]
    /\ UNCHANGED tnEntry

TnArm == Sends({}) /\ tnNode' = [tnNode EXCEPT !.armed = ~@] /\ UNCHANGED tnEntry
TnReboot == Reboot /\ tnNode' = NewTnNode(total') /\ UNCHANGED tnEntry

TnNext ==
    \/ TnOnIdentity \/ TnRefresh \/ TnSet \/ TnGet \/ TnOnPage \/ TnOnAck
    \/ TnOnNodeDown \/ TnOnRequestFailed
    \/ TnServe \/ TnOther \/ TnArm \/ TnReboot
    \/ (NodeUp /\ UNCHANGED tnVars)
    \/ (\E m \in wire : AnswerLost(m) /\ UNCHANGED tnVars)
=============================================================================
