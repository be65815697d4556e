----------------------------- MODULE LogService -----------------------------
(***************************************************************************)
(* The log service: the consumer of a ground node (log/consumer.hpp) and   *)
(* the provider of a node (log/provider.cpp), with the rate limit of the   *)
(* lines and the level of each module of the build (log/module.cpp).       *)
(***************************************************************************)
EXTENDS ServiceWire

CONSTANTS Levels, DefaultLevel,  \* the levels a build knows
          WireLevels,            \* the levels a request may name
          MaxLines,              \* MAX_LINES_PER_SECOND
          MaxDropped             \* bound on the lines dropped

ASSUME LogAssumption == MaxLines \in Nat \ {0}

VARIABLES lgEntry, lgNode
lgVars == <<lgEntry, lgNode>>

NoLgEntry == [open |-> FALSE, subscribed |-> FALSE, request |-> 0, modules |-> NoPull]

\* reported is history: the drops the provider has told of.
NewLgNode(count) ==
    [subscribers |-> {}, level |-> [i \in 0 .. count - 1 |-> DefaultLevel],
     window |-> 0, windowDropped |-> 0, dropped |-> 0, reported |-> 0]

LgInit == lgEntry = NoLgEntry /\ lgNode = NewLgNode(total)

-----------------------------------------------------------------------------
(* The consumer *)
LgOpened(subscribes, asks) ==
    [NoLgEntry EXCEPT !.open = TRUE, !.request = Id(1, subscribes),
                      !.modules = AskPage(NoPull, 2, asks)]

LgOnIdentity == \E subscribes, asks \in BOOLEAN :
    /\ presence = "up" /\ ~lgEntry.open
    /\ calls + 2 <= MaxCalls /\ calls' = calls + 2
    /\ Fault(Count(~subscribes) + Count(~asks))
    /\ wire' = wire \cup Request(1, subscribes, "subscribe", [enabled |-> TRUE]) \cup Request(2, asks, "list", [cursor |-> 0])
    /\ lgEntry' = LgOpened(subscribes, asks)
    /\ UNCHANGED <<presence, total, gaveUp, cutOff, lgNode>>

LgRefresh == \E ok \in BOOLEAN :
    /\ lgEntry.open
    /\ Asks(ok, "list", [cursor |-> 0])
    /\ lgEntry' = [lgEntry EXCEPT !.modules = AskPage(NoPull, 1, ok)]
    /\ UNCHANGED lgNode

LgSetLevel == \E id \in Ids, level \in WireLevels, ok \in BOOLEAN :
    /\ presence # "down"
    /\ Asks(ok, "setLevel", [id |-> id, level |-> level])
    /\ UNCHANGED lgVars

LgOnPage == \E m \in wire, again, ok \in BOOLEAN :
    LET modules == ApplyPage(lgEntry.modules, m.arg)
        asks == lgEntry.open /\ Wanted(lgEntry.modules, m.arg) /\ ~modules.complete
    IN /\ m.kind = "modules"
       /\ Hears(m, again, asks, ok, "list", [cursor |-> modules.cursor])
       /\ lgEntry' = IF lgEntry.open
                     THEN [lgEntry EXCEPT !.modules = IF asks THEN AskPage(modules, 1, ok)
                                                              ELSE modules]
                     ELSE lgEntry
       /\ UNCHANGED lgNode

(* A module description replaces the one of a whole table, and only of one.  *)
LgOnModuleInfo == \E m \in wire, again \in BOOLEAN :
    /\ m.kind = "moduleInfo"
    /\ Hears(m, again, FALSE, TRUE, m.kind, 0)
    /\ lgEntry' = IF lgEntry.open /\ lgEntry.modules.complete
                  THEN [lgEntry EXCEPT !.modules = Redescribe(lgEntry.modules, m.arg)]
                  ELSE lgEntry
    /\ UNCHANGED lgNode

LgOnSubscription == \E m \in wire, again \in BOOLEAN :
    /\ m.kind = "subscription"
    /\ Hears(m, again, FALSE, TRUE, m.kind, 0)
    /\ lgEntry' = IF lgEntry.open THEN [lgEntry EXCEPT !.subscribed = m.arg.enabled, !.request = 0]
                  ELSE lgEntry
    /\ UNCHANGED lgNode

LgOnNodeDown == NodeDown /\ lgEntry' = NoLgEntry /\ UNCHANGED lgNode

LgFailed(id) ==
    IF ~lgEntry.open THEN lgEntry
    ELSE IF lgEntry.modules.request = id THEN [lgEntry EXCEPT !.modules = Abandon(lgEntry.modules)]
    ELSE IF lgEntry.request = id THEN [lgEntry EXCEPT !.request = 0] ELSE lgEntry

LgOnRequestFailed == \E m \in wire :
    RequestLost(m) /\ lgEntry' = LgFailed(m.id) /\ UNCHANGED lgNode

-----------------------------------------------------------------------------
(* The provider *)
ModuleInfo(level, id) == [id |-> id, level |-> level[id]]

LgSubscribed(src, enabled) == [lgNode EXCEPT !.subscribers = Subscribe(@, src, enabled)]

(* A level the build does not know leaves the module where it is; a change  *)
(* is told to the requester and to every other subscriber.                  *)
LgMoved(command) ==
    /\ command.level \in Levels
    /\ lgNode.level[command.id] # command.level
LgLevelled(command) ==
    IF command.id < total /\ LgMoved(command)
    THEN [lgNode EXCEPT !.level[command.id] = command.level] ELSE lgNode
LgTold(src, command) ==
    IF command.id >= total THEN {}
    ELSE UNION {Answer(dst, "moduleInfo", ModuleInfo(LgLevelled(command).level, command.id))
                   : dst \in {src} \cup (IF LgMoved(command) THEN lgNode.subscribers ELSE {})}

Modules == [i \in 0 .. total - 1 |-> ModuleInfo(lgNode.level, i)]

LgServe == \E m \in wire, again \in BOOLEAN :
    LET subscribed == LgSubscribed(Hub, m.arg.enabled)
    IN /\ \/ /\ m.kind = "list"
             /\ Serves(m, again, Answer(Hub, "modules", Page(m.arg.cursor, Modules)))
             /\ UNCHANGED lgNode
          \/ /\ m.kind = "setLevel"
             /\ Serves(m, again, LgTold(Hub, m.arg))
             /\ lgNode' = LgLevelled(m.arg)
          \/ /\ m.kind = "subscribe"
             /\ Serves(m, again, SubscriptionAnswer(m.arg.enabled, subscribed.subscribers))
             /\ lgNode' = subscribed
       /\ UNCHANGED lgEntry

LgOther ==
    /\ \/ \E id \in Ids, level \in WireLevels :
             LET command == [id |-> id, level |-> level]
             IN Sends(LgTold(Other, command)) /\ lgNode' = LgLevelled(command)
       \/ \E enabled \in BOOLEAN :
             Sends({}) /\ lgNode' = LgSubscribed(Other, enabled)
    /\ UNCHANGED lgEntry

\* Mutant: the count of the dropped lines starts again with every window.
MutWritten(node, elapsed) ==
    LET opened == [node EXCEPT !.window = 0, !.windowDropped = 0]
        at == IF elapsed THEN opened ELSE node
    IN IF at.window >= MaxLines
       THEN [at EXCEPT !.windowDropped = @ + 1, !.dropped = @ + 1]
       ELSE [at EXCEPT !.window = @ + 1]

(* write() of one line, a second or more after the window opened or not: a  *)
(* new window first tells of the lines dropped, as a line of its own.       *)
Written(node, elapsed) ==
    LET noticed == IF node.windowDropped = 0 THEN [node EXCEPT !.window = 0]
                   ELSE [node EXCEPT !.window = 1, !.windowDropped = 0,
                                     !.reported = @ + node.windowDropped]
        at == IF elapsed THEN noticed ELSE node
    IN IF at.window >= MaxLines
       THEN [at EXCEPT !.windowDropped = @ + 1, !.dropped = @ + 1]
       ELSE [at EXCEPT !.window = @ + 1]

LgWrite == \E elapsed \in BOOLEAN :
    /\ lgNode' = Written(lgNode, elapsed) /\ lgNode'.dropped <= MaxDropped
    /\ Sends({})
    /\ UNCHANGED lgEntry

LgHubDown == HubDown /\ lgNode' = [lgNode EXCEPT !.subscribers = @ \ {Hub}] /\ UNCHANGED lgEntry
LgReboot == Reboot /\ lgNode' = NewLgNode(total') /\ UNCHANGED lgEntry

(* The rate limit and the rest of the service share no state: LgNext leaves *)
(* LgWrite, which Services composes as a service of its own.                *)
LgNext ==
    \/ LgOnIdentity \/ LgRefresh \/ LgSetLevel \/ LgOnPage \/ LgOnModuleInfo \/ LgOnSubscription
    \/ LgOnNodeDown \/ LgOnRequestFailed
    \/ LgServe \/ LgOther \/ LgHubDown \/ LgReboot
    \/ (NodeUp /\ UNCHANGED lgVars)
    \/ (\E m \in wire : AnswerLost(m) /\ UNCHANGED lgVars)
=============================================================================
