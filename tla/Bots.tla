-------------------------------- MODULE Bots --------------------------------
(***************************************************************************)
(* The BotManager (bots.rs): a command is routed to the bot that           *)
(* registered it last, whose queue of updates is polled.  The manager has  *)
(* three locks, handlers, bots and updates, and tasks call it at the same  *)
(* time; a step is what happens between two lock acquisitions.             *)
(***************************************************************************)
EXTENDS Optional, Naturals

CONSTANTS
    Bot,          \* the bots, by Uuid
    Command,      \* the commands a message may start with
    MaxQueued     \* bound: the updates a bot has seen

ASSUME BotsAssumption == MaxQueued \in Nat /\ None \notin Bot \cup Nat

VARIABLES
    creating,     \* the bot that create_bot is inserting, and where
    exclusive,    \* create_bot holds the handlers lock
    handlers,     \* BotManager::handlers
    bots,         \* BotManager::bots: "none", "active", "inactive"
    updates,      \* BotManager::updates: how many wait, None without entry
    routing,      \* the bot a route_message found, which still holds handlers
    routed,       \* history: what was pushed or reported as routed, per bot
    polled        \* history: what get_updates returned, per bot

botsVars == <<creating, exclusive, handlers, bots, updates, routing, routed,
              polled>>

AtRest == [bot |-> None, next |-> "handlers"]

BotsInit == /\ creating = AtRest
            /\ exclusive = FALSE
            /\ handlers = [c \in Command |-> None]
            /\ bots = [b \in Bot |-> "none"]
            /\ updates = [b \in Bot |-> None]
            /\ routing = None
            /\ routed = [b \in Bot |-> 0]
            /\ polled = [b \in Bot |-> 0]

\* Slip: the handlers are let go once they are written.
LetGo == FALSE
\* The guard of the handlers lives until create_bot returns.
HeldToTheEnd == TRUE

\* create_bot: the commands of b, other bots' or not, are now its own.
RegisterCommands(b, C) ==
    /\ creating = AtRest
    /\ bots[b] = "none"
    /\ routing = None
    /\ ~exclusive
    /\ handlers' = [c \in Command |-> IF c \in C THEN b ELSE handlers[c]]
    /\ creating' = [bot |-> b, next |-> "bots"]
    /\ exclusive' = HeldToTheEnd
    /\ UNCHANGED <<bots, updates, routing, routed, polled>>

InsertBot ==
    /\ creating.next = "bots"
    /\ bots' = [bots EXCEPT ![creating.bot] = "active"]
    /\ creating' = [creating EXCEPT !.next = "updates"]
    /\ UNCHANGED <<exclusive, handlers, updates, routing, routed, polled>>

InsertQueue ==
    /\ creating.next = "updates"
    /\ updates' = [updates EXCEPT ![creating.bot] = 0]
    /\ creating' = AtRest
    /\ exclusive' = FALSE
    /\ UNCHANGED <<handlers, bots, routing, routed, polled>>

\* push_update: an error for a bot without a queue.
Queued(b) == IF updates[b] = None THEN updates
             ELSE [updates EXCEPT ![b] = @ + 1]

PushUpdate(b) ==
    /\ updates[b] # None
    /\ routed[b] < MaxQueued
    /\ updates' = Queued(b)
    /\ routed' = [routed EXCEPT ![b] = @ + 1]
    /\ UNCHANGED <<creating, exclusive, handlers, bots, routing, polled>>

\* route_message reads the handlers.
FindHandler(c) ==
    /\ ~exclusive
    /\ routing = None
    /\ handlers[c] # None
    /\ routed[handlers[c]] < MaxQueued
    /\ routing' = handlers[c]
    /\ UNCHANGED <<creating, exclusive, handlers, bots, updates, routed,
                   polled>>

\* It pushes the update, ignores whether that failed, and returns the bot, an
\* inactive one too.
RouteTo(b) ==
    /\ routing = b
    /\ updates' = Queued(b)
    /\ routed' = [routed EXCEPT ![b] = @ + 1]
    /\ routing' = None
    /\ UNCHANGED <<creating, exclusive, handlers, bots, polled>>

GetUpdates(b) ==
    /\ updates[b] # None
    /\ polled' = [polled EXCEPT ![b] = @ + updates[b]]
    /\ updates' = [updates EXCEPT ![b] = 0]
    /\ UNCHANGED <<creating, exclusive, handlers, bots, routing, routed>>

DeactivateBot(b) ==
    /\ bots[b] # "none"
    /\ bots' = [bots EXCEPT ![b] = "inactive"]
    /\ UNCHANGED <<creating, exclusive, handlers, updates, routing, routed,
                   polled>>

BotsNext == \/ InsertBot
            \/ InsertQueue
            \/ \E c \in Command : FindHandler(c)
            \/ \E b \in Bot :
                  \/ \E C \in SUBSET Command : RegisterCommands(b, C)
                  \/ PushUpdate(b)
                  \/ RouteTo(b)
                  \/ GetUpdates(b)
                  \/ DeactivateBot(b)

BotsSpec == BotsInit /\ [][BotsNext]_botsVars

-----------------------------------------------------------------------------
BotsTypeOK ==
    /\ creating \in [bot : Bot \cup {None},
                     next : {"handlers", "bots", "updates"}]
    /\ exclusive \in BOOLEAN
    /\ handlers \in [Command -> Bot \cup {None}]
    /\ bots \in [Bot -> {"none", "active", "inactive"}]
    /\ updates \in [Bot -> (0 .. MaxQueued + 1) \cup {None}]
    /\ routing \in Bot \cup {None}
    /\ routed \in [Bot -> 0 .. MaxQueued + 1]
    /\ polled \in [Bot -> 0 .. MaxQueued + 1]

\* What route_message reports as routed, a bot gets: its update is in the
\* queue or was returned to a poller, once, though the push's error is ignored
\* and the message may arrive while the bot is being created or its commands
\* are taken over.
RoutedArrives ==
    \A b \in Bot :
        routed[b] = polled[b] + (IF updates[b] = None THEN 0 ELSE updates[b])
=============================================================================
