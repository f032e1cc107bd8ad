------------------------------ MODULE EventFeed ------------------------------
(***************************************************************************)
(* What the realtime feed promises a client. A stream has a position, fixed  *)
(* when it begins; from there it gives the events of the client's topics,    *)
(* each once and in the order of their ids, or a resync, and a resync only   *)
(* when an event after the position is gone. What a client was given is its  *)
(* cursor: it keeps it over disconnections and restarts, and its next stream *)
(* begins there. A client that was given nothing yet has no cursor: its next *)
(* stream begins at whatever tail is then current, and what was written in   *)
(* between is not part of the promise.                                       *)
(***************************************************************************)
EXTENDS Integers, Sequences

CONSTANTS
    Clients,        \* browser tabs that follow the feed
    MaximumIssued,  \* bound: events ever written
    TopicAt,        \* the topic of every event, by its id
    TopicsOf        \* the topics each client follows

VARIABLES
    issued,    \* id of the newest event ever written
    pruned,    \* the rows 1..pruned have been deleted
    cursor,    \* last id a client was given; NoCursor before its first delivery
    position   \* id the stream of a client has passed; NoStream while it has none

feedVars == <<issued, pruned, cursor, position>>

NoCursor == -1
NoStream == -1

Matching(c) == {id \in 1..issued : TopicAt[id] \in TopicsOf[c]}

FeedInit ==
    /\ issued = 0
    /\ pruned = 0
    /\ cursor = [c \in Clients |-> NoCursor]
    /\ position = [c \in Clients |-> NoStream]

Issue ==
    /\ issued < MaximumIssued
    /\ issued' = issued + 1
    /\ UNCHANGED <<pruned, cursor, position>>

\* Deletion takes the oldest rows, any number of them.
Prune(through) ==
    /\ through > pruned
    /\ pruned' = through
    /\ UNCHANGED <<issued, cursor, position>>

\* A stream begins where the client was left, or at some tail the server has seen.
Begin(c) ==
    /\ position[c] = NoStream
    /\ \E tail \in 0..issued :
        /\ cursor[c] # NoCursor => tail = cursor[c]
        /\ position' = [position EXCEPT ![c] = tail]
    /\ UNCHANGED <<issued, pruned, cursor>>

\* The next event of the client's topics, none skipped and none repeated.
Deliver(c) ==
    /\ position[c] # NoStream
    /\ \E id \in Matching(c) :
        /\ id > position[c]
        /\ \A other \in Matching(c) : other > position[c] => id <= other
        /\ position' = [position EXCEPT ![c] = id]
        /\ cursor' = [cursor EXCEPT ![c] = id]
    /\ UNCHANGED <<issued, pruned>>

\* The client replaces its snapshot, in its stream or as it asks for one: some event
\* after the position of the stream or after its cursor is deleted.
Resync(c) ==
    LET after == IF position[c] = NoStream THEN cursor[c] ELSE position[c]
    IN /\ after # NoCursor
       /\ pruned > after
       /\ \E tail \in after..issued : cursor' = [cursor EXCEPT ![c] = tail]
       /\ position' = [position EXCEPT ![c] = NoStream]
       /\ UNCHANGED <<issued, pruned>>

\* Streams end at any time, one or, when the server restarts, all of them.
End(ended) ==
    /\ position' = [c \in Clients |-> IF c \in ended THEN NoStream ELSE position[c]]
    /\ UNCHANGED <<issued, pruned, cursor>>

FeedNext ==
    \/ Issue
    \/ \E through \in 1..issued : Prune(through)
    \/ \E c \in Clients : Begin(c) \/ Deliver(c) \/ Resync(c)
    \/ \E ended \in SUBSET Clients : End(ended)

FeedSpec == FeedInit /\ [][FeedNext]_feedVars
=============================================================================
