--------------------------- MODULE Streams_proofs ---------------------------
(***************************************************************************)
(* Theorems about the streams that MCStreams puts side by side.            *)
(***************************************************************************)
EXTENDS MCStreams, JobRunEvents_proofs, FiniteSetTheorems, SequenceTheorems, TLAPS

-----------------------------------------------------------------------------
(* GatewayRequests                                                         *)

Sockets == {"connecting", "connected", "closing"}

(* What a call knows of its request: the permit stands for an open socket, *)
(* the request left with the flag that says so, and the outcome of one     *)
(* that has left is open, unknown, or what the gateway answered.           *)
CallOK(c) ==
  /\ c \in adminLanes <=> callLane[c] \in Sockets
  /\ callLane[c] = "closed" => outcome[c] # "open"
  /\ callLane[c] = "none" => c \notin sent /\ request[c] = "none"
  /\ request[c] = "pending" => outcome[c] = "open" /\ callLane[c] # "closed"
  /\ c \in sent => outcome[c] \in {"open", "ok", "refused", "unknown"}
  /\ outcome[c] = "unknown" => c \in sent
  /\ reply[c] # "none" => c \in sent
  /\ c \in executed <=> reply[c] = "ok"
  /\ outcome[c] \in {"ok", "refused"} => reply[c] = outcome[c]

OneShotInv ==
  /\ OneShot!TypeOK
  /\ IsFiniteSet(adminLanes)
  /\ Cardinality(adminLanes) <= AdminConcurrencyMaximum
  /\ dispatched = sent
  /\ \A c \in Calls : CallOK(c)

LEMMA OneShotCounts == \A S : OneShot!Cardinality(S) = Cardinality(S)
BY Zenon DEF OneShot!Cardinality, Cardinality

LEMMA OneShotBegins == OneShot!Init => OneShotInv
<1> SUFFICES ASSUME OneShot!Init PROVE OneShotInv
  OBVIOUS
<1>1. OneShot!TypeOK
  BY DEF OneShot!Init, OneShot!TypeOK, OneShot!Stages, OneShot!Outcomes, OneShot!KnownFailures
<1>2. IsFiniteSet(adminLanes) /\ Cardinality(adminLanes) <= AdminConcurrencyMaximum
  BY FS_EmptySet, ConstantsMeetAssumptions DEF OneShot!Init, OneShot!RequestsAssumption
<1> QED
  BY <1>1, <1>2 DEF OneShot!Init, OneShotInv, CallOK, Sockets

(* A permit is given below the maximum, and given back.                    *)
LEMMA PermitsCounted ==
  ASSUME OneShotInv, OneShot!Next
  PROVE  IsFiniteSet(adminLanes') /\ Cardinality(adminLanes') <= AdminConcurrencyMaximum
<1> AdminConcurrencyMaximum \in Nat /\ Cardinality(adminLanes) \in Nat
  BY ConstantsMeetAssumptions, FS_CardinalityType DEF OneShotInv, OneShot!RequestsAssumption
<1>1. CASE UNCHANGED adminLanes
  BY <1>1 DEF OneShotInv
<1>2. ASSUME NEW c \in Calls, adminLanes' = adminLanes \cup {c},
             ~(OneShot!Cardinality(adminLanes) >= AdminConcurrencyMaximum)
      PROVE  IsFiniteSet(adminLanes') /\ Cardinality(adminLanes') <= AdminConcurrencyMaximum
  <2>1. Cardinality(adminLanes) < AdminConcurrencyMaximum
    BY <1>2, OneShotCounts
  <2> QED
    BY <1>2, <2>1, FS_AddElement DEF OneShotInv
<1>3. ASSUME NEW c \in Calls, adminLanes' = adminLanes \ {c}
      PROVE  IsFiniteSet(adminLanes') /\ Cardinality(adminLanes') <= AdminConcurrencyMaximum
  BY <1>3, FS_RemoveElement DEF OneShotInv
<1> QED
  BY <1>1, <1>2, <1>3
  DEF OneShot!Next, OneShot!Stop, OneShot!Start, OneShot!Connected, OneShot!Prepared,
      OneShot!PreparationFails, OneShot!GatewayAnswers, OneShot!ReceiveReply,
      OneShot!RequestTimesOut, OneShot!Abort, OneShot!LaneFails, OneShot!Closed,
      OneShot!Return, OneShot!sockets

LEMMA OneShotGoesOn == OneShotInv /\ OneShot!Next => OneShotInv'
<1> SUFFICES ASSUME OneShotInv, OneShot!Next
             PROVE  OneShot!TypeOK' /\ dispatched' = sent' /\ \A c \in Calls : CallOK(c)'
  BY PermitsCounted DEF OneShotInv
<1> USE DEF OneShotInv, OneShot!TypeOK, CallOK, Sockets, OneShot!Stages, OneShot!Outcomes,
            OneShot!KnownFailures, OneShot!sockets, OneShot!frames, OneShot!gateway,
            OneShot!RejectOutcome, OneShot!Settle, OneShot!RequestClose, OneShot!Ends
<1>1. CASE OneShot!Stop
  BY <1>1 DEF OneShot!Stop
<1>2. ASSUME NEW c \in Calls, OneShot!Start(c)
      PROVE  OneShot!TypeOK' /\ dispatched' = sent' /\ \A d \in Calls : CallOK(d)'
  BY <1>2 DEF OneShot!Start
<1>3. ASSUME NEW c \in Calls, OneShot!Connected(c)
      PROVE  OneShot!TypeOK' /\ dispatched' = sent' /\ \A d \in Calls : CallOK(d)'
  BY <1>3 DEF OneShot!Connected
<1>4. ASSUME NEW c \in Calls, OneShot!Prepared(c)
      PROVE  OneShot!TypeOK' /\ dispatched' = sent' /\ \A d \in Calls : CallOK(d)'
  BY <1>4, SMTT(30) DEF OneShot!Prepared, OneShot!Dispatch
<1>5. ASSUME NEW c \in Calls, OneShot!PreparationFails(c)
      PROVE  OneShot!TypeOK' /\ dispatched' = sent' /\ \A d \in Calls : CallOK(d)'
  BY <1>5 DEF OneShot!PreparationFails
<1>6. ASSUME NEW c \in Calls, OneShot!GatewayAnswers(c)
      PROVE  OneShot!TypeOK' /\ dispatched' = sent' /\ \A d \in Calls : CallOK(d)'
  BY <1>6 DEF OneShot!GatewayAnswers
<1>7. ASSUME NEW c \in Calls, OneShot!ReceiveReply(c)
      PROVE  OneShot!TypeOK' /\ dispatched' = sent' /\ \A d \in Calls : CallOK(d)'
  BY <1>7 DEF OneShot!ReceiveReply
<1>8. ASSUME NEW c \in Calls, OneShot!RequestTimesOut(c)
      PROVE  OneShot!TypeOK' /\ dispatched' = sent' /\ \A d \in Calls : CallOK(d)'
  BY <1>8 DEF OneShot!RequestTimesOut
<1>9. ASSUME NEW c \in Calls, OneShot!Abort(c)
      PROVE  OneShot!TypeOK' /\ dispatched' = sent' /\ \A d \in Calls : CallOK(d)'
  BY <1>9 DEF OneShot!Abort
<1>10. ASSUME NEW c \in Calls, OneShot!LaneFails(c)
      PROVE  OneShot!TypeOK' /\ dispatched' = sent' /\ \A d \in Calls : CallOK(d)'
  BY <1>10 DEF OneShot!LaneFails
<1>11. ASSUME NEW c \in Calls, OneShot!Closed(c)
      PROVE  OneShot!TypeOK' /\ dispatched' = sent' /\ \A d \in Calls : CallOK(d)'
  BY <1>11 DEF OneShot!Closed
<1>12. ASSUME NEW c \in Calls, OneShot!Return(c)
      PROVE  OneShot!TypeOK' /\ dispatched' = sent' /\ \A d \in Calls : CallOK(d)'
  BY <1>12 DEF OneShot!Return
<1> QED
  BY <1>1, <1>2, <1>3, <1>4, <1>5, <1>6, <1>7, <1>8, <1>9, <1>10, <1>11, <1>12
  DEF OneShot!Next

LEMMA OneShotHolds ==
  OneShotInv => OneShot!TypeOK /\ OneShot!SocketsAreBounded /\ OneShot!AnswerIsTruthful
<1> SUFFICES ASSUME OneShotInv PROVE OneShot!SocketsAreBounded /\ OneShot!AnswerIsTruthful
  BY DEF OneShotInv
<1>1. {c \in Calls : callLane[c] \in {"connecting", "connected", "closing"}} = adminLanes
  BY DEF OneShotInv, OneShot!TypeOK, CallOK, Sockets
<1> QED
  BY <1>1, OneShotCounts
  DEF OneShotInv, CallOK, OneShot!SocketsAreBounded, OneShot!AnswerIsTruthful,
      OneShot!KnownFailures
-----------------------------------------------------------------------------
(* ChatSubscriptions                                                       *)

Frame == [kind : {"subscribe", "unsubscribe"}, scope : Chat!Scopes]
Message == [kind : {"answer"}, ok : BOOLEAN, scope : Chat!Scopes]
             \cup [kind : {"event"}, sequence : Chat!Sequences]

Upstream(r, l, g) == l \in {"connected", "closing"} /\ r.subscribed = g

Quiet(r) == r.queue = <<>> \/ r.queue = <<Chat!Reconciliation>>

(* A queue in which a gap announces the event that follows it, every other *)
(* event continues the item before it, and the last item is the last event *)
(* of the run that was received.                                           *)
Continues(q, i) ==
  /\ q[i].kind = "gap" =>
       i < Len(q) /\ q[i + 1].kind = "event" /\ q[i + 1].sequence = q[i].sequence
  /\ q[i].kind = "event" /\ i < Len(q) /\ q[i + 1].kind = "event" =>
       q[i + 1].sequence <= q[i].sequence + 1

Chained(q, last) ==
  /\ \A i \in 1..Len(q) :
       /\ q[i].kind \in {"event", "gap"}
       /\ q[i].sequence \in 1..last
       /\ Continues(q, i)
  /\ q # <<>> => q[Len(q)].kind = "event" /\ q[Len(q)].sequence = last

(* What is queued of a scope that has not ended belongs to the open        *)
(* connection, on which the scope is subscribed.                           *)
ScopeOK(s, r, l, g, p) ==
  /\ r \in Chat!Scope
  /\ Len(r.queue) <= QueueMaximum
  /\ r.subscribed <= g
  /\ l = "connecting" => r.subscribed < g
  /\ s \in p => r.subscribed # g
  /\ r.terminal => Quiet(r)
  /\ ~r.member => r.queue = <<>>
  /\ \/ Quiet(r)
     \/ /\ r.member /\ Upstream(r, l, g)
        /\ \A i \in 1..Len(r.queue) : r.queue[i].kind = "event" => r.queue[i].generation = g

(* The scope of the lease has ended, or its queue leads from what the chat *)
(* domain has seen to what was received last.  Before its subscription     *)
(* nothing is queued, and the domain has seen its baseline.                *)
ServedOK(r, l, g, k) ==
  /\ r.member
  /\ \/ r.terminal
     \/ /\ Upstream(r, l, g)
        /\ k <= r.last
        /\ Chained(r.queue, r.last)
        /\ r.queue = <<>> => k = r.last
        /\ r.queue # <<>> /\ r.queue[1].kind = "event" => r.queue[1].sequence <= k + 1 \/ k = 0
     \/ ~Upstream(r, l, g) /\ r.queue = <<>> /\ k = r.baseline

ConnectionOK ==
  /\ outbound \in Seq(Frame) /\ inbound \in Seq(Message)
  /\ inbound # <<>> => lane = "connected"
  /\ pendingScopes # {} => lane = "connected"
  /\ lane # "none" => generation > 0

(* TypeOK without the scopes, which ScopeOK types.                         *)
Plain ==
  /\ lane \in {"none", "connecting", "connected", "closing"}
  /\ generation \in 0 .. MaximumGeneration /\ reconnect \in BOOLEAN
  /\ upstream \in BOOLEAN /\ emitted \in 0 .. MaximumSequence
  /\ pendingScopes \subseteq Chat!Scopes
  /\ opened \in 0 .. MaximumScopes /\ lease \in 0 .. MaximumScopes
  /\ seen \in 0 .. MaximumSequence

ChatInv ==
  /\ Plain
  /\ ConnectionOK
  /\ scope = [s \in Chat!Scopes |-> scope[s]]
  /\ \A s \in Chat!Scopes : ScopeOK(s, scope[s], lane, generation, pendingScopes)
  /\ \A s \in Chat!Scopes : lease = s => ServedOK(scope[s], lane, generation, seen)

ChatConstants ==
  /\ MaximumScopes \in Nat /\ MaximumGeneration \in Nat
  /\ MaximumSequence \in Nat /\ QueueMaximum \in Nat \ {0}

LEMMA ChatConstantsHold == ChatConstants
BY ConstantsMeetAssumptions DEF ChatConstants, Chat!SubscriptionAssumption

LEMMA ItemFacts ==
  /\ Chat!Reconciliation \in Chat!Item
  /\ Chat!Reconciliation.kind = "reconciliation"
  /\ Chat!Nothing.kind = "none"
  /\ Chat!Nothing \notin Chat!Item
  /\ Chat!Unopened \in Chat!Scope
  /\ <<Chat!Reconciliation>> \in Seq(Chat!Item)
  /\ Len(<<Chat!Reconciliation>>) = 1 /\ Len(<<>>) = 0
  /\ <<Chat!Reconciliation>>[1] = Chat!Reconciliation
  /\ <<Chat!Reconciliation>> # <<>>
<1>1. ChatConstants
  BY ChatConstantsHold
<1>2. /\ Chat!Reconciliation \in Chat!Item
      /\ Chat!Reconciliation.kind = "reconciliation"
      /\ Chat!Nothing.kind = "none"
      /\ Chat!Nothing \notin Chat!Item
  BY <1>1 DEF ChatConstants, Chat!Reconciliation, Chat!Item, Chat!Nothing
<1>3. Chat!Unopened \in Chat!Scope
  <2>1. <<>> \in Seq(Chat!Item)
    OBVIOUS
  <2> QED
    BY <1>1, <2>1 DEF ChatConstants, Chat!Unopened, Chat!Scope
<1>4. <<Chat!Reconciliation>> \in Seq(Chat!Item)
  BY <1>2
<1> QED
  BY <1>2, <1>3, <1>4

(* A record that has ended, or of a scope that is not subscribed.          *)
Over(b) ==
  /\ b \in Chat!Scope
  /\ Len(b.queue) <= QueueMaximum
  /\ Quiet(b)
  /\ b.member => b.terminal
  /\ ~b.member => b.queue = <<>>

LEMMA BoundaryEnds ==
  ASSUME NEW r \in Chat!Scope, Len(r.queue) <= QueueMaximum,
         ~r.member => r.queue = <<>>, r.terminal => Quiet(r)
  PROVE  /\ Over(Chat!Boundary(r))
         /\ Chat!Boundary(r).member = r.member
         /\ Chat!Boundary(r).subscribed = r.subscribed
         /\ Chat!Boundary(r).handling = r.handling
<1>1. QueueMaximum \in Nat \ {0}
  BY ChatConstantsHold DEF ChatConstants
<1>2. CASE r.terminal \/ ~r.member
  <2>1. Chat!Boundary(r) = r
    BY <1>2 DEF Chat!Boundary
  <2> QED
    BY <1>2, <2>1 DEF Over, Quiet
<1>3. CASE ~r.terminal /\ r.member
  <2> DEFINE b == [r EXCEPT !.queue = <<Chat!Reconciliation>>, !.terminal = TRUE]
  <2>1. Chat!Boundary(r) = b
    BY <1>3 DEF Chat!Boundary
  <2>2. b \in Chat!Scope
    BY ItemFacts DEF Chat!Scope
  <2>3. /\ b.queue = <<Chat!Reconciliation>> /\ b.terminal = TRUE /\ b.member = r.member
        /\ b.subscribed = r.subscribed /\ b.handling = r.handling
    BY DEF Chat!Scope
  <2> HIDE DEF b
  <2> QED
    BY <1>1, <1>3, <2>1, <2>2, <2>3, ItemFacts DEF Over, Quiet
<1> QED
  BY <1>2, <1>3

LEMMA UnsubscribedFacts ==
  ASSUME NEW r \in Chat!Scope
  PROVE  /\ Chat!Unsubscribed(r) \in Chat!Scope
         /\ Chat!Unsubscribed(r).subscribed \in {0, r.subscribed}
         /\ Chat!Unsubscribed(r).member = r.member
         /\ Chat!Unsubscribed(r).queue = r.queue
         /\ Chat!Unsubscribed(r).terminal = r.terminal
         /\ Chat!Unsubscribed(r).handling = r.handling
BY ChatConstantsHold DEF Chat!Unsubscribed, Chat!Scope, ChatConstants

LEMMA NotifiedEnds ==
  ASSUME NEW r \in Chat!Scope, Len(r.queue) <= QueueMaximum,
         ~r.member => r.queue = <<>>, r.terminal => Quiet(r)
  PROVE  /\ Over(Chat!Notified(r))
         /\ Chat!Notified(r).member = r.member
         /\ Chat!Notified(r).subscribed \in {0, r.subscribed}
         /\ Chat!Notified(r).handling = r.handling
<1> DEFINE u == Chat!Unsubscribed(r)
           b == [u EXCEPT !.quarantined = TRUE, !.last = 0]
<1>1. /\ u \in Chat!Scope /\ u.subscribed \in {0, r.subscribed} /\ u.member = r.member
      /\ u.queue = r.queue /\ u.terminal = r.terminal /\ u.handling = r.handling
  BY UnsubscribedFacts
<1> HIDE DEF u
<1>2. /\ b \in Chat!Scope /\ b.subscribed = u.subscribed /\ b.member = u.member
      /\ b.queue = u.queue /\ b.terminal = u.terminal /\ b.handling = u.handling
  <2>1. 0 \in 0 .. MaximumSequence
    BY ChatConstantsHold DEF ChatConstants
  <2>2. u \in Chat!Scope
    BY <1>1
  <2> QED
    BY <2>1, <2>2 DEF Chat!Scope
<1>3. Chat!Notified(r) = Chat!Boundary(b)
  BY DEF Chat!Notified, u
<1> HIDE DEF b
<1> QED
  BY <1>1, <1>2, <1>3, BoundaryEnds DEF Quiet

LEMMA RejectedEnds ==
  ASSUME NEW r \in Chat!Scope, Len(r.queue) <= QueueMaximum,
         ~r.member => r.queue = <<>>, r.terminal => Quiet(r)
  PROVE  /\ Over(Chat!Rejected(r))
         /\ Chat!Rejected(r).member = r.member
         /\ Chat!Rejected(r).subscribed \in {0, r.subscribed}
         /\ Chat!Rejected(r).handling = r.handling
<1> DEFINE b == [r EXCEPT !.synchronizing = IF @ = generation THEN 0 ELSE @]
<1>1. /\ b \in Chat!Scope /\ b.subscribed = r.subscribed /\ b.member = r.member
      /\ b.queue = r.queue /\ b.terminal = r.terminal /\ b.handling = r.handling
  BY ChatConstantsHold, SMTT(30) DEF Chat!Scope, ChatConstants
<1>2. Chat!Rejected(r) = Chat!Notified(b)
  BY DEF Chat!Rejected
<1> HIDE DEF b
<1> QED
  BY <1>1, <1>2, NotifiedEnds DEF Quiet

LEMMA DeletedEnds ==
  ASSUME NEW r \in Chat!Scope, Len(r.queue) <= QueueMaximum, ~r.member => r.queue = <<>>
  PROVE  /\ Over(Chat!Deleted(r))
         /\ Chat!Deleted(r).member = FALSE
         /\ Chat!Deleted(r).subscribed \in {0, r.subscribed}
         /\ Chat!Deleted(r).handling = r.handling
<1>1. CASE ~r.member
  <2>1. Chat!Deleted(r) = r /\ r.member = FALSE
    BY <1>1 DEF Chat!Deleted, Chat!Scope
  <2> QED
    BY <1>1, <2>1 DEF Over, Quiet
<1>2. CASE r.member
  <2> DEFINE u == Chat!Unsubscribed(r)
             b == [u EXCEPT !.member = FALSE, !.queue = <<>>]
  <2>1. u \in Chat!Scope /\ u.subscribed \in {0, r.subscribed} /\ u.handling = r.handling
    BY UnsubscribedFacts
  <2>2. Chat!Deleted(r) = b
    BY <1>2 DEF Chat!Deleted
  <2> HIDE DEF u
  <2>3. <<>> \in Seq(Chat!Item)
    OBVIOUS
  <2>4. /\ b \in Chat!Scope /\ b.subscribed = u.subscribed /\ b.member = FALSE
        /\ b.queue = <<>> /\ b.handling = u.handling
    BY <2>1, <2>3 DEF Chat!Scope
  <2> HIDE DEF b
  <2> QED
    BY <2>1, <2>2, <2>4, ItemFacts, ChatConstantsHold DEF Over, Quiet, ChatConstants
<1> QED
  BY <1>1, <1>2

(* What has ended stands to any connection.                                *)
LEMMA OverIsOK ==
  ASSUME NEW s, NEW r \in Chat!Scope, NEW b, NEW l, NEW g \in Nat, NEW p, NEW k,
         Over(b), b.subscribed \in {0, r.subscribed},
         r.subscribed <= g, l = "connecting" => r.subscribed < g,
         s \in p => r.subscribed # g /\ g > 0
  PROVE  ScopeOK(s, b, l, g, p) /\ (b.member => ServedOK(b, l, g, k))
<1>1. r.subscribed \in Nat
  BY ChatConstantsHold DEF Chat!Scope, ChatConstants
<1> QED
  BY <1>1 DEF Over, ScopeOK, ServedOK

-----------------------------------------------------------------------------
(* What an event adds to the queue.                                        *)
LEMMA ItemsOfAnEvent ==
  ASSUME NEW n \in Chat!Sequences, generation \in 0..MaximumGeneration
  PROVE  /\ Chat!Event(n) \in Chat!Item /\ Chat!Gap(n) \in Chat!Item
         /\ Chat!Event(n).kind = "event" /\ Chat!Event(n).sequence = n
         /\ Chat!Event(n).generation = generation
         /\ Chat!Gap(n).kind = "gap" /\ Chat!Gap(n).sequence = n
BY ChatConstantsHold DEF Chat!Event, Chat!Gap, Chat!Item, Chat!Sequences, ChatConstants

LEMMA Extended ==
  ASSUME NEW S, NEW q \in Seq(S), NEW y \in S
  PROVE  /\ q \o <<y>> \in Seq(S) /\ q \o <<y>> # <<>> /\ q \o <<>> = q
         /\ Len(q) \in Nat /\ Len(q \o <<y>>) = Len(q) + 1
         /\ (q \o <<y>>)[Len(q) + 1] = y
         /\ \A i \in 1 .. Len(q) : (q \o <<y>>)[i] = q[i]
<1>1. q \o <<y>> = Append(q, y) /\ q \o <<>> = q
  OBVIOUS
<1>2. /\ Append(q, y) \in Seq(S) /\ Append(q, y) # <<>>
      /\ Len(Append(q, y)) = Len(q) + 1
      /\ Append(q, y)[Len(q) + 1] = y
      /\ \A i \in 1 .. Len(q) : Append(q, y)[i] = q[i]
  OBVIOUS
<1> QED
  BY <1>1, <1>2

LEMMA QueueFollows ==
  ASSUME NEW q \in Seq(Chat!Item), NEW last \in Nat, NEW n \in Chat!Sequences, n > last,
         Chained(q, last), last = 0 \/ n = last + 1,
         generation \in 0..MaximumGeneration
  PROVE  LET new == q \o <<Chat!Event(n)>>
         IN /\ new \in Seq(Chat!Item) /\ Len(new) = Len(q) + 1
            /\ Chained(new, n)
            /\ new[Len(q) + 1] = Chat!Event(n)
            /\ \A i \in 1..Len(q) : new[i] = q[i]
<1> DEFINE e == Chat!Event(n)
           new == q \o <<e>>
<1>1. e \in Chat!Item /\ e.kind = "event" /\ e.sequence = n /\ n \in Nat
  BY ItemsOfAnEvent, ChatConstantsHold DEF Chat!Sequences, ChatConstants
<1> HIDE DEF e
<1>4. /\ new \in Seq(Chat!Item) /\ Len(new) = Len(q) + 1 /\ Len(q) \in Nat
      /\ \A i \in 1..Len(q) : new[i] = q[i]
      /\ new[Len(q) + 1] = e
  BY <1>1, Extended
<1> HIDE DEF new
<1>5. q # <<>> => Len(q) > 0 /\ q[Len(q)].kind = "event" /\ q[Len(q)].sequence = last
  BY <1>4 DEF Chained
<1>6. Chained(new, n)
  <2>1. ASSUME NEW i \in 1..Len(q)
        PROVE  /\ new[i].kind \in {"event", "gap"}
               /\ new[i].sequence \in 1..n
               /\ Continues(new, i)
    <3>1. /\ new[i] = q[i] /\ q[i].kind \in {"event", "gap"} /\ q[i].sequence \in 1..last
          /\ Continues(q, i) /\ q # <<>>
      BY <1>4 DEF Chained
    <3>2. CASE i < Len(q)
      <4>1. new[i + 1] = q[i + 1] /\ i < Len(new)
        BY <1>4, <3>2
      <4> QED
        BY <1>1, <3>1, <3>2, <4>1 DEF Continues
    <3>3. CASE i = Len(q)
      <4>1. /\ new[i + 1] = e /\ q[i].kind = "event" /\ q[i].sequence = last
        BY <1>4, <1>5, <3>1, <3>3
      <4>2. n = last + 1
        BY <3>1
      <4> QED
        BY <1>1, <3>1, <4>1, <4>2 DEF Continues
    <3> QED
      BY <1>4, <3>2, <3>3
  <2>2. /\ new[Len(q) + 1].kind = "event" /\ new[Len(q) + 1].sequence \in 1..n
        /\ Continues(new, Len(q) + 1)
    BY <1>1, <1>4 DEF Continues
  <2> QED
    BY <1>1, <1>4, <2>1, <2>2 DEF Chained
<1> QED
  BY <1>4, <1>6 DEF new, e

LEMMA QueueFollowsGap ==
  ASSUME NEW q \in Seq(Chat!Item), NEW last \in Nat, NEW n \in Chat!Sequences, n > last + 1,
         Chained(q, last), generation \in 0..MaximumGeneration
  PROVE  LET new == q \o <<Chat!Gap(n)>> \o <<Chat!Event(n)>>
         IN /\ new \in Seq(Chat!Item)
            /\ Len(new) = Len(q \o <<Chat!Gap(n)>>) + 1 /\ Len(new) = Len(q) + 2
            /\ Chained(new, n)
            /\ new[Len(q) + 1] = Chat!Gap(n) /\ new[Len(q) + 2] = Chat!Event(n)
            /\ \A i \in 1..Len(q) : new[i] = q[i]
<1> DEFINE e == Chat!Event(n)
           h == Chat!Gap(n)
           mid == q \o <<h>>
           new == mid \o <<e>>
<1>1. /\ e \in Chat!Item /\ e.kind = "event" /\ e.sequence = n /\ n \in Nat
      /\ h \in Chat!Item /\ h.kind = "gap" /\ h.sequence = n
  BY ItemsOfAnEvent, ChatConstantsHold DEF Chat!Sequences, ChatConstants
<1> HIDE DEF e, h
<1>4. /\ mid \in Seq(Chat!Item) /\ Len(mid) = Len(q) + 1 /\ Len(q) \in Nat
      /\ \A i \in 1..Len(q) : mid[i] = q[i]
      /\ mid[Len(q) + 1] = h
  BY <1>1, Extended
<1> HIDE DEF mid
<1>5. /\ new \in Seq(Chat!Item) /\ Len(new) = Len(mid) + 1
      /\ \A i \in 1..Len(mid) : new[i] = mid[i]
      /\ new[Len(mid) + 1] = e
  BY <1>1, <1>4, Extended
<1> HIDE DEF new
<1>6. /\ \A i \in 1..Len(q) : new[i] = q[i]
      /\ new[Len(q) + 1] = h /\ new[Len(q) + 2] = e /\ Len(new) = Len(q) + 2
  BY <1>4, <1>5, SMTT(30)
<1>7. q # <<>> => Len(q) > 0 /\ q[Len(q)].kind = "event"
  BY <1>4 DEF Chained
<1>8. Chained(new, n)
  <2>1. ASSUME NEW i \in 1..Len(q)
        PROVE  /\ new[i].kind \in {"event", "gap"}
               /\ new[i].sequence \in 1..n
               /\ Continues(new, i)
    <3>1. /\ new[i] = q[i] /\ q[i].kind \in {"event", "gap"} /\ q[i].sequence \in 1..last
          /\ Continues(q, i) /\ q # <<>>
      BY <1>4, <1>6 DEF Chained
    <3>2. CASE i < Len(q)
      <4>1. new[i + 1] = q[i + 1] /\ i < Len(new)
        BY <1>4, <1>6, <3>2
      <4> QED
        BY <1>1, <3>1, <3>2, <4>1 DEF Continues
    <3>3. CASE i = Len(q)
      <4>1. new[i + 1] = h /\ q[i].kind = "event"
        BY <1>6, <1>7, <3>1, <3>3
      <4> QED
        BY <1>1, <3>1, <4>1 DEF Continues
    <3> QED
      BY <1>4, <3>2, <3>3
  <2>2. /\ new[Len(q) + 1].kind = "gap" /\ new[Len(q) + 1].sequence \in 1..n
        /\ Continues(new, Len(q) + 1)
    <3>1. (Len(q) + 1) + 1 = Len(q) + 2 /\ Len(q) + 1 < Len(q) + 2
      BY <1>4
    <3> QED
      BY <1>1, <1>4, <1>6, <3>1 DEF Continues
  <2>3. /\ new[Len(q) + 2].kind = "event" /\ new[Len(q) + 2].sequence \in 1..n
        /\ Continues(new, Len(q) + 2)
    BY <1>1, <1>4, <1>6 DEF Continues
  <2>4. \A i \in 1..(Len(q) + 2) : i \in 1..Len(q) \/ i = Len(q) + 1 \/ i = Len(q) + 2
    BY <1>4
  <2> QED
    BY <1>1, <1>4, <1>6, <2>1, <2>2, <2>3, <2>4 DEF Chained
<1> QED
  BY <1>4, <1>5, <1>6, <1>8 DEF new, mid, e, h

(* An event extends the queue of a subscribed scope, or ends the scope.    *)
LEMMA FollowedKeeps ==
  ASSUME NEW s, NEW r, NEW n \in Chat!Sequences,
         ScopeOK(s, r, lane, generation, pendingScopes), Chat!Receives(r),
         lane = "connected", generation \in 0..MaximumGeneration, generation > 0, seen \in Nat
  PROVE  /\ ScopeOK(s, Chat!Followed(r, n), lane, generation, pendingScopes)
         /\ Chat!Followed(r, n).handling = r.handling
         /\ ServedOK(r, lane, generation, seen)
              => ServedOK(Chat!Followed(r, n), lane, generation, seen)
<1> DEFINE f == Chat!Followed(r, n)
           e == Chat!Event(n)
           h == Chat!Gap(n)
           a == [r EXCEPT !.last = n]
<1>1. /\ r \in Chat!Scope /\ r.queue \in Seq(Chat!Item) /\ r.last \in Nat
      /\ r.member /\ r.subscribed = generation /\ Upstream(r, lane, generation)
      /\ generation \in Nat /\ n \in Nat /\ n > 0 /\ QueueMaximum \in Nat
      /\ Len(r.queue) \in Nat
  BY ChatConstantsHold
  DEF ScopeOK, Chat!Scope, Chat!Receives, Chat!Sequences, Upstream, ChatConstants
<1>2. /\ a \in Chat!Scope /\ a.queue = r.queue /\ a.last = n /\ a.terminal = r.terminal
      /\ a.member = r.member /\ a.subscribed = r.subscribed /\ a.handling = r.handling
      /\ a.baseline = r.baseline
  <2>1. n \in 0 .. MaximumSequence
    BY <1>1, ChatConstantsHold DEF Chat!Sequences, ChatConstants
  <2> QED
    BY <1>1, <2>1 DEF Chat!Scope
<1> HIDE DEF a
<1>3. CASE n <= r.last
  BY <1>3 DEF Chat!Followed
<1>4. CASE n > r.last /\ r.terminal
  <2>1. f = a
    BY <1>1, <1>4 DEF Chat!Followed, a
  <2> QED
    BY <1>2, <1>4, <2>1 DEF ScopeOK, ServedOK, Quiet, Upstream
<1>5. CASE n > r.last /\ ~r.terminal
  <2> DEFINE gap == IF r.last # 0 /\ n > r.last + 1 THEN <<h>> ELSE <<>>
             new == r.queue \o gap \o <<e>>
             b == [r EXCEPT !.last = n, !.queue = new]
  <2>1. f = IF Len(r.queue \o gap) >= QueueMaximum THEN Chat!Boundary(a) ELSE b
    <3>1. ~(n <= r.last)
      BY <1>1, <1>5
    <3> QED
      BY <1>5, <3>1, Zenon DEF Chat!Followed, a
  <2> HIDE DEF f
  <2>2. CASE Len(r.queue \o gap) >= QueueMaximum
    <3>1. /\ Over(Chat!Boundary(a)) /\ Chat!Boundary(a).subscribed = a.subscribed
          /\ Chat!Boundary(a).handling = a.handling /\ Chat!Boundary(a).member = a.member
      BY <1>1, <1>2, <1>5, BoundaryEnds DEF ScopeOK
    <3>2. s \in pendingScopes => r.subscribed # generation /\ generation > 0
      BY DEF ScopeOK
    <3> DEFINE o == Chat!Boundary(a)
    <3>3. f = o
      BY <2>1, <2>2
    <3> HIDE DEF o
    <3>4. /\ Over(o) /\ o.subscribed \in {0, r.subscribed} /\ o.handling = r.handling
          /\ o.member = r.member /\ r.subscribed <= generation
          /\ lane = "connecting" => r.subscribed < generation
      BY <1>1, <1>2, <3>1 DEF o
    <3>5. /\ ScopeOK(s, o, lane, generation, pendingScopes)
          /\ o.member => ServedOK(o, lane, generation, seen)
      BY <1>1, <3>2, <3>4, OverIsOK
    <3> QED
      BY <1>1, <3>3, <3>4, <3>5 DEF f
  <2>3. CASE ~(Len(r.queue \o gap) >= QueueMaximum)
    <3>1. /\ new \in Seq(Chat!Item) /\ Len(new) <= QueueMaximum
          /\ \A i \in 1..Len(new) :
               \/ i \in 1..Len(r.queue) /\ new[i] = r.queue[i]
               \/ new[i] \in {h, e}
          /\ Len(new) > 0 /\ Len(r.queue) < Len(new)
          /\ \A i \in 1..Len(r.queue) : new[i] = r.queue[i]
          /\ new[Len(r.queue) + 1] = IF gap = <<>> THEN e ELSE h
      <4>1. e \in Chat!Item /\ h \in Chat!Item
        BY ItemsOfAnEvent
      <4> HIDE DEF e, h
      <4>2. CASE r.last # 0 /\ n > r.last + 1
        <5> DEFINE mid == r.queue \o <<h>>
        <5>1. /\ mid \in Seq(Chat!Item) /\ Len(mid) = Len(r.queue) + 1
              /\ mid[Len(r.queue) + 1] = h
              /\ \A i \in 1..Len(r.queue) : mid[i] = r.queue[i]
          BY <1>1, <4>1, Extended
        <5>2. gap = <<h>> /\ gap # <<>>
          BY <4>2
        <5>8. mid = r.queue \o gap
          BY <5>2
        <5>3. Len(mid) < QueueMaximum
          <6> HIDE DEF gap, mid
          <6> QED
            BY <1>1, <2>3, <5>1, <5>8
        <5>4. new = mid \o <<e>>
          BY <5>2
        <5> HIDE DEF mid, gap
        <5>5. /\ mid \o <<e>> \in Seq(Chat!Item) /\ Len(mid \o <<e>>) = Len(mid) + 1
              /\ (mid \o <<e>>)[Len(mid) + 1] = e
              /\ \A i \in 1..Len(mid) : (mid \o <<e>>)[i] = mid[i]
          BY <4>1, <5>1, Extended
        <5> HIDE DEF new
        <5>6. /\ new \in Seq(Chat!Item) /\ Len(new) = Len(r.queue) + 2
              /\ new[Len(r.queue) + 2] = e /\ new[Len(r.queue) + 1] = h
              /\ \A i \in 1..Len(r.queue) : new[i] = r.queue[i]
          BY <1>1, <5>1, <5>4, <5>5
        <5>7. \A i \in 1..(Len(r.queue) + 2) :
                i \in 1..Len(r.queue) \/ i = Len(r.queue) + 1 \/ i = Len(r.queue) + 2
          BY <1>1
        <5>9. Len(new) <= QueueMaximum
          BY <1>1, <5>1, <5>3, <5>6
        <5>10. \A i \in 1..Len(new) :
                 (i \in 1..Len(r.queue) /\ new[i] = r.queue[i]) \/ new[i] \in {h, e}
          BY <5>6, <5>7
        <5>11. Len(new) > 0 /\ Len(r.queue) < Len(new)
          BY <1>1, <5>6
        <5>12. new[Len(r.queue) + 1] = IF gap = <<>> THEN e ELSE h
          BY <5>2, <5>6
        <5> QED
          BY <5>6, <5>9, <5>10, <5>11, <5>12
      <4>3. CASE ~(r.last # 0 /\ n > r.last + 1)
        <5>1. gap = <<>>
          BY <4>3
        <5>6. r.queue \o <<>> = r.queue
          BY <1>1, ConcatEmptySeq
        <5> HIDE DEF gap
        <5>2. r.queue \o gap = r.queue
          BY <5>1, <5>6
        <5>3. new = r.queue \o <<e>> /\ Len(r.queue) < QueueMaximum
          BY <1>1, <2>3, <5>2
        <5> HIDE DEF new
        <5>4. /\ new \in Seq(Chat!Item) /\ Len(new) = Len(r.queue) + 1
              /\ new[Len(r.queue) + 1] = e
              /\ \A i \in 1..Len(r.queue) : new[i] = r.queue[i]
          BY <1>1, <4>1, <5>3, Extended
        <5>5. \A i \in 1..(Len(r.queue) + 1) : i \in 1..Len(r.queue) \/ i = Len(r.queue) + 1
          BY <1>1
        <5> QED
          BY <1>1, <5>1, <5>3, <5>4, <5>5
      <4> QED
        BY <4>2, <4>3
    <3>2. ServedOK(r, lane, generation, seen) =>
            /\ Chained(new, n) /\ seen <= n
            /\ new[1].kind = "event" => new[1].sequence <= seen + 1 \/ seen = 0
      <4> SUFFICES ASSUME ServedOK(r, lane, generation, seen)
                   PROVE  /\ Chained(new, n) /\ seen <= n
                          /\ new[1].kind = "event" => new[1].sequence <= seen + 1 \/ seen = 0
        OBVIOUS
      <4>1. /\ Chained(r.queue, r.last) /\ seen <= r.last
            /\ r.queue = <<>> => seen = r.last
            /\ r.queue # <<>> /\ r.queue[1].kind = "event"
                 => r.queue[1].sequence <= seen + 1 \/ seen = 0
        BY <1>1, <1>5 DEF ServedOK
      <4>2. Chained(new, n)
        <5>1. CASE r.last # 0 /\ n > r.last + 1
          <6>1. new = r.queue \o <<h>> \o <<e>>
            BY <5>1
          <6> HIDE DEF new, e, h
          <6> QED
            BY <1>1, <4>1, <5>1, <6>1, QueueFollowsGap DEF e, h
        <5>2. CASE ~(r.last # 0 /\ n > r.last + 1)
          <6>1. gap = <<>>
            BY <5>2
          <6>4. r.queue \o <<>> = r.queue
            BY <1>1, ConcatEmptySeq
          <6> HIDE DEF gap
          <6>2. new = r.queue \o <<e>>
            BY <6>1, <6>4
          <6>3. r.last = 0 \/ n = r.last + 1
            BY <1>1, <1>5, <5>2
          <6> HIDE DEF new, e, gap
          <6> QED
            BY <1>1, <1>5, <4>1, <6>2, <6>3, QueueFollows DEF e
        <5> QED
          BY <5>1, <5>2
      <4>3. ASSUME new[1].kind = "event" PROVE new[1].sequence <= seen + 1 \/ seen = 0
        <5> HIDE DEF new
        <5>1. CASE r.queue # <<>>
          <6>1. Len(r.queue) > 0
            BY <1>1, <5>1
          <6>2. 1 \in 1..Len(r.queue)
            BY <1>1, <6>1
          <6>3. new[1] = r.queue[1] \/ new[1].kind # "event"
            BY <3>1, <6>2
          <6> QED
            BY <4>1, <4>3, <5>1, <6>3
        <5>2. CASE r.queue = <<>>
          <6>1. new[1] = IF gap = <<>> THEN e ELSE h
            BY <3>1, <5>2, ItemFacts
          <6>2. h.kind = "gap" /\ e.sequence = n
            BY ItemsOfAnEvent
          <6>3. gap = <<>>
            BY <4>3, <6>1, <6>2
          <6>4. r.last = 0 \/ n <= r.last + 1
            BY <1>1, <6>3
          <6> HIDE DEF gap, e, h
          <6> QED
            BY <1>1, <4>1, <5>2, <6>1, <6>2, <6>3, <6>4
        <5> QED
          BY <5>1, <5>2
      <4>4. seen <= n
        BY <1>1, <1>5, <4>1
      <4> HIDE DEF new
      <4> QED
        BY <4>2, <4>3, <4>4
    <3>3. \A i \in 1..Len(new) : new[i].kind = "event" => new[i].generation = generation
      <4>1. e.generation = generation /\ h.kind = "gap"
        BY ItemsOfAnEvent
      <4>2. \A i \in 1..Len(r.queue) :
              r.queue[i].kind = "event" => r.queue[i].generation = generation
        BY ItemFacts DEF ScopeOK, Quiet
      <4> HIDE DEF new, e, h
      <4> QED
        BY <3>1, <4>1, <4>2
    <3> HIDE DEF new, e, h, gap
    <3>4. /\ b \in Chat!Scope /\ b.queue = new /\ b.last = n /\ b.terminal = r.terminal
          /\ b.member = r.member /\ b.subscribed = r.subscribed /\ b.handling = r.handling
      <4>1. n \in 0 .. MaximumSequence
        BY <1>1, ChatConstantsHold DEF Chat!Sequences, ChatConstants
      <4> QED
        BY <1>1, <3>1, <4>1 DEF Chat!Scope
    <3>5. f = b
      BY <2>1, <2>3
    <3>6. new # <<>> /\ Len(new) \in Nat
      BY <3>1, ItemFacts
    <3> HIDE DEF f, b
    <3>7. ScopeOK(s, f, lane, generation, pendingScopes)
      BY <1>1, <1>5, <3>1, <3>3, <3>4, <3>5 DEF ScopeOK, Upstream
    <3>8. ASSUME ServedOK(r, lane, generation, seen)
          PROVE  ServedOK(f, lane, generation, seen)
      BY <1>1, <3>2, <3>4, <3>5, <3>6, <3>8 DEF ServedOK, Upstream
    <3> QED
      BY <3>4, <3>5, <3>7, <3>8 DEF f
  <2> QED
    BY <2>2, <2>3
<1> QED
  BY <1>1, <1>3, <1>4, <1>5

-----------------------------------------------------------------------------
(* The steps.                                                              *)

(* What LossIsReported says of a step.                                     *)
Reports ==
  \A s \in Chat!Scopes :
    (lease = s /\ scope[s].handling = Chat!Nothing /\ scope'[s].handling.kind = "event")
      => scope'[s].handling.sequence <= seen + 1 \/ seen = 0

Still(s) == scope'[s].handling \in {scope[s].handling, Chat!Nothing, Chat!Reconciliation}

(* A step that hands nothing out reports every loss.                       *)
LEMMA QuietStepReports ==
  ASSUME \A s \in Chat!Scopes : Still(s)
  PROVE  Reports
BY ItemFacts DEF Still, Reports

LEMMA ScopeFacts ==
  ASSUME ChatInv, NEW s \in Chat!Scopes
  PROVE  /\ ScopeOK(s, scope[s], lane, generation, pendingScopes)
         /\ scope[s] \in Chat!Scope /\ Len(scope[s].queue) <= QueueMaximum
         /\ ~scope[s].member => scope[s].queue = <<>>
         /\ scope[s].terminal => Quiet(scope[s])
         /\ scope[s].subscribed \in Nat /\ scope[s].subscribed <= generation
         /\ generation \in Nat /\ s \in Nat /\ s # 0 /\ seen \in Nat /\ seen \in 0..MaximumSequence
         /\ lane = "connecting" => scope[s].subscribed < generation
         /\ s \in pendingScopes => scope[s].subscribed # generation /\ generation > 0
         /\ lease = s => ServedOK(scope[s], lane, generation, seen)
BY ChatConstantsHold, SMTT(30) DEF ChatInv, ScopeOK, Plain, ConnectionOK, ChatConstants, Chat!Scope,
                         Chat!Scopes

(* Scopes that are as they were, or over, on the same connection.          *)
LEMMA OverOnSameConnection ==
  ASSUME ChatInv, NEW s \in Chat!Scopes, NEW b, Over(b),
         b.subscribed \in {0, scope[s].subscribed}, NEW p, p \subseteq pendingScopes, NEW k
  PROVE  /\ ScopeOK(s, b, lane, generation, p)
         /\ b.member => ServedOK(b, lane, generation, k)
BY ScopeFacts, OverIsOK

LEMMA ChatBegins == Chat!Init => ChatInv
<1> SUFFICES ASSUME Chat!Init PROVE ChatInv
  OBVIOUS
<1>1. /\ Chat!Unopened \in Chat!Scope /\ Chat!Unopened.queue = <<>>
      /\ ~Chat!Unopened.member /\ Chat!Unopened.subscribed = 0
  BY ItemFacts DEF Chat!Unopened
<1>2. Plain
  <2>2. reconnect \in BOOLEAN /\ upstream \in BOOLEAN
    BY DEF Chat!Init
  <2> QED
    BY <2>2, ChatConstantsHold DEF Chat!Init, Plain, ChatConstants
<1>3. ConnectionOK
  BY DEF Chat!Init, ConnectionOK
<1>4. ASSUME NEW s \in Chat!Scopes
      PROVE  ScopeOK(s, scope[s], lane, generation, pendingScopes)
  <2>1. scope[s] = Chat!Unopened
    BY DEF Chat!Init
  <2>2. ~Chat!Unopened.terminal
    BY DEF Chat!Unopened
  <2> QED
    BY <1>1, <2>1, <2>2, ItemFacts, ChatConstantsHold
    DEF Chat!Init, ScopeOK, Quiet, ChatConstants
<1>5. ASSUME NEW s \in Chat!Scopes PROVE lease # s
  BY ChatConstantsHold DEF Chat!Init, Chat!Scopes, ChatConstants
<1>6. scope = [s \in Chat!Scopes |-> scope[s]]
  BY DEF Chat!Init
<1> QED
  BY <1>2, <1>3, <1>4, <1>5, <1>6 DEF ChatInv

(* A step of the wire or the gateway.                                      *)
LEMMA ScopesStay ==
  ASSUME ChatInv, Plain', ConnectionOK',
         UNCHANGED <<scope, lane, generation, pendingScopes, lease, seen>>
  PROVE  ChatInv' /\ Reports
<1>1. \A s \in Chat!Scopes : Still(s)
  BY DEF Still
<1> QED
  BY <1>1, QuietStepReports DEF ChatInv

(* A step of one scope, which may be a new one.                            *)
LEMMA ScopeMoves ==
  ASSUME ChatInv, Plain', ConnectionOK', NEW s \in Chat!Scopes, NEW b,
         scope' = [scope EXCEPT ![s] = b], UNCHANGED <<lane, generation>>,
         pendingScopes' \subseteq pendingScopes \cup {s},
         ScopeOK(s, b, lane, generation, pendingScopes'),
         lease' = s => ServedOK(b, lane, generation, seen'),
         \A d \in Chat!Scopes \ {s} : lease' = d => lease = d /\ seen' = seen
  PROVE  /\ ChatInv'
         /\ b.handling \in {scope[s].handling, Chat!Nothing, Chat!Reconciliation} => Reports
<1>1. scope[s] = scope[s] /\ scope'[s] = b /\ \A d \in Chat!Scopes \ {s} : scope'[d] = scope[d]
  BY DEF ChatInv
<1>2. scope' = [d \in Chat!Scopes |-> scope'[d]]
  BY DEF ChatInv
<1>3. ASSUME NEW d \in Chat!Scopes
      PROVE  /\ ScopeOK(d, scope'[d], lane', generation', pendingScopes')
             /\ lease' = d => ServedOK(scope'[d], lane', generation', seen')
  <2>1. CASE d = s
    BY <1>1, <2>1
  <2>2. CASE d # s
    <3>1. ScopeOK(d, scope[d], lane, generation, pendingScopes)
      BY ScopeFacts
    <3>2. ScopeOK(d, scope[d], lane, generation, pendingScopes')
      BY <2>2, <3>1 DEF ScopeOK
    <3>3. lease' = d => ServedOK(scope[d], lane, generation, seen')
      BY <2>2, ScopeFacts
    <3> QED
      BY <1>1, <2>2, <3>2, <3>3
  <2> QED
    BY <2>1, <2>2
<1>4. ASSUME b.handling \in {scope[s].handling, Chat!Nothing, Chat!Reconciliation}
      PROVE  Reports
  <2>1. \A d \in Chat!Scopes : Still(d)
    BY <1>1, <1>4 DEF Still
  <2> QED
    BY <2>1, QuietStepReports
<1> QED
  BY <1>2, <1>3, <1>4 DEF ChatInv

LEMMA ConnectKeeps == ASSUME ChatInv, Chat!Connect PROVE ChatInv' /\ Reports
<1> USE DEF Chat!Connect, Chat!client
<1>1. Plain' /\ ConnectionOK'
  <2>1. generation' \in 0 .. MaximumGeneration /\ generation' > 0
    BY ChatConstantsHold DEF ChatInv, Plain, ChatConstants
  <2>2. upstream' \in BOOLEAN
    OBVIOUS
  <2>3. pendingScopes = {}
    BY DEF ChatInv, ConnectionOK
  <2>4. Plain'
    BY <2>1, <2>2 DEF ChatInv, Plain
  <2> QED
    BY <2>1, <2>3, <2>4 DEF ConnectionOK
<1>2. ASSUME NEW s \in Chat!Scopes
      PROVE  ScopeOK(s, scope[s], "connecting", generation + 1, pendingScopes)
  <2>1. Quiet(scope[s]) /\ s \notin pendingScopes
    BY ScopeFacts DEF ScopeOK, Upstream, ChatInv, ConnectionOK
  <2>2. /\ scope[s].subscribed <= generation + 1 /\ scope[s].subscribed < generation + 1
    BY ScopeFacts
  <2> QED
    BY <2>1, <2>2, ScopeFacts DEF ScopeOK
<1>3. ASSUME NEW s \in Chat!Scopes, lease = s
      PROVE  ServedOK(scope[s], "connecting", generation + 1, seen)
  BY <1>3, ScopeFacts DEF ServedOK, Upstream
<1> QED
  BY <1>1, <1>2, <1>3, QuietStepReports DEF ChatInv, Still

LEMMA ConnectedKeeps == ASSUME ChatInv, Chat!Connected PROVE ChatInv' /\ Reports
<1> DEFINE new == {s \in Chat!Scopes : Chat!Unsynchronized(scope[s])}
           n == Chat!Cardinality(new)
<1>1. /\ lane = "connecting" /\ lane' = "connected"
      /\ scope' = [s \in Chat!Scopes |->
           IF Chat!Unsynchronized(scope[s])
           THEN [scope[s] EXCEPT !.synchronizing = generation] ELSE scope[s]]
      /\ pendingScopes' = pendingScopes \cup new
      /\ UNCHANGED <<generation, reconnect, inbound, upstream, emitted, opened, lease, seen>>
      /\ pendingScopes = {}
  BY DEF Chat!Connected, ChatInv, ConnectionOK
<1>2. outbound' \in Seq(Frame)
  <2>1. PICK order \in [1 .. n -> new] :
          outbound' = outbound \o [i \in DOMAIN order |-> Chat!Subscribe(order[i])]
    BY DEF Chat!Connected
  <2>2. n \in Nat
    <3>1. IsFiniteSet(Chat!Scopes)
      BY FS_Interval, ChatConstantsHold DEF Chat!Scopes, ChatConstants
    <3>2. IsFiniteSet(new)
      BY <3>1, FS_Subset
    <3>3. n = Cardinality(new)
      BY Zenon DEF Chat!Cardinality, Cardinality
    <3> QED
      BY <3>2, <3>3, FS_CardinalityType
  <2> HIDE DEF n
  <2> DEFINE frames == [i \in 1 .. n |-> Chat!Subscribe(order[i])]
  <2>3. \A i \in 1 .. n : Chat!Subscribe(order[i]) \in Frame
    BY <2>1 DEF Chat!Subscribe, Frame
  <2>4. frames \in Seq(Frame)
    BY <2>2, <2>3
  <2>5. outbound' = outbound \o frames
    BY <2>1
  <2> HIDE DEF frames
  <2> QED
    BY <2>4, <2>5, ConcatProperties DEF ChatInv, ConnectionOK
<1>3. Plain' /\ ConnectionOK'
  BY <1>1, <1>2 DEF ChatInv, Plain, ConnectionOK
<1>4. ASSUME NEW s \in Chat!Scopes
      PROVE  /\ ScopeOK(s, scope'[s], "connected", generation, pendingScopes')
             /\ lease = s => ServedOK(scope'[s], "connected", generation, seen)
             /\ scope'[s].handling = scope[s].handling
  <2> DEFINE r == scope[s]
  <2>1. /\ r \in Chat!Scope /\ r.subscribed < generation /\ Quiet(r)
        /\ generation \in 0 .. MaximumGeneration
        /\ ScopeOK(s, r, lane, generation, pendingScopes)
        /\ lease = s => ServedOK(r, lane, generation, seen)
        /\ r.subscribed \in Nat /\ generation \in Nat
    BY <1>1, ScopeFacts DEF ScopeOK, Upstream, ChatInv, Plain
  <2>2. CASE ~Chat!Unsynchronized(r)
    <3>1. scope'[s] = r
      BY <1>1, <2>2
    <3> HIDE DEF r
    <3> QED
      BY <1>1, <2>1, <3>1 DEF ScopeOK, ServedOK, Upstream, r
  <2>3. CASE Chat!Unsynchronized(r)
    <3> DEFINE b == [r EXCEPT !.synchronizing = generation]
    <3>1. scope'[s] = b
      BY <1>1, <2>3
    <3>2. /\ b \in Chat!Scope /\ b.subscribed = r.subscribed /\ b.queue = r.queue
          /\ b.member = r.member /\ b.terminal = r.terminal /\ b.handling = r.handling
          /\ b.baseline = r.baseline /\ b.last = r.last
      BY <2>1 DEF Chat!Scope
    <3> HIDE DEF b, r
    <3> QED
      BY <1>1, <2>1, <3>1, <3>2 DEF ScopeOK, ServedOK, Upstream, Quiet, r
  <2> QED
    BY <2>2, <2>3
<1>5. \A s \in Chat!Scopes : Still(s)
  BY <1>4 DEF Still
<1> QED
  BY <1>1, <1>3, <1>4, <1>5, QuietStepReports DEF ChatInv

LEMMA FailKeeps == ASSUME ChatInv, Chat!Fail PROVE ChatInv' /\ Reports
<1>1. /\ lane = "connected" /\ lane' = "closing" /\ inbound' = <<>> /\ pendingScopes' = {}
      /\ scope' = [s \in Chat!Scopes |->
           IF s \in pendingScopes THEN Chat!Rejected(scope[s]) ELSE scope[s]]
      /\ UNCHANGED <<generation, reconnect, outbound, upstream, emitted, opened, lease, seen>>
  BY DEF Chat!Fail
<1>2. Plain' /\ ConnectionOK'
  BY <1>1 DEF ChatInv, Plain, ConnectionOK
<1>3. ASSUME NEW s \in Chat!Scopes
      PROVE  /\ ScopeOK(s, scope'[s], "closing", generation, {})
             /\ lease = s => ServedOK(scope'[s], "closing", generation, seen)
             /\ scope'[s].handling = scope[s].handling
  <2> DEFINE r == scope[s]
  <2>1. CASE s \notin pendingScopes
    <3>1. scope'[s] = r
      BY <1>1, <2>1
    <3> QED
      BY <1>1, <3>1, ScopeFacts DEF ScopeOK, ServedOK, Upstream
  <2>2. CASE s \in pendingScopes
    <3> DEFINE b == Chat!Rejected(r)
    <3>1. scope'[s] = b
      BY <1>1, <2>2
    <3>2. /\ Over(b) /\ b.member = r.member /\ b.subscribed \in {0, r.subscribed}
          /\ b.handling = r.handling
      BY ScopeFacts, RejectedEnds
    <3> HIDE DEF b
    <3>3. ScopeOK(s, b, "closing", generation, {}) /\ (b.member => ServedOK(b, "closing", generation, seen))
      BY <3>2, ScopeFacts, OverIsOK
    <3>4. lease = s => b.member
      BY <3>2, ScopeFacts DEF ServedOK
    <3> QED
      BY <3>1, <3>2, <3>3, <3>4
  <2> QED
    BY <2>1, <2>2
<1>4. \A s \in Chat!Scopes : Still(s)
  BY <1>3 DEF Still
<1> QED
  BY <1>1, <1>2, <1>3, <1>4, QuietStepReports DEF ChatInv

LEMMA ClosedKeeps ==
  ASSUME ChatInv, NEW again \in BOOLEAN, Chat!Closed(again)
  PROVE  ChatInv' /\ Reports
<1> DEFINE reset(s) == [scope[s] EXCEPT !.subscribed = 0, !.synchronizing = 0, !.last = 0]
           quarantined(s) == [reset(s) EXCEPT !.quarantined = TRUE]
           told(s) == IF generation \in {scope[s].subscribed, scope[s].synchronizing}
                      THEN Chat!Boundary(quarantined(s)) ELSE reset(s)
<1>1. /\ lane' = "none" /\ reconnect' = again
      /\ outbound' = <<>> /\ inbound' = <<>> /\ upstream' = FALSE /\ pendingScopes' = {}
      /\ UNCHANGED <<generation, emitted, opened, lease, seen>>
  BY DEF Chat!Closed
<1>2. /\ scope' = [s \in Chat!Scopes |-> scope'[s]]
      /\ \A s \in Chat!Scopes :
           /\ scope[s].member => scope'[s] = told(s)
           /\ ~scope[s].member /\ s \in pendingScopes => scope'[s] = Chat!Rejected(scope[s])
           /\ ~scope[s].member /\ s \notin pendingScopes => scope'[s] = scope[s]
  <2>1. scope' = [s \in Chat!Scopes |-> CASE scope[s].member -> told(s)
                         [] ~scope[s].member /\ s \in pendingScopes -> Chat!Rejected(scope[s])
                         [] OTHER -> scope[s]]
    BY DEF Chat!Closed
  <2> HIDE DEF told
  <2>2. scope' = [s \in Chat!Scopes |-> scope'[s]]
    BY <2>1
  <2>3. ASSUME NEW s \in Chat!Scopes, scope[s].member PROVE scope'[s] = told(s)
    BY Zenon, <2>1, <2>3
  <2>4. ASSUME NEW s \in Chat!Scopes, ~scope[s].member, s \in pendingScopes
        PROVE  scope'[s] = Chat!Rejected(scope[s])
    BY Zenon, <2>1, <2>4
  <2>5. ASSUME NEW s \in Chat!Scopes, ~scope[s].member, s \notin pendingScopes
        PROVE  scope'[s] = scope[s]
    BY Zenon, <2>1, <2>5
  <2> QED
    BY <2>2, <2>3, <2>4, <2>5
<1>3. Plain' /\ ConnectionOK'
  <2> HIDE DEF told
  <2>1. upstream' \in BOOLEAN /\ reconnect' \in BOOLEAN
    BY <1>1
  <2>2. Plain'
    BY <1>1, <2>1 DEF ChatInv, Plain
  <2>3. <<>> \in Seq(Frame) /\ <<>> \in Seq(Message)
    OBVIOUS
  <2>4. ConnectionOK'
    BY <1>1, <2>3 DEF ConnectionOK
  <2> QED
    BY <2>2, <2>4
<1>4. ASSUME NEW s \in Chat!Scopes
      PROVE  /\ ScopeOK(s, scope'[s], "none", generation, {})
             /\ lease = s => ServedOK(scope'[s], "none", generation, seen)
             /\ scope'[s].handling = scope[s].handling
  <2> DEFINE r == scope[s]
             a == reset(s)
             q == quarantined(s)
  <2>1. /\ r \in Chat!Scope /\ r.subscribed \in Nat /\ r.subscribed <= generation
        /\ generation \in Nat /\ Len(r.queue) <= QueueMaximum
        /\ ~r.member => r.queue = <<>>
        /\ r.terminal => Quiet(r)
        /\ ScopeOK(s, r, lane, generation, pendingScopes)
        /\ lease = s => ServedOK(r, lane, generation, seen)
    BY ScopeFacts
  <2>2. /\ a \in Chat!Scope /\ a.subscribed = 0 /\ a.queue = r.queue /\ a.member = r.member
        /\ a.terminal = r.terminal /\ a.handling = r.handling /\ a.baseline = r.baseline
    <3>1. 0 \in 0 .. MaximumSequence /\ 0 \in 0 .. MaximumGeneration
      BY ChatConstantsHold DEF ChatConstants
    <3> HIDE DEF r
    <3>2. r = scope[s]
      BY DEF r
    <3> QED
      BY <2>1, <3>1, <3>2 DEF Chat!Scope
  <2>3. /\ q \in Chat!Scope /\ q.subscribed = 0 /\ q.queue = r.queue /\ q.member = r.member
        /\ q.terminal = r.terminal /\ q.handling = r.handling
    <3> HIDE DEF a, reset
    <3>1. q = [a EXCEPT !.quarantined = TRUE]
      BY DEF a
    <3> HIDE DEF q
    <3> QED
      BY <2>2, <3>1 DEF Chat!Scope
  <2>4. /\ told(s) = IF generation \in {r.subscribed, r.synchronizing}
                     THEN Chat!Boundary(q) ELSE a
        /\ r.member => scope'[s] = told(s)
        /\ ~r.member /\ s \in pendingScopes => scope'[s] = Chat!Rejected(r)
        /\ ~r.member /\ s \notin pendingScopes => scope'[s] = r
    BY <1>2
  <2> HIDE DEF r, a, q, told
  <2>5. CASE ~r.member
    <3>1. lease # s
      BY <2>1, <2>5 DEF ServedOK
    <3>2. CASE s \in pendingScopes
      <4> DEFINE b == Chat!Rejected(r)
      <4>1. scope'[s] = b
        BY <2>4, <2>5, <3>2
      <4>2. /\ Over(b) /\ b.subscribed \in {0, r.subscribed} /\ b.handling = r.handling
        BY <2>1, RejectedEnds
      <4> HIDE DEF b
      <4>3. ScopeOK(s, b, "none", generation, {})
        BY <2>1, <4>2, OverIsOK
      <4> QED
        BY <3>1, <4>1, <4>2, <4>3 DEF r
    <3>3. CASE s \notin pendingScopes
      <4>1. scope'[s] = r
        BY <2>4, <2>5, <3>3
      <4> QED
        BY <2>1, <2>5, <3>1, <4>1 DEF ScopeOK, Quiet, r
    <3> QED
      BY <3>2, <3>3
  <2>6. CASE r.member /\ generation \in {r.subscribed, r.synchronizing}
    <3> DEFINE b == Chat!Boundary(q)
    <3>1. scope'[s] = b
      <4>1. told(s) = b
        BY <2>4, <2>6
      <4>2. scope'[s] = told(s)
        BY <2>4, <2>6
      <4> QED
        BY <4>1, <4>2
    <3>2. /\ Over(b) /\ b.subscribed = q.subscribed /\ b.handling = q.handling
          /\ b.member = q.member
      BY <2>1, <2>3, BoundaryEnds DEF Quiet
    <3> HIDE DEF b
    <3>3. /\ ScopeOK(s, b, "none", generation, {})
          /\ b.member => ServedOK(b, "none", generation, seen)
      <4>1. Over(b) /\ b.subscribed \in {0, r.subscribed}
        BY <2>3, <3>2
      <4>2. \A p : p = {} => s \notin p
        OBVIOUS
      <4>3. \A k : ScopeOK(s, b, "none", generation, {}) /\ (b.member => ServedOK(b, "none", generation, k))
        BY <2>1, <4>1, <4>2, OverIsOK
      <4> QED
        BY <4>3
    <3> QED
      BY <2>3, <2>6, <3>1, <3>2, <3>3 DEF r
  <2>7. CASE r.member /\ generation \notin {r.subscribed, r.synchronizing}
    <3>1. scope'[s] = a
      <4>1. told(s) = a
        BY <2>4, <2>7
      <4>2. scope'[s] = told(s)
        BY <2>4, <2>7
      <4> QED
        BY <4>1, <4>2
    <3>2. Quiet(r)
      BY <2>1, <2>7 DEF ScopeOK, Upstream
    <3>3. ScopeOK(s, a, "none", generation, {})
      BY <2>1, <2>2, <2>7, <3>2 DEF ScopeOK, Quiet
    <3>4. lease = s => ServedOK(a, "none", generation, seen)
      BY <2>1, <2>2, <2>7 DEF ServedOK, Upstream
    <3> QED
      BY <2>2, <3>1, <3>3, <3>4 DEF r
  <2> QED
    BY <2>5, <2>6, <2>7
<1>5. \A s \in Chat!Scopes : Still(s)
  BY <1>4 DEF Still
<1> HIDE DEF told, reset, quarantined
<1> QED
  BY <1>1, <1>2, <1>3, <1>4, <1>5, QuietStepReports DEF ChatInv

LEMMA GatewayTakesFrameKeeps ==
  ASSUME ChatInv, Chat!GatewayTakesFrame
  PROVE  ChatInv' /\ Reports
<1> USE DEF Chat!connection, Chat!client
<1> DEFINE frame == Head(outbound)
<1>1. /\ outbound # <<>> /\ outbound' = Tail(outbound)
      /\ UNCHANGED <<lane, generation, reconnect, emitted, pendingScopes, scope, opened,
                     lease, seen>>
      /\ \/ upstream' = FALSE /\ inbound' = inbound
         \/ \E ok \in BOOLEAN :
              /\ upstream' = (upstream \/ ok)
              /\ inbound' = IF lane # "connected" THEN inbound
                            ELSE Append(inbound, [kind |-> "answer", ok |-> ok,
                                                  scope |-> frame.scope])
  BY DEF Chat!GatewayTakesFrame
<1>2. frame \in Frame /\ outbound' \in Seq(Frame)
  BY <1>1, HeadTailProperties DEF ChatInv, ConnectionOK
<1>3. inbound' \in Seq(Message) /\ (inbound' # <<>> => lane = "connected") /\ upstream' \in BOOLEAN
  <2>1. inbound \in Seq(Message) /\ (inbound # <<>> => lane = "connected")
    BY DEF ChatInv, ConnectionOK
  <2>2. ASSUME NEW ok \in BOOLEAN
        PROVE  [kind |-> "answer", ok |-> ok, scope |-> frame.scope] \in Message
    BY <1>2 DEF Frame, Message
  <2> HIDE DEF frame
  <2>3. CASE upstream' = FALSE /\ inbound' = inbound
    BY <2>1, <2>3
  <2>4. ASSUME NEW ok \in BOOLEAN,
               upstream' = (upstream \/ ok),
               inbound' = IF lane # "connected" THEN inbound
                          ELSE Append(inbound, [kind |-> "answer", ok |-> ok,
                                                scope |-> frame.scope])
        PROVE  /\ inbound' \in Seq(Message) /\ (inbound' # <<>> => lane = "connected")
               /\ upstream' \in BOOLEAN
    <3>1. upstream' \in BOOLEAN
      BY <2>4
    <3>2. inbound' \in Seq(Message)
      BY <2>1, <2>2, <2>4
    <3>3. lane # "connected" => inbound' = <<>>
      BY <2>1, <2>4
    <3> QED
      BY <3>1, <3>2, <3>3
  <2> QED
    BY <1>1, <2>3, <2>4
<1> HIDE DEF frame
<1>4. Plain'
  BY <1>1, <1>3 DEF ChatInv, Plain
<1>5. ConnectionOK'
  BY <1>1, <1>2, <1>3 DEF ChatInv, ConnectionOK
<1> QED
  BY <1>1, <1>4, <1>5, ScopesStay

LEMMA GatewayEmitsKeeps ==
  ASSUME ChatInv, NEW forwarded \in BOOLEAN, Chat!GatewayEmits(forwarded)
  PROVE  ChatInv' /\ Reports
<1> USE DEF Chat!connection, Chat!client
<1>1. /\ emitted < MaximumSequence /\ emitted' = emitted + 1
      /\ UNCHANGED <<lane, generation, reconnect, outbound, upstream, pendingScopes, scope,
                     opened, lease, seen>>
      /\ \/ inbound' = inbound
         \/ /\ lane = "connected"
            /\ inbound' = Append(inbound, [kind |-> "event", sequence |-> emitted'])
  BY DEF Chat!GatewayEmits
<1>2. emitted' \in 0 .. MaximumSequence /\ emitted' \in Chat!Sequences
  BY <1>1, ChatConstantsHold DEF ChatInv, Plain, ChatConstants, Chat!Sequences
<1>3. inbound' \in Seq(Message) /\ (inbound' # <<>> => lane = "connected")
  <2>1. inbound \in Seq(Message) /\ (inbound # <<>> => lane = "connected")
    BY DEF ChatInv, ConnectionOK
  <2>2. [kind |-> "event", sequence |-> emitted'] \in Message
    BY <1>2 DEF Message
  <2> QED
    BY <1>1, <2>1, <2>2, SMTT(30)
<1>4. Plain'
  BY <1>1, <1>2 DEF ChatInv, Plain
<1>5. ConnectionOK'
  BY <1>1, <1>3 DEF ChatInv, ConnectionOK
<1> QED
  BY <1>1, <1>4, <1>5, ScopesStay

LEMMA ReceiveAnswerKeeps ==
  ASSUME ChatInv, Chat!ReceiveAnswer
  PROVE  ChatInv' /\ Reports
<1> DEFINE s == Head(inbound).scope
           r == scope[s]
           a == [r EXCEPT !.synchronizing = 0,
                          !.subscribed = IF r.member THEN generation ELSE 0,
                          !.last = r.baseline]
           b == Chat!Rejected(r)
<1>1. /\ inbound # <<>> /\ Head(inbound).kind = "answer" /\ inbound' = Tail(inbound)
      /\ pendingScopes' = pendingScopes \ {s}
      /\ UNCHANGED <<lane, generation, reconnect, upstream, emitted, opened, lease, seen>>
      /\ \/ s \notin pendingScopes /\ scope' = scope /\ outbound' = outbound
         \/ /\ s \in pendingScopes /\ scope' = [scope EXCEPT ![s] = a]
            /\ outbound' \in {outbound, Append(outbound, Chat!Unsubscribe(s))}
         \/ /\ s \in pendingScopes /\ scope' = [scope EXCEPT ![s] = b]
            /\ outbound' = outbound
  BY DEF Chat!ReceiveAnswer, Chat!connection
<1>2. s \in Chat!Scopes /\ inbound' \in Seq(Message)
  <2>1. Head(inbound) \in Message
    BY <1>1, HeadTailProperties DEF ChatInv, ConnectionOK
  <2>2. s \in Chat!Scopes
    BY <1>1, <2>1 DEF Message
  <2>3. inbound' \in Seq(Message)
    BY <1>1, HeadTailProperties DEF ChatInv, ConnectionOK
  <2> QED
    BY <2>2, <2>3
<1> HIDE DEF s
<1>3. lane = "connected" /\ generation > 0
  BY <1>1 DEF ChatInv, ConnectionOK
<1>4. Plain'
  BY <1>1 DEF ChatInv, Plain
<1>5. ConnectionOK'
  <2>1. Chat!Unsubscribe(s) \in Frame
    BY <1>2 DEF Chat!Unsubscribe, Frame
  <2>2. outbound \in Seq(Frame)
    BY DEF ChatInv, ConnectionOK
  <2>3. Append(outbound, Chat!Unsubscribe(s)) \in Seq(Frame)
    BY <2>1, <2>2
  <2>4. outbound' \in Seq(Frame)
    BY <1>1, <2>2, <2>3
  <2> QED
    BY <1>1, <1>2, <1>3, <2>4 DEF ConnectionOK
<1>6. CASE s \notin pendingScopes
  <2>1. pendingScopes' = pendingScopes /\ scope' = scope
    BY <1>1, <1>6
  <2> QED
    BY <1>1, <1>4, <1>5, <2>1, ScopesStay
<1>7. CASE s \in pendingScopes /\ scope' = [scope EXCEPT ![s] = a]
  <2>1. /\ r \in Chat!Scope /\ ScopeOK(s, r, lane, generation, pendingScopes)
        /\ r.subscribed # generation /\ generation \in Nat /\ seen \in 0 .. MaximumSequence
        /\ lease = s => ServedOK(r, lane, generation, seen)
    BY <1>2, <1>7, ScopeFacts
  <2>2. generation \in 0 .. MaximumGeneration /\ 0 \in 0 .. MaximumGeneration
    BY ChatConstantsHold DEF ChatInv, Plain, ChatConstants
  <2>3. Quiet(r) /\ ~Upstream(r, lane, generation)
    BY <2>1 DEF ScopeOK, Upstream
  <2>4. /\ a \in Chat!Scope /\ a.subscribed = (IF r.member THEN generation ELSE 0)
        /\ a.last = r.baseline /\ a.queue = r.queue /\ a.terminal = r.terminal
        /\ a.member = r.member /\ a.handling = r.handling
    <3> HIDE DEF r
    <3> QED
      BY <2>1, <2>2 DEF Chat!Scope
  <2> HIDE DEF a, r
  <2>5. ScopeOK(s, a, lane, generation, pendingScopes')
    BY <1>1, <1>3, <2>1, <2>3, <2>4 DEF ScopeOK, Quiet
  <2>6. ASSUME lease = s PROVE ServedOK(a, lane, generation, seen)
    <3>1. r.member /\ (r.terminal \/ (r.queue = <<>> /\ seen = r.baseline))
      <4>1. ServedOK(r, lane, generation, seen)
        BY <2>1, <2>6
      <4> QED
        BY Zenon, <2>3, <4>1 DEF ServedOK
    <3>2. r.queue = <<>> => Chained(r.queue, a.last)
      BY ItemFacts DEF Chained
    <3>3. a.terminal \/ (a.queue = <<>> /\ a.last = seen /\ Chained(a.queue, a.last))
      BY Zenon, <2>4, <3>1, <3>2
    <3>4. a.member /\ Upstream(a, lane, generation)
      BY <1>3, <2>4, <3>1 DEF Upstream
    <3> QED
      BY <2>1, <3>3, <3>4 DEF ServedOK
  <2>7. pendingScopes' \subseteq pendingScopes \cup {s}
    BY <1>1
  <2>8. ChatInv' /\ (a.handling \in {scope[s].handling, Chat!Nothing, Chat!Reconciliation} => Reports)
    BY <1>1, <1>2, <1>4, <1>5, <1>7, <2>5, <2>6, <2>7, ScopeMoves
  <2> QED
    BY <2>4, <2>8 DEF r
<1>8. CASE s \in pendingScopes /\ scope' = [scope EXCEPT ![s] = b]
  <2>1. /\ Over(b) /\ b.member = r.member /\ b.subscribed \in {0, r.subscribed}
        /\ b.handling = r.handling
    BY <1>2, ScopeFacts, RejectedEnds
  <2>2. lease = s => r.member
    BY <1>2, ScopeFacts DEF ServedOK
  <2> HIDE DEF b
  <2>3. pendingScopes' \subseteq pendingScopes \cup {s} /\ pendingScopes' \subseteq pendingScopes
    BY <1>1
  <2>4. /\ ScopeOK(s, b, lane, generation, pendingScopes')
        /\ b.member => ServedOK(b, lane, generation, seen)
    BY <1>2, <2>1, <2>3, OverOnSameConnection
  <2>5. ChatInv' /\ (b.handling \in {scope[s].handling, Chat!Nothing, Chat!Reconciliation} => Reports)
    BY <1>1, <1>2, <1>4, <1>5, <1>8, <2>1, <2>2, <2>3, <2>4, ScopeMoves
  <2> QED
    BY <2>1, <2>5
<1> QED
  BY <1>1, <1>6, <1>7, <1>8

LEMMA ReceiveEventKeeps ==
  ASSUME ChatInv, Chat!ReceiveEvent
  PROVE  ChatInv' /\ Reports
<1> DEFINE n == Head(inbound).sequence
<1>1. /\ inbound # <<>> /\ Head(inbound).kind = "event" /\ inbound' = Tail(inbound)
      /\ scope' = [s \in Chat!Scopes |->
           IF Chat!Receives(scope[s]) THEN Chat!Followed(scope[s], n) ELSE scope[s]]
      /\ UNCHANGED <<lane, generation, reconnect, outbound, upstream, emitted, pendingScopes,
                     opened, lease, seen>>
  BY DEF Chat!ReceiveEvent, Chat!connection
<1>2. n \in Chat!Sequences /\ inbound' \in Seq(Message)
  <2>1. Head(inbound) \in Message
    BY <1>1, HeadTailProperties DEF ChatInv, ConnectionOK
  <2>2. n \in Chat!Sequences
    BY <1>1, <2>1 DEF Message
  <2>3. inbound' \in Seq(Message)
    BY <1>1, HeadTailProperties DEF ChatInv, ConnectionOK
  <2> QED
    BY <2>2, <2>3
<1> HIDE DEF n
<1>3. lane = "connected" /\ generation > 0 /\ generation \in 0 .. MaximumGeneration /\ seen \in Nat
  BY <1>1, ChatConstantsHold DEF ChatInv, ConnectionOK, Plain, ChatConstants
<1>4. Plain' /\ ConnectionOK'
  BY <1>1, <1>2, <1>3 DEF ChatInv, Plain, ConnectionOK
<1>5. ASSUME NEW s \in Chat!Scopes
      PROVE  /\ ScopeOK(s, scope'[s], lane, generation, pendingScopes)
             /\ lease = s => ServedOK(scope'[s], lane, generation, seen)
             /\ scope'[s].handling = scope[s].handling
  <2>1. CASE ~Chat!Receives(scope[s])
    <3>1. scope'[s] = scope[s]
      BY <1>1, <2>1
    <3> QED
      BY <3>1, ScopeFacts
  <2>2. CASE Chat!Receives(scope[s])
    <3> DEFINE r == scope[s]
               f == Chat!Followed(r, n)
    <3>1. scope'[s] = f
      BY <1>1, <2>2
    <3>2. /\ ScopeOK(s, r, lane, generation, pendingScopes)
          /\ lease = s => ServedOK(r, lane, generation, seen)
      BY ScopeFacts
    <3>3. /\ ScopeOK(s, f, lane, generation, pendingScopes) /\ f.handling = r.handling
          /\ ServedOK(r, lane, generation, seen) => ServedOK(f, lane, generation, seen)
      <4> HIDE DEF r
      <4>1. Chat!Receives(r)
        BY <2>2 DEF r
      <4> QED
        BY <1>2, <1>3, <3>2, <4>1, FollowedKeeps
    <3> HIDE DEF f
    <3> QED
      BY <3>1, <3>2, <3>3
  <2> QED
    BY <2>1, <2>2
<1>6. \A s \in Chat!Scopes : Still(s)
  BY <1>5 DEF Still
<1>7. Reports
  BY <1>6, QuietStepReports
<1>8. scope' = [s \in Chat!Scopes |-> scope'[s]]
  BY <1>1
<1>9. \A s \in Chat!Scopes : ScopeOK(s, scope'[s], lane', generation', pendingScopes')
  BY <1>1, <1>5
<1>10. \A s \in Chat!Scopes : lease' = s => ServedOK(scope'[s], lane', generation', seen')
  BY <1>1, <1>5
<1> QED
  BY <1>4, <1>7, <1>8, <1>9, <1>10 DEF ChatInv

LEMMA RequestTimesOutKeeps ==
  ASSUME ChatInv, NEW s \in Chat!Scopes, Chat!RequestTimesOut(s)
  PROVE  ChatInv' /\ Reports
<1> DEFINE r == scope[s]
           b == Chat!Rejected(r)
<1>1. /\ s \in pendingScopes /\ pendingScopes' = pendingScopes \ {s}
      /\ scope' = [scope EXCEPT ![s] = b]
      /\ UNCHANGED <<lane, generation, reconnect, outbound, inbound, upstream, emitted, opened,
                     lease, seen>>
  BY DEF Chat!RequestTimesOut, Chat!connection, Chat!wire
<1>2. Plain' /\ ConnectionOK'
  BY <1>1 DEF ChatInv, Plain, ConnectionOK
<1>3. /\ Over(b) /\ b.member = r.member /\ b.subscribed \in {0, r.subscribed}
      /\ b.handling = r.handling
  BY ScopeFacts, RejectedEnds
<1>4. lease = s => r.member
  BY ScopeFacts DEF ServedOK
<1> HIDE DEF b
<1>5. pendingScopes' \subseteq pendingScopes \cup {s} /\ pendingScopes' \subseteq pendingScopes
  BY <1>1
<1>6. /\ ScopeOK(s, b, lane, generation, pendingScopes')
      /\ b.member => ServedOK(b, lane, generation, seen)
  BY <1>3, <1>5, OverOnSameConnection
<1>7. ChatInv' /\ (b.handling \in {scope[s].handling, Chat!Nothing, Chat!Reconciliation} => Reports)
  BY <1>1, <1>2, <1>3, <1>4, <1>5, <1>6, ScopeMoves
<1> QED
  BY <1>3, <1>7

(* What is left of a queue once its first item has been handed out.        *)
LEMMA TailFacts ==
  ASSUME NEW q \in Seq(Chat!Item), q # <<>>
  PROVE  /\ Tail(q) \in Seq(Chat!Item) /\ Len(Tail(q)) = Len(q) - 1
         /\ Head(q) = q[1] /\ Head(q) \in Chat!Item /\ Len(q) \in Nat /\ Len(q) > 0
         /\ Tail(q) = <<>> => Len(q) = 1
         /\ Tail(q) # <<>> => Len(q) > 1
         /\ \A i \in 1 .. (Len(q) - 1) : Tail(q)[i] = q[i + 1]
<1>1. Len(q) \in Nat /\ Len(q) > 0 /\ Len(Tail(q)) = Len(q) - 1 /\ Tail(q) \in Seq(Chat!Item)
  BY EmptySeq, HeadTailProperties
<1>2. Tail(q) = <<>> => Len(q) = 1
  BY <1>1, ItemFacts, SMTT(30)
<1>3. Tail(q) # <<>> => Len(q) > 1
  BY <1>1, EmptySeq
<1>4. \A i \in 1 .. (Len(q) - 1) : Tail(q)[i] = q[i + 1]
  BY <1>1, HeadTailProperties
<1>5. Head(q) = q[1] /\ Head(q) \in Chat!Item
  BY <1>1
<1> QED
  BY <1>1, <1>2, <1>3, <1>4, <1>5

LEMMA HighestFacts ==
  ASSUME NEW a \in Nat, NEW b \in Int
  PROVE  /\ Chat!Highest(a, b) \in {a, b} /\ Chat!Highest(a, b) >= a
         /\ Chat!Highest(a, b) >= b /\ Chat!Highest(a, b) \in Nat
BY DEF Chat!Highest

(* The step that hands an item out: what the chat domain has seen grows to *)
(* that item, and what is left leads on from there.                        *)
LEMMA HandleKeeps ==
  ASSUME ChatInv, NEW s \in Chat!Scopes, Chat!Handle(s)
  PROVE  ChatInv' /\ Reports
<1> DEFINE r == scope[s]
           q == r.queue
           item == Head(q)
           b == [r EXCEPT !.queue = Tail(q), !.handling = item]
<1>1. /\ r.member /\ r.handling = Chat!Nothing /\ q # <<>>
      /\ scope' = [scope EXCEPT ![s].queue = Tail(@), ![s].handling = item]
      /\ lease # s => seen' = seen
      /\ lease = s /\ item.kind = "event" => seen' = Chat!Highest(seen, item.sequence)
      /\ lease = s /\ item.kind = "gap" => seen' = Chat!Highest(seen, item.sequence - 1)
      /\ item.kind \notin {"event", "gap"} => seen' = seen
      /\ UNCHANGED <<lane, generation, reconnect, outbound, inbound, upstream, emitted,
                     pendingScopes, opened, lease>>
  <2>1. /\ r.member /\ r.handling = Chat!Nothing /\ q # <<>>
        /\ scope' = [scope EXCEPT ![s].queue = Tail(@), ![s].handling = item]
        /\ seen' = CASE lease = s /\ item.kind = "event" -> Chat!Highest(seen, item.sequence)
                     [] lease = s /\ item.kind = "gap" -> Chat!Highest(seen, item.sequence - 1)
                     [] OTHER -> seen
        /\ UNCHANGED <<lane, generation, reconnect, outbound, inbound, upstream, emitted,
                       pendingScopes, opened, lease>>
    BY DEF Chat!Handle, Chat!connection, Chat!wire
  <2> HIDE DEF item, q, r
  <2>2. "event" # "gap"
    OBVIOUS
  <2>3. lease # s => seen' = seen
    BY Zenon, <2>1
  <2>4. lease = s /\ item.kind = "event" => seen' = Chat!Highest(seen, item.sequence)
    BY Zenon, <2>1, <2>2
  <2>5. lease = s /\ item.kind = "gap" => seen' = Chat!Highest(seen, item.sequence - 1)
    BY Zenon, <2>1, <2>2
  <2>6. item.kind \notin {"event", "gap"} => seen' = seen
    BY Zenon, <2>1
  <2> QED
    BY <2>1, <2>3, <2>4, <2>5, <2>6
<1>2. scope' = [scope EXCEPT ![s] = b]
  BY <1>1 DEF ChatInv
<1>3. /\ r \in Chat!Scope /\ q \in Seq(Chat!Item) /\ ScopeOK(s, r, lane, generation, pendingScopes)
      /\ seen \in 0 .. MaximumSequence /\ MaximumSequence \in Nat /\ QueueMaximum \in Nat
      /\ lease = s => ServedOK(r, lane, generation, seen)
      /\ r.last \in Nat /\ r.last \in 0 .. MaximumSequence /\ Len(q) <= QueueMaximum
  BY ScopeFacts, ChatConstantsHold DEF Chat!Scope, ChatConstants
<1> HIDE DEF r
<1>4. /\ Tail(q) \in Seq(Chat!Item) /\ Len(Tail(q)) = Len(q) - 1
      /\ item = q[1] /\ item \in Chat!Item /\ Len(q) \in Nat /\ Len(q) > 0
      /\ Tail(q) = <<>> => Len(q) = 1
      /\ Tail(q) # <<>> => Len(q) > 1
      /\ \A i \in 1 .. (Len(q) - 1) : Tail(q)[i] = q[i + 1]
  BY <1>1, <1>3, TailFacts
<1>5. item.sequence \in 0 .. MaximumSequence /\ item.sequence \in Nat
  BY <1>3, <1>4 DEF Chat!Item
<1>6. /\ b \in Chat!Scope /\ b.queue = Tail(q) /\ b.handling = item /\ b.member = r.member
      /\ b.terminal = r.terminal /\ b.subscribed = r.subscribed /\ b.last = r.last
      /\ b.baseline = r.baseline
  <2> HIDE DEF item, q
  <2> QED
    BY <1>3, <1>4 DEF Chat!Scope
<1> HIDE DEF b
<1>7. q = <<Chat!Reconciliation>> => Tail(q) = <<>> /\ item = Chat!Reconciliation
  BY <1>1, <1>4, ItemFacts
<1> HIDE DEF item, q
<1>8. seen' \in 0 .. MaximumSequence /\ seen' \in Nat /\ seen' >= seen
  <2>1. item.sequence - 1 \in Int /\ seen \in Nat
    BY <1>3, <1>5
  <2>2. seen' \in {seen, item.sequence, item.sequence - 1} /\ seen' >= seen
    BY <1>1, <1>3, <1>5, <2>1, HighestFacts
  <2> QED
    BY <1>3, <1>5, <2>2
<1>9. Plain' /\ ConnectionOK'
  BY <1>1, <1>8 DEF ChatInv, Plain, ConnectionOK
<1>10. ScopeOK(s, b, lane, generation, pendingScopes')
  <2>1. CASE Quiet(r)
    <3>1. b.queue = <<>>
      BY <1>1, <1>6, <1>7, <2>1 DEF Quiet, q
    <3> QED
      BY <1>1, <1>3, <1>6, <3>1, ItemFacts DEF ScopeOK, Quiet
  <2>2. CASE ~Quiet(r)
    <3>1. /\ Upstream(r, lane, generation) /\ ~r.terminal
          /\ \A i \in 1..Len(q) : q[i].kind = "event" => q[i].generation = generation
      BY <1>3, <2>2 DEF ScopeOK, q
    <3>2. \A i \in 1..Len(b.queue) :
            b.queue[i].kind = "event" => b.queue[i].generation = generation
      <4> SUFFICES ASSUME NEW i \in 1..Len(b.queue)
                   PROVE  b.queue[i].kind = "event" => b.queue[i].generation = generation
        OBVIOUS
      <4>1. i + 1 \in 1..Len(q) /\ b.queue[i] = q[i + 1]
        BY <1>4, <1>6
      <4> QED
        BY <3>1, <4>1
    <3>3. Len(b.queue) <= QueueMaximum
      BY <1>3, <1>4, <1>6
    <3> QED
      BY <1>1, <1>3, <1>6, <3>1, <3>2, <3>3 DEF ScopeOK, Upstream
  <2> QED
    BY <2>1, <2>2
<1>11. ASSUME lease = s, ~r.terminal
       PROVE  /\ Upstream(r, lane, generation) /\ seen <= r.last /\ Chained(q, r.last)
              /\ item.kind \in {"event", "gap"} /\ item.sequence \in 1..r.last
              /\ item.kind = "event" => item.sequence <= seen + 1 \/ seen = 0
  <2>1. /\ Upstream(r, lane, generation) /\ seen <= r.last /\ Chained(q, r.last)
        /\ q[1].kind = "event" => q[1].sequence <= seen + 1 \/ seen = 0
    BY <1>1, <1>3, <1>11 DEF ServedOK, q
  <2>2. 1 \in 1..Len(q)
    BY <1>4
  <2> QED
    BY <1>4, <2>1, <2>2 DEF Chained
<1>12. ASSUME lease = s
       PROVE  ServedOK(b, lane, generation, seen')
  <2>1. CASE r.terminal
    BY <1>1, <1>6, <2>1 DEF ServedOK
  <2>2. CASE ~r.terminal
    <3>1. /\ item.kind = "event" => seen' = Chat!Highest(seen, item.sequence)
          /\ item.kind = "gap" => seen' = Chat!Highest(seen, item.sequence - 1)
      BY <1>1, <1>12
    <3>2. seen' <= r.last
      <4>1. item.sequence - 1 \in Int /\ seen \in Nat
        BY <1>3, <1>5
      <4>2. seen' \in {seen, item.sequence, item.sequence - 1}
        <5>1. CASE item.kind = "event"
          BY <1>5, <3>1, <4>1, <5>1, HighestFacts, SMTT(30)
        <5>2. CASE item.kind = "gap"
          BY <3>1, <4>1, <5>2, HighestFacts
        <5> QED
          BY <1>11, <1>12, <2>2, <5>1, <5>2
      <4> QED
        BY <1>3, <1>5, <1>11, <1>12, <2>2, <4>2
    <3>3. seen' >= item.sequence - 1 /\ (item.kind = "event" => seen' >= item.sequence)
      <4>1. item.sequence - 1 \in Int /\ item.sequence \in Int /\ seen \in Nat
        BY <1>3, <1>5
      <4>2. CASE item.kind = "event"
        <5>1. seen' >= item.sequence
          BY <3>1, <4>1, <4>2, HighestFacts
        <5> QED
          BY <1>5, <1>8, <5>1
      <4>3. CASE item.kind = "gap"
        BY <3>1, <4>1, <4>3, HighestFacts
      <4> QED
        BY <1>11, <1>12, <2>2, <4>2, <4>3
    <3>4. Continues(q, 1) /\ item = q[1] /\ 1 \in 1..Len(q)
      BY <1>4, <1>11, <1>12, <2>2 DEF Chained
    <3>5. b.queue # <<>> /\ b.queue[1].kind = "event" => b.queue[1].sequence <= seen' + 1
      <4> SUFFICES ASSUME b.queue # <<>>, b.queue[1].kind = "event"
                   PROVE  b.queue[1].sequence <= seen' + 1
        OBVIOUS
      <4>1. Len(q) > 1 /\ b.queue[1] = q[2] /\ 1 + 1 = 2 /\ 2 \in 1..Len(q)
        BY <1>4, <1>6
      <4>2. q[2].sequence \in 1..r.last
        BY <1>11, <1>12, <2>2, <4>1 DEF Chained
      <4>3. q[2].sequence <= item.sequence + 1 /\ (item.kind = "gap" => q[2].sequence = item.sequence)
        BY <1>5, <1>11, <1>12, <2>2, <3>4, <4>1 DEF Continues
      <4> QED
        BY <1>3, <1>5, <1>8, <1>11, <1>12, <2>2, <3>3, <4>1, <4>2, <4>3, SMTT(30)
    <3>6. b.queue = <<>> => seen' = r.last
      <4> SUFFICES ASSUME b.queue = <<>> PROVE seen' = r.last
        OBVIOUS
      <4>1. Len(q) = 1
        BY <1>4, <1>6
      <4>2. item.kind = "event" /\ item.sequence = r.last
        BY <1>1, <1>4, <1>11, <1>12, <2>2, <4>1 DEF Chained, q
      <4> QED
        BY <1>3, <1>8, <3>2, <3>3, <4>2
    <3>7. Chained(b.queue, b.last)
      <4>1. ASSUME NEW i \in 1..Len(b.queue)
            PROVE  /\ b.queue[i].kind \in {"event", "gap"} /\ b.queue[i].sequence \in 1..b.last
                   /\ Continues(b.queue, i)
        <5>1. /\ i + 1 \in 1..Len(q) /\ b.queue[i] = q[i + 1] /\ Len(b.queue) = Len(q) - 1
              /\ i \in Nat
          BY <1>4, <1>6
        <5>2. /\ q[i + 1].kind \in {"event", "gap"} /\ q[i + 1].sequence \in 1..r.last
              /\ Continues(q, i + 1)
          BY <1>11, <1>12, <2>2, <5>1 DEF Chained
        <5>3. i < Len(b.queue) => b.queue[i + 1] = q[(i + 1) + 1] /\ i + 1 < Len(q)
          BY <1>4, <1>6, <5>1
        <5>4. i + 1 < Len(q) => i < Len(b.queue)
          <6>1. Len(q) \in Nat
            BY <1>4
          <6> QED
            BY <5>1, <6>1
        <5> QED
          BY <1>6, <5>1, <5>2, <5>3, <5>4 DEF Continues
      <4>2. ASSUME b.queue # <<>>
            PROVE  b.queue[Len(b.queue)].kind = "event" /\ b.queue[Len(b.queue)].sequence = b.last
        <5>1. b.queue[Len(b.queue)] = q[Len(q)] /\ q # <<>>
          BY <1>1, <1>4, <1>6, <4>2 DEF q
        <5> QED
          BY <1>6, <1>11, <1>12, <2>2, <5>1 DEF Chained
      <4> QED
        BY <4>1, <4>2 DEF Chained
    <3>8. Upstream(b, lane, generation)
      BY <1>6, <1>11, <1>12, <2>2 DEF Upstream
    <3> QED
      BY <1>1, <1>6, <3>2, <3>5, <3>6, <3>7, <3>8 DEF ServedOK
  <2> QED
    BY <2>1, <2>2
<1>13. \A d \in Chat!Scopes \ {s} : lease' = d => lease = d /\ seen' = seen
  <2>1. lease' = lease /\ (lease # s => seen' = seen)
    BY <1>1
  <2> QED
    BY Zenon, <2>1
<1>14. ChatInv'
  <2>1. pendingScopes' \subseteq pendingScopes \cup {s}
    BY <1>1
  <2>2. lease' = s => ServedOK(b, lane, generation, seen')
    BY <1>1, <1>12
  <2>3. UNCHANGED <<lane, generation>>
    BY <1>1
  <2> QED
    BY <1>2, <1>9, <1>10, <1>13, <2>1, <2>2, <2>3, ScopeMoves
<1>15. Reports
  <2> SUFFICES ASSUME NEW d \in Chat!Scopes, lease = d, scope[d].handling = Chat!Nothing,
                      scope'[d].handling.kind = "event"
               PROVE  scope'[d].handling.sequence <= seen + 1 \/ seen = 0
    BY DEF Reports
  <2>1. CASE d = s
    <3>1. scope'[d].handling = item
      BY <1>2, <1>6, <2>1 DEF ChatInv
    <3>2. ~r.terminal
      <4> SUFFICES ASSUME r.terminal PROVE FALSE
        OBVIOUS
      <4>1. Quiet(r)
        BY <1>3 DEF ScopeOK
      <4>2. item = Chat!Reconciliation
        BY <1>1, <1>7, <4>1 DEF Quiet, q
      <4> QED
        BY <3>1, <4>2, ItemFacts
    <3> QED
      BY <1>11, <2>1, <3>1, <3>2
  <2>2. CASE d # s
    <3>1. scope'[d].handling = scope[d].handling
      BY <1>2, <2>2 DEF ChatInv
    <3> QED
      BY <3>1, ItemFacts
  <2> QED
    BY <2>1, <2>2
<1> QED
  BY <1>14, <1>15

LEMMA HandledKeeps ==
  ASSUME ChatInv, NEW s \in Chat!Scopes, Chat!Handled(s)
  PROVE  ChatInv' /\ Reports
<1> DEFINE r == scope[s]
           b == [r EXCEPT !.handling = Chat!Nothing]
<1>1. /\ UNCHANGED <<lane, generation, reconnect, outbound, inbound, upstream, emitted,
                     pendingScopes, opened, lease, seen>>
      /\ scope' = [scope EXCEPT ![s] = b]
  BY DEF Chat!Handled, Chat!connection, Chat!wire, ChatInv
<1>2. Plain' /\ ConnectionOK'
  BY <1>1 DEF ChatInv, Plain, ConnectionOK
<1>3. /\ r \in Chat!Scope /\ ScopeOK(s, r, lane, generation, pendingScopes)
      /\ lease = s => ServedOK(r, lane, generation, seen)
  BY ScopeFacts
<1> HIDE DEF r
<1>4. /\ b \in Chat!Scope /\ b.queue = r.queue /\ b.handling = Chat!Nothing /\ b.member = r.member
      /\ b.terminal = r.terminal /\ b.subscribed = r.subscribed /\ b.last = r.last
      /\ b.baseline = r.baseline
  BY <1>3 DEF Chat!Scope
<1> HIDE DEF b
<1>5. ScopeOK(s, b, lane, generation, pendingScopes')
  BY <1>1, <1>3, <1>4 DEF ScopeOK, Quiet, Upstream
<1>6. lease' = s => ServedOK(b, lane, generation, seen')
  BY <1>1, <1>3, <1>4 DEF ServedOK, Upstream
<1>7. ChatInv' /\ (b.handling \in {scope[s].handling, Chat!Nothing, Chat!Reconciliation} => Reports)
  BY <1>1, <1>2, <1>5, <1>6, ScopeMoves
<1> QED
  BY <1>4, <1>7

LEMMA ListenerFailsKeeps ==
  ASSUME ChatInv, NEW s \in Chat!Scopes, Chat!ListenerFails(s)
  PROVE  ChatInv' /\ Reports
<1> DEFINE r == scope[s]
           b == [r EXCEPT !.handling = Chat!Reconciliation, !.queue = <<>>, !.terminal = TRUE]
<1>1. /\ UNCHANGED <<lane, generation, reconnect, outbound, inbound, upstream, emitted,
                     pendingScopes, opened, lease, seen>>
      /\ scope' = [scope EXCEPT ![s] = b]
  BY DEF Chat!ListenerFails, Chat!connection, Chat!wire, ChatInv
<1>2. Plain' /\ ConnectionOK'
  BY <1>1 DEF ChatInv, Plain, ConnectionOK
<1>3. r \in Chat!Scope /\ (lease = s => r.member)
  BY ScopeFacts DEF ServedOK
<1> HIDE DEF r
<1>4. /\ b \in Chat!Scope /\ b.queue = <<>> /\ b.handling = Chat!Reconciliation
      /\ b.member = r.member /\ b.terminal = TRUE /\ b.subscribed = r.subscribed
  <2>1. <<>> \in Seq(Chat!Item) /\ Chat!Reconciliation \in Chat!Item
    BY ItemFacts
  <2> QED
    BY <1>3, <2>1 DEF Chat!Scope
<1> HIDE DEF b
<1>5. Over(b) /\ b.subscribed \in {0, scope[s].subscribed}
  BY <1>4, ItemFacts, ChatConstantsHold DEF Over, Quiet, ChatConstants, r
<1>6. /\ ScopeOK(s, b, lane, generation, pendingScopes)
      /\ b.member => ServedOK(b, lane, generation, seen)
  BY <1>5, OverOnSameConnection
<1>7. /\ ScopeOK(s, b, lane, generation, pendingScopes')
      /\ lease' = s => ServedOK(b, lane, generation, seen')
      /\ pendingScopes' \subseteq pendingScopes \cup {s}
  BY <1>1, <1>3, <1>4, <1>6
<1>8. ChatInv' /\ (b.handling \in {scope[s].handling, Chat!Nothing, Chat!Reconciliation} => Reports)
  BY <1>1, <1>2, <1>7, ScopeMoves
<1> QED
  BY <1>4, <1>8

LEMMA TouchKeeps ==
  ASSUME ChatInv, Chat!Touch
  PROVE  ChatInv' /\ Reports
<1> DEFINE s == opened + 1
           fresh == [Chat!Unopened EXCEPT !.member = TRUE, !.baseline = seen]
           asked == [fresh EXCEPT !.synchronizing = generation]
           b == Chat!Open(s, seen)
<1>1. /\ lease = 0 /\ opened < MaximumScopes /\ opened' = s /\ lease' = s
      /\ scope' = [scope EXCEPT ![s] = b]
      /\ outbound' = outbound \o Chat!OpenFrame(s)
      /\ pendingScopes' = IF lane = "connected" THEN pendingScopes \cup {s} ELSE pendingScopes
      /\ UNCHANGED <<lane, generation, reconnect, inbound, upstream, emitted, seen>>
  BY DEF Chat!Touch, Chat!connection
<1>2. /\ s \in Chat!Scopes /\ s \in 0 .. MaximumScopes /\ generation \in 0 .. MaximumGeneration
      /\ seen \in 0 .. MaximumSequence /\ generation \in Nat
      /\ 0 \in 0 .. MaximumGeneration /\ 0 \in 0 .. MaximumSequence /\ QueueMaximum \in Nat
  BY <1>1, ChatConstantsHold DEF ChatInv, Plain, ChatConstants, Chat!Scopes
<1>3. lane # "none" => generation > 0
  BY DEF ChatInv, ConnectionOK
<1>4. outbound' \in Seq(Frame)
  <2>1. Chat!Subscribe(s) \in Frame
    BY <1>2 DEF Chat!Subscribe, Frame
  <2> HIDE DEF s
  <2>2. Chat!OpenFrame(s) \in Seq(Frame)
    BY <2>1 DEF Chat!OpenFrame
  <2> QED
    BY <1>1, <2>2, ConcatProperties DEF ChatInv, ConnectionOK
<1>5. Plain' /\ ConnectionOK'
  <2>1. pendingScopes' \subseteq Chat!Scopes /\ (pendingScopes' # {} => lane = "connected")
    BY <1>1, <1>2 DEF ChatInv, Plain, ConnectionOK
  <2> HIDE DEF s
  <2>2. Plain'
    BY <1>1, <1>2, <2>1 DEF ChatInv, Plain
  <2> QED
    BY <1>1, <1>3, <1>4, <2>1, <2>2 DEF ChatInv, ConnectionOK
<1>6. /\ fresh \in Chat!Scope /\ fresh.member = TRUE /\ fresh.queue = <<>> /\ fresh.subscribed = 0
      /\ fresh.baseline = seen /\ fresh.terminal = FALSE /\ fresh.handling = Chat!Nothing
  <2>1. Chat!Unopened \in Chat!Scope
    BY ItemFacts
  <2> QED
    BY <1>2, <2>1 DEF Chat!Scope, Chat!Unopened
<1>7. /\ asked \in Chat!Scope /\ asked.member = TRUE /\ asked.queue = <<>>
      /\ asked.subscribed = 0 /\ asked.baseline = seen /\ asked.terminal = FALSE
      /\ asked.handling = Chat!Nothing
  <2> HIDE DEF fresh
  <2> QED
    BY <1>2, <1>6 DEF Chat!Scope
<1>8. b = CASE lane = "connected" -> asked
            [] lane = "closing" -> Chat!Notified(fresh)
            [] OTHER -> fresh
  BY DEF Chat!Open
<1> HIDE DEF fresh, asked, s, b
<1>9. /\ b.handling = Chat!Nothing
      /\ ScopeOK(s, b, lane, generation, pendingScopes')
      /\ ServedOK(b, lane, generation, seen)
  <2>1. ASSUME NEW x, x \in {fresh, asked}
        PROVE  /\ ScopeOK(s, x, lane, generation, pendingScopes')
               /\ ServedOK(x, lane, generation, seen)
    <3>1. /\ x \in Chat!Scope /\ x.member = TRUE /\ x.queue = <<>> /\ x.subscribed = 0
          /\ x.baseline = seen /\ x.terminal = FALSE
      BY <1>6, <1>7, <2>1
    <3>2. s \in pendingScopes' => generation > 0
      <4>1. pendingScopes' # {} => lane = "connected"
        BY <1>1, <1>5 DEF ConnectionOK
      <4> QED
        BY <1>3, <4>1
    <3>3. ScopeOK(s, x, lane, generation, pendingScopes')
      BY <1>2, <1>3, <3>1, <3>2, ItemFacts DEF ScopeOK, Quiet
    <3>4. ~Upstream(x, lane, generation)
      BY <1>2, <1>3, <3>1 DEF Upstream
    <3> QED
      BY <3>1, <3>3, <3>4 DEF ServedOK
  <2>2. CASE lane = "closing"
    <3> DEFINE o == Chat!Notified(fresh)
    <3>1. /\ Over(o) /\ o.member = fresh.member /\ o.subscribed \in {0, fresh.subscribed}
          /\ o.handling = fresh.handling
      BY <1>2, <1>6, ItemFacts, NotifiedEnds
    <3>2. b = o
      BY <1>8, <2>2
    <3> HIDE DEF o
    <3>3. pendingScopes' = {}
      BY <1>1, <2>2 DEF ChatInv, ConnectionOK
    <3>4. ScopeOK(s, o, lane, generation, pendingScopes') /\ (o.member => ServedOK(o, lane, generation, seen))
      <4>1. /\ o.subscribed \in {0, fresh.subscribed} /\ fresh.subscribed <= generation
            /\ lane # "connecting" /\ s \notin pendingScopes'
        BY <1>2, <1>6, <2>2, <3>1, <3>3
      <4> HIDE DEF s
      <4> QED
        BY <1>2, <1>6, <3>1, <4>1, OverIsOK
    <3> QED
      BY <1>6, <3>1, <3>2, <3>4
  <2>3. CASE lane # "closing"
    <3>1. b \in {fresh, asked}
      BY <1>8, <2>3
    <3> QED
      BY <1>6, <1>7, <2>1, <3>1
  <2> QED
    BY <2>2, <2>3
<1>10. /\ pendingScopes' \subseteq pendingScopes \cup {s}
       /\ \A d \in Chat!Scopes \ {s} : lease' = d => lease = d /\ seen' = seen
  BY <1>1
<1>11. lease' = s => ServedOK(b, lane, generation, seen')
  BY <1>1, <1>9
<1>12. ChatInv' /\ (b.handling \in {scope[s].handling, Chat!Nothing, Chat!Reconciliation} => Reports)
  BY <1>1, <1>2, <1>5, <1>9, <1>10, <1>11, ScopeMoves
<1> QED
  BY <1>9, <1>12

(* The frames a closed scope sends.                                        *)
LEMMA FrameOfFacts ==
  ASSUME ChatInv, NEW s \in Chat!Scopes
  PROVE  outbound \o Chat!FrameOf(s) \in Seq(Frame)
<1>1. Chat!Unsubscribe(s) \in Frame
  BY DEF Chat!Unsubscribe, Frame
<1>2. Chat!FrameOf(s) \in Seq(Frame)
  BY <1>1 DEF Chat!FrameOf
<1> QED
  BY <1>2, ConcatProperties DEF ChatInv, ConnectionOK

LEMMA ReleaseKeeps ==
  ASSUME ChatInv, Chat!Release
  PROVE  ChatInv' /\ Reports
<1> DEFINE s == lease
           b == Chat!Deleted(scope[s])
<1>1. /\ s # 0 /\ lease' = 0 /\ scope' = [scope EXCEPT ![s] = b]
      /\ outbound' = outbound \o Chat!FrameOf(s)
      /\ UNCHANGED <<lane, generation, reconnect, inbound, upstream, emitted, pendingScopes,
                     opened, seen>>
  BY DEF Chat!Release, Chat!connection
<1>2. s \in Chat!Scopes /\ 0 \in 0 .. MaximumScopes
  BY <1>1, ChatConstantsHold DEF ChatInv, Plain, Chat!Scopes, ChatConstants
<1> HIDE DEF s
<1>3. outbound' \in Seq(Frame)
  BY <1>1, <1>2, FrameOfFacts
<1>4. Plain' /\ ConnectionOK'
  BY <1>1, <1>2, <1>3 DEF ChatInv, Plain, ConnectionOK
<1>5. Over(b) /\ b.subscribed \in {0, scope[s].subscribed} /\ b.handling = scope[s].handling
  BY <1>2, ScopeFacts, DeletedEnds
<1> HIDE DEF b
<1>6. ScopeOK(s, b, lane, generation, pendingScopes)
  BY <1>2, <1>5, OverOnSameConnection
<1>7. /\ ScopeOK(s, b, lane, generation, pendingScopes')
      /\ \A d \in Chat!Scopes : lease' # d
      /\ pendingScopes' \subseteq pendingScopes \cup {s}
  BY <1>1, <1>6, ScopeFacts
<1>8. ChatInv' /\ (b.handling \in {scope[s].handling, Chat!Nothing, Chat!Reconciliation} => Reports)
  BY <1>1, <1>2, <1>4, <1>7, ScopeMoves
<1> QED
  BY <1>5, <1>8

LEMMA ReconciledKeeps ==
  ASSUME ChatInv, NEW s \in Chat!Scopes, NEW known \in 0 .. MaximumSequence,
         Chat!Reconciled(s, known)
  PROVE  ChatInv' /\ Reports
<1> DEFINE a == Chat!Deleted(scope[s])
           b == [a EXCEPT !.handling = Chat!Nothing]
<1>1. /\ scope' = [scope EXCEPT ![s] = [Chat!Deleted(@) EXCEPT !.handling = Chat!Nothing]]
      /\ outbound' = outbound \o Chat!FrameOf(s)
      /\ seen' = (IF lease = s THEN known ELSE seen)
      /\ lease' = (IF lease = s THEN 0 ELSE lease)
      /\ UNCHANGED <<lane, generation, reconnect, inbound, upstream, emitted, pendingScopes,
                     opened>>
  BY DEF Chat!Reconciled, Chat!connection
<1>2. scope' = [scope EXCEPT ![s] = b]
  BY <1>1 DEF ChatInv
<1>3. outbound' \in Seq(Frame)
  BY <1>1, FrameOfFacts
<1>4. Plain' /\ ConnectionOK'
  <2>1. 0 \in 0 .. MaximumScopes
    BY ChatConstantsHold DEF ChatConstants
  <2> QED
    BY <1>1, <1>3, <2>1 DEF ChatInv, Plain, ConnectionOK
<1>5. /\ Over(a) /\ a.subscribed \in {0, scope[s].subscribed} /\ a.member = FALSE
  BY ScopeFacts, DeletedEnds
<1> HIDE DEF a
<1>6. /\ b \in Chat!Scope /\ b.queue = a.queue /\ b.handling = Chat!Nothing
      /\ b.member = a.member /\ b.terminal = a.terminal /\ b.subscribed = a.subscribed
  BY <1>5 DEF Over, Chat!Scope
<1> HIDE DEF b
<1>7. Over(b) /\ b.subscribed \in {0, scope[s].subscribed}
  BY <1>5, <1>6 DEF Over, Quiet
<1>8. ScopeOK(s, b, lane, generation, pendingScopes)
  BY <1>7, OverOnSameConnection
<1>9. /\ ScopeOK(s, b, lane, generation, pendingScopes')
      /\ lease' # s
      /\ \A d \in Chat!Scopes \ {s} : lease' = d => lease = d /\ seen' = seen
      /\ pendingScopes' \subseteq pendingScopes \cup {s}
  <2>1. \A d \in Chat!Scopes : d # 0
    BY ScopeFacts
  <2> QED
    BY <1>1, <1>8, <2>1
<1>10. ChatInv' /\ (b.handling \in {scope[s].handling, Chat!Nothing, Chat!Reconciliation} => Reports)
  BY <1>1, <1>2, <1>4, <1>9, ScopeMoves
<1> QED
  BY <1>6, <1>10

LEMMA ChatGoesOn == ChatInv /\ Chat!Next => ChatInv' /\ Reports
<1> SUFFICES ASSUME ChatInv, Chat!Next PROVE ChatInv' /\ Reports
  OBVIOUS
<1>1. CASE Chat!Connect
  BY <1>1, ConnectKeeps
<1>2. CASE Chat!Connected
  BY <1>2, ConnectedKeeps
<1>3. CASE Chat!Fail
  BY <1>3, FailKeeps
<1>4. CASE \E again \in BOOLEAN : Chat!Closed(again)
  BY <1>4, ClosedKeeps
<1>5. CASE Chat!GatewayTakesFrame
  BY <1>5, GatewayTakesFrameKeeps
<1>6. CASE \E forwarded \in BOOLEAN : Chat!GatewayEmits(forwarded)
  BY <1>6, GatewayEmitsKeeps
<1>7. CASE Chat!ReceiveAnswer
  BY <1>7, ReceiveAnswerKeeps
<1>8. CASE Chat!ReceiveEvent
  BY <1>8, ReceiveEventKeeps
<1>9. CASE Chat!Touch
  BY <1>9, TouchKeeps
<1>10. CASE Chat!Release
  BY <1>10, ReleaseKeeps
<1>11. CASE \E s \in Chat!Scopes :
              \/ Chat!RequestTimesOut(s) \/ Chat!Handle(s) \/ Chat!Handled(s)
              \/ Chat!ListenerFails(s)
              \/ \E known \in 0 .. MaximumSequence : Chat!Reconciled(s, known)
  BY <1>11, RequestTimesOutKeeps, HandleKeeps, HandledKeeps, ListenerFailsKeeps, ReconciledKeeps
<1> QED
  BY <1>1, <1>2, <1>3, <1>4, <1>5, <1>6, <1>7, <1>8, <1>9, <1>10, <1>11 DEF Chat!Next

LEMMA ChatHolds == ChatInv => Chat!TypeOK /\ Chat!QueuedEventsAreCurrent
<1> SUFFICES ASSUME ChatInv PROVE Chat!TypeOK /\ Chat!QueuedEventsAreCurrent
  OBVIOUS
<1>1. scope \in [Chat!Scopes -> Chat!Scope]
  <2>1. \A s \in Chat!Scopes : scope[s] \in Chat!Scope
    BY ScopeFacts
  <2> QED
    BY <2>1 DEF ChatInv
<1>2. Chat!TypeOK
  BY <1>1, ScopeFacts DEF Chat!TypeOK, ChatInv, Plain
<1>3. ASSUME NEW s \in Chat!Scopes, NEW i \in DOMAIN scope[s].queue,
             scope[s].queue[i].kind = "event"
      PROVE  scope[s].queue[i].generation = generation /\ lane # "none"
  <2> DEFINE q == scope[s].queue
  <2>1. ScopeOK(s, scope[s], lane, generation, pendingScopes) /\ scope[s] \in Chat!Scope
    BY ScopeFacts
  <2>2. q \in Seq(Chat!Item) /\ i \in 1..Len(q)
    BY <2>1, <1>3 DEF Chat!Scope
  <2>3. ~Quiet(scope[s])
    <3>1. CASE q = <<>>
      BY <2>2, <3>1, ItemFacts
    <3>2. CASE q = <<Chat!Reconciliation>>
      <4>1. i = 1
        BY <2>2, <3>2, ItemFacts
      <4> QED
        BY <1>3, <3>2, <4>1, ItemFacts
    <3> QED
      BY <3>1, <3>2 DEF Quiet
  <2> QED
    BY <1>3, <2>1, <2>2, <2>3 DEF ScopeOK, Upstream
<1> QED
  BY <1>2, <1>3 DEF Chat!QueuedEventsAreCurrent
-----------------------------------------------------------------------------
(* RealtimeEvents                                                          *)

Pump == INSTANCE RealtimeEvents_proofs WITH
    TopicAt <- EventTopics, TopicsOf <- FollowedTopics,
    MaximumPageEvents <- 1, MaximumSubscriberQueueEvents <- 1, MaximumSubscribers <- 2

(* The proofs are about the module that MCStreams instantiates: two        *)
(* instances of it with the same values say the same.                      *)
LEMMA PumpIsRealtime ==
  /\ Pump!RealtimeAssumption <=> Realtime!RealtimeAssumption
  /\ Pump!Init <=> Realtime!Init
  /\ Pump!Next <=> Realtime!Next
  /\ Pump!vars = Realtime!vars
  /\ Pump!TypeOK <=> Realtime!TypeOK
  /\ Pump!PollNeverThrows <=> Realtime!PollNeverThrows
  /\ Pump!PendingIsWhatIsBuffered <=> Realtime!PendingIsWhatIsBuffered
  /\ Pump!RequiredCursorProtects <=> Realtime!RequiredCursorProtects
<1>1. Pump!RealtimeAssumption <=> Realtime!RealtimeAssumption
  BY ZenonT(60) DEF
      Pump!RealtimeAssumption, Realtime!RealtimeAssumption
<1>2. Pump!Init <=> Realtime!Init
  BY ZenonT(60) DEF
      Pump!NoCursor, Realtime!NoCursor, Pump!Closed, Realtime!Closed, Pump!Init,
      Realtime!Init
<1>3. Pump!Next <=> Realtime!Next
  <2>1. Pump!Poll <=> Realtime!Poll
    BY ZenonT(60) DEF
        Pump!database, Realtime!database, Pump!Bounds, Realtime!Bounds,
        Pump!CursorIsOutsideRetention, Realtime!CursorIsOutsideRetention,
        Pump!ReplayComplete, Realtime!ReplayComplete, Pump!Attached, Realtime!Attached,
        Pump!Subscribers, Realtime!Subscribers, Pump!Larger, Realtime!Larger,
        Pump!EveryTopic, Realtime!EveryTopic, Pump!Rows, Realtime!Rows, Pump!Page,
        Realtime!Page, Pump!SmallestObserved, Realtime!SmallestObserved, Pump!RequiredAfter,
        Realtime!RequiredAfter, Pump!AdvanceRequiredCursor, Realtime!AdvanceRequiredCursor,
        Pump!Fail, Realtime!Fail, Pump!ForceResync, Realtime!ForceResync, Pump!Push,
        Realtime!Push, Pump!Observe, Realtime!Observe, Pump!Observed, Realtime!Observed,
        Pump!ActiveFloor, Realtime!ActiveFloor, Pump!PollIdle, Realtime!PollIdle,
        Pump!PollOutsideRetention, Realtime!PollOutsideRetention, Pump!PollPage,
        Realtime!PollPage, Pump!Poll, Realtime!Poll, Pump!Cardinality, Realtime!Cardinality,
        Pump!Min, Realtime!Min, Pump!Max, Realtime!Max
  <2>2. ASSUME NEW c \in Clients
        PROVE  /\ Pump!ReadBounds(c) <=> Realtime!ReadBounds(c)
               /\ Pump!OpeningFailed(c) <=> Realtime!OpeningFailed(c)
               /\ Pump!AttachOutsideRetention(c) <=> Realtime!AttachOutsideRetention(c)
               /\ Pump!Attach(c) <=> Realtime!Attach(c)
               /\ Pump!Terminal(c) <=> Realtime!Terminal(c)
               /\ Pump!ReadReplay(c) <=> Realtime!ReadReplay(c)
    BY ZenonT(60) DEF
        Pump!database, Realtime!database, Pump!pump, Realtime!pump, Pump!NoCursor,
        Realtime!NoCursor, Pump!Bounds, Realtime!Bounds, Pump!CursorIsOutsideRetention,
        Realtime!CursorIsOutsideRetention, Pump!Closed, Realtime!Closed,
        Pump!ReplayComplete, Realtime!ReplayComplete, Pump!Attached, Realtime!Attached,
        Pump!Subscribers, Realtime!Subscribers, Pump!Larger, Realtime!Larger, Pump!Rows,
        Realtime!Rows, Pump!Page, Realtime!Page, Pump!RequiredAfter, Realtime!RequiredAfter,
        Pump!AdvanceRequiredCursor, Realtime!AdvanceRequiredCursor, Pump!NextFromQueue,
        Realtime!NextFromQueue, Pump!ReadBounds, Realtime!ReadBounds, Pump!Ended,
        Realtime!Ended, Pump!Yielded, Realtime!Yielded, Pump!ResyncClient,
        Realtime!ResyncClient, Pump!ReplayBoundary, Realtime!ReplayBoundary,
        Pump!ObserveBounds, Realtime!ObserveBounds, Pump!StartLive, Realtime!StartLive,
        Pump!ContinueReplay, Realtime!ContinueReplay, Pump!OpeningFailed,
        Realtime!OpeningFailed, Pump!AttachOutsideRetention,
        Realtime!AttachOutsideRetention, Pump!Attach, Realtime!Attach, Pump!ReadReplay,
        Realtime!ReadReplay, Pump!Terminal, Realtime!Terminal, Pump!Cardinality,
        Realtime!Cardinality
  <2>3. ASSUME NEW c \in Clients
        PROVE  /\ Pump!ReplayOutsideRetention(c) <=> Realtime!ReplayOutsideRetention(c)
               /\ Pump!ResumeRead(c) <=> Realtime!ResumeRead(c)
               /\ Pump!PullReplay(c) <=> Realtime!PullReplay(c)
               /\ Pump!DeliverLive(c) <=> Realtime!DeliverLive(c)
               /\ Pump!PullLive(c) <=> Realtime!PullLive(c)
    BY ZenonT(60) DEF
        Pump!database, Realtime!database, Pump!pump, Realtime!pump,
        Pump!CursorIsOutsideRetention, Realtime!CursorIsOutsideRetention, Pump!Closed,
        Realtime!Closed, Pump!ReplayComplete, Realtime!ReplayComplete, Pump!Larger,
        Realtime!Larger, Pump!RequiredAfter, Realtime!RequiredAfter,
        Pump!AdvanceRequiredCursor, Realtime!AdvanceRequiredCursor, Pump!NextFromQueue,
        Realtime!NextFromQueue, Pump!Ended, Realtime!Ended, Pump!Yielded, Realtime!Yielded,
        Pump!ResyncClient, Realtime!ResyncClient, Pump!ObserveBounds,
        Realtime!ObserveBounds, Pump!StartLive, Realtime!StartLive, Pump!ContinueReplay,
        Realtime!ContinueReplay, Pump!ReplayOutsideRetention,
        Realtime!ReplayOutsideRetention, Pump!YieldFromPage, Realtime!YieldFromPage,
        Pump!ResumeRead, Realtime!ResumeRead, Pump!PullReplay, Realtime!PullReplay,
        Pump!DeliverLive, Realtime!DeliverLive, Pump!PullLive, Realtime!PullLive,
        Pump!Cardinality, Realtime!Cardinality, Pump!Min, Realtime!Min, Pump!Max,
        Realtime!Max
  <2>4. ASSUME NEW c \in Clients
        PROVE  Pump!Generator(c) <=> Realtime!Generator(c)
    BY ZenonT(60), <2>2, <2>3 DEF Pump!Generator, Realtime!Generator
  <2> QED
    BY ZenonT(60), <2>1, <2>4 DEF
        Pump!database, Realtime!database, Pump!pump, Realtime!pump, Pump!Ids, Realtime!Ids,
        Pump!Closed, Realtime!Closed, Pump!Opening, Realtime!Opening, Pump!ReplayComplete,
        Realtime!ReplayComplete, Pump!Attached, Realtime!Attached, Pump!Subscribers,
        Realtime!Subscribers, Pump!OpeningSubscribers, Realtime!OpeningSubscribers,
        Pump!Fail, Realtime!Fail, Pump!Issue, Realtime!Issue, Pump!Prune, Realtime!Prune,
        Pump!PollFails, Realtime!PollFails, Pump!Open, Realtime!Open, Pump!Ended,
        Realtime!Ended, Pump!Disconnect, Realtime!Disconnect, Pump!Restart,
        Realtime!Restart, Pump!Next, Realtime!Next, Pump!Cardinality, Realtime!Cardinality
<1>4. Pump!vars = Realtime!vars
  BY ZenonT(60) DEF
      Pump!vars, Realtime!vars
<1>5. Pump!TypeOK <=> Realtime!TypeOK
  BY ZenonT(60) DEF
      Pump!Ids, Realtime!Ids, Pump!NoCursor, Realtime!NoCursor, Pump!Opening,
      Realtime!Opening, Pump!ReplayComplete, Realtime!ReplayComplete, Pump!Attached,
      Realtime!Attached, Pump!StreamType, Realtime!StreamType, Pump!TypeOK, Realtime!TypeOK
<1>6. Pump!PollNeverThrows <=> Realtime!PollNeverThrows
  BY ZenonT(60) DEF
      Pump!Bounds, Realtime!Bounds, Pump!CursorIsOutsideRetention,
      Realtime!CursorIsOutsideRetention, Pump!ReplayComplete, Realtime!ReplayComplete,
      Pump!Attached, Realtime!Attached, Pump!Subscribers, Realtime!Subscribers, Pump!Larger,
      Realtime!Larger, Pump!SmallestObserved, Realtime!SmallestObserved, Pump!ActiveFloor,
      Realtime!ActiveFloor, Pump!ReplayBoundary, Realtime!ReplayBoundary,
      Pump!PollNeverThrows, Realtime!PollNeverThrows, Pump!Min, Realtime!Min
<1>7. Pump!PendingIsWhatIsBuffered <=> Realtime!PendingIsWhatIsBuffered
  BY ZenonT(60) DEF
      Pump!ReplayComplete, Realtime!ReplayComplete, Pump!Attached, Realtime!Attached,
      Pump!PendingIsWhatIsBuffered, Realtime!PendingIsWhatIsBuffered
<1>8. Pump!RequiredCursorProtects <=> Realtime!RequiredCursorProtects
  BY ZenonT(60) DEF
      Pump!ReplayComplete, Realtime!ReplayComplete, Pump!Attached, Realtime!Attached,
      Pump!Subscribers, Realtime!Subscribers, Pump!RequiredCursorProtects,
      Realtime!RequiredCursorProtects
<1> QED
  BY Zenon, <1>1, <1>2, <1>3, <1>4, <1>5, <1>6, <1>7, <1>8

(* The same of the feed both of them implement.                            *)
LEMMA PumpFeedIsRealtimeFeed ==
  /\ Pump!Feed!FeedInit <=> Realtime!Feed!FeedInit
  /\ Pump!Feed!FeedNext <=> Realtime!Feed!FeedNext
  /\ Pump!Feed!feedVars = Realtime!Feed!feedVars
<1> USE DEF
      Pump!FeedPosition, Realtime!FeedPosition, Pump!Attached, Realtime!Attached,
      Pump!ReplayComplete, Realtime!ReplayComplete, Pump!NoStream, Realtime!NoStream,
      Pump!Feed!NoStream, Realtime!Feed!NoStream, Pump!Feed!End, Realtime!Feed!End,
      Pump!Feed!feedVars, Realtime!Feed!feedVars, Pump!Feed!NoCursor, Realtime!Feed!NoCursor,
      Pump!Feed!Matching, Realtime!Feed!Matching, Pump!Feed!FeedInit, Realtime!Feed!FeedInit,
      Pump!Feed!Issue, Realtime!Feed!Issue, Pump!Feed!Prune, Realtime!Feed!Prune,
      Pump!Feed!Begin, Realtime!Feed!Begin, Pump!Feed!Deliver, Realtime!Feed!Deliver,
      Pump!Feed!Resync, Realtime!Feed!Resync, Pump!Feed!FeedNext, Realtime!Feed!FeedNext
<1>1. Pump!Feed!FeedInit <=> Realtime!Feed!FeedInit
  BY ZenonT(60)
<1>2. Pump!Feed!FeedNext <=> Realtime!Feed!FeedNext
  BY ZenonT(60)
<1>3. Pump!Feed!feedVars = Realtime!Feed!feedVars
  BY ZenonT(60)
<1> QED
  BY Zenon, <1>1, <1>2, <1>3

LEMMA RealtimeBegins == Realtime!Init => Pump!RealtimeInv /\ Realtime!Feed!FeedInit
<1>1. Pump!RealtimeAssumption
  BY ConstantsMeetAssumptions, PumpIsRealtime
<1>2. Realtime!Init => Pump!RealtimeInv
  BY <1>1, PumpIsRealtime, Pump!InitInv
<1>3. Realtime!Init => Realtime!Feed!FeedInit
  BY <1>1, PumpIsRealtime, PumpFeedIsRealtimeFeed, Pump!FeedBegins
<1> QED
  BY <1>2, <1>3

LEMMA RealtimeGoesOn ==
  ASSUME Pump!RealtimeInv, Realtime!Next \/ UNCHANGED realtimeVars
  PROVE  Pump!RealtimeInv' /\ (Realtime!Feed!FeedNext \/ UNCHANGED Realtime!Feed!feedVars)
<1>1. [Pump!Next]_(Pump!vars)
  BY PumpIsRealtime DEF realtimeVars, Pump!vars
<1>2. Pump!RealtimeInv' /\ Pump!FeedStep
  BY <1>1, Pump!StepKeeps
<1>3. Pump!Feed!FeedNext \/ UNCHANGED Pump!Feed!feedVars
  BY <1>2 DEF Pump!FeedStep
<1>4. UNCHANGED Pump!Feed!feedVars => UNCHANGED Realtime!Feed!feedVars
  BY DEF Pump!Feed!feedVars, Realtime!Feed!feedVars, Pump!FeedPosition,
         Realtime!FeedPosition, Pump!Attached, Realtime!Attached, Pump!ReplayComplete,
         Realtime!ReplayComplete, Pump!NoStream, Realtime!NoStream
<1> QED
  BY <1>2, <1>3, <1>4, PumpFeedIsRealtimeFeed

LEMMA RealtimeHolds == Pump!RealtimeInv => Realtime!TypeOK /\ Realtime!CursorsProtect
<1>1. Pump!RealtimeInv => Pump!TypeOK
  BY Pump!InvIsTyped
<1>2. Pump!RealtimeInv => Pump!PollNeverThrows
  BY Pump!NothingThrows
<1>3. Pump!RealtimeInv => Pump!PendingIsWhatIsBuffered
  BY Pump!PendingAgrees
<1>4. Pump!RealtimeInv => Pump!RequiredCursorProtects
  BY Pump!RequiredAgrees
<1> QED
  BY <1>1, <1>2, <1>3, <1>4, PumpIsRealtime DEF Realtime!CursorsProtect

-----------------------------------------------------------------------------
(* The four streams side by side                                           *)

(* A step of one component leaves the others alone.                        *)
StreamsInv == IInv /\ Pump!RealtimeInv /\ ChatInv /\ OneShotInv

LEMMA StreamsBegin == StreamsInit => StreamsInv
BY InitIInv, RealtimeBegins, ChatBegins, OneShotBegins DEF StreamsInit, StreamsInv

LEMMA RunEventsStay == IInv /\ UNCHANGED vars => IInv'
BY NextIInv

LEMMA ChatStays == ChatInv /\ UNCHANGED chatVars => ChatInv'
<1> SUFFICES ASSUME ChatInv, UNCHANGED chatVars PROVE ChatInv'
  OBVIOUS
<1> QED
  BY ScopesStay DEF chatVars, ChatInv, Plain, ConnectionOK

LEMMA OneShotStays == OneShotInv /\ UNCHANGED oneShotVars => OneShotInv'
BY DEF OneShotInv, oneShotVars, CallOK, OneShot!TypeOK

LEMMA StreamsGoOn == StreamsInv /\ [StreamsNext]_streamVars => StreamsInv'
<1> SUFFICES ASSUME StreamsInv, [StreamsNext]_streamVars PROVE StreamsInv'
  OBVIOUS
<1>1. IInv'
  <2>1. [Next]_vars
    BY DEF StreamsNext, RunEventsStep, RealtimeStep, ChatStep, OneShotStep, streamVars
  <2> QED
    BY <2>1, NextIInv DEF StreamsInv
<1>2. Pump!RealtimeInv'
  <2>1. Realtime!Next \/ UNCHANGED realtimeVars
    BY DEF StreamsNext, RunEventsStep, RealtimeStep, ChatStep, OneShotStep, streamVars
  <2> QED
    BY <2>1, RealtimeGoesOn DEF StreamsInv
<1>3. ChatInv'
  <2>1. Chat!Next \/ UNCHANGED chatVars
    BY DEF StreamsNext, RunEventsStep, RealtimeStep, ChatStep, OneShotStep, streamVars
  <2> QED
    BY <2>1, ChatGoesOn, ChatStays DEF StreamsInv
<1>4. OneShotInv'
  <2>1. OneShot!Next \/ UNCHANGED oneShotVars
    BY DEF StreamsNext, RunEventsStep, RealtimeStep, ChatStep, OneShotStep, streamVars
  <2> QED
    BY <2>1, OneShotGoesOn, OneShotStays DEF StreamsInv
<1> QED
  BY <1>1, <1>2, <1>3, <1>4 DEF StreamsInv

\* What ties the state of each stream together holds from the first step on.
THEOREM StreamsInvariance == StreamsSpec => []StreamsInv
BY StreamsBegin, StreamsGoOn, PTL DEF StreamsSpec

\* The columns of a run and the types of the pump, the subscriptions and the calls hold;
\* a chat subscriber that has not ended holds only events of the open connection; and at
\* most AdminConcurrencyMaximum sockets are open, whichever calls fail, time out or stop.
THEOREM StreamsStayConsistent == StreamsSpec => []StreamsConsistent
<1>1. StreamsInv => StreamsConsistent
  BY RealtimeHolds, ChatHolds, OneShotHolds DEF StreamsInv, StreamsConsistent, IInv
<1> QED
  BY <1>1, StreamsInvariance, PTL

\* Neither the poll loop nor a stream ever ends by a defect of its own, and retention
\* keeps whatever a subscriber still needs.
THEOREM StreamCursorsProtect == StreamsSpec => []CursorsProtect
<1>1. StreamsInv => CursorsProtect
  BY RealtimeHolds DEF StreamsInv, CursorsProtect
<1> QED
  BY <1>1, StreamsInvariance, PTL

\* A call that reports a failure as known has not been executed, and one that reports
\* success has: a caller may repeat the first and rely on the second.
THEOREM AnswersAreTruthful == StreamsSpec => []AnswerIsTruthful
<1>1. StreamsInv => AnswerIsTruthful
  BY OneShotHolds DEF StreamsInv, AnswerIsTruthful
<1> QED
  BY <1>1, StreamsInvariance, PTL

\* Next to the other streams too the pump keeps what EventFeed promises: within a stream
\* each event of the client's topics once and in order, or a resync after a loss, and the
\* next stream resumes at the last delivery, if there was one.
THEOREM StreamImplementsFeed == StreamsSpec => ImplementsFeed
<1>1. StreamsInit => Realtime!Feed!FeedInit
  BY RealtimeBegins DEF StreamsInit
<1>2. StreamsInv /\ [StreamsNext]_streamVars
        => [Realtime!Feed!FeedNext]_(Realtime!Feed!feedVars)
  <2> SUFFICES ASSUME StreamsInv, [StreamsNext]_streamVars
               PROVE  [Realtime!Feed!FeedNext]_(Realtime!Feed!feedVars)
    OBVIOUS
  <2>1. Realtime!Next \/ UNCHANGED realtimeVars
    BY DEF StreamsNext, RunEventsStep, RealtimeStep, ChatStep, OneShotStep, streamVars
  <2> QED
    BY <2>1, RealtimeGoesOn DEF StreamsInv
<1> QED
  BY <1>1, <1>2, StreamsInvariance, PTL
  DEF StreamsSpec, ImplementsFeed, Realtime!ImplementsFeed, Realtime!Feed!FeedSpec

\* Whatever is lost, late, closed or refused on the way, no event is handed to the chat
\* domain over one that it lacks and does not know to be missing.
THEOREM LossIsAlwaysReported == StreamsSpec => LossIsReported
<1>1. ASSUME StreamsInv, [StreamsNext]_streamVars
      PROVE  [\A s \in Chat!Scopes :
                (/\ lease = s /\ scope[s].handling = Chat!Nothing
                 /\ scope'[s].handling.kind = "event")
                => scope'[s].handling.sequence <= seen + 1 \/ seen = 0]_(Chat!vars)
  <2>1. Chat!Next \/ UNCHANGED chatVars
    BY <1>1 DEF StreamsNext, RunEventsStep, RealtimeStep, ChatStep, OneShotStep, streamVars
  <2>2. UNCHANGED chatVars => UNCHANGED Chat!vars
    BY DEF chatVars, Chat!vars, Chat!connection, Chat!wire, Chat!client
  <2>3. Chat!Next => Reports
    BY <1>1, ChatGoesOn DEF StreamsInv
  <2> QED
    BY <2>1, <2>2, <2>3 DEF Reports
<1> QED
  BY <1>1, StreamsInvariance, PTL DEF StreamsSpec, LossIsReported, Chat!LossIsReported
=============================================================================
