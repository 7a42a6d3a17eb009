---------------------------- MODULE BgpListener ----------------------------
(***************************************************************************)
(* Where the flap detector gets its changes from.  BIRD (the speaker)      *)
(* connects to the listener and sends BGP messages; every connection has a *)
(* task that reads the stream, message by message, parses the updates and  *)
(* sends their changes, one by one, to the channel of the detector, which  *)
(* all connections share.                                                  *)
(*                                                                         *)
(* A stream is a sequence of pieces that TCP delivers in order: the header  *)
(* of a message, of which the type is kept, and its body, if it has one,   *)
(* for which the update or greeting stands that its bytes encode.  A read  *)
(* that finds nothing waits for more or for the end of the stream.         *)
(***************************************************************************)
EXTENDS BgpUpdate

CONSTANTS
    Session,     \* connections
    Greeting,    \* the [as, hold] that a speaker may open a session with
    Update,      \* the updates that it may send
    MaxSent,     \* bound: messages sent over each connection
    Capacity     \* of the channel

ASSUME BoundAssumption ==
    /\ MaxSent \in [Session -> Nat]
    /\ Capacity \in Nat \ {0}
ASSUME SpeakerAssumption ==
    /\ Greeting \subseteq [as : Word, hold : Word]
    /\ \A update \in Update : WellFormed(update)

VARIABLES
    left,        \* how many messages a speaker may still send
    hold,        \* the hold time that it opened the session with
    said,        \* the changes that it announced
    closed,      \* it has closed the connection
    wire,        \* what has not been read
    phase,       \* where handle_session is
    interval,    \* seconds between the keepalives it sends
    pending,     \* changes of the last update that are not in the channel
    channel,     \* [session, change]
    taken        \* what the detector got, by session

speaker == <<left, hold, said, closed>>
vars == <<speaker, wire, phase, interval, pending, channel, taken>>

Header(type) == [marker |-> TRUE, type |-> type, content |-> <<>>]
Body(content) == [marker |-> FALSE, type |-> 0, content |-> content]

Opening(greeting) == <<Header(1), Body(greeting)>>
Telling(update) == <<Header(2), Body(update)>>
Notification == <<Header(3), Body(<<6, 2>>)>>
Keepalive == <<Header(4)>>
RouteRefresh == <<Header(5), Body(<<0, 1, 0, 1>>)>>

\* What updates announce, and what is parsed from their bytes.
Changes == [update \in Update |-> Announced(update)]
Parsed == [update \in Update |-> ParseUpdate(EncodeUpdate(update))]

Init ==
    /\ left = MaxSent
    /\ hold = [s \in Session |-> 0]
    /\ said = [s \in Session |-> <<>>]
    /\ closed = [s \in Session |-> FALSE]
    /\ wire = [s \in Session |-> <<>>]
    /\ phase = [s \in Session |-> "accept"]
    /\ interval = [s \in Session |-> 0]
    /\ pending = [s \in Session |-> <<>>]
    /\ channel = <<>>
    /\ taken = [s \in Session |-> <<>>]

-----------------------------------------------------------------------------
(* The speaker *)

Connected(s) == phase[s] \in {"open", "read"} /\ ~closed[s]

Write(s, frame) ==
    /\ Connected(s)
    /\ left[s] > 0
    /\ left' = [left EXCEPT ![s] = @ - 1]
    /\ wire' = [wire EXCEPT ![s] = @ \o frame]
    /\ UNCHANGED <<phase, interval, pending, channel, taken>>

SayOpen(s) ==
    \E greeting \in Greeting :
        /\ hold[s] = 0
        /\ Write(s, Opening(greeting))
        /\ hold' = [hold EXCEPT ![s] = greeting.hold]
        /\ UNCHANGED <<said, closed>>

SayUpdate(s) ==
    \E update \in Update :
        /\ hold[s] > 0
        /\ Write(s, Telling(update))
        /\ said' = [said EXCEPT ![s] = @ \o Changes[update]]
        /\ UNCHANGED <<hold, closed>>

SayOther(s) ==
    \E frame \in {Notification, Keepalive, RouteRefresh} :
        /\ hold[s] > 0
        /\ Write(s, frame)
        /\ closed' = [closed EXCEPT ![s] = frame = Notification]
        /\ UNCHANGED <<hold, said>>

Hangup(s) ==
    /\ Connected(s)
    /\ closed' = [closed EXCEPT ![s] = TRUE]
    /\ UNCHANGED <<left, hold, said, wire, phase, interval, pending, channel,
                   taken>>

-----------------------------------------------------------------------------
(* handle_session *)

\* The connection is accepted and our OPEN written.
Accept(s) ==
    /\ phase[s] = "accept"
    /\ phase' = [phase EXCEPT ![s] = "open"]
    /\ UNCHANGED <<speaker, wire, interval, pending, channel, taken>>

\* What comes next in a stream is a header.
MarkerOk(stream) == Head(stream).marker
TypeOf(stream) == Head(stream).type

\* Its body, and what follows it.
HasBody(stream) == Len(stream) > 1 /\ ~stream[2].marker
BodyOf(stream) == IF HasBody(stream) THEN stream[2].content ELSE <<>>
Rest(stream) == SubSeq(stream, IF HasBody(stream) THEN 3 ELSE 2, Len(stream))

End(s) ==
    /\ phase' = [phase EXCEPT ![s] = "done"]
    /\ wire' = [wire EXCEPT ![s] = <<>>]

OurHold == 60

OpenBytes(greeting) ==
    <<4>> \o Bytes(greeting.as) \o Bytes(greeting.hold) \o <<10, 0, 0, 1, 0>>

\* A third of the smaller hold time.  The peer's is read from the second
\* byte of its AS number and the first byte of its hold time, so that a hold
\* time shorter than ours is not honoured.
KeepaliveEvery(greeting) ==
    LET body == OpenBytes(greeting)
        theirs == U16(body[3], body[4])
        agreed == IF theirs < OurHold THEN theirs ELSE OurHold
    IN  IF agreed = 0 THEN 20 ELSE IF agreed < 3 THEN 1 ELSE agreed \div 3

ReadOpen(s) ==
    /\ phase[s] = "open"
    /\ wire[s] # <<>>
    /\ IF MarkerOk(wire[s]) /\ TypeOf(wire[s]) = 1
       THEN /\ phase' = [phase EXCEPT ![s] = "read"]
            /\ wire' = [wire EXCEPT ![s] = Rest(@)]
            /\ interval' = [interval EXCEPT ![s] =
                              KeepaliveEvery(BodyOf(wire[s]))]
       ELSE End(s) /\ UNCHANGED interval
    /\ UNCHANGED <<speaker, pending, channel, taken>>

\* Mutant: the body of a message that is not understood stays in the stream.
ReadUndrained(s) ==
    /\ phase[s] = "read" /\ pending[s] = <<>>
    /\ wire[s] # <<>>
    /\ IF ~MarkerOk(wire[s]) \/ TypeOf(wire[s]) = 3
       THEN End(s) /\ UNCHANGED pending
       ELSE /\ wire' = [wire EXCEPT ![s] =
                 IF TypeOf(@) = 2 THEN Rest(@) ELSE Tail(@)]
            /\ pending' = [pending EXCEPT ![s] =
                 IF TypeOf(wire[s]) = 2 THEN Parsed[BodyOf(wire[s])]
                                        ELSE <<>>]
            /\ UNCHANGED phase
    /\ UNCHANGED <<speaker, interval, channel, taken>>

\* An update is parsed, a notification ends the session, and the body of
\* any other message is drained.
ReadMessage(s) ==
    /\ phase[s] = "read" /\ pending[s] = <<>>
    /\ wire[s] # <<>>
    /\ IF ~MarkerOk(wire[s]) \/ TypeOf(wire[s]) = 3
       THEN End(s) /\ UNCHANGED pending
       ELSE /\ wire' = [wire EXCEPT ![s] = Rest(@)]
            /\ pending' = [pending EXCEPT ![s] =
                 IF TypeOf(wire[s]) = 2 THEN Parsed[BodyOf(wire[s])]
                                        ELSE <<>>]
            /\ UNCHANGED phase
    /\ UNCHANGED <<speaker, interval, channel, taken>>

\* The stream ends before another message.
StreamEnds(s) ==
    /\ phase[s] \in {"open", "read"} /\ pending[s] = <<>>
    /\ closed[s] /\ wire[s] = <<>>
    /\ End(s)
    /\ UNCHANGED <<speaker, interval, pending, channel, taken>>

\* Mutant: a change that finds the channel full is dropped.
SendOrDrop(s) ==
    /\ pending[s] # <<>>
    /\ channel' = IF Len(channel) < Capacity
                  THEN Append(channel,
                              [session |-> s, change |-> Head(pending[s])])
                  ELSE channel
    /\ pending' = [pending EXCEPT ![s] = Tail(@)]
    /\ UNCHANGED <<speaker, wire, phase, interval, taken>>

\* Mutant: the channel has no limit.
SendUnbounded(s) ==
    /\ pending[s] # <<>>
    /\ channel' = Append(channel,
                         [session |-> s, change |-> Head(pending[s])])
    /\ pending' = [pending EXCEPT ![s] = Tail(@)]
    /\ UNCHANGED <<speaker, wire, phase, interval, taken>>

\* tx.send waits while the channel is full.
Send(s) ==
    /\ pending[s] # <<>>
    /\ Len(channel) < Capacity
    /\ channel' = Append(channel,
                         [session |-> s, change |-> Head(pending[s])])
    /\ pending' = [pending EXCEPT ![s] = Tail(@)]
    /\ UNCHANGED <<speaker, wire, phase, interval, taken>>

\* The loop of the flap detector.
Receive ==
    /\ channel # <<>>
    /\ taken' = [taken EXCEPT ![Head(channel).session] =
                   Append(@, Head(channel).change)]
    /\ channel' = Tail(channel)
    /\ UNCHANGED <<speaker, wire, phase, interval, pending>>

-----------------------------------------------------------------------------
(* Specification *)

Reader(s) == ReadOpen(s) \/ ReadMessage(s) \/ StreamEnds(s) \/ Send(s)

Next ==
    \/ \E s \in Session :
         \/ SayOpen(s) \/ SayUpdate(s) \/ SayOther(s) \/ Hangup(s)
         \/ Accept(s) \/ Reader(s)
    \/ Receive

\* Tasks are scheduled and the detector takes what is in the channel; the
\* speaker may fall silent.  Waiting senders are served in order (hence SF).
Spec ==
    /\ Init /\ [][Next]_vars
    /\ \A s \in Session : WF_vars(Reader(s)) /\ SF_vars(Send(s))
    /\ WF_vars(Receive)

-----------------------------------------------------------------------------
(* Properties *)

Phase == {"accept", "open", "read", "done"}

TypeOK ==
    /\ \A s \in Session : left[s] \in 0 .. MaxSent[s]
    /\ hold \in [Session -> {0} \cup {greeting.hold : greeting \in Greeting}]
    /\ closed \in [Session -> BOOLEAN]
    /\ phase \in [Session -> Phase]
    /\ interval \in [Session -> 0 .. OurHold]
    /\ Len(channel) <= Capacity

Own(entry, s) == IF entry.session = s THEN <<entry.change>> ELSE <<>>
Queued(s) == FlattenSeq([i \in DOMAIN channel |-> Own(channel[i], s)])

\* The detector never gets a change of a session that was not announced, in
\* another order, with another prefix, or with a path that differs when the
\* attributes do not: the reader keeps its place in the stream, whatever
\* messages come in between.
ReportsWhatIsSaid ==
    \A s \in Session : IsPrefix(taken[s] \o Queued(s) \o pending[s], said[s])

\* Everything that a speaker says reaches the detector, also what it said
\* just before it closed the session.
EverythingArrives == \A s \in Session : <>[](taken[s] = said[s])
=============================================================================
