---------------------------- MODULE TaskEvents ----------------------------
(***************************************************************************)
(* Task events: the manager's broadcast, its bounded history, the bounded  *)
(* channel of each subscriber, and a client that follows the documented    *)
(* protocol (reconnect with the last sequence number it processed, reload  *)
(* a snapshot on a gap).                                                   *)
(*                                                                         *)
(* broadcast and SubscribeFrom hold the manager's mutex; a subscriber      *)
(* reads its channel without it, so a read may fall between the three      *)
(* channel operations broadcast makes for a full subscriber.               *)
(***************************************************************************)
EXTENDS Naturals, Sequences

CONSTANTS Clients,
          eventHistoryLimit, defaultSubscriptionBuffer,
          MaxSeq

VARIABLES eventSeq, eventHistory,
          subs,    \* per client: connected, channel, its capacity
          client,  \* per client: last seq processed, the events it is owed, and
                   \* whether it left a connection with a gap unread
          todo,    \* clients the broadcast under way has still to serve
          full     \* clients whose channel was found full: "no", "drop", "gap"

vars == <<eventSeq, eventHistory, subs, client, todo, full>>

Event == [seq : 1..MaxSeq, match : BOOLEAN, gap : BOOLEAN]

Off == [on |-> FALSE, events |-> <<>>, size |-> 0]

Init == /\ eventSeq = 0 /\ eventHistory = <<>>
        /\ subs = [c \in Clients |-> Off]
        /\ client = [c \in Clients |-> [last |-> 0, owed |-> {}, cut |-> FALSE]]
        /\ todo = {} /\ full = [c \in Clients |-> "no"]

Unlocked == todo = {}

SetMax(a, b) == IF a >= b THEN a ELSE b

\* The events a reconnecting client still gets; all it needs unless the oldest
\* one kept is beyond the one after the last it saw.
Kept(after) == SelectSeq(eventHistory, LAMBDA e : e.seq > after /\ e.match)

ExpiredLate(after) == Len(eventHistory) > 0 /\ after < eventHistory[1].seq - 2
Expired(after) == \/ Len(eventHistory) = 0 /\ eventSeq > after
                  \/ Len(eventHistory) > 0 /\ after < eventHistory[1].seq - 1

channelSize == SetMax(defaultSubscriptionBuffer, Len(eventHistory) + 1)

\* A client that never processed an event starts from a snapshot of its own.
SubscribeFrom(c) ==
    /\ Unlocked /\ ~subs[c].on
    /\ LET after == client[c].last
           gap == [seq |-> eventSeq, match |-> TRUE, gap |-> TRUE]
       IN subs' = [subs EXCEPT ![c] =
            [on |-> TRUE, size |-> channelSize,
             events |-> IF after = 0 THEN <<>>
                        ELSE IF Expired(after) THEN <<gap>>
                        ELSE Kept(after)]]
    /\ client' = [client EXCEPT ![c].owed = IF client[c].last = 0 THEN {} ELSE @]
    /\ UNCHANGED <<eventSeq, eventHistory, todo, full>>

GapAhead(c) == \E i \in DOMAIN subs[c].events : subs[c].events[i].gap

Unsubscribe(c) ==
    /\ Unlocked /\ subs[c].on
    /\ subs' = [subs EXCEPT ![c] = Off]
    /\ client' = [client EXCEPT ![c].cut = @ \/ GapAhead(c)]
    /\ UNCHANGED <<eventSeq, eventHistory, todo, full>>

\* A new event, seen by the clients whose filter it matches.
broadcast(match) ==
    /\ Unlocked /\ eventSeq < MaxSeq
    /\ eventSeq' = eventSeq + 1
    /\ LET all == Append(eventHistory, [seq |-> eventSeq + 1, match |-> match,
                                        gap |-> FALSE])
       IN eventHistory' = IF Len(all) > eventHistoryLimit THEN Tail(all) ELSE all
    /\ todo' = IF match THEN {c \in Clients : subs[c].on} ELSE {}
    /\ client' = [c \in Clients |-> [client[c] EXCEPT
                    !.owed = IF match THEN @ \cup {eventSeq + 1} ELSE @]]
    /\ UNCHANGED <<subs, full>>

Latest == eventHistory[Len(eventHistory)]

\* The loop's first channel operation for a client.
Send(c) ==
    /\ c \in todo /\ full[c] = "no"
    /\ \A d \in Clients : full[d] = "no"
    /\ IF Len(subs[c].events) < subs[c].size
       THEN /\ subs' = [subs EXCEPT ![c].events = Append(@, Latest)]
            /\ todo' = todo \ {c}
            /\ UNCHANGED full
       ELSE full' = [full EXCEPT ![c] = "drop"] /\ UNCHANGED <<subs, todo>>
    /\ UNCHANGED <<eventSeq, eventHistory, client>>

\* The channel was full: the oldest event is taken out, if the reader has left
\* one.
DropOldest(c) ==
    /\ full[c] = "drop"
    /\ subs' = [subs EXCEPT ![c].events = IF @ = <<>> THEN @ ELSE Tail(@)]
    /\ full' = [full EXCEPT ![c] = "gap"]
    /\ UNCHANGED <<eventSeq, eventHistory, client, todo>>

\* The event's own place is taken by the gap.
SendGap(c) ==
    /\ full[c] = "gap"
    /\ subs' = [subs EXCEPT ![c].events =
                  Append(@, [seq |-> eventSeq, match |-> TRUE, gap |-> TRUE])]
    /\ full' = [full EXCEPT ![c] = "no"] /\ todo' = todo \ {c}
    /\ UNCHANGED <<eventSeq, eventHistory, client>>

\* The client takes one event; on a gap it reloads the snapshot, which holds
\* the effect of every event so far.
Read(c) ==
    /\ subs[c].events # <<>>
    /\ LET e == Head(subs[c].events)
       IN client' = [client EXCEPT
            ![c] = [last |-> e.seq,
                    owed |-> IF e.gap THEN {} ELSE @.owed \ {e.seq},
                    cut |-> @.cut /\ ~e.gap]]
    /\ subs' = [subs EXCEPT ![c].events = Tail(@)]
    /\ UNCHANGED <<eventSeq, eventHistory, todo, full>>

Next == \/ \E match \in BOOLEAN : broadcast(match)
        \/ \E c \in Clients : \/ SubscribeFrom(c) \/ Unsubscribe(c) \/ Send(c)
                              \/ DropOldest(c) \/ SendGap(c) \/ Read(c)

Spec == Init /\ [][Next]_vars

Covered(c) == \/ GapAhead(c)
              \/ LET q == subs[c].events
                 IN client[c].owed \subseteq {q[i].seq : i \in DOMAIN q}

\* A connected client that is owed an event finds it in its channel, or finds
\* there a gap that makes it reload: no event is lost in silence, neither by a
\* full channel nor by a history that has moved on while it was away
\* (broadcast, SubscribeFrom); for clients that did not leave a gap unread.
NoSilentLoss ==
    \A c \in Clients :
        subs[c].on /\ c \notin todo /\ ~client[c].cut => Covered(c)

\* The documented protocol, for every client: resuming from the last sequence
\* it processed, it gets the later events or is told to reload.  An overflow
\* takes the oldest event and puts the gap behind the newest, so a client cut
\* off between the two resumes past what was dropped.
ResumeIsComplete ==
    \A c \in Clients : subs[c].on /\ c \notin todo => Covered(c)

=============================================================================
