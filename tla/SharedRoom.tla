----------------------------- MODULE SharedRoom -----------------------------
(***************************************************************************)
(* The room of one share: its host, the viewers that join it over gossip,  *)
(* the roster each node keeps (vt-share/src/room_control.rs), and the      *)
(* roster its document channel admits edits by, which is copied out of it  *)
(* when the document sync is enabled and refreshed by the event loop       *)
(* (vt-share/src/net.rs, vt-ffi/src/share_api.rs).  What travels in the    *)
(* document channel is SharedDocument.                                     *)
(***************************************************************************)
EXTENDS Integers, FiniteSets

CONSTANTS Host, Viewer,
          MaxRoster,   \* MAX_ROSTER_MEMBERS, a positive number
          MaxFlap      \* bound: neighbours that come up or go down, a number

Node == {Host} \cup Viewer

VARIABLES
    room,      \* per node: the gossip room: open, members, seen, departed
    ctx,       \* per node: the DocSyncContext: off, enabling or on; its roster
    gossip,    \* control messages on their way, in no order
    flaps      \* neighbour events so far

vars == <<room, ctx, gossip, flaps>>

RoomTypeOK ==
    /\ room \in [Node -> [open : BOOLEAN, members : SUBSET Node,
                          seen : SUBSET Node, departed : BOOLEAN]]
    /\ ctx \in [Node -> [st : {"off", "enabling", "on"},
                         roster : SUBSET Node]]
    /\ gossip \subseteq [to : Node, from : Node, members : SUBSET Node,
                         kind : {"hello", "goodbye", "roster"}]
    /\ flaps \in 0..MaxFlap

NoRoom == [open |-> FALSE, members |-> {}, seen |-> {},
           departed |-> FALSE]
(* RoomPresence::new: the host is always a member, and so is whoever looks. *)
Entered(n) == [open |-> TRUE, members |-> {Host, n}, seen |-> {Host, n},
               departed |-> FALSE]

Init ==
    /\ room = [n \in Node |-> NoRoom]
    /\ ctx = [n \in Node |-> [st |-> "off", roster |-> {}]]
    /\ gossip = {} /\ flaps = 0

-----------------------------------------------------------------------------
(* The room.  Whatever changes a roster also refreshes the roster the      *)
(* document channel admits by, and the host then broadcasts its own.       *)

Others(n) == {m \in Node \ {n} : room[m].open}
Said(n, kind, to) ==
    {[to |-> m, from |-> n, kind |-> kind, members |-> {}] : m \in to}

(* roster_broadcast: the first MAX_ROSTER_MEMBERS, by public key.          *)
Announced(members) ==
    {s \in SUBSET members :
       Cardinality(s) = IF Cardinality(members) > MaxRoster THEN MaxRoster
                        ELSE Cardinality(members)}

(* The tail of the event loop after a change of n's roster.                *)
RosterIs(n, r, rest) ==
    /\ room' = [room EXCEPT ![n] = r]
    /\ ctx' = IF ctx[n].st = "on"
              THEN [ctx EXCEPT ![n].roster = r.members] ELSE ctx
    /\ IF n = Host
       THEN \E s \in Announced(r.members) :
              gossip' = rest \cup {[to |-> v, from |-> Host, members |-> s,
                                    kind |-> "roster"] : v \in Others(Host)}
       ELSE gossip' = rest

RosterStays(n, r, rest) ==
    /\ room' = [room EXCEPT ![n] = r]
    /\ gossip' = rest
    /\ UNCHANGED ctx

HelloArrives(n, m) ==
    LET r == [room[n] EXCEPT !.seen = @ \cup {m.from},
                             !.departed = @ /\ m.from # Host]
    IN  IF n = Host /\ m.from \notin room[n].seen
        THEN RosterIs(n, [r EXCEPT !.members = @ \cup {m.from}], gossip \ {m})
        ELSE RosterStays(n, r, gossip \ {m})

(* remove_presence: only the host's roster loses a member, never the host. *)
Leaves(n, who, r, rest) ==
    LET gone == [r EXCEPT !.seen = @ \ {who}]
    IN  IF n = Host /\ who \in r.members \ {Host}
        THEN RosterIs(n, [gone EXCEPT !.members = @ \ {who}], rest)
        ELSE RosterStays(n, gone, rest)

GoodbyeArrives(n, m) ==
    Leaves(n, m.from,
           [room[n] EXCEPT !.departed = @ \/ (m.from = Host /\ n # Host)],
           gossip \ {m})

RosterArrives(n, m) ==
    /\ n # Host
    /\ RosterIs(n, [room[n] EXCEPT !.members = m.members \cup {Host}],
                gossip \ {m})

Gossiped ==
    /\ \E m \in gossip :
         /\ room[m.to].open
         /\ \/ m.kind = "hello" /\ HelloArrives(m.to, m)
            \/ m.kind = "goodbye" /\ GoodbyeArrives(m.to, m)
            \/ m.kind = "roster" /\ RosterArrives(m.to, m)
    /\ UNCHANGED flaps

(* A new neighbour: whoever sees it announces itself again.                *)
NeighborUp(n) ==
    /\ room[n].open /\ flaps < MaxFlap
    /\ flaps' = flaps + 1
    /\ gossip' = gossip \cup Said(n, "hello", Others(n))
    /\ UNCHANGED <<room, ctx>>

NeighborDown(n, who) ==
    /\ room[n].open /\ who # n /\ flaps < MaxFlap
    /\ flaps' = flaps + 1
    /\ Leaves(n, who, room[n], gossip)

(* start_sharing: the host enters a room of its own, and may give the code *)
(* away from then on.                                                      *)
Enter(n) ==
    /\ room' = [room EXCEPT ![n] = Entered(n)]
    /\ gossip' = gossip \cup Said(n, "hello", Others(n))
    /\ UNCHANGED <<ctx, flaps>>

StartSharing == room[Host] = NoRoom /\ ctx[Host].st = "off" /\ Enter(Host)

(* join_share, up to the end of join_room: the first Hello.                *)
Join(v) == room[Host] # NoRoom /\ room[v] = NoRoom /\ Enter(v)

(* stop_sharing, by a viewer that leaves or by the host that ends it: the  *)
(* room goes; the document context and the connections stay.               *)
StopSharing(n) ==
    /\ room[n].open /\ ctx[n].st # "enabling"
    /\ room' = [room EXCEPT ![n].open = FALSE]
    /\ gossip' = gossip \cup Said(n, "goodbye", Others(n))
    /\ UNCHANGED <<ctx, flaps>>

(* enable_document_sync reads the roster of the room, and then (a host     *)
(* first writes its recordings into the documents) installs the context.   *)
EnableReads(n) ==
    /\ room[n].open /\ ctx[n].st = "off"
    /\ ctx' = [ctx EXCEPT ![n] = [st |-> "enabling",
                                  roster |-> room[n].members]]
    /\ UNCHANGED <<room, gossip, flaps>>

EnableInstalls(n) ==
    /\ ctx[n].st = "enabling"
    /\ ctx' = [ctx EXCEPT ![n].st = "on"]
    /\ UNCHANGED <<room, gossip, flaps>>

-----------------------------------------------------------------------------
Next ==
    \/ StartSharing \/ Gossiped
    \/ \E v \in Viewer : Join(v)
    \/ \E n \in Node :
         \/ NeighborUp(n) \/ StopSharing(n) \/ EnableReads(n)
         \/ EnableInstalls(n)
         \/ \E who \in Node : NeighborDown(n, who)

Spec == Init /\ [][Next]_vars

-----------------------------------------------------------------------------
(* share_api.rs, enable_document_sync: "the members who came in before it  *)
(* must not be left out" of the roster the host admits edits by.           *)
MembersAreNotLeftOut ==
    ctx[Host].st = "on" /\ room[Host].open
        => room[Host].members \subseteq ctx[Host].roster
=============================================================================
