---------------------------- MODULE SharingProofs ----------------------------
(***************************************************************************)
(* What is proved of a shared document: in the first part of the copies    *)
(* that travel between its people, in the second of the texts the host's   *)
(* machine writes into the blocks that they correct.                       *)
(***************************************************************************)
EXTENDS SharedDocument, SharedLanes, TLAPS

-----------------------------------------------------------------------------
(***************************************************************************)
(* For any viewers, writers, operations and faults: an operation reaches a *)
(* document only if its author may write, and one viewer's only by way of  *)
(* the host's document.                                                    *)
(*                                                                         *)
(* A document alone does not say so: it would be lost with the next        *)
(* envelope.  The invariant says it of everything on the way as well, of   *)
(* an envelope with its signer in the place of the document's owner: what  *)
(* the signer may bring is what an admission lets through.                 *)
(***************************************************************************)

Row == [ops : SUBSET Op, pend : SUBSET Op, published : SUBSET Op, known : BOOLEAN]
Wire == [queue : SUBSET Envelope, pusher : BOOLEAN, answer : SUBSET Op]

ShareTyped ==
    /\ hostOnly \in BOOLEAN
    /\ roster \subseteq admitted /\ admitted \subseteq Viewer
    /\ link \in [Viewer -> {"none", "up", "down"}]
    /\ doc \in [Node -> Row] /\ wire \in [Links -> Wire]
    /\ Made \subseteq Op /\ faults \in 0..MaxFault

\* Operations that node n may pass on: its own, the host's, and where
\* everyone may edit those of anybody the host had let in.
Allowed(n, op) == Author(op) \in {n, Host} \/ (~hostOnly /\ Author(op) \in admitted)

AllAllowed ==
    /\ \A n \in Node : \A op \in Held(n) : Allowed(n, op)
    /\ \A p \in Links : /\ \A e \in wire[p].queue : \A op \in e.ops : Allowed(e.signer, op)
                        /\ \A op \in wire[p].answer : Allowed(p[1], op)

ByTheHub ==
    /\ HubFirst
    /\ \A p \in Links : p[1] = Host =>
          /\ \A e \in wire[p].queue : e.ops \subseteq Held(Host)
          /\ wire[p].answer \subseteq Held(Host)

\* Nobody has an operation without what it depends on.
Causal ==
    /\ \A op \in Made : deps[op] \subseteq Made /\ \A d \in deps[op] : deps[d] \subseteq deps[op]
    /\ \A n \in Node : /\ Held(n) \subseteq Made
                       /\ \A op \in doc[n].ops : deps[op] \subseteq doc[n].ops
    /\ \A p \in Links : /\ \A e \in wire[p].queue : e.ops \subseteq Made
                        /\ wire[p].answer \subseteq Made

ShareInv == ShareTyped /\ Causal /\ AllAllowed /\ ByTheHub

-----------------------------------------------------------------------------
\* Every link has the host at one end and a viewer at the other.
LEMMA LinkEnds ==
    ASSUME NEW p \in Links
    PROVE  /\ p[1] \in Node /\ p[2] \in Node
           /\ p[1] = Host => p[2] \in Viewer
           /\ p[2] # Host => p[1] = Host
  <1>1. p \in Node \X Node /\ Host \in {p[1], p[2]} /\ p[1] # p[2]
    BY DEF Links
  <1>2. p[1] \in Node /\ p[2] \in Node
    BY <1>1
  <1> QED
    BY <1>1, <1>2 DEF Node

\* What an import does to a document: it loses nothing, and gains nothing
\* but what was brought.
LEMMA Imports ==
    ASSUME ShareTyped, Causal, NEW n \in Node, NEW ops \in SUBSET Made, Imported(n, ops)
    PROVE  /\ doc' \in [Node -> Row]
           /\ Held(n)' = Held(n) \cup ops
           /\ \A m \in Node : m # n => doc'[m] = doc[m]
           /\ \A op \in doc'[n].ops : deps[op] \subseteq doc'[n].ops
  <1>1. Merged(doc[n], ops) \subseteq Held(n) \cup ops /\ Held(n) \subseteq Op
    BY DEF Merged, Settled, Held, ShareTyped, Row
  <1> DEFINE all == Merged(doc[n], ops)
  <1>2. PICK own \in {{}, doc[n].ops \ doc[n].published} :
           doc' = [doc EXCEPT ![n] =
                     [ops |-> all, pend |-> (doc[n].pend \cup ops) \ all,
                      published |-> doc[n].published \cup (all \ doc[n].ops) \cup own,
                      known |-> doc[n].known]]
    BY DEF Imported
  <1>3. all \subseteq Op /\ all \subseteq Held(n) \cup ops
    BY <1>1 DEF ShareTyped
  <1>31. doc[n].ops \subseteq all
    BY DEF Merged, Settled, Causal
  <1>32. \A op \in all : deps[op] \subseteq all
    <2>1. Held(n) \cup ops \subseteq Made
      BY DEF Causal
    <2>2. all = {op \in Held(n) \cup ops : deps[op] \subseteq Held(n) \cup ops}
      BY DEF Merged, Settled, Held
    <2> QED
      BY <2>1, <2>2 DEF Causal
  <1> HIDE DEF all
  <1>4. /\ doc'[n].ops = all /\ doc'[n].pend = (doc[n].pend \cup ops) \ all
        /\ \A m \in Node : m # n => doc'[m] = doc[m]
    BY <1>2 DEF ShareTyped, Row
  <1>5. doc' \in [Node -> Row]
    BY <1>2, <1>3 DEF ShareTyped, Row
  <1>6. Held(n)' = Held(n) \cup ops
    BY <1>3, <1>31, <1>4 DEF Held
  <1> QED
    BY <1>32, <1>4, <1>5, <1>6
Grown == admitted \subseteq admitted' /\ UNCHANGED hostOnly
Fewer(w) == /\ w \in [Links -> Wire]
            /\ \A p \in Links : w[p].queue \subseteq wire[p].queue /\ w[p].answer \subseteq wire[p].answer

\* Letting somebody in, or taking something off the wire, harms nothing.
LEMMA Quieter ==
    ASSUME ShareInv, Grown, UNCHANGED deps, Fewer(wire'),
           \A n \in Node : doc'[n].ops = doc[n].ops /\ doc'[n].pend = doc[n].pend
    PROVE  Causal' /\ AllAllowed' /\ ByTheHub'
  <1>1. Host \in Node /\ Viewer \subseteq Node
    BY DEF Node
  <1>2. \A n \in Node : Held(n)' = Held(n)
    BY DEF Held
  <1>3. \A n, op : Allowed(n, op) => Allowed(n, op)'
    BY DEF Allowed, Grown
  <1>4. Causal'
    BY <1>2 DEF ShareInv, Causal, Fewer, Made
  <1>5. AllAllowed'
    BY <1>2, <1>3 DEF ShareInv, AllAllowed, Fewer
  <1>6. ByTheHub'
    BY <1>1, <1>2 DEF ShareInv, ByTheHub, HubFirst, Fewer
  <1> QED
    BY <1>4, <1>5, <1>6

\* A received envelope, admitted or not, whoever sent it and on whatever way.
LEMMA Handles ==
    ASSUME ShareInv, NEW n \in Node, NEW e \in Envelope, NEW w, Fewer(w),
           e.ops \subseteq Made, \A op \in e.ops : Allowed(e.signer, op),
           n # Host => e.ops \subseteq Held(Host),
           Handled(n, e, w), UNCHANGED <<hostOnly, admitted, deps>>
    PROVE  /\ doc' \in [Node -> Row] /\ wire' \in [Links -> Wire]
           /\ Causal' /\ AllAllowed' /\ ByTheHub'
  <1> USE DEF ShareInv
  <1>1. CASE UNCHANGED doc /\ wire' = w
    BY <1>1, Quieter DEF Grown, Fewer, ShareTyped
  <1>2. ASSUME NEW r \in RosterOf(n), Admits(n, r, e), Imported(n, e.ops),
               wire' = [p \in Links |->
                 IF Relays(n) /\ p[1] = n /\ w[p].pusher
                 THEN [w[p] EXCEPT !.queue = @ \cup {e}] ELSE w[p]]
        PROVE  /\ doc' \in [Node -> Row] /\ wire' \in [Links -> Wire]
               /\ Causal' /\ AllAllowed' /\ ByTheHub'
    <2>1. /\ doc' \in [Node -> Row] /\ Held(n)' = Held(n) \cup e.ops
          /\ \A m \in Node : m # n => doc'[m] = doc[m]
          /\ \A op \in doc'[n].ops : deps[op] \subseteq doc'[n].ops
      BY <1>2, Imports
    <2>2. \A m \in Node : m # n => Held(m)' = Held(m)
      BY <2>1 DEF Held
    <2>3. ASSUME NEW p \in Links
          PROVE  /\ wire'[p] \in Wire /\ wire'[p].answer \subseteq wire[p].answer
                 /\ \/ wire'[p].queue \subseteq wire[p].queue
                    \/ n = Host /\ p[1] = n /\ wire'[p].queue \subseteq wire[p].queue \cup {e}
      BY <1>2, <2>3 DEF Fewer, Wire, Relays
    <2>4. wire' \in [Links -> Wire]
      BY <1>2, <2>3
    <2>5. \A m, op : Allowed(m, op)' <=> Allowed(m, op)
      BY DEF Allowed
    <2>6. \A op \in e.ops : Allowed(n, op)
      <3>1. e.signer = Host \/ (~hostOnly /\ e.signer \in admitted)
        BY <1>2 DEF Admits, MayWrite, RosterOf, ShareTyped
      <3> QED
        BY <3>1 DEF Allowed
    <2>7. Host \in Node /\ Viewer \subseteq Node /\ Host \notin Viewer
      BY DocumentAssumption DEF Node
    <2>8. Causal'
      BY <2>1, <2>2, <2>3 DEF Causal, Made
    <2>9. AllAllowed'
      BY <2>1, <2>2, <2>3, <2>5, <2>6 DEF AllAllowed
    <2>10. Held(Host) \subseteq Held(Host)' /\ (n = Host => e.ops \subseteq Held(Host)')
      BY <2>1, <2>2, <2>7
    <2>11. HubFirst'
      BY <2>1, <2>2, <2>7, <2>10 DEF ByTheHub, HubFirst
    <2>12. ByTheHub'
      BY <2>3, <2>10, <2>11 DEF ByTheHub
    <2> QED
      BY <2>1, <2>4, <2>8, <2>9, <2>12
  <1> QED
    BY <1>1, <1>2 DEF Handled

\* An operation is made once, and depends on all its author has.
LEMMA Edits ==
    ASSUME ShareInv, NEW n \in Node, Edit(n)
    PROVE  ShareTyped' /\ Causal' /\ AllAllowed' /\ ByTheHub'
  <1> USE DEF ShareInv
  <1>1. PICK i \in 1..MaxEdit :
           /\ <<n, i>> \notin Made
           /\ deps' = [op \in Made \cup {<<n, i>>} |->
                         IF op = <<n, i>> THEN doc[n].ops ELSE deps[op]]
           /\ doc' = [doc EXCEPT ![n].ops = @ \cup {<<n, i>>}]
    BY DEF Edit
  <1> DEFINE new == <<n, i>>
  <1>2. n \in Writer /\ UNCHANGED <<link, wire, hostOnly, roster, admitted, faults>>
    BY DEF Edit, OnlyDocs, Settings
  <1>3. new \in Op /\ Author(new) = n
    BY <1>2 DEF Op, Author
  <1>4. Made' = Made \cup {new} /\ \A op \in Made : deps'[op] = deps[op]
    BY <1>1 DEF Made
  <1>5. deps'[new] = doc[n].ops
    BY <1>1
  <1>6. /\ doc' \in [Node -> Row]
        /\ doc'[n].ops = doc[n].ops \cup {new} /\ doc'[n].pend = doc[n].pend
        /\ \A m \in Node : m # n => doc'[m] = doc[m]
    BY <1>1, <1>3 DEF ShareTyped, Row
  <1>7. Held(n)' = Held(n) \cup {new} /\ \A m \in Node : m # n => Held(m)' = Held(m)
    BY <1>6 DEF Held
  <1> HIDE DEF new
  <1>8. ShareTyped'
    BY <1>2, <1>3, <1>4, <1>6 DEF ShareTyped
  <1>9. doc[n].ops \subseteq Made /\ \A op \in doc[n].ops : deps[op] \subseteq doc[n].ops
    BY DEF Causal, Held
  <1>10. Causal'
    <2>1. \A op \in Made' : deps'[op] \subseteq Made' /\ \A d \in deps'[op] : deps'[d] \subseteq deps'[op]
      BY <1>4, <1>5, <1>9 DEF Causal
    <2>2. \A m \in Node : /\ Held(m)' \subseteq Made'
                          /\ \A op \in doc'[m].ops : deps'[op] \subseteq doc'[m].ops
      <3>1. ASSUME NEW m \in Node, m # n
            PROVE  /\ Held(m)' \subseteq Made'
                   /\ \A op \in doc'[m].ops : deps'[op] \subseteq doc'[m].ops
        BY <1>4, <1>6, <1>7, <3>1 DEF Causal, Held
      <3>2. /\ Held(n)' \subseteq Made'
            /\ \A op \in doc'[n].ops : deps'[op] \subseteq doc'[n].ops
        BY <1>4, <1>5, <1>6, <1>7, <1>9 DEF Causal
      <3> QED
        BY <3>1, <3>2
    <2>3. \A p \in Links : /\ \A e \in wire'[p].queue : e.ops \subseteq Made'
                           /\ wire'[p].answer \subseteq Made'
      BY <1>2, <1>4 DEF Causal
    <2> QED
      BY <2>1, <2>2, <2>3 DEF Causal
  <1>11. \A m, op : Allowed(m, op)' <=> Allowed(m, op)
    BY <1>2 DEF Allowed
  <1>12. AllAllowed'
    BY <1>2, <1>3, <1>7, <1>11 DEF AllAllowed, Allowed
  <1>13. Host \in Node /\ Viewer \subseteq Node
    BY DEF Node
  <1>14. Held(Host) \subseteq Held(Host)'
    BY <1>7, <1>13
  <1>15. ByTheHub'
    BY <1>2, <1>3, <1>7, <1>13, <1>14 DEF ByTheHub, HubFirst
  <1> QED
    BY <1>8, <1>10, <1>12, <1>15

\* What a node puts on the wire it holds.
LEMMA Sends ==
    ASSUME ShareInv, NEW n \in Node, wire' \in [Links -> Wire],
           UNCHANGED <<hostOnly, admitted, deps>>,
           \A m \in Node : doc'[m].ops = doc[m].ops /\ doc'[m].pend = doc[m].pend,
           \A p \in Links :
             /\ wire'[p].queue \subseteq wire[p].queue
                \/ (p[1] = n /\ wire'[p].queue \subseteq wire[p].queue \cup
                                    {[signer |-> n, ops |-> Unpublished(n)]})
             /\ wire'[p].answer \subseteq wire[p].answer
                \/ wire'[p].answer \subseteq doc[p[1]].ops
    PROVE  Causal' /\ AllAllowed' /\ ByTheHub'
  <1> USE DEF ShareInv
  <1> DEFINE e == [signer |-> n, ops |-> Unpublished(n)]
  <1>1. e.signer = n /\ e.ops \subseteq doc[n].ops
    BY DEF Unpublished
  <1>2. \A m \in Node : Held(m)' = Held(m) /\ doc[m].ops \subseteq Held(m)
    BY DEF Held
  <1>3. \A m, op : Allowed(m, op)' <=> Allowed(m, op)
    BY DEF Allowed
  <1>4. Host \in Node /\ Viewer \subseteq Node
    BY DEF Node
  <1> HIDE DEF e
  <1>5. ASSUME NEW p \in Links
        PROVE  /\ \A f \in wire'[p].queue : f \in wire[p].queue \/ (f = e /\ p[1] = n)
               /\ wire'[p].answer \subseteq wire[p].answer \/ wire'[p].answer \subseteq Held(p[1])
               /\ p[1] \in Node
    BY <1>2, LinkEnds DEF e
  <1>6. Causal'
    BY <1>1, <1>2, <1>5 DEF Causal, Made
  <1>7. AllAllowed'
    BY <1>1, <1>2, <1>3, <1>5 DEF AllAllowed
  <1>8. ByTheHub'
    BY <1>1, <1>2, <1>4, <1>5 DEF ByTheHub, HubFirst
  <1> QED
    BY <1>6, <1>7, <1>8

-----------------------------------------------------------------------------
\* Every action, one by one.
LEMMA ShareStep ==
    ASSUME ShareInv, [Next]_vars
    PROVE  ShareInv'
  <1> USE DEF ShareInv, Settings, OnlyDocs
  <1> DEFINE Same == \A n \in Node : doc'[n].ops = doc[n].ops /\ doc'[n].pend = doc[n].pend
  <1>0. Quiet \in Wire /\ [Quiet EXCEPT !.pusher = TRUE] \in Wire
    BY DEF Quiet, Wire
  <1>1. ASSUME NEW v \in Viewer, RosterChanges(v) PROVE ShareInv'
    <2>1. ShareTyped'
      BY <1>1, DocumentAssumption DEF RosterChanges, Fault, ShareTyped, Made
    <2> QED
      BY <1>1, <2>1, Quieter DEF RosterChanges, ShareTyped, Grown, Fewer
  <1>2. ASSUME NEW v \in Viewer, Join(v) \/ Leave(v) PROVE ShareInv'
    <2>1. v \in Node
      BY DEF Node
    <2>2. UNCHANGED <<hostOnly, roster, admitted, link, deps, wire>> /\ faults' \in 0..MaxFault
      BY <1>2, DocumentAssumption DEF Join, Leave, Fault, ShareTyped
    <2>3. doc' = [doc EXCEPT ![v].known = TRUE] \/ doc' = [doc EXCEPT ![v].known = FALSE]
      BY <1>2 DEF Join, Leave
    <2>4. ASSUME NEW b \in BOOLEAN, doc' = [doc EXCEPT ![v].known = b]
          PROVE  doc' \in [Node -> Row] /\ Same
      BY <2>1, <2>4 DEF ShareTyped, Row
    <2>5. doc' \in [Node -> Row] /\ Same
      BY <2>3, <2>4
    <2>6. ShareTyped'
      BY <2>2, <2>5 DEF ShareTyped, Made
    <2> QED
      BY <2>2, <2>5, <2>6, Quieter DEF ShareTyped, Grown, Fewer
  <1>3. ASSUME NEW v \in Viewer, Dial(v) \/ ConnectionLost(v) PROVE ShareInv'
    <2>1. UNCHANGED <<doc, deps, hostOnly, roster, admitted>>
      BY <1>3 DEF Dial, ConnectionLost
    <2>2. link' \in [Viewer -> {"none", "up", "down"}] /\ faults' \in 0..MaxFault
      BY <1>3, DocumentAssumption DEF Dial, ConnectionLost, Fault, ShareTyped
    <2>3. \/ wire' = wire
          \/ \E q \in Wire : /\ q.queue = {} /\ q.answer = {}
                             /\ wire' = [p \in Links |-> IF v \in {p[1], p[2]} THEN q ELSE wire[p]]
      BY <1>0, <1>3 DEF Dial, ConnectionLost, Quiet
    <2>4. Fewer(wire')
      BY <2>3 DEF Fewer, ShareTyped
    <2>5. ShareTyped'
      BY <2>1, <2>2, <2>4 DEF ShareTyped, Made, Fewer
    <2> QED
      BY <2>1, <2>4, <2>5, Quieter DEF Grown
  <1>4. ASSUME NEW n \in Node, Edit(n) PROVE ShareInv'
    BY <1>4, Edits
  <1>5. ASSUME NEW n \in Node, Publish(n) PROVE ShareInv'
    <2> DEFINE e == [signer |-> n, ops |-> Unpublished(n)]
    <2>1. /\ doc' = [doc EXCEPT ![n].published = @ \cup doc[n].ops]
          /\ wire' = Queued(n, Peer(n), e)
          /\ UNCHANGED <<link, deps, hostOnly, roster, admitted, faults>>
      BY <1>5 DEF Publish
    <2>2. doc' \in [Node -> Row] /\ Same
      BY <2>1 DEF ShareTyped, Row
    <2>3. e \in Envelope
      BY DEF Envelope, Unpublished, ShareTyped, Row
    <2>4. ASSUME NEW p \in Links
          PROVE  /\ wire'[p] \in Wire
                 /\ wire'[p].queue \subseteq wire[p].queue
                    \/ (p[1] = n /\ wire'[p].queue \subseteq wire[p].queue \cup {e})
                 /\ wire'[p].answer \subseteq wire[p].answer
      BY <2>1, <2>3 DEF Queued, ShareTyped, Wire
    <2>5. wire' \in [Links -> Wire]
      BY <2>1, <2>4 DEF Queued
    <2>6. ShareTyped'
      BY <2>1, <2>2, <2>5 DEF ShareTyped, Made
    <2> QED
      BY <2>1, <2>2, <2>4, <2>5, <2>6, Sends
  <1>6. ASSUME NEW p \in Links, Pushed(p) PROVE ShareInv'
    <2>1. PICK e \in wire[p].queue : Handled(p[2], e, [wire EXCEPT ![p].queue = @ \ {e}])
      BY <1>6 DEF Pushed
    <2>2. UNCHANGED <<link, deps, hostOnly, roster, admitted, faults>>
      BY <1>6 DEF Pushed
    <2>3. Fewer([wire EXCEPT ![p].queue = @ \ {e}]) /\ e \in Envelope
      BY DEF Fewer, ShareTyped, Wire
    <2>4. e.ops \subseteq Made /\ (\A op \in e.ops : Allowed(e.signer, op))
          /\ (p[2] # Host => e.ops \subseteq Held(Host)) /\ p[2] \in Node
      BY LinkEnds DEF Causal, AllAllowed, ByTheHub
    <2>5. /\ doc' \in [Node -> Row] /\ wire' \in [Links -> Wire]
          /\ Causal' /\ AllAllowed' /\ ByTheHub'
      BY <2>1, <2>2, <2>3, <2>4, Handles
    <2> QED
      BY <2>2, <2>5 DEF ShareTyped, Made
  <1>7. ASSUME NEW p \in Links, PusherLags(p) PROVE ShareInv'
    <2>1. PICK kept \in SUBSET wire[p].queue :
             wire' = [wire EXCEPT ![p].pusher = FALSE, ![p].queue = kept]
      BY <1>7 DEF PusherLags
    <2>2. UNCHANGED <<link, doc, deps, hostOnly, roster, admitted>> /\ faults' \in 0..MaxFault
      BY <1>7, DocumentAssumption DEF PusherLags, Fault, ShareTyped
    <2>3. Fewer(wire')
      BY <2>1 DEF Fewer, ShareTyped, Wire
    <2>4. ShareTyped'
      BY <2>2, <2>3 DEF ShareTyped, Made, Fewer
    <2> QED
      BY <2>2, <2>3, <2>4, Quieter DEF Grown
  <1>8. ASSUME NEW p \in Links, AntiEntropyAsks(p) PROVE ShareInv'
    <2>1. /\ wire' = [wire EXCEPT ![p].answer = Missing(p[1], p[2])]
          /\ UNCHANGED <<link, doc, deps, hostOnly, roster, admitted, faults>>
      BY <1>8 DEF AntiEntropyAsks
    <2>2. Missing(p[1], p[2]) \subseteq doc[p[1]].ops
      BY DEF Missing
    <2>3. wire' \in [Links -> Wire]
      <3>1. doc[p[1]].ops \in SUBSET Op
        BY LinkEnds DEF ShareTyped, Row
      <3> QED
        BY <2>1, <2>2, <3>1 DEF ShareTyped, Wire
    <2>4. ShareTyped'
      BY <2>1, <2>3 DEF ShareTyped, Made
    <2> QED
      BY <2>1, <2>2, <2>3, <2>4, Sends, LinkEnds DEF ShareTyped, Wire
  <1>9. ASSUME NEW p \in Links, AntiEntropyApplies(p) PROVE ShareInv'
    <2> DEFINE e == [signer |-> p[1], ops |-> wire[p].answer]
               w == [wire EXCEPT ![p].answer = {}]
    <2>1. Handled(p[2], e, w) /\ UNCHANGED <<link, deps, hostOnly, roster, admitted, faults>>
      BY <1>9 DEF AntiEntropyApplies
    <2>2. Fewer(w)
      BY DEF Fewer, ShareTyped, Wire
    <2>3. e \in Envelope /\ e.ops \subseteq Made /\ (\A op \in e.ops : Allowed(e.signer, op))
          /\ (p[2] # Host => e.ops \subseteq Held(Host)) /\ p[2] \in Node
      BY LinkEnds DEF Causal, AllAllowed, ByTheHub, Envelope, ShareTyped, Wire
    <2> HIDE DEF e, w
    <2>4. /\ doc' \in [Node -> Row] /\ wire' \in [Links -> Wire]
          /\ Causal' /\ AllAllowed' /\ ByTheHub'
      BY <2>1, <2>2, <2>3, Handles
    <2> QED
      BY <2>1, <2>4 DEF ShareTyped, Made
  <1>10. CASE UNCHANGED vars
    <2>1. ShareTyped'
      BY <1>10 DEF vars, ShareTyped, Made
    <2> QED
      BY <1>10, <2>1, Quieter DEF vars, ShareTyped, Grown, Fewer
  <1> QED
    BY <1>1, <1>2, <1>3, <1>4, <1>5, <1>6, <1>7, <1>8, <1>9, <1>10 DEF Next

LEMMA ShareInitOK == Init => ShareInv
  <1> SUFFICES ASSUME Init PROVE ShareInv
    OBVIOUS
  <1>1. PICK old \in SUBSET Viewer :
           doc = [n \in Node |-> [ops |-> IF n \in old \cup {Host} THEN {<<Host, 1>>} ELSE {},
                                  pend |-> {}, published |-> {}, known |-> n = Host]]
    BY DEF Init
  <1>2. <<Host, 1>> \in Op /\ Author(<<Host, 1>>) = Host /\ Host \in Node
    BY DocumentAssumption DEF Op, Author, Node
  <1>3. Made = {<<Host, 1>>} /\ deps[<<Host, 1>>] = {}
    BY DEF Init, Made
  <1>4. \A n \in Node : /\ Held(n) = doc[n].ops /\ doc[n].ops \subseteq {<<Host, 1>>}
    BY <1>1 DEF Held
  <1>5. doc[Host].ops = {<<Host, 1>>}
    BY <1>1, <1>2
  <1>6. \A p \in Links : wire[p].queue = {} /\ wire[p].answer = {}
    BY DEF Init, Quiet
  <1>7. doc \in [Node -> Row] /\ wire \in [Links -> Wire]
    BY <1>1, <1>2 DEF Init, Row, Wire, Quiet
  <1>8. ShareTyped
    BY <1>2, <1>3, <1>7, DocumentAssumption DEF ShareTyped, Init
  <1>9. Causal
    BY <1>3, <1>4, <1>6 DEF Causal
  <1>10. AllAllowed
    BY <1>2, <1>4, <1>6 DEF AllAllowed, Allowed
  <1>11. Viewer \subseteq Node
    BY DEF Node
  <1>12. ByTheHub
    BY <1>2, <1>4, <1>5, <1>6, <1>11 DEF ByTheHub, HubFirst
  <1> QED
    BY <1>8, <1>9, <1>10, <1>12 DEF ShareInv

\* The inductive invariant, for every instance.
THEOREM ShareInvariant == Spec => []ShareInv
  BY ShareInitOK, ShareStep, PTL DEF Spec

\* What a document holds was written by somebody who may, and one viewer's
\* operations are at another only when the host has them.
THEOREM AdmissionHolds == Spec => []AdmissionIsSound
  <1>1. ShareInv => AdmissionIsSound
    <2> SUFFICES ASSUME ShareInv PROVE AdmissionIsSound
      OBVIOUS
    <2>1. DocumentTypeOK
      BY DEF ShareInv, ShareTyped, DocumentTypeOK, Row, Wire
    <2>2. OnlyWritersReach
      BY DEF ShareInv, AllAllowed, Allowed, OnlyWritersReach
    <2> QED
      BY <2>1, <2>2 DEF ShareInv, ByTheHub, AdmissionIsSound
  <1> QED
    BY <1>1, ShareInvariant, PTL


-----------------------------------------------------------------------------
(***************************************************************************)
(* A correction of a translation stands, for any lanes and texts.  The     *)
(* invariant says why: the shadow of a corrected lane is known and is not  *)
(* the correction, which is what refresh_shared_session_from_facts tells   *)
(* the two apart by.                                                       *)
(***************************************************************************)

Block == [there : BOOLEAN, lane : [BlockLane -> TextOrBlank]]

LanesTyped ==
    /\ fact \in [BlockLane -> TextOrBlank]
    /\ block \in Block /\ file \in Block
    /\ shadow \in [BlockLane -> TextOrBlank \cup {Unknown}]
    /\ said \in [BlockLane -> Wording \cup {Unknown}]
    /\ firm \subseteq BlockLane

ToldApart ==
    \A l \in firm \ {Original} :
        /\ said[l] \in Wording /\ block.lane[l] = said[l]
        /\ shadow[l] \notin {Unknown, said[l]}

LanesInv == LanesTyped /\ ToldApart

(* A refresh leaves the texts and the shadows well formed.                 *)
LEMMA RefreshTyped ==
    ASSUME LanesTyped
    PROVE  /\ [l \in BlockLane |-> Written(l)] \in [BlockLane -> TextOrBlank]
           /\ Sighted \in [BlockLane -> TextOrBlank \cup {Unknown}]
           /\ ShadowAfter \in [BlockLane -> TextOrBlank \cup {Unknown}]
  <1>1. \A l \in BlockLane : Written(l) \in TextOrBlank
    BY DEF LanesTyped, Block, Written
  <1>2. \A l \in BlockLane : Sighted[l] \in TextOrBlank \cup {Unknown}
    BY DEF LanesTyped, Block, Sighted
  <1>3. \A l \in BlockLane : ShadowAfter[l] \in TextOrBlank \cup {Unknown}
    BY <1>1, <1>2 DEF ShadowAfter
  <1> QED
    BY <1>1, <1>2, <1>3 DEF Sighted, ShadowAfter

(* A refresh finds a corrected translation taken over: it writes what is   *)
(* there, and leaves its shadow as it is.                                   *)
LEMMA RefreshYields ==
    ASSUME LanesInv, NEW l \in firm \ {Original}
    PROVE  Written(l) = block.lane[l] /\ Sighted[l] = shadow[l] /\ ShadowAfter[l] = shadow[l]
  <1>1. /\ l \in BlockLane /\ l # Original
        /\ shadow[l] # Unknown /\ block.lane[l] \notin {Blank, shadow[l]}
    BY LanesAssumption DEF LanesInv, LanesTyped, ToldApart
  <1>2. ~FirstSeen(l) /\ (Incoming(l) => Frozen(l))
    BY <1>1 DEF FirstSeen, Frozen
  <1>3. Written(l) = block.lane[l]
    BY <1>1, <1>2 DEF Written
  <1>4. Sighted[l] = shadow[l]
    BY <1>1, <1>2 DEF Sighted
  <1>5. ShadowAfter[l] = shadow[l]
    BY <1>1, <1>2, <1>4 DEF ShadowAfter
  <1> QED
    BY <1>3, <1>4, <1>5

(* A correction is of a lane whose shadow is known and different, or the    *)
(* lane is not counted among the firm.                                      *)
LEMMA CorrectionKeeps ==
    ASSUME LanesInv, NEW l \in BlockLane, NEW t \in Wording, Corrected(l, t), UNCHANGED shadow,
           fact' \in [BlockLane -> TextOrBlank]
    PROVE  LanesInv'
  <1>1. /\ block' = [block EXCEPT !.lane = [@ EXCEPT ![l] = t]]
        /\ said' = [said EXCEPT ![l] = t]
        /\ file' \in {file, block'}
        /\ firm' = IF shadow[l] \in {Unknown, t} THEN firm \ {l} ELSE firm \cup {l}
    BY DEF Corrected, Persisted
  <1>2. /\ block'.there = block.there /\ block'.lane = [block.lane EXCEPT ![l] = t]
        /\ block' \in Block
    BY <1>1 DEF LanesInv, LanesTyped, Block, TextOrBlank
  <1>3. LanesTyped'
    BY <1>1, <1>2 DEF LanesInv, LanesTyped
  <1>4. ASSUME NEW m \in firm' \ {Original}
        PROVE  /\ said'[m] \in Wording /\ block'.lane[m] = said'[m]
               /\ shadow'[m] \notin {Unknown, said'[m]}
    <2>1. CASE m = l
      BY <1>1, <1>2, <2>1 DEF LanesInv, LanesTyped, Block
    <2>2. CASE m # l
      <3>1. m \in firm \ {Original} /\ m \in BlockLane
        BY <1>1, <2>2 DEF LanesInv, LanesTyped
      <3>2. said'[m] = said[m] /\ block'.lane[m] = block.lane[m]
        BY <1>1, <1>2, <2>2, <3>1 DEF LanesInv, LanesTyped, Block
      <3> QED
        BY <3>1, <3>2 DEF LanesInv, ToldApart
    <2> QED
      BY <2>1, <2>2
  <1> QED
    BY <1>3, <1>4 DEF LanesInv, ToldApart

LEMMA LanesStep == ASSUME LanesInv, [LanesNext]_laneVars PROVE LanesInv'
  <1>1. CASE Refresh
    <2> DEFINE result == [there |-> TRUE, lane |-> [l \in BlockLane |-> Written(l)]]
    <2>1. /\ block' \in {block, result} /\ file' \in {file, block'}
          /\ shadow' \in {Sighted, ShadowAfter}
          /\ UNCHANGED <<fact, said, firm>>
      BY <1>1 DEF Refresh, Persisted
    <2>2. result \in Block
      BY RefreshTyped DEF LanesInv, Block
    <2>3. LanesTyped'
      BY <2>1, <2>2, RefreshTyped DEF LanesInv, LanesTyped
    <2>4. ASSUME NEW l \in firm' \ {Original}
          PROVE  /\ said'[l] \in Wording /\ block'.lane[l] = said'[l]
                 /\ shadow'[l] \notin {Unknown, said'[l]}
      <3>1. l \in firm \ {Original} /\ l \in BlockLane
        BY <2>1 DEF LanesInv, LanesTyped
      <3>2. block'.lane[l] = block.lane[l] /\ shadow'[l] = shadow[l]
        BY <2>1, <3>1, RefreshYields
      <3> QED
        BY <2>1, <3>1, <3>2 DEF LanesInv, ToldApart
    <2> QED
      BY <2>3, <2>4 DEF LanesInv, ToldApart
  <1>2. CASE HostRestarts \/ DeleteShared
    <2>1. NoBlock \in Block
      BY DEF NoBlock, NoText, Block, TextOrBlank
    <2>2. /\ file' \in Block /\ block' \in Block /\ fact' = fact
          /\ shadow' = NoShadow /\ said' = NoShadow /\ firm' = {}
      BY <1>2, <2>1 DEF HostRestarts, DeleteShared, Forgotten, LanesInv, LanesTyped
    <2> QED
      BY <2>2 DEF NoShadow, LanesInv, LanesTyped, ToldApart
  <1>3. ASSUME NEW l \in BlockLane, FactComes(l) PROVE LanesInv'
    <2>1. fact' \in [BlockLane -> TextOrBlank]
      BY <1>3 DEF FactComes, LanesInv, LanesTyped, TextOrBlank
    <2> QED
      BY <1>3, <2>1 DEF FactComes, LanesInv, LanesTyped, ToldApart
  <1>4. ASSUME NEW l \in BlockLane, Correct(l) PROVE LanesInv'
    <2>1. PICK t \in Wording : Corrected(l, t)
      BY <1>4 DEF Correct
    <2>2. UNCHANGED shadow /\ fact' \in [BlockLane -> TextOrBlank]
      BY <1>4 DEF Correct, LanesInv, LanesTyped
    <2> QED
      BY <2>1, <2>2, CorrectionKeeps
  <1>5. ASSUME NEW l \in BlockLane, HostCorrects(l) PROVE LanesInv'
    <2>1. PICK t \in Wording : /\ fact' = [fact EXCEPT ![l] = t]
                               /\ (block.there /\ Corrected(l, t)) \/ UNCHANGED <<block, file, said, firm>>
      BY <1>5 DEF HostCorrects
    <2>2. UNCHANGED shadow /\ fact' \in [BlockLane -> TextOrBlank]
      BY <1>5, <2>1 DEF HostCorrects, LanesInv, LanesTyped, TextOrBlank
    <2>3. CASE Corrected(l, t)
      BY <2>2, <2>3, CorrectionKeeps
    <2>4. CASE UNCHANGED <<block, file, said, firm>>
      BY <2>2, <2>4 DEF LanesInv, LanesTyped, ToldApart
    <2> QED
      BY <2>1, <2>3, <2>4
  <1>6. CASE UNCHANGED laneVars
    BY <1>6 DEF laneVars, LanesInv, LanesTyped, ToldApart
  <1> QED
    BY <1>1, <1>2, <1>3, <1>4, <1>5, <1>6 DEF LanesNext

(* Whatever the order of facts, refreshes, corrections, restarts and        *)
(* deletions (refresh_shared_session_from_facts against the edits of the    *)
(* room): the shadow and a firm correction are told apart.                  *)
THEOREM LanesInvariant == LanesSpec => []LanesInv
  <1>1. LanesInit => LanesInv
    BY DEF LanesInit, LanesInv, LanesTyped, ToldApart, NoText, NoBlock, NoShadow, Block, TextOrBlank
  <1>2. LanesInv /\ [LanesNext]_laneVars => LanesInv'
    BY LanesStep
  <1> QED
    BY <1>1, <1>2, PTL DEF LanesSpec

(* In one life of the host, the correction of a translation the machine had *)
(* written is changed by persons only (shared_session_docs.rs:17-20, which   *)
(* says so of the source as well: MachineYields, which is not so).           *)
THEOREM TranslationsHold == LanesSpec => []TranslationsStand
  <1>1. LanesInv => TranslationsStand
    BY DEF LanesInv, ToldApart, TranslationsStand
  <1> QED
    BY <1>1, LanesInvariant, PTL
=============================================================================
