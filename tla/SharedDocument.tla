---------------------------- MODULE SharedDocument --------------------------
(***************************************************************************)
(* The document of one shared recording, held by its host and by every     *)
(* viewer, and exchanged over one QUIC connection per viewer: pushes,      *)
(* the host's relay, anti-entropy, and the admission every update passes   *)
(* (vt-share/src/net.rs, docsync.rs, permission.rs,                        *)
(* vt-ffi/src/shared_session_docs.rs, vt-store/src/block_guard.rs).        *)
(* The roster comes from SharedRoom; here the host's may change at any     *)
(* time, and a viewer's may lag behind it as far as it likes.              *)
(*                                                                         *)
(* A document is the set of operations it has integrated; an operation     *)
(* depends on everything its author had integrated.  Operations that came  *)
(* too early wait in pend (Loro does the same and reports success).        *)
(***************************************************************************)
EXTENDS Integers, FiniteSets

CONSTANTS Host, Viewer,
          Writer,      \* bound: the nodes that edit
          MaxEdit,     \* bound: operations of one node
          MaxFault     \* bound: roster changes, lags, losses, departures

Node == {Host} \cup Viewer
ASSUME DocumentAssumption ==
    /\ Host \notin Viewer /\ IsFiniteSet(Viewer) /\ Writer \subseteq Node
    /\ MaxEdit \in Nat \ {0} /\ MaxFault \in Nat

Op == (Writer \cup {Host}) \X (1..MaxEdit)
Author(op) == op[1]
Links == {p \in Node \X Node : Host \in {p[1], p[2]} /\ p[1] # p[2]}
Peer(n) == {m \in Node : <<n, m>> \in Links}

VARIABLES
    hostOnly,  \* the write policy of the share code
    roster,    \* the viewers in the roster the host admits by
    admitted,  \* history: the viewers that ever were
    link,      \* per viewer: its one document connection to the host
    doc,       \* per node: integrated and waiting operations, known, published
    deps,      \* per operation made: what its author had integrated
    wire,      \* per direction of a link: pushed envelopes, the pusher, answer
    faults     \* faults so far

vars == <<hostOnly, roster, admitted, link, doc, deps, wire, faults>>

Envelope == [signer : Node, ops : SUBSET Op]
Made == DOMAIN deps

DocumentTypeOK ==
    /\ hostOnly \in BOOLEAN
    /\ roster \subseteq admitted /\ admitted \subseteq Viewer
    /\ link \in [Viewer -> {"none", "up", "down"}]
    /\ \A n \in Node : doc[n] \in [ops : SUBSET Op, pend : SUBSET Op,
                                   published : SUBSET Op, known : BOOLEAN]
    /\ Made \subseteq Op
    /\ \A p \in Links : /\ wire[p].queue \subseteq Envelope
                        /\ wire[p].pusher \in BOOLEAN
                        /\ wire[p].answer \in SUBSET Op
    /\ faults \in 0..MaxFault

Quiet == [queue |-> {}, pusher |-> FALSE, answer |-> {}]

(* The host shares a recording it has already transcribed (its first       *)
(* operation).  A viewer may hold a copy it received in an earlier room;   *)
(* what a process has published is not remembered across its start.        *)
Init ==
    /\ hostOnly \in BOOLEAN
    /\ roster = {} /\ admitted = {}
    /\ link = [v \in Viewer |-> "none"]
    /\ \E old \in SUBSET Viewer :
         /\ Cardinality(old) <= 1
         /\ doc = [n \in Node |->
                     [ops |-> IF n \in old \cup {Host} THEN {<<Host, 1>>}
                              ELSE {},
                      pend |-> {}, published |-> {}, known |-> n = Host]]
    /\ deps = [op \in {<<Host, 1>>} |-> {}]
    /\ wire = [p \in Links |-> Quiet]
    /\ faults = 0

Fault == faults < MaxFault /\ faults' = faults + 1

(* The host's roster follows the room: Hello, Goodbye, a lost neighbour.   *)
RosterChanges(v) ==
    /\ \/ v \notin roster /\ roster' = roster \cup {v} /\ UNCHANGED faults
       \/ v \in roster /\ roster' = roster \ {v} /\ Fault
    /\ admitted' = admitted \cup roster'
    /\ UNCHANGED <<hostOnly, link, doc, deps, wire>>

(* join_share registers the document before anything may arrive.           *)
Join(v) ==
    /\ link[v] = "none" /\ ~doc[v].known
    /\ doc' = [doc EXCEPT ![v].known = TRUE]
    /\ UNCHANGED <<hostOnly, roster, admitted, link, deps, wire, faults>>

(* stop_sharing of a viewer: it forgets the document's registration; the   *)
(* context and the connection stay.                                        *)
Leave(v) ==
    /\ link[v] # "none" /\ doc[v].known /\ Fault
    /\ doc' = [doc EXCEPT ![v].known = FALSE]
    /\ UNCHANGED <<hostOnly, roster, admitted, link, deps, wire>>

-----------------------------------------------------------------------------
(* Everything whose history is complete; deps is transitive.               *)
Settled(ops) == {op \in ops : deps[op] \subseteq ops}
Merged(d, ops) == Settled(d.ops \cup d.pend \cup ops)

(* The roster node n goes by: a viewer's is what the last broadcast it got *)
(* said, of whomever the host had let in; the host is always a member.     *)
RosterOf(n) == IF n = Host THEN {roster} ELSE SUBSET admitted
(* Mutant: any member writes, whatever the policy of the room.             *)
MayWriteOfMembers(r, who) == who = Host \/ who \in r
MayWrite(r, who) == who = Host \/ (who \in r /\ ~hostOnly)

(* admit_block_update, on a copy: only the host's operations create blocks *)
(* of the recording, and nobody else may bring one the node lacks.         *)
TouchesCapture(n, ops) ==
    \E op \in Merged(doc[n], ops) \ doc[n].ops : Author(op) = Host

(* handle_incoming_update: scope, author, policy, boundary.                *)
Admits(n, r, e) ==
    /\ doc[n].known
    /\ MayWrite(r, e.signer)
    /\ e.signer = Host \/ ~TouchesCapture(n, e.ops)

(* SharedDocSync::apply: what the import brought counts as published; so   *)
(* does a local edit that fell between its two looks at the version.       *)
Imported(n, ops) ==
    LET all == Merged(doc[n], ops)
    IN  \E own \in {{}, doc[n].ops \ doc[n].published} :
          doc' = [doc EXCEPT ![n] =
                    [ops |-> all, pend |-> (doc[n].pend \cup ops) \ all,
                     published |-> doc[n].published \cup (all \ doc[n].ops) \cup own,
                     known |-> doc[n].known]]

Queued(n, to, e) ==
    [p \in Links |->
       IF p[1] = n /\ p[2] \in to /\ wire[p].pusher
       THEN [wire[p] EXCEPT !.queue = @ \cup {e}] ELSE wire[p]]

(* What becomes of one received envelope, once it is off the wire w.  The  *)
(* host passes an admitted one on, as it came, to every viewer.            *)
Relays(n) == n = Host
Handled(n, e, w) ==
    \E r \in RosterOf(n) :
       IF Admits(n, r, e)
       THEN /\ Imported(n, e.ops)
            /\ wire' = [p \in Links |->
                 IF Relays(n) /\ p[1] = n /\ w[p].pusher
                 THEN [w[p] EXCEPT !.queue = @ \cup {e}] ELSE w[p]]
       ELSE UNCHANGED doc /\ wire' = w

Settings == UNCHANGED <<hostOnly, roster, admitted>>
OnlyDocs == Settings /\ UNCHANGED faults

(* sync_document_with, once per join; refused while the host has no        *)
(* context, and nobody dials again.                                        *)
Dial(v) ==
    /\ link[v] = "none" /\ doc[v].known
    /\ \/ /\ link' = [link EXCEPT ![v] = "up"]
          /\ wire' = [p \in Links |-> IF v \in {p[1], p[2]}
                        THEN [Quiet EXCEPT !.pusher = TRUE] ELSE wire[p]]
          /\ UNCHANGED faults
       \/ link' = [link EXCEPT ![v] = "down"] /\ UNCHANGED wire /\ Fault
    /\ UNCHANGED <<doc, deps>> /\ Settings

ConnectionLost(v) ==
    /\ link[v] = "up" /\ Fault
    /\ link' = [link EXCEPT ![v] = "down"]
    /\ wire' = [p \in Links |-> IF v \in {p[1], p[2]} THEN Quiet ELSE wire[p]]
    /\ UNCHANGED <<doc, deps>> /\ Settings

(* A verb of the shared document commits; it needs a block to correct.     *)
Edit(n) ==
    /\ n \in Writer /\ <<Host, 1>> \in doc[n].ops
    /\ \E i \in 1..MaxEdit :
         /\ <<n, i>> \notin Made /\ \A j \in 1..(i - 1) : <<n, j>> \in Made
         /\ deps' = [op \in Made \cup {<<n, i>>} |->
                       IF op = <<n, i>> THEN doc[n].ops ELSE deps[op]]
         /\ doc' = [doc EXCEPT ![n].ops = @ \cup {<<n, i>>}]
    /\ UNCHANGED <<link, wire>> /\ OnlyDocs

(* publish_shared_session: everything since the last time, to every pusher.*)
Unpublished(n) == doc[n].ops \ doc[n].published
Publish(n) ==
    /\ Unpublished(n) # {}
    /\ doc' = [doc EXCEPT ![n].published = @ \cup doc[n].ops]
    /\ wire' = Queued(n, Peer(n), [signer |-> n, ops |-> Unpublished(n)])
    /\ UNCHANGED <<link, deps>> /\ OnlyDocs

(* An update stream reaches the reader at the other end.                   *)
Pushed(p) ==
    \E e \in wire[p].queue :
       /\ Handled(p[2], e, [wire EXCEPT ![p].queue = @ \ {e}])
       /\ UNCHANGED <<link, deps>> /\ OnlyDocs

(* A pusher that fell behind its channel ends; what it missed it missed.   *)
PusherLags(p) ==
    /\ wire[p].queue # {} /\ wire[p].pusher /\ Fault
    /\ \E kept \in SUBSET wire[p].queue :
         /\ kept # wire[p].queue
         /\ wire' = [wire EXCEPT ![p].pusher = FALSE, ![p].queue = kept]
    /\ UNCHANGED <<link, doc, deps>> /\ Settings

(* Anti-entropy: every two seconds each end declares its versions, and the *)
(* other answers with what is missing, sealed with its own name.  A viewer *)
(* that left declares nothing and answers nothing.                         *)
LinkUp(p) == \A v \in Viewer \cap {p[1], p[2]} : link[v] = "up"
Missing(from, to) ==
    IF doc[from].known
    THEN doc[from].ops \ (IF doc[to].known THEN doc[to].ops ELSE {}) ELSE {}

(* Mutant: only the side that dialled reconciles versions.                 *)
ProbesOfDialler(n) == n # Host
Probes(n) == TRUE
AntiEntropyAsks(p) ==
    /\ LinkUp(p) /\ Probes(p[2])
    /\ wire[p].answer = {} /\ Missing(p[1], p[2]) # {}
    /\ wire' = [wire EXCEPT ![p].answer = Missing(p[1], p[2])]
    /\ UNCHANGED <<link, doc, deps>> /\ OnlyDocs

AntiEntropyApplies(p) ==
    /\ wire[p].answer # {}
    /\ Handled(p[2], [signer |-> p[1], ops |-> wire[p].answer],
               [wire EXCEPT ![p].answer = {}])
    /\ UNCHANGED <<link, deps>> /\ OnlyDocs

-----------------------------------------------------------------------------
Next ==
    \/ \E v \in Viewer :
         RosterChanges(v) \/ Join(v) \/ Leave(v) \/ Dial(v) \/ ConnectionLost(v)
    \/ \E n \in Node : Edit(n) \/ Publish(n)
    \/ \E p \in Links :
         \/ Pushed(p) \/ PusherLags(p)
         \/ AntiEntropyAsks(p) \/ AntiEntropyApplies(p)

(* The only fairness: while a connection is up, its anti-entropy tasks run.*)
Fairness ==
    \A p \in Links : WF_vars(AntiEntropyAsks(p) \/ AntiEntropyApplies(p))

Spec == Init /\ [][Next]_vars /\ Fairness

-----------------------------------------------------------------------------
Held(n) == doc[n].ops \cup doc[n].pend

(* What a document holds of others was written by the host, or, where      *)
(* everyone may edit, by somebody the host had let in: an edit refused by  *)
(* handle_incoming_update never travels on, by any way round.              *)
OnlyWritersReach ==
    \A n \in Node : \A op \in Held(n) :
       Author(op) \in {n, Host} \/ (~hostOnly /\ Author(op) \in admitted)

(* apply_incoming relays after the merge, and viewers are not connected to *)
(* each other: nothing of one viewer is at another before it is at the     *)
(* host, whatever was lost or came too early.                              *)
HubFirst ==
    \A v \in Viewer : \A op \in Held(v) : Author(op) = v \/ op \in Held(Host)

AdmissionIsSound == DocumentTypeOK /\ OnlyWritersReach /\ HubFirst

(* Whatever pushes were lost, lagged, refused on a stale roster or         *)
(* swallowed by the watermark: an edit of a viewer the host admits reaches *)
(* the host, and what the host has reaches every viewer, while they stay   *)
(* connected (the comment on ANTI_ENTROPY_INTERVAL).  A document loses no   *)
(* operation, so to be owed one again and again is to be owed it for ever. *)
Cut(v) == link[v] # "up" \/ ~doc[v].known
EveryEditArrives ==
    \A v \in Viewer : \A op \in Op :
       []<>(IF Author(op) = v
            THEN op \in doc[v].ops =>
                    (op \in doc[Host].ops \/ Cut(v) \/ ~MayWrite(roster, v))
            ELSE op \in doc[Host].ops => (op \in doc[v].ops \/ Cut(v)))

=============================================================================
