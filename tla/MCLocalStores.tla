---------------------------- MODULE MCLocalStores ----------------------------
(***************************************************************************)
(* Everything small that is kept beside a recording: the stores of one     *)
(* machine (LocalStores), a list of a document and the mirror's copy of it *)
(* (Mirror), the block of a shared recording at its host (SharedLanes),    *)
(* and the journal of what is left at the speech provider                  *)
(* (RemoteArtifacts).  They share no state, so a behaviour here is one of  *)
(* one of them.                                                            *)
(***************************************************************************)
EXTENDS LocalStores, SharedLanes, RemoteArtifacts, TLC

CONSTANTS Id, MaxItem, MaxStored      \* of Mirror; its texts are those of the lanes
VARIABLES kind, stored, state, setting
listVars == <<kind, stored, state, setting>>
Lists == INSTANCE Mirror WITH Text <- Wording, call <- setting

VARIABLE which      \* what this behaviour is about

storeVars == <<fileVars, upgradeVars, packVars, part>>
AtRest == db = Upgrade!Fresh /\ Packs!Fresh /\ part = "keys"

KeptInit ==
    /\ which \in {"stores", "list", "lanes", "provider"}
    /\ InitStores /\ (which # "stores" => AtRest)
    /\ Lists!MirrorInit /\ (which # "list" => kind = "keyed")
    /\ LanesInit /\ ArtifactInit

KeptNext ==
    \/ /\ which = "stores" /\ NextStores
       /\ UNCHANGED <<listVars, laneVars, journalVars, which>>
    \/ /\ which = "list" /\ Lists!MirrorNext
       /\ UNCHANGED <<storeVars, laneVars, journalVars, which>>
    \/ /\ which = "lanes" /\ LanesNext
       /\ UNCHANGED <<storeVars, listVars, journalVars, which>>
    \/ /\ which = "provider" /\ ArtifactNext
       /\ UNCHANGED <<storeVars, listVars, laneVars, which>>

KeptSpec == KeptInit /\ [][KeptNext]_<<storeVars, listVars, laneVars, journalVars, which>>

(* What a document holds is what was meant: after every write of the mirror *)
(* the stored list is the state it was given, and in the shared copy of a   *)
(* recording a correction of a translation stands whatever the machine      *)
(* writes later.  See Mirror, SharedLanes.                                   *)
DocumentsAreFaithful == Lists!MirrorIsFaithful /\ TranslationsStand

(* The ids of a list are alike, and so are the two texts, keys, callers and *)
(* jobs; as no behaviour is about two of these kinds, an exchange of two    *)
(* ids may exchange all the others with it.                                 *)
Pairs == {Wording, Key, Caller, Job}
OtherOf(x) == CHOOSE y \in CHOOSE pair \in Pairs : x \in pair : y # x
IsExchange(p) == Cardinality({ x \in Id : p[x] # x }) = 2
Names == { [x \in Id \cup UNION Pairs |->
              IF x \in Id THEN p[x] ELSE IF IsExchange(p) THEN OtherOf(x) ELSE x]
           : p \in Permutations(Id) }
=============================================================================
