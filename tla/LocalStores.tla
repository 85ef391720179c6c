----------------------------- MODULE LocalStores -----------------------------
(***************************************************************************)
(* The stores of one machine that nothing but their own calls touch: the   *)
(* database while it is upgraded, the context packs in it, and the file of *)
(* content keys.  They share no state, so a behaviour here is one of one   *)
(* of them, with the others as an application just installed has them.     *)
(***************************************************************************)
EXTENDS PrivateFile, Sequences

CONSTANTS Lang, Region, Bare, Absent, MaxKill,                \* of Migration
          Caller, MaxPack, MaxSource, Text, Budget, MaxCall, Nothing \* of ContextPacks

VARIABLES db, app, at, kills
upgradeVars == <<db, app, at, kills>>
Upgrade == INSTANCE Migration WITH crashes <- kills, MaxCrash <- MaxKill

VARIABLES pack, source, bound, keys, made, lock, calling, shown, run, calls, faults
packVars == <<pack, source, bound, keys, made, lock, calling, shown, run, calls, faults>>
Packs == INSTANCE ContextPacks WITH call <- calling
ASSUME ContextAssumption == Packs!PacksAssumption

VARIABLE part       \* the store this behaviour is about

InitStores ==
    /\ part \in {"upgrade", "packs", "keys"}
    /\ FileInit
    /\ Upgrade!Init /\ (part # "upgrade" => db = Upgrade!Fresh)
    /\ Packs!Init /\ (part # "packs" => Packs!Fresh)

NextStores ==
    \/ part = "upgrade" /\ Upgrade!Next /\ UNCHANGED <<fileVars, packVars, part>>
    \/ part = "packs" /\ Packs!Next /\ UNCHANGED <<fileVars, upgradeVars, part>>
    \/ part = "keys" /\ FileNext /\ UNCHANGED <<upgradeVars, packVars, part>>

StoresSpec == InitStores /\ [][NextStores]_<<fileVars, upgradeVars, packVars, part>>

-----------------------------------------------------------------------------
(* What each module says of its store; see there.                          *)
UpgradeKeepsWork == Upgrade!UpgradeKeepsWork
ContextIsHonest == Packs!ContextIsHonest
KeysFollowPacks == Packs!KeysFollowPacks

-----------------------------------------------------------------------------
(* Values for a run: two threads of one process and one of another; texts  *)
(* with a list item that does not fit, a duplicate and a text to truncate. *)
TwoProcesses == {"p", "q"}
TwoThreads == {"t", "u"}
ThreeActors == {<<"p", "t">>, <<"p", "u">>, <<"q", "t">>}
TwoTexts == {<< <<"terms", "a", 3>>, <<"text", "b", 3>> >>,
             << <<"terms", "c", 2>>, <<"terms", "a", 3>> >>}
=============================================================================
