----------------------------- MODULE PrivateFile -----------------------------
(***************************************************************************)
(* The file of content keys (vt-crypto/src/private_file_store.rs and       *)
(* file_key_store.rs): one JSON document that threads of several processes *)
(* read and replace.  A transaction takes its process's gate, then a       *)
(* cross-process file lock; a writer reads the document under it, writes a *)
(* temporary file, syncs it and renames it over the document.  A process   *)
(* may be killed anywhere: the system drops its locks and its temporary    *)
(* file stays until a store is opened again.                               *)
(***************************************************************************)
EXTENDS Naturals, FiniteSets

CONSTANTS Process, Thread,
          Actor,                \* the threads of the processes that use the store
          Key,
          MaxFault,             \* bound: killed processes and failed writes
          Vacant                \* nobody

VARIABLES
    disk,     \* the references the document holds keys for
    temps,    \* temporary files: who wrote them, and what
    gate,     \* per process: the thread inside its process gate
    held,     \* who holds the file lock
    open,     \* the processes whose store is open
    call,     \* per thread of a process: its call
    failures

fileVars == <<disk, temps, gate, held, open, call, failures>>

Exclusive == {"open", "store", "delete"}
Working == {"read", "sweep", "temp", "rename", "unlock"}    \* inside the file lock
Step == {"gate", "lock", "leave"} \cup Working

ASSUME ActorAssumption ==
    /\ Actor \subseteq Process \X Thread
    /\ Vacant \notin Thread \cup Exclusive \cup Step \cup {"load"}
    /\ MaxFault \in Nat
Idle == [op |-> Vacant, pc |-> Vacant, key |-> Vacant, doc |-> {}]

FileInit ==
    /\ disk = {} /\ temps = {}
    /\ gate = [p \in Process |-> Vacant]
    /\ held = {}
    /\ open = {}
    /\ call = [a \in Actor |-> Idle]
    /\ failures = 0

At(a, pc) == call[a].pc = pc
Go(a, pc) == call' = [call EXCEPT ![a].pc = pc]
Temp(a) == [by |-> a, doc |-> call[a].doc]

(* FileKeyStore::new; store_key, delete_key and load_key of an open store. *)
Begin(a) ==
    /\ call[a] = Idle
    /\ IF a[1] \in open
       THEN \E op \in {"store", "delete", "load"}, k \in Key :
              call' = [call EXCEPT ![a] = [op |-> op, pc |-> "gate", key |-> k, doc |-> {}]]
       ELSE /\ \A b \in Actor : b[1] = a[1] => call[b] = Idle
            /\ call' = [call EXCEPT ![a].op = "open", ![a].pc = "gate"]
    /\ UNCHANGED <<disk, temps, gate, held, open, failures>>

EnterGate(a) ==
    /\ At(a, "gate") /\ gate[a[1]] = Vacant
    /\ gate' = [gate EXCEPT ![a[1]] = a[2]]
    /\ Go(a, "lock")
    /\ UNCHANGED <<disk, temps, held, open, failures>>

(* Mutant: writers share the file lock with readers and each other.        *)
AcquireShared(a) ==
    /\ At(a, "lock")
    /\ held' = held \cup {a}
    /\ Go(a, "read")
    /\ UNCHANGED <<disk, temps, gate, open, failures>>

(* Mutant: opening a store sweeps without the file lock.                   *)
AcquireUnlessOpening(a) ==
    /\ At(a, "lock")
    /\ call[a].op = "open" \/ \A b \in held : call[a].op \notin Exclusive /\ call[b].op \notin Exclusive
    /\ held' = held \cup {a}
    /\ Go(a, "read")
    /\ UNCHANGED <<disk, temps, gate, open, failures>>

(* acquire_file_lock of unix builds, which waits (flock).  In other builds  *)
(* it is a no-op, which is not modelled.                                    *)
Acquire(a) ==
    /\ At(a, "lock")
    /\ \A b \in held : call[a].op \notin Exclusive /\ call[b].op \notin Exclusive
    /\ held' = held \cup {a}
    /\ Go(a, "read")
    /\ UNCHANGED <<disk, temps, gate, open, failures>>

(* read_json: a call that changes nothing is done.  Opening only sweeps.   *)
ReadDocument(a) ==
    LET c == call[a]
        doc == CASE c.op = "store" -> disk \cup {c.key}
                 [] c.op = "delete" -> disk \ {c.key}
                 [] OTHER -> disk
        done == c.op = "load" \/ (c.op = "delete" /\ c.key \notin disk)
    IN  /\ At(a, "read")
        /\ call' = [call EXCEPT ![a].doc = doc,
                      ![a].pc = IF done THEN "unlock" ELSE IF c.op = "open" THEN "sweep" ELSE "temp"]
        /\ UNCHANGED <<disk, temps, gate, held, open, failures>>

(* remove_safe_stale_temporary_files.                                      *)
Sweep(a) ==
    /\ At(a, "sweep")
    /\ temps' = {}
    /\ Go(a, "unlock")
    /\ UNCHANGED <<disk, gate, held, open, failures>>

(* write_json up to the sync of the temporary file.                        *)
WriteTemp(a) ==
    /\ At(a, "temp")
    /\ temps' = temps \cup {Temp(a)}
    /\ Go(a, "rename")
    /\ UNCHANGED <<disk, gate, held, open, failures>>

(* The rename is the commit.                                               *)
Commit(a) ==
    /\ At(a, "rename") /\ Temp(a) \in temps
    /\ disk' = call[a].doc
    /\ temps' = temps \ {Temp(a)}
    /\ Go(a, "unlock")
    /\ UNCHANGED <<gate, held, open, failures>>

(* A write that fails takes its temporary file away, if it can.            *)
WriteFails(a) ==
    /\ At(a, "rename") /\ failures < MaxFault
    /\ failures' = failures + 1
    /\ \E removed \in BOOLEAN : temps' = IF removed THEN temps \ {Temp(a)} ELSE temps
    /\ Go(a, "unlock")
    /\ UNCHANGED <<disk, gate, held, open>>

(* The transaction is dropped: the file lock first, then the gate.         *)
Unlock(a) ==
    /\ At(a, "unlock")
    /\ held' = held \ {a}
    /\ call' = [call EXCEPT ![a] = [Idle EXCEPT !.op = call[a].op, !.pc = "leave"]]
    /\ UNCHANGED <<disk, temps, gate, open, failures>>
LeaveGate(a) ==
    /\ At(a, "leave")
    /\ gate' = [gate EXCEPT ![a[1]] = Vacant]
    /\ open' = IF call[a].op = "open" THEN open \cup {a[1]} ELSE open
    /\ call' = [call EXCEPT ![a] = Idle]
    /\ UNCHANGED <<disk, temps, held, failures>>

Kill(p) ==
    /\ failures < MaxFault
    /\ failures' = failures + 1
    /\ call' = [a \in Actor |-> IF a[1] = p THEN Idle ELSE call[a]]
    /\ gate' = [gate EXCEPT ![p] = Vacant]
    /\ held' = {a \in held : a[1] # p}
    /\ open' = open \ {p}
    /\ UNCHANGED <<disk, temps>>

FileNext ==
    \/ \E p \in Process : Kill(p)
    \/ \E a \in Actor :
         \/ Begin(a) \/ EnterGate(a) \/ Acquire(a) \/ ReadDocument(a) \/ Sweep(a)
         \/ WriteTemp(a) \/ Commit(a) \/ WriteFails(a) \/ Unlock(a) \/ LeaveGate(a)

FileSpec == FileInit /\ [][FileNext]_fileVars

-----------------------------------------------------------------------------
FileTypeOK ==
    /\ disk \subseteq Key
    /\ temps \subseteq [by : Actor, doc : SUBSET Key]
    /\ gate \in [Process -> Thread \cup {Vacant}]
    /\ held \subseteq Actor /\ open \subseteq Process
    /\ call \in [Actor -> [op : Exclusive \cup {"load", Vacant}, pc : Step \cup {Vacant},
                          key : Key \cup {Vacant}, doc : SUBSET Key]]
    /\ failures \in 0..MaxFault

(* The store is the map its callers take it for: whatever threads and      *)
(* processes do at once, and wherever one is killed, the document changes  *)
(* by one call's key at a time, so no key another call stored is lost and  *)
(* none that was deleted comes back.  It is about the gate, the file lock  *)
(* and the re-read inside them.                                            *)
Map == INSTANCE KeyMap WITH keys <- disk
KeepsEveryKey == Map!Spec

(* A sweep takes no temporary file a live writer is about to rename; with  *)
(* the lock free, the only ones left are a killed process's or those a     *)
(* failed write could not remove.                                          *)
SweepSparesTheLiving ==
    /\ \A a \in Actor : At(a, "rename") => Temp(a) \in temps
    /\ held = {} /\ failures = 0 => temps = {}
=============================================================================
