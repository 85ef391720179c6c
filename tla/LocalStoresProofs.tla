------------------------- MODULE LocalStoresProofs -------------------------
(***************************************************************************)
(* Proofs about the stores of one machine, for any processes, threads and  *)
(* callers, any references, tags and texts, and any number of kills and    *)
(* failures.                                                               *)
(*                                                                         *)
(* The file of content keys is the map KeyMap its callers take it for, and *)
(* a sweep spares the temporary file of a live writer: the file lock is    *)
(* held by one writer or by readers only, so between a writer's read and   *)
(* its rename nobody else renames, and what it is about to put in place is *)
(* still the document with its one key added or taken away.                *)
(*                                                                         *)
(* An upgrade keeps the user's work: which objects a database has tells    *)
(* what its row, its lanes and its correction look like, and every         *)
(* migration takes one such shape to the next, wherever the process dies.  *)
(*                                                                         *)
(* The keys of the context packs follow their packs: at every step of      *)
(* every call either a pack has a key exactly while it is active, or one   *)
(* call is on its way from the one to the other and no other call makes,   *)
(* deletes or gives up the same pack.                                      *)
(***************************************************************************)
EXTENDS LocalStores, TLAPS

-----------------------------------------------------------------------------
(* The file of content keys.                                               *)

(* The file lock is held by whoever is between acquire_file_lock and the   *)
(* drop of the transaction, a writer alone.                                *)
LockIsHeld ==
    /\ \A a \in Actor : a \in held <=> call[a].pc \in Working
    /\ \A a, b \in held : a # b => call[a].op \notin Exclusive

(* A writer past its read carries the document with its one change.        *)
WriterIsCurrent ==
    \A a \in Actor :
        /\ call[a].pc = "sweep" => call[a].op = "open"
        /\ call[a].pc \in {"temp", "rename"} =>
              /\ call[a].key \in Key
              /\ \/ call[a].op = "store" /\ call[a].doc = disk \cup {call[a].key}
                 \/ call[a].op = "delete" /\ call[a].doc = disk \ {call[a].key}

(* A call inside the file has an operation, and a key unless it opens.     *)
CallIsWhole ==
    \A a \in Actor :
        call[a].pc \in {"gate", "lock", "read"} =>
            /\ call[a].op # Vacant
            /\ call[a].op # "open" => call[a].key \in Key

(* Every writer about to rename has its temporary file, and until something *)
(* fails there is no other.                                                *)
TempsAreTheirs ==
    /\ \A a \in Actor : At(a, "rename") => Temp(a) \in temps
    /\ failures = 0 => \A t \in temps : \E a \in Actor : At(a, "rename") /\ t = Temp(a)

FileInv == FileTypeOK /\ LockIsHeld /\ WriterIsCurrent /\ CallIsWhole /\ TempsAreTheirs
-----------------------------------------------------------------------------
ActorStep(a) ==
    \/ Begin(a) \/ EnterGate(a) \/ Acquire(a) \/ ReadDocument(a) \/ Sweep(a)
    \/ WriteTemp(a) \/ Commit(a) \/ WriteFails(a) \/ Unlock(a) \/ LeaveGate(a)

USE DEF Exclusive, Working, Step, At, Go, Idle

(* Of an actor's thread and process.                                       *)
LEMMA ActorParts == \A a \in Actor : a[1] \in Process /\ a[2] \in Thread
BY ActorAssumption

(* An actor's step changes its own call only.                              *)
LEMMA OwnCallOnly ==
  ASSUME FileTypeOK, NEW a \in Actor, ActorStep(a)
  PROVE  \A b \in Actor : b # a => call'[b] = call[b]
BY DEF FileTypeOK, ActorStep, Begin, EnterGate, Acquire, ReadDocument, Sweep, WriteTemp, Commit,
       WriteFails, Unlock, LeaveGate

(* Where each step starts and where it leads.                              *)
LEMMA Moves ==
  ASSUME FileTypeOK, NEW a \in Actor
  PROVE  /\ Begin(a) => call[a].pc = Vacant /\ call'[a].pc \in {"gate"}
         /\ EnterGate(a) => call[a].pc = "gate" /\ call'[a].pc \in {"lock"}
         /\ Acquire(a) => call[a].pc = "lock" /\ call'[a].pc \in {"read"}
         /\ ReadDocument(a) => call[a].pc = "read" /\ call'[a].pc \in {"unlock", "sweep", "temp"}
         /\ Sweep(a) => call[a].pc = "sweep" /\ call'[a].pc \in {"unlock"}
         /\ WriteTemp(a) => call[a].pc = "temp" /\ call'[a].pc \in {"rename"}
         /\ Commit(a) => call[a].pc = "rename" /\ call'[a].pc \in {"unlock"}
         /\ WriteFails(a) => call[a].pc = "rename" /\ call'[a].pc \in {"unlock"}
         /\ Unlock(a) => call[a].pc = "unlock" /\ call'[a].pc \in {"leave"}
         /\ LeaveGate(a) => call[a].pc = "leave" /\ call'[a].pc \in {Vacant}
<1>1. Begin(a) => call[a].pc = Vacant /\ call'[a].pc \in {"gate"}
  BY DEF Begin, FileTypeOK
<1>2. EnterGate(a) => call[a].pc = "gate" /\ call'[a].pc \in {"lock"}
  BY DEF EnterGate, FileTypeOK
<1>3. Acquire(a) => call[a].pc = "lock" /\ call'[a].pc \in {"read"}
  BY DEF Acquire, FileTypeOK
<1>4. ReadDocument(a) => call[a].pc = "read" /\ call'[a].pc \in {"unlock", "sweep", "temp"}
  BY DEF ReadDocument, FileTypeOK
<1>5. Sweep(a) => call[a].pc = "sweep" /\ call'[a].pc \in {"unlock"}
  BY DEF Sweep, FileTypeOK
<1>6. WriteTemp(a) => call[a].pc = "temp" /\ call'[a].pc \in {"rename"}
  BY DEF WriteTemp, FileTypeOK
<1>7. Commit(a) => call[a].pc = "rename" /\ call'[a].pc \in {"unlock"}
  BY DEF Commit, FileTypeOK
<1>8. WriteFails(a) => call[a].pc = "rename" /\ call'[a].pc \in {"unlock"}
  BY DEF WriteFails, FileTypeOK
<1>9. Unlock(a) => call[a].pc = "unlock" /\ call'[a].pc \in {"leave"}
  BY DEF Unlock, FileTypeOK
<1>10. LeaveGate(a) => call[a].pc = "leave" /\ call'[a].pc \in {Vacant}
  BY DEF LeaveGate, FileTypeOK
<1> QED
  BY <1>1, <1>2, <1>3, <1>4, <1>5, <1>6, <1>7, <1>8, <1>9, <1>10

(* Every step of the store keeps the types.                                *)
LEMMA FileTypeStep == FileTypeOK /\ [FileNext]_fileVars => FileTypeOK'
<1> SUFFICES ASSUME FileTypeOK, [FileNext]_fileVars PROVE FileTypeOK'
  OBVIOUS
<1> USE ActorAssumption, ActorParts DEF FileTypeOK
<1>1. ASSUME NEW p \in Process, Kill(p) PROVE FileTypeOK'
  BY <1>1 DEF Kill
<1>2. ASSUME NEW a \in Actor, Begin(a) PROVE FileTypeOK'
  BY <1>2 DEF Begin
<1>3. ASSUME NEW a \in Actor, EnterGate(a) PROVE FileTypeOK'
  BY <1>3 DEF EnterGate
<1>4. ASSUME NEW a \in Actor, Acquire(a) PROVE FileTypeOK'
  BY <1>4 DEF Acquire
<1>5. ASSUME NEW a \in Actor, Sweep(a) PROVE FileTypeOK'
  BY <1>5 DEF Sweep
<1>6. ASSUME NEW a \in Actor, ReadDocument(a) PROVE FileTypeOK'
  BY <1>6 DEF ReadDocument
<1>7. ASSUME NEW a \in Actor, WriteTemp(a) PROVE FileTypeOK'
  <2>1. Temp(a) \in [by : Actor, doc : SUBSET Key]
    BY DEF Temp
  <2>2. call' \in [Actor -> [op : Exclusive \cup {"load", Vacant}, pc : Step \cup {Vacant},
                             key : Key \cup {Vacant}, doc : SUBSET Key]]
    BY <1>7 DEF WriteTemp
  <2> QED
    BY <1>7, <2>1, <2>2 DEF WriteTemp
<1>8. ASSUME NEW a \in Actor, Commit(a) PROVE FileTypeOK'
  BY <1>8 DEF Commit, Temp
<1>9. ASSUME NEW a \in Actor, WriteFails(a) PROVE FileTypeOK'
  BY <1>9 DEF WriteFails, Temp
<1>10. ASSUME NEW a \in Actor, Unlock(a) PROVE FileTypeOK'
  <2>1. call' \in [Actor -> [op : Exclusive \cup {"load", Vacant}, pc : Step \cup {Vacant},
                             key : Key \cup {Vacant}, doc : SUBSET Key]]
    BY <1>10 DEF Unlock
  <2>2. held' \subseteq Actor /\ UNCHANGED <<disk, temps, gate, open, failures>>
    BY <1>10 DEF Unlock
  <2> QED
    BY <2>1, <2>2
<1>11. ASSUME NEW a \in Actor, LeaveGate(a) PROVE FileTypeOK'
  BY <1>11 DEF LeaveGate
<1>12. CASE UNCHANGED fileVars
  BY <1>12 DEF fileVars
<1> QED
  BY <1>1, <1>2, <1>3, <1>4, <1>5, <1>6, <1>7, <1>8, <1>9, <1>10, <1>11, <1>12 DEF FileNext
(* Every step keeps who holds the file lock.                               *)
LEMMA LockStep == FileTypeOK /\ CallIsWhole /\ LockIsHeld /\ [FileNext]_fileVars => LockIsHeld'
<1> SUFFICES ASSUME FileTypeOK, CallIsWhole, LockIsHeld, [FileNext]_fileVars PROVE LockIsHeld'
  OBVIOUS
<1> USE ActorAssumption DEF LockIsHeld
<1>1. ASSUME NEW p \in Process, Kill(p) PROVE LockIsHeld'
  BY <1>1 DEF Kill, FileTypeOK
<1>2. ASSUME NEW a \in Actor, ActorStep(a) PROVE LockIsHeld'
  <2>1. \A b \in Actor : b # a => call'[b] = call[b]
    BY <1>2, OwnCallOnly
  <2>2. held \subseteq Actor
    BY DEF FileTypeOK
  <2>3. CASE Begin(a)
    <3>1. call[a].pc = Vacant /\ call'[a].pc = "gate" /\ held' = held
      BY <2>3 DEF Begin, FileTypeOK
    <3> QED
      BY <2>1, <2>2, <3>1
  <2>4. CASE EnterGate(a)
    <3>1. /\ call[a].pc = "gate" /\ call'[a].pc = "lock" /\ held' = held
      BY <2>4 DEF EnterGate, FileTypeOK
    <3> QED
      BY <2>1, <2>2, <3>1
  <2>5. CASE Acquire(a)
    <3>1. /\ call[a].pc = "lock" /\ call'[a].pc = "read" /\ call'[a].op = call[a].op
          /\ held' = held \cup {a}
          /\ \A b \in held : call[a].op \notin Exclusive /\ call[b].op \notin Exclusive
      BY <2>5 DEF Acquire, FileTypeOK
    <3> QED
      BY <2>1, <2>2, <3>1
  <2>6. CASE ReadDocument(a) \/ Sweep(a) \/ WriteTemp(a) \/ Commit(a) \/ WriteFails(a)
    <3>1. /\ call[a].pc \in Working /\ call'[a].pc \in Working /\ call'[a].op = call[a].op
          /\ held' = held
      BY <2>6 DEF ReadDocument, Sweep, WriteTemp, Commit, WriteFails, FileTypeOK
    <3> QED
      BY <2>1, <2>2, <3>1
  <2>7. CASE Unlock(a)
    <3>1. /\ call[a].pc = "unlock" /\ call'[a].pc = "leave" /\ held' = held \ {a}
      BY <2>7 DEF Unlock, FileTypeOK
    <3> QED
      BY <2>1, <2>2, <3>1
  <2>8. CASE LeaveGate(a)
    <3>1. /\ call[a].pc = "leave" /\ call'[a].pc = Vacant /\ held' = held
      BY <2>8 DEF LeaveGate, FileTypeOK
    <3> QED
      BY <2>1, <2>2, <3>1
  <2> QED
    BY <1>2, <2>3, <2>4, <2>5, <2>6, <2>7, <2>8 DEF ActorStep
<1>3. CASE UNCHANGED fileVars
  BY <1>3 DEF fileVars
<1> QED
  BY <1>1, <1>2, <1>3 DEF FileNext, ActorStep

(* Every step keeps what a call inside the file carries.                   *)
LEMMA WholeStep == FileTypeOK /\ CallIsWhole /\ [FileNext]_fileVars => CallIsWhole'
<1> SUFFICES ASSUME FileTypeOK, CallIsWhole, [FileNext]_fileVars PROVE CallIsWhole'
  OBVIOUS
<1> USE ActorAssumption DEF CallIsWhole
<1>1. ASSUME NEW p \in Process, Kill(p) PROVE CallIsWhole'
  BY <1>1 DEF Kill, FileTypeOK
<1>2. ASSUME NEW a \in Actor, ActorStep(a) PROVE CallIsWhole'
  <2>1. \A b \in Actor : b # a => call'[b] = call[b]
    BY <1>2, OwnCallOnly
  <2>2. CASE Begin(a)
    <3>1. call'[a].op # Vacant /\ (call'[a].op # "open" => call'[a].key \in Key)
      BY <2>2 DEF Begin, FileTypeOK
    <3> QED
      BY <2>1, <3>1
  <2>3. CASE EnterGate(a) \/ Acquire(a)
    <3>1. /\ call[a].pc \in {"gate", "lock"}
          /\ call'[a].op = call[a].op /\ call'[a].key = call[a].key
      BY <2>3 DEF EnterGate, Acquire, FileTypeOK
    <3> QED
      BY <2>1, <3>1
  <2>4. CASE \/ ReadDocument(a) \/ Sweep(a) \/ WriteTemp(a) \/ Commit(a)
             \/ WriteFails(a) \/ Unlock(a) \/ LeaveGate(a)
    <3>1. call'[a].pc \notin {"gate", "lock", "read"}
      BY <2>4, Moves
    <3> QED
      BY <2>1, <3>1
  <2> QED
    BY <1>2, <2>2, <2>3, <2>4 DEF ActorStep
<1>3. CASE UNCHANGED fileVars
  BY <1>3 DEF fileVars
<1> QED
  BY <1>1, <1>2, <1>3 DEF FileNext, ActorStep
(* A writer past its read is the only one: nobody else is inside the file. *)
LEMMA WriterIsAlone ==
  ASSUME FileTypeOK, LockIsHeld, NEW a \in Actor, call[a].pc \in Working,
         call[a].op \in Exclusive
  PROVE  \A b \in Actor : b # a => call[b].pc \notin Working
BY DEF LockIsHeld

(* Every step keeps what writers carry.                                    *)
LEMMA WriterStep ==
  ASSUME FileTypeOK, LockIsHeld, CallIsWhole, WriterIsCurrent, [FileNext]_fileVars
  PROVE  WriterIsCurrent'
<1> USE ActorAssumption DEF WriterIsCurrent
<1>1. ASSUME NEW p \in Process, Kill(p) PROVE WriterIsCurrent'
  BY <1>1 DEF Kill, FileTypeOK
<1>2. ASSUME NEW a \in Actor, ActorStep(a) PROVE WriterIsCurrent'
  <2>1. \A b \in Actor : b # a => call'[b] = call[b]
    BY <1>2, OwnCallOnly
  <2>2. CASE Begin(a) \/ EnterGate(a) \/ Acquire(a) \/ Sweep(a) \/ Unlock(a) \/ LeaveGate(a)
    <3>1. call'[a].pc \notin {"sweep", "temp", "rename"} /\ disk' = disk
      BY <2>2, Moves DEF Begin, EnterGate, Acquire, Sweep, Unlock, LeaveGate
    <3> QED
      BY <2>1, <3>1
  <2>3. CASE ReadDocument(a)
    <3>1. call[a].pc = "read" /\ disk' = disk
      BY <2>3 DEF ReadDocument
    <3>2. call[a].op \in {"open", "store", "delete", "load"}
      BY <3>1 DEF CallIsWhole, FileTypeOK
    <3>3. call[a].op # "open" => call[a].key \in Key
      BY <3>1 DEF CallIsWhole
    <3>4. call'[a].op = call[a].op /\ call'[a].key = call[a].key
      BY <2>3 DEF ReadDocument, FileTypeOK
    <3>5. CASE call[a].op = "open"
      <4>1. call'[a].pc = "sweep"
        BY <2>3, <3>5 DEF ReadDocument, FileTypeOK
      <4> QED
        BY <2>1, <3>1, <3>4, <3>5, <4>1
    <3>6. CASE call[a].op = "load"
      <4>1. call'[a].pc = "unlock"
        BY <2>3, <3>6 DEF ReadDocument, FileTypeOK
      <4> QED
        BY <2>1, <3>1, <4>1
    <3>7. CASE call[a].op = "store"
      <4>1. call'[a].pc = "temp" /\ call'[a].doc = disk \cup {call[a].key}
        BY <2>3, <3>7 DEF ReadDocument, FileTypeOK
      <4> QED
        BY <2>1, <3>1, <3>3, <3>4, <3>7, <4>1
    <3>8. CASE call[a].op = "delete"
      <4>1. call'[a].pc \in {"unlock", "temp"} /\ call'[a].doc = disk \ {call[a].key}
        BY <2>3, <3>8 DEF ReadDocument, FileTypeOK
      <4> QED
        BY <2>1, <3>1, <3>3, <3>4, <3>8, <4>1
    <3> QED
      BY <3>2, <3>5, <3>6, <3>7, <3>8
  <2>4. CASE WriteTemp(a)
    <3>1. /\ call[a].pc = "temp" /\ call'[a].pc = "rename" /\ call'[a].op = call[a].op
          /\ call'[a].key = call[a].key /\ call'[a].doc = call[a].doc /\ disk' = disk
      BY <2>4 DEF WriteTemp, FileTypeOK
    <3> QED
      BY <2>1, <3>1
  <2>5. CASE Commit(a) \/ WriteFails(a)
    <3>1. call[a].pc = "rename" /\ call'[a].pc = "unlock"
      BY <2>5 DEF Commit, WriteFails, FileTypeOK
    <3>2. \A b \in Actor : b # a => call[b].pc \notin Working
      BY <3>1, WriterIsAlone
    <3> QED
      BY <2>1, <3>1, <3>2
  <2> QED
    BY <1>2, <2>2, <2>3, <2>4, <2>5 DEF ActorStep
<1>3. CASE UNCHANGED fileVars
  BY <1>3 DEF fileVars
<1> QED
  BY <1>1, <1>2, <1>3 DEF FileNext, ActorStep

(* Every step keeps the temporary files of those who will rename them.     *)
LEMMA TempsStep ==
  ASSUME FileTypeOK, LockIsHeld, WriterIsCurrent, TempsAreTheirs, [FileNext]_fileVars
  PROVE  TempsAreTheirs'
<1> USE ActorAssumption DEF TempsAreTheirs, Temp
<1>1. ASSUME NEW p \in Process, Kill(p) PROVE TempsAreTheirs'
  <2>1. failures' # 0 /\ temps' = temps
    BY <1>1 DEF Kill, FileTypeOK
  <2>2. \A b \in Actor : call'[b].pc = "rename" => call'[b] = call[b]
    BY <1>1 DEF Kill
  <2> QED
    BY <2>1, <2>2
<1>2. ASSUME NEW a \in Actor, ActorStep(a) PROVE TempsAreTheirs'
  <2>1. \A b \in Actor : b # a => call'[b] = call[b]
    BY <1>2, OwnCallOnly
  <2>2. CASE \/ Begin(a) \/ EnterGate(a) \/ Acquire(a) \/ ReadDocument(a)
             \/ Unlock(a) \/ LeaveGate(a)
    <3>1. /\ call[a].pc # "rename" /\ call'[a].pc # "rename"
          /\ temps' = temps /\ failures' = failures
      BY <2>2, Moves DEF Begin, EnterGate, Acquire, ReadDocument, Unlock, LeaveGate
    <3> QED
      BY <2>1, <3>1
  <2>3. CASE Sweep(a)
    <3>1. call[a].pc = "sweep" /\ call'[a].pc = "unlock" /\ temps' = {}
      BY <2>3 DEF Sweep, FileTypeOK
    <3>2. \A b \in Actor : b # a => call[b].pc \notin Working
      BY <3>1, WriterIsAlone DEF WriterIsCurrent
    <3> QED
      BY <2>1, <3>1, <3>2
  <2>4. CASE WriteTemp(a)
    <3>1. /\ call[a].pc = "temp" /\ call'[a].pc = "rename" /\ call'[a].doc = call[a].doc
          /\ temps' = temps \cup {Temp(a)} /\ failures' = failures
      BY <2>4 DEF WriteTemp, FileTypeOK
    <3> QED
      BY <2>1, <3>1
  <2>5. CASE Commit(a)
    <3>1. /\ call[a].pc = "rename" /\ call'[a].pc = "unlock"
          /\ temps' = temps \ {Temp(a)} /\ failures' = failures
      BY <2>5 DEF Commit, FileTypeOK
    <3>2. \A b \in Actor : b # a => Temp(b) # Temp(a)
      OBVIOUS
    <3> QED
      BY <2>1, <3>1, <3>2
  <2>6. CASE WriteFails(a)
    <3>1. /\ call[a].pc = "rename" /\ call'[a].pc = "unlock" /\ failures' # 0
          /\ temps \ {Temp(a)} \subseteq temps'
      BY <2>6 DEF WriteFails, FileTypeOK
    <3>2. \A b \in Actor : b # a => Temp(b) # Temp(a)
      OBVIOUS
    <3> QED
      BY <2>1, <3>1, <3>2
  <2> QED
    BY <1>2, <2>2, <2>3, <2>4, <2>5, <2>6 DEF ActorStep
<1>3. CASE UNCHANGED fileVars
  BY <1>3 DEF fileVars
<1> QED
  BY <1>1, <1>2, <1>3 DEF FileNext, ActorStep

-----------------------------------------------------------------------------
(* In every state the lock, the writers and their files are as FileInv     *)
(* says: the mutual exclusion of acquire_file_lock and the re-read inside it.*)
THEOREM FileInvariant == FileSpec => []FileInv
<1>1. FileInit => FileInv
  BY ActorAssumption DEF FileInit, FileInv, FileTypeOK, LockIsHeld, WriterIsCurrent, CallIsWhole,
     TempsAreTheirs
<1>2. FileInv /\ [FileNext]_fileVars => FileInv'
  BY FileTypeStep, LockStep, WholeStep, WriterStep, TempsStep DEF FileInv
<1> QED
  BY <1>1, <1>2, PTL DEF FileSpec

(* remove_safe_stale_temporary_files takes no file a live writer is about  *)
(* to rename, and without failures leaves none behind.                     *)
THEOREM SweepIsSafe == FileSpec => []SweepSparesTheLiving
<1>1. FileInv => SweepSparesTheLiving
  <2> SUFFICES ASSUME FileInv, held = {}, failures = 0 PROVE temps = {}
    BY DEF FileInv, TempsAreTheirs, SweepSparesTheLiving
  <2> QED
    BY DEF FileInv, TempsAreTheirs, LockIsHeld
<1> QED
  BY <1>1, FileInvariant, PTL

(* The file is the map its callers take it for: whatever threads and       *)
(* processes do, wherever they are killed, every change of the document is *)
(* one call's one key.                                                     *)
THEOREM FileIsAMap == FileSpec => KeepsEveryKey
<1>1. FileInit => Map!Init
  BY DEF FileInit, Map!Init
<1>2. FileInv /\ [FileNext]_fileVars => [Map!Next]_disk
  <2> SUFFICES ASSUME FileInv, FileNext, disk' # disk PROVE Map!Next
    BY DEF fileVars
  <2>1. PICK a \in Actor : Commit(a)
    BY DEF FileNext, Kill, Begin, EnterGate, Acquire, ReadDocument, Sweep, WriteTemp, WriteFails,
       Unlock, LeaveGate
  <2>2. call[a].pc = "rename" /\ disk' = call[a].doc
    BY <2>1 DEF Commit
  <2> QED
    BY <2>2 DEF FileInv, WriterIsCurrent, Map!Next, Map!StoreKey, Map!DeleteKey
<1> QED
  BY <1>1, <1>2, FileInvariant, PTL DEF FileSpec, KeepsEveryKey, Map!Spec

HIDE DEF Exclusive, Working, Step, At, Go, Idle
-----------------------------------------------------------------------------
(* The database while it is upgraded.  What its row, its lanes and the     *)
(* user's correction look like is told by the objects it has.              *)
Tags == Upgrade!Tag \cup {Absent}
Revisions == 0..2
Expected == Revisions \cup {Absent}
LaneRows == [role : {"source", "translation", Absent}, text : {"original", "translation", Absent},
             rev : Revisions, projection : 0..1]
Utterances == [source : Upgrade!Tag, trans : Tags, done : BOOLEAN, rev : 1..2, projection : 0..1]
Corrections == [lane : {"source", "translated"}, language : Tags, edit : Revisions, variant : Expected]
Objects == SUBSET (Upgrade!Speakers..Upgrade!RemoteArtifacts)
AnyRow == Utterances \cup {Absent}
AnyMutation == Corrections \cup {Absent}
Versions == {0} \cup Upgrade!Supported
Runs == {"stt-async-v5", "older", Absent}
Indexes == {"plain", "unique", Absent}
Flags == BOOLEAN \cup {Absent}
Databases == [version : Versions, objects : Objects, runs : Runs, index : Indexes, row : AnyRow,
              lanes : [Upgrade!Tag -> LaneRows], mutation : AnyMutation, caption : BOOLEAN,
              desired : 0..1, output : Flags, provenance : Flags]

(* A row with two languages, and a correction of one of its two texts once *)
(* it is complete.                                                         *)
Addressed(d) ==
    /\ d.row \in Utterances /\ d.row.trans # d.row.source
    /\ d.mutation # Absent =>
         /\ d.mutation \in Corrections /\ d.row.done
         /\ d.mutation.lane = "translated" => d.row.trans # Absent

(* Version 26 and older versions that have lanes: those of the row, none   *)
(* waiting for a projection; the correction is in a lane's language.       *)
Laned(d) ==
    /\ Addressed(d)
    /\ d.lanes = Upgrade!RowLanes(d.row, 0)
    /\ d.mutation # Absent =>
         d.mutation.language = IF d.mutation.lane = "source" THEN d.row.source ELSE d.row.trans

(* What UpgradeKeepsWork says of the database an application opens.        *)
Kept(d) ==
    /\ d.row \in Utterances
    /\ d.lanes[d.row.source].text = "original"
    /\ d.row.trans # Absent => d.lanes[d.row.trans].text = "translation"
    /\ \A t \in Upgrade!Lanes(d) : d.row.done => d.lanes[t].projection \in 1..d.desired
    /\ d.mutation # Absent => Upgrade!Committable(d)

Work(d) ==
    /\ Upgrade!Multilingual \notin d.objects => Addressed(d)
    /\ Upgrade!Multilingual \in d.objects /\ Upgrade!RealtimeLoro \notin d.objects => Laned(d)
    /\ Upgrade!RealtimeLoro \in d.objects => Kept(d)

(* A database that was never upgraded: empty, or just installed.           *)
Installed(d) ==
    /\ d.row = Absent
    /\ d.objects = IF d.version = 0 THEN {} ELSE Upgrade!ObjectsOf(Upgrade!Current)

UpgradeInv ==
    /\ db \in Databases /\ at \in {0} \cup Upgrade!Supported
    /\ Installed(db) \/ (db.version # 0 /\ Work(db))
    /\ app = "upgrading" => db.version # 0 /\ at # 0
    /\ app = "open" => db.objects = Upgrade!ObjectsOf(Upgrade!Current)

USE DEF Upgrade!Speakers, Upgrade!SelectedLanguages, Upgrade!Multilingual, Upgrade!RealtimeLoro,
        Upgrade!TranslationInbox, Upgrade!TranscriptGaps, Upgrade!RemoteArtifacts, Upgrade!Oldest,
        Upgrade!Current, Upgrade!Supported

(* A database no version wrote: no objects, no row.                        *)
LEMMA FreshIsWhole == Upgrade!Fresh \in Databases
BY DEF Upgrade!Fresh, Databases, Versions, Objects, Runs, Indexes, AnyRow, AnyMutation, Flags, LaneRows, Revisions, Upgrade!NoLanes, Upgrade!NoLane, Upgrade!Lane

LEMMA RowLanesAreLanes ==
  ASSUME NEW r, r.rev \in 1..2, NEW w \in 0..1
  PROVE  Upgrade!RowLanes(r, w) \in [Upgrade!Tag -> LaneRows]
BY DEF Upgrade!RowLanes, LaneRows, Revisions, Upgrade!NoLane, Upgrade!Lane

(* What a version of the program left behind is what its objects say.      *)
LEMMA LeftIsWork ==
  ASSUME NEW v \in Upgrade!Supported, NEW r \in Upgrade!Rows(v), NEW caption \in BOOLEAN, NEW output \in BOOLEAN
  PROVE  LET d == Upgrade!Left(v, r, caption, output)
         IN  d \in Databases /\ d.version # 0 /\ d.row \in Utterances /\ Work(d)
<1> DEFINE w == IF v >= Upgrade!RealtimeLoro /\ r.done THEN 1 ELSE 0
           d == Upgrade!Left(v, r, caption, output)
<1>1. /\ r.source \in Upgrade!Tag /\ r.trans \in Upgrade!Tag \cup {Absent} /\ r.done \in BOOLEAN
      /\ r.rev \in 1..2 /\ r.lane \in {"source", "translated", Absent} /\ r.trans # r.source
      /\ r.lane = "translated" => r.trans # Absent
      /\ r.lane # Absent => r.done
  BY DEF Upgrade!Rows
<1>2. w \in 0..1
  OBVIOUS
<1>3. Upgrade!RowLanes(r, w) \in [Upgrade!Tag -> LaneRows]
  BY <1>1, <1>2, RowLanesAreLanes
<1>4. Upgrade!NoLanes \in [Upgrade!Tag -> LaneRows]
  BY DEF LaneRows, Revisions, Upgrade!NoLanes, Upgrade!NoLane, Upgrade!Lane
<1>5. Upgrade!MutationOf(r, v) \in Corrections \cup {Absent}
  BY <1>1 DEF Upgrade!MutationOf, Corrections, Tags, Revisions, Expected
<1>6. /\ d.version = v /\ d.objects = Upgrade!ObjectsOf(v) /\ d.desired = w
      /\ d.row = [source |-> r.source, trans |-> r.trans, done |-> r.done, rev |-> r.rev, projection |-> w]
      /\ d.lanes = IF v >= Upgrade!Multilingual THEN Upgrade!RowLanes(r, w) ELSE Upgrade!NoLanes
      /\ d.mutation = Upgrade!MutationOf(r, v)
  BY DEF Upgrade!Left
<1>7. d \in Databases
  BY <1>1, <1>2, <1>3, <1>4, <1>5 DEF Upgrade!Left, Databases, Versions, Objects, Runs, Indexes, AnyRow, AnyMutation, Flags, Utterances, Tags, Upgrade!ObjectsOf
<1>8. d.row \in Utterances
  BY <1>1, <1>2, <1>6 DEF Utterances, Tags
<1>9. CASE v < Upgrade!Multilingual
  <2>1. Addressed(d)
    BY <1>1, <1>5, <1>6, <1>8 DEF Addressed, Upgrade!MutationOf
  <2>2. Upgrade!Multilingual \notin d.objects /\ Upgrade!RealtimeLoro \notin d.objects
    BY <1>6, <1>9 DEF Upgrade!ObjectsOf
  <2> QED BY <1>6, <1>7, <1>8, <2>1, <2>2 DEF Work
<1>10. CASE v = Upgrade!Multilingual
  <2>1. Addressed(d)
    BY <1>1, <1>5, <1>6, <1>8 DEF Addressed, Upgrade!MutationOf
  <2>a. w = 0 /\ d.row.source = r.source /\ d.row.trans = r.trans /\ d.row.rev = r.rev
    BY <1>6, <1>10
  <2>b. d.lanes = Upgrade!RowLanes(r, 0)
    BY <1>6, <1>10, <2>a
  <2>2. d.lanes = Upgrade!RowLanes(d.row, 0)
    <3> HIDE DEF w, d
    <3> QED BY <2>a, <2>b DEF Upgrade!RowLanes
  <2>3. d.mutation # Absent =>
           d.mutation.language = IF d.mutation.lane = "source" THEN d.row.source ELSE d.row.trans
    BY <1>1, <1>6, <1>10 DEF Upgrade!MutationOf
  <2>4. Upgrade!Multilingual \in d.objects /\ Upgrade!RealtimeLoro \notin d.objects
    BY <1>6, <1>10 DEF Upgrade!ObjectsOf
  <2> QED BY <1>6, <1>7, <1>8, <2>1, <2>2, <2>3, <2>4 DEF Work, Laned
<1>11. CASE v >= Upgrade!RealtimeLoro
  <2>1. d.lanes = Upgrade!RowLanes(r, w)
    BY <1>6, <1>11
  <2>2. /\ d.lanes[r.source] = Upgrade!Lane("source", "original", r.rev, w)
        /\ r.trans \in Upgrade!Tag => d.lanes[r.trans] = Upgrade!Lane("translation", "translation", r.rev, w)
    BY <1>1, <2>1 DEF Upgrade!RowLanes
  <2>3. \A t \in Upgrade!Lanes(d) : d.lanes[t].projection = w
    <3> HIDE DEF w, d
    <3> SUFFICES ASSUME NEW t \in Upgrade!Tag, d.lanes[t] # Upgrade!NoLane
                 PROVE  d.lanes[t].projection = w
      BY DEF Upgrade!Lanes
    <3>1. t = r.source \/ t = r.trans
      BY <2>1 DEF Upgrade!RowLanes
    <3>2. d.lanes[t] = Upgrade!Lane("source", "original", r.rev, w)
          \/ d.lanes[t] = Upgrade!Lane("translation", "translation", r.rev, w)
      BY <2>2, <3>1
    <3> QED BY <3>2 DEF Upgrade!Lane
  <2>4. d.mutation # Absent => Upgrade!Committable(d)
    <3>1. d.row.done = r.done
      BY <1>6
    <3>2. d.mutation = Upgrade!MutationOf(r, v)
      BY <1>6
    <3> HIDE DEF w, d
    <3> SUFFICES ASSUME d.mutation # Absent PROVE Upgrade!Committable(d)
      OBVIOUS
    <3>3. /\ r.lane # Absent
          /\ d.mutation.lane = r.lane /\ d.mutation.edit = 0 /\ d.mutation.variant = r.rev
          /\ d.mutation.language = IF r.lane = "source" THEN r.source ELSE r.trans
      BY <3>2, <1>11 DEF Upgrade!MutationOf
    <3>4. CASE r.lane = "source"
      <4>1. d.lanes[d.mutation.language] = Upgrade!Lane("source", "original", r.rev, w)
        BY <2>2, <3>3, <3>4
      <4> QED BY <4>1, <3>1, <3>3, <3>4, <1>1 DEF Upgrade!Committable, Upgrade!Lane
    <3>5. CASE r.lane = "translated"
      <4>1. d.lanes[d.mutation.language] = Upgrade!Lane("translation", "translation", r.rev, w)
        BY <1>1, <2>2, <3>3, <3>5
      <4> QED BY <4>1, <3>1, <3>3, <3>5, <1>1 DEF Upgrade!Committable, Upgrade!Lane
    <3> QED BY <1>1, <3>3, <3>4, <3>5
  <2>5. Kept(d)
    <3>1. d.row.done = r.done /\ d.row.source = r.source /\ d.row.trans = r.trans /\ d.desired = w
      BY <1>6
    <3>2. r.done => w = 1
      BY <1>11
    <3> HIDE DEF w, d
    <3>3. d.lanes[d.row.source].text = "original"
      BY <2>2, <3>1 DEF Upgrade!Lane
    <3>4. d.row.trans # Absent => d.lanes[d.row.trans].text = "translation"
      BY <1>1, <2>2, <3>1 DEF Upgrade!Lane
    <3> QED BY <1>8, <2>3, <2>4, <3>1, <3>2, <3>3, <3>4 DEF Kept
  <2>6. Upgrade!Multilingual \in d.objects /\ Upgrade!RealtimeLoro \in d.objects
    BY <1>6, <1>11 DEF Upgrade!ObjectsOf
  <2> QED BY <1>6, <1>7, <1>8, <2>5, <2>6 DEF Work
<1> QED BY <1>9, <1>10, <1>11

-----------------------------------------------------------------------------
(* A database, and a correction, stay what they are when fields change.    *)
Rewritten(d, objects, version, row, lanes, desired, mutation) ==
    [d EXCEPT !.objects = objects, !.version = version, !.row = row, !.lanes = lanes,
              !.desired = desired, !.mutation = mutation]
LEMMA RewrittenDatabase ==
  ASSUME NEW d \in Databases, NEW objects \in Objects,
         NEW version \in Versions, NEW row \in AnyRow,
         NEW lanes \in [Upgrade!Tag -> LaneRows], NEW desired \in 0..1,
         NEW mutation \in AnyMutation
  PROVE  LET e == Rewritten(d, objects, version, row, lanes, desired, mutation)
         IN  /\ e \in Databases
             /\ e.objects = objects /\ e.version = version /\ e.row = row /\ e.lanes = lanes
             /\ e.desired = desired /\ e.mutation = mutation
BY DEF Databases, Rewritten

Readdressed(m, language, edit, variant) ==
    [m EXCEPT !.language = language, !.edit = edit, !.variant = variant]
LEMMA ReaddressedCorrection ==
  ASSUME NEW m \in Corrections, NEW language \in Tags, NEW edit \in Revisions, NEW variant \in Expected
  PROVE  LET c == Readdressed(m, language, edit, variant)
         IN  /\ c \in Corrections /\ c.edit = edit /\ c.lane = m.lane
             /\ c.language = language /\ c.variant = variant
BY DEF Corrections, Readdressed

(* migrate_v25_to_v26 gives every text of the row a lane of its language,  *)
(* and the correction the language of the text it is of.                   *)
LEMMA AddLanesKeeps ==
  ASSUME NEW d \in Databases, Addressed(d), d.objects = Upgrade!ObjectsOf(Upgrade!SelectedLanguages)
  PROVE  Upgrade!AddLanes(d) \in Databases /\ Laned(Upgrade!AddLanes(d))
<1> DEFINE e == Upgrade!AddLanes(d)
<1>1. /\ d.row \in Utterances
      /\ d.mutation \in AnyMutation
      /\ d.mutation # Absent => d.mutation \in Corrections
  BY DEF Addressed, Databases, AnyMutation
<1>2. /\ e.row = d.row
      /\ e.lanes = Upgrade!RowLanes(d.row, 0)
      /\ e.mutation = IF d.mutation = Absent THEN Absent
                      ELSE [d.mutation EXCEPT !.language =
                              IF d.mutation.lane = "source" THEN d.row.source ELSE d.row.trans]
  BY DEF Upgrade!AddLanes, Upgrade!RowLanes, Databases
<1>3. e.lanes \in [Upgrade!Tag -> LaneRows]
  BY <1>1, <1>2, RowLanesAreLanes DEF Utterances
<1>4. e.mutation # Absent =>
        /\ e.mutation \in Corrections
        /\ e.mutation.lane = d.mutation.lane
        /\ e.mutation.language = IF d.mutation.lane = "source" THEN d.row.source ELSE d.row.trans
  BY <1>1, <1>2 DEF Corrections, Utterances, Tags
<1>5. e \in Databases
  <2> DEFINE objects == d.objects \cup {Upgrade!Multilingual}
             lanes == e.lanes
             mutation == e.mutation
  <2>1. e = Rewritten(d, objects, Upgrade!Multilingual, d.row, lanes, d.desired, mutation)
    BY DEF Upgrade!AddLanes, Databases, Rewritten
  <2>2. objects \in Objects
    BY DEF Databases, Objects
  <2>3. lanes \in [Upgrade!Tag -> LaneRows] /\ mutation \in AnyMutation
    BY <1>3, <1>4 DEF AnyMutation
  <2>4. d.row \in AnyRow /\ d.desired \in 0..1 /\ Upgrade!Multilingual \in Versions
    BY DEF Databases, Versions
  <2> HIDE DEF e, objects, lanes, mutation
  <2> QED BY <2>1, <2>2, <2>3, <2>4, RewrittenDatabase
<1>6. e.mutation # Absent => d.mutation # Absent
  BY <1>2
<1>7. e \in Databases /\ Laned(e)
  <2> HIDE DEF e
  <2> QED BY <1>1, <1>2, <1>4, <1>5, <1>6 DEF Laned, Addressed
<1> QED BY <1>7

(* migrate_v26_to_v27 renames the lanes of the row's languages, which have *)
(* different primary subtags, and re-addresses the correction.             *)
LEMMA AddProjectionKeeps ==
  ASSUME NEW d \in Databases, Laned(d), ~Upgrade!Collides(d)
  PROVE  Upgrade!AddProjection(d) \in Databases /\ Kept(Upgrade!AddProjection(d))
<1> DEFINE src == d.row.source
           trans == d.row.trans
           w == IF d.row.done THEN 1 ELSE 0
           P(t) == Upgrade!Primary(t)
           Of(t) == CHOOSE s \in Upgrade!Lanes(d) : P(s) = t
           renamed == [t \in Upgrade!Tag |->
                         IF t[2] = Bare /\ \E s \in Upgrade!Lanes(d) : P(s) = t
                         THEN [d.lanes[Of(t)] EXCEPT !.projection = w]
                         ELSE Upgrade!NoLane]
           correction == Readdressed(d.mutation, P(d.mutation.language), 0,
                                     renamed[P(d.mutation.language)].rev)
           row == [d.row EXCEPT !.source = P(src), !.projection = w,
                      !.trans = IF trans = Absent THEN Absent ELSE P(trans)]
           mutation == IF d.mutation = Absent THEN Absent ELSE correction
           objects == d.objects \cup {Upgrade!RealtimeLoro}
           e == Upgrade!AddProjection(d)
<1>1. /\ d.row \in Utterances /\ trans # src /\ d.row.done \in BOOLEAN
      /\ src \in Upgrade!Tag /\ trans \in Upgrade!Tag \cup {Absent} /\ d.row.rev \in 1..2
      /\ w \in 0..1
      /\ d.lanes \in [Upgrade!Tag -> LaneRows]
  BY DEF Laned, Addressed, Utterances, Databases, Tags
<1>2. \A t \in Upgrade!Tag : P(t) \in Upgrade!Tag /\ P(t)[2] = Bare
  BY DEF Upgrade!Tag, Upgrade!Primary
<1>3. /\ d.lanes[src] = Upgrade!Lane("source", "original", d.row.rev, 0)
      /\ trans \in Upgrade!Tag => d.lanes[trans] = Upgrade!Lane("translation", "translation", d.row.rev, 0)
  BY <1>1 DEF Laned, Upgrade!RowLanes
<1>4. /\ src \in Upgrade!Lanes(d)
      /\ trans \in Upgrade!Tag => trans \in Upgrade!Lanes(d)
  BY <1>1, <1>3 DEF Upgrade!Lanes, Upgrade!NoLane, Upgrade!Lane
<1>5. \A s, t \in Upgrade!Lanes(d) : P(s) = P(t) => s = t
  BY DEF Upgrade!Collides
<1>6. \A s \in Upgrade!Lanes(d) : Of(P(s)) = s
  BY <1>5
<1>7. \A s \in Upgrade!Lanes(d) : /\ s \in Upgrade!Tag
                                  /\ renamed[P(s)] = [d.lanes[s] EXCEPT !.projection = w]
  BY <1>2, <1>6 DEF Upgrade!Lanes
<1>8. renamed \in [Upgrade!Tag -> LaneRows]
  <2>1. \A t \in Upgrade!Tag : (\E s \in Upgrade!Lanes(d) : P(s) = t) => Of(t) \in Upgrade!Tag
    BY DEF Upgrade!Lanes
  <2>2. \A t \in Upgrade!Tag : [d.lanes[t] EXCEPT !.projection = w] \in LaneRows
    BY <1>1 DEF LaneRows
  <2>3. Upgrade!NoLane \in LaneRows
    BY DEF Revisions, Upgrade!NoLane, Upgrade!Lane, LaneRows
  <2> HIDE DEF P, Of, w
  <2> QED BY <2>1, <2>2, <2>3
<1>9. \A t \in Upgrade!Tag : renamed[t] # Upgrade!NoLane => renamed[t].projection = w
  <2>1. \A t \in Upgrade!Tag : (\E s \in Upgrade!Lanes(d) : P(s) = t) => Of(t) \in Upgrade!Tag
    BY DEF Upgrade!Lanes
  <2>2. \A t \in Upgrade!Tag : [d.lanes[t] EXCEPT !.projection = w].projection = w
    BY <1>1 DEF LaneRows
  <2> HIDE DEF P, Of, w
  <2> QED BY <2>1, <2>2
<1>10. e = Rewritten(d, objects, Upgrade!RealtimeLoro, row, renamed, w, mutation)
  BY DEF Upgrade!AddProjection, Rewritten, Readdressed
<1>11. \A s \in Upgrade!Lanes(d) : /\ renamed[P(s)].text = d.lanes[s].text
                                   /\ renamed[P(s)].role = d.lanes[s].role
                                   /\ renamed[P(s)].rev = d.lanes[s].rev
  <2> HIDE DEF P, Of, w, renamed
  <2> QED BY <1>1, <1>7 DEF LaneRows
<1>12. /\ row \in Utterances /\ row.source = P(src) /\ row.done = d.row.done
       /\ row.trans = (IF trans = Absent THEN Absent ELSE P(trans))
  <2>1. P(src) \in Upgrade!Tag /\ (IF trans = Absent THEN Absent ELSE P(trans)) \in Tags
    BY <1>1, <1>2 DEF Tags
  <2> HIDE DEF P, w
  <2> QED BY <2>1, <1>1 DEF Utterances
<1> HIDE DEF P, Of, w, renamed, correction, e, row, mutation, objects
<1>13. d.row.done => w = 1
  BY DEF w
<1>14. ASSUME d.mutation # Absent
       PROVE  /\ correction \in Corrections
              /\ correction.edit = 0 /\ correction.lane = d.mutation.lane
              /\ renamed[correction.language].rev = correction.variant
              /\ renamed[correction.language].role = IF correction.lane = "source" THEN "source" ELSE "translation"
  <2>1. /\ d.mutation \in Corrections /\ d.row.done
        /\ d.mutation.lane = "translated" => trans # Absent
        /\ d.mutation.language = IF d.mutation.lane = "source" THEN src ELSE trans
    BY <1>14 DEF Laned, Addressed
  <2>2. d.mutation.language \in Upgrade!Lanes(d) /\ d.mutation.language \in Upgrade!Tag
    BY <2>1, <1>1, <1>4 DEF Corrections, Tags
  <2>3. P(d.mutation.language) \in Upgrade!Tag
    BY <2>2, <1>2
  <2>4. /\ P(d.mutation.language) \in Tags /\ 0 \in Revisions
        /\ renamed[P(d.mutation.language)].rev \in Expected
    BY <2>3, <1>8 DEF LaneRows, Tags, Revisions, Expected
  <2>5. /\ correction \in Corrections /\ correction.edit = 0 /\ correction.lane = d.mutation.lane
        /\ correction.language = P(d.mutation.language)
        /\ correction.variant = renamed[P(d.mutation.language)].rev
    BY <2>1, <2>3, <2>4, ReaddressedCorrection DEF correction
  <2>7. d.lanes[d.mutation.language].role = IF d.mutation.lane = "source" THEN "source" ELSE "translation"
    BY <2>1, <2>2, <1>3 DEF Upgrade!Lane, Corrections
  <2>8. renamed[correction.language].role = d.lanes[d.mutation.language].role
    BY <2>2, <2>5, <1>11
  <2> QED BY <2>5, <2>7, <2>8
<1>15. e \in Databases /\ e.lanes = renamed /\ e.desired = w /\ e.row = row /\ e.mutation = mutation
  <2>1. mutation \in AnyMutation
    BY <1>14 DEF mutation, AnyMutation
  <2>2. objects \in Objects
    BY DEF Databases, Objects, objects
  <2>3. row \in AnyRow /\ Upgrade!RealtimeLoro \in Versions
    BY <1>12 DEF AnyRow, Versions
  <2> QED BY <2>1, <2>2, <2>3, <1>1, <1>8, <1>10, RewrittenDatabase
<1>16. e.lanes[e.row.source].text = "original"
  BY <1>1, <1>3, <1>4, <1>11, <1>15, <1>12 DEF Upgrade!Lane
<1>17. e.row.trans # Absent => e.lanes[e.row.trans].text = "translation"
  BY <1>1, <1>3, <1>4, <1>11, <1>15, <1>12 DEF Upgrade!Lane
<1>18. e.mutation # Absent => Upgrade!Committable(e)
  BY <1>15, <1>14, <1>12 DEF Upgrade!Committable, Laned, Addressed, mutation
<1>19. \A t \in Upgrade!Lanes(e) : e.row.done => e.lanes[t].projection \in 1..e.desired
  BY <1>9, <1>15, <1>13, <1>12 DEF Upgrade!Lanes
<1>20. Kept(e)
  BY <1>15, <1>16, <1>17, <1>18, <1>19, <1>12 DEF Kept
<1> QED BY <1>15, <1>20 DEF e

(* The other steps leave the row, its lanes and the correction alone.      *)
LEMMA SameWork ==
  ASSUME NEW d \in Databases, NEW e \in Databases,
         e.row = d.row, e.lanes = d.lanes, e.desired = d.desired, e.mutation = d.mutation
  PROVE  /\ Addressed(d) => Addressed(e)
         /\ Laned(d) => Laned(e)
         /\ Kept(d) => Kept(e)
BY DEF Addressed, Laned, Kept, Upgrade!Lanes, Upgrade!Committable

LEMMA SameObjects ==
  ASSUME NEW d \in Databases, NEW e \in Databases, Work(d),
         e.row = d.row, e.lanes = d.lanes, e.desired = d.desired, e.mutation = d.mutation,
         Upgrade!Multilingual \in d.objects <=> Upgrade!Multilingual \in e.objects,
         Upgrade!RealtimeLoro \in d.objects <=> Upgrade!RealtimeLoro \in e.objects
  PROVE  Work(e)
BY SameWork DEF Work

Extended(d, objects, version, runs, index, provenance) ==
    [d EXCEPT !.objects = objects, !.version = version, !.runs = runs, !.index = index,
              !.provenance = provenance]
LEMMA ExtendedDatabase ==
  ASSUME NEW d \in Databases, NEW objects \in Objects, NEW version \in Versions, NEW runs \in Runs,
         NEW index \in Indexes, NEW provenance \in Flags
  PROVE  LET e == Extended(d, objects, version, runs, index, provenance)
         IN  /\ e \in Databases /\ e.version = version /\ e.objects = objects
             /\ e.row = d.row /\ e.lanes = d.lanes /\ e.desired = d.desired /\ e.mutation = d.mutation
BY DEF Databases, Extended

(* One transaction of the chain.                                           *)
LEMMA UpgradedIsWork ==
  ASSUME NEW d \in Databases, NEW v \in Upgrade!Supported \ {Upgrade!Current},
         d.objects = Upgrade!ObjectsOf(v), d.version # 0,
         v = Upgrade!Multilingual => ~Upgrade!Collides(d),
         Installed(d) \/ Work(d)
  PROVE  LET e == Upgrade!Upgraded(d, v)
         IN  e \in Databases /\ e.version # 0 /\ (Installed(e) \/ Work(e))
<1> DEFINE e == Upgrade!Upgraded(d, v)
<1>1. CASE v = Upgrade!SelectedLanguages
  <2>1. e = Upgrade!AddLanes(d)
    BY <1>1 DEF Upgrade!Upgraded
  <2>2. Work(d)
    BY <1>1 DEF Installed, Upgrade!ObjectsOf
  <2>3. Addressed(d)
    BY <1>1, <2>2 DEF Work, Upgrade!ObjectsOf
  <2>4. e \in Databases /\ Laned(e)
    BY <1>1, <2>1, <2>3, AddLanesKeeps
  <2>5. /\ e.version = Upgrade!Multilingual
        /\ Upgrade!Multilingual \in e.objects /\ Upgrade!RealtimeLoro \notin e.objects
    <3>1. e.version = Upgrade!Multilingual /\ e.objects = d.objects \cup {Upgrade!Multilingual}
      BY <2>1 DEF Upgrade!AddLanes, Databases
    <3> QED BY <1>1, <3>1 DEF Upgrade!ObjectsOf
  <2> QED BY <2>4, <2>5 DEF Work
<1>2. CASE v = Upgrade!Multilingual
  <2>1. e = Upgrade!AddProjection(d)
    BY <1>2 DEF Upgrade!Upgraded
  <2>2. Work(d)
    BY <1>2 DEF Installed, Upgrade!ObjectsOf
  <2>3. Laned(d)
    BY <1>2, <2>2 DEF Work, Upgrade!ObjectsOf
  <2>4. e \in Databases /\ Kept(e)
    BY <1>2, <2>1, <2>3, AddProjectionKeeps
  <2>5. e.version = Upgrade!RealtimeLoro /\ e.objects = d.objects \cup {Upgrade!RealtimeLoro}
    BY <2>1 DEF Upgrade!AddProjection, Databases
  <2>6. Upgrade!Multilingual \in e.objects /\ Upgrade!RealtimeLoro \in e.objects
    BY <1>2, <2>5 DEF Upgrade!ObjectsOf
  <2> QED BY <2>4, <2>5, <2>6 DEF Work
<1>3. CASE v \notin {Upgrade!SelectedLanguages, Upgrade!Multilingual}
  <2>1. /\ e \in Databases /\ e.version # 0
        /\ e.row = d.row /\ e.lanes = d.lanes /\ e.desired = d.desired /\ e.mutation = d.mutation
        /\ e.objects = d.objects \cup (IF v = Upgrade!RemoteArtifacts THEN {} ELSE {v + 1})
    <3> DEFINE objects == d.objects \cup (IF v = Upgrade!RemoteArtifacts THEN {} ELSE {v + 1})
    <3>1. /\ objects \in Objects
          /\ \A n \in Upgrade!Speakers..Upgrade!Current : n \in Versions
          /\ "stt-async-v5" \in Runs /\ "unique" \in Indexes /\ "plain" \in Indexes
          /\ d.runs \in Runs /\ d.index \in Indexes /\ d.output \in Flags /\ d.provenance \in Flags
      BY DEF Databases, Versions, Objects, Runs, Indexes
    <3>2. \E version \in Versions \ {0}, runs \in Runs, index \in Indexes, provenance \in Flags :
             e = Extended(d, objects, version, runs, index, provenance)
      <4>1. CASE v = Upgrade!Oldest
        <5>1. e = Upgrade!AddSpeakers(d) /\ objects = d.objects \cup {Upgrade!Speakers}
          BY <4>1 DEF Upgrade!Upgraded
        <5>2. Upgrade!AddSpeakers(d) = Extended(d, d.objects \cup {Upgrade!Speakers}, Upgrade!Speakers, d.runs, d.index, d.provenance)
          BY DEF Upgrade!AddSpeakers, Databases, Extended
        <5>3. e = Extended(d, objects, Upgrade!Speakers, d.runs, d.index, d.provenance)
          BY <5>1, <5>2
        <5> HIDE DEF e, objects
        <5> QED BY <3>1, <5>3
      <4>2. CASE v = Upgrade!Speakers
        <5>1. e = Upgrade!AddSelectedLanguages(d) /\ objects = d.objects \cup {Upgrade!SelectedLanguages}
          BY <4>2 DEF Upgrade!Upgraded
        <5>2. Upgrade!AddSelectedLanguages(d) = Extended(d, d.objects \cup {Upgrade!SelectedLanguages}, Upgrade!SelectedLanguages, d.runs, d.index, d.provenance)
          BY DEF Upgrade!AddSelectedLanguages, Databases, Extended
        <5>3. e = Extended(d, objects, Upgrade!SelectedLanguages, d.runs, d.index, d.provenance)
          BY <5>1, <5>2
        <5> HIDE DEF e, objects
        <5> QED BY <3>1, <5>3
      <4>3. CASE v = Upgrade!RealtimeLoro
        <5>1. e = Upgrade!AddInbox(d) /\ objects = d.objects \cup {Upgrade!TranslationInbox}
          BY <4>3 DEF Upgrade!Upgraded
        <5>2. Upgrade!AddInbox(d) = Extended(d, d.objects \cup {Upgrade!TranslationInbox}, Upgrade!TranslationInbox, d.runs, "unique", d.provenance)
          BY DEF Upgrade!AddInbox, Databases, Extended
        <5>3. e = Extended(d, objects, Upgrade!TranslationInbox, d.runs, "unique", d.provenance)
          BY <5>1, <5>2
        <5> HIDE DEF e, objects
        <5> QED BY <3>1, <5>3
      <4>4. CASE v = Upgrade!TranslationInbox
        <5>1. e = Upgrade!AddGaps(d) /\ objects = d.objects \cup {Upgrade!TranscriptGaps}
          BY <4>4 DEF Upgrade!Upgraded
        <5>2. Upgrade!AddGaps(d) = Extended(d, d.objects \cup {Upgrade!TranscriptGaps}, Upgrade!TranscriptGaps, d.runs, d.index, d.provenance)
          BY DEF Upgrade!AddGaps, Databases, Extended
        <5>3. e = Extended(d, objects, Upgrade!TranscriptGaps, d.runs, d.index, d.provenance)
          BY <5>1, <5>2
        <5> HIDE DEF e, objects
        <5> QED BY <3>1, <5>3
      <4>5. CASE v = Upgrade!TranscriptGaps
        <5>1. e = Upgrade!AddRemoteArtifacts(d) /\ objects = d.objects \cup {Upgrade!RemoteArtifacts}
          BY <4>5 DEF Upgrade!Upgraded
        <5>2. Upgrade!AddRemoteArtifacts(d) = Extended(d, d.objects \cup {Upgrade!RemoteArtifacts}, Upgrade!Current, "stt-async-v5", d.index, d.output)
          BY DEF Upgrade!AddRemoteArtifacts, Databases, Extended
        <5>3. e = Extended(d, objects, Upgrade!Current, "stt-async-v5", d.index, d.output)
          BY <5>1, <5>2
        <5> HIDE DEF e, objects
        <5> QED BY <3>1, <5>3
      <4>6. CASE v = Upgrade!RemoteArtifacts
        <5>1. e = Upgrade!RelaxInbox(d) /\ objects = d.objects
          BY <4>6 DEF Upgrade!Upgraded
        <5>2. Upgrade!RelaxInbox(d) = Extended(d, d.objects, Upgrade!Current, d.runs, "plain", d.provenance)
          BY DEF Upgrade!RelaxInbox, Databases, Extended
        <5>3. e = Extended(d, objects, Upgrade!Current, d.runs, "plain", d.provenance)
          BY <5>1, <5>2
        <5> HIDE DEF e, objects
        <5> QED BY <3>1, <5>3
      <4> HIDE DEF e, objects
      <4> QED BY <1>3, <4>1, <4>2, <4>3, <4>4, <4>5, <4>6
    <3> HIDE DEF e, objects
    <3>3. /\ e \in Databases /\ e.version # 0 /\ e.objects = objects
          /\ e.row = d.row /\ e.lanes = d.lanes /\ e.desired = d.desired /\ e.mutation = d.mutation
      <4>1. PICK version \in Versions \ {0}, runs \in Runs, index \in Indexes, provenance \in Flags :
                   e = Extended(d, objects, version, runs, index, provenance)
        BY <3>2
      <4>2. version \in Versions /\ version # 0
        BY <4>1
      <4>3. objects \in Objects
        BY <3>1
      <4> DEFINE f == Extended(d, objects, version, runs, index, provenance)
      <4>4. /\ f \in Databases /\ f.version = version /\ f.objects = objects
            /\ f.row = d.row /\ f.lanes = d.lanes /\ f.desired = d.desired /\ f.mutation = d.mutation
        BY <4>2, <4>3, ExtendedDatabase
      <4> QED BY <4>1, <4>2, <4>4
    <3> QED BY <3>3 DEF objects
  <2> HIDE DEF e
  <2>2. CASE Installed(d)
    <3>1. v = Upgrade!RemoteArtifacts
      BY <2>2 DEF Installed, Upgrade!ObjectsOf
    <3>2. e.objects = d.objects
      BY <2>1, <3>1
    <3> QED BY <2>1, <2>2, <3>2 DEF Installed, e
  <2>3. CASE Work(d)
    <3>1. /\ Upgrade!Multilingual \in d.objects <=> Upgrade!Multilingual \in e.objects
          /\ Upgrade!RealtimeLoro \in d.objects <=> Upgrade!RealtimeLoro \in e.objects
      BY <1>3, <2>1
    <3>2. Work(e)
      BY <2>1, <2>3, <3>1, SameObjects
    <3> QED BY <2>1, <3>2 DEF e
  <2> QED BY <2>1, <2>2, <2>3
<1> QED BY <1>1, <1>2, <1>3

LEMMA UpgradeInit == Upgrade!Init => UpgradeInv
<1> SUFFICES ASSUME Upgrade!Init PROVE UpgradeInv
  OBVIOUS
<1>1. app = "down" /\ at = 0
  BY DEF Upgrade!Init
<1>2. CASE db = Upgrade!Fresh
  <2>1. Installed(db)
    BY <1>2 DEF Installed, Upgrade!Fresh
  <2> QED BY <1>1, <1>2, <2>1, FreshIsWhole DEF UpgradeInv
<1>3. CASE db # Upgrade!Fresh
  <2>1. PICK v \in Upgrade!Supported : \E r \in Upgrade!Rows(v), caption \in BOOLEAN, output \in BOOLEAN :
               db = Upgrade!Left(v, r, caption, output)
    BY <1>3 DEF Upgrade!Init
  <2>2. PICK r \in Upgrade!Rows(v), caption \in BOOLEAN, output \in BOOLEAN :
               db = Upgrade!Left(v, r, caption, output)
    BY <2>1
  <2>3. db \in Databases /\ db.version # 0 /\ Work(db)
    BY <2>2, LeftIsWork
  <2> QED BY <1>1, <2>3 DEF UpgradeInv
<1> QED BY <1>2, <1>3

LEMMA UpgradeNext == UpgradeInv /\ Upgrade!Next => UpgradeInv'
<1> SUFFICES ASSUME UpgradeInv, Upgrade!Next PROVE UpgradeInv'
  OBVIOUS
<1>1. CASE Upgrade!Install
  <2>1. /\ db.version = 0 /\ db.row = Absent /\ db \in Databases
        /\ at' = Upgrade!Current /\ app' = "upgrading"
        /\ db' = [Upgrade!Baseline(db) EXCEPT !.version = Upgrade!Current]
    BY <1>1 DEF Upgrade!Install, UpgradeInv, Installed
  <2>2. Upgrade!ObjectsOf(Upgrade!Current) \in Objects
    BY DEF Upgrade!ObjectsOf, Objects
  <2>4. "stt-async-v5" \in Runs /\ "plain" \in Indexes /\ Upgrade!Current \in Versions
    BY DEF Runs, Indexes, Versions
  <2>3. /\ db' \in Databases /\ db'.version = Upgrade!Current /\ db'.row = Absent
        /\ db'.objects = Upgrade!ObjectsOf(Upgrade!Current)
    BY <2>1, <2>2, <2>4 DEF Upgrade!Baseline, Databases
  <2> QED BY <2>1, <2>3 DEF UpgradeInv, Installed
<1>2. CASE Upgrade!Launch
  BY <1>2 DEF Upgrade!Launch, Upgrade!Dispatched, UpgradeInv, Installed
<1>3. CASE Upgrade!RefuseVersion
  BY <1>3 DEF Upgrade!RefuseVersion, UpgradeInv, Installed
<1>4. CASE Upgrade!Refuse
  BY <1>4 DEF Upgrade!Refuse, UpgradeInv, Installed
<1>5. CASE Upgrade!Upgrade
  <2>1. /\ db \in Databases /\ at \in {0} \cup Upgrade!Supported /\ db.version # 0
        /\ Installed(db) \/ Work(db)
        /\ app' = "upgrading" /\ db' = Upgrade!Upgraded(db, at) /\ at' = at + 1
        /\ at # Upgrade!Current /\ db.objects = Upgrade!ObjectsOf(at)
        /\ at = Upgrade!Multilingual => ~Upgrade!Collides(db)
    BY <1>5 DEF Upgrade!Upgrade, UpgradeInv, Upgrade!ValidBaseline
  <2>2. at # 0
    BY <1>5 DEF Upgrade!Upgrade, UpgradeInv
  <2>3. db' \in Databases /\ db'.version # 0 /\ (Installed(db') \/ Work(db'))
    BY <2>1, <2>2, UpgradedIsWork
  <2> QED BY <2>1, <2>2, <2>3 DEF UpgradeInv
<1>6. CASE Upgrade!Retire
  <2>1. /\ db \in Databases /\ at' = at /\ db' = [db EXCEPT !.caption = FALSE]
        /\ db.objects = Upgrade!ObjectsOf(Upgrade!Current) /\ app' = "open" /\ db.version # 0
        /\ Installed(db) \/ Work(db)
    BY <1>6 DEF Upgrade!Retire, UpgradeInv, Upgrade!ValidBaseline
  <2>2. /\ db' \in Databases /\ db'.objects = db.objects /\ db'.row = db.row /\ db'.lanes = db.lanes
        /\ db'.desired = db.desired /\ db'.mutation = db.mutation /\ db'.version = db.version
    BY <2>1 DEF Databases
  <2>3. Work(db) => Work(db')
    BY <2>1, <2>2, SameObjects
  <2> QED BY <2>1, <2>2, <2>3 DEF UpgradeInv, Installed
<1>7. CASE Upgrade!Die
  BY <1>7 DEF Upgrade!Die, UpgradeInv, Installed
<1> QED BY <1>1, <1>2, <1>3, <1>4, <1>5, <1>6, <1>7 DEF Upgrade!Next

LEMMA UpgradeInvIsKept == UpgradeInv => UpgradeKeepsWork
BY DEF UpgradeInv, UpgradeKeepsWork, Upgrade!UpgradeKeepsWork, Installed, Work, Kept, Upgrade!ObjectsOf

LEMMA UpgradeUnchanged == UpgradeInv /\ UNCHANGED upgradeVars => UpgradeInv'
BY DEF UpgradeInv, upgradeVars, Installed, Work, Addressed, Laned, Kept, Upgrade!Lanes, Upgrade!Committable

(* Whatever version of the program wrote a database and wherever upgrades  *)
(* of it were cut short, when it opens everything the user had is there.   *)
(* It is about run_migrations and the row rewrites of its steps.           *)
THEOREM UpgradeHolds == StoresSpec => []UpgradeKeepsWork
<1>1. InitStores => UpgradeInv
  BY UpgradeInit DEF InitStores
<1>2. UpgradeInv /\ [NextStores]_<<fileVars, upgradeVars, packVars, part>> => UpgradeInv'
  <2>1. UpgradeInv /\ NextStores => UpgradeInv'
    BY UpgradeNext, UpgradeUnchanged DEF NextStores, upgradeVars
  <2>2. UpgradeInv /\ UNCHANGED <<fileVars, upgradeVars, packVars, part>> => UpgradeInv'
    BY UpgradeUnchanged DEF upgradeVars
  <2> QED BY <2>1, <2>2
<1> QED BY <1>1, <1>2, UpgradeInvIsKept, PTL DEF StoresSpec

-----------------------------------------------------------------------------
(* The context packs.  What a row and a call look like; what a call        *)
(* carries besides its pack is not told apart.                             *)
PackRows == [scope : {Nothing, "private", "library"}, rev : Nat, dead : BOOLEAN]
SourceRows(V) == [pack : Packs!Pack \cup {Nothing}, text : V, rev : Nat, dead : BOOLEAN]
Calls(V) == [op : Packs!Op \cup {Nothing}, pc : Packs!Step \cup {Nothing}, pack : Packs!Pack \cup {Nothing},
             from : V, todo : V, rows : V, src : V, rev : V, gone : V]

PacksShape ==
    /\ pack \in [Packs!Pack -> PackRows]
    /\ keys \subseteq Packs!Pack \cup {Packs!Snapshot}
    /\ made \in [pack : 0..MaxPack, source : 0..MaxSource]
    /\ lock \in Caller \cup {Nothing}
    /\ faults \in Nat
    /\ \E V : calling \in [Caller -> Calls(V)]
    /\ \E V : source \in [Packs!Source -> SourceRows(V)]

(* Steps at which a call has a pack; at which the pack it made may not be  *)
(* in the table; at which key and row of its pack may differ.              *)
Placed == {"insert", "take_back", "key", "store", "next", "remove_row", "remove_key", "destroy", "bury",
           "replace_key", "replace_row"}
Bodiless == {"insert", "take_back", "remove_key"}
Unsettled == Bodiless \cup {"bury"}
Makes(c) ==
    \/ calling[c].pc \in {"insert", "take_back"}
    \/ Packs!Cleanup(c) /\ calling[c].pc \in {"next", "key", "store", "remove_row", "remove_key"}

(* What holds of a call, by the step it is at.                             *)
CallIsSound(c) ==
    LET p == calling[c].pack
        pc == calling[c].pc
        src == calling[c].src
    IN  /\ p # Nothing => p \in 1..made.pack
        /\ pc \in Placed => p # Nothing
        /\ pc \in {"private", "take_back"} => Packs!Making(c) = "private"
        /\ pc \in {"remove_row", "remove_key"} => Packs!Cleanup(c)
        /\ pc \in Bodiless => pack[p] = Packs!NoPack
        /\ pc = "insert" /\ faults = 0 => p \in keys
        /\ pc \in {"destroy", "bury"} => lock = c /\ Packs!Library(p)
        /\ pc = "bury" => p \notin keys
        /\ pc \in {"replace_key", "replace_row"} =>
              src \in 1..made.source /\ source[src].pack \in {Nothing, p}

(* No two calls make the same pack.                                        *)
MakersDiffer ==
    \A c, d \in Caller : c # d /\ Makes(c) /\ Makes(d) => calling[c].pack # calling[d].pack

(* A pack that was never made has no row and no key; one with a row has a  *)
(* scope; a source is of a pack with a row.                                *)
RowsAreWhole ==
    /\ \A p \in Packs!Pack : p > made.pack => pack[p] = Packs!NoPack /\ p \notin keys
    /\ \A p \in Packs!Pack : pack[p] # Packs!NoPack => pack[p].scope # Nothing
    /\ \A s \in Packs!Source : source[s].pack # Nothing =>
          /\ s <= made.source
          /\ pack[source[s].pack] # Packs!NoPack

(* Until something fails, a pack has a key exactly while it is active, but *)
(* for the packs of calls between the two.                                 *)
KeysAreSettled ==
    faults = 0 =>
      \A p \in Packs!Pack :
         \/ p \in keys <=> Packs!ActivePack(p)
         \/ \E c \in Caller : calling[c].pc \in Unsettled /\ calling[c].pack = p

PacksInv ==
    /\ PacksShape
    /\ \A c \in Caller : CallIsSound(c)
    /\ MakersDiffer /\ RowsAreWhole /\ KeysAreSettled
    /\ Packs!DeletedIsUnreadable

USE DEF Packs!At, Packs!Go, Packs!Return, Packs!Rows, Packs!Free, Packs!NoPack, Packs!NoSource

LEMMA PackFacts ==
  /\ \A p : p \in Packs!Pack <=> p \in Nat /\ 1 <= p /\ p <= MaxPack
  /\ \A s : s \in Packs!Source <=> s \in Nat /\ 1 <= s /\ s <= MaxSource
  /\ Packs!Snapshot \notin Packs!Pack
  /\ MaxPack \in Nat /\ MaxSource \in Nat
  /\ Nothing \notin Caller /\ Nothing \notin Packs!Pack
  /\ \A x \in Packs!Op \cup Packs!Step \cup {"private", "library"} : x # Nothing
BY ContextAssumption DEF Packs!PacksAssumption, Packs!Pack, Packs!Source, Packs!Snapshot

LEMMA IdleCall ==
  /\ \E W : Packs!Idle \in Calls(W)
  /\ Packs!Idle.op = Nothing /\ Packs!Idle.pc = Nothing /\ Packs!Idle.pack = Nothing
  /\ Packs!Idle.from = Nothing /\ Packs!Idle.src = Nothing
<1> DEFINE W == {Nothing, <<>>, {}, 0}
<1>1. Nothing \in W /\ <<>> \in W /\ {} \in W /\ 0 \in W
  OBVIOUS
<1> HIDE DEF W
<1>2. Packs!Idle \in Calls(W)
  BY <1>1 DEF Packs!Idle, Calls
<1> QED BY <1>2 DEF Packs!Idle

(* What a step does to the calls, as far as it is told apart: one of them  *)
(* moves.                                                                  *)
Moved(c, op, pc, p, from, src) ==
    /\ \A d \in Caller : d # c => calling'[d] = calling[d]
    /\ calling'[c].op = op /\ calling'[c].pc = pc /\ calling'[c].pack = p
    /\ calling'[c].from = from /\ calling'[c].src = src

LEMMA NewCall ==
  ASSUME \E V : calling \in [Caller -> Calls(V)], NEW c \in Caller, NEW r, \E W : r \in Calls(W),
         calling' = [calling EXCEPT ![c] = r]
  PROVE  /\ \E X : calling' \in [Caller -> Calls(X)]
         /\ Moved(c, r.op, r.pc, r.pack, r.from, r.src)
<1>1. PICK V : calling \in [Caller -> Calls(V)]
  OBVIOUS
<1>2. PICK W : r \in Calls(W)
  OBVIOUS
<1>3. /\ \A q \in Calls(V) : q \in Calls(V \cup W)
      /\ r \in Calls(V \cup W)
  BY <1>2 DEF Calls
<1>4. calling' \in [Caller -> Calls(V \cup W)]
  BY <1>1, <1>3
<1> QED BY <1>1, <1>4 DEF Moved

(* A call goes on with its pack.                                           *)
LEMMA GoesOn ==
  ASSUME PacksShape, NEW c \in Caller, NEW pc \in Packs!Step,
         calling' = [calling EXCEPT ![c].pc = pc]
  PROVE  /\ \E X : calling' \in [Caller -> Calls(X)]
         /\ Moved(c, calling[c].op, pc, calling[c].pack, calling[c].from, calling[c].src)
<1>1. PICK V : calling \in [Caller -> Calls(V)]
  BY DEF PacksShape
<1>2. calling' \in [Caller -> Calls(V)]
  BY <1>1 DEF Calls
<1> QED BY <1>1, <1>2 DEF Moved, Calls

(* A call that goes on and has something else at hand.                     *)
LEMMA Turns ==
  ASSUME PacksShape, NEW c \in Caller, NEW pc \in Packs!Step, NEW x, NEW y,
         \/ calling' = [calling EXCEPT ![c].pc = pc, ![c].rows = x]
         \/ calling' = [calling EXCEPT ![c].pc = pc, ![c].todo = x]
         \/ calling' = [calling EXCEPT ![c].todo = x, ![c].pc = pc]
         \/ calling' = [calling EXCEPT ![c].pc = pc, ![c].todo = x, ![c].rows = y]
  PROVE  /\ \E X : calling' \in [Caller -> Calls(X)]
         /\ Moved(c, calling[c].op, pc, calling[c].pack, calling[c].from, calling[c].src)
<1>1. PICK V : calling \in [Caller -> Calls(V)]
  BY DEF PacksShape
<1> DEFINE X == V \cup {x, y}
<1>2. calling \in [Caller -> Calls(X)] /\ x \in X /\ y \in X
  BY <1>1 DEF Calls
<1> HIDE DEF X
<1>3. calling' \in [Caller -> Calls(X)]
  BY <1>2 DEF Calls
<1>4. Moved(c, calling[c].op, pc, calling[c].pack, calling[c].from, calling[c].src)
  BY <1>2 DEF Moved, Calls
<1> QED BY <1>3, <1>4

LEMMA Reads ==
  ASSUME PacksShape, NEW c \in Caller, NEW x, NEW y,
         calling' = [calling EXCEPT ![c].todo = x, ![c].rows = y]
  PROVE  /\ \E X : calling' \in [Caller -> Calls(X)]
         /\ Moved(c, calling[c].op, calling[c].pc, calling[c].pack, calling[c].from, calling[c].src)
<1>1. PICK V : calling \in [Caller -> Calls(V)]
  BY DEF PacksShape
<1> DEFINE X == V \cup {x, y}
<1>2. calling \in [Caller -> Calls(X)] /\ x \in X /\ y \in X
  BY <1>1 DEF Calls
<1> HIDE DEF X
<1>3. calling' \in [Caller -> Calls(X)]
  BY <1>2 DEF Calls
<1> QED BY <1>2, <1>3 DEF Moved, Calls

LEMMA TakesPack ==
  ASSUME PacksShape, NEW c \in Caller, NEW pc \in Packs!Step, NEW p \in Packs!Pack,
         calling' = [calling EXCEPT ![c].pc = pc, ![c].pack = p]
  PROVE  /\ \E X : calling' \in [Caller -> Calls(X)]
         /\ Moved(c, calling[c].op, pc, p, calling[c].from, calling[c].src)
<1>1. PICK V : calling \in [Caller -> Calls(V)]
  BY DEF PacksShape
<1>2. calling' \in [Caller -> Calls(V)]
  BY <1>1 DEF Calls
<1> QED BY <1>1, <1>2 DEF Moved, Calls

LEMMA CopiesFrom ==
  ASSUME PacksShape, NEW c \in Caller, NEW pc \in Packs!Step, NEW p \in Packs!Pack,
         calling' = [calling EXCEPT ![c].pc = pc, ![c].from = p]
  PROVE  /\ \E X : calling' \in [Caller -> Calls(X)]
         /\ Moved(c, calling[c].op, pc, calling[c].pack, p, calling[c].src)
<1>1. PICK V : calling \in [Caller -> Calls(V)]
  BY DEF PacksShape
<1> DEFINE X == V \cup {p}
<1>2. calling \in [Caller -> Calls(X)] /\ p \in X
  BY <1>1 DEF Calls
<1> HIDE DEF X
<1>3. calling' \in [Caller -> Calls(X)]
  BY <1>2 DEF Calls
<1> QED BY <1>2, <1>3 DEF Moved, Calls

LEMMA Returns ==
  ASSUME PacksShape, NEW c \in Caller, calling' = [calling EXCEPT ![c] = Packs!Idle]
  PROVE  /\ \E X : calling' \in [Caller -> Calls(X)]
         /\ Moved(c, Nothing, Nothing, Nothing, Nothing, Nothing)
<1>1. \E V : calling \in [Caller -> Calls(V)]
  BY DEF PacksShape
<1> QED BY <1>1, IdleCall, NewCall

(* A call begins with its pack and its source.                             *)
LEMMA Begins ==
  ASSUME PacksShape, NEW c \in Caller, NEW op \in Packs!Op, NEW pc \in Packs!Step, NEW r,
         \E W : r \in Calls(W), Packs!Begin(c, op, pc, r)
  PROVE  /\ \E X : calling' \in [Caller -> Calls(X)]
         /\ Moved(c, op, pc, r.pack, r.from, r.src)
         /\ calling[c].op = Nothing /\ calling[c].pc = Nothing /\ calling[c].pack = Nothing
<1> DEFINE q == [r EXCEPT !.op = op, !.pc = pc, !.gone = Packs!Gone]
<1>1. calling' = [calling EXCEPT ![c] = q] /\ calling[c] = Packs!Idle
  BY DEF Packs!Begin
<1>2. PICK W : r \in Calls(W)
  OBVIOUS
<1>3. /\ q \in Calls(W \cup {Packs!Gone})
      /\ q.op = op /\ q.pc = pc /\ q.pack = r.pack /\ q.from = r.from /\ q.src = r.src
  BY <1>2 DEF Calls
<1> HIDE DEF q
<1>4. \E V : calling \in [Caller -> Calls(V)]
  BY DEF PacksShape
<1>5. /\ \E X : calling' \in [Caller -> Calls(X)]
      /\ Moved(c, q.op, q.pc, q.pack, q.from, q.src)
  BY <1>1, <1>3, <1>4, NewCall
<1> QED BY <1>1, <1>3, <1>5, IdleCall

(* A step of one call that leaves rows, keys and locks alone.              *)
LEMMA QuietStep ==
  ASSUME PacksInv, NEW c \in Caller, UNCHANGED <<pack, source, keys, made, lock, faults>>,
         \E X : calling' \in [Caller -> Calls(X)],
         \A d \in Caller : d # c => calling'[d] = calling[d],
         CallIsSound(c)',
         Makes(c)' => Makes(c) /\ calling'[c].pack = calling[c].pack,
         calling[c].pc \in Unsettled =>
            calling'[c].pc \in Unsettled /\ calling'[c].pack = calling[c].pack
  PROVE  PacksInv'
<1>1. PacksShape'
  BY DEF PacksInv, PacksShape
<1>2. ASSUME NEW d \in Caller PROVE CallIsSound(d)'
  <2>1. CASE d = c
    BY <2>1
  <2>2. CASE d # c
    <3>1. CallIsSound(d) /\ calling'[d] = calling[d]
      BY <2>2 DEF PacksInv
    <3> QED BY <3>1 DEF CallIsSound, Packs!Making, Packs!Cleanup, Packs!Library, Packs!ActivePack
  <2> QED BY <2>1, <2>2
<1>3. MakersDiffer'
  <2>1. \A d \in Caller : d # c => (Makes(d)' <=> Makes(d))
    BY DEF Makes, Packs!Cleanup
  <2> QED BY <2>1 DEF PacksInv, MakersDiffer
<1>4. RowsAreWhole' /\ Packs!DeletedIsUnreadable'
  BY DEF PacksInv, RowsAreWhole, Packs!DeletedIsUnreadable
<1>5. KeysAreSettled'
  <2> SUFFICES ASSUME faults = 0, NEW p \in Packs!Pack,
                      NEW d \in Caller, calling[d].pc \in Unsettled, calling[d].pack = p
               PROVE  \E e \in Caller : calling'[e].pc \in Unsettled /\ calling'[e].pack = p
    BY DEF PacksInv, KeysAreSettled, Packs!ActivePack
  <2> QED OBVIOUS
<1> QED BY <1>1, <1>2, <1>3, <1>4, <1>5 DEF PacksInv

(* A call that goes on to a step at which nothing is asked of it but that  *)
(* its pack was made.                                                      *)
Harmless == {"mint", "bind", "list", "bindings", "pack_key", "pack_rows", "freeze", "freeze_row", Nothing}
LEMMA QuietMove ==
  ASSUME PacksInv, NEW c \in Caller, UNCHANGED <<pack, source, keys, made, lock, faults>>,
         \E X : calling' \in [Caller -> Calls(X)],
         NEW op, NEW pc \in Harmless, NEW p, NEW from, NEW src, Moved(c, op, pc, p, from, src),
         p # Nothing => p \in 1..made.pack, calling[c].pc \notin Unsettled
  PROVE  PacksInv'
<1>1. /\ pc \notin Placed /\ pc \notin Bodiless /\ pc \notin {"private", "insert", "destroy", "bury"}
      /\ pc \notin {"insert", "take_back", "next", "key", "store", "remove_row", "remove_key"}
  BY PackFacts DEF Harmless, Placed, Bodiless, Packs!Step
<1>2. CallIsSound(c)'
  BY <1>1 DEF CallIsSound, Moved, Placed
<1>3. ~Makes(c)'
  BY <1>1 DEF Makes, Moved
<1> QED BY <1>2, <1>3, QuietStep DEF Moved

LEMMA QuietReturn ==
  ASSUME PacksInv, NEW c \in Caller, UNCHANGED <<pack, source, keys, made, lock, faults>>,
         calling' = [calling EXCEPT ![c] = Packs!Idle], calling[c].pc \notin Unsettled
  PROVE  PacksInv'
BY Returns, QuietMove DEF PacksInv, Harmless

LEMMA QuietGo ==
  ASSUME PacksInv, NEW c \in Caller, UNCHANGED <<pack, source, keys, made, lock, faults>>,
         NEW pc \in Packs!Step \cap Harmless, calling' = [calling EXCEPT ![c].pc = pc],
         calling[c].pc \notin Unsettled
  PROVE  PacksInv'
<1>1. calling[c].pack # Nothing => calling[c].pack \in 1..made.pack
  BY DEF PacksInv, CallIsSound
<1> QED BY <1>1, GoesOn, QuietMove DEF PacksInv

(* A call fails while it fills or reads a pack: an import cleans up.       *)
LEMMA QuietFailure ==
  ASSUME PacksInv, NEW c \in Caller, UNCHANGED <<pack, source, keys, made, lock, faults>>,
         Packs!Fails(c), calling[c].pc \in {"next", "key", "store"}
  PROVE  PacksInv'
<1>1. CASE Packs!Cleanup(c)
  <2>1. /\ \E X : calling' \in [Caller -> Calls(X)]
        /\ Moved(c, calling[c].op, "remove_row", calling[c].pack, calling[c].from, calling[c].src)
    BY <1>1, GoesOn DEF PacksInv, Packs!Fails, Packs!Step
  <2>2. CallIsSound(c)'
    BY <1>1, <2>1 DEF PacksInv, CallIsSound, Moved, Placed, Bodiless, Packs!Cleanup
  <2>3. Makes(c) /\ calling'[c].pack = calling[c].pack /\ calling[c].pc \notin Unsettled
    BY <1>1, <2>1 DEF Makes, Moved, Unsettled, Bodiless
  <2> QED BY <2>1, <2>2, <2>3, QuietStep DEF Moved
<1>2. CASE ~Packs!Cleanup(c)
  BY <1>2, QuietReturn DEF Packs!Fails, Unsettled, Bodiless
<1> QED BY <1>1, <1>2

(* A call begins.                                                          *)
LEMMA QuietBegin ==
  ASSUME PacksInv, NEW c \in Caller, UNCHANGED <<pack, source, keys, made, lock, faults>>,
         NEW op \in Packs!Op, NEW pc \in Packs!Step, NEW r, \E W : r \in Calls(W), Packs!Begin(c, op, pc, r),
         r.pack # Nothing => r.pack \in 1..made.pack,
         \/ pc \in Harmless
         \/ pc = "private" /\ op \in {"open", "preview", "start"}
         \/ pc = "private" /\ op = "copy" /\ r.from = Nothing
         \/ pc = "key" /\ op = "import" /\ r.pack # Nothing
         \/ pc = "replace_key" /\ r.pack # Nothing /\ r.src \in 1..made.source /\ source[r.src].pack = r.pack
  PROVE  PacksInv'
<1>1. /\ \E X : calling' \in [Caller -> Calls(X)]
      /\ Moved(c, op, pc, r.pack, r.from, r.src)
      /\ calling[c].op = Nothing /\ calling[c].pc = Nothing /\ calling[c].pack = Nothing
  BY Begins DEF PacksInv
<1>2. calling[c].pc \notin Unsettled
  BY <1>1, PackFacts DEF Unsettled, Bodiless, Packs!Step
<1>3. CASE pc \in Harmless
  BY <1>1, <1>2, <1>3, QuietMove
<1>4. CASE pc \notin Harmless
  <2>1. CallIsSound(c)'
    BY <1>1, <1>4 DEF CallIsSound, Moved, Placed, Bodiless, Packs!Making
  <2>2. ~Makes(c)'
    BY <1>1, <1>4 DEF Makes, Moved, Packs!Cleanup
  <2> QED BY <1>1, <1>2, <2>1, <2>2, QuietStep DEF Moved
<1> QED BY <1>3, <1>4

(* The steps that only move their call.                                    *)
LEMMA CreatingIsQuiet ==
  ASSUME PacksInv, NEW c \in Caller,
         \/ Packs!InsertRefused(c) \/ Packs!FindPrivate(c)
         \/ Packs!OpenNotebook(c) \/ Packs!CreateLibraryPack(c)
  PROVE  PacksInv'
<1>1. CASE Packs!InsertRefused(c)
  <2>1. /\ \E X : calling' \in [Caller -> Calls(X)]
        /\ Moved(c, calling[c].op, "take_back", calling[c].pack, calling[c].from, calling[c].src)
        /\ calling[c].pc = "insert" /\ Packs!Making(c) = "private"
        /\ UNCHANGED <<pack, source, keys, made, lock, faults>>
    BY <1>1, GoesOn DEF PacksInv, Packs!InsertRefused, Packs!Step
  <2>2. CallIsSound(c)'
    BY <2>1 DEF PacksInv, CallIsSound, Moved, Placed, Bodiless, Packs!Making
  <2>3. Makes(c)
    BY <2>1 DEF Makes
  <2> QED BY <2>1, <2>2, <2>3, QuietStep DEF Moved, Unsettled, Bodiless
<1>2. CASE Packs!FindPrivate(c)
  <2>1. /\ calling[c].pc = "private" /\ Packs!Making(c) = "private"
        /\ UNCHANGED <<pack, source, keys, made, lock, faults>>
    BY <1>2 DEF PacksInv, CallIsSound, Packs!FindPrivate
  <2>2. calling[c].pc \notin Unsettled
    BY <2>1 DEF Unsettled, Bodiless
  <2>3. CASE Packs!PrivatePacks = {}
    BY <1>2, <2>1, <2>2, <2>3, QuietGo DEF Packs!FindPrivate, Harmless, Packs!Step
  <2>4. ASSUME NEW p \in Packs!PrivatePacks, Packs!AfterPack(c, p) PROVE PacksInv'
    <3>1. p \in Packs!Pack /\ p \in 1..made.pack
      BY PackFacts DEF PacksInv, RowsAreWhole, Packs!PrivatePacks, Packs!ActivePack, PacksShape
    <3>2. CASE calling[c].op \in {"preview", "start"}
      <4>1. /\ \E X : calling' \in [Caller -> Calls(X)]
            /\ Moved(c, calling[c].op, "bindings", p, calling[c].from, calling[c].src)
        BY <2>4, <3>1, <3>2, TakesPack DEF Packs!AfterPack, PacksInv, Packs!Step
      <4> QED BY <2>1, <2>2, <3>1, <4>1, QuietMove DEF Harmless
    <3>3. CASE calling[c].op = "copy" /\ calling[c].from = Nothing
      <4>1. /\ \E X : calling' \in [Caller -> Calls(X)]
            /\ Moved(c, calling[c].op, "list", calling[c].pack, p, calling[c].src)
        BY <2>4, <3>1, <3>3, CopiesFrom DEF Packs!AfterPack, PacksInv, Packs!Step
      <4>2. calling[c].pack # Nothing => calling[c].pack \in 1..made.pack
        BY DEF PacksInv, CallIsSound
      <4> QED BY <2>1, <2>2, <4>1, <4>2, QuietMove DEF Harmless
    <3>4. CASE ~(calling[c].op \in {"preview", "start"}) /\ ~(calling[c].op = "copy" /\ calling[c].from = Nothing)
      <4>1. calling[c].op = "open"
        BY <2>1, <3>4 DEF Packs!Making
      <4>2. calling' = [calling EXCEPT ![c] = Packs!Idle]
        BY <2>4, <4>1 DEF Packs!AfterPack
      <4> QED BY <2>1, <2>2, <4>2, QuietReturn
    <3> QED BY <3>2, <3>3, <3>4
  <2> QED BY <1>2, <2>3, <2>4 DEF Packs!FindPrivate
<1>3. CASE Packs!OpenNotebook(c)
  BY <1>3, IdleCall, QuietBegin DEF Packs!OpenNotebook, Packs!Op, Packs!Step
<1>4. CASE Packs!CreateLibraryPack(c)
  BY <1>4, IdleCall, QuietBegin DEF Packs!CreateLibraryPack, Packs!Op, Packs!Step, Harmless
<1> QED BY <1>1, <1>2, <1>3, <1>4

(* Of the pack of a row.                                                   *)
LEMMA RowWasMade ==
  ASSUME PacksInv, NEW p \in Packs!Pack, Packs!ActivePack(p)
  PROVE  p \in 1..made.pack /\ p # Nothing /\ pack[p] # Packs!NoPack
BY PackFacts DEF PacksInv, RowsAreWhole, Packs!ActivePack, PacksShape

LEMMA IdleWith ==
  ASSUME NEW p \in Packs!Pack, NEW x
  PROVE  /\ LET r == [Packs!Idle EXCEPT !.pack = p, !.todo = x]
            IN  (\E W : r \in Calls(W)) /\ r.pack = p
         /\ LET r == [Packs!Idle EXCEPT !.pack = p]
            IN  (\E W : r \in Calls(W)) /\ r.pack = p
         /\ LET r == [Packs!Idle EXCEPT !.pack = p, !.rev = x]
            IN  (\E W : r \in Calls(W)) /\ r.pack = p
<1>1. PICK W : Packs!Idle \in Calls(W)
  BY IdleCall
<1> DEFINE Y == W \cup {x}
<1>2. Packs!Idle \in Calls(Y) /\ x \in Y
  BY <1>1 DEF Calls
<1> HIDE DEF Y
<1>3. LET r == [Packs!Idle EXCEPT !.pack = p, !.todo = x] IN r \in Calls(Y) /\ r.pack = p
  BY <1>2 DEF Calls
<1>4. LET r == [Packs!Idle EXCEPT !.pack = p] IN r \in Calls(Y) /\ r.pack = p
  BY <1>2 DEF Calls
<1>5. LET r == [Packs!Idle EXCEPT !.pack = p, !.rev = x] IN r \in Calls(Y) /\ r.pack = p
  BY <1>2 DEF Calls
<1> QED BY <1>3, <1>4, <1>5

OfSource(p, s, n, x) == [Packs!Idle EXCEPT !.pack = p, !.src = s, !.rev = n, !.todo = x]
LEMMA IdleWithSource ==
  ASSUME NEW p \in Packs!Pack, NEW s, NEW n, NEW x
  PROVE  /\ \E W : OfSource(p, s, n, x) \in Calls(W)
         /\ OfSource(p, s, n, x).pack = p /\ OfSource(p, s, n, x).src = s
<1>1. PICK W : Packs!Idle \in Calls(W)
  BY IdleCall
<1> DEFINE Y == W \cup {x, s, n}
<1>2. Packs!Idle \in Calls(Y) /\ x \in Y /\ s \in Y /\ n \in Y
  BY <1>1 DEF Calls
<1> HIDE DEF Y
<1>3. /\ OfSource(p, s, n, x) \in Calls(Y)
      /\ OfSource(p, s, n, x).pack = p /\ OfSource(p, s, n, x).src = s
  BY <1>2 DEF Calls, OfSource
<1> QED BY <1>3

LEMMA NoPackYet ==
  ASSUME NEW x
  PROVE  /\ LET r == [Packs!Idle EXCEPT !.todo = x] IN (\E W : r \in Calls(W)) /\ r.pack = Nothing
         /\ LET r == [Packs!Idle EXCEPT !.from = x] IN (\E W : r \in Calls(W)) /\ r.pack = Nothing
<1>1. PICK W : Packs!Idle \in Calls(W)
  BY IdleCall
<1> DEFINE Y == W \cup {x}
<1>2. Packs!Idle \in Calls(Y) /\ x \in Y /\ Packs!Idle.pack = Nothing
  BY <1>1, IdleCall DEF Calls
<1> HIDE DEF Y
<1>3. LET r == [Packs!Idle EXCEPT !.todo = x] IN r \in Calls(Y) /\ r.pack = Nothing
  BY <1>2 DEF Calls
<1>4. LET r == [Packs!Idle EXCEPT !.from = x] IN r \in Calls(Y) /\ r.pack = Nothing
  BY <1>2 DEF Calls
<1> QED BY <1>3, <1>4

(* The steps of editing that only move their call.                         *)
LEMMA EditingIsQuiet ==
  ASSUME PacksInv, NEW c \in Caller,
         \/ Packs!Bind(c) \/ Packs!BindRow(c) \/ Packs!Unbind(c) \/ Packs!ImportSource(c)
         \/ Packs!LoadKey(c) \/ Packs!ReplaceSource(c) \/ Packs!ReplaceKey(c)
  PROVE  PacksInv'
<1> USE DEF Packs!Op, Packs!Step
<1>1. CASE Packs!Bind(c)
  <2>1. PICK p \in Packs!Pack : /\ Packs!Library(p)
                                /\ Packs!Begin(c, "bind", "bind", [Packs!Idle EXCEPT !.pack = p])
    BY <1>1 DEF Packs!Bind
  <2>2. p \in 1..made.pack
    BY <2>1, RowWasMade DEF Packs!Library
  <2>3. UNCHANGED <<pack, source, keys, made, lock, faults>>
    BY <1>1 DEF Packs!Bind
  <2> DEFINE r == [Packs!Idle EXCEPT !.pack = p]
  <2>4. (\E W : r \in Calls(W)) /\ r.pack = p
    BY IdleWith
  <2>5. Packs!Begin(c, "bind", "bind", r)
    BY <2>1
  <2> HIDE DEF r
  <2> QED BY <2>2, <2>3, <2>4, <2>5, QuietBegin DEF Harmless
<1>2. CASE Packs!BindRow(c)
  BY <1>2, QuietReturn DEF Packs!BindRow, Unsettled, Bodiless
<1>3. CASE Packs!Unbind(c)
  <2>1. UNCHANGED <<pack, source, keys, made, lock, faults, calling>>
    BY <1>3 DEF Packs!Unbind
  <2>2. CallIsSound(c)' /\ (Makes(c)' <=> Makes(c)) /\ \E X : calling' \in [Caller -> Calls(X)]
    BY <2>1 DEF PacksInv, PacksShape, CallIsSound, Packs!Making, Packs!Cleanup, Packs!Library,
                Packs!ActivePack, Makes
  <2> QED BY <2>1, <2>2, QuietStep
<1>4. CASE Packs!ImportSource(c)
  <2>1. PICK p \in Packs!Pack, t \in Text :
           /\ Packs!ActivePack(p)
           /\ Packs!Begin(c, "import", "key", [Packs!Idle EXCEPT !.pack = p, !.todo = <<t>>])
    BY <1>4 DEF Packs!ImportSource
  <2>2. p \in 1..made.pack /\ p # Nothing
    BY <2>1, RowWasMade
  <2>3. UNCHANGED <<pack, source, keys, made, lock, faults>>
    BY <1>4 DEF Packs!ImportSource
  <2> DEFINE r == [Packs!Idle EXCEPT !.pack = p, !.todo = <<t>>]
  <2>4. (\E W : r \in Calls(W)) /\ r.pack = p
    BY IdleWith
  <2>5. Packs!Begin(c, "import", "key", r)
    BY <2>1
  <2> HIDE DEF r
  <2> QED BY <2>2, <2>3, <2>4, <2>5, QuietBegin DEF Harmless
<1>5. CASE Packs!LoadKey(c)
  <2>1. /\ calling[c].pc = "key" /\ calling[c].pc \notin Unsettled
        /\ UNCHANGED <<pack, source, keys, made, lock, faults>>
        /\ Packs!Go(c, "store") \/ Packs!Fails(c)
    BY <1>5 DEF Packs!LoadKey, Unsettled, Bodiless
  <2>2. CASE Packs!Go(c, "store")
    <3>1. /\ \E X : calling' \in [Caller -> Calls(X)]
          /\ Moved(c, calling[c].op, "store", calling[c].pack, calling[c].from, calling[c].src)
      BY <2>2, GoesOn DEF PacksInv
    <3>2. CallIsSound(c)'
      BY <2>1, <3>1 DEF PacksInv, CallIsSound, Moved, Placed, Bodiless
    <3>3. Makes(c)' => Makes(c)
      BY <2>1, <3>1 DEF Makes, Moved, Packs!Cleanup
    <3> QED BY <2>1, <3>1, <3>2, <3>3, QuietStep DEF Moved
  <2>3. CASE Packs!Fails(c)
    BY <2>1, <2>3, QuietFailure
  <2> QED BY <2>1, <2>2, <2>3
<1>6. CASE Packs!ReplaceSource(c)
  <2>1. PICK s \in Packs!Source, t \in Text :
           /\ Packs!LiveSource(s) /\ Packs!ActivePack(source[s].pack)
           /\ Packs!Begin(c, "replace", "replace_key",
                [Packs!Idle EXCEPT !.pack = source[s].pack, !.src = s, !.rev = source[s].rev, !.todo = <<t>>])
    BY <1>6 DEF Packs!ReplaceSource
  <2>2. source[s].pack \in Packs!Pack /\ source[s].pack # Nothing /\ s \in 1..made.source
    BY <2>1, PackFacts DEF PacksInv, PacksShape, SourceRows, Packs!LiveSource, RowsAreWhole
  <2>3. source[s].pack \in 1..made.pack
    BY <2>1, <2>2, RowWasMade
  <2>4. UNCHANGED <<pack, source, keys, made, lock, faults>>
    BY <1>6 DEF Packs!ReplaceSource
  <2> DEFINE r == OfSource(source[s].pack, s, source[s].rev, <<t>>)
  <2>5. (\E W : r \in Calls(W)) /\ r.pack = source[s].pack /\ r.src = s
    BY <2>2, IdleWithSource
  <2>6. Packs!Begin(c, "replace", "replace_key", r)
    BY <2>1 DEF OfSource
  <2> HIDE DEF r
  <2> QED BY <2>2, <2>3, <2>4, <2>5, <2>6, QuietBegin
<1>7. CASE Packs!ReplaceKey(c)
  <2>1. /\ calling[c].pc = "replace_key" /\ calling[c].pc \notin Unsettled
        /\ UNCHANGED <<pack, source, keys, made, lock, faults>>
        /\ Packs!Go(c, "replace_row") \/ Packs!Return(c)
    BY <1>7 DEF Packs!ReplaceKey, Unsettled, Bodiless
  <2>2. CASE Packs!Go(c, "replace_row")
    <3>1. /\ \E X : calling' \in [Caller -> Calls(X)]
          /\ Moved(c, calling[c].op, "replace_row", calling[c].pack, calling[c].from, calling[c].src)
      BY <2>2, GoesOn DEF PacksInv
    <3>2. CallIsSound(c)'
      BY <2>1, <3>1 DEF PacksInv, CallIsSound, Moved, Placed, Bodiless
    <3>3. ~Makes(c)'
      BY <3>1 DEF Makes, Moved
    <3> QED BY <2>1, <3>1, <3>2, <3>3, QuietStep DEF Moved
  <2>3. CASE Packs!Return(c)
    BY <2>1, <2>3, QuietReturn
  <2> QED BY <2>1, <2>2, <2>3
<1> QED BY <1>1, <1>2, <1>3, <1>4, <1>5, <1>6, <1>7

(* The steps of filling a pack that only move their call.                  *)
LEMMA FillingIsQuiet ==
  ASSUME PacksInv, NEW c \in Caller,
         \/ Packs!ImportDocument(c) \/ Packs!CopyPrivate(c) \/ Packs!ListSources(c)
         \/ Packs!ReadForCopy(c) \/ Packs!NextSource(c)
  PROVE  PacksInv'
<1> USE DEF Packs!Op, Packs!Step
<1>1. CASE Packs!ImportDocument(c)
  <2>1. PICK t, u \in Text : Packs!Begin(c, "import_document", "mint", [Packs!Idle EXCEPT !.todo = <<t, u>>])
    BY <1>1 DEF Packs!ImportDocument
  <2>2. UNCHANGED <<pack, source, keys, made, lock, faults>>
    BY <1>1 DEF Packs!ImportDocument
  <2> DEFINE r == [Packs!Idle EXCEPT !.todo = <<t, u>>]
  <2>3. (\E W : r \in Calls(W)) /\ r.pack = Nothing
    BY NoPackYet
  <2>4. Packs!Begin(c, "import_document", "mint", r)
    BY <2>1
  <2> HIDE DEF r
  <2> QED BY <2>2, <2>3, <2>4, QuietBegin DEF Harmless
<1>2. CASE Packs!CopyPrivate(c)
  BY <1>2, IdleCall, QuietBegin DEF Packs!CopyPrivate
<1>3. CASE Packs!ListSources(c)
  <2>1. /\ calling[c].pc = "list" /\ calling[c].pc \notin Unsettled
        /\ UNCHANGED <<pack, source, keys, made, lock, faults>>
        /\ \E x : calling' = [calling EXCEPT ![c].pc = "mint", ![c].rows = x]
    BY <1>3 DEF Packs!ListSources, Unsettled, Bodiless
  <2>2. /\ \E X : calling' \in [Caller -> Calls(X)]
        /\ Moved(c, calling[c].op, "mint", calling[c].pack, calling[c].from, calling[c].src)
    BY <2>1, Turns DEF PacksInv
  <2>3. calling[c].pack # Nothing => calling[c].pack \in 1..made.pack
    BY DEF PacksInv, CallIsSound
  <2> QED BY <2>1, <2>2, <2>3, QuietMove DEF Harmless
<1>4. CASE Packs!ReadForCopy(c)
  <2>1. /\ calling[c].pc = "next" /\ calling[c].pc \notin Unsettled
        /\ UNCHANGED <<pack, source, keys, made, lock, faults>>
        /\ \/ \E x, y : calling' = [calling EXCEPT ![c].todo = x, ![c].rows = y]
           \/ Packs!Fails(c)
    BY <1>4 DEF Packs!ReadForCopy, Unsettled, Bodiless
  <2>2. CASE \E x, y : calling' = [calling EXCEPT ![c].todo = x, ![c].rows = y]
    <3>1. /\ \E X : calling' \in [Caller -> Calls(X)]
          /\ Moved(c, calling[c].op, "next", calling[c].pack, calling[c].from, calling[c].src)
      BY <2>1, <2>2, Reads DEF PacksInv
    <3>2. CallIsSound(c)'
      BY <2>1, <3>1 DEF PacksInv, CallIsSound, Moved, Placed, Bodiless
    <3>3. Makes(c)' => Makes(c)
      BY <2>1, <3>1 DEF Makes, Moved, Packs!Cleanup
    <3> QED BY <2>1, <3>1, <3>2, <3>3, QuietStep DEF Moved
  <2>3. CASE Packs!Fails(c)
    BY <2>1, <2>3, QuietFailure
  <2> QED BY <2>1, <2>2, <2>3
<1>5. CASE Packs!NextSource(c)
  <2>1. /\ calling[c].pc = "next" /\ calling[c].pc \notin Unsettled
        /\ UNCHANGED <<pack, source, keys, made, lock, faults>>
        /\ Packs!Go(c, "key") \/ Packs!Return(c) \/ Packs!Fails(c)
    BY <1>5 DEF Packs!NextSource, Unsettled, Bodiless
  <2>2. CASE Packs!Go(c, "key")
    <3>1. /\ \E X : calling' \in [Caller -> Calls(X)]
          /\ Moved(c, calling[c].op, "key", calling[c].pack, calling[c].from, calling[c].src)
      BY <2>2, GoesOn DEF PacksInv
    <3>2. CallIsSound(c)'
      BY <2>1, <3>1 DEF PacksInv, CallIsSound, Moved, Placed, Bodiless
    <3>3. Makes(c)' => Makes(c)
      BY <2>1, <3>1 DEF Makes, Moved, Packs!Cleanup
    <3> QED BY <2>1, <3>1, <3>2, <3>3, QuietStep DEF Moved
  <2>3. CASE Packs!Return(c)
    BY <2>1, <2>3, QuietReturn
  <2>4. CASE Packs!Fails(c)
    BY <2>1, <2>4, QuietFailure
  <2> QED BY <2>1, <2>2, <2>3, <2>4
<1> QED BY <1>1, <1>2, <1>3, <1>4, <1>5

(* The steps of sending that only move their call.                         *)
LEMMA SendingIsQuiet ==
  ASSUME PacksInv, NEW c \in Caller,
         \/ Packs!Preview(c) \/ Packs!StartRecording(c) \/ Packs!ListBindings(c) \/ Packs!PackKey(c)
         \/ Packs!PackRows(c) \/ Packs!ShowPreview(c) \/ Packs!Confirm(c) \/ Packs!FreezeRow(c)
  PROVE  PacksInv'
<1> USE DEF Packs!Op, Packs!Step
<1>1. CASE Packs!Preview(c)
  BY <1>1, IdleCall, QuietBegin DEF Packs!Preview
<1>2. CASE Packs!StartRecording(c)
  <2> DEFINE r == [Packs!Idle EXCEPT !.from = shown]
  <2>1. (\E W : r \in Calls(W)) /\ r.pack = Nothing
    BY NoPackYet
  <2>2. Packs!Begin(c, "start", "private", r)
    BY <1>2 DEF Packs!StartRecording
  <2>3. UNCHANGED <<pack, source, keys, made, lock, faults>>
    BY <1>2 DEF Packs!StartRecording
  <2> HIDE DEF r
  <2> QED BY <2>1, <2>2, <2>3, QuietBegin
<1>3. CASE Packs!ListBindings(c)
  <2>1. /\ calling[c].pc = "bindings" /\ calling[c].pc \notin Unsettled
        /\ UNCHANGED <<pack, source, keys, made, lock, faults>>
        /\ \/ Packs!Return(c)
           \/ \E x : calling' = [calling EXCEPT ![c].pc = "pack_key", ![c].todo = x]
    BY <1>3 DEF Packs!ListBindings, Unsettled, Bodiless
  <2>2. CASE \E x : calling' = [calling EXCEPT ![c].pc = "pack_key", ![c].todo = x]
    <3>1. /\ \E X : calling' \in [Caller -> Calls(X)]
          /\ Moved(c, calling[c].op, "pack_key", calling[c].pack, calling[c].from, calling[c].src)
      BY <2>2, Turns DEF PacksInv
    <3>2. calling[c].pack # Nothing => calling[c].pack \in 1..made.pack
      BY DEF PacksInv, CallIsSound
    <3> QED BY <2>1, <3>1, <3>2, QuietMove DEF Harmless
  <2> QED BY <2>1, <2>2, QuietReturn
<1>4. CASE Packs!PackKey(c)
  <2>1. /\ calling[c].pc \notin Unsettled
        /\ UNCHANGED <<pack, source, keys, made, lock, faults>>
        /\ Packs!Go(c, "pack_rows") \/ Packs!Return(c)
    BY <1>4 DEF Packs!PackKey, Unsettled, Bodiless
  <2> QED BY <2>1, QuietGo, QuietReturn DEF Harmless
<1>5. CASE Packs!PackRows(c)
  <2>1. /\ calling[c].pc = "pack_rows" /\ calling[c].pc \notin Unsettled
        /\ UNCHANGED <<pack, source, keys, made, lock, faults>>
        /\ \E x, y : calling' = [calling EXCEPT ![c].pc = "pack_key", ![c].todo = x, ![c].rows = y]
    BY <1>5 DEF Packs!PackRows, Unsettled, Bodiless
  <2>2. /\ \E X : calling' \in [Caller -> Calls(X)]
        /\ Moved(c, calling[c].op, "pack_key", calling[c].pack, calling[c].from, calling[c].src)
    BY <2>1, Turns DEF PacksInv
  <2>3. calling[c].pack # Nothing => calling[c].pack \in 1..made.pack
    BY DEF PacksInv, CallIsSound
  <2> QED BY <2>1, <2>2, <2>3, QuietMove DEF Harmless
<1>6. CASE Packs!ShowPreview(c) \/ Packs!FreezeRow(c)
  BY <1>6, QuietReturn DEF Packs!ShowPreview, Packs!FreezeRow, Unsettled, Bodiless
<1>7. CASE Packs!Confirm(c)
  <2>1. /\ calling[c].pc \notin Unsettled
        /\ UNCHANGED <<pack, source, keys, made, lock, faults>>
        /\ Packs!Go(c, "freeze") \/ Packs!Return(c)
    BY <1>7 DEF Packs!Confirm, Unsettled, Bodiless
  <2> QED BY <2>1, QuietGo, QuietReturn DEF Harmless
<1> QED BY <1>1, <1>2, <1>3, <1>4, <1>5, <1>6, <1>7

(* The steps that make a pack.  A call that makes one has it, and has it   *)
(* alone.                                                                  *)
LEMMA Makers ==
  ASSUME PacksInv, NEW c \in Caller
  PROVE  /\ calling[c].pack # Nothing => calling[c].pack \in Packs!Pack /\ calling[c].pack <= made.pack
         /\ calling[c].pc \in Placed \/ Makes(c) => calling[c].pack # Nothing
         /\ calling[c].pc \in Bodiless => Makes(c) /\ pack[calling[c].pack] = Packs!NoPack
         /\ \A d \in Caller : d # c /\ Makes(c) /\ Makes(d) => calling[d].pack # calling[c].pack
         /\ calling[c].pc \in {"destroy", "bury"} => lock = c
<1>1. CallIsSound(c) /\ MakersDiffer
  BY DEF PacksInv
<1>2. made.pack \in Nat /\ made.pack <= MaxPack
  BY PackFacts DEF PacksInv, PacksShape
<1>3. calling[c].pack # Nothing => calling[c].pack \in Packs!Pack /\ calling[c].pack <= made.pack
  BY <1>1, <1>2, PackFacts DEF CallIsSound
<1>4. Makes(c) => calling[c].pc \in Placed
  BY DEF Makes, Placed
<1>5. calling[c].pc \in Bodiless => Makes(c)
  BY <1>1 DEF CallIsSound, Bodiless, Makes
<1> QED BY <1>1, <1>3, <1>4, <1>5 DEF CallIsSound, MakersDiffer

LEMMA MintKeyKeepsPacks ==
  ASSUME PacksInv, NEW c \in Caller, Packs!MintKey(c)
  PROVE  PacksInv'
<1> DEFINE q == made.pack + 1
<1>1. /\ q \in Packs!Pack /\ made.pack \in Nat /\ q > made.pack
      /\ q # Nothing /\ q # Packs!Snapshot
  BY PackFacts DEF Packs!MintKey, PacksInv, PacksShape
<1>2. /\ calling[c].pc = "mint" /\ keys' = keys \cup {q} /\ UNCHANGED <<pack, source, lock, faults>>
      /\ made' = [made EXCEPT !.pack = q]
      /\ calling' = [calling EXCEPT ![c].pc = "insert", ![c].pack = q]
  BY DEF Packs!MintKey
<1>3. made'.pack = q /\ made'.source = made.source /\ made' \in [pack : 0..MaxPack, source : 0..MaxSource]
  BY <1>1, <1>2, PackFacts DEF PacksInv, PacksShape
<1> HIDE DEF q
<1>4. /\ \E X : calling' \in [Caller -> Calls(X)]
      /\ Moved(c, calling[c].op, "insert", q, calling[c].from, calling[c].src)
  BY <1>1, <1>2, TakesPack DEF PacksInv, Packs!Step
<1>5. pack[q] = Packs!NoPack /\ q \notin keys
  BY <1>1 DEF PacksInv, RowsAreWhole
<1>6. PacksShape'
  BY <1>1, <1>2, <1>3, <1>4 DEF PacksInv, PacksShape
<1>7. ASSUME NEW d \in Caller PROVE CallIsSound(d)'
  <2>1. CASE d = c
    BY <1>1, <1>2, <1>3, <1>4, <1>5, <2>1 DEF CallIsSound, Moved, Placed, Bodiless
  <2>2. CASE d # c
    <3>1. CallIsSound(d) /\ calling'[d] = calling[d]
      BY <1>4, <2>2 DEF PacksInv, Moved
    <3>2. calling[d].pack # Nothing => calling[d].pack # q /\ calling[d].pack \in 1..made'.pack
      BY <1>1, <1>3, Makers, PackFacts
    <3>3. calling[d].pc \in {"insert", "bury"} => calling[d].pack # q
      BY <3>1, <3>2, <1>1 DEF CallIsSound, Placed
    <3>4. /\ calling[d].pc = "insert" /\ faults = 0 => calling[d].pack \in keys'
          /\ calling[d].pc = "bury" => calling[d].pack \notin keys'
      BY <1>2, <3>1, <3>3 DEF CallIsSound
    <3>5. /\ Packs!Making(d)' = Packs!Making(d) /\ (Packs!Cleanup(d)' <=> Packs!Cleanup(d))
          /\ (Packs!Library(calling[d].pack)' <=> Packs!Library(calling[d].pack))
      BY <1>2, <3>1 DEF Packs!Making, Packs!Cleanup, Packs!Library, Packs!ActivePack
    <3> QED BY <1>2, <1>3, <3>1, <3>2, <3>4, <3>5 DEF CallIsSound
  <2> QED BY <2>1, <2>2
<1>8. MakersDiffer'
  <2>1. \A d \in Caller : d # c => (Makes(d)' <=> Makes(d)) /\ calling'[d].pack = calling[d].pack
    BY <1>4 DEF Makes, Packs!Cleanup, Moved
  <2>2. \A d \in Caller : Makes(d) => calling[d].pack # q
    BY <1>1, Makers, PackFacts
  <2>3. calling'[c].pack = q
    BY <1>4 DEF Moved
  <2> QED BY <2>1, <2>2, <2>3 DEF PacksInv, MakersDiffer
<1>9. RowsAreWhole'
  <2>1. \A p \in Packs!Pack : p > made'.pack => p > made.pack /\ p # q
    BY <1>1, <1>3, PackFacts
  <2> QED BY <1>2, <1>3, <2>1 DEF PacksInv, RowsAreWhole
<1>10. KeysAreSettled'
  <2> SUFFICES ASSUME faults = 0, NEW p \in Packs!Pack
               PROVE  \/ p \in keys' <=> Packs!ActivePack(p)
                      \/ \E e \in Caller : calling'[e].pc \in Unsettled /\ calling'[e].pack = p
    BY <1>2 DEF KeysAreSettled, Packs!ActivePack
  <2>1. CASE p = q
    BY <1>4, <2>1 DEF Moved, Unsettled, Bodiless
  <2>2. CASE p # q
    <3>1. \A e \in Caller : calling[e].pc \in Unsettled => calling'[e] = calling[e]
      BY <1>2, <1>4 DEF Moved, Unsettled, Bodiless
    <3> QED BY <1>2, <2>2, <3>1 DEF PacksInv, KeysAreSettled
  <2> QED BY <2>1, <2>2
<1>11. Packs!DeletedIsUnreadable'
  BY <1>2, <1>5 DEF PacksInv, Packs!DeletedIsUnreadable
<1> QED BY <1>6, <1>7, <1>8, <1>9, <1>10, <1>11 DEF PacksInv

LEMMA InsertPackKeepsPacks ==
  ASSUME PacksInv, NEW c \in Caller, Packs!InsertPack(c)
  PROVE  PacksInv'
<1> DEFINE p == calling[c].pack
           row == [scope |-> Packs!Making(c), rev |-> 0, dead |-> FALSE]
<1>1. /\ calling[c].pc = "insert" /\ lock = Nothing /\ pack' = [pack EXCEPT ![p] = row]
      /\ Packs!AfterPack(c, p) /\ UNCHANGED <<source, keys, made, lock, faults>>
  BY DEF Packs!InsertPack
<1>2. p \in Packs!Pack /\ p # Nothing /\ p <= made.pack /\ pack[p] = Packs!NoPack /\ Makes(c)
  BY <1>1, Makers DEF Placed, Bodiless
<1>3. Packs!Making(c) \in {"private", "library"} /\ Packs!Making(c) # Nothing
  BY PackFacts DEF Packs!Making
<1>4. row \in PackRows /\ row # Packs!NoPack /\ row.scope # Nothing /\ ~row.dead
  BY <1>3 DEF PackRows
<1>5. /\ \E X : calling' \in [Caller -> Calls(X)]
      /\ \A d \in Caller : d # c => calling'[d] = calling[d]
      /\ \/ calling'[c].pc \in {"bindings", "list"} /\ calling'[c].pack = p
         \/ calling'[c].pc = "next" /\ calling'[c].pack = p /\ calling'[c].op \in {"copy", "import_document"}
         \/ calling'[c].pc = Nothing /\ calling'[c].pack = Nothing
  <2>1. CASE calling[c].op \in {"preview", "start"}
    <3>1. calling' = [calling EXCEPT ![c].pc = "bindings", ![c].pack = p]
      BY <1>1, <2>1 DEF Packs!AfterPack
    <3>2. /\ \E X : calling' \in [Caller -> Calls(X)]
          /\ Moved(c, calling[c].op, "bindings", p, calling[c].from, calling[c].src)
      BY <1>2, <3>1, TakesPack DEF PacksInv, Packs!Step
    <3> QED BY <3>2 DEF Moved
  <2>2. CASE calling[c].op = "copy" /\ calling[c].from = Nothing
    <3>1. calling' = [calling EXCEPT ![c].pc = "list", ![c].from = p]
      BY <1>1, <2>2 DEF Packs!AfterPack
    <3>2. /\ \E X : calling' \in [Caller -> Calls(X)]
          /\ Moved(c, calling[c].op, "list", p, p, calling[c].src)
      BY <1>2, <3>1, CopiesFrom DEF PacksInv, Packs!Step
    <3> QED BY <3>2 DEF Moved
  <2>3. CASE calling[c].op = "import_document" \/ (calling[c].op = "copy" /\ calling[c].from # Nothing)
    <3>1. calling' = [calling EXCEPT ![c].pc = "next", ![c].pack = p]
      BY <1>1, <2>3 DEF Packs!AfterPack
    <3>2. /\ \E X : calling' \in [Caller -> Calls(X)]
          /\ Moved(c, calling[c].op, "next", p, calling[c].from, calling[c].src)
      BY <1>2, <3>1, TakesPack DEF PacksInv, Packs!Step
    <3> QED BY <2>3, <3>2 DEF Moved
  <2>4. CASE calling[c].op \notin {"preview", "start", "copy", "import_document"}
    <3>1. calling' = [calling EXCEPT ![c] = Packs!Idle]
      BY <1>1, <2>4 DEF Packs!AfterPack
    <3>2. /\ \E X : calling' \in [Caller -> Calls(X)]
          /\ Moved(c, Nothing, Nothing, Nothing, Nothing, Nothing)
      BY <3>1, Returns DEF PacksInv
    <3> QED BY <3>2 DEF Moved
  <2>5. \/ calling[c].op \in {"preview", "start"}
        \/ calling[c].op = "copy" /\ calling[c].from = Nothing
        \/ calling[c].op = "import_document" \/ (calling[c].op = "copy" /\ calling[c].from # Nothing)
        \/ calling[c].op \notin {"preview", "start", "copy", "import_document"}
    OBVIOUS
  <2> QED BY <2>1, <2>2, <2>3, <2>4, <2>5
<1> HIDE DEF p, row
<1>6. pack' \in [Packs!Pack -> PackRows] /\ pack'[p] = row /\ \A q \in Packs!Pack : q # p => pack'[q] = pack[q]
  BY <1>1, <1>2, <1>4 DEF PacksInv, PacksShape
<1>7. PacksShape'
  BY <1>1, <1>5, <1>6 DEF PacksInv, PacksShape
<1>8. ASSUME NEW d \in Caller PROVE CallIsSound(d)'
  <2>1. CASE d = c
    <3>1. calling'[c].pc \notin {"private", "take_back", "remove_row", "remove_key", "insert", "destroy", "bury",
                                 "replace_key", "replace_row"}
      BY <1>5, PackFacts DEF Packs!Step
    <3>2. calling'[c].pc \in Placed => calling'[c].pack = p
      BY <1>5, PackFacts DEF Placed, Packs!Step
    <3>3. calling'[c].pack # Nothing => calling'[c].pack \in 1..made.pack
      BY <1>2, <1>5, PackFacts DEF PacksInv, PacksShape
    <3> QED BY <1>1, <1>2, <2>1, <3>1, <3>2, <3>3 DEF CallIsSound, Bodiless
  <2>2. CASE d # c
    <3>1. CallIsSound(d) /\ calling'[d] = calling[d]
      BY <1>5, <2>2 DEF PacksInv
    <3>2. calling[d].pc \notin {"destroy", "bury"}
      BY <1>1, PackFacts, Makers
    <3>3. calling[d].pc \in Bodiless => calling[d].pack # p /\ calling[d].pack \in Packs!Pack
      BY <1>2, <2>2, Makers, PackFacts DEF p, Makes, Bodiless, Placed
    <3> QED BY <1>1, <1>6, <3>1, <3>2, <3>3 DEF CallIsSound, Packs!Making, Packs!Cleanup
  <2> QED BY <2>1, <2>2
<1>9. MakersDiffer'
  <2>1. \A d \in Caller : d # c => (Makes(d)' <=> Makes(d)) /\ calling'[d].pack = calling[d].pack
    BY <1>5 DEF Makes, Packs!Cleanup
  <2>2. Makes(c)' => calling'[c].pack = p
    BY <1>5, PackFacts DEF Makes, Packs!Step
  <2> QED BY <1>2, <2>1, <2>2 DEF PacksInv, MakersDiffer, p
<1>10. RowsAreWhole'
  <2>1. \A q \in Packs!Pack : q > made.pack => q # p
    BY <1>2, PackFacts DEF PacksInv, PacksShape
  <2>2. \A s \in Packs!Source : source[s].pack # Nothing => source[s].pack \in Packs!Pack
    BY DEF PacksInv, PacksShape, SourceRows
  <2> QED BY <1>1, <1>4, <1>6, <2>1, <2>2 DEF PacksInv, RowsAreWhole
<1>11. KeysAreSettled'
  <2> SUFFICES ASSUME faults = 0, NEW q \in Packs!Pack
               PROVE  \/ q \in keys <=> Packs!ActivePack(q)'
                      \/ \E e \in Caller : calling'[e].pc \in Unsettled /\ calling'[e].pack = q
    BY <1>1 DEF KeysAreSettled
  <2>1. CASE q = p
    <3>1. p \in keys
      BY <1>1 DEF PacksInv, CallIsSound, p
    <3> QED BY <1>4, <1>6, <2>1, <3>1 DEF Packs!ActivePack
  <2>2. CASE q # p
    <3>1. \A e \in Caller : calling[e].pc \in Unsettled /\ calling[e].pack = q => calling'[e] = calling[e]
      BY <1>5, <2>2 DEF p
    <3> QED BY <1>6, <2>2, <3>1 DEF PacksInv, KeysAreSettled, Packs!ActivePack
  <2> QED BY <2>1, <2>2
<1>12. Packs!DeletedIsUnreadable'
  BY <1>1, <1>4, <1>6 DEF PacksInv, Packs!DeletedIsUnreadable
<1> QED BY <1>7, <1>8, <1>9, <1>10, <1>11, <1>12 DEF PacksInv

(* The key of a pack that has no row is given up.                          *)
LEMMA DiscardKeepsPacks ==
  ASSUME PacksInv, NEW c \in Caller, Packs!TakeKeyBack(c) \/ Packs!RemoveKey(c)
  PROVE  PacksInv'
<1> DEFINE p == calling[c].pack
<1>1. /\ calling[c].pc \in {"take_back", "remove_key"}
      /\ UNCHANGED <<pack, source, made, lock>>
      /\ \/ keys' = keys \ {p} /\ faults' = faults
         \/ keys' = keys /\ faults' = faults + 1
  BY DEF Packs!TakeKeyBack, Packs!RemoveKey, Packs!Discard
<1>2. p \in Packs!Pack /\ p # Nothing /\ pack[p] = Packs!NoPack /\ Makes(c)
  BY <1>1, Makers DEF Placed, Bodiless
<1>3. PICK op, pc, pk, from, src :
        /\ \E X : calling' \in [Caller -> Calls(X)]
        /\ Moved(c, op, pc, pk, from, src)
        /\ \/ pc = Nothing /\ pk = Nothing
           \/ pc = "private" /\ pk = p /\ op = calling[c].op /\ from = calling[c].from
              /\ Packs!Making(c) = "private"
  <2>1. CASE Packs!TakeKeyBack(c)
    <3>1. calling' = [calling EXCEPT ![c].pc = "private"] /\ Packs!Making(c) = "private"
      BY <2>1 DEF Packs!TakeKeyBack, PacksInv, CallIsSound
    <3> QED BY <3>1, GoesOn DEF PacksInv, Packs!Step
  <2>2. CASE Packs!RemoveKey(c)
    <3>1. /\ \E X : calling' \in [Caller -> Calls(X)]
          /\ Moved(c, Nothing, Nothing, Nothing, Nothing, Nothing)
      BY <2>2, Returns DEF PacksInv, Packs!RemoveKey
    <3> QED BY <3>1
  <2> QED BY <2>1, <2>2
<1> HIDE DEF p
<1>4. PacksShape' /\ (faults' = 0 => faults = 0 /\ keys' = keys \ {p}) /\ keys' \subseteq keys
  BY <1>1, <1>3 DEF PacksInv, PacksShape
<1>5. pc \notin Placed /\ pc \notin Unsettled
  BY <1>3, PackFacts DEF Placed, Unsettled, Bodiless, Packs!Step
<1>6. ASSUME NEW d \in Caller PROVE CallIsSound(d)'
  <2>1. CASE d = c
    <3>1. pk # Nothing => pk \in 1..made.pack
      BY <1>2, <1>3 DEF PacksInv, CallIsSound, p
    <3>2. pc \notin {"take_back", "remove_row", "remove_key", "insert", "destroy", "bury", "replace_key",
                     "replace_row"} /\ pc \notin Bodiless
      BY <1>3, <1>5 DEF Placed, Unsettled
    <3>3. pc = "private" => Packs!Making(c)'  = "private"
      BY <1>3, PackFacts DEF Moved, Packs!Making, Packs!Step
    <3>4. calling'[c].pc = pc /\ calling'[c].pack = pk
      BY <1>3 DEF Moved
    <3> QED BY <1>1, <1>5, <2>1, <3>1, <3>2, <3>3, <3>4 DEF CallIsSound, Placed
  <2>2. CASE d # c
    <3>1. CallIsSound(d) /\ calling'[d] = calling[d]
      BY <1>3, <2>2 DEF PacksInv, Moved
    <3>2. calling[d].pc = "insert" => calling[d].pack # p
      BY <1>2, <2>2, Makers DEF p, Makes
    <3> QED BY <1>1, <1>4, <3>1, <3>2
            DEF CallIsSound, Packs!Making, Packs!Cleanup, Packs!Library, Packs!ActivePack
  <2> QED BY <2>1, <2>2
<1>7. MakersDiffer'
  <2>1. \A d \in Caller : d # c => (Makes(d)' <=> Makes(d)) /\ calling'[d].pack = calling[d].pack
    BY <1>3 DEF Makes, Packs!Cleanup, Moved
  <2>2. ~Makes(c)'
    BY <1>3, <1>5 DEF Moved, Makes, Placed
  <2> QED BY <2>1, <2>2 DEF PacksInv, MakersDiffer
<1>8. RowsAreWhole' /\ Packs!DeletedIsUnreadable'
  BY <1>1, <1>4 DEF PacksInv, RowsAreWhole, Packs!DeletedIsUnreadable
<1>9. KeysAreSettled'
  <2> SUFFICES ASSUME faults = 0, keys' = keys \ {p}, NEW q \in Packs!Pack
               PROVE  \/ q \in keys' <=> Packs!ActivePack(q)
                      \/ \E e \in Caller : calling'[e].pc \in Unsettled /\ calling'[e].pack = q
    BY <1>1, <1>4 DEF KeysAreSettled, Packs!ActivePack
  <2>1. CASE q = p
    BY <1>2, <2>1 DEF Packs!ActivePack
  <2>2. CASE q # p
    <3>1. \A e \in Caller : calling[e].pc \in Unsettled /\ calling[e].pack = q => calling'[e] = calling[e]
      BY <1>3, <2>2 DEF Moved, p
    <3> QED BY <2>2, <3>1 DEF PacksInv, KeysAreSettled
  <2> QED BY <2>1, <2>2
<1> QED BY <1>4, <1>6, <1>7, <1>8, <1>9 DEF PacksInv

(* A step that writes a source of a pack: the pack's revision goes up.     *)
LEMMA TouchStep ==
  ASSUME PacksInv, NEW c \in Caller, UNCHANGED <<keys, lock, faults>>,
         NEW p \in Packs!Pack, pack[p] # Packs!NoPack, pack' = [pack EXCEPT ![p].rev = @ + 1],
         made' \in [pack : 0..MaxPack, source : 0..MaxSource],
         made'.pack = made.pack, made'.source >= made.source,
         \E V : source' \in [Packs!Source -> SourceRows(V)],
         \A s \in Packs!Source :
            \/ source'[s].pack = source[s].pack
            \/ source'[s].pack = Nothing
            \/ s > made.source /\ s <= made'.source /\ source'[s].pack = p,
         \E X : calling' \in [Caller -> Calls(X)],
         \A d \in Caller : d # c => calling'[d] = calling[d],
         CallIsSound(c)' \/ calling'[c] = calling[c],
         Makes(c)' => Makes(c) /\ calling'[c].pack = calling[c].pack,
         calling[c].pc \in Unsettled => calling'[c] = calling[c]
  PROVE  PacksInv'
<1>1. /\ pack' \in [Packs!Pack -> PackRows]
      /\ \A q \in Packs!Pack : pack'[q].scope = pack[q].scope /\ pack'[q].dead = pack[q].dead
      /\ \A q \in Packs!Pack : q # p => pack'[q] = pack[q]
  BY DEF PacksInv, PacksShape, PackRows
<1>2. pack'[p] # Packs!NoPack
  BY <1>1 DEF PacksInv, RowsAreWhole
<1>3. made \in [pack : 0..MaxPack, source : 0..MaxSource] /\ \A s \in Packs!Source : s \in Nat
  BY PackFacts DEF PacksInv, PacksShape
<1>4. PacksShape'
  BY <1>1 DEF PacksInv, PacksShape
<1>5. \A q \in Packs!Pack : (Packs!ActivePack(q)' <=> Packs!ActivePack(q)) /\ (Packs!Library(q)' <=> Packs!Library(q))
  BY <1>1 DEF Packs!ActivePack, Packs!Library
<1>6. ASSUME NEW d \in Caller PROVE CallIsSound(d)'
  <2>1. CASE calling'[d] # calling[d]
    BY <2>1
  <2>2. CASE calling'[d] = calling[d]
    <3>1. CallIsSound(d)
      BY DEF PacksInv
    <3>2. calling[d].pc \in Placed => calling[d].pack \in Packs!Pack
      BY <3>1, Makers
    <3>3. calling[d].pc \in Bodiless => pack'[calling[d].pack] = Packs!NoPack
      BY <1>1, <3>1, <3>2 DEF CallIsSound, Bodiless, Placed
    <3>4. calling[d].pc \in {"destroy", "bury"} => Packs!Library(calling[d].pack)'
      BY <1>5, <2>2, <3>1, <3>2 DEF CallIsSound, Placed
    <3>5. calling[d].pc \in {"replace_key", "replace_row"} =>
             /\ calling[d].src \in 1..made'.source
             /\ source'[calling[d].src].pack \in {Nothing, calling[d].pack}
      <4> SUFFICES ASSUME calling[d].pc \in {"replace_key", "replace_row"}
                   PROVE  /\ calling[d].src \in 1..made'.source
                          /\ source'[calling[d].src].pack \in {Nothing, calling[d].pack}
        OBVIOUS
      <4>1. calling[d].src \in 1..made.source /\ source[calling[d].src].pack \in {Nothing, calling[d].pack}
        BY <3>1 DEF CallIsSound
      <4>2. calling[d].src \in Packs!Source /\ ~(calling[d].src > made.source) /\ calling[d].src \in 1..made'.source
        BY <1>3, <4>1, PackFacts
      <4> QED BY <4>1, <4>2
    <3>6. Packs!Making(d)' = Packs!Making(d) /\ (Packs!Cleanup(d)' <=> Packs!Cleanup(d))
      BY <2>2 DEF Packs!Making, Packs!Cleanup
    <3> QED BY <2>2, <3>1, <3>3, <3>4, <3>5, <3>6 DEF CallIsSound
  <2> QED BY <2>1, <2>2
<1>7. MakersDiffer'
  <2>1. \A d \in Caller : d # c => (Makes(d)' <=> Makes(d))
    BY DEF Makes, Packs!Cleanup
  <2> QED BY <2>1 DEF PacksInv, MakersDiffer
<1>8. RowsAreWhole'
  <2>1. \A q \in Packs!Pack : q > made.pack => q # p
    BY DEF PacksInv, RowsAreWhole
  <2>2. \A s \in Packs!Source : source[s].pack # Nothing => source[s].pack \in Packs!Pack
    BY DEF PacksInv, PacksShape, SourceRows
  <2>3. ASSUME NEW s \in Packs!Source, source'[s].pack # Nothing
        PROVE  s <= made'.source /\ pack'[source'[s].pack] # Packs!NoPack
    <3>1. CASE source'[s].pack = source[s].pack
      <4>1. source[s].pack \in Packs!Pack /\ s <= made.source /\ pack[source[s].pack] # Packs!NoPack
        BY <2>2, <2>3, <3>1 DEF PacksInv, RowsAreWhole
      <4>2. s <= made'.source
        BY <1>3, <4>1
      <4>3. pack'[source[s].pack] # Packs!NoPack
        BY <1>1, <1>2, <4>1
      <4> QED BY <3>1, <4>2, <4>3
    <3>2. CASE s <= made'.source /\ source'[s].pack = p
      BY <1>2, <3>2
    <3> QED BY <2>3, <3>1, <3>2
  <2>4. \A q \in Packs!Pack : q > made'.pack => pack'[q] = Packs!NoPack /\ q \notin keys'
    BY <1>1, <2>1 DEF PacksInv, RowsAreWhole
  <2>5. \A q \in Packs!Pack : pack'[q] # Packs!NoPack => pack'[q].scope # Nothing
    BY <1>1 DEF PacksInv, RowsAreWhole
  <2> QED BY <2>3, <2>4, <2>5 DEF RowsAreWhole
<1>9. KeysAreSettled'
  <2>1. \A d \in Caller : calling[d].pc \in Unsettled => calling'[d] = calling[d]
    OBVIOUS
  <2> QED BY <1>5, <2>1 DEF PacksInv, KeysAreSettled
<1>10. Packs!DeletedIsUnreadable'
  BY <1>1 DEF PacksInv, Packs!DeletedIsUnreadable
<1> QED BY <1>4, <1>6, <1>7, <1>8, <1>9, <1>10 DEF PacksInv

(* A call at no step, or one that begins again.                            *)
LEMMA NothingIsSound ==
  ASSUME PacksInv, NEW c \in Caller, calling'[c].pc = Nothing, calling'[c].pack = Nothing
  PROVE  CallIsSound(c)' /\ ~Makes(c)'
BY PackFacts DEF CallIsSound, Makes, Placed, Bodiless, Packs!Step

LEMMA StoreSourceKeepsPacks ==
  ASSUME PacksInv, NEW c \in Caller, Packs!StoreSource(c)
  PROVE  PacksInv'
<1> DEFINE p == calling[c].pack
           n == made.source + 1
           row == [pack |-> p, text |-> Head(calling[c].todo), rev |-> 0, dead |-> FALSE]
<1>1. calling[c].pc = "store" /\ UNCHANGED <<keys, lock, faults>> /\ made.source < MaxSource
  BY DEF Packs!StoreSource
<1>2. CASE pack[p] = Packs!NoPack
  BY <1>1, <1>2, QuietFailure DEF Packs!StoreSource
<1>3. CASE pack[p] # Packs!NoPack
  <2>1. /\ pack' = [pack EXCEPT ![p].rev = @ + 1]
        /\ source' = [source EXCEPT ![n] = row]
        /\ made' = [made EXCEPT !.source = @ + 1]
        /\ \/ Packs!Cleanup(c) /\ \E x : calling' = [calling EXCEPT ![c].todo = x, ![c].pc = "next"]
           \/ Packs!Return(c)
    BY <1>3 DEF Packs!StoreSource
  <2>2. p \in Packs!Pack /\ p # Nothing
    BY <1>1, Makers DEF Placed
  <2>3. /\ made \in [pack : 0..MaxPack, source : 0..MaxSource] /\ MaxSource \in Nat /\ MaxPack \in Nat
    BY PackFacts DEF PacksInv, PacksShape
  <2>4. /\ made'.pack = made.pack /\ made'.source = n /\ made'.source >= made.source /\ n > made.source
        /\ made' \in [pack : 0..MaxPack, source : 0..MaxSource] /\ n \in Packs!Source
    BY <1>1, <2>1, <2>3, PackFacts
  <2>5. /\ \E V : source' \in [Packs!Source -> SourceRows(V)]
        /\ \A s \in Packs!Source : source'[s].pack = source[s].pack \/ (s = n /\ source'[s].pack = p)
    <3>1. PICK V : source \in [Packs!Source -> SourceRows(V)]
      BY DEF PacksInv, PacksShape
    <3> DEFINE W == V \cup {Head(calling[c].todo)}
    <3>2. Head(calling[c].todo) \in W /\ source \in [Packs!Source -> SourceRows(W)]
      BY <3>1 DEF SourceRows
    <3> HIDE DEF W
    <3>3. row \in SourceRows(W) /\ row.pack = p
      BY <2>2, <3>2 DEF SourceRows
    <3> HIDE DEF row, n, p
    <3>4. source' \in [Packs!Source -> SourceRows(W)]
      BY <2>1, <3>2, <3>3
    <3> QED BY <2>1, <3>1, <3>3, <3>4
  <2>6. /\ \E X : calling' \in [Caller -> Calls(X)]
        /\ \A d \in Caller : d # c => calling'[d] = calling[d]
        /\ CallIsSound(c)'
        /\ Makes(c)' => Makes(c) /\ calling'[c].pack = calling[c].pack
    <3>1. CASE Packs!Cleanup(c) /\ \E x : calling' = [calling EXCEPT ![c].todo = x, ![c].pc = "next"]
      <4>1. /\ \E X : calling' \in [Caller -> Calls(X)]
            /\ Moved(c, calling[c].op, "next", p, calling[c].from, calling[c].src)
        BY <3>1, Turns DEF PacksInv, Packs!Step
      <4>2. p \in 1..made.pack
        BY <2>2 DEF PacksInv, CallIsSound
      <4>3. CallIsSound(c)'
        BY <2>2, <2>4, <4>1, <4>2 DEF CallIsSound, Moved, Placed, Bodiless
      <4>4. Makes(c)
        BY <1>1, <3>1 DEF Makes
      <4> QED BY <4>1, <4>3, <4>4 DEF Moved
    <3>2. CASE Packs!Return(c)
      <4>1. /\ \E X : calling' \in [Caller -> Calls(X)]
            /\ Moved(c, Nothing, Nothing, Nothing, Nothing, Nothing)
        BY <3>2, Returns DEF PacksInv
      <4> QED BY <4>1, NothingIsSound DEF Moved
    <3> QED BY <2>1, <3>1, <3>2
  <2>7. calling[c].pc \notin Unsettled
    BY <1>1 DEF Unsettled, Bodiless
  <2>8. \A s \in Packs!Source :
           \/ source'[s].pack = source[s].pack
           \/ source'[s].pack = Nothing
           \/ s > made.source /\ s <= made'.source /\ source'[s].pack = p
    BY <2>3, <2>4, <2>5
  <2>9. pack[p] # Packs!NoPack /\ pack' = [pack EXCEPT ![p].rev = @ + 1]
    BY <1>3, <2>1
  <2> HIDE DEF p, n, row
  <2> QED BY <1>1, <2>2, <2>4, <2>5, <2>6, <2>7, <2>8, <2>9, TouchStep
<1> QED BY <1>2, <1>3

(* A live source is one of a pack that has a row.                          *)
LEMMA LiveIsPlaced ==
  ASSUME PacksInv, NEW s \in Packs!Source, Packs!LiveSource(s)
  PROVE  source[s].pack \in Packs!Pack /\ pack[source[s].pack] # Packs!NoPack /\ source[s].pack # Nothing
BY DEF PacksInv, PacksShape, SourceRows, RowsAreWhole, Packs!LiveSource

LEMMA ReplaceRowKeepsPacks ==
  ASSUME PacksInv, NEW c \in Caller, Packs!ReplaceRow(c)
  PROVE  PacksInv'
<1> DEFINE s == calling[c].src
           current == Packs!LiveSource(s) /\ source[s].rev = calling[c].rev
<1>1. /\ calling[c].pc = "replace_row" /\ UNCHANGED <<keys, made, lock, faults>>
      /\ calling' = [calling EXCEPT ![c] = Packs!Idle]
  BY DEF Packs!ReplaceRow
<1>2. calling[c].pc \notin Unsettled
  BY <1>1 DEF Unsettled, Bodiless
<1>3. CASE ~current
  BY <1>1, <1>2, <1>3, QuietReturn DEF Packs!ReplaceRow
<1>4. CASE current
  <2>1. /\ pack' = [pack EXCEPT ![calling[c].pack].rev = @ + 1]
        /\ source' = [source EXCEPT ![s].text = Head(calling[c].todo), ![s].rev = @ + 1]
    BY <1>4 DEF Packs!ReplaceRow
  <2>2. s \in 1..made.source /\ source[s].pack \in {Nothing, calling[c].pack}
    BY <1>1 DEF PacksInv, CallIsSound
  <2>3. /\ s \in Packs!Source /\ made \in [pack : 0..MaxPack, source : 0..MaxSource]
        /\ made'.source >= made.source
    BY <1>1, <2>2, PackFacts DEF PacksInv, PacksShape
  <2>4. calling[c].pack \in Packs!Pack /\ pack[calling[c].pack] # Packs!NoPack
    BY <1>4, <2>2, <2>3, LiveIsPlaced
  <2>5. /\ \E V : source' \in [Packs!Source -> SourceRows(V)]
        /\ \A r \in Packs!Source : source'[r].pack = source[r].pack
    <3>1. PICK V : source \in [Packs!Source -> SourceRows(V)]
      BY DEF PacksInv, PacksShape
    <3> DEFINE W == V \cup {Head(calling[c].todo)}
    <3>2. Head(calling[c].todo) \in W /\ source \in [Packs!Source -> SourceRows(W)]
      BY <3>1 DEF SourceRows
    <3> HIDE DEF W, s
    <3>3. source' \in [Packs!Source -> SourceRows(W)]
      BY <2>1, <2>3, <3>2 DEF SourceRows
    <3> QED BY <2>1, <2>3, <3>2, <3>3 DEF SourceRows
  <2>6. /\ \E X : calling' \in [Caller -> Calls(X)]
        /\ Moved(c, Nothing, Nothing, Nothing, Nothing, Nothing)
    BY <1>1, Returns DEF PacksInv
  <2>7. CallIsSound(c)' /\ ~Makes(c)'
    BY <2>6, NothingIsSound DEF Moved
  <2> QED BY <1>1, <1>2, <2>1, <2>3, <2>4, <2>5, <2>6, <2>7, TouchStep DEF Moved
<1> QED BY <1>3, <1>4

LEMMA DeleteSourceKeepsPacks ==
  ASSUME PacksInv, NEW c \in Caller, Packs!DeleteSource(c)
  PROVE  PacksInv'
<1>1. PICK s \in Packs!Source :
         /\ Packs!LiveSource(s)
         /\ source' = [source EXCEPT ![s].dead = TRUE, ![s].text = Nothing, ![s].rev = @ + 1]
         /\ pack' = [pack EXCEPT ![source[s].pack].rev = @ + 1]
  BY DEF Packs!DeleteSource
<1>2. UNCHANGED <<keys, made, lock, faults, calling>>
  BY DEF Packs!DeleteSource
<1>3. source[s].pack \in Packs!Pack /\ pack[source[s].pack] # Packs!NoPack
  BY <1>1, LiveIsPlaced
<1>4. made \in [pack : 0..MaxPack, source : 0..MaxSource] /\ made'.source >= made.source
  BY <1>2, PackFacts DEF PacksInv, PacksShape
<1>5. /\ \E V : source' \in [Packs!Source -> SourceRows(V)]
      /\ \A r \in Packs!Source : source'[r].pack = source[r].pack
  <2>1. PICK V : source \in [Packs!Source -> SourceRows(V)]
    BY DEF PacksInv, PacksShape
  <2> DEFINE W == V \cup {Nothing} \cup {source[s].rev + 1}
  <2>2. Nothing \in W /\ source \in [Packs!Source -> SourceRows(W)]
    BY <2>1 DEF SourceRows
  <2> HIDE DEF W
  <2>3. source' \in [Packs!Source -> SourceRows(W)]
    BY <1>1, <2>2 DEF SourceRows
  <2> QED BY <1>1, <2>2, <2>3 DEF SourceRows
<1>6. /\ \E X : calling' \in [Caller -> Calls(X)]
      /\ Makes(c)' <=> Makes(c)
  BY <1>2 DEF PacksInv, PacksShape, Makes, Packs!Cleanup
<1> QED BY <1>1, <1>2, <1>3, <1>4, <1>5, <1>6, TouchStep

LEMMA ReplaceDocumentKeepsPacks ==
  ASSUME PacksInv, NEW c \in Caller, Packs!ReplaceDocument(c)
  PROVE  PacksInv'
<1>1. PICK p \in Packs!Pack, t \in Text :
         /\ Packs!Library(p) /\ made.source < MaxSource
         /\ source' = [s \in Packs!Source |->
                         IF s = made.source + 1 THEN [pack |-> p, text |-> t, rev |-> 0, dead |-> FALSE]
                         ELSE IF source[s].pack = p THEN Packs!NoSource ELSE source[s]]
         /\ pack' = [pack EXCEPT ![p].rev = @ + 1]
         /\ made' = [made EXCEPT !.source = @ + 1]
  BY DEF Packs!ReplaceDocument
<1>2. UNCHANGED <<keys, lock, faults, calling>>
  BY DEF Packs!ReplaceDocument
<1>3. pack[p] # Packs!NoPack
  BY <1>1, RowWasMade DEF Packs!Library
<1>4. /\ made \in [pack : 0..MaxPack, source : 0..MaxSource] /\ MaxSource \in Nat /\ MaxPack \in Nat
  BY PackFacts DEF PacksInv, PacksShape
<1>5. /\ made'.pack = made.pack /\ made'.source = made.source + 1 /\ made'.source >= made.source
      /\ made.source + 1 > made.source /\ made' \in [pack : 0..MaxPack, source : 0..MaxSource]
  BY <1>1, <1>4
<1>6. \E V : source' \in [Packs!Source -> SourceRows(V)]
  <2>1. PICK V : source \in [Packs!Source -> SourceRows(V)]
    BY DEF PacksInv, PacksShape
  <2> DEFINE W == V \cup {Nothing, t}
  <2>2. Nothing \in W /\ t \in W /\ source \in [Packs!Source -> SourceRows(W)]
    BY <2>1 DEF SourceRows
  <2> HIDE DEF W
  <2>3. source' \in [Packs!Source -> SourceRows(W)]
    BY <1>1, <2>2 DEF SourceRows
  <2> QED BY <2>3
<1>7. \A s \in Packs!Source :
         \/ source'[s].pack = source[s].pack
         \/ source'[s].pack = Nothing
         \/ s > made.source /\ s <= made'.source /\ source'[s].pack = p
  <2> TAKE s \in Packs!Source
  <2>1. CASE s = made.source + 1
    BY <1>1, <1>4, <1>5, <2>1
  <2>2. CASE s # made.source + 1
    BY <1>1, <2>2
  <2> QED BY <2>1, <2>2
<1>8. /\ \E X : calling' \in [Caller -> Calls(X)]
      /\ Makes(c)' <=> Makes(c)
  BY <1>2 DEF PacksInv, PacksShape, Makes, Packs!Cleanup
<1> QED BY <1>1, <1>2, <1>3, <1>5, <1>6, <1>7, <1>8, TouchStep

(* delete_library_pack keeps the connection's mutex from its check of the  *)
(* pack to the tombstone.                                                  *)
LEMMA DeletePackKeepsPacks ==
  ASSUME PacksInv, NEW c \in Caller, Packs!DeletePack(c)
  PROVE  PacksInv'
<1>1. PICK p \in Packs!Pack :
         /\ Packs!Library(p) /\ lock = Nothing /\ lock' = c
         /\ Packs!Begin(c, "delete", "destroy", [Packs!Idle EXCEPT !.pack = p, !.rev = pack[p].rev])
  BY DEF Packs!DeletePack
<1>2. UNCHANGED <<pack, source, keys, made, faults>>
  BY DEF Packs!DeletePack
<1>3. p \in 1..made.pack /\ p # Nothing
  BY <1>1, RowWasMade DEF Packs!Library
<1>4. /\ \E X : calling' \in [Caller -> Calls(X)]
      /\ \A d \in Caller : d # c => calling'[d] = calling[d]
      /\ calling'[c].op = "delete" /\ calling'[c].pc = "destroy" /\ calling'[c].pack = p
      /\ calling[c].pc = Nothing
  <2> DEFINE r == [Packs!Idle EXCEPT !.pack = p, !.rev = pack[p].rev]
  <2>1. (\E W : r \in Calls(W)) /\ r.pack = p
    BY IdleWith
  <2>2. Packs!Begin(c, "delete", "destroy", r) /\ "delete" \in Packs!Op /\ "destroy" \in Packs!Step
    BY <1>1 DEF Packs!Op, Packs!Step
  <2> HIDE DEF r
  <2> QED BY <2>1, <2>2, Begins DEF PacksInv, Moved
<1>5. PacksShape'
  BY <1>1, <1>2, <1>4 DEF PacksInv, PacksShape
<1>6. ASSUME NEW d \in Caller PROVE CallIsSound(d)'
  <2>1. CASE d = c
    BY <1>1, <1>2, <1>3, <1>4, <2>1 DEF CallIsSound, Placed, Bodiless, Packs!Library, Packs!ActivePack
  <2>2. CASE d # c
    <3>1. CallIsSound(d) /\ calling'[d] = calling[d] /\ calling[d].pc \notin {"destroy", "bury"}
      BY <1>1, <1>4, <2>2, Makers, PackFacts DEF PacksInv
    <3> QED BY <1>2, <3>1 DEF CallIsSound, Packs!Making, Packs!Cleanup
  <2> QED BY <2>1, <2>2
<1>7. MakersDiffer'
  <2>1. \A d \in Caller : d # c => (Makes(d)' <=> Makes(d)) /\ calling'[d].pack = calling[d].pack
    BY <1>4 DEF Makes, Packs!Cleanup
  <2>2. ~Makes(c)'
    BY <1>4 DEF Makes
  <2> QED BY <2>1, <2>2 DEF PacksInv, MakersDiffer
<1>8. RowsAreWhole' /\ Packs!DeletedIsUnreadable'
  BY <1>2 DEF PacksInv, RowsAreWhole, Packs!DeletedIsUnreadable
<1>9. KeysAreSettled'
  <2>1. \A d \in Caller : calling[d].pc \in Unsettled => calling'[d] = calling[d]
    BY <1>4, PackFacts DEF Unsettled, Bodiless, Packs!Step
  <2> QED BY <1>2, <2>1 DEF PacksInv, KeysAreSettled, Packs!ActivePack
<1> QED BY <1>5, <1>6, <1>7, <1>8, <1>9 DEF PacksInv

LEMMA DestroyKeyKeepsPacks ==
  ASSUME PacksInv, NEW c \in Caller, Packs!DestroyKey(c)
  PROVE  PacksInv'
<1> DEFINE p == calling[c].pack
<1>1. calling[c].pc = "destroy" /\ UNCHANGED <<pack, source, made>>
  BY DEF Packs!DestroyKey
<1>2. lock = c /\ Packs!Library(p) /\ p \in Packs!Pack /\ p # Nothing /\ p \in 1..made.pack
  BY <1>1, Makers DEF PacksInv, CallIsSound, Placed
<1>3. \A d \in Caller : d # c => calling[d].pc \notin {"destroy", "bury"}
  BY <1>2, Makers
<1>4. pack[p] # Packs!NoPack
  BY <1>2, RowWasMade DEF Packs!Library
<1>5. CASE keys' = keys \ {p} /\ Packs!Go(c, "bury") /\ UNCHANGED <<lock, faults>>
  <2>1. /\ \E X : calling' \in [Caller -> Calls(X)]
        /\ Moved(c, calling[c].op, "bury", p, calling[c].from, calling[c].src)
    BY <1>5, GoesOn DEF PacksInv, Packs!Step
  <2> HIDE DEF p
  <2>2. PacksShape'
    BY <1>1, <1>5, <2>1 DEF PacksInv, PacksShape
  <2>3. ASSUME NEW d \in Caller PROVE CallIsSound(d)'
    <3>1. CASE d = c
      BY <1>1, <1>2, <1>5, <2>1, <3>1
         DEF CallIsSound, Moved, Placed, Bodiless, Packs!Library, Packs!ActivePack
    <3>2. CASE d # c
      <4>1. CallIsSound(d) /\ calling'[d] = calling[d]
        BY <2>1, <3>2 DEF PacksInv, Moved
      <4>2. calling[d].pc = "insert" => calling[d].pack # p
        BY <1>4, <4>1 DEF CallIsSound, Bodiless
      <4> QED BY <1>1, <1>3, <1>5, <3>2, <4>1, <4>2 DEF CallIsSound, Packs!Making, Packs!Cleanup
    <3> QED BY <3>1, <3>2
  <2>4. MakersDiffer'
    <3>1. \A d \in Caller : d # c => (Makes(d)' <=> Makes(d)) /\ calling'[d].pack = calling[d].pack
      BY <2>1 DEF Makes, Packs!Cleanup, Moved
    <3>2. ~Makes(c)'
      BY <2>1 DEF Makes, Moved
    <3> QED BY <3>1, <3>2 DEF PacksInv, MakersDiffer
  <2>5. RowsAreWhole' /\ Packs!DeletedIsUnreadable'
    BY <1>1, <1>5 DEF PacksInv, RowsAreWhole, Packs!DeletedIsUnreadable
  <2>6. KeysAreSettled'
    <3> SUFFICES ASSUME faults = 0, NEW q \in Packs!Pack
                 PROVE  \/ q \in keys' <=> Packs!ActivePack(q)
                        \/ \E e \in Caller : calling'[e].pc \in Unsettled /\ calling'[e].pack = q
      BY <1>1, <1>5 DEF KeysAreSettled, Packs!ActivePack
    <3>1. CASE q = p
      BY <2>1, <3>1 DEF Moved, Unsettled
    <3>2. CASE q # p
      <4>1. \A e \in Caller : calling[e].pc \in Unsettled /\ calling[e].pack = q => calling'[e] = calling[e]
        BY <2>1, <3>2 DEF Moved, p
      <4> QED BY <1>5, <3>2, <4>1 DEF PacksInv, KeysAreSettled
    <3> QED BY <3>1, <3>2
  <2> QED BY <2>2, <2>3, <2>4, <2>5, <2>6 DEF PacksInv
<1>6. CASE faults' = faults + 1 /\ Packs!Return(c) /\ lock' = Nothing /\ keys' = keys
  <2>1. /\ \E X : calling' \in [Caller -> Calls(X)]
        /\ Moved(c, Nothing, Nothing, Nothing, Nothing, Nothing)
    BY <1>6, Returns DEF PacksInv
  <2>2. PacksShape' /\ faults' # 0
    BY <1>1, <1>6, <2>1 DEF PacksInv, PacksShape
  <2>3. CallIsSound(c)' /\ ~Makes(c)'
    BY <2>1, NothingIsSound DEF Moved
  <2>4. ASSUME NEW d \in Caller, d # c PROVE CallIsSound(d)'
    <3>1. CallIsSound(d) /\ calling'[d] = calling[d]
      BY <2>1, <2>4 DEF PacksInv, Moved
    <3> QED BY <1>1, <1>3, <1>6, <2>2, <2>4, <3>1 DEF CallIsSound, Packs!Making, Packs!Cleanup
  <2>5. MakersDiffer'
    <3>1. \A d \in Caller : d # c => (Makes(d)' <=> Makes(d)) /\ calling'[d].pack = calling[d].pack
      BY <2>1 DEF Makes, Packs!Cleanup, Moved
    <3> QED BY <2>3, <3>1 DEF PacksInv, MakersDiffer
  <2>6. RowsAreWhole' /\ Packs!DeletedIsUnreadable' /\ KeysAreSettled'
    BY <1>1, <1>6, <2>2 DEF PacksInv, RowsAreWhole, Packs!DeletedIsUnreadable, KeysAreSettled
  <2> QED BY <2>2, <2>3, <2>4, <2>5, <2>6 DEF PacksInv
<1> QED BY <1>5, <1>6 DEF Packs!DestroyKey

(* A call that ends with its pack's row given up or marked.                *)
LEMMA BuryPackKeepsPacks ==
  ASSUME PacksInv, NEW c \in Caller, Packs!BuryPack(c)
  PROVE  PacksInv'
<1> DEFINE p == calling[c].pack
<1>1. /\ calling[c].pc = "bury" /\ UNCHANGED <<source, keys, made, faults>> /\ lock' = Nothing
      /\ pack' = [pack EXCEPT ![p].dead = TRUE, ![p].rev = @ + 1]
  BY DEF Packs!BuryPack
<1>2. /\ lock = c /\ Packs!Library(p) /\ p \in Packs!Pack /\ p # Nothing /\ p \in 1..made.pack
      /\ p \notin keys
  BY <1>1, Makers DEF PacksInv, CallIsSound, Placed
<1>3. \A d \in Caller : d # c => calling[d].pc \notin {"destroy", "bury"}
  BY <1>2, Makers
<1>4. pack[p] # Packs!NoPack
  BY <1>2, RowWasMade DEF Packs!Library
<1>5. /\ \E X : calling' \in [Caller -> Calls(X)]
      /\ Moved(c, Nothing, Nothing, Nothing, Nothing, Nothing)
  BY Returns DEF PacksInv, Packs!BuryPack
<1>6. CallIsSound(c)' /\ ~Makes(c)'
  BY <1>5, NothingIsSound DEF Moved
<1>7. /\ pack' \in [Packs!Pack -> PackRows]
      /\ \A q \in Packs!Pack : q # p => pack'[q] = pack[q]
      /\ pack'[p].dead = TRUE /\ pack'[p].scope = pack[p].scope /\ pack'[p] # Packs!NoPack
  BY <1>1, <1>2 DEF PacksInv, PacksShape, PackRows
<1> HIDE DEF p
<1>8. PacksShape'
  BY <1>1, <1>5, <1>7 DEF PacksInv, PacksShape
<1>9. ASSUME NEW d \in Caller, d # c PROVE CallIsSound(d)'
  <2>1. CallIsSound(d) /\ calling'[d] = calling[d]
    BY <1>5, <1>9 DEF PacksInv, Moved
  <2>2. calling[d].pc \in Bodiless => pack'[calling[d].pack] = Packs!NoPack
    BY <1>4, <1>7, <2>1, Makers DEF CallIsSound, Bodiless, Placed
  <2> QED BY <1>1, <1>3, <1>9, <2>1, <2>2 DEF CallIsSound, Packs!Making, Packs!Cleanup
<1>10. MakersDiffer'
  <2>1. \A d \in Caller : d # c => (Makes(d)' <=> Makes(d)) /\ calling'[d].pack = calling[d].pack
    BY <1>5 DEF Makes, Packs!Cleanup, Moved
  <2> QED BY <1>6, <2>1 DEF PacksInv, MakersDiffer
<1>11. RowsAreWhole'
  <2>1. \A s \in Packs!Source : source[s].pack # Nothing => source[s].pack \in Packs!Pack
    BY DEF PacksInv, PacksShape, SourceRows
  <2>2. \A q \in Packs!Pack : q > made.pack => q # p
    BY <1>4 DEF PacksInv, RowsAreWhole
  <2> QED BY <1>1, <1>4, <1>7, <2>1, <2>2 DEF PacksInv, RowsAreWhole
<1>12. KeysAreSettled'
  <2> SUFFICES ASSUME faults = 0, NEW q \in Packs!Pack
               PROVE  \/ q \in keys <=> Packs!ActivePack(q)'
                      \/ \E e \in Caller : calling'[e].pc \in Unsettled /\ calling'[e].pack = q
    BY <1>1 DEF KeysAreSettled
  <2>1. CASE q = p
    BY <1>2, <1>7, <2>1 DEF Packs!ActivePack
  <2>2. CASE q # p
    <3>1. \A e \in Caller : calling[e].pc \in Unsettled /\ calling[e].pack = q => calling'[e] = calling[e]
      BY <1>5, <2>2 DEF Moved, p
    <3> QED BY <1>7, <2>2, <3>1 DEF PacksInv, KeysAreSettled, Packs!ActivePack
  <2> QED BY <2>1, <2>2
<1>13. Packs!DeletedIsUnreadable'
  BY <1>1, <1>2, <1>7 DEF PacksInv, Packs!DeletedIsUnreadable
<1> QED BY <1>6, <1>8, <1>9, <1>10, <1>11, <1>12, <1>13 DEF PacksInv

LEMMA RemoveRowKeepsPacks ==
  ASSUME PacksInv, NEW c \in Caller, Packs!RemoveRow(c)
  PROVE  PacksInv'
<1> DEFINE p == calling[c].pack
<1>1. /\ calling[c].pc = "remove_row" /\ lock = Nothing /\ UNCHANGED <<keys, made, lock, faults>>
      /\ pack' = [pack EXCEPT ![p] = Packs!NoPack]
      /\ source' = [s \in Packs!Source |-> IF source[s].pack = p THEN Packs!NoSource ELSE source[s]]
      /\ calling' = [calling EXCEPT ![c].pc = "remove_key"]
  BY DEF Packs!RemoveRow
<1>2. p \in Packs!Pack /\ p # Nothing /\ p \in 1..made.pack /\ Packs!Cleanup(c) /\ Makes(c)
  BY <1>1, Makers DEF PacksInv, CallIsSound, Placed, Makes
<1>3. \A d \in Caller : calling[d].pc \notin {"destroy", "bury"}
  BY <1>1, Makers, PackFacts
<1>4. /\ \E X : calling' \in [Caller -> Calls(X)]
      /\ Moved(c, calling[c].op, "remove_key", p, calling[c].from, calling[c].src)
  BY <1>1, GoesOn DEF PacksInv, Packs!Step
<1> HIDE DEF p
<1>5. Packs!NoPack \in PackRows
  BY DEF PackRows
<1>6. /\ pack' \in [Packs!Pack -> PackRows] /\ pack'[p] = Packs!NoPack
      /\ \A q \in Packs!Pack : q # p => pack'[q] = pack[q]
  BY <1>1, <1>2, <1>5 DEF PacksInv, PacksShape
<1>7. /\ \E V : source' \in [Packs!Source -> SourceRows(V)]
      /\ \A s \in Packs!Source :
            \/ source'[s].pack = source[s].pack /\ source[s].pack # p
            \/ source'[s].pack = Nothing
  <2>1. PICK V : source \in [Packs!Source -> SourceRows(V)]
    BY DEF PacksInv, PacksShape
  <2> DEFINE W == V \cup {Nothing}
  <2>2. Nothing \in W /\ source \in [Packs!Source -> SourceRows(W)]
    BY <2>1 DEF SourceRows
  <2> HIDE DEF W
  <2>3. source' \in [Packs!Source -> SourceRows(W)]
    BY <1>1, <2>2 DEF SourceRows
  <2> QED BY <1>1, <2>3
<1>8. PacksShape'
  BY <1>1, <1>4, <1>6, <1>7 DEF PacksInv, PacksShape
<1>9. ASSUME NEW d \in Caller PROVE CallIsSound(d)'
  <2>1. CASE d = c
    BY <1>1, <1>2, <1>4, <1>6, <2>1 DEF CallIsSound, Moved, Placed, Bodiless, Packs!Cleanup
  <2>2. CASE d # c
    <3>1. CallIsSound(d) /\ calling'[d] = calling[d]
      BY <1>4, <2>2 DEF PacksInv, Moved
    <3>2. calling[d].pc \in Bodiless => pack'[calling[d].pack] = Packs!NoPack
      BY <1>6, <3>1, Makers DEF CallIsSound, Bodiless, Placed
    <3>3. calling[d].pc \in {"replace_key", "replace_row"} =>
             source'[calling[d].src].pack \in {Nothing, calling[d].pack}
      <4> SUFFICES ASSUME calling[d].pc \in {"replace_key", "replace_row"}
                   PROVE  source'[calling[d].src].pack \in {Nothing, calling[d].pack}
        OBVIOUS
      <4>1. calling[d].src \in 1..made.source /\ source[calling[d].src].pack \in {Nothing, calling[d].pack}
        BY <3>1 DEF CallIsSound
      <4>2. made.source \in 0..MaxSource
        BY DEF PacksInv, PacksShape
      <4>3. calling[d].src \in Packs!Source
        BY <4>1, <4>2, PackFacts
      <4> QED BY <1>7, <4>1, <4>3
    <3>4. Packs!Making(d)' = Packs!Making(d) /\ (Packs!Cleanup(d)' <=> Packs!Cleanup(d))
      BY <3>1 DEF Packs!Making, Packs!Cleanup
    <3>5. made' = made /\ keys' = keys /\ faults' = faults /\ calling[d].pc \notin {"destroy", "bury"}
      BY <1>1, <1>3
    <3> QED BY <3>1, <3>2, <3>3, <3>4, <3>5 DEF CallIsSound
  <2> QED BY <2>1, <2>2
<1>10. MakersDiffer'
  <2>1. \A d \in Caller : (Makes(d)' => Makes(d)) /\ calling'[d].pack = calling[d].pack
    <3> TAKE d \in Caller
    <3>1. CASE d = c
      BY <1>2, <1>4, <3>1 DEF Moved, p
    <3>2. CASE d # c
      BY <1>4, <3>2 DEF Makes, Packs!Cleanup, Moved
    <3> QED BY <3>1, <3>2
  <2> QED BY <2>1 DEF PacksInv, MakersDiffer
<1>11. RowsAreWhole'
  <2>1. ASSUME NEW s \in Packs!Source, source'[s].pack # Nothing
        PROVE  s <= made'.source /\ pack'[source'[s].pack] # Packs!NoPack
    <3>1. source'[s].pack = source[s].pack /\ source[s].pack # p
      BY <1>7, <2>1
    <3>2. source[s].pack \in Packs!Pack /\ s <= made.source /\ pack[source[s].pack] # Packs!NoPack
      BY <2>1, <3>1 DEF PacksInv, PacksShape, SourceRows, RowsAreWhole
    <3> QED BY <1>1, <1>6, <3>1, <3>2
  <2> QED BY <1>1, <1>6, <2>1 DEF PacksInv, RowsAreWhole
<1>12. KeysAreSettled'
  <2> SUFFICES ASSUME faults = 0, NEW q \in Packs!Pack
               PROVE  \/ q \in keys <=> Packs!ActivePack(q)'
                      \/ \E e \in Caller : calling'[e].pc \in Unsettled /\ calling'[e].pack = q
    BY <1>1 DEF KeysAreSettled
  <2>1. CASE q = p
    BY <1>4, <2>1 DEF Moved, Unsettled, Bodiless
  <2>2. CASE q # p
    <3>1. \A e \in Caller : calling[e].pc \in Unsettled /\ calling[e].pack = q => calling'[e] = calling[e]
      BY <1>4, <2>2 DEF Moved, p
    <3> QED BY <1>6, <2>2, <3>1 DEF PacksInv, KeysAreSettled, Packs!ActivePack
  <2> QED BY <2>1, <2>2
<1>13. Packs!DeletedIsUnreadable'
  BY <1>1, <1>6 DEF PacksInv, Packs!DeletedIsUnreadable
<1> QED BY <1>8, <1>9, <1>10, <1>11, <1>12, <1>13 DEF PacksInv

(* The snapshot's key is no pack's.                                        *)
LEMMA FreezingKeepsPacks ==
  ASSUME PacksInv, NEW c \in Caller, Packs!FreezeKey(c) \/ Packs!FreezeFails(c)
  PROVE  PacksInv'
<1>1. /\ UNCHANGED <<pack, source, made, lock>>
      /\ calling[c].pc \in {"freeze", "freeze_row"}
      /\ \/ /\ keys' = keys \cup {Packs!Snapshot} /\ faults' = faults
            /\ calling' = [calling EXCEPT ![c].pc = "freeze_row"]
         \/ /\ keys' = keys \ {Packs!Snapshot} /\ faults' = faults + 1
            /\ calling' = [calling EXCEPT ![c] = Packs!Idle]
  BY DEF Packs!FreezeKey, Packs!FreezeFails
<1>2. /\ keys' \subseteq Packs!Pack \cup {Packs!Snapshot}
      /\ \A p \in Packs!Pack : p \in keys' <=> p \in keys
  BY <1>1, PackFacts DEF PacksInv, PacksShape
<1>3. /\ \E X : calling' \in [Caller -> Calls(X)]
      /\ \A d \in Caller : d # c => calling'[d] = calling[d]
      /\ \/ calling'[c].pc = "freeze_row" /\ calling'[c].pack = calling[c].pack
         \/ calling'[c].pc = Nothing /\ calling'[c].pack = Nothing
  <2>1. CASE calling' = [calling EXCEPT ![c].pc = "freeze_row"]
    BY <2>1, GoesOn DEF PacksInv, Moved, Packs!Step
  <2>2. CASE calling' = [calling EXCEPT ![c] = Packs!Idle]
    BY <2>2, Returns DEF PacksInv, Moved
  <2> QED BY <1>1, <2>1, <2>2
<1>4. faults' \in Nat /\ (faults' = 0 => faults = 0)
  BY <1>1 DEF PacksInv, PacksShape
<1>5. PacksShape'
  BY <1>1, <1>2, <1>3, <1>4 DEF PacksInv, PacksShape
<1>6. ASSUME NEW d \in Caller PROVE CallIsSound(d)'
  <2>1. CASE d = c
    <3>1. CASE calling'[c].pc = "freeze_row" /\ calling'[c].pack = calling[c].pack
      BY <1>1, <2>1, <3>1 DEF PacksInv, CallIsSound, Placed, Bodiless
    <3>2. CASE calling'[c].pc = Nothing /\ calling'[c].pack = Nothing
      BY <2>1, <3>2, NothingIsSound
    <3> QED BY <1>3, <3>1, <3>2
  <2>2. CASE d # c
    <3>1. CallIsSound(d) /\ calling'[d] = calling[d]
      BY <1>3, <2>2 DEF PacksInv
    <3>2. calling[d].pc \in Placed => (calling[d].pack \in keys' <=> calling[d].pack \in keys)
      BY <1>2, Makers
    <3>3. /\ Packs!Making(d)' = Packs!Making(d) /\ (Packs!Cleanup(d)' <=> Packs!Cleanup(d))
          /\ (Packs!Library(calling[d].pack)' <=> Packs!Library(calling[d].pack))
      BY <1>1, <3>1 DEF Packs!Making, Packs!Cleanup, Packs!Library, Packs!ActivePack
    <3> QED BY <1>1, <1>4, <3>1, <3>2, <3>3 DEF CallIsSound, Placed
  <2> QED BY <2>1, <2>2
<1>7. MakersDiffer'
  <2>1. \A d \in Caller : d # c => (Makes(d)' <=> Makes(d)) /\ calling'[d].pack = calling[d].pack
    BY <1>3 DEF Makes, Packs!Cleanup
  <2>2. ~Makes(c)'
    BY <1>3, PackFacts DEF Makes, Packs!Step
  <2> QED BY <2>1, <2>2 DEF PacksInv, MakersDiffer
<1>8. RowsAreWhole' /\ Packs!DeletedIsUnreadable'
  BY <1>1, <1>2 DEF PacksInv, RowsAreWhole, Packs!DeletedIsUnreadable
<1>9. KeysAreSettled'
  <2>1. \A d \in Caller : calling[d].pc \in Unsettled => calling'[d] = calling[d]
    BY <1>1, <1>3 DEF Unsettled, Bodiless
  <2> QED BY <1>1, <1>2, <1>4, <2>1 DEF PacksInv, KeysAreSettled, Packs!ActivePack
<1> QED BY <1>5, <1>6, <1>7, <1>8, <1>9 DEF PacksInv

(* The process dies: nothing is said of the calls there were.              *)
LEMMA CrashKeepsPacks ==
  ASSUME PacksInv, Packs!Crash
  PROVE  PacksInv'
<1>1. /\ UNCHANGED <<pack, source, keys, made>> /\ faults' = faults + 1 /\ lock' = Nothing
      /\ calling' = [c \in Caller |-> Packs!Idle]
  BY DEF Packs!Crash
<1>2. \E X : calling' \in [Caller -> Calls(X)]
  BY <1>1, IdleCall
<1>3. \A c \in Caller : calling'[c].pc = Nothing /\ calling'[c].pack = Nothing
  BY <1>1, IdleCall
<1>4. \A c \in Caller : CallIsSound(c)' /\ ~Makes(c)'
  BY <1>3, NothingIsSound
<1>5. PacksShape' /\ faults' # 0
  BY <1>1, <1>2 DEF PacksInv, PacksShape
<1> QED BY <1>1, <1>4, <1>5 DEF PacksInv, MakersDiffer, RowsAreWhole, KeysAreSettled, Packs!DeletedIsUnreadable

(* A notebook just opened, or one with a pack of each scope.               *)
LEMMA PacksInit ==
  ASSUME Packs!Init
  PROVE  PacksInv
<1>1. /\ calling = [c \in Caller |-> Packs!Idle] /\ lock = Nothing /\ faults = 0
      /\ Packs!Fresh \/ Packs!Established
  BY DEF Packs!Init
<1>2. \E X : calling \in [Caller -> Calls(X)]
  BY <1>1, IdleCall
<1>3. \A c \in Caller : calling[c].pc = Nothing /\ calling[c].pack = Nothing
  BY <1>1, IdleCall
<1>4. \A c \in Caller : CallIsSound(c) /\ ~Makes(c)
  BY <1>3, PackFacts DEF CallIsSound, Makes, Placed, Bodiless, Packs!Step
<1>5. Packs!NoPack \in PackRows /\ \A V : Nothing \in V => Packs!NoSource \in SourceRows(V)
  BY DEF PackRows, SourceRows
<1>6. CASE Packs!Fresh
  <2>1. /\ pack = [p \in Packs!Pack |-> Packs!NoPack] /\ source = [s \in Packs!Source |-> Packs!NoSource]
        /\ keys = {} /\ made = [pack |-> 0, source |-> 0]
    BY <1>6 DEF Packs!Fresh
  <2>2. \E V : source \in [Packs!Source -> SourceRows(V)]
    <3>1. source \in [Packs!Source -> SourceRows({Nothing})]
      BY <1>5, <2>1
    <3> QED BY <3>1
  <2>3. PacksShape
    <3>1. pack \in [Packs!Pack -> PackRows]
      BY <1>5, <2>1
    <3>2. made \in [pack : 0..MaxPack, source : 0..MaxSource]
      BY <2>1, PackFacts
    <3> QED BY <1>1, <1>2, <2>1, <2>2, <3>1, <3>2 DEF PacksShape
  <2>4. \A p \in Packs!Pack : pack[p] = Packs!NoPack /\ ~Packs!ActivePack(p) /\ ~pack[p].dead
    BY <2>1 DEF Packs!ActivePack
  <2>5. \A s \in Packs!Source : source[s].pack = Nothing
    BY <2>1
  <2> QED BY <1>4, <2>1, <2>3, <2>4, <2>5
          DEF PacksInv, MakersDiffer, RowsAreWhole, KeysAreSettled, Packs!DeletedIsUnreadable
<1>7. CASE Packs!Established
  <2>1. /\ pack = [p \in Packs!Pack |-> IF p > 2 THEN Packs!NoPack
                                        ELSE [scope |-> IF p = 1 THEN "private" ELSE "library",
                                              rev |-> 1, dead |-> FALSE]]
        /\ keys = {1, 2} /\ made = [pack |-> 2, source |-> 2]
    BY <1>7 DEF Packs!Established
  <2>2. PICK t, u \in Text :
          source = [s \in Packs!Source |-> IF s > 2 THEN Packs!NoSource
                                           ELSE [pack |-> s, text |-> IF s = 1 THEN t ELSE u,
                                                 rev |-> 0, dead |-> FALSE]]
    BY <1>7 DEF Packs!Established
  <2>3. MaxPack >= 2 /\ MaxSource >= 2 /\ 1 \in Packs!Pack /\ 2 \in Packs!Pack
    BY PackFacts, ContextAssumption DEF Packs!PacksAssumption
  <2>4. \A s \in Packs!Source : ~(s > 2) => s \in Packs!Pack /\ s # Nothing /\ s <= 2
    BY <2>3, PackFacts
  <2>5. \E V : source \in [Packs!Source -> SourceRows(V)]
    <3> DEFINE W == {Nothing, t, u}
    <3>1. Nothing \in W /\ t \in W /\ u \in W
      OBVIOUS
    <3> HIDE DEF W
    <3>2. source \in [Packs!Source -> SourceRows(W)]
      BY <1>5, <2>2, <2>4, <3>1 DEF SourceRows
    <3> QED BY <3>2
  <2>6. PacksShape
    <3>1. pack \in [Packs!Pack -> PackRows]
      BY <1>5, <2>1 DEF PackRows
    <3>2. made \in [pack : 0..MaxPack, source : 0..MaxSource]
      BY <2>1, <2>3, PackFacts
    <3> QED BY <1>1, <1>2, <2>1, <2>3, <2>5, <3>1, <3>2 DEF PacksShape
  <2>7. \A p \in Packs!Pack :
           /\ p > 2 => pack[p] = Packs!NoPack /\ ~Packs!ActivePack(p) /\ p \notin keys
           /\ ~(p > 2) => /\ p \in keys /\ pack[p].scope # Nothing /\ pack[p] # Packs!NoPack
                          /\ Packs!ActivePack(p)
           /\ ~pack[p].dead
    BY <2>1, PackFacts DEF Packs!ActivePack
  <2>8. \A s \in Packs!Source : source[s].pack # Nothing => s <= 2 /\ source[s].pack = s /\ s \in Packs!Pack
    BY <2>2, <2>4
  <2>9. RowsAreWhole
    BY <2>1, <2>7, <2>8, PackFacts DEF RowsAreWhole
  <2> QED BY <1>4, <2>6, <2>7, <2>9 DEF PacksInv, MakersDiffer, KeysAreSettled, Packs!DeletedIsUnreadable
<1> QED BY <1>1, <1>6, <1>7

LEMMA PacksNext ==
  ASSUME PacksInv, Packs!Next
  PROVE  PacksInv'
<1>1. ASSUME NEW c \in Caller, Packs!Creating(c) PROVE PacksInv'
  BY <1>1, MintKeyKeepsPacks, InsertPackKeepsPacks, DiscardKeepsPacks, CreatingIsQuiet DEF Packs!Creating
<1>2. ASSUME NEW c \in Caller, Packs!Editing(c) PROVE PacksInv'
  BY <1>2, EditingIsQuiet, StoreSourceKeepsPacks, ReplaceRowKeepsPacks, DeleteSourceKeepsPacks,
     ReplaceDocumentKeepsPacks DEF Packs!Editing
<1>3. ASSUME NEW c \in Caller, Packs!Deleting(c) PROVE PacksInv'
  BY <1>3, DeletePackKeepsPacks, DestroyKeyKeepsPacks, BuryPackKeepsPacks DEF Packs!Deleting
<1>4. ASSUME NEW c \in Caller, Packs!Filling(c) PROVE PacksInv'
  BY <1>4, FillingIsQuiet, RemoveRowKeepsPacks, DiscardKeepsPacks DEF Packs!Filling
<1>5. ASSUME NEW c \in Caller, Packs!Sending(c) PROVE PacksInv'
  BY <1>5, SendingIsQuiet, FreezingKeepsPacks DEF Packs!Sending
<1> QED BY <1>1, <1>2, <1>3, <1>4, <1>5, CrashKeepsPacks DEF Packs!Next

LEMMA PacksUnchanged ==
  ASSUME PacksInv, UNCHANGED packVars
  PROVE  PacksInv'
<1>1. UNCHANGED <<pack, source, keys, made, lock, faults, calling>>
  BY DEF packVars
<1>2. PacksShape'
  BY <1>1 DEF PacksInv, PacksShape
<1>3. ASSUME NEW c \in Caller PROVE CallIsSound(c)' /\ (Makes(c)' <=> Makes(c))
  BY <1>1 DEF PacksInv, CallIsSound, Packs!Making, Packs!Cleanup, Packs!Library, Packs!ActivePack, Makes
<1>4. MakersDiffer'
  BY <1>1, <1>3 DEF PacksInv, MakersDiffer
<1>5. RowsAreWhole' /\ KeysAreSettled' /\ Packs!DeletedIsUnreadable'
  BY <1>1 DEF PacksInv, RowsAreWhole, KeysAreSettled, Packs!ActivePack, Packs!DeletedIsUnreadable
<1> QED BY <1>2, <1>3, <1>4, <1>5 DEF PacksInv

(* With every call returned no pack is between its key and its row.        *)
LEMMA PacksAreSettled ==
  ASSUME PacksInv
  PROVE  KeysFollowPacks
<1>1. ASSUME \A c \in Caller : calling[c] = Packs!Idle, faults = 0
      PROVE  /\ keys \cap Packs!Pack = {p \in Packs!Pack : Packs!ActivePack(p)}
             /\ \A s \in Packs!Source : source[s].pack # Nothing => pack[source[s].pack] # Packs!NoPack
  <2>1. \A c \in Caller : calling[c].pc \notin Unsettled
    BY <1>1, IdleCall, PackFacts DEF Unsettled, Bodiless, Packs!Step
  <2>2. \A p \in Packs!Pack : p \in keys <=> Packs!ActivePack(p)
    BY <1>1, <2>1 DEF PacksInv, KeysAreSettled
  <2> QED BY <2>2 DEF PacksInv, RowsAreWhole
<1> QED BY <1>1 DEF KeysFollowPacks, Packs!KeysFollowPacks, Packs!NothingIsOrphaned, PacksInv

(* No key outlives its pack: a deleted pack's key is gone before its       *)
(* tombstone, and with every call returned and nothing having failed the   *)
(* key store holds the keys of the packs there are and no other, whatever  *)
(* the callers, their number and the bounds.                               *)
THEOREM PacksHold == StoresSpec => []KeysFollowPacks
<1>1. InitStores => PacksInv
  BY PacksInit DEF InitStores
<1>2. PacksInv /\ [NextStores]_<<fileVars, upgradeVars, packVars, part>> => PacksInv'
  <2> SUFFICES ASSUME PacksInv, [NextStores]_<<fileVars, upgradeVars, packVars, part>>
               PROVE  PacksInv'
    OBVIOUS
  <2>1. CASE Packs!Next
    BY <2>1, PacksNext
  <2>2. CASE UNCHANGED packVars
    BY <2>2, PacksUnchanged
  <2> QED BY <2>1, <2>2 DEF NextStores
<1>3. PacksInv => KeysFollowPacks
  BY PacksAreSettled
<1> QED BY <1>1, <1>2, <1>3, PTL DEF StoresSpec
=============================================================================
