--------------------------- MODULE EngineAdapter ---------------------------
(***************************************************************************)
(* The Windows driver's engine adapter (analysis/win-decomp/               *)
(* EngineAdapter.c): attaching and detaching it, a match that teaches the  *)
(* template of the matched finger, the one learned template it caches, and *)
(* how Deactivate writes that template back: a backup file first, then the *)
(* stored record deleted, the learned one added, the backup removed.       *)
(* Activate adds what a backup file still holds.  The process may die      *)
(* between any two of these steps, and each of them may fail.              *)
(*                                                                         *)
(* The biometric framework calls one handler at a time; what it does       *)
(* itself (commit or remove a finger, choose which record to compare) and  *)
(* the storage adapter behind AddRecord and DeleteRecord are external.     *)
(***************************************************************************)
EXTENDS Integers

CONSTANTS
    Finger,         \* an identity and a sub-factor
    RECOVERY,       \* configuration byte 0x48d: keep a backup file
    MAX_LEARN       \* bound: how often one template is learned from

ASSUME EngineAdapterAssumption == RECOVERY \in BOOLEAN /\ MAX_LEARN \in Nat

VARIABLES
    attached,   \* the pipeline has an engine context
    loaded,     \* the context's algorithm library is loaded
    cached,     \* the learned template with the finger it belongs to, if any
    dirty,      \* the context's update count
    pc,         \* the next disk step of the handler that is running
    store,      \* records of the template database
    backupFile, \* what goodix_temp.dat holds, if it is long enough to be read
    registered, \* history: fingers the user enrolled and did not remove
    revived     \* history: removed fingers that Activate added again

adapterVars == <<attached, loaded, cached, dirty, pc, store, backupFile,
                 registered, revived>>

memory == <<attached, loaded, cached, dirty>>
disk == <<store, backupFile>>
history == <<registered, revived>>

\* A template blob and its checksum.  A blob cut short is not whole, and its
\* last four bytes are not the checksum of the rest.
Record == [finger : Finger, learned : 0..MAX_LEARN, whole : BOOLEAN, crc : BOOLEAN]

Cut(r) == [r EXCEPT !.whole = FALSE, !.crc = FALSE]

\* templateStudy changed the template; it is packed without a checksum.
Learn(r) == [r EXCEPT !.learned = @ + 1, !.crc = FALSE]

\* What Deactivate writes: the blob under the finger noted with it, sealed with
\* a checksum of its own (_AdapterSettemplateCRC).
Sealed(c) == [c.blob EXCEPT !.finger = c.owner, !.crc = TRUE]

\* All a crash leaves, and all a fresh process starts with.
Idle ==
    /\ attached' = FALSE
    /\ loaded' = FALSE
    /\ cached' = {}
    /\ dirty' = FALSE

AdapterInit ==
    /\ attached = FALSE
    /\ loaded = FALSE
    /\ cached = {}
    /\ dirty = FALSE
    /\ pc = "idle"
    /\ store = {}
    /\ backupFile = {}
    /\ registered = {}
    /\ revived = {}

-----------------------------------------------------------------------------
(* The framework: a finger is committed or removed between two calls.      *)

CommitFinger(f) ==
    /\ pc = "idle"
    /\ attached
    /\ \A r \in store : r.finger # f
    /\ registered' = registered \union {f}
    /\ revived' = revived \ {f}
    /\ store' = store \union {[finger |-> f, learned |-> 0, whole |-> TRUE, crc |-> TRUE]}
    /\ UNCHANGED <<memory, pc, backupFile>>

RemoveFinger(f) ==
    /\ pc = "idle"
    /\ \E r \in store : r.finger = f
    /\ store' = {r \in store : r.finger # f}
    /\ registered' = registered \ {f}
    /\ revived' = revived \ {f}
    /\ UNCHANGED <<memory, pc, backupFile>>

\* The process dies: the files and the database stay as they are.
Crash ==
    /\ Idle
    /\ pc' = "idle"
    /\ UNCHANGED <<disk, history>>

-----------------------------------------------------------------------------
(* Attach, Detach.                                                         *)

\* An attached pipeline refuses, and the refusal overwrites its context's
\* pointer.  A sensor that does not answer leaves a context without algorithm.
Attach ==
    /\ pc = "idle"
    /\ \/ Idle
       \/ /\ ~attached
          /\ attached' = TRUE
          /\ loaded' \in BOOLEAN
          /\ cached' = {}
          /\ dirty' = FALSE
    /\ UNCHANGED <<pc, disk, history>>

\* _DeleteOrTruncFile: the file is deleted, emptied, or neither.
DeleteOrTrunc == backupFile' \in {backupFile, {}}

\* The backup goes first, whatever it holds; a cached template is freed.
Detach ==
    /\ pc = "idle"
    /\ IF RECOVERY THEN DeleteOrTrunc ELSE UNCHANGED backupFile
    /\ Idle
    /\ UNCHANGED <<pc, store, history>>

-----------------------------------------------------------------------------
(* Activate.                                                               *)

Activate ==
    /\ pc = "idle"
    /\ attached
    /\ RECOVERY
    /\ backupFile # {}
    /\ pc' = "restore"
    /\ UNCHANGED <<memory, disk, history>>

\* AddRecord takes the file as it is; when it fails the file is left.
Restore ==
    /\ pc = "restore"
    /\ \/ /\ store' = store \union backupFile
          /\ revived' = revived \union ({r.finger : r \in backupFile} \ registered)
          /\ pc' = "restored"
       \/ /\ pc' = "idle"
          /\ UNCHANGED <<store, revived>>
    /\ UNCHANGED <<memory, backupFile, registered>>

DropRestored ==
    /\ pc = "restored"
    /\ DeleteOrTrunc
    /\ pc' = "idle"
    /\ UNCHANGED <<memory, store, history>>

-----------------------------------------------------------------------------
(* A comparison that matches and learns.                                   *)

\* Mutant: the checksum is not looked at.
BugCompare(r) ==
    /\ pc = "idle"
    /\ attached
    /\ loaded
    /\ r \in store
    /\ r.learned < MAX_LEARN
    /\ cached' = {[owner |-> r.finger, blob |-> Learn(r)]}
    /\ dirty' = TRUE
    /\ UNCHANGED <<attached, loaded, pc, disk, history>>

\* Mutant: an owner that is already set is kept.
BugOwnerCompare(r) ==
    /\ pc = "idle"
    /\ attached
    /\ loaded
    /\ r \in store
    /\ r.crc
    /\ r.learned < MAX_LEARN
    /\ \E o \in (IF cached = {} THEN {r.finger} ELSE {c.owner : c \in cached}) :
          cached' = {[owner |-> o, blob |-> Learn(r)]}
    /\ dirty' = TRUE
    /\ UNCHANGED <<attached, loaded, pc, disk, history>>

\* The template of the record matched and templateStudy changed it.  What was
\* cached is freed, another finger's as well, before the new copy is allocated.
Compare(r) ==
    /\ pc = "idle"
    /\ attached
    /\ loaded
    /\ r \in store
    /\ r.crc
    /\ r.learned < MAX_LEARN
    /\ \/ /\ cached' = {[owner |-> r.finger, blob |-> Learn(r)]}
          /\ dirty' = TRUE
       \/ /\ cached' = {}
          /\ UNCHANGED dirty
    /\ UNCHANGED <<attached, loaded, pc, disk, history>>

-----------------------------------------------------------------------------
(* Deactivate.                                                             *)

Release ==
    /\ cached' = {}
    /\ dirty' = FALSE

\* Nothing is written when the disk is nearly full or the database has no room.
Deactivate ==
    /\ pc = "idle"
    /\ attached
    /\ dirty
    /\ cached # {}
    /\ \/ /\ pc' = IF RECOVERY THEN "backup" ELSE "delete"
          /\ UNCHANGED <<cached, dirty>>
       \/ /\ Release
          /\ UNCHANGED pc
    /\ UNCHANGED <<attached, loaded, disk, history>>

\* The file stays as it is when there is no memory for its contents or it does
\* not open; the bytes written are logged and not checked.
WriteBackup ==
    /\ pc = "backup"
    /\ \E c \in cached : backupFile' \in {backupFile, {}, {Cut(Sealed(c))}, {Sealed(c)}}
    /\ pc' = "delete"
    /\ UNCHANGED <<memory, store, history>>

\* Mutant: the result of DeleteRecord is not checked.
BugDeleteOld ==
    /\ pc = "delete"
    /\ \E c \in cached :
          store' \in {store, {r \in store : r.finger # c.owner}}
    /\ pc' = "add"
    /\ UNCHANGED <<memory, backupFile, history>>

\* DeleteRecord fails at least when the finger has no record.
DeleteOld ==
    /\ pc = "delete"
    /\ \E c \in cached :
          \/ /\ \E r \in store : r.finger = c.owner
             /\ store' = {r \in store : r.finger # c.owner}
             /\ pc' = "add"
             /\ UNCHANGED <<cached, dirty>>
          \/ /\ Release
             /\ pc' = "idle"
             /\ UNCHANGED store
    /\ UNCHANGED <<attached, loaded, backupFile, history>>

\* Mutant: the backup is dropped whether or not the record was added.
BugAddNew ==
    /\ pc = "add"
    /\ \E c \in cached : store' \in {store, store \union {Sealed(c)}}
    /\ pc' = "drop"
    /\ UNCHANGED <<memory, backupFile, history>>

\* The record is filed under the owner that was noted with the blob.
AddNew ==
    /\ pc = "add"
    /\ \E c \in cached :
          \/ /\ store' = store \union {Sealed(c)}
             /\ IF RECOVERY THEN pc' = "drop" /\ UNCHANGED <<cached, dirty>>
                            ELSE pc' = "idle" /\ Release
          \/ /\ pc' = "idle"
             /\ Release
             /\ UNCHANGED store
    /\ UNCHANGED <<attached, loaded, backupFile, history>>

DropBackup ==
    /\ pc = "drop"
    /\ DeleteOrTrunc
    /\ Release
    /\ pc' = "idle"
    /\ UNCHANGED <<attached, loaded, store, history>>

-----------------------------------------------------------------------------
AdapterNext ==
    \/ \E f \in Finger : CommitFinger(f) \/ RemoveFinger(f)
    \/ Crash
    \/ Attach
    \/ Detach
    \/ Activate
    \/ Restore
    \/ DropRestored
    \/ \E r \in store : Compare(r)
    \/ Deactivate
    \/ WriteBackup
    \/ DeleteOld
    \/ AddNew
    \/ DropBackup

AdapterSpec == AdapterInit /\ [][AdapterNext]_adapterVars

-----------------------------------------------------------------------------
(* Properties.                                                             *)

\* Type correctness: at most one backup and at most one cached template.
AdapterTypeOK ==
    /\ attached \in BOOLEAN
    /\ loaded \in BOOLEAN
    /\ cached \in {{}} \union {{c} : c \in [owner : Finger, blob : Record]}
    /\ dirty \in BOOLEAN
    /\ pc \in {"idle", "restore", "restored", "backup", "delete", "add", "drop"}
    /\ store \subseteq Record
    /\ backupFile \in {{}} \union {{r} : r \in Record}
    /\ registered \subseteq Finger
    /\ revived \subseteq Finger

\* A cached template belongs to the finger noted with it and will be flushed
\* (EngineAdapter.c:14146-14191 writes the three in one go).
CacheBelongs ==
    \A c \in cached : dirty /\ c.owner = c.blob.finger

\* A blob whose checksum is right is whole, although the checksum is computed
\* anew at every flush, over whatever was learned from, and a backup that was
\* cut short goes into the database as it is (EngineAdapter.c:12407-12424).
SealMeansWhole ==
    \A r \in store \union backupFile : r.crc => r.whole

\* A finger the user removed comes back only through a backup that Activate
\* restores, never through the flush of a template learned before.
StoreExplained ==
    \A r \in store : r.finger \in registered \union revived

\* A usable copy of a finger's template.
Kept(f) == \E r \in store \union backupFile : r.finger = f /\ r.whole /\ r.crc

\* The last usable copy of a finger goes only when the user removes it, when
\* Detach drops the backup, when another backup is written over it, or when a
\* flush runs without a complete backup of what it writes.
LastCopyKept ==
    [][\A f \in Finger :
          Kept(f) /\ ~Kept(f)' =>
             \/ RemoveFinger(f)
             \/ Detach
             \/ WriteBackup
             \/ (DeleteOld \/ DropBackup) /\ \A c \in cached : backupFile # {Sealed(c)}]_adapterVars

=============================================================================
