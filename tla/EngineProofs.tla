---------------------------- MODULE EngineProofs ----------------------------
(***************************************************************************)
(* Proofs about the engine adapter of the Windows driver.                  *)
(*                                                                         *)
(* EngineAdapter: whatever fails, wherever the process dies and however    *)
(* many fingers there are, what the write-back keeps of a template.        *)
(*                                                                         *)
(* EngineEnrollment, for all numbers of samples and tips: GInv ties the    *)
(* session to the counters and the backup image; one lemma for each thing  *)
(* that is done to the session shows that it keeps GInv, and an update is  *)
(* a chain of these.                                                       *)
(***************************************************************************)
EXTENDS EngineAdapter, EngineEnrollment, SequenceTheorems, TLAPS

-----------------------------------------------------------------------------
(* The write-back of a learned template.                                   *)

\* A cached template was learned from a whole one.
CacheWhole == \A c \in cached : c.blob.whole

\* Where a flush is: the record to add stands for one that was deleted, and the
\* backup is dropped only when what it backs up was added.
FlushOrder ==
    /\ pc = "add" => \A c \in cached : c.owner \in registered \union revived
    /\ pc = "drop" => \A c \in cached : Sealed(c) \in store
    /\ pc = "restored" => backupFile \subseteq store

AdapterInv == AdapterTypeOK /\ CacheBelongs /\ CacheWhole /\ SealMeansWhole /\ StoreExplained /\ FlushOrder

-----------------------------------------------------------------------------
\* Cutting a record keeps it a record and breaks it and its checksum.
LEMMA CutRecord ==
    ASSUME NEW r \in Record
    PROVE  Cut(r) \in Record /\ ~Cut(r).crc /\ Cut(r).finger = r.finger
  BY DEF Cut, Record

\* A template below the bound can be learned from; the result is as whole as
\* what it was learned from.
LEMMA LearnRecord ==
    ASSUME NEW r \in Record, r.learned < MAX_LEARN
    PROVE  Learn(r) \in Record /\ Learn(r).whole = r.whole /\ Learn(r).finger = r.finger
<1>1. r.learned \in 0..MAX_LEARN /\ r.learned + 1 \in 0..MAX_LEARN
  BY EngineAdapterAssumption DEF Record, EngineAdapterAssumption
<1> QED BY <1>1 DEF Learn, Record

\* Sealing files a blob under its owner with a checksum of its own.
LEMMA SealedRecord ==
    ASSUME NEW c \in [owner : Finger, blob : Record]
    PROVE  /\ Sealed(c) \in Record
           /\ Sealed(c).crc
           /\ Sealed(c).whole = c.blob.whole
           /\ Sealed(c).finger = c.owner
  BY DEF Sealed, Record

\* There is at most one cached template and it is typed.
LEMMA CachedTyped ==
    ASSUME AdapterTypeOK, NEW c \in cached
    PROVE  c \in [owner : Finger, blob : Record] /\ cached = {c}
  BY DEF AdapterTypeOK

LEMMA EngineInit == AdapterInit => AdapterInv
<1> SUFFICES ASSUME AdapterInit PROVE AdapterInv
  OBVIOUS
<1>1. AdapterTypeOK
  BY DEF AdapterInit, AdapterTypeOK
<1>2. CacheBelongs /\ CacheWhole /\ SealMeansWhole /\ StoreExplained
  BY DEF AdapterInit, CacheBelongs, CacheWhole, SealMeansWhole, StoreExplained
<1>3. FlushOrder
  BY DEF AdapterInit, FlushOrder
<1> QED BY <1>1, <1>2, <1>3 DEF AdapterInv

\* Every step keeps the types.
LEMMA AdapterTypeOKStep == AdapterTypeOK /\ [AdapterNext]_adapterVars => AdapterTypeOK'
<1> SUFFICES ASSUME AdapterTypeOK, [AdapterNext]_adapterVars PROVE AdapterTypeOK'
  OBVIOUS
<1> USE DEF memory, disk, history, Idle, Release, DeleteOrTrunc
<1>1. CASE \E f \in Finger : CommitFinger(f) \/ RemoveFinger(f)
  <2> PICK f \in Finger : CommitFinger(f) \/ RemoveFinger(f)
    BY <1>1
  <2>1. CASE CommitFinger(f)
    <3>1. [finger |-> f, learned |-> 0, whole |-> TRUE, crc |-> TRUE] \in Record
      BY EngineAdapterAssumption DEF Record, EngineAdapterAssumption
    <3> QED BY <2>1, <3>1 DEF CommitFinger, AdapterTypeOK
  <2>2. CASE RemoveFinger(f)
    BY <2>2 DEF RemoveFinger, AdapterTypeOK
  <2> QED BY <2>1, <2>2
<1>2. CASE Crash
  BY <1>2 DEF Crash, AdapterTypeOK
<1>3. CASE Attach
  BY <1>3 DEF Attach, AdapterTypeOK
<1>4. CASE Detach
  BY <1>4 DEF Detach, AdapterTypeOK
<1>5. CASE Activate
  BY <1>5 DEF Activate, AdapterTypeOK
<1>6. CASE Restore
  BY <1>6 DEF Restore, Record, AdapterTypeOK
<1>7. CASE DropRestored
  BY <1>7 DEF DropRestored, AdapterTypeOK
<1>8. CASE \E r \in store : Compare(r)
  <2> PICK r \in store : Compare(r)
    BY <1>8
  <2>1. r \in Record /\ r.learned < MAX_LEARN
    BY DEF AdapterTypeOK, Compare
  <2>2. [owner |-> r.finger, blob |-> Learn(r)] \in [owner : Finger, blob : Record]
    BY <2>1, LearnRecord DEF Record
  <2>3. cached' \in {{}} \union {{c} : c \in [owner : Finger, blob : Record]}
    BY <2>2 DEF Compare
  <2> QED BY <2>3 DEF Compare, AdapterTypeOK
<1>9. CASE Deactivate
  BY <1>9 DEF Deactivate, AdapterTypeOK
<1>10. CASE WriteBackup
  <2> PICK c \in cached : backupFile' \in {backupFile, {}, {Cut(Sealed(c))}, {Sealed(c)}}
    BY <1>10 DEF WriteBackup
  <2>1. Sealed(c) \in Record /\ Cut(Sealed(c)) \in Record
    BY CachedTyped, SealedRecord, CutRecord
  <2>2. backupFile' \in {{}} \union {{r} : r \in Record}
    BY <2>1 DEF AdapterTypeOK
  <2> QED BY <1>10, <2>2 DEF WriteBackup, AdapterTypeOK
<1>11. CASE DeleteOld
  BY <1>11 DEF DeleteOld, AdapterTypeOK
<1>12. CASE AddNew
  <2>1. \A c \in cached : Sealed(c) \in Record
    BY CachedTyped, SealedRecord
  <2>2. store' \subseteq Record
    BY <1>12, <2>1 DEF AddNew, AdapterTypeOK
  <2> QED BY <1>12, <2>2 DEF AddNew, AdapterTypeOK
<1>13. CASE DropBackup
  BY <1>13 DEF DropBackup, AdapterTypeOK
<1>14. CASE UNCHANGED adapterVars
  BY <1>14 DEF adapterVars, AdapterTypeOK
<1> QED
  BY <1>1, <1>2, <1>3, <1>4, <1>5, <1>6, <1>7, <1>8, <1>9, <1>10, <1>11, <1>12, <1>13, <1>14
  DEF AdapterNext

\* What is cached belongs to its owner, comes from a whole template, and waits
\* to be flushed: only Compare caches, everything else frees or leaves it.
LEMMA CacheStep ==
    AdapterTypeOK /\ CacheBelongs /\ CacheWhole /\ SealMeansWhole /\ [AdapterNext]_adapterVars
        => CacheBelongs' /\ CacheWhole'
<1> SUFFICES ASSUME AdapterTypeOK, CacheBelongs, CacheWhole, SealMeansWhole, [AdapterNext]_adapterVars
             PROVE  CacheBelongs' /\ CacheWhole'
  OBVIOUS
<1> USE DEF memory, Idle, Release, CacheBelongs, CacheWhole
<1>1. CASE \E r \in store : Compare(r)
  <2> PICK r \in store : Compare(r)
    BY <1>1
  <2>1. CASE cached' = {}
    BY <2>1
  <2>2. CASE cached' = {[owner |-> r.finger, blob |-> Learn(r)]} /\ dirty' = TRUE
    <3>1. r \in Record /\ r.learned < MAX_LEARN /\ r.crc
      BY DEF AdapterTypeOK, Compare
    <3>2. r.whole
      BY <3>1 DEF SealMeansWhole
    <3> QED BY <2>2, <3>1, <3>2, LearnRecord
  <2> QED BY <2>1, <2>2 DEF Compare
<1>2. CASE ~ \E r \in store : Compare(r)
  <2>1. \/ cached' = {}
        \/ cached' = cached /\ dirty' = dirty
    BY <1>2 DEF AdapterNext, CommitFinger, RemoveFinger, Crash, Attach, Detach, Activate, Restore,
       DropRestored, Deactivate, WriteBackup, DeleteOld, AddNew, DropBackup, adapterVars
  <2> QED BY <2>1
<1> QED BY <1>1, <1>2

\* A checksum is computed only over what is whole.
LEMMA SealStep ==
    AdapterTypeOK /\ CacheWhole /\ SealMeansWhole /\ [AdapterNext]_adapterVars => SealMeansWhole'
<1> SUFFICES ASSUME AdapterTypeOK, CacheWhole, SealMeansWhole, [AdapterNext]_adapterVars,
                    NEW r \in store' \union backupFile', r.crc
             PROVE  r.whole
  BY DEF SealMeansWhole
<1> USE DEF memory, disk, history, Idle, Release, DeleteOrTrunc
<1>1. CASE r \in store \union backupFile
  BY <1>1 DEF SealMeansWhole
<1>2. CASE r \notin store \union backupFile
  <2>1. CASE \E f \in Finger : CommitFinger(f)
    <3> PICK f \in Finger : CommitFinger(f)
      BY <2>1
    <3>1. r = [finger |-> f, learned |-> 0, whole |-> TRUE, crc |-> TRUE]
      BY <1>2 DEF CommitFinger
    <3> QED BY <3>1
  <2>2. CASE WriteBackup
    <3> PICK c \in cached : backupFile' \in {backupFile, {}, {Cut(Sealed(c))}, {Sealed(c)}}
      BY <2>2 DEF WriteBackup
    <3>1. r = Cut(Sealed(c)) \/ r = Sealed(c)
      BY <1>2, <2>2 DEF WriteBackup
    <3> QED BY <3>1, CachedTyped, SealedRecord, CutRecord DEF CacheWhole
  <2>3. CASE AddNew
    <3> PICK c \in cached : r = Sealed(c)
      BY <1>2, <2>3 DEF AddNew
    <3> QED BY CachedTyped, SealedRecord DEF CacheWhole
  <2>4. CASE ~ (\E f \in Finger : CommitFinger(f)) /\ ~WriteBackup /\ ~AddNew
    <3>1. store' \union backupFile' \subseteq store \union backupFile
      BY <2>4 DEF AdapterNext, RemoveFinger, Crash, Attach, Detach, Activate, Restore,
         DropRestored, Compare, Deactivate, DeleteOld, DropBackup, adapterVars
    <3> QED BY <1>2, <3>1
  <2> QED BY <2>1, <2>2, <2>3, <2>4
<1> QED BY <1>1, <1>2

\* Records are added by a commit, by Activate's recovery, and by a flush that
\* has just deleted a record of the same finger.
LEMMA ExplainedStep ==
    AdapterInv /\ [AdapterNext]_adapterVars => StoreExplained' /\ FlushOrder'
<1> SUFFICES ASSUME AdapterInv, [AdapterNext]_adapterVars PROVE StoreExplained' /\ FlushOrder'
  OBVIOUS
<1> USE DEF memory, disk, history, Idle, Release, DeleteOrTrunc
<1>i. AdapterTypeOK /\ CacheWhole /\ StoreExplained /\ FlushOrder
  BY DEF AdapterInv
<1>1. CASE \E f \in Finger : CommitFinger(f) \/ RemoveFinger(f)
  BY <1>i, <1>1 DEF CommitFinger, RemoveFinger, StoreExplained, FlushOrder
<1>2. CASE Crash \/ Attach \/ Detach \/ Activate \/ DropRestored \/ DropBackup
  BY <1>i, <1>2 DEF Crash, Attach, Detach, Activate, DropRestored, DropBackup,
     StoreExplained, FlushOrder
<1>3. CASE Restore
  BY <1>i, <1>3 DEF Restore, StoreExplained, FlushOrder
<1>4. CASE \E r \in store : Compare(r)
  BY <1>i, <1>4 DEF Compare, StoreExplained, FlushOrder
<1>5. CASE Deactivate \/ WriteBackup
  BY <1>i, <1>5 DEF Deactivate, WriteBackup, StoreExplained, FlushOrder
<1>6. CASE DeleteOld
  <2> PICK c \in cached :
        \/ /\ \E r \in store : r.finger = c.owner
           /\ store' = {r \in store : r.finger # c.owner}
           /\ pc' = "add"
           /\ UNCHANGED <<cached, dirty>>
        \/ /\ Release
           /\ pc' = "idle"
           /\ UNCHANGED store
    BY <1>6 DEF DeleteOld
  <2>1. pc' = "add" => c.owner \in registered \union revived
    BY <1>i DEF StoreExplained
  <2> QED BY <1>i, <1>6, <2>1, CachedTyped DEF DeleteOld, StoreExplained, FlushOrder
<1>7. CASE AddNew
  <2> PICK c \in cached :
        \/ /\ store' = store \union {Sealed(c)}
           /\ IF RECOVERY THEN pc' = "drop" /\ UNCHANGED <<cached, dirty>>
                          ELSE pc' = "idle" /\ Release
        \/ /\ pc' = "idle"
           /\ Release
           /\ UNCHANGED store
    BY <1>7 DEF AddNew
  <2>1. Sealed(c).finger = c.owner /\ cached = {c}
    BY <1>i, CachedTyped, SealedRecord
  <2>2. c.owner \in registered \union revived
    BY <1>i, <1>7 DEF FlushOrder, AddNew
  <2>3. StoreExplained'
    BY <1>i, <1>7, <2>1, <2>2 DEF AddNew, StoreExplained
  <2>4. FlushOrder'
    BY <1>7, <2>1 DEF AddNew, FlushOrder
  <2> QED BY <2>3, <2>4
<1>8. CASE UNCHANGED adapterVars
  BY <1>i, <1>8 DEF adapterVars, StoreExplained, FlushOrder
<1> QED BY <1>1, <1>2, <1>3, <1>4, <1>5, <1>6, <1>7, <1>8 DEF AdapterNext

LEMMA EngineStep == AdapterInv /\ [AdapterNext]_adapterVars => AdapterInv'
  BY AdapterTypeOKStep, CacheStep, SealStep, ExplainedStep DEF AdapterInv

THEOREM EngineInvariant == AdapterSpec => []AdapterInv
<1> QED BY EngineInit, EngineStep, PTL DEF AdapterSpec

\* The engine's state, its cache, its files and its database stay of their types.
THEOREM EngineTyped == AdapterSpec => []AdapterTypeOK
<1>1. AdapterInv => AdapterTypeOK
  BY DEF AdapterInv
<1> QED BY <1>1, EngineInvariant, PTL

\* What is cached is filed under the finger it was learned for.
THEOREM EngineCacheBelongs == AdapterSpec => []CacheBelongs
<1>1. AdapterInv => CacheBelongs
  BY DEF AdapterInv
<1> QED BY <1>1, EngineInvariant, PTL

\* No template that was cut short ever gets a checksum that says otherwise.
THEOREM EngineSealMeansWhole == AdapterSpec => []SealMeansWhole
<1>1. AdapterInv => SealMeansWhole
  BY DEF AdapterInv
<1> QED BY <1>1, EngineInvariant, PTL

\* No flush brings a removed finger back.
THEOREM EngineStoreExplained == AdapterSpec => []StoreExplained
<1>1. AdapterInv => StoreExplained
  BY DEF AdapterInv
<1> QED BY <1>1, EngineInvariant, PTL

-----------------------------------------------------------------------------
\* The step of LastCopyKept: a step that is none of the excused ones leaves
\* every finger a usable copy it had.
LEMMA CopyKeptStep ==
    ASSUME AdapterInv, AdapterNext, NEW f \in Finger, Kept(f), ~Kept(f)'
    PROVE  \/ RemoveFinger(f)
           \/ Detach
           \/ WriteBackup
           \/ (DeleteOld \/ DropBackup) /\ \A c \in cached : backupFile # {Sealed(c)}
<1> USE DEF memory, disk, history, Idle, Release, DeleteOrTrunc
<1>i. AdapterTypeOK /\ CacheWhole /\ FlushOrder
  BY DEF AdapterInv
<1>1. \A r \in store \union backupFile :
         r.finger = f /\ r.whole /\ r.crc => r \notin store' \union backupFile'
  BY DEF Kept
<1>2. PICK r \in store \union backupFile : r.finger = f /\ r.whole /\ r.crc
  BY DEF Kept
<1>3. r \notin store' \union backupFile'
  BY <1>1, <1>2
<1>4. CASE \E g \in Finger : CommitFinger(g) \/ RemoveFinger(g)
  BY <1>2, <1>3, <1>4 DEF CommitFinger, RemoveFinger
<1>5. CASE Crash \/ Attach \/ Activate \/ Restore \/ Deactivate \/ AddNew
  BY <1>3, <1>5 DEF Crash, Attach, Activate, Restore, Deactivate, AddNew
<1>6. CASE \E q \in store : Compare(q)
  BY <1>3, <1>6 DEF Compare
<1>7. CASE DropRestored
  BY <1>i, <1>3, <1>7 DEF DropRestored, FlushOrder
<1>8. CASE DeleteOld
  <2> SUFFICES ASSUME NEW c \in cached, backupFile = {Sealed(c)} PROVE FALSE
    BY <1>8
  <2>1. cached = {c} /\ Sealed(c).crc /\ Sealed(c).whole /\ Sealed(c).finger = c.owner
    BY <1>i, CachedTyped, SealedRecord DEF CacheWhole
  <2>2. CASE c.owner = f
    <3>1. Sealed(c) \in store' \union backupFile'
      BY <1>8 DEF DeleteOld
    <3> QED BY <1>1, <2>1, <2>2, <3>1
  <2>3. CASE c.owner # f
    <3>1. r \in store' \union backupFile'
      BY <1>2, <1>8, <2>1, <2>3 DEF DeleteOld
    <3> QED BY <1>3, <3>1
  <2> QED BY <2>2, <2>3
<1>9. CASE DropBackup
  <2> SUFFICES ASSUME NEW c \in cached, backupFile = {Sealed(c)} PROVE FALSE
    BY <1>9
  <2>1. Sealed(c) \in store
    BY <1>i, <1>9 DEF DropBackup, FlushOrder
  <2> QED BY <1>3, <1>9, <2>1 DEF DropBackup
<1>10. CASE Detach \/ WriteBackup
  BY <1>10
<1> QED BY <1>4, <1>5, <1>6, <1>7, <1>8, <1>9, <1>10 DEF AdapterNext

\* Whatever fails and wherever the process dies, the write-back itself never
\* takes the last usable copy of a finger once its backup is complete.
THEOREM EngineLastCopyKept == AdapterSpec => LastCopyKept
<1>1. AdapterInv /\ [AdapterNext]_adapterVars =>
        [\A f \in Finger :
          Kept(f) /\ ~Kept(f)' =>
             \/ RemoveFinger(f)
             \/ Detach
             \/ WriteBackup
             \/ (DeleteOld \/ DropBackup) /\ \A c \in cached : backupFile # {Sealed(c)}]_adapterVars
  BY CopyKeptStep
<1> QED BY <1>1, EngineInvariant, PTL DEF AdapterSpec, LastCopyKept

-----------------------------------------------------------------------------
(* An enrollment.                                                          *)

Injective(g) ==
    \A i, j \in 1..Len(g.kept) : g.kept[i] = g.kept[j] => i = j

\* A backup image of this enrollment has a place in the session waiting for it.
Pending(b) == IF b \in Image /\ b # Foreign THEN 1 ELSE 0

\* A session g after t touches, with backup image b and enrolled images gd.
GInv(g, t, b, gd) ==
    /\ g \in Gallery
    /\ Injective(g)
    /\ \A n \in Ids(g) : n <= t
    /\ b \in Image \union {None}
    /\ b <= t
    /\ b \notin Ids(g)
    /\ "full" \notin g.odd /\ "unrestored" \notin g.odd => g.images = g.used
    /\ "full" \in g.odd => "adopted" \in g.odd
    /\ "adopted" \notin g.odd => g.used + Pending(b) <= t
    /\ "full" \notin g.odd /\ "empty" \notin g.odd => gd \subseteq Ids(g)

USE EngineEnrollmentAssumption

LEMMA MaxType == MaxImages \in Nat \ {0}
  BY DEF MaxImages

-----------------------------------------------------------------------------
(* What is done to the session.                                            *)

LEMMA GalleryFields ==
    ASSUME NEW g \in Gallery
    PROVE  /\ g.kept \in Seq(Image)
           /\ g.used \in 0..MaxImages
           /\ g.images \in Nat
           /\ g.odd \in SUBSET Oddity
           /\ g = [kept |-> g.kept, used |-> g.used, images |-> g.images,
                   odd |-> g.odd]
  BY DEF Gallery

LEMMA IdsType ==
    ASSUME NEW g \in Gallery
    PROVE  Ids(g) \subseteq Image
  BY GalleryFields, ElementOfSeq DEF Ids

LEMMA AppendIds ==
    ASSUME NEW s \in Seq(Image), NEW img \in Image, NEW g, NEW h,
           g.kept = s, h.kept = Append(s, img)
    PROVE  /\ Ids(h) = Ids(g) \union {img}
           /\ Injective(g) /\ img \notin Ids(g) => Injective(h)
<1>1. /\ Append(s, img) \in Seq(Image)
      /\ Len(s) \in Nat
      /\ Len(Append(s, img)) = Len(s) + 1
      /\ \A i \in 1..Len(s) : Append(s, img)[i] = s[i]
      /\ Append(s, img)[Len(s) + 1] = img
  BY AppendProperties, LenProperties
<1>2. Ids(h) = Ids(g) \union {img}
  BY <1>1 DEF Ids
<1>3. ASSUME Injective(g), img \notin Ids(g)
      PROVE  Injective(h)
  BY <1>1, <1>3 DEF Ids, Injective
<1> QED BY <1>2, <1>3

LEMMA FrontIds ==
    ASSUME NEW s \in Seq(Image), s # <<>>, NEW g, NEW h,
           g.kept = s, h.kept = SubSeq(s, 1, Len(s) - 1)
    PROVE  /\ h.kept \in Seq(Image)
           /\ Ids(h) \subseteq Ids(g)
           /\ Injective(g) => Injective(h)
<1>1. Len(s) \in Nat \ {0}
  BY EmptySeq, LenProperties
<1>2. /\ \A i \in 1..(Len(s) - 1) : s[i] \in Image
      /\ \A i \in 1..Len(s) : s[i] \in Image
  BY <1>1, ElementOfSeq
<1>3. /\ SubSeq(s, 1, Len(s) - 1) \in Seq(Image)
      /\ Len(SubSeq(s, 1, Len(s) - 1)) = Len(s) - 1
      /\ \A i \in 1..(Len(s) - 1) : SubSeq(s, 1, Len(s) - 1)[i] = s[i]
  <2> DEFINE m == Len(s) - 1
  <2>1. m \in Nat /\ 1 \in Int
    BY <1>1
  <2>2. \A i \in 1..m : s[i] \in Image
    BY <1>2
  <2> HIDE DEF m
  <2>3. /\ SubSeq(s, 1, m) \in Seq(Image)
        /\ Len(SubSeq(s, 1, m)) = m
        /\ \A i \in 1..m : SubSeq(s, 1, m)[i] = s[i]
    BY <2>1, <2>2, SubSeqProperties
  <2> QED BY <2>3 DEF m
<1>4. /\ Len(h.kept) = Len(s) - 1
      /\ \A i \in 1..Len(h.kept) : i \in 1..Len(g.kept) /\ h.kept[i] = g.kept[i]
  BY <1>1, <1>3
<1>5. Ids(h) \subseteq Ids(g)
  BY <1>4 DEF Ids
<1>6. Injective(g) => Injective(h)
  BY <1>4 DEF Injective
<1> QED BY <1>3, <1>5, <1>6

LEMMA AppendFront ==
    ASSUME NEW s \in Seq(Image), NEW img \in Image
    PROVE  /\ Append(s, img) # <<>>
           /\ SubSeq(Append(s, img), 1, Len(Append(s, img)) - 1) = s
<1> DEFINE a == Append(s, img)
<1>1. /\ a \in Seq(Image)
      /\ a # <<>>
      /\ Len(s) \in Nat
      /\ Len(a) = Len(s) + 1
      /\ \A i \in 1..Len(s) : a[i] = s[i]
  BY AppendProperties, LenProperties
<1> HIDE DEF a
<1>2. \A i \in 1..Len(s) : s[i] \in Image
  BY ElementOfSeq
<1>3. \A i \in 1..Len(s) : a[i] \in Image
  BY <1>1, <1>2
<1>4. /\ SubSeq(a, 1, Len(s)) \in Seq(Image)
      /\ Len(SubSeq(a, 1, Len(s))) = Len(s)
      /\ \A i \in 1..Len(s) : SubSeq(a, 1, Len(s))[i] = a[i]
  BY <1>1, <1>3, SubSeqProperties
<1>5. SubSeq(a, 1, Len(s)) = s
  <2> DEFINE b == SubSeq(a, 1, Len(s))
  <2>1. b \in Seq(Image) /\ Len(b) = Len(s) /\ \A i \in 1..Len(b) : b[i] = s[i]
    BY <1>1, <1>4
  <2> HIDE DEF b
  <2>2. b = s
    BY <2>1, SeqEqual
  <2> QED BY <2>2 DEF b
<1> QED BY <1>1, <1>5 DEF a

\* What an addition does, field by field.
LEMMA AddedFields ==
    ASSUME NEW g \in Gallery, NEW img \in Image, NEW how \in How
    PROVE  LET h == Added(g, img, how) IN
           /\ h.used = IF g.used < MaxImages THEN g.used + 1 ELSE g.used
           /\ h.images = g.images + 1
           /\ h.odd = g.odd \union Marks(g, img, how)
           /\ g.used < MaxImages /\ how = "stored" => h.kept = Append(g.kept, img)
           /\ ~(g.used < MaxImages /\ how = "stored") => h.kept = g.kept
           /\ h \in Gallery
<1>1. Append(g.kept, img) \in Seq(Image)
  BY GalleryFields, AppendProperties
<1>2. Marks(g, img, how) \in SUBSET Oddity
  BY DEF Marks, Oddity
<1> QED BY <1>1, <1>2, GalleryFields, MaxType DEF Added, Gallery

LEMMA AddedIds ==
    ASSUME NEW g \in Gallery, NEW img \in Image, NEW how \in How
    PROVE  LET h == Added(g, img, how) IN
           /\ Ids(g) \subseteq Ids(h)
           /\ Ids(h) \subseteq Ids(g) \union {img}
           /\ "full" \notin h.odd /\ "empty" \notin h.odd => img \in Ids(h)
           /\ Injective(g) /\ img \notin Ids(g) => Injective(h)
<1> DEFINE h == Added(g, img, how)
<1>1. g.kept \in Seq(Image)
  BY GalleryFields
<1>2. CASE g.used < MaxImages /\ how = "stored"
  <2>1. h.kept = Append(g.kept, img)
    BY <1>2, AddedFields
  <2> HIDE DEF h
  <2>2. Ids(h) = Ids(g) \union {img} /\ (Injective(g) /\ img \notin Ids(g) => Injective(h))
    BY <1>1, <2>1, AppendIds
  <2> QED BY <2>2 DEF h
<1>3. CASE ~(g.used < MaxImages /\ how = "stored")
  <2>1. h.kept = g.kept /\ h.odd = g.odd \union Marks(g, img, how)
    BY <1>3, AddedFields
  <2>2. "full" \in Marks(g, img, how) \/ "empty" \in Marks(g, img, how)
    BY <1>3, GalleryFields, MaxType DEF Marks, How
  <2> HIDE DEF h
  <2>3. Ids(h) = Ids(g) /\ (Injective(g) => Injective(h))
    BY <2>1 DEF Ids, Injective
  <2> QED BY <2>1, <2>2, <2>3 DEF h
<1> QED BY <1>2, <1>3

\* Taking out again what was just added leaves nothing new.
LEMMA UndoneFields ==
    ASSUME NEW g \in Gallery, NEW img \in Image, NEW how \in How
    PROVE  LET h == Deleted(Added(g, img, how)) IN
           /\ h \in Gallery
           /\ h.used = IF g.used < MaxImages THEN g.used ELSE g.used - 1
           /\ h.images = g.images
           /\ h.odd = g.odd \union Marks(g, img, how)
           /\ Ids(h) \subseteq Ids(g)
           /\ Injective(g) => Injective(h)
           /\ "full" \notin h.odd /\ "empty" \notin h.odd => Ids(h) = Ids(g)
<1> DEFINE a == Added(g, img, how)
           h == Deleted(a)
<1>1. /\ a.used = IF g.used < MaxImages THEN g.used + 1 ELSE g.used
      /\ a.images = g.images + 1
      /\ a.odd = g.odd \union Marks(g, img, how)
      /\ g.used < MaxImages /\ how = "stored" => a.kept = Append(g.kept, img)
      /\ ~(g.used < MaxImages /\ how = "stored") => a.kept = g.kept
      /\ a \in Gallery
  BY AddedFields
<1>2. /\ g.kept \in Seq(Image)
      /\ g.used \in 0..MaxImages
      /\ g.images \in Nat
      /\ a.kept \in Seq(Image)
      /\ a.odd \in SUBSET Oddity
      /\ a = [kept |-> a.kept, used |-> a.used, images |-> a.images, odd |-> a.odd]
  BY <1>1, GalleryFields
<1> HIDE DEF a
<1>3. /\ h.kept = IF a.kept = <<>> THEN a.kept ELSE SubSeq(a.kept, 1, Len(a.kept) - 1)
      /\ h.used = IF a.used > 0 THEN a.used - 1 ELSE a.used
      /\ h.images = a.images - 1
      /\ h.odd = a.odd
      /\ h = [kept |-> h.kept, used |-> h.used, images |-> h.images, odd |-> h.odd]
  BY <1>1, <1>2, MaxType DEF Deleted
<1> HIDE DEF h
<1>4. /\ h.used = IF g.used < MaxImages THEN g.used ELSE g.used - 1
      /\ h.used \in 0..MaxImages
  BY <1>1, <1>2, <1>3, MaxType
<1>5. h.images = g.images
  BY <1>1, <1>2, <1>3
<1>6. CASE g.used < MaxImages /\ how = "stored"
  <2>1. h.kept = g.kept
    BY <1>1, <1>2, <1>3, <1>6, AppendFront
  <2>2. h \in Gallery
    BY <1>2, <1>3, <1>4, <1>5, <2>1, MaxType DEF Gallery
  <2> QED BY <1>1, <1>3, <1>4, <1>5, <2>1, <2>2 DEF Ids, Injective, h, a
<1>7. CASE ~(g.used < MaxImages /\ how = "stored")
  <2>1. a.kept = g.kept
    BY <1>1, <1>7
  <2>2. /\ h.kept \in Seq(Image)
        /\ Ids(h) \subseteq Ids(g)
        /\ Injective(g) => Injective(h)
    <3>1. CASE g.kept = <<>>
      BY <1>2, <1>3, <2>1, <3>1 DEF Ids, Injective
    <3>2. CASE g.kept # <<>>
      BY <1>2, <1>3, <2>1, <3>2, FrontIds
    <3> QED BY <3>1, <3>2
  <2>3. h \in Gallery
    BY <1>2, <1>3, <1>4, <1>5, <2>2, MaxType DEF Gallery
  <2>4. "full" \in h.odd \/ "empty" \in h.odd
    BY <1>1, <1>2, <1>3, <1>7, MaxType DEF Marks, How
  <2> QED BY <1>1, <1>3, <1>4, <1>5, <2>2, <2>3, <2>4 DEF h, a
<1> QED BY <1>6, <1>7

-----------------------------------------------------------------------------
(* Each of them keeps GInv.                                                *)

LEMMA FirstAddition ==
    ASSUME NEW g, NEW t \in 0..MaxImages, NEW b, NEW gd, NEW how \in How,
           GInv(g, t, b, gd), t < MaxImages
    PROVE  LET h == Added(g, t + 1, how) IN
           /\ GInv(h, t + 1, b, gd)
           /\ GInv(h, t + 1, b, gd \union {t + 1})
           /\ "full" \notin h.odd /\ "empty" \notin h.odd => t + 1 \in Ids(h)
           /\ Ids(g) \subseteq Ids(h)
           /\ g.odd \subseteq h.odd
<1> DEFINE h == Added(g, t + 1, how)
<1>1. g \in Gallery /\ t + 1 \in Image /\ t + 1 # Foreign /\ MaxImages \in Nat
  BY MaxType DEF GInv, Image, Foreign
<1>2. /\ h.used = IF g.used < MaxImages THEN g.used + 1 ELSE g.used
      /\ h.images = g.images + 1
      /\ h.odd = g.odd \union Marks(g, t + 1, how)
      /\ h \in Gallery
  BY <1>1, AddedFields
<1>3. /\ Ids(g) \subseteq Ids(h)
      /\ Ids(h) \subseteq Ids(g) \union {t + 1}
      /\ "full" \notin h.odd /\ "empty" \notin h.odd => t + 1 \in Ids(h)
      /\ Injective(g) /\ t + 1 \notin Ids(g) => Injective(h)
  BY <1>1, AddedIds
<1>4. Marks(g, t + 1, how) = (IF g.used = MaxImages THEN {"full"} ELSE {})
                               \union (IF how = "empty" THEN {"empty"} ELSE {})
  BY <1>1 DEF Marks
<1> HIDE DEF h
<1>5. g.used \in 0..MaxImages /\ g.images \in Nat
  BY <1>1, GalleryFields
<1>6. t + 1 \notin Ids(g) /\ Injective(h)
  BY <1>3 DEF GInv
<1>7. Pending(b) \in {0, 1}
  BY DEF Pending
<1>8. /\ \A n \in Ids(h) : n <= t + 1
      /\ b \in Image \union {None}
      /\ b <= t + 1
      /\ b \notin Ids(h)
  <2>1. Ids(g) \subseteq Int /\ b \in Int
    BY <1>1, IdsType DEF GInv, Image, None
  <2> QED BY <1>1, <1>3, <2>1 DEF GInv
<1>9. "full" \notin h.odd /\ "unrestored" \notin h.odd => h.images = h.used
  BY <1>1, <1>2, <1>4, <1>5 DEF GInv
<1>10. /\ "full" \in h.odd => "adopted" \in h.odd
       /\ "adopted" \notin h.odd => h.used + Pending(b) <= t + 1
  BY <1>1, <1>2, <1>4, <1>5, <1>7 DEF GInv
<1>11. "full" \notin h.odd /\ "empty" \notin h.odd => gd \union {t + 1} \subseteq Ids(h)
  BY <1>2, <1>3 DEF GInv
<1> QED BY <1>2, <1>3, <1>6, <1>8, <1>9, <1>10, <1>11 DEF GInv, h

\* Adding the image held, or dropping it.
LEMMA HeldAddition ==
    ASSUME NEW g, NEW t \in 0..MaxImages, NEW b \in Image, NEW gd, NEW how \in How,
           GInv(g, t, b, gd)
    PROVE  LET h == Added(g, b, how) IN
           /\ GInv(h, t, None, gd)
           /\ "full" \notin h.odd /\ "empty" \notin h.odd => b \in Ids(h)
           /\ Ids(g) \subseteq Ids(h)
           /\ g.odd \subseteq h.odd
<1> DEFINE h == Added(g, b, how)
<1>1. g \in Gallery /\ MaxImages \in Nat
  BY MaxType DEF GInv
<1>2. /\ h.used = IF g.used < MaxImages THEN g.used + 1 ELSE g.used
      /\ h.images = g.images + 1
      /\ h.odd = g.odd \union Marks(g, b, how)
      /\ h \in Gallery
  BY <1>1, AddedFields
<1>3. /\ Ids(g) \subseteq Ids(h)
      /\ Ids(h) \subseteq Ids(g) \union {b}
      /\ "full" \notin h.odd /\ "empty" \notin h.odd => b \in Ids(h)
      /\ Injective(g) /\ b \notin Ids(g) => Injective(h)
  BY <1>1, AddedIds
<1>4. Marks(g, b, how) = (IF b = Foreign THEN {"adopted"} ELSE {})
                           \union (IF g.used = MaxImages THEN {"full"} ELSE {})
                           \union (IF how = "empty" THEN {"empty"} ELSE {})
  BY DEF Marks
<1> HIDE DEF h
<1>5. g.used \in 0..MaxImages /\ g.images \in Nat
  BY <1>1, GalleryFields
<1>6. Injective(h)
  BY <1>3 DEF GInv
<1>7. Pending(None) = 0 /\ (b # Foreign => Pending(b) = 1)
  BY MaxType DEF Pending, Image, None
<1>8. /\ \A n \in Ids(h) : n <= t
      /\ None \in Image \union {None}
      /\ None <= t
      /\ None \notin Ids(h)
  <2>1. Ids(h) \subseteq Image
    BY <1>2, GalleryFields, ElementOfSeq DEF Ids
  <2> QED BY <1>1, <1>3, <2>1 DEF GInv, Image, None
<1>9. "full" \notin h.odd /\ "unrestored" \notin h.odd => h.images = h.used
  BY <1>1, <1>2, <1>4, <1>5 DEF GInv
<1>10. /\ "full" \in h.odd => "adopted" \in h.odd
       /\ "adopted" \notin h.odd => h.used + Pending(None) <= t
  BY <1>1, <1>2, <1>4, <1>5, <1>7 DEF GInv
<1>11. "full" \notin h.odd /\ "empty" \notin h.odd => gd \subseteq Ids(h)
  BY <1>2, <1>3 DEF GInv
<1> QED BY <1>2, <1>3, <1>6, <1>8, <1>9, <1>10, <1>11 DEF GInv, h

LEMMA Dropped ==
    ASSUME NEW g, NEW t \in 0..MaxImages, NEW b, NEW gd, GInv(g, t, b, gd)
    PROVE  GInv(g, t, None, gd)
<1>1. g \in Gallery /\ g.used \in 0..MaxImages /\ MaxImages \in Nat
  BY GalleryFields, MaxType DEF GInv
<1>2. Ids(g) \subseteq Image
  BY <1>1, GalleryFields, ElementOfSeq DEF Ids
<1>3. Pending(None) = 0 /\ Pending(b) \in {0, 1}
  BY MaxType DEF Pending, Image, None
<1>4. None \in Image \union {None} /\ None <= t /\ None \notin Ids(g)
  BY <1>1, <1>2 DEF Image, None
<1>5. "adopted" \notin g.odd => g.used + Pending(None) <= t
  BY <1>1, <1>3 DEF GInv
<1> QED BY <1>4, <1>5 DEF GInv

\* The current image is taken out again; it may be held in place of the other.
LEMMA Undone ==
    ASSUME NEW g, NEW t \in 0..MaxImages, NEW b, NEW gd, NEW how \in How,
           GInv(g, t, b, gd), t < MaxImages
    PROVE  LET h == Deleted(Added(g, t + 1, how)) IN
           /\ GInv(h, t + 1, b, gd)
           /\ GInv(h, t + 1, t + 1, gd)
           /\ "full" \notin h.odd /\ "empty" \notin h.odd => Ids(h) = Ids(g)
           /\ g.odd \subseteq h.odd
<1> DEFINE h == Deleted(Added(g, t + 1, how))
<1>1. /\ g \in Gallery
      /\ t + 1 \in Image
      /\ t + 1 # Foreign
      /\ MaxImages \in Nat
  BY MaxType DEF GInv, Image, Foreign
<1>2. /\ h \in Gallery
      /\ h.used = IF g.used < MaxImages THEN g.used ELSE g.used - 1
      /\ h.images = g.images
      /\ h.odd = g.odd \union Marks(g, t + 1, how)
      /\ Ids(h) \subseteq Ids(g)
      /\ Injective(g) => Injective(h)
      /\ "full" \notin h.odd /\ "empty" \notin h.odd => Ids(h) = Ids(g)
  BY <1>1, UndoneFields
<1>3. Marks(g, t + 1, how) = (IF g.used = MaxImages THEN {"full"} ELSE {})
                               \union (IF how = "empty" THEN {"empty"} ELSE {})
  BY <1>1 DEF Marks
<1> HIDE DEF h
<1>4. g.used \in 0..MaxImages /\ g.images \in Nat
  BY <1>1, GalleryFields
<1>5. Pending(b) \in {0, 1} /\ Pending(t + 1) = 1
  BY <1>1 DEF Pending
<1>6. /\ \A n \in Ids(h) : n <= t + 1
      /\ b \in Image \union {None}
      /\ b <= t + 1
      /\ b \notin Ids(h)
      /\ t + 1 \notin Ids(h)
  <2>1. Ids(g) \subseteq Int /\ b \in Int
    BY <1>1, IdsType DEF GInv, Image, None
  <2> QED BY <1>1, <1>2, <2>1 DEF GInv
<1>7. "full" \notin h.odd /\ "unrestored" \notin h.odd => h.images = h.used
  BY <1>1, <1>2, <1>3, <1>4 DEF GInv
<1>8. /\ "full" \in h.odd => "adopted" \in h.odd
      /\ "adopted" \notin h.odd => h.used + Pending(b) <= t + 1
      /\ "adopted" \notin h.odd => h.used + Pending(t + 1) <= t + 1
  BY <1>1, <1>2, <1>3, <1>4, <1>5 DEF GInv
<1>9. "full" \notin h.odd /\ "empty" \notin h.odd => gd \subseteq Ids(h)
  BY <1>2 DEF GInv
<1> QED BY <1>1, <1>2, <1>6, <1>7, <1>8, <1>9 DEF GInv, h

LEMMA Unrestored ==
    ASSUME NEW g, NEW t \in 0..MaxImages, NEW b, NEW gd, GInv(g, t, b, gd)
    PROVE  LET h == [kept |-> g.kept, used |-> g.used, images |-> g.images + 1,
                      odd |-> g.odd \union {"unrestored"}] IN
           /\ GInv(h, t, None, gd)
           /\ "unrestored" \in h.odd
<1> DEFINE h == [kept |-> g.kept, used |-> g.used, images |-> g.images + 1,
                      odd |-> g.odd \union {"unrestored"}]
<1>1. g \in Gallery /\ GInv(g, t, None, gd)
  BY Dropped DEF GInv
<1>2. /\ h.kept = g.kept
      /\ h.used = g.used
      /\ h.images = g.images + 1
      /\ h.odd = g.odd \union {"unrestored"}
      /\ h \in Gallery
  BY <1>1, GalleryFields DEF Gallery, Oddity
<1> HIDE DEF h
<1>3. Ids(h) = Ids(g) /\ (Injective(g) => Injective(h))
  BY <1>2 DEF Ids, Injective
<1> QED BY <1>1, <1>2, <1>3 DEF GInv, h

-----------------------------------------------------------------------------
(* The inductive invariant.                                                *)

GalleryInv == GInv(gallery, touched, backup, good)

RunInv ==
    contTip > 0 /\ "full" \notin gallery.odd /\ "empty" \notin gallery.odd
                /\ "unrestored" \notin gallery.odd
        => \E n \in (touched - contTip + 1)..touched : n \in Ids(gallery) \union {backup}

FlowInv ==
    /\ touched = enrolled + tipped
    /\ open => inProgress /\ answer \in {"started", "more", "bad", "ok", "nomem"}
    /\ inProgress /\ ~open => startFailed
    /\ answer = "crashed" => startFailed
    /\ open /\ MayUpdate => enrolled < SAMPLES
    /\ packed # {} => open /\ answer = "ok" /\ packed = {gallery.kept}
    /\ packed # {} /\ enrolled < SAMPLES => "adopted" \in gallery.odd

IInv == TypeOK /\ GalleryInv /\ RunInv /\ FlowInv

\* Before an update there is room for one touch more.
LEMMA RoomForTouch ==
    ASSUME IInv, MayUpdate, inProgress, open
    PROVE  /\ touched \in 0..MaxImages
           /\ enrolled < SAMPLES
           /\ tipped < MAX_TIPS \/ tipped = MAX_TIPS
           /\ touched < MaxImages
           /\ packed = {}
           /\ GInv(gallery, touched, backup, good)
  BY DEF IInv, TypeOK, FlowInv, MayUpdate, MaxImages, GalleryInv

\* Every way in which a tip is dealt with keeps the session in order, and keeps
\* one tip of the row.
LEMMA TipGallery ==
    ASSUME IInv, TipUpdate
    PROVE  GalleryInv' /\ RunInv'
<1>1. /\ touched \in 0..MaxImages
      /\ touched < MaxImages
      /\ GInv(gallery, touched, backup, good)
      /\ touched' = touched + 1
      /\ contTip' = contTip + 1
      /\ contTip \in Nat
      /\ good' = good
      /\ touched + 1 \in 0..MaxImages
      /\ touched + 1 \in Image
  BY RoomForTouch, MaxType DEF TipUpdate, Touch, counters, IInv, TypeOK, Image
<1>2. PICK how \in How :
        LET g == Added(gallery, Touch, how)
        IN  \/ CHOOSE_LESS /\ contTip' = 1 /\ HoldTip(g)
            \/ CHOOSE_LESS /\ contTip' = 2 /\ (WeighTip(g) \/ RejoinTip(g))
            \/ (~CHOOSE_LESS \/ contTip' # 2) /\ PlainTip(g)
  BY DEF TipUpdate
<1> DEFINE g == Added(gallery, touched + 1, how)
           d == Deleted(g)
<1>3. \/ contTip' = 1 /\ HoldTip(g)
      \/ contTip' = 2 /\ WeighTip(g)
      \/ contTip' = 2 /\ RejoinTip(g)
      \/ PlainTip(g)
  BY <1>2 DEF Touch
<1>4. /\ GInv(g, touched + 1, backup, good)
      /\ "full" \notin g.odd /\ "empty" \notin g.odd => touched + 1 \in Ids(g)
      /\ Ids(gallery) \subseteq Ids(g)
      /\ gallery.odd \subseteq g.odd
  BY <1>1, FirstAddition
<1>5. /\ GInv(d, touched + 1, backup, good)
      /\ GInv(d, touched + 1, touched + 1, good)
      /\ "full" \notin d.odd /\ "empty" \notin d.odd => Ids(d) = Ids(gallery)
      /\ gallery.odd \subseteq d.odd
  BY <1>1, Undone
<1> HIDE DEF g, d
<1>6. GInv(g, touched + 1, None, good)
  BY <1>1, <1>4, Dropped
<1>7. touched + 1 \in (touched' - contTip' + 1)..touched'
  BY <1>1
\* With the touch in the session, or held, the row has what it needs.
<1>8. ASSUME gallery' = g, backup' \in {backup, None}
      PROVE  GalleryInv' /\ RunInv'
  BY <1>1, <1>4, <1>6, <1>7, <1>8 DEF GalleryInv, RunInv
<1>9. CASE HoldTip(g)
  <2>1. CASE gallery' = g /\ backup' = None
    BY <1>8, <2>1
  <2>2. CASE backup' = touched + 1 /\ gallery' = d
    BY <1>1, <1>5, <1>7, <2>2 DEF GalleryInv, RunInv
  <2> QED BY <1>9, <2>1, <2>2 DEF HoldTip, Touch, d
<1>10. ASSUME contTip' = 2, backup \in Image, NEW h2 \in How,
              gallery' = Added(d, backup, h2), backup' = None
       PROVE  GalleryInv' /\ RunInv'
  <2>1. /\ GInv(gallery', touched + 1, None, good)
        /\ "full" \notin gallery'.odd /\ "empty" \notin gallery'.odd => backup \in Ids(gallery')
        /\ Ids(d) \subseteq Ids(gallery')
        /\ d.odd \subseteq gallery'.odd
    BY <1>1, <1>5, <1>10, HeldAddition
  <2>2. GalleryInv'
    BY <1>1, <1>10, <2>1 DEF GalleryInv
  <2>3. RunInv'
    <3> SUFFICES ASSUME "full" \notin gallery'.odd, "empty" \notin gallery'.odd,
                        "unrestored" \notin gallery'.odd
                 PROVE  \E n \in (touched' - contTip' + 1)..touched' :
                            n \in Ids(gallery') \union {backup'}
      BY DEF RunInv
    <3>1. contTip = 1
      BY <1>1, <1>10
    <3>2. /\ "full" \notin gallery.odd
          /\ "empty" \notin gallery.odd
          /\ "unrestored" \notin gallery.odd
      BY <1>5, <2>1
    <3>3. PICK n \in (touched - contTip + 1)..touched : n \in Ids(gallery) \union {backup}
      BY <3>1, <3>2 DEF IInv, RunInv
    <3>4. n \in (touched' - contTip' + 1)..touched'
      BY <1>1, <1>10, <3>1, <3>3
    <3>5. Ids(gallery) \union {backup} \subseteq Ids(gallery')
      BY <1>5, <2>1
    <3> QED BY <3>3, <3>4, <3>5
  <2> QED BY <2>2, <2>3
<1>11. ASSUME gallery' \in Restored(d, touched + 1), backup' = None
       PROVE  GalleryInv' /\ RunInv'
  <2>1. CASE \E h2 \in How : gallery' = Added(d, touched + 1, h2)
    <3>1. PICK h2 \in How : gallery' = Added(d, touched + 1, h2)
      BY <2>1
    <3>2. /\ GInv(gallery', touched + 1, None, good)
          /\ "full" \notin gallery'.odd /\ "empty" \notin gallery'.odd
                => touched + 1 \in Ids(gallery')
      BY <1>1, <1>5, <3>1, HeldAddition
    <3> QED BY <1>1, <1>7, <1>11, <3>2 DEF GalleryInv, RunInv
  <2>2. CASE gallery' = [kept |-> d.kept, used |-> d.used, images |-> d.images + 1,
                                  odd |-> d.odd \union {"unrestored"}]
    <3>1. GInv(gallery', touched + 1, None, good) /\ "unrestored" \in gallery'.odd
      BY <1>1, <1>5, <2>2, Unrestored
    <3> QED BY <1>1, <1>11, <3>1 DEF GalleryInv, RunInv
  <2> QED BY <1>11, <2>1, <2>2 DEF Restored
<1>12. CASE contTip' = 2 /\ WeighTip(g)
  <2>1. backup' = None
    BY <1>12 DEF WeighTip
  <2>2. \/ gallery' = g
        \/ /\ backup # None
           /\ \E h2 \in How : gallery' = Added(d, backup, h2)
        \/ gallery' \in Restored(d, touched + 1)
    BY <1>12 DEF WeighTip, LessOverlay, Touch, d
  <2>3. backup # None => backup \in Image
    BY <1>1 DEF GInv
  <2> QED BY <1>8, <1>10, <1>11, <1>12, <2>1, <2>2, <2>3
<1>13. CASE RejoinTip(g)
  <2>1. backup' = None /\ gallery' \in WithBackup(g)
    BY <1>13 DEF RejoinTip
  <2>2. CASE gallery' = g
    BY <1>8, <2>1, <2>2
  <2>3. ASSUME backup # None, NEW h2 \in How, gallery' = Added(g, backup, h2)
        PROVE  GalleryInv' /\ RunInv'
    <3>1. backup \in Image
      BY <1>1, <2>3 DEF GInv
    <3>2. /\ GInv(gallery', touched + 1, None, good)
          /\ Ids(g) \subseteq Ids(gallery')
          /\ g.odd \subseteq gallery'.odd
      BY <1>1, <1>4, <2>3, <3>1, HeldAddition
    <3> QED BY <1>1, <1>4, <1>7, <2>1, <3>2 DEF GalleryInv, RunInv
  <2> QED BY <2>1, <2>2, <2>3 DEF WithBackup
<1>14. CASE PlainTip(g)
  BY <1>8, <1>14 DEF PlainTip
<1> QED BY <1>3, <1>9, <1>12, <1>13, <1>14

LEMMA GoodGallery ==
    ASSUME IInv, GoodUpdate
    PROVE  GalleryInv' /\ RunInv'
<1>1. /\ touched \in 0..MaxImages
      /\ touched < MaxImages
      /\ GInv(gallery, touched, backup, good)
      /\ touched' = touched + 1
      /\ contTip' = 0
      /\ good' = good \union {touched + 1}
      /\ touched + 1 \in 0..MaxImages
  BY RoomForTouch, MaxType DEF GoodUpdate, Touch
<1>2. PICK how \in How :
        LET g == Added(gallery, Touch, how)
        IN  IF lastTipped # 0 /\ lastTipped = touched /\ CHOOSE_LESS /\ SENSOR_C
            THEN RejoinTip(g)
            ELSE PlainTip(g)
  BY DEF GoodUpdate
<1> DEFINE g == Added(gallery, touched + 1, how)
<1>3. RejoinTip(g) \/ PlainTip(g)
  BY <1>2 DEF Touch
<1>4. GInv(g, touched + 1, backup, good \union {touched + 1})
  BY <1>1, FirstAddition
<1> HIDE DEF g
<1>5. RunInv'
  BY <1>1 DEF RunInv
<1>6. CASE PlainTip(g)
  BY <1>1, <1>4, <1>5, <1>6 DEF PlainTip, GalleryInv
<1>7. CASE RejoinTip(g)
  <2>1. backup' = None /\ gallery' \in WithBackup(g)
    BY <1>7 DEF RejoinTip
  <2>2. CASE gallery' = g
    BY <1>1, <1>4, <1>5, <2>1, <2>2, Dropped DEF GalleryInv
  <2>3. ASSUME backup # None, NEW h2 \in How, gallery' = Added(g, backup, h2)
        PROVE  GalleryInv'
    <3>1. backup \in Image
      BY <1>1, <2>3 DEF GInv
    <3>2. GInv(gallery', touched + 1, None, good \union {touched + 1})
      BY <1>1, <1>4, <2>3, <3>1, HeldAddition
    <3> QED BY <1>1, <2>1, <3>2 DEF GalleryInv
  <2> QED BY <1>5, <2>1, <2>2, <2>3 DEF WithBackup
<1> QED BY <1>3, <1>6, <1>7

\* A new session is in order whatever backup image is left from the last one.
LEMMA FreshGallery ==
    ASSUME NEW b \in {None, Foreign}
    PROVE  GInv(EmptyGallery, 0, b, {})
<1>1. /\ EmptyGallery.kept = <<>>
      /\ EmptyGallery.used = 0
      /\ EmptyGallery.images = 0
      /\ EmptyGallery.odd = {}
      /\ EmptyGallery \in Gallery
  BY MaxType, EmptySeq DEF EmptyGallery, Gallery
<1>2. Len(EmptyGallery.kept) = 0
  BY <1>1, EmptySeq
<1>3. Ids(EmptyGallery) = {} /\ Injective(EmptyGallery)
  BY <1>2 DEF Ids, Injective
<1>4. Pending(b) = 0 /\ b \in Image \union {None} /\ b <= 0
  BY MaxType DEF Pending, Image, None, Foreign
<1> QED BY <1>1, <1>3, <1>4 DEF GInv

\* What the status check does, after an update and on its own.
LEMMA StatusFlow ==
    ASSUME NEW g \in Gallery, NEW t \in 0..MaxImages, NEW done \in 0..SAMPLES,
           NEW tips \in 0..MAX_TIPS, NEW b, NEW gd,
           GInv(g, t, b, gd), t = done + tips, packed = {} \/ packed = {g.kept},
           answer # "ok" => packed = {}, answer \in {"started", "more", "bad", "nomem"},
           Status(g, done)
    PROVE  /\ answer' \in {"more", "ok", "nomem"}
           /\ answer' = "more" => done < SAMPLES
           /\ packed' # {} => answer' = "ok" /\ packed' = {g.kept}
           /\ packed' # {} /\ done < SAMPLES => "adopted" \in g.odd
           /\ packed' \in SUBSET Seq(Image)
<1>1. g.used \in 0..MaxImages /\ g.kept \in Seq(Image)
  BY GalleryFields
<1>2. CASE g.used < MaxImages /\ done < SAMPLES
  BY <1>2 DEF Status
<1>3. CASE ~(g.used < MaxImages /\ done < SAMPLES)
  <2>1. /\ answer' \in {"ok", "nomem"}
        /\ packed' # {} => answer' = "ok" /\ packed' = {g.kept}
        /\ packed' \in {{}, {g.kept}}
    BY <1>3 DEF Status
  <2>2. ASSUME done < SAMPLES PROVE "adopted" \in g.odd
    <3>1. t < MaxImages /\ g.used = MaxImages
      BY <1>1, <1>3, <2>2, MaxType DEF MaxImages
    <3>2. Pending(b) \in {0, 1}
      BY DEF Pending
    <3> QED BY <1>1, <3>1, <3>2, MaxType DEF GInv
  <2> QED BY <1>1, <2>1, <2>2
<1> QED BY <1>2, <1>3

-----------------------------------------------------------------------------
(* The invariant is inductive.                                             *)

LEMMA InitIInv == Init => IInv
<1> SUFFICES ASSUME Init PROVE IInv
  OBVIOUS
<1>1. GalleryInv
  BY FreshGallery DEF Init, GalleryInv
<1>2. gallery \in Gallery /\ backup \in Image \union {None}
  BY <1>1 DEF GalleryInv, GInv
<1>3. TypeOK
  <2>1. inProgress \in BOOLEAN /\ open \in BOOLEAN /\ startFailed \in BOOLEAN
    BY DEF Init
  <2>2. packed \in SUBSET Seq(Image) /\ good \subseteq 1..MaxImages
    BY DEF Init
  <2>3. /\ touched \in 0..MaxImages /\ enrolled \in 0..SAMPLES
        /\ tipped \in 0..MAX_TIPS /\ lastTipped \in 0..MaxImages
        /\ contTip \in 0..MAX_CONT
    BY MaxType DEF Init
  <2> QED BY <1>2, <2>1, <2>2, <2>3 DEF Init, TypeOK, Answers
<1>4. RunInv
  BY DEF Init, RunInv
<1>5. FlowInv
  BY DEF Init, FlowInv, MayUpdate
<1> QED BY <1>1, <1>3, <1>4, <1>5 DEF IInv

\* Start and Restart begin with an empty session.
LEMMA FreshIInv ==
    ASSUME IInv, Start \/ Restart
    PROVE  IInv'
<1>1. /\ gallery' = EmptyGallery
      /\ touched' = 0 /\ enrolled' = 0 /\ tipped' = 0 /\ lastTipped' = 0
      /\ contTip' = 0
      /\ good' = {}
      /\ backup' \in {None, Foreign}
  BY DEF Start, Restart
<1>2. GalleryInv'
  BY <1>1, FreshGallery DEF GalleryInv
<1>3. RunInv'
  BY <1>1 DEF RunInv
<1>4. packed' = {}
  BY DEF Start, Restart, IInv, FlowInv, MayStart
<1>5. TypeOK'
  <2>1. inProgress' \in BOOLEAN /\ open' \in BOOLEAN /\ startFailed' \in BOOLEAN
    BY DEF Start, Restart, IInv, TypeOK
  <2>2. packed' \in SUBSET Seq(Image) /\ good' \subseteq 1..MaxImages
    BY <1>1, <1>4
  <2>3. /\ touched' \in 0..MaxImages /\ enrolled' \in 0..SAMPLES
        /\ tipped' \in 0..MAX_TIPS /\ lastTipped' \in 0..MaxImages
        /\ contTip' \in 0..MAX_CONT
    BY <1>1, MaxType
  <2>4. gallery' \in Gallery /\ backup' \in Image \union {None}
    BY <1>2 DEF GalleryInv, GInv
  <2>5. answer' \in Answers
    BY DEF Start, Restart, Answers
  <2> QED BY <2>1, <2>2, <2>3, <2>4, <2>5 DEF TypeOK
<1>6. FlowInv'
  BY <1>1, <1>4 DEF Start, Restart, FlowInv, MayUpdate
<1> QED BY <1>2, <1>3, <1>5, <1>6 DEF IInv

\* An action that leaves the session and the counters alone.
LEMMA SameGallery ==
    ASSUME IInv, UNCHANGED <<gallery, counters, backup>>, contTip' \in {contTip, 0}
    PROVE  GalleryInv' /\ RunInv'
  BY DEF IInv, GalleryInv, RunInv, counters

LEMMA TipIInv ==
    ASSUME IInv, TipUpdate
    PROVE  IInv'
<1>1. GalleryInv' /\ RunInv'
  BY TipGallery
<1>2. /\ touched \in 0..MaxImages
      /\ touched < MaxImages
      /\ packed = {}
  BY RoomForTouch DEF TipUpdate
<1>3. gallery' \in Gallery /\ backup' \in Image \union {None}
  BY <1>1 DEF GalleryInv, GInv
<1>4. /\ touched' = touched + 1 /\ tipped' = tipped + 1
      /\ lastTipped' = touched + 1
      /\ contTip' = contTip + 1
      /\ tipped < MAX_TIPS /\ contTip < MAX_CONT
      /\ answer' = "bad"
      /\ inProgress /\ open /\ MayUpdate
      /\ UNCHANGED <<inProgress, open, packed, startFailed, enrolled, good>>
  BY DEF TipUpdate, Touch, TipAllowed, context
<1>5. TypeOK'
  BY <1>2, <1>3, <1>4, MaxType DEF IInv, TypeOK, Answers
<1>6. FlowInv'
  BY <1>2, <1>4 DEF IInv, TypeOK, FlowInv, MayUpdate
<1> QED BY <1>1, <1>5, <1>6 DEF IInv

LEMMA GoodIInv ==
    ASSUME IInv, GoodUpdate
    PROVE  IInv'
<1>1. GalleryInv' /\ RunInv'
  BY GoodGallery
<1>2. /\ touched \in 0..MaxImages
      /\ enrolled < SAMPLES
      /\ touched < MaxImages
      /\ packed = {}
  BY RoomForTouch DEF GoodUpdate
<1>3. gallery' \in Gallery /\ backup' \in Image \union {None}
  BY <1>1 DEF GalleryInv, GInv
<1>4. /\ touched' = touched + 1 /\ enrolled' = enrolled + 1
      /\ good' = good \union {touched + 1}
      /\ contTip' = 0
      /\ inProgress /\ open /\ MayUpdate
      /\ Status(gallery', enrolled')
      /\ UNCHANGED <<inProgress, open, startFailed, tipped, lastTipped>>
  BY DEF GoodUpdate, Touch
<1>5. /\ enrolled' \in 0..SAMPLES /\ tipped \in 0..MAX_TIPS
      /\ touched' \in 0..MaxImages
      /\ touched' = enrolled' + tipped
      /\ touched' \in 1..MaxImages
  BY <1>2, <1>4, MaxType DEF IInv, TypeOK, FlowInv
<1>6. GInv(gallery', touched', backup', good')
  BY <1>1 DEF GalleryInv
<1>7. /\ answer' \in {"more", "ok", "nomem"}
      /\ answer' = "more" => enrolled' < SAMPLES
      /\ packed' # {} => answer' = "ok" /\ packed' = {gallery'.kept}
      /\ packed' # {} /\ enrolled' < SAMPLES => "adopted" \in gallery'.odd
      /\ packed' \in SUBSET Seq(Image)
  BY <1>2, <1>3, <1>4, <1>5, <1>6, StatusFlow DEF MayUpdate
<1>8. TypeOK'
  BY <1>2, <1>3, <1>4, <1>5, <1>7, MaxType DEF IInv, TypeOK, Answers
<1>9. FlowInv'
  BY <1>2, <1>4, <1>5, <1>7 DEF IInv, FlowInv, MayUpdate
<1> QED BY <1>1, <1>8, <1>9 DEF IInv

LEMMA GetStatusIInv ==
    ASSUME IInv, GetEnrollmentStatus
    PROVE  IInv'
<1>1. /\ UNCHANGED <<inProgress, open, startFailed, gallery, counters, contTip, backup>>
      /\ inProgress /\ open
      /\ answer \in {"started", "more", "bad", "nomem"}
      /\ Status(gallery, enrolled)
  BY DEF GetEnrollmentStatus, MayUpdate
<1>2. GalleryInv' /\ RunInv'
  BY <1>1, SameGallery
<1>3. /\ gallery \in Gallery /\ touched \in 0..MaxImages
      /\ enrolled \in 0..SAMPLES /\ tipped \in 0..MAX_TIPS
      /\ GInv(gallery, touched, backup, good)
      /\ touched = enrolled + tipped
      /\ packed = {}
  BY <1>1 DEF IInv, TypeOK, FlowInv, GalleryInv
<1>4. /\ answer' \in {"more", "ok", "nomem"}
      /\ answer' = "more" => enrolled < SAMPLES
      /\ packed' # {} => answer' = "ok" /\ packed' = {gallery.kept}
      /\ packed' # {} /\ enrolled < SAMPLES => "adopted" \in gallery.odd
      /\ packed' \in SUBSET Seq(Image)
  BY <1>1, <1>3, StatusFlow
<1>5. TypeOK'
  BY <1>1, <1>4 DEF IInv, TypeOK, Answers, counters
<1>6. FlowInv'
  BY <1>1, <1>4 DEF IInv, FlowInv, counters, MayUpdate
<1> QED BY <1>2, <1>5, <1>6 DEF IInv

LEMMA NextIInv == IInv /\ [Next]_vars => IInv'
<1> SUFFICES ASSUME IInv, [Next]_vars PROVE IInv'
  OBVIOUS
<1>1. CASE Start \/ Restart
  BY <1>1, FreshIInv
<1>2. CASE TipUpdate
  BY <1>2, TipIInv
<1>3. CASE GoodUpdate
  BY <1>3, GoodIInv
<1>4. CASE GetEnrollmentStatus
  BY <1>4, GetStatusIInv
<1>5. CASE StartFails
  <2>1. GalleryInv' /\ RunInv'
    BY <1>5, SameGallery DEF StartFails
  <2>2. TypeOK'
    BY <1>5 DEF StartFails, IInv, TypeOK, Answers, counters
  <2>3. FlowInv'
    BY <1>5 DEF StartFails, IInv, FlowInv, MayStart, MayUpdate, counters
  <2> QED BY <2>1, <2>2, <2>3 DEF IInv
<1>6. CASE StartRefused \/ StartAgain
  <2>1. GalleryInv' /\ RunInv'
    BY <1>6, SameGallery DEF StartRefused, StartAgain
  <2>2. TypeOK'
    BY <1>6 DEF StartRefused, StartAgain, IInv, TypeOK, Answers, counters, context
  <2>3. FlowInv'
    BY <1>6 DEF StartRefused, StartAgain, IInv, FlowInv, MayStart, MayUpdate,
                counters, context
  <2> QED BY <2>1, <2>2, <2>3 DEF IInv
<1>7. CASE BadUpdate \/ FatalUpdate
  <2>1. GalleryInv' /\ RunInv'
    BY <1>7, SameGallery DEF BadUpdate, FatalUpdate
  <2>2. TypeOK'
    <3>1. inProgress' \in BOOLEAN /\ open' \in BOOLEAN /\ startFailed' \in BOOLEAN
      BY <1>7 DEF BadUpdate, FatalUpdate, Destroy, context, IInv, TypeOK
    <3>2. packed' \in {packed, {}} /\ answer' = "bad"
      BY <1>7 DEF BadUpdate, FatalUpdate, Destroy, context
    <3>3. UNCHANGED <<gallery, touched, enrolled, tipped, lastTipped, good, backup>> /\ contTip' = 0
      BY <1>7 DEF BadUpdate, FatalUpdate, counters
    <3>4. packed' \in SUBSET Seq(Image) /\ answer' \in Answers
      BY <3>2 DEF IInv, TypeOK, Answers
    <3>5. /\ gallery' \in Gallery
          /\ touched' \in 0..MaxImages /\ enrolled' \in 0..SAMPLES
          /\ tipped' \in 0..MAX_TIPS /\ lastTipped' \in 0..MaxImages
          /\ contTip' \in 0..MAX_CONT
          /\ backup' \in Image \union {None}
          /\ good' \subseteq 1..MaxImages
      BY <3>3 DEF IInv, TypeOK
    <3> QED BY <3>1, <3>4, <3>5 DEF TypeOK
  <2>3. FlowInv'
    BY <1>7 DEF BadUpdate, FatalUpdate, Destroy, IInv, FlowInv, MayUpdate, counters, context
  <2> QED BY <2>1, <2>2, <2>3 DEF IInv
<1>8. CASE UpdateRefused \/ UpdateCrashes
  <2>1. GalleryInv' /\ RunInv'
    BY <1>8, SameGallery DEF UpdateRefused, UpdateCrashes
  <2>2. TypeOK'
    BY <1>8 DEF UpdateRefused, UpdateCrashes, IInv, TypeOK, Answers, counters, context
  <2>3. FlowInv'
    BY <1>8 DEF UpdateRefused, UpdateCrashes, IInv, FlowInv, MayUpdate, counters, context
  <2> QED BY <2>1, <2>2, <2>3 DEF IInv
<1>9. CASE DiscardEnrollment \/ ClearContext \/ Reattach
  <2>1. GalleryInv' /\ RunInv'
    BY <1>9, SameGallery DEF DiscardEnrollment, ClearContext, Reattach
  <2>2. TypeOK'
    <3>1. inProgress' \in BOOLEAN /\ open' \in BOOLEAN /\ startFailed' \in BOOLEAN
      BY <1>9 DEF DiscardEnrollment, ClearContext, Reattach, Destroy, IInv, TypeOK
    <3>2. packed' = {} /\ answer' = "idle"
      BY <1>9 DEF DiscardEnrollment, ClearContext, Reattach, Destroy
    <3>3. UNCHANGED <<gallery, touched, enrolled, tipped, lastTipped, good, contTip, backup>>
      BY <1>9 DEF DiscardEnrollment, ClearContext, Reattach, counters
    <3>4. packed' \in SUBSET Seq(Image) /\ answer' \in Answers
      BY <3>2 DEF Answers
    <3>5. /\ gallery' \in Gallery
          /\ touched' \in 0..MaxImages /\ enrolled' \in 0..SAMPLES
          /\ tipped' \in 0..MAX_TIPS /\ lastTipped' \in 0..MaxImages
          /\ contTip' \in 0..MAX_CONT
          /\ backup' \in Image \union {None}
          /\ good' \subseteq 1..MaxImages
      BY <3>3 DEF IInv, TypeOK
    <3> QED BY <3>1, <3>4, <3>5 DEF TypeOK
  <2>3. FlowInv'
    BY <1>9 DEF DiscardEnrollment, ClearContext, Reattach, Destroy, IInv, FlowInv,
                Ended, MayUpdate, counters
  <2> QED BY <2>1, <2>2, <2>3 DEF IInv
<1>10. CASE UNCHANGED vars
  BY <1>10 DEF vars, IInv, TypeOK, GalleryInv, RunInv, FlowInv, MayUpdate
<1> QED BY <1>1, <1>2, <1>3, <1>4, <1>5, <1>6, <1>7, <1>8, <1>9, <1>10 DEF Next

\* The inductive invariant holds throughout every enrollment.
THEOREM EnrollmentInvariant == Spec => []IInv
  BY InitIInv, NextIInv, PTL DEF Spec

-----------------------------------------------------------------------------
(* The properties of the module.                                           *)

\* Every variable keeps its type, the session's size among them.
THEOREM EnrollmentTyped == Spec => []TypeOK
<1>1. IInv => TypeOK
  BY DEF IInv
<1> QED BY <1>1, EnrollmentInvariant, PTL

\* Only a session the matcher refused leaves a handler with a null session.
THEOREM EnrollmentSessionFlag == Spec => []SessionFlag
<1>1. IInv => SessionFlag
  BY DEF IInv, FlowInv, SessionFlag
<1> QED BY <1>1, EnrollmentInvariant, PTL

\* However tips are weighed, no image is in the session twice.
THEOREM EnrollmentNoImageTwice == Spec => []NoImageTwice
<1>1. IInv => NoImageTwice
  BY DEF IInv, GalleryInv, GInv, Injective, NoImageTwice
<1> QED BY <1>1, EnrollmentInvariant, PTL

\* The divisor of the averages is the number of images the session counts.
THEOREM EnrollmentImagesCounted == Spec => []ImagesCounted
<1>1. IInv => ImagesCounted
  BY DEF IInv, GalleryInv, GInv, ImagesCounted
<1> QED BY <1>1, EnrollmentInvariant, PTL

\* Only an image of an earlier enrollment fills the session early.
THEOREM EnrollmentFullExplained == Spec => []FullExplained
<1>1. IInv => FullExplained
  BY DEF IInv, GalleryInv, GInv, FlowInv, FullExplained
<1> QED BY <1>1, EnrollmentInvariant, PTL

\* No enrolled image is lost to the weighing of tips.
THEOREM EnrollmentEnrolledKept == Spec => []EnrolledImagesKept
<1>1. IInv => EnrolledImagesKept
  BY DEF IInv, GalleryInv, GInv, EnrolledImagesKept
<1> QED BY <1>1, EnrollmentInvariant, PTL

\* One of the tips in a row stays.
THEOREM EnrollmentRunKeepsOne == Spec => []TippedRunKeepsOne
<1>1. IInv => TippedRunKeepsOne
  BY DEF IInv, RunInv, TippedRunKeepsOne
<1> QED BY <1>1, EnrollmentInvariant, PTL

\* The finished template is that of the open session.
THEOREM EnrollmentPackedBelongs == Spec => []PackedBelongs
<1>1. IInv => PackedBelongs
  BY DEF IInv, FlowInv, PackedBelongs
<1> QED BY <1>1, EnrollmentInvariant, PTL

\* The user is asked for at most SAMPLES + MAX_TIPS accepted touches.
THEOREM EnrollmentTouchesBounded == Spec => []TouchesBounded
<1>1. IInv => TouchesBounded
  BY DEF IInv, TypeOK, FlowInv, TouchesBounded, MaxImages
<1> QED BY <1>1, EnrollmentInvariant, PTL
=============================================================================
