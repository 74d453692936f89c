-------------------------- MODULE Ingestion_proofs --------------------------
(* Proofs about Ingestion, for any number of uploads of any number of files,  *)
(* of deletions and of collections.                                           *)
EXTENDS Ingestion, TLAPS

USE DEF Indexed

(* Where the thread is in its list of files. *)
Position ==
  \A j \in Jobs :
    /\ pc[j] # "none" => files[j] \in FileLists
    /\ pc[j] \in {"none", "reading", "submitted"} => at[j] = 1 /\ job[j] # "COMPLETED"
    /\ pc[j] \in {"extract", "index", "mark", "register", "name"} => at[j] <= Len(files[j])
    /\ pc[j] = "finish" \/ job[j] = "COMPLETED" => at[j] > Len(files[j])

(* The files it has passed are settled. *)
PastIsAccounted ==
  \A e \in Entries :
    e[2] < at[e[1]] \/ (e[2] = at[e[1]] /\ pc[e[1]] \in {"register", "name"}) => Accounted(e)

(* It indexes what it extracted, and marks and summarises what it indexed. *)
IndexedBeforeMarked ==
  \A j \in Jobs :
    /\ pc[j] \in {"index", "mark"} => doc[j] # "none"
    /\ (pc[j] = "mark" /\ doc[j] # "empty") \/ pc[j] = "register" => Current(j) \in Indexed

(* Chunks, entries of self._files under IDs, and what a request is about to   *)
(* erase come from submitted files.                                           *)
OnlySubmitted ==
  /\ \A e \in Indexed : e \in FilesOf(e[1]) /\ pc[e[1]] \notin {"none", "reading"}
  /\ \A e \in Entries : tracked[e] # "none" =>
       e \in FilesOf(e[1]) /\ pc[e[1]] \notin {"none", "reading"}
  /\ del.hits \subseteq chunks \union gone

(* No thread handles a name that was deleted, or is being deleted, in peace;  *)
(* such a deletion has all the chunks of the name in hand, then erased.       *)
NamesInPeace ==
  /\ \A j \in Jobs : Running(j) => NamesOf(j) \intersect deleted = {}
  /\ op \in {"get", "erase", "untrack", "unregister"} /\ del.quiet =>
       /\ \A j \in Jobs : Running(j) => del.name \notin NamesOf(j)
       /\ op = "erase" => \A e \in chunks : NameOf(e) = del.name => e \in del.hits
       /\ op \in {"untrack", "unregister"} => \A e \in chunks : NameOf(e) # del.name

IInv ==
  /\ TypeOK /\ Position /\ PastIsAccounted /\ IndexedBeforeMarked /\ OnlySubmitted
  /\ NamesInPeace /\ SuccessIsSearchable /\ SummariesWereIndexed /\ DeleteSticks

-----------------------------------------------------------------------------
LEMMA InitIInv == Init => IInv
  BY NamesAssumption, BoundsAssumption
  DEF Init, IInv, TypeOK, Position, PastIsAccounted, IndexedBeforeMarked, OnlySubmitted,
      NamesInPeace, SuccessIsSearchable, SummariesWereIndexed, DeleteSticks, NoDelete, Entries,
      Running, Working, Statuses

(* The list of an upload has from one to MaxFiles names. *)
LEMMA ListLength ==
  ASSUME NEW fs \in FileLists
  PROVE  /\ fs \in Seq(Names) /\ Len(fs) \in 1..MaxFiles
         /\ \A i \in 1..Len(fs) : fs[i] \in Names
  BY BoundsAssumption DEF FileLists

(* The file a thread is at is one of its job's. *)
LEMMA CurrentFile ==
  ASSUME TypeOK, Position, NEW j \in Jobs,
         pc[j] \in {"extract", "index", "mark", "register", "name"}
  PROVE  /\ Current(j) \in Entries /\ Current(j) \in FilesOf(j)
         /\ Current(j)[1] = j /\ Current(j)[2] = at[j]
         /\ NameOf(Current(j)) \in NamesOf(j) /\ NameOf(Current(j)) \in Names
<1>1. files[j] \in FileLists /\ at[j] \in 1..Len(files[j])
  BY BoundsAssumption, ListLength DEF TypeOK, Position
<1>2. at[j] \in 1..MaxFiles /\ files[j][at[j]] \in Names
  BY <1>1, ListLength, BoundsAssumption
<1>3. Current(j) \in Entries /\ Current(j)[1] = j /\ Current(j)[2] = at[j]
  BY <1>2 DEF Current, Entries
<1>4. Current(j) \in FilesOf(j) /\ NameOf(Current(j)) = files[j][at[j]]
  BY <1>1, <1>3 DEF Current, FilesOf, NameOf
<1>5. QED
  BY <1>2, <1>3, <1>4 DEF NamesOf

-----------------------------------------------------------------------------
(* Requests on collections and the clean-up touch no job, and erase at most.  *)

LEMMA HousekeepingStep ==
  ASSUME IInv,
         CreateCollection \/ DeleteCollection \/ DeleteCollectionSummaries \/ CleanUp
  PROVE  IInv'
<1> USE DEF IInv
<1>1. /\ UNCHANGED <<tracked, named, threads, del, deleted>>
      /\ chunks' \subseteq chunks /\ chunks' \union gone' = chunks \union gone /\ blank' = blank
      /\ summaries' \subseteq summaries
      /\ op' = op \/ op' \in {"free", "clear"}
      /\ created' \in Nat /\ created' >= created /\ coll' \in 0..created'
      /\ stamp' \in {"none", "fresh", "old"} /\ cleaner' \in {"idle", "expired", "clear"}
      /\ deletes' \in Nat
  <2> USE DEF TypeOK, tables, store, EraseCollection, MakeCollection, ClearSummaries, CountDelete
  <2>1. CASE CreateCollection
    BY <2>1 DEF CreateCollection
  <2>2. CASE DeleteCollection
    BY <2>2 DEF DeleteCollection
  <2>3. CASE DeleteCollectionSummaries
    BY <2>3 DEF DeleteCollectionSummaries
  <2>4. CASE Expire
    BY <2>4 DEF Expire
  <2>5. CASE CleanerLists
    BY <2>5 DEF CleanerLists
  <2>6. CASE CleanerDeletes
    BY <2>6 DEF CleanerDeletes
  <2>7. CASE CleanerClears
    BY <2>7 DEF CleanerClears
  <2>8. QED
    BY <2>1, <2>2, <2>3, <2>4, <2>5, <2>6, <2>7 DEF CleanUp
<1>2. TypeOK'
  <2>1. handle' \in [Jobs -> 0..created'] /\ del'.handle \in 0..created'
    BY <1>1 DEF TypeOK, threads
  <2>2. del' \in [name : Names, ids : SUBSET Entries, keys : SUBSET Names,
                  hits : SUBSET Entries, handle : 0..created', quiet : BOOLEAN]
    BY <1>1, <2>1 DEF TypeOK
  <2>3. chunks' \subseteq Entries /\ gone' \subseteq Entries /\ blank' \subseteq Entries
    BY <1>1 DEF TypeOK
  <2>4. QED
    BY <1>1, <2>1, <2>2, <2>3 DEF TypeOK, threads
<1>3. Position' /\ PastIsAccounted' /\ IndexedBeforeMarked' /\ OnlySubmitted'
  BY <1>1 DEF Position, PastIsAccounted, IndexedBeforeMarked, OnlySubmitted, Accounted,
              Current, FilesOf, threads
<1>4. NamesInPeace'
  BY <1>1 DEF NamesInPeace, Running, NamesOf, FilesOf, NameOf, threads
<1>5. SuccessIsSearchable' /\ SummariesWereIndexed' /\ DeleteSticks'
  BY <1>1 DEF SuccessIsSearchable, SummariesWereIndexed, DeleteSticks, NameOf, threads
<1>6. QED
  BY <1>2, <1>3, <1>4, <1>5

-----------------------------------------------------------------------------
(* Uploads *)

(* No thread of the job is running before, and its chunks do not exist yet. *)
LEMMA UploadStep ==
  ASSUME IInv, NEW j \in Jobs,
         (\E fs \in Uploads[j] : Upload(j, fs)) \/ UploadFails(j)
  PROVE  IInv'
<1> USE DEF IInv
<1>1. /\ UNCHANGED <<store, tables, job, detail, at, doc, handle, index,
                     op, del, deletes, cleaner, deleted>>
      /\ op = "free"
      /\ pc[j] \in {"none", "reading"} /\ pc'[j] \in {"reading", "ended"}
      /\ files'[j] \in FileLists
      /\ \A k \in Jobs : k # j => pc'[k] = pc[k] /\ files'[k] = files[k]
      /\ pc' \in [Jobs -> Working \union {"none", "reading", "stamp", "ended"}]
      /\ files' \in [Jobs -> FileLists \union {<<>>}]
      /\ job[j] # "COMPLETED"
  <2>1. CASE \E fs \in Uploads[j] : Upload(j, fs)
    <3>1. PICK fs \in Uploads[j] : Upload(j, fs)
      BY <2>1
    <3>2. fs \in FileLists
      BY UploadsAssumption
    <3>3. QED
      BY <3>1, <3>2 DEF Upload, TypeOK, Position
  <2>2. CASE UploadFails(j)
    BY <2>2 DEF UploadFails, TypeOK, Position
  <2>3. QED
    BY <2>1, <2>2
<1>2. TypeOK'
  BY <1>1 DEF TypeOK, store, tables
<1>3. Position' 
  BY <1>1 DEF Position, TypeOK
<1>4. \A e \in Indexed : e[1] # j /\ e \in Entries
  BY <1>1 DEF OnlySubmitted, TypeOK
<1>5. PastIsAccounted' /\ IndexedBeforeMarked'
  BY <1>1 DEF PastIsAccounted, IndexedBeforeMarked, Accounted, Current, TypeOK, store, tables, Entries
<1>6. OnlySubmitted'
  <2>1. ASSUME NEW e \in Entries, e \in Indexed \/ tracked[e] # "none"
        PROVE  e \in FilesOf(e[1])' /\ pc'[e[1]] \notin {"none", "reading"}
    <3>1. e \in FilesOf(e[1]) /\ pc[e[1]] \notin {"none", "reading"} /\ e[1] \in Jobs
      BY <2>1 DEF OnlySubmitted, Entries
    <3>2. e[1] # j
      BY <1>1, <3>1
    <3>3. QED
      BY <1>1, <3>1, <3>2 DEF FilesOf
  <2>2. QED
    BY <1>1, <1>4, <2>1 DEF OnlySubmitted, store, tables
<1>7. NamesInPeace'
  <2>1. ASSUME NEW k \in Jobs, Running(k)'
        PROVE  Running(k) /\ NamesOf(k)' = NamesOf(k)
    <3>1. k # j /\ pc'[k] = pc[k] /\ files'[k] = files[k]
      BY <1>1, <2>1 DEF Running, Working
    <3>2. Running(k)
      BY <3>1, <2>1 DEF Running
    <3>3. QED
      BY <3>1, <3>2 DEF NamesOf, FilesOf, NameOf
  <2>2. QED
    BY <1>1, <2>1 DEF NamesInPeace
<1>8. SuccessIsSearchable' /\ SummariesWereIndexed' /\ DeleteSticks'
  <2>1. UNCHANGED <<chunks, gone, blank, summaries, detail, deleted>>
    BY <1>1 DEF store, tables
  <2>2. \A e \in Indexed : e[1] \in Jobs /\ NameOf(e)' = NameOf(e)
    BY <1>1, <1>4 DEF NameOf, Entries
  <2>3. SuccessIsSearchable'
    BY <2>1 DEF SuccessIsSearchable
  <2>4. SummariesWereIndexed'
    BY <2>1, <2>2 DEF SummariesWereIndexed
  <2>5. DeleteSticks'
    BY <2>1, <2>2 DEF DeleteSticks
  <2>6. QED
    BY <2>3, <2>4, <2>5
<1>9. QED
  BY <1>2, <1>3, <1>5, <1>6, <1>7, <1>8

(* From here on the job's names are no longer deleted ones. *)
LEMMA SubmitStep ==
  ASSUME IInv, NEW j \in Jobs, Submit(j)
  PROVE  IInv'
<1> USE DEF IInv, Submit
<1>1. \A e \in FilesOf(j) : e[1] = j /\ e[2] >= 1
  BY DEF FilesOf
<1>2. at[j] = 1 /\ files[j] \in FileLists
  BY DEF Position
<1>3. TypeOK'
  BY DEF TypeOK, store, Statuses, Working
<1>4. Position'
  BY <1>2, ListLength DEF Position, TypeOK
<1>5. PastIsAccounted'
  <2>1. SUFFICES ASSUME NEW e \in Entries,
                        e[2] < at[e[1]] \/ (e[2] = at[e[1]] /\ pc'[e[1]] \in {"register", "name"})
                 PROVE  Accounted(e)'
    BY DEF PastIsAccounted
  <2>2. e[1] # j
    BY <1>2, <2>1 DEF Entries, TypeOK
  <2>3. Accounted(e) /\ e \notin FilesOf(j)
    BY <1>1, <2>1, <2>2 DEF PastIsAccounted, TypeOK, Entries
  <2>4. QED
    BY <2>3 DEF Accounted, store
<1>6. IndexedBeforeMarked' /\ OnlySubmitted'
  BY DEF IndexedBeforeMarked, OnlySubmitted, Current, FilesOf, TypeOK, store, Entries
<1>7. NamesInPeace'
  BY DEF NamesInPeace, Running, Working, NamesOf, FilesOf, NameOf, TypeOK
<1>8. SuccessIsSearchable' /\ SummariesWereIndexed' /\ DeleteSticks'
  BY DEF SuccessIsSearchable, SummariesWereIndexed, DeleteSticks, NameOf, TypeOK, store
<1>9. QED
  BY <1>3, <1>4, <1>5, <1>6, <1>7, <1>8

-----------------------------------------------------------------------------
(* Deletions of files *)

LEMMA StartDeleteStep ==
  ASSUME IInv, NEW n \in Names, NEW ids \in SUBSET Entries, NEW keys \in SUBSET Names,
         StartDelete(n, ids, keys)
  PROVE  IInv'
<1> USE DEF IInv, StartDelete
<1>1. TypeOK'
  <2>1. (\A j \in Jobs : Running(j) => n \notin NamesOf(j)) \in BOOLEAN
    OBVIOUS
  <2>2. del' \in [name : Names, ids : SUBSET Entries, keys : SUBSET Names,
                  hits : SUBSET Entries, handle : 0..created, quiet : BOOLEAN]
    BY <2>1 DEF TypeOK
  <2>3. QED
    BY <2>2 DEF TypeOK, store, tables, threads, CountDelete
<1>2. Position' /\ PastIsAccounted' /\ IndexedBeforeMarked' /\ OnlySubmitted'
  BY DEF Position, PastIsAccounted, IndexedBeforeMarked, OnlySubmitted, Accounted,
         Current, FilesOf, store, tables, threads
<1>3. NamesInPeace'
  BY DEF NamesInPeace, Running, NamesOf, FilesOf, NameOf, store, threads
<1>4. SuccessIsSearchable' /\ SummariesWereIndexed' /\ DeleteSticks'
  BY DEF SuccessIsSearchable, SummariesWereIndexed, DeleteSticks, NameOf, store, tables, threads
<1>5. QED
  BY <1>1, <1>2, <1>3, <1>4

LEMMA NoDeleteType ==
  ASSUME TypeOK
  PROVE  NoDelete \in [name : Names, ids : SUBSET Entries, keys : SUBSET Names,
                       hits : SUBSET Entries, handle : 0..created, quiet : BOOLEAN]
  BY NamesAssumption DEF NoDelete, TypeOK

(* The steps of a deletion that erase nothing change what the request knows, *)
(* and forget at most what is tracked.                                       *)
LEMMA QuietDeleteStep ==
  ASSUME IInv, DeleteFindsNothing \/ GetChunks \/ Untrack
  PROVE  IInv'
<1> USE DEF IInv, EndDelete
<1>1. /\ UNCHANGED <<store, summaries, threads, deletes, cleaner, deleted>>
      /\ tracked' \in [Entries -> Statuses \union {"none"}] /\ named' \subseteq Names
      /\ \A e \in Entries : tracked'[e] \in {tracked[e], "none"}
      /\ op' \in {"free", "erase", "untrack", "unregister"}
  BY DEF DeleteFindsNothing, GetChunks, Untrack, tables, TypeOK
<1>2. TypeOK'
  <2>1. del' \in [name : Names, ids : SUBSET Entries, keys : SUBSET Names,
                  hits : SUBSET Entries, handle : 0..created, quiet : BOOLEAN]
    <3>1. CASE DeleteFindsNothing
      BY <3>1, NoDeleteType DEF DeleteFindsNothing
    <3>2. CASE GetChunks
      BY <3>2 DEF GetChunks, TypeOK
    <3>3. CASE Untrack
      BY <3>3 DEF Untrack, TypeOK
    <3>4. QED
      BY <3>1, <3>2, <3>3
  <2>2. QED
    BY <1>1, <2>1 DEF TypeOK, store, threads
<1>3. Position' /\ IndexedBeforeMarked'
  BY <1>1 DEF Position, IndexedBeforeMarked, Current, store, threads
<1>4. PastIsAccounted'
  BY <1>1 DEF PastIsAccounted, Accounted, store, threads
<1>5. del'.hits \subseteq chunks \union gone
  BY DEF DeleteFindsNothing, GetChunks, Untrack, NoDelete, OnlySubmitted, TypeOK
<1>6. OnlySubmitted'
  BY <1>1, <1>5 DEF OnlySubmitted, FilesOf, store, threads
<1>7. NamesInPeace'
  <2>1. CASE DeleteFindsNothing
    BY <1>1, <2>1 DEF DeleteFindsNothing, NamesInPeace, Running, NamesOf, FilesOf, NameOf, threads
  <2>2. CASE GetChunks
    BY <1>1, <2>2
       DEF GetChunks, NamesInPeace, Running, NamesOf, FilesOf, NameOf, threads, store, TypeOK
  <2>3. CASE Untrack
    BY <1>1, <2>3 DEF Untrack, NamesInPeace, Running, NamesOf, FilesOf, NameOf, threads, store, TypeOK
  <2>4. QED
    BY <2>1, <2>2, <2>3
<1>8. SuccessIsSearchable' /\ SummariesWereIndexed' /\ DeleteSticks'
  BY <1>1 DEF SuccessIsSearchable, SummariesWereIndexed, DeleteSticks, NameOf, store, threads
<1>9. QED
  BY <1>2, <1>3, <1>4, <1>6, <1>7, <1>8

LEMMA EraseChunksStep ==
  ASSUME IInv, EraseChunks
  PROVE  IInv'
<1> USE DEF IInv, EraseChunks
<1>1. del.hits \subseteq chunks \union gone /\ del.hits \subseteq Entries
  BY DEF OnlySubmitted, TypeOK
<1>2. chunks' \subseteq chunks /\ chunks' \union gone' = chunks \union gone /\ blank' = blank
  BY <1>1
<1>3. TypeOK'
  BY <1>1 DEF TypeOK, tables, threads
<1>4. Position' /\ PastIsAccounted' /\ IndexedBeforeMarked' /\ OnlySubmitted'
  BY <1>2 DEF Position, PastIsAccounted, IndexedBeforeMarked, OnlySubmitted, Accounted,
              Current, FilesOf, tables, threads
<1>5. NamesInPeace'
  BY <1>2 DEF NamesInPeace, Running, NamesOf, FilesOf, NameOf, threads
<1>6. SuccessIsSearchable' /\ SummariesWereIndexed' /\ DeleteSticks'
  BY <1>2 DEF SuccessIsSearchable, SummariesWereIndexed, DeleteSticks, NameOf, tables, threads
<1>7. QED
  BY <1>3, <1>4, <1>5, <1>6

(* A deletion in peace ends: nothing of the name is left, and no thread runs  *)
(* that could bring it back.                                                  *)
LEMMA UnregisterStep ==
  ASSUME IInv, Unregister
  PROVE  IInv'
<1> USE DEF IInv, EndDelete
<1>1. /\ UNCHANGED <<store, tracked, named, threads, deletes, cleaner>>
      /\ op = "unregister" /\ op' = "free" /\ del' = NoDelete
      /\ summaries' \subseteq summaries
      /\ \/ deleted' = deleted
         \/ del.quiet /\ deleted' = deleted \union {del.name} /\ summaries' = summaries \ {del.name}
  BY DEF Unregister
<1>2. TypeOK'
  BY <1>1, NoDeleteType DEF TypeOK, store, threads
<1>3. Position' /\ PastIsAccounted' /\ IndexedBeforeMarked' /\ OnlySubmitted'
  BY <1>1 DEF Position, PastIsAccounted, IndexedBeforeMarked, OnlySubmitted, Accounted,
              Current, FilesOf, store, threads, NoDelete
<1>4. NamesInPeace' /\ DeleteSticks'
  BY <1>1 DEF NamesInPeace, DeleteSticks, Running, NamesOf, FilesOf, NameOf, store, threads
<1>5. SuccessIsSearchable' /\ SummariesWereIndexed'
  BY <1>1 DEF SuccessIsSearchable, SummariesWereIndexed, NameOf, store, threads
<1>6. QED
  BY <1>2, <1>3, <1>4, <1>5

-----------------------------------------------------------------------------
(* Steps of a thread *)

(* What the steps have in common: they disturb nothing of another job, index  *)
(* the current file only and in its turn, register its name   *)
(* only, and after a file either settle it or go on with it.                  *)
LEMMA ThreadFrame ==
  ASSUME IInv, NEW j \in Jobs, Thread(j)
  PROVE  /\ UNCHANGED <<files, op, del, deletes, cleaner, deleted, gone>>
         /\ pc[j] \in Working \union {"stamp"}
         /\ pc'[j] \notin {"none", "reading", "submitted"}
         /\ pc'[j] \in Working => pc[j] \in Working
         /\ \A k \in Jobs : k # j =>
              pc'[k] = pc[k] /\ at'[k] = at[k] /\ doc'[k] = doc[k] /\ job'[k] = job[k]
         /\ chunks \subseteq chunks' /\ blank \subseteq blank'
         /\ \A e \in chunks' : e \in chunks \/ (e = Current(j) /\ pc[j] = "index")
         /\ \A e \in blank' : e \in blank \/ (e = Current(j) /\ pc[j] = "index")
         /\ \A n \in summaries' :
              n \in summaries \/ (n = NameOf(Current(j)) /\ pc[j] = "register")
<1> USE DEF IInv, TypeOK, store, tables, Working, MakeCollection, Goto, NextFile, FileFails,
            UpdateFileStatus
<1>1. CASE OpenCollection(j)
  BY <1>1 DEF OpenCollection
<1>2. CASE JobFails(j)
  BY <1>2 DEF JobFails
<1>3. CASE Extract(j)
  BY <1>3 DEF Extract
<1>4. CASE IndexFile(j)
  BY <1>4 DEF IndexFile
<1>5. CASE IndexFails(j)
  BY <1>5 DEF IndexFails
<1>6. CASE MarkFile(j)
  BY <1>6 DEF MarkFile
<1>7. CASE RegisterSummary(j)
  BY <1>7 DEF RegisterSummary
<1>8. CASE TrackName(j)
  BY <1>8 DEF TrackName
<1>9. CASE FinishJob(j)
  BY <1>9 DEF FinishJob
<1>10. CASE UpdateTimestamp(j)
  BY <1>10 DEF UpdateTimestamp
<1>11. QED
  BY <1>1, <1>2, <1>3, <1>4, <1>5, <1>6, <1>7, <1>8, <1>9, <1>10 DEF Thread

(* What a step does to the statuses of files. *)
LEMMA ThreadStatuses ==
  ASSUME IInv, NEW j \in Jobs, Thread(j)
  PROVE  /\ \A e \in Entries : e # Current(j) => detail'[e] = detail[e] /\ tracked'[e] = tracked[e]
         /\ \A e \in Entries : tracked'[e] # "none" => tracked[e] # "none"
         /\ pc[j] \notin {"extract", "index", "mark"} => UNCHANGED <<detail, tracked>>
         /\ Current(j) \in Entries /\ detail'[Current(j)] = "SUCCESS" =>
              detail[Current(j)] = "SUCCESS" \/ (pc[j] = "mark" /\ doc[j] # "empty")
         /\ at'[j] = at[j] \/ at'[j] = at[j] + 1
         /\ at'[j] = at[j] + 1 => pc[j] \in {"extract", "index", "mark", "name"}
         /\ pc'[j] \in {"register", "name"} => at'[j] = at[j] /\ pc[j] \in {"mark", "register"}
         /\ pc[j] \in {"extract", "index", "mark"} /\ Current(j) \in Entries =>
              \/ pc'[j] \in {"index", "mark"} /\ at'[j] = at[j]
              \/ detail'[Current(j)] = "FAILED" /\ tracked'[Current(j)] \in {"FAILED", "none"}
              \/ detail'[Current(j)] = "SUCCESS" /\ pc[j] = "mark" /\ doc[j] # "empty"
         /\ pc'[j] \in {"index", "mark"} => doc'[j] # "none"
         /\ pc'[j] = "mark" /\ doc'[j] # "empty" =>
              pc[j] = "index" /\ Current(j) \in Indexed' /\ at'[j] = at[j]
         /\ pc'[j] = "register" => pc[j] = "mark" /\ doc[j] # "empty" /\ at'[j] = at[j]
<1> USE DEF IInv, TypeOK, store, tables, Goto, NextFile, FileFails, UpdateFileStatus
<1>1. CASE OpenCollection(j)
  BY <1>1 DEF OpenCollection
<1>2. CASE JobFails(j)
  BY <1>2 DEF JobFails
<1>3. CASE Extract(j)
  BY <1>3 DEF Extract, Documents
<1>4. CASE IndexFile(j)
  <2>1. doc[j] \in Documents
    BY <1>4 DEF IndexFile, IndexedBeforeMarked
  <2>2. doc[j] # "empty" => Current(j) \in chunks' \union blank'
    BY <1>4, <2>1 DEF IndexFile, Documents
  <2>3. QED
    BY <1>4, <2>1, <2>2 DEF IndexFile, Documents
<1>5. CASE IndexFails(j)
  BY <1>5 DEF IndexFails
<1>6. CASE MarkFile(j)
  BY <1>6 DEF MarkFile
<1>7. CASE RegisterSummary(j)
  BY <1>7 DEF RegisterSummary
<1>8. CASE TrackName(j)
  BY <1>8 DEF TrackName
<1>9. CASE FinishJob(j)
  BY <1>9 DEF FinishJob
<1>10. CASE UpdateTimestamp(j)
  BY <1>10 DEF UpdateTimestamp
<1>11. QED
  BY <1>1, <1>2, <1>3, <1>4, <1>5, <1>6, <1>7, <1>8, <1>9, <1>10 DEF Thread

LEMMA StatusType ==
  ASSUME TypeOK, NEW e, NEW st \in Statuses, UpdateFileStatus(e, st)
  PROVE  /\ tracked' \in [Entries -> Statuses \union {"none"}]
         /\ detail' \in [Entries -> Statuses \union {"none"}]
  BY DEF UpdateFileStatus, TypeOK

(* The two ways in which a text is extracted, and what else they change. *)
LEMMA ExtractEffect ==
  ASSUME NEW j \in Jobs, Extract(j)
  PROVE  /\ pc[j] = "extract"
         /\ UNCHANGED <<store, summaries, named, job, files, handle, index>>
         /\ \E d \in {"none"} \union Documents : doc' = [doc EXCEPT ![j] = d]
         /\ \/ UpdateFileStatus(Current(j), "FAILED") /\ NextFile(j)
            \/ /\ detail' = [detail EXCEPT ![Current(j)] = "INGESTING"]
               /\ tracked' = tracked /\ at' = at /\ Goto(j, "index")
<1>1. CASE FileFails(j) /\ doc' = [doc EXCEPT ![j] = "none"]
  BY <1>1 DEF Extract, FileFails
<1>2. CASE \E d \in Documents :
             /\ d \in Contents[Current(j)]
             /\ doc' = [doc EXCEPT ![j] = d]
             /\ detail' = [detail EXCEPT ![Current(j)] = "INGESTING"]
             /\ Goto(j, "index")
             /\ UNCHANGED <<tables, job, files, at, handle>>
  <2>1. PICK d \in Documents :
             /\ doc' = [doc EXCEPT ![j] = d]
             /\ detail' = [detail EXCEPT ![Current(j)] = "INGESTING"]
             /\ Goto(j, "index")
             /\ UNCHANGED <<tables, job, files, at, handle>>
    BY <1>2
  <2>2. UNCHANGED <<store, index>> /\ pc[j] = "extract"
    BY DEF Extract
  <2>3. QED
    BY <2>1, <2>2 DEF tables
<1>3. QED
  BY <1>1, <1>2 DEF Extract

LEMMA NextFileType ==
  ASSUME TypeOK, NEW j \in Jobs, NextFile(j)
  PROVE  pc' \in [Jobs -> Working \union {"none", "reading", "stamp", "ended"}]
<1>1. (IF at[j] < Len(files[j]) THEN "extract" ELSE "finish") \in Working
  BY DEF Working
<1>2. QED
  BY <1>1 DEF NextFile, Goto, TypeOK

LEMMA ThreadType ==
  ASSUME IInv, NEW j \in Jobs, Thread(j)
  PROVE  TypeOK'
<1> USE DEF IInv
<1>1. /\ created' \in Nat /\ created' >= created /\ coll' \in 0..created'
      /\ stamp' \in {"none", "fresh", "old"} /\ handle' \in [Jobs -> 0..created']
  <2> USE DEF TypeOK, store, MakeCollection, FileFails
  <2>1. CASE OpenCollection(j)
    BY <2>1 DEF OpenCollection
  <2>2. CASE JobFails(j)
    BY <2>2 DEF JobFails
  <2>3. CASE Extract(j)
    BY <2>3, ExtractEffect
  <2>4. CASE IndexFile(j)
    BY <2>4 DEF IndexFile
  <2>5. CASE IndexFails(j)
    BY <2>5 DEF IndexFails
  <2>6. CASE MarkFile(j)
    BY <2>6 DEF MarkFile
  <2>7. CASE RegisterSummary(j)
    BY <2>7 DEF RegisterSummary
  <2>8. CASE TrackName(j)
    BY <2>8 DEF TrackName
  <2>9. CASE FinishJob(j)
    BY <2>9 DEF FinishJob
  <2>10. CASE UpdateTimestamp(j)
    BY <2>10 DEF UpdateTimestamp
  <2>11. QED
    BY <2>1, <2>2, <2>3, <2>4, <2>5, <2>6, <2>7, <2>8, <2>9, <2>10 DEF Thread
<1>2. chunks' \subseteq Entries /\ blank' \subseteq Entries /\ summaries' \subseteq Names
  BY ThreadFrame, CurrentFile DEF TypeOK
<1>3. /\ tracked' \in [Entries -> Statuses \union {"none"}]
      /\ detail' \in [Entries -> Statuses \union {"none"}]
  <2>1. "FAILED" \in Statuses /\ "INGESTING" \in Statuses /\ "SUCCESS" \in Statuses
    BY DEF Statuses
  <2> USE <2>1, StatusType DEF TypeOK, tables, FileFails
  <2>2. CASE OpenCollection(j)
    BY <2>2 DEF OpenCollection
  <2>3. CASE JobFails(j)
    BY <2>3 DEF JobFails
  <2>4. CASE Extract(j)
    <3>1. CASE UpdateFileStatus(Current(j), "FAILED")
      BY <3>1, <2>1, StatusType
    <3>2. CASE detail' = [detail EXCEPT ![Current(j)] = "INGESTING"] /\ tracked' = tracked
      BY <3>2, <2>1 DEF TypeOK
    <3>3. QED
      BY <2>4, <3>1, <3>2, ExtractEffect
  <2>5. CASE IndexFile(j)
    BY <2>5 DEF IndexFile
  <2>6. CASE IndexFails(j)
    BY <2>6 DEF IndexFails
  <2>7. CASE MarkFile(j)
    BY <2>7 DEF MarkFile
  <2>8. CASE RegisterSummary(j)
    BY <2>8 DEF RegisterSummary
  <2>9. CASE TrackName(j)
    BY <2>9 DEF TrackName
  <2>10. CASE FinishJob(j)
    BY <2>10 DEF FinishJob
  <2>11. CASE UpdateTimestamp(j)
    BY <2>11 DEF UpdateTimestamp
  <2>12. QED
    BY <2>2, <2>3, <2>4, <2>5, <2>6, <2>7, <2>8, <2>9, <2>10, <2>11 DEF Thread
<1>9. /\ job' \in [Jobs -> {"none", "PENDING", "PROCESSING", "COMPLETED", "FAILED"}]
      /\ doc' \in [Jobs -> {"none"} \union Documents]
      /\ index' \in [Jobs -> BOOLEAN]
  <2> USE DEF TypeOK, FileFails
  <2>1. CASE OpenCollection(j)
    BY <2>1 DEF OpenCollection
  <2>2. CASE JobFails(j)
    BY <2>2 DEF JobFails
  <2>3. CASE Extract(j)
    <3>1. PICK d \in {"none"} \union Documents : doc' = [doc EXCEPT ![j] = d]
      BY <2>3, ExtractEffect
    <3>2. job' = job /\ index' = index
      BY <2>3, ExtractEffect
    <3>3. QED
      BY <3>1, <3>2 DEF TypeOK
  <2>4. CASE IndexFile(j)
    BY <2>4 DEF IndexFile
  <2>5. CASE IndexFails(j)
    BY <2>5 DEF IndexFails
  <2>6. CASE MarkFile(j)
    BY <2>6 DEF MarkFile
  <2>7. CASE RegisterSummary(j)
    BY <2>7 DEF RegisterSummary
  <2>8. CASE TrackName(j)
    BY <2>8 DEF TrackName
  <2>9. CASE FinishJob(j)
    BY <2>9 DEF FinishJob
  <2>10. CASE UpdateTimestamp(j)
    BY <2>10 DEF UpdateTimestamp
  <2>11. QED
    BY <2>1, <2>2, <2>3, <2>4, <2>5, <2>6, <2>7, <2>8, <2>9, <2>10 DEF Thread
<1>4. pc' \in [Jobs -> Working \union {"none", "reading", "stamp", "ended"}]
  <2> USE NextFileType DEF TypeOK, Working, Goto, FileFails
  <2>1. CASE OpenCollection(j)
    BY <2>1 DEF OpenCollection
  <2>2. CASE JobFails(j)
    BY <2>2 DEF JobFails
  <2>3. CASE Extract(j)
    <3>1. CASE NextFile(j)
      BY <3>1, NextFileType
    <3>2. CASE Goto(j, "index")
      BY <3>2 DEF Goto, TypeOK, Working
    <3>3. QED
      BY <2>3, <3>1, <3>2, ExtractEffect
  <2>4. CASE IndexFile(j)
    BY <2>4 DEF IndexFile
  <2>5. CASE IndexFails(j)
    BY <2>5 DEF IndexFails
  <2>6. CASE MarkFile(j)
    <3>1. CASE NextFile(j)
      BY <3>1, NextFileType
    <3>2. CASE Goto(j, "register")
      BY <3>2 DEF Goto, TypeOK, Working
    <3>3. QED
      BY <2>6, <3>1, <3>2 DEF MarkFile
  <2>7. CASE RegisterSummary(j)
    BY <2>7 DEF RegisterSummary
  <2>8. CASE TrackName(j)
    BY <2>8 DEF TrackName
  <2>9. CASE FinishJob(j)
    BY <2>9 DEF FinishJob
  <2>10. CASE UpdateTimestamp(j)
    BY <2>10 DEF UpdateTimestamp
  <2>11. QED
    BY <2>1, <2>2, <2>3, <2>4, <2>5, <2>6, <2>7, <2>8, <2>9, <2>10 DEF Thread
<1>5. named' \subseteq Names
  <2> USE CurrentFile DEF TypeOK, tables, FileFails
  <2>1. CASE OpenCollection(j)
    BY <2>1 DEF OpenCollection
  <2>2. CASE JobFails(j)
    BY <2>2 DEF JobFails
  <2>3. CASE Extract(j)
    BY <2>3, ExtractEffect
  <2>4. CASE IndexFile(j)
    BY <2>4 DEF IndexFile
  <2>5. CASE IndexFails(j)
    BY <2>5 DEF IndexFails
  <2>6. CASE MarkFile(j)
    BY <2>6 DEF MarkFile
  <2>7. CASE RegisterSummary(j)
    BY <2>7 DEF RegisterSummary
  <2>8. CASE TrackName(j)
    BY <2>8 DEF TrackName
  <2>9. CASE FinishJob(j)
    BY <2>9 DEF FinishJob
  <2>10. CASE UpdateTimestamp(j)
    BY <2>10 DEF UpdateTimestamp
  <2>11. QED
    BY <2>1, <2>2, <2>3, <2>4, <2>5, <2>6, <2>7, <2>8, <2>9, <2>10 DEF Thread
<1>6. at' \in [Jobs -> 1..(MaxFiles + 1)]
  <2>1. at[j] + 1 \in 1..(MaxFiles + 1) \/ pc[j] \notin {"extract", "index", "mark", "name"}
    BY CurrentFile, ListLength, BoundsAssumption DEF TypeOK, Position
  <2>2. at' = at \/ at' = [at EXCEPT ![j] = @ + 1]
    <3> USE DEF NextFile, FileFails
    <3>1. CASE OpenCollection(j)
      BY <3>1 DEF OpenCollection
    <3>2. CASE JobFails(j)
      BY <3>2 DEF JobFails
    <3>3. CASE Extract(j)
      BY <3>3 DEF Extract
    <3>4. CASE IndexFile(j)
      BY <3>4 DEF IndexFile
    <3>5. CASE IndexFails(j)
      BY <3>5 DEF IndexFails
    <3>6. CASE MarkFile(j)
      BY <3>6 DEF MarkFile
    <3>7. CASE RegisterSummary(j)
      BY <3>7 DEF RegisterSummary
    <3>8. CASE TrackName(j)
      BY <3>8 DEF TrackName
    <3>9. CASE FinishJob(j)
      BY <3>9 DEF FinishJob
    <3>10. CASE UpdateTimestamp(j)
      BY <3>10 DEF UpdateTimestamp
    <3>11. QED
      BY <3>1, <3>2, <3>3, <3>4, <3>5, <3>6, <3>7, <3>8, <3>9, <3>10 DEF Thread
  <2>3. at' = at \/ at[j] + 1 \in 1..(MaxFiles + 1)
    BY <2>1, <2>2, ThreadStatuses, BoundsAssumption DEF TypeOK
  <2>4. QED
    BY <2>2, <2>3 DEF TypeOK
<1>7. del' \in [name : Names, ids : SUBSET Entries, keys : SUBSET Names,
                hits : SUBSET Entries, handle : 0..created', quiet : BOOLEAN]
  BY <1>1, ThreadFrame DEF TypeOK
<1>8. /\ gone' \subseteq Entries /\ deleted' \subseteq Names
      /\ files' \in [Jobs -> FileLists \union {<<>>}] /\ deletes' \in Nat
      /\ op' \in {"free", "clear", "get", "erase", "untrack", "unregister"}
      /\ cleaner' \in {"idle", "expired", "clear"}
  BY ThreadFrame DEF TypeOK
<1>10. QED
  BY <1>1, <1>2, <1>3, <1>4, <1>5, <1>6, <1>7, <1>8, <1>9 DEF TypeOK

LEMMA ThreadPosition ==
  ASSUME IInv, NEW j \in Jobs, Thread(j)
  PROVE  Position'
<1> USE DEF IInv
<1>1. files[j] \in FileLists /\ Len(files[j]) \in Nat /\ at[j] \in Nat
  <2>1. pc[j] # "none" /\ at[j] \in 1..(MaxFiles + 1)
    BY ThreadFrame DEF TypeOK, Working
  <2>2. files[j] \in FileLists
    BY <2>1 DEF Position
  <2>3. QED
    BY <2>1, <2>2, ListLength, BoundsAssumption
<1>2. /\ pc'[j] \in {"extract", "index", "mark", "register", "name"} => at'[j] <= Len(files[j])
      /\ pc'[j] = "finish" \/ job'[j] = "COMPLETED" => at'[j] > Len(files[j])
  <2> USE <1>1, ListLength DEF TypeOK, Position, Goto, NextFile, FileFails
  <2>1. CASE OpenCollection(j)
    BY <2>1 DEF OpenCollection
  <2>2. CASE JobFails(j)
    BY <2>2 DEF JobFails
  <2>3. CASE Extract(j)
    BY <2>3 DEF Extract
  <2>4. CASE IndexFile(j)
    BY <2>4 DEF IndexFile
  <2>5. CASE IndexFails(j)
    BY <2>5 DEF IndexFails
  <2>6. CASE MarkFile(j)
    BY <2>6 DEF MarkFile
  <2>7. CASE RegisterSummary(j)
    BY <2>7 DEF RegisterSummary
  <2>8. CASE TrackName(j)
    BY <2>8 DEF TrackName
  <2>9. CASE FinishJob(j)
    BY <2>9 DEF FinishJob
  <2>10. CASE UpdateTimestamp(j)
    BY <2>10 DEF UpdateTimestamp
  <2>11. QED
    BY <2>1, <2>2, <2>3, <2>4, <2>5, <2>6, <2>7, <2>8, <2>9, <2>10 DEF Thread
<1>3. QED
  BY <1>1, <1>2, ThreadFrame DEF Position

(* A step of a thread settles its file or keeps what is settled, and only     *)
(* adds chunks and summaries of a name that no deletion in peace is about.    *)
LEMMA ThreadStep ==
  ASSUME IInv, NEW j \in Jobs, Thread(j)
  PROVE  IInv'
<1> USE DEF IInv
<1>1. TypeOK' /\ Position'
  BY ThreadType, ThreadPosition
<1>2. Indexed \subseteq Indexed'
  BY ThreadFrame
<1>3. at[j] \in Nat /\ Current(j)[1] = j /\ Current(j)[2] = at[j]
  BY DEF TypeOK, Current
<1>4. PastIsAccounted'
  <2>1. SUFFICES ASSUME NEW e \in Entries,
                        \/ e[2] < at'[e[1]]
                        \/ e[2] = at'[e[1]] /\ pc'[e[1]] \in {"register", "name"}
                 PROVE  Accounted(e)'
    BY DEF PastIsAccounted
  <2>2. e[1] \in Jobs /\ e[2] \in Nat /\ e = <<e[1], e[2]>>
    BY BoundsAssumption DEF Entries
  <2>3. CASE e # Current(j)
    <3>1. e[2] < at[e[1]] \/ (e[2] = at[e[1]] /\ pc[e[1]] \in {"register", "name"})
      <4>1. CASE e[1] # j
        BY <2>1, <2>2, <4>1, ThreadFrame
      <4>2. CASE e[1] = j
        <5>1. e[2] # at[j]
          BY <2>2, <2>3, <4>2 DEF Current
        <5>2. QED
          BY <1>3, <2>1, <2>2, <4>2, <5>1, ThreadStatuses
      <4>3. QED
        BY <4>1, <4>2
    <3>2. detail'[e] = detail[e] /\ tracked'[e] = tracked[e]
      BY <2>3, ThreadStatuses
    <3>3. QED
      BY <1>2, <3>1, <3>2 DEF PastIsAccounted, Accounted
  <2>4. CASE e = Current(j)
    <3>1. e[1] = j /\ e[2] = at[j]
      BY <1>3, <2>4
    <3>2. pc[j] \in {"extract", "index", "mark", "register", "name"}
      BY <1>3, <2>1, <3>1, ThreadStatuses
    <3>3. CASE pc[j] \in {"register", "name"}
      BY <1>2, <3>1, <3>3, ThreadStatuses DEF PastIsAccounted, Accounted
    <3>4. CASE pc[j] \in {"extract", "index", "mark"}
      <4>1. ~(pc'[j] \in {"index", "mark"} /\ at'[j] = at[j])
        BY <1>3, <2>1, <3>1
      <4>2. CASE detail'[e] = "FAILED" /\ tracked'[e] \in {"FAILED", "none"}
        BY <4>2 DEF Accounted
      <4>3. CASE detail'[e] = "SUCCESS" /\ pc[j] = "mark" /\ doc[j] # "empty"
        BY <1>2, <2>4, <4>3 DEF Accounted, IndexedBeforeMarked
      <4>4. QED
        BY <2>4, <3>4, <4>1, <4>2, <4>3, ThreadStatuses
    <3>5. QED
      BY <3>2, <3>3, <3>4
  <2>5. QED
    BY <2>3, <2>4
<1>5. IndexedBeforeMarked'
  <2>0. \A k \in Jobs : pc'[k] \in {"index", "mark"} => doc'[k] # "none"
    BY ThreadFrame, ThreadStatuses DEF IndexedBeforeMarked
  <2>1. SUFFICES ASSUME NEW k \in Jobs,
                        (pc'[k] = "mark" /\ doc'[k] # "empty") \/ pc'[k] = "register"
                 PROVE  Current(k)' \in Indexed'
    BY <2>0 DEF IndexedBeforeMarked
  <2>2. CASE k # j
    BY <1>2, <2>1, <2>2, ThreadFrame DEF IndexedBeforeMarked, Current
  <2>3. CASE k = j
    <3>1. at'[j] = at[j]
      BY <2>1, <2>3, ThreadStatuses
    <3>2. CASE pc'[j] = "mark" /\ doc'[j] # "empty"
      BY <3>1, <3>2, <2>3, ThreadStatuses DEF Current
    <3>3. CASE pc'[j] = "register"
      BY <1>2, <3>1, <3>3, <2>3, ThreadStatuses DEF Current, IndexedBeforeMarked
    <3>4. QED
      BY <2>1, <2>3, <3>2, <3>3
  <2>4. QED
    BY <2>2, <2>3
<1>6. ASSUME NEW e, (e \in chunks' /\ e \notin chunks) \/ (e \in blank' /\ e \notin blank)
      PROVE  /\ e = Current(j) /\ pc[j] = "index" /\ e \in FilesOf(j) /\ e[1] = j
             /\ NameOf(e) \in NamesOf(j)
  BY <1>6, ThreadFrame, CurrentFile
<1>7. OnlySubmitted'
  <2>1. ASSUME NEW e \in Indexed'
        PROVE  (e \in FilesOf(e[1]) /\ pc[e[1]] \notin {"none", "reading"}) /\ e[1] \in Jobs
    <3>1. CASE e \in Indexed
      BY <3>1 DEF OnlySubmitted, TypeOK, Entries
    <3>2. CASE e \notin Indexed
      <4>1. (e \in chunks' /\ e \notin chunks) \/ (e \in blank' /\ e \notin blank)
        BY <3>2, ThreadFrame
      <4>2. QED
        BY <4>1, <1>6
    <3>3. QED
      BY <3>1, <3>2
  <2>2. ASSUME NEW e \in Indexed'
        PROVE  e \in FilesOf(e[1])' /\ pc'[e[1]] \notin {"none", "reading"}
    BY <2>1, ThreadFrame DEF FilesOf
  <2>3. del'.hits \subseteq chunks' \union gone'
    BY <1>2, ThreadFrame DEF OnlySubmitted
  <2>4. ASSUME NEW e \in Entries, tracked'[e] # "none"
        PROVE  e \in FilesOf(e[1])' /\ pc'[e[1]] \notin {"none", "reading"}
    <3>1. tracked[e] # "none" /\ e[1] \in Jobs
      BY <2>4, ThreadStatuses DEF Entries
    <3>2. e \in FilesOf(e[1]) /\ pc[e[1]] \notin {"none", "reading"}
      BY <3>1 DEF OnlySubmitted
    <3>3. QED
      BY <3>1, <3>2, ThreadFrame DEF FilesOf
  <2>5. QED
    BY <2>2, <2>3, <2>4 DEF OnlySubmitted
<1>8. \A k \in Jobs : Running(k)' => Running(k) /\ NamesOf(k)' = NamesOf(k)
  BY ThreadFrame DEF Running, NamesOf, FilesOf, NameOf
<1>9. \A e \in chunks' : e \notin chunks => Running(j) /\ NameOf(e) \in NamesOf(j)
  BY <1>6 DEF Running, Working
<1>10. NamesInPeace'
  <2>1. \A k \in Jobs : Running(k)' => NamesOf(k)' \intersect deleted' = {}
    BY <1>8, ThreadFrame DEF NamesInPeace
  <2>2. ASSUME op' \in {"get", "erase", "untrack", "unregister"}, del'.quiet
        PROVE  /\ \A k \in Jobs : Running(k)' => del'.name \notin NamesOf(k)'
               /\ op' = "erase" => \A e \in chunks' : NameOf(e)' = del'.name => e \in del'.hits
               /\ op' \in {"untrack", "unregister"} => \A e \in chunks' : NameOf(e)' # del'.name
    <3>1. op \in {"get", "erase", "untrack", "unregister"} /\ del.quiet
      BY <2>2, ThreadFrame
    <3>2. \A k \in Jobs : Running(k) => del.name \notin NamesOf(k)
      BY <3>1 DEF NamesInPeace
    <3>3. \A e \in chunks' : e \notin chunks => NameOf(e) # del.name
      BY <1>9, <3>2
    <3>4. QED
      BY <1>8, <3>1, <3>2, <3>3, ThreadFrame DEF NamesInPeace, NameOf
  <2>3. QED
    BY <2>1, <2>2 DEF NamesInPeace
<1>11. SuccessIsSearchable'
  <2>1. SUFFICES ASSUME NEW e \in Entries, detail'[e] = "SUCCESS"
                 PROVE  e \in Indexed'
    BY DEF SuccessIsSearchable
  <2>2. detail[e] = "SUCCESS" \/ (e = Current(j) /\ pc[j] = "mark" /\ doc[j] # "empty")
    BY <2>1, ThreadStatuses
  <2>3. QED
    BY <1>2, <2>2 DEF SuccessIsSearchable, IndexedBeforeMarked
<1>12. SummariesWereIndexed'
  BY <1>2, ThreadFrame DEF SummariesWereIndexed, IndexedBeforeMarked, NameOf
<1>13. DeleteSticks'
  <2>1. SUFFICES ASSUME NEW n \in deleted
                 PROVE  n \notin summaries' /\ \A e \in chunks' : NameOf(e)' # n
    BY ThreadFrame DEF DeleteSticks
  <2>2. \A k \in Jobs : Running(k) => n \notin NamesOf(k)
    BY DEF NamesInPeace
  <2>3. n \notin summaries'
    <3>1. pc[j] = "register" => NameOf(Current(j)) # n
      BY <2>2, CurrentFile DEF Running, Working
    <3>2. QED
      BY <3>1, ThreadFrame DEF DeleteSticks
  <2>4. \A e \in chunks' : NameOf(e)' # n
    BY <1>9, <2>2, ThreadFrame DEF DeleteSticks, NameOf
  <2>5. QED
    BY <2>3, <2>4
<1>14. QED
  BY <1>1, <1>4, <1>5, <1>7, <1>10, <1>11, <1>12, <1>13

-----------------------------------------------------------------------------
LEMMA NextIInv == IInv /\ [Next]_vars => IInv'
<1> SUFFICES ASSUME IInv, [Next]_vars PROVE IInv'
  OBVIOUS
<1>1. CASE CreateCollection \/ DeleteCollection \/ DeleteCollectionSummaries \/ CleanUp
  BY <1>1, HousekeepingStep
<1>2. ASSUME NEW j \in Jobs, (\E fs \in Uploads[j] : Upload(j, fs)) \/ UploadFails(j)
      PROVE  IInv'
  BY <1>2, UploadStep
<1>3. ASSUME NEW j \in Jobs, Submit(j) PROVE IInv'
  BY <1>3, SubmitStep
<1>4. ASSUME NEW n \in Names, DeleteByName(n) PROVE IInv'
  <2>1. (IF n \in named THEN {} ELSE {e \in Entries : tracked[e] # "none" /\ NameOf(e) = n})
          \in SUBSET Entries
    OBVIOUS
  <2>2. {n} \intersect named \in SUBSET Names
    OBVIOUS
  <2>3. QED
    BY <1>4, <2>1, <2>2, StartDeleteStep DEF DeleteByName
<1>5. ASSUME NEW e \in Entries, DeleteById(e) PROVE IInv'
  <2>1. tracked[e] # "none" /\ StartDelete(NameOf(e), {e}, {})
    BY <1>5 DEF DeleteById
  <2>2. NameOf(e) \in Names
    <3>1. e[1] \in Jobs /\ e \in FilesOf(e[1]) /\ pc[e[1]] # "none"
      BY <2>1 DEF IInv, OnlySubmitted, Entries
    <3>2. files[e[1]] \in FileLists
      BY <3>1 DEF IInv, Position
    <3>3. e[2] \in 1..Len(files[e[1]])
      BY <3>1 DEF FilesOf
    <3>4. QED
      BY <3>2, <3>3, ListLength DEF NameOf
  <2>3. QED
    BY <2>1, <2>2, StartDeleteStep
<1>6. CASE DeleteFindsNothing \/ GetChunks \/ Untrack
  BY <1>6, QuietDeleteStep
<1>7. CASE EraseChunks
  BY <1>7, EraseChunksStep
<1>8. CASE Unregister
  BY <1>8, UnregisterStep
<1>9. ASSUME NEW j \in Jobs, Thread(j) PROVE IInv'
  BY <1>9, ThreadStep
<1>10. CASE UNCHANGED vars
  BY <1>10 DEF IInv, TypeOK, Position, PastIsAccounted, IndexedBeforeMarked, OnlySubmitted,
               NamesInPeace, SuccessIsSearchable, SummariesWereIndexed, DeleteSticks, Accounted,
               Running, NamesOf, FilesOf, NameOf, Current, vars, store, tables, threads
<1>11. QED
  BY <1>1, <1>2, <1>3, <1>4, <1>5, <1>6, <1>7, <1>8, <1>9, <1>10 DEF Next, Requests

(* The inductive invariant holds of every upload, deletion and clean-up.      *)
THEOREM Invariance == Spec => []IInv
<1>1. IInv /\ [Next]_vars => IInv'
  BY NextIInv
<1>2. QED
  BY InitIInv, <1>1, PTL DEF Spec

(* Type correctness of all the variables. *)
THEOREM TypeCorrect == Spec => []TypeOK
<1>1. IInv => TypeOK
  BY DEF IInv
<1>2. QED
  BY Invariance, <1>1, PTL

(* A file reported as ingested can be searched unless it has no text or was   *)
(* erased, however many uploads, deletions and clean-ups interleave.          *)
THEOREM IngestedIsSearchable == Spec => []SuccessIsSearchable
<1>1. IInv => SuccessIsSearchable
  BY DEF IInv
<1>2. QED
  BY Invariance, <1>1, PTL

(* A completed job has settled every file of its upload. *)
THEOREM CompletedJobsAccount == Spec => []CompletedIsAccounted
<1>1. IInv => CompletedIsAccounted
  <2>1. SUFFICES ASSUME IInv, NEW j \in Jobs, job[j] = "COMPLETED", NEW e \in FilesOf(j)
                 PROVE  Accounted(e)
    BY DEF CompletedIsAccounted
  <2>2. at[j] > Len(files[j]) /\ pc[j] # "none"
    BY <2>1 DEF IInv, Position
  <2>3. files[j] \in FileLists
    BY <2>1, <2>2 DEF IInv, Position
  <2>4. e \in Entries /\ e[1] = j /\ e[2] \in 1..Len(files[j])
    BY <2>1, <2>3, ListLength, BoundsAssumption DEF FilesOf, Entries
  <2>5. e[2] < at[j]
    BY <2>1, <2>2, <2>3, <2>4, ListLength DEF IInv, TypeOK
  <2>6. QED
    BY <2>1, <2>4, <2>5 DEF IInv, PastIsAccounted
<1>2. QED
  BY Invariance, <1>1, PTL

(* No summary announces a name of which no file ever went into the index.     *)
THEOREM SummariesAnnounceIndexed == Spec => []SummariesWereIndexed
<1>1. IInv => SummariesWereIndexed
  BY DEF IInv
<1>2. QED
  BY Invariance, <1>1, PTL

(* A name deleted in peace stays deleted until it is uploaded again. *)
THEOREM DeletedStaysDeleted == Spec => []DeleteSticks
<1>1. IInv => DeleteSticks
  BY DEF IInv
<1>2. QED
  BY Invariance, <1>1, PTL

-----------------------------------------------------------------------------
(* What a client that polls sees: Ingestion implements IngestionReport.       *)

InLoop == {"extract", "index", "mark", "register", "name", "finish"}

(* The job's status goes with its thread. *)
JobFollowsThread ==
  \A j \in Jobs :
    /\ pc[j] \in {"none", "reading"} => job[j] = "none"
    /\ pc[j] = "submitted" => job[j] = "PENDING"
    /\ pc[j] \in InLoop => job[j] = "PROCESSING"

(* The thread has not come to this file yet. *)
Ahead(e) ==
  /\ e \in FilesOf(e[1])
  /\ \/ pc[e[1]] = "submitted"
     \/ pc[e[1]] = "extract" /\ e[2] = at[e[1]]
     \/ pc[e[1]] \in InLoop /\ e[2] > at[e[1]]

(* The statuses of files go with the thread's position. *)
DetailFollowsThread ==
  \A e \in Entries :
    /\ e \notin FilesOf(e[1]) \/ pc[e[1]] \in {"none", "reading"} => detail[e] = "none"
    /\ Ahead(e) => detail[e] = "UPLOADING"
    /\ e[2] = at[e[1]] /\ pc[e[1]] \in {"index", "mark"} => detail[e] = "INGESTING"

RInv == IInv /\ JobFollowsThread /\ DetailFollowsThread

LEMMA InitRInv == Init => RInv
<1> SUFFICES ASSUME Init PROVE JobFollowsThread /\ DetailFollowsThread
  BY InitIInv DEF RInv
<1> QED
  BY DEF Init, JobFollowsThread, DetailFollowsThread, Ahead, InLoop, Entries

(* The steps of a thread, as far as a client sees them: the job is taken up   *)
(* or fails before its first file, a file is taken up, a file is settled, or  *)
(* the job is completed.                                                      *)
TakesJob(j) ==
  /\ pc[j] = "submitted" /\ at' = at /\ detail' = detail
  /\ \/ pc'[j] = "extract" /\ job' = [job EXCEPT ![j] = "PROCESSING"]
     \/ pc'[j] = "ended" /\ job' = [job EXCEPT ![j] = "FAILED"]

TakesFile(j) ==
  /\ pc[j] = "extract" /\ pc'[j] = "index" /\ at' = at /\ job' = job
  /\ detail' = [detail EXCEPT ![Current(j)] = "INGESTING"]

SettlesFile(j) ==
  /\ pc[j] \in {"extract", "index", "mark"} /\ job' = job
  /\ \E s \in {"SUCCESS", "FAILED"} : detail' = [detail EXCEPT ![Current(j)] = s]
  /\ \/ pc'[j] \in {"extract", "finish"} /\ at'[j] = at[j] + 1
     \/ pc'[j] = "register" /\ at' = at

Unseen(j) ==
  /\ job' = job /\ detail' = detail
  /\ \/ pc[j] = "index" /\ pc'[j] = "mark" /\ at' = at
     \/ pc[j] = "register" /\ pc'[j] = "name" /\ at' = at
     \/ pc[j] = "name" /\ pc'[j] \in {"extract", "finish"} /\ at'[j] = at[j] + 1
     \/ pc[j] = "stamp" /\ pc'[j] = "ended"

Completes(j) ==
  /\ pc[j] = "finish" /\ pc'[j] = "stamp" /\ at' = at /\ detail' = detail
  /\ job' = [job EXCEPT ![j] = "COMPLETED"]

LEMMA ThreadSeen ==
  ASSUME TypeOK, NEW j \in Jobs, Thread(j)
  PROVE  TakesJob(j) \/ TakesFile(j) \/ SettlesFile(j) \/ Unseen(j) \/ Completes(j)
<1> USE DEF TypeOK, tables, Goto
<1>1. CASE OpenCollection(j) \/ JobFails(j)
  BY <1>1 DEF OpenCollection, JobFails, TakesJob
<1>2. CASE Extract(j)
  BY <1>2 DEF Extract, FileFails, UpdateFileStatus, NextFile, TakesFile, SettlesFile
<1>3. CASE IndexFails(j) \/ MarkFile(j)
  BY <1>3 DEF IndexFails, MarkFile, FileFails, UpdateFileStatus, NextFile, SettlesFile
<1>4. CASE IndexFile(j) \/ RegisterSummary(j)
  BY <1>4 DEF IndexFile, RegisterSummary, Unseen
<1>5. CASE TrackName(j)
  BY <1>5 DEF TrackName, NextFile, Unseen
<1>6. CASE UpdateTimestamp(j)
  BY <1>6 DEF UpdateTimestamp, Unseen
<1>7. CASE FinishJob(j)
  BY <1>7 DEF FinishJob, Completes
<1>8. QED
  BY <1>1, <1>2, <1>3, <1>4, <1>5, <1>6, <1>7 DEF Thread

(* A thread's own job and files; those of others it leaves alone. *)
LEMMA ThreadRInv ==
  ASSUME RInv, NEW j \in Jobs, Thread(j)
  PROVE  JobFollowsThread' /\ DetailFollowsThread'
<1> USE DEF RInv, IInv
<1>1. /\ files' = files /\ TypeOK
      /\ \A k \in Jobs : k # j => pc'[k] = pc[k] /\ at'[k] = at[k] /\ job'[k] = job[k]
      /\ \A e \in Entries : e # Current(j) => detail'[e] = detail[e]
  BY ThreadFrame, ThreadStatuses
<1>2. TakesJob(j) \/ TakesFile(j) \/ SettlesFile(j) \/ Unseen(j) \/ Completes(j)
  BY <1>1, ThreadSeen
<1>3. at[j] \in Nat /\ (pc[j] = "submitted" => at[j] = 1)
  BY <1>1 DEF TypeOK, Position
<1>4. JobFollowsThread'
  <2>1. /\ pc'[j] \notin {"none", "reading", "submitted"}
        /\ pc'[j] \in InLoop => job'[j] = "PROCESSING"
    BY <1>1, <1>2 DEF TakesJob, TakesFile, SettlesFile, Unseen, Completes, InLoop,
                      JobFollowsThread, TypeOK
  <2>2. QED
    BY <1>1, <2>1 DEF JobFollowsThread
<1>5. DetailFollowsThread'
  <2>1. SUFFICES ASSUME NEW e \in Entries
                 PROVE  /\ e \notin FilesOf(e[1]) \/ pc'[e[1]] \in {"none", "reading"} =>
                             detail'[e] = "none"
                        /\ Ahead(e)' => detail'[e] = "UPLOADING"
                        /\ e[2] = at'[e[1]] /\ pc'[e[1]] \in {"index", "mark"} =>
                             detail'[e] = "INGESTING"
    BY <1>1 DEF DetailFollowsThread, FilesOf
  <2>2. FilesOf(e[1])' = FilesOf(e[1]) /\ e[1] \in Jobs /\ e[2] \in Nat
    BY <1>1 DEF FilesOf, Entries
  <2>3. /\ e \notin FilesOf(e[1]) \/ pc[e[1]] \in {"none", "reading"} => detail[e] = "none"
        /\ Ahead(e) => detail[e] = "UPLOADING"
        /\ e[2] = at[e[1]] /\ pc[e[1]] \in {"index", "mark"} => detail[e] = "INGESTING"
    BY DEF DetailFollowsThread
  <2>4. CASE e[1] # j
    <3>1. e # Current(j)
      BY <2>4 DEF Current
    <3>2. QED
      BY <1>1, <2>2, <2>3, <2>4, <3>1 DEF Ahead
  <2>5. CASE e[1] = j /\ e[2] # at[j]
    <3>1. e # Current(j)
      BY <2>5 DEF Current
    <3>2. detail'[e] = detail[e] /\ pc'[j] \notin {"none", "reading", "submitted"}
          /\ pc[j] \notin {"none", "reading"}
      BY <1>1, <1>2, <3>1 DEF TakesJob, TakesFile, SettlesFile, Unseen, Completes
    <3>3. Ahead(e)' => Ahead(e)
      BY <1>2, <1>3, <2>2, <2>5, <3>2
         DEF Ahead, TakesJob, TakesFile, SettlesFile, Unseen, Completes, InLoop
    <3>4. ~(e[2] = at'[j] /\ pc'[j] \in {"index", "mark"})
      BY <1>2, <1>3, <2>5 DEF TakesJob, TakesFile, SettlesFile, Unseen, Completes
    <3>5. QED
      BY <2>3, <2>5, <3>2, <3>3, <3>4
  <2>6. CASE e[1] = j /\ e[2] = at[j]
    <3>1. e = Current(j)
      BY <2>6 DEF Current, Entries
    <3>2. pc'[j] \notin {"none", "reading", "submitted"} /\ pc[j] \notin {"none", "reading"}
      BY <1>2 DEF TakesJob, TakesFile, SettlesFile, Unseen, Completes
    <3>3. e \notin FilesOf(j) => detail'[e] = "none"
      <4>1. CASE pc[j] \in {"extract", "index", "mark"}
        BY <1>1, <3>1, <4>1, CurrentFile
      <4>2. CASE pc[j] \notin {"extract", "index", "mark"}
        BY <1>2, <2>3, <2>6, <4>2 DEF TakesJob, TakesFile, SettlesFile, Unseen, Completes
      <4>3. QED
        BY <4>1, <4>2
    <3>4. Ahead(e)' => pc[j] = "submitted" /\ pc'[j] = "extract" /\ e \in FilesOf(j)
      BY <1>2, <1>3, <2>2, <2>6, <3>2
         DEF Ahead, TakesJob, TakesFile, SettlesFile, Unseen, Completes, InLoop
    <3>5. Ahead(e)' => detail'[e] = "UPLOADING"
      BY <1>2, <2>3, <2>6, <3>4 DEF Ahead, TakesJob, TakesFile, SettlesFile, Unseen, Completes
    <3>6. e[2] = at'[j] /\ pc'[j] \in {"index", "mark"} => detail'[e] = "INGESTING"
      BY <1>1, <1>2, <1>3, <2>3, <2>6, <3>1
         DEF TakesJob, TakesFile, SettlesFile, Unseen, Completes, TypeOK
    <3>7. QED
      BY <2>2, <2>6, <3>2, <3>3, <3>5, <3>6
  <2>7. QED
    BY <2>4, <2>5, <2>6
<1>6. QED
  BY <1>4, <1>5


(* A request or the clean-up shows a client nothing, but for a submission.    *)
Elsewhere ==
  \/ CreateCollection \/ DeleteCollection \/ DeleteCollectionSummaries \/ CleanUp
  \/ \E n \in Names : DeleteByName(n)
  \/ \E e \in Entries : DeleteById(e)
  \/ DeleteFindsNothing \/ GetChunks \/ EraseChunks \/ Untrack \/ Unregister
  \/ UNCHANGED vars

LEMMA ElsewhereUnseen ==
  ASSUME Elsewhere
  PROVE  UNCHANGED <<job, detail, pc, at, files>>
<1> USE DEF threads
<1>1. CASE CreateCollection \/ DeleteCollection \/ DeleteCollectionSummaries
  BY <1>1 DEF CreateCollection, DeleteCollection, DeleteCollectionSummaries
<1>2. CASE CleanUp
  BY <1>2 DEF CleanUp, Expire, CleanerLists, CleanerDeletes, CleanerClears
<1>3. CASE (\E n \in Names : DeleteByName(n)) \/ (\E e \in Entries : DeleteById(e))
  BY <1>3 DEF DeleteByName, DeleteById, StartDelete
<1>4. CASE DeleteFindsNothing \/ GetChunks \/ EraseChunks \/ Untrack \/ Unregister
  BY <1>4 DEF DeleteFindsNothing, GetChunks, EraseChunks, Untrack, Unregister
<1>5. CASE UNCHANGED vars
  BY <1>5 DEF vars
<1>6. QED
  BY <1>1, <1>2, <1>3, <1>4, <1>5 DEF Elsewhere

(* Before its submission an upload has neither status nor files' statuses.    *)
LEMMA UploadRInv ==
  ASSUME RInv, NEW j \in Jobs,
         (\E fs \in Uploads[j] : Upload(j, fs)) \/ UploadFails(j) \/ Submit(j)
  PROVE  JobFollowsThread' /\ DetailFollowsThread'
<1> USE DEF RInv, IInv
<1>1. CASE (\E fs \in Uploads[j] : Upload(j, fs)) \/ UploadFails(j)
  <2>1. /\ UNCHANGED <<job, detail, at>> /\ pc[j] \in {"none", "reading"}
        /\ pc'[j] \in {"reading", "ended"}
        /\ \A k \in Jobs : k # j => pc'[k] = pc[k] /\ files'[k] = files[k]
    BY <1>1 DEF Upload, UploadFails, TypeOK
  <2>2. JobFollowsThread'
    BY <2>1 DEF JobFollowsThread, InLoop
  <2>3. ASSUME NEW e \in Entries, e[1] = j
        PROVE  detail'[e] = "none" /\ ~Ahead(e)' /\ pc'[j] \notin {"index", "mark"}
    BY <2>1, <2>3 DEF DetailFollowsThread, Ahead, InLoop
  <2>4. ASSUME NEW e \in Entries, e[1] # j
        PROVE  pc'[e[1]] = pc[e[1]] /\ FilesOf(e[1])' = FilesOf(e[1]) /\ (Ahead(e)' <=> Ahead(e))
    BY <2>1, <2>4 DEF Entries, FilesOf, Ahead
  <2>5. QED
    BY <2>1, <2>2, <2>3, <2>4 DEF DetailFollowsThread
<1>2. CASE Submit(j)
  <2>1. /\ pc[j] = "reading" /\ files' = files /\ at' = at
        /\ job' = [job EXCEPT ![j] = "PENDING"] /\ pc' = [pc EXCEPT ![j] = "submitted"]
        /\ detail' = [e \in Entries |-> IF e \in FilesOf(j) THEN "UPLOADING" ELSE detail[e]]
    BY <1>2 DEF Submit
  <2>2. JobFollowsThread'
    BY <2>1 DEF JobFollowsThread, TypeOK, InLoop
  <2>3. \A e \in FilesOf(j) : e[1] = j
    BY DEF FilesOf
  <2>4. \A k \in Jobs : FilesOf(k)' = FilesOf(k)
    BY <2>1 DEF FilesOf
  <2>5. ASSUME NEW e \in Entries, e[1] = j
        PROVE  /\ e \notin FilesOf(j) => detail'[e] = "none"
               /\ e \in FilesOf(j) => detail'[e] = "UPLOADING"
               /\ pc'[j] = "submitted"
    BY <2>1, <2>5 DEF DetailFollowsThread, TypeOK
  <2>6. ASSUME NEW e \in Entries, e[1] # j
        PROVE  pc'[e[1]] = pc[e[1]] /\ detail'[e] = detail[e] /\ (Ahead(e)' <=> Ahead(e))
    BY <2>1, <2>3, <2>4, <2>6 DEF Ahead, Entries, TypeOK
  <2>7. \A e \in Entries : e[1] \in Jobs
    BY DEF Entries
  <2>8. DetailFollowsThread'
    <3>1. SUFFICES ASSUME NEW e \in Entries
                   PROVE  /\ e \notin FilesOf(e[1]) \/ pc'[e[1]] \in {"none", "reading"} =>
                               detail'[e] = "none"
                          /\ Ahead(e)' => detail'[e] = "UPLOADING"
                          /\ e[2] = at'[e[1]] /\ pc'[e[1]] \in {"index", "mark"} =>
                               detail'[e] = "INGESTING"
      BY <2>4, <2>7 DEF DetailFollowsThread
    <3>2. CASE e[1] = j
      BY <2>4, <2>5, <3>2 DEF Ahead
    <3>3. CASE e[1] # j
      BY <2>1, <2>6, <3>3 DEF DetailFollowsThread
    <3>4. QED
      BY <3>2, <3>3
  <2>9. QED
    BY <2>2, <2>8
<1>3. QED
  BY <1>1, <1>2

LEMMA NextRInv == RInv /\ [Next]_vars => RInv'
<1> SUFFICES ASSUME RInv, [Next]_vars PROVE JobFollowsThread' /\ DetailFollowsThread'
  BY NextIInv DEF RInv
<1>1. CASE Elsewhere
  BY <1>1, ElsewhereUnseen DEF RInv, JobFollowsThread, DetailFollowsThread, Ahead, FilesOf
<1>2. ASSUME NEW j \in Jobs,
             (\E fs \in Uploads[j] : Upload(j, fs)) \/ UploadFails(j) \/ Submit(j)
      PROVE  JobFollowsThread' /\ DetailFollowsThread'
  BY <1>2, UploadRInv
<1>3. ASSUME NEW j \in Jobs, Thread(j) PROVE JobFollowsThread' /\ DetailFollowsThread'
  BY <1>3, ThreadRInv
<1>4. QED
  BY <1>1, <1>2, <1>3 DEF Next, Requests, Elsewhere

(* The files of an upload are some of those the abstract specification gives  *)
(* its job, and there is one.                                                 *)
LEMMA FilesAreOf ==
  ASSUME TypeOK, NEW j \in Jobs, files[j] \in FileLists
  PROVE  FilesOf(j) \in SUBSET Report!Of(j) /\ FilesOf(j) # {}
<1>1. Len(files[j]) \in 1..MaxFiles
  BY ListLength
<1>2. FilesOf(j) \subseteq Report!Of(j)
  BY <1>1, BoundsAssumption DEF FilesOf, Report!Of, Entries
<1>3. <<j, 1>> \in FilesOf(j)
  BY <1>1, BoundsAssumption DEF FilesOf
<1>4. QED
  BY <1>2, <1>3

(* Every step of a thread that a client sees moves its own job on.            *)
LEMMA ThreadReports ==
  ASSUME RInv, NEW j \in Jobs, Thread(j)
  PROVE  Report!Progress(j) \/ UNCHANGED <<job, detail>>
<1> USE DEF RInv, IInv
<1>1. TypeOK /\ TypeOK'
  BY NextIInv DEF Next
<1>2. TakesJob(j) \/ TakesFile(j) \/ SettlesFile(j) \/ Unseen(j) \/ Completes(j)
  BY ThreadSeen
<1>3. CASE Unseen(j)
  BY <1>3 DEF Unseen
<1>4. ASSUME ~Unseen(j)
      PROVE  /\ job[j] \in {"PENDING", "PROCESSING"}
             /\ \E s \in {job[j], "PROCESSING"} \cup Report!Over : job' = [job EXCEPT ![j] = s]
  <2>1. job[j] \in {"PENDING", "PROCESSING"}
    BY <1>2, <1>4 DEF TakesJob, TakesFile, SettlesFile, Completes, JobFollowsThread, InLoop
  <2>2. job' = [job EXCEPT ![j] = job[j]] \/ job' # job
    BY <1>1 DEF TypeOK
  <2>3. QED
    BY <1>2, <1>4, <2>1, <2>2 DEF TakesJob, TakesFile, SettlesFile, Completes, Report!Over
<1>5. ASSUME NEW e \in Entries, detail'[e] # detail[e]
      PROVE  e \in Report!Of(j) /\ detail'[e] \in Report!Later(detail[e])
  <2>1. CASE TakesFile(j) \/ SettlesFile(j)
    <3>1. e = Current(j) /\ e \in FilesOf(j) /\ e[1] = j /\ e[2] = at[j]
      BY <1>5, <2>1, ThreadStatuses, CurrentFile DEF TakesFile, SettlesFile
    <3>2. detail[e] \in {"UPLOADING", "INGESTING"}
      BY <2>1, <3>1 DEF TakesFile, SettlesFile, DetailFollowsThread, Ahead
    <3>3. detail'[e] \in {"INGESTING", "SUCCESS", "FAILED"}
          /\ (detail[e] = "INGESTING" => detail'[e] # detail[e])
      BY <1>1, <1>5, <2>1, <3>1 DEF TakesFile, SettlesFile, TypeOK
    <3>4. QED
      BY <3>1, <3>2, <3>3 DEF Report!Later, Report!Of
  <2>2. QED
    BY <1>2, <1>5, <2>1 DEF TakesJob, Unseen, Completes
<1>6. \A e \in Entries :
        detail'[e] \in IF e \in Report!Of(j) THEN Report!Later(detail[e]) ELSE {detail[e]}
  <2>1. ASSUME NEW e \in Entries, detail'[e] = detail[e] PROVE detail'[e] \in Report!Later(detail[e])
    BY <2>1 DEF Report!Later
  <2>2. QED
    BY <1>5, <2>1
<1>7. ASSUME job'[j] = "COMPLETED", NEW e \in Report!Of(j), ~Unseen(j)
      PROVE  detail'[e] \notin {"UPLOADING", "INGESTING"}
  <2>1. Completes(j)
    BY <1>1, <1>2, <1>7 DEF TakesJob, TakesFile, SettlesFile, JobFollowsThread, InLoop, TypeOK
  <2>2. e \in Entries /\ e[1] = j /\ e[2] \in 1..MaxFiles
    BY DEF Report!Of, Entries
  <2>3. at[j] > Len(files[j]) /\ files[j] \in FileLists
    BY <2>1 DEF Completes, Position
  <2>4. CASE e \in FilesOf(j)
    <3>1. e[2] < at[j]
      BY <1>1, <2>2, <2>3, <2>4, ListLength DEF FilesOf, TypeOK
    <3>2. Accounted(e)
      BY <2>2, <3>1 DEF PastIsAccounted
    <3>3. QED
      BY <2>1, <3>2 DEF Accounted, Completes
  <2>5. CASE e \notin FilesOf(j)
    BY <2>1, <2>2, <2>5 DEF DetailFollowsThread, Completes
  <2>6. QED
    BY <2>4, <2>5
<1>8. DOMAIN detail' = Entries
  BY <1>1 DEF TypeOK
<1>9. QED
  BY <1>3, <1>4, <1>6, <1>7, <1>8 DEF Report!Progress

LEMMA StepReports == RInv /\ [Next]_vars => [Report!ReportNext]_(Report!reportVars)
<1> SUFFICES ASSUME RInv, [Next]_vars PROVE Report!ReportNext \/ UNCHANGED <<job, detail>>
  BY DEF Report!reportVars
<1>1. CASE Elsewhere
  BY <1>1, ElsewhereUnseen
<1>2. ASSUME NEW j \in Jobs, (\E fs \in Uploads[j] : Upload(j, fs)) \/ UploadFails(j)
      PROVE  UNCHANGED <<job, detail>>
  BY <1>2 DEF Upload, UploadFails
<1>3. ASSUME NEW j \in Jobs, Submit(j) PROVE Report!Submit(j)
  <2>1. job[j] = "none" /\ files[j] \in FileLists
    BY <1>3 DEF Submit, RInv, IInv, JobFollowsThread, Position
  <2>2. FilesOf(j) \in SUBSET Report!Of(j) /\ FilesOf(j) # {}
    BY <2>1, FilesAreOf DEF RInv, IInv
  <2>3. QED
    BY <1>3, <2>1, <2>2 DEF Submit, Report!Submit
<1>4. ASSUME NEW j \in Jobs, Thread(j) PROVE Report!Progress(j) \/ UNCHANGED <<job, detail>>
  BY <1>4, ThreadReports
<1>5. QED
  BY <1>1, <1>2, <1>3, <1>4 DEF Next, Requests, Elsewhere, Report!ReportNext

(* Whatever uploads, deletions and clean-ups do to each other, a client that  *)
(* polls sees jobs and files go forward only, and a completed job with every  *)
(* file settled.                                                              *)
THEOREM UploadsReport == Spec => ReportSpec
<1>1. Init => Report!ReportInit
  BY DEF Init, Report!ReportInit
<1>2. QED
  BY InitRInv, NextRInv, StepReports, <1>1, PTL DEF Spec, ReportSpec, Report!ReportSpec

(* A job that is over changes no more, nor does what it says of its files:    *)
(* not by its own thread, which has the time stamp to write yet, and not by   *)
(* a deletion of its files, nor when the collection is gone or made again.    *)
JobIsFinal(j) ==
  job[j] \in {"COMPLETED", "FAILED"} =>
    job'[j] = job[j] /\ \A e \in FilesOf(j) \cap Entries : detail'[e] = detail[e]

OverIsFinal == \A j \in Jobs : JobIsFinal(j)

LEMMA ThreadLeavesFinal ==
  ASSUME RInv, NEW k \in Jobs, Thread(k), NEW j \in Jobs
  PROVE  JobIsFinal(j)
<1> USE DEF RInv, IInv
<1>1. CASE j # k
  <2>1. \A e \in FilesOf(j) : e # Current(k)
    BY <1>1 DEF FilesOf, Current
  <2>2. QED
    BY <1>1, <2>1, ThreadFrame, ThreadStatuses DEF JobIsFinal
<1>2. CASE j = k
  <2>1. TakesJob(j) \/ TakesFile(j) \/ SettlesFile(j) \/ Unseen(j) \/ Completes(j)
    BY <1>2, ThreadSeen
  <2>2. job[j] \in {"COMPLETED", "FAILED"} => Unseen(j)
    BY <2>1 DEF TakesJob, TakesFile, SettlesFile, Completes, JobFollowsThread, InLoop
  <2>3. QED
    BY <2>2 DEF JobIsFinal, Unseen
<1>3. QED
  BY <1>1, <1>2

(* A finished upload is final, whatever is still running or requested.        *)
THEOREM FinishedIsFinal == Spec => [][OverIsFinal]_vars
<1>1. ASSUME RInv, Next, NEW j \in Jobs PROVE JobIsFinal(j)
  <2>1. CASE Elsewhere
    BY <2>1, ElsewhereUnseen DEF JobIsFinal
  <2>2. ASSUME NEW k \in Jobs, (\E fs \in Uploads[k] : Upload(k, fs)) \/ UploadFails(k)
        PROVE  JobIsFinal(j)
    BY <2>2 DEF Upload, UploadFails, JobIsFinal
  <2>3. ASSUME NEW k \in Jobs, Submit(k) PROVE JobIsFinal(j)
    <3>1. job[k] = "none" /\ job' = [job EXCEPT ![k] = "PENDING"]
      BY <1>1, <2>3 DEF Submit, RInv, JobFollowsThread
    <3>2. j # k => \A e \in FilesOf(j) : e \notin FilesOf(k)
      BY DEF FilesOf
    <3>3. /\ job[j] \in {"COMPLETED", "FAILED"} => j # k /\ job'[j] = job[j]
          /\ \A e \in Entries : e \notin FilesOf(k) => detail'[e] = detail[e]
      BY <1>1, <2>3, <3>1 DEF Submit, RInv, IInv, TypeOK
    <3>4. QED
      BY <3>2, <3>3 DEF JobIsFinal
  <2>4. ASSUME NEW k \in Jobs, Thread(k) PROVE JobIsFinal(j)
    BY <1>1, <2>4, ThreadLeavesFinal
  <2>5. QED
    BY <1>1, <2>1, <2>2, <2>3, <2>4 DEF Next, Requests, Elsewhere
<1>2. RInv /\ [Next]_vars => [OverIsFinal]_vars
  BY <1>1 DEF OverIsFinal
<1>3. QED
  BY <1>2, InitRInv, NextRInv, PTL DEF Spec

-----------------------------------------------------------------------------
(* Why an upload comes to its end: the module assumes no fairness, but with   *)
(* each call of its libraries that returns or raises a thread comes nearer to *)
(* its end, and nobody else moves it.  It goes through the files of its list  *)
(* in order, and through the stages of each without turning back.             *)
Stages == <<"submitted", "extract", "index", "mark", "register", "name", "finish", "stamp", "ended">>
Precedes(l, m) == \E i, k \in 1..9 : i < k /\ Stages[i] = l /\ Stages[k] = m

Onward(j) ==
  \/ at[j] <= Len(files[j]) /\ at'[j] = at[j] + 1
  \/ at'[j] = at[j] /\ Precedes(pc[j], pc'[j])

ThreadsGoOn ==
  \A j \in Jobs :
    /\ Thread(j) => Onward(j) /\ files' = files
    /\ pc[j] \in Working \union {"stamp"} /\ ~Thread(j) =>
         pc'[j] = pc[j] /\ at'[j] = at[j] /\ files'[j] = files[j]

LEMMA ThreadGoesOn ==
  ASSUME IInv, NEW j \in Jobs, Thread(j)
  PROVE  Onward(j) /\ files' = files
<1> USE DEF IInv
<1>1. TakesJob(j) \/ TakesFile(j) \/ SettlesFile(j) \/ Unseen(j) \/ Completes(j)
  BY ThreadSeen
<1>2. pc[j] \in {"extract", "index", "mark", "name"} => at[j] <= Len(files[j])
  BY DEF Position
<1>3. /\ Precedes("submitted", "extract") /\ Precedes("submitted", "ended")
      /\ Precedes("extract", "index") /\ Precedes("index", "mark") /\ Precedes("mark", "register")
      /\ Precedes("register", "name") /\ Precedes("finish", "stamp") /\ Precedes("stamp", "ended")
  BY DEF Precedes, Stages
<1>4. Onward(j)
  <2>1. CASE TakesJob(j)
    BY <1>3, <2>1 DEF TakesJob, Onward
  <2>2. CASE TakesFile(j)
    BY <1>3, <2>2 DEF TakesFile, Onward
  <2>3. CASE SettlesFile(j)
    <3>1. pc[j] = "mark" \/ pc'[j] # "register"
      BY ThreadStatuses
    <3>2. QED
      BY <1>2, <1>3, <2>3, <3>1 DEF SettlesFile, Onward
  <2>4. CASE Unseen(j)
    <3>1. pc[j] = "stamp" => at' = at
      BY DEF Thread, OpenCollection, JobFails, Extract, IndexFile, IndexFails, MarkFile,
             RegisterSummary, TrackName, FinishJob, UpdateTimestamp
    <3>2. QED
      BY <1>2, <1>3, <2>4, <3>1 DEF Unseen, Onward
  <2>5. CASE Completes(j)
    BY <1>3, <2>5 DEF Completes, Onward
  <2>6. QED
    BY <1>1, <2>1, <2>2, <2>3, <2>4, <2>5
<1>5. QED
  BY <1>4, ThreadFrame

(* Threads go on to their end, however many there are and whatever fails.     *)
THEOREM ThreadsRunOut == Spec => [][ThreadsGoOn]_vars
<1>1. ASSUME IInv, Next, NEW j \in Jobs, pc[j] \in Working \union {"stamp"}, ~Thread(j)
      PROVE  pc'[j] = pc[j] /\ at'[j] = at[j] /\ files'[j] = files[j]
  <2>1. CASE Elsewhere
    BY <2>1, ElsewhereUnseen
  <2>2. ASSUME NEW k \in Jobs, (\E fs \in Uploads[k] : Upload(k, fs)) \/ UploadFails(k) \/ Submit(k)
        PROVE  pc'[j] = pc[j] /\ at'[j] = at[j] /\ files'[j] = files[j]
    <3>1. k # j
      BY <1>1, <2>2 DEF Upload, UploadFails, Submit, Working
    <3>2. CASE \E fs \in Uploads[k] : Upload(k, fs)
      <4>1. PICK fs \in Uploads[k] : Upload(k, fs)
        BY <3>2
      <4>2. QED
        BY <1>1, <3>1, <4>1 DEF Upload, IInv, TypeOK
    <3>3. CASE UploadFails(k) \/ Submit(k)
      BY <1>1, <3>1, <3>3 DEF UploadFails, Submit, IInv, TypeOK
    <3>4. QED
      BY <2>2, <3>2, <3>3
  <2>3. ASSUME NEW k \in Jobs, Thread(k)
        PROVE  pc'[j] = pc[j] /\ at'[j] = at[j] /\ files'[j] = files[j]
    <3>1. k # j
      BY <1>1, <2>3
    <3>2. QED
      BY <1>1, <2>3, <3>1, ThreadFrame
  <2>4. QED
    BY <1>1, <2>1, <2>2, <2>3 DEF Next, Requests, Elsewhere
<1>2. IInv /\ [Next]_vars => [ThreadsGoOn]_vars
  BY <1>1, ThreadGoesOn DEF ThreadsGoOn
<1>3. QED
  BY <1>2, Invariance, PTL DEF Spec
=============================================================================
