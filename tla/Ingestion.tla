------------------------------ MODULE Ingestion ------------------------------
(* Document ingestion of the LlamaIndex knowledge backend: adapter.py, with   *)
(* the REST routes that call it (routes/documents.py, routes/collections.py)  *)
(* and the time-to-live clean-up of knowledge/base.py, for one collection.    *)
(*                                                                            *)
(* The routes are coroutines that call the ingestor without awaiting, so      *)
(* between its awaits a request has the event loop for itself (op).  Every    *)
(* upload starts a thread of its own, and the clean-up has one too: all of    *)
(* them share ChromaDB, the table of summaries and the dict self._files,      *)
(* each call of which is one atomic step.  A collection that is deleted and   *)
(* made again is another one: calls on the old object raise.                  *)
(*                                                                            *)
(* A file's chunks are one element of chunks; a file whose documents hold no  *)
(* text has none.  MaxFiles bounds the files of an upload, MaxCreated the     *)
(* collections that requests create and MaxDeletes the requests that delete;  *)
(* Uploads[j] are the lists of names j may upload, and Contents[e] is what    *)
(* the file e of an upload may be found to hold.                              *)
EXTENDS Integers, Sequences, FiniteSets

CONSTANTS Jobs, Names, MaxFiles, Uploads, Contents, MaxCreated, MaxDeletes

FileLists == UNION {[1..n -> Names] : n \in 1..MaxFiles}

ASSUME NamesAssumption == Names # {}
ASSUME UploadsAssumption == Uploads \in [Jobs -> SUBSET FileLists]
ASSUME BoundsAssumption == MaxFiles \in Nat \ {0} /\ MaxCreated \in Nat /\ MaxDeletes \in Nat

VARIABLES
  coll,       \* the collection that has the name now, 0 when none has
  created,    \* collections made so far
  stamp,      \* its updated_at: "none", "fresh" or "old" (past the TTL)
  chunks,     \* files whose chunks it holds
  summaries,  \* names in the table of summaries
  tracked,    \* self._files under file IDs: status, or "none"
  named,      \* self._files under file names (the summary's fall-back)
  job,        \* self._jobs: status, or "none"
  files,      \* the names of the files of each upload
  detail,     \* job.file_details: status of each file
  pc, at,     \* the ingestion thread: where it is, and its file
  doc,        \* what it extracted from that file
  handle,     \* the collection it opened
  index,      \* whether its local variable index is bound
  op, del,    \* the request that holds the event loop: its step, its locals
  deletes,    \* deletions requested so far
  cleaner,    \* the clean-up thread
  gone,       \* history: files whose chunks were erased
  blank,      \* history: files indexed without a chunk, for want of text
  deleted     \* history: names deleted in peace and not uploaded since

store == <<coll, created, stamp, chunks, gone, blank>>
tables == <<summaries, tracked, named>>
threads == <<job, files, detail, pc, at, doc, handle, index>>
vars == <<store, tables, threads, op, del, deletes, cleaner, deleted>>

Entries == Jobs \X (1..MaxFiles)
FilesOf(j) == {<<j, i>> : i \in 1..Len(files[j])}
NameOf(e) == files[e[1]][e[2]]
NamesOf(j) == {NameOf(e) : e \in FilesOf(j)}
Current(j) == <<j, at[j]>>

(* What a file may be found to hold: no document, blank ones, or some text.   *)
Documents == {"empty", "blank", "text"}

ASSUME ContentsAssumption == Contents \in [Entries -> SUBSET Documents]

Statuses == {"UPLOADING", "INGESTING", "SUCCESS", "FAILED"}
Working == {"submitted", "extract", "index", "mark", "register", "name", "finish"}
Running(j) == pc[j] \in Working

NoDelete == [name |-> CHOOSE n \in Names : TRUE, ids |-> {}, keys |-> {},
             hits |-> {}, handle |-> 0, quiet |-> FALSE]

Init ==
  /\ coll = 0 /\ created = 0 /\ stamp = "none" /\ chunks = {} /\ gone = {} /\ blank = {}
  /\ summaries = {} /\ named = {} /\ deleted = {}
  /\ tracked = [e \in Entries |-> "none"] /\ detail = [e \in Entries |-> "none"]
  /\ job = [j \in Jobs |-> "none"] /\ files = [j \in Jobs |-> <<>>]
  /\ pc = [j \in Jobs |-> "none"] /\ at = [j \in Jobs |-> 1]
  /\ doc = [j \in Jobs |-> "none"] /\ handle = [j \in Jobs |-> 0]
  /\ index = [j \in Jobs |-> FALSE]
  /\ op = "free" /\ del = NoDelete /\ deletes = 0 /\ cleaner = "idle"

-----------------------------------------------------------------------------
(* Requests on collections. *)

MakeCollection(s) ==
  /\ created' = created + 1
  /\ coll' = created'
  /\ stamp' = s
  /\ UNCHANGED <<chunks, gone, blank>>

(* POST /collections; creating one that exists changes nothing. *)
CreateCollection ==
  /\ op = "free" /\ coll = 0 /\ created < MaxCreated
  /\ MakeCollection("fresh")
  /\ UNCHANGED <<tables, threads, op, del, deletes, cleaner, deleted>>

CountDelete == deletes < MaxDeletes /\ deletes' = deletes + 1

EraseCollection ==
  /\ coll' = 0 /\ stamp' = "none" /\ chunks' = {}
  /\ gone' = gone \union chunks
  /\ UNCHANGED <<created, blank>>

(* A failure of the table of summaries is logged and ignored. *)
ClearSummaries ==
  /\ \/ summaries' = {}
     \/ UNCHANGED summaries
  /\ UNCHANGED <<tracked, named>>

(* DELETE /collections/name: the collection, then its summaries. *)
DeleteCollection ==
  /\ op = "free" /\ coll # 0 /\ CountDelete
  /\ EraseCollection
  /\ op' = "clear"
  /\ UNCHANGED <<tables, threads, del, cleaner, deleted>>

DeleteCollectionSummaries ==
  /\ op = "clear"
  /\ ClearSummaries
  /\ op' = "free"
  /\ UNCHANGED <<store, threads, del, deletes, cleaner, deleted>>

-----------------------------------------------------------------------------
(* The clean-up thread: list the collections, then delete the expired one.    *)

(* Twenty-four hours without an update; no upload or ingestion takes that long. *)
Expire ==
  /\ stamp = "fresh" /\ \A j \in Jobs : pc[j] # "reading" /\ ~Running(j)
  /\ stamp' = "old"
  /\ UNCHANGED <<coll, created, chunks, gone, blank, tables, threads,
                 op, del, deletes, cleaner, deleted>>

CleanerLists ==
  /\ cleaner = "idle" /\ coll # 0 /\ stamp = "old"
  /\ cleaner' = "expired"
  /\ UNCHANGED <<store, tables, threads, op, del, deletes, deleted>>

CleanerDeletes ==
  /\ cleaner = "expired"
  /\ \/ coll # 0 /\ EraseCollection /\ cleaner' = "clear"
     \/ coll = 0 /\ cleaner' = "idle" /\ UNCHANGED store
  /\ UNCHANGED <<tables, threads, op, del, deletes, deleted>>

CleanerClears ==
  /\ cleaner = "clear"
  /\ ClearSummaries
  /\ cleaner' = "idle"
  /\ UNCHANGED <<store, threads, op, del, deletes, deleted>>

-----------------------------------------------------------------------------
(* POST /documents: check the collection, read the files (await), submit.     *)

Upload(j, fs) ==
  /\ op = "free" /\ pc[j] = "none" /\ coll # 0
  /\ files' = [files EXCEPT ![j] = fs]
  /\ pc' = [pc EXCEPT ![j] = "reading"]
  /\ UNCHANGED <<store, tables, job, detail, at, doc, handle, index, op, del, deletes, cleaner, deleted>>

(* Reading a file raises: nothing is submitted. *)
UploadFails(j) ==
  /\ op = "free" /\ pc[j] = "reading"
  /\ pc' = [pc EXCEPT ![j] = "ended"]
  /\ UNCHANGED <<store, tables, job, files, detail, at, doc, handle, index, op, del, deletes, cleaner, deleted>>

Submit(j) ==
  /\ op = "free" /\ pc[j] = "reading"
  /\ detail' = [e \in Entries |-> IF e \in FilesOf(j) THEN "UPLOADING" ELSE detail[e]]
  /\ tracked' = [e \in Entries |-> IF e \in FilesOf(j) THEN "UPLOADING" ELSE tracked[e]]
  /\ job' = [job EXCEPT ![j] = "PENDING"]
  /\ pc' = [pc EXCEPT ![j] = "submitted"]
  /\ deleted' = deleted \ NamesOf(j)
  /\ UNCHANGED <<store, summaries, named, files, at, doc, handle, index, op, del, deletes, cleaner>>

-----------------------------------------------------------------------------
(* The thread of an upload: _run_ingestion.                                   *)

Goto(j, l) == pc' = [pc EXCEPT ![j] = l]

(* Mutant: self._files is not kept in step. *)
UpdateFileStatusUntracked(e, s) ==
  /\ detail' = [detail EXCEPT ![e] = s]
  /\ UNCHANGED tracked

(* _update_file_status: the job's detail and, while it is tracked, self._files. *)
UpdateFileStatus(e, s) ==
  /\ detail' = [detail EXCEPT ![e] = s]
  /\ tracked' = [tracked EXCEPT ![e] = IF @ = "none" THEN @ ELSE s]

(* Mutant: the last file of an upload is left out. *)
NextFileShort(j) ==
  /\ at' = [at EXCEPT ![j] = @ + 1]
  /\ Goto(j, IF at[j] + 1 < Len(files[j]) THEN "extract" ELSE "finish")

NextFile(j) ==
  /\ at' = [at EXCEPT ![j] = @ + 1]
  /\ Goto(j, IF at[j] < Len(files[j]) THEN "extract" ELSE "finish")

(* The except clause of the loop over the files. *)
FileFails(j) ==
  /\ UpdateFileStatus(Current(j), "FAILED")
  /\ NextFile(j)
  /\ UNCHANGED <<summaries, named, job, files, handle>>

(* get_or_create_collection; one made here has no updated_at. *)
OpenCollection(j) ==
  /\ pc[j] = "submitted"
  /\ job' = [job EXCEPT ![j] = "PROCESSING"]
  /\ \/ coll # 0 /\ UNCHANGED store
     \/ coll = 0 /\ MakeCollection("none")
  /\ handle' = [handle EXCEPT ![j] = coll']
  /\ Goto(j, "extract")
  /\ UNCHANGED <<tables, files, detail, at, doc, index, op, del, deletes, cleaner, deleted>>

(* Whatever is raised before the loop ends the job, not its files' details. *)
JobFails(j) ==
  /\ pc[j] = "submitted"
  /\ job' = [job EXCEPT ![j] = "FAILED"]
  /\ Goto(j, "ended")
  /\ UNCHANGED <<store, tables, files, detail, at, doc, handle, index, op, del, deletes, cleaner, deleted>>

(* Mutant: the summary is registered as soon as there is one. *)
ExtractRegisters(j) ==
  /\ pc[j] = "extract"
  /\ summaries' = summaries \union {NameOf(Current(j))}
  /\ doc' = [doc EXCEPT ![j] = "text"]
  /\ detail' = [detail EXCEPT ![Current(j)] = "INGESTING"]
  /\ Goto(j, "index")
  /\ UNCHANGED <<store, tracked, named, job, files, at, handle, index,
                 op, del, deletes, cleaner, deleted>>

(* Documents with text, blank ones, no document at all, or an exception.  *)
Extract(j) ==
  /\ pc[j] = "extract"
  /\ \/ /\ doc' = [doc EXCEPT ![j] = "none"]
        /\ FileFails(j)
     \/ \E d \in Documents :
          /\ d \in Contents[Current(j)]
          /\ doc' = [doc EXCEPT ![j] = d]
          /\ detail' = [detail EXCEPT ![Current(j)] = "INGESTING"]
          /\ Goto(j, "index")
          /\ UNCHANGED <<tables, job, files, at, handle>>
  /\ UNCHANGED <<store, index, op, del, deletes, cleaner, deleted>>

(* The first file makes the index, the others insert their documents into it. *)
(* The splitter makes no node of a document without text, so only text needs  *)
(* the collection, and a file without documents not even the index.           *)
CanIndex(j) ==
  /\ doc[j] # "empty" => at[j] = 1 \/ index[j]
  /\ doc[j] = "text" => handle[j] = coll

IndexFile(j) ==
  /\ pc[j] = "index" /\ CanIndex(j)
  /\ chunks' = IF doc[j] = "text" THEN chunks \union {Current(j)} ELSE chunks
  /\ blank' = IF doc[j] = "blank" THEN blank \union {Current(j)} ELSE blank
  /\ index' = [index EXCEPT ![j] = @ \/ at[j] = 1]
  /\ Goto(j, "mark")
  /\ UNCHANGED <<coll, created, stamp, gone, tables, job, files, detail, at, doc, handle,
                 op, del, deletes, cleaner, deleted>>

(* Mutant: the exception is logged and the loop goes on. *)
IndexFailsQuietly(j) ==
  /\ pc[j] = "index" /\ doc[j] = "text"
  /\ Goto(j, "mark")
  /\ UNCHANGED <<store, tables, job, files, detail, at, doc, handle, index,
                 op, del, deletes, cleaner, deleted>>

(* Embedding or ChromaDB raises, perhaps after some chunks were inserted, or  *)
(* there is no index to insert into.                                          *)
IndexFails(j) ==
  /\ pc[j] = "index" /\ (doc[j] = "text" \/ ~CanIndex(j))
  /\ \/ CanIndex(j) /\ chunks' = chunks \union {Current(j)}
     \/ UNCHANGED chunks
  /\ doc' = [doc EXCEPT ![j] = "none"]
  /\ FileFails(j)
  /\ UNCHANGED <<coll, created, stamp, gone, blank, index, op, del, deletes, cleaner, deleted>>

(* Success is decided on the number of documents, not of chunks, and where    *)
(* there are any the LLM may have made a summary, of blank ones as well.      *)
MarkFile(j) ==
  /\ pc[j] = "mark"
  /\ UpdateFileStatus(Current(j), IF doc[j] = "empty" THEN "FAILED" ELSE "SUCCESS")
  /\ doc' = [doc EXCEPT ![j] = "none"]
  /\ \/ doc[j] # "empty" /\ Goto(j, "register") /\ UNCHANGED at
     \/ NextFile(j)
  /\ UNCHANGED <<store, summaries, named, job, files, handle, index, op, del, deletes, cleaner, deleted>>

(* register_summary; a failure of the table is logged and ignored. *)
RegisterSummary(j) ==
  /\ pc[j] = "register"
  /\ \/ summaries' = summaries \union {NameOf(Current(j))}
     \/ UNCHANGED summaries
  /\ Goto(j, "name")
  /\ UNCHANGED <<store, tracked, named, job, files, detail, at, doc, handle, index,
                 op, del, deletes, cleaner, deleted>>

(* An upload's config has no file_id: the summary goes under the file's name. *)
TrackName(j) ==
  /\ pc[j] = "name"
  /\ named' = named \union {NameOf(Current(j))}
  /\ NextFile(j)
  /\ UNCHANGED <<store, summaries, tracked, job, files, detail, doc, handle, index,
                 op, del, deletes, cleaner, deleted>>

(* Its index and its handle on the collection are not used any more. *)
FinishJob(j) ==
  /\ pc[j] = "finish"
  /\ job' = [job EXCEPT ![j] = "COMPLETED"]
  /\ handle' = [handle EXCEPT ![j] = 0] /\ index' = [index EXCEPT ![j] = FALSE]
  /\ Goto(j, "stamp")
  /\ UNCHANGED <<store, tables, files, detail, at, doc, op, del, deletes, cleaner, deleted>>

(* _update_collection_timestamp, by name; its failure is logged and ignored. *)
UpdateTimestamp(j) ==
  /\ pc[j] = "stamp"
  /\ \/ coll # 0 /\ stamp' = "fresh"
     \/ UNCHANGED stamp
  /\ Goto(j, "ended")
  /\ UNCHANGED <<coll, created, chunks, gone, blank, tables, job, files, detail, at, doc,
                 handle, index, op, del, deletes, cleaner, deleted>>

Thread(j) ==
  \/ OpenCollection(j) \/ JobFails(j) \/ Extract(j)
  \/ IndexFile(j) \/ IndexFails(j) \/ MarkFile(j) \/ RegisterSummary(j) \/ TrackName(j)
  \/ FinishJob(j) \/ UpdateTimestamp(j)

-----------------------------------------------------------------------------
(* DELETE /documents: resolve the name, get the chunks, erase them, forget    *)
(* the entries of self._files, and unregister the summary.                    *)

StartDelete(n, ids, keys) ==
  /\ op = "free" /\ coll # 0 /\ CountDelete
  /\ op' = "get"
  /\ del' = [name |-> n, ids |-> ids, keys |-> keys, hits |-> {}, handle |-> coll,
             quiet |-> \A j \in Jobs : Running(j) => n \notin NamesOf(j)]
  /\ UNCHANGED <<store, tables, threads, cleaner, deleted>>

(* A name that is itself a key of self._files is not searched by value. *)
DeleteByName(n) ==
  StartDelete(n,
              IF n \in named THEN {} ELSE {e \in Entries : tracked[e] # "none" /\ NameOf(e) = n},
              {n} \intersect named)

DeleteById(e) == tracked[e] # "none" /\ StartDelete(NameOf(e), {e}, {})

EndDelete == op' = "free" /\ del' = NoDelete

(* The collection is gone, or nothing is known under that name. *)
DeleteFindsNothing ==
  /\ \/ op \in {"get", "erase"} /\ del.handle # coll
     \/ /\ op = "get" /\ del.ids = {} /\ del.keys = {}
        /\ \A e \in chunks : NameOf(e) # del.name
  /\ EndDelete
  /\ UNCHANGED <<store, tables, threads, deletes, cleaner, deleted>>

(* Mutant: only the chunks of the files found under the ID are erased. *)
GetChunksById ==
  /\ op = "get" /\ del.handle = coll
  /\ del' = [del EXCEPT !.hits = chunks \intersect del.ids]
  /\ op' = "erase"
  /\ UNCHANGED <<store, tables, threads, deletes, cleaner, deleted>>

GetChunks ==
  /\ op = "get" /\ del.handle = coll
  /\ LET hits == {e \in chunks : NameOf(e) = del.name}
     IN /\ hits # {} \/ del.ids # {} \/ del.keys # {}
        /\ del' = [del EXCEPT !.hits = hits]
        /\ op' = IF hits = {} THEN "untrack" ELSE "erase"
  /\ UNCHANGED <<store, tables, threads, deletes, cleaner, deleted>>

EraseChunks ==
  /\ op = "erase" /\ del.handle = coll
  /\ chunks' = chunks \ del.hits
  /\ gone' = gone \union del.hits
  /\ op' = "untrack"
  /\ UNCHANGED <<coll, created, stamp, blank, tables, threads, del, deletes, cleaner, deleted>>

Untrack ==
  /\ op = "untrack"
  /\ tracked' = [e \in Entries |-> IF e \in del.ids THEN "none" ELSE tracked[e]]
  /\ named' = named \ del.keys
  /\ op' = "unregister"
  /\ UNCHANGED <<store, summaries, threads, del, deletes, cleaner, deleted>>

Unregister ==
  /\ op = "unregister"
  /\ \/ /\ summaries' = summaries \ {del.name}
        /\ deleted' = IF del.quiet THEN deleted \union {del.name} ELSE deleted
     \/ UNCHANGED <<summaries, deleted>>
  /\ EndDelete
  /\ UNCHANGED <<store, tracked, named, threads, deletes, cleaner>>

-----------------------------------------------------------------------------
Requests ==
  \/ CreateCollection \/ DeleteCollection \/ DeleteCollectionSummaries
  \/ \E j \in Jobs : (\E fs \in Uploads[j] : Upload(j, fs)) \/ UploadFails(j) \/ Submit(j)
  \/ \E n \in Names : DeleteByName(n)
  \/ \E e \in Entries : DeleteById(e)
  \/ DeleteFindsNothing \/ GetChunks \/ EraseChunks \/ Untrack \/ Unregister

CleanUp == Expire \/ CleanerLists \/ CleanerDeletes \/ CleanerClears

Next == Requests \/ CleanUp \/ \E j \in Jobs : Thread(j)

Spec == Init /\ [][Next]_vars

-----------------------------------------------------------------------------
TypeOK ==
  /\ created \in Nat /\ coll \in 0..created
  /\ stamp \in {"none", "fresh", "old"}
  /\ chunks \subseteq Entries /\ gone \subseteq Entries /\ blank \subseteq Entries
  /\ summaries \subseteq Names /\ named \subseteq Names /\ deleted \subseteq Names
  /\ tracked \in [Entries -> Statuses \union {"none"}]
  /\ detail \in [Entries -> Statuses \union {"none"}]
  /\ job \in [Jobs -> {"none", "PENDING", "PROCESSING", "COMPLETED", "FAILED"}]
  /\ files \in [Jobs -> FileLists \union {<<>>}]
  /\ pc \in [Jobs -> Working \union {"none", "reading", "stamp", "ended"}]
  /\ at \in [Jobs -> 1..(MaxFiles + 1)]
  /\ doc \in [Jobs -> {"none"} \union Documents]
  /\ handle \in [Jobs -> 0..created]
  /\ index \in [Jobs -> BOOLEAN]
  /\ deletes \in Nat
  /\ op \in {"free", "clear", "get", "erase", "untrack", "unregister"}
  /\ del \in [name : Names, ids : SUBSET Entries, keys : SUBSET Names, hits : SUBSET Entries,
              handle : 0..created, quiet : BOOLEAN]
  /\ cleaner \in {"idle", "expired", "clear"}

(* Files that were indexed to the end, or at least got chunks. *)
Indexed == chunks \union gone \union blank

(* A file that its job reports as ingested went into the index whole: it can  *)
(* be searched unless its documents hold no text at all, or a request or the  *)
(* clean-up erased it, whatever order of deletions, re-creations and failures *)
(* of other files (adapter.py:1457-1484).                                     *)
SuccessIsSearchable == \A e \in Entries : detail[e] = "SUCCESS" => e \in Indexed

Accounted(e) ==
  \/ detail[e] = "SUCCESS" /\ e \in Indexed
  \/ detail[e] = "FAILED" /\ tracked[e] \in {"FAILED", "none"}

(* A completed job leaves no file behind: each went into the index, or failed *)
(* and is so listed by list_files, which finds failed files in self._files    *)
(* only, until somebody deletes it (adapter.py:612-642).                      *)
CompletedIsAccounted ==
  \A j \in Jobs : job[j] = "COMPLETED" => \A e \in FilesOf(j) : Accounted(e)

(* The agents are told of a document, by its summary, only after a file of    *)
(* that name went into the index, and never of one that failed in it          *)
(* (adapter.py:1458-1491); a blank one is announced and has no chunk.         *)
SummariesWereIndexed == \A n \in summaries : \E e \in Indexed : NameOf(e) = n

(* A name that was deleted while no thread was ingesting a file of that name  *)
(* stays deleted, chunks and summary, until it is uploaded again: no other    *)
(* file, job or collection brings it back (adapter.py:1018-1110).             *)
DeleteSticks ==
  \A n \in deleted : n \notin summaries /\ \A e \in chunks : NameOf(e) # n

(* To a client that polls an upload, jobs and files only go forward, and a    *)
(* job is completed only with every file settled: IngestionReport, the        *)
(* promise of both backends (_run_ingestion, adapter.py:1257-1567).           *)
Report == INSTANCE IngestionReport
ReportSpec == Report!ReportSpec
=============================================================================
