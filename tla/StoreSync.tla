----------------------------- MODULE StoreSync -----------------------------
(***************************************************************************)
(* The two persistent stores of a project and the tasks that write them.   *)
(*                                                                         *)
(* The vector index (one file, replaced atomically) and the Tantivy        *)
(* full-text index (committed atomically) cannot be written together.  A   *)
(* marker file is created before either changes and removed after both are *)
(* durable; whoever finds it rebuilds the full-text index from the vector  *)
(* index.  Watcher events, ingests and manual module runs are the writers. *)
(* Each takes the module run lock for its whole life, reloads the shared   *)
(* index handle, and proceeds through the phases below; edits of the       *)
(* sources, failures and crashes may happen between any two of them.       *)
(***************************************************************************)
EXTENDS Naturals, Sequences, FiniteSets

CONSTANTS
  Files,       \* paths of documents
  Bodies,      \* texts below the frontmatter: what is chunked and embedded
  Metas,       \* frontmatters
  None,        \* absent
  Unread,      \* what an ingest knows of a file it did not, or could not, parse
  MaxEdits,    \* bound on changes of the sources
  MaxFails,    \* bound on failed operations
  MaxCrashes,  \* bound on crashes
  MaxRuns      \* bound on ingests and manual module runs

ASSUME BoundsAssumption == {MaxEdits, MaxFails, MaxCrashes, MaxRuns} \subseteq Nat

VARIABLES
  src,       \* the documents on disk
  events,    \* file events the watcher has not handled
  disk,      \* the index file: for each document its hash and embedded body
  made,      \* the stores that exist in a version this build can read
  foreign,   \* the index holds vectors of another embedding space
  fts,       \* the committed full-text index: the body found for each document
  marker,    \* .markdownvdb/fts-reconcile exists
  mem,       \* the index handle
  dirty,     \* its dirty flag
  staged,    \* what a commit of the full-text writer would publish
  up,        \* a process has the project open for writing
  watching,  \* its watcher is running
  rebuilt,   \* index_rebuilt: the open had to recreate the index
  task,      \* the task holding the module run lock
  phase,     \* where it is
  event,     \* the event it handles
  only,      \* `ingest --file`, None for a collection-wide ingest
  full,      \* `ingest --reindex`
  parsed,    \* documents as the task read them
  taken,     \* history: documents it has read and that did not change since
  unsynced,  \* history: documents no queued event will bring up to date
  cause,     \* history: why the stores may differ on a document
  edits, fails, crashes, runs  \* counters of the bounds

stores == <<disk, made, foreign, fts, marker>>
memory == <<mem, dirty, staged>>
process == <<up, watching, rebuilt>>
work == <<event, only, full, parsed>>
counters == <<edits, fails, crashes, runs>>
vars == <<src, events, stores, memory, process, task, phase, work, taken, unsynced,
          cause, counters>>

Content == [body : Bodies, meta : Metas]
Entry == [hash : Content, emb : Bodies \cup {None}]
Events == [kind : {"change", "rename", "schema"}, file : Files \cup {None},
           from : Files \cup {None}]
NoEvent == [kind |-> "schema", file |-> None, from |-> None]
Empty == [f \in Files |-> None]

ASSUME NoneAssumption ==
  None \notin Files /\ None \notin Bodies /\ None \notin Content /\ None \notin Entry

ASSUME UnreadAssumption == Unread # None

\* Faulty: the two hashes swapped.
IndexedSwapped(c) == [hash |-> c.body, emb |-> c]

\* Both hashes of an up-to-date entry: of the whole source and of its body.
Indexed(c) == [hash |-> c, emb |-> c.body]

\* The full-text documents of an index; a provisional entry (emb None) has none.
Proj(ix) == [f \in Files |-> IF ix[f] = None THEN None ELSE ix[f].emb]

EventFiles(e) == {e.file, e.from} \ {None}
Queued == UNION {EventFiles(events[i]) : i \in 1..Len(events)}
InHand == IF task = "event" THEN EventFiles(event) ELSE {}

Init ==
  /\ src \in [Files -> Content \cup {None}]
  /\ events = <<>> /\ disk = Empty /\ made = {} /\ foreign = FALSE /\ fts = Empty /\ marker = FALSE
  /\ mem = Empty /\ dirty = FALSE /\ staged = Empty
  /\ up = FALSE /\ watching = FALSE /\ rebuilt = FALSE
  /\ task = "none" /\ phase = "none" /\ event = NoEvent /\ only = None /\ full = FALSE
  /\ parsed = Empty /\ taken = {}
  /\ unsynced = {f \in Files : src[f] # None}
  /\ cause = [f \in Files |-> "none"]
  /\ edits = 0 /\ fails = 0 /\ crashes = 0 /\ runs = 0

-----------------------------------------------------------------------------
(* The sources change; a running watcher queues an event. *)

Notice(e) ==
  /\ edits < MaxEdits /\ edits' = edits + 1
  /\ events' = IF watching THEN Append(events, e) ELSE events
  /\ unsynced' = IF watching THEN unsynced ELSE unsynced \cup EventFiles(e)
  /\ taken' = taken \ EventFiles(e)
  /\ UNCHANGED <<stores, memory, process, task, phase, work, cause, fails, crashes, runs>>

Edit(f, c) ==
  /\ src[f] # c /\ src' = [src EXCEPT ![f] = c]
  /\ Notice([kind |-> "change", file |-> f, from |-> None])

Rename(f, g) ==
  /\ f # g /\ src[f] # None
  /\ src' = [src EXCEPT ![f] = None, ![g] = src[f]]
  /\ Notice([kind |-> "rename", file |-> g, from |-> f])

EditSchema == watching /\ UNCHANGED src /\ Notice(NoEvent)

-----------------------------------------------------------------------------
(* The life of a task *)

\* A task ends; `left` are the documents it leaves in need of another look.
Done(left) ==
  /\ task' = "none" /\ phase' = "none"
  /\ event' = NoEvent /\ only' = None /\ full' = FALSE /\ parsed' = Empty
  /\ taken' = {} /\ unsynced' = left

Goto(p) == phase' = p /\ UNCHANGED <<task, work, taken, unsynced>>
Fails == fails < MaxFails /\ fails' = fails + 1
NoFails == fails' = fails

\* reload_from_disk_if_clean under the lock, then recover_if_required.
Start(t) ==
  /\ up /\ task = "none" /\ ~dirty
  /\ mem' = disk /\ task' = t
  /\ UNCHANGED <<src, stores, dirty, staged, process, taken, unsynced, cause, edits,
                 fails, crashes>>

AfterLock == IF marker THEN "recover" ELSE "ready"

StartEvent ==
  /\ events # <<>> /\ Start("event")
  /\ event' = Head(events) /\ events' = Tail(events)
  /\ phase' = AfterLock
  /\ UNCHANGED <<only, full, parsed, runs>>

\* Faulty: the event goes back to the queue and is tried again.
RequeueEvent ==
  /\ up /\ events # <<>>
  /\ events' = Append(Tail(events), Head(events))
  /\ UNCHANGED <<src, stores, memory, process, task, phase, work, taken, unsynced, cause,
                 edits, crashes, runs>>

\* An event is reported as failed and dropped: the handle is dirty, or another
\* task holds the lock for too long.
DropEvent ==
  /\ up /\ events # <<>>
  /\ events' = Tail(events) /\ unsynced' = unsynced \cup EventFiles(Head(events))
  /\ UNCHANGED <<src, stores, memory, process, task, phase, work, taken, cause, edits,
                 crashes, runs>>
RefuseEvent == task = "none" /\ dirty /\ DropEvent /\ NoFails
LockTimeout == task \in {"ingest", "modules"} /\ DropEvent /\ Fails

\* An ingest is refused when a recreated index asks for a collection-wide one,
\* or a changed embedding space for a reindex.
StartIngest(f, whole) ==
  /\ (rebuilt => f = None) /\ (foreign => whole)
  /\ runs < MaxRuns /\ runs' = runs + 1
  /\ Start("ingest")
  /\ only' = f /\ full' = whole /\ phase' = AfterLock
  /\ UNCHANGED <<events, event, parsed>>

\* run_module recovers after its save, not before its work.
StartModules ==
  /\ ~rebuilt /\ runs < MaxRuns /\ runs' = runs + 1
  /\ Start("modules") /\ phase' = "ready"
  /\ UNCHANGED <<events, work>>

\* rebuild_from_vector_index, up to its commit.
Recover ==
  /\ phase = "recover"
  /\ staged' = Proj(mem) /\ fts' = Proj(mem)
  /\ cause' = [f \in Files |-> "none"]
  /\ Goto("retire") /\ UNCHANGED <<src, events, disk, made, foreign, marker, mem, dirty, process, counters>>

\* finish_reconciliation after a recovery.
Retire ==
  /\ phase = "retire"
  /\ marker' = FALSE
  /\ IF task \in {"event", "ingest"} THEN Goto("ready") ELSE Done(unsynced)
  /\ UNCHANGED <<src, events, disk, made, foreign, fts, memory, process, cause, counters>>

\* run_locked's save; manual module runs then recover if they must.
Save ==
  /\ phase \in {"save", "save_meta"}
  /\ disk' = mem /\ dirty' = FALSE
  /\ foreign' = (foreign /\ task # "ingest")
  /\ IF task = "modules"
     THEN IF marker THEN Goto("recover") ELSE Done(unsynced)
     ELSE Goto(IF phase = "save" THEN "commit" ELSE "finish")
  /\ UNCHANGED <<src, events, made, fts, marker, mem, staged, process, cause, counters>>

Commit ==
  /\ phase = "commit" /\ fts' = staged
  /\ Goto("finish")
  /\ UNCHANGED <<src, events, disk, made, foreign, marker, memory, process, cause, counters>>

\* finish_reconciliation: the task has succeeded.
Finish ==
  /\ phase = "finish" /\ marker' = FALSE
  /\ rebuilt' = (rebuilt /\ (task = "ingest" => only # None))
  /\ Done((unsynced \cup InHand) \ taken)
  /\ UNCHANGED <<src, events, disk, made, foreign, fts, memory, up, watching, cause, counters>>

\* Any call of the task returns an error: what it did to the handle, the staged
\* documents and the marker stays.
Fail ==
  /\ task # "none" /\ task # "open" /\ Fails
  /\ staged' \in IF phase = "recover" THEN {staged, Empty} ELSE {staged}
  /\ Done(unsynced \cup InHand)
  /\ UNCHANGED <<src, events, stores, mem, dirty, process, cause, edits, crashes, runs>>

-----------------------------------------------------------------------------
(* Opening and losing a process *)

\* The full-text writer is taken first; a missing full-text index is created
\* behind a marker.
Open ==
  /\ ~up /\ up' = TRUE
  /\ task' = "open" /\ phase' = "open" /\ staged' = fts
  /\ marker' = (marker \/ "fts" \notin made) /\ made' = made \cup {"fts"}
  /\ UNCHANGED <<src, events, disk, foreign, fts, mem, dirty, watching, rebuilt, work,
                 taken, unsynced, cause, counters>>

\* Faulty: a usable index is taken to need no repair.
OpenIndexOnly ==
  /\ phase = "open" /\ "index" \in made
  /\ mem' = disk /\ dirty' = FALSE
  /\ Done(unsynced)
  /\ UNCHANGED <<src, events, stores, staged, process, cause, counters>>

OpenIndex ==
  /\ phase = "open" /\ "index" \in made
  /\ mem' = disk /\ dirty' = FALSE
  /\ IF marker THEN Goto("recover") ELSE Done(unsynced)
  /\ UNCHANGED <<src, events, stores, staged, process, cause, counters>>

\* Faulty: the index is recreated without the hook.
RebuildUnmarked ==
  /\ phase = "open" /\ "index" \notin made
  /\ Goto("rebuild")
  /\ UNCHANGED <<src, events, stores, memory, process, cause, counters>>

\* A missing or unreadable index: the rebuild hook, then a new empty file.
RebuildHook ==
  /\ phase = "open" /\ "index" \notin made
  /\ marker' = TRUE /\ Goto("rebuild")
  /\ UNCHANGED <<src, events, disk, made, foreign, fts, memory, process, cause, counters>>

Rebuild ==
  /\ phase = "rebuild"
  /\ disk' = Empty /\ made' = made \cup {"index"} /\ foreign' \in {foreign, FALSE}
  /\ mem' = Empty /\ dirty' = FALSE /\ rebuilt' = TRUE
  /\ phase' = "recover" /\ unsynced' = unsynced \cup {f \in Files : src[f] # None}
  /\ UNCHANGED <<src, events, fts, marker, staged, up, watching, task, work, taken, cause, counters>>

StartWatch ==
  /\ up /\ task # "open" /\ ~watching /\ ~rebuilt /\ ~foreign
  /\ watching' = TRUE
  /\ UNCHANGED <<src, events, stores, memory, up, rebuilt, task, phase, work, taken,
                 unsynced, cause, counters>>

\* The process ends, at any point: the handle, the staged documents and the
\* queued events are gone.
Crash ==
  /\ up /\ crashes < MaxCrashes /\ crashes' = crashes + 1
  /\ up' = FALSE /\ watching' = FALSE /\ rebuilt' = FALSE
  /\ mem' = Empty /\ dirty' = FALSE /\ staged' = Empty /\ events' = <<>>
  /\ Done(unsynced \cup InHand \cup Queued)
  /\ UNCHANGED <<src, stores, cause, edits, fails, runs>>

\* Between two processes a store is found corrupted, deleted or of another
\* version, or the configuration moves to another embedding space.
LoseStore(s) ==
  /\ ~up /\ s \in made /\ Fails
  /\ made' = made \ {s}
  /\ fts' = IF s = "fts" THEN Empty ELSE fts
  /\ UNCHANGED <<src, events, disk, foreign, marker, memory, process, task, phase, work,
                 taken, unsynced, cause, edits, crashes, runs>>

ChangeSpace ==
  /\ ~up /\ ~foreign /\ Fails /\ foreign' = TRUE
  /\ UNCHANGED <<src, events, disk, made, fts, marker, memory, process, task, phase, work,
                 taken, unsynced, cause, edits, crashes, runs>>

-----------------------------------------------------------------------------
(* Watcher events: handle_event_inner and process_file *)

\* Dropping documents from, or putting one into, handle and full-text writer.
Without(fs) ==
  /\ mem' = [f \in Files |-> IF f \in fs THEN None ELSE mem[f]]
  /\ staged' = [f \in Files |-> IF f \in fs THEN None ELSE staged[f]]
  /\ cause' = [f \in Files |-> IF f \in fs THEN "none" ELSE cause[f]]
  /\ marker' = TRUE /\ dirty' = TRUE

\* The old path of a rename goes first, whatever becomes of the new one.
EventRename ==
  /\ task = "event" /\ phase = "ready" /\ event.kind = "rename"
  /\ Without({event.from})
  /\ Goto("renamed")
  /\ UNCHANGED <<src, events, disk, made, foreign, fts, process, counters>>

\* process_file has the path of the event before it.
AtFile(f) ==
  /\ task = "event" /\ f = event.file
  /\ phase = "renamed" \/ (phase = "ready" /\ event.kind = "change")

Reconciles(p, fs) ==
  /\ phase' = p /\ taken' = taken \cup fs
  /\ UNCHANGED <<src, events, disk, made, foreign, fts, process, task, work, unsynced, counters>>

EventGone(f) ==
  /\ AtFile(f) /\ src[f] = None
  /\ Without({f})
  /\ Reconciles("save", EventFiles(event))

\* Faulty: only the hash of the source is compared.
UnchangedByHash(e, c) == e # None /\ e.hash = c

\* Neither the source nor the embedded body differ from the entry.
Unchanged(e, c) == e # None /\ e.hash = c /\ e.emb = c.body
MetaOnly(e, c) == e # None /\ e.hash # c /\ e.emb = c.body

\* The old path's full-text document is staged for removal, without a commit.
AfterRename == IF phase = "renamed" THEN [cause EXCEPT ![event.from] = "rename"] ELSE cause

\* A true no-op, except that a rename has already dropped the old path.
EventUnchanged(f) ==
  /\ AtFile(f) /\ src[f] # None /\ Unchanged(mem[f], src[f])
  /\ cause' = AfterRename
  /\ Reconciles("finish", {f}) /\ UNCHANGED <<mem, dirty, staged, marker>>

\* A frontmatter-only change ends without a full-text commit.
EventRefresh(f) ==
  /\ AtFile(f) /\ src[f] # None /\ MetaOnly(mem[f], src[f])
  /\ mem' = [mem EXCEPT ![f].hash = src[f]] /\ dirty' = TRUE
  /\ cause' = AfterRename
  /\ Reconciles("save_meta", EventFiles(event)) /\ UNCHANGED <<staged, marker>>

\* The source is read, then embedded (an await), then written to the stores.
EventRead(f) ==
  /\ AtFile(f) /\ src[f] # None /\ ~Unchanged(mem[f], src[f]) /\ ~MetaOnly(mem[f], src[f])
  /\ parsed' = [parsed EXCEPT ![f] = src[f]]
  /\ phase' = "embed" /\ taken' = EventFiles(event)
  /\ UNCHANGED <<src, events, stores, memory, process, task, event, only, full, unsynced,
                 cause, counters>>

\* Faulty: the marker is left to the callers.
EventUpsertUnmarked(f) ==
  /\ task = "event" /\ phase = "embed" /\ f = event.file
  /\ mem' = [mem EXCEPT ![f] = Indexed(parsed[f])] /\ dirty' = TRUE
  /\ staged' = [staged EXCEPT ![f] = parsed[f].body]
  /\ cause' = [cause EXCEPT ![f] = "none"]
  /\ Reconciles("save", {}) /\ UNCHANGED marker

EventUpsert(f) ==
  /\ task = "event" /\ phase = "embed" /\ f = event.file
  /\ marker' = TRUE
  /\ mem' = [mem EXCEPT ![f] = Indexed(parsed[f])] /\ dirty' = TRUE
  /\ staged' = [staged EXCEPT ![f] = parsed[f].body]
  /\ cause' = [cause EXCEPT ![f] = "none"]
  /\ Reconciles("save", {})

\* upsert fails half-way: the old entry is gone, the dirty flag was not reached.
EventUpsertFails(f) ==
  /\ task = "event" /\ phase = "embed" /\ f = event.file /\ Fails
  /\ marker' = TRUE /\ mem' = [mem EXCEPT ![f] = None]
  /\ Done(unsynced \cup InHand)
  /\ UNCHANGED <<src, events, disk, made, foreign, fts, dirty, staged, process, cause, edits,
                 crashes, runs>>

\* The schema overlay changed: schemas and modules are refreshed, no document.
EventSchema ==
  /\ task = "event" /\ phase = "ready" /\ event.kind = "schema"
  /\ dirty' = TRUE
  /\ Reconciles("save_meta", {}) /\ UNCHANGED <<mem, staged, marker, cause>>

-----------------------------------------------------------------------------
(* Ingest *)

\* Discovery and parsing: `bad` cannot be parsed, or vanished after discovery.
IngestParse(bad) ==
  /\ task = "ingest" /\ phase = "ready"
  /\ bad \subseteq {f \in Files : src[f] # None /\ only \in {None, f}}
  /\ only # None => src[only] # None
  /\ IF bad = {} THEN NoFails ELSE Fails
  /\ parsed' = [f \in Files |-> IF f \in bad \/ only \notin {None, f} THEN Unread ELSE src[f]]
  /\ taken' = {f \in Files : parsed'[f] # Unread}
  /\ phase' = "embed"
  /\ UNCHANGED <<src, events, stores, memory, process, task, event, only, full, unsynced,
                 cause, edits, crashes, runs>>

\* `ingest --file` of a file that is not there.
IngestMissing ==
  /\ task = "ingest" /\ phase = "ready" /\ only # None /\ src[only] = None
  /\ Done(unsynced)
  /\ UNCHANGED <<src, events, stores, memory, process, cause, counters>>

\* A cancelled ingest saves the handle as it is, before anything was changed.
IngestCancel ==
  /\ task = "ingest" /\ phase \in {"ready", "embed"}
  /\ disk' = mem /\ dirty' = FALSE
  /\ Done(unsynced)
  /\ UNCHANGED <<src, events, made, foreign, fts, marker, mem, staged, process, cause, counters>>

Read == {f \in Files : parsed[f] \notin {None, Unread}}
Vanished == {f \in Files : parsed[f] = None /\ mem[f] # None}
Refreshed == {f \in Read : ~full /\ MetaOnly(mem[f], parsed[f])}
Reembedded == {f \in Read : full \/ ~(Unchanged(mem[f], parsed[f]) \/ MetaOnly(mem[f], parsed[f]))}

\* The entries after the reset that a changed embedding space calls for and the
\* upserts of `done`.
Upserted(done) ==
  [f \in Files |->
     IF f \in done THEN Indexed(parsed[f])
     ELSE IF foreign \/ mem[f] = None THEN None
     ELSE IF f \in Refreshed THEN [mem[f] EXCEPT !.hash = parsed[f]]
     ELSE mem[f]]

\* An empty full-text index beside an index with documents is filled again.
Refill == ~full /\ fts = Empty /\ mem # Empty

\* The staged documents after delete_all (of a reindex) and the upserts of `done`.
Restaged(done) ==
  [f \in Files |-> IF f \in done THEN parsed[f].body ELSE IF full THEN None ELSE staged[f]]

\* Everything between the embedding and the save.
IngestApply ==
  /\ task = "ingest" /\ phase = "embed"
  /\ marker' = TRUE /\ dirty' = TRUE
  /\ mem' = [f \in Files |-> IF f \in Vanished THEN None ELSE Upserted(Reembedded)[f]]
  /\ staged' = [f \in Files |->
       IF f \in Vanished THEN None
       ELSE IF Refill /\ f \notin Reembedded /\ Proj(mem)[f] # None THEN Proj(mem)[f]
       ELSE Restaged(Reembedded)[f]]
  /\ cause' = [f \in Files |->
       IF f \in Reembedded \cup Vanished \/ (full /\ mem'[f] = None) THEN "none"
       ELSE IF full THEN IF only = None THEN "unparsed" ELSE "scoped"
       ELSE IF Refill /\ Proj(mem)[f] # None THEN "none" ELSE cause[f]]
  /\ unsynced' = unsynced \cup {f \in Files \ Reembedded : foreign /\ mem[f] # None}
  /\ phase' = "save"
  /\ UNCHANGED <<src, events, disk, made, foreign, fts, process, task, work, taken, counters>>

\* upsert of g fails half-way after those of `done`.
IngestApplyFails(done, g) ==
  /\ task = "ingest" /\ phase = "embed" /\ Fails
  /\ done \subseteq Reembedded /\ g \in Reembedded \ done
  /\ marker' = TRUE
  /\ dirty' = (foreign \/ Refreshed # {} \/ done # {})
  /\ mem' = [Upserted(done) EXCEPT ![g] = None]
  /\ staged' = Restaged(done)
  /\ Done(unsynced)
  /\ UNCHANGED <<src, events, disk, made, foreign, fts, process, cause, edits, crashes, runs>>

-----------------------------------------------------------------------------
(* Manual module runs *)

\* refresh_manual_sources: membership and hashes follow the sources, vectors and
\* full-text documents do not; `bad` cannot be parsed.
ModulesRefresh(bad) ==
  LET gone == {f \in Files : src[f] = None /\ mem[f] # None}
      new == {f \in Files \ bad : src[f] # None /\ mem[f] = None}
  IN
  /\ task = "modules" /\ phase = "ready"
  /\ bad \subseteq {f \in Files : src[f] # None}
  /\ IF bad = {} THEN NoFails ELSE Fails
  /\ marker' = (marker \/ gone \cup new # {}) /\ dirty' = TRUE
  /\ mem' = [f \in Files |->
       IF f \in new THEN [hash |-> src[f], emb |-> None]
       ELSE IF f \in gone \/ mem[f] = None THEN None
       ELSE IF f \in bad THEN mem[f] ELSE [mem[f] EXCEPT !.hash = src[f]]]
  /\ Goto("save")
  /\ UNCHANGED <<src, events, disk, made, foreign, fts, staged, process, cause, edits,
                 crashes, runs>>

-----------------------------------------------------------------------------
\* What the program does when nothing fails, a new process included.
Progress ==
  \/ Open \/ OpenIndex \/ RebuildHook \/ Rebuild
  \/ StartEvent \/ RefuseEvent \/ Recover \/ Retire \/ Save \/ Commit \/ Finish
  \/ EventRename \/ EventSchema \/ IngestParse({}) \/ IngestMissing \/ IngestApply
  \/ ModulesRefresh({})
  \/ \E f \in Files :
       EventGone(f) \/ EventUnchanged(f) \/ EventRefresh(f) \/ EventRead(f) \/ EventUpsert(f)

Failures ==
  \/ Fail \/ LockTimeout \/ Crash \/ ChangeSpace
  \/ \E s \in {"index", "fts"} : LoseStore(s)
  \/ \E f \in Files : EventUpsertFails(f)
  \/ \E bad \in SUBSET Files \ {{}} : IngestParse(bad) \/ ModulesRefresh(bad)
  \/ \E done \in SUBSET Files, g \in Files : IngestApplyFails(done, g)

Users ==
  \/ \E f \in Files, c \in Content \cup {None} : Edit(f, c)
  \/ \E f, g \in Files : Rename(f, g)
  \/ EditSchema \/ StartWatch \/ StartModules \/ IngestCancel
  \/ \E f \in Files \cup {None}, whole \in BOOLEAN : StartIngest(f, whole)

Next == Progress \/ Failures \/ Users

Spec == Init /\ [][Next]_vars
FairSpec == Spec /\ WF_vars(Progress)

-----------------------------------------------------------------------------
(* Properties *)

Tasks == {"none", "open", "event", "ingest", "modules"}
Phases == {"none", "open", "rebuild", "recover", "retire", "ready", "renamed", "embed",
           "save", "save_meta", "commit", "finish"}
Causes == {"none", "rename", "scoped", "unparsed"}
Index == [Files -> Entry \cup {None}]
Texts == [Files -> Bodies \cup {None}]

\* Every variable has the shape of its counterpart.
TypeOK ==
  /\ src \in [Files -> Content \cup {None}] /\ events \in Seq(Events)
  /\ disk \in Index /\ made \subseteq {"index", "fts"} /\ foreign \in BOOLEAN
  /\ fts \in Texts /\ marker \in BOOLEAN
  /\ mem \in Index /\ dirty \in BOOLEAN /\ staged \in Texts
  /\ up \in BOOLEAN /\ watching \in BOOLEAN /\ rebuilt \in BOOLEAN
  /\ task \in Tasks /\ phase \in Phases /\ event \in Events
  /\ only \in Files \cup {None} /\ full \in BOOLEAN
  /\ parsed \in [Files -> Content \cup {None, Unread}]
  /\ taken \subseteq Files /\ unsynced \subseteq Files /\ cause \in [Files -> Causes]
  /\ {edits, fails, crashes, runs} \subseteq Nat

Agree(f) == fts[f] = Proj(disk)[f]

\* Whoever finds no marker may trust the full-text index to describe the
\* documents of the index file, whatever failed or died before, save for the
\* documents three known defects concern: a rename whose new path needs no embedding,
\* a scoped reindex, and a reindex of a document that fails to parse.
NoSilentSplit ==
  "fts" \in made /\ ~marker => \A f \in Files : cause[f] = "none" => Agree(f)

\* "The marker is deliberately created before either store is mutated": neither
\* the full-text index nor the documents of the index file change without it.
MarkerPrecedesChange ==
  [][fts' # fts \/ Proj(disk') # Proj(disk) => marker \/ "fts" \notin made']_vars

InSync(f) == IF src[f] = None THEN disk[f] = None ELSE disk[f] = Indexed(src[f])

\* No change of a source is forgotten: a document whose entry is not up to date
\* has an event queued or in hand, or changed while nobody watched, or its event
\* failed; a completed event or ingest brings up to date whatever it read and
\* nobody touched since.
StaleOnlyIfKnown ==
  \A f \in Files : InSync(f) \/ f \in unsynced \cup Queued \cup InHand

\* After one failed event the loop goes on with the later ones: none of them is
\* refused because of what another left behind.
LaterEventsProcessed == [][~RefuseEvent]_vars

\* A process started after a crash repairs what the crash tore.
CrashesRepaired == (~up /\ marker) ~> ~marker

\* Once the sources rest, every document is indexed as it is, or known not to be.
Settles == <>[](\A f \in Files \ unsynced : InSync(f))
=============================================================================
